----------------------------- MODULE ProofTrie -----------------------------
(***************************************************************************)
(* WasmProofTrie: a partial trie and the witness it was built from.  A     *)
(* mutation works on a copy of the trie that is kept only if it succeeds;  *)
(* a get works on the trie itself; the provider of both is the witness.    *)
(* A witness that comes later is merged into the trie as it stands.        *)
(*                                                                         *)
(* The steps of a call are those of PartialTrie, which see the copy as     *)
(* their `trie`.  The page is single-threaded: calls are made one at a     *)
(* time, and witnesses arrive between them.                                *)
(***************************************************************************)
EXTENDS PartialTrie

VARIABLES
    inner,     \* the trie between calls
    witness    \* the hashes of the nodes that the witness holds

proofVars == <<vars, inner, witness>>

(* T with every Stub that `nodes` knows replaced by the node it stands for, *)
(* its children loaded as far as `deeper` knows them.                       *)
LoadStubs(T, nodes, deeper) ==
    LET known == {p \in StubsOf(T) : T[p].hash \in nodes}
        loaded(p) == decode_node(deeper, T[p].hash)
        above(q) == CHOOSE p \in known : starts_with(q, p)
    IN [q \in DOMAIN T \cup UNION {{p \o r : r \in DOMAIN loaded(p)} : p \in known} |->
          IF \E p \in known : starts_with(q, p)
          THEN loaded(above(q))[Drop(q, Len(above(q)))]
          ELSE T[q]]

(* MUTANT: what a resolved Stub exposes is not resolved in its turn. *)
ResolveStubsOnce(T, nodes) == LoadStubs(T, nodes, {})

(* Decoding a node and descending into what it exposes comes to decoding it *)
(* with all the nodes at hand.                                              *)
resolve_stubs(T, nodes) == LoadStubs(T, nodes, nodes)

(* The proof of a key whose walk through the complete trie S ends at w: the *)
(* nodes on the way that are not inlined.                                   *)
Proof(S, w) == {Subtree(S, p) : p \in {q \in Hashed(S) : starts_with(w, q)}}

(* A witness may lack any nodes, and have some below those it lacks.        *)
from_witness ==
    /\ Init
    /\ witness \in SUBSET HashesOf(backing)
    /\ trie = build_partial(witness, backing)
    /\ inner = trie

Begin(request) ==
    /\ pc = "idle"
    /\ call' = request
    /\ pc' = "walk"
    /\ pos' = <<>>
    /\ out' = Nothing
    /\ trie' = inner
    /\ UNCHANGED <<backing, want, lost, inner, witness>>

(* The provider has what the witness has. *)
Provided ==
    /\ Resolve \/ ResolveSibling
    /\ (out'.status # "missing") = (trie[Asked].hash \in witness)

(* MUTANT: a mutation works on the trie itself, and an error leaves it so. *)
InPlace ==
    /\ Provided \/ Walking
    /\ inner' = IF pc' = "idle" THEN trie' ELSE inner
    /\ UNCHANGED witness

(* What a call has done to its copy is kept when it returns Ok; a get had   *)
(* no copy, and what it resolved stays resolved.                            *)
transactional ==
    /\ Provided \/ Walking
    /\ inner' = IF pc' = "idle" /\ (out'.status = "ok" \/ call.op = "get") THEN trie' ELSE inner
    /\ UNCHANGED witness

(* MUTANT: the trie is built again from its first root. *)
RebuildWitness(nodes) ==
    /\ pc = "idle"
    /\ witness' = witness \cup nodes
    /\ inner' = build_partial(witness', backing)
    /\ trie' = inner'
    /\ UNCHANGED <<backing, call, pc, pos, out, want, lost>>

add_witness(nodes) ==
    /\ pc = "idle"
    /\ witness' = witness \cup nodes
    /\ inner' = resolve_stubs(inner, witness')
    /\ trie' = inner'
    /\ UNCHANGED <<backing, call, pc, pos, out, want, lost>>

Begins ==
    \E k \in Keys :
        \/ \E v \in Value : Begin([op |-> "insert", key |-> k, value |-> v])
        \/ Begin([op |-> "get", key |-> k, value |-> NoValue])
        \/ Begin([op |-> "remove", key |-> k, value |-> NoValue])

ProofNext ==
    \/ Begins
    \/ transactional
    \/ \E w \in DOMAIN backing : add_witness(Proof(backing, w))

ProofSpec == from_witness /\ [][ProofNext]_proofVars

-----------------------------------------------------------------------------
(* Properties *)

(* Between calls the trie commits to the bindings that the successful calls *)
(* add up to: failed attempts and late witnesses leave no trace.            *)
InnerCommits == pc = "idle" => node_root(inner) = Canonical(want)

(* The trie between calls is well formed, and its Stubs are where they were *)
(* in the trie the witness is of, each for a node with 32 bytes or more.    *)
InnerShape ==
    /\ WellFormed(inner)
    /\ \A p \in StubsOf(inner) :
          p \in Hashed(backing) /\ inner[p].hash = Subtree(backing, p)

(* All that the witness knows is loaded, whatever came first, the witness   *)
(* or the edit that put the Stub in its reach.  So a node that an error     *)
(* calls missing was in no witness, and fetching it is not in vain.         *)
WitnessSpent == \A p \in StubsOf(inner) : inner[p].hash \notin witness

(* A node that a mutation misses is on the walk of some key to the place    *)
(* that the error names, so the proof of a probe key whose walk passes that *)
(* place holds it, and adding the proof resolves the Stub.                  *)
ProbeHelps ==
    out.status = "missing" /\ call.op # "get" =>
        /\ out.path \in DOMAIN backing
        /\ \A w \in DOMAIN backing : starts_with(w, out.path) => out.hash \in Proof(backing, w)

(* A call takes effect when it returns, once, or not at all.                *)
MapOf == INSTANCE AuthMap WITH
    Losing <- {},
    map <- Contents(Expand(inner)),
    request <- call,
    stage <- IF pc = "idle" THEN "idle" ELSE "called",
    reply <- out

KeepsPromise == MapOf!Spec

=============================================================================
