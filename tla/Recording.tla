----------------------------- MODULE Recording -----------------------------
(***************************************************************************)
(* RecordingProvider as a witness builder, in front of a provider of        *)
(* RemoteNodes as in the block replays: a workload runs on a partial trie, *)
(* the recorder notes what was resolved, and the same workload is replayed *)
(* on the trie built from the notes, without a provider.  A replay may     *)
(* leave one of the noted nodes out.                                       *)
(***************************************************************************)
EXTENDS RemoteNodes

CONSTANT MaxCalls    \* bound: the calls of a workload

ASSUME MaxCallsAssumption == MaxCalls \in Nat

VARIABLES
    known,      \* the nodes the trie had loaded from the start
    seen,       \* what the provider resolved: paths and hashes, in order
    log,        \* the calls of the workload
    stage,      \* "record" or "replay"
    left,       \* the calls that are still to be replayed
    dropped,    \* the noted nodes that the replay does without
    recorded    \* the root that the workload ended with

recVars == <<remoteVars, known, seen, log, stage, left, dropped, recorded>>

Note == [path |-> Asked, hash |-> trie[Asked].hash]

(* MUTANT: only what a walk asks for is noted, no sibling on the way back. *)
NoteOnWalk(found) == IF found /\ pc = "walk" THEN Append(seen, Note) ELSE seen

(* MUTANT: a child that comes into reach is noted with the node. *)
NoteChild(found) ==
    LET node == decode_node({}, Note.hash)
        child == CHOOSE p \in StubsOf(node) : TRUE
    IN IF ~found THEN seen
       ELSE IF StubsOf(node) = {} THEN Append(seen, Note)
       ELSE seen \o <<Note, [path |-> Asked \o child, hash |-> node[child].hash]>>

(* A node is noted when there are bytes to return. *)
NoteIf(found) == IF found THEN Append(seen, Note) ELSE seen

replaying == <<known, seen, log, stage, left, dropped, recorded>>

recording_get ==
    /\ stage = "record"
    /\ get
    /\ seen' = NoteIf(out'.status # "missing")
    /\ UNCHANGED <<known, log, stage, left, dropped, recorded>>

(* NoProvider, of the methods without `_with`. *)
get_none ==
    /\ stage = "replay"
    /\ Resolve \/ ResolveSibling
    /\ out'.status = "missing"
    /\ UNCHANGED <<pinned, latest, cache, replaying>>

Walks == Walking /\ UNCHANGED <<pinned, latest, cache, replaying>>

ChainMoves == stage = "record" /\ pc # "idle" /\ Advance /\ UNCHANGED replaying

(* The callers stop at the first call that fails. *)
NextCall ==
    /\ stage = "record"
    /\ out.status # "missing"
    /\ Len(log) < MaxCalls
    /\ Calls
    /\ log' = Append(log, call')
    /\ UNCHANGED <<pinned, latest, cache, known, seen, stage, left, dropped, recorded>>

(* The nodes of the trie as it is loaded. *)
LoadedOf(T) == {Subtree(backing, p) : p \in Hashed(backing) \cap (DOMAIN T \ StubsOf(T))}

Noted == {seen[i].hash : i \in DOMAIN seen}

StartReplay ==
    /\ stage = "record"
    /\ pc = "idle"
    /\ log # <<>>
    /\ out.status = "ok"
    /\ stage' = "replay"
    /\ left' = log
    /\ dropped' \in {{}} \cup {{hash} : hash \in Noted \ known}
    /\ recorded' = node_root(trie)
    /\ trie' = build_partial(known \cup (Noted \ dropped'), backing)
    /\ out' = Nothing
    /\ want' = Contents(backing)
    /\ UNCHANGED <<backing, call, pc, pos, lost, pinned, latest, cache, known, seen, log>>

Replay ==
    /\ stage = "replay"
    /\ left # <<>>
    /\ out.status # "missing"
    /\ Call(Head(left))
    /\ left' = Tail(left)
    /\ UNCHANGED <<pinned, latest, cache, known, seen, log, stage, dropped, recorded>>

RecInit ==
    /\ RemoteInit
    /\ known = LoadedOf(trie)
    /\ seen = <<>> /\ log = <<>>
    /\ stage = "record"
    /\ left = <<>> /\ dropped = {} /\ recorded = Null

RecNext ==
    recording_get \/ get_none \/ Walks \/ ChainMoves \/ NextCall \/ StartReplay \/ Replay

RecSpec == RecInit /\ [][RecNext]_recVars

-----------------------------------------------------------------------------
(* Properties *)

(* A node is reported missing only by a provider that is not pinned and     *)
(* whose chain has something else at that place by now, or because the      *)
(* request failed.  No edit of the trie, no padding of a probe and nothing  *)
(* in the cache makes a node miss.                                          *)
MissIsRace ==
    [][stage = "record" /\ pc # "idle" /\ out'.status = "missing" =>
          \/ ~pinned /\ out'.path \notin Hashed(latest)
          \/ ~pinned /\ Subtree(latest, out'.path) # out'.hash
          \/ cache' = cache /\ "fail" \in RequestsMay]_recVars

Replayed == stage = "replay" /\ pc = "idle" /\ left = <<>> /\ out.status = "ok"

(* What was noted is a witness for the workload: the replay misses nothing  *)
(* and ends with the same root, also where a sibling was fetched in the     *)
(* middle of a removal, and where a node was edited after it was fetched.   *)
WitnessSuffices ==
    stage = "replay" /\ dropped = {} =>
        /\ out.status # "missing"
        /\ Replayed => node_root(trie) = recorded

(* It is minimal: without any one of its nodes the replay fails.  A node    *)
(* that occurs twice in the trie may be noted at one place while it was     *)
(* known from the other; the replay has that one anyway.                    *)
WitnessMinimal == Replayed => dropped = {}

=============================================================================
