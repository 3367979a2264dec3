--------------------------- MODULE FeedValidator ----------------------------
(***************************************************************************)
(* The validator of silt's diff feed: for every diff it applies the values *)
(* the diff names onto the tries of the parent block and compares the root *)
(* with the header of the block.  The feed and the node are external: the  *)
(* feed may send any diff between an ancestor and a block, folded over     *)
(* several blocks and on any side of a fork, and any request may fail.     *)
(* Frames that are only printed (Reorg, Heartbeat, GapTooOld) or ignored   *)
(* change no state and have no action.                                     *)
(***************************************************************************)
EXTENDS WorldState

CONSTANTS
    Blocks,     \* the blocks of the chain, on all its forks
    Parent,     \* block -> its parent; a block that is its own is the first
    Unnamed,    \* what the diff does not name
    RequestsMay,\* what requests may do besides being answered: "fail"
    Attempts,   \* how often header_b32 asks: 10 in the code
    MaxSpans    \* bound on the diffs received

ASSUME AttemptsAssumption == Attempts \in Nat \ {0} /\ MaxSpans \in Nat
ASSUME UnnamedAssumption == Unnamed \notin Infos \cup Values \cup {EmptyInfo, Zero, Nothing}
ASSUME ParentAssumption == Parent \in [Blocks -> Blocks]

VARIABLES
    chain,          \* the state at every block
    pc, polls,
    diff,           \* the frame under validation, or the last one
    trie, leaves_p, storage_roots,
    spans, matched, \* the counters of main
    verdict,        \* of the last diff
    status,         \* how main returned
    wrong           \* history: diffs received that do not certify

vars == <<chain, pc, polls, diff, trie, leaves_p, storage_roots, spans, matched,
          verdict, status, wrong>>

-----------------------------------------------------------------------------
(* What the chain and the feed may be. *)

Nearest(b) == {b, Parent[b], Parent[Parent[b]]}

Spans == {s \in Blocks \X Blocks : s[1] # s[2] /\ s[1] \in Nearest(s[2])}

(* EIP-161: no block creates an empty account or leaves one it touched.    *)
FollowsFrom(after, before) ==
    \A a \in Addrs : after[a] # Nothing /\ after[a].info = EmptyInfo => after[a] = before[a]

Chains == {c \in [Blocks -> Tries] : \A b \in Blocks : FollowsFrom(c[b], c[Parent[b]])}

Diffs == [span : Spans,
          accounts : [Addrs -> Infos \cup {EmptyInfo, Nothing, Unnamed}],
          storage : [Addrs -> [Slots -> Values \cup {Zero, Unnamed}]]]

Before(d) == chain[d.span[1]]
After(d) == chain[d.span[2]]

InfoIn(state, a) == IF state[a] = Nothing THEN Nothing ELSE state[a].info

(* Every change is named: of accounts, and of slots of accounts that live. *)
Complete(d) ==
    \A a \in Addrs :
        /\ InfoIn(After(d), a) # InfoIn(Before(d), a) => d.accounts[a] # Unnamed
        /\ After(d)[a] # Nothing =>
              \A s \in Slots : StorageOf(After(d)[a])[s] # StorageOf(Before(d)[a])[s] =>
                  d.storage[a][s] # Unnamed

RightInfo(d, a) == d.accounts[a] \in {Unnamed, InfoIn(After(d), a)}

RightSlots(d, a) == \A s \in Slots : d.storage[a][s] \in {Unnamed, StorageOf(After(d)[a])[s]}

Truthful(d) == Complete(d) /\ \A a \in Addrs : RightInfo(d, a) /\ RightSlots(d, a)

(* What MATCH says of a diff: it is complete, right of every account that   *)
(* lives, and names the end of every account that ended.                   *)
Certified(d) ==
    /\ Complete(d)
    /\ \A a \in Addrs :
          IF After(d)[a] # Nothing THEN RightInfo(d, a) /\ RightSlots(d, a)
          ELSE Before(d)[a] # Nothing => d.accounts[a] = Nothing

-----------------------------------------------------------------------------
(* The diff as validate reads it *)

destroyed == {a \in Addrs : diff.accounts[a] = Nothing}

slots == [a \in Addrs |-> {s \in Slots : diff.storage[a][s] # Unnamed}]

touched == {a \in Addrs : diff.accounts[a] # Unnamed \/ slots[a] # {}}

-----------------------------------------------------------------------------
(* The connection *)

Init ==
    /\ chain \in Chains
    /\ pc = "hello" /\ polls = 0
    /\ diff = Nothing /\ trie = Nothing /\ leaves_p = Nothing /\ storage_roots = Nothing
    /\ spans = 0 /\ matched = 0
    /\ verdict = "none" /\ status = "running" /\ wrong = 0

validation == <<polls, diff, trie, leaves_p, storage_roots, spans, matched, verdict, wrong>>

Leave(how) == pc' = "done" /\ status' = how /\ UNCHANGED <<chain, validation>>

Hello == pc = "hello" /\ pc' = "listen" /\ UNCHANGED <<chain, status, validation>>

NoHello == pc = "hello" /\ Leave("error")

Receive ==
    /\ pc = "listen" /\ spans < MaxSpans
    /\ diff' \in Diffs
    /\ pc' = "parent_header" /\ polls' = 0 /\ verdict' = "none"
    /\ wrong' = IF Certified(diff') THEN wrong ELSE wrong + 1
    /\ UNCHANGED <<chain, trie, leaves_p, storage_roots, spans, matched, status>>

Refused == pc = "listen" /\ Leave("error")

(* MUTANT: one span that matched is enough. *)
ClosedOnAnyMatch ==
    pc = "listen" /\ Leave(IF matched > 0 \/ spans = 0 THEN "ok" ELSE "mismatched")

Closed == pc = "listen" /\ Leave(IF matched = spans THEN "ok" ELSE "mismatched")

-----------------------------------------------------------------------------
(* validate *)

(* A request that fails ends the program: the errors of validate are ??.   *)
RequestFails ==
    /\ "fail" \in RequestsMay
    /\ pc \in {"parent_header", "header", "witness", "removals", "storage", "leaves"}
    /\ Leave("error")

HeaderFound ==
    /\ \/ pc = "parent_header" /\ pc' = "header"
       \/ pc = "header" /\ pc' = "witness"
    /\ polls' = 0
    /\ UNCHANGED <<chain, diff, trie, leaves_p, storage_roots, spans, matched, verdict, status, wrong>>

(* MUTANT: attempts are not counted. *)
HeaderLateForever ==
    /\ pc \in {"parent_header", "header"} /\ "fail" \in RequestsMay
    /\ polls' = 1 - polls
    /\ UNCHANGED <<chain, pc, diff, trie, leaves_p, storage_roots, spans, matched, verdict, status, wrong>>

(* The header is not served yet. *)
HeaderLate ==
    /\ pc \in {"parent_header", "header"} /\ "fail" \in RequestsMay
    /\ polls < Attempts - 1
    /\ polls' = polls + 1
    /\ UNCHANGED <<chain, pc, diff, trie, leaves_p, storage_roots, spans, matched, verdict, status, wrong>>

HeaderGivesUp ==
    /\ pc \in {"parent_header", "header"} /\ "fail" \in RequestsMay
    /\ polls = Attempts - 1
    /\ Leave("error")

(* MUTANT: the witness is that of the block itself. *)
BootstrapAtBlock ==
    /\ pc = "witness" /\ pc' = "removals"
    /\ trie' = After(diff)
    /\ leaves_p' = [a \in touched |-> After(diff)[a]]
    /\ UNCHANGED <<chain, polls, diff, storage_roots, spans, matched, verdict, status, wrong>>

(* The witness covers what is touched; the leaves of the parent are read   *)
(* before anything is removed.                                             *)
Bootstrap ==
    /\ pc = "witness" /\ pc' = "removals"
    /\ trie' = Before(diff)
    /\ leaves_p' = [a \in touched |-> Before(diff)[a]]
    /\ UNCHANGED <<chain, polls, diff, storage_roots, spans, matched, verdict, status, wrong>>

RemoveDestroyed ==
    /\ pc = "removals" /\ pc' = "storage"
    /\ trie' = Remove(trie, destroyed)
    /\ UNCHANGED <<chain, polls, diff, leaves_p, storage_roots, spans, matched, verdict, status, wrong>>

(* The storage of an account after the writes of the diff; a zero removes. *)
Written(a) ==
    [s \in Slots |-> IF s \in slots[a] THEN diff.storage[a][s] ELSE StorageOf(leaves_p[a])[s]]

WriteSlots ==
    /\ pc = "storage" /\ pc' = "leaves"
    /\ storage_roots' = [a \in {x \in touched \ destroyed : slots[x] # {}} |-> Written(a)]
    /\ UNCHANGED <<chain, polls, diff, trie, leaves_p, spans, matched, verdict, status, wrong>>

(* MUTANT: the root in the parent's leaf comes before the new one. *)
StorageRootOfParent(a) ==
    IF leaves_p[a] # Nothing THEN leaves_p[a].storage_root
    ELSE IF a \in DOMAIN storage_roots THEN storage_roots[a] ELSE empty_root

StorageRoot(a) ==
    IF a \in DOMAIN storage_roots THEN storage_roots[a] ELSE StorageOf(leaves_p[a])

Info(a) ==
    CASE diff.accounts[a] # Unnamed -> diff.accounts[a]
      [] diff.accounts[a] = Unnamed /\ leaves_p[a] # Nothing -> leaves_p[a].info
      [] OTHER -> EmptyInfo

NeverCreated(a) == leaves_p[a] = Nothing /\ Info(a) = EmptyInfo

WriteLeaves ==
    /\ pc = "leaves" /\ pc' = "compare"
    /\ trie' = [a \in Addrs |->
                  IF a \in touched \ destroyed /\ ~NeverCreated(a)
                  THEN [info |-> Info(a), storage_root |-> StorageRoot(a)]
                  ELSE trie[a]]
    /\ UNCHANGED <<chain, polls, diff, leaves_p, storage_roots, spans, matched, verdict, status, wrong>>

(* What the node sends for a diff that names nothing is up to it. *)
Compare ==
    /\ pc = "compare" /\ pc' = "listen"
    /\ \E nodes \in BOOLEAN :
          verdict' = IF HashesRight(trie, touched, nodes) /\ trie = After(diff)
                     THEN "match" ELSE "mismatch"
    /\ spans' = spans + 1
    /\ matched' = matched + (IF verdict' = "match" THEN 1 ELSE 0)
    /\ trie' = Nothing /\ leaves_p' = Nothing /\ storage_roots' = Nothing
    /\ UNCHANGED <<chain, polls, diff, status, wrong>>

Validate ==
    \/ HeaderFound \/ HeaderLate \/ HeaderGivesUp
    \/ Bootstrap \/ RemoveDestroyed \/ WriteSlots \/ WriteLeaves \/ Compare
    \/ RequestFails

Next == Hello \/ NoHello \/ Receive \/ Refused \/ Closed \/ Validate

Spec == Init /\ [][Next]_vars

(* The blocking thread runs until validate returns. *)
FairSpec == Spec /\ WF_vars(Validate)

-----------------------------------------------------------------------------
(* Properties *)

(* A diff that tells the truth matches: accounts that are created, emptied *)
(* of slots, destroyed, destroyed and made again within the span, or only   *)
(* written to, over any fold of blocks.  The one exception is the diff that *)
(* names nothing, of a span in which nothing happened.                     *)
TruthMatches == verdict = "mismatch" => ~Truthful(diff) \/ touched = {}

(* A diff that matches left out nothing and is right of every account that *)
(* lives; no account that ended goes unnamed.  Of slots of an account that *)
(* is not there in the end it may say anything: those of a destroyed one   *)
(* are skipped, and a stray one is dropped with the empty account.         *)
MatchCertifies == verdict = "match" => Certified(diff)

(* The program returns Ok only when every diff it was sent certified.      *)
OkMeansAll == status = "ok" => wrong = 0

(* Every diff is answered, if only by giving up on the header.             *)
Answered == pc = "parent_header" ~> pc \in {"listen", "done"}

=============================================================================
