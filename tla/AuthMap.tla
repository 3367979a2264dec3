------------------------------ MODULE AuthMap ------------------------------
(***************************************************************************)
(* What a trie promises its caller: a map from keys to values on which one *)
(* call at a time is made.  Each call takes effect in one step; a call     *)
(* that fails has none or, where that is the promise, loses every binding. *)
(* Where the nodes are, which of them are loaded and how they are merged   *)
(* is nothing a caller can tell.                                           *)
(***************************************************************************)
EXTENDS Naturals

CONSTANTS
    Keys, Value, NoValue,
    Losing     \* "insert" and "remove", if they lose every binding when they fail

VARIABLES
    map,       \* the bindings, a function from some of the keys to values
    request,   \* the call being served, or the last one
    stage,     \* "idle", "called", or "applied": the effect awaits its reply
    reply      \* what the last call returned

vars == <<map, request, stage, reply>>

Request ==
    [op : {"insert"}, key : Keys, value : Value]
      \cup [op : {"get", "remove"}, key : Keys, value : {NoValue}]

Ok(answer) == [status |-> "ok", answer |-> answer]

Lookup(m, k) == IF k \in DOMAIN m THEN m[k] ELSE NoValue
Bind(m, k, v) == [j \in DOMAIN m \cup {k} |-> IF j = k THEN v ELSE m[j]]
Unbind(m, k) == [j \in DOMAIN m \ {k} |-> m[j]]

Init ==
    /\ stage = "idle"
    /\ reply = [status |-> "none"]

Call ==
    /\ stage = "idle"
    /\ request' \in Request
    /\ stage' = "called"
    /\ reply' = [status |-> "none"]
    /\ UNCHANGED map

Reply(answer) ==
    /\ stage' = "idle"
    /\ reply' = Ok(answer)
    /\ UNCHANGED request

Get ==
    /\ stage = "called" /\ request.op = "get"
    /\ Reply(Lookup(map, request.key))
    /\ UNCHANGED map

Insert ==
    /\ stage = "called" /\ request.op = "insert"
    /\ Reply(NoValue)
    /\ map' = Bind(map, request.key, request.value)

RemoveAbsent ==
    /\ stage = "called" /\ request.op = "remove"
    /\ Reply(FALSE)
    /\ request.key \notin DOMAIN map
    /\ UNCHANGED map

Removed ==
    /\ stage = "called" /\ request.op = "remove"
    /\ request.key \in DOMAIN map
    /\ map' = Unbind(map, request.key)

RemovePresent ==
    /\ stage' = "applied"
    /\ Removed
    /\ UNCHANGED <<request, reply>>

RemoveReturns ==
    /\ stage = "applied"
    /\ Reply(TRUE)
    /\ UNCHANGED map

(* Both at once, where nobody can see the effect before the reply. *)
Remove == Reply(TRUE) /\ Removed

Failed ==
    /\ stage' = "idle"
    /\ reply'.status \in {"missing", "mismatch"}
    /\ UNCHANGED request

Fail == stage = "called" /\ request.op \notin Losing /\ Failed /\ UNCHANGED map

Lose == stage # "idle" /\ request.op \in Losing /\ Failed /\ DOMAIN map' = {}

Next ==
    \/ Call \/ Get \/ Insert \/ RemoveAbsent
    \/ RemovePresent \/ RemoveReturns \/ Remove \/ Fail \/ Lose

Spec == Init /\ [][Next]_vars

=============================================================================
