---------------------------- MODULE RpcContract ----------------------------
(* What Backend.request (yamp/router.py) promises its caller: a request is  *)
(* issued once and executed by the backend at most once (a tools/call may   *)
(* have side effects, so nothing is ever retried); it returns only if the   *)
(* backend executed it, and it may fail at any time, executed or not.       *)
CONSTANT Requests

VARIABLES issued,    \* requests made so far
          executed,  \* how often the backend has acted on each
          outcome    \* what the caller was told: "none", "ok" or "error"

vars == <<issued, executed, outcome>>

Init == /\ issued = {}
        /\ executed = [r \in Requests |-> 0]
        /\ outcome = [r \in Requests |-> "none"]

Issue(r) == /\ r \notin issued
            /\ issued' = issued \cup {r}
            /\ UNCHANGED <<executed, outcome>>

Execute(r) == /\ r \in issued /\ executed[r] = 0
              /\ executed' = [executed EXCEPT ![r] = 1]
              /\ UNCHANGED <<issued, outcome>>

Return(r) == /\ executed[r] = 1 /\ outcome[r] = "none"
             /\ outcome' = [outcome EXCEPT ![r] = "ok"]
             /\ UNCHANGED <<issued, executed>>

Fail(r) == /\ r \in issued /\ outcome[r] = "none"
           /\ outcome' = [outcome EXCEPT ![r] = "error"]
           /\ UNCHANGED <<issued, executed>>

Next == \E r \in Requests : Issue(r) \/ Execute(r) \/ Return(r) \/ Fail(r)

Spec == Init /\ [][Next]_vars
=============================================================================
