----------------------------- MODULE TaskLedger -----------------------------
(***************************************************************************)
(* What the background-task machinery promises to the caller of an e-mail  *)
(* route that answered "Task added successfully": the task is settled once *)
(* and for good, by the function returning or raising, and it can be lost  *)
(* only together with every other pending task, when the process dies.    *)
(***************************************************************************)

CONSTANT Tasks

VARIABLE fate  \* what became of each task so far

Fates == {"none", "queued", "done", "raised", "lost"}

LedgerInit == fate = [t \in Tasks |-> "none"]

\* The route answered that the task was added.
Accept(t) == /\ fate[t] = "none"
             /\ fate' = [fate EXCEPT ![t] = "queued"]

\* The function of the task returned or raised.
Settle(t) == /\ fate[t] = "queued"
             /\ \E outcome \in {"done", "raised"} :
                   fate' = [fate EXCEPT ![t] = outcome]

\* The process died with tasks in memory.
LoseAll == fate' = [t \in Tasks |-> IF fate[t] = "queued" THEN "lost"
                                                         ELSE fate[t]]

LedgerNext == \/ \E t \in Tasks : Accept(t) \/ Settle(t)
              \/ LoseAll

LedgerSafe == LedgerInit /\ [][LedgerNext]_fate

LedgerSpec == LedgerSafe /\ \A t \in Tasks : WF_fate(Settle(t))
=============================================================================
