----------------------------- MODULE DirectWork -----------------------------
(***************************************************************************)
(* What the choice between the process and Celery promises about a piece   *)
(* of direct work (a task to be done now, or once): it is given away once, *)
(* to one of the two, is started at most once and never comes back.  The   *)
(* process loses what it has not started, all at once and nothing that is  *)
(* in Celery; Celery loses only what a worker has started.                 *)
(***************************************************************************)

CONSTANT Works

VARIABLE state  \* how far each piece of work has come

WorkInit == state = [w \in Works |-> "none"]

Moves(w, from, to) == state[w] = from /\ state' = [state EXCEPT ![w] = to]

\* The endpoint gives it away, or nothing comes of it.
GiveToProcess(w) == Moves(w, "none", "waiting")
GiveToCelery(w) == Moves(w, "none", "queued")

\* The process runs it.
RunHere(w) == Moves(w, "waiting", "done")

\* A worker takes it, and finishes it; or it was revoked before that.
StartThere(w) == Moves(w, "queued", "started")
FinishThere(w) == Moves(w, "started", "done")
Withdraw(w) == Moves(w, "queued", "revoked")

\* The process dies with what waits in it.
LoseWaiting == state' = [w \in Works |-> IF state[w] = "waiting" THEN "lost" ELSE state[w]]

\* A worker dies with what it has started.
LoseStarted(S) ==
    /\ \A w \in S : state[w] = "started"
    /\ state' = [w \in Works |-> IF w \in S THEN "lost" ELSE state[w]]

WorkNext ==
    \/ \E w \in Works :
         \/ GiveToProcess(w) \/ GiveToCelery(w) \/ RunHere(w)
         \/ StartThere(w) \/ FinishThere(w) \/ Withdraw(w)
    \/ LoseWaiting
    \/ \E S \in SUBSET Works : LoseStarted(S)

WorkSpec == WorkInit /\ [][WorkNext]_state
=============================================================================
