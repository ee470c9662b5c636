--------------------------- MODULE BackgroundTasks ---------------------------
(***************************************************************************)
(* The path of an e-mail request that is served without Celery:            *)
(* BackgroundTaskMiddleware.dispatch registers an empty list of tasks      *)
(* under a generated request id, the route may append a task to that list  *)
(* (BackgroundTaskService.add_task), and when the response carries the id  *)
(* the middleware starts BackgroundTaskService.__call__, which runs the    *)
(* tasks of the list and removes it.                                       *)
(*                                                                         *)
(* One step is what happens between two points where another coroutine or  *)
(* another thread can run: an await that yields, the call of a synchronous *)
(* endpoint in the thread pool, a task function in the thread pool.  The   *)
(* sections under task_lock hold no await, so the lock is never contended  *)
(* and taking it does not yield: each section belongs to the step around   *)
(* it.                                                                     *)
(***************************************************************************)
EXTENDS Integers, Sequences, FiniteSets

CONSTANTS Requests,     \* the HTTP requests that arrive
          None,         \* Python's None
          CoarseClock,  \* two calls of time.time() may return the same value
          MaxCrashes    \* bound: how often the process may die

ASSUME ConstantsAssumption ==
    /\ IsFiniteSet(Requests)
    /\ None \notin Requests \cup Nat
    /\ CoarseClock \in BOOLEAN
    /\ MaxCrashes \in Nat

VARIABLES
    now,                  \* the value of the clock
    pc,                   \* where the dispatch of each request is
    rid,                  \* request.state.request_id
    sharing_task,         \* request id -> the list registered under it
    tasks,                \* the contents of the list each request registered
    runner,               \* where the coroutine __call__ of each request is
    held,                 \* the list the coroutine iterates over
    pos,                  \* its position in that list
    running_tasks_count,
    fate,                 \* what became of the task of each request
    attempts,             \* how often the task of each request was called
    crashes

http == <<now, pc, rid>>
store == <<sharing_task, tasks>>
loop == <<runner, held, pos, running_tasks_count>>
outcome == <<fate, attempts>>
vars == <<http, store, loop, outcome, crashes>>

\* A list is named by the request whose registration created it; the task a
\* request adds is named by that request (each route adds at most one).
Put(d, k, v) == [x \in DOMAIN d \cup {k} |-> IF x = k THEN v ELSE d[x]]
\* Mutants of Drop: the key stays with the value None; everything is dropped.
DropKeepsKey(d, k) == Put(d, k, None)
DropAll(d, k) == [x \in {} |-> d[k]]

Drop(d, k) == [x \in DOMAIN d \ {k} |-> d[x]]
Elements(s) == {s[i] : i \in DOMAIN s}

PcStates == {"idle", "handling", "responded", "refused", "raised", "finished"}
ActiveRunner == {"created", "yielded", "thread", "returned", "raised"}
RunnerStates == ActiveRunner \cup {"none", "done", "failed", "killed"}
Fates == {"none", "queued", "done", "raised", "lost"}

Init ==
    /\ now = 0
    /\ pc = [r \in Requests |-> "idle"]
    /\ rid = [r \in Requests |-> None]
    /\ sharing_task = [i \in {} |-> None]
    /\ tasks = [r \in Requests |-> <<>>]
    /\ runner = [r \in Requests |-> "none"]
    /\ held = [r \in Requests |-> None]
    /\ pos = [r \in Requests |-> 0]
    /\ running_tasks_count = 0
    /\ fate = [r \in Requests |-> "none"]
    /\ attempts = [r \in Requests |-> 0]
    /\ crashes = 0

-----------------------------------------------------------------------------
(* The dispatch of a request                                               *)

\* generateId seeds the generator with the time, so that the id is a function
\* of the clock reading; the next reading differs unless the clock is coarse.
Register(r) ==
    /\ pc[r] = "idle"
    /\ pc' = [pc EXCEPT ![r] = "handling"]
    /\ rid' = [rid EXCEPT ![r] = now]
    /\ now' = now + 1 \/ (CoarseClock /\ now' = now)
    /\ sharing_task' = Put(sharing_task, now, r)
    /\ UNCHANGED <<tasks, loop, outcome, crashes>>

\* The route adds a task to the list that is registered under its id.
AddTask(r) ==
    /\ pc[r] = "handling"
    /\ rid[r] \in DOMAIN sharing_task
    /\ tasks' = [tasks EXCEPT ![sharing_task[rid[r]]] = Append(@, r)]
    /\ fate' = [fate EXCEPT ![r] = "queued"]
    /\ pc' = [pc EXCEPT ![r] = "responded"]
    /\ UNCHANGED <<now, rid, sharing_task, loop, attempts, crashes>>

\* The route hands the work to Celery; the response carries the id as well.
TriggerCelery(r) ==
    /\ pc[r] = "handling"
    /\ pc' = [pc EXCEPT ![r] = "responded"]
    /\ UNCHANGED <<now, rid, store, loop, outcome, crashes>>

\* Another router, or an error that an exception handler turned into an HTTP
\* response (the KeyError of add_task becomes a 400): no id in it.
Refuse(r) ==
    /\ pc[r] = "handling"
    /\ pc' = [pc EXCEPT ![r] = "refused"]
    /\ UNCHANGED <<now, rid, store, loop, outcome, crashes>>

\* call_next raises: the exception is of a class only the handler of Exception
\* knows, and that one answers outside of the middlewares.  Nothing after
\* call_next is executed.
Raise(r) ==
    /\ pc[r] = "handling"
    /\ pc' = [pc EXCEPT ![r] = "raised"]
    /\ UNCHANGED <<now, rid, store, loop, outcome, crashes>>

\* Mutant of CreateRunner: no coroutine starts.
CreateNoRunner(r) ==
    /\ pc[r] = "responded"
    /\ pc' = [pc EXCEPT ![r] = "finished"]
    /\ UNCHANGED <<now, rid, store, loop, outcome, crashes>>

\* The response carries the id: a coroutine is started for it.
CreateRunner(r) ==
    /\ pc[r] = "responded"
    /\ pc' = [pc EXCEPT ![r] = "finished"]
    /\ runner' = [runner EXCEPT ![r] = "created"]
    /\ UNCHANGED <<now, rid, store, held, pos, running_tasks_count, outcome, crashes>>

\* Mutant of Discard: the entry is kept.
DiscardNothing(r) ==
    /\ pc[r] = "refused"
    /\ pc' = [pc EXCEPT ![r] = "finished"]
    /\ UNCHANGED <<now, rid, store, loop, outcome, crashes>>

\* The response does not carry the id: _delete_tasks.
Discard(r) ==
    /\ pc[r] = "refused"
    /\ pc' = [pc EXCEPT ![r] = "finished"]
    /\ sharing_task' = Drop(sharing_task, rid[r])
    /\ UNCHANGED <<now, rid, tasks, loop, outcome, crashes>>

-----------------------------------------------------------------------------
(* The coroutine BackgroundTaskService.__call__                            *)

\* Mutant of Complete: the count is left alone.
CompleteKeepsCount(r) ==
    /\ sharing_task' = Drop(sharing_task, rid[r])
    /\ runner' = [runner EXCEPT ![r] = "done"]
    /\ UNCHANGED running_tasks_count

\* The last locked section: the length is read again, then the entry goes.
\* A KeyError ends the coroutine before the count is changed.
Complete(r) ==
    IF rid[r] \in DOMAIN sharing_task
    THEN /\ running_tasks_count' =
               running_tasks_count - Len(tasks[sharing_task[rid[r]]])
         /\ sharing_task' = Drop(sharing_task, rid[r])
         /\ runner' = [runner EXCEPT ![r] = "done"]
    ELSE /\ runner' = [runner EXCEPT ![r] = "failed"]
         /\ UNCHANGED <<running_tasks_count, sharing_task>>

\* The first locked section and the first test of the loop.  With an empty
\* list the coroutine runs to its end without yielding.
Start(r) ==
    /\ runner[r] = "created"
    /\ \/ /\ rid[r] \notin DOMAIN sharing_task
          /\ runner' = [runner EXCEPT ![r] = "failed"]
          /\ UNCHANGED <<sharing_task, held, pos, running_tasks_count>>
       \/ /\ rid[r] \in DOMAIN sharing_task
          /\ tasks[sharing_task[rid[r]]] = <<>>
          /\ Complete(r)
          /\ UNCHANGED <<held, pos>>
       \/ /\ rid[r] \in DOMAIN sharing_task
          /\ tasks[sharing_task[rid[r]]] # <<>>
          /\ running_tasks_count' =
                running_tasks_count + Len(tasks[sharing_task[rid[r]]])
          /\ held' = [held EXCEPT ![r] = sharing_task[rid[r]]]
          /\ pos' = [pos EXCEPT ![r] = 1]
          /\ runner' = [runner EXCEPT ![r] = "yielded"]
          /\ UNCHANGED sharing_task
    /\ UNCHANGED <<http, tasks, outcome, crashes>>

\* asyncio.sleep(0) returns and the function goes to the thread pool.
CallTask(r) ==
    /\ runner[r] = "yielded"
    /\ runner' = [runner EXCEPT ![r] = "thread"]
    /\ UNCHANGED <<http, store, held, pos, running_tasks_count, outcome, crashes>>

\* The function runs in a thread and returns or raises.
RunTask(r) ==
    /\ runner[r] = "thread"
    /\ LET t == tasks[held[r]][pos[r]] IN
       /\ attempts' = [attempts EXCEPT ![t] = @ + 1]
       /\ \/ /\ fate' = [fate EXCEPT ![t] = "done"]
             /\ runner' = [runner EXCEPT ![r] = "returned"]
          \/ /\ fate' = [fate EXCEPT ![t] = "raised"]
             /\ runner' = [runner EXCEPT ![r] = "raised"]
    /\ UNCHANGED <<http, store, held, pos, running_tasks_count, crashes>>

\* Back in the event loop: the next task of the list, or the end.
Resume(r) ==
    /\ runner[r] = "returned"
    /\ IF pos[r] < Len(tasks[held[r]])
       THEN /\ pos' = [pos EXCEPT ![r] = @ + 1]
            /\ runner' = [runner EXCEPT ![r] = "yielded"]
            /\ UNCHANGED <<sharing_task, running_tasks_count>>
       ELSE /\ Complete(r)
            /\ UNCHANGED pos
    /\ UNCHANGED <<http, tasks, held, outcome, crashes>>

\* The exception of a task leaves the coroutine; the second locked section
\* is never reached.
Abort(r) ==
    /\ runner[r] = "raised"
    /\ runner' = [runner EXCEPT ![r] = "failed"]
    /\ UNCHANGED <<http, store, held, pos, running_tasks_count, outcome, crashes>>

\* The process dies and is started again, at a later reading of the clock:
\* everything it kept is in memory.
Crash ==
    /\ crashes < MaxCrashes
    /\ crashes' = crashes + 1
    /\ now' = now + 1
    /\ pc' = [r \in Requests |-> IF pc[r] = "idle" THEN "idle" ELSE "finished"]
    /\ sharing_task' = [i \in {} |-> None]
    /\ tasks' = [r \in Requests |-> <<>>]
    /\ runner' = [r \in Requests |-> IF runner[r] \in ActiveRunner THEN "killed"
                                                                   ELSE runner[r]]
    /\ held' = [r \in Requests |-> None]
    /\ pos' = [r \in Requests |-> 0]
    /\ running_tasks_count' = 0
    /\ fate' = [r \in Requests |-> IF fate[r] = "queued" THEN "lost" ELSE fate[r]]
    /\ UNCHANGED <<rid, attempts>>

-----------------------------------------------------------------------------
Endpoint(r) == AddTask(r) \/ TriggerCelery(r) \/ Refuse(r) \/ Raise(r)
Respond(r) == CreateRunner(r) \/ Discard(r)
Coroutine(r) == Start(r) \/ CallTask(r) \/ RunTask(r) \/ Resume(r) \/ Abort(r)

Next == \/ \E r \in Requests : Register(r) \/ Endpoint(r) \/ Respond(r) \/ Coroutine(r)
        \/ Crash

Spec == Init /\ [][Next]_vars

\* The event loop runs every coroutine that is ready, and a thread of the
\* pool runs to its end: endpoints, responses and runners are never starved.
Fairness == \A r \in Requests : /\ WF_vars(Endpoint(r))
                                /\ WF_vars(Respond(r))
                                /\ WF_vars(Coroutine(r))

FairSpec == Spec /\ Fairness
-----------------------------------------------------------------------------
(* Properties                                                              *)

TypeOK ==
    /\ now \in Nat
    /\ pc \in [Requests -> PcStates]
    /\ rid \in [Requests -> Nat \cup {None}]
    /\ DOMAIN sharing_task \subseteq 0 .. now
    /\ \A i \in DOMAIN sharing_task : sharing_task[i] \in Requests
    /\ tasks \in [Requests -> Seq(Requests)]
    /\ runner \in [Requests -> RunnerStates]
    /\ held \in [Requests -> Requests \cup {None}]
    /\ pos \in [Requests -> Nat]
    /\ running_tasks_count \in Int
    /\ fate \in [Requests -> Fates]
    /\ attempts \in [Requests -> Nat]
    /\ crashes \in 0 .. MaxCrashes

\* The runners that counted their tasks and have not subtracted them.
Counted == {r \in Requests : held[r] # None /\ runner[r] # "done"}

\* running_tasks_count is the number of runners that have announced their
\* task and not reached the second locked section: it is neither negative nor
\* drifting, except by the runners a raising task has stopped for good.
CountExact == running_tasks_count = Cardinality(Counted)

\* The function of a task (an e-mail sent) is never called twice, whatever
\* runners, deletions and restarts come in between.
AtMostOnce == \A r \in Requests : attempts[r] <= 1

\* While the route's answer "Task added successfully" is unsettled, the task
\* is still in the list registered under its id, and its middleware or its
\* runner is still going to reach it.
QueuedIsReachable ==
    \A r \in Requests : fate[r] = "queued" =>
        /\ rid[r] \in DOMAIN sharing_task
        /\ r \in Elements(tasks[sharing_task[rid[r]]])
        /\ pc[r] = "responded" \/ runner[r] \in {"created", "yielded", "thread"}

\* An entry of sharing_task belongs to a dispatch or a runner that is going
\* to delete it, or to one an exception has ended: call_next raised, or the
\* task did.  Nothing else leaves an entry behind.
EntriesAccounted ==
    \A i \in DOMAIN sharing_task :
        LET r == sharing_task[i] IN
        /\ rid[r] = i
        /\ \/ pc[r] \in {"handling", "responded", "refused", "raised"}
           \/ runner[r] \in ActiveRunner \cup {"failed"}

\* A coroutine ends with an exception only when the task it called raised:
\* sharing_task[request_id] is never missing where __call__ reads it.
NoKeyError == \A r \in Requests : runner[r] = "failed" => fate[r] = "raised"

\* Every entry the middleware registers is removed in the end, unless an
\* exception ended the dispatch or the runner that should have removed it.
EntriesReclaimed ==
    \A r \in Requests :
        (rid[r] \in DOMAIN sharing_task)
            ~> (rid[r] \notin DOMAIN sharing_task \/ pc[r] = "raised"
                                                  \/ runner[r] = "failed")

\* The machinery implements the ledger of accepted tasks: each is settled once,
\* and none stays pending for ever unless the process dies.
Ledger == INSTANCE TaskLedger WITH Tasks <- Requests
ImplementsLedger == Ledger!LedgerSpec

\* When a coarse clock gives two requests the same id, the damage stays with
\* them: a task is called at most once per request that shares its id, and a
\* request whose id is its own never loses its task or its runner.
SharesId(r) == {x \in Requests : rid[x] = rid[r]}
CollisionIsContained ==
    \A r \in Requests :
        /\ attempts[r] <= Cardinality(SharesId(r))
        /\ fate[r] = "queued" /\ SharesId(r) = {r} =>
              /\ rid[r] \in DOMAIN sharing_task
              /\ sharing_task[rid[r]] = r
              /\ tasks[r] = <<r>>
        /\ runner[r] = "failed" /\ SharesId(r) = {r} => fate[r] = "raised"

\* "Decrease count after tasks complete" (services/celery_service.py:67): once
\* every coroutine has ended the count is back at zero.
IdleCountIsZero ==
    (\A r \in Requests : runner[r] \notin ActiveRunner) => running_tasks_count = 0
=============================================================================
