------------------------------ MODULE CeleryWork ------------------------------
(***************************************************************************)
(* The path of an e-mail request through CeleryService: the endpoint reads *)
(* the service's status and hands the work to the BackgroundTaskService or *)
(* to Celery, as a task (now, once) or as a RedBeat entry (rrule, solar,   *)
(* crontab).  An hourly callback of the event loop pings the workers and   *)
(* holds the loop while it waits.  Clients cancel tasks and delete         *)
(* schedules.                                                              *)
(*                                                                         *)
(* The endpoints run in threads of the pool: reading the status and acting *)
(* upon it are two steps.  The broker, the beat and the workers are        *)
(* external and modelled as the defaults of Celery have it: a task is      *)
(* acknowledged when it starts, STARTED is not reported, a revocation is a *)
(* broadcast that each worker processes when it gets it and keeps in its   *)
(* memory, and a worker that comes up asks the others for theirs.  That a  *)
(* worker forgets an old revocation, and a countdown or eta, are left out. *)
(***************************************************************************)
EXTENDS Integers, FiniteSets, Functions

CONSTANTS Requests,      \* the requests that arrive
          Workers,       \* the worker processes
          Names,         \* the schedule ids, which clients give or the clock makes
          CountIsText,   \* CELERY_WORKERS_COUNT is set in the environment
          MaxChecks,     \* bound: pings of one life of the process
          MaxRestarts,   \* bound: restarts of the application
          MaxDeaths,     \* bound: deaths of workers
          MaxFires       \* bound: occurrences of the schedules

ASSUME ConstantsAssumption ==
    /\ IsFiniteSet(Workers)
    /\ CountIsText \in BOOLEAN
    /\ {MaxChecks, MaxRestarts, MaxDeaths, MaxFires} \subseteq Nat

VARIABLES
    service_status,
    available_workers_count,
    timeout_count,
    pinging,                  \* _check_workers_status waits for the replies
    checks,
    foundNone,                \* history: a ping of this process had no reply
    restarts,
    pc,                       \* where the endpoint of each request is
    kind,                     \* its task_type
    knownDown,                \* history: foundNone when it arrived
    local,                    \* its work in the BackgroundTaskService
    task,                     \* its work in Celery
    runs,                     \* how often that was started
    cancel,                   \* the thread of cancel_task
    stopped,                  \* history: all workers knew it to be revoked
    entries,                  \* schedule id -> request, in Redis
    fires,
    up, deaths,               \* the workers that run
    told,                     \* the revocations under way to each worker
    revoked,                  \* the ids in the memory of each worker
    running                   \* the tasks each worker runs

service == <<service_status, available_workers_count, timeout_count, pinging, checks, foundNone>>
request == <<pc, kind, knownDown>>
work == <<local, task, runs>>
cancels == <<cancel, stopped>>
beat == <<entries, fires>>
pool == <<up, deaths, told, revoked, running>>
vars == <<service, restarts, request, work, cancels, beat, pool>>

Kinds == {"direct", "schedule"}   \* direct: now and once, which are treated alike
PcStates == {"idle", "handling", "background", "celery", "accepted", "failed", "cut"}
TaskStates == {"none", "queued", "started", "done", "revoked", "lost"}

Init ==
    /\ service_status = "AVAILABLE"
    /\ available_workers_count = -1
    /\ timeout_count = 0
    /\ pinging = FALSE /\ checks = 0 /\ foundNone = FALSE /\ restarts = 0
    /\ pc = [r \in Requests |-> "idle"]
    /\ kind \in [Requests -> Kinds]
    /\ knownDown = [r \in Requests |-> FALSE]
    /\ local = [r \in Requests |-> "none"]
    /\ task = [r \in Requests |-> "none"]
    /\ runs = [r \in Requests |-> 0]
    /\ cancel = [r \in Requests |-> "none"]
    /\ stopped = [r \in Requests |-> FALSE]
    /\ entries = [n \in {} |-> n] /\ fires = 0
    /\ up = Workers /\ deaths = 0
    /\ told = [w \in Workers |-> {}]
    /\ revoked = [w \in Workers |-> {}]
    /\ running = [w \in Workers |-> {}]

-----------------------------------------------------------------------------
(* The hourly ping                                                         *)

BeginCheck ==
    /\ ~pinging
    /\ checks < MaxChecks
    /\ pinging' = TRUE
    /\ checks' = checks + 1
    /\ UNCHANGED <<service_status, available_workers_count, timeout_count, foundNone,
                   restarts, request, work, cancels, beat, pool>>

\* Mutant of CheckFails: a failure shortens the timeout.
CheckShortens(n) ==
    /\ timeout_count' = timeout_count - 1
    /\ available_workers_count' = 0

\* The exception handler of the check.
CheckFails(n) ==
    /\ timeout_count' = timeout_count + 1
    /\ available_workers_count' = 0

\* Mutant of Replies: without a reply only the count is set.
RepliesCounted(n) ==
    /\ foundNone' = (foundNone \/ n = 0)
    /\ available_workers_count' = n
    /\ timeout_count' = 0
    /\ UNCHANGED service_status

\* The ping had n replies: none at all changes the status, and nothing
\* changes it back.  Subtracting from a text raises after the count is set.
Replies(n) ==
    /\ foundNone' = (foundNone \/ n = 0)
    /\ service_status' = IF n = 0 THEN "TEMPORARY_NOT_AVAILABLE" ELSE service_status
    /\ IF CountIsText THEN CheckFails(n)
       ELSE available_workers_count' = n /\ timeout_count' = 0

\* Mutant of EndCheck: the ping is repeated until a worker replies.
EndCheckRepeats ==
    /\ pinging
    /\ \E n \in 0 .. Cardinality(up) : Replies(n) /\ pinging' = (n = 0)
    /\ UNCHANGED <<checks, restarts, request, work, cancels, beat, pool>>

\* A reply after the timeout is not counted; without the broker the ping
\* raises.
EndCheck ==
    /\ pinging
    /\ pinging' = FALSE
    /\ \/ \E n \in 0 .. Cardinality(up) : Replies(n)
       \/ CheckFails(0) /\ UNCHANGED <<foundNone, service_status>>
    /\ UNCHANGED <<checks, restarts, request, work, cancels, beat, pool>>

-----------------------------------------------------------------------------
(* The endpoint                                                            *)

\* The middlewares and the router run in the event loop.
Arrive(r) ==
    /\ ~pinging
    /\ pc[r] = "idle"
    /\ pc' = [pc EXCEPT ![r] = "handling"]
    /\ knownDown' = [knownDown EXCEPT ![r] = foundNone]
    /\ UNCHANGED <<service, restarts, kind, work, cancels, beat, pool>>

ReadStatus(r) ==
    /\ pc[r] = "handling"
    /\ pc' = [pc EXCEPT ![r] =
                IF service_status # "AVAILABLE" /\ kind[r] = "direct"
                THEN "background" ELSE "celery"]
    /\ UNCHANGED <<service, restarts, kind, knownDown, work, cancels, beat, pool>>

\* Mutant of AddTask: the return is missing, so the endpoint goes on.
AddTaskAndGoOn(r) ==
    /\ pc[r] = "background"
    /\ local' = [local EXCEPT ![r] = "queued"]
    /\ pc' = [pc EXCEPT ![r] = "celery"]
    /\ UNCHANGED <<service, restarts, kind, knownDown, task, runs, cancels, beat, pool>>

AddTask(r) ==
    /\ pc[r] = "background"
    /\ local' = [local EXCEPT ![r] = "queued"]
    /\ pc' = [pc EXCEPT ![r] = "accepted"]
    /\ UNCHANGED <<service, restarts, kind, knownDown, task, runs, cancels, beat, pool>>

\* The BackgroundTaskService runs it when the event loop is free.
RunLocal(r) ==
    /\ ~pinging
    /\ local[r] = "queued"
    /\ local' = [local EXCEPT ![r] = "done"]
    /\ UNCHANGED <<service, restarts, request, task, runs, cancels, beat, pool>>

\* delay or apply_async.  The broker may fail before or after it has the
\* message; options that are no keyword arguments fail before.
Publish(r) ==
    /\ kind[r] # "schedule"
    /\ \/ /\ task' = [task EXCEPT ![r] = "queued"]
          /\ pc' \in {[pc EXCEPT ![r] = "accepted"], [pc EXCEPT ![r] = "failed"]}
       \/ /\ pc' = [pc EXCEPT ![r] = "failed"]
          /\ UNCHANGED task
    /\ UNCHANGED entries

\* A RedBeat entry is saved under its id and replaces what was there.  The id
\* is any name of the client, another's too, or one that is made of the clock
\* and may repeat.  Options the schedule's type refuses end in 400 (ValueError)
\* or 500 (TypeError).
Save(r) ==
    /\ kind[r] = "schedule"
    /\ \/ /\ \E n \in Names :
               entries' = [x \in DOMAIN entries \cup {n} |-> IF x = n THEN r ELSE entries[x]]
          /\ pc' \in {[pc EXCEPT ![r] = "accepted"], [pc EXCEPT ![r] = "failed"]}
       \/ /\ pc' = [pc EXCEPT ![r] = "failed"]
          /\ UNCHANGED entries
    /\ UNCHANGED task

Trigger(r) ==
    /\ pc[r] = "celery"
    /\ Publish(r) \/ Save(r)
    /\ UNCHANGED <<service, restarts, kind, knownDown, local, runs, cancels, fires, pool>>

-----------------------------------------------------------------------------
(* The routes of RedisBackendRessource                                     *)

\* AsyncResult.state reads PENDING as long as no result is stored.
Pending(r) == task[r] \in {"queued", "started", "lost"}

\* cancel_task reads the state ...
CancelRead(r) ==
    /\ pc[r] = "accepted" /\ task[r] # "none" /\ kind[r] # "schedule"
    /\ cancel[r] = "none"
    /\ Pending(r)
    /\ cancel' = [cancel EXCEPT ![r] = "read"]
    /\ UNCHANGED <<service, restarts, request, work, stopped, beat, pool>>

\* ... and has the id revoked, whatever the task does now: a broadcast is under
\* way to the workers that listen (one that is just starting may not), or the
\* broker fails and the client is told.
CancelRevoke(r) ==
    /\ cancel[r] = "read"
    /\ cancel' = [cancel EXCEPT ![r] = "none"]
    /\ \E listening \in SUBSET up :
         told' = [w \in Workers |-> IF w \in listening THEN told[w] \cup {r} ELSE told[w]]
    /\ UNCHANGED <<service, restarts, request, work, stopped, beat, up, deaths, revoked, running>>

\* from_key finds the entry; what it does not find is answered by a 404.
Found(n) == n \in DOMAIN entries

DeleteSchedule(n) ==
    /\ Found(n)
    /\ entries' = Restrict(entries, DOMAIN entries \ {n})
    /\ UNCHANGED <<service, restarts, request, work, cancels, fires, pool>>

-----------------------------------------------------------------------------
(* The beat and the workers                                                *)

\* The beat queues an occurrence of an entry (one at a time).
Fire(n) ==
    /\ Found(n)
    /\ fires < MaxFires
    /\ task[entries[n]] \notin {"queued", "started"}
    /\ task' = [task EXCEPT ![entries[n]] = "queued"]
    /\ fires' = fires + 1
    /\ UNCHANGED <<service, restarts, request, local, runs, cancels, entries, pool>>

\* A worker processes a revocation that was under way to it.
Hear(w, r) ==
    /\ w \in up
    /\ r \in told[w]
    /\ told' = [told EXCEPT ![w] = @ \ {r}]
    /\ revoked' = [revoked EXCEPT ![w] = @ \cup {r}]
    /\ stopped' = [stopped EXCEPT ![r] =
                     @ \/ (task[r] = "queued" /\ \A v \in up : r \in revoked'[v])]
    /\ UNCHANGED <<service, restarts, request, work, cancel, beat, up, deaths, running>>

Take(w, r) ==
    /\ w \in up
    /\ task[r] = "queued"
    /\ IF r \in revoked[w]
       THEN task' = [task EXCEPT ![r] = "revoked"] /\ UNCHANGED <<runs, running>>
       ELSE /\ task' = [task EXCEPT ![r] = "started"]
            /\ runs' = [runs EXCEPT ![r] = IF kind[r] = "schedule" THEN @ ELSE @ + 1]
            /\ running' = [running EXCEPT ![w] = @ \cup {r}]
    /\ UNCHANGED <<service, restarts, request, local, cancels, beat, up, deaths, told, revoked>>

Complete(w, r) ==
    /\ r \in running[w]
    /\ task' = [task EXCEPT ![r] = "done"]
    /\ running' = [running EXCEPT ![w] = @ \ {r}]
    /\ UNCHANGED <<service, restarts, request, local, runs, cancels, beat, up, deaths, told, revoked>>

\* Mutant of Die: what it ran is delivered again (task_acks_late).
DieAcksLate(w) ==
    /\ w \in up
    /\ deaths < MaxDeaths
    /\ deaths' = deaths + 1
    /\ up' = up \ {w}
    /\ task' = [r \in Requests |-> IF r \in running[w] THEN "queued" ELSE task[r]]
    /\ running' = [running EXCEPT ![w] = {}]
    /\ told' = [told EXCEPT ![w] = {}]
    /\ revoked' = [revoked EXCEPT ![w] = {}]
    /\ stopped' = [r \in Requests |-> stopped[r] /\ up' # {}]
    /\ UNCHANGED <<service, restarts, request, local, runs, cancel, beat>>

\* A worker dies with its memory; what it ran was acknowledged and is lost.
Die(w) ==
    /\ w \in up
    /\ deaths < MaxDeaths
    /\ deaths' = deaths + 1
    /\ up' = up \ {w}
    /\ task' = [r \in Requests |-> IF r \in running[w] THEN "lost" ELSE task[r]]
    /\ running' = [running EXCEPT ![w] = {}]
    /\ told' = [told EXCEPT ![w] = {}]
    /\ revoked' = [revoked EXCEPT ![w] = {}]
    /\ stopped' = [r \in Requests |-> stopped[r] /\ up' # {}]
    /\ UNCHANGED <<service, restarts, request, local, runs, cancel, beat>>

\* Mutant of ComeUp: what the others reply is not taken over.
ComeUpUnsynced(w) ==
    /\ w \notin up
    /\ up' = up \cup {w}
    /\ \E replied \in SUBSET up :
         stopped' = [r \in Requests |-> stopped[r] /\ replied # {}]
    /\ UNCHANGED <<service, restarts, request, work, cancel, beat, deaths, told, revoked, running>>

\* A worker comes up and takes over what the others know to be revoked, those
\* of them whose reply is in time.
ComeUp(w) ==
    /\ w \notin up
    /\ up' = up \cup {w}
    /\ \E replied \in SUBSET up :
         /\ revoked' = [revoked EXCEPT ![w] = UNION {revoked[v] : v \in replied}]
         /\ stopped' = [r \in Requests |-> stopped[r] /\ replied # {}]
    /\ UNCHANGED <<service, restarts, request, work, cancel, beat, deaths, told, running>>

\* The application ends and starts again: what is in Redis and in the workers
\* stays, requests under way and the BackgroundTaskService's work do not.
Restart ==
    /\ restarts < MaxRestarts
    /\ restarts' = restarts + 1
    /\ service_status' = "AVAILABLE"
    /\ available_workers_count' = -1
    /\ timeout_count' = 0
    /\ pinging' = FALSE /\ checks' = 0 /\ foundNone' = FALSE
    /\ pc' = [r \in Requests |->
                IF pc[r] \in {"handling", "background", "celery"} THEN "cut" ELSE pc[r]]
    /\ local' = [r \in Requests |-> IF local[r] = "queued" THEN "lost" ELSE local[r]]
    /\ cancel' = [r \in Requests |-> "none"]
    /\ UNCHANGED <<kind, knownDown, task, runs, stopped, beat, pool>>

Endpoint(r) == ReadStatus(r) \/ AddTask(r) \/ Trigger(r)
Worker(w) == \E r \in Requests : Hear(w, r) \/ Take(w, r) \/ Complete(w, r)

Next ==
    \/ BeginCheck \/ EndCheck \/ Restart
    \/ \E r \in Requests :
         Arrive(r) \/ Endpoint(r) \/ RunLocal(r) \/ CancelRead(r) \/ CancelRevoke(r)
    \/ \E n \in Names : DeleteSchedule(n) \/ Fire(n)
    \/ \E w \in Workers : Worker(w) \/ Die(w) \/ ComeUp(w)

\* The event loop goes on and the ping ends, by its timeout at the latest;
\* the pool runs the endpoints; a worker that is up takes what is queued.
Fairness ==
    /\ WF_vars(EndCheck)
    /\ \A r \in Requests : WF_vars(Endpoint(r)) /\ SF_vars(RunLocal(r))
    /\ \A r \in Requests : SF_vars(\E w \in Workers : Take(w, r))

Spec == Init /\ [][Next]_vars
FairSpec == Spec /\ Fairness

-----------------------------------------------------------------------------
(* Properties                                                              *)

\* The type of every variable.
TypeOK ==
    /\ service_status \in {"AVAILABLE", "TEMPORARY_NOT_AVAILABLE"}
    /\ available_workers_count \in -1 .. Cardinality(Workers)
    /\ timeout_count \in Nat
    /\ {pinging, foundNone} \subseteq BOOLEAN
    /\ {checks, restarts, fires, deaths} \subseteq Nat
    /\ pc \in [Requests -> PcStates]
    /\ kind \in [Requests -> Kinds]
    /\ knownDown \in [Requests -> BOOLEAN]
    /\ local \in [Requests -> {"none", "queued", "done", "lost"}]
    /\ task \in [Requests -> TaskStates]
    /\ runs \in [Requests -> Nat]
    /\ cancel \in [Requests -> {"none", "read"}]
    /\ stopped \in [Requests -> BOOLEAN]
    /\ DOMAIN entries \subseteq Names
    /\ \A n \in DOMAIN entries : entries[n] \in Requests
    /\ up \subseteq Workers
    /\ told \in [Workers -> SUBSET Requests]
    /\ revoked \in [Workers -> SUBSET Requests]
    /\ running \in [Workers -> SUBSET Requests]

\* The work of one request is never started twice and never given to both
\* machines, whatever the status did between reading it and acting upon it and
\* however often the application and the workers restart; what an endpoint
\* answered to as accepted by the background tasks is not in Celery.
RunsAtMostOnce ==
    \A r \in Requests :
       kind[r] # "schedule" =>
         /\ runs[r] <= 1
         /\ local[r] = "none" \/ task[r] = "none"

\* Once a ping of this process had no reply, no direct task of a request that
\* arrives later is given to Celery, where nothing may ever take it.
KnownDownIsAvoided ==
    \A r \in Requests :
       knownDown[r] /\ kind[r] # "schedule" => task[r] = "none"

\* Once every running worker has processed the revocation of a task that is
\* still queued, it is never started, whatever workers die and come up and
\* however often the application restarts: unless all workers were down at
\* once since, or one came up without a reply from any other.  Until then the
\* answer to the client promises nothing.
CancelHolds ==
    \A r \in Requests : stopped[r] => runs[r] = 0

\* The BackgroundTaskService as it is used here keeps the same ledger as the
\* one that is modelled in detail.
LocalLedger == INSTANCE TaskLedger WITH Tasks <- Requests, fate <- local

\* What was accepted is settled: the ping without a reply, which holds the
\* event loop, delays the background tasks and does not stop them, so that the
\* process keeps its ledger; a task in Celery is taken if workers are up again
\* and again.
AcceptedIsSettled ==
    /\ LocalLedger!LedgerSpec
    /\ \A r \in Requests : []<>(up # {}) => (task[r] = "queued" ~> task[r] # "queued")

\* How far a piece of direct work has come, on the machine that has it.
Stage(k, l, t) ==
    IF k = "schedule" THEN "none"
    ELSE IF l = "none" THEN t
    ELSE IF t # "none" THEN "twice"
    ELSE IF l = "queued" THEN "waiting" ELSE l

\* Direct work is given to one machine, started once and kept as promised, in
\* every interleaving of endpoints, workers, cancellations and deaths.
Path == INSTANCE DirectWork WITH
            Works <- Requests,
            state <- [r \in Requests |-> Stage(kind[r], local[r], task[r])]
ImplementsDirectWork == Path!WorkSpec
=============================================================================
