------------------------ MODULE BackgroundTasksProofs ------------------------
(***************************************************************************)
(* What BackgroundTasks guarantees for any set of requests.                *)
(***************************************************************************)
EXTENDS BackgroundTasks, FiniteSetTheorems, TLAPS

-----------------------------------------------------------------------------
(* Type correctness                                                        *)

\* The process starts with its variables in their types.
LEMMA TypeInit == Init => TypeOK
BY ConstantsAssumption
   DEF Init, TypeOK, PcStates, RunnerStates, ActiveRunner, Fates

\* Whatever the clock does, every step keeps the variables in their types:
\* in particular an entry of sharing_task is always one of the lists that a
\* request registered, under an id the clock has already produced.
THEOREM TypeCorrect == Spec => []TypeOK
<1>1. Init => TypeOK
  BY TypeInit
<1>2. TypeOK /\ [Next]_vars => TypeOK'
  <2> SUFFICES ASSUME TypeOK, [Next]_vars PROVE TypeOK'
    OBVIOUS
  <2> USE ConstantsAssumption DEF TypeOK, http, store, loop, outcome
  <2>1. ASSUME NEW r \in Requests, Register(r) PROVE TypeOK'
    BY <2>1 DEF Register, Put, PcStates
  <2>2. ASSUME NEW r \in Requests, AddTask(r) PROVE TypeOK'
    BY <2>2 DEF AddTask, PcStates, Fates
  <2>3. ASSUME NEW r \in Requests, TriggerCelery(r) \/ Refuse(r) \/ Raise(r)
        PROVE TypeOK'
    BY <2>3 DEF TriggerCelery, Refuse, Raise, PcStates
  <2>4. ASSUME NEW r \in Requests, CreateRunner(r) PROVE TypeOK'
    BY <2>4 DEF CreateRunner, PcStates, RunnerStates, ActiveRunner
  <2>5. ASSUME NEW r \in Requests, Discard(r) PROVE TypeOK'
    BY <2>5 DEF Discard, Drop, PcStates
  <2>6. ASSUME NEW r \in Requests, Start(r) PROVE TypeOK'
    <3> DEFINE list == tasks[sharing_task[rid[r]]]
    <3>1. CASE rid[r] \notin DOMAIN sharing_task
      BY <2>6, <3>1 DEF Start, RunnerStates, ActiveRunner
    <3>2. CASE rid[r] \in DOMAIN sharing_task /\ list = <<>>
      <4>1. /\ running_tasks_count' = running_tasks_count - Len(list)
            /\ sharing_task' = Drop(sharing_task, rid[r])
            /\ runner' = [runner EXCEPT ![r] = "done"]
            /\ UNCHANGED <<http, tasks, held, pos, outcome, crashes>>
        BY <2>6, <3>2 DEF Start, Complete
      <4>2. Len(list) \in Nat
        BY <3>2
      <4>3. QED
        BY <4>1, <4>2 DEF Drop, RunnerStates, ActiveRunner
    <3>3. CASE rid[r] \in DOMAIN sharing_task /\ list # <<>>
      <4>1. sharing_task[rid[r]] \in Requests /\ Len(list) \in Nat
        BY <3>3
      <4>2. /\ running_tasks_count' = running_tasks_count + Len(list)
            /\ held' = [held EXCEPT ![r] = sharing_task[rid[r]]]
            /\ pos' = [pos EXCEPT ![r] = 1]
            /\ runner' = [runner EXCEPT ![r] = "yielded"]
            /\ UNCHANGED <<http, store, outcome, crashes>>
        BY <2>6, <3>3 DEF Start
      <4>3. QED
        BY <4>1, <4>2 DEF RunnerStates, ActiveRunner
    <3>4. QED
      BY <3>1, <3>2, <3>3
  <2>7. ASSUME NEW r \in Requests, CallTask(r) \/ Abort(r) PROVE TypeOK'
    BY <2>7 DEF CallTask, Abort, RunnerStates, ActiveRunner
  <2>8. ASSUME NEW r \in Requests, RunTask(r) PROVE TypeOK'
    <3> DEFINE t == tasks[held[r]][pos[r]]
    <3>1. PICK end \in {"done", "raised"}, state \in {"returned", "raised"} :
             /\ attempts' = [attempts EXCEPT ![t] = @ + 1]
             /\ fate' = [fate EXCEPT ![t] = end]
             /\ runner' = [runner EXCEPT ![r] = state]
             /\ UNCHANGED <<http, store, held, pos, running_tasks_count, crashes>>
      BY <2>8 DEF RunTask
    <3> HIDE DEF t
    <3>2. attempts' \in [Requests -> Nat]
      <4>1. attempts' = [x \in Requests |-> IF x = t THEN attempts[x] + 1 ELSE attempts[x]]
        BY <3>1, Zenon
      <4>2. \A x \in Requests : attempts[x] \in Nat /\ attempts[x] + 1 \in Nat
        OBVIOUS
      <4>3. QED
        BY <4>1, <4>2
    <3>3. fate' \in [Requests -> Fates]
      BY <3>1 DEF Fates
    <3>4. runner' \in [Requests -> RunnerStates]
      BY <3>1 DEF RunnerStates, ActiveRunner
    <3>5. QED
      BY <3>1, <3>2, <3>3, <3>4
  <2>9. ASSUME NEW r \in Requests, Resume(r) PROVE TypeOK'
    <3> DEFINE more == pos[r] < Len(tasks[held[r]])
    <3>1. CASE more
      <4>1. /\ pos' = [pos EXCEPT ![r] = @ + 1]
            /\ runner' = [runner EXCEPT ![r] = "yielded"]
            /\ UNCHANGED <<http, store, held, running_tasks_count, outcome, crashes>>
        BY <2>9, <3>1 DEF Resume
      <4>2. QED
        BY <4>1 DEF RunnerStates, ActiveRunner
    <3>2. CASE ~more
      <4>1. Complete(r) /\ UNCHANGED <<http, tasks, held, pos, outcome, crashes>>
        BY <2>9, <3>2 DEF Resume
      <4>2. CASE rid[r] \in DOMAIN sharing_task
        <5> DEFINE list == tasks[sharing_task[rid[r]]]
        <5>1. /\ running_tasks_count' = running_tasks_count - Len(list)
              /\ sharing_task' = Drop(sharing_task, rid[r])
              /\ runner' = [runner EXCEPT ![r] = "done"]
          BY <4>1, <4>2 DEF Complete
        <5>2. Len(list) \in Nat
          BY <4>2
        <5> HIDE DEF list
        <5>3. QED
          BY <4>1, <5>1, <5>2 DEF Drop, RunnerStates, ActiveRunner
      <4>3. CASE rid[r] \notin DOMAIN sharing_task
        BY <4>1, <4>3 DEF Complete, RunnerStates, ActiveRunner
      <4>4. QED
        BY <4>2, <4>3
    <3>3. QED
      BY <3>1, <3>2
  <2>10. CASE Crash
    BY <2>10 DEF Crash, PcStates, RunnerStates, Fates
  <2>11. CASE UNCHANGED vars
    BY <2>11 DEF vars
  <2>12. QED
    BY <2>1, <2>2, <2>3, <2>4, <2>5, <2>6, <2>7, <2>8, <2>9, <2>10, <2>11
       DEF Next, Endpoint, Respond, Coroutine
<1>3. QED
  BY <1>1, <1>2, PTL DEF Spec
-----------------------------------------------------------------------------
(* The inductive invariant, for a clock that never repeats a reading       *)

NoTask(r) == tasks[r] = <<>> /\ fate[r] = "none" /\ attempts[r] = 0
Pending(r) == tasks[r] = <<r>> /\ fate[r] = "queued" /\ attempts[r] = 0
Settled(r) == fate[r] # "queued" /\ attempts[r] \in {0, 1}
Iterating(r) == held[r] = r /\ pos[r] = 1 /\ tasks[r] = <<r>>

\* Where a request is determines what its list, its task and its runner hold.
Stage(r) ==
    /\ pc[r] # "finished" => runner[r] = "none"
    /\ pc[r] \in {"idle", "handling", "refused", "raised"} => NoTask(r)
    /\ pc[r] = "responded" \/ runner[r] = "created" => NoTask(r) \/ Pending(r)
    /\ runner[r] \in {"none", "created"} => held[r] = None
    /\ runner[r] \in {"yielded", "thread"} => Iterating(r) /\ Pending(r)
    /\ runner[r] = "returned" => Iterating(r) /\ fate[r] = "done" /\ attempts[r] = 1
    /\ runner[r] = "raised" => Iterating(r) /\ fate[r] = "raised" /\ attempts[r] = 1
    /\ runner[r] = "failed" => fate[r] = "raised" /\ attempts[r] = 1
    /\ runner[r] = "killed" => held[r] = None
    /\ runner[r] \in {"done", "killed"} => Settled(r)
    /\ pc[r] = "finished" /\ runner[r] = "none" => Settled(r)

\* An id belongs to one request.
IdsDiffer ==
    /\ \A r \in Requests : rid[r] = None <=> pc[r] = "idle"
    /\ \A r \in Requests : rid[r] # None => rid[r] < now
    /\ \A r, x \in Requests : rid[r] # None /\ rid[r] = rid[x] => r = x

\* The entry under an id is the one its request registered, and it stays as
\* long as somebody is going to read it.
Busy(r) == pc[r] \in {"handling", "responded", "refused", "raised"}
           \/ runner[r] \in ActiveRunner
EntriesMatch ==
    /\ \A i \in DOMAIN sharing_task :
          rid[sharing_task[i]] = i
    /\ \A i \in DOMAIN sharing_task :
          Busy(sharing_task[i]) \/ runner[sharing_task[i]] = "failed"
    /\ \A r \in Requests : Busy(r) => rid[r] \in DOMAIN sharing_task

Inv == /\ TypeOK
       /\ \A r \in Requests : Stage(r)
       /\ IdsDiffer
       /\ EntriesMatch

\* Only the variables of a request itself matter to its stage.
LEMMA StageFrame ==
  ASSUME NEW x, Stage(x),
         UNCHANGED <<pc[x], tasks[x], fate[x], attempts[x], runner[x], held[x], pos[x]>>
  PROVE  Stage(x)'
BY DEF Stage, NoTask, Pending, Settled, Iterating

\* The entry a request finds under its id is its own.
LEMMA OwnEntry ==
  ASSUME Inv, NEW r \in Requests, rid[r] \in DOMAIN sharing_task
  PROVE  sharing_task[rid[r]] = r
<1>1. rid[r] # None
  BY ConstantsAssumption DEF Inv, TypeOK
<1>2. sharing_task[rid[r]] \in Requests /\ rid[sharing_task[rid[r]]] = rid[r]
  BY DEF Inv, TypeOK, EntriesMatch
<1>3. QED
  BY <1>1, <1>2 DEF Inv, IdsDiffer

\* Ids and entries survive a step that changes only what a request does, as
\* long as it ends neither as a reader of its entry nor as an idle request.
LEMMA EntriesFrame ==
  ASSUME Inv, NEW r \in Requests, UNCHANGED <<now, rid, sharing_task>>,
         \A x \in Requests \ {r} : pc'[x] = pc[x] /\ runner'[x] = runner[x],
         pc[r] # "idle" /\ pc'[r] # "idle", Busy(r),
         Busy(r)' \/ runner'[r] = "failed"
  PROVE  IdsDiffer' /\ EntriesMatch'
<1>1. IdsDiffer'
  BY DEF Inv, IdsDiffer
<1>2. \A x \in Requests \ {r} : Busy(x)' = Busy(x)
  BY DEF Busy
<1>3. EntriesMatch'
  BY <1>2 DEF Inv, TypeOK, EntriesMatch
<1>4. QED
  BY <1>1, <1>3

\* Ids and entries survive a step that removes the entry of the request that
\* takes it and ends its interest in it.
LEMMA EntriesDrop ==
  ASSUME Inv, NEW r \in Requests, UNCHANGED <<now, rid>>,
         sharing_task' = Drop(sharing_task, rid[r]),
         \A x \in Requests \ {r} : pc'[x] = pc[x] /\ runner'[x] = runner[x],
         pc[r] # "idle" /\ pc'[r] # "idle", ~Busy(r)'
  PROVE  IdsDiffer' /\ EntriesMatch'
<1>1. IdsDiffer'
  BY DEF Inv, IdsDiffer
<1>2. \A x \in Requests \ {r} : Busy(x)' = Busy(x)
  BY DEF Busy
<1>3. /\ DOMAIN sharing_task' = DOMAIN sharing_task \ {rid[r]}
      /\ \A i \in DOMAIN sharing_task' : sharing_task'[i] = sharing_task[i]
  BY DEF Drop
<1>4. \A i \in DOMAIN sharing_task' : sharing_task[i] \in Requests \ {r}
  BY <1>3 DEF Inv, TypeOK, EntriesMatch
<1>5. \A x \in Requests \ {r} : Busy(x) => rid[x] # rid[r]
  <2> SUFFICES ASSUME NEW x \in Requests \ {r}, Busy(x) PROVE rid[x] # rid[r]
    OBVIOUS
  <2>1. rid[x] \in DOMAIN sharing_task
    BY DEF Inv, EntriesMatch
  <2>2. rid[x] # None
    BY <2>1, ConstantsAssumption DEF Inv, TypeOK
  <2>3. QED
    BY <2>2 DEF Inv, IdsDiffer
<1>6. EntriesMatch'
  <2>1. \A i \in DOMAIN sharing_task' : rid'[sharing_task'[i]] = i
    BY <1>3 DEF Inv, EntriesMatch
  <2>2. ASSUME NEW i \in DOMAIN sharing_task'
        PROVE  (Busy(sharing_task[i]) \/ runner[sharing_task[i]] = "failed")'
    <3> DEFINE x == sharing_task[i]
    <3>1. x \in Requests \ {r} /\ sharing_task'[i] = x
      BY <1>3, <1>4
    <3>2. Busy(x) \/ runner[x] = "failed"
      BY <1>3 DEF Inv, EntriesMatch
    <3>3. Busy(x)' = Busy(x)
      BY <1>2, <1>3, <3>1 DEF Busy
    <3>4. QED
      BY <3>1, <3>2, <3>3 DEF Busy
  <2>3. \A x \in Requests : Busy(x)' => rid'[x] \in DOMAIN sharing_task'
    BY <1>2, <1>3, <1>5 DEF Inv, EntriesMatch
  <2>4. QED
    BY <2>1, <2>2, <2>3 DEF EntriesMatch
<1>7. QED
  BY <1>1, <1>6

\* Every step keeps the invariant when two readings of the clock differ.
LEMMA StepKeepsInv ==
  ASSUME CoarseClock = FALSE, Inv, TypeOK', [Next]_vars
  PROVE  Inv'
<1> USE DEF http, store, loop, outcome
<1>1. ASSUME NEW r \in Requests, Register(r) PROVE Inv'
  <2>1. Stage(r)'
    BY <1>1 DEF Inv, TypeOK, Register, Stage, NoTask
  <2>2. ASSUME NEW x \in Requests \ {r} PROVE Stage(x)'
    BY <1>1, <2>2, StageFrame DEF Inv, TypeOK, Register
  <2>3. now' = now + 1 /\ rid' = [rid EXCEPT ![r] = now]
    BY <1>1 DEF Register
  <2>4. IdsDiffer'
    BY <1>1, <2>3, ConstantsAssumption DEF Inv, TypeOK, IdsDiffer, Register
  <2>5. /\ DOMAIN sharing_task' = DOMAIN sharing_task \cup {now}
        /\ sharing_task'[now] = r
        /\ \A i \in DOMAIN sharing_task \ {now} : sharing_task'[i] = sharing_task[i]
    BY <1>1 DEF Register, Put
  <2>6. \A x \in Requests \ {r} : Busy(x)' = Busy(x)
    BY <1>1 DEF Register, Busy, Inv, TypeOK
  <2>7. Busy(r)' /\ rid[r] = None /\ rid'[r] = now
    BY <1>1, <2>3 DEF Register, Busy, Inv, TypeOK, IdsDiffer
  <2>8. \A i \in DOMAIN sharing_task \ {now} : sharing_task[i] \in Requests \ {r}
    BY <2>7, ConstantsAssumption DEF Inv, TypeOK, EntriesMatch
  <2>9. EntriesMatch'
    <3>1. \A i \in DOMAIN sharing_task' : rid'[sharing_task'[i]] = i
      BY <2>3, <2>5, <2>7, <2>8 DEF Inv, TypeOK, EntriesMatch
    <3>2. ASSUME NEW i \in DOMAIN sharing_task'
          PROVE  (Busy(sharing_task[i]) \/ runner[sharing_task[i]] = "failed")'
      <4>1. CASE i = now
        BY <4>1, <2>5, <2>7 DEF Busy
      <4>2. CASE i # now
        <5> DEFINE x == sharing_task[i]
        <5>1. i \in DOMAIN sharing_task \ {now} /\ x \in Requests \ {r} /\ sharing_task'[i] = x
          BY <4>2, <2>5, <2>8
        <5>2. (Busy(x) \/ runner[x] = "failed") /\ runner' = runner
          BY <5>1, <1>1 DEF Inv, EntriesMatch, Register
        <5>3. Busy(x)' = Busy(x)
          BY <2>6, <5>1, <1>1 DEF Busy, Register, Inv, TypeOK
        <5>4. QED
          BY <5>1, <5>2, <5>3 DEF Busy
      <4>3. QED
        BY <4>1, <4>2
    <3>3. \A x \in Requests : Busy(x)' => rid'[x] \in DOMAIN sharing_task'
      BY <2>3, <2>5, <2>6, <2>7 DEF Inv, TypeOK, EntriesMatch
    <3>4. QED
      BY <3>1, <3>2, <3>3 DEF EntriesMatch
  <2>10. QED
    BY <2>1, <2>2, <2>4, <2>9 DEF Inv
<1>2. ASSUME NEW r \in Requests, AddTask(r) PROVE Inv'
  <2>1. sharing_task[rid[r]] = r
    BY <1>2, OwnEntry DEF AddTask
  <2>2. tasks[r] = <<>> /\ attempts[r] = 0 /\ runner[r] = "none" /\ held[r] = None
    BY <1>2 DEF Inv, Stage, NoTask, AddTask
  <2>3. tasks'[r] = <<r>> /\ fate'[r] = "queued" /\ attempts'[r] = 0
    BY <1>2, <2>1, <2>2 DEF AddTask, Inv, TypeOK
  <2>4. Stage(r)'
    BY <1>2, <2>2, <2>3 DEF AddTask, Inv, TypeOK, Stage, Pending
  <2>5. ASSUME NEW x \in Requests \ {r} PROVE Stage(x)'
    BY <1>2, <2>1, <2>5, StageFrame DEF Inv, TypeOK, AddTask
  <2>6. IdsDiffer' /\ EntriesMatch'
    BY <1>2, EntriesFrame DEF AddTask, Busy, Inv, TypeOK
  <2>7. QED
    BY <2>4, <2>5, <2>6 DEF Inv
<1>3. ASSUME NEW r \in Requests, TriggerCelery(r) \/ Refuse(r) \/ Raise(r) PROVE Inv'
  <2>1. Stage(r)'
    BY <1>3 DEF TriggerCelery, Refuse, Raise, Inv, TypeOK, Stage, NoTask
  <2>2. ASSUME NEW x \in Requests \ {r} PROVE Stage(x)'
    BY <1>3, <2>2, StageFrame DEF Inv, TypeOK, TriggerCelery, Refuse, Raise
  <2>3. IdsDiffer' /\ EntriesMatch'
    BY <1>3, EntriesFrame DEF TriggerCelery, Refuse, Raise, Busy, Inv, TypeOK
  <2>4. QED
    BY <2>1, <2>2, <2>3 DEF Inv
<1>4. ASSUME NEW r \in Requests, CreateRunner(r) PROVE Inv'
  <2>1. Stage(r)'
    BY <1>4 DEF CreateRunner, Inv, TypeOK, Stage, NoTask, Pending
  <2>2. ASSUME NEW x \in Requests \ {r} PROVE Stage(x)'
    BY <1>4, <2>2, StageFrame DEF Inv, TypeOK, CreateRunner
  <2>3. IdsDiffer' /\ EntriesMatch'
    BY <1>4, EntriesFrame DEF CreateRunner, Busy, Inv, TypeOK, ActiveRunner
  <2>4. QED
    BY <2>1, <2>2, <2>3 DEF Inv
<1>5. ASSUME NEW r \in Requests, Discard(r) PROVE Inv'
  <2>1. Stage(r)'
    BY <1>5 DEF Discard, Inv, TypeOK, Stage, NoTask, Settled
  <2>2. ASSUME NEW x \in Requests \ {r} PROVE Stage(x)'
    BY <1>5, <2>2, StageFrame DEF Inv, TypeOK, Discard
  <2>3. IdsDiffer' /\ EntriesMatch'
    <3>1. runner[r] = "none"
      BY <1>5 DEF Discard, Inv, Stage
    <3>2. QED
      BY <1>5, <3>1, EntriesDrop DEF Discard, Busy, Inv, TypeOK, ActiveRunner
  <2>4. QED
    BY <2>1, <2>2, <2>3 DEF Inv
<1>6. ASSUME NEW r \in Requests, Start(r) PROVE Inv'
  <2>1. /\ rid[r] \in DOMAIN sharing_task /\ sharing_task[rid[r]] = r
        /\ pc[r] = "finished" /\ held[r] = None
        /\ NoTask(r) \/ Pending(r)
    BY <1>6, OwnEntry DEF Start, Inv, EntriesMatch, Busy, ActiveRunner, Stage
  <2>2. ASSUME NEW x \in Requests \ {r} PROVE Stage(x)'
    BY <1>6, <2>2, StageFrame DEF Inv, TypeOK, Start, Complete
  <2>3. CASE tasks[r] = <<>>
    <3>1. /\ sharing_task' = Drop(sharing_task, rid[r])
          /\ runner' = [runner EXCEPT ![r] = "done"]
          /\ UNCHANGED <<http, tasks, held, pos, outcome>>
      BY <1>6, <2>1, <2>3 DEF Start, Complete
    <3>2. Stage(r)'
      <4>1. NoTask(r)
        BY <2>1, <2>3 DEF Pending
      <4>2. QED
        BY <2>1, <3>1, <4>1 DEF Inv, TypeOK, Stage, NoTask, Settled
    <3>3. IdsDiffer' /\ EntriesMatch'
      BY <2>1, <3>1, EntriesDrop DEF Busy, Inv, TypeOK, ActiveRunner
    <3>4. QED
      BY <2>2, <3>2, <3>3 DEF Inv
  <2>4. CASE tasks[r] # <<>>
    <3>1. /\ held' = [held EXCEPT ![r] = r]
          /\ pos' = [pos EXCEPT ![r] = 1]
          /\ runner' = [runner EXCEPT ![r] = "yielded"]
          /\ UNCHANGED <<http, store, outcome>>
      BY <1>6, <2>1, <2>4 DEF Start
    <3>2. Stage(r)'
      <4>1. Pending(r)
        BY <2>1, <2>4 DEF NoTask
      <4>2. QED
        BY <2>1, <3>1, <4>1 DEF Inv, TypeOK, Stage, Pending, Iterating
    <3>3. IdsDiffer' /\ EntriesMatch'
      BY <1>6, <2>1, <3>1, EntriesFrame DEF Start, Busy, Inv, TypeOK, ActiveRunner
    <3>4. QED
      BY <2>2, <3>2, <3>3 DEF Inv
  <2>5. QED
    BY <2>3, <2>4
<1>7. ASSUME NEW r \in Requests, CallTask(r) PROVE Inv'
  <2>1. Stage(r)'
    BY <1>7 DEF CallTask, Inv, TypeOK, Stage, Iterating, Pending
  <2>2. ASSUME NEW x \in Requests \ {r} PROVE Stage(x)'
    BY <1>7, <2>2, StageFrame DEF Inv, TypeOK, CallTask
  <2>3. pc[r] = "finished"
    BY <1>7 DEF CallTask, Inv, Stage
  <2>4. IdsDiffer' /\ EntriesMatch'
    BY <1>7, <2>3, EntriesFrame DEF CallTask, Busy, Inv, TypeOK, ActiveRunner
  <2>5. QED
    BY <2>1, <2>2, <2>4 DEF Inv
<1>8. ASSUME NEW r \in Requests, RunTask(r) PROVE Inv'
  <2>1. /\ held[r] = r /\ pos[r] = 1 /\ tasks[r] = <<r>>
        /\ attempts[r] = 0 /\ pc[r] = "finished"
    BY <1>8 DEF RunTask, Inv, Stage, Iterating, Pending
  <2>2. tasks[held[r]][pos[r]] = r
    BY <2>1
  <2>3. /\ attempts' = [attempts EXCEPT ![r] = @ + 1]
        /\ \/ /\ fate' = [fate EXCEPT ![r] = "done"]
              /\ runner' = [runner EXCEPT ![r] = "returned"]
           \/ /\ fate' = [fate EXCEPT ![r] = "raised"]
              /\ runner' = [runner EXCEPT ![r] = "raised"]
        /\ UNCHANGED <<http, store, held, pos>>
    BY <1>8, <2>2 DEF RunTask
  <2>4. Stage(r)'
    BY <2>1, <2>3 DEF Inv, TypeOK, Stage, Iterating
  <2>5. ASSUME NEW x \in Requests \ {r} PROVE Stage(x)'
    BY <2>3, <2>5, StageFrame DEF Inv, TypeOK
  <2>6. IdsDiffer' /\ EntriesMatch'
    <3>1. Busy(r) /\ Busy(r)'
      BY <1>8, <2>3 DEF RunTask, Busy, ActiveRunner, Inv, TypeOK
    <3>2. \A x \in Requests \ {r} : pc'[x] = pc[x] /\ runner'[x] = runner[x]
      BY <2>3 DEF Inv, TypeOK
    <3>3. UNCHANGED <<now, rid, sharing_task>> /\ pc[r] # "idle" /\ pc'[r] # "idle"
      BY <2>1, <2>3
    <3>4. QED
      BY <3>1, <3>2, <3>3, EntriesFrame
  <2>7. QED
    BY <2>4, <2>5, <2>6 DEF Inv
<1>9. ASSUME NEW r \in Requests, Resume(r) PROVE Inv'
  <2>1. /\ held[r] = r /\ pos[r] = 1 /\ tasks[r] = <<r>>
        /\ fate[r] = "done" /\ attempts[r] = 1 /\ pc[r] = "finished"
    BY <1>9 DEF Resume, Inv, Stage, Iterating
  <2>2. ~(pos[r] < Len(tasks[held[r]]))
    BY <2>1
  <2>3. rid[r] \in DOMAIN sharing_task
    BY <1>9 DEF Resume, Inv, EntriesMatch, Busy, ActiveRunner
  <2>4. /\ sharing_task' = Drop(sharing_task, rid[r])
        /\ runner' = [runner EXCEPT ![r] = "done"]
        /\ UNCHANGED <<http, tasks, held, pos, outcome>>
    BY <1>9, <2>2, <2>3 DEF Resume, Complete
  <2>5. Stage(r)'
    BY <2>1, <2>4 DEF Inv, TypeOK, Stage, Settled
  <2>6. ASSUME NEW x \in Requests \ {r} PROVE Stage(x)'
    BY <2>4, <2>6, StageFrame DEF Inv, TypeOK
  <2>7. IdsDiffer' /\ EntriesMatch'
    BY <2>1, <2>4, EntriesDrop DEF Busy, Inv, TypeOK, ActiveRunner
  <2>8. QED
    BY <2>5, <2>6, <2>7 DEF Inv
<1>10. ASSUME NEW r \in Requests, Abort(r) PROVE Inv'
  <2>1. Stage(r)'
    BY <1>10 DEF Abort, Inv, TypeOK, Stage, Iterating
  <2>2. ASSUME NEW x \in Requests \ {r} PROVE Stage(x)'
    BY <1>10, <2>2, StageFrame DEF Inv, TypeOK, Abort
  <2>3. pc[r] = "finished"
    BY <1>10 DEF Abort, Inv, Stage
  <2>4. IdsDiffer' /\ EntriesMatch'
    BY <1>10, <2>3, EntriesFrame DEF Abort, Busy, Inv, TypeOK, ActiveRunner
  <2>5. QED
    BY <2>1, <2>2, <2>4 DEF Inv
<1>11. CASE Crash
  <2>1. ASSUME NEW x \in Requests PROVE Stage(x)'
    BY <1>11, <2>1 DEF Crash, Inv, TypeOK, Stage, NoTask, Pending, Settled,
                       ActiveRunner, RunnerStates, PcStates
  <2>2. IdsDiffer'
    BY <1>11, ConstantsAssumption DEF Crash, Inv, TypeOK, IdsDiffer, PcStates
  <2>3. \A x \in Requests : ~Busy(x)'
    BY <1>11 DEF Crash, Busy, Inv, TypeOK, ActiveRunner
  <2>4. DOMAIN sharing_task' = {}
    BY <1>11 DEF Crash
  <2>5. QED
    BY <2>1, <2>2, <2>3, <2>4 DEF Inv, EntriesMatch
<1>12. CASE UNCHANGED vars
  <2>1. ASSUME NEW x \in Requests PROVE Stage(x)'
    BY <1>12, <2>1, StageFrame DEF vars, Inv
  <2>2. IdsDiffer' /\ EntriesMatch'
    BY <1>12 DEF vars, Inv, IdsDiffer, EntriesMatch, Busy
  <2>3. QED
    BY <2>1, <2>2 DEF Inv
<1>13. QED
  BY <1>1, <1>2, <1>3, <1>4, <1>5, <1>6, <1>7, <1>8, <1>9, <1>10, <1>11, <1>12
     DEF Next, Endpoint, Respond, Coroutine

\* The invariant holds of the specification when ids do not repeat.
LEMMA Invariance ==
  ASSUME CoarseClock = FALSE
  PROVE  Spec => []Inv
<1>1. Init => Inv
  BY TypeInit DEF Init, Inv, Stage, NoTask, IdsDiffer, EntriesMatch, Busy, ActiveRunner
<1>2. Inv /\ TypeOK' /\ [Next]_vars => Inv'
  BY StepKeepsInv
<1>3. QED
  BY <1>1, <1>2, TypeCorrect, PTL DEF Spec

-----------------------------------------------------------------------------
(* What follows from it                                                    *)

\* With ids that do not repeat the function of a task is called at most once.
THEOREM CalledAtMostOnce ==
  ASSUME CoarseClock = FALSE
  PROVE  Spec => []AtMostOnce
<1>1. Inv => AtMostOnce
  <2> SUFFICES ASSUME Inv, NEW r \in Requests PROVE attempts[r] <= 1
    BY DEF AtMostOnce
  <2>1. Stage(r) /\ pc[r] \in PcStates /\ runner[r] \in RunnerStates
    BY DEF Inv, TypeOK
  <2>2. attempts[r] \in {0, 1}
    <3>1. CASE pc[r] # "finished"
      BY <2>1, <3>1 DEF Stage, NoTask, Pending, PcStates
    <3>2. CASE pc[r] = "finished"
      BY <2>1, <3>2 DEF Stage, NoTask, Pending, Settled, RunnerStates, ActiveRunner
    <3>3. QED
      BY <3>1, <3>2
  <2>3. QED
    BY <2>2
<1>2. QED
  BY <1>1, Invariance, PTL

\* With ids that do not repeat a task that was announced to the client can
\* still be reached by the coroutine that is to run it.
THEOREM QueuedNeverLost ==
  ASSUME CoarseClock = FALSE
  PROVE  Spec => []QueuedIsReachable
<1>1. Inv => QueuedIsReachable
  <2> SUFFICES ASSUME Inv, NEW r \in Requests, fate[r] = "queued"
               PROVE  /\ rid[r] \in DOMAIN sharing_task
                      /\ r \in Elements(tasks[sharing_task[rid[r]]])
                      /\ pc[r] = "responded" \/ runner[r] \in {"created", "yielded", "thread"}
    BY DEF QueuedIsReachable
  <2>1. Stage(r)
    BY DEF Inv
  <2>2. pc[r] = "responded" \/ runner[r] \in {"created", "yielded", "thread"}
    BY <2>1 DEF Inv, TypeOK, Stage, NoTask, Settled, PcStates, RunnerStates, ActiveRunner
  <2>3. tasks[r] = <<r>>
    BY <2>1, <2>2 DEF Stage, NoTask, Pending
  <2>4. rid[r] \in DOMAIN sharing_task
    BY <2>2 DEF Inv, EntriesMatch, Busy, ActiveRunner
  <2>5. sharing_task[rid[r]] = r
    BY <2>4, OwnEntry
  <2>6. r \in Elements(tasks[r])
    BY <2>3 DEF Elements
  <2>7. QED
    BY <2>2, <2>4, <2>5, <2>6
<1>2. QED
  BY <1>1, Invariance, PTL

\* With ids that do not repeat an entry is left behind only by an exception.
THEOREM OnlyExceptionsLeak ==
  ASSUME CoarseClock = FALSE
  PROVE  Spec => []EntriesAccounted
<1>1. Inv => EntriesAccounted
  BY DEF Inv, EntriesMatch, Busy, EntriesAccounted
<1>2. QED
  BY <1>1, Invariance, PTL

\* With ids that do not repeat __call__ never misses its entry.
THEOREM RunnersFindTheirEntry ==
  ASSUME CoarseClock = FALSE
  PROVE  Spec => []NoKeyError
<1>1. Inv => NoKeyError
  BY DEF Inv, Stage, NoKeyError
<1>2. QED
  BY <1>1, Invariance, PTL

-----------------------------------------------------------------------------
(* The count of running tasks                                              *)

\* The set behind the count is finite, and the count starts at zero.
LEMMA CountInit == Init => CountExact
BY FS_EmptySet DEF Init, CountExact, Counted

\* A step that changes neither the count nor the set keeps them equal.
LEMMA CountFrame ==
  ASSUME CountExact, running_tasks_count' = running_tasks_count, Counted' = Counted
  PROVE  CountExact'
BY DEF CountExact

\* Every step keeps the count equal to the number of counted runners.
LEMMA StepKeepsCount ==
  ASSUME CoarseClock = FALSE, Inv, CountExact, [Next]_vars
  PROVE  CountExact'
<1> USE DEF http, store, loop, outcome
<1>0. IsFiniteSet(Counted)
  BY FS_Subset, ConstantsAssumption DEF Counted
<1>1. ASSUME NEW r \in Requests,
             Register(r) \/ Endpoint(r) \/ Discard(r)
      PROVE  CountExact'
  BY <1>1, CountFrame
     DEF Register, Endpoint, AddTask, TriggerCelery, Refuse, Raise, Discard, Counted
<1>2. ASSUME NEW r \in Requests, CreateRunner(r) PROVE CountExact'
  <2>1. runner[r] = "none" /\ UNCHANGED <<held, running_tasks_count>>
    BY <1>2 DEF CreateRunner, Inv, Stage
  <2>2. Counted' = Counted
    BY <1>2, <2>1 DEF CreateRunner, Counted, Inv, TypeOK
  <2>3. QED
    BY <2>1, <2>2, CountFrame
<1>3. ASSUME NEW r \in Requests, Start(r) PROVE CountExact'
  <2>1. /\ rid[r] \in DOMAIN sharing_task /\ sharing_task[rid[r]] = r
        /\ held[r] = None /\ runner[r] = "created"
        /\ NoTask(r) \/ Pending(r)
    BY <1>3, OwnEntry DEF Start, Inv, EntriesMatch, Busy, ActiveRunner, Stage
  <2>2. CASE tasks[r] = <<>>
    <3>1. /\ running_tasks_count' = running_tasks_count - Len(tasks[r])
          /\ runner' = [runner EXCEPT ![r] = "done"]
          /\ held' = held
      BY <1>3, <2>1, <2>2 DEF Start, Complete
    <3>2. running_tasks_count' = running_tasks_count
      BY <3>1, <2>2 DEF Inv, TypeOK
    <3>3. Counted' = Counted
      BY <2>1, <3>1 DEF Counted, Inv, TypeOK
    <3>4. QED
      BY <3>2, <3>3, CountFrame
  <2>3. CASE tasks[r] # <<>>
    <3>1. /\ running_tasks_count' = running_tasks_count + Len(tasks[r])
          /\ runner' = [runner EXCEPT ![r] = "yielded"]
          /\ held' = [held EXCEPT ![r] = r]
      BY <1>3, <2>1, <2>3 DEF Start
    <3>2. Len(tasks[r]) = 1
      <4>1. tasks[r] = <<r>>
        BY <2>1, <2>3 DEF NoTask, Pending
      <4>2. QED
        BY <4>1
    <3>3. Counted' = Counted \cup {r} /\ r \notin Counted
      BY <2>1, <3>1, ConstantsAssumption DEF Counted, Inv, TypeOK
    <3>4. Cardinality(Counted') = Cardinality(Counted) + 1
      BY <1>0, <3>3, FS_AddElement
    <3>5. QED
      BY <3>1, <3>2, <3>4 DEF CountExact
  <2>4. QED
    BY <2>2, <2>3
<1>4. ASSUME NEW r \in Requests, CallTask(r) \/ Abort(r) PROVE CountExact'
  <2>1. Counted' = Counted
    BY <1>4 DEF CallTask, Abort, Counted, Inv, TypeOK
  <2>2. QED
    BY <1>4, <2>1, CountFrame DEF CallTask, Abort
<1>5. ASSUME NEW r \in Requests, RunTask(r) PROVE CountExact'
  <2>1. Counted' = Counted
    BY <1>5 DEF RunTask, Counted, Inv, TypeOK
  <2>2. QED
    BY <1>5, <2>1, CountFrame DEF RunTask
<1>6. ASSUME NEW r \in Requests, Resume(r) PROVE CountExact'
  <2>1. /\ held[r] = r /\ pos[r] = 1 /\ tasks[r] = <<r>> /\ runner[r] = "returned"
    BY <1>6 DEF Resume, Inv, Stage, Iterating
  <2>2. ~(pos[r] < Len(tasks[held[r]])) /\ Len(tasks[r]) = 1
    BY <2>1
  <2>3. rid[r] \in DOMAIN sharing_task /\ sharing_task[rid[r]] = r
    BY <1>6, OwnEntry DEF Resume, Inv, EntriesMatch, Busy, ActiveRunner
  <2>4. /\ running_tasks_count' = running_tasks_count - 1
        /\ runner' = [runner EXCEPT ![r] = "done"]
        /\ held' = held
    BY <1>6, <2>2, <2>3 DEF Resume, Complete
  <2>5. Counted' = Counted \ {r} /\ r \in Counted
    BY <2>1, <2>4, ConstantsAssumption DEF Counted, Inv, TypeOK
  <2>6. Cardinality(Counted') = Cardinality(Counted) - 1
    BY <1>0, <2>5, FS_RemoveElement
  <2>7. QED
    BY <2>4, <2>6 DEF CountExact
<1>7. CASE Crash
  <2>1. Counted' = {} /\ running_tasks_count' = 0
    BY <1>7 DEF Crash, Counted
  <2>2. QED
    BY <2>1, FS_EmptySet DEF CountExact
<1>8. CASE UNCHANGED vars
  BY <1>8, CountFrame DEF vars, Counted
<1>9. QED
  BY <1>1, <1>2, <1>3, <1>4, <1>5, <1>6, <1>7, <1>8 DEF Next, Respond, Coroutine

\* With ids that do not repeat running_tasks_count is exact: it is the number
\* of runners between their two locked sections, those that a raising task
\* has stopped there included.
THEOREM CountIsExact ==
  ASSUME CoarseClock = FALSE
  PROVE  Spec => []CountExact
<1>1. Inv /\ CountExact /\ [Next]_vars => CountExact'
  BY StepKeepsCount
<1>2. QED
  BY <1>1, CountInit, Invariance, PTL DEF Spec

-----------------------------------------------------------------------------
(* The refinement                                                          *)

\* Every step accepts a task, settles one, loses all of them or none.
LEMMA StepIsLedgerStep ==
  ASSUME CoarseClock = FALSE, Inv, [Next]_vars
  PROVE  [Ledger!LedgerNext]_fate
<1> USE DEF http, store, loop, outcome
<1>1. ASSUME NEW r \in Requests, AddTask(r) PROVE Ledger!LedgerNext
  <2>1. fate[r] = "none"
    BY <1>1 DEF AddTask, Inv, Stage, NoTask
  <2>2. QED
    BY <1>1, <2>1 DEF AddTask, Ledger!LedgerNext, Ledger!Accept
<1>2. ASSUME NEW r \in Requests, RunTask(r) PROVE Ledger!LedgerNext
  <2>1. tasks[held[r]][pos[r]] = r /\ fate[r] = "queued"
    BY <1>2 DEF RunTask, Inv, Stage, Iterating, Pending
  <2>2. \E end \in {"done", "raised"} : fate' = [fate EXCEPT ![r] = end]
    BY <1>2, <2>1 DEF RunTask
  <2>3. QED
    BY <2>1, <2>2 DEF Ledger!LedgerNext, Ledger!Settle
<1>3. CASE Crash
  BY <1>3 DEF Crash, Ledger!LedgerNext, Ledger!LoseAll
<1>4. ASSUME NEW r \in Requests,
             \/ Register(r) \/ TriggerCelery(r) \/ Refuse(r) \/ Raise(r)
             \/ Respond(r) \/ Start(r) \/ CallTask(r) \/ Resume(r) \/ Abort(r)
      PROVE  fate' = fate
  BY <1>4 DEF Register, TriggerCelery, Refuse, Raise, Respond, CreateRunner,
              Discard, Start, CallTask, Resume, Abort
<1>5. CASE UNCHANGED vars
  BY <1>5 DEF vars
<1>6. QED
  BY <1>1, <1>2, <1>3, <1>4, <1>5 DEF Next, Endpoint, Coroutine

\* With ids that do not repeat the middleware, the routes and the runners
\* implement the ledger: an accepted task is settled once, and lost only when
\* the process dies.
THEOREM Refinement ==
  ASSUME CoarseClock = FALSE
  PROVE  Spec => Ledger!LedgerSafe
<1>1. Init => Ledger!LedgerInit
  BY DEF Init, Ledger!LedgerInit
<1>2. Inv /\ [Next]_vars => [Ledger!LedgerNext]_fate
  BY StepIsLedgerStep
<1>3. QED
  BY <1>1, <1>2, Invariance, PTL DEF Spec, Ledger!LedgerSafe
-----------------------------------------------------------------------------
(* Shared ids: what holds whatever the clock does                          *)

Iterates == {"yielded", "thread", "returned", "raised"}

\* A request without an id has done nothing yet, and a runner comes after the
\* response.
Placed ==
    \A r \in Requests :
       /\ rid[r] = None <=> pc[r] = "idle"
       /\ pc[r] = "idle" => fate[r] = "none" /\ attempts[r] = 0
       /\ runner[r] # "none" => pc[r] = "finished"

\* An entry is a list that a request with its id has registered.
OwnIds == \A i \in DOMAIN sharing_task : rid[sharing_task[i]] = i

\* The tasks of a list were added by requests that share its id.
Lists ==
    \A l \in Requests : \A k \in DOMAIN tasks[l] :
       /\ rid[l] # None /\ rid[tasks[l][k]] = rid[l]
       /\ pc[tasks[l][k]] \notin {"idle", "handling"}

\* No task stands at two places.
OnePlace ==
    \A l, m \in Requests : \A k \in DOMAIN tasks[l], j \in DOMAIN tasks[m] :
       tasks[l][k] = tasks[m][j] => l = m /\ k = j

\* A runner iterates over a list registered under its id.
HeldLists ==
    \A x \in Requests :
       /\ held[x] # None => rid[x] # None /\ rid[held[x]] = rid[x]
       /\ runner[x] \in Iterates => held[x] # None /\ pos[x] \in DOMAIN tasks[held[x]]

Sharing == Placed /\ OwnIds /\ Lists /\ OnePlace /\ HeldLists

\* Steps that add no task, give no id and start no iteration.
LEMMA SharingFrame ==
    ASSUME TypeOK, Sharing, UNCHANGED <<rid, tasks>>,
           \A i \in DOMAIN sharing_task' :
              i \in DOMAIN sharing_task /\ sharing_task'[i] = sharing_task[i],
           \A x \in Requests :
              /\ pc'[x] = "idle" <=> pc[x] = "idle"
              /\ pc'[x] = "handling" => pc[x] = "handling"
              /\ pc[x] = "idle" => fate'[x] = fate[x] /\ attempts'[x] = attempts[x]
              /\ runner'[x] # "none" => pc'[x] = "finished"
              /\ held'[x] # None => held'[x] = held[x]
              /\ runner'[x] \in Iterates => /\ runner[x] \in Iterates /\ held'[x] = held[x]
                                            /\ pos'[x] \in DOMAIN tasks[held[x]]
    PROVE  Sharing'
<1> USE DEF Sharing
<1>1. Placed' BY DEF Placed
<1>2. OwnIds' BY DEF OwnIds
<1>3. Lists'
  <2> SUFFICES ASSUME NEW l \in Requests, NEW k \in DOMAIN tasks[l]
               PROVE  /\ rid[l] # None /\ rid[tasks[l][k]] = rid[l]
                      /\ pc'[tasks[l][k]] \notin {"idle", "handling"}
    BY DEF Lists
  <2>1. tasks[l][k] \in Requests BY DEF TypeOK
  <2>2. QED BY <2>1 DEF Lists
<1>4. OnePlace' BY DEF OnePlace
<1>5. HeldLists' BY DEF HeldLists
<1>6. QED BY <1>1, <1>2, <1>3, <1>4, <1>5

\* Every step keeps lists, ids and runners together.
LEMMA SharingStep == TypeOK /\ Sharing /\ [Next]_vars => Sharing'
<1> SUFFICES ASSUME TypeOK, Sharing, [Next]_vars PROVE Sharing' OBVIOUS
<1> USE DEF http, store, loop, outcome
<1>0. now \in Nat /\ None \notin Nat /\ DOMAIN sharing_task \subseteq 0 .. now
  BY ConstantsAssumption DEF TypeOK
<1>1. ASSUME NEW r \in Requests, Register(r) PROVE Sharing'
  <2>1. /\ rid[r] = None /\ pc[r] = "idle" /\ rid' = [rid EXCEPT ![r] = now]
        /\ pc' = [pc EXCEPT ![r] = "handling"]
        /\ UNCHANGED <<tasks, runner, held, pos, fate, attempts>>
    BY <1>1 DEF Register, Sharing, Placed
  <2>2. /\ rid'[r] = now /\ pc'[r] = "handling"
        /\ \A x \in Requests \ {r} : rid'[x] = rid[x] /\ pc'[x] = pc[x]
    BY <2>1 DEF TypeOK
  <2>3. Placed' BY <1>0, <2>1, <2>2 DEF Sharing, Placed
  <2>4. OwnIds'
    <3>1. \A i \in DOMAIN sharing_task : i # None /\ sharing_task[i] \in Requests \ {r}
      BY <1>0, <2>1 DEF TypeOK, Sharing, OwnIds
    <3>2. QED BY <1>1, <2>2, <3>1 DEF Register, Put, Sharing, OwnIds
  <2>5. Lists'
    <3> SUFFICES ASSUME NEW l \in Requests, NEW k \in DOMAIN tasks[l]
                 PROVE  /\ rid'[l] # None /\ rid'[tasks[l][k]] = rid'[l]
                        /\ pc'[tasks[l][k]] \notin {"idle", "handling"}
      BY <2>1 DEF Lists
    <3>1. tasks[l][k] \in Requests BY DEF TypeOK
    <3>2. /\ rid[l] # None /\ rid[tasks[l][k]] = rid[l]
          /\ pc[tasks[l][k]] \notin {"idle", "handling"}
      BY DEF Sharing, Lists
    <3>3. tasks[l][k] # r /\ l # r BY <2>1, <3>2
    <3>4. QED BY <2>2, <3>1, <3>2, <3>3
  <2>6. OnePlace' BY <2>1 DEF Sharing, OnePlace
  <2>7. HeldLists'
    <3> SUFFICES ASSUME NEW x \in Requests
                 PROVE  /\ held[x] # None => rid'[x] # None /\ rid'[held[x]] = rid'[x]
                        /\ runner[x] \in Iterates =>
                              held[x] # None /\ pos[x] \in DOMAIN tasks[held[x]]
      BY <2>1 DEF HeldLists
    <3>1. held[x] # None => x # r /\ held[x] \in Requests \ {r}
      BY <2>1 DEF TypeOK, Sharing, HeldLists
    <3>2. QED BY <2>2, <3>1 DEF Sharing, HeldLists
  <2>8. QED BY <2>3, <2>4, <2>5, <2>6, <2>7 DEF Sharing
<1>2. ASSUME NEW r \in Requests, AddTask(r) PROVE Sharing'
  <2> DEFINE l == sharing_task[rid[r]]
  <2>1. /\ pc[r] = "handling" /\ rid[r] \in DOMAIN sharing_task
        /\ tasks' = [tasks EXCEPT ![l] = Append(@, r)]
        /\ fate' = [fate EXCEPT ![r] = "queued"]
        /\ pc' = [pc EXCEPT ![r] = "responded"]
        /\ UNCHANGED <<rid, sharing_task, runner, held, pos, attempts>>
    BY <1>2 DEF AddTask
  <2>2. l \in Requests /\ rid[l] = rid[r] /\ rid[r] # None
    BY <1>0, <2>1 DEF TypeOK, Sharing, OwnIds
  <2> HIDE DEF l
  <2>3. /\ tasks[l] \in Seq(Requests)
        /\ \A m \in Requests \ {l} : tasks'[m] = tasks[m]
        /\ tasks'[l] = Append(tasks[l], r)
    BY <2>1, <2>2 DEF TypeOK
  <2> DEFINE n == Len(tasks[l])
  <2>4. /\ n \in Nat /\ DOMAIN tasks[l] = 1 .. n /\ DOMAIN tasks'[l] = 1 .. n + 1
        /\ tasks'[l][n + 1] = r /\ \A k \in 1 .. n : tasks'[l][k] = tasks[l][k]
    BY <2>3
  <2> HIDE DEF n
  <2>5. \A m \in Requests : \A k \in DOMAIN tasks[m] : tasks[m][k] \in Requests \ {r}
    BY <2>1 DEF TypeOK, Sharing, Lists
  <2>6. pc'[r] = "responded" /\ \A x \in Requests \ {r} : pc'[x] = pc[x] /\ fate'[x] = fate[x]
    BY <2>1 DEF TypeOK
  <2>7. Placed' BY <2>1, <2>6 DEF Sharing, Placed
  <2>8. OwnIds' BY <2>1 DEF Sharing, OwnIds
  <2>9. Lists'
    <3> SUFFICES ASSUME NEW m \in Requests, NEW k \in DOMAIN tasks'[m]
                 PROVE  /\ rid[m] # None /\ rid[tasks'[m][k]] = rid[m]
                        /\ pc'[tasks'[m][k]] \notin {"idle", "handling"}
      BY <2>1 DEF Lists
    <3>1. CASE m = l /\ k = n + 1 BY <2>2, <2>4, <2>6, <3>1
    <3>2. CASE k \in DOMAIN tasks[m] /\ tasks'[m][k] = tasks[m][k]
      BY <2>5, <2>6, <3>2 DEF Sharing, Lists
    <3>3. QED BY <2>3, <2>4, <3>1, <3>2
  <2>10. OnePlace'
    <3> SUFFICES ASSUME NEW m \in Requests, NEW o \in Requests,
                        NEW k \in DOMAIN tasks'[m], NEW j \in DOMAIN tasks'[o],
                        tasks'[m][k] = tasks'[o][j]
                 PROVE  m = o /\ k = j
      BY DEF OnePlace
    <3>1. \/ m = l /\ k = n + 1 /\ tasks'[m][k] = r
          \/ k \in DOMAIN tasks[m] /\ tasks'[m][k] = tasks[m][k] /\ tasks'[m][k] # r
      BY <2>3, <2>4, <2>5
    <3>2. \/ o = l /\ j = n + 1 /\ tasks'[o][j] = r
          \/ j \in DOMAIN tasks[o] /\ tasks'[o][j] = tasks[o][j] /\ tasks'[o][j] # r
      BY <2>3, <2>4, <2>5
    <3>3. QED BY <3>1, <3>2 DEF Sharing, OnePlace
  <2>11. HeldLists'
    <3>1. \A m \in Requests : DOMAIN tasks[m] \subseteq DOMAIN tasks'[m] BY <2>3, <2>4
    <3>2. \A x \in Requests : held[x] # None => held[x] \in Requests BY DEF TypeOK
    <3>3. QED BY <2>1, <3>1, <3>2 DEF Sharing, HeldLists
  <2>12. QED BY <2>7, <2>8, <2>9, <2>10, <2>11 DEF Sharing
<1>3. ASSUME NEW r \in Requests, TriggerCelery(r) \/ Refuse(r) \/ Raise(r) PROVE Sharing'
  BY <1>3, SharingFrame DEF TriggerCelery, Refuse, Raise, TypeOK, Sharing, Placed, HeldLists
<1>4. ASSUME NEW r \in Requests, CreateRunner(r) PROVE Sharing'
  BY <1>4, SharingFrame DEF CreateRunner, TypeOK, Sharing, Placed, HeldLists, Iterates
<1>5. ASSUME NEW r \in Requests, Discard(r) PROVE Sharing'
  BY <1>5, SharingFrame DEF Discard, Drop, TypeOK, Sharing, Placed, HeldLists
<1>6. ASSUME NEW r \in Requests, Start(r) PROVE Sharing'
  <2>1. CASE UNCHANGED <<held, pos>> /\ runner'[r] \in {"done", "failed"}
    BY <1>6, <2>1, SharingFrame
       DEF Start, Complete, Drop, TypeOK, Sharing, Placed, HeldLists, Iterates
  <2>2. CASE /\ rid[r] \in DOMAIN sharing_task /\ tasks[sharing_task[rid[r]]] # <<>>
             /\ held' = [held EXCEPT ![r] = sharing_task[rid[r]]]
             /\ pos' = [pos EXCEPT ![r] = 1]
             /\ runner' = [runner EXCEPT ![r] = "yielded"]
             /\ UNCHANGED sharing_task
    <3> DEFINE l == sharing_task[rid[r]]
    <3>1. l \in Requests /\ rid[l] = rid[r] /\ rid[r] # None /\ l # None
      BY <1>0, <2>2, ConstantsAssumption DEF TypeOK, Sharing, OwnIds
    <3>2. tasks[l] \in Seq(Requests) /\ tasks[l] # <<>> BY <2>2, <3>1 DEF TypeOK
    <3>3. 1 \in DOMAIN tasks[l] BY <3>2
    <3>4. /\ held'[r] = l /\ pos'[r] = 1 /\ runner'[r] = "yielded"
          /\ \A x \in Requests \ {r} :
                held'[x] = held[x] /\ pos'[x] = pos[x] /\ runner'[x] = runner[x]
      BY <2>2 DEF TypeOK
    <3> HIDE DEF l
    <3>5. HeldLists' BY <1>6, <3>1, <3>3, <3>4 DEF Start, Sharing, HeldLists
    <3>6. Placed' BY <1>6, <3>4 DEF Start, Sharing, Placed
    <3>7. OwnIds' /\ Lists' /\ OnePlace'
      BY <1>6, <2>2 DEF Start, Sharing, OwnIds, Lists, OnePlace
    <3>8. QED BY <3>5, <3>6, <3>7 DEF Sharing
  <2>3. QED BY <1>6, <2>1, <2>2 DEF Start, Complete, TypeOK
<1>7. ASSUME NEW r \in Requests, CallTask(r) \/ Abort(r) PROVE Sharing'
  <2>1. /\ runner[r] \in Iterates /\ runner'[r] \in {"thread", "failed"}
        /\ \A x \in Requests \ {r} : runner'[x] = runner[x]
        /\ UNCHANGED <<http, store, held, pos, outcome>>
    BY <1>7 DEF CallTask, Abort, TypeOK, Iterates
  <2>2. QED BY <2>1, SharingFrame DEF Sharing, Placed, HeldLists, Iterates
<1>8. ASSUME NEW r \in Requests, RunTask(r) PROVE Sharing'
  <2> DEFINE t == tasks[held[r]][pos[r]]
  <2>1. /\ runner[r] = "thread" /\ held[r] \in Requests /\ pos[r] \in DOMAIN tasks[held[r]]
    BY <1>8 DEF RunTask, TypeOK, Sharing, HeldLists, Iterates
  <2>2. pc[t] # "idle" BY <2>1 DEF Sharing, Lists
  <2>3. \A x \in Requests : x # t => fate'[x] = fate[x] /\ attempts'[x] = attempts[x]
    BY <1>8 DEF RunTask, TypeOK
  <2>4. /\ runner'[r] \in {"returned", "raised"}
        /\ \A x \in Requests \ {r} : runner'[x] = runner[x]
        /\ UNCHANGED <<http, store, held, pos>>
    BY <1>8 DEF RunTask, TypeOK
  <2> HIDE DEF t
  <2>5. QED BY <2>1, <2>2, <2>3, <2>4, SharingFrame DEF Sharing, Placed, HeldLists, Iterates
<1>9. ASSUME NEW r \in Requests, Resume(r) PROVE Sharing'
  <2>1. CASE pos[r] < Len(tasks[held[r]])
    <3>1. /\ pos' = [pos EXCEPT ![r] = @ + 1] /\ runner' = [runner EXCEPT ![r] = "yielded"]
          /\ runner[r] = "returned"
          /\ UNCHANGED <<http, store, held, outcome>>
      BY <1>9, <2>1 DEF Resume
    <3>2. held[r] \in Requests /\ pos[r] \in DOMAIN tasks[held[r]]
      BY <3>1 DEF TypeOK, Sharing, HeldLists, Iterates
    <3>3. tasks[held[r]] \in Seq(Requests) BY <3>2 DEF TypeOK
    <3>4. pos[r] + 1 \in DOMAIN tasks[held[r]] BY <2>1, <3>2, <3>3
    <3>5. /\ pos'[r] = pos[r] + 1 /\ runner'[r] = "yielded"
          /\ \A x \in Requests \ {r} : pos'[x] = pos[x] /\ runner'[x] = runner[x]
      BY <3>1 DEF TypeOK
    <3>6. QED BY <3>1, <3>4, <3>5, SharingFrame DEF Sharing, Placed, HeldLists, Iterates
  <2>2. CASE ~(pos[r] < Len(tasks[held[r]]))
    <3>1. /\ runner[r] = "returned" /\ runner'[r] \in {"done", "failed"}
          /\ \A x \in Requests \ {r} : runner'[x] = runner[x]
          /\ UNCHANGED <<http, tasks, held, pos, outcome>>
      BY <1>9, <2>2 DEF Resume, Complete, TypeOK
    <3>2. \A i \in DOMAIN sharing_task' :
             i \in DOMAIN sharing_task /\ sharing_task'[i] = sharing_task[i]
      BY <1>9, <2>2 DEF Resume, Complete, Drop
    <3>3. QED BY <3>1, <3>2, SharingFrame DEF Sharing, Placed, HeldLists, Iterates
  <2>3. QED BY <2>1, <2>2
<1>10. CASE Crash
  <2>1. /\ pc' = [r \in Requests |-> IF pc[r] = "idle" THEN "idle" ELSE "finished"]
        /\ DOMAIN sharing_task' = {} /\ tasks' = [r \in Requests |-> <<>>]
        /\ runner' = [r \in Requests |-> IF runner[r] \in ActiveRunner THEN "killed"
                                                                     ELSE runner[r]]
        /\ held' = [r \in Requests |-> None]
        /\ fate' = [r \in Requests |-> IF fate[r] = "queued" THEN "lost" ELSE fate[r]]
        /\ UNCHANGED <<rid, attempts>>
    BY <1>10 DEF Crash
  <2>2. Placed' BY <2>1 DEF Sharing, Placed, ActiveRunner
  <2>3. OwnIds' /\ Lists' /\ OnePlace' BY <2>1 DEF OwnIds, Lists, OnePlace
  <2>4. \A x \in Requests : runner'[x] \notin Iterates
    BY <2>1 DEF TypeOK, RunnerStates, ActiveRunner, Iterates
  <2>5. HeldLists' BY <2>1, <2>4 DEF HeldLists
  <2>6. QED BY <2>2, <2>3, <2>5 DEF Sharing
<1>11. CASE UNCHANGED vars
  BY <1>11, SharingFrame DEF vars, Sharing, Placed, HeldLists
<1>12. QED
  BY <1>1, <1>2, <1>3, <1>4, <1>5, <1>6, <1>7, <1>8, <1>9, <1>10, <1>11
     DEF Next, Endpoint, Respond, Coroutine
-----------------------------------------------------------------------------
(* Shared ids: a task is called at most once per request with its id       *)

Ended == {"done", "failed", "killed"}

\* A runner is past the place of t in the list it iterates over, or has ended.
Past(x, t) ==
    \/ runner[x] \in Ended
    \/ /\ runner[x] \in Iterates
       /\ \E k \in DOMAIN tasks[held[x]] :
             /\ tasks[held[x]][k] = t
             /\ k < pos[x] \/ (k = pos[x] /\ runner[x] \in {"returned", "raised"})

\* The requests with t's id whose runner may have called t.
Callers(t) == {x \in SharesId(t) : Past(x, t)}

CalledOncePerRunner ==
    \A t \in Requests : pc[t] # "idle" => attempts[t] <= Cardinality(Callers(t))

\* An id is given once, and a runner only moves on in its list.
IdKept(x) == pc[x] # "idle" => rid'[x] = rid[x]
Forward(x) ==
    \/ runner[x] \notin Iterates \cup Ended
    \/ runner'[x] \in Ended
    \/ /\ {runner[x], runner'[x]} \subseteq Iterates
       /\ held'[x] = held[x]
       /\ \A k \in DOMAIN tasks[held[x]] :
             k \in DOMAIN tasks'[held[x]] /\ tasks'[held[x]][k] = tasks[held[x]][k]
       /\ \/ pos'[x] = pos[x] + 1
          \/ /\ pos'[x] = pos[x]
             /\ runner[x] \in {"returned", "raised"} => runner'[x] \in {"returned", "raised"}

LEMMA MovesOn ==
    TypeOK /\ Sharing /\ [Next]_vars => \A x \in Requests : IdKept(x) /\ Forward(x)
<1> SUFFICES ASSUME TypeOK, Sharing, [Next]_vars, NEW x \in Requests
             PROVE  IdKept(x) /\ Forward(x)
  OBVIOUS
<1> USE DEF http, store, loop, outcome
<1>1. ASSUME UNCHANGED <<rid, tasks, held, pos>>,
             runner'[x] = runner[x] \/ runner'[x] \in Ended
                \/ runner[x] \notin Iterates \cup Ended
      PROVE  IdKept(x) /\ Forward(x)
  BY <1>1 DEF IdKept, Forward, Iterates, Ended
<1>2. ASSUME NEW r \in Requests, Register(r) PROVE IdKept(x) /\ Forward(x)
  <2>1. pc[r] = "idle" /\ (x # r => rid'[x] = rid[x]) /\ UNCHANGED <<tasks, runner, held, pos>>
    BY <1>2 DEF Register, TypeOK
  <2>2. QED BY <2>1 DEF IdKept, Forward, Iterates, Ended
<1>3. ASSUME NEW r \in Requests, AddTask(r) PROVE IdKept(x) /\ Forward(x)
  <2>1. /\ rid[r] \in DOMAIN sharing_task
        /\ tasks' = [tasks EXCEPT ![sharing_task[rid[r]]] = Append(@, r)]
        /\ UNCHANGED <<rid, runner, held, pos>>
    BY <1>3 DEF AddTask
  <2>2. ASSUME NEW l \in Requests, NEW k \in DOMAIN tasks[l]
        PROVE  k \in DOMAIN tasks'[l] /\ tasks'[l][k] = tasks[l][k]
    <3>1. tasks[l] \in Seq(Requests) BY DEF TypeOK
    <3>2. tasks'[l] = tasks[l] \/ tasks'[l] = Append(tasks[l], r) BY <2>1 DEF TypeOK
    <3>3. QED BY <3>1, <3>2
  <2>3. runner[x] \in Iterates => held[x] \in Requests BY DEF TypeOK, Sharing, HeldLists
  <2>4. QED BY <2>1, <2>2, <2>3 DEF IdKept, Forward
<1>4. ASSUME NEW r \in Requests,
             TriggerCelery(r) \/ Refuse(r) \/ Raise(r) \/ Discard(r)
      PROVE  IdKept(x) /\ Forward(x)
  BY <1>1, <1>4 DEF TriggerCelery, Refuse, Raise, Discard
<1>5. ASSUME NEW r \in Requests, CreateRunner(r) PROVE IdKept(x) /\ Forward(x)
  <2>1. runner[r] = "none" BY <1>5 DEF CreateRunner, Sharing, Placed
  <2>2. QED BY <1>1, <1>5, <2>1 DEF CreateRunner, TypeOK, Iterates, Ended
<1>6. ASSUME NEW r \in Requests, Start(r) PROVE IdKept(x) /\ Forward(x)
  <2>1. /\ runner[r] = "created" /\ UNCHANGED <<rid, tasks>>
        /\ x # r => runner'[x] = runner[x] /\ held'[x] = held[x] /\ pos'[x] = pos[x]
    BY <1>6 DEF Start, Complete, TypeOK
  <2>2. QED BY <2>1 DEF IdKept, Forward, Iterates, Ended
<1>7. ASSUME NEW r \in Requests, CallTask(r) \/ Abort(r) \/ RunTask(r)
      PROVE  IdKept(x) /\ Forward(x)
  <2>1. /\ UNCHANGED <<rid, tasks, held, pos>>
        /\ x # r => runner'[x] = runner[x]
        /\ \/ runner[r] = "yielded" /\ runner'[r] = "thread"
           \/ runner[r] = "raised" /\ runner'[r] = "failed"
           \/ runner[r] = "thread" /\ runner'[r] \in {"returned", "raised"}
    BY <1>7 DEF CallTask, Abort, RunTask, TypeOK
  <2>2. QED BY <2>1 DEF IdKept, Forward, Iterates, Ended
<1>8. ASSUME NEW r \in Requests, Resume(r) PROVE IdKept(x) /\ Forward(x)
  <2>1. /\ runner[r] = "returned" /\ UNCHANGED <<rid, tasks, held>>
        /\ x # r => runner'[x] = runner[x] /\ pos'[x] = pos[x]
        /\ runner'[r] \in Ended \/ (runner'[r] = "yielded" /\ pos'[r] = pos[r] + 1)
    BY <1>8 DEF Resume, Complete, TypeOK, Ended
  <2>2. QED BY <2>1 DEF IdKept, Forward, Iterates, Ended
<1>9. CASE Crash
  <2>1. UNCHANGED rid /\ (runner[x] \in Iterates \cup Ended => runner'[x] \in Ended)
    BY <1>9 DEF Crash, TypeOK, Iterates, Ended, ActiveRunner
  <2>2. QED BY <2>1 DEF IdKept, Forward
<1>10. CASE UNCHANGED vars
  BY <1>1, <1>10 DEF vars
<1>11. QED
  BY <1>2, <1>3, <1>4, <1>5, <1>6, <1>7, <1>8, <1>9, <1>10
     DEF Next, Endpoint, Respond, Coroutine
\* Who has passed a task stays past it, so its callers only grow.
LEMMA CallersGrow ==
    ASSUME TypeOK, Sharing, [Next]_vars, NEW t \in Requests, pc[t] # "idle"
    PROVE  Callers(t) \subseteq Callers(t)'
<1> SUFFICES ASSUME NEW x \in Callers(t) PROVE x \in Callers(t)'
  OBVIOUS
<1>1. x \in Requests /\ rid[x] = rid[t] /\ Past(x, t)
  BY DEF Callers, SharesId
<1>2. pc[x] # "idle"
  BY <1>1 DEF Sharing, Placed
<1>3. rid'[x] = rid[x] /\ rid'[t] = rid[t] /\ Forward(x)
  BY <1>1, <1>2, MovesOn DEF IdKept
<1>4. Past(x, t)'
  <2>1. CASE runner'[x] \in Ended BY <2>1 DEF Past
  <2>2. CASE runner'[x] \notin Ended
    <3>1. runner[x] \in Iterates
      BY <1>1, <1>3, <2>2 DEF Past, Forward
    <3>2. PICK k \in DOMAIN tasks[held[x]] :
             /\ tasks[held[x]][k] = t
             /\ k < pos[x] \/ (k = pos[x] /\ runner[x] \in {"returned", "raised"})
      BY <1>1, <3>1 DEF Past, Iterates, Ended
    <3>3. held[x] \in Requests /\ pos[x] \in Nat
      BY <1>1, <3>1 DEF TypeOK, Sharing, HeldLists
    <3>4. k \in Nat
      <4>1. tasks[held[x]] \in Seq(Requests) BY <3>3 DEF TypeOK
      <4>2. QED BY <3>2, <4>1
    <3>5. /\ runner'[x] \in Iterates /\ held'[x] = held[x]
          /\ k \in DOMAIN tasks'[held[x]] /\ tasks'[held[x]][k] = t
          /\ \/ pos'[x] = pos[x] + 1
             \/ /\ pos'[x] = pos[x]
                /\ runner[x] \in {"returned", "raised"} => runner'[x] \in {"returned", "raised"}
      BY <1>3, <2>2, <3>1, <3>2 DEF Forward, Iterates, Ended
    <3>6. k < pos'[x] \/ (k = pos'[x] /\ runner'[x] \in {"returned", "raised"})
      BY <3>2, <3>3, <3>4, <3>5
    <3>7. QED BY <3>5, <3>6 DEF Past
  <2>3. QED BY <2>1, <2>2
<1>5. QED BY <1>1, <1>3, <1>4 DEF Callers, SharesId

\* The requests are finitely many, and so are the callers of a task.
LEMMA CallersFinite ==
    ASSUME NEW t \in Requests
    PROVE  IsFiniteSet(Callers(t)) /\ Cardinality(Callers(t)) \in Nat
<1>1. Callers(t) \subseteq Requests BY DEF Callers, SharesId
<1>2. QED BY <1>1, ConstantsAssumption, FS_Subset, FS_CardinalityType

\* A runner that calls a task was not yet among its callers and is now.
LEMMA CallerIsNew ==
    ASSUME TypeOK, Sharing, NEW r \in Requests, RunTask(r),
           NEW t, t = tasks[held[r]][pos[r]]
    PROVE  /\ t \in Requests /\ pc[t] # "idle" /\ r \notin Callers(t) /\ r \in Callers(t)'
           /\ attempts'[t] = attempts[t] + 1
           /\ \A x \in Requests \ {t} : attempts'[x] = attempts[x]
<1>1. /\ runner[r] = "thread" /\ held[r] \in Requests /\ pos[r] \in DOMAIN tasks[held[r]]
      /\ rid[held[r]] = rid[r] /\ held[r] # None
  BY DEF RunTask, TypeOK, Sharing, HeldLists, Iterates
<1>2. tasks[held[r]] \in Seq(Requests) BY <1>1 DEF TypeOK
<1>3. t \in Requests /\ pc[t] # "idle" /\ rid[t] = rid[r]
  BY <1>1, <1>2 DEF Sharing, Lists
<1>4. pos[r] \in Nat BY DEF TypeOK
<1>5. ~Past(r, t)
  <2>1. \A k \in DOMAIN tasks[held[r]] : tasks[held[r]][k] = t => k = pos[r]
    BY <1>1 DEF Sharing, OnePlace
  <2>2. QED BY <1>1, <1>4, <2>1 DEF Past, Ended
<1>6. /\ runner'[r] \in {"returned", "raised"} /\ UNCHANGED <<rid, tasks, held, pos>>
      /\ attempts' = [attempts EXCEPT ![t] = @ + 1]
  BY DEF RunTask, TypeOK, http, store
<1>7. attempts'[t] = attempts[t] + 1 /\ \A x \in Requests \ {t} : attempts'[x] = attempts[x]
  BY <1>3, <1>6 DEF TypeOK
<1>8. Past(r, t)' BY <1>1, <1>6 DEF Past, Iterates
<1>9. QED BY <1>3, <1>5, <1>6, <1>7, <1>8 DEF Callers, SharesId

LEMMA CallsStep ==
    TypeOK /\ Sharing /\ CalledOncePerRunner /\ [Next]_vars => CalledOncePerRunner'
<1> SUFFICES ASSUME TypeOK, Sharing, CalledOncePerRunner, [Next]_vars,
                    NEW t \in Requests, pc'[t] # "idle"
             PROVE  attempts'[t] <= Cardinality(Callers(t)')
  BY DEF CalledOncePerRunner
<1> DEFINE before == Callers(t)
           after == Callers(t)'
<1>1. attempts[t] \in Nat BY DEF TypeOK
<1>2. IsFiniteSet(before) /\ Cardinality(before) \in Nat BY CallersFinite
<1>3. IsFiniteSet(after) /\ Cardinality(after) \in Nat
  <2>1. after \subseteq Requests BY DEF Callers, SharesId
  <2>2. QED BY <2>1, ConstantsAssumption, FS_Subset, FS_CardinalityType
<1>4. ASSUME attempts'[t] = attempts[t], pc[t] # "idle"
      PROVE  attempts'[t] <= Cardinality(after)
  <2>1. attempts[t] <= Cardinality(before) BY <1>4 DEF CalledOncePerRunner
  <2>2. before \subseteq after BY <1>4, CallersGrow
  <2>3. Cardinality(before) <= Cardinality(after) BY <1>3, <2>2, FS_Subset
  <2>4. QED BY <1>1, <1>2, <1>3, <1>4, <2>1, <2>3
<1>5. ASSUME attempts'[t] = attempts[t], pc[t] = "idle"
      PROVE  attempts'[t] <= Cardinality(after)
  <2>1. attempts[t] = 0 BY <1>5 DEF Sharing, Placed
  <2>2. QED BY <1>3, <1>5, <2>1
<1>6. ASSUME NEW r \in Requests, RunTask(r) PROVE attempts'[t] <= Cardinality(after)
  <2>1. CASE t = tasks[held[r]][pos[r]]
    <3>1. /\ pc[t] # "idle" /\ r \notin before /\ r \in after
          /\ attempts'[t] = attempts[t] + 1
      BY <1>6, <2>1, CallerIsNew
    <3>2. before \subseteq after BY <3>1, CallersGrow
    <3> HIDE DEF before, after
    <3>3. /\ IsFiniteSet(before \cup {r})
          /\ Cardinality(before \cup {r}) = Cardinality(before) + 1
      BY <1>2, <3>1, FS_AddElement
    <3>4. before \cup {r} \subseteq after BY <3>1, <3>2
    <3>5. Cardinality(before \cup {r}) <= Cardinality(after) BY <1>3, <3>4, FS_Subset
    <3>6. attempts[t] <= Cardinality(before) BY <3>1 DEF CalledOncePerRunner, before
    <3>7. QED BY <1>1, <1>2, <1>3, <3>1, <3>3, <3>5, <3>6
  <2>2. CASE t # tasks[held[r]][pos[r]]
    <3>1. \A x \in Requests \ {tasks[held[r]][pos[r]]} : attempts'[x] = attempts[x]
      BY <1>6, CallerIsNew
    <3>2. QED BY <1>4, <1>5, <2>2, <3>1
  <2>3. QED BY <2>1, <2>2
<1>7. CASE \A r \in Requests : ~RunTask(r)
  <2>1. UNCHANGED attempts
    BY <1>7 DEF Next, Endpoint, Respond, Coroutine, Register, AddTask, TriggerCelery, Refuse,
                Raise, CreateRunner, Discard, Start, CallTask, Resume, Abort, Crash, vars, outcome
  <2>2. QED BY <1>4, <1>5, <2>1
<1>8. QED BY <1>6, <1>7

-----------------------------------------------------------------------------
(* Shared ids: a request whose id is its own                               *)

Lone(r) == SharesId(r) = {r} /\ pc[r] # "idle"

\* It keeps its entry as long as anybody is going to read it; its task waits in
\* its list for its runner, and only a task that raised stops that runner.
Undisturbed(r) ==
    /\ Busy(r) => rid[r] \in DOMAIN sharing_task
    /\ fate[r] = "queued" => /\ tasks[r] = <<r>>
                             /\ pc[r] = "responded" \/ runner[r] \in {"created", "yielded", "thread"}
    /\ runner[r] \in {"raised", "failed"} => fate[r] = "raised"

LoneUndisturbed == \A r \in Requests : Lone(r) => Undisturbed(r)

\* What its entry, its list and its runner refer to is its own.
LEMMA LoneOwnsAll ==
    ASSUME TypeOK, Sharing, NEW r \in Requests, Lone(r)
    PROVE  /\ \A x \in Requests \ {r} : rid[x] # rid[r]
           /\ rid[r] \in DOMAIN sharing_task => sharing_task[rid[r]] = r
           /\ \A k \in DOMAIN tasks[r] : tasks[r][k] = r
           /\ held[r] # None => held[r] = r
<1>1. \A x \in Requests : rid[x] = rid[r] => x = r
  BY DEF Lone, SharesId
<1>2. rid[r] \in DOMAIN sharing_task => sharing_task[rid[r]] = r
  BY <1>1 DEF TypeOK, Sharing, OwnIds
<1>3. \A k \in DOMAIN tasks[r] : tasks[r][k] = r
  <2>1. \A k \in DOMAIN tasks[r] : tasks[r][k] \in Requests BY DEF TypeOK
  <2>2. QED BY <1>1, <2>1 DEF Sharing, Lists
<1>4. held[r] # None => held[r] = r
  BY <1>1 DEF TypeOK, Sharing, HeldLists
<1>5. QED BY <1>1, <1>2, <1>3, <1>4

\* The steps of the other requests leave it alone.
LEMMA OthersKeepAway ==
    ASSUME TypeOK, Sharing, NEW r \in Requests, Lone(r), Undisturbed(r),
           UNCHANGED <<rid[r], pc[r], runner[r], fate[r], tasks[r]>>,
           rid[r] \in DOMAIN sharing_task => rid[r] \in DOMAIN sharing_task'
    PROVE  Undisturbed(r)'
BY DEF Undisturbed, Busy

LEMMA LoneStep == TypeOK /\ Sharing /\ LoneUndisturbed /\ [Next]_vars => LoneUndisturbed'
<1> SUFFICES ASSUME TypeOK, Sharing, LoneUndisturbed, [Next]_vars,
                    NEW r \in Requests, Lone(r)'
             PROVE  Undisturbed(r)'
  BY DEF LoneUndisturbed
<1> USE DEF http, store, loop, outcome
<1>1. ASSUME pc[r] = "idle" PROVE Undisturbed(r)'
  <2>1. pc'[r] # "idle" BY DEF Lone
  <2>2. Register(r) /\ fate[r] = "none" /\ runner[r] = "none"
    <3>1. fate[r] = "none" /\ runner[r] = "none" BY <1>1 DEF Sharing, Placed
    <3>2. ASSUME NEW y \in Requests, Register(y) PROVE y = r
      BY <1>1, <2>1, <3>2 DEF Register, TypeOK
    <3>3. ASSUME NEW y \in Requests, Endpoint(y) \/ Respond(y) PROVE FALSE
      BY <1>1, <2>1, <3>3 DEF Endpoint, Respond, AddTask, TriggerCelery, Refuse, Raise,
                              CreateRunner, Discard, TypeOK
    <3>4. ASSUME NEW y \in Requests, Coroutine(y) PROVE FALSE
      BY <1>1, <2>1, <3>4 DEF Coroutine, Start, CallTask, RunTask, Resume, Abort
    <3>5. ~Crash /\ ~UNCHANGED vars BY <1>1, <2>1 DEF Crash, vars
    <3>6. QED BY <3>1, <3>2, <3>3, <3>4, <3>5 DEF Next
  <2>3. QED BY <2>2 DEF Register, Put, Undisturbed, TypeOK
<1>2. ASSUME pc[r] # "idle" PROVE Undisturbed(r)'
  <2>0. rid'[r] = rid[r] /\ \A x \in Requests : rid[x] # None => rid'[x] = rid[x]
    BY <1>2, MovesOn DEF Sharing, Placed, IdKept
  <2>1. Lone(r) /\ Undisturbed(r)
    <3>1. SharesId(r) \subseteq SharesId(r)'
      BY <1>2, <2>0 DEF SharesId, Sharing, Placed
    <3>2. r \in SharesId(r) BY DEF SharesId
    <3>3. QED BY <1>2, <3>1, <3>2 DEF Lone, LoneUndisturbed
  <2>2. /\ \A x \in Requests \ {r} : rid[x] # rid[r]
        /\ rid[r] \in DOMAIN sharing_task => sharing_task[rid[r]] = r
        /\ \A k \in DOMAIN tasks[r] : tasks[r][k] = r
        /\ held[r] # None => held[r] = r
    BY <2>1, LoneOwnsAll
  <2>3. tasks[r] \in Seq(Requests) /\ pc[r] \in PcStates /\ runner[r] \in RunnerStates
    BY DEF TypeOK
  <2>4. ASSUME NEW y \in Requests, Register(y) PROVE Undisturbed(r)'
    <3>1. y # r BY <1>2, <2>4 DEF Register
    <3>2. QED BY <2>0, <2>1, <2>4, <3>1, OthersKeepAway DEF Register, Put, TypeOK
  <2>5. ASSUME NEW y \in Requests \ {r}, AddTask(y) PROVE Undisturbed(r)'
    <3>1. sharing_task[rid[y]] # r
      BY <2>2, <2>5 DEF AddTask, Sharing, OwnIds
    <3>2. tasks'[r] = tasks[r] BY <2>5, <3>1 DEF AddTask, TypeOK
    <3>3. QED BY <2>1, <2>5, <3>2, OthersKeepAway DEF AddTask, TypeOK
  <2>6. ASSUME AddTask(r) PROVE Undisturbed(r)'
    <3>1. pc[r] = "handling" /\ rid[r] \in DOMAIN sharing_task /\ UNCHANGED <<rid, sharing_task, runner>>
          /\ fate'[r] = "queued" /\ pc'[r] = "responded"
      BY <2>6 DEF AddTask, TypeOK
    <3>2. tasks'[r] = Append(tasks[r], r) BY <2>2, <2>6, <3>1 DEF AddTask, TypeOK
    <3>3. tasks[r] = <<>>
      <4>1. 1 \notin DOMAIN tasks[r] BY <2>2, <3>1 DEF Sharing, Lists
      <4>2. QED BY <2>3, <4>1
    <3>4. tasks'[r] = <<r>> BY <3>2, <3>3
    <3>5. runner[r] = "none" BY <3>1 DEF Sharing, Placed
    <3>6. QED BY <3>1, <3>4, <3>5 DEF Undisturbed
  <2>7. ASSUME NEW y \in Requests, TriggerCelery(y) \/ Refuse(y) \/ Raise(y)
        PROVE  Undisturbed(r)'
    <3>1. CASE y # r
      BY <2>1, <2>7, <3>1, OthersKeepAway DEF TriggerCelery, Refuse, Raise, TypeOK
    <3>2. CASE y = r
      <4>1. runner[r] = "none" /\ pc[r] = "handling"
        BY <2>7, <3>2 DEF TriggerCelery, Refuse, Raise, Sharing, Placed
      <4>2. QED BY <2>1, <2>7, <3>2, <4>1
               DEF TriggerCelery, Refuse, Raise, Undisturbed, Busy
    <3>3. QED BY <3>1, <3>2
  <2>8. ASSUME NEW y \in Requests, CreateRunner(y) PROVE Undisturbed(r)'
    <3>1. CASE y # r
      BY <2>1, <2>8, <3>1, OthersKeepAway DEF CreateRunner, TypeOK
    <3>2. CASE y = r
      <4>1. pc[r] = "responded" /\ runner'[r] = "created" /\ UNCHANGED <<rid, store, fate>>
        BY <2>8, <3>2 DEF CreateRunner, TypeOK
      <4>2. QED BY <2>1, <4>1 DEF Undisturbed, Busy
    <3>3. QED BY <3>1, <3>2
  <2>9. ASSUME NEW y \in Requests, Discard(y) PROVE Undisturbed(r)'
    <3>1. CASE y # r
      <4>1. rid[y] # rid[r] BY <2>2, <3>1
      <4>2. QED BY <2>1, <2>9, <3>1, <4>1, OthersKeepAway DEF Discard, Drop, TypeOK
    <3>2. CASE y = r
      <4>1. pc[r] = "refused" /\ pc'[r] = "finished" /\ UNCHANGED <<rid, tasks, runner, fate>>
        BY <2>9, <3>2 DEF Discard, TypeOK
      <4>2. runner[r] = "none" BY <4>1 DEF Sharing, Placed
      <4>3. QED BY <2>1, <4>1, <4>2 DEF Undisturbed, Busy, ActiveRunner
    <3>3. QED BY <3>1, <3>2
  <2>10. ASSUME NEW y \in Requests \ {r}, Coroutine(y) PROVE Undisturbed(r)'
    <3>1. rid[y] # rid[r] BY <2>2
    <3>2. /\ UNCHANGED <<rid, pc, tasks>> /\ runner'[r] = runner[r]
          /\ sharing_task' = sharing_task \/ sharing_task' = Drop(sharing_task, rid[y])
      BY <2>10 DEF Coroutine, Start, CallTask, RunTask, Resume, Abort, Complete, TypeOK
    <3>3. fate'[r] = fate[r]
      <4>1. CASE RunTask(y)
        <5>1. /\ runner[y] = "thread" /\ held[y] \in Requests /\ held[y] # None
              /\ pos[y] \in DOMAIN tasks[held[y]] /\ rid[held[y]] = rid[y]
          BY <4>1 DEF RunTask, TypeOK, Sharing, HeldLists, Iterates
        <5>2. rid[tasks[held[y]][pos[y]]] = rid[y] BY <5>1 DEF Sharing, Lists
        <5>3. tasks[held[y]][pos[y]] # r BY <3>1, <5>2
        <5>4. QED BY <4>1, <5>3 DEF RunTask, TypeOK
      <4>2. CASE ~RunTask(y)
        BY <2>10, <4>2 DEF Coroutine, Start, CallTask, Resume, Abort
      <4>3. QED BY <4>1, <4>2
    <3>4. rid[r] \in DOMAIN sharing_task => rid[r] \in DOMAIN sharing_task'
      BY <3>1, <3>2 DEF Drop
    <3>5. QED BY <2>1, <3>2, <3>3, <3>4, OthersKeepAway
  <2>11. ASSUME Start(r) PROVE Undisturbed(r)'
    <3>1. /\ runner[r] = "created" /\ rid[r] \in DOMAIN sharing_task
          /\ UNCHANGED <<rid, pc, tasks, fate>>
      BY <2>1, <2>11 DEF Start, Undisturbed, Busy, ActiveRunner
    <3>2. pc[r] = "finished" BY <3>1 DEF Sharing, Placed
    <3>3. \/ tasks[r] = <<>> /\ runner'[r] = "done"
          \/ runner'[r] = "yielded" /\ UNCHANGED sharing_task
      BY <2>2, <2>11, <3>1 DEF Start, Complete, TypeOK
    <3>4. fate[r] = "queued" => tasks[r] # <<>>
      <4>1. <<r>> # <<>> OBVIOUS
      <4>2. QED BY <2>1, <4>1 DEF Undisturbed
    <3>5. QED BY <2>1, <3>1, <3>2, <3>3, <3>4 DEF Undisturbed, Busy, ActiveRunner
  <2>12. ASSUME CallTask(r) \/ Abort(r) PROVE Undisturbed(r)'
    <3>1. /\ UNCHANGED <<rid, pc, sharing_task, tasks, fate>>
          /\ \/ runner[r] = "yielded" /\ runner'[r] = "thread"
             \/ runner[r] = "raised" /\ runner'[r] = "failed"
      BY <2>12 DEF CallTask, Abort, TypeOK
    <3>2. pc[r] = "finished" BY <3>1 DEF Sharing, Placed
    <3>3. QED BY <2>1, <3>1, <3>2 DEF Undisturbed, Busy, ActiveRunner
  <2>13. ASSUME RunTask(r) PROVE Undisturbed(r)'
    <3>1. /\ runner[r] = "thread" /\ held[r] # None /\ pos[r] \in DOMAIN tasks[held[r]]
          /\ UNCHANGED <<rid, pc, sharing_task, tasks>>
      BY <2>13 DEF RunTask, Sharing, HeldLists, Iterates
    <3>2. tasks[held[r]][pos[r]] = r BY <2>2, <3>1
    <3>3. \/ fate'[r] = "done" /\ runner'[r] = "returned"
          \/ fate'[r] = "raised" /\ runner'[r] = "raised"
      BY <2>13, <3>2 DEF RunTask, TypeOK
    <3>4. rid[r] \in DOMAIN sharing_task
      BY <2>1, <3>1 DEF Undisturbed, Busy, ActiveRunner
    <3>5. QED BY <3>1, <3>3, <3>4 DEF Undisturbed
  <2>14. ASSUME Resume(r) PROVE Undisturbed(r)'
    <3>1. /\ runner[r] = "returned" /\ rid[r] \in DOMAIN sharing_task
          /\ UNCHANGED <<rid, pc, tasks, fate>>
      BY <2>1, <2>14 DEF Resume, Undisturbed, Busy, ActiveRunner
    <3>2. pc[r] = "finished" BY <3>1 DEF Sharing, Placed
    <3>3. fate[r] # "queued" BY <2>1, <3>1, <3>2 DEF Undisturbed
    <3>4. \/ runner'[r] = "yielded" /\ UNCHANGED sharing_task
          \/ runner'[r] = "done"
      BY <2>14, <3>1 DEF Resume, Complete, TypeOK
    <3>5. QED BY <3>1, <3>2, <3>3, <3>4 DEF Undisturbed, Busy, ActiveRunner
  <2>15. CASE Crash
    <3>1. /\ pc'[r] = "finished" /\ fate'[r] # "queued"
          /\ runner'[r] \notin ActiveRunner
          /\ runner'[r] = "failed" => runner[r] = "failed"
          /\ fate[r] = "raised" => fate'[r] = "raised"
      BY <1>2, <2>15 DEF Crash, TypeOK, RunnerStates, ActiveRunner
    <3>2. QED BY <2>1, <3>1 DEF Undisturbed, Busy, ActiveRunner
  <2>16. CASE UNCHANGED vars
    BY <2>1, <2>16, OthersKeepAway DEF vars
  <2>17. QED
    BY <2>4, <2>5, <2>6, <2>7, <2>8, <2>9, <2>10, <2>11, <2>12, <2>13, <2>14, <2>15, <2>16
       DEF Next, Endpoint, Respond, Coroutine
<1>3. QED BY <1>1, <1>2

\* Whatever the clock does: a request is called at most as often as requests
\* share its id, and one that shares its id with nobody keeps its entry and its
\* task, and its runner ends with an exception only if the task raised.
THEOREM CollisionsAreContained == Spec => []CollisionIsContained
<1> DEFINE I == Sharing /\ CalledOncePerRunner /\ LoneUndisturbed
<1>1. Init => I
  <2> SUFFICES ASSUME Init PROVE I OBVIOUS
  <2>1. Placed /\ OwnIds /\ Lists /\ OnePlace
    BY DEF Init, Placed, OwnIds, Lists, OnePlace
  <2>2. HeldLists BY DEF Init, HeldLists, Iterates
  <2>3. CalledOncePerRunner /\ LoneUndisturbed
    BY DEF Init, CalledOncePerRunner, LoneUndisturbed, Lone
  <2>4. QED BY <2>1, <2>2, <2>3 DEF Sharing
<1>2. TypeOK /\ I /\ [Next]_vars => I'
  BY SharingStep, CallsStep, LoneStep
<1>3. TypeOK /\ I => CollisionIsContained
  <2> SUFFICES ASSUME TypeOK, I, NEW r \in Requests
               PROVE  /\ attempts[r] <= Cardinality(SharesId(r))
                      /\ fate[r] = "queued" /\ SharesId(r) = {r} =>
                            /\ rid[r] \in DOMAIN sharing_task
                            /\ sharing_task[rid[r]] = r
                            /\ tasks[r] = <<r>>
                      /\ runner[r] = "failed" /\ SharesId(r) = {r} => fate[r] = "raised"
    BY DEF CollisionIsContained
  <2>1. IsFiniteSet(SharesId(r)) /\ Cardinality(SharesId(r)) \in Nat
    <3>1. SharesId(r) \subseteq Requests BY DEF SharesId
    <3>2. QED BY <3>1, ConstantsAssumption, FS_Subset, FS_CardinalityType
  <2>2. attempts[r] <= Cardinality(SharesId(r))
    <3>1. CASE pc[r] = "idle" BY <2>1, <3>1 DEF Sharing, Placed
    <3>2. CASE pc[r] # "idle"
      <4>1. attempts[r] <= Cardinality(Callers(r)) /\ attempts[r] \in Nat
        BY <3>2 DEF CalledOncePerRunner, TypeOK
      <4>2. Callers(r) \subseteq SharesId(r) BY DEF Callers
      <4>3. Cardinality(Callers(r)) <= Cardinality(SharesId(r)) BY <2>1, <4>2, FS_Subset
      <4>4. Cardinality(Callers(r)) \in Nat BY CallersFinite
      <4>5. QED BY <2>1, <4>1, <4>3, <4>4
    <3>3. QED BY <3>1, <3>2
  <2>3. ASSUME SharesId(r) = {r}, fate[r] = "queued" \/ runner[r] = "failed"
        PROVE  Lone(r) /\ Undisturbed(r)
    <3>1. pc[r] # "idle" BY <2>3 DEF Sharing, Placed
    <3>2. QED BY <2>3, <3>1 DEF Lone, LoneUndisturbed
  <2>4. ASSUME SharesId(r) = {r}, fate[r] = "queued"
        PROVE  /\ rid[r] \in DOMAIN sharing_task
               /\ sharing_task[rid[r]] = r
               /\ tasks[r] = <<r>>
    <3>1. Lone(r) /\ Undisturbed(r) BY <2>3, <2>4
    <3>2. Busy(r) /\ tasks[r] = <<r>> BY <2>4, <3>1 DEF Undisturbed, Busy, ActiveRunner
    <3>3. QED BY <3>1, <3>2, LoneOwnsAll DEF Undisturbed
  <2>5. QED BY <2>2, <2>3, <2>4 DEF Undisturbed
<1>4. QED BY <1>1, <1>2, <1>3, TypeCorrect, PTL DEF Spec
=============================================================================
