--------------------------- MODULE CeleryWorkProofs ---------------------------
(***************************************************************************)
(* Theorems about the path of a request through CeleryService, for any     *)
(* number of requests, workers, schedule names, checks, deaths, restarts.  *)
(***************************************************************************)
EXTENDS CeleryWork, FiniteSetTheorems, TLAPS

Direct == {r \in Requests : kind[r] # "schedule"}

\* Before its endpoint has handed it over the work of a request is nowhere,
\* and work that was not started has not run.
HandedOver ==
    \A r \in Direct :
       /\ pc[r] \in {"idle", "handling", "background", "celery"} =>
             local[r] = "none" /\ task[r] = "none"
       /\ task[r] \in {"none", "queued", "revoked"} => runs[r] = 0

\* What a worker runs was taken from the queue; the entries of the beat belong
\* to schedules.
Taken ==
    /\ \A w \in Workers : \A r \in running[w] :
          r \in Direct => task[r] \in {"started", "done", "lost"}
    /\ \A n \in DOMAIN entries : entries[n] \notin Direct

\* A request that arrived after a ping without a reply still finds the status
\* that ping has left.
StatusStays ==
    /\ foundNone => service_status # "AVAILABLE"
    /\ \A r \in Direct : knownDown[r] =>
          /\ pc[r] = "handling" => service_status # "AVAILABLE"
          /\ pc[r] # "celery"

\* A revocation that must hold is known to all workers that are up, and there
\* is one; only direct work is revoked.
Remembered ==
    /\ \A r \in Requests : cancel[r] = "read" => r \in Direct
    /\ \A w \in Workers : told[w] \subseteq Direct
    /\ \A r \in Requests : stopped[r] =>
          /\ r \in Direct /\ task[r] \in {"queued", "revoked"}
          /\ up # {} /\ \A w \in up : r \in revoked[w]

\* The inductive invariant.
Inv == /\ TypeOK /\ HandedOver /\ RunsAtMostOnce /\ Taken
       /\ StatusStays /\ KnownDownIsAvoided /\ Remembered

\* A ping has at most as many replies as there are workers.
LEMMA RepliesAreCounted ==
    ASSUME TypeOK, NEW n \in 0 .. Cardinality(up)
    PROVE  n \in -1 .. Cardinality(Workers)
<1>1. /\ Cardinality(up) \in Nat /\ Cardinality(Workers) \in Nat
      /\ Cardinality(up) <= Cardinality(Workers)
  BY ConstantsAssumption, FS_Subset, FS_CardinalityType DEF TypeOK
<1>2. QED BY <1>1

\* Initially nothing was handed over.
LEMMA InitInv == Init => Inv
<1> SUFFICES ASSUME Init PROVE Inv OBVIOUS
<1> USE DEF Init
<1>1. Cardinality(Workers) \in Nat BY ConstantsAssumption, FS_CardinalityType
<1>a. DOMAIN entries = {} OBVIOUS
<1>b. -1 \in -1 .. Cardinality(Workers) BY <1>1
<1>c. /\ pc \in [Requests -> PcStates] /\ task \in [Requests -> TaskStates]
      /\ kind \in [Requests -> Kinds]
  BY DEF PcStates, TaskStates
<1>d. {pinging, foundNone} \subseteq BOOLEAN OBVIOUS
<1>e. /\ told \in [Workers -> SUBSET Requests] /\ revoked \in [Workers -> SUBSET Requests]
      /\ running \in [Workers -> SUBSET Requests]
      /\ knownDown \in [Requests -> BOOLEAN] /\ stopped \in [Requests -> BOOLEAN]
      /\ local \in [Requests -> {"none", "queued", "done", "lost"}]
      /\ cancel \in [Requests -> {"none", "read"}] /\ runs \in [Requests -> Nat]
  OBVIOUS
<1>f. {checks, restarts, fires, deaths} \subseteq Nat OBVIOUS
<1>2. TypeOK
  BY <1>a, <1>b, <1>c, <1>d, <1>e, <1>f DEF TypeOK
<1>3. HandedOver /\ RunsAtMostOnce /\ Taken BY DEF HandedOver, RunsAtMostOnce, Taken, Direct
<1>4. StatusStays /\ KnownDownIsAvoided BY DEF StatusStays, KnownDownIsAvoided, Direct
<1>5. Remembered BY DEF Remembered
<1>6. QED BY <1>2, <1>3, <1>4, <1>5 DEF Inv

\* The check changes the status in one direction only.
LEMMA CheckInv == ASSUME Inv, BeginCheck \/ EndCheck PROVE Inv'
<1> USE DEF Inv
<1>1. UNCHANGED <<restarts, request, work, cancels, beat, pool>>
  BY DEF BeginCheck, EndCheck
<1>2. Cardinality(Workers) \in Nat BY ConstantsAssumption, FS_CardinalityType
<1>a. /\ service_status' \in {"AVAILABLE", "TEMPORARY_NOT_AVAILABLE"}
      /\ service_status # "AVAILABLE" => service_status' # "AVAILABLE"
      /\ foundNone' => service_status' # "AVAILABLE"
      /\ available_workers_count' \in -1 .. Cardinality(Workers)
      /\ timeout_count' \in Nat /\ foundNone' \in BOOLEAN
  <2> USE DEF TypeOK, StatusStays
  <2>1. CASE BeginCheck BY <2>1 DEF BeginCheck
  <2>2. ASSUME NEW n \in 0 .. Cardinality(up), Replies(n) PROVE <1>a!:
    <3>1. n \in -1 .. Cardinality(Workers) BY RepliesAreCounted
    <3>2. CASE CountIsText BY <1>2, <2>2, <3>2 DEF Replies, CheckFails
    <3>3. CASE ~CountIsText BY <2>2, <3>1, <3>3 DEF Replies
    <3>4. QED BY <3>2, <3>3
  <2>3. CASE CheckFails(0) /\ UNCHANGED <<foundNone, service_status>>
    BY <1>2, <2>3 DEF CheckFails
  <2>4. QED BY <2>1, <2>2, <2>3 DEF EndCheck
<1>b. checks' \in Nat /\ pinging' \in BOOLEAN
  <2>1. checks \in Nat BY DEF TypeOK
  <2>2. CASE BeginCheck BY <2>1, <2>2 DEF BeginCheck
  <2>3. CASE EndCheck BY <2>1, <2>3 DEF EndCheck
  <2>4. QED BY <2>2, <2>3
<1>3. TypeOK' BY <1>1, <1>a, <1>b DEF TypeOK, request, work, cancels, beat, pool
<1>4. Direct' = Direct BY <1>1 DEF Direct, request
<1>5. HandedOver' /\ RunsAtMostOnce' /\ Taken'
  BY <1>1, <1>4 DEF HandedOver, RunsAtMostOnce, Taken, request, work, beat, pool
<1>6. StatusStays' /\ KnownDownIsAvoided'
  BY <1>1, <1>a, <1>4 DEF StatusStays, KnownDownIsAvoided, request, work
<1>7. Remembered'
  BY <1>1, <1>4 DEF Remembered, cancels, work, pool, beat
<1>8. QED BY <1>3, <1>5, <1>6, <1>7

\* A step of an endpoint is about one request; it hands over what was nowhere.
LEMMA EndpointInv ==
    ASSUME Inv, NEW r \in Requests, Arrive(r) \/ Endpoint(r) \/ RunLocal(r)
    PROVE  Inv'
<1> USE DEF Inv
<1>0. UNCHANGED <<kind, service_status, foundNone, runs, cancels, pool>>
  BY DEF Arrive, Endpoint, ReadStatus, AddTask, Trigger, RunLocal, service, request, work
<1>1. Direct' = Direct BY <1>0 DEF Direct
<1>2. CASE Arrive(r)
  <2>1. TypeOK' BY <1>2 DEF Arrive, TypeOK, service, work, cancels, beat, pool, PcStates
  <2>2. HandedOver' /\ RunsAtMostOnce' /\ Taken'
    BY <1>1, <1>2 DEF Arrive, HandedOver, RunsAtMostOnce, Taken, TypeOK, work, beat, pool, Direct
  <2>3. StatusStays' /\ KnownDownIsAvoided'
    BY <1>1, <1>2 DEF Arrive, StatusStays, KnownDownIsAvoided, HandedOver, TypeOK, service, work,
                      Direct
  <2>4. Remembered'
    BY <1>1, <1>2 DEF Arrive, Remembered, work, cancels, beat, pool
  <2>5. QED BY <2>1, <2>2, <2>3, <2>4
<1>3. CASE ReadStatus(r)
  <2>1. TypeOK' BY <1>3 DEF ReadStatus, TypeOK, service, work, cancels, beat, pool, PcStates
  <2>2. HandedOver' /\ RunsAtMostOnce' /\ Taken'
    BY <1>1, <1>3 DEF ReadStatus, HandedOver, RunsAtMostOnce, Taken, TypeOK, work, beat, pool, Direct
  <2>3. StatusStays' /\ KnownDownIsAvoided'
    BY <1>1, <1>3 DEF ReadStatus, StatusStays, KnownDownIsAvoided, TypeOK, service, work, Direct,
                      Kinds
  <2>4. Remembered'
    BY <1>1, <1>3 DEF ReadStatus, Remembered, work, cancels, beat, pool
  <2>5. QED BY <2>1, <2>2, <2>3, <2>4
<1>4. CASE AddTask(r)
  <2>1. TypeOK' BY <1>4 DEF AddTask, TypeOK, service, cancels, beat, pool, PcStates
  <2>2. HandedOver' /\ RunsAtMostOnce' /\ Taken'
    BY <1>1, <1>4 DEF AddTask, HandedOver, RunsAtMostOnce, Taken, TypeOK, beat, pool, Direct
  <2>3. StatusStays' /\ KnownDownIsAvoided'
    BY <1>1, <1>4 DEF AddTask, StatusStays, KnownDownIsAvoided, TypeOK, service
  <2>4. Remembered'
    BY <1>1, <1>4 DEF AddTask, Remembered, cancels, beat, pool
  <2>5. QED BY <2>1, <2>2, <2>3, <2>4
<1>5. CASE Trigger(r) /\ Publish(r)
  <2>1. TypeOK'
    BY <1>5 DEF Trigger, Publish, TypeOK, service, cancels, pool, PcStates, TaskStates
  <2>2. HandedOver' /\ RunsAtMostOnce'
    BY <1>1, <1>5 DEF Trigger, Publish, HandedOver, RunsAtMostOnce, TypeOK, Direct
  <2>3. Taken'
    BY <1>1, <1>5 DEF Trigger, Publish, HandedOver, Taken, TypeOK, pool, Direct
  <2>4. StatusStays' /\ KnownDownIsAvoided'
    BY <1>1, <1>5 DEF Trigger, Publish, StatusStays, KnownDownIsAvoided, TypeOK, service, Direct
  <2>5. Remembered'
    BY <1>1, <1>5 DEF Trigger, Publish, Remembered, HandedOver, TypeOK, cancels, pool
  <2>6. QED BY <2>1, <2>2, <2>3, <2>4, <2>5
<1>6. CASE Trigger(r) /\ Save(r)
  <2>1. PICK es :
          /\ entries' = es
          /\ es = entries \/ \E n \in Names :
               es = [x \in DOMAIN entries \cup {n} |-> IF x = n THEN r ELSE entries[x]]
    BY <1>6 DEF Save
  <2>2. /\ DOMAIN entries' \subseteq Names
        /\ \A n \in DOMAIN entries' :
              entries'[n] = r \/ (n \in DOMAIN entries /\ entries'[n] = entries[n])
    <3>1. CASE es = entries BY <2>1, <3>1 DEF TypeOK
    <3>2. ASSUME NEW n \in Names,
                 es = [x \in DOMAIN entries \cup {n} |-> IF x = n THEN r ELSE entries[x]]
          PROVE  <2>2!:
      <4>1. DOMAIN entries' = DOMAIN entries \cup {n} BY <2>1, <3>2
      <4>2. \A x \in DOMAIN entries' : entries'[x] = IF x = n THEN r ELSE entries[x]
        BY <2>1, <3>2
      <4>3. DOMAIN entries' \subseteq Names BY <4>1 DEF TypeOK
      <4>4. ASSUME NEW x \in DOMAIN entries'
            PROVE  entries'[x] = r \/ (x \in DOMAIN entries /\ entries'[x] = entries[x])
        <5>1. CASE x = n BY <4>2, <5>1
        <5>2. CASE x # n BY <4>1, <4>2, <5>2
        <5>3. QED BY <5>1, <5>2
      <4>5. QED BY <4>3, <4>4
    <3>3. QED BY <2>1, <3>1, <3>2
  <2>3. TypeOK'
    BY <1>6, <2>2 DEF Trigger, Save, TypeOK, service, cancels, pool, PcStates
  <2>4. HandedOver' /\ RunsAtMostOnce'
    BY <1>1, <1>6 DEF Trigger, Save, HandedOver, RunsAtMostOnce, TypeOK, Direct
  <2>5. Taken'
    BY <1>1, <1>6, <2>2 DEF Trigger, Save, Taken, pool, Direct
  <2>6. StatusStays' /\ KnownDownIsAvoided'
    BY <1>1, <1>6 DEF Trigger, Save, StatusStays, KnownDownIsAvoided, TypeOK, service, Direct
  <2>7. Remembered'
    BY <1>1, <1>6 DEF Trigger, Save, Remembered, cancels, pool
  <2>8. QED BY <2>3, <2>4, <2>5, <2>6, <2>7
<1>7. CASE RunLocal(r)
  <2>1. TypeOK' BY <1>7 DEF RunLocal, TypeOK, service, request, cancels, beat, pool
  <2>2. HandedOver' /\ RunsAtMostOnce' /\ Taken'
    BY <1>1, <1>7 DEF RunLocal, HandedOver, RunsAtMostOnce, Taken, TypeOK, request, beat, pool,
                      Direct
  <2>3. StatusStays' /\ KnownDownIsAvoided'
    BY <1>1, <1>7 DEF RunLocal, StatusStays, KnownDownIsAvoided, service, request
  <2>4. Remembered'
    BY <1>1, <1>7 DEF RunLocal, Remembered, cancels, beat, pool
  <2>5. QED BY <2>1, <2>2, <2>3, <2>4
<1>8. QED BY <1>2, <1>3, <1>4, <1>5, <1>6, <1>7 DEF Endpoint, Trigger

\* A revocation is of direct work, and is under way to some workers.
LEMMA CancelInv ==
    ASSUME Inv, NEW r \in Requests, CancelRead(r) \/ CancelRevoke(r)
    PROVE  Inv'
<1> USE DEF Inv
<1>0. UNCHANGED <<service, restarts, request, work, stopped, beat, up, deaths, revoked, running>>
  BY DEF CancelRead, CancelRevoke, pool
<1>1. Direct' = Direct BY <1>0 DEF Direct, request
<1>2. /\ cancel' \in [Requests -> {"none", "read"}]
      /\ \A q \in Requests : cancel'[q] = "read" => q \in Direct
  BY DEF CancelRead, CancelRevoke, TypeOK, Remembered, Direct
<1>3. /\ told' \in [Workers -> SUBSET Requests]
      /\ \A w \in Workers : told'[w] \subseteq Direct
  <2>1. CASE CancelRead(r) BY <2>1 DEF CancelRead, pool, TypeOK, Remembered
  <2>2. CASE CancelRevoke(r)
    <3>1. r \in Direct BY <2>2 DEF CancelRevoke, Remembered
    <3>2. PICK listening \in SUBSET up :
            told' = [w \in Workers |-> IF w \in listening THEN told[w] \cup {r} ELSE told[w]]
      BY <2>2 DEF CancelRevoke
    <3>3. QED BY <3>1, <3>2 DEF TypeOK, Remembered
  <2>3. QED BY <2>1, <2>2
<1>4. TypeOK' BY <1>0, <1>2, <1>3 DEF TypeOK, service, request, work, beat
<1>5. HandedOver' /\ RunsAtMostOnce' /\ Taken'
  BY <1>0, <1>1 DEF HandedOver, RunsAtMostOnce, Taken, request, work, beat
<1>6. StatusStays' /\ KnownDownIsAvoided'
  BY <1>0, <1>1 DEF StatusStays, KnownDownIsAvoided, service, request, work
<1>7. Remembered' BY <1>0, <1>1, <1>2, <1>3 DEF Remembered, work
<1>8. QED BY <1>4, <1>5, <1>6, <1>7

\* Deleting an entry, or queueing an occurrence of one, touches no direct task.
LEMMA BeatInv ==
    ASSUME Inv, NEW n \in Names, DeleteSchedule(n) \/ Fire(n)
    PROVE  Inv'
<1> USE DEF Inv
<1>0. UNCHANGED <<service, restarts, request, local, runs, cancels, pool>>
  BY DEF DeleteSchedule, Fire, work
<1>1. Direct' = Direct BY <1>0 DEF Direct, request
<1>2. CASE DeleteSchedule(n)
  <2>1. /\ DOMAIN entries' = DOMAIN entries \ {n}
        /\ \A x \in DOMAIN entries' : entries'[x] = entries[x]
    BY <1>2 DEF DeleteSchedule, Restrict
  <2>2. UNCHANGED work BY <1>2 DEF DeleteSchedule
  <2>3. TypeOK'
    <3>1. UNCHANGED fires BY <1>2 DEF DeleteSchedule
    <3>2. /\ DOMAIN entries' \subseteq Names
          /\ \A x \in DOMAIN entries' : entries'[x] \in Requests
      BY <2>1 DEF TypeOK
    <3>3. QED BY <1>0, <2>2, <3>1, <3>2 DEF TypeOK, service, request, work, cancels, pool
  <2>4. HandedOver' /\ RunsAtMostOnce' /\ Taken'
    BY <1>0, <1>1, <2>1, <2>2 DEF HandedOver, RunsAtMostOnce, Taken, request, work, pool
  <2>5. StatusStays' /\ KnownDownIsAvoided'
    BY <1>0, <1>1, <2>2 DEF StatusStays, KnownDownIsAvoided, service, request, work
  <2>6. Remembered'
    BY <1>0, <1>1, <2>1, <2>2 DEF Remembered, cancels, pool, work
  <2>7. QED BY <2>3, <2>4, <2>5, <2>6
<1>3. CASE Fire(n)
  <2>1. /\ n \in DOMAIN entries /\ entries[n] \in Requests \ Direct
        /\ task' = [task EXCEPT ![entries[n]] = "queued"]
        /\ UNCHANGED entries /\ fires' = fires + 1
    BY <1>3 DEF Fire, Found, Taken, TypeOK
  <2>2. /\ task' \in [Requests -> TaskStates]
        /\ \A r \in Direct : task'[r] = task[r]
    BY <2>1 DEF TypeOK, TaskStates
  <2>3. fires' \in Nat BY <2>1 DEF TypeOK
  <2>4. TypeOK'
    BY <1>0, <2>1, <2>2, <2>3 DEF TypeOK, service, request, cancels, pool
  <2>5. HandedOver' /\ Taken'
    BY <1>0, <1>1, <2>1, <2>2 DEF HandedOver, Taken, request, pool, TypeOK
  <2>6. RunsAtMostOnce' /\ KnownDownIsAvoided'
    BY <1>0, <2>2 DEF RunsAtMostOnce, KnownDownIsAvoided, request, Direct
  <2>7. StatusStays' BY <1>0, <1>1 DEF StatusStays, service, request
  <2>8. Remembered'
    BY <1>0, <1>1, <2>1, <2>2 DEF Remembered, cancels, pool
  <2>9. QED BY <2>4, <2>5, <2>6, <2>7, <2>8
<1>4. QED BY <1>2, <1>3

\* A worker that has processed a revocation knows it.
LEMMA HearInv == ASSUME Inv, NEW w \in Workers, NEW r \in Requests, Hear(w, r) PROVE Inv'
<1> USE DEF Inv
<1>0. UNCHANGED <<service, restarts, request, work, cancel, beat, up, deaths, running>>
  BY DEF Hear
<1>1. Direct' = Direct BY <1>0 DEF Direct, request
<1>2. /\ w \in up /\ r \in told[w] /\ r \in Direct
      /\ told' = [told EXCEPT ![w] = told[w] \ {r}]
      /\ revoked' = [revoked EXCEPT ![w] = revoked[w] \cup {r}]
      /\ stopped' = [stopped EXCEPT ![r] =
                       stopped[r] \/ (task[r] = "queued" /\ \A v \in up : r \in revoked'[v])]
  BY DEF Hear, Remembered
<1>3. /\ told' \in [Workers -> SUBSET Requests] /\ revoked' \in [Workers -> SUBSET Requests]
      /\ stopped' \in [Requests -> BOOLEAN]
  BY <1>2 DEF TypeOK
<1>4. TypeOK' BY <1>0, <1>3 DEF TypeOK, service, request, work, beat
<1>5. HandedOver' /\ RunsAtMostOnce' /\ Taken'
  BY <1>0, <1>1 DEF HandedOver, RunsAtMostOnce, Taken, request, work, beat
<1>6. StatusStays' /\ KnownDownIsAvoided'
  BY <1>0, <1>1 DEF StatusStays, KnownDownIsAvoided, service, request, work
<1>7. Remembered'
  <2>1. /\ \A v \in Workers : told'[v] \subseteq told[v] /\ revoked[v] \subseteq revoked'[v]
        /\ \A q \in Requests : q # r => stopped'[q] = stopped[q]
        /\ stopped'[r] => stopped[r] \/ (task[r] = "queued" /\ \A v \in up : r \in revoked'[v])
    BY <1>2 DEF TypeOK
  <2>2. up \subseteq Workers BY DEF TypeOK
  <2>3. ASSUME NEW q \in Requests, stopped'[q]
        PROVE  /\ q \in Direct /\ task[q] \in {"queued", "revoked"}
               /\ up # {} /\ \A v \in up : q \in revoked'[v]
    <3>1. CASE stopped[q] BY <2>1, <2>2, <3>1 DEF Remembered
    <3>2. CASE ~stopped[q] BY <1>2, <2>1, <2>3, <3>2
    <3>3. QED BY <3>1, <3>2
  <2>4. QED BY <1>0, <1>1, <2>1, <2>3 DEF Remembered, work
<1>8. QED BY <1>4, <1>5, <1>6, <1>7

\* A worker starts what is queued and not known to it as revoked.
LEMMA WorkerInv ==
    ASSUME Inv, NEW w \in Workers, NEW r \in Requests, Take(w, r) \/ Complete(w, r)
    PROVE  Inv'
<1> USE DEF Inv
<1>0. UNCHANGED <<service, restarts, request, local, cancels, beat, up, deaths, told, revoked>>
  BY DEF Take, Complete
<1>1. Direct' = Direct BY <1>0 DEF Direct, request
<1>2. CASE Take(w, r) /\ r \in revoked[w]
  <2>1. /\ task[r] = "queued" /\ task' = [task EXCEPT ![r] = "revoked"]
        /\ UNCHANGED <<runs, running>>
    BY <1>2 DEF Take
  <2>2. task' \in [Requests -> TaskStates] BY <2>1 DEF TypeOK, TaskStates
  <2>3. TypeOK' BY <1>0, <2>1, <2>2 DEF TypeOK, service, request, cancels, beat
  <2>4. HandedOver' /\ RunsAtMostOnce' /\ Taken'
    BY <1>0, <1>1, <2>1 DEF HandedOver, RunsAtMostOnce, Taken, TypeOK, request, beat, Direct
  <2>5. StatusStays' /\ KnownDownIsAvoided'
    BY <1>0, <1>1, <2>1 DEF StatusStays, KnownDownIsAvoided, TypeOK, service, request
  <2>6. Remembered'
    BY <1>0, <1>1, <2>1 DEF Remembered, TypeOK, cancels, beat
  <2>7. QED BY <2>3, <2>4, <2>5, <2>6
<1>3. CASE Take(w, r) /\ r \notin revoked[w]
  <2>1. /\ w \in up /\ task[r] = "queued" /\ task' = [task EXCEPT ![r] = "started"]
        /\ runs' = [runs EXCEPT ![r] = IF kind[r] = "schedule" THEN @ ELSE @ + 1]
        /\ running' = [running EXCEPT ![w] = @ \cup {r}]
    BY <1>3 DEF Take
  <2>2. /\ task' \in [Requests -> TaskStates] /\ runs' \in [Requests -> Nat]
        /\ running' \in [Workers -> SUBSET Requests]
    BY <2>1 DEF TypeOK, TaskStates
  <2>3. TypeOK' BY <1>0, <2>2 DEF TypeOK, service, request, cancels, beat
  <2>4. HandedOver'
    BY <1>0, <1>1, <2>1 DEF HandedOver, TypeOK, request, Direct
  <2>5. RunsAtMostOnce'
    BY <1>0, <2>1 DEF HandedOver, RunsAtMostOnce, TypeOK, request, Direct
  <2>6. Taken' BY <1>0, <1>1, <2>1 DEF Taken, TypeOK, beat
  <2>7. StatusStays' /\ KnownDownIsAvoided'
    BY <1>0, <1>1, <2>1 DEF StatusStays, KnownDownIsAvoided, TypeOK, service, request
  <2>8. ~stopped[r] BY <1>3, <2>1 DEF Remembered
  <2>9. Remembered'
    BY <1>0, <1>1, <2>1, <2>8 DEF Remembered, TypeOK, cancels, beat
  <2>10. QED BY <2>3, <2>4, <2>5, <2>6, <2>7, <2>9
<1>4. CASE Complete(w, r)
  <2>1. /\ r \in running[w] /\ task' = [task EXCEPT ![r] = "done"]
        /\ running' = [running EXCEPT ![w] = @ \ {r}] /\ UNCHANGED runs
    BY <1>4 DEF Complete
  <2>2. r \in Direct => task[r] \in {"started", "done", "lost"} BY <2>1 DEF Taken
  <2>3. /\ task' \in [Requests -> TaskStates]
        /\ running' \in [Workers -> SUBSET Requests]
    BY <2>1 DEF TypeOK, TaskStates
  <2>4. TypeOK' BY <1>0, <2>1, <2>3 DEF TypeOK, service, request, cancels, beat
  <2>5. HandedOver' /\ RunsAtMostOnce'
    BY <1>0, <1>1, <2>1, <2>2 DEF HandedOver, RunsAtMostOnce, TypeOK, request, Direct
  <2>6. Taken' BY <1>0, <1>1, <2>1 DEF Taken, TypeOK, beat
  <2>7. StatusStays' /\ KnownDownIsAvoided'
    BY <1>0, <1>1, <2>1, <2>2 DEF StatusStays, KnownDownIsAvoided, TypeOK, service, request,
                                   Direct
  <2>8. ~stopped[r] BY <2>2 DEF Remembered
  <2>9. Remembered'
    BY <1>0, <1>1, <2>1, <2>8 DEF Remembered, TypeOK, cancels, beat
  <2>10. QED BY <2>4, <2>5, <2>6, <2>7, <2>9
<1>5. QED BY <1>2, <1>3, <1>4

\* A worker that goes takes its memory along, one that comes asks the others.
LEMMA PoolInv == ASSUME Inv, NEW w \in Workers, Die(w) \/ ComeUp(w) PROVE Inv'
<1> USE DEF Inv
<1>0. UNCHANGED <<service, restarts, request, local, runs, cancel, beat>>
  BY DEF Die, ComeUp, work, cancels
<1>1. Direct' = Direct BY <1>0 DEF Direct, request
<1>2. CASE Die(w)
  <2>1. /\ w \in up /\ up' = up \ {w} /\ deaths' = deaths + 1
        /\ task' = [r \in Requests |-> IF r \in running[w] THEN "lost" ELSE task[r]]
        /\ running' = [running EXCEPT ![w] = {}] /\ revoked' = [revoked EXCEPT ![w] = {}]
        /\ told' = [told EXCEPT ![w] = {}]
        /\ stopped' = [r \in Requests |-> stopped[r] /\ up' # {}]
    BY <1>2 DEF Die
  <2>2. /\ task' \in [Requests -> TaskStates] /\ stopped' \in [Requests -> BOOLEAN]
        /\ running' \in [Workers -> SUBSET Requests]
        /\ told' \in [Workers -> SUBSET Requests]
        /\ revoked' \in [Workers -> SUBSET Requests]
        /\ up' \subseteq Workers /\ deaths' \in Nat
    BY <2>1 DEF TypeOK, TaskStates
  <2>3. TypeOK' BY <1>0, <2>2 DEF TypeOK, service, request, beat
  <2>4. \A r \in Direct : task'[r] = task[r] \/ (task'[r] = "lost" /\ r \in running[w])
    BY <2>1 DEF Direct
  <2>5. HandedOver'
    BY <1>0, <1>1, <2>4 DEF HandedOver, Taken, request
  <2>6. RunsAtMostOnce' /\ KnownDownIsAvoided'
    BY <1>0, <2>4 DEF RunsAtMostOnce, KnownDownIsAvoided, Taken, request, Direct
  <2>7. Taken' BY <1>0, <1>1, <2>1, <2>4 DEF Taken, TypeOK, beat
  <2>8. StatusStays' BY <1>0, <1>1 DEF StatusStays, service, request
  <2>9. Remembered'
    <3>1. \A v \in up' : v # w /\ v \in up /\ revoked'[v] = revoked[v]
      BY <2>1 DEF TypeOK
    <3>2. \A r \in Requests : stopped'[r] => stopped[r] /\ up' # {} BY <2>1
    <3>3. \A r \in Requests : stopped[r] => task'[r] = task[r]
      BY <2>4 DEF Remembered, Taken
    <3>4. \A v \in Workers : told'[v] \subseteq told[v] BY <2>1 DEF TypeOK
    <3>5. QED BY <1>0, <1>1, <3>1, <3>2, <3>3, <3>4 DEF Remembered
  <2>10. QED BY <2>3, <2>5, <2>6, <2>7, <2>8, <2>9
<1>3. CASE ComeUp(w)
  <2>1. /\ up' = up \cup {w} /\ UNCHANGED <<task, told, running, deaths>>
    BY <1>3 DEF ComeUp, work
  <2>2. PICK replied \in SUBSET up :
          /\ revoked' = [revoked EXCEPT ![w] = UNION {revoked[v] : v \in replied}]
          /\ stopped' = [r \in Requests |-> stopped[r] /\ replied # {}]
    BY <1>3 DEF ComeUp
  <2>3. UNION {revoked[v] : v \in replied} \subseteq Requests BY DEF TypeOK
  <2>4. /\ revoked' \in [Workers -> SUBSET Requests] /\ up' \subseteq Workers
        /\ stopped' \in [Requests -> BOOLEAN]
    BY <2>1, <2>2, <2>3 DEF TypeOK
  <2>5. TypeOK' BY <1>0, <2>1, <2>4 DEF TypeOK, service, request, beat
  <2>6. HandedOver' /\ RunsAtMostOnce' /\ Taken'
    BY <1>0, <1>1, <2>1 DEF HandedOver, RunsAtMostOnce, Taken, request, beat
  <2>7. StatusStays' /\ KnownDownIsAvoided'
    BY <1>0, <1>1, <2>1 DEF StatusStays, KnownDownIsAvoided, service, request
  <2>8. ASSUME NEW r \in Requests, stopped'[r], NEW v \in up' PROVE r \in revoked'[v]
    <3>1. /\ \A u \in up : r \in revoked[u]
          /\ replied # {}
      BY <2>2, <2>8 DEF Remembered
    <3>2. r \in UNION {revoked[u] : u \in replied} BY <3>1
    <3>3. CASE v = w BY <2>2, <3>2, <3>3 DEF TypeOK
    <3>4. CASE v # w BY <2>1, <2>2, <3>1, <3>4 DEF TypeOK
    <3>5. QED BY <3>3, <3>4
  <2>9. Remembered'
    BY <1>0, <1>1, <2>1, <2>2, <2>8 DEF Remembered
  <2>10. QED BY <2>5, <2>6, <2>7, <2>9
<1>4. QED BY <1>2, <1>3

\* A restart forgets the status, and with it every request under way.
LEMMA RestartInv == ASSUME Inv, Restart PROVE Inv'
<1> USE DEF Inv
<1>0. /\ UNCHANGED <<kind, knownDown, task, runs, stopped, beat, pool>>
      /\ pc' = [r \in Requests |->
                  IF pc[r] \in {"handling", "background", "celery"} THEN "cut" ELSE pc[r]]
      /\ local' = [r \in Requests |-> IF local[r] = "queued" THEN "lost" ELSE local[r]]
      /\ cancel' = [r \in Requests |-> "none"]
      /\ ~foundNone'
  BY DEF Restart
<1>1. Direct' = Direct BY <1>0 DEF Direct
<1>2. TypeOK'
  <2>1. /\ service_status' = "AVAILABLE" /\ available_workers_count' = -1
        /\ timeout_count' = 0 /\ pinging' = FALSE /\ checks' = 0 /\ foundNone' = FALSE
        /\ restarts' = restarts + 1
    BY DEF Restart
  <2>2. -1 \in -1 .. Cardinality(Workers) BY ConstantsAssumption, FS_CardinalityType
  <2>3. /\ pc' \in [Requests -> PcStates] /\ cancel' \in [Requests -> {"none", "read"}]
        /\ local' \in [Requests -> {"none", "queued", "done", "lost"}]
    BY <1>0 DEF TypeOK, PcStates
  <2>4. {pinging', foundNone'} \subseteq BOOLEAN BY <2>1
  <2>5. restarts' \in Nat BY <2>1 DEF TypeOK
  <2>6. QED BY <1>0, <2>1, <2>2, <2>3, <2>4, <2>5 DEF TypeOK, beat, pool
<1>3. \A r \in Requests : pc'[r] = pc[r] \/ pc'[r] = "cut" BY <1>0
<1>4. \A r \in Requests : local[r] = "none" => local'[r] = "none" BY <1>0
<1>5. HandedOver' /\ RunsAtMostOnce' /\ Taken'
  BY <1>0, <1>1, <1>3, <1>4 DEF HandedOver, RunsAtMostOnce, Taken, Direct, beat, pool
<1>6. \A r \in Requests : pc'[r] \notin {"handling", "celery"} BY <1>0
<1>7. StatusStays' /\ KnownDownIsAvoided'
  BY <1>0, <1>1, <1>6 DEF StatusStays, KnownDownIsAvoided, Direct
<1>8. Remembered'
  BY <1>0, <1>1 DEF Remembered, beat, pool
<1>9. QED BY <1>2, <1>5, <1>7, <1>8

\* Every step keeps the invariant.
LEMMA StepInv == Inv /\ [Next]_vars => Inv'
<1> SUFFICES ASSUME Inv, [Next]_vars PROVE Inv' OBVIOUS
<1>1. CASE UNCHANGED vars
  BY <1>1 DEF vars, service, request, work, cancels, beat, pool, Inv, TypeOK, HandedOver,
       RunsAtMostOnce, Taken, StatusStays, KnownDownIsAvoided, Remembered, Direct
<1>2. CASE BeginCheck \/ EndCheck BY <1>2, CheckInv
<1>3. CASE Restart BY <1>3, RestartInv
<1>4. ASSUME NEW r \in Requests, Arrive(r) \/ Endpoint(r) \/ RunLocal(r) PROVE Inv'
  BY <1>4, EndpointInv
<1>5. ASSUME NEW r \in Requests, CancelRead(r) \/ CancelRevoke(r) PROVE Inv'
  BY <1>5, CancelInv
<1>6. ASSUME NEW n \in Names, DeleteSchedule(n) \/ Fire(n) PROVE Inv'
  BY <1>6, BeatInv
<1>7. ASSUME NEW w \in Workers, Worker(w) PROVE Inv' BY <1>7, HearInv, WorkerInv DEF Worker
<1>8. ASSUME NEW w \in Workers, Die(w) \/ ComeUp(w) PROVE Inv' BY <1>8, PoolInv
<1>9. QED BY <1>1, <1>2, <1>3, <1>4, <1>5, <1>6, <1>7, <1>8 DEF Next

\* The inductive invariant of CeleryWork.
THEOREM Invariance == Spec => []Inv
BY InitInv, StepInv, PTL DEF Spec

\* The variables of CeleryWork keep their types.
THEOREM TypeCorrect == Spec => []TypeOK
<1>1. Inv => TypeOK BY DEF Inv
<1>2. QED BY Invariance, <1>1, PTL

\* The work of a request is given to one machine and started once, whatever
\* the status, the workers and the application do meanwhile.
THEOREM OneMachineOnce == Spec => []RunsAtMostOnce
<1>1. Inv => RunsAtMostOnce BY DEF Inv
<1>2. QED BY Invariance, <1>1, PTL

\* After a ping without a reply no direct task goes to Celery, until a restart.
THEOREM OutagesAreRespected == Spec => []KnownDownIsAvoided
<1>1. Inv => KnownDownIsAvoided BY DEF Inv
<1>2. QED BY Invariance, <1>1, PTL

\* A revocation all running workers have processed before the task started
\* holds as long as one worker is up and those that come up get a reply.
THEOREM CancellationsHold == Spec => []CancelHolds
<1>1. Inv => CancelHolds BY DEF Inv, Remembered, HandedOver, CancelHolds
<1>2. QED BY Invariance, <1>1, PTL

-----------------------------------------------------------------------------
(* The two abstract specifications                                         *)

\* Only direct work waits for the BackgroundTaskService, and before it is
\* handed over its request has none there.
Waiting == \A r \in Requests : pc[r] = "background" => r \in Direct

\* A direct task is run by one worker, and is started while it is.
Sole ==
    \A w \in Workers : \A r \in running[w] : r \in Direct =>
       task[r] = "started" /\ \A v \in Workers : r \in running[v] => v = w

\* The type of a request's work is fixed when it arrives.
LEMMA KindStays ==
    ASSUME [Next]_vars PROVE kind' = kind /\ Direct' = Direct
<1>1. kind' = kind
  BY DEF Next, vars, request, BeginCheck, EndCheck, Restart, Arrive, Endpoint, ReadStatus,
         AddTask, Trigger, RunLocal, CancelRead, CancelRevoke, DeleteSchedule, Fire, Worker,
         Hear, Take, Complete, Die, ComeUp
<1>2. QED BY <1>1 DEF Direct

\* ReadStatus is the only way to the background tasks.
LEMMA WaitingStep == Inv /\ Waiting /\ [Next]_vars => Waiting'
<1> SUFFICES ASSUME Inv, Waiting, [Next]_vars, NEW r \in Requests, pc'[r] = "background"
             PROVE  r \in Direct
  BY KindStays DEF Waiting
<1>1. CASE UNCHANGED pc BY <1>1 DEF Waiting
<1>2. CASE Restart
  <2>1. pc'[r] = IF pc[r] \in {"handling", "background", "celery"} THEN "cut" ELSE pc[r]
    BY <1>2 DEF Restart
  <2>2. QED BY <2>1
<1>3. ASSUME NEW q \in Requests, Arrive(q) \/ AddTask(q) \/ Trigger(q) PROVE r \in Direct
  <2>1. pc'[r] = pc[r]
    BY <1>3 DEF Inv, TypeOK, Arrive, AddTask, Trigger, Publish, Save
  <2>2. QED BY <2>1 DEF Waiting
<1>4. ASSUME NEW q \in Requests, ReadStatus(q) PROVE r \in Direct
  <2>1. CASE q = r BY <1>4, <2>1 DEF Inv, TypeOK, ReadStatus, Direct
  <2>2. CASE q # r
    <3>1. pc'[r] = pc[r] BY <1>4, <2>2 DEF Inv, TypeOK, ReadStatus
    <3>2. QED BY <3>1 DEF Waiting
  <2>3. QED BY <2>1, <2>2
<1>5. QED
  BY <1>1, <1>2, <1>3, <1>4
  DEF Next, vars, request, BeginCheck, EndCheck, Endpoint, RunLocal, CancelRead,
      CancelRevoke, DeleteSchedule, Fire, Worker, Hear, Take, Complete, Die, ComeUp

\* What is running has left the queue, so nobody takes it again.
LEMMA SoleStep == Inv /\ Sole /\ [Next]_vars => Sole'
<1> SUFFICES ASSUME Inv, Sole, [Next]_vars PROVE Sole' OBVIOUS
<1>0. Direct' = Direct BY KindStays
<1>1. CASE UNCHANGED <<task, running>> BY <1>0, <1>1 DEF Sole
<1>2. ASSUME NEW q \in Requests, Publish(q), Trigger(q) PROVE Sole'
  <2>1. running' = running BY <1>2 DEF Trigger, pool
  <2>2. task[q] = "none" /\ q \in Direct BY <1>2 DEF Trigger, Publish, Direct, Inv, HandedOver
  <2>3. \A r \in Requests \ {q} : task'[r] = task[r] BY <1>2 DEF Publish, Inv, TypeOK
  <2>4. \A w \in Workers : q \notin running[w] BY <2>2 DEF Sole
  <2>5. \A w \in Workers : running[w] \subseteq Requests BY DEF Inv, TypeOK
  <2>6. QED BY <1>0, <2>1, <2>3, <2>4, <2>5 DEF Sole
<1>3. ASSUME NEW n \in Names, Fire(n) PROVE Sole'
  <2>1. running' = running /\ entries[n] \notin Direct
    BY <1>3 DEF Fire, Found, pool, Inv, Taken
  <2>2. \A r \in Direct : task'[r] = task[r] BY <1>3, <2>1 DEF Fire, Direct, Inv, TypeOK
  <2>3. QED BY <1>0, <2>1, <2>2 DEF Sole
<1>4. ASSUME NEW w \in Workers, NEW q \in Requests, Take(w, q) PROVE Sole'
  <2>1. task[q] = "queued" /\ \A r \in Requests \ {q} : task'[r] = task[r]
    BY <1>4 DEF Take, Inv, TypeOK
  <2>2. q \in Direct => \A v \in Workers : q \notin running[v] BY <2>1 DEF Sole
  <2>3. \A v \in Workers : running[v] \subseteq Requests BY DEF Inv, TypeOK
  <2>4. CASE running' = running BY <1>0, <2>1, <2>2, <2>3, <2>4 DEF Sole
  <2>5. CASE running' = [running EXCEPT ![w] = @ \cup {q}] /\ task' = [task EXCEPT ![q] = "started"]
    <3>1. /\ task'[q] = "started" /\ running'[w] = running[w] \cup {q}
          /\ \A v \in Workers \ {w} : running'[v] = running[v]
      BY <2>5 DEF Inv, TypeOK
    <3>2. QED BY <1>0, <2>1, <2>2, <2>3, <3>1 DEF Sole
  <2>6. QED BY <1>4, <2>4, <2>5 DEF Take
<1>5. ASSUME NEW w \in Workers, NEW q \in Requests, Complete(w, q) PROVE Sole'
  <2>1. /\ q \in running[w] /\ \A r \in Requests \ {q} : task'[r] = task[r]
        /\ running'[w] = running[w] \ {q}
        /\ \A v \in Workers \ {w} : running'[v] = running[v]
        /\ \A v \in Workers : running[v] \subseteq Requests
    BY <1>5 DEF Complete, Inv, TypeOK
  <2>2. q \in Direct => \A v \in Workers : q \notin running'[v] BY <2>1 DEF Sole
  <2>3. \A v \in Workers : running'[v] \subseteq running[v] BY <2>1
  <2>4. QED BY <1>0, <2>1, <2>2, <2>3 DEF Sole
<1>6. ASSUME NEW w \in Workers, Die(w) PROVE Sole'
  <2>1. /\ \A r \in Requests : r \notin running[w] => task'[r] = task[r]
        /\ running'[w] = {} /\ \A v \in Workers \ {w} : running'[v] = running[v]
        /\ \A v \in Workers : running[v] \subseteq Requests
    BY <1>6 DEF Die, Inv, TypeOK
  <2>2. ASSUME NEW v \in Workers, NEW r \in running'[v], r \in Direct
        PROVE  task'[r] = "started" /\ \A u \in Workers : r \in running'[u] => u = v
    <3>1. v # w /\ r \in running[v] BY <2>1, <2>2
    <3>2. r \notin running[w] /\ r \in Requests BY <2>1, <2>2, <3>1 DEF Sole
    <3>3. \A u \in Workers : r \in running'[u] => r \in running[u] BY <2>1
    <3>4. QED BY <2>1, <2>2, <3>1, <3>2, <3>3 DEF Sole
  <2>3. QED BY <1>0, <2>2 DEF Sole
<1>7. QED
  BY <1>1, <1>2, <1>3, <1>4, <1>5, <1>6
  DEF Next, vars, work, pool, BeginCheck, EndCheck, Restart, Arrive, Endpoint, ReadStatus,
      AddTask, Trigger, Save, RunLocal, CancelRead, CancelRevoke, DeleteSchedule, Worker,
      ComeUp, Hear

\* Both hold in every reachable state.
LEMMA AlwaysSole == Spec => [](Inv /\ Waiting /\ Sole)
<1>1. Init => Waiting BY DEF Init, Waiting
<1>2. Init => Sole BY DEF Init, Sole
<1>3. QED BY <1>1, <1>2, Invariance, WaitingStep, SoleStep, PTL DEF Spec


\* Seen as the ledger of the BackgroundTaskService: a request is accepted
\* once, what waits is run, and only the end of the process loses it.
LEMMA StepIsLedgerStep ==
    ASSUME Inv, Waiting, [Next]_vars PROVE [LocalLedger!LedgerNext]_local
<1>0. local \in [Requests -> {"none", "queued", "done", "lost"}] BY DEF Inv, TypeOK
<1>1. ASSUME NEW r \in Requests, AddTask(r) PROVE LocalLedger!LedgerNext
  <2>1. local[r] = "none" BY <1>1 DEF AddTask, Waiting, Inv, HandedOver
  <2>2. local' = [local EXCEPT ![r] = "queued"] BY <1>1 DEF AddTask
  <2>3. QED BY <2>1, <2>2 DEF LocalLedger!LedgerNext, LocalLedger!Accept
<1>2. ASSUME NEW r \in Requests, RunLocal(r) PROVE LocalLedger!LedgerNext
  BY <1>2 DEF RunLocal, LocalLedger!LedgerNext, LocalLedger!Settle
<1>3. ASSUME Restart PROVE LocalLedger!LedgerNext
  BY <1>3 DEF Restart, LocalLedger!LedgerNext, LocalLedger!LoseAll
<1>4. QED
  BY <1>1, <1>2, <1>3
  DEF Next, vars, work, BeginCheck, EndCheck, Arrive, Endpoint, ReadStatus, Trigger, CancelRead,
      CancelRevoke, DeleteSchedule, Fire, Worker, Hear, Take, Complete, Die, ComeUp

\* The BackgroundTaskService as CeleryService uses it keeps the ledger that
\* the detailed model of it keeps; that it settles what it accepted is left to
\* the run.
THEOREM LocalRefinement == Spec => LocalLedger!LedgerSafe
<1>1. Init => LocalLedger!LedgerInit BY DEF Init, LocalLedger!LedgerInit
<1>2. Inv /\ Waiting /\ [Next]_vars => [LocalLedger!LedgerNext]_local BY StepIsLedgerStep
<1>3. QED BY <1>1, <1>2, AlwaysSole, PTL DEF Spec, LocalLedger!LedgerSafe

\* The stage of a request's work depends on three variables.
At(r) == Stage(kind[r], local[r], task[r])

\* One piece of work moves on and the others stay where they are.
LEMMA OneMoves ==
    ASSUME NEW r \in Requests, NEW x, NEW y, At(r) = x, At(r)' = y,
           \A q \in Requests \ {r} : At(q)' = At(q)
    PROVE  Path!Moves(r, x, y)
BY DEF At, Path!Moves

\* What is no direct work is nowhere, and the rest of it stays where the
\* variables stay.
LEMMA Elsewhere ==
    ASSUME NEW q \in Requests, kind' = kind,
           q \notin Direct \/ (local'[q] = local[q] /\ task'[q] = task[q])
    PROVE  At(q)' = At(q)
BY DEF At, Stage, Direct

\* Nothing moves.
LEMMA NothingMoves ==
    ASSUME kind' = kind,
           \A q \in Direct : local'[q] = local[q] /\ task'[q] = task[q]
    PROVE  UNCHANGED [r \in Requests |-> Stage(kind[r], local[r], task[r])]
<1>1. \A q \in Requests : At(q)' = At(q) BY Elsewhere
<1>2. QED BY <1>1 DEF At

\* Every step of the endpoints, the process and Celery is one of the abstract
\* specification, or moves no direct work.
LEMMA StepIsWorkStep ==
    ASSUME Inv, Sole, Waiting, [Next]_vars
    PROVE  [Path!WorkNext]_[r \in Requests |-> Stage(kind[r], local[r], task[r])]
<1>0. /\ local \in [Requests -> {"none", "queued", "done", "lost"}]
      /\ task \in [Requests -> TaskStates] /\ kind' = kind
      /\ Direct \subseteq Requests /\ \A r \in Direct : kind[r] # "schedule"
  BY KindStays DEF Inv, TypeOK, Direct
<1>1. ASSUME NEW q \in Requests, AddTask(q) PROVE Path!WorkNext
  <2>1. /\ q \in Direct /\ local[q] = "none" /\ task[q] = "none"
    BY <1>1 DEF AddTask, Waiting, Inv, HandedOver
  <2>2. /\ local'[q] = "queued" /\ task' = task
        /\ \A r \in Requests \ {q} : local'[r] = local[r]
    BY <1>0, <1>1 DEF AddTask
  <2>3. At(q) = "none" /\ At(q)' = "waiting" BY <1>0, <2>1, <2>2 DEF At, Stage
  <2>4. \A r \in Requests \ {q} : At(r)' = At(r) BY <1>0, <2>2, Elsewhere
  <2>5. Path!GiveToProcess(q) BY <2>3, <2>4, OneMoves DEF Path!GiveToProcess
  <2>6. QED BY <2>5 DEF Path!WorkNext
<1>2. ASSUME NEW q \in Requests, Trigger(q), Publish(q), task' # task PROVE Path!WorkNext
  <2>1. /\ q \in Direct /\ local[q] = "none" /\ task[q] = "none"
    BY <1>2 DEF Trigger, Publish, Inv, HandedOver, Direct
  <2>2. /\ local' = local /\ task'[q] = "queued"
        /\ \A r \in Requests \ {q} : task'[r] = task[r]
    BY <1>0, <1>2 DEF Trigger, Publish
  <2>3. At(q) = "none" /\ At(q)' = "queued" BY <1>0, <2>1, <2>2 DEF At, Stage
  <2>4. \A r \in Requests \ {q} : At(r)' = At(r) BY <1>0, <2>2, Elsewhere
  <2>5. Path!GiveToCelery(q) BY <2>3, <2>4, OneMoves DEF Path!GiveToCelery
  <2>6. QED BY <2>5 DEF Path!WorkNext
<1>3. ASSUME NEW q \in Requests, RunLocal(q), q \in Direct PROVE Path!WorkNext
  <2>1. local[q] = "queued" /\ task[q] = "none"
    BY <1>3 DEF RunLocal, Inv, RunsAtMostOnce, Direct
  <2>2. /\ local'[q] = "done" /\ task' = task
        /\ \A r \in Requests \ {q} : local'[r] = local[r]
    BY <1>0, <1>3 DEF RunLocal
  <2>3. At(q) = "waiting" /\ At(q)' = "done" BY <1>0, <1>3, <2>1, <2>2 DEF At, Stage
  <2>4. \A r \in Requests \ {q} : At(r)' = At(r) BY <1>0, <2>2, Elsewhere
  <2>5. Path!RunHere(q) BY <2>3, <2>4, OneMoves DEF Path!RunHere
  <2>6. QED BY <2>5 DEF Path!WorkNext
<1>4. ASSUME NEW w \in Workers, NEW q \in Requests, Take(w, q), q \in Direct
      PROVE  Path!WorkNext
  <2>1. task[q] = "queued" /\ local[q] = "none"
    BY <1>4 DEF Take, Inv, RunsAtMostOnce, Direct
  <2>2. /\ local' = local /\ task'[q] \in {"started", "revoked"}
        /\ \A r \in Requests \ {q} : task'[r] = task[r]
    BY <1>0, <1>4 DEF Take
  <2>3. At(q) = "queued" /\ At(q)' = task'[q] BY <1>0, <1>4, <2>1, <2>2 DEF At, Stage
  <2>4. \A r \in Requests \ {q} : At(r)' = At(r) BY <1>0, <2>2, Elsewhere
  <2>5. CASE task'[q] = "started"
    <3>1. Path!StartThere(q) BY <2>3, <2>4, <2>5, OneMoves DEF Path!StartThere
    <3>2. QED BY <3>1 DEF Path!WorkNext
  <2>6. CASE task'[q] = "revoked"
    <3>1. Path!Withdraw(q) BY <2>3, <2>4, <2>6, OneMoves DEF Path!Withdraw
    <3>2. QED BY <3>1 DEF Path!WorkNext
  <2>7. QED BY <2>2, <2>5, <2>6
<1>5. ASSUME NEW w \in Workers, NEW q \in Requests, Complete(w, q), q \in Direct
      PROVE  Path!WorkNext
  <2>1. task[q] = "started" BY <1>5 DEF Complete, Sole
  <2>2. local[q] = "none" BY <1>5, <2>1 DEF Inv, RunsAtMostOnce, Direct
  <2>3. /\ local' = local /\ task'[q] = "done"
        /\ \A r \in Requests \ {q} : task'[r] = task[r]
    BY <1>0, <1>5 DEF Complete
  <2>4. At(q) = "started" /\ At(q)' = "done" BY <1>0, <1>5, <2>1, <2>2, <2>3 DEF At, Stage
  <2>5. \A r \in Requests \ {q} : At(r)' = At(r) BY <1>0, <2>3, Elsewhere
  <2>6. Path!FinishThere(q) BY <2>4, <2>5, OneMoves DEF Path!FinishThere
  <2>7. QED BY <2>6 DEF Path!WorkNext
<1>6. ASSUME NEW w \in Workers, Die(w) PROVE Path!WorkNext
  <2> DEFINE S == running[w] \cap Direct
  <2>1. /\ \A r \in Requests : task'[r] = IF r \in running[w] THEN "lost" ELSE task[r]
        /\ local' = local
    BY <1>6 DEF Die
  <2>2. \A r \in S : r \in Direct /\ task[r] = "started" BY DEF Sole
  <2>3. \A r \in S : local[r] = "none" BY <2>2 DEF Inv, RunsAtMostOnce, Direct
  <2>4. \A r \in S : At(r) = "started" BY <1>0, <2>2, <2>3 DEF At, Stage
  <2>5. \A r \in Requests : At(r)' = IF r \in S THEN "lost" ELSE At(r)
    <3> SUFFICES ASSUME NEW r \in Requests PROVE At(r)' = IF r \in S THEN "lost" ELSE At(r)
      OBVIOUS
    <3>1. CASE r \in S BY <1>0, <2>1, <2>2, <2>3, <3>1 DEF At, Stage
    <3>2. CASE r \notin S
      <4>1. r \notin Direct \/ (local'[r] = local[r] /\ task'[r] = task[r]) BY <2>1, <3>2
      <4>2. QED BY <1>0, <3>2, <4>1, Elsewhere
    <3>3. QED BY <3>1, <3>2
  <2>6. S \in SUBSET Requests BY <1>0
  <2> HIDE DEF S
  <2>7. Path!LoseStarted(S) BY <2>4, <2>5, <2>6 DEF Path!LoseStarted, At
  <2>8. QED BY <2>6, <2>7 DEF Path!WorkNext
<1>7. ASSUME Restart PROVE Path!WorkNext
  <2>1. /\ \A r \in Requests : local'[r] = IF local[r] = "queued" THEN "lost" ELSE local[r]
        /\ task' = task
    BY <1>7 DEF Restart
  <2>2. \A r \in Requests : At(r)' = IF At(r) = "waiting" THEN "lost" ELSE At(r)
    <3> SUFFICES ASSUME NEW r \in Requests
                 PROVE  At(r)' = IF At(r) = "waiting" THEN "lost" ELSE At(r)
      OBVIOUS
    <3>1. CASE r \in Direct /\ local[r] = "queued"
      <4>1. task[r] = "none" BY <3>1 DEF Inv, RunsAtMostOnce, Direct
      <4>2. At(r) = "waiting" /\ At(r)' = "lost" BY <1>0, <2>1, <3>1, <4>1 DEF At, Stage
      <4>3. QED BY <4>2
    <3>2. CASE ~(r \in Direct /\ local[r] = "queued")
      <4>1. At(r)' = At(r) BY <1>0, <2>1, <3>2, Elsewhere
      <4>2. At(r) # "waiting" BY <1>0, <3>2 DEF At, Stage, Direct, TaskStates
      <4>3. QED BY <4>1, <4>2
    <3>3. QED BY <3>1, <3>2
  <2>3. Path!LoseWaiting BY <2>2 DEF Path!LoseWaiting, At
  <2>4. QED BY <2>3 DEF Path!WorkNext
<1>8. CASE UNCHANGED <<local, task>> BY <1>0, <1>8, NothingMoves
<1>9. ASSUME NEW q \in Requests \ Direct, NEW w \in Workers,
             Take(w, q) \/ Complete(w, q)
      PROVE  UNCHANGED [r \in Requests |-> Stage(kind[r], local[r], task[r])]
  <2>1. \A r \in Direct : local'[r] = local[r] /\ task'[r] = task[r]
    BY <1>0, <1>9 DEF Take, Complete
  <2>2. QED BY <1>0, <2>1, NothingMoves
<1>10. ASSUME NEW n \in Names, Fire(n)
       PROVE  UNCHANGED [r \in Requests |-> Stage(kind[r], local[r], task[r])]
  <2>1. entries[n] \notin Direct BY <1>10 DEF Fire, Found, Inv, Taken
  <2>2. \A r \in Direct : local'[r] = local[r] /\ task'[r] = task[r]
    BY <1>0, <1>10, <2>1 DEF Fire
  <2>3. QED BY <1>0, <2>2, NothingMoves
<1>11. ASSUME NEW q \in Requests \ Direct, RunLocal(q)
       PROVE  UNCHANGED [r \in Requests |-> Stage(kind[r], local[r], task[r])]
  <2>1. \A r \in Direct : local'[r] = local[r] /\ task'[r] = task[r]
    BY <1>0, <1>11 DEF RunLocal
  <2>2. QED BY <1>0, <2>1, NothingMoves
<1>12. ASSUME NEW q \in Requests, Trigger(q), Save(q) PROVE UNCHANGED <<local, task>>
  BY <1>12 DEF Trigger, Save
<1>13. ASSUME NEW q \in Requests, Trigger(q), Publish(q), task' = task
       PROVE  UNCHANGED <<local, task>>
  BY <1>13 DEF Trigger
<1>14. CASE \/ BeginCheck \/ EndCheck
            \/ \E q \in Requests :
                 Arrive(q) \/ ReadStatus(q) \/ CancelRead(q) \/ CancelRevoke(q)
            \/ \E n \in Names : DeleteSchedule(n)
            \/ \E w \in Workers : ComeUp(w) \/ \E q \in Requests : Hear(w, q)
            \/ UNCHANGED vars
  <2>1. UNCHANGED <<local, task>>
    BY <1>14 DEF BeginCheck, EndCheck, Arrive, ReadStatus, CancelRead, CancelRevoke,
         DeleteSchedule, ComeUp, Hear, vars, work
  <2>2. QED BY <1>8, <2>1
<1>15. QED
  BY <1>1, <1>2, <1>3, <1>4, <1>5, <1>6, <1>7, <1>8, <1>9, <1>10, <1>11, <1>12, <1>13, <1>14
  DEF Next, Endpoint, Trigger, Worker

\* Direct work keeps its promise: whatever the status did between reading it
\* and acting upon it, and however often the process and the workers die.
THEOREM Refinement == Spec => ImplementsDirectWork
<1>1. Init => Path!WorkInit BY DEF Init, Path!WorkInit, Stage
<1>2. Inv /\ Waiting /\ Sole /\ [Next]_vars =>
        [Path!WorkNext]_[r \in Requests |-> Stage(kind[r], local[r], task[r])]
  BY StepIsWorkStep
<1>3. QED BY <1>1, <1>2, AlwaysSole, PTL DEF Spec, ImplementsDirectWork, Path!WorkSpec

=============================================================================
