--------------------------- MODULE WebSocketsProofs ---------------------------
(***************************************************************************)
(* Theorems about the WebSocket endpoints, for any number of connections,  *)
(* paths, tokens and restarts, and however the run ids coincide.           *)
(***************************************************************************)
EXTENDS WebSockets, TLAPS

\* The objects of a run have an id no object of an earlier run can have had.
Clock == \A p \in Paths : run_id[p] \in {now, now + 1}

\* What the history says of a token: it names the operation of its path, and
\* the run of the object, which is the present one in its own life only.
OriginOf ==
    \A t \in tokens : \E p \in Issuing, k \in 0 .. restarts :
       /\ <<t, p, k>> \in origin
       /\ t.operation_id = Operation[p]
       /\ t.run_id <= now + 1
       /\ k < restarts => t.run_id < now

\* The inductive invariant.
Inv == TypeOK /\ Clock /\ OriginOf /\ OnlyIssuedAdmits /\ ListedHaveWaited

\* What the invariant knows of the operations.
LEMMA OperationsDiffer ==
    ASSUME NEW p \in Paths, NEW q \in Paths, Operation[p] = Operation[q]
    PROVE  p = q
BY ConstantsAssumption

\* A token that an endpoint takes was issued for its path, in this life.
LEMMA TakenWasIssued ==
    ASSUME TypeOK, Clock, OriginOf, NEW p \in Paths, NEW t \in tokens, Takes(p, t)
    PROVE  <<t, p, restarts>> \in origin
<1>1. PICK q \in Issuing, k \in 0 .. restarts :
         /\ <<t, q, k>> \in origin
         /\ t.operation_id = Operation[q]
         /\ k < restarts => t.run_id < now
  BY DEF OriginOf
<1>2. q = p BY <1>1, OperationsDiffer, ConstantsAssumption DEF Takes
<1>3. /\ now \in Nat /\ restarts \in Nat
      /\ run_id[p] \in {now, now + 1} /\ t.run_id = run_id[p]
  BY DEF TypeOK, Clock, Takes
<1>4. k = restarts BY <1>1, <1>3
<1>5. QED BY <1>1, <1>2, <1>4

\* Initially nobody has a token.
LEMMA InitInv == Init => Inv
<1> SUFFICES ASSUME Init PROVE Inv OBVIOUS
<1> USE DEF Init, RunIds
<1>1. now \in Nat /\ restarts \in Nat OBVIOUS
<1>2. run_id \in [Paths -> Nat] OBVIOUS
<1>3. TypeOK BY <1>1, <1>2 DEF TypeOK, PcStates, Others
<1>4. Clock BY DEF Clock
<1>5. OriginOf BY DEF OriginOf
<1>6. OnlyIssuedAdmits BY DEF OnlyIssuedAdmits
<1>7. ListedHaveWaited BY DEF ListedHaveWaited
<1>8. QED BY <1>3, <1>4, <1>5, <1>6, <1>7 DEF Inv

\* Issue: the new token names what the history says.
LEMMA IssueInv == ASSUME Inv, NEW p \in Paths, Issue(p) PROVE Inv'
<1>0. PICK reading \in Readings :
         LET t == [run_id |-> run_id[p], operation_id |-> Operation[p], created_at |-> reading]
         IN  tokens' = tokens \cup {t} /\ origin' = origin \cup {<<t, p, restarts>>}
  BY DEF Issue
<1> DEFINE t == [run_id |-> run_id[p], operation_id |-> Operation[p], created_at |-> reading]
<1> USE DEF process, sockets
<1>1. /\ p \in Issuing
      /\ tokens' = tokens \cup {t} /\ origin' = origin \cup {<<t, p, restarts>>}
      /\ UNCHANGED <<now, run_id, restarts, expired, pc, at, shown, active_connections>>
  BY <1>0 DEF Issue
<1>2. /\ t.run_id = run_id[p] /\ t.operation_id = Operation[p] OBVIOUS
<1> HIDE DEF t
<1>3. TypeOK' BY <1>1, <1>2 DEF Inv, TypeOK
<1>4. Clock' BY <1>1 DEF Inv, Clock
<1>5. OriginOf'
  <2> SUFFICES ASSUME NEW u \in tokens'
               PROVE  \E q \in Issuing, k \in 0 .. restarts :
                         /\ <<u, q, k>> \in origin'
                         /\ u.operation_id = Operation[q]
                         /\ u.run_id <= now + 1
                         /\ k < restarts => u.run_id < now
    BY <1>1 DEF OriginOf
  <2>1. CASE u \in tokens BY <1>1, <2>1 DEF Inv, OriginOf
  <2>2. CASE u = t
    <3>1. restarts \in 0 .. restarts /\ ~(restarts < restarts) BY DEF Inv, TypeOK
    <3>2. <<u, p, restarts>> \in origin' BY <1>1, <2>2
    <3>3. u.run_id <= now + 1 BY <1>2, <2>2 DEF Inv, Clock, TypeOK
    <3>4. QED BY <1>1, <1>2, <2>2, <3>1, <3>2, <3>3
  <2>3. QED BY <1>1, <2>1, <2>2
<1>6. OnlyIssuedAdmits' BY <1>1 DEF Inv, OnlyIssuedAdmits
<1>7. ListedHaveWaited' BY <1>1 DEF Inv, ListedHaveWaited
<1>8. QED BY <1>3, <1>4, <1>5, <1>6, <1>7 DEF Inv

\* Expire: no property depends on what has expired.
LEMMA ExpireInv == ASSUME Inv, NEW t \in tokens, Expire(t) PROVE Inv'
<1>1. /\ expired' = expired \cup {t}
      /\ UNCHANGED <<now, run_id, restarts, tokens, origin, pc, at, shown, active_connections>>
  BY DEF Expire, process, sockets
<1>2. QED
  BY <1>1 DEF Inv, TypeOK, Clock, OriginOf, OnlyIssuedAdmits, ListedHaveWaited

\* OnConnect: whom it lets through shows a token of this path and life; an
\* idle socket is on no list.
LEMMA OnConnectInv == ASSUME Inv, NEW s \in Sockets, OnConnect(s) PROVE Inv'
<1>1. PICK t \in tokens \cup Others :
         /\ pc[s] = "idle"
         /\ pc' = [pc EXCEPT ![s] =
                     IF t = AuthToken THEN "raised"
                     ELSE IF Takes(at[s], t) THEN "checked" ELSE "refused"]
         /\ shown' = [shown EXCEPT ![s] = t]
         /\ UNCHANGED <<now, run_id, restarts, tokens, expired, origin, at, active_connections>>
  BY DEF OnConnect, process, issued
<1>2. /\ pc \in [Sockets -> PcStates] /\ at \in [Sockets -> Paths]
      /\ shown \in [Sockets -> tokens \cup Others]
  BY DEF Inv, TypeOK
<1>3. /\ pc'[s] \in {"raised", "checked", "refused"}
      /\ pc'[s] = "checked" => Takes(at[s], t)
      /\ \A q \in Sockets \ {s} : pc'[q] = pc[q]
      /\ pc' \in [Sockets -> PcStates]
  BY <1>1, <1>2 DEF PcStates
<1>4. /\ shown'[s] = t
      /\ \A q \in Sockets \ {s} : shown'[q] = shown[q]
      /\ shown' \in [Sockets -> tokens \cup Others]
  BY <1>1, <1>2
<1>5. TypeOK' BY <1>1, <1>3, <1>4 DEF Inv, TypeOK
<1>6. Clock' BY <1>1 DEF Inv, Clock
<1>7. OriginOf' BY <1>1 DEF Inv, OriginOf
<1>8. OnlyIssuedAdmits'
  <2> SUFFICES ASSUME NEW q \in Sockets, pc'[q] \in {"checked", "waiting"}
               PROVE  <<shown'[q], at[q], restarts>> \in origin
    BY <1>1 DEF OnlyIssuedAdmits
  <2>1. CASE q = s
    <3>1. Takes(at[s], t) BY <1>3, <2>1
    <3>2. t \in tokens /\ at[s] \in Paths BY <3>1, <1>2 DEF Takes
    <3>3. <<t, at[s], restarts>> \in origin BY <3>1, <3>2, TakenWasIssued DEF Inv
    <3>4. QED BY <1>4, <2>1, <3>3
  <2>2. CASE q # s BY <1>3, <1>4, <2>2 DEF Inv, OnlyIssuedAdmits
  <2>3. QED BY <2>1, <2>2
<1>9. ListedHaveWaited'
  <2>1. \A p \in Paths : s \notin active_connections[p]
    BY <1>1 DEF Inv, ListedHaveWaited
  <2>2. active_connections \in [Paths -> SUBSET Sockets] BY DEF Inv, TypeOK
  <2>3. QED BY <1>1, <1>3, <1>4, <2>1, <2>2 DEF Inv, ListedHaveWaited
<1>10. QED BY <1>5, <1>6, <1>7, <1>8, <1>9 DEF Inv

\* Connect: the socket waits at its own path and is listed there.
LEMMA ConnectInv == ASSUME Inv, NEW s \in Sockets, Connect(s) PROVE Inv'
<1>1. /\ pc[s] = "checked"
      /\ UNCHANGED <<now, run_id, restarts, tokens, expired, origin, at, shown>>
  BY DEF Connect, process, issued
<1>2. /\ pc \in [Sockets -> PcStates] /\ at \in [Sockets -> Paths]
      /\ active_connections \in [Paths -> SUBSET Sockets]
  BY DEF Inv, TypeOK
<1>3. <<shown[s], at[s], restarts>> \in origin BY <1>1 DEF Inv, OnlyIssuedAdmits
<1>4. Clock' /\ OriginOf' BY <1>1 DEF Inv, Clock, OriginOf
<1>5. CASE /\ pc' = [pc EXCEPT ![s] = "waiting"]
           /\ active_connections' = [active_connections EXCEPT ![at[s]] = @ \cup {s}]
  <2>1. /\ pc'[s] = "waiting" /\ \A q \in Sockets \ {s} : pc'[q] = pc[q]
        /\ pc' \in [Sockets -> PcStates]
    BY <1>2, <1>5 DEF PcStates
  <2>2. /\ \A p \in Paths : active_connections'[p] =
             IF p = at[s] THEN active_connections[p] \cup {s} ELSE active_connections[p]
        /\ active_connections' \in [Paths -> SUBSET Sockets]
    BY <1>2, <1>5
  <2>3. TypeOK' BY <1>1, <2>1, <2>2 DEF Inv, TypeOK
  <2>4. OnlyIssuedAdmits' BY <1>1, <1>3, <2>1 DEF Inv, OnlyIssuedAdmits
  <2>5. ListedHaveWaited'
    <3> SUFFICES ASSUME NEW p \in Paths
                 PROVE  /\ {q \in Sockets : pc'[q] = "waiting" /\ at[q] = p}
                             \subseteq active_connections'[p]
                        /\ \A q \in active_connections'[p] :
                             /\ at[q] = p /\ pc'[q] \in {"waiting", "answered", "raised"}
                             /\ <<shown[q], p, restarts>> \in origin
      BY <1>1 DEF ListedHaveWaited
    <3>1. /\ {q \in Sockets : pc[q] = "waiting" /\ at[q] = p} \subseteq active_connections[p]
          /\ \A q \in active_connections[p] :
               /\ at[q] = p /\ pc[q] \in {"waiting", "answered", "raised"}
               /\ <<shown[q], p, restarts>> \in origin
      BY DEF Inv, ListedHaveWaited
    <3>2. \A q \in active_connections[p] : q \in Sockets /\ q # s BY <1>1, <1>2, <3>1
    <3>3. QED BY <1>3, <2>1, <2>2, <3>1, <3>2
  <2>6. QED BY <1>4, <2>3, <2>4, <2>5 DEF Inv
<1>6. CASE pc' = [pc EXCEPT ![s] = "raised"] /\ UNCHANGED active_connections
  <2>1. /\ pc'[s] = "raised" /\ \A q \in Sockets \ {s} : pc'[q] = pc[q]
        /\ pc' \in [Sockets -> PcStates]
    BY <1>2, <1>6 DEF PcStates
  <2>2. TypeOK' BY <1>1, <1>6, <2>1 DEF Inv, TypeOK
  <2>3. OnlyIssuedAdmits' BY <1>1, <2>1 DEF Inv, OnlyIssuedAdmits
  <2>4. ListedHaveWaited' BY <1>1, <1>2, <1>6, <2>1 DEF Inv, ListedHaveWaited
  <2>5. QED BY <1>4, <2>2, <2>3, <2>4 DEF Inv
<1>7. QED BY <1>5, <1>6 DEF Connect

\* Receive: the socket stays on the list of its path.
LEMMA ReceiveInv == ASSUME Inv, NEW s \in Sockets, Receive(s) PROVE Inv'
<1>1. /\ pc[s] = "waiting"
      /\ pc' = [pc EXCEPT ![s] = "answered"] \/ pc' = [pc EXCEPT ![s] = "raised"]
      /\ UNCHANGED <<now, run_id, restarts, tokens, expired, origin, at, shown,
                     active_connections>>
  BY DEF Receive, process, issued
<1>2. /\ pc \in [Sockets -> PcStates] /\ at \in [Sockets -> Paths]
      /\ active_connections \in [Paths -> SUBSET Sockets]
  BY DEF Inv, TypeOK
<1>3. /\ pc'[s] \in {"answered", "raised"}
      /\ \A q \in Sockets \ {s} : pc'[q] = pc[q]
      /\ pc' \in [Sockets -> PcStates]
  BY <1>1, <1>2 DEF PcStates
<1>4. TypeOK' BY <1>1, <1>3 DEF Inv, TypeOK
<1>5. Clock' /\ OriginOf' BY <1>1 DEF Inv, Clock, OriginOf
<1>6. OnlyIssuedAdmits' BY <1>1, <1>3 DEF Inv, OnlyIssuedAdmits
<1>7. ListedHaveWaited' BY <1>1, <1>2, <1>3 DEF Inv, ListedHaveWaited
<1>8. QED BY <1>4, <1>5, <1>6, <1>7 DEF Inv

\* Disconnect: the socket leaves the list of the only path that has it.
LEMMA DisconnectInv == ASSUME Inv, NEW s \in Sockets, Disconnect(s) PROVE Inv'
<1>1. /\ pc[s] = "waiting" /\ pc' = [pc EXCEPT ![s] = "gone"]
      /\ active_connections' = [active_connections EXCEPT ![at[s]] = @ \ {s}]
      /\ UNCHANGED <<now, run_id, restarts, tokens, expired, origin, at, shown>>
  BY DEF Disconnect, process, issued
<1>2. /\ pc \in [Sockets -> PcStates] /\ at \in [Sockets -> Paths]
      /\ active_connections \in [Paths -> SUBSET Sockets]
  BY DEF Inv, TypeOK
<1>3. /\ pc'[s] = "gone" /\ \A q \in Sockets \ {s} : pc'[q] = pc[q]
      /\ pc' \in [Sockets -> PcStates]
  BY <1>1, <1>2 DEF PcStates
<1>4. /\ \A p \in Paths : active_connections'[p] =
           IF p = at[s] THEN active_connections[p] \ {s} ELSE active_connections[p]
      /\ active_connections' \in [Paths -> SUBSET Sockets]
  BY <1>1, <1>2
<1>5. TypeOK' BY <1>1, <1>3, <1>4 DEF Inv, TypeOK
<1>6. Clock' /\ OriginOf' BY <1>1 DEF Inv, Clock, OriginOf
<1>7. OnlyIssuedAdmits' BY <1>1, <1>3 DEF Inv, OnlyIssuedAdmits
<1>8. ListedHaveWaited'
  <2> SUFFICES ASSUME NEW p \in Paths
               PROVE  /\ {q \in Sockets : pc'[q] = "waiting" /\ at[q] = p}
                           \subseteq active_connections'[p]
                      /\ \A q \in active_connections'[p] :
                           /\ at[q] = p /\ pc'[q] \in {"waiting", "answered", "raised"}
                           /\ <<shown[q], p, restarts>> \in origin
    BY <1>1 DEF ListedHaveWaited
  <2>1. /\ {q \in Sockets : pc[q] = "waiting" /\ at[q] = p} \subseteq active_connections[p]
        /\ \A q \in active_connections[p] :
             /\ at[q] = p /\ pc[q] \in {"waiting", "answered", "raised"}
             /\ <<shown[q], p, restarts>> \in origin
    BY DEF Inv, ListedHaveWaited
  <2>2. \A q \in active_connections'[p] : q \in Sockets /\ q # s BY <1>2, <1>4, <2>1
  <2>3. QED BY <1>2, <1>3, <1>4, <2>1, <2>2
<1>9. QED BY <1>5, <1>6, <1>7, <1>8 DEF Inv

\* Restart: every run id is above those of all tokens there are.
LEMMA RestartInv == ASSUME Inv, Restart PROVE Inv'
<1>1. /\ restarts' = restarts + 1 /\ now' = now + 2
      /\ run_id' \in [Paths -> {now + 2, now + 2 + 1}]
      /\ pc' = [s \in Sockets |-> IF pc[s] \in {"checked", "waiting"} THEN "gone" ELSE pc[s]]
      /\ active_connections' = [p \in Paths |-> {}]
      /\ UNCHANGED <<tokens, expired, origin, at, shown>>
  BY DEF Restart, RunIds, issued
<1>2. now \in Nat /\ restarts \in Nat BY DEF Inv, TypeOK
<1>3. now' \in Nat /\ restarts' \in Nat /\ run_id' \in [Paths -> Nat] BY <1>1, <1>2
<1>4. pc' \in [Sockets -> PcStates] BY <1>1 DEF Inv, TypeOK, PcStates
<1>5. \A s \in Sockets : pc'[s] \notin {"checked", "waiting"} BY <1>1
<1>6. TypeOK' BY <1>1, <1>3, <1>4 DEF Inv, TypeOK
<1>7. Clock' BY <1>1, <1>2 DEF Clock
<1>8. OriginOf'
  <2> SUFFICES ASSUME NEW t \in tokens
               PROVE  \E p \in Issuing, k \in 0 .. restarts' :
                         /\ <<t, p, k>> \in origin
                         /\ t.operation_id = Operation[p]
                         /\ t.run_id <= now' + 1
                         /\ k < restarts' => t.run_id < now'
    BY <1>1 DEF OriginOf
  <2>1. PICK p \in Issuing, k \in 0 .. restarts :
           /\ <<t, p, k>> \in origin
           /\ t.operation_id = Operation[p]
           /\ t.run_id <= now + 1
           /\ k < restarts => t.run_id < now
    BY DEF Inv, OriginOf
  <2>2. k \in 0 .. restarts' BY <1>1, <1>2
  <2>3. t.run_id < now' /\ t.run_id <= now' + 1
    <3>1. t.run_id \in Nat BY DEF Inv, TypeOK
    <3>2. QED BY <1>1, <1>2, <2>1, <3>1
  <2>4. QED BY <2>1, <2>2, <2>3
<1>9. OnlyIssuedAdmits' BY <1>5 DEF OnlyIssuedAdmits
<1>10. ListedHaveWaited' BY <1>1, <1>5 DEF ListedHaveWaited
<1>11. QED BY <1>6, <1>7, <1>8, <1>9, <1>10 DEF Inv

\* Every step keeps the invariant.
LEMMA NextInv == Inv /\ [Next]_vars => Inv'
<1> SUFFICES ASSUME Inv, [Next]_vars PROVE Inv' OBVIOUS
<1>1. ASSUME NEW p \in Paths, Issue(p) PROVE Inv' BY <1>1, IssueInv
<1>2. ASSUME NEW t \in tokens, Expire(t) PROVE Inv' BY <1>2, ExpireInv
<1>3. ASSUME NEW s \in Sockets, OnConnect(s) PROVE Inv' BY <1>3, OnConnectInv
<1>4. ASSUME NEW s \in Sockets, Connect(s) PROVE Inv' BY <1>4, ConnectInv
<1>5. ASSUME NEW s \in Sockets, Receive(s) PROVE Inv' BY <1>5, ReceiveInv
<1>6. ASSUME NEW s \in Sockets, Disconnect(s) PROVE Inv' BY <1>6, DisconnectInv
<1>7. CASE Restart BY <1>7, RestartInv
<1>8. CASE UNCHANGED vars
  BY <1>8 DEF vars, process, issued, sockets, Inv, TypeOK, Clock, OriginOf,
              OnlyIssuedAdmits, ListedHaveWaited, Takes
<1>9. QED BY <1>1, <1>2, <1>3, <1>4, <1>5, <1>6, <1>7, <1>8 DEF Next

\* The invariant holds in every reachable state.
THEOREM Invariance == Spec => []Inv
<1>1. Init => Inv BY InitInv
<1>2. Inv /\ [Next]_vars => Inv' BY NextInv
<1>3. QED BY <1>1, <1>2, PTL DEF Spec

\* Every variable has its type.
THEOREM TypeCorrect == Spec => []TypeOK
<1>1. Inv => TypeOK BY DEF Inv
<1>2. QED BY <1>1, Invariance, PTL

\* A token opens its own path in its own life only: not that of another
\* object with the same run id, and nothing after a restart.
THEOREM AdmittedByOwnToken == Spec => []OnlyIssuedAdmits
<1>1. Inv => OnlyIssuedAdmits BY DEF Inv
<1>2. QED BY <1>1, Invariance, PTL

\* The list of active connections of a path has every socket that waits there
\* and none that was not admitted there.
THEOREM ListIsOfThePath == Spec => []ListedHaveWaited
<1>1. Inv => ListedHaveWaited BY DEF Inv
<1>2. QED BY <1>1, Invariance, PTL
-----------------------------------------------------------------------------
(* The doors are kept                                                      *)

\* The history holds the tokens there are, each with the path its operation
\* names and a life that has begun.
Origins ==
    \A x \in origin : \E t \in tokens, p \in Issuing, k \in 0 .. restarts :
       x = <<t, p, k>> /\ t.operation_id = Operation[p]

\* Only a token that is issued is added to the history.
LEMMA OriginsStep == Inv /\ Origins /\ [Next]_vars => Origins'
<1> SUFFICES ASSUME Inv, Origins, [Next]_vars PROVE Origins' OBVIOUS
<1>0. restarts \in Nat BY DEF Inv, TypeOK
<1>1. ASSUME NEW p \in Paths, Issue(p) PROVE Origins'
  <2>1. PICK reading \in Readings :
           LET t == [run_id |-> run_id[p], operation_id |-> Operation[p],
                     created_at |-> reading]
           IN  tokens' = tokens \cup {t} /\ origin' = origin \cup {<<t, p, restarts>>}
    BY <1>1 DEF Issue
  <2> DEFINE t == [run_id |-> run_id[p], operation_id |-> Operation[p], created_at |-> reading]
  <2>2. /\ p \in Issuing /\ restarts' = restarts /\ t.operation_id = Operation[p]
        /\ tokens' = tokens \cup {t} /\ origin' = origin \cup {<<t, p, restarts>>}
    BY <1>1, <2>1 DEF Issue, process
  <2> HIDE DEF t
  <2>3. restarts \in 0 .. restarts' BY <1>0, <2>2
  <2>4. QED BY <2>2, <2>3 DEF Origins
<1>2. CASE Restart
  <2>1. restarts' = restarts + 1 /\ UNCHANGED <<tokens, origin>> BY <1>2 DEF Restart, issued
  <2>2. \A k \in 0 .. restarts : k \in 0 .. restarts' BY <1>0, <2>1
  <2>3. QED BY <2>1, <2>2 DEF Origins
<1>3. CASE UNCHANGED <<tokens, origin, restarts>> BY <1>3 DEF Origins
<1>4. QED
  BY <1>1, <1>2, <1>3
  DEF Next, Expire, OnConnect, Connect, Receive, Disconnect, vars, process, issued

\* What a history of triples says of the tokens of one life: the pairs of a
\* token that is not expired and its path.
Opening(O, e, k) == {<<x[1], x[2]>> : x \in {y \in O : y[3] = k /\ y[1] \notin e}}

LEMMA OpeningIs ==
    ASSUME NEW O, NEW e, NEW k, \A x \in O : \E t, p, j : x = <<t, p, j>>,
           NEW t, NEW p
    PROVE  <<t, p>> \in Opening(O, e, k) <=> <<t, p, k>> \in O /\ t \notin e
<1>1. ASSUME <<t, p>> \in Opening(O, e, k) PROVE <<t, p, k>> \in O /\ t \notin e
  <2>1. PICK x \in O : x[3] = k /\ x[1] \notin e /\ <<t, p>> = <<x[1], x[2]>>
    BY <1>1 DEF Opening
  <2>2. PICK u, q, j : x = <<u, q, j>> OBVIOUS
  <2>3. QED BY <2>1, <2>2
<1>2. ASSUME <<t, p, k>> \in O, t \notin e PROVE <<t, p>> \in Opening(O, e, k)
  <2> DEFINE x == <<t, p, k>>
  <2>1. x[1] = t /\ x[2] = p /\ x[3] = k /\ x \in O BY <1>2
  <2>2. QED BY <1>2, <2>1 DEF Opening
<1>3. QED BY <1>1, <1>2

\* What opens a path is a pair of a token and a path.
LEMMA ValidArePairs ==
    ASSUME Origins, NEW v \in Valid
    PROVE  \E t \in tokens, p \in Issuing :
              v = <<t, p>> /\ v[2] = p /\ t.operation_id = Operation[p]
<1>1. PICK x \in origin : v = <<x[1], x[2]>> BY DEF Valid
<1>2. PICK t \in tokens, p \in Issuing, k \in 0 .. restarts :
         x = <<t, p, k>> /\ t.operation_id = Operation[p]
  BY DEF Origins
<1>3. QED BY <1>1, <1>2

\* Every step of the endpoints is one of the doors, or concerns none.
LEMMA StepIsTicketStep ==
    ASSUME Inv, Origins, [Next]_vars
    PROVE  [Gate!TicketNext]_<<Valid, Behind>>
<1>0. /\ at \in [Sockets -> Paths] /\ pc \in [Sockets -> PcStates] /\ restarts \in Nat
      /\ at' = at
  BY DEF Inv, TypeOK, Next, Issue, Expire, OnConnect, Connect, Receive, Disconnect, Restart,
         sockets, vars
<1>1. ASSUME UNCHANGED <<origin, expired, restarts>> PROVE Valid' = Valid
  BY <1>1 DEF Valid
<1>2. ASSUME UNCHANGED pc PROVE Behind' = Behind
  BY <1>0, <1>2 DEF Behind
<1>3. ASSUME NEW p \in Paths, Issue(p) PROVE Gate!Grant(p)
  <2>1. PICK reading \in Readings :
           LET t == [run_id |-> run_id[p], operation_id |-> Operation[p],
                     created_at |-> reading]
           IN  origin' = origin \cup {<<t, p, restarts>>}
    BY <1>3 DEF Issue
  <2> DEFINE t == [run_id |-> run_id[p], operation_id |-> Operation[p], created_at |-> reading]
  <2>2. /\ UNCHANGED <<expired, restarts, pc>>
        /\ origin' = origin \cup {<<t, p, restarts>>}
    BY <1>3, <2>1 DEF Issue, process, sockets
  <2> HIDE DEF t
  <2>3. Valid \subseteq Valid' BY <2>2 DEF Valid
  <2>4. \A v \in Valid' \ Valid : v = <<t, p>> /\ v[2] = p
    <3> TAKE v \in Valid' \ Valid
    <3>1. PICK x \in origin' : /\ x[3] = restarts /\ x[1] \notin expired
                               /\ v = <<x[1], x[2]>>
      BY <2>2 DEF Valid
    <3>2. x \notin origin BY <3>1 DEF Valid
    <3>3. x = <<t, p, restarts>> BY <2>2, <3>2
    <3>4. QED BY <3>1, <3>3
  <2>5. Behind' = Behind BY <2>2, <1>2
  <2>6. QED BY <2>3, <2>4, <2>5 DEF Gate!Grant
<1>4. ASSUME NEW t \in tokens, Expire(t)
      PROVE  [Gate!TicketNext]_<<Valid, Behind>>
  <2>1. expired' = expired \cup {t} /\ UNCHANGED <<origin, restarts, pc>>
    BY <1>4 DEF Expire, process, sockets
  <2>2. Behind' = Behind BY <2>1, <1>2
  <2>3. \A u, q : <<u, q>> \in Valid' <=> <<u, q>> \in Valid /\ u # t
    <3>1. /\ \A x \in origin : \E u, q, j : x = <<u, q, j>>
          /\ Valid = Opening(origin, expired, restarts)
          /\ Valid' = Opening(origin, expired', restarts)
      BY <2>1 DEF Origins, Valid, Opening
    <3> TAKE u, q
    <3>2. <<u, q>> \in Valid <=> <<u, q, restarts>> \in origin /\ u \notin expired
      BY <3>1, OpeningIs
    <3>3. <<u, q>> \in Valid' <=> <<u, q, restarts>> \in origin /\ u \notin expired'
      BY <3>1, OpeningIs
    <3>4. QED BY <2>1, <3>2, <3>3
  <2>4. /\ \A v \in Valid : \E u, q : v = <<u, q>>
        /\ \A v \in Valid' : \E u, q : v = <<u, q>>
    BY DEF Valid
  <2>5. CASE \E p : <<t, p>> \in Valid
    <3>1. PICK p : <<t, p>> \in Valid BY <2>5
    <3>2. \A q : <<t, q>> \in Valid => q = p
      <4> SUFFICES ASSUME NEW q, <<t, q>> \in Valid PROVE q = p OBVIOUS
      <4>1. p \in Issuing /\ t.operation_id = Operation[p] BY <3>1, ValidArePairs
      <4>2. q \in Issuing /\ t.operation_id = Operation[q] BY ValidArePairs
      <4>3. QED BY <4>1, <4>2, OperationsDiffer, ConstantsAssumption
    <3>3. Valid' = Valid \ {<<t, p>>} BY <2>3, <2>4, <3>1, <3>2
    <3>4. Gate!RunOut(<<t, p>>) BY <2>2, <3>3 DEF Gate!RunOut
    <3>5. QED BY <3>1, <3>4 DEF Gate!TicketNext
  <2>6. CASE ~\E p : <<t, p>> \in Valid
    <3>1. \A u, q : <<u, q>> \in Valid => u # t BY <2>6
    <3>2. \A u, q : <<u, q>> \in Valid' <=> <<u, q>> \in Valid BY <2>3, <3>1
    <3>3. \A v : v \in Valid' <=> v \in Valid BY <2>4, <3>2
    <3>4. Valid' = Valid BY <3>3
    <3>5. QED BY <2>2, <3>4
  <2>7. QED BY <2>5, <2>6
<1>5. ASSUME NEW s \in Sockets, OnConnect(s)
      PROVE  [Gate!TicketNext]_<<Valid, Behind>>
  <2>1. PICK t \in tokens \cup Others :
           /\ pc[s] = "idle"
           /\ pc' = [pc EXCEPT ![s] = IF t = AuthToken THEN "raised"
                                      ELSE IF Takes(at[s], t) THEN "checked" ELSE "refused"]
           /\ UNCHANGED <<origin, expired, restarts>>
    BY <1>5 DEF OnConnect, process, issued
  <2>2. Valid' = Valid BY <1>1, <2>1
  <2>3. /\ Behind[s] = NoToken
        /\ \A q \in Sockets \ {s} : pc'[q] = pc[q] /\ Behind'[q] = Behind[q]
    BY <1>0, <2>1 DEF Behind
  <2>4. CASE pc'[s] = "checked"
    <3>1. t \in tokens /\ Takes(at[s], t) /\ t \notin expired
      BY <1>0, <2>1, <2>4 DEF Takes
    <3>2. <<t, at[s], restarts>> \in origin BY <1>0, <3>1, TakenWasIssued DEF Inv
    <3>3. <<t, at[s]>> \in Valid
      <4>1. \A x \in origin : \E u, q, j : x = <<u, q, j>> BY DEF Origins
      <4>2. QED BY <3>1, <3>2, <4>1, OpeningIs DEF Valid, Opening
    <3>4. Behind'[s] = at[s] BY <1>0, <2>4 DEF Behind
    <3>5. Behind' = [Behind EXCEPT ![s] = at[s]] BY <2>3, <3>4 DEF Behind
    <3>6. Gate!Enter(s, <<t, at[s]>>) BY <2>2, <2>3, <3>5 DEF Gate!Enter
    <3>7. QED BY <3>3, <3>6 DEF Gate!TicketNext
  <2>5. CASE pc'[s] # "checked"
    <3>1. pc'[s] \notin {"checked", "waiting"} BY <1>0, <2>1, <2>5
    <3>2. Behind'[s] = Behind[s] BY <2>3, <3>1 DEF Behind
    <3>3. Behind' = Behind BY <2>3, <3>2 DEF Behind
    <3>4. QED BY <2>2, <3>3
  <2>6. QED BY <2>4, <2>5
<1>6. ASSUME NEW s \in Sockets, NEW to \in {"raised", "answered", "gone"},
             pc' = [pc EXCEPT ![s] = to], UNCHANGED <<origin, expired, restarts>>
      PROVE  Gate!TicketNext
  <2>1. Valid' = Valid BY <1>1, <1>6
  <2>2. pc'[s] = to /\ \A q \in Sockets \ {s} : pc'[q] = pc[q] BY <1>0, <1>6
  <2>3. Behind' = [Behind EXCEPT ![s] = NoToken] BY <1>0, <2>2 DEF Behind
  <2>4. Gate!Leave(s) BY <2>1, <2>3 DEF Gate!Leave
  <2>5. QED BY <2>4 DEF Gate!TicketNext
<1>7. ASSUME NEW s \in Sockets, Connect(s)
      PROVE  [Gate!TicketNext]_<<Valid, Behind>>
  <2>1. pc[s] = "checked" /\ UNCHANGED <<origin, expired, restarts>>
    BY <1>7 DEF Connect, process, issued
  <2>2. CASE pc' = [pc EXCEPT ![s] = "waiting"]
    <3>1. Behind' = Behind BY <1>0, <2>1, <2>2 DEF Behind
    <3>2. QED BY <1>1, <2>1, <3>1
  <2>3. CASE pc' = [pc EXCEPT ![s] = "raised"] BY <1>6, <2>1, <2>3
  <2>4. QED BY <1>7, <2>2, <2>3 DEF Connect
<1>8. ASSUME NEW s \in Sockets, Receive(s) \/ Disconnect(s) PROVE Gate!TicketNext
  <2>1. UNCHANGED <<origin, expired, restarts>>
    BY <1>8 DEF Receive, Disconnect, process, issued
  <2>2. \E to \in {"raised", "answered", "gone"} : pc' = [pc EXCEPT ![s] = to]
    BY <1>8 DEF Receive, Disconnect
  <2>3. QED BY <1>6, <2>1, <2>2
<1>9. CASE Restart
  <2>1. /\ restarts' = restarts + 1 /\ UNCHANGED <<origin, expired>>
        /\ \A s \in Sockets : pc'[s] \notin {"checked", "waiting"}
    BY <1>0, <1>9 DEF Restart, issued
  <2>2. \A x \in origin : x[3] # restarts'
    <3> TAKE x \in origin
    <3>1. PICK t \in tokens, p \in Issuing, k \in 0 .. restarts : x = <<t, p, k>>
      BY DEF Origins
    <3>2. QED BY <1>0, <2>1, <3>1
  <2>3. Valid' = {} BY <2>1, <2>2 DEF Valid
  <2>4. Behind' = [s \in Sockets |-> NoToken] BY <2>1 DEF Behind
  <2>5. Gate!CloseDown BY <2>3, <2>4 DEF Gate!CloseDown
  <2>6. QED BY <2>5 DEF Gate!TicketNext
<1>10. CASE UNCHANGED vars
  <2>1. UNCHANGED <<origin, expired, restarts, pc>>
    BY <1>10 DEF vars, process, issued, sockets
  <2>2. QED BY <1>1, <1>2, <2>1
<1>11. QED
  BY <1>3, <1>4, <1>5, <1>7, <1>8, <1>9, <1>10 DEF Next, Gate!TicketNext

\* The endpoints keep the doors of their paths, for any number of connections,
\* tokens and restarts, and whichever objects share the id of their run.
THEOREM Refinement == Spec => ImplementsTickets
<1>1. Init => Gate!TicketInit /\ Origins
  BY DEF Init, Gate!TicketInit, Valid, Behind, Origins
<1>2. Inv /\ Origins /\ [Next]_vars => [Gate!TicketNext]_<<Valid, Behind>>
  BY StepIsTicketStep
<1>3. QED
  BY <1>1, <1>2, OriginsStep, Invariance, PTL
  DEF Spec, ImplementsTickets, Gate!TicketSpec, Gate!places
=============================================================================
