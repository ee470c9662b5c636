-------------------------- MODULE EmailSenderProofs --------------------------
(***************************************************************************)
(* Theorems about EmailSenderService, for any number of messages, with a   *)
(* password or with tokens, and any number of restarts.                    *)
(***************************************************************************)
EXTENDS EmailSender, TLAPS

\* A ping that began while the service was down and has passed the status
\* will find the flag cleared: only a restart sets it.
DownWillBeSeen == \A m \in Messages : down[m] /\ pc[m] = "checking" => ~builded

\* The inductive invariant.
Inv == TypeOK /\ SilentLossIsNoticed /\ DownIsRefused /\ DownWillBeSeen /\ DisconnectIsFinal

\* The part of the type invariant that is about the tokens.
TokensTyped ==
    /\ issued \in Tokens
    /\ valid \subseteq 1 .. issued /\ renewable \subseteq 1 .. issued
    /\ {auth_tokens, data, file} \subseteq 0 .. issued
    /\ local \in [Messages -> 0 .. issued]
    /\ again \in [Messages -> BOOLEAN]

\* A token that is issued is the next number, and what is kept may stay.
LEMMA IssueTyped ==
    ASSUME TokensTyped, Issue
    PROVE  /\ issued' \in Tokens /\ issued' = issued + 1
           /\ valid' \subseteq 1 .. issued' /\ renewable' \subseteq 1 .. issued'
           /\ auth_tokens' \in 0 .. issued' /\ 0 .. issued \subseteq 0 .. issued'
           /\ issued' \in 0 .. issued'
<1>1. MaxTokens \in Nat BY ConstantsAssumption
<1>2. QED BY <1>1 DEF TokensTyped, Issue, Tokens

\* A step of a task keeps the types of the tokens.
LEMMA StepTokens ==
    ASSUME TokensTyped, NEW m \in Messages, Step(m) PROVE TokensTyped'
<1> USE DEF TokensTyped
<1>1. CASE UNCHANGED <<endpoint, tokens, saving>>
  BY <1>1 DEF endpoint, tokens, saving
<1>2. CASE Refresh(m)
  <2>1. CASE Issue
    <3>1. UNCHANGED <<data, file, saving>> BY <1>2 DEF Refresh
    <3>2. local' \in [Messages -> 0 .. issued'] BY <2>1, <3>1, IssueTyped DEF saving
    <3>3. QED BY <2>1, <3>1, <3>2, IssueTyped DEF saving
  <2>2. CASE UNCHANGED <<endpoint, auth_tokens>>
    BY <1>2, <2>2 DEF Refresh, endpoint, saving
  <2>3. QED BY <1>2, <2>1, <2>2 DEF Refresh
<1>3. CASE Load(m) BY <1>3 DEF Load, endpoint, tokens
<1>4. CASE Store(m)
  <2>1. /\ data' = local[m] /\ UNCHANGED <<issued, valid, renewable, auth_tokens, file>>
        /\ again' = [again EXCEPT ![m] = TRUE] /\ local' = [local EXCEPT ![m] = 0]
    BY <1>4 DEF Store, endpoint, Nothing
  <2>2. 0 \in 0 .. issued BY DEF Tokens
  <2>3. local' \in [Messages -> 0 .. issued] /\ again' \in [Messages -> BOOLEAN] BY <2>1, <2>2
  <2>4. QED BY <2>1, <2>3
<1>5. CASE Open(m)
  <2>1. /\ file' \in {file, 0}
        /\ UNCHANGED <<issued, valid, renewable, auth_tokens, data, local>>
        /\ again' \in {again, [again EXCEPT ![m] = FALSE]}
    BY <1>5 DEF Open, endpoint, Nothing
  <2>2. 0 \in 0 .. issued BY DEF Tokens
  <2>3. again' \in [Messages -> BOOLEAN] BY <2>1
  <2>4. QED BY <2>1, <2>2, <2>3
<1>6. CASE Dump(m) BY <1>6 DEF Dump, endpoint, tokens
<1>7. CASE Flush(m)
  <2>1. /\ file' \in {local[m], 0} /\ UNCHANGED <<issued, valid, renewable, auth_tokens, data>>
        /\ again' = [again EXCEPT ![m] = FALSE] /\ local' = [local EXCEPT ![m] = 0]
    BY <1>7 DEF Flush, endpoint, Nothing, Saved
  <2>2. 0 \in 0 .. issued BY DEF Tokens
  <2>3. local' \in [Messages -> 0 .. issued] BY <2>1, <2>2
  <2>4. QED BY <2>1, <2>2, <2>3
<1>8. QED
  BY <1>1, <1>2, <1>3, <1>4, <1>5, <1>6, <1>7
  DEF Step, Save, ReadStatus, ReadBuilded, Connect, ReadToken, Authenticate, Send,
      MarkTemporary, Logout

\* What the steps of a task write, apart from the other messages: every
\* status an except clause writes is one that is not AVAILABLE, and nothing
\* sets _builded.
LEMMA StepWrites ==
    ASSUME TypeOK, NEW m \in Messages, Step(m)
    PROVE  /\ service_status' \in Statuses /\ builded' \in BOOLEAN
           /\ builded' => builded
           /\ service_status' = "AVAILABLE" => service_status = "AVAILABLE"
           /\ pc' \in [Messages -> PcStates] /\ outcome' \in [Messages -> Outcomes]
           /\ down' \in [Messages -> BOOLEAN]
           /\ UNCHANGED starts
           /\ \A n \in Messages \ {m} :
                 pc'[n] = pc[n] /\ outcome'[n] = outcome[n] /\ down'[n] = down[n]
           /\ outcome'[m] \in Silent /\ outcome'[m] # outcome[m]
                 => service_status' # "AVAILABLE"
           /\ pc'[m] = "disconnected" => ~builded'
           /\ outcome'[m] = "disconnected" /\ outcome'[m] # outcome[m]
                 => pc[m] = "disconnected"
<1> USE DEF TypeOK, Statuses, Refusing, Outcomes, Silent, PcStates, Saving, Fail, Raise, state
<1>1. CASE ReadStatus(m) BY <1>1 DEF ReadStatus, IsDown
<1>2. CASE ReadBuilded(m) BY <1>2 DEF ReadBuilded
<1>3. CASE Connect(m) BY <1>3 DEF Connect
<1>4. CASE ReadToken(m) BY <1>4 DEF ReadToken
<1>5. CASE Refresh(m) BY <1>5 DEF Refresh
<1>6. CASE Authenticate(m) BY <1>6 DEF Authenticate
<1>7. CASE Send(m)
  <2>1. CASE /\ outcome' = [outcome EXCEPT ![m] = "sent"]
             /\ pc' = [pc EXCEPT ![m] = "sent"]
             /\ UNCHANGED <<service_status, builded>>
    BY <1>7, <2>1 DEF Send
  <2>2. CASE builded' = FALSE BY <1>7, <2>2 DEF Send
  <2>3. CASE Raise(m) /\ UNCHANGED builded BY <1>7, <2>3 DEF Send
  <2>4. CASE /\ \/ Fail(m, "WORKS_ALMOST_ATT", "sender refused")
                \/ Fail(m, "NOT_AVAILABLE", "unsupported")
             /\ pc' = [pc EXCEPT ![m] = "sent"] /\ UNCHANGED builded
    BY <1>7, <2>4 DEF Send
  <2>5. QED BY <1>7, <2>1, <2>2, <2>3, <2>4 DEF Send
<1>8. CASE MarkTemporary(m) BY <1>8 DEF MarkTemporary
<1>9. CASE Logout(m) BY <1>9 DEF Logout
<1>10. CASE Load(m) BY <1>10 DEF Load
<1>11. CASE Store(m) BY <1>11 DEF Store
<1>12. CASE Open(m) BY <1>12 DEF Open
<1>13. CASE Dump(m) BY <1>13 DEF Dump
<1>14. CASE Flush(m) BY <1>14 DEF Flush
<1>15. QED
  BY <1>1, <1>2, <1>3, <1>4, <1>5, <1>6, <1>7, <1>8, <1>9, <1>10, <1>11, <1>12, <1>13, <1>14
  DEF Step, Save

\* A start keeps the types of the tokens.
LEMMA StartTokens == ASSUME TokensTyped, Start PROVE TokensTyped'
<1> USE DEF TokensTyped
<1>1. /\ local' = [m \in Messages |-> 0] /\ again' = [m \in Messages |-> FALSE] /\ Build
      /\ 0 \in 0 .. issued
  BY DEF Start, Nothing, Tokens
<1>2. CASE UNCHANGED endpoint /\ {auth_tokens', data', file'} \subseteq {file, 0}
  BY <1>1, <1>2 DEF endpoint
<1>3. CASE Issue /\ data' = issued' /\ file' \in {issued', file, 0}
  <2>1. 0 \in 0 .. issued' BY <1>1, <1>3, IssueTyped
  <2>2. QED BY <1>1, <1>3, <2>1, IssueTyped
<1>4. QED BY <1>1, <1>2, <1>3 DEF Build, Saved, Nothing

\* Initially nothing was pinged or sent.
LEMMA InitInv == Init => Inv
<1> SUFFICES ASSUME Init PROVE Inv OBVIOUS
<1> USE DEF Init
<1>1. MaxStarts \in Nat BY ConstantsAssumption
<1>a. MaxTokens \in Nat /\ issued \in 0 .. MaxTokens BY ConstantsAssumption DEF Tokens
<1>b. 0 \in 0 .. issued /\ issued \in 0 .. issued BY <1>a
<1>2. TokensTyped BY <1>a, <1>b DEF TokensTyped, Tokens, Nothing
<1>3. /\ service_status \in Statuses /\ builded \in BOOLEAN /\ starts \in 0 .. MaxStarts
      /\ pc \in [Messages -> PcStates] /\ outcome \in [Messages -> Outcomes]
      /\ down \in [Messages -> BOOLEAN]
  <2>1. service_status \in Statuses /\ builded \in BOOLEAN BY DEF Statuses
  <2>2. starts \in 0 .. MaxStarts BY <1>1
  <2>3. /\ pc \in [Messages -> PcStates] /\ outcome \in [Messages -> Outcomes]
        /\ down \in [Messages -> BOOLEAN]
    BY DEF PcStates, Outcomes
  <2>4. QED BY <2>1, <2>2, <2>3
<1>4. TypeOK BY <1>2, <1>3 DEF TypeOK, TokensTyped
<1>5. QED BY <1>4
  DEF Inv, SilentLossIsNoticed, DownIsRefused, DownWillBeSeen, DisconnectIsFinal, Silent

\* Every step keeps the invariant.
LEMMA StepInv == Inv /\ [Next]_vars => Inv'
<1> SUFFICES ASSUME Inv, [Next]_vars PROVE Inv' OBVIOUS
<1> USE DEF Inv
<1>1. ASSUME NEW m \in Messages, Step(m) PROVE Inv'
  <2>a. TokensTyped' BY <1>1, StepTokens DEF TypeOK, TokensTyped
  <2>1. TypeOK' BY <1>1, <2>a, StepWrites DEF TypeOK, TokensTyped
  <2>2. SilentLossIsNoticed'
    <3> SUFFICES ASSUME NEW n \in Messages, outcome'[n] \in Silent
                 PROVE  service_status' # "AVAILABLE"
      BY DEF SilentLossIsNoticed
    <3>1. CASE outcome'[n] = outcome[n]
      BY <1>1, <3>1, StepWrites DEF SilentLossIsNoticed
    <3>2. CASE outcome'[n] # outcome[n] BY <1>1, <3>2, StepWrites
    <3>3. QED BY <3>1, <3>2
  <2>3. DownIsRefused' /\ DownWillBeSeen'
    <3> SUFFICES ASSUME NEW n \in Messages, down'[n]
                 PROVE  /\ pc'[n] \in {"checking", "refused"}
                        /\ pc'[n] = "checking" => ~builded'
      BY DEF DownIsRefused, DownWillBeSeen
    <3>1. CASE n # m
      BY <1>1, <3>1, StepWrites DEF DownIsRefused, DownWillBeSeen
    <3>2. CASE n = m /\ ReadStatus(m) BY <3>2 DEF ReadStatus, IsDown, TypeOK, state
    <3>3. CASE n = m /\ ReadBuilded(m)
      BY <3>3 DEF ReadBuilded, TypeOK, DownWillBeSeen
    <3>4. CASE n = m /\ ~ReadStatus(m) /\ ~ReadBuilded(m)
      <4>1. pc[m] \notin {"checking", "refused"} /\ down'[m] = down[m]
        BY <1>1, <3>4 DEF Step, Save, Connect, ReadToken, Refresh, Load, Store, Open, Dump, Flush,
                          Authenticate, Send, MarkTemporary, Logout, Saving
      <4>2. QED BY <4>1, <3>4 DEF DownIsRefused
    <3>5. QED BY <3>1, <3>2, <3>3, <3>4
  <2>4. DisconnectIsFinal'
    <3> SUFFICES ASSUME NEW n \in Messages,
                        pc'[n] = "disconnected" \/ outcome'[n] = "disconnected"
                 PROVE  ~builded'
      BY DEF DisconnectIsFinal
    <3>1. CASE n # m BY <1>1, <3>1, StepWrites DEF DisconnectIsFinal
    <3>2. CASE n = m BY <1>1, <3>2, StepWrites DEF DisconnectIsFinal
    <3>3. QED BY <3>1, <3>2
  <2>5. QED BY <2>1, <2>2, <2>3, <2>4
<1>2. CASE Expire
  BY <1>2 DEF Expire, TypeOK, state, tokens, saving, SilentLossIsNoticed, DownIsRefused,
              DownWillBeSeen, DisconnectIsFinal
<1>3. CASE Start
  <2>1. service_status' \in Statuses /\ builded' \in BOOLEAN
    BY <1>3 DEF Start, Build, Up, Unbuilt, Statuses, Refusing
  <2>2. TokensTyped' BY <1>3, StartTokens DEF TypeOK, TokensTyped
  <2>3. starts' \in 0 .. MaxStarts BY <1>3, ConstantsAssumption DEF Start, TypeOK
  <2>4. TypeOK'
    BY <1>3, <2>1, <2>2, <2>3 DEF Start, TypeOK, TokensTyped, PcStates, Outcomes
  <2>5. QED BY <1>3, <2>4 DEF Start, SilentLossIsNoticed, DownIsRefused,
                          DownWillBeSeen, DisconnectIsFinal, Silent
<1>4. CASE UNCHANGED vars
  BY <1>4 DEF vars, state, endpoint, tokens, saving, TypeOK, SilentLossIsNoticed, DownIsRefused,
              DownWillBeSeen, DisconnectIsFinal
<1>5. QED BY <1>1, <1>2, <1>3, <1>4 DEF Next

\* The invariant holds of every behaviour of the service.
THEOREM Invariance == Spec => []Inv
<1>1. QED BY InitInv, StepInv, PTL DEF Spec

\* The state variables keep their types.
THEOREM TypeCorrect == Spec => []TypeOK
<1>1. Inv => TypeOK BY DEF Inv
<1>2. QED BY <1>1, Invariance, PTL

\* No message is dropped silently behind an AVAILABLE service.
THEOREM LossIsNoticed == Spec => []SilentLossIsNoticed
<1>1. Inv => SilentLossIsNoticed BY DEF Inv
<1>2. QED BY <1>1, Invariance, PTL

\* A request pinged while the service was down is never accepted.
THEOREM DownRequestsAreRefused == Spec => []DownIsRefused
<1>1. Inv => DownIsRefused BY DEF Inv
<1>2. QED BY <1>1, Invariance, PTL

\* A connection broken while sending leaves the service unbuilt.
THEOREM DisconnectionLasts == Spec => []DisconnectIsFinal
<1>1. Inv => DisconnectIsFinal BY DEF Inv
<1>2. QED BY <1>1, Invariance, PTL

\* A service that was down answers again only through a refused sender.
THEOREM ReopeningHasOneCause == Spec => OnlyRefusedSenderReopens
<1>1. ASSUME TypeOK, [Next]_vars, IsDown, ~IsDown', starts' = starts
      PROVE  \E m \in Messages : pc[m] = "authenticated" /\ outcome'[m] = "sender refused"
  <2>1. ~Start BY <1>1, ConstantsAssumption DEF Start, TypeOK
  <2>2. ~Expire /\ ~UNCHANGED vars BY <1>1 DEF Expire, vars, state, IsDown
  <2>3. PICK m \in Messages : Step(m) BY <1>1, <2>1, <2>2 DEF Next
  <2>4. builded' /\ builded BY <1>1, <2>3, StepWrites DEF IsDown
  <2>5. service_status \in Refusing /\ service_status' \notin Refusing
    BY <1>1, <2>4 DEF IsDown
  <2>6. CASE Send(m)
    <3>1. pc[m] = "authenticated" /\ builded' # FALSE /\ service_status' # service_status
      BY <2>4, <2>5, <2>6 DEF Send
    <3>2. Fail(m, "WORKS_ALMOST_ATT", "sender refused")
      BY <2>5, <2>6, <3>1 DEF Send, Fail, Raise, Refusing
    <3>3. outcome'[m] = "sender refused" BY <1>1, <3>2 DEF Fail, TypeOK
    <3>4. QED BY <3>1, <3>3
  <2>7. CASE ~Send(m)
    BY <2>3, <2>5, <2>7 DEF Step, Save, ReadStatus, ReadBuilded, Connect, ReadToken, Refresh,
                            Load, Store, Open, Dump, Flush, Authenticate, MarkTemporary, Logout,
                            Fail, Raise, Refusing, state
  <2>8. QED BY <2>6, <2>7
<1>2. TypeOK /\ [Next]_vars =>
         [IsDown /\ ~IsDown' =>
             \/ starts' # starts
             \/ \E m \in Messages : pc[m] = "authenticated"
                                    /\ outcome'[m] = "sender refused"]_vars
  BY <1>1
<1>3. QED BY <1>2, TypeCorrect, PTL DEF Spec, OnlyRefusedSenderReopens

\* What the steps of a task do to dead tokens: they are passed on, and no new
\* ones are asked for.
LEMMA StepsOfDead ==
    ASSUME TypeOK, Dead, NEW m \in Messages, Step(m)
    PROVE  /\ UNCHANGED <<endpoint, auth_tokens, starts>>
           /\ data' \in Kept /\ file' \in Kept \cup {Nothing}
           /\ local'[m] \in Kept \cup {Nothing}
           /\ \A n \in Messages \ {m} : local'[n] = local[n] /\ pc'[n] = pc[n]
           /\ pc'[m] # "refreshing"
           /\ pc'[m] \in Saving \cup {"presenting"} => pc[m] \in Saving \cup {"presenting"}
<1> USE DEF TypeOK, Dead, Fail, Raise, Saving, tokens, saving, state
<1>0. {auth_tokens, data, file, local[m]} \subseteq Kept BY DEF Kept
<1>1. auth_tokens \notin valid \cup renewable BY <1>0
<1>2. CASE ReadStatus(m) BY <1>0, <1>2 DEF ReadStatus
<1>3. CASE ReadBuilded(m) BY <1>0, <1>3 DEF ReadBuilded
<1>4. CASE Connect(m) BY <1>0, <1>4 DEF Connect
<1>5. CASE ReadToken(m) BY <1>0, <1>1, <1>5 DEF ReadToken
<1>6. CASE Refresh(m) BY <1>6 DEF Refresh
<1>7. CASE Authenticate(m) BY <1>0, <1>7 DEF Authenticate
<1>8. CASE Send(m) BY <1>0, <1>8 DEF Send
<1>9. CASE MarkTemporary(m) BY <1>0, <1>9 DEF MarkTemporary
<1>10. CASE Logout(m) BY <1>0, <1>10 DEF Logout
<1>11. CASE Load(m) BY <1>0, <1>11 DEF Load
<1>12. CASE Store(m) BY <1>0, <1>12 DEF Store
<1>13. CASE Open(m) BY <1>0, <1>13 DEF Open
<1>14. CASE Dump(m) BY <1>0, <1>14 DEF Dump
<1>15. CASE Flush(m)
  <2>1. pc' = [pc EXCEPT ![m] = IF again[m] THEN "opening" ELSE "presenting"]
    BY <1>15 DEF Flush
  <2>2. pc'[m] \in {"opening", "presenting"} /\ \A n \in Messages \ {m} : pc'[n] = pc[n]
    BY <2>1
  <2>3. QED BY <1>0, <1>15, <2>2 DEF Flush, Saved
<1>16. QED
  BY <1>2, <1>3, <1>4, <1>5, <1>6, <1>7, <1>8, <1>9, <1>10, <1>11, <1>12, <1>13, <1>14, <1>15
  DEF Step, Save

\* Tokens that are dead wherever they are kept are never renewed, unless a
\* start finds no tokens in the file and asks the user.
THEOREM TokensStayDead == Spec => DeadTokensStayDead
<1> DEFINE Late == Saving \cup {"presenting"}
<1>1. ASSUME TypeOK, [Next]_vars, Dead
      PROVE  /\ Dead' \/ (starts' # starts /\ file = Nothing)
             /\ starts' # starts /\ file # Nothing => IsDown'
             /\ \A m \in Messages : pc'[m] \in Late => pc[m] \in Late
  <2>0. Nothing \notin valid \cup renewable BY <1>1 DEF TypeOK, Nothing, Tokens
  <2>1. ASSUME NEW m \in Messages, Step(m)
        PROVE  /\ Dead' /\ starts' = starts
               /\ \A n \in Messages : pc'[n] \in Late => pc[n] \in Late
    <3>1. Kept' \subseteq Kept \cup {Nothing}
      <4>1. \A n \in Messages : local'[n] \in Kept \cup {Nothing}
        BY <1>1, <2>1, StepsOfDead DEF Kept
      <4>2. auth_tokens \in Kept BY DEF Kept
      <4>3. QED BY <1>1, <2>1, <4>1, <4>2, StepsOfDead DEF Kept
    <3>2. Kept' \cap (valid' \cup renewable') = {}
      BY <1>1, <2>0, <2>1, <3>1, StepsOfDead DEF Dead, endpoint
    <3>3. \A n \in Messages : pc'[n] # "refreshing"
      BY <1>1, <2>1, StepsOfDead DEF Dead
    <3>4. \A n \in Messages : pc'[n] \in Late => pc[n] \in Late
      BY <1>1, <2>1, StepsOfDead
    <3>5. starts' = starts BY <1>1, <2>1, StepsOfDead
    <3>6. QED BY <1>1, <3>2, <3>3, <3>4, <3>5 DEF Dead
  <2>2. CASE Expire BY <1>1, <2>2 DEF Expire, Dead, Kept, tokens, saving
  <2>3. CASE Start
    <3>1. \A m \in Messages : pc'[m] \in {"idle", "past"} /\ local'[m] = Nothing
      BY <2>3 DEF Start
    <3>2. file \notin valid \cup renewable /\ ~UsesPassword BY <1>1 DEF Dead, Kept
    <3>3. CASE file = Nothing
      <4>1. starts' # starts BY <1>1, <2>3, ConstantsAssumption DEF Start, TypeOK
      <4>2. QED BY <3>1, <3>3, <4>1 DEF Saving
    <3>4. CASE file # Nothing
      <4>1. /\ Unbuilt /\ UNCHANGED endpoint
            /\ {auth_tokens', data', file'} \subseteq {file, Nothing}
        BY <2>3, <3>2, <3>4 DEF Start, Build, Obtainable, Saved
      <4>2. Kept' \subseteq {file, Nothing} BY <3>1, <4>1 DEF Kept
      <4>3. Kept' \cap (valid' \cup renewable') = {}
        BY <2>0, <3>2, <4>1, <4>2 DEF endpoint
      <4>4. QED BY <3>1, <3>2, <4>1, <4>3 DEF Dead, IsDown, Unbuilt, Refusing, Saving
    <3>5. QED BY <3>3, <3>4
  <2>4. CASE UNCHANGED vars
    BY <1>1, <2>4 DEF vars, endpoint, tokens, saving, Dead, Kept
  <2>5. QED BY <1>1, <2>1, <2>2, <2>3, <2>4 DEF Next
<1>2. TypeOK /\ [Next]_vars =>
         [Dead => /\ Dead' \/ (starts' # starts /\ file = Nothing)
                  /\ starts' # starts /\ file # Nothing => IsDown'
                  /\ \A m \in Messages : pc'[m] \in Late => pc[m] \in Late]_vars
  BY <1>1
<1>3. QED BY <1>2, TypeCorrect, PTL DEF Spec, DeadTokensStayDead
=============================================================================
