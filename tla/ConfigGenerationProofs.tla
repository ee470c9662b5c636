----------------------- MODULE ConfigGenerationProofs -----------------------
(***************************************************************************)
(* Theorems about the generation of the tokens, for any number of requests *)
(* and of starts, and for overlapping invalidations as well.               *)
(***************************************************************************)
EXTENDS ConfigGeneration, TLAPS

\* What each phase of main.py knows about the data and the file.
Stages ==
    /\ phase # "serving" => \A r \in Requests : pc[r] = "idle"
    /\ phase \in {"off", "creating"} => generation_id = 0
    /\ phase = "saving apps" => data.kind = "bare"
    /\ phase \in {"saving generation", "prompting"} =>
          data.kind = "full" /\ data.gen = generation_id /\ disk.kind # "bare"
    /\ phase = "starting" =>
          /\ Valid(data)
          /\ generation_id # 0 => data.kind = "full" /\ data.gen = generation_id
          /\ \/ data = disk
             \/ data.kind = "full" /\ disk.kind # "bare"
    /\ phase \in {"prompting", "starting"} /\ "save" \notin troubles => disk = data
    /\ phase = "serving" => data.kind = "full" /\ disk.kind # "bare"
    /\ \A r \in Requests : pc[r] = "dumped" => dump[r].kind = "full"

\* Only ids that were drawn are about.
Numbered ==
    /\ generation_id <= drawn /\ disk.gen <= drawn /\ data.gen <= drawn
    /\ \A r \in Requests : dump[r].gen <= drawn
    /\ handed \subseteq 0 .. drawn

\* The invariant that holds whatever happens.
Inv == TypeOK /\ Numbered /\ Stages

\* The text would be taken for a generation some client holds.
Held(text) == text.kind = "full" /\ text.gen \in handed

\* If no process died and no save failed: the ids, data and buffers of the invalidations under way
\* are new to everybody, and a file at rest holds nothing that was refused.
Peace == troubles \subseteq {"overlap"}

Unrevoked ==
    /\ Quiet \/ generation_id \notin handed
    /\ \A r \in Requests :
          /\ pc[r] \in {"stored", "stamped", "opened", "dumped"} => data.gen \notin handed
          /\ pc[r] = "dumped" => dump[r].gen \notin handed
    /\ phase = "serving" /\ Quiet /\ Held(disk) => disk.gen = generation_id
    /\ phase \in {"serving", "saving generation"} => generation_id \notin refused
    /\ Quiet /\ disk.kind = "full" => disk.gen \notin refused

\* One invalidation at a time and no failing save: what it has done so far.
Mild == troubles \subseteq {"kill"}

Saving ==
    /\ phase = "serving" /\ Quiet => generation_id = data.gen /\ disk = data
    /\ \A q, r \in Requests : pc[q] \in Invalidating /\ pc[r] \in Invalidating => q = r
    /\ \A r \in Requests :
          /\ pc[r] \in {"stored", "stamped", "opened", "dumped"} => data.gen = generation_id
          /\ pc[r] \in {"opened", "dumped"} => disk = Empty
          /\ pc[r] = "dumped" => dump[r] = data

-----------------------------------------------------------------------------
\* The texts that are written are texts.
LEMMA TextsTyped ==
    /\ Absent \in Texts /\ Empty \in Texts /\ Bare \in Texts
    /\ \A old, new \in Texts : Over(old, new) \in Texts
    /\ \A n, m \in Nat, b \in BOOLEAN :
          [kind |-> "full", gen |-> n, stamp |-> m, long |-> b] \in Texts
BY DEF Absent, Empty, Bare, Over, Blank, Texts, Kinds

\* A process that is gone leaves typed variables behind.
LEMMA GoneTyped ==
    ASSUME TypeOK, Gone
    PROVE  /\ data' \in Texts /\ generation_id' \in Nat /\ phase' \in Phases
           /\ pc' \in [Requests -> PcStates] /\ token' \in [Requests -> Nat]
           /\ dump' \in [Requests -> Texts]
           /\ \A r \in Requests : pc'[r] = "idle"
<1>1. phase' \in Phases /\ pc' \in [Requests -> PcStates]
  BY DEF Gone, Phases, PcStates
<1>2. token' \in [Requests -> Nat] /\ dump' \in [Requests -> Texts] /\ data' \in Texts
  BY TextsTyped DEF Gone
<1>3. generation_id' \in Nat BY DEF Gone
<1>4. \A r \in Requests : pc'[r] = "idle" BY DEF Gone
<1>5. QED BY <1>1, <1>2, <1>3, <1>4

\* What has happened stays so.
LEMMA TroublesOnlyGrow ==
    ASSUME TypeOK, [Next]_vars
    PROVE  troubles \subseteq troubles' /\ troubles' \subseteq Troubles
<1>1. troubles \subseteq Troubles BY DEF TypeOK
<1>2. ASSUME NEW t \in Troubles, Trouble(t)
      PROVE  troubles \subseteq troubles' /\ troubles' \subseteq Troubles
  BY <1>1, <1>2 DEF Trouble
<1>3. troubles' = troubles \/ \E t \in Troubles : Trouble(t)
  <2>1. CASE Main
    <3>1. CASE OpenApps BY <3>1, Zenon DEF OpenApps, OpenFile, Troubles
    <3>2. CASE OpenGeneration BY <3>2 DEF OpenGeneration, OpenFile, Troubles
    <3>3. CASE CloseApps \/ CloseGeneration
      BY <3>3 DEF CloseApps, CloseGeneration, CloseFile, Troubles
    <3>4. CASE StartCreating \/ StartFromFile \/ StartRegistering
      BY <3>4 DEF StartCreating, StartFromFile, StartRegistering, Load, history
    <3>5. CASE Register \/ Interrupt \/ Serve \/ Stop
      BY <3>5 DEF Register, Interrupt, Serve, Stop, history
    <3>6. QED BY <2>1, <3>1, <3>2, <3>3, <3>4, <3>5 DEF Main
  <2>2. ASSUME NEW r \in Requests, Step(r)
        PROVE  troubles' = troubles \/ \E t \in Troubles : Trouble(t)
    BY <2>2 DEF Step, Present, Verify, Route, Draw, Store, Stamp, Open, Dump, Flush,
       history, Troubles
  <2>3. CASE Kill BY <2>3 DEF Kill, Troubles
  <2>4. CASE Expire \/ UNCHANGED vars BY <2>4 DEF Expire, history, vars
  <2>5. QED BY <2>1, <2>2, <2>3, <2>4 DEF Next
<1>4. QED BY <1>1, <1>2, <1>3

\* The steps of main.py keep the types.
LEMMA MainTyped == TypeOK /\ (Main \/ Kill \/ Expire) => TypeOK'
<1> SUFFICES ASSUME TypeOK, Main \/ Kill \/ Expire PROVE TypeOK' OBVIOUS
<1> USE ConstantsAssumption DEF TypeOK
<1>0. troubles' \subseteq Troubles BY TroublesOnlyGrow DEF Next
<1> USE <1>0
<1>1. ASSUME Gone, UNCHANGED <<disk, counters, clients, starts>> PROVE TypeOK'
  BY <1>0, <1>1, GoneTyped DEF counters, clients
<1>2. ASSUME Load, phase' \in Phases, generation_id' \in Nat PROVE TypeOK'
  BY <1>2 DEF Load, requests, counters, history, clients
<1>3. CASE StartCreating BY <1>2, <1>3 DEF StartCreating, Load, Phases, Creating
<1>4. CASE StartFromFile BY <1>2, <1>4 DEF StartFromFile, Load, Phases
<1>5. CASE StartRegistering
  BY <1>2, <1>5 DEF StartRegistering, Load, Phases, Texts
<1>6. CASE OpenApps
  <2>1. CASE Gone /\ UNCHANGED disk BY <1>1, <1>6, <2>1 DEF OpenApps
  <2>2. CASE /\ disk' = Empty /\ generation_id' = 0 /\ data' = Bare
             /\ phase' = "saving apps" /\ UNCHANGED requests
    BY <1>6, <2>2, TextsTyped DEF OpenApps, requests, counters, history, clients, Phases, Creating
  <2>3. QED BY <1>6, <2>1, <2>2 DEF OpenApps, OpenFile
<1>7. ASSUME NEW from, NEW to, CloseFile(from, to), to \in Phases PROVE TypeOK'
  BY <1>7 DEF CloseFile, memory, counters, history, clients
<1>8. CASE CloseApps BY <1>7, <1>8 DEF CloseApps, Phases, Creating
<1>9. CASE CloseGeneration BY <1>7, <1>9 DEF CloseGeneration, Phases
<1>10. CASE OpenGeneration
  <2>0. /\ drawn < MaxGenerations /\ drawn' = drawn + 1 /\ stamps' = stamps + 1
        /\ UNCHANGED <<horizon, clients, starts>>
    BY <1>10, Zenon DEF OpenGeneration
  <2>1. drawn' \in 0 .. MaxGenerations /\ drawn + 1 \in Nat BY <2>0
  <2>2. stamps + 1 \in Nat /\ horizon' \in 0 .. stamps' BY <2>0
  <2>3. CASE Gone /\ UNCHANGED disk
    BY <2>0, <2>1, <2>2, <2>3, GoneTyped DEF history, clients
  <2>4. CASE ~(Gone /\ UNCHANGED disk)
    <3>1. PICK long \in BOOLEAN :
            /\ disk' = Empty /\ generation_id' = drawn + 1
            /\ data' = [kind |-> "full", gen |-> drawn + 1, stamp |-> stamps + 1,
                        long |-> long]
            /\ phase' = "saving generation" /\ UNCHANGED requests
      BY <1>10, <2>4 DEF OpenGeneration, OpenFile
    <3>2. data' \in Texts /\ disk' \in Texts BY <2>1, <2>2, <3>1, TextsTyped
    <3>3. generation_id' \in Nat BY <2>1, <3>1
    <3>4. phase' \in Phases BY <3>1 DEF Phases, Creating
    <3>5. QED
      BY <2>0, <2>1, <2>2, <3>1, <3>2, <3>3, <3>4 DEF requests, history, clients
  <2>5. QED BY <2>3, <2>4
<1>11. CASE Register
  BY <1>11 DEF Register, memory, counters, Phases
<1>12. CASE Interrupt BY <1>1, <1>12 DEF Interrupt, history
<1>13. CASE Serve
  <2>1. CASE Gone BY <1>1, <1>13, <2>1 DEF Serve, history
  <2>2. CASE data.kind = "full" /\ phase' = "serving" /\ generation_id' = data.gen
             /\ UNCHANGED <<data, requests>>
    BY <1>13, <2>2 DEF Serve, requests, counters, history, clients, Phases, Texts
  <2>3. QED BY <1>13, <2>1, <2>2 DEF Serve
<1>14. CASE Stop BY <1>1, <1>14 DEF Stop, history
<1>15. CASE Kill BY <1>1, <1>15 DEF Kill
<1>16. CASE Expire
  BY <1>16 DEF Expire, memory, history, clients
<1>17. QED
  BY <1>3, <1>4, <1>5, <1>6, <1>8, <1>9, <1>10, <1>11, <1>12, <1>13, <1>14, <1>15, <1>16
  DEF Main

\* The steps of a request keep the types.
LEMMA StepTyped == ASSUME TypeOK, NEW r \in Requests, Step(r) PROVE TypeOK'
<1>0. troubles' \subseteq Troubles BY TroublesOnlyGrow DEF Next
<1> USE <1>0 DEF TypeOK, At, PcStates, Invalidating, counters, history, clients
<1>1. CASE Present(r)
  <2>1. PICK g \in handed : token' = [token EXCEPT ![r] = g] BY <1>1 DEF Present
  <2>2. token' \in [Requests -> Nat] BY <2>1
  <2>3. QED BY <1>1, <2>2 DEF Present
<1>2. CASE Verify(r)
  <2>1. token[r] \in handed /\ handed' = handed BY <1>2 DEF Verify
  <2>2. refused' = refused \/ refused' = refused \cup {token[r]} BY <1>2 DEF Verify
  <2>3. refused' \subseteq handed' BY <2>1, <2>2
  <2>4. token' = [token EXCEPT ![r] = 0] BY <1>2 DEF Verify
  <2>5. pc' = [pc EXCEPT ![r] = "idle"] \/ pc' = [pc EXCEPT ![r] = "admitted"]
    BY <1>2 DEF Verify
  <2>6. UNCHANGED <<disk, data, generation_id, phase, dump, counters, starts>>
    BY <1>2 DEF Verify
  <2>7. QED BY <2>1, <2>3, <2>4, <2>5, <2>6
<1>3. CASE Route(r) BY <1>3 DEF Route
<1>4. CASE Draw(r)
  <2>1. drawn' \in 0 .. MaxGenerations /\ generation_id' \in Nat
    BY <1>4, ConstantsAssumption DEF Draw
  <2>2. QED BY <1>4, <2>1 DEF Draw
<1>5. CASE Store(r) BY <1>5 DEF Store, Texts
<1>6. CASE Stamp(r)
  <2>1. stamps' \in Nat /\ horizon' \in 0 .. stamps' BY <1>6 DEF Stamp
  <2>2. PICK long \in BOOLEAN :
          data' = [data EXCEPT !.stamp = stamps + 1, !.long = long]
    BY <1>6 DEF Stamp
  <2>3. data' = [kind |-> data.kind, gen |-> data.gen, stamp |-> stamps + 1, long |-> long]
    BY <2>2 DEF Texts
  <2>4. data.kind \in Kinds /\ data.gen \in Nat BY DEF Texts
  <2>5. data' \in Texts BY <2>1, <2>3, <2>4, <1>6 DEF Texts, Stamp
  <2>6. QED BY <1>6, <2>1, <2>5 DEF Stamp
<1>7. CASE Open(r) BY <1>7, TextsTyped DEF Open
<1>8. CASE Dump(r) BY <1>8 DEF Dump
<1>9. CASE Flush(r)
  <2>1. disk' \in Texts BY <1>9, TextsTyped DEF Flush
  <2>2. QED BY <1>9, <2>1, TextsTyped DEF Flush
<1>10. QED BY <1>1, <1>2, <1>3, <1>4, <1>5, <1>6, <1>7, <1>8, <1>9 DEF Step

\* A process that is gone has no numbers, and main.py only passes them on.
LEMMA MainNumbered == TypeOK /\ Numbered /\ (Main \/ Kill \/ Expire) => Numbered'
<1> SUFFICES ASSUME TypeOK, Numbered, Main \/ Kill \/ Expire PROVE Numbered' OBVIOUS
<1> USE ConstantsAssumption DEF TypeOK, Numbered, counters, history, clients, requests
<1>1. Absent.gen = 0 /\ Empty.gen = 0 /\ Bare.gen = 0 BY DEF Absent, Empty, Bare, Blank
<1>2. ASSUME Gone, disk' = disk, handed' = handed, drawn' \in Nat, drawn' >= drawn
      PROVE  Numbered'
  <2>1. disk.gen \in Nat BY DEF Texts
  <2>2. handed' \subseteq 0 .. drawn' BY <1>2
  <2>3. QED BY <1>1, <1>2, <2>1, <2>2 DEF Gone
<1>3. CASE StartCreating BY <1>3 DEF StartCreating, Load
<1>4. CASE StartFromFile BY <1>4 DEF StartFromFile, Load
<1>5. CASE StartRegistering BY <1>5 DEF StartRegistering, Load
<1>6. CASE OpenApps
  <2>0. UNCHANGED <<counters, clients, starts>> BY <1>6, Zenon DEF OpenApps
  <2>1. CASE Gone /\ UNCHANGED disk
    <3>1. disk' = disk /\ handed' = handed /\ drawn' = drawn BY <2>0, <2>1
    <3>2. QED BY <1>2, <2>1, <3>1
  <2>2. CASE /\ disk' = Empty /\ generation_id' = 0 /\ data' = Bare
             /\ phase' = "saving apps" /\ UNCHANGED requests
    <3>1. handed' = handed /\ drawn' = drawn /\ dump' = dump BY <2>0, <2>2
    <3>2. disk'.gen = 0 /\ data'.gen = 0 BY <1>1, <2>2
    <3>3. generation_id' = 0 BY <2>2
    <3>4. drawn' \in Nat BY <3>1
    <3>5. \A r \in Requests : dump'[r].gen <= drawn' BY <3>1
    <3>6. handed' \subseteq 0 .. drawn' BY <3>1
    <3>7. QED BY <3>2, <3>3, <3>4, <3>5, <3>6
  <2>3. QED BY <1>6, <2>1, <2>2 DEF OpenApps, OpenFile
<1>7. CASE CloseApps BY <1>7 DEF CloseApps, CloseFile, memory
<1>8. CASE CloseGeneration BY <1>8 DEF CloseGeneration, CloseFile, memory
<1>9. CASE OpenGeneration
  <2>1. drawn' = drawn + 1 /\ handed' = handed BY <1>9, Zenon DEF OpenGeneration, history, clients
  <2>2. drawn' \in Nat /\ drawn' >= drawn BY <2>1
  <2>3. CASE Gone /\ UNCHANGED disk BY <1>2, <2>1, <2>2, <2>3
  <2>4. CASE ~(Gone /\ UNCHANGED disk)
    <3>1. PICK long \in BOOLEAN :
            /\ disk' = Empty /\ generation_id' = drawn + 1
            /\ data' = [kind |-> "full", gen |-> drawn + 1, stamp |-> stamps + 1,
                        long |-> long]
            /\ phase' = "saving generation" /\ UNCHANGED requests
      BY <1>9, <2>4 DEF OpenGeneration, OpenFile
    <3>2. disk'.gen <= drawn' /\ data'.gen <= drawn' /\ generation_id' <= drawn'
      <4>1. disk'.gen = 0 /\ data'.gen = drawn + 1 /\ generation_id' = drawn + 1
        BY <1>1, <3>1
      <4>2. QED BY <2>1, <2>2, <4>1
    <3>3. \A r \in Requests : dump'[r].gen <= drawn'
      <4>1. \A r \in Requests : dump[r].gen \in Nat BY DEF Texts
      <4>2. dump' = dump BY <3>1
      <4>3. QED BY <2>1, <2>2, <4>1, <4>2
    <3>4. handed' \subseteq 0 .. drawn' BY <2>1, <2>2
    <3>5. QED BY <3>2, <3>3, <3>4
  <2>5. QED BY <2>3, <2>4
<1>10. CASE Register BY <1>10 DEF Register, memory
<1>11. CASE Interrupt BY <1>2, <1>11 DEF Interrupt
<1>12. CASE Serve
  <2>1. CASE Gone BY <1>2, <1>12, <2>1 DEF Serve
  <2>2. CASE data.kind = "full" /\ phase' = "serving" /\ generation_id' = data.gen
             /\ UNCHANGED <<data, requests>>
    BY <1>12, <2>2 DEF Serve
  <2>3. QED BY <1>12, <2>1, <2>2 DEF Serve
<1>13. CASE Stop BY <1>2, <1>13 DEF Stop
<1>14. CASE Kill BY <1>2, <1>14 DEF Kill
<1>15. CASE Expire BY <1>15 DEF Expire, memory
<1>16. QED
  BY <1>3, <1>4, <1>5, <1>6, <1>7, <1>8, <1>9, <1>10, <1>11, <1>12, <1>13, <1>14, <1>15
  DEF Main

\* An invalidation draws an id of its own and passes it on.
LEMMA StepNumbered ==
    ASSUME TypeOK, Numbered, NEW r \in Requests, Step(r) PROVE Numbered'
<1> USE ConstantsAssumption DEF TypeOK, Numbered, counters, history, clients
<1>1. CASE Present(r) BY <1>1 DEF Present
<1>2. CASE Verify(r) BY <1>2 DEF Verify
<1>3. CASE Route(r) BY <1>3 DEF Route
<1>4. CASE Draw(r)
  <2>1. disk.gen \in Nat /\ data.gen \in Nat /\ \A q \in Requests : dump[q].gen \in Nat
    BY DEF Texts
  <2>2. handed' \subseteq 0 .. drawn' BY <1>4 DEF Draw
  <2>3. QED BY <1>4, <2>1, <2>2 DEF Draw
<1>5. CASE Store(r)
  <2>1. data'.gen = generation_id BY <1>5 DEF Store, Texts
  <2>2. QED BY <1>5, <2>1 DEF Store
<1>6. CASE Stamp(r)
  <2>1. data'.gen = data.gen BY <1>6 DEF Stamp, Texts
  <2>2. QED BY <1>6, <2>1 DEF Stamp
<1>7. CASE Open(r) BY <1>7 DEF Open, Empty, Blank
<1>8. CASE Dump(r) BY <1>8 DEF Dump
<1>9. CASE Flush(r)
  <2>1. Over(disk, dump[r]).gen <= drawn BY DEF Over, Blank
  <2>2. QED BY <1>9, <2>1 DEF Flush, Absent, Blank
<1>10. QED BY <1>1, <1>2, <1>3, <1>4, <1>5, <1>6, <1>7, <1>8, <1>9 DEF Step

\* main.py goes from stage to stage.
LEMMA MainStages == TypeOK /\ Stages /\ (Main \/ Kill \/ Expire) => Stages'
<1> SUFFICES ASSUME TypeOK, Stages, Main \/ Kill \/ Expire PROVE Stages' OBVIOUS
<1>0. troubles \subseteq troubles' BY TroublesOnlyGrow DEF Next
<1> USE <1>0 DEF Stages, Valid
<1>1. ASSUME Gone PROVE Stages' BY <1>1 DEF Gone
<1>2. \A r \in Requests : phase # "serving" => pc[r] = "idle" OBVIOUS
<1>3. CASE StartCreating BY <1>3 DEF StartCreating, Load, requests
<1>4. CASE StartFromFile BY <1>4 DEF StartFromFile, Load, requests
<1>5. CASE StartRegistering BY <1>5 DEF StartRegistering, Load, requests
<1>6. ASSUME NEW from \in Creating, NEW id, NEW content, NEW to,
             OpenFile(from, id, content, to), ~Gone,
             \/ to = "saving apps" /\ content = Bare
             \/ to = "saving generation" /\ content.kind = "full" /\ content.gen = id
      PROVE  Stages'
  <2>1. phase' = to /\ data' = content /\ generation_id' = id /\ disk' = Empty
        /\ pc' = pc
    BY <1>6 DEF OpenFile, requests
  <2>2. \A r \in Requests : pc'[r] = "idle" BY <1>6, <2>1 DEF OpenFile, Creating
  <2>3. Empty.kind # "bare" /\ Bare.kind = "bare" BY DEF Empty, Bare, Blank
  <2>4. CASE to = "saving apps" /\ content = Bare BY <2>1, <2>2, <2>3, <2>4
  <2>5. CASE to = "saving generation" /\ content.kind = "full" /\ content.gen = id
    BY <2>1, <2>2, <2>3, <2>5
  <2>6. QED BY <1>6, <2>4, <2>5
<1>7. CASE OpenApps
  <2>1. OpenFile("creating", 0, Bare, "saving apps") BY <1>7 DEF OpenApps
  <2>2. QED BY <1>1, <1>6, <2>1 DEF Creating
<1>8. CASE OpenGeneration
  <2>1. PICK long \in BOOLEAN :
          OpenFile("created", drawn + 1,
                   [kind |-> "full", gen |-> drawn + 1, stamp |-> stamps + 1, long |-> long],
                   "saving generation")
    BY <1>8 DEF OpenGeneration
  <2>2. QED BY <1>1, <1>6, <2>1 DEF Creating
<1>9. CASE CloseApps BY <1>9, <1>2 DEF CloseApps, CloseFile, memory, Trouble
<1>10. CASE CloseGeneration
  BY <1>10, <1>2 DEF CloseGeneration, CloseFile, memory, Trouble
<1>11. CASE Register BY <1>11, <1>2 DEF Register, memory
<1>12. CASE Interrupt BY <1>1, <1>12 DEF Interrupt
<1>13. CASE Serve
  <2>1. CASE Gone BY <1>1, <2>1
  <2>2. CASE data.kind = "full" /\ phase' = "serving" /\ UNCHANGED <<data, requests>>
    BY <1>13, <1>2, <2>2 DEF Serve, requests
  <2>3. QED BY <1>13, <2>1, <2>2 DEF Serve
<1>14. CASE Stop BY <1>1, <1>14 DEF Stop
<1>15. CASE Kill BY <1>1, <1>15 DEF Kill
<1>16. CASE Expire BY <1>16 DEF Expire, memory
<1>17. QED
  BY <1>3, <1>4, <1>5, <1>7, <1>8, <1>9, <1>10, <1>11, <1>12, <1>13, <1>14, <1>15, <1>16
  DEF Main

\* The requests run while the server does, and save full data only.
LEMMA StepStages == ASSUME TypeOK, Stages, NEW r \in Requests, Step(r) PROVE Stages'
<1> USE DEF Stages, TypeOK, At, Valid
<1>1. phase = "serving" /\ phase' = "serving"
  BY DEF Step, Present, Verify, Route, Draw, Store, Stamp, Open, Dump, Flush
<1>2. data.kind = "full" /\ disk.kind # "bare" BY <1>1
<1>3. ASSUME data' = data, disk' = disk, dump' = dump,
             pc' \in [Requests -> PcStates],
             \A q \in Requests : pc'[q] = "dumped" => pc[q] = "dumped"
      PROVE  Stages'
  BY <1>1, <1>2, <1>3
<1>4. CASE Present(r) BY <1>3, <1>4, StepTyped DEF Present
<1>5. CASE Verify(r) BY <1>3, <1>5, StepTyped DEF Verify
<1>6. CASE Route(r) BY <1>3, <1>6, StepTyped DEF Route
<1>7. CASE Draw(r) BY <1>3, <1>7, StepTyped DEF Draw
<1>8. CASE Store(r)
  <2>1. data'.kind = data.kind BY <1>8 DEF Store, Texts
  <2>2. QED BY <1>1, <1>2, <1>8, <2>1 DEF Store
<1>9. CASE Stamp(r)
  <2>1. data'.kind = data.kind BY <1>9 DEF Stamp, Texts
  <2>2. QED BY <1>1, <1>2, <1>9, <2>1 DEF Stamp
<1>10. CASE Open(r) BY <1>1, <1>2, <1>10 DEF Open, Empty, Blank
<1>11. CASE Dump(r) BY <1>1, <1>2, <1>11 DEF Dump
<1>12. CASE Flush(r)
  <2>1. Over(disk, dump[r]).kind # "bare" BY <1>12 DEF Flush, Over, Blank
  <2>2. QED BY <1>1, <1>2, <1>12, <2>1 DEF Flush
<1>13. QED
  BY <1>4, <1>5, <1>6, <1>7, <1>8, <1>9, <1>10, <1>11, <1>12 DEF Step

\* The next id is new to every client.
LEMMA NextIdIsNew == TypeOK /\ Numbered => drawn + 1 \notin handed
<1> SUFFICES ASSUME TypeOK, Numbered PROVE drawn + 1 \notin handed OBVIOUS
<1>1. handed \subseteq 0 .. drawn BY DEF Numbered
<1>2. drawn \in Nat BY ConstantsAssumption DEF TypeOK
<1>3. drawn + 1 \notin 0 .. drawn BY <1>2
<1>4. QED BY <1>1, <1>3

\* In peace main.py serves what is in the file, which was not refused.
LEMMA MainUnrevoked ==
    Peace' /\ Inv /\ Unrevoked /\ (Main \/ Kill \/ Expire) => Unrevoked'
<1> SUFFICES ASSUME Peace', Inv, Unrevoked, Main \/ Kill \/ Expire
             PROVE  Unrevoked'
  OBVIOUS
<1>0. ~Trouble("save") /\ ~Trouble("kill") BY DEF Peace, Trouble
<1> USE ConstantsAssumption
    DEF Inv, TypeOK, Unrevoked, Stages, Held, Valid, Quiet, Invalidating,
        requests, counters, history, clients
<1>1. phase # "serving" => Quiet OBVIOUS
<1>2. ASSUME Gone, disk' = disk, handed' = handed, refused' = refused, Quiet
      PROVE  Unrevoked'
  BY <1>2 DEF Gone
<1>3. CASE StartCreating BY <1>1, <1>3 DEF StartCreating, Load
<1>4. CASE StartFromFile BY <1>1, <1>4 DEF StartFromFile, Load
<1>5. CASE StartRegistering BY <1>1, <1>5 DEF StartRegistering, Load
<1>6. CASE OpenApps
  <2>1. /\ phase = "creating" /\ phase' = "saving apps" /\ disk' = Empty
        /\ UNCHANGED requests
    BY <1>0, <1>6 DEF OpenApps, OpenFile
  <2>2. handed' = handed /\ refused' = refused BY <1>6, Zenon DEF OpenApps, history, clients
  <2>3. disk'.kind # "full" BY <2>1 DEF Empty, Blank
  <2>4. \A r \in Requests : pc'[r] = "idle" BY <2>1
  <2>5. QED BY <2>1, <2>2, <2>3, <2>4
<1>7. CASE OpenGeneration
  <2>1. PICK long \in BOOLEAN :
          OpenFile("created", drawn + 1,
                   [kind |-> "full", gen |-> drawn + 1, stamp |-> stamps + 1, long |-> long],
                   "saving generation")
    BY <1>7 DEF OpenGeneration
  <2>2. /\ phase = "created" /\ phase' = "saving generation" /\ disk' = Empty
        /\ generation_id' = drawn + 1 /\ UNCHANGED requests
    BY <1>0, <2>1 DEF OpenFile
  <2>3. handed' = handed /\ refused' = refused BY <1>7, Zenon DEF OpenGeneration, history, clients
  <2>4. generation_id' \notin handed BY <2>2, NextIdIsNew
  <2>5. disk'.kind # "full" BY <2>2 DEF Empty, Blank
  <2>6. \A r \in Requests : pc'[r] = "idle" BY <2>2
  <2>7. generation_id' \notin refused' BY <2>3, <2>4
  <2>8. QED BY <2>2, <2>3, <2>5, <2>6, <2>7
<1>8. CASE CloseApps
  <2>1. phase = "saving apps" /\ phase' = "created" /\ disk' = data
        /\ data.kind # "full" /\ pc' = pc /\ handed' = handed /\ refused' = refused
    BY <1>0, <1>8 DEF CloseApps, CloseFile, memory
  <2>2. QED BY <2>1, <1>1
<1>9. CASE CloseGeneration
  <2>1. phase = "saving generation" /\ phase' = "prompting" /\ disk' = data
        /\ data.gen = generation_id /\ pc' = pc /\ handed' = handed /\ refused' = refused
    BY <1>0, <1>9 DEF CloseGeneration, CloseFile, memory
  <2>2. QED BY <2>1, <1>1
<1>10. CASE Register BY <1>1, <1>10 DEF Register, memory
<1>11. CASE Interrupt BY <1>1, <1>2, <1>11 DEF Interrupt
<1>12. CASE Serve
  <2>1. CASE Gone BY <1>1, <1>2, <1>12, <2>1 DEF Serve
  <2>2. CASE data.kind = "full" /\ phase' = "serving" /\ generation_id' = data.gen
             /\ UNCHANGED <<data, requests>>
    <3>1. phase = "starting" /\ disk = data /\ disk' = disk /\ pc' = pc
          /\ handed' = handed /\ refused' = refused
      BY <1>12, <2>2 DEF Serve, Peace
    <3>2. disk.gen \notin refused BY <1>1, <2>2, <3>1
    <3>3. QED BY <1>1, <2>2, <3>1, <3>2
  <2>3. QED BY <1>12, <2>1, <2>2 DEF Serve
<1>13. CASE Stop
  <2>1. Quiet BY <1>13 DEF Stop
  <2>2. QED BY <1>2, <1>13, <2>1 DEF Stop
<1>14. CASE Kill BY <1>0, <1>14 DEF Kill
<1>15. CASE Expire BY <1>15 DEF Expire, memory
<1>16. QED
  BY <1>3, <1>4, <1>5, <1>6, <1>7, <1>8, <1>9, <1>10, <1>11, <1>12, <1>13, <1>14, <1>15
  DEF Main

\* In peace every invalidation leaves a file that nobody was refused.
LEMMA StepUnrevoked ==
    ASSUME Peace', Inv, Unrevoked, NEW r \in Requests, Step(r)
    PROVE  Unrevoked'
<1> USE DEF Inv, TypeOK, Unrevoked, Held, Quiet, Invalidating, At, history, clients
<1>0. ~Trouble("save") BY DEF Peace, Trouble
<1>1. phase = "serving" /\ phase' = "serving"
  BY DEF Stages, Step, Present, Verify, Route, Draw, Store, Stamp, Open, Dump, Flush
<1>2. handed' = handed
  BY DEF Step, Present, Verify, Route, Draw, Store, Stamp, Open, Dump, Flush
<1>3. CASE Present(r) BY <1>1, <1>3 DEF Present
<1>4. CASE Verify(r)
  <2>1. /\ UNCHANGED <<disk, data, generation_id, dump>>
        /\ pc[r] = "presented" /\ token[r] \in handed
    BY <1>4 DEF Verify
  <2>2. pc' = [pc EXCEPT ![r] = "idle"] \/ pc' = [pc EXCEPT ![r] = "admitted"]
    BY <1>4 DEF Verify
  <2>3. \A q \in Requests : pc'[q] \in Invalidating \/ pc[q] \in Invalidating
                               => pc'[q] = pc[q]
    BY <2>1, <2>2
  <2>4. Quiet' <=> Quiet BY <2>3
  <2>5. \/ refused' = refused
        \/ refused' = refused \cup {token[r]} /\ token[r] # generation_id
    BY <1>4 DEF Verify
  <2>6. generation_id' \notin refused' BY <1>1, <2>1, <2>5
  <2>7. Quiet /\ disk.kind = "full" => disk.gen \notin refused'
    BY <1>1, <2>1, <2>5
  <2>8. QED BY <1>1, <1>2, <2>1, <2>3, <2>4, <2>6, <2>7
<1>5. CASE Route(r) BY <1>1, <1>5 DEF Route
<1>6. CASE Draw(r)
  <2>1. generation_id' \notin handed BY <1>6, NextIdIsNew DEF Draw
  <2>2. refused' = refused /\ refused \subseteq handed BY <1>6 DEF Draw
  <2>3. pc' = [pc EXCEPT ![r] = "drawn"] /\ UNCHANGED <<data, dump>> BY <1>6 DEF Draw
  <2>4. ~Quiet' BY <2>3
  <2>5. QED BY <1>1, <1>2, <2>1, <2>2, <2>3, <2>4
<1>7. CASE Store(r)
  <2>1. data'.gen = generation_id BY <1>7 DEF Store, Texts
  <2>2. generation_id \notin handed BY <1>7 DEF Store
  <2>3. ~Quiet' BY <1>7 DEF Store
  <2>4. QED BY <1>1, <1>7, <2>1, <2>2, <2>3 DEF Store
<1>8. CASE Stamp(r)
  <2>1. data'.gen = data.gen BY <1>8 DEF Stamp, Texts
  <2>2. ~Quiet' BY <1>8 DEF Stamp
  <2>3. QED BY <1>1, <1>8, <2>1, <2>2 DEF Stamp
<1>9. CASE Open(r)
  <2>1. disk' = Empty /\ pc' = [pc EXCEPT ![r] = "opened"] BY <1>0, <1>9 DEF Open
  <2>2. ~Quiet' BY <2>1
  <2>3. QED BY <1>1, <1>9, <2>1, <2>2 DEF Open
<1>10. CASE Dump(r)
  <2>1. ~Quiet' BY <1>10 DEF Dump
  <2>2. QED BY <1>1, <1>10, <2>1 DEF Dump
<1>11. CASE Flush(r)
  <2>1. disk' = Over(disk, dump[r]) BY <1>0, <1>11 DEF Flush
  <2>2. dump[r].gen \notin handed /\ ~Quiet BY <1>11 DEF Flush
  <2>3. disk'.kind = "full" => disk'.gen \notin handed BY <2>1, <2>2 DEF Over, Blank
  <2>4. refused' = refused /\ refused \subseteq handed BY <1>11 DEF Flush
  <2>5. QED BY <1>1, <1>2, <1>11, <2>2, <2>3, <2>4 DEF Flush
<1>12. QED
  BY <1>3, <1>4, <1>5, <1>6, <1>7, <1>8, <1>9, <1>10, <1>11 DEF Step

-----------------------------------------------------------------------------
\* The program starts with nothing.
LEMMA InitInv == Init => Inv /\ Unrevoked
<1> SUFFICES ASSUME Init PROVE Inv /\ Unrevoked OBVIOUS
<1> USE DEF Init
<1>1. TypeOK BY TextsTyped, ConstantsAssumption DEF TypeOK, Phases, PcStates
<1>2. Numbered BY DEF Numbered, Absent, Blank
<1>3. Stages BY DEF Stages
<1>4. Unrevoked BY DEF Unrevoked, Quiet, Invalidating, Held, Absent, Blank
<1>5. QED BY <1>1, <1>2, <1>3, <1>4 DEF Inv

\* Every step keeps the invariant, whatever fails.
LEMMA StepInv == Inv /\ [Next]_vars => Inv'
<1> SUFFICES ASSUME Inv, [Next]_vars PROVE Inv' OBVIOUS
<1>1. CASE Main \/ Kill \/ Expire
  BY <1>1, MainTyped, MainNumbered, MainStages DEF Inv
<1>2. ASSUME NEW r \in Requests, Step(r) PROVE Inv'
  BY <1>2, StepTyped, StepNumbered, StepStages DEF Inv
<1>3. CASE UNCHANGED vars
  BY <1>3 DEF vars, Inv, TypeOK, Numbered, Stages, Valid
<1>4. QED BY <1>1, <1>2, <1>3 DEF Next

\* The invariant holds of every behaviour.
THEOREM Invariance == Spec => []Inv
<1>1. QED BY InitInv, StepInv, PTL DEF Spec

\* Without faults no text at rest holds a generation that was refused.
THEOREM NothingRevived == Spec => [](Peace => Unrevoked)
<1>1. Inv /\ (Peace => Unrevoked) /\ [Next]_vars => (Peace => Unrevoked)'
  <2> SUFFICES ASSUME Inv, Peace => Unrevoked, [Next]_vars, Peace' PROVE Unrevoked'
    OBVIOUS
  <2>1. Unrevoked BY TroublesOnlyGrow DEF Inv, Peace
  <2>2. CASE Main \/ Kill \/ Expire BY <2>1, <2>2, MainUnrevoked
  <2>3. ASSUME NEW r \in Requests, Step(r) PROVE Unrevoked' BY <2>1, <2>3, StepUnrevoked
  <2>4. CASE UNCHANGED vars BY <2>1, <2>4 DEF vars, Unrevoked, Held, Quiet
  <2>5. QED BY <2>2, <2>3, <2>4 DEF Next
<1>2. Init => (Peace => Unrevoked) BY InitInv
<1>3. QED BY <1>1, <1>2, Invariance, PTL DEF Spec

\* The state variables keep their types.
THEOREM TypeCorrect == Spec => []TypeOK
<1>1. Inv => TypeOK BY DEF Inv
<1>2. QED BY <1>1, Invariance, PTL

\* The tokens of a registration open the service that starts after it.
THEOREM RegistrationLasts == Spec => []RegistrationIsKept
<1>1. Inv => RegistrationIsKept BY DEF Inv, Stages, RegistrationIsKept
<1>2. QED BY <1>1, Invariance, PTL

\* A file without a generation is neither registered with nor served.
THEOREM BareStaysOff == Spec => []BareIsNotServed
<1>1. Inv => BareIsNotServed BY DEF Inv, Stages, BareIsNotServed
<1>2. QED BY <1>1, Invariance, PTL

\* Unless a process died or a save failed a refused generation stays refused,
\* restarts and overlapping invalidations included.
THEOREM OldTokensStayOld == Spec => []OldStaysOld
<1>1. (Peace => Unrevoked) => OldStaysOld
  BY DEF Peace, Unrevoked, OldStaysOld, RefusedForEver
<1>2. QED BY <1>1, NothingRevived, PTL

\* An invalidation without rival or failure ends with the file as the data.
LEMMA StepSaving ==
    ASSUME Mild', Inv, Saving, NEW r \in Requests, Step(r)
    PROVE  Saving'
<1> USE DEF Inv, TypeOK, Saving, Quiet, Invalidating, At
<1>0. ~Trouble("save") BY DEF Mild, Trouble
<1>1. phase = "serving" /\ phase' = "serving"
  BY DEF Stages, Step, Present, Verify, Route, Draw, Store, Stamp, Open, Dump, Flush
<1>2. CASE Present(r) BY <1>1, <1>2 DEF Present
<1>3. CASE Verify(r) BY <1>1, <1>3 DEF Verify
<1>4. CASE Route(r) BY <1>1, <1>4 DEF Route
<1>5. CASE Draw(r)
  <2>1. Quiet BY <1>5 DEF Draw, Mild, Trouble
  <2>2. pc' = [pc EXCEPT ![r] = "drawn"] BY <1>5 DEF Draw
  <2>3. \A q \in Requests : pc'[q] \in Invalidating => q = r BY <2>1, <2>2
  <2>4. QED BY <1>1, <2>2, <2>3
<1>6. CASE Store(r)
  <2>1. data'.gen = generation_id BY <1>6 DEF Store, Texts
  <2>2. pc' = [pc EXCEPT ![r] = "stored"] BY <1>6 DEF Store
  <2>3. \A q \in Requests : pc'[q] \in Invalidating => q = r BY <1>6, <2>2 DEF Store
  <2>4. QED BY <1>1, <1>6, <2>1, <2>2, <2>3 DEF Store
<1>7. CASE Stamp(r)
  <2>1. data'.gen = data.gen BY <1>7 DEF Stamp, Texts
  <2>2. pc' = [pc EXCEPT ![r] = "stamped"] BY <1>7 DEF Stamp
  <2>3. \A q \in Requests : pc'[q] \in Invalidating => q = r BY <1>7, <2>2 DEF Stamp
  <2>4. QED BY <1>1, <1>7, <2>1, <2>2, <2>3 DEF Stamp
<1>8. CASE Open(r)
  <2>1. pc' = [pc EXCEPT ![r] = "opened"] /\ disk' = Empty BY <1>0, <1>8 DEF Open
  <2>2. \A q \in Requests : pc'[q] \in Invalidating => q = r BY <1>8, <2>1 DEF Open
  <2>3. QED BY <1>1, <1>8, <2>1, <2>2 DEF Open
<1>9. CASE Dump(r)
  <2>1. pc' = [pc EXCEPT ![r] = "dumped"] BY <1>9 DEF Dump
  <2>2. \A q \in Requests : pc'[q] \in Invalidating => q = r BY <1>9, <2>1 DEF Dump
  <2>3. QED BY <1>1, <1>9, <2>1, <2>2 DEF Dump
<1>10. CASE Flush(r)
  <2>1. pc' = [pc EXCEPT ![r] = "idle"] /\ disk' = Over(disk, dump[r]) BY <1>0, <1>10 DEF Flush
  <2>2. disk = Empty /\ dump[r] = data /\ data.gen = generation_id BY <1>0, <1>10 DEF Flush
  <2>3. disk' = data BY <2>1, <2>2 DEF Over, Empty, Blank
  <2>4. \A q \in Requests : pc'[q] \notin Invalidating BY <1>10, <2>1 DEF Flush
  <2>5. QED BY <1>1, <1>10, <2>2, <2>3, <2>4 DEF Flush
<1>11. QED
  BY <1>2, <1>3, <1>4, <1>5, <1>6, <1>7, <1>8, <1>9, <1>10 DEF Step

\* Where invalidations do not overlap and saves do not fail, memory and file
\* agree between them, although the process may die at any moment.
THEOREM QuietServiceIsSaved == Spec => []QuietIsSaved
<1>1. Init => Saving BY DEF Init, Saving, Quiet, Invalidating
<1>2. Inv /\ (Mild => Saving) /\ [Next]_vars => (Mild => Saving)'
  <2> SUFFICES ASSUME Inv, Mild => Saving, [Next]_vars, Mild' PROVE Saving'
    OBVIOUS
  <2>0. Saving BY TroublesOnlyGrow DEF Inv, Mild
  <2> USE <2>0 DEF Inv, Saving, Quiet, Invalidating
  <2>1. ASSUME \A r \in Requests : pc'[r] = "idle", phase' # "serving" PROVE Saving'
    BY <2>1
  <2>2. CASE Gone BY <2>1, <2>2 DEF Gone
  <2>3. CASE Main /\ ~Gone
    <3>1. CASE Serve
      <4>1. /\ data.kind = "full" /\ phase' = "serving" /\ generation_id' = data.gen
            /\ UNCHANGED <<data, requests, disk>>
        BY <2>3, <3>1 DEF Serve
      <4>2. disk = data /\ \A r \in Requests : pc[r] = "idle"
        BY <3>1 DEF Serve, Stages, Mild, history
      <4>3. QED BY <4>1, <4>2 DEF requests
    <3>2. CASE ~Serve
      <4>1. phase # "serving" /\ phase' # "serving" /\ pc' = pc
        BY <2>3, <3>2 DEF Main, StartCreating, StartFromFile, StartRegistering, Load,
           OpenApps, OpenGeneration, OpenFile, CloseApps, CloseGeneration, CloseFile,
           Register, Interrupt, Stop, requests, memory
      <4>2. QED BY <2>1, <4>1 DEF Stages
    <3>3. QED BY <3>1, <3>2
  <2>4. ASSUME NEW r \in Requests, Step(r) PROVE Saving' BY <2>4, StepSaving
  <2>5. CASE Kill BY <2>2, <2>5 DEF Kill
  <2>6. CASE Expire BY <2>6 DEF Expire, memory
  <2>7. CASE UNCHANGED vars BY <2>7 DEF vars
  <2>8. QED BY <2>2, <2>3, <2>4, <2>5, <2>6, <2>7 DEF Next
<1>3. (Mild => Saving) => QuietIsSaved BY DEF Saving, Mild, QuietIsSaved
<1>4. QED BY <1>1, <1>2, <1>3, Invariance, PTL DEF Spec

\* The process may go without unlocking anything.
LEMMA LockedWhenGone ==
    ASSUME TypeOK, Locked, Gone, disk' = disk, horizon' = horizon
    PROVE  Locked'
<1>1. horizon \in Nat BY DEF TypeOK
<1>2. data'.stamp = 0 BY DEF Gone, Absent, Blank
<1>3. ~(data'.stamp > horizon') BY <1>1, <1>2
<1>4. phase' = "off" /\ \A r \in Requests : pc'[r] = "idle" BY DEF Gone
<1>5. QED BY <1>3, <1>4 DEF Locked, Fresh, Creating

\* Time unlocks nothing.
LEMMA LockedForLater == ASSUME TypeOK, Locked, Expire PROVE Locked'
<1>1. UNCHANGED <<disk, data, phase, pc>> BY DEF Expire, memory
<1>2. horizon \in Nat /\ stamps \in Nat BY DEF TypeOK
<1>3. horizon' \in Nat /\ horizon' > horizon BY <1>2 DEF Expire
<1>4. disk.stamp \in Nat /\ data.stamp \in Nat BY DEF TypeOK, Texts
<1>5. QED BY <1>1, <1>2, <1>3, <1>4 DEF Locked, Fresh

\* After the expiry only a new configuration lets anybody in, whatever fails.
THEOREM ExpiryIsFinal == Spec => LockedUntilCreated
<1>1. ASSUME Inv, [Next]_vars, Locked PROVE Locked' \/ phase' = "creating"
  <2> USE <1>1 DEF Inv, TypeOK, Locked, Fresh, Creating
  <2>1. Gone /\ disk' = disk /\ horizon' = horizon => Locked' BY LockedWhenGone
  <2>2. CASE Main
    <3>1. ~OpenApps /\ ~OpenGeneration /\ ~CloseApps /\ ~CloseGeneration
      BY DEF OpenApps, OpenGeneration, CloseApps, CloseGeneration, OpenFile, CloseFile
    <3>2. CASE StartCreating BY <3>2 DEF StartCreating
    <3>3. CASE StartFromFile
      BY <3>3 DEF StartFromFile, Load, requests, counters
    <3>4. CASE StartRegistering
      BY <3>4 DEF StartRegistering, Load, requests, counters
    <3>5. CASE Register BY <3>5 DEF Register, memory, counters
    <3>6. CASE Interrupt BY <2>1, <3>6 DEF Interrupt, counters
    <3>7. CASE Serve BY <2>1, <3>7 DEF Serve, requests, counters
    <3>8. CASE Stop BY <2>1, <3>8 DEF Stop, counters
    <3>9. QED BY <2>2, <3>1, <3>2, <3>3, <3>4, <3>5, <3>6, <3>7, <3>8 DEF Main
  <2>3. ASSUME NEW r \in Requests, Step(r) PROVE FALSE
    BY <2>3 DEF Step, Present, Verify, Route, Draw, Store, Stamp, Open, Dump, Flush
  <2>4. CASE Kill BY <2>1, <2>4 DEF Kill, counters
  <2>5. CASE Expire BY <2>5, LockedForLater
  <2>6. CASE UNCHANGED vars BY <2>6 DEF vars
  <2>7. QED BY <2>2, <2>3, <2>4, <2>5, <2>6 DEF Next
<1>2. Inv /\ [Next]_vars => [Locked => Locked' \/ phase' = "creating"]_vars
  BY <1>1
<1>3. QED BY <1>2, Invariance, PTL DEF Spec, LockedUntilCreated
=============================================================================
