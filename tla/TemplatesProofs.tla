---------------------------- MODULE TemplatesProofs ----------------------------
(***************************************************************************)
(* Theorems about the readers of AssetService and the requests for HTML    *)
(* templates, for any files of each kind and any number of requests.       *)
(***************************************************************************)
EXTENDS Templates, TLAPS

\* The constructors of the first n files of a kind do not raise.
SoundUpTo(k, n) == \A h \in 1 .. n : Constructs(k, Files[k][h])

\* What a reader has read is what stands before its position, and it stops at
\* a file that raises or after the last one.
Reading ==
    \A k \in DOMAIN Files :
       /\ pos[k] <= Len(Files[k])
       /\ values[k] = {Files[k][i] : i \in 1 .. pos[k]}
       /\ SoundUpTo(k, pos[k])
       /\ reader[k] = "ended" => pos[k] = Len(Files[k])
       /\ reader[k] = "dead" =>
            pos[k] < Len(Files[k]) /\ ~Constructs(k, Files[k][pos[k] + 1])

\* Of a reader that was joined everything it has read is served.
Joined ==
    \A i \in 1 .. joined :
       reader[Kinds[i]] # "running" /\ served[Kinds[i]] = values[Kinds[i]]

\* A request meets the complete templates; one that uses a validator has found
\* its template there, and the validator has somebody's document.
Stages ==
    \A r \in Requests :
       /\ pc[r] # "idle" => joined = Len(Kinds)
       /\ pc[r] \notin {"idle", "answered"} => may[r] /\ doc[r] # "separator"
       /\ pc[r] \in {"found"} \cup Using => asks[r] \in served["html"]
       /\ pc[r] \in Using => /\ asks[r] \in Validated /\ document[asks[r]] \in Requests
       /\ pc[r] # "answered" => blamed[r] = {}

\* What a request reads in the validator it has to itself.
Alone ==
    /\ \A r, q \in Requests :
         r # q /\ pc[r] \in Using /\ pc[q] \in Using /\ asks[r] = asks[q] => met[r]
    /\ \A r \in Requests : ~met[r] /\ pc[r] \in Using =>
         /\ document[asks[r]] = r
         /\ errors[asks[r]] = IF pc[r] # "validating" /\ doc[r] = "invalid" THEN {r} ELSE {}
         /\ pc[r] = "refused" => doc[r] = "invalid"

\* The inductive invariant.
Inv == TypeOK /\ Reading /\ Joined /\ Stages /\ Alone /\ AloneIsJudgedRight

\* The four kinds of templates.
LEMMA KindsAre ==
    /\ Len(Kinds) = 4 /\ DOMAIN Kinds = 1 .. 4
    /\ DOMAIN Files = {"html", "pdf", "sms", "phone"}
    /\ \A k \in DOMAIN Files : \E i \in 1 .. 4 : Kinds[i] = k
    /\ \A i \in 1 .. 4 : Kinds[i] \in DOMAIN Files
    /\ \A i, j \in 1 .. 4 : Kinds[i] = Kinds[j] => i = j
<1>1. Len(Kinds) = 4 /\ DOMAIN Kinds = 1 .. 4 BY DEF Kinds
<1>2. /\ Kinds[1] = "html" /\ Kinds[2] = "pdf" /\ Kinds[3] = "sms" /\ Kinds[4] = "phone"
  BY DEF Kinds
<1>3. DOMAIN Files = {Kinds[i] : i \in 1 .. 4} BY <1>1, ConstantsAssumption DEF Elements
<1>4. \A i \in 1 .. 4 : i = 1 \/ i = 2 \/ i = 3 \/ i = 4 OBVIOUS
<1>5. 1 \in 1 .. 4 /\ 2 \in 1 .. 4 /\ 3 \in 1 .. 4 /\ 4 \in 1 .. 4 OBVIOUS
<1>6. DOMAIN Files = {"html", "pdf", "sms", "phone"}
  <2>1. ASSUME NEW k \in DOMAIN Files PROVE k \in {"html", "pdf", "sms", "phone"}
    BY <1>2, <1>3, <1>4
  <2>2. {"html", "pdf", "sms", "phone"} \subseteq DOMAIN Files BY <1>2, <1>3, <1>5
  <2>3. QED BY <2>1, <2>2
<1>7. \A i, j \in 1 .. 4 : Kinds[i] = Kinds[j] => i = j BY <1>2, <1>4
<1>8. QED BY <1>1, <1>3, <1>6, <1>7

\* The files of a kind are a finite sequence.
LEMMA FilesAre ==
    ASSUME NEW k \in DOMAIN Files
    PROVE  /\ Len(Files[k]) \in Nat /\ DOMAIN Files[k] = 1 .. Len(Files[k])
           /\ \A i \in 1 .. Len(Files[k]) : Files[k][i] \in Elements(Files[k])
           /\ Elements(Files[k]) \subseteq AllFiles
<1>1. Files[k] \in Seq(Elements(Files[k])) BY ConstantsAssumption
<1>2. Elements(Files[k]) \subseteq AllFiles BY DEF AllFiles
<1>3. QED BY <1>1, <1>2

\* Initially nothing was read.
LEMMA InitInv == Init => Inv
<1> SUFFICES ASSUME Init PROVE Inv OBVIOUS
<1> USE DEF Init
<1>1. 0 \in 0 .. Len(Kinds) BY KindsAre
<1>2. TypeOK BY <1>1 DEF TypeOK
<1>3. Reading BY FilesAre DEF Reading, SoundUpTo
<1>4. Joined BY DEF Joined
<1>5. Stages BY DEF Stages, Using
<1>6. Alone BY DEF Alone, Using
<1>7. AloneIsJudgedRight BY DEF AloneIsJudgedRight
<1>8. QED BY <1>2, <1>3, <1>4, <1>5, <1>6, <1>7 DEF Inv

-----------------------------------------------------------------------------
(* The readers                                                             *)

\* What steps of the build do not touch.
LEMMA RequestsWait ==
    ASSUME Inv, joined < Len(Kinds),
           UNCHANGED <<pc, input, document, errors, answer, met>>
    PROVE  Stages' /\ Alone' /\ AloneIsJudgedRight'
<1>1. UNCHANGED <<pc, asks, doc, may, document, errors, status, blamed, met>>
  BY DEF input, answer
<1>2. \A r \in Requests : pc[r] = "idle"
  <2>1. joined # Len(Kinds) BY KindsAre DEF Inv, TypeOK
  <2>2. QED BY <2>1 DEF Inv, Stages
<1>3. Stages' BY <1>1, <1>2 DEF Inv, Stages, Using
<1>4. Alone' BY <1>1, <1>2 DEF Alone, Using
<1>5. AloneIsJudgedRight' BY <1>1, <1>2 DEF AloneIsJudgedRight
<1>6. QED BY <1>3, <1>4, <1>5

\* Steps of a reader leave what is served and the requests alone.
LEMMA RequestsGoOn ==
    ASSUME Inv, UNCHANGED <<joined, served, pc, input, document, errors, answer, met>>
    PROVE  Stages' /\ Alone' /\ AloneIsJudgedRight'
<1>1. UNCHANGED <<joined, served, pc, asks, doc, may, document, errors, status, blamed, met>>
  BY DEF input, answer
<1>2. Stages' BY <1>1 DEF Inv, Stages
<1>3. Alone' BY <1>1 DEF Inv, Alone
<1>4. AloneIsJudgedRight' BY <1>1 DEF Inv, AloneIsJudgedRight
<1>5. QED BY <1>2, <1>3, <1>4

\* ReadFile: one more file, or the end at this one.
LEMMA ReadFileInv == ASSUME Inv, NEW k \in DOMAIN Files, ReadFile(k) PROVE Inv'
<1> DEFINE f == Files[k][pos[k] + 1]
<1>1. /\ reader[k] = "running" /\ pos[k] < Len(Files[k])
      /\ UNCHANGED <<joined, served, pc, input, document, errors, answer, met>>
  BY DEF ReadFile
<1>2. /\ pos \in [DOMAIN Files -> Nat] /\ joined \in 0 .. Len(Kinds)
      /\ reader \in [DOMAIN Files -> {"running", "ended", "dead"}]
      /\ values \in [DOMAIN Files -> SUBSET AllFiles]
  BY DEF Inv, TypeOK
<1>3. Stages' /\ Alone' /\ AloneIsJudgedRight' BY <1>1, RequestsGoOn
<1>4. UNCHANGED <<joined, served, pc, asks, doc, may, document, errors, status, blamed, met>>
  BY <1>1 DEF input, answer
<1>5. /\ pos[k] \in Nat /\ pos[k] + 1 \in 1 .. Len(Files[k])
      /\ f \in AllFiles /\ f \in Elements(Files[k])
  <2>1. pos[k] + 1 \in 1 .. Len(Files[k]) BY <1>1, <1>2, FilesAre
  <2>2. QED BY <1>2, <2>1, FilesAre
<1>6. \A i \in 1 .. joined : Kinds[i] # k
  BY <1>1 DEF Inv, Joined
<1>7. CASE Constructs(k, f)
  <2>1. /\ values' = [values EXCEPT ![k] = @ \cup {f}]
        /\ pos' = [pos EXCEPT ![k] = @ + 1]
        /\ UNCHANGED reader
    BY <1>7 DEF ReadFile
  <2>a. \A j \in DOMAIN Files : values'[j] \subseteq Elements(Files[j])
    BY <1>2, <1>5, <2>1 DEF Inv, TypeOK
  <2>b. values' \in [DOMAIN Files -> SUBSET AllFiles] BY <1>2, <1>5, <2>1
  <2>c. pos' \in [DOMAIN Files -> Nat] BY <1>2, <1>5, <2>1
  <2>2. TypeOK' BY <1>4, <2>1, <2>a, <2>b, <2>c DEF Inv, TypeOK
  <2>3. Reading'
    <3> SUFFICES ASSUME NEW j \in DOMAIN Files
                 PROVE  /\ pos'[j] <= Len(Files[j])
                        /\ values'[j] = {Files[j][i] : i \in 1 .. pos'[j]}
                        /\ SoundUpTo(j, pos'[j])
                        /\ reader'[j] = "ended" => pos'[j] = Len(Files[j])
                        /\ reader'[j] = "dead" =>
                             pos'[j] < Len(Files[j]) /\ ~Constructs(j, Files[j][pos'[j] + 1])
      BY DEF Reading, SoundUpTo, Constructs
    <3>1. CASE j = k
      <4>1. pos'[k] = pos[k] + 1 /\ values'[k] = values[k] \cup {f} /\ reader'[k] = "running"
        BY <1>1, <1>2, <2>1
      <4>2. 1 .. pos[k] + 1 = (1 .. pos[k]) \cup {pos[k] + 1} BY <1>5
      <4>3. values[k] = {Files[k][i] : i \in 1 .. pos[k]} BY DEF Inv, Reading
      <4>4. values'[k] = {Files[k][i] : i \in 1 .. pos'[k]} BY <4>1, <4>2, <4>3
      <4>5. SoundUpTo(k, pos'[k]) BY <1>7, <4>1, <4>2 DEF Inv, Reading, SoundUpTo
      <4>6. pos'[k] <= Len(Files[k]) BY <1>5, <4>1, FilesAre
      <4>7. QED BY <3>1, <4>1, <4>4, <4>5, <4>6
    <3>2. CASE j # k
      <4>1. pos'[j] = pos[j] /\ values'[j] = values[j] /\ reader'[j] = reader[j]
        BY <1>2, <2>1, <3>2
      <4>2. QED BY <4>1 DEF Inv, Reading
    <3>3. QED BY <3>1, <3>2
  <2>4. Joined'
    <3> SUFFICES ASSUME NEW i \in 1 .. joined
                 PROVE  reader'[Kinds[i]] # "running" /\ served'[Kinds[i]] = values'[Kinds[i]]
      BY <1>4 DEF Joined
    <3>1. Kinds[i] \in DOMAIN Files
      <4>1. i \in 1 .. 4 BY <1>2, KindsAre
      <4>2. QED BY <4>1, KindsAre
    <3>2. Kinds[i] # k BY <1>6
    <3>3. values'[Kinds[i]] = values[Kinds[i]] BY <1>2, <2>1, <3>1, <3>2
    <3>4. QED BY <1>4, <2>1, <3>3 DEF Inv, Joined
  <2>5. QED BY <1>3, <2>2, <2>3, <2>4 DEF Inv
<1>8. CASE ~Constructs(k, f)
  <2>1. reader' = [reader EXCEPT ![k] = "dead"] /\ UNCHANGED <<pos, values>>
    BY <1>8 DEF ReadFile
  <2>2. /\ reader'[k] = "dead" /\ \A j \in DOMAIN Files \ {k} : reader'[j] = reader[j]
        /\ reader' \in [DOMAIN Files -> {"running", "ended", "dead"}]
    BY <1>2, <2>1
  <2>3. TypeOK' BY <1>4, <2>1, <2>2 DEF Inv, TypeOK
  <2>4. Reading'
    BY <1>1, <1>8, <2>1, <2>2 DEF Inv, Reading, SoundUpTo, Constructs
  <2>5. Joined'
    <3> SUFFICES ASSUME NEW i \in 1 .. joined
                 PROVE  reader'[Kinds[i]] # "running" /\ served'[Kinds[i]] = values'[Kinds[i]]
      BY <1>4 DEF Joined
    <3>1. Kinds[i] \in DOMAIN Files \ {k}
      <4>1. i \in 1 .. 4 BY <1>2, KindsAre
      <4>2. QED BY <1>6, <4>1, KindsAre
    <3>2. QED BY <1>4, <2>1, <2>2, <3>1 DEF Inv, Joined
  <2>6. QED BY <1>3, <2>3, <2>4, <2>5 DEF Inv
<1>9. QED BY <1>7, <1>8

\* EndRead: the reader has read all of its files.
LEMMA EndReadInv == ASSUME Inv, NEW k \in DOMAIN Files, EndRead(k) PROVE Inv'
<1>1. /\ reader[k] = "running" /\ pos[k] = Len(Files[k])
      /\ reader' = [reader EXCEPT ![k] = "ended"]
      /\ UNCHANGED <<pos, values, joined, served, pc, input, document, errors, answer, met>>
  BY DEF EndRead
<1>2. /\ reader \in [DOMAIN Files -> {"running", "ended", "dead"}]
      /\ joined \in 0 .. Len(Kinds)
  BY DEF Inv, TypeOK
<1>3. /\ reader'[k] = "ended" /\ \A j \in DOMAIN Files \ {k} : reader'[j] = reader[j]
      /\ reader' \in [DOMAIN Files -> {"running", "ended", "dead"}]
  BY <1>1, <1>2
<1>4. UNCHANGED <<asks, doc, may, status, blamed>> BY <1>1 DEF input, answer
<1>5. TypeOK' BY <1>1, <1>3, <1>4 DEF Inv, TypeOK
<1>6. Reading' BY <1>1, <1>3 DEF Inv, Reading, SoundUpTo, Constructs
<1>7. Joined'
  <2> SUFFICES ASSUME NEW i \in 1 .. joined
               PROVE  reader'[Kinds[i]] # "running" /\ served'[Kinds[i]] = values'[Kinds[i]]
    BY <1>1 DEF Joined
  <2>1. i \in 1 .. 4 BY <1>2, KindsAre
  <2>2. Kinds[i] \in DOMAIN Files BY <2>1, KindsAre
  <2>3. QED BY <1>1, <1>3, <2>2 DEF Inv, Joined
<1>8. Stages' /\ Alone' /\ AloneIsJudgedRight' BY <1>1, RequestsGoOn
<1>9. QED BY <1>5, <1>6, <1>7, <1>8 DEF Inv

\* Join: what the next reader has left is served from now on.
LEMMA JoinInv == ASSUME Inv, Join PROVE Inv'
<1> DEFINE k == Kinds[joined + 1]
<1>1. /\ joined < Len(Kinds) /\ joined' = joined + 1 /\ reader[k] # "running"
      /\ served' = [served EXCEPT ![k] = values[k]]
      /\ UNCHANGED <<pos, reader, values, pc, input, document, errors, answer, met>>
  BY DEF Join
<1>2. /\ joined \in 0 .. 4 /\ served \in [DOMAIN Files -> SUBSET AllFiles]
      /\ values \in [DOMAIN Files -> SUBSET AllFiles]
  BY KindsAre DEF Inv, TypeOK
<1>3. joined + 1 \in 1 .. 4 /\ k \in DOMAIN Files
  <2>1. joined + 1 \in 1 .. 4 BY <1>1, <1>2, KindsAre
  <2>2. QED BY <2>1, KindsAre
<1>4. UNCHANGED <<asks, doc, may, status, blamed>> BY <1>1 DEF input, answer
<1>5. /\ served'[k] = values[k] /\ \A j \in DOMAIN Files \ {k} : served'[j] = served[j]
      /\ served' \in [DOMAIN Files -> SUBSET AllFiles]
  BY <1>1, <1>2, <1>3
<1>6. joined' \in 0 .. Len(Kinds) BY <1>1, <1>3, KindsAre
<1>7. TypeOK' BY <1>1, <1>4, <1>5, <1>6 DEF Inv, TypeOK
<1>8. Reading' BY <1>1 DEF Inv, Reading, SoundUpTo, Constructs
<1>9. Joined'
  <2> SUFFICES ASSUME NEW i \in 1 .. joined + 1
               PROVE  reader'[Kinds[i]] # "running" /\ served'[Kinds[i]] = values'[Kinds[i]]
    BY <1>1 DEF Joined
  <2>1. CASE i = joined + 1 BY <1>1, <1>5, <2>1
  <2>2. CASE i # joined + 1
    <3>1. i \in 1 .. joined /\ i \in 1 .. 4 BY <1>2, <1>3, <2>2
    <3>2. Kinds[i] # k /\ Kinds[i] \in DOMAIN Files BY <1>3, <2>2, <3>1, KindsAre
    <3>3. QED BY <1>1, <1>5, <3>1, <3>2 DEF Inv, Joined
  <2>3. QED BY <2>1, <2>2
<1>10. Stages' /\ Alone' /\ AloneIsJudgedRight' BY <1>1, RequestsWait
<1>11. QED BY <1>7, <1>8, <1>9, <1>10 DEF Inv

-----------------------------------------------------------------------------
(* The requests                                                            *)

\* Steps of a request leave the readers alone.
LEMMA ReadersRest == ASSUME Inv, UNCHANGED loading PROVE Reading' /\ Joined'
<1>1. UNCHANGED <<pos, reader, values, joined, served>> BY DEF loading
<1>2. Reading' BY <1>1 DEF Inv, Reading, SoundUpTo, Constructs
<1>3. Joined' BY <1>1 DEF Inv, Joined
<1>4. QED BY <1>2, <1>3

\* Permit: whom it lets pass may ask, and has keys without the separator.
LEMMA PermitInv == ASSUME Inv, NEW r \in Requests, Permit(r) PROVE Inv'
<1>1. /\ joined = Len(Kinds) /\ pc[r] = "idle"
      /\ UNCHANGED <<loading, asks, doc, may, document, errors, blamed, met>>
      /\ UNCHANGED <<pos, reader, values, joined, served>>
  BY DEF Permit, input, loading
<1>2. /\ pc' = [pc EXCEPT ![r] = IF may[r] /\ doc[r] # "separator" THEN "permitted"
                                                                   ELSE "answered"]
      /\ status' \in [Requests -> {0, 400, 403, 404, 500}]
      /\ \A q \in Requests \ {r} : status'[q] = status[q]
  <2>1. status \in [Requests -> {0, 400, 403, 404, 500}] BY DEF Inv, TypeOK
  <2>2. \/ status' = status
        \/ \E c \in {400, 403, 404} : status' = [status EXCEPT ![r] = c]
    BY DEF Permit, Respond
  <2>3. pc' = [pc EXCEPT ![r] = IF may[r] /\ doc[r] # "separator" THEN "permitted" ELSE "answered"]
    BY DEF Permit, Respond
  <2>4. QED BY <2>1, <2>2, <2>3
<1>3. /\ \A q \in Requests \ {r} : pc'[q] = pc[q]
      /\ pc'[r] \in {"permitted", "answered"}
      /\ pc'[r] = "permitted" => may[r] /\ doc[r] # "separator"
      /\ pc'[r] = "answered" => ~(may[r] /\ doc[r] # "separator")
      /\ pc' \in [Requests -> {"idle", "permitted", "found", "answered"} \cup Using]
  BY <1>2 DEF Inv, TypeOK
<1>4. TypeOK' BY <1>1, <1>2, <1>3 DEF Inv, TypeOK
<1>5. Reading' /\ Joined' BY <1>1, ReadersRest
<1>6. Stages' BY <1>1, <1>3 DEF Inv, Stages, Using
<1>7. Alone' BY <1>1, <1>3 DEF Inv, Alone, Using
<1>8. UNCHANGED <<asks, doc, may, met, blamed, served>> BY <1>1
<1>9. AloneIsJudgedRight'
  <2> SUFFICES ASSUME NEW q \in Requests, pc'[q] = "answered", ~met[q], may[q],
                      doc[q] # "separator", asks[q] \in served["html"] \cap Validated,
                      WindowsPaths
               PROVE  /\ status'[q] = IF doc[q] = "invalid" THEN 400 ELSE 500
                      /\ blamed[q] = IF doc[q] = "invalid" THEN {q} ELSE {}
    BY <1>8 DEF AloneIsJudgedRight
  <2>1. q # r BY <1>3
  <2>2. pc[q] = "answered" /\ status'[q] = status[q] BY <1>2, <1>3, <2>1
  <2>3. QED BY <2>2 DEF Inv, AloneIsJudgedRight
<1>10. QED BY <1>4, <1>5, <1>6, <1>7, <1>9 DEF Inv

\* Find: whoever goes on has found a template that is served.
LEMMA FindInv == ASSUME Inv, NEW r \in Requests, Find(r) PROVE Inv'
<1>1. /\ pc[r] = "permitted"
      /\ UNCHANGED <<loading, asks, doc, may, document, errors, blamed, met>>
      /\ UNCHANGED <<pos, reader, values, joined, served>>
  BY DEF Find, input, loading
<1>2. /\ pc' = [pc EXCEPT ![r] = IF Routed(asks[r]) THEN "found" ELSE "answered"]
      /\ status' \in [Requests -> {0, 400, 403, 404, 500}]
      /\ \A q \in Requests \ {r} : status'[q] = status[q]
  <2>1. status \in [Requests -> {0, 400, 403, 404, 500}] BY DEF Inv, TypeOK
  <2>2. \/ status' = status
        \/ \E c \in {400, 403, 404} : status' = [status EXCEPT ![r] = c]
    BY DEF Find, Respond
  <2>3. pc' = [pc EXCEPT ![r] = IF Routed(asks[r]) THEN "found" ELSE "answered"]
    BY DEF Find, Respond
  <2>4. QED BY <2>1, <2>2, <2>3
<1>3. /\ \A q \in Requests \ {r} : pc'[q] = pc[q]
      /\ pc'[r] \in {"found", "answered"}
      /\ pc'[r] = "found" => asks[r] \in served["html"]
      /\ pc'[r] = "answered" => ~(WindowsPaths /\ asks[r] \in served["html"])
      /\ pc' \in [Requests -> {"idle", "permitted", "found", "answered"} \cup Using]
  BY <1>2 DEF Inv, TypeOK, Routed
<1>4. TypeOK' BY <1>1, <1>2, <1>3 DEF Inv, TypeOK
<1>5. Reading' /\ Joined' BY <1>1, ReadersRest
<1>6. Stages' BY <1>1, <1>3 DEF Inv, Stages, Using
<1>7. Alone' BY <1>1, <1>3 DEF Inv, Alone, Using
<1>8. AloneIsJudgedRight' BY <1>1, <1>2, <1>3 DEF Inv, AloneIsJudgedRight
<1>9. QED BY <1>4, <1>5, <1>6, <1>7, <1>8 DEF Inv

\* A template that is served is a template.
LEMMA ServedAreTemplates ==
    ASSUME Inv, NEW r \in Requests, pc[r] \in {"found"} \cup Using
    PROVE  asks[r] \in Templates
<1>1. joined = Len(Kinds) /\ asks[r] \in served["html"]
  <2>1. pc[r] # "idle" BY DEF Using
  <2>2. QED BY <2>1 DEF Inv, Stages
<1>2. PICK i \in 1 .. 4 : Kinds[i] = "html" BY KindsAre
<1>3. served["html"] = values["html"] BY <1>1, <1>2, KindsAre DEF Inv, Joined
<1>4. /\ values["html"] = {Files["html"][j] : j \in 1 .. pos["html"]}
      /\ pos["html"] <= Len(Files["html"]) /\ pos["html"] \in Nat
  <2>1. "html" \in DOMAIN Files BY KindsAre
  <2>2. pos["html"] \in Nat BY <2>1 DEF Inv, TypeOK
  <2>3. /\ values["html"] = {Files["html"][j] : j \in 1 .. pos["html"]}
        /\ pos["html"] <= Len(Files["html"])
    BY <2>1 DEF Inv, Reading
  <2>4. QED BY <2>2, <2>3
<1>5. PICK j \in 1 .. pos["html"] : asks[r] = Files["html"][j] BY <1>1, <1>3, <1>4
<1>6. j \in 1 .. Len(Files["html"]) BY <1>4, KindsAre, FilesAre
<1>7. QED BY <1>5, <1>6, KindsAre, FilesAre DEF Templates

\* Begin: the validator has this document, and two who use it know of it.
LEMMA BeginInv == ASSUME Inv, NEW r \in Requests, Begin(r) PROVE Inv'
<1> DEFINE t == asks[r]
           others == {q \in Requests \ {r} : asks[q] = t /\ pc[q] \in Using}
<1>1. /\ pc[r] = "found"
      /\ UNCHANGED <<loading, asks, doc, may, blamed>>
      /\ UNCHANGED <<pos, reader, values, joined, served>>
  BY DEF Begin, input, loading
<1>2. t \in Templates BY <1>1, ServedAreTemplates
<1>3. Reading' /\ Joined' BY <1>1, ReadersRest
<1>4. /\ pc \in [Requests -> {"idle", "permitted", "found", "answered"} \cup Using]
      /\ document \in [Templates -> Requests \cup {None}]
      /\ errors \in [Templates -> SUBSET Requests]
      /\ met \in [Requests -> BOOLEAN]
  BY DEF Inv, TypeOK
<1>5. /\ may[r] /\ doc[r] # "separator" /\ t \in served["html"] /\ joined = Len(Kinds)
      /\ blamed[r] = {}
  BY <1>1 DEF Inv, Stages
<1>6. CASE t \in Validated
  <2>1. /\ document' = [document EXCEPT ![t] = r]
        /\ errors' = [errors EXCEPT ![t] = {}]
        /\ met' = [q \in Requests |-> met[q] \/ q \in others \/ (q = r /\ others # {})]
        /\ pc' = [pc EXCEPT ![r] = "validating"]
        /\ UNCHANGED status
    BY <1>6 DEF Begin, ValidatorOf
  <2> HIDE DEF others
  <2>2. /\ pc'[r] = "validating" /\ \A q \in Requests \ {r} : pc'[q] = pc[q]
        /\ pc' \in [Requests -> {"idle", "permitted", "found", "answered"} \cup Using]
    BY <1>4, <2>1 DEF Using
  <2>3. /\ document'[t] = r /\ \A u \in Templates \ {t} : document'[u] = document[u]
        /\ document' \in [Templates -> Requests \cup {None}]
    BY <1>2, <1>4, <2>1
  <2>4. /\ errors'[t] = {} /\ \A u \in Templates \ {t} : errors'[u] = errors[u]
        /\ errors' \in [Templates -> SUBSET Requests]
    BY <1>2, <1>4, <2>1
  <2>5. met' \in [Requests -> BOOLEAN] BY <1>4, <2>1, ZenonT(30)
  <2>6. /\ \A q \in Requests : met[q] => met'[q]
        /\ \A q \in others : q \in Requests => met'[q]
        /\ others # {} => met'[r]
    BY <2>1
  <2>7. \A q \in Requests : q \in others <=> q # r /\ asks[q] = t /\ pc[q] \in Using
    BY DEF others
  <2>8. TypeOK' BY <1>1, <2>1, <2>2, <2>3, <2>4, <2>5 DEF Inv, TypeOK
  <2>9. Stages'
    <3> SUFFICES ASSUME NEW q \in Requests
                 PROVE  /\ pc'[q] # "idle" => joined = Len(Kinds)
                        /\ pc'[q] \notin {"idle", "answered"} => may[q] /\ doc[q] # "separator"
                        /\ pc'[q] \in {"found"} \cup Using => asks[q] \in served["html"]
                        /\ pc'[q] \in Using => /\ asks[q] \in Validated
                                               /\ document'[asks[q]] \in Requests
                        /\ pc'[q] # "answered" => blamed[q] = {}
      BY <1>1 DEF Stages
    <3>1. CASE q = r BY <1>5, <1>6, <2>2, <2>3, <3>1
    <3>2. CASE q # r
      <4>1. pc'[q] = pc[q] BY <2>2, <3>2
      <4>2. pc[q] \in Using => asks[q] \in Templates BY ServedAreTemplates
      <4>3. pc[q] \in Using => document'[asks[q]] \in Requests
        BY <2>3, <4>2 DEF Inv, Stages
      <4>4. QED BY <4>1, <4>3 DEF Inv, Stages
    <3>3. QED BY <3>1, <3>2
  <2>10. Alone'
    <3>1. ASSUME NEW p \in Requests, NEW q \in Requests, p # q,
                 pc'[p] \in Using, pc'[q] \in Using, asks[p] = asks[q]
          PROVE  met'[p]
      <4>1. CASE p = r
        <5>1. q \in others BY <2>2, <2>7, <3>1, <4>1
        <5>2. QED BY <2>6, <4>1, <5>1
      <4>2. CASE p # r /\ q = r
        <5>1. p \in others BY <2>2, <2>7, <3>1, <4>2
        <5>2. QED BY <2>6, <5>1
      <4>3. CASE p # r /\ q # r
        <5>1. pc[p] \in Using /\ pc[q] \in Using BY <2>2, <3>1, <4>3
        <5>2. met[p] BY <3>1, <5>1 DEF Inv, Alone
        <5>3. QED BY <2>6, <5>2
      <4>4. QED BY <4>1, <4>2, <4>3
    <3>2. ASSUME NEW q \in Requests, ~met'[q], pc'[q] \in Using
          PROVE  /\ document'[asks[q]] = q
                 /\ errors'[asks[q]] =
                      IF pc'[q] # "validating" /\ doc[q] = "invalid" THEN {q} ELSE {}
                 /\ pc'[q] = "refused" => doc[q] = "invalid"
      <4>1. CASE q = r BY <2>2, <2>3, <2>4, <4>1
      <4>2. CASE q # r
        <5>1. pc'[q] = pc[q] /\ ~met[q] BY <2>2, <2>6, <3>2, <4>2
        <5>2. asks[q] # t BY <2>6, <2>7, <3>2, <4>2, <5>1
        <5>3. asks[q] \in Templates BY <3>2, <5>1, ServedAreTemplates
        <5>4. /\ document'[asks[q]] = document[asks[q]]
              /\ errors'[asks[q]] = errors[asks[q]]
          BY <2>3, <2>4, <5>2, <5>3
        <5>5. /\ document[asks[q]] = q
              /\ errors[asks[q]] =
                   IF pc[q] # "validating" /\ doc[q] = "invalid" THEN {q} ELSE {}
              /\ pc[q] = "refused" => doc[q] = "invalid"
          BY <3>2, <5>1 DEF Inv, Alone
        <5>6. QED BY <5>1, <5>4, <5>5
      <4>3. QED BY <4>1, <4>2
    <3>3. QED BY <1>1, <3>1, <3>2 DEF Alone
  <2>11. AloneIsJudgedRight' BY <1>1, <2>1, <2>2, <2>6 DEF Inv, AloneIsJudgedRight
  <2>12. QED BY <1>3, <2>8, <2>9, <2>10, <2>11 DEF Inv
<1>7. CASE t \notin Validated
  <2>1. /\ pc' = [pc EXCEPT ![r] = "answered"] /\ status' = [status EXCEPT ![r] = 500]
        /\ UNCHANGED <<document, errors, met>>
    BY <1>7 DEF Begin, Respond
  <2>2. /\ pc'[r] = "answered" /\ \A q \in Requests \ {r} : pc'[q] = pc[q]
        /\ pc' \in [Requests -> {"idle", "permitted", "found", "answered"} \cup Using]
        /\ status' \in [Requests -> {0, 400, 403, 404, 500}]
        /\ \A q \in Requests \ {r} : status'[q] = status[q]
    BY <2>1 DEF Inv, TypeOK
  <2>3. TypeOK' BY <1>1, <2>1, <2>2 DEF Inv, TypeOK
  <2>4. Stages' BY <1>1, <2>1, <2>2 DEF Inv, Stages, Using
  <2>5. Alone' BY <1>1, <2>1, <2>2 DEF Inv, Alone, Using
  <2>6. AloneIsJudgedRight' BY <1>1, <1>7, <2>1, <2>2 DEF Inv, AloneIsJudgedRight
  <2>7. QED BY <1>3, <2>3, <2>4, <2>5, <2>6 DEF Inv
<1>8. QED BY <1>6, <1>7

\* Check: the errors of a document nobody else has touched are its own, and
\* what it raises too.
LEMMA CheckInv == ASSUME Inv, NEW r \in Requests, Check(r) PROVE Inv'
<1> DEFINE t == asks[r]
           d == document[t]
           found == [errors EXCEPT ![t] = @ \cup {d}]
<1>1. /\ pc[r] = "validating"
      /\ UNCHANGED <<loading, asks, doc, may, document, blamed, met>>
      /\ UNCHANGED <<pos, reader, values, joined, served>>
  BY DEF Check, input, loading
<1>2. /\ pc \in [Requests -> {"idle", "permitted", "found", "answered"} \cup Using]
      /\ errors \in [Templates -> SUBSET Requests]
      /\ status \in [Requests -> {0, 400, 403, 404, 500}]
  BY DEF Inv, TypeOK
<1>3. /\ pc[r] \in Using /\ t \in Templates /\ d \in Requests
  BY <1>1, ServedAreTemplates DEF Using, Inv, Stages
<1>a. \/ /\ doc[d] # "raising" /\ errors' = (IF doc[d] = "invalid" THEN found ELSE errors)
         /\ pc' = [pc EXCEPT ![r] = "checked"] /\ status' = status
      \/ /\ doc[d] = "raising" /\ errors' \in {errors, found}
         /\ pc' = [pc EXCEPT ![r] = "answered"] /\ status' = [status EXCEPT ![r] = 500]
  BY DEF Check, ValidatorOf, Respond
<1>b. \E e \in {"checked", "answered"} : pc' = [pc EXCEPT ![r] = e] BY <1>a
<1>4. /\ pc'[r] \in {"checked", "answered"} /\ \A q \in Requests \ {r} : pc'[q] = pc[q]
      /\ pc' \in [Requests -> {"idle", "permitted", "found", "answered"} \cup Using]
  BY <1>2, <1>b DEF Using
<1>c. errors' = errors \/ errors' = found BY <1>a
<1>d. pc'[r] = "checked" => errors' = IF doc[d] = "invalid" THEN found ELSE errors
  BY <1>2, <1>a
<1>5. /\ pc'[r] = "checked" =>
           errors'[t] = IF doc[d] = "invalid" THEN errors[t] \cup {d} ELSE errors[t]
      /\ \A u \in Templates \ {t} : errors'[u] = errors[u]
      /\ errors' \in [Templates -> SUBSET Requests]
  <2>1. /\ found[t] = errors[t] \cup {d} /\ found \in [Templates -> SUBSET Requests]
        /\ \A u \in Templates \ {t} : found[u] = errors[u]
    BY <1>2, <1>3
  <2> HIDE DEF found
  <2>2. QED BY <1>2, <1>c, <1>d, <2>1
<1>e. /\ \A q \in Requests \ {r} : status'[q] = status[q]
      /\ status' \in [Requests -> {0, 400, 403, 404, 500}]
      /\ pc'[r] = "answered" => status'[r] = 500 /\ doc[d] = "raising"
  <2>1. \/ status' = status /\ pc'[r] = "checked"
        \/ status' = [status EXCEPT ![r] = 500] /\ doc[d] = "raising"
    BY <1>2, <1>a
  <2>2. QED BY <1>2, <2>1
<1>6. TypeOK' BY <1>1, <1>4, <1>5, <1>e DEF Inv, TypeOK
<1>7. Reading' /\ Joined' BY <1>1, ReadersRest
<1>8. Stages' BY <1>1, <1>4 DEF Inv, Stages, Using
<1>9. Alone'
  <2>1. ASSUME NEW p \in Requests, NEW q \in Requests, p # q,
               pc'[p] \in Using, pc'[q] \in Using, asks[p] = asks[q]
        PROVE  met[p]
    <3>1. pc[p] \in Using /\ pc[q] \in Using BY <1>3, <1>4, <2>1
    <3>2. QED BY <2>1, <3>1 DEF Inv, Alone
  <2>2. ASSUME NEW q \in Requests, ~met[q], pc'[q] \in Using
        PROVE  /\ document[asks[q]] = q
               /\ errors'[asks[q]] =
                    IF pc'[q] # "validating" /\ doc[q] = "invalid" THEN {q} ELSE {}
               /\ pc'[q] = "refused" => doc[q] = "invalid"
    <3>1. pc[q] \in Using BY <1>3, <1>4, <2>2
    <3>2. /\ document[asks[q]] = q
          /\ errors[asks[q]] = IF pc[q] # "validating" /\ doc[q] = "invalid" THEN {q} ELSE {}
          /\ pc[q] = "refused" => doc[q] = "invalid"
      BY <2>2, <3>1 DEF Inv, Alone
    <3>3. CASE q = r
      <4>1. d = r /\ errors[t] = {} BY <1>1, <3>2, <3>3
      <4>2. pc'[r] = "checked" BY <1>4, <2>2, <3>3 DEF Using
      <4>3. errors'[t] = IF doc[r] = "invalid" THEN {r} ELSE {} BY <1>5, <4>1, <4>2
      <4>4. QED BY <3>3, <4>1, <4>2, <4>3
    <3>4. CASE q # r
      <4>1. asks[q] # t BY <1>3, <2>2, <3>1, <3>4 DEF Inv, Alone
      <4>2. asks[q] \in Templates BY <3>1, ServedAreTemplates
      <4>3. QED BY <1>4, <1>5, <3>2, <3>4, <4>1, <4>2
    <3>5. QED BY <3>3, <3>4
  <2>3. UNCHANGED <<asks, doc, met, document>> BY <1>1
  <2>4. QED BY <2>1, <2>2, <2>3 DEF Alone
<1>10. AloneIsJudgedRight'
  <2> SUFFICES ASSUME NEW q \in Requests, pc'[q] = "answered", ~met[q], may[q],
                      doc[q] # "separator", asks[q] \in served["html"] \cap Validated,
                      WindowsPaths
               PROVE  /\ status'[q] = IF doc[q] = "invalid" THEN 400 ELSE 500
                      /\ blamed[q] = IF doc[q] = "invalid" THEN {q} ELSE {}
    BY <1>1 DEF AloneIsJudgedRight
  <2>1. CASE q = r
    <3>1. d = r BY <1>3, <2>1 DEF Inv, Alone
    <3>2. blamed[r] = {} BY <1>1 DEF Inv, Stages
    <3>3. QED BY <1>e, <2>1, <3>1, <3>2
  <2>2. CASE q # r BY <1>4, <1>e, <2>2 DEF Inv, AloneIsJudgedRight
  <2>3. QED BY <2>1, <2>2
<1>11. QED BY <1>6, <1>7, <1>8, <1>9, <1>10 DEF Inv

\* Judge: without errors of its own, a request it had to itself is accepted.
LEMMA JudgeInv == ASSUME Inv, NEW r \in Requests, Judge(r) PROVE Inv'
<1>1. /\ pc[r] = "checked"
      /\ UNCHANGED <<loading, asks, doc, may, document, errors, blamed, met>>
      /\ UNCHANGED <<pos, reader, values, joined, served>>
  BY DEF Judge, input, loading
<1>2. pc[r] \in Using BY <1>1 DEF Using
<1>3. /\ pc \in [Requests -> {"idle", "permitted", "found", "answered"} \cup Using]
      /\ status \in [Requests -> {0, 400, 403, 404, 500}]
  BY DEF Inv, TypeOK
<1>4. /\ pc' = [pc EXCEPT ![r] = IF errors[asks[r]] = {} THEN "answered" ELSE "refused"]
      /\ status' = IF errors[asks[r]] = {} THEN [status EXCEPT ![r] = 500] ELSE status
  BY DEF Judge, ValidatorOf, Respond
<1>5. /\ \A q \in Requests \ {r} : pc'[q] = pc[q] /\ status'[q] = status[q]
      /\ pc'[r] = IF errors[asks[r]] = {} THEN "answered" ELSE "refused"
      /\ errors[asks[r]] = {} => status'[r] = 500
      /\ pc' \in [Requests -> {"idle", "permitted", "found", "answered"} \cup Using]
      /\ status' \in [Requests -> {0, 400, 403, 404, 500}]
  BY <1>3, <1>4 DEF Using
<1>6. TypeOK' BY <1>1, <1>5 DEF Inv, TypeOK
<1>7. Reading' /\ Joined' BY <1>1, ReadersRest
<1>8. Stages' BY <1>1, <1>2, <1>5 DEF Inv, Stages, Using
<1>9. ~met[r] => errors[asks[r]] = IF doc[r] = "invalid" THEN {r} ELSE {}
  BY <1>1, <1>2 DEF Inv, Alone
<1>10. Alone'
  <2>1. \A q \in Requests : pc'[q] \in Using => pc[q] \in Using BY <1>2, <1>5
  <2>2. ASSUME NEW q \in Requests, ~met[q], pc'[q] \in Using
        PROVE  /\ document[asks[q]] = q
               /\ errors[asks[q]] =
                    IF pc'[q] # "validating" /\ doc[q] = "invalid" THEN {q} ELSE {}
               /\ pc'[q] = "refused" => doc[q] = "invalid"
    <3>1. CASE q = r
      <4>1. pc'[r] = "refused" /\ errors[asks[r]] # {} BY <1>5, <2>2, <3>1 DEF Using
      <4>2. doc[r] = "invalid" /\ errors[asks[r]] = {r} BY <1>9, <2>2, <3>1, <4>1
      <4>3. document[asks[r]] = r BY <1>2, <2>2, <3>1 DEF Inv, Alone
      <4>4. QED BY <3>1, <4>1, <4>2, <4>3
    <3>2. CASE q # r BY <1>5, <2>1, <2>2, <3>2 DEF Inv, Alone
    <3>3. QED BY <3>1, <3>2
  <2>3. QED BY <1>1, <2>1, <2>2 DEF Inv, Alone
<1>11. blamed[r] = {} BY <1>1 DEF Inv, Stages
<1>12. AloneIsJudgedRight'
  <2> SUFFICES ASSUME NEW q \in Requests, pc'[q] = "answered", ~met[q], may[q],
                      doc[q] # "separator", asks[q] \in served["html"] \cap Validated,
                      WindowsPaths
               PROVE  /\ status'[q] = IF doc[q] = "invalid" THEN 400 ELSE 500
                      /\ blamed[q] = IF doc[q] = "invalid" THEN {q} ELSE {}
    BY <1>1 DEF AloneIsJudgedRight
  <2>1. CASE q = r BY <1>5, <1>9, <1>11, <2>1
  <2>2. CASE q # r BY <1>5, <2>2 DEF Inv, AloneIsJudgedRight
  <2>3. QED BY <2>1, <2>2
<1>13. QED BY <1>6, <1>7, <1>8, <1>10, <1>12 DEF Inv

\* Report: who had the validator to itself is told about its own data.
LEMMA ReportInv == ASSUME Inv, NEW r \in Requests, Report(r) PROVE Inv'
<1>1. /\ pc[r] = "refused"
      /\ pc' = [pc EXCEPT ![r] = "answered"] /\ status' = [status EXCEPT ![r] = 400]
      /\ blamed' = [blamed EXCEPT ![r] = errors[asks[r]]]
      /\ UNCHANGED <<loading, asks, doc, may, document, errors, met>>
      /\ UNCHANGED <<pos, reader, values, joined, served>>
  BY DEF Report, Respond, ValidatorOf, input, loading
<1>2. pc[r] \in Using BY <1>1 DEF Using
<1>3. /\ pc \in [Requests -> {"idle", "permitted", "found", "answered"} \cup Using]
      /\ status \in [Requests -> {0, 400, 403, 404, 500}]
      /\ blamed \in [Requests -> SUBSET Requests]
      /\ errors \in [Templates -> SUBSET Requests]
  BY DEF Inv, TypeOK
<1>4. errors[asks[r]] \subseteq Requests BY <1>2, <1>3, ServedAreTemplates
<1>5. /\ \A q \in Requests \ {r} :
           pc'[q] = pc[q] /\ status'[q] = status[q] /\ blamed'[q] = blamed[q]
      /\ pc'[r] = "answered" /\ status'[r] = 400 /\ blamed'[r] = errors[asks[r]]
  BY <1>1, <1>3
<1>6. /\ pc' \in [Requests -> {"idle", "permitted", "found", "answered"} \cup Using]
      /\ status' \in [Requests -> {0, 400, 403, 404, 500}]
      /\ blamed' \in [Requests -> SUBSET Requests]
  BY <1>1, <1>3, <1>4
<1>7. TypeOK' BY <1>1, <1>6 DEF Inv, TypeOK
<1>8. Reading' /\ Joined' BY <1>1, ReadersRest
<1>9. Stages' BY <1>1, <1>2, <1>5 DEF Inv, Stages, Using
<1>10. Alone'
  <2>1. \A q \in Requests : pc'[q] \in Using => q # r /\ pc'[q] = pc[q] /\ pc[q] \in Using
    BY <1>5 DEF Using
  <2>2. QED BY <1>1, <2>1 DEF Inv, Alone
<1>11. ~met[r] => doc[r] = "invalid" /\ errors[asks[r]] = {r}
  BY <1>1, <1>2 DEF Inv, Alone
<1>12. AloneIsJudgedRight'
  <2>1. UNCHANGED <<asks, doc, may, met, served>> BY <1>1
  <2>2. SUFFICES ASSUME NEW q \in Requests, pc'[q] = "answered", ~met[q], may[q],
                        doc[q] # "separator", asks[q] \in served["html"] \cap Validated,
                        WindowsPaths
                 PROVE  /\ status'[q] = IF doc[q] = "invalid" THEN 400 ELSE 500
                        /\ blamed'[q] = IF doc[q] = "invalid" THEN {q} ELSE {}
    BY <2>1 DEF AloneIsJudgedRight
  <2>3. CASE q = r BY <1>5, <1>11, <2>2, <2>3
  <2>4. CASE q # r BY <1>5, <2>2, <2>4 DEF Inv, AloneIsJudgedRight
  <2>5. QED BY <2>3, <2>4
<1>13. QED BY <1>7, <1>8, <1>9, <1>10, <1>12 DEF Inv

-----------------------------------------------------------------------------
(* The theorems                                                            *)

\* Every step keeps the invariant.
LEMMA NextInv == Inv /\ [Next]_vars => Inv'
<1> SUFFICES ASSUME Inv, [Next]_vars PROVE Inv' OBVIOUS
<1>1. ASSUME NEW k \in DOMAIN Files, ReadFile(k) PROVE Inv' BY <1>1, ReadFileInv
<1>2. ASSUME NEW k \in DOMAIN Files, EndRead(k) PROVE Inv' BY <1>2, EndReadInv
<1>3. CASE Join BY <1>3, JoinInv
<1>4. ASSUME NEW r \in Requests, Permit(r) PROVE Inv' BY <1>4, PermitInv
<1>5. ASSUME NEW r \in Requests, Find(r) PROVE Inv' BY <1>5, FindInv
<1>6. ASSUME NEW r \in Requests, Begin(r) PROVE Inv' BY <1>6, BeginInv
<1>7. ASSUME NEW r \in Requests, Check(r) PROVE Inv' BY <1>7, CheckInv
<1>8. ASSUME NEW r \in Requests, Judge(r) PROVE Inv' BY <1>8, JudgeInv
<1>9. ASSUME NEW r \in Requests, Report(r) PROVE Inv' BY <1>9, ReportInv
<1>10. CASE UNCHANGED vars
  <2>1. /\ UNCHANGED <<loading, joined, served, pc, input, document, errors, answer, met>>
        /\ UNCHANGED <<pos, reader, values, asks, doc, may, status, blamed>>
    BY <1>10 DEF vars, loading, input, answer
  <2>2. Reading' /\ Joined' BY <2>1, ReadersRest
  <2>3. Stages' /\ Alone' /\ AloneIsJudgedRight' BY <2>1, RequestsGoOn
  <2>4. TypeOK' BY <2>1 DEF Inv, TypeOK
  <2>5. QED BY <2>2, <2>3, <2>4 DEF Inv
<1>11. QED
  BY <1>1, <1>2, <1>3, <1>4, <1>5, <1>6, <1>7, <1>8, <1>9, <1>10 DEF Next

\* What is served in the end is what stands before the first unsound file.
LEMMA ServedFromInv == Inv => ServedUpToFirstFailure
<1> SUFFICES ASSUME Inv, joined = Len(Kinds), NEW k \in DOMAIN Files
             PROVE  served[k] = {Files[k][i] : i \in {j \in DOMAIN Files[k] :
                                   \A h \in 1 .. j : Constructs(k, Files[k][h])}}
  BY DEF ServedUpToFirstFailure
<1>1. PICK i \in 1 .. joined : Kinds[i] = k BY KindsAre
<1>2. reader[k] # "running" /\ served[k] = values[k] BY <1>1 DEF Inv, Joined
<1>3. reader[k] \in {"ended", "dead"} /\ pos[k] \in Nat BY <1>2 DEF Inv, TypeOK
<1>4. /\ pos[k] <= Len(Files[k])
      /\ values[k] = {Files[k][j] : j \in 1 .. pos[k]}
      /\ \A h \in 1 .. pos[k] : Constructs(k, Files[k][h])
      /\ reader[k] = "ended" => pos[k] = Len(Files[k])
      /\ reader[k] = "dead" =>
           pos[k] < Len(Files[k]) /\ ~Constructs(k, Files[k][pos[k] + 1])
  BY DEF Inv, Reading, SoundUpTo
<1>5. DOMAIN Files[k] = 1 .. Len(Files[k]) /\ Len(Files[k]) \in Nat BY FilesAre
<1> HIDE DEF Constructs
<1>6. ASSUME NEW j \in DOMAIN Files[k], \A h \in 1 .. j : Constructs(k, Files[k][h])
      PROVE  j \in 1 .. pos[k]
  <2>1. CASE reader[k] = "ended" BY <1>4, <1>5, <2>1
  <2>2. CASE reader[k] = "dead"
    <3>1. pos[k] + 1 \notin 1 .. j BY <1>4, <1>6, <2>2
    <3>2. QED BY <1>3, <1>5, <3>1
  <2>3. QED BY <1>3, <2>1, <2>2
<1>7. ASSUME NEW j \in 1 .. pos[k]
      PROVE  j \in DOMAIN Files[k] /\ \A h \in 1 .. j : Constructs(k, Files[k][h])
  BY <1>3, <1>4, <1>5
<1>8. {j \in DOMAIN Files[k] : \A h \in 1 .. j : Constructs(k, Files[k][h])} = 1 .. pos[k]
  BY <1>6, <1>7
<1>9. QED BY <1>2, <1>4, <1>8

\* The invariant holds in every reachable state.
THEOREM Invariance == Spec => []Inv
<1>1. Init => Inv BY InitInv
<1>2. Inv /\ [Next]_vars => Inv' BY NextInv
<1>3. QED BY <1>1, <1>2, PTL DEF Spec

\* Every variable has its type.
THEOREM TypeCorrect == Spec => []TypeOK
<1>1. Inv => TypeOK BY DEF Inv
<1>2. QED BY <1>1, Invariance, PTL

\* However the threads interleave, build() leaves of each kind the files
\* before the first one whose constructor raises.
THEOREM BuildServesPrefixes == Spec => []ServedUpToFirstFailure
<1>1. Inv => ServedUpToFirstFailure BY ServedFromInv
<1>2. QED BY <1>1, Invariance, PTL

\* A request that met nobody at the validator of its template is judged by
\* its own data, however many requests use the other templates.
THEOREM UndisturbedVerdicts == Spec => []AloneIsJudgedRight
<1>1. Inv => AloneIsJudgedRight BY DEF Inv
<1>2. QED BY <1>1, Invariance, PTL
=============================================================================
