-------------------------- MODULE RoutePipelineProofs --------------------------
(***************************************************************************)
(* Theorems about the way of a request through its route, for any classes, *)
(* routes and stacks of decorators, any clients and number of requests.    *)
(***************************************************************************)
EXTENDS RoutePipeline, FiniteSetTheorems, TLAPS

Decorator == [kind : Kinds, do : Seq(STRING)]
Decs(k) == DecoratorsOf(k[1], k[2])
Full(c) == [f \in DOMAIN Ressources[c].routes |-> DecoratorsOf(c, f)]

Outside == {"idle", "security", "auth", "router"}
Behind == {"pipe", "guard", "limit", "ping", "endpoint"}

\* What a class needs to be constructed.
Acceptable(c) ==
    /\ DOMAIN Ressources[c].routes # {}
    /\ \A f \in DOMAIN Ressources[c].routes :
         (\E d \in Declares(c, f) : d.kind = "limit")
            => "request" \in Ressources[c].routes[f].takes

\* The classes that are imported have their decorators applied.
Imported == \A j \in 1 .. imports : applied[Order[j]] = Full(Order[j])

\* The classes that are mounted are the acceptable ones among those tried.
Adding ==
    /\ adds > 0 => imports = Len(Order)
    /\ mounted = {Configured[i] : i \in {j \in 1 .. adds : Acceptable(Configured[j])}}

\* A request that has met a layer is one for a route that is served.
Inside(r) == pc[r] = "layers" \/ touched[r] # {} \/ passed[r] # {}
Arrived ==
    \A r \in Requests :
       /\ pc[r] # "idle" => call[r] \in Calls /\ client[r] \in Clients
       /\ pc[r] \in Outside => passed[r] = {} /\ touched[r] = {}
       /\ Inside(r) => call[r][1] \in mounted /\ passed[r] \subseteq Layers(Decs(call[r]))

\* Behind the permissions all of them have been passed, and what was passed
\* was granted.
Permitted ==
    \A r \in Requests : Inside(r) =>
       \A j \in Layers(Decs(call[r])) : Decs(call[r])[j].kind = "permission" =>
          /\ touched[r] \cap Behind # {} => j \in passed[r]
          /\ j \in passed[r] => Elements(Decs(call[r])[j].do) \subseteq granted[r]

\* The requests that have passed the limiter of a route, from the address of
\* the counter, and not run its body.
Through(n) ==
    {r \in Requests : /\ pc[r] = "layers" /\ Counter(r) = n
                      /\ \E i \in passed[r] : Decs(n[1])[i].kind = "limit"}

\* Each of them has a hit in this window of the counter or in an earlier one.
Counting ==
    \A n \in Counters :
       /\ IsFiniteSet(Through(n))
       /\ served[n] + Cardinality(Through(n)) <= Allowance * (windows[n] - 1) + spent[n]

\* The inductive invariant.
Inv == /\ TypeOK /\ Imported /\ Adding /\ Arrived
       /\ Permitted /\ HandledErrorsAreTranslated /\ Counting

-----------------------------------------------------------------------------
(* Facts about the declarations                                            *)

\* The parts of a call.
LEMMA CallsAre ==
    ASSUME NEW k \in Calls
    PROVE  k[1] \in DOMAIN Ressources /\ k[2] \in DOMAIN Ressources[k[1]].routes
BY DEF Calls

\* The stack of a route has the decorators of the method and of the class.
LEMMA StackIs ==
    ASSUME NEW k \in Calls
    PROVE  /\ Decs(k) \in Seq(Decorator)
           /\ Elements(Decs(k)) = Declares(k[1], k[2])
<1> DEFINE m == Ressources[k[1]].routes[k[2]].decorators
           c == Ressources[k[1]].decorators
<1>1. m \in Seq(Decorator) /\ c \in Seq(Decorator)
  BY CallsAre, ConstantsAssumption DEF Decorator
<1>2. Decs(k) = m \o c BY DEF Decs, DecoratorsOf
<1> HIDE DEF m, c
<1>3. Decs(k) \in Seq(Decorator) BY <1>1, <1>2
<1>4. /\ Len(Decs(k)) = Len(m) + Len(c)
      /\ \A i \in 1 .. Len(m) + Len(c) :
           Decs(k)[i] = IF i <= Len(m) THEN m[i] ELSE c[i - Len(m)]
      /\ DOMAIN Decs(k) = 1 .. Len(m) + Len(c)
      /\ DOMAIN m = 1 .. Len(m) /\ DOMAIN c = 1 .. Len(c)
      /\ Len(m) \in Nat /\ Len(c) \in Nat
  BY <1>1, <1>2
<1>5. ASSUME NEW d \in Elements(Decs(k)) PROVE d \in Elements(m) \cup Elements(c)
  <2>1. PICK i \in 1 .. Len(m) + Len(c) : d = Decs(k)[i] BY <1>4 DEF Elements
  <2>2. CASE i <= Len(m) BY <1>4, <2>1, <2>2 DEF Elements
  <2>3. CASE ~(i <= Len(m))
    <3>1. i - Len(m) \in 1 .. Len(c) BY <1>4, <2>3
    <3>2. d = c[i - Len(m)] BY <1>4, <2>1, <2>3
    <3>3. QED BY <1>4, <3>1, <3>2 DEF Elements
  <2>4. QED BY <2>2, <2>3
<1>6. ASSUME NEW d \in Elements(m) PROVE d \in Elements(Decs(k))
  <2>1. PICK i \in 1 .. Len(m) : d = m[i] BY <1>4 DEF Elements
  <2>2. i \in 1 .. Len(m) + Len(c) /\ Decs(k)[i] = d BY <1>4, <2>1
  <2>3. QED BY <1>4, <2>2 DEF Elements
<1>7. ASSUME NEW d \in Elements(c) PROVE d \in Elements(Decs(k))
  <2>1. PICK i \in 1 .. Len(c) : d = c[i] BY <1>4 DEF Elements
  <2>2. i + Len(m) \in 1 .. Len(m) + Len(c) /\ ~(i + Len(m) <= Len(m)) BY <1>4
  <2>3. (i + Len(m)) - Len(m) = i BY <1>4
  <2>4. Decs(k)[i + Len(m)] = d BY <1>4, <2>1, <2>2, <2>3
  <2>5. QED BY <1>4, <2>2, <2>4 DEF Elements
<1>8. Declares(k[1], k[2]) = Elements(m) \cup Elements(c) BY DEF Declares, m, c
<1>9. QED BY <1>3, <1>5, <1>6, <1>7, <1>8

\* The layers of a route are decorators of one of six kinds.
LEMMA LayersAre ==
    ASSUME NEW k \in Calls, NEW i \in Layers(Decs(k))
    PROVE  /\ i \in Nat /\ i \in DOMAIN Decs(k) /\ Decs(k)[i] \in Declares(k[1], k[2])
           /\ Decs(k)[i].do \in Seq(STRING)
           /\ Decs(k)[i].kind \in {"permission", "handler", "pipe", "guard", "limit", "ping"}
<1>1. Decs(k) \in Seq(Decorator) /\ i \in DOMAIN Decs(k) /\ Decs(k)[i].kind # "roles"
  BY StackIs DEF Layers
<1>2. i \in Nat /\ Decs(k)[i] \in Decorator BY <1>1
<1>3. Decs(k)[i].kind \in Kinds /\ Decs(k)[i].do \in Seq(STRING) BY <1>2 DEF Decorator
<1>4. Decs(k)[i] \in Elements(Decs(k)) BY <1>1 DEF Elements
<1>5. QED BY <1>1, <1>2, <1>3, <1>4, StackIs DEF Kinds

\* What is declared with a kind other than roles is a layer.
LEMMA DeclaredAreLayers ==
    ASSUME NEW k \in Calls, NEW kind, kind # "roles",
           NEW x \in DeclaredWith(k[1], k[2], kind)
    PROVE  \E j \in Layers(Decs(k)) : Decs(k)[j].kind = kind /\ x \in Elements(Decs(k)[j].do)
<1>1. PICK d \in Declares(k[1], k[2]) : d.kind = kind /\ x \in Elements(d.do)
  BY DEF DeclaredWith
<1>2. d \in Elements(Decs(k)) BY <1>1, StackIs
<1>3. PICK j \in DOMAIN Decs(k) : d = Decs(k)[j] BY <1>2 DEF Elements
<1>4. QED BY <1>1, <1>3 DEF Layers

\* Permissions enclose everything else, and handlers all but them.
LEMMA OutermostFirst ==
    ASSUME NEW k \in Calls, NEW i \in Layers(Decs(k)), NEW j \in Layers(Decs(k))
    PROVE  /\ Decs(k)[j].kind = "permission" /\ Decs(k)[i].kind # "permission"
                => Encloses(Decs(k), j, i)
           /\ Decs(k)[j].kind = "handler" /\ Decs(k)[i].kind \notin {"permission", "handler"}
                => Encloses(Decs(k), j, i)
           /\ ~Encloses(Decs(k), i, i)
<1>1. \A l \in {i, j} : Decs(k)[l].kind \in
        {"permission", "handler", "pipe", "guard", "limit", "ping"}
  BY LayersAre
<1>2. \A l \in {i, j} :
        /\ Decs(k)[l].kind = "permission" => Priority(Decs(k)[l]) = 1
        /\ Decs(k)[l].kind = "handler" => Priority(Decs(k)[l]) = 2
        /\ Decs(k)[l].kind = "pipe" => Priority(Decs(k)[l]) = 3
        /\ Decs(k)[l].kind = "guard" => Priority(Decs(k)[l]) = 4
        /\ Decs(k)[l].kind = "limit" => Priority(Decs(k)[l]) = 6
        /\ Decs(k)[l].kind = "ping" => Priority(Decs(k)[l]) = 7
  BY DEF Priority
<1>3. i \in Nat BY LayersAre
<1>4. ASSUME Decs(k)[j].kind = "permission", Decs(k)[i].kind # "permission"
      PROVE  Encloses(Decs(k), j, i)
  <2>1. Priority(Decs(k)[j]) = 1 /\ Priority(Decs(k)[i]) \in {2, 3, 4, 6, 7}
    BY <1>1, <1>2, <1>4
  <2>2. Priority(Decs(k)[j]) < Priority(Decs(k)[i]) BY <2>1
  <2>3. QED BY <2>2 DEF Encloses
<1>5. ASSUME Decs(k)[j].kind = "handler", Decs(k)[i].kind \notin {"permission", "handler"}
      PROVE  Encloses(Decs(k), j, i)
  <2>1. Priority(Decs(k)[j]) = 2 /\ Priority(Decs(k)[i]) \in {3, 4, 6, 7}
    BY <1>1, <1>2, <1>5
  <2>2. Priority(Decs(k)[j]) < Priority(Decs(k)[i]) BY <2>1
  <2>3. QED BY <2>2 DEF Encloses
<1>6. ~Encloses(Decs(k), i, i)
  <2>1. Priority(Decs(k)[i]) \in {1, 2, 3, 4, 6, 7} BY <1>1, <1>2
  <2>2. ~(Priority(Decs(k)[i]) < Priority(Decs(k)[i])) /\ ~(i > i) BY <1>3, <2>1
  <2>3. QED BY <2>2 DEF Encloses
<1>7. QED BY <1>4, <1>5, <1>6

\* A limited call is a call.
LEMMA LimitedAreCalls == LimitedCalls \subseteq Calls
BY DEF LimitedCalls

\* An exception has a numeric answer.
LEMMA AnswersAreNumbers ==
    ASSUME NEW k \in Calls, NEW S \in SUBSET Layers(Decs(k)), NEW e
    PROVE  AppStatus(e) \in Nat /\ Answer(Decs(k), S, e) \in Nat
<1>1. \A x \in DOMAIN HttpStatus : HttpStatus[x] \in Nat BY DEF HttpStatus
<1>2. \A x \in DOMAIN AppHandlers : AppHandlers[x] \in Nat BY DEF AppHandlers
<1>3. AppStatus(e) \in Nat BY <1>1, <1>2 DEF AppStatus
<1>4. \A h \in DOMAIN Translation : \A x \in DOMAIN Translation[h] : Translation[h][x] \in Nat
  BY DEF Translation
<1>5. \A h \in Knowing(Decs(k), S, e) : h \in DOMAIN Translation /\ e \in DOMAIN Translation[h]
  <2> SUFFICES ASSUME NEW h \in Knowing(Decs(k), S, e)
               PROVE  h \in DOMAIN Translation /\ e \in DOMAIN Translation[h]
    OBVIOUS
  <2>1. PICK j \in S : /\ Decs(k)[j].kind = "handler" /\ h \in Elements(Decs(k)[j].do)
                       /\ e \in DOMAIN Translation[h]
    BY DEF Knowing
  <2>2. j \in DOMAIN Decs(k) BY DEF Layers
  <2>3. QED BY <2>1, <2>2, HandlersAssumption DEF Elements, Decs
<1>6. CASE Knowing(Decs(k), S, e) = {} BY <1>3, <1>6 DEF Answer
<1>7. CASE Knowing(Decs(k), S, e) # {}
  <2> DEFINE h == CHOOSE x \in Knowing(Decs(k), S, e) : TRUE
  <2>1. h \in Knowing(Decs(k), S, e) BY <1>7
  <2>2. Answer(Decs(k), S, e) = Translation[h][e] BY <1>7 DEF Answer
  <2>3. QED BY <1>3, <1>4, <1>5, <2>1, <2>2
<1>8. QED BY <1>6, <1>7

\* At most one handler knows an exception.
LEMMA HandlersAreDisjoint ==
    ASSUME NEW h \in DOMAIN Translation, NEW g \in DOMAIN Translation, NEW e,
           e \in DOMAIN Translation[h], e \in DOMAIN Translation[g]
    PROVE  h = g
BY DEF Translation

-----------------------------------------------------------------------------
(* The build                                                               *)

\* Initially nothing is imported and nobody has arrived.
LEMMA InitInv == Init => Inv
<1> SUFFICES ASSUME Init PROVE Inv OBVIOUS
<1> USE DEF Init
<1>1. /\ Len(Order) \in Nat /\ Len(Configured) \in Nat /\ MaxWindows \in Nat \ {0}
      /\ Allowance \in Nat \ {0}
  BY ConstantsAssumption
<1>2. /\ 0 \in 0 .. Len(Order) /\ 0 \in 0 .. Len(Configured)
      /\ 0 \in 0 .. Allowance /\ 1 \in 1 .. MaxWindows
  BY <1>1
<1>3. TypeOK BY <1>2 DEF TypeOK
<1>4. Imported BY DEF Imported
<1>5. Adding BY DEF Adding
<1>6. Arrived BY DEF Arrived, Inside
<1>7. Permitted BY DEF Permitted, Inside
<1>8. HandledErrorsAreTranslated BY DEF HandledErrorsAreTranslated
<1>9. Counting
  <2> SUFFICES ASSUME NEW n \in Counters
               PROVE  /\ IsFiniteSet(Through(n))
                      /\ served[n] + Cardinality(Through(n))
                            <= Allowance * (windows[n] - 1) + spent[n]
    BY DEF Counting
  <2>1. Through(n) = {} BY DEF Through
  <2>2. IsFiniteSet(Through(n)) /\ Cardinality(Through(n)) = 0 BY <2>1, FS_EmptySet
  <2>3. Allowance * (windows[n] - 1) = 0 BY <1>1
  <2>4. QED BY <2>2, <2>3
<1>10. QED BY <1>3, <1>4, <1>5, <1>6, <1>7, <1>8, <1>9 DEF Inv

\* What is mounted has its decorators applied, and the build is at its end.
LEMMA MountedIsApplied ==
    ASSUME Inv, NEW c \in mounted
    PROVE  imports = Len(Order) /\ applied[c] = Full(c)
<1>1. /\ adds \in 0 .. Len(Configured) /\ Len(Configured) \in Nat
      /\ Configured \in Seq(DOMAIN Ressources)
  BY ConstantsAssumption DEF Inv, TypeOK
<1>2. PICK i \in 1 .. adds : c = Configured[i] BY DEF Inv, Adding
<1>3. imports = Len(Order) BY <1>1, <1>2 DEF Inv, Adding
<1>4. i \in DOMAIN Configured BY <1>1, <1>2
<1>5. PICK j \in DOMAIN Order : Order[j] = c BY <1>2, <1>4, ConstantsAssumption
<1>6. j \in 1 .. imports BY <1>3, <1>5, ConstantsAssumption
<1>7. QED BY <1>3, <1>5, <1>6 DEF Inv, Imported

\* A request inside meets the stack of its declaration.
LEMMA AppliedIs ==
    ASSUME Inv, NEW r \in Requests, Inside(r)
    PROVE  call[r] \in Calls /\ Applied(r) = Decs(call[r])
<1>1. call[r] \in Calls /\ call[r][1] \in mounted BY DEF Inv, Arrived, Inside, Outside
<1>2. applied[call[r][1]] = Full(call[r][1]) BY <1>1, MountedIsApplied
<1>3. call[r][2] \in DOMAIN Ressources[call[r][1]].routes BY <1>1, CallsAre
<1>4. QED BY <1>1, <1>2, <1>3 DEF Applied, Full, Decs

\* Import: nothing is mounted yet, so no request is inside.
LEMMA ImportInv == ASSUME Inv, Import PROVE Inv'
<1> DEFINE c == Order[imports + 1]
<1>1. /\ imports < Len(Order) /\ imports' = imports + 1
      /\ applied' = [applied EXCEPT ![c] =
                       [f \in DOMAIN Ressources[c].routes |-> DecoratorsOf(c, f)]]
      /\ roles' = [roles EXCEPT ![c] =
                     [f \in DOMAIN Ressources[c].routes |-> RolesIn(DecoratorsOf(c, f))]]
      /\ UNCHANGED <<adds, mounted, pc, call, client, passed, error, status, granted,
                     touched, spent, windows, served>>
  BY DEF Import, trace, limits
<1>2. /\ imports \in 0 .. Len(Order) /\ Len(Order) \in Nat
      /\ imports + 1 \in 1 .. Len(Order) /\ c \in DOMAIN Ressources
  <2>1. imports \in 0 .. Len(Order) /\ Order \in Seq(DOMAIN Ressources)
    BY ConstantsAssumption DEF Inv, TypeOK
  <2>2. imports + 1 \in 1 .. Len(Order) BY <1>1, <2>1
  <2>3. QED BY <2>1, <2>2
<1>3. DOMAIN applied = DOMAIN Ressources /\ DOMAIN roles = DOMAIN Ressources
  BY DEF Inv, TypeOK
<1>4. mounted = {} /\ \A r \in Requests : ~Inside(r)
  <2>1. \A d : d \notin mounted BY <1>1, <1>2, MountedIsApplied
  <2>2. QED BY <2>1 DEF Inv, Arrived
<1>5. \A r \in Requests : ~Inside(r)' BY <1>1, <1>4 DEF Inside
<1>6. /\ applied'[c] = Full(c) /\ \A d \in DOMAIN Ressources \ {c} : applied'[d] = applied[d]
      /\ DOMAIN applied' = DOMAIN Ressources
  BY <1>1, <1>2, <1>3 DEF Full
<1>7. TypeOK'
  <2>1. imports' \in 0 .. Len(Order) BY <1>1, <1>2
  <2>2. /\ roles'[c] = [f \in DOMAIN Ressources[c].routes |-> RolesIn(DecoratorsOf(c, f))]
        /\ \A d \in DOMAIN Ressources \ {c} : roles'[d] = roles[d]
        /\ DOMAIN roles' = DOMAIN Ressources
    BY <1>1, <1>2, <1>3
  <2>3. \A d \in DOMAIN Ressources :
          \/ applied'[d] = [f \in {} |-> <<>>] /\ roles'[d] = [f \in {} |-> {}]
          \/ /\ applied'[d] = [f \in DOMAIN Ressources[d].routes |-> DecoratorsOf(d, f)]
             /\ roles'[d] =
                  [f \in DOMAIN Ressources[d].routes |-> RolesIn(DecoratorsOf(d, f))]
    <3> SUFFICES ASSUME NEW d \in DOMAIN Ressources
                 PROVE  \/ applied'[d] = [f \in {} |-> <<>>] /\ roles'[d] = [f \in {} |-> {}]
                        \/ /\ applied'[d] = [f \in DOMAIN Ressources[d].routes |->
                                               DecoratorsOf(d, f)]
                           /\ roles'[d] = [f \in DOMAIN Ressources[d].routes |->
                                             RolesIn(DecoratorsOf(d, f))]
      OBVIOUS
    <3>1. CASE d = c BY <1>6, <2>2, <3>1 DEF Full
    <3>2. CASE d # c
      <4>1. applied'[d] = applied[d] /\ roles'[d] = roles[d] BY <1>6, <2>2, <3>2
      <4>2. QED BY <4>1 DEF Inv, TypeOK
    <3>3. QED BY <3>1, <3>2
  <2>4. QED BY <1>1, <1>6, <2>1, <2>2, <2>3 DEF Inv, TypeOK
<1>8. Imported'
  <2> SUFFICES ASSUME NEW j \in 1 .. imports + 1 PROVE applied'[Order[j]] = Full(Order[j])
    BY <1>1 DEF Imported, Full, DecoratorsOf
  <2>1. CASE Order[j] = c BY <1>6, <2>1
  <2>2. CASE Order[j] # c
    <3>1. j \in 1 .. imports /\ j \in 1 .. Len(Order) BY <1>1, <1>2, <2>2
    <3>2. Order[j] \in DOMAIN Ressources BY <3>1, ConstantsAssumption
    <3>3. QED BY <1>6, <2>2, <3>1, <3>2 DEF Inv, Imported
  <2>3. QED BY <2>1, <2>2
<1>9. Adding'
  <2>1. adds = 0 BY <1>1, <1>2, ConstantsAssumption DEF Inv, Adding, TypeOK
  <2>2. QED BY <1>1, <1>4, <2>1 DEF Inv, Adding, Acceptable, Declares
<1>10. Arrived' BY <1>1, <1>5 DEF Inv, Arrived
<1>11. Permitted' BY <1>5 DEF Permitted
<1>12. HandledErrorsAreTranslated'
  <2>1. \A r \in Requests : touched'[r] = {} BY <1>5 DEF Inside
  <2>2. QED BY <2>1 DEF HandledErrorsAreTranslated
<1>13. Counting'
  <2>1. \A n : Through(n)' = Through(n) BY <1>1 DEF Through, Counter, Decs, DecoratorsOf
  <2>2. QED BY <1>1, <2>1 DEF Inv, Counting
<1>14. QED BY <1>7, <1>8, <1>9, <1>10, <1>11, <1>12, <1>13 DEF Inv

\* AddRessource: one more class is mounted, if it is acceptable.
LEMMA AddRessourceInv == ASSUME Inv, AddRessource PROVE Inv'
<1> DEFINE c == Configured[adds + 1]
<1>1. /\ imports = Len(Order) /\ adds < Len(Configured) /\ adds' = adds + 1
      /\ mounted' = IF Constructible(c) THEN mounted \cup {c} ELSE mounted
      /\ UNCHANGED <<imports, applied, roles, pc, call, client, passed, error, status, granted,
                     touched, spent, windows, served>>
  BY DEF AddRessource, trace, limits
<1>2. /\ adds \in 0 .. Len(Configured) /\ Len(Configured) \in Nat
      /\ adds + 1 \in 1 .. Len(Configured) /\ c \in DOMAIN Ressources
  <2>1. adds \in 0 .. Len(Configured) /\ Configured \in Seq(DOMAIN Ressources)
    BY ConstantsAssumption DEF Inv, TypeOK
  <2>2. adds + 1 \in 1 .. Len(Configured) BY <1>1, <2>1
  <2>3. QED BY <2>1, <2>2
<1>3. applied[c] = Full(c)
  <2>1. adds + 1 \in DOMAIN Configured BY <1>2, ConstantsAssumption
  <2>2. PICK j \in DOMAIN Order : Order[j] = c BY <2>1, ConstantsAssumption
  <2>3. j \in 1 .. imports BY <1>1, <2>2, ConstantsAssumption
  <2>4. QED BY <2>2, <2>3 DEF Inv, Imported
<1>4. Constructible(c) <=> Acceptable(c)
  <2>1. DOMAIN applied[c] = DOMAIN Ressources[c].routes BY <1>3 DEF Full
  <2>2. ASSUME NEW f \in DOMAIN Ressources[c].routes
        PROVE  (\E i \in DOMAIN applied[c][f] : applied[c][f][i].kind = "limit")
                 <=> (\E d \in Declares(c, f) : d.kind = "limit")
    <3>1. <<c, f>> \in Calls BY <1>2 DEF Calls
    <3>2. applied[c][f] = Decs(<<c, f>>) BY <1>3 DEF Full, Decs
    <3>3. Elements(applied[c][f]) = Declares(c, f) BY <3>1, <3>2, StackIs
    <3>4. QED BY <3>3 DEF Elements
  <2>3. QED BY <2>1, <2>2 DEF Constructible, Acceptable
<1> HIDE DEF c
<1>5. TypeOK'
  <2>1. adds' \in 0 .. Len(Configured) BY <1>1, <1>2
  <2>2. mounted' \subseteq DOMAIN Ressources BY <1>1, <1>2 DEF Inv, TypeOK
  <2>3. QED BY <1>1, <2>1, <2>2 DEF Inv, TypeOK
<1>6. Imported' BY <1>1 DEF Inv, Imported, Full, DecoratorsOf
<1>7. Adding'
  <2>1. mounted = {Configured[i] : i \in {j \in 1 .. adds : Acceptable(Configured[j])}}
    BY DEF Inv, Adding
  <2>2. 1 .. adds + 1 = (1 .. adds) \cup {adds + 1} BY <1>2
  <2>3. mounted' = {Configured[i] : i \in {j \in 1 .. adds + 1 : Acceptable(Configured[j])}}
    <3>1. CASE Acceptable(c)
      <4>1. mounted' = mounted \cup {c} BY <1>1, <1>4, <3>1
      <4>2. {j \in 1 .. adds + 1 : Acceptable(Configured[j])}
              = {j \in 1 .. adds : Acceptable(Configured[j])} \cup {adds + 1}
        BY <2>2, <3>1 DEF c
      <4>3. QED BY <2>1, <4>1, <4>2 DEF c
    <3>2. CASE ~Acceptable(c)
      <4>1. mounted' = mounted BY <1>1, <1>4, <3>2
      <4>2. {j \in 1 .. adds + 1 : Acceptable(Configured[j])}
              = {j \in 1 .. adds : Acceptable(Configured[j])}
        BY <2>2, <3>2 DEF c
      <4>3. QED BY <2>1, <4>1, <4>2
    <3>3. QED BY <3>1, <3>2
  <2>4. QED BY <1>1, <2>3 DEF Adding, Acceptable, Declares
<1>8. Arrived'
  <2>1. mounted \subseteq mounted' BY <1>1
  <2>2. \A r \in Requests : Inside(r)' = Inside(r) BY <1>1 DEF Inside
  <2>3. QED BY <1>1, <2>1, <2>2 DEF Inv, Arrived, Layers, Decs, DecoratorsOf
<1>9. Permitted' BY <1>1 DEF Inv, Permitted, Inside, Layers, Decs, DecoratorsOf
<1>10. HandledErrorsAreTranslated'
  BY <1>1 DEF Inv, HandledErrorsAreTranslated, DeclaredWith, Declares
<1>11. Counting'
  <2>1. \A n : Through(n)' = Through(n) BY <1>1 DEF Through, Counter, Decs, DecoratorsOf
  <2>2. QED BY <1>1, <2>1 DEF Inv, Counting
<1>12. QED BY <1>5, <1>6, <1>7, <1>8, <1>9, <1>10, <1>11 DEF Inv

-----------------------------------------------------------------------------
(* The way to the route                                                    *)

\* Steps of a request leave the build alone.
LEMMA BuildRests ==
    ASSUME Inv, UNCHANGED build
    PROVE  /\ UNCHANGED <<imports, applied, roles, adds, mounted>>
           /\ Imported' /\ Adding'
<1>1. UNCHANGED <<imports, applied, roles, adds, mounted>> BY DEF build
<1>2. Imported' BY <1>1 DEF Inv, Imported, Full, DecoratorsOf
<1>3. Adding' BY <1>1 DEF Inv, Adding, Acceptable, Declares
<1>4. QED BY <1>1, <1>2, <1>3

\* A step of a request that is not inside, and has met no layer after it.
LEMMA OutsideInv ==
    ASSUME Inv, NEW r \in Requests, pc[r] \in Outside,
           UNCHANGED <<build, passed, granted, touched, spent, windows, served>>,
           \A q \in Requests \ {r} : /\ pc'[q] = pc[q] /\ call'[q] = call[q]
                                      /\ client'[q] = client[q]
                                      /\ error'[q] = error[q] /\ status'[q] = status[q],
           pc' \in [Requests -> Outside \cup {"layers", "answered"}],
           call' \in [Requests -> Calls \cup {NoCall}], call'[r] \in Calls,
           client' \in [Requests -> Clients \cup {NoClient}], client'[r] \in Clients,
           DOMAIN error' = Requests, status' \in [Requests -> Nat],
           pc'[r] = "layers" => call'[r][1] \in mounted
    PROVE  Inv'
<1>1. /\ UNCHANGED <<imports, applied, roles, adds, mounted>> /\ Imported' /\ Adding'
  BY BuildRests
<1>2. passed[r] = {} /\ touched[r] = {} BY DEF Inv, Arrived
<1>3. TypeOK' BY <1>1 DEF Inv, TypeOK, Outside
<1>4. \A q \in Requests \ {r} : Inside(q)' = Inside(q) BY DEF Inside
<1>5. Arrived'
  <2> SUFFICES ASSUME NEW q \in Requests
               PROVE  /\ pc'[q] # "idle" => call'[q] \in Calls /\ client'[q] \in Clients
                      /\ pc'[q] \in Outside => passed[q] = {} /\ touched[q] = {}
                      /\ Inside(q)' => /\ call'[q][1] \in mounted
                                       /\ passed[q] \subseteq Layers(Decs(call'[q]))
    BY <1>1 DEF Arrived, Layers, Decs, DecoratorsOf
  <2>1. CASE q = r BY <1>2, <2>1 DEF Inside
  <2>2. CASE q # r BY <1>4, <2>2 DEF Inv, Arrived
  <2>3. QED BY <2>1, <2>2
<1>6. Permitted'
  <2> SUFFICES ASSUME NEW q \in Requests, Inside(q)', NEW j \in Layers(Decs(call'[q])),
                      Decs(call'[q])[j].kind = "permission"
               PROVE  /\ touched[q] \cap Behind # {} => j \in passed[q]
                      /\ j \in passed[q] =>
                           Elements(Decs(call'[q])[j].do) \subseteq granted[q]
    BY DEF Permitted, Layers, Decs, DecoratorsOf
  <2>1. CASE q = r BY <1>2, <2>1
  <2>2. CASE q # r
    <3>1. call'[q] = call[q] BY <2>2
    <3>2. QED BY <1>4, <2>2, <3>1 DEF Inv, Permitted
  <2>3. QED BY <2>1, <2>2
<1>7. HandledErrorsAreTranslated'
  <2> SUFFICES ASSUME NEW q \in Requests, pc'[q] = "answered",
                      touched[q] \ {"permission", "handler"} # {},
                      NEW h \in DeclaredWith(call'[q][1], call'[q][2], "handler"),
                      error'[q] \in DOMAIN Translation[h]
               PROVE  status'[q] = Translation[h][error'[q]]
    BY DEF HandledErrorsAreTranslated, DeclaredWith, Declares
  <2>1. q # r BY <1>2
  <2>2. pc[q] = "answered" /\ call'[q] = call[q] BY <2>1
  <2>3. QED BY <2>1, <2>2 DEF Inv, HandledErrorsAreTranslated
<1>8. Counting'
  <2>1. \A n : Through(n)' = Through(n)
    <3> SUFFICES ASSUME NEW n PROVE Through(n)' = Through(n) OBVIOUS
    <3>1. ASSUME NEW q \in Requests
          PROVE  (pc[q] = "layers" /\ Counter(q) = n
                    /\ \E i \in passed[q] : Decs(n[1])[i].kind = "limit")'
                 <=> (pc[q] = "layers" /\ Counter(q) = n
                        /\ \E i \in passed[q] : Decs(n[1])[i].kind = "limit")
      <4>1. CASE q = r BY <1>2, <4>1
      <4>2. CASE q # r
        <5>1. pc'[q] = pc[q] /\ Counter(q)' = Counter(q) /\ passed'[q] = passed[q]
          BY <4>2 DEF Counter
        <5>2. QED BY <5>1 DEF Decs, DecoratorsOf
      <4>3. QED BY <4>1, <4>2
    <3>2. QED BY <3>1 DEF Through
  <2>2. QED BY <2>1 DEF Inv, Counting
<1>9. QED BY <1>1, <1>3, <1>5, <1>6, <1>7, <1>8 DEF Inv

\* What a step of a request knows of its variables.
LEMMA Shapes ==
    ASSUME Inv
    PROVE  /\ pc \in [Requests -> Outside \cup {"layers", "answered"}]
           /\ call \in [Requests -> Calls \cup {NoCall}]
           /\ client \in [Requests -> Clients \cup {NoClient}]
           /\ passed \in [Requests -> SUBSET Nat]
           /\ DOMAIN error = Requests
           /\ status \in [Requests -> Nat]
           /\ granted \in [Requests -> SUBSET STRING]
           /\ touched \in [Requests -> SUBSET ((Kinds \ {"roles"}) \cup {"endpoint"})]
BY DEF Inv, TypeOK, Outside

\* Arrive: the request is for some route.
LEMMA ArriveInv == ASSUME Inv, NEW r \in Requests, Arrive(r) PROVE Inv'
<1>1. PICK k \in RoutesOf[r], c \in Clients :
        /\ pc[r] = "idle" /\ pc' = [pc EXCEPT ![r] = "security"]
        /\ call' = [call EXCEPT ![r] = k] /\ client' = [client EXCEPT ![r] = c]
        /\ UNCHANGED <<build, passed, error, status, granted, touched, spent, windows, served>>
  BY DEF Arrive, trace, limits
<1>2. k \in Calls BY ConstantsAssumption
<1>3. pc[r] \in Outside /\ "security" \in Outside BY <1>1 DEF Outside
<1>4. /\ \A q \in Requests \ {r} : /\ pc'[q] = pc[q] /\ call'[q] = call[q]
                                    /\ client'[q] = client[q]
                                    /\ error'[q] = error[q] /\ status'[q] = status[q]
      /\ pc'[r] = "security"
      /\ pc' \in [Requests -> Outside \cup {"layers", "answered"}]
      /\ call' \in [Requests -> Calls \cup {NoCall}] /\ call'[r] = k
      /\ client' \in [Requests -> Clients \cup {NoClient}] /\ client'[r] \in Clients
      /\ DOMAIN error' = Requests /\ status' \in [Requests -> Nat]
  BY <1>1, <1>2, <1>3, Shapes
<1>5. QED BY <1>1, <1>2, <1>3, <1>4, OutsideInv

\* A request that goes on outside or is answered there.
LEMMA FinishesOutside ==
    ASSUME Inv, NEW r \in Requests, pc[r] \in Outside \ {"idle"},
           UNCHANGED <<build, call, client, passed, trace, limits, served>>,
           \/ \E e : \E s \in Nat : Finish(r, e, s)
           \/ /\ pc' = [pc EXCEPT ![r] = "auth"] \/ pc' = [pc EXCEPT ![r] = "router"]
              /\ UNCHANGED <<error, status>>
           \/ /\ pc' = [pc EXCEPT ![r] = "layers"] /\ call[r][1] \in mounted
              /\ UNCHANGED <<error, status>>
    PROVE  Inv'
<1>1. UNCHANGED <<build, call, client, passed, granted, touched, spent, windows, served>>
  BY DEF trace, limits
<1>2. call[r] \in Calls /\ client[r] \in Clients BY DEF Inv, Arrived
<1>3. PICK p \in {"auth", "router", "layers", "answered"} :
        /\ pc' = [pc EXCEPT ![r] = p]
        /\ p = "layers" => call[r][1] \in mounted
  BY DEF Finish
<1>4. /\ \A q \in Requests \ {r} : pc'[q] = pc[q] /\ pc'[r] = p
      /\ pc' \in [Requests -> Outside \cup {"layers", "answered"}]
  BY <1>3, Shapes DEF Outside
<1>5. /\ \A q \in Requests \ {r} : status'[q] = status[q]
      /\ status' \in [Requests -> Nat]
  <2>1. status \in [Requests -> Nat] BY Shapes
  <2>2. \/ status' = status
        \/ \E s \in Nat : status' = [status EXCEPT ![r] = s]
    BY DEF Finish
  <2>3. QED BY <2>1, <2>2
<1>6. DOMAIN error' = Requests /\ \A q \in Requests \ {r} : error'[q] = error[q]
  <2>1. error' = error \/ \E e : error' = [error EXCEPT ![r] = e] BY DEF Finish
  <2>2. QED BY <2>1, Shapes
<1>7. pc'[r] = p BY <1>3, Shapes
<1>8. \A q \in Requests \ {r} : /\ pc'[q] = pc[q] /\ call'[q] = call[q]
                                /\ client'[q] = client[q]
                                /\ error'[q] = error[q] /\ status'[q] = status[q]
  BY <1>1, <1>4, <1>5, <1>6
<1>9. /\ call' \in [Requests -> Calls \cup {NoCall}] /\ call'[r] \in Calls
      /\ client' \in [Requests -> Clients \cup {NoClient}] /\ client'[r] \in Clients
  BY <1>1, <1>2, Shapes
<1>10. pc[r] \in Outside OBVIOUS
<1>11. pc'[r] = "layers" => call'[r][1] \in mounted BY <1>1, <1>3, <1>7
<1>12. QED BY <1>1, <1>4, <1>5, <1>6, <1>8, <1>9, <1>10, <1>11, OutsideInv

\* Security, Authenticate, Reach: the three stations before the layers.
LEMMA SecurityInv == ASSUME Inv, NEW r \in Requests, Security(r) PROVE Inv'
<1>1. pc[r] \in Outside \ {"idle"} BY DEF Security, Outside
<1>2. UNCHANGED <<build, call, client, passed, trace, limits, served>> BY DEF Security
<1>3. CASE Finish(r, "Unauthorized", 401)
  <2>1. \E e : \E s \in Nat : Finish(r, e, s) BY <1>3
  <2>2. QED BY <1>1, <1>2, <2>1, FinishesOutside
<1>4. CASE pc' = [pc EXCEPT ![r] = "auth"] /\ UNCHANGED <<error, status>>
  BY <1>1, <1>2, <1>4, FinishesOutside
<1>5. QED BY <1>3, <1>4 DEF Security

LEMMA AuthenticateInv == ASSUME Inv, NEW r \in Requests, Authenticate(r) PROVE Inv'
<1>1. pc[r] \in Outside \ {"idle"} BY DEF Authenticate, Outside
<1>2. UNCHANGED <<build, call, client, passed, trace, limits, served>> BY DEF Authenticate
<1>3. CASE Finish(r, "KeyError", 400) \/ Finish(r, "Forbidden", 500)
  <2>1. \E e : \E s \in Nat : Finish(r, e, s) BY <1>3
  <2>2. QED BY <1>1, <1>2, <2>1, FinishesOutside
<1>4. CASE pc' = [pc EXCEPT ![r] = "router"] /\ UNCHANGED <<error, status>>
  BY <1>1, <1>2, <1>4, FinishesOutside
<1>5. QED BY <1>3, <1>4 DEF Authenticate

LEMMA ReachInv == ASSUME Inv, NEW r \in Requests, Reach(r) PROVE Inv'
<1>1. pc[r] \in Outside \ {"idle"} /\ call[r] \in Calls
  BY DEF Reach, Outside, Inv, Arrived
<1>2. UNCHANGED <<build, call, client, passed, trace, limits, served>> BY DEF Reach
<1>3. ASSUME NEW e, Finish(r, e, 404) \/ Finish(r, e, AppStatus(e)) PROVE Inv'
  <2>1. 404 \in Nat /\ AppStatus(e) \in Nat BY <1>1, AnswersAreNumbers
  <2>2. \E x : \E s \in Nat : Finish(r, x, s) BY <1>3, <2>1
  <2>3. QED BY <1>1, <1>2, <2>2, FinishesOutside
<1>4. CASE /\ call[r][1] \in mounted /\ pc' = [pc EXCEPT ![r] = "layers"]
           /\ UNCHANGED <<error, status>>
  BY <1>1, <1>2, <1>4, FinishesOutside
<1>5. QED BY <1>3, <1>4 DEF Reach

-----------------------------------------------------------------------------
(* The way through the layers                                              *)

\* If a handler among the layers knows an exception, that is the answer.
LEMMA KnownIsAnswered ==
    ASSUME NEW k \in Calls, NEW S \in SUBSET Layers(Decs(k)), NEW j \in S, NEW e,
           Decs(k)[j].kind = "handler", NEW h \in Elements(Decs(k)[j].do),
           e \in DOMAIN Translation[h]
    PROVE  Answer(Decs(k), S, e) = Translation[h][e]
<1>1. \A g \in Knowing(Decs(k), S, e) : g \in DOMAIN Translation /\ e \in DOMAIN Translation[g]
  <2> SUFFICES ASSUME NEW g \in Knowing(Decs(k), S, e)
               PROVE  g \in DOMAIN Translation /\ e \in DOMAIN Translation[g]
    OBVIOUS
  <2>1. PICK l \in S : /\ Decs(k)[l].kind = "handler" /\ g \in Elements(Decs(k)[l].do)
                       /\ e \in DOMAIN Translation[g]
    BY DEF Knowing
  <2>2. l \in DOMAIN Decs(k) BY DEF Layers
  <2>3. QED BY <2>1, <2>2, HandlersAssumption DEF Elements, Decs
<1>2. h \in Knowing(Decs(k), S, e) BY DEF Knowing
<1>3. \A g \in Knowing(Decs(k), S, e) : g = h BY <1>1, <1>2, HandlersAreDisjoint
<1> DEFINE c == CHOOSE x \in Knowing(Decs(k), S, e) : TRUE
<1>4. c \in Knowing(Decs(k), S, e) BY <1>2
<1>5. Answer(Decs(k), S, e) = Translation[c][e] BY <1>2 DEF Answer
<1>6. QED BY <1>3, <1>4, <1>5

\* What is declared as a handler is one.
LEMMA DeclaredAreHandlers ==
    ASSUME NEW k \in Calls, NEW h \in DeclaredWith(k[1], k[2], "handler")
    PROVE  h \in DOMAIN Translation
<1>1. PICK j \in Layers(Decs(k)) : Decs(k)[j].kind = "handler" /\ h \in Elements(Decs(k)[j].do)
  BY DeclaredAreLayers
<1>2. QED BY <1>1, HandlersAssumption DEF Elements, Decs, Layers

\* An exception of the function passes all layers, so every declared handler
\* is among them.
LEMMA DeclaredAnswersEndpoint ==
    ASSUME NEW k \in Calls, NEW h \in DeclaredWith(k[1], k[2], "handler"),
           NEW e \in DOMAIN Translation[h]
    PROVE  Answer(Decs(k), Layers(Decs(k)), e) = Translation[h][e]
<1>1. PICK j \in Layers(Decs(k)) : Decs(k)[j].kind = "handler" /\ h \in Elements(Decs(k)[j].do)
  BY DeclaredAreLayers
<1> DEFINE S == Layers(Decs(k))
<1>2. S \in SUBSET Layers(Decs(k)) /\ j \in S OBVIOUS
<1> HIDE DEF S
<1>3. Answer(Decs(k), S, e) = Translation[h][e] BY <1>1, <1>2, KnownIsAnswered
<1>4. QED BY <1>3 DEF S

\* The limiter's exception and the absence of one concern no handler.
LEMMA NobodyTranslates ==
    ASSUME NEW h \in DOMAIN Translation
    PROVE  "RateLimitExceeded" \notin DOMAIN Translation[h] /\ "none" \notin DOMAIN Translation[h]
BY DEF Translation

\* A step inside that keeps what the permissions and the handlers promise.
LEMMA InsideInv ==
    ASSUME Inv, NEW r \in Requests, pc[r] = "layers", UNCHANGED <<build, call, client>>,
           \A q \in Requests \ {r} :
              /\ pc'[q] = pc[q] /\ passed'[q] = passed[q] /\ touched'[q] = touched[q]
              /\ granted'[q] = granted[q] /\ error'[q] = error[q] /\ status'[q] = status[q],
           pc'[r] \in {"layers", "answered"},
           passed'[r] \subseteq Layers(Decs(call[r])),
           \A j \in Layers(Decs(call[r])) : Decs(call[r])[j].kind = "permission" =>
              /\ touched'[r] \cap Behind # {} => j \in passed'[r]
              /\ j \in passed'[r] => Elements(Decs(call[r])[j].do) \subseteq granted'[r],
           pc'[r] = "answered" /\ touched'[r] \ {"permission", "handler"} # {} =>
              \A h \in DeclaredWith(call[r][1], call[r][2], "handler") :
                 error'[r] \in DOMAIN Translation[h] => status'[r] = Translation[h][error'[r]]
    PROVE  Imported' /\ Adding' /\ Arrived' /\ Permitted' /\ HandledErrorsAreTranslated'
<1>1. /\ UNCHANGED <<imports, applied, roles, adds, mounted>> /\ Imported' /\ Adding'
  BY BuildRests
<1>2. call[r] \in Calls /\ client[r] \in Clients /\ call[r][1] \in mounted
  BY DEF Inv, Arrived, Inside
<1>3. \A q \in Requests \ {r} : Inside(q)' = Inside(q) BY DEF Inside
<1>4. Arrived'
  <2> SUFFICES ASSUME NEW q \in Requests
               PROVE  /\ pc'[q] # "idle" => call[q] \in Calls /\ client[q] \in Clients
                      /\ pc'[q] \in Outside => passed'[q] = {} /\ touched'[q] = {}
                      /\ Inside(q)' => /\ call[q][1] \in mounted
                                       /\ passed'[q] \subseteq Layers(Decs(call[q]))
    BY <1>1 DEF Arrived, Layers, Decs, DecoratorsOf
  <2>1. CASE q = r BY <1>2, <2>1 DEF Outside
  <2>2. CASE q # r
    <3>1. /\ pc'[q] = pc[q] /\ passed'[q] = passed[q] /\ touched'[q] = touched[q]
          /\ Inside(q)' = Inside(q)
      BY <1>3, <2>2
    <3>2. QED BY <3>1 DEF Inv, Arrived
  <2>3. QED BY <2>1, <2>2
<1>5. Permitted'
  <2> SUFFICES ASSUME NEW q \in Requests, Inside(q)', NEW j \in Layers(Decs(call[q])),
                      Decs(call[q])[j].kind = "permission"
               PROVE  /\ touched'[q] \cap Behind # {} => j \in passed'[q]
                      /\ j \in passed'[q] => Elements(Decs(call[q])[j].do) \subseteq granted'[q]
    BY DEF Permitted, Layers, Decs, DecoratorsOf
  <2>1. CASE q = r BY <2>1
  <2>2. CASE q # r
    <3>1. /\ passed'[q] = passed[q] /\ touched'[q] = touched[q] /\ granted'[q] = granted[q]
          /\ Inside(q)
      BY <1>3, <2>2
    <3>2. QED BY <3>1 DEF Inv, Permitted
  <2>3. QED BY <2>1, <2>2
<1>6. HandledErrorsAreTranslated'
  <2> SUFFICES ASSUME NEW q \in Requests, pc'[q] = "answered",
                      touched'[q] \ {"permission", "handler"} # {},
                      NEW h \in DeclaredWith(call[q][1], call[q][2], "handler"),
                      error'[q] \in DOMAIN Translation[h]
               PROVE  status'[q] = Translation[h][error'[q]]
    BY DEF HandledErrorsAreTranslated, DeclaredWith, Declares
  <2>1. CASE q = r BY <2>1
  <2>2. CASE q # r
    <3>1. /\ pc[q] = "answered" /\ touched[q] = touched'[q]
          /\ error'[q] = error[q] /\ status'[q] = status[q]
      BY <2>2
    <3>2. QED BY <3>1 DEF Inv, HandledErrorsAreTranslated
  <2>3. QED BY <2>1, <2>2
<1>7. QED BY <1>1, <1>4, <1>5, <1>6

\* Nobody new has passed a limiter: the count of a route stays good.
LEMMA FewerThrough ==
    ASSUME Inv, NEW n \in Counters, Through(n)' \subseteq Through(n),
           served'[n] = served[n], windows'[n] = windows[n], spent'[n] = spent[n]
    PROVE  /\ IsFiniteSet(Through(n)')
           /\ served'[n] + Cardinality(Through(n)') <= Allowance * (windows'[n] - 1) + spent'[n]
<1>1. /\ IsFiniteSet(Through(n))
      /\ served[n] + Cardinality(Through(n)) <= Allowance * (windows[n] - 1) + spent[n]
  BY DEF Inv, Counting
<1>2. /\ IsFiniteSet(Through(n)') /\ Cardinality(Through(n)') <= Cardinality(Through(n))
  BY <1>1, FS_Subset
<1>3. Cardinality(Through(n)) \in Nat /\ Cardinality(Through(n)') \in Nat
  BY <1>1, <1>2, FS_CardinalityType
<1>4. /\ served[n] \in Nat /\ spent[n] \in Nat /\ windows[n] \in Nat /\ Allowance \in Nat
  BY ConstantsAssumption DEF Inv, TypeOK
<1> DEFINE a == Allowance * (windows[n] - 1)
<1>5. a \in Int BY <1>4
<1> HIDE DEF a
<1>6. served[n] + Cardinality(Through(n)) <= a + spent[n] BY <1>1 DEF a
<1>7. served[n] + Cardinality(Through(n)') <= a + spent[n] BY <1>2, <1>3, <1>4, <1>5, <1>6
<1>8. QED BY <1>2, <1>7 DEF a

\* Layer: the permissions come first, then the handlers; a layer that raises
\* behind them is enclosed by all of them.
LEMMA LayerInv ==
    ASSUME Inv, NEW r \in Requests, pc[r] = "layers",
           NEW i \in Layers(Applied(r)), Layer(r, i)
    PROVE  Inv'
<1> DEFINE k == call[r]
           ds == Decs(k)
           d == ds[i]
<1>1. k \in Calls /\ Applied(r) = ds /\ i \in Layers(ds) BY AppliedIs DEF Inside
<1>2. /\ i \notin passed[r] /\ \A j \in Layers(ds) : Encloses(ds, j, i) => j \in passed[r]
      /\ d.kind # "limit"
      /\ touched' = [touched EXCEPT ![r] = @ \cup {d.kind}]
      /\ UNCHANGED <<build, call, client, spent, windows, served>>
  BY <1>1 DEF Layer, NextLayer, limits
<1>3. PICK o \in Results(r, d) :
        IF o = "pass"
        THEN /\ passed' = [passed EXCEPT ![r] = @ \cup {i}]
             /\ granted' = IF d.kind = "permission"
                           THEN [granted EXCEPT ![r] = @ \cup Elements(d.do)] ELSE granted
             /\ UNCHANGED <<pc, error, status>>
        ELSE /\ Finish(r, o, Answer(ds, {j \in Layers(ds) : Encloses(ds, j, i)}, o))
             /\ UNCHANGED <<passed, granted>>
  BY <1>1 DEF Layer
<1>4. /\ i \in Nat /\ d.do \in Seq(STRING)
      /\ d.kind \in {"permission", "handler", "pipe", "guard", "ping"}
  BY <1>1, <1>2, LayersAre
<1>5. Elements(d.do) \subseteq STRING BY <1>4 DEF Elements
<1>6. /\ \A j \in Layers(ds) : ds[j].kind = "permission" =>
           /\ touched[r] \cap Behind # {} => j \in passed[r]
           /\ j \in passed[r] => Elements(ds[j].do) \subseteq granted[r]
      /\ passed[r] \subseteq Layers(ds)
  BY DEF Inv, Permitted, Arrived, Inside
<1> HIDE DEF ds, d
<1>7. /\ touched'[r] = touched[r] \cup {d.kind}
      /\ \A q \in Requests \ {r} : touched'[q] = touched[q]
      /\ touched' \in [Requests -> SUBSET ((Kinds \ {"roles"}) \cup {"endpoint"})]
  <2>1. d.kind \in (Kinds \ {"roles"}) \cup {"endpoint"} BY <1>4 DEF Kinds
  <2>2. QED BY <1>2, <2>1, Shapes
<1>8. ASSUME NEW j \in Layers(ds), ds[j].kind = "permission", touched'[r] \cap Behind # {}
      PROVE  j \in passed[r]
  <2>1. CASE touched[r] \cap Behind # {} BY <1>6, <1>8, <2>1
  <2>2. CASE touched[r] \cap Behind = {}
    <3>1. d.kind \in Behind BY <1>7, <1>8, <2>2
    <3>2. d.kind # "permission" BY <3>1 DEF Behind
    <3>3. Encloses(ds, j, i) BY <1>1, <1>8, <3>2, OutermostFirst DEF ds, d
    <3>4. QED BY <1>2, <3>3
  <2>3. QED BY <2>1, <2>2
<1>9. CASE o = "pass"
  <2>1. /\ passed' = [passed EXCEPT ![r] = @ \cup {i}]
        /\ granted' = IF d.kind = "permission"
                      THEN [granted EXCEPT ![r] = @ \cup Elements(d.do)] ELSE granted
        /\ UNCHANGED <<pc, error, status>>
    BY <1>3, <1>9
  <2>2. /\ passed'[r] = passed[r] \cup {i}
        /\ \A q \in Requests \ {r} : passed'[q] = passed[q]
        /\ passed' \in [Requests -> SUBSET Nat]
    BY <1>4, <2>1, Shapes
  <2>3. /\ granted[r] \subseteq granted'[r]
        /\ d.kind = "permission" => Elements(d.do) \subseteq granted'[r]
        /\ \A q \in Requests \ {r} : granted'[q] = granted[q]
        /\ granted' \in [Requests -> SUBSET STRING]
    BY <1>5, <2>1, Shapes
  <2>4. TypeOK'
    <3>1. UNCHANGED <<imports, applied, roles, adds, mounted>> BY <1>2, BuildRests
    <3>2. UNCHANGED <<pc, call, client, error, status, spent, windows, served>>
      BY <1>2, <2>1
    <3>3. QED BY <1>7, <2>2, <2>3, <3>1, <3>2 DEF Inv, TypeOK
  <2>5. \A j \in Layers(ds) : ds[j].kind = "permission" =>
           /\ touched'[r] \cap Behind # {} => j \in passed'[r]
           /\ j \in passed'[r] => Elements(ds[j].do) \subseteq granted'[r]
    <3> SUFFICES ASSUME NEW j \in Layers(ds), ds[j].kind = "permission"
                 PROVE  /\ touched'[r] \cap Behind # {} => j \in passed'[r]
                        /\ j \in passed'[r] => Elements(ds[j].do) \subseteq granted'[r]
      OBVIOUS
    <3>1. touched'[r] \cap Behind # {} => j \in passed'[r] BY <1>8, <2>2
    <3>2. CASE j = i BY <2>3, <3>1, <3>2 DEF d
    <3>3. CASE j # i BY <1>6, <2>2, <2>3, <3>1, <3>3
    <3>4. QED BY <3>2, <3>3
  <2>6. passed'[r] \subseteq Layers(ds) BY <1>1, <1>6, <2>2
  <2>7. pc'[r] = "layers" BY <2>1
  <2>8. Imported' /\ Adding' /\ Arrived' /\ Permitted' /\ HandledErrorsAreTranslated'
    <3>1. \A q \in Requests \ {r} :
             /\ pc'[q] = pc[q] /\ passed'[q] = passed[q] /\ touched'[q] = touched[q]
             /\ granted'[q] = granted[q] /\ error'[q] = error[q] /\ status'[q] = status[q]
      BY <1>7, <2>1, <2>2, <2>3
    <3>2. UNCHANGED <<build, call, client>> BY <1>2
    <3>3. QED BY <2>5, <2>6, <2>7, <3>1, <3>2, InsideInv DEF ds
  <2>9. ASSUME NEW c \in Counters PROVE Through(c)' \subseteq Through(c)
    <3>1. Through(c)' = {q \in Requests : /\ pc[q] = "layers" /\ Counter(q) = c
                                          /\ \E l \in passed'[q] : Decs(c[1])[l].kind = "limit"}
      BY <1>2, <2>1 DEF Through, Counter, Decs, DecoratorsOf
    <3>2. ASSUME NEW q \in Through(c)' PROVE q \in Through(c)
      <4>1. CASE q = r
        <5>1. PICK l \in passed[r] \cup {i} : Decs(c[1])[l].kind = "limit" /\ c[1] = k
          BY <2>2, <3>1, <4>1 DEF Counter
        <5>2. l # i BY <1>2, <5>1 DEF d, ds
        <5>3. QED BY <3>1, <4>1, <5>1, <5>2 DEF Through
      <4>2. CASE q # r BY <2>2, <3>1, <4>2 DEF Through
      <4>3. QED BY <4>1, <4>2
    <3>3. QED BY <3>2
  <2>10. Counting' BY <1>2, <2>9, FewerThrough DEF Counting
  <2>11. QED BY <2>4, <2>8, <2>10 DEF Inv
<1>10. CASE o # "pass"
  <2> DEFINE S == {j \in Layers(ds) : Encloses(ds, j, i)}
  <2>1. /\ error' = [error EXCEPT ![r] = o]
        /\ status' = [status EXCEPT ![r] = Answer(ds, S, o)]
        /\ pc' = [pc EXCEPT ![r] = "answered"]
        /\ UNCHANGED <<passed, granted>>
    BY <1>3, <1>10 DEF Finish
  <2>2. Answer(ds, S, o) \in Nat BY <1>1, AnswersAreNumbers DEF ds
  <2>3. /\ error'[r] = o /\ status'[r] = Answer(ds, S, o) /\ pc'[r] = "answered"
        /\ \A q \in Requests \ {r} :
             error'[q] = error[q] /\ status'[q] = status[q] /\ pc'[q] = pc[q]
        /\ DOMAIN error' = Requests /\ status' \in [Requests -> Nat]
        /\ pc' \in [Requests -> Outside \cup {"layers", "answered"}]
    BY <2>1, <2>2, Shapes
  <2>4. TypeOK' BY <1>2, <1>7, <2>1, <2>3, BuildRests DEF Inv, TypeOK, Outside
  <2>5. d.kind # "handler" BY <1>10 DEF Results
  <2>6. ASSUME touched'[r] \ {"permission", "handler"} # {},
               NEW h \in DeclaredWith(k[1], k[2], "handler"), o \in DOMAIN Translation[h]
        PROVE  status'[r] = Translation[h][o]
    <3>1. touched'[r] \cap Behind # {} BY <1>7, <2>6 DEF Kinds, Behind
    <3>2. d.kind # "permission"
      <4> SUFFICES ASSUME d.kind = "permission" PROVE FALSE OBVIOUS
      <4>1. i \in passed[r] BY <1>1, <1>8, <3>1 DEF d
      <4>2. QED BY <1>2, <4>1
    <3>3. PICK j \in Layers(ds) : ds[j].kind = "handler" /\ h \in Elements(ds[j].do)
      <4> DEFINE kd == "handler"
      <4>1. kd # "roles" OBVIOUS
      <4> HIDE DEF kd
      <4>2. h \in DeclaredWith(k[1], k[2], kd) BY <2>6 DEF kd
      <4>3. \E j \in Layers(ds) : ds[j].kind = kd /\ h \in Elements(ds[j].do)
        BY <1>1, <4>1, <4>2, DeclaredAreLayers DEF ds
      <4>4. QED BY <4>3 DEF kd
    <3>4. Encloses(ds, j, i) BY <1>1, <2>5, <3>2, <3>3, OutermostFirst DEF ds, d
    <3>5. j \in S /\ S \in SUBSET Layers(ds) BY <3>4
    <3> HIDE DEF S
    <3>6. Answer(ds, S, o) = Translation[h][o]
      BY <1>1, <2>6, <3>3, <3>5, KnownIsAnswered DEF ds
    <3>7. QED BY <2>3, <3>6
  <2>7. Imported' /\ Adding' /\ Arrived' /\ Permitted' /\ HandledErrorsAreTranslated'
    <3>1. \A q \in Requests \ {r} :
             /\ pc'[q] = pc[q] /\ passed'[q] = passed[q] /\ touched'[q] = touched[q]
             /\ granted'[q] = granted[q] /\ error'[q] = error[q] /\ status'[q] = status[q]
      BY <1>7, <2>1, <2>3
    <3>2. UNCHANGED <<build, call, client>> BY <1>2
    <3>3. \A j \in Layers(ds) : ds[j].kind = "permission" =>
             /\ touched'[r] \cap Behind # {} => j \in passed'[r]
             /\ j \in passed'[r] => Elements(ds[j].do) \subseteq granted'[r]
      BY <1>6, <1>8, <2>1
    <3>4. passed'[r] \subseteq Layers(ds) BY <1>6, <2>1
    <3>5. \A h \in DeclaredWith(k[1], k[2], "handler") :
             touched'[r] \ {"permission", "handler"} # {} /\ error'[r] \in DOMAIN Translation[h]
               => status'[r] = Translation[h][error'[r]]
      BY <2>3, <2>6
    <3>6. QED BY <2>3, <3>1, <3>2, <3>3, <3>4, <3>5, InsideInv DEF ds
  <2>8. ASSUME NEW c \in Counters PROVE Through(c)' \subseteq Through(c)
    <3>1. Through(c)' = {q \in Requests : /\ pc'[q] = "layers" /\ Counter(q) = c
                                          /\ \E l \in passed[q] : Decs(c[1])[l].kind = "limit"}
      BY <1>2, <2>1 DEF Through, Counter, Decs, DecoratorsOf
    <3>2. \A q \in Requests : pc'[q] = "layers" => pc[q] = "layers" BY <2>3
    <3>3. QED BY <3>1, <3>2 DEF Through
  <2>9. Counting' BY <1>2, <2>8, FewerThrough DEF Counting
  <2>10. QED BY <2>4, <2>7, <2>9 DEF Inv
<1>11. QED BY <1>9, <1>10

\* A step inside that is not a permission's, and comes when all of them have
\* been passed.
LEMMA BehindInv ==
    ASSUME Inv, NEW r \in Requests, pc[r] = "layers", UNCHANGED <<build, call, client, granted>>,
           NEW x \in Behind, touched' = [touched EXCEPT ![r] = @ \cup {x}],
           \A j \in Layers(Decs(call[r])) :
              Decs(call[r])[j].kind = "permission" => j \in passed[r],
           \A q \in Requests \ {r} : /\ pc'[q] = pc[q] /\ passed'[q] = passed[q]
                                      /\ error'[q] = error[q] /\ status'[q] = status[q],
           pc'[r] \in {"layers", "answered"},
           passed[r] \subseteq passed'[r],
           passed'[r] \subseteq Layers(Decs(call[r])),
           \A j \in passed'[r] : Decs(call[r])[j].kind = "permission" => j \in passed[r],
           pc'[r] = "answered" =>
              \A h \in DeclaredWith(call[r][1], call[r][2], "handler") :
                 error'[r] \in DOMAIN Translation[h] => status'[r] = Translation[h][error'[r]]
    PROVE  Imported' /\ Adding' /\ Arrived' /\ Permitted' /\ HandledErrorsAreTranslated'
<1>1. /\ \A q \in Requests \ {r} : touched'[q] = touched[q] /\ granted'[q] = granted[q]
      /\ granted'[r] = granted[r]
  BY Shapes
<1>2. \A j \in Layers(Decs(call[r])) : Decs(call[r])[j].kind = "permission" =>
         (j \in passed[r] => Elements(Decs(call[r])[j].do) \subseteq granted[r])
  BY DEF Inv, Permitted, Inside
<1>3. \A j \in Layers(Decs(call[r])) : Decs(call[r])[j].kind = "permission" =>
         /\ touched'[r] \cap Behind # {} => j \in passed'[r]
         /\ j \in passed'[r] => Elements(Decs(call[r])[j].do) \subseteq granted'[r]
  BY <1>1, <1>2
<1>4. UNCHANGED <<build, call>> OBVIOUS
<1>5. \A q \in Requests \ {r} :
         /\ pc'[q] = pc[q] /\ passed'[q] = passed[q] /\ touched'[q] = touched[q]
         /\ granted'[q] = granted[q] /\ error'[q] = error[q] /\ status'[q] = status[q]
  BY <1>1
<1>6. QED BY <1>3, <1>4, <1>5, InsideInv

\* One more hit and one more request that has passed the limiter.
LEMMA OneMoreThrough ==
    ASSUME Inv, NEW n \in Counters, NEW r, Through(n)' \subseteq Through(n) \cup {r},
           served'[n] = served[n], windows'[n] = windows[n], spent'[n] = spent[n] + 1
    PROVE  /\ IsFiniteSet(Through(n)')
           /\ served'[n] + Cardinality(Through(n)') <= Allowance * (windows'[n] - 1) + spent'[n]
<1>1. /\ IsFiniteSet(Through(n))
      /\ served[n] + Cardinality(Through(n)) <= Allowance * (windows[n] - 1) + spent[n]
  BY DEF Inv, Counting
<1> DEFINE T == Through(n) \cup {r}
           a == Allowance * (windows[n] - 1)
<1>2. /\ IsFiniteSet(T) /\ Cardinality(T) \in Nat /\ Cardinality(Through(n)) \in Nat
      /\ Cardinality(T) <= Cardinality(Through(n)) + 1
  <2>1. IsFiniteSet(T) BY <1>1, FS_AddElement
  <2>2. Cardinality(T) = Cardinality(Through(n)) \/ Cardinality(T) = Cardinality(Through(n)) + 1
    BY <1>1, FS_AddElement
  <2>3. QED BY <1>1, <2>1, <2>2, FS_CardinalityType
<1>3. /\ IsFiniteSet(Through(n)') /\ Cardinality(Through(n)') <= Cardinality(T)
      /\ Cardinality(Through(n)') \in Nat
  BY <1>2, FS_Subset, FS_CardinalityType
<1>4. served[n] \in Nat /\ spent[n] \in Nat /\ windows[n] \in Nat /\ Allowance \in Nat
  BY ConstantsAssumption DEF Inv, TypeOK
<1>5. a \in Int BY <1>4
<1> HIDE DEF a, T
<1>6. served[n] + Cardinality(Through(n)) <= a + spent[n] BY <1>1 DEF a
<1>7. served[n] + Cardinality(Through(n)') <= a + (spent[n] + 1)
  BY <1>2, <1>3, <1>4, <1>5, <1>6
<1>8. QED BY <1>3, <1>7 DEF a

\* Limit: the hit is counted, or the request answered by the application.
LEMMA LimitInv ==
    ASSUME Inv, NEW r \in Requests, pc[r] = "layers",
           NEW i \in Layers(Applied(r)), Limit(r, i)
    PROVE  Inv'
<1> DEFINE k == call[r]
           n == Counter(r)
           ds == Decs(k)
<1>1. k \in Calls /\ Applied(r) = ds /\ i \in Layers(ds) BY AppliedIs DEF Inside
<1>2. /\ i \notin passed[r] /\ \A j \in Layers(ds) : Encloses(ds, j, i) => j \in passed[r]
      /\ ds[i].kind = "limit"
      /\ touched' = [touched EXCEPT ![r] = @ \cup {"limit"}]
      /\ UNCHANGED <<build, call, client, granted, windows, served>>
  BY <1>1 DEF Limit, NextLayer
<1>3. i \in Nat /\ i \in DOMAIN ds BY <1>1, LayersAre
<1>4. n \in Counters
  <2>1. k = <<k[1], k[2]>> /\ client[r] \in Clients BY <1>1 DEF Calls, Inv, Arrived
  <2>2. k \in LimitedCalls BY <1>1, <1>2, <1>3, <2>1 DEF LimitedCalls, Decs
  <2>3. QED BY <2>1, <2>2 DEF Counters, Counter
<1>5. passed[r] \subseteq Layers(ds) BY DEF Inv, Arrived, Inside
<1> HIDE DEF ds
<1>6. touched' \in [Requests -> SUBSET ((Kinds \ {"roles"}) \cup {"endpoint"})]
  <2>1. "limit" \in (Kinds \ {"roles"}) \cup {"endpoint"} BY DEF Kinds
  <2>2. QED BY <1>2, <2>1, Shapes
<1>7. \A j \in Layers(ds) : ds[j].kind = "permission" => j \in passed[r]
  BY <1>1, <1>2, OutermostFirst DEF ds
<1>8. "limit" \in Behind BY DEF Behind
<1>9. /\ spent \in [Counters -> 0 .. Allowance] /\ Allowance \in Nat
  BY ConstantsAssumption DEF Inv, TypeOK
<1>10. CASE spent[n] < Allowance
  <2>1. /\ spent' = [spent EXCEPT ![n] = @ + 1]
        /\ passed' = [passed EXCEPT ![r] = @ \cup {i}]
        /\ UNCHANGED <<pc, error, status>>
    BY <1>10 DEF Limit
  <2>2. /\ passed'[r] = passed[r] \cup {i}
        /\ \A q \in Requests \ {r} : passed'[q] = passed[q]
        /\ passed' \in [Requests -> SUBSET Nat]
    BY <1>3, <2>1, Shapes
  <2>3. /\ spent'[n] = spent[n] + 1 /\ \A c \in Counters \ {n} : spent'[c] = spent[c]
        /\ spent' \in [Counters -> 0 .. Allowance]
    <3>1. spent[n] + 1 \in 0 .. Allowance BY <1>4, <1>9, <1>10
    <3>2. QED BY <1>4, <1>9, <2>1, <3>1
  <2>4. TypeOK'
    <3>1. UNCHANGED <<imports, applied, roles, adds, mounted>> BY <1>2, BuildRests
    <3>2. UNCHANGED <<pc, call, client, error, status, granted, windows, served>>
      BY <1>2, <2>1
    <3> HIDE DEF k, n
    <3>3. QED BY <1>6, <2>2, <2>3, <3>1, <3>2 DEF Inv, TypeOK
  <2>5. Imported' /\ Adding' /\ Arrived' /\ Permitted' /\ HandledErrorsAreTranslated'
    <3>1. UNCHANGED <<build, call, client, granted>> BY <1>2
    <3>2. \A q \in Requests \ {r} : /\ pc'[q] = pc[q] /\ passed'[q] = passed[q]
                                     /\ error'[q] = error[q] /\ status'[q] = status[q]
      BY <2>1, <2>2
    <3>3. passed[r] \subseteq passed'[r] /\ passed'[r] \subseteq Layers(ds)
      BY <1>1, <1>5, <2>2
    <3>4. \A j \in passed'[r] : ds[j].kind = "permission" => j \in passed[r]
      BY <1>2, <2>2
    <3>5. pc'[r] = "layers" BY <2>1
    <3>6. QED BY <1>2, <1>7, <1>8, <3>1, <3>2, <3>3, <3>4, <3>5, BehindInv DEF ds
  <2>6. \A c : Through(c)' = {q \in Requests : /\ pc[q] = "layers" /\ Counter(q) = c
                                  /\ \E l \in passed'[q] : Decs(c[1])[l].kind = "limit"}
    BY <1>2, <2>1 DEF Through, Counter, Decs, DecoratorsOf
  <2>7. ASSUME NEW c \in Counters, NEW q \in Through(c)', q # r PROVE q \in Through(c)
    <3>1. /\ q \in Requests /\ pc[q] = "layers" /\ Counter(q) = c
          /\ \E l \in passed'[q] : Decs(c[1])[l].kind = "limit"
      BY <2>6
    <3>2. passed'[q] = passed[q] BY <2>2, <2>7, <3>1
    <3>3. QED BY <3>1, <3>2 DEF Through
  <2>8. \A c \in Counters : Through(c)' \subseteq Through(c) \cup {r} BY <2>7
  <2>9. \A c \in Counters \ {n} : Through(c)' \subseteq Through(c)
    <3>1. \A c \in Counters \ {n} : r \notin Through(c)' BY <2>6
    <3>2. QED BY <2>7, <3>1
  <2>10. Counting'
    <3> SUFFICES ASSUME NEW c \in Counters
                 PROVE  /\ IsFiniteSet(Through(c)')
                        /\ served'[c] + Cardinality(Through(c)')
                              <= Allowance * (windows'[c] - 1) + spent'[c]
      BY DEF Counting
    <3>1. served'[c] = served[c] /\ windows'[c] = windows[c] BY <1>2
    <3>2. CASE c = n
      <4>1. spent'[c] = spent[c] + 1 BY <2>3, <3>2
      <4>2. Through(c)' \subseteq Through(c) \cup {r} BY <2>8
      <4>3. QED BY <3>1, <4>1, <4>2, OneMoreThrough
    <3>3. CASE c # n
      <4>1. Through(c)' \subseteq Through(c) /\ spent'[c] = spent[c] BY <2>3, <2>9, <3>3
      <4>2. QED BY <3>1, <4>1, FewerThrough
    <3>4. QED BY <3>2, <3>3
  <2>11. QED BY <2>4, <2>5, <2>10 DEF Inv
<1>11. CASE ~(spent[n] < Allowance)
  <2>1. /\ error' = [error EXCEPT ![r] = "RateLimitExceeded"]
        /\ status' = [status EXCEPT ![r] = AppStatus("RateLimitExceeded")]
        /\ pc' = [pc EXCEPT ![r] = "answered"]
        /\ UNCHANGED <<spent, passed>>
    BY <1>11 DEF Limit, Finish
  <2>2. AppStatus("RateLimitExceeded") \in Nat BY <1>1, AnswersAreNumbers
  <2>3. /\ error'[r] = "RateLimitExceeded" /\ pc'[r] = "answered"
        /\ \A q \in Requests \ {r} :
             error'[q] = error[q] /\ status'[q] = status[q] /\ pc'[q] = pc[q]
        /\ DOMAIN error' = Requests /\ status' \in [Requests -> Nat]
        /\ pc' \in [Requests -> Outside \cup {"layers", "answered"}]
    BY <2>1, <2>2, Shapes
  <2>4. TypeOK' BY <1>2, <1>6, <2>1, <2>3, BuildRests DEF Inv, TypeOK, Outside
  <2>5. Imported' /\ Adding' /\ Arrived' /\ Permitted' /\ HandledErrorsAreTranslated'
    <3>1. UNCHANGED <<build, call, client, granted>> BY <1>2
    <3>2. \A q \in Requests \ {r} : /\ pc'[q] = pc[q] /\ passed'[q] = passed[q]
                                     /\ error'[q] = error[q] /\ status'[q] = status[q]
      BY <2>1, <2>3
    <3>3. passed'[r] = passed[r] BY <2>1
    <3>4. \A h \in DeclaredWith(k[1], k[2], "handler") : error'[r] \notin DOMAIN Translation[h]
      BY <1>1, <2>3, DeclaredAreHandlers, NobodyTranslates
    <3>5. QED BY <1>2, <1>5, <1>7, <1>8, <2>3, <3>1, <3>2, <3>3, <3>4, BehindInv DEF ds
  <2>6. ASSUME NEW c \in Counters PROVE Through(c)' \subseteq Through(c)
    <3>1. Through(c)' = {q \in Requests : /\ pc'[q] = "layers" /\ Counter(q) = c
                                          /\ \E l \in passed[q] : Decs(c[1])[l].kind = "limit"}
      BY <1>2, <2>1 DEF Through, Counter, Decs, DecoratorsOf
    <3>2. \A q \in Requests : pc'[q] = "layers" => pc[q] = "layers" BY <2>3
    <3>3. QED BY <3>1, <3>2 DEF Through
  <2>7. Counting' BY <1>2, <2>1, <2>6, FewerThrough DEF Counting
  <2>8. QED BY <2>4, <2>5, <2>7 DEF Inv
<1>12. QED BY <1>10, <1>11

\* Endpoint: its body uses up the hit with which the request passed.
LEMMA EndpointInv == ASSUME Inv, NEW r \in Requests, Endpoint(r) PROVE Inv'
<1> DEFINE k == call[r]
           n == Counter(r)
           ds == Decs(k)
<1>1. /\ pc[r] = "layers"
      /\ touched' = [touched EXCEPT ![r] = @ \cup {"endpoint"}]
      /\ served' = IF k \in LimitedCalls THEN [served EXCEPT ![n] = @ + 1] ELSE served
      /\ UNCHANGED <<build, call, client, passed, granted, spent, windows>>
  BY DEF Endpoint, limits
<1>2. k \in Calls /\ Applied(r) = ds BY <1>1, AppliedIs DEF Inside
<1>3. Layers(ds) \subseteq passed[r] BY <1>2 DEF Endpoint
<1>4. passed[r] \subseteq Layers(ds) BY <1>1 DEF Inv, Arrived, Inside
<1>5. PICK o, s : /\ error' = [error EXCEPT ![r] = o] /\ status' = [status EXCEPT ![r] = s]
                  /\ pc' = [pc EXCEPT ![r] = "answered"]
                  /\ (o = "none" /\ s = 200) \/ s = Answer(ds, Layers(ds), o)
  BY <1>2 DEF Endpoint, Finish
<1> HIDE DEF ds
<1>6. s \in Nat BY <1>2, <1>5, AnswersAreNumbers DEF ds
<1>7. /\ error'[r] = o /\ status'[r] = s /\ pc'[r] = "answered"
      /\ \A q \in Requests \ {r} :
           error'[q] = error[q] /\ status'[q] = status[q] /\ pc'[q] = pc[q]
      /\ DOMAIN error' = Requests /\ status' \in [Requests -> Nat]
      /\ pc' \in [Requests -> Outside \cup {"layers", "answered"}]
  BY <1>5, <1>6, Shapes
<1>8. touched' \in [Requests -> SUBSET ((Kinds \ {"roles"}) \cup {"endpoint"})]
  BY <1>1, Shapes
<1>9. /\ \A c \in Counters : served'[c] = IF c = n THEN served[c] + 1 ELSE served[c]
      /\ served' \in [Counters -> Nat]
  <2>1. served \in [Counters -> Nat] BY DEF Inv, TypeOK
  <2>2. CASE k \in LimitedCalls
    <3>1. served' = [served EXCEPT ![n] = @ + 1] BY <1>1, <2>2
    <3>2. PICK m : m = n OBVIOUS
    <3>3. served' = [served EXCEPT ![m] = @ + 1] BY <3>1, <3>2
    <3>4. \A c \in Counters : served'[c] = IF c = m THEN served[c] + 1 ELSE served[c]
      BY <2>1, <3>3
    <3>5. DOMAIN served' = Counters /\ served' = [c \in Counters |-> served'[c]]
      BY <2>1, <3>3
    <3>6. \A c \in Counters : served'[c] \in Nat BY <2>1, <3>4
    <3>7. served' \in [Counters -> Nat] BY <3>5, <3>6
    <3>8. QED BY <3>2, <3>4, <3>7
  <2>3. CASE k \notin LimitedCalls
    <3>1. n \notin Counters BY <2>3 DEF Counters, Counter
    <3>2. QED BY <1>1, <2>1, <2>3, <3>1
  <2>4. QED BY <2>2, <2>3
<1>10. TypeOK'
  <2>1. UNCHANGED <<imports, applied, roles, adds, mounted>> BY <1>1, BuildRests
  <2>2. UNCHANGED <<call, client, passed, granted, spent, windows>> BY <1>1
  <2>3. QED BY <1>7, <1>8, <1>9, <2>1, <2>2 DEF Inv, TypeOK, Outside
<1>11. ASSUME NEW h \in DeclaredWith(k[1], k[2], "handler"), o \in DOMAIN Translation[h]
       PROVE  s = Translation[h][o]
  <2>1. o # "none" BY <1>2, <1>11, DeclaredAreHandlers, NobodyTranslates
  <2>2. Answer(ds, Layers(ds), o) = Translation[h][o]
    BY <1>2, <1>11, DeclaredAnswersEndpoint DEF ds
  <2>3. QED BY <1>5, <2>1, <2>2
<1>12. Imported' /\ Adding' /\ Arrived' /\ Permitted' /\ HandledErrorsAreTranslated'
  <2>1. UNCHANGED <<build, call, client, granted>> BY <1>1
  <2>2. \A q \in Requests \ {r} : /\ pc'[q] = pc[q] /\ passed'[q] = passed[q]
                                   /\ error'[q] = error[q] /\ status'[q] = status[q]
    BY <1>1, <1>7
  <2>3. passed'[r] = passed[r] BY <1>1
  <2>4. "endpoint" \in Behind BY DEF Behind
  <2>5. \A h \in DeclaredWith(k[1], k[2], "handler") :
           error'[r] \in DOMAIN Translation[h] => status'[r] = Translation[h][error'[r]]
    BY <1>7, <1>11
  <2>6. QED
    BY <1>1, <1>3, <1>4, <1>7, <2>1, <2>2, <2>3, <2>4, <2>5, BehindInv DEF ds
<1>13. ASSUME NEW c PROVE Through(c)' = Through(c) \ {r}
  <2>1. Through(c)' = {q \in Requests : /\ pc'[q] = "layers" /\ Counter(q) = c
                                        /\ \E l \in passed[q] : Decs(c[1])[l].kind = "limit"}
    BY <1>1 DEF Through, Counter, Decs, DecoratorsOf
  <2>2. \A q \in Requests : pc'[q] = "layers" <=> (pc[q] = "layers" /\ q # r) BY <1>7
  <2>3. QED BY <2>1, <2>2 DEF Through
<1>14. Counting'
  <2> SUFFICES ASSUME NEW c \in Counters
               PROVE  /\ IsFiniteSet(Through(c)')
                      /\ served'[c] + Cardinality(Through(c)')
                            <= Allowance * (windows'[c] - 1) + spent'[c]
    BY DEF Counting
  <2>1. windows'[c] = windows[c] /\ spent'[c] = spent[c] BY <1>1
  <2>2. CASE c # n
    <3>1. Through(c)' \subseteq Through(c) /\ served'[c] = served[c] BY <1>9, <1>13, <2>2
    <3>2. QED BY <2>1, <3>1, FewerThrough
  <2>3. CASE c = n
    <3>1. r \in Through(c)
      <4>1. PICK l \in DOMAIN ds : ds[l].kind = "limit"
        <5>1. k \in LimitedCalls BY <2>3 DEF Counters, Counter
        <5>2. QED BY <5>1 DEF LimitedCalls, ds, Decs
      <4>2. l \in passed[r] BY <1>3, <4>1 DEF Layers
      <4>3. QED BY <1>1, <2>3, <4>1, <4>2 DEF Through, Counter, ds
    <3>2. /\ IsFiniteSet(Through(c))
          /\ served[c] + Cardinality(Through(c)) <= Allowance * (windows[c] - 1) + spent[c]
      BY DEF Inv, Counting
    <3>3. /\ IsFiniteSet(Through(c) \ {r})
          /\ Cardinality(Through(c) \ {r}) = Cardinality(Through(c)) - 1
          /\ Cardinality(Through(c)) \in Nat
      BY <3>1, <3>2, FS_RemoveElement, FS_CardinalityType
    <3>4. served'[c] = served[c] + 1 /\ served[c] \in Nat
      BY <1>9, <2>3 DEF Inv, TypeOK
    <3>5. Through(c)' = Through(c) \ {r} BY <1>13
    <3>6. served'[c] + Cardinality(Through(c)') = served[c] + Cardinality(Through(c))
      BY <3>3, <3>4, <3>5
    <3>7. QED BY <2>1, <3>2, <3>3, <3>5, <3>6
  <2>4. QED BY <2>2, <2>3
<1>15. QED BY <1>10, <1>12, <1>14 DEF Inv

\* NewWindow: the hits of the old one stay within its allowance.
LEMMA NewWindowInv == ASSUME Inv, NEW n \in Counters, NewWindow(n) PROVE Inv'
<1>1. /\ windows[n] < MaxWindows
      /\ spent' = [spent EXCEPT ![n] = 0] /\ windows' = [windows EXCEPT ![n] = @ + 1]
      /\ UNCHANGED <<build, pc, call, client, passed, error, status, granted, touched, served>>
  BY DEF NewWindow, trace
<1>2. /\ spent \in [Counters -> 0 .. Allowance]
      /\ windows \in [Counters -> 1 .. MaxWindows]
      /\ served \in [Counters -> Nat] /\ Allowance \in Nat /\ MaxWindows \in Nat
  BY ConstantsAssumption DEF Inv, TypeOK
<1>3. /\ spent' \in [Counters -> 0 .. Allowance]
      /\ windows' \in [Counters -> 1 .. MaxWindows]
      /\ spent'[n] = 0 /\ windows'[n] = windows[n] + 1
      /\ \A c \in Counters \ {n} : spent'[c] = spent[c] /\ windows'[c] = windows[c]
  <2>1. 0 \in 0 .. Allowance /\ windows[n] + 1 \in 1 .. MaxWindows BY <1>1, <1>2
  <2>2. QED BY <1>1, <1>2, <2>1
<1>4. /\ UNCHANGED <<imports, applied, roles, adds, mounted>> /\ Imported' /\ Adding'
  BY <1>1, BuildRests
<1>5. TypeOK' BY <1>1, <1>3, <1>4 DEF Inv, TypeOK
<1>6. Arrived'
  BY <1>1, <1>4 DEF Inv, Arrived, Inside, Layers, Decs, DecoratorsOf
<1>7. Permitted' BY <1>1 DEF Inv, Permitted, Inside, Layers, Decs, DecoratorsOf
<1>8. HandledErrorsAreTranslated'
  BY <1>1 DEF Inv, HandledErrorsAreTranslated, DeclaredWith, Declares
<1>9. ASSUME NEW c PROVE Through(c)' = Through(c)
  BY <1>1 DEF Through, Counter, Decs, DecoratorsOf
<1>10. Counting'
  <2> SUFFICES ASSUME NEW c \in Counters
               PROVE  /\ IsFiniteSet(Through(c)')
                      /\ served'[c] + Cardinality(Through(c)')
                            <= Allowance * (windows'[c] - 1) + spent'[c]
    BY DEF Counting
  <2>1. /\ IsFiniteSet(Through(c))
        /\ served[c] + Cardinality(Through(c)) <= Allowance * (windows[c] - 1) + spent[c]
    BY DEF Inv, Counting
  <2>2. Through(c)' = Through(c) /\ served'[c] = served[c] BY <1>1, <1>9
  <2>3. CASE c # n BY <1>3, <2>1, <2>2, <2>3
  <2>4. CASE c = n
    <3> DEFINE a == Allowance * (windows[c] - 1)
    <3>1. /\ windows[c] \in Nat /\ spent[c] \in 0 .. Allowance /\ served[c] \in Nat
          /\ Cardinality(Through(c)) \in Nat
      BY <1>2, <2>1, FS_CardinalityType
    <3>2. Allowance * ((windows[c] + 1) - 1) = a + Allowance BY <1>2, <3>1
    <3>3. a \in Int BY <1>2, <3>1
    <3> HIDE DEF a
    <3>4. served[c] + Cardinality(Through(c)) <= a + spent[c] BY <2>1 DEF a
    <3>5. served[c] + Cardinality(Through(c)) <= a + Allowance
      BY <1>2, <3>1, <3>3, <3>4
    <3>6. a + Allowance + 0 = a + Allowance BY <1>2, <3>3
    <3>7. windows'[c] = windows[c] + 1 /\ spent'[c] = 0 BY <1>3, <2>4
    <3>8. QED BY <2>1, <2>2, <3>2, <3>5, <3>6, <3>7
  <2>5. QED BY <2>3, <2>4
<1>11. QED BY <1>4, <1>5, <1>6, <1>7, <1>8, <1>10 DEF Inv

-----------------------------------------------------------------------------
(* What the route permission decides                                       *)

\* The route permission stands on the route of the request and can decide.
Guarded(r) ==
    /\ "JWTRouteHTTPPermission" \in DeclaredWith(call[r][1], call[r][2], "permission")
    /\ "authPermission" \in Declared(r).takes

\* The client may call the route as it is declared.
Entitled(r) ==
    Allows(DeclaredWith(call[r][1], call[r][2], "roles") \ {"CUSTOM"},
           call[r][1], call[r][2], client[r])

\* A request that has met no layer has passed none and has been granted
\* nothing; one that has met a layer was asked by the route permission first,
\* and only the entitled go on.
Asked ==
    \A r \in Requests :
       /\ touched[r] = {} => granted[r] = {} /\ passed[r] = {}
       /\ touched[r] # {} /\ Guarded(r) =>
            /\ "JWTRouteHTTPPermission" \in granted[r] <=> Entitled(r)
            /\ pc[r] = "layers" => "JWTRouteHTTPPermission" \in granted[r]

\* The route permission is the outermost layer of its route.
LEMMA RoutePermissionIsOutermost ==
    ASSUME NEW k \in Calls,
           "JWTRouteHTTPPermission" \in DeclaredWith(k[1], k[2], "permission")
    PROVE  \E i \in Layers(Decs(k)) :
              /\ Decs(k)[i] = [kind |-> "permission", do |-> <<"JWTRouteHTTPPermission">>]
              /\ \A j \in Layers(Decs(k)) \ {i} : Encloses(Decs(k), i, j)
<1>1. PICK i \in DOMAIN Decs(k) :
        /\ Decs(k)[i] = [kind |-> "permission", do |-> <<"JWTRouteHTTPPermission">>]
        /\ \A j \in DOMAIN Decs(k) : Decs(k)[j].kind = "permission" => j <= i
  BY RoutePermissionAssumption DEF Decs
<1>2. i \in Layers(Decs(k)) BY <1>1 DEF Layers
<1>3. ASSUME NEW j \in Layers(Decs(k)) \ {i} PROVE Encloses(Decs(k), i, j)
  <2>1. CASE Decs(k)[j].kind = "permission"
    <3>1. j \in DOMAIN Decs(k) /\ j \in Nat /\ i \in Nat BY <1>2, LayersAre
    <3>2. j <= i /\ j # i BY <1>1, <2>1, <3>1
    <3>3. i > j BY <3>1, <3>2
    <3>4. Priority(Decs(k)[i]) = 1 /\ Priority(Decs(k)[j]) = 1 BY <1>1, <2>1 DEF Priority
    <3>5. QED BY <3>3, <3>4 DEF Encloses
  <2>2. CASE Decs(k)[j].kind # "permission" BY <1>1, <1>2, <2>2, OutermostFirst
  <2>3. QED BY <2>1, <2>2
<1>4. QED BY <1>1, <1>2, <1>3

\* The meta of a route that is served holds the roles of its declaration.
LEMMA RolesAre ==
    ASSUME Inv, NEW r \in Requests, Inside(r)
    PROVE  roles[call[r][1]][call[r][2]]
             = DeclaredWith(call[r][1], call[r][2], "roles") \ {"CUSTOM"}
<1> DEFINE c == call[r][1]
           f == call[r][2]
<1>1. call[r] \in Calls /\ c \in mounted BY AppliedIs DEF Inv, Arrived
<1>2. c \in DOMAIN Ressources /\ f \in DOMAIN Ressources[c].routes BY <1>1, CallsAre
<1>3. applied[c] = Full(c) BY <1>1, MountedIsApplied
<1>4. f \in DOMAIN applied[c] BY <1>2, <1>3 DEF Full
<1>5. roles[c] = [g \in DOMAIN Ressources[c].routes |-> RolesIn(DecoratorsOf(c, g))]
  <2>1. \/ applied[c] = [g \in {} |-> <<>>]
        \/ roles[c] = [g \in DOMAIN Ressources[c].routes |-> RolesIn(DecoratorsOf(c, g))]
    BY <1>2 DEF Inv, TypeOK
  <2>2. applied[c] # [g \in {} |-> <<>>] BY <1>4
  <2>3. QED BY <2>1, <2>2
<1>6. roles[c][f] = RolesIn(Decs(call[r])) BY <1>2, <1>5 DEF Decs
<1> DEFINE asked(ds) ==
             UNION {Elements(ds[i].do) : i \in {j \in DOMAIN ds : ds[j].kind = "roles"}}
<1>7. asked(Decs(call[r])) = DeclaredWith(c, f, "roles")
  <2> DEFINE ds == Decs(call[r])
  <2>1. Elements(ds) = Declares(c, f) BY <1>1, StackIs
  <2>2. DeclaredWith(c, f, "roles")
          = UNION {Elements(d.do) : d \in {x \in Elements(ds) : x.kind = "roles"}}
    BY <2>1 DEF DeclaredWith
  <2>3. {Elements(d.do) : d \in {x \in Elements(ds) : x.kind = "roles"}}
          = {Elements(ds[i].do) : i \in {j \in DOMAIN ds : ds[j].kind = "roles"}}
    BY DEF Elements
  <2>4. QED BY <2>2, <2>3
<1>8. RolesIn(Decs(call[r])) = asked(Decs(call[r])) \ {"CUSTOM"} BY DEF RolesIn
<1> HIDE DEF asked
<1>9. QED BY <1>6, <1>7, <1>8

\* The first layer a guarded request meets is the route permission.
LEMMA PermissionIsFirst ==
    ASSUME Inv, Asked, NEW r \in Requests, pc[r] = "layers", touched[r] = {}, Guarded(r),
           NEW i, NextLayer(r, i)
    PROVE  Applied(r)[i] = [kind |-> "permission", do |-> <<"JWTRouteHTTPPermission">>]
<1> DEFINE k == call[r]
<1>1. k \in Calls /\ Applied(r) = Decs(k) BY AppliedIs DEF Inside
<1>2. passed[r] = {} BY DEF Asked
<1>3. /\ i \in Layers(Decs(k))
      /\ \A j \in Layers(Decs(k)) : ~Encloses(Decs(k), j, i)
  BY <1>1, <1>2 DEF NextLayer
<1>4. PICK p \in Layers(Decs(k)) :
        /\ Decs(k)[p] = [kind |-> "permission", do |-> <<"JWTRouteHTTPPermission">>]
        /\ \A j \in Layers(Decs(k)) \ {p} : Encloses(Decs(k), p, j)
  BY <1>1, RoutePermissionIsOutermost DEF Guarded
<1>5. i = p BY <1>3, <1>4
<1>6. QED BY <1>1, <1>4, <1>5

\* The route permission lets exactly the entitled through.
LEMMA PermissionDecides ==
    ASSUME Inv, NEW r \in Requests, Inside(r), Guarded(r),
           NEW o \in Results(r, [kind |-> "permission", do |-> <<"JWTRouteHTTPPermission">>])
    PROVE  o = "pass" <=> Entitled(r)
<1> DEFINE d == [kind |-> "permission", do |-> <<"JWTRouteHTTPPermission">>]
<1>1. Elements(d.do) = {"JWTRouteHTTPPermission"} BY DEF Elements
<1>2. d.kind = "permission" OBVIOUS
<1>3. Declared(r).takes # {} BY DEF Guarded
<1> HIDE DEF d
<1>4. o \in UNION {OutcomesOf(r, x) : x \in Elements(d.do)}
  BY <1>2, <1>3 DEF Results, d
<1>5. o \in OutcomesOf(r, "JWTRouteHTTPPermission") BY <1>1, <1>4
<1>6. roles[call[r][1]][call[r][2]]
        = DeclaredWith(call[r][1], call[r][2], "roles") \ {"CUSTOM"}
  BY RolesAre
<1>7. o \in IF Entitled(r) THEN {"pass"} ELSE {"Forbidden"}
  BY <1>5, <1>6 DEF OutcomesOf, Guarded, Entitled
<1>8. QED BY <1>7

\* A step that brings no request to a layer decides nothing.
LEMMA NobodyAsked ==
    ASSUME Inv, Asked, UNCHANGED <<passed, granted, touched>>,
           \A q \in Requests : touched[q] # {} =>
              /\ call'[q] = call[q] /\ client'[q] = client[q]
              /\ pc'[q] = "layers" => pc[q] = "layers"
    PROVE  Asked'
<1> SUFFICES ASSUME NEW q \in Requests
             PROVE  /\ touched[q] = {} => granted[q] = {} /\ passed[q] = {}
                    /\ touched[q] # {} /\ Guarded(q)' =>
                         /\ "JWTRouteHTTPPermission" \in granted[q] <=> Entitled(q)'
                         /\ pc'[q] = "layers" => "JWTRouteHTTPPermission" \in granted[q]
  BY DEF Asked
<1>1. touched[q] = {} => granted[q] = {} /\ passed[q] = {} BY DEF Asked
<1>2. ASSUME touched[q] # {}, Guarded(q)'
      PROVE  /\ "JWTRouteHTTPPermission" \in granted[q] <=> Entitled(q)'
             /\ pc'[q] = "layers" => "JWTRouteHTTPPermission" \in granted[q]
  <2>1. call'[q] = call[q] /\ client'[q] = client[q] /\ (pc'[q] = "layers" => pc[q] = "layers")
    BY <1>2
  <2>2. Guarded(q) BY <1>2, <2>1 DEF Guarded, DeclaredWith, Declares, Declared
  <2>3. Entitled(q)' = Entitled(q) BY <2>1 DEF Entitled, DeclaredWith, Declares, Allows
  <2>4. QED BY <1>2, <2>1, <2>2, <2>3 DEF Asked
<1>3. QED BY <1>1, <1>2

\* A request that meets a layer: if it is the first one, it has to be right.
LEMMA OneIsAsked ==
    ASSUME Inv, Asked, NEW r \in Requests, pc[r] = "layers", UNCHANGED <<call, client>>,
           \A q \in Requests \ {r} :
              /\ pc'[q] = pc[q] /\ passed'[q] = passed[q] /\ touched'[q] = touched[q]
              /\ granted'[q] = granted[q],
           touched'[r] # {}, granted[r] \subseteq granted'[r],
           touched[r] = {} /\ Guarded(r) =>
              /\ "JWTRouteHTTPPermission" \in granted'[r] <=> Entitled(r)
              /\ pc'[r] = "layers" => "JWTRouteHTTPPermission" \in granted'[r]
    PROVE  Asked'
<1> SUFFICES ASSUME NEW q \in Requests
             PROVE  /\ touched'[q] = {} => granted'[q] = {} /\ passed'[q] = {}
                    /\ touched'[q] # {} /\ Guarded(q)' =>
                         /\ "JWTRouteHTTPPermission" \in granted'[q] <=> Entitled(q)'
                         /\ pc'[q] = "layers" => "JWTRouteHTTPPermission" \in granted'[q]
  BY DEF Asked
<1>1. Guarded(q)' = Guarded(q) BY DEF Guarded, DeclaredWith, Declares, Declared
<1>2. Entitled(q)' = Entitled(q) BY DEF Entitled, DeclaredWith, Declares, Allows
<1>3. CASE q # r BY <1>1, <1>2, <1>3 DEF Asked
<1>4. CASE q = r
  <2>1. CASE touched[r] = {} BY <1>1, <1>2, <1>4, <2>1
  <2>2. CASE touched[r] # {} BY <1>1, <1>2, <1>4, <2>2 DEF Asked
  <2>3. QED BY <2>1, <2>2
<1>5. QED BY <1>3, <1>4

\* Layer: on a guarded route the first layer is the permission, and whoever it
\* refuses is answered at once.
LEMMA LayerAsks ==
    ASSUME Inv, Asked, NEW r \in Requests, pc[r] = "layers", NEW i, Layer(r, i)
    PROVE  Asked'
<1> DEFINE d == Applied(r)[i]
<1>1. /\ NextLayer(r, i)
      /\ touched' = [touched EXCEPT ![r] = @ \cup {d.kind}]
      /\ UNCHANGED <<call, client>>
  BY DEF Layer
<1>2. PICK o \in Results(r, d) :
        IF o = "pass"
        THEN /\ passed' = [passed EXCEPT ![r] = @ \cup {i}]
             /\ granted' = IF d.kind = "permission"
                           THEN [granted EXCEPT ![r] = @ \cup Elements(d.do)] ELSE granted
             /\ UNCHANGED <<pc, error, status>>
        ELSE /\ \E s : Finish(r, o, s)
             /\ UNCHANGED <<passed, granted>>
  BY DEF Layer
<1> HIDE DEF d
<1>3. /\ touched'[r] = touched[r] \cup {d.kind}
      /\ \A q \in Requests \ {r} : touched'[q] = touched[q]
  BY <1>1, Shapes
<1>4. /\ \A q \in Requests \ {r} : passed'[q] = passed[q] /\ granted'[q] = granted[q]
                                    /\ pc'[q] = pc[q]
      /\ granted[r] \subseteq granted'[r]
      /\ o = "pass" /\ d.kind = "permission" => Elements(d.do) \subseteq granted'[r]
      /\ o # "pass" => granted'[r] = granted[r] /\ pc'[r] = "answered"
  <2>1. CASE o = "pass" BY <1>2, <2>1, Shapes
  <2>2. CASE o # "pass" BY <1>2, <2>2, Shapes DEF Finish
  <2>3. QED BY <2>1, <2>2
<1>5. ASSUME touched[r] = {}, Guarded(r)
      PROVE  /\ "JWTRouteHTTPPermission" \in granted'[r] <=> Entitled(r)
             /\ pc'[r] = "layers" => "JWTRouteHTTPPermission" \in granted'[r]
  <2>1. d = [kind |-> "permission", do |-> <<"JWTRouteHTTPPermission">>]
    BY <1>1, <1>5, PermissionIsFirst DEF d
  <2>2. o = "pass" <=> Entitled(r) BY <1>2, <1>5, <2>1, PermissionDecides DEF Inside
  <2>3. d.kind = "permission" /\ "JWTRouteHTTPPermission" \in Elements(d.do)
    BY <2>1 DEF Elements
  <2>4. granted[r] = {} BY <1>5 DEF Asked
  <2>5. CASE o = "pass" BY <1>4, <2>2, <2>3, <2>5
  <2>6. CASE o # "pass" BY <1>4, <2>2, <2>4, <2>6
  <2>7. QED BY <2>5, <2>6
<1>6. QED BY <1>1, <1>3, <1>4, <1>5, OneIsAsked

\* Limit: the limiter is never the first layer of a guarded route.
LEMMA LimitAsks ==
    ASSUME Inv, Asked, NEW r \in Requests, pc[r] = "layers", NEW i, Limit(r, i)
    PROVE  Asked'
<1>1. /\ NextLayer(r, i) /\ Applied(r)[i].kind = "limit"
      /\ touched' = [touched EXCEPT ![r] = @ \cup {"limit"}]
      /\ UNCHANGED <<call, client, granted>>
  BY DEF Limit
<1>2. \A q \in Requests \ {r} : pc'[q] = pc[q] /\ passed'[q] = passed[q]
  <2>1. CASE spent[Counter(r)] < Allowance BY <2>1, Shapes DEF Limit
  <2>2. CASE ~(spent[Counter(r)] < Allowance) BY <2>2, Shapes DEF Limit, Finish
  <2>3. QED BY <2>1, <2>2
<1>3. touched'[r] # {} /\ \A q \in Requests \ {r} : touched'[q] = touched[q]
  BY <1>1, Shapes
<1>4. ~(touched[r] = {} /\ Guarded(r)) BY <1>1, PermissionIsFirst
<1>5. QED BY <1>1, <1>2, <1>3, <1>4, OneIsAsked

\* Endpoint: a guarded route has a layer in front of its body.
LEMMA EndpointAsks ==
    ASSUME Inv, Asked, NEW r \in Requests, Endpoint(r) PROVE Asked'
<1>1. /\ pc[r] = "layers" /\ Layers(Applied(r)) \subseteq passed[r]
      /\ touched' = [touched EXCEPT ![r] = @ \cup {"endpoint"}]
      /\ UNCHANGED <<call, client, passed, granted>>
  BY DEF Endpoint
<1>2. \A q \in Requests \ {r} : pc'[q] = pc[q] BY Shapes DEF Endpoint, Finish
<1>3. touched'[r] # {} /\ \A q \in Requests \ {r} : touched'[q] = touched[q]
  BY <1>1, Shapes
<1>4. ~(touched[r] = {} /\ Guarded(r))
  <2> SUFFICES ASSUME touched[r] = {}, Guarded(r) PROVE FALSE OBVIOUS
  <2>1. call[r] \in Calls /\ Applied(r) = Decs(call[r]) BY <1>1, AppliedIs DEF Inside
  <2>2. \E p : p \in Layers(Decs(call[r]))
    BY <2>1, RoutePermissionIsOutermost DEF Guarded
  <2>3. passed[r] = {} BY DEF Asked
  <2>4. QED BY <1>1, <2>1, <2>2, <2>3
<1>5. QED BY <1>1, <1>2, <1>3, <1>4, OneIsAsked

\* Every step keeps to it.
LEMMA NextAsks == Inv /\ Asked /\ [Next]_vars => Asked'
<1> SUFFICES ASSUME Inv, Asked, [Next]_vars PROVE Asked' OBVIOUS
<1>1. CASE \/ Import \/ AddRessource \/ UNCHANGED vars
           \/ \E n \in Counters : NewWindow(n)
  <2>1. UNCHANGED <<pc, call, client, passed, granted, touched>>
    BY <1>1 DEF Import, AddRessource, NewWindow, vars, trace
  <2>2. QED BY <2>1, NobodyAsked
<1>2. ASSUME NEW r \in Requests, Arrive(r) \/ Security(r) \/ Authenticate(r) \/ Reach(r)
      PROVE  Asked'
  <2>1. UNCHANGED <<passed, granted, touched>>
    BY <1>2 DEF Arrive, Security, Authenticate, Reach, trace
  <2>2. pc[r] \in Outside
    BY <1>2 DEF Arrive, Security, Authenticate, Reach, Outside
  <2>3. touched[r] = {} BY <2>2 DEF Inv, Arrived
  <2>4. \A q \in Requests \ {r} :
          pc'[q] = pc[q] /\ call'[q] = call[q] /\ client'[q] = client[q]
    <3>1. CASE Arrive(r) BY <3>1, Shapes DEF Arrive
    <3>2. CASE Security(r) BY <3>2, Shapes DEF Security, Finish
    <3>3. CASE Authenticate(r) BY <3>3, Shapes DEF Authenticate, Finish
    <3>4. CASE Reach(r) BY <3>4, Shapes DEF Reach, Finish
    <3>5. QED BY <1>2, <3>1, <3>2, <3>3, <3>4
  <2>5. QED BY <2>1, <2>3, <2>4, NobodyAsked
<1>3. ASSUME NEW r \in Requests, Layered(r) PROVE Asked'
  <2>1. pc[r] = "layers" BY <1>3 DEF Layered
  <2>2. PICK i \in Layers(Applied(r)) : Layer(r, i) \/ Limit(r, i) BY <1>3 DEF Layered
  <2>3. QED BY <2>1, <2>2, LayerAsks, LimitAsks
<1>4. ASSUME NEW r \in Requests, Endpoint(r) PROVE Asked' BY <1>4, EndpointAsks
<1>5. QED BY <1>1, <1>2, <1>3, <1>4 DEF Next

-----------------------------------------------------------------------------
(* The theorems                                                            *)

\* Every step keeps the invariant.
LEMMA NextInv == Inv /\ [Next]_vars => Inv'
<1> SUFFICES ASSUME Inv, [Next]_vars PROVE Inv' OBVIOUS
<1>1. CASE Import BY <1>1, ImportInv
<1>2. CASE AddRessource BY <1>2, AddRessourceInv
<1>3. ASSUME NEW r \in Requests, Arrive(r) PROVE Inv' BY <1>3, ArriveInv
<1>4. ASSUME NEW r \in Requests, Security(r) PROVE Inv' BY <1>4, SecurityInv
<1>5. ASSUME NEW r \in Requests, Authenticate(r) PROVE Inv' BY <1>5, AuthenticateInv
<1>6. ASSUME NEW r \in Requests, Reach(r) PROVE Inv' BY <1>6, ReachInv
<1>7. ASSUME NEW r \in Requests, Layered(r) PROVE Inv'
  <2>1. pc[r] = "layers" BY <1>7 DEF Layered
  <2>2. PICK i \in Layers(Applied(r)) : Layer(r, i) \/ Limit(r, i) BY <1>7 DEF Layered
  <2>3. CASE Layer(r, i) BY <2>1, <2>3, LayerInv
  <2>4. CASE Limit(r, i) BY <2>1, <2>4, LimitInv
  <2>5. QED BY <2>2, <2>3, <2>4
<1>8. ASSUME NEW r \in Requests, Endpoint(r) PROVE Inv' BY <1>8, EndpointInv
<1>9. ASSUME NEW n \in Counters, NewWindow(n) PROVE Inv' BY <1>9, NewWindowInv
<1>10. CASE UNCHANGED vars
  <2>1. /\ UNCHANGED <<build, pc, call, client, passed, error, status, granted, touched,
                       spent, windows, served>>
    BY <1>10 DEF vars, trace, limits
  <2>2. /\ UNCHANGED <<imports, applied, roles, adds, mounted>> /\ Imported' /\ Adding'
    BY <2>1, BuildRests
  <2>3. TypeOK' BY <2>1, <2>2 DEF Inv, TypeOK
  <2>4. Arrived' BY <2>1, <2>2 DEF Inv, Arrived, Inside, Layers, Decs, DecoratorsOf
  <2>5. Permitted' BY <2>1 DEF Inv, Permitted, Inside, Layers, Decs, DecoratorsOf
  <2>6. HandledErrorsAreTranslated'
    BY <2>1 DEF Inv, HandledErrorsAreTranslated, DeclaredWith, Declares
  <2>7. \A n : Through(n)' = Through(n) BY <2>1 DEF Through, Counter, Decs, DecoratorsOf
  <2>8. Counting' BY <2>1, <2>7 DEF Inv, Counting
  <2>9. QED BY <2>2, <2>3, <2>4, <2>5, <2>6, <2>8 DEF Inv
<1>11. QED
  BY <1>1, <1>2, <1>3, <1>4, <1>5, <1>6, <1>7, <1>8, <1>9, <1>10 DEF Next

\* The invariant holds in every reachable state.
THEOREM Invariance == Spec => []Inv
<1>1. Init => Inv BY InitInv
<1>2. Inv /\ [Next]_vars => Inv' BY NextInv
<1>3. QED BY <1>1, <1>2, PTL DEF Spec

\* Every variable has its type.
THEOREM TypeCorrect == Spec => []TypeOK
<1>1. Inv => TypeOK BY DEF Inv
<1>2. QED BY <1>1, Invariance, PTL

\* Whatever decorators a class and its methods have, and in whatever order,
\* nothing of a route runs before all of its permissions have agreed.
THEOREM PermissionsComeFirst == Spec => []NothingBeforePermission
<1>1. Inv => NothingBeforePermission
  <2> SUFFICES ASSUME Inv, NEW r \in Requests,
                      touched[r] \cap {"pipe", "guard", "limit", "ping", "endpoint"} # {},
                      NEW x \in DeclaredWith(call[r][1], call[r][2], "permission")
               PROVE  x \in granted[r]
    BY DEF NothingBeforePermission
  <2>1. Inside(r) /\ touched[r] \cap Behind # {} BY DEF Inside, Behind
  <2>2. call[r] \in Calls BY <2>1, AppliedIs
  <2>3. PICK j \in Layers(Decs(call[r])) :
          Decs(call[r])[j].kind = "permission" /\ x \in Elements(Decs(call[r])[j].do)
    BY <2>2, DeclaredAreLayers
  <2>4. QED BY <2>1, <2>3 DEF Inv, Permitted
<1>2. QED BY <1>1, Invariance, PTL

\* A declared handler translates every exception raised behind the
\* permissions, wherever it is declared.
THEOREM HandlersTranslate == Spec => []HandledErrorsAreTranslated
<1>1. Inv => HandledErrorsAreTranslated BY DEF Inv
<1>2. QED BY <1>1, Invariance, PTL

\* The limiter bounds the bodies that run, for any number of requests,
\* addresses and windows and several limiters on one route.
THEOREM LimitsHold == Spec => []LimitHolds
<1>1. Inv => LimitHolds
  <2> SUFFICES ASSUME Inv, NEW n \in Counters PROVE served[n] <= Allowance * windows[n]
    BY DEF LimitHolds
  <2> DEFINE a == Allowance * (windows[n] - 1)
  <2>1. IsFiniteSet(Through(n)) /\ served[n] + Cardinality(Through(n)) <= a + spent[n]
    BY DEF Inv, Counting
  <2>2. /\ Cardinality(Through(n)) \in Nat /\ served[n] \in Nat
        /\ spent[n] \in 0 .. Allowance /\ windows[n] \in Nat /\ Allowance \in Nat
    BY <2>1, FS_CardinalityType, ConstantsAssumption DEF Inv, TypeOK
  <2>3. Allowance * windows[n] = a + Allowance /\ a \in Int BY <2>2
  <2> HIDE DEF a
  <2>4. served[n] <= a + Allowance BY <2>1, <2>2, <2>3
  <2>5. QED BY <2>3, <2>4
<1>2. QED BY <1>1, Invariance, PTL

\* A class that cannot be constructed costs its own routes and no others,
\* wherever it stands among the configured ones.
THEOREM FailuresAreContained == Spec => []FailureIsContained
<1>1. Inv => FailureIsContained
  <2> SUFFICES ASSUME Inv, adds = Len(Configured)
               PROVE  mounted = {c \in Elements(Configured) : Acceptable(c)}
    BY DEF FailureIsContained, Acceptable
  <2>1. DOMAIN Configured = 1 .. adds BY ConstantsAssumption
  <2>2. mounted = {Configured[i] : i \in {j \in 1 .. adds : Acceptable(Configured[j])}}
    BY DEF Inv, Adding
  <2>3. QED BY <2>1, <2>2 DEF Elements
<1>2. QED BY <1>1, Invariance, PTL

\* On a route with the route permission exactly the clients get past it whom
\* the roles at the method and at the class, or a custom permission, admit:
\* for any classes, decorators and clients.
THEOREM AccessFollowsDeclaration == Spec => []AccessIsAsDeclared
<1>1. Init => Asked BY DEF Init, Asked
<1>2. Spec => []Asked BY <1>1, NextAsks, Invariance, PTL DEF Spec
<1>3. Asked => AccessIsAsDeclared
  <2> SUFFICES ASSUME Asked, NEW r \in Requests, touched[r] # {}, Guarded(r)
               PROVE  "JWTRouteHTTPPermission" \in granted[r] <=> Entitled(r)
    BY DEF AccessIsAsDeclared, Guarded, Entitled, Allows
  <2>1. QED BY DEF Asked
<1>4. QED BY <1>2, <1>3, PTL
=============================================================================
