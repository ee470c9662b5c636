--------------------------- MODULE ContainerProofs ---------------------------
(***************************************************************************)
(* Theorems about the container, for every set of services, every          *)
(* dependency graph over them and every list of registrations.             *)
(***************************************************************************)
EXTENDS Container, FiniteSetTheorems, WellFoundedInduction, TLAPS

\* What each phase knows of the sets the construction works with.
PhaseShape ==
    /\ phase = "load" =>
          /\ D = Services /\ meta = {} /\ remaining = {} /\ no_dep = {}
          /\ instances = <<>> /\ DOMAIN bound = {} /\ registered = 0
          /\ DOMAIN paramsToInject = {}
    /\ phase = "build" =>
          /\ D = Services /\ meta = Services /\ registered = 0
          /\ DOMAIN bound = Services \ (remaining \cup no_dep)
          /\ remaining \cap no_dep = {}
          /\ DOMAIN paramsToInject = {}
    /\ phase = "ready" =>
          /\ D = meta /\ meta = DOMAIN bound
          /\ meta = Services \cup {Registered[i] : i \in 1 .. registered}

\* Before a round is constructed everything it needs among the services is.
RoundIsReady ==
    phase = "build" => \A x \in no_dep : Deps(x) \cap Services \subseteq DOMAIN bound

\* The services of a stuck set are never taken out of the remaining ones.
StuckRemain ==
    \A S \in SUBSET Services : Stuck(S) =>
        /\ S \cap DOMAIN bound = {}
        /\ phase = "build" => S \subseteq remaining
        /\ phase # "ready"

\* Whatever refers to an object refers to one that is bound.
ReferencesAreBound ==
    /\ \A i \in DOMAIN instances : instances[i].class \in DOMAIN bound
    /\ \A c \in DOMAIN paramsToInject : Elements(params[c]) \subseteq DOMAIN bound

\* The inductive invariant.
Inv == /\ TypeOK
       /\ PhaseShape
       /\ RoundIsReady
       /\ StuckRemain
       /\ DependenciesFirst
       /\ ReferencesAreBound
       /\ OneSharedInstance
       /\ error = "CircularDependency" => Cyclic

Object == [class : Names, holds : Seq(Nat), status : Statuses]

-----------------------------------------------------------------------------
\* A signature is a sequence: its domain is that of a sequence.
LEMMA SignatureIsSeq ==
    ASSUME NEW sig \in Signatures
    PROVE  DOMAIN sig = 1 .. Len(sig) /\ Len(sig) \in Nat
<1>1. sig \in Seq(Elements(sig)) BY ConstantsAssumption
<1>2. QED BY <1>1

\* Initially nothing exists, and nothing can be wrong.
LEMMA InitInv == Init => Inv
<1> SUFFICES ASSUME Init PROVE Inv OBVIOUS
<1> USE DEF Init
<1>1. instances \in Seq(Object) /\ DOMAIN instances = {} BY DEF Object
<1>2. Services \subseteq Names BY DEF Names
<1>3. Len(Registered) \in Nat BY ConstantsAssumption
<1>4. TypeOK BY <1>1, <1>2, <1>3 DEF TypeOK, Object
<1>5. StuckRemain BY DEF StuckRemain
<1>6. QED BY <1>1, <1>4, <1>5
          DEF Inv, PhaseShape, RoundIsReady, DependenciesFirst, ReferencesAreBound,
              OneSharedInstance, Errors

\* What constructing and binding one more object leaves: the objects before
\* it are as they were, and it holds the objects its parameters name.
LEMMA Creation ==
    ASSUME Inv, NEW x \in Names, x \notin DOMAIN bound,
           Elements(params[x]) \subseteq DOMAIN bound,
           NEW status \in Statuses,
           instances' = Append(instances, [class |-> x, holds |-> Resolve(params[x]),
                                           status |-> status]),
           bound' = Bind(bound, x, Len(instances) + 1),
           UNCHANGED <<params, paramsToInject>>
    PROVE  /\ instances' \in Seq(Object)
           /\ Len(instances') = Len(instances) + 1
           /\ DOMAIN bound' = DOMAIN bound \cup {x}
           /\ \A y \in DOMAIN bound : bound'[y] = bound[y]
           /\ bound'[x] = Len(instances) + 1
           /\ \A y \in DOMAIN bound' : bound'[y] \in 1 .. Len(instances')
           /\ ReferencesAreBound'
           /\ OneSharedInstance'
<1> DEFINE new == [class |-> x, holds |-> Resolve(params[x]), status |-> status]
           n == Len(instances)
<1>1. instances \in Seq(Object) /\ n \in Nat /\ DOMAIN instances = 1 .. n
  BY DEF Inv, TypeOK, Object
<1>2. params[x] \in Signatures BY DEF Inv, TypeOK, Names
<1>3. \A y \in DOMAIN bound : bound[y] \in 1 .. n BY DEF Inv, TypeOK
<1>4. Resolve(params[x]) \in Seq(Nat)
  <2>1. DOMAIN params[x] = 1 .. Len(params[x]) /\ Len(params[x]) \in Nat
    BY <1>2, SignatureIsSeq
  <2>2. \A i \in DOMAIN params[x] : bound[params[x][i]] \in Nat
    <3> TAKE i \in DOMAIN params[x]
    <3>1. params[x][i] \in DOMAIN bound BY DEF Elements
    <3>2. QED BY <3>1, <1>3, <1>1
  <2>3. QED BY <2>1, <2>2 DEF Resolve
<1>5. new \in Object BY <1>4 DEF Object
<1> HIDE DEF new
<1>6. instances' = Append(instances, new) BY DEF new
<1>7. /\ instances' \in Seq(Object)
      /\ Len(instances') = n + 1
      /\ DOMAIN instances' = 1 .. n + 1
      /\ instances'[n + 1] = new
      /\ \A i \in 1 .. n : instances'[i] = instances[i]
  BY <1>1, <1>5, <1>6
<1>8. /\ DOMAIN bound' = DOMAIN bound \cup {x}
      /\ \A y \in DOMAIN bound : bound'[y] = bound[y]
      /\ bound'[x] = n + 1
  BY DEF Bind
<1>9. \A y \in DOMAIN bound' : bound'[y] \in 1 .. n + 1
  <2> TAKE y \in DOMAIN bound'
  <2>1. CASE y = x BY <2>1, <1>8, <1>1
  <2>2. CASE y \in DOMAIN bound BY <2>2, <1>8, <1>3, <1>1
  <2>3. QED BY <2>1, <2>2, <1>8
<1>10. ASSUME NEW c, Elements(params[c]) \subseteq DOMAIN bound
       PROVE  /\ Resolve(params[c])' = Resolve(params[c])
              /\ Resolve(params[c]) =
                    [i \in DOMAIN params[c] |-> bound'[params[c][i]]]
  <2>1. \A i \in DOMAIN params[c] : bound'[params[c][i]] = bound[params[c][i]]
    BY <1>10, <1>8 DEF Elements
  <2>2. params'[c] = params[c] OBVIOUS
  <2>3. QED BY <2>1, <2>2 DEF Resolve
<1>11. new.class = x /\ new.holds = Resolve(params[x]) BY DEF new
<1>12. \A i \in 1 .. n : /\ instances[i].class \in DOMAIN bound
                         /\ Elements(params[instances[i].class]) \subseteq DOMAIN bound
  BY <1>1 DEF Inv, ReferencesAreBound, DependenciesFirst
<1>13. ReferencesAreBound'
  <2>1. ASSUME NEW i \in DOMAIN instances' PROVE instances'[i].class \in DOMAIN bound'
    <3>1. CASE i = n + 1 BY <3>1, <1>7, <1>8, <1>11
    <3>2. CASE i \in 1 .. n BY <3>2, <1>7, <1>8, <1>12
    <3>3. QED BY <3>1, <3>2, <1>7, <1>1
  <2>2. \A c \in DOMAIN paramsToInject' : Elements(params'[c]) \subseteq DOMAIN bound'
    BY <1>8 DEF Inv, ReferencesAreBound
  <2>3. QED BY <2>1, <2>2 DEF ReferencesAreBound, Elements
<1>14. OneSharedInstance'
  <2>1. ASSUME NEW i \in DOMAIN instances', NEW j \in DOMAIN instances',
               instances'[i].class = instances'[j].class
        PROVE  i = j
    <3>1. CASE i \in 1 .. n /\ j \in 1 .. n
      BY <2>1, <3>1, <1>1, <1>7 DEF Inv, OneSharedInstance
    <3>2. CASE i = n + 1 /\ j \in 1 .. n BY <2>1, <3>2, <1>7, <1>11, <1>12
    <3>3. CASE i \in 1 .. n /\ j = n + 1 BY <2>1, <3>3, <1>7, <1>11, <1>12
    <3>4. QED BY <3>1, <3>2, <3>3, <1>7, <1>1
  <2>2. ASSUME NEW i \in DOMAIN instances'
        PROVE  /\ bound'[instances'[i].class] = i
               /\ (instances[i].holds = Resolve(params[instances[i].class]))'
    <3>1. CASE i = n + 1
      <4>1. Resolve(params[x])' = Resolve(params[x]) BY <1>10
      <4>2. instances'[i].class = x /\ instances'[i].holds = Resolve(params[x])
        BY <3>1, <1>7, <1>11
      <4>3. Resolve(params[instances[i].class])' = Resolve(params[x])' BY <4>2
      <4>4. QED BY <3>1, <4>1, <4>2, <4>3, <1>8
    <3>2. CASE i \in 1 .. n
      <4>1. instances'[i] = instances[i] BY <3>2, <1>7
      <4>2. /\ bound[instances[i].class] = i
            /\ instances[i].holds = Resolve(params[instances[i].class])
        BY <3>2, <1>1 DEF Inv, OneSharedInstance
      <4>3. Resolve(params[instances[i].class]) =
               [k \in DOMAIN params[instances[i].class] |->
                   bound'[params[instances[i].class][k]]]
        BY <3>2, <1>10, <1>12
      <4>4. Resolve(params[instances[i].class])' =
               [k \in DOMAIN params[instances[i].class] |->
                   bound'[params[instances[i].class][k]]]
        BY <4>1 DEF Resolve
      <4>5. QED BY <4>1, <4>2, <4>3, <4>4, <3>2, <1>12, <1>8
    <3>3. QED BY <3>1, <3>2, <1>7, <1>1
  <2>3. ASSUME NEW c \in DOMAIN paramsToInject'
        PROVE  paramsToInject'[c] = Resolve(params[c])'
    <3>1. Elements(params[c]) \subseteq DOMAIN bound BY DEF Inv, ReferencesAreBound
    <3>2. Resolve(params[c])' = Resolve(params[c]) BY <3>1, <1>10
    <3>3. paramsToInject[c] = Resolve(params[c]) BY DEF Inv, OneSharedInstance
    <3>4. QED BY <3>2, <3>3
  <2>4. QED BY <2>1, <2>2, <2>3 DEF OneSharedInstance
<1>15. QED BY <1>7, <1>8, <1>9, <1>13, <1>14

-----------------------------------------------------------------------------
\* A step that constructs nothing leaves what is said of the objects.
LEMMA ObjectsFrame ==
    ASSUME Inv, UNCHANGED <<graph, objects, paramsToInject>>
    PROVE  DependenciesFirst' /\ ReferencesAreBound' /\ OneSharedInstance'
<1> USE DEF Inv, graph, objects
<1>1. DependenciesFirst' BY DEF DependenciesFirst, Elements
<1>2. ReferencesAreBound' BY DEF ReferencesAreBound, Elements
<1>3. OneSharedInstance' BY DEF OneSharedInstance, Resolve
<1>4. QED BY <1>1, <1>2, <1>3

\* Which sets are stuck is a matter of the graph.
LEMMA StuckFrame ==
    ASSUME UNCHANGED graph
    PROVE  /\ \A S : Stuck(S)' <=> Stuck(S)
           /\ \A S : S # {} => (Stuck(S) <=> \A x \in S : Deps(x) \cap S # {})
           /\ Cyclic' <=> Cyclic
           /\ \A x : Deps(x)' = Deps(x)
<1>1. \A x : Deps(x)' = Deps(x) BY DEF graph, Deps, Elements
<1>2. \A S : Stuck(S)' <=> Stuck(S) BY <1>1 DEF Stuck
<1>3. Cyclic' <=> Cyclic BY <1>2 DEF Cyclic
<1>4. QED BY <1>1, <1>2, <1>3 DEF Stuck

\* The step to the next round, or to the error, keeps the invariant: what is
\* taken out of the remaining services needs none of them, so no stuck set
\* loses a member.
LEMMA NextRoundInv ==
    ASSUME Inv, NextRound
    PROVE  Inv'
<1> USE DEF NextRound
<1>1. UNCHANGED graph /\ UNCHANGED objects /\ UNCHANGED paramsToInject OBVIOUS
<1>2. DependenciesFirst' /\ ReferencesAreBound' /\ OneSharedInstance'
  BY <1>1, ObjectsFrame
<1>3. Ready \subseteq remaining BY DEF Ready
<1>4. TypeOK'
  BY <1>1, <1>3 DEF Inv, TypeOK, graph, objects, build, RaiseError, Errors
<1>5. PhaseShape'
  BY <1>1, <1>3 DEF Inv, PhaseShape, graph, objects, build, RaiseError
<1>6. RoundIsReady'
  <2> SUFFICES ASSUME phase' = "build", NEW x \in no_dep', NEW y \in Deps(x) \cap Services
               PROVE  y \in DOMAIN bound
    BY <1>1, StuckFrame DEF RoundIsReady, objects
  <2>1. no_dep' = Ready /\ x \in remaining /\ Deps(x) \cap remaining = {}
    BY DEF RaiseError, build, Ready
  <2>2. DOMAIN bound = Services \ remaining BY DEF Inv, PhaseShape
  <2>3. QED BY <2>1, <2>2
<1>7. StuckRemain'
  <2> SUFFICES ASSUME NEW S \in SUBSET Services, Stuck(S)
               PROVE  /\ S \cap DOMAIN bound' = {}
                      /\ phase' = "build" => S \subseteq remaining'
                      /\ phase' # "ready"
    BY <1>1, StuckFrame DEF StuckRemain
  <2>1. S \cap DOMAIN bound' = {} BY <1>1 DEF Inv, StuckRemain, objects
  <2>2. S \subseteq remaining BY DEF Inv, StuckRemain
  <2>3. S \cap Ready = {} BY <2>2 DEF Stuck, Ready
  <2>4. phase' = "build" => S \subseteq remaining'
    BY <2>2, <2>3 DEF RaiseError
  <2>5. phase' # "ready" BY DEF RaiseError
  <2>6. QED BY <2>1, <2>4, <2>5
<1>8. error' = "CircularDependency" => Cyclic'
  <2>1. CASE Ready = {}
    <3>1. remaining \in SUBSET Services BY DEF Inv, TypeOK
    <3>2. Stuck(remaining) BY <2>1 DEF Stuck, Ready
    <3>3. QED BY <1>1, <3>1, <3>2, StuckFrame DEF Cyclic
  <2>2. CASE Ready # {} BY <1>1, <2>2, StuckFrame DEF Inv
  <2>3. QED BY <2>1, <2>2
<1>9. QED BY <1>2, <1>4, <1>5, <1>6, <1>7, <1>8 DEF Inv

\* The other steps that construct nothing.
LEMMA LoadInv ==
    ASSUME Inv, LoadDependencies
    PROVE  Inv'
<1> USE DEF LoadDependencies
<1>1. UNCHANGED graph /\ UNCHANGED objects /\ UNCHANGED paramsToInject OBVIOUS
<1>2. DependenciesFirst' /\ ReferencesAreBound' /\ OneSharedInstance'
  BY <1>1, ObjectsFrame
<1>3. /\ phase' \in {"raised", "build"}
      /\ error' \in Errors \cup {"none"} /\ (error' = "CircularDependency" => error' = error)
      /\ phase' = "raised" => UNCHANGED <<meta, remaining>>
      /\ phase' = "build" => meta' = Services /\ remaining' = D
  BY DEF RaiseError, LoadError, Errors, Inv, TypeOK
<1>4. TypeOK'
  BY <1>1, <1>3 DEF Inv, TypeOK, PhaseShape, graph, objects
<1>5. PhaseShape'
  BY <1>1, <1>3 DEF Inv, PhaseShape, graph, objects
<1>6. RoundIsReady' BY <1>3 DEF Inv, RoundIsReady, PhaseShape
<1>7. StuckRemain'
  BY <1>1, <1>3, StuckFrame DEF Inv, StuckRemain, PhaseShape, objects
<1>8. error' = "CircularDependency" => Cyclic'
  BY <1>1, <1>3, StuckFrame DEF Inv
<1>9. QED BY <1>2, <1>4, <1>5, <1>6, <1>7, <1>8 DEF Inv

LEMMA EndBuildInv ==
    ASSUME Inv, EndBuild
    PROVE  Inv'
<1> USE DEF EndBuild
<1>1. UNCHANGED graph /\ UNCHANGED objects /\ UNCHANGED paramsToInject OBVIOUS
<1>2. DependenciesFirst' /\ ReferencesAreBound' /\ OneSharedInstance'
  BY <1>1, ObjectsFrame
<1>3. TypeOK' BY <1>1 DEF Inv, TypeOK, graph, objects, build
<1>4. 1 .. registered = {} BY DEF Inv, PhaseShape
<1>5. PhaseShape' BY <1>1, <1>4 DEF Inv, PhaseShape, objects
<1>6. StuckRemain'
  <2> SUFFICES ASSUME NEW S \in SUBSET Services, Stuck(S) PROVE FALSE
    BY <1>1, StuckFrame DEF StuckRemain
  <2>1. S \subseteq remaining BY DEF Inv, StuckRemain
  <2>2. QED BY <2>1 DEF Stuck
<1>7. QED BY <1>1, <1>2, <1>3, <1>5, <1>6, StuckFrame DEF Inv, RoundIsReady

\* An injection that does not construct ends everything, with an error that
\* is not about cycles or with the process.
LEMMA InjectCases ==
    ASSUME NEW x, NEW known, InjectOrRaise(x, known)
    PROVE  \/ /\ phase' = "raised" /\ UNCHANGED objects
              /\ error' \in {"NoResolvedDependency", "CallError"}
           \/ phase' = "exited" /\ UNCHANGED objects /\ UNCHANGED error
           \/ /\ Elements(params[x]) \subseteq DOMAIN bound
              /\ \E status \in Statuses :
                    instances' = Append(instances, [class |-> x,
                                                    holds |-> Resolve(params[x]),
                                                    status |-> status])
              /\ bound' = Bind(bound, x, Len(instances) + 1)
              /\ UNCHANGED phase /\ UNCHANGED error
<1>1. CASE ResolveError(params[x], known) # "none"
  <2>1. RaiseError(ResolveError(params[x], known)) /\ UNCHANGED objects
    BY <1>1 DEF InjectOrRaise
  <2>2. ResolveError(params[x], known) \in {"NoResolvedDependency", "CallError"}
    BY <1>1 DEF ResolveError
  <2>3. QED BY <2>1, <2>2 DEF RaiseError
<1>2. CASE ResolveError(params[x], known) = "none"
  <2>1. Elements(params[x]) \subseteq DOMAIN bound BY <1>2 DEF ResolveError
  <2>2. PICK outcome \in BuildOutcomes : Create(x, outcome) BY <1>2 DEF InjectOrRaise
  <2>3. CASE outcome = "abort" BY <2>2, <2>3 DEF Create
  <2>4. CASE outcome # "abort"
    <3>1. StatusAfter(outcome) \in Statuses
      BY <2>4 DEF BuildOutcomes, StatusAfter, Statuses
    <3>2. QED BY <2>1, <2>2, <2>4, <3>1 DEF Create
  <2>5. QED BY <2>3, <2>4
<1>3. QED BY <1>1, <1>2

\* One service of the round: all it needs has been bound in earlier rounds.
LEMMA InjectInv ==
    ASSUME Inv, NEW x \in Services, Inject(x)
    PROVE  Inv'
<1>1. /\ phase = "build" /\ x \in no_dep /\ no_dep' = no_dep \ {x}
      /\ InjectOrRaise(x, meta)
      /\ UNCHANGED <<graph, D, meta, remaining, registered, paramsToInject>>
  BY DEF Inject
<1>2. DOMAIN bound = Services \ (remaining \cup no_dep) /\ meta = Services
      /\ remaining \cap no_dep = {} /\ D = Services
  BY <1>1 DEF Inv, PhaseShape
<1>3. CASE UNCHANGED objects /\ phase' \in {"raised", "exited"}
           /\ error' \in Errors \cup {"none"}
           /\ (error' = "CircularDependency" => error' = error)
  <2>1. DependenciesFirst' /\ ReferencesAreBound' /\ OneSharedInstance'
    BY <1>1, <1>3, ObjectsFrame
  <2>2. TypeOK' BY <1>1, <1>3 DEF Inv, TypeOK, graph, objects
  <2>3. PhaseShape' /\ RoundIsReady' BY <1>3 DEF PhaseShape, RoundIsReady
  <2>4. StuckRemain' BY <1>1, <1>3, StuckFrame DEF Inv, StuckRemain, objects
  <2>5. error' = "CircularDependency" => Cyclic' BY <1>1, <1>3, StuckFrame DEF Inv
  <2>6. QED BY <2>1, <2>2, <2>3, <2>4, <2>5 DEF Inv
<1>4. ASSUME Elements(params[x]) \subseteq DOMAIN bound,
             NEW status \in Statuses,
             instances' = Append(instances, [class |-> x, holds |-> Resolve(params[x]),
                                             status |-> status]),
             bound' = Bind(bound, x, Len(instances) + 1),
             UNCHANGED phase, UNCHANGED error
      PROVE  Inv'
  <2>1. x \notin DOMAIN bound /\ x \in Names BY <1>1, <1>2 DEF Names
  <2>2. UNCHANGED <<params, paramsToInject>> BY <1>1 DEF graph
  <2>3. /\ instances' \in Seq(Object)
        /\ DOMAIN bound' = DOMAIN bound \cup {x}
        /\ \A y \in DOMAIN bound : bound'[y] = bound[y]
        /\ bound'[x] = Len(instances) + 1
        /\ \A y \in DOMAIN bound' : bound'[y] \in 1 .. Len(instances')
        /\ ReferencesAreBound' /\ OneSharedInstance'
    BY <2>1, <2>2, <1>4, Creation
  <2>4. TypeOK' BY <1>1, <1>2, <1>4, <2>3 DEF Inv, TypeOK, graph, Object
  <2>5. PhaseShape' BY <1>1, <1>2, <1>4, <2>3 DEF Inv, PhaseShape
  <2>6. RoundIsReady'
    BY <1>1, <2>3, StuckFrame DEF Inv, RoundIsReady
  <2>7. StuckRemain'
    <3> SUFFICES ASSUME NEW S \in SUBSET Services, Stuck(S)
                 PROVE  S \cap DOMAIN bound' = {} /\ S \subseteq remaining'
      BY <1>1, <1>4, StuckFrame DEF StuckRemain
    <3>1. S \subseteq remaining /\ S \cap DOMAIN bound = {}
      BY <1>1 DEF Inv, StuckRemain
    <3>2. x \notin S BY <3>1, <1>1, <1>2
    <3>3. QED BY <3>1, <3>2, <2>3, <1>1
  <2>8. DependenciesFirst'
    <3> SUFFICES ASSUME NEW z \in DOMAIN bound',
                        NEW y \in Elements(params[z]) \cup (possible[z] \cap Services)
                 PROVE  y \in DOMAIN bound' /\ bound'[y] < bound'[z]
      BY <1>1 DEF DependenciesFirst, graph, Elements
    <3>1. CASE z \in DOMAIN bound
      BY <3>1, <2>3 DEF Inv, DependenciesFirst
    <3>2. CASE z = x
      <4>1. y \in DOMAIN bound
        BY <3>2, <1>1, <1>4 DEF Inv, RoundIsReady, Deps
      <4>2. bound[y] \in 1 .. Len(instances) BY <4>1 DEF Inv, TypeOK
      <4>3. Len(instances) \in Nat BY DEF Inv, TypeOK
      <4>4. QED BY <4>1, <4>2, <4>3, <3>2, <2>3
    <3>3. QED BY <3>1, <3>2, <2>3
  <2>9. error' = "CircularDependency" => Cyclic' BY <1>1, <1>4, StuckFrame DEF Inv
  <2>10. QED BY <2>3, <2>4, <2>5, <2>6, <2>7, <2>8, <2>9 DEF Inv
<1>5. error \in Errors \cup {"none"} BY DEF Inv, TypeOK
<1>6. QED BY <1>1, <1>3, <1>4, <1>5, InjectCases DEF Errors

\* A registration: the class is new, and everything bound stays as it was.
LEMMA RegisterInv ==
    ASSUME Inv, Register
    PROVE  Inv'
<1> DEFINE x == Registered[registered + 1]
<1>1. /\ phase = "ready" /\ registered < Len(Registered)
      /\ D' = D \cup {x} /\ registered' = registered + 1
      /\ UNCHANGED <<graph, build, paramsToInject>>
  BY DEF Register
<1>2. /\ Registered \in Seq(Late) /\ Len(Registered) \in Nat
      /\ DOMAIN Registered = 1 .. Len(Registered)
      /\ registered \in 0 .. Len(Registered)
  BY ConstantsAssumption DEF Inv, TypeOK
<1>3. registered + 1 \in 1 .. Len(Registered) /\ registered' \in 0 .. Len(Registered)
  BY <1>1, <1>2
<1>4. x \in Late /\ x \in Names /\ x \notin Services
  BY <1>2, <1>3, ConstantsAssumption DEF Names
<1>5. D = meta /\ meta = DOMAIN bound
      /\ meta = Services \cup {Registered[i] : i \in 1 .. registered}
  BY <1>1 DEF Inv, PhaseShape
<1>6. x \notin DOMAIN bound
  <2>1. \A i \in 1 .. registered : Registered[i] # x
    BY <1>2, <1>3, ConstantsAssumption
  <2>2. QED BY <2>1, <1>4, <1>5
<1>7. CASE /\ UNCHANGED objects /\ phase' \in {"raised", "exited"}
           /\ meta' \in {meta, meta \cup {x}}
           /\ error' \in Errors \cup {"none"}
           /\ (error' = "CircularDependency" => error' = error)
  <2>1. DependenciesFirst' /\ ReferencesAreBound' /\ OneSharedInstance'
    BY <1>1, <1>7, ObjectsFrame
  <2>2. TypeOK' BY <1>1, <1>3, <1>4, <1>7 DEF Inv, TypeOK, graph, objects, build
  <2>3. PhaseShape' /\ RoundIsReady' BY <1>7 DEF PhaseShape, RoundIsReady
  <2>4. StuckRemain' BY <1>1, <1>7, StuckFrame DEF Inv, StuckRemain, objects
  <2>5. error' = "CircularDependency" => Cyclic' BY <1>1, <1>7, StuckFrame DEF Inv
  <2>6. QED BY <2>1, <2>2, <2>3, <2>4, <2>5 DEF Inv
<1>8. ASSUME Elements(params[x]) \subseteq DOMAIN bound,
             NEW status \in Statuses,
             instances' = Append(instances, [class |-> x, holds |-> Resolve(params[x]),
                                             status |-> status]),
             bound' = Bind(bound, x, Len(instances) + 1),
             meta' = meta \cup {x}, UNCHANGED phase, UNCHANGED error
      PROVE  Inv'
  <2>1. UNCHANGED <<params, paramsToInject>> BY <1>1 DEF graph
  <2>2. /\ instances' \in Seq(Object)
        /\ DOMAIN bound' = DOMAIN bound \cup {x}
        /\ \A y \in DOMAIN bound : bound'[y] = bound[y]
        /\ bound'[x] = Len(instances) + 1
        /\ \A y \in DOMAIN bound' : bound'[y] \in 1 .. Len(instances')
        /\ ReferencesAreBound' /\ OneSharedInstance'
    <3> HIDE DEF x
    <3>1. QED BY <2>1, <1>4, <1>6, <1>8, Creation
  <2>3. TypeOK'
    BY <1>1, <1>3, <1>4, <1>8, <2>2 DEF Inv, TypeOK, graph, build, Object
  <2>4. 1 .. registered' = (1 .. registered) \cup {registered + 1} BY <1>1, <1>2, <1>3
  <2>5. meta' = Services \cup {Registered[i] : i \in 1 .. registered'}
    BY <2>4, <1>5, <1>8
  <2>6. PhaseShape' BY <1>1, <1>5, <1>8, <2>2, <2>5 DEF PhaseShape
  <2>7. RoundIsReady' BY <1>1, <1>8 DEF RoundIsReady
  <2>8. StuckRemain' BY <1>1, StuckFrame, <1>8 DEF Inv, StuckRemain
  <2>9. DependenciesFirst'
    <3> HIDE DEF x
    <3> SUFFICES ASSUME NEW z \in DOMAIN bound',
                        NEW y \in Elements(params[z]) \cup (possible[z] \cap Services)
                 PROVE  y \in DOMAIN bound' /\ bound'[y] < bound'[z]
      BY <1>1 DEF DependenciesFirst, graph, Elements
    <3>1. CASE z \in DOMAIN bound BY <3>1, <2>2 DEF Inv, DependenciesFirst
    <3>2. CASE z = x
      <4>1. y \in DOMAIN bound BY <3>2, <1>5, <1>8
      <4>2. bound[y] \in 1 .. Len(instances) BY <4>1 DEF Inv, TypeOK
      <4>3. Len(instances) \in Nat BY DEF Inv, TypeOK
      <4>4. QED BY <4>1, <4>2, <4>3, <3>2, <2>2
    <3>3. QED BY <3>1, <3>2, <2>2
  <2>10. error' = "CircularDependency" => Cyclic' BY <1>1, <1>8, StuckFrame DEF Inv
  <2>11. QED BY <2>2, <2>3, <2>6, <2>7, <2>8, <2>9, <2>10 DEF Inv
<1>9. error \in Errors \cup {"none"} BY DEF Inv, TypeOK
<1>10. CASE LoadError(x, D') # "none" /\ RaiseError(LoadError(x, D'))
            /\ UNCHANGED <<meta, objects>>
  <2>1. LoadError(x, D') \in {"MultipleParameterSameDependency", "NotInDependencies"}
    BY <1>10 DEF LoadError
  <2>2. QED BY <1>7, <1>10, <2>1 DEF RaiseError, Errors
<1>11. CASE meta' = meta \cup {x} /\ InjectOrRaise(x, meta')
  <2>1. \/ UNCHANGED objects /\ phase' = "raised"
           /\ error' \in {"NoResolvedDependency", "CallError"}
        \/ phase' = "exited" /\ UNCHANGED objects /\ UNCHANGED error
        \/ /\ Elements(params[x]) \subseteq DOMAIN bound
           /\ \E status \in Statuses :
                 instances' = Append(instances, [class |-> x,
                                                 holds |-> Resolve(params[x]),
                                                 status |-> status])
           /\ bound' = Bind(bound, x, Len(instances) + 1)
           /\ UNCHANGED phase /\ UNCHANGED error
    <3> HIDE DEF x
    <3>1. QED BY <1>11, InjectCases
  <2>2. QED BY <2>1, <1>7, <1>8, <1>9, <1>11 DEF Errors
<1>12. QED BY <1>10, <1>11 DEF Register

\* A client class receives objects that are bound, or is refused.
LEMMA InjectInInv ==
    ASSUME Inv, NEW c \in Clients, InjectIn(c)
    PROVE  Inv'
<1>1. /\ phase = "ready" /\ UNCHANGED <<graph, D, meta, build, objects, registered>>
  BY DEF InjectIn
<1>2. error \in Errors \cup {"none"} BY DEF Inv, TypeOK
<1>3. CASE /\ UNCHANGED paramsToInject /\ phase' = "raised"
           /\ error' \in Errors /\ error' # "CircularDependency"
  <2>1. DependenciesFirst' /\ ReferencesAreBound' /\ OneSharedInstance'
    BY <1>1, <1>3, ObjectsFrame
  <2>2. TypeOK' BY <1>1, <1>3 DEF Inv, TypeOK, graph, objects, build
  <2>3. PhaseShape' /\ RoundIsReady' BY <1>3 DEF PhaseShape, RoundIsReady
  <2>4. StuckRemain' BY <1>1, <1>3, StuckFrame DEF Inv, StuckRemain, objects
  <2>5. QED BY <1>3, <2>1, <2>2, <2>3, <2>4 DEF Inv
<1>4. CASE /\ ResolveError(params[c], meta) = "none"
           /\ paramsToInject' = Bind(paramsToInject, c, Resolve(params[c]))
           /\ UNCHANGED <<phase, error>>
  <2>1. Elements(params[c]) \subseteq DOMAIN bound BY <1>4 DEF ResolveError
  <2>2. DOMAIN paramsToInject' = DOMAIN paramsToInject \cup {c} BY <1>4 DEF Bind
  <2>3. TypeOK' BY <1>1, <1>4, <2>2 DEF Inv, TypeOK, graph, objects, build
  <2>4. PhaseShape' BY <1>1, <1>4 DEF Inv, PhaseShape, objects
  <2>5. StuckRemain' BY <1>1, <1>4, StuckFrame DEF Inv, StuckRemain, objects
  <2>6. DependenciesFirst' BY <1>1 DEF Inv, DependenciesFirst, Elements, graph, objects
  <2>7. ReferencesAreBound'
    BY <1>1, <2>1, <2>2 DEF Inv, ReferencesAreBound, Elements, graph, objects
  <2>8. \A sig : Resolve(sig)' = Resolve(sig) BY <1>1 DEF Resolve, objects
  <2>9. OneSharedInstance'
    <3>1. \A d \in DOMAIN paramsToInject' : paramsToInject'[d] = Resolve(params[d])
      BY <1>4, <2>2 DEF Bind, Inv, OneSharedInstance
    <3>2. QED BY <1>1, <3>1 DEF Inv, OneSharedInstance, Resolve, graph, objects
  <2>10. QED BY <1>1, <1>4, <2>3, <2>4, <2>5, <2>6, <2>7, <2>9, StuckFrame
             DEF Inv, RoundIsReady
<1>5. ResolveError(params[c], meta) \in {"none", "NoResolvedDependency", "CallError"}
  BY DEF ResolveError
<1>6. QED BY <1>3, <1>4, <1>5 DEF InjectIn, RaiseError, Errors

\* Every step keeps the invariant.
LEMMA StepInv == Inv /\ [Next]_vars => Inv'
<1> SUFFICES ASSUME Inv, [Next]_vars PROVE Inv' OBVIOUS
<1>1. CASE LoadDependencies BY <1>1, LoadInv
<1>2. CASE NextRound BY <1>2, NextRoundInv
<1>3. CASE EndBuild BY <1>3, EndBuildInv
<1>4. CASE Register BY <1>4, RegisterInv
<1>5. CASE \E x \in Services : Inject(x) BY <1>5, InjectInv
<1>6. CASE \E c \in Clients : InjectIn(c) BY <1>6, InjectInInv
<1>7. CASE UNCHANGED vars
  <2>1. UNCHANGED <<graph, objects, paramsToInject>> BY <1>7 DEF vars
  <2>2. DependenciesFirst' /\ ReferencesAreBound' /\ OneSharedInstance'
    BY <2>1, ObjectsFrame
  <2>3. TypeOK' BY <1>7 DEF Inv, TypeOK, vars, graph, objects, build
  <2>4. PhaseShape' BY <1>7 DEF Inv, PhaseShape, vars, objects, build
  <2>5. RoundIsReady'
    BY <1>7, <2>1, StuckFrame DEF Inv, RoundIsReady, vars, objects, build
  <2>6. StuckRemain'
    BY <1>7, <2>1, StuckFrame DEF Inv, StuckRemain, vars, objects, build
  <2>7. QED BY <1>7, <2>1, <2>2, <2>3, <2>4, <2>5, <2>6, StuckFrame DEF Inv, vars
<1>8. QED BY <1>1, <1>2, <1>3, <1>4, <1>5, <1>6, <1>7 DEF Next

\* The inductive invariant holds of every behaviour of the container.
THEOREM Invariance == Spec => []Inv
<1>1. QED BY InitInv, StepInv, PTL DEF Spec

-----------------------------------------------------------------------------
\* The state variables keep their types: in particular whatever is bound has
\* metadata, and every binding is the index of an object.
THEOREM TypeCorrect == Spec => []TypeOK
<1>1. Inv => TypeOK BY DEF Inv
<1>2. QED BY <1>1, Invariance, PTL

\* __buildContainer raises CircularDependencyError only for graphs with a
\* cycle, and no graph with a cycle ever gets a container.
THEOREM CyclesAreFound == Spec => []CircularIffCyclic
<1>1. Inv => CircularIffCyclic
  <2> SUFFICES ASSUME Inv, phase = "ready", Cyclic PROVE FALSE
    BY DEF Inv, CircularIffCyclic
  <2>1. QED BY DEF Inv, StuckRemain, Cyclic
<1>2. QED BY <1>1, Invariance, PTL

\* Neither a service on a cycle nor one that depends on it is constructed.
THEOREM CyclesAreNotConstructed == Spec => []NothingStuckIsConstructed
<1>1. Inv => NothingStuckIsConstructed
  BY DEF Inv, StuckRemain, NothingStuckIsConstructed
<1>2. QED BY <1>1, Invariance, PTL

\* What a service needs was constructed before it, possible dependencies too.
THEOREM NeedsComeFirst == Spec => []DependenciesFirst
<1>1. Inv => DependenciesFirst BY DEF Inv
<1>2. QED BY <1>1, Invariance, PTL

\* One object per class, held by everybody who asked for the class.
THEOREM InstancesAreShared == Spec => []OneSharedInstance
<1>1. Inv => OneSharedInstance BY DEF Inv
<1>2. QED BY <1>1, Invariance, PTL

\* A step binds at most one class, and that class was not bound.
LEMMA BindsOne ==
    ASSUME Inv, [Next]_vars
    PROVE  \/ DOMAIN bound' = DOMAIN bound
           \/ \E x \in Names : /\ x \notin DOMAIN bound
                               /\ DOMAIN bound' = DOMAIN bound \cup {x}
<1>1. ASSUME NEW x, NEW known, InjectOrRaise(x, known)
      PROVE  DOMAIN bound' \in {DOMAIN bound, DOMAIN bound \cup {x}}
  BY <1>1, InjectCases DEF objects, Bind
<1>2. CASE \E x \in Services : Inject(x)
  <2>1. PICK x \in Services : Inject(x) BY <1>2
  <2>2. x \in Names /\ x \notin DOMAIN bound
    BY <2>1 DEF Inject, Inv, PhaseShape, Names
  <2>3. DOMAIN bound' \in {DOMAIN bound, DOMAIN bound \cup {x}} BY <2>1, <1>1 DEF Inject
  <2>4. QED BY <2>2, <2>3
<1>3. CASE Register
  <2> DEFINE x == Registered[registered + 1]
  <2>1. registered + 1 \in DOMAIN Registered /\ Registered \in Seq(Late)
        /\ registered \in Nat
    BY <1>3, ConstantsAssumption DEF Register, Inv, TypeOK
  <2>2. x \in Names BY <2>1 DEF Names
  <2>3. DOMAIN bound' \in {DOMAIN bound, DOMAIN bound \cup {x}}
    BY <1>3, <1>1 DEF Register, objects
  <2>4. CASE x \in DOMAIN bound BY <2>3, <2>4
  <2>5. QED BY <2>2, <2>3, <2>4
<1>4. CASE ~Register /\ ~\E x \in Services : Inject(x)
  BY <1>4 DEF Next, LoadDependencies, NextRound, EndBuild, InjectIn, vars, objects
<1>5. QED BY <1>2, <1>3, <1>4

\* The container implements the order of construction.
THEOREM Refinement == Spec => ImplementsOrder
<1> DEFINE needs == [x \in Names |-> Elements(params[x]) \cup (possible[x] \cap Services)]
<1>1. Init => Order!OrderInit BY DEF Init, Order!OrderInit
<1>2. Inv /\ Inv' /\ [Next]_vars => [Order!OrderNext]_<<needs, DOMAIN bound>>
  <2> SUFFICES ASSUME Inv, Inv', [Next]_vars
               PROVE  Order!OrderNext \/ UNCHANGED <<needs, DOMAIN bound>>
    OBVIOUS
  <2>1. UNCHANGED graph
    BY DEF Next, LoadDependencies, NextRound, EndBuild, Register, Inject, InjectIn, vars
  <2>2. needs' = needs BY <2>1 DEF graph, Elements
  <2>3. ASSUME NEW x \in Names, x \notin DOMAIN bound,
               DOMAIN bound' = DOMAIN bound \cup {x}
        PROVE  Order!OrderNext
    <3>1. \A y \in needs[x] : y \in DOMAIN bound' /\ bound'[y] < bound'[x]
      BY <2>1, <2>3 DEF Inv, DependenciesFirst, graph, Elements
    <3>2. bound'[x] \in Nat BY <2>3 DEF Inv, TypeOK
    <3>3. x \notin needs[x] BY <3>1, <3>2
    <3>4. needs[x] \subseteq DOMAIN bound BY <3>1, <3>3, <2>3
    <3>5. Order!Construct(x) BY <3>4, <2>2, <2>3 DEF Order!Construct
    <3>6. QED BY <3>5, <2>3 DEF Order!OrderNext
  <2>4. QED BY <2>2, <2>3, BindsOne
<1>3. QED BY <1>1, <1>2, Invariance, PTL DEF Spec, ImplementsOrder, Order!OrderSpec
-----------------------------------------------------------------------------
(* Completeness and justified errors                                       *)

\* There is an object for each service that is bound, and later for each
\* call of Register.
Counted ==
    /\ phase = "build" => Len(instances) = Cardinality(DOMAIN bound)
    /\ phase = "ready" => Len(instances) = Cardinality(Services) + registered

\* A service whose signature was accepted knows no other names.
Accepted ==
    phase = "build" => \A x \in Services : Elements(params[x]) \subseteq Services \cup Abstract

\* An accepted injection leaves one object more, or ends everything.
LEMMA InjectCounts ==
    ASSUME Inv, NEW x, NEW known, InjectOrRaise(x, known)
    PROVE  \/ phase' \in {"raised", "exited"}
           \/ /\ UNCHANGED phase
              /\ Len(instances') = Len(instances) + 1
              /\ DOMAIN bound' = DOMAIN bound \cup {x}
<1>1. instances \in Seq(Object) BY DEF Inv, TypeOK, Object
<1>2. CASE phase' \in {"raised", "exited"} BY <1>2
<1>3. CASE phase' \notin {"raised", "exited"}
  <2>1. PICK status \in Statuses :
           /\ instances' = Append(instances, [class |-> x, holds |-> Resolve(params[x]),
                                              status |-> status])
           /\ bound' = Bind(bound, x, Len(instances) + 1)
           /\ UNCHANGED phase
    BY <1>3, InjectCases
  <2> DEFINE new == [class |-> x, holds |-> Resolve(params[x]), status |-> status]
  <2>2. instances' = Append(instances, new) BY <2>1
  <2> HIDE DEF new
  <2>3. Len(instances') = Len(instances) + 1 BY <1>1, <2>2
  <2>4. QED BY <2>1, <2>3 DEF Bind
<1>4. QED BY <1>2, <1>3

\* Every step keeps the count.
LEMMA CountedStep == Inv /\ Counted /\ [Next]_vars => Counted'
<1> SUFFICES ASSUME Inv, Counted, [Next]_vars PROVE Counted' OBVIOUS
<1>1. CASE LoadDependencies
  <2>1. phase' \in {"raised", "build"} /\ UNCHANGED objects
    BY <1>1 DEF LoadDependencies, RaiseError
  <2>2. instances = <<>> /\ DOMAIN bound = {}
    BY <1>1 DEF LoadDependencies, Inv, PhaseShape
  <2>3. QED BY <2>1, <2>2, FS_EmptySet DEF Counted, objects
<1>2. CASE NextRound BY <1>2 DEF NextRound, Counted, objects, RaiseError
<1>3. CASE EndBuild
  <2>1. /\ phase = "build" /\ phase' = "ready" /\ UNCHANGED <<objects, registered>>
        /\ remaining = {} /\ no_dep = {}
    BY <1>3 DEF EndBuild
  <2>2. DOMAIN bound = Services /\ registered = 0 BY <2>1 DEF Inv, PhaseShape
  <2>3. Cardinality(Services) \in Nat BY ConstantsAssumption, FS_CardinalityType
  <2>4. QED BY <2>1, <2>2, <2>3 DEF Counted, objects
<1>4. CASE Register
  <2> DEFINE x == Registered[registered + 1]
  <2>1. phase = "ready" /\ registered' = registered + 1 BY <1>4 DEF Register
  <2>2. \/ phase' = "raised" \/ InjectOrRaise(x, meta') BY <1>4 DEF Register, RaiseError
  <2>3. registered \in Nat /\ Cardinality(Services) \in Nat
    BY ConstantsAssumption, FS_CardinalityType DEF Inv, TypeOK
  <2> HIDE DEF x
  <2>4. CASE phase' \in {"raised", "exited"} BY <2>4 DEF Counted
  <2>5. CASE phase' = "ready" /\ Len(instances') = Len(instances) + 1
    BY <2>1, <2>3, <2>5 DEF Counted
  <2>6. QED BY <2>1, <2>2, <2>4, <2>5, InjectCounts
<1>5. ASSUME NEW x \in Services, Inject(x) PROVE Counted'
  <2>1. phase = "build" /\ x \in no_dep /\ InjectOrRaise(x, meta) BY <1>5 DEF Inject
  <2>2. x \notin DOMAIN bound /\ DOMAIN bound \in SUBSET Services
    BY <2>1 DEF Inv, PhaseShape
  <2>3. /\ Cardinality(DOMAIN bound \cup {x}) = Cardinality(DOMAIN bound) + 1
    BY <2>2, ConstantsAssumption, FS_Subset, FS_AddElement
  <2>4. CASE phase' \in {"raised", "exited"} BY <2>4 DEF Counted
  <2>5. CASE /\ UNCHANGED phase /\ Len(instances') = Len(instances) + 1
             /\ DOMAIN bound' = DOMAIN bound \cup {x}
    BY <2>1, <2>3, <2>5 DEF Counted
  <2>6. QED BY <2>1, <2>4, <2>5, InjectCounts
<1>6. ASSUME NEW c \in Clients, InjectIn(c) PROVE Counted'
  BY <1>6 DEF InjectIn, RaiseError, Counted, objects
<1>7. CASE UNCHANGED vars BY <1>7 DEF vars, objects, Counted
<1>8. QED BY <1>1, <1>2, <1>3, <1>4, <1>5, <1>6, <1>7 DEF Next

\* When the container is ready every service is bound and there is one object
\* for each of them and for each registered class: the rounds skip nobody.
THEOREM RoundsSkipNobody == Spec => []ReadyIsComplete
<1>1. Init => Counted BY DEF Init, Counted
<1>2. Inv /\ Counted => ReadyIsComplete BY DEF Inv, PhaseShape, Counted, ReadyIsComplete
<1>3. QED BY <1>1, <1>2, CountedStep, Invariance, PTL DEF Spec
\* What a signature without an error knows.
LEMMA AcceptedSignature ==
    ASSUME NEW x, NEW known, LoadError(x, known) = "none"
    PROVE  Elements(params[x]) \subseteq known \cup Abstract
BY DEF LoadError, UnknownParameter

\* Where an injection reports an error there is one.
LEMMA InjectErrors ==
    ASSUME NEW x, NEW known, InjectOrRaise(x, known)
    PROVE  \/ UNCHANGED error
           \/ error' = "NoResolvedDependency" /\ Elements(params[x]) \ known # {}
           \/ /\ error' = "CallError"
              /\ Elements(params[x]) \subseteq known
              /\ Elements(params[x]) \ DOMAIN bound # {}
BY DEF InjectOrRaise, ResolveError, RaiseError, Create

\* Only services with an accepted signature come to the rounds.
LEMMA AcceptedStep == Inv /\ Accepted /\ [Next]_vars => Accepted'
<1> SUFFICES ASSUME Inv, Accepted, [Next]_vars, phase' = "build" PROVE Accepted'
  BY DEF Accepted
<1>1. \A x : Elements(params[x])' = Elements(params[x])
  BY DEF Next, LoadDependencies, NextRound, EndBuild, Register, Inject, InjectIn, vars, graph,
         Elements
<1>2. CASE LoadDependencies
  <2>1. D = Services /\ \A x \in Services : LoadError(x, D) = "none"
    BY <1>2 DEF LoadDependencies, RaiseError, Inv, PhaseShape
  <2>2. QED BY <1>1, <2>1, AcceptedSignature DEF Accepted
<1>3. CASE phase = "build" BY <1>1, <1>3 DEF Accepted
<1>4. CASE ~LoadDependencies /\ phase # "build"
  BY <1>4 DEF Next, NextRound, EndBuild, Register, Inject, InjectIn, vars, RaiseError,
              InjectOrRaise, Create
<1>5. QED BY <1>2, <1>3, <1>4

\* The graph does not change, so an error stays justified.
LEMMA ErrorsFrame ==
    ASSUME ErrorsAreJustified, UNCHANGED <<graph, error>>
    PROVE  ErrorsAreJustified'
<1>1. \A x : Elements(params[x])' = Elements(params[x]) BY DEF graph, Elements
<1>2. QED BY <1>1 DEF ErrorsAreJustified

\* Every step that raises has a reason in the graph.
LEMMA ErrorsStep == Inv /\ Accepted /\ ErrorsAreJustified /\ [Next]_vars => ErrorsAreJustified'
<1> SUFFICES ASSUME Inv, Accepted, ErrorsAreJustified, [Next]_vars PROVE ErrorsAreJustified'
  OBVIOUS
<1>1. UNCHANGED graph
  BY DEF Next, LoadDependencies, NextRound, EndBuild, Register, Inject, InjectIn, vars
<1>2. \A x : Elements(params[x])' = Elements(params[x]) BY <1>1 DEF graph, Elements
<1>3. CASE UNCHANGED error BY <1>1, <1>3, ErrorsFrame
<1>4. ASSUME NEW x \in Names, NEW known, Services \subseteq known,
             LoadError(x, known) # "none", error' = LoadError(x, known)
      PROVE  ErrorsAreJustified'
  <2>1. error' = "NotInDependencies" => Elements(params[x]) \ (Services \cup Abstract) # {}
    BY <1>4 DEF LoadError, UnknownParameter
  <2>2. error' \in {"MultipleParameterSameDependency", "NotInDependencies"}
    BY <1>4 DEF LoadError
  <2>3. QED BY <1>2, <2>1, <2>2 DEF ErrorsAreJustified
<1>5. CASE LoadDependencies
  <2>1. Services \subseteq Names /\ D = Services
    BY <1>5 DEF LoadDependencies, Inv, PhaseShape, Names
  <2>2. QED BY <1>3, <1>4, <1>5, <2>1 DEF LoadDependencies, RaiseError
<1>6. CASE NextRound
  <2>1. UNCHANGED error \/ error' = "CircularDependency" BY <1>6 DEF NextRound, RaiseError
  <2>2. QED BY <1>3, <2>1 DEF ErrorsAreJustified
<1>7. CASE EndBuild BY <1>3, <1>7 DEF EndBuild
<1>8. CASE Register
  <2> DEFINE x == Registered[registered + 1]
  <2>1. x \in Late /\ x \in Names
    <3>1. registered + 1 \in DOMAIN Registered
      BY <1>8, ConstantsAssumption DEF Register, Inv, TypeOK
    <3>2. QED BY <3>1 DEF Late, Names, Elements
  <2>2. D = meta /\ meta = DOMAIN bound /\ Services \subseteq meta /\ D' = D \cup {x}
    BY <1>8 DEF Register, Inv, PhaseShape
  <2>3. \/ LoadError(x, D') # "none" /\ error' = LoadError(x, D')
        \/ LoadError(x, D') = "none" /\ meta' = meta \cup {x} /\ InjectOrRaise(x, meta')
    BY <1>8 DEF Register, RaiseError
  <2> HIDE DEF x
  <2>4. CASE LoadError(x, D') # "none" /\ error' = LoadError(x, D')
    BY <1>4, <2>1, <2>2, <2>4
  <2>5. CASE LoadError(x, D') = "none" /\ meta' = meta \cup {x} /\ InjectOrRaise(x, meta')
    <3>1. Elements(params[x]) \subseteq meta' \cup Abstract
      BY <2>2, <2>5, AcceptedSignature
    <3>2. CASE error' = "NoResolvedDependency" /\ Elements(params[x]) \ meta' # {}
      <4>1. Elements(params[x]) \cap Abstract # {} BY <3>1, <3>2
      <4>2. QED BY <1>2, <2>1, <3>2, <4>1 DEF ErrorsAreJustified
    <3>3. CASE /\ error' = "CallError" /\ Elements(params[x]) \subseteq meta'
               /\ Elements(params[x]) \ DOMAIN bound # {}
      <4>1. x \in Elements(params[x]) BY <2>2, <2>5, <3>3
      <4>2. QED BY <1>2, <2>1, <3>3, <4>1 DEF ErrorsAreJustified
    <3>4. QED BY <1>3, <2>5, <3>2, <3>3, InjectErrors
  <2>6. QED BY <2>3, <2>4, <2>5
<1>9. ASSUME NEW x \in Services, Inject(x) PROVE ErrorsAreJustified'
  <2>1. phase = "build" /\ x \in no_dep /\ InjectOrRaise(x, meta) BY <1>9 DEF Inject
  <2>2. /\ meta = Services /\ x \in Names
        /\ Elements(params[x]) \subseteq Services \cup Abstract
        /\ Elements(params[x]) \cap Services \subseteq DOMAIN bound
    BY <2>1 DEF Inv, PhaseShape, Accepted, RoundIsReady, Deps, Names
  <2>3. CASE error' = "NoResolvedDependency" /\ Elements(params[x]) \ meta # {}
    <3>1. Elements(params[x]) \cap Abstract # {} BY <2>2, <2>3
    <3>2. QED BY <1>2, <2>2, <2>3, <3>1 DEF ErrorsAreJustified
  <2>4. QED BY <1>3, <2>1, <2>2, <2>3, InjectErrors
<1>10. ASSUME NEW c \in Clients, InjectIn(c) PROVE ErrorsAreJustified'
  <2>1. /\ phase = "ready" /\ registered = Len(Registered)
        /\ \/ UNCHANGED error
           \/ error' = "MultipleParameterSameDependency"
           \/ error' = ResolveError(params[c], meta)
    BY <1>10 DEF InjectIn, RaiseError
  <2>2. meta = DOMAIN bound /\ meta = Names
    <3>1. DOMAIN Registered = 1 .. Len(Registered) BY ConstantsAssumption
    <3>2. Late = {Registered[i] : i \in 1 .. registered} BY <2>1, <3>1 DEF Late, Elements
    <3>3. QED BY <2>1, <3>2 DEF Inv, PhaseShape, Names
  <2>3. CASE error' = "MultipleParameterSameDependency" BY <2>3 DEF ErrorsAreJustified
  <2>4. CASE error' = ResolveError(params[c], meta)
    <3>1. \/ error' = "none"
          \/ error' = "NoResolvedDependency" /\ Elements(params[c]) \ Names # {}
      BY <2>2, <2>4 DEF ResolveError
    <3>2. QED BY <1>2, <3>1 DEF ErrorsAreJustified
  <2>5. QED BY <1>3, <2>1, <2>3, <2>4
<1>11. CASE UNCHANGED vars BY <1>3, <1>11 DEF vars
<1>12. QED BY <1>5, <1>6, <1>7, <1>8, <1>9, <1>10, <1>11 DEF Next

\* An error of the container names a defect the graph has: a name nobody
\* knows, an abstract class nobody resolves, a late class that asks for itself.
THEOREM ErrorsHaveReasons == Spec => []ErrorsAreJustified
<1>1. Init => Accepted /\ ErrorsAreJustified BY DEF Init, Accepted, ErrorsAreJustified
<1>2. QED BY <1>1, AcceptedStep, ErrorsStep, Invariance, PTL DEF Spec
-----------------------------------------------------------------------------
(* The rounds descend                                                      *)

\* What the construction has left to do: a service still among the remaining
\* ones has to be taken into a round and then constructed.
Left == 2 * Cardinality(remaining) + Cardinality(no_dep)

\* A step of the rounds lowers what is left, or the rounds are over; reading
\* the signatures takes one step, and nothing comes back to either phase.
Descends ==
    /\ phase = "load" => phase' # "load"
    /\ phase = "build" => phase' # "load" /\ (phase' = "build" => Left' < Left)
    /\ phase \notin {"load", "build"} => phase' \notin {"load", "build"}

\* While services are left a step of the rounds can be taken: the service with
\* the fewest parameters of the round can be constructed, and a new round is
\* begun, or the rounds are ended, where there is none.
RoundsGoOn ==
    phase = "build" =>
        \/ no_dep = {}
        \/ \E x \in no_dep \cap Services :
              \A y \in no_dep : Len(params[x]) <= Len(params[y])

\* The two sets are finite, so that what is left is a number.
LEMMA LeftIsNat ==
    ASSUME TypeOK
    PROVE  /\ IsFiniteSet(remaining) /\ Cardinality(remaining) \in Nat
           /\ IsFiniteSet(no_dep) /\ Cardinality(no_dep) \in Nat
           /\ Left \in Nat
<1>1. IsFiniteSet(remaining) /\ IsFiniteSet(no_dep)
  BY ConstantsAssumption, FS_Subset DEF TypeOK
<1>2. Cardinality(remaining) \in Nat /\ Cardinality(no_dep) \in Nat
  BY <1>1, FS_CardinalityType
<1>3. QED BY <1>1, <1>2 DEF Left

\* A round takes at least one service out of the remaining ones.
LEMMA RoundLowersLeft ==
    ASSUME Inv, NextRound, phase' = "build"
    PROVE  Left' < Left
<1> DEFINE k == Cardinality(Ready)
<1>1. /\ Ready # {} /\ Ready \subseteq remaining /\ no_dep = {}
      /\ remaining' = remaining \ Ready /\ no_dep' = Ready
  BY DEF NextRound, RaiseError, Ready
<1>2. IsFiniteSet(remaining) /\ Cardinality(remaining) \in Nat BY LeftIsNat DEF Inv
<1>3. /\ Cardinality(remaining \ Ready) = Cardinality(remaining) - Cardinality(remaining \cap Ready)
      /\ remaining \cap Ready = Ready
  BY <1>1, <1>2, FS_Difference
<1>4. IsFiniteSet(Ready) /\ k \in Nat /\ k # 0
  BY <1>1, <1>2, FS_Subset, FS_CardinalityType, FS_EmptySet
<1>5. Left = 2 * Cardinality(remaining) BY <1>1, <1>2, FS_EmptySet DEF Left
<1>6. Left' = 2 * (Cardinality(remaining) - k) + k BY <1>1, <1>3 DEF Left
<1> HIDE DEF k
<1>7. QED BY <1>2, <1>4, <1>5, <1>6

\* So does a construction.
LEMMA InjectLowersLeft ==
    ASSUME Inv, NEW x \in Services, Inject(x)
    PROVE  Left' < Left
<1>1. x \in no_dep /\ no_dep' = no_dep \ {x} /\ UNCHANGED remaining BY DEF Inject
<1>2. IsFiniteSet(no_dep) /\ Cardinality(no_dep) \in Nat /\ Cardinality(remaining) \in Nat
  BY LeftIsNat DEF Inv
<1>3. Cardinality(no_dep \ {x}) = Cardinality(no_dep) - 1 BY <1>1, <1>2, FS_RemoveElement
<1>4. QED BY <1>1, <1>2, <1>3 DEF Left

\* Every step of the container descends: the rounds cannot go on for ever,
\* whatever the graph is, since what is left is a number.
THEOREM RoundsDescend == Spec => [][Descends /\ Left \in Nat]_vars
<1>1. ASSUME Inv, Next PROVE Descends
  <2>1. CASE LoadDependencies BY <2>1 DEF LoadDependencies, RaiseError, Descends
  <2>2. CASE NextRound
    <3>1. phase = "build" /\ phase' # "load" BY <2>2 DEF NextRound, RaiseError
    <3>2. QED BY <2>2, <3>1, RoundLowersLeft, <1>1 DEF Descends
  <2>3. CASE EndBuild BY <2>3 DEF EndBuild, Descends
  <2>4. CASE Register
    <3>1. phase = "ready" /\ phase' \notin {"load", "build"}
      BY <2>4 DEF Register, RaiseError, InjectOrRaise, Create
    <3>2. QED BY <3>1 DEF Descends
  <2>5. ASSUME NEW x \in Services, Inject(x) PROVE Descends
    <3>1. phase = "build" /\ phase' # "load"
      BY <2>5 DEF Inject, RaiseError, InjectOrRaise, Create
    <3>2. QED BY <1>1, <2>5, <3>1, InjectLowersLeft DEF Descends
  <2>6. ASSUME NEW c \in Clients, InjectIn(c) PROVE Descends
    BY <2>6 DEF InjectIn, RaiseError, Descends
  <2>7. QED BY <1>1, <2>1, <2>2, <2>3, <2>4, <2>5, <2>6 DEF Next
<1>2. Inv => Left \in Nat BY LeftIsNat DEF Inv
<1>3. Inv /\ [Next]_vars => [Descends /\ Left \in Nat]_vars BY <1>1, <1>2
<1>4. QED BY <1>3, Invariance, PTL DEF Spec

\* A set of numbers that is not empty has a least one.
LEMMA LeastNat ==
    ASSUME NEW T \in SUBSET Nat, T # {}
    PROVE  \E m \in T : \A n \in T : m <= n
<1> DEFINE R == OpToRel(<, Nat)
<1>1. IsWellFoundedOn(R, Nat) BY NatLessThanWellFounded, Zenon
<1>2. \A x, y \in Nat : x < y => <<x, y>> \in R BY DEF OpToRel
<1> HIDE DEF R
<1>3. PICK m \in T : \A n \in T : ~(<<n, m>> \in R) BY <1>1, WFMin
<1>4. \A n \in T : ~(n < m) BY <1>2, <1>3
<1>5. QED BY <1>4

\* The order of the parameters never leaves a round without a service to
\* construct, and the step of each phase always has its guard: neither can the
\* rounds stop before they are over.
THEOREM RoundsHaveAStep == Spec => []RoundsGoOn
<1>1. ASSUME Inv, phase = "build", no_dep # {}
      PROVE  \E x \in no_dep \cap Services :
                \A y \in no_dep : Len(params[x]) <= Len(params[y])
  <2> DEFINE T == {Len(params[x]) : x \in no_dep}
  <2>1. no_dep \subseteq Services /\ \A x \in no_dep : Len(params[x]) \in Nat
    <3>1. no_dep \subseteq Services BY <1>1 DEF Inv, TypeOK
    <3>2. \A x \in no_dep : params[x] \in Signatures BY <1>1, <3>1 DEF Inv, TypeOK, Names
    <3>3. QED BY <3>1, <3>2, SignatureIsSeq
  <2>2. T \in SUBSET Nat /\ T # {} BY <1>1, <2>1
  <2>3. PICK m \in T : \A n \in T : m <= n
    <3> HIDE DEF T
    <3>1. QED BY <2>2, LeastNat
  <2>4. PICK x \in no_dep : m = Len(params[x]) BY <2>3
  <2>5. \A y \in no_dep : Len(params[x]) <= Len(params[y]) BY <2>3, <2>4
  <2>6. QED BY <2>1, <2>5
<1>2. Inv => RoundsGoOn BY <1>1 DEF RoundsGoOn
<1>3. QED BY <1>2, Invariance, PTL
=============================================================================
