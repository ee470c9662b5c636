------------------------------ MODULE Container ------------------------------
(***************************************************************************)
(* The dependency container: Container.__init__ reads the constructor      *)
(* signatures of the services, orders the services by rounds, constructs   *)
(* and builds one instance of each and binds it; Register adds services    *)
(* afterwards; InjectInMethod gives the instances to the classes that ask  *)
(* for them.  All of it runs in one thread, at import time.                *)
(*                                                                         *)
(* The dependency graph is not fixed: it is chosen in Init, so that every  *)
(* graph over the names is a starting point.  AbstractDependency and       *)
(* BuildOnlyIfDependencies stay empty (the decorators that fill them are   *)
(* shadowed by typing.overload), so the branches for them are left out.    *)
(***************************************************************************)
EXTENDS Naturals, Sequences, FiniteSets

CONSTANTS Services,      \* the classes @ServiceClass collected: __DEPENDENCY
          Registered,    \* the classes given to Register, in that order
          Clients,       \* the classes whose constructor is @InjectInMethod
          Abstract,      \* AbstractServiceClasses
          Signatures,    \* the signatures a constructor may have
          PossibleSets   \* the sets @PossibleDep may declare

Elements(s) == {s[i] : i \in DOMAIN s}
Late == Elements(Registered)
Names == Services \cup Late

ASSUME ConstantsAssumption ==
    /\ IsFiniteSet(Services)
    /\ Registered \in Seq(Late)
    /\ \A i, j \in DOMAIN Registered : Registered[i] = Registered[j] => i = j
    /\ Services \cap Late = {}
    /\ Names \cap Abstract = {}
    /\ \A sig \in Signatures : sig \in Seq(Elements(sig))

VARIABLES
    params,          \* DEP_PARAMS_KEY: the signature of each class
    possible,        \* PossibleDependencies
    phase,           \* load, build, ready; raised or exited at the end
    error,           \* the exception that ended it
    D,               \* self.__D
    meta,            \* the keys of DEPENDENCY_MetaData
    remaining,       \* the copy of __D that __buildContainer consumes
    no_dep,          \* what is left to construct of the current round
    instances,       \* the objects, in the order of their construction
    bound,           \* class -> index of the object bound to it
    registered,      \* how many calls of Register have returned
    paramsToInject   \* what InjectInMethod keeps for each client class

graph == <<params, possible>>
build == <<remaining, no_dep>>
objects == <<instances, bound>>
vars == <<graph, phase, error, D, meta, build, objects, registered, paramsToInject>>

Statuses == {"AVAILABLE", "NOT_AVAILABLE", "WORKS_ALMOST_ATT"}
Errors == {"MultipleParameterSameDependency", "NotInDependencies",
           "NoResolvedDependency", "CircularDependency", "CallError"}

Deps(x) == Elements(params[x]) \cup possible[x]
Bind(d, k, v) == [x \in DOMAIN d \cup {k} |-> IF x = k THEN v ELSE d[x]]
Resolve(sig) == [i \in DOMAIN sig |-> bound[sig[i]]]

Init ==
    /\ params \in [Names \cup Clients -> Signatures]
    /\ possible \in [Names -> PossibleSets]
    /\ phase = "load"
    /\ error = "none"
    /\ D = Services
    /\ meta = {}
    /\ remaining = {}
    /\ no_dep = {}
    /\ instances = <<>>
    /\ bound = [x \in {} |-> 0]
    /\ registered = 0
    /\ paramsToInject = [c \in {} |-> <<>>]

RaiseError(e) == phase' = "raised" /\ error' = e
-----------------------------------------------------------------------------
(* __load_dep: the signatures                                              *)

\* getSignature compares the names of the annotations as it goes.
SameParameterTwice(x) == \E i, j \in DOMAIN params[x] : i # j /\ params[x][i] = params[x][j]

\* Mutant of UnknownParameter: an abstract class is no excuse.
UnknownOrAbstract(x, known) == Elements(params[x]) \ known # {}

\* A parameter that neither is in __D nor names an abstract class.
UnknownParameter(x, known) == (Elements(params[x]) \ known) \ Abstract # {}

LoadError(x, known) ==
    IF SameParameterTwice(x) THEN "MultipleParameterSameDependency"
    ELSE IF UnknownParameter(x, known) THEN "NotInDependencies"
    ELSE "none"

\* The list is read in the order of the imports: any service with an error
\* may be the first one.
LoadDependencies ==
    /\ phase = "load"
    /\ \/ \E x \in Services : /\ LoadError(x, D) # "none"
                              /\ RaiseError(LoadError(x, D))
                              /\ UNCHANGED <<meta, remaining>>
       \/ /\ \A x \in Services : LoadError(x, D) = "none"
          /\ phase' = "build"
          /\ meta' = Services
          /\ remaining' = D
          /\ UNCHANGED error
    /\ UNCHANGED <<graph, D, no_dep, objects, registered, paramsToInject>>

-----------------------------------------------------------------------------
(* __buildContainer: the rounds                                            *)

\* Mutant of Ready: only the parameters count.
ReadyByParameters == {x \in remaining : Elements(params[x]) \cap remaining = {}}

Ready == {x \in remaining : Deps(x) \cap remaining = {}}

\* Mutant of NextRound: services that cannot become ready are dropped.
NextRoundDropsCycle ==
    /\ phase = "build" /\ no_dep = {} /\ remaining # {}
    /\ remaining' = IF Ready = {} THEN {} ELSE remaining \ Ready
    /\ no_dep' = Ready
    /\ UNCHANGED <<phase, error, graph, D, meta, objects, registered, paramsToInject>>

\* Mutant of NextRound: it looks again instead of raising.
NextRoundSpins ==
    /\ phase = "build" /\ no_dep = {} /\ remaining # {}
    /\ remaining' = remaining \ Ready
    /\ no_dep' = Ready
    /\ UNCHANGED <<phase, error, graph, D, meta, objects, registered, paramsToInject>>

NextRound ==
    /\ phase = "build" /\ no_dep = {} /\ remaining # {}
    /\ IF Ready = {}
       THEN RaiseError("CircularDependency") /\ UNCHANGED build
       ELSE /\ remaining' = remaining \ Ready
            /\ no_dep' = Ready
            /\ UNCHANGED <<phase, error>>
    /\ UNCHANGED <<graph, D, meta, objects, registered, paramsToInject>>

EndBuild ==
    /\ phase = "build" /\ no_dep = {} /\ remaining = {}
    /\ phase' = "ready"
    /\ UNCHANGED <<error, graph, D, meta, build, objects, registered, paramsToInject>>

\* toParams: KeyError for a name without metadata; for a class that has
\* metadata and no binding the injector tries to construct one and fails.
ResolveError(sig, known) ==
    IF Elements(sig) \ known # {} THEN "NoResolvedDependency"
    ELSE IF Elements(sig) \ DOMAIN bound # {} THEN "CallError"
    ELSE "none"

\* Mutant of StatusAfter: a failed build leaves the status as it was.
StatusOrNone(outcome) == IF outcome = "ok" THEN "AVAILABLE" ELSE "None"

\* _builder: how build() ended, and the status it leaves.  Any exception it
\* does not know ends the process, as BuildAbortError does.
BuildOutcomes == {"ok", "failure", "warning", "abort"}
StatusAfter(outcome) ==
    CASE outcome = "ok" -> "AVAILABLE"
      [] outcome = "failure" -> "NOT_AVAILABLE"       \* or not implemented
      [] outcome = "warning" -> "WORKS_ALMOST_ATT"    \* or BuildSkipError

\* __createDep and __bind.
Create(x, outcome) ==
    IF outcome = "abort"
    THEN phase' = "exited" /\ UNCHANGED <<error, objects>>
    ELSE /\ instances' = Append(instances, [class |-> x, holds |-> Resolve(params[x]),
                                            status |-> StatusAfter(outcome)])
         /\ bound' = Bind(bound, x, Len(instances) + 1)
         /\ UNCHANGED <<phase, error>>

\* __inject
InjectOrRaise(x, known) ==
    \/ /\ ResolveError(params[x], known) # "none"
       /\ RaiseError(ResolveError(params[x], known))
       /\ UNCHANGED objects
    \/ /\ ResolveError(params[x], known) = "none"
       /\ \E outcome \in BuildOutcomes : Create(x, outcome)

\* A round is constructed in the order of __order_dependency: fewer
\* parameters first, ties in the order a set of strings happens to have.
Inject(x) ==
    /\ phase = "build" /\ x \in no_dep
    /\ \A y \in no_dep : Len(params[x]) <= Len(params[y])
    /\ no_dep' = no_dep \ {x}
    /\ InjectOrRaise(x, meta)
    /\ UNCHANGED <<graph, D, meta, remaining, registered, paramsToInject>>

-----------------------------------------------------------------------------
(* Register and InjectInMethod                                             *)

\* register_new_dep: the name is in __D before its signature is read.
Register ==
    /\ phase = "ready" /\ registered < Len(Registered)
    /\ LET x == Registered[registered + 1] IN
       /\ D' = D \cup {x}
       /\ \/ /\ LoadError(x, D') # "none"
             /\ RaiseError(LoadError(x, D'))
             /\ UNCHANGED <<meta, objects>>
          \/ /\ LoadError(x, D') = "none"
             /\ meta' = meta \cup {x}
             /\ InjectOrRaise(x, meta')
    /\ registered' = registered + 1
    /\ UNCHANGED <<graph, build, paramsToInject>>

\* InjectInMethod and InjectInFunction resolve every parameter, when the class
\* is defined; the ressources are imported after the calls of Register.
InjectIn(c) ==
    /\ phase = "ready" /\ registered = Len(Registered)
    /\ c \notin DOMAIN paramsToInject
    /\ \/ /\ SameParameterTwice(c)
          /\ RaiseError("MultipleParameterSameDependency")
          /\ UNCHANGED paramsToInject
       \/ /\ ~SameParameterTwice(c)
          /\ ResolveError(params[c], meta) # "none"
          /\ RaiseError(ResolveError(params[c], meta))
          /\ UNCHANGED paramsToInject
       \/ /\ ~SameParameterTwice(c)
          /\ ResolveError(params[c], meta) = "none"
          /\ paramsToInject' = Bind(paramsToInject, c, Resolve(params[c]))
          /\ UNCHANGED <<phase, error>>
    /\ UNCHANGED <<graph, D, meta, build, objects, registered>>

-----------------------------------------------------------------------------
Next == \/ LoadDependencies \/ NextRound \/ EndBuild \/ Register
        \/ \E x \in Services : Inject(x)
        \/ \E c \in Clients : InjectIn(c)

Spec == Init /\ [][Next]_vars

\* The import of the modules goes on by itself.
FairSpec == Spec /\ WF_vars(Next)
-----------------------------------------------------------------------------
(* Properties                                                              *)

TypeOK ==
    /\ params \in [Names \cup Clients -> Signatures]
    /\ possible \in [Names -> PossibleSets]
    /\ phase \in {"load", "build", "ready", "raised", "exited"}
    /\ error \in Errors \cup {"none"}
    /\ Services \subseteq D /\ D \subseteq Names
    /\ meta \subseteq D
    /\ remaining \subseteq Services
    /\ no_dep \subseteq Services
    /\ instances \in Seq([class : Names, holds : Seq(Nat), status : Statuses])
    /\ DOMAIN bound \subseteq meta
    /\ \A x \in DOMAIN bound : bound[x] \in 1 .. Len(instances)
    /\ registered \in 0 .. Len(Registered)
    /\ DOMAIN paramsToInject \subseteq Clients

\* A set of services in which each one needs another one of the set: a cycle
\* of dependencies, possible ones included, with what depends on it.
Stuck(S) == S # {} /\ \A x \in S : Deps(x) \cap S # {}
Cyclic == \E S \in SUBSET Services : Stuck(S)

\* CircularDependencyError is raised for the graphs that have a cycle, and no
\* graph with a cycle ever gets a container.
CircularIffCyclic ==
    /\ error = "CircularDependency" => Cyclic
    /\ phase = "ready" => ~Cyclic

\* A service on a cycle, or one that depends on it, is never constructed,
\* however many rounds come before the error.
NothingStuckIsConstructed ==
    \A S \in SUBSET Services : Stuck(S) => S \cap DOMAIN bound = {}

\* Every object a service needs, by its constructor or by @PossibleDep, was
\* constructed, built and bound before the service itself.
DependenciesFirst ==
    \A x \in DOMAIN bound :
        \A y \in Elements(params[x]) \cup (possible[x] \cap Services) :
            y \in DOMAIN bound /\ bound[y] < bound[x]

\* There is one object of each class, and everyone who asked for the class,
\* service or client, holds that object.
OneSharedInstance ==
    /\ \A i, j \in DOMAIN instances : instances[i].class = instances[j].class => i = j
    /\ \A i \in DOMAIN instances :
          /\ bound[instances[i].class] = i
          /\ instances[i].holds = Resolve(params[instances[i].class])
    /\ \A c \in DOMAIN paramsToInject : paramsToInject[c] = Resolve(params[c])

\* When the container is ready the rounds have skipped nobody: every service
\* is bound, one object each, whatever statuses the builds have left.
ReadyIsComplete ==
    phase = "ready" => /\ Services \subseteq DOMAIN bound
                       /\ Len(instances) = Cardinality(Services) + registered

\* An error names something the graph really has: a parameter nobody knows,
\* an abstract class nobody resolves, a class that asks for itself.
ErrorsAreJustified ==
    /\ error = "NotInDependencies" =>
          \E x \in Names : Elements(params[x]) \ (Services \cup Abstract) # {}
    /\ error = "NoResolvedDependency" =>
          \/ \E x \in Names : Elements(params[x]) \cap Abstract # {}
          \/ \E c \in Clients : Elements(params[c]) \ Names # {}
    /\ error = "CallError" => \E x \in Late : x \in Elements(params[x])

\* Building ends, with a container or with an error: the rounds do not spin.
BuildEnds == <>(phase \notin {"load", "build"})

\* The container implements the order of construction.
Order == INSTANCE DependencyOrder WITH
             needs <- [x \in Names |-> Elements(params[x]) \cup (possible[x] \cap Services)],
             constructed <- DOMAIN bound
ImplementsOrder == Order!OrderSpec
=============================================================================
