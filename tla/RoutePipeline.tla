----------------------------- MODULE RoutePipeline -----------------------------
(***************************************************************************)
(* How a route is put together from its decorators and what a request      *)
(* meets on its way through it.                                            *)
(*                                                                         *)
(* While app.ressources is imported, the decorators of each method and     *)
(* then those of its class register themselves under the names of class    *)
(* and method (Import).  Application.add_ressources constructs the         *)
(* configured classes one by one and goes on when one of them raises       *)
(* (AddRessource).  The constructor attaches the limiter and stacks the    *)
(* registered callbacks by priority; callbacks of one priority are stacked *)
(* in the order of their registration, so that the later one encloses the  *)
(* earlier one.  A request passes the middlewares, the router, the         *)
(* dependencies and the layers of its route, from the outside to the       *)
(* inside; an exception leaves through the layers that enclose the one     *)
(* that raised it.                                                         *)
(***************************************************************************)
EXTENDS Naturals, Sequences

CONSTANTS Requests,     \* the requests that arrive
          Ressources,   \* class name -> its declaration, see RouteTable
          Order,        \* the class names in the order of their import
          Configured,   \* appParameter.ressources, in order
          Middlewares,  \* the names of the configured middlewares
          Clients,      \* what a client may present, and its address
          RoutesOf,     \* the calls each request may be
          Allowance,    \* requests per window of a counter of the limiter
          MaxWindows,   \* bound: windows of a counter
          NoCall, NoClient

\* The decorators of the methods are applied when the body of the class is
\* executed, those of the class afterwards and to every one of its routes.
DecoratorsOf(c, f) == Ressources[c].routes[f].decorators \o Ressources[c].decorators

Calls == UNION {{<<c, f>> : f \in DOMAIN Ressources[c].routes} : c \in DOMAIN Ressources}
LimitedCalls ==
    {k \in Calls : \E i \in DOMAIN DecoratorsOf(k[1], k[2]) :
                      DecoratorsOf(k[1], k[2])[i].kind = "limit"}

\* The limiter counts by the remote address: each limited route has a counter
\* for each address.
Counters == LimitedCalls \X {c.address : c \in Clients}

Kinds == {"permission", "handler", "pipe", "guard", "limit", "ping", "roles"}

ASSUME ConstantsAssumption ==
    /\ \A c \in DOMAIN Ressources :
         /\ Ressources[c].decorators \in Seq([kind : Kinds, do : Seq(STRING)])
         /\ \A f \in DOMAIN Ressources[c].routes :
              Ressources[c].routes[f].decorators \in Seq([kind : Kinds, do : Seq(STRING)])
    /\ Order \in Seq(DOMAIN Ressources) /\ Configured \in Seq(DOMAIN Ressources)
    /\ \A i \in DOMAIN Configured : \E j \in DOMAIN Order : Order[j] = Configured[i]
    /\ RoutesOf \in [Requests -> SUBSET Calls]
    /\ Allowance \in Nat \ {0} /\ MaxWindows \in Nat \ {0}
    /\ NoCall \notin Calls /\ NoClient \notin Clients

VARIABLES
    imports,   \* how many classes are imported
    applied,   \* class -> method -> its decorators in the order of application
    roles,     \* class -> method -> the roles in its meta
    adds,      \* how many of the configured classes were tried
    mounted,   \* the classes whose routes are served
    pc, call, client, passed, error, status,  \* of each request
    granted,   \* history: the permissions that let a request through
    touched,   \* history: the kinds of layers a request has reached
    spent,     \* counter -> the hits in its window
    windows, served  \* history: counter -> windows begun, bodies run

build == <<imports, applied, roles, adds, mounted>>
limits == <<spent, windows>>
trace == <<granted, touched>>
vars == <<build, pc, call, client, passed, error, status, trace, limits, served>>

Elements(s) == {s[i] : i \in DOMAIN s}

-----------------------------------------------------------------------------
(* Declaration and construction                                            *)

\* Mutant of Priority: guards and handlers change places.
PriorityInside(d) ==
    [permission |-> 1, pipe |-> 2, guard |-> 3, handler |-> 4, limit |-> 6, ping |-> 7][d.kind]
\* Mutant of Priority: permissions are stacked last.
PriorityReversed(d) ==
    [permission |-> 8, handler |-> 2, pipe |-> 3, guard |-> 4, limit |-> 6, ping |-> 7][d.kind]

\* DecoratorPriority; the limiter is attached before the callbacks are
\* stacked and PingService wraps the function itself, so both are inside.
Priority(d) ==
    [permission |-> 1, handler |-> 2, pipe |-> 3, guard |-> 4, limit |-> 6, ping |-> 7][d.kind]

\* Mutant of Layers: the meta with the limit is lost when the class wraps it.
LayersUnlimited(ds) == {i \in DOMAIN ds : ds[i].kind \notin {"roles", "limit"}}

\* The decorators that leave a layer around the function (UseRoles only writes
\* into its meta).
Layers(ds) == {i \in DOMAIN ds : ds[i].kind # "roles"}

\* Which of two layers encloses the other: the callbacks are sorted by
\* falling priority, which keeps the order of registration among equals.
Encloses(ds, i, j) ==
    \/ Priority(ds[i]) < Priority(ds[j])
    \/ Priority(ds[i]) = Priority(ds[j]) /\ i > j

\* Mutant of RolesIn: the class level replaces what the method asked for.
RolesOfLast(ds) ==
    UNION {Elements(ds[i].do) : i \in {j \in DOMAIN ds :
              /\ ds[j].kind = "roles"
              /\ \A k \in DOMAIN ds : ds[k].kind = "roles" => k <= j}}

\* UseRoles adds to the roles of the method, and CUSTOM is not a role a route
\* can ask for.
RolesIn(ds) ==
    (UNION {Elements(ds[i].do) : i \in {j \in DOMAIN ds : ds[j].kind = "roles"}}) \ {"CUSTOM"}

Import ==
    /\ imports < Len(Order)
    /\ LET c == Order[imports + 1] IN
         /\ applied' = [applied EXCEPT ![c] =
                          [f \in DOMAIN Ressources[c].routes |-> DecoratorsOf(c, f)]]
         /\ roles' = [roles EXCEPT ![c] =
                        [f \in DOMAIN Ressources[c].routes |-> RolesIn(DecoratorsOf(c, f))]]
    /\ imports' = imports + 1
    /\ UNCHANGED <<adds, mounted, pc, call, client, passed, error, status, trace, limits, served>>

\* _set_rate_limit asks for the routes of the class, and the limiter for a
\* parameter called request.
Constructible(c) ==
    /\ DOMAIN applied[c] # {}
    /\ \A f \in DOMAIN applied[c] :
         (\E i \in DOMAIN applied[c][f] : applied[c][f][i].kind = "limit")
            => "request" \in Ressources[c].routes[f].takes

\* Mutant of AddRessource: the first failure ends the loop.
AddUntilFailure ==
    /\ imports = Len(Order) /\ adds < Len(Configured)
    /\ LET c == Configured[adds + 1] IN
         IF Constructible(c)
         THEN mounted' = mounted \cup {c} /\ adds' = adds + 1
         ELSE adds' = Len(Configured) /\ UNCHANGED mounted
    /\ UNCHANGED <<imports, applied, roles, pc, call, client, passed, error, status, trace,
                   limits, served>>

AddRessource ==
    /\ imports = Len(Order) /\ adds < Len(Configured)
    /\ LET c == Configured[adds + 1] IN
         mounted' = IF Constructible(c) THEN mounted \cup {c} ELSE mounted
    /\ adds' = adds + 1
    /\ UNCHANGED <<imports, applied, roles, pc, call, client, passed, error, status, trace,
                   limits, served>>

-----------------------------------------------------------------------------
(* Exceptions and their answers                                            *)

HttpStatus ==
    [Unauthorized |-> 401, Forbidden |-> 403, NotFound |-> 404, Unprocessable |-> 422,
     NoKeywords |-> 501, NoRequestId |-> 500]

Translation ==
    [ServiceAvailabilityHandler |->
        [ServiceNotAvailableError |-> 503, MethodServiceNotAvailableError |-> 503,
         ServiceTemporaryNotAvailableError |-> 503],
     TemplateHandler |->
        [TemplateNotFoundError |-> 404, TemplateBuildError |-> 400,
         TemplateValidationError |-> 400],
     WebSocketHandler |-> [WSPathNotFoundError |-> 404],
     CeleryTaskHandler |->
        [CeleryTaskNotFoundError |-> 404, CeleryTaskNameNotExistsError |-> 404,
         CelerySchedulerOptionError |-> 400, QueueNotFound |-> 404, AlreadyRegistered |-> 409,
         NotRegistered |-> 400]]

\* There are no other handlers.
ASSUME HandlersAssumption ==
    \A k \in Calls : \A i \in DOMAIN DecoratorsOf(k[1], k[2]) :
       DecoratorsOf(k[1], k[2])[i].kind = "handler" =>
          \A j \in DOMAIN DecoratorsOf(k[1], k[2])[i].do :
             DecoratorsOf(k[1], k[2])[i].do[j] \in DOMAIN Translation

\* What ExceptionMiddleware answers; what it does not know becomes a 500 of
\* the outermost middleware.
AppHandlers ==
    [RateLimitExceeded |-> 429, TypeError |-> 500, AttributeError |-> 500, OSError |-> 500,
     KeyError |-> 400, NotImplementedError |-> 504]
AppStatus(e) ==
    IF e \in DOMAIN HttpStatus THEN HttpStatus[e]
    ELSE IF e \in DOMAIN AppHandlers THEN AppHandlers[e] ELSE 500

\* The handlers among the layers S translate an exception; the sets of
\* exceptions of the handlers are disjoint, so at most one of them knows it.
Knowing(ds, S, e) ==
    {h \in UNION {Elements(ds[j].do) : j \in {k \in S : ds[k].kind = "handler"}} :
       e \in DOMAIN Translation[h]}
Answer(ds, S, e) ==
    IF Knowing(ds, S, e) = {} THEN AppStatus(e)
    ELSE Translation[CHOOSE h \in Knowing(ds, S, e) : TRUE][e]

Applied(r) == applied[call[r][1]][call[r][2]]
Declared(r) == Ressources[call[r][1]].routes[call[r][2]]
Counter(r) == <<call[r], client[r].address>>

Finish(r, e, s) ==
    /\ error' = [error EXCEPT ![r] = e]
    /\ status' = [status EXCEPT ![r] = s]
    /\ pc' = [pc EXCEPT ![r] = "answered"]

-----------------------------------------------------------------------------
(* The way of a request                                                    *)

Init ==
    /\ imports = 0 /\ adds = 0 /\ mounted = {}
    /\ applied = [c \in DOMAIN Ressources |-> [f \in {} |-> <<>>]]
    /\ roles = [c \in DOMAIN Ressources |-> [f \in {} |-> {}]]
    /\ pc = [r \in Requests |-> "idle"]
    /\ call = [r \in Requests |-> NoCall]
    /\ client = [r \in Requests |-> NoClient]
    /\ passed = [r \in Requests |-> {}]
    /\ error = [r \in Requests |-> "none"]
    /\ status = [r \in Requests |-> 0]
    /\ granted = [r \in Requests |-> {}]
    /\ touched = [r \in Requests |-> {}]
    /\ spent = [n \in Counters |-> 0]
    /\ windows = [n \in Counters |-> 1]
    /\ served = [n \in Counters |-> 0]

Arrive(r) ==
    /\ adds = Len(Configured)
    /\ pc[r] = "idle"
    /\ \E k \in RoutesOf[r], c \in Clients :
         call' = [call EXCEPT ![r] = k] /\ client' = [client EXCEPT ![r] = c]
    /\ pc' = [pc EXCEPT ![r] = "security"]
    /\ UNCHANGED <<build, passed, error, status, trace, limits, served>>

\* SecurityMiddleWare answers itself: access has expired, or the key is
\* missing, not readable, of another address, too old or not the server's.
Security(r) ==
    /\ pc[r] = "security"
    /\ IF "SecurityMiddleWare" \in Middlewares /\ ~client[r].key
       THEN Finish(r, "Unauthorized", 401)
       ELSE pc' = [pc EXCEPT ![r] = "auth"] /\ UNCHANGED <<error, status>>
    /\ UNCHANGED <<build, call, client, passed, trace, limits, served>>

\* JWTAuthMiddleware answers a missing header; the HTTPException for a token
\* it refuses passes no handler of the application.
Authenticate(r) ==
    /\ pc[r] = "auth"
    /\ IF "JWTAuthMiddleware" \notin Middlewares \/ client[r].token = "valid"
       THEN pc' = [pc EXCEPT ![r] = "router"] /\ UNCHANGED <<error, status>>
       ELSE IF client[r].token = "none"
       THEN Finish(r, "KeyError", 400)
       ELSE Finish(r, "Forbidden", 500)
    /\ UNCHANGED <<build, call, client, passed, trace, limits, served>>

\* The dependencies of the router, those of the route and the validation.
Dependencies(r) ==
    (IF "admin_token" \in Ressources[call[r][1]].depends /\ ~client[r].admin
     THEN {"Forbidden"} ELSE {}) \cup
    (IF "request_id" \in Ressources[call[r][1]].depends
        /\ "BackgroundTaskMiddleware" \notin Middlewares
     THEN {"AttributeError"} ELSE {}) \cup
    (IF "twilio_token" \in Ressources[call[r][1]].depends
        \/ Declared(r).takes \cap {"scheduler", "model", "authModel", "tokens"} # {}
     THEN {"Unprocessable"} ELSE {}) \cup
    (IF "authPermission" \in Declared(r).takes /\ "JWTAuthMiddleware" \notin Middlewares
     THEN {"Unauthorized"} ELSE {}) \cup
    (IF "x_request_id" \in Declared(r).takes /\ "BackgroundTaskMiddleware" \notin Middlewares
     THEN {"NoRequestId"} ELSE {})
Required(e) == e # "Unprocessable"   \* the other failures are certain

Reach(r) ==
    /\ pc[r] = "router"
    /\ \/ /\ call[r][1] \notin mounted
          /\ Finish(r, "NotFound", 404)
       \/ /\ call[r][1] \in mounted
          /\ \E e \in Dependencies(r) : Finish(r, e, AppStatus(e))
       \/ /\ call[r][1] \in mounted
          /\ ~ \E e \in Dependencies(r) : Required(e)
          /\ pc' = [pc EXCEPT ![r] = "layers"]
          /\ UNCHANGED <<error, status>>
    /\ UNCHANGED <<build, call, client, passed, trace, limits, served>>

\* JWTRouteHTTPPermission: a role of the route, or CUSTOM with the class, all
\* of it or this route.
Allows(rs, c, f, cl) ==
    \/ rs \cap cl.roles # {}
    \/ /\ "CUSTOM" \in cl.roles
       /\ c \in DOMAIN cl.allowed
       /\ cl.allowed[c].all \/ f \in cl.allowed[c].custom

\* How the objects of a layer may end, "pass" or an exception.
Outcomes ==
    [JWTAssetPermission |-> {"pass", "Forbidden", "KeyError"},
     CeleryTaskPipe |-> {"pass", "CelerySchedulerOptionError", "KeyError", "AttributeError"},
     TemplateParamsPipe |-> {"pass", "TemplateNotFoundError"},
     AuthPermissionPipe |-> {"Forbidden"},   \* it decodes the word "tokens"
     CeleryTaskGuard |-> {"pass", "Unauthorized"},
     OnlyOnce |-> {"Unauthorized"},          \* it looks for the name among the types
     CeleryService |-> {"pass"}]             \* the coroutine is never awaited
Pinged == {"pass", "ServiceNotAvailableError", "ServiceTemporaryNotAvailableError"}

OutcomesOf(r, x) ==
    IF x = "JWTRouteHTTPPermission"
    THEN IF "authPermission" \notin Declared(r).takes THEN {"TypeError"}
         ELSE IF Allows(roles[call[r][1]][call[r][2]], call[r][1], call[r][2], client[r])
         THEN {"pass"} ELSE {"Forbidden"}
    ELSE IF x \in DOMAIN Outcomes THEN Outcomes[x] ELSE Pinged

Results(r, d) ==
    IF d.kind = "handler" THEN {"pass"}
    ELSE IF d.kind = "permission" /\ Declared(r).takes = {} THEN {"NoKeywords"}
    ELSE {o \in UNION {OutcomesOf(r, x) : x \in Elements(d.do)} :
            o = "pass" => \A x \in Elements(d.do) : "pass" \in OutcomesOf(r, x)}

\* The outermost layer the request has not passed yet.
NextLayer(r, i) ==
    /\ i \in Layers(Applied(r)) \ passed[r]
    /\ \A j \in Layers(Applied(r)) : Encloses(Applied(r), j, i) => j \in passed[r]

Layer(r, i) ==
    /\ NextLayer(r, i)
    /\ Applied(r)[i].kind # "limit"
    /\ LET d == Applied(r)[i] IN
       /\ touched' = [touched EXCEPT ![r] = @ \cup {d.kind}]
       /\ \E o \in Results(r, d) :
            IF o = "pass"
            THEN /\ passed' = [passed EXCEPT ![r] = @ \cup {i}]
                 /\ granted' = IF d.kind = "permission"
                               THEN [granted EXCEPT ![r] = @ \cup Elements(d.do)] ELSE granted
                 /\ UNCHANGED <<pc, error, status>>
            ELSE /\ Finish(r, o, Answer(Applied(r),
                        {j \in Layers(Applied(r)) : Encloses(Applied(r), j, i)}, o))
                 /\ UNCHANGED <<passed, granted>>
    /\ UNCHANGED <<build, call, client, limits, served>>

\* Mutant of Limit: the hit is counted and never refused.
LimitUnasked(r, i) ==
    /\ NextLayer(r, i)
    /\ Applied(r)[i].kind = "limit"
    /\ touched' = [touched EXCEPT ![r] = @ \cup {"limit"}]
    /\ spent' = [spent EXCEPT ![Counter(r)] = @ + 1]
    /\ passed' = [passed EXCEPT ![r] = @ \cup {i}]
    /\ UNCHANGED <<build, pc, call, client, error, status, granted, windows, served>>

\* GlobalLimiter: a hit over the allowance of the counter raises.  slowapi
\* counts by path and address; the only limited route with a parameter in its
\* path is blacklist_tokens, whose guard refuses everybody in front of it.
Limit(r, i) ==
    /\ NextLayer(r, i)
    /\ Applied(r)[i].kind = "limit"
    /\ touched' = [touched EXCEPT ![r] = @ \cup {"limit"}]
    /\ IF spent[Counter(r)] < Allowance
       THEN /\ spent' = [spent EXCEPT ![Counter(r)] = @ + 1]
            /\ passed' = [passed EXCEPT ![r] = @ \cup {i}]
            /\ UNCHANGED <<pc, error, status>>
       ELSE Finish(r, "RateLimitExceeded", AppStatus("RateLimitExceeded"))
            /\ UNCHANGED <<spent, passed>>
    /\ UNCHANGED <<build, call, client, granted, windows, served>>

\* The endpoint itself, in a thread of the pool.
Endpoint(r) ==
    /\ pc[r] = "layers"
    /\ Layers(Applied(r)) \subseteq passed[r]
    /\ touched' = [touched EXCEPT ![r] = @ \cup {"endpoint"}]
    /\ served' = IF call[r] \in LimitedCalls
                 THEN [served EXCEPT ![Counter(r)] = @ + 1] ELSE served
    /\ \E o \in Declared(r).ends :
         IF o = "ok" THEN Finish(r, "none", 200)
         ELSE Finish(r, o, Answer(Applied(r), Layers(Applied(r)), o))
    /\ UNCHANGED <<build, call, client, passed, granted, limits>>

\* A new window begins for one address on one limited route: it starts with
\* the first hit and ends by itself.
NewWindow(n) ==
    /\ spent[n] > 0
    /\ windows[n] < MaxWindows
    /\ spent' = [spent EXCEPT ![n] = 0]
    /\ windows' = [windows EXCEPT ![n] = @ + 1]
    /\ UNCHANGED <<build, pc, call, client, passed, error, status, trace, served>>

Layered(r) ==
    /\ pc[r] = "layers"
    /\ \E i \in Layers(Applied(r)) : Layer(r, i) \/ Limit(r, i)

Next ==
    \/ Import \/ AddRessource
    \/ \E r \in Requests :
         \/ Arrive(r) \/ Security(r) \/ Authenticate(r) \/ Reach(r) \/ Layered(r)
         \/ Endpoint(r)
    \/ \E n \in Counters : NewWindow(n)

Spec == Init /\ [][Next]_vars

-----------------------------------------------------------------------------
(* Properties                                                              *)

\* The type of every variable.
TypeOK ==
    /\ imports \in 0 .. Len(Order)
    /\ adds \in 0 .. Len(Configured)
    /\ mounted \subseteq DOMAIN Ressources
    /\ DOMAIN applied = DOMAIN Ressources /\ DOMAIN roles = DOMAIN Ressources
    /\ \A c \in DOMAIN Ressources :
         \/ applied[c] = [f \in {} |-> <<>>] /\ roles[c] = [f \in {} |-> {}]
         \/ /\ applied[c] = [f \in DOMAIN Ressources[c].routes |-> DecoratorsOf(c, f)]
            /\ roles[c] = [f \in DOMAIN Ressources[c].routes |-> RolesIn(DecoratorsOf(c, f))]
    /\ pc \in [Requests -> {"idle", "security", "auth", "router", "layers", "answered"}]
    /\ call \in [Requests -> Calls \cup {NoCall}]
    /\ client \in [Requests -> Clients \cup {NoClient}]
    /\ passed \in [Requests -> SUBSET Nat]
    /\ DOMAIN error = Requests
    /\ status \in [Requests -> Nat]
    /\ granted \in [Requests -> SUBSET STRING]
    /\ touched \in [Requests -> SUBSET ((Kinds \ {"roles"}) \cup {"endpoint"})]
    /\ spent \in [Counters -> 0 .. Allowance]
    /\ windows \in [Counters -> 1 .. MaxWindows]
    /\ served \in [Counters -> Nat]

\* What the declaration asks for, whatever the pipeline makes of it.
Declares(c, f) ==
    Elements(Ressources[c].decorators) \cup Elements(Ressources[c].routes[f].decorators)
DeclaredWith(c, f, kind) ==
    UNION {Elements(d.do) : d \in {x \in Declares(c, f) : x.kind = kind}}

\* Where the route permission is asked for it stands alone in its decorator, and
\* no other permission of the route is written above that decorator.
ASSUME RoutePermissionAssumption ==
    \A k \in Calls :
       "JWTRouteHTTPPermission" \in DeclaredWith(k[1], k[2], "permission") =>
          \E i \in DOMAIN DecoratorsOf(k[1], k[2]) :
             /\ DecoratorsOf(k[1], k[2])[i] =
                  [kind |-> "permission", do |-> <<"JWTRouteHTTPPermission">>]
             /\ \A j \in DOMAIN DecoratorsOf(k[1], k[2]) :
                  DecoratorsOf(k[1], k[2])[j].kind = "permission" => j <= i

\* No pipe, guard, limiter, service or endpoint is reached by a request that
\* one of the permissions declared for its method or its class has not let
\* through: the order of the decorators in the source and the level they are
\* written at do not matter.
NothingBeforePermission ==
    \A r \in Requests :
       touched[r] \cap {"pipe", "guard", "limit", "ping", "endpoint"} # {}
          => DeclaredWith(call[r][1], call[r][2], "permission") \subseteq granted[r]

\* The route permission decides as the declaration says, and before any other
\* layer: a client passes it exactly if it has a role named at the method or
\* at the class, or a custom permission for this class and route.
AccessIsAsDeclared ==
    \A r \in Requests :
       /\ touched[r] # {}
       /\ "JWTRouteHTTPPermission" \in DeclaredWith(call[r][1], call[r][2], "permission")
       /\ "authPermission" \in Declared(r).takes
       => LET c == call[r][1]
              f == call[r][2]
              cl == client[r]
          IN  "JWTRouteHTTPPermission" \in granted[r] <=>
                \/ cl.roles \cap (DeclaredWith(c, f, "roles") \ {"CUSTOM"}) # {}
                \/ /\ "CUSTOM" \in cl.roles /\ c \in DOMAIN cl.allowed
                   /\ cl.allowed[c].all \/ f \in cl.allowed[c].custom

\* An exception for which the method or the class declares a handler reaches
\* the client as that handler translates it, wherever behind the permissions
\* it was raised.
HandledErrorsAreTranslated ==
    \A r \in Requests :
       /\ pc[r] = "answered"
       /\ touched[r] \ {"permission", "handler"} # {}
       => \A h \in DeclaredWith(call[r][1], call[r][2], "handler") :
             error[r] \in DOMAIN Translation[h] => status[r] = Translation[h][error[r]]

\* A limited route runs for the requests of one address no more often than
\* the limiter allowed that address in its windows so far, even if requests
\* that passed it in one window run in the next, and whatever other addresses
\* ask of the same route.
LimitHolds ==
    \A n \in Counters : served[n] <= Allowance * windows[n]

\* A class whose constructor raises costs its own routes and no others.
FailureIsContained ==
    adds = Len(Configured) =>
      mounted = {c \in Elements(Configured) :
                   /\ DOMAIN Ressources[c].routes # {}
                   /\ \A f \in DOMAIN Ressources[c].routes :
                        (\E d \in Declares(c, f) : d.kind = "limit")
                           => "request" \in Ressources[c].routes[f].takes}
=============================================================================
