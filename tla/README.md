# Communication-Service in TLA+

Communication-Service is a relay between front-end applications and providers
of e-mail, SMS, voice and other channels. It is written in Python (FastAPI,
Celery with Redis, injector) and promises, in its own words, to be robust and
reliable and to hand heavy work to background tasks or to Celery workers. This
directory holds TLA+ models of its core, the TLC runs that check them and
proofs that TLAPS checks. Paths below are relative to `src/app`.

    tlc -config MCBackgroundTasks_all.cfg MCBackgroundTasks.tla
    tlapm BackgroundTasksProofs.tla

## 1. The system and what is hard about it

| part | state | operations | how it meets the others |
| --- | --- | --- | --- |
| background tasks (`services/celery_service.py`, `server/middleware.py`) | `sharing_task`, `running_tasks_count`, one coroutine per request | register, add, call, delete | the middleware registers and starts, the route adds, an exception handler decides which of two branches the middleware takes |
| container (`container.py`, `definition/_service.py`) | dependency metadata, the set of names, the bindings | load, build in rounds, register, inject into classes | constructs every other service and calls its `build`; all modules of `ressources` ask it at import time |
| e-mail sender (`services/email_service.py`) | `service_status`, `_builded` | ping, connect, authenticate, send, logout | requests ask it first (`PingService`), background tasks run it in threads |
| mail OAuth (`classes/mail_oauth_access.py`) | the tokens, in memory, in a file object and in a file | load, refresh, grant, save | asked by `build` and by `authenticate` |
| Celery service (`services/celery_service.py`, `interface/timers.py`) | `service_status`, `available_workers_count`, `timeout_count` | check of the workers on a timer, trigger, cancel, schedules | the routes read its status to choose between Celery and background tasks |
| Celery tasks and schedules (`task.py`, `classes/celery.py`) | the queue, the revoked ids and the RedBeat entries, all outside the process | publish, revoke, save, delete, take, run | routes publish and revoke, the beat publishes, workers take |
| authentication (`services/security_service.py`, `ressources/admin_ressource.py`, `utils/fileIO.py`) | generation id, expiration, the configuration file | issue, verify, invalidate all | two middlewares ask it for every request |
| request pipeline (`definition/_ressource.py`, `decorators/`) | the stack of decorators of each route | permission, guard, pipe, handler, role, limit | encloses every route |
| WebSockets (`definition/_ws.py`, `websockets/`) | the active connections | accept, receive, broadcast, close | a token from a route opens a connection |
| templates and assets (`services/assets_service.py`, `classes/template.py`) | the templates of each kind, one validator per template | read in threads, join, validate, inject | the mail routes look their template up and have their data validated by it |
| run modes (`main.py`, `server/`) | the list of applications | create, edit, start | builds the container, then starts the servers |

What is hard to test in it: coroutines and pool threads share dictionaries,
counters and statuses and yield in the middle of an operation; an exception
ends a coroutine before its last section; everything accepted is in memory
when the process dies; statuses are written in except clauses by whichever
thread fails last; the order of construction depends on a graph that every new
service changes. The list, line by line and with the properties that cover
each entry, is under `hazards` in `PROJECT.json`.

Properties that make each part correct:

- background tasks: an accepted task is called at most once, is never dropped
  while the process lives, and is settled in the end; the registry and the
  count do not drift; a repeated id hurts nobody else.
- container: what a service needs exists before it; one shared object per
  class; cycles are found, and only cycles are reported as cycles; the build
  ends; errors name a real defect.
- e-mail sender: a lost message shows in the status; a service that is down
  refuses; a broken connection is not forgotten; nothing but a restart or one
  known path reopens it; tokens that are dead in memory and file are not
  revived behind the user's back.
- Celery service: a request goes to exactly one of the two machines and is
  executed once; an outage the service has noticed is respected; a task that
  all running workers know to be cancelled does not start; what was accepted
  is settled.
- authentication: a token of an older generation is never accepted again,
  across restarts as well; a half-done invalidation is either seen or not.
- pipeline: no route runs without the permissions it declares; every declared
  handler translates the exceptions it knows; the limit of a route holds for every
  client address; a class that
  cannot be constructed costs only its own routes.
- WebSockets: a token opens the path it was issued for, in the run it was
  issued in; the list of connections holds those that waited there.
- templates: what is served does not depend on the order of the threads; a
  client is told about its own data.

## 2. Modules

| module | models | kind |
| --- | --- | --- |
| `TaskLedger` | what the caller of an e-mail route is promised; implemented by `BackgroundTasks`, and by what the process keeps for itself in `CeleryWork` | abstract specification |
| `BackgroundTasks` | the middleware, the routes' choice, the runner, exceptions, restart | component |
| `BackgroundTasksProofs` | theorems about it | proofs |
| `DependencyOrder` | what the container promises about construction | abstract specification |
| `Container` | loading, rounds, construction, `Register`, `InjectInMethod` | component |
| `ContainerProofs` | theorems about it | proofs |
| `EmailSender` | ping, task life cycle, status, flag, tokens, restart | component |
| `EmailSenderProofs` | theorems about it | proofs |
| `ConfigGeneration` | run modes, configuration file, generation id, expiry, invalidation, restart | component |
| `ConfigGenerationProofs` | theorems about it | proofs |
| `DirectWork` | what the choice between the process and Celery promises about work to be done once | abstract specification |
| `CeleryWork` | the status and its ping, the routing between the machines, tasks, cancellation, schedules, beat, workers, restart | component |
| `CeleryWorkProofs` | theorems about it | proofs |
| `RouteTable` | the resource classes as they are declared | data |
| `RoutePipeline` | import, construction and mounting of the classes; the way of a request through its route | component |
| `RoutePipelineProofs` | theorems about it | proofs |
| `PathTickets` | what the WebSocket endpoints promise about their paths | abstract specification |
| `WebSockets` | tokens, handshake, connection list, restart | component |
| `WebSocketsProofs` | theorems about it | proofs |
| `Templates` | the reader threads, requests for HTML templates up to the verdict | component |
| `TemplatesProofs` | theorems about it | proofs |
| `MC*` | values of the constants for TLC | model checking |

### BackgroundTasks

A request goes `idle -> handling -> responded | refused | raised -> finished`
(`pc`). `Register` is the first half of `BackgroundTaskMiddleware.dispatch`;
`AddTask`, `TriggerCelery`, `Refuse` and `Raise` are the ways the route ends;
`CreateRunner` and `Discard` are the two branches after `call_next`. The
runner is the coroutine `__call__`: `Start` is everything up to the first
await that yields, `CallTask` hands the function to the thread pool, `RunTask`
is the function, `Resume` the continuation, `Complete` the last locked section
and `Abort` the exception leaving the coroutine. `Crash` clears what is in
memory. A step ends where the event loop can run something else; `task_lock`
guards sections that hold no await, so it is never contended and belongs to
the step around it.

Two things are abstracted. The list a request registers is named by that
request. The request id, `generateId`, is a function of the clock because the
code seeds its generator with `time.time()`: with `CoarseClock = FALSE` two
calls never read the same value, with `TRUE` they may. Which exceptions
become a response is the work of `add_exception_handlers`: a class with a
handler of its own gives a response without the id (`Refuse`), any other one
leaves `call_next` (`Raise`). `fate` and `attempts` are history variables;
`fate` is what the refinement maps to the ledger.

### Container

The graph is chosen in `Init` (`params`, `possible`), so TLC starts from every
graph over the names. `LoadDependencies` is `__load_dep`; `NextRound` one turn
of the while loop of `__buildContainer`; `Inject` one construction inside a
round, in the order of `__order_dependency` (fewer parameters first; the order
of a set of strings, which Python does not fix, breaks the ties); `EndBuild`
the end of the constructor; `Register` is `register_new_dep` with its load and
its injection; `InjectIn` the two decorators. `StatusAfter` is the outcome of
`Service._builder`. The tables of `InjectWithCondition` and `BuildOnlyIf` stay
empty, because `typing.overload` returns a stub in place of the decorators,
and so the branches that read them are unreachable and left out. A service
whose own constructor raises (`container.py:351`) would end the build with
that exception; `Create` has no such outcome. Whether a dependency is
available is not looked at by the code, and no property asks for it.

### EmailSender

A message goes through the ping (`ReadStatus`, `ReadBuilded`: the guard reads
the two fields one after the other) and the wrapper `task_lifecycle`
(`Connect`, `ReadToken`, `Refresh`, `Authenticate`, `Send`, `MarkTemporary`,
`Logout`). Each action ends where the thread waits for the network or where it
has written one of the two shared fields; `MarkTemporary` is the second
assignment of the handler of `SMTPServerDisconnected`. `Fail` is an except
clause that writes a status, `Raise` an exception no clause catches. `Start`
is a start of the process, the first one too, and `Build` what it makes of the
token file.

A token is the number of its issue, and it may have expired (`valid`) or have
come without a refresh token (`renewable`). The tokens are kept three times:
in the field of the OAuth object (`auth_tokens`), in the data of its
`JSONFile` (`data`) and in the file (`file`). `update_tokens` replaces one
after the other: `Refresh` ends with the assignment of the field, `Load`
passes the field on to `JSONFile.load`, `Store` is the assignment there, and
`Open`, `Dump` and `Flush` are a save, which happens twice because `load`
saves and `OAuth.save` saves again (`again`). Any other thread may come
between two of them. `getFd` may return `None`, and then the exception of
`json.dump` leaves the task with memory and file apart; a flush whose error is
swallowed, and two texts in one file, leave no tokens (`Saved`). A death of
the process (`Start` again) leaves the file as it is, truncated perhaps.

The SMTP server and the token endpoint are external: every call may succeed or
end with any exception the code distinguishes. Time is the action `Expire`.
Where `access_token` finds an expired token and a refresh token, the reading
of the latter is one step with the former. The conversation with the user, at
a start that finds no tokens, has one outcome with tokens and one without.

### ConfigGeneration

`phase` is where `main.py` is. A start loads the file (`Load`) and goes on
according to the mode: `StartCreating`, `StartFromFile`, `StartRegistering`;
`EDIT` exits before it does anything. A creation saves twice, first the
applications with empty metadata (`OpenApps`, `CloseApps`) and then the
generation (`OpenGeneration`, `CloseGeneration`); `Register` hands the tokens
to the client, `Serve` is `on_startup`, `Interrupt` is Ctrl-C at a question.

A request goes `idle -> presented -> admitted` through the two middlewares
(`Present`, `Verify`) and then either through a route that leaves the
generation alone (`Route`) or through `invalidate_all_tokens`, cut where its
thread may be overtaken: `Draw`, `Store`, `Stamp`, `Open`, `Dump`, `Flush`.
A save truncates the file when it opens it, and the buffer is written when the
descriptor, which nobody closes, is collected as `save` returns: `Dump` and
`Flush` are two steps because the flush of one save may come after another
save has opened the file, and then a shorter text over a longer one leaves
something that is no JSON (`Over`).

What may go wrong, always may: the process dies (`Kill`), the file cannot be
opened (`getFd` returns `None` and `json.dump` raises), a flush is lost (an
exception in a collected object is only printed), an invalidation overtakes
another one (the limit of one a day is kept per address). `troubles` records
what of that has happened so far, and properties that do not survive it say
so; `handed` and `refused` are history variables too.

Abstracted: ids are numbered in the order they are drawn (a collision of the
clock-seeded `generateId` is left out here); instants are the expiry stamps,
and `horizon` is the last one that has passed; a `json.dump` into its buffer
is one step; one application; the API key, the token's own expiry and its
owner are an arbitrary refusal in `Verify`. Tokens are handed out by the
registration only: `_create_tokens` raises `TypeError` for what the routes
give it, and `refresh-auth` refuses everybody.

### CeleryWork

The endpoint of a request is cut where its thread may be overtaken: `Arrive`
(the middlewares and the router, in the event loop), `ReadStatus` (the `if` of
the route) and then `AddTask` or `Trigger`. `BeginCheck` and `EndCheck`
enclose the ping of the workers. It is a blocking call inside a coroutine:
while `pinging` holds, nothing else of the event loop is enabled (`Arrive`,
`RunLocal`), and the threads of the pool go on. `Replies` is the code after
the ping; with `CELERY_WORKERS_COUNT` in the environment (`CountIsText`) the
subtraction raises after the count was set and `CheckFails` is what the
handler of the exception does. `CancelRead` and `CancelRevoke` are the two
halves of `cancel_task`, `DeleteSchedule` is `delete_schedule`.

`revoke` publishes a broadcast. It is on its way to the workers that listen
at that moment (`told`), any of the running ones, and each processes it when
it gets to it (`Hear`), before or after it takes the task. A worker that comes
up asks the others for what they know, and takes over what those reply that
reply in time, all of them or none (`ComeUp`). So the answer to the client
promises nothing, and `CancelHolds` begins with the moment at which the last
running worker has processed the revocation of a task that is still queued
(`stopped`); it ends when all workers are down, or when one comes up without a
reply.

The id of an entry is any name: one the client chose, which may be another
client's or a generated one that was returned to it, or a generated one, which
repeats with the clock. `Save` may therefore replace any entry and
`DeleteSchedule` remove any. The code promises nothing about whose entry stays
and no property says so.

External, with the defaults of Celery: `Fire` (the beat), `Take`, `Complete`,
`Hear`, `Die`, `ComeUp` (the workers). A task is acknowledged when it starts, so it is
lost with its worker; revoked ids live in the workers. `Trigger` may fail
before or after the broker has the message.

Two abstract specifications are implemented. `DirectWork` is the life cycle of
a piece of work that is to be done once: given away once, started at most
once, lost with the process only while it waits there and with a worker only
once it was started. `Stage` maps a request to it: its `local` and `task`
states are one state, since at most one of them is not `none`; both together
would be the stage `twice`, which `DirectWork` does not have. `LocalLedger` is
`TaskLedger` for `local` alone, which `BackgroundTasks` implements in detail:
the two modules agree on what the process does with a task it has accepted.

Abstracted: now and once are treated alike (`direct`); one occurrence of an
entry is under way at a time; countdown and eta, the expiry of results, the
expiry of a revocation in the memory of a worker and the redelivery by Redis after its visibility timeout
are left out; what `BackgroundTaskService` does with the work is one step
here, `BackgroundTasks` has its details.

### RouteTable and RoutePipeline

`RouteTable` holds the declarations: for every class and route the decorators
in the order in which Python applies them, the arguments of the endpoint, the
dependencies of the router and how the body can end. `RoutePipeline` does not
depend on them: its constants are any classes with any stacks.

`Import` is the execution of a class body and its class decorators,
`AddRessource` one turn of the loop in `Application.add_ressources`, which
constructs the class, attaches the limiter and stacks the callbacks
(`Priority`, `Encloses`). A request passes `Security`, `Authenticate`, `Reach`
(router and dependencies) and then one layer after the other from the outside
(`Layer`, `Limit`) to the function (`Endpoint`). An exception leaves through
the handlers among the layers outside of it and, if none of them knows it,
through those of the application (`Answer`). A limiter has one counter per
route and client address (`Counters`, `get_remote_address`), with windows of
its own; `NewWindow` is its clock. slowapi counts by path in place of route,
which differs for a limited route with a parameter in its path only: that is
`blacklist_tokens`, whose guard refuses everybody before the limiter is met.

What an object in a layer decides from data that is not modelled is a set of
outcomes (`Outcomes`), any of which may happen. Two of them have one element,
because the code can end in one way only: `AuthPermissionPipe` decodes the
word `tokens` in place of the tokens, and `OnlyOnce` looks for a name among
types. `PingService` of the Celery service never refuses, because the
coroutine is not awaited.

### WebSockets

`Issue` is the route that creates a token, `OnConnect` the check of the
handshake, `Connect` the acceptance, `Receive` the first message, after which
the wrapper returns, and `Disconnect` the exception that takes a socket off
the list. The id of a run is a function of the clock: two objects constructed
at one reading share it (`RunIds`). A token is the run, the operation and the
reading of the clock at which it was issued: tokens of other readings expire
on their own. Broadcasts, messages to one socket, rooms and protocols have no
caller in the repository.

`PathTickets` is the promise without any of this: a door opens to a ticket for
it that is valid, and closing down voids all tickets. `Valid` and `Behind` map
the endpoints to it.

### Templates

`ReadFile` is one turn in the thread of a kind, `EndRead` its end, `Join` one
`join` of `AssetService.build` with the values it takes over. A request goes
through the permission (`Permit`), the pipe (`Find`) and the endpoint, which is
cut where it uses the fields of the shared validator: `Begin` replaces them,
`Check` applies the rules, `Judge` reads the errors for the result and
`Report` reads them again for the exception. A file is abstracted to three
facts, whether its constructor raises (`Sound`), whether its schema makes a
validator (`Validated`), and whether a rule of it can raise (`Raising`). Such
a rule is a field with a schema of its own, for which Cerberus constructs
`CustomValidator` again with keywords it does not take, the constraint
`location`, or `for`, whose functions are called with too many arguments. The
`TypeError` passes `validate` and `build`: the request is answered 500,
whether its data was right or wrong, and what the validator had found before
stays in it. Accepted data ends in a 500: `inject` returns `None`
and `build` unpacks it. The path is put together with backslashes, so that no
template is found where the separator is another one (`WindowsPaths`). The
runs set it to `TRUE`; elsewhere every request ends at `Find` with a 404, and
the finding of `tp_mixed` is one about Windows.

## 3. Runs

| run | bounds | question |
| --- | --- | --- |
| `bg_all` | 3 requests, 1 restart, distinct ids, fair | do registry, count and fate agree in every interleaving; is everything reclaimed; is the ledger implemented |
| `bg_coarse` | 3 requests, ids may repeat | does a repeated id stay harmless for the others |
| `bg_count` | 2 requests | does the count return to zero (no, when a task raises) |
| `co_graphs` | 3 services, 2 registered later, 1 client, one abstract class, one unknown name, fair | cycles, order, end of the build, justified errors, refinement |
| `em_all` | 3 messages, 3 issues of tokens, 2 starts, saves may fail | is a loss noticed, what reopens a service that is down, what may happen to dead tokens |
| `cg_all` | 2 requests, 3 ids, 3 starts, everything may fail | is a refused generation taken again, do memory and file agree, is a registration kept, is a half-created file served, who is let in after the expiry |
| `rp_all` | all imported classes, 6 clients at 2 addresses, 2 requests, 1 hit per window, 2 windows | what runs before the permission, who gets in, what becomes of an exception, does the limit hold, what does a class that fails cost |
| `ce_all` | 2 requests, 2 workers, 1 name, 1 ping, 1 restart, 2 deaths, 1 occurrence, count as text | is a request executed once by one machine, is a known outage respected, does a cancellation hold once it was heard, is the life cycle of direct work implemented |
| `ce_live` | 1 request, 2 workers, 2 pings, 1 restart, 2 deaths, 2 occurrences, fair | is what was accepted settled, does the process keep its ledger, fairness included |
| `ws_all` | 2 paths, 2 connections, 2 readings per run, 1 restart | whom does a token admit, whom does the list hold, are the doors kept |
| `tp_all` | 5 HTML files, the fourth unsound, one with a nested schema, one file of each other kind, 2 requests | what is served after the build, is a request alone with its validator judged right, rules that raise included |
| `tp_mixed` | as `tp_all` | is every client told about its own data (no) |

Why the bounds are enough. The actors of a component interact in pairs over
one shared entry, status or token; a third one is the bystander whose view may
be damaged, which is what containment and reopening need. A second restart
meets the same state as the first, since a restart forgets everything but the
token file. Three issues are one that was saved and two of refreshes that
overlap; of two starts the first finds any file and the second the one that
the threads of the first have left. Cycles of one, two and three services, a cycle with a service hanging
on it, and a round with several services all occur in graphs of three. Beyond
these bounds the theorems of section 5 take over.

`co_graphs` starts from the union of three families, named in `MCContainer`
(`SmallGraphs`): every graph of the three services with up to two parameters
each; every one with a parameter and a `@PossibleDep` each; and one chain of
services with everything that the two later classes and the client may ask
for.

For the generation, two requests give every overlap of two saves; three ids
are one of the creation and two of invalidations that overlap; three starts
are a creation, a start from the file it left, and one more after what
happened to that.

In `rp_all` one request may be any call of any client and the other one
competes with it for a limit: nothing but the counter of a route is shared
between requests, and two of them from one address with an allowance of one
exceed it; from two addresses both may pass. The six clients are one per way through the middlewares (no key, no token, a refused
one, valid ones) and per kind of permission (roles, custom for a route, custom
for a class).

In the Celery runs two workers are enough for a revocation that one of them
has missed, or processes after the task was taken, and two deaths for all of them
to be down at once. Deaths are bounded and `ComeUp` is not. Two requests
overwrite each other's schedule under one name. The liveness run has one request, because no guard of one
request's progress reads anything of another one, and several pings.

Of two connections one waits, or is left on a list, while the other one shows
its token there or elsewhere; two readings give a token that has expired and
one that was issued after it; a restart lets a token meet the next run, and a
later run has ids that are further away still. The unsound HTML file stands in the middle, so that there is
something before and behind it, and two requests for one template already
disturb each other.

Symmetry is used in `bg_coarse`, `em_all` and `ce_all`, over values no property
names; these runs have invariants, action properties and a refinement without
fairness, which are checked step by step, and no liveness. Deadlock is not checked: requests are served once,
the container ends ready, raised or exited, clocks and restarts are bounded,
and a pool of threads may be idle.

The runs with the outcome "no" are disagreements between what the code says
and what it does, listed under `findings` with the quoted lines: the count of
running tasks, and the validation that reports on somebody else's data. Others
were met while modelling and have no run of their own:

- `server/middleware.py:123` says the removal of a request's entry is safe;
  with a repeated id it removes the entry of another request. `bg_coarse`
  shows how far the damage goes.
- `container.py:462` to `464` describe a decorator that leaves parameters alone
  which are no services; the code asks the container for all of them.
- `decorators/handlers.py:25` tells the client that a service is temporarily
  not available; nothing makes it available again (`em_all`: a refused sender
  or a restart only).
- `services/security_service.py:51` replaces the generation before it is
  saved: after a death of the process a generation that was refused is taken
  again. `OldStaysOld` excludes that case and the run reaches it.
- `ressources/admin_ressource.py:75` issues the tokens after an invalidation
  with a function that raises `TypeError` for them, so that nobody has one.

## 4. Fairness

`BackgroundTasks`: weak fairness for the endpoint, the response and the runner
of each request; asyncio runs every ready coroutine and a pool thread runs to
its end. Arrival of requests and crashes are not fair. `Container`: weak
fairness of the whole next-state relation; the import of the modules goes on
by itself, in one thread.

`CeleryWork`: weak fairness of `EndCheck` (a ping ends by its timeout) and of
each endpoint (a thread of the pool); strong fairness of `RunLocal`, because
the hourly ping disables it again and again and the event loop serves its
queue in order in between; strong fairness of the event that some worker takes
a given task, because workers come and go and the queue is served in order.
Nothing makes a worker come up: the property says "if workers are up again and
again". Deaths, restarts, pings and the arrival of a
revocation are not fair.

`EmailSender`, `ConfigGeneration`, `RoutePipeline`, `WebSockets` and
`Templates` have safety properties only and assume no fairness.

## 5. Theorems

All proofs hold for every value of the constants that satisfies
`ConstantsAssumption`; what some of them assume beyond it is said below.

- `BackgroundTasksProofs`: `TypeCorrect` and `CollisionsAreContained` without
  further assumption; the rest assumes `CoarseClock = FALSE`. There the
  invariant adds to the checked properties
  that ids are below the clock and pairwise different, that the entry of an id
  is the list its own request registered, that a list holds at most the task
  of its own request, and what each stage of a runner implies about it.
  `AtMostOnce`, `QueuedIsReachable`, `EntriesAccounted`, `NoKeyError` and
  `CountExact` follow, and so does the safety part of the ledger.
  `CountExact` needs the cardinality theorems for one element more or less.
  With a clock that may repeat a reading none of this holds, and
  `CollisionIsContained` says what does. Its invariant is stated by id in place
  of by request (`Sharing`): an entry, the tasks of a list and the list a
  runner iterates over all belong to requests with one id, and no task stands
  at two places. A runner only moves forward (`MovesOn`), so whoever is past a
  task stays past it, and the attempts of a task are at most the number of
  runners past it (`CalledOncePerRunner`). A request alone with its id is left
  alone by all others (`LoneUndisturbed`).
- `ContainerProofs`: the invariant says that what has left `remaining` and
  `no_dep` is bound, in an order that respects the graph, and that a stuck set
  stays inside `remaining`. `CircularIffCyclic`,
  `NothingStuckIsConstructed`, `DependenciesFirst` and `OneSharedInstance`
  follow, and the container implements `DependencyOrder`. `ReadyIsComplete`
  adds that the objects are counted (`Counted`: as many as there are bound
  names while building, one more for each class registered later), and
  `ErrorsAreJustified` that the signature of every service was accepted before
  the rounds began (`Accepted`). Of `BuildEnds` the two premises are proved:
  every step of the rounds lowers the number of services left, those of the
  round counted once and the remaining ones twice, or ends the rounds
  (`RoundsDescend`), and a round never lacks a service with the fewest
  parameters (`RoundsHaveAStep`, by the least element of a set of numbers).
  Putting them together needs the fairness of `FairSpec`, and is left to TLC.
- `EmailSenderProofs`: the invariant adds to the checked properties that a ping
  that began while the service was down and passed the status will find the
  flag cleared (`DownWillBeSeen`). `OnlyRefusedSenderReopens` follows from
  typing. `DeadTokensStayDead` follows the tokens through memory, data, buffers
  and file: an issue is the only source of new ones, a start and a refresh are
  the only issues, and both need a token that is renewable or a file without
  any (`StepsOfDead`).
- `ConfigGenerationProofs`: `Inv` says, whatever happens, that only ids that
  were drawn are about (`Numbered`) and what each phase of `main.py` knows of
  the data and the file (`Stages`). `RegistrationIsKept`, `BareIsNotServed`
  and `LockedUntilCreated` follow from it. `OldStaysOld` needs `Unrevoked`,
  which holds until a process died or a save failed: while an invalidation is
  under way the id, the data and the buffer hold an id no client has, and a
  file at rest holds the current generation, one nobody has, or something
  nobody can use. `QuietIsSaved` needs `Saving`, which holds until
  invalidations overlap or a save fails and follows one invalidation from the
  id to the file.
- `CeleryWorkProofs`: `Inv` says that work is nowhere until its endpoint has
  handed it over and has not run before it was taken (`HandedOver`, `Taken`);
  that the status a ping without a reply has left is still there when a later
  request reads it (`StatusStays`); and that a revocation that must hold is known
  to every worker that is up (`Remembered`): it was true when the last of them
  had processed the broadcast (`HearInv`), and a worker that comes up keeps it
  true only through a reply (`PoolInv`). `RunsAtMostOnce`, `KnownDownIsAvoided`
  and `CancelHolds` follow. Two refinements are proved step by step:
  `Refinement`, of `DirectWork`, and `LocalRefinement`, of the safety part of
  the ledger. They need, beyond `Inv`, that the process keeps direct work only
  (`Waiting`) and that a direct task is in the hands of one worker, who has
  started it (`Sole`): without it the death of a worker could lose what
  another one is about to finish. A step that disturbs one request leaves the
  stage of the others (`OneMoves`, `Elsewhere`); a restart and a death disturb
  many at once.
- `RoutePipelineProofs`: first lemmas about stacks, for instance that a layer
  behind the permissions is enclosed by all of them (`OutermostFirst`). `Inv`
  says what import and construction have done so far (`Imported`, `Adding`),
  that only a request for a mounted route has met a layer (`Arrived`), that
  behind the permissions all of them were passed (`Permitted`), and that for
  every counter, of a route and an address, the bodies that ran and the requests between limiter and body are together at
  most the hits of its window and the allowance of the earlier ones
  (`Counting`), with the cardinality of the set of these requests. It holds
  for any classes and stacks, not for those of the table alone.
  `AccessIsAsDeclared` follows from `Asked`: the route permission has decided
  as the roles and the client say as soon as any layer has decided, and before
  that nobody has been asked. It needs `RoutePermissionAssumption`: the route
  permission stands in a decorator of its own and no other permission outside
  of it. The property is false without that, since a permission further out
  refuses before the roles are looked at, and so the assumption is stated with
  the property; TLC evaluates it for the stacks of `RouteTable`.
- `WebSocketsProofs`: the ids of a run are at most one above its clock and
  those of earlier lives below it (`Clock`, `OriginOf`), so a token that is
  taken was issued in this life; operations differ, so it was for this path.
  `Refinement` shows each step to be one of `PathTickets`. It needs that the
  history holds tokens, each with the path its operation names (`Origins`):
  otherwise one expiry could void the tickets of two doors.
- `TemplatesProofs`: a reader has read what stands before its position
  (`Reading`), what was joined is complete (`Joined`), and a validator used by
  one request alone has its document and its errors (`Stages`, `Alone`); what a
  rule that raised has left there is gone when the next request begins.

Some theorems state properties that no run lists, because another property of
a run covers them on the small instance: `AtMostOnce`, `QueuedIsReachable` and
`NoKeyError` (a consequence of the refinement and of the accounting),
`NothingStuckIsConstructed`, `DependenciesFirst` and `OneSharedInstance`
(`ImplementsOrder`), `RunsAtMostOnce` (`ImplementsDirectWork`),
`OnlyIssuedAdmits` (`ImplementsTickets`), `DownIsRefused` and
`DisconnectIsFinal` of the e-mail sender.

Left to TLC: liveness (`EntriesReclaimed`, `BuildEnds`, `AcceptedIsSettled`,
and the fairness conjunct of the ledger in `ImplementsLedger`). It needs
ENABLED, which the prover does not reason about. Every invariant, every action
property and the safety part of every refinement of a passing run is stated by
a theorem.

## 6. Plan

Each component gets one run that asks everything of its small instance, and
further ones only for other constants or for a disagreement:

1. done: background tasks, container, e-mail sender, generation id and run
   modes with one application.
2. done: `CeleryWork`, the routing of a request to one machine, the ping,
   cancellation, schedules, liveness. Theorem: a request has one handler.
3. done: `RoutePipeline` over `RouteTable`, `WebSockets`, `Templates`.
4. done: `CollisionIsContained` by id in place of by request,
   `ReadyIsComplete` and `ErrorsAreJustified`.
5. done: `AccessIsAsDeclared` for any stacks; `DirectWork` and the ledger of the
   process, implemented by `CeleryWork`; the descent of the container's rounds.
6. done: `PathTickets`, implemented by `WebSockets`.
7. next: an abstract specification of the generation (who is admitted after an
   invalidation that went well), with its refinement.

Not modelled, and why:

- several applications: `start_applications` blocks on the first one, so no
  second one ever runs; `register_signal` has no body.
- the interactive OAuth grant: one user and a browser at set-up.
- broadcasts, rooms and protocols of the WebSockets, the thread and scheduler
  interfaces, the events of `_ressource.py`: nothing in the repository calls
  them.
- injection of data into a template, translation, encryption of PDF files: no
  request gets there.
- MIME building, tables of mail providers, validators and schemas over
  third-party libraries, console output and prompts (`utils/prettyprint.py`,
  `utils/question.py`): functions of their input that keep no state other
  parts depend on.
- the channels that are stubs (SMS, voice, fax, chat, push), logging and
  storage stubs, scripts and Docker files.
