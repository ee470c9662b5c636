-------------------------- MODULE ConfigGeneration --------------------------
(***************************************************************************)
(* The generation of the access tokens.  A token carries the generation it *)
(* was issued for, and JWTAuthService takes only those of its own          *)
(* generation_id.  The id and the expiry of all tokens are kept in memory  *)
(* (configService.config_json_app.data) and in the configuration file,     *)
(* which main.py creates, completes with clients, or reads, depending on   *)
(* the run mode, and which DELETE /admin/invalidate-all/ writes again.     *)
(*                                                                         *)
(* main.py is one thread until the server runs; then the middlewares run   *)
(* on the event loop and the routes in threads of a pool, without a lock.  *)
(* A save opens the file, which truncates it, serialises the data into a   *)
(* buffer, and writes the buffer when the descriptor is collected.         *)
(*                                                                         *)
(* Ids are numbered in the order in which they are drawn, and instants by  *)
(* the stamps that are set.                                                *)
(***************************************************************************)
EXTENDS Naturals

CONSTANTS Requests,        \* the requests under way at a time
          MaxGenerations,  \* bound: ids drawn
          MaxStarts        \* bound: starts of the program

ASSUME ConstantsAssumption ==
    /\ MaxGenerations \in Nat
    /\ MaxStarts \in Nat

VARIABLES
    disk,           \* the configuration file
    data,           \* config_json_app.data
    generation_id,  \* of JWTAuthService; 0 before it is set
    phase,          \* where main.py is
    pc,             \* where each request is
    token,          \* the generation of the token it presents
    dump,           \* the buffer of its save
    drawn,          \* how many ids there are
    stamps,         \* how many stamps there are
    horizon,        \* the last stamp that is expired
    handed,         \* history: generations clients hold tokens of
    refused,        \* history: generations a client was told are too old
    troubles,       \* history: what has happened that need not
    starts

vars == <<disk, data, generation_id, phase, pc, token, dump, drawn, stamps,
          horizon, handed, refused, troubles, starts>>

\* What the file may hold: no file; no JSON; applications with empty metadata;
\* or with a generation, a stamp, and a text that may be a digit longer.
Kinds == {"absent", "garbage", "bare", "full"}
Texts == [kind : Kinds, gen : Nat, stamp : Nat, long : BOOLEAN]
Blank(kind, long) == [kind |-> kind, gen |-> 0, stamp |-> 0, long |-> long]
Absent == Blank("absent", FALSE)
Empty  == Blank("garbage", FALSE)
Bare   == Blank("bare", FALSE)

\* A shorter text over a longer one leaves the tail of the longer.
Over(old, new) == IF old.long /\ ~new.long THEN Blank("garbage", TRUE) ELSE new

Fresh(text) == text.stamp > horizon

Creating == {"creating", "saving apps", "created", "saving generation"}
Phases == {"off", "prompting", "starting", "serving"} \cup Creating
Invalidating == {"drawn", "stored", "stamped", "opened", "dumped"}
PcStates == {"idle", "presented", "admitted"} \cup Invalidating

Quiet == \A r \in Requests : pc[r] \notin Invalidating

\* The process died, a save failed, an invalidation overtook another one.
Troubles == {"kill", "save", "overlap"}
Trouble(t) == troubles' = troubles \cup {t}

At(r, state) == pc' = [pc EXCEPT ![r] = state]

\* The process is gone, with all that was in memory.
Gone ==
    /\ phase' = "off"
    /\ data' = Absent
    /\ generation_id' = 0
    /\ pc' = [r \in Requests |-> "idle"]
    /\ token' = [r \in Requests |-> 0]
    /\ dump' = [r \in Requests |-> Absent]

memory == <<data, generation_id, pc, token, dump>>
requests == <<pc, token, dump>>
clients == <<handed, refused>>
history == <<clients, troubles>>
counters == <<drawn, stamps, horizon>>

Init ==
    /\ disk = Absent
    /\ data = Absent
    /\ generation_id = 0
    /\ phase = "off"
    /\ pc = [r \in Requests |-> "idle"]
    /\ token = [r \in Requests |-> 0]
    /\ dump = [r \in Requests |-> Absent]
    /\ drawn = 0 /\ stamps = 0 /\ horizon = 0
    /\ handed = {} /\ refused = {} /\ troubles = {}
    /\ starts = 0

-----------------------------------------------------------------------------
(* main.py                                                                 *)

Valid(text) == text.kind \in {"bare", "full"}

Load ==
    /\ phase = "off"
    /\ starts < MaxStarts
    /\ starts' = starts + 1
    /\ data' = disk
    /\ UNCHANGED <<disk, requests, counters, history>>

\* CREATE, chosen, with leave to overwrite, or imposed by a file of no use.
StartCreating ==
    /\ Load
    /\ phase' = "creating"
    /\ UNCHANGED generation_id

\* FILE, chosen, or CREATE without leave to overwrite.
StartFromFile ==
    /\ Load
    /\ Valid(disk)
    /\ phase' = "starting"
    /\ UNCHANGED generation_id

\* REGISTER.  Without a generation it raises KeyError, and EDIT only exits:
\* neither leaves a trace.
StartRegistering ==
    /\ Load
    /\ disk.kind = "full"
    /\ generation_id' = disk.gen
    /\ phase' = "prompting"

\* The first half of a save by main.py, of data that are then `content`.  If
\* the file does not open its AttributeError ends the program.
OpenFile(from, id, content, to) ==
    /\ phase = from
    /\ \/ /\ disk' = Empty
          /\ generation_id' = id
          /\ data' = content
          /\ phase' = to
          /\ UNCHANGED <<requests, troubles>>
       \/ /\ Gone
          /\ Trouble("save")
          /\ UNCHANGED disk

\* The second half: the buffer is flushed when save returns and the descriptor
\* is collected, which hides an error.
CloseFile(from, to) ==
    /\ phase = from
    /\ phase' = to
    /\ \/ disk' = data /\ UNCHANGED troubles
       \/ Trouble("save") /\ UNCHANGED disk
    /\ UNCHANGED <<memory, counters, clients, starts>>

\* load(app_params_to_json(apps_data)): the metadata are empty.
OpenApps ==
    /\ OpenFile("creating", 0, Bare, "saving apps")
    /\ UNCHANGED <<counters, clients, starts>>

CloseApps == CloseFile("saving apps", "created")

\* Mutant of OpenGeneration: the data keep the id they had.
OpenOldGeneration ==
    /\ drawn < MaxGenerations
    /\ drawn' = drawn + 1
    /\ stamps' = stamps + 1
    /\ \E long \in BOOLEAN :
          OpenFile("created", drawn + 1,
                   [kind |-> "full", gen |-> data.gen, stamp |-> stamps + 1, long |-> long],
                   "saving generation")
    /\ UNCHANGED <<horizon, clients, starts>>

\* set_generation_id(True), up to the save.
OpenGeneration ==
    /\ drawn < MaxGenerations
    /\ drawn' = drawn + 1
    /\ stamps' = stamps + 1
    /\ \E long \in BOOLEAN :
          OpenFile("created", drawn + 1,
                   [kind |-> "full", gen |-> drawn + 1, stamp |-> stamps + 1, long |-> long],
                   "saving generation")
    /\ UNCHANGED <<horizon, clients, starts>>

CloseGeneration == CloseFile("saving generation", "prompting")

\* register_client_services: the client gets its tokens.
Register ==
    /\ phase = "prompting"
    /\ phase' = "starting"
    /\ handed' = handed \cup {generation_id}
    /\ UNCHANGED <<disk, memory, counters, refused, troubles, starts>>

\* Ctrl-C at a question ends the program.
Interrupt ==
    /\ phase \in {"creating", "prompting"}
    /\ Gone
    /\ UNCHANGED <<disk, counters, history, starts>>

\* Mutant of Serve: a file without a generation is served all the same.
ServeAnything ==
    /\ phase = "starting"
    /\ phase' = "serving"
    /\ generation_id' = data.gen
    /\ UNCHANGED <<data, requests, disk, counters, history, starts>>

\* start_applications; on_startup reads the id from the data, and without one
\* its KeyError ends the server and the program.
Serve ==
    /\ phase = "starting"
    /\ \/ /\ data.kind = "full"
          /\ phase' = "serving"
          /\ generation_id' = data.gen
          /\ UNCHANGED <<data, requests>>
       \/ /\ data.kind # "full"
          /\ Gone
    /\ UNCHANGED <<disk, counters, history, starts>>

\* The server waits for the requests under way before it stops.
Stop ==
    /\ phase = "serving"
    /\ \A r \in Requests : pc[r] = "idle"
    /\ Gone
    /\ UNCHANGED <<disk, counters, history, starts>>

Kill ==
    /\ phase # "off"
    /\ Gone
    /\ Trouble("kill")
    /\ UNCHANGED <<disk, counters, clients, starts>>

\* Time passes: some of the stamps expire.
Expire ==
    /\ horizon' \in (horizon + 1) .. stamps
    /\ UNCHANGED <<disk, memory, phase, drawn, stamps, history, starts>>

-----------------------------------------------------------------------------
(* A request                                                               *)

\* Mutant of Present: the comparison is the wrong way round.
PresentLate(r) ==
    /\ phase = "serving"
    /\ pc[r] = "idle"
    /\ ~Fresh(data)
    /\ \E g \in handed : token' = [token EXCEPT ![r] = g]
    /\ At(r, "presented")
    /\ UNCHANGED <<disk, data, generation_id, phase, dump, counters, history, starts>>

\* SecurityMiddleWare: after the expiry every request is answered 401.
Present(r) ==
    /\ phase = "serving"
    /\ pc[r] = "idle"
    /\ Fresh(data)
    /\ \E g \in handed : token' = [token EXCEPT ![r] = g]
    /\ At(r, "presented")
    /\ UNCHANGED <<disk, data, generation_id, phase, dump, counters, history, starts>>

\* Mutant of Verify: what is noted is the token after it was cleared.
VerifyCleared(r) ==
    /\ pc[r] = "presented"
    /\ token' = [token EXCEPT ![r] = 0]
    /\ \/ token[r] = generation_id /\ At(r, "admitted") /\ UNCHANGED refused
       \/ token[r] # generation_id /\ At(r, "idle") /\ refused' = refused \cup {token'[r]}
    /\ UNCHANGED <<disk, data, generation_id, phase, dump, counters, handed, troubles, starts>>

\* JWTAuthMiddleware: verify_permission refuses a token that is expired or of
\* another client, and then one of another generation.
Verify(r) ==
    /\ pc[r] = "presented"
    /\ token' = [token EXCEPT ![r] = 0]
    /\ \/ /\ token[r] = generation_id
          /\ At(r, "admitted")
          /\ UNCHANGED refused
       \/ /\ At(r, "idle")
          /\ UNCHANGED refused
       \/ /\ token[r] # generation_id
          /\ At(r, "idle")
          /\ refused' = refused \cup {token[r]}
    /\ UNCHANGED <<disk, data, generation_id, phase, dump, counters, handed, troubles, starts>>

\* Any route that leaves the generation alone, or one that refuses the request.
Route(r) ==
    /\ pc[r] = "admitted"
    /\ At(r, "idle")
    /\ UNCHANGED <<disk, data, generation_id, phase, token, dump, counters, history, starts>>

\* invalidate_all_tokens: set_generation_id(True) draws an id, ...
Draw(r) ==
    /\ pc[r] = "admitted"
    /\ drawn < MaxGenerations
    /\ drawn' = drawn + 1
    /\ generation_id' = drawn + 1
    /\ At(r, "drawn")
    /\ \/ Quiet /\ UNCHANGED troubles
       \/ ~Quiet /\ Trouble("overlap")
    /\ UNCHANGED <<disk, data, phase, token, dump, stamps, horizon, clients, starts>>

\* Mutant of Store: the data keep the id they had.
StoreNothing(r) ==
    /\ pc[r] = "drawn"
    /\ At(r, "stored")
    /\ UNCHANGED <<disk, data, generation_id, phase, token, dump, counters, history, starts>>

\* ... stores in the data the id it finds then, ...
Store(r) ==
    /\ pc[r] = "drawn"
    /\ data' = [data EXCEPT !.gen = generation_id]
    /\ At(r, "stored")
    /\ UNCHANGED <<disk, generation_id, phase, token, dump, counters, history, starts>>

\* ... stamps them, ...
Stamp(r) ==
    /\ pc[r] = "stored"
    /\ stamps' = stamps + 1
    /\ \E long \in BOOLEAN : data' = [data EXCEPT !.stamp = stamps + 1, !.long = long]
    /\ At(r, "stamped")
    /\ UNCHANGED <<disk, generation_id, phase, token, dump, drawn, horizon, history, starts>>

\* ... and saves them: open truncates, and None in its place raises
\* AttributeError, ...
Open(r) ==
    /\ pc[r] = "stamped"
    /\ \/ disk' = Empty /\ At(r, "opened") /\ UNCHANGED troubles
       \/ At(r, "idle") /\ Trouble("save") /\ UNCHANGED disk
    /\ UNCHANGED <<data, generation_id, phase, token, dump, counters, clients, starts>>

\* ... json.dump fills the buffer, ...
Dump(r) ==
    /\ pc[r] = "opened"
    /\ dump' = [dump EXCEPT ![r] = data]
    /\ At(r, "dumped")
    /\ UNCHANGED <<disk, data, generation_id, phase, token, counters, history, starts>>

\* Mutant of Flush: the buffer never reaches the file.
FlushNothing(r) ==
    /\ pc[r] = "dumped"
    /\ dump' = [dump EXCEPT ![r] = Absent]
    /\ At(r, "idle")
    /\ UNCHANGED <<disk, data, generation_id, phase, token, counters, history, starts>>

\* ... and the buffer is written.  Afterwards _create_tokens iterates over the
\* keys of the permission, and its TypeError is the answer: no token is issued.
Flush(r) ==
    /\ pc[r] = "dumped"
    /\ \/ disk' = Over(disk, dump[r]) /\ UNCHANGED troubles
       \/ Trouble("save") /\ UNCHANGED disk
    /\ dump' = [dump EXCEPT ![r] = Absent]
    /\ At(r, "idle")
    /\ UNCHANGED <<data, generation_id, phase, token, counters, clients, starts>>

Step(r) == \/ Present(r) \/ Verify(r) \/ Route(r)
           \/ Draw(r) \/ Store(r) \/ Stamp(r) \/ Open(r) \/ Dump(r) \/ Flush(r)

Main == \/ StartCreating \/ StartFromFile \/ StartRegistering
        \/ OpenApps \/ CloseApps \/ OpenGeneration \/ CloseGeneration
        \/ Register \/ Interrupt \/ Serve \/ Stop

Next == Main \/ (\E r \in Requests : Step(r)) \/ Kill \/ Expire

Spec == Init /\ [][Next]_vars
-----------------------------------------------------------------------------
(* Properties                                                              *)

TypeOK ==
    /\ disk \in Texts /\ data \in Texts
    /\ generation_id \in Nat
    /\ phase \in Phases
    /\ pc \in [Requests -> PcStates]
    /\ token \in [Requests -> Nat]
    /\ \A r \in Requests : pc[r] = "presented" => token[r] \in handed
    /\ dump \in [Requests -> Texts]
    /\ drawn \in 0 .. MaxGenerations
    /\ stamps \in Nat /\ horizon \in 0 .. stamps
    /\ handed \subseteq Nat /\ refused \subseteq handed
    /\ troubles \subseteq Troubles
    /\ starts \in 0 .. MaxStarts

\* "Old Token not valid anymore" (services/security_service.py:142): once a
\* token was refused for its generation no service takes that generation
\* again, neither this process nor one started later from the file.
RefusedForEver == phase = "serving" => generation_id \notin refused

\* Unless a process died or a save failed that is so, whatever file
\* overlapping invalidations have left for the next start.
OldStaysOld == troubles \subseteq {"overlap"} => RefusedForEver

\* Between invalidations that do not overlap the service, the data and the
\* file agree, so that stopping and starting changes nothing for anybody, and
\* no death of the process leaves a service that is not the one of its file.
QuietIsSaved ==
    troubles \subseteq {"kill"} /\ phase = "serving" /\ Quiet =>
        generation_id = data.gen /\ disk = data

\* A client that was given its tokens will be let in: the id they carry is the
\* one the server is about to read, and the one in the file unless a save
\* has failed.
RegistrationIsKept ==
    phase = "starting" /\ generation_id # 0 =>
        /\ data.kind = "full" /\ data.gen = generation_id
        /\ "save" \notin troubles => disk = data

\* If the program dies between the two saves of its creation, the file it
\* leaves passes the validity test of main.py, but nobody is registered with
\* it and nobody is served.
BareIsNotServed == disk.kind = "bare" => phase \notin {"prompting", "serving"}

\* All tokens are expired and no invalidation is under way.
Locked ==
    /\ phase \notin Creating
    /\ ~Fresh(data) /\ ~Fresh(disk)
    /\ \A r \in Requests : pc[r] = "idle"

\* After the expiry nobody is let in, and nothing short of creating the
\* configuration again changes that: no request, which could renew it, no
\* restart, no registration, no fault.
LockedUntilCreated == [][Locked => Locked' \/ phase' = "creating"]_vars
=============================================================================
