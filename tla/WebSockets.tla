------------------------------ MODULE WebSockets ------------------------------
(***************************************************************************)
(* The WebSocket endpoints: a client asks a route of the resource for a    *)
(* token (encode_ws_token), shows it in a header of the handshake          *)
(* (on_connect), is accepted and appended to the active connections of the *)
(* path, and sends its first message, after which the wrapper returns.     *)
(*                                                                         *)
(* A token names the run of the object that is to take it and the          *)
(* operation.  The id of a run is a function of the clock, so that objects *)
(* constructed at one reading of a coarse clock share it.  broadcast,      *)
(* send_personal_message and the protocols have no caller: the only class  *)
(* with protocols is mounted nowhere.                                      *)
(***************************************************************************)
EXTENDS Naturals

CONSTANTS Sockets,       \* the connections clients open
          Paths,         \* the paths of the mounted endpoints
          Operation,     \* path -> operation_id
          Issuing,       \* the paths whose create-permission route succeeds
          Failing,       \* the paths whose endpoint raises on a message
          Readings,      \* bound: what created_at may be in the tokens of a run
          MaxRestarts,   \* bound: restarts of the application
          NoToken, AuthToken, Garbage   \* what else a header may hold

ASSUME ConstantsAssumption ==
    /\ Issuing \subseteq Paths /\ Failing \subseteq Paths
    /\ \A p, q \in Paths : Operation[p] = Operation[q] => p = q
    /\ DOMAIN Operation = Paths
    /\ MaxRestarts \in Nat

VARIABLES
    now,       \* the value of the clock when objects are constructed
    run_id,    \* path -> the id of the object that serves it
    restarts,
    tokens,    \* the tokens that were issued
    expired,   \* those among them that are too old
    origin,    \* history: token -> the path and the life it was issued in
    pc, at,    \* where each connection is, and at which path
    shown,     \* the token it was accepted with
    active_connections   \* path -> the sockets its manager lists

process == <<now, run_id, restarts>>
issued == <<tokens, expired, origin>>
sockets == <<pc, at, shown>>
vars == <<process, issued, sockets, active_connections>>

Others == {NoToken, AuthToken, Garbage}
PcStates == {"idle", "checked", "waiting", "refused", "raised", "answered", "gone"}

\* The objects are constructed one after the other; the clock goes on between
\* them or not.
RunIds(t) == [Paths -> {t, t + 1}]

Init ==
    /\ now = 0
    /\ run_id \in RunIds(now)
    /\ restarts = 0
    /\ tokens = {} /\ expired = {} /\ origin = {}
    /\ pc = [s \in Sockets |-> "idle"]
    /\ at \in [Sockets -> Paths]
    /\ shown = [s \in Sockets |-> NoToken]
    /\ active_connections = [p \in Paths |-> {}]

\* Mutant of Issue: the token names the path instead of the operation.
IssueForPath(p) ==
    /\ p \in Issuing
    /\ \E reading \in Readings :
         LET t == [run_id |-> run_id[p], operation_id |-> p, created_at |-> reading] IN
         /\ t \notin expired
         /\ tokens' = tokens \cup {t}
         /\ origin' = origin \cup {<<t, p, restarts>>}
    /\ UNCHANGED <<process, expired, sockets, active_connections>>

\* _check_ws_path admits the operations of the resource's own endpoints.  A
\* token of the same reading of the clock is the same token, and one that has
\* just been issued is not expired.
Issue(p) ==
    /\ p \in Issuing
    /\ \E reading \in Readings :
         LET t == [run_id |-> run_id[p], operation_id |-> Operation[p], created_at |-> reading] IN
         /\ t \notin expired
         /\ tokens' = tokens \cup {t}
         /\ origin' = origin \cup {<<t, p, restarts>>}
    /\ UNCHANGED <<process, expired, sockets, active_connections>>

Expire(t) ==
    /\ t \in tokens \ expired
    /\ expired' = expired \cup {t}
    /\ UNCHANGED <<process, tokens, origin, sockets, active_connections>>

\* Mutant of Takes: the operation is not compared.
TakesOfAnyOperation(p, t) ==
    t \in tokens \ expired /\ run_id[p] = t.run_id

\* on_connect: the token decodes, and run, operation and expiry are right.
Takes(p, t) ==
    /\ t \in tokens
    /\ run_id[p] = t.run_id
    /\ Operation[p] = t.operation_id
    /\ t \notin expired

\* The handshake before it is accepted.  An authentication token decodes and
\* has no run: the KeyError leaves the wrapper.
OnConnect(s) ==
    /\ pc[s] = "idle"
    /\ \E t \in tokens \cup Others :
         /\ pc' = [pc EXCEPT ![s] =
                     IF t = AuthToken THEN "raised"
                     ELSE IF Takes(at[s], t) THEN "checked" ELSE "refused"]
         /\ shown' = [shown EXCEPT ![s] = t]
    /\ UNCHANGED <<process, issued, at, active_connections>>

\* Mutant of Connect: the socket is listed at every path.
ConnectEverywhere(s) ==
    /\ pc[s] = "checked"
    /\ pc' = [pc EXCEPT ![s] = "waiting"]
    /\ active_connections' = [p \in Paths |-> active_connections[p] \cup {s}]
    /\ UNCHANGED <<process, issued, at, shown>>

\* WSConnectionManager.connect: a client that has gone away makes accept
\* raise.
Connect(s) ==
    /\ pc[s] = "checked"
    /\ \/ /\ pc' = [pc EXCEPT ![s] = "waiting"]
          /\ active_connections' = [active_connections EXCEPT ![at[s]] = @ \cup {s}]
       \/ /\ pc' = [pc EXCEPT ![s] = "raised"]
          /\ UNCHANGED active_connections
    /\ UNCHANGED <<process, issued, at, shown>>

\* The first message ends the wrapper: it returns, or the endpoint or a frame
\* of the other type raises.  Nothing takes the socket off the list.
Receive(s) ==
    /\ pc[s] = "waiting"
    /\ \/ at[s] \notin Failing /\ pc' = [pc EXCEPT ![s] = "answered"]
       \/ pc' = [pc EXCEPT ![s] = "raised"]
    /\ UNCHANGED <<process, issued, at, shown, active_connections>>

\* WebSocketDisconnect while the wrapper waits.
Disconnect(s) ==
    /\ pc[s] = "waiting"
    /\ pc' = [pc EXCEPT ![s] = "gone"]
    /\ active_connections' = [active_connections EXCEPT ![at[s]] = @ \ {s}]
    /\ UNCHANGED <<process, issued, at, shown>>

\* Mutant of Restart: the clock may not have gone on since the last start.
RestartAtOnce ==
    /\ restarts < MaxRestarts
    /\ restarts' = restarts + 1
    /\ now' = now + 1
    /\ run_id' \in RunIds(now')
    /\ pc' = [s \in Sockets |-> IF pc[s] \in {"checked", "waiting"} THEN "gone" ELSE pc[s]]
    /\ active_connections' = [p \in Paths |-> {}]
    /\ UNCHANGED <<issued, at, shown>>

\* Clients keep their tokens over a restart of the application.
Restart ==
    /\ restarts < MaxRestarts
    /\ restarts' = restarts + 1
    /\ now' = now + 2
    /\ run_id' \in RunIds(now')
    /\ pc' = [s \in Sockets |-> IF pc[s] \in {"checked", "waiting"} THEN "gone" ELSE pc[s]]
    /\ active_connections' = [p \in Paths |-> {}]
    /\ UNCHANGED <<issued, at, shown>>

Next ==
    \/ \E p \in Paths : Issue(p)
    \/ \E t \in tokens : Expire(t)
    \/ \E s \in Sockets : OnConnect(s) \/ Connect(s) \/ Receive(s) \/ Disconnect(s)
    \/ Restart

Spec == Init /\ [][Next]_vars

-----------------------------------------------------------------------------
(* Properties                                                              *)

\* The type of every variable.
TypeOK ==
    /\ now \in Nat /\ restarts \in Nat
    /\ run_id \in [Paths -> Nat]
    /\ \A t \in tokens : t.run_id \in Nat /\ t.operation_id \in {Operation[p] : p \in Issuing}
    /\ expired \subseteq tokens
    /\ pc \in [Sockets -> PcStates]
    /\ at \in [Sockets -> Paths]
    /\ shown \in [Sockets -> tokens \cup Others]
    /\ active_connections \in [Paths -> SUBSET Sockets]

\* Whoever waits at a path was given a token by the route for this very path,
\* and by this run of the application: not for another path, although two
\* objects may share a run id, and not before a restart.
OnlyIssuedAdmits ==
    \A s \in Sockets :
       pc[s] \in {"checked", "waiting"} => <<shown[s], at[s], restarts>> \in origin

\* The list of a path holds each socket that waits there, and beyond them
\* only sockets that waited there and whose first message ended the wrapper:
\* no refused one, none of another path or of an earlier run.
ListedHaveWaited ==
    \A p \in Paths :
       /\ {s \in Sockets : pc[s] = "waiting" /\ at[s] = p} \subseteq active_connections[p]
       /\ \A s \in active_connections[p] :
            /\ at[s] = p /\ pc[s] \in {"waiting", "answered", "raised"}
            /\ <<shown[s], p, restarts>> \in origin

\* The tokens that open a path now, and the path each connection has entered.
Valid == {<<x[1], x[2]>> : x \in {y \in origin : y[3] = restarts /\ y[1] \notin expired}}
Behind == [s \in Sockets |-> IF pc[s] \in {"checked", "waiting"} THEN at[s] ELSE NoToken]

\* The endpoints keep the doors: whatever ids the objects drew from the clock,
\* a connection enters a path only with a token for it that was issued in this
\* life and is not expired, and a restart clears the paths and voids the tokens.
Gate == INSTANCE PathTickets WITH
            Guests <- Sockets, Doors <- Paths, Outside <- NoToken,
            valid <- Valid, inside <- Behind
ImplementsTickets == Gate!TicketSpec
=============================================================================
