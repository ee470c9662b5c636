----------------------------- MODULE EmailSender -----------------------------
(***************************************************************************)
(* EmailSenderService in the API process: requests ask the service for its *)
(* status (PingService, CheckStatusBeforeHand), and the accepted ones send *)
(* a message through connect, authenticate, sendmail and logout.  Requests *)
(* and tasks run in threads of a pool and share service_status and         *)
(* _builded, which no lock protects; a step ends where a thread waits for  *)
(* the mail server or has read or written one of the two fields.           *)
(*                                                                         *)
(* Without a password the service presents an OAuth token (OAuthFlow, the  *)
(* default), which is refreshed by whichever thread finds it expired.  The *)
(* tokens exist three times: in auth_tokens, in the data of the JSONFile   *)
(* and in the file, which a thread replaces one after the other, any other *)
(* thread in between.  A token is the number of its issue.                 *)
(*                                                                         *)
(* The mail server and the token endpoint are external: each call may      *)
(* succeed or end with any of the exceptions the code distinguishes.       *)
(***************************************************************************)
EXTENDS Naturals

CONSTANTS Messages,      \* the requests, one message each
          UsesPassword,  \* SMTP_PASS is set and the host takes it
          MaxTokens,     \* bound: how many tokens the endpoint issues
          MaxStarts      \* bound: how often the process is started

ASSUME ConstantsAssumption ==
    /\ UsesPassword \in BOOLEAN
    /\ {MaxTokens, MaxStarts} \subseteq Nat

VARIABLES
    service_status,
    builded,        \* _builded
    issued,         \* the last token the endpoint issued
    valid,          \* the tokens that have not expired
    renewable,      \* the tokens that came with a refresh token
    auth_tokens,    \* mailOAuth.auth_tokens
    data,           \* mailOAuth.token_jsonFile.data
    file,           \* what a reader of the token file finds
    pc,             \* where the thread of each message is
    local,          \* the tokens it has in an argument or in a buffer
    again,          \* will it write the file a second time
    outcome,        \* how its task ended
    down,           \* history: was the service down when the ping began
    starts

state == <<service_status, builded>>
endpoint == <<issued, valid, renewable>>
tokens == <<auth_tokens, data, file>>
saving == <<local, again>>
vars == <<state, endpoint, tokens, pc, saving, outcome, down, starts>>

Refusing == {"NOT_AVAILABLE", "TEMPORARY_NOT_AVAILABLE"}
Statuses == {"none", "AVAILABLE", "WORKS_ALMOST_ATT"} \cup Refusing
Saving == {"loading", "storing", "opening", "dumping", "flushing"}
PcStates == {"idle", "checking", "accepted", "connected", "refreshing", "presenting",
             "authenticated", "disconnected", "sent", "returned", "raised", "refused", "past"}
            \cup Saving

\* The task returned None and the message was not sent.
Silent == {"unreachable", "unauthenticated", "sender refused", "unsupported",
           "disconnected"}
Outcomes == Silent \cup {"none", "sent", "exception", "refused", "past"}

IsDown == service_status \in Refusing \/ ~builded

\* No tokens: an empty dictionary, a file that is missing, empty or torn.
Nothing == 0
Tokens == 0 .. MaxTokens

\* A reply of the endpoint replaces auth_tokens; it need not repeat the
\* refresh token.
Issue ==
    /\ issued < MaxTokens
    /\ issued' = issued + 1
    /\ valid' = valid \cup {issued'}
    /\ renewable' \in {renewable, renewable \cup {issued'}}
    /\ auth_tokens' = issued'

\* What a save leaves behind: an error of the flush, when the descriptor is
\* collected, is hidden, and overlapping writes tear the text.
Saved(t) == {t, Nothing}

\* Before the first start there is a token file, or none.
Init ==
    /\ service_status = "none" /\ builded = FALSE
    /\ issued \in {0, 1} \cap Tokens
    /\ valid \in SUBSET (1 .. issued) /\ renewable \in SUBSET (1 .. issued)
    /\ file = issued
    /\ auth_tokens = Nothing /\ data = Nothing
    /\ pc = [m \in Messages |-> "idle"]
    /\ local = [m \in Messages |-> Nothing]
    /\ again = [m \in Messages |-> FALSE]
    /\ outcome = [m \in Messages |-> "none"]
    /\ down = [m \in Messages |-> FALSE]
    /\ starts = 0

-----------------------------------------------------------------------------
(* The request: PingService                                                *)

\* `match self.service_status`
ReadStatus(m) ==
    /\ starts > 0
    /\ pc[m] = "idle"
    /\ down' = [down EXCEPT ![m] = IsDown]
    /\ \/ /\ service_status \in Refusing
          /\ pc' = [pc EXCEPT ![m] = "refused"]
          /\ outcome' = [outcome EXCEPT ![m] = "refused"]
       \/ /\ service_status \notin Refusing
          /\ pc' = [pc EXCEPT ![m] = "checking"]
          /\ UNCHANGED outcome
    /\ UNCHANGED <<state, endpoint, tokens, saving, starts>>

\* `if not self._builded or self._destroyed`; nothing is ever destroyed.
ReadBuilded(m) ==
    /\ pc[m] = "checking"
    /\ \/ /\ builded
          /\ pc' = [pc EXCEPT ![m] = "accepted"]
          /\ UNCHANGED outcome
       \/ /\ ~builded
          /\ pc' = [pc EXCEPT ![m] = "refused"]
          /\ outcome' = [outcome EXCEPT ![m] = "refused"]
    /\ UNCHANGED <<state, endpoint, tokens, saving, down, starts>>

-----------------------------------------------------------------------------
(* The task: task_lifecycle                                                *)

\* Mutant of Fail: the error is stored where the status belongs.
FailSwapped(m, status, why) ==
    /\ service_status' = why
    /\ outcome' = [outcome EXCEPT ![m] = status]

\* An except clause: it writes the status and the task goes on to return None.
Fail(m, status, why) ==
    /\ service_status' = status
    /\ outcome' = [outcome EXCEPT ![m] = why]

\* An exception no clause catches leaves the task; logout is not reached.
Raise(m) ==
    /\ pc' = [pc EXCEPT ![m] = "raised"]
    /\ outcome' = [outcome EXCEPT ![m] = "exception"]
    /\ UNCHANGED service_status

\* Mutant of Connect: the status is left alone.
ConnectUnnoticed(m) ==
    /\ pc[m] = "accepted"
    /\ \/ pc' = [pc EXCEPT ![m] = "connected"] /\ UNCHANGED outcome
       \/ /\ outcome' = [outcome EXCEPT ![m] = "unreachable"]
          /\ pc' = [pc EXCEPT ![m] = "returned"]
    /\ UNCHANGED <<state, endpoint, tokens, saving, down, starts>>

Connect(m) ==
    /\ pc[m] = "accepted"
    /\ \/ /\ pc' = [pc EXCEPT ![m] = "connected"]
          /\ UNCHANGED <<service_status, outcome>>
       \/ /\ Fail(m, "NOT_AVAILABLE", "unreachable")
          /\ pc' = [pc EXCEPT ![m] = "returned"]
       \/ Raise(m)
    /\ UNCHANGED <<builded, endpoint, tokens, saving, down, starts>>

\* encode_token reads access_token: a valid token is presented, an expired one
\* refreshed first.  Without a refresh token the KeyError becomes None, which
\* the server does not take.  The TLS handshake before it may fail.
ReadToken(m) ==
    /\ pc[m] = "connected"
    /\ \/ /\ UsesPassword \/ auth_tokens \in valid
          /\ pc' = [pc EXCEPT ![m] = "presenting"]
          /\ UNCHANGED <<service_status, outcome>>
       \/ /\ ~UsesPassword /\ auth_tokens \in renewable \ valid
          /\ pc' = [pc EXCEPT ![m] = "refreshing"]
          /\ UNCHANGED <<service_status, outcome>>
       \/ /\ \E status \in Refusing : Fail(m, status, "unauthenticated")
          /\ pc' = [pc EXCEPT ![m] = "returned"]
       \/ Raise(m)
    /\ UNCHANGED <<builded, endpoint, tokens, saving, down, starts>>

\* The token endpoint answers, and auth_tokens are replaced; an error in the
\* answer is raised.
Refresh(m) ==
    /\ pc[m] = "refreshing"
    /\ \/ /\ Issue
          /\ pc' = [pc EXCEPT ![m] = "loading"]
          /\ UNCHANGED <<service_status, outcome>>
       \/ /\ Raise(m)
          /\ UNCHANGED <<endpoint, auth_tokens>>
    /\ UNCHANGED <<builded, data, file, saving, down, starts>>

\* save calls load with the tokens it finds in the field, ...
Load(m) ==
    /\ pc[m] = "loading"
    /\ local' = [local EXCEPT ![m] = auth_tokens]
    /\ pc' = [pc EXCEPT ![m] = "storing"]
    /\ UNCHANGED <<state, endpoint, tokens, again, outcome, down, starts>>

\* ... load looks for the file and stores them, and saves; save saves again.
Store(m) ==
    /\ pc[m] = "storing"
    /\ data' = local[m]
    /\ again' = [again EXCEPT ![m] = TRUE]
    /\ local' = [local EXCEPT ![m] = Nothing]
    /\ pc' = [pc EXCEPT ![m] = "opening"]
    /\ UNCHANGED <<state, endpoint, auth_tokens, file, outcome, down, starts>>

\* open truncates the file; None in place of the descriptor raises
\* AttributeError, ...
Open(m) ==
    /\ pc[m] = "opening"
    /\ \/ /\ file' = Nothing
          /\ pc' = [pc EXCEPT ![m] = "dumping"]
          /\ UNCHANGED <<service_status, again, outcome>>
       \/ /\ Raise(m)
          /\ again' = [again EXCEPT ![m] = FALSE]
          /\ UNCHANGED file
    /\ UNCHANGED <<builded, endpoint, auth_tokens, data, local, down, starts>>

\* ... json.dump fills the buffer with the data of the moment, ...
Dump(m) ==
    /\ pc[m] = "dumping"
    /\ local' = [local EXCEPT ![m] = data]
    /\ pc' = [pc EXCEPT ![m] = "flushing"]
    /\ UNCHANGED <<state, endpoint, tokens, again, outcome, down, starts>>

\* ... and it reaches the file when the descriptor is collected.
Flush(m) ==
    /\ pc[m] = "flushing"
    /\ file' \in Saved(local[m])
    /\ local' = [local EXCEPT ![m] = Nothing]
    /\ again' = [again EXCEPT ![m] = FALSE]
    /\ pc' = [pc EXCEPT ![m] = IF again[m] THEN "opening" ELSE "presenting"]
    /\ UNCHANGED <<state, endpoint, auth_tokens, data, outcome, down, starts>>

\* login, or AUTH XOAUTH2 with the token that was read.
Authenticate(m) ==
    /\ pc[m] = "presenting"
    /\ \/ /\ pc' = [pc EXCEPT ![m] = "authenticated"]
          /\ UNCHANGED <<service_status, outcome>>
       \/ /\ \E status \in Refusing : Fail(m, status, "unauthenticated")
          /\ pc' = [pc EXCEPT ![m] = "returned"]
       \/ Raise(m)
    /\ UNCHANGED <<builded, endpoint, tokens, saving, down, starts>>

\* sendmail; what it answered is returned after logout.
Send(m) ==
    /\ pc[m] = "authenticated"
    /\ \/ /\ outcome' = [outcome EXCEPT ![m] = "sent"]
          /\ pc' = [pc EXCEPT ![m] = "sent"]
          /\ UNCHANGED <<service_status, builded>>
       \/ /\ \/ Fail(m, "WORKS_ALMOST_ATT", "sender refused")
             \/ Fail(m, "NOT_AVAILABLE", "unsupported")
          /\ pc' = [pc EXCEPT ![m] = "sent"]
          /\ UNCHANGED builded
       \/ /\ builded' = FALSE
          /\ pc' = [pc EXCEPT ![m] = "disconnected"]
          /\ UNCHANGED <<service_status, outcome>>
       \/ Raise(m) /\ UNCHANGED builded
    /\ UNCHANGED <<endpoint, tokens, saving, down, starts>>

\* The second assignment of the handler of SMTPServerDisconnected.
MarkTemporary(m) ==
    /\ pc[m] = "disconnected"
    /\ Fail(m, "TEMPORARY_NOT_AVAILABLE", "disconnected")
    /\ pc' = [pc EXCEPT ![m] = "sent"]
    /\ UNCHANGED <<builded, endpoint, tokens, saving, down, starts>>

\* Mutant of Logout: a session that ended well makes the service available.
LogoutRestores(m) ==
    /\ pc[m] = "sent"
    /\ pc' = [pc EXCEPT ![m] = "returned"]
    /\ service_status' = IF outcome[m] = "sent" THEN "AVAILABLE" ELSE service_status
    /\ UNCHANGED <<builded, endpoint, tokens, saving, outcome, down, starts>>

Logout(m) ==
    /\ pc[m] = "sent"
    /\ pc' = [pc EXCEPT ![m] = "returned"]
    /\ UNCHANGED <<state, endpoint, tokens, saving, outcome, down, starts>>

-----------------------------------------------------------------------------
\* An access token runs out, wherever it is kept.
Expire ==
    /\ \E t \in valid : valid' = valid \ {t}
    /\ UNCHANGED <<state, issued, renewable, tokens, pc, saving, outcome, down, starts>>

\* Mutant of Obtainable: tokens that have expired are granted anew.
ObtainableAlways == file \notin valid

\* How a start may come by new tokens: from the refresh token, or from the
\* user, who is asked when the file has none.
Obtainable == file \in renewable \ valid \/ file = Nothing

Up == service_status' = "AVAILABLE" /\ builded' = TRUE
Unbuilt == service_status' = "NOT_AVAILABLE" /\ builded' = FALSE

\* BaseEmailService.build: with a password nothing is loaded; otherwise tokens
\* that are found are saved at once, then taken, renewed or asked for, and the
\* new ones saved.
Build ==
    \/ /\ \/ Up /\ (UsesPassword \/ file \in valid)
          \/ Unbuilt /\ ~UsesPassword /\ file \notin valid   \* no refresh token, an error, or skipped
       /\ auth_tokens' = IF UsesPassword THEN Nothing ELSE file
       /\ data' = auth_tokens'
       /\ file' \in IF UsesPassword THEN {file} ELSE Saved(file)
       /\ UNCHANGED endpoint
    \/ /\ ~UsesPassword
       /\ Obtainable /\ Issue
       /\ data' = issued'
       /\ \/ Up /\ file' \in Saved(issued')
          \/ Unbuilt /\ file # Nothing /\ file' \in Saved(file)   \* open failed

\* The process starts, again if it ran before: what it was doing is gone, a
\* buffer that was not flushed too.
Start ==
    /\ starts < MaxStarts
    /\ starts' = starts + 1
    /\ Build
    /\ pc' = [m \in Messages |-> IF pc[m] = "idle" THEN "idle" ELSE "past"]
    /\ outcome' = [m \in Messages |-> IF pc[m] = "idle" THEN "none" ELSE "past"]
    /\ local' = [m \in Messages |-> Nothing]
    /\ again' = [m \in Messages |-> FALSE]
    /\ down' = [m \in Messages |-> FALSE]

Save(m) == Load(m) \/ Store(m) \/ Open(m) \/ Dump(m) \/ Flush(m)

Step(m) == \/ ReadStatus(m) \/ ReadBuilded(m)
           \/ Connect(m) \/ ReadToken(m) \/ Refresh(m) \/ Save(m) \/ Authenticate(m)
           \/ Send(m) \/ MarkTemporary(m) \/ Logout(m)

Next == (\E m \in Messages : Step(m)) \/ Expire \/ Start

Spec == Init /\ [][Next]_vars
-----------------------------------------------------------------------------
(* Properties                                                              *)

TypeOK ==
    /\ service_status \in Statuses
    /\ builded \in BOOLEAN
    /\ issued \in Tokens
    /\ valid \subseteq 1 .. issued /\ renewable \subseteq 1 .. issued
    /\ {auth_tokens, data, file} \subseteq 0 .. issued
    /\ local \in [Messages -> 0 .. issued]
    /\ again \in [Messages -> BOOLEAN]
    /\ pc \in [Messages -> PcStates]
    /\ outcome \in [Messages -> Outcomes]
    /\ down \in [Messages -> BOOLEAN]
    /\ starts \in 0 .. MaxStarts

\* No message is dropped silently behind a service that still calls itself
\* AVAILABLE: the status tells of every task that returned without sending,
\* however the writes of the threads overtake each other.
SilentLossIsNoticed ==
    (\E m \in Messages : outcome[m] \in Silent) => service_status # "AVAILABLE"

\* A request whose ping began while the service was down is never accepted,
\* although the two fields are read one after the other and written by other
\* threads in between.
DownIsRefused ==
    \A m \in Messages : down[m] => pc[m] \in {"checking", "refused"}

\* A connection that broke while sending leaves the service unbuilt for the
\* rest of the process, in whatever order the handlers write.
DisconnectIsFinal ==
    (\E m \in Messages : pc[m] = "disconnected" \/ outcome[m] = "disconnected") => ~builded

\* Within one life of the process a service that was down answers again only
\* through a sender that was refused: WORKS_ALMOST_ATT overwrites what other
\* threads had written.  No success ever reopens it.
OnlyRefusedSenderReopens ==
    [][IsDown /\ ~IsDown' =>
          \/ starts' # starts
          \/ \E m \in Messages : pc[m] = "authenticated" /\ outcome'[m] = "sender refused"]_vars

\* The tokens somebody may still read, store or write.
Kept == {auth_tokens, data, file} \cup {local[m] : m \in Messages}

\* None of them can be presented or renewed, and no thread still waits for the
\* reply to an earlier refresh.
Dead == /\ ~UsesPassword
        /\ Kept \cap (valid \cup renewable) = {}
        /\ \A m \in Messages : pc[m] # "refreshing"

\* When the tokens in memory, in the file and on their way to it are dead, they
\* stay dead: build() finds an access token in the file, so it refreshes instead
\* of granting anew, and fails.  Only a user who is asked, because a start finds
\* the file empty or torn, revives the service; meanwhile no session gets as far
\* as presenting a token unless it was storing one already.
DeadTokensStayDead ==
    [][Dead =>
          /\ Dead' \/ (starts' # starts /\ file = Nothing)
          /\ starts' # starts /\ file # Nothing => IsDown'
          /\ \A m \in Messages :
                pc'[m] \in Saving \cup {"presenting"} => pc[m] \in Saving \cup {"presenting"}]_vars
=============================================================================
