----------------------------- MODULE PathTickets -----------------------------
(***************************************************************************)
(* What the WebSocket endpoints promise: behind the door of a path is only *)
(* who has shown a ticket that was given out for this door and was valid   *)
(* when it was shown.  Tickets run out one by one, and closing down sends  *)
(* everybody away and voids them all.                                      *)
(***************************************************************************)

CONSTANTS Guests, Doors,
          Outside   \* where a guest is who is behind no door

VARIABLES valid,    \* the tickets that are valid, each with its door
          inside    \* behind which door each guest is

places == <<valid, inside>>

TicketInit ==
    /\ valid = {}
    /\ inside = [g \in Guests |-> Outside]

\* A ticket is given out.
Grant(d) ==
    /\ valid \subseteq valid'
    /\ \A v, w \in valid' \ valid : v = w /\ v[2] = d
    /\ UNCHANGED inside

\* A ticket runs out.
RunOut(v) ==
    /\ valid' = valid \ {v}
    /\ UNCHANGED inside

\* A guest shows a valid ticket and goes through the door it is for.
Enter(g, v) ==
    /\ inside[g] = Outside
    /\ inside' = [inside EXCEPT ![g] = v[2]]
    /\ UNCHANGED valid

Leave(g) ==
    /\ inside' = [inside EXCEPT ![g] = Outside]
    /\ UNCHANGED valid

CloseDown ==
    /\ valid' = {}
    /\ inside' = [g \in Guests |-> Outside]

TicketNext ==
    \/ \E d \in Doors : Grant(d)
    \/ \E v \in valid : RunOut(v)
    \/ \E g \in Guests : Leave(g) \/ \E v \in valid : Enter(g, v)
    \/ CloseDown

TicketSpec == TicketInit /\ [][TicketNext]_places
=============================================================================
