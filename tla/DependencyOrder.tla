--------------------------- MODULE DependencyOrder ---------------------------
(***************************************************************************)
(* What the container promises about construction: an object exists at     *)
(* most once, is created only when everything it needs exists, and is      *)
(* never taken back.                                                       *)
(***************************************************************************)

VARIABLES needs,       \* name -> the names that must exist before it
          constructed  \* the names that exist

OrderInit == constructed = {}

Construct(x) == /\ x \notin constructed
                /\ needs[x] \subseteq constructed
                /\ constructed' = constructed \cup {x}
                /\ UNCHANGED needs

OrderNext == \E x \in DOMAIN needs : Construct(x)

OrderSpec == OrderInit /\ [][OrderNext]_<<needs, constructed>>
=============================================================================
