--------------------------- MODULE AdminConstants ---------------------------
(***************************************************************************)
(* The constants the modules of the administration share: the people, the  *)
(* divisions they belong to, and the roles they hold.                      *)
(***************************************************************************)
CONSTANTS
    Users,              \* rows public.users may come to hold
    Divisions,          \* rows public.divisions may come to hold
    Roles,              \* the reserved, always active roles
    BusinessRoles,      \* the roles with every permission of a business actor
    None                \* SQL's null

ASSUME AdminAssumption ==
    /\ BusinessRoles \subseteq Roles
    /\ None \notin Users \cup Divisions \cup Roles
=============================================================================
