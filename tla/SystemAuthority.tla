--------------------------- MODULE SystemAuthority --------------------------
(***************************************************************************)
(* Who administers an installation.  SYSTEM_ADMIN is an assignment that    *)
(* counts only while its holder is active and belongs to an active         *)
(* division that grants system authority; every way of taking one of these *)
(* away passes triggers that refuse to remove the last effective           *)
(* administrator, or to make the designated business actor unfit.          *)
(*                                                                         *)
(* The privileged functions take the advisory lock                         *)
(* gwens_system_admin_invariant first and check their actor afterwards, so *)
(* each is one atomic step.  Two differ.  create_customer_division takes   *)
(* no lock, but its new row changes no answer of another function, so it   *)
(* can be placed where it checked its actor.  delete_customer_division     *)
(* checks its actor BEFORE it waits for the lock: those are two steps,     *)
(* DeleteRequested and DeleteDivision, with anything in between.           *)
(*                                                                         *)
(* The routes check their actor as well, some awaits earlier.  A call may  *)
(* therefore name any user as its actor: what counts is the check inside.  *)
(***************************************************************************)
EXTENDS AdminConstants

VARIABLES
    account,    \* public.users joined with public.admin_credentials
    division,   \* public.divisions
    assigned,   \* users with an unrevoked SYSTEM_ADMIN assignment
    designated, \* instance_settings.business_actor_user_id
    deleting    \* deletions past their authority check, waiting for the lock

vars == <<account, division, assigned, designated, deleting>>

\* What a login is: absent, with a temporary password
\* (password_change_required), or with a password of its owner's choosing.
Logins == {"none", "temporary", "chosen"}

Accounts == [exists: BOOLEAN, active: BOOLEAN, division: Divisions \cup {None},
             role: Roles \cup {None}, login: Logins]

NoAccount == [exists |-> FALSE, active |-> FALSE, division |-> None,
              role |-> None, login |-> "none"]

NoDivision == [exists |-> FALSE, active |-> FALSE, grants |-> FALSE]

TypeOK ==
    /\ account \in [Users -> Accounts]
    /\ division \in [Divisions -> [exists: BOOLEAN, active: BOOLEAN, grants: BOOLEAN]]
    /\ assigned \subseteq Users
    /\ designated \in Users \cup {None}
    /\ deleting \subseteq Divisions

-----------------------------------------------------------------------------
(* The predicates the functions and triggers share.                        *)

\* An active division that grants system authority, in the table `div`.
Capable(div, d) == d # None /\ div[d].active /\ div[d].grants

\* is_system_authority_candidate
Candidate(u) == account[u].active /\ Capable(division, account[u].division)

\* is_effective_system_admin
EffectiveAdmin(u) == u \in assigned /\ Candidate(u)

\* _business_actor_state_eligible, of an account that may still be unwritten
Eligible(acc) ==
    /\ acc.active
    /\ acc.division # None /\ division[acc.division].active
    /\ acc.role \in BusinessRoles
    /\ acc.login = "chosen"

\* protect_final_system_admin_user: what becomes of user u leaves somebody who
\* administers.
FinalAdminTrigger(u, acc) ==
    (EffectiveAdmin(u) /\ ~(acc.active /\ Capable(division, acc.division)))
        => \E v \in Users \ {u}: EffectiveAdmin(v)

\* protect_designated_business_actor_user
DesignatedUserTrigger(u, acc) ==
    LET old == account[u]
        moved == \/ acc.active # old.active
                 \/ acc.division # old.division
                 \/ acc.role # old.role
    IN  (moved /\ designated = u) => Eligible(acc)

\* The triggers on public.users without the count of administrators.
UserTriggersUncounted(u, acc) == DesignatedUserTrigger(u, acc)

\* The triggers on public.users, before its row of user u becomes `acc`.
UserTriggers(u, acc) == FinalAdminTrigger(u, acc) /\ DesignatedUserTrigger(u, acc)

\* The capability trigger counting divisions only, not their administrators.
CapabilityTriggerEmpty(d) == \E e \in Divisions \ {d}: Capable(division, e)

\* protect_last_authority_capability_division: the division may stop granting
\* authority, by any of its columns or by its deletion.
CapabilityTrigger(d) ==
    /\ \/ \A u \in assigned: ~(account[u].active /\ account[u].division = d)
       \/ \E v \in assigned: Candidate(v) /\ account[v].division # d
    /\ \E e \in Divisions \ {d}: Capable(division, e)

DesignatedTriggerNever(d) == TRUE

\* protect_designated_business_actor_division
DesignatedTrigger(d) == designated # None => account[designated].division # d

-----------------------------------------------------------------------------
(* Initially the installation has been provisioned: provision_first_owner  *)
(* designates the first administrator as the business actor;               *)
(* bootstrap_first_admin gives another role and designates nobody.         *)

Init ==
    \E first \in Users, d \in Divisions, r \in Roles:
        /\ account = [u \in Users |->
               IF u = first
               THEN [exists |-> TRUE, active |-> TRUE, division |-> d,
                     role |-> r, login |-> "chosen"]
               ELSE NoAccount]
        /\ division = [e \in Divisions |->
               IF e = d THEN [exists |-> TRUE, active |-> TRUE, grants |-> TRUE]
                        ELSE NoDivision]
        /\ assigned = {first}
        /\ designated = IF r \in BusinessRoles THEN first ELSE None
        /\ deleting = {}

-----------------------------------------------------------------------------
(* Users.                                                                  *)

\* register_telegram_identity: an unknown Telegram user becomes an inactive row
\* that waits for its division and role.
Register(u) ==
    /\ ~account[u].exists
    /\ account' = [account EXCEPT ![u] = [NoAccount EXCEPT !.exists = TRUE]]
    /\ UNCHANGED <<division, assigned, designated, deleting>>

\* create_administrator_account, which ends with assign_system_admin when the
\* new account is to be an administrator.
CreateAdministrator(actor, u, d, r, grant) ==
    /\ EffectiveAdmin(actor)
    /\ ~account[u].exists
    /\ division[d].active
    /\ grant => division[d].grants
    /\ account' = [account EXCEPT ![u] =
           [exists |-> TRUE, active |-> TRUE, division |-> d, role |-> r,
            login |-> "temporary"]]
    /\ assigned' = IF grant THEN assigned \cup {u} ELSE assigned
    /\ UNCHANGED <<division, designated, deleting>>

\* grant_admin_login
GrantLogin(actor, u) ==
    /\ EffectiveAdmin(actor)
    /\ account[u].active
    /\ account[u].login = "none"
    /\ account' = [account EXCEPT ![u].login = "temporary"]
    /\ UNCHANGED <<division, assigned, designated, deleting>>

\* change_admin_password clears password_change_required.
ChangePassword(u) ==
    /\ account[u].login = "temporary"
    /\ account' = [account EXCEPT ![u].login = "chosen"]
    /\ UNCHANGED <<division, assigned, designated, deleting>>

\* _apply_managed_user_access: activation, division and role of a user in one
\* row update, with the guards against taking oneself out by accident.
ApplyAccess(actor, u, d, r, active, confirm) ==
    LET acc == [account[u] EXCEPT !.active = active, !.division = d, !.role = r]
    IN  /\ EffectiveAdmin(actor)
        /\ account[u].exists
        /\ d # None => /\ division[d].exists
                       /\ d # account[u].division => division[d].active
        /\ active => d # None /\ r # None
        /\ actor = u => active
        /\ (actor = u /\ EffectiveAdmin(u) /\ ~Capable(division, d)) => confirm
        /\ UserTriggers(u, acc)
        /\ account' = [account EXCEPT ![u] = acc]
        /\ UNCHANGED <<division, assigned, designated, deleting>>

-----------------------------------------------------------------------------
(* Authority.                                                              *)

\* assign_system_admin; a second assignment of the same user is answered with
\* the first.
AssignSystemAdmin(actor, u) ==
    /\ EffectiveAdmin(actor)
    /\ Candidate(u)
    /\ assigned' = assigned \cup {u}
    /\ UNCHANGED <<account, division, designated, deleting>>

\* revoke_system_admin under the trigger protect_final_system_admin.
RevokeSystemAdmin(actor, u) ==
    /\ EffectiveAdmin(actor)
    /\ u \in assigned
    /\ Candidate(u) => \E v \in assigned \ {u}: Candidate(v)
    /\ assigned' = assigned \ {u}
    /\ UNCHANGED <<account, division, designated, deleting>>

\* set_instance_business_actor; its version check is RuntimeSettings'.
SetBusinessActor(actor, u) ==
    /\ EffectiveAdmin(actor)
    /\ Eligible(account[u])
    /\ designated # u
    /\ designated' = u
    /\ UNCHANGED <<account, division, assigned, deleting>>

-----------------------------------------------------------------------------
(* Divisions.                                                              *)

\* create_customer_division: a new division grants nothing.
CreateDivision(actor, d) ==
    /\ EffectiveAdmin(actor)
    /\ ~division[d].exists
    /\ division' = [division EXCEPT ![d] =
           [exists |-> TRUE, active |-> TRUE, grants |-> FALSE]]
    /\ UNCHANGED <<account, assigned, designated, deleting>>

\* set_division_system_authority
SetDivisionAuthority(actor, d, enabled) ==
    /\ EffectiveAdmin(actor)
    /\ division[d].exists
    /\ (Capable(division, d) /\ ~enabled) => CapabilityTrigger(d)
    /\ division' = [division EXCEPT ![d].grants = enabled]
    /\ UNCHANGED <<account, assigned, designated, deleting>>

\* update_customer_division, as far as it is about the active column.
UpdateDivision(actor, d, active) ==
    /\ EffectiveAdmin(actor)
    /\ division[d].exists
    /\ (Capable(division, d) /\ ~active) => CapabilityTrigger(d)
    /\ (division[d].active /\ ~active) => DesignatedTrigger(d)
    /\ division' = [division EXCEPT ![d].active = active]
    /\ UNCHANGED <<account, assigned, designated, deleting>>

\* delete_customer_division up to its lock: the actor is an administrator now.
DeleteRequested(actor, d) ==
    /\ EffectiveAdmin(actor)
    /\ deleting' = deleting \cup {d}
    /\ UNCHANGED <<account, division, assigned, designated>>

\* The rest of delete_customer_division, under the lock.  The other tables
\* that may refer to the division (tasks, rules, integrations, alerts) are
\* `elsewhere`; a deletion that is refused changes nothing.
DeleteDivision(d, elsewhere) ==
    /\ d \in deleting
    /\ deleting' = deleting \ {d}
    /\ division' =
           IF /\ division[d].exists
              /\ ~elsewhere /\ \A u \in Users: account[u].division # d
              /\ Capable(division, d) => CapabilityTrigger(d)
           THEN [division EXCEPT ![d] = NoDivision]
           ELSE division
    /\ UNCHANGED <<account, assigned, designated>>

-----------------------------------------------------------------------------
UserStep ==
    \/ \E u \in Users: Register(u) \/ ChangePassword(u)
    \/ \E a, u \in Users: GrantLogin(a, u)
    \/ \E a, u \in Users, d \in Divisions, r \in Roles, grant \in BOOLEAN:
           CreateAdministrator(a, u, d, r, grant)
    \/ \E a, u \in Users, d \in Divisions \cup {None}, r \in Roles \cup {None},
          active, confirm \in BOOLEAN:
           ApplyAccess(a, u, d, r, active, confirm)

AuthorityStep ==
    \E a, u \in Users:
        \/ AssignSystemAdmin(a, u)
        \/ RevokeSystemAdmin(a, u)
        \/ SetBusinessActor(a, u)

DivisionStep ==
    \/ \E a \in Users, d \in Divisions:
           CreateDivision(a, d) \/ DeleteRequested(a, d)
    \/ \E a \in Users, d \in Divisions, value \in BOOLEAN:
           SetDivisionAuthority(a, d, value) \/ UpdateDivision(a, d, value)
    \/ \E d \in Divisions, elsewhere \in BOOLEAN: DeleteDivision(d, elsewhere)

Next == UserStep \/ AuthorityStep \/ DivisionStep

Spec == Init /\ [][Next]_vars

-----------------------------------------------------------------------------
(* What must hold.                                                         *)

\* However demotions, deactivations, moves and changes of divisions follow
\* one another, somebody can always administer the installation: the triggers
\* of 202609130001 count over three tables.
AdminRemains == \E u \in Users: EffectiveAdmin(u)

\* Whoever is designated as the business actor is fit to act: reports, alerts
\* and settings resolve their actor through this row.
BusinessActorFit == designated # None => Eligible(account[designated])

\* The foreign keys, which the counts above rely on: accounts that exist
\* belong to divisions that exist, and nobody else holds anything.
References ==
    /\ \A u \in Users: account[u].division # None
                          => division[account[u].division].exists
    /\ \A u \in Users: ~account[u].exists => account[u] = NoAccount
    /\ \A u \in assigned: account[u].exists
    /\ designated # None => account[designated].exists
    /\ \A d \in Divisions: ~division[d].exists => division[d] = NoDivision

IndInv == TypeOK /\ References /\ AdminRemains /\ BusinessActorFit
=============================================================================
