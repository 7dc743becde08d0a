----------------------- MODULE SystemAuthority_proofs -----------------------
(***************************************************************************)
(* Proofs about the people of an installation: who can administer it       *)
(* (SystemAuthority), for any users, divisions and roles, what             *)
(* administrators make of the others (UserAccess), how chats come to be    *)
(* people (TelegramIdentity), and how an administrator logs in and changes *)
(* the password (AdminSessions), however they overlap.                     *)
(***************************************************************************)
EXTENDS SystemAuthority, UserAccess, TelegramIdentity, AdminSessions, TLAPS, FiniteSetTheorems

\* Changing one account changes no other one.
LEMMA OneAccount ==
    ASSUME TypeOK, NEW u \in Users, NEW acc \in Accounts,
           account' = [account EXCEPT ![u] = acc]
    PROVE  /\ account' \in [Users -> Accounts]
           /\ account'[u] = acc
           /\ \A v \in Users \ {u}: account'[v] = account[v]
BY DEF TypeOK

\* The same for divisions.
LEMMA OneDivision ==
    ASSUME TypeOK, NEW d \in Divisions,
           NEW entry \in [exists: BOOLEAN, active: BOOLEAN, grants: BOOLEAN],
           division' = [division EXCEPT ![d] = entry]
    PROVE  /\ division' \in [Divisions -> [exists: BOOLEAN, active: BOOLEAN, grants: BOOLEAN]]
           /\ division'[d] = entry
           /\ \A e \in Divisions \ {d}: division'[e] = division[e]
BY DEF TypeOK

\* The first administrator satisfies every part of the invariant.
LEMMA InitEstablishes == Init => IndInv
<1> SUFFICES ASSUME Init PROVE IndInv
    OBVIOUS
<1>1. PICK first \in Users, d \in Divisions, r \in Roles:
        /\ account = [u \in Users |->
               IF u = first
               THEN [exists |-> TRUE, active |-> TRUE, division |-> d,
                     role |-> r, login |-> "chosen"]
               ELSE NoAccount]
        /\ division = [e \in Divisions |->
               IF e = d THEN [exists |-> TRUE, active |-> TRUE, grants |-> TRUE]
                        ELSE NoDivision]
        /\ assigned = {first}
        /\ designated = IF r \in BusinessRoles THEN first ELSE None
        /\ deleting = {}
    BY DEF Init
<1>2. None \notin Users /\ None \notin Divisions
    BY AdminAssumption
<1>3. TypeOK
    BY <1>1 DEF TypeOK, Accounts, NoAccount, NoDivision, Logins
<1>4. References
    BY <1>1, <1>2 DEF References, NoAccount, NoDivision
<1>5. AdminRemains
    BY <1>1, <1>2 DEF AdminRemains, EffectiveAdmin, Candidate, Capable
<1>6. BusinessActorFit
    BY <1>1, <1>2 DEF BusinessActorFit, Eligible
<1> QED
    BY <1>3, <1>4, <1>5, <1>6 DEF IndInv

-----------------------------------------------------------------------------
(* What a change of one table needs in order to keep the invariant.        *)

\* One account is written, and its user may be assigned in the same step.
LEMMA AccountChange ==
    ASSUME IndInv, NEW u \in Users, NEW acc \in Accounts,
           account' = [account EXCEPT ![u] = acc],
           assigned \subseteq assigned', assigned' \subseteq assigned \cup {u},
           UNCHANGED <<division, designated, deleting>>,
           acc.exists,
           acc.division # None => division[acc.division].exists,
           EffectiveAdmin(u) =>
               \/ acc.active /\ Capable(division, acc.division)
               \/ \E v \in Users \ {u}: EffectiveAdmin(v),
           designated = u => Eligible(acc)
    PROVE  IndInv'
<1>1. /\ account' \in [Users -> Accounts]
      /\ account'[u] = acc
      /\ \A v \in Users \ {u}: account'[v] = account[v]
    BY OneAccount DEF IndInv
<1>2. TypeOK'
    BY <1>1 DEF IndInv, TypeOK
<1>3. References'
  <2>1. \A v \in Users: account'[v].division # None
                           => division'[account'[v].division].exists
      BY <1>1 DEF IndInv, References
  <2>2. \A v \in Users: ~account'[v].exists => account'[v] = NoAccount
      BY <1>1 DEF IndInv, References
  <2>3. \A v \in assigned': account'[v].exists
      BY <1>1 DEF IndInv, References, TypeOK
  <2>4. designated' # None => account'[designated'].exists
      BY <1>1 DEF IndInv, References, TypeOK
  <2>5. \A d \in Divisions: ~division'[d].exists => division'[d] = NoDivision
      BY DEF IndInv, References
  <2> QED
      BY <2>1, <2>2, <2>3, <2>4, <2>5 DEF References
<1>4. AdminRemains'
  <2>1. PICK w \in Users: EffectiveAdmin(w)
      BY DEF IndInv, AdminRemains
  <2>2. CASE \E v \in Users \ {u}: EffectiveAdmin(v)
    <3>1. PICK v \in Users \ {u}: EffectiveAdmin(v)
        BY <2>2
    <3>2. EffectiveAdmin(v)'
        BY <3>1, <1>1 DEF EffectiveAdmin, Candidate, Capable
    <3> QED
        BY <3>2 DEF AdminRemains
  <2>3. CASE ~\E v \in Users \ {u}: EffectiveAdmin(v)
    <3>1. w = u /\ EffectiveAdmin(u)
        BY <2>1, <2>3
    <3>2. EffectiveAdmin(u)'
        BY <3>1, <2>3, <1>1 DEF EffectiveAdmin, Candidate, Capable
    <3> QED
        BY <3>2 DEF AdminRemains
  <2> QED
      BY <2>2, <2>3
<1>5. BusinessActorFit'
    BY <1>1 DEF IndInv, BusinessActorFit, Eligible, TypeOK
<1> QED
    BY <1>2, <1>3, <1>4, <1>5 DEF IndInv

\* One division is written; what it stops being is covered by the triggers.
LEMMA DivisionChange ==
    ASSUME IndInv, NEW d \in Divisions,
           NEW entry \in [exists: BOOLEAN, active: BOOLEAN, grants: BOOLEAN],
           division' = [division EXCEPT ![d] = entry],
           UNCHANGED <<account, assigned, designated>>,
           deleting' \subseteq Divisions,
           entry.exists \/ entry = NoDivision,
           entry.exists \/ \A u \in Users: account[u].division # d,
           (Capable(division, d) /\ ~(entry.active /\ entry.grants))
               => CapabilityTrigger(d),
           (division[d].active /\ ~entry.active) => DesignatedTrigger(d)
    PROVE  IndInv'
<1>1. /\ division' \in [Divisions -> [exists: BOOLEAN, active: BOOLEAN, grants: BOOLEAN]]
      /\ division'[d] = entry
      /\ \A e \in Divisions \ {d}: division'[e] = division[e]
    BY OneDivision DEF IndInv
<1>2. \A u \in Users: account[u].division \in Divisions \cup {None}
    BY DEF IndInv, TypeOK, Accounts
<1>3. TypeOK'
    BY <1>1 DEF IndInv, TypeOK
<1>4. References'
  <2>1. \A u \in Users: account'[u].division # None
                           => division'[account'[u].division].exists
      BY <1>1, <1>2 DEF IndInv, References
  <2>2. \A u \in Users: ~account'[u].exists => account'[u] = NoAccount
      BY DEF IndInv, References
  <2>3. \A u \in assigned': account'[u].exists
      BY DEF IndInv, References
  <2>4. designated' # None => account'[designated'].exists
      BY DEF IndInv, References
  <2>5. \A e \in Divisions: ~division'[e].exists => division'[e] = NoDivision
      BY <1>1 DEF IndInv, References
  <2> QED
      BY <2>1, <2>2, <2>3, <2>4, <2>5 DEF References
<1>5. AdminRemains'
  <2>1. PICK w \in Users: EffectiveAdmin(w)
      BY DEF IndInv, AdminRemains
  <2>2. \E v \in Users: EffectiveAdmin(v)
                        /\ (account[v].division = d => entry.active /\ entry.grants)
    <3>1. CASE entry.active /\ entry.grants
        BY <2>1, <3>1
    <3>2. CASE ~(entry.active /\ entry.grants) /\ account[w].division # d
        BY <2>1, <3>2
    <3>3. CASE ~(entry.active /\ entry.grants) /\ account[w].division = d
      <4>1. Capable(division, d)
          BY <2>1, <3>3 DEF EffectiveAdmin, Candidate
      <4>2. w \in assigned /\ account[w].active
          BY <2>1 DEF EffectiveAdmin, Candidate
      <4>3. PICK v \in assigned: Candidate(v) /\ account[v].division # d
          BY <4>1, <4>2, <3>3 DEF CapabilityTrigger
      <4>4. v \in Users
          BY <4>3 DEF IndInv, TypeOK
      <4> QED
          BY <4>3, <4>4 DEF EffectiveAdmin
    <3> QED
        BY <3>1, <3>2, <3>3
  <2>3. PICK v \in Users:
          EffectiveAdmin(v) /\ (account[v].division = d => entry.active /\ entry.grants)
      BY <2>2
  <2>4. EffectiveAdmin(v)'
      BY <2>3, <1>1, <1>2 DEF EffectiveAdmin, Candidate, Capable
  <2> QED
      BY <2>4 DEF AdminRemains
<1>6. BusinessActorFit'
  <2> SUFFICES ASSUME designated # None PROVE Eligible(account[designated])'
      BY DEF BusinessActorFit
  <2>1. designated \in Users /\ Eligible(account[designated])
      BY DEF IndInv, TypeOK, BusinessActorFit
  <2>2. CASE account[designated].division = d
    <3>1. division[d].active
        BY <2>1, <2>2 DEF Eligible
    <3>2. entry.active
        BY <2>2, <3>1, <1>1 DEF DesignatedTrigger
    <3> QED
        BY <2>1, <2>2, <3>2, <1>1 DEF Eligible
  <2>3. CASE account[designated].division # d
      BY <2>1, <2>3, <1>1, <1>2 DEF Eligible
  <2> QED
      BY <2>2, <2>3
<1> QED
    BY <1>3, <1>4, <1>5, <1>6 DEF IndInv

-----------------------------------------------------------------------------
(* The actions.                                                            *)

LEMMA RegisterKeeps ==
    ASSUME IndInv, NEW u \in Users, Register(u)
    PROVE  IndInv'
<1> DEFINE acc == [NoAccount EXCEPT !.exists = TRUE]
<1>1. acc \in Accounts /\ acc.exists /\ acc.division = None
    BY DEF Accounts, NoAccount, Logins
<1>2. account[u] = NoAccount /\ ~account[u].exists
    BY DEF Register, IndInv, References
<1>3. ~EffectiveAdmin(u) /\ designated # u
    BY <1>2, AdminAssumption DEF IndInv, References, EffectiveAdmin
<1> HIDE DEF acc
<1> QED
    BY <1>1, <1>3, AccountChange DEF Register, acc

LEMMA CreateKeeps ==
    ASSUME IndInv, NEW a \in Users, NEW u \in Users, NEW d \in Divisions,
           NEW r \in Roles, NEW grant \in BOOLEAN,
           CreateAdministrator(a, u, d, r, grant)
    PROVE  IndInv'
<1> DEFINE acc == [exists |-> TRUE, active |-> TRUE, division |-> d, role |-> r,
                   login |-> "temporary"]
<1>1. acc \in Accounts /\ acc.exists /\ acc.division = d
    BY DEF Accounts, Logins
<1>2. ~EffectiveAdmin(u) /\ designated # u
    BY AdminAssumption DEF CreateAdministrator, IndInv, References, EffectiveAdmin
<1>3. division[d].exists
    BY DEF CreateAdministrator, IndInv, References, NoDivision
<1>4. assigned \subseteq assigned' /\ assigned' \subseteq assigned \cup {u}
    BY DEF CreateAdministrator
<1> HIDE DEF acc
<1> QED
    BY <1>1, <1>2, <1>3, <1>4, AccountChange DEF CreateAdministrator, acc

\* What the two actions on a login write.
LEMMA LoginKeeps ==
    ASSUME IndInv, NEW u \in Users, NEW state \in {"temporary", "chosen"},
           account[u].exists,
           designated = u => state = "chosen",
           account' = [account EXCEPT ![u].login = state],
           UNCHANGED <<division, assigned, designated, deleting>>
    PROVE  IndInv'
<1> DEFINE acc == [account[u] EXCEPT !.login = state]
<1>1. /\ acc \in Accounts /\ acc.exists
      /\ acc.active = account[u].active
      /\ acc.division = account[u].division
      /\ acc.role = account[u].role
      /\ acc.login = state
    BY DEF IndInv, TypeOK, Accounts, Logins
<1>2. account' = [account EXCEPT ![u] = acc]
    OBVIOUS
<1>3. acc.division # None => division[acc.division].exists
    BY <1>1 DEF IndInv, References
<1>4. EffectiveAdmin(u) => acc.active /\ Capable(division, acc.division)
    BY <1>1 DEF EffectiveAdmin, Candidate
<1>5. designated = u => Eligible(acc)
    BY <1>1, AdminAssumption DEF IndInv, BusinessActorFit, Eligible
<1> HIDE DEF acc
<1> QED
    BY <1>1, <1>2, <1>3, <1>4, <1>5, AccountChange

LEMMA GrantLoginKeeps ==
    ASSUME IndInv, NEW a \in Users, NEW u \in Users, GrantLogin(a, u)
    PROVE  IndInv'
<1>1. account[u].exists
    BY DEF GrantLogin, IndInv, References, NoAccount
<1>2. designated # u
    BY AdminAssumption DEF GrantLogin, IndInv, BusinessActorFit, Eligible
<1> QED
    BY <1>1, <1>2, LoginKeeps DEF GrantLogin

LEMMA ChangePasswordKeeps ==
    ASSUME IndInv, NEW u \in Users, ChangePassword(u)
    PROVE  IndInv'
<1>1. account[u].exists
    BY DEF ChangePassword, IndInv, References, NoAccount
<1> QED
    BY <1>1, LoginKeeps DEF ChangePassword

LEMMA ApplyAccessKeeps ==
    ASSUME IndInv, NEW a \in Users, NEW u \in Users,
           NEW d \in Divisions \cup {None}, NEW r \in Roles \cup {None},
           NEW active \in BOOLEAN, NEW confirm \in BOOLEAN,
           ApplyAccess(a, u, d, r, active, confirm)
    PROVE  IndInv'
<1> DEFINE acc == [account[u] EXCEPT !.active = active, !.division = d, !.role = r]
<1>1. /\ acc \in Accounts /\ acc.exists
      /\ acc.active = active /\ acc.division = d /\ acc.role = r
      /\ acc.login = account[u].login
    BY DEF ApplyAccess, IndInv, TypeOK, Accounts
<1>2. d # None => division[d].exists
    BY DEF ApplyAccess
<1>3. UserTriggers(u, acc) /\ account' = [account EXCEPT ![u] = acc]
    BY DEF ApplyAccess
<1>4. EffectiveAdmin(u) => \/ acc.active /\ Capable(division, acc.division)
                           \/ \E v \in Users \ {u}: EffectiveAdmin(v)
    BY <1>3 DEF UserTriggers, FinalAdminTrigger
<1>5. designated = u => Eligible(acc)
    BY <1>1, <1>3, AdminAssumption DEF UserTriggers, DesignatedUserTrigger, IndInv,
       BusinessActorFit, Eligible
<1>6. UNCHANGED <<division, assigned, designated, deleting>>
    BY DEF ApplyAccess
<1> HIDE DEF acc
<1> QED
    BY <1>1, <1>2, <1>3, <1>4, <1>5, <1>6, AccountChange

\* Assignments and the designation change without any other table.
LEMMA AuthorityKeeps ==
    ASSUME IndInv, NEW a \in Users, NEW u \in Users,
           \/ AssignSystemAdmin(a, u)
           \/ RevokeSystemAdmin(a, u)
           \/ SetBusinessActor(a, u)
    PROVE  IndInv'
<1> USE DEF IndInv
<1>1. UNCHANGED <<account, division, deleting>>
    BY DEF AssignSystemAdmin, RevokeSystemAdmin, SetBusinessActor
<1>2. TypeOK'
    BY <1>1 DEF TypeOK, AssignSystemAdmin, RevokeSystemAdmin, SetBusinessActor
<1>3. CASE AssignSystemAdmin(a, u)
  <2>1. account[u].exists
      BY <1>3 DEF AssignSystemAdmin, Candidate, References, NoAccount
  <2>2. References'
      BY <1>1, <1>3, <2>1 DEF AssignSystemAdmin, References
  <2>3. AdminRemains'
      BY <1>1, <1>3 DEF AssignSystemAdmin, AdminRemains, EffectiveAdmin, Candidate
  <2>4. BusinessActorFit'
      BY <1>1, <1>3 DEF AssignSystemAdmin, BusinessActorFit, Eligible
  <2> QED
      BY <1>2, <2>2, <2>3, <2>4
<1>4. CASE RevokeSystemAdmin(a, u)
  <2>1. References'
      BY <1>1, <1>4 DEF RevokeSystemAdmin, References
  <2>2. \E v \in Users \ {u}: EffectiveAdmin(v)
      BY <1>4 DEF RevokeSystemAdmin, AdminRemains, EffectiveAdmin, TypeOK
  <2>3. AdminRemains'
      BY <1>1, <1>4, <2>2 DEF RevokeSystemAdmin, AdminRemains, EffectiveAdmin, Candidate
  <2>4. BusinessActorFit'
      BY <1>1, <1>4 DEF RevokeSystemAdmin, BusinessActorFit, Eligible
  <2> QED
      BY <1>2, <2>1, <2>3, <2>4
<1>5. CASE SetBusinessActor(a, u)
  <2>1. account[u].exists
      BY <1>5 DEF SetBusinessActor, Eligible, References, NoAccount
  <2>2. References'
      BY <1>1, <1>5, <2>1 DEF SetBusinessActor, References
  <2>3. AdminRemains'
      BY <1>1, <1>5 DEF SetBusinessActor, AdminRemains, EffectiveAdmin, Candidate
  <2>4. BusinessActorFit'
      BY <1>1, <1>5 DEF SetBusinessActor, BusinessActorFit, Eligible
  <2> QED
      BY <1>2, <2>2, <2>3, <2>4
<1> QED
    BY <1>3, <1>4, <1>5

LEMMA CreateDivisionKeeps ==
    ASSUME IndInv, NEW a \in Users, NEW d \in Divisions, CreateDivision(a, d)
    PROVE  IndInv'
<1> DEFINE entry == [exists |-> TRUE, active |-> TRUE, grants |-> FALSE]
<1>1. entry \in [exists: BOOLEAN, active: BOOLEAN, grants: BOOLEAN]
      /\ entry.exists /\ entry.active
    OBVIOUS
<1>2. ~Capable(division, d)
    BY DEF CreateDivision, IndInv, References, NoDivision, Capable
<1>3. deleting' \subseteq Divisions
    BY DEF CreateDivision, IndInv, TypeOK
<1> HIDE DEF entry
<1> QED
    BY <1>1, <1>2, <1>3, DivisionChange DEF CreateDivision, entry

LEMMA SetDivisionAuthorityKeeps ==
    ASSUME IndInv, NEW a \in Users, NEW d \in Divisions, NEW granted \in BOOLEAN,
           SetDivisionAuthority(a, d, granted)
    PROVE  IndInv'
<1> DEFINE entry == [division[d] EXCEPT !.grants = granted]
<1>1. /\ entry \in [exists: BOOLEAN, active: BOOLEAN, grants: BOOLEAN]
      /\ entry.exists /\ entry.active = division[d].active /\ entry.grants = granted
    BY DEF SetDivisionAuthority, IndInv, TypeOK
<1>2. division' = [division EXCEPT ![d] = entry]
    BY DEF SetDivisionAuthority
<1>3. (Capable(division, d) /\ ~(entry.active /\ entry.grants)) => CapabilityTrigger(d)
    BY <1>1 DEF SetDivisionAuthority, Capable
<1>4. UNCHANGED <<account, assigned, designated>> /\ deleting' \subseteq Divisions
    BY DEF SetDivisionAuthority, IndInv, TypeOK
<1> HIDE DEF entry
<1> QED
    BY <1>1, <1>2, <1>3, <1>4, DivisionChange

LEMMA UpdateDivisionKeeps ==
    ASSUME IndInv, NEW a \in Users, NEW d \in Divisions, NEW active \in BOOLEAN,
           UpdateDivision(a, d, active)
    PROVE  IndInv'
<1> DEFINE entry == [division[d] EXCEPT !.active = active]
<1>1. /\ entry \in [exists: BOOLEAN, active: BOOLEAN, grants: BOOLEAN]
      /\ entry.exists /\ entry.active = active /\ entry.grants = division[d].grants
    BY DEF UpdateDivision, IndInv, TypeOK
<1>2. division' = [division EXCEPT ![d] = entry]
    BY DEF UpdateDivision
<1>3. (Capable(division, d) /\ ~(entry.active /\ entry.grants)) => CapabilityTrigger(d)
    BY <1>1 DEF UpdateDivision, Capable
<1>4. (division[d].active /\ ~entry.active) => DesignatedTrigger(d)
    BY <1>1 DEF UpdateDivision
<1>5. UNCHANGED <<account, assigned, designated>> /\ deleting' \subseteq Divisions
    BY DEF UpdateDivision, IndInv, TypeOK
<1> HIDE DEF entry
<1> QED
    BY <1>1, <1>2, <1>3, <1>4, <1>5, DivisionChange

\* A deletion that nothing refuses leaves no account in the division, so the
\* designated business actor is not in it either.
LEMMA DeleteDivisionKeeps ==
    ASSUME IndInv, NEW d \in Divisions, NEW elsewhere \in BOOLEAN,
           DeleteDivision(d, elsewhere)
    PROVE  IndInv'
<1>1. UNCHANGED <<account, assigned, designated>> /\ deleting' \subseteq Divisions
    BY DEF DeleteDivision, IndInv, TypeOK
<1>2. CASE /\ division[d].exists
           /\ ~elsewhere /\ \A u \in Users: account[u].division # d
           /\ Capable(division, d) => CapabilityTrigger(d)
  <2>1. division' = [division EXCEPT ![d] = NoDivision]
      BY <1>2 DEF DeleteDivision
  <2>2. NoDivision \in [exists: BOOLEAN, active: BOOLEAN, grants: BOOLEAN]
      BY DEF NoDivision
  <2>3. DesignatedTrigger(d)
      BY <1>2 DEF DesignatedTrigger, IndInv, TypeOK
  <2> QED
      BY <1>1, <1>2, <2>1, <2>2, <2>3, DivisionChange
<1>3. CASE UNCHANGED division
    BY <1>1, <1>3 DEF IndInv, TypeOK, References, AdminRemains, BusinessActorFit,
       EffectiveAdmin, Candidate, Eligible
<1> QED
    BY <1>2, <1>3 DEF DeleteDivision

\* Steps that change none of the tables.
LEMMA OthersKeep ==
    ASSUME IndInv, UNCHANGED <<account, division, assigned, designated>>,
           deleting' \subseteq Divisions
    PROVE  IndInv'
BY DEF IndInv, TypeOK, References, AdminRemains, BusinessActorFit,
   EffectiveAdmin, Candidate, Eligible

LEMMA StepKeeps == IndInv /\ [Next]_vars => IndInv'
<1> SUFFICES ASSUME IndInv, [Next]_vars PROVE IndInv'
    OBVIOUS
<1>1. CASE UserStep
  <2>1. CASE \E u \in Users: Register(u) \/ ChangePassword(u)
      BY <2>1, RegisterKeeps, ChangePasswordKeeps
  <2>2. CASE \E a, u \in Users: GrantLogin(a, u)
      BY <2>2, GrantLoginKeeps
  <2>3. CASE \E a, u \in Users, d \in Divisions, r \in Roles, grant \in BOOLEAN:
                 CreateAdministrator(a, u, d, r, grant)
      BY <2>3, CreateKeeps
  <2>4. CASE \E a, u \in Users, d \in Divisions \cup {None},
                r \in Roles \cup {None}, active, confirm \in BOOLEAN:
                 ApplyAccess(a, u, d, r, active, confirm)
      BY <2>4, ApplyAccessKeeps
  <2> QED
      BY <1>1, <2>1, <2>2, <2>3, <2>4 DEF UserStep
<1>2. CASE AuthorityStep
    BY <1>2, AuthorityKeeps DEF AuthorityStep
<1>3. CASE DivisionStep
  <2>1. ASSUME NEW a \in Users, NEW d \in Divisions, DeleteRequested(a, d)
        PROVE  IndInv'
      BY <2>1, OthersKeep DEF DeleteRequested, IndInv, TypeOK
  <2> QED
      BY <1>3, <2>1, CreateDivisionKeeps, SetDivisionAuthorityKeeps,
         UpdateDivisionKeeps, DeleteDivisionKeeps DEF DivisionStep
<1>4. CASE UNCHANGED vars
    BY <1>4, OthersKeep DEF vars, IndInv, TypeOK
<1> QED
    BY <1>1, <1>2, <1>3, <1>4 DEF Next

-----------------------------------------------------------------------------
(* The theorems.                                                           *)

\* The inductive invariant of accounts, assignments, divisions and the
\* designation, over everything the administration functions can do.
THEOREM Invariance == Spec => []IndInv
<1>1. Init => IndInv
    BY InitEstablishes
<1>2. IndInv /\ [Next]_vars => IndInv'
    BY StepKeeps
<1> QED
    BY <1>1, <1>2, PTL DEF Spec

\* Every table only ever holds rows of its type.
THEOREM TypeCorrect == Spec => []TypeOK
<1>1. IndInv => TypeOK
    BY DEF IndInv
<1> QED
    BY <1>1, Invariance, PTL

\* There is always an effective administrator, whatever the triggers of
\* 202609130001 were asked to let through.
THEOREM AlwaysAnAdmin == Spec => []AdminRemains
<1>1. IndInv => AdminRemains
    BY DEF IndInv
<1> QED
    BY <1>1, Invariance, PTL

\* A designated business actor is always eligible to act (202609150001).
THEOREM AlwaysFit == Spec => []BusinessActorFit
<1>1. IndInv => BusinessActorFit
    BY DEF IndInv
<1> QED
    BY <1>1, Invariance, PTL

-----------------------------------------------------------------------------
(* People as administrators edit them.                                     *)

\* A step that moves one call and writes nothing.
LEMMA CallMoves ==
    ASSUME AccessIndInv, NEW c \in Desks, NEW e \in AccessCalls \cup CodeCalls \cup {Nothing},
           edit' = [edit EXCEPT ![c] = e],
           c = Chat /\ e # Nothing /\ e.kind = "code" => e.user = typed.user /\ e.code \in typed.codes,
           UNCHANGED <<row, offered, entitled, dialog, inOrder, typed>>,
           edits' \in 0..MaxEdits, shifts' \in 0..MaxShifts
    PROVE  AccessIndInv'
<1>1. /\ edit' \in [Desks -> AccessCalls \cup CodeCalls \cup {Nothing}]
      /\ edit'[c] = e /\ \A b \in Desks \ {c}: edit'[b] = edit[b]
    BY DEF AccessIndInv, AccessInv, AccessTypeOK
<1>2. AccessTypeOK'
    BY <1>1 DEF AccessIndInv, AccessInv, AccessTypeOK
<1>3. Chat \in Desks
    BY AccessAssumption
<1>4. (~AtRest(Chat) /\ edit[Chat].kind = "code" =>
          edit[Chat].user = typed.user /\ edit[Chat].code \in typed.codes)'
    BY <1>1, <1>3 DEF AccessIndInv, AccessInv, AtRest
<1> QED
    BY <1>2, <1>4 DEF AccessIndInv, AccessInv, DialogTyped

\* A step of the conversation, or around it, that leaves the rows and the calls alone.
LEMMA DialogMoves ==
    ASSUME AccessIndInv, DialogTyped', dialog' \in Dialogs \cup {Nothing},
           UNCHANGED <<row, edit, edits, inOrder>>,
           offered' \subseteq Departments, entitled' \in BOOLEAN, shifts' \in 0..MaxShifts,
           \/ AtRest(Chat)
           \/ typed'.user = typed.user /\ typed.codes \subseteq typed'.codes
    PROVE  AccessIndInv'
BY DEF AccessIndInv, AccessInv, AccessTypeOK, AtRest

\* An update that is granted keeps what is said of every person.
LEMMA AccessUpdated == ASSUME AccessIndInv, NEW c \in Desks, updateAccess(c) PROVE AccessIndInv'
<1>1. /\ edit[c] \in AccessCalls
      /\ edit' = [edit EXCEPT ![c] = Nothing]
      /\ UNCHANGED <<offered, entitled, dialog, edits, shifts, typed>>
    BY DEF updateAccess, AtRest, AccessIndInv, AccessInv, AccessTypeOK, AccessCalls, CodeCalls
<1>2. CASE UNCHANGED <<row, inOrder>>
    BY <1>1, <1>2, CallMoves DEF AccessIndInv, AccessInv, AccessTypeOK
<1>3. CASE Granted(c)
    <2>1. PICK u \in Staff, want \in Wants: u = edit[c].user /\ want = edit[c].want
        BY <1>1 DEF AccessCalls, Wants
    <2>2. Acceptable(u, want)
        BY <1>3, <2>1 DEF Granted
    <2>3. /\ row' = [row EXCEPT ![u] = [division |-> want.division, role |-> want.role,
                                        active |-> want.active, code |-> row[u].code]]
          /\ inOrder' = inOrder
        BY <1>3, <2>1, <2>2 DEF updateAccess, Acceptable
    <2>4. row \in [Staff -> UserRows]
        BY DEF AccessIndInv, AccessInv, AccessTypeOK
    <2>5. PICK r \in UserRows:
              /\ r = [division |-> want.division, role |-> want.role,
                      active |-> want.active, code |-> row[u].code]
              /\ r.active => r.division # Nothing /\ r.role
              /\ r.code = row[u].code
        <3> DEFINE s == [division |-> want.division, role |-> want.role,
                         active |-> want.active, code |-> row[u].code]
        <3>1. row[u].code \in Codes \cup {Nothing}
            BY <2>4 DEF UserRows
        <3>2. /\ want.division \in Departments \cup {Nothing}
              /\ want.role \in BOOLEAN /\ want.active \in BOOLEAN
            BY DEF Wants
        <3>3. s \in UserRows
            BY <3>1, <3>2 DEF UserRows
        <3>4. s.active => s.division # Nothing /\ s.role
            BY <2>2 DEF Acceptable
        <3> QED
            BY <3>3, <3>4
    <2>6. /\ row' \in [Staff -> UserRows] /\ row'[u] = r
          /\ \A v \in Staff \ {u}: row'[v] = row[v]
        BY <2>3, <2>4, <2>5
    <2>7. \A v \in Staff: row'[v].code = row[v].code
        BY <2>5, <2>6
    <2>8. \A v \in Staff: row'[v].active => row'[v].division # Nothing /\ row'[v].role
        BY <2>5, <2>6 DEF AccessIndInv, AccessInv
    <2>9. \A v, w \in Staff: row'[v].code = row'[w].code => v = w \/ row'[v].code = Nothing
        BY <2>7 DEF AccessIndInv, AccessInv
    <2>10. /\ edit' \in [Desks -> AccessCalls \cup CodeCalls \cup {Nothing}]
           /\ edit'[c] = Nothing /\ \A b \in Desks \ {c}: edit'[b] = edit[b]
        BY <1>1 DEF AccessIndInv, AccessInv, AccessTypeOK
    <2>11. AccessTypeOK'
        BY <1>1, <2>6, <2>10 DEF AccessIndInv, AccessInv, AccessTypeOK
    <2>12. (~AtRest(Chat) /\ edit[Chat].kind = "code" =>
              edit[Chat].user = typed.user /\ edit[Chat].code \in typed.codes)'
        BY <1>1, <2>10, AccessAssumption DEF AccessIndInv, AccessInv, AtRest
    <2> QED
        BY <1>1, <2>3, <2>8, <2>9, <2>11, <2>12 DEF AccessIndInv, AccessInv, DialogTyped
<1> QED
    BY <1>2, <1>3 DEF updateAccess

\* A code that is saved belonged to nobody else, and ends the conversation it came from.
LEMMA CodeUpdated == ASSUME AccessIndInv, NEW c \in Desks, updateCode(c) PROVE AccessIndInv'
<1>1. /\ edit[c] \in CodeCalls
      /\ edit' = [edit EXCEPT ![c] = Nothing]
      /\ UNCHANGED <<offered, entitled, edits, shifts, inOrder, typed>>
    BY DEF updateCode, AtRest, AccessIndInv, AccessInv, AccessTypeOK, AccessCalls, CodeCalls
<1>2. CASE UNCHANGED <<row, dialog>>
    BY <1>1, <1>2, CallMoves DEF AccessIndInv, AccessInv, AccessTypeOK
<1>3. CASE /\ entitled /\ Confirmed(c) /\ ~CodeTaken(edit[c].user, edit[c].code)
           /\ row' = [row EXCEPT ![edit[c].user].code = edit[c].code]
           /\ dialog' = IF c = Chat THEN Nothing ELSE dialog
    <2>1. PICK u \in Staff, code \in Codes \cup {Nothing}: u = edit[c].user /\ code = edit[c].code
        BY <1>1 DEF CodeCalls
    <2>2. row \in [Staff -> UserRows]
        BY DEF AccessIndInv, AccessInv, AccessTypeOK
    <2>3. row' = [row EXCEPT ![u] = [row[u] EXCEPT !.code = code]]
        BY <1>3, <2>1, <2>2
    <2>4. PICK r \in UserRows:
              /\ r = [row[u] EXCEPT !.code = code]
              /\ r.active = row[u].active /\ r.division = row[u].division /\ r.role = row[u].role
              /\ r.code = code
        <3>1. row[u] \in UserRows
            BY <2>2
        <3>2. [row[u] EXCEPT !.code = code] \in UserRows
            BY <3>1 DEF UserRows
        <3> QED
            BY <3>1, <3>2 DEF UserRows
    <2>5. /\ row' \in [Staff -> UserRows] /\ row'[u] = r
          /\ \A v \in Staff \ {u}: row'[v] = row[v]
        BY <2>2, <2>3, <2>4
    <2>6. \A v \in Staff: row'[v].active => row'[v].division # Nothing /\ row'[v].role
        <3>1. \A v \in Staff: row[v].active => row[v].division # Nothing /\ row[v].role
            BY DEF AccessIndInv, AccessInv
        <3>2. row'[u].active => row'[u].division # Nothing /\ row'[u].role
            BY <2>4, <2>5, <3>1
        <3> QED
            BY <2>5, <3>1, <3>2
    <2>7. code = Nothing \/ \A v \in Staff \ {u}: row[v].code # code
        BY <1>3, <2>1 DEF CodeTaken
    <2>8. \A v, w \in Staff: row'[v].code = row'[w].code => v = w \/ row'[v].code = Nothing
        <3>1. \A v, w \in Staff: row[v].code = row[w].code => v = w \/ row[v].code = Nothing
            BY DEF AccessIndInv, AccessInv
        <3>2. row'[u].code = code /\ \A v \in Staff \ {u}: row'[v].code = row[v].code
            BY <2>4, <2>5
        <3> QED
            BY <2>7, <3>1, <3>2
    <2>9. /\ edit' \in [Desks -> AccessCalls \cup CodeCalls \cup {Nothing}]
          /\ edit'[c] = Nothing /\ \A b \in Desks \ {c}: edit'[b] = edit[b]
        BY <1>1 DEF AccessIndInv, AccessInv, AccessTypeOK
    <2>10. AccessTypeOK'
        BY <1>1, <1>3, <2>5, <2>9 DEF AccessIndInv, AccessInv, AccessTypeOK
    <2>11. (~AtRest(Chat) /\ edit[Chat].kind = "code" =>
              edit[Chat].user = typed.user /\ edit[Chat].code \in typed.codes)'
        BY <1>1, <2>9, AccessAssumption DEF AccessIndInv, AccessInv, AtRest
    <2>12. DialogTyped'
        BY <1>1, <1>3 DEF AccessIndInv, DialogTyped
    <2> QED
        BY <1>1, <2>6, <2>8, <2>10, <2>11, <2>12 DEF AccessIndInv, AccessInv
<1> QED
    BY <1>2, <1>3 DEF updateCode

\* Asking for an edit, and checking it.
LEMMA EditKeeps == ASSUME AccessIndInv, NEW c \in Desks, Edit(c) \/ DeskFails(c) PROVE AccessIndInv'
<1> USE DEF AccessIndInv, AccessInv, AccessTypeOK
<1>1. ASSUME NEW u \in Staff, NEW want \in Wants, AskAccess(c, u, want) PROVE AccessIndInv'
    <2>1. [kind |-> "access", user |-> u, checked |-> FALSE, want |-> want] \in AccessCalls
        BY DEF AccessCalls
    <2>2. edits' \in 0..MaxEdits
        BY <1>1, AccessAssumption DEF AskAccess, MayBegin, Asks
    <2> QED
        BY <1>1, <2>1, <2>2, CallMoves DEF AskAccess, Asks
<1>2. ASSUME NEW u \in Staff, NEW code \in Codes \cup {Nothing}, NEW confirm \in BOOLEAN,
             AskCode(c, u, code, confirm)
      PROVE  AccessIndInv'
    <2>1. [kind |-> "code", user |-> u, code |-> code, confirm |-> confirm, checked |-> FALSE]
             \in CodeCalls
        BY DEF CodeCalls
    <2>2. edits' \in 0..MaxEdits
        BY <1>2, AccessAssumption DEF AskCode, MayBegin, Asks
    <2> QED
        BY <1>2, <2>1, <2>2, CallMoves DEF AskCode, Asks
<1>3. CASE checkAccess(c)
    <2>1. edit[c] \in AccessCalls
        BY <1>3 DEF checkAccess, AtRest, CodeCalls
    <2>2. PICK e \in AccessCalls \cup {Nothing}: edit' = [edit EXCEPT ![c] = e]
        BY <1>3, <2>1 DEF checkAccess, AccessCalls
    <2>3. e # Nothing => e.kind = "access"
        BY DEF AccessCalls
    <2> QED
        BY <1>3, <2>2, <2>3, CallMoves DEF checkAccess
<1>4. CASE checkCode(c)
    <2>1. edit[c] \in CodeCalls
        BY <1>4 DEF checkCode, AtRest, AccessCalls
    <2>2. PICK e \in CodeCalls \cup {Nothing}:
              /\ edit' = [edit EXCEPT ![c] = e]
              /\ e # Nothing => e.user = edit[c].user /\ e.code = edit[c].code
        <3>1. [edit[c] EXCEPT !.checked = TRUE] \in CodeCalls
            BY <2>1 DEF CodeCalls
        <3>2. /\ [edit[c] EXCEPT !.checked = TRUE].user = edit[c].user
              /\ [edit[c] EXCEPT !.checked = TRUE].code = edit[c].code
            BY <2>1 DEF CodeCalls
        <3> QED
            BY <1>4, <3>1, <3>2 DEF checkCode
    <2>3. c = Chat => edit[c].user = typed.user /\ edit[c].code \in typed.codes
        BY <1>4 DEF checkCode, AtRest
    <2> QED
        BY <1>4, <2>2, <2>3, CallMoves DEF checkCode
<1>5. CASE DeskFails(c)
    <2>1. shifts' \in 0..MaxShifts
        BY <1>5, AccessAssumption DEF DeskFails, Shifts
    <2> QED
        BY <1>5, <2>1, CallMoves DEF DeskFails
<1> QED
    BY <1>1, <1>2, <1>3, <1>4, <1>5, AccessUpdated, CodeUpdated DEF Edit

\* The conversation: what it holds was typed since it asked.
LEMMA ConversationKeeps == ASSUME AccessIndInv, Converses PROVE AccessIndInv'
<1> USE DEF AccessIndInv, AccessInv, AccessTypeOK
<1>1. ASSUME NEW u \in Staff, beginBusinessCode(u) PROVE AccessIndInv'
    <2>1. dialog' \in Dialogs /\ DialogTyped'
        BY <1>1 DEF beginBusinessCode, Dialogs, DialogTyped
    <2> QED
        BY <1>1, <2>1, DialogMoves DEF beginBusinessCode
<1>2. ASSUME NEW u \in Staff, confirmBusinessCode(u) PROVE AccessIndInv'
    <2>1. CASE Confirmable(u)
        <3> DEFINE request == [kind |-> "code", user |-> u, code |-> dialog.code,
                               confirm |-> TRUE, checked |-> FALSE]
        <3>1. dialog.code \in typed.codes /\ dialog.user = u /\ typed.user = u
            BY <2>1 DEF Confirmable, DialogTyped
        <3>2. dialog.code \in Codes \cup {Nothing}
            BY <3>1 DEF DialogTyped
        <3>3. request \in CodeCalls /\ request.user = u /\ request.code = dialog.code
            BY <3>2 DEF CodeCalls
        <3>4. edits' \in 0..MaxEdits /\ edit' = [edit EXCEPT ![Chat] = request]
            BY <1>2, <2>1, AccessAssumption DEF confirmBusinessCode, MayBegin, Asks
        <3>5. UNCHANGED <<row, offered, entitled, dialog, shifts, inOrder, typed>>
            BY <1>2, <2>1 DEF confirmBusinessCode
        <3> HIDE DEF request
        <3> QED
            BY <3>1, <3>3, <3>4, <3>5, CallMoves, AccessAssumption
    <2>2. CASE ~Confirmable(u)
        <3>1. dialog' = Nothing /\ DialogTyped'
            BY <1>2, <2>2 DEF confirmBusinessCode, DialogTyped
        <3> QED
            BY <1>2, <2>2, <3>1, DialogMoves DEF confirmBusinessCode
    <2> QED
        BY <2>1, <2>2
<1>3. ASSUME NEW code \in Codes \cup {Nothing}, handleText(code) PROVE AccessIndInv'
    <2>1. CASE entitled /\ dialog.fresh
        <3>1. dialog' = [dialog EXCEPT !.code = code] /\ dialog \in Dialogs
            BY <1>3, <2>1 DEF handleText
        <3>2. dialog' \in Dialogs /\ dialog'.user = dialog.user /\ dialog'.code = code
            BY <3>1 DEF Dialogs
        <3>3. /\ typed' \in [user: Staff \cup {Nothing}, codes: SUBSET (Codes \cup {Nothing})]
              /\ typed'.user = typed.user /\ typed'.codes = typed.codes \cup {code}
            BY <1>3, <2>1 DEF handleText, DialogTyped
        <3>4. DialogTyped'
            BY <1>3, <3>2, <3>3 DEF handleText, DialogTyped
        <3> QED
            BY <1>3, <3>2, <3>4, DialogMoves DEF handleText
    <2>2. CASE ~(entitled /\ dialog.fresh)
        <3>1. dialog' = Nothing /\ DialogTyped'
            BY <1>3, <2>2 DEF handleText, DialogTyped
        <3> QED
            BY <1>3, <3>1, DialogMoves DEF handleText
    <2> QED
        BY <2>1, <2>2
<1>4. CASE cancelText
    <2>1. dialog' = Nothing /\ DialogTyped'
        BY <1>4 DEF cancelText, DialogTyped
    <2> QED
        BY <1>4, <2>1, DialogMoves DEF cancelText
<1> QED
    BY <1>1, <1>2, <1>3, <1>4 DEF Converses

LEMMA AccessKeeps == ASSUME AccessIndInv, [AccessNext]_accessVars PROVE AccessIndInv'
<1>1. CASE UNCHANGED accessVars
    BY <1>1 DEF accessVars, AccessIndInv, AccessInv, AccessTypeOK, DialogTyped, AtRest
<1>2. ASSUME NEW d \in Departments, DivisionToggled(d) PROVE AccessIndInv'
    <2>1. offered' \subseteq Departments /\ shifts' \in 0..MaxShifts
        BY <1>2, AccessAssumption DEF DivisionToggled, Shifts, AccessIndInv, AccessInv, AccessTypeOK
    <2>2. DialogTyped'
        BY <1>2 DEF DivisionToggled, AccessIndInv, DialogTyped
    <2> QED
        BY <1>2, <2>1, <2>2, DialogMoves DEF DivisionToggled, AccessIndInv, AccessInv, AccessTypeOK
<1>3. CASE DialogExpires
    <2>1. dialog' = [dialog EXCEPT !.fresh = FALSE] /\ dialog \in Dialogs
        BY <1>3 DEF DialogExpires, AccessIndInv, AccessInv, AccessTypeOK
    <2>2. dialog' \in Dialogs /\ dialog'.user = dialog.user /\ dialog'.code = dialog.code
        BY <2>1 DEF Dialogs
    <2>3. DialogTyped'
        BY <1>3, <2>2 DEF DialogExpires, AccessIndInv, DialogTyped
    <2> QED
        BY <1>3, <2>2, <2>3, DialogMoves DEF DialogExpires, AccessIndInv, AccessInv, AccessTypeOK
<1>4. CASE AuthorityChanges
    <2>1. entitled' \in BOOLEAN /\ shifts' \in 0..MaxShifts
        BY <1>4, AccessAssumption DEF AuthorityChanges, Shifts, AccessIndInv, AccessInv, AccessTypeOK
    <2>2. DialogTyped'
        BY <1>4 DEF AuthorityChanges, AccessIndInv, DialogTyped
    <2> QED
        BY <1>4, <2>1, <2>2, DialogMoves DEF AuthorityChanges, AccessIndInv, AccessInv, AccessTypeOK
<1>5. CASE BotRestarts
    <2>1. shifts' \in 0..MaxShifts
        BY <1>5, AccessAssumption DEF BotRestarts, Shifts, AccessIndInv, AccessInv, AccessTypeOK
    <2>2. DialogTyped'
        BY <1>5 DEF BotRestarts, AccessIndInv, DialogTyped
    <2> QED
        BY <1>5, <2>1, <2>2, AccessAssumption
        DEF BotRestarts, AccessIndInv, AccessInv, AccessTypeOK, AtRest
<1> QED
    BY <1>1, <1>2, <1>3, <1>4, <1>5, EditKeeps, ConversationKeeps DEF AccessNext

\* At every moment the invariant behind the edits of people holds: what a conversation
\* of the console holds was typed for the person it asked about.
THEOREM AccessInvariance == AccessSpec => []AccessIndInv
<1>1. AccessInit => AccessIndInv
    BY AccessAssumption DEF AccessInit, AccessIndInv, AccessInv, AccessTypeOK, DialogTyped, AtRest,
       Newcomer, UserRows
<1> QED
    BY <1>1, AccessKeeps, PTL DEF AccessSpec

\* However edits overlap with changes of rights and divisions: whoever is active has a
\* division and a role, nobody gets a closed division, codes are unique, and the bot saves
\* a code for the person it was typed for.
THEOREM EditsSafe == AccessSpec => []AccessInv
<1>1. AccessIndInv => AccessInv
    BY DEF AccessIndInv
<1> QED
    BY <1>1, AccessInvariance, PTL

-----------------------------------------------------------------------------
(* Chats that become people.                                               *)

\* A step that leaves people, legacy rows and channels alone.
LEMMA PeopleRest ==
    ASSUME IdentityIndInv, UNCHANGED <<person, legacy, channel>>
    PROVE  (\A c \in Chats: Agrees(c)') /\ PeopleKnown'
BY DEF IdentityIndInv, Agrees, PeopleKnown, Absent

\* Tickets keep what they connected, new ones have connected nothing, and a chat keeps
\* the account it belongs to.
LEMMA TicketsKept ==
    ASSUME IdentityIndInv,
           \A t \in Tickets: ~Absent(ticket, t) =>
               /\ ~Absent(ticket, t)' /\ ticket'[t].user = ticket[t].user
               /\ ticket'[t].opened = ticket[t].opened,
           \A t \in Tickets: Absent(ticket, t) /\ ~Absent(ticket, t)' => ticket'[t].opened = {},
           \A c \in Chats: ~Absent(channel, c) =>
               ~Absent(channel, c)' /\ channel'[c].user = channel[c].user
    PROVE  TicketsTrue' /\ \A c \in Chats: Paired(c) => Paired(c)'
<1>1. \A t \in Tickets: ~Absent(ticket, t) => ticket[t].opened \subseteq Chats
    BY DEF IdentityIndInv, IdentityTypeOK, TicketRows, Absent
<1>2. TicketsTrue'
    <2> SUFFICES ASSUME NEW t \in Tickets, ~Absent(ticket, t)'
                 PROVE  /\ \A c \in ticket'[t].opened: ~Absent(channel, c)' /\ channel'[c].user = ticket'[t].user
                        /\ \A c, d \in ticket'[t].opened: c = d
        BY DEF TicketsTrue
    <2>1. CASE Absent(ticket, t)
        BY <2>1
    <2>2. CASE ~Absent(ticket, t)
        BY <1>1, <2>2 DEF IdentityIndInv, TicketsTrue
    <2> QED
        BY <2>1, <2>2
<1>3. \A c \in Chats: Paired(c) => Paired(c)'
    BY DEF Paired
<1> QED
    BY <1>2, <1>3

\* What was said stays true while pairings last.
LEMMA AnswersKept ==
    ASSUME IdentityIndInv, UNCHANGED <<start, told>>,
           \A t \in Tickets: ~Absent(ticket, t) => ~Absent(ticket, t)',
           \A c \in Chats: Paired(c) => Paired(c)'
    PROVE  AnswersPaired'
<1>1. start # Nobody => start.chat \in Chats
    BY DEF IdentityIndInv, IdentityTypeOK, Starts
<1>2. told \subseteq Chats
    <2>1. \A c: Paired(c) => c \in Chats
        BY DEF Paired, Absent, IdentityIndInv, IdentityTypeOK, TicketRows
    <2> QED
        BY <2>1 DEF IdentityIndInv, AnswersPaired
<1> QED
    BY <1>1, <1>2 DEF IdentityIndInv, AnswersPaired

\* Asking for a pairing, in its three steps, and the time that passes.
LEMMA AskingKeeps ==
    ASSUME IdentityIndInv, NEW p \in Pages,
           \/ \E u \in Invited: createPairing(p, u)
           \/ DeleteTickets(p)
           \/ \E t \in Tickets: InsertTicket(p, t)
    PROVE  IdentityIndInv'
<1>1. UNCHANGED <<person, legacy, channel, start, told, mishaps>>
    BY DEF createPairing, DeleteTickets, InsertTicket
<1>2. ASSUME NEW u \in Invited, createPairing(p, u) PROVE IdentityIndInv'
    <2>1. [user |-> u, deleted |-> FALSE] \in Askings
        BY DEF Askings
    <2>2. asking' \in [Pages -> Askings \cup {Nobody}] /\ UNCHANGED ticket
        BY <1>2, <2>1 DEF createPairing, IdentityIndInv, IdentityTypeOK
    <2>3. IdentityTypeOK'
        BY <1>1, <2>2 DEF IdentityIndInv, IdentityTypeOK
    <2>4. TicketsTrue' /\ AnswersPaired'
        BY <1>1, <2>2 DEF IdentityIndInv, TicketsTrue, AnswersPaired, Paired, Absent
    <2> QED
        BY <1>1, <2>3, <2>4, PeopleRest DEF IdentityIndInv
<1>3. CASE DeleteTickets(p)
    <2>1. asking[p] \in Askings
        BY <1>3 DEF DeleteTickets, Absent, IdentityIndInv, IdentityTypeOK
    <2>2. [asking[p] EXCEPT !.deleted = TRUE] \in Askings
        BY <2>1 DEF Askings
    <2>3. asking' \in [Pages -> Askings \cup {Nobody}]
        BY <1>3, <2>2 DEF DeleteTickets, IdentityIndInv, IdentityTypeOK
    <2>4. ASSUME NEW t \in Tickets
          PROVE  /\ ticket'[t] \in TicketRows \cup {Nobody}
                 /\ Absent(ticket, t) => Absent(ticket, t)'
                 /\ ~Absent(ticket, t) =>
                        /\ ~Absent(ticket, t)' /\ ticket'[t].user = ticket[t].user
                        /\ ticket'[t].opened = ticket[t].opened
        <3>1. \/ ticket'[t] = ticket[t]
              \/ ~Absent(ticket, t) /\ ticket'[t] = [ticket[t] EXCEPT !.kept = FALSE]
            BY <1>3 DEF DeleteTickets
        <3>2. ticket[t] \in TicketRows \cup {Nobody}
            BY DEF IdentityIndInv, IdentityTypeOK
        <3>3. CASE ticket'[t] = ticket[t]
            BY <3>2, <3>3 DEF Absent
        <3>4. CASE ~Absent(ticket, t) /\ ticket'[t] = [ticket[t] EXCEPT !.kept = FALSE]
            <4>1. ticket[t] \in TicketRows
                BY <3>2, <3>4 DEF Absent
            <4>2. /\ ticket'[t] \in TicketRows /\ ticket'[t].user = ticket[t].user
                  /\ ticket'[t].opened = ticket[t].opened
                BY <3>4, <4>1 DEF TicketRows
            <4> QED
                BY <3>4, <4>2, NobodyAssumption DEF Absent
        <3> QED
            BY <3>1, <3>3, <3>4
    <2>5. ticket' \in [Tickets -> TicketRows \cup {Nobody}]
        BY <1>3, <2>4 DEF DeleteTickets
    <2>6. IdentityTypeOK'
        BY <1>1, <2>3, <2>5 DEF IdentityIndInv, IdentityTypeOK
    <2>7. TicketsTrue' /\ \A c \in Chats: Paired(c) => Paired(c)'
        BY <1>1, <2>4, TicketsKept DEF Absent
    <2>8. AnswersPaired'
        BY <1>1, <2>4, <2>7, AnswersKept
    <2> QED
        BY <1>1, <2>6, <2>7, <2>8, PeopleRest DEF IdentityIndInv
<1>4. ASSUME NEW t \in Tickets, InsertTicket(p, t) PROVE IdentityIndInv'
    <2>1. asking[p] \in Askings
        BY <1>4 DEF InsertTicket, Absent, IdentityIndInv, IdentityTypeOK
    <2>2. PICK r \in TicketRows:
              r = [user |-> asking[p].user, fresh |-> TRUE, kept |-> TRUE, opened |-> {}]
        BY <2>1 DEF Askings, TicketRows
    <2>3. /\ asking' \in [Pages -> Askings \cup {Nobody}]
          /\ ticket' = [ticket EXCEPT ![t] = r] /\ Absent(ticket, t)
        BY <1>4, <2>2 DEF InsertTicket, IdentityIndInv, IdentityTypeOK
    <2>4. /\ ticket' \in [Tickets -> TicketRows \cup {Nobody}] /\ ticket'[t] = r
          /\ \A s \in Tickets \ {t}: ticket'[s] = ticket[s]
        BY <2>3 DEF IdentityIndInv, IdentityTypeOK
    <2>5. IdentityTypeOK'
        BY <1>1, <2>3, <2>4 DEF IdentityIndInv, IdentityTypeOK
    <2>6. /\ \A s \in Tickets: ~Absent(ticket, s) =>
                /\ ~Absent(ticket, s)' /\ ticket'[s].user = ticket[s].user
                /\ ticket'[s].opened = ticket[s].opened
          /\ \A s \in Tickets: Absent(ticket, s) /\ ~Absent(ticket, s)' => ticket'[s].opened = {}
        BY <2>2, <2>3, <2>4 DEF Absent
    <2>7. TicketsTrue' /\ \A c \in Chats: Paired(c) => Paired(c)'
        BY <1>1, <2>6, TicketsKept DEF Absent
    <2>8. AnswersPaired'
        BY <1>1, <2>6, <2>7, AnswersKept
    <2> QED
        BY <1>1, <2>5, <2>7, <2>8, PeopleRest DEF IdentityIndInv
<1> QED
    BY <1>2, <1>3, <1>4

LEMMA ExpiryKeeps ==
    ASSUME IdentityIndInv, NEW t \in Tickets, TicketExpires(t) PROVE IdentityIndInv'
<1>1. ticket[t] \in TicketRows /\ UNCHANGED <<person, legacy, channel, asking, start, told, mishaps>>
    BY DEF TicketExpires, Absent, IdentityIndInv, IdentityTypeOK
<1>2. PICK r \in TicketRows:
          r = [ticket[t] EXCEPT !.fresh = FALSE] /\ r.user = ticket[t].user /\ r.opened = ticket[t].opened
    <2>1. [ticket[t] EXCEPT !.fresh = FALSE] \in TicketRows
        BY <1>1 DEF TicketRows
    <2> QED
        BY <1>1, <2>1 DEF TicketRows
<1>3. /\ ticket' \in [Tickets -> TicketRows \cup {Nobody}] /\ ticket'[t] = r
      /\ \A s \in Tickets \ {t}: ticket'[s] = ticket[s]
    BY <1>2 DEF TicketExpires, IdentityIndInv, IdentityTypeOK
<1>4. IdentityTypeOK'
    BY <1>1, <1>3 DEF IdentityIndInv, IdentityTypeOK
<1>5. \A s \in Tickets: ~Absent(ticket, s) =>
          /\ ~Absent(ticket, s)' /\ ticket'[s].user = ticket[s].user
          /\ ticket'[s].opened = ticket[s].opened
    BY <1>2, <1>3, NobodyAssumption DEF Absent
<1>6. \A s \in Tickets: Absent(ticket, s) => Absent(ticket, s)'
    BY <1>1, <1>3, NobodyAssumption DEF Absent
<1>7. TicketsTrue' /\ \A c \in Chats: Paired(c) => Paired(c)'
    BY <1>1, <1>5, <1>6, TicketsKept DEF Absent
<1>8. AnswersPaired'
    BY <1>1, <1>5, <1>7, AnswersKept
<1> QED
    BY <1>1, <1>4, <1>7, <1>8, PeopleRest DEF IdentityIndInv

\* A step of the bot that only moves what it has in hand.
LEMMA StartMoves ==
    ASSUME IdentityIndInv, NEW s \in Starts \cup {Nobody}, start' = s,
           s # Nobody => /\ s.ticket \in Tickets => ~Absent(ticket, s.ticket)
                         /\ s.step = "paired" => Paired(s.chat),
           \A c \in told': Paired(c),
           UNCHANGED <<person, legacy, channel, ticket, asking>>, mishaps' \in 0..MaxMishaps
    PROVE  IdentityIndInv'
<1>1. IdentityTypeOK'
    BY DEF IdentityIndInv, IdentityTypeOK
<1>2. TicketsTrue' /\ AnswersPaired'
    BY DEF IdentityIndInv, TicketsTrue, AnswersPaired, Paired, Absent
<1> QED
    BY <1>1, <1>2, PeopleRest DEF IdentityIndInv

LEMMA InHandKeeps ==
    ASSUME IdentityIndInv,
           \/ \E c \in Chats, t \in Tickets \cup {Nobody}: Receive(c, t)
           \/ Reply \/ HandledAgain
    PROVE  IdentityIndInv'
<1>1. mishaps \in 0..MaxMishaps /\ start \in Starts \cup {Nobody} /\ AnswersPaired
    BY DEF IdentityIndInv, IdentityTypeOK
<1>2. ASSUME NEW c \in Chats, NEW t \in Tickets \cup {Nobody}, Receive(c, t) PROVE IdentityIndInv'
    <2>1. PICK s \in Starts: s = [chat |-> c, ticket |-> t, step |-> "handle"]
        BY DEF Starts
    <2>2. /\ start' = s /\ s.ticket = t /\ ~(s.step = "paired")
          /\ t \in Tickets => ~Absent(ticket, t)
          /\ UNCHANGED <<person, legacy, channel, ticket, asking, told, mishaps>>
        BY <1>2, <2>1 DEF Receive
    <2>3. \A d \in told': Paired(d)
        BY <1>1, <2>2 DEF AnswersPaired
    <2> QED
        BY <1>1, <2>2, <2>3, StartMoves
<1>3. CASE Reply
    <2>1. \A c \in told': Paired(c)
        BY <1>1, <1>3 DEF Reply, AnswersPaired
    <2> QED
        BY <1>1, <1>3, <2>1, StartMoves DEF Reply
<1>4. CASE HandledAgain
    <2>1. PICK s \in Starts:
              s = [start EXCEPT !.step = "handle"] /\ s.step = "handle" /\ s.ticket = start.ticket
        <3>1. [start EXCEPT !.step = "handle"] \in Starts
            BY <1>1, <1>4 DEF HandledAgain, Starts
        <3> QED
            BY <1>1, <1>4, <3>1 DEF HandledAgain, Starts
    <2>2. /\ start' = s /\ start # Nobody /\ mishaps' \in 0..MaxMishaps
          /\ UNCHANGED <<person, legacy, channel, ticket, asking, told>>
        BY <1>1, <1>4, <2>1, IdentityAssumption DEF HandledAgain, Then
    <2>3. \A d \in told': Paired(d)
        BY <1>1, <2>2 DEF AnswersPaired
    <2>4. s.ticket \in Tickets => ~Absent(ticket, s.ticket)
        BY <1>1, <2>1, <2>2 DEF AnswersPaired
    <2>5. ~(s.step = "paired")
        BY <2>1
    <2> QED
        BY <2>2, <2>3, <2>4, <2>5, StartMoves
<1> QED
    BY <1>2, <1>3, <1>4

\* Where a /\start ends up.
LEMMA Ends ==
    ASSUME IdentityIndInv, start # Nobody,
           NEW step \in {"paired", "refused", "registered", "failed"}, Then(step)
    PROVE  /\ start' \in Starts /\ start'.chat = start.chat /\ start'.ticket = start.ticket
           /\ start'.step = step /\ start.chat \in Chats
<1>1. start \in Starts
    BY DEF IdentityIndInv, IdentityTypeOK
<1> QED
    BY <1>1 DEF Then, Starts

\* Nothing is done but to answer.
LEMMA OnlyAnswers ==
    ASSUME IdentityIndInv, start # Nobody,
           NEW step \in {"refused", "registered", "failed"}, Then(step),
           UNCHANGED <<person, legacy, channel, ticket, asking, told, mishaps>>
    PROVE  IdentityIndInv'
<1>1. /\ start' \in Starts /\ start'.ticket = start.ticket /\ start'.step = step
    BY Ends
<1>2. PICK s \in Starts: start' = s /\ s.ticket = start.ticket /\ ~(s.step = "paired")
    BY <1>1
<1>3. s.ticket \in Tickets => ~Absent(ticket, s.ticket)
    BY <1>2 DEF IdentityIndInv, AnswersPaired
<1>4. \A c \in told': Paired(c)
    BY DEF IdentityIndInv, AnswersPaired
<1>5. mishaps' \in 0..MaxMishaps
    BY DEF IdentityIndInv, IdentityTypeOK
<1> QED
    BY <1>2, <1>3, <1>4, <1>5, StartMoves

\* A pairing connects an account without a chat and a chat without a row.
LEMMA ConsumeKeeps == ASSUME IdentityIndInv, consumePairing PROVE IdentityIndInv'
<1>1. PICK t \in Tickets, c \in Chats:
          /\ start # Nobody /\ start \in Starts /\ t = start.ticket /\ c = start.chat
          /\ UNCHANGED <<asking, told, mishaps>>
    BY DEF consumePairing, Handling, IdentityIndInv, IdentityTypeOK, Starts
<1>2. ticket[t] \in TicketRows /\ ~Absent(ticket, t)
    BY <1>1 DEF IdentityIndInv, IdentityTypeOK, AnswersPaired, Absent
<1>3. PICK u \in Invited: u = ticket[t].user
    BY <1>2 DEF TicketRows
<1>4. CASE ~Pairable(t, c)
    BY <1>1, <1>4, OnlyAnswers DEF consumePairing
<1>5. CASE Pairable(t, c)
    <2>1. /\ legacy' = [legacy EXCEPT ![c] = [active |-> TRUE, name |-> person[u].name]]
          /\ person' = [person EXCEPT ![u].legacy = c]
          /\ channel' = [channel EXCEPT ![c] = [user |-> u, reviewed |-> FALSE]]
          /\ ticket' = [ticket EXCEPT ![t].opened = ticket[t].opened \cup {c}]
          /\ Then("paired")
        BY <1>1, <1>3, <1>5 DEF consumePairing, IdentityIndInv, IdentityTypeOK
    <2>2. /\ ticket[t].opened = {} /\ person[u].active /\ person[u].legacy = Nobody /\ ~Connected(u)
          /\ Absent(channel, c) /\ Absent(legacy, c)
        BY <1>3, <1>5 DEF Pairable
    <2>3. person[u] \in Persons /\ ~Absent(person, u) /\ u \in Everyone /\ u \notin Chats
        BY IdentityAssumption DEF IdentityIndInv, IdentityTypeOK, PeopleKnown, Absent, Everyone
    <2>4. PICK l \in LegacyRows:
              l = [active |-> TRUE, name |-> person[u].name] /\ l.active = TRUE /\ l.name = person[u].name
        <3>1. [active |-> TRUE, name |-> person[u].name] \in LegacyRows
            BY <2>3 DEF Persons, LegacyRows
        <3> QED
            BY <3>1
    <2>5. PICK q \in Persons:
              /\ q = [person[u] EXCEPT !.legacy = c]
              /\ q.legacy = c /\ q.active = TRUE /\ q.name = person[u].name
        <3>1. [person[u] EXCEPT !.legacy = c] \in Persons
            BY <2>3 DEF Persons
        <3> QED
            BY <2>2, <2>3, <3>1 DEF Persons
    <2>6. PICK h \in Channels: h = [user |-> u, reviewed |-> FALSE] /\ h.user = u
        <3>1. [user |-> u, reviewed |-> FALSE] \in Channels
            BY <2>3 DEF Channels
        <3> QED
            BY <3>1
    <2>7. PICK r \in TicketRows: r = [ticket[t] EXCEPT !.opened = {c}] /\ r.user = u /\ r.opened = {c}
        <3>1. [ticket[t] EXCEPT !.opened = {c}] \in TicketRows
            BY <1>2 DEF TicketRows
        <3> QED
            BY <1>2, <1>3, <3>1 DEF TicketRows
    <2>8. /\ legacy' \in [Chats -> LegacyRows \cup {Nobody}] /\ legacy'[c] = l
          /\ \A d \in Chats \ {c}: legacy'[d] = legacy[d]
        BY <2>1, <2>4 DEF IdentityIndInv, IdentityTypeOK
    <2>9. /\ person' \in [Everyone -> Persons \cup {Nobody}] /\ person'[u] = q
          /\ \A v \in Everyone \ {u}: person'[v] = person[v]
        BY <2>1, <2>3, <2>5 DEF IdentityIndInv, IdentityTypeOK
    <2>10. /\ channel' \in [Chats -> Channels \cup {Nobody}] /\ channel'[c] = h
           /\ \A d \in Chats \ {c}: channel'[d] = channel[d]
        BY <2>1, <2>6 DEF IdentityIndInv, IdentityTypeOK
    <2>11. /\ ticket' \in [Tickets -> TicketRows \cup {Nobody}] /\ ticket'[t] = r
           /\ \A s \in Tickets \ {t}: ticket'[s] = ticket[s]
        <3>1. ticket' = [ticket EXCEPT ![t] = r]
            BY <2>1, <2>2, <2>7 DEF IdentityIndInv, IdentityTypeOK
        <3> QED
            BY <3>1 DEF IdentityIndInv, IdentityTypeOK
    <2>12. /\ start' \in Starts /\ start'.chat = c /\ start'.ticket = t
        BY <1>1, <2>1, Ends
    <2>13. IdentityTypeOK'
        BY <1>1, <2>8, <2>9, <2>10, <2>11, <2>12 DEF IdentityIndInv, IdentityTypeOK
    <2>14. l # Nobody /\ q # Nobody /\ h # Nobody /\ r # Nobody /\ Nobody \notin Chats
        BY NobodyAssumption, IdentityAssumption
    <2>15. ASSUME NEW d \in Chats PROVE Agrees(d)'
        <3>1. CASE d = c
            <4>1. \A v \in Everyone: ~(~Absent(person, v) /\ person[v].legacy = c)
                BY <2>2, <3>1 DEF IdentityIndInv, Agrees
            <4>2. /\ legacy'[d] = l /\ channel'[d] = h /\ h.user = u
                  /\ l.active = q.active /\ l.name = q.name
                BY <2>4, <2>5, <2>6, <2>8, <2>10, <3>1
            <4>3. \A v \in Everyone: person'[v] # Nobody /\ person'[v].legacy = d <=> v = u
                BY <2>5, <2>9, <2>14, <3>1, <4>1 DEF Absent
            <4> QED
                BY <2>3, <2>9, <2>14, <4>2, <4>3 DEF Agrees, Absent
        <3>2. CASE d # c
            <4>1. legacy'[d] = legacy[d] /\ channel'[d] = channel[d]
                BY <2>8, <2>10, <3>2
            <4>2. channel[d] # Nobody => channel[d].user # u /\ channel[d].user \in Everyone
                BY <2>2 DEF Connected, Absent, IdentityIndInv, IdentityTypeOK, Channels
            <4>3. q.legacy # d /\ person[u].legacy # d
                BY <2>2, <2>5, <2>14, <3>2
            <4>4. Agrees(d)
                BY DEF IdentityIndInv
            <4> QED
                BY <2>9, <4>1, <4>2, <4>3, <4>4 DEF Agrees, Absent
        <3> QED
            BY <3>1, <3>2
    <2>16. PeopleKnown'
        BY <2>3, <2>9, <2>14 DEF IdentityIndInv, PeopleKnown, Absent, Everyone
    <2>17. \A d \in Chats: ~Absent(channel, d) => ~Absent(channel, d)' /\ channel'[d].user = channel[d].user
        BY <2>2, <2>10 DEF Absent
    <2>18. \A s \in Tickets: ~Absent(ticket, s) => ~Absent(ticket, s)' /\ ticket[s].opened \subseteq ticket'[s].opened
        BY <2>2, <2>11, <2>14 DEF Absent
    <2>19. TicketsTrue'
        <3> SUFFICES ASSUME NEW s \in Tickets, ticket'[s] # Nobody
                     PROVE  /\ \A d \in ticket'[s].opened: channel'[d] # Nobody /\ channel'[d].user = ticket'[s].user
                            /\ \A d, e \in ticket'[s].opened: d = e
            BY DEF TicketsTrue, Absent
        <3>1. CASE s = t
            <4>1. ticket'[s].opened = {c} /\ ticket'[s].user = u
                BY <2>7, <2>11, <3>1
            <4>2. channel'[c] # Nobody /\ channel'[c].user = u
                BY <2>6, <2>10, <2>14
            <4> QED
                BY <4>1, <4>2
        <3>2. CASE s # t
            <4>1. ticket'[s] = ticket[s] /\ ticket[s].opened \subseteq Chats
                BY <2>11, <3>2 DEF IdentityIndInv, IdentityTypeOK, TicketRows
            <4> QED
                BY <2>17, <4>1 DEF IdentityIndInv, TicketsTrue, Absent
        <3> QED
            BY <3>1, <3>2
    <2>20. \A d: Paired(d) => Paired(d)'
        BY <2>18 DEF Paired
    <2>21. Paired(c)'
        BY <2>7, <2>11, <2>14 DEF Paired, Absent
    <2>22. AnswersPaired'
        <3>1. \A d \in told': Paired(d)'
            BY <1>1, <2>20 DEF IdentityIndInv, AnswersPaired
        <3>2. ~Absent(ticket, t)'
            BY <2>11, <2>14 DEF Absent
        <3> QED
            BY <2>12, <2>21, <3>1, <3>2 DEF AnswersPaired
    <2> QED
        BY <2>13, <2>15, <2>16, <2>19, <2>22 DEF IdentityIndInv
<1> QED
    BY <1>4, <1>5

\* Registering creates the three records of a chat that had none.
LEMMA RegistrationKeeps == ASSUME IdentityIndInv, registerIdentity PROVE IdentityIndInv'
<1>1. PICK c \in Chats:
          /\ start # Nobody /\ start \in Starts /\ c = start.chat
          /\ UNCHANGED <<ticket, asking, told, mishaps>>
    BY DEF registerIdentity, Handling, IdentityIndInv, IdentityTypeOK, Starts
<1>2. CASE ~(Mappable(c) /\ Absent(legacy, c))
    BY <1>1, <1>2, OnlyAnswers DEF registerIdentity
<1>3. CASE Mappable(c) /\ Absent(legacy, c)
    <2>1. /\ legacy' = [legacy EXCEPT ![c] = [active |-> FALSE, name |-> Nobody]]
          /\ person' = [person EXCEPT ![c] = Registered(c)]
          /\ channel' = [channel EXCEPT ![c] = [user |-> c, reviewed |-> FALSE]]
          /\ Then("registered")
        BY <1>1, <1>3 DEF registerIdentity
    <2>2. c \in Everyone /\ c \notin Invited /\ Nobody \notin Chats
        BY IdentityAssumption DEF Everyone
    <2>3. PICK l \in LegacyRows:
              l = [active |-> FALSE, name |-> Nobody] /\ l.active = FALSE /\ l.name = Nobody
        <3>1. [active |-> FALSE, name |-> Nobody] \in LegacyRows
            BY DEF LegacyRows
        <3> QED
            BY <3>1
    <2>4. PICK q \in Persons: q = Registered(c) /\ q.legacy = c /\ q.active = FALSE /\ q.name = Nobody
        <3>1. Registered(c) \in Persons
            BY DEF Persons, Registered
        <3> QED
            BY <3>1 DEF Registered
    <2>5. PICK h \in Channels: h = [user |-> c, reviewed |-> FALSE] /\ h.user = c
        <3>1. [user |-> c, reviewed |-> FALSE] \in Channels
            BY <2>2 DEF Channels
        <3> QED
            BY <3>1
    <2>6. /\ legacy' \in [Chats -> LegacyRows \cup {Nobody}] /\ legacy'[c] = l
          /\ \A d \in Chats \ {c}: legacy'[d] = legacy[d]
        BY <2>1, <2>3 DEF IdentityIndInv, IdentityTypeOK
    <2>7. /\ person' \in [Everyone -> Persons \cup {Nobody}] /\ person'[c] = q
          /\ \A v \in Everyone \ {c}: person'[v] = person[v]
        BY <2>1, <2>2, <2>4 DEF IdentityIndInv, IdentityTypeOK
    <2>8. /\ channel' \in [Chats -> Channels \cup {Nobody}] /\ channel'[c] = h
          /\ \A d \in Chats \ {c}: channel'[d] = channel[d]
        BY <2>1, <2>5 DEF IdentityIndInv, IdentityTypeOK
    <2>9. start' \in Starts /\ start'.ticket = start.ticket /\ start'.step = "registered"
        BY <1>1, <2>1, Ends
    <2>10. IdentityTypeOK'
        BY <1>1, <2>6, <2>7, <2>8, <2>9 DEF IdentityIndInv, IdentityTypeOK
    <2>11. l # Nobody /\ q # Nobody /\ h # Nobody
        BY NobodyAssumption
    <2>12. Absent(legacy, c) /\ Absent(channel, c)
        BY <1>3 DEF IdentityIndInv, Agrees
    <2>13. ASSUME NEW d \in Chats PROVE Agrees(d)'
        <3>1. CASE d = c
            <4>1. \A v \in Everyone: ~(~Absent(person, v) /\ person[v].legacy = c)
                BY <2>12 DEF IdentityIndInv, Agrees
            <4>2. /\ legacy'[d] = l /\ channel'[d] = h /\ h.user = c
                  /\ l.active = q.active /\ l.name = q.name
                BY <2>3, <2>4, <2>5, <2>6, <2>8, <3>1
            <4>3. \A v \in Everyone: person'[v] # Nobody /\ person'[v].legacy = d <=> v = c
                BY <2>4, <2>7, <2>11, <3>1, <4>1 DEF Absent
            <4> QED
                BY <2>2, <2>7, <2>11, <4>2, <4>3 DEF Agrees, Absent
        <3>2. CASE d # c
            <4>1. legacy'[d] = legacy[d] /\ channel'[d] = channel[d]
                BY <2>6, <2>8, <3>2
            <4>2. Agrees(d)
                BY DEF IdentityIndInv
            <4>3. ~Absent(person, c) => person[c].legacy = c
                BY DEF IdentityIndInv, PeopleKnown
            <4>4. channel[d] # Nobody => channel[d].user # c /\ channel[d].user \in Everyone
                BY <2>2, <3>2, <4>2, <4>3 DEF Agrees, Absent, IdentityIndInv, IdentityTypeOK, Channels
            <4>5. \A v \in Everyone:
                    person'[v] # Nobody /\ person'[v].legacy = d <=> person[v] # Nobody /\ person[v].legacy = d
                BY <2>4, <2>7, <3>2, <4>3 DEF Absent
            <4> QED
                BY <2>7, <4>1, <4>2, <4>4, <4>5 DEF Agrees, Absent
        <3> QED
            BY <3>1, <3>2
    <2>14. PeopleKnown'
        BY <2>2, <2>4, <2>7 DEF IdentityIndInv, PeopleKnown, Absent, Everyone
    <2>15. TicketsTrue' /\ \A d \in Chats: Paired(d) => Paired(d)'
        BY <1>1, <2>8, <2>12, TicketsKept DEF Absent
    <2>16. AnswersPaired'
        <3>1. \A d \in told: Paired(d) /\ d \in Chats
            BY DEF Paired, Absent, IdentityIndInv, IdentityTypeOK, TicketRows, AnswersPaired
        <3>2. start.ticket \in Tickets => ticket'[start.ticket] # Nobody
            BY <1>1 DEF IdentityIndInv, AnswersPaired, Absent
        <3> QED
            BY <1>1, <2>9, <2>15, <3>1, <3>2 DEF AnswersPaired, Absent
    <2> QED
        BY <2>10, <2>13, <2>14, <2>15, <2>16 DEF IdentityIndInv
<1> QED
    BY <1>2, <1>3

\* The legacy row of a person's chat is written with the person.
LEMMA ChangeKeeps ==
    ASSUME IdentityIndInv, NEW u \in Everyone, NEW active \in BOOLEAN, NEW name \in Names \cup {Nobody},
           ChangeAccess(u, active, name)
    PROVE  IdentityIndInv'
<1>1. /\ person[u] \in Persons /\ ~Absent(person, u) /\ mishaps' \in 0..MaxMishaps
      /\ UNCHANGED <<channel, ticket, asking, start, told>>
    BY IdentityAssumption DEF ChangeAccess, Absent, IdentityIndInv, IdentityTypeOK
<1>2. PICK q \in Persons:
          /\ q = [person[u] EXCEPT !.active = active, !.name = name]
          /\ q.active = active /\ q.name = name /\ q.legacy = person[u].legacy
    <2>1. [person[u] EXCEPT !.active = active, !.name = name] \in Persons
        BY <1>1 DEF Persons
    <2> QED
        BY <1>1, <2>1 DEF Persons
<1>3. /\ person' \in [Everyone -> Persons \cup {Nobody}] /\ person'[u] = q
      /\ \A v \in Everyone \ {u}: person'[v] = person[v]
    <2>1. person' = [person EXCEPT ![u] = q]
        BY <1>2 DEF ChangeAccess, IdentityIndInv, IdentityTypeOK
    <2> QED
        BY <2>1 DEF IdentityIndInv, IdentityTypeOK
<1>4. PICK l \in LegacyRows: l = [active |-> active, name |-> name]
    BY DEF LegacyRows
<1>5. legacy' = IF person[u].legacy = Nobody THEN legacy ELSE [legacy EXCEPT ![person[u].legacy] = l]
    BY <1>4 DEF ChangeAccess, Mirrored
<1>6. /\ legacy' \in [Chats -> LegacyRows \cup {Nobody}]
      /\ \A d \in Chats: legacy'[d] = IF d = person[u].legacy THEN l ELSE legacy[d]
    BY <1>5, IdentityAssumption DEF IdentityIndInv, IdentityTypeOK
<1>7. IdentityTypeOK'
    BY <1>1, <1>3, <1>6 DEF IdentityIndInv, IdentityTypeOK
<1>8. l # Nobody /\ q # Nobody
    BY NobodyAssumption
<1>9. ASSUME NEW d \in Chats PROVE Agrees(d)'
    <2>1. Agrees(d)
        BY DEF IdentityIndInv
    <2>2. channel[d] # Nobody => channel[d].user \in Everyone
        BY DEF IdentityIndInv, IdentityTypeOK, Channels
    <2>3. \A v \in Everyone:
            person'[v] # Nobody /\ person'[v].legacy = d <=> person[v] # Nobody /\ person[v].legacy = d
        BY <1>1, <1>2, <1>3, <1>8 DEF Absent
    <2>4. CASE d = person[u].legacy
        <3>1. channel[d] # Nobody /\ channel[d].user = u /\ legacy[d] # Nobody
            BY <1>1, <2>1, <2>4 DEF Agrees, Absent
        <3>2. legacy'[d] = l /\ l.active = q.active /\ l.name = q.name
            BY <1>2, <1>4, <1>6, <2>4
        <3> QED
            BY <1>1, <1>3, <1>8, <2>1, <2>3, <3>1, <3>2 DEF Agrees, Absent
    <2>5. CASE d # person[u].legacy
        <3>1. channel[d] # Nobody => channel[d].user # u
            BY <2>1, <2>5 DEF Agrees, Absent
        <3> QED
            BY <1>1, <1>3, <1>6, <2>1, <2>2, <2>3, <2>5, <3>1 DEF Agrees, Absent
    <2> QED
        BY <2>4, <2>5
<1>10. PeopleKnown'
    BY <1>1, <1>2, <1>3, <1>8 DEF IdentityIndInv, PeopleKnown, Absent, Everyone
<1>11. TicketsTrue' /\ AnswersPaired'
    BY <1>1 DEF IdentityIndInv, TicketsTrue, AnswersPaired, Paired, Absent
<1> QED
    BY <1>7, <1>9, <1>10, <1>11 DEF IdentityIndInv

LEMMA PreferencesKeep ==
    ASSUME IdentityIndInv, NEW u \in Invited, updatePreferences(u) PROVE IdentityIndInv'
<1>1. UNCHANGED <<person, legacy, ticket, asking, start, told, mishaps>>
    BY DEF updatePreferences
<1>2. ASSUME NEW c \in Chats
      PROVE  /\ channel'[c] \in Channels \cup {Nobody}
             /\ Absent(channel, c)' <=> Absent(channel, c)
             /\ ~Absent(channel, c) => channel'[c].user = channel[c].user
    <2>1. \/ channel'[c] = channel[c]
          \/ ~Absent(channel, c) /\ channel'[c] = [channel[c] EXCEPT !.reviewed = TRUE]
        BY DEF updatePreferences
    <2>2. channel[c] \in Channels \cup {Nobody}
        BY DEF IdentityIndInv, IdentityTypeOK
    <2>3. CASE ~Absent(channel, c) /\ channel'[c] = [channel[c] EXCEPT !.reviewed = TRUE]
        <3>1. channel[c] \in Channels
            BY <2>2, <2>3 DEF Absent
        <3>2. channel'[c] \in Channels /\ channel'[c].user = channel[c].user
            BY <2>3, <3>1 DEF Channels
        <3> QED
            BY <2>3, <3>2, NobodyAssumption DEF Absent
    <2> QED
        BY <2>1, <2>2, <2>3 DEF Absent
<1>3. channel' \in [Chats -> Channels \cup {Nobody}]
    BY <1>2 DEF updatePreferences
<1>4. IdentityTypeOK'
    BY <1>1, <1>3 DEF IdentityIndInv, IdentityTypeOK
<1>5. (\A c \in Chats: Agrees(c)') /\ PeopleKnown'
    BY <1>1, <1>2 DEF IdentityIndInv, Agrees, PeopleKnown, Absent
<1>6. TicketsTrue' /\ \A c \in Chats: Paired(c) => Paired(c)'
    BY <1>1, <1>2, TicketsKept DEF Absent
<1>7. AnswersPaired'
    BY <1>1, <1>6, AnswersKept DEF Absent
<1> QED
    BY <1>4, <1>5, <1>6, <1>7 DEF IdentityIndInv

\* The inductive invariant of identities: the records of a chat and of its person name
\* each other, and what the bot has in hand is about pairings that took place.
THEOREM IdentityInvariance == IdentitySpec => []IdentityIndInv
<1>1. IdentityInit => IdentityIndInv
    <2> SUFFICES ASSUME IdentityInit PROVE IdentityIndInv
        OBVIOUS
    <2>1. PICK f \in [Invited -> Names]:
              person = [u \in Everyone |-> IF u \in Invited
                           THEN [active |-> TRUE, name |-> f[u], legacy |-> Nobody] ELSE Nobody]
        BY DEF IdentityInit
    <2>2. \A u \in Invited: /\ person[u] \in Persons /\ person[u].legacy = Nobody
        BY <2>1 DEF Persons, Everyone
    <2>3. \A u \in Everyone: person[u] \in Persons \cup {Nobody} /\ (u \notin Invited => Absent(person, u))
        BY <2>1, <2>2 DEF Absent
    <2>4. IdentityTypeOK
        BY <2>1, <2>3, IdentityAssumption DEF IdentityInit, IdentityTypeOK
    <2>5. \A c \in Chats: Agrees(c)
        BY <2>2, <2>3, IdentityAssumption DEF IdentityInit, Agrees, Absent
    <2>6. PeopleKnown
        BY <2>2, <2>3, IdentityAssumption, NobodyAssumption DEF PeopleKnown, Absent, Everyone
    <2>7. TicketsTrue /\ AnswersPaired
        BY DEF IdentityInit, TicketsTrue, AnswersPaired, Absent
    <2> QED
        BY <2>4, <2>5, <2>6, <2>7 DEF IdentityIndInv
<1>2. ASSUME IdentityIndInv, [IdentityNext]_identityVars PROVE IdentityIndInv'
    <2>1. CASE UNCHANGED identityVars
        BY <1>2, <2>1 DEF identityVars, IdentityIndInv, IdentityTypeOK, Agrees, PeopleKnown, TicketsTrue,
           AnswersPaired, Paired, Absent
    <2> QED
        BY <1>2, <2>1, AskingKeeps, ExpiryKeeps, InHandKeeps, ConsumeKeeps, RegistrationKeeps, ChangeKeeps,
           PreferencesKeep DEF IdentityNext
<1> QED
    BY <1>1, <1>2, PTL DEF IdentitySpec

\* A set whose elements are all equal has one at most.
LEMMA AtMostOne == ASSUME NEW S, \A x, y \in S: x = y PROVE Cardinality(S) <= 1
<1>1. CASE S = {}
    BY <1>1, FS_EmptySet
<1>2. CASE S # {}
    <2>1. PICK x: S = {x}
        BY <1>2
    <2> QED
        BY <2>1, FS_Singleton
<1> QED
    BY <1>1, <1>2

\* In whatever order chats register and pair: the three records of every chat agree, an
\* account has one chat at most, a pairing connected one chat and its own account, and a
\* chat is told it is paired only if it is.
THEOREM IdentitySafe == IdentitySpec => []IdentityInv
<1>1. IdentityIndInv => IdentityInv
    <2> SUFFICES ASSUME IdentityIndInv PROVE IdentityInv
        OBVIOUS
    <2>1. IdentityTypeOK /\ TicketsTrue /\ AnswersPaired
        BY DEF IdentityIndInv
    <2>2. ASSUME NEW c \in Chats PROVE Reconciled(c)
        <3>1. Agrees(c) /\ (~Absent(channel, c) => channel[c].user \in Everyone)
            BY DEF IdentityIndInv, IdentityTypeOK, Channels, Absent
        <3>2. CASE Absent(legacy, c)
            BY <3>1, <3>2 DEF Agrees, Reconciled
        <3>3. CASE ~Absent(legacy, c)
            <4>1. {u \in Everyone: ~Absent(person, u) /\ person[u].legacy = c} = {channel[c].user}
                BY <3>1, <3>3 DEF Agrees
            <4> QED
                BY <3>1, <3>3, <4>1 DEF Agrees, Reconciled
        <3> QED
            BY <3>2, <3>3
    <2>3. ASSUME NEW u \in Everyone
          PROVE  Cardinality({c \in Chats: ~Absent(channel, c) /\ channel[c].user = u}) <= 1
        <3>1. \A c, d \in {e \in Chats: ~Absent(channel, e) /\ channel[e].user = u}: c = d
            BY DEF IdentityIndInv, Agrees
        <3> QED
            BY <3>1, AtMostOne
    <2>4. ASSUME NEW t \in Tickets, ~Absent(ticket, t)
          PROVE  /\ Cardinality(ticket[t].opened) <= 1
                 /\ \A c \in ticket[t].opened: channel[c].user = ticket[t].user
        BY <2>1, <2>4, AtMostOne DEF TicketsTrue
    <2>5. \A c \in told: \E t \in Tickets: ~Absent(ticket, t) /\ c \in ticket[t].opened
        BY <2>1 DEF AnswersPaired, Paired
    <2> QED
        BY <2>1, <2>2, <2>3, <2>4, <2>5 DEF IdentityInv
<1> QED
    BY <1>1, IdentityInvariance, PTL
-----------------------------------------------------------------------------
(* The sessions of an administrator *)

\* The newest sessions, however many there are, are no more than the cap.
LEMMA KeptFits ==
    ASSUME NEW S \in SUBSET Nat, IsFiniteSet(S)
    PROVE  /\ Kept(S) \subseteq S /\ IsFiniteSet(Kept(S))
           /\ Cardinality(Kept(S)) <= SessionCap
<1> DEFINE Newer(t) == {u \in S: u > t}
           K == Kept(S)
           rank == [t \in K |-> Cardinality(Newer(t))]
<1>1. K \in SUBSET S /\ IsFiniteSet(K)
    <2>1. K \in SUBSET S
        BY DEF Kept
    <2> HIDE DEF K
    <2> QED BY <2>1, FS_Subset
<1>2. \A t \in S: IsFiniteSet(Newer(t)) /\ Cardinality(Newer(t)) \in Nat
    BY FS_Subset, FS_CardinalityType
<1>3. \A t \in K: Cardinality(Newer(t)) < SessionCap
    BY DEF Kept
<1> HIDE DEF K
<1>4. \A t \in K: Cardinality(Newer(t)) \in 0..(SessionCap - 1)
    BY <1>1, <1>2, <1>3, SessionsAssumption
<1>5. ASSUME NEW t \in K, NEW u \in K, t < u
      PROVE  Cardinality(Newer(t)) # Cardinality(Newer(u))
    <2>0. t \in Nat /\ u \in Nat /\ u \in S
        BY <1>1
    <2>1. Newer(u) \in SUBSET Newer(t) /\ u \in Newer(t) /\ u \notin Newer(u)
        <3>1. \A x \in S: x \in Nat /\ (x > u => x > t)
            BY <1>5, <2>0
        <3>2. u > t /\ ~(u > u)
            BY <1>5, <2>0
        <3> QED BY <2>0, <3>1, <3>2
    <2>2. IsFiniteSet(Newer(t))
        BY <1>1, <1>2
    <2> HIDE DEF Newer
    <2> QED BY <2>1, <2>2, FS_Subset
<1>6. \A t, u \in K: Cardinality(Newer(t)) = Cardinality(Newer(u)) => t = u
    <2>1. \A t, u \in K: t < u \/ u < t \/ t = u
        BY <1>1
    <2> HIDE DEF Newer
    <2> QED BY <1>5, <2>1
<1> HIDE DEF Newer
<1>7. rank \in Injection(K, 0..(SessionCap - 1))
    BY <1>4, <1>6 DEF Injection, IsInjective
<1> HIDE DEF rank
<1>8. IsFiniteSet(0..(SessionCap - 1)) /\ Cardinality(0..(SessionCap - 1)) = SessionCap
    BY SessionsAssumption, FS_Interval
<1>9. Cardinality(K) <= SessionCap
    BY <1>7, <1>8, FS_Injection
<1> QED BY <1>1, <1>9 DEF K

\* What is left of the sessions when some of them end.
LEMMA EndsKept ==
    ASSUME SessionsCapped, issued \in Nat, NEW tokens,
           live' = live \ tokens, stale' = stale \ tokens, issued' = issued
    PROVE  SessionsCapped' /\ Unrevoked' = Unrevoked \ tokens
<1>1. Unrevoked' = Unrevoked \ tokens
    BY DEF Unrevoked
<1>2. (Unrevoked \ tokens) \in SUBSET Unrevoked
    OBVIOUS
<1>3. IsFiniteSet(Unrevoked \ tokens) /\ Cardinality(Unrevoked \ tokens) <= Cardinality(Unrevoked)
    BY <1>2, FS_Subset DEF SessionsCapped
<1>4. Cardinality(Unrevoked \ tokens) \in Nat /\ Cardinality(Unrevoked) \in Nat
    BY <1>3, FS_CardinalityType DEF SessionsCapped
<1>5. Cardinality(Unrevoked \ tokens) <= SessionCap
    BY <1>3, <1>4, SessionsAssumption DEF SessionsCapped
<1> QED BY <1>1, <1>3, <1>5 DEF SessionsCapped

\* The gate is passed by visitors only, of whom there are finitely many.
LEMMA PastGateFinite ==
    /\ IsFiniteSet(PastGate) /\ Cardinality(PastGate) \in Nat
    /\ Cardinality(PastGate) <= Cardinality(Visitors) /\ Cardinality(Visitors) \in Nat
    /\ IsFiniteSet(PastGate') /\ Cardinality(PastGate') \in Nat
    /\ Cardinality(PastGate') <= Cardinality(Visitors)
<1>1. PastGate \in SUBSET Visitors /\ PastGate' \in SUBSET Visitors
    BY DEF PastGate
<1>2. IsFiniteSet(PastGate) /\ Cardinality(PastGate) <= Cardinality(Visitors)
    BY <1>1, FS_Subset, SessionsAssumption
<1>3. IsFiniteSet(PastGate') /\ Cardinality(PastGate') <= Cardinality(Visitors)
    BY <1>1, FS_Subset, SessionsAssumption
<1> QED BY <1>2, <1>3, FS_CardinalityType, SessionsAssumption

\* As long as nobody passes the gate and no failure is added, the lockout holds.
LEMMA LockoutStays ==
    ASSUME LockoutHolds, PastGate' \subseteq PastGate, failures' \in Nat, failures' <= failures
    PROVE  LockoutHolds'
<1>1. PastGate' \in SUBSET PastGate
    OBVIOUS
<1>2. Cardinality(PastGate') <= Cardinality(PastGate)
    BY <1>1, PastGateFinite, FS_Subset
<1> DEFINE p == Cardinality(PastGate)
           q == Cardinality(PastGate')
           n == Cardinality(Visitors)
<1>3. p \in Nat /\ q \in Nat /\ n \in Nat /\ q <= p
    BY <1>2, PastGateFinite
<1>4. failures \in Nat /\ failures + p < FailureLimit + n
    BY DEF LockoutHolds
<1> HIDE DEF p, q, n
<1>5. PICK f \in Nat: f = failures' /\ f <= failures
    OBVIOUS
<1>6. FailureLimit \in Nat /\ f <= failures
    BY <1>5, SessionsAssumption
<1>7. f + q < FailureLimit + n
    BY <1>3, <1>4, <1>6
<1> QED BY <1>5, <1>7 DEF LockoutHolds, q, n

\* Failures below the limit leave room for everybody past the gate.
LEMMA LockoutFresh ==
    ASSUME failures' \in Nat, failures' < FailureLimit
    PROVE  LockoutHolds'
<1> DEFINE q == Cardinality(PastGate')
           n == Cardinality(Visitors)
<1>1. q \in Nat /\ n \in Nat /\ q <= n
    BY PastGateFinite
<1> HIDE DEF q, n
<1>2. PICK f \in Nat: f = failures' /\ f < FailureLimit
    OBVIOUS
<1>3. FailureLimit \in Nat /\ f < FailureLimit
    BY <1>2, SessionsAssumption
<1>4. f + q < FailureLimit + n
    BY <1>1, <1>3
<1> QED BY <1>2, <1>4 DEF LockoutHolds, q, n

\* A visit that ends, or goes on elsewhere than past the gate.
LEMMA VisitMoves ==
    ASSUME SessionsTypeOK, NEW v \in Visitors, NEW w \in Visits \cup {NoVisit},
           visit' = [visit EXCEPT ![v] = w]
    PROVE  /\ visit' \in [Visitors -> Visits \cup {NoVisit}]
           /\ \/ w = NoVisit \/ w.step # "insert"
              \/ w.own \in 1..issued'
              => (Numbered /\ 1..issued \subseteq 1..issued' => Numbered')
           /\ w = NoVisit \/ w.step # "verify" => PastGate' = PastGate \ {v}
           /\ NewGiven /\ (w # NoVisit /\ w.step \in {"read", "change"} => w.new \in Passwords) => NewGiven'
<1>1. visit \in [Visitors -> Visits \cup {NoVisit}]
    BY DEF SessionsTypeOK
<1>2. visit'[v] = w /\ \A u \in Visitors: u # v => visit'[u] = visit[u]
    BY <1>1
<1>3. w = NoVisit \/ w.step # "verify" => PastGate' = PastGate \ {v}
    BY <1>2 DEF PastGate, Doing
<1>4. NewGiven /\ (w # NoVisit /\ w.step \in {"read", "change"} => w.new \in Passwords) => NewGiven'
    BY <1>2 DEF NewGiven, Doing
<1>5. ASSUME w = NoVisit \/ w.step # "insert" \/ w.own \in 1..issued',
             Numbered, 1..issued \subseteq 1..issued'
      PROVE  Numbered'
    BY <1>2, <1>5 DEF Numbered, Doing
<1> QED BY <1>1, <1>3, <1>4, <1>5

\* A request that begins is before the gate.
LEMMA BeginsKept ==
    ASSUME SessionsIndInv, NEW v \in Visitors, NEW step \in {"gate", "read", "change", "revoke"},
           NEW own \in Tokens \cup {NoToken}, NEW valid \in BOOLEAN,
           NEW given \in Passwords \cup {NoVisit}, NEW new \in Passwords \cup {NoVisit},
           step \in {"read", "change"} => new \in Passwords,
           Visit(v, step, own, valid, given, new)
    PROVE  SessionsIndInv'
<1> DEFINE w == [step |-> step, own |-> own, valid |-> valid, given |-> given, new |-> new]
<1>1. w \in Visits /\ w.step # "verify" /\ w.step # "insert" /\ (w.step \in {"read", "change"} => w.new \in Passwords)
    BY DEF Visits
<1> HIDE DEF w
<1>2. visit' = [visit EXCEPT ![v] = w] /\ UNCHANGED <<credential, enabled, live, stale, issued, failures, under, late>>
    BY DEF Visit, w
<1>3. SessionsTypeOK /\ visit' \in [Visitors -> Visits \cup {NoVisit}] /\ PastGate' \subseteq PastGate /\ NewGiven' /\ Numbered'
    BY <1>1, <1>2, VisitMoves DEF SessionsIndInv
<1>4. SessionsTypeOK'
    BY <1>2, <1>3 DEF SessionsTypeOK
<1>5. LockoutHolds'
    BY <1>2, <1>3, LockoutStays DEF SessionsIndInv, LockoutHolds
<1>6. Unrevoked' = Unrevoked /\ SessionsCapped' /\ UnderPassword' /\ DisabledLate'
    BY <1>2 DEF SessionsIndInv, Unrevoked, SessionsCapped, UnderPassword, DisabledLate
<1> QED BY <1>3, <1>4, <1>5, <1>6 DEF SessionsIndInv

\* A request that is over, and has changed no more than the sessions and their password.
LEMMA LeavesKept ==
    ASSUME SessionsIndInv, NEW v \in Visitors, Leaves(v),
           credential' \in Credentials, enabled' \in BOOLEAN, issued' \in 0..MaxSessions,
           under' \in [Tokens -> Passwords], late' \subseteq Tokens, SessionsCapped', UnderPassword',
           issued' = issued, DisabledLate', LockoutHolds'
    PROVE  SessionsIndInv'
<1>1. visit' \in [Visitors -> Visits \cup {NoVisit}] /\ NewGiven' /\ Numbered'
    BY VisitMoves DEF Leaves, SessionsIndInv
<1> QED BY <1>1 DEF SessionsIndInv, SessionsTypeOK

LEMMA LeftGate ==
    ASSUME SessionsIndInv, NEW v \in Visitors, Leaves(v)
    PROVE  PastGate' = PastGate \ {v}
BY VisitMoves DEF Leaves, SessionsIndInv

LEMMA LoginSteps ==
    ASSUME SessionsIndInv, NEW v \in Visitors,
           evaluateLoginGate(v) \/ recordLoginFailure(v) \/ VisitFails(v) \/ readCredential(v)
    PROVE  SessionsIndInv'
<1>1. SessionsTypeOK /\ NewGiven /\ LockoutHolds /\ SessionsCapped /\ UnderPassword
    BY DEF SessionsIndInv
<1>2. ASSUME UNCHANGED <<credential, enabled, live, stale, issued, under, late>>
      PROVE  /\ credential' \in Credentials /\ enabled' \in BOOLEAN /\ issued' \in 0..MaxSessions
             /\ under' \in [Tokens -> Passwords] /\ late' \subseteq Tokens
             /\ SessionsCapped' /\ UnderPassword' /\ DisabledLate' /\ issued' = issued
    BY <1>1, <1>2 DEF SessionsTypeOK, SessionsCapped, UnderPassword, Unrevoked, SessionsIndInv, DisabledLate
<1>3. ASSUME Leaves(v), UNCHANGED <<credential, enabled, live, stale, issued, under, late, failures>>
      PROVE  SessionsIndInv'
    <2>1. LockoutHolds'
        BY <1>1, <1>3, LeftGate, LockoutStays DEF LockoutHolds
    <2> QED BY <1>2, <1>3, <2>1, LeavesKept
<1>4. CASE evaluateLoginGate(v)
    <2>1. /\ UNCHANGED <<credential, enabled, live, stale, issued, under, late, failures>>
          /\ visit[v] # NoVisit
        BY <1>4 DEF evaluateLoginGate, Doing
    <2>2. CASE ~Locked /\ visit' = [visit EXCEPT ![v].step = "verify"]
        <3> DEFINE w == [visit[v] EXCEPT !.step = "verify"]
        <3>1. visit[v] \in Visits
            BY <1>1, <2>1 DEF SessionsTypeOK
        <3>2. w \in Visits /\ w.step = "verify"
            BY <3>1 DEF Visits
        <3>3. visit' = [visit EXCEPT ![v] = w]
            BY <2>2
        <3> HIDE DEF w
        <3>4. visit' \in [Visitors -> Visits \cup {NoVisit}] /\ NewGiven' /\ Numbered'
            BY <1>1, <2>1, <3>2, <3>3, VisitMoves DEF SessionsIndInv
        <3>5. failures' \in Nat /\ failures' < FailureLimit
            BY <1>1, <2>1, <2>2, SessionsAssumption DEF LockoutHolds, Locked
        <3>6. LockoutHolds'
            BY <3>5, LockoutFresh
        <3> QED BY <1>2, <2>1, <3>4, <3>6 DEF SessionsIndInv, SessionsTypeOK
    <2>3. CASE Leaves(v)
        BY <1>3, <2>1, <2>3
    <2> QED BY <1>4, <2>2, <2>3 DEF evaluateLoginGate
<1>5. CASE recordLoginFailure(v)
    <2>1. /\ v \in PastGate /\ failures' = failures + 1 /\ Leaves(v)
          /\ UNCHANGED <<credential, enabled, live, stale, issued, under, late>>
        BY <1>5 DEF recordLoginFailure, PastGate
    <2>2. PastGate' = PastGate \ {v}
        BY <2>1, LeftGate
    <2>3. Cardinality(PastGate') = Cardinality(PastGate) - 1
        BY <2>1, <2>2, PastGateFinite, FS_RemoveElement
    <2>4. LockoutHolds'
        <3> DEFINE p == Cardinality(PastGate)
                   q == Cardinality(PastGate')
                   n == Cardinality(Visitors)
        <3>1. p \in Nat /\ q \in Nat /\ n \in Nat /\ q = p - 1
            BY <2>3, PastGateFinite
        <3>2. failures \in Nat /\ failures + p < FailureLimit + n
            BY <1>1 DEF LockoutHolds
        <3> HIDE DEF p, q, n
        <3>3. FailureLimit \in Nat
            BY SessionsAssumption
        <3>4. (failures + 1) + q < FailureLimit + n /\ failures + 1 \in Nat
            BY <3>1, <3>2, <3>3
        <3> QED BY <2>1, <3>4 DEF LockoutHolds, q, n
    <2> QED BY <1>2, <2>1, <2>4, LeavesKept
<1>6. CASE VisitFails(v)
    BY <1>3, <1>6 DEF VisitFails
<1>7. CASE readCredential(v)
    <2>1. /\ UNCHANGED <<credential, enabled, live, stale, issued, under, late, failures>>
          /\ visit[v] # NoVisit
        BY <1>7 DEF readCredential, Doing
    <2>2. CASE visit' = [visit EXCEPT ![v].step = "change", ![v].given = NoVisit]
        <3> DEFINE w == [visit[v] EXCEPT !.step = "change", !.given = NoVisit]
        <3>1. visit[v] \in Visits
            BY <1>1, <2>1 DEF SessionsTypeOK
        <3>2. w \in Visits /\ w.step = "change" /\ w.new \in Passwords
            <4>1. visit[v].new \in Passwords
                BY <1>1, <1>7 DEF NewGiven, readCredential
            <4> QED BY <3>1, <4>1 DEF Visits
        <3>3. visit' = [visit EXCEPT ![v] = w]
            BY <2>2
        <3> HIDE DEF w
        <3>4. visit' \in [Visitors -> Visits \cup {NoVisit}] /\ PastGate' \subseteq PastGate /\ NewGiven' /\ Numbered'
            BY <1>1, <2>1, <3>2, <3>3, VisitMoves DEF SessionsIndInv
        <3>5. LockoutHolds'
            BY <1>1, <2>1, <3>4, LockoutStays DEF LockoutHolds
        <3> QED BY <1>2, <2>1, <3>4, <3>5 DEF SessionsIndInv, SessionsTypeOK
    <2>3. CASE Leaves(v)
        BY <1>3, <2>1, <2>3
    <2> QED BY <1>7, <2>2, <2>3 DEF readCredential
<1> QED BY <1>4, <1>5, <1>6, <1>7

\* A session begins with a number of its own.
LEMMA CreateKept ==
    ASSUME SessionsIndInv, NEW v \in Visitors, createSession(v)
    PROVE  SessionsIndInv'
<1>1. SessionsTypeOK /\ NewGiven /\ LockoutHolds /\ SessionsCapped /\ UnderPassword /\ DisabledLate /\ Numbered
    BY DEF SessionsIndInv
<1>2. /\ visit[v] # NoVisit /\ UNCHANGED <<credential, enabled, live, stale, failures, under, late>>
      /\ Unrevoked' = Unrevoked /\ issued \in Nat /\ MaxSessions \in Nat
    BY <1>1, SessionsAssumption DEF createSession, Doing, Unrevoked, SessionsTypeOK
<1>3. UnderPassword' /\ DisabledLate'
    BY <1>1, <1>2 DEF UnderPassword, DisabledLate
<1>4. CASE enabled
    <2> DEFINE new == issued + 1
               w == [visit[v] EXCEPT !.step = "insert", !.own = new]
    <2>1. issued' = new /\ issued < MaxSessions /\ visit' = [visit EXCEPT ![v] = w]
        BY <1>4 DEF createSession
    <2>2. new \in Tokens /\ new \in 0..MaxSessions /\ 1..issued \subseteq 1..new /\ new \in 1..new
        BY <1>2, <2>1 DEF Tokens
    <2>3. visit[v] \in Visits
        BY <1>1, <1>2 DEF SessionsTypeOK
    <2> HIDE DEF new
    <2>4. w \in Visits /\ w.step = "insert" /\ w.own = new
        BY <2>2, <2>3 DEF Visits
    <2> HIDE DEF w
    <2>5. visit' \in [Visitors -> Visits \cup {NoVisit}] /\ PastGate' \subseteq PastGate /\ NewGiven' /\ Numbered'
        BY <1>1, <2>1, <2>2, <2>4, VisitMoves
    <2>6. LockoutHolds'
        BY <1>1, <1>2, <2>5, LockoutStays DEF LockoutHolds
    <2>7. SessionsCapped'
        BY <1>1, <1>2, <2>1, <2>2 DEF SessionsCapped
    <2>8. SessionsTypeOK'
        BY <1>1, <1>2, <2>1, <2>2, <2>5 DEF SessionsTypeOK
    <2> QED BY <1>3, <2>5, <2>6, <2>7, <2>8 DEF SessionsIndInv
<1>5. CASE ~enabled
    <2>1. Leaves(v) /\ issued' = issued
        BY <1>5 DEF createSession
    <2>2. LockoutHolds'
        BY <1>1, <1>2, <2>1, LeftGate, LockoutStays DEF LockoutHolds
    <2>3. SessionsCapped'
        BY <1>1, <1>2, <2>1 DEF SessionsCapped
    <2> QED BY <1>1, <1>2, <1>3, <2>1, <2>2, <2>3, LeavesKept DEF SessionsTypeOK
<1> QED BY <1>4, <1>5

\* It is inserted within the cap, under the password in force; if the user has
\* been disabled since the call began, it is one of the late ones.
LEMMA InsertedKept ==
    ASSUME SessionsIndInv, NEW v \in Visitors, insertSession(v)
    PROVE  SessionsIndInv'
<1>1. /\ SessionsTypeOK /\ NewGiven /\ LockoutHolds /\ SessionsCapped /\ UnderPassword /\ DisabledLate
      /\ Numbered
    BY DEF SessionsIndInv
<1> DEFINE new == visit[v].own
           all == Unrevoked \cup {new}
<1>2. /\ Leaves(v) /\ credential' = credential /\ enabled' = enabled /\ issued' = issued
      /\ live' = (live \cup {new}) \cap Kept(all) /\ stale' = stale \cap Kept(all)
      /\ failures' \in 0..failures /\ under' = [under EXCEPT ![new] = credential.password]
      /\ late' = IF enabled THEN late ELSE late \cup {new}
    BY DEF insertSession
<1>3. new \in 1..issued /\ 1..issued \subseteq Tokens
    BY <1>1, SessionsAssumption DEF insertSession, Numbered, SessionsTypeOK, Tokens
<1>4. all \in SUBSET Nat /\ all \subseteq 1..issued /\ IsFiniteSet(all)
    <2>1. IsFiniteSet(all)
        BY <1>1, FS_AddElement DEF SessionsCapped
    <2>2. all \subseteq 1..issued
        BY <1>1, <1>3 DEF SessionsCapped
    <2>3. 1..issued \subseteq Nat
        OBVIOUS
    <2> QED BY <2>1, <2>2, <2>3
<1> HIDE DEF new
<1>5. Kept(all) \subseteq all /\ IsFiniteSet(Kept(all)) /\ Cardinality(Kept(all)) <= SessionCap
    BY <1>4, KeptFits
<1>6. Unrevoked' = Kept(all)
    BY <1>2, <1>5 DEF Unrevoked
<1>7. SessionsCapped'
    BY <1>2, <1>4, <1>5, <1>6 DEF SessionsCapped
<1>8. under' \in [Tokens -> Passwords] /\ UnderPassword'
    <2>1. /\ under \in [Tokens -> Passwords] /\ credential.password \in Passwords
          /\ \A t \in Unrevoked: t \in Tokens /\ under[t] = credential.password
        BY <1>1, <1>3 DEF SessionsTypeOK, UnderPassword, SessionsCapped, Credentials
    <2>2. \A t \in all: under'[t] = credential.password
        BY <1>2, <1>3, <2>1
    <2> QED BY <1>2, <1>3, <1>5, <1>6, <2>1, <2>2 DEF UnderPassword
<1>9. DisabledLate' /\ late' \subseteq Tokens
    BY <1>1, <1>2, <1>3, <1>5, <1>6 DEF DisabledLate, SessionsTypeOK
<1>10. LockoutHolds'
    <2>1. failures' \in Nat /\ failures' <= failures
        BY <1>1, <1>2 DEF LockoutHolds
    <2> QED BY <1>1, <1>2, <2>1, LeftGate, LockoutStays
<1> QED BY <1>1, <1>2, <1>7, <1>8, <1>9, <1>10, LeavesKept DEF SessionsTypeOK

\* The password changes, and ends the sessions but for the one that asked.
LEMMA ChangeKept ==
    ASSUME SessionsIndInv, NEW v \in Visitors, changePassword(v)
    PROVE  SessionsIndInv'
<1> DEFINE own == visit[v].own
           password == visit[v].new
<1>1. SessionsTypeOK /\ NewGiven /\ LockoutHolds /\ SessionsCapped /\ UnderPassword
    BY DEF SessionsIndInv
<1>2. /\ visit[v] # NoVisit /\ credential' = [password |-> password, mustChange |-> FALSE]
      /\ EndsSessions(Unrevoked \ {own}) /\ Leaves(v) /\ UNCHANGED <<enabled, issued, failures, late>>
      /\ under' = IF own \in Unrevoked THEN [under EXCEPT ![own] = password] ELSE under
    BY DEF changePassword, Doing, Revoked
<1>3. visit[v] \in Visits /\ own \in Tokens \cup {NoToken} /\ password \in Passwords
    <2>1. visit[v] \in Visits
        BY <1>1, <1>2 DEF SessionsTypeOK
    <2>2. password \in Passwords
        BY <1>1 DEF NewGiven, changePassword
    <2> QED BY <2>1, <2>2 DEF Visits
<1> HIDE DEF own, password
<1>4. /\ live' = live \ (Unrevoked \ {own}) /\ stale' = stale \ (Unrevoked \ {own})
      /\ enabled' = enabled /\ issued' = issued /\ failures' = failures
      /\ issued \in 0..MaxSessions /\ issued \in Nat /\ enabled \in BOOLEAN
      /\ under \in [Tokens -> Passwords] /\ late' = late /\ late \subseteq Tokens
    BY <1>1, <1>2, SessionsAssumption DEF EndsSessions, SessionsTypeOK
<1>5. SessionsCapped' /\ Unrevoked' = Unrevoked \ (Unrevoked \ {own})
    BY <1>1, <1>4, EndsKept
<1>6. credential' \in Credentials /\ credential'.password = password
    BY <1>2, <1>3 DEF Credentials
<1>7. own \in Unrevoked => own \in Tokens
    <2>1. 1..issued \subseteq Tokens
        BY <1>4, SessionsAssumption DEF Tokens
    <2> QED BY <1>1, <2>1 DEF SessionsCapped
<1>8. under' \in [Tokens -> Passwords] /\ \A t \in Unrevoked': under'[t] = password
    <2>1. CASE own \in Unrevoked
        <3>1. under' = [under EXCEPT ![own] = password] /\ \A t \in Unrevoked': t = own
            BY <1>2, <1>5, <2>1
        <3> QED BY <1>3, <1>4, <1>7, <2>1, <3>1
    <2>2. CASE own \notin Unrevoked
        <3>1. under' = under /\ Unrevoked' = {}
            BY <1>2, <1>5, <2>2
        <3> QED BY <1>4, <3>1
    <2> QED BY <2>1, <2>2
<1>9. LockoutHolds'
    BY <1>1, <1>2, <1>4, LeftGate, LockoutStays DEF LockoutHolds
<1>10. DisabledLate'
    BY <1>4, <1>5 DEF SessionsIndInv, DisabledLate
<1>11. UnderPassword'
    BY <1>6, <1>8 DEF UnderPassword
<1> QED BY <1>2, <1>4, <1>5, <1>6, <1>8, <1>9, <1>10, <1>11, LeavesKept

\* Sessions end without a password being changed.
LEMMA EndingKept ==
    ASSUME SessionsIndInv, NEW tokens, live' = live \ tokens, stale' = stale \ tokens,
           enabled' \in BOOLEAN, late' \subseteq Tokens, DisabledLate',
           UNCHANGED <<credential, issued, failures, under>>,
           UNCHANGED visit \/ \E v \in Visitors: Leaves(v)
    PROVE  SessionsIndInv'
<1>1. SessionsTypeOK /\ NewGiven /\ LockoutHolds /\ SessionsCapped /\ UnderPassword /\ issued \in Nat
    BY SessionsAssumption DEF SessionsIndInv, SessionsTypeOK
<1>2. SessionsCapped' /\ Unrevoked' = Unrevoked \ tokens
    BY <1>1, EndsKept
<1>3. UnderPassword'
    BY <1>1, <1>2 DEF UnderPassword
<1>4. /\ PastGate' \subseteq PastGate /\ NewGiven' /\ Numbered'
      /\ visit' \in [Visitors -> Visits \cup {NoVisit}]
    <2>1. CASE UNCHANGED visit
        BY <1>1, <2>1 DEF PastGate, Doing, NewGiven, SessionsTypeOK, SessionsIndInv, Numbered
    <2>2. ASSUME NEW v \in Visitors, Leaves(v)
          PROVE  /\ PastGate' \subseteq PastGate /\ NewGiven' /\ Numbered'
                 /\ visit' \in [Visitors -> Visits \cup {NoVisit}]
        BY <1>1, <2>2, VisitMoves DEF Leaves, SessionsIndInv
    <2> QED BY <2>1, <2>2
<1>5. LockoutHolds'
    BY <1>1, <1>4, LockoutStays DEF LockoutHolds
<1>6. SessionsTypeOK'
    BY <1>1, <1>4 DEF SessionsTypeOK
<1> QED BY <1>2, <1>3, <1>4, <1>5, <1>6 DEF SessionsIndInv

LEMMA EndSteps ==
    ASSUME SessionsIndInv,
           \/ \E v \in Visitors, t \in Tokens: revokeSession(v, t)
           \/ SetActive
    PROVE  SessionsIndInv'
<1>1. ASSUME NEW v \in Visitors, NEW t \in Tokens, revokeSession(v, t)
      PROVE  SessionsIndInv'
    <2>1. /\ live' = live \ {t} /\ stale' = stale \ {t} /\ Leaves(v)
          /\ UNCHANGED <<credential, enabled, issued, failures, under, late>>
        BY <1>1 DEF revokeSession, EndsSessions
    <2>2. enabled' \in BOOLEAN /\ late' \subseteq Tokens /\ DisabledLate'
        BY <2>1 DEF SessionsIndInv, SessionsTypeOK, Unrevoked, DisabledLate
    <2> QED BY <2>1, <2>2, EndingKept
<1>2. CASE SetActive
    <2>1. UNCHANGED <<credential, issued, failures, visit, under>> /\ enabled' = ~enabled /\ late' = {}
        BY <1>2 DEF SetActive
    <2>2. CASE enabled
        <3>1. live' = live \ Unrevoked /\ stale' = stale \ Unrevoked
            BY <1>2, <2>2 DEF SetActive, EndsSessions
        <3>2. DisabledLate' /\ enabled' \in BOOLEAN
            BY <2>1, <3>1 DEF Unrevoked, DisabledLate
        <3> QED BY <2>1, <2>2, <3>1, <3>2, EndingKept
    <2>3. CASE ~enabled
        <3>1. live' = live \ {} /\ stale' = stale \ {}
            BY <1>2, <2>3 DEF SetActive
        <3>2. DisabledLate' /\ enabled' \in BOOLEAN
            BY <2>1, <2>3 DEF DisabledLate
        <3> QED BY <2>1, <3>1, <3>2, EndingKept
    <2> QED BY <2>2, <2>3
<1> QED BY <1>1, <1>2

\* Time passes: sessions expire, failures are forgotten.
LEMMA TimeKept ==
    ASSUME SessionsIndInv, FailureAges \/ (\E t \in Tokens: SessionExpires(t)) \/ UNCHANGED sessionVars
    PROVE  SessionsIndInv'
<1>1. SessionsTypeOK /\ NewGiven /\ LockoutHolds /\ SessionsCapped /\ UnderPassword
    BY DEF SessionsIndInv
<1>2. UNCHANGED <<credential, enabled, issued, visit, under, late>> /\ Unrevoked' = Unrevoked
    BY DEF FailureAges, SessionExpires, sessionVars, Unrevoked
<1>3. failures' \in Nat /\ failures' <= failures
    BY <1>1 DEF FailureAges, SessionExpires, sessionVars, LockoutHolds
<1>4. PastGate' = PastGate /\ NewGiven' /\ SessionsTypeOK' /\ UnderPassword' /\ SessionsCapped'
      /\ DisabledLate' /\ Numbered'
    BY <1>1, <1>2 DEF PastGate, Doing, NewGiven, SessionsTypeOK, UnderPassword, SessionsCapped, SessionsIndInv,
                      DisabledLate, Numbered
<1>5. LockoutHolds'
    BY <1>1, <1>3, <1>4, LockoutStays
<1> QED BY <1>4, <1>5 DEF SessionsIndInv

\* The invariant of the sessions is inductive: logins, changes, resets and revocations keep
\* it in whatever order their requests reach the database.
THEOREM SessionsInvariance == SessionsSpec => []SessionsIndInv
<1>1. SessionsInit => SessionsIndInv
    <2> SUFFICES ASSUME SessionsInit PROVE SessionsIndInv
        OBVIOUS
    <2>1. Unrevoked = {} /\ PastGate = {} /\ NewGiven /\ Numbered
        BY DEF SessionsInit, Unrevoked, PastGate, NewGiven, Numbered, Doing
    <2>2. SessionsTypeOK
        BY SessionsAssumption DEF SessionsInit, SessionsTypeOK, Credentials
    <2>3. SessionsCapped
        BY <2>1, FS_EmptySet, SessionsAssumption DEF SessionsCapped
    <2>4. LockoutHolds
        <3>1. failures = 0 /\ Cardinality(PastGate) = 0 /\ Cardinality(Visitors) \in Nat
            BY <2>1, FS_EmptySet, FS_CardinalityType, SessionsAssumption DEF SessionsInit
        <3> QED BY <3>1, SessionsAssumption DEF LockoutHolds
    <2>5. UnderPassword
        BY <2>1 DEF UnderPassword
    <2> QED BY <2>1, <2>2, <2>3, <2>4, <2>5 DEF SessionsIndInv, DisabledLate
<1>2. SessionsIndInv /\ [SessionsNext]_sessionVars => SessionsIndInv'
    <2> SUFFICES ASSUME SessionsIndInv, [SessionsNext]_sessionVars PROVE SessionsIndInv'
        OBVIOUS
    <2>1. ASSUME NEW v \in Visitors, NEW p \in Passwords, login(v, p)
          PROVE  SessionsIndInv'
        <3>1. (p = credential.password /\ enabled) \in BOOLEAN
            OBVIOUS
        <3> QED BY <2>1, <3>1, BeginsKept DEF login
    <2>2. ASSUME NEW v \in Visitors, NEW p \in Passwords, resetPassword(v, p)
          PROVE  SessionsIndInv'
        BY <2>2, BeginsKept DEF resetPassword
    <2>3. ASSUME NEW v \in Visitors, NEW t \in Tokens, NEW p \in Passwords, NEW q \in Passwords,
                 AskChange(v, t, p, q)
          PROVE  SessionsIndInv'
        BY <2>3, BeginsKept DEF AskChange
    <2>4. ASSUME NEW v \in Visitors, NEW t \in Tokens, AskRevoke(v, t)
          PROVE  SessionsIndInv'
        <3>1. (~credential.mustChange) \in BOOLEAN
            OBVIOUS
        <3> QED BY <2>4, <3>1, BeginsKept DEF AskRevoke
    <2>5. ASSUME NEW v \in Visitors,
                 \/ evaluateLoginGate(v) \/ recordLoginFailure(v) \/ createSession(v) \/ insertSession(v)
                 \/ readCredential(v) \/ changePassword(v) \/ VisitFails(v)
          PROVE  SessionsIndInv'
        BY <2>5, LoginSteps, CreateKept, InsertedKept, ChangeKept
    <2>6. ASSUME (\E v \in Visitors, t \in Tokens: revokeSession(v, t)) \/ SetActive
          PROVE  SessionsIndInv'
        BY <2>6, EndSteps
    <2>7. ASSUME FailureAges \/ (\E t \in Tokens: SessionExpires(t)) \/ UNCHANGED sessionVars
          PROVE  SessionsIndInv'
        BY <2>7, TimeKept
    <2> QED BY <2>1, <2>2, <2>3, <2>4, <2>5, <2>6, <2>7 DEF SessionsNext
<1> QED BY <1>1, <1>2, PTL DEF SessionsSpec

\* However logins, changes, resets and revocations overlap, the cap, the lockout and the
\* end of sessions with a password hold, and with an account but for the late logins.
THEOREM SessionsSafe == SessionsSpec => []SessionsInv
<1>1. SessionsIndInv => SessionsInv
    <2> SUFFICES ASSUME SessionsIndInv PROVE SessionsInv
        OBVIOUS
    <2>1. live \in SUBSET Unrevoked
        BY DEF Unrevoked
    <2>2. Cardinality(live) <= SessionCap
        <3>1. IsFiniteSet(Unrevoked) /\ Cardinality(Unrevoked) <= SessionCap
            BY DEF SessionsIndInv, SessionsCapped
        <3>2. Cardinality(live) <= Cardinality(Unrevoked) /\ IsFiniteSet(live)
            BY <2>1, <3>1, FS_Subset
        <3>3. Cardinality(live) \in Nat /\ Cardinality(Unrevoked) \in Nat
            BY <3>1, <3>2, FS_CardinalityType
        <3> QED BY <3>1, <3>2, <3>3, SessionsAssumption
    <2>3. failures < FailureLimit + Cardinality(Visitors)
        <3> DEFINE p == Cardinality(PastGate)
                   n == Cardinality(Visitors)
        <3>1. p \in Nat /\ n \in Nat /\ failures \in Nat /\ failures + p < FailureLimit + n
            BY PastGateFinite DEF SessionsIndInv, LockoutHolds
        <3> HIDE DEF p, n
        <3>2. FailureLimit \in Nat
            BY SessionsAssumption
        <3>3. failures < FailureLimit + n
            BY <3>1, <3>2
        <3> QED BY <3>3 DEF n
    <2>4. SessionsTypeOK /\ live \subseteq 1..issued /\ (enabled \/ live \subseteq late)
          /\ \A t \in live: under[t] = credential.password
        BY <2>1 DEF SessionsIndInv, SessionsCapped, UnderPassword, DisabledLate
    <2> QED BY <2>2, <2>3, <2>4 DEF SessionsInv
<1> QED BY <1>1, SessionsInvariance, PTL
=============================================================================
