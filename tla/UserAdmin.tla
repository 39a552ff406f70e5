----------------------------- MODULE UserAdmin -----------------------------
(***************************************************************************)
(* Who may use the application, and as what: sign-in with its bootstrap    *)
(* and self-registration, and the administration of users.                 *)
(* (services/api/app/services/users.py, services/api/app/api/v1/users.py,  *)
(* services/api/app/api/deps.py, services/api/app/models/user.py)          *)
(*                                                                         *)
(* A request first resolves the caller and then runs one handler, in one   *)
(* session.  Rows are read without locks and a commit writes only the      *)
(* attributes the handler changed, so each request is split where other    *)
(* transactions can commit in between.  What sign-in read of the caller is *)
(* kept as the principal; the row itself is not, so a handler that edits   *)
(* the caller's own row reads it anew (services/users.py:205).  Names,     *)
(* addresses and notes are left out, except for what the note written at   *)
(* provisioning says about the profile's origin.                           *)
(***************************************************************************)
EXTENDS Integers, FiniteSets

CONSTANTS
    User,                    \* Supabase user ids
    Holder,                  \* lease holders, the organisations
    None,                    \* SQL's NULL
    Request,                 \* concurrent requests
    Updater,                 \* the requests that may turn into PATCH /users/{id}
    Assignable,              \* the roles administrators hand out in an instance
    Patches,                 \* the bodies of PATCH /users/{id} in an instance
    BootstrapRole,           \* BOOTSTRAP_ROLE
    SelfRegistration,        \* SELF_REGISTRATION_ENABLED
    SelfRegistrationRole,    \* SELF_REGISTRATION_ROLE
    Recorded,                \* the audit actions whose entries an instance keeps
    Faults                   \* which of "crash", "lost_reply", "delete_holder" may occur

Role == {"admin", "inspector", "operator"}
Attribute == {"role", "holder_id", "is_active"}
\* AppUserUpdate; "fields" are the attributes the client sent.
Patch == [fields : SUBSET Attribute, role : Role, holder : Holder \cup {None},
          active : BOOLEAN]

ASSUME ConstantsOK ==
    /\ Updater \subseteq Request
    /\ Assignable \subseteq Role
    /\ Patches \subseteq Patch
    /\ BootstrapRole \in Role
    /\ SelfRegistration \in BOOLEAN
    /\ SelfRegistrationRole \in Role
    /\ Recorded \subseteq {"create", "update", "access_denied"}
    /\ Faults \subseteq {"crash", "lost_reply", "delete_holder"}
    /\ None \notin User \cup Holder

VARIABLES
    holder,   \* lease_holders
    profile,  \* app_users
    invited,  \* the people Supabase created an account for on our invitation
    trail,    \* audit_log entries about users
    req       \* the requests being served

vars == <<holder, profile, invited, trail, req>>

Profile == [role : Role, holder : Holder \cup {None}, active : BOOLEAN,
            origin : {"bootstrap", "self", "admin"}]
\* The rows administrators insert.
Assignment == {p \in Profile : p.origin = "admin" /\ p.active}
NoProfile == [role |-> "none", holder |-> None, active |-> FALSE, origin |-> "none"]
Entry == [action : {"create", "update", "access_denied"}, actor : User, entity : User,
          fields : SUBSET Attribute]

\* A request resolves its caller, then is the principal "self", who has the role and
\* organisation of sign-in, then may be about to insert or to update the row "target":
\* "old" is that row as the handler read it and "new" what it is to become.
Req == [phase : {"unknown", "first", "walkin"}, actor : User, self : {NoProfile},
        target : {None}, old : {NoProfile}, new : {NoProfile}]
       \cup [phase : {"ready"}, actor : User, self : Profile,
             target : {None}, old : {NoProfile}, new : {NoProfile}]
       \cup [phase : {"create", "invite"}, actor : User, self : {NoProfile},
             target : User, old : {NoProfile}, new : Assignment]
       \cup [phase : {"update"}, actor : User, self : {NoProfile},
             target : User, old : Profile, new : Profile]
NoReq == [phase |-> "idle", actor |-> None, self |-> NoProfile, target |-> None,
          old |-> NoProfile, new |-> NoProfile]

TypeOK ==
    /\ holder \subseteq Holder
    /\ profile \in [User -> Profile \cup {NoProfile}]
    /\ invited \subseteq User
    /\ trail \subseteq Entry
    /\ req \in [Request -> Req \cup {NoReq}]

Init ==
    /\ holder = Holder
    /\ profile = [u \in User |-> NoProfile]
    /\ invited = {}
    /\ trail = {}
    /\ req = [r \in Request |-> NoReq]

Provisioned == {u \in User : profile[u] # NoProfile}
IsActiveAdmin(p) == p.role = "admin" /\ p.active
ActiveAdmins == {u \in User : IsActiveAdmin(profile[u])}
Ends(r) == req' = [req EXCEPT ![r] = NoReq]

\* An audit entry of the request r.
Record(r, action, u, fields) ==
    trail' = IF action \in Recorded
             THEN trail \cup {[action |-> action, actor |-> req[r].actor, entity |-> u,
                               fields |-> fields]}
             ELSE trail

(***************************************************************************)
(* Sign-in.                                                                *)
(***************************************************************************)

\* Mutant: a disabled profile signs in as well.
SignInDisabled(r, u) ==
    /\ req[r].phase = "idle"
    /\ \/ /\ profile[u] = NoProfile
          /\ req' = [req EXCEPT ![r] = [NoReq EXCEPT !.phase = "unknown", !.actor = u]]
       \/ /\ profile[u] # NoProfile
          /\ req' = [req EXCEPT ![r] = [NoReq EXCEPT !.phase = "ready", !.actor = u,
                                                     !.self = profile[u]]]
    /\ UNCHANGED <<holder, profile, invited, trail>>

\* get_principal and resolve_principal for a verified token.  A profile that
\* exists and is active makes the caller a principal at once; a disabled one
\* is refused without effect.
SignIn(r, u) ==
    /\ req[r].phase = "idle"
    /\ \/ /\ profile[u] = NoProfile
          /\ req' = [req EXCEPT ![r] = [NoReq EXCEPT !.phase = "unknown", !.actor = u]]
       \/ /\ profile[u].active
          /\ req' = [req EXCEPT ![r] = [NoReq EXCEPT !.phase = "ready", !.actor = u,
                                                     !.self = profile[u]]]
    /\ UNCHANGED <<holder, profile, invited, trail>>

\* No profile: count them all, and choose between bootstrap, self-registration
\* and refusal.
CountProfiles(r) ==
    /\ req[r].phase = "unknown"
    /\ req' = [req EXCEPT ![r] =
                 IF Provisioned = {} THEN [@ EXCEPT !.phase = "first"]
                 ELSE IF SelfRegistration THEN [@ EXCEPT !.phase = "walkin"]
                 ELSE NoReq]
    /\ UNCHANGED <<holder, profile, invited, trail>>

\* Mutant: BOOTSTRAP_ROLE is stored without being validated.
FirstProfileRaw == [role |-> "superuser", holder |-> None, active |-> TRUE,
                    origin |-> "bootstrap"]
FirstProfile == [role |-> BootstrapRole, holder |-> None, active |-> TRUE,
                 origin |-> "bootstrap"]
WalkinProfile == [role |-> SelfRegistrationRole, holder |-> None, active |-> TRUE,
                  origin |-> "self"]

\* The INSERT of the caller's own profile.  When somebody else created it in
\* the meantime the primary key refuses and that row is used.
Provision(r, row) ==
    LET u == req[r].actor
        found == IF profile[u] = NoProfile THEN row ELSE profile[u]
    IN /\ profile' = [profile EXCEPT ![u] = found]
       /\ req' = [req EXCEPT ![r] = IF found.active
                                    THEN [@ EXCEPT !.phase = "ready", !.self = found]
                                    ELSE NoReq]
       /\ UNCHANGED <<holder, invited, trail>>

Bootstrap(r) == req[r].phase = "first" /\ Provision(r, FirstProfile)
\* Mutant: self-registration hands out the bootstrapped profile.
SelfRegisterFirst(r) == req[r].phase = "walkin" /\ Provision(r, FirstProfile)
SelfRegister(r) == req[r].phase = "walkin" /\ Provision(r, WalkinProfile)

\* The request is about something else than users, or is refused by a check
\* that leaves nothing behind (404, 409, 422, 502).
Leave(r) ==
    /\ req[r].phase = "ready"
    /\ Ends(r)
    /\ UNCHANGED <<holder, profile, invited, trail>>

(***************************************************************************)
(* Administration.                                                         *)
(***************************************************************************)

\* Mutant: inspectors hold user:manage as well.
MayManageInspector(r) == req[r].phase = "ready" /\ req[r].self.role \in {"admin", "inspector"}
\* Only administrators hold user:manage.
MayManage(r) == req[r].phase = "ready" /\ req[r].self.role = "admin"

\* Anybody else is refused, and the refusal is committed to the trail.
DenyManage(r) ==
    /\ req[r].phase = "ready"
    /\ req[r].self.role # "admin"
    /\ Record(r, "access_denied", req[r].actor, {})
    /\ Ends(r)
    /\ UNCHANGED <<holder, profile, invited>>

KnownHolder(h) == h \in holder \cup {None}
OperatorScoped(role, h) == role = "operator" => h # None
Assigned(role, h) == [role |-> role, holder |-> h, active |-> TRUE, origin |-> "admin"]

Pending(r, phase, u, old, new) ==
    req' = [req EXCEPT ![r] = [@ EXCEPT !.phase = phase, !.self = NoProfile, !.target = u,
                                        !.old = old, !.new = new]]

\* POST /users, up to the flush.
CreateRead(r, u, role, h) ==
    /\ MayManage(r)
    /\ KnownHolder(h)
    /\ OperatorScoped(role, h)
    /\ profile[u] = NoProfile
    /\ Pending(r, "create", u, NoProfile, Assigned(role, h))
    /\ UNCHANGED <<holder, profile, invited, trail>>

\* Mutant: the scope is validated after the invitation went out.
InviteSendUnchecked(r, u, role, h) ==
    /\ MayManage(r)
    /\ KnownHolder(h)
    /\ invited' = invited \cup {u}
    /\ IF OperatorScoped(role, h) THEN Pending(r, "invite", u, NoProfile, Assigned(role, h))
       ELSE Ends(r)
    /\ UNCHANGED <<holder, profile, trail>>

\* POST /users/invite, up to Supabase's answer: the account exists from here on.
InviteSend(r, u, role, h) ==
    /\ MayManage(r)
    /\ KnownHolder(h)
    /\ OperatorScoped(role, h)
    /\ invited' = invited \cup {u}
    /\ Pending(r, "invite", u, NoProfile, Assigned(role, h))
    /\ UNCHANGED <<holder, profile, trail>>

\* Supabase creates the account, but its answer does not arrive or lacks the
\* id; the request ends in a 502.
InviteReplyLost(r, u) ==
    /\ "lost_reply" \in Faults
    /\ MayManage(r)
    /\ invited' = invited \cup {u}
    /\ Ends(r)
    /\ UNCHANGED <<holder, profile, trail>>

\* The INSERT, its audit entry and the commit.  A taken id and a vanished
\* holder both fail the flush and roll back.
Insert(r) ==
    LET u == req[r].target
        row == req[r].new
    IN /\ IF profile[u] = NoProfile /\ KnownHolder(row.holder)
          THEN /\ profile' = [profile EXCEPT ![u] = row]
               /\ Record(r, "create", u, {"role", "holder_id"})
          ELSE UNCHANGED <<profile, trail>>
       /\ Ends(r)
       /\ UNCHANGED <<holder, invited>>

CreateCommit(r) == req[r].phase = "create" /\ Insert(r)
InviteCommit(r) == req[r].phase = "invite" /\ Insert(r)

Patched(old, p) ==
    [old EXCEPT !.role = IF "role" \in p.fields THEN p.role ELSE @,
                !.holder = IF "holder_id" \in p.fields THEN p.holder ELSE @,
                !.active = IF "is_active" \in p.fields THEN p.active ELSE @]

\* Mutant: the edited user counts as one of the remaining administrators.
AdminSurvivesItself(u, old, new) ==
    IsActiveAdmin(old) /\ ~IsActiveAdmin(new) => ActiveAdmins # {}
\* assert_admin_survives.
AdminSurvives(u, old, new) ==
    IsActiveAdmin(old) /\ ~IsActiveAdmin(new) => ActiveAdmins \ {u} # {}

\* Mutant: the scope is validated only when the role is edited.
EditableRoleOnly(r, u, p) ==
    /\ MayManage(r)
    /\ profile[u] # NoProfile
    /\ KnownHolder(Patched(profile[u], p).holder)
    /\ "role" \in p.fields =>
          OperatorScoped(Patched(profile[u], p).role, Patched(profile[u], p).holder)
\* What PATCH /users/{id} checks before the last-administrator rule.
Editable(r, u, p) ==
    /\ MayManage(r)
    /\ profile[u] # NoProfile
    /\ KnownHolder(Patched(profile[u], p).holder)
    /\ OperatorScoped(Patched(profile[u], p).role, Patched(profile[u], p).holder)

UpdateRead(r, u, p) ==
    /\ r \in Updater
    /\ Editable(r, u, p)
    /\ AdminSurvives(u, profile[u], Patched(profile[u], p))
    /\ Pending(r, "update", u, profile[u], Patched(profile[u], p))
    /\ UNCHANGED <<holder, profile, invited, trail>>

\* Removing the last administrator is refused, and the refusal is committed.
RefuseLastAdmin(r, u, p) ==
    /\ r \in Updater
    /\ Editable(r, u, p)
    /\ ~AdminSurvives(u, profile[u], Patched(profile[u], p))
    /\ Record(r, "access_denied", u, {})
    /\ Ends(r)
    /\ UNCHANGED <<holder, profile, invited>>

Changed(old, new) == {a \in Attribute : \/ a = "role" /\ old.role # new.role
                                        \/ a = "holder_id" /\ old.holder # new.holder
                                        \/ a = "is_active" /\ old.active # new.active}
\* The UPDATE statement names only the attributes that differ from what was read.
Written(row, old, new) ==
    [row EXCEPT !.role = IF old.role # new.role THEN new.role ELSE @,
                !.holder = IF old.holder # new.holder THEN new.holder ELSE @,
                !.active = IF old.active # new.active THEN new.active ELSE @]

\* Mutant: only a change of role reaches the trail.
UpdateCommitRolesOnly(r) ==
    LET u == req[r].target
        old == req[r].old
        new == req[r].new
    IN /\ req[r].phase = "update"
       /\ IF Changed(old, new) = {} \/ (old.holder # new.holder /\ ~KnownHolder(new.holder))
          THEN UNCHANGED <<profile, trail>>
          ELSE /\ profile' = [profile EXCEPT ![u] = Written(@, old, new)]
               /\ IF "role" \in Changed(old, new) THEN Record(r, "update", u, {"role"})
                  ELSE UNCHANGED trail
       /\ Ends(r)
       /\ UNCHANGED <<holder, invited>>

\* The commit of PATCH /users/{id}; a vanished holder fails it.
UpdateCommit(r) ==
    LET u == req[r].target
        old == req[r].old
        new == req[r].new
    IN /\ req[r].phase = "update"
       /\ IF Changed(old, new) = {} \/ (old.holder # new.holder /\ ~KnownHolder(new.holder))
          THEN UNCHANGED <<profile, trail>>
          ELSE /\ profile' = [profile EXCEPT ![u] = Written(@, old, new)]
               /\ Record(r, "update", u, Changed(old, new))
       /\ Ends(r)
       /\ UNCHANGED <<holder, invited>>

(***************************************************************************)
(* What happens around the requests.                                       *)
(***************************************************************************)

\* The process dies: the open transaction is gone, Supabase's account is not.
Crash(r) ==
    /\ "crash" \in Faults
    /\ req[r].phase # "idle"
    /\ Ends(r)
    /\ UNCHANGED <<holder, profile, invited, trail>>

\* DELETE /holders/{id} of an organisation without leases; the foreign key of
\* app_users sets its users' scope to NULL.
DeleteHolder(h) ==
    /\ "delete_holder" \in Faults
    /\ h \in holder
    /\ holder' = holder \ {h}
    /\ profile' = [u \in User |-> IF profile[u].holder = h
                                  THEN [profile[u] EXCEPT !.holder = None]
                                  ELSE profile[u]]
    /\ UNCHANGED <<invited, trail, req>>

Admit(r, u) ==
    \E role \in Assignable, h \in Holder \cup {None} :
        CreateRead(r, u, role, h) \/ InviteSend(r, u, role, h)
Update(r, u) == \E p \in Patches : UpdateRead(r, u, p) \/ RefuseLastAdmin(r, u, p)

Administer(r, u) == Admit(r, u) \/ InviteReplyLost(r, u) \/ Update(r, u)
Proceed(r) ==
    \/ CountProfiles(r) \/ Bootstrap(r) \/ SelfRegister(r) \/ Leave(r)
    \/ DenyManage(r) \/ CreateCommit(r) \/ InviteCommit(r) \/ UpdateCommit(r)
    \/ Crash(r)

Next ==
    \/ \E r \in Request, u \in User : SignIn(r, u) \/ Administer(r, u)
    \/ \E r \in Request : Proceed(r)
    \/ \E h \in Holder : DeleteHolder(h)

Spec == Init /\ [][Next]_vars

(***************************************************************************)
(* Properties.                                                             *)
(***************************************************************************)

\* "Refuse an edit that removes the last active administrator" (services/
\* users.py:235): once somebody has a profile, somebody is an active
\* administrator.  Holds while at most one edit is under way.
AdminRemains == Provisioned # {} => ActiveAdmins # {}

Granted(e) == e.action \in {"create", "update"}
\* Whoever changed a profile was the bootstrapped user, or had been given a
\* role by somebody else on record: authority leads back to the first sign-in.
AuthorityChain ==
    \A e \in trail : Granted(e) =>
        \/ profile[e.actor].origin = "bootstrap"
        \/ \E g \in trail : Granted(g) /\ g.entity = e.actor /\ g.actor # e.actor
                                /\ "role" \in g.fields

\* What the trail does not explain has not happened: a disabled profile has an
\* entry that disabled it, a role other than the one given at sign-in has an
\* entry that changed it, and a profile made by an administrator has its entry.
TrailExplains ==
    \A u \in User :
        LET By(action, a) == \E e \in trail : e.action = action /\ e.entity = u
                                                 /\ a \in e.fields
        IN /\ profile[u].origin = "admin" => By("create", "role")
           /\ profile[u] # NoProfile /\ ~profile[u].active => By("update", "is_active")
           /\ profile[u].origin = "bootstrap" /\ profile[u].role # BootstrapRole
                => By("update", "role")
           /\ profile[u].origin = "self" /\ profile[u].role # SelfRegistrationRole
                => By("update", "role")

\* "An operator must be linked to a lease holder" (services/users.py:270).
\* Holds while at most one edit is under way and until a holder is deleted.
OperatorsScoped ==
    holder = Holder =>
        \A u \in User : profile[u].role = "operator" => profile[u].holder # None

InFlight(u) == \E r \in Request : req[r].phase = "invite" /\ req[r].target = u
\* "An admin can never end up with a Supabase account that has no role"
\* (schemas/identity.py:75).  Holds without crashes and lost answers, until a
\* holder is deleted.
InvitedHaveRoles ==
    holder = Holder => \A u \in invited : profile[u] # NoProfile \/ InFlight(u)

\* "Losing every administrator is unrecoverable through the application"
\* (services/users.py:237): without an active administrator, and without a
\* request that still acts for one, no step brings one back.
Powerless ==
    /\ Provisioned # {} /\ ActiveAdmins = {}
    /\ \A r \in Request : /\ req[r].phase \notin {"first", "create", "invite", "update"}
                          /\ req[r].phase = "ready" => req[r].self.role # "admin"
NoAdminIsForever == [][Powerless => Powerless']_vars

Bootstrapped == {u \in User : profile[u].origin = "bootstrap"}
NoneIsFirst == \A r \in Request : req[r].phase # "first"
\* Once somebody has a profile and no sign-in that saw none is still under way,
\* nobody is bootstrapped any more (core/config.py:56).
BootstrapCloses ==
    [][Provisioned # {} /\ NoneIsFirst => NoneIsFirst' /\ Bootstrapped' = Bootstrapped]_vars

=============================================================================
