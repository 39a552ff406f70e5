-------------------------- MODULE UserAdminProofs --------------------------
(* Theorems about UserAdmin and Access, for every value of their constants. *)
EXTENDS Access, TLAPS

\* What a request in each phase holds.
LEMMA Phases ==
  ASSUME TypeOK, NEW r \in Request
  PROVE  /\ req[r].phase # "idle" => req[r].actor \in User
         /\ req[r].phase = "ready" => req[r].self \in Profile
         /\ req[r].phase \in {"create", "invite"} =>
               /\ req[r].target \in User
               /\ req[r].new \in Profile
               /\ req[r].new.origin = "admin" /\ req[r].new.active
         /\ req[r].phase = "update" =>
               /\ req[r].target \in User
               /\ req[r].old \in Profile
               /\ req[r].new \in Profile
BY DEF TypeOK, Req, NoReq, Assignment

\* A profile is a profile or none, and its fields tell which.
LEMMA ProfileFields ==
  ASSUME TypeOK, NEW u \in User
  PROVE  /\ profile[u] \in Profile \cup {NoProfile}
         /\ profile[u] # NoProfile => profile[u] \in Profile
         /\ profile[u] \in Profile => profile[u] # NoProfile
         /\ profile[u].active => profile[u] \in Profile
         /\ profile[u].role \in Role => profile[u] \in Profile
BY DEF TypeOK, Profile, NoProfile, Role

\* The profiles that sign-in inserts.
LEMMA SignInRows == FirstProfile \in Profile /\ WalkinProfile \in Profile
BY ConstantsOK DEF FirstProfile, WalkinProfile, Profile

\* A patched profile is a profile of the same origin.
LEMMA PatchedTyped ==
  ASSUME NEW p \in Profile, NEW c \in Patches
  PROVE  Patched(p, c) \in Profile /\ Patched(p, c).origin = p.origin
<1>1. /\ c.fields \in SUBSET Attribute /\ c.role \in Role /\ c.active \in BOOLEAN
      /\ c.holder \in Holder \cup {None}
  BY ConstantsOK DEF Patch
<1> QED
  BY <1>1 DEF Patched, Profile

\* So is a profile after an UPDATE.
LEMMA WrittenTyped ==
  ASSUME NEW p \in Profile, NEW old \in Profile, NEW new \in Profile
  PROVE  Written(p, old, new) \in Profile /\ Written(p, old, new).origin = p.origin
BY DEF Written, Profile

\* The audit trail only grows, by entries about people.
LEMMA RecordTyped ==
  ASSUME TypeOK, NEW r \in Request, req[r].phase # "idle", NEW u \in User,
         NEW action \in {"create", "update", "access_denied"},
         NEW fields \in SUBSET Attribute, Record(r, action, u, fields)
  PROVE  trail' \subseteq Entry /\ trail \subseteq trail'
<1>1. req[r].actor \in User
  BY Phases
<1> QED
  BY <1>1 DEF Record, TypeOK, Entry

\* How the handlers move a request on.
LEMMA ReqBuilt ==
  ASSUME NEW q \in Req
  PROVE  /\ \A p \in Profile : q.phase \in {"first", "walkin"} =>
               [q EXCEPT !.phase = "ready", !.self = p] \in Req
         /\ q.phase = "unknown" => /\ [q EXCEPT !.phase = "first"] \in Req
                                   /\ [q EXCEPT !.phase = "walkin"] \in Req
         /\ q.phase = "ready" =>
               /\ \A u \in User, new \in Assignment,
                     phase \in {"create", "invite"} :
                     [q EXCEPT !.phase = phase, !.self = NoProfile, !.target = u,
                               !.old = NoProfile, !.new = new] \in Req
               /\ \A u \in User, old \in Profile, new \in Profile :
                     [q EXCEPT !.phase = "update", !.self = NoProfile, !.target = u,
                               !.old = old, !.new = new] \in Req
<1> DEFINE Arriving == [phase : {"unknown", "first", "walkin"}, actor : User,
                       self : {NoProfile}, target : {None}, old : {NoProfile},
                       new : {NoProfile}]
           Admitted == [phase : {"ready"}, actor : User, self : Profile, target : {None},
                        old : {NoProfile}, new : {NoProfile}]
           Inserting == [phase : {"create", "invite"}, actor : User, self : {NoProfile},
                         target : User, old : {NoProfile},
                         new : Assignment]
           Updating == [phase : {"update"}, actor : User, self : {NoProfile},
                        target : User, old : Profile, new : Profile]
<1>1. Req = Arriving \cup Admitted \cup Inserting \cup Updating
  BY DEF Req
<1>2. q.phase \in {"first", "walkin", "unknown"} => q \in Arriving
  BY <1>1
<1>3. q.phase = "ready" => q \in Admitted
  BY <1>1
<1>4. ASSUME q \in Arriving, NEW p \in Profile
      PROVE  [q EXCEPT !.phase = "ready", !.self = p] \in Admitted
  BY <1>4
<1>5. ASSUME q \in Arriving
      PROVE  [q EXCEPT !.phase = "first"] \in Arriving /\ [q EXCEPT !.phase = "walkin"] \in Arriving
  BY <1>5
<1>6. ASSUME q \in Admitted, NEW u \in User, NEW new \in Assignment,
             NEW phase \in {"create", "invite"}
      PROVE  [q EXCEPT !.phase = phase, !.self = NoProfile, !.target = u,
                       !.old = NoProfile, !.new = new] \in Inserting
  BY <1>6
<1>7. ASSUME q \in Admitted, NEW u \in User, NEW old \in Profile, NEW new \in Profile
      PROVE  [q EXCEPT !.phase = "update", !.self = NoProfile, !.target = u, !.old = old,
                       !.new = new] \in Updating
  BY <1>7
<1> HIDE DEF Arriving, Admitted, Inserting, Updating
<1> QED
  BY <1>1, <1>2, <1>3, <1>4, <1>5, <1>6, <1>7

LEMMA NewReq ==
  ASSUME NEW u \in User
  PROVE  /\ [NoReq EXCEPT !.phase = "unknown", !.actor = u] \in Req
         /\ \A p \in Profile : [NoReq EXCEPT !.phase = "ready", !.actor = u, !.self = p] \in Req
BY DEF NoReq, Req

\* A principal, and whoever an update is about, has a profile.
Rows ==
    \A r \in Request :
        /\ req[r].phase \in {"ready", "create", "invite", "update"} =>
              profile[req[r].actor] # NoProfile
        /\ req[r].phase = "update" => profile[req[r].target] # NoProfile

LEMMA TypeStep == TypeOK /\ Rows /\ [Next]_vars => TypeOK'
<1> SUFFICES ASSUME TypeOK, Rows, [Next]_vars PROVE TypeOK'
  OBVIOUS
<1> USE DEF Ends
<1>1. ASSUME NEW r \in Request, NEW u \in User, SignIn(r, u) PROVE TypeOK'
  BY <1>1, ProfileFields, NewReq DEF TypeOK, SignIn
<1>2. ASSUME NEW r \in Request, CountProfiles(r) PROVE TypeOK'
  <2>1. req[r] \in Req
    BY <1>2 DEF TypeOK, CountProfiles, NoReq
  <2> QED
    BY <1>2, <2>1, ReqBuilt DEF TypeOK, CountProfiles
<1>3. ASSUME NEW r \in Request, NEW row \in Profile, req[r].phase \in {"first", "walkin"},
             Provision(r, row)
      PROVE  TypeOK'
  <2> DEFINE u == req[r].actor
             found == IF profile[u] = NoProfile THEN row ELSE profile[u]
  <2>1. u \in User
    BY <1>3, Phases
  <2>2. found \in Profile
    BY <1>3, <2>1, ProfileFields
  <2>3. profile' \in [User -> Profile \cup {NoProfile}]
    BY <1>3, <2>1, <2>2 DEF Provision, TypeOK
  <2>4. [req[r] EXCEPT !.phase = "ready", !.self = found] \in Req
    <3>1. req[r] \in Req
      BY <1>3 DEF TypeOK, NoReq
    <3> QED
      BY <1>3, <2>2, <3>1, ReqBuilt
  <2>5. req' \in [Request -> Req \cup {NoReq}]
    BY <1>3, <2>4 DEF Provision, TypeOK
  <2> QED
    BY <1>3, <2>3, <2>5 DEF Provision, TypeOK
<1>4. ASSUME NEW r \in Request, Bootstrap(r) \/ SelfRegister(r) PROVE TypeOK'
  BY <1>3, <1>4, SignInRows DEF Bootstrap, SelfRegister
<1>5. ASSUME NEW r \in Request, Leave(r) PROVE TypeOK'
  BY <1>5 DEF TypeOK, Leave
<1>6. ASSUME NEW r \in Request, DenyManage(r) PROVE TypeOK'
  <2>1. req[r].actor \in User
    BY <1>6, Phases DEF DenyManage
  <2>2. trail' \subseteq Entry
    BY <1>6, <2>1, RecordTyped DEF DenyManage
  <2> QED
    BY <1>6, <2>2 DEF TypeOK, DenyManage
<1>7. ASSUME NEW r \in Request, NEW u \in User, NEW role \in Assignable,
             NEW h \in Holder \cup {None}, CreateRead(r, u, role, h) \/ InviteSend(r, u, role, h)
      PROVE  TypeOK'
  <2>1. Assigned(role, h) \in Assignment
    BY ConstantsOK DEF Assigned, Assignment, Profile
  <2>2. req[r] \in Req /\ req[r].phase = "ready"
    BY <1>7 DEF TypeOK, NoReq, CreateRead, InviteSend, MayManage
  <2>3. \A phase \in {"create", "invite"} :
           [req[r] EXCEPT !.phase = phase, !.self = NoProfile, !.target = u,
                          !.old = NoProfile, !.new = Assigned(role, h)] \in Req
    BY <2>1, <2>2, ReqBuilt
  <2>4. req' \in [Request -> Req \cup {NoReq}]
    BY <1>7, <2>3 DEF TypeOK, CreateRead, InviteSend, Pending
  <2> QED
    BY <1>7, <2>4 DEF TypeOK, CreateRead, InviteSend
<1>8. ASSUME NEW r \in Request, NEW u \in User, InviteReplyLost(r, u) PROVE TypeOK'
  BY <1>8 DEF TypeOK, InviteReplyLost
<1>9. ASSUME NEW r \in Request, CreateCommit(r) \/ InviteCommit(r) PROVE TypeOK'
  <2>1. /\ Insert(r) /\ req[r].phase \in {"create", "invite"}
        /\ req[r].target \in User /\ req[r].new \in Profile
    BY <1>9, Phases DEF CreateCommit, InviteCommit
  <2>2. trail' \subseteq Entry
    BY <2>1, RecordTyped DEF Insert, TypeOK, Attribute
  <2>3. profile' \in [User -> Profile \cup {NoProfile}]
    BY <2>1 DEF Insert, TypeOK
  <2> QED
    BY <2>1, <2>2, <2>3 DEF TypeOK, Insert
<1>10. ASSUME NEW r \in Request, NEW u \in User, NEW p \in Patches, UpdateRead(r, u, p)
       PROVE  TypeOK'
  <2>1. req[r] \in Req /\ req[r].phase = "ready"
    BY <1>10 DEF TypeOK, NoReq, UpdateRead, Editable, MayManage
  <2>2. profile[u] \in Profile
    BY <1>10, <2>1, Phases, ProfileFields DEF UpdateRead, Editable
  <2>3. Patched(profile[u], p) \in Profile
    BY <2>2, PatchedTyped
  <2>4. req' \in [Request -> Req \cup {NoReq}]
    BY <1>10, <2>1, <2>2, <2>3, ReqBuilt DEF TypeOK, UpdateRead, Pending
  <2> QED
    BY <1>10, <2>4 DEF TypeOK, UpdateRead
<1>11. ASSUME NEW r \in Request, NEW u \in User, NEW p \in Patches, RefuseLastAdmin(r, u, p)
       PROVE  TypeOK'
  <2>1. req[r].phase = "ready"
    BY <1>11 DEF RefuseLastAdmin, Editable, MayManage
  <2>2. trail' \subseteq Entry
    BY <1>11, <2>1, RecordTyped DEF RefuseLastAdmin
  <2> QED
    BY <1>11, <2>2 DEF TypeOK, RefuseLastAdmin
<1>12. ASSUME NEW r \in Request, UpdateCommit(r) PROVE TypeOK'
  <2> DEFINE u == req[r].target
             old == req[r].old
             new == req[r].new
  <2>1. req[r].phase = "update" /\ u \in User /\ old \in Profile /\ new \in Profile
    BY <1>12, Phases DEF UpdateCommit
  <2>2. Written(profile[u], old, new) \in Profile
    BY <2>1, WrittenTyped, ProfileFields DEF Rows
  <2>3. trail' \subseteq Entry
    BY <1>12, <2>1, RecordTyped DEF UpdateCommit, Changed, TypeOK
  <2>4. profile' \in [User -> Profile \cup {NoProfile}]
    BY <1>12, <2>1, <2>2 DEF UpdateCommit, TypeOK
  <2> QED
    BY <1>12, <2>3, <2>4 DEF UpdateCommit, TypeOK
<1>13. ASSUME NEW r \in Request, Crash(r) PROVE TypeOK'
  BY <1>13 DEF TypeOK, Crash
<1>14. ASSUME NEW h \in Holder, DeleteHolder(h) PROVE TypeOK'
  BY <1>14, ConstantsOK DEF TypeOK, DeleteHolder, Profile, NoProfile
<1>15. CASE UNCHANGED vars
  BY <1>15 DEF TypeOK, vars
<1> QED
  BY <1>1, <1>2, <1>4, <1>5, <1>6, <1>7, <1>8, <1>9, <1>10, <1>11, <1>12, <1>13, <1>14, <1>15
     DEF Next, Administer, Proceed, Admit, Update

\* Profiles are never deleted, and keep their origin.
LEMMA ProfilesStay ==
  ASSUME TypeOK, Rows, [Next]_vars, NEW u \in User, profile[u] # NoProfile
  PROVE  profile'[u] # NoProfile /\ profile'[u].origin = profile[u].origin
<1> USE DEF Ends
<1>1. profile[u] \in Profile
  BY ProfileFields
<1>2. ASSUME NEW r \in Request, Bootstrap(r) \/ SelfRegister(r)
      PROVE  profile'[u] = profile[u]
  BY <1>2 DEF Bootstrap, SelfRegister, Provision, TypeOK
<1>3. ASSUME NEW r \in Request, CreateCommit(r) \/ InviteCommit(r)
      PROVE  profile'[u] = profile[u]
  BY <1>3 DEF CreateCommit, InviteCommit, Insert, TypeOK
<1>4. ASSUME NEW r \in Request, UpdateCommit(r)
      PROVE  profile'[u] \in Profile /\ profile'[u].origin = profile[u].origin
  <2>1. req[r].old \in Profile /\ req[r].new \in Profile
    BY <1>4, Phases DEF UpdateCommit
  <2>2. /\ Written(profile[u], req[r].old, req[r].new) \in Profile
        /\ Written(profile[u], req[r].old, req[r].new).origin = profile[u].origin
    BY <1>1, <2>1, WrittenTyped
  <2>3. profile'[u] \in {profile[u], Written(profile[u], req[r].old, req[r].new)}
    BY <1>4 DEF UpdateCommit, TypeOK
  <2> QED
    BY <1>1, <2>2, <2>3
<1>5. ASSUME NEW h \in Holder, DeleteHolder(h)
      PROVE  profile'[u] \in Profile /\ profile'[u].origin = profile[u].origin
  BY <1>1, <1>5 DEF DeleteHolder, Profile
<1>6. ASSUME NEW r \in Request, NEW v \in User, SignIn(r, v) \/ Admit(r, v)
                \/ InviteReplyLost(r, v) \/ Update(r, v)
      PROVE  profile' = profile
  BY <1>6 DEF SignIn, Admit, CreateRead, InviteSend, InviteReplyLost, Update, UpdateRead,
              RefuseLastAdmin
<1>7. ASSUME NEW r \in Request,
             CountProfiles(r) \/ Leave(r) \/ DenyManage(r) \/ Crash(r)
      PROVE  profile' = profile
  BY <1>7 DEF CountProfiles, Leave, DenyManage, Crash
<1>8. CASE UNCHANGED vars
  BY <1>8 DEF vars
<1>9. profile[u] # NoProfile /\ NoProfile \notin Profile
  BY DEF NoProfile, Profile, Role
<1> QED
  BY <1>1, <1>2, <1>3, <1>4, <1>5, <1>6, <1>7, <1>8, <1>9 DEF Next, Administer, Proceed

\* How one step changes one request.
LEMMA NextReq ==
  ASSUME TypeOK, Rows, [Next]_vars, NEW r \in Request
  PROVE  \/ req'[r] = req[r]
         \/ req'[r] = NoReq
         \/ req'[r].phase = "unknown"
         \/ req'[r].phase = "first" /\ Provisioned = {}
         \/ req'[r].phase = "walkin" /\ Provisioned # {} /\ profile' = profile
         \/ /\ req'[r].phase = "ready"
            /\ req'[r].actor \in User
            /\ req'[r].self = profile'[req'[r].actor]
            /\ req'[r].self \in Profile /\ req'[r].self.active
            /\ \/ profile' = profile
               \/ req[r].phase = "first" /\ req'[r].actor = req[r].actor
               \/ /\ req[r].phase = "walkin" /\ req'[r].actor = req[r].actor
                  /\ \/ profile[req[r].actor] # NoProfile /\ profile' = profile
                     \/ req'[r].self = WalkinProfile
         \/ /\ req'[r].phase \in {"create", "invite"}
            /\ req[r].phase = "ready" /\ req[r].self.role = "admin"
            /\ req'[r].actor = req[r].actor
            /\ KnownHolder(req'[r].new.holder)
            /\ OperatorScoped(req'[r].new.role, req'[r].new.holder)
            /\ UNCHANGED <<profile, holder>>
         \/ /\ req'[r].phase = "update" /\ r \in Updater
            /\ req[r].phase = "ready" /\ req[r].self.role = "admin"
            /\ req'[r].actor = req[r].actor
            /\ profile[req'[r].target] # NoProfile
            /\ req'[r].old = profile[req'[r].target]
            /\ OperatorScoped(req'[r].new.role, req'[r].new.holder)
            /\ AdminSurvives(req'[r].target, req'[r].old, req'[r].new)
            /\ UNCHANGED <<profile, holder>>
<1> DEFINE Goal == \/ req'[r] = req[r]
                   \/ req'[r] = NoReq
                   \/ req'[r].phase = "unknown"
                   \/ req'[r].phase = "first" /\ Provisioned = {}
                   \/ req'[r].phase = "walkin" /\ Provisioned # {} /\ profile' = profile
<1> USE DEF Ends
<1>1. ASSUME NEW u \in User, SignIn(r, u)
      PROVE  \/ req'[r].phase = "unknown"
             \/ /\ req'[r].phase = "ready" /\ req'[r].actor = u
                /\ req'[r].self = profile'[u]
                /\ req'[r].self \in Profile /\ req'[r].self.active
                /\ profile' = profile
  <2>1. CASE profile[u] = NoProfile /\ req'[r] = [NoReq EXCEPT !.phase = "unknown", !.actor = u]
    BY <2>1 DEF NoReq
  <2>2. CASE profile[u].active /\ req'[r] = [NoReq EXCEPT !.phase = "ready", !.actor = u,
                                                          !.self = profile[u]]
    BY <1>1, <2>2, ProfileFields DEF SignIn, NoReq
  <2> QED
    BY <1>1, <2>1, <2>2 DEF SignIn, TypeOK
<1>2. ASSUME CountProfiles(r) PROVE Goal
  BY <1>2 DEF CountProfiles, NoReq, TypeOK, Req
<1>3. ASSUME Bootstrap(r) \/ SelfRegister(r)
      PROVE  \/ req'[r] = NoReq
             \/ /\ req'[r].phase = "ready" /\ req'[r].actor = req[r].actor
                /\ req[r].actor \in User
                /\ req'[r].self = profile'[req[r].actor]
                /\ req'[r].self \in Profile /\ req'[r].self.active
                /\ \/ req[r].phase = "first"
                   \/ /\ req[r].phase = "walkin"
                      /\ \/ profile[req[r].actor] # NoProfile /\ profile' = profile
                         \/ req'[r].self = WalkinProfile
  <2>1. /\ req[r].actor \in User /\ req[r] \in Req
        /\ FirstProfile \in Profile /\ WalkinProfile \in Profile
    BY <1>3, Phases, SignInRows DEF Bootstrap, SelfRegister, TypeOK, NoReq
  <2>2. PICK row \in Profile :
           /\ Provision(r, row)
           /\ \/ req[r].phase = "first"
              \/ req[r].phase = "walkin" /\ row = WalkinProfile
    BY <1>3, <2>1 DEF Bootstrap, SelfRegister
  <2> DEFINE u == req[r].actor
             found == IF profile[u] = NoProfile THEN row ELSE profile[u]
  <2>3. found \in Profile /\ profile' = [profile EXCEPT ![u] = found]
    BY <2>1, <2>2, ProfileFields DEF Provision
  <2>4. CASE req'[r] = [req[r] EXCEPT !.phase = "ready", !.self = found] /\ found.active
    <3>1. /\ req'[r].phase = "ready" /\ req'[r].actor = u /\ req'[r].self = found
      BY <2>1, <2>4 DEF Req
    <3>2. profile'[u] = found
      BY <2>1, <2>3 DEF TypeOK
    <3>3. profile[u] # NoProfile => profile' = profile
      BY <2>1, <2>3 DEF TypeOK
    <3> QED
      BY <2>1, <2>2, <2>3, <2>4, <3>1, <3>2, <3>3
  <2>5. req'[r] = NoReq \/ (req'[r] = [req[r] EXCEPT !.phase = "ready", !.self = found]
                            /\ found.active)
    BY <2>1, <2>2 DEF Provision, TypeOK
  <2> QED
    BY <2>4, <2>5
<1>4. ASSUME NEW u \in User, Admit(r, u)
      PROVE  /\ req'[r].phase \in {"create", "invite"}
             /\ req[r].phase = "ready" /\ req[r].self.role = "admin"
             /\ req'[r].actor = req[r].actor
             /\ KnownHolder(req'[r].new.holder)
             /\ OperatorScoped(req'[r].new.role, req'[r].new.holder)
             /\ UNCHANGED <<profile, holder>>
  <2>1. PICK role \in Assignable, h \in Holder \cup {None}, phase \in {"create", "invite"} :
           /\ Pending(r, phase, u, NoProfile, Assigned(role, h))
           /\ MayManage(r) /\ KnownHolder(h) /\ OperatorScoped(role, h)
           /\ UNCHANGED <<profile, holder>>
    BY <1>4 DEF Admit, CreateRead, InviteSend
  <2>2. req[r] \in Req
    BY <2>1 DEF MayManage, TypeOK, NoReq
  <2>3. /\ req'[r].phase = phase /\ req'[r].actor = req[r].actor
        /\ req'[r].new = Assigned(role, h)
    BY <2>1, <2>2 DEF Pending, TypeOK, Req
  <2> QED
    BY <2>1, <2>3 DEF MayManage, Assigned
<1>5. ASSUME NEW u \in User, Update(r, u)
      PROVE  \/ req'[r] = NoReq
             \/ /\ req'[r].phase = "update" /\ r \in Updater
                /\ req[r].phase = "ready" /\ req[r].self.role = "admin"
                /\ req'[r].actor = req[r].actor
                /\ profile[req'[r].target] # NoProfile
                /\ req'[r].old = profile[req'[r].target]
                /\ OperatorScoped(req'[r].new.role, req'[r].new.holder)
                /\ AdminSurvives(req'[r].target, req'[r].old, req'[r].new)
                /\ UNCHANGED <<profile, holder>>
  <2>1. PICK p \in Patches : UpdateRead(r, u, p) \/ RefuseLastAdmin(r, u, p)
    BY <1>5 DEF Update
  <2>2. CASE UpdateRead(r, u, p)
    <3>1. req[r] \in Req /\ req[r].phase = "ready" /\ req[r].self.role = "admin"
      BY <2>2 DEF UpdateRead, Editable, MayManage, TypeOK, NoReq
    <3>2. /\ req'[r].phase = "update" /\ req'[r].actor = req[r].actor /\ req'[r].target = u
          /\ req'[r].old = profile[u] /\ req'[r].new = Patched(profile[u], p)
      BY <2>2, <3>1 DEF UpdateRead, Pending, TypeOK, Req
    <3>3. profile[u] # NoProfile
      BY <2>2, <3>1 DEF UpdateRead, Editable
    <3> QED
      BY <2>2, <3>1, <3>2, <3>3 DEF UpdateRead, Editable
  <2>3. CASE RefuseLastAdmin(r, u, p)
    BY <2>3 DEF RefuseLastAdmin, TypeOK
  <2> QED
    BY <2>1, <2>2, <2>3
<1>6. ASSUME \/ \E u \in User : InviteReplyLost(r, u)
             \/ Leave(r) \/ DenyManage(r) \/ CreateCommit(r) \/ InviteCommit(r)
             \/ UpdateCommit(r) \/ Crash(r)
      PROVE  req'[r] = NoReq
  BY <1>6 DEF InviteReplyLost, Leave, DenyManage, CreateCommit, InviteCommit, Insert,
              UpdateCommit, Crash, TypeOK
<1>7. ASSUME NEW s \in Request, s # r,
             \/ \E u \in User : \/ SignIn(s, u) \/ Admit(s, u) \/ InviteReplyLost(s, u)
                                \/ Update(s, u)
             \/ CountProfiles(s) \/ Bootstrap(s) \/ SelfRegister(s) \/ Leave(s)
             \/ DenyManage(s) \/ CreateCommit(s) \/ InviteCommit(s) \/ UpdateCommit(s)
             \/ Crash(s)
      PROVE  req'[r] = req[r]
  BY <1>7 DEF SignIn, Admit, CreateRead, InviteSend, Pending, InviteReplyLost, Update,
              UpdateRead, RefuseLastAdmin, CountProfiles, Bootstrap, SelfRegister, Provision,
              Leave, DenyManage, CreateCommit, InviteCommit, Insert, UpdateCommit, Crash, TypeOK
<1>8. CASE UNCHANGED vars \/ \E h \in Holder : DeleteHolder(h)
  BY <1>8 DEF vars, DeleteHolder
<1> HIDE DEF Ends
<1>9. CASE \E s \in Request, u \in User :
              SignIn(s, u) \/ Admit(s, u) \/ InviteReplyLost(s, u) \/ Update(s, u)
  BY <1>1, <1>4, <1>5, <1>6, <1>7, <1>9
<1>10. CASE \E s \in Request :
              \/ CountProfiles(s) \/ Bootstrap(s) \/ SelfRegister(s) \/ Leave(s)
              \/ DenyManage(s) \/ CreateCommit(s) \/ InviteCommit(s) \/ UpdateCommit(s)
              \/ Crash(s)
  BY <1>2, <1>3, <1>6, <1>7, <1>10
<1> QED
  BY <1>8, <1>9, <1>10 DEF Next, Administer, Proceed

LEMMA RowsStep ==
  ASSUME TypeOK, TypeOK', Rows, [Next]_vars
  PROVE  Rows'
<1> SUFFICES ASSUME NEW r \in Request
             PROVE  /\ req'[r].phase \in {"ready", "create", "invite", "update"} =>
                          profile'[req'[r].actor] # NoProfile
                    /\ req'[r].phase = "update" => profile'[req'[r].target] # NoProfile
  BY DEF Rows
<1>1. NoReq.phase = "idle" /\ NoProfile \notin Profile
  BY DEF NoReq, NoProfile, Profile, Role
<1>2. CASE req'[r] = req[r]
  BY <1>2, ProfilesStay, Phases DEF Rows
<1>3. CASE req'[r] # req[r]
  <2>1. req'[r].phase \in {"create", "invite", "update"} =>
          /\ profile' = profile /\ req[r].phase = "ready" /\ req'[r].actor = req[r].actor
          /\ req'[r].phase = "update" => profile[req'[r].target] # NoProfile
    BY <1>1, <1>3, NextReq
  <2>2. req'[r].phase = "ready" => profile'[req'[r].actor] # NoProfile
    BY <1>1, <1>3, NextReq
  <2> QED
    BY <2>1, <2>2 DEF Rows
<1> QED
  BY <1>2, <1>3

\* The tables and the pending requests hold what their types say.
THEOREM TypeInvariant == Spec => [](TypeOK /\ Rows)
<1>1. Init => TypeOK /\ Rows
  BY DEF Init, TypeOK, Rows, NoReq
<1>2. TypeOK /\ Rows /\ [Next]_vars => (TypeOK /\ Rows)'
  BY TypeStep, RowsStep
<1> QED
  BY <1>1, <1>2, PTL DEF Spec

\* How one step changes one profile.
LEMMA NextProfile ==
  ASSUME TypeOK, Rows, [Next]_vars, NEW u \in User
  PROVE  \/ profile'[u] = profile[u]
         \/ /\ profile[u] = NoProfile
            /\ \E r \in Request : \/ req[r].phase = "first" /\ profile'[u] = FirstProfile
                                  \/ req[r].phase = "walkin" /\ profile'[u] = WalkinProfile
                                  \/ /\ req[r].phase \in {"create", "invite"}
                                     /\ req[r].target = u
                                     /\ profile'[u] = req[r].new
                                     /\ Record(r, "create", u, {"role", "holder_id"})
         \/ /\ profile[u] # NoProfile
            /\ \E r \in Request :
                  /\ req[r].phase = "update" /\ req[r].target = u
                  /\ profile'[u] = Written(profile[u], req[r].old, req[r].new)
                  /\ Record(r, "update", u, Changed(req[r].old, req[r].new))
         \/ /\ profile[u] # NoProfile
            /\ "delete_holder" \in Faults /\ holder' # Holder
            /\ profile'[u] = [profile[u] EXCEPT !.holder = None]
            /\ UNCHANGED <<trail, req>>
<1>1. ASSUME NEW r \in Request, Bootstrap(r)
      PROVE  \/ profile'[u] = profile[u]
             \/ profile[u] = NoProfile /\ req[r].phase = "first" /\ profile'[u] = FirstProfile
  BY <1>1 DEF Bootstrap, Provision, TypeOK
<1>2. ASSUME NEW r \in Request, SelfRegister(r)
      PROVE  \/ profile'[u] = profile[u]
             \/ profile[u] = NoProfile /\ req[r].phase = "walkin" /\ profile'[u] = WalkinProfile
  BY <1>2 DEF SelfRegister, Provision, TypeOK
<1>3. ASSUME NEW r \in Request, CreateCommit(r) \/ InviteCommit(r)
      PROVE  \/ profile'[u] = profile[u]
             \/ /\ profile[u] = NoProfile /\ req[r].phase \in {"create", "invite"}
                /\ req[r].target = u /\ profile'[u] = req[r].new
                /\ Record(r, "create", u, {"role", "holder_id"})
  <2>1. Insert(r) /\ req[r].phase \in {"create", "invite"}
    BY <1>3 DEF CreateCommit, InviteCommit
  <2> QED
    BY <2>1 DEF Insert, TypeOK
<1>4. ASSUME NEW r \in Request, UpdateCommit(r)
      PROVE  \/ profile'[u] = profile[u]
             \/ /\ req[r].phase = "update" /\ req[r].target = u
                /\ profile'[u] = Written(profile[u], req[r].old, req[r].new)
                /\ Record(r, "update", u, Changed(req[r].old, req[r].new))
                /\ profile[u] # NoProfile
  BY <1>4 DEF UpdateCommit, TypeOK, Rows
<1>5. ASSUME NEW h \in Holder, DeleteHolder(h)
      PROVE  \/ profile'[u] = profile[u]
             \/ /\ profile[u] # NoProfile
                /\ "delete_holder" \in Faults /\ holder' # Holder
                /\ profile'[u] = [profile[u] EXCEPT !.holder = None]
                /\ UNCHANGED <<trail, req>>
  BY <1>5, ConstantsOK DEF DeleteHolder, NoProfile
<1>6. ASSUME NEW r \in Request, NEW v \in User,
             SignIn(r, v) \/ Admit(r, v) \/ InviteReplyLost(r, v) \/ Update(r, v)
      PROVE  profile' = profile
  BY <1>6 DEF SignIn, Admit, CreateRead, InviteSend, InviteReplyLost, Update, UpdateRead,
              RefuseLastAdmin
<1>7. ASSUME NEW r \in Request, CountProfiles(r) \/ Leave(r) \/ DenyManage(r) \/ Crash(r)
      PROVE  profile' = profile
  BY <1>7 DEF CountProfiles, Leave, DenyManage, Crash
<1>8. CASE UNCHANGED vars
  BY <1>8 DEF vars
<1> QED
  BY <1>1, <1>2, <1>3, <1>4, <1>5, <1>6, <1>7, <1>8 DEF Next, Administer, Proceed

(***************************************************************************)
(* The bootstrap closes.                                                   *)
(***************************************************************************)

LEMMA BootstrapStep ==
  ASSUME TypeOK, Rows, [Next]_vars, Provisioned # {}, NoneIsFirst
  PROVE  NoneIsFirst' /\ Bootstrapped' = Bootstrapped
<1>1. ASSUME NEW r \in Request PROVE req'[r].phase # "first"
  <2>1. NoReq.phase # "first"
    BY DEF NoReq
  <2> QED
    BY <2>1, NextReq DEF NoneIsFirst
<1>2. ASSUME NEW u \in User
      PROVE  profile'[u].origin = "bootstrap" <=> profile[u].origin = "bootstrap"
  <2>1. CASE profile[u] # NoProfile
    BY <2>1, ProfilesStay
  <2>2. CASE profile[u] = NoProfile
    <3>1. NoProfile.origin # "bootstrap" /\ WalkinProfile.origin # "bootstrap"
      BY DEF NoProfile, WalkinProfile
    <3>2. \A r \in Request : req[r].phase \in {"create", "invite"} =>
             req[r].new.origin # "bootstrap"
      BY Phases
    <3> QED
      BY <2>2, <3>1, <3>2, NextProfile DEF NoneIsFirst
  <2> QED
    BY <2>1, <2>2
<1> QED
  BY <1>1, <1>2 DEF NoneIsFirst, Bootstrapped

\* Once somebody has a profile and no sign-in that saw none is under way, the
\* role of the first user is not given out again.
THEOREM BootstrapEnds == Spec => BootstrapCloses
<1>1. TypeOK /\ Rows /\ [Next]_vars
        => [Provisioned # {} /\ NoneIsFirst => NoneIsFirst' /\ Bootstrapped' = Bootstrapped]_vars
  BY BootstrapStep
<1> QED
  BY <1>1, TypeInvariant, PTL DEF Spec, BootstrapCloses

(***************************************************************************)
(* Without an administrator there is no way back.                          *)
(***************************************************************************)

LEMMA PowerlessStep ==
  ASSUME TypeOK, Rows, [Next]_vars, SelfRegistrationRole # "admin", Powerless
  PROVE  Powerless'
<1>1. \A u \in User : profile'[u] = profile[u] \/ profile'[u].role = profile[u].role
                        \/ profile'[u] = WalkinProfile
  <2>1. ASSUME NEW u \in User, profile[u] # NoProfile,
               profile'[u] = [profile[u] EXCEPT !.holder = None]
        PROVE  profile'[u].role = profile[u].role
    BY <2>1, ProfileFields DEF Profile
  <2> QED
    BY <2>1, NextProfile DEF Powerless
<1>2. \A u \in User : profile'[u].active /\ profile'[u].role = "admin" =>
                        profile[u].active /\ profile[u].role = "admin"
  <2>1. ASSUME NEW u \in User, profile[u] # NoProfile,
               profile'[u] = [profile[u] EXCEPT !.holder = None]
        PROVE  profile'[u].role = profile[u].role /\ profile'[u].active = profile[u].active
    BY <2>1, ProfileFields DEF Profile
  <2>2. WalkinProfile.role # "admin"
    BY DEF WalkinProfile
  <2> QED
    BY <2>1, <2>2, NextProfile DEF Powerless
<1>3. ActiveAdmins' = {}
  BY <1>2 DEF Powerless, ActiveAdmins, IsActiveAdmin
<1>4. Provisioned' # {}
  BY ProfilesStay DEF Powerless, Provisioned
<1>5. ASSUME NEW r \in Request
      PROVE  /\ req'[r].phase \notin {"first", "create", "invite", "update"}
             /\ req'[r].phase = "ready" => req'[r].self.role # "admin"
  <2>1. NoReq.phase = "idle" /\ WalkinProfile.role # "admin"
    BY DEF NoReq, WalkinProfile
  <2>2. ASSUME req'[r].phase = "ready", req'[r].actor \in User,
               req'[r].self = profile'[req'[r].actor], req'[r].self.active
        PROVE  req'[r].self.role # "admin"
    BY <1>3, <2>2 DEF ActiveAdmins, IsActiveAdmin
  <2> QED
    BY <2>1, <2>2, NextReq DEF Powerless
<1> QED
  BY <1>3, <1>4, <1>5 DEF Powerless

\* Whatever requests do, a system without an active administrator stays
\* without one, unless people can register themselves as administrators.
THEOREM NoWayBack ==
  ASSUME SelfRegistrationRole # "admin"
  PROVE  Spec => NoAdminIsForever
<1>1. TypeOK /\ Rows /\ [Next]_vars => [Powerless => Powerless']_vars
  BY PowerlessStep
<1> QED
  BY <1>1, TypeInvariant, PTL DEF Spec, NoAdminIsForever

(***************************************************************************)
(* The last administrator.                                                 *)
(***************************************************************************)

SameAuthority(p, q) == p.role = q.role /\ p.active = q.active
\* With one edit under way at a time, the rows an edit works with are current,
\* and an edit that retires an administrator leaves another one.
EditsCurrent ==
    \A r \in Updater :
        /\ req[r].phase = "ready" => SameAuthority(profile[req[r].actor], req[r].self)
        /\ req[r].phase = "update" =>
              /\ SameAuthority(profile[req[r].target], req[r].old)
              /\ AdminSurvives(req[r].target, req[r].old, req[r].new)
\* Past the count, somebody has a profile; nobody else updates.
Admitted ==
    \A r \in Request :
        /\ req[r].phase \in {"walkin", "ready", "create", "invite", "update"} => Provisioned # {}
        /\ req[r].phase = "update" => r \in Updater
AdminInv == AdminRemains /\ EditsCurrent /\ Admitted

LEMMA ProvisionedStays ==
  ASSUME TypeOK, Rows, [Next]_vars, Provisioned # {}
  PROVE  Provisioned' # {}
BY ProfilesStay DEF Provisioned

LEMMA AdmittedStep ==
  ASSUME TypeOK, TypeOK', Rows, Rows', Admitted, [Next]_vars
  PROVE  Admitted'
<1> SUFFICES ASSUME NEW r \in Request
             PROVE  /\ req'[r].phase \in {"walkin", "ready", "create", "invite", "update"} =>
                          Provisioned' # {}
                    /\ req'[r].phase = "update" => r \in Updater
  BY DEF Admitted
<1>1. NoReq.phase = "idle"
  BY DEF NoReq
<1>2. req'[r].phase = "update" => r \in Updater
  BY <1>1, NextReq DEF Admitted
<1>3. req'[r].phase = "walkin" => Provisioned' # {}
  BY <1>1, NextReq, ProvisionedStays DEF Admitted
<1>4. req'[r].phase \in {"ready", "create", "invite", "update"} => Provisioned' # {}
  <2>1. /\ (req[r].phase # "idle")' => req'[r].actor \in User
        /\ req'[r].phase \in {"ready", "create", "invite", "update"} =>
              profile'[req'[r].actor] # NoProfile
    <3>1. TypeOK' => ((req[r].phase # "idle")' => req'[r].actor \in User)
      BY DEF TypeOK, Req, NoReq
    <3> QED
      BY <3>1 DEF Rows
  <2> QED
    BY <2>1 DEF Provisioned
<1> QED
  BY <1>2, <1>3, <1>4

\* One step and one profile, as far as authority goes: only the update of a
\* profile changes it.
LEMMA AuthorityStep ==
  ASSUME TypeOK, Rows, [Next]_vars, NEW u \in User, profile[u] # NoProfile
  PROVE  \/ SameAuthority(profile'[u], profile[u])
         \/ \E r \in Request : /\ req[r].phase = "update" /\ req[r].target = u
                               /\ profile'[u] = Written(profile[u], req[r].old, req[r].new)
                               /\ UpdateCommit(r)
<1>1. ASSUME profile'[u] = [profile[u] EXCEPT !.holder = None]
      PROVE  SameAuthority(profile'[u], profile[u])
  BY <1>1, ProfileFields DEF Profile, SameAuthority
<1>2. ASSUME profile'[u] = profile[u] PROVE SameAuthority(profile'[u], profile[u])
  BY <1>2 DEF SameAuthority
<1>3. ASSUME NEW r \in Request, UpdateCommit(r)
      PROVE  \/ profile'[u] = profile[u]
             \/ /\ req[r].phase = "update" /\ req[r].target = u
                /\ profile'[u] = Written(profile[u], req[r].old, req[r].new)
  BY <1>3 DEF UpdateCommit, TypeOK
<1>4. ASSUME \A r \in Request : ~UpdateCommit(r)
      PROVE  \/ profile'[u] = profile[u]
             \/ profile'[u] = [profile[u] EXCEPT !.holder = None]
  <2>1. ASSUME NEW r \in Request, Bootstrap(r) \/ SelfRegister(r)
        PROVE  profile'[u] = profile[u]
    BY <2>1 DEF Bootstrap, SelfRegister, Provision, TypeOK
  <2>2. ASSUME NEW r \in Request, CreateCommit(r) \/ InviteCommit(r)
        PROVE  profile'[u] = profile[u]
    BY <2>2 DEF CreateCommit, InviteCommit, Insert, TypeOK
  <2>3. ASSUME NEW h \in Holder, DeleteHolder(h)
        PROVE  \/ profile'[u] = profile[u]
               \/ profile'[u] = [profile[u] EXCEPT !.holder = None]
    BY <2>3 DEF DeleteHolder
  <2>4. ASSUME NEW r \in Request, NEW v \in User,
               SignIn(r, v) \/ Admit(r, v) \/ InviteReplyLost(r, v) \/ Update(r, v)
        PROVE  profile' = profile
    BY <2>4 DEF SignIn, Admit, CreateRead, InviteSend, InviteReplyLost, Update, UpdateRead,
                RefuseLastAdmin
  <2>5. ASSUME NEW r \in Request, CountProfiles(r) \/ Leave(r) \/ DenyManage(r) \/ Crash(r)
        PROVE  profile' = profile
    BY <2>5 DEF CountProfiles, Leave, DenyManage, Crash
  <2>6. CASE UNCHANGED vars
    BY <2>6 DEF vars
  <2> QED
    BY <1>4, <2>1, <2>2, <2>3, <2>4, <2>5, <2>6 DEF Next, Administer, Proceed
<1> QED
  BY <1>1, <1>2, <1>3, <1>4

LEMMA AdminStep ==
  ASSUME \A r, s \in Updater : r = s, BootstrapRole = "admin",
         TypeOK, TypeOK', Rows, Rows', AdminInv, [Next]_vars
  PROVE  AdminInv'
<1> USE DEF AdminInv
<1>1. Admitted'
  BY AdmittedStep
<1>2. CASE \E r \in Request : UpdateCommit(r)
  <2>1. PICK r \in Request : UpdateCommit(r)
    BY <1>2
  <2> DEFINE u == req[r].target
             old == req[r].old
             new == req[r].new
  <2>2. /\ req[r].phase = "update" /\ r \in Updater
        /\ u \in User /\ old \in Profile /\ new \in Profile /\ profile[u] \in Profile
        /\ SameAuthority(profile[u], old) /\ AdminSurvives(u, old, new)
        /\ ActiveAdmins # {} /\ req' = [req EXCEPT ![r] = NoReq]
    BY <2>1, Phases, ProfileFields
       DEF UpdateCommit, Admitted, EditsCurrent, AdminRemains, Rows, Ends
  <2>3. EditsCurrent'
    <3>1. \A s \in Updater : s = r
      BY <2>2
    <3>2. req'[r].phase = "idle"
      BY <2>2 DEF NoReq, TypeOK
    <3> QED
      BY <3>1, <3>2 DEF EditsCurrent
  <2>4. \A v \in User \ {u} : profile'[v] = profile[v]
    BY <2>1, <2>2 DEF UpdateCommit, TypeOK
  <2>5. \/ profile'[u] = profile[u]
        \/ profile'[u] = Written(profile[u], old, new)
    BY <2>1, <2>2 DEF UpdateCommit, TypeOK
  <2>6. Written(profile[u], old, new).role = new.role
          /\ Written(profile[u], old, new).active = new.active
    BY <2>2 DEF Written, Profile, SameAuthority
  <2>7. AdminRemains'
    <3>1. CASE \E v \in User \ {u} : v \in ActiveAdmins
      BY <2>4, <3>1 DEF AdminRemains, ActiveAdmins
    <3>2. CASE ActiveAdmins = {u}
      <4>1. IsActiveAdmin(old) /\ IsActiveAdmin(new)
        BY <2>2, <3>2 DEF AdminSurvives, SameAuthority, ActiveAdmins, IsActiveAdmin
      <4>2. IsActiveAdmin(profile'[u])
        BY <2>2, <2>5, <2>6, <3>2, <4>1 DEF ActiveAdmins, IsActiveAdmin
      <4> QED
        BY <2>2, <4>2 DEF AdminRemains, ActiveAdmins
    <3> QED
      BY <2>2, <3>1, <3>2 DEF ActiveAdmins
  <2> QED
    BY <1>1, <2>3, <2>7
<1>3. CASE \A r \in Request : ~UpdateCommit(r)
  <2>1. \A u \in User : profile[u] # NoProfile => SameAuthority(profile'[u], profile[u])
    BY <1>3, AuthorityStep
  <2>2. ActiveAdmins \subseteq ActiveAdmins'
    <3>1. \A u \in ActiveAdmins : profile[u] # NoProfile
      BY DEF ActiveAdmins, IsActiveAdmin, NoProfile
    <3> QED
      BY <2>1, <3>1 DEF ActiveAdmins, IsActiveAdmin, SameAuthority
  <2>3. AdminRemains'
    <3>1. CASE Provisioned # {}
      BY <2>2, <3>1 DEF AdminRemains
    <3>2. CASE Provisioned = {}
      <4>1. \A u \in User : profile[u] = NoProfile
        BY <3>2 DEF Provisioned
      <4>2. \A u \in User : profile'[u] # NoProfile => profile'[u] = FirstProfile
        BY <3>2, <4>1, NextProfile DEF Admitted
      <4>3. IsActiveAdmin(FirstProfile)
        BY DEF FirstProfile, IsActiveAdmin
      <4> QED
        BY <4>2, <4>3 DEF AdminRemains, Provisioned, ActiveAdmins
    <3> QED
      BY <3>1, <3>2
  <2>4. ASSUME NEW r \in Updater
        PROVE  /\ req'[r].phase = "ready" => SameAuthority(profile'[req'[r].actor], req'[r].self)
               /\ req'[r].phase = "update" =>
                     /\ SameAuthority(profile'[req'[r].target], req'[r].old)
                     /\ IsActiveAdmin(req'[r].old) /\ ~IsActiveAdmin(req'[r].new)
                           => ActiveAdmins' \ {req'[r].target} # {}
    <3>1. r \in Request
      BY ConstantsOK
    <3>2. CASE req'[r] = req[r]
      <4>1. req[r].phase = "ready" =>
               /\ SameAuthority(profile[req[r].actor], req[r].self)
               /\ SameAuthority(profile'[req[r].actor], profile[req[r].actor])
        BY <2>1, <3>1, Phases DEF EditsCurrent, Rows
      <4>2. req[r].phase = "update" =>
               /\ SameAuthority(profile[req[r].target], req[r].old)
               /\ SameAuthority(profile'[req[r].target], profile[req[r].target])
               /\ AdminSurvives(req[r].target, req[r].old, req[r].new)
        BY <2>1, <3>1, Phases DEF EditsCurrent, Rows
      <4> QED
        BY <2>2, <3>2, <4>1, <4>2 DEF SameAuthority, AdminSurvives
    <3>3. CASE req'[r] # req[r]
      <4>1. NoReq.phase = "idle"
        BY DEF NoReq
      <4>2. req'[r].phase = "ready" => SameAuthority(profile'[req'[r].actor], req'[r].self)
        BY <3>1, <3>3, <4>1, NextReq DEF SameAuthority
      <4>3. req'[r].phase = "update" =>
               /\ req'[r].old = profile[req'[r].target]
               /\ AdminSurvives(req'[r].target, req'[r].old, req'[r].new)
               /\ profile' = profile /\ req[r].phase = "ready"
        BY <3>1, <3>3, <4>1, NextReq
      <4>4. req'[r].phase = "update" => SameAuthority(profile'[req'[r].target], req'[r].old)
        BY <4>3 DEF EditsCurrent, SameAuthority
      <4> QED
        BY <2>2, <4>2, <4>3, <4>4 DEF AdminSurvives
    <3> QED
      BY <3>2, <3>3
  <2>5. EditsCurrent'
    BY <2>4 DEF EditsCurrent, AdminSurvives
  <2> QED
    BY <1>1, <2>3, <2>5
<1> QED
  BY <1>2, <1>3

\* As long as edits of users do not overlap, somebody remains an active
\* administrator, whatever sign-ins, invitations, deletions and crashes do.
THEOREM LastAdminKept ==
  ASSUME \A r, s \in Updater : r = s, BootstrapRole = "admin"
  PROVE  Spec => []AdminRemains
<1>1. Init => AdminInv
  BY ConstantsOK DEF Init, AdminInv, AdminRemains, EditsCurrent, Admitted, Provisioned, NoReq
<1>2. TypeOK /\ Rows /\ (TypeOK /\ Rows)' /\ AdminInv /\ [Next]_vars => AdminInv'
  BY AdminStep
<1>3. AdminInv => AdminRemains
  BY DEF AdminInv
<1> QED
  BY <1>1, <1>2, <1>3, TypeInvariant, PTL DEF Spec

(***************************************************************************)
(* The audit trail accounts for the user list.                             *)
(***************************************************************************)

LEMMA TrailGrows ==
  ASSUME TypeOK, [Next]_vars
  PROVE  trail \subseteq trail'
<1>1. ASSUME NEW r \in Request, NEW u \in User,
             SignIn(r, u) \/ Admit(r, u) \/ InviteReplyLost(r, u) \/ Update(r, u)
      PROVE  trail \subseteq trail'
  BY <1>1 DEF SignIn, Admit, CreateRead, InviteSend, InviteReplyLost, Update, UpdateRead,
              RefuseLastAdmin, Record
<1>2. ASSUME NEW r \in Request,
             \/ CountProfiles(r) \/ Bootstrap(r) \/ SelfRegister(r) \/ Leave(r)
             \/ DenyManage(r) \/ CreateCommit(r) \/ InviteCommit(r) \/ UpdateCommit(r)
             \/ Crash(r)
      PROVE  trail \subseteq trail'
  BY <1>2 DEF CountProfiles, Bootstrap, SelfRegister, Provision, Leave, DenyManage,
              CreateCommit, InviteCommit, Insert, UpdateCommit, Crash, Record
<1>3. ASSUME NEW h \in Holder, DeleteHolder(h) PROVE trail \subseteq trail'
  BY <1>3 DEF DeleteHolder
<1> QED
  BY <1>1, <1>2, <1>3 DEF Next, Administer, Proceed, vars

\* An entry is new only when the request whose entry it is commits.
LEMMA NewEntry ==
  ASSUME TypeOK, [Next]_vars, NEW e \in trail' \ trail, Granted(e)
  PROVE  \E r \in Request : /\ req[r].phase \in {"create", "invite", "update"}
                            /\ e.actor = req[r].actor
<1>1. ASSUME NEW r \in Request, NEW u \in User,
             SignIn(r, u) \/ Admit(r, u) \/ InviteReplyLost(r, u) \/ Update(r, u)
      PROVE  e.action = "access_denied"
  BY <1>1 DEF SignIn, Admit, CreateRead, InviteSend, InviteReplyLost, Update, UpdateRead,
              RefuseLastAdmin, Record
<1>2. ASSUME NEW r \in Request,
             CountProfiles(r) \/ Bootstrap(r) \/ SelfRegister(r) \/ Leave(r) \/ DenyManage(r)
                \/ Crash(r)
      PROVE  e.action = "access_denied"
  BY <1>2 DEF CountProfiles, Bootstrap, SelfRegister, Provision, Leave, DenyManage, Crash,
              Record
<1>3. ASSUME NEW r \in Request, CreateCommit(r) \/ InviteCommit(r) \/ UpdateCommit(r)
      PROVE  /\ req[r].phase \in {"create", "invite", "update"}
             /\ e.actor = req[r].actor
  BY <1>3 DEF CreateCommit, InviteCommit, Insert, UpdateCommit, Record
<1>4. ASSUME NEW h \in Holder, DeleteHolder(h) PROVE FALSE
  BY <1>4 DEF DeleteHolder
<1>5. e.action # "access_denied"
  BY DEF Granted
<1> QED
  BY <1>1, <1>2, <1>3, <1>4, <1>5 DEF Next, Administer, Proceed, vars

\* What TrailExplains demands of one profile.
Explained(p, u, entries) ==
    LET By(action, a) == \E e \in entries : e.action = action /\ e.entity = u /\ a \in e.fields
    IN /\ p.origin = "admin" => By("create", "role")
       /\ p # NoProfile /\ ~p.active => By("update", "is_active")
       /\ p.origin = "bootstrap" /\ p.role # BootstrapRole => By("update", "role")
       /\ p.origin = "self" /\ p.role # SelfRegistrationRole => By("update", "role")

LEMMA ExplainsStep ==
  ASSUME {"create", "update"} \subseteq Recorded, TypeOK, Rows, TrailExplains, [Next]_vars
  PROVE  TrailExplains'
<1> SUFFICES ASSUME NEW u \in User PROVE Explained(profile'[u], u, trail')
  BY DEF TrailExplains, Explained
<1>1. Explained(profile[u], u, trail) /\ trail \subseteq trail'
  BY TrailGrows DEF TrailExplains, Explained
<1>2. CASE profile'[u] = profile[u]
  BY <1>1, <1>2 DEF Explained
<1>3. CASE profile'[u] = FirstProfile \/ profile'[u] = WalkinProfile
  BY <1>3 DEF FirstProfile, WalkinProfile, Explained
<1>4. ASSUME NEW r \in Request, req[r].phase \in {"create", "invite"}, req[r].target = u,
             profile'[u] = req[r].new, Record(r, "create", u, {"role", "holder_id"})
      PROVE  Explained(profile'[u], u, trail')
  <2>1. req[r].new.origin = "admin"
    BY <1>4, Phases
  <2>2. [action |-> "create", actor |-> req[r].actor, entity |-> u,
         fields |-> {"role", "holder_id"}] \in trail'
    BY <1>4 DEF Record
  <2>3. req[r].new.active
    BY <1>4, Phases
  <2> QED
    BY <1>4, <2>1, <2>2, <2>3 DEF Explained
<1>5. ASSUME NEW r \in Request, req[r].phase = "update", profile[u] # NoProfile,
             profile'[u] = Written(profile[u], req[r].old, req[r].new),
             Record(r, "update", u, Changed(req[r].old, req[r].new))
      PROVE  Explained(profile'[u], u, trail')
  <2> DEFINE old == req[r].old
             new == req[r].new
             entry == [action |-> "update", actor |-> req[r].actor, entity |-> u,
                       fields |-> Changed(old, new)]
  <2>1. profile[u] \in Profile /\ old \in Profile /\ new \in Profile
    BY <1>5, Phases, ProfileFields
  <2>2. entry \in trail'
    BY <1>5 DEF Record
  <2>3. /\ profile'[u].origin = profile[u].origin
        /\ profile'[u].role = (IF old.role # new.role THEN new.role ELSE profile[u].role)
        /\ profile'[u].active = (IF old.active # new.active THEN new.active
                                 ELSE profile[u].active)
    BY <1>5, <2>1 DEF Written, Profile
  <2>4. /\ old.role # new.role => "role" \in entry.fields
        /\ old.active # new.active => "is_active" \in entry.fields
    BY DEF Changed, Attribute
  <2> QED
    BY <1>1, <1>5, <2>2, <2>3, <2>4 DEF Explained
<1>6. ASSUME profile[u] # NoProfile, profile'[u] = [profile[u] EXCEPT !.holder = None]
      PROVE  Explained(profile'[u], u, trail')
  <2>1. /\ profile'[u].origin = profile[u].origin /\ profile'[u].role = profile[u].role
        /\ profile'[u].active = profile[u].active
    BY <1>6, ProfileFields DEF Profile
  <2> QED
    BY <1>1, <1>6, <2>1 DEF Explained
<1> QED
  BY <1>2, <1>3, <1>4, <1>5, <1>6, NextProfile

\* Every disabled profile, every changed role and every profile an
\* administrator made has its entry, under any interleaving and any crash.
THEOREM TrailExplainsProfiles ==
  ASSUME {"create", "update"} \subseteq Recorded
  PROVE  Spec => []TrailExplains
<1>1. Init => TrailExplains
  BY DEF Init, TrailExplains, NoProfile
<1>2. TypeOK /\ Rows /\ TrailExplains /\ [Next]_vars => TrailExplains'
  BY ExplainsStep
<1> QED
  BY <1>1, <1>2, TypeInvariant, PTL DEF Spec

(***************************************************************************)
(* Authority leads back to the first sign-in.                              *)
(***************************************************************************)

\* Somebody's authority is on record: it is the first user's or was given.
Chained(u) ==
    \/ profile[u].origin = "bootstrap"
    \/ \E g \in trail : Granted(g) /\ g.entity = u /\ g.actor # u /\ "role" \in g.fields
ActsForAdmin(r) ==
    \/ req[r].phase \in {"create", "invite", "update"}
    \/ req[r].phase = "ready" /\ req[r].self.role = "admin"
ChainInv ==
    /\ \A u \in User : profile[u].role = "admin" => Chained(u)
    /\ \A r \in Request : ActsForAdmin(r) => Chained(req[r].actor)
    /\ AuthorityChain

LEMMA ChainedStays ==
  ASSUME TypeOK, Rows, [Next]_vars, NEW u \in User, Chained(u), profile[u] # NoProfile
  PROVE  Chained(u)'
BY TrailGrows, ProfilesStay DEF Chained

LEMMA ChainStep ==
  ASSUME {"create", "update"} \subseteq Recorded, SelfRegistrationRole # "admin",
         TypeOK, TypeOK', Rows, ChainInv, [Next]_vars
  PROVE  ChainInv'
<1>1. ASSUME NEW u \in User, profile'[u].role = "admin" PROVE Chained(u)'
  <2>1. CASE profile[u].role = "admin"
    BY <2>1, ChainedStays DEF ChainInv, NoProfile
  <2>2. CASE profile'[u] = FirstProfile
    BY <2>2 DEF FirstProfile, Chained
  <2>3. ASSUME NEW r \in Request, req[r].phase \in {"create", "invite"}, req[r].target = u,
               profile[u] = NoProfile, Record(r, "create", u, {"role", "holder_id"})
        PROVE  Chained(u)'
    <3>1. req[r].actor # u
      BY <2>3 DEF Rows
    <3>2. [action |-> "create", actor |-> req[r].actor, entity |-> u,
           fields |-> {"role", "holder_id"}] \in trail'
      BY <2>3 DEF Record
    <3> QED
      BY <3>1, <3>2 DEF Chained, Granted
  <2>4. ASSUME NEW r \in Request, req[r].phase = "update", req[r].target = u,
               profile[u] # NoProfile, profile[u].role # "admin",
               profile'[u] = Written(profile[u], req[r].old, req[r].new),
               Record(r, "update", u, Changed(req[r].old, req[r].new))
        PROVE  Chained(u)'
    <3> DEFINE old == req[r].old
               new == req[r].new
    <3>1. profile[u] \in Profile /\ old \in Profile /\ new \in Profile
      BY <2>4, Phases, ProfileFields
    <3>2. profile'[u].role = IF old.role # new.role THEN new.role ELSE profile[u].role
      BY <2>4, <3>1 DEF Written, Profile
    <3>3. old.role # new.role /\ new.role = "admin"
      BY <1>1, <2>4, <3>2
    <3>4. req[r].actor = u => Chained(u)
      BY <2>4 DEF ChainInv, ActsForAdmin
    <3>5. "role" \in Changed(old, new)
      BY <3>3 DEF Changed, Attribute
    <3>6. [action |-> "update", actor |-> req[r].actor, entity |-> u,
           fields |-> Changed(old, new)] \in trail'
      BY <2>4 DEF Record
    <3>7. CASE req[r].actor = u
      BY <2>4, <3>4, <3>7, ChainedStays
    <3>8. CASE req[r].actor # u
      BY <3>5, <3>6, <3>8 DEF Chained, Granted
    <3> QED
      BY <3>7, <3>8
  <2>5. ASSUME profile[u] # NoProfile, profile'[u] = [profile[u] EXCEPT !.holder = None]
        PROVE  profile[u].role = "admin"
    BY <1>1, <2>5, ProfileFields DEF Profile
  <2>6. profile'[u] # WalkinProfile
    BY <1>1 DEF WalkinProfile
  <2> QED
    BY <1>1, <2>1, <2>2, <2>3, <2>4, <2>5, <2>6, NextProfile
<1>2. ASSUME NEW r \in Request, ActsForAdmin(r)' PROVE Chained(req[r].actor)'
  <2>1. NoReq.phase = "idle"
    BY DEF NoReq
  <2>2. CASE req'[r] = req[r] \/ req'[r].phase \in {"create", "invite", "update"}
    <3>1. ActsForAdmin(r) /\ req'[r].actor = req[r].actor
      BY <1>2, <2>1, <2>2, NextReq DEF ActsForAdmin
    <3>2. req[r].actor \in User /\ profile[req[r].actor] # NoProfile
      BY <3>1, Phases DEF ActsForAdmin, Rows
    <3>3. Chained(req[r].actor)
      BY <3>1 DEF ChainInv
    <3>4. \A u \in User : u = req[r].actor => Chained(u)'
      BY <3>2, <3>3, ChainedStays
    <3>5. req'[r].actor \in User /\ req'[r].actor = req[r].actor
      BY <3>1, <3>2
    <3> QED
      BY <3>4, <3>5 DEF Chained
  <2>3. CASE req'[r] # req[r] /\ req'[r].phase \notin {"create", "invite", "update"}
    <3>1. /\ req'[r].phase = "ready" /\ req'[r].self.role = "admin"
      BY <1>2, <2>3 DEF ActsForAdmin
    <3>2. req'[r].actor \in User /\ profile'[req'[r].actor].role = "admin"
      BY <2>1, <2>3, <3>1, NextReq
    <3> QED
      BY <1>1, <3>2 DEF Chained
  <2> QED
    BY <2>2, <2>3
<1>4. ASSUME NEW e \in trail', Granted(e) PROVE Chained(e.actor)'
  <2>1. CASE e \in trail
    <3>1. e.actor \in User /\ Chained(e.actor)
      BY <1>4, <2>1 DEF ChainInv, AuthorityChain, Chained, TypeOK, Entry
    <3>2. CASE profile[e.actor] # NoProfile
      BY <3>1, <3>2, ChainedStays
    <3>3. CASE profile[e.actor] = NoProfile
      <4>1. profile[e.actor].origin # "bootstrap"
        BY <3>3 DEF NoProfile
      <4> QED
        BY <3>1, <4>1, TrailGrows DEF Chained
    <3> QED
      BY <3>2, <3>3
  <2>2. CASE e \notin trail
    <3>1. PICK r \in Request : /\ req[r].phase \in {"create", "invite", "update"}
                               /\ e.actor = req[r].actor
      BY <1>4, <2>2, NewEntry
    <3>2. /\ req[r].actor \in User /\ profile[req[r].actor] # NoProfile
          /\ Chained(req[r].actor)
      BY <3>1, Phases DEF ChainInv, ActsForAdmin, Rows
    <3> QED
      BY <3>1, <3>2, ChainedStays
  <2> QED
    BY <2>1, <2>2
<1>5. AuthorityChain'
  BY <1>4 DEF AuthorityChain, Chained
<1> QED
  BY <1>1, <1>2, <1>5 DEF ChainInv

\* Whoever edited the user list was the first user or got a role from somebody
\* else on record, unless people can register themselves as administrators.
THEOREM AuthorityIsTraced ==
  ASSUME {"create", "update"} \subseteq Recorded, SelfRegistrationRole # "admin"
  PROVE  Spec => []AuthorityChain
<1>1. Init => ChainInv
  BY DEF Init, ChainInv, AuthorityChain, ActsForAdmin, NoReq, NoProfile
<1>2. TypeOK /\ Rows /\ (TypeOK /\ Rows)' /\ ChainInv /\ [Next]_vars => ChainInv'
  BY ChainStep
<1>3. ChainInv => AuthorityChain
  BY DEF ChainInv
<1> QED
  BY <1>1, <1>2, <1>3, TypeInvariant, PTL DEF Spec

(***************************************************************************)
(* Operators and invitations.                                              *)
(***************************************************************************)

\* No organisation comes back once it was deleted.
LEMMA HoldersShrink == [Next]_vars => holder' \subseteq holder
<1> SUFFICES ASSUME [Next]_vars PROVE holder' \subseteq holder
  OBVIOUS
<1>1. CASE UNCHANGED vars
  BY <1>1 DEF vars
<1>2. ASSUME NEW r \in Request, NEW u \in User, SignIn(r, u) PROVE holder' \subseteq holder
  BY <1>2 DEF SignIn
<1>3. ASSUME NEW r \in Request, NEW u \in User, Administer(r, u) PROVE holder' \subseteq holder
  <2>1. CASE Admit(r, u)
    BY <2>1 DEF Admit, CreateRead, InviteSend
  <2>2. CASE InviteReplyLost(r, u)
    BY <2>2 DEF InviteReplyLost
  <2>3. CASE Update(r, u)
    <3>1. PICK p \in Patches : UpdateRead(r, u, p) \/ RefuseLastAdmin(r, u, p)
      BY <2>3 DEF Update
    <3> QED
      BY <3>1 DEF UpdateRead, RefuseLastAdmin
  <2> QED
    BY <1>3, <2>1, <2>2, <2>3 DEF Administer
<1>4. ASSUME NEW r \in Request, Proceed(r) PROVE holder' \subseteq holder
  BY <1>4 DEF Proceed, CountProfiles, Bootstrap, SelfRegister, Provision, Leave, DenyManage,
             CreateCommit, InviteCommit, Insert, UpdateCommit, Crash
<1>5. ASSUME NEW h \in Holder, DeleteHolder(h) PROVE holder' \subseteq holder
  BY <1>5 DEF DeleteHolder
<1> QED
  BY <1>1, <1>2, <1>3, <1>4, <1>5 DEF Next

\* What the handlers are about to write respects the operator's scope.
ScopeInv ==
    /\ OperatorsScoped
    /\ \A r \in Request :
          /\ req[r].phase = "ready" /\ r \in Updater => profile[req[r].actor] = req[r].self
          /\ req[r].phase \in {"create", "invite"} =>
                OperatorScoped(req[r].new.role, req[r].new.holder)
          /\ req[r].phase = "update" =>
                /\ r \in Updater
                /\ profile[req[r].target] = req[r].old
                /\ OperatorScoped(req[r].new.role, req[r].new.holder)

LEMMA ScopeStep ==
  ASSUME \A r, s \in Updater : r = s, BootstrapRole # "operator",
         SelfRegistrationRole # "operator", TypeOK, TypeOK', Rows,
         holder = Holder, holder' = Holder, ScopeInv, [Next]_vars
  PROVE  ScopeInv'
<1>0. NoReq.phase = "idle"
  BY DEF NoReq
<1>1. ASSUME NEW u \in User, profile'[u].role = "operator" PROVE profile'[u].holder # None
  <2>1. FirstProfile.role # "operator" /\ WalkinProfile.role # "operator"
    BY DEF FirstProfile, WalkinProfile
  <2>2. ASSUME NEW r \in Request, req[r].phase = "update", req[r].target = u,
               profile'[u] = Written(profile[u], req[r].old, req[r].new)
        PROVE  profile'[u].role = req[r].new.role /\ profile'[u].holder = req[r].new.holder
    <3>1. profile[u] = req[r].old /\ req[r].old \in Profile /\ req[r].new \in Profile
      BY <2>2, Phases DEF ScopeInv
    <3> QED
      BY <2>2, <3>1 DEF Written, Profile
  <2>3. \/ profile'[u] = profile[u]
        \/ \E r \in Request : /\ req[r].phase \in {"create", "invite"}
                              /\ profile'[u] = req[r].new
        \/ \E r \in Request : /\ req[r].phase = "update" /\ req[r].target = u
                              /\ profile'[u] = Written(profile[u], req[r].old, req[r].new)
    BY <1>1, <2>1, NextProfile
  <2> QED
    BY <1>1, <2>2, <2>3 DEF ScopeInv, OperatorsScoped, OperatorScoped
<1>2. CASE \E r \in Request : UpdateCommit(r)
  <2>1. PICK r \in Request : UpdateCommit(r)
    BY <1>2
  <2>2. /\ r \in Updater /\ req' = [req EXCEPT ![r] = NoReq]
        /\ \A s \in Updater : s = r
    BY <2>1 DEF UpdateCommit, ScopeInv, Ends
  <2>3. \A s \in Request : s # r => req'[s] = req[s] /\ s \notin Updater
    BY <2>2 DEF TypeOK
  <2>4. req'[r].phase = "idle"
    BY <1>0, <2>2 DEF TypeOK
  <2> QED
    BY <1>1, <2>3, <2>4 DEF ScopeInv, OperatorsScoped
<1>3. CASE \A r \in Request : ~UpdateCommit(r)
  <2>1. ASSUME NEW u \in User, profile[u] # NoProfile PROVE profile'[u] = profile[u]
    <3>1. ASSUME NEW r \in Request, Bootstrap(r) \/ SelfRegister(r)
          PROVE  profile'[u] = profile[u]
      BY <2>1, <3>1 DEF Bootstrap, SelfRegister, Provision, TypeOK
    <3>2. ASSUME NEW r \in Request, CreateCommit(r) \/ InviteCommit(r)
          PROVE  profile'[u] = profile[u]
      BY <2>1, <3>2 DEF CreateCommit, InviteCommit, Insert, TypeOK
    <3>3. ASSUME NEW r \in Request, NEW v \in User,
                 SignIn(r, v) \/ Admit(r, v) \/ InviteReplyLost(r, v) \/ Update(r, v)
          PROVE  profile' = profile
      BY <3>3 DEF SignIn, Admit, CreateRead, InviteSend, InviteReplyLost, Update, UpdateRead,
                  RefuseLastAdmin
    <3>4. ASSUME NEW r \in Request,
                 CountProfiles(r) \/ Leave(r) \/ DenyManage(r) \/ Crash(r)
          PROVE  profile' = profile
      BY <3>4 DEF CountProfiles, Leave, DenyManage, Crash
    <3>5. ASSUME NEW h \in Holder PROVE ~DeleteHolder(h)
      BY DEF DeleteHolder
    <3> QED
      BY <1>3, <3>1, <3>2, <3>3, <3>4, <3>5 DEF Next, Administer, Proceed, vars
  <2>2. ASSUME NEW r \in Request
        PROVE  /\ req'[r].phase = "ready" /\ r \in Updater =>
                     profile'[req'[r].actor] = req'[r].self
               /\ req'[r].phase \in {"create", "invite"} =>
                     OperatorScoped(req'[r].new.role, req'[r].new.holder)
               /\ req'[r].phase = "update" =>
                     /\ r \in Updater
                     /\ profile'[req'[r].target] = req'[r].old
                     /\ OperatorScoped(req'[r].new.role, req'[r].new.holder)
    <3>1. CASE req'[r] = req[r]
      <4>1. /\ req[r].phase = "ready" => profile'[req[r].actor] = profile[req[r].actor]
            /\ req[r].phase = "update" => profile'[req[r].target] = profile[req[r].target]
        BY <2>1, Phases DEF Rows
      <4> QED
        BY <3>1, <4>1 DEF ScopeInv
    <3>2. CASE req'[r] # req[r]
      <4>1. req'[r].phase = "update" =>
               /\ r \in Updater /\ req[r].phase = "ready" /\ profile' = profile
               /\ req'[r].old = profile[req'[r].target]
               /\ OperatorScoped(req'[r].new.role, req'[r].new.holder)
        BY <1>0, <3>2, NextReq
      <4>2. req'[r].phase = "update" => profile'[req'[r].target] = req'[r].old
        BY <4>1 DEF ScopeInv
      <4>3. req'[r].phase = "ready" => profile'[req'[r].actor] = req'[r].self
        BY <1>0, <3>2, NextReq
      <4>4. req'[r].phase \in {"create", "invite"} =>
               OperatorScoped(req'[r].new.role, req'[r].new.holder)
        BY <1>0, <3>2, NextReq
      <4> QED
        BY <4>1, <4>2, <4>3, <4>4
    <3> QED
      BY <3>1, <3>2
  <2> QED
    BY <1>1, <2>2 DEF ScopeInv, OperatorsScoped
<1> QED
  BY <1>2, <1>3

\* While edits do not overlap and sign-in makes no operators, every operator
\* has an organisation, until one is deleted.
THEOREM OperatorsKeepScope ==
  ASSUME \A r, s \in Updater : r = s, BootstrapRole # "operator",
         SelfRegistrationRole # "operator"
  PROVE  Spec => []OperatorsScoped
<1> DEFINE Kept == holder = Holder => ScopeInv
<1>1. Init => Kept
  BY DEF Init, ScopeInv, OperatorsScoped, NoReq, NoProfile
<1>2. TypeOK /\ Rows /\ (TypeOK /\ Rows)' /\ Kept /\ [Next]_vars => Kept'
  BY ScopeStep, HoldersShrink DEF TypeOK
<1>3. Kept => OperatorsScoped
  BY DEF ScopeInv, OperatorsScoped
<1> HIDE DEF Kept
<1> QED
  BY <1>1, <1>2, <1>3, TypeInvariant, PTL DEF Spec

\* Between Supabase's answer and the commit, the invitation's organisation is
\* still there.
InviteInv ==
    /\ InvitedHaveRoles
    /\ holder = Holder
    /\ \A r \in Request : req[r].phase = "invite" => KnownHolder(req[r].new.holder)

LEMMA InviteStep ==
  ASSUME {"crash", "lost_reply"} \cap Faults = {}, holder' = Holder, TypeOK, Rows,
         InviteInv, [Next]_vars
  PROVE  InviteInv'
<1> USE DEF Ends
<1>0. NoReq.phase = "idle"
  BY DEF NoReq
<1>1. ASSUME NEW h \in Holder PROVE ~DeleteHolder(h)
  BY DEF DeleteHolder
<1>2. ASSUME NEW r \in Request, req'[r].phase = "invite"
      PROVE  req'[r].new.holder \in Holder \cup {None}
  BY <1>0, <1>2, NextReq DEF InviteInv, KnownHolder
<1>3. ASSUME NEW u \in invited, profile[u] = NoProfile, InFlight(u)
      PROVE  profile'[u] # NoProfile \/ InFlight(u)'
  <2>1. PICK r \in Request : req[r].phase = "invite" /\ req[r].target = u
    BY <1>3 DEF InFlight
  <2>2. CASE InviteCommit(r)
    <3>1. /\ u \in User /\ req[r].new \in Profile /\ KnownHolder(req[r].new.holder)
      BY <2>1, Phases DEF InviteInv
    <3>2. profile'[u] = req[r].new
      BY <1>3, <2>1, <2>2, <3>1 DEF InviteCommit, Insert, TypeOK
    <3> QED
      BY <3>1, <3>2 DEF NoProfile, Profile, Role
  <2>3. CASE ~InviteCommit(r)
    <3>1. req'[r] = req[r]
      <4>1. ASSUME NEW s \in Request, s # r,
                   \/ \E v \in User : \/ SignIn(s, v) \/ Admit(s, v) \/ InviteReplyLost(s, v)
                                      \/ Update(s, v)
                   \/ CountProfiles(s) \/ Bootstrap(s) \/ SelfRegister(s) \/ Leave(s)
                   \/ DenyManage(s) \/ CreateCommit(s) \/ InviteCommit(s) \/ UpdateCommit(s)
            PROVE  req'[r] = req[r]
        BY <4>1 DEF SignIn, Admit, CreateRead, InviteSend, Pending, InviteReplyLost, Update,
                    UpdateRead, RefuseLastAdmin, CountProfiles, Bootstrap, SelfRegister,
                    Provision, Leave, DenyManage, CreateCommit, InviteCommit, Insert,
                    UpdateCommit, TypeOK
      <4>2. /\ \A v \in User : ~SignIn(r, v) /\ ~Admit(r, v) /\ ~InviteReplyLost(r, v)
                                 /\ ~Update(r, v)
            /\ ~CountProfiles(r) /\ ~Bootstrap(r) /\ ~SelfRegister(r) /\ ~Leave(r)
            /\ ~DenyManage(r) /\ ~CreateCommit(r) /\ ~UpdateCommit(r)
        BY <2>1 DEF SignIn, Admit, CreateRead, InviteSend, MayManage, InviteReplyLost, Update,
                    UpdateRead, Editable, RefuseLastAdmin, CountProfiles, Bootstrap,
                    SelfRegister, Leave, DenyManage, CreateCommit, UpdateCommit
      <4>3. (\A s \in Request : ~Crash(s)) /\ \A h \in Holder : ~DeleteHolder(h)
        BY <1>1 DEF Crash
      <4> QED
        BY <2>3, <4>1, <4>2, <4>3 DEF Next, Administer, Proceed, vars
    <3> QED
      BY <2>1, <3>1 DEF InFlight
  <2> QED
    BY <2>2, <2>3
<1>4. ASSUME NEW u \in invited', u \notin invited
      PROVE  profile'[u] # NoProfile \/ InFlight(u)'
  <2>1. ASSUME NEW r \in Request, NEW v \in User, InviteReplyLost(r, v) PROVE FALSE
    BY <2>1 DEF InviteReplyLost
  <2>2. ASSUME NEW r \in Request, NEW v \in User,
               SignIn(r, v) \/ Update(r, v)
        PROVE  FALSE
    BY <1>4, <2>2 DEF SignIn, Update, UpdateRead, RefuseLastAdmin
  <2>3. ASSUME NEW r \in Request,
               \/ CountProfiles(r) \/ Bootstrap(r) \/ SelfRegister(r) \/ Leave(r)
               \/ DenyManage(r) \/ CreateCommit(r) \/ InviteCommit(r) \/ UpdateCommit(r)
               \/ Crash(r)
        PROVE  FALSE
    BY <1>4, <2>3 DEF CountProfiles, Bootstrap, SelfRegister, Provision, Leave, DenyManage,
                CreateCommit, InviteCommit, Insert, UpdateCommit, Crash
  <2>4. ASSUME NEW h \in Holder, DeleteHolder(h) PROVE FALSE
    BY <2>4 DEF DeleteHolder
  <2>5. ASSUME NEW r \in Request, NEW v \in User, Admit(r, v)
        PROVE  InFlight(u)'
    <3>1. PICK role \in Assignable, h \in Holder \cup {None} : InviteSend(r, v, role, h)
      BY <1>4, <2>5 DEF Admit, CreateRead
    <3>2. u = v
      BY <1>4, <3>1 DEF InviteSend
    <3>3. req[r] \in Req
      BY <3>1 DEF InviteSend, MayManage, TypeOK, NoReq
    <3>4. req'[r].phase = "invite" /\ req'[r].target = u
      BY <3>1, <3>2, <3>3 DEF InviteSend, Pending, TypeOK, Req
    <3> QED
      BY <3>4 DEF InFlight
  <2> QED
    BY <1>4, <2>1, <2>2, <2>3, <2>4, <2>5 DEF Next, Administer, Proceed, vars
<1>5. InvitedHaveRoles'
  <2>1. ASSUME NEW u \in invited PROVE profile'[u] # NoProfile \/ InFlight(u)'
    <3>1. CASE profile[u] # NoProfile
      BY <3>1, ProfilesStay DEF TypeOK
    <3>2. CASE profile[u] = NoProfile
      BY <1>3, <3>2 DEF InviteInv, InvitedHaveRoles
    <3> QED
      BY <3>1, <3>2
  <2> QED
    BY <1>4, <2>1 DEF InvitedHaveRoles
<1> QED
  BY <1>1, <1>2, <1>5 DEF InviteInv, KnownHolder

\* Without crashes and lost answers, and until a holder is deleted, everybody
\* invited has a role as soon as no invitation of theirs is under way, however
\* requests race.
THEOREM InvitedGetRoles ==
  ASSUME {"crash", "lost_reply"} \cap Faults = {}
  PROVE  Spec => []InvitedHaveRoles
<1> DEFINE Kept == holder = Holder => InviteInv
<1>1. Init => Kept
  BY DEF Init, InviteInv, InvitedHaveRoles, NoReq
<1>2. TypeOK /\ Rows /\ (TypeOK /\ Rows)' /\ Kept /\ [Next]_vars => Kept'
  BY InviteStep, HoldersShrink DEF TypeOK
<1>3. Kept => InvitedHaveRoles
  BY DEF InviteInv, InvitedHaveRoles
<1> HIDE DEF Kept
<1> QED
  BY <1>1, <1>2, <1>3, TypeInvariant, PTL DEF Spec

(***************************************************************************)
(* Access.                                                                 *)
(***************************************************************************)

\* What Access does to users is a step of UserAdmin.
LEMMA AccessStep == [AccessNext]_accessVars => [Next]_vars
<1>1. ASSUME NEW r \in Request, NEW u \in User, Present(r, u)
      PROVE  SignIn(r, u) \/ UNCHANGED vars
  BY <1>1 DEF Present
<1>2. ASSUME NEW r \in Request, Finish(r) PROVE Proceed(r)
  BY <1>2 DEF Finish, Proceed
<1>3. ASSUME People PROVE Next
  BY <1>3 DEF People, Dissolvable, Next
<1> QED
  BY <1>1, <1>2, <1>3 DEF AccessNext, accessVars, Next

\* Access implements UserAdmin: verification, authorisation and what befalls the
\* keys, the process and the leases add nothing to how users are administered,
\* so whatever holds of UserAdmin holds of the whole.
THEOREM AccessImplements == AccessSpec => Spec
<1>1. AccessInit => Init
  BY DEF AccessInit
<1> QED
  BY <1>1, AccessStep, PTL DEF AccessSpec, Spec

\* A handler moves on its own request only.
LEMMA OwnRequest ==
  ASSUME TypeOK, NEW r \in Request, NEW s \in Request, r # s,
         \/ Proceed(r)
         \/ \E u \in User : SignIn(r, u) \/ Administer(r, u)
  PROVE  req'[s] = req[s]
BY DEF Proceed, Administer, Ends, SignIn, Admit, CreateRead, InviteSend, Pending,
       InviteReplyLost, Update, UpdateRead, RefuseLastAdmin, CountProfiles, Bootstrap,
       SelfRegister, Provision, Leave, DenyManage, CreateCommit, InviteCommit, Insert,
       UpdateCommit, Crash, TypeOK

Call == [stage : {"none", "unauthorized", "working", "denying", "denied"},
         user : User \cup {None}, lease : Lease \cup {None}]
\* What the browsers and the requests hold; the keys of accepted sessions have
\* been found and are kept.
AccessInv ==
    /\ session \in [User -> {NoSession} \cup [key : Key, live : BOOLEAN]]
    /\ call \in [Request -> Call]
    /\ opened \subseteq known

\* A request comes to hold a call by one of five handlers.
LEMMA NextCall ==
  ASSUME TypeOK, AccessInv, [AccessNext]_accessVars, NEW r \in Request, call'[r] # call[r]
  PROVE  \/ /\ call[r] = NoCall /\ call'[r].stage = "unauthorized"
            /\ call'[r].user \in User
            /\ Present(r, call'[r].user) /\ UNCHANGED vars
         \/ \E l \in Lease : LookUp(r, l) /\ UNCHANGED vars /\ call'[r].lease = l
         \/ call[r].stage = "denying" /\ call'[r].stage = "denied" /\ UNCHANGED vars
         \/ call'[r] = NoCall
<1>1. ASSUME NEW s \in Request, NEW u \in User, Present(s, u)
      PROVE  /\ call[r] = NoCall /\ call'[r].stage = "unauthorized" /\ call'[r].user = u
             /\ s = r /\ UNCHANGED vars
  BY <1>1 DEF Present, AccessInv, NoCall
<1>2. ASSUME NEW s \in Request, NEW l \in Lease, LookUp(s, l)
      PROVE  s = r /\ call'[r].lease = l
  BY <1>2 DEF LookUp, AccessInv
<1>3. ASSUME NEW s \in Request, RecordDenied(s)
      PROVE  call[r].stage = "denying" /\ call'[r].stage = "denied"
  BY <1>3 DEF RecordDenied, AccessInv, Call
<1>4. ASSUME NEW s \in Request, TurnAway(s) \/ Finish(s)
      PROVE  call'[r] = NoCall
  BY <1>4 DEF TurnAway, Finish, AccessInv
<1>5. ASSUME NEW l \in Lease, NEW h \in Holder, Reassign(l, h) PROVE FALSE
  BY <1>5 DEF Reassign
<1> QED
  BY <1>1, <1>2, <1>3, <1>4, <1>5 DEF AccessNext, Authorise, leaseVars, accessVars

LEMMA KeysStep ==
  ASSUME TypeOK, AccessInv, [AccessNext]_accessVars
  PROVE  AccessInv'
<1>1. session' \in [User -> {NoSession} \cup [key : Key, live : BOOLEAN]] /\ opened' \subseteq known'
  <2>1. CASE Supabase
    <3>1. ASSUME NEW u \in User, NEW k \in Key, Issue(u, k)
          PROVE  session' \in [User -> {NoSession} \cup [key : Key, live : BOOLEAN]]
                 /\ opened' \subseteq known'
      BY <3>1 DEF Issue, AccessInv
    <3>2. ASSUME NEW u \in User, Expire(u)
          PROVE  session' \in [User -> {NoSession} \cup [key : Key, live : BOOLEAN]]
                 /\ opened' \subseteq known'
      <4>1. session[u] \in [key : Key, live : BOOLEAN]
        BY <3>2 DEF Expire, AccessInv, NoSession
      <4>2. [session[u] EXCEPT !.live = FALSE] \in [key : Key, live : BOOLEAN]
        BY <4>1
      <4> QED
        BY <3>2, <4>2 DEF Expire, AccessInv
    <3>3. ASSUME (\E k \in Kid : Rotate(k)) \/ Contact \/ Lapse \/ Restart
          PROVE  session' = session /\ opened' \subseteq known'
      BY <3>3 DEF Rotate, Contact, Lapse, Restart, AccessInv
    <3> QED
      BY <2>1, <3>1, <3>2, <3>3 DEF Supabase, AccessInv
  <2>2. ASSUME NEW r \in Request, NEW u \in User, Present(r, u)
        PROVE  session' = session /\ opened' \subseteq known'
    <3>1. PICK found \in BOOLEAN :
             /\ ResolveKey(session[u].key, found)
             /\ IF Verified(session[u], found)
                THEN opened' = opened \cup ({session[u].key} \cap Kid)
                ELSE opened' = opened
      BY <2>2, Zenon DEF Present
    <3>2. known \subseteq known' /\ (found /\ session[u].key \in Kid => session[u].key \in known')
      BY <3>1, AccessConstantsOK DEF ResolveKey, FindKey
    <3> QED
      BY <2>2, <3>1, <3>2 DEF Present, Verified, AccessInv
  <2>3. CASE UNCHANGED keyVars
    BY <2>3 DEF keyVars, AccessInv
  <2> QED
    BY <2>1, <2>2, <2>3 DEF AccessNext, accessVars, AccessInv
<1>2. NoCall \in Call /\ \A u \in User : [NoCall EXCEPT !.stage = "unauthorized", !.user = u] \in Call
  BY DEF NoCall, Call
<1>3. call' \in [Request -> Call]
  <2>1. ASSUME NEW r \in Request, NEW u \in User, Present(r, u)
        PROVE  call' \in [Request -> Call]
    BY <1>2, <2>1 DEF Present, AccessInv
  <2>2. ASSUME NEW r \in Request, NEW l \in Lease, LookUp(r, l)
        PROVE  call' \in [Request -> Call]
    <3>1. req[r].actor \in User
      BY <2>2, Phases DEF LookUp
    <3>2. [stage |-> IF MayReach(req[r].self, l) THEN "working" ELSE "denying",
           user |-> req[r].actor, lease |-> l] \in Call
      BY <3>1 DEF Call
    <3> QED
      BY <2>2, <3>2 DEF LookUp, AccessInv
  <2>3. ASSUME NEW r \in Request, RecordDenied(r)
        PROVE  call' \in [Request -> Call]
    <3>1. call[r] \in Call
      BY DEF AccessInv
    <3>2. [call[r] EXCEPT !.stage = "denied"] \in Call
      BY <3>1 DEF Call
    <3> QED
      BY <2>3, <3>2 DEF RecordDenied, AccessInv
  <2>4. ASSUME NEW r \in Request, TurnAway(r) \/ Finish(r)
        PROVE  call' \in [Request -> Call]
    BY <1>2, <2>4 DEF TurnAway, Finish, AccessInv
  <2>5. ASSUME NEW l \in Lease, NEW h \in Holder, Reassign(l, h) PROVE call' = call
    BY <2>5 DEF Reassign
  <2> QED
    BY <2>1, <2>2, <2>3, <2>4, <2>5 DEF AccessNext, Authorise, leaseVars, accessVars, AccessInv
<1> QED
  BY <1>1, <1>3 DEF AccessInv

\* No outstanding session is turned away but for a reason, on every
\* interleaving of rotations, outages, lapses of the key set and restarts.
THEOREM SessionsKept == AccessSpec => SessionsContinue
<1> DEFINE Continues ==
             \A r \in Request : Unauthorized(r)' /\ ~Unauthorized(r) =>
                LET t == session[call'[r].user]
                IN t.live => \/ t.key = Secret /\ "secret" \notin Configured
                             \/ t.key \in Kid /\ "url" \notin Configured
                             \/ /\ t.key \in Kid \ opened
                                /\ ~reachable \/ t.key \notin published
<1>1. AccessInit => AccessInv
  BY DEF AccessInit, AccessInv, NoSession, NoCall, Call, Key
<1>2. TypeOK /\ AccessInv /\ [AccessNext]_accessVars => AccessInv'
  BY KeysStep
<1>3. TypeOK /\ AccessInv /\ [AccessNext]_accessVars => Continues
  <2> SUFFICES ASSUME TypeOK, AccessInv, [AccessNext]_accessVars, NEW r \in Request,
                      Unauthorized(r)', ~Unauthorized(r), session[call'[r].user].live
               PROVE  LET t == session[call'[r].user]
                      IN \/ t.key = Secret /\ "secret" \notin Configured
                         \/ t.key \in Kid /\ "url" \notin Configured
                         \/ /\ t.key \in Kid \ opened
                            /\ ~reachable \/ t.key \notin published
    OBVIOUS
  <2> DEFINE u == call'[r].user
             t == session[u]
  <2>1. u \in User /\ Present(r, u)
    <3>1. call'[r] # call[r] /\ call'[r].stage = "unauthorized"
      BY DEF Unauthorized
    <3>2. ASSUME NEW l \in Lease, LookUp(r, l) PROVE call'[r].stage # "unauthorized"
      BY <3>2 DEF LookUp, AccessInv
    <3> QED
      BY <3>1, <3>2, NextCall DEF NoCall
  <2>2. t \in [key : Key, live : BOOLEAN]
    BY <2>1 DEF AccessInv, NoSession
  <2>3. PICK found \in BOOLEAN : ResolveKey(t.key, found) /\ ~Verified(t, found)
    <3>1. PICK found \in BOOLEAN : /\ ResolveKey(t.key, found)
                                   /\ Verified(t, found) => UNCHANGED call
      BY <2>1, Zenon DEF Present
    <3>2. call' # call
      BY DEF Unauthorized
    <3> QED
      BY <3>1, <3>2
  <2>4. ~found
    BY <2>2, <2>3 DEF Verified
  <2> HIDE DEF t, u
  <2> QED
    BY <2>2, <2>3, <2>4 DEF ResolveKey, FindKey, AccessInv, Key, t, u
<1>4. AccessSpec => [](TypeOK /\ AccessInv)
  <2>1. AccessSpec => []TypeOK
    BY AccessImplements, TypeInvariant, PTL
  <2> QED
    BY <1>1, <1>2, <2>1, PTL DEF AccessSpec
<1>5. AccessSpec => [][Continues]_accessVars
  BY <1>3, <1>4, PTL DEF AccessSpec
<1> QED
  BY <1>5 DEF SessionsContinue

\* Until a request looks a lease up, every lease that its principal may reach has been
\* in reach, or was given away to where the caller has left from; and it works on
\* what it looked up.
ReachInv ==
    \A r \in Request :
        /\ call[r].stage \in {"working", "denying", "denied"} => Ready(r)
        /\ call[r].stage = "unauthorized" => ~Ready(r)
        /\ Ready(r) => req[r].self.active
        /\ Ready(r) /\ call[r] = NoCall =>
              \A l \in Lease : MayReach(req[r].self, l) => <<r, l>> \in reached \cup crossed
        /\ call[r].stage = "working" =>
              call[r].lease \in Lease /\ <<r, call[r].lease>> \in reached \cup crossed

\* While a request is under way, what it could reach stays noted.
LEMMA ReachStays ==
  ASSUME [AccessNext]_accessVars, NEW r \in Request, NEW l \in Lease, Ready(r)',
         <<r, l>> \in reached \cup crossed
  PROVE  <<r, l>> \in (reached \cup crossed)'
<1>1. CASE AccessNext
  BY <1>1, Zenon DEF AccessNext
<1>2. CASE UNCHANGED accessVars
  BY <1>2 DEF accessVars
<1> QED
  BY <1>1, <1>2

\* Where a call is under way, the request moves only by ending.
LEMMA CallHoldsRequest ==
  ASSUME TypeOK, AccessInv, [AccessNext]_accessVars, NEW r \in Request, call[r] # NoCall
  PROVE  \/ req'[r] = req[r] /\ (call'[r] = NoCall => call[r].stage = "unauthorized")
         \/ req'[r] = NoReq /\ call'[r] = NoCall
<1>1. ASSUME NEW s \in Request, NEW u \in User, Present(s, u)
      PROVE  req'[r] = req[r] /\ call'[r] = call[r]
  <2>1. s # r /\ (SignIn(s, u) \/ UNCHANGED vars)
    BY <1>1 DEF Present
  <2>2. call'[r] = call[r]
    BY <1>1, <2>1 DEF Present, AccessInv
  <2> QED
    BY <2>1, <2>2, OwnRequest DEF vars
<1>2. ASSUME NEW s \in Request, Finish(s)
      PROVE  \/ req'[r] = req[r] /\ call'[r] = call[r]
             \/ req'[r] = NoReq /\ call'[r] = NoCall
  <2>1. CASE s = r
    BY <1>2, <2>1 DEF Finish, Leave, Ends, AccessInv, TypeOK
  <2>2. CASE s # r
    <3>1. call'[r] = call[r]
      BY <1>2, <2>2 DEF Finish, AccessInv
    <3> QED
      BY <1>2, <2>2, <3>1, OwnRequest DEF Finish, Proceed
  <2> QED
    BY <2>1, <2>2
<1>3. ASSUME People PROVE req'[r] = req[r]
  <2>1. ASSUME NEW s \in Request, call[s] = NoCall,
               Proceed(s) \/ \E u \in User : Administer(s, u)
        PROVE  req'[r] = req[r]
    BY <2>1, OwnRequest
  <2>2. ASSUME NEW h \in Holder, DeleteHolder(h) PROVE req' = req
    BY <2>2 DEF DeleteHolder
  <2> QED
    BY <1>3, <2>1, <2>2 DEF People, Dissolvable
<1>4. ASSUME Authorise PROVE call'[r] = NoCall => call[r].stage = "unauthorized"
  <2>1. ASSUME NEW s \in Request, NEW l \in Lease, LookUp(s, l) PROVE call'[r] = call[r]
    BY <2>1 DEF LookUp, AccessInv
  <2>2. ASSUME NEW s \in Request, RecordDenied(s) PROVE call'[r] # NoCall
    BY <2>2 DEF RecordDenied, AccessInv, Call, NoCall
  <2>3. ASSUME NEW s \in Request, TurnAway(s)
        PROVE  call'[r] = call[r] \/ call[r].stage = "unauthorized"
    BY <2>3 DEF TurnAway, AccessInv
  <2> QED
    BY <1>4, <2>1, <2>2, <2>3 DEF Authorise
<1>5. ASSUME NEW l \in Lease, NEW h \in Holder, Reassign(l, h) PROVE call' = call
  BY <1>5 DEF Reassign
<1> QED
  BY <1>1, <1>2, <1>3, <1>4, <1>5 DEF AccessNext, accessVars, leaseVars, vars

LEMMA ReachStep ==
  ASSUME TypeOK, Rows, AccessInv, ReachInv, [AccessNext]_accessVars
  PROVE  ReachInv'
<1> SUFFICES ASSUME NEW r \in Request
             PROVE  /\ call'[r].stage \in {"working", "denying", "denied"} => Ready(r)'
                    /\ call'[r].stage = "unauthorized" => ~Ready(r)'
                    /\ Ready(r)' => req'[r].self.active
                    /\ Ready(r)' /\ call'[r] = NoCall =>
                          \A l \in Lease : MayReach(req[r].self, l)' =>
                             <<r, l>> \in (reached \cup crossed)'
                    /\ call'[r].stage = "working" =>
                          /\ call'[r].lease \in Lease
                          /\ <<r, call'[r].lease>> \in (reached \cup crossed)'
  BY DEF ReachInv
<1>0. NoReq.phase = "idle" /\ NoCall.stage = "none"
  BY DEF NoReq, NoCall
<1>1. ASSUME Ready(r)', req'[r] # req[r]
      PROVE  /\ req'[r].self = profile'[req'[r].actor] /\ req'[r].self.active
             /\ call[r] = NoCall
  <2>1. call[r] = NoCall
    BY <1>0, <1>1, CallHoldsRequest DEF Ready
  <2> QED
    BY <1>0, <1>1, <2>1, AccessStep, NextReq DEF Ready
<1>2. ASSUME call'[r] # call[r], call'[r].stage \in {"working", "denying", "denied"}
      PROVE  /\ UNCHANGED vars
             /\ \/ \E l \in Lease : LookUp(r, l) /\ call'[r].lease = l
                \/ call[r].stage = "denying" /\ call'[r].stage = "denied"
  BY <1>0, <1>2, NextCall
<1>3. call'[r].stage \in {"working", "denying", "denied"} => Ready(r)'
  BY <1>0, <1>2, CallHoldsRequest DEF ReachInv, LookUp, Ready, vars
<1>4. call'[r].stage = "unauthorized" => ~Ready(r)'
  <2>1. CASE call'[r] = call[r]
    BY <1>0, <2>1, CallHoldsRequest DEF ReachInv, Ready
  <2>2. CASE call'[r] # call[r] /\ call'[r].stage = "unauthorized"
    <3>1. Present(r, call'[r].user) /\ UNCHANGED vars
      <4>1. ASSUME NEW l \in Lease, LookUp(r, l) PROVE call'[r].stage # "unauthorized"
        BY <4>1 DEF LookUp, AccessInv
      <4> QED
        BY <1>0, <2>2, <4>1, NextCall
    <3> QED
      BY <1>0, <3>1 DEF Present, Ready, vars
  <2> QED
    BY <2>1, <2>2
<1>5. Ready(r)' => req'[r].self.active
  BY <1>1 DEF ReachInv, Ready
<1>6. ASSUME Ready(r)', call'[r] = NoCall, NEW l \in Lease, MayReach(req[r].self, l)'
      PROVE  <<r, l>> \in (reached \cup crossed)'
  <2>1. ASSUME AccessNext, req'[r].self = profile'[req'[r].actor]
        PROVE  <<r, l>> \in reached'
    <3>1. l \in Portfolio(profile[req[r].actor])'
      BY <1>5, <1>6, <2>1 DEF Portfolio, MayReach
    <3> QED
      BY <1>6, <2>1, <3>1, Zenon DEF AccessNext
  <2>2. CASE req'[r] # req[r]
    BY <1>1, <1>6, <2>1, <2>2 DEF accessVars, vars
  <2>3. CASE req'[r] = req[r]
    <3>1. Ready(r) /\ call[r] = NoCall
      BY <1>0, <1>6, <2>3, CallHoldsRequest DEF ReachInv, Ready
    <3>2. CASE MayReach(req[r].self, l)
      BY <1>6, <3>1, <3>2, ReachStays DEF ReachInv
    <3>3. CASE ~MayReach(req[r].self, l)
      <4>1. lessee'[l] = req[r].self.holder /\ lessee'[l] # lessee[l]
        BY <1>6, <2>3, <3>3 DEF MayReach
      <4>2. AccessNext /\ UNCHANGED vars
        BY <4>1 DEF AccessNext, accessVars, leaseVars, Present, Authorise, LookUp, RecordDenied,
                    TurnAway, Finish
      <4>3. CASE profile[req[r].actor] = req[r].self
        BY <2>1, <4>2, <4>3 DEF vars
      <4>4. CASE profile[req[r].actor] # req[r].self
        <5>1. Crosses(r, l)
          BY <3>1, <4>1, <4>4 DEF Crosses
        <5> QED
          BY <1>6, <4>2, <5>1, Zenon DEF AccessNext
      <4> QED
        BY <4>3, <4>4
    <3> QED
      BY <3>2, <3>3
  <2> QED
    BY <2>2, <2>3
<1>7. ASSUME call'[r].stage = "working"
      PROVE  call'[r].lease \in Lease /\ <<r, call'[r].lease>> \in (reached \cup crossed)'
  <2>1. CASE call'[r] = call[r]
    BY <1>3, <1>7, <2>1, ReachStays DEF ReachInv
  <2>2. CASE call'[r] # call[r]
    <3>1. PICK l \in Lease : LookUp(r, l) /\ call'[r].lease = l
      BY <1>2, <1>7, <2>2
    <3>2. MayReach(req[r].self, l) /\ Ready(r) /\ call[r] = NoCall
      BY <1>7, <3>1 DEF LookUp, AccessInv, Ready
    <3> QED
      BY <1>3, <1>7, <3>1, <3>2, ReachStays DEF ReachInv
  <2> QED
    BY <2>1, <2>2
<1> QED
  BY <1>3, <1>4, <1>5, <1>6, <1>7

\* Whoever works on a lease could reach it at some moment since the request signed in,
\* however its caller and the lease were changed in between, but for the one crossing.
THEOREM WorkWasReached == AccessSpec => []WorkWasInReach
<1>1. AccessInit => AccessInv /\ ReachInv
  BY DEF AccessInit, Init, AccessInv, ReachInv, NoSession, NoCall, NoReq, Call, Key, Ready
<1>2. TypeOK /\ Rows /\ AccessInv /\ ReachInv /\ [AccessNext]_accessVars
         => (AccessInv /\ ReachInv)'
  BY KeysStep, ReachStep
<1>3. ReachInv => WorkWasInReach
  BY DEF ReachInv, WorkWasInReach
<1>4. AccessSpec => [](TypeOK /\ Rows)
  BY AccessImplements, TypeInvariant, PTL
<1> QED
  BY <1>1, <1>2, <1>3, <1>4, PTL DEF AccessSpec
=============================================================================
