-------------------------------- MODULE Access --------------------------------
(***************************************************************************)
(* The way of a request through verification of its session, sign-in and   *)
(* authorisation to a lease, beside the administration of users and the    *)
(* reassignment of leases.                                                 *)
(* (services/api/app/core/security.py, core/permissions.py, api/deps.py,   *)
(* services/authorization.py, services/audit.py, api/v1/leases.py)         *)
(*                                                                         *)
(* Supabase signs sessions, with the shared secret or with keys that it    *)
(* publishes and rotates.  The key client of this process keeps the set it *)
(* fetched last, for a while, and every key it ever found, for good; the   *)
(* cache of found keys never fills up here (its limit is 16 keys), a fetch *)
(* is answered at once or not at all, and the ten seconds of leeway are    *)
(* part of a token's life.  A person's browser holds one session.  Of the  *)
(* handlers behind assert_lease_access (download, analyse, list, sweep)    *)
(* all that is kept is that they act on the lease for a while.             *)
(***************************************************************************)
EXTENDS UserAdmin

CONSTANTS
    Lease,
    Kid,          \* the signing keys Supabase publishes
    Secret,       \* SUPABASE_JWT_SECRET, as a key
    Configured,   \* which of "secret" and "url" the deployment has
    Office,       \* the requests that may turn into one to /users
    Crew          \* who acts: sets of requests, of "keys" (Supabase and the network)
                  \* and of "register" (edits of leases and organisations)

Key == Kid \cup {Secret}

ASSUME AccessConstantsOK ==
    /\ Secret \notin Kid
    /\ Configured \subseteq {"secret", "url"}
    /\ Office \subseteq Request
    /\ Crew \subseteq SUBSET (Request \cup {"keys", "register"})

VARIABLES
    session,     \* the access token each person's browser holds
    published,   \* the keys Supabase's endpoint lists
    reachable,   \* whether that endpoint answers
    fetched,     \* the key set the client keeps, empty when it has none
    known,       \* the keys the client has found
    opened,      \* the published keys a session was accepted with since the process
                 \* started (no code keeps this)
    lessee,      \* the holder of each lease
    call,        \* where the requests are that use a lease or were turned away
    refusals,    \* audit_log entries about leases out of reach
    reached,     \* the pairs of a request and a lease that its caller could reach at some
                 \* moment since it signed in (no code keeps this)
    crossed,     \* the other pairs whose lease was given to the caller's organisation of
                 \* sign-in when the profile was another already (nor this)
    crew         \* who acts in this behaviour

keyVars == <<session, published, reachable, fetched, known, opened>>
leaseVars == <<lessee, call, refusals>>
accessVars == <<vars, keyVars, leaseVars, reached, crossed, crew>>

NoSession == [key |-> None, live |-> FALSE]
NoCall == [stage |-> "none", user |-> None, lease |-> None]

\* Without Supabase among the actors everybody is signed in by the secret.
AccessInit ==
    /\ Init
    /\ crew \in Crew
    /\ session = [u \in User |-> IF "keys" \in crew THEN NoSession
                                 ELSE [key |-> Secret, live |-> TRUE]]
    /\ published \in {{k} : k \in Kid}
    /\ reachable = TRUE
    /\ fetched = {} /\ known = {} /\ opened = {}
    /\ lessee \in [Lease -> Holder]
    /\ call = [r \in Request |-> NoCall]
    /\ refusals = {}
    /\ reached = {} /\ crossed = {}

(***************************************************************************)
(* Supabase, the network and the process.                                  *)
(***************************************************************************)

\* A person signs in at Supabase, or the client refreshes the session.
Issue(u, k) ==
    /\ k \in published \cup {Secret}
    /\ session' = [session EXCEPT ![u] = [key |-> k, live |-> TRUE]]
    /\ UNCHANGED <<published, reachable, fetched, known, opened>>

Expire(u) ==
    /\ session[u].live
    /\ session' = [session EXCEPT ![u].live = FALSE]
    /\ UNCHANGED <<published, reachable, fetched, known, opened>>

\* Supabase adds a key, or withdraws one but the last.
Rotate(k) ==
    /\ published # {k}
    /\ published' = IF k \in published THEN published \ {k} ELSE published \cup {k}
    /\ UNCHANGED <<session, reachable, fetched, known, opened>>

Contact ==
    /\ reachable' = ~reachable
    /\ UNCHANGED <<session, published, fetched, known, opened>>

\* The key set has outlived its lifespan.
Lapse ==
    /\ fetched # {}
    /\ fetched' = {}
    /\ UNCHANGED <<session, published, reachable, known, opened>>

\* The process starts anew; what was under way has gone by Crash.
Restart ==
    /\ \A r \in Request : req[r] = NoReq
    /\ fetched' = {} /\ known' = {} /\ opened' = {}
    /\ UNCHANGED <<session, published, reachable>>

(***************************************************************************)
(* Verification.                                                           *)
(***************************************************************************)

\* Mutant: a key missing from the key set is not looked for again.
FindKeyOnce(k, found) ==
    /\ found = (k \in known \cup fetched \/ (fetched = {} /\ reachable /\ k \in published))
    /\ fetched' = IF k \in known \/ fetched # {} THEN fetched
                  ELSE IF reachable THEN published ELSE {}
    /\ known' = IF found THEN known \cup {k} ELSE known

\* get_signing_key_from_jwt: a key found before, or one of the key set, or of
\* the set fetched anew.  A fetch that fails drops the set.
FindKey(k, found) ==
    /\ found = (k \in known \cup fetched \/ (reachable /\ k \in published))
    /\ fetched' = IF k \in known \cup fetched THEN fetched
                  ELSE IF reachable THEN published ELSE {}
    /\ known' = IF found THEN known \cup {k} ELSE known

\* The scheme is the token's, as far as the deployment is configured for it.
ResolveKey(k, found) ==
    \/ k \in Kid /\ "url" \in Configured /\ FindKey(k, found)
    \/ /\ k = Secret \/ "url" \notin Configured
       /\ found = (k = Secret /\ "secret" \in Configured)
       /\ UNCHANGED <<fetched, known>>

\* Signature and claims are checked; the expiry is what changes with time.
Verified(t, found) == found /\ t.live

\* get_principal up to the first read of the profile: a token that does not
\* verify is answered 401, a disabled profile 403.
Present(r, u) ==
    LET t == session[u]
    IN \E found \in BOOLEAN :
          /\ r \in crew /\ t # NoSession
          /\ req[r] = NoReq /\ call[r] = NoCall
          /\ ResolveKey(t.key, found)
          /\ IF Verified(t, found)
             THEN /\ opened' = opened \cup ({t.key} \cap Kid)
                  /\ \/ SignIn(r, u)
                     \/ profile[u] # NoProfile /\ ~profile[u].active /\ UNCHANGED vars
                  /\ UNCHANGED call
             ELSE /\ call' = [call EXCEPT ![r] = [NoCall EXCEPT !.stage = "unauthorized",
                                                                !.user = u]]
                  /\ UNCHANGED <<vars, opened>>
          /\ UNCHANGED <<session, published, reachable, lessee, refusals>>

(***************************************************************************)
(* Authorisation.                                                          *)
(***************************************************************************)

\* Mutant: an operator without an organisation is not narrowed.
MayReachUnscoped(p, l) ==
    p.role = "operator" /\ p.holder # None => p.holder = lessee[l]
\* may_reach_lease.
MayReach(p, l) == p.role = "operator" => p.holder = lessee[l]

\* assert_lease_access: the lease as it is now, the principal as of sign-in.
LookUp(r, l) ==
    /\ req[r].phase = "ready" /\ call[r] = NoCall
    /\ call' = [call EXCEPT ![r] =
                  [stage |-> IF MayReach(req[r].self, l) THEN "working" ELSE "denying",
                   user |-> req[r].actor, lease |-> l]]
    /\ UNCHANGED <<lessee, refusals>>

\* record_denied commits the entry before the 403 is raised.
RecordDenied(r) ==
    /\ call[r].stage = "denying"
    /\ refusals' = refusals \cup {[actor |-> call[r].user, lease |-> call[r].lease]}
    /\ call' = [call EXCEPT ![r].stage = "denied"]
    /\ UNCHANGED lessee

\* The request ends: answered, failed at a commit, or with its process.
Finish(r) ==
    /\ call[r].stage \in {"working", "denying", "denied"}
    /\ Leave(r)
    /\ call' = [call EXCEPT ![r] = NoCall]
    /\ UNCHANGED <<lessee, refusals>>

TurnAway(r) ==
    /\ call[r].stage = "unauthorized"
    /\ call' = [call EXCEPT ![r] = NoCall]
    /\ UNCHANGED <<lessee, refusals>>

\* PATCH /leases/{id} gives a lease to another holder.
Reassign(l, h) ==
    /\ h \in holder
    /\ lessee' = [lessee EXCEPT ![l] = h]
    /\ UNCHANGED <<call, refusals>>

\* Organisations with leases are not deleted.
Dissolvable == {h \in Holder : \A l \in Lease : lessee[l] # h}

(***************************************************************************)
(* The system.                                                             *)
(***************************************************************************)

Supabase ==
    \/ \E u \in User : Expire(u) \/ \E k \in Key : Issue(u, k)
    \/ (\E k \in Kid : Rotate(k)) \/ Contact \/ Lapse \/ Restart

Authorise ==
    \/ \E r \in Request, l \in Lease : LookUp(r, l)
    \/ \E r \in Request : RecordDenied(r) \/ TurnAway(r)

People ==
    \/ \E r \in Request : /\ call[r] = NoCall
                          /\ Proceed(r) \/ (r \in Office /\ \E u \in User : Administer(r, u))
    \/ \E h \in Dissolvable : "register" \in crew /\ DeleteHolder(h)

\* The leases somebody with the profile p works on: none without one or when disabled,
\* those of the own organisation as an operator ("leases held by this holder", core/
\* security.py:96), else all.
Portfolio(p) ==
    {l \in Lease : p.active /\ (p.role = "operator" => p.holder = lessee[l])}
Ready(r) == req[r].phase = "ready"
Crosses(r, l) ==
    /\ Ready(r) /\ call[r] = NoCall
    /\ profile[req[r].actor] # req[r].self
    /\ lessee'[l] # lessee[l] /\ lessee'[l] = req[r].self.holder

AccessNext ==
    /\ \/ "keys" \in crew /\ Supabase /\ UNCHANGED <<vars, leaseVars>>
       \/ \E r \in Request, u \in User : Present(r, u)
       \/ Authorise /\ UNCHANGED <<vars, keyVars>>
       \/ "register" \in crew /\ (\E l \in Lease, h \in Holder : Reassign(l, h))
             /\ UNCHANGED <<vars, keyVars>>
       \/ (\E r \in Request : Finish(r)) /\ UNCHANGED keyVars
       \/ People /\ UNCHANGED <<keyVars, leaseVars>>
    /\ reached' = {p \in Request \X Lease :
                      /\ Ready(p[1])'
                      /\ p \in reached \/ p[2] \in Portfolio(profile[req[p[1]].actor])'}
    /\ crossed' = {p \in (Request \X Lease) \ reached' :
                      Ready(p[1])' /\ (p \in crossed \/ Crosses(p[1], p[2]))}
    /\ UNCHANGED crew

AccessSpec == AccessInit /\ [][AccessNext]_accessVars

(***************************************************************************)
(* Properties.                                                             *)
(***************************************************************************)

Unauthorized(r) == call[r].stage = "unauthorized"
\* "rotates signing keys without invalidating outstanding sessions" (core/
\* security.py:189) and "working when Supabase is unreachable" (:5), as far as
\* they hold: a session that has not expired is turned away only when no
\* session with its key was accepted since the process started, and then only
\* when Supabase cannot be reached or has withdrawn the key.
SessionsContinue ==
    [][\A r \in Request : Unauthorized(r)' /\ ~Unauthorized(r) =>
          LET t == session[call'[r].user]
          IN t.live => \/ t.key = Secret /\ "secret" \notin Configured
                       \/ t.key \in Kid /\ "url" \notin Configured
                       \/ /\ t.key \in Kid \ opened
                          /\ ~reachable \/ t.key \notin published]_accessVars

\* Role and organisation are those of sign-in, the lease is read later.  Whatever
\* administrators and the register change in between and afterwards, whoever works on
\* a lease could reach it at some moment of the request, but for one crossing: the
\* person is moved or disabled first, and then the lease is given to the organisation
\* they have left, before the request looks it up.
WorkWasInReach ==
    \A r \in Request : call[r].stage = "working" =>
        <<r, call[r].lease>> \in reached \cup crossed

=============================================================================
