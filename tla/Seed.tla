--------------------------------- MODULE Seed ---------------------------------
(***************************************************************************)
(* The seed command beside the running service: it loads the reference     *)
(* pack (minerals, holders, obligation rules), the leases of the pack and  *)
(* their calendar, and may invent a filing history.  With it the reference *)
(* data that administrators edit meanwhile.                                *)
(* (services/api/app/db/seed.py, services/api/app/db/reference_pack.py,    *)
(* services/api/app/api/v1/reference.py, services/api/app/services/        *)
(* reference.py, services/api/app/models/holder.py, mineral.py)            *)
(*                                                                         *)
(* The command is one transaction.  It reads a table, compares it with the *)
(* pack and goes on to the next; the statements it flushed on the way take *)
(* effect at the commit, and any of them that fails (a natural key taken   *)
(* since, a row gone since) takes the whole transaction back.  Rows are    *)
(* known by their natural keys: the code of a mineral or rule, a holder's  *)
(* registration number, a lease's number.  What a row says is either what  *)
(* the pack says or something else.  Clearances are the business of        *)
(* Scoring, the geometry of leases is left out, and so is their term as it *)
(* moves with the day: an instance lives on one day.                       *)
(***************************************************************************)
EXTENDS Calendar

CONSTANTS
    Mineral,       \* the minerals of the pack, by code
    Holder,        \* the lease holders of the pack, by registration number
    PackRule,      \* the rules of the pack, with the defaults of the columns it does not set
    PackMinerals,  \* those for which it sets applies_to_mineral_categories
    PackLease,     \* the leases of the pack
    HolderOf,      \* the holder of each lease
    MineralOf,     \* the mineral of each lease
    SeedWindow,    \* default_window of the day
    Today,         \* the day the command is run on
    SeedReason,    \* the reason the command gives for exempting an entry
    Crew           \* who acts: sets of requests, of "seed" and "load" (the command
                   \* with and without filings) and "catalogue" (edits of reference data)

Key == Mineral \cup Holder
Content == {"pack", "edited"}

ASSUME SeedConstantsOK ==
    /\ Mineral \cap Holder = {}
    /\ PackRule \in [DOMAIN PackRule -> Definition] /\ DOMAIN PackRule \subseteq Rule
    /\ PackMinerals \subseteq DOMAIN PackRule
    /\ PackLease \subseteq Lease /\ PackLease # {}
    /\ HolderOf \in [Lease -> Holder]
    /\ \A h \in Holder : \E l \in PackLease : HolderOf[l] = h
    /\ MineralOf \in [Lease -> Mineral]
    /\ SeedWindow \in Span
    /\ Today \in Nat
    /\ SeedReason \in Reason
    /\ Crew \subseteq SUBSET (Request \cup {"seed", "load", "catalogue"})

VARIABLES
    reference,   \* minerals and lease_holders
    ident,       \* where the id is that _stable_uuid makes of a registration number: on no
                 \* row, on the holder of that number, or on one that was renumbered
    seeding,     \* the run of the command
    loaded,      \* whether a run has finished and nothing it loads was removed since, nor
                 \* a rule edited in what the command leaves alone (no code keeps this)
    returned,    \* the requests that generate for a lease which the command has put back
                 \* since they matched its entries (no code keeps this)
    crew         \* who acts in this behaviour

seedVars == <<reference, ident, seeding, loaded, crew>>
allVars == <<lease, rule, entry, req, reference, ident, seeding, loaded, returned, crew>>

Keep == [status |-> "keep", filed |-> FALSE, reason |-> "keep"]
NoRows == [s \in Slot |-> NoRow]
NoWrites == [s \in Slot |-> Keep]

\* What the session holds: the reference rows and rules as it read them, the
\* leases it found, those whose calendar is not generated yet, the entries it
\* has inserted, what it is to write to others, and the holders deleted since.
Session == [phase : {"reference", "calendar", "file", "commit"}, filings : BOOLEAN,
            reference : [Key -> Content \cup {"absent"}],
            rules : [Rule -> RuleRow \cup {NoRule}],
            leases : SUBSET Lease, todo : SUBSET Lease,
            made : [Slot -> Row \cup {NoRow}], write : [Slot -> Write],
            gone : SUBSET Holder]
NoSession == [phase |-> "idle"]

SeedTypeOK ==
    /\ TypeOK
    /\ reference \in [Key -> Content \cup {"absent"}]
    /\ ident \in [Holder -> {"unused", "holder", "renumbered"}]
    /\ seeding \in Session \cup {NoSession}
    /\ loaded \in BOOLEAN
    /\ returned \subseteq Request
    /\ crew \in Crew

\* A register in use, whose reference data was entered by hand as leases needed it.
SeedInit ==
    /\ Init
    /\ reference = [k \in Key |-> IF \E l \in Lease : k \in {MineralOf[l], HolderOf[l]}
                                THEN "edited" ELSE "absent"]
    /\ ident = [h \in Holder |-> "unused"]
    /\ seeding = NoSession
    /\ loaded = FALSE
    /\ returned = {}
    /\ crew \in Crew

(***************************************************************************)
(* Reference data.                                                         *)
(***************************************************************************)

Entered(k) ==
    /\ "catalogue" \in crew
    /\ reference' = [reference EXCEPT ![k] = "edited"]
    /\ UNCHANGED <<vars, ident, seeding, loaded, crew>>

\* POST /minerals, POST /holders: a code or registration that is taken is a 409.
CreateMineral(m) == reference[m] = "absent" /\ Entered(m)
CreateHolder(h) == reference[h] = "absent" /\ Entered(h)

\* PATCH /minerals/{id}, PATCH /holders/{id}: the fields sent replace the row's.
UpdateMineral(m) == reference[m] # "absent" /\ Entered(m)
UpdateHolder(h) == reference[h] # "absent" /\ Entered(h)

\* PATCH /holders/{id} of the registration number: the row leaves its natural key,
\* or comes back to it.  (Bound: not while the command runs.)
RenumberHolder(h) ==
    /\ "catalogue" \in crew
    /\ seeding = NoSession
    /\ \/ /\ reference[h] # "absent"
          /\ reference' = [reference EXCEPT ![h] = "absent"]
          /\ ident' = [ident EXCEPT ![h] = IF @ = "holder" THEN "renumbered" ELSE @]
       \/ /\ reference[h] = "absent" /\ ident[h] = "renumbered"
          /\ reference' = [reference EXCEPT ![h] = "edited"]
          /\ ident' = [ident EXCEPT ![h] = "holder"]
    /\ loaded' = FALSE
    /\ UNCHANGED <<vars, seeding, crew>>

\* A row the session has read is deleted.
Missing(h) ==
    IF seeding # NoSession /\ seeding.reference[h] # "absent"
    THEN [seeding EXCEPT !.gone = @ \cup {h}]
    ELSE seeding

\* DELETE /holders/{id}: refused while leases refer to it.
DeleteHolder(h) ==
    /\ "catalogue" \in crew
    /\ reference[h] # "absent"
    /\ \A l \in lease : HolderOf[l] # h
    /\ reference' = [reference EXCEPT ![h] = "absent"]
    /\ ident' = [ident EXCEPT ![h] = IF @ = "holder" THEN "unused" ELSE @]
    /\ seeding' = Missing(h)
    /\ loaded' = FALSE
    /\ UNCHANGED <<vars, crew>>

(***************************************************************************)
(* The command.                                                            *)
(***************************************************************************)

\* upsert_minerals, upsert_holders, upsert_obligations: the tables are read; what
\* is missing is to be inserted and what differs from the pack overwritten.  (Bound:
\* unless "cadence_edit" is in Faults no rule of the pack has another cadence.)
SeedReference(filings) ==
    /\ seeding = NoSession
    /\ (IF filings THEN "seed" ELSE "load") \in crew
    /\ \A q \in DOMAIN PackRule :
          rule[q] # NoRule /\ rule[q].recurrence # PackRule[q].recurrence
             => "cadence_edit" \in Faults
    /\ seeding' = [phase |-> "reference", filings |-> filings, reference |-> reference,
                   rules |-> rule, leases |-> {}, todo |-> {}, made |-> NoRows,
                   write |-> NoWrites, gone |-> {}]
    /\ UNCHANGED <<vars, reference, ident, loaded, crew>>

\* upsert_leases: which of the pack's leases are there.
SeedLeases ==
    /\ seeding.phase = "reference"
    /\ seeding' = [seeding EXCEPT !.phase = "calendar", !.leases = lease \cap PackLease,
                                  !.todo = PackLease]
    /\ UNCHANGED <<vars, reference, ident, loaded, crew>>

\* What upsert_obligations makes of a row it read: a missing rule of the pack is
\* inserted; of one that is there it sets what the pack lists (seed.py:104).  The pack
\* lists no fiscal year end and no is_active, and mineral categories for few.
Restored(q, row) ==
    IF q \notin DOMAIN PackRule THEN row
    ELSE IF row = NoRule THEN PackRule[q]
    ELSE [row EXCEPT !.recurrence = PackRule[q].recurrence,
                     !.dueDays = PackRule[q].dueDays,
                     !.types = PackRule[q].types,
                     !.minerals = IF q \in PackMinerals THEN PackRule[q].minerals ELSE @]

\* Mutant: the plans are made from the rules as they were before the command.
SeenRuleStored(q) == seeding.rules[q]
\* The rules as the session sees them.
SeenRule(q) == Restored(q, seeding.rules[q])

\* What a rule with the given row contributes to the plan of a lease for the window
\* of the day.
Schedule(q, row, l) ==
    LET When(t) == Period[row.recurrence][row.yearEnd][t]
    IN IF row # NoRule /\ row.active /\ l \in row.types \cap row.minerals
             /\ row.recurrence \in Cadence
       THEN {[rule |-> q, start |-> When(t).start, end |-> When(t).end,
              due |-> When(t).end + row.dueDays] :
                t \in {t \in SeedWindow.start .. SeedWindow.end : InTerm(When(t), l)}}
       ELSE {}
\* plan_instances over the rules the session sees.
PlannedFor(l) ==
    UNION {Schedule(q, SeenRule(q), l) : q \in Rule}

\* Mutant: the history is invented with --no-filings as well.
SeedGenerateFiling(l) ==
    LET missing == {i \in PlannedFor(l) : ~Exists(SlotOf(l, i))}
    IN /\ seeding.phase = "calendar"
       /\ l \in seeding.todo
       /\ seeding' = [seeding EXCEPT
              !.todo = @ \ {l},
              !.phase = IF seeding.todo # {l} THEN "calendar" ELSE "file",
              !.made = [s \in Slot |-> IF \E i \in missing : SlotOf(l, i) = s
                                       THEN Fresh(CHOOSE i \in missing : SlotOf(l, i) = s)
                                       ELSE @[s]]]
       /\ UNCHANGED <<vars, reference, ident, loaded, crew>>

\* generate_instances for one lease: what is missing is inserted.
SeedGenerate(l) ==
    LET missing == {i \in PlannedFor(l) : ~Exists(SlotOf(l, i))}
    IN /\ seeding.phase = "calendar"
       /\ l \in seeding.todo
       /\ seeding' = [seeding EXCEPT
              !.todo = @ \ {l},
              !.phase = IF seeding.todo # {l} THEN "calendar"
                        ELSE IF seeding.filings THEN "file" ELSE "commit",
              !.made = [s \in Slot |-> IF \E i \in missing : SlotOf(l, i) = s
                                       THEN Fresh(CHOOSE i \in missing : SlotOf(l, i) = s)
                                       ELSE @[s]]]
       /\ UNCHANGED <<vars, reference, ident, loaded, crew>>

\* The entry as the session sees it.
SeenRow(s) == IF seeding.made[s] # NoRow THEN seeding.made[s] ELSE entry[s]
Due(s) == SeenRow(s) # NoRow /\ SeenRow(s).due < Today

\* What becomes of an entry for a verdict on it: a filing gets its time, an
\* exemption its reason.
Invented(row, verdict) ==
    [status |-> Diff(row.status, verdict), filed |-> verdict = "submitted",
     reason |-> IF verdict = "waived" THEN Diff(row.reason, SeedReason) ELSE "keep"]

\* simulate_filing_history: whatever is due, of every lease, is filed or late.
\* The rows come in no order, and every 37th of them is exempted when it is late.
SeedFile ==
    /\ seeding.phase = "file"
    /\ LET due == {s \in Slot : Due(s)}
       IN \E turn \in SUBSET due, filed \in SUBSET due :
             /\ Cardinality(turn) = (Cardinality(due) + 36) \div 37
             /\ LET Verdict(s) == IF s \in filed THEN "submitted"
                                  ELSE IF s \in turn THEN "waived" ELSE "overdue"
                IN seeding' = [seeding EXCEPT
                      !.phase = "commit",
                      !.write = [s \in Slot |-> IF s \in due THEN Invented(SeenRow(s), Verdict(s))
                                                ELSE Keep]]
    /\ UNCHANGED <<vars, reference, ident, loaded, crew>>

\* Mutant: only rows the command writes are held against deletion.
ReferenceFitsUnreferred ==
    /\ \A k \in Key : seeding.reference[k] = "absent" => reference[k] = "absent"
    /\ \A h \in Holder : seeding.reference[h] = "absent" => ident[h] = "unused"
    /\ \A q \in DOMAIN PackRule : seeding.rules[q] = NoRule => rule[q] = NoRule
    /\ \A h \in seeding.gone : seeding.reference[h] = "pack"

\* Whether the tables take its statements: nothing it inserts is there by now,
\* neither its natural key nor its id, and nothing it updates or refers to is gone.
\* Every holder of the pack has a lease there, so one that is deleted fails the
\* update of its row or a foreign key.
ReferenceFits ==
    /\ \A k \in Key : seeding.reference[k] = "absent" => reference[k] = "absent"
    /\ \A h \in Holder : seeding.reference[h] = "absent" => ident[h] = "unused"
    /\ \A q \in DOMAIN PackRule : seeding.rules[q] = NoRule => rule[q] = NoRule
    /\ seeding.gone = {}
EntriesFit ==
    /\ seeding.leases \subseteq lease
    /\ \A s \in Slot : /\ seeding.made[s] # NoRow => ~Exists(s)
                       /\ seeding.made[s] = NoRow /\ seeding.write[s] # Keep => Exists(s)
Fits == ReferenceFits /\ EntriesFit

\* A holder the session inserts has the id made of its number.
Identified(h) == IF seeding.reference[h] = "absent" THEN "holder" ELSE ident[h]

\* A row the session read as the pack has it is not written.
Upserted(k) == IF seeding.reference[k] = "pack" THEN reference[k] ELSE "pack"

\* Of a rule that is there the attributes that differ from the pack's as read are
\* written.
UpsertedRule(q) ==
    LET read == seeding.rules[q]
        pack == PackRule[q]
    IN IF read = NoRule THEN pack
       ELSE [rule[q] EXCEPT
               !.recurrence = IF read.recurrence = pack.recurrence THEN @ ELSE pack.recurrence,
               !.dueDays = IF read.dueDays = pack.dueDays THEN @ ELSE pack.dueDays,
               !.types = IF read.types = pack.types THEN @ ELSE pack.types,
               !.minerals = IF q \notin PackMinerals \/ read.minerals = pack.minerals THEN @
                            ELSE pack.minerals]

\* What the commit leaves of an entry.
SeededRow(s) ==
    IF SeenRow(s) = NoRow THEN NoRow ELSE Written(SeenRow(s), seeding.write[s])

\* The commit: the reference data, the leases, their entries and the history at
\* once, or nothing.
SeedCommit ==
    /\ seeding.phase = "commit"
    /\ IF Fits
       THEN /\ reference' = [k \in Key |-> Upserted(k)]
            /\ ident' = [h \in Holder |-> Identified(h)]
            /\ rule' = [q \in Rule |-> IF q \in DOMAIN PackRule THEN UpsertedRule(q) ELSE rule[q]]
            /\ lease' = lease \cup PackLease
            /\ entry' = [s \in Slot |-> SeededRow(s)]
            /\ loaded' = (\A q \in Rule : Restored(q, rule[q]) = Restored(q, seeding.rules[q]))
       ELSE UNCHANGED <<reference, ident, rule, lease, entry, loaded>>
    /\ seeding' = NoSession
    /\ UNCHANGED <<req, crew>>

\* The command is stopped: nothing of it was committed.
SeedAbandon ==
    /\ "abandon" \in Faults
    /\ seeding # NoSession
    /\ seeding' = NoSession
    /\ UNCHANGED <<vars, reference, ident, loaded, crew>>

Seeding ==
    \/ \E filings \in BOOLEAN : SeedReference(filings)
    \/ SeedLeases
    \/ \E l \in PackLease : SeedGenerate(l)
    \/ SeedFile \/ SeedCommit \/ SeedAbandon

(***************************************************************************)
(* Next to it.                                                             *)
(***************************************************************************)

\* A request that holds entries of the lease finds no row when it commits.
Doomed(r, l) ==
    \/ req[r].phase = "edit" /\ req[r].slot.lease = l
    \/ req[r].phase = "refresh" /\ \E s \in req[r].stale : s.lease = l

\* DELETE /leases/{id}.  The command may put the lease back, but not the rows that
\* went with it: requests that hold one end here, without effect.
DropLease(l) ==
    /\ "delete" \in Faults
    /\ l \in lease
    /\ lease' = lease \ {l}
    /\ entry' = [s \in Slot |-> IF s.lease = l THEN NoRow ELSE entry[s]]
    /\ req' = [r \in Request |-> IF Doomed(r, l) THEN NoReq ELSE req[r]]
    /\ loaded' = FALSE
    /\ UNCHANGED <<rule, reference, ident, seeding, crew>>

ChangeRule(q, d) ==
    /\ CreateRule(q, d) \/ UpdateRule(q, d)
    /\ loaded' = (loaded /\ Restored(q, d) = Restored(q, rule[q]))
    /\ UNCHANGED <<reference, ident, seeding, crew>>

Serve(r) ==
    /\ r \in crew
    /\ Generate(r) \/ Refresh(r) \/ Edit(r) \/ Abandon(r)
    /\ UNCHANGED seedVars

Matched(r) == req[r].phase \in {"match", "answer"}
Returns(r) == Matched(r) /\ req[r].lease \in lease' \ lease

SeedNext ==
    /\ \/ Seeding
       \/ \E m \in Mineral : CreateMineral(m) \/ UpdateMineral(m)
       \/ \E h \in Holder : \/ CreateHolder(h) \/ UpdateHolder(h)
                           \/ RenumberHolder(h) \/ DeleteHolder(h)
       \/ \E l \in Lease : DropLease(l)
       \/ \E q \in Rule, d \in Definition : ChangeRule(q, d)
       \/ \E r \in Request : Serve(r)
    /\ returned' = {r \in Request : Matched(r)' /\ (r \in returned \/ Returns(r))}

SeedSpec == SeedInit /\ [][SeedNext]_allVars

(***************************************************************************)
(* Properties.                                                             *)
(***************************************************************************)

Commits == seeding.phase = "commit" /\ seeding' = NoSession /\ Fits
Entries == {s \in Slot : Exists(s)}

\* A run of the command that reports success has loaded the pack whole, whatever
\* was created, edited and deleted while it ran: every row of it is there, no lease
\* of the pack is without its holder or mineral, and every period planned for one
\* has its entry ("records are matched on natural keys", seed.py:3).  Rules of the pack
\* that were switched off, given another fiscal year end or other mineral categories
\* stay so, and are planned as they are.
LoadsWhole ==
    [][Commits /\ SeedCommit =>
          /\ \A k \in Key : reference'[k] # "absent"
          /\ \A q \in DOMAIN PackRule : rule'[q] # NoRule
          /\ PackLease \subseteq lease'
          /\ \A l \in PackLease : \A i \in PlannedFor(l) :
                entry'[SlotOf(l, i)] # NoRow /\ entry'[SlotOf(l, i)].end = i.end]_allVars

\* "Running it twice creates nothing new" (README.md:157): after a run, and as long
\* as nothing it loaded is deleted and no rule is edited in what the command leaves
\* alone (is_active, fiscal year end, mineral categories, all of a rule that is not of
\* the pack), another run on the same day adds no row, whatever is filed, exempted and
\* otherwise edited in between.  (Leases keep their mineral, type and term here.  In the
\* code a run sets a pack lease's mineral_id back but plans with the mineral it loaded
\* with the lease, models/lease.py:98, so the second run after an edit of it may still
\* add entries.)
AgainAddsNothing ==
    [][loaded /\ SeedCommit =>
          /\ lease' = lease
          /\ Entries' = Entries
          /\ \A k \in Key : reference[k] # "absent"
          /\ \A q \in DOMAIN PackRule : rule[q] # NoRule]_allVars

\* As PlannedExists of Calendar, beside the command: a generation that answers is
\* complete.  Only when its lease is deleted and put back by the command after it
\* matched the entries may it answer with a part of them, or none: the INSERTs add
\* what was missing before.  Holds while rules keep their cadence.
PlannedStands ==
    \A r \in Request \ returned :
        req[r].phase = "answer" /\ req[r].lease \in lease => Complete(r)

Taken(s) == seeding # NoSession /\ seeding.write[s] # Keep
\* As DecisionsStand of Calendar, beside the command: what has been filed or exempted
\* stays until a PATCH, a new filing or an invented history takes it up.  A command
\* run without filings never does (seed.py:10).
DecisionsKept ==
    [][\A s \in Slot : Decided(s) /\ ~Held(s) /\ ~Taken(s) /\ Exists(s)' =>
          /\ entry'[s] = entry[s]
          /\ Held(s)' => \E r \in Request :
                /\ req'[r].phase = "edit" /\ req'[r].slot = s
                /\ r \in Patcher \/ entry[s].status = "submitted"
          /\ Taken(s)' => seeding'.filings]_allVars

\* "Idempotent and safe to re-run: records are matched on natural keys" (seed.py:3):
\* a run that finds the tables at its commit as it read them succeeds.  The ids are
\* made of the natural keys as well, and one of those can be edited: a holder the
\* command loaded and somebody renumbered is inserted again with the id it has, and
\* from then on every run fails.
AsRead ==
    /\ seeding.reference = reference /\ seeding.rules = rule
    /\ seeding.gone = {} /\ EntriesFit
SafeToRerun == [][SeedCommit /\ AsRead => Fits]_allVars

\* What is known of an entry.
StageOf(status) ==
    CASE status \in {"pending", "in_progress"} -> "open"
      [] status = "overdue" -> "late"
      [] status = "submitted" -> "filed"
      [] status \in Exempt -> "exempt"
FilingOf(row) ==
    IF row = NoRow THEN [stage |-> "absent", timed |-> FALSE, explained |-> FALSE]
    ELSE [stage |-> StageOf(row.status), timed |-> row.filed, explained |-> row.reason # None]
Filings == [s \in Slot |-> FilingOf(entry[s])]

\* What the pending requests and the command have looked at which entry for.
Purpose(r, q) ==
    IF q.phase = "refresh" THEN {<<s, "lapse">> : s \in q.stale}
    ELSE IF q.phase = "edit" THEN {<<q.slot, IF r \in Patcher THEN "decide" ELSE "file">>}
    ELSE {}
History(c) ==
    IF c = NoSession THEN {} ELSE {<<s, "history">> : s \in {s \in Slot : c.write[s] # Keep}}
Claims == (UNION {Purpose(r, req[r]) : r \in Request}) \cup History(seeding)

Filed == INSTANCE FilingRegister WITH
    Entry <- Slot, leases <- lease, filing <- Filings, claims <- Claims

\* The calendar, under requests, deletions and the command, is a register of filings:
\* entries appear open and go with their lease only, a time once set stays, and what
\* becomes of an entry was decided while the entry allowed it, however much came
\* between the decision and the write (services/calendar.py, api/v1/calendar.py,
\* db/seed.py:215).
KeepsTheRegister == Filed!Spec
=============================================================================
