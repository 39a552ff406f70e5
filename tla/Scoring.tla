------------------------------- MODULE Scoring -------------------------------
(***************************************************************************)
(* The compliance score of a lease, and the dashboard's clearance tile, as *)
(* the records they are computed from change and time passes.              *)
(* (services/api/app/services/compliance.py, services/api/app/services/    *)
(* dashboard.py, services/api/app/api/v1/licences.py)                      *)
(*                                                                         *)
(* Nothing of a score is stored, so the state is what it is read from:     *)
(* clearances, calendar entries and the number of open findings.  Requests *)
(* are atomic here; Calendar and Findings model how they interleave.       *)
(* Scores are exact fractions, rounded to tenths of a point like           *)
(* _round_score; the code's floats may differ where a fraction is halfway  *)
(* between two tenths.                                                     *)
(***************************************************************************)
EXTENDS Integers, FiniteSets

CONSTANTS
    Lease, Licence, Entry,   \* identities of rows
    LicenceOf, EntryOf,      \* the lease a row belongs to
    None,                    \* SQL's NULL
    LastDay,                 \* bound of the dates in an instance
    MaxFindings,             \* bound of the open findings of a lease
    ValidTo,                 \* the ends of validity clearances are given
    LicenceStatus,           \* the statuses clearances are given
    DueDate,                 \* the due dates of entries
    Patched                  \* the statuses PATCH /calendar/{id} sets

Time == 0 .. LastDay
EntryStatus == {"pending", "in_progress", "submitted", "overdue", "waived", "not_applicable"}
Exempt == {"waived", "not_applicable"}

ASSUME ConstantsOK ==
    /\ LicenceOf \in [Licence -> Lease]
    /\ EntryOf \in [Entry -> Lease]
    /\ IsFiniteSet(Licence) /\ IsFiniteSet(Entry)
    /\ LastDay \in Nat
    /\ MaxFindings \in Nat
    /\ None \notin Time
    /\ ValidTo \subseteq Time \cup {None}
    /\ LicenceStatus \subseteq {"pending", "valid", "expiring_soon", "expired", "revoked"}
    /\ DueDate \subseteq Time
    /\ Patched \subseteq EntryStatus

VARIABLES
    today,      \* the date of the server's clock
    licence,    \* licences
    entry,      \* lease_obligations
    findings    \* how many findings of a lease are open or in progress

vars == <<today, licence, entry, findings>>

LicenceRow == [validTo : ValidTo, status : LicenceStatus]
NoLicence == [status |-> "none"]
EntryRow == [due : DueDate, status : EntryStatus, filedOn : Time \cup {None}]
NoEntry == [status |-> "none"]

TypeOK ==
    /\ today \in Time
    /\ licence \in [Licence -> LicenceRow \cup {NoLicence}]
    /\ entry \in [Entry -> EntryRow \cup {NoEntry}]
    /\ findings \in [Lease -> 0 .. MaxFindings]

Init ==
    /\ today = 0
    /\ licence = [c \in Licence |-> NoLicence]
    /\ entry = [e \in Entry |-> NoEntry]
    /\ findings = [l \in Lease |-> 0]

(***************************************************************************)
(* What a lease's score counts on the date asOf.                           *)
(***************************************************************************)

Clearances(l) == {c \in Licence : LicenceOf[c] = l /\ licence[c] # NoLicence}
Lapsed(c, asOf) == licence[c].validTo # None /\ licence[c].validTo < asOf
Invalid(c, asOf) == Lapsed(c, asOf) \/ licence[c].status = "revoked"

\* Entries with status "none" are not on the calendar.
Tracked(l) == {e \in Entry : EntryOf[e] = l /\ entry[e].status \notin Exempt \cup {"none"}}

\* Mutant: what is due later counts, what was due does not.
ComeDueLater(l, asOf) == {e \in Tracked(l) : entry[e].due >= asOf}
\* Mutant: what has come due is read from the stored status.
ComeDueStored(l, asOf) == {e \in Tracked(l) : entry[e].status \in {"overdue", "submitted"}}
ComeDue(l, asOf) == {e \in Tracked(l) : entry[e].due <= asOf}
Submitted(l) == {e \in Tracked(l) : entry[e].status = "submitted"}

\* Mutant: filing on the due date is late.
OnTimeBefore(l) == {e \in Submitted(l) : entry[e].filedOn = None \/ entry[e].filedOn < entry[e].due}
OnTime(l) == {e \in Submitted(l) : entry[e].filedOn = None \/ entry[e].filedOn <= entry[e].due}

\* Each open finding burns a third of the safety component, down to nothing.
\* Mutant: a third is earned per finding.
SafetyEarnedEach(n) == IF n > 3 THEN 3 ELSE n
SafetyEarned(n) == IF n = 0 \/ n > 3 THEN 0 ELSE 3 - n

SafetyOf(n) == IF n > 0 THEN 3 ELSE 0

\* A component earns "got" of "outOf"; outOf = 0 when it does not apply.
Assessment(l, asOf) ==
    [clearance_validity |->
        [got |-> Cardinality({c \in Clearances(l) : ~Invalid(c, asOf)}),
         outOf |-> Cardinality(Clearances(l))],
     filing_adherence |->
        [got |-> Cardinality(ComeDue(l, asOf) \cap Submitted(l)),
         outOf |-> Cardinality(ComeDue(l, asOf))],
     timeliness |->
        [got |-> Cardinality(OnTime(l)), outOf |-> Cardinality(Submitted(l))],
     site_safety |->
        [got |-> SafetyEarned(findings[l]), outOf |-> SafetyOf(findings[l])]]

\* The weights, in hundredths of a point.
Weight == [clearance_validity |-> 3400, filing_adherence |-> 3825,
           timeliness |-> 1275, site_safety |-> 1500]

Total(of(_)) ==
    of("clearance_validity") + of("filing_adherence") + of("timeliness") + of("site_safety")

\* A common denominator of the components that apply, what they earned as a
\* number of its fractions, and what they could have earned.
Whole(a) ==
    LET of(k) == IF a[k].outOf = 0 THEN 1 ELSE a[k].outOf
    IN of("clearance_validity") * of("filing_adherence") * of("timeliness") * of("site_safety")
Earned(a, weight, whole) ==
    Total(LAMBDA k : IF a[k].outOf = 0 THEN 0 ELSE weight[k] * a[k].got * (whole \div a[k].outOf))
Applicable(a, weight) == Total(LAMBDA k : IF a[k].outOf = 0 THEN 0 ELSE weight[k])

\* The score in tenths of a point, halves rounded up.
Rounded(a, weight) ==
    LET whole == Whole(a)
        full == Applicable(a, weight) * whole
    IN IF full = 0 THEN 1000 ELSE (2000 * Earned(a, weight, whole) + full) \div (2 * full)
Score(l, asOf) == Rounded(Assessment(l, asOf), Weight)

(***************************************************************************)
(* What the records go through.                                            *)
(***************************************************************************)

\* POST /leases/{id}/licences.
CreateLicence(c, row) ==
    /\ licence[c] = NoLicence
    /\ licence' = [licence EXCEPT ![c] = row]
    /\ UNCHANGED <<today, entry, findings>>

\* PATCH /licences/{id}.
UpdateLicence(c, row) ==
    /\ licence[c] # NoLicence
    /\ licence' = [licence EXCEPT ![c] = row]
    /\ UNCHANGED <<today, entry, findings>>

\* DELETE /licences/{id}.
DeleteLicence(c) ==
    /\ licence[c] # NoLicence
    /\ licence' = [licence EXCEPT ![c] = NoLicence]
    /\ UNCHANGED <<today, entry, findings>>

\* Generation adds an entry.
Generate(e, due) ==
    /\ entry[e] = NoEntry
    /\ entry' = [entry EXCEPT ![e] = [due |-> due, status |-> "pending", filedOn |-> None]]
    /\ UNCHANGED <<today, licence, findings>>

\* POST /calendar/{id}/submit, with the day of the filing if the client says so.
Submit(e, on) ==
    /\ entry[e].status \notin Exempt \cup {"none"}
    /\ entry' = [entry EXCEPT ![e].status = "submitted", ![e].filedOn = on]
    /\ UNCHANGED <<today, licence, findings>>

\* PATCH /calendar/{id}.
ChangeStatus(e, status) ==
    /\ entry[e] # NoEntry
    /\ entry' = [entry EXCEPT ![e].status = status,
                              ![e].filedOn = IF status = "submitted" /\ @ = None THEN today ELSE @]
    /\ UNCHANGED <<today, licence, findings>>

\* POST /calendar/refresh.
RefreshOverdue(asOf) ==
    /\ entry' = [e \in Entry |->
                   IF entry[e].status \in {"pending", "in_progress"} /\ entry[e].due < asOf
                   THEN [entry[e] EXCEPT !.status = "overdue"] ELSE entry[e]]
    /\ UNCHANGED <<today, licence, findings>>

\* An analysis opens findings of a lease; one is resolved.
OpenFindings(l, n) ==
    /\ findings[l] + n <= MaxFindings
    /\ findings' = [findings EXCEPT ![l] = @ + n]
    /\ UNCHANGED <<today, licence, entry>>
\* Mutant: a closed finding can be resolved again.
ResolveFindingAgain(l) ==
    /\ findings' = [findings EXCEPT ![l] = @ - 1]
    /\ UNCHANGED <<today, licence, entry>>
ResolveFinding(l) ==
    /\ findings[l] > 0
    /\ findings' = [findings EXCEPT ![l] = @ - 1]
    /\ UNCHANGED <<today, licence, entry>>

NextDay ==
    /\ today < LastDay
    /\ today' = today + 1
    /\ UNCHANGED <<licence, entry, findings>>

Next ==
    \/ \E c \in Licence : \/ \E row \in LicenceRow : CreateLicence(c, row) \/ UpdateLicence(c, row)
                          \/ DeleteLicence(c)
    \/ \E e \in Entry : \/ \E due \in DueDate : Generate(e, due)
                        \/ \E on \in 0 .. today : Submit(e, on)
                        \/ \E status \in Patched : ChangeStatus(e, status)
    \/ \E asOf \in Time : RefreshOverdue(asOf)
    \/ \E l \in Lease : (\E n \in 1 .. MaxFindings : OpenFindings(l, n)) \/ ResolveFinding(l)
    \/ NextDay

Spec == Init /\ [][Next]_vars

(***************************************************************************)
(* Properties.                                                             *)
(***************************************************************************)

\* "A lease with no open findings scores exactly as it did before the component
\* existed" (services/compliance.py:32): by the weights 40, 45 and 15.
LegacyWeight == [clearance_validity |-> 40, filing_adherence |-> 45,
                 timeliness |-> 15, site_safety |-> 0]
LegacyScores ==
    \A l \in Lease, asOf \in Time :
        findings[l] = 0 => Score(l, asOf) = Rounded(Assessment(l, asOf), LegacyWeight)

\* A lease that nobody touches never looks better for the passing of time, except
\* on the day a filing made early comes due: "a missed nightly job cannot make a
\* lapsed clearance look current" (services/compliance.py:12).
TimeAloneCosts ==
    \A l \in Lease, asOf \in 1 .. LastDay :
        Score(l, asOf) > Score(l, asOf - 1) => \E e \in Submitted(l) : entry[e].due = asOf

\* Whether a step makes the score of a lease on a date rise or fall.
Rises(l, asOf) ==
    \E old \in {Assessment(l, asOf)}, new \in {Assessment(l, asOf)'} :
        Rounded(new, Weight) > Rounded(old, Weight)
Falls(l, asOf) ==
    \E old \in {Assessment(l, asOf)}, new \in {Assessment(l, asOf)'} :
        Rounded(new, Weight) < Rounded(old, Weight)

\* A filing made in time never lowers the score, on whatever date it is looked
\* at, though it may bring a component into play (services/compliance.py:268).
TimelyFilingHelps ==
    [][\A e \in Entry :
          entry[e].status # "submitted" /\ entry'[e].status = "submitted"
                /\ entry'[e].filedOn <= entry'[e].due
          => \A asOf \in Time : ~Falls(EntryOf[e], asOf)]_vars

\* Whether the overdue refresh has run makes no difference to a score: it is
\* computed "from due dates" (services/compliance.py:166).
RefreshIsNeutral ==
    [][(\A e \in Entry : \/ entry'[e] = entry[e]
                         \/ /\ entry[e].status \in {"pending", "in_progress"}
                            /\ entry'[e] = [entry[e] EXCEPT !.status = "overdue"])
          /\ UNCHANGED <<today, licence, findings>>
       => \A l \in Lease, asOf \in Time : ~Rises(l, asOf) /\ ~Falls(l, asOf)]_vars

\* Another finding on a lease that has one never raises its score, and resolving
\* one of several never lowers it (services/compliance.py:288).
FurtherFindingsCost ==
    [][\A l \in Lease, asOf \in Time :
          /\ findings[l] > 0 /\ findings'[l] > findings[l] => ~Rises(l, asOf)
          /\ findings'[l] > 0 /\ findings'[l] < findings[l] => ~Falls(l, asOf)]_vars

=============================================================================
