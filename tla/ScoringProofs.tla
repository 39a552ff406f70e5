---------------------------- MODULE ScoringProofs ----------------------------
(***************************************************************************)
(* Theorems about the compliance score, for any records of any leases.     *)
(*                                                                         *)
(* A score is a rounded fraction.  What a step does to it is proved one    *)
(* component at a time: while the other three stay, the fraction moves the *)
(* way the component's own ratio does, and so does the rounded score.      *)
(***************************************************************************)
EXTENDS Scoring, FiniteSetTheorems, TLAPS

\* The records keep their types.
THEOREM TypeInvariant == Spec => []TypeOK
<1> USE ConstantsOK
<1>1. Init => TypeOK
  BY DEF Init, TypeOK, Time
<1>2. TypeOK /\ [Next]_vars => TypeOK'
  <2> SUFFICES ASSUME TypeOK, [Next]_vars
               PROVE  TypeOK'
    OBVIOUS
  <2>1. ASSUME NEW c \in Licence, NEW row \in LicenceRow, CreateLicence(c, row) \/ UpdateLicence(c, row)
        PROVE  TypeOK'
    BY <2>1 DEF TypeOK, CreateLicence, UpdateLicence
  <2>2. ASSUME NEW c \in Licence, DeleteLicence(c)
        PROVE  TypeOK'
    BY <2>2 DEF TypeOK, DeleteLicence
  <2>3. ASSUME NEW e \in Entry, NEW due \in DueDate, Generate(e, due)
        PROVE  TypeOK'
    <3>1. [due |-> due, status |-> "pending", filedOn |-> None] \in EntryRow
      BY DEF EntryRow, EntryStatus
    <3> QED
      BY <2>3, <3>1 DEF TypeOK, Generate
  <2>4. ASSUME NEW e \in Entry, NEW on \in 0 .. today, Submit(e, on)
        PROVE  TypeOK'
    <3>1. entry[e] \in EntryRow
      BY <2>4 DEF TypeOK, Submit, NoEntry
    <3>2. on \in Time
      BY DEF TypeOK, Time
    <3>3. [entry[e] EXCEPT !.status = "submitted", !.filedOn = on] \in EntryRow
      BY <3>1, <3>2 DEF EntryRow, EntryStatus
    <3> QED
      BY <2>4, <3>3 DEF TypeOK, Submit
  <2>5. ASSUME NEW e \in Entry, NEW status \in Patched, ChangeStatus(e, status)
        PROVE  TypeOK'
    <3> DEFINE filed == IF status = "submitted" /\ entry[e].filedOn = None
                        THEN today ELSE entry[e].filedOn
    <3>1. entry[e] \in EntryRow
      BY <2>5 DEF TypeOK, ChangeStatus
    <3>2. [entry[e] EXCEPT !.status = status, !.filedOn = filed] \in EntryRow
      BY <3>1 DEF EntryRow, TypeOK
    <3>3. entry' = [entry EXCEPT ![e] = [entry[e] EXCEPT !.status = status, !.filedOn = filed]]
      BY <2>5 DEF ChangeStatus
    <3> QED
      BY <2>5, <3>2, <3>3 DEF TypeOK, ChangeStatus
  <2>6. ASSUME NEW asOf \in Time, RefreshOverdue(asOf)
        PROVE  TypeOK'
    <3>1. ASSUME NEW e \in Entry, entry[e].status \in {"pending", "in_progress"}
          PROVE  [entry[e] EXCEPT !.status = "overdue"] \in EntryRow
      BY <3>1 DEF TypeOK, EntryRow, NoEntry, EntryStatus
    <3> QED
      BY <2>6, <3>1 DEF TypeOK, RefreshOverdue
  <2>7. ASSUME NEW l \in Lease, ResolveFinding(l) \/ \E n \in 1 .. MaxFindings : OpenFindings(l, n)
        PROVE  TypeOK'
    BY <2>7 DEF TypeOK, OpenFindings, ResolveFinding
  <2>8. CASE NextDay
    BY <2>8 DEF TypeOK, NextDay, Time
  <2>9. CASE UNCHANGED vars
    BY <2>9 DEF TypeOK, vars
  <2> QED
    BY <2>1, <2>2, <2>3, <2>4, <2>5, <2>6, <2>7, <2>8, <2>9 DEF Next
<1> QED
  BY <1>1, <1>2, PTL DEF Spec

\* A quotient is the only number between its bounds.
LEMMA QuotientUnique ==
    ASSUME NEW a \in Int, NEW b \in Nat \ {0}, NEW k \in Int, b * k <= a, a < b * (k + 1)
    PROVE  a \div b = k
<1> DEFINE d == a \div b
<1>1. d \in Int /\ b * d <= a /\ a < b * (d + 1)
  OBVIOUS
<1> HIDE DEF d
<1>2. b * k < b * (d + 1) /\ b * d < b * (k + 1)
  BY <1>1
<1>3. k < d + 1 /\ d < k + 1
  BY <1>1, <1>2
<1> QED
  BY <1>1, <1>3 DEF d

\* Scaling both by the same factor leaves a quotient alone.
LEMMA QuotientScaled ==
    ASSUME NEW a \in Int, NEW b \in Nat \ {0}
    PROVE  (85 * a) \div (85 * b) = a \div b
<1> DEFINE k == a \div b
<1>1. k \in Int /\ b * k <= a /\ a < b * (k + 1)
  OBVIOUS
<1> HIDE DEF k
<1>2. (85 * b) * k = 85 * (b * k) /\ (85 * b) * (k + 1) = 85 * (b * (k + 1))
      /\ b * k \in Int /\ b * (k + 1) \in Int
  BY <1>1
<1>3. (85 * b) * k <= 85 * a /\ 85 * a < (85 * b) * (k + 1)
  BY <1>1, <1>2
<1>4. 85 * a \in Int /\ 85 * b \in Nat \ {0}
  OBVIOUS
<1>5. (85 * a) \div (85 * b) = k
  BY <1>1, <1>3, <1>4, QuotientUnique
<1> QED
  BY <1>5 DEF k


\* What a component that applies can be: a number of records out of a number.
Part == [got : Nat, outOf : Nat]
Parts == [clearance_validity : Part, filing_adherence : Part, timeliness : Part,
          site_safety : Part]

LEMMA PartWhole ==
    ASSUME NEW a \in Parts
    PROVE  Whole(a) \in Nat \ {0}
<1> DEFINE of(k) == IF a[k].outOf = 0 THEN 1 ELSE a[k].outOf
<1>1. /\ of("clearance_validity") \in Nat \ {0}
      /\ of("filing_adherence") \in Nat \ {0}
      /\ of("timeliness") \in Nat \ {0}
      /\ of("site_safety") \in Nat \ {0}
  BY DEF Parts, Part
<1>2. Whole(a) = of("clearance_validity") * of("filing_adherence") * of("timeliness") * of("site_safety")
  BY DEF Whole
<1>3. ASSUME NEW x \in Nat \ {0}, NEW y \in Nat \ {0}
      PROVE  x * y \in Nat \ {0}
  OBVIOUS
<1> HIDE DEF of
<1> QED
  BY <1>1, <1>2, <1>3

\* What a component adds by the old weights, it adds 85 times by the new ones.
LEMMA PartScaled ==
    ASSUME NEW p \in Part, NEW whole \in Nat, NEW w \in Nat, NEW v, v = 85 * w
    PROVE  /\ (IF p.outOf = 0 THEN 0 ELSE w * p.got * (whole \div p.outOf)) \in Int
           /\ (IF p.outOf = 0 THEN 0 ELSE v * p.got * (whole \div p.outOf))
                 = 85 * (IF p.outOf = 0 THEN 0 ELSE w * p.got * (whole \div p.outOf))
<1>1. CASE p.outOf = 0
  BY <1>1
<1>2. CASE p.outOf # 0
  <2>1. p.got \in Nat /\ p.outOf \in Nat \ {0}
    BY <1>2 DEF Part
  <2> DEFINE q == whole \div p.outOf
             g == p.got
  <2>2. q \in Int /\ g \in Nat
    BY <2>1
  <2> HIDE DEF q, g
  <2>3. v * g * q = 85 * (w * g * q) /\ w * g * q \in Int
    BY <2>2
  <2> QED
    BY <1>2, <2>3 DEF q, g
<1> QED
  BY <1>1, <1>2

\* Without a safety component the weights are in the ratio of the old ones.
LEMMA LegacyRounded ==
    ASSUME NEW a \in Parts, a.site_safety.outOf = 0
    PROVE  Rounded(a, Weight) = Rounded(a, LegacyWeight)
<1> DEFINE whole == Whole(a)
           new(k) == IF a[k].outOf = 0 THEN 0 ELSE Weight[k] * a[k].got * (whole \div a[k].outOf)
           old(k) == IF a[k].outOf = 0 THEN 0
                     ELSE LegacyWeight[k] * a[k].got * (whole \div a[k].outOf)
           newOf(k) == IF a[k].outOf = 0 THEN 0 ELSE Weight[k]
           oldOf(k) == IF a[k].outOf = 0 THEN 0 ELSE LegacyWeight[k]
           e == Earned(a, LegacyWeight, whole)
           f == Applicable(a, LegacyWeight)
<1>1. whole \in Nat \ {0}
  BY PartWhole
<1>2. /\ Weight["clearance_validity"] = 85 * 40 /\ LegacyWeight["clearance_validity"] = 40
      /\ Weight["filing_adherence"] = 85 * 45 /\ LegacyWeight["filing_adherence"] = 45
      /\ Weight["timeliness"] = 85 * 15 /\ LegacyWeight["timeliness"] = 15
  BY DEF Weight, LegacyWeight
<1>3. /\ a["clearance_validity"] \in Part /\ a["filing_adherence"] \in Part
      /\ a["timeliness"] \in Part /\ a["site_safety"].outOf = 0
  BY DEF Parts
<1> HIDE DEF whole
<1>4. old("clearance_validity") \in Int /\ new("clearance_validity") = 85 * old("clearance_validity")
  <2>1. LegacyWeight["clearance_validity"] \in Nat /\ Weight["clearance_validity"] = 85 * LegacyWeight["clearance_validity"]
    BY <1>2
  <2> QED
    BY <1>1, <1>3, <2>1, PartScaled
<1>5. old("filing_adherence") \in Int /\ new("filing_adherence") = 85 * old("filing_adherence")
  <2>1. LegacyWeight["filing_adherence"] \in Nat /\ Weight["filing_adherence"] = 85 * LegacyWeight["filing_adherence"]
    BY <1>2
  <2> QED
    BY <1>1, <1>3, <2>1, PartScaled
<1>6. old("timeliness") \in Int /\ new("timeliness") = 85 * old("timeliness")
  <2>1. LegacyWeight["timeliness"] \in Nat /\ Weight["timeliness"] = 85 * LegacyWeight["timeliness"]
    BY <1>2
  <2> QED
    BY <1>1, <1>3, <2>1, PartScaled
<1>7. old("site_safety") = 0 /\ new("site_safety") = 0
  BY <1>3
<1>8. Earned(a, Weight, whole) = new("clearance_validity") + new("filing_adherence")
                                 + new("timeliness") + new("site_safety")
  BY DEF Earned, Total
<1>9. e = old("clearance_validity") + old("filing_adherence") + old("timeliness") + old("site_safety")
  BY DEF Earned, Total
<1>10. Earned(a, Weight, whole) = 85 * e /\ e \in Int
  <2> HIDE DEF new, old, e
  <2> QED
    BY <1>4, <1>5, <1>6, <1>7, <1>8, <1>9
<1>11. /\ oldOf("clearance_validity") \in Nat /\ newOf("clearance_validity") = 85 * oldOf("clearance_validity")
       /\ oldOf("filing_adherence") \in Nat /\ newOf("filing_adherence") = 85 * oldOf("filing_adherence")
       /\ oldOf("timeliness") \in Nat /\ newOf("timeliness") = 85 * oldOf("timeliness")
       /\ oldOf("site_safety") = 0 /\ newOf("site_safety") = 0
  BY <1>2, <1>3
<1>12. Applicable(a, Weight) = newOf("clearance_validity") + newOf("filing_adherence")
                               + newOf("timeliness") + newOf("site_safety")
  BY DEF Applicable, Total
<1>13. f = oldOf("clearance_validity") + oldOf("filing_adherence")
           + oldOf("timeliness") + oldOf("site_safety")
  BY DEF Applicable, Total
<1>14. Applicable(a, Weight) = 85 * f /\ f \in Nat
  <2> HIDE DEF newOf, oldOf, f
  <2> QED
    BY <1>11, <1>12, <1>13
<1> DEFINE full == f * whole
<1>15. full \in Nat /\ Applicable(a, Weight) * whole = 85 * full
  <2> HIDE DEF f
  <2> QED
    BY <1>1, <1>14
<1>16. /\ Rounded(a, Weight) = IF 85 * full = 0 THEN 1000
                               ELSE (2000 * (85 * e) + 85 * full) \div (2 * (85 * full))
       /\ Rounded(a, LegacyWeight) = IF full = 0 THEN 1000 ELSE (2000 * e + full) \div (2 * full)
  BY <1>10, <1>15 DEF Rounded, whole
<1> HIDE DEF e, full
<1>17. CASE full = 0
  BY <1>16, <1>17
<1>18. CASE full # 0
  <2>1. 2000 * e + full \in Int /\ 2 * full \in Nat \ {0}
    BY <1>10, <1>15, <1>18
  <2>2. 2000 * (85 * e) + 85 * full = 85 * (2000 * e + full) /\ 2 * (85 * full) = 85 * (2 * full)
    BY <1>10, <1>15
  <2>3. 85 * full # 0
    BY <1>15, <1>18
  <2> QED
    BY <1>16, <1>18, <2>1, <2>2, <2>3, QuotientScaled
<1> QED
  BY <1>17, <1>18

\* The counts of an assessment are counts.
LEMMA AssessmentParts ==
    ASSUME TypeOK, NEW l \in Lease, NEW asOf \in Time
    PROVE  Assessment(l, asOf) \in Parts
<1>1. ASSUME NEW S, S \subseteq Licence
      PROVE  Cardinality(S) \in Nat
  BY <1>1, ConstantsOK, FS_Subset, FS_CardinalityType
<1>2. ASSUME NEW S, S \subseteq Entry
      PROVE  Cardinality(S) \in Nat
  BY <1>2, ConstantsOK, FS_Subset, FS_CardinalityType
<1>3. /\ Clearances(l) \subseteq Licence
      /\ {c \in Clearances(l) : ~Invalid(c, asOf)} \subseteq Licence
  BY DEF Clearances
<1>4. Tracked(l) \subseteq Entry
  BY DEF Tracked
<1>5. /\ ComeDue(l, asOf) \subseteq Entry /\ Submitted(l) \subseteq Entry /\ OnTime(l) \subseteq Entry
      /\ ComeDue(l, asOf) \cap Submitted(l) \subseteq Entry
  BY <1>4 DEF ComeDue, Submitted, OnTime
<1>6. findings[l] \in Nat
  BY ConstantsOK DEF TypeOK
<1>7. SafetyEarned(findings[l]) \in Nat /\ SafetyOf(findings[l]) \in Nat
  BY <1>6 DEF SafetyEarned, SafetyOf
<1> QED
  BY <1>1, <1>2, <1>3, <1>5, <1>7 DEF Assessment, Parts, Part

\* A lease without open findings scores as before the safety component existed
\* (services/compliance.py:32), for any records.
THEOREM OldScoresKept == Spec => []LegacyScores
<1>1. TypeOK => LegacyScores
  <2> SUFFICES ASSUME TypeOK, NEW l \in Lease, NEW asOf \in Time, findings[l] = 0
               PROVE  Score(l, asOf) = Rounded(Assessment(l, asOf), LegacyWeight)
    BY DEF LegacyScores
  <2>1. Assessment(l, asOf) \in Parts
    BY AssessmentParts
  <2>2. Assessment(l, asOf).site_safety.outOf = 0
    BY DEF Assessment, SafetyOf
  <2> QED
    BY <2>1, <2>2, LegacyRounded DEF Score
<1> QED
  BY <1>1, TypeInvariant, PTL


\* A larger number has no smaller quotient.
LEMMA QuotientMonotone ==
    ASSUME NEW a \in Int, NEW b \in Int, NEW q \in Nat \ {0}, a <= b
    PROVE  a \div q <= b \div q
<1> DEFINE i == a \div q
           j == b \div q
<1>1. i \in Int /\ j \in Int /\ q * i <= a /\ b < q * (j + 1)
  OBVIOUS
<1> HIDE DEF i, j
<1>2. q * i < q * (j + 1)
  BY <1>1
<1>3. i < j + 1
  BY <1>1, <1>2
<1> QED
  BY <1>1, <1>3 DEF i, j

\* What a component adds is a number, and grows with what is got.
LEMMA PartGrows ==
    ASSUME NEW p \in Part, NEW r \in Part, p.outOf = r.outOf, p.got <= r.got,
           NEW whole \in Nat, NEW w \in Nat
    PROVE  /\ (IF p.outOf = 0 THEN 0 ELSE w * p.got * (whole \div p.outOf)) \in Int
           /\ (IF r.outOf = 0 THEN 0 ELSE w * r.got * (whole \div r.outOf)) \in Int
           /\ (IF p.outOf = 0 THEN 0 ELSE w * p.got * (whole \div p.outOf))
                 <= (IF r.outOf = 0 THEN 0 ELSE w * r.got * (whole \div r.outOf))
<1>1. CASE p.outOf = 0
  BY <1>1
<1>2. CASE p.outOf # 0
  <2> DEFINE q == whole \div p.outOf
             g == p.got
             h == r.got
  <2>1. p.outOf \in Nat \ {0} /\ g \in Nat /\ h \in Nat /\ g <= h
    BY <1>2 DEF Part
  <2>2. q \in Nat
    BY <2>1
  <2> HIDE DEF q, g, h
  <2>3. w * q \in Nat /\ w * g * q = (w * q) * g /\ w * h * q = (w * q) * h
    BY <2>1, <2>2
  <2>4. (w * q) * g <= (w * q) * h
    BY <2>1, <2>3
  <2>5. w * g * q \in Int /\ w * h * q \in Int /\ w * g * q <= w * h * q
    BY <2>1, <2>2, <2>3, <2>4
  <2> QED
    BY <1>2, <2>5 DEF q, g, h
<1> QED
  BY <1>1, <1>2

\* Of two assessments that differ in what the safety component got, the one that
\* got more scores no less.
LEMMA SafetyMonotone ==
    ASSUME NEW a \in Parts, NEW b \in Parts,
           a.clearance_validity = b.clearance_validity,
           a.filing_adherence = b.filing_adherence, a.timeliness = b.timeliness,
           a.site_safety.outOf = b.site_safety.outOf,
           a.site_safety.got <= b.site_safety.got
    PROVE  /\ Rounded(a, Weight) \in Int /\ Rounded(b, Weight) \in Int
           /\ Rounded(a, Weight) <= Rounded(b, Weight)
<1> DEFINE whole == Whole(a)
           adds(c, k) == IF c[k].outOf = 0 THEN 0
                         ELSE Weight[k] * c[k].got * (whole \div c[k].outOf)
           ea == Earned(a, Weight, whole)
           eb == Earned(b, Weight, whole)
           f == Applicable(a, Weight)
           full == f * whole
<1>1. whole \in Nat \ {0} /\ Whole(b) = whole
  BY PartWhole DEF Whole
<1>2. /\ Weight["clearance_validity"] \in Nat /\ Weight["filing_adherence"] \in Nat
      /\ Weight["timeliness"] \in Nat /\ Weight["site_safety"] \in Nat
  BY DEF Weight
<1>3. /\ a["clearance_validity"] \in Part /\ b["clearance_validity"] = a["clearance_validity"]
      /\ a["filing_adherence"] \in Part /\ b["filing_adherence"] = a["filing_adherence"]
      /\ a["timeliness"] \in Part /\ b["timeliness"] = a["timeliness"]
      /\ a["site_safety"] \in Part /\ b["site_safety"] \in Part
      /\ a["site_safety"].outOf = b["site_safety"].outOf
      /\ a["site_safety"].got <= b["site_safety"].got
  BY DEF Parts
<1> HIDE DEF whole
<1>4. /\ adds(a, "clearance_validity") \in Int
      /\ adds(b, "clearance_validity") = adds(a, "clearance_validity")
  <2>1. a["clearance_validity"].got <= a["clearance_validity"].got
    BY <1>3 DEF Part
  <2> QED
    BY <1>1, <1>2, <1>3, <2>1, PartGrows
<1>5. /\ adds(a, "filing_adherence") \in Int
      /\ adds(b, "filing_adherence") = adds(a, "filing_adherence")
  <2>1. a["filing_adherence"].got <= a["filing_adherence"].got
    BY <1>3 DEF Part
  <2> QED
    BY <1>1, <1>2, <1>3, <2>1, PartGrows
<1>6. adds(a, "timeliness") \in Int /\ adds(b, "timeliness") = adds(a, "timeliness")
  <2>1. a["timeliness"].got <= a["timeliness"].got
    BY <1>3 DEF Part
  <2> QED
    BY <1>1, <1>2, <1>3, <2>1, PartGrows
<1>7. /\ adds(a, "site_safety") \in Int /\ adds(b, "site_safety") \in Int
      /\ adds(a, "site_safety") <= adds(b, "site_safety")
  BY <1>1, <1>2, <1>3, PartGrows
<1>8. /\ ea = adds(a, "clearance_validity") + adds(a, "filing_adherence")
              + adds(a, "timeliness") + adds(a, "site_safety")
      /\ eb = adds(b, "clearance_validity") + adds(b, "filing_adherence")
              + adds(b, "timeliness") + adds(b, "site_safety")
  BY DEF Earned, Total
<1>9. ea \in Int /\ eb \in Int /\ ea <= eb
  <2> HIDE DEF adds, ea, eb
  <2> QED
    BY <1>4, <1>5, <1>6, <1>7, <1>8
<1>10. Applicable(b, Weight) = f
  BY <1>3 DEF Applicable, Total
<1>11. f \in Nat
  BY <1>2, <1>3 DEF Applicable, Total
<1>12. full \in Nat
  BY <1>1, <1>11
<1>13. /\ Rounded(a, Weight) = IF full = 0 THEN 1000 ELSE (2000 * ea + full) \div (2 * full)
       /\ Rounded(b, Weight) = IF full = 0 THEN 1000 ELSE (2000 * eb + full) \div (2 * full)
  BY <1>1, <1>10 DEF Rounded, whole
<1> HIDE DEF ea, eb, full
<1>14. CASE full = 0
  BY <1>13, <1>14
<1>15. CASE full # 0
  <2> DEFINE x == 2000 * ea + full
             y == 2000 * eb + full
             d == 2 * full
  <2>1. x \in Int /\ y \in Int /\ d \in Nat \ {0} /\ x <= y
    BY <1>9, <1>12, <1>15
  <2> HIDE DEF x, y, d
  <2>2. x \div d <= y \div d /\ x \div d \in Int /\ y \div d \in Int
    BY <2>1, QuotientMonotone
  <2> QED
    BY <1>13, <1>15, <2>2 DEF x, y, d
<1> QED
  BY <1>14, <1>15

\* Another finding on a lease that has one never raises its score, and resolving
\* one of several never lowers it (services/compliance.py:288).
THEOREM FurtherFindingsLower == Spec => FurtherFindingsCost
<1> DEFINE Counted == \A l \in Lease, asOf \in Time : Assessment(l, asOf) \in Parts
<1>a. TypeOK => Counted
  BY AssessmentParts
<1>b. TypeOK' => Counted'
  BY <1>a, PTL
<1>1. ASSUME TypeOK, TypeOK', [Next]_vars, NEW l \in Lease, NEW asOf \in Time,
             findings'[l] # findings[l], findings[l] > 0, findings'[l] > 0
      PROVE  /\ Assessment(l, asOf) \in Parts /\ Assessment(l, asOf)' \in Parts
             /\ findings'[l] > findings[l] =>
                   Rounded(Assessment(l, asOf)', Weight) <= Rounded(Assessment(l, asOf), Weight)
             /\ findings'[l] < findings[l] =>
                   Rounded(Assessment(l, asOf), Weight) <= Rounded(Assessment(l, asOf)', Weight)
             /\ Rounded(Assessment(l, asOf), Weight) \in Int
             /\ Rounded(Assessment(l, asOf)', Weight) \in Int
  <2> DEFINE a == Assessment(l, asOf)
             b == Assessment(l, asOf)'
  <2>1. UNCHANGED <<licence, entry>>
    BY <1>1 DEF Next, vars, CreateLicence, UpdateLicence, DeleteLicence, Generate, Submit,
       ChangeStatus, RefreshOverdue, OpenFindings, ResolveFinding, NextDay
  <2>2. /\ b.clearance_validity = a.clearance_validity
        /\ b.filing_adherence = a.filing_adherence
        /\ b.timeliness = a.timeliness
    BY <2>1 DEF Assessment, Clearances, Invalid, Lapsed, ComeDue, Tracked, Submitted, OnTime
  <2>3. /\ a.site_safety = [got |-> SafetyEarned(findings[l]), outOf |-> SafetyOf(findings[l])]
        /\ b.site_safety = [got |-> SafetyEarned(findings'[l]), outOf |-> SafetyOf(findings'[l])]
    BY DEF Assessment
  <2>4. a \in Parts
    BY <1>1, AssessmentParts
  <2>5. b \in Parts
    BY <1>1, <1>b
  <2>6. findings[l] \in Nat /\ findings'[l] \in Nat
    BY <1>1, ConstantsOK DEF TypeOK
  <2>7. a.site_safety.outOf = 3 /\ b.site_safety.outOf = 3
    BY <1>1, <2>3, <2>6 DEF SafetyOf
  <2>8. /\ findings'[l] > findings[l] => b.site_safety.got <= a.site_safety.got
        /\ findings'[l] < findings[l] => a.site_safety.got <= b.site_safety.got
    BY <1>1, <2>3, <2>6 DEF SafetyEarned
  <2>9. findings'[l] > findings[l] \/ findings'[l] < findings[l]
    BY <1>1, <2>6
  <2> HIDE DEF a, b
  <2>10. /\ findings'[l] > findings[l] => Rounded(b, Weight) <= Rounded(a, Weight)
         /\ findings'[l] < findings[l] => Rounded(a, Weight) <= Rounded(b, Weight)
         /\ Rounded(a, Weight) \in Int /\ Rounded(b, Weight) \in Int
    BY <2>2, <2>4, <2>5, <2>7, <2>8, <2>9, SafetyMonotone
  <2> QED
    BY <2>4, <2>5, <2>10 DEF a, b
<1>2. TypeOK /\ TypeOK' /\ [Next]_vars =>
        \A l \in Lease, asOf \in Time :
          /\ findings[l] > 0 /\ findings'[l] > findings[l] => ~Rises(l, asOf)
          /\ findings'[l] > 0 /\ findings'[l] < findings[l] => ~Falls(l, asOf)
  <2> SUFFICES ASSUME TypeOK, TypeOK', [Next]_vars, NEW l \in Lease, NEW asOf \in Time
               PROVE  /\ findings[l] > 0 /\ findings'[l] > findings[l] => ~Rises(l, asOf)
                      /\ findings'[l] > 0 /\ findings'[l] < findings[l] => ~Falls(l, asOf)
    OBVIOUS
  <2>1. findings[l] \in Nat /\ findings'[l] \in Nat
    BY ConstantsOK DEF TypeOK
  <2>2. ASSUME findings[l] > 0, findings'[l] > findings[l]
        PROVE  ~Rises(l, asOf)
    <3>1. /\ Rounded(Assessment(l, asOf)', Weight) <= Rounded(Assessment(l, asOf), Weight)
          /\ Rounded(Assessment(l, asOf), Weight) \in Int
          /\ Rounded(Assessment(l, asOf)', Weight) \in Int
      BY <1>1, <2>1, <2>2
    <3> QED
      BY <3>1 DEF Rises
  <2>3. ASSUME findings'[l] > 0, findings'[l] < findings[l]
        PROVE  ~Falls(l, asOf)
    <3>1. /\ Rounded(Assessment(l, asOf), Weight) <= Rounded(Assessment(l, asOf)', Weight)
          /\ Rounded(Assessment(l, asOf), Weight) \in Int
          /\ Rounded(Assessment(l, asOf)', Weight) \in Int
      BY <1>1, <2>1, <2>3
    <3> QED
      BY <3>1 DEF Falls
  <2> QED
    BY <2>2, <2>3
<1> QED
  BY <1>2, TypeInvariant, PTL DEF Spec, FurtherFindingsCost


\* Marking entries overdue changes no score (services/compliance.py:166).
THEOREM RefreshChangesNoScore == Spec => RefreshIsNeutral
<1> DEFINE Marked == /\ \A e \in Entry :
                           \/ entry'[e] = entry[e]
                           \/ /\ entry[e].status \in {"pending", "in_progress"}
                              /\ entry'[e] = [entry[e] EXCEPT !.status = "overdue"]
                     /\ UNCHANGED <<today, licence, findings>>
<1>1. TypeOK /\ [Next]_vars =>
        (Marked => \A l \in Lease, asOf \in Time : ~Rises(l, asOf) /\ ~Falls(l, asOf))
  <2> SUFFICES ASSUME TypeOK, Marked, NEW l \in Lease, NEW asOf \in Time
               PROVE  ~Rises(l, asOf) /\ ~Falls(l, asOf)
    OBVIOUS
  <2>1. ASSUME NEW e \in Entry
        PROVE  /\ entry'[e].status \in Exempt \cup {"none"} <=> entry[e].status \in Exempt \cup {"none"}
               /\ entry'[e].status = "submitted" <=> entry[e].status = "submitted"
               /\ entry[e].status # "none" =>
                     entry'[e].due = entry[e].due /\ entry'[e].filedOn = entry[e].filedOn
    <3>1. CASE entry'[e] = entry[e]
      BY <3>1
    <3>2. CASE /\ entry[e].status \in {"pending", "in_progress"}
               /\ entry'[e] = [entry[e] EXCEPT !.status = "overdue"]
      <4>1. entry[e] \in EntryRow
        BY <3>2 DEF TypeOK, NoEntry
      <4>2. /\ entry'[e].status = "overdue" /\ entry'[e].due = entry[e].due
            /\ entry'[e].filedOn = entry[e].filedOn
        BY <3>2, <4>1 DEF EntryRow
      <4> QED
        BY <3>2, <4>2 DEF Exempt
    <3> QED
      BY <3>1, <3>2
  <2>2. Tracked(l)' = Tracked(l)
    BY <2>1 DEF Tracked
  <2>3. \A e \in Tracked(l) : e \in Entry /\ entry[e].status # "none"
    BY DEF Tracked
  <2>4. ComeDue(l, asOf)' = ComeDue(l, asOf)
    BY <2>1, <2>2, <2>3 DEF ComeDue
  <2>5. Submitted(l)' = Submitted(l)
    BY <2>1, <2>2, <2>3 DEF Submitted
  <2>6. OnTime(l)' = OnTime(l)
    BY <2>1, <2>3, <2>5 DEF OnTime, Submitted
  <2>7. /\ Clearances(l)' = Clearances(l)
        /\ {c \in Clearances(l) : ~Invalid(c, asOf)}' = {c \in Clearances(l) : ~Invalid(c, asOf)}
    BY DEF Clearances, Invalid, Lapsed
  <2>8. Assessment(l, asOf)' = Assessment(l, asOf)
    BY <2>4, <2>5, <2>6, <2>7 DEF Assessment
  <2>9. Assessment(l, asOf) \in Parts
    BY AssessmentParts
  <2> DEFINE a == Assessment(l, asOf)
  <2>10. a.site_safety.got <= a.site_safety.got
    BY <2>9 DEF Parts, Part
  <2> HIDE DEF a
  <2>11. Rounded(a, Weight) \in Int
    BY <2>9, <2>10, SafetyMonotone DEF a
  <2> QED
    BY <2>8, <2>11 DEF Rises, Falls, a
<1> QED
  BY <1>1, TypeInvariant, PTL DEF Spec, RefreshIsNeutral

(***************************************************************************)
(* Scores as fractions: when one component changes and the others stay,    *)
(* the fraction earned moves the way that component does.                  *)
(***************************************************************************)

\* A component in a fraction's terms: its denominator, its weight in what could be
\* earned and what it earned, a component that does not apply counting for nothing.
Denominator(p) == IF p.outOf = 0 THEN 1 ELSE p.outOf
Share(p, w) == IF p.outOf = 0 THEN 0 ELSE w
Gain(p, w) == Share(p, w) * p.got

\* No component gets more than there is to get.
Sound == {p \in Part : p.got <= p.outOf}
SoundParts == [clearance_validity : Sound, filing_adherence : Sound, timeliness : Sound,
               site_safety : Sound]

LEMMA PartTerms ==
    ASSUME NEW p \in Sound, NEW w \in Nat
    PROVE  /\ Denominator(p) \in Nat \ {0} /\ Share(p, w) \in Nat /\ Gain(p, w) \in Nat
           /\ Gain(p, w) <= Share(p, w) * Denominator(p)
<1>1. p.got \in Nat /\ p.outOf \in Nat /\ p.got <= p.outOf
  BY DEF Sound, Part
<1>2. CASE p.outOf = 0
  BY <1>1, <1>2 DEF Denominator, Share, Gain
<1>3. CASE p.outOf # 0
  <2> DEFINE g == p.got
             n == p.outOf
  <2>1. g \in Nat /\ n \in Nat \ {0} /\ g <= n
    BY <1>1, <1>3
  <2> HIDE DEF g, n
  <2>2. w * g \in Nat /\ w * g <= w * n
    BY <2>1
  <2> QED
    BY <1>3, <2>1, <2>2 DEF Denominator, Share, Gain, g, n
<1> QED
  BY <1>2, <1>3

\* A score of a fraction, in tenths of a point.
Tenths(e, f) == IF f = 0 THEN 1000 ELSE (2000 * e + f) \div (2 * f)

\* The larger fraction has no smaller score, and nothing to earn is everything earned.
LEMMA TenthsMonotone ==
    ASSUME NEW e \in Nat, NEW f \in Nat, NEW g \in Nat, NEW h \in Nat,
           e <= f, g <= h, e * h <= g * f, f = 0 => h = 0 \/ g = h
    PROVE  Tenths(e, f) \in Int /\ Tenths(g, h) \in Int /\ Tenths(e, f) <= Tenths(g, h)
<1>1. ASSUME NEW x \in Nat, NEW y \in Nat \ {0}, x <= y
      PROVE  /\ Tenths(x, y) \in Int
             /\ (2 * y) * Tenths(x, y) <= 2000 * x + y
             /\ 2000 * x + y < (2 * y) * (Tenths(x, y) + 1)
             /\ Tenths(x, y) <= 1000
             /\ x = y => Tenths(x, y) = 1000
  <2> DEFINE a == 2000 * x + y
             b == 2 * y
             k == a \div b
  <2>1. a \in Int /\ b \in Nat \ {0}
    BY <1>1
  <2>2. Tenths(x, y) = k
    BY <1>1 DEF Tenths
  <2>3. a = 2000 * x + y /\ b = 2 * y
    OBVIOUS
  <2> HIDE DEF a, b
  <2>4. k \in Int /\ b * k <= a /\ a < b * (k + 1)
    BY <2>1
  <2> HIDE DEF k
  <2>5. b * k < b * 1001
    BY <1>1, <2>1, <2>3, <2>4
  <2>6. k <= 1000
    BY <2>1, <2>4, <2>5
  <2>7. ASSUME x = y PROVE k = 1000
    <3>1. b * 1000 < b * (k + 1)
      BY <1>1, <2>3, <2>4, <2>7
    <3> QED
      BY <2>1, <2>4, <2>6, <3>1
  <2> QED
    BY <2>2, <2>3, <2>4, <2>6, <2>7
<1>2. CASE f = 0
  <2>1. Tenths(e, f) = 1000
    BY <1>2 DEF Tenths
  <2>2. CASE h = 0
    BY <2>1, <2>2 DEF Tenths
  <2>3. CASE h # 0 /\ g = h
    <3>1. h \in Nat \ {0} /\ g <= h
      BY <2>3
    <3>2. Tenths(g, h) = 1000
      BY <1>1, <2>3, <3>1
    <3> QED
      BY <2>1, <3>2
  <2> QED
    BY <1>2, <2>2, <2>3
<1>3. CASE f # 0 /\ h = 0
  <2>1. Tenths(g, h) = 1000
    BY <1>3 DEF Tenths
  <2>2. f \in Nat \ {0} /\ e <= f
    BY <1>3
  <2>3. Tenths(e, f) \in Int /\ Tenths(e, f) <= 1000
    BY <1>1, <2>2
  <2> QED
    BY <2>1, <2>3
<1>4. CASE f # 0 /\ h # 0
  <2> DEFINE i == Tenths(e, f)
             j == Tenths(g, h)
  <2>1. /\ i \in Int /\ j \in Int
        /\ (2 * f) * i <= 2000 * e + f /\ 2000 * g + h < (2 * h) * (j + 1)
    <3>1. f \in Nat \ {0} /\ h \in Nat \ {0}
      BY <1>4
    <3>2. i \in Int /\ (2 * f) * i <= 2000 * e + f
      BY <1>1, <3>1
    <3>3. j \in Int /\ 2000 * g + h < (2 * h) * (j + 1)
      BY <1>1, <3>1
    <3> QED
      BY <3>2, <3>3
  <2> HIDE DEF i, j
  <2>2. ((2 * f) * i) * h <= (2000 * e + f) * h
    <3> DEFINE u == (2 * f) * i
               v == 2000 * e + f
    <3>1. u \in Int /\ v \in Int /\ u <= v
      BY <2>1
    <3> HIDE DEF u, v
    <3>2. u * h <= v * h
      BY <3>1
    <3> QED
      BY <3>2 DEF u, v
  <2>3. (2000 * g + h) * f < ((2 * h) * (j + 1)) * f
    <3> DEFINE u == 2000 * g + h
               v == (2 * h) * (j + 1)
    <3>1. u \in Int /\ v \in Int /\ u < v
      BY <2>1
    <3> HIDE DEF u, v
    <3>2. u * f < v * f
      BY <1>4, <3>1
    <3> QED
      BY <3>2 DEF u, v
  <2>4. (2000 * e + f) * h <= (2000 * g + h) * f
    <3>1. /\ (2000 * e + f) * h = 2000 * (e * h) + f * h
          /\ (2000 * g + h) * f = 2000 * (g * f) + f * h
          /\ e * h \in Int /\ g * f \in Int /\ f * h \in Int
      OBVIOUS
    <3> QED
      BY <3>1
  <2> DEFINE m == 2 * (f * h)
  <2>5. m \in Nat \ {0}
    BY <1>4
  <2>6. ((2 * f) * i) * h = m * i /\ ((2 * h) * (j + 1)) * f = m * (j + 1)
    BY <2>1
  <2> HIDE DEF m
  <2>7. m * i < m * (j + 1)
    <3>1. (2000 * e + f) * h \in Int /\ (2000 * g + h) * f \in Int
      OBVIOUS
    <3> QED
      BY <2>1, <2>2, <2>3, <2>4, <2>5, <2>6, <3>1
  <2>8. i < j + 1
    BY <2>1, <2>5, <2>7
  <2> QED
    BY <2>1, <2>8 DEF i, j
<1> QED
  BY <1>2, <1>3, <1>4

\* How a component may change without harm: its ratio does not fall, or it comes
\* into play with everything earned, or goes out of play with nothing earned.
Improves(p, q) ==
    \/ p.outOf # 0 /\ q.outOf # 0 /\ p.got * q.outOf <= q.got * p.outOf
    \/ p.outOf = 0 /\ q.got = q.outOf
    \/ p.got = 0 /\ q.outOf = 0

\* What a score is when one component is p, in terms of the other three: they could
\* earn "rest" of the weight, and earned "others" out of rest * whole.
ScoreBeside(p, w, whole, others, rest) ==
    Tenths(Gain(p, w) * whole + Denominator(p) * others,
           (Share(p, w) + rest) * (Denominator(p) * whole))

LEMMA BesideTerms ==
    ASSUME NEW p \in Sound, NEW w \in Nat, NEW whole \in Nat \ {0}, NEW others \in Nat,
           NEW rest \in Nat, others <= rest * whole
    PROVE  /\ Gain(p, w) * whole + Denominator(p) * others \in Nat
           /\ (Share(p, w) + rest) * (Denominator(p) * whole) \in Nat
           /\ Gain(p, w) * whole + Denominator(p) * others
                <= (Share(p, w) + rest) * (Denominator(p) * whole)
<1> DEFINE g == Gain(p, w)
           v == Share(p, w)
           n == Denominator(p)
<1>1. g \in Nat /\ v \in Nat /\ n \in Nat \ {0} /\ g <= v * n
  BY PartTerms
<1> HIDE DEF g, v, n
<1>2. g * whole <= (v * n) * whole /\ n * others <= n * (rest * whole)
  <2>1. v * n \in Nat /\ rest * whole \in Nat
    BY <1>1
  <2> DEFINE x == v * n
             y == rest * whole
  <2> HIDE DEF x, y
  <2>2. g * whole <= x * whole /\ n * others <= n * y
    BY <1>1, <2>1 DEF x, y
  <2> QED
    BY <2>2 DEF x, y
<1>3. (v + rest) * (n * whole) = (v * n) * whole + n * (rest * whole)
  BY <1>1
<1>4. /\ g * whole \in Nat /\ n * others \in Nat /\ (v * n) * whole \in Nat
      /\ n * (rest * whole) \in Nat
  BY <1>1
<1> QED
  BY <1>2, <1>3, <1>4 DEF g, v, n

LEMMA OneImproves ==
    ASSUME NEW p \in Sound, NEW q \in Sound, NEW w \in Nat, NEW whole \in Nat \ {0},
           NEW others \in Nat, NEW rest \in Nat, others <= rest * whole, Improves(p, q)
    PROVE  /\ ScoreBeside(p, w, whole, others, rest) \in Int
           /\ ScoreBeside(q, w, whole, others, rest) \in Int
           /\ ScoreBeside(p, w, whole, others, rest) <= ScoreBeside(q, w, whole, others, rest)
<1> DEFINE g == Gain(p, w)
           v == Share(p, w)
           n == Denominator(p)
           h == Gain(q, w)
           u == Share(q, w)
           m == Denominator(q)
           e == g * whole + n * others
           f == (v + rest) * (n * whole)
           d == h * whole + m * others
           c == (u + rest) * (m * whole)
<1>1. /\ g \in Nat /\ v \in Nat /\ n \in Nat \ {0} /\ h \in Nat /\ u \in Nat /\ m \in Nat \ {0}
  BY PartTerms
<1>2. e \in Nat /\ f \in Nat /\ e <= f /\ d \in Nat /\ c \in Nat /\ d <= c
  BY BesideTerms
<1>3. \/ v = u /\ g * m <= h * n
      \/ v = 0 /\ g = 0 /\ n = 1 /\ h = u * m
      \/ g = 0 /\ h = 0 /\ u = 0 /\ m = 1
  <2>1. p.got \in Nat /\ p.outOf \in Nat /\ q.got \in Nat /\ q.outOf \in Nat
    BY DEF Sound, Part
  <2>2. CASE p.outOf # 0 /\ q.outOf # 0 /\ p.got * q.outOf <= q.got * p.outOf
    <3> DEFINE i == p.got
               j == q.got
               k == p.outOf
               l == q.outOf
    <3>1. v = w /\ u = w /\ n = k /\ m = l /\ g = w * i /\ h = w * j
      BY <2>2 DEF Share, Denominator, Gain
    <3>2. i \in Nat /\ j \in Nat /\ k \in Nat /\ l \in Nat /\ i * l <= j * k
      BY <2>1, <2>2
    <3> HIDE DEF i, j, k, l
    <3>3. w * (i * l) <= w * (j * k)
      <4>1. i * l \in Nat /\ j * k \in Nat
        BY <3>2
      <4> QED
        BY <3>2, <4>1
    <3>4. (w * i) * l = w * (i * l) /\ (w * j) * k = w * (j * k)
      BY <3>2
    <3> QED
      BY <3>1, <3>3, <3>4
  <2>3. CASE p.outOf = 0 /\ q.got = q.outOf
    BY <2>1, <2>3 DEF Share, Denominator, Gain
  <2>4. CASE p.got = 0 /\ q.outOf = 0
    BY <2>1, <2>4 DEF Share, Denominator, Gain
  <2> QED
    BY <2>2, <2>3, <2>4 DEF Improves
<1> HIDE DEF g, v, n, h, u, m
<1>4. e * c <= d * f
  <2> DEFINE r == whole
             s == others
             t == rest
  <2>1. CASE v = u /\ g * m <= h * n
    <3> DEFINE k == (v + t) * r
    <3>1. k \in Nat
      BY <1>1
    <3>2. e * c = k * ((g * m) * r + (n * m) * s) /\ d * f = k * ((h * n) * r + (n * m) * s)
      <4>1. c = m * k /\ f = n * k
        BY <1>1, <2>1
      <4> HIDE DEF k
      <4>2. e * (m * k) = k * ((g * m) * r + (n * m) * s)
        BY <1>1, <3>1
      <4>3. d * (n * k) = k * ((h * n) * r + (n * m) * s)
        BY <1>1, <3>1
      <4> QED
        BY <4>1, <4>2, <4>3
    <3> DEFINE x == g * m
               y == h * n
               z == (n * m) * s
    <3>3. x \in Nat /\ y \in Nat /\ z \in Nat /\ x <= y
      BY <1>1, <2>1
    <3> HIDE DEF k, x, y, z
    <3>4. x * r <= y * r
      BY <3>3
    <3>5. k * (x * r + z) <= k * (y * r + z)
      <4>1. x * r + z \in Nat /\ y * r + z \in Nat /\ x * r + z <= y * r + z
        BY <3>3, <3>4
      <4> QED
        BY <3>1, <4>1
    <3> QED
      BY <3>2, <3>5 DEF x, y, z
  <2>2. CASE v = 0 /\ g = 0 /\ n = 1 /\ h = u * m
    <3>1. e = s /\ f = t * r
      BY <1>1, <2>2
    <3> DEFINE y == t * r
               k == m * r
    <3>2. y \in Nat /\ k \in Nat /\ s <= y
      BY <1>1
    <3>3. s * u <= u * y
      <4> HIDE DEF y
      <4> QED
        BY <1>1, <3>2
    <3>4. s * c = k * (s * u) + (s * t) * k
      BY <1>1
    <3>5. d * (t * r) = k * (u * y) + (s * t) * k
      BY <1>1, <2>2
    <3>6. k * (s * u) <= k * (u * y) /\ k * (s * u) \in Nat /\ k * (u * y) \in Nat
          /\ (s * t) * k \in Nat
      <4>1. s * u \in Nat /\ u * y \in Nat /\ s * t \in Nat
        BY <1>1
      <4> DEFINE x == s * u
                 z == u * y
      <4> HIDE DEF k, x, z
      <4>2. k * x <= k * z /\ k * x \in Nat /\ k * z \in Nat /\ (s * t) * k \in Nat
        BY <3>2, <3>3, <4>1 DEF x, z
      <4> QED
        BY <4>2 DEF x, z
    <3> HIDE DEF y, k
    <3> QED
      BY <3>1, <3>4, <3>5, <3>6
  <2>3. CASE g = 0 /\ h = 0 /\ u = 0 /\ m = 1
    <3>1. e = n * s /\ c = t * r /\ d = s
      BY <1>1, <2>3
    <3> DEFINE x == n * s
               y == t * r
    <3>2. d * f = x * (v * r) + x * y
      BY <1>1, <3>1
    <3>3. x * (v * r) \in Nat /\ x * y \in Nat
      BY <1>1
    <3> QED
      BY <3>1, <3>2, <3>3
  <2> QED
    BY <1>3, <2>1, <2>2, <2>3
<1>5. f = 0 => c = 0 \/ d = c
  <2>1. CASE f # 0
    BY <2>1
  <2>2. CASE f = 0
    <3>1. v + rest = 0
      <4>1. n * whole \in Nat \ {0} /\ v + rest \in Nat
        BY <1>1
      <4> DEFINE x == n * whole
                 y == v + rest
      <4>2. f = y * x
        OBVIOUS
      <4> HIDE DEF f, x, y
      <4>3. y = 0
        BY <2>2, <4>1, <4>2 DEF x, y
      <4> QED
        BY <4>3 DEF y
    <3>2. v = 0 /\ rest = 0
      BY <1>1, <3>1
    <3>3. others = 0
      BY <3>2
    <3>4. u = 0 \/ h = u * m
      BY <1>1, <1>3, <3>2
    <3>5. CASE u = 0
      BY <1>1, <3>2, <3>5
    <3>6. CASE h = u * m
      BY <1>1, <3>2, <3>3, <3>6
    <3> QED
      BY <3>4, <3>5, <3>6
  <2> QED
    BY <2>1, <2>2
<1> HIDE DEF e, f, d, c
<1>6. Tenths(e, f) \in Int /\ Tenths(d, c) \in Int /\ Tenths(e, f) <= Tenths(d, c)
  BY <1>2, <1>4, <1>5, TenthsMonotone
<1> QED
  BY <1>6 DEF ScoreBeside, e, f, d, c, g, v, n, h, u, m

LEMMA PositiveProduct ==
    ASSUME NEW x \in Nat \ {0}, NEW y \in Nat \ {0}
    PROVE  x * y \in Nat \ {0}
OBVIOUS

\* The terms of a score, with the four components' denominators written out.
LEMMA ScoreTerms ==
    ASSUME NEW a \in SoundParts,
           NEW c, c = Denominator(a.clearance_validity),
           NEW f, f = Denominator(a.filing_adherence),
           NEW t, t = Denominator(a.timeliness),
           NEW s, s = Denominator(a.site_safety)
    PROVE  /\ Whole(a) = c * f * t * s
           /\ Earned(a, Weight, Whole(a)) =
                Gain(a.clearance_validity, 3400) * (f * t * s)
                + Gain(a.filing_adherence, 3825) * (c * t * s)
                + Gain(a.timeliness, 1275) * (c * f * s)
                + Gain(a.site_safety, 1500) * (c * f * t)
           /\ Applicable(a, Weight) =
                Share(a.clearance_validity, 3400) + Share(a.filing_adherence, 3825)
                + Share(a.timeliness, 1275) + Share(a.site_safety, 1500)
<1>1. /\ a.clearance_validity \in Sound /\ a.filing_adherence \in Sound
      /\ a.timeliness \in Sound /\ a.site_safety \in Sound
  BY DEF SoundParts
<1>2. c \in Nat \ {0} /\ f \in Nat \ {0} /\ t \in Nat \ {0} /\ s \in Nat \ {0}
  BY <1>1, PartTerms
<1>3. Whole(a) = c * f * t * s
  BY DEF Whole, Denominator
<1>4. ASSUME NEW p \in Sound, NEW w \in Nat, NEW others \in Nat \ {0},
             Whole(a) = Denominator(p) * others
      PROVE  (IF p.outOf = 0 THEN 0 ELSE w * p.got * (Whole(a) \div p.outOf))
               = Gain(p, w) * others
  <2>1. CASE p.outOf = 0
    BY <1>4, <2>1 DEF Gain, Share, Sound, Part
  <2>2. CASE p.outOf # 0
    <3> DEFINE n == p.outOf
    <3>1. n \in Nat \ {0} /\ Denominator(p) = n /\ p.got \in Nat
      BY <2>2 DEF Sound, Part, Denominator
    <3> HIDE DEF n
    <3>2. n * others \in Int /\ n * others < n * (others + 1)
      BY <3>1
    <3>3. Whole(a) \div n = others
      BY <1>4, <3>1, <3>2, QuotientUnique
    <3>4. Gain(p, w) = w * p.got
      BY <2>2 DEF Gain, Share
    <3> QED
      BY <2>2, <3>3, <3>4 DEF n
  <2> QED
    BY <2>1, <2>2
<1>5. /\ f * t * s \in Nat \ {0} /\ c * t * s \in Nat \ {0}
      /\ c * f * s \in Nat \ {0} /\ c * f * t \in Nat \ {0}
  BY <1>2, PositiveProduct
<1>6. /\ Whole(a) = c * (f * t * s) /\ Whole(a) = f * (c * t * s)
      /\ Whole(a) = t * (c * f * s) /\ Whole(a) = s * (c * f * t)
  BY <1>2, <1>3
<1>7. /\ Weight["clearance_validity"] = 3400 /\ Weight["filing_adherence"] = 3825
      /\ Weight["timeliness"] = 1275 /\ Weight["site_safety"] = 1500
  BY DEF Weight
<1> DEFINE adds(k) == IF a[k].outOf = 0 THEN 0
                      ELSE Weight[k] * a[k].got * (Whole(a) \div a[k].outOf)
<1>8. adds("clearance_validity") = Gain(a.clearance_validity, 3400) * (f * t * s)
  BY <1>1, <1>4, <1>5, <1>6, <1>7
<1>9. adds("filing_adherence") = Gain(a.filing_adherence, 3825) * (c * t * s)
  BY <1>1, <1>4, <1>5, <1>6, <1>7
<1>10. adds("timeliness") = Gain(a.timeliness, 1275) * (c * f * s)
  BY <1>1, <1>4, <1>5, <1>6, <1>7
<1>11. adds("site_safety") = Gain(a.site_safety, 1500) * (c * f * t)
  BY <1>1, <1>4, <1>5, <1>6, <1>7
<1>12. Earned(a, Weight, Whole(a)) = adds("clearance_validity") + adds("filing_adherence")
                                     + adds("timeliness") + adds("site_safety")
  BY DEF Earned, Total
<1>13. Applicable(a, Weight) =
          Share(a.clearance_validity, 3400) + Share(a.filing_adherence, 3825)
          + Share(a.timeliness, 1275) + Share(a.site_safety, 1500)
  BY <1>7 DEF Applicable, Total, Share
<1> HIDE DEF adds
<1> QED
  BY <1>3, <1>8, <1>9, <1>10, <1>11, <1>12, <1>13

\* What three components earn together is at most what they could.
LEMMA ThreeTerms ==
    ASSUME NEW p \in Sound, NEW q \in Sound, NEW r \in Sound,
           NEW u \in Nat, NEW v \in Nat, NEW w \in Nat
    PROVE  /\ Denominator(p) * Denominator(q) * Denominator(r) \in Nat \ {0}
           /\ Gain(p, u) * (Denominator(q) * Denominator(r))
                + Gain(q, v) * (Denominator(p) * Denominator(r))
                + Gain(r, w) * (Denominator(p) * Denominator(q)) \in Nat
           /\ Share(p, u) + Share(q, v) + Share(r, w) \in Nat
           /\ Gain(p, u) * (Denominator(q) * Denominator(r))
                + Gain(q, v) * (Denominator(p) * Denominator(r))
                + Gain(r, w) * (Denominator(p) * Denominator(q))
                <= (Share(p, u) + Share(q, v) + Share(r, w))
                     * (Denominator(p) * Denominator(q) * Denominator(r))
<1> DEFINE i == Denominator(p)
           j == Denominator(q)
           k == Denominator(r)
           gp == Gain(p, u)
           gq == Gain(q, v)
           gr == Gain(r, w)
           sp == Share(p, u)
           sq == Share(q, v)
           sr == Share(r, w)
<1>1. /\ i \in Nat \ {0} /\ j \in Nat \ {0} /\ k \in Nat \ {0}
      /\ gp \in Nat /\ gq \in Nat /\ gr \in Nat /\ sp \in Nat /\ sq \in Nat /\ sr \in Nat
      /\ gp <= sp * i /\ gq <= sq * j /\ gr <= sr * k
  BY PartTerms
<1> HIDE DEF i, j, k, gp, gq, gr, sp, sq, sr
<1>2. ASSUME NEW x \in Nat, NEW y \in Nat, NEW z \in Nat, x <= y
      PROVE  x * z <= y * z /\ x * z \in Nat /\ y * z \in Nat
  BY <1>2
<1>3. /\ gp * (j * k) <= (sp * i) * (j * k) /\ gq * (i * k) <= (sq * j) * (i * k)
      /\ gr * (i * j) <= (sr * k) * (i * j)
      /\ gp * (j * k) \in Nat /\ gq * (i * k) \in Nat /\ gr * (i * j) \in Nat
      /\ (sp * i) * (j * k) \in Nat /\ (sq * j) * (i * k) \in Nat /\ (sr * k) * (i * j) \in Nat
  <2>1. j * k \in Nat /\ i * k \in Nat /\ i * j \in Nat
        /\ sp * i \in Nat /\ sq * j \in Nat /\ sr * k \in Nat
    BY <1>1
  <2> QED
    BY <1>1, <1>2, <2>1
<1>4. (sp + sq + sr) * (i * j * k)
        = (sp * i) * (j * k) + (sq * j) * (i * k) + (sr * k) * (i * j)
  BY <1>1
<1>5. i * j * k \in Nat \ {0} /\ sp + sq + sr \in Nat
  BY <1>1, PositiveProduct
<1> QED
  BY <1>3, <1>4, <1>5 DEF i, j, k, gp, gq, gr, sp, sq, sr

\* The score, told from one component.
LEMMA ScoreFromClearances ==
    ASSUME NEW a \in SoundParts,
           NEW f, f = Denominator(a.filing_adherence),
           NEW t, t = Denominator(a.timeliness),
           NEW s, s = Denominator(a.site_safety)
    PROVE  Rounded(a, Weight) =
             ScoreBeside(a.clearance_validity, 3400, f * t * s,
                         Gain(a.filing_adherence, 3825) * (t * s)
                           + Gain(a.timeliness, 1275) * (f * s)
                           + Gain(a.site_safety, 1500) * (f * t),
                         Share(a.filing_adherence, 3825) + Share(a.timeliness, 1275)
                           + Share(a.site_safety, 1500))
<1> DEFINE c == Denominator(a.clearance_validity)
           gc == Gain(a.clearance_validity, 3400)
           gf == Gain(a.filing_adherence, 3825)
           gt == Gain(a.timeliness, 1275)
           gs == Gain(a.site_safety, 1500)
           sc == Share(a.clearance_validity, 3400)
           sf == Share(a.filing_adherence, 3825)
           st == Share(a.timeliness, 1275)
           ss == Share(a.site_safety, 1500)
<1>1. /\ a.clearance_validity \in Sound /\ a.filing_adherence \in Sound
      /\ a.timeliness \in Sound /\ a.site_safety \in Sound
  BY DEF SoundParts
<1>2. /\ c \in Nat /\ f \in Nat /\ t \in Nat /\ s \in Nat
      /\ gc \in Nat /\ gf \in Nat /\ gt \in Nat /\ gs \in Nat
      /\ sc \in Nat /\ sf \in Nat /\ st \in Nat /\ ss \in Nat
  <2>1. \A p \in Sound, w \in Nat :
           Denominator(p) \in Nat /\ Gain(p, w) \in Nat /\ Share(p, w) \in Nat
    BY PartTerms
  <2>2. c \in Nat /\ gc \in Nat /\ sc \in Nat
    BY <1>1, <2>1
  <2>3. f \in Nat /\ gf \in Nat /\ sf \in Nat
    BY <1>1, <2>1
  <2>4. t \in Nat /\ gt \in Nat /\ st \in Nat
    BY <1>1, <2>1
  <2>5. s \in Nat /\ gs \in Nat /\ ss \in Nat
    BY <1>1, <2>1
  <2> HIDE DEF gc, gf, gt, gs, sc, sf, st, ss
  <2> QED
    BY <2>2, <2>3, <2>4, <2>5
<1>3. /\ Whole(a) = c * f * t * s
      /\ Earned(a, Weight, Whole(a)) =
            gc * (f * t * s) + gf * (c * t * s) + gt * (c * f * s) + gs * (c * f * t)
      /\ Applicable(a, Weight) = sc + sf + st + ss
  BY ScoreTerms
<1>4. Rounded(a, Weight) =
         Tenths(Earned(a, Weight, Whole(a)), Applicable(a, Weight) * Whole(a))
  BY DEF Rounded, Tenths
<1>5. ScoreBeside(a.clearance_validity, 3400, f * t * s,
                  gf * (t * s) + gt * (f * s) + gs * (f * t), sf + st + ss)
        = Tenths(gc * (f * t * s) + c * (gf * (t * s) + gt * (f * s) + gs * (f * t)),
                 (sc + (sf + st + ss)) * (c * (f * t * s)))
  BY DEF ScoreBeside
<1> HIDE DEF c, gc, gf, gt, gs, sc, sf, st, ss
<1>6. gc * (f * t * s) + gf * (c * t * s) + gt * (c * f * s) + gs * (c * f * t)
        = gc * (f * t * s) + c * (gf * (t * s) + gt * (f * s) + gs * (f * t))
  BY <1>2
<1>7. (sc + sf + st + ss) * (c * f * t * s) = (sc + (sf + st + ss)) * (c * (f * t * s))
  BY <1>2
<1>8. Rounded(a, Weight)
        = ScoreBeside(a.clearance_validity, 3400, f * t * s,
                      gf * (t * s) + gt * (f * s) + gs * (f * t), sf + st + ss)
  BY <1>3, <1>4, <1>5, <1>6, <1>7
<1> QED
  BY <1>8 DEF gf, gt, gs, sf, st, ss

LEMMA ScoreFromFilings ==
    ASSUME NEW a \in SoundParts,
           NEW c, c = Denominator(a.clearance_validity),
           NEW t, t = Denominator(a.timeliness),
           NEW s, s = Denominator(a.site_safety)
    PROVE  Rounded(a, Weight) =
             ScoreBeside(a.filing_adherence, 3825, c * t * s,
                         Gain(a.clearance_validity, 3400) * (t * s)
                           + Gain(a.timeliness, 1275) * (c * s)
                           + Gain(a.site_safety, 1500) * (c * t),
                         Share(a.clearance_validity, 3400) + Share(a.timeliness, 1275)
                           + Share(a.site_safety, 1500))
<1> DEFINE f == Denominator(a.filing_adherence)
           gc == Gain(a.clearance_validity, 3400)
           gf == Gain(a.filing_adherence, 3825)
           gt == Gain(a.timeliness, 1275)
           gs == Gain(a.site_safety, 1500)
           sc == Share(a.clearance_validity, 3400)
           sf == Share(a.filing_adherence, 3825)
           st == Share(a.timeliness, 1275)
           ss == Share(a.site_safety, 1500)
<1>1. /\ a.clearance_validity \in Sound /\ a.filing_adherence \in Sound
      /\ a.timeliness \in Sound /\ a.site_safety \in Sound
  BY DEF SoundParts
<1>2. /\ c \in Nat /\ f \in Nat /\ t \in Nat /\ s \in Nat
      /\ gc \in Nat /\ gf \in Nat /\ gt \in Nat /\ gs \in Nat
      /\ sc \in Nat /\ sf \in Nat /\ st \in Nat /\ ss \in Nat
  <2>1. \A p \in Sound, w \in Nat :
           Denominator(p) \in Nat /\ Gain(p, w) \in Nat /\ Share(p, w) \in Nat
    BY PartTerms
  <2>2. c \in Nat /\ gc \in Nat /\ sc \in Nat
    BY <1>1, <2>1
  <2>3. f \in Nat /\ gf \in Nat /\ sf \in Nat
    BY <1>1, <2>1
  <2>4. t \in Nat /\ gt \in Nat /\ st \in Nat
    BY <1>1, <2>1
  <2>5. s \in Nat /\ gs \in Nat /\ ss \in Nat
    BY <1>1, <2>1
  <2> HIDE DEF gc, gf, gt, gs, sc, sf, st, ss
  <2> QED
    BY <2>2, <2>3, <2>4, <2>5
<1>3. /\ Whole(a) = c * f * t * s
      /\ Earned(a, Weight, Whole(a)) =
            gc * (f * t * s) + gf * (c * t * s) + gt * (c * f * s) + gs * (c * f * t)
      /\ Applicable(a, Weight) = sc + sf + st + ss
  BY ScoreTerms
<1>4. Rounded(a, Weight) =
         Tenths(Earned(a, Weight, Whole(a)), Applicable(a, Weight) * Whole(a))
  BY DEF Rounded, Tenths
<1>5. ScoreBeside(a.filing_adherence, 3825, c * t * s,
                  gc * (t * s) + gt * (c * s) + gs * (c * t), sc + st + ss)
        = Tenths(gf * (c * t * s)
                   + f * (gc * (t * s) + gt * (c * s) + gs * (c * t)),
                 (sf + (sc + st + ss)) * (f * (c * t * s)))
  BY DEF ScoreBeside
<1> HIDE DEF f, gc, gf, gt, gs, sc, sf, st, ss
<1>6. gc * (f * t * s) + gf * (c * t * s) + gt * (c * f * s) + gs * (c * f * t)
        = gf * (c * t * s)
          + f * (gc * (t * s) + gt * (c * s) + gs * (c * t))
  BY <1>2
<1>7. (sc + sf + st + ss) * (c * f * t * s)
        = (sf + (sc + st + ss)) * (f * (c * t * s))
  BY <1>2
<1>8. Rounded(a, Weight)
        = ScoreBeside(a.filing_adherence, 3825, c * t * s,
                      gc * (t * s) + gt * (c * s) + gs * (c * t), sc + st + ss)
  BY <1>3, <1>4, <1>5, <1>6, <1>7
<1> QED
  BY <1>8 DEF gc, gf, gt, gs, sc, sf, st, ss

LEMMA ScoreFromTimeliness ==
    ASSUME NEW a \in SoundParts,
           NEW c, c = Denominator(a.clearance_validity),
           NEW f, f = Denominator(a.filing_adherence),
           NEW s, s = Denominator(a.site_safety)
    PROVE  Rounded(a, Weight) =
             ScoreBeside(a.timeliness, 1275, c * f * s,
                         Gain(a.clearance_validity, 3400) * (f * s)
                           + Gain(a.filing_adherence, 3825) * (c * s)
                           + Gain(a.site_safety, 1500) * (c * f),
                         Share(a.clearance_validity, 3400) + Share(a.filing_adherence, 3825)
                           + Share(a.site_safety, 1500))
<1> DEFINE t == Denominator(a.timeliness)
           gc == Gain(a.clearance_validity, 3400)
           gf == Gain(a.filing_adherence, 3825)
           gt == Gain(a.timeliness, 1275)
           gs == Gain(a.site_safety, 1500)
           sc == Share(a.clearance_validity, 3400)
           sf == Share(a.filing_adherence, 3825)
           st == Share(a.timeliness, 1275)
           ss == Share(a.site_safety, 1500)
<1>1. /\ a.clearance_validity \in Sound /\ a.filing_adherence \in Sound
      /\ a.timeliness \in Sound /\ a.site_safety \in Sound
  BY DEF SoundParts
<1>2. /\ c \in Nat /\ f \in Nat /\ t \in Nat /\ s \in Nat
      /\ gc \in Nat /\ gf \in Nat /\ gt \in Nat /\ gs \in Nat
      /\ sc \in Nat /\ sf \in Nat /\ st \in Nat /\ ss \in Nat
  <2>1. \A p \in Sound, w \in Nat :
           Denominator(p) \in Nat /\ Gain(p, w) \in Nat /\ Share(p, w) \in Nat
    BY PartTerms
  <2>2. c \in Nat /\ gc \in Nat /\ sc \in Nat
    BY <1>1, <2>1
  <2>3. f \in Nat /\ gf \in Nat /\ sf \in Nat
    BY <1>1, <2>1
  <2>4. t \in Nat /\ gt \in Nat /\ st \in Nat
    BY <1>1, <2>1
  <2>5. s \in Nat /\ gs \in Nat /\ ss \in Nat
    BY <1>1, <2>1
  <2> HIDE DEF gc, gf, gt, gs, sc, sf, st, ss
  <2> QED
    BY <2>2, <2>3, <2>4, <2>5
<1>3. /\ Whole(a) = c * f * t * s
      /\ Earned(a, Weight, Whole(a)) =
            gc * (f * t * s) + gf * (c * t * s) + gt * (c * f * s) + gs * (c * f * t)
      /\ Applicable(a, Weight) = sc + sf + st + ss
  BY ScoreTerms
<1>4. Rounded(a, Weight) =
         Tenths(Earned(a, Weight, Whole(a)), Applicable(a, Weight) * Whole(a))
  BY DEF Rounded, Tenths
<1>5. ScoreBeside(a.timeliness, 1275, c * f * s,
                  gc * (f * s) + gf * (c * s) + gs * (c * f), sc + sf + ss)
        = Tenths(gt * (c * f * s)
                   + t * (gc * (f * s) + gf * (c * s) + gs * (c * f)),
                 (st + (sc + sf + ss)) * (t * (c * f * s)))
  BY DEF ScoreBeside
<1> HIDE DEF t, gc, gf, gt, gs, sc, sf, st, ss
<1>6. gc * (f * t * s) + gf * (c * t * s) + gt * (c * f * s) + gs * (c * f * t)
        = gt * (c * f * s)
          + t * (gc * (f * s) + gf * (c * s) + gs * (c * f))
  BY <1>2
<1>7. (sc + sf + st + ss) * (c * f * t * s)
        = (st + (sc + sf + ss)) * (t * (c * f * s))
  BY <1>2
<1>8. Rounded(a, Weight)
        = ScoreBeside(a.timeliness, 1275, c * f * s,
                      gc * (f * s) + gf * (c * s) + gs * (c * f), sc + sf + ss)
  BY <1>3, <1>4, <1>5, <1>6, <1>7
<1> QED
  BY <1>8 DEF gc, gf, gt, gs, sc, sf, st, ss

\* A score does not fall when one component improves and the others stay.
LEMMA ClearancesImprove ==
    ASSUME NEW a \in SoundParts, NEW b \in SoundParts,
           a.filing_adherence = b.filing_adherence, a.timeliness = b.timeliness, a.site_safety = b.site_safety,
           Improves(a.clearance_validity, b.clearance_validity)
    PROVE  /\ Rounded(a, Weight) \in Int /\ Rounded(b, Weight) \in Int
           /\ Rounded(a, Weight) <= Rounded(b, Weight)
<1> DEFINE f == Denominator(a.filing_adherence)
           t == Denominator(a.timeliness)
           s == Denominator(a.site_safety)
           whole == f * t * s
           others == Gain(a.filing_adherence, 3825) * (t * s)
                     + Gain(a.timeliness, 1275) * (f * s)
                     + Gain(a.site_safety, 1500) * (f * t)
           rest == Share(a.filing_adherence, 3825) + Share(a.timeliness, 1275)
                   + Share(a.site_safety, 1500)
<1>1. Rounded(a, Weight) = ScoreBeside(a.clearance_validity, 3400, whole, others, rest)
  BY ScoreFromClearances
<1>2. Rounded(b, Weight) = ScoreBeside(b.clearance_validity, 3400, whole, others, rest)
  <2>1. f = Denominator(b.filing_adherence) /\ t = Denominator(b.timeliness) /\ s = Denominator(b.site_safety)
    OBVIOUS
  <2> HIDE DEF f, t, s
  <2> QED
    BY <2>1, ScoreFromClearances
<1>3. /\ whole \in Nat \ {0} /\ others \in Nat /\ rest \in Nat /\ others <= rest * whole
  <2> DEFINE p == a.filing_adherence
             q == a.timeliness
             r == a.site_safety
             u == 3825
             v == 1275
             w == 1500
  <2>1. /\ p \in Sound /\ q \in Sound /\ r \in Sound
        /\ u \in Nat /\ v \in Nat /\ w \in Nat
    BY DEF SoundParts
  <2> HIDE DEF p, q, r, u, v, w
  <2>2. /\ Denominator(p) * Denominator(q) * Denominator(r) \in Nat \ {0}
        /\ Gain(p, u) * (Denominator(q) * Denominator(r))
             + Gain(q, v) * (Denominator(p) * Denominator(r))
             + Gain(r, w) * (Denominator(p) * Denominator(q)) \in Nat
        /\ Share(p, u) + Share(q, v) + Share(r, w) \in Nat
        /\ Gain(p, u) * (Denominator(q) * Denominator(r))
             + Gain(q, v) * (Denominator(p) * Denominator(r))
             + Gain(r, w) * (Denominator(p) * Denominator(q))
             <= (Share(p, u) + Share(q, v) + Share(r, w))
                  * (Denominator(p) * Denominator(q) * Denominator(r))
    BY <2>1, ThreeTerms
  <2> QED
    BY <2>2 DEF p, q, r, u, v, w
<1>4. a.clearance_validity \in Sound /\ b.clearance_validity \in Sound
  BY DEF SoundParts
<1> HIDE DEF whole, others, rest
<1> QED
  BY <1>1, <1>2, <1>3, <1>4, OneImproves

LEMMA FilingsImprove ==
    ASSUME NEW a \in SoundParts, NEW b \in SoundParts,
           a.clearance_validity = b.clearance_validity, a.timeliness = b.timeliness, a.site_safety = b.site_safety,
           Improves(a.filing_adherence, b.filing_adherence)
    PROVE  /\ Rounded(a, Weight) \in Int /\ Rounded(b, Weight) \in Int
           /\ Rounded(a, Weight) <= Rounded(b, Weight)
<1> DEFINE c == Denominator(a.clearance_validity)
           t == Denominator(a.timeliness)
           s == Denominator(a.site_safety)
           whole == c * t * s
           others == Gain(a.clearance_validity, 3400) * (t * s)
                     + Gain(a.timeliness, 1275) * (c * s)
                     + Gain(a.site_safety, 1500) * (c * t)
           rest == Share(a.clearance_validity, 3400) + Share(a.timeliness, 1275)
                   + Share(a.site_safety, 1500)
<1>1. Rounded(a, Weight) = ScoreBeside(a.filing_adherence, 3825, whole, others, rest)
  BY ScoreFromFilings
<1>2. Rounded(b, Weight) = ScoreBeside(b.filing_adherence, 3825, whole, others, rest)
  <2>1. c = Denominator(b.clearance_validity) /\ t = Denominator(b.timeliness) /\ s = Denominator(b.site_safety)
    OBVIOUS
  <2> HIDE DEF c, t, s
  <2> QED
    BY <2>1, ScoreFromFilings
<1>3. /\ whole \in Nat \ {0} /\ others \in Nat /\ rest \in Nat /\ others <= rest * whole
  <2> DEFINE p == a.clearance_validity
             q == a.timeliness
             r == a.site_safety
             u == 3400
             v == 1275
             w == 1500
  <2>1. /\ p \in Sound /\ q \in Sound /\ r \in Sound
        /\ u \in Nat /\ v \in Nat /\ w \in Nat
    BY DEF SoundParts
  <2> HIDE DEF p, q, r, u, v, w
  <2>2. /\ Denominator(p) * Denominator(q) * Denominator(r) \in Nat \ {0}
        /\ Gain(p, u) * (Denominator(q) * Denominator(r))
             + Gain(q, v) * (Denominator(p) * Denominator(r))
             + Gain(r, w) * (Denominator(p) * Denominator(q)) \in Nat
        /\ Share(p, u) + Share(q, v) + Share(r, w) \in Nat
        /\ Gain(p, u) * (Denominator(q) * Denominator(r))
             + Gain(q, v) * (Denominator(p) * Denominator(r))
             + Gain(r, w) * (Denominator(p) * Denominator(q))
             <= (Share(p, u) + Share(q, v) + Share(r, w))
                  * (Denominator(p) * Denominator(q) * Denominator(r))
    BY <2>1, ThreeTerms
  <2> QED
    BY <2>2 DEF p, q, r, u, v, w
<1>4. a.filing_adherence \in Sound /\ b.filing_adherence \in Sound
  BY DEF SoundParts
<1> HIDE DEF whole, others, rest
<1> QED
  BY <1>1, <1>2, <1>3, <1>4, OneImproves

LEMMA TimelinessImproves ==
    ASSUME NEW a \in SoundParts, NEW b \in SoundParts,
           a.clearance_validity = b.clearance_validity, a.filing_adherence = b.filing_adherence, a.site_safety = b.site_safety,
           Improves(a.timeliness, b.timeliness)
    PROVE  /\ Rounded(a, Weight) \in Int /\ Rounded(b, Weight) \in Int
           /\ Rounded(a, Weight) <= Rounded(b, Weight)
<1> DEFINE c == Denominator(a.clearance_validity)
           f == Denominator(a.filing_adherence)
           s == Denominator(a.site_safety)
           whole == c * f * s
           others == Gain(a.clearance_validity, 3400) * (f * s)
                     + Gain(a.filing_adherence, 3825) * (c * s)
                     + Gain(a.site_safety, 1500) * (c * f)
           rest == Share(a.clearance_validity, 3400) + Share(a.filing_adherence, 3825)
                   + Share(a.site_safety, 1500)
<1>1. Rounded(a, Weight) = ScoreBeside(a.timeliness, 1275, whole, others, rest)
  BY ScoreFromTimeliness
<1>2. Rounded(b, Weight) = ScoreBeside(b.timeliness, 1275, whole, others, rest)
  <2>1. c = Denominator(b.clearance_validity) /\ f = Denominator(b.filing_adherence) /\ s = Denominator(b.site_safety)
    OBVIOUS
  <2> HIDE DEF c, f, s
  <2> QED
    BY <2>1, ScoreFromTimeliness
<1>3. /\ whole \in Nat \ {0} /\ others \in Nat /\ rest \in Nat /\ others <= rest * whole
  <2> DEFINE p == a.clearance_validity
             q == a.filing_adherence
             r == a.site_safety
             u == 3400
             v == 3825
             w == 1500
  <2>1. /\ p \in Sound /\ q \in Sound /\ r \in Sound
        /\ u \in Nat /\ v \in Nat /\ w \in Nat
    BY DEF SoundParts
  <2> HIDE DEF p, q, r, u, v, w
  <2>2. /\ Denominator(p) * Denominator(q) * Denominator(r) \in Nat \ {0}
        /\ Gain(p, u) * (Denominator(q) * Denominator(r))
             + Gain(q, v) * (Denominator(p) * Denominator(r))
             + Gain(r, w) * (Denominator(p) * Denominator(q)) \in Nat
        /\ Share(p, u) + Share(q, v) + Share(r, w) \in Nat
        /\ Gain(p, u) * (Denominator(q) * Denominator(r))
             + Gain(q, v) * (Denominator(p) * Denominator(r))
             + Gain(r, w) * (Denominator(p) * Denominator(q))
             <= (Share(p, u) + Share(q, v) + Share(r, w))
                  * (Denominator(p) * Denominator(q) * Denominator(r))
    BY <2>1, ThreeTerms
  <2> QED
    BY <2>2 DEF p, q, r, u, v, w
<1>4. a.timeliness \in Sound /\ b.timeliness \in Sound
  BY DEF SoundParts
<1> HIDE DEF whole, others, rest
<1> QED
  BY <1>1, <1>2, <1>3, <1>4, OneImproves

\* The counts of an assessment are sound: what is got is counted among what there is.
LEMMA AssessmentSound ==
    ASSUME TypeOK, NEW l \in Lease, NEW asOf \in Time
    PROVE  Assessment(l, asOf) \in SoundParts
<1> DEFINE a == Assessment(l, asOf)
<1>1. a \in Parts
  BY AssessmentParts
<1>2. ASSUME NEW S, NEW T, T \subseteq S, S \subseteq Licence \/ S \subseteq Entry
      PROVE  Cardinality(T) <= Cardinality(S)
  <2>1. IsFiniteSet(S)
    BY <1>2, ConstantsOK, FS_Subset
  <2> QED
    BY <1>2, <2>1, FS_Subset
<1>3. a.clearance_validity.got <= a.clearance_validity.outOf
  <2>1. Clearances(l) \subseteq Licence /\ {c \in Clearances(l) : ~Invalid(c, asOf)} \subseteq Clearances(l)
    BY DEF Clearances
  <2> QED
    BY <1>2, <2>1 DEF Assessment
<1>4. a.filing_adherence.got <= a.filing_adherence.outOf
  <2>1. ComeDue(l, asOf) \subseteq Entry /\ ComeDue(l, asOf) \cap Submitted(l) \subseteq ComeDue(l, asOf)
    BY DEF ComeDue, Tracked
  <2> QED
    BY <1>2, <2>1 DEF Assessment
<1>5. a.timeliness.got <= a.timeliness.outOf
  <2>1. Submitted(l) \subseteq Entry /\ OnTime(l) \subseteq Submitted(l)
    BY DEF Submitted, OnTime, Tracked
  <2> QED
    BY <1>2, <2>1 DEF Assessment
<1>6. a.site_safety.got <= a.site_safety.outOf
  <2>1. findings[l] \in Nat
    BY ConstantsOK DEF TypeOK
  <2>2. SafetyEarned(findings[l]) <= SafetyOf(findings[l])
    BY <2>1 DEF SafetyEarned, SafetyOf
  <2> QED
    BY <2>2 DEF Assessment
<1> HIDE DEF a
<1>7. a \in SoundParts
  BY <1>1, <1>3, <1>4, <1>5, <1>6 DEF Parts, SoundParts, Sound
<1> QED
  BY <1>7 DEF a

\* A lease nobody touches never looks better for the passing of a day, except when a
\* filing made early comes due (services/compliance.py:12).
THEOREM TimeNeverHelps == Spec => []TimeAloneCosts
<1>1. TypeOK => TimeAloneCosts
  <2> SUFFICES ASSUME TypeOK, NEW l \in Lease, NEW asOf \in 1 .. LastDay,
                      \A e \in Submitted(l) : entry[e].due # asOf
               PROVE  ~(Score(l, asOf) > Score(l, asOf - 1))
    BY DEF TimeAloneCosts
  <2> DEFINE a == Assessment(l, asOf - 1)
             b == Assessment(l, asOf)
             m == [a EXCEPT !.clearance_validity = b.clearance_validity]
  <2>1. asOf \in Time /\ asOf - 1 \in Time /\ asOf \in Nat
    BY ConstantsOK DEF Time
  <2>2. a \in SoundParts /\ b \in SoundParts
    BY <2>1, AssessmentSound
  <2>3. b.timeliness = a.timeliness /\ b.site_safety = a.site_safety
    BY DEF Assessment
  <2>4. ASSUME NEW S, S \subseteq Licence \/ S \subseteq Entry
        PROVE  IsFiniteSet(S)
    BY <2>4, ConstantsOK, FS_Subset
  <2>5. /\ b.clearance_validity.outOf = a.clearance_validity.outOf
        /\ b.clearance_validity.got <= a.clearance_validity.got
    <3> DEFINE S == {c \in Clearances(l) : ~Invalid(c, asOf - 1)}
               T == {c \in Clearances(l) : ~Invalid(c, asOf)}
    <3>1. ASSUME NEW c \in Clearances(l), Invalid(c, asOf - 1)
          PROVE  Invalid(c, asOf)
      <4>1. licence[c] \in LicenceRow
        BY DEF Clearances, TypeOK
      <4>2. licence[c].validTo \in ValidTo
        BY <4>1 DEF LicenceRow
      <4>3. licence[c].validTo = None \/ licence[c].validTo \in Time
        BY <4>2, ConstantsOK
      <4> QED
        BY <2>1, <3>1, <4>3 DEF Invalid, Lapsed, Time
    <3>2. T \subseteq S /\ S \subseteq Licence
      BY <3>1 DEF Clearances
    <3>3. Cardinality(T) <= Cardinality(S)
      BY <2>4, <3>2, FS_Subset
    <3> QED
      BY <3>3 DEF Assessment
  <2>6. /\ b.filing_adherence.got = a.filing_adherence.got
        /\ a.filing_adherence.outOf <= b.filing_adherence.outOf
    <3> DEFINE S == ComeDue(l, asOf - 1)
               T == ComeDue(l, asOf)
    <3>1. ASSUME NEW e \in Tracked(l)
          PROVE  entry[e].due \in Nat
      <4>1. entry[e] \in EntryRow
        BY <3>1 DEF Tracked, TypeOK, NoEntry
      <4>2. entry[e].due \in DueDate
        BY <4>1 DEF EntryRow
      <4>3. entry[e].due \in Time
        BY <4>2, ConstantsOK
      <4> QED
        BY <4>3 DEF Time
    <3>2. S \subseteq T /\ T \subseteq Entry
      BY <2>1, <3>1 DEF ComeDue, Tracked
    <3>3. S \cap Submitted(l) = T \cap Submitted(l)
      BY <2>1, <3>1 DEF ComeDue, Submitted
    <3>4. Cardinality(S) <= Cardinality(T)
      BY <2>4, <3>2, FS_Subset
    <3> QED
      BY <3>3, <3>4 DEF Assessment
  <2> HIDE DEF a, b
  <2>7. /\ m \in SoundParts /\ m.clearance_validity = b.clearance_validity
        /\ m.filing_adherence = a.filing_adherence /\ m.timeliness = a.timeliness
        /\ m.site_safety = a.site_safety
    BY <2>2 DEF SoundParts
  <2>8. /\ a.clearance_validity \in Sound /\ b.clearance_validity \in Sound
        /\ a.filing_adherence \in Sound /\ b.filing_adherence \in Sound
    BY <2>2 DEF SoundParts
  <2>9. Improves(m.clearance_validity, a.clearance_validity)
    <3> DEFINE g == b.clearance_validity.got
               h == a.clearance_validity.got
               n == a.clearance_validity.outOf
    <3>1. g \in Nat /\ h \in Nat /\ n \in Nat /\ g <= h /\ h <= n /\ b.clearance_validity.outOf = n
      BY <2>5, <2>8 DEF Sound, Part
    <3> HIDE DEF g, h, n
    <3>2. g * n <= h * n
      BY <3>1
    <3>3. n = 0 => h = n
      BY <3>1
    <3> QED
      BY <2>7, <3>1, <3>2, <3>3 DEF Improves, g, h, n
  <2>10. Improves(b.filing_adherence, m.filing_adherence)
    <3> DEFINE g == a.filing_adherence.got
               n == a.filing_adherence.outOf
               k == b.filing_adherence.outOf
    <3>1. g \in Nat /\ n \in Nat /\ k \in Nat /\ g <= n /\ n <= k /\ b.filing_adherence.got = g
      BY <2>6, <2>8 DEF Sound, Part
    <3> HIDE DEF g, n, k
    <3>2. g * n <= g * k
      BY <3>1
    <3>3. n = 0 => g = 0
      BY <3>1
    <3>4. n # 0 => k # 0
      BY <3>1
    <3> QED
      BY <2>7, <3>1, <3>2, <3>3, <3>4 DEF Improves, g, n, k
  <2> HIDE DEF m
  <2>11. /\ Rounded(m, Weight) \in Int /\ Rounded(a, Weight) \in Int
         /\ Rounded(m, Weight) <= Rounded(a, Weight)
    BY <2>2, <2>7, <2>9, ClearancesImprove
  <2>12. /\ Rounded(b, Weight) \in Int /\ Rounded(b, Weight) <= Rounded(m, Weight)
    BY <2>2, <2>3, <2>7, <2>10, FilingsImprove
  <2>13. Rounded(b, Weight) <= Rounded(a, Weight)
    BY <2>11, <2>12
  <2> QED
    BY <2>11, <2>12, <2>13 DEF Score, a, b
<1> QED
  BY <1>1, TypeInvariant, PTL

\* One more record, counted.
LEMMA OneMore ==
    ASSUME NEW S, NEW x, IsFiniteSet(S), x \notin S
    PROVE  Cardinality(S \cup {x}) = Cardinality(S) + 1
BY FS_AddElement

\* A component improves when something is added that is got, or when something it
\* counts already is got.
LEMMA OneMoreImproves ==
    ASSUME NEW p \in Sound, NEW q \in Sound, q.got = p.got + 1,
           q.outOf = p.outOf \/ q.outOf = p.outOf + 1
    PROVE  Improves(p, q)
<1> DEFINE g == p.got
           n == p.outOf
<1>1. g \in Nat /\ n \in Nat /\ g <= n /\ q.got = g + 1 /\ q.got <= q.outOf
  BY DEF Sound, Part
<1> HIDE DEF g, n
<1>2. CASE n = 0
  BY <1>1, <1>2 DEF Improves, g, n
<1>3. CASE n # 0
  <2>1. g * n <= (g + 1) * n
    BY <1>1
  <2>2. g * (n + 1) = g * n + g /\ (g + 1) * n = g * n + n /\ g * n \in Nat
    BY <1>1
  <2>3. g * (n + 1) <= (g + 1) * n
    BY <1>1, <2>2
  <2>4. q.outOf = n \/ q.outOf = n + 1
    BY DEF n
  <2> QED
    BY <1>1, <1>3, <2>1, <2>3, <2>4 DEF Improves, g, n
<1> QED
  BY <1>2, <1>3

\* What a component that did not change may be called.
LEMMA SameImproves ==
    ASSUME NEW p \in Sound
    PROVE  Improves(p, p)
BY DEF Improves, Sound, Part

\* A step that files an entry changes nothing else.
LEMMA FilingStep ==
    ASSUME TypeOK, [Next]_vars, NEW e \in Entry,
           entry[e].status # "submitted", entry'[e].status = "submitted"
    PROVE  /\ entry[e] \in EntryRow
           /\ entry'[e].due = entry[e].due
           /\ entry'[e].filedOn \in Time
           /\ \A d \in Entry \ {e} : entry'[d] = entry[d]
           /\ UNCHANGED <<today, licence, findings>>
<1> DEFINE Files(on) == /\ entry[e] \in EntryRow
                        /\ on \in Time
                        /\ entry' = [entry EXCEPT ![e].status = "submitted", ![e].filedOn = on]
                        /\ UNCHANGED <<today, licence, findings>>
<1>1. ASSUME NEW d \in Entry, NEW due \in DueDate, Generate(d, due) PROVE FALSE
  BY <1>1 DEF Generate, TypeOK
<1>2. ASSUME NEW d \in Entry, NEW on \in 0 .. today, Submit(d, on) PROVE Files(on)
  <2>1. d = e
    BY <1>2 DEF Submit, TypeOK
  <2>2. entry[e] \in EntryRow
    BY <1>2, <2>1 DEF Submit, TypeOK, NoEntry
  <2> QED
    BY <1>2, <2>1, <2>2, ConstantsOK DEF Submit, TypeOK, Time
<1>3. ASSUME NEW d \in Entry, NEW status \in Patched, ChangeStatus(d, status)
      PROVE  \E on \in Time : Files(on)
  <2>1. d = e
    BY <1>3 DEF ChangeStatus, TypeOK
  <2>2. entry[e] \in EntryRow
    BY <1>3, <2>1 DEF ChangeStatus, TypeOK
  <2> DEFINE on == IF status = "submitted" /\ entry[e].filedOn = None THEN today
                   ELSE entry[e].filedOn
  <2>3. entry' = [entry EXCEPT ![e].status = status, ![e].filedOn = on]
    BY <1>3, <2>1 DEF ChangeStatus
  <2>4. status = "submitted"
    BY <2>2, <2>3 DEF TypeOK, EntryRow
  <2>5. on \in Time
    BY <2>2, <2>4 DEF TypeOK, EntryRow
  <2>6. UNCHANGED <<today, licence, findings>>
    BY <1>3 DEF ChangeStatus
  <2> HIDE DEF on
  <2>7. Files(on)
    BY <2>2, <2>3, <2>4, <2>5, <2>6
  <2> QED
    BY <2>5, <2>7
<1>4. ASSUME NEW asOf \in Time, RefreshOverdue(asOf) PROVE FALSE
  <2>1. CASE entry[e].status \in {"pending", "in_progress"} /\ entry[e].due < asOf
    <3>1. entry[e] \in EntryRow
      BY <2>1 DEF TypeOK, NoEntry
    <3>2. entry'[e].status = "overdue"
      BY <1>4, <2>1, <3>1 DEF RefreshOverdue, EntryRow
    <3> QED
      BY <3>2
  <2>2. CASE ~(entry[e].status \in {"pending", "in_progress"} /\ entry[e].due < asOf)
    BY <1>4, <2>2 DEF RefreshOverdue
  <2> QED
    BY <2>1, <2>2
<1>5. \E on \in Time : Files(on)
  <2>1. entry' # entry
    OBVIOUS
  <2>2. CASE \E d \in Entry, on \in 0 .. today : Submit(d, on)
    <3>1. PICK d \in Entry, on \in 0 .. today : Submit(d, on)
      BY <2>2
    <3>2. Files(on)
      BY <1>2, <3>1
    <3> QED
      BY <3>2
  <2>3. CASE \E d \in Entry, status \in Patched : ChangeStatus(d, status)
    BY <1>3, <2>3
  <2>4. CASE \/ \E d \in Entry, due \in DueDate : Generate(d, due)
             \/ \E asOf \in Time : RefreshOverdue(asOf)
    BY <1>1, <1>4, <2>4
  <2> QED
    BY <2>1, <2>2, <2>3, <2>4 DEF Next, vars, CreateLicence, UpdateLicence, DeleteLicence,
       OpenFindings, ResolveFinding, NextDay
<1>6. PICK on \in Time : Files(on)
  BY <1>5
<1>7. entry'[e] = [entry[e] EXCEPT !.status = "submitted", !.filedOn = on]
  BY <1>6 DEF TypeOK
<1>8. entry'[e].due = entry[e].due /\ entry'[e].filedOn = on
  BY <1>6, <1>7 DEF EntryRow
<1>9. \A d \in Entry \ {e} : entry'[d] = entry[d]
  BY <1>6 DEF TypeOK
<1> QED
  BY <1>6, <1>8, <1>9

\* A filing made in time never lowers the score, whatever the date it is looked at
\* (services/compliance.py:268).
THEOREM FilingInTimeHelps == Spec => TimelyFilingHelps
<1> DEFINE Counted == \A l \in Lease, asOf \in Time : Assessment(l, asOf) \in SoundParts
<1>a. TypeOK => Counted
  BY AssessmentSound
<1>b. TypeOK' => Counted'
  BY <1>a, PTL
<1>1. ASSUME TypeOK, TypeOK', [Next]_vars, NEW e \in Entry, NEW asOf \in Time,
             entry[e].status # "submitted", entry'[e].status = "submitted",
             entry'[e].filedOn <= entry'[e].due
      PROVE  ~Falls(EntryOf[e], asOf)
  <2> DEFINE l == EntryOf[e]
             a == Assessment(l, asOf)
             b == Assessment(l, asOf)'
             m == [a EXCEPT !.filing_adherence = b.filing_adherence]
  <2>1. /\ entry[e] \in EntryRow /\ entry'[e].due = entry[e].due /\ entry'[e].filedOn \in Time
        /\ \A d \in Entry \ {e} : entry'[d] = entry[d]
        /\ UNCHANGED <<today, licence, findings>>
    BY <1>1, FilingStep
  <2>2. l \in Lease
    BY ConstantsOK
  <2>3. a \in SoundParts
    BY <1>1, <2>2, AssessmentSound
  <2>4. b \in SoundParts
    BY <1>1, <1>b, <2>2
  <2>5. b.clearance_validity = a.clearance_validity /\ b.site_safety = a.site_safety
    BY <2>1 DEF Assessment, Clearances, Invalid, Lapsed
  <2>6. Tracked(l)' = Tracked(l) \cup {e}
    BY <1>1, <2>1 DEF Tracked, Exempt
  <2>7. /\ Submitted(l)' = Submitted(l) \cup {e} /\ e \notin Submitted(l)
    BY <1>1, <2>1, <2>6 DEF Submitted, Tracked
  <2>8. OnTime(l)' = OnTime(l) \cup {e} /\ e \notin OnTime(l)
    BY <1>1, <2>1, <2>7 DEF OnTime, Submitted, Tracked
  <2>9. ComeDue(l, asOf)' = IF entry[e].due <= asOf THEN ComeDue(l, asOf) \cup {e}
                            ELSE ComeDue(l, asOf)
    BY <1>1, <2>1, <2>6 DEF ComeDue, Tracked
  <2>10. /\ IsFiniteSet(Submitted(l)) /\ IsFiniteSet(OnTime(l)) /\ IsFiniteSet(ComeDue(l, asOf))
         /\ IsFiniteSet(ComeDue(l, asOf) \cap Submitted(l))
    <3>1. ASSUME NEW S, S \subseteq Entry PROVE IsFiniteSet(S)
      BY <3>1, ConstantsOK, FS_Subset
    <3> QED
      BY <3>1 DEF Submitted, OnTime, ComeDue, Tracked
  <2>11. /\ b.timeliness.got = a.timeliness.got + 1
         /\ b.timeliness.outOf = a.timeliness.outOf + 1
    BY <2>7, <2>8, <2>10, OneMore DEF Assessment
  <2>12. \/ b.filing_adherence = a.filing_adherence
         \/ /\ b.filing_adherence.got = a.filing_adherence.got + 1
            /\ \/ b.filing_adherence.outOf = a.filing_adherence.outOf
               \/ b.filing_adherence.outOf = a.filing_adherence.outOf + 1
    <3> DEFINE S == ComeDue(l, asOf)
               T == Submitted(l)
    <3>1. CASE entry[e].due <= asOf
      <4>1. (S \cap T)' = (S \cap T) \cup {e} /\ e \notin S \cap T
        BY <2>7, <2>9, <3>1
      <4>2. Cardinality((S \cap T)') = Cardinality(S \cap T) + 1
        BY <2>10, <4>1, OneMore
      <4>3. S' = S \cup {e}
        BY <2>9, <3>1
      <4>4. Cardinality(S') = Cardinality(S) \/ Cardinality(S') = Cardinality(S) + 1
        <5>1. CASE e \in S
          <6>1. S' = S
            BY <4>3, <5>1
          <6> QED
            BY <6>1
        <5>2. CASE e \notin S
          BY <2>10, <4>3, <5>2, OneMore
        <5> QED
          BY <5>1, <5>2
      <4> QED
        BY <4>2, <4>4 DEF Assessment
    <3>2. CASE ~(entry[e].due <= asOf)
      <4>1. S' = S /\ e \notin S
        BY <2>9, <3>2 DEF ComeDue
      <4>2. (S \cap T)' = S \cap T
        BY <2>7, <4>1
      <4> QED
        BY <4>1, <4>2 DEF Assessment
    <3> QED
      BY <3>1, <3>2
  <2> HIDE DEF a, b
  <2>13. /\ m \in SoundParts /\ m.filing_adherence = b.filing_adherence
         /\ m.clearance_validity = a.clearance_validity /\ m.timeliness = a.timeliness
         /\ m.site_safety = a.site_safety
    BY <2>3, <2>4 DEF SoundParts
  <2> HIDE DEF m
  <2>14. /\ a.filing_adherence \in Sound /\ b.filing_adherence \in Sound
         /\ a.timeliness \in Sound /\ b.timeliness \in Sound
    BY <2>3, <2>4 DEF SoundParts
  <2>15. Improves(a.filing_adherence, m.filing_adherence)
    BY <2>12, <2>13, <2>14, OneMoreImproves, SameImproves
  <2>16. Improves(m.timeliness, b.timeliness)
    BY <2>11, <2>13, <2>14, OneMoreImproves
  <2>17. /\ Rounded(a, Weight) \in Int /\ Rounded(m, Weight) \in Int
         /\ Rounded(a, Weight) <= Rounded(m, Weight)
    BY <2>3, <2>13, <2>15, FilingsImprove
  <2>18. /\ Rounded(b, Weight) \in Int /\ Rounded(m, Weight) <= Rounded(b, Weight)
    BY <2>4, <2>5, <2>13, <2>16, TimelinessImproves
  <2>19. ~(Rounded(b, Weight) < Rounded(a, Weight))
    BY <2>17, <2>18
  <2> QED
    BY <2>19 DEF Falls, a, b
<1>2. TypeOK /\ TypeOK' /\ [Next]_vars =>
        \A e \in Entry :
          entry[e].status # "submitted" /\ entry'[e].status = "submitted"
                /\ entry'[e].filedOn <= entry'[e].due
          => \A asOf \in Time : ~Falls(EntryOf[e], asOf)
  BY <1>1
<1> QED
  BY <1>2, TypeInvariant, PTL DEF Spec, TimelyFilingHelps
=============================================================================
