--------------------------- MODULE RemindersProofs ---------------------------
(***************************************************************************)
(* Theorems about Reminders, for any entries, leases, runs, limits and     *)
(* faults.                                                                 *)
(*                                                                         *)
(* SentWasMailed, OncePerRun, HistoryIsWhole and OwedAnswered share one    *)
(* inductive invariant, which follows a run from its two queries over the  *)
(* messages to the commit.                                                 *)
(***************************************************************************)
EXTENDS Reminders, TLAPS

(***************************************************************************)
(* Type correctness.                                                       *)
(***************************************************************************)

LEMMA PageFound ==
    ASSUME NEW found, NEW S \in Page(found)
    PROVE  /\ S \subseteq found
           /\ \A e \in found \ S :
                 Cardinality(S) = Limit /\ \A f \in S : Due[f] <= Due[e]
BY DEF Page

LEMMA TypeInit == Init => TypeOK
BY DEF Init, TypeOK, RunState, Empty, Kind

LEMMA RecordedType ==
    ASSUME TypeOK, NEW r \in Run, NEW e \in Entry, NEW k \in Kind,
           NEW status \in Outcome, Recorded(r, e, k, status)
    PROVE  run' \in [Run -> RunState]
<1> DEFINE d == [run |-> r, entry |-> e, kind |-> k, status |-> status]
<1>1. d \in Delivery
  BY DEF Delivery
<1>2. run[r] \in RunState /\ run \in [Run -> RunState]
  BY DEF TypeOK
<1>3. [run[r].left EXCEPT ![k] = @ \ {e}] \in [Kind -> SUBSET Entry]
  BY <1>2 DEF RunState
<1>4. run[r].rows \cup {d} \subseteq Delivery
  BY <1>1, <1>2 DEF RunState
<1>5. [run[r] EXCEPT !.left[k] = @ \ {e}, !.rows = @ \cup {d}] \in RunState
  BY <1>2, <1>3, <1>4 DEF RunState
<1> QED BY <1>2, <1>5 DEF Recorded

LEMMA TypeStep == TypeOK /\ [Next]_vars => TypeOK'
<1> SUFFICES ASSUME TypeOK, [Next]_vars PROVE TypeOK'
  OBVIOUS
<1>1. ASSUME NEW r \in Run, NEW asOf \in AsOf, NEW dry \in BOOLEAN, Start(r, asOf, dry)
      PROVE  TypeOK'
  <2>1. PICK S \in Page({e \in Entry : IsOverdue(e, asOf)}) :
          run' = [run EXCEPT ![r].phase = "reading", ![r].dry = dry, ![r].asOf = asOf,
                             ![r].page["overdue"] = S, ![r].left["overdue"] = S]
    BY <1>1 DEF Start
  <2>2. S \subseteq Entry
    BY PageFound
  <2>3. run' \in [Run -> RunState]
    <3>1. run[r] \in RunState /\ run \in [Run -> RunState]
      BY DEF TypeOK
    <3>2. /\ [run[r].page EXCEPT !["overdue"] = S] \in [Kind -> SUBSET Entry]
          /\ [run[r].left EXCEPT !["overdue"] = S] \in [Kind -> SUBSET Entry]
      BY <2>2, <3>1 DEF RunState
    <3>3. [run[r] EXCEPT !.phase = "reading", !.dry = dry, !.asOf = asOf, !.page["overdue"] = S,
                         !.left["overdue"] = S] \in RunState
      BY <3>1, <3>2 DEF RunState
    <3> QED BY <2>1, <3>1, <3>3
  <2> QED BY <1>1, <2>3 DEF Start, TypeOK
<1>2. ASSUME NEW r \in Run, ReadUpcoming(r) PROVE TypeOK'
  <2>1. PICK S \in Page({e \in Entry : IsUpcoming(e, run[r].asOf)}) :
          run' = [run EXCEPT ![r].phase = "sending",
                             ![r].page["upcoming"] = S, ![r].left["upcoming"] = S]
    BY <1>2 DEF ReadUpcoming
  <2>2. S \subseteq Entry
    BY PageFound
  <2>3. run' \in [Run -> RunState]
    <3>1. run[r] \in RunState /\ run \in [Run -> RunState]
      BY DEF TypeOK
    <3>2. /\ [run[r].page EXCEPT !["upcoming"] = S] \in [Kind -> SUBSET Entry]
          /\ [run[r].left EXCEPT !["upcoming"] = S] \in [Kind -> SUBSET Entry]
      BY <2>2, <3>1 DEF RunState
    <3>3. [run[r] EXCEPT !.phase = "sending", !.page["upcoming"] = S,
                         !.left["upcoming"] = S] \in RunState
      BY <3>1, <3>2 DEF RunState
    <3> QED BY <2>1, <3>1, <3>3
  <2> QED BY <1>2, <2>3 DEF ReadUpcoming, TypeOK
<1>3. ASSUME NEW r \in Run, Unconfigured(r) \/ Crash(r) PROVE TypeOK'
  <2>1. run' = [run EXCEPT ![r].phase = "lost"]
    BY <1>3 DEF Unconfigured, Crash
  <2>2. run' \in [Run -> RunState]
    BY <2>1 DEF TypeOK, RunState
  <2> QED BY <1>3, <2>2 DEF Unconfigured, Crash, TypeOK
<1>4. ASSUME NEW r \in Run, Commit(r) PROVE TypeOK'
  <2>1. run[r].rows \subseteq Delivery
    BY DEF TypeOK, RunState
  <2>2. run' = [run EXCEPT ![r].phase = "done"] \/ run' = [run EXCEPT ![r].phase = "lost"]
    BY <1>4 DEF Commit
  <2>3. [run[r] EXCEPT !.phase = "done"] \in RunState /\ [run[r] EXCEPT !.phase = "lost"] \in RunState
    BY DEF TypeOK, RunState
  <2>4. run' \in [Run -> RunState]
    BY <2>2, <2>3 DEF TypeOK
  <2> QED BY <1>4, <2>1, <2>4 DEF Commit, TypeOK
<1>5. ASSUME NEW r \in Run, NEW e \in Entry, NEW k \in Kind,
             Pass(r, e, k) \/ MailAccepted(r, e, k) \/ MailRefused(r, e, k)
      PROVE  TypeOK'
  <2>1. PICK status \in Outcome : Recorded(r, e, k, status)
    BY <1>5 DEF Pass, MailAccepted, MailRefused, Outcome
  <2>2. run' \in [Run -> RunState]
    BY <2>1, RecordedType
  <2>3. mailed' \subseteq Message
    BY <1>5 DEF Pass, MailAccepted, MailRefused, TypeOK, Message
  <2> QED BY <1>5, <2>2, <2>3 DEF Pass, MailAccepted, MailRefused, TypeOK
<1>6. ASSUME NEW e \in Entry, NEW status \in Patched, ChangeStatus(e, status)
      PROVE  TypeOK'
  BY <1>6, ConstantsOK DEF ChangeStatus, Touched, TypeOK
<1>7. ASSUME NEW asOf \in AsOf, RefreshOverdue(asOf) PROVE TypeOK'
  BY <1>7 DEF RefreshOverdue, Touched, TypeOK, Status
<1>8. ASSUME NEW lease \in Lease, Delete(lease) PROVE TypeOK'
  BY <1>8 DEF Delete, Touched, TypeOK
<1>9. CASE UNCHANGED vars
  BY <1>9 DEF vars, TypeOK
<1> QED BY <1>1, <1>2, <1>3, <1>4, <1>5, <1>6, <1>7, <1>8, <1>9 DEF Next

\* Statuses, runs, deliveries and messages keep their types.
THEOREM TypeInvariant == Spec => []TypeOK
BY TypeInit, TypeStep, PTL DEF Spec

(***************************************************************************)
(* What the steps of a run do to it, field by field.                       *)
(***************************************************************************)

\* Nothing of another run changes.
OthersSame(r) == \A q \in Run : q # r => run'[q] = run[q]

LEMMA StartEffect ==
    ASSUME TypeOK, NEW r \in Run, NEW asOf \in AsOf, NEW dry \in BOOLEAN,
           Start(r, asOf, dry)
    PROVE  \E S \in Page({e \in Entry : IsOverdue(e, asOf)}) :
              /\ run'[r].phase = "reading" /\ run'[r].asOf = asOf
              /\ run'[r].page["overdue"] = S
              /\ run'[r].page["upcoming"] = run[r].page["upcoming"]
              /\ run'[r].left["overdue"] = S
              /\ run'[r].left["upcoming"] = run[r].left["upcoming"]
              /\ run'[r].rows = run[r].rows
              /\ OthersSame(r)
<1>1. PICK S \in Page({e \in Entry : IsOverdue(e, asOf)}) :
        run' = [run EXCEPT ![r].phase = "reading", ![r].dry = dry, ![r].asOf = asOf,
                           ![r].page["overdue"] = S, ![r].left["overdue"] = S]
  BY DEF Start
<1>2. WITNESS S \in Page({e \in Entry : IsOverdue(e, asOf)})
<1>3. run[r] \in RunState /\ run \in [Run -> RunState]
  BY DEF TypeOK
<1> QED BY <1>1, <1>3 DEF RunState, Kind, OthersSame

LEMMA ReadUpcomingEffect ==
    ASSUME TypeOK, NEW r \in Run, ReadUpcoming(r)
    PROVE  \E S \in Page({e \in Entry : IsUpcoming(e, run[r].asOf)}) :
              /\ run'[r].phase = "sending" /\ run'[r].asOf = run[r].asOf
              /\ run'[r].page["overdue"] = run[r].page["overdue"]
              /\ run'[r].page["upcoming"] = S
              /\ run'[r].left["overdue"] = run[r].left["overdue"]
              /\ run'[r].left["upcoming"] = S
              /\ run'[r].rows = run[r].rows
              /\ OthersSame(r)
<1>1. PICK S \in Page({e \in Entry : IsUpcoming(e, run[r].asOf)}) :
        run' = [run EXCEPT ![r].phase = "sending",
                           ![r].page["upcoming"] = S, ![r].left["upcoming"] = S]
  BY DEF ReadUpcoming
<1>2. WITNESS S \in Page({e \in Entry : IsUpcoming(e, run[r].asOf)})
<1>3. run[r] \in RunState /\ run \in [Run -> RunState]
  BY DEF TypeOK
<1> QED BY <1>1, <1>3 DEF RunState, Kind, OthersSame

LEMMA RecordedEffect ==
    ASSUME TypeOK, NEW r \in Run, NEW e \in Entry, NEW k \in Kind, NEW status \in Outcome,
           Recorded(r, e, k, status)
    PROVE  /\ run'[r].phase = run[r].phase /\ run'[r].asOf = run[r].asOf
           /\ run'[r].page = run[r].page
           /\ \A l \in Kind : run'[r].left[l] = IF l = k THEN run[r].left[l] \ {e}
                                                        ELSE run[r].left[l]
           /\ run'[r].rows = run[r].rows \cup
                 {[run |-> r, entry |-> e, kind |-> k, status |-> status]}
           /\ OthersSame(r)
<1>1. run[r] \in RunState /\ run \in [Run -> RunState]
  BY DEF TypeOK
<1> QED BY <1>1 DEF Recorded, RunState, OthersSame

LEMMA PhaseEffect ==
    ASSUME TypeOK, NEW r \in Run, NEW phase, run' = [run EXCEPT ![r].phase = phase]
    PROVE  /\ run'[r].phase = phase /\ run'[r].asOf = run[r].asOf
           /\ run'[r].page = run[r].page /\ run'[r].left = run[r].left
           /\ run'[r].rows = run[r].rows
           /\ OthersSame(r)
<1>1. run[r] \in RunState /\ run \in [Run -> RunState]
  BY DEF TypeOK
<1> QED BY <1>1 DEF RunState, OthersSame

(***************************************************************************)
(* The invariant of a run.                                                 *)
(***************************************************************************)

\* What a run has found is in keeping with its date.
PagesKept ==
    \A r \in Run :
        /\ run[r].phase # "idle" => run[r].asOf \in AsOf
        /\ run[r].phase = "idle" => run[r].page["overdue"] = {}
        /\ run[r].phase \in {"idle", "reading"} => run[r].page["upcoming"] = {}
        /\ \A e \in run[r].page["overdue"] : Due[e] <= run[r].asOf
        /\ \A e \in run[r].page["upcoming"] : run[r].asOf <= Due[e]

\* Every entry found is still to be mailed or has a row, and rows tell the truth.
RowsKept ==
    \A r \in Run :
        /\ \A d \in run[r].rows :
              /\ d.run = r
              /\ d.status = "sent" => [run |-> d.run, entry |-> d.entry, kind |-> d.kind] \in mailed
        /\ \A k \in Kind : \A e \in run[r].page[k] \ run[r].left[k] :
              \E d \in run[r].rows : d.entry = e /\ d.kind = k
        /\ \A k \in Kind : run[r].left[k] \subseteq run[r].page[k]

\* What was mailed was found.
MailKept == \A m \in mailed : m.entry \in run[m.run].page[m.kind]

\* The deliveries are those of the runs that ended well.
HistoryKept ==
    /\ \A d \in delivery :
          /\ run[d.run].phase = "done"
          /\ d.status = "sent" => [run |-> d.run, entry |-> d.entry, kind |-> d.kind] \in mailed
    /\ \A r \in Run : run[r].phase = "done" =>
          \A k \in Kind : \A e \in run[r].page[k] :
              entry[e] # "none" => \E d \in delivery : d.run = r /\ d.entry = e /\ d.kind = k

\* Found, or left out by the limit in favour of entries due no later.
Covered(r, e, k) ==
    \/ e \in run[r].page[k]
    \/ /\ Cardinality(run[r].page[k]) = Limit
       /\ \A f \in run[r].page[k] : Due[f] <= Due[e]

\* An entry owed a reminder is as it was at the start, and covered once its list is
\* read.
OwedKept ==
    \A r \in Run : run[r].phase # "idle" =>
        \A e \in owed[r] :
            /\ IsOverdue(e, run[r].asOf) \/ IsUpcoming(e, run[r].asOf)
            /\ IsOverdue(e, run[r].asOf) => Covered(r, e, "overdue")
            /\ IsUpcoming(e, run[r].asOf) /\ run[r].phase \in {"sending", "done"}
               => Covered(r, e, "upcoming")

RunInv == PagesKept /\ RowsKept /\ MailKept /\ HistoryKept /\ OwedKept

LEMMA RunInit == Init => RunInv
<1> SUFFICES ASSUME Init PROVE RunInv
  OBVIOUS
<1> USE DEF Init, Empty, Kind
<1>1. PagesKept
  BY DEF PagesKept
<1>2. RowsKept
  BY DEF RowsKept
<1>3. MailKept
  BY DEF MailKept
<1>4. HistoryKept
  BY DEF HistoryKept
<1>5. OwedKept
  BY DEF OwedKept
<1> QED BY <1>1, <1>2, <1>3, <1>4, <1>5 DEF RunInv

LEMMA StartKeeps ==
    ASSUME TypeOK, RunInv, NEW r \in Run, NEW asOf \in AsOf, NEW dry \in BOOLEAN,
           Start(r, asOf, dry)
    PROVE  RunInv'
<1> USE DEF Kind
<1>1. PICK S \in Page({e \in Entry : IsOverdue(e, asOf)}) :
         /\ run'[r].phase = "reading" /\ run'[r].asOf = asOf
         /\ run'[r].page["overdue"] = S
         /\ run'[r].page["upcoming"] = run[r].page["upcoming"]
         /\ run'[r].left["overdue"] = S
         /\ run'[r].left["upcoming"] = run[r].left["upcoming"]
         /\ run'[r].rows = run[r].rows
         /\ OthersSame(r)
  BY StartEffect
<1>2. /\ S \subseteq {e \in Entry : IsOverdue(e, asOf)}
      /\ \A e \in {f \in Entry : IsOverdue(f, asOf)} \ S :
            Cardinality(S) = Limit /\ \A f \in S : Due[f] <= Due[e]
  BY PageFound
<1>3. run[r].phase = "idle" /\ UNCHANGED <<entry, delivery, mailed>>
  BY DEF Start
<1>4. run[r].page["overdue"] = {} /\ run[r].page["upcoming"] = {}
  BY <1>3 DEF RunInv, PagesKept
<1>5. PagesKept'
  BY <1>1, <1>2, <1>3, <1>4 DEF RunInv, PagesKept, IsOverdue, OthersSame
<1>6. RowsKept'
  BY <1>1, <1>3, <1>4 DEF RunInv, RowsKept, OthersSame
<1>7. MailKept'
  BY <1>1, <1>3, <1>4 DEF RunInv, MailKept, OthersSame, TypeOK, Message
<1>8. HistoryKept'
  BY <1>1, <1>3 DEF RunInv, HistoryKept, OthersSame, TypeOK, Delivery
<1>9. OwedKept'
  <2>1. ASSUME NEW q \in Run, q # r, run'[q].phase # "idle", NEW e \in owed'[q]
        PROVE  /\ run'[q] = run[q] /\ run[q].phase # "idle" /\ e \in owed[q]
    BY <1>1, <2>1 DEF OthersSame, Start, TypeOK
  <2>2. ASSUME NEW e \in owed'[r]
        PROVE  e \in Entry /\ (IsOverdue(e, asOf) \/ IsUpcoming(e, asOf))
    BY DEF Start, TypeOK
  <2>3. ASSUME NEW e \in owed'[r], IsOverdue(e, asOf)
        PROVE  e \in S \/ (Cardinality(S) = Limit /\ \A f \in S : Due[f] <= Due[e])
    BY <1>2, <2>2, <2>3
  <2> QED BY <1>1, <1>3, <2>1, <2>2, <2>3 DEF RunInv, OwedKept, Covered, IsOverdue, IsUpcoming
<1> QED BY <1>5, <1>6, <1>7, <1>8, <1>9 DEF RunInv

LEMMA ReadUpcomingKeeps ==
    ASSUME TypeOK, RunInv, NEW r \in Run, ReadUpcoming(r)
    PROVE  RunInv'
<1> USE DEF Kind
<1>1. PICK S \in Page({e \in Entry : IsUpcoming(e, run[r].asOf)}) :
         /\ run'[r].phase = "sending" /\ run'[r].asOf = run[r].asOf
         /\ run'[r].page["overdue"] = run[r].page["overdue"]
         /\ run'[r].page["upcoming"] = S
         /\ run'[r].left["overdue"] = run[r].left["overdue"]
         /\ run'[r].left["upcoming"] = S
         /\ run'[r].rows = run[r].rows
         /\ OthersSame(r)
  BY ReadUpcomingEffect
<1>2. /\ S \subseteq {e \in Entry : IsUpcoming(e, run[r].asOf)}
      /\ \A e \in {f \in Entry : IsUpcoming(f, run[r].asOf)} \ S :
            Cardinality(S) = Limit /\ \A f \in S : Due[f] <= Due[e]
  BY PageFound
<1>3. run[r].phase = "reading" /\ UNCHANGED <<entry, delivery, mailed, owed>>
  BY DEF ReadUpcoming
<1>4. run[r].page["upcoming"] = {}
  BY <1>3 DEF RunInv, PagesKept
<1>5. PagesKept'
  BY <1>1, <1>2, <1>3 DEF RunInv, PagesKept, IsUpcoming, OthersSame
<1>6. RowsKept'
  BY <1>1, <1>3 DEF RunInv, RowsKept, OthersSame
<1>7. MailKept'
  BY <1>1, <1>3, <1>4 DEF RunInv, MailKept, OthersSame, TypeOK, Message
<1>8. HistoryKept'
  BY <1>1, <1>3 DEF RunInv, HistoryKept, OthersSame, TypeOK, Delivery
<1>9. OwedKept'
  <2>1. ASSUME NEW e \in owed[r], IsUpcoming(e, run[r].asOf)
        PROVE  e \in S \/ (Cardinality(S) = Limit /\ \A f \in S : Due[f] <= Due[e])
    BY <1>2, <2>1 DEF TypeOK
  <2> QED BY <1>1, <1>3, <2>1 DEF RunInv, OwedKept, Covered, IsOverdue, IsUpcoming, OthersSame
<1> QED BY <1>5, <1>6, <1>7, <1>8, <1>9 DEF RunInv

LEMMA MessageKeeps ==
    ASSUME TypeOK, RunInv, NEW r \in Run, NEW e \in Entry, NEW k \in Kind,
           Pass(r, e, k) \/ MailAccepted(r, e, k) \/ MailRefused(r, e, k)
    PROVE  RunInv'
<1>1. PICK status \in Outcome :
         /\ Recorded(r, e, k, status)
         /\ status = "sent" => [run |-> r, entry |-> e, kind |-> k] \in mailed'
  BY DEF Pass, MailAccepted, MailRefused, Outcome
<1> DEFINE d == [run |-> r, entry |-> e, kind |-> k, status |-> status]
<1>2. /\ run'[r].phase = run[r].phase /\ run'[r].asOf = run[r].asOf
      /\ run'[r].page = run[r].page
      /\ \A l \in Kind : run'[r].left[l] = IF l = k THEN run[r].left[l] \ {e}
                                                   ELSE run[r].left[l]
      /\ run'[r].rows = run[r].rows \cup {d}
      /\ OthersSame(r)
  BY <1>1, RecordedEffect
<1>3. /\ run[r].phase = "sending" /\ e \in run[r].left[k]
      /\ mailed \subseteq mailed'
      /\ mailed' \subseteq mailed \cup {[run |-> r, entry |-> e, kind |-> k]}
      /\ UNCHANGED <<entry, delivery, owed>>
  BY DEF Pass, MailAccepted, MailRefused, InLine
<1>4. e \in run[r].page[k]
  BY <1>3 DEF RunInv, RowsKept
<1>5. PagesKept'
  BY <1>2 DEF RunInv, PagesKept, OthersSame
<1>6. RowsKept'
  <2>1. ASSUME NEW q \in Run, NEW x \in run'[q].rows
        PROVE  /\ x.run = q
               /\ x.status = "sent" => [run |-> x.run, entry |-> x.entry, kind |-> x.kind] \in mailed'
    <3>1. CASE q = r /\ x = d
      BY <1>1, <3>1
    <3>2. CASE x \in run[q].rows
      BY <1>3, <3>2 DEF RunInv, RowsKept
    <3> QED BY <1>2, <3>1, <3>2 DEF OthersSame
  <2>2. ASSUME NEW q \in Run, NEW l \in Kind, NEW f \in run'[q].page[l] \ run'[q].left[l]
        PROVE  \E x \in run'[q].rows : x.entry = f /\ x.kind = l
    <3>1. CASE q = r /\ l = k /\ f = e
      <4>1. d \in run'[r].rows /\ d.entry = e /\ d.kind = k
        BY <1>2
      <4> QED BY <3>1, <4>1
    <3>2. CASE f \in run[q].page[l] \ run[q].left[l]
      <4>1. PICK x \in run[q].rows : x.entry = f /\ x.kind = l
        BY <3>2 DEF RunInv, RowsKept
      <4> QED BY <1>2, <4>1 DEF OthersSame
    <3> QED BY <1>2, <2>2, <3>1, <3>2 DEF OthersSame
  <2>3. ASSUME NEW q \in Run, NEW l \in Kind PROVE run'[q].left[l] \subseteq run'[q].page[l]
    <3>1. run[q].left[l] \subseteq run[q].page[l]
      BY DEF RunInv, RowsKept
    <3>2. CASE q = r
      <4>1. run'[r].left[l] \subseteq run[r].left[l]
        BY <1>2
      <4> QED BY <1>2, <3>1, <3>2, <4>1
    <3>3. CASE q # r
      BY <1>2, <3>1, <3>3 DEF OthersSame
    <3> QED BY <3>2, <3>3
  <2> QED BY <2>1, <2>2, <2>3 DEF RowsKept
<1>7. MailKept'
  <2>1. ASSUME NEW q \in Run PROVE run'[q].page = run[q].page
    BY <1>2 DEF OthersSame
  <2>2. ASSUME NEW m \in mailed' PROVE m.run \in Run /\ m.entry \in run[m.run].page[m.kind]
    <3>1. CASE m \in mailed
      BY <3>1 DEF RunInv, MailKept, TypeOK, Message
    <3>2. CASE m = [run |-> r, entry |-> e, kind |-> k]
      BY <1>4, <3>2
    <3> QED BY <1>3, <3>1, <3>2
  <2> QED BY <2>1, <2>2 DEF MailKept
<1>8. HistoryKept'
  BY <1>2, <1>3 DEF RunInv, HistoryKept, OthersSame, TypeOK, Delivery
<1>9. OwedKept'
  BY <1>2, <1>3 DEF RunInv, OwedKept, Covered, IsOverdue, IsUpcoming, OthersSame
<1> QED BY <1>5, <1>6, <1>7, <1>8, <1>9 DEF RunInv

LEMMA CommitKeeps ==
    ASSUME TypeOK, RunInv, NEW r \in Run, Commit(r)
    PROVE  RunInv'
<1>1. run' = [run EXCEPT ![r].phase = "done"] \/ run' = [run EXCEPT ![r].phase = "lost"]
  BY DEF Commit
<1>2. /\ run'[r].phase \in {"done", "lost"} /\ run'[r].asOf = run[r].asOf
      /\ run'[r].page = run[r].page /\ run'[r].left = run[r].left
      /\ run'[r].rows = run[r].rows
      /\ OthersSame(r)
  BY <1>1, PhaseEffect
<1>3. /\ run[r].phase = "sending" /\ \A k \in Kind : run[r].left[k] = {}
      /\ UNCHANGED <<entry, mailed, owed>>
  BY DEF Commit, Empty
<1>4. \/ run'[r].phase = "done" /\ delivery' = delivery \cup run[r].rows
      \/ run'[r].phase = "lost" /\ delivery' = delivery
  <2>1. run[r] \in RunState /\ run \in [Run -> RunState]
    BY DEF TypeOK
  <2> QED BY <2>1 DEF Commit, RunState
<1>5. PagesKept'
  BY <1>2, <1>3 DEF RunInv, PagesKept, OthersSame
<1>6. RowsKept'
  BY <1>2, <1>3 DEF RunInv, RowsKept, OthersSame
<1>7. MailKept'
  <2>1. ASSUME NEW q \in Run PROVE run'[q].page = run[q].page
    BY <1>2 DEF OthersSame
  <2> QED BY <1>3, <2>1 DEF RunInv, MailKept, TypeOK, Message
<1>8. HistoryKept'
  <2>1. ASSUME NEW d \in delivery'
        PROVE  /\ run'[d.run].phase = "done"
               /\ d.status = "sent" => [run |-> d.run, entry |-> d.entry, kind |-> d.kind] \in mailed
    <3>1. CASE d \in delivery
      <4>1. run[d.run].phase = "done" /\ d.run \in Run
        BY <3>1 DEF RunInv, HistoryKept, TypeOK, Delivery
      <4>2. d.run # r
        BY <1>3, <4>1
      <4> QED BY <1>2, <3>1, <4>1, <4>2 DEF OthersSame, RunInv, HistoryKept
    <3>2. CASE d \in run[r].rows /\ run'[r].phase = "done"
      BY <3>2 DEF RunInv, RowsKept
    <3> QED BY <1>4, <3>1, <3>2
  <2>2. ASSUME NEW q \in Run, run'[q].phase = "done", NEW k \in Kind,
               NEW e \in run'[q].page[k], entry[e] # "none"
        PROVE  \E d \in delivery' : d.run = q /\ d.entry = e /\ d.kind = k
    <3>1. CASE q = r
      <4>1. e \in run[r].page[k] \ run[r].left[k]
        BY <1>2, <1>3, <2>2, <3>1
      <4>2. PICK d \in run[r].rows : d.entry = e /\ d.kind = k
        BY <4>1 DEF RunInv, RowsKept
      <4>3. d.run = r
        BY DEF RunInv, RowsKept
      <4>4. d \in delivery'
        BY <1>4, <2>2, <3>1
      <4> QED BY <3>1, <4>2, <4>3, <4>4
    <3>2. CASE q # r
      <4>1. run'[q] = run[q]
        BY <1>2, <3>2 DEF OthersSame
      <4>2. PICK d \in delivery : d.run = q /\ d.entry = e /\ d.kind = k
        BY <2>2, <4>1 DEF RunInv, HistoryKept
      <4> QED BY <1>4, <4>2
    <3> QED BY <3>1, <3>2
  <2> QED BY <1>3, <2>1, <2>2 DEF HistoryKept
<1>9. OwedKept'
  BY <1>2, <1>3 DEF RunInv, OwedKept, Covered, IsOverdue, IsUpcoming, OthersSame
<1> QED BY <1>5, <1>6, <1>7, <1>8, <1>9 DEF RunInv

LEMMA LostKeeps ==
    ASSUME TypeOK, RunInv, NEW r \in Run, Unconfigured(r) \/ Crash(r)
    PROVE  RunInv'
<1>1. /\ run' = [run EXCEPT ![r].phase = "lost"]
      /\ run[r].phase \in {"reading", "sending"}
      /\ UNCHANGED <<entry, delivery, mailed, owed>>
  BY DEF Unconfigured, Crash
<1>2. /\ run'[r].phase = "lost" /\ run'[r].asOf = run[r].asOf
      /\ run'[r].page = run[r].page /\ run'[r].left = run[r].left
      /\ run'[r].rows = run[r].rows
      /\ OthersSame(r)
  BY <1>1, PhaseEffect
<1>3. ASSUME NEW q \in Run PROVE run'[q].page = run[q].page
  BY <1>2 DEF OthersSame
<1>5. PagesKept'
  BY <1>1, <1>2 DEF RunInv, PagesKept, OthersSame
<1>6. RowsKept'
  BY <1>1, <1>2 DEF RunInv, RowsKept, OthersSame
<1>7. MailKept'
  BY <1>1, <1>3 DEF RunInv, MailKept, TypeOK, Message
<1>8. HistoryKept'
  BY <1>1, <1>2 DEF RunInv, HistoryKept, OthersSame, TypeOK, Delivery
<1>9. OwedKept'
  BY <1>1, <1>2 DEF RunInv, OwedKept, Covered, IsOverdue, IsUpcoming, OthersSame
<1> QED BY <1>5, <1>6, <1>7, <1>8, <1>9 DEF RunInv

\* The calendar's own steps touch no run: what they change is no longer owed, and what
\* they delete stays deleted.
LEMMA CalendarKeeps ==
    ASSUME TypeOK, RunInv,
           \/ \E e \in Entry, status \in Patched : ChangeStatus(e, status)
           \/ \E asOf \in AsOf : RefreshOverdue(asOf)
           \/ \E lease \in Lease : Delete(lease)
    PROVE  RunInv'
<1>1. UNCHANGED <<run, mailed>> /\ delivery' \subseteq delivery
  BY DEF ChangeStatus, RefreshOverdue, Delete
<1>2. \A e \in Entry : entry[e] = "none" => entry'[e] = "none"
  BY DEF ChangeStatus, RefreshOverdue, Delete, TypeOK
<1>3. \A d \in delivery : entry'[d.entry] # "none" => d \in delivery'
  <2>1. ASSUME NEW lease \in Lease, Delete(lease), NEW d \in delivery, entry'[d.entry] # "none"
        PROVE  d \in delivery'
    <3>1. d.entry \in Entry
      BY DEF TypeOK, Delivery
    <3> QED BY <2>1, <3>1 DEF Delete
  <2> QED BY <2>1 DEF ChangeStatus, RefreshOverdue
<1>4. \A q \in Run : \A e \in owed'[q] : e \in owed[q] /\ entry'[e] = entry[e]
  <2>1. ASSUME NEW e \in Entry, NEW status \in Patched, ChangeStatus(e, status)
        PROVE  \A q \in Run : \A f \in owed'[q] : f \in owed[q] /\ entry'[f] = entry[f]
    BY <2>1 DEF ChangeStatus, Touched, TypeOK
  <2>2. ASSUME NEW asOf \in AsOf, RefreshOverdue(asOf)
        PROVE  \A q \in Run : \A f \in owed'[q] : f \in owed[q] /\ entry'[f] = entry[f]
    BY <2>2 DEF RefreshOverdue, Touched, TypeOK
  <2>3. ASSUME NEW lease \in Lease, Delete(lease)
        PROVE  \A q \in Run : \A f \in owed'[q] : f \in owed[q] /\ entry'[f] = entry[f]
    BY <2>3 DEF Delete, Touched, TypeOK
  <2> QED BY <2>1, <2>2, <2>3
<1>5. PagesKept'
  BY <1>1 DEF RunInv, PagesKept
<1>6. RowsKept'
  BY <1>1 DEF RunInv, RowsKept
<1>7. MailKept'
  BY <1>1 DEF RunInv, MailKept
<1>8. HistoryKept'
  <2>1. ASSUME NEW q \in Run, run[q].phase = "done", NEW k \in Kind,
               NEW e \in run[q].page[k], entry'[e] # "none"
        PROVE  \E d \in delivery' : d.run = q /\ d.entry = e /\ d.kind = k
    <3>1. e \in Entry
      BY DEF TypeOK, RunState
    <3>2. PICK d \in delivery : d.run = q /\ d.entry = e /\ d.kind = k
      BY <1>2, <2>1, <3>1 DEF RunInv, HistoryKept
    <3> QED BY <1>3, <2>1, <3>2
  <2> QED BY <1>1, <2>1 DEF RunInv, HistoryKept
<1>9. OwedKept'
  BY <1>1, <1>4 DEF RunInv, OwedKept, Covered, IsOverdue, IsUpcoming
<1> QED BY <1>5, <1>6, <1>7, <1>8, <1>9 DEF RunInv

LEMMA RunStep == TypeOK /\ RunInv /\ [Next]_vars => RunInv'
<1> SUFFICES ASSUME TypeOK, RunInv, [Next]_vars PROVE RunInv'
  OBVIOUS
<1>1. CASE UNCHANGED vars
  BY <1>1 DEF vars, RunInv, PagesKept, RowsKept, MailKept, HistoryKept, OwedKept, Covered,
              IsOverdue, IsUpcoming
<1> QED BY <1>1, StartKeeps, ReadUpcomingKeeps, MessageKeeps, CommitKeeps, LostKeeps,
           CalendarKeeps DEF Next

THEOREM RunInvariant == Spec => [](TypeOK /\ RunInv)
BY TypeInit, TypeStep, RunInit, RunStep, PTL DEF Spec

(***************************************************************************)
(* The properties.                                                         *)
(***************************************************************************)

\* The history never claims a message that was not accepted
\* (services/reminders.py:116).
THEOREM HistoryIsTrue == Spec => []SentWasMailed
<1>1. RunInv => SentWasMailed
  BY DEF RunInv, HistoryKept, SentWasMailed
<1> QED BY <1>1, RunInvariant, PTL

\* A run mails an entry once, or twice only on the very day it is due
\* (services/reminders.py:30).
THEOREM NobodyIsMailedTwice == Spec => []OncePerRun
<1>1. TypeOK /\ RunInv => OncePerRun
  <2> SUFFICES ASSUME TypeOK, RunInv, NEW r \in Run, NEW e \in Entry,
                      [run |-> r, entry |-> e, kind |-> "overdue"] \in mailed,
                      [run |-> r, entry |-> e, kind |-> "upcoming"] \in mailed
               PROVE  Due[e] = run[r].asOf
    BY DEF OncePerRun
  <2>1. e \in run[r].page["overdue"] /\ e \in run[r].page["upcoming"]
    BY DEF RunInv, MailKept
  <2>2. run[r].phase # "idle"
    BY <2>1 DEF RunInv, PagesKept
  <2>3. Due[e] <= run[r].asOf /\ run[r].asOf <= Due[e] /\ run[r].asOf \in AsOf
    BY <2>1, <2>2 DEF RunInv, PagesKept
  <2>4. Due[e] \in Nat /\ run[r].asOf \in Nat
    BY <2>3, ConstantsOK
  <2> QED BY <2>3, <2>4
<1> QED BY <1>1, RunInvariant, PTL

\* What the history shows of a run covers all it found and that still exists
\* (services/reminders.py:133, jobs/reminders.py:32).
THEOREM HistoryIsComplete == Spec => []HistoryIsWhole
<1>1. TypeOK /\ RunInv => HistoryIsWhole
  <2> SUFFICES ASSUME TypeOK, RunInv, NEW r \in Run, NEW x \in delivery, x.run = r,
                      NEW k \in Kind, NEW e \in run[r].page[k], entry[e] # "none"
               PROVE  \E d \in delivery : d.run = r /\ d.entry = e /\ d.kind = k
    BY DEF HistoryIsWhole
  <2>1. run[r].phase = "done"
    BY DEF RunInv, HistoryKept
  <2> QED BY <2>1 DEF RunInv, HistoryKept
<1> QED BY <1>1, RunInvariant, PTL

\* A run that ends well answers for all it owed a reminder, up to the limit
\* (services/reminders.py:22).
THEOREM OwedGetAnswers == Spec => []OwedAnswered
<1>1. TypeOK /\ RunInv => OwedAnswered
  <2> SUFFICES ASSUME TypeOK, RunInv, NEW r \in Run, run[r].phase = "done", NEW e \in owed[r]
               PROVE  \/ \E d \in delivery : d.run = r /\ d.entry = e
                      \/ \E k \in Kind : /\ Cardinality(run[r].page[k]) = Limit
                                         /\ \A f \in run[r].page[k] : Due[f] <= Due[e]
    BY DEF OwedAnswered
  <2>1. entry[e] # "none" /\ \E k \in Kind : Covered(r, e, k)
    BY DEF RunInv, OwedKept, IsOverdue, IsUpcoming, Kind
  <2>2. PICK k \in Kind : Covered(r, e, k)
    BY <2>1
  <2>3. CASE e \in run[r].page[k]
    BY <2>1, <2>3 DEF RunInv, HistoryKept
  <2> QED BY <2>2, <2>3 DEF Covered
<1> QED BY <1>1, RunInvariant, PTL

(***************************************************************************)
(* Reminders implements ReminderLedger.                                    *)
(***************************************************************************)

\* A run has one row for each message that is no longer in line.
OneRowEach ==
    \A r \in Run :
        /\ run[r].phase \in {"idle", "reading"} => run[r].rows = {}
        /\ \A d \in run[r].rows : d.entry \notin run[r].left[d.kind]
        /\ \A c, d \in run[r].rows : c.entry = d.entry /\ c.kind = d.kind => c = d

LEMMA OneRowStep == TypeOK /\ OneRowEach /\ [Next]_vars => OneRowEach'
<1> SUFFICES ASSUME TypeOK, OneRowEach, [Next]_vars PROVE OneRowEach'
  OBVIOUS
<1>1. ASSUME NEW r \in Run, NEW asOf \in AsOf, NEW dry \in BOOLEAN, Start(r, asOf, dry)
      PROVE  OneRowEach'
  <2>1. run'[r].phase = "reading" /\ run'[r].rows = run[r].rows /\ OthersSame(r)
    BY <1>1, StartEffect
  <2>2. run[r].phase = "idle"
    BY <1>1 DEF Start
  <2> QED BY <2>1, <2>2 DEF OneRowEach, OthersSame
<1>2. ASSUME NEW r \in Run, ReadUpcoming(r) PROVE OneRowEach'
  <2>1. run'[r].phase = "sending" /\ run'[r].rows = run[r].rows /\ OthersSame(r)
    BY <1>2, ReadUpcomingEffect
  <2>2. run[r].phase = "reading"
    BY <1>2 DEF ReadUpcoming
  <2> QED BY <2>1, <2>2 DEF OneRowEach, OthersSame
<1>3. ASSUME NEW r \in Run, NEW phase \in {"done", "lost"},
             run' = [run EXCEPT ![r].phase = phase]
      PROVE  OneRowEach'
  <2>1. /\ run'[r].phase = phase /\ run'[r].left = run[r].left /\ run'[r].rows = run[r].rows
        /\ OthersSame(r)
    BY <1>3, PhaseEffect
  <2> QED BY <2>1 DEF OneRowEach, OthersSame
<1>4. ASSUME NEW r \in Run, NEW e \in Entry, NEW k \in Kind,
             Pass(r, e, k) \/ MailAccepted(r, e, k) \/ MailRefused(r, e, k)
      PROVE  OneRowEach'
  <2>1. PICK status \in Outcome : Recorded(r, e, k, status)
    BY <1>4 DEF Pass, MailAccepted, MailRefused, Outcome
  <2> DEFINE d == [run |-> r, entry |-> e, kind |-> k, status |-> status]
  <2>2. /\ run'[r].phase = run[r].phase /\ run'[r].asOf = run[r].asOf
        /\ run'[r].page = run[r].page
        /\ \A l \in Kind : run'[r].left[l] = IF l = k THEN run[r].left[l] \ {e}
                                                     ELSE run[r].left[l]
        /\ run'[r].rows = run[r].rows \cup {d}
        /\ OthersSame(r)
    BY <2>1, RecordedEffect
  <2>3. run[r].phase = "sending" /\ e \in run[r].left[k]
    BY <1>4 DEF Pass, MailAccepted, MailRefused, InLine
  <2>4. \A x \in run[r].rows : x.kind \in Kind /\ x.entry \notin run[r].left[x.kind]
    BY DEF OneRowEach, TypeOK, RunState, Delivery
  <2>5. \A x \in run'[r].rows : x.entry \notin run'[r].left[x.kind]
    <3>1. d.entry \notin run'[r].left[d.kind]
      BY <2>2
    <3>2. ASSUME NEW x \in run[r].rows PROVE x.entry \notin run'[r].left[x.kind]
      BY <2>2, <2>4
    <3> QED BY <2>2, <3>1, <3>2
  <2>6. \A x \in run[r].rows : ~(x.entry = d.entry /\ x.kind = d.kind)
    BY <2>3, <2>4
  <2>7. \A x, y \in run'[r].rows : x.entry = y.entry /\ x.kind = y.kind => x = y
    BY <2>2, <2>6 DEF OneRowEach
  <2> QED BY <2>2, <2>3, <2>5, <2>7 DEF OneRowEach, OthersSame
<1>5. CASE UNCHANGED run
  BY <1>5 DEF OneRowEach
<1> QED BY <1>1, <1>2, <1>3, <1>4, <1>5
        DEF Next, Unconfigured, Commit, Crash, ChangeStatus, RefreshOverdue, Delete, vars

\* The runs in the ledger.
Published == {r \in Run : run[r].phase = "done"}

LEMMA LedgerInit == Init => Ledger!Init
BY DEF Init, Ledger!Init

LEMMA LedgerStep ==
    TypeOK /\ RunInv /\ OneRowEach /\ [Next]_vars => [Ledger!Next]_(Ledger!vars)
<1> SUFFICES ASSUME TypeOK, RunInv, OneRowEach, [Next]_vars PROVE [Ledger!Next]_(Ledger!vars)
  OBVIOUS
\* A step that changes neither messages nor rows nor which runs are done.
<1>0. ASSUME UNCHANGED <<mailed, delivery>>, Published' = Published PROVE UNCHANGED Ledger!vars
  BY <1>0 DEF Ledger!vars, Published
<1>1. ASSUME NEW r \in Run, NEW asOf \in AsOf, NEW dry \in BOOLEAN, Start(r, asOf, dry)
      PROVE  UNCHANGED Ledger!vars
  <2>1. run'[r].phase = "reading" /\ OthersSame(r)
    BY <1>1, StartEffect
  <2> QED BY <1>0, <1>1, <2>1 DEF Start, Published, OthersSame
<1>2. ASSUME NEW r \in Run, ReadUpcoming(r) PROVE UNCHANGED Ledger!vars
  <2>1. run'[r].phase = "sending" /\ OthersSame(r)
    BY <1>2, ReadUpcomingEffect
  <2> QED BY <1>0, <1>2, <2>1 DEF ReadUpcoming, Published, OthersSame
<1>3. ASSUME NEW r \in Run, Unconfigured(r) \/ Crash(r) PROVE UNCHANGED Ledger!vars
  <2>1. run' = [run EXCEPT ![r].phase = "lost"] /\ run[r].phase \in {"reading", "sending"}
    BY <1>3 DEF Unconfigured, Crash
  <2>2. run'[r].phase = "lost" /\ OthersSame(r)
    BY <2>1, PhaseEffect
  <2> QED BY <1>0, <1>3, <2>1, <2>2 DEF Unconfigured, Crash, Published, OthersSame
<1>4. ASSUME NEW r \in Run, Commit(r) PROVE Ledger!Publish(r) \/ UNCHANGED Ledger!vars
  <2>1. run[r].phase = "sending" /\ UNCHANGED mailed
    BY <1>4 DEF Commit
  <2>2. CASE run' = [run EXCEPT ![r].phase = "lost"] /\ delivery' = delivery
    <3>1. run'[r].phase = "lost" /\ OthersSame(r)
      BY <2>2, PhaseEffect
    <3> QED BY <1>0, <2>1, <2>2, <3>1 DEF Published, OthersSame
  <2>3. CASE run' = [run EXCEPT ![r].phase = "done"] /\ delivery' = delivery \cup run[r].rows
    <3>1. run'[r].phase = "done" /\ OthersSame(r)
      BY <2>3, PhaseEffect
    <3>2. r \notin Published /\ Published' = Published \cup {r}
      BY <2>1, <3>1 DEF Published, OthersSame
    <3>3. run[r].rows \subseteq Delivery /\ delivery \subseteq Delivery
      BY DEF TypeOK, RunState
    <3>4. Ledger!Acceptable(r, delivery' \ delivery)
      BY <2>3 DEF Ledger!Acceptable, RunInv, RowsKept, OneRowEach
    <3> QED BY <2>1, <2>3, <3>2, <3>3, <3>4 DEF Ledger!Publish, Published
  <2> QED BY <1>4, <2>2, <2>3 DEF Commit
<1>5. ASSUME NEW r \in Run, NEW e \in Entry, NEW k \in Kind,
             Pass(r, e, k) \/ MailAccepted(r, e, k) \/ MailRefused(r, e, k)
      PROVE  (\E m \in Message : Ledger!Accept(m)) \/ UNCHANGED Ledger!vars
  <2>1. PICK status \in Outcome : Recorded(r, e, k, status)
    BY <1>5 DEF Pass, MailAccepted, MailRefused, Outcome
  <2>2. run'[r].phase = run[r].phase /\ OthersSame(r)
    BY <2>1, RecordedEffect
  <2>3. Published' = Published
    BY <2>2 DEF Published, OthersSame
  <2>4. CASE MailAccepted(r, e, k)
    <3> DEFINE m == [run |-> r, entry |-> e, kind |-> k]
    <3>1. m \in Message
      BY DEF Message
    <3>2. Ledger!Accept(m)
      BY <2>3, <2>4 DEF MailAccepted, Ledger!Accept, Published
    <3> QED BY <3>1, <3>2
  <2>5. CASE Pass(r, e, k) \/ MailRefused(r, e, k)
    BY <1>0, <2>3, <2>5 DEF Pass, MailRefused
  <2> QED BY <1>5, <2>4, <2>5
<1>6. ASSUME NEW e \in Entry, NEW status \in Patched, ChangeStatus(e, status)
      PROVE  UNCHANGED Ledger!vars
  BY <1>0, <1>6 DEF ChangeStatus, Published
<1>7. ASSUME NEW asOf \in AsOf, RefreshOverdue(asOf) PROVE UNCHANGED Ledger!vars
  BY <1>0, <1>7 DEF RefreshOverdue, Published
<1>8. ASSUME NEW lease \in Lease, Delete(lease) PROVE Ledger!Forget(lease) /\ lease \in SUBSET Entry
  BY <1>8, ConstantsOK DEF Delete, Ledger!Forget
<1>9. CASE UNCHANGED vars
  BY <1>0, <1>9 DEF vars, Published
<1> QED BY <1>1, <1>2, <1>3, <1>4, <1>5, <1>6, <1>7, <1>8, <1>9 DEF Next, Ledger!Next

\* The history is a ledger of runs: each publishes its deliveries once, at once and
\* truthfully (jobs/reminders.py:32).
THEOREM HistoryIsALedger == Spec => KeepsTheLedger
<1>1. Init => OneRowEach
  BY DEF Init, OneRowEach
<1>2. Spec => []OneRowEach
  BY <1>1, OneRowStep, TypeInvariant, PTL DEF Spec
<1> QED BY <1>2, RunInvariant, LedgerInit, LedgerStep, PTL DEF Spec, KeepsTheLedger, Ledger!Spec
=============================================================================
