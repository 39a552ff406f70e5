------------------------------- MODULE Register -------------------------------
(***************************************************************************)
(* The lease register: leases are registered, edited and deleted while the *)
(* listing and the map read them.  (services/api/app/api/v1/leases.py,     *)
(* services/api/app/services/leases.py, services/api/app/models/lease.py)  *)
(*                                                                         *)
(* A listing takes three reads, each of its own moment: the leases that    *)
(* match with their sort keys, their scores, and the rows of one page.  In *)
(* between it filters by risk, sorts and cuts the page.  The map takes     *)
(* two, without a page.  Scores are derived from other records (module     *)
(* Scoring); here they change whenever those do.                           *)
(*                                                                         *)
(* The other filters (search, status, type, holder, mineral, expiry, box)  *)
(* are predicates on a row like that on its place.                         *)
(***************************************************************************)
EXTENDS Integers, FiniteSets, Sequences, SequencesExt

CONSTANTS
    Lease,      \* identities of leases
    Holder,     \* lease holders
    Place,      \* where leases are
    Payload,    \* the rows POST /leases is sent
    Edit,       \* the fields PATCH /leases/{id} is sent; geometry cannot be cleared
    Score,      \* the scores leases can have
    Query,      \* the listings asked for
    Chart,      \* the maps asked for
    Reader,     \* requests that list or draw the map
    Writer,     \* requests that edit a lease
    Null,       \* no value
    New, Gone   \* an identity not used yet, and one whose row is deleted

\* The term starts on day 1; a row's until is its last day, if it has one.
Row == [number : Nat, holder : Holder, place : Place, until : Nat \union {Null},
        drawn : BOOLEAN]

Band == {"low", "medium", "high", "critical"}

\* An empty set of places or bands is no filter.
Listing == [places : SUBSET Place, bands : SUBSET Band,
            sort : {"number", "until", "score"}, descending : BOOLEAN,
            offset : Nat, limit : Nat \ {0}]
Map == [places : SUBSET Place, bands : SUBSET Band, limit : Nat \ {0}]

\* What a lease without records scores.
Whole == 100

ASSUME RegisterConstantsOK ==
    /\ IsFiniteSet(Lease)
    /\ Payload \subseteq Row
    /\ \A r \in Payload : r.until = Null \/ r.until >= 1
    /\ \A e \in Edit :
        /\ DOMAIN e \subseteq {"holder", "place", "until", "drawn"}
        /\ "holder" \in DOMAIN e => e["holder"] \in Holder \union {Null}
        /\ "place" \in DOMAIN e => e["place"] \in Place
        /\ "until" \in DOMAIN e => e["until"] \in Nat \union {Null}
        /\ "drawn" \in DOMAIN e => e["drawn"] = TRUE
    /\ Score \subseteq 0..100 /\ Whole \in Score
    /\ Query \subseteq Listing
    /\ Chart \subseteq Map
    /\ Null \notin Nat \union Holder
    /\ New \notin Row /\ Gone \notin Row

VARIABLES
    lease,      \* the rows, New or Gone for identities without one
    holder,     \* the holders there are
    score,      \* what each lease scores
    reading,    \* the listings and maps in progress
    editing,    \* the edits in progress
    still       \* the readers since whose first read nothing has changed (no code
                \* keeps this: it says which answers show one moment)

registerVars == <<lease, holder, score, reading, editing, still>>

Idle == [stage |-> "idle"]

Registered == {l \in Lease : lease[l] \notin {New, Gone}}

-----------------------------------------------------------------------------
\* Writing

\* What the database accepts: a number of its own, and a holder that exists (a
\* foreign key lets NULL pass).
Accepted(l, row) ==
    /\ row.holder \in holder \union {Null}
    /\ \A m \in Registered \ {l} : lease[m].number # row.number

\* Registering a lease.  The holder is looked up first, but only the commit's
\* constraints decide; a payload's term is in order.
CreateLease(l) ==
    /\ lease[l] = New
    /\ \E row \in Payload :
        /\ Accepted(l, row)
        /\ lease' = [lease EXCEPT ![l] = row]
    /\ score' = [score EXCEPT ![l] = Whole]
    /\ still' = {}
    /\ UNCHANGED <<holder, reading, editing>>

\* An edit loads the row and looks up the holder it is sent ...
UpdateRead(w, l) ==
    /\ editing[w] = Idle
    /\ l \in Registered
    /\ \E e \in Edit :
        /\ ("holder" \in DOMAIN e /\ e["holder"] # Null) => e["holder"] \in holder
        /\ editing' = [editing EXCEPT ![w] = [stage |-> "commit", lease |-> l,
                                              edit |-> e, read |-> lease[l]]]
    /\ UNCHANGED <<lease, holder, score, reading, still>>

\* ... and writes the fields sent that differ from what it loaded.
Written(now, read, e) ==
    LET Field(f) == IF f \in DOMAIN e /\ e[f] # read[f] THEN e[f] ELSE now[f]
    IN  [now EXCEPT !.holder = Field("holder"), !.place = Field("place"),
                    !.until = Field("until"), !.drawn = Field("drawn")]

\* Mutant: they may be null.
CompleteOrNot(row) == TRUE

\* The columns that are NOT NULL.
Complete(row) == row.holder # Null

UpdateCommit(w) ==
    /\ editing[w].stage = "commit"
    /\ LET l == editing[w].lease
           row == Written(lease[l], editing[w].read, editing[w].edit)
       IN  /\ l \in Registered
           /\ Complete(row) /\ Accepted(l, row)
           /\ lease' = [lease EXCEPT ![l] = row]
    /\ editing' = [editing EXCEPT ![w] = Idle]
    /\ still' = {}
    /\ UNCHANGED <<holder, score, reading>>

\* The row is gone, a constraint refuses the edit, or the request dies.
UpdateFails(w) ==
    /\ editing[w].stage = "commit"
    /\ editing' = [editing EXCEPT ![w] = Idle]
    /\ UNCHANGED <<lease, holder, score, reading, still>>

DeleteLease(l) ==
    /\ l \in Registered
    /\ lease' = [lease EXCEPT ![l] = Gone]
    /\ score' = [score EXCEPT ![l] = Whole]
    /\ still' = {}
    /\ UNCHANGED <<holder, reading, editing>>

\* A holder of leases is kept; the foreign key decides.
DeleteHolder(h) ==
    /\ h \in holder
    /\ \A l \in Registered : lease[l].holder # h
    /\ holder' = holder \ {h}
    /\ UNCHANGED <<lease, score, reading, editing, still>>

\* The records of a lease change.
Rescore(l) ==
    /\ l \in Registered
    /\ \E s \in Score \ {score[l]} : score' = [score EXCEPT ![l] = s]
    /\ still' = {}
    /\ UNCHANGED <<lease, holder, reading, editing>>

-----------------------------------------------------------------------------
\* Reading

BandOf(s) ==
    CASE s >= 85 -> "low" [] s >= 70 /\ s < 85 -> "medium"
      [] s >= 50 /\ s < 70 -> "high" [] s < 50 -> "critical"

Asked(bands, s) == bands = {} \/ BandOf(s) \in bands

Matching(places) == {l \in Registered : places = {} \/ lease[l].place \in places}

\* A list without repetitions is a set and the order it is in, the pairs of which one
\* comes before the other.  How many of S come before l:
Before(S, order, l) == Cardinality({m \in S : <<m, l>> \in order})

\* S as a sequence.
InOrder(S, order) ==
    [n \in 1..Cardinality(S) |-> CHOOSE l \in S : Before(S, order, l) = n - 1]

OrderOf(s) ==
    {p \in ToSet(s) \X ToSet(s) :
        \E i, j \in DOMAIN s : i < j /\ s[i] = p[1] /\ s[j] = p[2]}

\* The database orders by a column, a missing value last, and equal ones as it
\* likes.
ColumnKey(q, l) == IF q.sort = "until" THEN lease[l].until ELSE lease[l].number

Ordered(q, s) ==
    \A i, j \in DOMAIN s :
        LET a == ColumnKey(q, s[i])
            b == ColumnKey(q, s[j])
        IN  i < j => b = Null \/ (a # Null /\ a <= b)

\* The first read of a listing: the leases that match, and their keys.
ListIds(r, q) ==
    /\ reading[r] = Idle
    /\ \E s \in {t \in SetToSeqs(Matching(q.places)) : Ordered(q, t)} :
        reading' = [reading EXCEPT ![r] =
                        [stage |-> "score", query |-> q, ids |-> ToSet(s),
                         order |-> OrderOf(s),
                         keys |-> [l \in ToSet(s) |-> ColumnKey(q, l)]]]
    /\ still' = still \union {r}
    /\ UNCHANGED <<lease, holder, score, editing>>

\* Mutant: a descending sort is an ascending one reversed.
StableSortReversed(S, order, key, descending) ==
    {p \in S \X S :
        LET a == key[p[1]]
            b == key[p[2]]
        IN  \/ a # Null /\ b = Null
            \/ Null \notin {a, b} /\ (IF descending THEN a > b ELSE a < b)
            \/ a = b /\ (IF descending THEN <<p[2], p[1]>> ELSE p) \in order}

\* Python's sort: by key, either way, equal keys in the order they had; leases
\* without a value are held back and appended in either direction.
StableSort(S, order, key, descending) ==
    {p \in S \X S :
        LET a == key[p[1]]
            b == key[p[2]]
        IN  \/ a # Null /\ b = Null
            \/ Null \notin {a, b} /\ (IF descending THEN a > b ELSE a < b)
            \/ a = b /\ p \in order}

Sorted(q, S, order, keys, scores) ==
    StableSort(S, order, IF q.sort = "score" THEN scores ELSE keys, q.descending)

Page(q, S, order) ==
    {l \in S : Before(S, order, l) \in q.offset .. q.offset + q.limit - 1}

\* The second read: their scores.  Then the risk filter, the total, the sort and
\* the page.
ListScore(r) ==
    /\ reading[r].stage = "score"
    /\ LET R == reading[r]
           scores == [l \in R.ids |-> score[l]]
           kept == {l \in R.ids : Asked(R.query.bands, scores[l])}
           order == Sorted(R.query, kept, R.order, R.keys, scores)
           page == Page(R.query, kept, order)
       IN  reading' = [reading EXCEPT ![r] =
                        [stage |-> "page", query |-> R.query, total |-> Cardinality(kept),
                         page |-> page, order |-> order \intersect (page \X page),
                         scores |-> [l \in page |-> scores[l]]]]
    /\ UNCHANGED <<lease, holder, score, editing, still>>

\* Mutant: the page is shown with the scores of the moment.
ListPageRescored(r) ==
    /\ reading[r].stage = "page"
    /\ LET R == reading[r]
           rows == InOrder(R.page \intersect Registered, R.order)
       IN  reading' = [reading EXCEPT ![r] =
                        [stage |-> "listed", query |-> R.query, total |-> R.total,
                         items |-> [i \in DOMAIN rows |->
                                      [lease |-> rows[i], score |-> score[rows[i]]]]]]
    /\ UNCHANGED <<lease, holder, score, editing, still>>

\* The third read: the rows of the page that are still there, shown with the
\* scores of the second.
ListPage(r) ==
    /\ reading[r].stage = "page"
    /\ LET R == reading[r]
           rows == InOrder(R.page \intersect Registered, R.order)
       IN  reading' = [reading EXCEPT ![r] =
                        [stage |-> "listed", query |-> R.query, total |-> R.total,
                         items |-> [i \in DOMAIN rows |->
                                      [lease |-> rows[i], score |-> R.scores[rows[i]]]]]]
    /\ UNCHANGED <<lease, holder, score, editing, still>>

\* The first read of the map: matching leases, in no order, up to the limit, with
\* whether there is anything to draw.
MapRead(r, m) ==
    /\ reading[r] = Idle
    /\ \E S \in SUBSET Matching(m.places) :
        /\ Cardinality(S) = IF Cardinality(Matching(m.places)) < m.limit
                            THEN Cardinality(Matching(m.places)) ELSE m.limit
        /\ reading' = [reading EXCEPT ![r] =
                        [stage |-> "draw", query |-> m, found |-> S,
                         drawn |-> {l \in S : lease[l].drawn}]]
    /\ still' = still \union {r}
    /\ UNCHANGED <<lease, holder, score, editing>>

\* The second: their scores, and only then the risk filter.
MapScore(r) ==
    /\ reading[r].stage = "draw"
    /\ LET R == reading[r]
       IN  reading' = [reading EXCEPT ![r] =
                        [stage |-> "drawn", query |-> R.query,
                         features |-> {l \in R.drawn : Asked(R.query.bands, score[l])}]]
    /\ UNCHANGED <<lease, holder, score, editing, still>>

\* The answer has arrived, or the request has died on the way.
Leave(r) ==
    /\ reading[r] # Idle
    /\ reading' = [reading EXCEPT ![r] = Idle]
    /\ still' = still \ {r}
    /\ UNCHANGED <<lease, holder, score, editing>>

-----------------------------------------------------------------------------
RegisterInit ==
    /\ lease = [l \in Lease |-> New]
    /\ holder = Holder
    /\ score = [l \in Lease |-> Whole]
    /\ reading = [r \in Reader |-> Idle]
    /\ editing = [w \in Writer |-> Idle]
    /\ still = {}

-----------------------------------------------------------------------------
\* Properties

ReadingOK(R) ==
    \/ R = Idle
    \/ /\ R.stage = "score" /\ R.query \in Query
       /\ R.ids \subseteq Lease /\ R.order \subseteq R.ids \X R.ids
       /\ R.keys \in [R.ids -> Nat \union {Null}]
    \/ /\ R.stage = "page" /\ R.query \in Query /\ R.total \in Nat
       /\ R.page \subseteq Lease /\ R.order \subseteq R.page \X R.page
       /\ R.scores \in [R.page -> Score]
    \/ /\ R.stage = "listed" /\ R.query \in Query /\ R.total \in Nat
       /\ R.items \in Seq([lease : Lease, score : Score])
    \/ /\ R.stage = "draw" /\ R.query \in Chart
       /\ R.found \subseteq Lease /\ R.drawn \subseteq R.found
    \/ /\ R.stage = "drawn" /\ R.query \in Chart
       /\ R.features \subseteq Lease

RegisterTypeOK ==
    /\ lease \in [Lease -> Row \union {New, Gone}]
    /\ holder \subseteq Holder
    /\ score \in [Lease -> Score]
    /\ still \subseteq Reader
    /\ DOMAIN reading = Reader /\ \A r \in Reader : ReadingOK(reading[r])
    /\ editing \in [Writer -> {Idle} \union
                       [stage : {"commit"}, lease : Lease, edit : Edit, read : Row]]

\* Every lease keeps a number of its own and a holder that exists, whatever is
\* registered, edited and deleted at the same time (models/lease.py:38,55).
Identified ==
    /\ \A l \in Registered : lease[l].holder \in holder
    /\ \A l, m \in Registered : lease[l].number = lease[m].number => l = m

\* The leases a listing is about: "every qualifying lease rather than only those
\* that happened to land on the requested page" (services/leases.py:177).
Qualifying(q) == {l \in Matching(q.places) : Asked(q.bands, score[l])}

\* Whether the order a listing asks for puts l strictly before m.
Precedes(q, l, m) ==
    LET By(a, b) == IF q.descending THEN a > b ELSE a < b
    IN  CASE q.sort = "number" -> By(lease[l].number, lease[m].number)
          [] q.sort = "score"  -> \/ By(score[l], score[m])
                                  \/ score[l] = score[m] /\ lease[l].number < lease[m].number
          [] q.sort = "until"  -> \/ lease[l].until # Null /\ lease[m].until = Null
                                  \/ /\ Null \notin {lease[l].until, lease[m].until}
                                     /\ By(lease[l].until, lease[m].until)

\* An answer during which nothing changed is the slice it was asked for, of every
\* qualifying lease in the order asked for: each item has as many leases before it
\* as its place in the listing says, up to leases equal in the sort column, and the
\* total counts them all.  By number and by score there are no equals, so the pages
\* of an unchanged register repeat nothing and miss nothing.
PageIsSlice ==
    \A r \in still :
        reading[r].stage = "listed" =>
            LET R == reading[r]
                q == R.query
                all == Qualifying(q)
                left == IF Cardinality(all) > q.offset THEN Cardinality(all) - q.offset ELSE 0
            IN  /\ R.total = Cardinality(all)
                /\ Len(R.items) = IF left < q.limit THEN left ELSE q.limit
                /\ \A i \in 1..Len(R.items) :
                    LET l == R.items[i].lease
                        place == q.offset + i - 1
                    IN  /\ l \in all
                        /\ Cardinality({m \in all : Precedes(q, m, l)}) <= place
                        /\ Cardinality({m \in all : Precedes(q, l, m)})
                             <= Cardinality(all) - 1 - place

\* Whatever changes meanwhile, a listing shows no lease twice, no more than the
\* page and the total, and none with a risk it was not asked for: the scores that
\* are shown are those that were filtered by (services/leases.py:240).
ListingCoherent ==
    \A r \in Reader :
        reading[r].stage = "listed" =>
            LET R == reading[r]
            IN  /\ \A i, j \in 1..Len(R.items) :
                    R.items[i].lease = R.items[j].lease => i = j
                /\ Len(R.items) <= R.query.limit /\ Len(R.items) <= R.total
                /\ \A i \in 1..Len(R.items) : Asked(R.query.bands, R.items[i].score)

\* A map that no more leases match than its limit, and during which nothing changed,
\* is "every matching lease" there is something to draw of (services/leases.py:266).
MapWhole ==
    \A r \in still :
        reading[r].stage = "drawn" =>
            LET R == reading[r]
            IN  Cardinality(Matching(R.query.places)) <= R.query.limit =>
                    R.features = {l \in Qualifying(R.query) : lease[l].drawn}

\* What is answered while nothing changes is right: the listing is a slice of the
\* whole, and the map below its limit is the whole.
AnswersHold == PageIsSlice /\ MapWhole
=============================================================================
