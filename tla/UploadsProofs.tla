---------------------------- MODULE UploadsProofs ----------------------------
(***************************************************************************)
(* Theorems about Uploads and Register, for any leases, holders,           *)
(* documents, queries, requests and moves between storages.                *)
(*                                                                         *)
(* The rows of leases have an invariant of their own.  That of documents   *)
(* follows an upload from its file to its row: a file that waits for its   *)
(* row is stored where its reference says, under a name nobody else waits  *)
(* for.  Of the register it needs only that leases stay registered until   *)
(* they are deleted, and stay deleted.  That of readings has two parts:    *)
(* what a listing has gathered so far is consistent in itself, and, as     *)
(* long as nothing has changed since its first read, it is what the        *)
(* register says.  It rests on lemmas about lists as ordered sets.         *)
(***************************************************************************)
EXTENDS Uploads, FiniteSetTheorems, TLAPS

(***************************************************************************)
(* Leases.                                                                 *)
(***************************************************************************)

EditState == {Idle} \union [stage : {"commit"}, lease : Lease, edit : Edit, read : Row]

RowsTyped ==
    /\ lease \in [Lease -> Row \union {New, Gone}]
    /\ holder \subseteq Holder
    /\ editing \in [Writer -> EditState]

RowsInv == RowsTyped /\ Identified

\* What documents need of a step of the register.
LeasesKept ==
    /\ Registered \subseteq Registered'
    /\ \A l \in Lease : lease[l] = Gone => lease'[l] = Gone

LEMMA RegisteredRows ==
    ASSUME RowsTyped
    PROVE  \A l \in Lease : l \in Registered <=> lease[l] \in Row
BY RegisterConstantsOK DEF RowsTyped, Registered

LEMMA RowsUnchanged ==
    ASSUME RowsInv, UNCHANGED <<lease, holder, editing>>
    PROVE  RowsInv' /\ LeasesKept
BY DEF RowsInv, RowsTyped, Identified, Registered, LeasesKept

\* A row that is accepted keeps every lease identified.
LEMMA RowPut ==
    ASSUME RowsInv, NEW l \in Lease, NEW row \in Row, Accepted(l, row), lease[l] # Gone,
           lease' = [lease EXCEPT ![l] = row], UNCHANGED holder
    PROVE  /\ lease' \in [Lease -> Row \union {New, Gone}]
           /\ Identified'
           /\ LeasesKept
<1>1. lease' \in [Lease -> Row \union {New, Gone}]
  BY DEF RowsInv, RowsTyped
<1>2. Registered' = Registered \union {l}
  BY RegisterConstantsOK DEF RowsInv, RowsTyped, Registered
<1>3. \A m \in Lease : lease'[m] = IF m = l THEN row ELSE lease[m]
  BY DEF RowsInv, RowsTyped
<1>4. row.holder \in holder
  BY RegisterConstantsOK DEF Accepted, Row
<1>5. Identified'
  <2>1. \A m \in Registered' : lease'[m].holder \in holder'
    BY <1>2, <1>3, <1>4 DEF RowsInv, Identified, Registered
  <2>2. \A m, n \in Registered' : lease'[m].number = lease'[n].number => m = n
    BY <1>2, <1>3 DEF RowsInv, Identified, Registered, Accepted
  <2> QED BY <2>1, <2>2 DEF Identified
<1>6. LeasesKept
  BY <1>2, <1>3 DEF LeasesKept
<1> QED BY <1>1, <1>5, <1>6

LEMMA CreateRows ==
    ASSUME RowsInv, NEW l \in Lease, CreateLease(l)
    PROVE  RowsInv' /\ LeasesKept
<1>1. PICK row \in Payload : Accepted(l, row) /\ lease' = [lease EXCEPT ![l] = row]
  BY DEF CreateLease
<1>2. row \in Row
  BY RegisterConstantsOK
<1>3. lease[l] # Gone /\ holder' = holder /\ editing' = editing
  BY UploadConstantsOK DEF CreateLease
<1> QED BY <1>1, <1>2, <1>3, RowPut DEF RowsInv, RowsTyped

LEMMA UpdateReadRows ==
    ASSUME RowsInv, NEW w \in Writer, NEW l \in Lease, UpdateRead(w, l)
    PROVE  RowsInv' /\ LeasesKept
<1>1. PICK e \in Edit :
        editing' = [editing EXCEPT ![w] = [stage |-> "commit", lease |-> l,
                                           edit |-> e, read |-> lease[l]]]
  BY DEF UpdateRead
<1>2. lease[l] \in Row
  BY RegisteredRows DEF UpdateRead, RowsInv
<1>3. [stage |-> "commit", lease |-> l, edit |-> e, read |-> lease[l]] \in EditState
  BY <1>2 DEF EditState
<1>4. editing' \in [Writer -> EditState]
  BY <1>1, <1>3 DEF RowsInv, RowsTyped
<1>5. UNCHANGED <<lease, holder>>
  BY DEF UpdateRead
<1> QED BY <1>4, <1>5 DEF RowsInv, RowsTyped, Identified, Registered, LeasesKept

\* What a PATCH writes is a row, if its holder is not null.
LEMMA WrittenIsRow ==
    ASSUME NEW now \in Row, NEW read \in Row, NEW e \in Edit,
           Complete(Written(now, read, e))
    PROVE  Written(now, read, e) \in Row
<1> DEFINE field(f) == IF f \in DOMAIN e /\ e[f] # read[f] THEN e[f] ELSE now[f]
           row == [now EXCEPT !.holder = field("holder"), !.place = field("place"),
                              !.until = field("until"), !.drawn = field("drawn")]
<1>1. Written(now, read, e) = row
  BY DEF Written
<1>2. /\ now.number \in Nat /\ now.holder \in Holder /\ now.place \in Place
      /\ now.until \in Nat \union {Null} /\ now.drawn \in BOOLEAN
  BY DEF Row
<1>3. row.holder = field("holder")
  BY DEF Row
<1>4. field("holder") \in Holder
  BY <1>1, <1>2, <1>3, RegisterConstantsOK DEF Complete
<1>5. field("place") \in Place /\ field("until") \in Nat \union {Null}
  BY <1>2, RegisterConstantsOK
<1>6. field("drawn") \in BOOLEAN
  BY <1>2, RegisterConstantsOK
<1> HIDE DEF field
<1>7. row \in Row
  BY <1>4, <1>5, <1>6 DEF Row
<1> QED BY <1>1, <1>7

LEMMA UpdateCommitRows ==
    ASSUME RowsInv, NEW w \in Writer, UpdateCommit(w)
    PROVE  RowsInv' /\ LeasesKept
<1> DEFINE l == editing[w].lease
           row == Written(lease[l], editing[w].read, editing[w].edit)
<1>1. /\ l \in Lease /\ editing[w].read \in Row /\ editing[w].edit \in Edit
  <2>1. editing[w] \in EditState /\ editing[w].stage = "commit"
    BY DEF RowsInv, RowsTyped, UpdateCommit
  <2>2. editing[w] # Idle
    BY <2>1 DEF Idle
  <2> QED BY <2>1, <2>2 DEF EditState
<1>2. /\ l \in Registered /\ Complete(row) /\ Accepted(l, row)
      /\ lease' = [lease EXCEPT ![l] = row] /\ UNCHANGED holder
      /\ editing' = [editing EXCEPT ![w] = Idle]
  BY DEF UpdateCommit
<1>3. lease[l] \in Row /\ lease[l] # Gone
  BY <1>1, <1>2, RegisteredRows, RegisterConstantsOK DEF RowsInv
<1>4. row \in Row
  BY <1>1, <1>2, <1>3, WrittenIsRow
<1>5. editing' \in [Writer -> EditState]
  BY <1>2 DEF RowsInv, RowsTyped, EditState
<1> HIDE DEF row
<1> QED BY <1>1, <1>2, <1>3, <1>4, <1>5, RowPut DEF RowsInv, RowsTyped

LEMMA UpdateFailsRows ==
    ASSUME RowsInv, NEW w \in Writer, UpdateFails(w)
    PROVE  RowsInv' /\ LeasesKept
<1>1. editing' \in [Writer -> EditState] /\ UNCHANGED <<lease, holder>>
  BY DEF UpdateFails, RowsInv, RowsTyped, EditState
<1> QED BY <1>1 DEF RowsInv, RowsTyped, Identified, Registered, LeasesKept

LEMMA DeleteHolderRows ==
    ASSUME RowsInv, NEW h \in Holder, DeleteHolder(h)
    PROVE  RowsInv' /\ LeasesKept
<1>1. /\ \A l \in Registered : lease[l].holder # h
      /\ holder' = holder \ {h} /\ UNCHANGED <<lease, editing>>
  BY DEF DeleteHolder
<1> QED BY <1>1 DEF RowsInv, RowsTyped, Identified, Registered, LeasesKept

LEMMA DeleteLeaseRows ==
    ASSUME RowsInv, NEW l \in Lease, DeleteLease(l)
    PROVE  /\ RowsInv'
           /\ Registered' = Registered \ {l}
           /\ lease'[l] = Gone
           /\ \A m \in Lease : lease[m] = Gone => lease'[m] = Gone
<1>1. lease' = [lease EXCEPT ![l] = Gone] /\ UNCHANGED <<holder, editing>>
  BY DEF DeleteLease
<1>2. lease' \in [Lease -> Row \union {New, Gone}]
  BY <1>1 DEF RowsInv, RowsTyped
<1>3. \A m \in Lease : lease'[m] = IF m = l THEN Gone ELSE lease[m]
  BY <1>1 DEF RowsInv, RowsTyped
<1>4. Registered' = Registered \ {l}
  BY <1>3 DEF Registered
<1>5. Identified'
  BY <1>1, <1>3, <1>4 DEF RowsInv, Identified, Registered
<1> QED BY <1>1, <1>2, <1>3, <1>4, <1>5 DEF RowsInv, RowsTyped

(***************************************************************************)
(* Lists.  A list without repetitions is a set and a strict order of it;   *)
(* how many elements come before one is a bijection onto the places, so a  *)
(* slice of the places is a set of as many elements.                       *)
(***************************************************************************)

StrictOrder(S, order) ==
    /\ \A a \in S : <<a, a>> \notin order
    /\ \A a, b \in S : a = b \/ <<a, b>> \in order \/ <<b, a>> \in order
    /\ \A a, b, c \in S : <<a, b>> \in order /\ <<b, c>> \in order => <<a, c>> \in order

LEMMA BeforeIsPlace ==
    ASSUME NEW S, IsFiniteSet(S), NEW order, StrictOrder(S, order)
    PROVE  /\ Cardinality(S) \in Nat
           /\ \A a \in S : Before(S, order, a) \in 0 .. Cardinality(S) - 1
           /\ \A a, b \in S : <<a, b>> \in order <=> Before(S, order, a) < Before(S, order, b)
           /\ \A a, b \in S : Before(S, order, a) = Before(S, order, b) => a = b
<1> DEFINE P(a) == {m \in S : <<m, a>> \in order}
<1>1. Cardinality(S) \in Nat
  BY FS_CardinalityType
<1>2. ASSUME NEW a \in S
      PROVE  IsFiniteSet(P(a)) /\ Before(S, order, a) = Cardinality(P(a)) /\ Cardinality(P(a)) \in Nat
  <2>1. P(a) \in SUBSET S
    OBVIOUS
  <2>2. IsFiniteSet(P(a))
    BY <2>1, FS_Subset
  <2>3. Cardinality(P(a)) \in Nat
    BY <2>2, FS_CardinalityType
  <2> QED BY <2>2, <2>3 DEF Before
<1>3. ASSUME NEW a \in S PROVE Cardinality(P(a)) < Cardinality(S)
  <2>1. P(a) \in SUBSET S /\ P(a) # S
    BY DEF StrictOrder
  <2>2. Cardinality(P(a)) <= Cardinality(S) /\ Cardinality(S) # Cardinality(P(a))
    BY <2>1, FS_Subset
  <2> QED BY <1>1, <1>2, <2>2
<1>4. ASSUME NEW a \in S, NEW b \in S, <<a, b>> \in order
      PROVE  Before(S, order, a) < Before(S, order, b)
  <2>1. P(a) \in SUBSET P(b) /\ P(a) # P(b)
    BY <1>4 DEF StrictOrder
  <2>2. Cardinality(P(a)) <= Cardinality(P(b)) /\ Cardinality(P(b)) # Cardinality(P(a))
    BY <1>2, <2>1, FS_Subset
  <2> QED BY <1>2, <2>2
<1> HIDE DEF P
<1>5. \A a \in S : Before(S, order, a) \in 0 .. Cardinality(S) - 1
  <2> SUFFICES ASSUME NEW a \in S PROVE Before(S, order, a) \in 0 .. Cardinality(S) - 1
    OBVIOUS
  <2>1. Before(S, order, a) = Cardinality(P(a)) /\ Cardinality(P(a)) \in Nat
    BY <1>2
  <2>2. Cardinality(P(a)) < Cardinality(S)
    BY <1>3
  <2> QED BY <1>1, <2>1, <2>2
<1>6. \A a, b \in S : <<a, b>> \in order => Before(S, order, a) < Before(S, order, b)
  BY <1>4
<1>7. ASSUME NEW a \in S, NEW b \in S
      PROVE  /\ <<a, b>> \in order <=> Before(S, order, a) < Before(S, order, b)
             /\ Before(S, order, a) = Before(S, order, b) => a = b
  <2>1. a = b \/ <<a, b>> \in order \/ <<b, a>> \in order
    BY DEF StrictOrder
  <2>2. a = b => <<a, b>> \notin order
    BY DEF StrictOrder
  <2>3. Before(S, order, a) \in Int /\ Before(S, order, b) \in Int
    BY <1>5
  <2>4. /\ <<a, b>> \in order => Before(S, order, a) < Before(S, order, b)
        /\ <<b, a>> \in order => Before(S, order, b) < Before(S, order, a)
    BY <1>6
  <2> QED BY <2>1, <2>2, <2>3, <2>4
<1> QED BY <1>1, <1>5, <1>7

\* As many elements as places.
LEMMA SliceSize ==
    ASSUME NEW S, IsFiniteSet(S), NEW order, StrictOrder(S, order),
           NEW i \in Nat, NEW j \in Nat, i <= j, j <= Cardinality(S)
    PROVE  Cardinality({a \in S : Before(S, order, a) \in i .. j - 1}) = j - i
<1> DEFINE n == Cardinality(S)
           T == 0 .. n - 1
           f == [a \in S |-> Before(S, order, a)]
           U == {a \in S : Before(S, order, a) \in i .. j - 1}
           V == i .. j - 1
           g == [a \in U |-> Before(S, order, a)]
<1>1. n \in Nat /\ f \in [S -> T] /\ \A a, b \in S : f[a] = f[b] => a = b
  BY BeforeIsPlace
<1>2. f \in Injection(S, T)
  BY <1>1 DEF Injection, IsInjective
<1>3. IsFiniteSet(T) /\ Cardinality(T) = n
  <2>1. 0 \in Int /\ n - 1 \in Int
    BY <1>1
  <2>2. IsFiniteSet(0 .. n - 1)
        /\ Cardinality(0 .. n - 1) = IF 0 > n - 1 THEN 0 ELSE n - 1 - 0 + 1
    BY <2>1, FS_Interval
  <2>3. (IF 0 > n - 1 THEN 0 ELSE n - 1 - 0 + 1) = n
    BY <1>1
  <2> QED BY <2>2, <2>3
<1>4. f \in Surjection(S, T)
  <2> HIDE DEF f, T
  <2> QED BY <1>2, <1>3, FS_Injection
<1>5. \A v \in T : \E a \in S : Before(S, order, a) = v
  BY <1>4 DEF Surjection
<1>6. V \subseteq T
  BY <1>1
<1>7. g \in Bijection(U, V)
  <2>1. g \in [U -> V]
    OBVIOUS
  <2>2. \A a, b \in U : g[a] = g[b] => a = b
    BY <1>1
  <2>3. \A v \in V : \E a \in U : g[a] = v
    BY <1>5, <1>6
  <2> HIDE DEF g, U, V
  <2> QED BY <2>1, <2>2, <2>3 DEF Bijection, Injection, Surjection, IsInjective
<1>8. IsFiniteSet(U)
  <2>1. U \in SUBSET S
    OBVIOUS
  <2> QED BY <2>1, FS_Subset
<1>9. Cardinality(V) = Cardinality(U)
  <2> HIDE DEF g, U, V
  <2> QED BY <1>7, <1>8, FS_Bijection DEF ExistsBijection
<1>10. Cardinality(V) = j - i
  <2>1. i \in Int /\ j - 1 \in Int
    OBVIOUS
  <2>2. Cardinality(i .. j - 1) = IF i > j - 1 THEN 0 ELSE j - 1 - i + 1
    BY <2>1, FS_Interval
  <2>3. (IF i > j - 1 THEN 0 ELSE j - 1 - i + 1) = j - i
    OBVIOUS
  <2> QED BY <2>2, <2>3
<1> QED BY <1>9, <1>10

\* How many come after an element.
LEMMA AfterSize ==
    ASSUME NEW S, IsFiniteSet(S), NEW order, StrictOrder(S, order), NEW a \in S
    PROVE  Cardinality({m \in S : <<a, m>> \in order})
             = Cardinality(S) - 1 - Before(S, order, a)
<1> DEFINE n == Cardinality(S)
           i == Before(S, order, a) + 1
<1>1. /\ n \in Nat /\ Before(S, order, a) \in 0 .. n - 1
      /\ \A m \in S : Before(S, order, m) \in 0 .. n - 1
      /\ \A m \in S : <<a, m>> \in order <=> Before(S, order, a) < Before(S, order, m)
  BY BeforeIsPlace
<1>2. i \in Nat /\ i <= n
  BY <1>1
<1>3. {m \in S : <<a, m>> \in order} = {m \in S : Before(S, order, m) \in i .. n - 1}
  BY <1>1
<1> HIDE DEF i
<1>4. Cardinality({m \in S : Before(S, order, m) \in i .. n - 1}) = n - i
  BY <1>1, <1>2, SliceSize
<1>5. n - i = n - 1 - Before(S, order, a)
  BY <1>1 DEF i
<1> QED BY <1>3, <1>4, <1>5

\* A part of a list is a list, in the same order.
LEMMA PartOrdered ==
    ASSUME NEW S, NEW order, StrictOrder(S, order), NEW T \in SUBSET S
    PROVE  /\ StrictOrder(T, order)
           /\ StrictOrder(T, order \intersect (T \X T))
           /\ \A a \in T : Before(T, order \intersect (T \X T), a) = Before(T, order, a)
<1>1. StrictOrder(T, order)
  BY DEF StrictOrder
<1>2. \A a, b \in T : <<a, b>> \in order \intersect (T \X T) <=> <<a, b>> \in order
  OBVIOUS
<1>3. StrictOrder(T, order \intersect (T \X T))
  BY <1>1, <1>2 DEF StrictOrder
<1>4. ASSUME NEW a \in T
      PROVE  Before(T, order \intersect (T \X T), a) = Before(T, order, a)
  <2>1. {m \in T : <<m, a>> \in order \intersect (T \X T)} = {m \in T : <<m, a>> \in order}
    BY <1>2
  <2> QED BY <2>1 DEF Before
<1> QED BY <1>1, <1>3, <1>4

\* The sequence of a list has each of its elements at its place.
LEMMA InOrderPlaces ==
    ASSUME NEW S, IsFiniteSet(S), NEW order, StrictOrder(S, order)
    PROVE  /\ Cardinality(S) \in Nat
           /\ InOrder(S, order) \in [1 .. Cardinality(S) -> S]
           /\ \A n \in 1 .. Cardinality(S) :
                 Before(S, order, InOrder(S, order)[n]) = n - 1
<1>1. Cardinality(S) \in Nat
  BY FS_CardinalityType
<1>2. ASSUME NEW n \in 1 .. Cardinality(S)
      PROVE  \E l \in S : Before(S, order, l) = n - 1
  <2> DEFINE i == n - 1
             U == {a \in S : Before(S, order, a) \in i .. n - 1}
  <2>1. i \in Nat /\ n \in Nat /\ i <= n /\ n <= Cardinality(S)
    BY <1>1
  <2> HIDE DEF i
  <2>2. Cardinality(U) = n - i
    BY <2>1, SliceSize
  <2>3. Cardinality(U) # 0
    BY <2>1, <2>2 DEF i
  <2>4. U # {}
    BY <2>3, FS_EmptySet
  <2>5. PICK l \in U : TRUE
    BY <2>4
  <2>6. l \in S /\ Before(S, order, l) \in i .. n - 1
    BY <2>5
  <2> QED BY <2>1, <2>6 DEF i
<1>3. \A n \in 1 .. Cardinality(S) :
        /\ InOrder(S, order)[n] \in S
        /\ Before(S, order, InOrder(S, order)[n]) = n - 1
  BY <1>2 DEF InOrder
<1>4. InOrder(S, order) = [n \in 1 .. Cardinality(S) |-> InOrder(S, order)[n]]
  BY DEF InOrder
<1>5. InOrder(S, order) \in [1 .. Cardinality(S) -> S]
  BY <1>3, <1>4
<1> QED BY <1>1, <1>3, <1>5

\* How many of n leases are on a page.
PageOf(n, q) ==
    LET left == IF n > q.offset THEN n - q.offset ELSE 0
    IN  IF left < q.limit THEN left ELSE q.limit

\* A page has as many leases as its limit and the list leave it, in consecutive places.
LEMMA PagePlaces ==
    ASSUME NEW S, IsFiniteSet(S), NEW order, StrictOrder(S, order),
           NEW q, q.offset \in Nat, q.limit \in Nat \ {0}
    PROVE  LET page == Page(q, S, order)
           IN  /\ page \subseteq S
               /\ Cardinality(page) = PageOf(Cardinality(S), q)
               /\ PageOf(Cardinality(S), q) <= Cardinality(S)
               /\ PageOf(Cardinality(S), q) <= q.limit
               /\ StrictOrder(page, order \intersect (page \X page))
               /\ \A l \in page :
                    Before(S, order, l)
                      = q.offset + Before(page, order \intersect (page \X page), l)
<1> DEFINE page == Page(q, S, order)
           n == Cardinality(S)
           size == PageOf(n, q)
           o == q.offset
           place(l) == Before(S, order, l)
<1>1. /\ n \in Nat
      /\ \A l \in S : place(l) \in 0 .. n - 1
      /\ \A l, m \in S : <<l, m>> \in order <=> place(l) < place(m)
  BY BeforeIsPlace
<1>2. page = {l \in S : place(l) \in o .. o + q.limit - 1}
  BY DEF Page
<1>3. Cardinality(page) = size
  <2>1. CASE n > o
    <3> DEFINE j == o + size
    <3>1. j \in Nat /\ o <= j /\ j <= n /\ j - o = size
      BY <1>1, <2>1 DEF PageOf
    <3>2. page = {l \in S : place(l) \in o .. j - 1}
      BY <1>1, <1>2, <2>1 DEF PageOf
    <3> HIDE DEF j, size, page, place
    <3>3. Cardinality({l \in S : Before(S, order, l) \in o .. j - 1}) = j - o
      BY <3>1, SliceSize
    <3> QED BY <3>1, <3>2, <3>3 DEF place
  <2>2. CASE ~(n > o)
    <3>1. page = {} /\ size = 0
      BY <1>1, <1>2, <2>2 DEF PageOf
    <3> QED BY <3>1, FS_EmptySet
  <2> QED BY <2>1, <2>2
<1>4. page \in SUBSET S
  BY <1>2
<1>5. ASSUME NEW l \in page
      PROVE  place(l) = o + Before(page, order \intersect (page \X page), l)
  <2> DEFINE j == place(l)
  <2>1. l \in S /\ j \in Nat /\ o <= j /\ j <= n
    BY <1>1, <1>2
  <2>2. {m \in page : <<m, l>> \in order} = {m \in S : place(m) \in o .. j - 1}
    BY <1>1, <1>2, <2>1
  <2>3. Cardinality({m \in S : Before(S, order, m) \in o .. j - 1}) = j - o
    <3> HIDE DEF j
    <3> QED BY <2>1, SliceSize
  <2>4. Before(page, order, l) = j - o
    BY <2>2, <2>3 DEF Before
  <2>5. Before(page, order \intersect (page \X page), l) = Before(page, order, l)
    BY <1>4, PartOrdered
  <2> QED BY <2>1, <2>4, <2>5
<1>6. StrictOrder(page, order \intersect (page \X page))
  BY <1>4, PartOrdered
<1>7. size <= n /\ size <= q.limit
  BY <1>1 DEF PageOf
<1> QED BY <1>3, <1>4, <1>5, <1>6, <1>7

\* Sorting an ordered list, by keys some of which may be missing, orders it.
LEMMA SortOrders ==
    ASSUME NEW S, NEW order, StrictOrder(S, order), NEW K \in SUBSET S,
           NEW key, \A l \in K : key[l] \in Nat \union {Null}, NEW descending,
           Null \notin Nat
    PROVE  StrictOrder(K, StableSort(K, order, key, descending))
<1> DEFINE sorted == StableSort(K, order, key, descending)
           less(a, b) == IF descending THEN a > b ELSE a < b
           comes(l, m) == \/ key[l] # Null /\ key[m] = Null
                          \/ key[l] # Null /\ key[m] # Null /\ less(key[l], key[m])
                          \/ key[l] = key[m] /\ <<l, m>> \in order
<1>1. \A l, m \in K : <<l, m>> \in sorted <=> comes(l, m)
  BY DEF StableSort
<1>2. \A l \in K : key[l] = Null \/ key[l] \in Nat
  OBVIOUS
<1> HIDE DEF sorted
<1>3. ASSUME NEW l \in K PROVE ~comes(l, l)
  <2>1. <<l, l>> \notin order
    BY DEF StrictOrder
  <2>2. key[l] \in Nat => ~less(key[l], key[l])
    OBVIOUS
  <2> QED BY <1>2, <2>1, <2>2
<1>4. ASSUME NEW l \in K, NEW m \in K, l # m PROVE comes(l, m) \/ comes(m, l)
  <2>1. <<l, m>> \in order \/ <<m, l>> \in order
    BY <1>4 DEF StrictOrder
  <2>2. CASE key[l] \in Nat /\ key[m] \in Nat
    BY <2>1, <2>2
  <2>3. CASE key[l] = Null \/ key[m] = Null
    BY <1>2, <2>1, <2>3
  <2> QED BY <1>2, <2>2, <2>3
<1>5. ASSUME NEW k \in K, NEW l \in K, NEW m \in K, comes(k, l), comes(l, m)
      PROVE  comes(k, m)
  <2>1. <<k, l>> \in order /\ <<l, m>> \in order => <<k, m>> \in order
    BY DEF StrictOrder
  <2>2. CASE key[k] \in Nat /\ key[l] \in Nat /\ key[m] \in Nat
    BY <1>5, <2>1, <2>2
  <2>3. CASE key[k] = Null \/ key[l] = Null \/ key[m] = Null
    BY <1>2, <1>5, <2>1, <2>3
  <2> QED BY <1>2, <2>2, <2>3
<1> HIDE DEF comes
<1>6. \A k, l, m \in K : <<k, l>> \in sorted /\ <<l, m>> \in sorted => <<k, m>> \in sorted
  BY <1>1, <1>5
<1>7. StrictOrder(K, sorted)
  BY <1>1, <1>3, <1>4, <1>6 DEF StrictOrder
<1> QED BY <1>7 DEF sorted

\* A sequence of all of a set orders it.
LEMMA SequenceOrders ==
    ASSUME NEW S, IsFiniteSet(S), NEW s \in SetToSeqs(S)
    PROVE  ToSet(s) = S /\ StrictOrder(S, OrderOf(s))
<1> DEFINE D == 1 .. Cardinality(S)
<1>1. Cardinality(S) \in Nat
  BY FS_CardinalityType
<1>2. s \in [D -> S] /\ \A i, j \in D : i # j => s[i] # s[j]
  BY DEF SetToSeqs
<1>3. IsFiniteSet(D) /\ Cardinality(D) = Cardinality(S)
  <2> DEFINE n == Cardinality(S)
  <2>1. 1 \in Int /\ n \in Int
    BY <1>1
  <2> HIDE DEF n
  <2>2. IsFiniteSet(1 .. n) /\ Cardinality(1 .. n) = IF 1 > n THEN 0 ELSE n - 1 + 1
    BY <2>1, FS_Interval
  <2>3. (IF 1 > n THEN 0 ELSE n - 1 + 1) = n
    BY <1>1 DEF n
  <2> QED BY <2>2, <2>3 DEF n
<1>4. s \in Injection(D, S)
  BY <1>2 DEF Injection, IsInjective
<1> HIDE DEF D
<1>5. s \in Surjection(D, S)
  BY <1>3, <1>4, FS_Injection
<1>6. DOMAIN s = D /\ ToSet(s) = S
  BY <1>2, <1>5 DEF Surjection, ToSet
<1>7. \A a, b \in S : <<a, b>> \in OrderOf(s) <=> \E i, j \in D : i < j /\ s[i] = a /\ s[j] = b
  BY <1>6 DEF OrderOf
<1>8. D \subseteq Nat
  BY DEF D
<1>9. \A a \in S : <<a, a>> \notin OrderOf(s)
  BY <1>2, <1>7, <1>8
<1>10. ASSUME NEW a \in S, NEW b \in S, a # b
       PROVE  <<a, b>> \in OrderOf(s) \/ <<b, a>> \in OrderOf(s)
  <2>1. PICK i \in D : s[i] = a
    BY <1>5 DEF Surjection
  <2>2. PICK j \in D : s[j] = b
    BY <1>5 DEF Surjection
  <2>3. i < j \/ j < i
    BY <1>8, <1>10, <2>1, <2>2
  <2> QED BY <1>7, <2>1, <2>2, <2>3
<1>11. ASSUME NEW a \in S, NEW b \in S, NEW c \in S,
              <<a, b>> \in OrderOf(s), <<b, c>> \in OrderOf(s)
       PROVE  <<a, c>> \in OrderOf(s)
  <2>1. PICK i, j \in D : i < j /\ s[i] = a /\ s[j] = b
    BY <1>7, <1>11
  <2>2. PICK k, m \in D : k < m /\ s[k] = b /\ s[m] = c
    BY <1>7, <1>11
  <2>3. j = k
    BY <1>2, <2>1, <2>2
  <2>4. i < m
    BY <1>8, <2>1, <2>2, <2>3
  <2> QED BY <1>7, <2>1, <2>2, <2>4
<1> QED BY <1>6, <1>9, <1>10, <1>11 DEF StrictOrder

(***************************************************************************)
(* Readings.  What a reading has gathered is consistent in itself whatever *)
(* changes meanwhile; while nothing changes it is also what the register   *)
(* says.                                                                   *)
(***************************************************************************)

\* Of a reading on its own.
Coherent(R) ==
    /\ R.stage = "score" => StrictOrder(R.ids, R.order)
    /\ R.stage = "page" =>
        /\ StrictOrder(R.page, R.order)
        /\ Cardinality(R.page) <= R.query.limit /\ Cardinality(R.page) <= R.total
        /\ \A l \in R.page : Asked(R.query.bands, R.scores[l])
    /\ R.stage = "listed" =>
        /\ \A i, j \in 1..Len(R.items) : R.items[i].lease = R.items[j].lease => i = j
        /\ Len(R.items) <= R.query.limit /\ Len(R.items) <= R.total
        /\ \A i \in 1..Len(R.items) : Asked(R.query.bands, R.items[i].score)

\* The place of a lease in the listing, up to leases equal in the sort column.
Placed(q, l, place) ==
    LET all == Qualifying(q)
    IN  /\ l \in all
        /\ Cardinality({m \in all : Precedes(q, m, l)}) <= place
        /\ Cardinality({m \in all : Precedes(q, l, m)}) <= Cardinality(all) - 1 - place

PageSize(q) == PageOf(Cardinality(Qualifying(q)), q)

KeysInOrder(R) ==
    \A l, m \in R.ids : <<l, m>> \in R.order =>
        R.keys[m] = Null \/ (R.keys[l] # Null /\ R.keys[l] <= R.keys[m])

\* Of a reading and the register.
Fresh(R) ==
    /\ R.stage = "score" =>
        /\ R.ids = Matching(R.query.places)
        /\ \A l \in R.ids : R.keys[l] = ColumnKey(R.query, l)
        /\ KeysInOrder(R)
    /\ R.stage = "page" =>
        /\ R.total = Cardinality(Qualifying(R.query))
        /\ Cardinality(R.page) = PageSize(R.query)
        /\ \A l \in R.page : Placed(R.query, l, R.query.offset + Before(R.page, R.order, l))
    /\ R.stage = "listed" =>
        /\ R.total = Cardinality(Qualifying(R.query))
        /\ Len(R.items) = PageSize(R.query)
        /\ \A i \in 1..Len(R.items) :
              Placed(R.query, R.items[i].lease, R.query.offset + i - 1)
    /\ R.stage = "draw" =>
        /\ Cardinality(Matching(R.query.places)) <= R.query.limit
             => R.found = Matching(R.query.places)
        /\ R.drawn = {l \in R.found : lease[l].drawn}
    /\ R.stage = "drawn" =>
        /\ Cardinality(Matching(R.query.places)) <= R.query.limit
             => R.features = {l \in Qualifying(R.query) : lease[l].drawn}

ReadInv ==
    /\ score \in [Lease -> Score]
    /\ still \subseteq Reader
    /\ DOMAIN reading = Reader
    /\ \A r \in Reader : ReadingOK(reading[r]) /\ Coherent(reading[r])
    /\ \A r \in still : \A R : R = reading[r] => Fresh(R)

LEMMA ReadingKinds ==
    ASSUME NEW R, ReadingOK(R)
    PROVE  /\ R.stage = "score" =>
                /\ R.query \in Query
                /\ R.ids \subseteq Lease /\ R.order \subseteq R.ids \X R.ids
                /\ R.keys \in [R.ids -> Nat \union {Null}]
           /\ R.stage = "page" =>
                /\ R.query \in Query /\ R.total \in Nat
                /\ R.page \subseteq Lease /\ R.order \subseteq R.page \X R.page
                /\ R.scores \in [R.page -> Score]
           /\ R.stage = "listed" =>
                /\ R.query \in Query /\ R.total \in Nat
                /\ R.items \in Seq([lease : Lease, score : Score])
           /\ R.stage = "draw" => R.query \in Chart /\ R.found \subseteq Lease /\ R.drawn \subseteq R.found
BY DEF ReadingOK, Idle

\* What a reading is checked against is the same while nothing changes.
LEMMA FreshKept ==
    ASSUME UNCHANGED <<lease, score>>, NEW R, Fresh(R)
    PROVE  Fresh(R)'
<1>1. Registered' = Registered
  BY DEF Registered
<1>2. \A places : Matching(places)' = Matching(places)
  BY <1>1 DEF Matching
<1>3. \A q : Qualifying(q)' = Qualifying(q)
  BY <1>2 DEF Qualifying
<1>4. \A q, l, m : Precedes(q, l, m)' <=> Precedes(q, l, m)
  BY DEF Precedes
<1>5. \A q : PageSize(q)' = PageSize(q)
  BY <1>3 DEF PageSize
<1>6. \A q, l, place : Placed(q, l, place)' <=> Placed(q, l, place)
  <2> SUFFICES ASSUME NEW q, NEW l, NEW place
               PROVE  Placed(q, l, place)' <=> Placed(q, l, place)
    OBVIOUS
  <2> DEFINE all == Qualifying(q)
  <2>1. /\ {m \in all : Precedes(q, m, l)}' = {m \in all : Precedes(q, m, l)}
        /\ {m \in all : Precedes(q, l, m)}' = {m \in all : Precedes(q, l, m)}
    BY <1>3, <1>4
  <2> QED BY <1>3, <2>1 DEF Placed
<1>7. \A q, l : ColumnKey(q, l)' = ColumnKey(q, l)
  BY DEF ColumnKey
<1> QED BY <1>2, <1>3, <1>5, <1>6, <1>7 DEF Fresh, KeysInOrder

\* A step of one reading.
LEMMA ReadStep ==
    ASSUME ReadInv, NEW r \in Reader, NEW X, reading' = [reading EXCEPT ![r] = X],
           ReadingOK(X), Coherent(X), UNCHANGED <<lease, score>>,
           still' \subseteq still \union {r}, r \in still' => Fresh(X)
    PROVE  ReadInv'
<1>1. DOMAIN reading' = Reader /\ \A t \in Reader : reading'[t] = IF t = r THEN X ELSE reading[t]
  BY DEF ReadInv
<1>2. \A t \in Reader : ReadingOK(reading'[t]) /\ Coherent(reading'[t])
  BY <1>1 DEF ReadInv
<1>3. ASSUME NEW t \in still', NEW R, R = reading'[t] PROVE Fresh(R)'
  <2>1. t \in Reader
    BY <1>3 DEF ReadInv
  <2>2. CASE t = r
    BY <1>1, <1>3, <2>1, <2>2, FreshKept
  <2>3. CASE t # r
    <3>1. t \in still /\ R = reading[t]
      BY <1>1, <1>3, <2>1, <2>3
    <3> QED BY <3>1, FreshKept DEF ReadInv
  <2> QED BY <2>2, <2>3
<1> QED BY <1>1, <1>2, <1>3 DEF ReadInv

LEMMA ListIdsReads ==
    ASSUME RowsTyped, ReadInv, NEW r \in Reader, NEW q \in Query, ListIds(r, q)
    PROVE  ReadInv'
<1>1. PICK s \in SetToSeqs(Matching(q.places)) :
        /\ Ordered(q, s)
        /\ reading' = [reading EXCEPT ![r] =
                        [stage |-> "score", query |-> q, ids |-> ToSet(s),
                         order |-> OrderOf(s),
                         keys |-> [l \in ToSet(s) |-> ColumnKey(q, l)]]]
  BY DEF ListIds
<1> DEFINE S == Matching(q.places)
           key == [l \in ToSet(s) |-> ColumnKey(q, l)]
           X == [stage |-> "score", query |-> q, ids |-> ToSet(s), order |-> OrderOf(s), keys |-> key]
<1>2. S \subseteq Lease /\ IsFiniteSet(S)
  <2>1. S \in SUBSET Lease
    BY DEF Matching, Registered
  <2> QED BY <2>1, RegisterConstantsOK, FS_Subset
<1>3. ToSet(s) = S /\ StrictOrder(S, OrderOf(s)) /\ OrderOf(s) \subseteq S \X S
  <2>1. ToSet(s) = S /\ StrictOrder(S, OrderOf(s))
    BY <1>2, SequenceOrders
  <2> QED BY <2>1 DEF OrderOf
<1>4. \A l \in S : ColumnKey(q, l) \in Nat \union {Null}
  <2>1. \A l \in S : lease[l] \in Row
    BY RegisteredRows DEF Matching, Registered
  <2> QED BY <2>1 DEF ColumnKey, Row
<1>5. key \in [S -> Nat \union {Null}] /\ \A l \in S : key[l] = ColumnKey(q, l)
  BY <1>3, <1>4
<1>6. \A l, m \in S : <<l, m>> \in OrderOf(s) =>
        key[m] = Null \/ (key[l] # Null /\ key[l] <= key[m])
  <2> SUFFICES ASSUME NEW l \in S, NEW m \in S, <<l, m>> \in OrderOf(s)
               PROVE  key[m] = Null \/ (key[l] # Null /\ key[l] <= key[m])
    OBVIOUS
  <2>1. PICK i, j \in DOMAIN s : i < j /\ s[i] = l /\ s[j] = m
    BY DEF OrderOf
  <2>2. ColumnKey(q, m) = Null \/ (ColumnKey(q, l) # Null /\ ColumnKey(q, l) <= ColumnKey(q, m))
    BY <1>1, <2>1 DEF Ordered
  <2> QED BY <1>5, <2>2
<1> HIDE DEF key
<1>7. /\ X.stage = "score" /\ X.query = q /\ X.ids = S /\ X.order = OrderOf(s) /\ X.keys = key
  BY <1>3
<1>8. reading' = [reading EXCEPT ![r] = X]
  BY <1>1 DEF key
<1> HIDE DEF X, S
<1>9. ReadingOK(X)
  BY <1>2, <1>3, <1>5, <1>7 DEF ReadingOK
<1>10. Coherent(X)
  BY <1>3, <1>7 DEF Coherent
<1>11. Fresh(X)
  BY <1>5, <1>6, <1>7 DEF Fresh, KeysInOrder, S
<1>12. UNCHANGED <<lease, score>> /\ still' = still \union {r}
  BY DEF ListIds
<1> QED BY <1>8, <1>9, <1>10, <1>11, <1>12, ReadStep

\* The sort the listing asks for puts before a lease every one that precedes it.
LEMMA PrecedesSorted ==
    ASSUME RowsInv, NEW q \in Query, NEW R, Fresh(R), Coherent(R), R.stage = "score", R.query = q,
           NEW kept \in SUBSET R.ids, NEW scores,
           \A l \in kept : scores[l] = score[l] /\ score[l] \in 0..100,
           NEW l \in kept, NEW m \in kept, Precedes(q, l, m)
    PROVE  <<l, m>> \in Sorted(q, kept, R.order, R.keys, scores)
<1>1. q \in Listing
  BY RegisterConstantsOK
<1>2. q.sort \in {"number", "until", "score"} /\ q.descending \in BOOLEAN
  BY <1>1 DEF Listing
<1>3. l \in Registered /\ m \in Registered /\ l \in R.ids /\ m \in R.ids
  BY DEF Fresh, Matching
<1>4. lease[l] \in Row /\ lease[m] \in Row
  BY <1>3, RegisteredRows DEF RowsInv, Registered
<1>5. /\ lease[l].number \in Nat /\ lease[l].until \in Nat \union {Null}
      /\ lease[m].number \in Nat /\ lease[m].until \in Nat \union {Null}
      /\ Null \notin Nat
  BY <1>4, RegisterConstantsOK DEF Row
<1>6. R.keys[l] = ColumnKey(q, l) /\ R.keys[m] = ColumnKey(q, m)
  BY <1>3 DEF Fresh
<1>7. <<l, m>> \in kept \X kept
  OBVIOUS
<1>8. CASE q.sort = "number"
  BY <1>5, <1>6, <1>7, <1>8 DEF Precedes, Sorted, StableSort, ColumnKey
<1>9. CASE q.sort = "until"
  BY <1>5, <1>6, <1>7, <1>9 DEF Precedes, Sorted, StableSort, ColumnKey
<1>10. CASE q.sort = "score"
  <2>1. /\ scores[l] = score[l] /\ scores[m] = score[m] /\ score[l] \in 0..100 /\ score[m] \in 0..100
        /\ scores[l] # Null /\ scores[m] # Null
    BY <1>5
  <2>2. score[l] = score[m] /\ lease[l].number < lease[m].number => <<l, m>> \in R.order
    <3> SUFFICES ASSUME lease[l].number < lease[m].number PROVE <<l, m>> \in R.order
      OBVIOUS
    <3>1. R.keys[l] = lease[l].number /\ R.keys[m] = lease[m].number
      BY <1>6, <1>10 DEF ColumnKey
    <3>2. <<m, l>> \notin R.order
      BY <1>3, <1>5, <3>1 DEF Fresh, KeysInOrder
    <3>3. l # m
      BY <1>5
    <3> QED BY <1>3, <3>2, <3>3 DEF Coherent, StrictOrder
  <2>3. Sorted(q, kept, R.order, R.keys, scores) = StableSort(kept, R.order, scores, q.descending)
    BY <1>10 DEF Sorted
  <2>4. \/ IF q.descending THEN score[l] > score[m] ELSE score[l] < score[m]
        \/ score[l] = score[m] /\ <<l, m>> \in R.order
    BY <1>10, <2>2 DEF Precedes
  <2> QED BY <1>7, <2>1, <2>3, <2>4 DEF StableSort
<1> QED BY <1>2, <1>8, <1>9, <1>10

LEMMA ListScoreReads ==
    ASSUME RowsInv, ReadInv, NEW r \in Reader, ListScore(r)
    PROVE  ReadInv'
<1> DEFINE R == reading[r]
           q == R.query
           scores == [l \in R.ids |-> score[l]]
           kept == {l \in R.ids : Asked(q.bands, scores[l])}
           order == Sorted(q, kept, R.order, R.keys, scores)
           page == Page(q, kept, order)
           part == order \intersect (page \X page)
           shown == [l \in page |-> scores[l]]
           X == [stage |-> "page", query |-> q, total |-> Cardinality(kept),
                 page |-> page, order |-> part, scores |-> shown]
<1>1. /\ R.stage = "score" /\ reading' = [reading EXCEPT ![r] = X]
      /\ UNCHANGED <<lease, score, still>>
  BY DEF ListScore
<1>2. /\ q \in Query /\ R.ids \subseteq Lease
      /\ R.keys \in [R.ids -> Nat \union {Null}] /\ StrictOrder(R.ids, R.order)
  BY <1>1, ReadingKinds DEF ReadInv, Coherent
<1>3. q \in Listing
  BY <1>2, RegisterConstantsOK
<1>4. q.offset \in Nat /\ q.limit \in Nat \ {0}
  BY <1>3 DEF Listing
<1>5. /\ kept \in SUBSET R.ids /\ IsFiniteSet(kept)
      /\ \A l \in kept : scores[l] = score[l] /\ score[l] \in Score /\ score[l] \in 0..100
                         /\ Asked(q.bands, score[l])
  <2>1. \A l \in R.ids : scores[l] = score[l] /\ score[l] \in Score /\ score[l] \in 0..100
    BY <1>2, RegisterConstantsOK DEF ReadInv
  <2>2. kept \in SUBSET R.ids /\ kept \in SUBSET Lease
    BY <1>2
  <2>3. IsFiniteSet(kept)
    BY <2>2, RegisterConstantsOK, FS_Subset
  <2> QED BY <2>1, <2>2, <2>3
<1> HIDE DEF scores, kept
<1>6. StrictOrder(kept, order)
  <2> DEFINE key == IF q.sort = "score" THEN scores ELSE R.keys
  <2>1. Null \notin Nat
    BY RegisterConstantsOK
  <2>2. \A l \in kept : key[l] \in Nat \union {Null}
    <3>1. \A l \in kept : scores[l] \in Nat
      BY <1>5
    <3>2. \A l \in kept : R.keys[l] \in Nat \union {Null}
      BY <1>2, <1>5
    <3> QED BY <3>1, <3>2
  <2>3. order = StableSort(kept, R.order, key, q.descending)
    BY DEF Sorted
  <2> HIDE DEF key, order
  <2>4. StrictOrder(kept, StableSort(kept, R.order, key, q.descending))
    BY <1>2, <1>5, <2>1, <2>2, SortOrders
  <2> QED BY <2>3, <2>4
<1> HIDE DEF order
<1>7. /\ page \subseteq kept
      /\ Cardinality(page) = PageOf(Cardinality(kept), q)
      /\ PageOf(Cardinality(kept), q) <= Cardinality(kept)
      /\ PageOf(Cardinality(kept), q) <= q.limit
      /\ StrictOrder(page, part)
      /\ \A l \in page : Before(kept, order, l) = q.offset + Before(page, part, l)
  <2>1. IsFiniteSet(kept)
    BY <1>5
  <2> HIDE DEF R, q
  <2> QED BY <1>4, <1>6, <2>1, PagePlaces
<1>8. Cardinality(kept) \in Nat
  BY <1>5, FS_CardinalityType
<1>9. Cardinality(page) <= q.limit /\ Cardinality(page) <= Cardinality(kept)
  BY <1>7
<1>10. \A l \in page : shown[l] = score[l] /\ score[l] \in Score /\ Asked(q.bands, score[l])
  BY <1>5, <1>7
<1>11. shown \in [page -> Score]
  BY <1>10
<1> HIDE DEF page
<1>12. /\ X.stage = "page" /\ X.query = q /\ X.total = Cardinality(kept) /\ X.page = page
       /\ X.order = part /\ X.scores = shown
  OBVIOUS
<1>13. part \subseteq page \X page
  OBVIOUS
<1> HIDE DEF X, part, shown
<1>14. ReadingOK(X)
  BY <1>2, <1>5, <1>7, <1>8, <1>11, <1>12, <1>13 DEF ReadingOK
<1>15. Coherent(X)
  BY <1>7, <1>9, <1>10, <1>12 DEF Coherent
<1>16. ASSUME r \in still PROVE Fresh(X)
  <2>1. Fresh(R)
    BY <1>16 DEF ReadInv
  <2>2. R.ids = Matching(q.places)
    BY <1>1, <2>1 DEF Fresh
  <2>3. kept = Qualifying(q)
    BY <1>5, <2>2 DEF Qualifying, kept, scores
  <2>4. \A l, m \in kept : Precedes(q, l, m) => <<l, m>> \in order
    <3>1. Coherent(R)
      BY DEF ReadInv
    <3>2. \A l \in kept : scores[l] = score[l] /\ score[l] \in 0..100
      BY <1>5
    <3> HIDE DEF R
    <3>3. \A l, m \in kept : Precedes(q, l, m) => <<l, m>> \in Sorted(q, kept, R.order, R.keys, scores)
      BY <1>1, <1>2, <1>5, <2>1, <3>1, <3>2, PrecedesSorted
    <3> QED BY <3>3 DEF order
  <2>5. ASSUME NEW l \in page PROVE Placed(q, l, q.offset + Before(page, part, l))
    <3> DEFINE ahead == {m \in kept : Precedes(q, m, l)}
               behind == {m \in kept : Precedes(q, l, m)}
               before == {m \in kept : <<m, l>> \in order}
               after == {m \in kept : <<l, m>> \in order}
    <3>1. l \in kept
      BY <1>7
    <3>2. IsFiniteSet(before) /\ IsFiniteSet(after)
      <4>1. before \in SUBSET kept /\ after \in SUBSET kept
        OBVIOUS
      <4> QED BY <1>5, <4>1, FS_Subset
    <3>3. ahead \in SUBSET before /\ behind \in SUBSET after
      BY <2>4, <3>1
    <3>4. Cardinality(ahead) <= Cardinality(before) /\ Cardinality(behind) <= Cardinality(after)
      BY <3>2, <3>3, FS_Subset
    <3>5. Cardinality(before) = q.offset + Before(page, part, l)
      BY <1>7 DEF Before
    <3>6. Cardinality(after) = Cardinality(kept) - 1 - Before(kept, order, l)
      BY <1>5, <1>6, <3>1, AfterSize
    <3>7. Before(kept, order, l) = q.offset + Before(page, part, l)
      BY <1>7
    <3> QED BY <2>3, <3>1, <3>4, <3>5, <3>6, <3>7 DEF Placed
  <2>6. Cardinality(page) = PageSize(q)
    BY <1>7, <2>3 DEF PageSize
  <2> QED BY <1>12, <2>3, <2>5, <2>6 DEF Fresh
<1> QED BY <1>1, <1>14, <1>15, <1>16, ReadStep

LEMMA ListPageReads ==
    ASSUME ReadInv, NEW r \in Reader, ListPage(r)
    PROVE  ReadInv'
<1> DEFINE R == reading[r]
           q == R.query
           T == R.page \intersect Registered
           rows == InOrder(T, R.order)
           items == [i \in DOMAIN rows |-> [lease |-> rows[i], score |-> R.scores[rows[i]]]]
           X == [stage |-> "listed", query |-> q, total |-> R.total, items |-> items]
           n == Cardinality(T)
<1>1. /\ R.stage = "page" /\ reading' = [reading EXCEPT ![r] = X]
      /\ UNCHANGED <<lease, score, still>>
  BY DEF ListPage
<1>2. /\ q \in Query /\ R.page \subseteq Lease /\ R.total \in Nat
      /\ R.scores \in [R.page -> Score] /\ StrictOrder(R.page, R.order)
      /\ Cardinality(R.page) <= q.limit /\ Cardinality(R.page) <= R.total
      /\ \A l \in R.page : Asked(q.bands, R.scores[l])
  BY <1>1, ReadingKinds DEF ReadInv, Coherent
<1>3. q.limit \in Nat
  BY <1>2, RegisterConstantsOK DEF Listing
<1>4. IsFiniteSet(R.page) /\ Cardinality(R.page) \in Nat
  <2>1. R.page \in SUBSET Lease
    BY <1>2
  <2> QED BY <2>1, RegisterConstantsOK, FS_Subset, FS_CardinalityType
<1>5. T \in SUBSET R.page /\ IsFiniteSet(T) /\ n <= Cardinality(R.page)
  <2>1. T \in SUBSET R.page
    OBVIOUS
  <2> QED BY <1>4, <2>1, FS_Subset
<1>6. StrictOrder(T, R.order)
  BY <1>2, <1>5, PartOrdered
<1> HIDE DEF T
<1>7. /\ n \in Nat /\ rows \in [1..n -> T]
      /\ \A i \in 1..n : Before(T, R.order, rows[i]) = i - 1
  BY <1>5, <1>6, InOrderPlaces
<1> HIDE DEF rows
<1>8. DOMAIN rows = 1..n /\ \A i \in 1..n : rows[i] \in T
  BY <1>7
<1>9. /\ \A i \in 1..n : /\ items[i].lease = rows[i] /\ items[i].score = R.scores[rows[i]]
                         /\ items[i] \in [lease : Lease, score : Score]
      /\ DOMAIN items = 1..n
  <2>1. \A i \in 1..n : rows[i] \in Lease /\ R.scores[rows[i]] \in Score
    BY <1>2, <1>5, <1>8
  <2> QED BY <1>8, <2>1
<1>10. items \in Seq([lease : Lease, score : Score]) /\ Len(items) = n
  <2> DEFINE Item == [lease : Lease, score : Score]
  <2>1. items \in [1..n -> Item]
    BY <1>8, <1>9
  <2>2. n \in Nat
    BY <1>7
  <2> HIDE DEF items, n, Item
  <2>3. items \in Seq(Item) /\ Len(items) = n
    BY <2>1, <2>2
  <2> QED BY <2>3 DEF Item
<1> HIDE DEF items, n
<1>11. X.stage = "listed" /\ X.query = q /\ X.total = R.total /\ X.items = items
  OBVIOUS
<1> HIDE DEF X
<1>12. ReadingOK(X)
  BY <1>2, <1>10, <1>11 DEF ReadingOK
<1>13. \A i, j \in 1..n : items[i].lease = items[j].lease => i = j
  <2> SUFFICES ASSUME NEW i \in 1..n, NEW j \in 1..n, rows[i] = rows[j] PROVE i = j
    BY <1>9
  <2>1. i - 1 = j - 1
    BY <1>7
  <2>2. i \in Int /\ j \in Int
    OBVIOUS
  <2> QED BY <2>1, <2>2
<1>14. \A i \in 1..n : Asked(q.bands, items[i].score)
  BY <1>2, <1>5, <1>8, <1>9
<1>15. n <= q.limit /\ n <= R.total
  BY <1>2, <1>3, <1>4, <1>5, <1>7
<1>16. Coherent(X)
  BY <1>10, <1>11, <1>13, <1>14, <1>15 DEF Coherent
<1>17. ASSUME r \in still PROVE Fresh(X)
  <2>1. /\ R.total = Cardinality(Qualifying(q)) /\ Cardinality(R.page) = PageSize(q)
        /\ \A l \in R.page : Placed(q, l, q.offset + Before(R.page, R.order, l))
    BY <1>1, <1>17 DEF ReadInv, Fresh
  <2>2. T = R.page
    <3>1. \A l \in R.page : l \in Registered
      BY <2>1 DEF Placed, Qualifying, Matching
    <3> QED BY <3>1 DEF T
  <2>3. \A i \in 1..n : Placed(q, items[i].lease, q.offset + i - 1)
    <3> SUFFICES ASSUME NEW i \in 1..n PROVE Placed(q, items[i].lease, q.offset + i - 1)
      OBVIOUS
    <3>1. rows[i] \in R.page /\ Before(R.page, R.order, rows[i]) = i - 1
      BY <1>7, <1>8, <2>2
    <3>2. Placed(q, rows[i], q.offset + (i - 1))
      BY <2>1, <3>1
    <3>3. q.offset + (i - 1) = q.offset + i - 1
      <4>1. q.offset \in Nat
        BY <1>2, RegisterConstantsOK DEF Listing
      <4> QED BY <1>7, <4>1
    <3> QED BY <1>9, <3>2, <3>3
  <2>4. n = PageSize(q)
    BY <2>1, <2>2 DEF n
  <2> QED BY <1>10, <1>11, <2>1, <2>3, <2>4 DEF Fresh
<1> QED BY <1>1, <1>12, <1>16, <1>17, ReadStep

LEMMA MapReadReads ==
    ASSUME ReadInv, NEW r \in Reader, NEW m \in Chart, MapRead(r, m)
    PROVE  ReadInv'
<1> DEFINE all == Matching(m.places)
<1>1. PICK S \in SUBSET all :
        /\ Cardinality(S) = IF Cardinality(all) < m.limit THEN Cardinality(all) ELSE m.limit
        /\ reading' = [reading EXCEPT ![r] =
                        [stage |-> "draw", query |-> m, found |-> S,
                         drawn |-> {l \in S : lease[l].drawn}]]
  BY DEF MapRead
<1> DEFINE drawn == {l \in S : lease[l].drawn}
           X == [stage |-> "draw", query |-> m, found |-> S, drawn |-> drawn]
<1>2. all \in SUBSET Lease /\ IsFiniteSet(all)
  <2>1. all \in SUBSET Lease
    BY DEF Matching, Registered
  <2> QED BY <2>1, RegisterConstantsOK, FS_Subset
<1>3. Cardinality(all) <= m.limit => S = all
  <2>1. Cardinality(all) \in Nat /\ m.limit \in Nat
    BY <1>2, RegisterConstantsOK, FS_CardinalityType DEF Map
  <2>2. Cardinality(all) <= m.limit => Cardinality(S) = Cardinality(all)
    BY <1>1, <2>1
  <2> HIDE DEF all
  <2>3. Cardinality(S) = Cardinality(all) => S = all
    BY <1>2, FS_Subset
  <2> QED BY <2>2, <2>3
<1>4. X.stage = "draw" /\ X.query = m /\ X.found = S /\ X.drawn = drawn
  OBVIOUS
<1>5. reading' = [reading EXCEPT ![r] = X]
  BY <1>1
<1>6. S \subseteq Lease /\ drawn \subseteq S
  BY <1>2
<1> HIDE DEF X
<1>7. ReadingOK(X) /\ Coherent(X)
  BY <1>4, <1>6 DEF ReadingOK, Coherent
<1>8. Fresh(X)
  BY <1>3, <1>4 DEF Fresh
<1>9. UNCHANGED <<lease, score>> /\ still' = still \union {r}
  BY DEF MapRead
<1> QED BY <1>5, <1>7, <1>8, <1>9, ReadStep

LEMMA MapScoreReads ==
    ASSUME ReadInv, NEW r \in Reader, MapScore(r)
    PROVE  ReadInv'
<1> DEFINE R == reading[r]
           features == {l \in R.drawn : Asked(R.query.bands, score[l])}
           X == [stage |-> "drawn", query |-> R.query, features |-> features]
<1>1. /\ R.stage = "draw" /\ reading' = [reading EXCEPT ![r] = X]
      /\ UNCHANGED <<lease, score, still>>
  BY DEF MapScore
<1>2. R.query \in Chart /\ R.found \subseteq Lease /\ R.drawn \subseteq R.found
  BY <1>1, ReadingKinds DEF ReadInv
<1>3. X.stage = "drawn" /\ X.query = R.query /\ X.features = features
  OBVIOUS
<1>4. features \subseteq Lease
  BY <1>2
<1> HIDE DEF X
<1>5. ReadingOK(X) /\ Coherent(X)
  BY <1>2, <1>3, <1>4 DEF ReadingOK, Coherent
<1>6. ASSUME r \in still PROVE Fresh(X)
  <2>1. /\ Cardinality(Matching(R.query.places)) <= R.query.limit
             => R.found = Matching(R.query.places)
        /\ R.drawn = {l \in R.found : lease[l].drawn}
    BY <1>1, <1>6 DEF ReadInv, Fresh
  <2> QED BY <1>3, <2>1 DEF Fresh, Qualifying
<1> QED BY <1>1, <1>5, <1>6, ReadStep

LEMMA LeaveReads ==
    ASSUME ReadInv, NEW r \in Reader, Leave(r)
    PROVE  ReadInv'
<1>1. ReadingOK(Idle) /\ Coherent(Idle)
  BY DEF ReadingOK, Coherent, Idle
<1>2. /\ reading' = [reading EXCEPT ![r] = Idle] /\ still' = still \ {r}
      /\ UNCHANGED <<lease, score>>
  BY DEF Leave
<1>3. still' \subseteq still \union {r} /\ r \notin still'
  BY <1>2
<1> HIDE DEF Idle
<1> QED BY <1>1, <1>2, <1>3, ReadStep

\* A step that writes: what was gathered is no longer of one moment.
LEMMA WriteReads ==
    ASSUME ReadInv, still' = {}, score' \in [Lease -> Score], UNCHANGED reading
    PROVE  ReadInv'
BY DEF ReadInv

\* A step of something else.
LEMMA OtherReads ==
    ASSUME ReadInv, UNCHANGED <<lease, score, reading, still>>
    PROVE  ReadInv'
<1>1. \A r \in still : \A R : R = reading[r] => Fresh(R)'
  BY FreshKept DEF ReadInv
<1> QED BY <1>1 DEF ReadInv

\* What an unchanged register was asked is what it answered.
LEMMA AnswersRight ==
    ASSUME ReadInv
    PROVE  AnswersHold /\ ListingCoherent
<1>1. PageIsSlice
  <2> SUFFICES ASSUME NEW r \in still, reading[r].stage = "listed"
               PROVE  LET R == reading[r]
                          q == R.query
                          all == Qualifying(q)
                          left == IF Cardinality(all) > q.offset
                                  THEN Cardinality(all) - q.offset ELSE 0
                      IN  /\ R.total = Cardinality(all)
                          /\ Len(R.items) = IF left < q.limit THEN left ELSE q.limit
                          /\ \A i \in 1..Len(R.items) :
                               Placed(q, R.items[i].lease, q.offset + i - 1)
    BY DEF PageIsSlice, Placed
  <2>1. Fresh(reading[r])
    BY DEF ReadInv
  <2> QED BY <2>1 DEF Fresh, PageSize, PageOf
<1>2. MapWhole
  BY DEF ReadInv, Fresh, MapWhole
<1>3. ListingCoherent
  BY DEF ReadInv, Coherent, ListingCoherent
<1> QED BY <1>1, <1>2, <1>3 DEF AnswersHold

(***************************************************************************)
(* Documents.                                                              *)
(***************************************************************************)

Saving == [stage : {"save"}, lease : Lease]
Inserting == [stage : {"insert"}, lease : Lease, doc : Doc, ref : Ref]
Created == [stage : {"created"}, lease : Lease, doc : Doc]
Reviewing == [stage : {"review"}, doc : Doc, patch : Patch, read : DocRow]
RequestState == {Idle} \union Saving \union Inserting \union Created \union Reviewing

DocsTyped ==
    /\ doc \in [Doc -> DocRow \union {New, Gone}]
    /\ stored \in [Storage -> SUBSET Doc]
    /\ storage \in Storage
    /\ request \in [Client -> RequestState]

\* Where a reference says the file is.
Home(ref) == IF ref = "key" THEN "bucket" ELSE "disk"

\* A file that waits for its row.
Waiting ==
    /\ \A c \in Client :
        request[c].stage = "insert" =>
            /\ doc[request[c].doc] = New
            /\ request[c].doc \in stored[Home(request[c].ref)]
    /\ \A c, b \in Client :
        request[c].stage = "insert" /\ request[b].stage = "insert"
            /\ request[c].doc = request[b].doc => c = b

\* An answered upload has its row, of its lease, until that is deleted.
Answered ==
    \A c \in Client :
        request[c].stage = "created" =>
            \/ request[c].doc \in Filed /\ doc[request[c].doc].lease = request[c].lease
            \/ lease[request[c].lease] = Gone

Backed == \A d \in Filed : d \in stored[Home(doc[d].ref)]

DocsInv == DocsTyped /\ DocumentsBelong /\ Waiting /\ Answered /\ Backed

IInv == RowsInv /\ DocsInv

LEMMA RequestKinds ==
    ASSUME DocsTyped, NEW c \in Client
    PROVE  /\ request[c].stage = "save" => request[c] \in Saving
           /\ request[c].stage = "insert" => request[c] \in Inserting
           /\ request[c].stage = "created" => request[c] \in Created
           /\ request[c].stage = "review" => request[c] \in Reviewing
<1>1. request[c] \in RequestState
  BY DEF DocsTyped
<1>2. Idle.stage = "idle"
  BY DEF Idle
<1> QED BY <1>1, <1>2 DEF RequestState, Saving, Inserting, Created, Reviewing

LEMMA FiledRows ==
    ASSUME DocsTyped
    PROVE  \A d \in Doc : d \in Filed <=> doc[d] \in DocRow
BY UploadConstantsOK DEF DocsTyped, Filed

\* A step of the register that deletes no lease disturbs no document.
LEMMA DocsUnchanged ==
    ASSUME DocsInv, LeasesKept, UNCHANGED <<doc, stored, storage, request>>
    PROVE  DocsInv'
<1>1. DocsTyped' /\ Waiting' /\ Backed'
  BY DEF DocsInv, DocsTyped, Waiting, Backed, Filed
<1>2. DocumentsBelong'
  BY DEF DocsInv, DocumentsBelong, LeasesKept, Filed
<1>3. Answered'
  <2> SUFFICES ASSUME NEW c \in Client, request'[c].stage = "created"
               PROVE  \/ request'[c].doc \in Filed' /\ doc'[request'[c].doc].lease = request'[c].lease
                      \/ lease'[request'[c].lease] = Gone
    BY DEF Answered
  <2>1. request[c].lease \in Lease
    BY RequestKinds DEF DocsInv, Created
  <2> QED BY <2>1 DEF DocsInv, Answered, LeasesKept, Filed
<1> QED BY <1>1, <1>2, <1>3 DEF DocsInv

\* A request moves on to a stage that says nothing about files and rows.
LEMMA RequestMoves ==
    ASSUME DocsInv, NEW c \in Client, NEW s \in RequestState,
           s.stage \notin {"insert", "created"},
           request' = [request EXCEPT ![c] = s], UNCHANGED <<lease, doc, stored, storage>>
    PROVE  DocsInv'
<1>1. request' \in [Client -> RequestState]
  BY DEF DocsInv, DocsTyped
<1>2. \A b \in Client : request'[b] = IF b = c THEN s ELSE request[b]
  BY DEF DocsInv, DocsTyped
<1>3. DocsTyped' /\ DocumentsBelong' /\ Backed'
  BY <1>1 DEF DocsInv, DocsTyped, DocumentsBelong, Backed, Filed, Registered
<1>4. Waiting'
  BY <1>2 DEF DocsInv, Waiting
<1>5. Answered'
  BY <1>2 DEF DocsInv, Answered, Filed
<1> QED BY <1>3, <1>4, <1>5 DEF DocsInv

LEMMA UploadCheckDocs ==
    ASSUME DocsInv, NEW c \in Client, NEW l \in Lease, UploadCheck(c, l)
    PROVE  DocsInv'
<1> DEFINE s == [stage |-> "save", lease |-> l]
<1>1. s \in RequestState /\ s.stage = "save"
  BY DEF RequestState, Saving
<1>2. request' = [request EXCEPT ![c] = s] /\ UNCHANGED <<lease, doc, stored, storage>>
  BY DEF UploadCheck, registerVars
<1> HIDE DEF s
<1> QED BY <1>1, <1>2, RequestMoves

LEMMA RequestEndsDocs ==
    ASSUME DocsInv, NEW c \in Client, RequestEnds(c)
    PROVE  DocsInv'
<1>1. Idle \in RequestState /\ Idle.stage = "idle"
  BY DEF RequestState, Idle
<1>2. request' = [request EXCEPT ![c] = Idle] /\ UNCHANGED <<lease, doc, stored, storage>>
  BY DEF RequestEnds, registerVars
<1> QED BY <1>1, <1>2, RequestMoves

LEMMA ReviewReadDocs ==
    ASSUME DocsInv, NEW c \in Client, NEW d \in Doc, ReviewRead(c, d)
    PROVE  DocsInv'
<1>1. PICK p \in Patches :
        request' = [request EXCEPT ![c] = [stage |-> "review", doc |-> d,
                                           patch |-> p, read |-> doc[d]]]
  BY DEF ReviewRead
<1> DEFINE s == [stage |-> "review", doc |-> d, patch |-> p, read |-> doc[d]]
<1>2. doc[d] \in DocRow /\ p \in Patch
  BY FiledRows, UploadConstantsOK DEF ReviewRead, DocsInv
<1>3. s \in RequestState /\ s.stage = "review"
  BY <1>2 DEF RequestState, Reviewing
<1>4. UNCHANGED <<lease, doc, stored, storage>>
  BY DEF ReviewRead, registerVars
<1> HIDE DEF s
<1>5. request' = [request EXCEPT ![c] = s]
  BY <1>1 DEF s
<1> QED BY <1>3, <1>4, <1>5, RequestMoves

LEMMA SaveUploadDocs ==
    ASSUME DocsInv, NEW c \in Client, NEW d \in Doc, SaveUpload(c, d)
    PROVE  DocsInv'
<1>1. PICK ref \in SavedRefs :
        request' = [request EXCEPT ![c] = [stage |-> "insert", lease |-> request[c].lease,
                                           doc |-> d, ref |-> ref]]
  BY DEF SaveUpload
<1>2. /\ request[c].stage = "save"
      /\ doc[d] = New /\ \A s \in Storage : d \notin stored[s]
      /\ stored' = [stored EXCEPT ![storage] = @ \union {d}]
      /\ UNCHANGED <<lease, doc, storage>>
  BY DEF SaveUpload, registerVars
<1> DEFINE s == [stage |-> "insert", lease |-> request[c].lease, doc |-> d, ref |-> ref]
<1>3. ref \in Ref /\ Home(ref) = storage
  BY UploadConstantsOK DEF SavedRefs, Ref, Home, DocsInv, DocsTyped, Storage
<1>4. request[c].lease \in Lease
  BY <1>2, RequestKinds DEF DocsInv, Saving
<1>5. s \in RequestState /\ s.stage = "insert" /\ s.doc = d /\ s.ref = ref
  BY <1>3, <1>4 DEF RequestState, Inserting
<1> HIDE DEF s
<1>6. \A b \in Client : request'[b] = IF b = c THEN s ELSE request[b]
  BY <1>1 DEF s, DocsInv, DocsTyped
<1>7. stored' \in [Storage -> SUBSET Doc] /\ \A t \in Storage : stored[t] \subseteq stored'[t]
  BY <1>2 DEF DocsInv, DocsTyped
<1>8. d \in stored'[Home(ref)]
  BY <1>2, <1>3 DEF DocsInv, DocsTyped
<1>9. DocsTyped'
  BY <1>1, <1>2, <1>5, <1>7 DEF DocsInv, DocsTyped, s
<1>10. \A r : Home(r) \in Storage
  BY DEF Home, Storage
<1>11. DocumentsBelong' /\ Backed'
  BY <1>2, <1>7, <1>10 DEF DocsInv, DocumentsBelong, Backed, Filed, Registered
<1>12. Waiting'
  <2>1. \A b \in Client : request[b].stage = "insert" => request[b].doc # d
    BY <1>2, <1>10 DEF DocsInv, Waiting
  <2>2. \A b \in Client :
          request'[b].stage = "insert" =>
            /\ doc'[request'[b].doc] = New
            /\ request'[b].doc \in stored'[Home(request'[b].ref)]
    BY <1>2, <1>5, <1>6, <1>7, <1>8, <1>10 DEF DocsInv, Waiting
  <2>3. \A a, b \in Client :
          request'[a].stage = "insert" /\ request'[b].stage = "insert"
            /\ request'[a].doc = request'[b].doc => a = b
    BY <1>5, <1>6, <2>1 DEF DocsInv, Waiting
  <2> QED BY <2>2, <2>3 DEF Waiting
<1>13. Answered'
  BY <1>2, <1>5, <1>6 DEF DocsInv, Answered, Filed
<1> QED BY <1>9, <1>11, <1>12, <1>13 DEF DocsInv

LEMMA InsertRowDocs ==
    ASSUME DocsInv, NEW c \in Client, InsertRow(c)
    PROVE  DocsInv'
<1> DEFINE R == request[c]
<1>1. PICK n \in Note :
        doc' = [doc EXCEPT ![R.doc] = [lease |-> R.lease, ref |-> R.ref,
                                       status |-> "pending_review", notes |-> n]]
  BY DEF InsertRow
<1>2. /\ R.stage = "insert" /\ R.lease \in Registered
      /\ request' = [request EXCEPT ![c] =
                       [stage |-> "created", lease |-> R.lease, doc |-> R.doc]]
      /\ UNCHANGED <<lease, stored, storage>>
  BY DEF InsertRow, registerVars
<1>3. R.lease \in Lease /\ R.doc \in Doc /\ R.ref \in Ref
  BY <1>2, RequestKinds DEF DocsInv, Inserting
<1> DEFINE s == [stage |-> "created", lease |-> R.lease, doc |-> R.doc]
           row == [lease |-> R.lease, ref |-> R.ref, status |-> "pending_review", notes |-> n]
<1>4. s \in RequestState /\ s.stage = "created" /\ s.lease = R.lease /\ s.doc = R.doc
  BY <1>3 DEF RequestState, Created
<1>5. row \in DocRow /\ row.lease = R.lease /\ row.ref = R.ref
  BY <1>3 DEF DocRow, Review
<1>6. doc' = [doc EXCEPT ![R.doc] = row] /\ request' = [request EXCEPT ![c] = s]
  BY <1>1, <1>2
<1> HIDE DEF s, row
<1>7. /\ \A b \in Client : request'[b] = IF b = c THEN s ELSE request[b]
      /\ \A d \in Doc : doc'[d] = IF d = R.doc THEN row ELSE doc[d]
  BY <1>6 DEF DocsInv, DocsTyped
<1>8. DocsTyped'
  BY <1>2, <1>4, <1>5, <1>6 DEF DocsInv, DocsTyped
<1>9. Filed' = Filed \union {R.doc}
  BY <1>3, <1>5, <1>7, UploadConstantsOK DEF Filed
<1>10. Registered' = Registered
  BY <1>2 DEF Registered
<1>11. DocumentsBelong'
  BY <1>2, <1>5, <1>7, <1>9, <1>10 DEF DocsInv, DocumentsBelong, Filed
<1>12. Backed'
  BY <1>2, <1>5, <1>7, <1>9 DEF DocsInv, Backed, Filed, Waiting
<1>13. Waiting'
  <2>1. \A b \in Client \ {c} : request[b].stage = "insert" =>
          request[b].doc # R.doc /\ request[b].doc \in Doc
    BY <1>2, RequestKinds DEF DocsInv, Waiting, Inserting
  <2> QED BY <1>2, <1>4, <1>7, <2>1 DEF DocsInv, Waiting
<1>14. Answered'
  <2> SUFFICES ASSUME NEW b \in Client, request'[b].stage = "created"
               PROVE  \/ request'[b].doc \in Filed' /\ doc'[request'[b].doc].lease = request'[b].lease
                      \/ lease'[request'[b].lease] = Gone
    BY DEF Answered
  <2>1. CASE b = c
    BY <1>3, <1>4, <1>5, <1>7, <1>9, <2>1
  <2>2. CASE b # c
    <3>1. request'[b] = request[b] /\ request[b].doc \in Doc
      BY <1>7, <2>2, RequestKinds DEF DocsInv, Created
    <3>2. doc[R.doc] = New
      BY <1>2 DEF DocsInv, Waiting
    <3>3. R.doc \notin Filed
      BY <3>2 DEF Filed
    <3> QED BY <1>2, <1>7, <1>9, <3>1, <3>3 DEF DocsInv, Answered
  <2> QED BY <2>1, <2>2
<1> QED BY <1>8, <1>11, <1>12, <1>13, <1>14 DEF DocsInv

\* What a review writes is a row of the same lease, for the same file.
LEMMA ReviewedIsRow ==
    ASSUME NEW now \in DocRow, NEW read \in DocRow, NEW p \in Patch
    PROVE  /\ Reviewed(now, read, p) \in DocRow
           /\ Reviewed(now, read, p).lease = now.lease
           /\ Reviewed(now, read, p).ref = now.ref
<1> DEFINE field(f) == IF p[f] # Null /\ p[f] # read[f] THEN p[f] ELSE now[f]
           row == [now EXCEPT !.status = field("status"), !.notes = field("notes")]
<1>1. Reviewed(now, read, p) = row
  BY DEF Reviewed
<1>2. now.lease \in Lease /\ now.ref \in Ref /\ now.status \in Review /\ now.notes \in Note
  BY DEF DocRow
<1>3. p.status \in Review \union {Null} /\ p.notes \in Note \union {Null}
  BY DEF Patch
<1>4. field("status") \in Review /\ field("notes") \in Note
  BY <1>2, <1>3
<1> HIDE DEF field
<1>5. row \in DocRow /\ row.lease = now.lease /\ row.ref = now.ref
  BY <1>2, <1>4 DEF DocRow
<1> QED BY <1>1, <1>5

LEMMA ReviewCommitDocs ==
    ASSUME DocsInv, NEW c \in Client, ReviewCommit(c)
    PROVE  DocsInv'
<1> DEFINE e == request[c].doc
           row == Reviewed(doc[e], request[c].read, request[c].patch)
<1>1. /\ request[c].stage = "review" /\ e \in Filed
      /\ doc' = [doc EXCEPT ![e] = row]
      /\ request' = [request EXCEPT ![c] = Idle]
      /\ UNCHANGED <<lease, stored, storage>>
  BY DEF ReviewCommit, registerVars
<1>2. e \in Doc /\ request[c].read \in DocRow /\ request[c].patch \in Patch
  BY <1>1, RequestKinds DEF DocsInv, Reviewing
<1>3. doc[e] \in DocRow
  BY <1>1, <1>2, FiledRows DEF DocsInv
<1>4. row \in DocRow /\ row.lease = doc[e].lease /\ row.ref = doc[e].ref
  BY <1>2, <1>3, ReviewedIsRow
<1> HIDE DEF row
<1>5. /\ \A b \in Client : request'[b] = IF b = c THEN Idle ELSE request[b]
      /\ \A d \in Doc : doc'[d] = IF d = e THEN row ELSE doc[d]
  BY <1>1 DEF DocsInv, DocsTyped
<1>6. Idle \in RequestState /\ Idle.stage = "idle"
  BY DEF RequestState, Idle
<1>7. DocsTyped'
  BY <1>1, <1>4, <1>6 DEF DocsInv, DocsTyped
<1>8. Filed' = Filed
  BY <1>1, <1>4, <1>5, UploadConstantsOK DEF Filed
<1>9. DocumentsBelong' /\ Backed'
  BY <1>1, <1>4, <1>5, <1>8 DEF DocsInv, DocumentsBelong, Backed, Filed, Registered
<1>10. Waiting'
  <2>1. \A b \in Client : request[b].stage = "insert" =>
          request[b].doc # e /\ request[b].doc \in Doc
    BY <1>1, RequestKinds DEF DocsInv, Waiting, Inserting, Filed
  <2> QED BY <1>1, <1>5, <1>6, <2>1 DEF DocsInv, Waiting
<1>11. Answered'
  <2>1. \A b \in Client : request[b].stage = "created" => request[b].doc \in Doc
    BY RequestKinds DEF DocsInv, Created
  <2> QED BY <1>1, <1>4, <1>5, <1>6, <1>8, <2>1 DEF DocsInv, Answered
<1> QED BY <1>7, <1>9, <1>10, <1>11 DEF DocsInv

\* A restart with another storage leaves files and rows where they are.
LEMMA ReconfigureIInv ==
    ASSUME IInv, NEW s \in Storage, Reconfigure(s)
    PROVE  IInv'
<1>1. /\ editing' = [w \in Writer |-> Idle] /\ request' = [c \in Client |-> Idle]
      /\ storage' = s /\ UNCHANGED <<lease, holder, doc, stored>>
  BY DEF Reconfigure
<1>2. Idle.stage = "idle" /\ Idle \in EditState /\ Idle \in RequestState
  BY DEF Idle, EditState, RequestState
<1>3. RowsInv'
  BY <1>1, <1>2 DEF IInv, RowsInv, RowsTyped, Identified, Registered
<1>4. DocsTyped' /\ DocumentsBelong' /\ Backed'
  BY <1>1, <1>2 DEF IInv, DocsInv, DocsTyped, DocumentsBelong, Backed, Filed, Registered
<1>5. Waiting' /\ Answered'
  BY <1>1, <1>2 DEF Waiting, Answered
<1> QED BY <1>3, <1>4, <1>5 DEF IInv, DocsInv

LEMMA DeleteLeaseDocumentsDocs ==
    ASSUME IInv, NEW l \in Lease, DeleteLeaseDocuments(l)
    PROVE  IInv'
<1>1. DeleteLease(l) /\ UNCHANGED <<stored, storage, request>>
  BY DEF DeleteLeaseDocuments
<1>2. doc' = [d \in Doc |-> IF d \in Filed /\ doc[d].lease = l THEN Gone ELSE doc[d]]
  BY DEF DeleteLeaseDocuments
<1>3. /\ RowsInv'
      /\ Registered' = Registered \ {l}
      /\ lease'[l] = Gone
      /\ \A m \in Lease : lease[m] = Gone => lease'[m] = Gone
  BY <1>1, DeleteLeaseRows DEF IInv
<1>4. \A d \in Doc : doc'[d] = IF d \in Filed /\ doc[d].lease = l THEN Gone ELSE doc[d]
  BY <1>2
<1>5. Filed' = {d \in Filed : doc[d].lease # l}
  BY <1>4 DEF Filed
<1>6. DocsTyped'
  BY <1>1, <1>2 DEF IInv, DocsInv, DocsTyped
<1>7. DocumentsBelong' /\ Backed'
  <2>1. \A d \in Filed' : d \in Doc /\ d \in Filed /\ doc'[d] = doc[d] /\ doc[d].lease # l
    BY <1>4, <1>5 DEF Filed
  <2> QED BY <1>1, <1>3, <2>1 DEF IInv, DocsInv, DocumentsBelong, Backed
<1>8. Waiting'
  <2>1. \A c \in Client : request[c].stage = "insert" =>
          request[c].doc \in Doc /\ request[c].doc \notin Filed
    BY RequestKinds DEF IInv, DocsInv, Waiting, Inserting, Filed
  <2> QED BY <1>1, <1>4, <2>1 DEF IInv, DocsInv, Waiting
<1>9. Answered'
  <2> SUFFICES ASSUME NEW c \in Client, request[c].stage = "created"
               PROVE  \/ request[c].doc \in Filed' /\ doc'[request[c].doc].lease = request[c].lease
                      \/ lease'[request[c].lease] = Gone
    BY <1>1 DEF Answered
  <2>1. request[c].doc \in Doc /\ request[c].lease \in Lease
    BY RequestKinds DEF IInv, DocsInv, Created
  <2>2. \/ request[c].doc \in Filed /\ doc[request[c].doc].lease = request[c].lease
        \/ lease[request[c].lease] = Gone
    BY DEF IInv, DocsInv, Answered
  <2> QED BY <1>3, <1>4, <1>5, <2>1, <2>2
<1> QED BY <1>3, <1>6, <1>7, <1>8, <1>9 DEF IInv, DocsInv

(***************************************************************************)
(* The specification.                                                      *)
(***************************************************************************)

LEMMA IInvInit == Init => IInv
<1> SUFFICES ASSUME Init PROVE IInv
  OBVIOUS
<1>1. Idle.stage = "idle" /\ Idle \in EditState /\ Idle \in RequestState
  BY DEF Idle, EditState, RequestState
<1>2. Registered = {} /\ Filed = {}
  BY DEF Init, RegisterInit, Registered, Filed
<1>3. RowsInv
  BY <1>1, <1>2 DEF Init, RegisterInit, RowsInv, RowsTyped, Identified
<1>4. DocsTyped
  BY <1>1 DEF Init, DocsTyped, Storage
<1>5. DocumentsBelong /\ Backed /\ Waiting /\ Answered
  BY <1>1, <1>2 DEF Init, DocumentsBelong, Backed, Waiting, Answered
<1> QED BY <1>3, <1>4, <1>5 DEF IInv, DocsInv

\* A step of the register that deletes no lease.
LEMMA RegisterStep ==
    ASSUME IInv, RowsInv', LeasesKept, UNCHANGED documentVars
    PROVE  IInv'
BY DocsUnchanged DEF IInv, documentVars

\* A step of an upload or a review.
LEMMA DocumentStep ==
    ASSUME IInv, DocsInv', UNCHANGED registerVars
    PROVE  IInv'
BY RowsUnchanged DEF IInv, registerVars

LEMMA IInvStep ==
    ASSUME IInv, [Next]_vars
    PROVE  IInv'
<1> USE DEF Within
<1>1. ASSUME NEW r \in Reader, UNCHANGED documentVars,
             \/ \E q \in Query : ListIds(r, q)
             \/ \E m \in Chart : MapRead(r, m)
             \/ ListScore(r) \/ ListPage(r) \/ MapScore(r) \/ Leave(r)
      PROVE  IInv'
  <2>1. UNCHANGED <<lease, holder, editing>>
    BY <1>1 DEF ListIds, MapRead, ListScore, ListPage, MapScore, Leave
  <2> QED BY <1>1, <2>1, RowsUnchanged, RegisterStep DEF IInv
<1>2. ASSUME NEW w \in Writer, UNCHANGED documentVars,
             \/ \E l \in Lease : UpdateRead(w, l)
             \/ UpdateCommit(w) \/ UpdateFails(w)
      PROVE  IInv'
  BY <1>2, UpdateReadRows, UpdateCommitRows, UpdateFailsRows, RegisterStep DEF IInv
<1>3. ASSUME NEW h \in Holder, UNCHANGED documentVars, DeleteHolder(h)
      PROVE  IInv'
  BY <1>3, DeleteHolderRows, RegisterStep DEF IInv
<1>4. ASSUME NEW l \in Lease, UNCHANGED documentVars, Rescore(l)
      PROVE  IInv'
  BY <1>4, RowsUnchanged, RegisterStep DEF IInv, Rescore
<1>5. ASSUME NEW l \in Lease, UNCHANGED documentVars, CreateLease(l)
      PROVE  IInv'
  BY <1>5, CreateRows, RegisterStep DEF IInv
<1>6. ASSUME NEW l \in Lease, DeleteLeaseDocuments(l)
      PROVE  IInv'
  BY <1>6, DeleteLeaseDocumentsDocs
<1>7. ASSUME NEW c \in Client,
             \/ \E l \in Lease : UploadCheck(c, l)
             \/ \E d \in Doc : SaveUpload(c, d) \/ ReviewRead(c, d)
             \/ InsertRow(c) \/ ReviewCommit(c) \/ RequestEnds(c)
      PROVE  IInv'
  <2>1. DocsInv'
    BY <1>7, UploadCheckDocs, SaveUploadDocs, ReviewReadDocs, InsertRowDocs,
       ReviewCommitDocs, RequestEndsDocs DEF IInv
  <2>2. UNCHANGED registerVars
    BY <1>7 DEF UploadCheck, SaveUpload, ReviewRead, InsertRow, ReviewCommit, RequestEnds
  <2> QED BY <2>1, <2>2, DocumentStep
<1>8. ASSUME NEW s \in Storage, Reconfigure(s)
      PROVE  IInv'
  BY <1>8, ReconfigureIInv
<1>9. CASE UNCHANGED vars
  BY <1>9, RowsUnchanged, RegisterStep DEF vars, documentVars, IInv
<1> QED BY <1>1, <1>2, <1>3, <1>4, <1>5, <1>6, <1>7, <1>8, <1>9 DEF Next

LEMMA IInvHolds == Spec => []IInv
<1>1. IInv /\ [Next]_vars => IInv'
  BY IInvStep
<1> QED BY IInvInit, <1>1, PTL DEF Spec

\* Whatever is registered, edited, uploaded and deleted at the same time, every lease
\* has a number of its own and a holder that exists, and no document outlives its
\* lease, though an upload checks for the lease long before it inserts the row.
THEOREM ReferencesKept == Spec => []ReferencesResolve
<1>1. IInv => ReferencesResolve
  BY DEF IInv, RowsInv, DocsInv, ReferencesResolve
<1> QED BY IInvHolds, <1>1, PTL

\* An upload answered as created has its row until its lease is deleted.
THEOREM CreatedIsFiled == Spec => []AnsweredIsFiled
<1>1. IInv => AnsweredIsFiled
  BY DEF IInv, DocsInv, Answered, AnsweredIsFiled
<1> QED BY IInvHolds, <1>1, PTL

\* Every row's file is stored, and a download finds it but for the two kinds of
\* reference that a change of storage misleads.
THEOREM FilesFound == Spec => []Downloadable
<1>1. ASSUME IInv PROVE Downloadable
  <2> SUFFICES ASSUME NEW d \in Filed
               PROVE  /\ \E s \in Storage : d \in stored[s]
                      /\ \/ Opens(d)
                         \/ <<doc[d].ref, storage>> \in {<<"relative", "bucket">>, <<"key", "disk">>}
    BY DEF Downloadable
  <2>1. doc[d].ref \in Ref /\ storage \in Storage
    BY <1>1, FiledRows DEF IInv, DocsInv, DocsTyped, DocRow, Filed
  <2>2. d \in stored[Home(doc[d].ref)] /\ Home(doc[d].ref) \in Storage
    BY <1>1 DEF IInv, DocsInv, Backed, Home, Storage
  <2>3. \/ OpensFrom(doc[d].ref) = Home(doc[d].ref)
        \/ <<doc[d].ref, storage>> \in {<<"relative", "bucket">>, <<"key", "disk">>}
    BY <2>1 DEF OpensFrom, Home, Ref, Storage
  <2> QED BY <2>2, <2>3 DEF Opens
<1> QED BY IInvHolds, <1>1, PTL

(***************************************************************************)
(* Types and readings of the specification.                                *)
(***************************************************************************)

LEMMA ReadInvStep ==
    ASSUME IInv, ReadInv, [Next]_vars
    PROVE  ReadInv'
<1> USE DEF Within
<1>1. ASSUME NEW r \in Reader,
             \/ \E q \in Query : ListIds(r, q)
             \/ \E m \in Chart : MapRead(r, m)
             \/ ListScore(r) \/ ListPage(r) \/ MapScore(r) \/ Leave(r)
      PROVE  ReadInv'
  BY <1>1, ListIdsReads, MapReadReads, ListScoreReads, ListPageReads, MapScoreReads,
     LeaveReads DEF IInv, RowsInv
<1>2. ASSUME NEW w \in Writer, NEW l \in Lease, UpdateRead(w, l) PROVE ReadInv'
  BY <1>2, OtherReads DEF UpdateRead
<1>3. ASSUME NEW w \in Writer, UpdateCommit(w) PROVE ReadInv'
  BY <1>3, WriteReads DEF UpdateCommit, ReadInv
<1>4. ASSUME NEW w \in Writer, UpdateFails(w) PROVE ReadInv'
  BY <1>4, OtherReads DEF UpdateFails
<1>5. ASSUME NEW h \in Holder, DeleteHolder(h) PROVE ReadInv'
  BY <1>5, OtherReads DEF DeleteHolder
<1>6. ASSUME NEW l \in Lease, NEW s \in Score, score' = [score EXCEPT ![l] = s],
             still' = {}, UNCHANGED reading
      PROVE  ReadInv'
  <2>1. score' \in [Lease -> Score]
    BY <1>6 DEF ReadInv
  <2> QED BY <1>6, <2>1, WriteReads
<1>7. Whole \in Score
  BY RegisterConstantsOK
<1>8. ASSUME NEW l \in Lease, CreateLease(l) \/ DeleteLease(l) \/ Rescore(l) PROVE ReadInv'
  BY <1>6, <1>7, <1>8 DEF CreateLease, DeleteLease, Rescore
<1>9. ASSUME NEW c \in Client,
             \/ \E l \in Lease : UploadCheck(c, l)
             \/ \E d \in Doc : SaveUpload(c, d) \/ ReviewRead(c, d)
             \/ InsertRow(c) \/ ReviewCommit(c) \/ RequestEnds(c)
      PROVE  ReadInv'
  <2>1. UNCHANGED registerVars
    BY <1>9 DEF UploadCheck, SaveUpload, ReviewRead, InsertRow, ReviewCommit, RequestEnds
  <2> QED BY <2>1, OtherReads DEF registerVars
<1>10. ASSUME NEW s \in Storage, Reconfigure(s) PROVE ReadInv'
  <2>1. reading' = [r \in Reader |-> Idle] /\ still' = {} /\ UNCHANGED score
    BY <1>10 DEF Reconfigure
  <2>2. ReadingOK(Idle) /\ Coherent(Idle)
    BY DEF ReadingOK, Coherent, Idle
  <2> HIDE DEF Idle
  <2> QED BY <2>1, <2>2 DEF ReadInv
<1>11. CASE UNCHANGED vars
  BY <1>11, OtherReads DEF vars
<1> QED
  BY <1>1, <1>2, <1>3, <1>4, <1>5, <1>8, <1>9, <1>10, <1>11 DEF Next, DeleteLeaseDocuments

LEMMA ReadInvHolds == Spec => []ReadInv
<1>1. Init => ReadInv
  <2> SUFFICES ASSUME Init PROVE ReadInv
    OBVIOUS
  <2>1. ReadingOK(Idle) /\ Coherent(Idle)
    BY DEF ReadingOK, Coherent, Idle
  <2>2. Whole \in Score
    BY RegisterConstantsOK
  <2> HIDE DEF Idle
  <2> QED BY <2>1, <2>2 DEF Init, RegisterInit, ReadInv
<1>2. IInv /\ ReadInv /\ [Next]_vars => ReadInv'
  BY ReadInvStep
<1> QED BY <1>1, <1>2, IInvHolds, PTL DEF Spec

\* Whatever is read, written, uploaded and reviewed at the same time, rows keep the
\* values the schema requires and every reading what its next step needs.
THEOREM TypesKept == Spec => []TypeOK
<1>1. Init => traffic \in Traffic
  BY DEF Init
<1>2. traffic \in Traffic /\ [Next]_vars => (traffic \in Traffic)'
  <2>1. [Next]_vars => UNCHANGED traffic
    BY DEF Next, vars, Within, DeleteLeaseDocuments, UploadCheck, SaveUpload, ReviewRead,
           InsertRow, ReviewCommit, RequestEnds, Reconfigure
  <2> QED BY <2>1
<1>3. IInv /\ ReadInv /\ traffic \in Traffic => TypeOK
  <2> SUFFICES ASSUME IInv, ReadInv, traffic \in Traffic PROVE TypeOK
    OBVIOUS
  <2>1. RegisterTypeOK
    BY DEF IInv, RowsInv, RowsTyped, ReadInv, RegisterTypeOK, EditState
  <2>2. DOMAIN request = Client /\ \A c \in Client : request[c] \in RequestState
    BY DEF IInv, DocsInv, DocsTyped
  <2>3. \A c \in Client : RequestOK(request[c])
    BY <2>2 DEF RequestOK, RequestState, Saving, Inserting, Created, Reviewing
  <2> QED BY <2>1, <2>2, <2>3 DEF IInv, DocsInv, DocsTyped, TypeOK
<1> QED BY <1>1, <1>2, <1>3, IInvHolds, ReadInvHolds, PTL DEF Spec

\* Any listing during which nothing changed is the slice it was asked for, of every
\* qualifying lease in the order asked for, and any such map that its limit suffices
\* for is every matching lease: for any number of leases, filters, sorts and pages.
THEOREM AnswersAreRight == Spec => []AnswersHold
<1>1. ReadInv => AnswersHold
  BY AnswersRight
<1> QED BY <1>1, ReadInvHolds, PTL

\* Whatever changes between its three reads, a listing repeats no lease, overflows
\* neither its page nor its total, and shows the scores it filtered by.
THEOREM ListingsCohere == Spec => []ListingCoherent
<1>1. ReadInv => ListingCoherent
  BY AnswersRight
<1> QED BY <1>1, ReadInvHolds, PTL
=============================================================================
