-------------------------- MODULE PaginationProofs --------------------------
(***************************************************************************)
(* Theorems about Pagination, for any places, page size, writers and clock *)
(* readings: a place nobody writes comes exactly once, and every request   *)
(* ends the walk or moves its cursor on.                                   *)
(***************************************************************************)
EXTENDS Pagination, FiniteSetTheorems, WellFoundedInduction, TLAPS

-----------------------------------------------------------------------------
(* Microseconds                                                            *)

\* Timestamps keep whole microseconds, and keep those they have.
LEMMA StoredType ==
  ASSUME NEW t \in Nat
  PROVE  Stored(t) \in Nat /\ Stored(Stored(t)) = Stored(t)
<1> DEFINE d == t \div Micro
           m == t % Micro
<1>1. Micro \in Nat /\ Micro > 0
  BY PaginationAssumption
<1>2. d \in Nat /\ m \in 0..(Micro - 1) /\ t = Micro * d + m
  BY <1>1
<1>3. Stored(t) = Micro * d /\ Micro * d \in Nat
  BY <1>1, <1>2 DEF Stored
<1>4. (Micro * d) % Micro = 0
  <2> DEFINE q == (Micro * d) \div Micro
             r == (Micro * d) % Micro
  <2>1. q \in Int /\ r \in 0..(Micro - 1) /\ Micro * d = Micro * q + r
    BY <1>1, <1>3
  <2>2. r = Micro * (d - q)
    BY <1>1, <1>2, <2>1
  <2> HIDE DEF q, r, d
  <2>3. d - q >= 1 => Micro * (d - q) >= Micro
    BY <1>1, <1>2, <2>1
  <2>4. d - q <= -1 => Micro * (d - q) < 0
    BY <1>1, <1>2, <2>1
  <2>5. d - q = 0
    BY <1>1, <1>2, <2>1, <2>2, <2>3, <2>4
  <2>6. r = 0
    BY <1>1, <2>2, <2>5
  <2> QED BY <2>6 DEF r, d
<1> QED BY <1>3, <1>4 DEF Stored

-----------------------------------------------------------------------------
(* The order of the rows                                                   *)

\* updated_at DESC, id ASC orders the rows of the table strictly and totally.
LEMMA TotalOrder ==
  ASSUME TypeOK, NEW p \in Rows, NEW q \in Rows, NEW r \in Rows
  PROVE  /\ ~Precedes(p, p)
         /\ ~(Precedes(p, q) /\ Precedes(q, p))
         /\ p = q \/ Precedes(p, q) \/ Precedes(q, p)
         /\ Precedes(p, q) /\ Precedes(q, r) => Precedes(p, r)
<1>1. \A x \in {p, q, r} : x \in Nat /\ updatedAt[x] \in Nat
  BY PaginationAssumption DEF TypeOK, Rows
<1> QED BY <1>1 DEF Precedes

\* A set of naturals that is not empty has a least element.
LEMMA Smallest ==
  ASSUME NEW T \in SUBSET Nat, T # {}
  PROVE  \E n \in T : \A k \in T : n <= k
<1>1. PICK n \in T : \A k \in T : <<k, n>> \notin OpToRel(<, Nat)
  BY NatLessThanWellFounded, WFMin
<1>2. \A k \in T : ~(k < n)
  BY <1>1 DEF OpToRel
<1> QED BY <1>2

\* Of finitely many rows one goes first and one goes last.
LEMMA FirstAndLast ==
  ASSUME TypeOK, NEW S \in SUBSET Rows, IsFiniteSet(S), S # {}
  PROVE  /\ \E p \in S : \A q \in S : q = p \/ Precedes(p, q)
         /\ \E p \in S : \A q \in S : q = p \/ Precedes(q, p)
<1> DEFINE Before(p) == {q \in S : Precedes(q, p)}
           After(p) == {q \in S : Precedes(p, q)}
<1>1. \A p \in S : /\ IsFiniteSet(Before(p)) /\ Cardinality(Before(p)) \in Nat
                   /\ IsFiniteSet(After(p)) /\ Cardinality(After(p)) \in Nat
  <2> TAKE p \in S
  <2>1. Before(p) \in SUBSET S /\ After(p) \in SUBSET S
    OBVIOUS
  <2> QED BY <2>1, FS_Subset, FS_CardinalityType
<1>2. \E p \in S : \A q \in S : q = p \/ Precedes(p, q)
  <2> DEFINE T == {Cardinality(Before(p)) : p \in S}
  <2>1. T \in SUBSET Nat /\ T # {}
    BY <1>1
  <2>2. PICK n \in T : \A k \in T : n <= k
    BY <2>1, Smallest
  <2>3. PICK p \in S : n = Cardinality(Before(p))
    BY <2>2
  <2>4. ASSUME NEW q \in S, Precedes(q, p) PROVE FALSE
    <3>1. Before(q) \in SUBSET Before(p)
      BY <2>4, TotalOrder
    <3>2. q \in Before(p) /\ q \notin Before(q)
      BY <2>4, TotalOrder
    <3>3. Cardinality(Before(q)) <= Cardinality(Before(p))
             /\ Cardinality(Before(q)) # Cardinality(Before(p))
      BY <1>1, <3>1, <3>2, FS_Subset
    <3>4. Cardinality(Before(p)) <= Cardinality(Before(q))
      BY <2>2, <2>3
    <3>5. Cardinality(Before(p)) \in Nat /\ Cardinality(Before(q)) \in Nat
      BY <1>1, <2>4
    <3> QED BY <3>3, <3>4, <3>5
  <2> QED BY <2>4, TotalOrder
<1>3. \E p \in S : \A q \in S : q = p \/ Precedes(q, p)
  <2> DEFINE T == {Cardinality(After(p)) : p \in S}
  <2>1. T \in SUBSET Nat /\ T # {}
    BY <1>1
  <2>2. PICK n \in T : \A k \in T : n <= k
    BY <2>1, Smallest
  <2>3. PICK p \in S : n = Cardinality(After(p))
    BY <2>2
  <2>4. ASSUME NEW q \in S, Precedes(p, q) PROVE FALSE
    <3>1. After(q) \in SUBSET After(p)
      BY <2>4, TotalOrder
    <3>2. q \in After(p) /\ q \notin After(q)
      BY <2>4, TotalOrder
    <3>3. Cardinality(After(q)) <= Cardinality(After(p))
             /\ Cardinality(After(q)) # Cardinality(After(p))
      BY <1>1, <3>1, <3>2, FS_Subset
    <3>4. Cardinality(After(p)) <= Cardinality(After(q))
      BY <2>2, <2>3
    <3>5. Cardinality(After(p)) \in Nat /\ Cardinality(After(q)) \in Nat
      BY <1>1, <2>4
    <3> QED BY <3>3, <3>4, <3>5
  <2> QED BY <2>4, TotalOrder
<1> QED BY <1>2, <1>3

-----------------------------------------------------------------------------
(* A page                                                                  *)

LEMMA RestType == ASSUME TypeOK PROVE Rest \in SUBSET Rows /\ IsFiniteSet(Rest)
<1>1. Rest \in SUBSET Rows /\ Rest \in SUBSET Places
  BY DEF TypeOK, Rest, Rows
<1> QED BY <1>1, FS_Subset, PaginationAssumption

\* The rows that go before one of a finite set.
LEMMA BeforeType ==
  ASSUME TypeOK, NEW S \in SUBSET Rows, IsFiniteSet(S), NEW p \in S
  PROVE  LET before == {q \in S : Precedes(q, p)}
         IN  IsFiniteSet(before) /\ Cardinality(before) \in Nat
<1>1. {q \in S : Precedes(q, p)} \in SUBSET S
  OBVIOUS
<1> QED BY <1>1, FS_Subset, FS_CardinalityType

\* The first n rows leave none out that goes before one of them, and there is one
\* among them, unless there are no rows at all.
LEMMA FirstRowsClosed ==
  ASSUME TypeOK, NEW S \in SUBSET Rows, IsFiniteSet(S), NEW n \in Nat \ {0}
  PROVE  /\ FirstRows(S, n) \in SUBSET S /\ IsFiniteSet(FirstRows(S, n))
         /\ \A p \in FirstRows(S, n), q \in S : Precedes(q, p) => q \in FirstRows(S, n)
         /\ S # {} => FirstRows(S, n) # {}
<1> DEFINE Before(p) == {q \in S : Precedes(q, p)}
<1>1. FirstRows(S, n) \in SUBSET S /\ IsFiniteSet(FirstRows(S, n))
  BY FS_Subset DEF FirstRows
<1>2. ASSUME NEW p \in FirstRows(S, n), NEW q \in S, Precedes(q, p)
      PROVE  q \in FirstRows(S, n)
  <2>1. p \in S /\ Cardinality(Before(p)) < n
    BY DEF FirstRows
  <2>2. Before(q) \in SUBSET Before(p)
    BY <1>2, <2>1, TotalOrder
  <2>3. IsFiniteSet(Before(p)) /\ Cardinality(Before(p)) \in Nat
           /\ Cardinality(Before(q)) \in Nat
    BY <2>1, BeforeType
  <2>4. Cardinality(Before(q)) <= Cardinality(Before(p))
    BY <2>2, <2>3, FS_Subset
  <2>5. Cardinality(Before(q)) < n
    BY <2>1, <2>3, <2>4
  <2> QED BY <2>5 DEF FirstRows
<1>3. ASSUME S # {} PROVE FirstRows(S, n) # {}
  <2>1. PICK p \in S : \A q \in S : q = p \/ Precedes(p, q)
    BY <1>3, FirstAndLast
  <2>2. Before(p) = {}
    BY <2>1, TotalOrder
  <2>3. Cardinality(Before(p)) = 0
    BY <2>2, FS_EmptySet
  <2> QED BY <2>3 DEF FirstRows
<1> QED BY <1>1, <1>2, <1>3

\* A page has at most as many rows as were asked for.
LEMMA PageSize ==
  ASSUME TypeOK, NEW S \in SUBSET Rows, IsFiniteSet(S), NEW n \in Nat \ {0}
  PROVE  Cardinality(FirstRows(S, n)) <= n
<1> DEFINE page == FirstRows(S, n)
           Before(p) == {q \in S : Precedes(q, p)}
<1>1. page \in SUBSET S /\ IsFiniteSet(page)
  BY FirstRowsClosed
<1>2. CASE page = {}
  BY <1>2, FS_EmptySet
<1>3. CASE page # {}
  <2>1. PICK p \in page : \A q \in page : q = p \/ Precedes(q, p)
    BY <1>1, <1>3, FirstAndLast
  <2>2. p \in S /\ Cardinality(Before(p)) < n
    BY DEF FirstRows
  <2>3. IsFiniteSet(Before(p)) /\ Cardinality(Before(p)) \in Nat
    BY <2>2, BeforeType
  <2>4. page \in SUBSET (Before(p) \cup {p})
    BY <1>1, <2>1
  <2>5. /\ IsFiniteSet(Before(p) \cup {p})
        /\ Cardinality(Before(p) \cup {p}) = Cardinality(Before(p)) + 1
    <3>1. p \notin Before(p)
      BY <2>2, TotalOrder
    <3> HIDE DEF Before
    <3> QED BY <2>3, <3>1, FS_AddElement
  <2>6. Cardinality(page) <= Cardinality(Before(p) \cup {p})
    BY <2>4, <2>5, FS_Subset
  <2>7. Cardinality(page) \in Nat /\ Cardinality(Before(p) \cup {p}) \in Nat
    BY <1>1, <2>5, FS_CardinalityType
  <2> HIDE DEF page
  <2>8. Cardinality(page) <= n
    BY <2>2, <2>3, <2>5, <2>6, <2>7
  <2> QED BY <2>8 DEF page
<1> QED BY <1>2, <1>3

\* A page with no row beyond it is all there is.
LEMMA LastPage ==
  ASSUME TypeOK, NEW S \in SUBSET Rows, IsFiniteSet(S), NEW n \in Nat \ {0},
         FirstRows(S, n + 1) = FirstRows(S, n)
  PROVE  FirstRows(S, n) = S
<1> DEFINE page == FirstRows(S, n)
           left == S \ page
           Before(p) == {q \in S : Precedes(q, p)}
<1>1. page \in SUBSET S /\ IsFiniteSet(page) /\ Cardinality(page) \in Nat
  BY FirstRowsClosed, FS_CardinalityType
<1> SUFFICES ASSUME left # {} PROVE FALSE
  BY <1>1
<1>2. left \in SUBSET Rows /\ IsFiniteSet(left)
  BY FS_Difference
<1>3. PICK p \in left : \A q \in left : q = p \/ Precedes(p, q)
  <2> HIDE DEF left
  <2> QED BY <1>2, FirstAndLast
<1>4. p \in S /\ p \notin page
  BY <1>3
<1>5. Before(p) = page
  <2>1. ASSUME NEW q \in Before(p) PROVE q \in page
    BY <1>3, <1>4, <2>1, TotalOrder
  <2>2. ASSUME NEW q \in page PROVE q \in Before(p)
    <3>1. q \in S /\ q # p /\ ~Precedes(p, q)
      BY <1>1, <1>4, FirstRowsClosed
    <3> QED BY <1>4, <3>1, TotalOrder
  <2> QED BY <2>1, <2>2
<1>6. Cardinality(Before(p)) <= n
  BY <1>5, PageSize
<1>7. Cardinality(Before(p)) \in Nat
  BY <1>4, BeforeType
<1>8. Cardinality(Before(p)) < n + 1
  BY <1>6, <1>7
<1>9. p \in FirstRows(S, n + 1)
  BY <1>4, <1>8 DEF FirstRows
<1> QED BY <1>4, <1>9

-----------------------------------------------------------------------------
(* Types                                                                   *)

LEMMA InitTypes == ASSUME Init PROVE TypeOK
<1>1. updatedAt \in [Places -> Nat \cup {None}]
  BY StoredType, PaginationAssumption DEF Init
<1> QED BY <1>1, PaginationAssumption DEF Init, TypeOK, Rows

LEMMA TickTypes == ASSUME TypeOK, Tick PROVE TypeOK'
BY PaginationAssumption DEF TypeOK, Tick, Rows

LEMMA BeginWriteTypes == ASSUME TypeOK, NEW w \in Writers, BeginWrite(w) PROVE TypeOK'
<1>1. clock \in Nat
  BY PaginationAssumption DEF TypeOK
<1> QED BY <1>1 DEF TypeOK, BeginWrite, Rows, Write

LEMMA CommitWriteTypes == ASSUME TypeOK, NEW w \in Writers, CommitWrite(w) PROVE TypeOK'
<1> DEFINE write == pending[w]
<1>1. write \in Write
  BY DEF TypeOK, CommitWrite
<1>2. write.place \in Places /\ write.at \in Nat /\ Stored(write.at) \in Nat
  BY <1>1, StoredType DEF Write
<1>3. Stored(write.at) # None
  BY <1>2, PaginationAssumption
<1>4. updatedAt' \in [Places -> Nat \cup {None}]
  BY <1>2 DEF TypeOK, CommitWrite
<1>5. Rows' = Rows \cup {write.place}
  BY <1>2, <1>3 DEF TypeOK, CommitWrite, Rows
<1>6. matching' \subseteq Rows'
  BY <1>2, <1>5 DEF TypeOK, CommitWrite
<1>7. written' \subseteq Places
  BY <1>2 DEF TypeOK, CommitWrite
<1>8. pending' \in [Writers -> Write \cup {None}]
  BY DEF TypeOK, CommitWrite
<1> QED BY <1>4, <1>6, <1>7, <1>8 DEF TypeOK, CommitWrite

\* A request that does not end the walk is answered with rows and a cursor that
\* stands for the last of them.
LEMMA NextCursor ==
  ASSUME TypeOK, ListPlaces, phase' # "done"
  PROVE  LET page == FirstRows(Rest, Limit)
         IN  \E last \in page : /\ \A q \in page : q = last \/ Precedes(q, last)
                                /\ cursor' = Encode(updatedAt[last], last)
                                /\ last \in Rest /\ last \in Places
                                /\ updatedAt[last] \in Nat
<1> DEFINE page == FirstRows(Rest, Limit)
           IsLast(p) == \A q \in page : q = p \/ Precedes(q, p)
           last == CHOOSE p \in page : IsLast(p)
<1>1. Rest \in SUBSET Rows /\ IsFiniteSet(Rest)
  BY RestType
<1>2. Limit \in Nat \ {0} /\ Limit + 1 \in Nat \ {0}
  BY PaginationAssumption
<1>3. FirstRows(Rest, Limit + 1) # page /\ cursor' = Encode(updatedAt[last], last)
  BY DEF ListPlaces
<1>4. page \in SUBSET Rest /\ IsFiniteSet(page) /\ (Rest # {} => page # {})
  BY <1>1, <1>2, FirstRowsClosed
<1>5. FirstRows(Rest, Limit + 1) \in SUBSET Rest
  BY <1>1, <1>2, FirstRowsClosed
<1>6. page # {}
  BY <1>3, <1>4, <1>5
<1>7. \E p \in page : IsLast(p)
  <2> HIDE DEF page
  <2> QED BY <1>1, <1>4, <1>6, FirstAndLast
<1>8. last \in page /\ IsLast(last)
  <2> HIDE DEF page, IsLast
  <2> QED BY <1>7
<1>9. last \in Rest /\ last \in Places /\ updatedAt[last] \in Nat
  BY <1>1, <1>4, <1>8 DEF Rows, TypeOK
<1> QED BY <1>3, <1>8, <1>9

LEMMA ListPlacesTypes == ASSUME TypeOK, ListPlaces PROVE TypeOK'
<1>1. returned' \in [Places -> 0..2]
  BY DEF TypeOK, ListPlaces
<1>2. cursor' \in Cursor \cup {None} /\ phase' \in {"walking", "done"}
  <2>1. CASE phase' = "done"
    <3>1. UNCHANGED cursor \/ phase' = phase
      BY DEF ListPlaces
    <3> QED BY <2>1, <3>1 DEF TypeOK, ListPlaces
  <2>2. CASE phase' # "done"
    <3>1. PICK p \in Places : cursor' = Encode(updatedAt[p], p) /\ updatedAt[p] \in Nat
      BY <2>2, NextCursor
    <3>2. cursor' \in Cursor
      BY <3>1, StoredType DEF Encode, Cursor
    <3>3. phase' = phase
      BY <2>2 DEF ListPlaces
    <3> QED BY <3>2, <3>3 DEF TypeOK
  <2> QED BY <2>1, <2>2
<1> QED BY <1>1, <1>2 DEF TypeOK, ListPlaces, Rows

THEOREM PaginationTypes == Spec => []TypeOK
<1>1. TypeOK /\ [Next]_vars => TypeOK'
  <2> SUFFICES ASSUME TypeOK, [Next]_vars PROVE TypeOK'
    OBVIOUS
  <2>1. CASE UNCHANGED vars
    BY <2>1 DEF vars, TypeOK, Rows
  <2> QED BY <2>1, TickTypes, BeginWriteTypes, CommitWriteTypes, ListPlacesTypes DEF Next
<1> QED BY <1>1, InitTypes, PTL DEF Spec

-----------------------------------------------------------------------------
(* The walk                                                                *)

\* What is in the table is what the cursor can say.
WholeMicros == \A p \in Rows : Stored(updatedAt[p]) = updatedAt[p]

\* Of the places nobody has written, those the filter lets through are ahead of
\* the cursor and have not come, or behind it and have come once; no other has.
AheadOrBehind ==
    \A p \in Rows \ written :
        returned[p] = IF p \in matching /\ (phase = "done" \/ p \notin Rest) THEN 1 ELSE 0

Inv == TypeOK /\ WholeMicros /\ AheadOrBehind

LEMMA InitInv == ASSUME Init PROVE Inv
<1>1. WholeMicros
  <2> SUFFICES ASSUME NEW p \in Rows PROVE Stored(updatedAt[p]) = updatedAt[p]
    BY DEF WholeMicros
  <2>1. PICK t \in 0 .. Past : updatedAt[p] = Stored(t)
    BY DEF Init, Rows
  <2> QED BY <2>1, StoredType, PaginationAssumption
<1>2. AheadOrBehind
  BY DEF Init, AheadOrBehind, Rest, Rows
<1> QED BY <1>1, <1>2, InitTypes DEF Inv

LEMMA CommitWriteInv == ASSUME Inv, NEW w \in Writers, CommitWrite(w) PROVE Inv'
<1> DEFINE write == pending[w]
<1>1. TypeOK /\ TypeOK'
  BY CommitWriteTypes DEF Inv
<1>2. write \in Write /\ write.place \in Places /\ write.at \in Nat
  BY DEF Inv, TypeOK, CommitWrite, Write
<1>3. \A p \in Places : updatedAt'[p] = IF p = write.place THEN Stored(write.at) ELSE updatedAt[p]
  BY <1>1 DEF CommitWrite, TypeOK
<1>4. WholeMicros'
  BY <1>2, <1>3, StoredType DEF Inv, WholeMicros, Rows
<1>5. ASSUME NEW p \in Rows' \ written' PROVE
        /\ p \in Rows \ written
        /\ p \in matching' <=> p \in matching
        /\ p \in Rest' <=> p \in Rest
  <2>1. p # write.place /\ p \notin written /\ p \in Places
    BY DEF CommitWrite, Rows
  <2>2. updatedAt'[p] = updatedAt[p]
    BY <1>3, <2>1
  <2>3. p \in matching' <=> p \in matching
    BY <2>1 DEF CommitWrite
  <2>4. cursor' = cursor
    BY DEF CommitWrite
  <2> QED BY <2>1, <2>2, <2>3, <2>4 DEF Rows, Rest, Follows
<1>6. AheadOrBehind'
  BY <1>5 DEF Inv, AheadOrBehind, CommitWrite
<1> QED BY <1>1, <1>4, <1>6 DEF Inv

\* A page's cursor parts what was ahead: the page is behind it now, and the rest
\* still ahead.
LEMMA PagePartsRest ==
  ASSUME Inv, ListPlaces, phase' # "done"
  PROVE  Rest' = Rest \ FirstRows(Rest, Limit)
<1> DEFINE page == FirstRows(Rest, Limit)
<1>1. PICK last \in page : /\ \A q \in page : q = last \/ Precedes(q, last)
                          /\ cursor' = Encode(updatedAt[last], last)
                          /\ last \in Rest /\ last \in Places
                          /\ updatedAt[last] \in Nat
  BY NextCursor DEF Inv
<1>2. Rest \in SUBSET Rows /\ IsFiniteSet(Rest) /\ matching \subseteq Rows
  BY RestType DEF Inv, TypeOK
<1>3. \A p \in page, q \in Rest : Precedes(q, p) => q \in page
  BY <1>2, FirstRowsClosed, PaginationAssumption DEF Inv
<1>4. cursor' = [at |-> updatedAt[last], id |-> last] /\ cursor' # None
  <2>1. cursor' = [at |-> updatedAt[last], id |-> last]
    BY <1>1, <1>2 DEF Inv, WholeMicros, Encode
  <2>2. cursor' \in Cursor
    BY <1>1, <2>1 DEF Cursor
  <2> QED BY <2>1, <2>2, PaginationAssumption
<1>5. UNCHANGED <<updatedAt, matching>>
  BY DEF ListPlaces
<1>6. \A p \in matching : p \in Rest' <=> Precedes(last, p)
  <2> TAKE p \in matching
  <2>1. p \in Nat /\ updatedAt[p] \in Nat /\ last \in Nat
    BY <1>1, <1>2, PaginationAssumption DEF Inv, TypeOK, Rows
  <2> QED BY <1>1, <1>4, <1>5, <2>1 DEF Rest, Follows, Precedes
<1>7. \A p \in matching : Precedes(last, p) => p \in Rest
  <2> TAKE p \in matching
  <2>1. p \in Nat /\ updatedAt[p] \in Nat /\ last \in Nat
    BY <1>1, <1>2, PaginationAssumption DEF Inv, TypeOK, Rows
  <2>2. cursor = None \/ (cursor.at \in Nat /\ cursor.id \in Nat)
    BY PaginationAssumption DEF Inv, TypeOK, Cursor
  <2>3. cursor = None \/ Follows(last, cursor)
    BY <1>1 DEF Rest
  <2> QED BY <1>1, <2>1, <2>2, <2>3 DEF Rest, Follows, Precedes
<1>8. \A p \in Rest : Precedes(last, p) <=> p \notin page
  <2> TAKE p \in Rest
  <2>1. last \in Rows /\ p \in Rows
    BY <1>1, <1>2
  <2> QED BY <1>1, <1>3, <2>1, TotalOrder DEF Inv
<1>9. Rest \subseteq matching /\ Rest' \subseteq matching
  BY <1>5 DEF Rest
<1> QED BY <1>6, <1>7, <1>8, <1>9

LEMMA ListPlacesInv == ASSUME Inv, ListPlaces PROVE Inv'
<1> DEFINE page == FirstRows(Rest, Limit)
<1>1. TypeOK'
  BY ListPlacesTypes DEF Inv
<1>2. WholeMicros'
  BY DEF Inv, WholeMicros, ListPlaces, Rows
<1>3. Rest \in SUBSET Rows /\ IsFiniteSet(Rest) /\ page \subseteq Rest /\ Rest \subseteq matching
  BY RestType, FirstRowsClosed, PaginationAssumption DEF Inv, Rest
<1>4. \A p \in Rows \ written : returned'[p] = IF p \in page THEN 1 ELSE returned[p]
  <2> TAKE p \in Rows \ written
  <2>1. p \in Places /\ returned'[p] = IF p \in page /\ returned[p] < 2 THEN returned[p] + 1
                                       ELSE returned[p]
    BY DEF ListPlaces, Rows
  <2>2. p \in page => returned[p] = 0
    BY <1>3 DEF Inv, AheadOrBehind, ListPlaces
  <2> QED BY <2>1, <2>2
<1>5. UNCHANGED <<updatedAt, matching, written>> /\ Rows' = Rows /\ phase = "walking"
  BY DEF ListPlaces, Rows
<1>6. CASE phase' = "done"
  <2>1. FirstRows(Rest, Limit + 1) = page
    BY <1>5, <1>6 DEF ListPlaces
  <2>2. page = Rest
    BY <1>3, <2>1, LastPage, PaginationAssumption DEF Inv
  <2>3. AheadOrBehind'
    BY <1>3, <1>4, <1>5, <1>6, <2>2 DEF Inv, AheadOrBehind
  <2> QED BY <1>1, <1>2, <2>3 DEF Inv
<1>7. CASE phase' # "done"
  <2>1. Rest' = Rest \ page
    BY <1>7, PagePartsRest
  <2>2. AheadOrBehind'
    BY <1>3, <1>4, <1>5, <1>7, <2>1 DEF Inv, AheadOrBehind
  <2> QED BY <1>1, <1>2, <2>2 DEF Inv
<1> QED BY <1>6, <1>7

LEMMA StepInv == ASSUME Inv, [Next]_vars PROVE Inv'
<1>1. ASSUME UNCHANGED <<updatedAt, matching, phase, cursor, returned, written>>, TypeOK'
      PROVE  Inv'
  BY <1>1 DEF Inv, WholeMicros, AheadOrBehind, Rows, Rest, Follows
<1>2. CASE UNCHANGED vars
  <2>1. TypeOK'
    BY <1>2 DEF vars, Inv, TypeOK, Rows
  <2> QED BY <1>1, <1>2, <2>1 DEF vars
<1>3. CASE Tick
  BY <1>1, <1>3, TickTypes DEF Tick, Inv
<1>4. ASSUME NEW w \in Writers, BeginWrite(w) PROVE Inv'
  BY <1>1, <1>4, BeginWriteTypes DEF BeginWrite, Inv
<1> QED BY <1>2, <1>3, <1>4, CommitWriteInv, ListPlacesInv DEF Next

\* A place nobody writes during a walk is on exactly one page if the filter lets
\* it through and on none if not, for any table, page size and writers.
THEOREM OnceEach == Spec => []UnwrittenPlacesOnce
<1>1. Inv => UnwrittenPlacesOnce
  BY DEF Inv, AheadOrBehind, UnwrittenPlacesOnce
<1> QED BY <1>1, InitInv, StepInv, PTL DEF Spec

\* A cursor that is further down the list than another.
Beyond(c, d) == c.at < d.at \/ (c.at = d.at /\ c.id > d.id)

\* Every request is answered with the last page or with a cursor further down the
\* list: whatever is written meanwhile, a walk does not turn back or stand still.
MovesOn == [][ListPlaces => \/ phase' = "done"
                            \/ /\ cursor' # None
                               /\ cursor = None \/ Beyond(cursor', cursor)]_vars

THEOREM WalkMovesOn == Spec => MovesOn
<1>1. ASSUME Inv, ListPlaces, phase' # "done"
      PROVE  cursor' # None /\ (cursor = None \/ Beyond(cursor', cursor))
  <2>1. PICK last \in Places : /\ cursor' = Encode(updatedAt[last], last)
                              /\ last \in Rest /\ updatedAt[last] \in Nat
    BY <1>1, NextCursor DEF Inv
  <2>2. cursor' = [at |-> updatedAt[last], id |-> last]
    BY <1>1, <2>1, RestType DEF Inv, WholeMicros, Encode
  <2>3. cursor' \in Cursor
    BY <2>1, <2>2 DEF Cursor
  <2>4. cursor = None \/ Follows(last, cursor)
    BY <2>1 DEF Rest
  <2> QED BY <2>2, <2>3, <2>4, PaginationAssumption DEF Follows, Beyond
<1>2. Inv /\ [Next]_vars =>
        [ListPlaces => \/ phase' = "done"
                       \/ /\ cursor' # None
                          /\ cursor = None \/ Beyond(cursor', cursor)]_vars
  BY <1>1
<1> QED BY <1>2, InitInv, StepInv, PTL DEF Spec, MovesOn
=============================================================================
