---------------------------- MODULE Pagination ----------------------------
(***************************************************************************)
(* GET /v1/places walked page by page while places are written.  ListPlaces *)
(* takes the places its filter (a radius, a box, a name, none or two of    *)
(* them) lets through in the order updated_at DESC, id ASC, asks for       *)
(* limit + 1 rows after the cursor, and makes the next cursor of the last  *)
(* row it returns.  A write takes its timestamp when it begins and becomes *)
(* visible when it commits, so that timestamps are not committed in their  *)
(* order; it may move or rename its place into or out of the filter.       *)
(***************************************************************************)
EXTENDS Integers, FiniteSets

CONSTANTS
    Places,     \* ids, in their order in the database
    Limit,      \* page size
    Writers,    \* writes of places made during the walk
    Micro,      \* clock readings per microsecond
    Past,       \* the clock reading at the start of the walk
    Horizon,    \* bound: the last clock reading
    None        \* no cursor, no pending write, no row

Cursor == [at : Nat, id : Places]
Write == [place : Places, at : Nat, matches : BOOLEAN]

ASSUME PaginationAssumption ==
    /\ Places \subseteq Nat
    /\ IsFiniteSet(Places)
    /\ Limit \in Nat \ {0}
    /\ Micro \in Nat \ {0}
    /\ Horizon \in Nat
    /\ Past \in 0 .. Horizon
    /\ None \notin Nat \cup Cursor \cup Write

VARIABLES
    clock,      \* time.Now() of the writers
    updatedAt,  \* updated_at of each row, None for a place not in the table
    matching,   \* the places whose position and name the filter lets through
    pending,    \* the place and timestamp each writer is about to commit
    phase,      \* "walking" or "done"
    cursor,     \* the cursor of the next request, None for the first
    returned,   \* history: how often each place has been on a page, 2 for more
    written     \* history: places a write was committed to during the walk

vars == <<clock, updatedAt, matching, pending, phase, cursor, returned, written>>

\* timestamptz keeps microseconds; Encode truncates to them.
Stored(t) == t - (t % Micro)

Encode(t, id) == [at |-> Stored(t), id |-> id]

Rows == {p \in Places : updatedAt[p] # None}

\* ORDER BY updated_at DESC, id ASC.
Precedes(p, q) ==
    \/ updatedAt[p] > updatedAt[q]
    \/ updatedAt[p] = updatedAt[q] /\ p < q

\* Faulty variant: the id is left out, and a page's worth of equal timestamps
\* leads back to itself.
FollowsWithoutId(p, c) == updatedAt[p] <= c.at

\* updated_at < ? OR (updated_at = ? AND id > ?).
Follows(p, c) ==
    \/ updatedAt[p] < c.at
    \/ updatedAt[p] = c.at /\ p > c.id

\* Faulty variant: the OR of the cursor is not put in parentheses, and what
\* follows it is let through without the filter.
RestUnparenthesised ==
    {p \in Rows :
        IF cursor = None THEN p \in matching
        ELSE (p \in matching /\ updatedAt[p] < cursor.at)
             \/ (updatedAt[p] = cursor.at /\ p > cursor.id)}

\* What the filter lets through and the cursor has not passed.
Rest == {p \in matching : cursor = None \/ Follows(p, cursor)}

\* The first n rows of a set in the order of the query.
FirstRows(S, n) == {p \in S : Cardinality({q \in S : Precedes(q, p)}) < n}

\* Any table of rows written so far.
Init ==
    /\ clock = Past
    /\ updatedAt \in [Places -> {Stored(t) : t \in 0 .. Past} \cup {None}]
    /\ matching \in SUBSET Rows
    /\ pending = [w \in Writers |-> None]
    /\ phase = "walking"
    /\ cursor = None
    /\ returned = [p \in Places |-> 0]
    /\ written = {}

Tick ==
    /\ clock < Horizon
    /\ clock' = clock + 1
    /\ UNCHANGED <<updatedAt, matching, pending, phase, cursor, returned, written>>

\* Faulty variant: UpsertBatch leaves UpdatedAt at Go's zero time.
BeginWriteZeroTime(w) ==
    /\ pending[w] = None
    /\ \E p \in Places, m \in BOOLEAN :
          pending' = [pending EXCEPT ![w] = [place |-> p, at |-> -1, matches |-> m]]
    /\ UNCHANGED <<clock, updatedAt, matching, phase, cursor, returned, written>>

\* UpsertBatch, AttachExternalRef or CreatePlace: the timestamp is that of the
\* statement's or of the transaction's beginning.
BeginWrite(w) ==
    /\ pending[w] = None
    /\ \E p \in Places, m \in BOOLEAN :
          pending' = [pending EXCEPT ![w] = [place |-> p, at |-> clock, matches |-> m]]
    /\ UNCHANGED <<clock, updatedAt, matching, phase, cursor, returned, written>>

CommitWrite(w) ==
    LET write == pending[w] IN
    /\ write # None
    /\ updatedAt' = [updatedAt EXCEPT ![write.place] = Stored(write.at)]
    /\ matching' = IF write.matches THEN matching \cup {write.place}
                   ELSE matching \ {write.place}
    /\ written' = written \cup {write.place}
    /\ pending' = [pending EXCEPT ![w] = None]
    /\ UNCHANGED <<clock, phase, cursor, returned>>

\* One request: the page, and a cursor if there is a row beyond it.
ListPlaces ==
    LET page == FirstRows(Rest, Limit)
        last == CHOOSE p \in page : \A q \in page : q = p \/ Precedes(q, p)
    IN
    /\ phase = "walking"
    /\ returned' = [p \in Places |-> IF p \in page /\ returned[p] < 2 THEN returned[p] + 1
                                   ELSE returned[p]]
    /\ IF FirstRows(Rest, Limit + 1) = page
       THEN phase' = "done" /\ UNCHANGED cursor
       ELSE cursor' = Encode(updatedAt[last], last) /\ UNCHANGED phase
    /\ UNCHANGED <<clock, updatedAt, matching, pending, written>>

Next == Tick \/ ListPlaces \/ \E w \in Writers : BeginWrite(w) \/ CommitWrite(w)

Spec == Init /\ [][Next]_vars

\* The client goes on asking as long as it is given a cursor.
FairSpec == Spec /\ WF_vars(ListPlaces)

-----------------------------------------------------------------------------
(* Properties                                                              *)

TypeOK ==
    /\ clock \in Past .. Horizon
    /\ updatedAt \in [Places -> Nat \cup {None}]
    /\ matching \subseteq Rows
    /\ pending \in [Writers -> Write \cup {None}]
    /\ phase \in {"walking", "done"}
    /\ cursor \in Cursor \cup {None}
    /\ returned \in [Places -> 0 .. 2]
    /\ written \subseteq Places

\* A place that is not written during a walk is on exactly one of its pages if the
\* filter lets it through and on none if not, however the places around it move:
\* none is lost at a page boundary among equal timestamps, none comes twice, and
\* no page after the first forgets the filter.
UnwrittenPlacesOnce ==
    \A p \in Rows \ written :
        /\ returned[p] <= IF p \in matching THEN 1 ELSE 0
        /\ phase = "done" /\ p \in matching => returned[p] = 1

\* A walk ends, although places go on being written behind and before the cursor.
WalkEnds == <>(phase = "done")
=============================================================================
