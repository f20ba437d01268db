--------------------------- MODULE Reconciliation ---------------------------
(***************************************************************************)
(* The ingestion binary's identity reconciliation.  Canonical runs upsert  *)
(* places and end with a sweep of the unmatched queue; external runs       *)
(* resolve upstream records, attaching a reference to the matched place or *)
(* queueing the record.  Any number of runs of both kinds share the places *)
(* and unmatched_external tables; no transaction spans two of their        *)
(* statements, each of which may fail, and a run may die between any two.  *)
(*                                                                         *)
(* What the matcher computes from a record's and a place's fields is the   *)
(* constant Score (module Matcher models it); Near is the 50 m join of the *)
(* sweep's query.                                                          *)
(***************************************************************************)
EXTENDS Integers, FiniteSets

CONSTANTS
    Places,             \* (osm_id, osm_type) of the places
    PlaceVersions,      \* what an import can say of a place: its fields
    Records,            \* (source, source_id) of the external records
    RecordVersions,     \* what an upstream can say of a record: its fields
    Sources,            \* the external sources
    SourceOf,           \* the source of each record
    Score,              \* the matcher's score, in percent; -1: no candidate
    Near,               \* record and place versions within RadiusM
    ConfidentThreshold,
    LowConfidenceThreshold,
    CanonicalRuns,
    ExternalRuns,
    MaxParams,          \* bind parameters one statement may carry
    Imports,            \* the sets of places an import may emit
    MaxFaults,          \* bound: failing statements and crashes in a behaviour
    MaxStreamed,        \* bound: records an external run streams
    MaxQueueId,         \* bound: ids unmatched_external hands out
    MaxAttempts,        \* bound: where the attempts counter stops counting
    None                \* no place, no reference, no row, no decision

Runs == CanonicalRuns \cup ExternalRuns

QueueRow == [id : 1 .. MaxQueueId, version : RecordVersions, attempts : 1 .. MaxAttempts]
\* A row as the sweep's query returned it.
Pending == [rec : Records, id : 1 .. MaxQueueId, version : RecordVersions]
Work == [rec : Records, id : 0 .. MaxQueueId, version : RecordVersions]
Kinds == {"confident", "low", "none"}
Decision == [kind : Kinds, place : Places \cup {None}]

ASSUME ReconciliationAssumption ==
    /\ IsFiniteSet(Places)
    /\ IsFiniteSet(Records)
    /\ SourceOf \in [Records -> Sources]
    /\ Score \in [RecordVersions \X PlaceVersions -> Int]
    /\ Near \subseteq RecordVersions \X PlaceVersions
    /\ \A pair \in RecordVersions \X PlaceVersions : Score[pair] >= 0 => pair \in Near
    /\ LowConfidenceThreshold \in Nat
    /\ ConfidentThreshold \in Nat
    /\ MaxParams \in Nat
    /\ Imports \subseteq SUBSET Places
    /\ MaxFaults \in Nat
    /\ MaxStreamed \in Nat
    /\ MaxQueueId \in Nat
    /\ MaxAttempts \in Nat \ {0}
    /\ CanonicalRuns \cap ExternalRuns = {}
    /\ None \notin Places \cup PlaceVersions \cup Records \cup RecordVersions
    /\ None \notin QueueRow \cup Work \cup Decision

VARIABLES
    place,      \* the places table: the version of each place, or None
    refs,       \* places.external_ids: the record attached for each source
    queue,      \* the unmatched_external row of each record, or None
    nextId,     \* the next id of unmatched_external
    faults,     \* statements that have failed, and crashes
    pc,         \* where each run is
    touched,    \* the places a canonical run has upserted (touchedIDs)
    rows,       \* queue rows its sweep has still to look at
    work,       \* the record a run is matching and with which version
    decision,   \* the matcher's decision on it
    tally,      \* SweepResult of a canonical run, counters of an external one
    resolved,   \* history: records some external run resolved without error
    attached    \* history: records some run attached to a place

tables == <<place, refs, queue, nextId>>
history == <<resolved, attached>>
vars == <<place, refs, queue, nextId, faults, pc, touched, rows, work,
          decision, tally, resolved, attached>>

Counters == {"considered", "confident", "low", "none", "errors"}
NoCounts == [c \in Counters |-> 0]

Init ==
    /\ place = [p \in Places |-> None]
    /\ refs = [p \in Places |-> [s \in Sources |-> None]]
    /\ queue = [r \in Records |-> None]
    /\ nextId = 1
    /\ faults = 0
    /\ pc = [x \in Runs |-> "start"]
    /\ touched = [x \in Runs |-> {}]
    /\ rows = [x \in Runs |-> {}]
    /\ work = [x \in Runs |-> None]
    /\ decision = [x \in Runs |-> None]
    /\ tally = [x \in Runs |-> NoCounts]
    /\ resolved = {}
    /\ attached = {}

\* How a run can have ended.
Ended == {"done", "failed", "unswept"}

Goto(x, label) == pc' = [pc EXCEPT ![x] = label]

Count(x, counter) == tally' = [tally EXCEPT ![x][counter] = @ + 1]

\* A statement of the run fails.
StatementFails ==
    /\ faults < MaxFaults
    /\ faults' = faults + 1

-----------------------------------------------------------------------------
(* Match                                                                   *)

\* Active places near the record in a compatible category.
Candidates(version) ==
    {p \in Places : place[p] # None /\ Score[<<version, place[p]>>] >= 0}

\* The candidates with the highest score; the first of them in distance order
\* is chosen, which this model leaves open.
Best(version) ==
    {p \in Candidates(version) :
        \A q \in Candidates(version) :
            Score[<<version, place[q]>>] <= Score[<<version, place[p]>>]}

NoMatch == [kind |-> "none", place |-> None]

\* The decision if the matcher picks p.
Decide(version, p) ==
    LET score == Score[<<version, place[p]>>] IN
    CASE score >= ConfidentThreshold -> [kind |-> "confident", place |-> p]
      [] score < ConfidentThreshold /\ score >= LowConfidenceThreshold ->
            [kind |-> "low", place |-> p]
      [] OTHER -> NoMatch

\* Every decision Match can return for the record.
Match(version) ==
    IF Candidates(version) = {} THEN {NoMatch}
    ELSE {Decide(version, p) : p \in Best(version)}

-----------------------------------------------------------------------------
(* Canonical runs: import, then sweep                                      *)

\* One batch: the upsert writes every column of its list, external_ids among
\* them, with the canonical source's own reference only; the returned ids are
\* added to touchedIDs. A source emits a place once.
UpsertBatch(x) ==
    /\ pc[x] = "start"
    /\ \E batch \in SUBSET (Places \ touched[x]) \ {{}} :
          /\ \E import \in Imports : touched[x] \cup batch \subseteq import
          /\ \E version \in [batch -> PlaceVersions] :
                place' = [p \in Places |-> IF p \in batch THEN version[p] ELSE place[p]]
          /\ refs' = [p \in Places |->
                         IF p \in batch THEN [s \in Sources |-> None] ELSE refs[p]]
          /\ touched' = [touched EXCEPT ![x] = @ \cup batch]
    /\ UNCHANGED <<queue, nextId, faults, pc, rows, work, decision, tally, history>>

\* A failed batch, or a failed profile write after it, fails the run.
ImportFails(x) ==
    /\ pc[x] = "start"
    /\ StatementFails
    /\ Goto(x, "failed")
    /\ UNCHANGED <<tables, touched, rows, work, decision, tally, history>>

\* The source is exhausted; with nothing touched the sweep does nothing.
FinishImport(x) ==
    /\ pc[x] = "start"
    /\ touched[x] \in Imports
    /\ Goto(x, IF touched[x] = {} THEN "done" ELSE "find")
    /\ UNCHANGED <<tables, faults, touched, rows, work, decision, tally, history>>

\* Faulty variant: rows that were tried often enough are not selected again.
NearTouchedFewAttempts(x) ==
    {[rec |-> r, id |-> queue[r].id, version |-> queue[r].version] :
        r \in {s \in Records :
                  /\ queue[s] # None
                  /\ queue[s].attempts < MaxAttempts
                  /\ \E p \in touched[x] : <<queue[s].version, place[p]>> \in Near}}

\* The queue rows within the radius of a touched place, each once.
NearTouched(x) ==
    {[rec |-> r, id |-> queue[r].id, version |-> queue[r].version] :
        r \in {s \in Records :
                  /\ queue[s] # None
                  /\ \E p \in touched[x] : <<queue[s].version, place[p]>> \in Near}}

\* FindCandidatesNearTouched: one bind parameter per touched id and one for the
\* radius. Past the limit the query fails and the sweep with it, every time.
FindNearTouched(x) ==
    /\ pc[x] = "find"
    /\ IF Cardinality(touched[x]) + 1 > MaxParams
       THEN Goto(x, "unswept") /\ UNCHANGED <<rows, tally>>
       ELSE /\ rows' = [rows EXCEPT ![x] = NearTouched(x)]
            /\ tally' = [tally EXCEPT ![x].considered = Cardinality(NearTouched(x))]
            /\ Goto(x, "next")
    /\ UNCHANGED <<tables, faults, touched, work, decision, history>>

FindFails(x) ==
    /\ pc[x] = "find"
    /\ StatementFails
    /\ Goto(x, "unswept")
    /\ UNCHANGED <<tables, touched, rows, work, decision, tally, history>>

\* The next row of the sweep is matched against the places as they are now.
MatchRow(x) ==
    /\ pc[x] = "next"
    /\ \E row \in rows[x] :
          /\ rows' = [rows EXCEPT ![x] = @ \ {row}]
          /\ work' = [work EXCEPT ![x] = row]
          /\ \E d \in Match(row.version) :
                /\ decision' = [decision EXCEPT ![x] = d]
                /\ Goto(x, IF d.kind = "none" THEN "bump" ELSE "attach")
    /\ UNCHANGED <<tables, faults, touched, tally, history>>

MatchRowFails(x) ==
    /\ pc[x] = "next"
    /\ \E row \in rows[x] : rows' = [rows EXCEPT ![x] = @ \ {row}]
    /\ StatementFails
    /\ Count(x, "errors")
    /\ UNCHANGED <<tables, pc, touched, work, decision, history>>

\* AttachExternalRef sets the record as the reference of its source.
Attach(x) ==
    LET rec == work[x].rec IN
    /\ refs' = [refs EXCEPT ![decision[x].place][SourceOf[rec]] = rec]
    /\ attached' = attached \cup {rec}

AttachRow(x) ==
    /\ pc[x] = "attach"
    /\ Attach(x)
    /\ Goto(x, "delete")
    /\ UNCHANGED <<place, queue, nextId, faults, touched, rows, work, decision,
                   tally, resolved>>

\* Faulty variant: a failed attach is counted but falls through to the delete.
AttachRowFailsThrough(x) ==
    /\ pc[x] = "attach"
    /\ StatementFails
    /\ Count(x, "errors")
    /\ Goto(x, "delete")
    /\ UNCHANGED <<tables, touched, rows, work, decision, history>>

\* An error leaves the row in the queue for the next sweep.
AttachRowFails(x) ==
    /\ pc[x] = "attach"
    /\ StatementFails
    /\ Count(x, "errors")
    /\ Goto(x, "next")
    /\ UNCHANGED <<tables, touched, rows, work, decision, history>>

\* The queue row this sweep selected is still there, under the same id.
StillQueued(x) ==
    queue[work[x].rec] # None /\ queue[work[x].rec].id = work[x].id

\* Faulty variant: DELETE ... WHERE source = ? AND source_id = ?.
DeleteByRecord(x) ==
    /\ pc[x] = "delete"
    /\ queue' = [queue EXCEPT ![work[x].rec] = None]
    /\ Count(x, decision[x].kind)
    /\ Goto(x, "next")
    /\ UNCHANGED <<place, refs, nextId, faults, touched, rows, work, decision, history>>

\* DELETE ... WHERE id = ?; a row that is gone is an error.
DeleteRow(x) ==
    /\ pc[x] = "delete"
    /\ IF StillQueued(x)
       THEN /\ queue' = [queue EXCEPT ![work[x].rec] = None]
            /\ Count(x, decision[x].kind)
       ELSE UNCHANGED queue /\ Count(x, "errors")
    /\ Goto(x, "next")
    /\ UNCHANGED <<place, refs, nextId, faults, touched, rows, work, decision, history>>

DeleteRowFails(x) ==
    /\ pc[x] = "delete"
    /\ StatementFails
    /\ Count(x, "errors")
    /\ Goto(x, "next")
    /\ UNCHANGED <<tables, touched, rows, work, decision, history>>

OneMore(attempts) == IF attempts < MaxAttempts THEN attempts + 1 ELSE attempts

\* UPDATE ... SET attempts = attempts + 1 WHERE id = ?.
BumpRow(x) ==
    /\ pc[x] = "bump"
    /\ IF StillQueued(x)
       THEN /\ queue' = [queue EXCEPT ![work[x].rec].attempts = OneMore(@)]
            /\ Count(x, "none")
       ELSE UNCHANGED queue /\ Count(x, "errors")
    /\ Goto(x, "next")
    /\ UNCHANGED <<place, refs, nextId, faults, touched, rows, work, decision, history>>

\* Faulty variant: no continue after a failed bump, so it is also a no-match.
BumpRowFailsCountedTwice(x) ==
    /\ pc[x] = "bump"
    /\ StatementFails
    /\ tally' = [tally EXCEPT ![x].errors = @ + 1, ![x].none = @ + 1]
    /\ Goto(x, "next")
    /\ UNCHANGED <<tables, touched, rows, work, decision, history>>

BumpRowFails(x) ==
    /\ pc[x] = "bump"
    /\ StatementFails
    /\ Count(x, "errors")
    /\ Goto(x, "next")
    /\ UNCHANGED <<tables, touched, rows, work, decision, history>>

EndSweep(x) ==
    /\ pc[x] = "next"
    /\ rows[x] = {}
    /\ Goto(x, "done")
    /\ UNCHANGED <<tables, faults, touched, rows, work, decision, tally, history>>

\* The next ingest of the same source starts from nothing but the tables.
Restart(x) ==
    /\ pc[x] \in Ended
    /\ Goto(x, "start")
    /\ touched' = [touched EXCEPT ![x] = {}]
    /\ rows' = [rows EXCEPT ![x] = {}]
    /\ work' = [work EXCEPT ![x] = None]
    /\ decision' = [decision EXCEPT ![x] = None]
    /\ tally' = [tally EXCEPT ![x] = NoCounts]
    /\ UNCHANGED <<tables, faults, history>>

-----------------------------------------------------------------------------
(* External runs: resolve each record                                      *)

\* The source streams a record; it may stream the same one again.
StreamRecord(x) ==
    /\ pc[x] = "start"
    /\ tally[x].considered < MaxStreamed
    /\ Count(x, "considered")

\* Resolve matches it against the places as they are now.
MatchRecord(x) ==
    /\ StreamRecord(x)
    /\ \E rec \in Records, version \in RecordVersions :
          /\ work' = [work EXCEPT ![x] = [rec |-> rec, id |-> 0, version |-> version]]
          /\ \E d \in Match(version) :
                /\ decision' = [decision EXCEPT ![x] = d]
                /\ Goto(x, IF d.kind = "none" THEN "enqueue" ELSE "attach")
    /\ UNCHANGED <<tables, faults, touched, rows, history>>

\* A failed match is counted and the stream goes on.
MatchRecordFails(x) ==
    /\ pc[x] = "start"
    /\ tally[x].considered < MaxStreamed
    /\ StatementFails
    /\ tally' = [tally EXCEPT ![x].considered = @ + 1, ![x].errors = @ + 1]
    /\ UNCHANGED <<tables, pc, touched, rows, work, decision, history>>

\* The record is attached; a queue row it may have from before stays.
AttachRecord(x) ==
    /\ pc[x] = "attach"
    /\ Attach(x)
    /\ resolved' = resolved \cup {work[x].rec}
    /\ Count(x, decision[x].kind)
    /\ Goto(x, "start")
    /\ UNCHANGED <<place, queue, nextId, faults, touched, rows, work, decision>>

\* Faulty variant: a new row starts with the zero value of attempts.
RequeuedFromZero(row, version) ==
    IF row = None
    THEN [id |-> nextId, version |-> version, attempts |-> 0]
    ELSE [row EXCEPT !.version = version, !.attempts = OneMore(@)]

\* The row of a record: a new one, or its own with the fields refreshed.
Requeued(row, version) ==
    IF row = None
    THEN [id |-> nextId, version |-> version, attempts |-> 1]
    ELSE [row EXCEPT !.version = version, !.attempts = OneMore(@)]

\* INSERT ... ON CONFLICT (source, source_id) DO UPDATE.
EnqueueRecord(x) ==
    LET rec == work[x].rec IN
    /\ pc[x] = "enqueue"
    /\ queue[rec] = None => nextId <= MaxQueueId
    /\ queue' = [queue EXCEPT ![rec] = Requeued(@, work[x].version)]
    /\ nextId' = IF queue[rec] = None THEN nextId + 1 ELSE nextId
    /\ resolved' = resolved \cup {rec}
    /\ Count(x, "none")
    /\ Goto(x, "start")
    /\ UNCHANGED <<place, refs, faults, touched, rows, work, decision, attached>>

\* A failed attach or enqueue is counted and the stream goes on.
ApplyFails(x) ==
    /\ pc[x] \in {"attach", "enqueue"}
    /\ StatementFails
    /\ Count(x, "errors")
    /\ Goto(x, "start")
    /\ UNCHANGED <<tables, touched, rows, work, decision, history>>

EndStream(x) ==
    /\ pc[x] = "start"
    /\ Goto(x, "done")
    /\ UNCHANGED <<tables, faults, touched, rows, work, decision, tally, history>>

-----------------------------------------------------------------------------
\* The process dies between two statements.
Crash(x) ==
    /\ pc[x] \notin Ended
    /\ StatementFails
    /\ Goto(x, "failed")
    /\ UNCHANGED <<tables, touched, rows, work, decision, tally, history>>

Sweep(x) ==
    \/ FindNearTouched(x) \/ FindFails(x)
    \/ MatchRow(x) \/ MatchRowFails(x)
    \/ AttachRow(x) \/ AttachRowFails(x)
    \/ DeleteRow(x) \/ DeleteRowFails(x)
    \/ BumpRow(x) \/ BumpRowFails(x)
    \/ EndSweep(x)

Canonical(x) ==
    UpsertBatch(x) \/ ImportFails(x) \/ FinishImport(x) \/ Sweep(x)

External(x) ==
    \/ MatchRecord(x) \/ MatchRecordFails(x)
    \/ AttachRecord(x) \/ EnqueueRecord(x) \/ ApplyFails(x)
    \/ EndStream(x)

Next ==
    \/ \E x \in CanonicalRuns : Canonical(x) \/ Restart(x)
    \/ \E x \in ExternalRuns : External(x)
    \/ \E x \in Runs : Crash(x)

Spec == Init /\ [][Next]_vars

\* A run that is going keeps going, and canonical ingests are run again and
\* again (the schedule is the operator's); faults are the environment's.
FairSpec ==
    /\ Spec
    /\ \A x \in CanonicalRuns : WF_vars(Canonical(x)) /\ WF_vars(Restart(x))
    /\ \A x \in ExternalRuns : WF_vars(External(x))

-----------------------------------------------------------------------------
(* Properties                                                              *)

Labels == {"start", "find", "next", "attach", "delete", "bump", "enqueue"} \cup Ended

TypeOK ==
    /\ place \in [Places -> PlaceVersions \cup {None}]
    /\ refs \in [Places -> [Sources -> Records \cup {None}]]
    /\ queue \in [Records -> QueueRow \cup {None}]
    /\ nextId \in 1 .. MaxQueueId + 1
    /\ faults \in 0 .. MaxFaults
    /\ pc \in [Runs -> Labels]
    /\ touched \in [Runs -> SUBSET Places]
    /\ rows \in [Runs -> SUBSET Pending]
    /\ work \in [Runs -> Work \cup {None}]
    /\ decision \in [Runs -> Decision \cup {None}]
    /\ tally \in [Runs -> [Counters -> Nat]]
    /\ resolved \subseteq Records
    /\ attached \subseteq Records

\* A record that Resolve took without an error is not dropped: it is queued
\* until some run has attached it, through every failed statement and crash
\* (Sweep deletes a row only after AttachExternalRef succeeded).
NoRecordDropped ==
    \A rec \in resolved : queue[rec] # None \/ rec \in attached

\* Seen from the records alone, reconciliation is the ledger: whatever runs
\* overlap and fail, no statement changes a record's standing in another way.
Ledger == INSTANCE RecordLedger WITH
    delivered <- resolved,
    waiting <- {rec \in Records : queue[rec] # None}

ImplementsLedger == Ledger!Spec

\* The run's counters account for every row or record it considered, whichever
\* statements failed: one outcome each, except the ones still to be looked at.
Outcomes(x) ==
    tally[x].confident + tally[x].low + tally[x].none + tally[x].errors

InHand(x) == IF pc[x] \in {"attach", "delete", "bump", "enqueue"} THEN 1 ELSE 0

EveryRowCounted ==
    /\ \A x \in CanonicalRuns :
          pc[x] # "failed" =>
              tally[x].considered = Outcomes(x) + InHand(x) + Cardinality(rows[x])
    /\ \A x \in ExternalRuns :
          pc[x] # "failed" => tally[x].considered = Outcomes(x) + InHand(x)

\* A sweep deletes only the row it selected: a record queued anew while the
\* sweep was at it, under another id, stays queued.
DeletesWhatItSelected ==
    [][\A rec \in Records :
          queue[rec] # None /\ queue'[rec] = None =>
              \E x \in CanonicalRuns :
                  /\ pc[x] = "delete" /\ pc'[x] = "next"
                  /\ work[x].rec = rec /\ work[x].id = queue[rec].id]_vars

\* The doc's promise of retry: if from some time on every queued record has a
\* match, the imports that keep coming empty the queue.
Matchable(rec) == queue[rec] # None => NoMatch \notin Match(queue[rec].version)

QueueDrains ==
    (<>[](\A rec \in Records : Matchable(rec)))
        => \A rec \in Records : []<>(queue[rec] = None)

\* internal/place/README.md: UpsertBatch does not touch external_ids on conflict
\* updates, so a reference that was attached stays.
RefsSurviveImport ==
    [][\A p \in Places, s \in Sources : refs[p][s] # None => refs'[p][s] # None]_vars
=============================================================================
