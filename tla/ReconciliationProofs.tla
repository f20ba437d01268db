------------------------ MODULE ReconciliationProofs ------------------------
(***************************************************************************)
(* Theorems about Reconciliation, for any number of canonical and external *)
(* runs, places, records and faults: no record is dropped, a sweep deletes *)
(* only what it selected and counts every row, and the statements of all   *)
(* runs together implement the ledger of records.                          *)
(***************************************************************************)
EXTENDS Reconciliation, FiniteSetTheorems, TLAPS

Busy == {"attach", "delete", "bump", "enqueue"}

\* Where the runs of each kind can be.
WhereRunsAre ==
    /\ \A x \in CanonicalRuns :
          pc[x] \in {"start", "find", "next", "attach", "delete", "bump"} \cup Ended
    /\ \A x \in ExternalRuns : pc[x] \in {"start", "attach", "enqueue"} \cup Ended

\* A run between two statements on a record knows the record and the decision,
\* and to attach it is to attach it somewhere.
WorkInHand ==
    \A x \in Runs :
        pc[x] \in Busy =>
            /\ work[x] \in Work /\ decision[x] \in Decision
            /\ pc[x] = "attach" => decision[x].place \in Places

\* Whatever is queued, or a sweep has in its hands, was delivered once.
DeliveredFirst ==
    /\ \A rec \in Records : queue[rec] # None => rec \in resolved
    /\ \A x \in CanonicalRuns :
          /\ \A row \in rows[x] : row.rec \in resolved
          /\ pc[x] \in Busy => work[x].rec \in resolved

\* A sweep deletes a record's row only after it has attached the record.
AttachedBeforeDeleted ==
    \A x \in Runs : pc[x] = "delete" => work[x].rec \in attached

Inv ==
    /\ TypeOK
    /\ WhereRunsAre
    /\ WorkInHand
    /\ DeliveredFirst
    /\ AttachedBeforeDeleted
    /\ NoRecordDropped

LEMMA RunKinds ==
    /\ CanonicalRuns \subseteq Runs /\ ExternalRuns \subseteq Runs
    /\ CanonicalRuns \cap ExternalRuns = {}
BY ReconciliationAssumption DEF Runs

\* A match decides for one of the places, or for none.
LEMMA MatchType ==
  ASSUME NEW version, NEW d \in Match(version)
  PROVE  d \in Decision /\ (d.kind # "none" => d.place \in Places)
<1>1. CASE d = NoMatch
  BY <1>1 DEF NoMatch, Decision, Kinds
<1>2. CASE \E p \in Best(version) : d = Decide(version, p)
  <2> PICK p \in Best(version) : d = Decide(version, p)
    BY <1>2
  <2>1. p \in Places
    BY DEF Best, Candidates
  <2> DEFINE score == Score[<<version, place[p]>>]
  <2>2. \/ d = [kind |-> "confident", place |-> p]
        \/ d = [kind |-> "low", place |-> p]
        \/ d = NoMatch
    <3>1. CASE score >= ConfidentThreshold
      BY <3>1 DEF Decide
    <3>2. CASE ~(score >= ConfidentThreshold) /\ score < ConfidentThreshold
                 /\ score >= LowConfidenceThreshold
      BY <3>2 DEF Decide
    <3>3. CASE ~(score >= ConfidentThreshold)
                 /\ ~(score < ConfidentThreshold /\ score >= LowConfidenceThreshold)
      BY <3>3 DEF Decide
    <3> QED BY <3>1, <3>2, <3>3
  <2> QED BY <2>1, <2>2 DEF NoMatch, Decision, Kinds
<1> QED BY <1>1, <1>2 DEF Match

LEMMA InitInv == ASSUME Init PROVE Inv
BY ReconciliationAssumption
   DEF Init, Inv, TypeOK, WhereRunsAre, WorkInHand, DeliveredFirst, AttachedBeforeDeleted,
       NoRecordDropped, Busy, Ended, Labels, NoCounts, Counters, Runs

LEMMA CountType ==
  ASSUME TypeOK, NEW x \in Runs, NEW k \in Counters, Count(x, k)
  PROVE  tally' \in [Runs -> [Counters -> Nat]]
BY DEF TypeOK, Count

LEMMA NearTouchedType ==
  ASSUME Inv, NEW x \in CanonicalRuns
  PROVE  /\ NearTouched(x) \subseteq Pending
         /\ \A row \in NearTouched(x) : row.rec \in resolved
         /\ IsFiniteSet(NearTouched(x))
         /\ Cardinality(NearTouched(x)) \in Nat
<1> DEFINE S == {s \in Records :
                  /\ queue[s] # None
                  /\ \E p \in touched[x] : <<queue[s].version, place[p]>> \in Near}
           f == [r \in S |-> [rec |-> r, id |-> queue[r].id, version |-> queue[r].version]]
<1>1. \A r \in S : queue[r] \in QueueRow /\ r \in resolved /\ r \in Records
  BY DEF Inv, TypeOK, DeliveredFirst
<1>2. NearTouched(x) = {[rec |-> r, id |-> queue[r].id, version |-> queue[r].version] : r \in S}
  BY DEF NearTouched
<1>3. NearTouched(x) \subseteq Pending /\ \A row \in NearTouched(x) : row.rec \in resolved
  BY <1>1, <1>2 DEF Pending, QueueRow
<1>4. IsFiniteSet(S)
  BY ReconciliationAssumption, FS_Subset
<1>5. f \in Surjection(S, NearTouched(x))
  BY <1>2 DEF Surjection
<1>6. IsFiniteSet(NearTouched(x))
  BY <1>4, <1>5, FS_Surjection
<1> QED BY <1>3, <1>6, FS_CardinalityType

LEMMA UpsertBatchInv == ASSUME Inv, NEW x \in CanonicalRuns, UpsertBatch(x) PROVE Inv'
BY ReconciliationAssumption, RunKinds
   DEF UpsertBatch, Inv, TypeOK, WhereRunsAre, WorkInHand, DeliveredFirst, AttachedBeforeDeleted,
       NoRecordDropped, Busy, Ended, Labels, Goto, Count, StatementFails, Counters,
       Kinds, tables, history

LEMMA ImportFailsInv == ASSUME Inv, NEW x \in CanonicalRuns, ImportFails(x) PROVE Inv'
BY ReconciliationAssumption, RunKinds
   DEF ImportFails, Inv, TypeOK, WhereRunsAre, WorkInHand, DeliveredFirst, AttachedBeforeDeleted,
       NoRecordDropped, Busy, Ended, Labels, Goto, Count, StatementFails, Counters,
       Kinds, tables, history

LEMMA FinishImportInv == ASSUME Inv, NEW x \in CanonicalRuns, FinishImport(x) PROVE Inv'
BY ReconciliationAssumption, RunKinds
   DEF FinishImport, Inv, TypeOK, WhereRunsAre, WorkInHand, DeliveredFirst, AttachedBeforeDeleted,
       NoRecordDropped, Busy, Ended, Labels, Goto, Count, StatementFails, Counters,
       Kinds, tables, history

LEMMA FindNearTouchedInv == ASSUME Inv, NEW x \in CanonicalRuns, FindNearTouched(x) PROVE Inv'
<1> DEFINE found == NearTouched(x)
           n == Cardinality(NearTouched(x))
<1>1. /\ found \subseteq Pending /\ \A row \in found : row.rec \in resolved
      /\ n \in Nat
  BY NearTouchedType
<1>2. /\ pc[x] = "find"
      /\ UNCHANGED <<tables, faults, touched, work, decision, history>>
      /\ \/ pc' = [pc EXCEPT ![x] = "unswept"] /\ UNCHANGED <<rows, tally>>
         \/ /\ rows' = [rows EXCEPT ![x] = found]
            /\ tally' = [tally EXCEPT ![x].considered = n]
            /\ pc' = [pc EXCEPT ![x] = "next"]
  BY DEF FindNearTouched, Goto
<1> HIDE DEF found, n
<1>3. TypeOK'
  <2>1. tally' \in [Runs -> [Counters -> Nat]] /\ rows' \in [Runs -> SUBSET Pending]
    <3>1. "considered" \in Counters
      BY DEF Counters
    <3>2. tally \in [Runs -> [Counters -> Nat]] /\ rows \in [Runs -> SUBSET Pending]
      BY DEF Inv, TypeOK
    <3>3. [tally[x] EXCEPT !.considered = n] \in [Counters -> Nat]
      BY <1>1, <3>1, <3>2, RunKinds
    <3>4. tally' = tally \/ tally' = [tally EXCEPT ![x] = [tally[x] EXCEPT !.considered = n]]
      BY <1>2, <3>2, RunKinds
    <3>5. tally' \in [Runs -> [Counters -> Nat]]
      BY <3>2, <3>3, <3>4, RunKinds
    <3>6. rows' \in [Runs -> SUBSET Pending]
      BY <1>1, <1>2, <3>2, RunKinds
    <3> QED BY <3>5, <3>6
  <2>2. pc' \in [Runs -> Labels]
    BY <1>2 DEF Inv, TypeOK, Labels, Ended
  <2> QED BY <1>2, <2>1, <2>2 DEF Inv, TypeOK, tables, history
<1>4. WhereRunsAre' /\ WorkInHand' /\ AttachedBeforeDeleted'
  BY <1>2, RunKinds
     DEF Inv, TypeOK, WhereRunsAre, WorkInHand, AttachedBeforeDeleted, Busy, Ended, tables, history
<1>5. DeliveredFirst' /\ NoRecordDropped'
  BY <1>1, <1>2, RunKinds
     DEF Inv, TypeOK, DeliveredFirst, NoRecordDropped, Busy, tables, history
<1> QED BY <1>3, <1>4, <1>5 DEF Inv

LEMMA FindFailsInv == ASSUME Inv, NEW x \in CanonicalRuns, FindFails(x) PROVE Inv'
BY ReconciliationAssumption, RunKinds
   DEF FindFails, Inv, TypeOK, WhereRunsAre, WorkInHand, DeliveredFirst, AttachedBeforeDeleted,
       NoRecordDropped, Busy, Ended, Labels, Goto, Count, StatementFails, Counters,
       Kinds, tables, history

LEMMA MatchRowInv == ASSUME Inv, NEW x \in CanonicalRuns, MatchRow(x) PROVE Inv'
<1> PICK row \in rows[x] : \E d \in Match(row.version) :
       /\ rows' = [rows EXCEPT ![x] = @ \ {row}]
       /\ work' = [work EXCEPT ![x] = row]
       /\ decision' = [decision EXCEPT ![x] = d]
       /\ pc' = [pc EXCEPT ![x] = IF d.kind = "none" THEN "bump" ELSE "attach"]
  BY DEF MatchRow, Goto
<1> PICK d \in Match(row.version) :
       /\ rows' = [rows EXCEPT ![x] = @ \ {row}]
       /\ work' = [work EXCEPT ![x] = row]
       /\ decision' = [decision EXCEPT ![x] = d]
       /\ pc' = [pc EXCEPT ![x] = IF d.kind = "none" THEN "bump" ELSE "attach"]
  OBVIOUS
<1>1. /\ pc[x] = "next" /\ x \in Runs
      /\ UNCHANGED <<tables, faults, touched, tally, history>>
  BY RunKinds DEF MatchRow
<1>2. d \in Decision /\ (d.kind # "none" => d.place \in Places)
  BY MatchType
<1>3. row \in Work /\ row.rec \in resolved
  BY <1>1 DEF Inv, TypeOK, DeliveredFirst, Pending, Work
<1>4. TypeOK'
  BY <1>1, <1>2, <1>3 DEF Inv, TypeOK, Labels, Ended, tables, history
<1>5. WhereRunsAre' /\ WorkInHand' /\ AttachedBeforeDeleted'
  BY <1>1, <1>2, <1>3, RunKinds
     DEF Inv, TypeOK, WhereRunsAre, WorkInHand, AttachedBeforeDeleted, Busy, Ended, tables, history
<1>6. DeliveredFirst' /\ NoRecordDropped'
  BY <1>1, <1>3, RunKinds
     DEF Inv, TypeOK, DeliveredFirst, NoRecordDropped, Busy, tables, history
<1> QED BY <1>4, <1>5, <1>6 DEF Inv

LEMMA MatchRowFailsInv == ASSUME Inv, NEW x \in CanonicalRuns, MatchRowFails(x) PROVE Inv'
BY ReconciliationAssumption, RunKinds
   DEF MatchRowFails, Inv, TypeOK, WhereRunsAre, WorkInHand, DeliveredFirst, AttachedBeforeDeleted,
       NoRecordDropped, Busy, Ended, Labels, Goto, Count, StatementFails, Counters,
       Kinds, tables, history

LEMMA AttachRowInv == ASSUME Inv, NEW x \in CanonicalRuns, AttachRow(x) PROVE Inv'
BY ReconciliationAssumption, RunKinds
   DEF AttachRow, Attach, Inv, TypeOK, WhereRunsAre, WorkInHand, DeliveredFirst, AttachedBeforeDeleted,
       NoRecordDropped, Busy, Ended, Labels, Goto, Count, StatementFails, Counters,
       Kinds, tables, history

LEMMA AttachRowFailsInv == ASSUME Inv, NEW x \in CanonicalRuns, AttachRowFails(x) PROVE Inv'
BY ReconciliationAssumption, RunKinds
   DEF AttachRowFails, Inv, TypeOK, WhereRunsAre, WorkInHand, DeliveredFirst, AttachedBeforeDeleted,
       NoRecordDropped, Busy, Ended, Labels, Goto, Count, StatementFails, Counters,
       Kinds, tables, history

LEMMA DeleteRowInv == ASSUME Inv, NEW x \in CanonicalRuns, DeleteRow(x) PROVE Inv'
<1> DEFINE rec == work[x].rec
<1>1. /\ x \in Runs /\ work[x] \in Work /\ rec \in Records
      /\ decision[x].kind \in Counters /\ "none" \in Counters /\ "errors" \in Counters
      /\ None \notin QueueRow
  BY RunKinds, ReconciliationAssumption
     DEF DeleteRow, Inv, TypeOK, WorkInHand, Busy, Work, Decision, Kinds, Counters
<1>2. /\ queue' = queue \/ queue' = [queue EXCEPT ![rec] = None]
      /\ rec \in attached
  BY <1>1 DEF DeleteRow, Inv, AttachedBeforeDeleted
<1>3. tally' \in [Runs -> [Counters -> Nat]]
  BY <1>1, CountType DEF DeleteRow, Inv
<1>4. /\ pc' = [pc EXCEPT ![x] = "next"]
      /\ UNCHANGED <<place, refs, nextId, faults, touched, rows, work, decision, history>>
  BY DEF DeleteRow, Goto
<1> HIDE DEF rec
<1>5. TypeOK'
  <2>1. queue' \in [Records -> QueueRow \cup {None}] /\ pc' \in [Runs -> Labels]
    BY <1>1, <1>2, <1>4 DEF Inv, TypeOK, Labels, Ended
  <2> QED BY <1>3, <1>4, <2>1 DEF Inv, TypeOK, history
<1>6. WhereRunsAre' /\ WorkInHand' /\ AttachedBeforeDeleted'
  BY <1>4, RunKinds
     DEF Inv, TypeOK, WhereRunsAre, WorkInHand, AttachedBeforeDeleted, Busy, Ended, history
<1>7. DeliveredFirst' /\ NoRecordDropped'
  BY <1>1, <1>2, <1>4, RunKinds
     DEF Inv, TypeOK, DeliveredFirst, NoRecordDropped, Busy, history
<1> QED BY <1>5, <1>6, <1>7 DEF Inv

LEMMA DeleteRowFailsInv == ASSUME Inv, NEW x \in CanonicalRuns, DeleteRowFails(x) PROVE Inv'
BY ReconciliationAssumption, RunKinds
   DEF DeleteRowFails, Inv, TypeOK, WhereRunsAre, WorkInHand, DeliveredFirst, AttachedBeforeDeleted,
       NoRecordDropped, Busy, Ended, Labels, Goto, Count, StatementFails, Counters,
       Kinds, tables, history

LEMMA BumpRowInv == ASSUME Inv, NEW x \in CanonicalRuns, BumpRow(x) PROVE Inv'
<1> DEFINE rec == work[x].rec
<1>1. /\ x \in Runs /\ work[x] \in Work /\ rec \in Records
      /\ decision[x].kind \in Counters /\ "none" \in Counters /\ "errors" \in Counters
      /\ None \notin QueueRow
  BY RunKinds, ReconciliationAssumption
     DEF BumpRow, Inv, TypeOK, WorkInHand, Busy, Work, Decision, Kinds, Counters
<1>2. \/ queue' = queue
      \/ \E row \in QueueRow : queue[rec] # None /\ queue' = [queue EXCEPT ![rec] = row]
  <2>1. CASE StillQueued(x)
    <3>1. queue[rec] \in QueueRow /\ queue[rec] # None
      BY <1>1, <2>1 DEF StillQueued, Inv, TypeOK
    <3> DEFINE row == [queue[rec] EXCEPT !.attempts = OneMore(@)]
    <3>2. row \in QueueRow
      BY <3>1, ReconciliationAssumption DEF OneMore, QueueRow
    <3>3. queue' = [queue EXCEPT ![rec] = row]
      BY <1>1, <2>1 DEF BumpRow, Inv, TypeOK
    <3> QED BY <3>1, <3>2, <3>3
  <2>2. CASE ~StillQueued(x)
    BY <2>2 DEF BumpRow
  <2> QED BY <2>1, <2>2
<1>3. tally' \in [Runs -> [Counters -> Nat]]
  BY <1>1, CountType DEF BumpRow, Inv
<1>4. /\ pc' = [pc EXCEPT ![x] = "next"]
      /\ UNCHANGED <<place, refs, nextId, faults, touched, rows, work, decision, history>>
  BY DEF BumpRow, Goto
<1> HIDE DEF rec
<1>5. TypeOK'
  <2>1. queue' \in [Records -> QueueRow \cup {None}] /\ pc' \in [Runs -> Labels]
    BY <1>1, <1>2, <1>4 DEF Inv, TypeOK, Labels, Ended
  <2> QED BY <1>3, <1>4, <2>1 DEF Inv, TypeOK, history
<1>6. WhereRunsAre' /\ WorkInHand' /\ AttachedBeforeDeleted'
  BY <1>4, RunKinds
     DEF Inv, TypeOK, WhereRunsAre, WorkInHand, AttachedBeforeDeleted, Busy, Ended, history
<1>7. DeliveredFirst' /\ NoRecordDropped'
  BY <1>1, <1>2, <1>4, RunKinds
     DEF Inv, TypeOK, DeliveredFirst, NoRecordDropped, Busy, history
<1> QED BY <1>5, <1>6, <1>7 DEF Inv

LEMMA BumpRowFailsInv == ASSUME Inv, NEW x \in CanonicalRuns, BumpRowFails(x) PROVE Inv'
BY ReconciliationAssumption, RunKinds
   DEF BumpRowFails, Inv, TypeOK, WhereRunsAre, WorkInHand, DeliveredFirst, AttachedBeforeDeleted,
       NoRecordDropped, Busy, Ended, Labels, Goto, Count, StatementFails, Counters,
       Kinds, tables, history

LEMMA EndSweepInv == ASSUME Inv, NEW x \in CanonicalRuns, EndSweep(x) PROVE Inv'
BY ReconciliationAssumption, RunKinds
   DEF EndSweep, Inv, TypeOK, WhereRunsAre, WorkInHand, DeliveredFirst, AttachedBeforeDeleted,
       NoRecordDropped, Busy, Ended, Labels, Goto, Count, StatementFails, Counters,
       Kinds, tables, history

LEMMA RestartInv == ASSUME Inv, NEW x \in CanonicalRuns, Restart(x) PROVE Inv'
BY ReconciliationAssumption, RunKinds
   DEF Restart, NoCounts, Inv, TypeOK, WhereRunsAre, WorkInHand, DeliveredFirst, AttachedBeforeDeleted,
       NoRecordDropped, Busy, Ended, Labels, Goto, Count, StatementFails, Counters,
       Kinds, tables, history

LEMMA MatchRecordInv == ASSUME Inv, NEW x \in ExternalRuns, MatchRecord(x) PROVE Inv'
BY ReconciliationAssumption, RunKinds, MatchType
   DEF MatchRecord, StreamRecord, Work, Inv, TypeOK, WhereRunsAre, WorkInHand, DeliveredFirst, AttachedBeforeDeleted,
       NoRecordDropped, Busy, Ended, Labels, Goto, Count, StatementFails, Counters,
       Kinds, tables, history

LEMMA MatchRecordFailsInv == ASSUME Inv, NEW x \in ExternalRuns, MatchRecordFails(x) PROVE Inv'
BY ReconciliationAssumption, RunKinds
   DEF MatchRecordFails, Inv, TypeOK, WhereRunsAre, WorkInHand, DeliveredFirst, AttachedBeforeDeleted,
       NoRecordDropped, Busy, Ended, Labels, Goto, Count, StatementFails, Counters,
       Kinds, tables, history

LEMMA AttachRecordInv == ASSUME Inv, NEW x \in ExternalRuns, AttachRecord(x) PROVE Inv'
BY ReconciliationAssumption, RunKinds
   DEF AttachRecord, Attach, Decision, Work, Inv, TypeOK, WhereRunsAre, WorkInHand, DeliveredFirst, AttachedBeforeDeleted,
       NoRecordDropped, Busy, Ended, Labels, Goto, Count, StatementFails, Counters,
       Kinds, tables, history

LEMMA EnqueueRecordInv == ASSUME Inv, NEW x \in ExternalRuns, EnqueueRecord(x) PROVE Inv'
<1> DEFINE rec == work[x].rec
<1>1. /\ x \in Runs /\ work[x] \in Work /\ rec \in Records
      /\ decision[x].kind \in Counters /\ "none" \in Counters /\ "errors" \in Counters
      /\ None \notin QueueRow
  BY RunKinds, ReconciliationAssumption
     DEF EnqueueRecord, Inv, TypeOK, WorkInHand, Busy, Work, Decision, Kinds, Counters
<1>2. \E row \in QueueRow : queue' = [queue EXCEPT ![rec] = row]
  <2> DEFINE row == Requeued(queue[rec], work[x].version)
  <2>1. row \in QueueRow
    <3>1. CASE queue[rec] = None
      BY <1>1, <3>1, ReconciliationAssumption
         DEF EnqueueRecord, Requeued, QueueRow, Work, Inv, TypeOK
    <3>2. CASE queue[rec] # None
      <4>1. queue[rec] \in QueueRow /\ work[x].version \in RecordVersions
        BY <1>1, <3>2 DEF Inv, TypeOK, Work
      <4>2. OneMore(queue[rec].attempts) \in 1 .. MaxAttempts
        BY <4>1, ReconciliationAssumption DEF OneMore, QueueRow
      <4> QED BY <3>2, <4>1, <4>2 DEF Requeued, QueueRow
    <3> QED BY <3>1, <3>2
  <2>2. queue' = [queue EXCEPT ![rec] = row]
    BY <1>1 DEF EnqueueRecord, Inv, TypeOK
  <2> QED BY <2>1, <2>2
<1>3. tally' \in [Runs -> [Counters -> Nat]]
  BY <1>1, CountType DEF EnqueueRecord, Inv
<1>4. /\ pc' = [pc EXCEPT ![x] = "start"]
      /\ UNCHANGED <<place, refs, faults, touched, rows, work, decision, attached>>
      /\ resolved' = resolved \cup {rec}
      /\ nextId' \in 1 .. MaxQueueId + 1
  BY ReconciliationAssumption DEF EnqueueRecord, Goto, Inv, TypeOK
<1> HIDE DEF rec
<1>5. TypeOK'
  <2>1. queue' \in [Records -> QueueRow \cup {None}] /\ pc' \in [Runs -> Labels]
    BY <1>1, <1>2, <1>4 DEF Inv, TypeOK, Labels, Ended
  <2> QED BY <1>1, <1>3, <1>4, <2>1 DEF Inv, TypeOK
<1>6. WhereRunsAre' /\ WorkInHand' /\ AttachedBeforeDeleted'
  BY <1>4, RunKinds
     DEF Inv, TypeOK, WhereRunsAre, WorkInHand, AttachedBeforeDeleted, Busy, Ended
<1>7. DeliveredFirst' /\ NoRecordDropped'
  BY <1>1, <1>2, <1>4, RunKinds
     DEF Inv, TypeOK, DeliveredFirst, NoRecordDropped, Busy
<1> QED BY <1>5, <1>6, <1>7 DEF Inv

LEMMA ApplyFailsInv == ASSUME Inv, NEW x \in ExternalRuns, ApplyFails(x) PROVE Inv'
BY ReconciliationAssumption, RunKinds
   DEF ApplyFails, Inv, TypeOK, WhereRunsAre, WorkInHand, DeliveredFirst, AttachedBeforeDeleted,
       NoRecordDropped, Busy, Ended, Labels, Goto, Count, StatementFails, Counters,
       Kinds, tables, history

LEMMA EndStreamInv == ASSUME Inv, NEW x \in ExternalRuns, EndStream(x) PROVE Inv'
BY ReconciliationAssumption, RunKinds
   DEF EndStream, Inv, TypeOK, WhereRunsAre, WorkInHand, DeliveredFirst, AttachedBeforeDeleted,
       NoRecordDropped, Busy, Ended, Labels, Goto, Count, StatementFails, Counters,
       Kinds, tables, history

LEMMA CrashInv == ASSUME Inv, NEW x \in Runs, Crash(x) PROVE Inv'
BY ReconciliationAssumption, RunKinds
   DEF Crash, Inv, TypeOK, WhereRunsAre, WorkInHand, DeliveredFirst, AttachedBeforeDeleted,
       NoRecordDropped, Busy, Ended, Labels, Goto, Count, StatementFails, Counters,
       Kinds, tables, history

LEMMA StutterInv == ASSUME Inv, UNCHANGED vars PROVE Inv'
BY DEF vars, Inv, TypeOK, WhereRunsAre, WorkInHand, DeliveredFirst, AttachedBeforeDeleted,
       NoRecordDropped, Busy

LEMMA StepInv == ASSUME Inv, [Next]_vars PROVE Inv'
<1>1. ASSUME NEW x \in CanonicalRuns, Canonical(x) \/ Restart(x) PROVE Inv'
  BY <1>1, UpsertBatchInv, ImportFailsInv, FinishImportInv, FindNearTouchedInv, FindFailsInv,
     MatchRowInv, MatchRowFailsInv, AttachRowInv, AttachRowFailsInv, DeleteRowInv,
     DeleteRowFailsInv, BumpRowInv, BumpRowFailsInv, EndSweepInv, RestartInv
     DEF Canonical, Sweep
<1>2. ASSUME NEW x \in ExternalRuns, External(x) PROVE Inv'
  BY <1>2, MatchRecordInv, MatchRecordFailsInv, AttachRecordInv, EnqueueRecordInv,
     ApplyFailsInv, EndStreamInv
     DEF External
<1>3. ASSUME NEW x \in Runs, Crash(x) PROVE Inv'
  BY <1>3, CrashInv
<1> QED BY <1>1, <1>2, <1>3, StutterInv DEF Next

LEMMA Invariant == Spec => []Inv
BY InitInv, StepInv, PTL DEF Spec

-----------------------------------------------------------------------------
(* Nothing is dropped                                                      *)

\* The variables keep their types, for any runs, records and places.
THEOREM ReconciliationTypes == Spec => []TypeOK
BY Invariant, PTL DEF Inv

\* A record an external run resolved is queued or has been attached, whichever
\* statements of whichever overlapping runs fail.
THEOREM NothingDropped == Spec => []NoRecordDropped
BY Invariant, PTL DEF Inv

-----------------------------------------------------------------------------
(* The steps of the ledger                                                 *)

Waiting == {rec \in Records : queue[rec] # None}

LEMMA LedgerInit == ASSUME Init PROVE Ledger!Init
BY DEF Init, Ledger!Init

\* Every statement that touches neither the queue nor the histories.
LEMMA Untouched ==
  ASSUME UNCHANGED <<queue, resolved, attached>>
  PROVE  UNCHANGED Ledger!ledger
BY DEF Ledger!ledger

LEMMA AttachRowLedger ==
  ASSUME Inv, NEW x \in CanonicalRuns, AttachRow(x)
  PROVE  Ledger!PlaceLater(work[x].rec) /\ work[x].rec \in Records
BY RunKinds
   DEF AttachRow, Attach, Ledger!PlaceLater, Inv, DeliveredFirst, WorkInHand, Work, Busy

LEMMA AttachRecordLedger ==
  ASSUME Inv, NEW x \in ExternalRuns, AttachRecord(x)
  PROVE  Ledger!Place(work[x].rec) /\ work[x].rec \in Records
BY RunKinds DEF AttachRecord, Attach, Ledger!Place, Inv, WorkInHand, Work, Busy

LEMMA EnqueueRecordLedger ==
  ASSUME Inv, NEW x \in ExternalRuns, EnqueueRecord(x)
  PROVE  Ledger!Wait(work[x].rec) /\ work[x].rec \in Records
<1> DEFINE rec == work[x].rec
<1>1. rec \in Records
  BY RunKinds DEF EnqueueRecord, Inv, WorkInHand, Work, Busy
<1>2. Inv'
  BY EnqueueRecordInv
<1>3. queue' = [queue EXCEPT ![rec] = Requeued(@, work[x].version)]
  BY DEF EnqueueRecord
<1>4. queue'[rec] # None
  <2>1. CASE queue[rec] = None
    <3>1. queue'[rec] = [id |-> nextId, version |-> work[x].version, attempts |-> 1]
      BY <1>1, <1>3, <2>1 DEF Requeued, Inv, TypeOK
    <3>2. queue'[rec] \in QueueRow
      BY <1>1, <2>1, <3>1, ReconciliationAssumption, RunKinds
         DEF EnqueueRecord, QueueRow, Inv, TypeOK, WorkInHand, Work, Busy
    <3> QED BY <3>2, ReconciliationAssumption
  <2>2. CASE queue[rec] # None
    <3>1. queue[rec] \in QueueRow /\ work[x].version \in RecordVersions
      BY <1>1, <2>2, RunKinds DEF EnqueueRecord, Inv, TypeOK, WorkInHand, Work, Busy
    <3>2. OneMore(queue[rec].attempts) \in 1 .. MaxAttempts
      BY <3>1, ReconciliationAssumption DEF OneMore, QueueRow
    <3>3. queue'[rec] \in QueueRow
      BY <1>1, <1>3, <2>2, <3>1, <3>2 DEF Requeued, QueueRow, Inv, TypeOK
    <3> QED BY <3>3, ReconciliationAssumption
  <2> QED BY <2>1, <2>2
<1>5. Waiting' = Waiting \cup {rec}
  BY <1>1, <1>3, <1>4 DEF Waiting, Inv, TypeOK
<1> QED BY <1>1, <1>5 DEF EnqueueRecord, Ledger!Wait, Waiting

LEMMA DeleteRowLedger ==
  ASSUME Inv, NEW x \in CanonicalRuns, DeleteRow(x)
  PROVE  /\ work[x].rec \in Records
         /\ Ledger!Leave(work[x].rec) \/ UNCHANGED Ledger!ledger
<1> DEFINE rec == work[x].rec
<1>1. rec \in Records /\ rec \in attached
  BY RunKinds DEF DeleteRow, Inv, WorkInHand, AttachedBeforeDeleted, Work, Busy
<1>2. CASE StillQueued(x)
  <2>1. queue[rec] # None /\ queue' = [queue EXCEPT ![rec] = None]
    BY <1>2 DEF DeleteRow, StillQueued
  <2>2. rec \in Waiting /\ Waiting' = Waiting \ {rec}
    BY <1>1, <2>1 DEF Waiting, Inv, TypeOK
  <2> QED BY <1>1, <2>2 DEF DeleteRow, history, Ledger!Leave, Waiting
<1>3. CASE ~StillQueued(x)
  <2>1. UNCHANGED <<queue, resolved, attached>>
    BY <1>3 DEF DeleteRow, history
  <2> QED BY <1>1, <2>1, Untouched
<1> QED BY <1>2, <1>3

LEMMA BumpRowLedger ==
  ASSUME Inv, NEW x \in CanonicalRuns, BumpRow(x)
  PROVE  UNCHANGED Ledger!ledger
<1> DEFINE rec == work[x].rec
<1>1. rec \in Records
  BY RunKinds DEF BumpRow, Inv, WorkInHand, Work, Busy
<1>2. CASE StillQueued(x)
  <2>1. queue[rec] \in QueueRow
    BY <1>1, <1>2 DEF StillQueued, Inv, TypeOK
  <2> DEFINE row == [queue[rec] EXCEPT !.attempts = OneMore(@)]
  <2>2. row \in QueueRow
    BY <2>1, ReconciliationAssumption DEF OneMore, QueueRow
  <2>3. row # None /\ queue[rec] # None
    BY <1>2, <2>2, ReconciliationAssumption DEF StillQueued
  <2>4. queue' = [queue EXCEPT ![rec] = row]
    BY <1>1, <1>2 DEF BumpRow, Inv, TypeOK
  <2> HIDE DEF row
  <2>5. Waiting' = Waiting
    BY <1>1, <2>3, <2>4 DEF Waiting, Inv, TypeOK
  <2> QED BY <2>5 DEF BumpRow, history, Ledger!ledger, Waiting
<1>3. CASE ~StillQueued(x)
  BY <1>3, Untouched DEF BumpRow, history
<1> QED BY <1>2, <1>3

LEMMA LedgerStep ==
  ASSUME Inv, [Next]_vars
  PROVE  [Ledger!Next]_Ledger!ledger
<1>1. ASSUME NEW x \in CanonicalRuns, Canonical(x) \/ Restart(x)
      PROVE  [Ledger!Next]_Ledger!ledger
  <2>1. CASE AttachRow(x)
    BY <2>1, AttachRowLedger DEF Ledger!Next
  <2>2. CASE DeleteRow(x)
    <3>1. work[x].rec \in Records
      BY <2>2, DeleteRowLedger
    <3>2. Ledger!Leave(work[x].rec) \/ UNCHANGED Ledger!ledger
      BY <2>2, DeleteRowLedger
    <3>3. Ledger!Leave(work[x].rec) => Ledger!Next
      BY <3>1 DEF Ledger!Next, Ledger!Wait, Ledger!Leave
    <3> QED BY <3>2, <3>3
  <2>3. CASE BumpRow(x)
    BY <2>3, BumpRowLedger
  <2>4. CASE \/ UpsertBatch(x) \/ ImportFails(x) \/ FinishImport(x) \/ Restart(x)
             \/ FindNearTouched(x) \/ FindFails(x) \/ MatchRow(x) \/ MatchRowFails(x)
             \/ AttachRowFails(x) \/ DeleteRowFails(x) \/ BumpRowFails(x) \/ EndSweep(x)
    <3>1. UNCHANGED <<queue, resolved, attached>>
      BY <2>4
         DEF UpsertBatch, ImportFails, FinishImport, Restart, FindNearTouched, FindFails,
             MatchRow, MatchRowFails, AttachRowFails, DeleteRowFails, BumpRowFails, EndSweep,
             tables, history
    <3> QED BY <3>1, Untouched
  <2> QED BY <1>1, <2>1, <2>2, <2>3, <2>4 DEF Canonical, Sweep
<1>2. ASSUME NEW x \in ExternalRuns, External(x)
      PROVE  [Ledger!Next]_Ledger!ledger
  <2>1. CASE AttachRecord(x)
    BY <2>1, AttachRecordLedger DEF Ledger!Next
  <2>2. CASE EnqueueRecord(x)
    <3>1. work[x].rec \in Records /\ Ledger!Wait(work[x].rec)
      BY <2>2, EnqueueRecordLedger
    <3>2. Ledger!Next
      BY <3>1 DEF Ledger!Next, Ledger!Wait, Ledger!Leave
    <3> QED BY <3>2
  <2>3. CASE MatchRecord(x) \/ MatchRecordFails(x) \/ ApplyFails(x) \/ EndStream(x)
    BY <2>3, Untouched
       DEF MatchRecord, MatchRecordFails, ApplyFails, EndStream, tables, history
  <2> QED BY <1>2, <2>1, <2>2, <2>3 DEF External
<1>3. ASSUME NEW x \in Runs, Crash(x) PROVE [Ledger!Next]_Ledger!ledger
  BY <1>3, Untouched DEF Crash, tables, history
<1>4. CASE UNCHANGED vars
  BY <1>4, Untouched DEF vars
<1> QED BY <1>1, <1>2, <1>3, <1>4 DEF Next

\* Sweeps, resolvers, failures and crashes of any number of runs change a record's
\* standing only as the ledger allows.
THEOREM LedgerRefinement == Spec => ImplementsLedger
BY Invariant, LedgerInit, LedgerStep, PTL DEF Spec, ImplementsLedger, Ledger!Spec

-----------------------------------------------------------------------------
(* Only the selected row is deleted                                        *)

LEMMA DeleteStep ==
  ASSUME Inv, Next, NEW rec \in Records, queue[rec] # None, queue'[rec] = None
  PROVE  \E x \in CanonicalRuns :
            /\ pc[x] = "delete" /\ pc'[x] = "next"
            /\ work[x].rec = rec /\ work[x].id = queue[rec].id
<1>1. ASSUME NEW x \in ExternalRuns, EnqueueRecord(x) PROVE FALSE
  BY <1>1, EnqueueRecordLedger DEF Ledger!Wait
<1>2. ASSUME NEW x \in CanonicalRuns, BumpRow(x) PROVE FALSE
  BY <1>2, BumpRowLedger DEF Ledger!ledger
<1>3. ASSUME NEW x \in CanonicalRuns, DeleteRow(x)
      PROVE  /\ pc[x] = "delete" /\ pc'[x] = "next"
             /\ work[x].rec = rec /\ work[x].id = queue[rec].id
  <2>1. StillQueued(x)
    BY <1>3 DEF DeleteRow
  <2>2. work[x].rec = rec
    BY <1>3, <2>1 DEF DeleteRow, Inv, TypeOK
  <2> QED BY <1>3, <2>1, <2>2, RunKinds DEF DeleteRow, StillQueued, Goto, Inv, TypeOK
<1>4. ASSUME UNCHANGED queue PROVE FALSE
  BY <1>4
<1>5. ASSUME NEW x \in CanonicalRuns, Canonical(x) \/ Restart(x), ~DeleteRow(x), ~BumpRow(x)
      PROVE  UNCHANGED queue
  BY <1>5
     DEF Canonical, Sweep, UpsertBatch, ImportFails, FinishImport, Restart, FindNearTouched,
         FindFails, MatchRow, MatchRowFails, AttachRow, AttachRowFails, DeleteRowFails,
         BumpRowFails, EndSweep, tables
<1>6. ASSUME NEW x \in ExternalRuns, External(x), ~EnqueueRecord(x) PROVE UNCHANGED queue
  BY <1>6 DEF External, MatchRecord, MatchRecordFails, AttachRecord, ApplyFails, EndStream, tables
<1>7. ASSUME NEW x \in Runs, Crash(x) PROVE UNCHANGED queue
  BY <1>7 DEF Crash, tables
<1> QED BY <1>1, <1>2, <1>3, <1>4, <1>5, <1>6, <1>7 DEF Next

\* A row that leaves the queue is the one, by its id, that a sweep had in hand.
THEOREM DeletesItsOwn == Spec => DeletesWhatItSelected
<1>1. ASSUME Inv, [Next]_vars
      PROVE  [\A rec \in Records :
                 queue[rec] # None /\ queue'[rec] = None =>
                     \E x \in CanonicalRuns :
                         /\ pc[x] = "delete" /\ pc'[x] = "next"
                         /\ work[x].rec = rec /\ work[x].id = queue[rec].id]_vars
  BY <1>1, DeleteStep
<1> QED BY Invariant, <1>1, PTL DEF Spec, DeletesWhatItSelected

-----------------------------------------------------------------------------
(* Every row is counted                                                    *)

SweepBalance(x) ==
    pc[x] # "failed" =>
        tally[x].considered = Outcomes(x) + InHand(x) + Cardinality(rows[x])

StreamBalance(x) ==
    pc[x] # "failed" => tally[x].considered = Outcomes(x) + InHand(x)

\* A sweep that has not found its rows has counted none.
Fresh(x) ==
    /\ IsFiniteSet(rows[x])
    /\ pc[x] \in {"start", "find"} => tally[x] = NoCounts /\ rows[x] = {}

Counted ==
    /\ \A x \in CanonicalRuns : SweepBalance(x) /\ Fresh(x)
    /\ \A x \in ExternalRuns : StreamBalance(x)

LEMMA CountedIsProperty == Counted => EveryRowCounted
BY DEF Counted, SweepBalance, StreamBalance, EveryRowCounted

LEMMA TallyType ==
  ASSUME TypeOK, NEW x \in Runs
  PROVE  /\ tally[x].considered \in Nat /\ tally[x].confident \in Nat
         /\ tally[x].low \in Nat /\ tally[x].none \in Nat /\ tally[x].errors \in Nat
         /\ Outcomes(x) \in Nat /\ InHand(x) \in {0, 1}
BY DEF TypeOK, Counters, Outcomes, InHand

\* An outcome is counted once.
LEMMA OneOutcome ==
  ASSUME TypeOK, NEW x \in Runs, NEW k \in {"confident", "low", "none", "errors"}, Count(x, k)
  PROVE  /\ tally'[x].considered = tally[x].considered
         /\ Outcomes(x)' = Outcomes(x) + 1
<1>1. tally'[x] = [tally[x] EXCEPT ![k] = @ + 1] /\ tally[x] \in [Counters -> Nat]
  BY DEF TypeOK, Count
<1>2. CASE k = "confident"
  BY <1>1, <1>2 DEF Counters, Outcomes
<1>3. CASE k = "low"
  BY <1>1, <1>3 DEF Counters, Outcomes
<1>4. CASE k = "none"
  BY <1>1, <1>4 DEF Counters, Outcomes
<1>5. CASE k = "errors"
  BY <1>1, <1>5 DEF Counters, Outcomes
<1> QED BY <1>2, <1>3, <1>4, <1>5

\* A step of one run leaves the accounts of the others alone.
LEMMA OthersCounted ==
  ASSUME Counted, NEW x \in Runs,
         \A y \in Runs \ {x} :
            pc'[y] = pc[y] /\ tally'[y] = tally[y] /\ rows'[y] = rows[y],
         x \in CanonicalRuns => SweepBalance(x)' /\ Fresh(x)',
         x \in ExternalRuns => StreamBalance(x)'
  PROVE  Counted'
BY RunKinds DEF Counted, SweepBalance, StreamBalance, Fresh, Outcomes, InHand

LEMMA InitCounted == ASSUME Init PROVE Counted
BY FS_EmptySet, RunKinds
   DEF Init, Counted, SweepBalance, StreamBalance, Fresh, NoCounts, Counters, Outcomes, InHand

\* The steps of a sweep that settle the row it has in hand.
LEMMA SettledRow ==
  ASSUME Inv, Counted, NEW x \in CanonicalRuns, pc[x] \in Busy,
         NEW k \in {"confident", "low", "none", "errors"}, Count(x, k),
         Goto(x, "next"), UNCHANGED rows
  PROVE  Counted'
<1>1. /\ x \in Runs /\ tally'[x].considered = tally[x].considered
      /\ Outcomes(x)' = Outcomes(x) + 1
  BY RunKinds, OneOutcome DEF Inv
<1>2. InHand(x) = 1 /\ InHand(x)' = 0 /\ pc'[x] = "next"
  BY <1>1 DEF InHand, Busy, Goto, Inv, TypeOK
<1>3. Outcomes(x) \in Nat /\ Cardinality(rows[x]) \in Nat
  BY <1>1, TallyType, FS_CardinalityType DEF Inv, Counted, Fresh
<1>4. SweepBalance(x)' /\ Fresh(x)'
  BY <1>1, <1>2, <1>3 DEF Counted, SweepBalance, Fresh, Busy
<1>5. \A y \in Runs \ {x} : pc'[y] = pc[y] /\ tally'[y] = tally[y] /\ rows'[y] = rows[y]
  BY <1>1 DEF Count, Goto, Inv, TypeOK
<1> QED BY <1>1, <1>4, <1>5, RunKinds, OthersCounted

LEMMA SettledRecord ==
  ASSUME Inv, Counted, NEW x \in ExternalRuns, pc[x] \in Busy,
         NEW k \in {"confident", "low", "none", "errors"}, Count(x, k),
         Goto(x, "start"), UNCHANGED rows
  PROVE  Counted'
<1>1. /\ x \in Runs /\ tally'[x].considered = tally[x].considered
      /\ Outcomes(x)' = Outcomes(x) + 1
  BY RunKinds, OneOutcome DEF Inv
<1>2. InHand(x) = 1 /\ InHand(x)' = 0
  BY <1>1 DEF InHand, Busy, Goto, Inv, TypeOK
<1>3. Outcomes(x) \in Nat
  BY <1>1, TallyType DEF Inv
<1>4. StreamBalance(x)'
  BY <1>1, <1>2, <1>3 DEF Counted, StreamBalance, Busy
<1>5. \A y \in Runs \ {x} : pc'[y] = pc[y] /\ tally'[y] = tally[y] /\ rows'[y] = rows[y]
  BY <1>1 DEF Count, Goto, Inv, TypeOK
<1> QED BY <1>1, <1>4, <1>5, RunKinds, OthersCounted

\* A decision is counted under its kind.
LEMMA KindOutcome ==
  ASSUME Inv, NEW x \in Runs, pc[x] \in Busy
  PROVE  decision[x].kind \in {"confident", "low", "none", "errors"}
BY DEF Inv, WorkInHand, Decision, Kinds

\* A step from nothing in hand to nothing in hand that counts nothing.
LEMMA MovedOn ==
  ASSUME Inv, Counted, NEW x \in Runs, NEW label \in Ended \cup {"find"},
         pc[x] \notin Busy, label = "find" => pc[x] = "start",
         label = "unswept" => pc[x] # "failed", label = "done" => pc[x] # "failed",
         Goto(x, label), UNCHANGED <<tally, rows>>
  PROVE  Counted'
<1>1. pc'[x] = label /\ InHand(x) = 0 /\ InHand(x)' = 0
  BY DEF Goto, InHand, Busy, Ended, Inv, TypeOK
<1>2. x \in CanonicalRuns => SweepBalance(x)' /\ Fresh(x)'
  BY <1>1 DEF Counted, SweepBalance, Fresh, Outcomes, Ended
<1>3. x \in ExternalRuns => StreamBalance(x)'
  BY <1>1 DEF Counted, StreamBalance, Outcomes, Ended
<1>4. \A y \in Runs \ {x} : pc'[y] = pc[y] /\ tally'[y] = tally[y] /\ rows'[y] = rows[y]
  BY DEF Goto, Inv, TypeOK
<1> QED BY <1>2, <1>3, <1>4, OthersCounted

LEMMA CrashCounted == ASSUME Inv, Counted, NEW x \in Runs, Crash(x) PROVE Counted'
<1>1. pc'[x] = "failed" /\ UNCHANGED <<tally, rows>>
  BY DEF Crash, Goto, Inv, TypeOK
<1>2. \A y \in Runs \ {x} : pc'[y] = pc[y] /\ tally'[y] = tally[y] /\ rows'[y] = rows[y]
  BY <1>1 DEF Crash, Goto, Inv, TypeOK
<1>3. x \in CanonicalRuns => SweepBalance(x)' /\ Fresh(x)'
  BY <1>1 DEF Counted, SweepBalance, Fresh
<1>4. x \in ExternalRuns => StreamBalance(x)'
  BY <1>1 DEF StreamBalance
<1> QED BY <1>2, <1>3, <1>4, OthersCounted

LEMMA RestartCounted == ASSUME Inv, Counted, NEW x \in CanonicalRuns, Restart(x) PROVE Counted'
<1>1. x \in Runs /\ pc'[x] = "start" /\ tally'[x] = NoCounts /\ rows'[x] = {}
  BY RunKinds DEF Restart, Goto, Inv, TypeOK
<1>2. \A y \in Runs \ {x} : pc'[y] = pc[y] /\ tally'[y] = tally[y] /\ rows'[y] = rows[y]
  BY DEF Restart, Goto, Inv, TypeOK
<1>3. SweepBalance(x)' /\ Fresh(x)'
  BY <1>1, FS_EmptySet DEF SweepBalance, Fresh, Outcomes, InHand, NoCounts, Counters
<1> QED BY <1>1, <1>2, <1>3, RunKinds, OthersCounted

LEMMA FindCounted ==
  ASSUME Inv, Counted, NEW x \in CanonicalRuns, FindNearTouched(x)
  PROVE  Counted'
<1> DEFINE found == NearTouched(x)
           n == Cardinality(NearTouched(x))
<1>1. IsFiniteSet(found) /\ n \in Nat /\ n = Cardinality(found)
  BY NearTouchedType
<1>2. /\ x \in Runs /\ pc[x] = "find" /\ pc[x] \notin Busy
      /\ \/ Goto(x, "unswept") /\ UNCHANGED <<tally, rows>>
         \/ /\ rows' = [rows EXCEPT ![x] = found]
            /\ tally' = [tally EXCEPT ![x].considered = n]
            /\ Goto(x, "next")
  BY RunKinds DEF FindNearTouched, Busy
<1> HIDE DEF found, n
<1>3. CASE Goto(x, "unswept") /\ UNCHANGED <<tally, rows>>
  BY <1>2, <1>3, MovedOn DEF Ended
<1>4. CASE /\ rows' = [rows EXCEPT ![x] = found]
           /\ tally' = [tally EXCEPT ![x].considered = n]
           /\ Goto(x, "next")
  <2>1. tally[x] = NoCounts
    BY <1>2 DEF Counted, Fresh
  <2>2. /\ tally'[x] = [NoCounts EXCEPT !.considered = n]
        /\ rows'[x] = found /\ pc'[x] = "next"
    BY <1>2, <1>4, <2>1 DEF Goto, Inv, TypeOK
  <2>3. tally'[x].considered = n /\ Outcomes(x)' = 0 /\ InHand(x)' = 0
    BY <2>2 DEF NoCounts, Counters, Outcomes, InHand
  <2>4. SweepBalance(x)' /\ Fresh(x)'
    BY <1>1, <2>2, <2>3 DEF SweepBalance, Fresh
  <2>5. \A y \in Runs \ {x} : pc'[y] = pc[y] /\ tally'[y] = tally[y] /\ rows'[y] = rows[y]
    BY <1>4 DEF Goto, Inv, TypeOK
  <2> QED BY <1>2, <2>4, <2>5, RunKinds, OthersCounted
<1> QED BY <1>2, <1>3, <1>4

\* A sweep takes a row: it has it in hand, or has failed on it.
LEMMA TakenRow ==
  ASSUME Inv, Counted, NEW x \in CanonicalRuns, pc[x] = "next",
         NEW row \in rows[x], rows' = [rows EXCEPT ![x] = @ \ {row}],
         \/ UNCHANGED tally /\ \E label \in Busy : Goto(x, label)
         \/ Count(x, "errors") /\ UNCHANGED pc
  PROVE  Counted'
<1>1. x \in Runs /\ IsFiniteSet(rows[x]) /\ rows'[x] = rows[x] \ {row} /\ InHand(x) = 0
  BY RunKinds DEF Inv, TypeOK, Counted, Fresh, InHand
<1>2. /\ IsFiniteSet(rows'[x]) /\ Cardinality(rows[x]) \in Nat
      /\ Cardinality(rows'[x]) = Cardinality(rows[x]) - 1
  <2> DEFINE S == rows[x]
  <2>1. IsFiniteSet(S) /\ row \in S
    BY <1>1
  <2> HIDE DEF S
  <2>2. /\ IsFiniteSet(S \ {row}) /\ Cardinality(S) \in Nat
        /\ Cardinality(S \ {row}) = Cardinality(S) - 1
    BY <2>1, FS_RemoveElement, FS_CardinalityType
  <2> QED BY <1>1, <2>2 DEF S
<1>3. /\ tally'[x].considered = tally[x].considered
      /\ Outcomes(x)' + InHand(x)' = Outcomes(x) + 1
      /\ pc'[x] \notin {"start", "find"}
      /\ Outcomes(x)' \in Nat /\ InHand(x)' \in {0, 1}
  <2>1. CASE UNCHANGED tally /\ \E label \in Busy : Goto(x, label)
    <3>1. pc'[x] \in Busy
      BY <1>1, <2>1 DEF Goto, Inv, TypeOK
    <3>2. Outcomes(x)' = Outcomes(x) /\ InHand(x)' = 1
      BY <2>1, <3>1 DEF Outcomes, InHand, Busy
    <3> QED BY <1>1, <2>1, <3>1, <3>2, TallyType DEF Inv, Busy
  <2>2. CASE Count(x, "errors") /\ UNCHANGED pc
    <3>1. Outcomes(x)' = Outcomes(x) + 1 /\ tally'[x].considered = tally[x].considered
      BY <1>1, <2>2, OneOutcome DEF Inv
    <3>2. InHand(x)' = 0
      BY <2>2 DEF InHand
    <3> QED BY <1>1, <2>2, <3>1, <3>2, TallyType DEF Inv
  <2> QED BY <2>1, <2>2
<1>4. tally[x].considered = Outcomes(x) + Cardinality(rows[x]) /\ Outcomes(x) \in Nat
  BY <1>1, <1>2, TallyType DEF Counted, SweepBalance, Inv
<1>5. SweepBalance(x)' /\ Fresh(x)'
  BY <1>2, <1>3, <1>4 DEF SweepBalance, Fresh
<1>6. \A y \in Runs \ {x} : pc'[y] = pc[y] /\ tally'[y] = tally[y] /\ rows'[y] = rows[y]
  BY <1>1 DEF Count, Goto, Inv, TypeOK
<1> QED BY <1>1, <1>5, <1>6, RunKinds, OthersCounted

\* The row stays in hand between its two statements.
LEMMA AttachRowCounted == ASSUME Inv, Counted, NEW x \in CanonicalRuns, AttachRow(x) PROVE Counted'
<1>1. /\ x \in Runs /\ pc[x] = "attach" /\ pc'[x] = "delete" /\ UNCHANGED <<tally, rows>>
      /\ \A y \in Runs \ {x} : pc'[y] = pc[y]
  BY RunKinds DEF AttachRow, Goto, Inv, TypeOK
<1>2. SweepBalance(x)' /\ Fresh(x)'
  BY <1>1 DEF Counted, SweepBalance, Fresh, Outcomes, InHand
<1> QED BY <1>1, <1>2, RunKinds, OthersCounted

\* An external run takes a record from its source.
LEMMA StreamedRecord ==
  ASSUME Inv, Counted, NEW x \in ExternalRuns, pc[x] = "start", UNCHANGED rows,
         \/ Count(x, "considered") /\ \E label \in Busy : Goto(x, label)
         \/ /\ tally' = [tally EXCEPT ![x].considered = @ + 1, ![x].errors = @ + 1]
            /\ UNCHANGED pc
  PROVE  Counted'
<1>1. x \in Runs /\ InHand(x) = 0 /\ tally[x] \in [Counters -> Nat]
  BY RunKinds DEF InHand, Inv, TypeOK
<1>2. /\ tally'[x].considered = tally[x].considered + 1
      /\ Outcomes(x)' + InHand(x)' = Outcomes(x) + 1
  <2>1. CASE Count(x, "considered") /\ \E label \in Busy : Goto(x, label)
    <3>1. pc'[x] \in Busy
      BY <1>1, <2>1 DEF Goto, Inv, TypeOK
    <3>2. tally'[x] = [tally[x] EXCEPT !["considered"] = @ + 1]
      BY <1>1, <2>1 DEF Count, Inv, TypeOK
    <3>3. Outcomes(x)' = Outcomes(x) /\ tally'[x].considered = tally[x].considered + 1
      BY <1>1, <3>2 DEF Outcomes, Counters
    <3>4. InHand(x)' = 1
      BY <3>1 DEF InHand, Busy
    <3> QED BY <1>1, <3>3, <3>4, TallyType DEF Inv
  <2>2. CASE /\ tally' = [tally EXCEPT ![x].considered = @ + 1, ![x].errors = @ + 1]
             /\ UNCHANGED pc
    <3>1. tally'[x] = [tally[x] EXCEPT !.considered = @ + 1, !.errors = @ + 1]
      BY <1>1, <2>2 DEF Inv, TypeOK
    <3>2. Outcomes(x)' = Outcomes(x) + 1 /\ tally'[x].considered = tally[x].considered + 1
      BY <1>1, <3>1 DEF Outcomes, Counters
    <3>3. InHand(x)' = 0
      BY <2>2 DEF InHand
    <3> QED BY <1>1, <3>2, <3>3, TallyType DEF Inv
  <2> QED BY <2>1, <2>2
<1>3. tally[x].considered = Outcomes(x) /\ Outcomes(x) \in Nat
  BY <1>1, TallyType DEF Counted, StreamBalance, Inv
<1>4. StreamBalance(x)'
  BY <1>2, <1>3 DEF StreamBalance
<1>5. \A y \in Runs \ {x} : pc'[y] = pc[y] /\ tally'[y] = tally[y] /\ rows'[y] = rows[y]
  BY <1>1 DEF Count, Goto, Inv, TypeOK
<1> QED BY <1>1, <1>4, <1>5, RunKinds, OthersCounted

LEMMA SweepCounted == ASSUME Inv, Counted, NEW x \in CanonicalRuns, Sweep(x) PROVE Counted'
<1>1. CASE FindNearTouched(x)
  BY <1>1, FindCounted
<1>2. CASE FindFails(x) \/ EndSweep(x)
  BY <1>2, RunKinds, MovedOn DEF FindFails, EndSweep, Busy, Ended
<1>3. CASE MatchRow(x)
  <2>1. PICK row \in rows[x] :
           /\ rows' = [rows EXCEPT ![x] = @ \ {row}]
           /\ \E label \in Busy : Goto(x, label)
    BY <1>3 DEF MatchRow, Busy
  <2> QED BY <1>3, <2>1, TakenRow DEF MatchRow
<1>4. CASE MatchRowFails(x)
  <2>1. PICK row \in rows[x] : rows' = [rows EXCEPT ![x] = @ \ {row}]
    BY <1>4 DEF MatchRowFails
  <2> QED BY <1>4, <2>1, TakenRow DEF MatchRowFails
<1>5. CASE AttachRow(x)
  BY <1>5, AttachRowCounted
<1>6. CASE AttachRowFails(x) \/ DeleteRowFails(x) \/ BumpRowFails(x)
  BY <1>6, SettledRow DEF AttachRowFails, DeleteRowFails, BumpRowFails, Busy
<1>7. CASE DeleteRow(x)
  BY <1>7, SettledRow, KindOutcome, RunKinds DEF DeleteRow, Busy
<1>8. CASE BumpRow(x)
  BY <1>8, SettledRow DEF BumpRow, Busy
<1> QED BY <1>1, <1>2, <1>3, <1>4, <1>5, <1>6, <1>7, <1>8 DEF Sweep

LEMMA CanonicalCounted ==
  ASSUME Inv, Counted, NEW x \in CanonicalRuns, Canonical(x) \/ Restart(x)
  PROVE  Counted'
<1>1. CASE UpsertBatch(x)
  BY <1>1 DEF UpsertBatch, Counted, SweepBalance, StreamBalance, Fresh, Outcomes, InHand
<1>2. CASE ImportFails(x) \/ FinishImport(x)
  BY <1>2, RunKinds, MovedOn DEF ImportFails, FinishImport, Busy, Ended
<1> QED BY <1>1, <1>2, SweepCounted, RestartCounted DEF Canonical

LEMMA ExternalCounted ==
  ASSUME Inv, Counted, NEW x \in ExternalRuns, External(x)
  PROVE  Counted'
<1>1. CASE MatchRecord(x)
  <2>1. \E label \in Busy : Goto(x, label)
    BY <1>1 DEF MatchRecord, Busy
  <2> QED BY <1>1, <2>1, StreamedRecord DEF MatchRecord, StreamRecord
<1>2. CASE MatchRecordFails(x)
  BY <1>2, StreamedRecord DEF MatchRecordFails
<1>3. CASE AttachRecord(x)
  BY <1>3, SettledRecord, KindOutcome, RunKinds DEF AttachRecord, Busy
<1>4. CASE EnqueueRecord(x)
  BY <1>4, SettledRecord DEF EnqueueRecord, Busy
<1>5. CASE ApplyFails(x)
  BY <1>5, SettledRecord DEF ApplyFails, Busy
<1>6. CASE EndStream(x)
  BY <1>6, RunKinds, MovedOn DEF EndStream, Busy, Ended
<1> QED BY <1>1, <1>2, <1>3, <1>4, <1>5, <1>6 DEF External

LEMMA StepCounted == ASSUME Inv, Counted, [Next]_vars PROVE Counted'
<1>1. CASE UNCHANGED vars
  BY <1>1 DEF vars, Counted, SweepBalance, StreamBalance, Fresh, Outcomes, InHand
<1> QED BY <1>1, CanonicalCounted, ExternalCounted, CrashCounted DEF Next

\* The report of a sweep and of a stream accounts for every row it considered,
\* one outcome each, whatever fails.
THEOREM RowsAreCounted == Spec => []EveryRowCounted
BY Invariant, InitCounted, StepCounted, CountedIsProperty, PTL DEF Spec
=============================================================================
