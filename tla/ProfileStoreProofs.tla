------------------------- MODULE ProfileStoreProofs -------------------------
(***************************************************************************)
(* Proofs about ProfileStore for any number of places and requests, any    *)
(* fields and any patches: its type, the invariant that serializes the     *)
(* writers of a place, what follows from it, and that the store implements *)
(* ProfileRegister.                                                        *)
(***************************************************************************)
EXTENDS ProfileStore, TLAPS

\* The inductive invariant.
StoreInv == TypeOK /\ WritersSerialized

-----------------------------------------------------------------------------
(* The rows the writers compute                                            *)

\* Only properties a profile has are flagged.
LEMMA FlagsType == ASSUME NEW content \in Content PROVE FlagsOf(content) \in SUBSET Fields
<1>1. FlagsOf(content) \subseteq DOMAIN content
  BY DEF FlagsOf
<1>. QED  BY <1>1 DEF Content

\* A merge of a patch (or of a POST's components, which keep nothing) into a
\* row, or into no row, is a row.
LEMMA PatchedType ==
    ASSUME NEW old \in Row(Keys) \cup {NoRow},
           NEW patch \in Patch \cup Content,
           NEW key \in Keys
    PROVE  Patched(old, patch, key) \in Row(Keys)
<1>1. Base(old) \in Content
  BY DEF Base, EmptyContent, Content, Row
<1>2. MergePatch(Base(old), patch) \in Content
  BY <1>1 DEF MergePatch, Content, Patch
<1>. QED  BY <1>2, FlagsType DEF Patched, Row

\* An ingested profile is a row.
LEMMA IngestedType ==
    ASSUME NEW old \in Row(Keys) \cup {NoRow},
           NEW content \in Content
    PROVE  Ingested(old, content) \in Row(Keys)
  BY FlagsType DEF Ingested, Row

\* A row that is about to be committed is a row and not the absence of one.
LEMMA DraftIsRow ==
    ASSUME StoreInv
    PROVE  /\ \A r \in Patchers : pc[r] = "commit" => draft[r] \in Row(Keys) /\ draft[r] # NoRow
           /\ \A i \in Ingesters : pc[i] = "commit" => draft[i] \in Row(Keys) /\ draft[i] # NoRow
<1>. USE DEF StoreInv, WritersSerialized, TypeOK
<1>1. ASSUME NEW r \in Patchers, pc[r] = "commit" PROVE draft[r] \in Row(Keys)
  <2>1. /\ draft[r] = Patched(row[target[r]], input[r], r)
        /\ target[r] \in Places /\ input[r] \in Patch
    BY <1>1, StoreAssumption DEF CommittersCurrent, RequestsWellFormed
  <2>2. row[target[r]] \in Row(Keys) \cup {NoRow}
    BY <2>1
  <2>3. r \in Keys /\ input[r] \in Patch \cup Content
    BY <2>1 DEF Keys
  <2>4. Patched(row[target[r]], input[r], r) \in Row(Keys)
    BY <2>2, <2>3, PatchedType
  <2>. QED  BY <2>1, <2>4
<1>2. ASSUME NEW i \in Ingesters, pc[i] = "commit" PROVE draft[i] \in Row(Keys)
  <2>1. /\ draft[i] = Ingested(row[target[i]], input[i])
        /\ target[i] \in Places /\ input[i] \in Content
    BY <1>2, StoreAssumption DEF CommittersCurrent, RequestsWellFormed
  <2>2. row[target[i]] \in Row(Keys) \cup {NoRow}
    BY <2>1
  <2>. QED  BY <2>1, <2>2, IngestedType
<1>3. NoRow \notin Row(Keys)
  BY StoreAssumption
<1>. QED  BY <1>1, <1>2, <1>3

-----------------------------------------------------------------------------
(* Each action preserves the invariant                                     *)

\* What an earlier import has left is a row.
LEMMA ImportedType == Imported \subseteq Row(Keys)
  BY IngestedType, StoreAssumption DEF Imported

LEMMA InitInv == Init => StoreInv
<1>. SUFFICES ASSUME Init PROVE StoreInv
  OBVIOUS
<1>1. row \in [Places -> Row(Keys) \cup {NoRow}]
  BY ImportedType DEF Init
<1>. QED
  BY <1>1, StoreAssumption DEF Init, StoreInv, TypeOK, WritersSerialized, Labels,
     Outcomes, Clients, Keys, RequestsWellFormed, TargetsExist, RowsHavePlaces,
     ReadersHoldLock, CommittersCurrent, RetriesFindRow

\* A new PATCH holds nothing and has read nothing.
LEMMA BeginPatchInv ==
    ASSUME StoreInv, NEW r \in Patchers, BeginPatch(r)
    PROVE  StoreInv'
<1>. USE StoreAssumption DEF StoreInv, WritersSerialized, TypeOK, BeginPatch, Goto, Finish, Released, Clients, Keys
<1>1. TypeOK'
  <2>1. pc' \in [Clients -> Labels]
    BY DEF Labels
  <2>2. target' \in [Clients -> Places \cup {NoInput}]
    OBVIOUS
  <2>3. input' \in [Clients -> Patch \cup Content \cup {NoInput}]
    OBVIOUS
  <2>4. attempt' \in [Clients -> 0 .. MaxAttempts]
    OBVIOUS
  <2>. QED  BY <2>1, <2>2, <2>3, <2>4
<1>2. RequestsWellFormed'
  BY DEF RequestsWellFormed, InTransaction
<1>3. TargetsExist'
  BY DEF TargetsExist, RequestsWellFormed, RowsHavePlaces, InTransaction
<1>4. RowsHavePlaces'
  BY DEF TargetsExist, RowsHavePlaces, RequestsWellFormed, InTransaction
<1>5. ReadersHoldLock'
  BY DEF RequestsWellFormed, TargetsExist, RowsHavePlaces, ReadersHoldLock, CommittersCurrent, InTransaction
<1>6. CommittersCurrent'
  BY DEF RequestsWellFormed, TargetsExist, RowsHavePlaces, ReadersHoldLock, CommittersCurrent, InTransaction
<1>7. RetriesFindRow'
  BY DEF RequestsWellFormed, RowsHavePlaces, CommittersCurrent, RetriesFindRow, InTransaction
<1>. QED  BY <1>1, <1>2, <1>3, <1>4, <1>5, <1>6, <1>7

\* The look-up moves on only for a place that exists.
LEMMA CheckPlaceInv ==
    ASSUME StoreInv, NEW r \in Patchers, CheckPlace(r)
    PROVE  StoreInv'
<1>. USE StoreAssumption DEF StoreInv, WritersSerialized, TypeOK, CheckPlace, Goto, Finish, Released, Clients, Keys
<1>a. /\ pc' = [pc EXCEPT ![r] = pc'[r]]
      /\ pc'[r] \in {"select", "done"}
  OBVIOUS
<1>1. TypeOK'
  BY DEF Labels, Outcomes
<1>2. RequestsWellFormed'
  BY DEF RequestsWellFormed, InTransaction
<1>3. TargetsExist'
  BY DEF TargetsExist, RequestsWellFormed, RowsHavePlaces, InTransaction
<1>4. RowsHavePlaces'
  BY DEF TargetsExist, RowsHavePlaces, RequestsWellFormed, InTransaction
<1>5. ReadersHoldLock'
  BY <1>a DEF ReadersHoldLock
<1>6. CommittersCurrent'
  BY <1>a DEF CommittersCurrent
<1>7. RetriesFindRow'
  BY <1>a DEF RetriesFindRow
<1>. QED  BY <1>1, <1>2, <1>3, <1>4, <1>5, <1>6, <1>7

\* FOR UPDATE takes the lock with the row it reads.
LEMMA SelectForUpdateInv ==
    ASSUME StoreInv, NEW r \in Patchers, SelectForUpdate(r)
    PROVE  StoreInv'
<1>. USE StoreAssumption DEF StoreInv, WritersSerialized, TypeOK, SelectForUpdate, Goto, Finish, Released, Clients, Keys
<1>1. TypeOK'
  <2>1. target[r] \in Places
    BY DEF RequestsWellFormed
  <2>2. owner' \in [Places -> Clients \cup {Nobody}]
    BY <2>1
  <2>3. seen' \in [Clients -> Row(Keys) \cup {NoRow}]
    BY <2>1
  <2>. QED  BY <2>2, <2>3 DEF Labels
<1>2. RequestsWellFormed'
  BY DEF RequestsWellFormed, InTransaction
<1>3. TargetsExist'
  BY DEF TargetsExist, RequestsWellFormed, RowsHavePlaces, InTransaction
<1>4. RowsHavePlaces'
  BY DEF TargetsExist, RowsHavePlaces, RequestsWellFormed, InTransaction
<1>5. ReadersHoldLock'
  BY DEF RequestsWellFormed, TargetsExist, RowsHavePlaces, ReadersHoldLock, CommittersCurrent, InTransaction
<1>6. CommittersCurrent'
  BY DEF RequestsWellFormed, TargetsExist, RowsHavePlaces, ReadersHoldLock, CommittersCurrent, InTransaction
<1>7. RetriesFindRow'
  BY DEF RequestsWellFormed, RowsHavePlaces, CommittersCurrent, RetriesFindRow, InTransaction
<1>. QED  BY <1>1, <1>2, <1>3, <1>4, <1>5, <1>6, <1>7

\* An insert occupies a place that has no row and no pending row.
LEMMA InsertPatchedInv ==
    ASSUME StoreInv, NEW r \in Patchers, InsertPatched(r)
    PROVE  StoreInv'
<1>. USE StoreAssumption DEF StoreInv, WritersSerialized, TypeOK, InsertPatched, Goto, Finish, Released, Clients, Keys
<1>1. TypeOK'
  BY PatchedType DEF Labels, Outcomes, RequestsWellFormed
<1>2. RequestsWellFormed'
  BY DEF RequestsWellFormed, InTransaction
<1>3. TargetsExist'
  BY DEF TargetsExist, RequestsWellFormed, RowsHavePlaces, InTransaction
<1>4. RowsHavePlaces'
  BY DEF TargetsExist, RowsHavePlaces, RequestsWellFormed, InTransaction
<1>5. ReadersHoldLock'
  BY DEF RequestsWellFormed, TargetsExist, RowsHavePlaces, ReadersHoldLock, CommittersCurrent, InTransaction
<1>6. CommittersCurrent'
  BY DEF RequestsWellFormed, TargetsExist, RowsHavePlaces, ReadersHoldLock, CommittersCurrent, InTransaction
<1>7. RetriesFindRow'
  BY DEF RequestsWellFormed, RowsHavePlaces, CommittersCurrent, RetriesFindRow, InTransaction
<1>. QED  BY <1>1, <1>2, <1>3, <1>4, <1>5, <1>6, <1>7

\* A retry starts after a row was committed.
LEMMA InsertConflictInv ==
    ASSUME StoreInv, NEW r \in Patchers, InsertConflict(r)
    PROVE  StoreInv'
<1>. USE StoreAssumption DEF StoreInv, WritersSerialized, TypeOK, InsertConflict, Goto, Finish, Released, Clients, Keys
<1>1. TypeOK'
  <2>1. CASE attempt[r] < MaxAttempts
    <3>1. attempt[r] + 1 \in 0 .. MaxAttempts
      BY <2>1
    <3>2. attempt' \in [Clients -> 0 .. MaxAttempts]
      BY <2>1, <3>1
    <3>3. pc' \in [Clients -> Labels] /\ outcome' \in [Clients -> Outcomes]
      BY <2>1 DEF Labels
    <3>. QED  BY <3>2, <3>3
  <2>2. CASE ~(attempt[r] < MaxAttempts)
    BY <2>2 DEF Labels, Outcomes
  <2>. QED  BY <2>1, <2>2
<1>2. RequestsWellFormed'
  BY DEF RequestsWellFormed, InTransaction
<1>3. TargetsExist'
  BY DEF TargetsExist, RequestsWellFormed, RowsHavePlaces, InTransaction
<1>4. RowsHavePlaces'
  BY DEF TargetsExist, RowsHavePlaces, RequestsWellFormed, InTransaction
<1>5. ReadersHoldLock'
  BY DEF RequestsWellFormed, TargetsExist, RowsHavePlaces, ReadersHoldLock, CommittersCurrent, InTransaction
<1>6. CommittersCurrent'
  BY DEF RequestsWellFormed, TargetsExist, RowsHavePlaces, ReadersHoldLock, CommittersCurrent, InTransaction
<1>7. RetriesFindRow'
  BY DEF RequestsWellFormed, RowsHavePlaces, CommittersCurrent, RetriesFindRow, InTransaction
<1>. QED  BY <1>1, <1>2, <1>3, <1>4, <1>5, <1>6, <1>7

\* The merge is into the row that is locked.
LEMMA UpdatePatchedInv ==
    ASSUME StoreInv, NEW r \in Patchers, UpdatePatched(r)
    PROVE  StoreInv'
<1>. USE StoreAssumption DEF StoreInv, WritersSerialized, TypeOK, UpdatePatched, Goto, Finish, Released, Clients, Keys
<1>1. TypeOK'
  BY PatchedType DEF Labels, Outcomes, RequestsWellFormed
<1>2. RequestsWellFormed'
  BY DEF RequestsWellFormed, InTransaction
<1>3. TargetsExist'
  BY DEF TargetsExist, RequestsWellFormed, RowsHavePlaces, InTransaction
<1>4. RowsHavePlaces'
  BY DEF TargetsExist, RowsHavePlaces, RequestsWellFormed, InTransaction
<1>5. ReadersHoldLock'
  BY DEF RequestsWellFormed, TargetsExist, RowsHavePlaces, ReadersHoldLock, CommittersCurrent, InTransaction
<1>6. CommittersCurrent'
  BY DEF RequestsWellFormed, TargetsExist, RowsHavePlaces, ReadersHoldLock, CommittersCurrent, InTransaction
<1>7. RetriesFindRow'
  BY DEF RequestsWellFormed, RowsHavePlaces, CommittersCurrent, RetriesFindRow, InTransaction
<1>. QED  BY <1>1, <1>2, <1>3, <1>4, <1>5, <1>6, <1>7

\* Only the holder of a place commits to it, and it lets go of it.
LEMMA CommitPatchInv ==
    ASSUME StoreInv, NEW r \in Patchers, CommitPatch(r)
    PROVE  StoreInv'
<1>. USE StoreAssumption DEF StoreInv, WritersSerialized, TypeOK, CommitPatch, Goto, Finish, Released, Clients, Keys
<1>a. draft[r] \in Row(Keys) /\ draft[r] # NoRow
  BY DraftIsRow
<1>1. TypeOK'
  BY <1>a DEF Labels, Outcomes, RequestsWellFormed
<1>2. RequestsWellFormed'
  BY DEF RequestsWellFormed, InTransaction
<1>3. TargetsExist'
  BY DEF TargetsExist, RequestsWellFormed, RowsHavePlaces, InTransaction
<1>4. RowsHavePlaces'
  BY DEF TargetsExist, RowsHavePlaces, RequestsWellFormed, InTransaction
<1>5. ReadersHoldLock'
  BY DEF RequestsWellFormed, TargetsExist, RowsHavePlaces, ReadersHoldLock, CommittersCurrent, InTransaction
<1>6. CommittersCurrent'
  BY DEF RequestsWellFormed, TargetsExist, RowsHavePlaces, ReadersHoldLock, CommittersCurrent, InTransaction
<1>7. RetriesFindRow'
  <2>1. /\ attempt' = attempt /\ target' = target /\ seen' = seen
        /\ \A s \in Patchers : pc'[s] = "write" => pc[s] = "write"
    OBVIOUS
  <2>2. ASSUME NEW s \in Patchers, attempt[s] > 1 PROVE row'[target[s]] # NoRow
    BY <1>a, <2>2 DEF RetriesFindRow, RequestsWellFormed
  <2>. QED  BY <2>1, <2>2 DEF RetriesFindRow
<1>. QED  BY <1>1, <1>2, <1>3, <1>4, <1>5, <1>6, <1>7

\* The audit entry is outside the transaction.
LEMMA AuditPatchInv ==
    ASSUME StoreInv, NEW r \in Patchers, AuditPatch(r)
    PROVE  StoreInv'
<1>. USE StoreAssumption DEF StoreInv, WritersSerialized, TypeOK, AuditPatch, Goto, Finish, Released, Clients, Keys
<1>1. TypeOK'
  <2>1. target[r] \in Places
    BY DEF RequestsWellFormed
  <2>2. writeLog' \subseteq
            [table : {"places", "accessibility_profiles"}, rec : Places,
             by : Keys, action : {"create", "update"}]
    BY <2>1 DEF Entry
  <2>. QED  BY <2>2 DEF Labels, Outcomes
<1>2. RequestsWellFormed'
  BY DEF RequestsWellFormed, InTransaction
<1>3. TargetsExist'
  BY DEF TargetsExist, RequestsWellFormed, RowsHavePlaces, InTransaction
<1>4. RowsHavePlaces'
  BY DEF TargetsExist, RowsHavePlaces, RequestsWellFormed, InTransaction
<1>5. ReadersHoldLock'
  BY DEF RequestsWellFormed, TargetsExist, RowsHavePlaces, ReadersHoldLock, CommittersCurrent, InTransaction
<1>6. CommittersCurrent'
  BY DEF RequestsWellFormed, TargetsExist, RowsHavePlaces, ReadersHoldLock, CommittersCurrent, InTransaction
<1>7. RetriesFindRow'
  BY DEF RequestsWellFormed, RowsHavePlaces, CommittersCurrent, RetriesFindRow, InTransaction
<1>. QED  BY <1>1, <1>2, <1>3, <1>4, <1>5, <1>6, <1>7

\* A new ingestion write holds nothing and has read nothing.
LEMMA BeginIngestInv ==
    ASSUME StoreInv, NEW i \in Ingesters, BeginIngest(i)
    PROVE  StoreInv'
<1>. USE StoreAssumption DEF StoreInv, WritersSerialized, TypeOK, BeginIngest, Goto, Finish, Released, Clients, Keys
<1>1. TypeOK'
  <2>1. pc' \in [Clients -> Labels]
    BY DEF Labels
  <2>2. target' \in [Clients -> Places \cup {NoInput}]
    OBVIOUS
  <2>3. input' \in [Clients -> Patch \cup Content \cup {NoInput}]
    OBVIOUS
  <2>. QED  BY <2>1, <2>2, <2>3
<1>2. RequestsWellFormed'
  BY DEF RequestsWellFormed, InTransaction
<1>3. TargetsExist'
  BY DEF TargetsExist, RequestsWellFormed, RowsHavePlaces, InTransaction
<1>4. RowsHavePlaces'
  BY DEF TargetsExist, RowsHavePlaces, RequestsWellFormed, InTransaction
<1>5. ReadersHoldLock'
  BY DEF RequestsWellFormed, TargetsExist, RowsHavePlaces, ReadersHoldLock, CommittersCurrent, InTransaction
<1>6. CommittersCurrent'
  BY DEF RequestsWellFormed, TargetsExist, RowsHavePlaces, ReadersHoldLock, CommittersCurrent, InTransaction
<1>7. RetriesFindRow'
  BY DEF RequestsWellFormed, RowsHavePlaces, CommittersCurrent, RetriesFindRow, InTransaction
<1>. QED  BY <1>1, <1>2, <1>3, <1>4, <1>5, <1>6, <1>7

\* The plain SELECT takes no lock.
LEMMA SelectIngestInv ==
    ASSUME StoreInv, NEW i \in Ingesters, SelectIngest(i)
    PROVE  StoreInv'
<1>. USE StoreAssumption DEF StoreInv, WritersSerialized, TypeOK, SelectIngest, Goto, Finish, Released, Clients, Keys
<1>1. TypeOK'
  <2>1. seen' \in [Clients -> Row(Keys) \cup {NoRow}]
    BY DEF RequestsWellFormed
  <2>2. pc' \in [Clients -> Labels] /\ outcome' \in [Clients -> Outcomes]
    BY DEF Labels, Outcomes
  <2>. QED  BY <2>1, <2>2
<1>2. RequestsWellFormed'
  BY DEF RequestsWellFormed, InTransaction
<1>3. TargetsExist'
  BY DEF TargetsExist, RequestsWellFormed, RowsHavePlaces, InTransaction
<1>4. RowsHavePlaces'
  BY DEF TargetsExist, RowsHavePlaces, RequestsWellFormed, InTransaction
<1>5. ReadersHoldLock'
  BY DEF RequestsWellFormed, TargetsExist, RowsHavePlaces, ReadersHoldLock, CommittersCurrent, InTransaction
<1>6. CommittersCurrent'
  BY DEF RequestsWellFormed, TargetsExist, RowsHavePlaces, ReadersHoldLock, CommittersCurrent, InTransaction
<1>7. RetriesFindRow'
  BY DEF RequestsWellFormed, RowsHavePlaces, CommittersCurrent, RetriesFindRow, InTransaction
<1>. QED  BY <1>1, <1>2, <1>3, <1>4, <1>5, <1>6, <1>7

\* An insert occupies a place that has no row and no pending row.
LEMMA InsertIngestedInv ==
    ASSUME StoreInv, NEW i \in Ingesters, InsertIngested(i)
    PROVE  StoreInv'
<1>. USE StoreAssumption DEF StoreInv, WritersSerialized, TypeOK, InsertIngested, Goto, Finish, Released, Clients, Keys
<1>1. TypeOK'
  BY IngestedType DEF Labels, Outcomes, RequestsWellFormed
<1>2. RequestsWellFormed'
  BY DEF RequestsWellFormed, InTransaction
<1>3. TargetsExist'
  BY DEF TargetsExist, RequestsWellFormed, RowsHavePlaces, InTransaction
<1>4. RowsHavePlaces'
  BY DEF TargetsExist, RowsHavePlaces, RequestsWellFormed, InTransaction
<1>5. ReadersHoldLock'
  BY DEF RequestsWellFormed, TargetsExist, RowsHavePlaces, ReadersHoldLock, CommittersCurrent, InTransaction
<1>6. CommittersCurrent'
  BY DEF RequestsWellFormed, TargetsExist, RowsHavePlaces, ReadersHoldLock, CommittersCurrent, InTransaction
<1>7. RetriesFindRow'
  BY DEF RequestsWellFormed, RowsHavePlaces, CommittersCurrent, RetriesFindRow, InTransaction
<1>. QED  BY <1>1, <1>2, <1>3, <1>4, <1>5, <1>6, <1>7

\* The failed insert leaves nothing.
LEMMA InsertIngestedConflictInv ==
    ASSUME StoreInv, NEW i \in Ingesters, InsertIngestedConflict(i)
    PROVE  StoreInv'
<1>. USE StoreAssumption DEF StoreInv, WritersSerialized, TypeOK, InsertIngestedConflict, Goto, Finish, Released, Clients, Keys
<1>1. TypeOK'
  BY DEF Labels, Outcomes
<1>2. RequestsWellFormed'
  BY DEF RequestsWellFormed, InTransaction
<1>3. TargetsExist'
  BY DEF TargetsExist, RequestsWellFormed, RowsHavePlaces, InTransaction
<1>4. RowsHavePlaces'
  BY DEF TargetsExist, RowsHavePlaces, RequestsWellFormed, InTransaction
<1>5. ReadersHoldLock'
  BY DEF RequestsWellFormed, TargetsExist, RowsHavePlaces, ReadersHoldLock, CommittersCurrent, InTransaction
<1>6. CommittersCurrent'
  BY DEF RequestsWellFormed, TargetsExist, RowsHavePlaces, ReadersHoldLock, CommittersCurrent, InTransaction
<1>7. RetriesFindRow'
  BY DEF RequestsWellFormed, RowsHavePlaces, CommittersCurrent, RetriesFindRow, InTransaction
<1>. QED  BY <1>1, <1>2, <1>3, <1>4, <1>5, <1>6, <1>7

\* The UPDATE waits for the lock and computes from the row it then finds.
LEMMA UpdateIngestedInv ==
    ASSUME StoreInv, NEW i \in Ingesters, UpdateIngested(i)
    PROVE  StoreInv'
<1>. USE StoreAssumption DEF StoreInv, WritersSerialized, TypeOK, UpdateIngested, Goto, Finish, Released, Clients, Keys
<1>1. TypeOK'
  BY IngestedType DEF Labels, Outcomes, RequestsWellFormed
<1>2. RequestsWellFormed'
  BY DEF RequestsWellFormed, InTransaction
<1>3. TargetsExist'
  BY DEF TargetsExist, RequestsWellFormed, RowsHavePlaces, InTransaction
<1>4. RowsHavePlaces'
  BY DEF TargetsExist, RowsHavePlaces, RequestsWellFormed, InTransaction
<1>5. ReadersHoldLock'
  BY DEF RequestsWellFormed, TargetsExist, RowsHavePlaces, ReadersHoldLock, CommittersCurrent, InTransaction
<1>6. CommittersCurrent'
  BY DEF RequestsWellFormed, TargetsExist, RowsHavePlaces, ReadersHoldLock, CommittersCurrent, InTransaction
<1>7. RetriesFindRow'
  BY DEF RequestsWellFormed, RowsHavePlaces, CommittersCurrent, RetriesFindRow, InTransaction
<1>. QED  BY <1>1, <1>2, <1>3, <1>4, <1>5, <1>6, <1>7

\* Only the holder of a place commits to it, and it lets go of it.
LEMMA CommitIngestInv ==
    ASSUME StoreInv, NEW i \in Ingesters, CommitIngest(i)
    PROVE  StoreInv'
<1>. USE StoreAssumption DEF StoreInv, WritersSerialized, TypeOK, CommitIngest, Goto, Finish, Released, Clients, Keys
<1>a. draft[i] \in Row(Keys) /\ draft[i] # NoRow
  BY DraftIsRow
<1>1. TypeOK'
  BY <1>a DEF Labels, Outcomes, RequestsWellFormed
<1>2. RequestsWellFormed'
  BY DEF RequestsWellFormed, InTransaction
<1>3. TargetsExist'
  BY DEF TargetsExist, RequestsWellFormed, RowsHavePlaces, InTransaction
<1>4. RowsHavePlaces'
  BY DEF TargetsExist, RowsHavePlaces, RequestsWellFormed, InTransaction
<1>5. ReadersHoldLock'
  BY DEF RequestsWellFormed, TargetsExist, RowsHavePlaces, ReadersHoldLock, CommittersCurrent, InTransaction
<1>6. CommittersCurrent'
  BY DEF RequestsWellFormed, TargetsExist, RowsHavePlaces, ReadersHoldLock, CommittersCurrent, InTransaction
<1>7. RetriesFindRow'
  <2>1. /\ attempt' = attempt /\ target' = target /\ seen' = seen
        /\ \A s \in Patchers : pc'[s] = "write" => pc[s] = "write"
    OBVIOUS
  <2>2. ASSUME NEW s \in Patchers, attempt[s] > 1 PROVE row'[target[s]] # NoRow
    BY <1>a, <2>2 DEF RetriesFindRow, RequestsWellFormed
  <2>. QED  BY <2>1, <2>2 DEF RetriesFindRow
<1>. QED  BY <1>1, <1>2, <1>3, <1>4, <1>5, <1>6, <1>7

\* A POST writes a place no other request can be working on.
LEMMA CreatePlaceInv ==
    ASSUME StoreInv, NEW q \in Posters, CreatePlace(q)
    PROVE  StoreInv'
<1>. USE StoreAssumption DEF StoreInv, WritersSerialized, TypeOK, CreatePlace, Goto, Finish, Released, Clients, Keys
<1>1. TypeOK'
  <2>1. PICK p \in Places \ exists, d \in Contents \cup {NoInput} :
            CreatePlace(q)!2!(p, d)
    OBVIOUS
  <2>2. row' \in [Places -> Row(Keys) \cup {NoRow}]
    <3>1. CASE d = NoInput
      BY <2>1, <3>1
    <3>2. CASE d # NoInput
      <4>1. Patched(NoRow, d, q) \in Row(Keys)
        BY <3>2, PatchedType
      <4>. QED  BY <2>1, <3>2, <4>1
    <3>. QED  BY <3>1, <3>2
  <2>3. exists' \subseteq Places /\ target' \in [Clients -> Places \cup {NoInput}]
    BY <2>1
  <2>4. input' \in [Clients -> Patch \cup Content \cup {NoInput}]
    BY <2>1
  <2>. QED  BY <2>2, <2>3, <2>4 DEF Labels
<1>2. RequestsWellFormed'
  BY DEF RequestsWellFormed, InTransaction
<1>3. TargetsExist'
  BY DEF TargetsExist, RequestsWellFormed, RowsHavePlaces, InTransaction
<1>4. RowsHavePlaces'
  BY DEF TargetsExist, RowsHavePlaces, RequestsWellFormed, InTransaction
<1>5. ReadersHoldLock'
  BY DEF RequestsWellFormed, TargetsExist, RowsHavePlaces, ReadersHoldLock, CommittersCurrent, InTransaction
<1>6. CommittersCurrent'
  BY DEF RequestsWellFormed, TargetsExist, RowsHavePlaces, ReadersHoldLock, CommittersCurrent, InTransaction
<1>7. RetriesFindRow'
  BY DEF RequestsWellFormed, RowsHavePlaces, CommittersCurrent, RetriesFindRow, InTransaction
<1>. QED  BY <1>1, <1>2, <1>3, <1>4, <1>5, <1>6, <1>7

\* The audit entries are outside the transaction.
LEMMA AuditCreateInv ==
    ASSUME StoreInv, NEW q \in Posters, AuditCreate(q)
    PROVE  StoreInv'
<1>. USE StoreAssumption DEF StoreInv, WritersSerialized, TypeOK, AuditCreate, Goto, Finish, Released, Clients, Keys
<1>1. TypeOK'
  <2>1. target[q] \in Places
    BY DEF RequestsWellFormed
  <2>2. writeLog' \subseteq
            [table : {"places", "accessibility_profiles"}, rec : Places,
             by : Keys, action : {"create", "update"}]
    BY <2>1 DEF Entry
  <2>. QED  BY <2>2 DEF Labels, Outcomes
<1>2. RequestsWellFormed'
  BY DEF RequestsWellFormed, InTransaction
<1>3. TargetsExist'
  BY DEF TargetsExist, RequestsWellFormed, RowsHavePlaces, InTransaction
<1>4. RowsHavePlaces'
  BY DEF TargetsExist, RowsHavePlaces, RequestsWellFormed, InTransaction
<1>5. ReadersHoldLock'
  BY DEF RequestsWellFormed, TargetsExist, RowsHavePlaces, ReadersHoldLock, CommittersCurrent, InTransaction
<1>6. CommittersCurrent'
  BY DEF RequestsWellFormed, TargetsExist, RowsHavePlaces, ReadersHoldLock, CommittersCurrent, InTransaction
<1>7. RetriesFindRow'
  BY DEF RequestsWellFormed, RowsHavePlaces, CommittersCurrent, RetriesFindRow, InTransaction
<1>. QED  BY <1>1, <1>2, <1>3, <1>4, <1>5, <1>6, <1>7

\* A rollback gives up what its transaction held, and nothing else.
LEMMA AbortInv ==
    ASSUME StoreInv, NEW x \in Patchers \cup Ingesters, Abort(x)
    PROVE  StoreInv'
<1>. USE StoreAssumption DEF StoreInv, WritersSerialized, TypeOK, Abort, Goto, Finish, Released, Clients, Keys
<1>1. TypeOK'
  BY DEF Labels, Outcomes, InTransaction
<1>2. RequestsWellFormed'
  BY DEF RequestsWellFormed, InTransaction
<1>3. TargetsExist'
  BY DEF TargetsExist, RequestsWellFormed, RowsHavePlaces, InTransaction
<1>4. RowsHavePlaces'
  BY DEF TargetsExist, RowsHavePlaces, RequestsWellFormed, InTransaction
<1>5. ReadersHoldLock'
  BY DEF RequestsWellFormed, TargetsExist, RowsHavePlaces, ReadersHoldLock, CommittersCurrent, InTransaction
<1>6. CommittersCurrent'
  BY DEF RequestsWellFormed, TargetsExist, RowsHavePlaces, ReadersHoldLock, CommittersCurrent, InTransaction
<1>7. RetriesFindRow'
  BY DEF RequestsWellFormed, RowsHavePlaces, CommittersCurrent, RetriesFindRow, InTransaction
<1>. QED  BY <1>1, <1>2, <1>3, <1>4, <1>5, <1>6, <1>7

\* A crash after the commit changes nothing that is stored.
LEMMA CrashBeforeAuditInv ==
    ASSUME StoreInv, NEW x \in Keys, CrashBeforeAudit(x)
    PROVE  StoreInv'
<1>. USE StoreAssumption DEF StoreInv, WritersSerialized, TypeOK, CrashBeforeAudit, Goto, Finish, Released, Clients, Keys
<1>1. TypeOK'
  BY DEF Labels, Outcomes
<1>2. RequestsWellFormed'
  BY DEF RequestsWellFormed, InTransaction
<1>3. TargetsExist'
  BY DEF TargetsExist, RequestsWellFormed, RowsHavePlaces, InTransaction
<1>4. RowsHavePlaces'
  BY DEF TargetsExist, RowsHavePlaces, RequestsWellFormed, InTransaction
<1>5. ReadersHoldLock'
  BY DEF RequestsWellFormed, TargetsExist, RowsHavePlaces, ReadersHoldLock, CommittersCurrent, InTransaction
<1>6. CommittersCurrent'
  BY DEF RequestsWellFormed, TargetsExist, RowsHavePlaces, ReadersHoldLock, CommittersCurrent, InTransaction
<1>7. RetriesFindRow'
  BY DEF RequestsWellFormed, RowsHavePlaces, CommittersCurrent, RetriesFindRow, InTransaction
<1>. QED  BY <1>1, <1>2, <1>3, <1>4, <1>5, <1>6, <1>7

LEMMA StepInv == StoreInv /\ [Next]_vars => StoreInv'
<1>1. CASE UNCHANGED vars
  BY <1>1 DEF StoreInv, TypeOK, WritersSerialized, RequestsWellFormed,
     TargetsExist, RowsHavePlaces, ReadersHoldLock, CommittersCurrent,
     RetriesFindRow, vars
<1>2. CASE Next
  BY <1>1, <1>2, BeginPatchInv, CheckPlaceInv, SelectForUpdateInv,
     InsertPatchedInv, InsertConflictInv, UpdatePatchedInv, CommitPatchInv,
     AuditPatchInv, BeginIngestInv, SelectIngestInv, InsertIngestedInv,
     InsertIngestedConflictInv, UpdateIngestedInv, CommitIngestInv,
     CreatePlaceInv, AuditCreateInv, AbortInv, CrashBeforeAuditInv
     DEF Next, StepPatch, StepIngest, Quiescent
<1>. QED  BY <1>1, <1>2

-----------------------------------------------------------------------------
(* The theorems                                                            *)

\* In every behaviour each writer of a place works alone on it between reading
\* and committing, and every variable has its type.
THEOREM StoreInvariant == Spec => [](TypeOK /\ WritersSerialized)
<1>1. Spec => []StoreInv
  BY InitInv, StepInv, PTL DEF Spec
<1>. QED  BY <1>1, PTL DEF StoreInv

\* Type correctness.
THEOREM TypeCorrect == Spec => []TypeOK
  BY StoreInvariant, PTL

\* The writers of a place are serialized: between reading and committing each
\* holds the row or the index entry it works on.
THEOREM Serialized == Spec => []WritersSerialized
  BY StoreInvariant, PTL

\* No PATCH is lost: what a transaction is about to commit includes everything
\* committed before it.
THEOREM NoUpdateLost == Spec => []NoLostUpdate
<1>1. WritersSerialized => NoLostUpdate
  BY DEF WritersSerialized, CommittersCurrent, NoLostUpdate
<1>. QED  BY <1>1, StoreInvariant, PTL

\* Two attempts are enough: no PATCH ever reports that another writer inserted
\* the profile first.
THEOREM RetrySuffices ==
    ASSUME MaxAttempts >= 2
    PROVE  Spec => []NoConflictReturned
<1>. DEFINE Inv == StoreInv /\ NoConflictReturned
<1>1. Init => Inv
  BY InitInv DEF Init, NoConflictReturned, Clients
<1>2. Inv /\ [Next]_vars => Inv'
  <2>. SUFFICES ASSUME Inv, [Next]_vars PROVE NoConflictReturned'
    BY StepInv
  <2>. USE StoreAssumption DEF StoreInv, TypeOK, NoConflictReturned
  <2>1. ASSUME NEW r \in Patchers, InsertConflict(r) PROVE NoConflictReturned'
    <3>1. attempt[r] <= 1
      BY <2>1 DEF InsertConflict, WritersSerialized, RetriesFindRow, Clients
    <3>2. attempt[r] < MaxAttempts
      BY <3>1 DEF Clients
    <3>. QED  BY <2>1, <3>2 DEF InsertConflict
  <2>2. ASSUME NEW i \in Ingesters, StepIngest(i) PROVE NoConflictReturned'
    BY <2>2 DEF StepIngest, SelectIngest, InsertIngested, InsertIngestedConflict,
       UpdateIngested, CommitIngest, Finish, Clients
  <2>3. ASSUME NEW r \in Patchers, StepPatch(r), ~InsertConflict(r)
        PROVE  NoConflictReturned'
    BY <2>3 DEF StepPatch, CheckPlace, SelectForUpdate, InsertPatched,
       UpdatePatched, CommitPatch, AuditPatch, Finish, Clients
  <2>4. ASSUME NEW x \in Clients, Abort(x) \/ CrashBeforeAudit(x) \/ AuditCreate(x)
        PROVE  NoConflictReturned'
    BY <2>4 DEF Abort, CrashBeforeAudit, AuditCreate, Finish, Clients
  <2>5. CASE UNCHANGED outcome
    BY <2>5
  <2>. QED
    BY <2>1, <2>2, <2>3, <2>4, <2>5 DEF Next, BeginPatch, BeginIngest, CreatePlace,
       Quiescent, vars, Clients, Keys
<1>. QED  BY <1>1, <1>2, PTL DEF Spec

\* The stored flags are always those of the stored components.
THEOREM FlagsAlwaysMatch == Spec => []FlagsMatchComponents
<1>. DEFINE Inv == StoreInv /\ FlagsMatchComponents
<1>1. Init => Inv
  BY InitInv DEF Init, FlagsMatchComponents, Imported, Ingested
<1>2. Inv /\ [Next]_vars => Inv'
  <2>. SUFFICES ASSUME Inv, [Next]_vars PROVE FlagsMatchComponents'
    BY StepInv
  <2>. USE DEF StoreInv, TypeOK, FlagsMatchComponents
  <2>1. ASSUME NEW r \in Patchers, CommitPatch(r) PROVE FlagsMatchComponents'
    <3>1. row' = [row EXCEPT ![target[r]] = Patched(row[target[r]], input[r], r)]
      BY <2>1 DEF CommitPatch, WritersSerialized, CommittersCurrent
    <3>. QED  BY <3>1 DEF Patched
  <2>2. ASSUME NEW i \in Ingesters, CommitIngest(i) PROVE FlagsMatchComponents'
    <3>1. row' = [row EXCEPT ![target[i]] = Ingested(row[target[i]], input[i])]
      BY <2>2 DEF CommitIngest, WritersSerialized, CommittersCurrent
    <3>. QED  BY <3>1 DEF Ingested
  <2>3. ASSUME NEW q \in Posters, CreatePlace(q) PROVE FlagsMatchComponents'
    BY <2>3 DEF CreatePlace, Patched
  <2>4. CASE UNCHANGED row
    BY <2>4
  <2>. QED
    BY <2>1, <2>2, <2>3, <2>4 DEF Next, StepPatch, StepIngest, BeginPatch,
       CheckPlace, SelectForUpdate, InsertPatched, InsertConflict, UpdatePatched,
       AuditPatch, BeginIngest, SelectIngest, InsertIngested,
       InsertIngestedConflict, UpdateIngested, AuditCreate, Abort,
       CrashBeforeAudit, Quiescent, vars
<1>. QED  BY <1>1, <1>2, PTL DEF Spec

\* A profile never disappears and never stops being verified.
THEOREM AlwaysVerified == Spec => VerifiedForever
<1>. DEFINE Step ==
       \A p \in Places :
          row[p] # NoRow =>
              row'[p] # NoRow /\ (row[p].verified => row'[p].verified)
<1>1. StoreInv /\ [Next]_vars => [Step]_vars
  <2>. SUFFICES ASSUME StoreInv, [Next]_vars PROVE Step
    OBVIOUS
  <2>. USE DEF StoreInv, TypeOK
  <2>1. ASSUME NEW r \in Patchers, CommitPatch(r) PROVE Step
    <3>1. row' = [row EXCEPT ![target[r]] = draft[r]] /\ draft[r] # NoRow
      BY <2>1, DraftIsRow DEF CommitPatch
    <3>2. draft[r] = Patched(row[target[r]], input[r], r)
      BY <2>1 DEF CommitPatch, WritersSerialized, CommittersCurrent
    <3>3. draft[r].verified = TRUE
      BY <3>2 DEF Patched
    <3>. QED  BY <3>1, <3>3
  <2>2. ASSUME NEW i \in Ingesters, CommitIngest(i) PROVE Step
    <3>1. row' = [row EXCEPT ![target[i]] = draft[i]] /\ draft[i] # NoRow
      BY <2>2, DraftIsRow DEF CommitIngest
    <3>2. draft[i] = Ingested(row[target[i]], input[i])
      BY <2>2 DEF CommitIngest, WritersSerialized, CommittersCurrent
    <3>3. row[target[i]] # NoRow => draft[i].verified = row[target[i]].verified
      BY <3>2 DEF Ingested
    <3>. QED  BY <3>1, <3>3
  <2>3. ASSUME NEW q \in Posters, CreatePlace(q) PROVE Step
    BY <2>3 DEF CreatePlace, WritersSerialized, RowsHavePlaces
  <2>4. CASE UNCHANGED row
    BY <2>4
  <2>. QED
    BY <2>1, <2>2, <2>3, <2>4 DEF Next, StepPatch, StepIngest, BeginPatch,
       CheckPlace, SelectForUpdate, InsertPatched, InsertConflict, UpdatePatched,
       AuditPatch, BeginIngest, SelectIngest, InsertIngested,
       InsertIngestedConflict, UpdateIngested, AuditCreate, Abort,
       CrashBeforeAudit, Quiescent, vars
<1>2. Spec => []StoreInv
  BY InitInv, StepInv, PTL DEF Spec
<1>. QED  BY <1>1, <1>2, PTL DEF Spec, VerifiedForever

-----------------------------------------------------------------------------
(* The audit trail                                                         *)

\* The requests that have made the profile of their place.
Created ==
    {x \in Keys :
        /\ pc[x] = "audit" \/ (pc[x] = "done" /\ outcome[x] \in {"ok", "lost"})
        /\ IF x \in Patchers THEN seen[x] = NoRow ELSE input[x] # NoInput}

\* While an insert is uncommitted the place has no profile.
InsertersAlone ==
    \A r \in Patchers : pc[r] = "commit" /\ seen[r] = NoRow => row[target[r]] = NoRow

\* A place's profile was made once, and the entry of its creation says by whom.
CreatedOnce ==
    /\ \A x \in Created : target[x] \in Places /\ row[target[x]] # NoRow
    /\ \A x, y \in Created : target[x] = target[y] => x = y
    /\ \A e \in writeLog :
          e.table = "accessibility_profiles" /\ e.action = "create" =>
              e.by \in Created /\ target[e.by] = e.rec

AuditInv == InsertersAlone /\ CreatedOnce

\* Statements that neither write a row nor end a transaction with a profile made.
LEMMA StatementAudit ==
  ASSUME StoreInv, AuditInv, NEW x \in Clients,
         \/ BeginPatch(x) \/ CheckPlace(x) \/ SelectForUpdate(x) \/ InsertConflict(x)
         \/ UpdatePatched(x) \/ InsertPatched(x) \/ BeginIngest(x) \/ SelectIngest(x)
         \/ InsertIngestedConflict(x) \/ UpdateIngested(x) \/ InsertIngested(x) \/ Abort(x)
  PROVE  AuditInv'
<1>. USE DEF StoreInv, TypeOK, Goto, Finish, InTransaction
<1>1. /\ UNCHANGED <<row, writeLog>>
      /\ pc[x] \notin {"audit", "done"}
      /\ pc'[x] # "audit" /\ (pc'[x] = "done" => outcome'[x] \notin {"ok", "lost"})
      /\ \A y \in Clients : y # x =>
            /\ pc'[y] = pc[y] /\ outcome'[y] = outcome[y] /\ seen'[y] = seen[y]
            /\ input'[y] = input[y] /\ target'[y] = target[y]
  BY DEF BeginPatch, CheckPlace, SelectForUpdate, InsertConflict, UpdatePatched,
     InsertPatched, BeginIngest, SelectIngest, InsertIngestedConflict, UpdateIngested,
     InsertIngested, Abort
<1>2. Created' = Created /\ x \notin Created
  BY <1>1 DEF Created, Clients, Keys
<1>3. \A y \in Created : target'[y] = target[y]
  BY <1>1, <1>2 DEF Created, Clients, Keys
<1>4. CreatedOnce'
  BY <1>1, <1>2, <1>3 DEF AuditInv, CreatedOnce
<1>5. x \in Patchers /\ pc'[x] = "commit" /\ seen'[x] = NoRow => row'[target'[x]] = NoRow
  BY StoreAssumption
     DEF BeginPatch, CheckPlace, SelectForUpdate, InsertConflict, UpdatePatched,
     InsertPatched, BeginIngest, SelectIngest, InsertIngestedConflict, UpdateIngested,
     InsertIngested, Abort, WritersSerialized, Clients
<1>6. InsertersAlone'
  BY <1>1, <1>5 DEF AuditInv, InsertersAlone, Clients
<1>. QED  BY <1>4, <1>6 DEF AuditInv

\* A PATCH that inserted makes the profile; one that updated makes none.
LEMMA CommitPatchAudit ==
  ASSUME StoreInv, AuditInv, NEW r \in Patchers, CommitPatch(r)
  PROVE  AuditInv'
<1>. USE DEF StoreInv, TypeOK, CommitPatch, Goto
<1>1. row' = [row EXCEPT ![target[r]] = draft[r]] /\ draft[r] # NoRow /\ target[r] \in Places
  BY DraftIsRow DEF WritersSerialized, RequestsWellFormed
<1>2. \A s \in Patchers : s # r /\ pc[s] = "commit" => target[s] # target[r]
  BY DEF WritersSerialized, CommittersCurrent
<1>3. InsertersAlone'
  BY <1>1, <1>2 DEF AuditInv, InsertersAlone, Clients, WritersSerialized, RequestsWellFormed
<1>4. Created' = Created \cup (IF seen[r] = NoRow THEN {r} ELSE {})
  BY StoreAssumption DEF Created, Clients, Keys
<1>5. seen[r] = NoRow => \A y \in Created : target[y] # target[r]
  BY DEF AuditInv, CreatedOnce, InsertersAlone
<1>6. CreatedOnce'
  BY <1>1, <1>4, <1>5 DEF AuditInv, CreatedOnce
<1>. QED  BY <1>3, <1>6 DEF AuditInv

LEMMA CommitIngestAudit ==
  ASSUME StoreInv, AuditInv, NEW i \in Ingesters, CommitIngest(i)
  PROVE  AuditInv'
<1>. USE StoreAssumption DEF StoreInv, TypeOK, CommitIngest, Goto, Finish
<1>1. row' = [row EXCEPT ![target[i]] = draft[i]] /\ draft[i] # NoRow /\ target[i] \in Places
  BY DraftIsRow DEF WritersSerialized, RequestsWellFormed
<1>2. \A s \in Patchers : pc[s] = "commit" => target[s] # target[i]
  BY DEF WritersSerialized, CommittersCurrent
<1>3. \A y \in Keys : pc'[y] = pc[y] /\ outcome'[y] = outcome[y]
  BY DEF Clients, Keys
<1>4. InsertersAlone'
  BY <1>1, <1>2, <1>3 DEF AuditInv, InsertersAlone, Keys, WritersSerialized, RequestsWellFormed
<1>5. Created' = Created
  BY <1>3 DEF Created
<1>6. CreatedOnce'
  BY <1>1, <1>5 DEF AuditInv, CreatedOnce
<1>. QED  BY <1>4, <1>6 DEF AuditInv

\* A POST makes a place nobody has made a profile for.
LEMMA CreatePlaceAudit ==
  ASSUME StoreInv, AuditInv, NEW q \in Posters, CreatePlace(q)
  PROVE  AuditInv'
<1>. USE StoreAssumption DEF StoreInv, TypeOK, Goto
<1>1. PICK p \in Places \ exists, d \in Contents \cup {NoInput} :
         /\ target' = [target EXCEPT ![q] = p]
         /\ input' = [input EXCEPT ![q] = d]
         /\ row' = IF d = NoInput THEN row ELSE [row EXCEPT ![p] = Patched(NoRow, d, q)]
  BY DEF CreatePlace
<1>2. /\ pc' = [pc EXCEPT ![q] = "audit"]
      /\ pc[q] = "idle"
      /\ UNCHANGED <<seen, outcome, writeLog>>
  BY DEF CreatePlace
<1>3. row[p] = NoRow
  BY DEF WritersSerialized, RowsHavePlaces
<1>4. ASSUME d # NoInput PROVE Patched(NoRow, d, q) # NoRow
  <2>1. d \in Content /\ q \in Keys
    BY <1>4 DEF Keys
  <2>2. Patched(NoRow, d, q) \in Row(Keys)
    BY <2>1, PatchedType
  <2>. QED  BY <2>2
<1>5. InsertersAlone'
  BY <1>1, <1>2 DEF AuditInv, InsertersAlone, Clients, WritersSerialized, TargetsExist
<1>6. Created' = Created \cup (IF d = NoInput THEN {} ELSE {q}) /\ q \notin Created
  BY <1>1, <1>2 DEF Created, Clients, Keys
<1>7. \A y \in Created : y # q /\ target'[y] = target[y] /\ target[y] # p
  BY <1>1, <1>3, <1>6 DEF AuditInv, CreatedOnce, Created, Clients, Keys
<1>8. CreatedOnce'
  BY <1>1, <1>2, <1>4, <1>6, <1>7 DEF AuditInv, CreatedOnce, Clients
<1>. QED  BY <1>5, <1>8 DEF AuditInv

\* The entry, or the loss of it, comes after the profile was made.
LEMMA EntryAudit ==
  ASSUME StoreInv, AuditInv, NEW x \in Keys,
         \/ x \in Patchers /\ AuditPatch(x)
         \/ x \in Posters /\ AuditCreate(x)
         \/ CrashBeforeAudit(x)
  PROVE  AuditInv'
<1>. USE StoreAssumption DEF StoreInv, TypeOK, Goto, Finish, Clients, Keys
<1>1. /\ UNCHANGED <<row, target, input, seen>>
      /\ pc[x] = "audit" /\ pc' = [pc EXCEPT ![x] = "done"]
      /\ \E how \in {"ok", "lost"} : outcome' = [outcome EXCEPT ![x] = how]
  BY DEF AuditPatch, AuditCreate, CrashBeforeAudit
<1>2. Created' = Created
  BY <1>1 DEF Created
<1>3. InsertersAlone'
  BY <1>1 DEF AuditInv, InsertersAlone
<1>4. \A e \in writeLog' \ writeLog :
         e.table = "accessibility_profiles" /\ e.action = "create" =>
             e.by = x /\ x \in Created /\ target[x] = e.rec
  BY <1>1 DEF AuditPatch, AuditCreate, CrashBeforeAudit, Entry, Created
<1>5. CreatedOnce'
  BY <1>1, <1>2, <1>4 DEF AuditInv, CreatedOnce
<1>. QED  BY <1>3, <1>5 DEF AuditInv

\* The audit trail names at most one maker of a place's profile.
THEOREM OneCreateInTrail == Spec => []OneCreateLogged
<1>1. Init => AuditInv
  BY DEF Init, AuditInv, InsertersAlone, CreatedOnce, Created, Clients, Keys
<1>2. StoreInv /\ AuditInv /\ [Next]_vars => AuditInv'
  <2>. SUFFICES ASSUME StoreInv, AuditInv, [Next]_vars PROVE AuditInv'
    OBVIOUS
  <2>1. CASE UNCHANGED vars \/ Quiescent
    BY <2>1 DEF vars, Quiescent, AuditInv, InsertersAlone, CreatedOnce, Created
  <2>2. ASSUME NEW r \in Patchers, BeginPatch(r) \/ StepPatch(r) PROVE AuditInv'
    BY <2>2, StatementAudit, CommitPatchAudit, EntryAudit DEF StepPatch, Clients, Keys
  <2>3. ASSUME NEW i \in Ingesters, BeginIngest(i) \/ StepIngest(i) PROVE AuditInv'
    BY <2>3, StatementAudit, CommitIngestAudit DEF StepIngest, Clients
  <2>4. ASSUME NEW q \in Posters, CreatePlace(q) \/ AuditCreate(q) PROVE AuditInv'
    BY <2>4, CreatePlaceAudit, EntryAudit DEF Keys
  <2>5. ASSUME NEW x \in Patchers \cup Ingesters, Abort(x) PROVE AuditInv'
    BY <2>5, StatementAudit DEF Clients
  <2>6. ASSUME NEW x \in Keys, CrashBeforeAudit(x) PROVE AuditInv'
    BY <2>6, EntryAudit
  <2>. QED  BY <2>1, <2>2, <2>3, <2>4, <2>5, <2>6 DEF Next
<1>3. TypeOK /\ AuditInv => OneCreateLogged
  BY DEF TypeOK, AuditInv, CreatedOnce, OneCreateLogged
<1>4. Spec => []StoreInv
  BY InitInv, StepInv, PTL DEF Spec
<1>. QED  BY <1>1, <1>2, <1>3, <1>4, StoreInvariant, PTL DEF Spec

-----------------------------------------------------------------------------
(***************************************************************************)
(* Refinement.  ProfileStore implements ProfileRegister: under the mapping *)
(* of ProfileStore's Register instance, a commit is the step in which the  *)
(* request takes effect, the answer is its acknowledgement, and every      *)
(* other statement of a handler leaves the register as it is.              *)
(***************************************************************************)

\* The register's copy of the rule engine flags what the store's does.
LEMMA SameFlags == ASSUME NEW content PROVE Register!FlagsOf(content) = FlagsOf(content)
BY DEF FlagsOf, Register!FlagsOf, HasRamp, Register!HasRamp, Flagged, Register!Flagged,
       Ramps, Register!Ramps

LEMMA SameRows ==
  ASSUME NEW old, NEW d, NEW key
  PROVE  /\ Register!Patched(old, d, key) = Patched(old, d, key)
         /\ Register!Ingested(old, d) = Ingested(old, d)
<1>1. Register!MergePatch(Register!Base(old), d) = MergePatch(Base(old), d)
  BY DEF MergePatch, Register!MergePatch, Base, Register!Base, EmptyContent,
         Register!EmptyContent
<1>2. Register!Patched(old, d, key) = Patched(old, d, key)
  BY <1>1, SameFlags DEF Patched, Register!Patched
<1>. QED  BY <1>2, SameFlags DEF Ingested, Register!Ingested

\* A request has no outcome until it ends and no place until it begins.
Unanswered ==
    \A x \in Clients :
        /\ pc[x] # "done" => outcome[x] = "none"
        /\ pc[x] = "idle" => target[x] = NoInput

LEMMA UnansweredStep == TypeOK /\ Unanswered /\ [Next]_vars => Unanswered'
<1>. SUFFICES ASSUME TypeOK, Unanswered, [Next]_vars PROVE Unanswered'
  OBVIOUS
<1>. USE DEF TypeOK, Unanswered, Goto, Finish
<1>1. ASSUME NEW r \in Patchers, BeginPatch(r) \/ StepPatch(r) PROVE Unanswered'
  <2>1. r \in Clients
    BY DEF Clients
  <2>2. CASE BeginPatch(r)
    BY <2>1, <2>2 DEF BeginPatch
  <2>3. CASE CheckPlace(r)
    BY <2>1, <2>3 DEF CheckPlace
  <2>4. CASE InsertConflict(r)
    BY <2>1, <2>4 DEF InsertConflict
  <2>5. CASE SelectForUpdate(r) \/ InsertPatched(r) \/ UpdatePatched(r)
             \/ CommitPatch(r) \/ AuditPatch(r)
    BY <2>1, <2>5 DEF SelectForUpdate, InsertPatched, UpdatePatched, CommitPatch, AuditPatch
  <2>. QED  BY <1>1, <2>2, <2>3, <2>4, <2>5 DEF StepPatch
<1>2. ASSUME NEW i \in Ingesters, BeginIngest(i) \/ StepIngest(i) PROVE Unanswered'
  <2>1. i \in Clients
    BY DEF Clients
  <2>2. CASE BeginIngest(i)
    BY <2>1, <2>2 DEF BeginIngest
  <2>3. CASE SelectIngest(i)
    BY <2>1, <2>3 DEF SelectIngest
  <2>4. CASE InsertIngested(i) \/ InsertIngestedConflict(i) \/ UpdateIngested(i)
             \/ CommitIngest(i)
    BY <2>1, <2>4 DEF InsertIngested, InsertIngestedConflict, UpdateIngested, CommitIngest
  <2>. QED  BY <1>2, <2>2, <2>3, <2>4 DEF StepIngest
<1>3. ASSUME NEW x \in Clients,
             CreatePlace(x) \/ AuditCreate(x) \/ Abort(x) \/ CrashBeforeAudit(x)
      PROVE  Unanswered'
  BY <1>3 DEF CreatePlace, AuditCreate, Abort, CrashBeforeAudit
<1>4. CASE UNCHANGED vars
  BY <1>4 DEF vars
<1>. QED  BY <1>1, <1>2, <1>3, <1>4 DEF Next, Quiescent, Clients, Keys

-----------------------------------------------------------------------------
(* What a step of one request does to the mapped sets                      *)

\* Before its commit, or ending without one, a request is not in either set.
LEMMA NotYetCommitted ==
    ASSUME TypeOK, NEW x \in Clients, outcome[x] = "none", pc[x] # "audit",
           pc' = [pc EXCEPT ![x] = pc'[x]], pc'[x] # "audit",
           outcome' = [outcome EXCEPT ![x] = outcome'[x]],
           outcome'[x] \notin {"ok", "lost", "written"}
    PROVE  Committed' = Committed /\ Acked' = Acked
  BY DEF TypeOK, Committed, Acked

\* A commit adds exactly the request that commits.
LEMMA JustCommitted ==
    ASSUME TypeOK, NEW x \in Clients, outcome[x] = "none", pc[x] # "audit",
           pc' = [pc EXCEPT ![x] = pc'[x]],
           outcome' = [outcome EXCEPT ![x] = outcome'[x]],
           outcome'[x] # "ok",
           pc'[x] = "audit" \/ outcome'[x] = "written"
    PROVE  /\ x \notin Committed
           /\ Committed' = Committed \cup {x}
           /\ Acked' = Acked
  BY DEF TypeOK, Committed, Acked

\* After its commit a request stays in Committed however it ends.
LEMMA EndedAfterCommit ==
    ASSUME TypeOK, NEW x \in Clients, outcome[x] = "none", pc[x] = "audit",
           pc' = [pc EXCEPT ![x] = "done"],
           outcome' = [outcome EXCEPT ![x] = outcome'[x]],
           outcome'[x] \in {"ok", "lost"}
    PROVE  /\ x \in Committed \ Acked
           /\ Committed' = Committed
           /\ Acked' = IF outcome'[x] = "ok" THEN Acked \cup {x} ELSE Acked
  BY DEF TypeOK, Committed, Acked

-----------------------------------------------------------------------------
(* Each action is a step of the register or leaves it unchanged            *)

RegisterVars == <<row, target, input, Committed, Acked>>

LEMMA PatchSteps ==
    ASSUME StoreInv, Unanswered, NEW r \in Patchers, BeginPatch(r) \/ StepPatch(r)
    PROVE  Register!Next \/ UNCHANGED RegisterVars
<1>0. r \in Clients /\ r \in Register!Clients
  BY DEF Clients, Register!Clients
<1>. USE <1>0 DEF StoreInv, TypeOK, Unanswered, Goto, Finish
<1>1. CASE BeginPatch(r)
  <2>1. Committed' = Committed /\ Acked' = Acked
    BY <1>1, NotYetCommitted DEF BeginPatch
  <2>2. PICK p \in Places : target' = [target EXCEPT ![r] = p]
    BY <1>1 DEF BeginPatch
  <2>3. \E d \in Patch \cup Content \cup {NoInput} : input' = [input EXCEPT ![r] = d]
    BY <1>1, StoreAssumption DEF BeginPatch
  <2>4. Patch = Register!Patch /\ Content = Register!Content
    BY DEF Patch, Register!Patch, Content, Register!Content
  <2>5. Register!Submit(r, p)
    BY <1>1, <2>1, <2>2, <2>3, <2>4 DEF BeginPatch, Register!Submit
  <2>. QED  BY <2>5 DEF Register!Next
<1>2. CASE CheckPlace(r)
  BY <1>2, NotYetCommitted DEF CheckPlace, RegisterVars
<1>3. CASE SelectForUpdate(r)
  BY <1>3, NotYetCommitted DEF SelectForUpdate, RegisterVars
<1>4. CASE InsertPatched(r)
  BY <1>4, NotYetCommitted DEF InsertPatched, RegisterVars
<1>5. CASE InsertConflict(r)
  BY <1>5, NotYetCommitted DEF InsertConflict, RegisterVars
<1>6. CASE UpdatePatched(r)
  BY <1>6, NotYetCommitted DEF UpdatePatched, RegisterVars
<1>7. CASE CommitPatch(r)
  <2>1. /\ draft[r] = Patched(row[target[r]], input[r], r)
        /\ target[r] \in Places
    BY <1>7 DEF CommitPatch, WritersSerialized, CommittersCurrent, RequestsWellFormed
  <2>2. /\ r \notin Committed
        /\ Committed' = Committed \cup {r}
        /\ Acked' = Acked
    BY <1>7, JustCommitted DEF CommitPatch
  <2>3. Register!Patched(row[target[r]], input[r], r) = Patched(row[target[r]], input[r], r)
    BY SameRows
  <2>4. Register!ApplyPatch(r)
    BY <1>7, <2>1, <2>2, <2>3 DEF CommitPatch, Register!ApplyPatch, Register!TakeEffect
  <2>. QED  BY <2>4 DEF Register!Next
<1>8. CASE AuditPatch(r)
  <2>1. r \in Committed \ Acked /\ Committed' = Committed /\ Acked' = Acked \cup {r}
    BY <1>8, EndedAfterCommit DEF AuditPatch
  <2>2. Register!Acknowledge(r)
    BY <1>8, <2>1 DEF AuditPatch, Register!Acknowledge
  <2>. QED  BY <2>2 DEF Register!Next
<1>. QED
  BY <1>1, <1>2, <1>3, <1>4, <1>5, <1>6, <1>7, <1>8 DEF StepPatch

LEMMA IngestSteps ==
    ASSUME StoreInv, Unanswered, NEW i \in Ingesters, BeginIngest(i) \/ StepIngest(i)
    PROVE  Register!Next \/ UNCHANGED RegisterVars
<1>0. i \in Clients /\ i \in Register!Clients
  BY DEF Clients, Register!Clients
<1>. USE <1>0 DEF StoreInv, TypeOK, Unanswered, Goto, Finish
<1>1. CASE BeginIngest(i)
  <2>1. Committed' = Committed /\ Acked' = Acked
    BY <1>1, NotYetCommitted DEF BeginIngest
  <2>2. PICK p \in Places : target' = [target EXCEPT ![i] = p]
    BY <1>1 DEF BeginIngest
  <2>3. \E d \in Patch \cup Content \cup {NoInput} : input' = [input EXCEPT ![i] = d]
    BY <1>1, StoreAssumption DEF BeginIngest
  <2>4. Patch = Register!Patch /\ Content = Register!Content
    BY DEF Patch, Register!Patch, Content, Register!Content
  <2>5. Register!Submit(i, p)
    BY <1>1, <2>1, <2>2, <2>3, <2>4 DEF BeginIngest, Register!Submit
  <2>. QED  BY <2>5 DEF Register!Next
<1>2. CASE SelectIngest(i)
  BY <1>2, NotYetCommitted DEF SelectIngest, RegisterVars
<1>3. CASE InsertIngested(i)
  BY <1>3, NotYetCommitted DEF InsertIngested, RegisterVars
<1>4. CASE InsertIngestedConflict(i)
  BY <1>4, NotYetCommitted DEF InsertIngestedConflict, RegisterVars
<1>5. CASE UpdateIngested(i)
  BY <1>5, NotYetCommitted DEF UpdateIngested, RegisterVars
<1>6. CASE CommitIngest(i)
  <2>1. /\ draft[i] = Ingested(row[target[i]], input[i])
        /\ target[i] \in Places
    BY <1>6 DEF CommitIngest, WritersSerialized, CommittersCurrent, RequestsWellFormed
  <2>2. /\ i \notin Committed
        /\ Committed' = Committed \cup {i}
        /\ Acked' = Acked
    BY <1>6, JustCommitted DEF CommitIngest
  <2>3. Register!Ingested(row[target[i]], input[i]) = Ingested(row[target[i]], input[i])
    BY SameRows
  <2>4. Register!ApplyIngestion(i)
    BY <1>6, <2>1, <2>2, <2>3 DEF CommitIngest, Register!ApplyIngestion, Register!TakeEffect
  <2>. QED  BY <2>4 DEF Register!Next
<1>. QED
  BY <1>1, <1>2, <1>3, <1>4, <1>5, <1>6 DEF StepIngest

LEMMA PostSteps ==
    ASSUME StoreInv, Unanswered, NEW q \in Posters, CreatePlace(q) \/ AuditCreate(q)
    PROVE  Register!Next
<1>0. q \in Clients /\ q \in Register!Clients
  BY DEF Clients, Register!Clients
<1>. USE <1>0 DEF StoreInv, TypeOK, Unanswered, Goto, Finish
<1>1. CASE CreatePlace(q)
  <2>1. PICK p \in Places \ exists, d \in Contents \cup {NoInput} :
            CreatePlace(q)!2!(p, d)
    BY <1>1 DEF CreatePlace
  <2>2. row[p] = NoRow
    BY DEF WritersSerialized, RowsHavePlaces
  <2>3. /\ q \notin Committed
        /\ Committed' = Committed \cup {q}
        /\ Acked' = Acked
    BY <1>1, JustCommitted DEF CreatePlace
  <2>4. Register!Patched(NoRow, d, q) = Patched(NoRow, d, q)
    BY SameRows
  <2>5. d \in Content \cup {NoInput} /\ Register!Content = Content
    BY StoreAssumption DEF Content, Register!Content
  <2>6. Register!Post(q, p)
    BY <1>1, <2>1, <2>2, <2>3, <2>4, <2>5 DEF CreatePlace, Register!Post
  <2>. QED  BY <2>6 DEF Register!Next
<1>2. CASE AuditCreate(q)
  <2>1. q \in Committed \ Acked /\ Committed' = Committed /\ Acked' = Acked \cup {q}
    BY <1>2, EndedAfterCommit DEF AuditCreate
  <2>2. Register!Acknowledge(q)
    BY <1>2, <2>1 DEF AuditCreate, Register!Acknowledge
  <2>. QED  BY <2>2 DEF Register!Next
<1>. QED  BY <1>1, <1>2

LEMMA FailureSteps ==
    ASSUME StoreInv, Unanswered, NEW x \in Clients, Abort(x) \/ CrashBeforeAudit(x)
    PROVE  UNCHANGED RegisterVars
<1>. USE DEF StoreInv, TypeOK, Unanswered, Goto, Finish
<1>1. CASE Abort(x)
  BY <1>1, NotYetCommitted DEF Abort, InTransaction, RegisterVars
<1>2. CASE CrashBeforeAudit(x)
  BY <1>2, EndedAfterCommit DEF CrashBeforeAudit, RegisterVars
<1>. QED  BY <1>1, <1>2

\* What earlier imports have left is a state the register may start from.
LEMMA InitialRegister == Init => Register!Init
<1>. SUFFICES ASSUME Init PROVE Register!Init
  OBVIOUS
<1>1. row \in [Places -> {NoRow} \cup {Register!Ingested(NoRow, c) : c \in Register!Content}]
  <2>1. Imported \subseteq {Register!Ingested(NoRow, c) : c \in Register!Content}
    <3>1. \A c : Register!Ingested(NoRow, c) = Ingested(NoRow, c)
      BY SameRows
    <3>2. Contents \subseteq Register!Content
      BY StoreAssumption DEF Content, Register!Content
    <3>. QED  BY <3>1, <3>2 DEF Imported
  <2>. QED  BY <2>1 DEF Init
<1>2. Register!Clients = Clients
  BY DEF Clients, Register!Clients
<1>3. Committed = {} /\ Acked = {}
  BY DEF Init, Committed, Acked
<1>. QED  BY <1>1, <1>2, <1>3 DEF Init, Register!Init

-----------------------------------------------------------------------------
\* The store implements the register: whatever locks, retries, failures and
\* crashes interleave, each request takes effect once, atomically, on the row
\* it finds at its commit, and is acknowledged only after that.
THEOREM Refinement == Spec => ImplementsRegister
<1>1. Init => Register!Init
  BY InitialRegister
<1>2. StoreInv /\ Unanswered /\ [Next]_vars => [Register!Next]_(Register!vars)
  <2>. SUFFICES ASSUME StoreInv, Unanswered, [Next]_vars
                PROVE  Register!Next \/ UNCHANGED RegisterVars
    BY DEF Register!vars, RegisterVars
  <2>1. CASE UNCHANGED vars
    BY <2>1 DEF vars, RegisterVars, Committed, Acked
  <2>2. CASE Next
    BY <2>1, <2>2, PatchSteps, IngestSteps, PostSteps, FailureSteps
       DEF Next, Quiescent, Clients, Keys
  <2>. QED  BY <2>1, <2>2
<1>3. Init => Unanswered
  BY DEF Init, Unanswered
<1>4. Spec => [](StoreInv /\ Unanswered)
  <2>1. StoreInv => TypeOK
    BY DEF StoreInv
  <2>. QED  BY <2>1, <1>3, InitInv, StepInv, UnansweredStep, PTL DEF Spec
<1>. QED  BY <1>1, <1>2, <1>4, PTL DEF Spec, ImplementsRegister, Register!Spec

-----------------------------------------------------------------------------
(* Waiting                                                                 *)

\* What the next step of a request's handler takes, failures apart: only a SELECT
\* FOR UPDATE of a row that is there, an insert and an ingestion's update wait.
CanGoOn(x) ==
    LET p == target[x] IN
    CASE pc[x] = "select" -> x \in Ingesters \/ row[p] = NoRow \/ owner[p] = Nobody
      [] pc[x] = "write" ->
            \/ owner[p] = Nobody
            \/ seen[x] = NoRow /\ row[p] # NoRow
            \/ seen[x] # NoRow /\ x \in Patchers
      [] OTHER -> pc[x] \in {"check", "commit", "audit"}

\* Waits do not close: a request that cannot go on waits for the transaction that
\* holds its place, and that one waits for nobody.
EveryWaitEnds ==
    \A x \in Clients : pc[x] \notin {"idle", "done"} =>
        \/ CanGoOn(x)
        \/ owner[target[x]] \in Clients \ {x} /\ CanGoOn(owner[target[x]])

\* Every step of a request's own, whatever its answer will be.
Step(x) ==
    \/ x \in Patchers /\ StepPatch(x)
    \/ x \in Ingesters /\ StepIngest(x)
    \/ x \in Posters /\ AuditCreate(x)

\* How far a request is from its end, its remaining attempts included.
Distance(x) ==
    IF pc[x] \in {"idle", "done"} THEN 0
    ELSE 5 * (MaxAttempts - attempt[x]) +
         CASE pc[x] = "check" -> 5
           [] pc[x] = "select" -> 4
           [] pc[x] = "write" -> 3
           [] pc[x] = "commit" -> 2
           [] OTHER -> 1

\* A request that goes on comes nearer to its end, and no writer sends another
\* back.
GoingOnEnds ==
    [][\A x \in Clients :
          /\ Step(x) => Distance(x)' < Distance(x)
          /\ pc[x] # "idle" => Distance(x)' <= Distance(x)]_vars

\* A place is held only by a transaction on it that has all it needs to commit.
HoldersAtWork ==
    \A p \in Places : owner[p] # Nobody =>
        LET x == owner[p] IN
        /\ x \in Patchers \cup Ingesters /\ target[x] = p
        /\ pc[x] = "commit" \/ (pc[x] = "write" /\ x \in Patchers /\ seen[x] # NoRow)

LEMMA HoldersStart == Init => HoldersAtWork
  BY DEF Init, HoldersAtWork

\* A statement takes a place only when nobody holds it, and its transaction then
\* lacks nothing but the merge or the commit.
LEMMA StatementHolders ==
    ASSUME StoreInv, HoldersAtWork, NEW x \in Patchers \cup Ingesters,
           \/ x \in Patchers /\ (CheckPlace(x) \/ SelectForUpdate(x) \/ InsertPatched(x) \/ InsertConflict(x) \/ UpdatePatched(x))
           \/ x \in Ingesters /\ (SelectIngest(x) \/ InsertIngested(x) \/ InsertIngestedConflict(x) \/ UpdateIngested(x))
    PROVE  HoldersAtWork'
<1>. USE StoreAssumption DEF StoreInv, TypeOK, WritersSerialized, RequestsWellFormed, HoldersAtWork, Goto, Finish, Clients
<1>1. CASE x \in Patchers /\ (CheckPlace(x) \/ InsertConflict(x))
  <2>1. /\ UNCHANGED <<owner, target, seen>>
        /\ \A y \in Clients : y # x => pc'[y] = pc[y]
        /\ pc[x] = "check" \/ (pc[x] = "write" /\ seen[x] = NoRow)
    <3>1. CASE CheckPlace(x)
      <4>1. \/ pc' = [pc EXCEPT ![x] = "select"]
            \/ pc' = [pc EXCEPT ![x] = "done"]
        BY <3>1 DEF CheckPlace
      <4>2. UNCHANGED <<owner, target, seen>> /\ pc[x] = "check"
        BY <3>1 DEF CheckPlace
      <4>. QED  BY <4>1, <4>2
    <3>2. CASE InsertConflict(x)
      <4>1. CASE attempt[x] < MaxAttempts
        BY <3>2, <4>1 DEF InsertConflict
      <4>2. CASE ~(attempt[x] < MaxAttempts)
        BY <3>2, <4>2 DEF InsertConflict
      <4>. QED  BY <4>1, <4>2
    <3>. QED  BY <1>1, <3>1, <3>2
  <2>. QED  BY <2>1
<1>2. CASE x \in Patchers /\ SelectForUpdate(x)
  BY <1>2 DEF SelectForUpdate
<1>3. CASE x \in Patchers /\ (InsertPatched(x) \/ UpdatePatched(x))
  BY <1>3 DEF InsertPatched, UpdatePatched
<1>4. CASE x \in Ingesters /\ (SelectIngest(x) \/ InsertIngestedConflict(x))
  BY <1>4 DEF SelectIngest, InsertIngestedConflict
<1>5. CASE x \in Ingesters /\ (InsertIngested(x) \/ UpdateIngested(x))
  BY <1>5 DEF InsertIngested, UpdateIngested
<1>. QED  BY <1>1, <1>2, <1>3, <1>4, <1>5

\* A transaction that ends, by commit or by rollback, holds nothing afterwards.
LEMMA EndHolders ==
    ASSUME StoreInv, HoldersAtWork, NEW x \in Patchers \cup Ingesters,
           \/ x \in Patchers /\ CommitPatch(x)
           \/ x \in Ingesters /\ CommitIngest(x)
           \/ Abort(x)
    PROVE  HoldersAtWork'
<1>1. /\ owner' = Released(x)
      /\ UNCHANGED <<target, seen>>
      /\ \A y \in Clients : y # x => pc'[y] = pc[y]
  BY DEF CommitPatch, CommitIngest, Abort, Goto, Finish, StoreInv, TypeOK
<1>. QED  BY <1>1, StoreAssumption DEF HoldersAtWork, Released, Clients

\* Requests that begin, audit entries and crashes after a commit concern no
\* holder.
LEMMA OtherHolders ==
    ASSUME StoreInv, HoldersAtWork, NEW x \in Clients,
           \/ x \in Patchers /\ (BeginPatch(x) \/ AuditPatch(x))
           \/ x \in Ingesters /\ BeginIngest(x)
           \/ x \in Posters /\ (CreatePlace(x) \/ AuditCreate(x))
           \/ CrashBeforeAudit(x)
    PROVE  HoldersAtWork'
<1>1. /\ pc[x] \in {"idle", "audit"}
      /\ UNCHANGED <<owner, seen>>
      /\ \A y \in Clients : y # x => pc'[y] = pc[y] /\ target'[y] = target[y]
  BY DEF BeginPatch, AuditPatch, BeginIngest, CreatePlace, AuditCreate, CrashBeforeAudit, Goto, Finish, StoreInv, TypeOK
<1>. QED  BY <1>1 DEF HoldersAtWork, Clients

\* In every reachable state whoever holds a place is about to commit to it: no
\* lock and no pending index entry outlives its transaction, and no transaction
\* that holds one still has to wait for another.
THEOREM HoldersCommit == Spec => []HoldersAtWork
<1>1. StoreInv /\ HoldersAtWork /\ [Next]_vars => HoldersAtWork'
  <2>. SUFFICES ASSUME StoreInv, HoldersAtWork, [Next]_vars PROVE HoldersAtWork'
    OBVIOUS
  <2>1. CASE UNCHANGED vars
    BY <2>1 DEF vars, HoldersAtWork
  <2>2. CASE Next
    BY <2>1, <2>2, StatementHolders, EndHolders, OtherHolders
       DEF Next, StepPatch, StepIngest, Quiescent, Clients, Keys
  <2>. QED  BY <2>1, <2>2
<1>2. Spec => []StoreInv
  BY InitInv, StepInv, PTL DEF Spec
<1>. QED  BY <1>1, <1>2, HoldersStart, PTL DEF Spec

\* No waits close on each other: a request that cannot take its next step waits
\* for one other, which can.
THEOREM WaitsEnd == Spec => []EveryWaitEnds
<1>1. TypeOK /\ WritersSerialized /\ HoldersAtWork => EveryWaitEnds
  <2>. SUFFICES ASSUME TypeOK, WritersSerialized, HoldersAtWork,
                       NEW x \in Clients, pc[x] \notin {"idle", "done"}, ~CanGoOn(x)
                PROVE  owner[target[x]] \in Clients \ {x} /\ CanGoOn(owner[target[x]])
    BY DEF EveryWaitEnds
  <2>. DEFINE p == target[x]
              y == owner[p]
  <2>1. p \in Places
    BY DEF WritersSerialized, RequestsWellFormed, Clients
  <2>2. pc[x] \in {"select", "write"} /\ y # Nobody
    BY DEF CanGoOn, TypeOK, Labels
  <2>3. y \in Clients
    BY <2>1, <2>2 DEF TypeOK
  <2>4. /\ y \in Patchers \cup Ingesters /\ target[y] = p
        /\ pc[y] = "commit" \/ (pc[y] = "write" /\ y \in Patchers /\ seen[y] # NoRow)
    BY <2>1, <2>2 DEF HoldersAtWork
  <2>5. CanGoOn(y)
    BY <2>4 DEF CanGoOn
  <2>. QED  BY <2>3, <2>5
<1>. QED  BY <1>1, StoreInvariant, HoldersCommit, PTL

\* Each step of a request's own, a retry included, brings it nearer to its end.
LEMMA StepShortens ==
    ASSUME StoreInv, NEW x \in Clients, Step(x)
    PROVE  Distance(x)' < Distance(x)
<1>. USE StoreAssumption DEF StoreInv, TypeOK, Distance, Goto, Finish
<1>0. attempt[x] \in Nat /\ MaxAttempts \in Nat /\ attempt[x] <= MaxAttempts
  OBVIOUS
<1>1. CASE x \in Patchers /\ InsertConflict(x)
  <2>1. CASE attempt[x] < MaxAttempts
    <3>1. pc[x] = "write" /\ pc'[x] = "check" /\ attempt'[x] = attempt[x] + 1
      BY <1>1, <2>1 DEF InsertConflict
    <3>. QED  BY <3>1, <1>0
  <2>2. CASE ~(attempt[x] < MaxAttempts)
    <3>1. pc[x] = "write" /\ pc'[x] = "done"
      BY <1>1, <2>2 DEF InsertConflict
    <3>. QED  BY <3>1, <1>0
  <2>. QED  BY <2>1, <2>2
<1>2. CASE ~(x \in Patchers /\ InsertConflict(x))
  <2>1. /\ attempt'[x] = attempt[x]
        /\ \/ pc[x] = "check" /\ pc'[x] \in {"select", "done"}
           \/ pc[x] = "select" /\ pc'[x] \in {"write", "done"}
           \/ pc[x] = "write" /\ pc'[x] \in {"commit", "done"}
           \/ pc[x] = "commit" /\ pc'[x] \in {"audit", "done"}
           \/ pc[x] = "audit" /\ pc'[x] = "done"
    BY <1>2 DEF Step, StepPatch, StepIngest, CheckPlace, SelectForUpdate,
       InsertPatched, UpdatePatched, CommitPatch, AuditPatch, SelectIngest,
       InsertIngested, InsertIngestedConflict, UpdateIngested, CommitIngest, AuditCreate
  <2>. QED  BY <2>1, <1>0
<1>. QED  BY <1>1, <1>2

\* What another request or a failure does never lengthens a request's way.
LEMMA NeverLengthened ==
    ASSUME StoreInv, NEW x \in Clients, pc[x] # "idle", [Next]_vars
    PROVE  Distance(x)' <= Distance(x)
<1>0. attempt[x] \in Nat /\ MaxAttempts \in Nat /\ attempt[x] <= MaxAttempts
  BY StoreAssumption DEF StoreInv, TypeOK
<1>1. Distance(x) \in Nat
  BY <1>0 DEF Distance
<1>2. CASE pc'[x] = pc[x] /\ attempt'[x] = attempt[x]
  BY <1>1, <1>2 DEF Distance
<1>3. CASE pc'[x] = "done"
  BY <1>1, <1>3 DEF Distance
<1>4. CASE Step(x)
  <2>1. CASE pc'[x] = "done"
    BY <1>3, <2>1
  <2>2. Distance(x)' < Distance(x)
    BY <1>4, StepShortens
  <2>3. attempt'[x] \in Nat /\ attempt'[x] <= MaxAttempts
    BY StepInv, <1>0, StoreAssumption DEF StoreInv, TypeOK
  <2>4. Distance(x)' \in Nat
    BY <2>3, <1>0 DEF Distance
  <2>. QED  BY <2>2, <2>4, <1>1
<1>5. ASSUME NEW y \in Clients \ {x},
             \/ Step(y) \/ BeginPatch(y) \/ BeginIngest(y) \/ CreatePlace(y)
             \/ Abort(y) \/ CrashBeforeAudit(y)
      PROVE  pc'[x] = pc[x] /\ attempt'[x] = attempt[x]
  BY <1>5 DEF StoreInv, TypeOK, Goto, Finish, Step, StepPatch, StepIngest,
     CheckPlace, SelectForUpdate, InsertPatched, InsertConflict, UpdatePatched,
     CommitPatch, AuditPatch, SelectIngest, InsertIngested, InsertIngestedConflict,
     UpdateIngested, CommitIngest, AuditCreate, BeginPatch, BeginIngest,
     CreatePlace, Abort, CrashBeforeAudit
<1>6. CASE Abort(x) \/ CrashBeforeAudit(x)
  BY <1>3, <1>6 DEF Abort, CrashBeforeAudit, Finish, Goto, StoreInv, TypeOK
<1>7. ~(BeginPatch(x) \/ BeginIngest(x) \/ CreatePlace(x))
  BY DEF BeginPatch, BeginIngest, CreatePlace
<1>8. CASE UNCHANGED vars
  BY <1>2, <1>8 DEF vars
<1>9. CASE Next
  <2>1. PICK y \in Clients :
           \/ Step(y) \/ BeginPatch(y) \/ BeginIngest(y) \/ CreatePlace(y)
           \/ Abort(y) \/ CrashBeforeAudit(y) \/ UNCHANGED vars
    BY <1>9 DEF Next, Step, Quiescent, Clients, Keys
  <2>. QED  BY <2>1, <1>2, <1>4, <1>5, <1>6, <1>7, <1>8
<1>. QED  BY <1>8, <1>9

\* Every request runs out of steps: its own shorten its way, at most 5 times
\* MaxAttempts of them, a retry included, and nothing that other requests do
\* lengthens it again.
THEOREM RequestsRunOut == Spec => GoingOnEnds
<1>1. StoreInv /\ [Next]_vars =>
        [\A x \in Clients :
            /\ Step(x) => Distance(x)' < Distance(x)
            /\ pc[x] # "idle" => Distance(x)' <= Distance(x)]_vars
  BY StepShortens, NeverLengthened
<1>2. Spec => []StoreInv
  BY InitInv, StepInv, PTL DEF Spec
<1>. QED  BY <1>1, <1>2, PTL DEF Spec, GoingOnEnds
=============================================================================
