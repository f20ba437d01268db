---------------------------- MODULE ProfileStore ----------------------------
(***************************************************************************)
(* The accessibility profiles of the registry as the API server and the    *)
(* ingestion binary write them: concurrent PATCH requests (UpsertProfile), *)
(* ingestion writes (UpsertProfileIngestion) and POST requests that create *)
(* a place with a profile inline, over one Postgres database under READ    *)
(* COMMITTED isolation, with the audit entry written after the commit.     *)
(*                                                                         *)
(* An action is one statement of one handler.  row is the committed table; *)
(* a transaction's uncommitted row is its draft, and owner[p] is the       *)
(* transaction that holds the lock on p's row or, while p has no row, the  *)
(* transaction whose uncommitted insert occupies p in the unique index on  *)
(* place_id.                                                               *)
(***************************************************************************)
EXTENDS Profiles, Naturals

CONSTANTS
    Places,         \* places the requests name
    InitialPlaces,  \* those that exist from the start
    ImportedPlaces, \* those of them that have an imported profile
    Patchers,       \* PATCH requests; each carries an API key of its own
    Ingesters,      \* profile writes of ingestion runs
    Posters,        \* POST /places requests; each carries a key of its own
    Patches,        \* the patches a PATCH may carry
    Contents,       \* the components an ingestion or a POST may carry
    NoInput,        \* nothing submitted, or a POST without a profile
    MaxAttempts     \* the loop bound of UpsertProfile

Clients == Patchers \cup Ingesters \cup Posters
Keys == Patchers \cup Posters

ASSUME StoreAssumption ==
    /\ InitialPlaces \subseteq Places
    /\ ImportedPlaces \subseteq InitialPlaces
    /\ Patches \subseteq Patch
    /\ Contents \subseteq Content
    /\ Patchers \cap Ingesters = {}
    /\ Patchers \cap Posters = {}
    /\ Ingesters \cap Posters = {}
    /\ Nobody \notin Clients
    /\ NoInput \notin Places \cup Content \cup Patch
    /\ NoRow \notin Row(Keys)
    /\ MaxAttempts \in Nat \ {0}

VARIABLES
    exists,     \* the places table: the places that exist
    row,        \* the committed profile of each place
    owner,      \* who holds each place's row lock or pending unique entry
    pc,         \* where each request is in its handler
    target,     \* the place a request names
    input,      \* the patch or profile a request carries
    seen,       \* what the request's SELECT returned
    draft,      \* the row its transaction has written and not committed
    attempt,    \* the attempt UpsertProfile is at
    outcome,    \* how a request ended
    writeLog    \* the write_logs table

vars == <<exists, row, owner, pc, target, input, seen, draft, attempt,
          outcome, writeLog>>

\* Parts of a handler in which its transaction is open.
InTransaction == {"check", "select", "write", "commit"}

\* What an earlier import may have left: a profile that no user has verified.
Imported == {Ingested(NoRow, c) : c \in Contents}

Init ==
    /\ exists = InitialPlaces
    /\ row \in [Places -> Imported \cup {NoRow}]
    /\ \A p \in Places : row[p] # NoRow <=> p \in ImportedPlaces
    /\ owner = [p \in Places |-> Nobody]
    /\ pc = [x \in Clients |-> "idle"]
    /\ target = [x \in Clients |-> NoInput]
    /\ input = [x \in Clients |-> NoInput]
    /\ seen = [x \in Clients |-> NoRow]
    /\ draft = [x \in Clients |-> NoRow]
    /\ attempt = [x \in Clients |-> 0]
    /\ outcome = [x \in Clients |-> "none"]
    /\ writeLog = {}

Goto(x, label) == pc' = [pc EXCEPT ![x] = label]

Finish(x, how) ==
    /\ Goto(x, "done")
    /\ outcome' = [outcome EXCEPT ![x] = how]

\* The locks after x's transaction ends, by commit or by rollback.
Released(x) == [p \in Places |-> IF owner[p] = x THEN Nobody ELSE owner[p]]

-----------------------------------------------------------------------------
(* PATCH /places/{id}/accessibility                                        *)

\* The handler has validated the body and calls UpsertProfile.
BeginPatch(r) ==
    /\ pc[r] = "idle"
    /\ Goto(r, "check")
    /\ \E p \in Places : target' = [target EXCEPT ![r] = p]
    /\ \E d \in Patches : input' = [input EXCEPT ![r] = d]
    /\ attempt' = [attempt EXCEPT ![r] = 1]
    /\ UNCHANGED <<exists, row, owner, seen, draft, outcome, writeLog>>

\* The transaction opens and looks the place up; ErrPlaceNotFound is a 404.
CheckPlace(r) ==
    /\ pc[r] = "check"
    /\ IF target[r] \in exists
       THEN Goto(r, "select") /\ UNCHANGED outcome
       ELSE Finish(r, "not found")
    /\ UNCHANGED <<exists, row, owner, target, input, seen, draft, attempt,
                   writeLog>>

\* Faulty variant: the row is read without FOR UPDATE.
SelectWithoutLock(r) ==
    /\ pc[r] = "select"
    /\ seen' = [seen EXCEPT ![r] = row[target[r]]]
    /\ Goto(r, "write")
    /\ UNCHANGED <<exists, row, owner, target, input, draft, attempt, outcome,
                   writeLog>>

\* SELECT ... FOR UPDATE: waits for the lock on a committed row and reads the
\* version it locked; a row another transaction has not committed is invisible.
SelectForUpdate(r) ==
    LET p == target[r] IN
    /\ pc[r] = "select"
    /\ row[p] # NoRow => owner[p] = Nobody
    /\ seen' = [seen EXCEPT ![r] = row[p]]
    /\ owner' = IF row[p] = NoRow THEN owner ELSE [owner EXCEPT ![p] = r]
    /\ Goto(r, "write")
    /\ UNCHANGED <<exists, row, target, input, draft, attempt, outcome,
                   writeLog>>

\* No row was found: INSERT, once no other insert of the place is pending.
InsertPatched(r) ==
    LET p == target[r] IN
    /\ pc[r] = "write"
    /\ seen[r] = NoRow
    /\ row[p] = NoRow
    /\ owner[p] = Nobody
    /\ owner' = [owner EXCEPT ![p] = r]
    /\ draft' = [draft EXCEPT ![r] = Patched(seen[r], input[r], r)]
    /\ Goto(r, "commit")
    /\ UNCHANGED <<exists, row, target, input, seen, attempt, outcome, writeLog>>

\* Faulty variant: the loop stops one attempt early.
InsertConflictOneTooFew(r) ==
    /\ pc[r] = "write"
    /\ seen[r] = NoRow
    /\ row[target[r]] # NoRow
    /\ IF attempt[r] + 1 < MaxAttempts
       THEN attempt' = [attempt EXCEPT ![r] = @ + 1] /\ Goto(r, "check") /\ UNCHANGED outcome
       ELSE Finish(r, "conflict") /\ UNCHANGED attempt
    /\ UNCHANGED <<exists, row, owner, target, input, seen, draft, writeLog>>

\* No row was found but one has been committed since: unique violation. The
\* transaction rolls back and UpsertProfile tries again, or gives up.
InsertConflict(r) ==
    /\ pc[r] = "write"
    /\ seen[r] = NoRow
    /\ row[target[r]] # NoRow
    /\ IF attempt[r] < MaxAttempts
       THEN /\ attempt' = [attempt EXCEPT ![r] = @ + 1]
            /\ Goto(r, "check")
            /\ UNCHANGED outcome
       ELSE Finish(r, "conflict") /\ UNCHANGED attempt
    /\ UNCHANGED <<exists, row, owner, target, input, seen, draft, writeLog>>

\* UPDATE of the locked row with the merge into the version that was read.
UpdatePatched(r) ==
    /\ pc[r] = "write"
    /\ seen[r] # NoRow
    /\ draft' = [draft EXCEPT ![r] = Patched(seen[r], input[r], r)]
    /\ Goto(r, "commit")
    /\ UNCHANGED <<exists, row, owner, target, input, seen, attempt, outcome,
                   writeLog>>

CommitPatch(r) ==
    /\ pc[r] = "commit"
    /\ row' = [row EXCEPT ![target[r]] = draft[r]]
    /\ owner' = Released(r)
    /\ Goto(r, "audit")
    /\ UNCHANGED <<exists, target, input, seen, draft, attempt, outcome,
                   writeLog>>

Entry(table, p, x, action) ==
    [table |-> table, rec |-> p, by |-> x, action |-> action]

\* Faulty variant: created survives from the attempt that failed.
AuditPatchStaleCreated(r) ==
    LET entry == Entry("accessibility_profiles", target[r], r,
                       IF seen[r] = NoRow \/ attempt[r] > 1 THEN "create" ELSE "update")
    IN  /\ pc[r] = "audit"
        /\ \E logged \in SUBSET {entry} : writeLog' = writeLog \cup logged
        /\ Finish(r, "ok")
        /\ UNCHANGED <<exists, row, owner, target, input, seen, draft, attempt>>

\* audit.Log, then the 200: the entry is written or, on an error, dropped.
\* created is the result of the last attempt: whether that attempt inserted.
AuditPatch(r) ==
    LET entry == Entry("accessibility_profiles", target[r], r,
                       IF seen[r] = NoRow THEN "create" ELSE "update")
    IN  /\ pc[r] = "audit"
        /\ \E logged \in SUBSET {entry} : writeLog' = writeLog \cup logged
        /\ Finish(r, "ok")
        /\ UNCHANGED <<exists, row, owner, target, input, seen, draft, attempt>>

-----------------------------------------------------------------------------
(* UpsertProfileIngestion                                                  *)

\* The batcher hands over a place it has upserted and the profile for it.
BeginIngest(i) ==
    /\ pc[i] = "idle"
    /\ Goto(i, "select")
    /\ \E p \in exists : target' = [target EXCEPT ![i] = p]
    /\ \E c \in Contents : input' = [input EXCEPT ![i] = c]
    /\ UNCHANGED <<exists, row, owner, seen, draft, attempt, outcome, writeLog>>

\* A plain SELECT: no lock, and a verified profile ends the write here.
SelectIngest(i) ==
    LET found == row[target[i]] IN
    /\ pc[i] = "select"
    /\ seen' = [seen EXCEPT ![i] = found]
    /\ IF found # NoRow /\ found.verified
       THEN Finish(i, "skipped")
       ELSE Goto(i, "write") /\ UNCHANGED outcome
    /\ UNCHANGED <<exists, row, owner, target, input, draft, attempt, writeLog>>

InsertIngested(i) ==
    LET p == target[i] IN
    /\ pc[i] = "write"
    /\ seen[i] = NoRow
    /\ row[p] = NoRow
    /\ owner[p] = Nobody
    /\ owner' = [owner EXCEPT ![p] = i]
    /\ draft' = [draft EXCEPT ![i] = Ingested(NoRow, input[i])]
    /\ Goto(i, "commit")
    /\ UNCHANGED <<exists, row, target, input, seen, attempt, outcome, writeLog>>

\* The insert meets a row committed since the SELECT: the error is returned.
InsertIngestedConflict(i) ==
    /\ pc[i] = "write"
    /\ seen[i] = NoRow
    /\ row[target[i]] # NoRow
    /\ Finish(i, "conflict")
    /\ UNCHANGED <<exists, row, owner, target, input, seen, draft, attempt,
                   writeLog>>

\* UPDATE ... WHERE id = ?: waits for the row's lock, then rewrites whatever
\* version it finds; user_verified is not in its column list.
UpdateIngested(i) ==
    LET p == target[i] IN
    /\ pc[i] = "write"
    /\ seen[i] # NoRow
    /\ owner[p] = Nobody
    /\ owner' = [owner EXCEPT ![p] = i]
    /\ draft' = [draft EXCEPT ![i] = Ingested(row[p], input[i])]
    /\ Goto(i, "commit")
    /\ UNCHANGED <<exists, row, target, input, seen, attempt, outcome, writeLog>>

CommitIngest(i) ==
    /\ pc[i] = "commit"
    /\ row' = [row EXCEPT ![target[i]] = draft[i]]
    /\ owner' = Released(i)
    /\ Finish(i, "written")
    /\ UNCHANGED <<exists, target, input, seen, draft, attempt, writeLog>>

-----------------------------------------------------------------------------
(* POST /places                                                            *)

\* One transaction inserts the place, under a fresh id, and the profile the
\* body carries, if it carries one, as verified by the request's key.
CreatePlace(q) ==
    /\ pc[q] = "idle"
    /\ \E p \in Places \ exists, d \in Contents \cup {NoInput} :
          /\ exists' = exists \cup {p}
          /\ target' = [target EXCEPT ![q] = p]
          /\ input' = [input EXCEPT ![q] = d]
          /\ row' = IF d = NoInput THEN row
                    ELSE [row EXCEPT ![p] = Patched(NoRow, d, q)]
    /\ Goto(q, "audit")
    /\ UNCHANGED <<owner, seen, draft, attempt, outcome, writeLog>>

\* One entry for the place and one for its profile; each insert may fail.
AuditCreate(q) ==
    LET entries == {Entry("places", target[q], q, "create")} \cup
                   IF input[q] = NoInput THEN {}
                   ELSE {Entry("accessibility_profiles", target[q], q, "create")}
    IN  /\ pc[q] = "audit"
        /\ \E logged \in SUBSET entries : writeLog' = writeLog \cup logged
        /\ Finish(q, "ok")
        /\ UNCHANGED <<exists, row, owner, target, input, seen, draft, attempt>>

-----------------------------------------------------------------------------
(* Failures                                                                *)

\* Faulty variant: the rollback of a failed transaction leaves its locks.
AbortKeepingLocks(x) ==
    /\ pc[x] \in InTransaction
    /\ Finish(x, "error")
    /\ UNCHANGED <<exists, row, owner, target, input, seen, draft, attempt,
                   writeLog>>

\* A statement fails, the patch does not merge, or the process dies inside the
\* transaction: Postgres rolls it back and the request ends without success.
Abort(x) ==
    /\ pc[x] \in InTransaction
    /\ owner' = Released(x)
    /\ Finish(x, "error")
    /\ UNCHANGED <<exists, row, target, input, seen, draft, attempt, writeLog>>

\* The process dies between the commit and the audit entry, or the commit is
\* applied and its acknowledgement lost: no entry and no success.
CrashBeforeAudit(x) ==
    /\ pc[x] = "audit"
    /\ Finish(x, "lost")
    /\ UNCHANGED <<exists, row, owner, target, input, seen, draft, attempt,
                   writeLog>>

-----------------------------------------------------------------------------
StepPatch(r) ==
    \/ CheckPlace(r)
    \/ SelectForUpdate(r)
    \/ InsertPatched(r)
    \/ InsertConflict(r)
    \/ UpdatePatched(r)
    \/ CommitPatch(r)
    \/ AuditPatch(r)

StepIngest(i) ==
    \/ SelectIngest(i)
    \/ InsertIngested(i)
    \/ InsertIngestedConflict(i)
    \/ UpdateIngested(i)
    \/ CommitIngest(i)

\* Every request that was made has been answered or has died.
Quiescent ==
    /\ \A x \in Patchers \cup Ingesters : pc[x] = "done"
    /\ \A q \in Posters : pc[q] # "audit"
    /\ UNCHANGED vars

Next ==
    \/ \E r \in Patchers : BeginPatch(r) \/ StepPatch(r)
    \/ \E i \in Ingesters : BeginIngest(i) \/ StepIngest(i)
    \/ \E q \in Posters : CreatePlace(q) \/ AuditCreate(q)
    \/ \E x \in Patchers \cup Ingesters : Abort(x)
    \/ \E x \in Keys : CrashBeforeAudit(x)
    \/ Quiescent

Spec == Init /\ [][Next]_vars

\* A request that was received keeps running; whether it is made, fails or
\* crashes is up to the environment.
Fairness ==
    /\ \A r \in Patchers : WF_vars(StepPatch(r))
    /\ \A i \in Ingesters : WF_vars(StepIngest(i))
    /\ \A q \in Posters : WF_vars(AuditCreate(q))

FairSpec == Spec /\ Fairness
-----------------------------------------------------------------------------
(* Properties                                                              *)

Labels == {"idle", "check", "select", "write", "commit", "audit", "done"}
Outcomes == {"none", "ok", "not found", "conflict", "error", "lost", "skipped",
             "written"}

\* Every variable has its type: in particular what MergePatch stores is a
\* component value, never the "not mentioned" of a patch.
TypeOK ==
    /\ exists \subseteq Places
    /\ row \in [Places -> Row(Keys) \cup {NoRow}]
    /\ owner \in [Places -> Clients \cup {Nobody}]
    /\ pc \in [Clients -> Labels]
    /\ target \in [Clients -> Places \cup {NoInput}]
    /\ input \in [Clients -> Patch \cup Content \cup {NoInput}]
    /\ seen \in [Clients -> Row(Keys) \cup {NoRow}]
    /\ draft \in [Clients -> Row(Keys) \cup {NoRow}]
    /\ attempt \in [Clients -> 0 .. MaxAttempts]
    /\ outcome \in [Clients -> Outcomes]
    /\ writeLog \subseteq
          [table : {"places", "accessibility_profiles"}, rec : Places,
           by : Keys, action : {"create", "update"}]

\* No lost update: what a PATCH is about to commit is its patch merged into the
\* row as it is committed now, whoever else wrote the place since it was read
\* (UpsertProfile's FOR UPDATE and unique index).
NoLostUpdate ==
    \A r \in Patchers :
        pc[r] = "commit" => draft[r] = Patched(row[target[r]], input[r], r)

\* A request names a place and carries what its kind of request carries.
RequestsWellFormed ==
    /\ \A r \in Patchers : pc[r] # "idle" => target[r] \in Places /\ input[r] \in Patches
    /\ \A i \in Ingesters : pc[i] # "idle" => target[i] \in Places /\ input[i] \in Contents
    /\ \A q \in Posters : pc[q] # "idle" => target[q] \in Places

\* Past its look-up a request works on a place that exists.
TargetsExist ==
    \A x \in Patchers \cup Ingesters :
        pc[x] \in {"select", "write", "commit"} => target[x] \in exists

\* A row is there only if its place is.
RowsHavePlaces == \A p \in Places : row[p] # NoRow => p \in exists

\* A row found by FOR UPDATE is locked by its reader, and is still the same.
ReadersHoldLock ==
    \A r \in Patchers :
        pc[r] = "write" /\ seen[r] # NoRow =>
            owner[target[r]] = r /\ row[target[r]] = seen[r]

\* Whoever is about to commit holds the place, and has computed its row from
\* the one that is committed now.
CommittersCurrent ==
    /\ \A r \in Patchers :
          pc[r] = "commit" =>
              /\ owner[target[r]] = r
              /\ draft[r] = Patched(row[target[r]], input[r], r)
    /\ \A i \in Ingesters :
          pc[i] = "commit" =>
              /\ owner[target[i]] = i
              /\ draft[i] = Ingested(row[target[i]], input[i])

\* A second attempt starts only after a row was committed, and finds it.
RetriesFindRow ==
    \A r \in Patchers :
        attempt[r] > 1 =>
            /\ row[target[r]] # NoRow
            /\ pc[r] = "write" => seen[r] # NoRow

\* What serializes the writers of a place, PATCH and ingestion alike: the
\* inductive strengthening of NoLostUpdate and NoConflictReturned.
WritersSerialized ==
    /\ RequestsWellFormed
    /\ TargetsExist
    /\ RowsHavePlaces
    /\ ReadersHoldLock
    /\ CommittersCurrent
    /\ RetriesFindRow

\* The stored audit flags are those of the stored components, whatever mix of
\* merges, replacements and clears produced them (WithAuditFlags on each write).
FlagsMatchComponents ==
    \A p \in Places : row[p] # NoRow => row[p].flags = FlagsOf(row[p].content)

\* The audit trail has at most one creation of a place's profile, although
\* several requests may each have found no row and tried to insert it.
OneCreateLogged ==
    LET Creations == {e \in writeLog : e.table = "accessibility_profiles" /\ e.action = "create"}
    IN  \A d, e \in Creations : d.rec = e.rec => d = e

\* A PATCH never fails because another writer inserted the profile first: the
\* second attempt finds the row (UpsertProfile's retry loop).
NoConflictReturned == \A r \in Patchers : outcome[r] # "conflict"

\* A profile is never removed and never stops being verified, whatever the
\* ingestion does: it leaves user_verified out of its UPDATE.
VerifiedForever ==
    [][\A p \in Places :
          row[p] # NoRow =>
              row'[p] # NoRow /\ (row[p].verified => row'[p].verified)]_vars

\* Every request that was received is answered: no lock or pending insert is
\* left behind for another request to wait on.
EveryRequestEnds ==
    \A x \in Clients : pc[x] # "idle" ~> pc[x] = "done"

\* The comment on UpsertProfileIngestion: rows with user_verified=true are
\* skipped, preserving human-submitted corrections.
IngestionSkipsVerified ==
    [][\A p \in Places, i \in Ingesters :
          row[p] # NoRow /\ row[p].verified /\ target[i] = p /\ pc[i] = "commit"
          /\ pc'[i] = "done"
              => row'[p] = row[p]]_vars

-----------------------------------------------------------------------------
(* Refinement                                                              *)

\* The requests whose transaction has committed.
Committed ==
    {x \in Clients : pc[x] = "audit" \/ outcome[x] \in {"ok", "lost", "written"}}

Acked == {x \in Clients : outcome[x] = "ok"}

Register == INSTANCE ProfileRegister WITH applied <- Committed, acked <- Acked

\* The store behaves as one atomic register per place: every request takes
\* effect once, at its commit, on the row it finds there.
ImplementsRegister == Register!Spec
=============================================================================
