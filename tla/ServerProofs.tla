---------------------------- MODULE ServerProofs ----------------------------
(***************************************************************************)
(* Theorems about the key endpoints and the server around them, for any    *)
(* emails, requests, processes and migrations: an email has one active     *)
(* key, answers about keys are true, the handlers implement the atomic     *)
(* registry; all of that survives the processes' lifecycle, and only       *)
(* complete schemas are served.                                            *)
(***************************************************************************)
EXTENDS Server, FiniteSetTheorems, TLAPS

-----------------------------------------------------------------------------
(* The key endpoints                                                       *)

Open == {"limit", "lookup", "insert", "inserted", "auth", "revoke", "revoking"}

\* Where the handlers of each kind can be.
Phases ==
    /\ \A r \in Registrations :
          pc[r] \in {"idle", "limit", "lookup", "insert", "inserted", "reply",
                     "done", "lost"}
    /\ \A u \in Uses :
          pc[u] \in {"idle", "limit", "auth", "revoke", "revoking", "reply",
                     "done", "lost"}

\* A request has said what it wants exactly when it is under way or over.
Asked ==
    /\ \A r \in Registrations : IF pc[r] = "idle" THEN owner[r] = None ELSE owner[r] \in Emails
    /\ \A u \in Uses :
          IF pc[u] = "idle" THEN presented[u] = None
          ELSE presented[u] \in Registrations /\ purpose[u] \in {"write", "revoke"}

\* A handler that is still working has decided nothing; one that has returned has.
DecidedWhenReturned ==
    \A r \in Requests :
        /\ pc[r] \in Open \cup {"idle"} => answer[r] = "none"
        /\ pc[r] \in {"reply", "done"} => answer[r] # "none"

\* An uncommitted revocation is of an active key, and no other is of that key.
RevokersHoldTheirRow ==
    /\ \A u \in Uses : pc[u] \in {"revoke", "revoking"} => purpose[u] = "revoke"
    /\ \A u \in Uses : Revoking(u) => presented[u] \in active
    /\ \A u, v \in Uses : Revoking(u) /\ Revoking(v) /\ presented[u] = presented[v] => u = v

\* An active row was inserted by a handler that has returned.
RowsWereCommitted ==
    \A k \in active : pc[k] \in {"reply", "done", "lost"} /\ answer[k] \in {"created", "failed"}

Inv ==
    /\ TypeOK
    /\ RowsWereCommitted
    /\ Phases
    /\ Asked
    /\ DecidedWhenReturned
    /\ RevokersHoldTheirRow
    /\ OneActiveKey

LEMMA InitInv == ASSUME Init PROVE Inv
BY KeysAssumption
   DEF Init, Inv, TypeOK, RowsWereCommitted, Phases, Asked, DecidedWhenReturned, RevokersHoldTheirRow,
       OneActiveKey, Open, Requests, Inserting, Revoking

\* Steps that only move one request on without touching the rows.
LEMMA BeginRegisterInv ==
  ASSUME Inv, NEW r \in Registrations, NEW email \in Emails, BeginRegister(r, email)
  PROVE  Inv'
BY KeysAssumption
   DEF BeginRegister, Go, Inv, TypeOK, RowsWereCommitted, Phases, Asked, DecidedWhenReturned,
       RevokersHoldTheirRow, OneActiveKey, Open, Requests, Inserting, Revoking

LEMMA LimitInv == ASSUME Inv, NEW r \in Requests, Limit(r) PROVE Inv'
BY KeysAssumption
   DEF Limit, Go, Answer, asked, Answers, Inv, TypeOK, RowsWereCommitted, Phases, Asked, DecidedWhenReturned,
       RevokersHoldTheirRow, OneActiveKey, Open, Requests, Inserting, Revoking

LEMMA LookupInv == ASSUME Inv, NEW r \in Registrations, Lookup(r) PROVE Inv'
BY KeysAssumption
   DEF Lookup, Go, Answer, asked, Answers, Inv, TypeOK, RowsWereCommitted, Phases, Asked, DecidedWhenReturned,
       RevokersHoldTheirRow, OneActiveKey, Open, Requests, Inserting, Revoking

LEMMA InsertKeyInv == ASSUME Inv, NEW r \in Registrations, InsertKey(r) PROVE Inv'
BY KeysAssumption
   DEF InsertKey, Go, Answer, asked, Answers, Inv, TypeOK, RowsWereCommitted, Phases, Asked,
       DecidedWhenReturned, RevokersHoldTheirRow, OneActiveKey, Open, Requests,
       Inserting, Revoking

LEMMA CommitKeyInv == ASSUME Inv, NEW r \in Registrations, CommitKey(r) PROVE Inv'
BY KeysAssumption
   DEF CommitKey, Answer, asked, Answers, Inv, TypeOK, RowsWereCommitted, Phases, Asked, DecidedWhenReturned,
       RevokersHoldTheirRow, OneActiveKey, Open, Requests, Inserting, Revoking

LEMMA BeginUseInv ==
  ASSUME Inv, NEW u \in Uses, NEW k \in Registrations, NEW p \in {"write", "revoke"},
         BeginUse(u, k, p)
  PROVE  Inv'
BY KeysAssumption
   DEF BeginUse, Go, Inv, TypeOK, RowsWereCommitted, Phases, Asked, DecidedWhenReturned,
       RevokersHoldTheirRow, OneActiveKey, Open, Requests, Inserting, Revoking

LEMMA AuthenticateInv == ASSUME Inv, NEW u \in Uses, Authenticate(u) PROVE Inv'
BY KeysAssumption
   DEF Authenticate, Proceed, Go, Answer, asked, Answers, Inv, TypeOK, RowsWereCommitted, Phases, Asked,
       DecidedWhenReturned, RevokersHoldTheirRow, OneActiveKey, Open, Requests,
       Inserting, Revoking

LEMMA LookupFailsInv == ASSUME Inv, NEW u \in Uses, LookupFails(u) PROVE Inv'
BY KeysAssumption
   DEF LookupFails, Answer, asked, Answers, Inv, TypeOK, RowsWereCommitted, Phases, Asked,
       DecidedWhenReturned, RevokersHoldTheirRow, OneActiveKey, Open, Requests,
       Inserting, Revoking

LEMMA RevokeRowInv == ASSUME Inv, NEW u \in Uses, RevokeRow(u) PROVE Inv'
BY KeysAssumption
   DEF RevokeRow, Go, Answer, asked, Answers, Inv, TypeOK, RowsWereCommitted, Phases, Asked,
       DecidedWhenReturned, RevokersHoldTheirRow, OneActiveKey, Open, Requests,
       Inserting, Revoking

LEMMA CommitRevokeInv == ASSUME Inv, NEW u \in Uses, CommitRevoke(u) PROVE Inv'
BY KeysAssumption
   DEF CommitRevoke, Answer, asked, Answers, Inv, TypeOK, RowsWereCommitted, Phases, Asked,
       DecidedWhenReturned, RevokersHoldTheirRow, OneActiveKey, Open, Requests,
       Inserting, Revoking

LEMMA CommitUnseenInv == ASSUME Inv, NEW r \in Requests, CommitUnseen(r) PROVE Inv'
<1>1. CASE r \in Registrations
  BY <1>1, KeysAssumption
     DEF CommitUnseen, Answer, asked, Answers, Inv, TypeOK, RowsWereCommitted, Phases, Asked,
         DecidedWhenReturned, RevokersHoldTheirRow, OneActiveKey, Open, Requests,
         Inserting, Revoking
<1>2. CASE r \in Uses
  BY <1>2, KeysAssumption
     DEF CommitUnseen, Answer, asked, Answers, Inv, TypeOK, RowsWereCommitted, Phases, Asked,
         DecidedWhenReturned, RevokersHoldTheirRow, OneActiveKey, Open, Requests,
         Inserting, Revoking
<1> QED BY <1>1, <1>2 DEF Requests

LEMMA EndingsInv ==
  ASSUME Inv, NEW r \in Requests, Reply(r) \/ Fail(r)
  PROVE  Inv'
<1>1. CASE Reply(r)
  BY <1>1, KeysAssumption
     DEF Reply, Go, asked, Inv, TypeOK, RowsWereCommitted, Phases, Asked, DecidedWhenReturned,
         RevokersHoldTheirRow, OneActiveKey, Open, Requests, Inserting, Revoking
<1>2. CASE Fail(r)
  BY <1>2, KeysAssumption
     DEF Fail, Answer, asked, Answers, Inv, TypeOK, RowsWereCommitted, Phases, Asked, DecidedWhenReturned,
         RevokersHoldTheirRow, OneActiveKey, Open, Requests, Inserting, Revoking
<1> QED BY <1>1, <1>2

LEMMA CrashInv == ASSUME Inv, NEW S, Crash(S) PROVE Inv'
BY KeysAssumption
   DEF Crash, Pending, asked, Inv, TypeOK, RowsWereCommitted, Phases, Asked, DecidedWhenReturned,
       RevokersHoldTheirRow, OneActiveKey, Open, Requests, Inserting, Revoking

LEMMA StepInv == ASSUME Inv, [Next]_vars PROVE Inv'
<1>1. CASE UNCHANGED vars
  BY <1>1 DEF vars, Inv, TypeOK, RowsWereCommitted, Phases, Asked, DecidedWhenReturned,
              RevokersHoldTheirRow, OneActiveKey, Inserting, Revoking
<1>2. CASE \E r \in Registrations, email \in Emails : BeginRegister(r, email)
  BY <1>2, BeginRegisterInv
<1>3. CASE \E u \in Uses, k \in Registrations, p \in {"write", "revoke"} : BeginUse(u, k, p)
  BY <1>3, BeginUseInv
<1>4. CASE \E r \in Registrations : RegisterStep(r)
  BY <1>4, LookupInv, InsertKeyInv, CommitKeyInv DEF RegisterStep
<1>5. CASE \E u \in Uses : UseStep(u)
  BY <1>5, AuthenticateInv, LookupFailsInv, RevokeRowInv, CommitRevokeInv DEF UseStep
<1>6. CASE \E r \in Requests : Limit(r) \/ Reply(r) \/ Fail(r) \/ CommitUnseen(r)
  BY <1>6, LimitInv, EndingsInv, CommitUnseenInv
<1>7. CASE \E S \in SUBSET Pending : Crash(S)
  BY <1>7, CrashInv
<1>8. CASE Quiescent
  BY <1>8, <1>1 DEF Quiescent
<1> QED BY <1>1, <1>2, <1>3, <1>4, <1>5, <1>6, <1>7, <1>8 DEF Next

LEMMA KeysInvariant == Spec => []Inv
<1>1. Init => Inv
  BY InitInv
<1>2. Inv /\ [Next]_vars => Inv'
  BY StepInv
<1> QED BY <1>1, <1>2, PTL DEF Spec

\* However many registrations of an email run at once, it has at most one active
\* key: Lookup is only a courtesy, the index behind InsertKey decides.
THEOREM OneKeyPerEmail == Spec => []OneActiveKey
BY KeysInvariant, PTL DEF Inv

\* The variables of ApiKeys keep their types.
THEOREM KeyTypes == Spec => []TypeOK
BY KeysInvariant, PTL DEF Inv

-----------------------------------------------------------------------------
(* What becomes of a key                                                   *)

\* A key that is presented was handed out.
PresentedWereIssued ==
    \A u \in Uses : pc[u] # "idle" => presented[u] \in Issued

\* A key that was revoked before a use arrived, or by it, is not active any more.
GoneForGood ==
    \A u \in Uses : late[u] \/ answer[u] = "revoked" =>
        pc[u] # "idle" /\ presented[u] \notin active

KeyHistory ==
    /\ PresentedWereIssued
    /\ GoneForGood
    /\ RevokedOnce
    /\ LateRequestsRefused
    /\ KeysAsAnswered

LEMMA InitHistory == ASSUME Init PROVE KeyHistory
BY KeysAssumption
   DEF Init, KeyHistory, PresentedWereIssued, GoneForGood, RevokedOnce, LateRequestsRefused,
       KeysAsAnswered, Requests

\* Only three steps change the active keys; an issued key is not inserted again.
LEMMA RegisterHistory ==
  ASSUME Inv, KeyHistory, NEW r \in Registrations, RegisterStep(r)
  PROVE  KeyHistory'
<1> USE KeysAssumption
    DEF KeyHistory, PresentedWereIssued, GoneForGood, RevokedOnce, LateRequestsRefused,
        KeysAsAnswered, Issued, Requests, Inv, TypeOK, DecidedWhenReturned, Open, Go, Answer, asked
<1>1. CASE Lookup(r)
  BY <1>1 DEF Lookup
<1>2. CASE InsertKey(r)
  BY <1>2 DEF InsertKey
<1>3. CASE CommitKey(r)
  BY <1>3 DEF CommitKey
<1> QED BY <1>1, <1>2, <1>3 DEF RegisterStep

LEMMA UseHistory ==
  ASSUME Inv, KeyHistory, NEW u \in Uses, UseStep(u)
  PROVE  KeyHistory'
<1> USE KeysAssumption
    DEF KeyHistory, PresentedWereIssued, GoneForGood, RevokedOnce, LateRequestsRefused,
        KeysAsAnswered, Issued, Requests, Inv, TypeOK, DecidedWhenReturned, Open, Go, Answer, asked
<1>1. CASE Authenticate(u)
  BY <1>1 DEF Authenticate, Proceed
<1>2. CASE LookupFails(u)
  BY <1>2 DEF LookupFails
<1>3. CASE RevokeRow(u)
  BY <1>3 DEF RevokeRow
<1>4. CASE CommitRevoke(u)
  BY <1>4 DEF CommitRevoke, Revoking, RevokersHoldTheirRow
<1> QED BY <1>1, <1>2, <1>3, <1>4 DEF UseStep

LEMMA ArrivalHistory ==
  ASSUME Inv, KeyHistory,
         \/ \E r \in Registrations, email \in Emails : BeginRegister(r, email)
         \/ \E u \in Uses, k \in Registrations, p \in {"write", "revoke"} : BeginUse(u, k, p)
  PROVE  KeyHistory'
BY KeysAssumption
   DEF BeginRegister, BeginUse, KeyHistory, PresentedWereIssued, GoneForGood, RevokedOnce,
       LateRequestsRefused, KeysAsAnswered, Issued, Requests, Inv, TypeOK,
       DecidedWhenReturned, Asked, Open, Go

LEMMA EndHistory ==
  ASSUME Inv, KeyHistory, NEW r \in Requests,
         Limit(r) \/ Reply(r) \/ Fail(r) \/ CommitUnseen(r)
  PROVE  KeyHistory'
<1> USE KeysAssumption
    DEF KeyHistory, PresentedWereIssued, GoneForGood, RevokedOnce, LateRequestsRefused,
        KeysAsAnswered, Issued, Requests, Inv, TypeOK, DecidedWhenReturned, Open, Go, Answer, asked
<1>1. CASE Limit(r)
  BY <1>1 DEF Limit
<1>2. CASE Reply(r)
  BY <1>2 DEF Reply
<1>3. CASE Fail(r)
  BY <1>3 DEF Fail
<1>4. CASE CommitUnseen(r) /\ r \in Registrations
  BY <1>4 DEF CommitUnseen
<1>5. CASE CommitUnseen(r) /\ r \in Uses
  BY <1>5 DEF CommitUnseen, Revoking, RevokersHoldTheirRow
<1> QED BY <1>1, <1>2, <1>3, <1>4, <1>5

LEMMA CrashHistory == ASSUME Inv, KeyHistory, NEW S, Crash(S) PROVE KeyHistory'
BY KeysAssumption
   DEF Crash, Pending, KeyHistory, PresentedWereIssued, GoneForGood, RevokedOnce,
       LateRequestsRefused, KeysAsAnswered, Issued, Requests, Inv, TypeOK, asked

LEMMA HistoryInvariant == Spec => []KeyHistory
<1>1. Init => KeyHistory
  BY InitHistory
<1>2. Inv /\ KeyHistory /\ [Next]_vars => KeyHistory'
  <2> SUFFICES ASSUME Inv, KeyHistory, [Next]_vars PROVE KeyHistory'
    OBVIOUS
  <2>1. CASE UNCHANGED vars \/ Quiescent
    BY <2>1 DEF vars, Quiescent, KeyHistory, PresentedWereIssued, GoneForGood, RevokedOnce,
                LateRequestsRefused, KeysAsAnswered, Issued
  <2> QED BY <2>1, RegisterHistory, UseHistory, ArrivalHistory, EndHistory, CrashHistory
          DEF Next
<1> QED BY <1>1, <1>2, KeysInvariant, PTL DEF Spec

\* However many requests revoke a key, at most one is told it did.
THEOREM OneRevocation == Spec => []RevokedOnce
BY HistoryInvariant, PTL DEF KeyHistory

\* A request that arrives after its key was revoked is refused.
THEOREM LateRefused == Spec => []LateRequestsRefused
BY HistoryInvariant, PTL DEF KeyHistory

\* An answer about a key says what is in the table, but for a 500.
THEOREM AnswersAreTrue == Spec => []KeysAsAnswered
BY HistoryInvariant, PTL DEF KeyHistory

-----------------------------------------------------------------------------
(* The refinement                                                          *)

LEMMA InitMaps == ASSUME Init PROVE Registry!Init
BY KeysAssumption DEF Init, Registry!Init, Requests, Registry!Requests

LEMMA RegisterMaps ==
  ASSUME Inv, NEW r \in Registrations, RegisterStep(r)
  PROVE  [Registry!Next]_(Registry!vars)
<1> USE DEF Requests, Registry!Requests, Registry!vars, asked
<1>0. pc[r] # "done" /\ pc'[r] # "done" /\ pc' = [pc EXCEPT ![r] = pc'[r]]
  BY DEF RegisterStep, Lookup, InsertKey, CommitKey, Go, Answer, Inv, TypeOK
<1>1. [q \in Requests |-> pc[q] = "done"]' = [q \in Requests |-> pc[q] = "done"]
  BY <1>0 DEF Inv, TypeOK
<1>2. owner[r] # None /\ answer[r] = "none"
  BY KeysAssumption DEF RegisterStep, Lookup, InsertKey, CommitKey, Inv, Asked,
     DecidedWhenReturned, Open
<1>3. CASE pc[r] \in {"lookup", "insert"} /\ \E k \in active : owner[k] = owner[r]
  <2>1. /\ answer' = [answer EXCEPT ![r] = "conflict"]
        /\ UNCHANGED <<active, owner, presented, purpose>>
    BY <1>3 DEF RegisterStep, Lookup, InsertKey, CommitKey, Answer
  <2>2. Registry!Conflict(r)
    BY <1>1, <1>2, <1>3, <2>1 DEF Registry!Conflict, Registry!Taken, Registry!Decide
  <2> QED BY <2>2 DEF Registry!Next
<1>4. CASE pc[r] \in {"lookup", "insert"} /\ ~\E k \in active : owner[k] = owner[r]
  BY <1>1, <1>4 DEF RegisterStep, Lookup, InsertKey, CommitKey, Go
<1>5. CASE CommitKey(r)
  <2>1. ~Registry!Taken(owner[r])
    BY <1>5 DEF CommitKey, Inv, RowsWereCommitted, OneActiveKey, Inserting,
       TypeOK, Registry!Taken
  <2>2. Registry!Create(r)
    BY <1>1, <1>2, <1>5, <2>1 DEF CommitKey, Answer, Registry!Create, Registry!Decide
  <2> QED BY <2>2 DEF Registry!Next
<1> QED BY <1>3, <1>4, <1>5 DEF RegisterStep, Lookup, InsertKey

LEMMA UseMaps ==
  ASSUME Inv, NEW u \in Uses, UseStep(u)
  PROVE  [Registry!Next]_(Registry!vars)
<1> USE DEF Requests, Registry!Requests, Registry!vars, asked, LookupFails, Proceed
<1>0. pc[u] # "done" /\ pc'[u] # "done" /\ pc' = [pc EXCEPT ![u] = pc'[u]]
  BY DEF UseStep, Authenticate, RevokeRow, CommitRevoke, Revoking, Go, Answer, Inv, TypeOK
<1>1. [q \in Requests |-> pc[q] = "done"]' = [q \in Requests |-> pc[q] = "done"]
  BY <1>0 DEF Inv, TypeOK
<1>2. presented[u] # None /\ answer[u] = "none"
  BY KeysAssumption DEF UseStep, Authenticate, RevokeRow, CommitRevoke, Revoking, Inv,
     Asked, DecidedWhenReturned, Open
<1>3. CASE answer' = [answer EXCEPT ![u] = "unauthorized"] /\ UNCHANGED <<active, asked>>
  <2>1. Registry!Deny(u)
    BY <1>1, <1>2, <1>3 DEF Registry!Deny, Registry!Decide
  <2> QED BY <2>1 DEF Registry!Next
<1>4. CASE /\ answer' = [answer EXCEPT ![u] = "accepted"] /\ UNCHANGED <<active, asked>>
           /\ presented[u] \in active /\ purpose[u] = "write"
  <2>1. Registry!Accept(u)
    BY <1>1, <1>2, <1>4 DEF Registry!Accept, Registry!Decide
  <2> QED BY <2>1 DEF Registry!Next
<1>5. CASE answer' = [answer EXCEPT ![u] = "invalid"] /\ UNCHANGED <<active, asked>>
  <2>1. Registry!Decline(u)
    BY <1>1, <1>2, <1>5, KeysAssumption DEF Registry!Decline, Registry!Decide
  <2> QED BY <2>1 DEF Registry!Next
<1>6. CASE UNCHANGED <<active, answer, asked>>
  BY <1>1, <1>6
<1>7. CASE CommitRevoke(u)
  <2>1. Registry!Revoke(u)
    BY <1>1, <1>2, <1>7 DEF CommitRevoke, Answer, Inv, RevokersHoldTheirRow, Revoking,
       Registry!Revoke, Registry!Decide
  <2> QED BY <2>1 DEF Registry!Next
<1>8. CASE Authenticate(u)
  <2>1. purpose[u] \in {"write", "revoke"}
    BY <1>8 DEF Authenticate, Inv, Asked
  <2> QED BY <1>3, <1>4, <1>5, <1>6, <1>8, <2>1 DEF Authenticate, Answer, Go
<1>9. CASE LookupFails(u) \/ RevokeRow(u)
  BY <1>3, <1>6, <1>9 DEF RevokeRow, Answer, Go
<1> QED BY <1>7, <1>8, <1>9 DEF UseStep

LEMMA ArrivalMaps ==
  ASSUME Inv,
         \/ \E r \in Registrations, email \in Emails : BeginRegister(r, email)
         \/ \E u \in Uses, k \in Registrations, p \in {"write", "revoke"} : BeginUse(u, k, p)
  PROVE  Registry!Next
<1> USE DEF Requests, Registry!Requests
<1>1. ASSUME NEW r \in Registrations, NEW email \in Emails, BeginRegister(r, email)
      PROVE  Registry!Next
  <2>1. [q \in Requests |-> pc[q] = "done"]' = [q \in Requests |-> pc[q] = "done"]
    BY <1>1 DEF BeginRegister, Go, Inv, TypeOK
  <2>2. owner[r] = None
    BY <1>1 DEF BeginRegister, Inv, Asked
  <2>3. Registry!AskKey(r, email)
    BY <1>1, <2>1, <2>2 DEF BeginRegister, Registry!AskKey
  <2> QED BY <2>3 DEF Registry!Next
<1>2. ASSUME NEW u \in Uses, NEW k \in Registrations, NEW p \in {"write", "revoke"},
             BeginUse(u, k, p)
      PROVE  Registry!Next
  <2>1. [q \in Requests |-> pc[q] = "done"]' = [q \in Requests |-> pc[q] = "done"]
    BY <1>2 DEF BeginUse, Go, Inv, TypeOK
  <2>2. presented[u] = None
    BY <1>2 DEF BeginUse, Inv, Asked
  <2>3. k \in Registry!Issued
    BY <1>2 DEF BeginUse, Issued, Registry!Issued
  <2>4. Registry!AskUse(u, k, p)
    BY <1>2, <2>1, <2>2, <2>3 DEF BeginUse, Registry!AskUse
  <2> QED BY <2>4 DEF Registry!Next
<1> QED BY <1>1, <1>2

LEMMA DeclineMaps ==
  ASSUME Inv, NEW r \in Requests, Limit(r) \/ Fail(r)
  PROVE  [Registry!Next]_(Registry!vars)
<1> USE DEF Requests, Registry!Requests, Registry!vars, asked
<1>1. [q \in Requests |-> pc[q] = "done"]' = [q \in Requests |-> pc[q] = "done"]
  BY DEF Limit, Fail, Go, Answer, Inv, TypeOK
<1>2. CASE answer' # answer
  <2>1. /\ answer[r] = "none"
        /\ r \in Registrations => owner[r] # None
        /\ r \in Uses => presented[r] # None
    BY KeysAssumption DEF Limit, Fail, Inv, Asked, DecidedWhenReturned, Open
  <2>2. \E a \in {"limited", "invalid", "failed"} : answer' = [answer EXCEPT ![r] = a]
    BY <1>2 DEF Limit, Fail, Answer
  <2>3. Registry!Decline(r)
    BY <1>1, <2>1, <2>2 DEF Limit, Fail, Registry!Decline, Registry!Decide
  <2> QED BY <2>3 DEF Registry!Next
<1>3. CASE answer' = answer
  BY <1>1, <1>3 DEF Limit, Fail
<1> QED BY <1>2, <1>3

LEMMA CommitUnseenMaps ==
  ASSUME Inv, NEW r \in Requests, CommitUnseen(r)
  PROVE  Registry!Next
<1> USE DEF Requests, Registry!Requests, asked
<1>1. [q \in Requests |-> pc[q] = "done"]' = [q \in Requests |-> pc[q] = "done"]
  BY DEF CommitUnseen, Answer, Inv, TypeOK
<1>2. answer[r] = "none"
  BY DEF CommitUnseen, Inv, DecidedWhenReturned, Open
<1>3. CASE r \in Registrations
  <2>1. pc[r] = "inserted"
    BY <1>3 DEF CommitUnseen, Inv, Phases
  <2>2. owner[r] # None
    BY <1>3, <2>1, KeysAssumption DEF Inv, Asked
  <2>3. ~Registry!Taken(owner[r])
    BY <1>3, <2>1 DEF Inv, RowsWereCommitted, OneActiveKey, Inserting, TypeOK, Registry!Taken
  <2>4. Registry!Create(r)
    BY <1>1, <1>2, <1>3, <2>2, <2>3 DEF CommitUnseen, Answer, Registry!Create, Registry!Decide
  <2> QED BY <1>3, <2>4 DEF Registry!Next
<1>4. CASE r \in Uses
  <2>1. Revoking(r) /\ r \notin Registrations
    BY <1>4, KeysAssumption DEF CommitUnseen, Inv, Phases, Revoking
  <2>2. purpose[r] = "revoke" /\ presented[r] \in active
    BY <1>4, <2>1 DEF Inv, RevokersHoldTheirRow, Revoking
  <2>3. Registry!Revoke(r)
    BY <1>1, <1>2, <1>4, <2>1, <2>2
       DEF CommitUnseen, Answer, Registry!Revoke, Registry!Decide
  <2> QED BY <1>4, <2>3 DEF Registry!Next
<1> QED BY <1>3, <1>4

LEMMA ReplyMaps == ASSUME Inv, NEW r \in Requests, Reply(r) PROVE Registry!Next
<1> USE DEF Requests, Registry!Requests, asked
<1>1. [q \in Requests |-> pc[q] = "done"]'
        = [[q \in Requests |-> pc[q] = "done"] EXCEPT ![r] = TRUE]
  BY DEF Reply, Go, Inv, TypeOK
<1>2. answer[r] # "none" /\ pc[r] # "done"
  BY DEF Reply, Inv, DecidedWhenReturned
<1>3. Registry!Reply(r)
  BY <1>1, <1>2 DEF Reply, Registry!Reply
<1> QED BY <1>3 DEF Registry!Next

LEMMA CrashMaps == ASSUME Inv, NEW S, Crash(S) PROVE UNCHANGED Registry!vars
<1>1. [q \in Requests |-> pc[q] = "done"]' = [q \in Requests |-> pc[q] = "done"]
  BY DEF Crash, Pending, Inv, TypeOK
<1> QED BY <1>1 DEF Crash, asked, Registry!vars

\* Every request to the key endpoints takes effect at one instant between its
\* arrival and its answer, as the atomic registry says: a 409 means the email had
\* an active key then, an accepted write that its key was active, a 204 that this
\* request and no other ended the key, whatever else was in flight.
THEOREM KeysRefinement == Spec => ImplementsRegistry
<1>1. Init => Registry!Init
  BY InitMaps
<1>2. Inv /\ [Next]_vars => [Registry!Next]_(Registry!vars)
  <2> SUFFICES ASSUME Inv, [Next]_vars PROVE [Registry!Next]_(Registry!vars)
    OBVIOUS
  <2>1. CASE UNCHANGED vars \/ Quiescent
    BY <2>1 DEF vars, Quiescent, Registry!vars
  <2>2. CASE \/ \E r \in Registrations, email \in Emails : BeginRegister(r, email)
             \/ \E u \in Uses, k \in Registrations, p \in {"write", "revoke"} :
                   BeginUse(u, k, p)
    BY <2>2, ArrivalMaps
  <2>3. CASE \E r \in Registrations : RegisterStep(r)
    BY <2>3, RegisterMaps
  <2>4. CASE \E u \in Uses : UseStep(u)
    BY <2>4, UseMaps
  <2>5. CASE \E r \in Requests : Limit(r) \/ Reply(r) \/ Fail(r) \/ CommitUnseen(r)
    BY <2>5, DeclineMaps, CommitUnseenMaps, ReplyMaps
  <2>6. CASE \E S \in SUBSET Pending : Crash(S)
    BY <2>6, CrashMaps
  <2> QED BY <2>1, <2>2, <2>3, <2>4, <2>5, <2>6 DEF Next
<1> QED BY <1>1, <1>2, KeysInvariant, PTL DEF Spec, ImplementsRegistry, Registry!Spec

-----------------------------------------------------------------------------
(* Composition                                                             *)

\* Whatever the processes do, the key endpoints take steps of ApiKeys.
LEMMA StepsAreKeySteps == ASSUME [ServerNext]_allVars PROVE [Next]_vars
<1>1. CASE UNCHANGED allVars \/ Rest
  BY <1>1 DEF allVars, Rest
<1>2. ASSUME NEW s \in Servers, Start(s) \/ Connect(s) \/ Migrate(s) \/ Signal(s) \/ Drained(s)
      PROVE  UNCHANGED vars
  BY <1>2 DEF Start, Connect, Migrate, WithInstance, Lock, Check, Mark, Apply, Clear, Signal,
              Drained
<1>3. ASSUME NEW s \in Servers, Exit(s) PROVE Next
  <2>1. Served(s) \in SUBSET Pending
    BY DEF Served
  <2>2. Crash(Served(s))
    BY <1>3 DEF Exit
  <2> QED BY <2>1, <2>2 DEF Next
<1>4. ASSUME NEW s \in Servers, NEW r \in Requests, Accept(s, r) PROVE Next
  BY <1>4 DEF Accept, Next
<1>5. ASSUME NEW r \in Requests, Serve(r) \/ Breaks(r) PROVE [Next]_vars
  BY <1>5 DEF Serve, Breaks, Acquire, Statement, Works, Next
<1>6. ASSUME NEW r \in Requests, Unheard(r) PROVE Next
  <2>1. {r} \in SUBSET Pending /\ Crash({r})
    BY <1>6 DEF Unheard, Pending
  <2> QED BY <2>1 DEF Next
<1> QED BY <1>1, <1>2, <1>3, <1>4, <1>5, <1>6 DEF ServerNext

LEMMA Composition == ServerSpec => Spec
<1>1. ServerInit => Init
  BY DEF ServerInit
<1> QED BY <1>1, StepsAreKeySteps, PTL DEF ServerSpec, Spec

\* Restarts, drains and processes that die with transactions open leave an email
\* with at most one active key.
THEOREM ServerOneKey == ServerSpec => []OneActiveKey
BY Composition, OneKeyPerEmail, PTL

\* The same of what clients were told about keys.
THEOREM ServerAnswersAreTrue == ServerSpec => []KeysAsAnswered
BY Composition, AnswersAreTrue, PTL

\* The processes together are the atomic registry of KeyRegistry.
THEOREM ServerRefinement == ServerSpec => ImplementsRegistry
BY Composition, KeysRefinement, PTL

-----------------------------------------------------------------------------
(* Migrations                                                              *)

Migrating == {"check", "mark", "apply", "clear"}

\* The lock is held by the process that migrates, and by no other.
LockHeld == \A s \in Servers : migrator = s <=> phase[s] \in Migrating

\* What the schema is where the version says so, and between two versions.
SchemaAtVersion == ~dirty => schema = 1..version

\* The migration a process is at, and the version that announces it.
AtMigration ==
    \A s \in Servers :
        /\ phase[s] = "mark" => ~dirty /\ next[s] = version + 1 /\ version < Latest
        /\ phase[s] = "apply" =>
              dirty /\ 0 < version /\ version = next[s] /\ schema = 1..(version - 1)
        /\ phase[s] = "clear" => dirty /\ version = next[s] /\ schema = 1..version
        /\ phase[s] = "serve" \/ phase[s] = "drain" => ~dirty /\ version = Latest

\* Only a process inside a migration, or the end of one, leaves the mark.
WhoMarked == dirty => broken \/ \E s \in Servers : phase[s] \in {"apply", "clear"}

ServerInv ==
    /\ ServerTypeOK
    /\ LockHeld
    /\ SchemaAtVersion
    /\ AtMigration
    /\ WhoMarked

LEMMA InitServerInv == ASSUME ServerInit, TypeOK PROVE ServerInv
<1> USE ServerAssumption DEF ServerInit
<1>1. schema = 1..version /\ schema \subseteq 1..Latest /\ version \in 0..Latest
  OBVIOUS
<1>2. starts \in [Servers -> Nat]
  BY load.starts \in [Servers -> Nat]
<1>3. ServerTypeOK
  BY <1>1, <1>2 DEF ServerTypeOK, Stages
<1>4. LockHeld /\ AtMigration /\ WhoMarked
  BY DEF LockHeld, AtMigration, WhoMarked, Migrating
<1> QED BY <1>1, <1>3, <1>4 DEF ServerInv, SchemaAtVersion

\* Steps of a process that leave the database alone.
LEMMA ProcessInv ==
  ASSUME ServerInv, TypeOK', NEW s \in Servers,
         Start(s) \/ Connect(s) \/ WithInstance(s) \/ Signal(s) \/ Drained(s)
  PROVE  ServerInv'
<1>1. /\ UNCHANGED <<load, next, broken, at, conn, migrator, version, dirty, schema>>
      /\ \E p \in Stages \ Migrating : phase' = [phase EXCEPT ![s] = p]
      /\ phase[s] \notin Migrating
      /\ phase'[s] \in {"serve", "drain"} => phase[s] = "serve"
      /\ starts' \in [Servers -> Nat] /\ driver' \subseteq Servers
  BY DEF Start, Connect, WithInstance, Signal, Drained, Enter, database, Stages, Migrating,
         ServerInv, ServerTypeOK
<1>2. PICK p \in Stages \ Migrating : phase' = [phase EXCEPT ![s] = p]
  BY <1>1
<1>3. ServerTypeOK'
  BY <1>1, <1>2 DEF ServerInv, ServerTypeOK
<1>4. \A t \in Servers : phase[t] \in Migrating \/ phase'[t] \in Migrating => phase'[t] = phase[t]
  BY <1>1, <1>2 DEF ServerInv, ServerTypeOK
<1>5. LockHeld' /\ SchemaAtVersion' /\ WhoMarked'
  BY <1>1, <1>4 DEF ServerInv, LockHeld, SchemaAtVersion, WhoMarked, Migrating
<1>6. AtMigration'
  BY <1>1, <1>2, <1>4 DEF ServerInv, ServerTypeOK, AtMigration, Migrating
<1> QED BY <1>3, <1>5, <1>6 DEF ServerInv

LEMMA LockInv == ASSUME ServerInv, TypeOK', NEW s \in Servers, Lock(s) PROVE ServerInv'
BY ServerAssumption
   DEF Lock, Enter, ServerInv, ServerTypeOK, LockHeld, SchemaAtVersion, AtMigration, WhoMarked,
       Migrating, Stages

LEMMA CheckInv == ASSUME ServerInv, TypeOK', NEW s \in Servers, Check(s) PROVE ServerInv'
<1> USE ServerAssumption DEF Check, Enter, Unlocked
<1>1. /\ phase \in [Servers -> Stages] /\ version \in 0..Latest /\ next \in [Servers -> Nat]
      /\ migrator = s
  BY DEF ServerInv, ServerTypeOK, LockHeld, Migrating
<1>2. ServerTypeOK'
  BY <1>1 DEF ServerInv, ServerTypeOK, Stages
<1>3. LockHeld' /\ SchemaAtVersion' /\ WhoMarked'
  BY <1>1 DEF ServerInv, LockHeld, SchemaAtVersion, WhoMarked, Migrating
<1>4. AtMigration'
  BY <1>1 DEF ServerInv, AtMigration
<1> QED BY <1>2, <1>3, <1>4 DEF ServerInv

\* Nobody else is inside a migration while one process is.
LEMMA Alone ==
  ASSUME ServerInv, NEW s \in Servers, phase[s] \in Migrating,
         NEW t \in Servers, phase[t] \in Migrating
  PROVE  t = s
BY DEF ServerInv, LockHeld

LEMMA MarkInv == ASSUME ServerInv, TypeOK', NEW s \in Servers, Mark(s) PROVE ServerInv'
<1> USE ServerAssumption DEF Mark, Enter
<1>1. /\ phase \in [Servers -> Stages] /\ version \in 0..Latest /\ next[s] = version + 1
      /\ version < Latest /\ schema = 1..version
  BY DEF ServerInv, ServerTypeOK, AtMigration, SchemaAtVersion
<1>2. ServerTypeOK'
  BY <1>1 DEF ServerInv, ServerTypeOK, Stages
<1>3. LockHeld' /\ WhoMarked' /\ SchemaAtVersion'
  BY <1>1 DEF ServerInv, LockHeld, WhoMarked, SchemaAtVersion, Migrating
<1>4. AtMigration'
  <2> SUFFICES ASSUME NEW t \in Servers, t # s
               PROVE  phase[t] \notin {"mark", "apply", "clear", "serve", "drain"}
    BY <1>1 DEF ServerInv, AtMigration
  <2> QED BY <1>1, Alone DEF ServerInv, AtMigration, Migrating
<1> QED BY <1>2, <1>3, <1>4 DEF ServerInv

LEMMA ApplyInv == ASSUME ServerInv, TypeOK', NEW s \in Servers, Apply(s) PROVE ServerInv'
<1> USE ServerAssumption DEF Apply, Enter
<1>1. /\ phase \in [Servers -> Stages] /\ version \in 1..Latest /\ next[s] = version /\ dirty
      /\ schema = 1..(version - 1)
  BY DEF ServerInv, ServerTypeOK, AtMigration
<1>2. schema' = 1..version
  BY <1>1
<1>3. ServerTypeOK'
  BY <1>1, <1>2 DEF ServerInv, ServerTypeOK, Stages
<1>4. LockHeld' /\ WhoMarked' /\ SchemaAtVersion'
  BY <1>1 DEF ServerInv, LockHeld, WhoMarked, SchemaAtVersion, Migrating
<1>5. AtMigration'
  <2> SUFFICES ASSUME NEW t \in Servers, t # s
               PROVE  phase[t] \notin {"mark", "apply", "clear", "serve", "drain"}
    BY <1>1, <1>2 DEF ServerInv, AtMigration
  <2> QED BY <1>1, Alone DEF ServerInv, AtMigration, Migrating
<1> QED BY <1>3, <1>4, <1>5 DEF ServerInv

LEMMA ClearInv == ASSUME ServerInv, TypeOK', NEW s \in Servers, Clear(s) PROVE ServerInv'
<1> USE ServerAssumption DEF Clear, Enter, Unlocked
<1>1. /\ phase \in [Servers -> Stages] /\ version \in 0..Latest /\ next[s] = version /\ dirty
      /\ next \in [Servers -> Nat] /\ schema = 1..version /\ migrator = s
  BY DEF ServerInv, ServerTypeOK, AtMigration, LockHeld, Migrating
<1>2. ServerTypeOK'
  <2>1. phase' \in [Servers -> Stages]
    BY <1>1 DEF Stages
  <2>2. next' \in [Servers -> Nat]
    BY <1>1
  <2>3. migrator' \in Servers \cup {None} /\ version' \in 0..Latest /\ dirty' \in BOOLEAN
    BY <1>1
  <2> QED BY <2>1, <2>2, <2>3 DEF ServerInv, ServerTypeOK
<1>3. LockHeld' /\ WhoMarked' /\ SchemaAtVersion'
  BY <1>1 DEF ServerInv, LockHeld, WhoMarked, SchemaAtVersion, Migrating
<1>4. AtMigration'
  <2> SUFFICES ASSUME NEW t \in Servers, t # s
               PROVE  phase[t] \notin {"mark", "apply", "clear", "serve", "drain"}
    BY <1>1 DEF ServerInv, AtMigration
  <2> QED BY <1>1, Alone DEF ServerInv, AtMigration, Migrating
<1> QED BY <1>2, <1>3, <1>4 DEF ServerInv

\* A process that ends gives up the lock, and leaves the mark if it was inside.
LEMMA ExitInv == ASSUME ServerInv, TypeOK', NEW s \in Servers, Exit(s) PROVE ServerInv'
<1> USE ServerAssumption DEF Exit, Enter, Unlocked
<1>1. phase \in [Servers -> Stages] /\ migrator \in Servers \cup {None} /\ broken \in BOOLEAN
  BY DEF ServerInv, ServerTypeOK
<1>2. ServerTypeOK'
  BY <1>1 DEF ServerInv, ServerTypeOK, Stages
<1>3. LockHeld'
  BY <1>1 DEF ServerInv, LockHeld, Migrating
<1>4. SchemaAtVersion' /\ AtMigration'
  BY <1>1 DEF ServerInv, SchemaAtVersion, AtMigration
<1>5. WhoMarked'
  <2> SUFFICES ASSUME dirty, ~broken, phase[s] \notin {"apply", "clear"}
               PROVE  \E t \in Servers : phase'[t] \in {"apply", "clear"}
    BY <1>1 DEF WhoMarked
  <2>1. PICK t \in Servers : phase[t] \in {"apply", "clear"}
    BY DEF ServerInv, WhoMarked
  <2> QED BY <1>1, <2>1
<1> QED BY <1>2, <1>3, <1>4, <1>5 DEF ServerInv

\* Requests leave the migrations alone.
LEMMA RequestInv ==
  ASSUME ServerInv, TypeOK', NEW r \in Requests,
         (\E s \in Servers : Accept(s, r)) \/ Serve(r) \/ Breaks(r) \/ Unheard(r)
  PROVE  ServerInv'
<1>1. UNCHANGED <<load, phase, starts, next, broken, driver, database>>
  BY DEF Accept, Serve, Acquire, Statement, Breaks, Unheard, serverVars
<1>2. at' \in [Requests -> Servers \cup {None}] /\ conn' \subseteq Requests
  BY DEF Accept, Serve, Acquire, Statement, Breaks, KeptBy, Unheard, serverVars, ServerInv,
         ServerTypeOK
<1> QED BY <1>1, <1>2
       DEF database, ServerInv, ServerTypeOK, LockHeld, SchemaAtVersion, AtMigration, WhoMarked

LEMMA ServerStepInv == ASSUME ServerInv, TypeOK', [ServerNext]_allVars PROVE ServerInv'
<1>1. CASE UNCHANGED allVars \/ Rest
  <2>1. /\ UNCHANGED <<load, phase, starts, next, broken, driver, at, conn>>
        /\ UNCHANGED <<migrator, version, dirty, schema>>
    BY <1>1 DEF allVars, serverVars, Rest, database
  <2> QED BY <2>1 DEF ServerInv, ServerTypeOK, LockHeld, SchemaAtVersion, AtMigration, WhoMarked
<1>2. ASSUME NEW s \in Servers, Migrate(s) PROVE ServerInv'
  BY <1>2, ProcessInv, LockInv, CheckInv, MarkInv, ApplyInv, ClearInv DEF Migrate
<1> QED BY <1>1, <1>2, ProcessInv, ExitInv, RequestInv DEF ServerNext

LEMMA ServerInvariant == ServerSpec => []ServerInv
<1>1. ServerSpec => []TypeOK
  BY Composition, KeyTypes, PTL
<1>2. ServerInit /\ TypeOK => ServerInv
  BY InitServerInv
<1>3. ServerInv /\ TypeOK' /\ [ServerNext]_allVars => ServerInv'
  BY ServerStepInv
<1> QED BY <1>1, <1>2, <1>3, PTL DEF ServerSpec

\* The variables of Server keep their types.
THEOREM ServerTypes == ServerSpec => []ServerTypeOK
BY ServerInvariant, PTL DEF ServerInv

\* No request is served on a schema that lacks a migration or is half through one,
\* however many processes start, die and start again during the migrations.
THEOREM OnlyMigrated == ServerSpec => []ServesOnlyMigrated
<1>1. ServerInv => ServesOnlyMigrated
  BY DEF ServerInv, AtMigration, SchemaAtVersion, ServesOnlyMigrated
<1> QED BY <1>1, ServerInvariant, PTL

\* Only the end of a process inside a migration leaves the schema dirty: the lock
\* keeps processes that start together apart.
THEOREM DirtyIsAnAccident == ServerSpec => []DirtyOnlyByAccident
<1>1. ServerInv => DirtyOnlyByAccident
  <2> SUFFICES ASSUME ServerInv, dirty, migrator = None, ~broken PROVE FALSE
    BY DEF DirtyOnlyByAccident, ServerInv, ServerTypeOK
  <2>1. PICK s \in Servers : phase[s] \in {"apply", "clear"}
    BY DEF ServerInv, WhoMarked
  <2>2. migrator = s
    BY <2>1 DEF ServerInv, LockHeld, Migrating
  <2> QED BY <2>2, ServerAssumption
<1> QED BY <1>1, ServerInvariant, PTL

-----------------------------------------------------------------------------
(* Connections and waiting                                                 *)

\* Handlers about to issue a statement, and those inside a transaction.
Stating == {"lookup", "insert", "auth", "revoke"}
Committing == {"inserted", "revoking"}

\* The uncommitted row of q is one the statement of r has to wait for.
HoldsRowOf(q, r) ==
    \/ pc[r] = "insert" /\ q \in Registrations /\ Inserting(q) /\ owner[q] = owner[r]
    \/ pc[r] = "insert" /\ q \in Uses /\ Revoking(q) /\ owner[presented[q]] = owner[r]
    \/ pc[r] = "revoke" /\ q \in Uses /\ Revoking(q) /\ presented[q] = presented[r]

\* A request has all that its next step takes, without a failure.
CanGoOn(r) ==
    \/ pc[r] \in {"limit", "reply"}
    \/ pc[r] \in Stating /\ r \notin conn /\ InUse(at[r]) < MaxOpen[at[r]]
    \/ r \in conn /\ \A q \in Requests : ~HoldsRowOf(q, r)

\* Waits do not close: a request that cannot go on waits for a row whose holder
\* can, or for a pool that lends some of its connections, all of them to requests
\* that can go on or wait for such a row, in this process or another.
WaitsForRow(r) == \E q \in Pending : HoldsRowOf(q, r) /\ CanGoOn(q)
EveryWaitEnds ==
    \A r \in Pending :
        \/ CanGoOn(r)
        \/ WaitsForRow(r)
        \/ /\ r \notin conn /\ Connections(at[r]) # {}
           /\ \A q \in Connections(at[r]) : q \in Pending /\ (CanGoOn(q) \/ WaitsForRow(q))

\* How far a request is from its end: the statements, transactions and answers
\* before it, and the connection it still needs.
Distance(r) ==
    (CASE pc[r] = "limit" -> 9
       [] pc[r] \in {"lookup", "auth"} -> 7
       [] pc[r] \in {"insert", "revoke"} -> 5
       [] pc[r] \in Committing -> 3
       [] pc[r] = "reply" -> 1
       [] OTHER -> 0)
    - (IF r \in conn /\ pc[r] \in Stating THEN 1 ELSE 0)

\* A request that is served comes nearer to its end, and none is ever put back.
ServingEnds ==
    [][\A r \in Requests :
          /\ Serve(r) \/ Breaks(r) => Distance(r)' < Distance(r)
          /\ r \in Pending => Distance(r)' <= Distance(r)]_allVars

\* A pool is never exceeded, and a request that has a connection needs it.
Connected ==
    /\ IsFiniteSet(conn)
    /\ \A s \in Servers : InUse(s) <= MaxOpen[s]
    /\ \A r \in conn : pc[r] \in Stating \cup Committing
    /\ \A r \in Requests : pc[r] \in Committing => r \in conn
    /\ \A r \in Requests : pc[r] # "idle" => at[r] \in Servers

\* The migrations' driver keeps its connection until the process ends, and requests
\* are with processes that serve.
DriversStay ==
    /\ \A s \in Servers : s \in driver <=> phase[s] \notin {"down", "connect", "driver"}
    /\ \A r \in Pending : at[r] \in Servers /\ phase[at[r]] \in {"serve", "drain"}

\* What a process that serves leaves its requests of its pool is one connection less
\* than DB_MAX_OPEN_CONNS; none has one without a statement to issue or a
\* transaction to end.
PoolsShared ==
    /\ \A s \in Servers : phase[s] \in {"serve", "drain"} => Cardinality(Connections(s)) < MaxOpen[s]
    /\ \A r \in conn : pc[r] \in Stating \cup Committing /\ phase[at[r]] \in {"serve", "drain"}

\* Of a pool of one nothing is left: a request that needs a statement waits.
StarvesOnOne ==
    \A r \in Pending : pc[r] \in Stating /\ MaxOpen[at[r]] = 1 => ~CanGoOn(r)

\* Where a step that serves r takes it, and what becomes of its connection.
Moves(r, p) ==
    \/ pc[r] = "limit" /\ p \in {"lookup", "auth", "reply"} /\ conn' = conn
    \/ pc[r] = "reply" /\ p = "done" /\ conn' = conn
    \/ /\ pc[r] \in Stating /\ p = pc[r] /\ r \notin conn
       /\ InUse(at[r]) < MaxOpen[at[r]]
       /\ conn' = conn \cup {r}
    \/ /\ r \in conn /\ pc[r] \in {"lookup", "auth"} /\ p \in {"insert", "revoke", "reply"}
       /\ conn' = conn \ {r}
    \/ r \in conn /\ pc[r] \in {"insert", "revoke"} /\ p \in Committing /\ conn' = conn
    \/ /\ r \in conn /\ pc[r] \in {"insert", "revoke"} \cup Committing /\ p = "reply"
       /\ conn' = conn \ {r}

LEMMA ServeMoves ==
  ASSUME TypeOK, NEW r \in Requests, Serve(r) \/ Breaks(r)
  PROVE  /\ UNCHANGED <<phase, driver, at>>
         /\ \E p : pc' = [pc EXCEPT ![r] = p] /\ Moves(r, p)
<1>1. CASE Acquire(r)
  <2>1. pc' = [pc EXCEPT ![r] = pc[r]]
    BY <1>1 DEF Acquire, vars, TypeOK
  <2>2. Moves(r, pc[r]) /\ UNCHANGED <<phase, driver, at>>
    BY <1>1 DEF Acquire, Moves, Stating
  <2> QED BY <2>1, <2>2
<1>2. CASE Statement(r) \/ Breaks(r)
  <2>1. UNCHANGED <<phase, driver, at>> /\ r \in conn
    BY <1>2 DEF Statement, Breaks
  <2>2. ASSUME NEW p, pc' = [pc EXCEPT ![r] = p]
        PROVE  conn' = IF p \in Committing THEN conn ELSE conn \ {r}
    BY <1>2, <2>2 DEF Statement, Breaks, KeptBy, Committing, TypeOK
  <2>3. CASE Fail(r) \/ CommitUnseen(r)
    <3>1. pc' = [pc EXCEPT ![r] = "reply"]
      BY <2>3 DEF Fail, CommitUnseen, Answer
    <3>2. pc[r] \in {"lookup", "insert", "inserted", "revoke", "revoking"}
      BY <2>3 DEF Fail, CommitUnseen
    <3>3. conn' = conn \ {r}
      <4>1. pc'[r] = "reply"
        BY <3>1 DEF TypeOK
      <4> QED BY <1>2, <4>1 DEF Statement, Breaks, KeptBy
    <3>4. Moves(r, "reply")
      BY <2>1, <3>2, <3>3 DEF Moves, Committing
    <3> QED BY <2>1, <3>1, <3>4
  <2>4. CASE r \in Registrations /\ (Lookup(r) \/ InsertKey(r) \/ CommitKey(r))
    <3>1. PICK p : /\ pc' = [pc EXCEPT ![r] = p]
                   /\ \/ pc[r] = "lookup" /\ p \in {"insert", "reply"}
                      \/ pc[r] = "insert" /\ p \in {"inserted", "reply"}
                      \/ pc[r] = "inserted" /\ p = "reply"
      BY <2>4 DEF Lookup, InsertKey, CommitKey, Go, Answer
    <3> QED BY <2>1, <2>2, <3>1 DEF Moves, Committing
  <2>5. CASE r \in Uses /\ (Authenticate(r) \/ LookupFails(r) \/ RevokeRow(r) \/ CommitRevoke(r))
    <3>1. PICK p : /\ pc' = [pc EXCEPT ![r] = p]
                   /\ \/ pc[r] = "auth" /\ p \in {"revoke", "reply"}
                      \/ pc[r] = "revoke" /\ p \in {"revoking", "reply"}
                      \/ pc[r] = "revoking" /\ p = "reply"
      BY <2>5 DEF Authenticate, LookupFails, RevokeRow, CommitRevoke, Revoking, Proceed, Go, Answer
    <3> QED BY <2>1, <2>2, <3>1 DEF Moves, Committing
  <2> QED BY <1>2, <2>3, <2>4, <2>5 DEF Statement, Breaks, Works, RegisterStep, UseStep
<1>3. CASE (Limit(r) \/ Reply(r)) /\ UNCHANGED serverVars
  <2>1. UNCHANGED <<phase, driver, at, conn>>
    BY <1>3 DEF serverVars
  <2>2. PICK p : /\ pc' = [pc EXCEPT ![r] = p]
                 /\ \/ pc[r] = "limit" /\ p \in {"lookup", "auth", "reply"}
                    \/ pc[r] = "reply" /\ p = "done"
    BY <1>3 DEF Limit, Reply, Go, Answer
  <2> QED BY <2>1, <2>2 DEF Moves
<1> QED BY <1>1, <1>2, <1>3 DEF Serve

\* Pools from which connections are only returned are still not exceeded.
LEMMA PoolsShrink ==
  ASSUME ServerTypeOK, Connected, conn' \subseteq conn, \A q \in conn' : at'[q] = at[q],
         driver' \subseteq driver
  PROVE  /\ IsFiniteSet(conn')
         /\ \A s \in Servers : InUse(s)' <= MaxOpen[s]
<1>1. IsFiniteSet(conn')
  BY FS_Subset DEF Connected
<1>2. ASSUME NEW s \in Servers PROVE InUse(s)' <= MaxOpen[s]
  <2>1. Connections(s)' \subseteq Connections(s) /\ Connections(s) \subseteq conn
    BY DEF Connections
  <2>2. IsFiniteSet(Connections(s))
    BY <2>1, FS_Subset DEF Connected
  <2>3. /\ Cardinality(Connections(s)') <= Cardinality(Connections(s))
        /\ Cardinality(Connections(s)') \in Nat /\ Cardinality(Connections(s)) \in Nat
    BY <2>1, <2>2, FS_Subset, FS_CardinalityType
  <2>4. InUse(s) <= MaxOpen[s] /\ MaxOpen[s] \in Nat
    BY ServerAssumption DEF Connected
  <2> QED BY <2>3, <2>4 DEF InUse
<1> QED BY <1>1, <1>2

\* The cardinality of what a process's requests hold is a number.
LEMMA Lent ==
  ASSUME Connected, NEW s
  PROVE  IsFiniteSet(Connections(s)) /\ Cardinality(Connections(s)) \in Nat
<1>1. Connections(s) \subseteq conn
  BY DEF Connections
<1>2. IsFiniteSet(Connections(s))
  BY <1>1, FS_Subset DEF Connected
<1> QED BY <1>2, FS_CardinalityType

LEMMA InitConnected == ASSUME ServerInit PROVE Connected
<1>1. IsFiniteSet(conn) /\ Cardinality({}) = 0
  BY FS_EmptySet DEF ServerInit
<1>2. \A s \in Servers : Connections(s) = {} /\ s \notin driver
  BY DEF Connections, ServerInit
<1>3. \A s \in Servers : InUse(s) <= MaxOpen[s]
  BY <1>1, <1>2, ServerAssumption DEF InUse
<1>4. conn = {} /\ \A r \in Requests : pc[r] = "idle"
  BY DEF ServerInit, Init
<1> QED BY <1>1, <1>3, <1>4 DEF Connected, Committing

LEMMA AcceptConnected ==
  ASSUME ServerTypeOK, Connected, NEW s \in Servers, NEW r \in Requests, Accept(s, r)
  PROVE  Connected'
<1>1. /\ pc[r] = "idle" /\ pc' = [pc EXCEPT ![r] = "limit"]
      /\ at' = [at EXCEPT ![r] = s] /\ conn' = conn /\ driver' = driver
  BY DEF Accept, BeginRegister, BeginUse, Go
<1>2. r \notin conn
  BY <1>1 DEF Connected, Stating, Committing
<1>3. \A q \in Requests : q # r => pc'[q] = pc[q] /\ at'[q] = at[q]
  BY <1>1 DEF ServerTypeOK, TypeOK
<1>4. pc'[r] = "limit" /\ at'[r] = s
  BY <1>1 DEF ServerTypeOK, TypeOK
<1>5. \A q \in conn' : at'[q] = at[q]
  BY <1>1, <1>2, <1>3 DEF ServerTypeOK
<1>6. /\ IsFiniteSet(conn')
      /\ \A t \in Servers : InUse(t)' <= MaxOpen[t]
  BY <1>1, <1>5, PoolsShrink
<1>7. /\ \A q \in conn' : pc'[q] \in Stating \cup Committing
      /\ \A q \in Requests : pc'[q] \in Committing => q \in conn'
      /\ \A q \in Requests : pc'[q] # "idle" => at'[q] \in Servers
  BY <1>1, <1>2, <1>3, <1>4 DEF Connected, ServerTypeOK, Committing
<1> QED BY <1>6, <1>7 DEF Connected

LEMMA ServeConnected ==
  ASSUME ServerTypeOK, Connected, NEW r \in Requests, Serve(r) \/ Breaks(r)
  PROVE  Connected'
<1>1. PICK p : /\ at' = at /\ driver' = driver
               /\ pc' = [pc EXCEPT ![r] = p] /\ Moves(r, p)
  BY ServeMoves DEF ServerTypeOK
<1>2. /\ \A q \in Requests : q # r => pc'[q] = pc[q]
      /\ pc'[r] = p /\ p # "idle" /\ pc[r] # "idle"
  BY <1>1 DEF ServerTypeOK, TypeOK, Moves, Stating, Committing
<1>3. \A q \in Requests : pc'[q] # "idle" => at'[q] \in Servers
  BY <1>1, <1>2 DEF Connected
<1>4. CASE conn' = conn \cup {r}
  <2>1. CASE r \in conn
    <3>1. conn' = conn
      BY <1>4, <2>1
    <3>2. p \in Committing
      BY <1>1, <2>1, <3>1 DEF Moves, Connected, Stating, Committing
    <3>3. /\ IsFiniteSet(conn')
          /\ \A t \in Servers : InUse(t)' <= MaxOpen[t]
      BY <1>1, <3>1, PoolsShrink
    <3> QED BY <1>2, <1>3, <2>1, <3>1, <3>2, <3>3 DEF Connected, ServerTypeOK
  <2>2. CASE r \notin conn
    <3>1. /\ pc[r] \in Stating /\ p = pc[r]
          /\ InUse(at[r]) < MaxOpen[at[r]]
      BY <1>1, <1>4, <2>2 DEF Moves
    <3>2. IsFiniteSet(conn')
      BY <1>4, FS_AddElement DEF Connected
    <3>3. ASSUME NEW t \in Servers PROVE InUse(t)' <= MaxOpen[t]
      <4>1. CASE t = at[r]
        <5>1. Connections(t)' = Connections(t) \cup {r} /\ r \notin Connections(t)
          BY <1>1, <1>4, <2>2, <4>1 DEF Connections
        <5>2. /\ Cardinality(Connections(t)') = Cardinality(Connections(t)) + 1
              /\ Cardinality(Connections(t)) \in Nat
          BY <5>1, Lent, FS_AddElement
        <5> QED BY <1>1, <3>1, <4>1, <5>2, ServerAssumption DEF InUse
      <4>2. CASE t # at[r]
        <5>1. Connections(t)' = Connections(t)
          BY <1>1, <1>4, <4>2 DEF Connections
        <5> QED BY <1>1, <5>1 DEF Connected, InUse
      <4> QED BY <4>1, <4>2
    <3> QED BY <1>2, <1>3, <1>4, <3>1, <3>2, <3>3 DEF Connected, ServerTypeOK
  <2> QED BY <2>1, <2>2
<1>5. CASE conn' \subseteq conn /\ conn' # conn \cup {r}
  <2>1. /\ IsFiniteSet(conn')
        /\ \A t \in Servers : InUse(t)' <= MaxOpen[t]
    BY <1>1, <1>5, PoolsShrink
  <2>2. r \notin conn' /\ conn' = conn \ {r} /\ p \notin Committing
    BY <1>1, <1>5 DEF Moves, Connected, Stating, Committing
  <2> QED BY <1>2, <1>3, <2>1, <2>2 DEF Connected, ServerTypeOK
<1> QED BY <1>1, <1>4, <1>5 DEF Moves

LEMMA ExitConnected ==
  ASSUME ServerTypeOK, Connected, NEW s \in Servers, Exit(s)
  PROVE  Connected'
<1>1. /\ pc' = [r \in Requests |-> IF r \in Served(s) THEN "lost" ELSE pc[r]]
      /\ conn' = {r \in conn : at[r] # s} /\ at' = at /\ driver' \subseteq driver
  BY DEF Exit, Crash, Connections
<1>2. /\ IsFiniteSet(conn')
      /\ \A t \in Servers : InUse(t)' <= MaxOpen[t]
  BY <1>1, PoolsShrink
<1>3. \A q \in conn' : pc'[q] \in Stating \cup Committing
  BY <1>1 DEF Served, Connected, ServerTypeOK
<1>4. ASSUME NEW q \in Requests, pc'[q] \in Committing PROVE q \in conn'
  <2>1. q \notin Served(s) /\ pc[q] \in Committing
    BY <1>1, <1>4 DEF Committing
  <2> QED BY <1>1, <2>1 DEF Served, Pending, Committing, Connected
<1>5. \A q \in Requests : pc'[q] # "idle" => at'[q] \in Servers
  BY <1>1 DEF Served, Pending, Connected
<1> QED BY <1>2, <1>3, <1>4, <1>5 DEF Connected

\* The migrations' driver takes the first connection, or the last.
LEMMA WithInstanceConnected ==
  ASSUME ServerTypeOK, Connected, NEW s \in Servers, WithInstance(s)
  PROVE  Connected'
<1>1. /\ driver' = driver \cup {s} /\ InUse(s) < MaxOpen[s]
      /\ UNCHANGED <<at, conn, pc>>
  BY DEF WithInstance, vars
<1>2. ASSUME NEW t \in Servers PROVE InUse(t)' <= MaxOpen[t]
  <2>1. Connections(t)' = Connections(t)
    BY <1>1 DEF Connections
  <2>2. Cardinality(Connections(t)) \in Nat
    BY Lent
  <2>3. InUse(t) <= MaxOpen[t] /\ MaxOpen[t] \in Nat
    BY ServerAssumption DEF Connected
  <2> QED BY <1>1, <2>1, <2>2, <2>3 DEF InUse
<1> QED BY <1>1, <1>2 DEF Connected

LEMMA OtherConnected ==
  ASSUME ServerTypeOK, Connected,
         \/ UNCHANGED allVars \/ Rest
         \/ \E s \in Servers :
               \/ Start(s) \/ Connect(s) \/ Signal(s) \/ Drained(s)
               \/ Lock(s) \/ Check(s) \/ Mark(s) \/ Apply(s) \/ Clear(s)
         \/ \E r \in Requests : Unheard(r)
  PROVE  Connected'
<1>1. UNCHANGED <<at, conn>> /\ driver' \subseteq driver
  BY DEF allVars, serverVars, Rest, Start, Connect, Lock, Check, Mark, Apply, Clear,
         Signal, Drained, Unheard
<1>2. UNCHANGED pc \/ \E r \in Requests : Unheard(r)
  BY DEF allVars, vars, Rest, Start, Connect, Lock, Check, Mark, Apply, Clear,
         Signal, Drained
<1>3. \A q \in Requests : pc'[q] = pc[q] \/ (pc[q] = "reply" /\ pc'[q] = "lost")
  BY <1>2 DEF Unheard, Crash
<1>4. /\ IsFiniteSet(conn')
      /\ \A t \in Servers : InUse(t)' <= MaxOpen[t]
  BY <1>1, PoolsShrink
<1> QED BY <1>1, <1>3, <1>4 DEF Connected, ServerTypeOK, Stating, Committing

LEMMA ConnectedInvariant == ServerSpec => []Connected
<1>1. ServerInit => Connected
  BY InitConnected
<1>2. ServerTypeOK /\ Connected /\ [ServerNext]_allVars => Connected'
  BY AcceptConnected, ServeConnected, ExitConnected, WithInstanceConnected, OtherConnected
     DEF ServerNext, Migrate
<1> QED BY <1>1, <1>2, ServerTypes, PTL DEF ServerSpec

\* A process changes phase only while it has no requests, but for the signal to drain.
LEMMA PhaseDrivers ==
  ASSUME ServerTypeOK, DriversStay, NEW s \in Servers,
         Start(s) \/ Connect(s) \/ Migrate(s) \/ Signal(s) \/ Drained(s)
  PROVE  DriversStay'
<1>1. /\ UNCHANGED <<pc, at>> /\ phase[s] \in Stages
      /\ \E p \in Stages : phase' = [phase EXCEPT ![s] = p]
      /\ phase[s] = "serve" => phase'[s] = "drain"
      /\ phase[s] = "drain" => Served(s) = {}
  BY DEF Start, Connect, Migrate, WithInstance, Lock, Check, Mark, Apply, Clear, Signal,
         Drained, Enter, Stages, vars, ServerTypeOK
<1>2. \A t \in Servers : t # s => phase'[t] = phase[t] /\ (t \in driver' <=> t \in driver)
  BY <1>1 DEF Start, Connect, Migrate, WithInstance, Lock, Check, Mark, Apply, Clear, Signal,
         Drained, ServerTypeOK
<1>3. s \in driver' <=> phase'[s] \notin {"down", "connect", "driver"}
  BY DEF Start, Connect, Migrate, WithInstance, Lock, Check, Mark, Apply, Clear, Signal,
         Drained, Enter, ServerTypeOK, DriversStay
<1>4. ASSUME NEW r \in Pending' PROVE at'[r] \in Servers /\ phase'[at'[r]] \in {"serve", "drain"}
  <2>1. r \in Pending /\ at'[r] = at[r]
    BY <1>1 DEF Pending
  <2>2. at[r] \in Servers /\ phase[at[r]] \in {"serve", "drain"}
    BY <2>1 DEF DriversStay
  <2>3. CASE at[r] = s
    BY <1>1, <2>1, <2>2, <2>3 DEF Served
  <2>4. CASE at[r] # s
    BY <1>2, <2>1, <2>2, <2>4
  <2> QED BY <2>3, <2>4
<1> QED BY <1>2, <1>3, <1>4 DEF DriversStay

LEMMA ExitDrivers ==
  ASSUME ServerTypeOK, DriversStay, NEW s \in Servers, Exit(s)
  PROVE  DriversStay'
<1>1. /\ pc' = [r \in Requests |-> IF r \in Served(s) THEN "lost" ELSE pc[r]] /\ at' = at
      /\ phase' = [phase EXCEPT ![s] = "down"] /\ driver' = driver \ {s}
  BY DEF Exit, Crash, Enter
<1>2. ASSUME NEW r \in Pending' PROVE r \in Pending /\ at[r] # s
  BY <1>1 DEF Pending, Served
<1> QED BY <1>1, <1>2 DEF DriversStay, ServerTypeOK

LEMMA RequestDrivers ==
  ASSUME ServerTypeOK, DriversStay, NEW r \in Requests,
         (\E s \in Servers : Accept(s, r)) \/ Serve(r) \/ Breaks(r) \/ Unheard(r)
  PROVE  DriversStay'
<1>1. CASE \E s \in Servers : Accept(s, r)
  <2>1. PICK s \in Servers : Accept(s, r)
    BY <1>1
  <2>2. /\ phase[s] = "serve" /\ UNCHANGED <<phase, driver>>
        /\ pc' = [pc EXCEPT ![r] = "limit"] /\ at' = [at EXCEPT ![r] = s]
    BY <2>1 DEF Accept, BeginRegister, BeginUse, Go
  <2> QED BY <2>2 DEF DriversStay, ServerTypeOK, TypeOK, Pending
<1>2. CASE Serve(r) \/ Breaks(r)
  <2>1. PICK p : UNCHANGED <<phase, driver, at>> /\ pc' = [pc EXCEPT ![r] = p] /\ Moves(r, p)
    BY <1>2, ServeMoves DEF ServerTypeOK
  <2>2. r \in Pending
    BY <2>1 DEF Moves, Pending, Stating, Committing
  <2> QED BY <2>1, <2>2 DEF DriversStay, ServerTypeOK, TypeOK, Pending
<1>3. CASE Unheard(r)
  <2>1. UNCHANGED <<phase, driver, at>> /\ Pending' \subseteq Pending
    BY <1>3 DEF Unheard, Crash, serverVars, Pending
  <2> QED BY <2>1 DEF DriversStay
<1> QED BY <1>1, <1>2, <1>3

LEMMA DriversInvariant == ServerSpec => []DriversStay
<1>1. ServerInit => DriversStay
  BY DEF ServerInit, Init, DriversStay, Pending
<1>2. ServerTypeOK /\ DriversStay /\ [ServerNext]_allVars => DriversStay'
  <2> SUFFICES ASSUME ServerTypeOK, DriversStay, [ServerNext]_allVars PROVE DriversStay'
    OBVIOUS
  <2>1. CASE UNCHANGED allVars \/ Rest
    BY <2>1 DEF Rest, allVars, vars, serverVars, DriversStay, Pending
  <2> QED BY <2>1, PhaseDrivers, ExitDrivers, RequestDrivers DEF ServerNext
<1> QED BY <1>1, <1>2, ServerTypes, PTL DEF ServerSpec

\* The pools of all processes stay within DB_MAX_OPEN_CONNS, of which requests get
\* one less, and no request keeps a connection that is neither about to issue a
\* statement nor in a transaction.
THEOREM PoolsBounded == ServerSpec => []PoolsShared
<1>1. ASSUME ServerTypeOK, Connected, DriversStay PROVE PoolsShared
  <2>1. ASSUME NEW s \in Servers, phase[s] \in {"serve", "drain"}
        PROVE  Cardinality(Connections(s)) < MaxOpen[s]
    <3>1. s \in driver /\ InUse(s) <= MaxOpen[s] /\ MaxOpen[s] \in Nat
      BY <1>1, <2>1, ServerAssumption DEF DriversStay, Connected
    <3> QED BY <1>1, <3>1, Lent DEF InUse
  <2>2. \A r \in conn : r \in Pending /\ pc[r] \in Stating \cup Committing
    BY <1>1 DEF Connected, ServerTypeOK, Pending, Stating, Committing
  <2> QED BY <1>1, <2>1, <2>2 DEF PoolsShared, DriversStay
<1> QED BY <1>1, ServerTypes, ConnectedInvariant, DriversInvariant, PTL

\* With DB_MAX_OPEN_CONNS=1 no request that needs the database can ever take its
\* next step: the migrations' driver has the only connection.
THEOREM OneIsTooFew == ServerSpec => []StarvesOnOne
<1>1. ASSUME Connected, DriversStay, PoolsShared PROVE StarvesOnOne
  <2> SUFFICES ASSUME NEW r \in Pending, pc[r] \in Stating, MaxOpen[at[r]] = 1
               PROVE  ~CanGoOn(r)
    BY DEF StarvesOnOne
  <2>1. at[r] \in Servers /\ phase[at[r]] \in {"serve", "drain"} /\ at[r] \in driver
    BY <1>1 DEF DriversStay
  <2>2. Cardinality(Connections(at[r])) \in Nat /\ Cardinality(Connections(at[r])) < 1
    BY <1>1, <2>1, Lent DEF PoolsShared
  <2>3. Connections(at[r]) = {}
    BY <1>1, <2>2, Lent, FS_EmptySet
  <2>4. r \notin conn /\ ~(InUse(at[r]) < 1)
    BY <2>1, <2>2, <2>3 DEF Connections, InUse
  <2> QED BY <2>4 DEF CanGoOn, Stating
<1> QED BY <1>1, ConnectedInvariant, DriversInvariant, PoolsBounded, PTL

\* Who holds a row that is waited for is in its transaction, and waits for nobody.
LEMMA HoldersGoOn ==
  ASSUME TypeOK, Phases, Connected, NEW q \in Requests, NEW r \in Requests, HoldsRowOf(q, r)
  PROVE  q \in Pending /\ CanGoOn(q)
<1>1. pc[q] \in Committing
  BY DEF HoldsRowOf, Inserting, Revoking, Committing
<1>2. q \in conn /\ \A h \in Requests : ~HoldsRowOf(h, q)
  BY <1>1 DEF Connected, HoldsRowOf, Committing
<1> QED BY <1>1, <1>2 DEF CanGoOn, Pending, Committing

\* With a connection a request goes on or waits for a row.
LEMMA ConnectedGoOn ==
  ASSUME TypeOK, Phases, Connected, NEW r \in conn, r \in Requests
  PROVE  r \in Pending /\ (CanGoOn(r) \/ WaitsForRow(r))
<1>1. r \in Pending
  BY DEF Connected, Pending, Stating, Committing
<1>2. CASE \A q \in Requests : ~HoldsRowOf(q, r)
  BY <1>1, <1>2 DEF CanGoOn
<1>3. ASSUME NEW q \in Requests, HoldsRowOf(q, r) PROVE WaitsForRow(r)
  BY <1>3, HoldersGoOn DEF WaitsForRow
<1> QED BY <1>1, <1>2, <1>3

\* With pools of two or more connections requests never wait on each other in a
\* circle, over rows, index entries and the connections of any number of pools, nor
\* on a pool that has nothing to give: what RequestsEnd needs of safety.
THEOREM WaitsEnd ==
  ASSUME \A s \in Servers : MaxOpen[s] > 1
  PROVE  ServerSpec => []EveryWaitEnds
<1>1. ASSUME ServerTypeOK, Phases, Connected PROVE EveryWaitEnds
  <2> SUFFICES ASSUME NEW r \in Pending
               PROVE  \/ CanGoOn(r)
                      \/ WaitsForRow(r)
                      \/ /\ r \notin conn /\ Connections(at[r]) # {}
                         /\ \A q \in Connections(at[r]) :
                               q \in Pending /\ (CanGoOn(q) \/ WaitsForRow(q))
    BY DEF EveryWaitEnds
  <2>1. r \in Requests /\ TypeOK
    BY <1>1 DEF Pending, ServerTypeOK
  <2>2. CASE r \in conn
    BY <1>1, <2>1, <2>2, ConnectedGoOn
  <2>3. CASE r \notin conn
    <3>1. pc[r] \in {"limit", "reply"} \cup Stating
      BY <1>1, <2>1, <2>3 DEF Connected, Phases, Pending, Requests, Stating, Committing
    <3>2. CASE pc[r] \in {"limit", "reply"}
      BY <3>2 DEF CanGoOn
    <3>3. CASE pc[r] \in Stating
      <4>1. at[r] \in Servers
        BY <1>1, <2>1, <3>3 DEF Connected, Stating
      <4>2. CASE Connections(at[r]) = {}
        <5>1. InUse(at[r]) < MaxOpen[at[r]]
          <6>1. Cardinality(Connections(at[r])) = 0
            BY <4>2, FS_EmptySet
          <6> QED BY <4>1, <6>1, ServerAssumption DEF InUse
        <5> QED BY <2>3, <3>3, <4>1, <5>1, ServerAssumption DEF CanGoOn
      <4>3. CASE Connections(at[r]) # {}
        <5>1. \A q \in Connections(at[r]) : q \in conn /\ q \in Requests
          BY <1>1 DEF Connections, ServerTypeOK
        <5> QED BY <1>1, <2>1, <2>3, <4>3, <5>1, ConnectedGoOn
      <4> QED BY <4>2, <4>3
    <3> QED BY <3>1, <3>2, <3>3
  <2> QED BY <2>2, <2>3
<1>2. ServerSpec => []Inv
  BY Composition, KeysInvariant, PTL
<1> QED BY <1>1, <1>2, ServerTypes, ConnectedInvariant, PTL DEF Inv

\* The distance of a request with a given place in its handler.
LEMMA Distances ==
  ASSUME NEW r
  PROVE  /\ pc[r] = "limit" => Distance(r) = 9
         /\ pc[r] \in {"lookup", "auth"} => Distance(r) = IF r \in conn THEN 6 ELSE 7
         /\ pc[r] \in {"insert", "revoke"} => Distance(r) = IF r \in conn THEN 4 ELSE 5
         /\ pc[r] \in Committing => Distance(r) = 3
         /\ pc[r] = "reply" => Distance(r) = 1
         /\ pc[r] \in {"idle", "done", "lost"} => Distance(r) = 0
BY DEF Distance, Stating, Committing

\* The same in the next state.
LEMMA DistancesNext ==
  ASSUME NEW CONSTANT r
  PROVE  /\ pc'[r] = "limit" => Distance(r)' = 9
         /\ pc'[r] \in {"lookup", "auth"} => Distance(r)' = IF r \in conn' THEN 6 ELSE 7
         /\ pc'[r] \in {"insert", "revoke"} => Distance(r)' = IF r \in conn' THEN 4 ELSE 5
         /\ pc'[r] \in Committing => Distance(r)' = 3
         /\ pc'[r] = "reply" => Distance(r)' = 1
         /\ pc'[r] \in {"idle", "done", "lost"} => Distance(r)' = 0
BY DEF Distance, Stating, Committing

LEMMA ServeCloser ==
  ASSUME TypeOK, NEW CONSTANT r \in Requests, Serve(r) \/ Breaks(r)
  PROVE  Distance(r)' < Distance(r)
<1>1. PICK p : pc' = [pc EXCEPT ![r] = p] /\ Moves(r, p)
  BY ServeMoves
<1>2. pc'[r] = p
  BY <1>1 DEF TypeOK
<1>3. CASE pc[r] = "limit" /\ p \in {"lookup", "auth", "reply"} /\ conn' = conn
  BY <1>2, <1>3, Distances, DistancesNext
<1>4. CASE pc[r] = "reply" /\ p = "done" /\ conn' = conn
  BY <1>2, <1>4, Distances, DistancesNext
<1>5. CASE pc[r] \in Stating /\ p = pc[r] /\ r \notin conn /\ conn' = conn \cup {r}
  BY <1>2, <1>5, Distances, DistancesNext DEF Stating
<1>6. CASE /\ r \in conn /\ pc[r] \in {"lookup", "auth"} /\ p \in {"insert", "revoke", "reply"}
           /\ conn' = conn \ {r}
  BY <1>2, <1>6, Distances, DistancesNext
<1>7. CASE r \in conn /\ pc[r] \in {"insert", "revoke"} /\ p \in Committing /\ conn' = conn
  BY <1>2, <1>7, Distances, DistancesNext DEF Committing
<1>8. CASE /\ r \in conn /\ pc[r] \in {"insert", "revoke"} \cup Committing /\ p = "reply"
           /\ conn' = conn \ {r}
  BY <1>2, <1>8, Distances, DistancesNext DEF Committing
<1> QED BY <1>1, <1>3, <1>4, <1>5, <1>6, <1>7, <1>8 DEF Moves

\* Whatever else happens, a request stays where it is or is lost.
LEMMA OthersStay ==
  ASSUME TypeOK, Connected, [ServerNext]_allVars, NEW CONSTANT r \in Pending,
         ~(Serve(r) \/ Breaks(r))
  PROVE  pc'[r] = "lost" \/ (pc'[r] = pc[r] /\ (r \in conn' <=> r \in conn))
<1>1. r \in Requests /\ pc[r] # "idle"
  BY DEF Pending
<1>2. ASSUME NEW s \in Servers, Start(s) \/ Connect(s) \/ Migrate(s) \/ Signal(s) \/ Drained(s)
      PROVE  pc' = pc /\ conn' = conn
  BY <1>2 DEF Start, Connect, Migrate, WithInstance, Lock, Check, Mark, Apply, Clear, Signal,
              Drained, vars
<1>3. ASSUME NEW s \in Servers, Exit(s)
      PROVE  pc'[r] = "lost" \/ (pc'[r] = pc[r] /\ (r \in conn' <=> r \in conn))
  <2>1. /\ pc'[r] = IF r \in Served(s) THEN "lost" ELSE pc[r]
        /\ conn' = {q \in conn : at[q] # s}
    BY <1>1, <1>3 DEF Exit, Crash, Connections
  <2> QED BY <2>1 DEF Served
<1>4. ASSUME NEW s \in Servers, NEW q \in Requests, Accept(s, q)
      PROVE  pc'[r] = pc[r] /\ conn' = conn
  <2>1. pc[q] = "idle" /\ pc' = [pc EXCEPT ![q] = "limit"] /\ conn' = conn
    BY <1>4 DEF Accept, BeginRegister, BeginUse, Go
  <2> QED BY <1>1, <2>1 DEF TypeOK
<1>5. ASSUME NEW q \in Requests, Serve(q) \/ Breaks(q)
      PROVE  pc'[r] = pc[r] /\ (r \in conn' <=> r \in conn)
  <2>1. PICK p : pc' = [pc EXCEPT ![q] = p] /\ Moves(q, p)
    BY <1>5, ServeMoves
  <2>2. q # r
    BY <1>5
  <2>3. r \in conn' <=> r \in conn
    BY <2>1, <2>2 DEF Moves
  <2> QED BY <1>1, <2>1, <2>2, <2>3 DEF TypeOK
<1>6. ASSUME NEW q \in Requests, Unheard(q)
      PROVE  (pc'[r] = "lost" \/ pc'[r] = pc[r]) /\ conn' = conn
  BY <1>1, <1>6 DEF Unheard, Crash, serverVars
<1>7. CASE Rest \/ UNCHANGED allVars
  BY <1>7 DEF Rest, allVars, vars, serverVars
<1> QED BY <1>2, <1>3, <1>4, <1>5, <1>6, <1>7 DEF ServerNext

\* A request is served in at most seven steps, failing ones among them: each brings
\* it nearer to its end, and no step of another request or process sends it back.  With EveryWaitEnds
\* this is the argument for RequestsEnd that fairness completes.
THEOREM ServedInBoundedSteps == ServerSpec => ServingEnds
<1>1. ASSUME TypeOK, TypeOK', Connected, [ServerNext]_allVars
      PROVE  [\A r \in Requests :
                 /\ Serve(r) \/ Breaks(r) => Distance(r)' < Distance(r)
                 /\ r \in Pending => Distance(r)' <= Distance(r)]_allVars
  <2> SUFFICES ASSUME NEW r \in Requests
               PROVE  /\ Serve(r) \/ Breaks(r) => Distance(r)' < Distance(r)
                      /\ r \in Pending => Distance(r)' <= Distance(r)
    OBVIOUS
  <2>1. pc[r] \in {"idle", "limit", "lookup", "insert", "inserted", "auth",
                   "revoke", "revoking", "reply", "done", "lost"}
    BY <1>1 DEF TypeOK
  <2>2. Distance(r) \in Nat
    BY <2>1, Distances DEF Committing
  <2>3. CASE Serve(r) \/ Breaks(r)
    <3>1. Distance(r)' < Distance(r)
      BY <1>1, <2>3, ServeCloser
    <3>2. Distance(r)' \in Nat
      <4>1. pc'[r] \in {"idle", "limit", "lookup", "insert", "inserted", "auth",
                        "revoke", "revoking", "reply", "done", "lost"}
        BY <1>1 DEF TypeOK
      <4> QED BY <4>1, DistancesNext DEF Committing
    <3> QED BY <2>2, <3>1, <3>2
  <2>4. ASSUME ~(Serve(r) \/ Breaks(r)), r \in Pending PROVE Distance(r)' <= Distance(r)
    <3>1. pc'[r] = "lost" \/ (pc'[r] = pc[r] /\ (r \in conn' <=> r \in conn))
      BY <1>1, <2>4, OthersStay
    <3>2. CASE pc'[r] = "lost"
      BY <2>2, <3>2, DistancesNext
    <3>3. CASE pc'[r] = pc[r] /\ (r \in conn' <=> r \in conn)
      <4>1. Distance(r)' = Distance(r)
        BY <3>3 DEF Distance
      <4> QED BY <2>2, <4>1
    <3> QED BY <3>1, <3>2, <3>3
  <2> QED BY <2>3, <2>4
<1>2. ServerSpec => []TypeOK
  BY ServerTypes, PTL DEF ServerTypeOK
<1> QED BY <1>1, <1>2, ConnectedInvariant, PTL DEF ServerSpec, ServingEnds
=============================================================================
