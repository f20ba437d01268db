------------------------------ MODULE ApiKeys ------------------------------
(***************************************************************************)
(* The life of API keys in cmd/api: Register looks for an active key of    *)
(* the email and then inserts one, the partial unique index on the email   *)
(* of keys that are not revoked deciding between concurrent inserts;       *)
(* authenticate looks a presented key up; RevokeKey marks it revoked in    *)
(* one conditional UPDATE.  Each statement is a step; an INSERT or UPDATE  *)
(* runs in a transaction of its own, whose commit is another step, and     *)
(* waits for an uncommitted one it conflicts with.                         *)
(***************************************************************************)
EXTENDS Naturals

CONSTANTS
    Registrations,  \* POST /auth/register requests; each names the key it makes
    Uses,           \* requests carrying an X-API-Key header
    Emails,         \* addresses keys are registered for
    None            \* no email, no key

ASSUME KeysAssumption ==
    /\ Registrations \cap Uses = {}
    /\ None \notin Emails \cup Registrations

VARIABLES
    active,     \* committed rows of api_keys with revoked_at IS NULL
    owner,      \* the email each registration asks for
    presented,  \* the key each use carries
    purpose,    \* what each use is for: "write" or "revoke"
    pc,         \* where each request's handler is
    answer,     \* the answer it has decided on
    late        \* history: the key of the use was revoked before it arrived

vars == <<active, owner, presented, purpose, pc, answer, late>>
asked == <<owner, presented, purpose, late>>

Requests == Registrations \cup Uses
Answers == {"created", "conflict", "accepted", "revoked", "unauthorized",
            "limited", "invalid", "failed"}

Issued == {k \in Registrations : pc[k] = "done" /\ answer[k] = "created"}

\* The registration has inserted its row and not committed it.
Inserting(r) == pc[r] = "inserted"
\* The use has marked its key revoked and not committed that.
Revoking(u) == pc[u] = "revoking"

Go(r, to) == pc' = [pc EXCEPT ![r] = to]

\* The handler returns; the response is still to be written.
Answer(r, a) ==
    /\ answer' = [answer EXCEPT ![r] = a]
    /\ pc' = [pc EXCEPT ![r] = "reply"]

Init ==
    /\ active = {}
    /\ owner = [r \in Registrations |-> None]
    /\ presented = [u \in Uses |-> None]
    /\ purpose = [u \in Uses |-> "none"]
    /\ pc = [r \in Requests |-> "idle"]
    /\ answer = [r \in Requests |-> "none"]
    /\ late = [u \in Uses |-> FALSE]

-----------------------------------------------------------------------------
(* Register                                                                *)

BeginRegister(r, email) ==
    /\ pc[r] = "idle"
    /\ owner' = [owner EXCEPT ![r] = email]
    /\ Go(r, "limit")
    /\ UNCHANGED <<active, presented, purpose, answer, late>>

\* Who gets through to the database.  The request validator authenticates a use
\* first, and keyLimiter comes before its key is looked up; a registration is
\* checked against the API description (400), by the public limiter and by
\* regLimiter (429), and its email by validation.Email (400).
Limit(r) ==
    /\ pc[r] = "limit"
    /\ \/ Answer(r, "limited")
       \/ r \in Registrations /\ Answer(r, "invalid")
       \/ /\ Go(r, IF r \in Registrations THEN "lookup" ELSE "auth")
          /\ UNCHANGED answer
    /\ UNCHANGED <<active, asked>>

\* Faulty variant: a lookup that also finds the email's revoked keys.
LookupAnyKey(r) ==
    /\ pc[r] = "lookup"
    /\ IF \E k \in Registrations \ {r} : owner[k] = owner[r] /\ answer[k] = "created"
       THEN Answer(r, "conflict")
       ELSE Go(r, "insert") /\ UNCHANGED answer
    /\ UNCHANGED <<active, asked>>

\* SELECT ... WHERE email = ? AND revoked_at IS NULL.
Lookup(r) ==
    /\ pc[r] = "lookup"
    /\ IF \E k \in active : owner[k] = owner[r]
       THEN Answer(r, "conflict")
       ELSE Go(r, "insert") /\ UNCHANGED answer
    /\ UNCHANGED <<active, asked>>

\* Faulty variant: no unique index on the email of active keys.
InsertKeyUnindexed(r) ==
    /\ pc[r] = "insert"
    /\ Go(r, "inserted")
    /\ UNCHANGED <<active, answer, asked>>

\* Faulty variant: the key is handed out before its row is committed.
InsertKeyUncommitted(r) ==
    /\ pc[r] = "insert"
    /\ IF \E k \in active : owner[k] = owner[r]
       THEN Answer(r, "conflict")
       ELSE Answer(r, "created")
    /\ UNCHANGED <<active, asked>>

\* INSERT: waits for an uncommitted insert or revocation of the same email,
\* then fails with a unique violation if the email has an active key.
InsertKey(r) ==
    /\ pc[r] = "insert"
    /\ \A k \in Registrations : Inserting(k) => owner[k] # owner[r]
    /\ \A u \in Uses : Revoking(u) => owner[presented[u]] # owner[r]
    /\ IF \E k \in active : owner[k] = owner[r]
       THEN Answer(r, "conflict")
       ELSE Go(r, "inserted") /\ UNCHANGED answer
    /\ UNCHANGED <<active, asked>>

\* Faulty variant: the row is keyed by its email.
CommitKeyByEmail(r) ==
    /\ pc[r] = "inserted"
    /\ active' = active \cup {owner[r]}
    /\ Answer(r, "created")
    /\ UNCHANGED asked

CommitKey(r) ==
    /\ pc[r] = "inserted"
    /\ active' = active \cup {r}
    /\ Answer(r, "created")
    /\ UNCHANGED asked

-----------------------------------------------------------------------------
(* authenticate, and RevokeKey behind it                                   *)

BeginUse(u, k, p) ==
    /\ pc[u] = "idle"
    /\ k \in Issued
    /\ presented' = [presented EXCEPT ![u] = k]
    /\ purpose' = [purpose EXCEPT ![u] = p]
    /\ late' = [late EXCEPT ![u] = k \notin active]
    /\ Go(u, "limit")
    /\ UNCHANGED <<active, owner, answer>>

\* Past authentication the validator looks at path and body, and the handler at
\* what the API description cannot say: a write is accepted or a 400.
Proceed(u) ==
    IF purpose[u] = "revoke"
    THEN Go(u, "revoke") /\ UNCHANGED answer
    ELSE \E a \in {"accepted", "invalid"} : Answer(u, a)

\* Faulty variant: a lookup by hash alone, which finds revoked keys too.
AuthenticateByHash(u) ==
    /\ pc[u] = "auth"
    /\ Proceed(u)
    /\ UNCHANGED <<active, asked>>

\* SELECT ... WHERE key_hash = ? AND revoked_at IS NULL.
Authenticate(u) ==
    /\ pc[u] = "auth"
    /\ IF presented[u] \in active THEN Proceed(u) ELSE Answer(u, "unauthorized")
    /\ UNCHANGED <<active, asked>>

\* An error of the look-up is a security error like any other: 401, not 500.
LookupFails(u) ==
    /\ pc[u] = "auth"
    /\ Answer(u, "unauthorized")
    /\ UNCHANGED <<active, asked>>

\* Faulty variant: the UPDATE does not ask for revoked_at IS NULL.
RevokeByHash(u) ==
    /\ pc[u] = "revoke"
    /\ \A v \in Uses : Revoking(v) => presented[v] # presented[u]
    /\ Go(u, "revoking")
    /\ UNCHANGED <<active, answer, asked>>

\* UPDATE ... SET revoked_at WHERE key_hash = ? AND revoked_at IS NULL: waits for
\* an uncommitted revocation of the row, then looks at the row again.
RevokeRow(u) ==
    /\ pc[u] = "revoke"
    /\ \A v \in Uses : Revoking(v) => presented[v] # presented[u]
    /\ IF presented[u] \in active
       THEN Go(u, "revoking") /\ UNCHANGED answer
       ELSE Answer(u, "unauthorized")
    /\ UNCHANGED <<active, asked>>

CommitRevoke(u) ==
    /\ Revoking(u)
    /\ active' = active \ {presented[u]}
    /\ Answer(u, "revoked")
    /\ UNCHANGED asked

-----------------------------------------------------------------------------
(* Answers and failures                                                    *)

Reply(r) ==
    /\ pc[r] = "reply"
    /\ Go(r, "done")
    /\ UNCHANGED <<active, answer, asked>>

\* A statement or commit fails and its transaction is rolled back: 500.
Fail(r) ==
    /\ pc[r] \in {"lookup", "insert", "inserted", "revoke", "revoking"}
    /\ Answer(r, "failed")
    /\ UNCHANGED <<active, asked>>

\* The connection breaks while the transaction commits: the row is written and the
\* handler sees an error, 500 again.
CommitUnseen(r) ==
    /\ pc[r] \in {"inserted", "revoking"}
    /\ active' = IF r \in Registrations THEN active \cup {r} ELSE active \ {presented[r]}
    /\ Answer(r, "failed")
    /\ UNCHANGED asked

Pending == {r \in Requests : pc[r] \notin {"idle", "done", "lost"}}

\* Some requests under way get no answer: their process ends, or the response
\* cannot be written.  What is not committed is rolled back.
Crash(S) ==
    /\ S \subseteq Pending
    /\ pc' = [r \in Requests |-> IF r \in S THEN "lost" ELSE pc[r]]
    /\ UNCHANGED <<active, answer, asked>>

\* Clients may ask for nothing more.
Quiescent ==
    /\ \A r \in Requests : pc[r] \in {"idle", "done", "lost"}
    /\ UNCHANGED vars

RegisterStep(r) == Lookup(r) \/ InsertKey(r) \/ CommitKey(r)
UseStep(u) == Authenticate(u) \/ LookupFails(u) \/ RevokeRow(u) \/ CommitRevoke(u)

Next ==
    \/ \E r \in Registrations, email \in Emails : BeginRegister(r, email)
    \/ \E u \in Uses, k \in Registrations, p \in {"write", "revoke"} : BeginUse(u, k, p)
    \/ \E r \in Registrations : RegisterStep(r)
    \/ \E u \in Uses : UseStep(u)
    \/ \E r \in Requests : Limit(r) \/ Reply(r) \/ Fail(r) \/ CommitUnseen(r)
    \/ \E S \in SUBSET Pending : Crash(S)
    \/ Quiescent

Spec == Init /\ [][Next]_vars

-----------------------------------------------------------------------------
(* Properties                                                              *)

TypeOK ==
    /\ active \subseteq Registrations
    /\ owner \in [Registrations -> Emails \cup {None}]
    /\ presented \in [Uses -> Registrations \cup {None}]
    /\ purpose \in [Uses -> {"none", "write", "revoke"}]
    /\ pc \in [Requests -> {"idle", "limit", "lookup", "insert", "inserted", "auth",
                            "revoke", "revoking", "reply", "done", "lost"}]
    /\ answer \in [Requests -> Answers \cup {"none"}]
    /\ late \in [Uses -> BOOLEAN]

\* However many registrations of an email pass the lookup together, at most one
\* row with that email is active or about to be.
OneActiveKey ==
    \A k, l \in Registrations :
        /\ k \in active \/ Inserting(k)
        /\ l \in active \/ Inserting(l)
        /\ owner[k] = owner[l]
        => k = l

\* Of the requests that revoke a key, at most one is told it did.
RevokedOnce ==
    \A u, v \in Uses :
        answer[u] = "revoked" /\ answer[v] = "revoked" /\ presented[u] = presented[v]
            => u = v

\* A request that arrives after its key was revoked neither writes nor revokes,
\* whatever was in flight when the key was revoked.
LateRequestsRefused ==
    \A u \in Uses : late[u] => answer[u] \notin {"accepted", "revoked"}

\* What a client is told about a key is so, through lost answers, broken commits
\* and restarts: a key that was handed out stays active until a revocation, and a
\* key that is active was handed out, or its maker's answer was lost or a 500.
KeysAsAnswered ==
    \A k \in Registrations :
        /\ answer[k] = "created" /\ k \notin active =>
              \E u \in Uses : presented[u] = k /\ answer[u] \in {"revoked", "failed"}
        /\ k \in active => answer[k] \in {"created", "failed"}

\* The endpoints are the atomic registry: a registration is refused only if its
\* email had an active key, and a use accepted only if its key was active, at
\* some instant between the request and its answer.
Registry == INSTANCE KeyRegistry WITH
    result <- answer,
    replied <- [r \in Requests |-> pc[r] = "done"]
ImplementsRegistry == Registry!Spec
=============================================================================
