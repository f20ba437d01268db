---------------------------- MODULE KeyRegistry ----------------------------
(***************************************************************************)
(* What the key endpoints of cmd/api promise: a registry of API keys in    *)
(* which every request takes effect at one instant between its arrival and *)
(* its answer.  A registration makes a key only if its email has no active *)
(* key, and is a conflict only if it has; an authenticated request is      *)
(* accepted only while its key is active, and a revocation ends the key    *)
(* for good.  A request that is answered "failed" may have had its effect. *)
(***************************************************************************)
CONSTANTS
    Registrations,  \* POST /auth/register requests; each names the key it makes
    Uses,           \* requests carrying an X-API-Key header
    Emails,         \* addresses keys are registered for
    None            \* no email, no key

VARIABLES
    active,     \* the keys that are registered and not revoked
    owner,      \* the email each registration asks for
    presented,  \* the key each use carries
    purpose,    \* what each use is for: "write" or "revoke"
    result,     \* what has been decided for each request, "none" before
    replied     \* whether the client has the answer

vars == <<active, owner, presented, purpose, result, replied>>

Requests == Registrations \cup Uses

\* The keys some client holds: a key is shown once, in the answer that made it.
Issued == {k \in Registrations : replied[k] /\ result[k] = "created"}

Taken(email) == \E k \in active : owner[k] = email

Init ==
    /\ active = {}
    /\ owner = [r \in Registrations |-> None]
    /\ presented = [u \in Uses |-> None]
    /\ purpose = [u \in Uses |-> "none"]
    /\ result = [r \in Requests |-> "none"]
    /\ replied = [r \in Requests |-> FALSE]

AskKey(r, email) ==
    /\ owner[r] = None
    /\ owner' = [owner EXCEPT ![r] = email]
    /\ UNCHANGED <<active, presented, purpose, result, replied>>

AskUse(u, k, p) ==
    /\ presented[u] = None
    /\ k \in Issued
    /\ presented' = [presented EXCEPT ![u] = k]
    /\ purpose' = [purpose EXCEPT ![u] = p]
    /\ UNCHANGED <<active, owner, result, replied>>

Decide(r, outcome) ==
    /\ result[r] = "none"
    /\ result' = [result EXCEPT ![r] = outcome]
    /\ UNCHANGED <<owner, presented, purpose, replied>>

Create(r) ==
    /\ owner[r] # None
    /\ ~Taken(owner[r])
    /\ active' = active \cup {r}
    /\ \E outcome \in {"created", "failed"} : Decide(r, outcome)

Conflict(r) ==
    /\ owner[r] # None
    /\ Taken(owner[r])
    /\ Decide(r, "conflict")
    /\ UNCHANGED active

Accept(u) ==
    /\ purpose[u] = "write"
    /\ presented[u] \in active
    /\ Decide(u, "accepted")
    /\ UNCHANGED active

Revoke(u) ==
    /\ purpose[u] = "revoke"
    /\ presented[u] \in active
    /\ active' = active \ {presented[u]}
    /\ \E outcome \in {"revoked", "failed"} : Decide(u, outcome)

\* A key that is not active is unauthorized, and so is one the database fails to
\* find: the answer 401 says nothing about the key.
Deny(u) ==
    /\ presented[u] # None
    /\ Decide(u, "unauthorized")
    /\ UNCHANGED active

\* A request that is over its rate, malformed, or failed by the database.
Decline(r) ==
    /\ r \in Registrations => owner[r] # None
    /\ r \in Uses => presented[r] # None
    /\ \E outcome \in {"limited", "invalid", "failed"} : Decide(r, outcome)
    /\ UNCHANGED active

Reply(r) ==
    /\ result[r] # "none"
    /\ ~replied[r]
    /\ replied' = [replied EXCEPT ![r] = TRUE]
    /\ UNCHANGED <<active, owner, presented, purpose, result>>

Next ==
    \/ \E r \in Registrations, email \in Emails : AskKey(r, email)
    \/ \E u \in Uses, k \in Registrations, p \in {"write", "revoke"} : AskUse(u, k, p)
    \/ \E r \in Registrations : Create(r) \/ Conflict(r)
    \/ \E u \in Uses : Accept(u) \/ Revoke(u) \/ Deny(u)
    \/ \E r \in Requests : Decline(r) \/ Reply(r)

Spec == Init /\ [][Next]_vars
=============================================================================
