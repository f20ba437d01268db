-------------------------- MODULE ProfileRegister --------------------------
(***************************************************************************)
(* What the profile store promises its clients: one register per place.    *)
(* Every request takes effect at one instant after it was submitted, at    *)
(* most once, as a function of its own input and of the row it finds at    *)
(* that instant; it is acknowledged only after it has taken effect. No     *)
(* transaction, lock, retry or audit entry is visible here.                *)
(***************************************************************************)
EXTENDS Profiles

CONSTANTS
    Places,
    Patchers,   \* PATCH /places/{id}/accessibility requests
    Ingesters,  \* profile writes of an ingestion run
    Posters,    \* POST /places requests
    NoInput     \* a request that has not been submitted, or a POST without
                \* a profile

VARIABLES
    row,        \* the profile of each place
    target,     \* the place each request names, or NoInput
    input,      \* the patch or the profile each request carries, or NoInput
    applied,    \* requests that have taken effect
    acked       \* requests answered with success

vars == <<row, target, input, applied, acked>>

Clients == Patchers \cup Ingesters \cup Posters

\* A place may have a profile from an earlier import.
Init ==
    /\ row \in [Places -> {NoRow} \cup {Ingested(NoRow, c) : c \in Content}]
    /\ target = [x \in Clients |-> NoInput]
    /\ input = [x \in Clients |-> NoInput]
    /\ applied = {}
    /\ acked = {}

Submit(x, p) ==
    /\ target[x] = NoInput
    /\ target' = [target EXCEPT ![x] = p]
    /\ \E d \in Patch \cup Content \cup {NoInput} : input' = [input EXCEPT ![x] = d]
    /\ UNCHANGED <<row, applied, acked>>

TakeEffect(x, new) ==
    /\ x \notin applied
    /\ row' = [row EXCEPT ![target[x]] = new]
    /\ applied' = applied \cup {x}
    /\ UNCHANGED <<target, input, acked>>

\* A PATCH merges into the row as it is at this instant.
ApplyPatch(r) ==
    /\ target[r] \in Places
    /\ TakeEffect(r, Patched(row[target[r]], input[r], r))

\* An ingestion replaces the row as it is at this instant.
ApplyIngestion(i) ==
    /\ target[i] \in Places
    /\ TakeEffect(i, Ingested(row[target[i]], input[i]))

\* A POST creates the place, with the first row of its profile or with none.
Post(q, p) ==
    /\ q \notin applied
    /\ target[q] = NoInput
    /\ row[p] = NoRow
    /\ \E d \in Content \cup {NoInput} :
          /\ input' = [input EXCEPT ![q] = d]
          /\ row' = IF d = NoInput THEN row
                    ELSE [row EXCEPT ![p] = Patched(NoRow, d, q)]
    /\ target' = [target EXCEPT ![q] = p]
    /\ applied' = applied \cup {q}
    /\ UNCHANGED acked

\* Only a request that has taken effect is acknowledged.
Acknowledge(x) ==
    /\ x \in applied \ acked
    /\ acked' = acked \cup {x}
    /\ UNCHANGED <<row, target, input, applied>>

Next ==
    \/ \E x \in Patchers \cup Ingesters, p \in Places : Submit(x, p)
    \/ \E r \in Patchers : ApplyPatch(r)
    \/ \E i \in Ingesters : ApplyIngestion(i)
    \/ \E q \in Posters, p \in Places : Post(q, p)
    \/ \E x \in Clients : Acknowledge(x)

Spec == Init /\ [][Next]_vars
=============================================================================
