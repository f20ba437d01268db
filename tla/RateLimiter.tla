---------------------------- MODULE RateLimiter ----------------------------
(***************************************************************************)
(* middleware.RateLimiter: one token bucket per key in a sync.Map, created *)
(* on the key's first request, and a goroutine that periodically evicts    *)
(* the buckets that are full again.  Requests and the evictor interleave   *)
(* between any two operations on the map or on a bucket.                   *)
(*                                                                         *)
(* Time is counted in ticks; a bucket gains one unit a tick up to          *)
(* Burst * Period, and a request takes Period units: one token is refilled *)
(* every Period ticks.  ideal[k] is a bucket of the same rate and burst    *)
(* that is never evicted: the limit the configuration states.              *)
(***************************************************************************)
EXTENDS Integers

CONSTANTS
    Keys,       \* rate-limited keys: IP addresses or key hashes
    Callers,    \* requests being served at the same time
    Period,     \* ticks to refill one token
    Burst,      \* tokens a full bucket holds
    Horizon,    \* bound: ticks in a behaviour
    MaxBuckets, \* bound: buckets ever made
    MaxGrants,  \* bound: requests granted in a behaviour
    None        \* no bucket, no key

ASSUME LimiterAssumption ==
    /\ Period \in Nat \ {0}
    /\ Burst \in Nat \ {0}
    /\ Horizon \in Nat
    /\ MaxBuckets \in Nat
    /\ MaxGrants \in Nat
    /\ None \notin Keys \cup Nat

VARIABLES
    now,        \* ticks since the start
    table,      \* the sync.Map: the bucket of each key
    level,      \* units in each bucket ever made
    made,       \* buckets made so far
    pc,         \* "idle", "missing" (Load found none) or "have" for each caller
    key,        \* the key of the caller's request
    bucket,     \* the bucket it holds
    sweeping,   \* the key the evictor has found full, or None
    ideal,      \* history: units in the ideal bucket of each key, may be negative
    grants,     \* history: requests granted
    evicted,    \* history: buckets the evictor has deleted
    raced,      \* history: grants of each key that overlapped an eviction
    refused     \* history: a key was refused while its ideal bucket had a token

vars == <<now, table, level, made, pc, key, bucket, sweeping, ideal, grants,
          evicted, raced, refused>>
history == <<ideal, grants, evicted, raced, refused>>

Full == Burst * Period

\* Faulty variant: tokens pile up beyond the burst.
RefilledUncapped(units) == units + 1

Refilled(units) == IF units < Full THEN units + 1 ELSE units

Init ==
    /\ now = 0
    /\ table = [k \in Keys |-> None]
    /\ level = [b \in 1 .. MaxBuckets |-> Full]
    /\ made = 0
    /\ pc = [c \in Callers |-> "idle"]
    /\ key = [c \in Callers |-> None]
    /\ bucket = [c \in Callers |-> None]
    /\ sweeping = None
    /\ ideal = [k \in Keys |-> Full]
    /\ grants = 0
    /\ evicted = {}
    /\ raced = [k \in Keys |-> 0]
    /\ refused = FALSE

\* Time passes; every bucket that has been made refills.
Tick ==
    /\ now < Horizon
    /\ now' = now + 1
    /\ level' = [b \in 1 .. MaxBuckets |-> Refilled(level[b])]
    /\ ideal' = [k \in Keys |-> Refilled(ideal[k])]
    /\ UNCHANGED <<table, made, pc, key, bucket, sweeping, grants, evicted, raced,
                   refused>>

\* Load finds the key's bucket, or nothing.
Load(c) ==
    /\ pc[c] = "idle"
    /\ \E k \in Keys :
          /\ key' = [key EXCEPT ![c] = k]
          /\ bucket' = [bucket EXCEPT ![c] = table[k]]
          /\ pc' = [pc EXCEPT ![c] = IF table[k] = None THEN "missing" ELSE "have"]
    /\ UNCHANGED <<now, table, level, made, sweeping, history>>

\* Faulty variant: Store, so a second caller replaces the first one's bucket.
Store(c) ==
    /\ pc[c] = "missing"
    /\ made < MaxBuckets
    /\ made' = made + 1
    /\ table' = [table EXCEPT ![key[c]] = made + 1]
    /\ bucket' = [bucket EXCEPT ![c] = made + 1]
    /\ pc' = [pc EXCEPT ![c] = "have"]
    /\ UNCHANGED <<now, level, key, sweeping, history>>

\* LoadOrStore: the new, full bucket is stored unless another caller was first;
\* either way the caller goes on with the bucket that is in the map.
LoadOrStore(c) ==
    /\ pc[c] = "missing"
    /\ IF table[key[c]] = None
       THEN /\ made < MaxBuckets
            /\ made' = made + 1
            /\ table' = [table EXCEPT ![key[c]] = made + 1]
            /\ bucket' = [bucket EXCEPT ![c] = made + 1]
       ELSE /\ bucket' = [bucket EXCEPT ![c] = table[key[c]]]
            /\ UNCHANGED <<table, made>>
    /\ pc' = [pc EXCEPT ![c] = "have"]
    /\ UNCHANGED <<now, level, key, sweeping, history>>

\* The caller's bucket is being evicted, or has been.
Overlaps(c) == sweeping = key[c] \/ bucket[c] \in evicted

\* The caller's bucket has a token: the request takes it and is served.
Grant(c) ==
    /\ level[bucket[c]] >= Period
    /\ level' = [level EXCEPT ![bucket[c]] = @ - Period]
    /\ ideal' = [ideal EXCEPT ![key[c]] = @ - Period]
    /\ raced' = [raced EXCEPT ![key[c]] = IF Overlaps(c) THEN @ + 1 ELSE @]
    /\ grants' = grants + 1
    /\ UNCHANGED refused

\* Faulty variant: a refused request still reserves the next token.
RefuseReserving(c) ==
    /\ level[bucket[c]] < Period
    /\ level' = [level EXCEPT ![bucket[c]] = @ - Period]
    /\ refused' = (refused \/ ideal[key[c]] >= Period)
    /\ UNCHANGED <<ideal, raced, grants>>

\* It has none: 429, and the bucket is left as it is.
Refuse(c) ==
    /\ level[bucket[c]] < Period
    /\ refused' = (refused \/ ideal[key[c]] >= Period)
    /\ UNCHANGED <<level, ideal, raced, grants>>

\* Allow on the bucket the caller holds, whether or not it is still in the map.
Allow(c) ==
    /\ pc[c] = "have"
    /\ grants < MaxGrants
    /\ pc' = [pc EXCEPT ![c] = "idle"]
    /\ key' = [key EXCEPT ![c] = None]
    /\ bucket' = [bucket EXCEPT ![c] = None]
    /\ Grant(c) \/ Refuse(c)
    /\ UNCHANGED <<now, table, made, sweeping, evicted>>

\* The evictor's Range comes to k and finds its bucket full ...
SweepCheck(k) ==
    /\ sweeping = None
    /\ table[k] # None
    /\ level[table[k]] >= Full
    /\ sweeping' = k
    /\ UNCHANGED <<now, table, level, made, pc, key, bucket, history>>

\* ... and deletes the key, without looking again.
SweepDelete ==
    /\ sweeping # None
    /\ evicted' = evicted \cup {table[sweeping]}
    /\ table' = [table EXCEPT ![sweeping] = None]
    /\ sweeping' = None
    /\ UNCHANGED <<now, level, made, pc, key, bucket, ideal, grants, raced, refused>>

Next ==
    \/ Tick
    \/ \E c \in Callers : Load(c) \/ LoadOrStore(c) \/ Allow(c)
    \/ \E k \in Keys : SweepCheck(k)
    \/ SweepDelete

Spec == Init /\ [][Next]_vars

-----------------------------------------------------------------------------
(* Properties                                                              *)

TypeOK ==
    /\ now \in 0 .. Horizon
    /\ table \in [Keys -> 1 .. made \cup {None}]
    /\ level \in [1 .. MaxBuckets -> 0 .. Full]
    /\ made \in 0 .. MaxBuckets
    /\ pc \in [Callers -> {"idle", "missing", "have"}]
    /\ key \in [Callers -> Keys \cup {None}]
    /\ bucket \in [Callers -> 1 .. made \cup {None}]
    /\ sweeping \in Keys \cup {None}
    /\ ideal \in [Keys -> Int]
    /\ grants \in 0 .. MaxGrants
    /\ evicted \subseteq 1 .. made
    /\ raced \in [Keys -> 0 .. MaxGrants]
    /\ refused \in BOOLEAN

\* A request is refused only if the key really has no token, even when the
\* evictor takes the bucket away under it.
RefusesOnlyWhenSpent == ~refused

\* A key is granted more than its rate and burst allow only by as many requests
\* as overlapped an eviction, taking their token between the evictor's check and
\* its delete or from a bucket already deleted: first requests that arrive at
\* once share one bucket, and eviction forgives nothing but that race.
OverAdmitsOnlyRaced == \A k \in Keys : ideal[k] >= -(Period * raced[k])
=============================================================================
