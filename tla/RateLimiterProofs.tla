------------------------- MODULE RateLimiterProofs -------------------------
(***************************************************************************)
(* Theorems about RateLimiter, for any keys, callers, rate and burst: a    *)
(* key that has a token is never refused, and a key is granted more than   *)
(* its rate and burst only by as many requests as overlapped an eviction.  *)
(***************************************************************************)
EXTENDS RateLimiter, TLAPS

\* A caller past Load knows its key, and past LoadOrStore its bucket.
CallersKnow ==
    \A c \in Callers :
        /\ pc[c] # "idle" => key[c] \in Keys
        /\ pc[c] = "have" => bucket[c] \in 1 .. made

\* A bucket is one key's: in the table, in a caller's hands, or both; one in a
\* caller's hands that is not in the table has been evicted.
OneKeyEach ==
    /\ \A k, l \in Keys : table[k] # None /\ table[k] = table[l] => k = l
    /\ \A c \in Callers, k \in Keys :
          pc[c] = "have" /\ bucket[c] = table[k] => key[c] = k
    /\ \A c, d \in Callers :
          pc[c] = "have" /\ pc[d] = "have" /\ bucket[c] = bucket[d] => key[c] = key[d]
    /\ \A c \in Callers :
          pc[c] = "have" => bucket[c] = table[key[c]] \/ bucket[c] \in evicted
    /\ \A k \in Keys : table[k] \notin evicted
    /\ sweeping # None => table[sweeping] # None

UnmadeAreFull == \A b \in 1 .. MaxBuckets : b > made => level[b] = Full

\* What eviction has not forgiven key k.
Forgiven(k) == ideal[k] + Period * raced[k]

\* A bucket of a key holds at least what the ideal one does, and the one in the
\* table no more than that and what was forgiven.
LevelsFollowIdeal ==
    /\ \A k \in Keys : ideal[k] <= Full
    /\ \A c \in Callers : pc[c] = "have" => level[bucket[c]] >= ideal[key[c]]
    /\ \A k \in Keys :
          /\ table[k] # None =>
                level[table[k]] >= ideal[k] /\ level[table[k]] <= Forgiven(k)
          /\ table[k] = None \/ sweeping = k => Forgiven(k) >= Full
          /\ raced[k] <= grants

Inv ==
    /\ TypeOK
    /\ CallersKnow
    /\ OneKeyEach
    /\ UnmadeAreFull
    /\ LevelsFollowIdeal
    /\ RefusesOnlyWhenSpent

LEMMA FullType == Full \in Nat /\ Full >= Period /\ Period \in Nat /\ Period > 0
<1>1. Burst \in Nat \ {0} /\ Period \in Nat \ {0}
  BY LimiterAssumption
<1>2. Burst * Period >= Period /\ Burst * Period \in Nat
  BY <1>1
<1> QED BY <1>1, <1>2 DEF Full

LEMMA Products ==
  ASSUME NEW n \in Nat
  PROVE  /\ Period * n \in Nat
         /\ Period * (n + 1) = Period * n + Period
BY FullType

LEMMA InvImpliesOver == ASSUME Inv PROVE OverAdmitsOnlyRaced
<1> SUFFICES ASSUME NEW k \in Keys PROVE ideal[k] >= -(Period * raced[k])
  BY DEF OverAdmitsOnlyRaced
<1>1. ideal[k] \in Int /\ raced[k] \in Nat
  BY DEF Inv, TypeOK
<1> DEFINE r == Period * raced[k]
<1>2. r \in Nat
  BY <1>1, Products
<1>3. Forgiven(k) >= 0
  <2>1. CASE table[k] = None
    BY <2>1, <1>1, <1>2, FullType DEF Inv, LevelsFollowIdeal, Forgiven
  <2>2. CASE table[k] # None
    <3>1. table[k] \in 1 .. made /\ made \in 0 .. MaxBuckets /\ MaxBuckets \in Nat
      BY <2>2, LimiterAssumption DEF Inv, TypeOK
    <3>2. level[table[k]] \in Nat /\ level[table[k]] <= Forgiven(k)
      BY <2>2, <3>1 DEF Inv, TypeOK, LevelsFollowIdeal
    <3> QED BY <3>2, <1>1, <1>2 DEF Forgiven
  <2> QED BY <2>1, <2>2
<1> HIDE DEF r
<1>4. ideal[k] + r >= 0
  BY <1>3 DEF Forgiven, r
<1>5. ideal[k] >= -r
  BY <1>1, <1>2, <1>4
<1> QED BY <1>5 DEF r

LEMMA InitInv == ASSUME Init PROVE Inv
<1>1. TypeOK
  <2>1. now \in 0 .. Horizon /\ made \in 0 .. MaxBuckets /\ grants \in 0 .. MaxGrants
    BY LimiterAssumption DEF Init
  <2>2. level \in [1 .. MaxBuckets -> 0 .. Full] /\ ideal \in [Keys -> Int]
    BY FullType DEF Init
  <2>3. raced \in [Keys -> 0 .. MaxGrants]
    BY LimiterAssumption DEF Init
  <2>4. /\ table \in [Keys -> 1 .. made \cup {None}]
        /\ bucket \in [Callers -> 1 .. made \cup {None}]
        /\ key \in [Callers -> Keys \cup {None}]
        /\ pc \in [Callers -> {"idle", "missing", "have"}]
    BY DEF Init
  <2>5. sweeping \in Keys \cup {None} /\ refused \in BOOLEAN /\ evicted \subseteq 1 .. made
    BY DEF Init
  <2> QED BY <2>1, <2>2, <2>3, <2>4, <2>5 DEF TypeOK
<1>2. CallersKnow /\ OneKeyEach /\ UnmadeAreFull /\ RefusesOnlyWhenSpent
  BY DEF Init, CallersKnow, OneKeyEach, UnmadeAreFull, RefusesOnlyWhenSpent
<1>3. Period * 0 = 0
  BY FullType
<1>4. LevelsFollowIdeal
  BY <1>3, FullType DEF Init, LevelsFollowIdeal, Forgiven
<1> QED BY <1>1, <1>2, <1>4 DEF Inv

LEMMA RefilledType ==
  ASSUME NEW i \in Int, i <= Full
  PROVE  /\ Refilled(i) \in Int /\ Refilled(i) <= Full /\ Refilled(i) >= i
         /\ Refilled(i) <= i + 1
         /\ i < Full => Refilled(i) = i + 1
         /\ i = Full => Refilled(i) = Full
BY FullType DEF Refilled

LEMMA TickInv == ASSUME Inv, Tick PROVE Inv'
<1> USE DEF Tick
<1>1. \A b \in 1 .. MaxBuckets : level[b] \in 0 .. Full /\ level'[b] = Refilled(level[b])
  BY DEF Inv, TypeOK
<1>2. \A k \in Keys :
        /\ ideal[k] \in Int /\ ideal[k] <= Full /\ ideal'[k] = Refilled(ideal[k])
        /\ Period * raced[k] \in Nat /\ raced'[k] = raced[k]
  <2> SUFFICES ASSUME NEW k \in Keys
               PROVE  /\ ideal[k] \in Int /\ ideal[k] <= Full /\ ideal'[k] = Refilled(ideal[k])
                      /\ Period * raced[k] \in Nat /\ raced'[k] = raced[k]
    OBVIOUS
  <2>1. raced[k] \in Nat
    BY DEF Inv, TypeOK
  <2>2. ideal[k] \in Int /\ ideal[k] <= Full
    BY DEF Inv, TypeOK, LevelsFollowIdeal
  <2> QED BY <2>1, <2>2, Products
<1>3. TypeOK'
  <2>1. level' \in [1 .. MaxBuckets -> 0 .. Full]
    <3>1. \A b \in 1 .. MaxBuckets : Refilled(level[b]) \in 0 .. Full
      <4> SUFFICES ASSUME NEW b \in 1 .. MaxBuckets
                   PROVE  Refilled(level[b]) \in 0 .. Full
        OBVIOUS
      <4>1. level[b] \in 0 .. Full
        BY <1>1
      <4> QED BY <4>1, FullType DEF Refilled
    <3>2. level' = [b \in 1 .. MaxBuckets |-> Refilled(level[b])]
      BY DEF Tick
    <3> HIDE DEF Tick
    <3> QED BY <3>1, <3>2
  <2>2. ideal' \in [Keys -> Int]
    BY <1>2, RefilledType
  <2>3. now' \in 0 .. Horizon
    BY LimiterAssumption DEF Inv, TypeOK
  <2> QED BY <2>1, <2>2, <2>3 DEF Inv, TypeOK
<1>4. CallersKnow' /\ OneKeyEach' /\ RefusesOnlyWhenSpent'
  BY DEF Inv, CallersKnow, OneKeyEach, RefusesOnlyWhenSpent
<1>5. UnmadeAreFull'
  BY <1>1, FullType, RefilledType DEF Inv, UnmadeAreFull
<1>6. \A b \in 1 .. MaxBuckets, k \in Keys :
        level[b] >= ideal[k] => level'[b] >= ideal'[k]
  BY <1>1, <1>2, FullType DEF Refilled
<1>7. \A b \in 1 .. MaxBuckets, k \in Keys :
        level[b] <= Forgiven(k) => level'[b] <= Forgiven(k)'
  <2> SUFFICES ASSUME NEW b \in 1 .. MaxBuckets, NEW k \in Keys, level[b] <= Forgiven(k)
               PROVE  level'[b] <= Forgiven(k)'
    OBVIOUS
  <2> DEFINE r == Period * raced[k]
  <2>1. r \in Nat /\ level[b] <= ideal[k] + r /\ Forgiven(k)' = ideal'[k] + r
    BY <1>2 DEF Forgiven
  <2> HIDE DEF r
  <2>2. level'[b] <= ideal'[k] + r
    BY <2>1, <1>1, <1>2, FullType DEF Refilled
  <2> QED BY <2>1, <2>2
<1>8. \A k \in Keys : Forgiven(k) >= Full => Forgiven(k)' >= Full
  <2> SUFFICES ASSUME NEW k \in Keys, Forgiven(k) >= Full PROVE Forgiven(k)' >= Full
    OBVIOUS
  <2> DEFINE r == Period * raced[k]
  <2>1. r \in Nat /\ ideal[k] + r >= Full /\ Forgiven(k)' = ideal'[k] + r
    BY <1>2 DEF Forgiven
  <2> HIDE DEF r
  <2>2. ideal'[k] + r >= Full
    BY <2>1, <1>2, RefilledType, FullType
  <2> QED BY <2>1, <2>2
<1>9. LevelsFollowIdeal'
  <2>1. \A k \in Keys : ideal'[k] <= Full
    BY <1>2, RefilledType
  <2>2. \A c \in Callers : pc[c] = "have" => bucket[c] \in 1 .. MaxBuckets /\ key[c] \in Keys
    BY LimiterAssumption DEF Inv, TypeOK, CallersKnow
  <2>3. \A k \in Keys : table[k] # None => table[k] \in 1 .. MaxBuckets
    BY LimiterAssumption DEF Inv, TypeOK
  <2>4. \A c \in Callers : pc[c] = "have" => level'[bucket[c]] >= ideal'[key[c]]
    BY <2>2, <1>6 DEF Inv, LevelsFollowIdeal
  <2>5. \A k \in Keys : table[k] # None =>
            level'[table[k]] >= ideal'[k] /\ level'[table[k]] <= Forgiven(k)'
    BY <2>3, <1>6, <1>7 DEF Inv, LevelsFollowIdeal
  <2> QED BY <2>1, <2>4, <2>5, <1>8 DEF Inv, LevelsFollowIdeal
<1> QED BY <1>3, <1>4, <1>5, <1>9 DEF Inv

LEMMA LoadInv == ASSUME Inv, NEW c \in Callers, Load(c) PROVE Inv'
<1>1. PICK k \in Keys :
          /\ key' = [key EXCEPT ![c] = k]
          /\ bucket' = [bucket EXCEPT ![c] = table[k]]
          /\ pc' = [pc EXCEPT ![c] = IF table[k] = None THEN "missing" ELSE "have"]
  BY DEF Load
<1>2. UNCHANGED <<now, table, level, made, sweeping, history>>
  BY DEF Load
<1>3. TypeOK' /\ CallersKnow'
  BY <1>1, <1>2 DEF history, Inv, TypeOK, CallersKnow
<1>4. OneKeyEach'
  BY <1>1, <1>2 DEF history, Inv, TypeOK, OneKeyEach
<1>5. LevelsFollowIdeal'
  BY <1>1, <1>2 DEF history, Inv, TypeOK, LevelsFollowIdeal, Forgiven
<1> QED BY <1>2, <1>3, <1>4, <1>5 DEF history, Inv, UnmadeAreFull, RefusesOnlyWhenSpent

LEMMA LoadOrStoreInv == ASSUME Inv, NEW c \in Callers, LoadOrStore(c) PROVE Inv'
<1>1. key[c] \in Keys /\ pc[c] = "missing" /\ made \in Nat /\ MaxBuckets \in Nat
  BY LimiterAssumption DEF LoadOrStore, Inv, TypeOK, CallersKnow
<1>2. CASE table[key[c]] # None
  <2>1. /\ bucket' = [bucket EXCEPT ![c] = table[key[c]]]
        /\ pc' = [pc EXCEPT ![c] = "have"]
        /\ UNCHANGED <<now, table, made, level, key, sweeping, history>>
    BY <1>2 DEF LoadOrStore
  <2>2. TypeOK' /\ CallersKnow'
    BY <1>1, <1>2, <2>1 DEF history, Inv, TypeOK, CallersKnow
  <2>3. OneKeyEach'
    BY <1>1, <1>2, <2>1 DEF history, Inv, TypeOK, OneKeyEach
  <2>4. LevelsFollowIdeal'
    BY <1>1, <1>2, <2>1 DEF history, Inv, TypeOK, LevelsFollowIdeal, Forgiven
  <2> QED BY <2>1, <2>2, <2>3, <2>4 DEF history, Inv, UnmadeAreFull, RefusesOnlyWhenSpent
<1>3. CASE table[key[c]] = None
  <2>1. /\ made < MaxBuckets /\ made' = made + 1
        /\ table' = [table EXCEPT ![key[c]] = made + 1]
        /\ bucket' = [bucket EXCEPT ![c] = made + 1]
        /\ pc' = [pc EXCEPT ![c] = "have"]
        /\ UNCHANGED <<now, level, key, sweeping, history>>
    BY <1>3 DEF LoadOrStore
  <2>2. made + 1 \in 1 .. MaxBuckets /\ made + 1 \notin 1 .. made /\ made + 1 # None
    BY <1>1, <2>1, LimiterAssumption
  <2>3. level[made + 1] = Full
    BY <1>1, <2>2 DEF Inv, UnmadeAreFull
  <2>4. /\ \A k \in Keys : table[k] # None => table[k] \in 1 .. made
        /\ \A d \in Callers : pc[d] = "have" => bucket[d] \in 1 .. made
        /\ evicted \subseteq 1 .. made
    BY DEF Inv, TypeOK, CallersKnow
  <2>5. TypeOK'
    <3>1. table' \in [Keys -> 1 .. made' \cup {None}]
      BY <1>1, <2>1 DEF Inv, TypeOK
    <3>2. bucket' \in [Callers -> 1 .. made' \cup {None}]
      BY <1>1, <2>1 DEF Inv, TypeOK
    <3>3. pc' \in [Callers -> {"idle", "missing", "have"}] /\ made' \in 0 .. MaxBuckets
      BY <1>1, <2>1, <2>2 DEF Inv, TypeOK
    <3>4. evicted' \subseteq 1 .. made'
      BY <1>1, <2>1, <2>4 DEF history
    <3> QED BY <2>1, <3>1, <3>2, <3>3, <3>4 DEF history, Inv, TypeOK
  <2>6. CallersKnow'
    BY <1>1, <2>1, <2>2, <2>4 DEF history, Inv, TypeOK, CallersKnow
  <2>7. OneKeyEach'
    <3>1. /\ \A k \in Keys : table'[k] = IF k = key[c] THEN made + 1 ELSE table[k]
          /\ \A k \in Keys : table[k] # made + 1
          /\ \A d \in Callers : bucket'[d] = IF d = c THEN made + 1 ELSE bucket[d]
          /\ \A d \in Callers : pc[d] = "have" => bucket[d] # made + 1
          /\ \A d \in Callers : pc'[d] = IF d = c THEN "have" ELSE pc[d]
          /\ made + 1 \notin evicted /\ key' = key /\ evicted' = evicted /\ sweeping' = sweeping
      BY <2>1, <2>2, <2>4 DEF history, Inv, TypeOK
    <3>2. sweeping' # None => sweeping \in Keys /\ table[sweeping] # None
      BY <3>1 DEF Inv, TypeOK, OneKeyEach
    <3>3. \A k, l \in Keys : table'[k] # None /\ table'[k] = table'[l] => k = l
      BY <3>1 DEF Inv, OneKeyEach
    <3>4. \A d \in Callers, k \in Keys : pc'[d] = "have" /\ bucket'[d] = table'[k] => key'[d] = k
      BY <3>1 DEF Inv, OneKeyEach
    <3>5. \A d, e \in Callers :
            pc'[d] = "have" /\ pc'[e] = "have" /\ bucket'[d] = bucket'[e] => key'[d] = key'[e]
      BY <3>1 DEF Inv, OneKeyEach
    <3>6. ASSUME NEW d \in Callers, pc'[d] = "have"
          PROVE  bucket'[d] = table'[key'[d]] \/ bucket'[d] \in evicted'
      <4>1. CASE d = c
        BY <1>1, <3>1, <4>1
      <4>2. CASE d # c
        <5>1. pc[d] = "have" /\ key[d] \in Keys
          BY <3>1, <3>6, <4>2 DEF Inv, CallersKnow
        <5>2. bucket[d] \in 1 .. made
          BY <5>1, <2>4
        <5>3. key[d] = key[c] => bucket[d] # table[key[d]]
          BY <1>3, <5>2, LimiterAssumption, <1>1
        <5> QED BY <3>1, <4>2, <5>1, <5>3 DEF Inv, OneKeyEach
      <4> QED BY <4>1, <4>2
    <3>7. \A k \in Keys : table'[k] \notin evicted'
      BY <3>1 DEF Inv, OneKeyEach
    <3>8. sweeping' # None => table'[sweeping'] # None
      BY <3>1, <3>2, <2>2
    <3> QED BY <3>3, <3>4, <3>5, <3>6, <3>7, <3>8 DEF OneKeyEach
  <2>8. UnmadeAreFull'
    BY <1>1, <2>1 DEF history, Inv, UnmadeAreFull
  <2>9. LevelsFollowIdeal'
    BY <1>1, <1>3, <2>1, <2>2, <2>3, <2>4, FullType
       DEF history, Inv, TypeOK, LevelsFollowIdeal, Forgiven
  <2> QED BY <2>1, <2>5, <2>6, <2>7, <2>8, <2>9 DEF history, Inv, RefusesOnlyWhenSpent
<1> QED BY <1>2, <1>3

LEMMA RefuseInv ==
  ASSUME Inv, NEW c \in Callers, Allow(c), Refuse(c)
  PROVE  Inv'
<1>1. /\ pc[c] = "have" /\ key[c] \in Keys /\ bucket[c] \in 1 .. MaxBuckets
      /\ level[bucket[c]] >= ideal[key[c]] /\ level[bucket[c]] < Period
      /\ level[bucket[c]] \in Nat /\ ideal[key[c]] \in Int
  BY LimiterAssumption DEF Allow, Refuse, Inv, TypeOK, CallersKnow, LevelsFollowIdeal
<1>2. refused' = FALSE
  <2>1. refused = FALSE
    BY DEF Inv, TypeOK, RefusesOnlyWhenSpent
  <2>2. ~(ideal[key[c]] >= Period)
    BY <1>1, FullType
  <2> QED BY <2>1, <2>2 DEF Refuse
<1> QED BY <1>1, <1>2
        DEF Allow, Refuse, Inv, TypeOK, CallersKnow, OneKeyEach, UnmadeAreFull,
            LevelsFollowIdeal, Forgiven, RefusesOnlyWhenSpent

LEMMA GrantInv ==
  ASSUME Inv, NEW c \in Callers, Allow(c), Grant(c)
  PROVE  Inv'
<1>0. PICK b \in 1 .. made, k \in Keys : b = bucket[c] /\ k = key[c]
  BY DEF Allow, Inv, CallersKnow
<1>1. /\ pc[c] = "have" /\ k \in Keys /\ b \in 1 .. made /\ b \in 1 .. MaxBuckets
      /\ level[b] >= ideal[k] /\ level[b] >= Period
      /\ level[b] \in 0 .. Full /\ ideal[k] \in Int
      /\ raced[k] \in Nat /\ raced[k] <= grants /\ grants \in Nat /\ grants < MaxGrants
      /\ MaxGrants \in Nat
  BY <1>0, LimiterAssumption DEF Allow, Grant, Inv, TypeOK, CallersKnow, LevelsFollowIdeal
<1>2. /\ level' = [level EXCEPT ![b] = @ - Period]
      /\ ideal' = [ideal EXCEPT ![k] = @ - Period]
      /\ raced' = [raced EXCEPT ![k] = IF Overlaps(c) THEN @ + 1 ELSE @]
      /\ grants' = grants + 1
      /\ pc' = [pc EXCEPT ![c] = "idle"]
      /\ key' = [key EXCEPT ![c] = None]
      /\ bucket' = [bucket EXCEPT ![c] = None]
      /\ UNCHANGED <<now, table, made, sweeping, evicted, refused>>
  BY <1>0 DEF Allow, Grant
<1>3. /\ Period * raced[k] \in Nat
      /\ Period * (raced[k] + 1) = Period * raced[k] + Period
  BY <1>1, Products
<1>4. Forgiven(k)' = IF Overlaps(c) THEN Forgiven(k) ELSE Forgiven(k) - Period
  <2>1. ideal'[k] = ideal[k] - Period
    BY <1>1, <1>2 DEF Inv, TypeOK
  <2>2. raced'[k] = IF Overlaps(c) THEN raced[k] + 1 ELSE raced[k]
    BY <1>1, <1>2 DEF Inv, TypeOK
  <2> DEFINE r == Period * raced[k]
             s == Period * (raced[k] + 1)
  <2>3. /\ r \in Nat /\ s = r + Period
        /\ Forgiven(k) = ideal[k] + r
        /\ Forgiven(k)' = ideal'[k] + (IF Overlaps(c) THEN s ELSE r)
    BY <1>3, <2>2 DEF Forgiven
  <2> HIDE DEF r, s
  <2>4. ideal[k] \in Int /\ Period \in Nat
    BY <1>1, FullType
  <2> QED BY <2>1, <2>3, <2>4
<1>5. \A l \in Keys \ {k} : Forgiven(l)' = Forgiven(l) /\ ideal'[l] = ideal[l] /\ raced'[l] = raced[l]
  BY <1>1, <1>2 DEF Inv, TypeOK, Forgiven
<1>6. \A l \in Keys : l # k => table[l] # b
  BY <1>0, <1>1 DEF Inv, OneKeyEach
<1>7. Overlaps(c) \/ (b = table[k] /\ sweeping # k)
  BY <1>0, <1>1 DEF Inv, OneKeyEach, Overlaps
<1>8. \A d \in Callers \ {c} : pc[d] = "have" => key[d] \in Keys /\ bucket[d] \in 1 .. MaxBuckets
  BY LimiterAssumption DEF Inv, TypeOK, CallersKnow
<1>9. Forgiven(k) \in Int
  BY <1>1, <1>3 DEF Forgiven
<1>10. TypeOK'
  <2>1. level' \in [1 .. MaxBuckets -> 0 .. Full]
    <3>1. level[b] - Period \in 0 .. Full
      BY <1>1, FullType
    <3>2. level' = [level EXCEPT ![b] = level[b] - Period]
      BY <1>2
    <3> QED BY <3>1, <3>2 DEF Inv, TypeOK
  <2>2. ideal' \in [Keys -> Int]
    <3>1. ideal[k] - Period \in Int
      BY <1>1, FullType DEF Inv, TypeOK
    <3>2. ideal' = [ideal EXCEPT ![k] = ideal[k] - Period]
      BY <1>2
    <3> QED BY <3>1, <3>2 DEF Inv, TypeOK
  <2>3. raced' \in [Keys -> 0 .. MaxGrants] /\ grants' \in 0 .. MaxGrants
    BY <1>1, <1>2 DEF Inv, TypeOK
  <2> QED BY <1>2, <2>1, <2>2, <2>3 DEF Inv, TypeOK
<1>11. CallersKnow' /\ OneKeyEach' /\ RefusesOnlyWhenSpent'
  BY <1>1, <1>2 DEF Inv, TypeOK, CallersKnow, OneKeyEach, RefusesOnlyWhenSpent
<1>12. UnmadeAreFull'
  BY <1>1, <1>2 DEF Inv, TypeOK, UnmadeAreFull
<1>13. LevelsFollowIdeal'
  <2>1. ASSUME NEW l \in Keys PROVE ideal'[l] <= Full /\ raced'[l] <= grants'
    <3>1. ideal[l] \in Int /\ ideal[l] <= Full /\ raced[l] \in Nat /\ raced[l] <= grants
      BY DEF Inv, TypeOK, LevelsFollowIdeal
    <3>2. ideal'[l] = IF l = k THEN ideal[l] - Period ELSE ideal[l]
      BY <1>2 DEF Inv, TypeOK
    <3>3. raced'[l] \in {raced[l], raced[l] + 1}
      BY <1>2 DEF Inv, TypeOK
    <3> QED BY <1>1, <1>2, <3>1, <3>2, <3>3, FullType
  <2>2. ASSUME NEW d \in Callers, pc'[d] = "have" PROVE level'[bucket'[d]] >= ideal'[key'[d]]
    <3>1. d # c /\ pc[d] = "have" /\ bucket'[d] = bucket[d] /\ key'[d] = key[d]
      BY <2>2, <1>2 DEF Inv, TypeOK
    <3>2. bucket[d] = b => key[d] = k
      BY <1>0, <1>1, <3>1 DEF Inv, OneKeyEach
    <3>3. level[bucket[d]] >= ideal[key[d]] /\ level[bucket[d]] \in Int /\ ideal[key[d]] \in Int
      BY <1>8, <3>1, FullType DEF Inv, LevelsFollowIdeal, TypeOK
    <3>4. level'[bucket[d]] = IF bucket[d] = b THEN level[bucket[d]] - Period ELSE level[bucket[d]]
      BY <1>2, <1>8, <3>1 DEF Inv, TypeOK
    <3>5. ideal'[key[d]] = IF key[d] = k THEN ideal[key[d]] - Period ELSE ideal[key[d]]
      BY <1>2, <1>8, <3>1 DEF Inv, TypeOK
    <3> QED BY <3>1, <3>2, <3>3, <3>4, <3>5, FullType
  <2>3. ASSUME NEW l \in Keys, table[l] # None
        PROVE  level'[table[l]] >= ideal'[l] /\ level'[table[l]] <= Forgiven(l)'
    <3>1. /\ table[l] \in 1 .. MaxBuckets /\ level[table[l]] \in Int /\ ideal[l] \in Int
          /\ level[table[l]] >= ideal[l] /\ level[table[l]] <= Forgiven(l)
      BY <2>3, FullType, LimiterAssumption DEF Inv, LevelsFollowIdeal, TypeOK
    <3>2. CASE l # k
      BY <1>2, <1>5, <1>6, <3>1, <3>2 DEF Inv, TypeOK
    <3>3. CASE l = k
      <4>1. ideal'[l] = ideal[l] - Period
        BY <1>2, <3>3 DEF Inv, TypeOK
      <4>2. level'[table[l]] = IF table[l] = b THEN level[table[l]] - Period ELSE level[table[l]]
        BY <1>2, <3>1 DEF Inv, TypeOK
      <4> QED BY <1>4, <1>7, <1>9, <3>1, <3>3, <4>1, <4>2, FullType
    <3> QED BY <3>2, <3>3
  <2>4. ASSUME NEW l \in Keys, table[l] = None \/ sweeping = l PROVE Forgiven(l)' >= Full
    <3>1. Forgiven(l) >= Full
      BY <2>4 DEF Inv, LevelsFollowIdeal
    <3>2. l = k => Overlaps(c)
      BY <1>1, <1>7, <2>4, LimiterAssumption
    <3> QED BY <1>4, <1>5, <3>1, <3>2
  <2> QED BY <1>2, <2>1, <2>2, <2>3, <2>4 DEF LevelsFollowIdeal
<1> QED BY <1>10, <1>11, <1>12, <1>13 DEF Inv

LEMMA SweepCheckInv == ASSUME Inv, NEW k \in Keys, SweepCheck(k) PROVE Inv'
<1>1. /\ table[k] \in 1 .. MaxBuckets /\ level[table[k]] >= Full
      /\ level[table[k]] \in Int /\ level[table[k]] <= Forgiven(k)
      /\ ideal[k] \in Int /\ Period * raced[k] \in Nat
  BY LimiterAssumption, FullType, Products DEF SweepCheck, Inv, TypeOK, LevelsFollowIdeal
<1>2. Forgiven(k) >= Full
  BY <1>1, FullType DEF Forgiven
<1>3. TypeOK' /\ CallersKnow' /\ OneKeyEach' /\ UnmadeAreFull' /\ RefusesOnlyWhenSpent'
  BY DEF SweepCheck, history, Inv, TypeOK, CallersKnow, OneKeyEach, UnmadeAreFull,
         RefusesOnlyWhenSpent
<1>4. \A l \in Keys : Forgiven(l)' = Forgiven(l)
  BY DEF SweepCheck, history, Forgiven
<1>5. LevelsFollowIdeal'
  BY <1>2, <1>4 DEF SweepCheck, history, Inv, LevelsFollowIdeal
<1> QED BY <1>3, <1>5 DEF Inv

LEMMA SweepDeleteInv == ASSUME Inv, SweepDelete PROVE Inv'
<1>1. sweeping \in Keys /\ table[sweeping] \in 1 .. made /\ sweeping # None
  BY DEF SweepDelete, Inv, TypeOK, OneKeyEach
<1>2. /\ table' = [table EXCEPT ![sweeping] = None]
      /\ evicted' = evicted \cup {table[sweeping]} /\ sweeping' = None
      /\ UNCHANGED <<now, level, made, pc, key, bucket, ideal, grants, raced, refused>>
  BY DEF SweepDelete
<1>3. None \notin 1 .. made /\ None \notin Keys
  BY LimiterAssumption DEF Inv, TypeOK
<1>4. TypeOK' /\ CallersKnow' /\ UnmadeAreFull' /\ RefusesOnlyWhenSpent'
  BY <1>1, <1>2 DEF Inv, TypeOK, CallersKnow, UnmadeAreFull, RefusesOnlyWhenSpent
<1>5. OneKeyEach'
  BY <1>1, <1>2, <1>3 DEF Inv, TypeOK, CallersKnow, OneKeyEach
<1>6. \A l \in Keys : Forgiven(l)' = Forgiven(l)
  BY <1>2 DEF Forgiven
<1>7. LevelsFollowIdeal'
  BY <1>1, <1>2, <1>3, <1>6 DEF Inv, TypeOK, LevelsFollowIdeal
<1> QED BY <1>4, <1>5, <1>7 DEF Inv

LEMMA StepInv == ASSUME Inv, [Next]_vars PROVE Inv'
<1>1. CASE UNCHANGED vars
  BY <1>1 DEF vars, Inv, TypeOK, CallersKnow, OneKeyEach, UnmadeAreFull, LevelsFollowIdeal,
              Forgiven, RefusesOnlyWhenSpent
<1>2. ASSUME NEW c \in Callers, Allow(c) PROVE Inv'
  BY <1>2, GrantInv, RefuseInv DEF Allow
<1> QED BY <1>1, <1>2, TickInv, LoadInv, LoadOrStoreInv, SweepCheckInv, SweepDeleteInv DEF Next

LEMMA Invariant == Spec => []Inv
BY InitInv, StepInv, PTL DEF Spec

\* The variables keep their types: no bucket overflows or goes below zero.
THEOREM LimiterTypes == Spec => []TypeOK
BY Invariant, PTL DEF Inv

\* Whatever callers and evictor do between each other's steps, a key that has a
\* token by its rate and burst is not refused.
THEOREM NoWrongRefusal == Spec => []RefusesOnlyWhenSpent
BY Invariant, PTL DEF Inv

\* A key owes at most one token for each of its grants that overlapped an eviction.
THEOREM OnlyRacesForgiven == Spec => []OverAdmitsOnlyRaced
BY Invariant, InvImpliesOver, PTL
=============================================================================
