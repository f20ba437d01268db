--------------------------- MODULE MatcherProofs ---------------------------
(***************************************************************************)
(* Theorems about Matcher, for any record, places, names and addresses:    *)
(* the loop finds the best candidate, and no place at the edge of the      *)
(* radius reaches a threshold.                                             *)
(***************************************************************************)
EXTENDS Matcher, FiniteSetTheorems, TLAPS

LEMMA TokensFinite == ASSUME NEW words \in Seq(Words) PROVE IsFiniteSet(TokenSet(words))
<1> DEFINE Sel == {words[i] : i \in DOMAIN words}
           f == [i \in 1..Len(words) |-> words[i]]
<1>1. f \in Surjection(1..Len(words), Sel)
  BY DEF Surjection
<1>2. IsFiniteSet(1..Len(words))
  BY FS_Interval
<1>3. IsFiniteSet(Sel)
  BY <1>1, <1>2, FS_Surjection
<1>4. TokenSet(words) \in SUBSET Sel
  BY DEF TokenSet
<1> QED BY <1>3, <1>4, FS_Subset

\* Two names share at most the tokens they have together, and have one at least
\* as far as the score is concerned.
LEMMA NameScoreType ==
  ASSUME NEW a \in Seq(Words), NEW b \in Seq(Words)
  PROVE  /\ NameScore(a, b).common \in Nat
         /\ NameScore(a, b).union \in Nat \ {0}
         /\ NameScore(a, b).common <= NameScore(a, b).union
<1> DEFINE R == TokenSet(a)
           P == TokenSet(b)
<1>1. IsFiniteSet(R) /\ IsFiniteSet(P)
  BY TokensFinite
<1> HIDE DEF R, P
<1>2. IsFiniteSet(R \cup P)
  BY <1>1, FS_Union
<1>3. R \cap P \in SUBSET (R \cup P)
  OBVIOUS
<1>4. IsFiniteSet(R \cap P) /\ Cardinality(R \cap P) <= Cardinality(R \cup P)
  BY <1>2, <1>3, FS_Subset
<1>5. Cardinality(R \cap P) \in Nat /\ Cardinality(R \cup P) \in Nat
  BY <1>2, <1>4, FS_CardinalityType
<1>6. Cardinality(R \cup P) = 0 => R = {}
  BY <1>2, FS_EmptySet
<1> QED BY <1>4, <1>5, <1>6 DEF NameScore, R, P

LEMMA AddressScoreType ==
  ASSUME NEW r, NEW p
  PROVE  AddressScore(r, p) \in {0, 1, 2}
BY DEF AddressScore

\* What the score of a place is made of.
Placed == record \in Said /\ place \in [Places -> Known]

LEMMA ScoreParts ==
  ASSUME Placed, NEW p \in Places
  PROVE  /\ place[p].dist \in Nat
         /\ Name(p).common \in Nat /\ Tokens(p) \in Nat \ {0}
         /\ Name(p).common <= Tokens(p)
         /\ Name(p).union = Tokens(p)
         /\ AddressScore(record, place[p]) \in {0, 1, 2}
         /\ DistanceScore(place[p].dist) \in 0..50
         /\ place[p].dist < RadiusM <=> DistanceScore(place[p].dist) > 0
<1>1. record.name \in Seq(Words) /\ place[p].name \in Seq(Words) /\ place[p].dist \in Nat
  BY DEF Placed, Said, Known
<1>2. AddressScore(record, place[p]) \in {0, 1, 2}
  BY AddressScoreType
<1>3. /\ Name(p).common \in Nat /\ Tokens(p) \in Nat \ {0}
      /\ Name(p).common <= Tokens(p)
      /\ Name(p).union = Tokens(p)
  BY <1>1, NameScoreType DEF Name, Tokens
<1>4. /\ DistanceScore(place[p].dist) \in 0..50
      /\ place[p].dist < RadiusM <=> DistanceScore(place[p].dist) > 0
  <2> DEFINE m == place[p].dist
  <2>1. m \in Nat
    BY <1>1
  <2> HIDE DEF m
  <2>2. DistanceScore(m) \in 0..50 /\ (m < RadiusM <=> DistanceScore(m) > 0)
    <3>1. CASE m >= 50
      BY <2>1, <3>1 DEF DistanceScore, RadiusM
    <3>2. CASE m < 50
      BY <2>1, <3>2 DEF DistanceScore, RadiusM
    <3> QED BY <2>1, <3>1, <3>2
  <2> QED BY <2>2 DEF m
<1> QED BY <1>1, <1>2, <1>3, <1>4

\* The products of the parts of a score.
LEMMA ScoreBounds ==
  ASSUME NEW d \in 0..50, NEW c \in Nat, NEW u \in Nat \ {0}, c <= u,
         NEW a \in {0, 1, 2}
  PROVE  /\ u * d \in Nat /\ u * d <= 50 * u
         /\ d > 0 => u * d > 0
         /\ d = 0 => u * d = 0
         /\ 9 * u * d = 9 * (u * d) /\ 10 * u * d = 10 * (u * d)
         /\ 45 * u * a \in 0..(90 * u)
<1>1. u * d \in Nat /\ u * d <= 50 * u
  OBVIOUS
<1>2. (d > 0 => u * d > 0) /\ (d = 0 => u * d = 0)
  OBVIOUS
<1>3. 9 * u * d = 9 * (u * d) /\ 10 * u * d = 10 * (u * d)
  OBVIOUS
<1>4. 45 * u * a \in 0..(90 * u)
  <2>1. CASE a = 0 BY <2>1
  <2>2. CASE a = 1 BY <2>2
  <2>3. CASE a = 2 BY <2>3
  <2> QED BY <2>1, <2>2, <2>3
<1> QED BY <1>1, <1>2, <1>3, <1>4

LEMMA ScoreType ==
  ASSUME Placed, NEW p \in Places
  PROVE  /\ Score(p) \in Nat
         /\ Score(p) <= 900 * Tokens(p)
         /\ place[p].dist >= RadiusM => ~LowConfident(p)
<1> DEFINE d == DistanceScore(place[p].dist)
           c == Name(p).common
           u == Tokens(p)
           a == AddressScore(record, place[p])
           present == Present(record, place[p])
<1>1. /\ d \in 0..50 /\ c \in Nat /\ u \in Nat \ {0} /\ c <= u /\ a \in {0, 1, 2}
      /\ Name(p).union = u
      /\ place[p].dist >= RadiusM => d = 0
  <2>1. place[p].dist >= RadiusM => d = 0
    BY DEF DistanceScore
  <2> QED BY <2>1, ScoreParts
<1>2. Score(p) = IF present THEN 9 * u * d + 360 * c + 45 * u * a
                 ELSE 10 * u * d + 400 * c
  BY <1>1 DEF Score, CombinedScore
<1>3. LowConfident(p) <=> Score(p) >= 495 * u
  BY DEF LowConfident
<1> HIDE DEF d, c, u, a, present
<1>4. /\ u * d \in Nat /\ u * d <= 50 * u
      /\ d = 0 => u * d = 0
      /\ 9 * u * d = 9 * (u * d) /\ 10 * u * d = 10 * (u * d)
      /\ 45 * u * a \in 0..(90 * u)
  BY <1>1, ScoreBounds
<1>5. Score(p) = IF present THEN 9 * (u * d) + 360 * c + 45 * u * a
                 ELSE 10 * (u * d) + 400 * c
  BY <1>2, <1>4
<1> DEFINE ud == u * d
           ua == 45 * u * a
<1>6. ud \in Nat /\ ud <= 50 * u /\ (d = 0 => ud = 0) /\ ua \in 0..(90 * u)
  BY <1>4
<1>7. Score(p) = IF present THEN 9 * ud + 360 * c + ua ELSE 10 * ud + 400 * c
  BY <1>5
<1> HIDE DEF ud, ua
<1>8. Score(p) \in Nat /\ Score(p) <= 900 * u
  BY <1>1, <1>6, <1>7
<1>9. d = 0 => ~(Score(p) >= 495 * u)
  BY <1>1, <1>6, <1>7
<1> QED BY <1>1, <1>3, <1>8, <1>9 DEF u

-----------------------------------------------------------------------------
(* The invariant                                                           *)

TypeOK ==
    /\ Placed
    /\ phase \in {"fetch", "score", "decided"}
    /\ fetched \subseteq Eligible
    /\ remaining \subseteq fetched
    /\ best \in Places \cup {None}
    /\ phase = "fetch" => best = None

\* The query leaves out only what is crowded by what it returns.
FetchedTheNearest ==
    phase # "fetch" =>
        \A p \in Eligible \ fetched :
            /\ Cardinality(fetched) = MaxCandidates
            /\ \A q \in fetched : place[q].dist <= place[p].dist

\* m goes before p: a better score, or one as good and no more distance.
Before(m, p) == Beats(m, p) \/ (~Beats(p, m) /\ place[m].dist <= place[p].dist)

\* The best so far goes before every place that has been scored, and no place
\* that has not is nearer than it.
BestSoFar ==
    /\ best = None => fetched \ remaining = {}
    /\ best # None =>
          /\ best \in fetched \ remaining
          /\ \A p \in fetched \ remaining : Before(best, p)
          /\ \A p \in remaining : place[best].dist <= place[p].dist
    /\ \A p \in fetched \ remaining, q \in remaining : place[p].dist <= place[q].dist

DecidedByBest ==
    IF phase = "decided"
    THEN /\ remaining = {}
         /\ IF best = None \/ ~LowConfident(best)
            THEN decision.matched = None
            ELSE /\ decision.matched = best
                 /\ decision.kind = IF Confident(best) THEN "confident" ELSE "low_confidence"
    ELSE decision.matched = None

Inv == TypeOK /\ FetchedTheNearest /\ BestSoFar /\ DecidedByBest

LEMMA InitInv == ASSUME Init PROVE Inv
BY MatcherAssumption
   DEF Init, Inv, TypeOK, Placed, FetchedTheNearest, BestSoFar, DecidedByBest

LEMMA FetchInv == ASSUME Inv, FindCandidates PROVE Inv'
<1> PICK S \in SUBSET Eligible :
       /\ Cardinality(S) <= MaxCandidates
       /\ S # Eligible => Cardinality(S) = MaxCandidates
       /\ \A p \in S, q \in Eligible \ S : place[p].dist <= place[q].dist
       /\ fetched' = S
       /\ remaining' = S
  BY DEF FindCandidates
<1>1. /\ phase = "fetch" /\ phase' = "score"
      /\ UNCHANGED <<record, place, best, decision>>
      /\ Eligible' = Eligible
  BY DEF FindCandidates, Eligible
<1>2. best' = None
  BY <1>1 DEF Inv, TypeOK
<1>3. TypeOK'
  BY <1>1, <1>2 DEF Inv, TypeOK, Placed
<1>4. FetchedTheNearest'
  BY <1>1 DEF FetchedTheNearest
<1>5. BestSoFar'
  BY <1>2 DEF BestSoFar
<1>6. DecidedByBest'
  BY <1>1 DEF Inv, DecidedByBest
<1> QED BY <1>3, <1>4, <1>5, <1>6 DEF Inv

\* "Goes before" is transitive, and total in the way the loop uses it: products
\* of a score and the tokens of another place stand for the fractions.
LEMMA Fractions ==
  ASSUME NEW s1 \in Nat, NEW s2 \in Nat, NEW s3 \in Nat,
         NEW t1 \in Nat \ {0}, NEW t2 \in Nat \ {0}, NEW t3 \in Nat \ {0},
         s1 * t2 > s2 * t1, s2 * t3 >= s3 * t2
  PROVE  s1 * t3 > s3 * t1
<1>1. (s1 * t2) * t3 > (s2 * t1) * t3
  BY Z3
<1>2. (s2 * t3) * t1 >= (s3 * t2) * t1
  BY Z3
<1>3. (s2 * t1) * t3 = (s2 * t3) * t1
  BY Z3
<1>4. (s1 * t3) * t2 > (s3 * t1) * t2
  BY <1>1, <1>2, <1>3, Z3
<1> QED BY <1>4, Z3

LEMMA BeatsBefore ==
  ASSUME Placed, NEW m \in Places, NEW n \in Places, NEW p \in Places,
         Beats(m, n), Before(n, p)
  PROVE  Before(m, p)
<1> DEFINE s(x) == Score(x)
           t(x) == Tokens(x)
<1>1. \A x \in Places : Score(x) \in Nat /\ Tokens(x) \in Nat \ {0}
  BY ScoreType, ScoreParts
<1>2. Score(n) * Tokens(p) >= Score(p) * Tokens(n)
  BY <1>1 DEF Before, Beats
<1>3. Score(m) * Tokens(n) > Score(n) * Tokens(m)
  BY DEF Beats
<1>4. Score(m) * Tokens(p) > Score(p) * Tokens(m)
  BY <1>1, <1>2, <1>3, Fractions
<1> QED BY <1>4 DEF Before, Beats

LEMMA BeforeItself ==
  ASSUME Placed, NEW p \in Places
  PROVE  Before(p, p)
BY ScoreType, ScoreParts DEF Before, Beats

LEMMA ScoreNextInv == ASSUME Inv, ScoreNext PROVE Inv'
<1> PICK p \in remaining :
       /\ \A q \in remaining : place[p].dist <= place[q].dist
       /\ remaining' = remaining \ {p}
       /\ best' = IF best = None \/ Beats(p, best) THEN p ELSE best
  BY DEF ScoreNext
<1>1. /\ phase = "score" /\ phase' = "score"
      /\ UNCHANGED <<record, place, fetched, decision>>
      /\ Eligible' = Eligible
      /\ \A x, y : Before(x, y)' <=> Before(x, y)
  BY DEF ScoreNext, Eligible, Before, Beats, Score, Tokens, Name
<1>2. /\ Placed /\ fetched \subseteq Places /\ p \in Places /\ p # None
      /\ \A x \in Places : place[x].dist \in Nat
  <2>1. Placed /\ fetched \subseteq Places /\ p \in Places
    BY DEF Inv, TypeOK, Eligible
  <2> QED BY <2>1, MatcherAssumption, ScoreParts
<1> DEFINE scored == fetched \ remaining
<1>3. fetched' \ remaining' = scored \cup {p}
  BY <1>1 DEF Inv, TypeOK
<1>4. TypeOK'
  BY <1>1, <1>2 DEF Inv, TypeOK, Placed
<1>5. FetchedTheNearest'
  BY <1>1 DEF Inv, FetchedTheNearest
<1>6. DecidedByBest'
  BY <1>1 DEF Inv, DecidedByBest
<1>7. BestSoFar'
  <2>1. best' # None
    BY <1>2
  <2>2. best' \in scored \cup {p}
    BY DEF Inv, BestSoFar
  <2>3. \A q \in scored \cup {p} : Before(best', q)
    <3>1. CASE best = None
      BY <3>1, <1>2, BeforeItself DEF Inv, BestSoFar
    <3>2. CASE best # None /\ Beats(p, best)
      BY <3>2, <1>2, BeforeItself, BeatsBefore DEF Inv, BestSoFar
    <3>3. CASE best # None /\ ~Beats(p, best)
      BY <3>3 DEF Inv, BestSoFar, Before
    <3> QED BY <3>1, <3>2, <3>3
  <2>4. \A q \in remaining' : place[best'].dist <= place[q].dist
    BY DEF Inv, BestSoFar
  <2>5. \A x \in scored \cup {p}, q \in remaining' : place[x].dist <= place[q].dist
    BY DEF Inv, BestSoFar
  <2>6. (\A q \in fetched \ remaining : Before(best, q))'
    BY <1>1, <1>3, <2>3 DEF Before, Beats, Score, Tokens, Name
  <2>7. (best \in fetched \ remaining /\ best # None)'
    BY <1>3, <2>1, <2>2
  <2>8. (\A q \in remaining : place[best].dist <= place[q].dist)'
    BY <1>1, <2>4
  <2>9. (\A x \in fetched \ remaining, q \in remaining : place[x].dist <= place[q].dist)'
    BY <1>1, <1>3, <2>5
  <2> QED BY <2>6, <2>7, <2>8, <2>9 DEF BestSoFar
<1> QED BY <1>4, <1>5, <1>6, <1>7 DEF Inv

LEMMA DecideInv == ASSUME Inv, Decide PROVE Inv'
<1>1. /\ phase = "score" /\ phase' = "decided" /\ remaining = {}
      /\ UNCHANGED <<record, place, fetched, remaining, best>>
      /\ Eligible' = Eligible
      /\ \A x, y : Before(x, y)' <=> Before(x, y)
      /\ \A x : (LowConfident(x)' <=> LowConfident(x)) /\ (Confident(x)' <=> Confident(x))
  BY DEF Decide, Eligible, Before, Beats, LowConfident, Confident, Score, Tokens, Name
<1>2. TypeOK' /\ FetchedTheNearest' /\ BestSoFar'
  BY <1>1 DEF Inv, TypeOK, Placed, FetchedTheNearest, BestSoFar
<1>3. DecidedByBest'
  BY <1>1 DEF Inv, TypeOK, DecidedByBest, Decide
<1> QED BY <1>2, <1>3 DEF Inv

LEMMA StutterInv == ASSUME Inv, UNCHANGED vars PROVE Inv'
BY DEF vars, Inv, TypeOK, Placed, FetchedTheNearest, BestSoFar, DecidedByBest, Eligible,
       Before, Beats, LowConfident, Confident, Score, Tokens, Name

LEMMA Invariant == Spec => []Inv
<1>1. Inv /\ [Next]_vars => Inv'
  BY FetchInv, ScoreNextInv, DecideInv, StutterInv DEF Next
<1> QED BY InitInv, <1>1, PTL DEF Spec

-----------------------------------------------------------------------------
(* The theorems                                                            *)

\* A score that is at least as good as one above the threshold is above it.
LEMMA NoWorseIsConfident ==
  ASSUME NEW s \in Nat, NEW z \in Nat, NEW t \in Nat \ {0}, NEW y \in Nat \ {0},
         s * y >= z * t, z >= 495 * y
  PROVE  s >= 495 * t
<1>1. z * t >= (495 * y) * t
  BY Z3
<1>2. (495 * y) * t = (495 * t) * y
  BY Z3
<1>3. s * y >= (495 * t) * y
  BY <1>1, <1>2, Z3
<1> QED BY <1>3, Z3

LEMMA LeftOutIsCrowded ==
  ASSUME Inv, phase # "fetch", NEW p \in Eligible, p \notin fetched
  PROVE  Crowded(p) /\ fetched # {}
<1> DEFINE Nearer == {q \in Eligible \ {p} : place[q].dist <= place[p].dist}
<1>1. IsFiniteSet(Nearer)
  BY MatcherAssumption, FS_Subset DEF Eligible
<1>2. fetched \in SUBSET Nearer /\ Cardinality(fetched) = MaxCandidates
  BY DEF Inv, TypeOK, FetchedTheNearest
<1>3. Cardinality(fetched) <= Cardinality(Nearer)
  BY <1>1, <1>2, FS_Subset
<1>4. fetched # {}
  BY <1>2, FS_EmptySet, MatcherAssumption
<1> QED BY <1>2, <1>3, <1>4 DEF Crowded

LEMMA InvImpliesBest == ASSUME Inv PROVE MatchesTheBestNearby
<1> SUFFICES ASSUME phase = "decided" PROVE MatchesTheBestNearby
  BY DEF MatchesTheBestNearby
<1>1. /\ Placed /\ remaining = {} /\ fetched \subseteq Eligible /\ Eligible \subseteq Places
      /\ best \in Places \cup {None}
      /\ best = None => fetched = {}
      /\ best # None => best \in fetched /\ \A p \in fetched : Before(best, p)
  BY DEF Inv, TypeOK, DecidedByBest, BestSoFar, Eligible
<1>2. \A x \in Places : Score(x) \in Nat /\ Tokens(x) \in Nat \ {0}
  BY <1>1, ScoreType, ScoreParts
<1>3. CASE best = None \/ ~LowConfident(best)
  <2>1. decision.matched = None
    BY <1>3 DEF Inv, DecidedByBest
  <2>2. ASSUME NEW p \in Eligible, LowConfident(p) PROVE Crowded(p)
    <3>1. CASE p \notin fetched
      BY <3>1, LeftOutIsCrowded
    <3>2. CASE p \in fetched
      <4>1. best \in Places /\ Before(best, p) /\ ~LowConfident(best)
        BY <1>1, <1>3, <3>2
      <4>2. Score(best) * Tokens(p) >= Score(p) * Tokens(best)
        BY <1>1, <1>2, <4>1 DEF Before, Beats
      <4>3. LowConfident(best)
        BY <1>1, <1>2, <2>2, <4>1, <4>2, NoWorseIsConfident DEF LowConfident
      <4> QED BY <4>1, <4>3
    <3> QED BY <3>1, <3>2
  <2> QED BY <2>1, <2>2 DEF MatchesTheBestNearby
<1>4. CASE best # None /\ LowConfident(best)
  <2>1. /\ decision.matched = best /\ best # None
        /\ decision.kind = IF Confident(best) THEN "confident" ELSE "low_confidence"
    BY <1>4 DEF Inv, DecidedByBest
  <2>2. \A p \in Eligible : Before(best, p) \/ Crowded(p)
    BY <1>1, <1>4, LeftOutIsCrowded
  <2> QED BY <1>1, <1>4, <2>1, <2>2 DEF MatchesTheBestNearby, Before
<1> QED BY <1>3, <1>4

\* The loop finds what the radius, the categories and the scores say: the best of
\* the eligible places, the nearest of equals, unless a crowd hides it.
THEOREM BestIsMatched == Spec => []MatchesTheBestNearby
BY Invariant, InvImpliesBest, PTL

LEMMA InvImpliesEdge == ASSUME Inv PROVE EdgeNeverMatches
<1> SUFFICES ASSUME decision.matched # None
             PROVE  place[decision.matched].dist < RadiusM
  BY DEF EdgeNeverMatches
<1>1. decision.matched = best /\ best \in Places /\ LowConfident(best) /\ Placed
  BY DEF Inv, TypeOK, DecidedByBest
<1>2. place[best].dist \in Nat /\ ~(place[best].dist >= RadiusM)
  BY <1>1, ScoreType, ScoreParts
<1> QED BY <1>1, <1>2 DEF RadiusM

\* No weight that a missing address gives up makes up for a place being as far
\* as the radius, whatever the names.
THEOREM EdgeIsNoMatch == Spec => []EdgeNeverMatches
BY Invariant, InvImpliesEdge, PTL

LEMMA InvImpliesAddress == ASSUME Inv PROVE AddressMovesScore
<1> SUFFICES ASSUME NEW p \in Places PROVE
        LET With(addr, present) == CombinedScore(place[p].dist, Name(p), addr, present)
            signal == place[p].dist < RadiusM \/ Name(p).common > 0
        IN
        /\ Score(p) <= 900 * Tokens(p)
        /\ With(0, TRUE) < With(1, TRUE) /\ With(1, TRUE) < With(2, TRUE)
        /\ With(0, FALSE) <= With(2, TRUE)
        /\ signal => With(0, TRUE) < With(0, FALSE)
  BY DEF AddressMovesScore
<1> DEFINE d == DistanceScore(place[p].dist)
           c == Name(p).common
           u == Tokens(p)
           With(addr, present) == CombinedScore(place[p].dist, Name(p), addr, present)
           wrong == With(0, TRUE)
           street == With(1, TRUE)
           full == With(2, TRUE)
           absent == With(0, FALSE)
           ud == u * d
<1>1. /\ d \in 0..50 /\ c \in Nat /\ u \in Nat \ {0} /\ c <= u
      /\ Name(p).union = u
      /\ place[p].dist < RadiusM <=> d > 0
  BY ScoreParts DEF Inv, TypeOK
<1>2. Score(p) <= 900 * u
  BY ScoreType DEF Inv, TypeOK
<1>3. /\ wrong = 9 * u * d + 360 * c + 45 * u * 0
      /\ street = 9 * u * d + 360 * c + 45 * u * 1
      /\ full = 9 * u * d + 360 * c + 45 * u * 2
      /\ absent = 10 * u * d + 400 * c
  BY <1>1 DEF CombinedScore
<1> HIDE DEF d, c, u, wrong, street, full, absent
<1>4. /\ ud \in Nat /\ ud <= 50 * u
      /\ d > 0 => ud > 0
      /\ 9 * u * d = 9 * ud /\ 10 * u * d = 10 * ud
  BY <1>1, ScoreBounds
<1>5. 45 * u * 0 = 0 /\ 45 * u * 1 = 45 * u /\ 45 * u * 2 = 90 * u
  BY <1>1
<1> HIDE DEF ud
<1>6. /\ wrong = 9 * ud + 360 * c
      /\ street = 9 * ud + 360 * c + 45 * u
      /\ full = 9 * ud + 360 * c + 90 * u
      /\ absent = 10 * ud + 400 * c
  BY <1>1, <1>3, <1>4, <1>5
<1>7. /\ wrong < street /\ street < full /\ absent <= full
      /\ d > 0 \/ c > 0 => wrong < absent
  BY <1>1, <1>4, <1>6
<1> QED BY <1>1, <1>2, <1>7 DEF wrong, street, full, absent, c, u

\* Scores stay between 0 and 1 and an address moves them its own way, for any
\* names and distances.
THEOREM AddressHelpsOrHarms == Spec => []AddressMovesScore
BY Invariant, InvImpliesAddress, PTL
=============================================================================
