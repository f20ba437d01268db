------------------------------ MODULE Matcher ------------------------------
(***************************************************************************)
(* identity.Match: fetch the active places of a compatible category within *)
(* the radius of a record, nearest first and at most MaxCandidates of      *)
(* them, score each, and decide by the thresholds.  Scores are exact       *)
(* fractions: a score of s is written as 900 * s over the number of tokens *)
(* of the two names together, so that no rounding is modelled.             *)
(*                                                                         *)
(* A name or a street is the sequence of its words as Normalize leaves     *)
(* them, lower case and without diacritics, and <<>> is the empty string;  *)
(* house numbers are compared without regard to case.                      *)
(***************************************************************************)
EXTENDS Naturals, Sequences, FiniteSets

CONSTANTS
    Records,            \* what an upstream says: category, name, street, house
    Candidates,         \* what a place may be, and its distance in metres
    Places,             \* rows of the places table near the record
    Words,
    BusinessSuffixes,   \* words that say nothing: inc, ltd, oy, ...
    Houses,             \* house numbers
    Categories,
    MaxCandidates,      \* LIMIT of the candidate query: 32
    None                \* no place, no house number

RadiusM == 50

Said == [category : Categories, name : Seq(Words), street : Seq(Words),
         house : Houses \cup {None}]
Known == [category : Categories, name : Seq(Words), street : Seq(Words),
          house : Houses \cup {None}, dist : Nat, status : {"active", "closed"}]

ASSUME MatcherAssumption ==
    /\ Records \subseteq Said
    /\ Candidates \subseteq Known
    /\ IsFiniteSet(Places)
    /\ BusinessSuffixes \subseteq Words
    /\ MaxCandidates \in Nat \ {0}
    /\ None \notin Places

VARIABLES
    record,     \* the record to be matched
    place,      \* the places
    phase,      \* "fetch", "score" or "decided"
    fetched,    \* candidates the query returned
    remaining,  \* those not yet scored
    best,       \* the best so far, None before the first
    decision    \* kind and place, once decided

vars == <<record, place, phase, fetched, remaining, best, decision>>

-----------------------------------------------------------------------------
(* Scores                                                                  *)

\* 50 * (1 - metres / RadiusM), zero from the radius on.
DistanceScore(metres) == IF metres >= RadiusM THEN 0 ELSE RadiusM - metres

Informative(word) == word \notin BusinessSuffixes

Normalize(words) == SelectSeq(words, Informative)

\* The distinct words of Normalize(words).
TokenSet(words) == {words[i] : i \in DOMAIN words} \ BusinessSuffixes

\* Jaccard: the tokens two names share, and those they have together; names
\* without tokens share none.
NameScore(a, b) ==
    LET r == TokenSet(a) p == TokenSet(b) IN
    IF r = {} \/ p = {} THEN [common |-> 0, union |-> 1]
    ELSE [common |-> Cardinality(r \cap p), union |-> Cardinality(r \cup p)]

\* The words in their order; two streets of suffixes only are the same.
StreetsMatch(a, b) == Normalize(a) = Normalize(b)

\* Both sides name a street.
Present(r, p) == r.street # <<>> /\ p.street # <<>>

\* Twice the score of an address that is present.
AddressScore(r, p) ==
    IF ~StreetsMatch(r.street, p.street) THEN 0
    ELSE IF r.house # None /\ r.house = p.house THEN 2 ELSE 1

\* Faulty variant: the weight of a missing address goes to nobody.
CombinedScoreDropped(dist, name, addr, present) ==
    9 * name.union * DistanceScore(dist) + 360 * name.common
        + IF present THEN 45 * name.union * addr ELSE 0

\* Weights 0.5, 0.4 and 0.1; without an address 5/9 and 4/9.
CombinedScore(dist, name, addr, present) ==
    IF present
    THEN 9 * name.union * DistanceScore(dist) + 360 * name.common + 45 * name.union * addr
    ELSE 10 * name.union * DistanceScore(dist) + 400 * name.common

Name(p) == NameScore(record.name, place[p].name)

Tokens(p) == Name(p).union

Score(p) ==
    CombinedScore(place[p].dist, Name(p), AddressScore(record, place[p]),
                  Present(record, place[p]))

Beats(p, q) == Score(p) * Tokens(q) > Score(q) * Tokens(p)

\* Faulty variant: a threshold a candidate without address reaches at the radius.
LowConfidentAt40(p) == Score(p) >= 360 * Tokens(p)

Confident(p) == Score(p) >= 720 * Tokens(p)         \* 0.80
LowConfident(p) == Score(p) >= 495 * Tokens(p)      \* 0.55

-----------------------------------------------------------------------------

FoodService == {"cafe", "restaurant", "bar"}

\* Categories a record may be matched against.
Compatible(category) ==
    IF category \in FoodService THEN FoodService ELSE {category}

\* active, of a compatible category, within RadiusM.
Eligible ==
    {p \in Places : /\ place[p].status = "active"
                    /\ place[p].category \in Compatible(record.category)
                    /\ place[p].dist <= RadiusM}

Init ==
    /\ record \in Records
    /\ place \in [Places -> Candidates]
    /\ phase = "fetch"
    /\ fetched = {}
    /\ remaining = {}
    /\ best = None
    /\ decision = [kind |-> "none", matched |-> None]

\* ORDER BY ST_Distance LIMIT MaxCandidates; the order of equal distances is open.
FindCandidates ==
    /\ phase = "fetch"
    /\ \E S \in SUBSET Eligible :
          /\ Cardinality(S) <= MaxCandidates
          /\ S # Eligible => Cardinality(S) = MaxCandidates
          /\ \A p \in S, q \in Eligible \ S : place[p].dist <= place[q].dist
          /\ fetched' = S
          /\ remaining' = S
    /\ phase' = "score"
    /\ UNCHANGED <<record, place, best, decision>>

\* Faulty variant: a candidate as good as the best so far replaces it.
ScoreNextKeepingLast ==
    /\ phase = "score"
    /\ \E p \in remaining :
          /\ \A q \in remaining : place[p].dist <= place[q].dist
          /\ remaining' = remaining \ {p}
          /\ best' = IF best = None \/ ~Beats(best, p) THEN p ELSE best
    /\ UNCHANGED <<record, place, phase, fetched, decision>>

\* One turn of the loop, in the order of the query.
ScoreNext ==
    /\ phase = "score"
    /\ \E p \in remaining :
          /\ \A q \in remaining : place[p].dist <= place[q].dist
          /\ remaining' = remaining \ {p}
          /\ best' = IF best = None \/ Beats(p, best) THEN p ELSE best
    /\ UNCHANGED <<record, place, phase, fetched, decision>>

Decide ==
    /\ phase = "score"
    /\ remaining = {}
    /\ phase' = "decided"
    /\ decision' =
          IF best = None \/ ~LowConfident(best)
          THEN [kind |-> "no_match", matched |-> None]
          ELSE [kind |-> IF Confident(best) THEN "confident" ELSE "low_confidence",
                matched |-> best]
    /\ UNCHANGED <<record, place, fetched, remaining, best>>

Next == FindCandidates \/ ScoreNext \/ Decide

Spec == Init /\ [][Next]_vars

-----------------------------------------------------------------------------
(* Properties                                                              *)

\* MaxCandidates eligible places are as near as p: the query may leave p out.
Crowded(p) ==
    Cardinality({q \in Eligible \ {p} : place[q].dist <= place[p].dist}) >= MaxCandidates

\* A record is matched to the best of the active, compatible places within the
\* radius if that one is good enough, and to none only if none is; of places
\* that score the same the nearest is taken.  Only a place in a crowd is missed.
MatchesTheBestNearby ==
    phase = "decided" =>
        IF decision.matched = None
        THEN \A p \in Eligible : LowConfident(p) => Crowded(p)
        ELSE LET m == decision.matched IN
             /\ m \in Eligible
             /\ LowConfident(m)
             /\ decision.kind = "confident" <=> Confident(m)
             /\ \A p \in Eligible :
                   \/ Beats(m, p)
                   \/ ~Beats(p, m) /\ place[m].dist <= place[p].dist
                   \/ Crowded(p)

\* Whatever its name and address, a place at the edge of the radius is never
\* matched: neither the other signals nor the redistributed weight of a missing
\* address reach the threshold without any nearness.
EdgeNeverMatches ==
    decision.matched # None => place[decision.matched].dist < RadiusM

\* Scores stay between 0 and 1, and the address moves them its own way: a
\* mismatch is worse than no address at all, a full match at least as good.
AddressMovesScore ==
    \A p \in Places :
        LET With(addr, present) == CombinedScore(place[p].dist, Name(p), addr, present)
            signal == place[p].dist < RadiusM \/ Name(p).common > 0
        IN
        /\ Score(p) <= 900 * Tokens(p)
        /\ With(0, TRUE) < With(1, TRUE) /\ With(1, TRUE) < With(2, TRUE)
        /\ With(0, FALSE) <= With(2, TRUE)
        /\ signal => With(0, TRUE) < With(0, FALSE)
=============================================================================
