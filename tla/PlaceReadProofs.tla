-------------------------- MODULE PlaceReadProofs --------------------------
(***************************************************************************)
(* Theorems about PlaceRead, for any components and contents and however   *)
(* often the profiles are written during a request: what is answered was   *)
(* stored during the request, where it is attributed but for marks that    *)
(* were stored, and the place's own components go first.                   *)
(***************************************************************************)
EXTENDS PlaceRead, TLAPS

TypeOK ==
    /\ profile \in [Places -> Profile]
    /\ writes \in 0..MaxWrites
    /\ phase \in {"own", "parent", "respond", "answered"}
    /\ asked \in {Child, Parent}
    /\ own \in Profile /\ parents \in Profile
    /\ seen \in [Places -> [Components -> SUBSET (Component \cup {Missing})]]

\* What is stored is seen while the request lasts, and what was read was seen.
ReadsWereSeen ==
    /\ phase # "answered" => \A p \in Places, c \in Components : profile[p][c] \in seen[p][c]
    /\ phase # "own" => \A c \in Components : own[c] \in seen[asked][c]
    /\ phase \in {"respond", "answered"} =>
          \/ parents = Nothing
          \/ \A c \in Components : parents[c] \in seen[ParentOf[asked]][c]

AnswerComputed == phase = "answered" => answer = ComputeEffectiveProfile(own, parents)

Inv == TypeOK /\ ReadsWereSeen /\ AnswerComputed

LEMMA InitInv == ASSUME Init PROVE Inv
<1> USE DEF Init
<1>1. DOMAIN ParentOf = {Child, Parent} /\ Nothing \in Profile
  BY DEF ParentOf, Nothing, Profile
<1>2. profile \in [Places -> Profile]
  BY DEF Profile, Unmarked
<1>3. seen \in [Places -> [Components -> SUBSET (Component \cup {Missing})]]
  BY <1>2 DEF Now, Profile
<1>4. TypeOK
  BY <1>1, <1>2, <1>3, PlaceReadAssumption DEF TypeOK
<1>5. ReadsWereSeen /\ AnswerComputed
  BY DEF ReadsWereSeen, AnswerComputed, Now
<1> QED BY <1>4, <1>5 DEF Inv

\* What a write can store in a component.
LEMMA MergedType ==
  ASSUME NEW old \in Component \cup {Missing}, NEW sent \in Component
  PROVE  Merged(old, sent) \in Component
<1>1. CASE old = Missing
  BY <1>1 DEF Merged, Component
<1>2. CASE old \in Component
  BY <1>2 DEF Merged, Component
<1> QED BY <1>1, <1>2

LEMMA StoreType ==
  ASSUME TypeOK, NEW p \in Places, NEW c \in Components,
         NEW k \in Component \cup {Missing}, Store(p, [profile[p] EXCEPT ![c] = k])
  PROVE  /\ profile' \in [Places -> Profile]
         /\ writes' \in 0..MaxWrites
         /\ profile'[p][c] = k
         /\ \A q \in Places, d \in Components :
               q # p \/ d # c => profile'[q][d] = profile[q][d]
<1>1. [profile[p] EXCEPT ![c] = k] \in Profile
  BY DEF TypeOK, Profile
<1> QED BY <1>1, PlaceReadAssumption DEF Store, TypeOK, Profile

LEMMA WriteInv ==
  ASSUME Inv, NEW p \in Places, NEW c \in Components, Write(p, c)
  PROVE  Inv'
<1>1. PICK k \in Component \cup {Missing} : Store(p, [profile[p] EXCEPT ![c] = k])
  <2>1. profile[p][c] \in Component \cup {Missing}
    BY DEF Inv, TypeOK, Profile
  <2>2. Unmarked \subseteq Component
    BY DEF Unmarked
  <2> QED BY <2>1, <2>2, MergedType DEF Write
<1>2. /\ profile' \in [Places -> Profile]
      /\ writes' \in 0..MaxWrites
      /\ profile'[p][c] = k
      /\ \A q \in Places, d \in Components : q # p \/ d # c => profile'[q][d] = profile[q][d]
  BY <1>1, StoreType DEF Inv
<1>3. /\ seen' = [seen EXCEPT ![p][c] = @ \cup {k}]
      /\ UNCHANGED request /\ phase # "answered"
  BY <1>2 DEF Write
<1>4. seen' \in [Places -> [Components -> SUBSET (Component \cup {Missing})]]
  BY <1>3 DEF Inv, TypeOK
<1>5. \A q \in Places, d \in Components : seen[q][d] \subseteq seen'[q][d]
  BY <1>3 DEF Inv, TypeOK
<1>6. k \in seen'[p][c]
  BY <1>3 DEF Inv, TypeOK
<1>7. asked \in Places /\ ParentOf[asked] \in Places
  BY DEF Inv, TypeOK, Places, ParentOf
<1>8. TypeOK'
  BY <1>2, <1>3, <1>4 DEF Inv, TypeOK, request
<1>9. ReadsWereSeen'
  BY <1>2, <1>3, <1>5, <1>6, <1>7 DEF Inv, ReadsWereSeen, request
<1>10. AnswerComputed'
  BY <1>3 DEF AnswerComputed, request
<1> QED BY <1>8, <1>9, <1>10 DEF Inv

LEMMA ReadInv == ASSUME Inv, ReadOwn \/ ReadParent \/ Respond PROVE Inv'
<1>1. asked \in Places /\ ParentOf[asked] \in Places
  BY DEF Inv, TypeOK, Places, ParentOf
<1>2. Nothing \in Profile
  BY DEF Nothing, Profile
<1>3. UNCHANGED <<profile, seen, asked, writes>>
  BY DEF ReadOwn, ReadParent, Respond
<1>4. TypeOK'
  BY <1>1, <1>2, <1>3 DEF Inv, TypeOK, ReadOwn, ReadParent, Respond
<1>5. ReadsWereSeen'
  BY <1>1, <1>3 DEF Inv, ReadsWereSeen, ReadOwn, ReadParent, Respond
<1>6. AnswerComputed'
  <2>1. CASE Respond
    BY <2>1 DEF Respond, AnswerComputed, ComputeEffectiveProfile
  <2>2. CASE ReadOwn \/ ReadParent
    BY <2>2 DEF ReadOwn, ReadParent, AnswerComputed
  <2> QED BY <2>1, <2>2
<1> QED BY <1>4, <1>5, <1>6 DEF Inv

\* Where an answered component comes from.
LEMMA AnswerFrom ==
  ASSUME Inv, phase = "answered", NEW c \in Components
  PROVE  /\ answer[c] \in Component \cup {Missing}
         /\ IF own[c] = Missing /\ parents[c] # Missing
            THEN /\ answer[c] # Missing
                 /\ answer[c].fact = parents[c].fact /\ answer[c].source = ParentOf[asked]
            ELSE answer[c] = own[c]
<1>1. answer[c] = IF own[c] = Missing /\ parents[c] # Missing
                  THEN Inherited(parents[c], ParentOf[asked]) ELSE own[c]
  BY DEF Inv, AnswerComputed, ComputeEffectiveProfile
<1>2. /\ own[c] \in Component \cup {Missing}
      /\ parents[c] # Missing => parents[c] \in Component
      /\ ParentOf[asked] \in Places
  BY DEF Inv, TypeOK, Profile, ParentOf, Places
<1>3. ASSUME NEW k \in Component, NEW p \in Places
      PROVE  /\ Inherited(k, p) \in Component
             /\ Inherited(k, p).fact = k.fact /\ Inherited(k, p).source = p
  BY DEF Inherited, Component
<1>4. Missing \notin Component
  BY PlaceReadAssumption DEF Component
<1> QED BY <1>1, <1>2, <1>3, <1>4

LEMMA ClientInv == ASSUME Inv, Ask \/ \E c \in Components : SendBack(c) PROVE Inv'
<1>1. CASE Ask
  <2>1. Nothing \in Profile /\ DOMAIN ParentOf = {Child, Parent}
    BY DEF Nothing, Profile, ParentOf
  <2>2. Now(profile) \in [Places -> [Components -> SUBSET (Component \cup {Missing})]]
    BY DEF Now, Inv, TypeOK, Profile
  <2>3. TypeOK'
    BY <1>1, <2>1, <2>2 DEF Ask, Inv, TypeOK
  <2>4. ReadsWereSeen' /\ AnswerComputed'
    BY <1>1 DEF Ask, ReadsWereSeen, AnswerComputed, Now
  <2> QED BY <2>3, <2>4 DEF Inv
<1>2. ASSUME NEW c \in Components, SendBack(c) PROVE Inv'
  <2>1. asked \in Places /\ ParentOf[asked] \in Places
    BY DEF Inv, TypeOK, Places, ParentOf
  <2>2. answer[c] \in Component
    BY <1>2, AnswerFrom DEF SendBack
  <2>3. profile[asked][c] \in Component \cup {Missing}
    BY <2>1 DEF Inv, TypeOK, Profile
  <2>4. \A f \in Facts : [answer[c] EXCEPT !.fact = f] \in Component
    BY <2>2 DEF Component
  <2>5. PICK k \in Component : Store(asked, [profile[asked] EXCEPT ![c] = k])
    BY <1>2, <2>3, <2>4, MergedType DEF SendBack
  <2>6. profile' \in [Places -> Profile] /\ writes' \in 0..MaxWrites
    BY <2>1, <2>5, StoreType DEF Inv
  <2>7. UNCHANGED <<request, seen>> /\ phase = "answered"
    BY <1>2 DEF SendBack
  <2>8. TypeOK'
    BY <2>6, <2>7 DEF Inv, TypeOK, request
  <2>9. ReadsWereSeen' /\ AnswerComputed'
    BY <2>7 DEF Inv, ReadsWereSeen, AnswerComputed, ComputeEffectiveProfile, request
  <2> QED BY <2>8, <2>9 DEF Inv
<1> QED BY <1>1, <1>2

LEMMA ReadInvariant == Spec => []Inv
<1>1. Init => Inv
  BY InitInv
<1>2. Inv /\ [Next]_vars => Inv'
  <2> SUFFICES ASSUME Inv, [Next]_vars PROVE Inv'
    OBVIOUS
  <2>1. CASE UNCHANGED vars
    BY <2>1 DEF vars, Inv, TypeOK, ReadsWereSeen, AnswerComputed, ComputeEffectiveProfile
  <2> QED BY <2>1, WriteInv, ReadInv, ClientInv DEF Next
<1> QED BY <1>1, <1>2, PTL DEF Spec

\* A component the place has for as long as the request lasts is answered, and as
\* the place stored it; the parent's is answered only where the place had none,
\* and a component is left out only where there was none to answer.
THEOREM OwnGoFirst == Spec => []OwnComponentsWin
<1>1. Inv => OwnComponentsWin
  <2> SUFFICES ASSUME Inv, phase = "answered", NEW c \in Components
               PROVE  /\ Missing \notin seen[asked][c] => answer[c] \in seen[asked][c]
                      /\ answer[c] = Missing =>
                            /\ Missing \in seen[asked][c]
                            /\ Missing \in seen[ParentOf[asked]][c] \/ parents = Nothing
    BY DEF OwnComponentsWin
  <2>1. /\ own[c] \in seen[asked][c]
        /\ parents = Nothing \/ parents[c] \in seen[ParentOf[asked]][c]
    BY DEF Inv, ReadsWereSeen
  <2>2. CASE own[c] = Missing /\ parents[c] # Missing
    BY <2>1, <2>2, AnswerFrom
  <2>3. CASE ~(own[c] = Missing /\ parents[c] # Missing)
    BY <2>1, <2>3, AnswerFrom
  <2> QED BY <2>2, <2>3
<1> QED BY <1>1, ReadInvariant, PTL

\* Nothing is answered that the place or its parent did not store during the
\* request, and but for marks the place itself stored it is attributed to the one
\* that did.
THEOREM NothingMadeUp == Spec => []OnlyStoredMarksMislead
<1>1. Inv => OnlyStoredMarksMislead
  <2> SUFFICES ASSUME Inv, phase = "answered", NEW c \in Components, answer[c] # Missing
               PROVE  \/ AttributedTruly(c)
                      \/ answer[c].source # None /\ answer[c] \in seen[asked][c]
    BY DEF OnlyStoredMarksMislead
  <2>1. /\ own[c] \in seen[asked][c]
        /\ parents = Nothing \/ parents[c] \in seen[ParentOf[asked]][c]
    BY DEF Inv, ReadsWereSeen
  <2>2. CASE own[c] = Missing /\ parents[c] # Missing
    <3>1. parents[c] \in seen[ParentOf[asked]][c]
      BY <2>1, <2>2 DEF Nothing
    <3>2. answer[c].fact = parents[c].fact /\ answer[c].source = ParentOf[asked]
      BY <2>2, AnswerFrom
    <3>3. ParentOf[asked] # None
      BY PlaceReadAssumption DEF Inv, TypeOK, ParentOf, Places
    <3> QED BY <2>2, <3>1, <3>2, <3>3 DEF AttributedTruly
  <2>3. CASE ~(own[c] = Missing /\ parents[c] # Missing)
    <3>1. answer[c] \in seen[asked][c]
      BY <2>1, <2>3, AnswerFrom
    <3>2. CASE answer[c].source = None
      BY <3>1, <3>2 DEF AttributedTruly
    <3> QED BY <3>1, <3>2
  <2> QED BY <2>2, <2>3
<1> QED BY <1>1, ReadInvariant, PTL
=============================================================================
