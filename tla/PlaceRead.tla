----------------------------- MODULE PlaceRead -----------------------------
(***************************************************************************)
(* GET /v1/places/{id} and the client behind it.  The place with its       *)
(* profile is read, then its parent with its profile, in two queries of no *)
(* common transaction, and ComputeEffectiveProfile gives the place the     *)
(* components it lacks from its parent, marked as inherited.  Profiles are *)
(* written meanwhile by others, and the client may send components it was  *)
(* answered back in a PATCH, as they are or edited.                        *)
(***************************************************************************)
EXTENDS Naturals

CONSTANTS
    Components,     \* entrance, pathways, restroom, parking, elevator
    Facts,          \* what a component can say
    Child,          \* a place with a parent
    Parent,         \* its parent, which has one too
    Grandparent,    \* the parent's parent
    None,           \* is_inherited is false and source_id empty
    Missing,        \* a component the profile does not have
    MaxWrites       \* bound: PATCHes and ingestions of all places

Places == {Child, Parent, Grandparent}

ASSUME PlaceReadAssumption ==
    /\ Child # Parent /\ Child # Grandparent /\ Parent # Grandparent
    /\ None \notin Places
    /\ Missing \notin [fact : Facts, source : Places \cup {None}]
    /\ MaxWrites \in Nat

\* A component with its is_inherited and source_id: inherited iff it has a source.
Component == [fact : Facts, source : Places \cup {None}]
Profile == [Components -> Component \cup {Missing}]
Nothing == [c \in Components |-> Missing]

ParentOf == [p \in {Child, Parent} |-> IF p = Child THEN Parent ELSE Grandparent]

VARIABLES
    profile,    \* the stored components of each place
    writes,     \* writes so far
    phase,      \* "own", "parent", "respond" or "answered"
    asked,      \* the place asked for
    own,        \* its components as read
    parents,    \* its parent's components as read
    answer,     \* the components of the response
    seen        \* history: values of each component of each place in the request

vars == <<profile, writes, phase, asked, own, parents, answer, seen>>
request == <<phase, asked, own, parents, answer>>

Now(profiles) == [p \in Places |-> [c \in Components |-> {profiles[p][c]}]]

Unmarked == {k \in Component : k.source = None}

Init ==
    /\ profile \in [Places -> [Components -> Unmarked \cup {Missing}]]
    /\ writes = 0
    /\ phase = "own"
    /\ asked \in DOMAIN ParentOf
    /\ own = Nothing
    /\ parents = Nothing
    /\ answer = Nothing
    /\ seen = Now(profile)

Store(p, new) ==
    /\ writes < MaxWrites
    /\ writes' = writes + 1
    /\ profile' = [profile EXCEPT ![p] = new]

\* The stored component after a PATCH that sends an object for it: merge-patch
\* keeps what the object does not mention, and no mark is mentioned by leaving
\* is_inherited and source_id out.
Merged(old, sent) ==
    [fact |-> sent.fact,
     source |-> IF sent.source # None \/ old = Missing THEN sent.source ELSE old.source]

\* Another client's PATCH or POST of components it knows, or clears, or an
\* ingestion, which replaces the components as they are.
Write(p, c) ==
    /\ phase # "answered"
    /\ \/ Store(p, [profile[p] EXCEPT ![c] = Missing])
       \/ \E k \in Unmarked :
             \/ Store(p, [profile[p] EXCEPT ![c] = k])
             \/ Store(p, [profile[p] EXCEPT ![c] = Merged(@, k)])
    /\ seen' = [seen EXCEPT ![p][c] = @ \cup {profile'[p][c]}]
    /\ UNCHANGED request

ReadOwn ==
    /\ phase = "own"
    /\ own' = profile[asked]
    /\ phase' = "parent"
    /\ UNCHANGED <<profile, writes, asked, parents, answer, seen>>

\* The parent's row; if it cannot be loaded the place is answered as it was read.
ReadParent ==
    /\ phase = "parent"
    /\ parents' \in {profile[ParentOf[asked]], Nothing}
    /\ phase' = "respond"
    /\ UNCHANGED <<profile, writes, asked, own, answer, seen>>

Inherited(k, from) == [k EXCEPT !.source = from]

\* Faulty variant: the parent is given its own inherited components first.
EffectiveFromAncestors(mine, theirs) ==
    [c \in Components |->
        IF mine[c] # Missing THEN mine[c]
        ELSE IF theirs[c] # Missing THEN Inherited(theirs[c], ParentOf[asked])
        ELSE IF profile[Grandparent][c] # Missing
             THEN Inherited(profile[Grandparent][c], ParentOf[asked])
             ELSE Missing]

\* Faulty variant: the parent's component goes before the child's.
EffectiveParentFirst(mine, theirs) ==
    [c \in Components |->
        IF theirs[c] # Missing THEN Inherited(theirs[c], ParentOf[asked]) ELSE mine[c]]

\* A component is the place's own, as it is stored, or, if it has none, a copy of
\* the parent's with IsInherited and SourceID set.
ComputeEffectiveProfile(mine, theirs) ==
    [c \in Components |->
        IF mine[c] = Missing /\ theirs[c] # Missing
        THEN Inherited(theirs[c], ParentOf[asked])
        ELSE mine[c]]

Respond ==
    /\ phase = "respond"
    /\ answer' = ComputeEffectiveProfile(own, parents)
    /\ phase' = "answered"
    /\ UNCHANGED <<profile, writes, asked, own, parents, seen>>

\* The client PATCHes a component it was answered, with its fact or another; it
\* leaves out audit_flags, which are read-only, and need not know of the marks.
SendBack(c) ==
    /\ phase = "answered"
    /\ answer[c] # Missing
    /\ \E f \in Facts :
          Store(asked, [profile[asked] EXCEPT ![c] = Merged(@, [answer[c] EXCEPT !.fact = f])])
    /\ UNCHANGED <<request, seen>>

\* The next request.
Ask ==
    /\ phase = "answered"
    /\ asked' \in DOMAIN ParentOf
    /\ phase' = "own"
    /\ own' = Nothing
    /\ parents' = Nothing
    /\ answer' = Nothing
    /\ seen' = Now(profile)
    /\ UNCHANGED <<profile, writes>>

Next ==
    \/ ReadOwn \/ ReadParent \/ Respond \/ Ask
    \/ \E c \in Components : SendBack(c) \/ \E p \in Places : Write(p, c)

Spec == Init /\ [][Next]_vars

-----------------------------------------------------------------------------
(* Properties                                                              *)

\* A component the place had all through the request is answered as the place
\* stored it, with the marks it was sent with, whatever the parent has, although the
\* two are read at different instants; a component of the parent's is answered only
\* if at some instant the place lacked it, and none only if at some instant neither
\* had one or the parent could not be loaded.
OwnComponentsWin ==
    phase = "answered" => \A c \in Components :
        LET mine == seen[asked][c]
            theirs == seen[ParentOf[asked]][c]
        IN /\ Missing \notin mine => answer[c] \in mine
           /\ answer[c] = Missing =>
                 Missing \in mine /\ (Missing \in theirs \/ parents = Nothing)

\* What the answer says of c was stored during the request by the place it is
\* attributed to: the one asked for, or the one its mark names.
AttributedTruly(c) ==
    LET from == IF answer[c].source = None THEN asked ELSE answer[c].source
    IN \E k \in seen[from][c] : k # Missing /\ k.fact = answer[c].fact

\* Every component answered was stored where it is attributed: is_inherited and
\* source_id are computed on every read and never stored, as the documentation
\* says.  A client that sends an inherited component back, and edits it or has the
\* parent edited, breaks it: the PATCH stores the mark.
AnsweredFactsWereStored ==
    phase = "answered" =>
        \A c \in Components : answer[c] # Missing => AttributedTruly(c)

\* Nothing else breaks it: a component that is not attributed truly carries a mark
\* the place itself stored, and is answered as it was stored.  None is made up,
\* mixed of two places' or handed down from further up than the parent, while both
\* places are written between the two reads.
OnlyStoredMarksMislead ==
    phase = "answered" =>
        \A c \in Components : answer[c] # Missing =>
            \/ AttributedTruly(c)
            \/ answer[c].source # None /\ answer[c] \in seen[asked][c]
=============================================================================
