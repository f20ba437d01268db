---------------------------- MODULE MCOsmImport ----------------------------
(***************************************************************************)
(* The extracts TLC imports: single elements over the whole tag space, and *)
(* pairs of short files whose elements differ in what the pipeline tells   *)
(* apart.                                                                  *)
(***************************************************************************)
EXTENDS OsmImport

Untagged ==
    [amenity |-> "absent", public_transport |-> "absent", shop |-> FALSE,
     building |-> FALSE, qualifying |-> FALSE, wheelchair |-> "absent",
     toilets |-> "absent", capacity |-> "absent", parking_no |-> FALSE,
     door |-> FALSE, steps |-> FALSE, ramp_wheelchair |-> "absent",
     ramp_no |-> FALSE, width |-> Unread, door_width |-> Unread,
     incline |-> Unread, elevator |-> FALSE]

Cafe == [Untagged EXCEPT !.amenity = "cafe"]

KindTags ==
    {[Untagged EXCEPT !.amenity = a, !.public_transport = p, !.shop = s,
                      !.building = b, !.qualifying = q] :
        a \in DOMAIN AmenityToCategory \cup {"unmapped", "absent"},
        p \in PublicTransportAllowlist \cup {"platform", "absent"},
        s \in BOOLEAN, b \in BOOLEAN, q \in BOOLEAN}

EntranceTags ==
    {[Cafe EXCEPT !.steps = s, !.ramp_wheelchair = w, !.ramp_no = r, !.width = m,
                  !.door_width = d, !.door = a, !.incline = i] :
        s \in BOOLEAN, w \in {"yes", "no", "other", "absent"}, r \in BOOLEAN,
        m \in {Unread, -1, 69, 70, 80}, d \in {Unread, 69}, a \in BOOLEAN,
        i \in {Unread, 834, -834}}

FacilityTags ==
    {[Cafe EXCEPT !.capacity = c, !.parking_no = p, !.toilets = t,
                  !.wheelchair = w, !.elevator = e] :
        c \in {"some", "zero", "unreadable", "absent"}, p \in BOOLEAN,
        t \in {"yes", "no", "absent"}, w \in {"known", "absent"}, e \in BOOLEAN}

Node(n, t) == [type |-> "node", id |-> n, located |-> TRUE, tags |-> t]
Way(n, l, t) == [type |-> "way", id |-> n, located |-> l, tags |-> t]

Steps == [Cafe EXCEPT !.steps = TRUE]
Parking == [Cafe EXCEPT !.capacity = "zero"]
Toilet == [Cafe EXCEPT !.toilets = "yes"]

SingleElements ==
    {<< <<Node(1, t)>> >> : t \in KindTags \cup EntranceTags \cup FacilityTags}

\* Node 1 and way 1 are places of their own; node 1 loses its profile, node 2
\* and way 1 change theirs, and way 3 and the relation never are places.
FirstFile == <<Node(1, Steps), Way(3, FALSE, Steps), Node(2, Toilet),
               Way(1, TRUE, Parking), Node(4, Untagged)>>
SecondFile == <<[Node(1, Steps) EXCEPT !.type = "relation"], Node(1, Cafe),
                Way(1, TRUE, Toilet), Node(2, Steps)>>

\* A file that holds one key twice, in one batch or in two.
Repeating == {<<Node(1, Steps), Node(1, Toilet)>>,
              <<Node(1, Steps), Node(2, Cafe), Node(1, Toilet)>>}

MCImports ==
    SingleElements \cup {<<f, s>> : f \in Repeating \cup {FirstFile}, s \in {SecondFile}}
=============================================================================
