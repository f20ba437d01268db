------------------------------ MODULE OsmTags ------------------------------
(***************************************************************************)
(* What the OSM source derives from an element's tags: whether it is a     *)
(* place and of which category (filter.go), its rank (rank.go), and the    *)
(* accessibility profile (a11y.go) with the engine's audit flags.          *)
(*                                                                         *)
(* A tag's value is abstracted to what the code tells apart; "absent" also *)
(* stands for the values the code treats as if the tag were missing.       *)
(* Amenities are represented by one of each category and rank.  Widths     *)
(* are centimetres, inclines hundredths of a percent.                      *)
(***************************************************************************)
EXTENDS Integers, A11y

CONSTANT None   \* nil

Unread == None  \* a measure that is missing or does not parse

\* Levels and measures differ from each other and from what is not there.
ASSUME OsmTagsAssumption ==
    /\ Yes # No
    /\ {Yes, No} \cap {"limited", None} = {}
    /\ None \notin Int

AmenityToCategory ==
    [restaurant |-> "restaurant", cafe |-> "cafe", pub |-> "bar",
     hospital |-> "healthcare", pharmacy |-> "healthcare",
     university |-> "education", school |-> "education",
     atm |-> "finance", bank |-> "finance",
     cinema |-> "entertainment", townhall |-> "government",
     bus_station |-> "transport", taxi |-> "transport",
     shelter |-> "social", social_facility |-> "social",
     place_of_worship |-> "worship", toilets |-> "toilet", marketplace |-> "other"]

PublicTransportAllowlist == {"station", "stop_area"}

\* The values the modelled tags take.  qualifying is any of tourism, leisure,
\* office and healthcare; door is automatic_door with a value other than no;
\* steps is step_count or entrance:step_count with a positive number.
TagValues ==
    [amenity : DOMAIN AmenityToCategory \cup {"unmapped", "absent"},
     public_transport : PublicTransportAllowlist \cup {"platform", "absent"},
     shop : BOOLEAN, building : BOOLEAN, qualifying : BOOLEAN,
     wheelchair : {"known", "absent"},
     toilets : {"yes", "no", "absent"},
     capacity : {"some", "zero", "unreadable", "absent"},
     parking_no : BOOLEAN,
     door : BOOLEAN, steps : BOOLEAN,
     ramp_wheelchair : {"yes", "no", "other", "absent"}, ramp_no : BOOLEAN,
     width : Int \cup {Unread}, door_width : Int \cup {Unread},
     incline : Int \cup {Unread},
     elevator : BOOLEAN]

-----------------------------------------------------------------------------
(* Category and rank                                                       *)

\* Faulty variant: public_transport is looked at before the amenity.
EvaluateTransportFirst(tags) ==
    IF tags.public_transport \in PublicTransportAllowlist THEN "transport"
    ELSE IF tags.amenity \in DOMAIN AmenityToCategory THEN AmenityToCategory[tags.amenity]
    ELSE IF tags.shop THEN "shop"
    ELSE None

\* The category of an element, None if it is not to be ingested.
Evaluate(tags) ==
    IF tags.amenity \in DOMAIN AmenityToCategory THEN AmenityToCategory[tags.amenity]
    ELSE IF tags.public_transport \in PublicTransportAllowlist THEN "transport"
    ELSE IF tags.shop THEN "shop"
    ELSE IF tags.building /\ \/ tags.amenity # "absent"
                             \/ tags.public_transport # "absent"
                             \/ tags.qualifying
         THEN "other"
    ELSE None

Landmark == 1
Establishment == 2
Feature == 3

DeriveRank(category, tags) ==
    CASE category = "healthcare" /\ tags.amenity = "hospital" -> Landmark
      [] category = "education" /\ tags.amenity = "university" -> Landmark
      [] category = "transport" /\ \/ tags.amenity = "bus_station"
                                   \/ tags.public_transport = "station" -> Landmark
      [] category = "toilet" -> Feature
      [] category \in {"finance", "social"} /\ tags.amenity \in {"atm", "shelter"} -> Feature
      [] OTHER -> Establishment

-----------------------------------------------------------------------------
(* The profile                                                             *)

LevelForDoorWidth(cm) == IF cm >= 80 THEN Yes ELSE IF cm >= 70 THEN "limited" ELSE No

\* parsePercent drops the sign.
Steepness(p) == IF p < 0 THEN -p ELSE p

LevelForSlopePercent(p) == IF p <= 600 THEN Yes ELSE IF p <= 833 THEN "limited" ELSE No

\* Only yes and no are taken over.
YesNo(v) == IF v = "yes" THEN Yes ELSE IF v = "no" THEN No ELSE None

mapRestroom(tags) == [is_accessible |-> YesNo(tags.toilets)]

\* A capacity that does not parse hides parking:disabled=no.
mapParking(tags) ==
    [has_disabled_spaces |->
        CASE tags.capacity = "some" -> Yes
          [] tags.capacity = "zero" -> No
          [] tags.capacity = "absent" /\ tags.parking_no -> No
          [] OTHER -> None]

\* parseMetres: the first of the two that parses.
Metres(tags) == IF tags.width # Unread THEN tags.width ELSE tags.door_width

\* Faulty variant: ramp=no is taken over whatever ramp:wheelchair says.
FixedRampAnyNo(tags) ==
    IF tags.ramp_no THEN No ELSE YesNo(tags.ramp_wheelchair)

\* ramp is looked at only if ramp:wheelchair is absent, and only for no.
FixedRamp(tags) ==
    IF tags.ramp_wheelchair # "absent" THEN YesNo(tags.ramp_wheelchair)
    ELSE IF tags.ramp_no THEN No
    ELSE None

mapEntrance(tags) ==
    [door |-> IF tags.door THEN Yes ELSE None,
     is_level |-> IF tags.steps THEN No ELSE None,
     has_fixed_ramp |-> FixedRamp(tags),
     width |-> IF Metres(tags) = Unread THEN None ELSE LevelForDoorWidth(Metres(tags)),
     slope_percent |-> IF tags.incline = Unread THEN None
                       ELSE LevelForSlopePercent(Steepness(tags.incline))]

\* The components with properties; one that states nothing is nil.
Stating == {"entrance", "restroom", "parking"}

Content(profile) ==
    [f \in UNION {{<<c, p>> : p \in DOMAIN profile[c]} : c \in Stating} |->
        profile[f[1]][f[2]]]

\* None if the tags say nothing of accessibility.
mapTagsToProfile(tags) ==
    LET profile == [reported |-> tags.wheelchair = "known",
                    entrance |-> mapEntrance(tags),
                    restroom |-> mapRestroom(tags),
                    parking |-> mapParking(tags),
                    elevator |-> tags.elevator]
    IN IF \/ profile.reported \/ profile.elevator
          \/ \E f \in DOMAIN Content(profile) : Content(profile)[f] # None
       THEN profile ELSE None

WithAuditFlags(profile) == [profile |-> profile, flags |-> FlagsOf(Content(profile))]
=============================================================================
