-------------------------------- MODULE A11y --------------------------------
(***************************************************************************)
(* The audit flags of the accessibility rule engine.                       *)
(*                                                                         *)
(* What a profile says is a function of the properties it can hold, each a *)
(* pair of component and property.  A boolean property and a measure are   *)
(* rated alike: Yes is true or good, No is false or no; what is limited or *)
(* null is neither.  A component that is null has no property.             *)
(***************************************************************************)
CONSTANTS Yes, No

\* The properties whose No raises a flag.
Flagged ==
    {<<"entrance", "width">>, <<"entrance", "is_level">>,
     <<"pathways", "width">>,
     <<"restroom", "door_width">>, <<"restroom", "turning_radius">>,
     <<"restroom", "has_grab_rails">>,
     <<"parking", "has_disabled_spaces">>,
     <<"elevator", "width">>, <<"elevator", "depth">>, <<"elevator", "door_width">>,
     <<"elevator", "has_braille">>, <<"elevator", "has_audio">>}

Ramps == {<<"entrance", "has_fixed_ramp">>, <<"entrance", "has_removable_ramp">>}

HasRamp(content) == \E r \in Ramps \cap DOMAIN content : content[r] = Yes

\* WithAuditFlags: a property is flagged only on an explicit No, never on null,
\* and an entrance that is not level only if no ramp leads to it.
FlagsOf(content) ==
    {f \in Flagged \cap DOMAIN content :
        content[f] = No /\ (f = <<"entrance", "is_level">> => ~HasRamp(content))}
=============================================================================
