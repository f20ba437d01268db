--------------------------- MODULE MCProfileStore ---------------------------
(* Instances of ProfileStore for TLC: an entrance with steps and a ramp, the *)
(* second of which decides whether the first is flagged.                     *)
EXTENDS ProfileStore

level == <<"entrance", "is_level">>
ramp == <<"entrance", "has_fixed_ramp">>
MCFields == {level, ramp}

\* Steps, and the ramp is not mentioned; a ramp, and the steps are cleared.
MCPatches ==
    {[f \in MCFields |-> IF f = level THEN No ELSE Keep],
     [f \in MCFields |-> IF f = level THEN Absent ELSE Yes]}

\* One ingested profile: no ramp, and nothing known of steps.
MCContents == {[f \in MCFields |-> IF f = level THEN Absent ELSE No]}
=============================================================================
