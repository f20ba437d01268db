\* Every combination of tags in a file of its own, and two runs over files of up
\* to five elements in batches of two.
CONSTANTS
    None = None
    Yes = yes
    No = no
    Verified = Verified
    Imports <- MCImports
    size = 2
SPECIFICATION Spec
INVARIANTS ProfilesMatchPlaces SweepSeesEverything FailureLosesOnlyTheBuffer
INVARIANTS RankFollowsAmenity FlagsFollowTags
CHECK_DEADLOCK FALSE
