\* An ingestion that read the profile before a PATCH verified it.
CONSTANTS
    Fields <- MCFields
    Ratings = {yes, no}
    Yes = yes
    No = no
    Absent = Absent
    Keep = Keep
    NoRow = NoRow
    Nobody = Nobody
    NoInput = NoInput
    Places = {a}
    InitialPlaces = {a}
    ImportedPlaces = {}
    Patchers = {r1}
    Ingesters = {i1, i2}
    Posters = {}
    Patches <- MCPatches
    Contents <- MCContents
    MaxAttempts = 2
SPECIFICATION Spec
PROPERTIES IngestionSkipsVerified
