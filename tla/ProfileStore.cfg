\* Two PATCH requests, an ingestion and a POST on two places: one has an
\* imported profile, the other, which the POST creates, may have none.
CONSTANTS
    Fields <- MCFields
    Ratings = {yes, no}
    Yes = yes
    No = no
    Absent = Absent
    Keep = Keep
    NoRow = NoRow
    Nobody = Nobody
    NoInput = NoInput
    Places = {a, b}
    InitialPlaces = {a}
    ImportedPlaces = {a}
    Patchers = {r1, r2}
    Ingesters = {i1}
    Posters = {q1}
    Patches <- MCPatches
    Contents <- MCContents
    MaxAttempts = 2
SPECIFICATION FairSpec
INVARIANTS TypeOK NoLostUpdate WritersSerialized FlagsMatchComponents
    OneCreateLogged NoConflictReturned
PROPERTIES VerifiedForever ImplementsRegister EveryRequestEnds
