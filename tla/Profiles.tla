------------------------------ MODULE Profiles ------------------------------
(***************************************************************************)
(* The values an accessibility profile row can hold, and the two functions *)
(* that compute one from another: the RFC 7396 merge a PATCH applies and   *)
(* the audit flags every writer derives from the components it stores.     *)
(*                                                                         *)
(* A component's field (entrance.width, elevator.depth, ...) is a member   *)
(* of Fields; it is rated with a member of Ratings or is Absent (null).    *)
(***************************************************************************)
EXTENDS A11y

CONSTANTS
    Fields,     \* the component fields of a profile
    Ratings,    \* what a field can be rated
    Absent,     \* a field that is null
    Keep,       \* a field the patch does not mention
    NoRow,      \* there is no profile row for the place
    Nobody      \* submitted_by is NULL

ASSUME RatingAssumption ==
    /\ {Yes, No} \subseteq Ratings
    /\ Absent \notin Ratings
    /\ Keep \notin Ratings \cup {Absent}

\* The components of a profile, as stored.
Content == [Fields -> Ratings \cup {Absent}]

\* A merge patch: an omitted field is kept, an explicit null clears it.
Patch == [Fields -> Ratings \cup {Absent, Keep}]

\* A profile row; submitters is the set of keys that may have written it.
Row(submitters) ==
    [content  : Content,
     flags    : SUBSET Fields,
     verified : BOOLEAN,
     by       : submitters \cup {Nobody}]

\* The JSON "{}" the merge starts from when there is no row.
EmptyContent == [f \in Fields |-> Absent]

\* The components the merge starts from: the locked row's, or "{}".
Base(old) == IF old = NoRow THEN EmptyContent ELSE old.content

\* Faulty variant: the patch replaces the components.
ReplaceByPatch(content, patch) == patch

MergePatch(content, patch) ==
    [f \in Fields |-> IF patch[f] = Keep THEN content[f] ELSE patch[f]]

\* Faulty variant: the flags of the stored row are kept with the merge.
PatchedStaleFlags(old, patch, key) ==
    LET merged == MergePatch(Base(old), patch)
    IN  [content |-> merged, flags |-> FlagsOf(Base(old)),
         verified |-> TRUE, by |-> key]

\* The row a PATCH by key leaves: merged components, flags recomputed over all
\* of them, and the key's verification.
Patched(old, patch, key) ==
    LET merged == MergePatch(Base(old), patch)
    IN  [content |-> merged, flags |-> FlagsOf(merged),
         verified |-> TRUE, by |-> key]

\* Faulty variant: the ingestion also writes user_verified = false.
IngestedUnverified(old, content) ==
    [content |-> content, flags |-> FlagsOf(content), verified |-> FALSE,
     by |-> Nobody]

\* The row an ingestion leaves: its content replaces everything, the
\* submission is cleared, and an UPDATE leaves user_verified as it finds it.
Ingested(old, content) ==
    [content |-> content, flags |-> FlagsOf(content),
     verified |-> IF old = NoRow THEN FALSE ELSE old.verified, by |-> Nobody]
=============================================================================
