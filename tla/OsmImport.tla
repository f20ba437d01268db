----------------------------- MODULE OsmImport -----------------------------
(***************************************************************************)
(* The canonical pipeline from an OSM extract to the tables: the source    *)
(* streams the file and emits a place and perhaps a profile for each       *)
(* element it accepts; the batcher buffers the pairs, upserts a full       *)
(* buffer in one statement, then writes the profiles one by one under the  *)
(* ids the upsert returned, and at the end hands all ids to the sweep.  A  *)
(* flush, a profile write or the process may fail at any point; what was   *)
(* written stays written, and the next run reads its file from the start.  *)
(* Users verify profiles through the API meanwhile.                        *)
(***************************************************************************)
EXTENDS OsmTags, Sequences, FiniteSets

CONSTANTS
    Imports,    \* sequences of files, each imported by one run; a file is a
                \* sequence of elements [type, id, located, tags]
    size,       \* the batcher's size (1000)
    Verified    \* a profile verified by a user

KeyOf(e) == <<e.type, e.id>>
Elements == UNION {{f[n] : n \in DOMAIN f} :
                f \in UNION {{i[n] : n \in DOMAIN i} : i \in Imports}}
Keys == {KeyOf(e) : e \in Elements}

\* The source hands an element on: a way needs resolved nodes, a relation never
\* is, and the tags must qualify.
Accepted(e) ==
    /\ e.type = "node" \/ (e.type = "way" /\ e.located)
    /\ Evaluate(e.tags) # None

\* transform: the columns of the place.
PlaceOf(e) ==
    [category |-> Evaluate(e.tags), rank |-> DeriveRank(Evaluate(e.tags), e.tags),
     tags |-> e.tags]

ASSUME OsmImportAssumption ==
    /\ size \in Nat \ {0}
    /\ Imports \subseteq Seq(Seq([type : {"node", "way", "relation"}, id : Nat,
                                  located : BOOLEAN, tags : TagValues])) \ {<<>>}
    /\ Verified # None
    /\ \A e \in Elements :
          LET derived == mapTagsToProfile(e.tags) IN
          /\ PlaceOf(e) # None
          /\ derived # None => WithAuditFlags(derived) \notin {None, Verified}

VARIABLES
    files,      \* the files of the runs to come, that of the current one first
    at,         \* elements of the current file read
    pc,         \* "stream", "flush", "profiles", "sweep", "done" or "failed"
    final,      \* the source is exhausted
    buffer,     \* elements whose places are buffered
    pending,    \* their profiles, pairwise, or None
    next,       \* the index flushNow's loop is at
    places,     \* the row of each key in places, or None
    profiles,   \* the profile of each place: flagged, Verified or None
    touched,    \* touchedIDs
    written,    \* the number of places the run reports
    profilesWritten     \* and that of profiles

vars == <<files, at, pc, final, buffer, pending, next, places, profiles, touched,
          written, profilesWritten>>
run == <<files, at, final>>
tables == <<places, profiles>>
report == <<touched, written, profilesWritten>>

Elem == files[1][at + 1]
Entries(s) == {s[i] : i \in 1 .. Len(s)}

Init ==
    /\ files \in Imports
    /\ at = 0
    /\ pc = "stream"
    /\ final = FALSE
    /\ buffer = <<>>
    /\ pending = <<>>
    /\ next = 0
    /\ places = [k \in Keys |-> None]
    /\ profiles = [k \in Keys |-> None]
    /\ touched = {}
    /\ written = 0
    /\ profilesWritten = 0

\* The next run: a new process with the next file.
StartRun ==
    /\ pc \in {"done", "failed"}
    /\ Len(files) > 1
    /\ files' = Tail(files)
    /\ at' = 0
    /\ pc' = "stream"
    /\ final' = FALSE
    /\ buffer' = <<>>
    /\ pending' = <<>>
    /\ next' = 0
    /\ touched' = {}
    /\ written' = 0
    /\ profilesWritten' = 0
    /\ UNCHANGED tables

\* An element the source does not emit.
Skip ==
    /\ pc = "stream"
    /\ at < Len(files[1])
    /\ ~Accepted(Elem)
    /\ at' = at + 1
    /\ UNCHANGED <<files, pc, final, buffer, pending, next, tables, report>>

\* sink: both buffers grow by one; a full buffer is flushed before sink returns.
Sink ==
    /\ pc = "stream"
    /\ at < Len(files[1])
    /\ Accepted(Elem)
    /\ at' = at + 1
    /\ buffer' = Append(buffer, Elem)
    /\ pending' = Append(pending, mapTagsToProfile(Elem.tags))
    /\ pc' = IF Len(buffer') >= size THEN "flush" ELSE "stream"
    /\ UNCHANGED <<files, final, next, tables, report>>

\* Faulty variant: the run goes to the sweep without flushing the rest.
EndOfSourceUnflushed ==
    /\ pc = "stream"
    /\ at = Len(files[1])
    /\ final' = TRUE
    /\ pc' = "sweep"
    /\ UNCHANGED <<files, at, buffer, pending, next, tables, report>>

\* The source is exhausted: the final flushNow, which an empty buffer skips.
EndOfSource ==
    /\ pc = "stream"
    /\ at = Len(files[1])
    /\ final' = TRUE
    /\ pc' = IF buffer = <<>> THEN "sweep" ELSE "flush"
    /\ UNCHANGED <<files, at, buffer, pending, next, tables, report>>

\* Two elements of one key in a statement: PostgreSQL refuses to update a row
\* twice, and only Fail is left.
Duplicated == \E i, j \in DOMAIN buffer : i # j /\ KeyOf(buffer[i]) = KeyOf(buffer[j])

\* Faulty variant: a place that exists is left as it is.
FlushDoNothing ==
    /\ pc = "flush"
    /\ ~Duplicated
    /\ places' = [k \in Keys |->
                    IF places[k] = None /\ \E e \in Entries(buffer) : KeyOf(e) = k
                    THEN PlaceOf(CHOOSE e \in Entries(buffer) : KeyOf(e) = k)
                    ELSE places[k]]
    /\ written' = written + Len(buffer)
    /\ next' = 1
    /\ pc' = "profiles"
    /\ UNCHANGED <<run, buffer, pending, profiles, touched, profilesWritten>>

\* UpsertBatch: all places of the buffer in one statement, which overwrites the
\* columns of those that exist.
Flush ==
    /\ pc = "flush"
    /\ ~Duplicated
    /\ places' = [k \in Keys |->
                    IF \E e \in Entries(buffer) : KeyOf(e) = k
                    THEN PlaceOf(CHOOSE e \in Entries(buffer) : KeyOf(e) = k)
                    ELSE places[k]]
    /\ written' = written + Len(buffer)
    /\ next' = 1
    /\ pc' = "profiles"
    /\ UNCHANGED <<run, buffer, pending, profiles, touched, profilesWritten>>

\* One turn of the loop: the id is touched and the profile, if there is one,
\* flagged and stored in place of one that no user has verified.
WriteProfile ==
    LET key == KeyOf(buffer[next])
        stored == pending[next] # None /\ profiles[key] # Verified
    IN
    /\ pc = "profiles"
    /\ next <= Len(buffer)
    /\ touched' = touched \cup {key}
    /\ profiles' = IF stored
                   THEN [profiles EXCEPT ![key] = WithAuditFlags(pending[next])]
                   ELSE profiles
    /\ profilesWritten' = profilesWritten + IF stored THEN 1 ELSE 0
    /\ next' = next + 1
    /\ UNCHANGED <<run, pc, buffer, pending, places, written>>

\* Faulty variant: only the places are cleared, and the next batch's profiles
\* pile up behind the last one's.
EndFlushKeepingProfiles ==
    /\ pc = "profiles"
    /\ next > Len(buffer)
    /\ buffer' = <<>>
    /\ pc' = IF final THEN "sweep" ELSE "stream"
    /\ UNCHANGED <<run, pending, next, tables, report>>

\* Both buffers are emptied together; the sweep follows the final flush.
EndFlush ==
    /\ pc = "profiles"
    /\ next > Len(buffer)
    /\ buffer' = <<>>
    /\ pending' = <<>>
    /\ pc' = IF final THEN "sweep" ELSE "stream"
    /\ UNCHANGED <<run, next, tables, report>>

\* The sweep's outcome does not change that of the run.
SweepAndReport ==
    /\ pc = "sweep"
    /\ pc' = "done"
    /\ UNCHANGED <<run, buffer, pending, next, tables, report>>

\* The stream, the flush or a profile write returns an error, which ends the
\* run with its buffers as they are; or the process dies.
Fail ==
    /\ pc \in {"stream", "flush", "profiles"}
    /\ pc' = "failed"
    /\ UNCHANGED <<run, buffer, pending, next, tables, report>>

\* A profile write fails after its place was touched.
ProfileFails ==
    /\ pc = "profiles"
    /\ next <= Len(buffer)
    /\ pending[next] # None
    /\ touched' = touched \cup {KeyOf(buffer[next])}
    /\ pc' = "failed"
    /\ UNCHANGED <<run, buffer, pending, next, tables, written, profilesWritten>>

\* A user's PATCH of a place in the table.
Verify(k) ==
    /\ places[k] # None
    /\ profiles' = [profiles EXCEPT ![k] = Verified]
    /\ UNCHANGED <<run, pc, buffer, pending, next, places, report>>

Next ==
    \/ StartRun \/ Skip \/ Sink \/ EndOfSource
    \/ Flush \/ WriteProfile \/ EndFlush
    \/ SweepAndReport \/ Fail \/ ProfileFails
    \/ \E k \in Keys : Verify(k)

Spec == Init /\ [][Next]_vars

-----------------------------------------------------------------------------
(* Properties                                                              *)

\* The elements the source has emitted of the current file, their keys, and the
\* last of them for a key.
Emitted == {i \in 1 .. at : Accepted(files[1][i])}
EmittedKeys == {KeyOf(files[1][i]) : i \in Emitted}
LastOf(k) == files[1][CHOOSE i \in Emitted :
                        /\ KeyOf(files[1][i]) = k
                        /\ \A j \in Emitted : KeyOf(files[1][j]) = k => j <= i]

\* A stored profile was derived from the tags of its own place, over any number
\* of flushes and runs (buffer and pendingProfiles stay index-aligned).
ProfilesMatchPlaces ==
    \A k \in Keys : profiles[k] \notin {None, Verified} =>
        \E e \in Elements : /\ KeyOf(e) = k
                            /\ mapTagsToProfile(e.tags) = profiles[k].profile

\* When the sweep starts, the tables say of every element the source emitted
\* what this file says of it last, whatever earlier or failed runs have left,
\* unless a user verified the profile; the sweep knows all of their places.
SweepSeesEverything ==
    pc \in {"sweep", "done"} =>
        /\ touched = EmittedKeys
        /\ written = Cardinality(Emitted)
        /\ profilesWritten <= written
        /\ \A k \in EmittedKeys :
              LET derived == mapTagsToProfile(LastOf(k).tags) IN
              /\ places[k] = PlaceOf(LastOf(k))
              /\ derived # None =>
                    profiles[k] = Verified \/ profiles[k].profile = derived

\* At whatever point a run fails, a profile is stored only for a place that is
\* in the table, and only what is still buffered is missing from the table.
FailureLosesOnlyTheBuffer ==
    /\ \A k \in Keys : profiles[k] # None => places[k] # None
    /\ \A k \in touched : places[k] # None
    /\ \A k \in EmittedKeys :
          \/ places[k] = PlaceOf(LastOf(k))
          \/ \E b \in Entries(buffer) : KeyOf(b) = k
    /\ Len(buffer) <= size

\* The schema's comment on rank: hospitals, universities and hubs are landmarks,
\* toilets, ATMs and shelters features, also inside a station or a shop.
RankFollowsAmenity ==
    \A k \in Keys : places[k] # None =>
        LET amenity == places[k].tags.amenity IN
        /\ amenity \in {"hospital", "university", "bus_station"} => places[k].rank = Landmark
        /\ amenity \in {"toilets", "atm", "shelter"} => places[k].rank = Feature

\* The flags of a stored profile are the barriers the tags state: a ramp for
\* wheelchairs outweighs steps and ramp=no, a capacity parking:disabled=no, and
\* the width of the place that of its door.
FlagsFollowTags ==
    pc = "done" =>
        \A k \in touched : profiles[k] \notin {None, Verified} =>
            LET tags == places[k].tags
                stated == profiles[k].flags
            IN mapTagsToProfile(tags) # None =>
                /\ <<"entrance", "is_level">> \in stated <=> tags.steps /\ tags.ramp_wheelchair # "yes"
                /\ <<"entrance", "width">> \in stated <=>
                      \/ tags.width # Unread /\ tags.width < 70
                      \/ /\ tags.width = Unread
                         /\ tags.door_width # Unread /\ tags.door_width < 70
                /\ <<"parking", "has_disabled_spaces">> \in stated <=>
                      \/ tags.capacity = "zero"
                      \/ tags.capacity = "absent" /\ tags.parking_no
=============================================================================
