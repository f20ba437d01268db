-------------------------- MODULE OsmImportProofs --------------------------
(***************************************************************************)
(* Theorems about OsmImport, for any files, tags, batch size, number of    *)
(* runs and failures: profiles stay with their places, a sweep starts from *)
(* tables that say what the file says, a failure loses only the buffer,    *)
(* and ranks and flags are those the tags call for.                        *)
(***************************************************************************)
EXTENDS OsmImport, FiniteSetTheorems, SequenceTheorems, WellFoundedInduction, TLAPS

Streaming == {"stream", "flush"}
Stages == Streaming \cup {"profiles", "sweep", "done", "failed"}

Derived == {mapTagsToProfile(e.tags) : e \in Elements}

\* The keys of the elements in the buffer, and those whose profile is still to
\* be written.
Buffered == {KeyOf(buffer[j]) : j \in 1 .. Len(buffer)}
Owed == {KeyOf(buffer[j]) : j \in (IF pc = "profiles" THEN next ELSE 1) .. Len(buffer)}

TypeOK ==
    /\ files \in Seq(Seq(Elements)) \ {<<>>}
    /\ at \in 0 .. Len(files[1])
    /\ pc \in Stages
    /\ final \in BOOLEAN
    /\ buffer \in Seq(Elements)
    /\ pending \in Seq(Derived)
    /\ next \in Nat
    /\ DOMAIN places = Keys /\ DOMAIN profiles = Keys
    /\ touched \subseteq Keys
    /\ written \in Nat
    /\ profilesWritten \in Nat

\* Buffer and pendingProfiles stay index-aligned.
Aligned ==
    /\ Len(pending) = Len(buffer)
    /\ \A j \in 1 .. Len(buffer) : pending[j] = mapTagsToProfile(buffer[j].tags)

\* Where the run is, the buffer is as full as that allows.
BufferFits ==
    /\ Len(buffer) <= size
    /\ pc = "stream" => Len(buffer) < size
    /\ pc = "profiles" => ~Duplicated /\ next \in 1 .. Len(buffer) + 1
    /\ pc \in {"sweep", "done"} => buffer = <<>>

\* A row of places is that of an element, and a profile that of one with the key
\* of its place, which has a row.
RowsOfElements ==
    \A k \in Keys :
        /\ places[k] # None => \E e \in Elements : places[k] = PlaceOf(e)
        /\ profiles[k] # None => places[k] # None
        /\ k \in touched => places[k] # None

ProfilesOfElements ==
    \A k \in Keys : profiles[k] \notin {None, Verified} =>
        \E e \in Elements :
            /\ KeyOf(e) = k
            /\ mapTagsToProfile(e.tags) # None
            /\ profiles[k] = WithAuditFlags(mapTagsToProfile(e.tags))

\* The buffer is the end of what was emitted: of a key in it, the last element
\* with that key is the last one emitted.
BufferIsLatest ==
    \A k \in Buffered :
        /\ k \in EmittedKeys
        /\ \E j \in 1 .. Len(buffer) :
              /\ KeyOf(buffer[j]) = k /\ buffer[j] = LastOf(k)
              /\ \A l \in 1 .. Len(buffer) : KeyOf(buffer[l]) = k => l <= j

\* What was emitted and is not in the buffer, or was in a buffer that has been
\* flushed, is in places.
PlacesFollow ==
    \A k \in EmittedKeys :
        k \notin Buffered \/ pc \notin Streaming \cup {"failed"} => places[k] = PlaceOf(LastOf(k))

\* And where no profile is owed any more, it is in profiles.
ProfilesFollow ==
    pc # "failed" =>
        /\ touched \cup Owed = EmittedKeys
        /\ \A k \in EmittedKeys \ Owed :
              LET derived == mapTagsToProfile(LastOf(k).tags) IN
              derived # None => profiles[k] = Verified \/ profiles[k].profile = derived

CountsFollow ==
    pc # "failed" =>
        /\ IF pc \in Streaming THEN written + Len(buffer) = Cardinality(Emitted)
                               ELSE written = Cardinality(Emitted)
        /\ IF pc = "profiles" THEN profilesWritten + Len(buffer) + 1 <= written + next
                              ELSE profilesWritten <= written

Inv ==
    /\ TypeOK
    /\ Aligned
    /\ BufferFits
    /\ RowsOfElements
    /\ ProfilesOfElements
    /\ BufferIsLatest
    /\ PlacesFollow
    /\ ProfilesFollow
    /\ CountsFollow

-----------------------------------------------------------------------------
(* Files and their elements                                                *)

LEMMA ImportsHoldElements ==
  ASSUME NEW i \in Imports
  PROVE  i \in Seq(Seq(Elements)) \ {<<>>}
<1> DEFINE E == [type : {"node", "way", "relation"}, id : Nat,
                 located : BOOLEAN, tags : TagValues]
<1>1. i \in Seq(Seq(E)) /\ i # <<>>
  BY OsmImportAssumption
<1> HIDE DEF E
<1>2. Len(i) \in Nat /\ i \in [1 .. Len(i) -> Seq(E)]
  BY <1>1, LenProperties
<1>3. ASSUME NEW n \in 1 .. Len(i) PROVE i[n] \in Seq(Elements)
  <2>1. i[n] \in Seq(E)
    BY <1>2
  <2>2. Len(i[n]) \in Nat /\ i[n] \in [1 .. Len(i[n]) -> E]
    BY <2>1, LenProperties
  <2>3. \A m \in 1 .. Len(i[n]) : i[n][m] \in Elements
    BY <1>2, <2>2 DEF Elements
  <2>4. i[n] \in [1 .. Len(i[n]) -> Elements]
    BY <2>2, <2>3
  <2> QED BY <2>2, <2>4, SeqDef
<1>4. i \in [1 .. Len(i) -> Seq(Elements)]
  BY <1>2, <1>3
<1> QED BY <1>1, <1>2, <1>4, SeqDef

\* What an element's tags can hold.
LEMMA ElementsAreTagged == ASSUME NEW e \in Elements PROVE e.tags \in TagValues
<1> DEFINE E == [type : {"node", "way", "relation"}, id : Nat,
                 located : BOOLEAN, tags : TagValues]
<1>1. PICK i \in Imports : \E n \in DOMAIN i : \E m \in DOMAIN i[n] : e = i[n][m]
  BY DEF Elements
<1>2. PICK n \in DOMAIN i : \E m \in DOMAIN i[n] : e = i[n][m]
  BY <1>1
<1>3. PICK m \in DOMAIN i[n] : e = i[n][m]
  BY <1>2
<1>4. i \in Seq(Seq(E))
  BY OsmImportAssumption
<1>5. i[n] \in Seq(E)
  <2> HIDE DEF E
  <2> QED BY <1>2, <1>4, LenProperties
<1>6. i[n][m] \in E
  <2> HIDE DEF E
  <2> QED BY <1>3, <1>5, LenProperties
<1> QED BY <1>3, <1>6

LEMMA ReadType ==
  ASSUME TypeOK
  PROVE  /\ files[1] \in Seq(Elements)
         /\ Len(files) \in Nat \ {0}
         /\ Len(files[1]) \in Nat
         /\ \A i \in 1 .. Len(files[1]) : files[1][i] \in Elements
         /\ \A i \in 1 .. at : i \in 1 .. Len(files[1])
         /\ Emitted \subseteq 1 .. at /\ EmittedKeys \subseteq Keys
         /\ IsFiniteSet(Emitted) /\ Cardinality(Emitted) \in Nat
<1>1. files \in Seq(Seq(Elements)) /\ files # <<>> /\ at \in Nat /\ at <= Len(files[1])
  <2>1. files \in Seq(Seq(Elements)) /\ files # <<>>
    BY DEF TypeOK
  <2>2. Len(files) \in Nat \ {0} /\ files[1] \in Seq(Elements)
    BY <2>1, EmptySeq, LenProperties
  <2> QED BY <2>1, <2>2, LenProperties DEF TypeOK
<1>2. Len(files) \in Nat \ {0} /\ files[1] \in Seq(Elements)
  BY <1>1, EmptySeq, LenProperties
<1>3. Len(files[1]) \in Nat /\ \A i \in 1 .. Len(files[1]) : files[1][i] \in Elements
  BY <1>2, LenProperties
<1>4. \A i \in 1 .. at : i \in 1 .. Len(files[1])
  BY <1>1, <1>3
<1>5. Emitted \subseteq 1 .. at
  BY DEF Emitted
<1>6. EmittedKeys \subseteq Keys
  BY <1>3, <1>4, <1>5 DEF EmittedKeys, Keys
<1>7. IsFiniteSet(1 .. at)
  BY <1>1, FS_Interval
<1>8. IsFiniteSet(Emitted) /\ Cardinality(Emitted) \in Nat
  BY <1>5, <1>7, FS_Subset, FS_CardinalityType
<1> QED BY <1>2, <1>3, <1>4, <1>5, <1>6, <1>8

LEMMA BufferType ==
  ASSUME TypeOK
  PROVE  /\ Len(buffer) \in Nat
         /\ \A j \in 1 .. Len(buffer) : buffer[j] \in Elements
         /\ DOMAIN buffer = 1 .. Len(buffer)
         /\ Buffered \subseteq Keys
<1>1. /\ Len(buffer) \in Nat
      /\ \A j \in 1 .. Len(buffer) : buffer[j] \in Elements
      /\ DOMAIN buffer = 1 .. Len(buffer)
  BY LenProperties DEF TypeOK
<1> QED BY <1>1 DEF Buffered, Keys

-----------------------------------------------------------------------------
(* The last element of a key                                               *)

\* Naturals up to some bound have a greatest one, if there are any.
LEMMA Greatest ==
  ASSUME NEW n \in Nat, NEW T \in SUBSET (1 .. n), T # {}
  PROVE  \E m \in T : \A k \in T : k <= m
<1> DEFINE D == {n - k : k \in T}
<1>1. D \in SUBSET Nat /\ D # {}
  <2>1. \A k \in T : n - k \in Nat
    OBVIOUS
  <2>2. PICK k \in T : TRUE
    OBVIOUS
  <2> QED BY <2>1, <2>2
<1>2. PICK d \in D : \A c \in D : <<c, d>> \notin OpToRel(<, Nat)
  <2> HIDE DEF D
  <2> QED BY <1>1, NatLessThanWellFounded, WFMin
<1>3. \A c \in D : ~(c < d)
  BY <1>1, <1>2 DEF OpToRel
<1>4. PICK m \in T : d = n - m
  BY <1>2
<1>5. ASSUME NEW k \in T PROVE k <= m
  <2>1. ~(n - k < n - m)
    BY <1>3, <1>4
  <2> QED BY <2>1
<1> QED BY <1>5

LEMMA LastOfIs ==
  ASSUME TypeOK, NEW i \in Emitted,
         \A j \in Emitted : KeyOf(files[1][j]) = KeyOf(files[1][i]) => j <= i
  PROVE  LastOf(KeyOf(files[1][i])) = files[1][i]
<1> DEFINE k == KeyOf(files[1][i])
           IsLast(n) == /\ KeyOf(files[1][n]) = k
                        /\ \A j \in Emitted : KeyOf(files[1][j]) = k => j <= n
           l == CHOOSE n \in Emitted : IsLast(n)
<1>1. IsLast(i)
  OBVIOUS
<1>2. l \in Emitted /\ IsLast(l)
  <2> HIDE DEF IsLast
  <2> QED BY <1>1
<1>3. l <= i /\ i <= l
  BY <1>1, <1>2
<1>4. l \in Nat /\ i \in Nat
  BY <1>2, ReadType DEF TypeOK
<1>5. l = i
  BY <1>3, <1>4
<1>6. LastOf(k) = files[1][l]
  BY DEF LastOf
<1> QED BY <1>5, <1>6

\* Of every key that was emitted there is a last element.
LEMMA LastOfExists ==
  ASSUME TypeOK, NEW k \in EmittedKeys
  PROVE  \E i \in Emitted :
            /\ KeyOf(files[1][i]) = k /\ LastOf(k) = files[1][i]
            /\ \A j \in Emitted : KeyOf(files[1][j]) = k => j <= i
<1> DEFINE T == {i \in Emitted : KeyOf(files[1][i]) = k}
<1>1. T # {}
  BY DEF EmittedKeys
<1>2. at \in Nat /\ T \in SUBSET (1 .. at)
  BY ReadType DEF TypeOK
<1>3. PICK m \in T : \A j \in T : j <= m
  <2> HIDE DEF T
  <2> QED BY <1>1, <1>2, Greatest
<1>4. LastOf(KeyOf(files[1][m])) = files[1][m]
  BY <1>3, LastOfIs
<1> QED BY <1>3, <1>4

\* The last element of a key has that key, and was accepted.
LEMMA LastOfType ==
  ASSUME TypeOK, NEW k \in EmittedKeys
  PROVE  LastOf(k) \in Elements /\ KeyOf(LastOf(k)) = k
<1>1. PICK i \in Emitted : KeyOf(files[1][i]) = k /\ LastOf(k) = files[1][i]
  BY LastOfExists
<1> QED BY <1>1, ReadType

\* An accepted element is the last of its key as soon as it is emitted, and the
\* last of every other key is the one it was.
LEMMA Emit ==
  ASSUME TypeOK, Sink, NEW CONSTANT e, e = Elem
  PROVE  /\ e \in Elements
         /\ EmittedKeys' = EmittedKeys \cup {KeyOf(e)}
         /\ LastOf(KeyOf(e))' = e
         /\ \A k \in EmittedKeys : k # KeyOf(e) => LastOf(k)' = LastOf(k)
         /\ Cardinality(Emitted)' = Cardinality(Emitted) + 1
<1>1. files' = files /\ at' = at + 1 /\ e = files[1][at + 1] /\ Accepted(e)
         /\ at \in Nat /\ at < Len(files[1]) /\ Len(files[1]) \in Nat
  BY ReadType DEF Sink, Elem, TypeOK
<1>2. e \in Elements
  BY <1>1, ReadType
<1>3. Emitted' = Emitted \cup {at + 1} /\ at + 1 \notin Emitted
  BY <1>1 DEF Emitted
<1>4. EmittedKeys' = EmittedKeys \cup {KeyOf(e)}
  BY <1>1, <1>3 DEF EmittedKeys
<1>5. LastOf(KeyOf(e))' = e
  <2>1. \A j \in Emitted' : j <= at + 1
    BY <1>1, <1>3, ReadType
  <2>2. at + 1 \in Emitted' /\ files'[1][at + 1] = e
    BY <1>1, <1>3
  <2>3. \A j \in Emitted' : KeyOf(files'[1][j]) = KeyOf(files'[1][at + 1]) => j <= at + 1
    BY <2>1
  <2>4. LastOf(KeyOf(e))' = files'[1][at + 1]
    <3> DEFINE IsLast(n) == /\ KeyOf(files'[1][n]) = KeyOf(e)
                            /\ \A j \in Emitted' : KeyOf(files'[1][j]) = KeyOf(e) => j <= n
               l == CHOOSE n \in Emitted' : IsLast(n)
    <3>1. IsLast(at + 1)
      BY <2>2, <2>3
    <3>2. l \in Emitted' /\ IsLast(l)
      <4> HIDE DEF IsLast
      <4> QED BY <2>2, <3>1
    <3>3. l <= at + 1 /\ at + 1 <= l
      BY <2>2, <3>1, <3>2
    <3>4. l \in Nat
      BY <1>1, <3>2 DEF Emitted
    <3>5. l = at + 1
      BY <1>1, <3>3, <3>4
    <3>6. LastOf(KeyOf(e))' = files'[1][l]
      BY <1>1 DEF LastOf
    <3> QED BY <1>1, <3>5, <3>6
  <2> QED BY <1>1, <2>2, <2>4
<1>6. ASSUME NEW k \in EmittedKeys, k # KeyOf(e) PROVE LastOf(k)' = LastOf(k)
  <2>1. \A i \in Emitted : i \in Emitted'
    BY <1>3
  <2>2. \A i \in Emitted' : KeyOf(files'[1][i]) = k => i \in Emitted
    BY <1>1, <1>3, <1>6
  <2> DEFINE WasLast(n) == /\ KeyOf(files[1][n]) = k
                           /\ \A j \in Emitted : KeyOf(files[1][j]) = k => j <= n
             IsLast(n) == /\ KeyOf(files'[1][n]) = k
                          /\ \A j \in Emitted' : KeyOf(files'[1][j]) = k => j <= n
  <2>3. \A n : n \in Emitted /\ WasLast(n) <=> n \in Emitted' /\ IsLast(n)
    BY <1>1, <2>1, <2>2
  <2>4. (CHOOSE n \in Emitted : WasLast(n)) = (CHOOSE n \in Emitted' : IsLast(n))
    <3> HIDE DEF WasLast, IsLast
    <3> QED BY <2>3
  <2>5. LastOf(k) = files[1][CHOOSE n \in Emitted : WasLast(n)]
    BY DEF LastOf
  <2>6. LastOf(k)' = files'[1][CHOOSE n \in Emitted' : IsLast(n)]
    BY DEF LastOf
  <2> QED BY <1>1, <2>4, <2>5, <2>6
<1>7. Cardinality(Emitted)' = Cardinality(Emitted) + 1
  BY <1>3, ReadType, FS_AddElement
<1> QED BY <1>2, <1>4, <1>5, <1>6, <1>7

LEMMA EmitNothing ==
  ASSUME TypeOK, Skip \/ UNCHANGED <<files, at>>
  PROVE  Emitted' = Emitted /\ EmittedKeys' = EmittedKeys /\ \A k : LastOf(k)' = LastOf(k)
<1>1. files' = files
  BY DEF Skip
<1>2. Emitted' = Emitted
  <2>1. CASE Skip
    BY <1>1, <2>1, ReadType DEF Skip, Emitted, Elem, TypeOK
  <2>2. CASE UNCHANGED <<files, at>>
    BY <2>2 DEF Emitted
  <2> QED BY <2>1, <2>2
<1> QED BY <1>1, <1>2 DEF EmittedKeys, LastOf

\* Nothing is emitted before the first element is read, and nothing buffered in
\* an empty buffer.
LEMMA NothingYet ==
  /\ at = 0 => Emitted = {} /\ EmittedKeys = {} /\ Cardinality(Emitted) = 0
  /\ buffer = <<>> => Len(buffer) = 0 /\ Buffered = {}
  /\ buffer = <<>> /\ pc # "profiles" => Owed = {}
<1>1. ASSUME at = 0 PROVE Emitted = {} /\ EmittedKeys = {} /\ Cardinality(Emitted) = 0
  <2>1. Emitted = {} /\ EmittedKeys = {}
    BY <1>1 DEF Emitted, EmittedKeys
  <2> QED BY <2>1, FS_EmptySet
<1>2. buffer = <<>> => Len(buffer) = 0 /\ Buffered = {}
  BY DEF Buffered
<1>3. buffer = <<>> /\ pc # "profiles" => Owed = {}
  BY DEF Owed
<1> QED BY <1>1, <1>2, <1>3

-----------------------------------------------------------------------------
(* The buffer                                                              *)

\* In a buffer without duplicates an element is the last of its key.
LEMMA OnlyOfItsKey ==
  ASSUME TypeOK, BufferIsLatest, ~Duplicated, NEW j \in 1 .. Len(buffer)
  PROVE  /\ buffer[j] = LastOf(KeyOf(buffer[j]))
         /\ KeyOf(buffer[j]) \in EmittedKeys
<1> DEFINE k == KeyOf(buffer[j])
<1>1. k \in Buffered
  BY DEF Buffered
<1>2. PICK i \in 1 .. Len(buffer) : KeyOf(buffer[i]) = k /\ buffer[i] = LastOf(k)
  BY <1>1 DEF BufferIsLatest
<1>3. i = j
  BY <1>2, BufferType DEF Duplicated
<1> QED BY <1>1, <1>2, <1>3 DEF BufferIsLatest

\* What the statement of a flush stores for a key.
LEMMA Upserted ==
  ASSUME TypeOK, BufferIsLatest, ~Duplicated, NEW k
  PROVE  /\ (\E e \in Entries(buffer) : KeyOf(e) = k) <=> k \in Buffered
         /\ k \in Buffered => (CHOOSE e \in Entries(buffer) : KeyOf(e) = k) = LastOf(k)
<1>1. (\E e \in Entries(buffer) : KeyOf(e) = k) <=> k \in Buffered
  BY DEF Entries, Buffered
<1>2. ASSUME k \in Buffered
      PROVE  (CHOOSE e \in Entries(buffer) : KeyOf(e) = k) = LastOf(k)
  <2> DEFINE e == CHOOSE x \in Entries(buffer) : KeyOf(x) = k
  <2>1. e \in Entries(buffer) /\ KeyOf(e) = k
    BY <1>1, <1>2
  <2>2. PICK j \in 1 .. Len(buffer) : e = buffer[j]
    BY <2>1 DEF Entries
  <2> QED BY <2>1, <2>2, OnlyOfItsKey
<1> QED BY <1>1, <1>2

\* The places of elements are never the absent row.
LEMMA PlacesThere ==
  ASSUME TypeOK, NEW k \in EmittedKeys
  PROVE  PlaceOf(LastOf(k)) # None
BY LastOfType, OsmImportAssumption

-----------------------------------------------------------------------------
(* Types                                                                   *)

LEMMA InitType == Init => TypeOK
<1> SUFFICES ASSUME Init PROVE TypeOK
  OBVIOUS
<1>1. files \in Seq(Seq(Elements)) \ {<<>>}
  BY ImportsHoldElements DEF Init
<1>2. Len(files) \in Nat \ {0} /\ files[1] \in Seq(Elements)
  BY <1>1, EmptySeq, LenProperties
<1>3. Len(files[1]) \in Nat
  BY <1>2, LenProperties
<1>4. <<>> \in Seq(Elements) /\ <<>> \in Seq(Derived)
  BY EmptySeq
<1>5. at \in 0 .. Len(files[1])
  BY <1>3 DEF Init
<1> QED BY <1>1, <1>4, <1>5 DEF Init, TypeOK, Stages, Streaming

LEMMA StepType ==
  ASSUME TypeOK, BufferFits, Aligned, [Next]_vars
  PROVE  TypeOK'
<1>1. CASE StartRun
  <2>1. files' \in Seq(Seq(Elements)) /\ Len(files') = Len(files) - 1
    BY <1>1, HeadTailProperties, ReadType DEF StartRun, TypeOK
  <2>2. Len(files') \in Nat /\ Len(files') >= 1
    BY <1>1, <2>1, ReadType DEF StartRun
  <2>3. files' # <<>> /\ files'[1] \in Seq(Elements)
    <3>1. files' # <<>>
      BY <2>1, <2>2, EmptySeq
    <3>2. 1 \in 1 .. Len(files')
      BY <2>2
    <3> QED BY <2>1, <3>1, <3>2, LenProperties
  <2>4. at' \in 0 .. Len(files'[1])
    <3>1. Len(files'[1]) \in Nat
      BY <2>3, LenProperties
    <3> QED BY <1>1, <3>1 DEF StartRun
  <2>5. <<>> \in Seq(Elements) /\ <<>> \in Seq(Derived)
    BY EmptySeq
  <2> QED BY <1>1, <2>1, <2>3, <2>4, <2>5 DEF StartRun, TypeOK, Stages, Streaming, tables
<1>2. CASE Skip
  BY <1>2, ReadType DEF Skip, TypeOK, tables, report
<1>3. CASE Sink
  <2>1. Elem \in Elements
    BY <1>3, Emit
  <2>2. mapTagsToProfile(Elem.tags) \in Derived
    BY <2>1 DEF Derived
  <2>3. buffer' \in Seq(Elements)
    BY <1>3, <2>1, AppendProperties DEF Sink, TypeOK
  <2>4. pending' \in Seq(Derived)
    BY <1>3, <2>2, AppendProperties DEF Sink, TypeOK
  <2> QED BY <1>3, <2>3, <2>4, ReadType DEF Sink, TypeOK, Stages, Streaming, tables, report
<1>4. CASE EndOfSource
  BY <1>4 DEF EndOfSource, TypeOK, Stages, Streaming, tables, report
<1>5. CASE Flush
  BY <1>5, BufferType DEF Flush, TypeOK, Stages, Streaming, run
<1>6. CASE WriteProfile
  <2>1. next \in 1 .. Len(buffer)
    BY <1>6, BufferType DEF WriteProfile, BufferFits, TypeOK
  <2>2. KeyOf(buffer[next]) \in Keys
    BY <2>1, BufferType DEF Keys
  <2>3. profilesWritten' \in Nat /\ DOMAIN profiles' = Keys
    BY <1>6 DEF WriteProfile, TypeOK
  <2> QED BY <1>6, <2>2, <2>3 DEF WriteProfile, TypeOK, run
<1>7. CASE EndFlush
  BY <1>7 DEF EndFlush, TypeOK, Stages, Streaming, run, tables, report
<1>8. CASE SweepAndReport
  BY <1>8 DEF SweepAndReport, TypeOK, Stages, run, tables, report
<1>9. CASE Fail
  BY <1>9 DEF Fail, TypeOK, Stages, run, tables, report
<1>10. CASE ProfileFails
  <2>1. next \in 1 .. Len(buffer)
    BY <1>10, BufferType DEF ProfileFails, BufferFits, TypeOK
  <2>2. KeyOf(buffer[next]) \in Keys
    BY <2>1, BufferType DEF Keys
  <2> QED BY <1>10, <2>2 DEF ProfileFails, TypeOK, Stages, run, tables
<1>11. CASE \E k \in Keys : Verify(k)
  BY <1>11 DEF Verify, TypeOK, run, report
<1>12. CASE UNCHANGED vars
  BY <1>12 DEF vars, TypeOK
<1> QED BY <1>1, <1>2, <1>3, <1>4, <1>5, <1>6, <1>7, <1>8, <1>9, <1>10, <1>11, <1>12 DEF Next

-----------------------------------------------------------------------------
(* The invariant, one lemma for each action                                *)

\* The start of a run, the first or one that follows another.
LEMMA InitInv == Init => Inv
<1> SUFFICES ASSUME Init PROVE Inv
  OBVIOUS
<1>1. TypeOK
  BY InitType
<1>2. /\ Len(buffer) = 0 /\ Buffered = {} /\ Owed = {}
      /\ EmittedKeys = {} /\ Cardinality(Emitted) = 0
  BY NothingYet DEF Init
<1>3. Aligned
  BY <1>2 DEF Init, Aligned
<1>4. BufferFits
  BY <1>2, OsmImportAssumption DEF Init, BufferFits
<1>5. RowsOfElements
  BY DEF Init, RowsOfElements
<1>6. ProfilesOfElements
  BY DEF Init, ProfilesOfElements
<1>7. BufferIsLatest
  BY <1>2 DEF BufferIsLatest
<1>8. PlacesFollow
  BY <1>2 DEF PlacesFollow
<1>9. ProfilesFollow
  BY <1>2 DEF Init, ProfilesFollow
<1>10. CountsFollow
  BY <1>2 DEF Init, CountsFollow, Streaming
<1> QED BY <1>1, <1>3, <1>4, <1>5, <1>6, <1>7, <1>8, <1>9, <1>10 DEF Inv

LEMMA StartRunInv == ASSUME Inv, TypeOK', StartRun PROVE Inv'
<1>1. /\ at' = 0 /\ pc' = "stream" /\ buffer' = <<>> /\ pending' = <<>>
      /\ touched' = {} /\ written' = 0 /\ profilesWritten' = 0
      /\ places' = places /\ profiles' = profiles
  BY DEF StartRun, tables
<1>2. /\ Len(buffer') = 0 /\ Buffered' = {} /\ Owed' = {}
      /\ EmittedKeys' = {} /\ Cardinality(Emitted)' = 0
  <2>1. EmittedKeys' = {} /\ Emitted' = {}
    BY <1>1 DEF Emitted, EmittedKeys
  <2>2. Buffered' = {} /\ Owed' = {}
    BY <1>1 DEF Buffered, Owed
  <2> QED BY <1>1, <2>1, <2>2, FS_EmptySet
<1>3. Aligned'
  BY <1>1, <1>2 DEF Aligned
<1>4. BufferFits'
  BY <1>1, <1>2, OsmImportAssumption DEF BufferFits
<1>5. RowsOfElements'
  BY <1>1 DEF Inv, RowsOfElements
<1>6. ProfilesOfElements'
  BY <1>1 DEF Inv, ProfilesOfElements
<1>7. BufferIsLatest'
  BY <1>2 DEF BufferIsLatest
<1>8. PlacesFollow'
  BY <1>2 DEF PlacesFollow
<1>9. ProfilesFollow'
  BY <1>1, <1>2 DEF ProfilesFollow
<1>10. CountsFollow'
  BY <1>1, <1>2 DEF CountsFollow, Streaming
<1> QED BY <1>3, <1>4, <1>5, <1>6, <1>7, <1>8, <1>9, <1>10 DEF Inv

\* An element that is not emitted, and a step of no variable at all.
LEMMA SkipInv == ASSUME Inv, TypeOK', Skip \/ UNCHANGED vars PROVE Inv'
<1>1. UNCHANGED <<files, pc, final, buffer, pending, next, places, profiles,
                  touched, written, profilesWritten>>
  BY DEF Skip, vars, tables, report
<1>2. Emitted' = Emitted /\ EmittedKeys' = EmittedKeys /\ \A k : LastOf(k)' = LastOf(k)
  BY EmitNothing DEF Inv, vars
<1>3. Buffered' = Buffered /\ Owed' = Owed
  BY <1>1 DEF Buffered, Owed
<1>4. Aligned' /\ BufferFits'
  BY <1>1 DEF Inv, Aligned, BufferFits, Duplicated
<1>5. RowsOfElements' /\ ProfilesOfElements'
  BY <1>1 DEF Inv, RowsOfElements, ProfilesOfElements
<1>6. BufferIsLatest' /\ PlacesFollow'
  BY <1>1, <1>2, <1>3 DEF Inv, BufferIsLatest, PlacesFollow
<1>7. ProfilesFollow' /\ CountsFollow'
  BY <1>1, <1>2, <1>3 DEF Inv, ProfilesFollow, CountsFollow
<1> QED BY <1>4, <1>5, <1>6, <1>7 DEF Inv

LEMMA SinkInv == ASSUME Inv, TypeOK', Sink PROVE Inv'
<1>1. PICK x : x = Elem
  OBVIOUS
<1>2. /\ buffer' = Append(buffer, x) /\ pending' = Append(pending, mapTagsToProfile(x.tags))
      /\ pc = "stream" /\ pc' = IF Len(buffer') >= size THEN "flush" ELSE "stream"
      /\ UNCHANGED <<next, places, profiles, touched, written, profilesWritten>>
  BY <1>1 DEF Sink, tables, report
<1>3. /\ x \in Elements
      /\ EmittedKeys' = EmittedKeys \cup {KeyOf(x)}
      /\ LastOf(KeyOf(x))' = x
      /\ \A k \in EmittedKeys : k # KeyOf(x) => LastOf(k)' = LastOf(k)
      /\ Cardinality(Emitted)' = Cardinality(Emitted) + 1
  BY <1>1, Emit DEF Inv
<1>4. /\ Len(buffer') = Len(buffer) + 1 /\ Len(buffer) \in Nat
      /\ \A j \in 1 .. Len(buffer) : buffer'[j] = buffer[j]
      /\ buffer'[Len(buffer) + 1] = x
  BY <1>2, AppendProperties, BufferType DEF Inv, TypeOK
<1>5. /\ Len(pending') = Len(buffer) + 1
      /\ \A j \in 1 .. Len(buffer) : pending'[j] = pending[j]
      /\ pending'[Len(buffer) + 1] = mapTagsToProfile(x.tags)
  BY <1>2, AppendProperties DEF Inv, TypeOK, Aligned
<1>6. Buffered' = Buffered \cup {KeyOf(x)}
  BY <1>4 DEF Buffered
<1>7. Owed = Buffered /\ Owed' = Buffered' /\ pc' \in Streaming
  BY <1>2 DEF Owed, Buffered, Streaming
<1>8. Aligned'
  BY <1>4, <1>5 DEF Inv, Aligned
<1>9. BufferFits'
  BY <1>2, <1>4, OsmImportAssumption DEF Inv, BufferFits
<1>10. RowsOfElements' /\ ProfilesOfElements'
  BY <1>2 DEF Inv, RowsOfElements, ProfilesOfElements
<1>11. BufferIsLatest'
  <2> SUFFICES ASSUME NEW k \in Buffered'
               PROVE  /\ k \in EmittedKeys'
                      /\ \E j \in 1 .. Len(buffer') :
                            /\ KeyOf(buffer'[j]) = k /\ buffer'[j] = LastOf(k)'
                            /\ \A l \in 1 .. Len(buffer') : KeyOf(buffer'[l]) = k => l <= j
    BY DEF BufferIsLatest
  <2>1. CASE k = KeyOf(x)
    BY <1>3, <1>4, <2>1
  <2>2. CASE k # KeyOf(x)
    <3>1. k \in Buffered
      BY <1>6, <2>2
    <3>2. PICK j \in 1 .. Len(buffer) :
             /\ KeyOf(buffer[j]) = k /\ buffer[j] = LastOf(k)
             /\ \A l \in 1 .. Len(buffer) : KeyOf(buffer[l]) = k => l <= j
      BY <3>1 DEF Inv, BufferIsLatest
    <3>3. k \in EmittedKeys
      BY <3>1 DEF Inv, BufferIsLatest
    <3>4. j \in 1 .. Len(buffer') /\ KeyOf(buffer'[j]) = k /\ buffer'[j] = LastOf(k)'
      BY <1>3, <1>4, <2>2, <3>2, <3>3
    <3>5. ASSUME NEW l \in 1 .. Len(buffer'), KeyOf(buffer'[l]) = k PROVE l <= j
      <4>1. l # Len(buffer) + 1
        BY <1>4, <2>2, <3>5
      <4>2. l \in 1 .. Len(buffer)
        BY <1>4, <4>1
      <4> QED BY <1>4, <3>2, <3>5, <4>2
    <3> QED BY <1>3, <3>3, <3>4, <3>5
  <2> QED BY <2>1, <2>2
<1>12. PlacesFollow'
  BY <1>2, <1>3, <1>6, <1>7 DEF Inv, PlacesFollow
<1>13. ProfilesFollow'
  <2>1. touched' \cup Owed' = EmittedKeys'
    BY <1>2, <1>3, <1>6, <1>7 DEF Inv, ProfilesFollow
  <2>2. \A k \in EmittedKeys' \ Owed' :
           k \in EmittedKeys \ Owed /\ LastOf(k)' = LastOf(k) /\ profiles'[k] = profiles[k]
    BY <1>2, <1>3, <1>6, <1>7
  <2> QED BY <1>2, <2>1, <2>2 DEF Inv, ProfilesFollow
<1>14. CountsFollow'
  <2>1. written + Len(buffer) = Cardinality(Emitted) /\ profilesWritten <= written
    BY <1>2 DEF Inv, CountsFollow, Streaming
  <2>2. written + (Len(buffer) + 1) = Cardinality(Emitted) + 1
    BY <1>4, <2>1 DEF Inv, TypeOK
  <2> QED BY <1>2, <1>3, <1>4, <1>7, <2>1, <2>2 DEF CountsFollow, Streaming
<1> QED BY <1>8, <1>9, <1>10, <1>11, <1>12, <1>13, <1>14 DEF Inv

LEMMA EndOfSourceInv == ASSUME Inv, TypeOK', EndOfSource PROVE Inv'
<1>1. /\ UNCHANGED <<files, at, buffer, pending, next, places, profiles, touched,
                     written, profilesWritten>>
      /\ pc = "stream" /\ pc' = IF buffer = <<>> THEN "sweep" ELSE "flush"
  BY DEF EndOfSource, tables, report
<1>2. Emitted' = Emitted /\ EmittedKeys' = EmittedKeys /\ \A k : LastOf(k)' = LastOf(k)
  BY <1>1, EmitNothing DEF Inv
<1>3. Buffered' = Buffered /\ Owed' = Owed
  BY <1>1 DEF Buffered, Owed
<1>4. pc' \notin Streaming => buffer = <<>> /\ Buffered = {} /\ Len(buffer) = 0
  BY <1>1, NothingYet DEF Streaming
<1>5. Aligned' /\ BufferFits'
  BY <1>1 DEF Inv, Aligned, BufferFits
<1>6. RowsOfElements' /\ ProfilesOfElements'
  BY <1>1 DEF Inv, RowsOfElements, ProfilesOfElements
<1>7. BufferIsLatest' /\ PlacesFollow'
  BY <1>1, <1>2, <1>3, <1>4 DEF Inv, BufferIsLatest, PlacesFollow
<1>8. ProfilesFollow'
  BY <1>1, <1>2, <1>3 DEF Inv, ProfilesFollow
<1>9. CountsFollow'
  BY <1>1, <1>2, <1>4 DEF Inv, TypeOK, CountsFollow, Streaming
<1> QED BY <1>5, <1>6, <1>7, <1>8, <1>9 DEF Inv

LEMMA FlushInv == ASSUME Inv, TypeOK', Flush PROVE Inv'
<1>1. /\ UNCHANGED <<files, at, buffer, pending, profiles, touched, profilesWritten>>
      /\ pc = "flush" /\ pc' = "profiles" /\ next' = 1 /\ ~Duplicated
      /\ written' = written + Len(buffer)
  BY DEF Flush, run
<1>2. Emitted' = Emitted /\ EmittedKeys' = EmittedKeys /\ \A k : LastOf(k)' = LastOf(k)
  BY <1>1, EmitNothing DEF Inv
<1>3. Buffered' = Buffered /\ Owed' = Owed
  BY <1>1 DEF Buffered, Owed
<1>4. \A k \in Keys : places'[k] = IF k \in Buffered THEN PlaceOf(LastOf(k)) ELSE places[k]
  BY Upserted DEF Inv, Flush
<1>5. Buffered \subseteq EmittedKeys /\ EmittedKeys \subseteq Keys
  BY ReadType DEF Inv, BufferIsLatest
<1>6. Aligned'
  BY <1>1 DEF Inv, Aligned
<1>7. BufferFits'
  BY <1>1, BufferType DEF Inv, BufferFits, Duplicated
<1>8. RowsOfElements'
  <2> SUFFICES ASSUME NEW k \in Keys
               PROVE  /\ places'[k] # None => \E e \in Elements : places'[k] = PlaceOf(e)
                      /\ profiles'[k] # None => places'[k] # None
                      /\ k \in touched' => places'[k] # None
    BY DEF RowsOfElements
  <2>1. CASE k \in Buffered
    BY <1>4, <1>5, <2>1, LastOfType, PlacesThere DEF Inv
  <2>2. CASE k \notin Buffered
    BY <1>1, <1>4, <2>2 DEF Inv, RowsOfElements
  <2> QED BY <2>1, <2>2
<1>9. ProfilesOfElements'
  BY <1>1 DEF Inv, ProfilesOfElements
<1>10. BufferIsLatest'
  BY <1>1, <1>2, <1>3 DEF Inv, BufferIsLatest
<1>11. PlacesFollow'
  BY <1>2, <1>4, <1>5 DEF Inv, PlacesFollow
<1>12. ProfilesFollow'
  BY <1>1, <1>2, <1>3 DEF Inv, ProfilesFollow
<1>13. CountsFollow'
  <2>1. written + Len(buffer) = Cardinality(Emitted) /\ profilesWritten <= written
    BY <1>1 DEF Inv, CountsFollow, Streaming
  <2>2. profilesWritten + Len(buffer) + 1 <= (written + Len(buffer)) + 1
    BY <2>1, BufferType DEF Inv, TypeOK
  <2> QED BY <1>1, <1>2, <2>1, <2>2 DEF CountsFollow, Streaming
<1> QED BY <1>6, <1>7, <1>8, <1>9, <1>10, <1>11, <1>12, <1>13 DEF Inv

\* The loop is at an element of the buffer, which is the last of its key, and
\* has been flushed.
LEMMA LoopElement ==
  ASSUME Inv, pc = "profiles", next <= Len(buffer)
  PROVE  /\ next \in 1 .. Len(buffer)
         /\ pending[next] = mapTagsToProfile(buffer[next].tags)
         /\ buffer[next] \in Elements /\ KeyOf(buffer[next]) \in Keys
         /\ KeyOf(buffer[next]) \in EmittedKeys \cap Owed
         /\ buffer[next] = LastOf(KeyOf(buffer[next]))
         /\ places[KeyOf(buffer[next])] # None
<1>1. next \in 1 .. Len(buffer) /\ ~Duplicated
  BY BufferType DEF Inv, TypeOK, BufferFits
<1>2. buffer[next] \in Elements /\ pending[next] = mapTagsToProfile(buffer[next].tags)
  BY <1>1, BufferType DEF Inv, Aligned
<1>3. buffer[next] = LastOf(KeyOf(buffer[next])) /\ KeyOf(buffer[next]) \in EmittedKeys
  BY <1>1, OnlyOfItsKey DEF Inv
<1>4. places[KeyOf(buffer[next])] # None
  BY <1>3, PlacesThere DEF Inv, PlacesFollow, Streaming
<1>5. KeyOf(buffer[next]) \in Owed
  <2>1. next \in next .. Len(buffer)
    BY <1>1, BufferType DEF Inv
  <2> QED BY <2>1 DEF Owed
<1> QED BY <1>1, <1>2, <1>3, <1>4, <1>5 DEF Keys

LEMMA WriteProfileInv == ASSUME Inv, TypeOK', WriteProfile PROVE Inv'
<1>1. PICK key : key = KeyOf(buffer[next])
  OBVIOUS
<1>2. PICK stored \in BOOLEAN : stored <=> pending[next] # None /\ profiles[key] # Verified
  OBVIOUS
<1>3. /\ UNCHANGED <<files, at, pc, buffer, pending, places, written>>
      /\ pc = "profiles" /\ next <= Len(buffer)
      /\ touched' = touched \cup {key} /\ next' = next + 1
      /\ profiles' = IF stored THEN [profiles EXCEPT ![key] = WithAuditFlags(pending[next])]
                               ELSE profiles
      /\ profilesWritten' = profilesWritten + IF stored THEN 1 ELSE 0
  BY <1>1, <1>2 DEF WriteProfile, run
<1>4. /\ next \in 1 .. Len(buffer)
      /\ pending[next] = mapTagsToProfile(LastOf(key).tags)
      /\ LastOf(key) \in Elements /\ key \in Keys /\ key \in EmittedKeys \cap Owed
      /\ places[key] # None
  BY <1>1, <1>3, LoopElement
<1>5. Emitted' = Emitted /\ EmittedKeys' = EmittedKeys /\ \A k : LastOf(k)' = LastOf(k)
  BY <1>3, EmitNothing DEF Inv
<1>6. Buffered' = Buffered
  BY <1>3 DEF Buffered
<1>7. Owed' \cup {key} = Owed
  <2>1. Owed = {KeyOf(buffer[j]) : j \in next .. Len(buffer)}
    BY <1>3 DEF Owed
  <2>2. Owed' = {KeyOf(buffer[j]) : j \in next + 1 .. Len(buffer)}
    BY <1>3 DEF Owed
  <2>3. next .. Len(buffer) = (next + 1 .. Len(buffer)) \cup {next}
    BY <1>4, BufferType DEF Inv
  <2> QED BY <1>1, <2>1, <2>2, <2>3
<1>8. \A k \in Keys : profiles'[k] = IF k = key /\ stored
                                      THEN WithAuditFlags(mapTagsToProfile(LastOf(key).tags))
                                      ELSE profiles[k]
  BY <1>3, <1>4 DEF Inv, TypeOK
<1>9. Aligned'
  BY <1>3 DEF Inv, Aligned
<1>10. BufferFits'
  BY <1>3, <1>4, BufferType DEF Inv, BufferFits, Duplicated
<1>11. RowsOfElements'
  BY <1>3, <1>4, <1>8 DEF Inv, RowsOfElements
<1>12. ProfilesOfElements'
  <2> SUFFICES ASSUME NEW k \in Keys, profiles'[k] \notin {None, Verified}
               PROVE  \E e \in Elements :
                         /\ KeyOf(e) = k
                         /\ mapTagsToProfile(e.tags) # None
                         /\ profiles'[k] = WithAuditFlags(mapTagsToProfile(e.tags))
    BY DEF ProfilesOfElements
  <2>1. CASE k = key /\ stored
    <3>1. KeyOf(LastOf(key)) = key
      BY <1>4, LastOfType DEF Inv
    <3> QED BY <1>2, <1>4, <1>8, <2>1, <3>1
  <2>2. CASE ~(k = key /\ stored)
    BY <1>8, <2>2 DEF Inv, ProfilesOfElements
  <2> QED BY <2>1, <2>2
<1>13. BufferIsLatest'
  BY <1>3, <1>5, <1>6 DEF Inv, BufferIsLatest
<1>14. PlacesFollow'
  BY <1>3, <1>5, <1>6 DEF Inv, PlacesFollow
<1>15. ProfilesFollow'
  <2>1. touched' \cup Owed' = EmittedKeys'
    BY <1>3, <1>5, <1>7 DEF Inv, ProfilesFollow
  <2>2. ASSUME NEW k \in EmittedKeys' \ Owed'
        PROVE  LET derived == mapTagsToProfile(LastOf(k)'.tags) IN
               derived # None => profiles'[k] = Verified \/ profiles'[k].profile = derived
    <3>1. LastOf(k)' = LastOf(k) /\ k \in EmittedKeys /\ k \in Keys
      BY <1>5, <2>2, ReadType DEF Inv
    <3>2. CASE k = key
      <4>1. CASE stored
        BY <1>8, <3>1, <3>2, <4>1 DEF WithAuditFlags
      <4>2. CASE ~stored
        BY <1>2, <1>4, <1>8, <3>1, <3>2, <4>2
      <4> QED BY <4>1, <4>2
    <3>3. CASE k # key
      <4>1. k \notin Owed
        BY <1>7, <2>2, <3>3
      <4> QED BY <1>3, <1>8, <3>1, <3>3, <4>1 DEF Inv, ProfilesFollow
    <3> QED BY <3>2, <3>3
  <2> QED BY <2>1, <2>2 DEF ProfilesFollow
<1>16. CountsFollow'
  <2>1. written = Cardinality(Emitted) /\ profilesWritten + Len(buffer) + 1 <= written + next
    BY <1>3 DEF Inv, CountsFollow, Streaming
  <2>2. profilesWritten' + Len(buffer) + 1 <= written + (next + 1)
    BY <1>3, <2>1, BufferType DEF Inv, TypeOK
  <2> QED BY <1>3, <1>5, <2>1, <2>2 DEF CountsFollow, Streaming
<1> QED BY <1>9, <1>10, <1>11, <1>12, <1>13, <1>14, <1>15, <1>16 DEF Inv

LEMMA EndFlushInv == ASSUME Inv, TypeOK', EndFlush PROVE Inv'
<1>1. /\ UNCHANGED <<files, at, next, places, profiles, touched, written, profilesWritten>>
      /\ pc = "profiles" /\ next > Len(buffer) /\ pc' \in {"sweep", "stream"}
      /\ buffer' = <<>> /\ pending' = <<>>
  BY DEF EndFlush, run, tables, report
<1>2. Emitted' = Emitted /\ EmittedKeys' = EmittedKeys /\ \A k : LastOf(k)' = LastOf(k)
  BY <1>1, EmitNothing DEF Inv
<1>3. Len(buffer') = 0 /\ Buffered' = {} /\ Owed' = {}
  BY <1>1 DEF Buffered, Owed
<1>4. next = Len(buffer) + 1 /\ Owed = {}
  <2>1. next = Len(buffer) + 1
    BY <1>1, BufferType DEF Inv, TypeOK, BufferFits
  <2>2. next .. Len(buffer) = {}
    BY <2>1, BufferType DEF Inv
  <2> QED BY <1>1, <2>1, <2>2 DEF Owed
<1>5. Aligned'
  BY <1>1, <1>3 DEF Aligned
<1>6. BufferFits'
  BY <1>1, <1>3, OsmImportAssumption DEF BufferFits
<1>7. RowsOfElements' /\ ProfilesOfElements'
  BY <1>1 DEF Inv, RowsOfElements, ProfilesOfElements
<1>8. BufferIsLatest'
  BY <1>3 DEF BufferIsLatest
<1>9. PlacesFollow'
  BY <1>1, <1>2 DEF Inv, PlacesFollow, Streaming
<1>10. ProfilesFollow'
  BY <1>1, <1>2, <1>3, <1>4 DEF Inv, ProfilesFollow
<1>11. CountsFollow'
  <2>1. written = Cardinality(Emitted) /\ profilesWritten + Len(buffer) + 1 <= written + next
    BY <1>1 DEF Inv, CountsFollow, Streaming
  <2>2. profilesWritten <= written
    BY <1>4, <2>1, BufferType DEF Inv, TypeOK
  <2>3. written + 0 = Cardinality(Emitted)
    BY <2>1 DEF Inv, TypeOK
  <2> QED BY <1>1, <1>2, <1>3, <2>1, <2>2, <2>3 DEF CountsFollow, Streaming
<1> QED BY <1>5, <1>6, <1>7, <1>8, <1>9, <1>10, <1>11 DEF Inv

\* A run ends, well or badly.
LEMMA EndInv == ASSUME Inv, TypeOK', SweepAndReport \/ Fail PROVE Inv'
<1>1. /\ UNCHANGED <<files, at, buffer, pending, next, places, profiles, touched,
                     written, profilesWritten>>
      /\ (pc = "sweep" /\ pc' = "done") \/ pc' = "failed"
  BY DEF SweepAndReport, Fail, run, tables, report
<1>2. Emitted' = Emitted /\ EmittedKeys' = EmittedKeys /\ \A k : LastOf(k)' = LastOf(k)
  BY <1>1, EmitNothing DEF Inv
<1>3. Buffered' = Buffered /\ (pc' = "done" => Owed' = Owed)
  BY <1>1 DEF Buffered, Owed
<1>4. Aligned' /\ BufferFits'
  BY <1>1 DEF Inv, Aligned, BufferFits
<1>5. RowsOfElements' /\ ProfilesOfElements'
  BY <1>1 DEF Inv, RowsOfElements, ProfilesOfElements
<1>6. BufferIsLatest' /\ PlacesFollow'
  BY <1>1, <1>2, <1>3 DEF Inv, BufferIsLatest, PlacesFollow, Streaming
<1>7. ProfilesFollow' /\ CountsFollow'
  BY <1>1, <1>2, <1>3 DEF Inv, ProfilesFollow, CountsFollow, Streaming
<1> QED BY <1>4, <1>5, <1>6, <1>7 DEF Inv

LEMMA ProfileFailsInv == ASSUME Inv, TypeOK', ProfileFails PROVE Inv'
<1>1. /\ UNCHANGED <<files, at, buffer, pending, next, places, profiles, written,
                     profilesWritten>>
      /\ pc = "profiles" /\ pc' = "failed" /\ next <= Len(buffer)
      /\ touched' = touched \cup {KeyOf(buffer[next])}
  BY DEF ProfileFails, run, tables
<1>2. Emitted' = Emitted /\ EmittedKeys' = EmittedKeys /\ \A k : LastOf(k)' = LastOf(k)
  BY <1>1, EmitNothing DEF Inv
<1>3. Buffered' = Buffered
  BY <1>1 DEF Buffered
<1>4. Aligned' /\ BufferFits'
  BY <1>1 DEF Inv, Aligned, BufferFits
<1>5. places[KeyOf(buffer[next])] # None
  BY <1>1, LoopElement
<1>6. RowsOfElements' /\ ProfilesOfElements'
  BY <1>1, <1>5 DEF Inv, RowsOfElements, ProfilesOfElements
<1>7. BufferIsLatest' /\ PlacesFollow'
  BY <1>1, <1>2, <1>3 DEF Inv, BufferIsLatest, PlacesFollow, Streaming
<1>8. ProfilesFollow' /\ CountsFollow'
  BY <1>1 DEF ProfilesFollow, CountsFollow
<1> QED BY <1>4, <1>6, <1>7, <1>8 DEF Inv

LEMMA VerifyInv == ASSUME Inv, TypeOK', NEW u \in Keys, Verify(u) PROVE Inv'
<1>1. /\ UNCHANGED <<files, at, pc, buffer, pending, next, places, touched, written,
                     profilesWritten>>
      /\ places[u] # None
      /\ \A k \in Keys : profiles'[k] = IF k = u THEN Verified ELSE profiles[k]
  BY DEF Verify, run, report, Inv, TypeOK
<1>2. Emitted' = Emitted /\ EmittedKeys' = EmittedKeys /\ \A k : LastOf(k)' = LastOf(k)
  BY <1>1, EmitNothing DEF Inv
<1>3. Buffered' = Buffered /\ Owed' = Owed
  BY <1>1 DEF Buffered, Owed
<1>4. Aligned' /\ BufferFits'
  BY <1>1 DEF Inv, Aligned, BufferFits, Duplicated
<1>5. RowsOfElements' /\ ProfilesOfElements'
  BY <1>1 DEF Inv, RowsOfElements, ProfilesOfElements
<1>6. BufferIsLatest' /\ PlacesFollow'
  BY <1>1, <1>2, <1>3 DEF Inv, BufferIsLatest, PlacesFollow
<1>7. ProfilesFollow'
  BY <1>1, <1>2, <1>3, ReadType DEF Inv, ProfilesFollow
<1>8. CountsFollow'
  BY <1>1, <1>2 DEF Inv, CountsFollow
<1> QED BY <1>4, <1>5, <1>6, <1>7, <1>8 DEF Inv

LEMMA StepInv == Inv /\ [Next]_vars => Inv'
<1> SUFFICES ASSUME Inv, [Next]_vars PROVE Inv'
  OBVIOUS
<1>1. TypeOK'
  BY StepType DEF Inv
<1> QED BY <1>1, StartRunInv, SkipInv, SinkInv, EndOfSourceInv, FlushInv, WriteProfileInv,
           EndFlushInv, EndInv, ProfileFailsInv, VerifyInv DEF Next

THEOREM Invariance == Spec => []Inv
<1>1. Init => Inv
  BY InitInv
<1>2. Inv /\ [Next]_vars => Inv'
  BY StepInv
<1> QED BY <1>1, <1>2, PTL DEF Spec

-----------------------------------------------------------------------------
(* Ranks and flags of tags                                                 *)

\* The rank of a landmark's and of a feature's amenity, whatever other tags the
\* place has.
LEMMA RankOfAmenity ==
  ASSUME NEW tags
  PROVE  LET rank == DeriveRank(Evaluate(tags), tags) IN
         /\ tags.amenity \in {"hospital", "university", "bus_station"} => rank = Landmark
         /\ tags.amenity \in {"toilets", "atm", "shelter"} => rank = Feature
<1> DEFINE a == tags.amenity
<1>1. {"hospital", "university", "bus_station", "toilets", "atm", "shelter"}
        \subseteq DOMAIN AmenityToCategory
  BY DEF AmenityToCategory
<1>2. /\ AmenityToCategory["hospital"] = "healthcare"
      /\ AmenityToCategory["university"] = "education"
      /\ AmenityToCategory["bus_station"] = "transport"
      /\ AmenityToCategory["toilets"] = "toilet"
      /\ AmenityToCategory["atm"] = "finance"
      /\ AmenityToCategory["shelter"] = "social"
  BY DEF AmenityToCategory
<1>3. a \in DOMAIN AmenityToCategory => Evaluate(tags) = AmenityToCategory[a]
  BY DEF Evaluate
<1>4. a = "hospital" => DeriveRank(Evaluate(tags), tags) = Landmark
  BY <1>1, <1>2, <1>3 DEF DeriveRank
<1>5. a = "university" => DeriveRank(Evaluate(tags), tags) = Landmark
  BY <1>1, <1>2, <1>3 DEF DeriveRank
<1>6. a = "bus_station" => DeriveRank(Evaluate(tags), tags) = Landmark
  BY <1>1, <1>2, <1>3 DEF DeriveRank
<1>7. a = "toilets" => DeriveRank(Evaluate(tags), tags) = Feature
  BY <1>1, <1>2, <1>3 DEF DeriveRank
<1>8. a = "atm" => DeriveRank(Evaluate(tags), tags) = Feature
  BY <1>1, <1>2, <1>3 DEF DeriveRank
<1>9. a = "shelter" => DeriveRank(Evaluate(tags), tags) = Feature
  BY <1>1, <1>2, <1>3 DEF DeriveRank
<1> QED BY <1>4, <1>5, <1>6, <1>7, <1>8, <1>9

\* Content flattens the components of a profile.
LEMMA ContentHolds ==
  ASSUME NEW P, NEW c \in Stating, NEW p
  PROVE  /\ <<c, p>> \in DOMAIN Content(P) <=> p \in DOMAIN P[c]
         /\ p \in DOMAIN P[c] => Content(P)[<<c, p>>] = P[c][p]
<1> DEFINE D == UNION {{<<d, q>> : q \in DOMAIN P[d]} : d \in Stating}
<1>1. Content(P) = [f \in D |-> P[f[1]][f[2]]]
  BY DEF Content
<1>2. <<c, p>> \in D <=> p \in DOMAIN P[c]
  OBVIOUS
<1> HIDE DEF D
<1> QED BY <1>1, <1>2

\* The flags the tags of one element give rise to.
LEMMA FlagsOfTags ==
  ASSUME NEW tags \in TagValues, mapTagsToProfile(tags) # None
  PROVE  LET flags == FlagsOf(Content(mapTagsToProfile(tags))) IN
         /\ <<"entrance", "is_level">> \in flags <=> tags.steps /\ tags.ramp_wheelchair # "yes"
         /\ <<"entrance", "width">> \in flags <=>
               \/ tags.width # Unread /\ tags.width < 70
               \/ /\ tags.width = Unread
                  /\ tags.door_width # Unread /\ tags.door_width < 70
         /\ <<"parking", "has_disabled_spaces">> \in flags <=>
               \/ tags.capacity = "zero"
               \/ tags.capacity = "absent" /\ tags.parking_no
<1> DEFINE P == mapTagsToProfile(tags)
           C == Content(P)
<1>1. P.entrance = mapEntrance(tags) /\ P.parking = mapParking(tags)
  BY DEF mapTagsToProfile
<1>2. /\ DOMAIN mapEntrance(tags) = {"door", "is_level", "has_fixed_ramp", "width",
                                     "slope_percent"}
      /\ DOMAIN mapParking(tags) = {"has_disabled_spaces"}
  BY DEF mapEntrance, mapParking
<1> HIDE DEF P
<1>3. /\ <<"entrance", "is_level">> \in DOMAIN C
      /\ <<"entrance", "width">> \in DOMAIN C
      /\ <<"entrance", "has_fixed_ramp">> \in DOMAIN C
      /\ <<"entrance", "has_removable_ramp">> \notin DOMAIN C
      /\ <<"parking", "has_disabled_spaces">> \in DOMAIN C
  <2>1. \A q : <<"entrance", q>> \in DOMAIN C <=> q \in DOMAIN P["entrance"]
    BY ContentHolds DEF Stating
  <2>2. \A q : <<"parking", q>> \in DOMAIN C <=> q \in DOMAIN P["parking"]
    BY ContentHolds DEF Stating
  <2> QED BY <1>1, <1>2, <2>1, <2>2
<1>4. /\ C[<<"entrance", "is_level">>] = mapEntrance(tags).is_level
      /\ C[<<"entrance", "width">>] = mapEntrance(tags).width
      /\ C[<<"entrance", "has_fixed_ramp">>] = mapEntrance(tags).has_fixed_ramp
      /\ C[<<"parking", "has_disabled_spaces">>] = mapParking(tags).has_disabled_spaces
  BY <1>1, <1>2, ContentHolds DEF Stating
<1> HIDE DEF C
<1>5. HasRamp(C) <=> tags.ramp_wheelchair = "yes"
  <2>1. HasRamp(C) <=> mapEntrance(tags).has_fixed_ramp = Yes
    BY <1>3, <1>4 DEF HasRamp, Ramps
  <2>2. mapEntrance(tags).has_fixed_ramp = FixedRamp(tags)
    BY DEF mapEntrance
  <2> QED BY <2>1, <2>2, OsmTagsAssumption DEF FixedRamp, YesNo
<1>6. <<"entrance", "is_level">> \in FlagsOf(C)
        <=> tags.steps /\ tags.ramp_wheelchair # "yes"
  <2>1. mapEntrance(tags).is_level = No <=> tags.steps
    BY OsmTagsAssumption DEF mapEntrance, TagValues
  <2> QED BY <1>3, <1>4, <1>5, <2>1 DEF FlagsOf, Flagged
<1>7. <<"entrance", "width">> \in FlagsOf(C)
        <=> \/ tags.width # Unread /\ tags.width < 70
            \/ /\ tags.width = Unread
               /\ tags.door_width # Unread /\ tags.door_width < 70
  <2>1. \A cm \in Int : LevelForDoorWidth(cm) = No <=> cm < 70
    <3> SUFFICES ASSUME NEW cm \in Int PROVE LevelForDoorWidth(cm) = No <=> cm < 70
      OBVIOUS
    <3>1. Yes # No /\ No # "limited"
      BY OsmTagsAssumption
    <3>2. /\ cm < 70 => LevelForDoorWidth(cm) = No
          /\ cm >= 70 /\ cm < 80 => LevelForDoorWidth(cm) = "limited"
          /\ cm >= 80 => LevelForDoorWidth(cm) = Yes
      BY DEF LevelForDoorWidth
    <3> QED BY <3>1, <3>2
  <2>2. tags.width \in Int \cup {Unread} /\ tags.door_width \in Int \cup {Unread}
    BY DEF TagValues
  <2>3. mapEntrance(tags).width = No
          <=> Metres(tags) # Unread /\ LevelForDoorWidth(Metres(tags)) = No
    BY OsmTagsAssumption DEF mapEntrance
  <2>4. mapEntrance(tags).width = No
          <=> \/ tags.width # Unread /\ tags.width < 70
              \/ /\ tags.width = Unread
                 /\ tags.door_width # Unread /\ tags.door_width < 70
    BY <2>1, <2>2, <2>3 DEF Metres
  <2> QED BY <1>3, <1>4, <2>4 DEF FlagsOf, Flagged
<1>8. <<"parking", "has_disabled_spaces">> \in FlagsOf(C)
        <=> \/ tags.capacity = "zero"
            \/ tags.capacity = "absent" /\ tags.parking_no
  <2>1. mapParking(tags).has_disabled_spaces = No
          <=> \/ tags.capacity = "zero"
              \/ tags.capacity = "absent" /\ tags.parking_no
    BY OsmTagsAssumption DEF mapParking, TagValues
  <2> QED BY <1>3, <1>4, <2>1 DEF FlagsOf, Flagged
<1> QED BY <1>6, <1>7, <1>8 DEF C, P

-----------------------------------------------------------------------------
(* Theorems                                                                *)

\* A stored profile was derived from tags of its own place, over any number of
\* flushes, failures and runs.
THEOREM ProfilesStayWithTheirPlaces == Spec => []ProfilesMatchPlaces
<1>1. ASSUME Inv PROVE ProfilesMatchPlaces
  <2> SUFFICES ASSUME NEW k \in Keys, profiles[k] \notin {None, Verified}
               PROVE  \E e \in Elements : /\ KeyOf(e) = k
                                          /\ mapTagsToProfile(e.tags) = profiles[k].profile
    BY DEF ProfilesMatchPlaces
  <2>1. PICK e \in Elements :
           KeyOf(e) = k /\ profiles[k] = WithAuditFlags(mapTagsToProfile(e.tags))
    BY <1>1 DEF Inv, ProfilesOfElements
  <2>2. profiles[k].profile = mapTagsToProfile(e.tags)
    BY <2>1 DEF WithAuditFlags
  <2> QED BY <2>1, <2>2
<1> QED BY <1>1, Invariance, PTL

\* When the sweep starts, places and profiles say of every element of the file
\* what the file says of it last, and the counts and touchedIDs are complete.
THEOREM SweepStartsFromTheFile == Spec => []SweepSeesEverything
<1>1. ASSUME Inv PROVE SweepSeesEverything
  <2> SUFFICES ASSUME pc \in {"sweep", "done"}
               PROVE  /\ touched = EmittedKeys
                      /\ written = Cardinality(Emitted)
                      /\ profilesWritten <= written
                      /\ \A k \in EmittedKeys :
                            LET derived == mapTagsToProfile(LastOf(k).tags) IN
                            /\ places[k] = PlaceOf(LastOf(k))
                            /\ derived # None =>
                                  profiles[k] = Verified \/ profiles[k].profile = derived
    BY DEF SweepSeesEverything
  <2>1. Owed = {}
    BY <1>1, NothingYet DEF Inv, BufferFits
  <2>2. written = Cardinality(Emitted) /\ profilesWritten <= written
    BY <1>1 DEF Inv, CountsFollow, Streaming
  <2> QED BY <1>1, <2>1, <2>2 DEF Inv, PlacesFollow, ProfilesFollow, Streaming
<1> QED BY <1>1, Invariance, PTL

\* Wherever a run fails, only what is still in the buffer is missing from places,
\* and no profile or touched id is without its place.
THEOREM FailureLeavesTheRest == Spec => []FailureLosesOnlyTheBuffer
<1>1. ASSUME Inv PROVE FailureLosesOnlyTheBuffer
  <2>1. \A k \in Keys : profiles[k] # None => places[k] # None
    BY <1>1 DEF Inv, RowsOfElements
  <2>2. \A k \in touched : places[k] # None
    BY <1>1 DEF Inv, TypeOK, RowsOfElements
  <2>3. \A k \in EmittedKeys : \/ places[k] = PlaceOf(LastOf(k))
                               \/ \E b \in Entries(buffer) : KeyOf(b) = k
    BY <1>1 DEF Inv, PlacesFollow, Buffered, Entries
  <2>4. Len(buffer) <= size
    BY <1>1 DEF Inv, BufferFits
  <2> QED BY <2>1, <2>2, <2>3, <2>4 DEF FailureLosesOnlyTheBuffer
<1> QED BY <1>1, Invariance, PTL

\* A hospital is a landmark and a toilet a feature, also where another tag would
\* make the place a shop or a station.
THEOREM RanksFollowAmenities == Spec => []RankFollowsAmenity
<1>1. ASSUME Inv PROVE RankFollowsAmenity
  <2> SUFFICES ASSUME NEW k \in Keys, places[k] # None
               PROVE  LET amenity == places[k].tags.amenity IN
                      /\ amenity \in {"hospital", "university", "bus_station"}
                            => places[k].rank = Landmark
                      /\ amenity \in {"toilets", "atm", "shelter"}
                            => places[k].rank = Feature
    BY DEF RankFollowsAmenity
  <2>1. PICK e \in Elements : places[k] = PlaceOf(e)
    BY <1>1 DEF Inv, RowsOfElements
  <2>2. /\ places[k].tags = e.tags
        /\ places[k].rank = DeriveRank(Evaluate(e.tags), e.tags)
    BY <2>1 DEF PlaceOf
  <2> QED BY <2>2, RankOfAmenity
<1> QED BY <1>1, Invariance, PTL

\* After a run the flags of a profile are the barriers the tags of its place
\* state, however the profile was stored.
THEOREM FlagsAreTheBarriers == Spec => []FlagsFollowTags
<1>1. ASSUME Inv PROVE FlagsFollowTags
  <2> SUFFICES ASSUME pc = "done", NEW k \in touched,
                      profiles[k] \notin {None, Verified},
                      mapTagsToProfile(places[k].tags) # None
               PROVE  LET tags == places[k].tags
                          stated == profiles[k].flags
                      IN
                      /\ <<"entrance", "is_level">> \in stated
                            <=> tags.steps /\ tags.ramp_wheelchair # "yes"
                      /\ <<"entrance", "width">> \in stated <=>
                            \/ tags.width # Unread /\ tags.width < 70
                            \/ /\ tags.width = Unread
                               /\ tags.door_width # Unread /\ tags.door_width < 70
                      /\ <<"parking", "has_disabled_spaces">> \in stated <=>
                            \/ tags.capacity = "zero"
                            \/ tags.capacity = "absent" /\ tags.parking_no
    BY DEF FlagsFollowTags
  <2>1. Owed = {}
    BY <1>1, NothingYet DEF Inv, BufferFits
  <2>2. k \in EmittedKeys /\ k \in Keys
    BY <1>1, <2>1, ReadType DEF Inv, ProfilesFollow
  <2>3. places[k] = PlaceOf(LastOf(k)) /\ LastOf(k) \in Elements
    BY <1>1, <2>2, LastOfType DEF Inv, PlacesFollow, Streaming
  <2>4. places[k].tags = LastOf(k).tags /\ places[k].tags \in TagValues
    BY <2>3, ElementsAreTagged DEF PlaceOf
  <2>5. profiles[k].profile = mapTagsToProfile(places[k].tags)
    BY <1>1, <2>1, <2>2, <2>4 DEF Inv, ProfilesFollow
  <2>6. profiles[k].flags = FlagsOf(Content(profiles[k].profile))
    <3>1. PICK e \in Elements : profiles[k] = WithAuditFlags(mapTagsToProfile(e.tags))
      BY <1>1, <2>2 DEF Inv, ProfilesOfElements
    <3>2. /\ profiles[k].profile = mapTagsToProfile(e.tags)
          /\ profiles[k].flags = FlagsOf(Content(mapTagsToProfile(e.tags)))
      BY <3>1 DEF WithAuditFlags
    <3> QED BY <3>2
  <2> QED BY <2>4, <2>5, <2>6, FlagsOfTags
<1> QED BY <1>1, Invariance, PTL
=============================================================================
