-------------------------- MODULE PresetLibraryProofs --------------------------
(***************************************************************************)
(* The preset library's types, that file and sensors catch up with memory, *)
(* and that edits of one appliance's presets do not show at another's, for *)
(* any names, appliances, callers and numbers of edits and restarts.  The  *)
(* invariant says what happens in between: the youngest snapshot still to  *)
(* be written is memory as it is.                                          *)
(***************************************************************************)
EXTENDS PresetLibrary, LeastNumber, SequenceTheorems, TLAPS

Libraries == {lib \in Seq(Presets) : DistinctIds(lib)}
Writes == [library : Libraries, by : Callers]

\* The youngest snapshot is memory; down, there is none.
Caught ==
    /\ up => IF writes = <<>> THEN file = presets /\ shown = presets
             ELSE writes[Len(writes)].library = presets
    /\ ~up => writes = <<>>

\* LibraryTypeOK, with the set of libraries named.
Typed ==
    /\ up \in BOOLEAN /\ presets \in Libraries /\ file \in Libraries
    /\ writes \in Seq(Writes) /\ shown \in Seq(Presets)
    /\ edits \in Nat /\ restarts \in Nat

LibraryInv == Typed /\ Caught

\* Saving a preset keeps a library a library.
LEMMA PutType ==
    ASSUME NEW lib \in Libraries, NEW p \in Presets
    PROVE  Put(lib, p) \in Libraries
<1>1. /\ lib \in Seq(Presets) /\ DistinctIds(lib) /\ Len(lib) \in Nat
      /\ DOMAIN lib = 1 .. Len(lib)
      /\ \A i \in 1 .. Len(lib) : lib[i] \in Presets
  BY LenProperties, ElementOfSeq DEF Libraries
<1>2. CASE Has(lib, p.id)
  <2> DEFINE put == [i \in 1 .. Len(lib) |-> IF lib[i].id = p.id THEN p ELSE lib[i]]
  <2>1. put \in [1 .. Len(lib) -> Presets]
    BY <1>1
  <2>2. put \in Seq(Presets)
    BY <1>1, <2>1, SeqDef
  <2>3. \A i \in 1 .. Len(lib) : put[i].id = lib[i].id
    OBVIOUS
  <2>4. DistinctIds(put)
    BY <1>1, <2>3 DEF DistinctIds
  <2>. QED  BY <1>1, <1>2, <2>2, <2>4 DEF Put, Libraries
<1>3. CASE ~Has(lib, p.id)
  <2>1. /\ Append(lib, p) \in Seq(Presets)
        /\ Len(Append(lib, p)) = Len(lib) + 1
        /\ DOMAIN Append(lib, p) = 1 .. Len(lib) + 1
        /\ \A i \in 1 .. Len(lib) : Append(lib, p)[i] = lib[i]
        /\ Append(lib, p)[Len(lib) + 1] = p
    BY <1>1, AppendProperties, LenProperties
  <2>2. \A i \in 1 .. Len(lib) : lib[i].id # p.id
    BY <1>1, <1>3 DEF Has
  <2>3. DistinctIds(Append(lib, p))
    BY <1>1, <2>1, <2>2 DEF DistinctIds
  <2>. QED  BY <1>3, <2>1, <2>3 DEF Put, Libraries
<1>. QED  BY <1>2, <1>3

\* Without the preset at k, what was after it is one place further to the front.
From(k, i) == IF i < k THEN i ELSE i + 1

LEMMA WithoutAt ==
    ASSUME NEW lib \in Libraries, NEW id \in Names, Has(lib, id)
    PROVE  /\ Place(lib, id) \in 1 .. Len(lib) /\ lib[Place(lib, id)].id = id
           /\ Without(lib, id) \in Seq(Presets) /\ Len(Without(lib, id)) = Len(lib) - 1
           /\ DOMAIN Without(lib, id) = 1 .. Len(lib) - 1
           /\ \A i \in 1 .. Len(lib) - 1 :
                 Without(lib, id)[i] = lib[From(Place(lib, id), i)]
<1> DEFINE n == Len(lib)
           k == Place(lib, id)
           left == SubSeq(lib, 1, k - 1)
           right == SubSeq(lib, k + 1, n)
<1>1. /\ lib \in Seq(Presets) /\ DistinctIds(lib) /\ n \in Nat
      /\ DOMAIN lib = 1 .. n
      /\ \A i \in 1 .. n : lib[i] \in Presets
  BY LenProperties, ElementOfSeq DEF Libraries
<1>2. k \in 1 .. n /\ lib[k].id = id
  BY <1>1 DEF Has, Place
<1>3. /\ left \in Seq(Presets) /\ Len(left) = k - 1
      /\ \A i \in 1 .. k - 1 : left[i] = lib[i]
  BY <1>1, <1>2
<1>4. /\ right \in Seq(Presets) /\ Len(right) = n - k
      /\ \A i \in 1 .. n - k : right[i] = lib[k + i]
  BY <1>1, <1>2
<1> DEFINE rest == left \o right
<1>5. /\ rest \in Seq(Presets) /\ Len(rest) = n - 1
      /\ DOMAIN rest = 1 .. n - 1
      /\ \A i \in 1 .. n - 1 :
            rest[i] = IF i <= k - 1 THEN left[i] ELSE right[i - (k - 1)]
  <2>1. n - 1 = (k - 1) + (n - k)
    BY <1>1, <1>2
  <2>2. /\ rest \in Seq(Presets)
        /\ Len(rest) = Len(left) + Len(right)
        /\ \A i \in 1 .. Len(left) + Len(right) :
              rest[i] = IF i <= Len(left) THEN left[i] ELSE right[i - Len(left)]
    <3> HIDE DEF left, right
    <3>. QED  BY <1>3, <1>4, ConcatProperties
  <2>. HIDE DEF left, right, n, k
  <2>3. Len(left) + Len(right) = n - 1
    BY <1>1, <1>2, <1>3, <1>4
  <2>. QED  BY <1>3, <2>2, <2>3, LenProperties
<1>6. \A i \in 1 .. n - 1 : i < k => rest[i] = lib[i]
  <2>. HIDE DEF left, right, n, k, rest
  <2>. QED  BY <1>1, <1>2, <1>3, <1>5
<1>7. \A i \in 1 .. n - 1 : i >= k => rest[i] = lib[i + 1]
  <2>. HIDE DEF left, right, n, k, rest
  <2>1. SUFFICES ASSUME NEW i \in 1 .. n - 1, i >= k
                 PROVE  rest[i] = lib[i + 1]
    OBVIOUS
  <2>2. i - (k - 1) \in 1 .. n - k /\ k + (i - (k - 1)) = i + 1
    BY <1>1, <1>2, <2>1
  <2>3. rest[i] = right[i - (k - 1)]
    BY <1>1, <1>2, <1>5, <2>1
  <2>. QED  BY <1>4, <2>2, <2>3
<1>8. Without(lib, id) = rest
  BY DEF Without
<1>. QED
  <2>. HIDE DEF left, right, n, k, rest
  <2>1. \A i \in 1 .. n - 1 : rest[i] = lib[From(k, i)]
    BY <1>1, <1>2, <1>6, <1>7 DEF From
  <2>. QED  BY <1>2, <1>5, <1>8, <2>1 DEF k, n

\* Deleting a preset that is there keeps a library a library.
LEMMA WithoutType ==
    ASSUME NEW lib \in Libraries, NEW id \in Names, Has(lib, id)
    PROVE  Without(lib, id) \in Libraries
<1> DEFINE n == Len(lib)
           k == Place(lib, id)
           rest == Without(lib, id)
<1>1. n \in Nat /\ DOMAIN lib = 1 .. n /\ DistinctIds(lib)
  BY LenProperties DEF Libraries
<1>2. /\ k \in 1 .. n /\ rest \in Seq(Presets) /\ DOMAIN rest = 1 .. n - 1
      /\ \A i \in 1 .. n - 1 : rest[i] = lib[From(k, i)]
  BY WithoutAt
<1>. HIDE DEF n, k, rest
<1>3. \A i \in 1 .. n - 1 : From(k, i) \in 1 .. n
  BY <1>1, <1>2 DEF From
<1>4. \A i, j \in 1 .. n - 1 : From(k, i) = From(k, j) => i = j
  BY <1>1, <1>2 DEF From
<1>5. DistinctIds(rest)
  BY <1>1, <1>2, <1>3, <1>4 DEF DistinctIds
<1>. QED  BY <1>2, <1>5 DEF Libraries, rest

\* What is typed in terms of libraries is typed as LibraryTypeOK says.
LEMMA TypedRight == Typed => LibraryTypeOK
<1> SUFFICES ASSUME Typed PROVE LibraryTypeOK
  OBVIOUS
<1>1. Writes \subseteq [library : Seq(Presets), by : Callers]
  BY DEF Writes, Libraries
<1>2. writes \in Seq([library : Seq(Presets), by : Callers])
  BY <1>1, SeqMonotonic DEF Typed
<1>3. \A i \in DOMAIN writes : writes[i] \in Writes
  BY LenProperties, ElementOfSeq DEF Typed
<1>. QED  BY <1>2, <1>3 DEF Typed, LibraryTypeOK, Writes, Libraries

-----------------------------------------------------------------------------
(* The steps.  An edit is Ask with the library it makes.                   *)

LEMMA AskKeeps ==
    ASSUME LibraryInv, up, NEW c \in Callers, NEW lib \in Libraries, Ask(c, lib)
    PROVE  LibraryInv'
<1> DEFINE asked == [library |-> lib, by |-> c]
<1>1. writes \in Seq(Writes) /\ asked \in Writes
  BY DEF LibraryInv, Typed, Writes
<1>2. /\ writes' \in Seq(Writes) /\ writes' # <<>>
      /\ Len(writes') = Len(writes) + 1 /\ writes'[Len(writes) + 1] = asked
  BY <1>1, AppendProperties DEF Ask
<1>3. Typed'
  BY <1>2 DEF LibraryInv, Typed, Ask
<1>4. Caught'
  BY <1>2 DEF Caught, Ask
<1>. QED  BY <1>3, <1>4 DEF LibraryInv

LEMMA WrittenKeeps ==
    ASSUME LibraryInv, Written
    PROVE  LibraryInv'
<1>1. /\ writes \in Seq(Writes) /\ writes # <<>>
      /\ presets \in Libraries /\ shown' = presets
      /\ up' = up /\ presets' = presets
  BY DEF LibraryInv, Typed, Written
<1>2. /\ Head(writes) \in Writes /\ Head(writes) = writes[1]
      /\ writes' \in Seq(Writes) /\ Len(writes') = Len(writes) - 1
      /\ \A i \in 1 .. Len(writes') : writes'[i] = writes[i + 1]
      /\ Len(writes) \in Nat \ {0}
  BY <1>1, HeadTailProperties, EmptySeq, LenProperties DEF Written
<1>3. Typed'
  <2>1. file' \in Libraries
    BY <1>2 DEF Written, Writes
  <2>2. shown' \in Seq(Presets)
    BY <1>1 DEF Libraries
  <2>. QED  BY <1>1, <1>2, <2>1, <2>2 DEF LibraryInv, Typed, Written
<1>4. up /\ writes[Len(writes)].library = presets
  BY <1>1 DEF LibraryInv, Caught
<1>5. CASE Len(writes) = 1
  <2>1. writes' = <<>>
    BY <1>2, <1>5, EmptySeq
  <2>2. file' = presets
    BY <1>2, <1>4, <1>5 DEF Written
  <2>. QED  BY <1>1, <1>3, <1>4, <2>1, <2>2 DEF LibraryInv, Caught
<1>6. CASE Len(writes) # 1
  <2>1. writes' # <<>> /\ writes'[Len(writes')] = writes[Len(writes)]
    BY <1>2, <1>6, EmptySeq
  <2>. QED  BY <1>1, <1>3, <1>4, <2>1 DEF LibraryInv, Caught
<1>. QED  BY <1>5, <1>6

LEMMA LibraryStep == LibraryInv /\ [LibraryNext]_libraryVars => LibraryInv'
<1> SUFFICES ASSUME LibraryInv, [LibraryNext]_libraryVars
             PROVE  LibraryInv'
  OBVIOUS
<1>1. presets \in Libraries /\ file \in Libraries
  BY DEF LibraryInv, Typed
<1>2. ASSUME NEW c \in Callers, NEW name \in Names, NEW device \in Devices,
             Create(c, name, device)
      PROVE  LibraryInv'
  <2>1. [id |-> name, name |-> name, device |-> device] \in Presets
    BY DEF Presets
  <2>. QED  BY <1>1, <1>2, <2>1, PutType, AskKeeps DEF Create, May
<1>3. ASSUME NEW c \in Callers, NEW id \in Names, NEW name \in Names,
             NEW device \in Devices, Edit(c, id, name, device)
      PROVE  LibraryInv'
  <2>1. [id |-> id, name |-> name, device |-> device] \in Presets
    BY DEF Presets
  <2>. QED  BY <1>1, <1>3, <2>1, PutType, AskKeeps DEF Edit, May
<1>4. ASSUME NEW c \in Callers, NEW id \in Names, Delete(c, id)
      PROVE  LibraryInv'
  BY <1>1, <1>4, WithoutType, AskKeeps DEF Delete, May
<1>5. ASSUME Written PROVE LibraryInv'
  BY <1>5, WrittenKeeps
<1>6. ASSUME Dies PROVE LibraryInv'
  <2>1. <<>> \in Libraries /\ <<>> \in Seq(Writes) /\ <<>> \in Seq(Presets)
    BY EmptySeq DEF Libraries, DistinctIds
  <2>2. Typed'
    <3>1. presets' \in Libraries /\ shown' \in Seq(Presets)
      BY <1>6, <2>1 DEF Dies
    <3>2. writes' \in Seq(Writes)
      BY <1>6, <2>1 DEF Dies
    <3>3. up' \in BOOLEAN
      BY <1>6 DEF Dies
    <3>4. file' \in Libraries /\ edits' \in Nat
      BY <1>6 DEF Dies, LibraryInv, Typed
    <3>5. restarts' \in Nat
      BY <1>6 DEF Dies, LibraryInv, Typed
    <3>. QED  BY <3>1, <3>2, <3>3, <3>4, <3>5 DEF Typed
  <2>. QED  BY <1>6, <2>2 DEF LibraryInv, Caught, Dies
<1>7. ASSUME Loads PROVE LibraryInv'
  <2>1. file \in Seq(Presets)
    BY <1>1 DEF Libraries
  <2>2. Typed'
    BY <1>1, <1>7, <2>1 DEF LibraryInv, Typed, Loads
  <2>. QED  BY <1>7, <2>2 DEF LibraryInv, Caught, Loads
<1>8. CASE UNCHANGED libraryVars
  BY <1>8 DEF LibraryInv, Typed, Caught, libraryVars
<1>. QED  BY <1>2, <1>3, <1>4, <1>5, <1>6, <1>7, <1>8 DEF LibraryNext

LEMMA LibraryStart == LibraryInit => LibraryInv
<1> SUFFICES ASSUME LibraryInit PROVE LibraryInv
  OBVIOUS
<1>1. <<>> \in Libraries /\ <<>> \in Seq(Writes) /\ <<>> \in Seq(Presets)
  BY EmptySeq DEF Libraries, DistinctIds
<1>2. Typed
  BY <1>1 DEF Typed, LibraryInit
<1>. QED  BY <1>2 DEF LibraryInv, Caught, LibraryInit

LEMMA LibraryAlways == LibrarySpec => []LibraryInv
BY LibraryStart, LibraryStep, PTL DEF LibrarySpec

\* Every library, in memory, in the file and in every snapshot still to be
\* written, is a sequence of presets with no id twice: what _presets, a
\* dictionary, is by construction, is kept by the edits of the sequence.
THEOREM LibraryTypeCorrect == LibrarySpec => []LibraryTypeOK
<1>1. LibraryInv => LibraryTypeOK
  BY TypedRight DEF LibraryInv
<1>. QED  BY <1>1, LibraryAlways, PTL

\* When no write is under way the file holds memory, order included, however
\* many saves and deletes overlapped and wherever Home Assistant died.
THEOREM FileFollows == LibrarySpec => []FileCatchesUp
<1>1. LibraryInv => FileCatchesUp
  BY DEF LibraryInv, Caught, FileCatchesUp
<1>. QED  BY <1>1, LibraryAlways, PTL

\* When no write is under way the status sensors list memory, though the call
\* that told them may have been answered for an edit older than the last.
THEOREM SensorsFollow == LibrarySpec => []SensorsCatchUp
<1>1. LibraryInv => SensorsCatchUp
  BY DEF LibraryInv, Caught, SensorsCatchUp
<1>. QED  BY <1>1, LibraryAlways, PTL

-----------------------------------------------------------------------------
(* What an edit of other appliances' presets does to what a name finds.    *)

Own(lib, d) == {i \in DOMAIN lib : lib[i].device = d}

\* What find returns: the preset with the id, or else the first with the name.
LEMMA FindById ==
    ASSUME NEW lib \in Libraries, NEW key, NEW d, NEW i \in Own(lib, d), lib[i].id = key
    PROVE  Find(lib, key, d) = lib[i]
<1>1. /\ DistinctIds(lib) /\ i \in DOMAIN lib /\ lib[i].device = d
  BY DEF Libraries, Own
<1>2. Has(lib, key) /\ Place(lib, key) = i
  BY <1>1 DEF Has, Place, DistinctIds
<1>. QED  BY <1>1, <1>2 DEF Find

LEMMA FindByName ==
    ASSUME NEW lib \in Libraries, NEW key, NEW d, \A j \in Own(lib, d) : lib[j].id # key,
           NEW i \in Own(lib, d), lib[i].name = key,
           \A j \in Own(lib, d) : lib[j].name = key => i <= j
    PROVE  Find(lib, key, d) = lib[i]
<1> DEFINE named == {j \in DOMAIN lib : lib[j].name = key /\ lib[j].device = d}
<1>1. DOMAIN lib = 1 .. Len(lib) /\ Len(lib) \in Nat
  BY LenProperties DEF Libraries
<1>2. ~(Has(lib, key) /\ lib[Place(lib, key)].device = d)
  BY DEF Has, Place, Own
<1>3. i \in named /\ named \subseteq Int /\ \A j \in named : i <= j
  BY <1>1 DEF Own
<1>. HIDE DEF named
<1>4. (CHOOSE j \in named : \A h \in named : j <= h) = i
  BY <1>3
<1>. QED  BY <1>2, <1>3, <1>4 DEF Find, named

LEMMA FindNothing ==
    ASSUME NEW lib \in Libraries, NEW key, NEW d,
           \A j \in Own(lib, d) : lib[j].id # key /\ lib[j].name # key
    PROVE  Find(lib, key, d) = NoPreset
<1>1. ~(Has(lib, key) /\ lib[Place(lib, key)].device = d)
  BY DEF Has, Place, Own
<1>2. {j \in DOMAIN lib : lib[j].name = key /\ lib[j].device = d} = {}
  BY DEF Own
<1>. QED  BY <1>1, <1>2 DEF Find

\* Two libraries with an appliance's presets in the same order find the same.
LEMMA FindsTheSame ==
    ASSUME NEW lib \in Libraries, NEW new \in Libraries, NEW key, NEW d,
           NEW f \in [Own(new, d) -> Own(lib, d)],
           \A i \in Own(new, d) : new[i] = lib[f[i]],
           \A i, j \in Own(new, d) : i <= j => f[i] <= f[j],
           \A h \in Own(lib, d) : \E i \in Own(new, d) : f[i] = h
    PROVE  Find(new, key, d) = Find(lib, key, d)
<1>1. CASE \E i \in Own(new, d) : new[i].id = key
  <2>1. PICK i \in Own(new, d) : new[i].id = key
    BY <1>1
  <2>2. f[i] \in Own(lib, d) /\ lib[f[i]] = new[i]
    OBVIOUS
  <2>. QED  BY <2>1, <2>2, FindById
<1>2. CASE /\ ~\E i \in Own(new, d) : new[i].id = key
           /\ \E i \in Own(new, d) : new[i].name = key
  <2> DEFINE named == {i \in Own(new, d) : new[i].name = key}
  <2>1. named \in SUBSET Nat /\ named # {}
    BY <1>2, LenProperties DEF Own, Libraries
  <2>2. PICK i \in named : \A j \in named : i <= j
    BY <2>1, HasLeast
  <2>3. f[i] \in Own(lib, d) /\ lib[f[i]] = new[i] /\ new[i].name = key
    BY <2>2
  <2>4. \A h \in Own(lib, d) : lib[h].id # key
    BY <1>2
  <2>5. \A h \in Own(lib, d) : lib[h].name = key => f[i] <= h
    BY <2>2
  <2>6. Find(lib, key, d) = lib[f[i]]
    BY <2>3, <2>4, <2>5, FindByName
  <2>7. Find(new, key, d) = new[i]
    BY <1>2, <2>2, <2>3, FindByName
  <2>. QED  BY <2>3, <2>6, <2>7
<1>3. CASE ~\E i \in Own(new, d) : new[i].id = key \/ new[i].name = key
  <2>1. \A h \in Own(lib, d) : lib[h].id # key /\ lib[h].name # key
    BY <1>3
  <2>. QED  BY <1>3, <2>1, FindNothing
<1>. QED  BY <1>1, <1>2, <1>3

LEMMA PutApart ==
    ASSUME NEW lib \in Libraries, NEW p \in Presets, NEW key, NEW d, p.device # d,
           \A i \in DOMAIN lib : lib[i].id = p.id => lib[i].device # d
    PROVE  Find(Put(lib, p), key, d) = Find(lib, key, d)
<1> DEFINE new == Put(lib, p)
           same == [i \in Own(new, d) |-> i]
<1>1. /\ lib \in Seq(Presets) /\ new \in Libraries /\ Len(lib) \in Nat
      /\ DOMAIN lib = 1 .. Len(lib)
  BY LenProperties, PutType DEF Libraries
<1>2. /\ \A i \in DOMAIN lib : i \in DOMAIN new /\ new[i] \in {lib[i], p}
                               /\ (lib[i].id # p.id => new[i] = lib[i])
      /\ \A i \in DOMAIN new : i \in DOMAIN lib \/ new[i] = p
  <2>1. CASE Has(lib, p.id)
    BY <2>1 DEF Put
  <2>2. CASE ~Has(lib, p.id)
    <3>1. /\ new = Append(lib, p) /\ DOMAIN new = 1 .. Len(lib) + 1
          /\ \A i \in 1 .. Len(lib) : new[i] = lib[i]
          /\ new[Len(lib) + 1] = p
      BY <1>1, <2>2, AppendProperties, LenProperties DEF Put
    <3>. QED  BY <1>1, <3>1
  <2>. QED  BY <2>1, <2>2
<1>. HIDE DEF new
<1>3. Own(new, d) = Own(lib, d) /\ \A i \in Own(new, d) : new[i] = lib[i] /\ i \in Int
  BY <1>1, <1>2 DEF Own
<1>. QED
  <2>1. /\ same \in [Own(new, d) -> Own(lib, d)]
        /\ \A i \in Own(new, d) : same[i] = i
    BY <1>3
  <2>. HIDE DEF same
  <2>2. Find(new, key, d) = Find(lib, key, d)
    BY <1>1, <1>3, <2>1, FindsTheSame
  <2>. QED  BY <2>2 DEF new

LEMMA WithoutApart ==
    ASSUME NEW lib \in Libraries, NEW id \in Names, Has(lib, id), NEW key, NEW d,
           \A i \in DOMAIN lib : lib[i].id = id => lib[i].device # d
    PROVE  Find(Without(lib, id), key, d) = Find(lib, key, d)
<1> DEFINE n == Len(lib)
           k == Place(lib, id)
           new == Without(lib, id)
           f == [i \in Own(new, d) |-> From(k, i)]
<1>1. /\ n \in Nat /\ DOMAIN lib = 1 .. n /\ new \in Libraries
  BY LenProperties, WithoutType DEF Libraries
<1>2. /\ k \in 1 .. n /\ lib[k].id = id /\ DOMAIN new = 1 .. n - 1
      /\ \A i \in 1 .. n - 1 : new[i] = lib[From(k, i)]
  BY WithoutAt
<1>. HIDE DEF n, k, new
<1>3. \A i \in 1 .. n - 1 : From(k, i) \in 1 .. n
  BY <1>1, <1>2 DEF From
<1>4. \A i \in Own(new, d) : From(k, i) \in Own(lib, d) /\ new[i] = lib[From(k, i)]
  BY <1>1, <1>2, <1>3 DEF Own
<1>5. f \in [Own(new, d) -> Own(lib, d)] /\ \A i \in Own(new, d) : f[i] = From(k, i)
  BY <1>4
<1>6. \A i, j \in 1 .. n - 1 : i <= j => From(k, i) <= From(k, j)
  BY <1>1, <1>2 DEF From
<1>7. \A h \in Own(lib, d) : \E i \in Own(new, d) : From(k, i) = h
  <2>1. SUFFICES ASSUME NEW h \in Own(lib, d)
                 PROVE  \E i \in 1 .. n - 1 : From(k, i) = h
    BY <1>2 DEF Own
  <2>2. h \in 1 .. n /\ h # k
    BY <1>1, <1>2 DEF Own
  <2>3. CASE h < k
    BY <1>1, <1>2, <2>2, <2>3 DEF From
  <2>4. CASE h > k
    <3>1. h - 1 \in 1 .. n - 1 /\ ~(h - 1 < k) /\ (h - 1) + 1 = h
      BY <1>1, <1>2, <2>2, <2>4
    <3>. QED  BY <3>1 DEF From
  <2>. QED  BY <1>1, <1>2, <2>2, <2>3, <2>4
<1>8. \A i, j \in Own(new, d) : i <= j => f[i] <= f[j]
  BY <1>2, <1>5, <1>6 DEF Own
<1>9. \A h \in Own(lib, d) : \E i \in Own(new, d) : f[i] = h
  BY <1>5, <1>7
<1>10. Find(new, key, d) = Find(lib, key, d)
  <2>. HIDE DEF f
  <2>. QED  BY <1>1, <1>4, <1>5, <1>8, <1>9, FindsTheSame
<1>. QED  BY <1>10 DEF new

\* "Shared by every appliance entry" (store.py): saving or deleting a preset with an
\* id that none of appliance d's presets has changes nothing in what a name or an
\* id finds for d, whichever names are shared and whatever moves up in the list.
THEOREM AppliancesStayApart == LibrarySpec => AppliancesApart
<1> DEFINE Apart ==
      \A d \in Devices, id \in Names :
          (\A lib \in {presets, presets'} : \A i \in DOMAIN lib :
             lib[i].id = id => lib[i].device # d)
          /\ (\E c \in Callers : \/ Delete(c, id)
                                 \/ \E device \in Devices :
                                       \/ Create(c, id, device)
                                       \/ \E name \in Names : Edit(c, id, name, device))
          => \A key \in Names : Find(presets', key, d) = Find(presets, key, d)
<1>1. LibraryInv => Apart
  <2> SUFFICES ASSUME LibraryInv, NEW d \in Devices, NEW id \in Names, NEW key \in Names,
                      \A lib \in {presets, presets'} : \A i \in DOMAIN lib :
                         lib[i].id = id => lib[i].device # d,
                      NEW c \in Callers,
                      \/ Delete(c, id)
                      \/ \E device \in Devices :
                            \/ Create(c, id, device)
                            \/ \E name \in Names : Edit(c, id, name, device)
               PROVE  Find(presets', key, d) = Find(presets, key, d)
    OBVIOUS
  <2>1. presets \in Libraries
    BY DEF LibraryInv, Typed
  <2>2. CASE Delete(c, id)
    BY <2>1, <2>2, WithoutApart DEF Delete, Ask
  <2>3. ASSUME NEW device \in Devices, NEW name \in Names,
               presets' = Put(presets, [id |-> id, name |-> name, device |-> device])
        PROVE  Find(presets', key, d) = Find(presets, key, d)
    <3> DEFINE p == [id |-> id, name |-> name, device |-> device]
    <3>1. p \in Presets /\ p.id = id /\ p.device = device
      BY DEF Presets
    <3>2. \E i \in DOMAIN presets' : presets'[i] = p
      <4>1. DOMAIN presets = 1 .. Len(presets) /\ Len(presets) \in Nat /\ presets \in Seq(Presets)
        BY <2>1, LenProperties DEF Libraries
      <4>2. CASE Has(presets, id)
        <5>1. PICK i \in DOMAIN presets : presets[i].id = id
          BY <4>2 DEF Has
        <5>. QED  BY <2>3, <3>1, <4>2, <5>1 DEF Put
      <4>3. CASE ~Has(presets, id)
        <5>1. presets' = Append(presets, p)
          BY <2>3, <3>1, <4>3 DEF Put
        <5>. HIDE DEF p
        <5>2. /\ Len(presets) + 1 \in DOMAIN presets'
              /\ presets'[Len(presets) + 1] = p
          BY <3>1, <4>1, <5>1, AppendProperties, LenProperties
        <5>. QED  BY <5>2
      <4>. QED  BY <4>2, <4>3
    <3>. HIDE DEF p
    <3>3. device # d
      BY <3>1, <3>2
    <3>4. presets' = Put(presets, p)
      BY <2>3 DEF p
    <3>. QED  BY <2>1, <3>1, <3>3, <3>4, PutApart
  <2>. QED  BY <2>2, <2>3 DEF Create, Edit, Ask
<1>. QED  BY <1>1, LibraryAlways, PTL DEF AppliancesApart

===============================================================================
