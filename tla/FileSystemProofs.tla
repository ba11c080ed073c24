-------------------------- MODULE FileSystemProofs --------------------------
(***************************************************************************)
(* The file system keeps its map, its directory and its files right, for   *)
(* any disk, directory, names and sizes, and wherever Nachos exits.        *)
(***************************************************************************)
EXTENDS FileSystem, SequenceTheorems, WellFoundedInduction, TLAPS

-----------------------------------------------------------------------------
(* The inductive invariant                                                 *)

HeaderSet == [kind : {"header"}, id : 1..MaxFiles, dataSectors : Seq(Sectors)]
DataSet == [kind : {"data"}, id : 1..MaxFiles, block : Nat, value : Values]
Blocks == {Garbage} \cup HeaderSet \cup DataSet
EntrySet == {Unused} \cup [inUse : {TRUE}, name : Names, sector : Sectors \ Reserved]
Directories == [Entries -> EntrySet]
Maps == {m \in SUBSET Sectors : Reserved \subseteq m}
Writes == [to : {"disk"}, sector : Sectors, header : HeaderSet]
          \cup [to : {"directory"}, contents : Directories]
          \cup [to : {"freeMap"}, contents : Maps]

\* What the sectors and the copies in memory can hold.
FSType ==
    /\ freeMap \in Maps
    /\ directory \in Directories
    /\ disk \in [Sectors -> Blocks]
    /\ pending \in Seq(Writes) /\ Len(pending) <= 3
    /\ open \in Seq(HeaderSet) /\ Len(open) <= MaxOpen
    /\ files \in 0..MaxFiles
    /\ written \in [1..MaxFiles -> Seq({Garbage} \cup DataSet)]
    /\ stale \in BOOLEAN
    /\ was \in [Names -> 0..MaxFiles] /\ will \in [Names -> 0..MaxFiles]
    /\ crash \in {"none", "last", "past"}
    /\ aborted \in BOOLEAN

\* The file headers there are: on disk, in memory, or about to be written.
KnownHeaders ==
    {h \in Range(disk) : h.kind = "header"} \cup Range(open)
        \cup {pending[i].header : i \in {i \in DOMAIN pending : pending[i].to = "disk"}}

NoRepeats(s) == \A i, j \in DOMAIN s : s[i] = s[j] => i = j

\* A header is made once and then only copied.
HeadersInv ==
    /\ \A h \in KnownHeaders :
         /\ h.id <= files
         /\ Range(h.dataSectors) \cap Reserved = {}
         /\ NoRepeats(h.dataSectors)
         /\ DOMAIN written[h.id] = DOMAIN h.dataSectors
    /\ \A h, k \in KnownHeaders : h.id = k.id => h = k

\* A directory d on a disk k with a map m, and the sectors of its files.
UsedIn(d) == {e \in Entries : d[e].inUse}
OwnedBy(d, k, e) == {d[e].sector} \cup Range(k[d[e].sector].dataSectors)

\* Every name leads to a header, and no sector has two uses.
Whole(d, k) ==
    /\ \A e \in UsedIn(d) : /\ k[d[e].sector].kind = "header"
                            /\ d[e].sector \notin Range(k[d[e].sector].dataSectors)
    /\ \A e, f \in UsedIn(d) : e # f => /\ d[e].name # d[f].name
                                        /\ OwnedBy(d, k, e) \cap OwnedBy(d, k, f) = {}

Exact(d, k, m) == m = Reserved \cup UNION {OwnedBy(d, k, e) : e \in UsedIn(d)}

\* Files hold what was written to them.
KeptBy(h, k) ==
    \A i \in DOMAIN h.dataSectors :
        written[h.id][i] # Garbage => k[h.dataSectors[i]] = written[h.id][i]

Kept(d, k) == \A e \in UsedIn(d) : KeptBy(k[d[e].sector], k)

\* The names of d lead to the files f.
Named(d, k, f) ==
    /\ \A e \in UsedIn(d) : f[d[e].name] = k[d[e].sector].id
    /\ \A n \in Names : f[n] # 0 => \E e \in UsedIn(d) : d[e].name = n

Steady(d, k, m, f) == Whole(d, k) /\ Exact(d, k, m) /\ Kept(d, k) /\ Named(d, k, f)

\* Before an operation changes the map or the directory all is in order, and when
\* it has written everything it is again.
Phase ==
    \/ pending = <<>> /\ was = will /\ Steady(directory, disk, freeMap, will)
    \/ \E s \in Sectors, h \in HeaderSet, d \in Directories, m \in Maps :
         /\ pending = <<WriteHeader(s, h), WriteDirectory(d), WriteFreeMap(m)>>
         /\ Steady(directory, disk, freeMap, was)
         /\ Steady(d, [disk EXCEPT ![s] = h], m, will)
         /\ \A e \in UsedIn(directory) : s \notin OwnedBy(directory, disk, e)
    \/ \E d \in Directories, m \in Maps :
         /\ \/ pending = <<WriteDirectory(d), WriteFreeMap(m)>>
            \/ pending = <<WriteFreeMap(m), WriteDirectory(d)>>
         /\ Steady(directory, disk, freeMap, was)
         /\ Steady(d, disk, m, will)
    \/ \E m \in Maps : pending = <<WriteFreeMap(m)>> /\ Steady(directory, disk, m, will)
    \/ \E d \in Directories : /\ pending = <<WriteDirectory(d)>> /\ Steady(d, disk, freeMap, will)
                               /\ Named(directory, disk, was)

\* While the map and the directory agree and no removed file was written.
NormalInv ==
    crash = "none" /\ ~stale =>
        ~aborted /\ Whole(directory, disk) /\ Kept(directory, disk) /\ Phase

\* After an exit that left them at odds, until the first operation.
Found(f) == Whole(directory, disk) /\ Kept(directory, disk) /\ Named(directory, disk, f)

CrashInv == crash = "last" => pending = <<>> /\ (~stale => Found(was) \/ Found(will))

IInv == FSType /\ HeadersInv /\ NormalInv /\ CrashInv

-----------------------------------------------------------------------------
(* Lemmas about the operators                                              *)

\* A set of natural numbers has a smallest element.
LEMMA SmallestElement ==
    ASSUME NEW T, T \subseteq Nat, T # {}
    PROVE  \E x \in T : \A y \in T : x <= y
<1> DEFINE R == OpToRel(<, Nat)
<1>1. \A x, y \in Nat : <<y, x>> \in R <=> y < x
  BY DEF OpToRel
<1>2. IsWellFoundedOn(R, Nat)
  BY Zenon, NatLessThanWellFounded
<1> HIDE DEF R
<1>3. PICK x \in T : \A y \in T : ~ (<<y, x>> \in R)
  BY Zenon, <1>2, WFMin
<1>4. \A y \in T : ~(y < x)
  BY Zenon, <1>1, <1>3
<1> QED BY <1>3, <1>4

\* Directory::FindIndex finds an entry of a name that is in the directory.
LEMMA FindIndexFinds ==
    ASSUME NEW name, InDirectory(name)
    PROVE  FindIndex(name) \in Entries /\ HasName(FindIndex(name), name)
<1> DEFINE T == {e \in Entries : HasName(e, name)}
<1>1. T \subseteq Nat /\ T # {}
  BY FileSystemAssumption DEF InDirectory, Entries
<1>2. PICK e \in T : \A d \in T : e <= d
  BY Zenon, <1>1, SmallestElement
<1>3. e \in Entries /\ HasName(e, name) /\ \A d \in Entries : HasName(d, name) => e <= d
  BY <1>2
<1> QED BY <1>3 DEF FindIndex

\* Closing an OpenFile forgets its header and no other.
LEMMA RemoveOne ==
    ASSUME NEW S, NEW s \in Seq(S), NEW i \in DOMAIN s
    PROVE  LET t == SubSeq(s, 1, i - 1) \o SubSeq(s, i + 1, Len(s))
           IN  t \in Seq(S) /\ Len(t) <= Len(s) /\ Range(t) \subseteq Range(s)
<1> DEFINE a == SubSeq(s, 1, i - 1)
           b == SubSeq(s, i + 1, Len(s))
<1>1. /\ Len(s) \in Nat /\ DOMAIN s = 1..Len(s) /\ i \in 1..Len(s)
      /\ \A j \in 1..Len(s) : s[j] \in S /\ s[j] \in Range(s)
  BY LenProperties DEF Range
<1>2. /\ a \in Seq(Range(s)) /\ Len(a) = i - 1
      /\ b \in Seq(Range(s)) /\ Len(b) = Len(s) - i
  <2>1. /\ \A j \in 1..(i - 1) : s[j] \in Range(s)
        /\ \A j \in (i + 1)..Len(s) : s[j] \in Range(s)
    BY <1>1
  <2>2. 1 \in Int /\ i - 1 \in Int /\ i + 1 \in Int /\ Len(s) \in Int
    BY <1>1
  <2>3. a \in Seq(Range(s)) /\ Len(a) = IF 1 <= i - 1 THEN (i - 1) - 1 + 1 ELSE 0
    BY <2>1, <2>2, SubSeqProperties
  <2>4. b \in Seq(Range(s)) /\ Len(b) = IF i + 1 <= Len(s) THEN Len(s) - (i + 1) + 1 ELSE 0
    BY <2>1, <2>2, SubSeqProperties
  <2> QED BY <1>1, <2>3, <2>4
<1> HIDE DEF a, b
<1>3. a \o b \in Seq(Range(s)) /\ Len(a \o b) = Len(a) + Len(b)
  BY <1>2, ConcatProperties
<1>4. Range(a \o b) \subseteq Range(s)
  BY Zenon, <1>3, RangeOfSeq
<1>5. Range(s) \subseteq S
  BY RangeOfSeq
<1>6. a \o b \in Seq(S)
  BY <1>3, <1>5, SeqMonotonic
<1> QED BY <1>1, <1>2, <1>3, <1>4, <1>6 DEF a, b

\* The sectors that Create takes are clear and different from each other.
LEMMA FoundSectors ==
    ASSUME FSType, NEW size \in Nat, NEW found \in [1..(size + 1) -> Sectors \ freeMap],
           FindClear(found)
    PROVE  /\ found[1] \in Sectors \ freeMap
           /\ Allocate(found, size) \in Seq(Sectors)
           /\ DOMAIN Allocate(found, size) = 1..size
           /\ Range(Allocate(found, size)) \subseteq Sectors \ freeMap
           /\ found[1] \notin Range(Allocate(found, size))
           /\ NoRepeats(Allocate(found, size))
<1> DEFINE a == Allocate(found, size)
<1>1. a \in [1..size -> Sectors] /\ \A i \in 1..size : a[i] = found[i + 1] /\ a[i] \notin freeMap
  BY DEF Allocate
<1>2. \A i, j \in 1..(size + 1) : i # j => found[i] # found[j]
  <2>1. \A i \in 1..(size + 1) : found[i] \in Nat
    BY FileSystemAssumption DEF Sectors
  <2>2. \A i, j \in 1..(size + 1) : i < j => found[i] < found[j]
    BY DEF FindClear
  <2> QED BY <2>1, <2>2
<1>3. a \in Seq(Sectors)
  BY <1>1, SeqDef
<1>4. NoRepeats(a)
  BY <1>1, <1>2 DEF NoRepeats
<1>5. found[1] \notin Range(a)
  BY <1>1, <1>2 DEF Range
<1> QED BY <1>1, <1>3, <1>4, <1>5 DEF Range

\* Operations that make no new header.
LEMMA HeadersUnmade ==
    ASSUME HeadersInv, KnownHeaders' \subseteq KnownHeaders, files' = files,
           \A h \in KnownHeaders : DOMAIN written'[h.id] = DOMAIN written[h.id]
    PROVE  HeadersInv'
BY DEF HeadersInv

\* What is said of a given directory, disk, map and names does not change.
LEMMA StateFree ==
    \A d, k, m, f : /\ Whole(d, k)' = Whole(d, k)
                    /\ Exact(d, k, m)' = Exact(d, k, m)
                    /\ Named(d, k, f)' = Named(d, k, f)
<1>1. \A d, k : Whole(d, k)' = Whole(d, k)
  BY DEF Whole, UsedIn, OwnedBy
<1>2. \A d, k, m : Exact(d, k, m)' = Exact(d, k, m)
  BY DEF Exact, UsedIn, OwnedBy
<1>3. \A d, k, f : Named(d, k, f)' = Named(d, k, f)
  BY DEF Named, UsedIn
<1> QED BY Zenon, <1>1, <1>2, <1>3

\* The elements of a sequence.
LEMMA SeqElement ==
    ASSUME NEW S, NEW q \in Seq(S), NEW x \in DOMAIN q
    PROVE  q[x] \in S
OBVIOUS

\* What an entry in use and a header on disk hold.
LEMMA EntryFacts ==
    ASSUME NEW d \in Directories, NEW e \in UsedIn(d)
    PROVE  e \in Entries /\ d[e].inUse /\ d[e].name \in Names /\ d[e].sector \in Sectors \ Reserved
<1>1. d[e] \in EntrySet /\ d[e].inUse /\ e \in Entries
  BY DEF UsedIn, Directories
<1>2. d[e] # Unused
  BY <1>1 DEF Unused
<1>3. d[e] \in [inUse : {TRUE}, name : Names, sector : Sectors \ Reserved]
  BY Zenon, <1>1, <1>2 DEF EntrySet
<1> QED BY Zenon, <1>1, <1>3

\* A block that says it is a header is one.
LEMMA BlockFacts ==
    ASSUME NEW b \in Blocks, b.kind = "header"
    PROVE  b \in HeaderSet
BY DEF Blocks, DataSet, Garbage

\* The header of a name that leads to one.
LEMMA HeaderOnDisk ==
    ASSUME FSType, NEW s \in Sectors, disk[s].kind = "header"
    PROVE  disk[s] \in KnownHeaders /\ disk[s] \in HeaderSet
<1>1. disk[s] \in HeaderSet
  BY BlockFacts DEF FSType
<1>2. disk[s] \in Range(disk)
  BY DEF FSType, Range
<1> QED BY <1>1, <1>2 DEF KnownHeaders

\* The invariant implies the properties.
LEMMA WholeReadable ==
    ASSUME Whole(directory, disk)
    PROVE  Readable
<1>1. Used = UsedIn(directory)
  BY DEF Used, UsedIn
<1>2. \A e \in Used : disk[directory[e].sector].kind = "header"
  BY <1>1 DEF Whole
<1>3. \A e \in Used : SectorsOf(e) = OwnedBy(directory, disk, e)
  BY <1>2 DEF SectorsOf, OwnedBy
<1> QED BY <1>1, <1>2, <1>3 DEF Whole, Readable

\* Between two operations the map is exact too.
LEMMA SteadyIdle ==
    ASSUME Phase, pending = <<>>
    PROVE  was = will /\ Steady(directory, disk, freeMap, will)
<1>1. \A a, b, c : <<a>> # <<>> /\ <<a, b>> # <<>> /\ <<a, b, c>> # <<>>
  OBVIOUS
<1> QED BY <1>1 DEF Phase

\* The map, the directory and the types.
LEMMA InvConsistent ==
    ASSUME IInv
    PROVE  Consistent
<1>1. Used = UsedIn(directory)
  BY DEF Used, UsedIn
<1>2. directory \in Directories /\ disk \in [Sectors -> Blocks]
  BY DEF IInv, FSType
<1>3. \A e \in Used : directory[e].name \in Names /\ directory[e].sector \in Sectors \ Reserved
  BY <1>1, <1>2, EntryFacts
<1>4. TypeOK
  <2>1. DOMAIN directory = Entries
    BY <1>2 DEF Directories
  <2>2. \A s \in Sectors : disk[s].kind \in {"header", "data", "garbage"}
    BY <1>2 DEF Blocks, HeaderSet, DataSet, Garbage
  <2> QED BY <1>3, <2>1, <2>2 DEF IInv, FSType, TypeOK, Maps
<1>5. MetadataSafe
  <2>1. Reserved \subseteq freeMap
    BY DEF IInv, FSType, Maps
  <2>2. ASSUME NEW e \in Used PROVE SectorsOf(e) \cap Reserved = {}
    <3>1. CASE disk[directory[e].sector].kind = "header"
      <4>1. disk[directory[e].sector] \in KnownHeaders
        BY <1>3, <3>1, HeaderOnDisk DEF IInv
      <4>2. Range(disk[directory[e].sector].dataSectors) \cap Reserved = {}
        BY <4>1 DEF IInv, HeadersInv
      <4> QED BY <1>3, <3>1, <4>2 DEF SectorsOf
    <3>2. CASE disk[directory[e].sector].kind # "header"
      BY <1>3, <3>2 DEF SectorsOf
    <3> QED BY <3>1, <3>2
  <2> QED BY <2>1, <2>2 DEF MetadataSafe
<1>6. MapExact
  <2> SUFFICES ASSUME crash = "none", ~stale, pending = <<>>
               PROVE  ~aborted /\ Readable /\ freeMap = Reserved \cup UNION {SectorsOf(e) : e \in Used}
    BY DEF MapExact
  <2>1. ~aborted /\ Whole(directory, disk) /\ Exact(directory, disk, freeMap)
    BY SteadyIdle DEF IInv, NormalInv, Steady
  <2>2. \A e \in Used : SectorsOf(e) = OwnedBy(directory, disk, e)
    BY <1>1, <2>1 DEF Whole, SectorsOf, OwnedBy
  <2>3. {SectorsOf(e) : e \in Used} = {OwnedBy(directory, disk, e) : e \in UsedIn(directory)}
    BY <1>1, <2>2
  <2> QED BY <2>1, <2>3, WholeReadable DEF Exact
<1> QED BY <1>4, <1>5, <1>6 DEF Consistent

\* What Open finds under the names of a directory.
LEMMA NamedFiles ==
    ASSUME NEW f \in [Names -> 0..MaxFiles], Named(directory, disk, f), NEW name \in Names
    PROVE  FileOf(name) = f[name]
<1>1. CASE InDirectory(name)
  <2>1. FindIndex(name) \in UsedIn(directory) /\ directory[FindIndex(name)].name = name
    BY <1>1, FindIndexFinds DEF HasName, UsedIn
  <2> QED BY <1>1, <2>1 DEF Named, FileOf, Find
<1>2. CASE ~InDirectory(name)
  <2>1. ~\E e \in UsedIn(directory) : directory[e].name = name
    BY <1>2 DEF InDirectory, HasName, UsedIn
  <2> QED BY <1>2, <2>1 DEF Named, FileOf
<1> QED BY <1>1, <1>2

\* The directory has its old names or its new ones.
LEMMA PhaseNamed ==
    ASSUME Phase
    PROVE  Named(directory, disk, was) \/ Named(directory, disk, will)
BY DEF Phase, Steady

\* What an exit leaves behind.
LEMMA InvCrash ==
    ASSUME IInv
    PROVE  CrashKeepsFiles
<1> SUFFICES ASSUME crash # "past", ~stale
             PROVE  /\ Readable
                    /\ \A name \in Names :
                          FileOf(name) \in IF pending = <<>> /\ crash = "none" THEN {will[name]}
                                          ELSE {was[name], will[name]}
  BY DEF CrashKeepsFiles
<1>1. was \in [Names -> 0..MaxFiles] /\ will \in [Names -> 0..MaxFiles]
  BY DEF IInv, FSType
<1>2. CASE crash = "none"
  <2>1. Whole(directory, disk) /\ Phase
    BY <1>2 DEF IInv, NormalInv
  <2>2. Named(directory, disk, was) \/ Named(directory, disk, will)
    BY <2>1, PhaseNamed
  <2>3. pending = <<>> => Named(directory, disk, will)
    BY <2>1, SteadyIdle DEF Steady
  <2> QED BY <1>1, <1>2, <2>1, <2>2, <2>3, WholeReadable, NamedFiles
<1>3. CASE crash = "last"
  <2>1. Whole(directory, disk) /\ (Named(directory, disk, was) \/ Named(directory, disk, will))
    BY <1>3 DEF IInv, CrashInv, Found
  <2> QED BY <1>1, <1>3, <2>1, WholeReadable, NamedFiles
<1> QED BY <1>2, <1>3 DEF IInv, FSType

\* The contents of the files.
LEMMA InvKept ==
    ASSUME IInv
    PROVE  ContentsKept
<1> SUFFICES ASSUME crash # "past", ~stale, NEW e \in Used
             PROVE  LET h == disk[directory[e].sector]
                    IN  /\ h.kind = "header"
                        /\ \A i \in DOMAIN h.dataSectors :
                               written[h.id][i] # Garbage => disk[h.dataSectors[i]] = written[h.id][i]
  BY DEF ContentsKept
<1>1. Whole(directory, disk) /\ Kept(directory, disk) /\ e \in UsedIn(directory)
  <2>1. crash = "none" \/ crash = "last"
    BY DEF IInv, FSType
  <2> QED BY Zenon, <2>1 DEF IInv, NormalInv, CrashInv, Found, Used, UsedIn
<1> QED BY Zenon, <1>1 DEF Whole, Kept, KeptBy

-----------------------------------------------------------------------------
(* Every operation keeps the invariant                                     *)

\* FileSystem(TRUE) leaves an empty directory, and a map that marks its own sectors.
LEMMA InitInv == Init => IInv
<1> SUFFICES ASSUME Init PROVE IInv
  OBVIOUS
<1> USE FileSystemAssumption
<1>1. UsedIn(directory) = {}
  BY DEF Init, UsedIn, Unused
<1>2. KnownHeaders = {}
  <2>1. \A h \in Range(disk) : h.kind # "header"
    BY DEF Init, Range, Garbage
  <2>2. Range(open) = {} /\ DOMAIN pending = {}
    BY DEF Init, Range
  <2> QED BY <2>1, <2>2 DEF KnownHeaders
<1>3. was = will /\ Steady(directory, disk, freeMap, will)
  <2>1. {OwnedBy(directory, disk, e) : e \in UsedIn(directory)} = {}
    BY <1>1
  <2>2. Exact(directory, disk, freeMap)
    BY <2>1 DEF Exact, Init
  <2>3. was = will /\ Named(directory, disk, will)
    BY <1>1 DEF Init, Named
  <2> QED BY <1>1, <2>2, <2>3 DEF Steady, Whole, Kept
<1>4. FSType
  <2>1. freeMap \in Maps
    BY DEF Init, Maps, Reserved, Sectors, FreeMapSector, DirectorySector
  <2>2. directory \in Directories
    BY DEF Init, Directories, EntrySet
  <2>3. disk \in [Sectors -> Blocks]
    BY DEF Init, Blocks
  <2>4. pending \in Seq(Writes) /\ open \in Seq(HeaderSet) /\ Len(pending) = 0 /\ Len(open) = 0
    BY EmptySeq DEF Init
  <2>5. written \in [1..MaxFiles -> Seq({Garbage} \cup DataSet)]
    BY EmptySeq DEF Init
  <2>6. files \in 0..MaxFiles /\ was \in [Names -> 0..MaxFiles] /\ will \in [Names -> 0..MaxFiles]
    BY DEF Init
  <2>7. stale \in BOOLEAN /\ aborted \in BOOLEAN /\ crash \in {"none", "last", "past"}
    BY Zenon DEF Init
  <2> QED BY <2>1, <2>2, <2>3, <2>4, <2>5, <2>6, <2>7 DEF FSType
<1>5. HeadersInv
  BY <1>2 DEF HeadersInv
<1>6. NormalInv /\ CrashInv
  BY <1>3 DEF NormalInv, CrashInv, Phase, Steady, Init
<1> QED BY <1>4, <1>5, <1>6 DEF IInv

\* What the directory, the map and the disk promise depends on these alone.
LEMMA PhaseUnchanged ==
    ASSUME NormalInv, UNCHANGED <<freeMap, directory, disk, pending, written, was, will>>,
           crash' = "none" /\ ~stale' => crash = "none" /\ ~stale /\ ~aborted'
    PROVE  NormalInv'
<1> SUFFICES ASSUME crash' = "none", ~stale'
             PROVE  (~aborted /\ Whole(directory, disk) /\ Kept(directory, disk) /\ Phase)'
  BY DEF NormalInv
<1>1. Whole(directory, disk) /\ Kept(directory, disk) /\ Phase /\ ~aborted'
  BY DEF NormalInv
<1>2. Whole(directory, disk)'
  BY Zenon, <1>1 DEF Whole, UsedIn, OwnedBy
<1>3. Kept(directory, disk)'
  BY <1>1 DEF Kept, KeptBy, UsedIn
<1>4. Phase'
  <2>1. ASSUME NEW d, NEW k, NEW m, NEW f, Steady(d, k, m, f) PROVE Steady(d, k, m, f)'
    <3>1. \A h : KeptBy(h, k)' = KeptBy(h, k)
      BY Zenon DEF KeptBy
    <3>2. Kept(d, k)'
      BY Zenon, <2>1, <3>1 DEF Steady, Kept, UsedIn
    <3>3. Whole(d, k)' /\ Exact(d, k, m)' /\ Named(d, k, f)'
      BY Zenon, <2>1 DEF Steady, Whole, Exact, Named, UsedIn, OwnedBy
    <3> QED BY Zenon, <3>2, <3>3 DEF Steady
  <2>2. UsedIn(directory)' = UsedIn(directory)
        /\ \A e : OwnedBy(directory, disk, e)' = OwnedBy(directory, disk, e)
    BY DEF UsedIn, OwnedBy
  <2>3. Named(directory, disk, was) => Named(directory, disk, was)'
    BY Zenon DEF Named, UsedIn
  <2> QED BY Zenon, <1>1, <2>1, <2>2, <2>3 DEF Phase
<1> QED BY <1>1, <1>2, <1>3, <1>4

\* So does what an exit has left behind.
LEMMA FoundUnchanged ==
    ASSUME UNCHANGED <<directory, disk, written>>, NEW f, Found(f)
    PROVE  Found(f)'
<1>1. Whole(directory, disk)'
  BY Zenon DEF Found, Whole, UsedIn, OwnedBy
<1>2. Kept(directory, disk)'
  BY Zenon DEF Found, Kept, KeptBy, UsedIn
<1>3. Named(directory, disk, f)'
  BY Zenon DEF Found, Named, UsedIn
<1> QED BY <1>1, <1>2, <1>3 DEF Found

\* And what is said of it.
LEMMA CrashUnchanged ==
    ASSUME CrashInv, UNCHANGED <<directory, disk, pending, written, was, will, stale, crash>>
    PROVE  CrashInv'
<1>1. Found(was) => Found(was)'
  BY FoundUnchanged
<1>2. Found(will) => Found(will)'
  BY FoundUnchanged
<1> QED BY Zenon, <1>1, <1>2 DEF CrashInv

\* A step that does nothing.
LEMMA StutterInv ==
    ASSUME IInv, UNCHANGED vars
    PROVE  IInv'
<1>1. FSType'
  BY DEF IInv, FSType, vars
<1>2. HeadersInv'
  BY DEF IInv, HeadersInv, KnownHeaders, vars
<1>3. NormalInv'
  BY PhaseUnchanged DEF IInv, NormalInv, vars
<1>4. CrashInv'
  BY CrashUnchanged DEF IInv, vars
<1> QED BY <1>1, <1>2, <1>3, <1>4 DEF IInv

\* A restart: what was not written is lost, and so are the OpenFiles.
LEMMA RestartInv ==
    ASSUME IInv, Restart
    PROVE  IInv'
<1>1. FSType'
  <2>1. <<>> \in Seq(Writes) /\ <<>> \in Seq(HeaderSet) /\ Len(<<>>) = 0
    BY EmptySeq
  <2>2. pending' \in Seq(Writes) /\ Len(pending') <= 3 /\ open' \in Seq(HeaderSet) /\ Len(open') <= MaxOpen
    BY <2>1, FileSystemAssumption DEF Restart
  <2>3. crash' \in {"none", "last", "past"}
    BY DEF IInv, FSType, Restart
  <2> QED BY <2>2, <2>3 DEF IInv, FSType, Restart
<1>2. HeadersInv'
  <2>1. KnownHeaders' \subseteq KnownHeaders
    BY DEF KnownHeaders, Restart, Range
  <2> QED BY <2>1, HeadersUnmade DEF IInv, Restart
<1>3. NormalInv'
  <2> SUFFICES ASSUME crash' = "none", ~stale'
               PROVE  (~aborted /\ Whole(directory, disk) /\ Kept(directory, disk) /\ Phase)'
    BY DEF NormalInv
  <2>1. crash = "none" /\ ~stale /\ Len(pending) # 1
    BY DEF Restart
  <2>2. ~aborted /\ Whole(directory, disk) /\ Kept(directory, disk) /\ Phase
    BY <2>1 DEF IInv, NormalInv
  <2>3. was' = will' /\ Steady(directory, disk, freeMap, will')
    <3>1. CASE pending = <<>>
      BY <2>2, <3>1, SteadyIdle DEF Restart
    <3>2. CASE Len(pending) > 1
      <4>1. pending # <<>> /\ \A a : pending # <<a>>
        BY <3>2
      <4>2. Steady(directory, disk, freeMap, was)
        BY Zenon, <2>2, <4>1 DEF Phase
      <4> QED BY <3>2, <4>2 DEF Restart
    <3>3. pending \in Seq(Writes) /\ Len(pending) \in Nat /\ (Len(pending) = 0 => pending = <<>>)
      BY EmptySeq, LenProperties DEF IInv, FSType
    <3>4. pending = <<>> \/ Len(pending) > 1
      <4>1. PICK n \in Nat : n = Len(pending)
        BY Zenon, <3>3
      <4>2. n = 0 \/ n > 1
        BY <2>1, <4>1
      <4> QED BY Zenon, <3>3, <4>1, <4>2
    <3> QED BY Zenon, <3>1, <3>2, <3>4
  <2>4. \A f : Steady(directory, disk, freeMap, f)' = Steady(directory, disk, freeMap, f)
    BY SMTT(30) DEF Restart, Steady, Whole, Exact, Kept, KeptBy, Named, UsedIn, OwnedBy
  <2>5. Steady(directory, disk, freeMap, will)'
    BY <2>3, <2>4
  <2> QED BY <2>2, <2>3, <2>5 DEF Steady, Phase, Restart
<1>4. CrashInv'
  <2> SUFFICES ASSUME crash' = "last", ~stale' PROVE Found(was)' \/ Found(will)'
    BY DEF CrashInv, Restart
  <2>1. will' = will
    <3>1. CASE crash = "last"
      <4>1. pending = <<>>
        BY Zenon, <3>1 DEF IInv, CrashInv
      <4>2. ~(Len(pending) > 1)
        BY <4>1
      <4> QED BY <4>2 DEF Restart
    <3>2. CASE crash # "last"
      <4>1. Len(pending) = 1
        BY Zenon, <3>2 DEF Restart
      <4> QED BY <4>1 DEF Restart
    <3> QED BY <3>1, <3>2
  <2>2. Found(was) \/ Found(will)
    <3>1. CASE crash = "none"
      <4>1. stale' = stale
        BY DEF Restart
      <4>2. Whole(directory, disk) /\ Kept(directory, disk) /\ Phase
        BY <3>1, <4>1 DEF IInv, NormalInv
      <4> QED BY <4>2, PhaseNamed DEF Found
    <3>2. CASE crash # "none"
      BY <3>2 DEF Restart, IInv, CrashInv
    <3> QED BY <3>1, <3>2
  <2>3. Found(was) => Found(was)'
    BY FoundUnchanged DEF Restart
  <2>4. Found(will) => Found(will)'
    BY <2>1, FoundUnchanged DEF Restart
  <2> QED BY <2>2, <2>3, <2>4
<1> QED BY <1>1, <1>2, <1>3, <1>4 DEF IInv

\* Deleting an OpenFile.
LEMMA CloseInv ==
    ASSUME IInv, NEW i \in DOMAIN open, Close(i)
    PROVE  IInv'
<1>1. open' \in Seq(HeaderSet) /\ Len(open') <= Len(open) /\ Range(open') \subseteq Range(open)
  BY RemoveOne DEF IInv, FSType, Close
<1>2. FSType'
  <2>1. Len(open') \in Nat /\ Len(open) \in Nat /\ Len(open) <= MaxOpen
    BY <1>1, LenProperties DEF IInv, FSType
  <2>2. Len(open') <= MaxOpen
    BY <1>1, <2>1, FileSystemAssumption
  <2> QED BY <1>1, <2>2 DEF IInv, FSType, Close
<1>3. HeadersInv'
  <2>1. KnownHeaders' \subseteq KnownHeaders
    BY <1>1 DEF KnownHeaders, Close
  <2> QED BY <2>1, HeadersUnmade DEF IInv, Close
<1>4. NormalInv'
  BY PhaseUnchanged DEF IInv, NormalInv, Close
<1>5. CrashInv'
  BY CrashUnchanged DEF IInv, Close
<1> QED BY <1>2, <1>3, <1>4, <1>5 DEF IInv

\* The entry of a name and the sector of its header.
LEMMA FindFinds ==
    ASSUME FSType, NEW name, InDirectory(name)
    PROVE  /\ FindIndex(name) \in UsedIn(directory)
           /\ Find(name) = directory[FindIndex(name)].sector
           /\ Find(name) \in Sectors \ Reserved
<1>1. FindIndex(name) \in UsedIn(directory)
  BY FindIndexFinds DEF HasName, UsedIn
<1>2. directory \in Directories
  BY DEF FSType
<1> QED BY <1>1, <1>2, EntryFacts DEF Find

\* Opening copies the header that the name leads to.
LEMMA OpenInv ==
    ASSUME IInv, NEW name \in Names, Open(name)
    PROVE  IInv'
<1> DEFINE hdr == disk[Find(name)]
<1>1. FSType /\ FindIndex(name) \in UsedIn(directory) /\ Find(name) \in Sectors
      /\ Find(name) = directory[FindIndex(name)].sector
  BY FindFinds DEF IInv, Open
<1>2. crash' # "last" /\ (crash' = "none" => crash = "none") /\ crash' \in {"none", "last", "past"}
  BY DEF Open, Working, IInv, FSType
<1>3. CASE hdr.kind = "header"
  <2>1. hdr \in KnownHeaders /\ hdr \in HeaderSet /\ open' = Append(open, hdr) /\ aborted' = aborted
    BY <1>1, <1>3, HeaderOnDisk DEF Open
  <2> HIDE DEF hdr
  <2>2. open' \in Seq(HeaderSet) /\ Len(open') = Len(open) + 1 /\ Range(open') = Range(open) \cup {hdr}
    <3>1. open \in Seq(HeaderSet) /\ hdr \in HeaderSet
      BY <2>1 DEF IInv, FSType
    <3>2. /\ Append(open, hdr) \in Seq(HeaderSet) /\ Len(Append(open, hdr)) = Len(open) + 1
          /\ \A j \in 1..Len(open) : Append(open, hdr)[j] = open[j]
          /\ Append(open, hdr)[Len(open) + 1] = hdr
      BY <3>1, AppendProperties
    <3>3. Range(Append(open, hdr)) \subseteq Range(open) \cup {hdr}
      BY <3>1, <3>2 DEF Range
    <3>4. Range(open) \cup {hdr} \subseteq Range(Append(open, hdr))
      BY <3>1, <3>2 DEF Range
    <3> QED BY <2>1, <3>2, <3>3, <3>4
  <2>3. FSType'
    <3>1. Len(open') <= MaxOpen
      BY <2>2, FileSystemAssumption DEF Open, IInv, FSType
    <3> QED BY <1>2, <2>1, <2>2, <3>1 DEF IInv, FSType, Open
  <2>4. HeadersInv'
    <3>1. KnownHeaders' \subseteq KnownHeaders
      <4>1. disk' = disk /\ pending' = pending
        BY DEF Open
      <4>2. Range(open) \subseteq KnownHeaders
        BY DEF KnownHeaders
      <4> QED BY <2>1, <2>2, <4>1, <4>2 DEF KnownHeaders
    <3> QED BY <3>1, HeadersUnmade DEF IInv, Open
  <2>5. NormalInv'
    BY <1>2, <2>1, PhaseUnchanged DEF IInv, NormalInv, Open
  <2> QED BY <1>2, <2>3, <2>4, <2>5 DEF IInv, CrashInv
<1>4. CASE hdr.kind # "header"
  <2>1. open' = open /\ aborted' = TRUE
    BY <1>4 DEF Open
  <2>2. FSType'
    BY <1>2, <2>1 DEF IInv, FSType, Open
  <2>3. HeadersInv'
    BY <2>1, HeadersUnmade DEF IInv, Open, KnownHeaders
  <2>4. ~(crash' = "none" /\ ~stale')
    BY <1>1, <1>2, <1>4 DEF IInv, NormalInv, Whole, Open
  <2> QED BY <1>2, <2>2, <2>3, <2>4 DEF IInv, NormalInv, CrashInv
<1> QED BY <1>3, <1>4

\* A header that is written to a sector of no file changes no file.
LEMMA WriteElsewhere ==
    ASSUME FSType, Whole(directory, disk), Kept(directory, disk), NEW s \in Sectors, NEW h,
           \A e \in UsedIn(directory) : s \notin OwnedBy(directory, disk, e)
    PROVE  LET k == [disk EXCEPT ![s] = h]
           IN  /\ \A e \in UsedIn(directory) :
                     /\ k[directory[e].sector] = disk[directory[e].sector]
                     /\ OwnedBy(directory, k, e) = OwnedBy(directory, disk, e)
               /\ Whole(directory, k)
               /\ Kept(directory, k)
<1> DEFINE k == [disk EXCEPT ![s] = h]
<1>1. \A t \in Sectors : t # s => k[t] = disk[t]
  BY DEF FSType
<1>2. \A e \in UsedIn(directory) : directory[e].sector \in Sectors
  BY EntryFacts DEF FSType
<1>3. \A e \in UsedIn(directory) : k[directory[e].sector] = disk[directory[e].sector]
  BY <1>1, <1>2 DEF OwnedBy
<1>4. \A e \in UsedIn(directory) : OwnedBy(directory, k, e) = OwnedBy(directory, disk, e)
  BY <1>3 DEF OwnedBy
<1>5. ASSUME NEW e \in UsedIn(directory)
      PROVE  KeptBy(disk[directory[e].sector], k)
  <2> DEFINE g == disk[directory[e].sector]
  <2>1. g \in HeaderSet
    BY <1>2, HeaderOnDisk DEF Whole
  <2>2. \A i \in DOMAIN g.dataSectors : g.dataSectors[i] \in Sectors /\ g.dataSectors[i] # s
    BY <2>1 DEF HeaderSet, OwnedBy, Range
  <2>3. KeptBy(g, disk)
    BY DEF Kept
  <2> HIDE DEF g, k
  <2>4. KeptBy(g, k)
    BY <1>1, <2>2, <2>3 DEF KeptBy
  <2> QED BY <2>4 DEF g
<1> HIDE DEF k
<1>6. Kept(directory, k)
  BY <1>3, <1>5 DEF Kept
<1>7. Whole(directory, k)
  BY <1>3, <1>4 DEF Whole
<1> QED BY Zenon, <1>3, <1>4, <1>6, <1>7 DEF k

\* Each of the writes of an operation.
LEMMA WriteFacts ==
    /\ \A s, h : /\ WriteHeader(s, h).to = "disk"
                 /\ WriteHeader(s, h).sector = s /\ WriteHeader(s, h).header = h
    /\ \A d : WriteDirectory(d).to = "directory" /\ WriteDirectory(d).contents = d
    /\ \A m : WriteFreeMap(m).to = "freeMap" /\ WriteFreeMap(m).contents = m
BY DEF WriteHeader, WriteDirectory, WriteFreeMap

\* The next write, when all is in order once the last one has been made.
LEMMA FlushPhase ==
    ASSUME FSType, Flush, Whole(directory, disk), Kept(directory, disk), Phase
    PROVE  Whole(directory, disk)' /\ Kept(directory, disk)' /\ Phase'
<1> DEFINE w == Head(pending)
<1>1. /\ pending # <<>> /\ pending' = Tail(pending) /\ written' = written
      /\ freeMap' = IF w.to = "freeMap" THEN w.contents ELSE freeMap
      /\ directory' = IF w.to = "directory" THEN w.contents ELSE directory
      /\ disk' = IF w.to = "disk" THEN [disk EXCEPT ![w.sector] = w.header] ELSE disk
      /\ will' = will /\ was' = IF Len(pending) = 1 THEN will ELSE was
  BY Zenon DEF Flush
<1>2. /\ \A d, k, m, f : Steady(d, k, m, f)' = Steady(d, k, m, f)
      /\ \A d, k : Whole(d, k)' = Whole(d, k)
      /\ \A d, k : Kept(d, k)' = Kept(d, k)
      /\ \A d, k, f : Named(d, k, f)' = Named(d, k, f)
  <2>1. \A h, k : KeptBy(h, k)' = KeptBy(h, k)
    BY <1>1 DEF KeptBy
  <2>2. \A d, k : Kept(d, k)' = Kept(d, k)
    BY <2>1 DEF Kept, UsedIn
  <2> QED BY Zenon, <2>2, StateFree DEF Steady
<1>3. ASSUME NEW s \in Sectors, NEW h \in HeaderSet, NEW d \in Directories, NEW m \in Maps,
             pending = <<WriteHeader(s, h), WriteDirectory(d), WriteFreeMap(m)>>,
             Steady(directory, disk, freeMap, was), Steady(d, [disk EXCEPT ![s] = h], m, will),
             \A e \in UsedIn(directory) : s \notin OwnedBy(directory, disk, e)
      PROVE  Whole(directory, disk)' /\ Kept(directory, disk)' /\ Phase'
  <2>1. w = WriteHeader(s, h) /\ Tail(pending) = <<WriteDirectory(d), WriteFreeMap(m)>>
    BY <1>3
  <2>2. /\ directory' = directory /\ disk' = [disk EXCEPT ![s] = h] /\ freeMap' = freeMap
        /\ pending' = <<WriteDirectory(d), WriteFreeMap(m)>> /\ was' = was
    <3> HIDE DEF w
    <3>1. w.to = "disk" /\ w.sector = s /\ w.header = h
      BY <2>1, WriteFacts
    <3>2. directory' = directory /\ disk' = [disk EXCEPT ![s] = h] /\ freeMap' = freeMap
      BY <1>1, <3>1
    <3>3. Len(pending) = 3
      BY <1>3
    <3>4. was' = was
      BY <1>1, <3>3
    <3> QED BY Zenon, <1>1, <2>1, <3>2, <3>4
  <2>3. Whole(directory, disk') /\ Kept(directory, disk')
        /\ \A e \in UsedIn(directory) :
              /\ disk'[directory[e].sector] = disk[directory[e].sector]
              /\ OwnedBy(directory, disk', e) = OwnedBy(directory, disk, e)
    BY Zenon, <1>3, <2>2, WriteElsewhere
  <2>4. Steady(directory, disk', freeMap, was)
    <3>1. Named(directory, disk', was)
      BY Zenon, <1>3, <2>3 DEF Steady, Named
    <3>2. {OwnedBy(directory, disk', e) : e \in UsedIn(directory)}
            = {OwnedBy(directory, disk, e) : e \in UsedIn(directory)}
      BY <2>3
    <3>3. Exact(directory, disk', freeMap)
      BY Zenon, <1>3, <3>2 DEF Steady, Exact
    <3> QED BY Zenon, <2>3, <3>1, <3>3 DEF Steady
  <2>5. Steady(directory, disk, freeMap, was)'
    BY <1>2, <2>2, <2>4
  <2>6. Steady(d, disk, m, will)'
    BY <1>1, <1>2, <1>3, <2>2
  <2>7. Whole(directory, disk)' /\ Kept(directory, disk)'
    BY <1>2, <2>2, <2>3
  <2> QED BY Zenon, <2>2, <2>5, <2>6, <2>7 DEF Phase
<1>4. ASSUME NEW d \in Directories, NEW m \in Maps, Steady(d, disk, m, will),
             pending = <<WriteDirectory(d), WriteFreeMap(m)>>
      PROVE  Whole(directory, disk)' /\ Kept(directory, disk)' /\ Phase'
  <2>1. w = WriteDirectory(d) /\ Tail(pending) = <<WriteFreeMap(m)>>
    BY <1>4
  <2>2. directory' = d /\ disk' = disk /\ pending' = <<WriteFreeMap(m)>>
    BY <1>1, <2>1, WriteFacts
  <2>3. Steady(directory, disk, m, will)'
    BY <1>1, <1>2, <1>4, <2>2
  <2> QED BY <2>2, <2>3 DEF Phase, Steady
<1>5. ASSUME NEW d \in Directories, NEW m \in Maps, Steady(d, disk, m, will),
             Steady(directory, disk, freeMap, was), pending = <<WriteFreeMap(m), WriteDirectory(d)>>
      PROVE  Whole(directory, disk)' /\ Kept(directory, disk)' /\ Phase'
  <2>1. w = WriteFreeMap(m) /\ Tail(pending) = <<WriteDirectory(d)>>
    BY <1>5
  <2>2. /\ directory' = directory /\ disk' = disk /\ freeMap' = m
        /\ pending' = <<WriteDirectory(d)>>
    BY <1>1, <2>1, WriteFacts
  <2>3. Steady(d, disk, freeMap, will)'
    BY <1>1, <1>2, <1>5, <2>2
  <2>4. Whole(directory, disk)' /\ Kept(directory, disk)'
    BY <1>2, <2>2
  <2>5. was' = was
    <3>1. Len(pending) = 2
      BY <1>5
    <3> QED BY <1>1, <3>1
  <2>6. Named(directory, disk, was)'
    BY <1>2, <1>5, <2>2, <2>5 DEF Steady
  <2> QED BY <2>2, <2>3, <2>4, <2>6 DEF Phase
<1>6. ASSUME NEW m \in Maps, Steady(directory, disk, m, will), pending = <<WriteFreeMap(m)>>
      PROVE  Whole(directory, disk)' /\ Kept(directory, disk)' /\ Phase'
  <2>1. w = WriteFreeMap(m) /\ Tail(pending) = <<>>
    BY <1>6
  <2>2. directory' = directory /\ disk' = disk /\ freeMap' = m /\ pending' = <<>>
    BY <1>1, <2>1, WriteFacts
  <2>3. Steady(directory, disk, freeMap, will)'
    BY <1>1, <1>2, <1>6, <2>2
  <2>4. was' = will'
    <3>1. Len(pending) = 1
      BY <1>6
    <3> QED BY <1>1, <3>1
  <2> QED BY <2>2, <2>3, <2>4 DEF Phase, Steady
<1>7. ASSUME NEW d \in Directories, Steady(d, disk, freeMap, will), pending = <<WriteDirectory(d)>>
      PROVE  Whole(directory, disk)' /\ Kept(directory, disk)' /\ Phase'
  <2>1. w = WriteDirectory(d) /\ Tail(pending) = <<>>
    BY <1>7
  <2>2. directory' = d /\ disk' = disk /\ freeMap' = freeMap /\ pending' = <<>>
    BY <1>1, <2>1, WriteFacts
  <2>3. Steady(directory, disk, freeMap, will)'
    BY <1>1, <1>2, <1>7, <2>2
  <2>4. was' = will'
    <3>1. Len(pending) = 1
      BY <1>7
    <3> QED BY <1>1, <3>1
  <2> QED BY <2>2, <2>3, <2>4 DEF Phase, Steady
<1> QED BY Zenon, <1>1, <1>3, <1>4, <1>5, <1>6, <1>7 DEF Phase

\* A write reaches the disk.
LEMMA FlushInv ==
    ASSUME IInv, Flush
    PROVE  IInv'
<1> DEFINE w == Head(pending)
<1>1. /\ pending # <<>> /\ pending' = Tail(pending)
      /\ freeMap' = IF w.to = "freeMap" THEN w.contents ELSE freeMap
      /\ directory' = IF w.to = "directory" THEN w.contents ELSE directory
      /\ disk' = IF w.to = "disk" THEN [disk EXCEPT ![w.sector] = w.header] ELSE disk
  BY DEF Flush
<1>2. /\ pending \in Seq(Writes) /\ w \in Writes /\ pending' \in Seq(Writes)
      /\ Len(pending') = Len(pending) - 1 /\ Len(pending) \in Nat \ {0} /\ w = pending[1]
      /\ \A i \in 1..Len(pending') : pending'[i] = pending[i + 1]
  <2>1. pending \in Seq(Writes) /\ pending # <<>>
    BY <1>1 DEF IInv, FSType
  <2> QED BY <1>1, <2>1, HeadTailProperties, EmptySeq
<1>3. /\ w.to = "disk" => w.sector \in Sectors /\ w.header \in HeaderSet
      /\ w.to = "directory" => w.contents \in Directories
      /\ w.to = "freeMap" => w.contents \in Maps
  <2> HIDE DEF w
  <2>1. w \in Writes
    BY <1>2
  <2> QED BY <2>1 DEF Writes
<1>4. FSType'
  <2>1. freeMap' \in Maps /\ directory' \in Directories
    BY <1>1, <1>3 DEF IInv, FSType
  <2>2. disk' \in [Sectors -> Blocks]
    BY <1>1, <1>3 DEF IInv, FSType, Blocks
  <2>3. pending' \in Seq(Writes) /\ Len(pending') <= 3
    BY <1>2 DEF IInv, FSType
  <2>4. was' \in [Names -> 0..MaxFiles] /\ will' \in [Names -> 0..MaxFiles]
    BY Zenon DEF IInv, FSType, Flush
  <2> QED BY <2>1, <2>2, <2>3, <2>4 DEF IInv, FSType, Flush
<1>5. HeadersInv'
  <2>1. DOMAIN pending = 1..Len(pending) /\ DOMAIN pending' = 1..Len(pending')
    BY <1>2, LenProperties
  <2>2. ASSUME NEW h \in Range(disk'), h.kind = "header" PROVE h \in KnownHeaders
    <3>1. PICK t \in Sectors : h = disk'[t]
      BY <1>4 DEF FSType, Range
    <3>2. disk \in [Sectors -> Blocks]
      BY DEF IInv, FSType
    <3>3. CASE disk'[t] = disk[t]
      BY <2>2, <3>1, <3>2, <3>3 DEF KnownHeaders, Range
    <3>4. CASE disk'[t] # disk[t]
      <4>1. w.to = "disk" /\ h = w.header
        BY <1>1, <1>3, <3>1, <3>2, <3>4
      <4>2. 1 \in DOMAIN pending /\ pending[1].to = "disk" /\ h = pending[1].header
        BY <1>2, <2>1, <4>1
      <4> QED BY <4>2 DEF KnownHeaders
    <3> QED BY <3>3, <3>4
  <2>3. ASSUME NEW i \in DOMAIN pending', pending'[i].to = "disk"
        PROVE  pending'[i].header \in KnownHeaders
    <3>1. i + 1 \in DOMAIN pending /\ pending'[i] = pending[i + 1]
      BY <1>2, <2>1
    <3> QED BY <2>3, <3>1 DEF KnownHeaders
  <2>4. Range(open') \subseteq KnownHeaders
    BY DEF KnownHeaders, Flush
  <2>5. KnownHeaders' \subseteq KnownHeaders
    BY <2>2, <2>3, <2>4 DEF KnownHeaders
  <2> QED BY <2>5, HeadersUnmade DEF IInv, Flush
<1>6. NormalInv'
  <2> SUFFICES ASSUME crash' = "none", ~stale'
               PROVE  (~aborted /\ Whole(directory, disk) /\ Kept(directory, disk) /\ Phase)'
    BY DEF NormalInv
  <2>1. crash = "none" /\ ~stale /\ aborted' = aborted
    BY DEF Flush
  <2> QED BY <2>1, FlushPhase DEF IInv, NormalInv
<1>7. CrashInv'
  BY <1>1 DEF IInv, CrashInv, Flush
<1> QED BY <1>4, <1>5, <1>6, <1>7 DEF IInv

\* Remove: what is left is in order, with the map that Deallocate leaves.
LEMMA RemovedSteady ==
    ASSUME FSType, HeadersInv, Steady(directory, disk, freeMap, will), NEW e \in UsedIn(directory)
    PROVE  LET hdr == disk[directory[e].sector]
               d == [directory EXCEPT ![e] = Unused]
               m == RemovedMap(hdr, directory[e].sector)
           IN  /\ hdr.kind = "header" /\ Range(hdr.dataSectors) \subseteq freeMap
               /\ Steady(d, disk, m, [will EXCEPT ![directory[e].name] = 0])
<1> DEFINE hdr == disk[directory[e].sector]
           d == [directory EXCEPT ![e] = Unused]
           m == RemovedMap(hdr, directory[e].sector)
<1>1. /\ Whole(directory, disk) /\ Exact(directory, disk, freeMap) /\ Kept(directory, disk)
      /\ Named(directory, disk, will)
  BY DEF Steady
<1>2. e \in Entries /\ directory \in [Entries -> EntrySet]
  BY DEF FSType, Directories, UsedIn
<1>3. \A f \in Entries : f # e => d[f] = directory[f]
  BY <1>2
<1>4. UsedIn(d) = UsedIn(directory) \ {e}
  <2>1. ~d[e].inUse
    BY <1>2 DEF Unused
  <2> QED BY <1>3, <2>1 DEF UsedIn
<1> HIDE DEF d
<1>5. \A f \in UsedIn(d) : /\ f \in UsedIn(directory) /\ f # e /\ d[f] = directory[f]
                           /\ OwnedBy(d, disk, f) = OwnedBy(directory, disk, f)
  BY <1>3, <1>4 DEF UsedIn, OwnedBy
<1>6. hdr.kind = "header" /\ m = freeMap \ OwnedBy(directory, disk, e)
  BY <1>1 DEF Whole, RemovedMap, OwnedBy
<1>7. Range(hdr.dataSectors) \subseteq OwnedBy(directory, disk, e)
      /\ OwnedBy(directory, disk, e) \subseteq freeMap
  BY <1>1 DEF Exact, OwnedBy
<1>8. OwnedBy(directory, disk, e) \cap Reserved = {}
  <2>1. directory[e].sector \in Sectors \ Reserved
    BY EntryFacts DEF FSType
  <2>2. hdr \in KnownHeaders
    BY <1>6, <2>1, HeaderOnDisk
  <2>3. Range(hdr.dataSectors) \cap Reserved = {}
    BY Zenon, <2>2 DEF HeadersInv
  <2> QED BY <2>1, <2>3 DEF OwnedBy
<1> HIDE DEF hdr, m
<1>9. Whole(d, disk)
  BY <1>1, <1>5 DEF Whole
<1>10. Kept(d, disk)
  BY <1>1, <1>5 DEF Kept
<1>11. Exact(d, disk, m)
  <2>1. \A f \in UsedIn(d) : OwnedBy(d, disk, f) \cap OwnedBy(directory, disk, e) = {}
    BY <1>1, <1>5 DEF Whole
  <2>2. \A t : t \in m <=> t \in Reserved \/ \E f \in UsedIn(d) : t \in OwnedBy(d, disk, f)
    <3>1. \A t : t \in freeMap <=> \/ t \in Reserved
                                  \/ \E f \in UsedIn(directory) : t \in OwnedBy(directory, disk, f)
      BY <1>1 DEF Exact
    <3> QED BY <1>4, <1>5, <1>6, <1>8, <2>1, <3>1
  <2> QED BY <2>2 DEF Exact
<1>12. Named(d, disk, [will EXCEPT ![directory[e].name] = 0])
  <2> DEFINE n == directory[e].name
             f == [will EXCEPT ![n] = 0]
  <2>1. will \in [Names -> 0..MaxFiles] /\ directory \in Directories
    BY DEF FSType
  <2>2. n \in Names /\ \A g \in UsedIn(d) : directory[g].name \in Names /\ directory[g].name # n
    BY <1>1, <1>5, <2>1, EntryFacts DEF Whole
  <2>3. \A x \in Names : x # n => f[x] = will[x]
    BY <2>1, <2>2
  <2>4. f[n] = 0
    BY <2>1, <2>2
  <2> HIDE DEF f
  <2>5. \A g \in UsedIn(d) : f[d[g].name] = disk[d[g].sector].id
    BY <1>1, <1>5, <2>2, <2>3 DEF Named
  <2>6. \A x \in Names : f[x] # 0 => \E g \in UsedIn(d) : d[g].name = x
    <3> SUFFICES ASSUME NEW x \in Names, f[x] # 0 PROVE \E g \in UsedIn(d) : d[g].name = x
      OBVIOUS
    <3>1. x # n /\ will[x] # 0
      BY <2>3, <2>4
    <3>2. PICK g \in UsedIn(directory) : directory[g].name = x
      BY <1>1, <3>1 DEF Named
    <3> QED BY <1>4, <1>5, <3>1, <3>2
  <2> QED BY <2>5, <2>6 DEF Named, f
<1> QED BY <1>6, <1>7, <1>9, <1>10, <1>11, <1>12 DEF Steady, hdr, d, m

\* Remove takes the sectors off the map and the name out of the directory.
LEMMA RemoveInv ==
    ASSUME IInv, NEW name \in Names, Remove(name)
    PROVE  IInv'
<1> DEFINE e == FindIndex(name)
           hdr == disk[Find(name)]
           d == [directory EXCEPT ![e] = Unused]
           m == RemovedMap(hdr, Find(name))
           f == [will EXCEPT ![name] = 0]
<1>1. FSType /\ HeadersInv /\ pending = <<>> /\ ~aborted /\ directory[e].name = name
      /\ e \in UsedIn(directory) /\ Find(name) = directory[e].sector /\ Find(name) \in Sectors \ Reserved
  <2>1. FSType /\ HeadersInv /\ pending = <<>> /\ ~aborted /\ InDirectory(name)
    BY DEF IInv, Remove, Ready
  <2>2. directory[e].name = name
    BY <2>1, FindIndexFinds DEF HasName
  <2> QED BY <2>1, <2>2, FindFinds
<1>2. crash' # "last" /\ (crash' = "none" => crash = "none") /\ crash' \in {"none", "last", "past"}
  BY Zenon DEF Remove, Working, IInv, FSType
<1>3. UNCHANGED <<freeMap, directory, disk, open, files, written, stale, was>>
  BY DEF Remove
<1>4. ASSUME crash' = "none", ~stale'
      PROVE  /\ hdr.kind = "header" /\ Range(hdr.dataSectors) \subseteq freeMap
             /\ Steady(directory, disk, freeMap, was) /\ Steady(d, disk, m, f)
  <2>1. was = will /\ Steady(directory, disk, freeMap, will)
    BY <1>1, <1>2, <1>3, <1>4, SteadyIdle DEF IInv, NormalInv
  <2> QED BY <1>1, <2>1, RemovedSteady
<1>5. CASE hdr.kind = "header" /\ Range(hdr.dataSectors) \subseteq freeMap
  <2>1. /\ pending' = <<WriteFreeMap(m), WriteDirectory(d)>> /\ aborted' = aborted
        /\ will' = f
    BY <1>5 DEF Remove
  <2>2. hdr \in KnownHeaders
    BY <1>1, <1>5, HeaderOnDisk
  <2>3. m \in Maps
    <3>1. Range(hdr.dataSectors) \cap Reserved = {}
      BY <1>1, <2>2 DEF HeadersInv
    <3>2. freeMap \in Maps
      BY <1>1 DEF FSType
    <3> HIDE DEF hdr
    <3> QED BY <1>1, <3>1, <3>2 DEF Maps, RemovedMap
  <2>4. d \in Directories
    BY Zenon, <1>1 DEF FSType, Directories, EntrySet, UsedIn
  <2> HIDE DEF d, m, hdr, e
  <2>5. FSType'
    <3>1. WriteFreeMap(m) \in Writes /\ WriteDirectory(d) \in Writes
      BY <2>3, <2>4 DEF Writes, WriteFreeMap, WriteDirectory
    <3>2. pending' \in Seq(Writes) /\ Len(pending') = 2
      BY <2>1, <3>1
    <3>3. will' \in [Names -> 0..MaxFiles]
      BY <1>1, <2>1, FileSystemAssumption DEF FSType
    <3> QED BY <1>1, <1>2, <1>3, <2>1, <3>2, <3>3 DEF FSType
  <2> HIDE DEF f
  <2>6. HeadersInv'
    <3>1. \A i \in DOMAIN pending' : pending'[i].to # "disk"
      BY <2>1, WriteFacts
    <3>2. KnownHeaders' \subseteq KnownHeaders
      BY <1>3, <3>1 DEF KnownHeaders
    <3> QED BY <1>1, <1>3, <3>2, HeadersUnmade
  <2>7. NormalInv'
    <3> SUFFICES ASSUME crash' = "none", ~stale'
                 PROVE  (~aborted /\ Whole(directory, disk) /\ Kept(directory, disk) /\ Phase)'
      BY DEF NormalInv
    <3>1. Steady(directory, disk, freeMap, was) /\ Steady(d, disk, m, f)
      BY <1>4
    <3>2. \A x, k : Whole(x, k)' = Whole(x, k) /\ Kept(x, k)' = Kept(x, k)
      <4>1. \A x, k : Kept(x, k)' = Kept(x, k)
        BY <1>3 DEF Kept, KeptBy, UsedIn
      <4> QED BY Zenon, <4>1, StateFree
    <3>3. \A x, k, n, g : Steady(x, k, n, g)' = Steady(x, k, n, g)
      BY Zenon, <3>2, StateFree DEF Steady
    <3>4. Whole(directory, disk)' /\ Kept(directory, disk)'
      BY <1>3, <3>1, <3>2 DEF Steady
    <3>5. Steady(d, disk', m, will') /\ Steady(directory', disk', freeMap', was')
      BY <1>3, <2>1, <3>1
    <3>6. Phase'
      <4>1. PICK x \in Directories : x = d
        BY <2>4
      <4>2. PICK n \in Maps : n = m
        BY <2>3
      <4>3. Steady(x, disk, n, will)' /\ Steady(directory, disk, freeMap, was)'
        BY <3>3, <3>5, <4>1, <4>2
      <4>4. pending' = <<WriteFreeMap(n), WriteDirectory(x)>>
        BY Zenon, <2>1, <4>1, <4>2
      <4> QED BY <4>3, <4>4 DEF Phase
    <3> QED BY <1>1, <2>1, <3>4, <3>6
  <2> QED BY <1>2, <2>5, <2>6, <2>7 DEF IInv, CrashInv
<1>6. CASE ~(hdr.kind = "header" /\ Range(hdr.dataSectors) \subseteq freeMap)
  <2>1. pending' = pending /\ aborted' = TRUE /\ will' = will
    BY Zenon, <1>6 DEF Remove
  <2>2. FSType'
    BY <1>1, <1>2, <1>3, <2>1 DEF FSType
  <2>3. HeadersInv'
    BY <1>1, <1>3, <2>1, HeadersUnmade DEF KnownHeaders
  <2> QED BY Zenon, <1>2, <1>4, <1>6, <2>2, <2>3 DEF IInv, NormalInv, CrashInv
<1> QED BY <1>5, <1>6

\* WriteAt puts b into sector i of the file f of the directory's entry c.
Writing(c, f, i, b) ==
    /\ f = disk[directory[c].sector] /\ i \in DOMAIN f.dataSectors
    /\ disk' = [disk EXCEPT ![f.dataSectors[i]] = b]
    /\ written' = [written EXCEPT ![f.id][i] = b]
    /\ UNCHANGED <<directory, freeMap, will>>

\* The files are still where they were, and each holds what was written to it.
LEMMA WrittenSteady ==
    ASSUME FSType, HeadersInv, Steady(directory, disk, freeMap, will),
           NEW c \in UsedIn(directory), NEW f \in HeaderSet, NEW i, NEW b, Writing(c, f, i, b)
    PROVE  Steady(directory, disk, freeMap, will)'
<1> DEFINE t == f.dataSectors[i]
<1>1. /\ Whole(directory, disk) /\ Exact(directory, disk, freeMap) /\ Kept(directory, disk)
      /\ Named(directory, disk, will)
  BY Zenon DEF Steady
<1>2. t \in Sectors /\ t \in Range(f.dataSectors) /\ f.id \in 1..MaxFiles
  BY DEF HeaderSet, Range, Writing
<1>3. \A s \in Sectors : disk'[s] = IF s = t THEN b ELSE disk[s]
  BY Zenon, <1>2 DEF FSType, Writing
<1>4. \A e \in UsedIn(directory) : directory[e].sector \in Sectors
  BY EntryFacts DEF FSType
<1>5. \A e \in UsedIn(directory) : /\ disk[directory[e].sector] \in KnownHeaders
                                   /\ disk[directory[e].sector] \in HeaderSet
  BY Zenon, <1>1, <1>4, HeaderOnDisk DEF Whole
<1>6. t \in OwnedBy(directory, disk, c)
  BY Zenon, <1>2 DEF OwnedBy, Writing
<1> HIDE DEF t
<1>7. \A e \in UsedIn(directory) : t # directory[e].sector
  <2> SUFFICES ASSUME NEW e \in UsedIn(directory) PROVE t # directory[e].sector
    OBVIOUS
  <2>1. CASE e = c
    BY Zenon, <1>1, <1>2, <2>1 DEF Whole, Writing
  <2>2. CASE e # c
    <3>1. directory[e].sector \in OwnedBy(directory, disk, e)
      BY DEF OwnedBy
    <3>2. OwnedBy(directory, disk, e) \cap OwnedBy(directory, disk, c) = {}
      BY Zenon, <1>1, <2>2 DEF Whole
    <3> QED BY Zenon, <1>6, <3>1, <3>2
  <2> QED BY <2>1, <2>2
<1>8. \A e \in UsedIn(directory) : disk'[directory[e].sector] = disk[directory[e].sector]
  BY <1>3, <1>4, <1>7
<1>9. /\ UsedIn(directory') = UsedIn(directory) /\ directory' = directory /\ freeMap' = freeMap
      /\ will' = will
  BY DEF Writing
<1>10. \A e \in UsedIn(directory) : OwnedBy(directory', disk', e) = OwnedBy(directory, disk, e)
  BY <1>8, <1>9 DEF OwnedBy
<1>11. Whole(directory', disk')
  BY Zenon, <1>1, <1>8, <1>9, <1>10 DEF Whole
<1>12. Exact(directory', disk', freeMap')
  BY <1>1, <1>9, <1>10 DEF Exact
<1>13. ASSUME NEW e \in UsedIn(directory), NEW j \in DOMAIN disk[directory[e].sector].dataSectors,
              written'[disk[directory[e].sector].id][j] # Garbage
       PROVE  disk'[disk[directory[e].sector].dataSectors[j]] = written'[disk[directory[e].sector].id][j]
  <2> DEFINE h == disk[directory[e].sector]
  <2>1. h \in HeaderSet /\ h \in KnownHeaders /\ f \in KnownHeaders /\ KeptBy(h, disk)
    BY Zenon, <1>1, <1>5 DEF Kept, Writing
  <2>2. /\ h.dataSectors[j] \in Sectors /\ h.dataSectors[j] \in OwnedBy(directory, disk, e)
        /\ h.id \in 1..MaxFiles
    <3>1. h.dataSectors \in Seq(Sectors) /\ h.id \in 1..MaxFiles
      BY <2>1 DEF HeaderSet
    <3>2. h.dataSectors[j] \in Range(h.dataSectors)
      BY DEF Range
    <3>3. h.dataSectors[j] \in Sectors
      BY Zenon, <3>1, SeqElement
    <3> QED BY Zenon, <3>1, <3>2, <3>3 DEF OwnedBy
  <2>3. NoRepeats(f.dataSectors) /\ (h.id = f.id => h = f) /\ DOMAIN written[f.id] = DOMAIN f.dataSectors
    BY <2>1 DEF HeadersInv
  <2>4. written[h.id][j] # Garbage => disk[h.dataSectors[j]] = written[h.id][j]
    BY Zenon, <2>1 DEF KeptBy
  <2>5. written \in [1..MaxFiles -> Seq({Garbage} \cup DataSet)]
    BY Zenon DEF FSType
  <2> HIDE DEF h
  <2>6. CASE e = c
    <3>1. h = f
      BY <2>6 DEF h, Writing
    <3>2. written'[f.id][j] = IF j = i THEN b ELSE written[f.id][j]
      <4>1. j \in DOMAIN written[f.id]
        BY <2>3, <3>1 DEF h
      <4>2. written'[f.id] = [written[f.id] EXCEPT ![i] = b]
        BY Zenon, <1>2, <2>5 DEF Writing
      <4> QED BY <4>1, <4>2
    <3>3. h.dataSectors[j] = t <=> j = i
      BY Zenon, <1>13, <2>3, <3>1 DEF NoRepeats, t, h, Writing
    <3> QED BY Zenon, <1>3, <1>13, <2>2, <2>4, <3>1, <3>2, <3>3 DEF h
  <2>7. CASE e # c
    <3>1. OwnedBy(directory, disk, e) \cap OwnedBy(directory, disk, c) = {}
      BY Zenon, <1>1, <2>7 DEF Whole
    <3>2. h.dataSectors[j] # t
      BY Zenon, <1>6, <2>2, <3>1
    <3>3. h # f
      <4>1. Range(h.dataSectors) \subseteq OwnedBy(directory, disk, e)
        BY DEF OwnedBy, h
      <4> QED BY <1>2, <1>6, <3>1, <4>1
    <3>4. h.id # f.id
      BY <2>3, <3>3
    <3>5. written'[h.id] = written[h.id]
      BY Zenon, <1>2, <2>2, <2>5, <3>4 DEF Writing
    <3> QED BY Zenon, <1>3, <1>13, <2>2, <2>4, <3>2, <3>5 DEF h
  <2> QED BY Zenon, <2>6, <2>7
<1>14. Kept(directory, disk)'
  <2>1. ASSUME NEW e \in UsedIn(directory)
        PROVE  KeptBy(disk[directory[e].sector], disk)'
    <3>1. disk'[directory'[e].sector] = disk[directory[e].sector]
      BY <1>8, <1>9
    <3>2. \A j \in DOMAIN disk[directory[e].sector].dataSectors :
             written'[disk[directory[e].sector].id][j] # Garbage =>
                 disk'[disk[directory[e].sector].dataSectors[j]] = written'[disk[directory[e].sector].id][j]
      BY Zenon, <1>13
    <3> QED BY Zenon, <3>1, <3>2 DEF KeptBy
  <2> QED BY <1>9, <2>1 DEF Kept
<1>15. Named(directory', disk', will')
  BY Zenon, <1>1, <1>8, <1>9 DEF Named
<1> QED BY <1>11, <1>12, <1>14, <1>15 DEF Steady

\* WriteAt through an OpenFile.
LEMMA WriteAtInv ==
    ASSUME IInv, NEW f \in Range(open), NEW i \in DOMAIN f.dataSectors, NEW v \in Values,
           WriteAt(f, i, v)
    PROVE  IInv'
<1> DEFINE t == f.dataSectors[i]
           b == Data(f.id, i, v)
<1>1. FSType /\ HeadersInv /\ pending = <<>> /\ ~aborted
  BY DEF IInv, WriteAt, Ready
<1>2. f \in HeaderSet /\ f \in KnownHeaders
  <2>1. Range(open) \subseteq HeaderSet
    BY <1>1, RangeOfSeq DEF FSType
  <2> QED BY <2>1 DEF KnownHeaders
<1>3. /\ disk' = [disk EXCEPT ![t] = b]
      /\ written' = [written EXCEPT ![f.id][i] = b]
      /\ stale' = (stale \/ f.id \notin Linked)
      /\ UNCHANGED <<freeMap, directory, pending, open, files, was, will, aborted>>
  BY DEF WriteAt
<1>4. crash' # "last" /\ (crash' = "none" => crash = "none") /\ crash' \in {"none", "last", "past"}
  BY DEF WriteAt, Working, IInv, FSType
<1>5. f.id \in 1..MaxFiles /\ t \in Sectors /\ i \in Nat /\ f.dataSectors \in Seq(Sectors)
  BY <1>2 DEF HeaderSet
<1>6. b \in DataSet /\ b.kind = "data"
  BY Zenon, <1>5 DEF Data, DataSet
<1>7. written \in [1..MaxFiles -> Seq({Garbage} \cup DataSet)]
      /\ DOMAIN written[f.id] = DOMAIN f.dataSectors
  BY <1>1, <1>2 DEF FSType, HeadersInv
<1> HIDE DEF t, b
<1>8. written' \in [1..MaxFiles -> Seq({Garbage} \cup DataSet)]
      /\ \A id \in 1..MaxFiles : DOMAIN written'[id] = DOMAIN written[id]
  <2>1. written[f.id] \in Seq({Garbage} \cup DataSet) /\ i \in 1..Len(written[f.id])
        /\ b \in {Garbage} \cup DataSet
    BY <1>5, <1>6, <1>7
  <2>2. [written[f.id] EXCEPT ![i] = b] \in Seq({Garbage} \cup DataSet)
    BY <2>1, ExceptSeq
  <2>3. DOMAIN [written[f.id] EXCEPT ![i] = b] = DOMAIN written[f.id]
    OBVIOUS
  <2>4. written' = [written EXCEPT ![f.id] = [written[f.id] EXCEPT ![i] = b]]
    BY <1>3
  <2> QED BY <1>5, <1>7, <2>2, <2>3, <2>4
<1>9. FSType'
  <2>1. disk' \in [Sectors -> Blocks]
    BY Zenon, <1>1, <1>3, <1>5, <1>6 DEF FSType, Blocks
  <2>2. stale' \in BOOLEAN
    BY <1>3
  <2> QED BY <1>1, <1>3, <1>4, <1>8, <2>1, <2>2 DEF FSType
<1>10. HeadersInv'
  <2>1. ASSUME NEW h \in Range(disk'), h.kind = "header" PROVE h \in Range(disk)
    BY <1>1, <1>3, <1>6, <2>1 DEF Range, FSType
  <2>2. KnownHeaders' \subseteq KnownHeaders
    BY Zenon, <1>3, <2>1 DEF KnownHeaders
  <2>3. \A h \in KnownHeaders : h.id \in 1..MaxFiles
    <3>1. \A h \in Range(disk) : h.kind = "header" => h.id \in 1..MaxFiles
      BY <1>1, BlockFacts DEF FSType, Range, HeaderSet
    <3>2. \A h \in Range(open) : h.id \in 1..MaxFiles
      <4>1. Range(open) \subseteq HeaderSet
        BY <1>1, RangeOfSeq DEF FSType
      <4> QED BY <4>1 DEF HeaderSet
    <3>3. DOMAIN pending = {}
      BY <1>1
    <3> QED BY <3>1, <3>2, <3>3 DEF KnownHeaders
  <2> QED BY <1>1, <1>3, <1>8, <2>2, <2>3, HeadersUnmade
<1>11. NormalInv'
  <2> SUFFICES ASSUME crash' = "none", ~stale'
               PROVE  (~aborted /\ Whole(directory, disk) /\ Kept(directory, disk) /\ Phase)'
    BY DEF NormalInv
  <2>1. crash = "none" /\ ~stale /\ f.id \in Linked
    BY Zenon, <1>3, <1>4
  <2>2. was = will /\ Steady(directory, disk, freeMap, will)
    BY <1>1, <2>1, SteadyIdle DEF IInv, NormalInv
  <2>3. PICK c \in UsedIn(directory) : disk[directory[c].sector].kind = "header"
                                       /\ disk[directory[c].sector].id = f.id
    BY <2>1 DEF Linked, UsedIn
  <2>4. directory[c].sector \in Sectors
    BY <1>1, EntryFacts DEF FSType
  <2>5. disk[directory[c].sector] \in KnownHeaders
    BY <1>1, <2>3, <2>4, HeaderOnDisk
  <2>6. f = disk[directory[c].sector]
    BY <1>1, <1>2, <2>3, <2>5 DEF HeadersInv
  <2>7. Steady(directory, disk, freeMap, will)'
    <3>1. PICK a : a = b
      BY Zenon
    <3>2. Writing(c, f, i, a)
      BY <1>3, <2>6, <3>1 DEF Writing, t
    <3> QED BY <1>1, <1>2, <2>2, <3>2, WrittenSteady
  <2> QED BY <1>1, <1>3, <2>2, <2>7 DEF Steady, Phase
<1> QED BY <1>4, <1>9, <1>10, <1>11 DEF IInv, CrashInv

\* Create puts a file with header h in sector s into entry e: d, k and m are
\* the directory, the disk and the map it will have written.
Creating(name, e, s, h, d, k, m) ==
    /\ ~InDirectory(name) /\ ~directory[e].inUse
    /\ h.id = files + 1 /\ h.id \in 1..MaxFiles /\ h.kind = "header"
    /\ s \notin freeMap /\ s \notin Range(h.dataSectors) /\ Range(h.dataSectors) \cap freeMap = {}
    /\ d = [directory EXCEPT ![e] = [inUse |-> TRUE, name |-> name, sector |-> s]]
    /\ k = [disk EXCEPT ![s] = h]
    /\ m = freeMap \cup {s} \cup Range(h.dataSectors)
    /\ written' = [written EXCEPT ![files + 1] = [i \in DOMAIN h.dataSectors |-> Garbage]]

\* What it will have written is in order, next to every file there was.
LEMMA CreatedSteady ==
    ASSUME FSType, HeadersInv, Steady(directory, disk, freeMap, will),
           NEW name \in Names, NEW e \in Entries, NEW s \in Sectors, NEW h, NEW d, NEW k, NEW m,
           Creating(name, e, s, h, d, k, m)
    PROVE  /\ \A f \in UsedIn(directory) :
                 /\ s \notin OwnedBy(directory, disk, f)
                 /\ written'[disk[directory[f].sector].id] = written[disk[directory[f].sector].id]
           /\ Whole(d, k) /\ Exact(d, k, m) /\ Kept(d, k)'
           /\ Named(d, k, [will EXCEPT ![name] = files + 1])
<1>1. /\ Whole(directory, disk) /\ Exact(directory, disk, freeMap) /\ Kept(directory, disk)
      /\ Named(directory, disk, will)
  BY DEF Steady
<1>2. \A f \in UsedIn(directory) : OwnedBy(directory, disk, f) \subseteq freeMap
  BY <1>1 DEF Exact
<1>3. \A f \in UsedIn(directory) : s \notin OwnedBy(directory, disk, f)
  BY <1>2 DEF Creating
<1>4. /\ \A f \in UsedIn(directory) : /\ k[directory[f].sector] = disk[directory[f].sector]
                                      /\ OwnedBy(directory, k, f) = OwnedBy(directory, disk, f)
      /\ Whole(directory, k) /\ Kept(directory, k)
  <2>1. k = [disk EXCEPT ![s] = h]
    BY DEF Creating
  <2> QED BY Zenon, <1>1, <1>3, <2>1, WriteElsewhere
<1>5. directory \in [Entries -> EntrySet] /\ disk \in [Sectors -> Blocks]
  BY DEF FSType, Directories
<1>6. k[s] = h /\ h.kind = "header"
  BY <1>5 DEF Creating
<1>7. /\ d[e].inUse /\ d[e].name = name /\ d[e].sector = s
      /\ \A f \in Entries : f # e => d[f] = directory[f]
  BY <1>5 DEF Creating
<1>8. UsedIn(d) = UsedIn(directory) \cup {e} /\ e \notin UsedIn(directory)
  BY Zenon, <1>7 DEF UsedIn, Creating
<1>9. OwnedBy(d, k, e) = {s} \cup Range(h.dataSectors)
  BY <1>6, <1>7 DEF OwnedBy
<1>10. \A f \in UsedIn(directory) : /\ f # e /\ d[f] = directory[f]
                                    /\ OwnedBy(d, k, f) = OwnedBy(directory, disk, f)
                                    /\ k[d[f].sector] = disk[directory[f].sector]
  BY Zenon, <1>4, <1>7, <1>8 DEF UsedIn, OwnedBy
<1>11. \A f \in UsedIn(directory) : directory[f].name # name
  BY DEF UsedIn, InDirectory, HasName, Creating
<1>12. Whole(d, k)
  <2>1. ASSUME NEW f \in UsedIn(d)
        PROVE  k[d[f].sector].kind = "header" /\ d[f].sector \notin Range(k[d[f].sector].dataSectors)
    <3>1. CASE f = e
      BY <1>6, <1>7, <3>1 DEF Creating
    <3>2. CASE f \in UsedIn(directory)
      BY Zenon, <1>1, <1>10, <3>2 DEF Whole
    <3> QED BY Zenon, <1>8, <3>1, <3>2
  <2>2. ASSUME NEW f \in UsedIn(directory)
        PROVE  d[e].name # d[f].name /\ OwnedBy(d, k, e) \cap OwnedBy(d, k, f) = {}
    <3>1. s \notin freeMap /\ Range(h.dataSectors) \cap freeMap = {}
      BY Zenon DEF Creating
    <3>2. OwnedBy(d, k, e) \cap OwnedBy(d, k, f) = {}
      BY <1>2, <1>9, <1>10, <3>1
    <3> QED BY Zenon, <1>7, <1>10, <1>11, <3>2
  <2>3. ASSUME NEW f \in UsedIn(directory), NEW g \in UsedIn(directory), f # g
        PROVE  d[f].name # d[g].name /\ OwnedBy(d, k, f) \cap OwnedBy(d, k, g) = {}
    <3>1. /\ directory[f].name # directory[g].name
          /\ OwnedBy(directory, disk, f) \cap OwnedBy(directory, disk, g) = {}
      BY Zenon, <1>1, <2>3 DEF Whole
    <3> QED BY Zenon, <1>10, <3>1
  <2>4. ASSUME NEW f \in UsedIn(d), NEW g \in UsedIn(d), f # g
        PROVE  d[f].name # d[g].name /\ OwnedBy(d, k, f) \cap OwnedBy(d, k, g) = {}
    <3>1. CASE f = e
      BY <1>8, <2>2, <2>4, <3>1
    <3>2. CASE g = e
      <4>1. f \in UsedIn(directory)
        BY <1>8, <2>4, <3>2
      <4>2. d[e].name # d[f].name /\ OwnedBy(d, k, e) \cap OwnedBy(d, k, f) = {}
        BY <2>2, <4>1
      <4> QED BY <3>2, <4>2
    <3>3. CASE f # e /\ g # e
      BY <1>8, <2>3, <2>4, <3>3
    <3> QED BY <3>1, <3>2, <3>3
  <2> QED BY Zenon, <2>1, <2>4 DEF Whole
<1>13. Exact(d, k, m)
  <2>1. \A t : t \in freeMap <=> \/ t \in Reserved
                                \/ \E f \in UsedIn(directory) : t \in OwnedBy(directory, disk, f)
    BY <1>1 DEF Exact
  <2>2. \A t : t \in m <=> t \in Reserved \/ \E f \in UsedIn(d) : t \in OwnedBy(d, k, f)
    BY Zenon, <1>8, <1>9, <1>10, <2>1 DEF Creating
  <2>3. \A t : t \in UNION {OwnedBy(d, k, f) : f \in UsedIn(d)}
                   <=> \E f \in UsedIn(d) : t \in OwnedBy(d, k, f)
    OBVIOUS
  <2>4. \A t : t \in m <=> t \in Reserved \cup UNION {OwnedBy(d, k, f) : f \in UsedIn(d)}
    BY <2>2, <2>3
  <2>5. m = Reserved \cup UNION {OwnedBy(d, k, f) : f \in UsedIn(d)}
    BY ONLY <2>4
  <2> QED BY <2>5 DEF Exact
<1>14. ASSUME NEW f \in UsedIn(directory)
       PROVE  written'[disk[directory[f].sector].id] = written[disk[directory[f].sector].id]
  <2>1. directory[f].sector \in Sectors
    BY EntryFacts DEF FSType
  <2>2. disk[directory[f].sector] \in KnownHeaders /\ disk[directory[f].sector] \in HeaderSet
    BY Zenon, <1>1, <2>1, HeaderOnDisk DEF Whole
  <2>3. disk[directory[f].sector].id \in 1..MaxFiles /\ disk[directory[f].sector].id <= files
    BY Zenon, <2>2 DEF HeaderSet, HeadersInv
  <2>4. files \in Nat /\ written' = [written EXCEPT ![files + 1] = [i \in DOMAIN h.dataSectors |-> Garbage]]
    BY FileSystemAssumption DEF FSType, Creating
  <2>5. disk[directory[f].sector].id # files + 1
    BY ONLY <2>3, <2>4
  <2>6. disk[directory[f].sector].id \in DOMAIN written
    BY Zenon, <2>3 DEF FSType
  <2> QED BY Zenon, <2>4, <2>5, <2>6
<1>15. ASSUME NEW f \in UsedIn(d), NEW i \in DOMAIN k[d[f].sector].dataSectors,
              written'[k[d[f].sector].id][i] # Garbage
       PROVE  k[k[d[f].sector].dataSectors[i]] = written'[k[d[f].sector].id][i]
  <2>1. CASE f = e
    <3>1. k[d[f].sector] = h /\ i \in DOMAIN h.dataSectors
      BY Zenon, <1>6, <1>7, <1>15, <2>1
    <3>2. written'[files + 1] = [j \in DOMAIN h.dataSectors |-> Garbage]
      BY DEF FSType, Creating
    <3>3. written'[h.id][i] = Garbage
      BY <3>1, <3>2 DEF Creating
    <3> QED BY Zenon, <1>15, <3>1, <3>3
  <2>2. CASE f \in UsedIn(directory)
    <3>1. k[d[f].sector] = disk[directory[f].sector] /\ KeptBy(disk[directory[f].sector], k)
      BY Zenon, <1>4, <1>10, <2>2 DEF Kept
    <3> QED BY Zenon, <1>14, <1>15, <2>2, <3>1 DEF KeptBy
  <2> QED BY Zenon, <1>8, <2>1, <2>2
<1>16. Kept(d, k)'
  BY Zenon, <1>15 DEF Kept, KeptBy, UsedIn
<1>17. Named(d, k, [will EXCEPT ![name] = files + 1])
  <2> DEFINE f == [will EXCEPT ![name] = files + 1]
  <2>1. will \in [Names -> 0..MaxFiles] /\ directory \in Directories
    BY DEF FSType
  <2>2. f[name] = files + 1 /\ \A x \in Names : x # name => f[x] = will[x]
    BY <2>1
  <2>3. \A g \in UsedIn(directory) : directory[g].name \in Names
    BY <2>1, EntryFacts
  <2>4. h.id = files + 1
    BY DEF Creating
  <2> HIDE DEF f
  <2>5. ASSUME NEW g \in UsedIn(directory) PROVE f[d[g].name] = k[d[g].sector].id
    <3>1. d[g].name = directory[g].name /\ k[d[g].sector].id = disk[directory[g].sector].id
      BY Zenon, <1>10
    <3>2. f[directory[g].name] = will[directory[g].name]
      BY Zenon, <1>11, <2>2, <2>3
    <3>3. will[directory[g].name] = disk[directory[g].sector].id
      BY Zenon, <1>1 DEF Named
    <3> QED BY Zenon, <3>1, <3>2, <3>3
  <2>6. f[d[e].name] = k[d[e].sector].id
    BY Zenon, <1>6, <1>7, <2>2, <2>4
  <2>7. \A g \in UsedIn(d) : f[d[g].name] = k[d[g].sector].id
    BY Zenon, <1>8, <2>5, <2>6
  <2>8. \A x \in Names : f[x] # 0 => \E g \in UsedIn(d) : d[g].name = x
    <3> SUFFICES ASSUME NEW x \in Names, f[x] # 0 PROVE \E g \in UsedIn(d) : d[g].name = x
      OBVIOUS
    <3>1. CASE x = name
      BY Zenon, <1>7, <1>8, <3>1
    <3>2. CASE x # name
      <4>1. PICK g \in UsedIn(directory) : directory[g].name = x
        BY Zenon, <1>1, <2>2, <3>2 DEF Named
      <4> QED BY Zenon, <1>8, <1>10, <4>1
    <3> QED BY <3>1, <3>2
  <2> QED BY Zenon, <2>7, <2>8 DEF Named, f
<1> QED BY Zenon, <1>3, <1>12, <1>13, <1>14, <1>16, <1>17

\* Create chooses the sectors, and has still to write its results.
LEMMA CreateInv ==
    ASSUME IInv, NEW name \in Names, NEW size \in Sizes, Create(name, size)
    PROVE  IInv'
<1>1. PICK e \in Entries, found \in [1..(size + 1) -> Sectors \ freeMap] :
        /\ Succeeds(name, e, found)
        /\ LET sector == found[1]
               hdr == Header(files + 1, Allocate(found, size))
               entry == [inUse |-> TRUE, name |-> name, sector |-> sector]
               map == freeMap \cup {sector} \cup Range(hdr.dataSectors)
           IN  pending' = CreateWrites(hdr, sector, [directory EXCEPT ![e] = entry], map)
  BY Zenon DEF Create
<1> DEFINE s == found[1]
           ds == Allocate(found, size)
           h == Header(files + 1, ds)
           d == [directory EXCEPT ![e] = [inUse |-> TRUE, name |-> name, sector |-> s]]
           m == freeMap \cup {s} \cup Range(ds)
<1>2. /\ FSType /\ HeadersInv /\ pending = <<>> /\ ~aborted
      /\ ~InDirectory(name) /\ ~directory[e].inUse /\ FindClear(found)
  <2>1. FSType /\ HeadersInv /\ pending = <<>> /\ ~aborted
    BY Zenon DEF IInv, Create, Ready
  <2> QED BY Zenon, <1>1, <2>1 DEF Succeeds, FreeEntry
<1>3. /\ files' = files + 1 /\ files + 1 \in 1..MaxFiles
      /\ written' = [written EXCEPT ![files + 1] = [i \in 1..size |-> Garbage]]
      /\ will' = [will EXCEPT ![name] = files + 1]
      /\ UNCHANGED <<freeMap, directory, disk, open, stale, was, aborted>>
  BY <1>2, FileSystemAssumption DEF Create, FSType
<1>4. crash' # "last" /\ (crash' = "none" => crash = "none") /\ crash' \in {"none", "last", "past"}
  BY <1>2 DEF Create, Working, FSType
<1>5. size \in Nat
  BY FileSystemAssumption
<1>6. /\ s \in Sectors \ freeMap /\ ds \in Seq(Sectors) /\ DOMAIN ds = 1..size
      /\ Range(ds) \subseteq Sectors \ freeMap /\ s \notin Range(ds) /\ NoRepeats(ds)
  BY Zenon, <1>2, <1>5, FoundSectors
<1>7. pending' = <<WriteHeader(s, h), WriteDirectory(d), WriteFreeMap(m)>>
  BY <1>1 DEF CreateWrites, Header
<1>8. Reserved \subseteq freeMap /\ freeMap \subseteq Sectors
  BY <1>2 DEF FSType, Maps
<1> HIDE DEF s, ds
<1>9. h \in HeaderSet /\ h.id = files + 1 /\ h.dataSectors = ds
  BY Zenon, <1>3, <1>6 DEF HeaderSet, Header
<1>10. d \in Directories
  BY Zenon, <1>2, <1>6, <1>8 DEF FSType, Directories, EntrySet
<1>11. m \in Maps
  BY <1>6, <1>8 DEF Maps
<1> HIDE DEF h, d, m
<1>12. FSType'
  <2>1. /\ WriteHeader(s, h) \in Writes /\ WriteDirectory(d) \in Writes /\ WriteFreeMap(m) \in Writes
    BY <1>6, <1>9, <1>10, <1>11 DEF Writes, WriteHeader, WriteDirectory, WriteFreeMap
  <2>2. pending' \in Seq(Writes) /\ Len(pending') = 3
    BY <1>7, <2>1
  <2>3. [i \in 1..size |-> Garbage] \in Seq({Garbage} \cup DataSet)
    BY <1>5
  <2>4. written' \in [1..MaxFiles -> Seq({Garbage} \cup DataSet)]
    <3>1. written \in [1..MaxFiles -> Seq({Garbage} \cup DataSet)]
      BY Zenon, <1>2 DEF FSType
    <3> QED BY Zenon, <1>3, <2>3, <3>1
  <2>5. files' \in 0..MaxFiles
    BY <1>3
  <2>6. was' \in [Names -> 0..MaxFiles] /\ will' \in [Names -> 0..MaxFiles]
    <3>1. files + 1 \in 0..MaxFiles
      BY <1>3
    <3> QED BY Zenon, <1>2, <1>3, <3>1 DEF FSType
  <2> QED BY <1>2, <1>3, <1>4, <2>2, <2>4, <2>5, <2>6 DEF FSType
<1>13. HeadersInv'
  <2>1. KnownHeaders' \subseteq KnownHeaders \cup {h}
    <3>1. \A i \in DOMAIN pending' : pending'[i].to = "disk" => pending'[i].header = h
      BY <1>7, WriteFacts
    <3> QED BY <1>3, <3>1 DEF KnownHeaders
  <2>2. \A g \in KnownHeaders : g.id \in 1..MaxFiles /\ g.id <= files /\ g.id # files + 1
    <3>1. \A g \in Range(disk) : g.kind = "header" => g.id \in 1..MaxFiles
      BY <1>2, BlockFacts DEF FSType, Range, HeaderSet
    <3>2. Range(open) \subseteq HeaderSet
      BY <1>2, RangeOfSeq DEF FSType
    <3>3. DOMAIN pending = {}
      BY <1>2
    <3>4. \A g \in KnownHeaders : g.id \in 1..MaxFiles
      BY <3>1, <3>2, <3>3 DEF KnownHeaders, HeaderSet
    <3>5. \A g \in KnownHeaders : g.id <= files
      BY <1>2 DEF HeadersInv
    <3>6. files \in Nat
      BY <1>2 DEF FSType
    <3> QED BY <3>4, <3>5, <3>6
  <2>3. written \in [1..MaxFiles -> Seq({Garbage} \cup DataSet)] /\ files \in Nat
    BY <1>2 DEF FSType
  <2>4. ASSUME NEW g \in KnownHeaders
        PROVE  /\ g.id <= files' /\ Range(g.dataSectors) \cap Reserved = {} /\ NoRepeats(g.dataSectors)
               /\ DOMAIN written'[g.id] = DOMAIN g.dataSectors
    <3>1. written'[g.id] = written[g.id] /\ g.id <= files'
      BY <1>3, <2>2, <2>3
    <3> QED BY <1>2, <3>1 DEF HeadersInv
  <2>5. /\ h.id <= files' /\ Range(h.dataSectors) \cap Reserved = {} /\ NoRepeats(h.dataSectors)
        /\ DOMAIN written'[h.id] = DOMAIN h.dataSectors
    <3>1. DOMAIN written'[h.id] = 1..size
      BY <1>3, <1>9, <2>3
    <3>2. h.id <= files'
      BY <1>3, <1>9, <2>3
    <3> QED BY <1>6, <1>8, <1>9, <3>1, <3>2
  <2>6. \A g \in KnownHeaders : g.id # h.id
    BY <1>9, <2>2
  <2>7. \A g, k \in KnownHeaders : g.id = k.id => g = k
    BY <1>2 DEF HeadersInv
  <2> QED BY Zenon, <2>1, <2>4, <2>5, <2>6, <2>7 DEF HeadersInv
<1>14. NormalInv'
  <2> SUFFICES ASSUME crash' = "none", ~stale'
               PROVE  (~aborted /\ Whole(directory, disk) /\ Kept(directory, disk) /\ Phase)'
    BY DEF NormalInv
  <2>1. was = will /\ Steady(directory, disk, freeMap, will)
    BY <1>2, <1>3, <1>4, SteadyIdle DEF IInv, NormalInv
  <2>2. PICK x \in Directories, n \in Maps, g \in HeaderSet, t \in Sectors,
               k \in {[disk EXCEPT ![s] = h]} : x = d /\ n = m /\ g = h /\ t = s
    BY Zenon, <1>6, <1>9, <1>10, <1>11
  <2>3. Creating(name, e, t, g, x, k, n)
    <3>1. /\ g.id = files + 1 /\ g.id \in 1..MaxFiles /\ g.kind = "header"
          /\ t \notin freeMap /\ t \notin Range(g.dataSectors) /\ Range(g.dataSectors) \cap freeMap = {}
          /\ n = freeMap \cup {t} \cup Range(g.dataSectors)
      BY Zenon, <1>3, <1>6, <1>9, <2>2 DEF m, HeaderSet
    <3>2. x = [directory EXCEPT ![e] = [inUse |-> TRUE, name |-> name, sector |-> t]]
      BY <2>2 DEF d
    <3>3. k = [disk EXCEPT ![t] = g]
      BY <2>2
    <3>4. written' = [written EXCEPT ![files + 1] = [i \in DOMAIN g.dataSectors |-> Garbage]]
      BY Zenon, <1>3, <1>6, <1>9, <2>2
    <3> QED BY <1>2, <3>1, <3>2, <3>3, <3>4 DEF Creating
  <2>4. /\ \A f \in UsedIn(directory) :
              /\ t \notin OwnedBy(directory, disk, f)
              /\ written'[disk[directory[f].sector].id] = written[disk[directory[f].sector].id]
        /\ Whole(x, k) /\ Exact(x, k, n) /\ Kept(x, k)' /\ Named(x, k, will')
    BY Zenon, <1>2, <1>3, <2>1, <2>3, CreatedSteady
  <2>5. Whole(directory, disk)'
    BY Zenon, <1>3, <2>1 DEF Steady, Whole, UsedIn, OwnedBy
  <2>6. Kept(directory, disk)'
    <3>1. UsedIn(directory)' = UsedIn(directory)
      BY <1>3 DEF UsedIn
    <3>2. ASSUME NEW f \in UsedIn(directory)
          PROVE  KeptBy(disk[directory[f].sector], disk)'
      <4>1. KeptBy(disk[directory[f].sector], disk)
        BY <2>1 DEF Steady, Kept
      <4>2. written'[disk[directory[f].sector].id] = written[disk[directory[f].sector].id]
        BY Zenon, <2>4
      <4>3. disk'[directory'[f].sector] = disk[directory[f].sector] /\ disk' = disk
        BY <1>3
      <4>4. PICK hd, kd : hd = disk[directory[f].sector] /\ kd = disk
        BY Zenon
      <4>5. KeptBy(hd, kd)'
        BY Zenon, <4>1, <4>2, <4>4 DEF KeptBy
      <4> QED BY Zenon, <4>3, <4>4, <4>5 DEF KeptBy
    <3> QED BY <3>1, <3>2 DEF Kept
  <2>7. Steady(x, [disk EXCEPT ![t] = g], n, will)' /\ Steady(directory, disk, freeMap, was)'
    <3>1. [disk' EXCEPT ![t] = g] = k
      BY <1>3, <2>2
    <3>2. PICK fw : fw = will'
      BY Zenon
    <3>3. Steady(x, k, n, fw)'
      BY Zenon, <2>4, <3>2, StateFree DEF Steady
    <3>4. Steady(x, [disk EXCEPT ![t] = g], n, will)'
      BY Zenon, <3>1, <3>2, <3>3
    <3>5. Exact(directory, disk, freeMap) /\ Named(directory, disk, was)
      BY <2>1 DEF Steady
    <3>6. Exact(directory, disk, freeMap)' /\ Named(directory, disk, was)'
      BY <1>3, <3>5, StateFree
    <3> QED BY Zenon, <2>5, <2>6, <3>4, <3>6 DEF Steady
  <2>8. \A f \in UsedIn(directory)' : t \notin OwnedBy(directory, disk, f)'
    BY Zenon, <1>3, <2>4 DEF UsedIn, OwnedBy
  <2>9. pending' = <<WriteHeader(t, g), WriteDirectory(x), WriteFreeMap(n)>>
    BY Zenon, <1>7, <2>2
  <2>10. Phase'
    BY <2>7, <2>8, <2>9 DEF Phase
  <2> QED BY <1>2, <1>3, <2>5, <2>6, <2>10
<1> QED BY <1>4, <1>12, <1>13, <1>14 DEF IInv, CrashInv

-----------------------------------------------------------------------------
(* Theorems                                                                *)

\* The invariant is inductive.
LEMMA NextInv == IInv /\ [Next]_vars => IInv'
<1> SUFFICES ASSUME IInv, [Next]_vars PROVE IInv'
  OBVIOUS
<1>1. ASSUME NEW name \in Names, NEW size \in Sizes, Create(name, size) PROVE IInv'
  BY <1>1, CreateInv
<1>2. ASSUME NEW name \in Names, Remove(name) PROVE IInv'
  BY <1>2, RemoveInv
<1>3. ASSUME NEW name \in Names, Open(name) PROVE IInv'
  BY <1>3, OpenInv
<1>4. ASSUME NEW i \in DOMAIN open, Close(i) PROVE IInv'
  BY <1>4, CloseInv
<1>5. ASSUME NEW f \in Range(open), NEW i \in DOMAIN f.dataSectors, NEW v \in Values, WriteAt(f, i, v)
      PROVE  IInv'
  BY <1>5, WriteAtInv
<1>6. CASE Flush
  BY <1>6, FlushInv
<1>7. CASE Restart
  BY <1>7, RestartInv
<1>8. CASE Aborted
  BY <1>8, StutterInv DEF Aborted
<1>9. CASE UNCHANGED vars
  BY <1>9, StutterInv
<1>10. ASSUME NEW name \in Names, NEW size \in Sizes, CreateFails(name, size) PROVE IInv'
  BY <1>10, StutterInv DEF CreateFails, FailedCreateWrites, Ready, vars
<1> QED BY <1>1, <1>2, <1>3, <1>4, <1>5, <1>6, <1>7, <1>8, <1>9, <1>10 DEF Next

\* The free map marks exactly the sectors in use whenever no operation is in
\* progress and no exit has left it and the directory at odds, no assertion of
\* Deallocate fails until then, and no exit or stale OpenFile ever gives the file
\* system's own sectors to a file (Create, Remove).
THEOREM MapStaysExact == Spec => []Consistent
<1>1. IInv => Consistent
  BY InvConsistent
<1> QED BY InitInv, NextInv, <1>1, PTL DEF Spec

\* Create and Remove write in such an order that, wherever Nachos exits, every
\* name leads to the file it should have, readable: only the name whose Create or
\* Remove was cut short may be as before it or as after it.
THEOREM CrashesKeepFiles == Spec => []CrashKeepsFiles
<1>1. IInv => CrashKeepsFiles
  BY InvCrash
<1> QED BY InitInv, NextInv, <1>1, PTL DEF Spec

\* Each sector of a file holds what WriteAt last put there, whatever is
\* created, removed and written meanwhile and wherever Nachos exits, up to the
\* first operation on a map and a directory at odds.
THEOREM FilesKeepContents == Spec => []ContentsKept
<1>1. IInv => ContentsKept
  BY InvKept
<1> QED BY InitInv, NextInv, <1>1, PTL DEF Spec

=============================================================================
