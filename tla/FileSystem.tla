------------------------------ MODULE FileSystem ------------------------------
(***************************************************************************)
(* The Nachos file system (filesys/filesys.cc, directory.cc, filehdr.cc    *)
(* and the opening of files in openfile.cc) on a disk of sectors.          *)
(*                                                                         *)
(* Create and Remove read the directory and the map of free sectors,       *)
(* change the copies in memory, and write them back one sector after the   *)
(* other; Nachos may exit between any two of these writes and start again  *)
(* on the same disk.  filesys.cc warns that this "may corrupt the disk";   *)
(* the properties say when it does, and what is kept when it does.  One    *)
(* operation is in progress at a time: filesys.cc assumes that there is no *)
(* concurrent access.  The map and the directory fit in one sector each,   *)
(* as they do in the code.  A call of Open or Remove that does not find    *)
(* the name changes nothing, and is no step.                               *)
(***************************************************************************)
EXTENDS Naturals, Sequences, Functions

CONSTANTS
    Names,          \* file names
    NumSectors,     \* sectors of the disk
    NumDirEntries,  \* entries of the directory
    NumDirect,      \* sectors a file header can name
    Sizes,          \* the sizes programs ask for, in sectors
    MaxOpen,        \* bound: open files
    MaxFiles,       \* bound: files created in one behaviour
    Values          \* what programs write into a sector

FreeMapSector == 0
DirectorySector == 1
Sectors == 0..(NumSectors - 1)
Entries == 1..NumDirEntries

\* The sectors formatting marks: two headers, and one data sector for each of
\* the two files.
Reserved == {FreeMapSector, DirectorySector, 2, 3}

ASSUME FileSystemAssumption ==
    /\ NumSectors \in Nat /\ NumSectors > 4
    /\ NumDirEntries \in Nat \ {0}
    /\ NumDirect \in Nat /\ Sizes \subseteq Nat /\ MaxOpen \in Nat /\ MaxFiles \in Nat

VARIABLES
    freeMap,    \* the free map file: the sectors marked as in use
    directory,  \* the directory file
    disk,       \* the other sectors: a file header, data or garbage
    pending,    \* what the operation in progress has still to write
    open,       \* the OpenFile objects: each has its copy of the header
    files,      \* history: how many files have been created
    written,    \* history: what was last written to each sector of a file
    stale,      \* history: a removed file was written through an OpenFile
    was,        \* history: the file of each name before the last operation, 0 if none
    will,       \* history: the file of each name once the last operation is complete
    crash,      \* history: "none", "last" after an exit that left an operation half
                \* done, with no operation since, and "past"
    aborted     \* an ASSERT failed, or a sector that is no header was used as one

vars == <<freeMap, directory, disk, pending, open, files, written, stale, was, will, crash,
          aborted>>

Garbage == [kind |-> "garbage"]
Unused == [inUse |-> FALSE]

\* Every file ever created has an id, which only the properties look at.
Header(id, dataSectors) == [kind |-> "header", id |-> id, dataSectors |-> dataSectors]
Data(id, i, v) == [kind |-> "data", id |-> id, block |-> i, value |-> v]

\* FileSystem(TRUE): a formatted disk.
Init ==
    /\ freeMap = Reserved
    /\ directory = [e \in Entries |-> Unused]
    /\ disk = [s \in Sectors |-> Garbage]
    /\ pending = <<>>
    /\ open = <<>>
    /\ files = 0
    /\ written = [f \in 1..MaxFiles |-> <<>>]
    /\ stale = FALSE
    /\ was = [n \in Names |-> 0]
    /\ will = [n \in Names |-> 0]
    /\ crash = "none"
    /\ aborted = FALSE

\* No operation is in progress, and nothing undefined has happened.
Ready == pending = <<>> /\ ~aborted

\* An operation after a crash works on what the crash left.
Working == crash' = IF crash = "last" THEN "past" ELSE crash

-----------------------------------------------------------------------------
(* Directory, BitMap and FileHeader                                        *)

\* Directory::FindIndex: the first entry with that name.
HasName(e, name) == directory[e].inUse /\ directory[e].name = name

InDirectory(name) == \E e \in Entries : HasName(e, name)

FindIndex(name) ==
    CHOOSE e \in Entries : HasName(e, name) /\ \A d \in Entries : HasName(d, name) => e <= d

Find(name) == directory[FindIndex(name)].sector

\* Directory::Add: the first entry not in use.
FreeEntry(e) == ~directory[e].inUse /\ \A d \in Entries : d < e => directory[d].inUse

\* BitMap::Find, called repeatedly, returns the clear bits in order.
FindClear(found) ==
    /\ \A i, j \in DOMAIN found : i < j => found[i] < found[j]
    /\ \A s \in Sectors \ freeMap : s \in Range(found) \/ \A i \in DOMAIN found : found[i] < s

\* Mutant: the header sector is handed out again as the first data sector.
AllocateHeaderToo(found, size) == [i \in 1..size |-> found[i]]

\* FileHeader::Allocate, after Create has taken the first clear sector.
Allocate(found, size) == [i \in 1..size |-> found[i + 1]]

-----------------------------------------------------------------------------
(* Operations                                                              *)

WriteHeader(s, h) == [to |-> "disk", sector |-> s, header |-> h]
WriteDirectory(d) == [to |-> "directory", contents |-> d]
WriteFreeMap(m) == [to |-> "freeMap", contents |-> m]

\* Mutant: the directory is written before the header.
CreateNameFirst(hdr, sector, dir, map) ==
    <<WriteDirectory(dir), WriteHeader(sector, hdr), WriteFreeMap(map)>>

\* The order in which Create writes its results.
CreateWrites(hdr, sector, dir, map) ==
    <<WriteHeader(sector, hdr), WriteDirectory(dir), WriteFreeMap(map)>>

\* Create has not found the name, and has found an entry and the sectors.
Succeeds(name, e, found) == ~InDirectory(name) /\ FreeEntry(e) /\ FindClear(found)

Create(name, size) ==
    /\ Ready
    /\ files < MaxFiles
    /\ \E e \in Entries, found \in [1..(size + 1) -> Sectors \ freeMap] :
         /\ Succeeds(name, e, found)
         /\ LET sector == found[1]
                hdr == Header(files + 1, Allocate(found, size))
                entry == [inUse |-> TRUE, name |-> name, sector |-> sector]
                map == freeMap \cup {sector} \cup Range(hdr.dataSectors)
            IN  pending' = CreateWrites(hdr, sector, [directory EXCEPT ![e] = entry], map)
    /\ files' = files + 1
    /\ written' = [written EXCEPT ![files + 1] = [i \in 1..size |-> Garbage]]
    /\ will' = [will EXCEPT ![name] = files + 1]
    /\ Working
    /\ UNCHANGED <<freeMap, directory, disk, open, stale, was, aborted>>

\* Mutant: the map is written back, with the sector taken for the header.
FailedCreateWritesMap ==
    IF Sectors \ freeMap = {} THEN <<>>
    ELSE <<WriteFreeMap(freeMap \cup {CHOOSE s \in Sectors \ freeMap :
                                         \A t \in Sectors \ freeMap : s <= t})>>

\* What a Create that fails writes of the directory and of the map it has
\* changed in memory: "we simply discard the changed version".
FailedCreateWrites == <<>>

\* The name exists, or there is no entry, or there are not enough sectors.
CreateFails(name, size) ==
    /\ Ready
    /\ ~\E e \in Entries, found \in [1..(size + 1) -> Sectors \ freeMap] : Succeeds(name, e, found)
    /\ pending' = FailedCreateWrites
    /\ UNCHANGED <<freeMap, directory, disk, open, files, written, stale, was, will, crash, aborted>>

\* Deallocate, and the header's sector.
RemovedMap(hdr, sector) == freeMap \ (Range(hdr.dataSectors) \cup {sector})

\* Deallocate asserts that every data sector is marked.  A header sector that
\* has been overwritten is read as a header all the same: anything may follow.
Remove(name) ==
    /\ Ready
    /\ InDirectory(name)
    /\ LET hdr == disk[Find(name)]
       IN  IF hdr.kind = "header" /\ Range(hdr.dataSectors) \subseteq freeMap
           THEN /\ pending' = <<WriteFreeMap(RemovedMap(hdr, Find(name))),
                                WriteDirectory([directory EXCEPT ![FindIndex(name)] = Unused])>>
                /\ will' = [will EXCEPT ![name] = 0]
                /\ UNCHANGED aborted
           ELSE aborted' = TRUE /\ UNCHANGED <<pending, will>>
    /\ Working
    /\ UNCHANGED <<freeMap, directory, disk, open, files, written, stale, was>>

\* The next write of the operation in progress reaches the disk.
Flush ==
    /\ pending # <<>>
    /\ LET w == Head(pending)
       IN  /\ freeMap' = IF w.to = "freeMap" THEN w.contents ELSE freeMap
           /\ directory' = IF w.to = "directory" THEN w.contents ELSE directory
           /\ disk' = IF w.to = "disk" THEN [disk EXCEPT ![w.sector] = w.header] ELSE disk
    /\ pending' = Tail(pending)
    /\ was' = IF Len(pending) = 1 THEN will ELSE was
    /\ UNCHANGED <<open, files, written, stale, will, crash, aborted>>

\* FileSystem::Open reads the header into a new OpenFile.
Open(name) ==
    /\ Ready
    /\ InDirectory(name)
    /\ Len(open) < MaxOpen
    /\ LET hdr == disk[Find(name)]
       IN  IF hdr.kind = "header"
           THEN open' = Append(open, hdr) /\ UNCHANGED aborted
           ELSE aborted' = TRUE /\ UNCHANGED open
    /\ Working
    /\ UNCHANGED <<freeMap, directory, disk, pending, files, written, stale, was, will>>

Close(i) ==
    /\ Ready
    /\ open' = SubSeq(open, 1, i - 1) \o SubSeq(open, i + 1, Len(open))
    /\ UNCHANGED <<freeMap, directory, disk, pending, files, written, stale, was, will, crash,
                   aborted>>

\* The ids of the files that are in the directory.
Linked == {disk[directory[e].sector].id : e \in
              {e \in Entries : directory[e].inUse /\ disk[directory[e].sector].kind = "header"}}

\* OpenFile::WriteAt on sector i of an open file (module OpenFile has the
\* bytes); the sector's place comes from the copy of the header.
WriteAt(f, i, v) ==
    /\ Ready
    /\ disk' = [disk EXCEPT ![f.dataSectors[i]] = Data(f.id, i, v)]
    /\ written' = [written EXCEPT ![f.id][i] = Data(f.id, i, v)]
    /\ stale' = (stale \/ f.id \notin Linked)
    /\ Working
    /\ UNCHANGED <<freeMap, directory, pending, open, files, was, will, aborted>>

\* Nachos exits, in the middle of an operation or not, and starts again
\* without -f: FileSystem(FALSE) opens the map and the directory it finds.
\* With one write left, of the map and the directory one is the new and the
\* other the old one; with more left, the operation has not happened.
Restart ==
    /\ ~aborted
    /\ crash' = IF Len(pending) # 1 THEN crash ELSE IF crash = "none" THEN "last" ELSE "past"
    /\ will' = IF Len(pending) > 1 THEN was ELSE will
    /\ pending' = <<>>
    /\ open' = <<>>
    /\ UNCHANGED <<freeMap, directory, disk, files, written, stale, was, aborted>>

Aborted == aborted /\ UNCHANGED vars

Next ==
    \/ \E name \in Names, size \in Sizes : Create(name, size) \/ CreateFails(name, size)
    \/ \E name \in Names : Remove(name) \/ Open(name)
    \/ \E i \in DOMAIN open : Close(i)
    \/ \E f \in Range(open) : \E i \in DOMAIN f.dataSectors, v \in Values : WriteAt(f, i, v)
    \/ Flush \/ Restart \/ Aborted

Spec == Init /\ [][Next]_vars

-----------------------------------------------------------------------------
(* Properties                                                              *)

Used == {e \in Entries : directory[e].inUse}

\* The sectors a directory entry's file occupies.
SectorsOf(e) ==
    LET s == directory[e].sector
    IN  {s} \cup IF disk[s].kind = "header" THEN Range(disk[s].dataSectors) ELSE {}

TypeOK ==
    /\ freeMap \subseteq Sectors
    /\ DOMAIN directory = Entries
    /\ \A e \in Used : directory[e].name \in Names /\ directory[e].sector \in Sectors
    /\ \A s \in Sectors : disk[s].kind \in {"header", "data", "garbage"}
    /\ Len(pending) <= 3
    /\ Len(open) <= MaxOpen
    /\ files \in 0..MaxFiles
    /\ stale \in BOOLEAN
    /\ crash \in {"none", "last", "past"}
    /\ aborted \in BOOLEAN

\* Names are unique, every name leads to a file header and no sector belongs
\* to two files: all that is needed to read every file.
Readable ==
    /\ \A e \in Used : disk[directory[e].sector].kind = "header"
    /\ \A e, d \in Used : e # d => /\ directory[e].name # directory[d].name
                                   /\ SectorsOf(e) \cap SectorsOf(d) = {}

\* Whatever crashes and stale OpenFiles do, the file system's own sectors are
\* never given to a file.
MetadataSafe ==
    /\ Reserved \subseteq freeMap
    /\ \A e \in Used : SectorsOf(e) \cap Reserved = {}

\* When nothing is in progress, and no exit has left the map and the directory
\* at odds, the map marks exactly the sectors that are in use: no sector is lost
\* or given out twice, by operations that succeed, fail or are cut short before
\* they change either, and no assertion of Deallocate has failed.
MapExact ==
    crash = "none" /\ ~stale /\ pending = <<>> =>
        /\ ~aborted
        /\ Readable
        /\ freeMap = Reserved \cup UNION {SectorsOf(e) : e \in Used}

\* The free map is right about the files, and always about the file system's
\* own sectors (FileSystem, Create, Remove).
Consistent == TypeOK /\ MetadataSafe /\ MapExact

\* The file that Open finds under a name.
FileOf(name) == IF InDirectory(name) THEN disk[Find(name)].id ELSE 0

\* The order of the writes: wherever Create or Remove is cut short, the disk
\* it leaves has every file it should have, under its name, and all are
\* readable.  Each name leads to the file that the completed operations say;
\* only the name whose Create or Remove was cut short may be as before it or
\* as after it.  Nothing is said of the operations after an exit that has left
\* the map and the directory at odds: there the disk may get corrupted, as
\* filesys.cc warns.
CrashKeepsFiles ==
    crash # "past" /\ ~stale =>
        /\ Readable
        /\ \A name \in Names :
              FileOf(name) \in IF pending = <<>> /\ crash = "none" THEN {will[name]}
                              ELSE {was[name], will[name]}

\* filehdr.h: "Without indirect addressing, this limits the maximum file length".
\* A header names all the sectors of its file.
FileFits == \A s \in Sectors : disk[s].kind = "header" => Len(disk[s].dataSectors) <= NumDirect

\* While no removed file is written, each sector of a file holds what was last
\* written to it, whatever happens to other files and wherever Nachos exits, up
\* to the first operation on a map and a directory at odds.
ContentsKept ==
    crash # "past" /\ ~stale =>
        \A e \in Used : LET h == disk[directory[e].sector]
                        IN  /\ h.kind = "header"
                            /\ \A i \in DOMAIN h.dataSectors :
                                   written[h.id][i] # Garbage =>
                                       disk[h.dataSectors[i]] = written[h.id][i]

=============================================================================
