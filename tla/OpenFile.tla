------------------------------ MODULE OpenFile ------------------------------
(***************************************************************************)
(* Reading and writing the bytes of a file (filesys/openfile.cc).  The     *)
(* disk transfers whole sectors, so ReadAt and WriteAt work on a buffer of *)
(* the sectors that a request touches; WriteAt first reads the ones that   *)
(* it changes only in part.  Several OpenFile objects share one file.      *)
(* filesys.cc excludes concurrent access, so each operation is one step.   *)
(***************************************************************************)
EXTENDS Naturals, Sequences

LOCAL Ext == INSTANCE FiniteSetsExt

CONSTANTS
    OpenFiles,      \* the OpenFile objects on the file
    SectorSize,
    Place,          \* the sectors of the longest file, in the file's order
    Lengths,        \* lengths of files
    Foreign,        \* sectors that belong to other files
    Byte,
    Buffers         \* what is written: sequences of bytes

VARIABLES
    sectors,        \* the contents of the disk
    hdr,            \* the file's header: numBytes and dataSectors
    seekPosition,   \* of each OpenFile
    bytes           \* history: the file as a plain array of bytes

vars == <<sectors, hdr, seekPosition, bytes>>

Offsets == 0..(hdr.numBytes - 1)

Headers ==
    {[numBytes |-> n, dataSectors |-> SubSeq(Place, 1, (n + SectorSize - 1) \div SectorSize)] :
        n \in Lengths}

\* Requests are as long as the longest buffer at most.
Requests == 1..Ext!Max({Len(from) : from \in Buffers})

Init ==
    /\ hdr \in Headers
    /\ sectors = [s \in Foreign \cup {hdr.dataSectors[i] : i \in DOMAIN hdr.dataSectors} |->
                     [b \in 1..SectorSize |-> Ext!Min(Byte)]]
    /\ seekPosition = [f \in OpenFiles |-> 0]
    /\ bytes = [b \in Offsets |-> Ext!Min(Byte)]

\* FileHeader::ByteToSector.
ByteToSector(offset) == hdr.dataSectors[offset \div SectorSize + 1]

\* How many bytes a request transfers: none past the end of the file.
Clipped(numBytes, position) ==
    IF position >= hdr.numBytes THEN 0
    ELSE IF position + numBytes > hdr.numBytes THEN hdr.numBytes - position
    ELSE numBytes

FirstSector(position) == position \div SectorSize
LastSector(n, position) == (position + n - 1) \div SectorSize
SectorsTouched(n, position) == 1 + LastSector(n, position) - FirstSector(position)

\* OpenFile::ReadAt: read the sectors into a buffer, copy the part asked for.
ReadAt(numBytes, position) ==
    LET n == Clipped(numBytes, position)
        start == FirstSector(position) * SectorSize
        buf == [i \in 1..(SectorsTouched(n, position) * SectorSize) |->
                   sectors[ByteToSector(start + i - 1)][((i - 1) % SectorSize) + 1]]
    IN  IF n = 0 THEN <<>>
        ELSE SubSeq(buf, position - start + 1, position - start + n)

\* bcopy(data, &buf[at], Len(data)).
Copied(buf, at, data) ==
    [i \in DOMAIN buf |-> IF i \in (at + 1)..(at + Len(data)) THEN data[i - at] ELSE buf[i]]

\* Mutant: the last sector is read only when it is not the first one.
ReadLastOtherOnly(n, position) ==
    /\ (position + n) % SectorSize # 0
    /\ FirstSector(position) # LastSector(n, position)

\* WriteAt's condition for reading the last sector: it is written in part, and
\* it has not been read as the first one.
ReadLast(n, position) ==
    /\ (position + n) % SectorSize # 0
    /\ \/ FirstSector(position) # LastSector(n, position)
       \/ position % SectorSize = 0

\* The buffer of WriteAt before it is written back.  It comes from new, so it
\* holds anything at first (here: the byte junk throughout), and the bytes past
\* the end of the file stay so.
WriteBuffer(from, position, junk) ==
    LET n == Len(from)
        fresh == [i \in 1..(SectorsTouched(n, position) * SectorSize) |-> junk]
        first == FirstSector(position) * SectorSize
        last == LastSector(n, position) * SectorSize
        withFirst == IF position # first
                     THEN Copied(fresh, 0, ReadAt(SectorSize, first))
                     ELSE fresh
        withLast == IF ReadLast(n, position)
                    THEN Copied(withFirst, last - first, ReadAt(SectorSize, last))
                    ELSE withFirst
    IN  Copied(withLast, position - first, from)

\* The disk after the buffer's sectors have been written back.
WrittenBack(buf, position) ==
    [s \in DOMAIN sectors |->
        LET at == {i \in 0..(Len(buf) \div SectorSize - 1) :
                       ByteToSector((FirstSector(position) + i) * SectorSize) = s}
        IN  IF at = {} THEN sectors[s]
            ELSE SubSeq(buf, Ext!Max(at) * SectorSize + 1, (Ext!Max(at) + 1) * SectorSize)]

\* OpenFile::Write of the bytes from: WriteAt the seek position, and advance it.
Write(f, from) ==
    LET position == seekPosition[f]
        n == Clipped(Len(from), position)
    IN  /\ n > 0
        /\ \E junk \in Byte :
              sectors' = WrittenBack(WriteBuffer(SubSeq(from, 1, n), position, junk), position)
        /\ seekPosition' = [seekPosition EXCEPT ![f] = position + n]
        /\ bytes' = [b \in Offsets |-> IF b \in position..(position + n - 1)
                                       THEN from[b - position + 1] ELSE bytes[b]]
        /\ UNCHANGED hdr

\* OpenFile::Read advances the position by what ReadAt returns.
Read(f, numBytes) ==
    /\ seekPosition' = [seekPosition EXCEPT ![f] = @ + Len(ReadAt(numBytes, @))]
    /\ UNCHANGED <<sectors, hdr, bytes>>

\* OpenFile::Seek accepts any position.
Seek(f, position) ==
    /\ seekPosition' = [seekPosition EXCEPT ![f] = position]
    /\ UNCHANGED <<sectors, hdr, bytes>>

Next ==
    \E f \in OpenFiles :
        \/ \E n \in Requests : Read(f, n)
        \/ \E from \in Buffers : Write(f, from)
        \/ \E position \in 0..(hdr.numBytes + 1) : Seek(f, position)

Spec == Init /\ [][Next]_vars

-----------------------------------------------------------------------------
(* Properties                                                              *)

\* Only Seek takes a position past the end of the file: Read and Write stop
\* there (openfile.cc, the check of the request).
TypeOK ==
    /\ hdr \in Headers
    /\ \A s \in DOMAIN sectors : sectors[s] \in [1..SectorSize -> Byte]
    /\ \A f \in OpenFiles : seekPosition[f] \in 0..(hdr.numBytes + 1)
    /\ bytes \in [Offsets -> Byte]

\* ReadAt returns the bytes of the request, wherever it starts and ends in the
\* sectors, and no byte past the end of the file.
ReadsBytes ==
    \A position \in 0..hdr.numBytes, n \in {0} \cup Requests :
        ReadAt(n, position) = [i \in 1..Clipped(n, position) |-> bytes[position + i - 1]]

\* WriteAt changes the bytes of the request and no other: not the rest of a
\* sector written in part, and no sector of another file.
WritesBytes ==
    /\ \A b \in Offsets : sectors[ByteToSector(b)][(b % SectorSize) + 1] = bytes[b]
    /\ \A s \in Foreign : \A i \in 1..SectorSize : sectors[s][i] = Ext!Min(Byte)

=============================================================================
