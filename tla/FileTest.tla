------------------------------- MODULE FileTest -------------------------------
(***************************************************************************)
(* The commands of filesys/fstest.cc on one Nachos file: Copy of a UNIX    *)
(* file and Print of the copy (nachos -cp, -p), and PerformanceTest (-t).  *)
(* Both move a few bytes at a time through an OpenFile, so the chunks do   *)
(* not fit the sectors.  Create and Open succeed; FileSystem has the rest. *)
(***************************************************************************)
EXTENDS OpenFile, SequencesExt, FiniteSetsExt

CONSTANTS
    TransferSize,   \* bytes of a chunk
    Chunk           \* what PerformanceTest writes again and again: Contents

VARIABLES
    unixFile,   \* the contents of the UNIX file that is copied
    fp,         \* how much of it has been read
    doing,      \* the function that runs, or "done"
    printed,    \* the output of Print
    report      \* what PerformanceTest complains about

testVars == <<unixFile, fp, doing, printed, report>>

\* The only OpenFile; each function opens it anew.
TheFile == CHOOSE f \in OpenFiles : TRUE
Reopen == seekPosition' = [f \in OpenFiles |-> 0]

\* Copy has created a file as long as the UNIX file, PerformanceTest one of no
\* bytes at all.
TestInit ==
    /\ Init
    /\ doing \in {"Copy", "FileWrite"}
    /\ unixFile \in IF doing = "Copy" THEN [1..hdr.numBytes -> Byte] ELSE {<<>>}
    /\ doing = "FileWrite" => hdr.numBytes = 0
    /\ fp = 0
    /\ printed = <<>>
    /\ report = {}

\* OpenFile::Write, which writes nothing and returns 0 at the end of the file.
Written(from) == Clipped(Len(from), seekPosition[TheFile])

WriteSome(from) ==
    IF Written(from) > 0 THEN Write(TheFile, from) ELSE UNCHANGED <<sectors, seekPosition, bytes, hdr>>

\* One turn of the loop of Copy, and then -p.
Copy ==
    /\ doing = "Copy"
    /\ LET chunk == SubSeq(unixFile, fp + 1, Min({Len(unixFile), fp + TransferSize}))
       IN  IF chunk # <<>>
           THEN /\ WriteSome(chunk)
                /\ fp' = fp + Len(chunk)
                /\ UNCHANGED doing
           ELSE doing' = "Print" /\ Reopen /\ UNCHANGED <<sectors, hdr, bytes, fp>>
    /\ UNCHANGED <<unixFile, printed, report>>

\* Mutant: the whole buffer is printed, whatever Read has returned.
PrintWholeBuffer ==
    /\ doing = "Print"
    /\ LET chunk == ReadAt(TransferSize, seekPosition[TheFile])
       IN  /\ Read(TheFile, TransferSize)
           /\ printed' = printed \o [i \in 1..TransferSize |-> IF i <= Len(chunk) THEN chunk[i] ELSE 0]
           /\ doing' = IF chunk = <<>> THEN "done" ELSE doing
    /\ UNCHANGED <<unixFile, fp, report>>

\* One turn of the loop of Print.
PrintFile ==
    /\ doing = "Print"
    /\ LET chunk == ReadAt(TransferSize, seekPosition[TheFile])
       IN  /\ Read(TheFile, TransferSize)
           /\ printed' = printed \o chunk
           /\ doing' = IF chunk = <<>> THEN "done" ELSE doing
    /\ UNCHANGED <<unixFile, fp, report>>

\* FileWrite gives up at the first short write.
FileWrite ==
    /\ doing = "FileWrite"
    /\ IF Written(Chunk) < Len(Chunk)
       THEN /\ report' = report \cup {"unable to write"}
            /\ doing' = "FileRead"
            /\ Reopen /\ UNCHANGED <<sectors, hdr, bytes>>
       ELSE Write(TheFile, Chunk) /\ UNCHANGED <<report, doing>>
    /\ UNCHANGED <<unixFile, fp, printed>>

\* FileRead, and the removal of the file at the end.
FileRead ==
    /\ doing = "FileRead"
    /\ IF ReadAt(Len(Chunk), seekPosition[TheFile]) # Chunk
       THEN /\ report' = report \cup {"unable to read"}
            /\ doing' = "done"
            /\ UNCHANGED <<sectors, hdr, bytes, seekPosition>>
       ELSE Read(TheFile, Len(Chunk)) /\ UNCHANGED <<report, doing>>
    /\ UNCHANGED <<unixFile, fp, printed>>

TestDone == doing = "done" /\ UNCHANGED <<vars, testVars>>

TestNext == Copy \/ PrintFile \/ FileWrite \/ FileRead \/ TestDone

-----------------------------------------------------------------------------
(* Properties                                                              *)

\* Print shows the file that was copied, byte for byte, whatever the alignment
\* of the chunks in the sectors, and what is shown so far is a part of it.
\* PerformanceTest never gets past its first chunk, since files do not grow.
CopyShown ==
    /\ IsPrefix(printed, unixFile)
    /\ doing = "done" => printed = unixFile
    /\ doing = "FileRead" => "unable to write" \in report

=============================================================================
