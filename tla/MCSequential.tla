---------------------------- MODULE MCSequential ----------------------------
(***************************************************************************)
(* The parts that only one thread uses at a time, checked in one run: each *)
(* behaviour is one of the file system, of the bytes of an open file, of   *)
(* the commands that copy and print a file, of a list, of the two stacks,  *)
(* of a bitmap, or of the start of Nachos.                                 *)
(***************************************************************************)
EXTENDS FileSystem, TLC

CONSTANTS
    OpenFiles, SectorSize, Place, Lengths, Foreign, Byte, Buffers, TransferSize, Chunk,
    Cells, Items, Keys, NULL, SizeBound,
    StackSize, Pushed, Addresses, Null,
    numBits, BitsInWord, NoBit,
    Builds, Options, MaxOptions

VARIABLES
    part,
    sectors, hdr, seekPosition, bytes, unixFile, fp, doing, printed, report,
    cell, first, last, size, result, counted,
    stack, top, firstE, lastE, heap, contents, popped,
    map, file, found, set, filedSet, free,
    build, options, argv, phase, settings, performed, created, missing

F == INSTANCE FileTest
L == INSTANCE Lists
S == INSTANCE Stacks
B == INSTANCE BitMap
M == INSTANCE Startup

fileVars == <<sectors, hdr, seekPosition, bytes>>
testVars == <<unixFile, fp, doing, printed, report>>
listVars == <<cell, first, last, size, result, counted>>
stackVars == <<stack, top, firstE, lastE, heap, contents, popped>>
bitVars == <<map, file, found, set, filedSet, free>>
mainVars == <<build, options, argv, phase, settings, performed, created, missing>>

-----------------------------------------------------------------------------
(* Values of the constants                                                 *)

\* The sectors of a file are in no order, with another file's between them.
MCPlace == <<3, 1, 4>>

\* A byte differs from its neighbours, so one copied to the wrong place shows.
MCBuffers == {[i \in 1..n |-> (i + v) % 2] : n \in 1..5, v \in {0, 1}}
MCChunk == <<1, 0>>

\* No step and no property depends on what the file names are.
Symmetry == Permutations(Names)

MCBuilds == {"threads", "userprog", "filesys", "network"}
MCOptions == {"-d", "-A", "-t", "-r", "-rs", "-x", "-c", "-s", "-f", "-cp", "-p", "-l", "-D",
              "-m", "-o", "-z"}

-----------------------------------------------------------------------------
\* The parts that a behaviour is not about have one initial state.
OtherParts ==
    /\ part # "filetest" => doing = "FileWrite" /\ unixFile = <<>>
    /\ part \notin {"openfile", "filetest"} => hdr = CHOOSE h \in F!Headers : h.numBytes = 0
    /\ part # "bitmap" => map = [w \in B!WordIndex |-> 0]
    /\ part # "main" => build = "threads" /\ options = <<>>

MCInit ==
    /\ part \in {"filesystem", "openfile", "filetest", "list", "stack", "bitmap", "main"}
    /\ OtherParts
    /\ Init /\ L!Init /\ S!Init /\ B!Init /\ M!Init
    /\ IF part = "filetest" THEN F!TestInit ELSE F!Init /\ fp = 0 /\ printed = <<>> /\ report = {}

MCNext ==
    /\ UNCHANGED part
    /\ \/ part = "filesystem" /\ Next
          /\ UNCHANGED <<fileVars, testVars, listVars, stackVars, bitVars, mainVars>>
       \/ part = "openfile" /\ F!Next
          /\ UNCHANGED <<vars, testVars, listVars, stackVars, bitVars, mainVars>>
       \/ part = "filetest" /\ F!TestNext
          /\ UNCHANGED <<vars, listVars, stackVars, bitVars, mainVars>>
       \/ part = "list" /\ L!Next
          /\ UNCHANGED <<vars, fileVars, testVars, stackVars, bitVars, mainVars>>
       \/ part = "stack" /\ S!Next
          /\ UNCHANGED <<vars, fileVars, testVars, listVars, bitVars, mainVars>>
       \/ part = "bitmap" /\ B!Next
          /\ UNCHANGED <<vars, fileVars, testVars, listVars, stackVars, mainVars>>
       \/ part = "main" /\ M!Next
          /\ UNCHANGED <<vars, fileVars, testVars, listVars, stackVars, bitVars>>

MCSpec ==
    /\ MCInit
    /\ [][MCNext]_<<part, vars, fileVars, testVars, listVars, stackVars, bitVars, mainVars>>

-----------------------------------------------------------------------------
(* Properties                                                              *)

\* Reading and writing through sectors is reading and writing an array of bytes.
BytesRight == part = "openfile" => F!TypeOK /\ F!ReadsBytes /\ F!WritesBytes

\* What -cp copied is what -p displays.
CopyShown == part = "filetest" => F!CopyShown

\* The linked list implements a sequence: L!ImplementsSequence for the
\* behaviours of the list, and cheap to evaluate in the others.
ImplementsSequence ==
    L!Abstract!Init /\ [][part = "list" => L!Abstract!Next]_<<L!Abstract!vars>>

\* The pointers and the size of a list are sound; the stacks and the words of a
\* bitmap behave like the sequence and the set that their users take them for.
StructuresRight ==
    /\ part = "list" => L!TypeOK
    /\ part = "stack" => S!StacksAgree
    /\ part = "bitmap" => B!BitsExact

\* The command line is understood and every object is there when it is used.
StartsRight == part = "main" => M!StartsRight

=============================================================================
