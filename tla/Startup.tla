------------------------------- MODULE Startup -------------------------------
(***************************************************************************)
(* The start and the end of Nachos: Initialize and Cleanup                 *)
(* (threads/system.cc) and main (threads/main.cc), for each of the builds. *)
(*                                                                         *)
(* The command line is read twice.  Initialize looks for the settings and  *)
(* main for the commands; each knows how many arguments its own flags have *)
(* and takes the arguments of the other's for flags.  A command line is    *)
(* made of options as the comment of main.cc lists them, an argument is    *)
(* the word "word".                                                        *)
(***************************************************************************)
EXTENDS Naturals, Sequences, SequencesExt

CONSTANTS
    Builds,         \* some of "threads", "userprog", "filesys", "network"
    Options,        \* options that are used, as flags
    MaxOptions      \* bound: options of a command line

\* The Makefiles.
Defines(b) ==
    CASE b = "threads" -> {"THREADS"}
      [] b = "userprog" -> {"USER_PROGRAM", "FILESYS_NEEDED", "FILESYS_STUB"}
      [] b = "filesys" -> {"THREADS", "USER_PROGRAM", "FILESYS_NEEDED", "FILESYS"}
      [] b = "network" -> {"USER_PROGRAM", "FILESYS_NEEDED", "FILESYS", "NETWORK"}

\* How many arguments an option has: the comment of main.cc, and -A.
Arity(flag) ==
    CASE flag \in {"-d", "-rs", "-A", "-x", "-p", "-r", "-n", "-m", "-o"} -> 1
      [] flag \in {"-c", "-cp"} -> 2
      [] flag \in {"-s", "-f", "-l", "-D", "-t", "-z"} -> 0

VARIABLES
    build,
    options,    \* the flags of the command line, in order
    argv,       \* the words from *argv on
    phase,      \* what runs: "Initialize", "create", "main", or how it ended
    settings,   \* the flags Initialize has seen
    performed,  \* the commands main has run
    created,    \* the global objects that exist
    missing     \* history: a constructor used an object that did not exist

vars == <<build, options, argv, phase, settings, performed, created, missing>>

CommandLine(opts) ==
    FlattenSeq([k \in DOMAIN opts |-> <<opts[k]>> \o [j \in 1..Arity(opts[k]) |-> "word"]])

Init ==
    /\ build \in Builds
    /\ options \in UNION {[1..n -> Options] : n \in 0..MaxOptions}
    /\ argv = CommandLine(options)
    /\ phase = "Initialize"
    /\ settings = {}
    /\ performed = <<>>
    /\ created = <<>>
    /\ missing = FALSE

Has(define) == define \in Defines(build)
Flag == Head(argv)
Drop(n) == SubSeq(argv, n + 1, Len(argv))

-----------------------------------------------------------------------------
(* Initialize                                                              *)

\* The flags it knows, by build.
Settings ==
    {"-d", "-rs", "-A"} \cup (IF Has("USER_PROGRAM") THEN {"-s"} ELSE {})
    \cup (IF Has("FILESYS_NEEDED") THEN {"-f"} ELSE {})
    \cup (IF Has("NETWORK") THEN {"-l", "-m"} ELSE {})

\* Mutant: every flag is taken to have an argument.
SettingArgsTwo == IF Len(argv) > 1 THEN 2 ELSE 1

\* argCount of the flag at hand; -d alone at the end has no argument.
SettingArgs ==
    IF \/ Flag \in {"-rs", "-A"} \/ Flag \in {"-l", "-m"} \cap Settings
       \/ Flag = "-d" /\ Len(argv) > 1
    THEN 2 ELSE 1

\* One turn of the loop.
ReadSetting ==
    /\ phase = "Initialize" /\ argv # <<>>
    /\ IF Flag \in {"-rs", "-l", "-m"} \cap Settings /\ Len(argv) = 1
       THEN phase' = "failed ASSERT" /\ UNCHANGED <<argv, settings>>
       ELSE /\ settings' = settings \cup ({Flag} \cap Settings)
            /\ argv' = Drop(SettingArgs)
            /\ UNCHANGED phase
    /\ UNCHANGED <<build, options, performed, created, missing>>

\* What is created, in order, and the call that lets interrupts happen.
Objects ==
    <<"stats", "interrupt", "scheduler">> \o (IF "-rs" \in settings THEN <<"timer">> ELSE <<>>)
    \o <<"currentThread", "Enable">>
    \o (IF Has("USER_PROGRAM") THEN <<"machine", "activeThreads">> ELSE <<>>)
    \o (IF Has("FILESYS") THEN <<"synchDisk">> ELSE <<>>)
    \o (IF Has("FILESYS_NEEDED") THEN <<"fileSystem">> ELSE <<>>)
    \o (IF Has("NETWORK") THEN <<"postOffice">> ELSE <<>>)

\* The globals that each constructor uses.  Enable lets the clock run and may
\* yield; the FileSystem reads or writes the disk, which sleeps until it is
\* done; the PostOffice forks a thread and lets the network poll.
Uses(object) ==
    CASE object = "timer" -> {"interrupt", "stats"}
      [] object = "Enable" -> {"interrupt", "stats", "scheduler", "currentThread"}
      [] object = "fileSystem" /\ Has("FILESYS") -> {"synchDisk", "interrupt", "stats", "scheduler", "currentThread"}
      [] object = "postOffice" -> {"interrupt", "stats", "scheduler", "currentThread"}
      [] OTHER -> {}

Create ==
    /\ phase = "Initialize" /\ argv = <<>>
    /\ IF created = Objects
       THEN phase' = "main" /\ argv' = CommandLine(options) /\ UNCHANGED <<created, missing>>
       ELSE LET object == Objects[Len(created) + 1]
            IN  /\ created' = Append(created, object)
                /\ missing' = (missing \/ ~(Uses(object) \subseteq ToSet(created)))
                /\ UNCHANGED <<phase, argv>>
    /\ UNCHANGED <<build, options, settings, performed>>

-----------------------------------------------------------------------------
(* main                                                                    *)

\* The commands it knows, by build.
Commands ==
    {"-z"} \cup (IF Has("USER_PROGRAM") THEN {"-x", "-c"} ELSE {})
    \cup (IF Has("FILESYS") THEN {"-cp", "-p", "-r", "-l", "-D", "-t"} ELSE {})
    \cup (IF Has("NETWORK") THEN {"-o"} ELSE {})

CommandArgs ==
    CASE Flag \in {"-x", "-p", "-r", "-o"} \cap Commands -> 2
      [] Flag \in {"-cp"} \cap Commands -> 3
      [] Flag \in {"-c"} \cap Commands -> IF Len(argv) = 1 THEN 1 ELSE 3
      [] OTHER -> 1

\* The console test ends with Halt.  StartProcess does not return from a program
\* it runs, and returns to main when it cannot open the file.
AfterCommand ==
    IF Flag \in {"-c"} \cap Commands THEN {"left main"}
    ELSE IF Flag \in {"-x"} \cap Commands THEN {"left main", phase} ELSE {phase}

\* One turn of the loop.
RunCommand ==
    /\ phase = "main" /\ argv # <<>>
    /\ IF Flag # "-x" /\ CommandArgs > Len(argv)
       THEN phase' = "failed ASSERT" /\ UNCHANGED <<argv, performed>>
       ELSE /\ performed' = IF Flag \in Commands THEN Append(performed, Flag) ELSE performed
            /\ argv' = Drop(CommandArgs)
            /\ phase' \in AfterCommand
    /\ UNCHANGED <<build, options, settings, created, missing>>

\* currentThread->Finish().
Finish ==
    /\ phase = "main" /\ argv = <<>>
    /\ phase' = "left main"
    /\ UNCHANGED <<build, options, argv, settings, performed, created, missing>>

\* Halt, or control-C once CallOnUserAbort has run: Cleanup deletes what there
\* is; pointers that are not set yet are NULL.  The rest goes with the process.
Cleanup ==
    /\ phase \in {"Initialize", "main", "left main"}
    /\ Contains(created, "Enable")
    /\ phase' = "exited"
    /\ created' = SelectSeq(created, LAMBDA o : o \in {"stats", "currentThread", "Enable"})
    /\ UNCHANGED <<build, options, argv, settings, performed, missing>>

Ended == phase \in {"exited", "failed ASSERT"} /\ UNCHANGED vars

Next == ReadSetting \/ Create \/ RunCommand \/ Finish \/ Cleanup \/ Ended

-----------------------------------------------------------------------------
(* Properties                                                              *)

\* The commands of the command line that the build has.
Wanted == SelectSeq(options, LAMBDA f : f \in Commands)

\* In the builds without the network the two readings of the command line fit
\* together: no argument is taken for a flag, no option is lost, "flags are
\* ignored until the relevant assignment", and no assertion fails.  The commands
\* run in their order, up to a program or a console test that takes over.  In
\* every build each constructor finds the objects that it uses.
StartsRight ==
    /\ ~missing
    /\ ~Has("NETWORK") =>
         /\ phase # "failed ASSERT"
         /\ phase \in {"main", "left main"} => settings = ToSet(options) \cap Settings
         /\ IsPrefix(performed, Wanted)
         /\ phase = "left main" =>
               \/ performed = Wanted
               \/ performed # <<>> /\ Last(performed) \in {"-x", "-c"}

=============================================================================
