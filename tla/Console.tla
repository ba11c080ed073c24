------------------------------- MODULE Console -------------------------------
(***************************************************************************)
(* The simulated console (machine/console.cc) and the kernel code that     *)
(* uses it (ConsoleTest in userprog/progtest.cc, which echoes what is      *)
(* typed until a 'q').                                                     *)
(*                                                                         *)
(* The console has a buffer of one character.  Every ConsoleTime ticks it  *)
(* polls the keyboard, reads a character if the buffer is empty, and calls *)
(* the read handler; some time after PutChar it calls the write handler.   *)
(* Interrupts come between any two steps of the thread, which are split    *)
(* where the code enables interrupts.                                      *)
(***************************************************************************)
EXTENDS Naturals, Sequences

CONSTANTS
    Chars,      \* the characters that are typed
    Quit,       \* 'q'
    EOF,        \* the mark of an empty buffer; it is also character 0377
    MaxTyped    \* bound: characters typed

ConsoleAssumption == MaxTyped \in Nat

VARIABLES
    typed,      \* what has been typed so far
    nread,      \* how many of these characters the console has read
    closed,     \* the input is a file and has been typed in full
    incoming,   \* Console::incoming
    putBusy,    \* Console::putBusy, and the write interrupt is scheduled
    readAvail,  \* value of the semaphore readAvail
    writeDone,  \* value of the semaphore writeDone
    pc,         \* where the thread is in ConsoleTest
    ch,         \* ConsoleTest's ch
    output,     \* what has been displayed
    aborted     \* an ASSERT failed

vars == <<typed, nread, closed, incoming, putBusy, readAvail, writeDone, pc, ch, output,
          aborted>>

Init ==
    /\ typed = <<>>
    /\ nread = 0
    /\ closed = FALSE
    /\ incoming = EOF
    /\ putBusy = FALSE
    /\ readAvail = 0
    /\ writeDone = 0
    /\ pc = "wait"
    /\ ch = EOF
    /\ output = <<>>
    /\ aborted = FALSE

-----------------------------------------------------------------------------
(* The keyboard                                                            *)

Type(c) ==
    /\ ~closed
    /\ Len(typed) < MaxTyped
    /\ typed' = Append(typed, c)
    /\ UNCHANGED <<nread, closed, incoming, putBusy, readAvail, writeDone, pc, ch, output,
                   aborted>>

CloseInput ==
    /\ ~closed
    /\ closed' = TRUE
    /\ UNCHANGED <<typed, nread, incoming, putBusy, readAvail, writeDone, pc, ch, output,
                   aborted>>

\* PollFile: select finds something to read; at the end of a file, too.
PollFile == nread < Len(typed) \/ closed

-----------------------------------------------------------------------------
(* Interrupt handlers                                                      *)

\* Mutant: a character is read whether the last one was fetched or not.
CanReadAlways == PollFile

CanRead == incoming = EOF /\ PollFile

\* CheckCharAvail, when it has something to do: Read asserts that it got a
\* character, and the read handler calls readAvail->V().
CheckCharAvail ==
    /\ ~aborted
    /\ CanRead
    /\ IF nread < Len(typed)
       THEN /\ incoming' = typed[nread + 1]
            /\ nread' = nread + 1
            /\ readAvail' = readAvail + 1
            /\ UNCHANGED aborted
       ELSE aborted' = TRUE /\ UNCHANGED <<incoming, nread, readAvail>>
    /\ UNCHANGED <<typed, closed, putBusy, writeDone, pc, ch, output>>

\* Mutant: the handler does not tell the thread.
WriteDoneSilent ==
    /\ ~aborted
    /\ putBusy
    /\ putBusy' = FALSE
    /\ UNCHANGED <<typed, nread, closed, incoming, readAvail, writeDone, pc, ch, output,
                   aborted>>

\* Console::WriteDone; the write handler calls writeDone->V().
WriteDone ==
    /\ ~aborted
    /\ putBusy
    /\ putBusy' = FALSE
    /\ writeDone' = writeDone + 1
    /\ UNCHANGED <<typed, nread, closed, incoming, readAvail, pc, ch, output, aborted>>

-----------------------------------------------------------------------------
(* ConsoleTest                                                             *)

\* readAvail->P()
AwaitChar ==
    /\ ~aborted
    /\ pc = "wait"
    /\ readAvail > 0
    /\ readAvail' = readAvail - 1
    /\ pc' = "echo"
    /\ UNCHANGED <<typed, nread, closed, incoming, putBusy, writeDone, ch, output, aborted>>

\* GetChar and PutChar, which asserts that the last character is out.
Echo ==
    /\ ~aborted
    /\ pc = "echo"
    /\ ch' = incoming
    /\ incoming' = EOF
    /\ IF putBusy
       THEN aborted' = TRUE /\ UNCHANGED <<output, putBusy>>
       ELSE output' = Append(output, incoming) /\ putBusy' = TRUE /\ UNCHANGED aborted
    /\ pc' = "written"
    /\ UNCHANGED <<typed, nread, closed, readAvail, writeDone>>

\* writeDone->P(), and back to the start of the loop unless it was a 'q'.
AwaitWritten ==
    /\ ~aborted
    /\ pc = "written"
    /\ writeDone > 0
    /\ writeDone' = writeDone - 1
    /\ pc' = IF ch = Quit THEN "returned" ELSE "wait"
    /\ UNCHANGED <<typed, nread, closed, incoming, putBusy, readAvail, ch, output, aborted>>

ConsoleTest == AwaitChar \/ Echo \/ AwaitWritten

\* With nothing to read the console keeps polling, and the thread stays where
\* it is; after a failed ASSERT nothing moves.
Stay == UNCHANGED vars

Next ==
    \/ \E c \in Chars : Type(c)
    \/ CloseInput
    \/ CheckCharAvail \/ WriteDone
    \/ ConsoleTest
    \/ Stay

\* Pending interrupts are called, and a thread that can run is run.
Fairness == WF_vars(CheckCharAvail) /\ WF_vars(WriteDone) /\ WF_vars(ConsoleTest)

FairSpec == Init /\ [][Next]_vars /\ Fairness

-----------------------------------------------------------------------------
(* Properties                                                              *)

TypeOK ==
    /\ typed \in Seq(Chars) /\ Len(typed) <= MaxTyped
    /\ nread \in 0..Len(typed)
    /\ incoming \in Chars \cup {EOF}
    /\ {closed, putBusy, aborted} \subseteq BOOLEAN
    /\ {readAvail, writeDone} \subseteq Nat
    /\ pc \in {"wait", "echo", "written", "returned"}
    /\ Len(output) <= Len(typed)

EOFTyped == \E i \in DOMAIN typed : typed[i] = EOF

\* What is displayed is what was typed, in order, with no character lost or
\* doubled, as long as nobody types the character that stands for an empty
\* buffer (ConsoleTest: "echoing characters typed at the input onto the
\* output").
EchoInOrder == ~EOFTyped => output = SubSeq(typed, 1, Len(output))

\* Nachos is aborted by the end of the input only: PutChar always finds the
\* display idle, though the write interrupt and the thread that waits for it
\* are not ordered with the arrival of characters.
AbortOnlyAtEnd == aborted => closed /\ nread = Len(typed)

\* Everything typed is displayed sooner or later, unless a 'q' or the end of
\* the input stops the echo.
EchoedEventually ==
    \A n \in 1..MaxTyped :
        Len(typed) >= n ~> Len(output) >= n \/ pc = "returned" \/ aborted

=============================================================================
