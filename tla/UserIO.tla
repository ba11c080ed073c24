-------------------------------- MODULE UserIO --------------------------------
(***************************************************************************)
(* The system calls Read and Write (userprog/exception.cc, SC_Read,        *)
(* SC_Write, SRead and SWrite).  They copy between a buffer of the kernel  *)
(* and the memory of the process byte by byte, with ReadMem and WriteMem,  *)
(* and any of these accesses can hit a page that is not in memory.  Then   *)
(* the page fault is handled inside the system call, the page is there     *)
(* afterwards, and the access has failed all the same.                     *)
(*                                                                         *)
(* The buffer is in the process's memory.  What is written ends with a NUL *)
(* and fits the 500 bytes of ch, what is typed fits the buffer of SRead:   *)
(* past that the host's memory is overwritten.  There is a free frame.     *)
(***************************************************************************)
EXTENDS Naturals, Sequences, SequencesExt

CONSTANTS
    MemBytes,       \* bytes of the process's memory
    BytesPerPage,
    Memories,       \* contents of the memory before the call
    Inputs          \* what is typed, or in a file

NUL == 0
Addresses == 0..(MemBytes - 1)
PageOf(a) == a \div BytesPerPage
UserPages == {PageOf(a) : a \in Addresses}

VARIABLES
    mem,        \* the process's memory
    resident,   \* the pages with a valid entry
    call,       \* the system call: name, arg1, arg2 and arg3
    num,        \* j in SC_Write, num in SRead
    buffer,     \* the kernel's copy
    input,      \* what is left to read of the keyboard or the file
    output,     \* what SWrite wrote
    before,     \* history: memory and resident pages before the call, and its input
    returned    \* "no", "yes", or "aborted" after a failed ASSERT

vars == <<mem, resident, call, num, buffer, input, output, before, returned>>

NoCall == [name |-> "none", arg1 |-> 0, arg2 |-> 0, arg3 |-> 0]

Init ==
    /\ mem \in Memories
    /\ resident \in SUBSET UserPages
    /\ call = NoCall
    /\ num = 0
    /\ buffer = <<>>
    /\ input = <<>>
    /\ output = <<>>
    /\ before = [mem |-> mem, resident |-> resident, input |-> <<>>]
    /\ returned = "no"

\* PageFaultException, raised by ReadMem and WriteMem.
Fault(a) == resident' = resident \cup {PageOf(a)}

-----------------------------------------------------------------------------
(* SC_Write                                                                *)

\* A string of the process that ends in its memory; arg2, the size, is only
\* printed.
Write(arg1, arg2, arg3) ==
    /\ call = NoCall
    /\ arg1 + arg2 <= MemBytes
    /\ \E a \in Addresses : a >= arg1 /\ mem[a] = NUL
    /\ call' = [name |-> "Write", arg1 |-> arg1, arg2 |-> arg2, arg3 |-> arg3]
    /\ UNCHANGED <<mem, resident, num, buffer, input, output, before, returned>>

\* Mutant: a failed ReadMem is not repeated.
WriteLoopSkips ==
    /\ call.name = "Write" /\ returned = "no"
    /\ LET a == call.arg1 + num
       IN  IF PageOf(a) \notin resident
           THEN Fault(a) /\ num' = num + 1 /\ UNCHANGED <<buffer, output, returned>>
           ELSE /\ UNCHANGED resident
                /\ IF mem[a] # NUL
                   THEN buffer' = Append(buffer, mem[a]) /\ num' = num + 1 /\ UNCHANGED <<output, returned>>
                   ELSE /\ output' = IF call.arg3 = 0 THEN output ELSE buffer
                        /\ returned' = "yes"
                        /\ UNCHANGED <<num, buffer>>
    /\ UNCHANGED <<mem, call, input, before>>

\* One turn of the loop: after a failed ReadMem the same byte is read again.  At
\* the NUL, SWrite prints the string on the terminal (1) or writes it to a file
\* (2 and above).
WriteLoop ==
    /\ call.name = "Write" /\ returned = "no"
    /\ LET a == call.arg1 + num
       IN  IF PageOf(a) \notin resident
           THEN Fault(a) /\ UNCHANGED <<num, buffer, output, returned>>
           ELSE /\ UNCHANGED resident
                /\ IF mem[a] # NUL
                   THEN buffer' = Append(buffer, mem[a]) /\ num' = num + 1 /\ UNCHANGED <<output, returned>>
                   ELSE /\ output' = IF call.arg3 = 0 THEN output ELSE buffer
                        /\ returned' = "yes"
                        /\ UNCHANGED <<num, buffer>>
    /\ UNCHANGED <<mem, call, input, before>>

-----------------------------------------------------------------------------
(* SC_Read                                                                 *)

\* What SRead puts into buffer for a word typed at the keyboard.
Keyboard(size, word) ==
    IF Len(word) > size + 1 THEN SubSeq(word, 1, size + 1) ELSE word \o <<NUL>>

\* id 0 is the keyboard, where scanf waits for a word; other ids are files.
Read(arg1, arg2, arg3, data) ==
    /\ call = NoCall
    /\ arg1 + arg2 + 1 \in Addresses
    /\ arg3 = 0 => data # <<>> /\ NUL \notin ToSet(data)
    /\ call' = [name |-> "Read", arg1 |-> arg1, arg2 |-> arg2, arg3 |-> arg3]
    /\ buffer' = IF arg3 = 0 THEN Keyboard(arg2, data) ELSE <<>>
    /\ input' = IF arg3 = 0 THEN <<>> ELSE data
    /\ before' = [before EXCEPT !.input = data]
    /\ UNCHANGED <<mem, resident, num, output, returned>>

\* WriteMem of a byte; what it returns is not looked at.
Deliver(a, byte) ==
    IF PageOf(a) \in resident
    THEN mem' = [mem EXCEPT ![a] = byte] /\ UNCHANGED resident
    ELSE Fault(a) /\ UNCHANGED mem

\* One turn of the loop for the keyboard.
ReadKeyboard ==
    /\ call.name = "Read" /\ call.arg3 = 0 /\ returned = "no"
    /\ IF num = Len(buffer)
       THEN returned' = "yes" /\ UNCHANGED <<mem, resident, num>>
       ELSE /\ Deliver(call.arg1 + num, buffer[num + 1])
            /\ IF buffer[num + 1] = NUL
               THEN returned' = "yes" /\ UNCHANGED num
               ELSE num' = num + 1 /\ UNCHANGED returned
    /\ UNCHANGED <<call, buffer, input, output, before>>

\* One turn of the loop for a file.  Read of sysdep.cc asserts that there is
\* another byte.
ReadFile ==
    /\ call.name = "Read" /\ call.arg3 # 0 /\ returned = "no"
    /\ IF num >= call.arg2
       THEN returned' = "yes" /\ UNCHANGED <<mem, resident, num, buffer, input>>
       ELSE IF input = <<>>
       THEN returned' = "aborted" /\ UNCHANGED <<mem, resident, num, buffer, input>>
       ELSE /\ buffer' = Append(buffer, Head(input))
            /\ input' = Tail(input)
            /\ Deliver(call.arg1 + num, Head(input))
            /\ IF Head(input) = NUL
               THEN returned' = "yes" /\ UNCHANGED num
               ELSE num' = num + 1 /\ UNCHANGED returned
    /\ UNCHANGED <<call, output, before>>

Done == returned # "no" /\ UNCHANGED vars

Next ==
    \/ \E arg1 \in Addresses, arg2 \in 0..MemBytes, arg3 \in 0..2 : Write(arg1, arg2, arg3)
    \/ \E arg1, arg2 \in Addresses, arg3 \in {0, 2} : \E data \in Inputs :
          Read(arg1, arg2, arg3, data)
    \/ WriteLoop \/ ReadKeyboard \/ ReadFile
    \/ Done

-----------------------------------------------------------------------------
(* Properties                                                              *)

\* The string at address a.
StringAt(a) ==
    LET end == CHOOSE e \in Addresses : e >= a /\ mem[e] = NUL /\ \A b \in a..(e - 1) : mem[b] # NUL
    IN  [k \in 1..(end - a) |-> mem[a + k - 1]]

\* What Read returns: up to one character more than the size from the keyboard,
\* and from a file what comes before a NUL, up to the size.
Count ==
    LET data == before.input
        zeros == {k \in DOMAIN data : data[k] = NUL}
        most == IF call.arg3 = 0 THEN call.arg2 + 1 ELSE call.arg2
    IN  Min({Len(data), most} \cup {k - 1 : k \in zeros})

\* The first byte for an absent page is lost: WriteMem only brings the page in.
Lost(a) ==
    /\ PageOf(a) \notin before.resident
    /\ a = call.arg1 \/ PageOf(a - 1) # PageOf(a)

\* Write puts out the string in the buffer, whole and once, wherever its pages
\* were, and whatever the size.  Read returns Count and has stored as many bytes
\* of what was typed or was in the file, and perhaps a NUL behind them, but for
\* the first one on each page that was not in memory; nothing else has changed,
\* and from a file nothing past the size (SC_Write, SRead).
CopiesRight ==
    returned = "yes" =>
        /\ call.name = "Write" => /\ output = IF call.arg3 = 0 THEN <<>> ELSE StringAt(call.arg1)
                                  /\ mem = before.mem
        /\ call.name = "Read" =>
             /\ num = Count
             /\ \A a \in call.arg1..(call.arg1 + num - 1) :
                   mem[a] = IF Lost(a) THEN before.mem[a] ELSE before.input[a - call.arg1 + 1]
             /\ \A a \in Addresses \ (call.arg1..(call.arg1 + num - 1)) :
                   \/ mem[a] = before.mem[a]
                   \/ a = call.arg1 + num /\ mem[a] = NUL /\ (call.arg3 # 0 => num < call.arg2)

\* syscall.h: 'Write "size" bytes from "buffer" to the open file', and 'Read
\* "size" bytes from the open file into "buffer".  Return the number of bytes
\* actually read'.  Write puts out as many bytes as it was asked for; Read stores
\* no more, and as many as it returns.
IOContract ==
    returned = "yes" =>
        /\ call.name = "Write" /\ call.arg3 > 0 =>
             output = [k \in 1..call.arg2 |-> mem[call.arg1 + k - 1]]
        /\ call.name = "Read" =>
             /\ num <= call.arg2
             /\ \A k \in 1..num : mem[call.arg1 + k - 1] = before.input[k]
             /\ \A a \in Addresses :
                   a \notin call.arg1..(call.arg1 + call.arg2 - 1) => mem[a] = before.mem[a]

=============================================================================
