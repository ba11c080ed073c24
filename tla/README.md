# A TLA+ model of Nachos 3.4 (shullaw/nachos3)

Nachos is a teaching operating system: a kernel in C++ that runs, together with a
simulated MIPS machine and its devices, inside one UNIX process. This directory
holds TLA+ modules for its parts, TLC runs that check them on small instances and
TLAPS proofs about its core (threads, semaphores, the synchronous disk, processes,
paging, the file system, the interrupt queue, the console, the network) for instances
of any size. `PROJECT.json` lists the
components, the source lines behind every definition, the runs, one mutation of
the code's model per property that the property detects, the hazards and the
theorems. Paths below are relative to `src/nachos-3.4/code`.

## The system and its parts

| Part | Source | Module | State | Operations |
|---|---|---|---|---|
| Threads and scheduler | `threads/thread.cc`, `scheduler.cc` | `Threads` | status of each thread, ready list, current thread, thread to be destroyed | Fork, Yield, Sleep, Finish, ReadyToRun, Run, interrupts between instructions |
| Semaphores | `threads/synch.cc` | `Semaphores` | value and queue | P, V, V from a handler |
| Interrupt simulation, timer | `machine/interrupt.cc`, `timer.cc` | `Interrupts` | pending list, level, mode, yieldOnReturn | SetLevel, OneTick, CheckIfDue, Idle, Schedule, Halt |
| Disk | `machine/disk.cc` | `Disk` | head, track buffer, clock, request | ReadRequest, WriteRequest, ComputeLatency, HandleInterrupt |
| Console, ConsoleTest | `machine/console.cc`, `userprog/progtest.cc` | `Console` | input, incoming character, putBusy, two semaphores | CheckCharAvail, WriteDone, GetChar, PutChar |
| Processor | `machine/mipssim.cc`, `translate.cc` | `Mips` | registers, memory, delayed load | OneInstruction, exceptions, page faults |
| Synchronous disk | `filesys/synchdisk.cc` | `SynchDisk` | the above for one disk | ReadSector, WriteSector, RequestDone |
| User processes | `userprog/exception.cc`, `thread.cc` | `Processes` | parents, ids, active threads, registers | Exec, Join, Yield, Exit, Halt, time slices |
| Demand paging | `userprog/addrspace.cc`, `exception.cc`, `bitmap.cc` | `Paging` | page tables, frames, inverted page table, swap files | AddrSpace, ~AddrSpace, page fault, memory access, Exit |
| File system, directory, headers | `filesys/filesys.cc`, `directory.cc`, `filehdr.cc` | `FileSystem` | free map, directory, sectors, open files | Create, Remove, Open, WriteAt, restart after an exit |
| Open files | `filesys/openfile.cc` | `OpenFile` | sectors, header, seek position | Read, Write, Seek |
| Lists | `threads/list.cc` | `Lists` | cells, first, last, size | Append, Prepend, Remove, SortedInsert, SortedRemove |
| Stand-alone interpreter | `bin/execute.c` | `Simulator` | a second processor beside `Mips` | runprogram |
| Context switch | `threads/switch.c`, `switch.h`, `thread.cc` | `ContextSwitch` | host registers, stacks, saved registers | each instruction of SWITCH and ThreadRoot, StackAllocate |
| Read and Write | `userprog/exception.cc` | `UserIO` | pages in memory, user bytes, kernel buffer | SC_Read, SC_Write, SRead, SWrite |
| Executables | `bin/coff2noff.c`, `coff2flat.c`, `userprog/addrspace.cc` | `Executables` | object file, converted file, loaded image | both converters, SwapHeader, the loader |
| Bitmap | `userprog/bitmap.cc` | `BitMap` | packed words | Mark, Clear, Test, Find, NumClear, FetchFrom, WriteBack, the constructor |
| File system tests | `filesys/fstest.cc` | `FileTest` | `OpenFile` and a UNIX file | Copy, Print, PerformanceTest |
| Startup and shutdown | `threads/system.cc`, `main.cc` | `Startup` | command line, global objects | Initialize, main, Cleanup |
| Stacks | `c++example/inheritstack.cc`, `list.cc` | `Stacks` | array and cells | Push, Pop, Full, Empty |
| Network, post office, MailTest | `machine/network.cc`, `network/post.cc`, `nettest.cc` | `PostOffice`, `MailTest` | sockets, one-packet buffer, mailboxes, semaphores | Send, Receive, CheckPktAvail, SendDone, PostalDelivery |

Two modules say what a part promises: `AbstractSemaphore` (an atomic counter with
waiting threads) and `AbstractList` (a sequence). `Semaphores` and `Lists` are
shown to implement them.

How the parts interact. There is one processor. Threads lose it only by calling
the scheduler, or in `Interrupt::OneTick`, which runs after interrupts are
re-enabled and after every user instruction; interrupt handlers run only there
and in `Interrupt::Idle`. So code with interrupts disabled is atomic, and this is
the granularity of all actions. `Semaphores` EXTENDS `Threads` and uses its
actions (ReadyToRun, Block, Run); `SynchDisk` EXTENDS `Semaphores`; `Processes`
EXTENDS `Threads`; `MailTest` EXTENDS `PostOffice`; `Simulator` EXTENDS `Mips` and
runs in step with it; `FileTest` EXTENDS `OpenFile`. The others stand alone, and take
each other's results at the level of abstraction their source needs: `FileSystem`
and `Paging` use a bitmap as a set, which `BitMap` shows it to be; `Threads` takes
SWITCH as the exchange of the running thread, which `ContextSwitch` shows it to be
on three machines; `UserIO` takes a page fault as "the page is there afterwards".

`Lock` and `Condition` are placeholders in this repository (`threads/synch.cc:98`):
Acquire and Release do nothing and `Condition::Wait` is `ASSERT(FALSE)`. The
models of their users have exactly this behaviour.

## How state and actions correspond to the code

* **Threads.** `pc[t]` says where a thread is between two atomic sections: not
  forked, at `ThreadRoot`, in its code, returning from OneTick, asleep in Sleep,
  woken, or in Finish. `Run` has the deletion of the carcass; `DELETED` is a
  deleted Thread object. Handlers may make a blocked thread ready, request a
  yield, or do neither.
* **Semaphores.** `PLoop` is the body of P, entered again by `PAgain` after each
  wakeup: V increments value and wakes a thread, and another thread may take the
  unit first. `io[s]` counts device requests whose handler will call V.
* **Interrupts.** `pending` holds times relative to now, so the state space is
  finite without a bound on the clock. `SortedInsert` goes by the place that the loop
  of `List::SortedInsert` stops at. `at` is the point reached inside OneTick or
  Idle; CheckIfDue is `Callable` and `CallHandler`, including the special case of
  the timer when nothing else is pending.
* **Disk.** Time is absolute up to `MaxTime`, because latency depends on the phase
  of the rotation. `request` records what a request was promised.
* **Console.** Polling, the one-character buffer and the semaphores of ConsoleTest;
  end of file appears as in `PollFile`.
* **Mips.** Instructions are records; words have `WordBits` bits. The interpreter
  is compared with `ideal`, a processor without delayed loads. Decoding of bits
  is left out; the opcode tables are the sets of operations.
* **Processes.** Adds to `Threads` the table of active threads, parents set by
  Join, the registers of the machine and the saved ones. `fresh` threads have not
  yet run `processCreator`.
* **Paging.** A frame holds (process, page, value). Failed assertions and the end of
  Nachos are states. The page fault handler branches on `virtualOption` and on `FIFO`
  (`exception.cc:330` on), but the sources declare neither (`FIFO` is commented out
  at `exception.cc:37`) and `Initialize` reads no `-V`. The model takes them as what the
  project's documents call the `-V` option, 0, 1 or 2, chosen in Init and fixed.
* **FileSystem.** An operation computes what it has to write (`pending`) and
  `Flush` writes one sector at a time; `Restart` may come between any two. A Create
  that fails is an action too: it changes its copies of the map and of the directory
  and writes nothing (`FailedCreateWrites`). `was` and `will` are histories: the file of
  each name before and after the operation in progress, by what was called, not by
  what is on the disk.
* **OpenFile.** ReadAt and WriteAt by the byte, through the buffer of whole
  sectors, with its uninitialized part.
* **Lists.** Cells with next pointers, freed when removed. `counted` remembers
  whether only operations that maintain `size` were used.
* **ContextSwitch.** One step is one instruction of SWITCH. Register contents are
  tokens (whose value it is), so a lost or mixed-up register shows. The calling
  convention of each machine says which registers compiled code may leave changed.
* **Simulator.** `bin/execute.c` and `Mips` execute the same program together; where
  C leaves the result to the host, or the two are known to differ (`Differs`), the
  comparison stops.
* **UserIO.** The copying is byte by byte. A failed ReadMem or WriteMem brings its page
  in; SC_Write then repeats the access and SRead does not. A call of Write has its
  size, which the code does not use. What is written fits the 500 bytes of `ch`.
* **Executables.** A byte is (section, offset). The error paths of coff2noff are
  states. `Junk` is a byte that nobody has set; the loader's buffer holds that, or zeros.
* **BitMap, Stacks, FileTest.** Packed words with arbitrary bits behind the last one;
  two implementations of one abstract stack given the same calls; chunks that do
  not divide a sector.
* **Startup.** The options of a build are sequences of words. Initialize and main read
  them apart, each stepping over the arguments of the flags it knows. The global
  objects are constructed in order, with device interrupts from the moment that
  interrupts are enabled. `-c` ends Nachos; `-x` does if the program can be opened, and
  otherwise main goes on with the next option (`progtest.cc:29`), although the comment at
  `main.cc:101` says that StartProcess never returns.
* **PostOffice, MailTest.** The network loses any packet; `SendToSocket` aborts
  when the other machine is gone; Receive on an empty box aborts (Condition).

## Hard behaviours, and the properties aimed at them

Threads: a thread must not be on the ready list twice, deleted while it runs on its
own stack, or run after Finish (`SchedulerInv`, `DeletedFromOtherStack`,
`FinishedStaysFinished`); the timer's yield request must not leak to a later
interrupt (`YieldRequestLocal`). Semaphores: lost wakeups, a unit stolen between V
and the woken thread (`NoLostWakeup`, `QueuesExact`, `AtomicSemaphore`).
Interrupts: polls lost or doubled, overdue devices, halting too early
(`PendingExact`, `RequestAnswered`). Disk: a sector served from the track buffer
before the head has passed it (`LatencyRight`). Synchronous disk: a completion too
many or too few (`RequestsAccounted`), a second request (`OneClientSafe`).
Processes: Join racing Exit, wrong registers after a switch, a forgotten carcass
(`ParentAsleep`, `OwnRegisters`, `ProcessesKeepScheduler`). Paging: the inverted page
table going stale (`PagingInv`, `PrivateUntilExit`). File system: exit between two
writes, stale headers, a Create that fails half-way (`CrashKeepsFiles`, `ContentsKept`,
`Consistent`). Open files: alignment at
both ends of a request (`BytesRight`, `CopyShown`). Mail: overwritten buffer,
mismatched semaphores, a lost packet (`MailInOrder`, `PostInv`, `EndsRight`).
Processor: delayed loads across branches and faults (`DelayInvisible`), carries and
signs (`ArithmeticExact`). Context switch: a register used before it is saved
(`ContextKept`). Read and Write: a page fault in the middle of a copy
(`CopiesRight`). Loading: a segment in the wrong place (`ImageRight`). Startup: a
constructor that uses what is not there yet, two readings of one command line
(`StartsRight`). The full list, with lines, is `hazards` in
`PROJECT.json`; a hazard without a property says why.

## Runs

| Run | Instance | What it shows |
|---|---|---|
| `semaphores` | 3 threads, 2 semaphores, values to 2, a device each, time slicing | The scheduler's invariant, safe deletion, no starvation of ready threads; no lost wakeup; every step is one `Threads` allows; P and V implement an atomic semaphore. |
| `devices` | a random timer, 2 pollers, 2 requesters; 4 typed characters; 2 machines with MailTest, or 2 clients each and 3 sends | Pending list sorted, polls neither lost nor doubled, only the timer ever overdue, every request answered unless the machine halts; the echo complete and ordered; mail once and in order, Send returns even if its packet is lost, halting means both messages were read. |
| `machine` | 3 processes of 1, 2, 2 pages on 3 frames, any `-V`; disk of 3 tracks of 4 sectors; all 3-instruction programs over a core set on 8-bit machines, all operands of the multiplier; 3 host threads on each of 3 hosts; object files of 5 sections; user memory of 5 bytes in pages of 2 | The inverted page table is right about frames in use, memory is private until a process exits; disk latency is physical; delayed loads and page faults are invisible, the multiplier and the divider are exact, and both interpreters agree but for the operands listed in `OperandsDiffer`; SWITCH keeps every context; the initialized bytes of a program arrive in memory as linked; Read and Write copy what their code says. |
| `synchdisk` | any subset of 4 threads uses the disk | Requests and completions match; a single user never meets a busy disk and always returns. |
| `processes` | 3 processes | The scheduler's invariant survives Join and Exit; processes run with their own registers; Join returns. |
| `sequential` | 8 sectors, 2 names, 3 files of 0 or 2 sectors; open files of 0 to 7 bytes in sectors of 3; lists of 3 cells; stacks of 3; 4 bits in words of 3; up to 2 options of each of 4 builds | Exact free map; after one crash each name has its file of before or after the interrupted operation, readable and with its contents; ReadAt and WriteAt agree with an array of bytes, and `-p` shows what `-cp` copied; the list implements a sequence, both stacks a stack, the bitmap a set; startup finds what it uses. |
| `processes_double_join` | 4 processes | Violated: a second Join of one process overwrites the first joiner's entry, which nobody wakes. |
| `paging_shared` | as `machine` | Violated: `~AddrSpace` clears the bits of all frames, so frames of live processes are handed out again. |
| `interpreters` | as `machine` | Violated: OR in Nachos ignores its second operand, SRL and SRLV shift in the sign; MULT and MULTU in `bin/execute.c` lose carries into HI. |
| `uninitialized_data` | as `machine` | Violated: the loader does not clear `.bss`, and coff2noff accepts `.sbss` and `.bss` only with a gap between them. |
| `file_size` | as `sequential`, sizes to 3 | Violated: Create accepts a file with more sectors than a header holds. |
| `io_contract` | as `machine` | Violated: Write ignores its size, Read from the keyboard stores up to two bytes too many, and counts a byte that was dropped by a page fault. |

`devices`, `machine` and `sequential` each check several independent parts: a
variable chosen in the initial state (`device`, `part`) selects the part that moves,
and each property is about its part. `MCDevices` EXTENDS `MailTest` and has
`Interrupts` and `Console` as instances, so that the proofs are about the properties
the run checks. The last six runs are disagreements between the
code and a statement of the repository, which `findings` quotes.

Four observations that no run states. With all frames in use, the options `-V 1` and `-V 2`
choose a victim and evict nothing, so the faulting process repeats its fault for
ever. `bin/execute.c` extends the operand of ANDI, ORI and XORI with its sign, and Nachos
does not; `Differs` lists this and the other instructions after which the two are not
compared. A thread that writes to a file after its removal damages the files that own
the sectors by then; `stale` excludes it from the file system's properties. In the network build Initialize and main disagree on the arguments of a flag, so
`StartsRight` says of that build only that its constructors find what they use.

Why the bounds are enough. Three threads give a running thread beside a ready, a blocked
or a finished one, and two waiters with a third thread that steals the unit: the races
on a semaphore. That any program may block and wake threads in other ways is covered by
the proofs about `Threads`, for any number of threads. The timer's delays lie around those of the polls and of the
requests, so each order of due times occurs, ties included. Three tracks
and four sectors give seeks of length 0, 1 and 2 and every relative rotation;
`MaxTime` covers several rotations after the longest request. Three instructions
are a load, its delay slot and a use. Three frames are fewer than the five pages
wanted. Three host threads give a switch to a new thread, one back to an old one and
one between two old ones; the main thread switches from two depths of its stack.
Object files have every combination of empty and non-empty sections, a gap, and
a file that was cut short. Five bytes in pages of two are a string over three pages,
the last one partly used. Files of no and of two data sectors, three in all, fill the disk of eight sectors, make
Create fail, and reuse freed sectors; the two names are interchangeable, so TLC takes them
as symmetric. Words of up to four characters are longer and shorter than the sizes read. Sectors of three bytes have requests that are unaligned at both ends
within one sector, and seven bytes leave a partial last sector. Four bits in words
of three leave unused bits in the second word. Two options are enough for one to be
taken for the argument of the other. `MaxSends`, `MaxTyped`, `MaxFiles`, `MaxWrites`,
`MaxTime`, `MaxValue`, `SizeBound`, `MaxOptions` and `StackTop` bound histories and sizes.

Fairness. The simulated processor never stops by itself (weak fairness of the
next-state action). The timer re-arms itself with a finite delay whenever it fires
and every tick advances the clock, so it keeps firing while ticks keep coming:
strong fairness of the timer's handler, and likewise of the completion of a
request. This is time slicing, Nachos's option `-rs`; without it a thread may keep
the processor for good, and the properties that need it do not hold. In `Console`
and `MailTest` weak fairness of each handler and of each thread that can run stands
for the same facts. Nothing is assumed about what programs or clients choose to do.

Deadlock is checked in every run: where the system stops for good (halted,
aborted, all done) the module has an explicit stuttering action.

## Proofs

`ThreadsProofs` proves for any set of threads (assumption: `Main` is one of them and
`NoThread` is none):

* `SchedulerSafe`: `Spec => []SchedulerInv`. The invariant is inductive as it
  stands, because it consists of four facts that need each other: types, where each
  thread may be given its status (`PlaceOK`), the ready list being exactly the
  READY threads without duplicates (`ReadyListExact`), and the carcass being a
  finished thread (`CarcassFinished`). ReadyToRun keeps the list duplicate-free only
  because its caller's thread is not READY, which is `PlaceOK`.
* `YieldStaysLocal`, `DeletionSafe`, `FinishSafe`: consequences, the latter two as
  action properties. `FinishSafe` (`FinishedStaysFinished`), like `ValuesSafe`
  below, is proved in general, so no run repeats it.

`SemaphoresProofs` proves for any finite set of threads, any semaphores and any
initial values:

* `WakeupsSafe`, `QueuesSafe`, `ValuesSafe` from the inductive invariant
  `SInv == SchedulerInv /\ STypeOK /\ QueuesExact /\ NoLostWakeup`. `NoLostWakeup`
  counts: while a queue is not empty, at least `value` threads have been woken
  and have not tested value again. V adds one to both sides; P that succeeds takes
  one from both or leaves slack; other steps leave the queue alone
  (`UndisturbedKeepsInv`).
* `ContractKept`: every step is a step of `Threads`, so all of `ThreadsProofs` holds
  for systems with semaphores. It rests on `HeadWakeable`: whoever is first in a
  queue is BLOCKED in Sleep.
* `BehavesAtomically`: `Semaphores` implements the initial states and the steps of
  `AbstractSemaphore`. A first pass through P takes a unit or begins to wait; a later
  pass ends the wait, or is a stutter because another thread was faster; V, from a
  thread or a handler, is the abstract V. A first pass is one because `QueuesExact`
  keeps threads in their code out of every P. Of `AtomicSemaphore` only its fairness
  is left to TLC.

`SynchDiskProofs` proves for any finite set of threads and any subset of them as
clients (assumptions: the disk has one semaphore, which starts at 0 and may reach 1):

* `RequestsSafe` and `OneClientNeverAborts` from `DInv`, which adds to `SInv` that the
  semaphore and the disk together hold at most one completion and exactly then one
  thread is inside (`OneInside`), and that the threads inside are those that wait in P
  (`InsideWaits`). The counting of `RequestsAccounted` is not inductive without
  them: it would allow two threads inside with two completions. The semaphore's
  part is not proved again: the lemmas of `SemaphoresProofs` about P and V are stated
  for a caller that changes `io` as it goes, as ReadSector does.

`ProcessesProofs` proves for any set of processes:

* `ProcessesSafe`, `JoinersSafe` and `RegistersSafe` from `ProcInv`. Its parts need each
  other. `Exit` puts the parent on the ready list without a test, so the list stays
  free of duplicates only because of `ParentAsleep`. No carcass is forgotten because
  none waits while a process executes user instructions (`CarcassSeen`), which rests
  on where a process that has not run `processCreator` can be (`FreshExact`): the
  timer may interrupt it before its first instruction, but nothing it does until then can
  finish. `Registers` says whose registers the machine and each Thread object hold.
  `Active` has IDs below `threadID`, so that Exec's is new.
* `WithoutThreadExact`: the loop of Finish over `activeThreads`, which reads the size
  again as it shrinks and so does not go all the way around, still removes exactly the
  finished thread.
* Steps of the thread system are not proved again: `NextKeepsSchedulerInv` of
  `ThreadsProofs` covers them, and only Exit, `processCreator` and Halt are new.

`PagingProofs` proves for any processes, programs, number of frames and `-V` option:

* `PagingSafe` and `MemoryPrivate` from `PInv`, which adds `FramesKnown` (while no
  process has exited, bitmap and inverted page table know of every mapped frame) and
  `Untouched` (a page that is not in memory has never been written, since pages
  are never evicted). Without the first a free frame could be mapped; without
  the second the page read from the swap file could be old.
* `SharingNeedsExit`: two pages share a frame only after some process has exited. With
  the run `paging_shared`, the destructor is the only cause.

`FileSystemProofs` proves for any disk of more than four sectors, any directory,
names, sizes and bound on open files:

* `MapStaysExact`, `CrashesKeepFiles` and `FilesKeepContents` (`Consistent`,
  `CrashKeepsFiles`, `ContentsKept`) from `IInv`. These speak of the state between
  operations, but Create and Remove write sector by sector, so `Phase` says of each
  point in between what is still to be written and that all is in order
  (`Steady`) once it is, with the files that the completed operations say (`will`).
  CrashKeepsFiles follows because `Found` holds at every point and not only at the end:
  every name leads to a header, no sector has two uses, and the names are those of `was`
  or of `will`. Create writes the header first, into a sector no file owns; the one write
  of the directory takes `was` to `will`; `CrashInv` keeps this for the disk that an exit
  leaves. A failed Create writes nothing, so nothing is to be shown for it. Contents need `HeadersInv`: a header is made once and
  then only copied, so the headers of open files agree with those on disk.
* The sectors that BitMap::Find hands to Create and Allocate, one after the other, are
  shown to be free and distinct (`FoundSectors`), which is all that the invariant needs of
  them.

`MailTestProofs` proves for any machines, mailboxes, clients and number of sends
(`MailAssumption`: mailboxes 0 and 1 exist and there is another machine to send to):

* `PostSafe` and `MailDelivered` (`PostInv`, `MailInOrder`). A packet is in a socket,
  in the one-packet buffer, in a mailbox, or taken out. The invariant says that these
  four places follow each other in the sending order of each sender (`OrderInv`), that a packet is
  only on the way to where it was sent (`PlaceInv`) and that every packet the network
  accepted is in one of them (`KeptInv`). The order needs `PostInv`: the buffer is
  not overwritten because the device announces a packet only when it is empty.
* `MailTestEnds` (`EndsRight`) for two machines, with `EndInv`: who has passed a
  Receive has what it waited for, and an acknowledgement exists only if its sender
  has the message. So a machine that halts leaves nobody waiting for its mail.

`DevicesProofs` proves two parts of the run `devices` (`InterruptsAssumption`: delays are
positive, as are the ticks, and a user tick is no longer than a system tick;
`machine/stats.h:52` has 1 and 10):

* `PendingStaysExact` (`PendingExact`) for any devices and delays, from `QueueInv`.
  "Nothing but the timer is overdue when code runs" is not inductive: inside OneTick
  the clock has moved and CheckIfDue has not looked at every entry yet. `Late` bounds
  what can be overdue there by one system tick, and everywhere else by nothing;
  CheckIfDue only leaves when the head is not due, which with a sorted list is all
  of them. `InsertExact`, `TailExact` and `ElapseExact` say what the operations on the
  list keep: order, one entry per polling device, and no entry later than a delay its
  device has.
* `EchoStaysRight` (`EchoRight`) for any characters and any input, from `ConsoleInv`.
  Every character read is counted by `readAvail`, about to be echoed, or displayed; the
  write interrupt is outstanding or has been told exactly while the thread waits for it,
  which is why PutChar's assertion holds.

Only model-checked, and why:

* Liveness (`RequestAnswered`, `EchoedEventually`, `SendReturns`, `MailArrives`, the fairness
  of `AtomicSemaphore`, the properties of threads, processes and the synchronous disk
  that something happens): fairness and ENABLED are out of the prover's reach.
* What a loop over data computes: `ArithmeticExact` (the multiplier and dividers),
  `StructuresRight` (lists as chains of cells, bits packed into words), `BytesRight`,
  `CopyShown`, `ImageRight`, `CopiesRight`. These compare a recursive definition with a
  reference for every input, which needs induction over data.
* `StartsRight` compares finite tables, the options of four builds; TLC goes through all
  command lines up to the bound.
* `DelayInvisible`, `ContextKept` and `LatencyRight` have no proof yet. The first two need a
  case for every instruction and for every host's SWITCH; the last is arithmetic
  with products and remainders of variables, which the provers do poorly.

## Not modelled

* `Lock` and `Condition` beyond their placeholders; `SynchList` beyond mailboxes;
  `Mapcar`, which only visits.
* The system calls Create, Open, Close and Fork, which ExceptionHandler does not
  implement (they end in its default branch), and user programs, which are
  arbitrary in the models.
* The SPARC's SWITCH: the hardware spills its register windows. `switch.s` is the same
  text as `switch.c`.
* In address translation, alignment, the TLB variant, and the use and dirty bits, which
  nothing reads.
* Files of more than NumDirect sectors once they exist (`file_size` shows that they can
  be created), negative seek positions, and words longer than the kernel's buffers,
  on all of which the behaviour of the C++ is undefined; comparison of the first nine
  characters of names.
* In `bin/`, the disassembler, the dump of object files (`out.c`, `d.c`) and the host's
  part of the stand-alone interpreter: formatted output and calls of UNIX.
* The host's part of `machine/sysdep.cc`, statistics, debugging output, and ThreadTest,
  which main no longer calls and whose threads `Threads` covers.
* Wrap-around of the tick counter after 2^31 ticks.

What would come next: `OpenFile` composed with `SynchDisk`, so that the
sector transfers of two threads interleave. It needs a working Lock to be of use: with
the one of this repository the second thread trips the disk's assertion.
