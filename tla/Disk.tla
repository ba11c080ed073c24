-------------------------------- MODULE Disk --------------------------------
(***************************************************************************)
(* The simulated disk (machine/disk.cc): how long a request takes, given   *)
(* the position of the head, the rotation of the platter and the track     *)
(* buffer, and when its interrupt comes.                                   *)
(*                                                                         *)
(* The platter turns by one sector every RotationTime ticks, so at time n  *)
(* the head is over sector (n \div RotationTime) % SectorsPerTrack of its  *)
(* track.  The code never computes that; the properties compare what it    *)
(* does compute with it.                                                   *)
(***************************************************************************)
EXTENDS Integers

CONSTANTS
    SectorsPerTrack,
    NumTracks,
    RotationTime,
    SeekTime,
    MaxLate, \* how long after its due time an interrupt may be called (Interrupts)
    MaxTime  \* bound on stats->totalTicks

NumSectors == SectorsPerTrack * NumTracks
Sectors == 0..(NumSectors - 1)

VARIABLES
    totalTicks,  \* stats->totalTicks
    lastSector,  \* Disk::lastSector
    bufferInit,  \* Disk::bufferInit
    active,      \* Disk::active
    request      \* the request in service: [sector, writing, from, due]

vars == <<totalTicks, lastSector, bufferInit, active, request>>

NoRequest == [sector |-> 0, writing |-> FALSE, from |-> 0, due |-> 0]

Init ==
    /\ totalTicks = 0
    /\ lastSector = 0
    /\ bufferInit = 0
    /\ active = FALSE
    /\ request = NoRequest

-----------------------------------------------------------------------------
Abs(n) == IF n < 0 THEN -n ELSE n

\* TimeToSeek's result.
Seek(newSector) ==
    Abs((newSector \div SectorsPerTrack) - (lastSector \div SectorsPerTrack)) * SeekTime

\* What TimeToSeek stores in *rotation: the rest of the sector that is passing
\* under the head when the seek ends.
Rotation(newSector) ==
    LET over == (totalTicks + Seek(newSector)) % RotationTime
    IN  IF over > 0 THEN RotationTime - over ELSE 0

ModuloDiff(to, from) ==
    (((to % SectorsPerTrack) - (from % SectorsPerTrack)) + SectorsPerTrack) % SectorsPerTrack

\* Mutant: the track buffer is taken to hold one sector more than it does.
BufferedTooEarly(newSector, timeAfter) ==
    (timeAfter - bufferInit) \div RotationTime >= ModuloDiff(newSector, bufferInit \div RotationTime)

\* The track buffer holds the sector: the head has passed it since it came to
\* this track.
Buffered(newSector, timeAfter) ==
    (timeAfter - bufferInit) \div RotationTime > ModuloDiff(newSector, bufferInit \div RotationTime)

ComputeLatency(newSector, writing) ==
    LET timeAfter == totalTicks + Seek(newSector) + Rotation(newSector)
    IN  IF ~writing /\ Seek(newSector) = 0 /\ Buffered(newSector, timeAfter)
        THEN RotationTime
        ELSE Seek(newSector) + Rotation(newSector)
               + ModuloDiff(newSector, timeAfter \div RotationTime) * RotationTime
               + RotationTime

-----------------------------------------------------------------------------
UpdateLast(newSector) ==
    /\ bufferInit' = IF Seek(newSector) # 0
                     THEN totalTicks + Seek(newSector) + Rotation(newSector)
                     ELSE bufferInit
    /\ lastSector' = newSector

\* ReadRequest and WriteRequest.
Request(newSector, writing) ==
    /\ ~active
    /\ active' = TRUE
    /\ request' = [sector |-> newSector, writing |-> writing, from |-> totalTicks,
                   due |-> totalTicks + ComputeLatency(newSector, writing)]
    /\ UpdateLast(newSector)
    /\ UNCHANGED totalTicks

HandleInterrupt ==
    /\ active
    /\ totalTicks >= request.due
    /\ active' = FALSE
    /\ request' = NoRequest
    /\ UNCHANGED <<totalTicks, lastSector, bufferInit>>

\* The clock advances (Interrupts).
Tick ==
    /\ totalTicks < MaxTime
    /\ active => totalTicks < request.due + MaxLate
    /\ totalTicks' = totalTicks + 1
    /\ UNCHANGED <<lastSector, bufferInit, active, request>>

\* The bound of the model is reached.
EndOfTime == totalTicks = MaxTime /\ UNCHANGED vars

Next ==
    \/ \E s \in Sectors, w \in BOOLEAN : Request(s, w)
    \/ HandleInterrupt
    \/ Tick
    \/ EndOfTime

Spec == Init /\ [][Next]_vars

-----------------------------------------------------------------------------
(* Properties                                                              *)

\* The sector that starts to pass under the head at time n, if any does.
Passes(sector, n) ==
    n % RotationTime = 0 /\ (n \div RotationTime) % SectorsPerTrack = sector % SectorsPerTrack

\* Types, and what the head does: it is on a track from a sector boundary on,
\* and no request is made before it got there.
TypeOK ==
    /\ totalTicks \in 0..MaxTime
    /\ lastSector \in Sectors
    /\ bufferInit \in Nat /\ bufferInit % RotationTime = 0
    /\ active \in BOOLEAN
    /\ request \in [sector : Sectors, writing : BOOLEAN, from : Nat, due : Nat]
    /\ ~active => bufferInit <= totalTicks

\* When the interrupt is due, the whole sector has passed under the head after
\* the head reached its track (ComputeLatency: "how long it will take to
\* rotate completely past newSector after that point").
SectorPassed ==
    active => \E n \in bufferInit..(request.due - RotationTime) : Passes(request.sector, n)

\* A write waits for the platter: the sector passes in full within the request.
WriteIsPhysical ==
    active /\ request.writing => /\ request.due - RotationTime >= request.from
                                 /\ Passes(request.sector, request.due - RotationTime)

\* The latency is positive, which Schedule asserts, and no request takes more
\* than the longest seek, one full turn and the transfer.
LatencyBounded ==
    active => LET latency == request.due - request.from
              IN  /\ latency > 0
                  /\ latency < (NumTracks - 1) * SeekTime + (SectorsPerTrack + 1) * RotationTime

=============================================================================
