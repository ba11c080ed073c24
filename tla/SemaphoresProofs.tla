-------------------------- MODULE SemaphoresProofs --------------------------
(***************************************************************************)
(* No wakeup is lost, for any threads, semaphores and initial values, and  *)
(* semaphores use the thread system as module Threads requires.            *)
(***************************************************************************)
EXTENDS Semaphores, ThreadsProofs, FiniteSetTheorems

\* The inductive invariant: the scheduler's, the exactness of the queues, and
\* the matching of units with woken threads.
SInv == SchedulerInv /\ STypeOK /\ QueuesExact /\ NoLostWakeup

\* Freshly constructed semaphores satisfy the invariants.
LEMMA SInitInv == SInit => SInv
<1> SUFFICES ASSUME SInit PROVE SInv
  OBVIOUS
<1> USE SemsAssumption, ThreadsAssumption DEF SInit
<1>1. SchedulerInv
  BY InitInv
<1>2. STypeOK
  <2>1. queue \in [Sems -> Seq(Threads)]
    BY EmptySeq
  <2> QED BY <2>1 DEF STypeOK
<1>3. QueuesExact
  <2>1. \A s \in Sems : Asleep(s) = {} /\ Awake(s) = {}
    BY DEF Asleep, Awake, Range
  <2> QED BY <2>1 DEF QueuesExact, Init
<1>4. NoLostWakeup
  BY DEF NoLostWakeup
<1> QED BY <1>1, <1>2, <1>3, <1>4 DEF SInv

\* A thread in no P is not asleep on a semaphore, and conversely.
LEMMA NotWaiting ==
  ASSUME SInv, NEW t \in Threads, pc[t] \notin {"Sleep", "Woken"}
  PROVE  waitsFor[t] = NoSem /\ \A s \in Sems : t \notin Asleep(s) /\ t \notin Awake(s)
<1>1. \A s \in Sems : t \notin Asleep(s) /\ t \notin Awake(s)
  BY DEF SInv, QueuesExact
<1>2. waitsFor[t] \in Sems \cup {NoSem}
  BY DEF SInv, STypeOK
<1> QED BY <1>1, <1>2 DEF Awake

\* The first waiter of a queue is a thread V may make ready.
LEMMA HeadWakeable ==
  ASSUME SInv, NEW s \in Sems, queue[s] # <<>>
  PROVE  /\ Head(queue[s]) \in Threads /\ Head(queue[s]) \in Asleep(s)
         /\ Wakeable(Head(queue[s]))
<1>1. queue[s] \in Seq(Threads) /\ NoDup(queue[s])
  BY DEF SInv, STypeOK, QueuesExact, NoDup
<1>2. Head(queue[s]) \in Threads /\ Head(queue[s]) \in Asleep(s)
  BY <1>1, RemoveHead DEF Asleep
<1> QED BY <1>2 DEF SInv, QueuesExact, Wakeable

-----------------------------------------------------------------------------
(* The contract of the thread system.                                      *)

\* Every step of the semaphores is a step of the thread system, or leaves it
\* alone; in particular V and the completion handlers only wake threads that
\* are BLOCKED in Sleep.
LEMMA StepKeepsContract == SInv /\ [SNext]_allVars => [Next]_vars
<1> SUFFICES ASSUME SInv, SNext PROVE [Next]_vars
  BY DEF allVars
<1>1. ASSUME NEW s \in Sems, P(s) \/ PAgain(s) PROVE [Next]_vars
  BY <1>1 DEF P, PAgain, PLoop, Next
<1>2. ASSUME NEW s \in Sems, V(s) PROVE [Next]_vars
  BY <1>2, HeadWakeable DEF V, VEffect, Wake, Next
<1>3. ASSUME NEW s \in Sems, HandlerV(s) PROVE Handler
  BY <1>3, HeadWakeable DEF HandlerV, VEffect, Handler
<1>4. ASSUME NEW s \in Sems, StartIO(s) \/ CompletionInterrupt(s) PROVE [Next]_vars
  BY <1>3, <1>4 DEF StartIO, CompletionInterrupt, Interrupt, Next
<1>5. CASE SIdle
  <2>1. Handler
    BY <1>3, <1>5 DEF SIdle, Handler
  <2> QED BY <1>5, <2>1 DEF SIdle, Idle, Next
<1>6. CASE TimerInterrupt
  BY <1>6 DEF TimerInterrupt, TimerTick, Interrupt, Handler, Next
<1>7. CASE \/ \E t \in Threads : Fork(t)
           \/ Yield \/ Finish \/ Dispatch \/ IdleReturn \/ OneTickReturn \/ SHalt \/ Halted
  BY <1>7 DEF SHalt, Next
<1> QED BY <1>1, <1>2, <1>4, <1>5, <1>6, <1>7 DEF SNext

-----------------------------------------------------------------------------
(* Steps that leave the semaphores alone.                                  *)

\* How such a step may move a thread that is, or becomes, involved in P: a
\* woken one may get the processor, nothing else happens to it.
Undisturbed ==
  \A t \in Threads :
    /\ status[t] = "BLOCKED" /\ pc[t] = "Sleep" => status'[t] = "BLOCKED" /\ pc'[t] = "Sleep"
    /\ status[t] = "READY" /\ pc[t] = "Sleep" =>
          \/ status'[t] = "READY" /\ pc'[t] = "Sleep"
          \/ status'[t] = "RUNNING" /\ pc'[t] = "Woken"
    /\ status[t] = "RUNNING" /\ pc[t] = "Woken" => status'[t] = "RUNNING" /\ pc'[t] = "Woken"
    /\ pc'[t] \in {"Sleep", "Woken"} => pc[t] \in {"Sleep", "Woken"}

\* If the semaphores do not change and their threads are undisturbed, queues
\* stay exact and no wakeup is lost.
LEMMA UndisturbedKeepsInv ==
  ASSUME SInv, UNCHANGED semVars, Undisturbed
  PROVE  STypeOK' /\ QueuesExact' /\ NoLostWakeup'
<1>1. \A s \in Sems : Asleep(s)' = Asleep(s) /\ Awake(s)' = Awake(s)
  BY DEF semVars, Asleep, Awake
<1>2. STypeOK'
  BY DEF SInv, STypeOK, semVars
<1>3. NoLostWakeup'
  BY <1>1 DEF SInv, NoLostWakeup, semVars
<1>4. \A s \in Sems : Asleep(s) \subseteq Threads /\ Awake(s) \subseteq Threads
  <2>1. \A s \in Sems : queue[s] \in Seq(Threads)
    BY DEF SInv, STypeOK
  <2> QED BY <2>1, RangeOfSeq DEF Asleep, Awake
<1>5. QueuesExact'
  <2>1. ASSUME NEW s \in Sems, NEW t \in Asleep(s)
        PROVE  waitsFor'[t] = s /\ status'[t] = "BLOCKED" /\ pc'[t] = "Sleep"
    BY <1>4, <2>1 DEF SInv, QueuesExact, Undisturbed, semVars
  <2>2. ASSUME NEW s \in Sems, NEW t \in Awake(s)
        PROVE  (status'[t] = "READY" /\ pc'[t] = "Sleep")
                 \/ (status'[t] = "RUNNING" /\ pc'[t] = "Woken")
    BY <1>4, <2>2 DEF SInv, QueuesExact, Undisturbed
  <2>3. \A t \in Threads : pc'[t] \in {"Sleep", "Woken"} => waitsFor'[t] # NoSem
    BY DEF SInv, QueuesExact, Undisturbed, semVars
  <2> QED BY <1>1, <2>1, <2>2, <2>3 DEF SInv, QueuesExact, semVars
<1> QED BY <1>2, <1>3, <1>5

\* Handing over the processor disturbs nobody but the thread that gets it and,
\* when it finished, the thread that is deleted.
LEMMA RunUndisturbed ==
  ASSUME SInv, readyList # <<>>, NEW c \in Threads, NEW st \in [Threads -> ThreadStatus],
         NEW place \in [Threads -> PCs],
         \A t \in Threads \ {c} : st[t] = status[t] /\ place[t] = pc[t],
         \/ status[c] = "RUNNING" /\ pc[c] # "Woken" /\ place[c] = "Yield"
         \/ st[c] = status[c] /\ place[c] = pc[c],
         pc' = [place EXCEPT ![Head(readyList)] = ResumePoint(Head(readyList))],
         Run(Head(readyList), st, threadToBeDestroyed),
         Head(readyList) = c => place[c] = pc[c]
  PROVE  Undisturbed
<1> DEFINE next == Head(readyList)
<1>1. next \in Threads /\ status[next] = "READY" /\ pc[next] \in {"ThreadRoot", "Yield", "Sleep"}
  BY HeadIsReady DEF SInv, SchedulerInv, PlaceOK
<1>2. threadToBeDestroyed # NoThread =>
         threadToBeDestroyed \in Threads /\ pc[threadToBeDestroyed] = "Finish"
  BY DEF SInv, SchedulerInv, TypeOK, CarcassFinished
<1>3. \A t \in Threads : pc'[t] = IF t = next THEN ResumePoint(next) ELSE place[t]
  BY <1>1
<1>4. ASSUME NEW t \in Threads, t # threadToBeDestroyed
      PROVE  status'[t] = IF t = next THEN "RUNNING" ELSE st[t]
  BY <1>4 DEF Run
<1> HIDE DEF next
<1> SUFFICES ASSUME NEW t \in Threads
             PROVE
    /\ status[t] = "BLOCKED" /\ pc[t] = "Sleep" => status'[t] = "BLOCKED" /\ pc'[t] = "Sleep"
    /\ status[t] = "READY" /\ pc[t] = "Sleep" =>
          \/ status'[t] = "READY" /\ pc'[t] = "Sleep"
          \/ status'[t] = "RUNNING" /\ pc'[t] = "Woken"
    /\ status[t] = "RUNNING" /\ pc[t] = "Woken" => status'[t] = "RUNNING" /\ pc'[t] = "Woken"
    /\ pc'[t] \in {"Sleep", "Woken"} => pc[t] \in {"Sleep", "Woken"}
  BY DEF Undisturbed
<1>5. CASE t = threadToBeDestroyed
  BY <1>1, <1>2, <1>3, <1>5, ThreadsAssumption DEF SInv, SchedulerInv, PlaceOK, CarcassFinished
<1>6. CASE t = next
  BY <1>1, <1>2, <1>3, <1>4, <1>6, ThreadsAssumption DEF ResumePoint
<1>7. CASE t # next /\ t # threadToBeDestroyed
  BY <1>3, <1>4, <1>7
<1> QED BY <1>5, <1>6, <1>7

\* Thread::Yield does not disturb the threads that are in P.
LEMMA YieldBodyUndisturbed ==
  ASSUME SInv, YieldBody, pc[currentThread] \in {"code", "OneTick"}
  PROVE  Undisturbed
<1>1. /\ currentThread \in Threads /\ status[currentThread] = "RUNNING"
      /\ status \in [Threads -> ThreadStatus] /\ pc \in [Threads -> PCs]
  BY DEF SInv, SchedulerInv, TypeOK, PlaceOK, InSleep
<1>2. CASE readyList = <<>>
  BY <1>1, <1>2 DEF YieldBody, Undisturbed
<1>3. CASE readyList # <<>>
  <2> DEFINE c == currentThread
             st == [status EXCEPT ![c] = "READY"]
             place == [pc EXCEPT ![c] = "Yield"]
  <2>1. /\ st \in [Threads -> ThreadStatus] /\ place \in [Threads -> PCs] /\ place[c] = "Yield"
        /\ \A t \in Threads \ {c} : st[t] = status[t] /\ place[t] = pc[t]
    BY <1>1 DEF ThreadStatus, PCs
  <2>2. /\ pc' = [place EXCEPT ![Head(readyList)] = ResumePoint(Head(readyList))]
        /\ Run(Head(readyList), st, threadToBeDestroyed)
    BY <1>3 DEF YieldBody
  <2>3. Head(readyList) # c
    BY <1>1, <1>3, HeadIsReady DEF SInv
  <2> HIDE DEF st, place
  <2> QED BY <1>1, <1>3, <2>1, <2>2, <2>3, RunUndisturbed
<1> QED BY <1>2, <1>3

\* The steps of the thread system that are not uses of a semaphore.
LEMMA ThreadStepUndisturbed ==
  ASSUME SInv,
         \/ \E t \in Threads : Fork(t)
         \/ Yield \/ Finish \/ Dispatch \/ IdleReturn \/ OneTickReturn
         \/ TimerTick \/ Halt \/ UNCHANGED vars
  PROVE  Undisturbed
<1>0. /\ currentThread \in Threads
      /\ status \in [Threads -> ThreadStatus] /\ pc \in [Threads -> PCs]
  BY DEF SInv, SchedulerInv, TypeOK
<1>1. CASE \E t \in Threads : Fork(t)
  BY <1>0, <1>1 DEF Fork, InCode, ReadyToRun, Undisturbed, SInv, SchedulerInv, PlaceOK
<1>2. CASE Yield
  BY <1>2, YieldBodyUndisturbed DEF Yield, InCode
<1>3. CASE Finish
  BY <1>0, <1>3 DEF Finish, InCode, Undisturbed
<1>4. CASE Dispatch
  <2>1. /\ readyList # <<>> /\ Run(Head(readyList), status, threadToBeDestroyed)
        /\ pc' = [pc EXCEPT ![Head(readyList)] = ResumePoint(Head(readyList))]
    BY <1>4 DEF Dispatch
  <2> QED BY <1>0, <2>1, RunUndisturbed
<1>5. CASE OneTickReturn
  <2>1. CASE YieldBody
    BY <1>5, <2>1, YieldBodyUndisturbed DEF OneTickReturn
  <2>2. CASE pc' = [pc EXCEPT ![currentThread] = "code"] /\ UNCHANGED status
    BY <1>0, <1>5, <2>2 DEF OneTickReturn, Undisturbed
  <2> QED BY <1>5, <2>1, <2>2 DEF OneTickReturn
<1>6. CASE IdleReturn \/ TimerTick \/ Halt \/ UNCHANGED vars
  BY <1>6 DEF IdleReturn, TimerTick, TimerInterruptHandler, Halt, vars, Undisturbed
<1> QED BY <1>1, <1>2, <1>3, <1>4, <1>5, <1>6

-----------------------------------------------------------------------------
(* P and V.                                                                *)

\* One pass through P's loop, by a thread entering P or woken inside it.
LEMMA PKeepsInv ==
  ASSUME SInv, NEW s \in Sems, PLoop(s),
         io' \in [Sems -> 0..MaxValue], \A r \in Sems : value'[r] + io'[r] <= MaxValue,
         \/ pc[currentThread] = "code"
         \/ pc[currentThread] = "Woken" /\ waitsFor[currentThread] = s
  PROVE  STypeOK' /\ QueuesExact' /\ NoLostWakeup'
<1> DEFINE c == currentThread
<1>0. /\ c \in Threads /\ status[c] = "RUNNING" /\ MaxValue \in Nat
      /\ status \in [Threads -> ThreadStatus] /\ pc \in [Threads -> PCs]
      /\ waitsFor \in [Threads -> Sems \cup {NoSem}]
      /\ queue \in [Sems -> Seq(Threads)] /\ value \in [Sems -> 0..MaxValue]
      /\ io \in [Sems -> 0..MaxValue]
      /\ \A r \in Sems : value[r] + io[r] <= MaxValue
  BY SemsAssumption DEF SInv, SchedulerInv, TypeOK, PlaceOK, InSleep, STypeOK
<1>1. /\ \A r \in Sems : c \notin Asleep(r) /\ Asleep(r) \subseteq Threads
      /\ \A r \in Sems \ {s} : waitsFor[c] # r /\ c \notin Awake(r)
  <2>1. \A r \in Sems : Asleep(r) \subseteq Threads
    BY <1>0, RangeOfSeq DEF Asleep
  <2>2. CASE pc[c] = "code"
    BY <1>0, <2>1, <2>2, NotWaiting, SemsAssumption
  <2>3. CASE pc[c] = "Woken" /\ waitsFor[c] = s
    BY <1>0, <2>1, <2>3 DEF SInv, QueuesExact, Awake
  <2> QED BY <2>2, <2>3, <2>1
<1> HIDE DEF c
<1>2. CASE /\ value[s] = 0 /\ UNCHANGED value
           /\ queue' = [queue EXCEPT ![s] = Append(@, c)]
           /\ waitsFor' = [waitsFor EXCEPT ![c] = s]
           /\ status' = [status EXCEPT ![c] = "BLOCKED"]
           /\ pc' = [pc EXCEPT ![c] = "Sleep"]
  <2>1. /\ queue'[s] \in Seq(Threads) /\ NoDup(queue'[s])
        /\ Asleep(s)' = Asleep(s) \cup {c}
    <3>1. NoDup(queue[s]) /\ queue[s] \in Seq(Threads)
      BY <1>0 DEF SInv, QueuesExact, NoDup
    <3> QED BY <1>0, <1>1, <1>2, <3>1, AppendNew DEF Asleep
  <2>2. \A r \in Sems \ {s} : queue'[r] = queue[r] /\ Asleep(r)' = Asleep(r) /\ Awake(r)' = Awake(r)
    BY <1>0, <1>1, <1>2 DEF Asleep, Awake
  <2>3. Awake(s)' = Awake(s) \ {c}
    BY <1>0, <1>2, <2>1 DEF Awake
  <2>4. STypeOK'
    BY <1>0, <1>2, <2>1, <2>2 DEF STypeOK
  <2>5. QueuesExact'
    <3>1. \A r \in Sems : NoDup(queue'[r])
      BY <2>1, <2>2 DEF SInv, QueuesExact, NoDup
    <3>2. ASSUME NEW r \in Sems, NEW t \in Asleep(r)'
          PROVE  waitsFor'[t] = r /\ status'[t] = "BLOCKED" /\ pc'[t] = "Sleep"
      <4>1. CASE t = c
        <5>1. r = s
          BY <1>1, <2>2, <3>2, <4>1
        <5> QED BY <1>0, <1>2, <4>1, <5>1
      <4>2. CASE t # c
        <5>1. t \in Asleep(r) /\ t \in Threads
          BY <1>1, <2>1, <2>2, <3>2, <4>2
        <5>2. waitsFor[t] = r /\ status[t] = "BLOCKED" /\ pc[t] = "Sleep"
          BY <5>1 DEF SInv, QueuesExact
        <5> QED BY <1>0, <1>2, <4>2, <5>1, <5>2
      <4> QED BY <4>1, <4>2
    <3>3. ASSUME NEW r \in Sems, NEW t \in Awake(r)'
          PROVE  (status'[t] = "READY" /\ pc'[t] = "Sleep")
                   \/ (status'[t] = "RUNNING" /\ pc'[t] = "Woken")
      <4>1. t \in Awake(r) /\ t # c /\ t \in Threads
        BY <1>1, <2>2, <2>3, <3>3 DEF Awake
      <4> QED BY <1>0, <1>2, <4>1 DEF SInv, QueuesExact
    <3>4. \A t \in Threads : pc'[t] \in {"Sleep", "Woken"} => waitsFor'[t] # NoSem
      BY <1>0, <1>2, SemsAssumption DEF SInv, QueuesExact
    <3> QED BY <3>1, <3>2, <3>3, <3>4 DEF QueuesExact, NoDup
  <2>6. NoLostWakeup'
    <3>1. Awake(s)' \subseteq Threads
      BY <2>3 DEF Awake
    <3>2. Cardinality(Awake(s)') \in Nat
      BY <3>1, FS_Subset, FS_CardinalityType, SemsAssumption
    <3>3. value'[s] = 0
      BY <1>2
    <3> QED BY <1>2, <2>2, <3>2, <3>3 DEF SInv, NoLostWakeup
  <2> QED BY <2>4, <2>5, <2>6
<1>3. CASE /\ value[s] # 0 /\ UNCHANGED <<queue, status>>
           /\ value' = [value EXCEPT ![s] = @ - 1]
           /\ waitsFor' = [waitsFor EXCEPT ![c] = NoSem]
           /\ pc' = [pc EXCEPT ![c] = "OneTick"]
  <2>1. \A r \in Sems : Asleep(r)' = Asleep(r)
    BY <1>3 DEF Asleep
  <2>2. \A r \in Sems : Awake(r)' = Awake(r) \ {c}
    BY <1>0, <1>3, <2>1, SemsAssumption DEF Awake
  <2>3. STypeOK'
    BY <1>0, <1>3 DEF STypeOK
  <2>4. QueuesExact'
    <3>1. ASSUME NEW r \in Sems, NEW t \in Asleep(r)
          PROVE  waitsFor'[t] = r /\ status'[t] = "BLOCKED" /\ pc'[t] = "Sleep"
      BY <1>0, <1>1, <1>3, <3>1 DEF SInv, QueuesExact
    <3>2. ASSUME NEW r \in Sems, NEW t \in Awake(r)'
          PROVE  (status'[t] = "READY" /\ pc'[t] = "Sleep")
                   \/ (status'[t] = "RUNNING" /\ pc'[t] = "Woken")
      <4>1. t \in Awake(r) /\ t # c /\ t \in Threads
        BY <2>2, <3>2 DEF Awake
      <4> QED BY <1>0, <1>3, <4>1 DEF SInv, QueuesExact
    <3>3. \A t \in Threads : pc'[t] \in {"Sleep", "Woken"} => waitsFor'[t] # NoSem
      BY <1>0, <1>3 DEF SInv, QueuesExact
    <3> QED BY <1>3, <2>1, <3>1, <3>2, <3>3 DEF SInv, QueuesExact
  <2>5. NoLostWakeup'
    <3> SUFFICES ASSUME NEW r \in Sems, queue[r] # <<>>
                 PROVE  Cardinality(Awake(r)') >= value'[r]
      BY <1>3 DEF NoLostWakeup
    <3>1. Cardinality(Awake(r)) >= value[r]
      BY DEF SInv, NoLostWakeup
    <3>2. IsFiniteSet(Awake(r)) /\ Cardinality(Awake(r)) \in Nat
      BY FS_Subset, FS_CardinalityType, SemsAssumption DEF Awake
    <3>3. CASE r = s
      <4>1. /\ Cardinality(Awake(s) \ {c}) \in Nat
            /\ Cardinality(Awake(s) \ {c}) >= Cardinality(Awake(s)) - 1
        <5>1. /\ IsFiniteSet(Awake(s) \ {c})
              /\ Cardinality(Awake(s) \ {c}) =
                   IF c \in Awake(s) THEN Cardinality(Awake(s)) - 1 ELSE Cardinality(Awake(s))
          BY <3>2, <3>3, FS_RemoveElement
        <5>2. Cardinality(Awake(s) \ {c}) \in Nat
          BY <5>1, FS_CardinalityType
        <5> QED BY <3>2, <3>3, <5>1, <5>2
      <4>2. value'[s] = value[s] - 1 /\ value[s] \in Nat
        BY <1>0, <1>3
      <4>3. Awake(s)' = Awake(s) \ {c}
        BY <2>2
      <4> QED BY <3>1, <3>2, <3>3, <4>1, <4>2, <4>3
    <3>4. CASE r # s
      <4>1. Awake(r)' = Awake(r)
        <5>1. c \notin Awake(r)
          BY <1>1, <3>4
        <5>2. Awake(r)' = Awake(r) \ {c}
          BY <2>2
        <5> QED BY <5>1, <5>2
      <4>2. value'[r] = value[r]
        BY <1>0, <1>3, <3>4
      <4> QED BY <3>1, <4>1, <4>2
    <3> QED BY <3>3, <3>4
  <2> QED BY <2>3, <2>4, <2>5
<1> QED BY <1>2, <1>3 DEF PLoop, Block, Critical, c

\* The effect of V, made by a thread (which leaves its code for OneTick) or by
\* a completion handler (which leaves every pc alone).
VStep(s) ==
  /\ UNCHANGED waitsFor
  /\ value' = [value EXCEPT ![s] = @ + 1]
  /\ \/ value[s] + io[s] < MaxValue /\ io' = io
     \/ io[s] > 0 /\ io' = [io EXCEPT ![s] = @ - 1]
  /\ \/ pc' = pc
     \/ pc[currentThread] = "code" /\ pc' = [pc EXCEPT ![currentThread] = "OneTick"]
  /\ \/ /\ queue[s] # <<>> /\ queue' = [queue EXCEPT ![s] = Tail(@)]
        /\ status' = [status EXCEPT ![Head(queue[s])] = "READY"]
     \/ queue[s] = <<>> /\ UNCHANGED <<queue, status>>

\* A V, by a thread or by an interrupt handler, preserves the invariant.
LEMMA VKeepsInv ==
  ASSUME SInv, NEW s \in Sems, VStep(s)
  PROVE  STypeOK' /\ QueuesExact' /\ NoLostWakeup'
<1>0. /\ currentThread \in Threads /\ MaxValue \in Nat
      /\ status \in [Threads -> ThreadStatus] /\ pc \in [Threads -> PCs]
      /\ waitsFor \in [Threads -> Sems \cup {NoSem}]
      /\ queue \in [Sems -> Seq(Threads)] /\ value \in [Sems -> 0..MaxValue]
      /\ io \in [Sems -> 0..MaxValue]
      /\ \A r \in Sems : value[r] + io[r] <= MaxValue
  BY SemsAssumption DEF SInv, SchedulerInv, TypeOK, STypeOK
<1> USE DEF VStep
<1>1. \A r \in Sems : Asleep(r) \subseteq Threads /\ Awake(r) \subseteq Threads
  BY <1>0, RangeOfSeq DEF Asleep, Awake
<1>2. /\ value' \in [Sems -> 0..MaxValue] /\ io' \in [Sems -> 0..MaxValue]
      /\ \A r \in Sems : value'[r] + io'[r] <= MaxValue
  <2>1. /\ value[s] \in 0..MaxValue /\ io[s] \in 0..MaxValue
        /\ value[s] + io[s] <= MaxValue
    BY <1>0
  <2>2. /\ value' = [value EXCEPT ![s] = value[s] + 1]
        /\ \/ value[s] + io[s] < MaxValue /\ io' = io
           \/ io[s] > 0 /\ io' = [io EXCEPT ![s] = io[s] - 1]
    OBVIOUS
  <2> HIDE DEF VStep
  <2>3. CASE value[s] + io[s] < MaxValue /\ io' = io
    BY <1>0, <2>1, <2>2, <2>3
  <2>4. CASE io[s] > 0 /\ io' = [io EXCEPT ![s] = io[s] - 1]
    <3>1. value[s] + 1 \in 0..MaxValue /\ io[s] - 1 \in 0..MaxValue
      BY <1>0, <2>1, <2>4
    <3> QED BY <1>0, <2>1, <2>2, <2>4, <3>1
  <2> QED BY <2>2, <2>3, <2>4
<1>3. \A t \in Threads : pc[t] \in {"Sleep", "Woken"} <=> pc'[t] \in {"Sleep", "Woken"}
  BY <1>0
<1>4. \A t \in Threads : pc[t] \in {"Sleep", "Woken"} => pc'[t] = pc[t]
  BY <1>0
<1>5. CASE queue[s] = <<>> /\ UNCHANGED <<queue, status>>
  <2>1. \A r \in Sems : Asleep(r)' = Asleep(r) /\ Awake(r)' = Awake(r)
    BY <1>5 DEF Asleep, Awake
  <2>2. STypeOK'
    BY <1>0, <1>2, <1>5 DEF STypeOK
  <2>3. QueuesExact'
    <3>1. ASSUME NEW r \in Sems, NEW t \in Asleep(r)
          PROVE  waitsFor'[t] = r /\ status'[t] = "BLOCKED" /\ pc'[t] = "Sleep"
      BY <1>1, <1>4, <1>5, <3>1 DEF SInv, QueuesExact
    <3>2. ASSUME NEW r \in Sems, NEW t \in Awake(r)
          PROVE  (status'[t] = "READY" /\ pc'[t] = "Sleep")
                   \/ (status'[t] = "RUNNING" /\ pc'[t] = "Woken")
      BY <1>1, <1>4, <1>5, <3>2 DEF SInv, QueuesExact
    <3> QED BY <1>3, <1>5, <2>1, <3>1, <3>2 DEF SInv, QueuesExact
  <2>4. NoLostWakeup'
    BY <1>0, <1>5, <2>1 DEF SInv, NoLostWakeup
  <2> QED BY <2>2, <2>3, <2>4
<1>6. CASE /\ queue[s] # <<>> /\ queue' = [queue EXCEPT ![s] = Tail(@)]
           /\ status' = [status EXCEPT ![Head(queue[s])] = "READY"]
  <2> DEFINE w == Head(queue[s])
  <2>1. /\ w \in Threads /\ w \in Asleep(s) /\ pc[w] = "Sleep" /\ waitsFor[w] = s
    BY <1>6, HeadWakeable DEF SInv, QueuesExact
  <2>2. /\ queue'[s] \in Seq(Threads) /\ NoDup(queue'[s])
        /\ Asleep(s)' = Asleep(s) \ {w}
    <3>1. NoDup(queue[s]) /\ queue[s] \in Seq(Threads)
      BY <1>0 DEF SInv, QueuesExact, NoDup
    <3> QED BY <1>0, <1>6, <3>1, RemoveHead DEF Asleep
  <2> HIDE DEF w
  <2>3. \A r \in Sems \ {s} : queue'[r] = queue[r] /\ Asleep(r)' = Asleep(r) /\ Awake(r)' = Awake(r)
    BY <1>0, <1>6 DEF Asleep, Awake
  <2>4. Awake(s)' = Awake(s) \cup {w} /\ w \notin Awake(s)
    BY <2>1, <2>2 DEF Awake
  <2>5. /\ status'[w] = "READY" /\ pc'[w] = "Sleep"
        /\ \A t \in Threads \ {w} : status'[t] = status[t]
    BY <1>0, <1>4, <1>6, <2>1 DEF w
  <2>6. \A r \in Sems \ {s} : w \notin Asleep(r)
    BY <2>1 DEF SInv, QueuesExact
  <2>7. STypeOK'
    BY <1>0, <1>2, <1>6, <2>2, <2>3 DEF STypeOK
  <2>8. QueuesExact'
    <3>1. \A r \in Sems : NoDup(queue'[r])
      BY <2>2, <2>3 DEF SInv, QueuesExact, NoDup
    <3>2. ASSUME NEW r \in Sems, NEW t \in Asleep(r)'
          PROVE  waitsFor'[t] = r /\ status'[t] = "BLOCKED" /\ pc'[t] = "Sleep"
      <4>1. t \in Asleep(r) /\ t # w /\ t \in Threads
        BY <1>1, <2>2, <2>3, <2>6, <3>2
      <4> QED BY <1>4, <2>5, <4>1 DEF SInv, QueuesExact
    <3>3. ASSUME NEW r \in Sems, NEW t \in Awake(r)'
          PROVE  (status'[t] = "READY" /\ pc'[t] = "Sleep")
                   \/ (status'[t] = "RUNNING" /\ pc'[t] = "Woken")
      <4>1. CASE t = w
        BY <2>5, <4>1
      <4>2. CASE t # w
        <5>1. t \in Awake(r) /\ t \in Threads
          BY <1>1, <2>3, <2>4, <3>3, <4>2
        <5> QED BY <1>4, <2>5, <4>2, <5>1 DEF SInv, QueuesExact
      <4> QED BY <4>1, <4>2
    <3>4. \A t \in Threads : pc'[t] \in {"Sleep", "Woken"} => waitsFor'[t] # NoSem
      BY <1>3 DEF SInv, QueuesExact
    <3> QED BY <3>1, <3>2, <3>3, <3>4 DEF QueuesExact, NoDup
  <2>9. NoLostWakeup'
    <3> SUFFICES ASSUME NEW r \in Sems, queue'[r] # <<>>
                 PROVE  Cardinality(Awake(r)') >= value'[r]
      BY DEF NoLostWakeup
    <3>1. CASE r # s
      BY <1>0, <2>3, <3>1 DEF SInv, NoLostWakeup
    <3>2. CASE r = s
      <4>1. Cardinality(Awake(s)) >= value[s]
        BY <1>6 DEF SInv, NoLostWakeup
      <4>2. IsFiniteSet(Awake(s)) /\ Cardinality(Awake(s)) \in Nat
        BY <1>1, FS_Subset, FS_CardinalityType, SemsAssumption
      <4>3. Cardinality(Awake(s) \cup {w}) = Cardinality(Awake(s)) + 1
        BY <2>4, <4>2, FS_AddElement
      <4>4. Awake(s)' = Awake(s) \cup {w}
        BY <2>4
      <4>5. value'[s] = value[s] + 1 /\ value[s] \in Nat
        BY <1>0
      <4> QED BY <3>2, <4>1, <4>2, <4>3, <4>4, <4>5
    <3> QED BY <3>1, <3>2
  <2> QED BY <2>7, <2>8, <2>9
<1> QED BY <1>5, <1>6

-----------------------------------------------------------------------------
(* The results.                                                            *)

\* Every step of threads, semaphores and devices preserves the invariant.
LEMMA SNextKeepsInv == SInv /\ [SNext]_allVars => SInv'
<1> SUFFICES ASSUME SInv, [SNext]_allVars PROVE SInv'
  OBVIOUS
<1>1. SchedulerInv'
  BY StepKeepsContract, NextKeepsSchedulerInv DEF SInv
<1> SUFFICES STypeOK' /\ QueuesExact' /\ NoLostWakeup'
  BY <1>1 DEF SInv
<1>2. ASSUME NEW s \in Sems, P(s) \/ PAgain(s)
      PROVE  STypeOK' /\ QueuesExact' /\ NoLostWakeup'
  <2>1. io' = io /\ PLoop(s)
    BY <1>2 DEF P, PAgain
  <2>2. ASSUME NEW r \in Sems PROVE value'[r] + io'[r] <= MaxValue
    <3>1. /\ value \in [Sems -> 0..MaxValue] /\ value[r] \in Nat /\ value[s] \in Nat
          /\ io[r] \in Nat /\ MaxValue \in Nat /\ value[r] + io[r] <= MaxValue
      BY SemsAssumption DEF SInv, STypeOK
    <3>2. value' = value \/ value' = [value EXCEPT ![s] = value[s] - 1]
      BY <2>1 DEF PLoop
    <3>3. value'[r] = value[r] \/ value'[r] = value[r] - 1
      BY <3>1, <3>2
    <3> QED BY <2>1, <3>1, <3>3
  <2> QED BY <1>2, <2>1, <2>2, PKeepsInv DEF P, PAgain, InCode, SInv, STypeOK
<1>3. ASSUME NEW s \in Sems, V(s)
      PROVE  STypeOK' /\ QueuesExact' /\ NoLostWakeup'
  <2>1. VStep(s)
    BY <1>3 DEF V, VEffect, MakeReady, ReadyToRun, Critical, InCode, VStep
  <2> QED BY <2>1, VKeepsInv
<1>4. ASSUME NEW s \in Sems, HandlerV(s), UNCHANGED pc
      PROVE  STypeOK' /\ QueuesExact' /\ NoLostWakeup'
  <2>1. VStep(s)
    BY <1>4 DEF HandlerV, VEffect, DeviceHandler, ReadyToRun, SilentHandler, VStep
  <2> QED BY <2>1, VKeepsInv
<1>5. ASSUME NEW s \in Sems, StartIO(s)
      PROVE  STypeOK' /\ QueuesExact' /\ NoLostWakeup'
  <2>1. STypeOK'
    BY <1>5, SemsAssumption DEF StartIO, SInv, STypeOK
  <2>2. \A r \in Sems : Asleep(r)' = Asleep(r) /\ Awake(r)' = Awake(r)
    BY <1>5 DEF StartIO, Asleep, Awake
  <2>3. QueuesExact' /\ NoLostWakeup'
    BY <1>5, <2>2 DEF StartIO, vars, SInv, QueuesExact, NoLostWakeup
  <2> QED BY <2>1, <2>3
<1>6. CASE \/ (\E t \in Threads : Fork(t)) /\ UNCHANGED semVars
           \/ (Yield \/ Finish \/ Dispatch \/ IdleReturn \/ OneTickReturn) /\ UNCHANGED semVars
           \/ TimerInterrupt \/ SHalt \/ (Halted /\ UNCHANGED semVars) \/ UNCHANGED allVars
  BY <1>6, ThreadStepUndisturbed, UndisturbedKeepsInv DEF TimerInterrupt, SHalt, Halted, allVars
<1>7. CASE SIdle
  <2>1. CASE \E s \in Sems : HandlerV(s)
    BY <1>4, <1>7, <2>1 DEF SIdle
  <2>2. CASE TimerInterruptHandler /\ UNCHANGED semVars
    <3>1. Undisturbed
      BY <1>7, <2>2 DEF SIdle, TimerInterruptHandler, Undisturbed
    <3> QED BY <2>2, <3>1, UndisturbedKeepsInv
  <2> QED BY <1>7, <2>1, <2>2 DEF SIdle
<1>8. ASSUME NEW s \in Sems, CompletionInterrupt(s)
      PROVE  STypeOK' /\ QueuesExact' /\ NoLostWakeup'
  BY <1>4, <1>8 DEF CompletionInterrupt
<1> QED BY <1>2, <1>3, <1>5, <1>6, <1>7, <1>8 DEF SNext

\* The inductive invariant of the semaphores holds in every reachable state.
THEOREM SemaphoresInvariant == SSpec => []SInv
<1> QED BY SInitInv, SNextKeepsInv, PTL DEF SSpec

\* No wakeup is lost: while threads sleep in P, every unit V has put back is
\* matched by a woken thread that will look for it.
THEOREM WakeupsSafe == SSpec => []NoLostWakeup
<1>1. SInv => NoLostWakeup
  BY DEF SInv
<1> QED BY <1>1, SemaphoresInvariant, PTL

\* A thread in P is queued exactly once on the semaphore it waits for, or has
\* been woken; nobody else is queued.
THEOREM QueuesSafe == SSpec => []QueuesExact
<1>1. SInv => QueuesExact
  BY DEF SInv
<1> QED BY <1>1, SemaphoresInvariant, PTL

\* value is never negative, whatever the interleaving of P, V and handlers.
THEOREM ValuesSafe == SSpec => []STypeOK
<1>1. SInv => STypeOK
  BY DEF SInv
<1> QED BY <1>1, SemaphoresInvariant, PTL

\* The semaphores implement the thread system: they obey its contract, so all
\* that module ThreadsProofs shows of it holds of them.
THEOREM ContractKept == SSpec => ThreadContract
<1>1. SInit => Init
  BY DEF SInit
<1> QED BY <1>1, StepKeepsContract, SemaphoresInvariant, PTL DEF SSpec, Spec, ThreadContract

-----------------------------------------------------------------------------
(* The atomic semaphore.                                                   *)

\* Every pass through P's loop, every V and every handler is a step of the
\* atomic semaphore, or invisible to it: a first pass takes a unit or begins
\* to wait, a later one ends the wait or finds that another thread was faster.
LEMMA StepIsAtomic == SInv /\ [SNext]_allVars => [Abstract!ANext]_(Abstract!aVars)
<1> SUFFICES ASSUME SInv, [SNext]_allVars
             PROVE  Abstract!ANext \/ UNCHANGED <<value, waitsFor>>
  BY DEF Abstract!aVars
<1>1. /\ \A s \in Sems : value[s] \in Nat
      /\ waitsFor \in [Threads -> Sems \cup {NoSem}] /\ currentThread \in Threads
  BY SemsAssumption DEF SInv, STypeOK, SchedulerInv, TypeOK
<1>2. ASSUME NEW s \in Sems, P(s) PROVE Abstract!ANext
  <2>1. waitsFor[currentThread] = NoSem
    BY <1>1, <1>2, NotWaiting DEF P, InCode
  <2>2. CASE value[s] = 0
    <3>1. Abstract!WaitP(currentThread, s)
      BY <1>2, <2>1, <2>2 DEF P, PLoop, Abstract!WaitP
    <3> QED BY Zenon, <1>1, <3>1 DEF Abstract!ANext
  <2>3. CASE value[s] # 0
    <3>1. waitsFor' = waitsFor
      BY <1>1, <1>2, <2>1, <2>3 DEF P, PLoop
    <3>2. Abstract!TryP(s)
      BY <1>1, <1>2, <2>3, <3>1 DEF P, PLoop, Abstract!TryP
    <3> QED BY Zenon, <3>2 DEF Abstract!ANext
  <2> QED BY Zenon, <2>2, <2>3
<1>3. ASSUME NEW s \in Sems, PAgain(s) PROVE Abstract!ANext \/ UNCHANGED <<value, waitsFor>>
  <2>1. CASE value[s] = 0
    BY <1>1, <1>3, <2>1 DEF PAgain, PLoop
  <2>2. CASE value[s] # 0
    <3>1. Abstract!EndP(currentThread, s)
      BY <1>1, <1>3, <2>2 DEF PAgain, PLoop, Abstract!EndP
    <3> QED BY Zenon, <1>1, <3>1 DEF Abstract!ANext, Abstract!SomeEndP
  <2> QED BY Zenon, <2>1, <2>2
<1>4. ASSUME NEW s \in Sems, V(s) \/ HandlerV(s) PROVE Abstract!ANext
  <2>1. Abstract!AtomicV(s)
    BY Zenon, <1>4 DEF V, HandlerV, VEffect, Abstract!AtomicV
  <2> QED BY Zenon, <2>1 DEF Abstract!ANext
<1>5. ASSUME NEW s \in Sems, StartIO(s) PROVE UNCHANGED <<value, waitsFor>>
  BY Zenon, <1>5 DEF StartIO
<1>6. CASE SIdle
  BY Zenon, <1>4, <1>6 DEF SIdle, semVars
<1>7. CASE \/ (\E t \in Threads : Fork(t)) /\ UNCHANGED semVars
           \/ (Yield \/ Finish \/ Dispatch \/ IdleReturn \/ OneTickReturn) /\ UNCHANGED semVars
           \/ TimerInterrupt \/ SHalt \/ (Halted /\ UNCHANGED semVars) \/ UNCHANGED allVars
  BY Zenon, <1>7 DEF TimerInterrupt, SHalt, semVars, allVars
<1> QED BY Zenon, <1>2, <1>3, <1>4, <1>5, <1>6, <1>7 DEF SNext, CompletionInterrupt

\* Threads, handlers and devices on the detailed semaphore behave like ones
\* with an atomic P and V (synch.h), but for the fairness of AtomicSemaphore.
THEOREM BehavesAtomically ==
    SSpec => Abstract!AInit /\ [][Abstract!ANext]_(Abstract!aVars)
<1>1. SInit => Abstract!AInit
  BY DEF SInit, Abstract!AInit
<1> QED BY <1>1, StepIsAtomic, SemaphoresInvariant, PTL DEF SSpec

=============================================================================
