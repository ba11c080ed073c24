---------------------------- MODULE ThreadsProofs ----------------------------
(***************************************************************************)
(* The scheduler's invariant and its consequences, for any set of threads. *)
(***************************************************************************)
EXTENDS Threads, SequenceTheorems, TLAPS

-----------------------------------------------------------------------------
(* The ready list as a queue without duplicates.                           *)

NoDup(s) == \A i, j \in 1..Len(s) : s[i] = s[j] => i = j

\* List::Append of an element that is not there keeps a list free of
\* duplicates and adds exactly that element.
LEMMA AppendNew ==
  ASSUME NEW S, NEW s \in Seq(S), NEW x \in S, x \notin Range(s), NoDup(s)
  PROVE  /\ Append(s, x) \in Seq(S)
         /\ Range(Append(s, x)) = Range(s) \cup {x}
         /\ NoDup(Append(s, x))
<1> DEFINE a == Append(s, x)
<1>1. /\ a \in Seq(S) /\ Len(a) = Len(s) + 1 /\ a[Len(s) + 1] = x
      /\ \A i \in 1..Len(s) : a[i] = s[i]
  BY AppendProperties
<1>2. Len(s) \in Nat /\ DOMAIN s = 1..Len(s) /\ DOMAIN a = 1..(Len(s) + 1)
  BY <1>1, LenProperties
<1>3. Range(a) = Range(s) \cup {x}
  BY <1>1, <1>2 DEF Range
<1>4. NoDup(a)
  BY <1>1, <1>2 DEF NoDup, Range
<1> QED BY <1>1, <1>3, <1>4

\* List::Remove from a list without duplicates takes out exactly its head.
LEMMA RemoveHead ==
  ASSUME NEW S, NEW s \in Seq(S), s # <<>>, NoDup(s)
  PROVE  /\ Head(s) \in S
         /\ Head(s) \in Range(s)
         /\ Tail(s) \in Seq(S)
         /\ Range(Tail(s)) = Range(s) \ {Head(s)}
         /\ NoDup(Tail(s))
<1>1. /\ Head(s) \in S /\ Tail(s) \in Seq(S) /\ Len(Tail(s)) = Len(s) - 1
      /\ \A i \in 1..Len(Tail(s)) : Tail(s)[i] = s[i + 1]
  BY HeadTailProperties
<1>2. /\ Len(s) \in Nat \ {0} /\ DOMAIN s = 1..Len(s) /\ DOMAIN Tail(s) = 1..(Len(s) - 1)
      /\ Head(s) = s[1]
  BY <1>1, LenProperties, EmptySeq
<1>3. Range(Tail(s)) \subseteq Range(s) \ {Head(s)}
  <2> SUFFICES ASSUME NEW i \in 1..(Len(s) - 1)
               PROVE  Tail(s)[i] \in Range(s) /\ Tail(s)[i] # Head(s)
    BY <1>2 DEF Range
  <2>1. Tail(s)[i] = s[i + 1] /\ i + 1 \in 1..Len(s) /\ i + 1 # 1
    BY <1>1, <1>2
  <2> QED BY <2>1, <1>2 DEF Range, NoDup
<1>4. Range(s) \ {Head(s)} \subseteq Range(Tail(s))
  <2> SUFFICES ASSUME NEW i \in 1..Len(s), s[i] # Head(s)
               PROVE  s[i] \in Range(Tail(s))
    BY <1>2 DEF Range
  <2>1. i - 1 \in 1..(Len(s) - 1) /\ Tail(s)[i - 1] = s[i]
    BY <1>1, <1>2
  <2> QED BY <2>1, <1>2 DEF Range
<1>5. NoDup(Tail(s))
  BY <1>1, <1>2 DEF NoDup
<1>6. Head(s) \in Range(s)
  BY <1>2 DEF Range
<1> QED BY <1>1, <1>3, <1>4, <1>5, <1>6

-----------------------------------------------------------------------------
(* Initially, and step by step.                                            *)

\* The state Initialize leaves behind satisfies the invariants.
LEMMA InitInv == Init => SchedulerInv /\ YieldRequestLocal
<1> SUFFICES ASSUME Init PROVE SchedulerInv /\ YieldRequestLocal
  OBVIOUS
<1> USE ThreadsAssumption DEF Init
<1>1. TypeOK
  <2>1. readyList \in Seq(Threads)
    BY EmptySeq
  <2>2. status \in [Threads -> ThreadStatus] /\ pc \in [Threads -> PCs]
    BY DEF ThreadStatus, PCs
  <2> QED BY <2>1, <2>2 DEF TypeOK
<1>2. PlaceOK
  BY DEF PlaceOK, InSleep
<1>3. ReadyListExact
  <2>1. Range(<<>>) = {}
    BY DEF Range
  <2> QED BY <2>1 DEF ReadyListExact
<1>4. CarcassFinished /\ YieldRequestLocal
  BY DEF CarcassFinished, YieldRequestLocal
<1> QED BY <1>1, <1>2, <1>3, <1>4 DEF SchedulerInv

\* ReadyToRun on a thread that is not READY yet keeps the ready list exact.
LEMMA ReadyToRunKeepsList ==
  ASSUME TypeOK, ReadyListExact, NEW t \in Threads, status[t] # "READY", ReadyToRun(t)
  PROVE  /\ status' \in [Threads -> ThreadStatus]
         /\ readyList' \in Seq(Threads)
         /\ ReadyListExact'
<1> USE DEF TypeOK
<1>1. t \notin Range(readyList) /\ NoDup(readyList)
  BY DEF ReadyListExact, NoDup
<1>2. /\ readyList' \in Seq(Threads) /\ NoDup(readyList')
      /\ Range(readyList') = Range(readyList) \cup {t}
  BY <1>1, AppendNew DEF ReadyToRun
<1>3. \A u \in Threads : status'[u] = IF u = t THEN "READY" ELSE status[u]
  BY DEF ReadyToRun
<1>4. status' \in [Threads -> ThreadStatus]
  BY DEF ReadyToRun, ThreadStatus
<1> QED BY <1>2, <1>3, <1>4 DEF ReadyListExact, NoDup

\* Handing the processor from a thread that is not RUNNING any more (st) to
\* the head of the ready list (rl) preserves the invariant; this is the part
\* of Yield and Sleep that both leave to Scheduler::Run.
LEMMA SwitchKeepsInv ==
  ASSUME SchedulerInv, machineStatus = "SystemMode", UNCHANGED machineStatus,
         yieldOnReturn' \in BOOLEAN,
         NEW st \in [Threads -> ThreadStatus], NEW rl \in Seq(Threads),
         NEW place \in [Threads -> PCs],
         rl # <<>>, NoDup(rl), Range(rl) = {t \in Threads : st[t] = "READY"},
         \A t \in Threads :
             /\ st[t] = "JUST_CREATED" => place[t] = "none"
             /\ st[t] # "RUNNING"
             /\ st[t] = "READY" => place[t] \in {"ThreadRoot", "Yield", "Sleep"}
             /\ st[t] = "BLOCKED" => place[t] \in {"Sleep", "Finish"}
             /\ st[t] = "DELETED" => place[t] = "Finish",
         threadToBeDestroyed # NoThread =>
             st[threadToBeDestroyed] = "BLOCKED" /\ place[threadToBeDestroyed] = "Finish",
         readyList' = Tail(rl),
         pc' = [place EXCEPT ![Head(rl)] = ResumePoint(Head(rl))],
         Run(Head(rl), st, threadToBeDestroyed)
  PROVE  SchedulerInv'
<1> DEFINE next == Head(rl)
<1>1. /\ next \in Threads /\ st[next] = "READY" /\ readyList' \in Seq(Threads)
      /\ Range(readyList') = Range(rl) \ {next} /\ NoDup(readyList')
  BY RemoveHead
<1> HIDE DEF next
<1>2. next # threadToBeDestroyed
  BY <1>1, ThreadsAssumption
<1>3. ResumePoint(next) \in {"Woken", "OneTick"}
  BY DEF ResumePoint
<1>4. /\ currentThread' = next /\ pc' = [place EXCEPT ![next] = ResumePoint(next)]
      /\ threadToBeDestroyed' \in {NoThread, threadToBeDestroyed}
      /\ status' \in [Threads -> ThreadStatus]
      /\ status'[next] = "RUNNING"
  BY <1>1, <1>2 DEF Run, next, ThreadStatus
<1>5. ASSUME NEW t \in Threads, t # next
      PROVE  /\ pc'[t] = place[t]
             /\ \/ status'[t] = st[t]
                \/ status'[t] = "DELETED" /\ t = threadToBeDestroyed
             /\ t = threadToBeDestroyed' => status'[t] = st[t]
  BY <1>1, <1>4, <1>5, ThreadsAssumption DEF Run, next
<1>6. pc'[next] \in {"Woken", "OneTick"}
  BY <1>1, <1>3, <1>4
<1>7. TypeOK'
  <2>1. pc' \in [Threads -> PCs]
    BY <1>3, <1>4 DEF PCs
  <2>2. currentThread' \in Threads /\ threadToBeDestroyed' \in Threads \cup {NoThread}
    BY <1>1, <1>4 DEF SchedulerInv, TypeOK
  <2> QED BY <1>1, <1>4, <2>1, <2>2 DEF TypeOK
<1>8. PlaceOK'
  <2> SUFFICES ASSUME NEW t \in Threads
               PROVE  /\ status'[t] = "JUST_CREATED" => pc'[t] = "none"
                      /\ status'[t] = "RUNNING" =>
                           t = next /\ pc'[t] \in {"code", "OneTick", "Woken"}
                      /\ status'[t] = "READY" => pc'[t] \in {"ThreadRoot", "Yield", "Sleep"}
                      /\ status'[t] = "BLOCKED" => pc'[t] \in {"Sleep", "Finish"}
                      /\ status'[t] = "DELETED" => pc'[t] = "Finish" /\ t # next
    BY <1>4 DEF PlaceOK
  <2>1. CASE t = next
    BY <2>1, <1>4, <1>6
  <2>2. CASE t # next
    BY <2>2, <1>5, ThreadsAssumption
  <2> QED BY <2>1, <2>2
<1>9. ReadyListExact'
  <2>1. \A t \in Threads : t # next => (status'[t] = "READY" <=> st[t] = "READY")
    BY <1>5, ThreadsAssumption
  <2> QED BY <1>1, <1>4, <2>1 DEF ReadyListExact, NoDup
<1>10. CarcassFinished'
  BY <1>2, <1>4, <1>5, ThreadsAssumption DEF CarcassFinished, SchedulerInv, TypeOK
<1> QED BY <1>7, <1>8, <1>9, <1>10 DEF SchedulerInv

-----------------------------------------------------------------------------
(* The steps.                                                              *)

\* Thread::Yield, from the thread's code or from OneTick.
LEMMA YieldBodyKeepsInv ==
  ASSUME SchedulerInv, machineStatus = "SystemMode", UNCHANGED machineStatus,
         yieldOnReturn' \in BOOLEAN, pc[currentThread] \in {"code", "OneTick"}, YieldBody
  PROVE  SchedulerInv'
<1> USE DEF SchedulerInv
<1>1. currentThread \in Threads /\ status[currentThread] = "RUNNING"
  BY DEF TypeOK, PlaceOK, InSleep
<1>2. CASE readyList = <<>> /\ pc' = [pc EXCEPT ![currentThread] = "OneTick"]
           /\ UNCHANGED <<status, readyList, currentThread, threadToBeDestroyed>>
  <2>1. TypeOK'
    BY <1>2 DEF TypeOK, PCs
  <2>2. PlaceOK'
    BY <1>1, <1>2 DEF TypeOK, PlaceOK, InSleep
  <2>3. ReadyListExact'
    BY <1>2 DEF ReadyListExact
  <2>4. CarcassFinished'
    BY <1>1, <1>2 DEF TypeOK, CarcassFinished
  <2> QED BY <2>1, <2>2, <2>3, <2>4
<1>3. CASE readyList # <<>>
  <2> DEFINE c == currentThread
             st == [status EXCEPT ![c] = "READY"]
             rl == Append(readyList, c)
             place == [pc EXCEPT ![c] = "Yield"]
             next == Head(readyList)
  <2>1. c \notin Range(readyList) /\ NoDup(readyList)
    BY <1>1 DEF ReadyListExact, NoDup
  <2>2. /\ rl \in Seq(Threads) /\ NoDup(rl) /\ Range(rl) = Range(readyList) \cup {c}
    BY <1>1, <2>1, AppendNew DEF TypeOK
  <2>3. rl # <<>> /\ Head(rl) = next /\ Tail(rl) = Append(Tail(readyList), c)
    BY <1>1, <1>3, HeadTailAppend, AppendProperties DEF TypeOK
  <2>4. st \in [Threads -> ThreadStatus] /\ place \in [Threads -> PCs]
    BY <1>1 DEF TypeOK, ThreadStatus, PCs
  <2>5. Range(rl) = {t \in Threads : st[t] = "READY"}
    BY <1>1, <2>2 DEF TypeOK, ReadyListExact
  <2>6. \A t \in Threads :
             /\ st[t] = "JUST_CREATED" => place[t] = "none"
             /\ st[t] # "RUNNING"
             /\ st[t] = "READY" => place[t] \in {"ThreadRoot", "Yield", "Sleep"}
             /\ st[t] = "BLOCKED" => place[t] \in {"Sleep", "Finish"}
             /\ st[t] = "DELETED" => place[t] = "Finish"
    BY <1>1 DEF TypeOK, PlaceOK
  <2>7. threadToBeDestroyed # NoThread =>
             st[threadToBeDestroyed] = "BLOCKED" /\ place[threadToBeDestroyed] = "Finish"
    BY <1>1 DEF TypeOK, CarcassFinished
  <2>8. /\ readyList' = Tail(rl) /\ Run(Head(rl), st, threadToBeDestroyed)
        /\ pc' = [place EXCEPT ![Head(rl)] = ResumePoint(Head(rl))]
    BY <1>3, <2>3 DEF YieldBody
  <2> HIDE DEF c, st, rl, place, next
  <2> QED BY <2>2, <2>3, <2>4, <2>5, <2>6, <2>7, <2>8, SwitchKeepsInv
<1> QED BY <1>2, <1>3 DEF YieldBody

\* Waking a thread that is blocked in Sleep, by a thread or by a handler.
LEMMA WakeKeepsInv ==
  ASSUME SchedulerInv, NEW t \in Threads, Wakeable(t), ReadyToRun(t),
         pc' = pc \/ (pc[currentThread] = "code" /\ pc' = [pc EXCEPT ![currentThread] = "OneTick"]),
         UNCHANGED <<currentThread, threadToBeDestroyed>>,
         yieldOnReturn' \in BOOLEAN,
         machineStatus' = machineStatus
           \/ (machineStatus' \in {"SystemMode", "IdleMode"} /\ InSleep /\ pc' = pc)
  PROVE  SchedulerInv'
<1> USE DEF SchedulerInv
<1>1. /\ status' = [status EXCEPT ![t] = "READY"] /\ status[t] = "BLOCKED"
      /\ pc[t] = "Sleep"
  BY DEF ReadyToRun, Wakeable
<1>2. /\ status' \in [Threads -> ThreadStatus] /\ readyList' \in Seq(Threads)
      /\ ReadyListExact'
  BY <1>1, ReadyToRunKeepsList
<1>3. TypeOK'
  <2>1. pc' \in [Threads -> PCs]
    BY DEF TypeOK, PCs
  <2>2. machineStatus' \in {"SystemMode", "IdleMode", "Halted"}
    BY DEF TypeOK
  <2> QED BY <1>2, <2>1, <2>2 DEF TypeOK
<1>4. PlaceOK'
  BY <1>1 DEF TypeOK, PlaceOK, InSleep
<1>5. CarcassFinished'
  BY <1>1 DEF TypeOK, PlaceOK, CarcassFinished
<1> QED BY <1>2, <1>3, <1>4, <1>5

\* Every step of the thread system preserves the scheduler's invariant.
LEMMA NextKeepsSchedulerInv == SchedulerInv /\ [Next]_vars => SchedulerInv'
<1> SUFFICES ASSUME SchedulerInv, [Next]_vars PROVE SchedulerInv'
  OBVIOUS
<1> USE DEF SchedulerInv
<1>0. currentThread \in Threads /\ yieldOnReturn \in BOOLEAN
  BY DEF TypeOK
<1>1. ASSUME NEW t \in Threads, Fork(t) PROVE SchedulerInv'
  <2>1. /\ status[t] = "JUST_CREATED" /\ pc[currentThread] = "code" /\ t # currentThread
        /\ status' = [status EXCEPT ![t] = "READY"] /\ ReadyToRun(t)
        /\ pc' = [pc EXCEPT ![t] = "ThreadRoot", ![currentThread] = "OneTick"]
        /\ machineStatus = "SystemMode"
        /\ UNCHANGED <<currentThread, threadToBeDestroyed, yieldOnReturn, machineStatus>>
    BY <1>1 DEF Fork, InCode, ReadyToRun, TypeOK, PlaceOK
  <2>2. /\ status' \in [Threads -> ThreadStatus] /\ readyList' \in Seq(Threads)
        /\ ReadyListExact'
    BY <2>1, ReadyToRunKeepsList
  <2>3. TypeOK'
    BY <2>1, <2>2 DEF TypeOK, PCs
  <2>4. PlaceOK'
    BY <2>1 DEF TypeOK, PlaceOK, InSleep
  <2>5. CarcassFinished'
    BY <2>1 DEF TypeOK, PlaceOK, CarcassFinished
  <2> QED BY <2>2, <2>3, <2>4, <2>5
<1>2. ASSUME NEW t \in Threads, Wake(t) PROVE SchedulerInv'
  BY <1>0, <1>2, WakeKeepsInv DEF Wake, MakeReady, InCode
<1>3. CASE Yield
  BY <1>0, <1>3, YieldBodyKeepsInv DEF Yield, InCode
<1>4. CASE Critical
  <2>1. TypeOK'
    BY <1>4 DEF Critical, TypeOK, PCs
  <2>2. PlaceOK'
    BY <1>4 DEF Critical, InClient, TypeOK, PlaceOK, InSleep
  <2>3. ReadyListExact'
    BY <1>4 DEF Critical, ReadyListExact
  <2>4. CarcassFinished'
    BY <1>4 DEF Critical, InClient, TypeOK, PlaceOK, CarcassFinished
  <2> QED BY <2>1, <2>2, <2>3, <2>4
<1>5. CASE Block \/ Finish
  <2>1. /\ status[currentThread] = "RUNNING" /\ machineStatus = "SystemMode"
        /\ status' = [status EXCEPT ![currentThread] = "BLOCKED"]
        /\ UNCHANGED <<readyList, currentThread, yieldOnReturn, machineStatus>>
    BY <1>0, <1>5 DEF Block, Finish, InClient, InCode, PlaceOK, InSleep
  <2>2. \/ pc' = [pc EXCEPT ![currentThread] = "Sleep"]
              /\ threadToBeDestroyed' = threadToBeDestroyed
        \/ pc' = [pc EXCEPT ![currentThread] = "Finish"]
              /\ threadToBeDestroyed' = currentThread
    BY <1>5 DEF Block, Finish
  <2>3. TypeOK'
    BY <1>0, <2>1, <2>2 DEF TypeOK, PCs, ThreadStatus
  <2>4. PlaceOK'
    BY <1>0, <2>1, <2>2 DEF TypeOK, PlaceOK, InSleep
  <2>5. ReadyListExact'
    BY <1>0, <2>1 DEF TypeOK, ReadyListExact
  <2>6. CarcassFinished'
    BY <1>0, <2>1, <2>2 DEF TypeOK, CarcassFinished
  <2> QED BY <2>3, <2>4, <2>5, <2>6
<1>6. CASE Dispatch
  <2>1. /\ machineStatus = "SystemMode" /\ UNCHANGED machineStatus /\ yieldOnReturn' \in BOOLEAN
        /\ status[currentThread] # "RUNNING" /\ readyList # <<>>
        /\ readyList' = Tail(readyList) /\ Run(Head(readyList), status, threadToBeDestroyed)
        /\ pc' = [pc EXCEPT ![Head(readyList)] = ResumePoint(Head(readyList))]
    BY <1>0, <1>6 DEF Dispatch, InSleep
  <2>2. \A t \in Threads :
             /\ status[t] = "JUST_CREATED" => pc[t] = "none"
             /\ status[t] # "RUNNING"
             /\ status[t] = "READY" => pc[t] \in {"ThreadRoot", "Yield", "Sleep"}
             /\ status[t] = "BLOCKED" => pc[t] \in {"Sleep", "Finish"}
             /\ status[t] = "DELETED" => pc[t] = "Finish"
    BY <2>1 DEF PlaceOK
  <2>3. NoDup(readyList) /\ Range(readyList) = {t \in Threads : status[t] = "READY"}
    BY DEF ReadyListExact, NoDup
  <2>4. status \in [Threads -> ThreadStatus] /\ pc \in [Threads -> PCs] /\ readyList \in Seq(Threads)
    BY DEF TypeOK
  <2> QED BY <2>1, <2>2, <2>3, <2>4, SwitchKeepsInv DEF CarcassFinished
<1>7. CASE Interrupt \/ Idle
  <2>1. /\ UNCHANGED <<pc, currentThread, threadToBeDestroyed>> /\ Handler
        /\ machineStatus' = machineStatus \/ (machineStatus' = "IdleMode" /\ InSleep)
    BY <1>7 DEF Interrupt, Idle, Idling
  <2>2. ASSUME NEW t \in Threads, Wakeable(t), DeviceHandler(t) PROVE SchedulerInv'
    BY <1>0, <2>1, <2>2, WakeKeepsInv DEF DeviceHandler
  <2>3. CASE TimerInterruptHandler \/ SilentHandler
    <3>1. yieldOnReturn' \in BOOLEAN /\ UNCHANGED <<status, readyList>>
      BY <1>0, <2>3 DEF TimerInterruptHandler, SilentHandler
    <3>2. TypeOK'
      BY <2>1, <3>1 DEF TypeOK
    <3> QED BY <2>1, <3>1, <3>2 DEF PlaceOK, InSleep, ReadyListExact, CarcassFinished
  <2> QED BY <2>1, <2>2, <2>3 DEF Handler
<1>8. CASE IdleReturn \/ Halt
  <2>1. /\ UNCHANGED <<status, pc, readyList, currentThread, threadToBeDestroyed>>
        /\ yieldOnReturn' \in BOOLEAN /\ InSleep
        /\ machineStatus' \in {"SystemMode", "Halted"}
    BY <1>0, <1>8 DEF IdleReturn, Halt, Idling, PlaceOK
  <2>2. TypeOK'
    BY <2>1 DEF TypeOK
  <2> QED BY <2>1, <2>2 DEF PlaceOK, InSleep, ReadyListExact, CarcassFinished
<1>9. CASE OneTickReturn
  <2>1. /\ machineStatus = "SystemMode" /\ UNCHANGED machineStatus
        /\ pc[currentThread] = "OneTick" /\ yieldOnReturn' \in BOOLEAN
    BY <1>9 DEF OneTickReturn
  <2>2. CASE YieldBody
    BY <2>1, <2>2, YieldBodyKeepsInv
  <2>3. CASE /\ pc' = [pc EXCEPT ![currentThread] = "code"]
             /\ UNCHANGED <<status, readyList, currentThread, threadToBeDestroyed>>
    <3>1. TypeOK'
      BY <2>1, <2>3 DEF TypeOK, PCs
    <3>2. PlaceOK'
      BY <2>1, <2>3 DEF TypeOK, PlaceOK, InSleep
    <3>3. CarcassFinished'
      BY <2>1, <2>3 DEF TypeOK, PlaceOK, CarcassFinished
    <3> QED BY <2>3, <3>1, <3>2, <3>3 DEF ReadyListExact
  <2> QED BY <1>9, <2>2, <2>3 DEF OneTickReturn
<1>10. CASE UNCHANGED vars
  BY <1>10 DEF vars, TypeOK, PlaceOK, InSleep, ReadyListExact, CarcassFinished
<1> QED BY <1>1, <1>2, <1>3, <1>4, <1>5, <1>6, <1>7, <1>8, <1>9, <1>10 DEF Next, Halted

\* A request to yield is consumed where it was made (OneTick, Idle).
LEMMA NextKeepsYieldLocal ==
  SchedulerInv /\ YieldRequestLocal /\ [Next]_vars => YieldRequestLocal'
<1> SUFFICES ASSUME SchedulerInv, YieldRequestLocal, [Next]_vars, yieldOnReturn'
             PROVE  InHandlers'
  BY DEF YieldRequestLocal
<1> USE DEF InHandlers
<1>1. CASE Interrupt \/ Idle
  BY <1>1 DEF Interrupt, Idle
<1>2. CASE UNCHANGED vars
  BY <1>2 DEF vars, YieldRequestLocal
<1>3. CASE IdleReturn \/ OneTickReturn
  BY <1>3 DEF IdleReturn, OneTickReturn
<1>4. CASE \/ \E t \in Threads : Fork(t) \/ Wake(t)
           \/ Yield \/ Critical \/ Block \/ Finish \/ Dispatch \/ Halt
  <2>1. /\ yieldOnReturn' = yieldOnReturn /\ machineStatus = "SystemMode"
        /\ pc[currentThread] # "OneTick"
    BY <1>4 DEF Fork, Wake, MakeReady, Yield, Critical, Block, Finish, Dispatch, Halt,
                InCode, InClient, Idling, InSleep
  <2> QED BY <2>1 DEF YieldRequestLocal
<1> QED BY <1>1, <1>2, <1>3, <1>4 DEF Next, Halted

\* The head of a nonempty ready list is a READY thread.
LEMMA HeadIsReady ==
  ASSUME SchedulerInv, readyList # <<>>
  PROVE  Head(readyList) \in Threads /\ status[Head(readyList)] = "READY"
  BY RemoveHead DEF SchedulerInv, TypeOK, ReadyListExact, NoDup

\* No step moves a thread out of Finish, and only Finish moves one into it.
LEMMA FinishIsFinal ==
  ASSUME SchedulerInv, [Next]_vars, NEW t \in Threads
  PROVE  /\ pc[t] = "Finish" => pc'[t] = "Finish"
         /\ pc[t] # "Finish" /\ pc'[t] = "Finish" => status'[t] = "BLOCKED"
<1> USE DEF SchedulerInv
<1>0. currentThread \in Threads /\ pc \in [Threads -> PCs] /\ status \in [Threads -> ThreadStatus]
  BY DEF TypeOK
<1>1. ASSUME NEW u \in Threads, Fork(u) \/ Wake(u)
      PROVE  pc[t] = "Finish" <=> pc'[t] = "Finish"
  BY <1>0, <1>1 DEF Fork, Wake, MakeReady, InCode, PlaceOK
<1>2. ASSUME YieldBody, pc[currentThread] \in {"code", "OneTick"}
      PROVE  pc[t] = "Finish" <=> pc'[t] = "Finish"
  <2>1. CASE readyList = <<>>
    BY <1>0, <1>2, <2>1 DEF YieldBody
  <2>2. CASE readyList # <<>>
    <3>1. /\ Head(readyList) \in Threads /\ pc[Head(readyList)] # "Finish"
          /\ ResumePoint(Head(readyList)) # "Finish"
      BY <2>2, HeadIsReady DEF PlaceOK, ResumePoint
    <3>2. pc' = [pc EXCEPT ![currentThread] = "Yield",
                           ![Head(readyList)] = ResumePoint(Head(readyList))]
      BY <1>2, <2>2 DEF YieldBody
    <3> QED BY <1>0, <1>2, <3>1, <3>2
  <2> QED BY <2>1, <2>2
<1>3. CASE Yield
  BY <1>2, <1>3 DEF Yield, InCode
<1>4. CASE Critical \/ Block
  BY <1>0, <1>4 DEF Critical, Block, InClient
<1>5. CASE Finish
  BY <1>0, <1>5 DEF Finish, InCode
<1>6. CASE Dispatch
  <2>1. /\ Head(readyList) \in Threads /\ pc[Head(readyList)] # "Finish"
        /\ ResumePoint(Head(readyList)) # "Finish"
    BY <1>6, HeadIsReady DEF Dispatch, PlaceOK, ResumePoint
  <2>2. pc' = [pc EXCEPT ![Head(readyList)] = ResumePoint(Head(readyList))]
    BY <1>6 DEF Dispatch
  <2> QED BY <1>0, <2>1, <2>2
<1>7. CASE Interrupt \/ Idle \/ IdleReturn \/ Halt \/ UNCHANGED vars
  BY <1>7 DEF Interrupt, Idle, IdleReturn, Halt, vars
<1>8. CASE OneTickReturn
  BY <1>0, <1>2, <1>8 DEF OneTickReturn
<1> QED BY <1>1, <1>3, <1>4, <1>5, <1>6, <1>7, <1>8 DEF Next, Halted

-----------------------------------------------------------------------------
(* The results.                                                            *)

\* In every reachable state one thread runs, the ready list holds exactly the
\* READY threads, once each, and only a finished thread awaits deletion.
THEOREM SchedulerSafe == Spec => []SchedulerInv
<1>1. Init => SchedulerInv
  BY InitInv
<1> QED BY <1>1, NextKeepsSchedulerInv, PTL DEF Spec

\* The timer's request to yield never outlives the handlers' run.
THEOREM YieldStaysLocal == Spec => []YieldRequestLocal
<1>1. Init => YieldRequestLocal
  BY InitInv
<1> QED BY <1>1, SchedulerSafe, NextKeepsYieldLocal, PTL DEF Spec

\* A thread object is deleted only after Finish and from another stack.
THEOREM DeletionSafe == Spec => DeletedFromOtherStack
<1>1. SchedulerInv /\ [Next]_vars =>
        [\A t \in Threads : status[t] # "DELETED" /\ status'[t] = "DELETED" =>
            pc[t] = "Finish" /\ currentThread' # t]_vars
  <2> SUFFICES ASSUME SchedulerInv, [Next]_vars, NEW t \in Threads, status'[t] = "DELETED"
               PROVE  pc[t] = "Finish" /\ currentThread' # t
    OBVIOUS
  <2>1. pc'[t] = "Finish" /\ t # currentThread'
    BY NextKeepsSchedulerInv DEF SchedulerInv, PlaceOK
  <2> QED BY <2>1, FinishIsFinal
<1> QED BY <1>1, SchedulerSafe, PTL DEF Spec, DeletedFromOtherStack

\* A finished thread never gets the processor again.
THEOREM FinishSafe == Spec => FinishedStaysFinished
<1>1. SchedulerInv /\ [Next]_vars =>
        [\A t \in Threads : pc[t] = "Finish" =>
            pc'[t] = "Finish" /\ status'[t] # "RUNNING"]_vars
  <2> SUFFICES ASSUME SchedulerInv, [Next]_vars, NEW t \in Threads, pc[t] = "Finish"
               PROVE  pc'[t] = "Finish" /\ status'[t] # "RUNNING"
    OBVIOUS
  <2>1. pc'[t] = "Finish"
    BY FinishIsFinal
  <2> QED BY <2>1, NextKeepsSchedulerInv DEF SchedulerInv, PlaceOK
<1> QED BY <1>1, SchedulerSafe, PTL DEF Spec, FinishedStaysFinished

=============================================================================
