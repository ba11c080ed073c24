--------------------------- MODULE ProcessesProofs ---------------------------
(***************************************************************************)
(* User processes for any number of them: the process layer keeps the      *)
(* scheduler's invariant, deletes every carcass, wakes only processes      *)
(* asleep in Join, and gives every process its own registers.              *)
(***************************************************************************)
EXTENDS Processes, ThreadsProofs

-----------------------------------------------------------------------------
(* Lists.                                                                  *)

\* List::Prepend of an element that is not there.
LEMMA PrependNew ==
  ASSUME NEW S, NEW s \in Seq(S), NEW x \in S, x \notin Range(s), NoDup(s)
  PROVE  /\ <<x>> \o s \in Seq(S)
         /\ Range(<<x>> \o s) = Range(s) \cup {x}
         /\ NoDup(<<x>> \o s)
<1> DEFINE a == <<x>> \o s
<1>1. <<x>> \in Seq(S) /\ Len(<<x>>) = 1 /\ <<x>>[1] = x /\ Len(s) \in Nat
  BY LenProperties
<1>2. /\ a \in Seq(S) /\ Len(a) = 1 + Len(s)
      /\ \A i \in 1..(1 + Len(s)) : a[i] = IF i = 1 THEN x ELSE s[i - 1]
  BY <1>1, ConcatProperties
<1>3. DOMAIN s = 1..Len(s) /\ DOMAIN a = 1..(1 + Len(s))
  BY <1>1, <1>2, LenProperties
<1> HIDE DEF a
<1>4. Range(a) = Range(s) \cup {x}
  <2>1. ASSUME NEW y \in Range(a) PROVE y \in Range(s) \cup {x}
    <3>1. PICK i \in 1..(1 + Len(s)) : y = a[i]
      BY <1>3 DEF Range
    <3>2. i # 1 => i - 1 \in 1..Len(s)
      BY <1>1
    <3> QED BY <1>2, <1>3, <3>1, <3>2 DEF Range
  <2>2. x \in Range(a)
    BY <1>1, <1>2, <1>3 DEF Range
  <2>3. ASSUME NEW i \in 1..Len(s) PROVE s[i] \in Range(a)
    <3>1. i + 1 \in 1..(1 + Len(s)) /\ i + 1 # 1 /\ (i + 1) - 1 = i
      BY <1>1
    <3>2. s[i] = a[i + 1]
      BY <1>2, <3>1
    <3> QED BY <1>3, <3>1, <3>2 DEF Range
  <2> QED BY <1>3, <2>1, <2>2, <2>3 DEF Range
<1>5. NoDup(a)
  <2> SUFFICES ASSUME NEW i \in 1..(1 + Len(s)), NEW j \in 1..(1 + Len(s)), a[i] = a[j]
               PROVE  i = j
    BY <1>2 DEF NoDup
  <2>1. \A k \in 1..(1 + Len(s)) : k # 1 => k - 1 \in 1..Len(s) /\ a[k] = s[k - 1] /\ a[k] # x
    BY <1>1, <1>2, <1>3 DEF Range
  <2>2. CASE i = 1 \/ j = 1
    BY <1>1, <1>2, <2>1, <2>2
  <2>3. CASE i # 1 /\ j # 1
    <3>1. i - 1 = j - 1
      BY <2>1, <2>3 DEF NoDup
    <3> QED BY <1>1, <3>1
  <2> QED BY <2>2, <2>3
<1> QED BY <1>2, <1>4, <1>5 DEF a

\* The loop in Finish takes the thread out of activeThreads and nothing else,
\* although it does not go all the way around.
LEMMA WithoutThreadExact ==
  ASSUME NEW S, NEW s \in Seq(S), NEW t, NoDup(s)
  PROVE  /\ WithoutThread(s, t) \in Seq(S)
         /\ Range(WithoutThread(s, t)) = Range(s) \ {t}
         /\ NoDup(WithoutThread(s, t))
<1> DEFINE n == Len(s)
           k == CHOOSE k \in 1..n : s[k] = t
           w == WithoutThread(s, t)
<1>1. n \in Nat /\ DOMAIN s = 1..n /\ s \in [1..n -> S]
  BY LenProperties
<1>2. CASE t \notin Range(s)
  BY <1>2 DEF WithoutThread
<1>3. CASE t \in Range(s)
  <2>1. k \in 1..n /\ s[k] = t
    BY <1>1, <1>3 DEF Range
  <2>2. \A i \in 1..n : i # k => s[i] # t
    BY <2>1 DEF NoDup
  <2>3. w = IF k = n THEN SubSeq(s, 1, n - 1)
            ELSE <<s[n]>> \o SubSeq(s, 1, k - 1) \o SubSeq(s, k + 1, n - 1)
    BY <1>3 DEF WithoutThread
  <2> DEFINE from(i) == IF k = n THEN i
                        ELSE IF i = 1 THEN n ELSE IF i <= k THEN i - 1 ELSE i
  <2> HIDE DEF n, k, w
  <2>4. w \in Seq(S) /\ Len(w) = n - 1 /\ \A i \in 1..(n - 1) : w[i] = s[from(i)]
    <3>1. CASE k = n
      <4>1. \A i \in 1..(n - 1) : s[i] \in S
        BY <1>1
      <4>2. /\ SubSeq(s, 1, n - 1) \in Seq(S)
            /\ Len(SubSeq(s, 1, n - 1)) = IF 1 <= n - 1 THEN (n - 1) - 1 + 1 ELSE 0
            /\ \A i \in 1..((n - 1) - 1 + 1) : SubSeq(s, 1, n - 1)[i] = s[1 + i - 1]
        BY <1>1, <4>1, SubSeqProperties
      <4> QED BY <1>1, <2>1, <2>3, <3>1, <4>2
    <3>2. CASE k # n
      <4> DEFINE a == SubSeq(s, 1, k - 1)
                 b == SubSeq(s, k + 1, n - 1)
      <4>0. k \in 1..(n - 1) /\ n \in Nat
        BY <1>1, <2>1, <3>2
      <4>1. /\ a \in Seq(S) /\ Len(a) = k - 1
            /\ \A i \in 1..(k - 1) : a[i] = s[i]
        <5>1. \A i \in 1..(k - 1) : s[i] \in S
          BY <1>1, <4>0
        <5>2. /\ a \in Seq(S) /\ Len(a) = IF 1 <= k - 1 THEN (k - 1) - 1 + 1 ELSE 0
              /\ \A i \in 1..((k - 1) - 1 + 1) : a[i] = s[1 + i - 1]
          BY <4>0, <5>1, SubSeqProperties
        <5> QED BY <4>0, <5>2
      <4>2. /\ b \in Seq(S) /\ Len(b) = n - 1 - k
            /\ \A i \in 1..(n - 1 - k) : b[i] = s[k + i]
        <5>1. \A i \in (k + 1)..(n - 1) : s[i] \in S
          BY <1>1, <4>0
        <5>2. /\ b \in Seq(S)
              /\ Len(b) = IF k + 1 <= n - 1 THEN (n - 1) - (k + 1) + 1 ELSE 0
              /\ \A i \in 1..((n - 1) - (k + 1) + 1) : b[i] = s[(k + 1) + i - 1]
          BY <4>0, <5>1, SubSeqProperties
        <5> QED BY <4>0, <5>2
      <4> DEFINE h == <<s[n]>> \o a
      <4>3. /\ h \in Seq(S) /\ Len(h) = k
            /\ \A i \in 1..k : h[i] = IF i = 1 THEN s[n] ELSE s[i - 1]
        <5>1. <<s[n]>> \in Seq(S) /\ Len(<<s[n]>>) = 1 /\ <<s[n]>>[1] = s[n]
          BY <1>1, <4>0
        <5>2. /\ h \in Seq(S) /\ Len(h) = 1 + (k - 1)
              /\ \A i \in 1..(1 + (k - 1)) : h[i] = IF i <= 1 THEN <<s[n]>>[i] ELSE a[i - 1]
          BY <4>1, <5>1, ConcatProperties
        <5> HIDE DEF a, h
        <5>3. ASSUME NEW i \in 1..k PROVE h[i] = IF i = 1 THEN s[n] ELSE s[i - 1]
          <6>1. i \in 1..(1 + (k - 1)) /\ (i # 1 => i - 1 \in 1..(k - 1) /\ ~(i <= 1))
            BY <4>0
          <6>2. CASE i = 1
            BY <5>1, <5>2, <6>1, <6>2
          <6>3. CASE i # 1
            BY <4>1, <5>2, <6>1, <6>3
          <6> QED BY <6>2, <6>3
        <5> QED BY <4>0, <5>2, <5>3
      <4>4. w = h \o b
        BY <2>3, <3>2
      <4> HIDE DEF a, b, h
      <4>5. /\ w \in Seq(S) /\ Len(w) = k + (n - 1 - k)
            /\ \A i \in 1..(k + (n - 1 - k)) : w[i] = IF i <= k THEN h[i] ELSE b[i - k]
        BY <4>2, <4>3, <4>4, ConcatProperties
      <4>6. ASSUME NEW i \in 1..(n - 1) PROVE w[i] = s[from(i)]
        <5>1. CASE i <= k
          BY <3>2, <4>0, <4>3, <4>5, <5>1
        <5>2. CASE i > k
          <6>1. i - k \in 1..(n - 1 - k) /\ k + (i - k) = i
            BY <4>0, <5>2
          <6> QED BY <3>2, <4>0, <4>2, <4>5, <5>2, <6>1
        <5> QED BY <4>0, <5>1, <5>2
      <4> QED BY <4>0, <4>5, <4>6
    <3> QED BY <3>1, <3>2
  <2>5. \A i \in 1..(n - 1) : from(i) \in 1..n /\ from(i) # k
    BY <1>1, <2>1
  <2>6. \A i, j \in 1..(n - 1) : from(i) = from(j) => i = j
    BY <1>1, <2>1
  <2>7. ASSUME NEW j \in 1..n, j # k PROVE \E i \in 1..(n - 1) : from(i) = j
    <3>1. CASE k = n
      BY <1>1, <2>1, <2>7, <3>1
    <3>2. CASE k # n /\ j = n
      BY <1>1, <2>1, <2>7, <3>2
    <3>3. CASE k # n /\ j < k
      <4>1. j + 1 \in 1..(n - 1) /\ from(j + 1) = j
        BY <1>1, <2>1, <3>3
      <4> QED BY <4>1
    <3>4. CASE k # n /\ j > k /\ j # n
      BY <1>1, <2>1, <2>7, <3>4
    <3> QED BY <1>1, <2>1, <2>7, <3>1, <3>2, <3>3, <3>4
  <2> HIDE DEF from
  <2>8. DOMAIN w = 1..(n - 1)
    BY <2>4, LenProperties
  <2>9. Range(w) = Range(s) \ {t}
    <3>1. ASSUME NEW i \in 1..(n - 1) PROVE w[i] \in Range(s) \ {t}
      <4>1. w[i] = s[from(i)] /\ from(i) \in 1..n /\ from(i) # k
        BY <2>4, <2>5
      <4> QED BY <1>1, <2>2, <4>1 DEF Range
    <3>2. ASSUME NEW j \in 1..n, s[j] # t PROVE s[j] \in Range(w)
      <4>1. PICK i \in 1..(n - 1) : from(i) = j
        BY <2>1, <2>7, <3>2
      <4>2. s[j] = w[i]
        BY <2>4, <4>1
      <4> QED BY <2>8, <4>2 DEF Range
    <3> QED BY <1>1, <2>8, <3>1, <3>2 DEF Range
  <2>10. NoDup(w)
    <3> SUFFICES ASSUME NEW i \in 1..(n - 1), NEW j \in 1..(n - 1), w[i] = w[j]
                 PROVE  i = j
      BY <2>4 DEF NoDup
    <3>1. s[from(i)] = s[from(j)] /\ from(i) \in 1..n /\ from(j) \in 1..n
      BY <2>4, <2>5
    <3>2. \A x, y \in 1..n : s[x] = s[y] => x = y
      BY DEF NoDup, n
    <3> QED BY <2>6, <3>1, <3>2
  <2> QED BY <2>4, <2>9, <2>10 DEF w
<1> QED BY <1>2, <1>3

-----------------------------------------------------------------------------
(* The invariant.                                                          *)

\* A process is fresh from Exec until it runs processCreator, which it can do
\* long after ThreadRoot: the timer may interrupt it in between.
FreshExact ==
    /\ fresh \subseteq Threads
    /\ \A t \in Threads : pc[t] = "ThreadRoot" => t \in fresh
    /\ \A t \in fresh : pc[t] \in {"ThreadRoot", "Yield", "OneTick", "code"}

\* While a carcass waits, no process executes user instructions that could
\* finish and leave another one.
CarcassSeen ==
    /\ threadToBeDestroyed # NoThread => currentThread \in fresh \/ pc[currentThread] = "Finish"
    /\ NoCarcassForgotten

Parents ==
    /\ parent \in [Threads -> Threads \cup {NoThread}]
    /\ ParentAsleep
    /\ \A t \in Threads : status[t] = "JUST_CREATED" => parent[t] = NoThread

Active ==
    /\ activeThreads \in Seq(Threads) /\ NoDup(activeThreads)
    /\ Range(activeThreads) = Live \ {Main}
    /\ ID \in [Threads -> Nat] /\ threadID \in Nat \ {0}
    /\ \A t \in Live \ {Main} : ID[t] \in 1..(threadID - 1)
    /\ \A t, u \in Live \ {Main} : ID[t] = ID[u] => t = u
    /\ status[Main] # "JUST_CREATED"
    /\ isJoined \in [Threads -> BOOLEAN]

\* The machine holds the registers of the current process, and those of a
\* process that is switched out are in its Thread object.
Registers ==
    /\ machineRegs \in Threads
    /\ userRegisters \in [Threads -> Threads \cup {NoThread}]
    /\ currentThread \notin fresh => machineRegs = currentThread
    /\ \A t \in Threads \ {currentThread} : pc[t] \in {"Yield", "Sleep"} =>
          userRegisters[t] \in Threads /\ (t \notin fresh => userRegisters[t] = t)

\* The inductive invariant.
ProcInv == SchedulerInv /\ FreshExact /\ CarcassSeen /\ Parents /\ Active /\ Registers

\* StartProcess has made the main thread a process.
LEMMA ProcInitInv == PInit => ProcInv
<1> SUFFICES ASSUME PInit PROVE ProcInv
  OBVIOUS
<1> USE ThreadsAssumption DEF PInit
<1>1. SchedulerInv
  BY InitInv
<1> USE DEF Init
<1>2. FreshExact /\ CarcassSeen
  BY DEF FreshExact, CarcassSeen, NoCarcassForgotten
<1>3. Parents
  BY DEF Parents, ParentAsleep, Live
<1>4. /\ Live = {Main} /\ Range(activeThreads) = {}
      /\ activeThreads \in Seq(Threads) /\ NoDup(activeThreads)
  <2>1. Live = {Main}
    BY DEF Live
  <2>2. activeThreads \in Seq(Threads) /\ Len(activeThreads) = 0
    BY EmptySeq
  <2>3. DOMAIN activeThreads = 1..0
    BY <2>2, LenProperties
  <2> QED BY <2>1, <2>2, <2>3 DEF Range, NoDup
<1>5. Active
  BY <1>4 DEF Active
<1>6. Registers
  BY DEF Registers
<1> QED BY <1>1, <1>2, <1>3, <1>5, <1>6 DEF ProcInv

\* In user code no carcass waits and nobody waits for the current process as a
\* sleeping parent.
LEMMA UserFacts ==
  ASSUME ProcInv, InUser
  PROVE  /\ currentThread \in Threads /\ status[currentThread] = "RUNNING"
         /\ pc[currentThread] = "code" /\ machineStatus = "SystemMode"
         /\ threadToBeDestroyed = NoThread
         /\ currentThread \in Live /\ currentThread \notin Joining
  BY DEF ProcInv, InUser, InCode, SchedulerInv, TypeOK, PlaceOK, InSleep, CarcassSeen, Live,
         Joining

\* Parents and the list of active threads survive a step that starts and
\* finishes nobody.
LEMMA SameProcesses ==
  ASSUME ProcInv, UNCHANGED procVars, Live' = Live, Joining \subseteq Joining',
         \A t \in Threads : status'[t] = "JUST_CREATED" <=> status[t] = "JUST_CREATED"
  PROVE  Parents' /\ Active'
<1> USE DEF procVars
<1>1. Parents'
  BY DEF ProcInv, Parents, ParentAsleep
<1>2. Active'
  BY ThreadsAssumption DEF ProcInv, Active, NoDup
<1> QED BY <1>1, <1>2

\* A step in which at most the current process moves, and stays awake.
LEMMA StillKeeps ==
  ASSUME ProcInv, SchedulerInv',
         UNCHANGED <<status, currentThread, threadToBeDestroyed, procVars, fresh, cpuVars>>,
         \/ pc' = pc
         \/ /\ pc[currentThread] \in {"code", "OneTick", "Woken"}
            /\ \E x \in {"code", "OneTick"} : pc' = [pc EXCEPT ![currentThread] = x]
  PROVE  ProcInv'
<1>0. /\ currentThread \in Threads /\ pc \in [Threads -> PCs]
  BY DEF ProcInv, SchedulerInv, TypeOK
<1>1. /\ \A t \in Threads \ {currentThread} : pc'[t] = pc[t]
      /\ \/ pc'[currentThread] = pc[currentThread]
         \/ /\ pc[currentThread] \in {"code", "OneTick", "Woken"}
            /\ pc'[currentThread] \in {"code", "OneTick"}
  BY <1>0
<1>2. Live' = Live /\ Joining \subseteq Joining'
  BY <1>0, <1>1 DEF Live, Joining
<1>3. FreshExact'
  BY <1>0, <1>1 DEF ProcInv, FreshExact
<1>4. CarcassSeen'
  BY <1>0, <1>1 DEF ProcInv, CarcassSeen, NoCarcassForgotten
<1>5. Parents' /\ Active'
  BY <1>2, SameProcesses
<1>6. Registers'
  BY <1>0, <1>1 DEF ProcInv, Registers, cpuVars
<1> QED BY <1>3, <1>4, <1>5, <1>6 DEF ProcInv

\* Scheduler::Run with the registers: the processor goes to a READY process.
LEMMA SwitchKeeps ==
  ASSUME ProcInv, SchedulerInv', UNCHANGED <<procVars, fresh>>, SwitchState,
         NEW next \in Threads, status[next] = "READY",
         NEW st \in [Threads -> ThreadStatus], Run(next, st, threadToBeDestroyed),
         pc'[next] \in {"Woken", "OneTick"}, pc[next] = "ThreadRoot" => pc'[next] = "OneTick",
         pc[next] = "Yield" => pc'[next] = "OneTick",
         \A t \in Threads \ {next, currentThread} : st[t] = status[t] /\ pc'[t] = pc[t],
         \/ /\ pc[currentThread] \in {"code", "OneTick"} /\ status[currentThread] = "RUNNING"
            /\ st[currentThread] = "READY" /\ pc'[currentThread] = "Yield"
         \/ /\ InSleep /\ st[currentThread] = status[currentThread]
            /\ next # currentThread => pc'[currentThread] = pc[currentThread]
  PROVE  ProcInv'
<1> DEFINE c == currentThread
           carcass == threadToBeDestroyed
<1>0. /\ c \in Threads /\ status \in [Threads -> ThreadStatus] /\ pc \in [Threads -> PCs]
      /\ carcass # NoThread => status[carcass] = "BLOCKED" /\ pc[carcass] = "Finish"
      /\ pc[next] \in {"ThreadRoot", "Yield", "Sleep"}
  BY DEF ProcInv, SchedulerInv, TypeOK, PlaceOK, CarcassFinished
<1>1. /\ currentThread' = next /\ carcass # next
      /\ status'[next] = "RUNNING"
      /\ \A t \in Threads \ {next} :
           status'[t] = IF pc[next] # "ThreadRoot" /\ t = carcass THEN "DELETED" ELSE st[t]
      /\ threadToBeDestroyed' = IF pc[next] # "ThreadRoot" THEN NoThread ELSE carcass
  BY <1>0, ThreadsAssumption DEF Run
<1>2. \A t \in Threads \ {next} :
        /\ \/ status'[t] = status[t] /\ pc'[t] = pc[t]
           \/ t = carcass /\ pc[next] # "ThreadRoot" /\ status'[t] = "DELETED" /\ pc'[t] = pc[t]
           \/ t = c /\ status[t] = "RUNNING" /\ status'[t] = "READY"
                /\ pc[t] \in {"code", "OneTick"} /\ pc'[t] = "Yield"
        /\ t = carcass /\ pc[next] # "ThreadRoot" => status'[t] = "DELETED"
  BY <1>0, <1>1, ThreadsAssumption
<1>3. Live' = Live /\ Joining \subseteq Joining'
      /\ \A t \in Threads : status'[t] = "JUST_CREATED" <=> status[t] = "JUST_CREATED"
  BY <1>0, <1>1, <1>2, ThreadsAssumption DEF Live, Joining
<1>4. FreshExact'
  BY <1>0, <1>1, <1>2 DEF ProcInv, FreshExact
<1>5. CarcassSeen'
  <2>1. threadToBeDestroyed' # NoThread => next \in fresh
    BY <1>1 DEF ProcInv, FreshExact
  <2>2. NoCarcassForgotten'
    BY <1>0, <1>1, <1>2, ThreadsAssumption DEF ProcInv, CarcassSeen, NoCarcassForgotten
  <2> QED BY <1>1, <2>1, <2>2 DEF CarcassSeen
<1>6. Parents' /\ Active'
  BY <1>3, SameProcesses
<1>7. Registers'
  <2>1. CASE next = c
    <3>1. UNCHANGED cpuVars
      BY <1>1, <2>1 DEF SwitchState
    <3>2. \A t \in Threads \ {c} : pc'[t] = pc[t]
      BY <1>0, <1>2, <2>1
    <3> QED BY <1>1, <2>1, <3>1, <3>2 DEF ProcInv, Registers, cpuVars
  <2>2. CASE next # c
    <3>1. /\ userRegisters' = [userRegisters EXCEPT ![c] = machineRegs]
          /\ machineRegs' = IF pc[next] = "ThreadRoot" THEN machineRegs ELSE userRegisters[next]
      BY <1>1, <2>2 DEF SwitchState
    <3>2. /\ machineRegs \in Threads /\ userRegisters \in [Threads -> Threads \cup {NoThread}]
          /\ pc[next] # "ThreadRoot" => userRegisters[next] \in Threads
          /\ next \notin fresh => pc[next] # "ThreadRoot" /\ userRegisters[next] = next
          /\ c \notin fresh => machineRegs = c
      BY <1>0, <2>2 DEF ProcInv, Registers, FreshExact
    <3>3. ASSUME NEW t \in Threads \ {next}, pc'[t] \in {"Yield", "Sleep"}
          PROVE  userRegisters'[t] \in Threads /\ (t \notin fresh => userRegisters'[t] = t)
      <4>1. CASE t = c
        BY <1>0, <3>1, <3>2, <4>1
      <4>2. CASE t # c
        BY <1>0, <1>2, <3>1, <3>2, <3>3, <4>2 DEF ProcInv, Registers
      <4> QED BY <4>1, <4>2
    <3>4. /\ machineRegs' \in Threads /\ userRegisters' \in [Threads -> Threads \cup {NoThread}]
          /\ next \notin fresh => machineRegs' = next
      BY <1>0, <3>1, <3>2
    <3> QED BY <1>1, <3>3, <3>4 DEF Registers
  <2> QED BY <2>1, <2>2
<1> QED BY <1>4, <1>5, <1>6, <1>7 DEF ProcInv

-----------------------------------------------------------------------------
(* The system calls.                                                       *)

\* Exec forks a process that has an ID nobody has.
LEMMA ExecKeeps ==
  ASSUME ProcInv, NEW t \in Threads, Exec(t)
  PROVE  ProcInv'
<1> DEFINE c == currentThread
<1>0. /\ c \in Threads /\ status[c] = "RUNNING" /\ pc[c] = "code" /\ c \notin fresh
      /\ threadToBeDestroyed = NoThread /\ status \in [Threads -> ThreadStatus]
      /\ pc \in [Threads -> PCs]
  BY UserFacts DEF Exec, InUser, ProcInv, SchedulerInv, TypeOK
<1>1. SchedulerInv'
  BY NextKeepsSchedulerInv DEF Exec, Next, ProcInv
<1>2. /\ status[t] = "JUST_CREATED" /\ pc[t] = "none" /\ t # c
      /\ status' = [status EXCEPT ![t] = "READY"]
      /\ pc' = [pc EXCEPT ![t] = "ThreadRoot", ![c] = "OneTick"]
      /\ UNCHANGED <<currentThread, threadToBeDestroyed, parent, isJoined, cpuVars>>
      /\ ID' = [ID EXCEPT ![t] = threadID] /\ threadID' = threadID + 1
      /\ activeThreads' = Append(activeThreads, t) /\ fresh' = fresh \cup {t}
  BY <1>0 DEF Exec, Fork, ReadyToRun, ProcInv, SchedulerInv, PlaceOK
<1>3. Live' = Live \cup {t} /\ t \notin Live /\ Joining' = Joining
  BY <1>0, <1>2 DEF Live, Joining
<1>4. FreshExact'
  BY <1>0, <1>2 DEF ProcInv, FreshExact
<1>5. CarcassSeen'
  BY <1>0, <1>2 DEF ProcInv, CarcassSeen, NoCarcassForgotten
<1>6. Parents'
  BY <1>0, <1>2, <1>3, ThreadsAssumption DEF ProcInv, Parents, ParentAsleep
<1>7. Active'
  <2>1. t # Main /\ t \notin Range(activeThreads)
    BY <1>2, <1>3 DEF ProcInv, Active
  <2>2. /\ activeThreads' \in Seq(Threads) /\ NoDup(activeThreads')
        /\ Range(activeThreads') = Live' \ {Main}
    BY <1>2, <1>3, <2>1, AppendNew DEF ProcInv, Active
  <2>3. /\ ID' \in [Threads -> Nat] /\ threadID' = threadID + 1 /\ threadID \in Nat \ {0}
        /\ ID'[t] = threadID /\ \A u \in Threads \ {t} : ID'[u] = ID[u]
    <3>1. ID \in [Threads -> Nat] /\ threadID \in Nat \ {0}
      BY DEF ProcInv, Active
    <3> QED BY <1>2, <3>1
  <2>4. \A u \in Live \ {Main} : u \in Threads \ {t} /\ ID[u] \in 1..(threadID - 1)
    BY <1>3 DEF ProcInv, Active, Live
  <2>5. \A u \in Live' \ {Main} : ID'[u] \in 1..(threadID' - 1)
    <3>1. ID'[t] \in 1..(threadID' - 1)
      BY <2>3
    <3>2. ASSUME NEW u \in Live \ {Main} PROVE ID'[u] \in 1..(threadID' - 1)
      BY <2>3, <2>4
    <3> QED BY <1>3, <3>1, <3>2
  <2>6. \A u, v \in Live' \ {Main} : ID'[u] = ID'[v] => u = v
    <3>1. \A u \in Live \ {Main} : ID'[u] = ID[u] /\ ID[u] # threadID
      BY <2>3, <2>4
    <3> QED BY <1>3, <2>3, <3>1 DEF ProcInv, Active
  <2>7. status'[Main] # "JUST_CREATED"
    BY <1>0, <1>2, <2>1, ThreadsAssumption DEF ProcInv, Active
  <2> QED BY <1>2, <2>2, <2>3, <2>5, <2>6, <2>7 DEF ProcInv, Active
<1>8. Registers'
  BY <1>0, <1>2 DEF ProcInv, Registers, cpuVars
<1> QED BY <1>1, <1>4, <1>5, <1>6, <1>7, <1>8 DEF ProcInv

\* Join: the caller goes to sleep as the parent of one live process.
LEMMA JoinKeeps ==
  ASSUME ProcInv, NEW id, Join(id)
  PROVE  ProcInv'
<1> DEFINE c == currentThread
           child == getID(id)
<1>0. /\ c \in Threads /\ status[c] = "RUNNING" /\ pc[c] = "code" /\ c \notin fresh
      /\ threadToBeDestroyed = NoThread /\ c \notin Joining
      /\ status \in [Threads -> ThreadStatus] /\ pc \in [Threads -> PCs]
  BY UserFacts DEF Join, InUser, ProcInv, SchedulerInv, TypeOK
<1>1. SchedulerInv'
  BY NextKeepsSchedulerInv DEF Join, Next, ProcInv
<1>2. /\ status' = [status EXCEPT ![c] = "BLOCKED"] /\ pc' = [pc EXCEPT ![c] = "Sleep"]
      /\ parent' = [parent EXCEPT ![child] = c] /\ isJoined' = [isJoined EXCEPT ![c] = TRUE]
      /\ UNCHANGED <<currentThread, threadToBeDestroyed, ID, activeThreads, threadID, fresh,
                     cpuVars>>
  BY DEF Join, Block
<1>3. child \in Live /\ child \in Threads
  <2>1. child \in Range(activeThreads)
    BY DEF Join, getID
  <2> QED BY <2>1 DEF ProcInv, Active, Live
<1> HIDE DEF child
<1>4. Live' = Live /\ Joining' = Joining \cup {c}
  BY <1>0, <1>2 DEF Live, Joining
<1>5. FreshExact' /\ CarcassSeen'
  BY <1>0, <1>2 DEF ProcInv, FreshExact, CarcassSeen, NoCarcassForgotten
<1>6. Parents'
  <2>1. /\ parent \in [Threads -> Threads \cup {NoThread}]
        /\ parent' \in [Threads -> Threads \cup {NoThread}]
        /\ \A t \in Threads : parent'[t] = IF t = child THEN c ELSE parent[t]
    BY <1>0, <1>2, <1>3 DEF ProcInv, Parents
  <2>2. \A t \in Live : parent[t] # c
    BY <1>0, ThreadsAssumption DEF ProcInv, Parents, ParentAsleep
  <2>3. ParentAsleep'
    <3>1. \A t \in Live : t \in Threads
      BY DEF Live
    <3> QED BY <1>0, <1>4, <2>1, <2>2, <3>1 DEF ProcInv, Parents, ParentAsleep
  <2>4. \A t \in Threads : status'[t] = "JUST_CREATED" => parent'[t] = NoThread
    BY <1>0, <1>2, <1>3, <2>1 DEF ProcInv, Parents, Live
  <2> QED BY <2>1, <2>3, <2>4 DEF Parents
<1>7. Active'
  <2>1. status'[Main] # "JUST_CREATED" /\ isJoined' \in [Threads -> BOOLEAN]
    BY <1>0, <1>2, ThreadsAssumption DEF ProcInv, Active
  <2> QED BY <1>2, <1>4, <2>1 DEF ProcInv, Active, NoDup
<1>8. Registers'
  BY <1>0, <1>2 DEF ProcInv, Registers, cpuVars
<1> QED BY <1>1, <1>5, <1>6, <1>7, <1>8 DEF ProcInv

\* Exit: the process leaves the list of active threads and wakes its parent,
\* which is asleep in Join and not on the ready list.
LEMMA ExitKeeps ==
  ASSUME ProcInv, Exit
  PROVE  ProcInv'
<1> DEFINE c == currentThread
           p == parent[c]
<1>0. /\ c \in Threads /\ status[c] = "RUNNING" /\ pc[c] = "code" /\ c \notin fresh
      /\ threadToBeDestroyed = NoThread /\ c \in Live /\ c \notin Joining
      /\ status \in [Threads -> ThreadStatus] /\ pc \in [Threads -> PCs]
      /\ machineStatus = "SystemMode"
  BY UserFacts DEF Exit, InUser, ProcInv, SchedulerInv, TypeOK
<1>1. /\ threadToBeDestroyed' = c /\ pc' = [pc EXCEPT ![c] = "Finish"]
      /\ activeThreads' = WithoutThread(activeThreads, c)
      /\ UNCHANGED <<currentThread, yieldOnReturn, machineStatus, parent, ID, threadID, fresh,
                     cpuVars>>
  BY DEF Exit, PFinish
<1>2. /\ p \in Threads \cup {NoThread} /\ p # c
      /\ p # NoThread => p \in Joining /\ p \in Threads
  BY <1>0, ThreadsAssumption DEF ProcInv, Parents, ParentAsleep
<1>3. /\ status' \in [Threads -> ThreadStatus]
      /\ \A t \in Threads : status'[t] = IF t = p THEN "READY"
                                         ELSE IF t = c THEN "BLOCKED" ELSE status[t]
      /\ isJoined' \in [Threads -> BOOLEAN]
  <2>1. CASE p # NoThread
    BY <1>0, <1>2, <2>1 DEF Exit, PFinish, WakeUpFromJoin, ThreadStatus, ProcInv, Active
  <2>2. CASE p = NoThread
    BY <1>0, <2>2, ThreadsAssumption DEF Exit, PFinish, ThreadStatus, ProcInv, Active
  <2> QED BY <2>1, <2>2
<1>4. /\ readyList' \in Seq(Threads) /\ NoDup(readyList')
      /\ Range(readyList') = {t \in Threads : status'[t] = "READY"}
  <2>0. /\ readyList \in Seq(Threads) /\ NoDup(readyList)
        /\ Range(readyList) = {t \in Threads : status[t] = "READY"}
    BY DEF ProcInv, SchedulerInv, TypeOK, ReadyListExact, NoDup
  <2>1. CASE p # NoThread
    <3>1. readyList' = <<p>> \o readyList
      BY <2>1 DEF Exit, PFinish, WakeUpFromJoin
    <3>2. p \in Threads /\ status[p] = "BLOCKED"
      BY <1>2, <2>1 DEF Joining
    <3>3. p \notin Range(readyList)
      BY <2>0, <3>2
    <3>4. /\ readyList' \in Seq(Threads) /\ NoDup(readyList')
          /\ Range(readyList') = Range(readyList) \cup {p}
      BY <2>0, <3>1, <3>2, <3>3, PrependNew
    <3> QED BY <1>0, <1>3, <2>0, <3>2, <3>4
  <2>2. CASE p = NoThread
    <3>1. readyList' = readyList
      BY <2>2 DEF Exit, PFinish
    <3> QED BY <1>0, <1>3, <2>0, <2>2, <3>1, ThreadsAssumption
  <2> QED BY <2>1, <2>2
<1>5. SchedulerInv'
  <2>1. TypeOK'
    BY <1>0, <1>1, <1>3, <1>4 DEF ProcInv, SchedulerInv, TypeOK, PCs
  <2>2. PlaceOK'
    <3>1. pc'[c] = "Finish" /\ \A t \in Threads \ {c} : pc'[t] = pc[t]
      BY <1>0, <1>1
    <3>2. status'[c] = "BLOCKED" /\ InSleep'
      BY <1>0, <1>1, <1>2, <1>3, <3>1 DEF InSleep
    <3>3. ASSUME NEW t \in Threads \ {c}, t # p PROVE status'[t] = status[t]
      BY <1>3, <3>3
    <3>4. p # NoThread => pc[p] = "Sleep" /\ status'[p] = "READY"
      BY <1>2, <1>3 DEF Joining
    <3> QED BY <1>0, <1>1, <1>2, <3>1, <3>2, <3>3, <3>4, ThreadsAssumption
            DEF ProcInv, SchedulerInv, PlaceOK
  <2>3. ReadyListExact' /\ CarcassFinished'
    BY <1>0, <1>1, <1>2, <1>3, <1>4 DEF ReadyListExact, NoDup, CarcassFinished
  <2> QED BY <2>1, <2>2, <2>3 DEF SchedulerInv
<1>6. Live' = Live \ {c} /\ Joining' = Joining \ {p}
  <2>1. \A t \in Threads : pc'[t] = IF t = c THEN "Finish" ELSE pc[t]
    BY <1>0, <1>1
  <2>2. p # NoThread => p \in Live
    BY <1>2 DEF Live, Joining
  <2>3. Live' = Live \ {c}
    <3>1. ASSUME NEW t \in Threads PROVE t \in Live' <=> t \in Live /\ t # c
      <4>1. CASE t = c
        BY <2>1, <4>1 DEF Live
      <4>2. CASE t = p
        BY <1>2, <1>3, <2>1, <2>2, <4>2, ThreadsAssumption DEF Live
      <4>3. CASE t # c /\ t # p
        BY <1>3, <2>1, <4>3 DEF Live
      <4> QED BY <4>1, <4>2, <4>3
    <3>2. Live \subseteq Threads /\ Live' \subseteq Threads
      BY DEF Live
    <3> QED BY <3>1, <3>2
  <2>4. Joining' = Joining \ {p}
    BY <1>0, <1>2, <1>3, <2>1 DEF Joining
  <2> QED BY <2>3, <2>4
<1>7. FreshExact'
  BY <1>0, <1>1 DEF ProcInv, FreshExact
<1>8. CarcassSeen'
  <2>1. \A t \in Threads : status'[t] = "BLOCKED" /\ pc'[t] = "Finish" => t = c
    BY <1>0, <1>1, <1>3, ThreadsAssumption DEF ProcInv, CarcassSeen, NoCarcassForgotten
  <2> QED BY <1>0, <1>1, <2>1 DEF CarcassSeen, NoCarcassForgotten
<1>9. Parents'
  <2>1. \A t \in Live \ {c} : parent[t] # NoThread => parent[t] \in Joining /\ parent[t] # p
    BY <1>0 DEF ProcInv, Parents, ParentAsleep
  <2>2. \A t \in Threads : status'[t] = "JUST_CREATED" => status[t] = "JUST_CREATED"
    BY <1>3
  <2> QED BY <1>1, <1>6, <2>1, <2>2 DEF ProcInv, Parents, ParentAsleep
<1>10. Active'
  <2>1. /\ activeThreads' \in Seq(Threads) /\ NoDup(activeThreads')
        /\ Range(activeThreads') = Live' \ {Main}
    BY <1>1, <1>6, WithoutThreadExact DEF ProcInv, Active
  <2>2. status'[Main] # "JUST_CREATED"
    BY <1>3, ThreadsAssumption DEF ProcInv, Active
  <2> QED BY <1>1, <1>3, <1>6, <2>1, <2>2 DEF ProcInv, Active
<1>11. Registers'
  BY <1>0, <1>1 DEF ProcInv, Registers, cpuVars
<1> QED BY <1>5, <1>7, <1>8, <1>9, <1>10, <1>11 DEF ProcInv

\* processCreator: the new process deletes the carcass it finds and loads its
\* registers.
LEMMA CreatorKeeps ==
  ASSUME ProcInv, processCreator
  PROVE  ProcInv'
<1> DEFINE c == currentThread
           carcass == threadToBeDestroyed
<1>0. /\ c \in Threads /\ pc[c] = "code" /\ status[c] = "RUNNING" /\ c \in fresh
      /\ status \in [Threads -> ThreadStatus] /\ pc \in [Threads -> PCs]
      /\ carcass # NoThread =>
           carcass # c /\ status[carcass] = "BLOCKED" /\ pc[carcass] = "Finish"
  BY DEF processCreator, InCode, ProcInv, SchedulerInv, TypeOK, PlaceOK, InSleep, CarcassFinished
<1>1. /\ \A t \in Threads : status'[t] = IF t = carcass THEN "DELETED" ELSE status[t]
      /\ status' \in [Threads -> ThreadStatus]
      /\ fresh' = fresh \ {c} /\ machineRegs' = c /\ threadToBeDestroyed' = NoThread
      /\ UNCHANGED <<pc, readyList, currentThread, yieldOnReturn, machineStatus, procVars,
                     userRegisters>>
  BY <1>0 DEF processCreator, ThreadStatus
<1>2. SchedulerInv'
  <2>1. TypeOK'
    BY <1>1 DEF ProcInv, SchedulerInv, TypeOK
  <2>2. PlaceOK'
    BY <1>0, <1>1, ThreadsAssumption DEF ProcInv, SchedulerInv, PlaceOK, InSleep
  <2>3. {t \in Threads : status'[t] = "READY"} = {t \in Threads : status[t] = "READY"}
    BY <1>0, <1>1, ThreadsAssumption
  <2>4. ReadyListExact' /\ CarcassFinished'
    BY <1>1, <2>3 DEF ProcInv, SchedulerInv, ReadyListExact, CarcassFinished
  <2> QED BY <2>1, <2>2, <2>4 DEF SchedulerInv
<1>3. Live' = Live /\ Joining \subseteq Joining'
      /\ \A t \in Threads : status'[t] = "JUST_CREATED" <=> status[t] = "JUST_CREATED"
  BY <1>0, <1>1, ThreadsAssumption DEF Live, Joining
<1>4. FreshExact'
  BY <1>0, <1>1 DEF ProcInv, FreshExact
<1>5. CarcassSeen'
  BY <1>0, <1>1, ThreadsAssumption DEF ProcInv, CarcassSeen, NoCarcassForgotten
<1>6. Parents' /\ Active'
  BY <1>1, <1>3, SameProcesses
<1>7. Registers'
  BY <1>0, <1>1 DEF ProcInv, Registers
<1> QED BY <1>2, <1>4, <1>5, <1>6, <1>7 DEF ProcInv

-----------------------------------------------------------------------------
(* Switches.                                                               *)

\* Thread::Yield, with the registers.
LEMMA YieldBodyKeeps ==
  ASSUME ProcInv, SchedulerInv', pc[currentThread] \in {"code", "OneTick"}, YieldBody,
         SwitchState, UNCHANGED <<procVars, fresh>>
  PROVE  ProcInv'
<1> DEFINE c == currentThread
           next == Head(readyList)
<1>0. /\ c \in Threads /\ status[c] = "RUNNING" /\ status \in [Threads -> ThreadStatus]
      /\ pc \in [Threads -> PCs]
  BY DEF ProcInv, SchedulerInv, TypeOK, PlaceOK, InSleep
<1>1. CASE readyList = <<>>
  <2>1. /\ pc' = [pc EXCEPT ![c] = "OneTick"]
        /\ UNCHANGED <<status, currentThread, threadToBeDestroyed, cpuVars>>
    BY <1>1 DEF YieldBody, SwitchState
  <2> QED BY <2>1, StillKeeps
<1>2. CASE readyList # <<>>
  <2> DEFINE st == [status EXCEPT ![c] = "READY"]
  <2>1. next \in Threads /\ status[next] = "READY" /\ next # c
    BY <1>0, <1>2, HeadIsReady DEF ProcInv
  <2>2. /\ pc' = [pc EXCEPT ![c] = "Yield", ![next] = ResumePoint(next)]
        /\ Run(next, st, threadToBeDestroyed)
    BY <1>2 DEF YieldBody
  <2> HIDE DEF next
  <2>3. /\ pc'[c] = "Yield" /\ pc'[next] = ResumePoint(next)
        /\ \A t \in Threads \ {next, c} : st[t] = status[t] /\ pc'[t] = pc[t]
        /\ st \in [Threads -> ThreadStatus] /\ st[c] = "READY"
    BY <1>0, <2>1, <2>2 DEF ThreadStatus
  <2>4. /\ ResumePoint(next) \in {"Woken", "OneTick"}
        /\ pc[next] # "Sleep" => ResumePoint(next) = "OneTick"
    BY DEF ResumePoint
  <2> HIDE DEF st
  <2> QED BY <1>0, <2>1, <2>2, <2>3, <2>4, SwitchKeeps
<1> QED BY <1>1, <1>2

LEMMA YieldCallKeeps ==
  ASSUME ProcInv, YieldCall
  PROVE  ProcInv'
<1>1. SchedulerInv'
  BY NextKeepsSchedulerInv DEF YieldCall, Next, ProcInv
<1>2. pc[currentThread] = "code" /\ YieldBody /\ SwitchState /\ UNCHANGED <<procVars, fresh>>
  BY DEF YieldCall, Yield, InCode
<1> QED BY <1>1, <1>2, YieldBodyKeeps

LEMMA EndOfTickKeeps ==
  ASSUME ProcInv, EndOfTick
  PROVE  ProcInv'
<1>1. SchedulerInv'
  BY NextKeepsSchedulerInv DEF EndOfTick, Next, ProcInv
<1>2. pc[currentThread] = "OneTick" /\ SwitchState /\ UNCHANGED <<procVars, fresh>>
  BY DEF EndOfTick, OneTickReturn
<1>3. CASE yieldOnReturn
  <2>1. YieldBody
    BY <1>3 DEF EndOfTick, OneTickReturn
  <2> QED BY <1>1, <1>2, <2>1, YieldBodyKeeps
<1>4. CASE ~yieldOnReturn
  <2>1. /\ pc' = [pc EXCEPT ![currentThread] = "code"]
        /\ UNCHANGED <<status, currentThread, threadToBeDestroyed, cpuVars>>
    BY <1>2, <1>4 DEF EndOfTick, OneTickReturn, SwitchState
  <2> QED BY <1>1, <1>2, <2>1, StillKeeps
<1> QED BY <1>3, <1>4

LEMMA PDispatchKeeps ==
  ASSUME ProcInv, PDispatch
  PROVE  ProcInv'
<1> DEFINE next == Head(readyList)
<1>0. currentThread \in Threads /\ status \in [Threads -> ThreadStatus] /\ pc \in [Threads -> PCs]
  BY DEF ProcInv, SchedulerInv, TypeOK
<1>1. SchedulerInv'
  BY NextKeepsSchedulerInv DEF PDispatch, Next, ProcInv
<1>2. next \in Threads /\ status[next] = "READY"
  BY HeadIsReady DEF ProcInv, PDispatch, Dispatch
<1>3. /\ InSleep /\ pc' = [pc EXCEPT ![next] = ResumePoint(next)]
      /\ Run(next, status, threadToBeDestroyed) /\ SwitchState /\ UNCHANGED <<procVars, fresh>>
  BY DEF PDispatch, Dispatch
<1> HIDE DEF next
<1>4. pc'[next] = ResumePoint(next) /\ \A t \in Threads \ {next} : pc'[t] = pc[t]
  BY <1>0, <1>2, <1>3
<1>5. /\ ResumePoint(next) \in {"Woken", "OneTick"}
      /\ pc[next] # "Sleep" => ResumePoint(next) = "OneTick"
  BY DEF ResumePoint
<1> QED BY <1>0, <1>1, <1>2, <1>3, <1>4, <1>5, SwitchKeeps

-----------------------------------------------------------------------------
(* The theorems.                                                           *)

LEMMA ProcNextKeeps == ProcInv /\ [PNext]_pVars => ProcInv'
<1> SUFFICES ASSUME ProcInv, [PNext]_pVars PROVE ProcInv'
  OBVIOUS
<1>1. ASSUME NEW t \in Threads, Exec(t) PROVE ProcInv'
  BY <1>1, ExecKeeps
<1>2. ASSUME NEW t \in Threads, Join(ID[t]) PROVE ProcInv'
  BY <1>2, JoinKeeps
<1>3. CASE UserInstruction \/ JoinReturn
  <2>1. /\ Critical /\ UNCHANGED <<procVars, fresh, cpuVars>>
    BY <1>3 DEF UserInstruction, JoinReturn
  <2>2. SchedulerInv'
    BY <2>1, NextKeepsSchedulerInv DEF Next, ProcInv
  <2>3. /\ pc[currentThread] \in {"code", "Woken"} /\ pc' = [pc EXCEPT ![currentThread] = "OneTick"]
        /\ UNCHANGED <<status, currentThread, threadToBeDestroyed>>
    BY <2>1 DEF Critical, InClient
  <2> QED BY <2>1, <2>2, <2>3, StillKeeps
<1>4. CASE Exit
  BY <1>4, ExitKeeps
<1>5. CASE HaltCall
  <2>1. /\ UNCHANGED <<status, pc, readyList, currentThread, threadToBeDestroyed, yieldOnReturn>>
        /\ UNCHANGED <<procVars, fresh, cpuVars>> /\ machineStatus' = "Halted"
    BY <1>5 DEF HaltCall
  <2>2. SchedulerInv'
    BY <2>1 DEF ProcInv, SchedulerInv, TypeOK, PlaceOK, InSleep, ReadyListExact, CarcassFinished
  <2> QED BY <2>1, <2>2, StillKeeps
<1>6. CASE YieldCall
  BY <1>6, YieldCallKeeps
<1>7. CASE processCreator
  BY <1>7, CreatorKeeps
<1>8. CASE EndOfTick
  BY <1>8, EndOfTickKeeps
<1>9. CASE PDispatch
  BY <1>9, PDispatchKeeps
<1>10. CASE Tick
  <2>1. Interrupt /\ UNCHANGED <<procVars, fresh, cpuVars>>
    BY <1>10 DEF Tick, TimerTick, Interrupt, Handler
  <2>2. SchedulerInv'
    BY <2>1, NextKeepsSchedulerInv DEF Next, ProcInv
  <2>3. UNCHANGED <<status, pc, currentThread, threadToBeDestroyed>>
    BY <1>10 DEF Tick, TimerTick, TimerInterruptHandler
  <2> QED BY <2>1, <2>2, <2>3, StillKeeps
<1>11. CASE PHalt
  <2>1. SchedulerInv'
    BY <1>11, NextKeepsSchedulerInv DEF PHalt, Next, ProcInv
  <2>2. UNCHANGED <<status, pc, currentThread, threadToBeDestroyed, procVars, fresh, cpuVars>>
    BY <1>11 DEF PHalt, Halt
  <2> QED BY <2>1, <2>2, StillKeeps
<1>12. CASE (Halted /\ UNCHANGED <<procVars, fresh, cpuVars>>) \/ UNCHANGED pVars
  <2>1. UNCHANGED vars /\ UNCHANGED <<procVars, fresh, cpuVars>>
    BY <1>12 DEF Halted, pVars
  <2>2. SchedulerInv'
    BY <2>1, NextKeepsSchedulerInv DEF ProcInv
  <2>3. UNCHANGED <<status, pc, currentThread, threadToBeDestroyed>>
    BY <2>1 DEF vars
  <2> QED BY <2>1, <2>2, <2>3, StillKeeps
<1> QED BY <1>1, <1>2, <1>3, <1>4, <1>5, <1>6, <1>7, <1>8, <1>9, <1>10, <1>11, <1>12 DEF PNext

\* The inductive invariant holds in every reachable state.
THEOREM ProcessesInvariant == PSpec => []ProcInv
  BY ProcInitInv, ProcNextKeeps, PTL DEF PSpec

\* For any number of processes, the process layer keeps the scheduler's
\* invariant, forgets no carcass, and the list of active threads is exact.
THEOREM ProcessesSafe == PSpec => []ProcessesKeepScheduler
<1>1. ProcInv => ProcessesKeepScheduler
  <2> SUFFICES ASSUME ProcInv PROVE ProcessesKeepScheduler
    OBVIOUS
  <2>1. PTypeOK
    BY DEF ProcInv, PTypeOK, Parents, Active, FreshExact, Registers
  <2>2. ActiveExact
    <3>1. /\ Range(activeThreads) = Live \ {Main} /\ NoDup(activeThreads)
          /\ DOMAIN activeThreads = 1..Len(activeThreads)
      BY LenProperties DEF ProcInv, Active
    <3>2. \A i \in 1..Len(activeThreads) : activeThreads[i] \in Live \ {Main}
      BY <3>1 DEF Range
    <3> QED BY <3>1, <3>2 DEF ProcInv, Active, ActiveExact, NoDup
  <2> QED BY <2>1, <2>2 DEF ProcInv, CarcassSeen, ProcessesKeepScheduler
<1> QED BY <1>1, ProcessesInvariant, PTL

\* For any number of processes, Finish wakes only a process asleep in Join,
\* and no sleeping process has two children that could wake it.
THEOREM JoinersSafe == PSpec => []ParentAsleep
<1>1. ProcInv => ParentAsleep
  BY DEF ProcInv, Parents
<1> QED BY <1>1, ProcessesInvariant, PTL

\* For any number of processes, user instructions execute with the registers
\* of their own process (Scheduler::Run, processCreator).
THEOREM RegistersSafe == PSpec => []OwnRegisters
<1>1. ProcInv => OwnRegisters
  BY DEF ProcInv, Registers, OwnRegisters, InUser
<1> QED BY <1>1, ProcessesInvariant, PTL

=============================================================================
