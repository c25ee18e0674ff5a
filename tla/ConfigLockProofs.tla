-------------------------- MODULE ConfigLockProofs --------------------------
(***************************************************************************)
(* Proofs about ConfigLock, for any number of threads and processes and    *)
(* any nesting.  The inductive invariant says who may have the lock:       *)
(*   - a thread with a positive counter, or inside a try_config_lock       *)
(*     block, is the holder;                                               *)
(*   - the holder has one of the two, never both;                          *)
(*   - a thread that polls has a zero counter.                             *)
(***************************************************************************)
EXTENDS ConfigLock, TLAPS

\* The holder is inside in exactly one of the two ways.
HolderIsInside ==
  \A t \in Threads :
    /\ trying[t] => holder = t
    /\ holder = t => Inside(t)

\* A thread polls only from outside its own config_lock blocks.
PollersAreOutside == \A t \in Threads : wait[t] # "no" => depth[t] = 0

IInv == TypeOK /\ CounterIsHonest /\ HolderIsInside /\ PollersAreOutside

LEMMA InitIInv == Init => IInv
BY LockAssumption
   DEF Init, IInv, TypeOK, CounterIsHonest, HolderIsInside,
       PollersAreOutside, Inside

LEMMA StepIInv ==
  ASSUME IInv, [Next]_vars
  PROVE  IInv'
<1> USE LockAssumption
        DEF IInv, TypeOK, CounterIsHonest, HolderIsInside, PollersAreOutside,
            Inside
<1>1. ASSUME NEW t \in Threads, Reenter(t) PROVE IInv'
  BY <1>1 DEF Reenter
<1>2. ASSUME NEW t \in Threads, Ask(t) PROVE IInv'
  BY <1>2 DEF Ask
<1>3. ASSUME NEW t \in Threads, Acquire(t) PROVE IInv'
  BY <1>3 DEF Acquire
<1>4. ASSUME NEW t \in Threads, Deadline(t) PROVE IInv'
  BY <1>4 DEF Deadline
<1>5. ASSUME NEW t \in Threads, TimeOut(t) PROVE IInv'
  BY <1>5 DEF TimeOut
<1>6. ASSUME NEW t \in Threads, ExitInner(t) PROVE IInv'
  BY <1>6 DEF ExitInner
<1>7. ASSUME NEW t \in Threads, ExitOuter(t) PROVE IInv'
  BY <1>7 DEF ExitOuter
<1>8. ASSUME NEW t \in Threads, TryEnter(t) PROVE IInv'
  BY <1>8 DEF TryEnter
<1>9. ASSUME NEW t \in Threads, TryExit(t) PROVE IInv'
  BY <1>9 DEF TryExit
<1>10. ASSUME NEW p \in Processes, Crash(p) PROVE IInv'
  <2>1. TypeOK'
    BY <1>10 DEF Crash
  <2>2. ASSUME NEW t \in Threads, ProcessOf[t] = p
        PROVE  /\ depth'[t] = 0 /\ blocks'[t] = 0
               /\ ~ trying'[t] /\ wait'[t] = "no" /\ holder' # t
    BY <1>10, <2>2 DEF Crash
  <2>3. ASSUME NEW t \in Threads, ProcessOf[t] # p
        PROVE  /\ depth'[t] = depth[t] /\ blocks'[t] = blocks[t]
               /\ trying'[t] = trying[t] /\ wait'[t] = wait[t]
               /\ holder = t <=> holder' = t
    BY <1>10, <2>3 DEF Crash
  <2>4. CounterIsHonest' /\ HolderIsInside' /\ PollersAreOutside'
    BY <2>2, <2>3
  <2> QED
    BY <2>1, <2>4
<1>11. CASE UNCHANGED vars
  BY <1>11 DEF vars
<1> QED
  BY <1>1, <1>2, <1>3, <1>4, <1>5, <1>6, <1>7, <1>8, <1>9, <1>10, <1>11
     DEF Next, Step

THEOREM Invariance == Spec => []IInv
BY InitIInv, StepIInv, PTL DEF Spec

\* Every record of the lock keeps its shape: no counter of a thread falls
\* below zero, whatever is nested and whoever dies (config_lock.py).
THEOREM Types == Spec => []TypeOK
<1>1. IInv => TypeOK
  BY DEF IInv
<1> QED
  BY <1>1, Invariance, PTL

\* The counter and the lock agree in every reachable state.
THEOREM HonestCounter == Spec => []CounterIsHonest
<1>1. IInv => CounterIsHonest
  BY DEF IInv
<1> QED
  BY <1>1, Invariance, PTL

\* Two threads are never inside at once, however many there are.
THEOREM Exclusion == Spec => []MutualExclusion
<1>1. IInv => MutualExclusion
  BY DEF IInv, TypeOK, CounterIsHonest, HolderIsInside, Inside,
         MutualExclusion
<1> QED
  BY <1>1, Invariance, PTL

\* The lock leaves its holder only through the holder's own last exit or
\* through the death of its process.
THEOREM Release == Spec => OnlyTheHolderReleases
<1> DEFINE Kept ==
      \A t \in Threads :
        holder = t /\ holder' # t
          => \/ TryExit(t) \/ ExitOuter(t)
             \/ \E p \in Processes : ProcessOf[t] = p /\ Crash(p)
<1>1. ASSUME IInv, [Next]_vars PROVE [Kept]_vars
  <2>1. ASSUME NEW t \in Threads, holder = t, holder' # t
        PROVE  \/ TryExit(t) \/ ExitOuter(t)
               \/ \E p \in Processes : ProcessOf[t] = p /\ Crash(p)
    <3>1. ASSUME NEW u \in Threads, Step(u)
          PROVE  TryExit(t) \/ ExitOuter(t)
      BY <3>1, <2>1, LockAssumption
         DEF Step, Reenter, Ask, Acquire, Deadline, TimeOut, ExitInner,
             ExitOuter, TryEnter, TryExit
    <3>2. ASSUME NEW p \in Processes, Crash(p)
          PROVE  ProcessOf[t] = p /\ Crash(p)
      BY <3>2, <2>1 DEF Crash
    <3>3. ~ UNCHANGED vars
      BY <2>1 DEF vars
    <3> QED
      BY <3>1, <3>2, <3>3, <1>1 DEF Next
  <2> QED
    BY <2>1
<1> QED
  BY <1>1, Invariance, PTL DEF Spec, OnlyTheHolderReleases

\* The polling lock with its thread-local counter implements the re-entrant
\* mutex its callers think of.
THEOREM Refinement == Spec => Implements
<1> DEFINE Count == IF holder = Nobody THEN 0
                    ELSE blocks[holder] + (IF trying[holder] THEN 1 ELSE 0)
<1>1. Init => Mutex!Init
  BY DEF Init, Mutex!Init
<1>2. ASSUME IInv, IInv', [Next]_vars PROVE [Mutex!Next]_(Mutex!abstractVars)
  <2> USE <1>2, LockAssumption
          DEF IInv, TypeOK, CounterIsHonest, HolderIsInside,
              PollersAreOutside, Inside
  <2> SUFFICES ASSUME ~ UNCHANGED <<holder, Count>>
               PROVE  Mutex!Next
    BY DEF Mutex!abstractVars
  <2>1. ASSUME NEW t \in Threads, Reenter(t) PROVE Mutex!Again(t)
    BY <2>1 DEF Reenter, Mutex!Again
  <2>2. ASSUME NEW t \in Threads, Acquire(t) PROVE Mutex!Take(t)
    BY <2>2 DEF Acquire, Mutex!Take
  <2>3. ASSUME NEW t \in Threads, ExitInner(t) PROVE Mutex!Leave(t)
    BY <2>3 DEF ExitInner, Mutex!Leave
  <2>4. ASSUME NEW t \in Threads, ExitOuter(t) PROVE Mutex!Leave(t)
    BY <2>4 DEF ExitOuter, Mutex!Leave
  <2>5. ASSUME NEW t \in Threads, TryEnter(t) PROVE Mutex!Take(t)
    BY <2>5 DEF TryEnter, Mutex!Take
  <2>6. ASSUME NEW t \in Threads, TryExit(t) PROVE Mutex!Leave(t)
    BY <2>6 DEF TryExit, Mutex!Leave
  <2>7. ASSUME NEW t \in Threads, Ask(t) \/ Deadline(t) \/ TimeOut(t)
        PROVE  FALSE
    BY <2>7 DEF Ask, Deadline, TimeOut
  <2>8. ASSUME NEW p \in Processes, Crash(p)
        PROVE  holder \in Threads /\ Mutex!Die(holder)
    <3>1. CASE holder \in Threads /\ ProcessOf[holder] = p
      BY <2>8, <3>1 DEF Crash, Mutex!Die
    <3>2. CASE ~ (holder \in Threads /\ ProcessOf[holder] = p)
      BY <2>8, <3>2 DEF Crash
    <3> QED
      BY <3>1, <3>2
  <2>9. ~ UNCHANGED vars
    BY DEF vars
  <2> QED
    BY <2>1, <2>2, <2>3, <2>4, <2>5, <2>6, <2>7, <2>8, <2>9
       DEF Next, Step, Mutex!Next
<1> QED
  BY <1>1, <1>2, Invariance, PTL DEF Spec, Implements, Mutex!Spec
=============================================================================
