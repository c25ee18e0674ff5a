----------------------------- MODULE ConfigLock -----------------------------
(***************************************************************************)
(* locking.py: the lock every writer of vision-relay is meant to hold.     *)
(* Several processes, each with several threads, share one lock file.      *)
(*                                                                         *)
(* A thread that calls config_lock() looks at a thread-local counter: when *)
(* it is positive the thread is already inside and passes at once,         *)
(* otherwise it opens its own descriptor and polls flock() until it gets   *)
(* the lock or its deadline is over.  try_config_lock() makes one real     *)
(* attempt and never looks at the counter.                                 *)
(*                                                                         *)
(* flock() belongs to the open file description, so two descriptors of one *)
(* thread exclude each other just as two processes do; a process that dies *)
(* loses its descriptors and with them the lock.                           *)
(***************************************************************************)
EXTENDS Naturals

CONSTANTS Threads,    \* all threads
          Processes,  \* all processes
          ProcessOf,  \* the process each thread runs in
          Nobody,     \* holder of a free lock
          MaxNest     \* bound: with-blocks of config_lock one thread nests

ASSUME LockAssumption ==
  /\ Nobody \notin Threads
  /\ ProcessOf \in [Threads -> Processes]
  /\ MaxNest \in Nat \ {0}

VARIABLES
  holder,   \* the thread whose descriptor has the flock, or Nobody
  depth,    \* depth[t]: _reentrant.depth, the thread-local counter
  blocks,   \* blocks[t]: with config_lock() blocks open on t's call stack
  trying,   \* trying[t]: t is inside the block try_config_lock() gave it
  wait      \* wait[t]: "no", "polling", or "overdue" when the deadline is over

vars == <<holder, depth, blocks, trying, wait>>

TypeOK ==
  /\ holder \in Threads \cup {Nobody}
  /\ depth \in [Threads -> Nat]
  /\ blocks \in [Threads -> Nat]
  /\ trying \in [Threads -> BOOLEAN]
  /\ wait \in [Threads -> {"no", "polling", "overdue"}]

Init ==
  /\ holder = Nobody
  /\ depth = [t \in Threads |-> 0]
  /\ blocks = [t \in Threads |-> 0]
  /\ trying = [t \in Threads |-> FALSE]
  /\ wait = [t \in Threads |-> "no"]

-----------------------------------------------------------------------------
(* Faulty variants of the actions below, one per property, that a mistake  *)
(* in locking.py would give.  No action uses them.                         *)

\* A finally clause that counts down without asking whether it counted up.
TimeOutCountsDown(t) ==
  /\ wait[t] = "overdue"
  /\ holder # Nobody
  /\ wait' = [wait EXCEPT ![t] = "no"]
  /\ depth' = [depth EXCEPT ![t] = @ - 1]
  /\ UNCHANGED <<holder, blocks, trying>>

\* lockf() for flock(): closing any descriptor drops the process's lock.
TimeOutDropsLock(t) ==
  /\ wait[t] = "overdue"
  /\ holder # Nobody
  /\ wait' = [wait EXCEPT ![t] = "no"]
  /\ holder' = IF ProcessOf[holder] = ProcessOf[t] THEN Nobody ELSE holder
  /\ UNCHANGED <<depth, blocks, trying>>

\* A blocking flock() for a thread that waits for itself.
TimeOutForOthers(t) ==
  /\ wait[t] = "overdue"
  /\ holder \notin {Nobody, t}
  /\ wait' = [wait EXCEPT ![t] = "no"]
  /\ UNCHANGED <<holder, depth, blocks, trying>>

\* lockf() for flock(): a second descriptor of the process gets the lock too.
AcquirePerProcess(t) ==
  /\ wait[t] # "no"
  /\ holder # Nobody => ProcessOf[holder] = ProcessOf[t]
  /\ holder' = t
  /\ depth' = [depth EXCEPT ![t] = 1]
  /\ blocks' = [blocks EXCEPT ![t] = @ + 1]
  /\ wait' = [wait EXCEPT ![t] = "no"]
  /\ UNCHANGED trying

\* A nested block whose exception path misses the decrement.
ExitInnerKeepsCount(t) ==
  /\ wait[t] = "no"
  /\ blocks[t] > 1
  /\ blocks' = [blocks EXCEPT ![t] = @ - 1]
  /\ UNCHANGED <<holder, depth, trying, wait>>

\* An outermost exit that unlocks and leaves the counter positive.
ExitOuterKeepsCount(t) ==
  /\ wait[t] = "no"
  /\ blocks[t] = 1
  /\ blocks' = [blocks EXCEPT ![t] = 0]
  /\ holder' = IF holder = t THEN Nobody ELSE holder
  /\ UNCHANGED <<depth, trying, wait>>

-----------------------------------------------------------------------------
(* config_lock *)

\* Already inside: the counter goes up and no system call is made.
Reenter(t) ==
  /\ wait[t] = "no"
  /\ depth[t] > 0
  /\ blocks[t] < MaxNest
  /\ depth' = [depth EXCEPT ![t] = @ + 1]
  /\ blocks' = [blocks EXCEPT ![t] = @ + 1]
  /\ UNCHANGED <<holder, trying, wait>>

\* Not inside: open a descriptor and start polling.
Ask(t) ==
  /\ wait[t] = "no"
  /\ depth[t] = 0
  /\ blocks[t] < MaxNest
  /\ wait' = [wait EXCEPT ![t] = "polling"]
  /\ UNCHANGED <<holder, depth, blocks, trying>>

\* An attempt that succeeds, before or after the deadline.
Acquire(t) ==
  /\ wait[t] # "no"
  /\ holder = Nobody
  /\ holder' = t
  /\ depth' = [depth EXCEPT ![t] = 1]
  /\ blocks' = [blocks EXCEPT ![t] = @ + 1]
  /\ wait' = [wait EXCEPT ![t] = "no"]
  /\ UNCHANGED trying

\* Thirty seconds pass between two attempts.
Deadline(t) ==
  /\ wait[t] = "polling"
  /\ wait' = [wait EXCEPT ![t] = "overdue"]
  /\ UNCHANGED <<holder, depth, blocks, trying>>

\* An attempt after the deadline fails: TimeoutError.  The finally clause
\* finds the counter at zero, so it unlocks nothing and closes the descriptor.
TimeOut(t) ==
  /\ wait[t] = "overdue"
  /\ holder # Nobody
  /\ wait' = [wait EXCEPT ![t] = "no"]
  /\ UNCHANGED <<holder, depth, blocks, trying>>

\* A nested block ends, by return or by exception.
ExitInner(t) ==
  /\ wait[t] = "no"
  /\ blocks[t] > 1
  /\ depth' = [depth EXCEPT ![t] = @ - 1]
  /\ blocks' = [blocks EXCEPT ![t] = @ - 1]
  /\ UNCHANGED <<holder, trying, wait>>

\* The outermost block ends: counter to zero, unlock, close.
ExitOuter(t) ==
  /\ wait[t] = "no"
  /\ blocks[t] = 1
  /\ depth' = [depth EXCEPT ![t] = 0]
  /\ blocks' = [blocks EXCEPT ![t] = 0]
  /\ holder' = IF holder = t THEN Nobody ELSE holder
  /\ UNCHANGED <<trying, wait>>

-----------------------------------------------------------------------------
(* try_config_lock *)

\* One real attempt on a fresh descriptor.  When it fails the caller gets
\* None and nothing has changed, which is a stuttering step.
TryEnter(t) ==
  /\ wait[t] = "no"
  /\ holder = Nobody
  /\ holder' = t
  /\ trying' = [trying EXCEPT ![t] = TRUE]
  /\ UNCHANGED <<depth, blocks, wait>>

\* The block ends: unlock and close.
TryExit(t) ==
  /\ wait[t] = "no"
  /\ trying[t]
  /\ trying' = [trying EXCEPT ![t] = FALSE]
  /\ holder' = IF holder = t THEN Nobody ELSE holder
  /\ UNCHANGED <<depth, blocks, wait>>

-----------------------------------------------------------------------------
\* A process dies, at any point of any of its threads.  Its descriptors are
\* closed by the kernel; a later process starts with fresh threads.
Crash(p) ==
  LET dead == {t \in Threads : ProcessOf[t] = p}
  IN  /\ holder' = IF holder \in dead THEN Nobody ELSE holder
      /\ depth' = [t \in Threads |-> IF t \in dead THEN 0 ELSE depth[t]]
      /\ blocks' = [t \in Threads |-> IF t \in dead THEN 0 ELSE blocks[t]]
      /\ trying' = [t \in Threads |-> IF t \in dead THEN FALSE ELSE trying[t]]
      /\ wait' = [t \in Threads |-> IF t \in dead THEN "no" ELSE wait[t]]

Step(t) ==
  \/ Reenter(t) \/ Ask(t) \/ Acquire(t) \/ Deadline(t) \/ TimeOut(t)
  \/ ExitInner(t) \/ ExitOuter(t) \/ TryEnter(t) \/ TryExit(t)

Next == (\E t \in Threads : Step(t)) \/ (\E p \in Processes : Crash(p))

Spec == Init /\ [][Next]_vars

\* The polling loop runs on its own: time passes and every attempt returns.
\* Nothing says that a poller ever meets a free lock.
PollingFairness ==
  \A t \in Threads : WF_vars(Deadline(t)) /\ WF_vars(Acquire(t) \/ TimeOut(t))

LiveSpec == Spec /\ PollingFairness

-----------------------------------------------------------------------------
(* Properties *)

\* t runs code that believes it has the lock.
Inside(t) == blocks[t] > 0 \/ trying[t]

\* Two threads are never inside at once, whether they came in through
\* config_lock or through try_config_lock (locking.py:25, :51).
MutualExclusion == \A t, u \in Threads : Inside(t) /\ Inside(u) => t = u

\* The counter that lets config_lock skip the operating system is positive
\* exactly for the thread whose own config_lock descriptor has the lock: a
\* timeout, an exception or a try_config_lock block never leaves it wrong
\* (the token > 0 test of locking.py:27 and the depth > 0 test of :45).
CounterIsHonest ==
  \A t \in Threads :
    /\ depth[t] = blocks[t]
    /\ depth[t] > 0 => holder = t /\ ~ trying[t]

\* The lock leaves a thread only because that thread closed its last block
\* or its process died: no deadline, no failed attempt and no other thread's
\* exit takes it away (locking.py:43-48).
OnlyTheHolderReleases ==
  [][\A t \in Threads :
       holder = t /\ holder' # t
         => \/ TryExit(t) \/ ExitOuter(t)
            \/ \E p \in Processes : ProcessOf[t] = p /\ Crash(p)]_vars

\* A caller of config_lock never polls for ever: it gets in, or its
\* TimeoutError comes (locking.py:107-115), also when the thread that has
\* the lock never lets go, and also when that thread is the caller itself.
WaitEnds == \A t \in Threads : wait[t] # "no" ~> wait[t] = "no"

\* The lock implements the mutex its callers think of.
Mutex == INSTANCE ReentrantMutex WITH
  owner <- holder,
  entered <- IF holder = Nobody THEN 0
             ELSE blocks[holder] + (IF trying[holder] THEN 1 ELSE 0)

Implements == Mutex!Spec
=============================================================================
