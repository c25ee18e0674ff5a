--------------------------- MODULE ReentrantMutex ---------------------------
(***************************************************************************)
(* What config_lock promises to the code that uses it (locking.py:1-6):    *)
(* vision-relay's own writers queue up, one at a time, and the thread that *)
(* is inside may enter again.  How the queue is kept (polling, deadlines,  *)
(* a thread-local counter) is no part of the promise.                      *)
(***************************************************************************)
EXTENDS Naturals

CONSTANTS Threads,  \* the threads of all vision-relay processes
          Nobody    \* owner of a free lock

VARIABLES owner,    \* the thread inside, or Nobody
          entered   \* how many with-blocks the owner has open

abstractVars == <<owner, entered>>

Init == owner = Nobody /\ entered = 0

\* A thread gets in, only when nobody is.
Take(t) == owner = Nobody /\ owner' = t /\ entered' = 1

\* The thread inside opens a nested block.
Again(t) == owner = t /\ entered' = entered + 1 /\ UNCHANGED owner

\* It closes a nested block, or the last one and is out.
Leave(t) ==
  /\ owner = t
  /\ entered' = entered - 1
  /\ owner' = IF entered = 1 THEN Nobody ELSE t

\* Its process dies; the operating system takes the lock back.
Die(t) == owner = t /\ owner' = Nobody /\ entered' = 0

Next == \E t \in Threads : Take(t) \/ Again(t) \/ Leave(t) \/ Die(t)

Spec == Init /\ [][Next]_abstractVars
=============================================================================
