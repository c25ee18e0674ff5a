---------------------------- MODULE VisionPipeline ----------------------------
(***************************************************************************)
(* The image side of a request (pipeline.py) and what requests share: the  *)
(* description cache (cache.py) and the semaphore in front of the vision   *)
(* model.  Every request is a thread; the cache is an OrderedDict without  *)
(* a lock, whose single operations are atomic and whose get and put are    *)
(* not.                                                                    *)
(*                                                                         *)
(* A request works through its images in order: those of the current turn, *)
(* the golden window of recent history, the deep history.  History images  *)
(* are looked up twice, once to decide whether a model call would have to  *)
(* be paid from the budget and once to use the description.                *)
(***************************************************************************)
EXTENDS Naturals, Sequences, FiniteSets, SequencesExt

CONSTANTS
  Requests,     \* threads that run Pipeline.process on a text-only model
  Keys,         \* cache keys: an image, with or without a question
  Plan,         \* Plan[r]: the images of r, as [place, key], in order
  Capacity,     \* of the cache
  Permits,      \* of the semaphore
  MaxAttempts,  \* VLM_MAX_ATTEMPTS
  Quota         \* model calls the budget allows for history images

Places == {"current", "golden", "deep"}

ASSUME PipelineAssumption ==
  /\ Plan \in [Requests -> Seq([place : Places, key : Keys])]
  /\ \A n \in {Capacity, Permits, MaxAttempts, Quota} : n \in Nat \ {0}

VARIABLES
  store,      \* keys of the cache, oldest use first
  aged,       \* those of them that are past their time to live
  permits,    \* permits left in the semaphore
  req,        \* req[r]: where r is
  spent,      \* history: history images r called the model for
  disturbed   \* history: another request or the clock came between r's steps

vars == <<store, aged, permits, req, spent, disturbed>>

\* next: the image in hand; item: what get has read; quota: budget left;
\* tries: failed calls for the image in hand.
Init ==
  /\ store = <<>>
  /\ aged = {}
  /\ permits = Permits
  /\ req = [r \in Requests |->
              [pc |-> "new", next |-> 1, item |-> "none", quota |-> Quota,
               tries |-> 0]]
  /\ spent = [r \in Requests |-> 0]
  /\ disturbed = [r \in Requests |-> FALSE]

Target(r) == Plan[r][req[r].next]
Key(r)    == Target(r).key
Cached(k) == Contains(store, k)

\* The cache without its entry k.
Without(k) == RemoveAt(store, CHOOSE i \in 1..Len(store) : store[i] = k)

Ended(r)  == req[r].pc \in {"done", "raised"}
Active(r) == req[r].pc # "new" /\ ~ Ended(r)

\* A request that runs while another one does is disturbed by it.
Meets(r) ==
  disturbed' = [q \in Requests |->
                  \/ disturbed[q]
                  \/ q # r /\ Active(q)
                  \/ q = r /\ \E p \in Requests \ {r} : Active(p)]

\* r goes to pc with the image in hand.
Goes(r, pc) == req' = [req EXCEPT ![r].pc = pc]

\* The image in hand is injected or stripped, and r turns to the next one.
Turns(r, next) ==
  IF next > Len(Plan[r]) THEN "done"
  ELSE IF Plan[r][next].place = "current" THEN "look" ELSE "peek"

Answered(r) ==
  req' = [req EXCEPT ![r] =
            [@ EXCEPT !.next = req[r].next + 1, !.tries = 0, !.item = "none",
                      !.pc = Turns(r, req[r].next + 1)]]

-----------------------------------------------------------------------------
(* Faulty variants of actions below, one per property, that a mistake in   *)
(* pipeline.py or cache.py would give.  Nothing uses them.                 *)

\* An expired entry is deleted, and get goes on.
GetFallsThrough(r) ==
  /\ req[r].pc \in {"peeked", "looked"} /\ req[r].item = "old"
  /\ Cached(Key(r))
  /\ Goes(r, "raised")
  /\ store' = Without(Key(r))
  /\ aged' = aged \ {Key(r)}
  /\ UNCHANGED <<permits, spent>>
  /\ Meets(r)

\* Only the deep history asks the budget.
PeekMissUnpaid(r) ==
  /\ req[r].pc = "missed"
  /\ IF Target(r).place = "golden" THEN Goes(r, "look") ELSE Answered(r)
  /\ UNCHANGED <<store, aged, permits, spent>>
  /\ Meets(r)

\* A semaphore for each request.
WaitAlone(r) ==
  /\ req[r].pc = "wait"
  /\ permits' = IF permits = 0 THEN 0 ELSE permits - 1
  /\ spent' = [spent EXCEPT ![r] =
                 IF Target(r).place # "current" /\ req[r].tries = 0
                 THEN @ + 1 ELSE @]
  /\ Goes(r, "call")
  /\ UNCHANGED <<store, aged>>
  /\ Meets(r)

\* A failed call keeps its permit.
FailsHolding(r) ==
  /\ req[r].pc = "call"
  /\ \E retryable \in BOOLEAN :
       IF retryable /\ req[r].tries + 1 < MaxAttempts
       THEN req' = [req EXCEPT ![r] = [@ EXCEPT !.pc = "backoff",
                                                !.tries = req[r].tries + 1]]
       ELSE Answered(r)
  /\ UNCHANGED <<store, aged, permits, spent>>
  /\ Meets(r)

\* The except clause releases the permit that the with block gives back.
FailsTwice(r) ==
  /\ req[r].pc = "call"
  /\ permits' = permits + 2
  /\ Answered(r)
  /\ UNCHANGED <<store, aged, spent>>
  /\ Meets(r)

\* The bound is off by one.
EvictLate(r) ==
  /\ req[r].pc = "evict"
  /\ IF Len(store) > Capacity + 1 THEN Goes(r, "pop") ELSE Answered(r)
  /\ UNCHANGED <<store, aged, permits, spent>>
  /\ Meets(r)

-----------------------------------------------------------------------------
(* DescriptionCache.get, for both looks                                    *)

\* self._store.get and the look at the item's age
GetRead(r) ==
  /\ req[r].pc \in {"peek", "look"}
  /\ LET peek == req[r].pc = "peek"
     IN  IF Cached(Key(r))
         THEN req' = [req EXCEPT ![r] =
                [@ EXCEPT !.pc = IF peek THEN "peeked" ELSE "looked",
                          !.item = IF Key(r) \in aged THEN "old" ELSE "fresh"]]
         ELSE Goes(r, IF peek THEN "missed" ELSE "wait")
  /\ UNCHANGED <<store, aged, permits, spent>>
  /\ Meets(r)

\* An expired item: del self._store[key], and get returns None.
GetExpired(r) ==
  /\ req[r].pc \in {"peeked", "looked"} /\ req[r].item = "old"
  /\ Cached(Key(r))
  /\ store' = Without(Key(r))
  /\ aged' = aged \ {Key(r)}
  /\ Goes(r, IF req[r].pc = "peeked" THEN "missed" ELSE "wait")
  /\ UNCHANGED <<permits, spent>>
  /\ Meets(r)

\* A fresh one: move_to_end.  The first look sends the image to the second,
\* the second injects it.
GetHit(r) ==
  /\ req[r].pc \in {"peeked", "looked"} /\ req[r].item = "fresh"
  /\ Cached(Key(r))
  /\ store' = Append(Without(Key(r)), Key(r))
  /\ IF req[r].pc = "peeked" THEN Goes(r, "look") ELSE Answered(r)
  /\ UNCHANGED <<aged, permits, spent>>
  /\ Meets(r)

\* KeyError from either of them: the entry is gone since it was read.  No
\* try block is around get; do_POST answers 502.
GetRaises(r) ==
  /\ req[r].pc \in {"peeked", "looked"}
  /\ ~ Cached(Key(r))
  /\ Goes(r, "raised")
  /\ UNCHANGED <<store, aged, permits, spent>>
  /\ Meets(r)

-----------------------------------------------------------------------------
(* Pipeline.process and _handle_one                                        *)

Begin(r) ==
  /\ req[r].pc = "new"
  /\ Goes(r, Turns(r, 1))
  /\ UNCHANGED <<store, aged, permits, spent>>
  /\ Meets(r)

\* The prompt leaves no room for descriptions: every image is stripped.
ContextFull(r) ==
  /\ req[r].pc = "new"
  /\ Goes(r, "done")
  /\ UNCHANGED <<store, aged, permits, spent>>
  /\ Meets(r)

\* A history image without a description: the golden window pays a call from
\* the budget while it lasts, everything else is stripped.
PeekMiss(r) ==
  /\ req[r].pc = "missed"
  /\ IF Target(r).place = "golden" /\ req[r].quota > 0
     THEN req' = [req EXCEPT ![r] = [@ EXCEPT !.pc = "look",
                                              !.quota = req[r].quota - 1]]
     ELSE Answered(r)
  /\ UNCHANGED <<store, aged, permits, spent>>
  /\ Meets(r)

\* with self.semaphore
Wait(r) ==
  /\ req[r].pc = "wait"
  /\ permits > 0
  /\ permits' = permits - 1
  /\ spent' = [spent EXCEPT ![r] =
                 IF Target(r).place # "current" /\ req[r].tries = 0
                 THEN @ + 1 ELSE @]
  /\ Goes(r, "call")
  /\ UNCHANGED <<store, aged>>
  /\ Meets(r)

\* describe returns.
Describes(r) ==
  /\ req[r].pc = "call"
  /\ permits' = permits + 1
  /\ Goes(r, "insert")
  /\ UNCHANGED <<store, aged, spent>>
  /\ Meets(r)

\* describe raises: one more attempt after a pause, if the error is one that
\* may pass and attempts are left; otherwise the image is stripped.
Fails(r) ==
  /\ req[r].pc = "call"
  /\ permits' = permits + 1
  /\ \E retryable \in BOOLEAN :
       IF retryable /\ req[r].tries + 1 < MaxAttempts
       THEN req' = [req EXCEPT ![r] = [@ EXCEPT !.pc = "backoff",
                                                !.tries = req[r].tries + 1]]
       ELSE Answered(r)
  /\ UNCHANGED <<store, aged, spent>>
  /\ Meets(r)

\* time.sleep(_backoff(attempt))
BackedOff(r) ==
  /\ req[r].pc = "backoff"
  /\ Goes(r, "wait")
  /\ UNCHANGED <<store, aged, permits, spent>>
  /\ Meets(r)

-----------------------------------------------------------------------------
(* DescriptionCache.put                                                    *)

\* self._store[key] = ...: a present key keeps its place.
Insert(r) ==
  /\ req[r].pc = "insert"
  /\ store' = IF Cached(Key(r)) THEN store ELSE Append(store, Key(r))
  /\ aged' = aged \ {Key(r)}
  /\ Goes(r, "touch")
  /\ UNCHANGED <<permits, spent>>
  /\ Meets(r)

\* move_to_end
Touch(r) ==
  /\ req[r].pc = "touch" /\ Cached(Key(r))
  /\ store' = Append(Without(Key(r)), Key(r))
  /\ Goes(r, "evict")
  /\ UNCHANGED <<aged, permits, spent>>
  /\ Meets(r)

\* while len(self._store) > self.capacity: when it is not, the description
\* is injected.
Evict(r) ==
  /\ req[r].pc = "evict"
  /\ IF Len(store) > Capacity THEN Goes(r, "pop") ELSE Answered(r)
  /\ UNCHANGED <<store, aged, permits, spent>>
  /\ Meets(r)

\* self._store.popitem(last=False)
Pop(r) ==
  /\ req[r].pc = "pop" /\ store # <<>>
  /\ store' = Tail(store)
  /\ aged' = aged \ {Head(store)}
  /\ Goes(r, "evict")
  /\ UNCHANGED <<permits, spent>>
  /\ Meets(r)

\* KeyError from move_to_end, or from popitem on what other threads have
\* emptied, inside the try block: the image is stripped although the model
\* described it, and nothing more is evicted.
PutRaises(r) ==
  /\ \/ req[r].pc = "touch" /\ ~ Cached(Key(r))
     \/ req[r].pc = "pop" /\ store = <<>>
  /\ Answered(r)
  /\ UNCHANGED <<store, aged, permits, spent>>
  /\ Meets(r)

-----------------------------------------------------------------------------
\* A day passes for an entry.
Age(k) ==
  /\ Cached(k) /\ k \notin aged
  /\ aged' = aged \cup {k}
  /\ disturbed' = [r \in Requests |-> disturbed[r] \/ Active(r)]
  /\ UNCHANGED <<store, permits, req, spent>>

Step(r) ==
  \/ GetRead(r) \/ GetExpired(r) \/ GetHit(r) \/ GetRaises(r)
  \/ PeekMiss(r) \/ Wait(r) \/ Describes(r) \/ Fails(r) \/ BackedOff(r)
  \/ Insert(r) \/ Touch(r) \/ Evict(r) \/ Pop(r) \/ PutRaises(r)

Next ==
  \/ \E r \in Requests : Begin(r) \/ ContextFull(r) \/ Step(r)
  \/ \E k \in Keys : Age(k)

Spec == Init /\ [][Next]_vars

\* Threads run, and the model answers or times out (httpx timeout, vlm.py).
LiveSpec == Spec /\ \A r \in Requests : WF_vars(Step(r))

-----------------------------------------------------------------------------
(* Properties *)

ReqState ==
  [pc : {"new", "peek", "peeked", "missed", "look", "looked", "wait", "call",
         "backoff", "insert", "touch", "evict", "pop", "done", "raised"},
   next : Nat \ {0}, item : {"none", "old", "fresh"}, quota : 0..Quota,
   tries : 0..MaxAttempts]

TypeOK ==
  /\ store \in Seq(Keys) /\ IsInjective(store)
  /\ aged \subseteq ToSet(store)
  /\ permits \in 0..Permits
  /\ req \in [Requests -> ReqState]
  /\ spent \in [Requests -> Nat]
  /\ disturbed \in [Requests -> BOOLEAN]

\* At most as many model calls run as the semaphore has permits, whatever
\* fails, is retried or arrives meanwhile (pipeline.py:94, :261).
CallsBounded == Cardinality({r \in Requests : req[r].pc = "call"}) <= Permits

\* When nobody is inside put, the cache is within its capacity, although a
\* put that loses its entry to another thread leaves without evicting.
CacheBounded ==
  (\A r \in Requests : req[r].pc \notin {"touch", "evict", "pop"})
    => Len(store) <= Capacity

\* Only another thread's interference makes the cache raise into a request:
\* misses, expiry, failures and retries alone never do (fail-open,
\* pipeline.py:220).
OnlyRacesRaise == \A r \in Requests : req[r].pc = "raised" => disturbed[r]

\* A request that nothing disturbs calls the model for at most as many
\* history images as the budget allows (pipeline.py:140-153).
BudgetHolds == \A r \in Requests : ~ disturbed[r] => spent[r] <= Quota

\* Every request ends, whatever the model does and however many requests
\* contend for the permits.
EveryRequestEnds == \A r \in Requests : Active(r) ~> Ended(r)
=============================================================================
