------------------------ MODULE VisionPipelineProofs ------------------------
(***************************************************************************)
(* Proofs about VisionPipeline, for any requests, any conversations, any   *)
(* capacity, number of permits and budget.                                 *)
(*                                                                         *)
(* That the permits bound the calls is their accounting (Accounts).  What  *)
(* the code promises of a request nothing disturbs is an invariant of that *)
(* request alone: what it has read of the cache is still so (Steady), and  *)
(* a look that may end in a model call for a history image has either been *)
(* paid from the budget or will find the description (Paid).               *)
(***************************************************************************)
EXTENDS VisionPipeline, SequenceTheorems, FiniteSetTheorems, TLAPS

-----------------------------------------------------------------------------
(* The cache as a sequence without repetitions                             *)

Lru(s) == s \in Seq(Keys) /\ IsInjective(s)

LEMMA Members ==
  ASSUME NEW s, Lru(s)
  PROVE  /\ Len(s) \in Nat
         /\ DOMAIN s = 1..Len(s)
         /\ \A k : k \in ToSet(s) <=> \E i \in 1..Len(s) : s[i] = k
         /\ \A k : Contains(s, k) <=> k \in ToSet(s)
         /\ ToSet(s) \subseteq Keys
<1>1. Len(s) \in Nat /\ DOMAIN s = 1..Len(s) /\ \A i \in 1..Len(s) : s[i] \in Keys
  BY LenProperties, ElementOfSeq DEF Lru
<1> QED
  BY <1>1 DEF ToSet, Contains

LEMMA Appended ==
  ASSUME NEW s, Lru(s), NEW k \in Keys, k \notin ToSet(s)
  PROVE  /\ Lru(Append(s, k))
         /\ Len(Append(s, k)) = Len(s) + 1
         /\ ToSet(Append(s, k)) = ToSet(s) \cup {k}
<1> DEFINE t == Append(s, k)
<1>1. /\ t \in Seq(Keys) /\ Len(t) = Len(s) + 1
      /\ \A i \in 1..Len(s) : t[i] = s[i]
      /\ t[Len(s) + 1] = k
  BY AppendProperties DEF Lru
<1>2. Len(s) \in Nat /\ DOMAIN t = 1..Len(s) + 1 /\ DOMAIN s = 1..Len(s)
  BY <1>1, Members, LenProperties
<1> HIDE DEF t
<1>3. \A i \in 1..Len(s) : s[i] # k
  BY Members
<1>4. IsInjective(t)
  BY <1>1, <1>2, <1>3 DEF IsInjective, Lru
<1>5. ToSet(t) = ToSet(s) \cup {k}
  BY <1>1, <1>2, Z3 DEF ToSet
<1> QED
  BY <1>1, <1>4, <1>5 DEF Lru, t

LEMMA Dropped ==
  ASSUME NEW s, Lru(s), NEW i \in 1..Len(s)
  PROVE  /\ Lru(RemoveAt(s, i))
         /\ Len(RemoveAt(s, i)) = Len(s) - 1
         /\ ToSet(RemoveAt(s, i)) = ToSet(s) \ {s[i]}
<1> DEFINE a == SubSeq(s, 1, i - 1)
           b == SubSeq(s, i + 1, Len(s))
           t == RemoveAt(s, i)
<1>0. Len(s) \in Nat /\ \A j \in 1..Len(s) : s[j] \in Keys
  BY Members, ElementOfSeq DEF Lru
<1>1. /\ a \in Seq(Keys) /\ Len(a) = i - 1
      /\ \A j \in 1..(i - 1) : a[j] = s[j]
  BY <1>0, SubSeqProperties
<1>2. /\ b \in Seq(Keys) /\ Len(b) = Len(s) - i
      /\ \A j \in 1..(Len(s) - i) : b[j] = s[i + j]
  BY <1>0, SubSeqProperties
<1>3. /\ t \in Seq(Keys) /\ Len(t) = Len(s) - 1
      /\ \A j \in 1..(Len(s) - 1) : t[j] = IF j < i THEN s[j] ELSE s[j + 1]
  <2>1. t = a \o b
    BY DEF RemoveAt
  <2> HIDE DEF a, b, t
  <2>2. /\ a \o b \in Seq(Keys) /\ Len(a \o b) = Len(a) + Len(b)
        /\ \A j \in 1..(Len(a) + Len(b)) :
             (a \o b)[j] = IF j <= Len(a) THEN a[j] ELSE b[j - Len(a)]
    BY <1>1, <1>2, ConcatProperties
  <2> QED
    BY <2>1, <2>2, <1>0, <1>1, <1>2
<1>4. DOMAIN t = 1..(Len(s) - 1) /\ DOMAIN s = 1..Len(s)
  BY <1>3, Members, LenProperties
<1> HIDE DEF t
<1>5. IsInjective(t)
  <2> SUFFICES ASSUME NEW j \in 1..(Len(s) - 1), NEW k \in 1..(Len(s) - 1),
                      t[j] = t[k]
               PROVE  j = k
    BY <1>4 DEF IsInjective
  <2> DEFINE m == IF j < i THEN j ELSE j + 1
             n == IF k < i THEN k ELSE k + 1
  <2>1. m \in 1..Len(s) /\ n \in 1..Len(s) /\ s[m] = s[n]
    BY <1>0, <1>3
  <2>2. m = n
    <3> HIDE DEF m, n
    <3> QED
      BY <1>4, <2>1 DEF IsInjective, Lru
  <2> QED
    BY <1>0, <2>2
<1>6. ToSet(t) = ToSet(s) \ {s[i]}
  <2>1. ASSUME NEW k \in ToSet(t) PROVE k \in ToSet(s) \ {s[i]}
    <3>1. PICK j \in 1..(Len(s) - 1) : t[j] = k
      BY <1>4 DEF ToSet
    <3> DEFINE m == IF j < i THEN j ELSE j + 1
    <3>2. m \in 1..Len(s) /\ m # i /\ s[m] = k
      BY <1>0, <1>3, <3>1
    <3> HIDE DEF m
    <3> QED
      BY <1>4, <3>2 DEF ToSet, IsInjective, Lru
  <2>2. ASSUME NEW k \in ToSet(s), k # s[i] PROVE k \in ToSet(t)
    <3>1. PICK j \in 1..Len(s) : s[j] = k
      BY <1>4 DEF ToSet
    <3>2. CASE j < i
      BY <1>0, <1>3, <1>4, <3>1, <3>2 DEF ToSet
    <3>3. CASE j > i
      <4>1. j - 1 \in 1..(Len(s) - 1) /\ t[j - 1] = k
        BY <1>0, <1>3, <3>1, <3>3
      <4> QED
        BY <1>4, <4>1 DEF ToSet
    <3> QED
      BY <1>0, <2>2, <3>1, <3>2, <3>3
  <2> QED
    BY <2>1, <2>2
<1> QED
  BY <1>3, <1>5, <1>6 DEF Lru, t

-----------------------------------------------------------------------------
(* The invariant                                                           *)

Calling == {r \in Requests : req[r].pc = "call"}

Accounts == IsFiniteSet(Calling) /\ permits + Cardinality(Calling) = Permits

\* A request that is under way has an image in hand; it begins with the
\* first one.
InHand ==
  \A r \in Requests :
    /\ Active(r) => req[r].next \in 1..Len(Plan[r])
    /\ req[r].pc = "new" => req[r].next = 1

History(r) == Target(r).place # "current"

\* An undisturbed request finds the entry it has read, as old as it was.
Steady ==
  \A r \in Requests :
    req[r].pc \in {"peeked", "looked"} /\ ~ disturbed[r] =>
      /\ Key(r) \in ToSet(store)
      /\ req[r].item = "fresh" => Key(r) \notin aged

\* One more call for a history image is within r's budget.
Affords(r) == spent[r] + req[r].quota + 1 <= Quota

Paid ==
  \A r \in Requests :
    ~ disturbed[r] =>
      /\ spent[r] + req[r].quota <= Quota
      /\ History(r) =>
           /\ req[r].pc = "look" =>
                Affords(r) \/ Key(r) \in ToSet(store) \ aged
           /\ req[r].pc = "looked" /\ req[r].item = "old" => Affords(r)
           /\ req[r].pc = "wait" /\ req[r].tries = 0 => Affords(r)
      /\ req[r].pc = "backoff" => req[r].tries > 0

IInv == TypeOK /\ InHand /\ Accounts /\ Steady /\ OnlyRacesRaise /\ Paid

-----------------------------------------------------------------------------
(* Types                                                                   *)

LEMMA Constants ==
  /\ Capacity \in Nat \ {0} /\ Permits \in Nat \ {0}
  /\ MaxAttempts \in Nat \ {0} /\ Quota \in Nat \ {0}
  /\ \A r \in Requests : /\ Plan[r] \in Seq([place : Places, key : Keys])
                         /\ Len(Plan[r]) \in Nat
BY PipelineAssumption, LenProperties

\* The image in hand is one of the plan.
LEMMA Hand ==
  ASSUME TypeOK, InHand, NEW r \in Requests, Active(r)
  PROVE  Target(r) \in [place : Places, key : Keys] /\ Key(r) \in Keys
<1>1. Target(r) \in [place : Places, key : Keys]
  BY Constants, ElementOfSeq DEF InHand, Target
<1> QED
  BY <1>1 DEF Key

\* Where a step may lead.
Pcs == {"peek", "peeked", "missed", "look", "looked", "wait", "call",
        "backoff", "insert", "touch", "evict", "pop", "done", "raised"}

\* A request that goes to pc with the image it has.
LEMMA Going ==
  ASSUME TypeOK, InHand, NEW r \in Requests, NEW pc \in Pcs, Goes(r, pc),
         pc \in {"done", "raised"} \/ req[r].next \in 1..Len(Plan[r])
  PROVE  /\ req' \in [Requests -> ReqState] /\ InHand'
         /\ req'[r] = [req[r] EXCEPT !.pc = pc]
         /\ \A q \in Requests \ {r} : req'[q] = req[q]
<1>1. req[r] \in ReqState
  BY DEF TypeOK
<1>2. /\ req'[r] = [req[r] EXCEPT !.pc = pc]
      /\ \A q \in Requests \ {r} : req'[q] = req[q]
      /\ req' \in [Requests -> ReqState]
  BY <1>1 DEF TypeOK, Goes, Pcs, ReqState
<1>3. req'[r].pc = pc /\ req'[r].next = req[r].next /\ pc # "new"
  BY <1>1, <1>2 DEF ReqState, Pcs
<1>4. ASSUME NEW q \in Requests
      PROVE  /\ Active(q)' => req'[q].next \in 1..Len(Plan[q])
             /\ req'[q].pc = "new" => req'[q].next = 1
  <2>1. CASE q = r
    BY <1>3, <2>1 DEF Active, Ended
  <2>2. CASE q # r
    BY <1>2, <2>2 DEF InHand, Active, Ended
  <2> QED
    BY <2>1, <2>2
<1> QED
  BY <1>2, <1>4 DEF InHand

LEMMA TurnsTo ==
  ASSUME NEW r \in Requests, NEW n \in Nat \ {0}
  PROVE  \/ Turns(r, n) = "done"
         \/ /\ n \in 1..Len(Plan[r])
            /\ Turns(r, n) = IF Plan[r][n].place = "current" THEN "look" ELSE "peek"
BY Constants DEF Turns

\* A request that turns to its next image.
LEMMA Answering ==
  ASSUME TypeOK, InHand, NEW r \in Requests, Answered(r)
  PROVE  /\ req' \in [Requests -> ReqState] /\ InHand'
         /\ req'[r].pc \in {"done", "look", "peek"}
         /\ req'[r].quota = req[r].quota
         /\ req'[r].pc = "look" => Plan[r][req'[r].next].place = "current"
         /\ \A q \in Requests \ {r} : req'[q] = req[q]
<1>1. req[r] \in ReqState
  BY DEF TypeOK
<1> DEFINE n == req[r].next + 1
<1>2. n \in Nat \ {0}
  BY <1>1 DEF ReqState
<1> DEFINE new == [req[r] EXCEPT !.next = n, !.tries = 0, !.item = "none",
                                !.pc = Turns(r, n)]
<1>a. req' = [req EXCEPT ![r] = new]
  BY DEF Answered
<1> HIDE DEF new
<1>3. /\ req'[r] = new
      /\ \A q \in Requests \ {r} : req'[q] = req[q]
      /\ req' = [q \in Requests |-> req'[q]]
  BY <1>a DEF TypeOK
<1> USE DEF new
<1> HIDE DEF n
<1>4. Turns(r, n) \in {"done", "look", "peek"}
  BY <1>2, TurnsTo
<1>5. req'[r] \in ReqState
  <2>1. 0 \in 0..MaxAttempts
    BY Constants
  <2> QED
    BY <1>1, <1>2, <1>3, <1>4, <2>1 DEF ReqState
<1>6. req' \in [Requests -> ReqState]
  BY <1>3, <1>5 DEF TypeOK
<1>7. /\ req'[r].pc = Turns(r, n) /\ req'[r].next = n
      /\ req'[r].quota = req[r].quota
  BY <1>1, <1>3 DEF ReqState
<1>8. InHand'
  <2>1. /\ Active(r)' => req'[r].next \in 1..Len(Plan[r])
        /\ req'[r].pc # "new"
    BY <1>2, <1>4, <1>7, TurnsTo DEF Active, Ended
  <2>2. ASSUME NEW q \in Requests \ {r}
        PROVE  /\ Active(q)' => req'[q].next \in 1..Len(Plan[q])
               /\ req'[q].pc = "new" => req'[q].next = 1
    BY <1>3, <2>2 DEF InHand, Active, Ended
  <2> QED
    BY <2>1, <2>2 DEF InHand
<1>9. req'[r].pc = "look" => Plan[r][req'[r].next].place = "current"
  BY <1>2, <1>7, TurnsTo
<1> QED
  BY <1>3, <1>4, <1>6, <1>7, <1>8, <1>9

Acts(r) == Begin(r) \/ ContextFull(r) \/ Step(r)

\* The three actions that change more of a request than its place.
LEMMA GetReadReq ==
  ASSUME TypeOK, InHand, NEW r \in Requests, GetRead(r)
  PROVE  /\ req' \in [Requests -> ReqState] /\ InHand'
         /\ \A q \in Requests \ {r} : req'[q] = req[q]
         /\ req'[r].next = req[r].next /\ req'[r].quota = req[r].quota
         /\ req'[r].tries = req[r].tries
         /\ IF Cached(Key(r))
            THEN /\ req'[r].pc = IF req[r].pc = "peek" THEN "peeked" ELSE "looked"
                 /\ req'[r].item = IF Key(r) \in aged THEN "old" ELSE "fresh"
            ELSE req'[r].pc = IF req[r].pc = "peek" THEN "missed" ELSE "wait"
<1>1. req[r] \in ReqState /\ req[r].next \in 1..Len(Plan[r])
  BY DEF TypeOK, InHand, GetRead, Active, Ended
<1>2. CASE Cached(Key(r))
  <2> DEFINE new == [req[r] EXCEPT
                !.pc = IF req[r].pc = "peek" THEN "peeked" ELSE "looked",
                !.item = IF Key(r) \in aged THEN "old" ELSE "fresh"]
  <2>1. req' = [req EXCEPT ![r] = new]
    BY <1>2 DEF GetRead
  <2>2. new \in ReqState
    BY <1>1 DEF ReqState
  <2>3. /\ new.next = req[r].next /\ new.quota = req[r].quota
        /\ new.tries = req[r].tries
        /\ new.pc = IF req[r].pc = "peek" THEN "peeked" ELSE "looked"
        /\ new.item = IF Key(r) \in aged THEN "old" ELSE "fresh"
    BY <1>1 DEF ReqState
  <2> HIDE DEF new
  <2>4. /\ req' \in [Requests -> ReqState] /\ req'[r] = new
        /\ \A q \in Requests \ {r} : req'[q] = req[q]
    BY <2>1, <2>2 DEF TypeOK
  <2>5. InHand'
    BY <1>1, <2>3, <2>4 DEF InHand, Active, Ended
  <2> QED
    BY <1>2, <2>3, <2>4, <2>5
<1>3. CASE ~ Cached(Key(r))
  <2> DEFINE pc == IF req[r].pc = "peek" THEN "missed" ELSE "wait"
  <2>1. Goes(r, pc) /\ pc \in Pcs
    BY <1>3 DEF GetRead, Pcs
  <2> HIDE DEF pc
  <2>2. /\ req' \in [Requests -> ReqState] /\ InHand'
        /\ req'[r] = [req[r] EXCEPT !.pc = pc]
        /\ \A q \in Requests \ {r} : req'[q] = req[q]
    BY <1>1, <2>1, Going
  <2> QED
    BY <1>1, <1>3, <2>2 DEF pc, ReqState
<1> QED
  BY <1>2, <1>3

LEMMA PeekMissReq ==
  ASSUME TypeOK, InHand, NEW r \in Requests, PeekMiss(r)
  PROVE  /\ req' \in [Requests -> ReqState] /\ InHand'
         /\ \A q \in Requests \ {r} : req'[q] = req[q]
         /\ \/ /\ req[r].quota > 0 /\ req'[r].quota = req[r].quota - 1
               /\ req'[r].next = req[r].next /\ req'[r].pc = "look"
            \/ Answered(r)
<1>1. req[r] \in ReqState /\ req[r].next \in 1..Len(Plan[r])
  BY DEF TypeOK, InHand, PeekMiss, Active, Ended
<1>2. CASE Target(r).place = "golden" /\ req[r].quota > 0
  <2> DEFINE new == [req[r] EXCEPT !.pc = "look", !.quota = req[r].quota - 1]
  <2>1. req' = [req EXCEPT ![r] = new]
    BY <1>2 DEF PeekMiss
  <2>2. req[r].quota - 1 \in 0..Quota
    BY <1>1, <1>2, Constants DEF ReqState
  <2>3. /\ new \in ReqState /\ new.quota = req[r].quota - 1
        /\ new.next = req[r].next /\ new.pc = "look"
    BY <1>1, <2>2 DEF ReqState
  <2> HIDE DEF new
  <2>4. /\ req' \in [Requests -> ReqState] /\ req'[r] = new
        /\ \A q \in Requests \ {r} : req'[q] = req[q]
    BY <2>1, <2>3 DEF TypeOK
  <2>5. InHand'
    BY <1>1, <2>3, <2>4 DEF InHand, Active, Ended
  <2> QED
    BY <1>2, <2>3, <2>4, <2>5
<1>3. CASE ~ (Target(r).place = "golden" /\ req[r].quota > 0)
  BY <1>3, Answering DEF PeekMiss
<1> QED
  BY <1>2, <1>3

LEMMA FailsReq ==
  ASSUME TypeOK, InHand, NEW r \in Requests, Fails(r)
  PROVE  /\ req' \in [Requests -> ReqState] /\ InHand'
         /\ \A q \in Requests \ {r} : req'[q] = req[q]
         /\ \/ /\ req'[r].quota = req[r].quota /\ req'[r].next = req[r].next
               /\ req'[r].pc = "backoff" /\ req'[r].tries > 0
            \/ Answered(r)
<1>1. req[r] \in ReqState /\ req[r].next \in 1..Len(Plan[r])
  BY DEF TypeOK, InHand, Fails, Active, Ended
<1> DEFINE new == [req[r] EXCEPT !.pc = "backoff", !.tries = req[r].tries + 1]
<1>2. \/ req' = [req EXCEPT ![r] = new] /\ req[r].tries + 1 < MaxAttempts
      \/ Answered(r)
  BY DEF Fails
<1>3. CASE req' = [req EXCEPT ![r] = new] /\ req[r].tries + 1 < MaxAttempts
  <2>2. req[r].tries + 1 \in 0..MaxAttempts /\ req[r].tries + 1 > 0
    BY <1>1, <1>3, Constants DEF ReqState
  <2>3. /\ new \in ReqState /\ new.quota = req[r].quota
        /\ new.next = req[r].next /\ new.pc = "backoff"
        /\ new.tries = req[r].tries + 1
    BY <1>1, <2>2 DEF ReqState
  <2> HIDE DEF new
  <2>4. /\ req' \in [Requests -> ReqState] /\ req'[r] = new
        /\ \A q \in Requests \ {r} : req'[q] = req[q]
    BY <1>3, <2>3 DEF TypeOK
  <2>5. InHand'
    BY <1>1, <2>3, <2>4 DEF InHand, Active, Ended
  <2> QED
    BY <2>2, <2>3, <2>4, <2>5
<1>4. CASE Answered(r)
  BY <1>4, Answering
<1> QED
  BY <1>2, <1>3, <1>4

\* What every step of r has in common.
LEMMA ActsReq ==
  ASSUME TypeOK, InHand, NEW r \in Requests, Acts(r)
  PROVE  /\ req' \in [Requests -> ReqState] /\ InHand'
         /\ \A q \in Requests \ {r} : req'[q] = req[q]
<1>1. Active(r) => req[r].next \in 1..Len(Plan[r])
  BY DEF InHand
<1>2. CASE GetRead(r) \/ PeekMiss(r) \/ Fails(r)
  BY <1>2, GetReadReq, PeekMissReq, FailsReq
<1>3. CASE Begin(r)
  <2>1. req[r].next = 1
    BY <1>3 DEF Begin, InHand
  <2> DEFINE pc == Turns(r, 1)
  <2>2. pc \in Pcs /\ (pc = "done" \/ 1 \in 1..Len(Plan[r]))
    BY TurnsTo DEF Pcs
  <2>3. Goes(r, pc)
    BY <1>3 DEF Begin
  <2> HIDE DEF pc
  <2> QED
    BY <2>1, <2>2, <2>3, Going
<1>4. CASE ContextFull(r) \/ GetRaises(r)
  BY <1>4, Going DEF ContextFull, GetRaises, Pcs
<1>5. CASE GetExpired(r) \/ GetHit(r)
  <2>1. Active(r)
    BY <1>5 DEF GetExpired, GetHit, Active, Ended
  <2> QED
    BY <1>1, <1>5, <2>1, Going, Answering DEF GetExpired, GetHit, Pcs
<1>6. CASE Wait(r) \/ Describes(r) \/ BackedOff(r) \/ Insert(r) \/ Touch(r)
  <2>1. Active(r)
    BY <1>6 DEF Wait, Describes, BackedOff, Insert, Touch, Active, Ended
  <2> QED
    BY <1>1, <1>6, <2>1, Going
       DEF Wait, Describes, BackedOff, Insert, Touch, Pcs
<1>7. CASE Evict(r) \/ Pop(r) \/ PutRaises(r)
  <2>1. Active(r)
    BY <1>7 DEF Evict, Pop, PutRaises, Active, Ended
  <2> QED
    BY <1>1, <1>7, <2>1, Going, Answering DEF Evict, Pop, PutRaises, Pcs
<1> QED
  BY <1>2, <1>3, <1>4, <1>5, <1>6, <1>7 DEF Acts, Step

\* Whoever is under way when r steps is disturbed by it.
LEMMA Meeting ==
  ASSUME TypeOK, NEW r \in Requests, Acts(r)
  PROVE  /\ disturbed' \in [Requests -> BOOLEAN]
         /\ \A q \in Requests : disturbed[q] => disturbed'[q]
         /\ \A q \in Requests \ {r} : Active(q) => disturbed'[q]
<1>1. Meets(r)
  BY DEF Acts, Step, Begin, ContextFull, GetRead, GetExpired, GetHit, GetRaises,
         PeekMiss, Wait, Describes, Fails, BackedOff, Insert, Touch, Evict, Pop,
         PutRaises
<1> QED
  BY <1>1 DEF Meets, TypeOK

\* The cache, step by step: read and put in terms of its set of keys.
LEMMA CacheSteps ==
  ASSUME TypeOK, InHand, NEW r \in Requests, Acts(r)
  PROVE  /\ Lru(store') /\ aged' \subseteq ToSet(store')
         /\ GetExpired(r) => /\ ToSet(store') = ToSet(store) \ {Key(r)}
                            /\ Len(store') = Len(store) - 1
         /\ GetHit(r) \/ Touch(r) => /\ ToSet(store') = ToSet(store)
                                    /\ Len(store') = Len(store)
         /\ Insert(r) => /\ ToSet(store') = ToSet(store) \cup {Key(r)}
                        /\ Len(store') = IF Key(r) \in ToSet(store)
                                         THEN Len(store) ELSE Len(store) + 1
         /\ Pop(r) => /\ ToSet(store') = ToSet(store) \ {Head(store)}
                     /\ Len(store') = Len(store) - 1
         /\ GetExpired(r) \/ GetHit(r) \/ Touch(r) => Key(r) \in ToSet(store)
         /\ \/ GetExpired(r) \/ GetHit(r) \/ Touch(r) \/ Insert(r) \/ Pop(r)
            \/ store' = store /\ aged' = aged
<1>0. /\ Lru(store) /\ aged \subseteq ToSet(store) /\ Len(store) \in Nat
      /\ \A k : Cached(k) <=> k \in ToSet(store)
  BY Members DEF TypeOK, Lru, Cached
<1>a. ASSUME NEW k, Cached(k)
      PROVE  /\ Lru(Without(k)) /\ Len(Without(k)) = Len(store) - 1
             /\ ToSet(Without(k)) = ToSet(store) \ {k}
  <2> DEFINE i == CHOOSE j \in 1..Len(store) : store[j] = k
  <2>1. i \in 1..Len(store) /\ store[i] = k
    BY <1>a DEF Cached, Contains
  <2>2. Without(k) = RemoveAt(store, i)
    BY DEF Without
  <2> HIDE DEF i
  <2> QED
    BY <1>0, <2>1, <2>2, Dropped
<1>b. ASSUME NEW k \in Keys, Cached(k), store' = Append(Without(k), k)
      PROVE  /\ Lru(store') /\ ToSet(store') = ToSet(store)
             /\ Len(store') = Len(store)
  <2>1. k \notin ToSet(Without(k))
    BY <1>a, <1>b
  <2>2. /\ Lru(store') /\ Len(store') = Len(Without(k)) + 1
        /\ ToSet(store') = ToSet(Without(k)) \cup {k}
    BY <1>a, <1>b, <2>1, Appended
  <2> QED
    BY <1>0, <1>a, <1>b, <2>2
<1>c. ASSUME GetExpired(r) \/ GetHit(r) \/ Touch(r) \/ Insert(r)
      PROVE  Key(r) \in Keys
  BY <1>c, Hand DEF GetExpired, GetHit, Touch, Insert, Active, Ended
<1>1. CASE GetExpired(r)
  BY <1>0, <1>1, <1>a DEF GetExpired, GetHit, Touch, Insert, Pop
<1>2. CASE GetHit(r)
  BY <1>0, <1>2, <1>b, <1>c DEF GetExpired, GetHit, Touch, Insert, Pop
<1>3. CASE Touch(r)
  BY <1>0, <1>3, <1>b, <1>c DEF GetExpired, GetHit, Touch, Insert, Pop
<1>4. CASE Insert(r)
  <2>1. CASE Cached(Key(r))
    BY <1>0, <1>4, <2>1, <1>c DEF GetExpired, GetHit, Touch, Insert, Pop
  <2>2. CASE ~ Cached(Key(r))
    <3>1. store' = Append(store, Key(r)) /\ aged' = aged \ {Key(r)}
      BY <1>4, <2>2 DEF Insert
    <3>2. /\ Lru(store') /\ Len(store') = Len(store) + 1
          /\ ToSet(store') = ToSet(store) \cup {Key(r)}
      BY <1>0, <1>4, <1>c, <2>2, <3>1, Appended
    <3> QED
      BY <1>0, <1>4, <2>2, <3>1, <3>2 DEF GetExpired, GetHit, Touch, Insert, Pop
  <2> QED
    BY <2>1, <2>2
<1>5. CASE Pop(r)
  <2>1. store # <<>> /\ store' = Tail(store) /\ aged' = aged \ {Head(store)}
    BY <1>5 DEF Pop
  <2>2. 1 \in 1..Len(store) /\ Head(store) = store[1]
    BY <1>0, <2>1, EmptySeq DEF Lru
  <2>3. Tail(store) = RemoveAt(store, 1)
    <3>1. SubSeq(store, 1, 0) = <<>>
      BY SubSeqEmpty
    <3>2. Tail(store) = SubSeq(store, 2, Len(store)) /\ Tail(store) \in Seq(Keys)
      BY <1>0, <2>1, TailIsSubSeq, HeadTailProperties DEF Lru
    <3> QED
      BY <3>1, <3>2, ConcatEmptySeq DEF RemoveAt
  <2>4. /\ Lru(store') /\ Len(store') = Len(store) - 1
        /\ ToSet(store') = ToSet(store) \ {Head(store)}
    BY <1>0, <2>1, <2>2, <2>3, Dropped
  <2> QED
    BY <1>0, <1>5, <2>1, <2>4 DEF GetExpired, GetHit, Touch, Insert, Pop
<1>6. CASE /\ ~ GetExpired(r) /\ ~ GetHit(r) /\ ~ Touch(r)
           /\ ~ Insert(r) /\ ~ Pop(r)
  <2>1. store' = store /\ aged' = aged
    BY <1>6 DEF Acts, Step, Begin, ContextFull, GetRead, GetRaises, PeekMiss,
                Wait, Describes, Fails, BackedOff, Evict, PutRaises
  <2> QED
    BY <1>0, <1>6, <2>1
<1> QED
  BY <1>1, <1>2, <1>3, <1>4, <1>5, <1>6

-----------------------------------------------------------------------------
(* The permits                                                             *)

LEMMA CallSteps ==
  ASSUME TypeOK, InHand, NEW r \in Requests, Acts(r)
  PROVE  \/ /\ req[r].pc # "call" /\ req'[r].pc = "call"
            /\ permits > 0 /\ permits' = permits - 1
         \/ /\ req[r].pc = "call" /\ req'[r].pc # "call"
            /\ permits' = permits + 1
         \/ /\ req[r].pc # "call" /\ req'[r].pc # "call"
            /\ permits' = permits
<1>0. req[r] \in ReqState /\ (Active(r) => req[r].next \in 1..Len(Plan[r]))
  BY DEF TypeOK, InHand
<1>1. ASSUME NEW pc \in Pcs, Goes(r, pc) PROVE req'[r].pc = pc
  <2>1. req'[r] = [req[r] EXCEPT !.pc = pc]
    BY <1>1 DEF Goes, TypeOK
  <2> QED
    BY <1>0, <2>1 DEF ReqState
<1>2. CASE Wait(r) \/ Describes(r)
  BY <1>1, <1>2 DEF Wait, Describes, Pcs
<1>3. CASE Fails(r)
  BY <1>3, FailsReq, Answering DEF Fails
<1>4. CASE GetRead(r) \/ PeekMiss(r)
  BY <1>4, GetReadReq, PeekMissReq, Answering DEF GetRead, PeekMiss
<1>5. CASE GetExpired(r) \/ GetHit(r) \/ GetRaises(r) \/ ContextFull(r)
  BY <1>1, <1>5, Answering DEF GetExpired, GetHit, GetRaises, ContextFull, Pcs
<1>6. CASE Begin(r)
  <2>1. Turns(r, 1) \in {"done", "look", "peek"}
    BY TurnsTo
  <2> QED
    BY <1>1, <1>6, <2>1 DEF Begin, Pcs
<1>7. CASE BackedOff(r) \/ Insert(r) \/ Touch(r) \/ Evict(r) \/ Pop(r)
           \/ PutRaises(r)
  BY <1>1, <1>7, Answering DEF BackedOff, Insert, Touch, Evict, Pop, PutRaises, Pcs
<1> QED
  BY <1>2, <1>3, <1>4, <1>5, <1>6, <1>7 DEF Acts, Step

LEMMA StepAccounts ==
  ASSUME TypeOK, InHand, Accounts, NEW r \in Requests, Acts(r)
  PROVE  Accounts' /\ permits' \in 0..Permits
<1>1. \A q \in Requests \ {r} : req'[q] = req[q]
  BY ActsReq
<1>2. permits \in Nat /\ Permits \in Nat
  BY Constants DEF TypeOK
<1>3. IsFiniteSet(Calling) /\ Cardinality(Calling) \in Nat
  BY FS_CardinalityType DEF Accounts
<1>4. CASE /\ req[r].pc # "call" /\ req'[r].pc = "call"
           /\ permits > 0 /\ permits' = permits - 1
  <2>1. Calling' = Calling \cup {r} /\ r \notin Calling
    BY <1>1, <1>4 DEF Calling
  <2>2. IsFiniteSet(Calling') /\ Cardinality(Calling') = Cardinality(Calling) + 1
    BY <1>3, <2>1, FS_AddElement
  <2> QED
    BY <1>2, <1>3, <1>4, <2>2 DEF Accounts
<1>5. CASE /\ req[r].pc = "call" /\ req'[r].pc # "call"
           /\ permits' = permits + 1
  <2>1. Calling' = Calling \ {r} /\ r \in Calling
    BY <1>1, <1>5 DEF Calling
  <2>2. IsFiniteSet(Calling') /\ Cardinality(Calling') = Cardinality(Calling) - 1
    BY <1>3, <2>1, FS_RemoveElement
  <2>3. Cardinality(Calling') \in Nat
    BY <2>2, FS_CardinalityType
  <2> QED
    BY <1>2, <1>3, <1>5, <2>2, <2>3 DEF Accounts
<1>6. CASE /\ req[r].pc # "call" /\ req'[r].pc # "call"
           /\ permits' = permits
  <2>1. Calling' = Calling
    BY <1>1, <1>6 DEF Calling
  <2> QED
    BY <1>2, <1>3, <1>6, <2>1 DEF Accounts, TypeOK
<1> QED
  BY <1>4, <1>5, <1>6, CallSteps

-----------------------------------------------------------------------------
(* A request that nothing disturbs                                         *)

\* Other requests keep theirs.
LEMMA Undisturbed ==
  ASSUME TypeOK, InHand, Steady, OnlyRacesRaise, Paid,
         NEW r \in Requests, Acts(r), NEW q \in Requests \ {r},
         ~ disturbed'[q]
  PROVE  req'[q] = req[q] /\ ~ disturbed[q] /\ ~ Active(q)
BY ActsReq, Meeting

\* What r's own step makes of Steady and OnlyRacesRaise.
LEMMA OwnSteady ==
  ASSUME TypeOK, InHand, Steady, OnlyRacesRaise,
         NEW r \in Requests, Acts(r), ~ disturbed'[r]
  PROVE  /\ req'[r].pc # "raised"
         /\ req'[r].pc \in {"peeked", "looked"} =>
              /\ store' = store /\ aged' = aged
              /\ req'[r].next = req[r].next
              /\ Key(r) \in ToSet(store)
              /\ req'[r].item = "fresh" => Key(r) \notin aged
<1>0. /\ req[r] \in ReqState /\ ~ disturbed[r]
      /\ \A k : Cached(k) <=> k \in ToSet(store)
      /\ (Active(r) => req[r].next \in 1..Len(Plan[r]))
  BY Meeting, Members DEF TypeOK, InHand, Cached, Lru
<1>1. ASSUME NEW pc \in Pcs, Goes(r, pc) PROVE req'[r].pc = pc
  <2>1. req'[r] = [req[r] EXCEPT !.pc = pc]
    BY <1>1 DEF Goes, TypeOK
  <2> QED
    BY <1>0, <2>1 DEF ReqState
<1>2. CASE GetRead(r)
  BY <1>0, <1>2, GetReadReq DEF GetRead
<1>3. CASE GetRaises(r)
  BY <1>0, <1>3 DEF GetRaises, Steady
<1>4. CASE PeekMiss(r) \/ Fails(r)
  BY <1>4, PeekMissReq, FailsReq, Answering
<1>5. CASE GetExpired(r) \/ GetHit(r) \/ ContextFull(r)
  BY <1>1, <1>5, Answering DEF GetExpired, GetHit, ContextFull, Pcs
<1>6. CASE Begin(r)
  <2>1. Turns(r, 1) \in {"done", "look", "peek"}
    BY TurnsTo
  <2> QED
    BY <1>1, <1>6, <2>1 DEF Begin, Pcs
<1>7. CASE Wait(r) \/ Describes(r) \/ BackedOff(r) \/ Insert(r) \/ Touch(r)
           \/ Evict(r) \/ Pop(r) \/ PutRaises(r)
  BY <1>1, <1>7, Answering
     DEF Wait, Describes, BackedOff, Insert, Touch, Evict, Pop, PutRaises, Pcs
<1> QED
  BY <1>2, <1>3, <1>4, <1>5, <1>6, <1>7 DEF Acts, Step

LEMMA StepSteady ==
  ASSUME TypeOK, InHand, Steady, OnlyRacesRaise, Paid,
         NEW r \in Requests, Acts(r)
  PROVE  Steady' /\ OnlyRacesRaise'
<1>1. ASSUME NEW q \in Requests, req'[q].pc \in {"peeked", "looked"},
             ~ disturbed'[q]
      PROVE  /\ Key(q)' \in ToSet(store')
             /\ req'[q].item = "fresh" => Key(q)' \notin aged'
  <2>1. CASE q = r
    BY <1>1, <2>1, OwnSteady DEF Key, Target
  <2>2. CASE q # r
    BY <1>1, <2>2, Undisturbed DEF Active, Ended
  <2> QED
    BY <2>1, <2>2
<1>2. ASSUME NEW q \in Requests, req'[q].pc = "raised" PROVE disturbed'[q]
  <2>1. CASE q = r
    BY <1>2, <2>1, OwnSteady, Meeting
  <2>2. CASE q # r
    BY <1>2, <2>2, Meeting, ActsReq DEF OnlyRacesRaise
  <2> QED
    BY <2>1, <2>2
<1> QED
  BY <1>1, <1>2 DEF Steady, OnlyRacesRaise

\* What a request has spent changes only when it gets a permit.
LEMMA SpentSteps ==
  ASSUME TypeOK, NEW r \in Requests, Acts(r)
  PROVE  /\ spent' \in [Requests -> Nat]
         /\ \A q \in Requests \ {r} : spent'[q] = spent[q]
         /\ Wait(r) => spent'[r] = IF History(r) /\ req[r].tries = 0
                                  THEN spent[r] + 1 ELSE spent[r]
         /\ ~ Wait(r) => spent'[r] = spent[r]
<1>1. CASE Wait(r)
  BY <1>1 DEF Wait, TypeOK, History
<1>2. CASE ~ Wait(r)
  <2>1. spent' = spent
    BY <1>2 DEF Acts, Step, Begin, ContextFull, GetRead, GetExpired, GetHit,
                GetRaises, PeekMiss, Describes, Fails, BackedOff, Insert, Touch,
                Evict, Pop, PutRaises
  <2> QED
    BY <1>2, <2>1 DEF TypeOK
<1> QED
  BY <1>1, <1>2

\* What Paid says of one request.
Solvent(r) ==
  /\ spent[r] + req[r].quota <= Quota
  /\ History(r) =>
       /\ req[r].pc = "look" => Affords(r) \/ Key(r) \in ToSet(store) \ aged
       /\ req[r].pc = "looked" /\ req[r].item = "old" => Affords(r)
       /\ req[r].pc = "wait" /\ req[r].tries = 0 => Affords(r)
  /\ req[r].pc = "backoff" => req[r].tries > 0

LEMMA OwnPaid ==
  ASSUME TypeOK, InHand, Steady, OnlyRacesRaise, Paid,
         NEW r \in Requests, Acts(r), ~ disturbed'[r]
  PROVE  Solvent(r)'
<1>0. /\ req[r] \in ReqState /\ ~ disturbed[r] /\ Solvent(r)
      /\ \A k : Cached(k) <=> k \in ToSet(store)
      /\ spent[r] \in Nat /\ Quota \in Nat
  BY Meeting, Members, Constants DEF TypeOK, Cached, Lru, Paid, Solvent
<1>1. ASSUME NEW pc \in Pcs, Goes(r, pc)
      PROVE  /\ req'[r].pc = pc /\ req'[r].next = req[r].next
             /\ req'[r].quota = req[r].quota /\ req'[r].tries = req[r].tries
             /\ req'[r].item = req[r].item
  <2>1. req'[r] = [req[r] EXCEPT !.pc = pc]
    BY <1>1 DEF Goes, TypeOK
  <2> QED
    BY <1>0, <2>1 DEF ReqState
\* Turning to the next image costs nothing.
<1>2. ASSUME Answered(r), spent'[r] = spent[r] PROVE Solvent(r)'
  <2>1. /\ req'[r].pc \in {"done", "look", "peek"}
        /\ req'[r].quota = req[r].quota
        /\ req'[r].pc = "look" => ~ History(r)'
    BY <1>2, Answering DEF History, Target
  <2> QED
    BY <1>0, <1>2, <2>1 DEF Solvent
\* Nor does what leads to none of the four places that Paid speaks of.
<1>3. ASSUME spent'[r] = spent[r], req'[r].quota = req[r].quota,
             req'[r].pc \notin {"look", "looked", "wait", "backoff"}
      PROVE  Solvent(r)'
  BY <1>0, <1>3 DEF Solvent
<1>4. ASSUME req'[r].next = req[r].next
      PROVE  Key(r)' = Key(r) /\ (History(r)' <=> History(r))
  BY <1>4 DEF Key, History, Target
<1>5. CASE Wait(r)
  <2>1. /\ req'[r].pc = "call" /\ req'[r].quota = req[r].quota
        /\ req[r].pc = "wait"
    BY <1>1, <1>5 DEF Wait, Pcs
  <2>2. spent'[r] + req[r].quota <= Quota
    BY <1>0, <1>5, <2>1, SpentSteps DEF Solvent, Affords, ReqState
  <2> QED
    BY <2>1, <2>2 DEF Solvent
<1>6. CASE GetRead(r)
  <2>1. /\ spent'[r] = spent[r] /\ store' = store /\ aged' = aged
        /\ req[r].pc \in {"peek", "look"} /\ ~ Wait(r)
    BY <1>6, SpentSteps DEF GetRead, Wait
  <2> QED
    BY <1>0, <1>4, <1>6, <2>1, GetReadReq DEF Solvent, Affords
<1>7. CASE GetExpired(r)
  <2>1. /\ spent'[r] = spent[r]
        /\ req[r].pc \in {"peeked", "looked"} /\ req[r].item = "old"
    BY <1>7, SpentSteps DEF GetExpired, Wait
  <2>2. /\ req'[r].pc = IF req[r].pc = "peeked" THEN "missed" ELSE "wait"
        /\ req'[r].next = req[r].next /\ req'[r].quota = req[r].quota
    BY <1>1, <1>7 DEF GetExpired, Pcs
  <2> QED
    BY <1>0, <1>4, <2>1, <2>2 DEF Solvent, Affords
<1>8. CASE GetHit(r)
  <2>1. /\ spent'[r] = spent[r] /\ aged' = aged /\ ToSet(store') = ToSet(store)
        /\ req[r].pc \in {"peeked", "looked"} /\ req[r].item = "fresh"
        /\ Key(r) \in ToSet(store) \ aged
    BY <1>0, <1>8, SpentSteps, CacheSteps DEF GetHit, Wait, Steady
  <2>2. CASE Goes(r, "look")
    BY <1>0, <1>1, <1>4, <2>1, <2>2 DEF Solvent, Pcs
  <2> QED
    BY <1>2, <1>8, <2>1, <2>2 DEF GetHit
<1>9. CASE PeekMiss(r)
  <2>1. spent'[r] = spent[r]
    BY <1>9, SpentSteps DEF PeekMiss, Wait
  <2>2. CASE /\ req[r].quota > 0 /\ req'[r].quota = req[r].quota - 1
             /\ req'[r].next = req[r].next /\ req'[r].pc = "look"
    BY <1>0, <2>1, <2>2 DEF Solvent, Affords, ReqState
  <2> QED
    BY <1>2, <1>9, <2>1, <2>2, PeekMissReq
<1>10. CASE Fails(r)
  <2>1. spent'[r] = spent[r]
    BY <1>10, SpentSteps DEF Fails, Wait
  <2>2. CASE /\ req'[r].quota = req[r].quota /\ req'[r].next = req[r].next
             /\ req'[r].pc = "backoff" /\ req'[r].tries > 0
    BY <1>0, <2>1, <2>2 DEF Solvent
  <2> QED
    BY <1>2, <1>10, <2>1, <2>2, FailsReq
<1>11. CASE BackedOff(r)
  <2>1. spent'[r] = spent[r] /\ req[r].pc = "backoff"
    BY <1>11, SpentSteps DEF BackedOff, Wait
  <2>2. /\ req'[r].pc = "wait" /\ req'[r].tries = req[r].tries
        /\ req'[r].quota = req[r].quota
    BY <1>1, <1>11 DEF BackedOff, Pcs
  <2> QED
    BY <1>0, <2>1, <2>2 DEF Solvent, ReqState
<1>12. CASE Begin(r)
  <2>1. spent'[r] = spent[r] /\ req[r].next = 1
    BY <1>12, SpentSteps DEF Begin, Wait, InHand
  <2> DEFINE pc == Turns(r, 1)
  <2>2. pc \in {"done", "look", "peek"}
    BY TurnsTo
  <2>3. pc = "look" => ~ History(r)
    BY <2>1, TurnsTo DEF History, Target
  <2>4. Goes(r, pc)
    BY <1>12 DEF Begin
  <2> HIDE DEF pc
  <2> QED
    BY <1>0, <1>1, <1>4, <2>1, <2>2, <2>3, <2>4 DEF Solvent, Pcs
<1>13. CASE GetRaises(r) \/ ContextFull(r) \/ Describes(r) \/ Insert(r)
            \/ Touch(r) \/ Pop(r)
  <2>1. spent'[r] = spent[r]
    BY <1>13, SpentSteps
       DEF GetRaises, ContextFull, Describes, Insert, Touch, Pop, Wait
  <2>2. /\ req'[r].quota = req[r].quota
        /\ req'[r].pc \notin {"look", "looked", "wait", "backoff"}
    BY <1>1, <1>13
       DEF GetRaises, ContextFull, Describes, Insert, Touch, Pop, Pcs
  <2> QED
    BY <1>3, <2>1, <2>2
<1>14. CASE Evict(r) \/ PutRaises(r)
  <2>1. spent'[r] = spent[r]
    BY <1>14, SpentSteps DEF Evict, PutRaises, Wait
  <2>2. CASE Goes(r, "pop")
    BY <1>1, <1>3, <2>1, <2>2 DEF Pcs
  <2> QED
    BY <1>2, <1>14, <2>1, <2>2 DEF Evict, PutRaises
<1> QED
  BY <1>5, <1>6, <1>7, <1>8, <1>9, <1>10, <1>11, <1>12, <1>13, <1>14
     DEF Acts, Step

LEMMA StepPaid ==
  ASSUME TypeOK, InHand, Steady, OnlyRacesRaise, Paid,
         NEW r \in Requests, Acts(r)
  PROVE  Paid'
<1>1. ASSUME NEW q \in Requests, ~ disturbed'[q] PROVE Solvent(q)'
  <2>1. CASE q = r
    BY <1>1, <2>1, OwnPaid
  <2>2. CASE q # r
    <3>1. req'[q] = req[q] /\ ~ disturbed[q] /\ ~ Active(q)
      BY <1>1, <2>2, Undisturbed
    <3>2. spent'[q] = spent[q]
      BY <2>2, SpentSteps
    <3>3. req'[q].pc \notin {"look", "looked", "wait", "backoff"}
      BY <3>1 DEF Active, Ended
    <3>4. spent[q] + req[q].quota <= Quota
      BY <3>1 DEF Paid
    <3> QED
      BY <3>1, <3>2, <3>3, <3>4 DEF Solvent
  <2> QED
    BY <2>1, <2>2
<1> QED
  BY <1>1 DEF Paid, Solvent

-----------------------------------------------------------------------------
(* The invariant holds                                                     *)

LEMMA InitIInv ==
  ASSUME Init
  PROVE  IInv
<1>1. <<>> \in Seq(Keys) /\ IsInjective(<<>>) /\ ToSet(<<>>) = {}
  <2>1. <<>> \in Seq(Keys) /\ Len(<<>>) = 0 /\ DOMAIN <<>> = {}
    BY EmptySeq
  <2> QED
    BY <2>1 DEF IsInjective, ToSet
<1>2. \A r \in Requests :
        /\ req[r] = [pc |-> "new", next |-> 1, item |-> "none",
                     quota |-> Quota, tries |-> 0]
        /\ spent[r] = 0 /\ ~ disturbed[r]
  BY DEF Init
<1>3. TypeOK
  <2>1. [pc |-> "new", next |-> 1, item |-> "none", quota |-> Quota,
         tries |-> 0] \in ReqState
    BY Constants DEF ReqState
  <2>2. Permits \in 0..Permits /\ 0 \in Nat
    BY Constants
  <2> QED
    BY <1>1, <2>1, <2>2 DEF Init, TypeOK
<1>4. Accounts
  <2>1. Calling = {}
    BY <1>2 DEF Calling
  <2> QED
    BY <2>1, FS_EmptySet, Constants DEF Accounts, Init
<1>5. InHand /\ Steady /\ OnlyRacesRaise
  BY <1>2 DEF InHand, Steady, OnlyRacesRaise, Active, Ended
<1>6. Paid
  BY <1>2, Constants DEF Paid
<1> QED
  BY <1>3, <1>4, <1>5, <1>6 DEF IInv

LEMMA StepIInv ==
  ASSUME IInv, NEW r \in Requests, Acts(r)
  PROVE  IInv'
<1> USE DEF IInv
<1>1. Accounts' /\ permits' \in 0..Permits
  BY StepAccounts
<1>2. Steady' /\ OnlyRacesRaise' /\ Paid'
  BY StepSteady, StepPaid
<1>3. TypeOK' /\ InHand'
  <2>1. /\ req' \in [Requests -> ReqState] /\ InHand'
        /\ disturbed' \in [Requests -> BOOLEAN]
        /\ spent' \in [Requests -> Nat]
        /\ Lru(store') /\ aged' \subseteq ToSet(store')
    BY ActsReq, Meeting, SpentSteps, CacheSteps
  <2> QED
    BY <1>1, <2>1 DEF TypeOK, Lru
<1> QED
  BY <1>1, <1>2, <1>3

\* The clock disturbs whoever is under way.
LEMMA AgeIInv ==
  ASSUME IInv, NEW k \in Keys, Age(k)
  PROVE  IInv'
<1> USE DEF IInv
<1>1. /\ store' = store /\ permits' = permits /\ req' = req /\ spent' = spent
      /\ aged' = aged \cup {k} /\ k \in ToSet(store)
      /\ disturbed' \in [Requests -> BOOLEAN]
      /\ \A r \in Requests :
           /\ disturbed[r] => disturbed'[r]
           /\ Active(r) => disturbed'[r]
  BY Members DEF Age, TypeOK, Lru, Cached
<1>2. TypeOK'
  BY <1>1 DEF TypeOK
<1>3. InHand' /\ Accounts' /\ OnlyRacesRaise'
  BY <1>1 DEF InHand, Active, Ended, Accounts, Calling, OnlyRacesRaise
<1>4. ASSUME NEW r \in Requests, ~ disturbed'[r]
      PROVE  /\ ~ disturbed[r]
             /\ req[r].pc \notin {"peeked", "looked", "look", "wait", "backoff"}
  BY <1>1, <1>4 DEF Active, Ended
<1>5. Steady'
  BY <1>1, <1>4 DEF Steady
<1>6. Paid'
  BY <1>1, <1>4 DEF Paid
<1> QED
  BY <1>2, <1>3, <1>5, <1>6

LEMMA StutterIInv ==
  ASSUME IInv, UNCHANGED vars
  PROVE  IInv'
<1>1. /\ store' = store /\ aged' = aged /\ permits' = permits /\ req' = req
      /\ spent' = spent /\ disturbed' = disturbed
  BY DEF vars
<1> QED
  BY <1>1 DEF IInv, TypeOK, InHand, Accounts, Calling, Steady, OnlyRacesRaise,
              Paid, Active, Ended, History, Affords, Key, Target

THEOREM Invariance == Spec => []IInv
<1>1. Init => IInv
  BY InitIInv
<1>2. IInv /\ [Next]_vars => IInv'
  BY StepIInv, AgeIInv, StutterIInv DEF Next, Acts
<1> QED
  BY <1>1, <1>2, PTL DEF Spec

-----------------------------------------------------------------------------
(* The theorems                                                            *)

\* The variables keep their types; the cache never holds a key twice
\* (cache.py:42-48).
THEOREM Types == Spec => []TypeOK
<1>1. IInv => TypeOK
  BY DEF IInv
<1> QED
  BY <1>1, Invariance, PTL

\* However many requests there are and whatever fails or is retried, no more
\* model calls run than the semaphore has permits (pipeline.py:94, :261).
THEOREM Permitted == Spec => []CallsBounded
<1>1. IInv => CallsBounded
  <2> SUFFICES ASSUME IInv PROVE CallsBounded
    OBVIOUS
  <2>1. Cardinality(Calling) \in Nat
    BY FS_CardinalityType DEF IInv, Accounts
  <2>2. Cardinality(Calling) <= Permits
    BY <2>1, Constants DEF IInv, Accounts, TypeOK
  <2> QED
    BY <2>2 DEF CallsBounded, Calling
<1> QED
  BY <1>1, Invariance, PTL

\* The cache raises only into a request that another one or the clock has
\* come between two steps of (cache.py:33-40, called outside any try block).
THEOREM RacesOnly == Spec => []OnlyRacesRaise
<1>1. IInv => OnlyRacesRaise
  BY DEF IInv
<1> QED
  BY <1>1, Invariance, PTL

\* A request left alone never calls the model for more history images than
\* the budget allows, although it looks twice and pays at the first look
\* (pipeline.py:140-153).
THEOREM Budget == Spec => []BudgetHolds
<1>1. IInv => BudgetHolds
  <2> SUFFICES ASSUME IInv, NEW r \in Requests, ~ disturbed[r]
               PROVE  spent[r] <= Quota
    BY DEF BudgetHolds
  <2>1. spent[r] \in Nat /\ req[r].quota \in 0..Quota /\ Quota \in Nat
    BY Constants DEF IInv, TypeOK, ReqState
  <2>2. spent[r] + req[r].quota <= Quota
    BY DEF IInv, Paid
  <2> QED
    BY <2>1, <2>2
<1> QED
  BY <1>1, Invariance, PTL
-----------------------------------------------------------------------------
(* The size of the cache                                                   *)
(*                                                                         *)
(* Every entry above the capacity is owed by a request inside put: one     *)
(* that is about to evict, or one that is about to touch the entry.  Two   *)
(* requests that touch the same entry owe it once, since both leave put    *)
(* with a KeyError when the entry has gone.                                *)

Touched == {k \in ToSet(store) : \E r \in Requests : req[r].pc = "touch" /\ Key(r) = k}

Evicting == {r \in Requests : req[r].pc \in {"evict", "pop"}}

Owed ==
  /\ IsFiniteSet(Touched) /\ IsFiniteSet(Evicting)
  /\ Len(store) <= Capacity + Cardinality(Touched) + Cardinality(Evicting)

LEMMA AtMostOneLess ==
  ASSUME NEW S, IsFiniteSet(S), NEW k, NEW T, T \subseteq S, S \ {k} \subseteq T
  PROVE  /\ IsFiniteSet(T) /\ Cardinality(T) \in Nat /\ Cardinality(S) \in Nat
         /\ Cardinality(T) >= Cardinality(S) - 1
<1>1. T = S \/ T = S \ {k}
  OBVIOUS
<1> QED
  BY <1>1, FS_RemoveElement, FS_CardinalityType

LEMMA AtLeastAsMany ==
  ASSUME NEW S, IsFiniteSet(S), NEW k
  PROVE  /\ IsFiniteSet(S \cup {k}) /\ Cardinality(S \cup {k}) \in Nat
         /\ Cardinality(S) \in Nat
         /\ Cardinality(S \cup {k}) >= Cardinality(S)
         /\ k \notin S => Cardinality(S \cup {k}) = Cardinality(S) + 1
<1>1. Cardinality(S) \in Nat
  BY FS_CardinalityType
<1>2. IsFiniteSet(S \cup {k}) /\ Cardinality(S \cup {k}) \in Nat
  BY FS_AddElement, FS_CardinalityType
<1>3. Cardinality(S \cup {k}) =
        IF k \in S THEN Cardinality(S) ELSE Cardinality(S) + 1
  BY FS_AddElement
<1> DEFINE m == Cardinality(S)
           n == Cardinality(S \cup {k})
<1>4. m \in Nat /\ n = IF k \in S THEN m ELSE m + 1
  BY <1>1, <1>3
<1> HIDE DEF m, n
<1>5. n >= m /\ (k \notin S => n = m + 1)
  BY <1>4
<1> QED
  BY <1>1, <1>2, <1>5 DEF m, n

\* A step of r changes neither set but for r's own part in it.
LEMMA OwnPart ==
  ASSUME TypeOK, InHand, NEW r \in Requests, Acts(r)
  PROVE  /\ req[r].pc \notin {"evict", "pop"} =>
              Evicting' = IF req'[r].pc \in {"evict", "pop"}
                          THEN Evicting \cup {r} ELSE Evicting
         /\ req'[r].pc \notin {"evict", "pop"} => Evicting' = Evicting \ {r}
         /\ req[r].pc \in {"evict", "pop"} /\ req'[r].pc \in {"evict", "pop"} =>
              Evicting' = Evicting
         /\ req[r].pc # "touch" /\ req'[r].pc # "touch" =>
              Touched' = {k \in ToSet(store') :
                            \E q \in Requests : req[q].pc = "touch" /\ Key(q) = k}
<1>1. \A q \in Requests \ {r} : req'[q] = req[q]
  BY ActsReq
<1>2. ASSUME NEW q \in Requests \ {r} PROVE Key(q)' = Key(q)
  BY <1>1 DEF Key, Target
<1> QED
  BY <1>1, <1>2 DEF Evicting, Touched

LEMMA StepOwed ==
  ASSUME TypeOK, InHand, Owed, NEW r \in Requests, Acts(r)
  PROVE  Owed'
<1>0. /\ req[r] \in ReqState /\ Len(store) \in Nat /\ Capacity \in Nat
      /\ \A k : Cached(k) <=> k \in ToSet(store)
      /\ IsFiniteSet(Touched) /\ Cardinality(Touched) \in Nat
      /\ IsFiniteSet(Evicting) /\ Cardinality(Evicting) \in Nat
      /\ Lru(store') /\ Len(store') \in Nat
  BY Members, Constants, CacheSteps, FS_CardinalityType
     DEF TypeOK, Cached, Lru, Owed
<1>1. ASSUME NEW pc \in Pcs, Goes(r, pc)
      PROVE  req'[r].pc = pc /\ req'[r].next = req[r].next
  <2>1. req'[r] = [req[r] EXCEPT !.pc = pc]
    BY <1>1 DEF Goes, TypeOK
  <2> QED
    BY <1>0, <2>1 DEF ReqState
\* Outside put nobody's debt changes.
<1>2. ASSUME req[r].pc \notin {"touch", "evict", "pop"},
             req'[r].pc \notin {"touch", "evict", "pop"},
             ToSet(store') = ToSet(store), Len(store') = Len(store)
      PROVE  Owed'
  <2>1. Evicting' = Evicting /\ Touched' = Touched
    BY <1>2, OwnPart DEF Touched
  <2> QED
    BY <1>2, <2>1 DEF Owed
\* An entry that goes takes at most one debt with it.
<1>3. ASSUME NEW k, ToSet(store') = ToSet(store) \ {k}, Evicting' = Evicting,
             Len(store') = Len(store) - 1,
             req[r].pc # "touch", req'[r].pc # "touch"
      PROVE  Owed'
  <2>1. Touched' \subseteq Touched /\ Touched \ {k} \subseteq Touched'
    BY <1>3, OwnPart DEF Touched
  <2>2. /\ IsFiniteSet(Touched') /\ Cardinality(Touched') \in Nat
        /\ Cardinality(Touched') >= Cardinality(Touched) - 1
    BY <1>0, <2>1, AtMostOneLess
  <2> QED
    BY <1>0, <1>3, <2>2 DEF Owed
<1>4. CASE Insert(r)
  <2>1. /\ req[r].pc = "insert" /\ req'[r].pc = "touch"
        /\ Key(r)' = Key(r)
        /\ ToSet(store') = ToSet(store) \cup {Key(r)}
        /\ Len(store') = IF Key(r) \in ToSet(store) THEN Len(store)
                         ELSE Len(store) + 1
    BY <1>1, <1>4, CacheSteps DEF Insert, Pcs, Key, Target
  <2>2. Evicting' = Evicting
    BY <2>1, OwnPart
  <2>3. Touched' = Touched \cup {Key(r)}
    <3>1. ASSUME NEW q \in Requests \ {r}
          PROVE  req'[q] = req[q] /\ Key(q)' = Key(q)
      BY ActsReq DEF Key, Target
    <3>2. ASSUME NEW q \in Requests, req[q].pc = "touch" PROVE q # r
      BY <2>1, <3>2
    <3> QED
      BY <2>1, <3>1, <3>2 DEF Touched
  <2>4. Key(r) \notin ToSet(store) => Key(r) \notin Touched
    BY DEF Touched
  <2>5. /\ IsFiniteSet(Touched') /\ Cardinality(Touched') \in Nat
        /\ Cardinality(Touched') >= Cardinality(Touched)
        /\ Key(r) \notin ToSet(store) =>
             Cardinality(Touched') = Cardinality(Touched) + 1
    BY <1>0, <2>3, <2>4, AtLeastAsMany
  <2> QED
    BY <1>0, <2>1, <2>2, <2>5 DEF Owed
<1>5. CASE Touch(r)
  <2>1. /\ req[r].pc = "touch" /\ req'[r].pc = "evict"
        /\ ToSet(store') = ToSet(store) /\ Len(store') = Len(store)
    BY <1>1, <1>5, CacheSteps DEF Touch, Pcs
  <2>2. Evicting' = Evicting \cup {r} /\ r \notin Evicting
    BY <2>1, OwnPart DEF Evicting
  <2>3. Touched' \subseteq Touched /\ Touched \ {Key(r)} \subseteq Touched'
    <3>1. ASSUME NEW q \in Requests \ {r}
          PROVE  req'[q] = req[q] /\ Key(q)' = Key(q)
      BY ActsReq DEF Key, Target
    <3> QED
      BY <2>1, <3>1 DEF Touched
  <2>4. /\ IsFiniteSet(Evicting') /\ Cardinality(Evicting') = Cardinality(Evicting) + 1
        /\ IsFiniteSet(Touched') /\ Cardinality(Touched') \in Nat
        /\ Cardinality(Touched') >= Cardinality(Touched) - 1
    BY <1>0, <2>2, <2>3, AtMostOneLess, FS_AddElement
  <2> QED
    BY <1>0, <2>1, <2>4 DEF Owed
<1>6. CASE Evict(r)
  <2>1. req[r].pc = "evict" /\ store' = store
    BY <1>6 DEF Evict
  <2>2. CASE Goes(r, "pop")
    <3>1. req'[r].pc = "pop"
      BY <1>1, <2>2 DEF Pcs
    <3>2. Evicting' = Evicting /\ Touched' = Touched
      BY <2>1, <3>1, OwnPart DEF Touched
    <3> QED
      BY <2>1, <3>2 DEF Owed
  <2>3. CASE ~ Goes(r, "pop")
    <3>1. Len(store) <= Capacity /\ req'[r].pc \in {"done", "look", "peek"}
      BY <1>0, <1>6, <2>3, Answering DEF Evict
    <3>2. Evicting' = Evicting \ {r} /\ Touched' = Touched
      BY <2>1, <3>1, OwnPart DEF Touched
    <3>3. IsFiniteSet(Evicting') /\ Cardinality(Evicting') \in Nat
      BY <1>0, <3>2, FS_RemoveElement, FS_CardinalityType
    <3> QED
      BY <1>0, <2>1, <3>1, <3>2, <3>3 DEF Owed
  <2> QED
    BY <2>2, <2>3
<1>7. CASE Pop(r)
  <2>1. req[r].pc = "pop" /\ req'[r].pc = "evict"
    BY <1>1, <1>7 DEF Pop, Pcs
  <2>2. Evicting' = Evicting
    BY <2>1, OwnPart
  <2> QED
    BY <1>3, <1>7, <2>1, <2>2, CacheSteps
<1>8. CASE PutRaises(r)
  <2>1. /\ store' = store /\ req'[r].pc \in {"done", "look", "peek"}
        /\ \/ req[r].pc = "touch" /\ Key(r) \notin ToSet(store)
           \/ req[r].pc = "pop" /\ store = <<>>
    BY <1>0, <1>8, Answering DEF PutRaises
  <2>2. Touched' = Touched
    <3>1. ASSUME NEW q \in Requests \ {r}
          PROVE  req'[q] = req[q] /\ Key(q)' = Key(q)
      BY ActsReq DEF Key, Target
    <3>2. CASE req[r].pc = "touch" /\ Key(r) \notin ToSet(store)
      BY <2>1, <3>1, <3>2 DEF Touched
    <3>3. CASE req[r].pc = "pop"
      BY <2>1, <3>1, <3>3 DEF Touched
    <3> QED
      BY <2>1, <3>2, <3>3
  <2>3. Evicting' = Evicting \ {r}
    BY <2>1, OwnPart
  <2>4. /\ IsFiniteSet(Evicting') /\ Cardinality(Evicting') \in Nat
        /\ r \notin Evicting => Cardinality(Evicting') = Cardinality(Evicting)
    BY <1>0, <2>3, FS_RemoveElement, FS_CardinalityType
  <2>5. store = <<>> => Len(store) = 0
    BY EmptySeq
  <2> QED
    BY <1>0, <2>1, <2>2, <2>4, <2>5 DEF Owed, Evicting
<1>9. CASE GetExpired(r)
  <2>1. /\ req[r].pc \in {"peeked", "looked"}
        /\ req'[r].pc \in {"missed", "wait"}
    BY <1>1, <1>9 DEF GetExpired, Pcs
  <2>2. Evicting' = Evicting
    BY <2>1, OwnPart
  <2> QED
    BY <1>3, <1>9, <2>1, <2>2, CacheSteps
<1>10. CASE GetHit(r)
  BY <1>1, <1>2, <1>10, CacheSteps, Answering DEF GetHit, Pcs
<1>11. CASE GetRead(r) \/ PeekMiss(r) \/ Fails(r)
  BY <1>2, <1>11, GetReadReq, PeekMissReq, FailsReq, Answering
     DEF GetRead, PeekMiss, Fails
<1>12. CASE Begin(r)
  <2>1. Turns(r, 1) \in {"done", "look", "peek"}
    BY TurnsTo
  <2> QED
    BY <1>1, <1>2, <1>12, <2>1 DEF Begin, Pcs
<1>13. CASE GetRaises(r) \/ ContextFull(r) \/ Wait(r) \/ Describes(r)
            \/ BackedOff(r)
  BY <1>1, <1>2, <1>13
     DEF GetRaises, ContextFull, Wait, Describes, BackedOff, Pcs
<1> QED
  BY <1>4, <1>5, <1>6, <1>7, <1>8, <1>9, <1>10, <1>11, <1>12, <1>13
     DEF Acts, Step

LEMMA InitOwed ==
  ASSUME Init
  PROVE  Owed
<1>1. ToSet(<<>>) = {} /\ Len(<<>>) = 0
  BY EmptySeq DEF ToSet
<1>2. Touched = {} /\ Evicting = {}
  BY <1>1 DEF Touched, Evicting, Init
<1> QED
  BY <1>1, <1>2, FS_EmptySet, Constants DEF Owed, Init

\* However many requests expire, insert, touch and evict at once, the cache is
\* within its capacity whenever nobody is inside put (cache.py:42-48), even
\* though a put that raises leaves without evicting.
THEOREM Bounded == Spec => []CacheBounded
<1>1. Init => Owed
  BY InitOwed
<1>2. IInv /\ Owed /\ [Next]_vars => Owed'
  <2>1. ASSUME IInv, Owed, NEW k \in Keys, Age(k) PROVE Owed'
    BY <2>1 DEF Age, Owed, Touched, Evicting, Key, Target
  <2>2. ASSUME IInv, Owed, UNCHANGED vars PROVE Owed'
    BY <2>2 DEF vars, Owed, Touched, Evicting, Key, Target
  <2> QED
    BY <2>1, <2>2, StepOwed DEF Next, Acts, IInv
<1>3. IInv /\ Owed => CacheBounded
  <2> SUFFICES ASSUME IInv, Owed,
                      \A r \in Requests : req[r].pc \notin {"touch", "evict", "pop"}
               PROVE  Len(store) <= Capacity
    BY DEF CacheBounded
  <2>1. Touched = {} /\ Evicting = {}
    BY DEF Touched, Evicting
  <2> QED
    BY <2>1, FS_EmptySet, Constants DEF Owed
<1> QED
  BY <1>1, <1>2, <1>3, Invariance, PTL DEF Spec
=============================================================================
