------------------------- MODULE DeadlineTimerProofs -------------------------
(***************************************************************************)
(* Lemmas about deadline_timer, and about the least element of a set of    *)
(* naturals, for the proofs about the modules that use them.               *)
(***************************************************************************)
EXTENDS DeadlineTimer, FiniteSetsExt, WellFoundedInduction, TLAPS

(* The waits in progress and the handlers in the queue, together.          *)
Count(t) == (IF t.waiting THEN 1 ELSE 0) + t.expired + t.cancelled

(* A deadline_timer keeps its type when a wait or a handler is counted.    *)
LEMMA TimerUpdate ==
    ASSUME NEW t \in TimerType, NEW w \in BOOLEAN, NEW n \in Nat
    PROVE  /\ [t EXCEPT !.waiting = w, !.expired = n] \in TimerType
           /\ [t EXCEPT !.waiting = w, !.cancelled = n] \in TimerType
  BY DEF TimerType

(* A new expiry time turns the wait in progress into a queued handler.     *)
LEMMA ExpiresFromNowFacts ==
    ASSUME NEW t \in TimerType
    PROVE  /\ ExpiresFromNow(t) \in TimerType
           /\ Count(ExpiresFromNow(t)) = Count(t)
           /\ ~ExpiresFromNow(t).waiting
  <1> DEFINE n == IF t.waiting THEN t.cancelled + 1 ELSE t.cancelled
  <1>1. n \in Nat
    BY DEF TimerType
  <1>2. ExpiresFromNow(t) = [t EXCEPT !.waiting = FALSE, !.cancelled = n]
    BY DEF ExpiresFromNow, TimerType
  <1>3. ExpiresFromNow(t) \in TimerType
    BY <1>1, <1>2, TimerUpdate
  <1>4. Count(ExpiresFromNow(t)) = Count(t)
    BY <1>2 DEF Count, TimerType
  <1> QED
    BY <1>2, <1>3, <1>4 DEF TimerType

(* A wait that is started is one more, unless one was in progress.         *)
LEMMA AsyncWaitFacts ==
    ASSUME NEW t \in TimerType
    PROVE  /\ AsyncWait(t) \in TimerType
           /\ AsyncWait(t).waiting
           /\ ~t.waiting => Count(AsyncWait(t)) = Count(t) + 1
  <1>1. AsyncWait(t) \in TimerType /\ AsyncWait(t).waiting
    BY DEF AsyncWait, TimerType
  <1>2. AsyncWait(t).expired = t.expired /\ AsyncWait(t).cancelled = t.cancelled
    BY DEF AsyncWait, TimerType
  <1>3. t.expired \in Nat /\ t.cancelled \in Nat
    BY DEF TimerType
  <1> QED
    BY <1>1, <1>2, <1>3 DEF Count

(* A wait that expires is still counted, as a queued handler.              *)
LEMMA ExpireFacts ==
    ASSUME NEW t \in TimerType
    PROVE  /\ Expire(t) \in TimerType
           /\ t.waiting => Count(Expire(t)) = Count(t)
           /\ Alive(Expire(t))
  <1>1. t.expired + 1 \in Nat
    BY DEF TimerType
  <1>2. Expire(t) \in TimerType
    BY <1>1, TimerUpdate DEF Expire
  <1> QED
    BY <1>2 DEF Expire, Count, Alive, TimerType

(* A handler that is run is counted no longer.                             *)
LEMMA HandlerTakenFacts ==
    ASSUME NEW t \in TimerType, NEW u \in HandlerTaken(t)
    PROVE  u \in TimerType /\ Count(u) = Count(t) - 1
  <1>1. CASE t.expired > 0 /\ u = [t EXCEPT !.expired = @ - 1]
    BY <1>1 DEF TimerType, Count
  <1>2. CASE t.cancelled > 0 /\ u = [t EXCEPT !.cancelled = @ - 1]
    BY <1>2 DEF TimerType, Count
  <1> QED
    BY <1>1, <1>2 DEF HandlerTaken

(* The number of waits and handlers is a natural number, and not zero      *)
(* while the timer is alive.                                               *)
LEMMA CountFacts ==
    ASSUME NEW t \in TimerType
    PROVE  /\ Count(t) \in Nat
           /\ Count(t) = 0 => ~t.waiting
           /\ Alive(t) <=> Count(t) > 0
  BY DEF Count, Alive, TimerType

(* A set of naturals has a least element.                                  *)
LEMMA MinOfNaturals ==
    ASSUME NEW S \in SUBSET Nat, S # {}
    PROVE  Min(S) \in S
  <1> DEFINE R == OpToRel(<, Nat)
  <1>1. IsWellFoundedOn(R, Nat)
    BY NatLessThanWellFounded
  <1>2. R = {r \in Nat \X Nat : r[1] < r[2]}
    BY DEF OpToRel
  <1> HIDE DEF R
  <1>3. PICK x \in S : \A y \in S : ~ (<<y, x>> \in R)
    BY <1>1, WFMin
  <1>4. \A y \in S : x <= y
    <2> SUFFICES ASSUME NEW y \in S PROVE x <= y
      OBVIOUS
    <2>1. <<y, x>> \in R <=> y < x
      BY <1>2, SMT
    <2> QED
      BY <1>3, <2>1
  <1> QED
    BY <1>4 DEF Min
==============================================================================
