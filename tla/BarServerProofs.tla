--------------------------- MODULE BarServerProofs ---------------------------
(***************************************************************************)
(* Proofs about BarServer for any number of connections, requests, ads and *)
(* changes of the buffers.                                                 *)
(***************************************************************************)
EXTENDS BarServer, FiniteSetTheorems, SequenceTheorems, TLAPS

(* Handler h goes on reading session s, or takes it out of the pool.       *)
Reader(h, s) == h.s = s /\ h.kind \in {"read", "rdErr"}

ReaderIn(q, s) == \E k \in 1..Len(q) : Reader(q[k], s)

(* A write is about the message at the front of _msgQueue, and there is    *)
(* one at most: in progress, or done with its handler ready.               *)
WriteInv ==
    /\ \A s \in Sessions : ses[s].wr => ses[s].msgQueue # <<>>
    /\ \A k \in 1..Len(ios) : ios[k].kind = "wrOk" =>
          /\ ses[ios[k].s].msgQueue # <<>> /\ ~ses[ios[k].s].wr
          /\ \A j \in 1..Len(ios) : ios[j].kind = "wrOk" /\ ios[j].s = ios[k].s => j = k

(* While handleRequest holds the iterator, its request is the one at the   *)
(* front of the queue of the net thread.                                   *)
LookupInv ==
    lookup # None => ios # <<>> /\ ios[1].kind = "read" /\ ios[1].arg.what \in Ads

(* PoolIsServed, and a session leaves the pool as soon as it loses its     *)
(* hooks, which is why NetError need not look further than at them.        *)
PoolInv ==
    \A s \in pool : ses[s].hooked /\ (ses[s].rd \/ ReaderIn(ios, s))

(* Behind each posted answer the session still has something to read or    *)
(* the end of a read to learn of: this is what keeps the object alive.     *)
PostInv ==
    \A k \in 1..Len(ios) : ios[k].kind = "post" =>
        \/ ses[ios[k].s].rd
        \/ \E j \in (k + 1)..Len(ios) : Reader(ios[j], ios[k].s)

ServerInv == TypeOK /\ WriteInv /\ LookupInv /\ PoolInv /\ PostInv

-----------------------------------------------------------------------------
(* The queue of the net thread.                                            *)

(* d handlers, at most one, are taken from the front, q comes to the end.  *)
Moves(d, q) ==
    /\ d \in {0, 1} /\ d <= Len(ios)
    /\ q \in Seq(Handlers)
    /\ ios' \in Seq(Handlers)
    /\ Len(ios') = Len(ios) - d + Len(q)
    /\ \A k \in 1..(Len(ios) - d) : ios'[k] = ios[k + d]
    /\ \A k \in 1..Len(q) : ios'[Len(ios) - d + k] = q[k]

(* Handlers that become ready one after the other become ready together.   *)
LEMMA Regrouped ==
    ASSUME NEW a \in Seq(Handlers), NEW b \in Seq(Handlers), NEW c \in Seq(Handlers)
    PROVE  (a \o b) \o c = a \o (b \o c)
  BY ConcatAssociative

(* Handlers become ready.                                                  *)
LEMMA Extended ==
    ASSUME TypeOK, NEW q \in Seq(Handlers), ios' = ios \o q
    PROVE  Moves(0, q)
  <1>1. ios \in Seq(Handlers) /\ Len(ios) \in Nat
    BY DEF TypeOK
  <1> QED
    BY <1>1, ConcatProperties DEF Moves

(* A handler runs and others become ready.                                 *)
LEMMA Consumed ==
    ASSUME TypeOK, ios # <<>>, NEW q \in Seq(Handlers), ios' = Tail(ios) \o q
    PROVE  Moves(1, q) /\ Head(ios) = ios[1] /\ ios[1] \in Handlers /\ Len(ios) \in Nat \ {0}
  <1>1. ios \in Seq(Handlers) /\ Len(ios) \in Nat \ {0}
    BY EmptySeq DEF TypeOK
  <1>2. /\ Tail(ios) \in Seq(Handlers) /\ Len(Tail(ios)) = Len(ios) - 1
        /\ \A k \in 1..(Len(ios) - 1) : Tail(ios)[k] = ios[k + 1]
    BY <1>1, HeadTailProperties
  <1>3. /\ ios' \in Seq(Handlers)
        /\ Len(ios') = Len(ios) - 1 + Len(q)
        /\ \A k \in 1..(Len(ios) - 1 + Len(q)) :
              ios'[k] = IF k <= Len(ios) - 1 THEN Tail(ios)[k] ELSE q[k - (Len(ios) - 1)]
    BY <1>2, ConcatProperties
  <1>4. Len(q) \in Nat
    BY LenProperties
  <1>5. \A k \in 1..(Len(ios) - 1) : ios'[k] = ios[k + 1]
    BY <1>1, <1>2, <1>3, <1>4
  <1>6. \A k \in 1..Len(q) : ios'[Len(ios) - 1 + k] = q[k]
    BY <1>1, <1>3, <1>4
  <1>7. Head(ios) = ios[1] /\ ios[1] \in Handlers
    BY <1>1
  <1> QED
    BY <1>1, <1>3, <1>5, <1>6, <1>7 DEF Moves

(* Nothing but the given handlers is new, and what is new is at the end.   *)
LEMMA MovesFacts ==
    ASSUME TypeOK, NEW d, NEW q, Moves(d, q)
    PROVE  /\ Len(ios) \in Nat /\ Len(q) \in Nat /\ Len(ios') \in Nat
           /\ \A k \in 1..Len(ios') :
                 \/ k \in 1..(Len(ios) - d) /\ ios'[k] = ios[k + d] /\ k + d \in 1..Len(ios)
                 \/ /\ k - (Len(ios) - d) \in 1..Len(q)
                    /\ ios'[k] = q[k - (Len(ios) - d)]
  <1>1. Len(ios) \in Nat /\ Len(q) \in Nat /\ Len(ios') \in Nat
    BY LenProperties DEF TypeOK, Moves
  <1>2. ASSUME NEW k \in 1..Len(ios')
        PROVE  \/ k \in 1..(Len(ios) - d) /\ ios'[k] = ios[k + d] /\ k + d \in 1..Len(ios)
               \/ /\ k - (Len(ios) - d) \in 1..Len(q)
                  /\ ios'[k] = q[k - (Len(ios) - d)]
    <2>1. CASE k <= Len(ios) - d
      BY <1>1, <2>1 DEF Moves
    <2>2. CASE k > Len(ios) - d
      <3>1. k - (Len(ios) - d) \in 1..Len(q)
        BY <1>1, <2>2 DEF Moves
      <3> QED
        BY <1>1, <2>2, <3>1 DEF Moves
    <2> QED
      BY <1>1, <2>1, <2>2 DEF Moves
  <1> QED
    BY <1>1, <1>2

(* A reader that is ready stays so unless it is the handler that runs.     *)
LEMMA ReaderMoves ==
    ASSUME TypeOK, NEW d, NEW q, Moves(d, q), NEW s
    PROVE  /\ ReaderIn(q, s) => ReaderIn(ios', s)
           /\ ReaderIn(ios, s) /\ (d = 0 \/ ~Reader(ios[1], s)) => ReaderIn(ios', s)
  <1>1. ASSUME NEW k \in 1..Len(q), Reader(q[k], s) PROVE ReaderIn(ios', s)
    <2>1. Len(ios) - d + k \in 1..Len(ios') /\ ios'[Len(ios) - d + k] = q[k]
      BY MovesFacts DEF Moves
    <2> QED
      BY <1>1, <2>1 DEF ReaderIn
  <1>2. ASSUME NEW k \in 1..Len(ios), Reader(ios[k], s), d = 0 \/ ~Reader(ios[1], s)
        PROVE  ReaderIn(ios', s)
    <2>1. k - d \in 1..(Len(ios) - d) /\ k - d \in 1..Len(ios')
      BY <1>2, MovesFacts DEF Moves
    <2>2. ios'[k - d] = ios[(k - d) + d] /\ (k - d) + d = k
      BY <2>1, MovesFacts DEF Moves
    <2> QED
      BY <1>2, <2>1, <2>2 DEF ReaderIn
  <1> QED
    BY <1>1, <1>2 DEF ReaderIn

-----------------------------------------------------------------------------
(* The invariants of the queue, under any move of it.                      *)

(* Reads in progress do not vanish: when one ends its handler is queued.   *)
RdKept(q) == \A s \in Sessions : ses[s].rd => ses'[s].rd \/ ReaderIn(q, s)

(* The pool stays served if who is in it afterwards reads on, or was in it *)
(* before and is not the session whose read just ended.                    *)
LEMMA PoolKept ==
    ASSUME TypeOK, PoolInv, NEW d, NEW q, Moves(d, q), RdKept(q),
           \A s \in pool' :
              /\ ses'[s].hooked
              /\ \/ ses'[s].rd \/ ReaderIn(q, s)
                 \/ s \in pool /\ (d = 0 \/ ~Reader(ios[1], s))
    PROVE  PoolInv'
  <1> SUFFICES ASSUME NEW s \in pool'
               PROVE  ses'[s].hooked /\ (ses'[s].rd \/ ReaderIn(ios', s))
    BY DEF PoolInv
  <1>1. CASE ses'[s].rd \/ ReaderIn(q, s)
    BY <1>1, ReaderMoves
  <1>2. CASE s \in pool /\ (d = 0 \/ ~Reader(ios[1], s))
    <2>1. s \in Sessions /\ (ses[s].rd \/ ReaderIn(ios, s))
      BY <1>2 DEF PoolInv, TypeOK
    <2>2. CASE ses[s].rd
      BY <2>1, <2>2, ReaderMoves DEF RdKept
    <2>3. CASE ReaderIn(ios, s)
      BY <1>2, <2>3, ReaderMoves
    <2> QED
      BY <2>1, <2>2, <2>3
  <1> QED
    BY <1>1, <1>2

(* What stands behind a posted answer survives, provided that each answer  *)
(* posted now has something behind it, too.                                *)
LEMMA PostKept ==
    ASSUME TypeOK, PostInv, NEW d, NEW q, Moves(d, q), RdKept(q),
           \A i \in 1..Len(q) : q[i].kind = "post" =>
              \/ ses'[q[i].s].rd
              \/ \E j \in (i + 1)..Len(q) : Reader(q[j], q[i].s)
    PROVE  PostInv'
  <1> DEFINE n == Len(ios) - d
  <1>0. n \in Nat /\ Len(q) \in Nat /\ Len(ios') = n + Len(q)
    BY MovesFacts DEF Moves
  <1>1. \A i \in 1..Len(q) : n + i \in 1..Len(ios') /\ ios'[n + i] = q[i]
    BY <1>0 DEF Moves
  <1> SUFFICES ASSUME NEW k \in 1..Len(ios'), ios'[k].kind = "post"
               PROVE  \/ ses'[ios'[k].s].rd
                      \/ \E j \in (k + 1)..Len(ios') : Reader(ios'[j], ios'[k].s)
    BY DEF PostInv
  <1>2. CASE k \in 1..n /\ ios'[k] = ios[k + d] /\ k + d \in 1..Len(ios)
    <2>1. ios[k + d] \in Handlers
      BY <1>2, ElementOfSeq DEF TypeOK
    <2> DEFINE s == ios[k + d].s
    <2>2. s \in Sessions
      BY <1>2, <2>1 DEF Handlers
    <2>3. CASE ses[s].rd
      <3>1. CASE ses'[s].rd
        BY <1>2, <3>1
      <3>2. ASSUME NEW i \in 1..Len(q), Reader(q[i], s)
            PROVE  \E j \in (k + 1)..Len(ios') : Reader(ios'[j], ios'[k].s)
        <4>1. n + i \in (k + 1)..Len(ios')
          BY <1>0, <1>2
        <4> QED
          BY <1>1, <1>2, <3>2, <4>1
      <3> QED
        BY <2>2, <2>3, <3>1, <3>2 DEF RdKept, ReaderIn
    <2>4. ASSUME NEW j \in (k + d + 1)..Len(ios), Reader(ios[j], s)
          PROVE  \E i \in (k + 1)..Len(ios') : Reader(ios'[i], ios'[k].s)
      <3>1. j - d \in (k + 1)..Len(ios') /\ j - d \in 1..n /\ (j - d) + d = j
        BY <1>0, <1>2, MovesFacts DEF Moves
      <3>2. ios'[j - d] = ios[j]
        BY <3>1 DEF Moves
      <3> QED
        BY <1>2, <2>4, <3>1, <3>2
    <2> QED
      BY <1>2, <2>3, <2>4 DEF PostInv
  <1>3. CASE k - n \in 1..Len(q) /\ ios'[k] = q[k - n]
    <2> DEFINE i == k - n
    <2>1. CASE ses'[q[i].s].rd
      BY <1>3, <2>1
    <2>2. ASSUME NEW j \in (i + 1)..Len(q), Reader(q[j], q[i].s)
          PROVE  \E m \in (k + 1)..Len(ios') : Reader(ios'[m], ios'[k].s)
      <3>1. n + j \in (k + 1)..Len(ios') /\ j \in 1..Len(q)
        BY <1>0, <1>3
      <3> QED
        BY <1>1, <1>3, <2>2, <3>1
    <2> QED
      BY <1>3, <2>1, <2>2
  <1> QED
    BY <1>2, <1>3, MovesFacts

(* A step that starts no write and empties no _msgQueue is no danger to    *)
(* WriteInv.                                                               *)
LEMMA WriteKept ==
    ASSUME TypeOK, WriteInv, NEW d, NEW q, Moves(d, q),
           \A i \in 1..Len(q) : q[i].kind # "wrOk",
           \A s \in Sessions : /\ ses'[s].wr => ses[s].wr
                               /\ ses[s].msgQueue # <<>> => ses'[s].msgQueue # <<>>
    PROVE  WriteInv'
  <1>1. \A k \in 1..Len(ios') : ios'[k].kind = "wrOk" =>
            /\ k + d \in 1..Len(ios) /\ ios'[k] = ios[k + d]
            /\ ios[k + d].s \in Sessions
    <2>1. \A k \in 1..Len(ios) : ios[k].kind = "wrOk" => ios[k].s \in Sessions
      BY ElementOfSeq DEF TypeOK, Handlers
    <2> QED
      BY <2>1, MovesFacts
  <1>2. ASSUME NEW k \in 1..Len(ios'), ios'[k].kind = "wrOk"
        PROVE  /\ ses'[ios'[k].s].msgQueue # <<>> /\ ~ses'[ios'[k].s].wr
               /\ \A j \in 1..Len(ios') :
                    ios'[j].kind = "wrOk" /\ ios'[j].s = ios'[k].s => j = k
    <2>1. ses'[ios'[k].s].msgQueue # <<>> /\ ~ses'[ios'[k].s].wr
      BY <1>1, <1>2 DEF WriteInv
    <2>2. ASSUME NEW j \in 1..Len(ios'), ios'[j].kind = "wrOk", ios'[j].s = ios'[k].s
          PROVE  j = k
      <3>1. j + d = k + d
        BY <1>1, <1>2, <2>2 DEF WriteInv
      <3> QED
        BY <3>1 DEF Moves
    <2> QED
      BY <2>1, <2>2
  <1> QED
    BY <1>2 DEF WriteInv

(* Whatever becomes ready, the request that is looked up stays in front.   *)
LEMMA LookupKept ==
    ASSUME TypeOK, LookupInv, NEW q, Moves(0, q), lookup' = lookup
    PROVE  LookupInv'
  <1> SUFFICES ASSUME lookup # None
               PROVE  ios' # <<>> /\ ios'[1].kind = "read" /\ ios'[1].arg.what \in Ads
    BY DEF LookupInv
  <1>1. ios \in Seq(Handlers) /\ ios # <<>>
    BY DEF LookupInv, TypeOK
  <1>2. Len(ios) \in Nat \ {0}
    BY <1>1, EmptySeq
  <1>3. ios'[1] = ios[1] /\ Len(ios') # 0
    BY <1>2, MovesFacts DEF Moves
  <1> QED
    BY <1>3, EmptySeq DEF LookupInv

-----------------------------------------------------------------------------
(* What the operations of asio do to a session.                            *)

(* readHead() starts a read or leaves the handler of its failure.          *)
LEMMA ReadHeadFacts ==
    ASSUME NEW s \in Sessions, NEW t \in SessionType
    PROVE  /\ ReadHead(t) \in SessionType
           /\ ReadHead(t).wr = t.wr /\ ReadHead(t).hooked = t.hooked
           /\ ReadHead(t).msgQueue = t.msgQueue
           /\ t.rd => ReadHead(t).rd
           /\ \/ ReadHeadFails(s, t) = <<>> /\ ReadHead(t).rd
              \/ ReadHeadFails(s, t) = <<Handler("rdErr", s, None)>>
           /\ Handler("rdErr", s, None) \in Handlers
  BY DEF ReadHead, ReadHeadFails, SessionType, Handlers, Handler

(* writeData() starts a write or leaves the handler of its failure.        *)
LEMMA WriteDataFacts ==
    ASSUME NEW s \in Sessions, NEW t \in SessionType
    PROVE  /\ WriteData(t) \in SessionType
           /\ WriteData(t).rd = t.rd /\ WriteData(t).hooked = t.hooked
           /\ WriteData(t).msgQueue = t.msgQueue
           /\ WriteDataFails(s, t) \in Seq(Handlers)
           /\ \A k \in 1..Len(WriteDataFails(s, t)) : WriteDataFails(s, t)[k].kind = "wrErr"
  <1> DEFINE we == Handler("wrErr", s, None)
  <1>1. /\ WriteData(t) \in SessionType
        /\ WriteData(t).rd = t.rd /\ WriteData(t).hooked = t.hooked
        /\ WriteData(t).msgQueue = t.msgQueue
    BY DEF WriteData, SessionType
  <1>2. we \in Handlers /\ we.kind = "wrErr"
    BY DEF Handlers, Handler
  <1>3. WriteDataFails(s, t) = <<>> \/ WriteDataFails(s, t) = <<we>>
    BY DEF WriteDataFails
  <1> HIDE DEF we
  <1>4. <<we>> \in Seq(Handlers) /\ Len(<<we>>) = 1 /\ <<we>>[1] = we
    BY <1>2
  <1>5. CASE WriteDataFails(s, t) = <<>>
    BY <1>1, <1>5, EmptySeq
  <1>6. CASE WriteDataFails(s, t) = <<we>>
    BY <1>1, <1>2, <1>4, <1>6
  <1> QED
    BY <1>3, <1>5, <1>6

(* A socket that is closed or lost has no operation in progress.           *)
LEMMA EndedFacts ==
    ASSUME NEW t \in SessionType, NEW sock \in {"broken", "closed"}
    PROVE  /\ Ended(t, sock) \in SessionType
           /\ ~Ended(t, sock).rd /\ ~Ended(t, sock).wr
           /\ Ended(t, sock).hooked = t.hooked /\ Ended(t, sock).msgQueue = t.msgQueue
  BY DEF Ended, SessionType

(* The read that a closing ended, if there was one, has its handler.       *)
LEMMA AbortedFacts ==
    ASSUME NEW s \in Sessions, NEW t \in SessionType
    PROVE  /\ Aborted(s, t) \in Seq(Handlers)
           /\ \A k \in 1..Len(Aborted(s, t)) : Aborted(s, t)[k].kind \in {"rdErr", "wrErr"}
           /\ t.rd => ReaderIn(Aborted(s, t), s)
  <1> DEFINE re == Handler("rdErr", s, None)
             we == Handler("wrErr", s, None)
  <1>1. /\ re \in Handlers /\ re.kind = "rdErr" /\ re.s = s
        /\ we \in Handlers /\ we.kind = "wrErr"
    BY DEF Handlers, Handler
  <1> HIDE DEF re, we
  <1>2. t.rd \in BOOLEAN /\ t.wr \in BOOLEAN
    BY DEF SessionType
  <1>3. CASE t.rd /\ t.wr
    <2>1. Aborted(s, t) = <<re>> \o <<we>>
      BY <1>3 DEF Aborted, re, we
    <2>2. <<re>> \in Seq(Handlers) /\ <<we>> \in Seq(Handlers)
          /\ Len(<<re>>) = 1 /\ Len(<<we>>) = 1
      BY <1>1
    <2>3. /\ Aborted(s, t) \in Seq(Handlers) /\ Len(Aborted(s, t)) = 2
          /\ Aborted(s, t)[1] = re /\ Aborted(s, t)[2] = we
      BY <2>1, <2>2, ConcatProperties
    <2> QED
      BY <1>1, <2>3 DEF ReaderIn, Reader
  <1>4. CASE t.rd /\ ~t.wr
    <2>1. Aborted(s, t) = <<re>>
      BY <1>4, <1>1 DEF Aborted, re
    <2> QED
      BY <1>1, <2>1 DEF ReaderIn, Reader
  <1>5. CASE ~t.rd /\ t.wr
    <2>1. Aborted(s, t) = <<we>>
      BY <1>5, <1>1 DEF Aborted, we
    <2> QED
      BY <1>1, <1>5, <2>1
  <1>6. CASE ~t.rd /\ ~t.wr
    <2>1. Aborted(s, t) = <<>>
      BY <1>6 DEF Aborted
    <2> QED
      BY <1>6, <2>1
  <1> QED
    BY <1>2, <1>3, <1>4, <1>5, <1>6

(* stop() ends every read in progress of a session of the pool.            *)
LEMMA StoppedFacts ==
    ASSUME TypeOK, NEW q \in SetToSeqs(AbortedByStop)
    PROVE  /\ q \in Seq(Handlers)
           /\ \A k \in 1..Len(q) : q[k].kind \in {"rdErr", "wrErr"}
           /\ \A s \in pool : ses[s].rd => ReaderIn(q, s)
  <1> DEFINE R == {t \in pool : ses[t].rd}
             W == {t \in pool : ses[t].wr}
             A == AbortedByStop
             n == Cardinality(A)
  <1>1. IsFiniteSet(Sessions)
    BY FS_Interval, ServerAssumption DEF Sessions
  <1>2. IsFiniteSet(R) /\ IsFiniteSet(W)
    BY <1>1, FS_Subset DEF TypeOK
  <1>3. IsFiniteSet({Handler("rdErr", s, None) : s \in R})
    <2> DEFINE T == {Handler("rdErr", s, None) : s \in R}
    <2>1. [s \in R |-> Handler("rdErr", s, None)] \in Surjection(R, T)
      BY DEF Surjection
    <2> QED
      BY <1>2, <2>1, FS_Surjection
  <1>4. IsFiniteSet({Handler("wrErr", s, None) : s \in W})
    <2> DEFINE T == {Handler("wrErr", s, None) : s \in W}
    <2>1. [s \in W |-> Handler("wrErr", s, None)] \in Surjection(W, T)
      BY DEF Surjection
    <2> QED
      BY <1>2, <2>1, FS_Surjection
  <1>5. IsFiniteSet(A)
    BY <1>3, <1>4, FS_Union DEF AbortedByStop
  <1>6. \A h \in A : h \in Handlers /\ h.kind \in {"rdErr", "wrErr"}
    BY DEF AbortedByStop, Handlers, Handler, TypeOK
  <1>7. n \in Nat /\ q \in [1..n -> A] /\ \A i, j \in 1..n : i # j => q[i] # q[j]
    BY <1>5, FS_CardinalityType DEF SetToSeqs
  <1>8. q \in Seq(Handlers) /\ Len(q) = n
    BY <1>6, <1>7
  <1>9. ASSUME NEW s \in pool, ses[s].rd PROVE ReaderIn(q, s)
    <2> DEFINE h == Handler("rdErr", s, None)
    <2>1. h \in A /\ Reader(h, s)
      BY <1>9 DEF AbortedByStop, Reader, Handler
    <2>2. \E k \in 1..n : q[k] = h
      <3> SUFFICES ASSUME \A k \in 1..n : q[k] # h PROVE FALSE
        OBVIOUS
      <3>1. q \in [1..n -> A \ {h}]
        BY <1>7
      <3>2. IsFiniteSet(A \ {h}) /\ Cardinality(A \ {h}) = n - 1
        BY <1>5, <2>1, FS_RemoveElement
      <3>3. IsFiniteSet(1..n) /\ Cardinality(1..n) = n
        BY <1>7, FS_Interval
      <3>4. \E i, j \in 1..n : i # j /\ q[i] = q[j]
        BY <1>7, <3>1, <3>2, <3>3, FS_PigeonHole
      <3> QED
        BY <1>7, <3>4
    <2> QED
      BY <1>8, <2>1, <2>2 DEF ReaderIn
  <1> QED
    BY <1>6, <1>7, <1>8, <1>9

-----------------------------------------------------------------------------
(* The handlers of the net thread.                                         *)

(* The handler that runs, once the queue is known to be typed.             *)
LEMMA RunningFacts ==
    ASSUME TypeOK, NEW kind, Running(kind)
    PROVE  /\ ios # <<>> /\ Head(ios) = ios[1] /\ 1 \in 1..Len(ios) /\ ios[1] \in Handlers
           /\ ios[1].kind = kind /\ lookup = None
           /\ kind # "acceptErr" => ios[1].s \in Sessions
  <1>1. ios \in Seq(Handlers) /\ ios # <<>> /\ Head(ios).kind = kind /\ lookup = None
    BY DEF Running, TypeOK
  <1>2. Len(ios) \in Nat \ {0}
    BY <1>1, EmptySeq
  <1>3. Head(ios) = ios[1] /\ ios[1] \in Handlers
    BY <1>1, <1>2
  <1> QED
    BY <1>1, <1>2, <1>3 DEF Handlers

(* doAccept, behind what else the handler makes ready.                     *)
LEMMA DoAcceptFacts ==
    ASSUME TypeOK, ios # <<>>, NEW f \in Seq(Handlers), doAccept(Tail(ios) \o f),
           \A k \in 1..Len(f) : f[k].kind = "rdErr"
    PROVE  /\ accepting' \in Sessions \cup {None} /\ nextSession' \in 2..(MaxSessions + 1)
           /\ \E q : /\ Moves(1, q)
                     /\ \A s : ReaderIn(f, s) => ReaderIn(q, s)
                     /\ \A k \in 1..Len(q) : q[k].kind \in {"rdErr", "acceptErr"}
  <1>1. accepting' \in Sessions \cup {None} /\ nextSession' \in 2..(MaxSessions + 1)
    <2>1. MaxSessions \in Nat \ {0} /\ nextSession \in 2..(MaxSessions + 1)
      BY ServerAssumption DEF TypeOK
    <2> QED
      BY <2>1 DEF doAccept, Sessions
  <1>2. CASE ios' = Tail(ios) \o f
    <2>1. Moves(1, f)
      BY <1>2, Consumed
    <2> QED
      BY <1>1, <2>1
  <1>3. CASE ios' = Append(Tail(ios) \o f, Handler("acceptErr", None, None))
    <2> DEFINE h == Handler("acceptErr", None, None)
               q == Append(f, h)
    <2>1. h \in Handlers /\ h.kind = "acceptErr"
      BY DEF Handler, Handlers
    <2>2. Tail(ios) \in Seq(Handlers)
      BY HeadTailProperties DEF TypeOK
    <2>3. /\ q \in Seq(Handlers) /\ Len(q) = Len(f) + 1
          /\ \A k \in 1..Len(f) : q[k] = f[k]
          /\ q[Len(f) + 1] = h
      BY <2>1, AppendProperties
    <2>4. ios' = Tail(ios) \o q
      <3> HIDE DEF h
      <3>1. q = f \o <<h>> /\ Append(Tail(ios) \o f, h) = (Tail(ios) \o f) \o <<h>>
        BY <2>1, <2>2, AppendIsConcat, ConcatProperties
      <3>2. <<h>> \in Seq(Handlers)
        BY <2>1
      <3>3. (Tail(ios) \o f) \o <<h>> = Tail(ios) \o (f \o <<h>>)
        <4>1. \A a, b, c \in Seq(Handlers) : (a \o b) \o c = a \o (b \o c)
          BY Regrouped
        <4> QED
          BY <2>2, <3>2, <4>1, Zenon
      <3> QED
        BY <1>3, <3>1, <3>3, Zenon DEF h
    <2>5. Moves(1, q)
      BY <2>3, <2>4, Consumed
    <2>6. Len(f) \in Nat
      BY LenProperties
    <2>7. \A s : ReaderIn(f, s) => ReaderIn(q, s)
      BY <2>3, <2>6 DEF ReaderIn
    <2>8. \A k \in 1..Len(q) : q[k].kind \in {"rdErr", "acceptErr"}
      BY <2>1, <2>3, <2>6
    <2> QED
      BY <1>1, <2>5, <2>7, <2>8
  <1> QED
    BY <1>2, <1>3 DEF doAccept

(* readBody ends: the answer, if any, lies in front of the failure of the  *)
(* next read, if that fails at once.                                       *)
LEMMA ReadOnFacts ==
    ASSUME TypeOK, ios # <<>>, NEW s \in Sessions, NEW posts,
           \/ posts = <<>>
           \/ \E h \in Handlers : h.kind = "post" /\ h.s = s /\ posts = <<h>>,
           ReadOn(s, posts)
    PROVE  /\ ses' \in [Sessions -> SessionType]
           /\ \A r \in Sessions : /\ ses'[r].wr = ses[r].wr
                                  /\ ses'[r].msgQueue = ses[r].msgQueue
                                  /\ ses'[r].hooked = ses[r].hooked
           /\ \E q : /\ Moves(1, q) /\ RdKept(q)
                     /\ ses'[s].rd \/ ReaderIn(q, s)
                     /\ \A k \in 1..Len(q) : /\ q[k].kind \in {"post", "rdErr"}
                                             /\ q[k].kind = "post" =>
                                                   \/ ses'[q[k].s].rd
                                                   \/ \E j \in (k + 1)..Len(q) : Reader(q[j], q[k].s)
  <1> DEFINE e == ReadHeadFails(s, ses[s])
             re == Handler("rdErr", s, None)
  <1>1. ses \in [Sessions -> SessionType] /\ ses' = [ses EXCEPT ![s] = ReadHead(@)]
    BY DEF TypeOK, ReadOn
  <1>2. ses' \in [Sessions -> SessionType] /\ ses'[s] = ReadHead(ses[s])
        /\ \A r \in Sessions : r # s => ses'[r] = ses[r]
    BY <1>1, ReadHeadFacts
  <1>3. /\ \A r \in Sessions : /\ ses'[r].wr = ses[r].wr
                               /\ ses'[r].msgQueue = ses[r].msgQueue
                               /\ ses'[r].hooked = ses[r].hooked
        /\ \A q : RdKept(q)
    BY <1>1, <1>2, ReadHeadFacts DEF RdKept
  <1>4. /\ re \in Handlers /\ re.kind = "rdErr" /\ Reader(re, s)
        /\ (e = <<>> /\ ses'[s].rd) \/ e = <<re>>
    BY <1>1, <1>2, ReadHeadFacts DEF Handler, Reader
  <1> HIDE DEF e, re
  <1>5. posts \in Seq(Handlers) /\ e \in Seq(Handlers) /\ Tail(ios) \in Seq(Handlers)
    <2>1. \A h \in Handlers : <<h>> \in Seq(Handlers)
      OBVIOUS
    <2>2. posts \in Seq(Handlers) /\ e \in Seq(Handlers)
      BY <1>4, <2>1, EmptySeq
    <2> QED
      BY <2>2, HeadTailProperties DEF TypeOK
  <1>6. ios' = Tail(ios) \o (posts \o e)
    <2>1. (Tail(ios) \o posts) \o e = Tail(ios) \o (posts \o e)
      <3>1. \A a, b, c \in Seq(Handlers) : (a \o b) \o c = a \o (b \o c)
        BY Regrouped
      <3> QED
        BY <1>5, <3>1, Zenon
    <2>2. ios' = Tail(ios) \o posts \o e
      BY Zenon DEF ReadOn, e
    <2> QED
      BY <2>1, <2>2, Zenon
  <1>7. posts \o e \in Seq(Handlers)
    BY <1>5, ConcatProperties
  <1>8. Moves(1, posts \o e)
    BY <1>6, <1>7, Consumed
  <1>9. CASE posts = <<>>
    <2>1. posts \o e = e
      BY <1>5, <1>9, ConcatEmptySeq
    <2>2. \A k \in 1..Len(e) : e[k].kind = "rdErr"
      BY <1>4
    <2>3. ses'[s].rd \/ ReaderIn(e, s)
      BY <1>4 DEF ReaderIn
    <2> QED
      BY <1>2, <1>3, <1>8, <2>1, <2>2, <2>3
  <1>10. ASSUME NEW h \in Handlers, h.kind = "post", h.s = s, posts = <<h>>
         PROVE  \E q : /\ Moves(1, q) /\ RdKept(q)
                       /\ ses'[s].rd \/ ReaderIn(q, s)
                       /\ \A k \in 1..Len(q) : /\ q[k].kind \in {"post", "rdErr"}
                                               /\ q[k].kind = "post" =>
                                                     \/ ses'[q[k].s].rd
                                                     \/ \E j \in (k + 1)..Len(q) : Reader(q[j], q[k].s)
    <2>1. CASE e = <<>> /\ ses'[s].rd
      <3>1. posts \o e = <<h>>
        BY <1>5, <1>10, <2>1, ConcatEmptySeq
      <3> QED
        BY <1>3, <1>8, <1>10, <2>1, <3>1
    <2>2. CASE e = <<re>>
      <3> DEFINE q == posts \o e
      <3>1. Len(q) = 2 /\ q[1] = h /\ q[2] = re
        BY <1>5, <1>10, <2>2, ConcatProperties
      <3>2. Moves(1, q) /\ RdKept(q)
        BY <1>3, <1>8
      <3> HIDE DEF q
      <3>3. ReaderIn(q, s)
        BY <1>4, <3>1 DEF ReaderIn
      <3>4. \A k \in 1..Len(q) : k = 1 \/ k = 2
        BY <3>1
      <3>5. \A k \in 1..Len(q) : /\ q[k].kind \in {"post", "rdErr"}
                                 /\ q[k].kind = "post" =>
                                       \E j \in (k + 1)..Len(q) : Reader(q[j], q[k].s)
        BY <1>4, <1>10, <3>1, <3>4
      <3> QED
        BY <3>2, <3>3, <3>5
    <2> QED
      BY <1>4, <2>1, <2>2
  <1> QED
    BY <1>2, <1>3, <1>9, <1>10

(* So every end of readBody keeps the invariants of the queue.             *)
LEMMA ReadOnStep ==
    ASSUME ServerInv, ios # <<>>, NEW s \in Sessions, ios[1].kind = "read", ios[1].s = s,
           NEW posts,
           \/ posts = <<>>
           \/ \E h \in Handlers : h.kind = "post" /\ h.s = s /\ posts = <<h>>,
           ReadOn(s, posts), pool' = pool
    PROVE  /\ ses' \in [Sessions -> SessionType] /\ ios' \in Seq(Handlers)
           /\ WriteInv' /\ PoolInv' /\ PostInv'
  <1>1. /\ ses' \in [Sessions -> SessionType]
        /\ \A r \in Sessions : /\ ses'[r].wr = ses[r].wr
                               /\ ses'[r].msgQueue = ses[r].msgQueue
                               /\ ses'[r].hooked = ses[r].hooked
    BY ReadOnFacts DEF ServerInv
  <1>2. PICK q : /\ Moves(1, q) /\ RdKept(q)
                 /\ ses'[s].rd \/ ReaderIn(q, s)
                 /\ \A k \in 1..Len(q) : /\ q[k].kind \in {"post", "rdErr"}
                                         /\ q[k].kind = "post" =>
                                               \/ ses'[q[k].s].rd
                                               \/ \E j \in (k + 1)..Len(q) : Reader(q[j], q[k].s)
    BY ReadOnFacts DEF ServerInv
  <1>3. WriteInv'
    <2>1. \A k \in 1..Len(q) : q[k].kind # "wrOk"
      BY <1>2
    <2> QED
      BY <1>1, <1>2, <2>1, WriteKept DEF ServerInv
  <1>4. PoolInv'
    <2>1. \A r \in pool' :
             /\ ses'[r].hooked
             /\ ses'[r].rd \/ ReaderIn(q, r) \/ (r \in pool /\ ~Reader(ios[1], r))
      BY <1>1, <1>2 DEF ServerInv, PoolInv, TypeOK, Reader
    <2> QED
      BY <1>2, <2>1, PoolKept DEF ServerInv
  <1>5. PostInv'
    BY <1>2, PostKept DEF ServerInv
  <1> QED
    BY <1>1, <1>2, <1>3, <1>4, <1>5 DEF Moves

(* What handleRequest posts is a handler of its session.                   *)
LEMMA PostFacts ==
    ASSUME NEW s \in Sessions, NEW n \in 1..MaxAsks, NEW code, NEW data,
           \/ code = 0 /\ data \in (0..MaxChanges) \cup {Garbage}
           \/ code \in {NoHandler, NotExist} /\ data = None
    PROVE  \E h \in Handlers : /\ h.kind = "post" /\ h.s = s /\ h.arg.n = n
                              /\ Post(s, n, code, data) = <<h>>
  <1>1. [n |-> n, code |-> code, data |-> data] \in Answers
    BY DEF Answers
  <1>2. Handler("post", s, [n |-> n, code |-> code, data |-> data]) \in Handlers
    BY <1>1 DEF Handlers, Handler
  <1> QED
    BY <1>2 DEF Post, Handler

(* The session that enters the pool is hooked and reads, or will learn of  *)
(* the failure of its read.                                                *)
LEMMA AcceptOkStep ==
    ASSUME ServerInv, AcceptOk
    PROVE  ServerInv'
  <1> DEFINE s == ios[1].s
             f == ReadHeadFails(s, ses[s])
  <1>1. /\ TypeOK /\ ios # <<>> /\ Head(ios) = ios[1] /\ ios[1].kind = "accept"
        /\ lookup = None /\ s \in Sessions
    BY RunningFacts DEF ServerInv, AcceptOk
  <1>2. /\ pool' = pool \cup {s} /\ doAccept(Tail(ios) \o f)
        /\ ses' = [ses EXCEPT ![s] = ReadHead([@ EXCEPT !.hooked = TRUE])]
        /\ UNCHANGED <<acceptor, lookup, stopping, buffers>>
    BY <1>1 DEF AcceptOk
  <1> DEFINE t == [ses[s] EXCEPT !.hooked = TRUE]
  <1>3. ses \in [Sessions -> SessionType] /\ ses[s] \in SessionType
    BY <1>1 DEF TypeOK
  <1>4. t \in SessionType /\ t.hooked /\ t.rd = ses[s].rd /\ t.wr = ses[s].wr
        /\ t.msgQueue = ses[s].msgQueue /\ ReadHeadFails(s, t) = f
    BY <1>3 DEF SessionType, ReadHeadFails
  <1>5. /\ ses' \in [Sessions -> SessionType] /\ ses'[s] = ReadHead(t)
        /\ \A r \in Sessions : r # s => ses'[r] = ses[r]
    BY <1>1, <1>2, <1>3, <1>4, ReadHeadFacts
  <1>6. /\ f \in Seq(Handlers) /\ \A k \in 1..Len(f) : f[k].kind = "rdErr"
        /\ ses'[s].rd \/ ReaderIn(f, s)
    <2> DEFINE re == Handler("rdErr", s, None)
    <2>1. re \in Handlers /\ re.kind = "rdErr" /\ Reader(re, s)
      BY <1>1, <1>4, ReadHeadFacts DEF Handler, Reader
    <2>2. (f = <<>> /\ ses'[s].rd) \/ f = <<re>>
      BY <1>1, <1>4, <1>5, ReadHeadFacts
    <2> HIDE DEF f, re
    <2> QED
      <3>1. <<re>> \in Seq(Handlers) /\ Len(<<re>>) = 1 /\ <<re>>[1] = re
        BY <2>1
      <3>2. CASE f = <<>> /\ ses'[s].rd
        BY <3>2, EmptySeq
      <3>3. CASE f = <<re>>
        BY <2>1, <3>1, <3>3 DEF ReaderIn
      <3> QED
        BY <2>2, <3>2, <3>3
  <1>7. /\ \A r \in Sessions : /\ ses'[r].wr = ses[r].wr
                               /\ ses'[r].msgQueue = ses[r].msgQueue
                               /\ ses[r].hooked => ses'[r].hooked
                               /\ ses[r].rd => ses'[r].rd
        /\ ses'[s].hooked
    <2>1. /\ ses'[s].wr = ses[s].wr /\ ses'[s].msgQueue = ses[s].msgQueue
          /\ ses'[s].hooked /\ (ses[s].rd => ses'[s].rd)
      <3>1. /\ ReadHead(t).wr = t.wr /\ ReadHead(t).hooked = t.hooked
            /\ ReadHead(t).msgQueue = t.msgQueue /\ (t.rd => ReadHead(t).rd)
        BY <1>1, <1>4, ReadHeadFacts
      <3> HIDE DEF t
      <3> QED
        BY <1>4, <1>5, <3>1, Zenon
    <2> QED
      BY <1>5, <2>1, Zenon
  <1> HIDE DEF f, t
  <1>8. accepting' \in Sessions \cup {None} /\ nextSession' \in 2..(MaxSessions + 1)
    BY <1>1, <1>2, <1>6, DoAcceptFacts
  <1>9. PICK q : /\ Moves(1, q)
                 /\ \A r : ReaderIn(f, r) => ReaderIn(q, r)
                 /\ \A k \in 1..Len(q) : q[k].kind \in {"rdErr", "acceptErr"}
    BY <1>1, <1>2, <1>6, DoAcceptFacts
  <1>10. TypeOK'
    <2>1. pool' \subseteq Sessions /\ ios' \in Seq(Handlers)
      BY <1>1, <1>2, <1>9 DEF TypeOK, Moves
    <2> QED
      BY <1>1, <1>2, <1>5, <1>8, <2>1 DEF TypeOK, buffers
  <1>11. RdKept(q)
    BY <1>7 DEF RdKept
  <1>12. WriteInv'
    <2>1. \A k \in 1..Len(q) : q[k].kind # "wrOk"
      BY <1>9
    <2> QED
      BY <1>1, <1>7, <1>9, <2>1, WriteKept DEF ServerInv
  <1>13. PoolInv'
    <2>1. \A r \in pool' :
             /\ ses'[r].hooked
             /\ ses'[r].rd \/ ReaderIn(q, r) \/ (r \in pool /\ ~Reader(ios[1], r))
      <3>1. ses'[s].hooked /\ (ses'[s].rd \/ ReaderIn(q, s))
        BY <1>6, <1>7, <1>9
      <3>2. \A r \in pool : r \in Sessions /\ ses[r].hooked /\ ~Reader(ios[1], r)
        BY <1>1 DEF ServerInv, PoolInv, TypeOK, Reader
      <3> QED
        BY <1>2, <1>7, <3>1, <3>2
    <2> QED
      BY <1>1, <1>9, <1>11, <2>1, PoolKept DEF ServerInv
  <1>14. PostInv'
    <2>1. \A k \in 1..Len(q) : q[k].kind # "post"
      BY <1>9
    <2> QED
      BY <1>1, <1>9, <1>11, <2>1, PostKept DEF ServerInv
  <1>15. LookupInv'
    BY <1>1, <1>2 DEF LookupInv
  <1> QED
    BY <1>10, <1>12, <1>13, <1>14, <1>15 DEF ServerInv

(* What most steps are: nothing is posted or written, no session loses its *)
(* read unnoticed, and none enters the pool.                               *)
LEMMA QuietStep ==
    ASSUME ServerInv, NEW d, NEW q, Moves(d, q),
           \A k \in 1..Len(q) : q[k].kind \notin {"wrOk", "post"},
           \A s \in Sessions :
              /\ ses'[s].wr => ses[s].wr
              /\ ses[s].msgQueue # <<>> => ses'[s].msgQueue # <<>>
              /\ ses[s].rd => ses'[s].rd \/ ReaderIn(q, s),
           \A s \in pool' : s \in pool /\ ses'[s].hooked /\ (d = 0 \/ ~Reader(ios[1], s))
    PROVE  WriteInv' /\ PoolInv' /\ PostInv'
  <1>1. RdKept(q)
    BY DEF RdKept
  <1>2. WriteInv'
    <2>1. \A k \in 1..Len(q) : q[k].kind # "wrOk"
      OBVIOUS
    <2> QED
      BY <2>1, WriteKept DEF ServerInv
  <1>3. PoolInv'
    BY <1>1, PoolKept DEF ServerInv
  <1>4. PostInv'
    <2>1. \A k \in 1..Len(q) : q[k].kind # "post"
      OBVIOUS
    <2> QED
      BY <1>1, <2>1, PostKept DEF ServerInv
  <1> QED
    BY <1>2, <1>3, <1>4

(* The writing of one session s, of which no finished write is left in the *)
(* queue, goes on or starts.                                               *)
LEMMA WriteGoesOn ==
    ASSUME TypeOK, WriteInv, NEW d, NEW q, Moves(d, q), NEW s \in Sessions,
           \A i \in 1..Len(q) : q[i].kind # "wrOk",
           \A k \in (d + 1)..Len(ios) : ~(ios[k].kind = "wrOk" /\ ios[k].s = s),
           ses'[s].wr => ses'[s].msgQueue # <<>>,
           \A r \in Sessions : r # s => ses'[r] = ses[r]
    PROVE  WriteInv'
  <1>1. \A k \in 1..Len(ios) : ios[k].kind = "wrOk" => ios[k].s \in Sessions
    BY ElementOfSeq DEF TypeOK, Handlers
  <1>2. \A k \in 1..Len(ios') : ios'[k].kind = "wrOk" =>
            /\ k + d \in 1..Len(ios) /\ ios'[k] = ios[k + d]
            /\ ios[k + d].s \in Sessions /\ ios[k + d].s # s
    <2> SUFFICES ASSUME NEW k \in 1..Len(ios'), ios'[k].kind = "wrOk"
                 PROVE  /\ k + d \in 1..Len(ios) /\ ios'[k] = ios[k + d]
                        /\ ios[k + d].s \in Sessions /\ ios[k + d].s # s
      OBVIOUS
    <2>1. k \in 1..(Len(ios) - d) /\ ios'[k] = ios[k + d] /\ k + d \in 1..Len(ios)
      BY MovesFacts
    <2>2. k + d \in (d + 1)..Len(ios)
      BY <2>1 DEF Moves
    <2> QED
      BY <1>1, <2>1, <2>2
  <1>3. ASSUME NEW k \in 1..Len(ios'), ios'[k].kind = "wrOk"
        PROVE  /\ ses'[ios'[k].s].msgQueue # <<>> /\ ~ses'[ios'[k].s].wr
               /\ \A j \in 1..Len(ios') :
                    ios'[j].kind = "wrOk" /\ ios'[j].s = ios'[k].s => j = k
    <2>1. ses'[ios'[k].s] = ses[ios[k + d].s]
      BY <1>2, <1>3
    <2>2. ses'[ios'[k].s].msgQueue # <<>> /\ ~ses'[ios'[k].s].wr
      BY <1>2, <1>3, <2>1 DEF WriteInv
    <2>3. ASSUME NEW j \in 1..Len(ios'), ios'[j].kind = "wrOk", ios'[j].s = ios'[k].s
          PROVE  j = k
      <3>1. j + d = k + d
        BY <1>2, <1>3, <2>3 DEF WriteInv
      <3> QED
        BY <3>1 DEF Moves
    <2> QED
      BY <2>2, <2>3
  <1>4. \A r \in Sessions : ses'[r].wr => ses'[r].msgQueue # <<>>
    <2> TAKE r \in Sessions
    <2>1. CASE r = s
      BY <2>1
    <2>2. CASE r # s
      BY <2>2 DEF WriteInv
    <2> QED
      BY <2>1, <2>2
  <1> QED
    BY <1>3, <1>4 DEF WriteInv

-----------------------------------------------------------------------------
(* The steps of the net thread, one lemma for each action.                 *)

(* An accept that failed touches nothing but the acceptor and the queue.   *)
LEMMA AcceptFailedStep ==
    ASSUME ServerInv, AcceptFailed
    PROVE  ServerInv'
  <1>1. /\ TypeOK /\ ios # <<>> /\ ios[1].kind = "acceptErr" /\ lookup = None
    BY RunningFacts DEF ServerInv, AcceptFailed
  <1>2. Tail(ios) \o <<>> = Tail(ios) /\ <<>> \in Seq(Handlers)
    <2>1. Tail(ios) \in Seq(Handlers)
      BY <1>1, HeadTailProperties DEF TypeOK
    <2> QED
      BY <2>1, ConcatEmptySeq
  <1>3. doAccept(Tail(ios) \o <<>>)
    <2>1. doAccept(Tail(ios))
      BY DEF AcceptFailed
    <2> QED
      BY <1>2, <2>1
  <1>4. \A k \in 1..Len(<<>>) : <<>>[k].kind = "rdErr"
    OBVIOUS
  <1>5. accepting' \in Sessions \cup {None} /\ nextSession' \in 2..(MaxSessions + 1)
    BY <1>1, <1>2, <1>3, <1>4, DoAcceptFacts
  <1>6. PICK q : Moves(1, q) /\ \A k \in 1..Len(q) : q[k].kind \in {"rdErr", "acceptErr"}
    BY <1>1, <1>2, <1>3, <1>4, DoAcceptFacts
  <1>7. UNCHANGED <<acceptor, pool, ses, lookup, stopping, bufPolicy, bufImages, changes>>
    BY DEF AcceptFailed, buffers
  <1>8. WriteInv' /\ PoolInv' /\ PostInv'
    <2>1. \A s \in pool' : s \in pool /\ ses'[s].hooked /\ ~Reader(ios[1], s)
      BY <1>1, <1>7 DEF ServerInv, PoolInv, Reader
    <2>2. \A k \in 1..Len(q) : q[k].kind \notin {"wrOk", "post"}
      BY <1>6
    <2> QED
      BY <1>6, <1>7, <2>1, <2>2, QuietStep
  <1>9. TypeOK' /\ LookupInv'
    BY <1>1, <1>5, <1>6, <1>7 DEF TypeOK, LookupInv, Moves
  <1> QED
    BY <1>8, <1>9 DEF ServerInv

(* The request that the handler in front is about.                         *)
LEMMA RequestFacts ==
    ASSUME TypeOK, ios # <<>>, ios[1].kind = "read"
    PROVE  /\ Head(ios) = ios[1] /\ ios[1].s \in Sessions
           /\ ios[1].arg.n \in 1..MaxAsks /\ ios[1].arg.what \in Whats
  <1>1. ios \in Seq(Handlers) /\ Len(ios) \in Nat \ {0}
    BY EmptySeq DEF TypeOK
  <1>2. Head(ios) = ios[1] /\ ios[1] \in Handlers
    BY <1>1
  <1>3. ios[1].s \in Sessions /\ ios[1].arg \in Requests
    BY <1>2 DEF Handlers
  <1> QED
    BY <1>2, <1>3 DEF Requests

(* At most one answer is posted, and the next read follows it.             *)
LEMMA HandleRequestStep ==
    ASSUME ServerInv, HandleRequest
    PROVE  ServerInv'
  <1> DEFINE s == ios[1].s
             r == ios[1].arg
  <1>1. /\ TypeOK /\ ios # <<>> /\ ios[1].kind = "read" /\ lookup = None
        /\ Head(ios) = ios[1] /\ s \in Sessions /\ r.n \in 1..MaxAsks
    BY RunningFacts, RequestFacts DEF ServerInv, HandleRequest
  <1>2. UNCHANGED <<acceptor, accepting, nextSession, pool, lookup, stopping,
                    bufPolicy, bufImages, changes>>
    BY DEF HandleRequest, accepts, buffers
  <1>3. PICK posts : /\ ReadOn(s, posts)
                     /\ \/ posts = <<>>
                        \/ \E h \in Handlers : h.kind = "post" /\ h.s = s /\ posts = <<h>>
    <2>1. \/ ReadOn(s, <<>>)
          \/ ReadOn(s, Post(s, r.n, 0, bufPolicy))
          \/ ReadOn(s, Post(s, r.n, NoHandler, None))
      BY <1>1 DEF HandleRequest
    <2>2. CASE ReadOn(s, <<>>)
      BY <2>2
    <2>3. CASE ReadOn(s, Post(s, r.n, 0, bufPolicy))
      BY <1>1, <2>3, PostFacts DEF TypeOK
    <2>4. CASE ReadOn(s, Post(s, r.n, NoHandler, None))
      BY <1>1, <2>4, PostFacts
    <2> QED
      BY <2>1, <2>2, <2>3, <2>4
  <1>4. /\ ses' \in [Sessions -> SessionType] /\ ios' \in Seq(Handlers)
        /\ WriteInv' /\ PoolInv' /\ PostInv'
    BY <1>1, <1>2, <1>3, ReadOnStep
  <1>5. TypeOK' /\ LookupInv'
    BY <1>1, <1>2, <1>4 DEF TypeOK, LookupInv
  <1> QED
    BY <1>4, <1>5 DEF ServerInv

(* Until the file is found the handler is not done.                        *)
LEMMA LookUpFileStep ==
    ASSUME ServerInv, LookUpFile
    PROVE  ServerInv'
  <1> DEFINE s == ios[1].s
             r == ios[1].arg
  <1>1. /\ TypeOK /\ ios # <<>> /\ ios[1].kind = "read" /\ lookup = None
        /\ Head(ios) = ios[1] /\ s \in Sessions /\ r.n \in 1..MaxAsks
    BY RunningFacts, RequestFacts DEF ServerInv, LookUpFile
  <1>2. UNCHANGED <<acceptor, accepting, nextSession, pool, stopping,
                    bufPolicy, bufImages, changes>>
    BY DEF LookUpFile, accepts, buffers
  <1>3. CASE lookup' = None /\ ReadOn(s, Post(s, r.n, NotExist, None))
    <2>1. \E h \in Handlers : h.kind = "post" /\ h.s = s /\ Post(s, r.n, NotExist, None) = <<h>>
      BY <1>1, PostFacts
    <2>2. /\ ses' \in [Sessions -> SessionType] /\ ios' \in Seq(Handlers)
          /\ WriteInv' /\ PoolInv' /\ PostInv'
      BY <1>1, <1>2, <1>3, <2>1, ReadOnStep
    <2>3. TypeOK' /\ LookupInv'
      BY <1>1, <1>2, <1>3, <2>2 DEF TypeOK, LookupInv
    <2> QED
      BY <2>2, <2>3 DEF ServerInv
  <1>4. CASE lookup' = bufImages[r.what] /\ UNCHANGED <<ses, ios>>
    <2>1. r.what \in Ads
      BY <1>1 DEF LookUpFile
    <2>2. TypeOK' /\ LookupInv'
      BY <1>1, <1>2, <1>4, <2>1 DEF TypeOK, LookupInv
    <2>3. WriteInv' /\ PoolInv' /\ PostInv'
      BY <1>2, <1>4 DEF ServerInv, WriteInv, PoolInv, PostInv, ReaderIn, Reader
    <2> QED
      BY <2>2, <2>3 DEF ServerInv
  <1> QED
    BY <1>1, <1>3, <1>4 DEF LookUpFile

(* What is sent, right or not, answers the request in front.               *)
LEMMA SendFileStep ==
    ASSUME ServerInv, SendFile
    PROVE  ServerInv'
  <1> DEFINE s == ios[1].s
             r == ios[1].arg
  <1>1. TypeOK /\ lookup # None /\ ios # <<>> /\ ios[1].kind = "read"
    BY DEF ServerInv, LookupInv, SendFile
  <1>2. Head(ios) = ios[1] /\ s \in Sessions /\ r.n \in 1..MaxAsks
    BY <1>1, RequestFacts
  <1>3. UNCHANGED <<acceptor, accepting, nextSession, pool, stopping,
                    bufPolicy, bufImages, changes>> /\ lookup' = None
    BY DEF SendFile, accepts, buffers
  <1>4. PICK data \in (0..MaxChanges) \cup {Garbage} : ReadOn(s, Post(s, r.n, 0, data))
    BY <1>1, <1>2 DEF SendFile, TypeOK
  <1>5. \E h \in Handlers : h.kind = "post" /\ h.s = s /\ Post(s, r.n, 0, data) = <<h>>
    BY <1>2, PostFacts
  <1>6. /\ ses' \in [Sessions -> SessionType] /\ ios' \in Seq(Handlers)
        /\ WriteInv' /\ PoolInv' /\ PostInv'
    BY <1>1, <1>2, <1>3, <1>4, <1>5, ReadOnStep
  <1>7. TypeOK' /\ LookupInv'
    BY <1>1, <1>3, <1>6 DEF TypeOK, LookupInv
  <1> QED
    BY <1>6, <1>7 DEF ServerInv

(* What an answer finds in _msgQueue decides whether it is written now.    *)
LEMMA QueueRspMsgStep ==
    ASSUME ServerInv, QueueRspMsg
    PROVE  ServerInv'
  <1> DEFINE s == ios[1].s
             m == ios[1].arg
             t == [ses[s] EXCEPT !.msgQueue = Append(@, m)]
             f == WriteDataFails(s, t)
  <1>1. /\ TypeOK /\ ios # <<>> /\ ios[1].kind = "post" /\ lookup = None
        /\ Head(ios) = ios[1] /\ s \in Sessions /\ ios[1] \in Handlers
    BY RunningFacts DEF ServerInv, QueueRspMsg
  <1>2. m \in Answers
    BY <1>1 DEF Handlers
  <1>3. ses \in [Sessions -> SessionType] /\ ses[s] \in SessionType
    BY <1>1 DEF TypeOK
  <1>4. /\ t \in SessionType /\ t.rd = ses[s].rd /\ t.wr = ses[s].wr
        /\ t.hooked = ses[s].hooked /\ t.msgQueue # <<>>
    <2>1. ses[s].msgQueue \in Seq(Answers)
      BY <1>3 DEF SessionType
    <2>2. Append(ses[s].msgQueue, m) \in Seq(Answers) /\ Append(ses[s].msgQueue, m) # <<>>
      BY <1>2, <2>1, AppendProperties
    <2> QED
      BY <1>3, <2>2 DEF SessionType
  <1>5. UNCHANGED <<acceptor, accepting, nextSession, pool, lookup, stopping,
                    bufPolicy, bufImages, changes>>
    BY DEF QueueRspMsg, accepts, buffers
  <1>6. \/ ses[s].msgQueue = <<>> /\ ses' = [ses EXCEPT ![s] = WriteData(t)]
                                  /\ ios' = Tail(ios) \o f
        \/ ses[s].msgQueue # <<>> /\ ses' = [ses EXCEPT ![s] = t] /\ ios' = Tail(ios)
    BY <1>1 DEF QueueRspMsg
  <1>7. /\ WriteData(t) \in SessionType
        /\ WriteData(t).rd = t.rd /\ WriteData(t).hooked = t.hooked
        /\ WriteData(t).msgQueue = t.msgQueue
    BY <1>1, <1>4, WriteDataFacts
  <1>8. f \in Seq(Handlers) /\ \A k \in 1..Len(f) : f[k].kind = "wrErr"
    BY <1>1, <1>4, WriteDataFacts
  <1>9. Tail(ios) = Tail(ios) \o <<>> /\ <<>> \in Seq(Handlers)
    <2>1. Tail(ios) \in Seq(Handlers)
      BY <1>1, HeadTailProperties DEF TypeOK
    <2> QED
      BY <2>1, ConcatEmptySeq
  <1> HIDE DEF t, f
  <1>10. CASE ses[s].msgQueue = <<>> /\ ses' = [ses EXCEPT ![s] = WriteData(t)]
                                     /\ ios' = Tail(ios) \o f
    <2>1. Moves(1, f)
      BY <1>1, <1>8, <1>10, Consumed
    <2>2. /\ ses' \in [Sessions -> SessionType] /\ ses'[s] = WriteData(t)
          /\ \A r \in Sessions : r # s => ses'[r] = ses[r]
      BY <1>1, <1>3, <1>7, <1>10
    <2>3. \A r \in Sessions : ses'[r].rd = ses[r].rd /\ ses'[r].hooked = ses[r].hooked
      <3>1. ses'[s].rd = ses[s].rd /\ ses'[s].hooked = ses[s].hooked
        BY <1>4, <1>7, <2>2, Zenon
      <3> QED
        BY <2>2, <3>1, Zenon
    <2>4. WriteInv'
      <3>1. \A k \in 1..Len(ios) : ~(ios[k].kind = "wrOk" /\ ios[k].s = s)
        BY <1>10 DEF ServerInv, WriteInv
      <3>2. \A k \in 2..Len(ios) : ~(ios[k].kind = "wrOk" /\ ios[k].s = s)
        BY <3>1
      <3>3. ses'[s].msgQueue # <<>>
        BY <1>4, <1>7, <2>2
      <3>4. \A k \in 1..Len(f) : f[k].kind # "wrOk"
        BY <1>8
      <3> QED
        BY <1>1, <2>1, <2>2, <3>2, <3>3, <3>4, WriteGoesOn DEF ServerInv
    <2>5. RdKept(f)
      BY <2>3 DEF RdKept
    <2>6. PoolInv'
      <3>1. \A r \in pool' : r \in pool /\ ses'[r].hooked /\ ~Reader(ios[1], r)
        BY <1>1, <1>5, <2>3 DEF ServerInv, PoolInv, TypeOK, Reader
      <3> QED
        BY <1>1, <2>1, <2>5, <3>1, PoolKept DEF ServerInv
    <2>7. PostInv'
      <3>1. \A k \in 1..Len(f) : f[k].kind # "post"
        BY <1>8
      <3> QED
        BY <1>1, <2>1, <2>5, <3>1, PostKept DEF ServerInv
    <2>8. TypeOK' /\ LookupInv'
      BY <1>1, <1>5, <2>1, <2>2 DEF TypeOK, LookupInv, Moves
    <2> QED
      BY <2>4, <2>6, <2>7, <2>8 DEF ServerInv
  <1>11. CASE ses[s].msgQueue # <<>> /\ ses' = [ses EXCEPT ![s] = t] /\ ios' = Tail(ios)
    <2>1. Moves(1, <<>>)
      BY <1>1, <1>9, <1>11, Consumed
    <2>2. /\ ses' \in [Sessions -> SessionType] /\ ses'[s] = t
          /\ \A r \in Sessions : r # s => ses'[r] = ses[r]
      BY <1>1, <1>3, <1>4, <1>11
    <2>3. \A r \in Sessions : /\ ses'[r].rd = ses[r].rd /\ ses'[r].wr = ses[r].wr
                              /\ ses'[r].hooked = ses[r].hooked
                              /\ ses[r].msgQueue # <<>> => ses'[r].msgQueue # <<>>
      <3>1. /\ ses'[s].rd = ses[s].rd /\ ses'[s].wr = ses[s].wr
            /\ ses'[s].hooked = ses[s].hooked /\ ses'[s].msgQueue # <<>>
        BY <1>4, <2>2, Zenon
      <3> QED
        BY <2>2, <3>1, Zenon
    <2>4. \A r \in pool' : r \in pool /\ ses'[r].hooked /\ ~Reader(ios[1], r)
      BY <1>1, <1>5, <2>3 DEF ServerInv, PoolInv, TypeOK, Reader
    <2>5. \A k \in 1..Len(<<>>) : <<>>[k].kind \notin {"wrOk", "post"}
      OBVIOUS
    <2>6. WriteInv' /\ PoolInv' /\ PostInv'
      BY <2>1, <2>3, <2>4, <2>5, QuietStep
    <2>7. TypeOK' /\ LookupInv'
      BY <1>1, <1>5, <2>1, <2>2 DEF TypeOK, LookupInv, Moves
    <2> QED
      BY <2>6, <2>7 DEF ServerInv
  <1> QED
    BY <1>6, <1>10, <1>11

(* The message that was written leaves _msgQueue, and the next, if there   *)
(* is one, is written.                                                     *)
LEMMA WriteDoneStep ==
    ASSUME ServerInv, WriteDone
    PROVE  ServerInv'
  <1> DEFINE s == ios[1].s
             t == [ses[s] EXCEPT !.msgQueue = Tail(@)]
             f == WriteDataFails(s, t)
  <1>1. /\ TypeOK /\ ios # <<>> /\ ios[1].kind = "wrOk" /\ lookup = None
        /\ Head(ios) = ios[1] /\ s \in Sessions /\ ios[1] \in Handlers /\ 1 \in 1..Len(ios)
    BY RunningFacts DEF ServerInv, WriteDone
  <1>2. ses \in [Sessions -> SessionType] /\ ses[s] \in SessionType
    BY <1>1 DEF TypeOK
  <1>3. ses[s].msgQueue # <<>> /\ ~ses[s].wr
        /\ \A k \in 2..Len(ios) : ~(ios[k].kind = "wrOk" /\ ios[k].s = s)
    <2>1. ses[s].msgQueue # <<>> /\ ~ses[s].wr
          /\ \A k \in 1..Len(ios) : ios[k].kind = "wrOk" /\ ios[k].s = s => k = 1
      BY <1>1 DEF ServerInv, WriteInv
    <2> QED
      BY <2>1
  <1>4. /\ t \in SessionType /\ t.rd = ses[s].rd /\ t.wr = ses[s].wr
        /\ t.hooked = ses[s].hooked
    <2>1. Tail(ses[s].msgQueue) \in Seq(Answers)
      BY <1>2, <1>3, HeadTailProperties DEF SessionType
    <2> QED
      BY <1>2, <2>1 DEF SessionType
  <1>5. UNCHANGED <<acceptor, accepting, nextSession, pool, lookup, stopping,
                    bufPolicy, bufImages, changes>>
    BY DEF WriteDone, accepts, buffers
  <1>6. \/ t.msgQueue # <<>> /\ ses' = [ses EXCEPT ![s] = WriteData(t)]
                             /\ ios' = Tail(ios) \o f
        \/ t.msgQueue = <<>> /\ ses' = [ses EXCEPT ![s] = t] /\ ios' = Tail(ios)
    BY <1>1 DEF WriteDone
  <1>7. /\ WriteData(t) \in SessionType
        /\ WriteData(t).rd = t.rd /\ WriteData(t).hooked = t.hooked
        /\ WriteData(t).msgQueue = t.msgQueue
    BY <1>1, <1>4, WriteDataFacts
  <1>8. f \in Seq(Handlers) /\ \A k \in 1..Len(f) : f[k].kind = "wrErr"
    BY <1>1, <1>4, WriteDataFacts
  <1>9. Tail(ios) = Tail(ios) \o <<>> /\ <<>> \in Seq(Handlers)
    <2>1. Tail(ios) \in Seq(Handlers)
      BY <1>1, HeadTailProperties DEF TypeOK
    <2> QED
      BY <2>1, ConcatEmptySeq
  <1> HIDE DEF t, f
  <1>10. PICK q \in Seq(Handlers), u \in SessionType :
             /\ Moves(1, q) /\ \A k \in 1..Len(q) : q[k].kind = "wrErr"
             /\ ses' = [ses EXCEPT ![s] = u]
             /\ u.rd = ses[s].rd /\ u.hooked = ses[s].hooked
             /\ u.wr => u.msgQueue # <<>>
    <2>1. CASE t.msgQueue # <<>> /\ ses' = [ses EXCEPT ![s] = WriteData(t)]
                                 /\ ios' = Tail(ios) \o f
      <3>1. Moves(1, f)
        BY <1>1, <1>8, <2>1, Consumed
      <3>2. /\ WriteData(t).rd = ses[s].rd /\ WriteData(t).hooked = ses[s].hooked
            /\ WriteData(t).msgQueue # <<>>
        BY <1>4, <1>7, <2>1, Zenon
      <3> QED
        BY <1>7, <1>8, <2>1, <3>1, <3>2, Zenon
    <2>2. CASE t.msgQueue = <<>> /\ ses' = [ses EXCEPT ![s] = t] /\ ios' = Tail(ios)
      <3>1. Moves(1, <<>>) /\ \A k \in 1..Len(<<>>) : <<>>[k].kind = "wrErr"
        <4>1. Moves(1, <<>>)
          BY <1>1, <1>9, <2>2, Consumed
        <4> QED
          BY <4>1
      <3>2. ~t.wr
        BY <1>3, <1>4, Zenon
      <3> QED
        BY <1>4, <1>9, <2>2, <3>1, <3>2, Zenon
    <2> QED
      BY <1>6, <2>1, <2>2
  <1>11. /\ ses' \in [Sessions -> SessionType] /\ ses'[s] = u
         /\ \A r \in Sessions : r # s => ses'[r] = ses[r]
    BY <1>1, <1>2, <1>10
  <1>12. \A r \in Sessions : ses'[r].rd = ses[r].rd /\ ses'[r].hooked = ses[r].hooked
    BY <1>10, <1>11, Zenon
  <1>13. WriteInv'
    <2>1. \A k \in 1..Len(q) : q[k].kind # "wrOk"
      BY <1>10
    <2>2. ses'[s].wr => ses'[s].msgQueue # <<>>
      BY <1>10, <1>11, Zenon
    <2>3. \A k \in (1 + 1)..Len(ios) : ~(ios[k].kind = "wrOk" /\ ios[k].s = s)
      BY <1>3
    <2> QED
      BY <1>1, <1>10, <1>11, <2>1, <2>2, <2>3, WriteGoesOn DEF ServerInv
  <1>14. RdKept(q)
    BY <1>12 DEF RdKept
  <1>15. PoolInv'
    <2>1. \A r \in pool' : r \in pool /\ ses'[r].hooked /\ ~Reader(ios[1], r)
      BY <1>1, <1>5, <1>12 DEF ServerInv, PoolInv, TypeOK, Reader
    <2> QED
      BY <1>1, <1>10, <1>14, <2>1, PoolKept DEF ServerInv
  <1>16. PostInv'
    <2>1. \A k \in 1..Len(q) : q[k].kind # "post"
      BY <1>10
    <2> QED
      BY <1>1, <1>10, <1>14, <2>1, PostKept DEF ServerInv
  <1>17. TypeOK' /\ LookupInv'
    BY <1>1, <1>5, <1>10, <1>11 DEF TypeOK, LookupInv, Moves
  <1> QED
    BY <1>13, <1>15, <1>16, <1>17 DEF ServerInv

(* After an error the session has no operation left and is not in the pool *)
(* any more; what it was reading ends with a handler of its own.           *)
LEMMA NetErrorStep ==
    ASSUME ServerInv, NetError
    PROVE  ServerInv'
  <1> DEFINE s == ios[1].s
             f == Aborted(s, ses[s])
             e == Ended(ses[s], "closed")
             u == [e EXCEPT !.hooked = FALSE]
  <1>1. /\ TypeOK /\ ios # <<>> /\ ios[1].kind \in {"rdErr", "wrErr"} /\ lookup = None
        /\ Head(ios) = ios[1] /\ s \in Sessions
    BY RunningFacts DEF ServerInv, NetError
  <1>2. ses \in [Sessions -> SessionType] /\ ses[s] \in SessionType
    BY <1>1 DEF TypeOK
  <1>3. /\ UNCHANGED <<acceptor, accepting, nextSession, lookup, stopping,
                       bufPolicy, bufImages, changes>>
        /\ ses' = [ses EXCEPT ![s] = u] /\ ios' = Tail(ios) \o f
        /\ pool' = IF ses[s].hooked THEN pool \ {s} ELSE pool
    BY <1>1 DEF NetError, accepts, buffers
  <1>4. pool' = pool \ {s}
    BY <1>1, <1>3 DEF ServerInv, PoolInv
  <1>5. /\ e \in SessionType /\ ~e.rd /\ ~e.wr /\ e.msgQueue = ses[s].msgQueue
    BY <1>2, EndedFacts
  <1> HIDE DEF e
  <1>6. u \in SessionType /\ ~u.rd /\ ~u.wr /\ u.msgQueue = ses[s].msgQueue
    BY <1>5 DEF SessionType
  <1>7. /\ f \in Seq(Handlers) /\ \A k \in 1..Len(f) : f[k].kind \in {"rdErr", "wrErr"}
        /\ ses[s].rd => ReaderIn(f, s)
    BY <1>1, <1>2, AbortedFacts
  <1> HIDE DEF f, u
  <1>8. Moves(1, f)
    BY <1>1, <1>3, <1>7, Consumed
  <1>9. /\ ses' \in [Sessions -> SessionType] /\ ses'[s] = u
        /\ \A r \in Sessions : r # s => ses'[r] = ses[r]
    BY <1>1, <1>2, <1>3, <1>6
  <1>10. WriteInv' /\ PoolInv' /\ PostInv'
    <2>1. \A k \in 1..Len(f) : f[k].kind \notin {"wrOk", "post"}
      BY <1>7
    <2>2. \A r \in Sessions :
             /\ ses'[r].wr => ses[r].wr
             /\ ses[r].msgQueue # <<>> => ses'[r].msgQueue # <<>>
             /\ ses[r].rd => ses'[r].rd \/ ReaderIn(f, r)
      <3>1. /\ ~ses'[s].wr /\ ses'[s].msgQueue = ses[s].msgQueue
        BY <1>6, <1>9, Zenon
      <3> QED
        BY <1>7, <1>9, <3>1, Zenon
    <2>3. \A r \in pool' : r \in pool /\ ses'[r].hooked /\ ~Reader(ios[1], r)
      BY <1>1, <1>4, <1>9 DEF ServerInv, PoolInv, TypeOK, Reader
    <2> QED
      BY <1>8, <2>1, <2>2, <2>3, QuietStep
  <1>11. TypeOK' /\ LookupInv'
    BY <1>1, <1>3, <1>4, <1>8, <1>9 DEF TypeOK, LookupInv, Moves
  <1> QED
    BY <1>10, <1>11 DEF ServerInv

-----------------------------------------------------------------------------
(* The steps of the other threads and of the network.                      *)

(* A step that leaves the pool alone and makes one handler ready.          *)
LEMMA AppendStep ==
    ASSUME ServerInv, NEW h \in Handlers, h.kind \notin {"wrOk", "post"},
           ios' = Append(ios, h), pool' = pool, lookup' = lookup,
           \A s \in Sessions :
              /\ ses'[s].wr => ses[s].wr
              /\ ses[s].msgQueue # <<>> => ses'[s].msgQueue # <<>>
              /\ ses[s].rd => ses'[s].rd \/ Reader(h, s)
              /\ ses[s].hooked => ses'[s].hooked
    PROVE  ios' \in Seq(Handlers) /\ WriteInv' /\ PoolInv' /\ PostInv' /\ LookupInv'
  <1> DEFINE q == <<h>>
  <1>1. q \in Seq(Handlers) /\ Len(q) = 1 /\ q[1] = h
    OBVIOUS
  <1>2. ios' = ios \o q
    BY AppendIsConcat DEF ServerInv, TypeOK
  <1> HIDE DEF q
  <1>3. Moves(0, q)
    BY <1>1, <1>2, Extended DEF ServerInv
  <1>4. \A k \in 1..Len(q) : q[k].kind \notin {"wrOk", "post"}
    BY <1>1
  <1>5. \A s : Reader(h, s) => ReaderIn(q, s)
    BY <1>1 DEF ReaderIn
  <1>6. \A s \in pool' : s \in pool /\ ses'[s].hooked
    BY DEF ServerInv, TypeOK, PoolInv
  <1>7. WriteInv' /\ PoolInv' /\ PostInv'
    BY <1>3, <1>4, <1>5, <1>6, QuietStep
  <1>8. LookupInv'
    BY <1>3, LookupKept DEF ServerInv
  <1> QED
    BY <1>3, <1>7, <1>8 DEF Moves

(* Closing the acceptor concerns no session.                               *)
LEMMA StopAcceptorStep ==
    ASSUME ServerInv, StopAcceptor
    PROVE  ServerInv'
  <1> DEFINE h == Handler("acceptErr", None, None)
  <1>1. h \in Handlers /\ h.kind = "acceptErr"
    BY DEF Handler, Handlers
  <1>2. /\ acceptor' = FALSE /\ accepting' = None /\ stopping' = "sessions"
        /\ UNCHANGED <<nextSession, pool, ses, lookup, bufPolicy, bufImages, changes>>
        /\ ios' = Append(ios, h) \/ ios' = ios
    BY DEF StopAcceptor, buffers
  <1> HIDE DEF h
  <1>3. CASE ios' = Append(ios, h)
    <2>1. ios' \in Seq(Handlers) /\ WriteInv' /\ PoolInv' /\ PostInv' /\ LookupInv'
      BY <1>1, <1>2, <1>3, AppendStep
    <2> QED
      BY <1>2, <2>1 DEF ServerInv, TypeOK
  <1>4. CASE ios' = ios
    <2>1. WriteInv' /\ PoolInv' /\ PostInv' /\ LookupInv'
      BY <1>2, <1>4 DEF ServerInv, WriteInv, PoolInv, PostInv, LookupInv, ReaderIn, Reader
    <2> QED
      BY <1>2, <1>4, <2>1 DEF ServerInv, TypeOK
  <1> QED
    BY <1>2, <1>3, <1>4

(* stop() empties the pool; each read it ends leaves a handler behind.     *)
LEMMA StopSessionsStep ==
    ASSUME ServerInv, StopSessions
    PROVE  ServerInv'
  <1>1. /\ pool' = {} /\ stopping' = "done"
        /\ ses' = [s \in Sessions |-> IF s \in pool THEN Ended(ses[s], "closed") ELSE ses[s]]
        /\ UNCHANGED <<acceptor, accepting, nextSession, lookup, bufPolicy, bufImages, changes>>
    BY DEF StopSessions, accepts, buffers
  <1>2. PICK q \in SetToSeqs(AbortedByStop) : ios' = ios \o q
    BY DEF StopSessions
  <1>3. TypeOK
    BY DEF ServerInv
  <1>4. /\ q \in Seq(Handlers)
        /\ \A k \in 1..Len(q) : q[k].kind \in {"rdErr", "wrErr"}
        /\ \A s \in pool : ses[s].rd => ReaderIn(q, s)
    BY <1>3, StoppedFacts
  <1>5. Moves(0, q)
    BY <1>2, <1>3, <1>4, Extended
  <1>6. ses' \in [Sessions -> SessionType]
        /\ \A s \in Sessions :
              /\ ses'[s].wr => ses[s].wr
              /\ ses[s].msgQueue # <<>> => ses'[s].msgQueue # <<>>
              /\ ses[s].rd => ses'[s].rd \/ ReaderIn(q, s)
    <2>1. ASSUME NEW s \in Sessions
          PROVE  /\ ses'[s] \in SessionType
                 /\ ses'[s].wr => ses[s].wr
                 /\ ses[s].msgQueue # <<>> => ses'[s].msgQueue # <<>>
                 /\ ses[s].rd => ses'[s].rd \/ ReaderIn(q, s)
      <3>1. ses[s] \in SessionType
        BY <1>3 DEF TypeOK
      <3>2. CASE s \in pool
        <4> DEFINE e == Ended(ses[s], "closed")
        <4>1. e \in SessionType /\ ~e.wr /\ e.msgQueue = ses[s].msgQueue
          BY <3>1, EndedFacts
        <4>2. ses'[s] = e
          BY <1>1, <3>2
        <4> HIDE DEF e
        <4> QED
          BY <1>4, <3>2, <4>1, <4>2, Zenon
      <3>3. CASE s \notin pool
        <4>1. ses'[s] = ses[s]
          BY <1>1, <3>3
        <4> QED
          BY <3>1, <4>1, Zenon
      <3> QED
        BY <3>2, <3>3
    <2> QED
      BY <1>1, <2>1
  <1>7. WriteInv' /\ PoolInv' /\ PostInv'
    <2>1. \A k \in 1..Len(q) : q[k].kind \notin {"wrOk", "post"}
      BY <1>4
    <2> QED
      BY <1>1, <1>5, <1>6, <2>1, QuietStep
  <1>8. LookupInv'
    BY <1>1, <1>3, <1>5, LookupKept DEF ServerInv
  <1>9. TypeOK'
    BY <1>1, <1>3, <1>5, <1>6 DEF TypeOK, Moves
  <1> QED
    BY <1>7, <1>8, <1>9 DEF ServerInv

(* The business thread touches neither the sessions nor the queue.         *)
LEMMA BusinessSteps ==
    ASSUME ServerInv, (\E a \in Ads : Cache(a)) \/ Publish
    PROVE  ServerInv'
  <1>1. UNCHANGED <<acceptor, accepting, nextSession, pool, ses, ios, lookup, stopping>>
    BY DEF Cache, Publish, accepts
  <1>2. WriteInv' /\ PoolInv' /\ PostInv' /\ LookupInv'
    BY <1>1 DEF ServerInv, WriteInv, PoolInv, PostInv, LookupInv, ReaderIn, Reader
  <1>3. changes' \in 0..MaxChanges
    BY ServerAssumption DEF Cache, Publish, ServerInv, TypeOK
  <1>4. bufPolicy' \in 0..MaxChanges /\ bufImages' \in [Ads -> (0..MaxChanges) \cup {None}]
    BY <1>3 DEF Cache, Publish, ServerInv, TypeOK
  <1> QED
    BY <1>1, <1>2, <1>3, <1>4 DEF ServerInv, TypeOK

(* A connection is accepted; its handler hooks the session later.          *)
LEMMA ClientConnectsStep ==
    ASSUME ServerInv, ClientConnects
    PROVE  ServerInv'
  <1> DEFINE h == Handler("accept", accepting, None)
  <1>1. TypeOK /\ accepting \in Sessions
    BY DEF ClientConnects, ServerInv, TypeOK
  <1>2. h \in Handlers /\ h.kind = "accept"
    BY <1>1 DEF Handler, Handlers
  <1>3. /\ accepting' = None /\ ios' = Append(ios, h)
        /\ ses' = [ses EXCEPT ![accepting].sock = "open"]
        /\ UNCHANGED <<acceptor, nextSession, pool, lookup, stopping, bufPolicy, bufImages, changes>>
    BY DEF ClientConnects, buffers
  <1> HIDE DEF h
  <1>4. /\ ses' \in [Sessions -> SessionType]
        /\ \A s \in Sessions : /\ ses'[s].rd = ses[s].rd /\ ses'[s].wr = ses[s].wr
                               /\ ses'[s].hooked = ses[s].hooked
                               /\ ses'[s].msgQueue = ses[s].msgQueue
    BY <1>1, <1>3 DEF TypeOK, SessionType
  <1>5. ios' \in Seq(Handlers) /\ WriteInv' /\ PoolInv' /\ PostInv' /\ LookupInv'
    BY <1>2, <1>3, <1>4, AppendStep
  <1> QED
    BY <1>1, <1>3, <1>4, <1>5 DEF ServerInv, TypeOK

(* A request on its way concerns no handler yet.                           *)
LEMMA ClientAsksStep ==
    ASSUME ServerInv, NEW s \in Sessions, NEW w \in Whats, ClientAsks(s, w)
    PROVE  ServerInv'
  <1> DEFINE r == [n |-> ses[s].asked + 1, what |-> w]
  <1>1. TypeOK /\ ses[s] \in SessionType /\ ses[s].asked < MaxAsks
    BY DEF ServerInv, TypeOK, ClientAsks
  <1>2. ses[s].asked + 1 \in 1..MaxAsks /\ ses[s].inbox \in Seq(Requests)
    BY <1>1, ServerAssumption DEF SessionType
  <1>3. r \in Requests
    BY <1>2 DEF Requests
  <1>4. UNCHANGED <<acceptor, accepting, nextSession, pool, ios, lookup, stopping,
                    bufPolicy, bufImages, changes>>
        /\ ses' = [ses EXCEPT ![s].asked = @ + 1, ![s].inbox = Append(@, r)]
    BY DEF ClientAsks, accepts, buffers
  <1> HIDE DEF r
  <1>5. Append(ses[s].inbox, r) \in Seq(Requests)
    BY <1>2, <1>3, AppendProperties
  <1>6. /\ ses' \in [Sessions -> SessionType]
        /\ \A t \in Sessions : /\ ses'[t].rd = ses[t].rd /\ ses'[t].wr = ses[t].wr
                               /\ ses'[t].hooked = ses[t].hooked
                               /\ ses'[t].msgQueue = ses[t].msgQueue
    BY <1>1, <1>2, <1>4, <1>5 DEF TypeOK, SessionType
  <1>7. ios' = ios \o <<>> /\ <<>> \in Seq(Handlers)
    BY <1>1, <1>4, ConcatEmptySeq DEF TypeOK
  <1>8. Moves(0, <<>>)
    BY <1>1, <1>7, Extended
  <1>9. WriteInv' /\ PoolInv' /\ PostInv'
    <2>1. \A k \in 1..Len(<<>>) : <<>>[k].kind \notin {"wrOk", "post"}
      OBVIOUS
    <2>2. \A t \in pool' : t \in pool /\ ses'[t].hooked
      BY <1>1, <1>4, <1>6 DEF ServerInv, TypeOK, PoolInv
    <2> QED
      BY <1>6, <1>8, <2>1, <2>2, QuietStep
  <1>10. LookupInv'
    BY <1>4 DEF ServerInv, LookupInv
  <1> QED
    BY <1>1, <1>4, <1>6, <1>9, <1>10 DEF ServerInv, TypeOK

(* A read that ends leaves its handler behind.                             *)
LEMMA ReadCompletesStep ==
    ASSUME ServerInv, NEW s \in Sessions, ReadCompletes(s)
    PROVE  ServerInv'
  <1> DEFINE h == Handler("read", s, Head(ses[s].inbox))
  <1>1. TypeOK /\ ses[s] \in SessionType /\ ses[s].inbox # <<>>
    BY DEF ServerInv, TypeOK, ReadCompletes
  <1>2. ses[s].inbox \in Seq(Requests)
    BY <1>1 DEF SessionType
  <1>3. Head(ses[s].inbox) \in Requests /\ Tail(ses[s].inbox) \in Seq(Requests)
    BY <1>1, <1>2, HeadTailProperties
  <1>4. h \in Handlers /\ h.kind = "read" /\ Reader(h, s)
    BY <1>3 DEF Handler, Handlers, Reader
  <1>5. /\ ios' = Append(ios, h)
        /\ ses' = [ses EXCEPT ![s].rd = FALSE, ![s].inbox = Tail(@)]
        /\ UNCHANGED <<acceptor, accepting, nextSession, pool, lookup, stopping,
                       bufPolicy, bufImages, changes>>
    BY DEF ReadCompletes, accepts, buffers
  <1> HIDE DEF h
  <1>6. /\ ses' \in [Sessions -> SessionType]
        /\ \A t \in Sessions : /\ ses'[t].wr = ses[t].wr /\ ses'[t].hooked = ses[t].hooked
                               /\ ses'[t].msgQueue = ses[t].msgQueue
                               /\ t # s => ses'[t].rd = ses[t].rd
    BY <1>1, <1>3, <1>5 DEF TypeOK, SessionType
  <1>7. ios' \in Seq(Handlers) /\ WriteInv' /\ PoolInv' /\ PostInv' /\ LookupInv'
    <2>1. \A t \in Sessions : ses[t].rd => ses'[t].rd \/ Reader(h, t)
      BY <1>4, <1>6
    <2> QED
      BY <1>4, <1>5, <1>6, <2>1, AppendStep
  <1> QED
    BY <1>1, <1>5, <1>6, <1>7 DEF ServerInv, TypeOK

(* A write that ends leaves its handler behind, the only one of its kind   *)
(* because there was a write in progress.                                  *)
LEMMA WriteCompletesStep ==
    ASSUME ServerInv, NEW s \in Sessions, WriteCompletes(s)
    PROVE  ServerInv'
  <1> DEFINE h == Handler("wrOk", s, None)
             q == <<h>>
  <1>1. TypeOK /\ ses[s] \in SessionType /\ ses[s].wr /\ ses[s].msgQueue # <<>>
    BY DEF ServerInv, TypeOK, WriteInv, WriteCompletes
  <1>2. ses[s].msgQueue \in Seq(Answers) /\ ses[s].out \in Seq(Answers)
    BY <1>1 DEF SessionType
  <1>3. Append(ses[s].out, Head(ses[s].msgQueue)) \in Seq(Answers)
    BY <1>1, <1>2, HeadTailProperties, AppendProperties
  <1>4. h \in Handlers /\ h.kind = "wrOk" /\ h.s = s
    BY DEF Handler, Handlers
  <1>5. /\ ios' = Append(ios, h)
        /\ ses' = [ses EXCEPT ![s].wr = FALSE, ![s].out = Append(@, Head(ses[s].msgQueue))]
        /\ UNCHANGED <<acceptor, accepting, nextSession, pool, lookup, stopping,
                       bufPolicy, bufImages, changes>>
    BY DEF WriteCompletes, accepts, buffers
  <1> HIDE DEF h
  <1>6. /\ ses' \in [Sessions -> SessionType] /\ ~ses'[s].wr
        /\ \A t \in Sessions : /\ ses'[t].rd = ses[t].rd /\ ses'[t].hooked = ses[t].hooked
                               /\ ses'[t].msgQueue = ses[t].msgQueue
                               /\ t # s => ses'[t].wr = ses[t].wr
    BY <1>1, <1>3, <1>5 DEF TypeOK, SessionType
  <1>7. q \in Seq(Handlers) /\ Len(q) = 1 /\ q[1] = h
    BY <1>4
  <1>8. ios' = ios \o q
    BY <1>1, <1>4, <1>5, AppendIsConcat DEF TypeOK
  <1> HIDE DEF q
  <1>9. Moves(0, q)
    BY <1>1, <1>7, <1>8, Extended
  <1>10. RdKept(q)
    BY <1>6 DEF RdKept
  <1>11. PoolInv'
    <2>1. \A t \in pool' : t \in pool /\ ses'[t].hooked
      BY <1>1, <1>5, <1>6 DEF ServerInv, TypeOK, PoolInv
    <2> QED
      BY <1>1, <1>9, <1>10, <2>1, PoolKept DEF ServerInv
  <1>12. PostInv'
    <2>1. \A k \in 1..Len(q) : q[k].kind # "post"
      BY <1>4, <1>7
    <2> QED
      BY <1>1, <1>9, <1>10, <2>1, PostKept DEF ServerInv
  <1>13. WriteInv'
    <2>1. \A k \in 1..Len(ios) : ios[k].kind = "wrOk" => ios[k].s \in Sessions /\ ios[k].s # s
      BY <1>1, ElementOfSeq DEF ServerInv, WriteInv, TypeOK, Handlers
    <2>2. /\ Len(ios) \in Nat /\ Len(ios') = Len(ios) + 1 /\ ios'[Len(ios) + 1] = h
          /\ \A k \in 1..Len(ios) : ios'[k] = ios[k]
      BY <1>1, <1>4, <1>5, AppendProperties DEF TypeOK
    <2>3. ASSUME NEW k \in 1..Len(ios'), ios'[k].kind = "wrOk"
          PROVE  /\ ses'[ios'[k].s].msgQueue # <<>> /\ ~ses'[ios'[k].s].wr
                 /\ \A j \in 1..Len(ios') :
                       ios'[j].kind = "wrOk" /\ ios'[j].s = ios'[k].s => j = k
      <3>1. CASE k = Len(ios) + 1
        <4>1. \A j \in 1..Len(ios') : ios'[j].kind = "wrOk" /\ ios'[j].s = s => j = k
          BY <2>1, <2>2, <3>1
        <4> QED
          BY <1>1, <1>4, <1>6, <2>2, <3>1, <4>1
      <3>2. CASE k \in 1..Len(ios)
        <4>1. ios'[k] = ios[k] /\ ios[k].kind = "wrOk" /\ ios[k].s \in Sessions /\ ios[k].s # s
          BY <2>1, <2>2, <2>3, <3>2
        <4>2. ses[ios[k].s].msgQueue # <<>> /\ ~ses[ios[k].s].wr
              /\ \A j \in 1..Len(ios) : ios[j].kind = "wrOk" /\ ios[j].s = ios[k].s => j = k
          BY <3>2, <4>1 DEF ServerInv, WriteInv
        <4>3. ses'[ios'[k].s].msgQueue # <<>> /\ ~ses'[ios'[k].s].wr
          BY <1>6, <4>1, <4>2, Zenon
        <4>4. \A j \in 1..Len(ios') :
                 ios'[j].kind = "wrOk" /\ ios'[j].s = ios'[k].s => j = k
          BY <1>4, <2>2, <4>1, <4>2
        <4> QED
          BY <4>3, <4>4
      <3> QED
        BY <2>2, <3>1, <3>2
    <2>4. \A t \in Sessions : ses'[t].wr => ses'[t].msgQueue # <<>>
      <3>1. \A t \in Sessions : ses'[t].wr => ses[t].wr
        BY <1>6
      <3> QED
        BY <1>6, <3>1 DEF ServerInv, WriteInv
    <2> QED
      BY <2>3, <2>4 DEF WriteInv
  <1>14. LookupInv'
    BY <1>1, <1>5, <1>9, LookupKept DEF ServerInv
  <1>15. TypeOK'
    BY <1>1, <1>5, <1>6, <1>9 DEF TypeOK, Moves
  <1> QED
    BY <1>11, <1>12, <1>13, <1>14, <1>15 DEF ServerInv

(* A lost connection ends the operations; the pool is told by handlers.    *)
LEMMA ClientGoneStep ==
    ASSUME ServerInv, NEW s \in Sessions, ClientGone(s)
    PROVE  ServerInv'
  <1> DEFINE f == Aborted(s, ses[s])
             e == Ended(ses[s], "broken")
  <1>1. TypeOK /\ ses \in [Sessions -> SessionType] /\ ses[s] \in SessionType
    BY DEF ServerInv, TypeOK
  <1>2. /\ UNCHANGED <<acceptor, accepting, nextSession, pool, lookup, stopping,
                       bufPolicy, bufImages, changes>>
        /\ ses' = [ses EXCEPT ![s] = e] /\ ios' = ios \o f
    BY DEF ClientGone, accepts, buffers
  <1>3. /\ e \in SessionType /\ ~e.wr /\ e.msgQueue = ses[s].msgQueue
        /\ e.hooked = ses[s].hooked
    BY <1>1, EndedFacts
  <1>4. /\ f \in Seq(Handlers) /\ \A k \in 1..Len(f) : f[k].kind \in {"rdErr", "wrErr"}
        /\ ses[s].rd => ReaderIn(f, s)
    BY <1>1, AbortedFacts
  <1> HIDE DEF f, e
  <1>5. Moves(0, f)
    BY <1>1, <1>2, <1>4, Extended
  <1>6. /\ ses' \in [Sessions -> SessionType] /\ ses'[s] = e
        /\ \A r \in Sessions : r # s => ses'[r] = ses[r]
    BY <1>1, <1>2, <1>3
  <1>7. \A r \in Sessions :
           /\ ses'[r].wr => ses[r].wr
           /\ ses[r].msgQueue # <<>> => ses'[r].msgQueue # <<>>
           /\ ses[r].rd => ses'[r].rd \/ ReaderIn(f, r)
           /\ ses'[r].hooked = ses[r].hooked
    <2>1. ~ses'[s].wr /\ ses'[s].msgQueue = ses[s].msgQueue /\ ses'[s].hooked = ses[s].hooked
      BY <1>3, <1>6, Zenon
    <2> QED
      BY <1>4, <1>6, <2>1, Zenon
  <1>8. WriteInv' /\ PoolInv' /\ PostInv'
    <2>1. \A k \in 1..Len(f) : f[k].kind \notin {"wrOk", "post"}
      BY <1>4
    <2>2. \A r \in pool' : r \in pool /\ ses'[r].hooked
      BY <1>1, <1>2, <1>7 DEF ServerInv, TypeOK, PoolInv
    <2> QED
      BY <1>5, <1>7, <2>1, <2>2, QuietStep
  <1>9. LookupInv'
    BY <1>1, <1>2, <1>5, LookupKept DEF ServerInv
  <1>10. TypeOK'
    BY <1>1, <1>2, <1>5, <1>6 DEF TypeOK, Moves
  <1> QED
    BY <1>8, <1>9, <1>10 DEF ServerInv

-----------------------------------------------------------------------------
(* The invariant.                                                          *)

(* The server starts with nothing to read, to write or to look up.         *)
LEMMA InitServer == Init => ServerInv
  <1> SUFFICES ASSUME Init PROVE ServerInv
    OBVIOUS
  <1>1. MaxSessions \in Nat \ {0} /\ MaxAsks \in Nat /\ MaxChanges \in Nat
    BY ServerAssumption
  <1>2. NewSession \in SessionType /\ ~NewSession.wr
    BY <1>1 DEF NewSession, SessionType
  <1>3. ios = <<>> /\ Len(ios) = 0 /\ pool = {} /\ lookup = None
        /\ \A s \in Sessions : ses[s] = NewSession
    BY DEF Init
  <1>4. TypeOK
    <2>1. ses \in [Sessions -> SessionType]
      BY <1>2 DEF Init
    <2>2. ios \in Seq(Handlers)
      BY <1>3
    <2>3. accepting \in Sessions /\ nextSession \in 2..(MaxSessions + 1)
      BY <1>1 DEF Init, Sessions
    <2> QED
      BY <1>1, <2>1, <2>2, <2>3 DEF Init, TypeOK
  <1>5. WriteInv
    BY <1>2, <1>3 DEF WriteInv
  <1>6. LookupInv /\ PoolInv /\ PostInv
    BY <1>3 DEF LookupInv, PoolInv, PostInv
  <1> QED
    BY <1>4, <1>5, <1>6 DEF ServerInv

(* Every step of every thread keeps the invariant.                         *)
LEMMA ServerStep == ServerInv /\ [Next]_vars => ServerInv'
  <1> SUFFICES ASSUME ServerInv, [Next]_vars PROVE ServerInv'
    OBVIOUS
  <1>1. CASE NetThread
    BY <1>1, AcceptOkStep, AcceptFailedStep, HandleRequestStep, LookUpFileStep, SendFileStep,
       QueueRspMsgStep, WriteDoneStep, NetErrorStep DEF NetThread
  <1>2. CASE StopAcceptor \/ StopSessions \/ ClientConnects
    BY <1>2, StopAcceptorStep, StopSessionsStep, ClientConnectsStep
  <1>3. CASE (\E a \in Ads : Cache(a)) \/ Publish
    BY <1>3, BusinessSteps
  <1>4. ASSUME NEW s \in Sessions,
               \/ \E w \in Whats : ClientAsks(s, w)
               \/ ReadCompletes(s) \/ WriteCompletes(s) \/ ClientGone(s)
        PROVE  ServerInv'
    BY <1>4, ClientAsksStep, ReadCompletesStep, WriteCompletesStep, ClientGoneStep
  <1>5. CASE UNCHANGED vars
    BY <1>5 DEF vars, ServerInv, TypeOK, WriteInv, LookupInv, PoolInv, PostInv, ReaderIn, Reader
  <1> QED
    BY <1>1, <1>2, <1>3, <1>4, <1>5 DEF Next

(* The invariant holds in every state of the server.                       *)
LEMMA ServerInvariant == Spec => []ServerInv
  BY InitServer, ServerStep, PTL DEF Spec

(* Variables keep their types: no answer is taken from an empty _msgQueue, *)
(* and every handler is about a request, an answer or nothing, as its kind *)
(* says.                                                                   *)
THEOREM ServerTypes == Spec => []TypeOK
  <1>1. ServerInv => TypeOK
    BY DEF ServerInv
  <1> QED
    BY <1>1, ServerInvariant, PTL

(* No session stays in _sessionPool with nobody reading from it, whatever  *)
(* the order of lost connections, failed writes, accepts and stop().       *)
THEOREM PoolServed == Spec => []PoolIsServed
  <1>1. ServerInv => PoolIsServed
    <2> SUFFICES ASSUME ServerInv, NEW s \in pool, ReaderIn(ios, s)
                 PROVE  \E k \in Ready(s) : ios[k].kind \in {"read", "rdErr"}
      BY DEF ServerInv, PoolInv, PoolIsServed
    <2> QED
      BY DEF ReaderIn, Reader, Ready
  <1> QED
    BY <1>1, ServerInvariant, PTL

(* The object whose this-pointer the lambda of queueRspMsg captured lives  *)
(* until the lambda has run.                                               *)
THEOREM SessionsOutlivePosts == Spec => []SessionOutlivesPosts
  <1>1. ServerInv => SessionOutlivesPosts
    <2> SUFFICES ASSUME ServerInv, NEW k \in 1..Len(ios), ios[k].kind = "post"
                 PROVE  Referenced(ios[k].s)
      BY DEF SessionOutlivesPosts
    <2> DEFINE s == ios[k].s
    <2>1. CASE ses[s].rd
      BY <2>1 DEF Referenced
    <2>2. ASSUME NEW j \in (k + 1)..Len(ios), Reader(ios[j], s)
          PROVE  Referenced(s)
      <3>1. Len(ios) \in Nat
        BY LenProperties DEF ServerInv, TypeOK
      <3>2. j \in Ready(s) /\ ios[j].kind # "post"
        BY <2>2, <3>1 DEF Ready, Reader
      <3> QED
        BY <3>2 DEF Referenced
    <2> QED
      BY <2>1, <2>2 DEF ServerInv, PostInv
  <1> QED
    BY <1>1, ServerInvariant, PTL

-----------------------------------------------------------------------------
(* The order of the answers.  A request passes from inbox to a handler, is *)
(* posted as an answer, and joins those that are sent: later stages hold   *)
(* lower numbers, and every stage is in order.                             *)

IsFor(h, kind, s) == h.kind = kind /\ h.s = s

(* The handlers of one kind of session s: their order and their numbers.   *)
Lined(kind, s) ==
    \A j, k \in 1..Len(ios) :
        j < k /\ IsFor(ios[j], kind, s) /\ IsFor(ios[k], kind, s) => ios[j].arg.n < ios[k].arg.n

Carried(kind, s) == {ios[k].arg.n : k \in {i \in 1..Len(ios) : IsFor(ios[i], kind, s)}}

Increasing(q) == \A i, j \in 1..Len(q) : i < j => q[i].n < q[j].n
Numbers(q) == {q[i].n : i \in 1..Len(q)}
Below(A, B) == \A a \in A, b \in B : a < b

(* N is sent, P is posted, R is read, I is on its way, m were asked.       *)
Staged(N, P, R, I, m) ==
    /\ Below(N, P) /\ Below(N \cup P, R) /\ Below(N \cup P \cup R, I)
    /\ N \cup P \cup R \cup I \subseteq 1..m

OrderOf(s) ==
    /\ Increasing(Sent(s)) /\ Lined("post", s) /\ Lined("read", s) /\ Increasing(ses[s].inbox)
    /\ Staged(Numbers(Sent(s)), Carried("post", s), Carried("read", s),
              Numbers(ses[s].inbox), ses[s].asked)

OrderInv == \A s \in Sessions : OrderOf(s)

(* A number moves on when it is the lowest of its stage.                   *)
LEMMA StagedLess ==
    ASSUME NEW N, NEW P, NEW R, NEW I, NEW m, Staged(N, P, R, I, m),
           NEW P2, P2 \subseteq P, NEW R2, R2 \subseteq R
    PROVE  Staged(N, P2, R2, I, m)
  BY DEF Staged, Below

LEMMA StagedPost ==
    ASSUME NEW N, NEW P, NEW R, NEW I, NEW m, Staged(N, P, R, I, m),
           NEW n \in R, NEW P2, P2 \subseteq P \cup {n},
           NEW R2, R2 \subseteq R, Below({n}, R2)
    PROVE  Staged(N, P2, R2, I, m)
  BY DEF Staged, Below

LEMMA StagedSend ==
    ASSUME NEW N, NEW P, NEW R, NEW I, NEW m, Staged(N, P, R, I, m),
           NEW n \in P, NEW P2, P2 \subseteq P, Below({n}, P2),
           NEW R2, R2 \subseteq R
    PROVE  Staged(N \cup {n}, P2, R2, I, m)
  BY DEF Staged, Below

LEMMA StagedRead ==
    ASSUME NEW N, NEW P, NEW R, NEW I, NEW m, Staged(N, P, R, I, m),
           NEW n \in I, NEW P2, P2 \subseteq P, NEW R2, R2 \subseteq R \cup {n},
           NEW I2, I2 \subseteq I, Below({n}, I2)
    PROVE  Staged(N, P2, R2, I2, m)
  BY DEF Staged, Below

LEMMA StagedAsk ==
    ASSUME NEW N, NEW P, NEW R, NEW I, NEW m \in Nat, Staged(N, P, R, I, m),
           NEW P2, P2 \subseteq P, NEW R2, R2 \subseteq R,
           NEW I2, I2 \subseteq I \cup {m + 1}
    PROVE  Staged(N, P2, R2, I2, m + 1)
  <1>1. /\ \A a \in N \cup P \cup R \cup I : a \in 1..m
        /\ Below(N, P) /\ Below(N \cup P, R) /\ Below(N \cup P \cup R, I)
    BY DEF Staged
  <1>2. \A a \in 1..m : a < m + 1 /\ a \in 1..(m + 1)
    OBVIOUS
  <1>3. \A a \in N \cup P \cup R \cup I : a < m + 1 /\ a \in 1..(m + 1)
    BY <1>1, <1>2, Zenon
  <1>4. m + 1 \in 1..(m + 1)
    OBVIOUS
  <1>5. Below(N, P2) /\ Below(N \cup P2, R2)
    BY <1>1, Zenon DEF Below
  <1>6. Below(N \cup P2 \cup R2, I2)
    BY <1>1, <1>3, Zenon DEF Below
  <1>7. N \cup P2 \cup R2 \cup I2 \subseteq 1..(m + 1)
    BY <1>3, <1>4, Zenon
  <1> QED
    BY <1>5, <1>6, <1>7, Zenon DEF Staged

(* The first of an increasing sequence is below the others.                *)
LEMMA IncreasingTail ==
    ASSUME NEW T, NEW q \in Seq(T), q # <<>>, Increasing(q)
    PROVE  /\ Increasing(Tail(q)) /\ Numbers(Tail(q)) \subseteq Numbers(q)
           /\ Head(q).n \in Numbers(q) /\ Below({Head(q).n}, Numbers(Tail(q)))
  <1>1. /\ Len(q) \in Nat \ {0} /\ Len(Tail(q)) = Len(q) - 1 /\ Head(q) = q[1]
        /\ \A k \in 1..(Len(q) - 1) : Tail(q)[k] = q[k + 1]
    BY EmptySeq, HeadTailProperties
  <1>2. \A k \in 1..Len(Tail(q)) : Tail(q)[k] = q[k + 1] /\ k + 1 \in 1..Len(q) /\ 1 < k + 1
    BY <1>1
  <1>3. 1 \in 1..Len(q)
    BY <1>1
  <1>4. \A k \in 1..Len(q) : 1 < k => q[1].n < q[k].n
    BY <1>3 DEF Increasing
  <1>5. ASSUME NEW i \in 1..Len(Tail(q)), NEW j \in 1..Len(Tail(q)), i < j
        PROVE  Tail(q)[i].n < Tail(q)[j].n
    <2>1. i + 1 < j + 1
      BY <1>1, <1>5
    <2> QED
      BY <1>2, <2>1 DEF Increasing
  <1> QED
    BY <1>1, <1>2, <1>3, <1>4, <1>5 DEF Increasing, Numbers, Below

(* A higher number may come to the end of one.                             *)
LEMMA IncreasingAppend ==
    ASSUME NEW T, NEW q \in Seq(T), NEW x \in T, Increasing(q), Below(Numbers(q), {x.n})
    PROVE  Increasing(Append(q, x)) /\ Numbers(Append(q, x)) = Numbers(q) \cup {x.n}
  <1> DEFINE r == Append(q, x)
  <1>1. /\ Len(q) \in Nat /\ Len(r) = Len(q) + 1 /\ r[Len(q) + 1] = x
        /\ \A k \in 1..Len(q) : r[k] = q[k]
    BY AppendProperties, LenProperties
  <1> HIDE DEF r
  <1>2. \A k \in 1..Len(r) : k \in 1..Len(q) \/ k = Len(q) + 1
    BY <1>1
  <1>3. \A k \in 1..Len(q) : q[k].n < x.n
    BY DEF Below, Numbers
  <1>4. Increasing(r)
    <2> SUFFICES ASSUME NEW i \in 1..Len(r), NEW j \in 1..Len(r), i < j
                 PROVE  r[i].n < r[j].n
      BY DEF Increasing
    <2>1. i \in 1..Len(q)
      BY <1>1
    <2>2. CASE j \in 1..Len(q)
      BY <1>1, <2>1, <2>2 DEF Increasing
    <2>3. CASE j = Len(q) + 1
      BY <1>1, <1>3, <2>1, <2>3
    <2> QED
      BY <1>2, <2>2, <2>3
  <1>5. Numbers(r) = Numbers(q) \cup {x.n}
    <2>1. \A k \in 1..Len(q) : k \in 1..Len(r)
      BY <1>1
    <2>2. Len(q) + 1 \in 1..Len(r)
      BY <1>1
    <2> QED
      BY <1>1, <1>2, <2>1, <2>2 DEF Numbers
  <1> QED
    BY <1>4, <1>5 DEF r

(* Where the handlers of one kind of s come from, if none of them is new.  *)
LEMMA OldHandlers ==
    ASSUME TypeOK, NEW d, NEW q, Moves(d, q), NEW kind, NEW s,
           \A i \in 1..Len(q) : ~IsFor(q[i], kind, s)
    PROVE  \A k \in 1..Len(ios') : IsFor(ios'[k], kind, s) =>
              k + d \in 1..Len(ios) /\ ios'[k] = ios[k + d] /\ k \in Nat /\ d \in {0, 1}
  <1> SUFFICES ASSUME NEW k \in 1..Len(ios'), IsFor(ios'[k], kind, s)
               PROVE  k + d \in 1..Len(ios) /\ ios'[k] = ios[k + d] /\ k \in Nat /\ d \in {0, 1}
    OBVIOUS
  <1>1. \/ k \in 1..(Len(ios) - d) /\ ios'[k] = ios[k + d] /\ k + d \in 1..Len(ios)
        \/ /\ k - (Len(ios) - d) \in 1..Len(q)
           /\ ios'[k] = q[k - (Len(ios) - d)]
    BY MovesFacts
  <1>2. d \in {0, 1} /\ k \in Nat
    BY MovesFacts DEF Moves
  <1> QED
    BY <1>1, <1>2

(* They stay in order, and behind the one that runs are higher numbers.    *)
LEMMA CarriedQuiet ==
    ASSUME TypeOK, NEW d, NEW q, Moves(d, q), NEW kind, NEW s, Lined(kind, s),
           \A i \in 1..Len(q) : ~IsFor(q[i], kind, s)
    PROVE  /\ Lined(kind, s)' /\ Carried(kind, s)' \subseteq Carried(kind, s)
           /\ d = 1 /\ IsFor(ios[1], kind, s) =>
                 /\ ios[1].arg.n \in Carried(kind, s)
                 /\ Below({ios[1].arg.n}, Carried(kind, s)')
  <1>1. \A k \in 1..Len(ios') : IsFor(ios'[k], kind, s) =>
              k + d \in 1..Len(ios) /\ ios'[k] = ios[k + d] /\ k \in Nat /\ d \in {0, 1}
    BY OldHandlers
  <1>2. Lined(kind, s)'
    <2> SUFFICES ASSUME NEW j \in 1..Len(ios'), NEW k \in 1..Len(ios'), j < k,
                        IsFor(ios'[j], kind, s), IsFor(ios'[k], kind, s)
                 PROVE  ios'[j].arg.n < ios'[k].arg.n
      BY DEF Lined
    <2>1. /\ j + d \in 1..Len(ios) /\ ios'[j] = ios[j + d]
          /\ k + d \in 1..Len(ios) /\ ios'[k] = ios[k + d] /\ j + d < k + d
      BY <1>1
    <2> QED
      BY <2>1 DEF Lined
  <1>3. Carried(kind, s)' \subseteq Carried(kind, s)
    BY <1>1 DEF Carried
  <1>4. ASSUME d = 1, IsFor(ios[1], kind, s)
        PROVE  /\ ios[1].arg.n \in Carried(kind, s)
               /\ Below({ios[1].arg.n}, Carried(kind, s)')
    <2>1. 1 \in 1..Len(ios)
      BY <1>4, MovesFacts DEF Moves
    <2>2. \A k \in 1..Len(ios') : IsFor(ios'[k], kind, s) => ios[1].arg.n < ios'[k].arg.n
      <3> SUFFICES ASSUME NEW k \in 1..Len(ios'), IsFor(ios'[k], kind, s)
                   PROVE  ios[1].arg.n < ios'[k].arg.n
        OBVIOUS
      <3>1. k + 1 \in 1..Len(ios) /\ ios'[k] = ios[k + 1] /\ 1 < k + 1
        BY <1>1, <1>4
      <3> QED
        BY <1>4, <2>1, <3>1 DEF Lined
    <2> QED
      BY <1>4, <2>1, <2>2 DEF Below, Carried
  <1> QED
    BY <1>2, <1>3, <1>4

(* One more of them may come, with a higher number.                        *)
Brings(q, kind, s, n) ==
    \A i \in 1..Len(q) : IsFor(q[i], kind, s) => i = 1 /\ q[i].arg.n = n

LEMMA CarriedNew ==
    ASSUME TypeOK, NEW d, NEW q, Moves(d, q), NEW kind, NEW s, Lined(kind, s),
           NEW n, Below(Carried(kind, s), {n}), Brings(q, kind, s, n)
    PROVE  Lined(kind, s)' /\ Carried(kind, s)' \subseteq Carried(kind, s) \cup {n}
  <1> DEFINE m == Len(ios) - d
  <1>0. m \in Nat /\ Len(q) \in Nat /\ d \in {0, 1} /\ Len(ios) \in Nat
    BY MovesFacts DEF Moves
  <1>1. \A k \in 1..Len(ios') : IsFor(ios'[k], kind, s) =>
            \/ k \in 1..m /\ ios'[k] = ios[k + d] /\ k + d \in 1..Len(ios)
            \/ k = m + 1 /\ ios'[k].arg.n = n
    <2> SUFFICES ASSUME NEW k \in 1..Len(ios'), IsFor(ios'[k], kind, s)
                 PROVE  \/ k \in 1..m /\ ios'[k] = ios[k + d] /\ k + d \in 1..Len(ios)
                        \/ k = m + 1 /\ ios'[k].arg.n = n
      OBVIOUS
    <2>1. \/ k \in 1..m /\ ios'[k] = ios[k + d] /\ k + d \in 1..Len(ios)
          \/ k - m \in 1..Len(q) /\ ios'[k] = q[k - m]
      BY MovesFacts
    <2>2. CASE k - m \in 1..Len(q) /\ ios'[k] = q[k - m]
      <3>1. k - m = 1 /\ ios'[k].arg.n = n
        BY <2>2 DEF Brings
      <3> QED
        BY <1>0, <3>1
    <2> QED
      BY <2>1, <2>2
  <1>2. \A k \in 1..Len(ios) : IsFor(ios[k], kind, s) => ios[k].arg.n < n
    BY DEF Below, Carried
  <1> HIDE DEF m
  <1>3. Lined(kind, s)'
    <2> SUFFICES ASSUME NEW j \in 1..Len(ios'), NEW k \in 1..Len(ios'), j < k,
                        IsFor(ios'[j], kind, s), IsFor(ios'[k], kind, s)
                 PROVE  ios'[j].arg.n < ios'[k].arg.n
      BY DEF Lined
    <2>0. j \in Int /\ k \in Int
      OBVIOUS
    <2>1. CASE k \in 1..m /\ ios'[k] = ios[k + d] /\ k + d \in 1..Len(ios)
      <3>1. j \in 1..m /\ ios'[j] = ios[j + d] /\ j + d \in 1..Len(ios) /\ j + d < k + d
        BY <1>0, <1>1, <2>0, <2>1
      <3> QED
        BY <2>1, <3>1 DEF Lined
    <2>2. CASE k = m + 1 /\ ios'[k].arg.n = n
      <3>1. ios'[j] = ios[j + d] /\ j + d \in 1..Len(ios)
        BY <1>0, <1>1, <2>0, <2>2
      <3> QED
        BY <1>2, <2>2, <3>1
    <2> QED
      BY <1>1, <2>1, <2>2
  <1>4. Carried(kind, s)' \subseteq Carried(kind, s) \cup {n}
    <2> SUFFICES ASSUME NEW k \in 1..Len(ios'), IsFor(ios'[k], kind, s)
                 PROVE  ios'[k].arg.n \in Carried(kind, s) \cup {n}
      BY DEF Carried
    <2> QED
      BY <1>1 DEF Carried
  <1> QED
    BY <1>3, <1>4

(* The handler of a write of s is ready.                                   *)
WriteEnded(s) == \E k \in 1..Len(ios) : IsFor(ios[k], "wrOk", s)

LEMMA SentIs ==
    ASSUME NEW s
    PROVE  /\ WriteEnded(s) => Sent(s) = ses[s].out \o Tail(ses[s].msgQueue)
           /\ ~WriteEnded(s) => Sent(s) = ses[s].out \o ses[s].msgQueue
           /\ WriteEnded(s)' => Sent(s)' = ses'[s].out \o Tail(ses'[s].msgQueue)
           /\ ~WriteEnded(s)' => Sent(s)' = ses'[s].out \o ses'[s].msgQueue
  <1>1. WriteEnded(s) <=> \E k \in Ready(s) : ios[k].kind = "wrOk"
    BY DEF WriteEnded, IsFor, Ready
  <1>2. WriteEnded(s)' <=> \E k \in Ready(s)' : ios'[k].kind = "wrOk"
    BY DEF WriteEnded, IsFor, Ready
  <1> QED
    BY <1>1, <1>2 DEF Sent

LEMMA WriteEndedKept ==
    ASSUME TypeOK, NEW d, NEW q, Moves(d, q), NEW s,
           \A i \in 1..Len(q) : ~IsFor(q[i], "wrOk", s),
           d = 0 \/ ~IsFor(ios[1], "wrOk", s)
    PROVE  WriteEnded(s)' <=> WriteEnded(s)
  <1>0. \A k \in 1..Len(ios') : IsFor(ios'[k], "wrOk", s) =>
              k + d \in 1..Len(ios) /\ ios'[k] = ios[k + d] /\ k \in Nat /\ d \in {0, 1}
    BY OldHandlers
  <1>1. ASSUME NEW k \in 1..Len(ios'), IsFor(ios'[k], "wrOk", s) PROVE WriteEnded(s)
    <2>1. k + d \in 1..Len(ios) /\ ios'[k] = ios[k + d]
      BY <1>0, <1>1
    <2> QED
      BY <1>1, <2>1 DEF WriteEnded
  <1>2. ASSUME NEW k \in 1..Len(ios), IsFor(ios[k], "wrOk", s) PROVE WriteEnded(s)'
    <2>1. k - d \in 1..(Len(ios) - d) /\ k - d \in 1..Len(ios')
      BY <1>2, MovesFacts DEF Moves
    <2>2. ios'[k - d] = ios[(k - d) + d] /\ (k - d) + d = k
      BY <2>1, MovesFacts DEF Moves
    <2> QED
      BY <1>2, <2>1, <2>2 DEF WriteEnded
  <1> QED
    BY <1>1, <1>2 DEF WriteEnded

(* What a step leaves alone of session s.                                  *)
SteadyOut(s) == ses'[s].out = ses[s].out /\ ses'[s].msgQueue = ses[s].msgQueue
SteadyIn(s) == ses'[s].inbox = ses[s].inbox /\ ses'[s].asked = ses[s].asked

LEMMA SentKept ==
    ASSUME TypeOK, NEW d, NEW q, Moves(d, q), NEW s, SteadyOut(s),
           \A i \in 1..Len(q) : ~IsFor(q[i], "wrOk", s),
           d = 0 \/ ~IsFor(ios[1], "wrOk", s)
    PROVE  Sent(s)' = Sent(s)
  <1>1. WriteEnded(s)' <=> WriteEnded(s)
    BY WriteEndedKept
  <1> QED
    BY <1>1, SentIs DEF SteadyOut

(* A step is no danger to the order on a session if it changes neither     *)
(* what is sent nor what is asked and posts and reads nothing.             *)
LEMMA OrderSame ==
    ASSUME TypeOK, NEW d, NEW q, Moves(d, q), NEW s, OrderOf(s), SteadyIn(s),
           Sent(s)' = Sent(s),
           \A i \in 1..Len(q) : q[i].s = s => q[i].kind \notin {"read", "post"}
    PROVE  OrderOf(s)'
  <1>1. \A i \in 1..Len(q) : ~IsFor(q[i], "read", s) /\ ~IsFor(q[i], "post", s)
    BY DEF IsFor
  <1>2. /\ Lined("post", s)' /\ Carried("post", s)' \subseteq Carried("post", s)
        /\ Lined("read", s)' /\ Carried("read", s)' \subseteq Carried("read", s)
    BY <1>1, CarriedQuiet DEF OrderOf
  <1>3. Staged(Numbers(Sent(s)), Carried("post", s)', Carried("read", s)',
               Numbers(ses[s].inbox), ses[s].asked)
    BY <1>2, StagedLess DEF OrderOf
  <1>4. Increasing(Sent(s)) /\ Increasing(ses[s].inbox)
    BY DEF OrderOf
  <1> QED
    BY <1>2, <1>3, <1>4 DEF OrderOf, SteadyIn

(* Nothing is sent if no write of s ends and _msgQueue stays as it is.     *)
LEMMA OrderQuiet ==
    ASSUME TypeOK, NEW d, NEW q, Moves(d, q), NEW s, OrderOf(s), SteadyOut(s), SteadyIn(s),
           \A i \in 1..Len(q) : q[i].s = s => q[i].kind \notin {"read", "post", "wrOk"},
           d = 0 \/ ~IsFor(ios[1], "wrOk", s)
    PROVE  OrderOf(s)'
  <1>1. \A i \in 1..Len(q) : ~IsFor(q[i], "wrOk", s)
    BY DEF IsFor
  <1>2. Sent(s)' = Sent(s)
    BY <1>1, SentKept
  <1>3. \A i \in 1..Len(q) : q[i].s = s => q[i].kind \notin {"read", "post"}
    OBVIOUS
  <1> QED
    BY <1>2, <1>3, OrderSame

(* Most steps make no such handler ready, and move nothing else.           *)
LEMMA OrderKept ==
    ASSUME TypeOK, OrderInv, NEW d, NEW q, Moves(d, q),
           \A i \in 1..Len(q) : q[i].kind \notin {"read", "post", "wrOk"},
           d = 0 \/ ios[1].kind # "wrOk",
           \A s \in Sessions : SteadyOut(s) /\ SteadyIn(s)
    PROVE  OrderInv'
  <1> SUFFICES ASSUME NEW s \in Sessions PROVE OrderOf(s)'
    BY DEF OrderInv
  <1>1. \A i \in 1..Len(q) : q[i].s = s => q[i].kind \notin {"read", "post", "wrOk"}
    OBVIOUS
  <1>2. d = 0 \/ ~IsFor(ios[1], "wrOk", s)
    BY DEF IsFor
  <1> QED
    BY <1>1, <1>2, OrderQuiet DEF OrderInv

(* Reading on, writing and closing touch neither queue of a session.       *)
LEMMA SessionSteady ==
    ASSUME NEW t \in SessionType, NEW u,
           \/ u = ReadHead(t) \/ u = WriteData(t) \/ u = [t EXCEPT !.hooked = TRUE]
           \/ u = [t EXCEPT !.hooked = FALSE]
           \/ u = [t EXCEPT !.sock = "open"]
           \/ \E sock \in {"broken", "closed"} : u = Ended(t, sock)
    PROVE  u.out = t.out /\ u.msgQueue = t.msgQueue /\ u.inbox = t.inbox /\ u.asked = t.asked
  BY DEF ReadHead, WriteData, Ended, SessionType

(* The steps that concern no request.                                      *)
LEMMA AcceptOrder ==
    ASSUME ServerInv, OrderInv, AcceptOk \/ AcceptFailed
    PROVE  OrderInv'
  <1>1. CASE AcceptOk
    <2> DEFINE s == ios[1].s
               f == ReadHeadFails(s, ses[s])
               re == Handler("rdErr", s, None)
               t == [ses[s] EXCEPT !.hooked = TRUE]
    <2>1. /\ TypeOK /\ ios # <<>> /\ Head(ios) = ios[1] /\ ios[1].kind = "accept"
          /\ s \in Sessions
      BY <1>1, RunningFacts DEF ServerInv, AcceptOk
    <2>2. /\ doAccept(Tail(ios) \o f)
          /\ ses' = [ses EXCEPT ![s] = ReadHead([@ EXCEPT !.hooked = TRUE])]
      BY <1>1, <2>1 DEF AcceptOk
    <2>3. ses \in [Sessions -> SessionType] /\ ses[s] \in SessionType
      BY <2>1 DEF TypeOK
    <2>4. t \in SessionType
      BY <2>3 DEF SessionType
    <2>5. f \in Seq(Handlers) /\ \A k \in 1..Len(f) : f[k].kind = "rdErr"
      <3>1. re \in Handlers /\ re.kind = "rdErr"
        BY <2>1, <2>3, ReadHeadFacts DEF Handler
      <3>2. f = <<>> \/ f = <<re>>
        BY DEF ReadHeadFails
      <3> HIDE DEF f, re
      <3>3. <<re>> \in Seq(Handlers) /\ Len(<<re>>) = 1 /\ <<re>>[1] = re
        BY <3>1
      <3>4. CASE f = <<>>
        BY <3>4, EmptySeq
      <3>5. CASE f = <<re>>
        BY <3>1, <3>3, <3>5
      <3> QED
        BY <3>2, <3>4, <3>5
    <2>6. PICK q : Moves(1, q) /\ \A k \in 1..Len(q) : q[k].kind \in {"rdErr", "acceptErr"}
      BY <2>1, <2>2, <2>5, DoAcceptFacts
    <2>7. \A k \in 1..Len(q) : q[k].kind \notin {"read", "post", "wrOk"}
      BY <2>6
    <2>8. ses'[s] = ReadHead(t) /\ \A r \in Sessions : r # s => ses'[r] = ses[r]
      BY <2>1, <2>2, <2>3
    <2>9. SteadyOut(s) /\ SteadyIn(s)
      <3> DEFINE u == ReadHead(t)
      <3>1. t.out = ses[s].out /\ t.msgQueue = ses[s].msgQueue
            /\ t.inbox = ses[s].inbox /\ t.asked = ses[s].asked
        BY <2>3, SessionSteady
      <3>2. u.out = t.out /\ u.msgQueue = t.msgQueue /\ u.inbox = t.inbox /\ u.asked = t.asked
        BY <2>4, SessionSteady
      <3>3. ses'[s] = u
        BY <2>8
      <3> HIDE DEF t, u
      <3> QED
        BY <3>1, <3>2, <3>3 DEF SteadyOut, SteadyIn
    <2>10. \A r \in Sessions : SteadyOut(r) /\ SteadyIn(r)
      BY <2>8, <2>9 DEF SteadyOut, SteadyIn
    <2> QED
      BY <2>1, <2>6, <2>7, <2>10, OrderKept
  <1>2. CASE AcceptFailed
    <2>1. /\ TypeOK /\ ios # <<>> /\ ios[1].kind = "acceptErr"
      BY <1>2, RunningFacts DEF ServerInv, AcceptFailed
    <2>2. Tail(ios) \o <<>> = Tail(ios) /\ <<>> \in Seq(Handlers)
      <3>1. Tail(ios) \in Seq(Handlers)
        BY <2>1, HeadTailProperties DEF TypeOK
      <3> QED
        BY <3>1, ConcatEmptySeq
    <2>3. doAccept(Tail(ios) \o <<>>) /\ ses' = ses
      <3>1. doAccept(Tail(ios)) /\ ses' = ses
        BY <1>2 DEF AcceptFailed
      <3> QED
        BY <2>2, <3>1
    <2>4. \A k \in 1..Len(<<>>) : <<>>[k].kind = "rdErr"
      OBVIOUS
    <2>5. PICK q : Moves(1, q) /\ \A k \in 1..Len(q) : q[k].kind \in {"rdErr", "acceptErr"}
      BY <2>1, <2>2, <2>3, <2>4, DoAcceptFacts
    <2>6. \A k \in 1..Len(q) : q[k].kind \notin {"read", "post", "wrOk"}
      BY <2>5
    <2>7. \A r \in Sessions : SteadyOut(r) /\ SteadyIn(r)
      BY <2>3 DEF SteadyOut, SteadyIn
    <2> QED
      BY <2>1, <2>5, <2>6, <2>7, OrderKept
  <1> QED
    BY <1>1, <1>2

LEMMA ClosingOrder ==
    ASSUME ServerInv, OrderInv,
           NetError \/ StopAcceptor \/ StopSessions \/ (\E s \in Sessions : ClientGone(s))
    PROVE  OrderInv'
  <1>1. TypeOK /\ ses \in [Sessions -> SessionType] /\ ios \in Seq(Handlers)
    BY DEF ServerInv, TypeOK
  <1>2. CASE NetError
    <2> DEFINE s == ios[1].s
               e == Ended(ses[s], "closed")
               u == [e EXCEPT !.hooked = FALSE]
    <2>1. ios # <<>> /\ Head(ios) = ios[1] /\ ios[1].kind \in {"rdErr", "wrErr"} /\ s \in Sessions
      BY <1>1, <1>2, RunningFacts DEF NetError
    <2> DEFINE f == Aborted(s, ses[s])
    <2>2. ses' = [ses EXCEPT ![s] = u] /\ ios' = Tail(ios) \o f
      BY <1>2, <2>1 DEF NetError
    <2>3. f \in Seq(Handlers) /\ \A k \in 1..Len(f) : f[k].kind \in {"rdErr", "wrErr"}
      BY <1>1, <2>1, AbortedFacts
    <2>4. SteadyOut(s) /\ SteadyIn(s)
      <3>1. e \in SessionType /\ ses[s] \in SessionType
        BY <1>1, <2>1, EndedFacts
      <3>2. e.out = ses[s].out /\ e.msgQueue = ses[s].msgQueue
            /\ e.inbox = ses[s].inbox /\ e.asked = ses[s].asked
        BY <3>1, SessionSteady
      <3>3. u.out = e.out /\ u.msgQueue = e.msgQueue /\ u.inbox = e.inbox /\ u.asked = e.asked
        BY <3>1, SessionSteady
      <3>4. ses'[s] = u
        BY <1>1, <2>1, <2>2
      <3> HIDE DEF e, u
      <3> QED
        BY <3>2, <3>3, <3>4 DEF SteadyOut, SteadyIn
    <2> HIDE DEF f
    <2>5. Moves(1, f) /\ \A k \in 1..Len(f) : f[k].kind \notin {"read", "post", "wrOk"}
      BY <1>1, <2>1, <2>2, <2>3, Consumed
    <2>6. \A r \in Sessions : SteadyOut(r) /\ SteadyIn(r)
      BY <1>1, <2>1, <2>2, <2>4 DEF SteadyOut, SteadyIn
    <2> QED
      BY <1>1, <2>1, <2>5, <2>6, OrderKept
  <1>3. CASE StopAcceptor
    <2> DEFINE h == Handler("acceptErr", None, None)
    <2>1. h \in Handlers /\ h.kind = "acceptErr"
      BY DEF Handler, Handlers
    <2>2. ses' = ses /\ (ios' = Append(ios, h) \/ ios' = ios)
      BY <1>3 DEF StopAcceptor
    <2> HIDE DEF h
    <2>3. PICK q \in Seq(Handlers) :
             ios' = ios \o q /\ \A k \in 1..Len(q) : q[k].kind \notin {"read", "post", "wrOk"}
      <3>1. <<h>> \in Seq(Handlers) /\ Len(<<h>>) = 1 /\ <<h>>[1] = h
        BY <2>1
      <3>2. Append(ios, h) = ios \o <<h>> /\ ios = ios \o <<>> /\ <<>> \in Seq(Handlers)
        BY <1>1, <2>1, AppendIsConcat, ConcatEmptySeq
      <3>3. \A k \in 1..Len(<<h>>) : <<h>>[k].kind \notin {"read", "post", "wrOk"}
        BY <2>1, <3>1
      <3>4. \A k \in 1..Len(<<>>) : <<>>[k].kind \notin {"read", "post", "wrOk"}
        OBVIOUS
      <3> QED
        BY <2>2, <3>1, <3>2, <3>3, <3>4
    <2>4. Moves(0, q)
      BY <1>1, <2>3, Extended
    <2>5. \A r \in Sessions : SteadyOut(r) /\ SteadyIn(r)
      BY <2>2 DEF SteadyOut, SteadyIn
    <2> QED
      BY <1>1, <2>3, <2>4, <2>5, OrderKept
  <1>4. CASE StopSessions
    <2>1. PICK q \in SetToSeqs(AbortedByStop) : ios' = ios \o q
      BY <1>4 DEF StopSessions
    <2>2. q \in Seq(Handlers) /\ \A k \in 1..Len(q) : q[k].kind \in {"rdErr", "wrErr"}
      BY <1>1, StoppedFacts
    <2>3. Moves(0, q) /\ \A k \in 1..Len(q) : q[k].kind \notin {"read", "post", "wrOk"}
      BY <1>1, <2>1, <2>2, Extended
    <2>4. ASSUME NEW r \in Sessions PROVE SteadyOut(r) /\ SteadyIn(r)
      <3> DEFINE e == Ended(ses[r], "closed")
      <3>1. e.out = ses[r].out /\ e.msgQueue = ses[r].msgQueue
            /\ e.inbox = ses[r].inbox /\ e.asked = ses[r].asked
        BY <1>1, SessionSteady
      <3>2. ses'[r] = e \/ ses'[r] = ses[r]
        BY <1>4 DEF StopSessions
      <3> HIDE DEF e
      <3> QED
        BY <3>1, <3>2 DEF SteadyOut, SteadyIn
    <2> QED
      BY <1>1, <2>3, <2>4, OrderKept
  <1>5. ASSUME NEW s \in Sessions, ClientGone(s) PROVE OrderInv'
    <2> DEFINE f == Aborted(s, ses[s])
               e == Ended(ses[s], "broken")
    <2>1. ses' = [ses EXCEPT ![s] = e] /\ ios' = ios \o f
      BY <1>5 DEF ClientGone
    <2>2. f \in Seq(Handlers) /\ \A k \in 1..Len(f) : f[k].kind \in {"rdErr", "wrErr"}
      BY <1>1, AbortedFacts
    <2>3. e.out = ses[s].out /\ e.msgQueue = ses[s].msgQueue
          /\ e.inbox = ses[s].inbox /\ e.asked = ses[s].asked
      BY <1>1, SessionSteady
    <2> HIDE DEF e, f
    <2>4. ses'[s] = e /\ \A r \in Sessions : r # s => ses'[r] = ses[r]
      BY <1>1, <2>1
    <2>5. \A r \in Sessions : SteadyOut(r) /\ SteadyIn(r)
      BY <2>3, <2>4 DEF SteadyOut, SteadyIn
    <2>6. Moves(0, f) /\ \A k \in 1..Len(f) : f[k].kind \notin {"read", "post", "wrOk"}
      BY <1>1, <2>1, <2>2, Extended
    <2> QED
      BY <1>1, <2>5, <2>6, OrderKept
  <1> QED
    BY <1>2, <1>3, <1>4, <1>5

LEMMA OtherOrder ==
    ASSUME ServerInv, OrderInv, (\E a \in Ads : Cache(a)) \/ Publish \/ ClientConnects
    PROVE  OrderInv'
  <1>1. TypeOK /\ ses \in [Sessions -> SessionType] /\ ios \in Seq(Handlers)
    BY DEF ServerInv, TypeOK
  <1>2. CASE (\E a \in Ads : Cache(a)) \/ Publish
    <2>1. ios' = ios \o <<>> /\ <<>> \in Seq(Handlers)
      BY <1>1, <1>2, ConcatEmptySeq DEF Cache, Publish
    <2>2. Moves(0, <<>>)
      BY <1>1, <2>1, Extended
    <2>3. \A k \in 1..Len(<<>>) : <<>>[k].kind \notin {"read", "post", "wrOk"}
      OBVIOUS
    <2>4. \A r \in Sessions : SteadyOut(r) /\ SteadyIn(r)
      BY <1>2 DEF Cache, Publish, SteadyOut, SteadyIn
    <2> QED
      BY <1>1, <2>2, <2>3, <2>4, OrderKept
  <1>3. CASE ClientConnects
    <2> DEFINE h == Handler("accept", accepting, None)
    <2>1. accepting \in Sessions
      BY <1>1, <1>3 DEF ClientConnects, TypeOK
    <2>2. h \in Handlers /\ h.kind = "accept"
      BY <2>1 DEF Handler, Handlers
    <2>3. ios' = Append(ios, h) /\ ses' = [ses EXCEPT ![accepting].sock = "open"]
      BY <1>3 DEF ClientConnects
    <2> HIDE DEF h
    <2>4. <<h>> \in Seq(Handlers) /\ Len(<<h>>) = 1 /\ <<h>>[1] = h
      BY <2>2
    <2>5. ios' = ios \o <<h>>
      BY <1>1, <2>2, <2>3, AppendIsConcat
    <2>6. Moves(0, <<h>>)
      BY <1>1, <2>4, <2>5, Extended
    <2>7. \A k \in 1..Len(<<h>>) : <<h>>[k].kind \notin {"read", "post", "wrOk"}
      BY <2>2, <2>4
    <2>8. \A r \in Sessions : SteadyOut(r) /\ SteadyIn(r)
      BY <1>1, <2>1, <2>3 DEF SteadyOut, SteadyIn, SessionType
    <2> QED
      BY <1>1, <2>6, <2>7, <2>8, OrderKept
  <1> QED
    BY <1>2, <1>3

(* The answer of handleRequest is posted behind the answers to all earlier *)
(* requests, and before anything is done for the later ones.               *)
LEMMA ReadOnOrder ==
    ASSUME TypeOK, OrderInv, ios # <<>>, ios[1].kind = "read", NEW s \in Sessions, ios[1].s = s,
           NEW posts,
           \/ posts = <<>>
           \/ \E h \in Handlers : h.kind = "post" /\ h.s = s /\ h.arg.n = ios[1].arg.n
                                  /\ posts = <<h>>,
           ReadOn(s, posts)
    PROVE  OrderInv'
  <1> DEFINE e == ReadHeadFails(s, ses[s])
             re == Handler("rdErr", s, None)
             q == posts \o e
             n == ios[1].arg.n
             News(p) == \A i \in 1..Len(p) :
                 \/ p[i].kind = "rdErr"
                 \/ i = 1 /\ p[i].kind = "post" /\ p[i].s = s /\ p[i].arg.n = n
  <1>1. ses \in [Sessions -> SessionType] /\ ses' = [ses EXCEPT ![s] = ReadHead(@)]
    BY DEF TypeOK, ReadOn
  <1>2. re \in Handlers /\ re.kind = "rdErr" /\ (e = <<>> \/ e = <<re>>)
    BY <1>1, ReadHeadFacts DEF Handler
  <1>3. \A r \in Sessions : SteadyOut(r) /\ SteadyIn(r)
    <2> DEFINE u == ReadHead(ses[s])
    <2>1. u.out = ses[s].out /\ u.msgQueue = ses[s].msgQueue
          /\ u.inbox = ses[s].inbox /\ u.asked = ses[s].asked
      BY <1>1, SessionSteady
    <2>2. ses'[s] = u /\ \A r \in Sessions : r # s => ses'[r] = ses[r]
      BY <1>1
    <2> HIDE DEF u
    <2> QED
      BY <2>1, <2>2 DEF SteadyOut, SteadyIn
  <1> HIDE DEF e, re, n
  <1>4. \A h \in Handlers : <<h>> \in Seq(Handlers)
    OBVIOUS
  <1>5. posts \in Seq(Handlers) /\ e \in Seq(Handlers) /\ Tail(ios) \in Seq(Handlers)
    <2>1. posts \in Seq(Handlers) /\ e \in Seq(Handlers)
      BY <1>2, <1>4, EmptySeq
    <2> QED
      BY <2>1, HeadTailProperties DEF TypeOK
  <1>6. ios' = Tail(ios) \o q
    <2>1. (Tail(ios) \o posts) \o e = Tail(ios) \o (posts \o e)
      <3>1. \A a, b, c \in Seq(Handlers) : (a \o b) \o c = a \o (b \o c)
        BY Regrouped
      <3> QED
        BY <1>5, <3>1, Zenon
    <2>2. ios' = Tail(ios) \o posts \o e
      BY Zenon DEF ReadOn, e
    <2> QED
      BY <2>1, <2>2, Zenon
  <1>7. q \in Seq(Handlers) /\ News(q)
    <2>1. CASE posts = <<>>
      <3>1. q = e
        BY <1>5, <2>1, ConcatEmptySeq
      <3>2. News(e)
        BY <1>2
      <3> QED
        BY <1>5, <3>1, <3>2
    <2>2. ASSUME NEW h \in Handlers, h.kind = "post", h.s = s, h.arg.n = n, posts = <<h>>
          PROVE  q \in Seq(Handlers) /\ News(q)
      <3>1. CASE e = <<>>
        <4>1. q = <<h>>
          BY <1>5, <2>2, <3>1, ConcatEmptySeq
        <4>2. <<h>> \in Seq(Handlers) /\ News(<<h>>)
          BY <1>4, <2>2
        <4> QED
          BY <4>1, <4>2
      <3>2. CASE e = <<re>>
        <4>1. q \in Seq(Handlers) /\ Len(q) = 2 /\ q[1] = h /\ q[2] = re
          BY <1>5, <2>2, <3>2, ConcatProperties
        <4> HIDE DEF q
        <4>2. \A i \in 1..Len(q) : i = 1 \/ i = 2
          BY <4>1
        <4> QED
          BY <1>2, <2>2, <4>1, <4>2
      <3> QED
        BY <1>2, <3>1, <3>2
    <2> QED
      BY <2>1, <2>2 DEF n
  <1> HIDE DEF q
  <1>8. Moves(1, q)
    BY <1>6, <1>7, Consumed
  <1>9. \A r : ~IsFor(ios[1], "wrOk", r)
    BY DEF IsFor
  <1>10. ASSUME NEW r \in Sessions, r # s PROVE OrderOf(r)'
    <2>1. \A i \in 1..Len(q) : q[i].s = r => q[i].kind \notin {"read", "post", "wrOk"}
      BY <1>7, <1>10
    <2> QED
      BY <1>3, <1>8, <1>9, <2>1, OrderQuiet DEF OrderInv
  <1>11. OrderOf(s)'
    <2>1. /\ Increasing(Sent(s)) /\ Lined("post", s) /\ Lined("read", s)
          /\ Increasing(ses[s].inbox)
          /\ Staged(Numbers(Sent(s)), Carried("post", s), Carried("read", s),
                    Numbers(ses[s].inbox), ses[s].asked)
      BY DEF OrderInv, OrderOf
    <2>2. \A i \in 1..Len(q) : ~IsFor(q[i], "wrOk", s) /\ ~IsFor(q[i], "read", s)
      BY <1>7 DEF IsFor
    <2>3. Sent(s)' = Sent(s)
      BY <1>3, <1>8, <1>9, <2>2, SentKept
    <2>4. IsFor(ios[1], "read", s)
      BY DEF IsFor
    <2>5. /\ Lined("read", s)' /\ Carried("read", s)' \subseteq Carried("read", s)
          /\ n \in Carried("read", s) /\ Below({n}, Carried("read", s)')
      BY <1>8, <2>1, <2>2, <2>4, CarriedQuiet DEF n
    <2>6. Below(Carried("post", s), {n})
      BY <2>1, <2>5 DEF Staged, Below
    <2>7. Brings(q, "post", s, n)
      BY <1>7 DEF IsFor, Brings
    <2>8. Lined("post", s)' /\ Carried("post", s)' \subseteq Carried("post", s) \cup {n}
      BY <1>8, <2>1, <2>6, <2>7, CarriedNew
    <2>9. Staged(Numbers(Sent(s)), Carried("post", s)', Carried("read", s)',
                 Numbers(ses[s].inbox), ses[s].asked)
      BY <2>1, <2>5, <2>8, StagedPost
    <2> QED
      BY <1>3, <2>1, <2>3, <2>5, <2>8, <2>9 DEF OrderOf, SteadyIn
  <1> QED
    BY <1>10, <1>11 DEF OrderInv

LEMMA RequestOrder ==
    ASSUME ServerInv, OrderInv, HandleRequest \/ LookUpFile \/ SendFile
    PROVE  OrderInv'
  <1> DEFINE s == ios[1].s
             r == ios[1].arg
  <1>1. TypeOK /\ ios # <<>> /\ ios[1].kind = "read"
    BY RunningFacts DEF ServerInv, LookupInv, HandleRequest, LookUpFile, SendFile
  <1>2. Head(ios) = ios[1] /\ s \in Sessions /\ r.n \in 1..MaxAsks
    BY <1>1, RequestFacts
  <1>3. ASSUME NEW code, NEW data, ReadOn(s, Post(s, r.n, code, data)),
               \/ code = 0 /\ data \in (0..MaxChanges) \cup {Garbage}
               \/ code \in {NoHandler, NotExist} /\ data = None
        PROVE  OrderInv'
    <2>1. \E h \in Handlers : /\ h.kind = "post" /\ h.s = s /\ h.arg.n = r.n
                              /\ Post(s, r.n, code, data) = <<h>>
      BY <1>2, <1>3, PostFacts
    <2> QED
      BY <1>1, <1>2, <1>3, <2>1, ReadOnOrder
  <1>4. CASE ReadOn(s, <<>>)
    BY <1>1, <1>2, <1>4, ReadOnOrder
  <1>5. CASE HandleRequest
    <2>1. \/ ReadOn(s, <<>>)
          \/ ReadOn(s, Post(s, r.n, 0, bufPolicy))
          \/ ReadOn(s, Post(s, r.n, NoHandler, None))
      BY <1>2, <1>5 DEF HandleRequest
    <2>2. bufPolicy \in 0..MaxChanges
      BY <1>1 DEF TypeOK
    <2> QED
      BY <1>3, <1>4, <2>1, <2>2
  <1>6. CASE LookUpFile
    <2>1. \/ ReadOn(s, Post(s, r.n, NotExist, None))
          \/ UNCHANGED <<ses, ios>>
      BY <1>2, <1>6 DEF LookUpFile
    <2>2. CASE UNCHANGED <<ses, ios>>
      BY <2>2 DEF OrderInv, OrderOf, Sent, Ready, Lined, Carried
    <2> QED
      BY <1>3, <2>1, <2>2
  <1>7. CASE SendFile
    <2>1. PICK data \in (0..MaxChanges) \cup {Garbage} : ReadOn(s, Post(s, r.n, 0, data))
      BY <1>1, <1>2, <1>7 DEF SendFile, TypeOK
    <2> QED
      BY <1>3, <2>1
  <1> QED
    BY <1>5, <1>6, <1>7

(* The number that is posted first is the next to be sent.                 *)
LEMMA QueueOrder ==
    ASSUME ServerInv, OrderInv, QueueRspMsg, NEW s, s = ios[1].s, NEW m, m = ios[1].arg
    PROVE  OrderInv'
  <1> DEFINE t == [ses[s] EXCEPT !.msgQueue = Append(@, m)]
             f == WriteDataFails(s, t)
  <1>1. /\ TypeOK /\ ios # <<>> /\ ios[1].kind = "post" /\ Head(ios) = ios[1]
        /\ s \in Sessions /\ ios[1] \in Handlers
    BY RunningFacts DEF ServerInv, QueueRspMsg
  <1>2. m \in Answers
    BY <1>1 DEF Handlers
  <1>3. ses \in [Sessions -> SessionType] /\ ses[s] \in SessionType
    BY <1>1 DEF TypeOK
  <1>4. ses[s].out \in Seq(Answers) /\ ses[s].msgQueue \in Seq(Answers)
    BY <1>3 DEF SessionType
  <1>5. /\ t \in SessionType /\ t.out = ses[s].out /\ t.msgQueue = Append(ses[s].msgQueue, m)
        /\ t.inbox = ses[s].inbox /\ t.asked = ses[s].asked
    <2>1. Append(ses[s].msgQueue, m) \in Seq(Answers)
      BY <1>2, <1>4, AppendProperties
    <2> QED
      BY <1>3, <2>1 DEF SessionType
  <1>6. \/ ses' = [ses EXCEPT ![s] = WriteData(t)] /\ ios' = Tail(ios) \o f
        \/ ses' = [ses EXCEPT ![s] = t] /\ ios' = Tail(ios)
    BY <1>1 DEF QueueRspMsg
  <1>7. /\ WriteData(t).out = t.out /\ WriteData(t).msgQueue = t.msgQueue
        /\ WriteData(t).inbox = t.inbox /\ WriteData(t).asked = t.asked
    BY <1>5, SessionSteady
  <1>8. f \in Seq(Handlers) /\ \A k \in 1..Len(f) : f[k].kind = "wrErr"
    BY <1>1, <1>5, WriteDataFacts
  <1>9. Tail(ios) = Tail(ios) \o <<>> /\ <<>> \in Seq(Handlers)
    <2>1. Tail(ios) \in Seq(Handlers)
      BY <1>1, HeadTailProperties DEF TypeOK
    <2> QED
      BY <2>1, ConcatEmptySeq
  <1> HIDE DEF t, f
  <1>10. PICK q \in Seq(Handlers) :
             ios' = Tail(ios) \o q /\ \A k \in 1..Len(q) : q[k].kind = "wrErr"
    <2>1. CASE ios' = Tail(ios) \o f
      BY <1>8, <2>1
    <2>2. CASE ios' = Tail(ios)
      <3>1. ios' = Tail(ios) \o <<>> /\ \A k \in 1..Len(<<>>) : <<>>[k].kind = "wrErr"
        BY <1>9, <2>2
      <3> QED
        BY <1>9, <3>1
    <2> QED
      BY <1>6, <2>1, <2>2
  <1>11. Moves(1, q)
    BY <1>1, <1>10, Consumed
  <1>12. /\ ses'[s].out = ses[s].out /\ ses'[s].msgQueue = Append(ses[s].msgQueue, m)
         /\ SteadyIn(s)
         /\ \A r \in Sessions : r # s => ses'[r] = ses[r]
    <2>1. PICK u : ses' = [ses EXCEPT ![s] = u] /\ (u = t \/ u = WriteData(t))
      BY <1>6
    <2>2. ses'[s] = u /\ \A r \in Sessions : r # s => ses'[r] = ses[r]
      BY <1>1, <1>3, <2>1
    <2> QED
      BY <1>5, <1>7, <2>1, <2>2 DEF SteadyIn
  <1>13. \A r : ~IsFor(ios[1], "wrOk", r) /\ \A k \in 1..Len(q) : ~IsFor(q[k], "wrOk", r)
    BY <1>1, <1>10 DEF IsFor
  <1>14. ASSUME NEW r \in Sessions, r # s PROVE OrderOf(r)'
    <2>1. \A k \in 1..Len(q) : q[k].s = r => q[k].kind \notin {"read", "post", "wrOk"}
      BY <1>10
    <2>2. SteadyOut(r) /\ SteadyIn(r)
      BY <1>12, <1>14 DEF SteadyOut, SteadyIn
    <2> QED
      BY <1>1, <1>11, <1>13, <2>1, <2>2, OrderQuiet DEF OrderInv
  <1>15. Sent(s) \in Seq(Answers) /\ Sent(s)' = Append(Sent(s), m)
    <2>1. WriteEnded(s)' <=> WriteEnded(s)
      BY <1>1, <1>11, <1>13, WriteEndedKept
    <2>2. \A a \in Seq(Answers), b \in Seq(Answers) :
              a \o b \in Seq(Answers) /\ a \o Append(b, m) = Append(a \o b, m)
      <3> SUFFICES ASSUME NEW a \in Seq(Answers), NEW b \in Seq(Answers)
                   PROVE  a \o b \in Seq(Answers) /\ a \o Append(b, m) = Append(a \o b, m)
        OBVIOUS
      <3>1. a \o b \in Seq(Answers)
        BY ConcatProperties
      <3>2. Append(b, m) = b \o <<m>> /\ Append(a \o b, m) = (a \o b) \o <<m>>
        BY <1>2, <3>1, AppendIsConcat
      <3>3. <<m>> \in Seq(Answers)
        BY <1>2
      <3>4. (a \o b) \o <<m>> = a \o (b \o <<m>>)
        BY <3>3, ConcatAssociative
      <3> QED
        BY <3>1, <3>2, <3>4
    <2>3. CASE WriteEnded(s)
      <3>1. ses[s].msgQueue # <<>>
        BY <2>3 DEF WriteEnded, IsFor, ServerInv, WriteInv
      <3>2. /\ Tail(ses[s].msgQueue) \in Seq(Answers)
            /\ Tail(Append(ses[s].msgQueue, m)) = Append(Tail(ses[s].msgQueue), m)
        BY <1>4, <3>1, HeadTailProperties, HeadTailAppend
      <3>3. /\ Sent(s) = ses[s].out \o Tail(ses[s].msgQueue)
            /\ Sent(s)' = ses[s].out \o Append(Tail(ses[s].msgQueue), m)
        BY <1>12, <2>1, <2>3, <3>2, SentIs
      <3>4. /\ ses[s].out \o Tail(ses[s].msgQueue) \in Seq(Answers)
            /\ ses[s].out \o Append(Tail(ses[s].msgQueue), m)
               = Append(ses[s].out \o Tail(ses[s].msgQueue), m)
        BY <1>4, <2>2, <3>2, Zenon
      <3> QED
        BY <3>3, <3>4, Zenon
    <2>4. CASE ~WriteEnded(s)
      <3>1. /\ Sent(s) = ses[s].out \o ses[s].msgQueue
            /\ Sent(s)' = ses[s].out \o Append(ses[s].msgQueue, m)
        BY <1>12, <2>1, <2>4, SentIs
      <3>2. /\ ses[s].out \o ses[s].msgQueue \in Seq(Answers)
            /\ ses[s].out \o Append(ses[s].msgQueue, m)
               = Append(ses[s].out \o ses[s].msgQueue, m)
        BY <1>4, <2>2, Zenon
      <3> QED
        BY <3>1, <3>2, Zenon
    <2> QED
      BY <2>3, <2>4
  <1>16. OrderOf(s)'
    <2>1. /\ Increasing(Sent(s)) /\ Lined("post", s) /\ Lined("read", s)
          /\ Increasing(ses[s].inbox)
          /\ Staged(Numbers(Sent(s)), Carried("post", s), Carried("read", s),
                    Numbers(ses[s].inbox), ses[s].asked)
      BY <1>1 DEF OrderInv, OrderOf
    <2>2. \A k \in 1..Len(q) : ~IsFor(q[k], "post", s) /\ ~IsFor(q[k], "read", s)
      BY <1>10 DEF IsFor
    <2>3. IsFor(ios[1], "post", s)
      BY <1>1 DEF IsFor
    <2>4. /\ Lined("post", s)' /\ Carried("post", s)' \subseteq Carried("post", s)
          /\ m.n \in Carried("post", s) /\ Below({m.n}, Carried("post", s)')
      BY <1>1, <1>11, <2>1, <2>2, <2>3, CarriedQuiet
    <2>5. Lined("read", s)' /\ Carried("read", s)' \subseteq Carried("read", s)
      BY <1>1, <1>11, <2>1, <2>2, CarriedQuiet
    <2>6. Below(Numbers(Sent(s)), {m.n})
      BY <2>1, <2>4 DEF Staged, Below
    <2>7. Increasing(Sent(s)') /\ Numbers(Sent(s)') = Numbers(Sent(s)) \cup {m.n}
      BY <1>2, <1>15, <2>1, <2>6, IncreasingAppend
    <2>8. Staged(Numbers(Sent(s)'), Carried("post", s)', Carried("read", s)',
                 Numbers(ses[s].inbox), ses[s].asked)
      BY <2>1, <2>4, <2>5, <2>7, StagedSend
    <2> QED
      BY <1>12, <2>1, <2>4, <2>5, <2>7, <2>8 DEF OrderOf, SteadyIn
  <1> QED
    BY <1>14, <1>16 DEF OrderInv

(* A message leaves _msgQueue when it is written already.                  *)
LEMMA WriteDoneOrder ==
    ASSUME ServerInv, OrderInv, WriteDone, NEW s, s = ios[1].s
    PROVE  OrderInv'
  <1> DEFINE t == [ses[s] EXCEPT !.msgQueue = Tail(@)]
             f == WriteDataFails(s, t)
  <1>1. /\ TypeOK /\ ios # <<>> /\ ios[1].kind = "wrOk" /\ Head(ios) = ios[1]
        /\ s \in Sessions /\ 1 \in 1..Len(ios)
    BY RunningFacts DEF ServerInv, WriteDone
  <1>2. ses \in [Sessions -> SessionType] /\ ses[s] \in SessionType
    BY <1>1 DEF TypeOK
  <1>3. /\ ses[s].msgQueue # <<>>
        /\ \A k \in 1..Len(ios) : IsFor(ios[k], "wrOk", s) => k = 1
    BY <1>1 DEF ServerInv, WriteInv, IsFor
  <1>4. /\ t \in SessionType /\ t.out = ses[s].out /\ t.msgQueue = Tail(ses[s].msgQueue)
        /\ t.inbox = ses[s].inbox /\ t.asked = ses[s].asked
    <2>1. Tail(ses[s].msgQueue) \in Seq(Answers)
      BY <1>2, <1>3, HeadTailProperties DEF SessionType
    <2> QED
      BY <1>2, <2>1 DEF SessionType
  <1>5. \/ ses' = [ses EXCEPT ![s] = WriteData(t)] /\ ios' = Tail(ios) \o f
        \/ ses' = [ses EXCEPT ![s] = t] /\ ios' = Tail(ios)
    BY <1>1 DEF WriteDone
  <1>6. /\ WriteData(t).out = t.out /\ WriteData(t).msgQueue = t.msgQueue
        /\ WriteData(t).inbox = t.inbox /\ WriteData(t).asked = t.asked
    BY <1>4, SessionSteady
  <1>7. f \in Seq(Handlers) /\ \A k \in 1..Len(f) : f[k].kind = "wrErr"
    BY <1>1, <1>4, WriteDataFacts
  <1>8. Tail(ios) = Tail(ios) \o <<>> /\ <<>> \in Seq(Handlers)
    <2>1. Tail(ios) \in Seq(Handlers)
      BY <1>1, HeadTailProperties DEF TypeOK
    <2> QED
      BY <2>1, ConcatEmptySeq
  <1> HIDE DEF t, f
  <1>9. PICK q \in Seq(Handlers) :
            ios' = Tail(ios) \o q /\ \A k \in 1..Len(q) : q[k].kind = "wrErr"
    <2>1. CASE ios' = Tail(ios) \o f
      BY <1>7, <2>1
    <2>2. CASE ios' = Tail(ios)
      <3>1. ios' = Tail(ios) \o <<>> /\ \A k \in 1..Len(<<>>) : <<>>[k].kind = "wrErr"
        BY <1>8, <2>2
      <3> QED
        BY <1>8, <3>1
    <2> QED
      BY <1>5, <2>1, <2>2
  <1>10. Moves(1, q)
    BY <1>1, <1>9, Consumed
  <1>11. /\ ses'[s].out = ses[s].out /\ ses'[s].msgQueue = Tail(ses[s].msgQueue)
         /\ SteadyIn(s)
         /\ \A r \in Sessions : r # s => ses'[r] = ses[r]
    <2>1. PICK u : ses' = [ses EXCEPT ![s] = u] /\ (u = t \/ u = WriteData(t))
      BY <1>5
    <2>2. ses'[s] = u /\ \A r \in Sessions : r # s => ses'[r] = ses[r]
      BY <1>1, <1>2, <2>1
    <2> QED
      BY <1>4, <1>6, <2>1, <2>2 DEF SteadyIn
  <1>12. ASSUME NEW r \in Sessions, r # s PROVE OrderOf(r)'
    <2>1. \A k \in 1..Len(q) : q[k].s = r => q[k].kind \notin {"read", "post", "wrOk"}
      BY <1>9
    <2>2. SteadyOut(r) /\ SteadyIn(r)
      BY <1>11, <1>12 DEF SteadyOut, SteadyIn
    <2>3. ~IsFor(ios[1], "wrOk", r)
      BY <1>12 DEF IsFor
    <2> QED
      BY <1>1, <1>10, <2>1, <2>2, <2>3, OrderQuiet DEF OrderInv
  <1>13. Sent(s)' = Sent(s)
    <2>1. WriteEnded(s)
      BY <1>1 DEF WriteEnded, IsFor
    <2>2. \A k \in 1..Len(q) : ~IsFor(q[k], "wrOk", s)
      BY <1>9 DEF IsFor
    <2>3. \A k \in 1..Len(ios') : IsFor(ios'[k], "wrOk", s) =>
              k + 1 \in 1..Len(ios) /\ ios'[k] = ios[k + 1] /\ k \in Nat /\ 1 \in {0, 1}
      BY <1>1, <1>10, <2>2, OldHandlers
    <2>4. ASSUME NEW k \in 1..Len(ios'), IsFor(ios'[k], "wrOk", s) PROVE FALSE
      <3>1. k + 1 \in 1..Len(ios) /\ IsFor(ios[k + 1], "wrOk", s) /\ k \in 1..Len(ios')
        BY <2>3, <2>4
      <3>2. k + 1 = 1
        BY <1>3, <3>1
      <3> QED
        BY <3>2
    <2>5. ~WriteEnded(s)'
      BY <2>4 DEF WriteEnded
    <2> QED
      BY <1>11, <2>1, <2>5, SentIs
  <1>14. OrderOf(s)'
    <2>1. \A k \in 1..Len(q) : q[k].s = s => q[k].kind \notin {"read", "post"}
      BY <1>9
    <2> QED
      BY <1>1, <1>10, <1>11, <1>13, <2>1, OrderSame DEF OrderInv
  <1> QED
    BY <1>12, <1>14 DEF OrderInv

(* A handler of session s that an operation leaves behind.                 *)
LEMMA LeftBehind ==
    ASSUME TypeOK, NEW h \in Handlers, ios' = Append(ios, h)
    PROVE  <<h>> \in Seq(Handlers) /\ Len(<<h>>) = 1 /\ <<h>>[1] = h /\ Moves(0, <<h>>)
  <1>1. <<h>> \in Seq(Handlers) /\ Len(<<h>>) = 1 /\ <<h>>[1] = h
    OBVIOUS
  <1>2. ios' = ios \o <<h>>
    BY AppendIsConcat DEF TypeOK
  <1> QED
    BY <1>1, <1>2, Extended

(* What was written stays in front of what is still in _msgQueue.          *)
LEMMA WriteCompletesOrder ==
    ASSUME ServerInv, OrderInv, NEW s \in Sessions, WriteCompletes(s)
    PROVE  OrderInv'
  <1> DEFINE h == Handler("wrOk", s, None)
             x == Head(ses[s].msgQueue)
  <1>1. /\ TypeOK /\ ses \in [Sessions -> SessionType] /\ ses[s] \in SessionType
        /\ ses[s].wr /\ ses[s].msgQueue # <<>>
    BY DEF ServerInv, TypeOK, WriteInv, WriteCompletes
  <1>2. ses[s].msgQueue \in Seq(Answers) /\ ses[s].out \in Seq(Answers)
    BY <1>1 DEF SessionType
  <1>3. x \in Answers /\ Tail(ses[s].msgQueue) \in Seq(Answers)
    BY <1>1, <1>2, HeadTailProperties
  <1>4. h \in Handlers /\ h.kind = "wrOk" /\ h.s = s
    BY DEF Handler, Handlers
  <1>5. ios' = Append(ios, h) /\ ses' = [ses EXCEPT ![s].wr = FALSE, ![s].out = Append(@, x)]
    BY DEF WriteCompletes
  <1>6. /\ ses'[s].out = Append(ses[s].out, x) /\ ses'[s].msgQueue = ses[s].msgQueue
        /\ SteadyIn(s)
        /\ \A r \in Sessions : r # s => ses'[r] = ses[r]
    BY <1>1, <1>5 DEF SessionType, SteadyIn
  <1> HIDE DEF h, x
  <1>7. <<h>> \in Seq(Handlers) /\ Len(<<h>>) = 1 /\ <<h>>[1] = h /\ Moves(0, <<h>>)
    BY <1>1, <1>4, <1>5, LeftBehind
  <1>8. ASSUME NEW r \in Sessions, r # s PROVE OrderOf(r)'
    <2>1. \A k \in 1..Len(<<h>>) : <<h>>[k].s = r =>
              <<h>>[k].kind \notin {"read", "post", "wrOk"}
      BY <1>4, <1>7, <1>8
    <2>2. SteadyOut(r) /\ SteadyIn(r)
      BY <1>6, <1>8 DEF SteadyOut, SteadyIn
    <2> QED
      BY <1>1, <1>7, <2>1, <2>2, OrderQuiet DEF OrderInv
  <1>9. Sent(s)' = Sent(s)
    <2>1. ~WriteEnded(s)
      BY <1>1 DEF WriteEnded, IsFor, ServerInv, WriteInv
    <2>2. WriteEnded(s)'
      <3>1. /\ Len(ios) + 1 \in 1..Len(ios') /\ ios'[Len(ios) + 1] = h
        BY <1>1, <1>4, <1>5, AppendProperties DEF TypeOK
      <3> QED
        BY <1>4, <3>1 DEF WriteEnded, IsFor
    <2>3. /\ Sent(s) = ses[s].out \o ses[s].msgQueue
          /\ Sent(s)' = Append(ses[s].out, x) \o Tail(ses[s].msgQueue)
      BY <1>6, <2>1, <2>2, SentIs
    <2>4. /\ Append(ses[s].out, x) = ses[s].out \o <<x>>
          /\ (ses[s].out \o <<x>>) \o Tail(ses[s].msgQueue)
             = ses[s].out \o (<<x>> \o Tail(ses[s].msgQueue))
      <3>1. ASSUME NEW a \in Seq(Answers), NEW y \in Answers, NEW b \in Seq(Answers)
            PROVE  Append(a, y) = a \o <<y>> /\ (a \o <<y>>) \o b = a \o (<<y>> \o b)
        <4>1. <<y>> \in Seq(Answers)
          OBVIOUS
        <4>2. Append(a, y) = a \o <<y>>
          BY AppendIsConcat
        <4>3. (a \o <<y>>) \o b = a \o (<<y>> \o b)
          BY <4>1, ConcatAssociative
        <4> QED
          BY <4>2, <4>3
      <3> QED
        BY <1>2, <1>3, <3>1
    <2>5. <<x>> \o Tail(ses[s].msgQueue) = ses[s].msgQueue
      BY <1>1, <1>2, ConcatSimplifications DEF x
    <2> QED
      BY <2>3, <2>4, <2>5, Zenon
  <1>10. OrderOf(s)'
    <2>1. \A k \in 1..Len(<<h>>) : <<h>>[k].s = s => <<h>>[k].kind \notin {"read", "post"}
      BY <1>4, <1>7
    <2> QED
      BY <1>1, <1>6, <1>7, <1>9, <2>1, OrderSame DEF OrderInv
  <1> QED
    BY <1>8, <1>10 DEF OrderInv

(* Requests are read in the order in which they came.                      *)
LEMMA ReadCompletesOrder ==
    ASSUME ServerInv, OrderInv, NEW s \in Sessions, ReadCompletes(s)
    PROVE  OrderInv'
  <1> DEFINE x == Head(ses[s].inbox)
             h == Handler("read", s, x)
             n == x.n
  <1>1. /\ TypeOK /\ ses \in [Sessions -> SessionType] /\ ses[s] \in SessionType
        /\ ses[s].inbox # <<>>
    BY DEF ServerInv, TypeOK, ReadCompletes
  <1>2. ses[s].inbox \in Seq(Requests)
    BY <1>1 DEF SessionType
  <1>3. x \in Requests
    BY <1>1, <1>2, HeadTailProperties
  <1>4. h \in Handlers /\ h.kind = "read" /\ h.s = s /\ h.arg.n = n
    BY <1>3 DEF Handler, Handlers
  <1>5. ios' = Append(ios, h) /\ ses' = [ses EXCEPT ![s].rd = FALSE, ![s].inbox = Tail(@)]
    BY DEF ReadCompletes
  <1>6. /\ SteadyOut(s) /\ ses'[s].inbox = Tail(ses[s].inbox) /\ ses'[s].asked = ses[s].asked
        /\ \A r \in Sessions : r # s => ses'[r] = ses[r]
    BY <1>1, <1>5 DEF SessionType, SteadyOut
  <1>7. <<h>> \in Seq(Handlers) /\ Len(<<h>>) = 1 /\ <<h>>[1] = h /\ Moves(0, <<h>>)
    <2> HIDE DEF h
    <2> QED
      BY <1>1, <1>4, <1>5, LeftBehind
  <1> HIDE DEF h
  <1>8. \A r : \A k \in 1..Len(<<h>>) : ~IsFor(<<h>>[k], "wrOk", r) /\ ~IsFor(<<h>>[k], "post", r)
    BY <1>4, <1>7 DEF IsFor
  <1>9. ASSUME NEW r \in Sessions, r # s PROVE OrderOf(r)'
    <2>1. \A k \in 1..Len(<<h>>) : <<h>>[k].s = r =>
              <<h>>[k].kind \notin {"read", "post", "wrOk"}
      BY <1>4, <1>7, <1>9
    <2>2. SteadyOut(r) /\ SteadyIn(r)
      BY <1>6, <1>9 DEF SteadyOut, SteadyIn
    <2> QED
      BY <1>1, <1>7, <2>1, <2>2, OrderQuiet DEF OrderInv
  <1>10. OrderOf(s)'
    <2>1. /\ Increasing(Sent(s)) /\ Lined("post", s) /\ Lined("read", s)
          /\ Increasing(ses[s].inbox)
          /\ Staged(Numbers(Sent(s)), Carried("post", s), Carried("read", s),
                    Numbers(ses[s].inbox), ses[s].asked)
      BY DEF OrderInv, OrderOf
    <2>2. Sent(s)' = Sent(s)
      BY <1>1, <1>6, <1>7, <1>8, SentKept
    <2>3. /\ Increasing(Tail(ses[s].inbox))
          /\ Numbers(Tail(ses[s].inbox)) \subseteq Numbers(ses[s].inbox)
          /\ n \in Numbers(ses[s].inbox) /\ Below({n}, Numbers(Tail(ses[s].inbox)))
      BY <1>1, <1>2, <2>1, IncreasingTail
    <2> HIDE DEF n
    <2>4. Lined("post", s)' /\ Carried("post", s)' \subseteq Carried("post", s)
      BY <1>1, <1>7, <1>8, <2>1, CarriedQuiet
    <2>5. Below(Carried("read", s), {n})
      BY <2>1, <2>3 DEF Staged, Below
    <2>6. Brings(<<h>>, "read", s, n)
      BY <1>4, <1>7 DEF Brings
    <2>7. Lined("read", s)' /\ Carried("read", s)' \subseteq Carried("read", s) \cup {n}
      BY <1>1, <1>7, <2>1, <2>5, <2>6, CarriedNew
    <2>8. Staged(Numbers(Sent(s)), Carried("post", s)', Carried("read", s)',
                 Numbers(Tail(ses[s].inbox)), ses[s].asked)
      BY <2>1, <2>3, <2>4, <2>7, StagedRead
    <2> QED
      BY <1>6, <2>1, <2>2, <2>3, <2>4, <2>7, <2>8 DEF OrderOf
  <1> QED
    BY <1>9, <1>10 DEF OrderInv

(* Requests are numbered as they are sent.                                 *)
LEMMA ClientAsksOrder ==
    ASSUME ServerInv, OrderInv, NEW s \in Sessions, NEW w \in Whats, ClientAsks(s, w)
    PROVE  OrderInv'
  <1> DEFINE m == ses[s].asked
             x == [n |-> m + 1, what |-> w]
  <1>1. /\ TypeOK /\ ses \in [Sessions -> SessionType] /\ ses[s] \in SessionType
        /\ m \in Nat /\ m + 1 \in 1..MaxAsks /\ ses[s].inbox \in Seq(Requests)
    <2>1. TypeOK /\ ses \in [Sessions -> SessionType] /\ ses[s] \in SessionType /\ m < MaxAsks
      BY DEF ServerInv, TypeOK, ClientAsks
    <2> QED
      BY <2>1, ServerAssumption DEF SessionType
  <1>2. x \in Requests /\ x.n = m + 1
    BY <1>1 DEF Requests
  <1>3. ios' = ios /\ ses' = [ses EXCEPT ![s].asked = @ + 1, ![s].inbox = Append(@, x)]
    BY DEF ClientAsks
  <1> HIDE DEF x
  <1>4. /\ SteadyOut(s) /\ ses'[s].inbox = Append(ses[s].inbox, x) /\ ses'[s].asked = m + 1
        /\ \A r \in Sessions : r # s => ses'[r] = ses[r]
    BY <1>1, <1>3 DEF SessionType, SteadyOut
  <1>5. ios' = ios \o <<>> /\ <<>> \in Seq(Handlers)
    BY <1>1, <1>3, ConcatEmptySeq DEF TypeOK
  <1>6. Moves(0, <<>>)
    BY <1>1, <1>5, Extended
  <1>7. \A r, kind : \A k \in 1..Len(<<>>) : ~IsFor(<<>>[k], kind, r)
    OBVIOUS
  <1>8. ASSUME NEW r \in Sessions, r # s PROVE OrderOf(r)'
    <2>1. \A k \in 1..Len(<<>>) : <<>>[k].s = r => <<>>[k].kind \notin {"read", "post", "wrOk"}
      OBVIOUS
    <2>2. SteadyOut(r) /\ SteadyIn(r)
      BY <1>4, <1>8 DEF SteadyOut, SteadyIn
    <2> QED
      BY <1>1, <1>6, <2>1, <2>2, OrderQuiet DEF OrderInv
  <1> HIDE DEF m
  <1>9. OrderOf(s)'
    <2>1. /\ Increasing(Sent(s)) /\ Lined("post", s) /\ Lined("read", s)
          /\ Increasing(ses[s].inbox)
          /\ Staged(Numbers(Sent(s)), Carried("post", s), Carried("read", s),
                    Numbers(ses[s].inbox), m)
      BY DEF OrderInv, OrderOf, m
    <2>2. Sent(s)' = Sent(s)
      BY <1>1, <1>4, <1>6, <1>7, SentKept
    <2>3. /\ Lined("post", s)' /\ Carried("post", s)' \subseteq Carried("post", s)
          /\ Lined("read", s)' /\ Carried("read", s)' \subseteq Carried("read", s)
      BY <1>1, <1>6, <1>7, <2>1, CarriedQuiet
    <2>4. Below(Numbers(ses[s].inbox), {x.n})
      <3>1. \A a \in Numbers(ses[s].inbox) : a \in 1..m
        BY <2>1 DEF Staged
      <3> QED
        BY <1>1, <1>2, <3>1 DEF Below
    <2>5. /\ Increasing(Append(ses[s].inbox, x))
          /\ Numbers(Append(ses[s].inbox, x)) \subseteq Numbers(ses[s].inbox) \cup {m + 1}
      BY <1>1, <1>2, <2>1, <2>4, IncreasingAppend
    <2>6. Staged(Numbers(Sent(s)), Carried("post", s)', Carried("read", s)',
                 Numbers(Append(ses[s].inbox, x)), m + 1)
      BY <1>1, <2>1, <2>3, <2>5, StagedAsk
    <2> QED
      BY <1>4, <2>1, <2>2, <2>3, <2>5, <2>6 DEF OrderOf
  <1> QED
    BY <1>8, <1>9 DEF OrderInv

LEMMA OrderInit == Init => OrderInv
  <1> SUFFICES ASSUME Init, NEW s \in Sessions PROVE OrderOf(s)
    BY DEF OrderInv
  <1>1. ServerInv
    BY InitServer
  <1>2. ios = <<>> /\ Len(ios) = 0 /\ ses[s] = NewSession
    BY DEF Init
  <1>3. ses[s].inbox = <<>> /\ ses[s].out = <<>> /\ ses[s].msgQueue = <<>> /\ ses[s].asked = 0
    BY <1>2 DEF NewSession
  <1>4. ~WriteEnded(s)
    BY <1>2 DEF WriteEnded
  <1>5. Sent(s) = <<>>
    <2>1. <<>> \in Seq(Answers) /\ <<>> \o <<>> = <<>>
      BY ConcatEmptySeq
    <2> QED
      BY <1>3, <1>4, <2>1, SentIs
  <1>6. /\ Increasing(<<>>) /\ Numbers(<<>>) = {}
        /\ \A kind : Lined(kind, s) /\ Carried(kind, s) = {}
    BY <1>2 DEF Increasing, Numbers, Lined, Carried
  <1>7. Staged({}, {}, {}, {}, 0)
    BY DEF Staged, Below
  <1> QED
    BY <1>3, <1>5, <1>6, <1>7 DEF OrderOf

LEMMA OrderStep == ServerInv /\ OrderInv /\ [Next]_vars => OrderInv'
  <1> SUFFICES ASSUME ServerInv, OrderInv, [Next]_vars PROVE OrderInv'
    OBVIOUS
  <1>1. CASE NetThread
    <2>1. CASE QueueRspMsg
      BY <2>1, QueueOrder
    <2>2. CASE WriteDone
      BY <2>2, WriteDoneOrder
    <2> QED
      BY <1>1, <2>1, <2>2, AcceptOrder, ClosingOrder, RequestOrder DEF NetThread
  <1>2. CASE StopAcceptor \/ StopSessions \/ ClientConnects
    BY <1>2, ClosingOrder, OtherOrder
  <1>3. CASE (\E a \in Ads : Cache(a)) \/ Publish
    BY <1>3, OtherOrder
  <1>4. ASSUME NEW s \in Sessions,
               \/ \E w \in Whats : ClientAsks(s, w)
               \/ ReadCompletes(s) \/ WriteCompletes(s) \/ ClientGone(s)
        PROVE  OrderInv'
    BY <1>4, ClientAsksOrder, ReadCompletesOrder, WriteCompletesOrder, ClosingOrder
  <1>5. CASE UNCHANGED vars
    BY <1>5 DEF vars, OrderInv, OrderOf, Sent, Ready, Lined, Carried
  <1> QED
    BY <1>1, <1>2, <1>3, <1>4, <1>5 DEF Next

(* Answers reach a client in the order of its requests, at most one to     *)
(* each, although handleRequest posts them, queueRspMsg queues them and    *)
(* writeData takes them from the front, each in a handler of its own.      *)
THEOREM AnswersStayInOrder == Spec => []AnswersInOrder
  <1>1. ServerInv /\ OrderInv => AnswersInOrder
    <2> SUFFICES ASSUME OrderInv, NEW s \in Sessions
                 PROVE  /\ \A i, j \in 1..Len(Sent(s)) : i < j => Sent(s)[i].n < Sent(s)[j].n
                        /\ \A k \in Ready(s) : ios[k].kind = "post" =>
                              /\ \A i \in 1..Len(Sent(s)) : Sent(s)[i].n < ios[k].arg.n
                              /\ \A j \in Ready(s) : ios[j].kind = "post" /\ j < k =>
                                    ios[j].arg.n < ios[k].arg.n
      BY DEF AnswersInOrder
    <2>1. /\ Increasing(Sent(s)) /\ Lined("post", s)
          /\ Below(Numbers(Sent(s)), Carried("post", s))
      BY DEF OrderInv, OrderOf, Staged
    <2>2. \A k \in Ready(s) : ios[k].kind = "post" =>
              /\ k \in 1..Len(ios) /\ IsFor(ios[k], "post", s)
              /\ ios[k].arg.n \in Carried("post", s)
      BY DEF Ready, IsFor, Carried
    <2>3. \A i \in 1..Len(Sent(s)) : Sent(s)[i].n \in Numbers(Sent(s))
      BY DEF Numbers
    <2> QED
      BY <2>1, <2>2, <2>3 DEF Increasing, Lined, Below
  <1>2. Init => OrderInv
    BY OrderInit
  <1>3. ServerInv /\ OrderInv /\ [Next]_vars => OrderInv'
    BY OrderStep
  <1> QED
    BY <1>1, <1>2, <1>3, ServerInvariant, PTL DEF Spec
==============================================================================
