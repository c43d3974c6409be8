---------------------------- MODULE ShutdownProofs ----------------------------
(***************************************************************************)
(* Proofs about Shutdown for any number of requests, files and network     *)
(* failures, and wherever the three threads are when endBusiness is        *)
(* called.                                                                 *)
(***************************************************************************)
EXTENDS Shutdown, TcpClientProofs, TLAPS

(* The types of what Shutdown adds to the client.                          *)
ThreadsOK ==
    /\ app \in AppType
    /\ isEndBusiness \in BOOLEAN /\ netStopped \in BOOLEAN /\ bizStopped \in BOOLEAN
    /\ net \in NetType
    /\ biz \in BizType

(* The net thread's two steps around the test of _afterNetError.           *)
SplitHandler == NetReadFailed \/ NetWriteFailed \/ CallAfterNetError

-----------------------------------------------------------------------------
(* The steps of the client that Shutdown is made of.                       *)

(* Whatever the threads do to the client is a step of TcpClient, but for   *)
(* the error handler, which stop() can come into the middle of.            *)
LEMMA StepsOfClient ==
    ASSUME ShutdownNext
    PROVE  [Next]_vars \/ SplitHandler
  <1>1. CASE BizThread
    BY <1>1 DEF BizThread, BizConnects, BizWakes, RunHandler, BizTests, BizCalls, BizGets,
       BizDownloaded, BizExits, Next
  <1>2. CASE NetThread
    BY <1>2 DEF NetThread, NetHandler, NetExits, SplitHandler, Next, Handlers
  <1>3. CASE AppThread
    BY <1>3 DEF AppThread, EndBusiness, StopClient, StopNet, StopBiz, JoinThreads, Next
  <1>4. CASE Environment
    BY <1>4 DEF Next
  <1> QED
    BY <1>1, <1>2, <1>3, <1>4 DEF ShutdownNext

(* A handler that failed takes one error away before it closes the socket. *)
LEMMA ErrorTaken ==
    ASSUME NEW i \in IoType, i.rdErr > 0 \/ i.wrErr > 0,
           NEW j, \/ i.rdErr > 0 /\ j = [i EXCEPT !.rdErr = @ - 1]
                  \/ i.wrErr > 0 /\ j = [i EXCEPT !.wrErr = @ - 1]
    PROVE  j \in IoType /\ Writes(j) <= Writes(i) /\ j.got = i.got /\ j.inbox = i.inbox
  BY DEF IoType, Writes

(* The split handler keeps what the client's own steps keep: types, at     *)
(* most one write, and each promise set once.  It receives no message.     *)
LEMMA SplitStep ==
    ASSUME PromiseInv, SplitHandler
    PROVE  /\ PromiseInv'
           /\ io'.got \cup io'.inbox \subseteq io.got \cup io.inbox
           /\ \/ result' = result
              \/ result' = [r \in Reqs |-> IF r \in lstRequestCtx THEN NetError ELSE result[r]]
  <1> USE SessionAssumption, ClientAssumption
  <1>t. TypeInv /\ io \in IoType /\ Writes(io) \in Nat
    BY WritesType DEF PromiseInv, TypeInv, TypeOK
  <1>1. CASE NetReadFailed \/ NetWriteFailed
    <2>1. PICK j : /\ \/ io.rdErr > 0 /\ j = [io EXCEPT !.rdErr = @ - 1]
                      \/ io.wrErr > 0 /\ j = [io EXCEPT !.wrErr = @ - 1]
                   /\ NetErrorTested(j)
      BY <1>1 DEF NetReadFailed, NetWriteFailed
    <2>2. j \in IoType /\ Writes(j) <= Writes(io) /\ j.got = io.got /\ Writes(j) \in Nat
      BY <1>t, <2>1, ErrorTaken, WritesType
    <2>3. /\ io' = Close(j) /\ lstRequestCtx' = {} /\ issued' = issued /\ msgQueue' = msgQueue
          /\ result' = [r \in Reqs |-> IF r \in lstRequestCtx THEN NetError ELSE result[r]]
          /\ posted' = posted /\ isConnected' = FALSE /\ UNCHANGED clientVars
      BY <2>1 DEF NetErrorTested, handleNetError
    <2>4. /\ io' \in IoType /\ Writes(io') = Writes(j) /\ io'.got = io.got /\ io'.inbox = {}
      BY <2>2, <2>3, CloseFacts
    <2>5. TypeOK'
      BY <1>t, <2>3, <2>4 DEF TypeInv, TypeOK, clientVars
    <2>6. SingleWrite'
      BY <1>t, <2>2, <2>3, <2>4 DEF TypeInv, SingleWrite
    <2>7. MaxReq \in Nat /\ issued \in 0..MaxReq
      BY <1>t DEF TypeInv, TypeOK
    <2>8. PromiseOnce' /\ Fresh'
      <3>1. \A r \in 1..issued : r \in lstRequestCtx <=> result[r] = Pending
        BY DEF PromiseInv, PromiseOnce
      <3>2. \A r \in Reqs : r > issued => result[r] = Pending
        BY DEF PromiseInv, Fresh
      <3>3. lstRequestCtx \subseteq 1..issued
        BY <1>t DEF TypeInv, TypeOK
      <3> QED
        BY <2>3, <2>7, <3>1, <3>2, <3>3 DEF PromiseOnce, Fresh, Reqs
    <2> QED
      BY <2>3, <2>4, <2>5, <2>6, <2>8 DEF PromiseInv, TypeInv
  <1>2. CASE CallAfterNetError
    <2>1. /\ UNCHANGED <<posted, issued, lstRequestCtx, result, msgQueue, isConnected>>
          /\ UNCHANGED <<up, afterNetError, reconnectTimer, stopping, failures>>
          /\ \/ reconnectInterval' = NextInterval /\ io' = AsyncConnect(io)
             \/ UNCHANGED <<reconnectInterval, io>>
      BY <1>2 DEF CallAfterNetError
    <2>2. /\ io' \in IoType /\ Writes(io') = Writes(io)
          /\ io'.got = io.got /\ io'.inbox = io.inbox
      BY <1>t, <2>1, AsyncConnectFacts
    <2>3. reconnectInterval' \in 1..(2 * ReconnectMax)
      BY <1>t, <2>1, NextIntervalType DEF TypeInv, TypeOK
    <2>4. TypeOK'
      BY <1>t, <2>1, <2>2, <2>3 DEF TypeInv, TypeOK
    <2>5. SingleWrite'
      BY <1>t, <2>1, <2>2, KeepsWrites
    <2>6. PromiseOnce' /\ Fresh'
      BY <2>1 DEF PromiseInv, PromiseOnce, Fresh
    <2> QED
      BY <2>1, <2>2, <2>4, <2>5, <2>6 DEF PromiseInv, TypeInv
  <1> QED
    BY <1>1, <1>2 DEF SplitHandler

(* What all steps of the three threads keep of the client.                 *)
LEMMA ClientKept ==
    ASSUME PromiseInv, [ShutdownNext]_shutdownVars
    PROVE  PromiseInv'
  <1>1. CASE UNCHANGED shutdownVars
    BY <1>1, PromiseStep DEF shutdownVars
  <1> QED
    BY <1>1, StepsOfClient, SplitStep, PromiseStep

-----------------------------------------------------------------------------
(* The threads.                                                            *)

(* The business thread's place has the fields it was given, and its type.  *)
LEMMA BizAtType ==
    ASSUME NEW place \in {"connect", "sleep", "idle", "test", "call", "get", "http", "exited"},
           NEW leg \in {"policy", "list", "files"}, NEW n \in 0..MaxFiles
    PROVE  BizAt(place, leg, n) \in BizType
  BY DEF BizAt, BizType

(* downloadAds never asks for more files than it has to.                   *)
LEMMA NextFileType == ASSUME NEW b \in BizType PROVE NextFile(b) \in BizType
  <1>1. b.files \in 0..MaxFiles /\ MaxFiles \in Nat
    BY ShutdownAssumption DEF BizType
  <1>2. IdleBiz \in BizType
    BY <1>1, BizAtType DEF IdleBiz
  <1>3. CASE b.files > 1
    <2> DEFINE n == b.files - 1
    <2>1. n \in 0..MaxFiles
      BY <1>1, <1>3
    <2> HIDE DEF n
    <2>2. [b EXCEPT !.at = "call", !.files = n] \in BizType
      BY <2>1 DEF BizType
    <2> QED
      BY <1>3, <2>2 DEF NextFile, n
  <1> QED
    BY <1>2, <1>3 DEF NextFile

(* Every step of the three threads keeps their types.                      *)
LEMMA ThreadsStep ==
    ASSUME ThreadsOK, [ShutdownNext]_shutdownVars
    PROVE  ThreadsOK'
  <1>u. MaxFiles \in Nat /\ 0 \in 0..MaxFiles /\ biz \in BizType
    BY ShutdownAssumption DEF ThreadsOK
  <1>1. CASE BizThread
    <2>1. UNCHANGED <<app, isEndBusiness, netStopped, bizStopped, net>>
      BY <1>1 DEF BizThread, BizConnects, BizWakes, RunHandler, BizTests, BizCalls, BizGets,
         BizDownloaded, BizExits
    <2>2. IdleBiz \in BizType /\ NextFile(biz) \in BizType
      BY <1>u, BizAtType, NextFileType DEF IdleBiz
    <2>3. \A place \in {"call", "get", "http", "exited"} : [biz EXCEPT !.at = place] \in BizType
      BY <1>u DEF BizType
    <2>4. biz' \in BizType
      <3>1. CASE BizConnects \/ BizWakes \/ RunHandler
        BY <1>u, <3>1, BizAtType DEF BizConnects, BizWakes, RunHandler
      <3>2. CASE BizTests
        BY <2>2, <2>3, <3>2, BizAtType DEF BizTests
      <3>3. CASE BizCalls \/ BizDownloaded \/ BizExits
        BY <2>2, <2>3, <3>3 DEF BizCalls, BizDownloaded, BizExits
      <3>4. CASE BizGets
        BY <1>u, <2>2, <2>3, <3>4, BizAtType DEF BizGets
      <3> QED
        BY <1>1, <3>1, <3>2, <3>3, <3>4 DEF BizThread
    <2> QED
      BY <2>1, <2>4 DEF ThreadsOK
  <1>2. CASE NetThread
    <2>1. UNCHANGED <<app, isEndBusiness, netStopped, bizStopped, biz>>
      BY <1>2 DEF NetThread, NetHandler, NetReadFailed, NetWriteFailed, NetErrorTested,
         CallAfterNetError, NetExits, threads
    <2>2. net' \in NetType
      BY <1>2 DEF ThreadsOK, NetThread, NetHandler, NetReadFailed, NetWriteFailed, NetErrorTested,
         CallAfterNetError, NetExits, threads, NetType
    <2> QED
      BY <2>1, <2>2 DEF ThreadsOK
  <1>3. CASE AppThread
    BY <1>3 DEF AppThread, EndBusiness, StopClient, StopNet, StopBiz, JoinThreads, ThreadsOK, AppType
  <1>4. CASE UNCHANGED threads
    BY <1>4 DEF threads, ThreadsOK
  <1> QED
    BY <1>1, <1>2, <1>3, <1>4 DEF ShutdownNext, shutdownVars

LEMMA ThreadsInit == ShutdownInit => ThreadsOK
  <1> SUFFICES ASSUME ShutdownInit PROVE ThreadsOK
    OBVIOUS
  <1>1. 0 \in 0..MaxFiles
    BY ShutdownAssumption
  <1>2. biz \in BizType
    BY <1>1, BizAtType DEF ShutdownInit, IdleBiz
  <1> QED
    BY <1>2 DEF ShutdownInit, ThreadsOK, AppType, NetType

-----------------------------------------------------------------------------
(* The theorems.                                                           *)

(* Stopping the client in the middle of an error handler, from another     *)
(* thread, disturbs neither the types of its state nor its queue.          *)
THEOREM ShutdownTypes == ShutdownSpec => []ShutdownTypeOK
  <1>1. ShutdownInit => PromiseInv /\ ThreadsOK
    BY AnswerInit, ThreadsInit DEF ShutdownInit, AnswerInv
  <1>2. PromiseInv /\ ThreadsOK /\ [ShutdownNext]_shutdownVars => (PromiseInv /\ ThreadsOK)'
    BY ClientKept, ThreadsStep
  <1>3. PromiseInv /\ ThreadsOK => ShutdownTypeOK
    BY DEF PromiseInv, TypeInv, ThreadsOK, ShutdownTypeOK
  <1> QED
    BY <1>1, <1>2, <1>3, PTL DEF ShutdownSpec

(* No promise is set twice and none of an issued request is lost while the *)
(* business ends.                                                          *)
THEOREM PromisesSurviveShutdown == ShutdownSpec => []PromiseOnce
  <1>1. ShutdownInit => PromiseInv
    BY AnswerInit DEF ShutdownInit, AnswerInv
  <1>2. PromiseInv /\ [ShutdownNext]_shutdownVars => PromiseInv'
    BY ClientKept
  <1>3. PromiseInv => PromiseOnce
    BY DEF PromiseInv
  <1> QED
    BY <1>1, <1>2, <1>3, PTL DEF ShutdownSpec

(* A handler of the business thread that is still waiting when the         *)
(* business ends gets its own answer or a network error, as long as ids    *)
(* identify requests.                                                      *)
THEOREM AnswersStayOwn == IdsAreDistinct => (ShutdownSpec => []OwnAnswer)
  <1> SUFFICES ASSUME IdsAreDistinct PROVE ShutdownSpec => []OwnAnswer
    OBVIOUS
  <1>1. ShutdownInit => AnswerInv
    BY AnswerInit DEF ShutdownInit
  <1>2. AnswerInv /\ [ShutdownNext]_shutdownVars => AnswerInv'
    <2> SUFFICES ASSUME AnswerInv, [ShutdownNext]_shutdownVars PROVE AnswerInv'
      OBVIOUS
    <2>1. CASE [Next]_vars
      BY <2>1, AnswerStep
    <2>2. CASE SplitHandler
      <3>1. /\ PromiseInv'
            /\ io'.got \cup io'.inbox \subseteq io.got \cup io.inbox
            /\ \/ result' = result
               \/ result' = [r \in Reqs |-> IF r \in lstRequestCtx THEN NetError ELSE result[r]]
        BY <2>2, SplitStep DEF AnswerInv
      <3>2. OwnAnswer'
        BY <3>1 DEF AnswerInv, OwnAnswer
      <3>3. MessagesGenuine'
        BY <3>1 DEF AnswerInv, MessagesGenuine, Genuine
      <3> QED
        BY <3>1, <3>2, <3>3 DEF AnswerInv
    <2> QED
      BY <2>1, <2>2, StepsOfClient DEF shutdownVars
  <1>3. AnswerInv => OwnAnswer
    BY DEF AnswerInv
  <1> QED
    BY <1>1, <1>2, <1>3, PTL DEF ShutdownSpec
==============================================================================
