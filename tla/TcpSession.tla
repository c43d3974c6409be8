----------------------------- MODULE TcpSession -----------------------------
(***************************************************************************)
(* TcpSession.cpp: one TCP connection, used as a request/response channel. *)
(*                                                                         *)
(* Three kinds of actors touch a session:                                  *)
(*   - the caller (the business thread), which calls request() and blocks  *)
(*     in future::get();                                                   *)
(*   - the net thread, which runs the handlers of _iosNet one at a time;   *)
(*   - the thread that calls stopSession().                                *)
(*                                                                         *)
(* boost.asio is not in the repository and is modelled from its use: an    *)
(* operation that was started ends exactly once, successfully or with an   *)
(* error, and its handler runs later on the net thread; closing a socket   *)
(* ends all its operations with operation_aborted; an operation on a       *)
(* socket that is not connected ends with an error.  The handlers of       *)
(* operations that have ended run in any order.                            *)
(*                                                                         *)
(* A request is its number in the order of the posts to _iosNet.  The      *)
(* posted lambdas run in that order, so request r takes the r-th value of  *)
(* _msgID, and _lstRequestCtx, to which each lambda appends, is in         *)
(* increasing order of request number: a set of requests represents it.    *)
(***************************************************************************)
EXTENDS Integers, Sequences, FiniteSets, FiniteSetsExt

CONSTANTS MaxReq,          \* bound on the number of requests
          MaxOutstanding,  \* callers that may be blocked at the same time
          IdMod,           \* _msgID is a uint32_t: 2^32 in the code
          NotifyIds,       \* ids the peer uses in messages of its own
          Pending, NetError

Reqs == 1..MaxReq
Ids  == 0..(IdMod - 1)

ASSUME SessionAssumption ==
    /\ MaxReq \in Nat
    /\ MaxOutstanding \in Nat
    /\ IdMod \in Nat \ {0}
    /\ NotifyIds \subseteq Ids
    /\ Pending \notin 0..MaxReq /\ NetError \notin 0..MaxReq /\ Pending # NetError

VARIABLES posted,         \* number of calls of request() so far
          issued,         \* number of posted lambdas that have run
          lstRequestCtx,  \* _lstRequestCtx: requests without a response
          result,         \* result[r]: value of the promise of request r
          msgQueue,       \* _msgQueue: requests to write, the first in progress
          isConnected,    \* _isConnected
          io              \* the socket and its operations, see IoType

sessionVars == <<posted, issued, lstRequestCtx, result, msgQueue, isConnected, io>>

(* The id that request r carries (_msgID starts at 1 and wraps).           *)
Id(r) == r % IdMod

(* A message from the peer: the answer to request ans, or, when ans is 0,  *)
(* a message of the peer's own; ok says whether its body parses.           *)
Messages == [id : Ids, ans : 0..MaxReq, ok : BOOLEAN]

IoType ==
    [sock    : {"closed", "open", "connecting", "connected", "broken"},
     rd      : Nat,              \* reads in progress
     rdErr   : Nat,              \* reads that failed, handler not yet run
     got     : SUBSET Messages,  \* reads that succeeded, handler not yet run
     wr      : Nat,              \* writes in progress
     wrOk    : Nat,
     wrErr   : Nat,
     cnOk    : Nat,              \* connects that succeeded
     cnErr   : Nat,
     sent    : SUBSET Reqs,      \* requests written on this connection
     replied : SUBSET Reqs,      \* those the peer has answered
     inbox   : SUBSET Messages,  \* messages on their way to us
     part    : BOOLEAN,          \* _recvBuf holds the start of a message
     torn    : BOOLEAN]          \* _recvBuf is out of step with the stream

IoInit == [sock |-> "closed", rd |-> 0, rdErr |-> 0, got |-> {}, wr |-> 0,
           wrOk |-> 0, wrErr |-> 0, cnOk |-> 0, cnErr |-> 0,
           sent |-> {}, replied |-> {}, inbox |-> {},
           part |-> FALSE, torn |-> FALSE]

SessionInit ==
    /\ posted = 0
    /\ issued = 0
    /\ lstRequestCtx = {}
    /\ result = [r \in Reqs |-> Pending]
    /\ msgQueue = <<>>
    /\ isConnected = FALSE
    /\ io = IoInit

-----------------------------------------------------------------------------
(* boost.asio socket operations, as functions of the I/O state.  When the  *)
(* socket goes away in the middle of a message, what was received of it    *)
(* stays in _recvBuf: nothing ever empties the buffer.                     *)

Close(i) == [i EXCEPT !.sock  = "closed",
                      !.rd    = 0,
                      !.rdErr = @ + i.rd,
                      !.wr    = 0,
                      !.wrErr = @ + i.wr,
                      !.cnErr = IF i.sock = "connecting" THEN @ + 1 ELSE @,
                      !.sent  = {}, !.replied = {}, !.inbox = {},
                      !.part  = FALSE, !.torn = IF i.part THEN TRUE ELSE @]

AsyncRead(i) == IF i.sock = "connected" THEN [i EXCEPT !.rd = @ + 1]
                                        ELSE [i EXCEPT !.rdErr = @ + 1]

AsyncWrite(i) == IF i.sock = "connected" THEN [i EXCEPT !.wr = @ + 1]
                                         ELSE [i EXCEPT !.wrErr = @ + 1]

(* A closed socket is opened first; connecting a socket that is already    *)
(* connecting or connected fails and leaves it as it is.                   *)
AsyncConnect(i) == IF i.sock \in {"closed", "open"}
                   THEN [i EXCEPT !.sock = "connecting"]
                   ELSE [i EXCEPT !.cnErr = @ + 1]

-----------------------------------------------------------------------------
(* Operations of TcpSession.                                               *)

Outstanding == {r \in 1..posted : result[r] = Pending}

(* request(), in the caller's thread: a fresh promise, and a lambda posted *)
(* to _iosNet.                                                             *)
request ==
    /\ posted < MaxReq
    /\ Cardinality(Outstanding) < MaxOutstanding
    /\ posted' = posted + 1
    /\ UNCHANGED <<issued, lstRequestCtx, result, msgQueue, isConnected, io>>

(* Mutant of issueRequest: writes without looking at the queue.            *)
issueRequestAlwaysWrites ==
    /\ issued < posted
    /\ issued' = issued + 1
    /\ lstRequestCtx' = lstRequestCtx \cup {issued + 1}
    /\ msgQueue' = Append(msgQueue, issued + 1)
    /\ io' = AsyncWrite(io)
    /\ UNCHANGED <<posted, result, isConnected>>

(* Mutant of issueRequest: queues nothing while there is no connection.    *)
issueRequestIfConnected ==
    /\ issued < posted
    /\ issued' = issued + 1
    /\ lstRequestCtx' = lstRequestCtx \cup {issued + 1}
    /\ msgQueue' = IF isConnected THEN Append(msgQueue, issued + 1) ELSE msgQueue
    /\ io' = IF isConnected /\ msgQueue = <<>> THEN AsyncWrite(io) ELSE io
    /\ UNCHANGED <<posted, result, isConnected>>

(* The posted lambda of request().                                         *)
issueRequest ==
    /\ issued < posted
    /\ issued' = issued + 1
    /\ lstRequestCtx' = lstRequestCtx \cup {issued + 1}
    /\ msgQueue' = Append(msgQueue, issued + 1)
    /\ io' = IF msgQueue = <<>> THEN AsyncWrite(io) ELSE io
    /\ UNCHANGED <<posted, result, isConnected>>

(* Handler of a successful write.                                          *)
writeDone ==
    /\ io.wrOk > 0
    /\ msgQueue' = Tail(msgQueue)
    /\ LET i == [io EXCEPT !.wrOk = @ - 1]
       IN  io' = IF Tail(msgQueue) # <<>> THEN AsyncWrite(i) ELSE i
    /\ UNCHANGED <<posted, issued, lstRequestCtx, result, isConnected>>

(* Mutant of Matching: any response is taken for the first request.        *)
MatchingAny(m) == lstRequestCtx

(* The contexts whose id is the message's; the list is searched from its   *)
(* front.                                                                  *)
Matching(m) == {r \in lstRequestCtx : Id(r) = m.id}

findReqPromise(m) == Min(Matching(m))

(* Mutant of readBody: the context stays in the list.                      *)
readBodyKeepsContext(m) ==
    /\ m \in io.got
    /\ io' = AsyncRead([io EXCEPT !.got = @ \ {m}])
    /\ result' = IF m.ok /\ Matching(m) # {}
                 THEN [result EXCEPT ![findReqPromise(m)] = m.ans] ELSE result
    /\ UNCHANGED <<posted, issued, lstRequestCtx, msgQueue, isConnected>>

(* Handler of a successful read (readHead and readBody together).  A       *)
(* message that matches no request is a request of the peer: the client's  *)
(* session has no _requestHandler and drops it, like one that does not     *)
(* parse.  In every case the next read is started.                         *)
readBody(m) ==
    /\ m \in io.got
    /\ io' = AsyncRead([io EXCEPT !.got = @ \ {m}])
    /\ \/ /\ m.ok /\ Matching(m) # {}
          /\ lstRequestCtx' = lstRequestCtx \ {findReqPromise(m)}
          /\ result' = [result EXCEPT ![findReqPromise(m)] = m.ans]
       \/ /\ ~m.ok \/ Matching(m) = {}
          /\ UNCHANGED <<lstRequestCtx, result>>
    /\ UNCHANGED <<posted, issued, msgQueue, isConnected>>

(* Mutant of startSession: does not start to read.                         *)
startSessionReadsNothing(i) == isConnected' = TRUE /\ io' = i

(* startSession(), as a function of the I/O state and the flag it sets.    *)
startSession(i) == /\ isConnected' = TRUE
                   /\ io' = AsyncRead(i)

(* stopSession(), called from outside the net thread.                      *)
stopSession == /\ io' = Close(io)
               /\ isConnected' = FALSE

(* handleNetError(): the socket is closed, every request that waits for a  *)
(* response fails, and _afterNetError is called; after is the I/O state    *)
(* that this leaves.  _msgQueue is left as it is.                          *)
handleNetError(after) ==
    /\ io' = after
    /\ isConnected' = FALSE
    /\ result' = [r \in Reqs |-> IF r \in lstRequestCtx THEN NetError ELSE result[r]]
    /\ lstRequestCtx' = {}
    /\ UNCHANGED <<posted, issued, msgQueue>>

-----------------------------------------------------------------------------
(* The network and the peer.                                               *)

(* The operating system took the whole first message of the queue.         *)
WriteCompletes ==
    /\ io.wr > 0 /\ io.sock = "connected"
    /\ io' = [io EXCEPT !.wr = @ - 1, !.wrOk = @ + 1, !.sent = @ \cup {Head(msgQueue)}]
    /\ UNCHANGED <<posted, issued, lstRequestCtx, result, msgQueue, isConnected>>

(* The peer answers a request it has received, once, in any order.         *)
PeerAnswers(r) ==
    /\ io.sock = "connected"
    /\ r \in io.sent \ io.replied
    /\ io' = [io EXCEPT !.replied = @ \cup {r},
                        !.inbox = @ \cup {[id |-> Id(r), ans |-> r, ok |-> TRUE]}]
    /\ UNCHANGED <<posted, issued, lstRequestCtx, result, msgQueue, isConnected>>

(* The peer sends a message of its own.                                    *)
PeerNotifies(id) ==
    LET m == [id |-> id, ans |-> 0, ok |-> TRUE] IN
    /\ io.sock = "connected"
    /\ m \notin io.inbox \cup io.got
    /\ io' = [io EXCEPT !.inbox = @ \cup {m}]
    /\ UNCHANGED <<posted, issued, lstRequestCtx, result, msgQueue, isConnected>>

(* The head, or a part of the body, of a message arrives.                  *)
ReadPart ==
    /\ io.rd > 0 /\ io.sock = "connected"
    /\ io.inbox # {} /\ ~io.part
    /\ io' = [io EXCEPT !.part = TRUE]
    /\ UNCHANGED <<posted, issued, lstRequestCtx, result, msgQueue, isConnected>>

(* A message has been received.  If _recvBuf still held the start of       *)
(* another one, or if two reads fill it at the same time, what readHead    *)
(* takes for the length is not one, and this stays so: a body is cut out   *)
(* of the stream at the wrong place and does not parse, or the read waits  *)
(* for a length that never arrives.  (That such a body parses by chance is *)
(* left out.)                                                              *)
ReadCompletes(m) ==
    /\ io.rd > 0 /\ io.sock = "connected"
    /\ m \in io.inbox
    /\ \/ /\ ~io.torn /\ io.rd = 1
          /\ io' = [io EXCEPT !.rd = @ - 1, !.inbox = @ \ {m}, !.part = FALSE,
                              !.got = @ \cup {m}]
       \/ /\ io.torn \/ io.rd > 1
          /\ \/ io' = [io EXCEPT !.rd = @ - 1, !.inbox = @ \ {m}, !.part = FALSE,
                                 !.got = @ \cup {[m EXCEPT !.ok = FALSE]}, !.torn = TRUE]
             \/ io' = [io EXCEPT !.inbox = @ \ {m}, !.part = FALSE, !.torn = TRUE]
    /\ UNCHANGED <<posted, issued, lstRequestCtx, result, msgQueue, isConnected>>

(* The connection is lost: every operation in progress on it fails.        *)
ConnectionLost ==
    /\ io.sock = "connected"
    /\ io' = [io EXCEPT !.sock = "broken", !.rd = 0, !.rdErr = @ + io.rd,
                        !.wr = 0, !.wrErr = @ + io.wr, !.inbox = {},
                        !.part = FALSE, !.torn = IF io.part THEN TRUE ELSE @]
    /\ UNCHANGED <<posted, issued, lstRequestCtx, result, msgQueue, isConnected>>
==============================================================================
