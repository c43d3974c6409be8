------------------------------ MODULE TcpClient ------------------------------
(***************************************************************************)
(* TcpClient.cpp: a session that reconnects by itself.  The business       *)
(* thread makes the first connection (syncConnect, retried by the caller   *)
(* until it succeeds) and then only calls request(); after a network error *)
(* the net thread reconnects, at once and then after the intervals of a    *)
(* timer.  A third thread may call stop() at any time, even before the     *)
(* first connection, which is then made all the same.                      *)
(*                                                                         *)
(* asyncConnect is bound to the timer without the error_code, so it runs   *)
(* for a wait that expires and for a wait that is cancelled alike.         *)
(***************************************************************************)
EXTENDS TcpSession, DeadlineTimer

CONSTANTS ReconnectMax,  \* the limit of the test in asyncConnect: 10 * 60
          MaxFailures,   \* bound on lost connections and refused connects
          MayStop        \* whether some thread calls stop()

ASSUME ClientAssumption == /\ ReconnectMax \in Nat \ {0}
                           /\ MaxFailures \in Nat
                           /\ MayStop \in BOOLEAN

VARIABLES up,                 \* syncConnect has returned true
          afterNetError,      \* _afterNetError is set: reconnect is on
          reconnectInterval,  \* _reconnectInterval, in seconds
          reconnectTimer,     \* _reconnectTimer, a deadline_timer
          stopping,           \* progress of stop()
          failures            \* number of failures of the network so far

clientVars == <<up, afterNetError, reconnectInterval, reconnectTimer, stopping, failures>>
vars == <<sessionVars, clientVars>>

ClientInit == /\ up = FALSE
              /\ afterNetError = TRUE
              /\ reconnectInterval = 1
              /\ reconnectTimer = NewTimer
              /\ stopping = "no"
              /\ failures = 0

Init == SessionInit /\ ClientInit

-----------------------------------------------------------------------------
(* Mutant of NextInterval: the interval is doubled without a limit.        *)
NextIntervalUnlimited == reconnectInterval * 2

(* The first lines of asyncConnect: the wait before the attempt after the  *)
(* next one.                                                               *)
NextInterval == IF reconnectInterval < ReconnectMax
                THEN reconnectInterval * 2 ELSE reconnectInterval

(* syncConnect, in the business thread.  A refused connect leaves the      *)
(* socket open; AdManager sleeps and calls again, as often as it takes.    *)
SyncConnectOk ==
    /\ ~up
    /\ io.sock \in {"closed", "open"}
    /\ up' = TRUE
    /\ startSession([io EXCEPT !.sock = "connected"])
    /\ UNCHANGED <<posted, issued, lstRequestCtx, result, msgQueue>>
    /\ UNCHANGED <<afterNetError, reconnectInterval, reconnectTimer, stopping, failures>>

SyncConnectRefused ==
    /\ ~up
    /\ io.sock \in {"closed", "open"}
    /\ io' = [io EXCEPT !.sock = "open"]
    /\ UNCHANGED <<posted, issued, lstRequestCtx, result, msgQueue, isConnected>>
    /\ UNCHANGED clientVars

CallRequest == up /\ request /\ UNCHANGED clientVars

IssueRequest == issueRequest /\ UNCHANGED clientVars

WriteDone == writeDone /\ UNCHANGED clientVars

ReadBody == (\E m \in io.got : readBody(m)) /\ UNCHANGED clientVars

(* The handler of a failed operation: handleNetError, whose last call is   *)
(* _afterNetError, that is asyncConnect, when it is set.                   *)
NetErrorHandler(i) ==
    \/ /\ afterNetError
       /\ handleNetError(AsyncConnect(Close(i)))
       /\ reconnectInterval' = NextInterval
       /\ UNCHANGED <<up, afterNetError, reconnectTimer, stopping, failures>>
    \/ /\ ~afterNetError
       /\ handleNetError(Close(i))
       /\ UNCHANGED clientVars

ReadFailed  == io.rdErr > 0 /\ NetErrorHandler([io EXCEPT !.rdErr = @ - 1])
WriteFailed == io.wrErr > 0 /\ NetErrorHandler([io EXCEPT !.wrErr = @ - 1])

(* The handler of async_connect.                                           *)
ConnectOk ==
    /\ io.cnOk > 0
    /\ reconnectInterval' = 1
    /\ startSession([io EXCEPT !.cnOk = @ - 1])
    /\ UNCHANGED <<posted, issued, lstRequestCtx, result, msgQueue>>
    /\ UNCHANGED <<up, afterNetError, reconnectTimer, stopping, failures>>

(* Mutant of ConnectFailed: the timer is not waited for.                   *)
ConnectFailedGivesUp ==
    /\ io.cnErr > 0
    /\ io' = [io EXCEPT !.cnErr = @ - 1]
    /\ reconnectTimer' = ExpiresFromNow(reconnectTimer)
    /\ UNCHANGED <<posted, issued, lstRequestCtx, result, msgQueue, isConnected>>
    /\ UNCHANGED <<up, afterNetError, reconnectInterval, stopping, failures>>

ConnectFailed ==
    /\ io.cnErr > 0
    /\ io' = [io EXCEPT !.cnErr = @ - 1]
    /\ reconnectTimer' = AsyncWait(ExpiresFromNow(reconnectTimer))
    /\ UNCHANGED <<posted, issued, lstRequestCtx, result, msgQueue, isConnected>>
    /\ UNCHANGED <<up, afterNetError, reconnectInterval, stopping, failures>>

(* asyncConnect as the timer's handler.                                    *)
OnTimer ==
    /\ reconnectTimer' \in HandlerTaken(reconnectTimer)
    /\ reconnectInterval' = NextInterval
    /\ io' = AsyncConnect(io)
    /\ UNCHANGED <<posted, issued, lstRequestCtx, result, msgQueue, isConnected>>
    /\ UNCHANGED <<up, afterNetError, stopping, failures>>

(* stop(): reconnection is switched off, then the session is stopped.      *)
(* Neither the timer nor the requests without a response are touched.      *)
SetAutoReconnectOff ==
    /\ MayStop /\ stopping = "no"
    /\ afterNetError' = FALSE
    /\ stopping' = "session"
    /\ UNCHANGED sessionVars
    /\ UNCHANGED <<up, reconnectInterval, reconnectTimer, failures>>

StopSession ==
    /\ stopping = "session"
    /\ stopSession
    /\ stopping' = "done"
    /\ UNCHANGED <<posted, issued, lstRequestCtx, result, msgQueue>>
    /\ UNCHANGED <<up, afterNetError, reconnectInterval, reconnectTimer, failures>>

-----------------------------------------------------------------------------
(* The network, the peer and the clock.                                    *)

ConnectionEstablished ==
    /\ io.sock = "connecting"
    /\ io' = [io EXCEPT !.sock = "connected", !.cnOk = @ + 1]
    /\ UNCHANGED <<posted, issued, lstRequestCtx, result, msgQueue, isConnected>>
    /\ UNCHANGED clientVars

ConnectionRefused ==
    /\ io.sock = "connecting"
    /\ failures < MaxFailures
    /\ failures' = failures + 1
    /\ io' = [io EXCEPT !.sock = "open", !.cnErr = @ + 1]
    /\ UNCHANGED <<posted, issued, lstRequestCtx, result, msgQueue, isConnected>>
    /\ UNCHANGED <<up, afterNetError, reconnectInterval, reconnectTimer, stopping>>

LoseConnection ==
    /\ failures < MaxFailures
    /\ failures' = failures + 1
    /\ ConnectionLost
    /\ UNCHANGED <<up, afterNetError, reconnectInterval, reconnectTimer, stopping>>

TimerExpires ==
    /\ reconnectTimer.waiting
    /\ reconnectTimer' = Expire(reconnectTimer)
    /\ UNCHANGED sessionVars
    /\ UNCHANGED <<up, afterNetError, reconnectInterval, stopping, failures>>

Write  == WriteCompletes /\ UNCHANGED clientVars
Arrive == ReadPart /\ UNCHANGED clientVars
Read   == (\E m \in io.inbox : ReadCompletes(m)) /\ UNCHANGED clientVars
Answer == (\E r \in io.sent : PeerAnswers(r)) /\ UNCHANGED clientVars
Notify == (\E id \in NotifyIds : PeerNotifies(id)) /\ UNCHANGED clientVars

-----------------------------------------------------------------------------
Handlers == \/ IssueRequest \/ WriteDone \/ ReadBody
            \/ ReadFailed \/ WriteFailed
            \/ ConnectOk \/ ConnectFailed \/ OnTimer

Environment == \/ ConnectionEstablished \/ ConnectionRefused \/ LoseConnection
               \/ TimerExpires \/ Write \/ Arrive \/ Read \/ Answer \/ Notify

Next == \/ SyncConnectOk \/ SyncConnectRefused \/ CallRequest
        \/ SetAutoReconnectOff \/ StopSession
        \/ Handlers \/ Environment

Spec == Init /\ [][Next]_vars

(* The net thread runs queued handlers, started operations end, timers     *)
(* expire and the peer answers.  A peer that is retried again and again    *)
(* accepts at last: strong fairness, since an attempt can be abandoned.    *)
Fairness == /\ WF_vars(SyncConnectOk)
            /\ WF_vars(IssueRequest) /\ WF_vars(WriteDone) /\ WF_vars(ReadBody)
            /\ WF_vars(ReadFailed) /\ WF_vars(WriteFailed)
            /\ WF_vars(ConnectOk) /\ WF_vars(ConnectFailed) /\ WF_vars(OnTimer)
            /\ WF_vars(TimerExpires) /\ WF_vars(Write) /\ WF_vars(Read)
            /\ WF_vars(Answer) /\ SF_vars(ConnectionEstablished)

FairSpec == Spec /\ Fairness

-----------------------------------------------------------------------------
TypeOK ==
    /\ posted \in 0..MaxReq
    /\ issued \in 0..posted
    /\ lstRequestCtx \subseteq 1..issued
    /\ result \in [Reqs -> Reqs \cup {0, Pending, NetError}]
    /\ msgQueue \in Seq(Reqs)
    /\ isConnected \in BOOLEAN
    /\ io \in IoType
    /\ up \in BOOLEAN
    /\ afterNetError \in BOOLEAN
    /\ reconnectInterval \in 1..(2 * ReconnectMax)
    /\ reconnectTimer \in TimerType
    /\ stopping \in {"no", "session", "done"}
    /\ failures \in 0..MaxFailures

(* A context is in the list exactly as long as the promise of a request    *)
(* that has been issued has no value: no promise is set twice (which would *)
(* throw on the net thread) and none is dropped without a value.           *)
PromiseOnce ==
    \A r \in 1..issued : r \in lstRequestCtx <=> result[r] = Pending

(* The value of a future is the answer to that very request, or a network  *)
(* error: never the answer to another request nor a message of the peer's  *)
(* own.                                                                    *)
OwnAnswer == \A r \in Reqs : result[r] \in {Pending, NetError, r}

(* The writes started and not yet handled.                                 *)
Writes(i) == i.wr + i.wrOk + i.wrErr

(* At most one async_write on the socket is started and not yet handled,   *)
(* and while there is one its message is the front of the queue: messages  *)
(* are never interleaved on the wire and pop_front is safe.                *)
SingleWrite == Writes(io) <= 1 /\ (Writes(io) = 1 => msgQueue # <<>>)

(* A request whose answer can still come is never left with nobody reading *)
(* the socket: a read is in progress or ended, or a connect handler that   *)
(* will start one is queued.                                               *)
SomebodyReads ==
    lstRequestCtx \cap io.sent # {} =>
        \/ io.rd + io.rdErr + io.cnOk > 0
        \/ io.got # {}

(* A request without a response is still to be written, or was written on  *)
(* the present connection, or an error handler that will fail it is queued *)
(* : a reconnect never forgets a request that went to an old connection.   *)
NoOrphan ==
    \A r \in lstRequestCtx :
        \/ \E k \in 1..Len(msgQueue) : msgQueue[k] = r
        \/ r \in io.sent
        \/ io.rdErr + io.wrErr + io.cnOk > 0
        \/ io.got # {}

(* What a caller sees of the client is what RpcFuture promises.            *)
Abs == INSTANCE RpcFuture WITH posted <- posted, result <- result

Refines == Abs!Spec

(* A client that lost its connection gets it back, as long as it is not    *)
(* stopped.                                                                *)
Reconnects == (up /\ ~isConnected) ~> (isConnected \/ stopping # "no")
==============================================================================
