------------------------------- MODULE Shutdown -------------------------------
(***************************************************************************)
(* AdManager::endBusiness: the end of the business, composed with the      *)
(* whole of TcpClient.  Three threads take part:                           *)
(*   - the application's thread, which stops the client, stops both        *)
(*     io_services and joins both threads;                                 *)
(*   - the net thread, which runs the handlers of _iosNet; here the test   *)
(*     of _afterNetError and its call are two steps, since stop() sets it  *)
(*     to NULL from the application's thread;                              *)
(*   - the business thread, which is in the connect loop of bgnBusiness,   *)
(*     trying or asleep, or runs the handlers of _iosBiz: each tests       *)
(*     _isEndBusiness and then makes one request after the other, blocked  *)
(*     in future::get().                                                   *)
(*                                                                         *)
(* run() of an io_service that was stopped returns after the handler it is *)
(* in, whatever else is queued.                                            *)
(***************************************************************************)
EXTENDS TcpClient

CONSTANT MaxFiles       \* bound on the files one run of downloadAds asks for

ASSUME ShutdownAssumption == MaxFiles \in Nat

VARIABLES app,            \* where endBusiness is
          isEndBusiness,  \* _isEndBusiness
          netStopped,     \* _iosNet.stop() was called
          bizStopped,     \* _iosBiz.stop() was called
          net,            \* the net thread
          biz             \* the business thread

threads   == <<app, isEndBusiness, netStopped, bizStopped, net, biz>>
shutdownVars == <<vars, threads>>

AppType == {"business", "reconnectOff", "stopSession", "stopNet", "stopBiz",
            "joinNet", "joinBiz", "ended"}

(* reconnecting: between the test and the call of _afterNetError; died: an *)
(* exception has left run(), which terminates the process.                 *)
NetType == {"running", "reconnecting", "exited", "died"}

(* at: in syncConnect, asleep before the next syncConnect, idle, about to  *)
(* test _isEndBusiness, about to call request(), in get(), in an HTTP      *)
(* download, or out of run().  leg: the handler it is in; files: those     *)
(* that downloadAds has still to ask for.                                  *)
BizType == [at    : {"connect", "sleep", "idle", "test", "call", "get", "http", "exited"},
            leg   : {"policy", "list", "files"},
            files : 0..MaxFiles]

BizAt(place, leg, files) == [at |-> place, leg |-> leg, files |-> files]

IdleBiz == BizAt("idle", "policy", 0)

(* bgnBusiness was called, or was not.                                     *)
ShutdownInit ==
    /\ Init
    /\ app = "business" /\ isEndBusiness = FALSE
    /\ netStopped = FALSE /\ bizStopped = FALSE
    /\ net = "running"
    /\ biz \in {IdleBiz, BizAt("connect", "policy", 0)}

-----------------------------------------------------------------------------
(* The business thread.                                                    *)

(* The connect loop.  It looks at nothing but the result of syncConnect,   *)
(* so that the peer alone decides how often it goes round.                 *)
BizConnects ==
    /\ biz.at = "connect"
    /\ \/ SyncConnectOk /\ biz' = BizAt("test", "policy", 0)
       \/ SyncConnectRefused /\ biz' = BizAt("sleep", "policy", 0)
    /\ UNCHANGED <<app, isEndBusiness, netStopped, bizStopped, net>>

BizWakes ==
    /\ biz.at = "sleep"
    /\ biz' = BizAt("connect", "policy", 0)
    /\ UNCHANGED <<vars, app, isEndBusiness, netStopped, bizStopped, net>>

InConnectLoop == biz.at \in {"connect", "sleep"}

(* A timer's handler.                                                      *)
RunHandler ==
    /\ biz.at = "idle" /\ up /\ ~bizStopped /\ posted < MaxReq
    /\ \E leg \in {"policy", "list", "files"} : biz' = BizAt("test", leg, 0)
    /\ UNCHANGED <<vars, app, isEndBusiness, netStopped, bizStopped, net>>

(* The first line of requestAdPlayPolicy, requestAdList and downloadAds;   *)
(* the last of them has any number of files to ask for.                    *)
BizTests ==
    /\ biz.at = "test"
    /\ \/ isEndBusiness /\ biz' = IdleBiz
       \/ ~isEndBusiness /\ biz.leg # "files" /\ biz' = [biz EXCEPT !.at = "call"]
       \/ /\ ~isEndBusiness /\ biz.leg = "files"
          /\ \E n \in 0..MaxFiles :
                /\ posted + n <= MaxReq
                /\ biz' = IF n = 0 THEN IdleBiz ELSE BizAt("call", "files", n)
    /\ UNCHANGED <<vars, app, isEndBusiness, netStopped, bizStopped, net>>

BizCalls ==
    /\ biz.at = "call"
    /\ CallRequest
    /\ biz' = [biz EXCEPT !.at = "get"]
    /\ UNCHANGED <<app, isEndBusiness, netStopped, bizStopped, net>>

(* Mutant of NextFile: one file too many is asked for.                     *)
NextFileOneMore(b) == IF b.files > -1 THEN [b EXCEPT !.at = "call", !.files = @ - 1] ELSE IdleBiz

(* downloadAds goes on to its next file, without another test.             *)
NextFile(b) == IF b.files > 1 THEN [b EXCEPT !.at = "call", !.files = @ - 1] ELSE IdleBiz

(* get() returns.  An error or an error code ends requestAdPlayPolicy and  *)
(* requestAdList; an answer leads to the next handler in the same call.    *)
BizGets ==
    /\ biz.at = "get" /\ result[posted] # Pending
    /\ \/ biz.leg # "files" /\ biz' = IdleBiz
       \/ /\ result[posted] # NetError /\ biz.leg # "files" /\ posted < MaxReq
          /\ biz' = BizAt("test", IF biz.leg = "policy" THEN "list" ELSE "files", 0)
       \/ biz.leg = "files" /\ biz' = NextFile(biz)
       \/ result[posted] # NetError /\ biz.leg = "files" /\ biz' = [biz EXCEPT !.at = "http"]
    /\ UNCHANGED <<vars, app, isEndBusiness, netStopped, bizStopped, net>>

(* The download by HTTP, which ends in one way or the other.               *)
BizDownloaded ==
    /\ biz.at = "http"
    /\ biz' = NextFile(biz)
    /\ UNCHANGED <<vars, app, isEndBusiness, netStopped, bizStopped, net>>

BizExits ==
    /\ biz.at = "idle" /\ bizStopped
    /\ biz' = [biz EXCEPT !.at = "exited"]
    /\ UNCHANGED <<vars, app, isEndBusiness, netStopped, bizStopped, net>>

-----------------------------------------------------------------------------
(* The net thread.                                                         *)

NetRuns == net = "running" /\ ~netStopped

(* The handlers other than those of a failed read or write.                *)
NetHandler(A) ==
    /\ NetRuns
    /\ A
    /\ UNCHANGED threads

(* handleNetError up to the test of _afterNetError.                        *)
NetErrorTested(i) ==
    /\ handleNetError(Close(i))
    /\ net' = IF afterNetError THEN "reconnecting" ELSE "running"
    /\ UNCHANGED <<clientVars, app, isEndBusiness, netStopped, bizStopped, biz>>

NetReadFailed  == NetRuns /\ io.rdErr > 0 /\ NetErrorTested([io EXCEPT !.rdErr = @ - 1])
NetWriteFailed == NetRuns /\ io.wrErr > 0 /\ NetErrorTested([io EXCEPT !.wrErr = @ - 1])

(* The call: asyncConnect, or bad_function_call if stop() came between.    *)
CallAfterNetError ==
    /\ net = "reconnecting"
    /\ \/ /\ afterNetError
          /\ reconnectInterval' = NextInterval
          /\ io' = AsyncConnect(io)
          /\ net' = "running"
       \/ /\ ~afterNetError
          /\ net' = "died"
          /\ UNCHANGED <<reconnectInterval, io>>
    /\ UNCHANGED <<posted, issued, lstRequestCtx, result, msgQueue, isConnected>>
    /\ UNCHANGED <<up, afterNetError, reconnectTimer, stopping, failures>>
    /\ UNCHANGED <<app, isEndBusiness, netStopped, bizStopped, biz>>

NetExits ==
    /\ net = "running" /\ netStopped
    /\ net' = "exited"
    /\ UNCHANGED <<vars, app, isEndBusiness, netStopped, bizStopped, biz>>

-----------------------------------------------------------------------------
(* endBusiness, on the application's thread.                               *)

EndBusiness ==
    /\ app = "business"
    /\ isEndBusiness' = TRUE
    /\ app' = "reconnectOff"
    /\ UNCHANGED <<vars, netStopped, bizStopped, net, biz>>

StopClient ==
    /\ \/ app = "reconnectOff" /\ SetAutoReconnectOff /\ app' = "stopSession"
       \/ app = "stopSession" /\ StopSession /\ app' = "stopNet"
    /\ UNCHANGED <<isEndBusiness, netStopped, bizStopped, net, biz>>

StopNet ==
    /\ app = "stopNet" /\ app' = "stopBiz"
    /\ netStopped' = TRUE
    /\ UNCHANGED <<vars, isEndBusiness, bizStopped, net, biz>>


StopBiz ==
    /\ app = "stopBiz" /\ app' = "joinNet"
    /\ bizStopped' = TRUE
    /\ UNCHANGED <<vars, isEndBusiness, netStopped, net, biz>>

JoinThreads ==
    /\ \/ app = "joinNet" /\ net = "exited" /\ app' = "joinBiz"
       \/ app = "joinBiz" /\ biz.at = "exited" /\ app' = "ended"
    /\ UNCHANGED <<vars, isEndBusiness, netStopped, bizStopped, net, biz>>

-----------------------------------------------------------------------------
BizThread == BizConnects \/ BizWakes \/ RunHandler \/ BizTests \/ BizCalls \/ BizGets
             \/ BizDownloaded \/ BizExits

NetThread == \/ NetHandler(IssueRequest) \/ NetHandler(WriteDone) \/ NetHandler(ReadBody)
             \/ NetHandler(ConnectOk) \/ NetHandler(ConnectFailed) \/ NetHandler(OnTimer)
             \/ NetReadFailed \/ NetWriteFailed \/ CallAfterNetError \/ NetExits

AppThread == EndBusiness \/ StopClient \/ StopNet \/ StopBiz \/ JoinThreads

ShutdownNext ==
    /\ net # "died"
    /\ \/ BizThread \/ NetThread \/ AppThread
       \/ Environment /\ UNCHANGED threads

ShutdownSpec == ShutdownInit /\ [][ShutdownNext]_shutdownVars

(* The threads go on with what they have begun, and an HTTP download ends. *)
(* Nothing is assumed of the peer: it may refuse every connect, and never  *)
(* answer.                                                                 *)
ShutdownFairness ==
    /\ WF_shutdownVars(net # "died" /\ (BizConnects \/ BizWakes))
    /\ WF_shutdownVars(net # "died" /\ (BizTests \/ BizCalls \/ BizGets \/ BizDownloaded \/ BizExits))
    /\ WF_shutdownVars(CallAfterNetError \/ NetExits)
    /\ WF_shutdownVars(net # "died" /\ (StopClient \/ StopNet \/ StopBiz \/ JoinThreads))

FairShutdown == ShutdownSpec /\ ShutdownFairness

-----------------------------------------------------------------------------
ShutdownTypeOK ==
    /\ TypeOK
    /\ app \in AppType
    /\ isEndBusiness \in BOOLEAN /\ netStopped \in BOOLEAN /\ bizStopped \in BOOLEAN
    /\ net \in NetType
    /\ biz \in BizType

(* The business thread waits for a promise that only a handler of the net  *)
(* thread could set, and the net thread has gone.                          *)
LeftWaiting == net = "exited" /\ biz.at = "get" /\ result[posted] = Pending

==============================================================================
