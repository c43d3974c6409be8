--------------------------- MODULE TcpClientProofs ---------------------------
(***************************************************************************)
(* Proofs about TcpClient for any number of requests, callers and network  *)
(* failures, any ids and any reconnect limit: that every call ends once    *)
(* and with its own answer, who reads the socket, and which requests can   *)
(* still get a result, with and without stop().                            *)
(***************************************************************************)
EXTENDS TcpClient, DeadlineTimerProofs, SequenceTheorems, TLAPS

(* SingleWrite, which the types depend on: pop_front and Head are applied  *)
(* to _msgQueue only because a write in progress keeps it non-empty.       *)
TypeInv == TypeOK /\ SingleWrite

-----------------------------------------------------------------------------
(* What the socket operations do to the I/O state.                         *)

(* Close changes the fields of the I/O state to values of their types.     *)
LEMMA ClosedType ==
    ASSUME NEW i \in IoType, NEW a \in Nat, NEW b \in Nat, NEW c \in Nat, NEW t \in BOOLEAN
    PROVE  [i EXCEPT !.sock = "closed", !.rd = 0, !.rdErr = a, !.wr = 0, !.wrErr = b,
                     !.cnErr = c, !.sent = {}, !.replied = {}, !.inbox = {},
                     !.part = FALSE, !.torn = t] \in IoType
  BY DEF IoType

(* close() of the socket keeps the type of the I/O state, ends writes in   *)
(* progress as failed ones, and drops what was on its way.                 *)
LEMMA CloseFacts ==
    ASSUME NEW i \in IoType
    PROVE  /\ Close(i) \in IoType
           /\ Writes(Close(i)) = Writes(i)
           /\ Close(i).got = i.got
           /\ Close(i).inbox = {}
  <1> DEFINE rdErr == i.rdErr + i.rd
             wrErr == i.wrErr + i.wr
             cnErr == IF i.sock = "connecting" THEN i.cnErr + 1 ELSE i.cnErr
             torn  == IF i.part THEN TRUE ELSE i.torn
  <1>1. rdErr \in Nat
    BY DEF IoType
  <1>2. wrErr \in Nat
    BY DEF IoType
  <1>3. cnErr \in Nat
    BY DEF IoType
  <1>4. torn \in BOOLEAN
    BY DEF IoType
  <1>5. Close(i) \in IoType
    BY <1>1, <1>2, <1>3, <1>4, ClosedType DEF Close
  <1>6. Writes(Close(i)) = Writes(i)
    BY DEF Close, IoType, Writes
  <1>7. Close(i).got = i.got /\ Close(i).inbox = {}
    BY DEF Close, IoType
  <1> QED
    BY <1>5, <1>6, <1>7

(* Starting a read touches neither the writes nor the messages received.   *)
LEMMA AsyncReadFacts ==
    ASSUME NEW i \in IoType
    PROVE  /\ AsyncRead(i) \in IoType
           /\ Writes(AsyncRead(i)) = Writes(i)
           /\ AsyncRead(i).got = i.got
           /\ AsyncRead(i).inbox = i.inbox
  BY DEF AsyncRead, IoType, Writes

(* Starting a write adds exactly one write that is not yet handled.        *)
LEMMA AsyncWriteFacts ==
    ASSUME NEW i \in IoType
    PROVE  /\ AsyncWrite(i) \in IoType
           /\ Writes(AsyncWrite(i)) = Writes(i) + 1
           /\ AsyncWrite(i).got = i.got
           /\ AsyncWrite(i).inbox = i.inbox
  BY DEF AsyncWrite, IoType, Writes

(* Starting a connect touches neither the writes nor the messages.         *)
LEMMA AsyncConnectFacts ==
    ASSUME NEW i \in IoType
    PROVE  /\ AsyncConnect(i) \in IoType
           /\ Writes(AsyncConnect(i)) = Writes(i)
           /\ AsyncConnect(i).got = i.got
           /\ AsyncConnect(i).inbox = i.inbox
  BY DEF AsyncConnect, IoType, Writes

(* The end of a connect keeps the type of the I/O state.                   *)
LEMMA ConnectedType ==
    ASSUME NEW i \in IoType, NEW n \in Nat
    PROVE  /\ [i EXCEPT !.sock = "connected", !.cnOk = n] \in IoType
           /\ [i EXCEPT !.sock = "open", !.cnErr = n] \in IoType
  BY DEF IoType

(* The loss of the connection keeps the type of the I/O state.             *)
LEMMA BrokenType ==
    ASSUME NEW i \in IoType, NEW a \in Nat, NEW b \in Nat, NEW t \in BOOLEAN
    PROVE  [i EXCEPT !.sock = "broken", !.rd = 0, !.rdErr = a, !.wr = 0, !.wrErr = b,
                     !.inbox = {}, !.part = FALSE, !.torn = t] \in IoType
  BY DEF IoType

(* The end of a write keeps the type of the I/O state.                     *)
LEMMA WrittenType ==
    ASSUME NEW i \in IoType, NEW a \in Nat, NEW b \in Nat, NEW S \in SUBSET Reqs
    PROVE  [i EXCEPT !.wr = a, !.wrOk = b, !.sent = S] \in IoType
  BY DEF IoType

(* The operations of deadline_timer that the client uses keep its type.    *)
LEMMA TimerFacts ==
    ASSUME NEW t \in TimerType
    PROVE  /\ AsyncWait(ExpiresFromNow(t)) \in TimerType
           /\ Expire(t) \in TimerType
           /\ HandlerTaken(t) \subseteq TimerType
  <1>1. ExpiresFromNow(t) \in TimerType
    BY ExpiresFromNowFacts
  <1> QED
    BY <1>1, AsyncWaitFacts, ExpireFacts, HandlerTakenFacts

-----------------------------------------------------------------------------
(* The number of writes that are not yet handled is a natural number.      *)
LEMMA WritesType == ASSUME NEW i \in IoType PROVE Writes(i) \in Nat
  BY DEF IoType, Writes

(* asyncConnect keeps _reconnectInterval between 1 and twice the limit.    *)
LEMMA NextIntervalType ==
    ASSUME TypeOK
    PROVE  NextInterval \in 1..(2 * ReconnectMax)
  <1>1. reconnectInterval \in 1..(2 * ReconnectMax) /\ ReconnectMax \in Nat
    BY ClientAssumption DEF TypeOK
  <1> QED
    BY <1>1 DEF NextInterval

(* A step that keeps the types of all but the I/O state, and does not      *)
(* start a write nor shorten the queue, keeps the invariant.               *)
LEMMA KeepsWrites ==
    ASSUME TypeInv, io' \in IoType, Writes(io') = Writes(io), msgQueue' = msgQueue
    PROVE  SingleWrite'
  BY DEF TypeInv, SingleWrite

(* The constructors of TcpSession and TcpClient establish the types, with  *)
(* no write in progress.                                                   *)
LEMMA TypeInit == Init => TypeInv
  <1> SUFFICES ASSUME Init PROVE TypeInv
    OBVIOUS
  <1>1. io \in IoType
    BY DEF Init, SessionInit, IoInit, IoType
  <1>2. reconnectTimer \in TimerType
    BY DEF Init, ClientInit, NewTimer, TimerType
  <1>3. result \in [Reqs -> Reqs \cup {0, Pending, NetError}]
    BY DEF Init, SessionInit
  <1>4. msgQueue \in Seq(Reqs)
    BY DEF Init, SessionInit
  <1>5. /\ posted \in 0..MaxReq /\ issued \in 0..posted /\ lstRequestCtx \subseteq 1..issued
        /\ failures \in 0..MaxFailures
    BY SessionAssumption, ClientAssumption DEF Init, SessionInit, ClientInit
  <1>6. reconnectInterval \in 1..(2 * ReconnectMax)
    BY ClientAssumption DEF Init, ClientInit
  <1>7. /\ isConnected \in BOOLEAN /\ up \in BOOLEAN /\ afterNetError \in BOOLEAN
        /\ stopping \in {"no", "session", "done"}
    BY DEF Init, SessionInit, ClientInit
  <1>8. TypeOK
    BY <1>1, <1>2, <1>3, <1>4, <1>5, <1>6, <1>7 DEF TypeOK
  <1>9. SingleWrite
    BY DEF Init, SessionInit, IoInit, SingleWrite, Writes
  <1> QED
    BY <1>8, <1>9 DEF TypeInv

(* Handlers and environment steps that end an operation move it from one   *)
(* counter to another.                                                     *)
LEMMA TypeStep ==
    ASSUME TypeInv, Next
    PROVE  TypeInv'
  <1> USE SessionAssumption, ClientAssumption
  <1>t. io \in IoType /\ Writes(io) \in Nat
    BY WritesType DEF TypeInv, TypeOK
  <1>1. CASE SyncConnectOk
    <2>1. [io EXCEPT !.sock = "connected"] \in IoType
      BY <1>t DEF IoType
    <2>2. Writes([io EXCEPT !.sock = "connected"]) = Writes(io)
      BY <1>t DEF IoType, Writes
    <2>3. io' \in IoType /\ Writes(io') = Writes(io)
      BY <1>1, <2>1, <2>2, AsyncReadFacts DEF SyncConnectOk, startSession
    <2>4. TypeOK'
      BY <1>1, <2>3 DEF SyncConnectOk, startSession, TypeInv, TypeOK
    <2> QED
      BY <1>1, <2>3, <2>4, KeepsWrites DEF SyncConnectOk, TypeInv
  <1>2. CASE SyncConnectRefused
    <2>1. io' \in IoType /\ Writes(io') = Writes(io)
      BY <1>t, <1>2 DEF SyncConnectRefused, IoType, Writes
    <2>2. TypeOK'
      BY <1>2, <2>1 DEF SyncConnectRefused, clientVars, TypeInv, TypeOK
    <2> QED
      BY <1>2, <2>1, <2>2, KeepsWrites DEF SyncConnectRefused, TypeInv
  <1>3. CASE CallRequest
    <2>1. io' \in IoType /\ Writes(io') = Writes(io)
      BY <1>t, <1>3 DEF CallRequest, request
    <2>2. TypeOK'
      BY <1>3, <2>1 DEF CallRequest, request, clientVars, TypeInv, TypeOK
    <2> QED
      BY <1>3, <2>1, <2>2, KeepsWrites DEF CallRequest, request, TypeInv
  <1>4. CASE IssueRequest
    <2>1. io' \in IoType /\ msgQueue' \in Seq(Reqs) /\ msgQueue' # <<>>
      BY <1>t, <1>4, AsyncWriteFacts
      DEF IssueRequest, issueRequest, TypeInv, TypeOK, Reqs
    <2>2. TypeOK'
      BY <1>4, <2>1 DEF IssueRequest, issueRequest, clientVars, TypeInv, TypeOK
    <2>3. Writes(io') <= 1
      BY <1>t, <1>4, AsyncWriteFacts
      DEF IssueRequest, issueRequest, TypeInv, SingleWrite
    <2> QED
      BY <2>1, <2>2, <2>3 DEF TypeInv, SingleWrite
  <1>5. CASE WriteDone
    <2> DEFINE i == [io EXCEPT !.wrOk = @ - 1]
    <2>a. io.wrOk > 0
      BY <1>5 DEF WriteDone, writeDone
    <2>b. i \in IoType
      BY <1>t, <2>a DEF IoType
    <2>1. Writes(i) = Writes(io) - 1
      BY <1>t DEF IoType, Writes
    <2>c. Writes(io) >= 1
      BY <1>t, <2>a DEF IoType, Writes
    <2>2. Writes(io) = 1 /\ msgQueue \in Seq(Reqs) /\ msgQueue # <<>>
      BY <1>t, <2>c DEF TypeInv, TypeOK, SingleWrite
    <2>3. msgQueue' = Tail(msgQueue) /\ msgQueue' \in Seq(Reqs)
      BY <1>5, <2>2 DEF WriteDone, writeDone
    <2>4. io' = IF msgQueue' # <<>> THEN AsyncWrite(i) ELSE i
      BY <1>5, <2>3 DEF WriteDone, writeDone
    <2>5. io' \in IoType /\ SingleWrite'
      BY <2>1, <2>2, <2>4, <2>b, AsyncWriteFacts DEF SingleWrite
    <2>6. TypeOK'
      BY <1>5, <2>3, <2>5 DEF WriteDone, writeDone, clientVars, TypeInv, TypeOK
    <2> QED
      BY <2>5, <2>6 DEF TypeInv
  <1>6. CASE ReadBody
    <2>1. PICK m \in io.got : readBody(m)
      BY <1>6 DEF ReadBody
    <2>2. m \in Messages /\ m.ans \in 0..MaxReq
      BY <1>t DEF IoType, Messages
    <2>3. [io EXCEPT !.got = @ \ {m}] \in IoType
      BY <1>t DEF IoType
    <2>4. Writes([io EXCEPT !.got = @ \ {m}]) = Writes(io)
      BY <1>t DEF IoType, Writes
    <2>5. io' \in IoType /\ Writes(io') = Writes(io)
      BY <2>1, <2>3, <2>4, AsyncReadFacts DEF readBody
    <2>a. m.ans \in Reqs \cup {0, Pending, NetError}
      BY <2>2 DEF Reqs
    <2>b. result \in [Reqs -> Reqs \cup {0, Pending, NetError}]
      BY DEF TypeInv, TypeOK
    <2>6. /\ result' \in [Reqs -> Reqs \cup {0, Pending, NetError}]
          /\ lstRequestCtx' \subseteq lstRequestCtx
      BY <2>1, <2>a, <2>b DEF readBody
    <2>7. TypeOK'
      BY <1>6, <2>1, <2>5, <2>6 DEF ReadBody, readBody, clientVars, TypeInv, TypeOK
    <2> QED
      BY <2>1, <2>5, <2>7, KeepsWrites DEF readBody, TypeInv
  <1>7. ASSUME NEW i \in IoType, Writes(i) <= Writes(io), NetErrorHandler(i)
        PROVE  TypeInv'
    <2>1. Close(i) \in IoType /\ Writes(Close(i)) = Writes(i)
      BY <1>7, CloseFacts
    <2>2. io' \in IoType /\ Writes(io') = Writes(i)
      BY <1>7, <2>1, AsyncConnectFacts DEF NetErrorHandler, handleNetError
    <2>3. result' \in [Reqs -> Reqs \cup {0, Pending, NetError}]
      BY <1>7 DEF NetErrorHandler, handleNetError, TypeInv, TypeOK
    <2>4. reconnectInterval' \in 1..(2 * ReconnectMax)
      BY <1>7, NextIntervalType DEF NetErrorHandler, clientVars, TypeInv, TypeOK
    <2>5. TypeOK'
      BY <1>7, <2>2, <2>3, <2>4
      DEF NetErrorHandler, handleNetError, clientVars, TypeInv, TypeOK
    <2>6. Writes(i) \in Nat /\ msgQueue' = msgQueue
      BY <1>7, WritesType DEF NetErrorHandler, handleNetError
    <2>7. SingleWrite'
      BY <1>t, <1>7, <2>2, <2>6 DEF TypeInv, SingleWrite
    <2> QED
      BY <2>5, <2>7 DEF TypeInv
  <1>8. CASE ReadFailed
    <2> DEFINE i == [io EXCEPT !.rdErr = @ - 1]
    <2>1. i \in IoType
      BY <1>t, <1>8 DEF ReadFailed, IoType
    <2>2. Writes(i) = Writes(io)
      BY <1>t, <1>8 DEF IoType, Writes
    <2> QED
      BY <1>t, <1>7, <1>8, <2>1, <2>2 DEF ReadFailed
  <1>9. CASE WriteFailed
    <2> DEFINE i == [io EXCEPT !.wrErr = @ - 1]
    <2>1. i \in IoType
      BY <1>t, <1>9 DEF WriteFailed, IoType
    <2>2. Writes(i) <= Writes(io)
      BY <1>t, <1>9 DEF IoType, Writes
    <2> QED
      BY <1>7, <1>9, <2>1, <2>2 DEF WriteFailed
  <1>10. CASE ConnectOk
    <2> DEFINE i == [io EXCEPT !.cnOk = @ - 1]
    <2>1. i \in IoType
      BY <1>t, <1>10 DEF ConnectOk, IoType
    <2>2. Writes(i) = Writes(io)
      BY <1>t DEF IoType, Writes
    <2>3. io' \in IoType /\ Writes(io') = Writes(io)
      BY <1>10, <2>1, <2>2, AsyncReadFacts DEF ConnectOk, startSession
    <2>4. reconnectInterval' \in 1..(2 * ReconnectMax)
      BY <1>10 DEF ConnectOk
    <2>5. TypeOK'
      BY <1>10, <2>3, <2>4 DEF ConnectOk, startSession, TypeInv, TypeOK
    <2> QED
      BY <1>10, <2>3, <2>5, KeepsWrites DEF ConnectOk, TypeInv
  <1>11. CASE ConnectFailed
    <2>1. io' \in IoType
      BY <1>t, <1>11 DEF ConnectFailed, IoType
    <2>2. Writes(io') = Writes(io)
      BY <1>t, <1>11 DEF ConnectFailed, IoType, Writes
    <2>3. reconnectTimer' \in TimerType
      <3>1. reconnectTimer \in TimerType
        BY DEF TypeInv, TypeOK
      <3> QED
        BY <1>11, <3>1, TimerFacts DEF ConnectFailed
    <2>4. TypeOK'
      BY <1>11, <2>1, <2>3 DEF ConnectFailed, TypeInv, TypeOK
    <2> QED
      BY <1>11, <2>1, <2>2, <2>4, KeepsWrites DEF ConnectFailed, TypeInv
  <1>12. CASE OnTimer
    <2>1. reconnectTimer' \in TimerType
      BY <1>12, TimerFacts DEF OnTimer, TypeInv, TypeOK
    <2>2. io' \in IoType /\ Writes(io') = Writes(io)
      BY <1>t, <1>12, AsyncConnectFacts DEF OnTimer
    <2>3. reconnectInterval' \in 1..(2 * ReconnectMax)
      BY <1>12, NextIntervalType DEF OnTimer, TypeInv
    <2>4. TypeOK'
      BY <1>12, <2>1, <2>2, <2>3 DEF OnTimer, TypeInv, TypeOK
    <2> QED
      BY <1>12, <2>2, <2>4, KeepsWrites DEF OnTimer, TypeInv
  <1>13. CASE SetAutoReconnectOff
    <2>1. io' \in IoType /\ Writes(io') = Writes(io)
      BY <1>t, <1>13 DEF SetAutoReconnectOff, sessionVars
    <2>2. TypeOK'
      BY <1>13, <2>1 DEF SetAutoReconnectOff, sessionVars, TypeInv, TypeOK
    <2> QED
      BY <1>13, <2>1, <2>2, KeepsWrites DEF SetAutoReconnectOff, sessionVars, TypeInv
  <1>14. CASE StopSession
    <2>1. io' \in IoType /\ Writes(io') = Writes(io)
      BY <1>t, <1>14, CloseFacts DEF StopSession, stopSession
    <2>2. TypeOK'
      BY <1>14, <2>1 DEF StopSession, stopSession, TypeInv, TypeOK
    <2> QED
      BY <1>14, <2>1, <2>2, KeepsWrites DEF StopSession, TypeInv
  <1>15. CASE ConnectionEstablished
    <2>a. io' = [io EXCEPT !.sock = "connected", !.cnOk = @ + 1]
      BY <1>15 DEF ConnectionEstablished
    <2>b. io.cnOk + 1 \in Nat
      BY <1>t DEF IoType
    <2>1. io' \in IoType
      BY <1>t, <2>a, <2>b, ConnectedType
    <2>2. Writes(io') = Writes(io)
      BY <1>t, <1>15 DEF ConnectionEstablished, IoType, Writes
    <2>3. TypeOK'
      BY <1>15, <2>1 DEF ConnectionEstablished, clientVars, TypeInv, TypeOK
    <2> QED
      BY <1>15, <2>1, <2>2, <2>3, KeepsWrites DEF ConnectionEstablished, TypeInv
  <1>16. CASE ConnectionRefused
    <2>a. io' = [io EXCEPT !.sock = "open", !.cnErr = @ + 1]
      BY <1>16 DEF ConnectionRefused
    <2>b. io.cnErr + 1 \in Nat
      BY <1>t DEF IoType
    <2>1. io' \in IoType
      BY <1>t, <2>a, <2>b, ConnectedType
    <2>2. Writes(io') = Writes(io)
      BY <1>t, <1>16 DEF ConnectionRefused, IoType, Writes
    <2>3. TypeOK'
      BY <1>16, <2>1 DEF ConnectionRefused, TypeInv, TypeOK
    <2> QED
      BY <1>16, <2>1, <2>2, <2>3, KeepsWrites DEF ConnectionRefused, TypeInv
  <1>17. CASE LoseConnection
    <2> DEFINE rdErr == io.rdErr + io.rd
               wrErr == io.wrErr + io.wr
               torn  == IF io.part THEN TRUE ELSE io.torn
    <2>1. rdErr \in Nat
      BY <1>t DEF IoType
    <2>2. wrErr \in Nat
      BY <1>t DEF IoType
    <2>3. torn \in BOOLEAN
      BY <1>t DEF IoType
    <2>4. io' = [io EXCEPT !.sock = "broken", !.rd = 0, !.rdErr = rdErr, !.wr = 0,
                           !.wrErr = wrErr, !.inbox = {}, !.part = FALSE, !.torn = torn]
      BY <1>17 DEF LoseConnection, ConnectionLost
    <2>5. io' \in IoType
      BY <1>t, <2>1, <2>2, <2>3, <2>4, BrokenType
    <2>6. Writes(io') = Writes(io)
      BY <1>t, <2>4 DEF IoType, Writes
    <2>7. TypeOK'
      BY <1>17, <2>5 DEF LoseConnection, ConnectionLost, TypeInv, TypeOK
    <2> QED
      BY <1>17, <2>5, <2>6, <2>7, KeepsWrites DEF LoseConnection, ConnectionLost, TypeInv
  <1>18. CASE TimerExpires
    <2>1. io' \in IoType /\ Writes(io') = Writes(io)
      BY <1>t, <1>18 DEF TimerExpires, sessionVars
    <2>4. reconnectTimer' \in TimerType
      BY <1>18, TimerFacts DEF TimerExpires, TypeInv, TypeOK
    <2>5. TypeOK'
      BY <1>18, <2>1, <2>4 DEF TimerExpires, sessionVars, TypeInv, TypeOK
    <2> QED
      BY <1>18, <2>1, <2>5, KeepsWrites DEF TimerExpires, sessionVars, TypeInv
  <1>19. CASE Write
    <2>1. io.wr > 0
      BY <1>19 DEF Write, WriteCompletes
    <2>2. Writes(io) >= 1
      BY <1>t, <2>1 DEF IoType, Writes
    <2>3. Head(msgQueue) \in Reqs
      BY <1>t, <2>2 DEF TypeInv, TypeOK, SingleWrite
    <2> DEFINE wr   == io.wr - 1
               wrOk == io.wrOk + 1
               sent == io.sent \cup {Head(msgQueue)}
    <2>4. wr \in Nat /\ wrOk \in Nat
      BY <1>t, <2>1 DEF IoType
    <2>5. sent \in SUBSET Reqs
      BY <1>t, <2>3 DEF IoType
    <2>6. io' = [io EXCEPT !.wr = wr, !.wrOk = wrOk, !.sent = sent]
      BY <1>19 DEF Write, WriteCompletes
    <2>7. io' \in IoType
      BY <1>t, <2>4, <2>5, <2>6, WrittenType
    <2>8. Writes(io') = Writes(io)
      BY <1>t, <2>6 DEF IoType, Writes
    <2>9. TypeOK'
      BY <1>19, <2>7 DEF Write, WriteCompletes, clientVars, TypeInv, TypeOK
    <2> QED
      BY <1>19, <2>7, <2>8, <2>9, KeepsWrites DEF Write, WriteCompletes, TypeInv
  <1>20. CASE Arrive
    <2>1. io' = [io EXCEPT !.part = TRUE]
      BY <1>20 DEF Arrive, ReadPart
    <2>2. io' \in IoType
      BY <1>t, <2>1 DEF IoType
    <2>3. Writes(io') = Writes(io)
      BY <1>t, <2>1 DEF IoType, Writes
    <2>4. TypeOK'
      BY <1>20, <2>2 DEF Arrive, ReadPart, clientVars, TypeInv, TypeOK
    <2> QED
      BY <1>20, <2>2, <2>3, <2>4, KeepsWrites DEF Arrive, ReadPart, TypeInv
  <1>21. CASE Read
    <2>1. PICK m \in io.inbox : ReadCompletes(m)
      BY <1>21 DEF Read
    <2>2. m \in Messages /\ [m EXCEPT !.ok = FALSE] \in Messages
      BY <1>t DEF IoType, Messages
    <2> DEFINE rd    == io.rd - 1
               inbox == io.inbox \ {m}
               got   == io.got \cup {m}
               bad   == io.got \cup {[m EXCEPT !.ok = FALSE]}
               Kept  == io' \in IoType /\ Writes(io') = Writes(io)
    <2>3. rd \in Nat
      BY <1>t, <2>1 DEF ReadCompletes, IoType
    <2>4. inbox \in SUBSET Messages /\ got \in SUBSET Messages /\ bad \in SUBSET Messages
      BY <1>t, <2>2 DEF IoType
    <2>a. \/ io' = [io EXCEPT !.rd = rd, !.inbox = inbox, !.part = FALSE, !.got = got]
          \/ io' = [io EXCEPT !.rd = rd, !.inbox = inbox, !.part = FALSE, !.got = bad, !.torn = TRUE]
          \/ io' = [io EXCEPT !.inbox = inbox, !.part = FALSE, !.torn = TRUE]
      BY <2>1 DEF ReadCompletes
    <2>8. Kept
      <3> HIDE DEF rd, inbox, got, bad
      <3>1. CASE io' = [io EXCEPT !.rd = rd, !.inbox = inbox, !.part = FALSE, !.got = got]
        BY <1>t, <2>3, <2>4, <3>1 DEF IoType, Writes
      <3>2. CASE io' = [io EXCEPT !.rd = rd, !.inbox = inbox, !.part = FALSE, !.got = bad,
                                  !.torn = TRUE]
        BY <1>t, <2>3, <2>4, <3>2 DEF IoType, Writes
      <3>3. CASE io' = [io EXCEPT !.inbox = inbox, !.part = FALSE, !.torn = TRUE]
        BY <1>t, <2>3, <2>4, <3>3 DEF IoType, Writes
      <3> QED
        BY <2>a, <3>1, <3>2, <3>3
    <2>9. TypeOK'
      BY <1>21, <2>1, <2>8 DEF Read, ReadCompletes, clientVars, TypeInv, TypeOK
    <2> QED
      BY <2>1, <2>8, <2>9, KeepsWrites DEF ReadCompletes, TypeInv
  <1>22. CASE Answer
    <2>1. PICK r \in io.sent : PeerAnswers(r)
      BY <1>22 DEF Answer
    <2> DEFINE m == [id |-> Id(r), ans |-> r, ok |-> TRUE]
    <2>2. r \in Reqs /\ r \in Nat
      BY <1>t DEF IoType, Reqs
    <2>3. Id(r) \in Ids
      BY <2>2 DEF Id, Ids
    <2>4. m \in Messages
      BY <2>2, <2>3 DEF Messages, Reqs
    <2>5. io.replied \cup {r} \in SUBSET Reqs /\ io.inbox \cup {m} \in SUBSET Messages
      BY <1>t, <2>2, <2>4 DEF IoType
    <2>6. io' = [io EXCEPT !.replied = io.replied \cup {r}, !.inbox = io.inbox \cup {m}]
      BY <2>1 DEF PeerAnswers
    <2>7. io' \in IoType
      BY <1>t, <2>5, <2>6 DEF IoType
    <2>8. Writes(io') = Writes(io)
      BY <1>t, <2>6 DEF IoType, Writes
    <2>9. TypeOK'
      BY <1>22, <2>1, <2>7 DEF Answer, PeerAnswers, clientVars, TypeInv, TypeOK
    <2> QED
      BY <2>1, <2>7, <2>8, <2>9, KeepsWrites DEF PeerAnswers, TypeInv
  <1>23. CASE Notify
    <2>1. PICK id \in NotifyIds : PeerNotifies(id)
      BY <1>23 DEF Notify
    <2> DEFINE m == [id |-> id, ans |-> 0, ok |-> TRUE]
    <2>2. m \in Messages
      BY <2>1 DEF Messages
    <2>3. io' = [io EXCEPT !.inbox = io.inbox \cup {m}]
      BY <2>1 DEF PeerNotifies
    <2>4. io' \in IoType
      BY <1>t, <2>2, <2>3 DEF IoType
    <2>5. Writes(io') = Writes(io)
      BY <1>t, <2>3 DEF IoType, Writes
    <2>6. TypeOK'
      BY <1>23, <2>1, <2>4 DEF Notify, PeerNotifies, clientVars, TypeInv, TypeOK
    <2> QED
      BY <2>1, <2>4, <2>5, <2>6, KeepsWrites DEF PeerNotifies, TypeInv
  <1> QED
    BY <1>1, <1>2, <1>3, <1>4, <1>5, <1>6, <1>8, <1>9, <1>10, <1>11, <1>12, <1>13,
       <1>14, <1>15, <1>16, <1>17, <1>18, <1>19, <1>20, <1>21, <1>22, <1>23
    DEF Next, Handlers, Environment

(* A step that changes nothing keeps the types.                            *)
LEMMA TypeStutter == ASSUME TypeInv, UNCHANGED vars PROVE TypeInv'
  BY DEF TypeInv, TypeOK, SingleWrite, vars, sessionVars, clientVars

(* The variables of the client keep their types, through every connection, *)
(* failure and stop().                                                     *)
THEOREM ClientTypes == Spec => []TypeOK
  <1>1. TypeInv /\ [Next]_vars => TypeInv'
    BY TypeStep, TypeStutter
  <1>2. TypeInv => TypeOK
    BY DEF TypeInv
  <1> QED
    BY TypeInit, <1>1, <1>2, PTL DEF Spec

(* At most one write is in progress on the socket and its message is at    *)
(* the front of _msgQueue: the handler of a write always pops the message  *)
(* that was written.                                                       *)
THEOREM WritesAreSingle == Spec => []SingleWrite
  <1>1. TypeInv /\ [Next]_vars => TypeInv'
    BY TypeStep, TypeStutter
  <1>2. TypeInv => SingleWrite
    BY DEF TypeInv
  <1> QED
    BY TypeInit, <1>1, <1>2, PTL DEF Spec

-----------------------------------------------------------------------------
(* Only three kinds of steps touch the contexts and the promises.          *)
LEMMA Quiet ==
    ASSUME Next
    PROVE  \/ IssueRequest \/ ReadBody \/ ReadFailed \/ WriteFailed
           \/ UNCHANGED <<issued, lstRequestCtx, result>>
  BY DEF Next, Handlers, Environment, SyncConnectOk, SyncConnectRefused, CallRequest,
         request, WriteDone, writeDone, ConnectOk, ConnectFailed, OnTimer,
         SetAutoReconnectOff, StopSession, sessionVars, ConnectionEstablished,
         ConnectionRefused, LoseConnection, ConnectionLost, TimerExpires, Write,
         WriteCompletes, Arrive, ReadPart, Read, ReadCompletes, Answer, PeerAnswers,
         Notify, PeerNotifies

(* PromiseOnce needs that a request gets no result before its lambda ran.  *)
Fresh == \A r \in Reqs : r > issued => result[r] = Pending

PromiseInv == TypeInv /\ PromiseOnce /\ Fresh

(* Every handler keeps the contexts in step with the promises.             *)
LEMMA PromiseStep ==
    ASSUME PromiseInv, [Next]_vars
    PROVE  PromiseInv'
  <1> USE SessionAssumption
  <1>t. TypeInv'
    BY TypeStep, TypeStutter DEF PromiseInv
  <1>u. /\ MaxReq \in Nat /\ issued \in 0..MaxReq
        /\ lstRequestCtx \subseteq 1..issued
        /\ result \in [Reqs -> Reqs \cup {0, Pending, NetError}]
    BY DEF PromiseInv, TypeInv, TypeOK
  <1>v. /\ \A r \in 1..issued : r \in lstRequestCtx <=> result[r] = Pending
        /\ \A r \in Reqs : r > issued => result[r] = Pending
    BY DEF PromiseInv, PromiseOnce, Fresh
  <1>1. CASE IssueRequest
    <2>1. /\ issued' = issued + 1 /\ lstRequestCtx' = lstRequestCtx \cup {issued + 1}
          /\ result' = result /\ issued' \in 0..MaxReq
      BY <1>1, <1>t DEF IssueRequest, issueRequest, TypeInv, TypeOK
    <2>2. result[issued + 1] = Pending
      BY <1>u, <1>v, <2>1 DEF Reqs
    <2>3. PromiseOnce' /\ Fresh'
      BY <1>u, <1>v, <2>1, <2>2 DEF PromiseOnce, Fresh, Reqs
    <2> QED
      BY <1>t, <2>3 DEF PromiseInv
  <1>2. CASE ReadBody
    <2>1. PICK m \in io.got : readBody(m)
      BY <1>2 DEF ReadBody
    <2>2. m.ans # Pending
      BY DEF PromiseInv, TypeInv, TypeOK, IoType, Messages
    <2>3. CASE Matching(m) = {} \/ ~m.ok
      BY <1>t, <1>v, <2>1, <2>3 DEF readBody, PromiseInv, PromiseOnce, Fresh
    <2>4. CASE Matching(m) # {} /\ m.ok
      <3> DEFINE r == findReqPromise(m)
      <3>1. r \in lstRequestCtx
        BY <1>u, <2>4, MinOfNaturals DEF findReqPromise, Matching
      <3>2. /\ lstRequestCtx' = lstRequestCtx \ {r} /\ result' = [result EXCEPT ![r] = m.ans]
            /\ issued' = issued
        BY <2>1, <2>4 DEF readBody
      <3> HIDE DEF r
      <3>3. r \in Reqs /\ r \in 1..issued
        BY <1>u, <3>1 DEF Reqs
      <3>4. PromiseOnce' /\ Fresh'
        BY <1>u, <1>v, <2>2, <3>1, <3>2, <3>3 DEF PromiseOnce, Fresh, Reqs
      <3> QED
        BY <1>t, <3>4 DEF PromiseInv
    <2> QED
      BY <2>3, <2>4
  <1>3. CASE ReadFailed \/ WriteFailed
    <2>1. /\ lstRequestCtx' = {} /\ issued' = issued
          /\ result' = [r \in Reqs |-> IF r \in lstRequestCtx THEN NetError ELSE result[r]]
      BY <1>3 DEF ReadFailed, WriteFailed, NetErrorHandler, handleNetError
    <2>2. PromiseOnce' /\ Fresh'
      BY <1>u, <1>v, <2>1 DEF PromiseOnce, Fresh, Reqs
    <2> QED
      BY <1>t, <2>2 DEF PromiseInv
  <1>4. CASE UNCHANGED <<issued, lstRequestCtx, result>>
    BY <1>t, <1>4 DEF PromiseInv, PromiseOnce, Fresh
  <1>5. CASE UNCHANGED vars
    BY <1>4, <1>5 DEF vars, sessionVars
  <1> QED
    BY <1>1, <1>2, <1>3, <1>4, <1>5, Quiet

(* No promise is set twice and none is lost: a request that was issued is  *)
(* in _lstRequestCtx exactly as long as its future has no value.           *)
THEOREM PromisesSetOnce == Spec => []PromiseOnce
  <1>1. Init => PromiseInv
    <2> SUFFICES ASSUME Init PROVE PromiseInv
      OBVIOUS
    <2>1. issued = 0 /\ result = [r \in Reqs |-> Pending]
      BY DEF Init, SessionInit
    <2> QED
      BY <2>1, TypeInit DEF PromiseInv, PromiseOnce, Fresh
  <1>2. PromiseInv /\ [Next]_vars => PromiseInv'
    BY PromiseStep
  <1>3. PromiseInv => PromiseOnce
    BY DEF PromiseInv
  <1> QED
    BY <1>1, <1>2, <1>3, PTL DEF Spec

-----------------------------------------------------------------------------
(* The condition under which ids identify requests: _msgID has not wrapped *)
(* and the peer numbers its own messages outside the range in use.  It is  *)
(* needed even if there is one caller: a request that has failed may still *)
(* be in _msgQueue, behind one whose write handler has not run, and its    *)
(* answer may then come as late as the peer likes.                         *)
IdsAreDistinct == MaxReq < IdMod /\ \A n \in NotifyIds : n \notin Reqs

(* Every message on its way carries the id of the request it answers.      *)
Genuine(m) == \/ m.ans = 0 /\ m.id \in NotifyIds
              \/ m.ans \in Reqs /\ m.id = Id(m.ans)

MessagesGenuine == \A m \in io.got \cup io.inbox : Genuine(m)

AnswerInv == PromiseInv /\ OwnAnswer /\ MessagesGenuine

(* While _msgID has not wrapped the id of a request is its number.         *)
LEMMA IdIsNumber ==
    ASSUME IdsAreDistinct, NEW r \in Reqs
    PROVE  Id(r) = r
  BY SessionAssumption DEF IdsAreDistinct, Id, Reqs

(* What a genuine message matches is the request it answers.               *)
LEMMA MatchIsOwn ==
    ASSUME AnswerInv, IdsAreDistinct, NEW m, Genuine(m), Matching(m) # {}
    PROVE  /\ m.ans \in lstRequestCtx
           /\ findReqPromise(m) = m.ans
           /\ m.ans \in Reqs
  <1>1. lstRequestCtx \subseteq Reqs
    BY SessionAssumption DEF AnswerInv, PromiseInv, TypeInv, TypeOK, Reqs
  <1>2. \A r \in Matching(m) : r \in lstRequestCtx /\ r \in Reqs /\ Id(r) = r /\ r = m.id
    BY <1>1, IdIsNumber DEF Matching
  <1>3. m.ans \in Reqs /\ m.id = m.ans
    BY <1>2, IdIsNumber DEF Genuine, IdsAreDistinct
  <1>4. Matching(m) = {m.ans}
    BY <1>2, <1>3
  <1>5. Min({m.ans}) \in {m.ans}
    BY <1>3, MinOfNaturals DEF Reqs
  <1> QED
    BY <1>2, <1>3, <1>4, <1>5 DEF findReqPromise

(* Every step of the network and of the socket leaves genuine messages.    *)
LEMMA GenuineStep ==
    ASSUME AnswerInv, [Next]_vars
    PROVE  MessagesGenuine'
  <1> DEFINE Keeps == io'.got \cup io'.inbox \subseteq io.got \cup io.inbox
  <1>t. io \in IoType
    BY DEF AnswerInv, PromiseInv, TypeInv, TypeOK
  <1>g. \A m \in io.got \cup io.inbox : Genuine(m)
    BY DEF AnswerInv, MessagesGenuine
  <1>k. ASSUME Keeps PROVE MessagesGenuine'
    BY <1>g, <1>k DEF MessagesGenuine, Genuine
  <1>1. CASE SyncConnectOk
    <2>1. [io EXCEPT !.sock = "connected"] \in IoType
      BY <1>t DEF IoType
    <2> QED
      BY <1>t, <1>k, <1>1, <2>1, AsyncReadFacts DEF SyncConnectOk, startSession, IoType
  <1>2. CASE IssueRequest
    BY <1>t, <1>k, <1>2, AsyncWriteFacts DEF IssueRequest, issueRequest
  <1>3. CASE WriteDone
    <2> DEFINE i == [io EXCEPT !.wrOk = @ - 1]
    <2>1. i \in IoType /\ i.got = io.got /\ i.inbox = io.inbox
      BY <1>t, <1>3 DEF WriteDone, writeDone, IoType
    <2>2. io' = IF Tail(msgQueue) # <<>> THEN AsyncWrite(i) ELSE i
      BY <1>3 DEF WriteDone, writeDone
    <2> HIDE DEF i
    <2> QED
      BY <1>k, <2>1, <2>2, AsyncWriteFacts
  <1>4. CASE ReadBody
    <2>1. PICK m \in io.got : readBody(m)
      BY <1>4 DEF ReadBody
    <2> DEFINE i == [io EXCEPT !.got = @ \ {m}]
    <2>2. i \in IoType /\ i.got = io.got \ {m} /\ i.inbox = io.inbox
      BY <1>t DEF IoType
    <2>3. io' = AsyncRead(i)
      BY <2>1 DEF readBody
    <2> HIDE DEF i
    <2> QED
      BY <1>k, <2>2, <2>3, AsyncReadFacts
  <1>5. ASSUME NEW i \in IoType, i.got = io.got, NetErrorHandler(i)
        PROVE  MessagesGenuine'
    <2>1. Close(i) \in IoType /\ Close(i).got = io.got /\ Close(i).inbox = {}
      BY <1>5, CloseFacts
    <2> QED
      BY <1>k, <1>5, <2>1, AsyncConnectFacts DEF NetErrorHandler, handleNetError
  <1>6. CASE ReadFailed
    <2>1. [io EXCEPT !.rdErr = @ - 1] \in IoType /\ [io EXCEPT !.rdErr = @ - 1].got = io.got
      BY <1>t, <1>6 DEF ReadFailed, IoType
    <2> QED
      BY <1>5, <1>6, <2>1 DEF ReadFailed
  <1>7. CASE WriteFailed
    <2>1. [io EXCEPT !.wrErr = @ - 1] \in IoType /\ [io EXCEPT !.wrErr = @ - 1].got = io.got
      BY <1>t, <1>7 DEF WriteFailed, IoType
    <2> QED
      BY <1>5, <1>7, <2>1 DEF WriteFailed
  <1>8. CASE ConnectOk
    <2> DEFINE i == [io EXCEPT !.cnOk = @ - 1]
    <2>1. i \in IoType /\ i.got = io.got /\ i.inbox = io.inbox
      BY <1>t, <1>8 DEF ConnectOk, IoType
    <2>2. io' = AsyncRead(i)
      BY <1>8 DEF ConnectOk, startSession
    <2> HIDE DEF i
    <2> QED
      BY <1>k, <2>1, <2>2, AsyncReadFacts
  <1>9. CASE OnTimer
    BY <1>t, <1>k, <1>9, AsyncConnectFacts DEF OnTimer
  <1>10. CASE StopSession
    BY <1>t, <1>k, <1>10, CloseFacts DEF StopSession, stopSession
  <1>11. CASE \/ SyncConnectRefused \/ ConnectFailed \/ ConnectionEstablished
              \/ ConnectionRefused \/ LoseConnection \/ Write \/ Arrive
    BY <1>t, <1>k, <1>11
    DEF SyncConnectRefused, ConnectFailed, ConnectionEstablished, ConnectionRefused,
        LoseConnection, ConnectionLost, Write, WriteCompletes, Arrive, ReadPart, IoType
  <1>12. CASE CallRequest \/ SetAutoReconnectOff \/ TimerExpires \/ UNCHANGED vars
    BY <1>k, <1>12
    DEF CallRequest, request, SetAutoReconnectOff, TimerExpires, vars, sessionVars
  <1>13. CASE Read
    <2>1. PICK m \in io.inbox : ReadCompletes(m)
      BY <1>13 DEF Read
    <2>2. m \in Messages
      BY <1>t DEF IoType
    <2>3. Genuine(m) /\ Genuine([m EXCEPT !.ok = FALSE])
      BY <1>g, <2>2 DEF Genuine, Messages
    <2> DEFINE bad == [m EXCEPT !.ok = FALSE]
    <2>4. io'.got \subseteq io.got \cup {m, bad} /\ io'.inbox \subseteq io.inbox
      <3>1. CASE io' = [io EXCEPT !.rd = @ - 1, !.inbox = @ \ {m}, !.part = FALSE,
                                  !.got = @ \cup {m}]
        BY <1>t, <3>1 DEF IoType
      <3>2. CASE io' = [io EXCEPT !.rd = @ - 1, !.inbox = @ \ {m}, !.part = FALSE,
                                  !.got = @ \cup {bad}, !.torn = TRUE]
        <4> HIDE DEF bad
        <4> QED
          BY <1>t, <3>2 DEF IoType
      <3>3. CASE io' = [io EXCEPT !.inbox = @ \ {m}, !.part = FALSE, !.torn = TRUE]
        BY <1>t, <3>3 DEF IoType
      <3> QED
        BY <2>1, <3>1, <3>2, <3>3 DEF ReadCompletes
    <2>5. \A k \in io'.got \cup io'.inbox : Genuine(k)
      BY <1>g, <2>3, <2>4
    <2> QED
      BY <2>5 DEF MessagesGenuine, Genuine
  <1>14. CASE Answer
    <2>1. PICK r \in io.sent : PeerAnswers(r)
      BY <1>14 DEF Answer
    <2> DEFINE m == [id |-> Id(r), ans |-> r, ok |-> TRUE]
    <2>2. Genuine(m)
      BY <1>t DEF Genuine, IoType
    <2>3. io'.got = io.got /\ io'.inbox = io.inbox \cup {m}
      BY <1>t, <2>1 DEF PeerAnswers, IoType
    <2>4. \A k \in io'.got \cup io'.inbox : Genuine(k)
      BY <1>g, <2>2, <2>3
    <2> QED
      BY <2>4 DEF MessagesGenuine, Genuine
  <1>15. CASE Notify
    <2>1. PICK id \in NotifyIds : PeerNotifies(id)
      BY <1>15 DEF Notify
    <2> DEFINE m == [id |-> id, ans |-> 0, ok |-> TRUE]
    <2>2. Genuine(m)
      BY DEF Genuine
    <2>3. io'.got = io.got /\ io'.inbox = io.inbox \cup {m}
      BY <1>t, <2>1 DEF PeerNotifies, IoType
    <2>4. \A k \in io'.got \cup io'.inbox : Genuine(k)
      BY <1>g, <2>2, <2>3
    <2> QED
      BY <2>4 DEF MessagesGenuine, Genuine
  <1> QED
    BY <1>1, <1>2, <1>3, <1>4, <1>6, <1>7, <1>8, <1>9, <1>10, <1>11, <1>12, <1>13,
       <1>14, <1>15 DEF Next, Handlers, Environment

(* A new client has no messages and no results.                            *)
LEMMA AnswerInit == Init => AnswerInv
  <1> SUFFICES ASSUME Init PROVE AnswerInv
    OBVIOUS
  <1>1. /\ issued = 0 /\ result = [r \in Reqs |-> Pending]
        /\ io.got = {} /\ io.inbox = {}
    BY DEF Init, SessionInit, IoInit
  <1>2. PromiseInv
    BY <1>1, TypeInit DEF PromiseInv, PromiseOnce, Fresh
  <1>3. OwnAnswer /\ MessagesGenuine
    BY <1>1 DEF OwnAnswer, MessagesGenuine
  <1> QED
    BY <1>2, <1>3 DEF AnswerInv

(* A step changes the results in one of the ways that RpcFuture allows.    *)
LEMMA ResultStep ==
    ASSUME AnswerInv, IdsAreDistinct, Next
    PROVE  \/ result' = result
           \/ \E r \in lstRequestCtx : result' = [result EXCEPT ![r] = r]
           \/ result' = [r \in Reqs |-> IF r \in lstRequestCtx THEN NetError ELSE result[r]]
  <1>1. CASE IssueRequest
    BY <1>1 DEF IssueRequest, issueRequest
  <1>2. CASE ReadBody
    <2>1. PICK m \in io.got : readBody(m)
      BY <1>2 DEF ReadBody
    <2>2. Genuine(m)
      BY DEF AnswerInv, MessagesGenuine
    <2> QED
      BY <2>1, <2>2, MatchIsOwn DEF readBody
  <1>3. CASE ReadFailed \/ WriteFailed
    BY <1>3 DEF ReadFailed, WriteFailed, NetErrorHandler, handleNetError
  <1> QED
    BY <1>1, <1>2, <1>3, Quiet

(* Every step keeps the answers own: only readBody sets a promise to one.  *)
LEMMA AnswerStep ==
    ASSUME AnswerInv, IdsAreDistinct, [Next]_vars
    PROVE  AnswerInv'
  <1>1. PromiseInv' /\ MessagesGenuine'
    BY PromiseStep, GenuineStep DEF AnswerInv
  <1>2. result \in [Reqs -> Reqs \cup {0, Pending, NetError}] /\ lstRequestCtx \subseteq Reqs
    BY SessionAssumption DEF AnswerInv, PromiseInv, TypeInv, TypeOK, Reqs
  <1>3. OwnAnswer'
    <2>1. CASE Next
      BY <1>2, <2>1, ResultStep DEF AnswerInv, OwnAnswer
    <2>2. CASE UNCHANGED vars
      BY <2>2 DEF AnswerInv, OwnAnswer, vars, sessionVars
    <2> QED
      BY <2>1, <2>2
  <1> QED
    BY <1>1, <1>3 DEF AnswerInv

(* As long as ids identify requests, no caller ever receives the answer to *)
(* another request, whatever is lost, closed, retried or out of order.     *)
THEOREM AnswersAreOwn == IdsAreDistinct => (Spec => []OwnAnswer)
  <1> SUFFICES ASSUME IdsAreDistinct PROVE Spec => []OwnAnswer
    OBVIOUS
  <1>1. Init => AnswerInv
    BY AnswerInit
  <1>2. AnswerInv /\ [Next]_vars => AnswerInv'
    BY AnswerStep
  <1>3. AnswerInv => OwnAnswer
    BY DEF AnswerInv
  <1> QED
    BY <1>1, <1>2, <1>3, PTL DEF Spec

(* Every step of the client is a step of RpcFuture or invisible to it.     *)
LEMMA RefineStep ==
    ASSUME AnswerInv, IdsAreDistinct, [Next]_vars
    PROVE  [Abs!Next]_Abs!vars
  <1>1. /\ MaxReq \in Nat /\ posted \in 0..MaxReq /\ issued \in 0..posted
        /\ lstRequestCtx \subseteq 1..issued
        /\ result \in [Reqs -> Reqs \cup {0, Pending, NetError}]
    BY SessionAssumption DEF AnswerInv, PromiseInv, TypeInv, TypeOK
  <1>2. \A r \in lstRequestCtx : r \in Abs!Reqs /\ r <= posted /\ result[r] = Pending
    BY <1>1 DEF AnswerInv, PromiseInv, PromiseOnce, Abs!Reqs
  <1>3. CASE CallRequest
    <2>1. Abs!Call
      BY <1>3 DEF CallRequest, request, Abs!Call
    <2> QED
      BY <2>1 DEF Abs!Next
  <1>4. CASE Next /\ ~CallRequest
    <2>1. posted' = posted
      BY <1>4 DEF Next, Handlers, Environment, SyncConnectOk, SyncConnectRefused, IssueRequest,
         issueRequest, WriteDone, writeDone, ReadBody, readBody, ReadFailed, WriteFailed,
         NetErrorHandler, handleNetError, ConnectOk, ConnectFailed, OnTimer,
         SetAutoReconnectOff, StopSession, sessionVars, ConnectionEstablished,
         ConnectionRefused, LoseConnection, ConnectionLost, TimerExpires, Write,
         WriteCompletes, Arrive, ReadPart, Read, ReadCompletes, Answer, PeerAnswers,
         Notify, PeerNotifies
    <2>2. CASE result' = result
      BY <2>1, <2>2 DEF Abs!vars
    <2>3. ASSUME NEW r \in lstRequestCtx, result' = [result EXCEPT ![r] = r]
          PROVE  Abs!Next
      <3>1. r \in Abs!Reqs /\ Abs!Answer(r)
        BY <1>2, <2>1, <2>3 DEF Abs!Answer
      <3> QED
        BY <3>1 DEF Abs!Next
    <2>4. CASE result' = [r \in Reqs |-> IF r \in lstRequestCtx THEN NetError ELSE result[r]]
      <3>1. lstRequestCtx \in SUBSET Abs!Reqs
        BY <1>2
      <3>2. Abs!Fail(lstRequestCtx)
        BY <1>2, <2>1, <2>4 DEF Abs!Fail, Abs!Reqs, Reqs
      <3> QED
        BY <3>1, <3>2 DEF Abs!Next
    <2> QED
      BY <1>4, <2>2, <2>3, <2>4, ResultStep
  <1>5. CASE UNCHANGED vars
    BY <1>5 DEF vars, sessionVars, Abs!vars
  <1> QED
    BY <1>3, <1>4, <1>5

(* The client implements RpcFuture: what its callers see of the network,   *)
(* the reconnects and the queues is only calls that end once, with their   *)
(* own answer or with a network error.                                     *)
THEOREM ClientRefines == IdsAreDistinct => (Spec => Refines)
  <1> SUFFICES ASSUME IdsAreDistinct PROVE Spec => Refines
    OBVIOUS
  <1>1. Init => Abs!Init
    BY DEF Init, SessionInit, Abs!Init, Abs!Reqs, Reqs
  <1>2. Init => AnswerInv
    BY AnswerInit
  <1>3. AnswerInv /\ [Next]_vars => AnswerInv'
    BY AnswerStep
  <1>4. AnswerInv /\ [Next]_vars => [Abs!Next]_Abs!vars
    BY RefineStep
  <1> QED
    BY <1>1, <1>2, <1>3, <1>4, PTL DEF Spec, Refines, Abs!Spec

-----------------------------------------------------------------------------
(* Reconnecting: who reads the socket, and who answers for a request.      *)

Linked(i) == i.sock \in {"connected", "broken"}

Reading(i) == i.rd + i.rdErr + i.cnOk > 0 \/ i.got # {}

(* Whoever gives the socket a peer also starts to read.                    *)
ReadInv == /\ io.sent # {} => Linked(io)
           /\ Linked(io) => Reading(io)

(* A write has failed and its message is still in front of _msgQueue,      *)
(* which handleNetError does not empty: nothing will ever be written.      *)
Stuck == msgQueue # <<>> /\ io.wr + io.wrOk = 0

One(c) == IF c THEN 1 ELSE 0

(* The reads that are going on or whose handlers are queued.               *)
Reads(i) == i.rd + i.rdErr + One(i.got # {})

(* The same for the attempts to connect.                                   *)
Connects(i) == i.cnOk + i.cnErr + One(i.sock = "connecting")

(* With the waits for the next attempt, and with syncConnect.              *)
Activities(i, t, u) == Reads(i) + Connects(i) + Count(t) + One(~u)

(* As long as no write fails the client does one thing at a time: it waits *)
(* for syncConnect, reads, connects, or waits to connect.                  *)
OneActivity ==
    ~Stuck => Activities(io, reconnectTimer, up) <= 1 /\ \A m, n \in io.got : m = n

(* The message of request r is in _msgQueue and not written.               *)
Unwritten(r) == \E k \in 1..Len(msgQueue) : msgQueue[k] = r /\ (k = 1 => io.wrOk = 0)

(* Request r was written on this connection, or an error is queued, or the *)
(* socket was closed and the next read that is started will fail.          *)
WillEnd(r, i) ==
    \/ r \in i.sent
    \/ i.rdErr > 0
    \/ ~Linked(i) /\ (i.cnOk > 0 \/ i.got # {})

OrphanInv ==
    \A r \in lstRequestCtx : \/ Unwritten(r)
                             \/ io.wrErr > 0
                             \/ ~Stuck /\ WillEnd(r, io)

ReconnectInv == TypeInv /\ ReadInv /\ OneActivity /\ OrphanInv

-----------------------------------------------------------------------------
(* What the socket operations do to the fields that matter here.           *)

(* close() ends reads and attempts to connect with an error.               *)
LEMMA CloseEffect ==
    ASSUME NEW i \in IoType
    PROVE  /\ Close(i).sock = "closed" /\ Close(i).rd = 0 /\ Close(i).rdErr = i.rdErr + i.rd
           /\ Close(i).got = i.got /\ Close(i).cnOk = i.cnOk
           /\ Close(i).cnErr = IF i.sock = "connecting" THEN i.cnErr + 1 ELSE i.cnErr
           /\ Close(i).wr = 0 /\ Close(i).wrOk = i.wrOk /\ Close(i).wrErr = i.wrErr + i.wr
           /\ Close(i).sent = {}
  BY DEF Close, IoType

(* A read that is started is in progress or has failed.                    *)
LEMMA AsyncReadEffect ==
    ASSUME NEW i \in IoType
    PROVE  /\ \/ /\ i.sock = "connected"
                 /\ AsyncRead(i).rd = i.rd + 1 /\ AsyncRead(i).rdErr = i.rdErr
              \/ /\ i.sock # "connected"
                 /\ AsyncRead(i).rd = i.rd /\ AsyncRead(i).rdErr = i.rdErr + 1
           /\ AsyncRead(i).sock = i.sock /\ AsyncRead(i).got = i.got
           /\ AsyncRead(i).cnOk = i.cnOk /\ AsyncRead(i).cnErr = i.cnErr
           /\ AsyncRead(i).wr = i.wr /\ AsyncRead(i).wrOk = i.wrOk
           /\ AsyncRead(i).wrErr = i.wrErr /\ AsyncRead(i).sent = i.sent
  BY DEF AsyncRead, IoType

(* A write that is started is in progress or has failed.                   *)
LEMMA AsyncWriteEffect ==
    ASSUME NEW i \in IoType
    PROVE  /\ \/ AsyncWrite(i).wr = i.wr + 1 /\ AsyncWrite(i).wrErr = i.wrErr
              \/ AsyncWrite(i).wr = i.wr /\ AsyncWrite(i).wrErr = i.wrErr + 1
           /\ AsyncWrite(i).wrOk = i.wrOk
           /\ AsyncWrite(i).sock = i.sock /\ AsyncWrite(i).got = i.got
           /\ AsyncWrite(i).rd = i.rd /\ AsyncWrite(i).rdErr = i.rdErr
           /\ AsyncWrite(i).cnOk = i.cnOk /\ AsyncWrite(i).cnErr = i.cnErr
           /\ AsyncWrite(i).sent = i.sent
  BY DEF AsyncWrite, IoType

(* An attempt to connect is in progress or has failed.                     *)
LEMMA AsyncConnectEffect ==
    ASSUME NEW i \in IoType
    PROVE  /\ \/ /\ i.sock \in {"closed", "open"} /\ AsyncConnect(i).sock = "connecting"
                 /\ AsyncConnect(i).cnErr = i.cnErr
              \/ /\ i.sock \notin {"closed", "open"} /\ AsyncConnect(i).sock = i.sock
                 /\ AsyncConnect(i).cnErr = i.cnErr + 1
           /\ AsyncConnect(i).rd = i.rd /\ AsyncConnect(i).rdErr = i.rdErr
           /\ AsyncConnect(i).got = i.got /\ AsyncConnect(i).cnOk = i.cnOk
           /\ AsyncConnect(i).wr = i.wr /\ AsyncConnect(i).wrOk = i.wrOk
           /\ AsyncConnect(i).wrErr = i.wrErr /\ AsyncConnect(i).sent = i.sent
  BY DEF AsyncConnect, IoType

-----------------------------------------------------------------------------
(* How many activities there are.                                          *)

(* The number of reads is a natural number.                                *)
LEMMA ReadsFacts ==
    ASSUME NEW i \in IoType
    PROVE  /\ Reads(i) \in Nat
           /\ i.rd + i.rdErr <= Reads(i)
           /\ i.got # {} => i.rd + i.rdErr + 1 = Reads(i)
           /\ i.got = {} => i.rd + i.rdErr = Reads(i)
  BY DEF Reads, One, IoType

(* The number of attempts to connect is a natural number, too.             *)
LEMMA ConnectsFacts ==
    ASSUME NEW i \in IoType
    PROVE  /\ Connects(i) \in Nat
           /\ i.cnOk + i.cnErr <= Connects(i)
           /\ i.sock = "connecting" => i.cnOk + i.cnErr + 1 = Connects(i)
           /\ i.sock # "connecting" => i.cnOk + i.cnErr = Connects(i)
  BY DEF Connects, One, IoType

(* close() ends activities, but their handlers still count.                *)
LEMMA CloseActivity ==
    ASSUME NEW i \in IoType
    PROVE  Reads(Close(i)) = Reads(i) /\ Connects(Close(i)) = Connects(i)
  <1>1. Close(i) \in IoType
    BY CloseFacts
  <1>2. /\ i.rd \in Nat /\ i.rdErr \in Nat /\ i.cnOk \in Nat /\ i.cnErr \in Nat
    BY DEF IoType
  <1>3. Reads(Close(i)) = Reads(i)
    <2>1. Close(i).rd = 0 /\ Close(i).rdErr = i.rdErr + i.rd /\ Close(i).got = i.got
      BY CloseEffect
    <2> QED
      BY <1>1, <1>2, <2>1, ReadsFacts
  <1>4. Connects(Close(i)) = Connects(i)
    <2>1. /\ Close(i).cnOk = i.cnOk /\ Close(i).sock # "connecting"
          /\ Close(i).cnErr = IF i.sock = "connecting" THEN i.cnErr + 1 ELSE i.cnErr
      BY CloseEffect
    <2> QED
      BY <1>1, <1>2, <2>1, ConnectsFacts
  <1> QED
    BY <1>3, <1>4

(* A read that is started is one more.                                     *)
LEMMA AsyncReadActivity ==
    ASSUME NEW i \in IoType
    PROVE  Reads(AsyncRead(i)) = Reads(i) + 1 /\ Connects(AsyncRead(i)) = Connects(i)
  <1>1. AsyncRead(i) \in IoType
    BY AsyncReadFacts
  <1>2. /\ i.rd \in Nat /\ i.rdErr \in Nat
    BY DEF IoType
  <1>3. Reads(AsyncRead(i)) = Reads(i) + 1
    <2>1. /\ AsyncRead(i).got = i.got
          /\ \/ AsyncRead(i).rd = i.rd + 1 /\ AsyncRead(i).rdErr = i.rdErr
             \/ AsyncRead(i).rd = i.rd /\ AsyncRead(i).rdErr = i.rdErr + 1
      BY AsyncReadEffect
    <2> QED
      BY <1>1, <1>2, <2>1, ReadsFacts
  <1>4. Connects(AsyncRead(i)) = Connects(i)
    BY AsyncReadEffect DEF Connects
  <1> QED
    BY <1>3, <1>4

(* An attempt to connect that is started is one more.                      *)
LEMMA AsyncConnectActivity ==
    ASSUME NEW i \in IoType
    PROVE  /\ Reads(AsyncConnect(i)) = Reads(i)
           /\ Connects(AsyncConnect(i)) = Connects(i) + 1
  <1>1. AsyncConnect(i) \in IoType
    BY AsyncConnectFacts
  <1>2. i.cnOk \in Nat /\ i.cnErr \in Nat
    BY DEF IoType
  <1>3. Reads(AsyncConnect(i)) = Reads(i)
    BY AsyncConnectEffect DEF Reads
  <1>4. Connects(AsyncConnect(i)) = Connects(i) + 1
    <2>1. /\ AsyncConnect(i).cnOk = i.cnOk
          /\ \/ /\ i.sock # "connecting" /\ AsyncConnect(i).sock = "connecting"
                /\ AsyncConnect(i).cnErr = i.cnErr
             \/ AsyncConnect(i).sock = i.sock /\ AsyncConnect(i).cnErr = i.cnErr + 1
      BY AsyncConnectEffect
    <2> QED
      BY <1>1, <1>2, <2>1, ConnectsFacts
  <1> QED
    BY <1>3, <1>4

-----------------------------------------------------------------------------
(* What the invariants need of a step.                                     *)

(* The fields of the I/O state and the timer have their types.             *)
LEMMA Typed ==
    ASSUME ReconnectInv
    PROVE  /\ io \in IoType /\ reconnectTimer \in TimerType /\ up \in BOOLEAN
           /\ io.rd \in Nat /\ io.rdErr \in Nat /\ io.cnOk \in Nat /\ io.cnErr \in Nat
           /\ io.wr \in Nat /\ io.wrOk \in Nat /\ io.wrErr \in Nat
           /\ msgQueue \in Seq(Reqs)
           /\ io.wr + io.wrOk + io.wrErr <= 1
           /\ io.wr + io.wrOk + io.wrErr = 1 => msgQueue # <<>>
  <1>1. io \in IoType /\ reconnectTimer \in TimerType /\ up \in BOOLEAN /\ msgQueue \in Seq(Reqs)
    BY DEF ReconnectInv, TypeInv, TypeOK
  <1>2. /\ io.wr + io.wrOk + io.wrErr <= 1
        /\ io.wr + io.wrOk + io.wrErr = 1 => msgQueue # <<>>
    BY DEF ReconnectInv, TypeInv, SingleWrite, Writes
  <1> QED
    BY <1>1, <1>2 DEF IoType

(* While no write has failed, what the one activity excludes.              *)
LEMMA Alone ==
    ASSUME ReconnectInv, ~Stuck
    PROVE  /\ Reads(io) + Connects(io) + Count(reconnectTimer) + One(~up) <= 1
           /\ Reads(io) \in Nat /\ Connects(io) \in Nat
           /\ Count(reconnectTimer) \in Nat /\ One(~up) \in {0, 1}
           /\ \A m, n \in io.got : m = n
           /\ Connects(io) + One(~up) > 0 => io.rd = 0 /\ io.rdErr = 0 /\ io.got = {}
           /\ io.rd > 0 => io.rd = 1 /\ io.rdErr = 0 /\ io.got = {}
           /\ ~up \/ io.sock = "connecting" => io.cnOk = 0
  <1>1. /\ Reads(io) \in Nat /\ Connects(io) \in Nat
        /\ Count(reconnectTimer) \in Nat /\ One(~up) \in {0, 1}
    BY Typed, ReadsFacts, ConnectsFacts, CountFacts DEF One
  <1>2. /\ Reads(io) + Connects(io) + Count(reconnectTimer) + One(~up) <= 1
        /\ \A m, n \in io.got : m = n
    BY DEF ReconnectInv, OneActivity, Activities
  <1>3. /\ Reads(io) + Connects(io) + One(~up) <= 1
    BY <1>1, <1>2
  <1>4. /\ Connects(io) + One(~up) > 0 => io.rd = 0 /\ io.rdErr = 0 /\ io.got = {}
        /\ io.rd > 0 => io.rd = 1 /\ io.rdErr = 0 /\ io.got = {}
    <2>1. /\ io.rd \in Nat /\ io.rdErr \in Nat
          /\ io.rd + io.rdErr <= Reads(io)
          /\ io.got # {} => io.rd + io.rdErr + 1 = Reads(io)
      BY Typed, ReadsFacts
    <2>2. Connects(io) + One(~up) > 0 => Reads(io) = 0
      BY <1>1, <1>3
    <2>3. Reads(io) <= 1
      BY <1>1, <1>3
    <2> QED
      BY <1>1, <2>1, <2>2, <2>3
  <1>5. ~up \/ io.sock = "connecting" => io.cnOk = 0
    <2>1. ~up => One(~up) = 1
      BY DEF One
    <2> QED
      BY <1>1, <1>3, <2>1, Typed, ConnectsFacts
  <1> QED
    BY <1>1, <1>2, <1>4, <1>5

(* A step that adds no activity while writes go on.                        *)
LEMMA ActivityKept ==
    ASSUME ReconnectInv, TypeInv', Stuck => Stuck',
           ~Stuck => /\ Activities(io', reconnectTimer', up')
                           <= Activities(io, reconnectTimer, up)
                     /\ \A m, n \in io'.got : m = n
    PROVE  OneActivity'
  <1>1. Activities(io, reconnectTimer, up) \in Nat
    BY Typed, ReadsFacts, ConnectsFacts, CountFacts DEF Activities, One
  <1>2. Activities(io', reconnectTimer', up') \in Nat
    <2>1. io' \in IoType /\ reconnectTimer' \in TimerType
      BY DEF TypeInv, TypeOK
    <2> QED
      BY <2>1, ReadsFacts, ConnectsFacts, CountFacts DEF Activities, One
  <1> QED
    BY <1>1, <1>2 DEF ReconnectInv, OneActivity

(* A step that writes nothing and takes no way out from a request.         *)
LEMMA OrphanKept ==
    ASSUME OrphanInv, msgQueue' = msgQueue, lstRequestCtx' \subseteq lstRequestCtx,
           io'.wrOk = io.wrOk, io.wrErr > 0 => io'.wrErr > 0,
           Stuck' => Stuck \/ io'.wrErr > 0,
           \A r \in lstRequestCtx : ~Stuck /\ WillEnd(r, io) => WillEnd(r, io')
    PROVE  OrphanInv'
  <1> SUFFICES ASSUME NEW r \in lstRequestCtx'
               PROVE  Unwritten(r)' \/ io'.wrErr > 0 \/ (~Stuck' /\ WillEnd(r, io'))
    BY DEF OrphanInv
  <1>1. Unwritten(r) => Unwritten(r)'
    BY DEF Unwritten
  <1> QED
    BY <1>1 DEF OrphanInv

(* A step of other threads, or of the peer, that changes nothing of this.  *)
LEMMA ElsewhereStep ==
    ASSUME ReconnectInv, io' \in IoType,
           \/ io'.sock = io.sock
           \/ io.sock \in {"closed", "open"} /\ io'.sock \in {"closed", "open"},
           io'.rd = io.rd, io'.rdErr = io.rdErr, io'.got = io.got,
           io'.cnOk = io.cnOk, io'.cnErr = io.cnErr, io'.sent = io.sent,
           io'.wr = io.wr, io'.wrOk = io.wrOk, io'.wrErr = io.wrErr,
           reconnectTimer' = reconnectTimer, up' = up,
           msgQueue' = msgQueue, lstRequestCtx' = lstRequestCtx
    PROVE  ReadInv' /\ OneActivity' /\ OrphanInv'
  <1>1. ReadInv'
    BY DEF ReconnectInv, ReadInv, Linked, Reading
  <1>2. Stuck' = Stuck
    BY DEF Stuck
  <1>3. OneActivity'
    <2>1. Activities(io', reconnectTimer', up') = Activities(io, reconnectTimer, up)
      BY DEF Activities, Reads, Connects
    <2> QED
      BY <1>2, <2>1 DEF ReconnectInv, OneActivity
  <1>4. OrphanInv'
    <2>1. \A r \in lstRequestCtx : WillEnd(r, io) => WillEnd(r, io')
      BY DEF WillEnd, Linked
    <2> QED
      BY <1>2, <2>1, OrphanKept DEF ReconnectInv
  <1> QED
    BY <1>1, <1>3, <1>4

-----------------------------------------------------------------------------
(* The steps of the client, one lemma for each action.                     *)

(* The first connection: nothing was going on before.                      *)
LEMMA SyncConnectOkStep ==
    ASSUME ReconnectInv, TypeInv', SyncConnectOk
    PROVE  ReadInv' /\ OneActivity' /\ OrphanInv'
  <1> DEFINE i == [io EXCEPT !.sock = "connected"]
  <1>1. /\ i \in IoType /\ i.sock = "connected" /\ i.rd = io.rd /\ i.rdErr = io.rdErr
        /\ i.got = io.got /\ i.cnOk = io.cnOk /\ i.cnErr = io.cnErr /\ i.sent = io.sent
        /\ i.wr = io.wr /\ i.wrOk = io.wrOk /\ i.wrErr = io.wrErr
    BY Typed DEF IoType
  <1>2. /\ ~up /\ up' = TRUE /\ io.sock \in {"closed", "open"} /\ io' = AsyncRead(i)
        /\ msgQueue' = msgQueue /\ lstRequestCtx' = lstRequestCtx
        /\ reconnectTimer' = reconnectTimer
    BY DEF SyncConnectOk, startSession
  <1> HIDE DEF i
  <1>3. /\ io'.sock = "connected" /\ io'.rd + io'.rdErr > 0 /\ io'.rdErr = io.rdErr
        /\ io'.got = io.got /\ io'.sent = io.sent
        /\ io'.wr = io.wr /\ io'.wrOk = io.wrOk /\ io'.wrErr = io.wrErr
    <2>1. io'.rd = io.rd + 1 /\ io'.rdErr = io.rdErr
      BY <1>1, <1>2, AsyncReadEffect
    <2> QED
      BY <1>1, <1>2, <2>1, Typed, AsyncReadEffect
  <1>4. ReadInv'
    <2>1. io'.cnOk \in Nat /\ io'.rd \in Nat /\ io'.rdErr \in Nat
      BY DEF TypeInv, TypeOK, IoType
    <2> QED
      BY <1>3, <2>1 DEF ReadInv, Linked, Reading
  <1>5. Stuck' = Stuck
    BY <1>2, <1>3 DEF Stuck
  <1>6. OneActivity'
    <2>1. Reads(i) = Reads(io) /\ Connects(i) = Connects(io)
      BY <1>1, <1>2 DEF Reads, Connects, One
    <2>2. Reads(io') = Reads(io) + 1 /\ Connects(io') = Connects(io)
      BY <1>1, <1>2, <2>1, AsyncReadActivity
    <2>3. One(~up) = 1 /\ One(~up') = 0
      BY <1>2 DEF One
    <2>4. Reads(io) \in Nat /\ Connects(io) \in Nat /\ Count(reconnectTimer) \in Nat
      BY Typed, ReadsFacts, ConnectsFacts, CountFacts
    <2>5. Activities(io', reconnectTimer', up') <= Activities(io, reconnectTimer, up)
      BY <1>2, <2>2, <2>3, <2>4 DEF Activities
    <2> QED
      BY <1>3, <1>5, <2>5, Alone, ActivityKept
  <1>7. OrphanInv'
    <2>1. One(~up) = 1
      BY <1>2 DEF One
    <2>2. ~Stuck => io.cnOk = 0 /\ io.got = {}
      BY <1>2, <2>1, Alone, Typed
    <2>3. \A r \in lstRequestCtx : ~Stuck /\ WillEnd(r, io) => WillEnd(r, io')
      BY <1>3, <2>2 DEF WillEnd
    <2> QED
      BY <1>2, <1>3, <1>5, <2>3, OrphanKept DEF ReconnectInv
  <1> QED
    BY <1>4, <1>6, <1>7

(* A new request joins the queue, and is written if it is alone there.     *)
LEMMA IssueRequestStep ==
    ASSUME ReconnectInv, TypeInv', IssueRequest
    PROVE  ReadInv' /\ OneActivity' /\ OrphanInv'
  <1> DEFINE n == issued + 1
  <1>1. /\ lstRequestCtx' = lstRequestCtx \cup {n} /\ msgQueue' = Append(msgQueue, n)
        /\ io' = IF msgQueue = <<>> THEN AsyncWrite(io) ELSE io
        /\ reconnectTimer' = reconnectTimer /\ up' = up
    BY DEF IssueRequest, issueRequest, clientVars
  <1>2. n \in Reqs
    BY SessionAssumption DEF IssueRequest, issueRequest, ReconnectInv, TypeInv, TypeOK, Reqs
  <1>3. /\ Len(msgQueue) \in Nat /\ msgQueue' # <<>> /\ Len(msgQueue') = Len(msgQueue) + 1
        /\ \A k \in 1..Len(msgQueue) : msgQueue'[k] = msgQueue[k]
        /\ msgQueue'[Len(msgQueue) + 1] = n
        /\ msgQueue = <<>> <=> Len(msgQueue) = 0
    BY <1>1, <1>2, Typed, AppendProperties, EmptySeq
  <1>4. /\ io'.sock = io.sock /\ io'.rd = io.rd /\ io'.rdErr = io.rdErr
        /\ io'.got = io.got /\ io'.cnOk = io.cnOk /\ io'.cnErr = io.cnErr
        /\ io'.sent = io.sent /\ io'.wrOk = io.wrOk
        /\ msgQueue = <<>> => /\ io.wr = 0 /\ io.wrOk = 0 /\ io.wrErr = 0
                              /\ io'.wr = 1 \/ io'.wrErr = 1
        /\ msgQueue # <<>> => io'.wr = io.wr /\ io'.wrErr = io.wrErr
    <2>1. CASE msgQueue = <<>>
      <3>1. io.wr = 0 /\ io.wrOk = 0 /\ io.wrErr = 0
        BY <2>1, Typed
      <3>2. io' = AsyncWrite(io) /\ io \in IoType
        BY <1>1, <2>1, Typed
      <3> QED
        BY <2>1, <3>1, <3>2, AsyncWriteEffect
    <2>2. CASE msgQueue # <<>>
      BY <1>1, <2>2
    <2> QED
      BY <2>1, <2>2
  <1>5. ReadInv'
    BY <1>4 DEF ReconnectInv, ReadInv, Linked, Reading
  <1>6. (Stuck => Stuck') /\ (Stuck' => Stuck \/ io'.wrErr > 0)
    <2>1. io'.wr \in Nat /\ io'.wrErr \in Nat
      BY DEF TypeInv, TypeOK, IoType
    <2> QED
      BY <1>3, <1>4, <2>1, Typed DEF Stuck
  <1>7. OneActivity'
    <2>1. Activities(io', reconnectTimer', up') = Activities(io, reconnectTimer, up)
      BY <1>1, <1>4 DEF Activities, Reads, Connects
    <2> QED
      BY <1>4, <1>6, <2>1 DEF ReconnectInv, OneActivity
  <1>8. OrphanInv'
    <2> SUFFICES ASSUME NEW r \in lstRequestCtx'
                 PROVE  Unwritten(r)' \/ io'.wrErr > 0 \/ (~Stuck' /\ WillEnd(r, io'))
      BY DEF OrphanInv
    <2>1. CASE r = n
      <3>1. Len(msgQueue) + 1 \in 1..Len(msgQueue')
        BY <1>3
      <3>2. Len(msgQueue) + 1 = 1 => io'.wrOk = 0
        BY <1>3, <1>4
      <3> QED
        BY <1>3, <2>1, <3>1, <3>2 DEF Unwritten
    <2>2. CASE r \in lstRequestCtx
      <3>1. Unwritten(r) => Unwritten(r)'
        BY <1>3, <1>4 DEF Unwritten
      <3>2. WillEnd(r, io) => WillEnd(r, io')
        BY <1>4 DEF WillEnd, Linked
      <3>3. io.wrErr > 0 => io'.wrErr > 0
        BY <1>4, Typed
      <3> QED
        BY <1>6, <2>2, <3>1, <3>2, <3>3 DEF ReconnectInv, OrphanInv
    <2> QED
      BY <1>1, <2>1, <2>2
  <1> QED
    BY <1>5, <1>7, <1>8

(* The message that leaves the queue was written, the others were not.     *)
LEMMA WriteDoneStep ==
    ASSUME ReconnectInv, TypeInv', WriteDone
    PROVE  ReadInv' /\ OneActivity' /\ OrphanInv'
  <1> DEFINE i == [io EXCEPT !.wrOk = @ - 1]
  <1>1. /\ io.wrOk > 0 /\ msgQueue' = Tail(msgQueue)
        /\ io' = IF msgQueue' # <<>> THEN AsyncWrite(i) ELSE i
        /\ lstRequestCtx' = lstRequestCtx /\ reconnectTimer' = reconnectTimer /\ up' = up
    BY DEF WriteDone, writeDone, clientVars
  <1>2. io.wrOk = 1 /\ io.wr = 0 /\ io.wrErr = 0 /\ msgQueue # <<>>
    BY <1>1, Typed
  <1>3. /\ i \in IoType /\ i.sock = io.sock /\ i.rd = io.rd /\ i.rdErr = io.rdErr
        /\ i.got = io.got /\ i.cnOk = io.cnOk /\ i.cnErr = io.cnErr /\ i.sent = io.sent
        /\ i.wr = 0 /\ i.wrOk = 0 /\ i.wrErr = 0
    <2>1. io \in IoType /\ io.wrOk - 1 = 0
      BY <1>2, Typed
    <2>2. i = [io EXCEPT !.wrOk = 0]
      BY <2>1
    <2> HIDE DEF i
    <2> QED
      BY <1>2, <2>1, <2>2 DEF IoType
  <1> HIDE DEF i
  <1>4. /\ io'.sock = io.sock /\ io'.rd = io.rd /\ io'.rdErr = io.rdErr
        /\ io'.got = io.got /\ io'.cnOk = io.cnOk /\ io'.cnErr = io.cnErr
        /\ io'.sent = io.sent /\ io'.wrOk = 0
        /\ msgQueue' = <<>> \/ io'.wr = 1 \/ io'.wrErr = 1
    <2>1. CASE msgQueue' # <<>>
      <3>1. io' = AsyncWrite(i)
        BY <1>1, <2>1
      <3> QED
        BY <1>3, <3>1, AsyncWriteEffect
    <2>2. CASE msgQueue' = <<>>
      BY <1>1, <1>3, <2>2
    <2> QED
      BY <2>1, <2>2
  <1>5. /\ Len(msgQueue) \in Nat /\ Len(msgQueue') = Len(msgQueue) - 1
        /\ \A k \in 1..(Len(msgQueue) - 1) : msgQueue'[k] = msgQueue[k + 1]
    BY <1>1, <1>2, Typed, HeadTailProperties, EmptySeq
  <1>6. ReadInv'
    BY <1>4 DEF ReconnectInv, ReadInv, Linked, Reading
  <1>7. ~Stuck /\ (Stuck' => io'.wrErr > 0)
    <2>1. io'.wr \in Nat /\ io'.wrErr \in Nat
      BY DEF TypeInv, TypeOK, IoType
    <2> QED
      BY <1>2, <1>4, <2>1 DEF Stuck
  <1>8. OneActivity'
    <2>1. Activities(io', reconnectTimer', up') = Activities(io, reconnectTimer, up)
      BY <1>1, <1>4 DEF Activities, Reads, Connects
    <2> QED
      BY <1>4, <1>7, <2>1 DEF ReconnectInv, OneActivity
  <1>9. OrphanInv'
    <2> SUFFICES ASSUME NEW r \in lstRequestCtx'
                 PROVE  Unwritten(r)' \/ io'.wrErr > 0 \/ (~Stuck' /\ WillEnd(r, io'))
      BY DEF OrphanInv
    <2>1. ASSUME NEW k \in 1..Len(msgQueue), msgQueue[k] = r, k = 1 => io.wrOk = 0
          PROVE  Unwritten(r)'
      <3>1. k - 1 \in 1..Len(msgQueue') /\ k - 1 \in 1..(Len(msgQueue) - 1)
        BY <1>2, <1>5, <2>1
      <3>2. msgQueue'[k - 1] = r
        BY <1>5, <2>1, <3>1
      <3> QED
        BY <1>4, <3>1, <3>2 DEF Unwritten
    <2>2. WillEnd(r, io) => WillEnd(r, io')
      BY <1>4 DEF WillEnd, Linked
    <2>3. Unwritten(r) => Unwritten(r)'
      BY <2>1 DEF Unwritten
    <2>4. Unwritten(r) \/ io.wrErr > 0 \/ (~Stuck /\ WillEnd(r, io))
      BY <1>1 DEF ReconnectInv, OrphanInv
    <2> QED
      BY <1>2, <1>7, <2>2, <2>3, <2>4
  <1> QED
    BY <1>6, <1>8, <1>9

(* A message is handled and the next read is started.                      *)
LEMMA ReadBodyStep ==
    ASSUME ReconnectInv, TypeInv', ReadBody
    PROVE  ReadInv' /\ OneActivity' /\ OrphanInv'
  <1>1. PICK m \in io.got : readBody(m)
    BY DEF ReadBody
  <1> DEFINE i == [io EXCEPT !.got = @ \ {m}]
  <1>2. /\ io' = AsyncRead(i) /\ lstRequestCtx' \subseteq lstRequestCtx
        /\ msgQueue' = msgQueue /\ reconnectTimer' = reconnectTimer /\ up' = up
    BY <1>1 DEF readBody, ReadBody, clientVars
  <1>3. /\ i \in IoType /\ i.sock = io.sock /\ i.rd = io.rd /\ i.rdErr = io.rdErr
        /\ i.got = io.got \ {m} /\ i.cnOk = io.cnOk /\ i.cnErr = io.cnErr
        /\ i.sent = io.sent /\ i.wr = io.wr /\ i.wrOk = io.wrOk /\ i.wrErr = io.wrErr
    BY Typed DEF IoType
  <1> HIDE DEF i
  <1>4. /\ io'.sock = io.sock /\ io'.sent = io.sent /\ io'.got = io.got \ {m}
        /\ io'.wr = io.wr /\ io'.wrOk = io.wrOk /\ io'.wrErr = io.wrErr
        /\ io'.rd + io'.rdErr > 0
        /\ io.rdErr > 0 \/ io.sock # "connected" => io'.rdErr > 0
    <2>1. \/ io'.rd = io.rd + 1 /\ io'.rdErr = io.rdErr /\ io.sock = "connected"
          \/ io'.rd = io.rd /\ io'.rdErr = io.rdErr + 1
      BY <1>2, <1>3, AsyncReadEffect
    <2>2. io.rd \in Nat /\ io.rdErr \in Nat
      BY Typed, Zenon
    <2>3. /\ io'.rd + io'.rdErr > 0
          /\ io.rdErr > 0 \/ io.sock # "connected" => io'.rdErr > 0
      BY <2>1, <2>2
    <2> QED
      BY <1>2, <1>3, <2>3, AsyncReadEffect
  <1>5. ReadInv'
    <2>1. io'.cnOk \in Nat /\ io'.rd \in Nat /\ io'.rdErr \in Nat
      BY DEF TypeInv, TypeOK, IoType
    <2> QED
      BY <1>4, <2>1 DEF ReconnectInv, ReadInv, Linked, Reading
  <1>6. Stuck' = Stuck
    BY <1>2, <1>4 DEF Stuck
  <1>7. OneActivity'
    <2> SUFFICES ASSUME ~Stuck
                 PROVE  /\ Activities(io', reconnectTimer', up')
                              <= Activities(io, reconnectTimer, up)
                        /\ \A k, n \in io'.got : k = n
      BY <1>6, ActivityKept
    <2>1. i.got = {} /\ io.got # {} /\ io'.got = {}
      BY <1>1, <1>3, <1>4, Alone
    <2>2. Reads(i) + 1 = Reads(io)
      BY <1>3, <2>1, Typed, ReadsFacts
    <2>3. Connects(i) = Connects(io)
      BY <1>3 DEF Connects
    <2>4. Reads(io') = Reads(io) /\ Connects(io') = Connects(io)
      BY <1>2, <1>3, <2>2, <2>3, AsyncReadActivity
    <2>5. Activities(io', reconnectTimer', up') = Activities(io, reconnectTimer, up)
      BY <1>2, <2>4 DEF Activities
    <2>6. Activities(io, reconnectTimer, up) \in Nat
      BY Alone DEF Activities
    <2> QED
      BY <2>1, <2>5, <2>6
  <1>8. OrphanInv'
    <2>1. \A r \in lstRequestCtx : ~Stuck /\ WillEnd(r, io) => WillEnd(r, io')
      BY <1>4 DEF WillEnd, Linked
    <2> QED
      BY <1>2, <1>4, <1>6, <2>1, OrphanKept DEF ReconnectInv
  <1> QED
    BY <1>5, <1>7, <1>8

(* After an error the socket is closed, and every request has failed.      *)
LEMMA NetErrorStep ==
    ASSUME ReconnectInv, TypeInv', NEW i \in IoType, NetErrorHandler(i),
           i.wr = io.wr, i.wrOk = io.wrOk,
           ~Stuck => i.got = io.got /\ Reads(i) + 1 = Reads(io) /\ Connects(i) = Connects(io)
    PROVE  ReadInv' /\ OneActivity' /\ OrphanInv'
  <1>1. /\ io' = AsyncConnect(Close(i)) \/ io' = Close(i)
        /\ lstRequestCtx' = {} /\ msgQueue' = msgQueue
        /\ reconnectTimer' = reconnectTimer /\ up' = up
    BY DEF NetErrorHandler, handleNetError, clientVars
  <1>2. /\ Close(i) \in IoType /\ Close(i).sock = "closed" /\ Close(i).sent = {}
        /\ Close(i).wr = 0 /\ Close(i).wrOk = io.wrOk /\ Close(i).got = i.got
    BY CloseFacts, CloseEffect
  <1>3. /\ io'.sent = {} /\ io'.wr = 0 /\ io'.wrOk = io.wrOk /\ io'.got = i.got
        /\ io'.sock \in {"closed", "connecting"}
    BY <1>1, <1>2, AsyncConnectEffect
  <1>4. ReadInv'
    BY <1>3 DEF ReadInv, Linked
  <1>5. OneActivity'
    <2>1. Stuck => Stuck'
      BY <1>1, <1>3, Typed DEF Stuck
    <2> SUFFICES ASSUME ~Stuck
                 PROVE  /\ Activities(io', reconnectTimer', up')
                              <= Activities(io, reconnectTimer, up)
                        /\ \A k, n \in io'.got : k = n
      BY <2>1, ActivityKept
    <2>2. Reads(Close(i)) = Reads(i) /\ Connects(Close(i)) = Connects(i)
      BY CloseActivity
    <2>3. Reads(i) \in Nat /\ Connects(i) \in Nat
      BY ReadsFacts, ConnectsFacts
    <2>4. Reads(io') + 1 = Reads(io) /\ Connects(io') <= Connects(io) + 1
      BY <1>1, <1>2, <2>2, <2>3, AsyncConnectActivity
    <2>5. Reads(io') \in Nat /\ Connects(io') \in Nat
      BY ReadsFacts, ConnectsFacts DEF TypeInv, TypeOK
    <2>6. Activities(io', reconnectTimer', up') <= Activities(io, reconnectTimer, up)
      BY <1>1, <2>4, <2>5, Alone DEF Activities
    <2> QED
      BY <1>3, <2>6, Alone
  <1>6. OrphanInv'
    BY <1>1 DEF OrphanInv
  <1> QED
    BY <1>4, <1>5, <1>6

(* The handler of a read that failed ends that read.                       *)
LEMMA ReadFailedStep ==
    ASSUME ReconnectInv, TypeInv', ReadFailed
    PROVE  ReadInv' /\ OneActivity' /\ OrphanInv'
  <1> DEFINE n == io.rdErr - 1
             i == [io EXCEPT !.rdErr = n]
  <1>1. n \in Nat /\ io.rdErr = n + 1 /\ NetErrorHandler(i)
    BY Typed DEF ReadFailed
  <1> HIDE DEF n
  <1>2. /\ i \in IoType /\ i.sock = io.sock /\ i.rd = io.rd /\ i.rdErr = n
        /\ i.got = io.got /\ i.cnOk = io.cnOk /\ i.cnErr = io.cnErr
        /\ i.wr = io.wr /\ i.wrOk = io.wrOk
    BY <1>1, Typed DEF IoType
  <1> HIDE DEF i
  <1>3. Reads(i) + 1 = Reads(io)
    <2>1. io.rd \in Nat /\ io.rdErr = n + 1 /\ One(io.got # {}) \in Nat /\ n \in Nat
      BY <1>1, Typed DEF One
    <2>2. Reads(i) = io.rd + n + One(io.got # {})
      BY <1>2, Zenon DEF Reads
    <2>3. Reads(io) = io.rd + io.rdErr + One(io.got # {})
      BY DEF Reads
    <2> QED
      BY <2>1, <2>2, <2>3
  <1>4. Connects(i) = Connects(io)
    BY <1>2 DEF Connects
  <1> QED
    BY <1>1, <1>2, <1>3, <1>4, NetErrorStep

(* The handler of a write that failed leaves its message in front.         *)
LEMMA WriteFailedStep ==
    ASSUME ReconnectInv, TypeInv', WriteFailed
    PROVE  ReadInv' /\ OneActivity' /\ OrphanInv'
  <1> DEFINE n == io.wrErr - 1
             i == [io EXCEPT !.wrErr = n]
  <1>1. n \in Nat /\ io.wrErr = n + 1 /\ NetErrorHandler(i)
    BY Typed DEF WriteFailed
  <1> HIDE DEF n
  <1>2. i \in IoType /\ i.wr = io.wr /\ i.wrOk = io.wrOk
    BY <1>1, Typed DEF IoType
  <1> HIDE DEF i
  <1>3. Stuck
    BY <1>1, Typed DEF Stuck
  <1> QED
    BY <1>1, <1>2, <1>3, NetErrorStep


(* The connection is there and the next read is started.                   *)
LEMMA ConnectOkStep ==
    ASSUME ReconnectInv, TypeInv', ConnectOk
    PROVE  ReadInv' /\ OneActivity' /\ OrphanInv'
  <1> DEFINE n == io.cnOk - 1
             i == [io EXCEPT !.cnOk = n]
  <1>1. /\ n \in Nat /\ io.cnOk = n + 1 /\ io' = AsyncRead(i)
        /\ lstRequestCtx' = lstRequestCtx /\ msgQueue' = msgQueue
        /\ reconnectTimer' = reconnectTimer /\ up' = up
    BY Typed DEF ConnectOk, startSession
  <1> HIDE DEF n
  <1>2. /\ i \in IoType /\ i.sock = io.sock /\ i.rd = io.rd /\ i.rdErr = io.rdErr
        /\ i.got = io.got /\ i.cnOk = n /\ i.cnErr = io.cnErr
        /\ i.sent = io.sent /\ i.wr = io.wr /\ i.wrOk = io.wrOk /\ i.wrErr = io.wrErr
    BY <1>1, Typed DEF IoType
  <1> HIDE DEF i
  <1>3. /\ io'.sock = io.sock /\ io'.sent = io.sent /\ io'.got = io.got
        /\ io'.wr = io.wr /\ io'.wrOk = io.wrOk /\ io'.wrErr = io.wrErr
        /\ io'.rd + io'.rdErr > 0
        /\ io.rdErr > 0 \/ io.sock # "connected" => io'.rdErr > 0
    <2>1. \/ io'.rd = io.rd + 1 /\ io'.rdErr = io.rdErr /\ io.sock = "connected"
          \/ io'.rd = io.rd /\ io'.rdErr = io.rdErr + 1
      BY <1>1, <1>2, AsyncReadEffect
    <2>2. io.rd \in Nat /\ io.rdErr \in Nat
      BY Typed, Zenon
    <2>3. /\ io'.rd + io'.rdErr > 0
          /\ io.rdErr > 0 \/ io.sock # "connected" => io'.rdErr > 0
      BY <2>1, <2>2
    <2> QED
      BY <1>1, <1>2, <2>3, AsyncReadEffect
  <1>4. ReadInv'
    <2>1. io'.cnOk \in Nat /\ io'.rd \in Nat /\ io'.rdErr \in Nat
      BY DEF TypeInv, TypeOK, IoType
    <2> QED
      BY <1>3, <2>1 DEF ReconnectInv, ReadInv, Linked, Reading
  <1>5. Stuck' = Stuck
    BY <1>1, <1>3 DEF Stuck
  <1>6. OneActivity'
    <2>1. Reads(i) = Reads(io)
      BY <1>2 DEF Reads
    <2>2. Connects(i) + 1 = Connects(io)
      <3>1. io.cnErr \in Nat /\ One(io.sock = "connecting") \in Nat
        BY Typed DEF One
      <3>2. Connects(i) = n + io.cnErr + One(io.sock = "connecting")
        BY <1>2, Zenon DEF Connects
      <3>3. Connects(io) = io.cnOk + io.cnErr + One(io.sock = "connecting")
        BY DEF Connects
      <3> QED
        BY <1>1, <3>1, <3>2, <3>3
    <2>3. Reads(io') = Reads(io) + 1 /\ Connects(io') + 1 = Connects(io)
      BY <1>1, <1>2, <2>1, <2>2, AsyncReadActivity
    <2>4. /\ Reads(io) \in Nat /\ Connects(io) \in Nat /\ Connects(io') \in Nat
          /\ Count(reconnectTimer) \in Nat /\ One(~up) \in Nat
      BY Typed, ReadsFacts, ConnectsFacts, CountFacts DEF One, TypeInv, TypeOK
    <2>5. Activities(io', reconnectTimer', up') <= Activities(io, reconnectTimer, up)
      BY <1>1, <2>3, <2>4 DEF Activities
    <2> QED
      BY <1>3, <1>5, <2>5, Alone, ActivityKept
  <1>7. OrphanInv'
    <2>1. \A r \in lstRequestCtx : ~Stuck /\ WillEnd(r, io) => WillEnd(r, io')
      BY <1>3 DEF WillEnd, Linked
    <2> QED
      BY <1>1, <1>3, <1>5, <2>1, OrphanKept DEF ReconnectInv
  <1> QED
    BY <1>4, <1>6, <1>7

(* The attempt failed, and the next one is waited for.                     *)
LEMMA ConnectFailedStep ==
    ASSUME ReconnectInv, TypeInv', ConnectFailed
    PROVE  ReadInv' /\ OneActivity' /\ OrphanInv'
  <1> DEFINE n == io.cnErr - 1
  <1>1. /\ n \in Nat /\ io.cnErr = n + 1 /\ io' = [io EXCEPT !.cnErr = n]
        /\ lstRequestCtx' = lstRequestCtx /\ msgQueue' = msgQueue /\ up' = up
        /\ reconnectTimer' = AsyncWait(ExpiresFromNow(reconnectTimer))
    BY Typed DEF ConnectFailed
  <1> HIDE DEF n
  <1>2. /\ io'.sock = io.sock /\ io'.rd = io.rd /\ io'.rdErr = io.rdErr
        /\ io'.got = io.got /\ io'.cnOk = io.cnOk /\ io'.cnErr = n
        /\ io'.sent = io.sent /\ io'.wr = io.wr /\ io'.wrOk = io.wrOk /\ io'.wrErr = io.wrErr
    BY <1>1, Typed DEF IoType
  <1>3. ReadInv'
    BY <1>2 DEF ReconnectInv, ReadInv, Linked, Reading
  <1>4. Stuck' = Stuck
    BY <1>1, <1>2 DEF Stuck
  <1>5. OneActivity'
    <2>1. Reads(io') = Reads(io)
      BY <1>2 DEF Reads
    <2>2. Connects(io') + 1 = Connects(io)
      <3>1. io.cnOk \in Nat /\ One(io.sock = "connecting") \in Nat
        BY Typed DEF One
      <3>2. Connects(io') = io.cnOk + n + One(io.sock = "connecting")
        BY <1>2, Zenon DEF Connects
      <3>3. Connects(io) = io.cnOk + io.cnErr + One(io.sock = "connecting")
        BY DEF Connects
      <3> QED
        BY <1>1, <3>1, <3>2, <3>3
    <2>3. Count(reconnectTimer') = Count(reconnectTimer) + 1
      BY <1>1, Typed, ExpiresFromNowFacts, AsyncWaitFacts
    <2>4. /\ Reads(io) \in Nat /\ Connects(io) \in Nat /\ Connects(io') \in Nat
          /\ Count(reconnectTimer) \in Nat /\ One(~up) \in Nat
      BY Typed, ReadsFacts, ConnectsFacts, CountFacts DEF One, TypeInv, TypeOK
    <2>5. Activities(io', reconnectTimer', up') <= Activities(io, reconnectTimer, up)
      BY <1>1, <2>1, <2>2, <2>3, <2>4 DEF Activities
    <2> QED
      BY <1>2, <1>4, <2>5, Alone, ActivityKept
  <1>6. OrphanInv'
    <2>1. \A r \in lstRequestCtx : ~Stuck /\ WillEnd(r, io) => WillEnd(r, io')
      BY <1>2 DEF WillEnd, Linked
    <2> QED
      BY <1>1, <1>2, <1>4, <2>1, OrphanKept DEF ReconnectInv
  <1> QED
    BY <1>3, <1>5, <1>6

(* The wait is over and the next attempt is started.                       *)
LEMMA OnTimerStep ==
    ASSUME ReconnectInv, TypeInv', OnTimer
    PROVE  ReadInv' /\ OneActivity' /\ OrphanInv'
  <1>1. /\ io' = AsyncConnect(io) /\ reconnectTimer' \in HandlerTaken(reconnectTimer)
        /\ lstRequestCtx' = lstRequestCtx /\ msgQueue' = msgQueue /\ up' = up
    BY DEF OnTimer
  <1>2. /\ io'.sock = io.sock \/ (~Linked(io) /\ ~Linked(io'))
        /\ io'.rd = io.rd /\ io'.rdErr = io.rdErr
        /\ io'.got = io.got /\ io'.cnOk = io.cnOk
        /\ io'.sent = io.sent /\ io'.wr = io.wr /\ io'.wrOk = io.wrOk /\ io'.wrErr = io.wrErr
    BY <1>1, Typed, AsyncConnectEffect DEF Linked
  <1>3. ReadInv'
    BY <1>2 DEF ReconnectInv, ReadInv, Linked, Reading
  <1>4. Stuck' = Stuck
    BY <1>1, <1>2 DEF Stuck
  <1>5. OneActivity'
    <2>1. Reads(io') = Reads(io) /\ Connects(io') = Connects(io) + 1
      BY <1>1, Typed, AsyncConnectActivity
    <2>2. Count(reconnectTimer') = Count(reconnectTimer) - 1
      BY <1>1, Typed, HandlerTakenFacts
    <2>3. /\ Reads(io) \in Nat /\ Connects(io) \in Nat
          /\ Count(reconnectTimer) \in Nat /\ One(~up) \in Nat
      BY Typed, ReadsFacts, ConnectsFacts, CountFacts DEF One
    <2>4. Activities(io', reconnectTimer', up') <= Activities(io, reconnectTimer, up)
      BY <1>1, <2>1, <2>2, <2>3 DEF Activities
    <2> QED
      BY <1>2, <1>4, <2>4, Alone, ActivityKept
  <1>6. OrphanInv'
    <2>1. \A r \in lstRequestCtx : ~Stuck /\ WillEnd(r, io) => WillEnd(r, io')
      BY <1>2 DEF WillEnd, Linked
    <2> QED
      BY <1>1, <1>2, <1>4, <2>1, OrphanKept DEF ReconnectInv
  <1> QED
    BY <1>3, <1>5, <1>6


(* stop() closes the socket: reads end with an error, and a write in       *)
(* progress too.                                                           *)
LEMMA StopSessionStep ==
    ASSUME ReconnectInv, TypeInv', StopSession
    PROVE  ReadInv' /\ OneActivity' /\ OrphanInv'
  <1>1. /\ io' = Close(io) /\ reconnectTimer' = reconnectTimer
        /\ lstRequestCtx' = lstRequestCtx /\ msgQueue' = msgQueue /\ up' = up
    BY DEF StopSession, stopSession
  <1>2. /\ io'.sock = "closed" /\ io'.sent = {} /\ io'.got = io.got /\ io'.cnOk = io.cnOk
        /\ io'.rdErr = io.rdErr + io.rd
        /\ io'.wr = 0 /\ io'.wrOk = io.wrOk /\ io'.wrErr = io.wrErr + io.wr
    BY <1>1, Typed, CloseEffect
  <1>3. ReadInv'
    BY <1>2 DEF ReadInv, Linked
  <1>4. (Stuck => Stuck') /\ (Stuck' => Stuck \/ io'.wrErr > 0) /\ (io.wrErr > 0 => io'.wrErr > 0)
    BY <1>1, <1>2, Typed DEF Stuck
  <1>5. OneActivity'
    <2>1. Reads(io') = Reads(io) /\ Connects(io') = Connects(io)
      BY <1>1, Typed, CloseActivity
    <2>2. Activities(io', reconnectTimer', up') = Activities(io, reconnectTimer, up)
      BY <1>1, <2>1 DEF Activities
    <2>3. ~Stuck => Activities(io, reconnectTimer, up) \in Nat
      BY Alone DEF Activities
    <2> QED
      BY <1>2, <1>4, <2>2, <2>3, Alone, ActivityKept
  <1>6. OrphanInv'
    <2>1. Linked(io) => io.rd + io.rdErr > 0 \/ io.cnOk > 0 \/ io.got # {}
      BY Typed DEF ReconnectInv, ReadInv, Reading
    <2>2. /\ io.rd + io.rdErr > 0 => io'.rdErr > 0
          /\ io.rdErr > 0 => io'.rdErr > 0
      BY <1>2, Typed
    <2>3. \A r \in lstRequestCtx : ~Stuck /\ WillEnd(r, io) => WillEnd(r, io')
      <3> SUFFICES ASSUME NEW r \in lstRequestCtx, WillEnd(r, io) PROVE WillEnd(r, io')
        OBVIOUS
      <3>1. ~Linked(io')
        BY <1>2 DEF Linked
      <3>2. CASE r \in io.sent
        <4>1. Linked(io)
          BY <3>2 DEF ReconnectInv, ReadInv
        <4> QED
          BY <1>2, <2>1, <2>2, <3>1, <4>1 DEF WillEnd
      <3> QED
        BY <1>2, <2>2, <3>1, <3>2 DEF WillEnd
    <2> QED
      BY <1>1, <1>2, <1>4, <2>3, OrphanKept DEF ReconnectInv
  <1> QED
    BY <1>3, <1>5, <1>6

(* A connection is made: while writes go on nothing else was.              *)
LEMMA ConnectionEstablishedStep ==
    ASSUME ReconnectInv, TypeInv', ConnectionEstablished
    PROVE  ReadInv' /\ OneActivity' /\ OrphanInv'
  <1> DEFINE n == io.cnOk + 1
  <1>1. /\ n \in Nat /\ n > 0 /\ io.sock = "connecting"
        /\ io' = [io EXCEPT !.sock = "connected", !.cnOk = n]
        /\ lstRequestCtx' = lstRequestCtx /\ msgQueue' = msgQueue
        /\ reconnectTimer' = reconnectTimer /\ up' = up
    BY Typed DEF ConnectionEstablished, clientVars
  <1>a. n = io.cnOk + 1
    OBVIOUS
  <1> HIDE DEF n
  <1>2. /\ io'.sock = "connected" /\ io'.rd = io.rd /\ io'.rdErr = io.rdErr
        /\ io'.got = io.got /\ io'.cnOk = n /\ io'.cnErr = io.cnErr
        /\ io'.sent = io.sent /\ io'.wr = io.wr /\ io'.wrOk = io.wrOk /\ io'.wrErr = io.wrErr
    BY <1>1, Typed DEF IoType
  <1>3. ReadInv'
    <2>1. io'.rd + io'.rdErr + io'.cnOk > 0
      BY <1>1, <1>2, Typed
    <2> QED
      BY <1>2, <2>1 DEF ReadInv, Linked, Reading
  <1>4. Stuck' = Stuck
    BY <1>1, <1>2 DEF Stuck
  <1>5. OneActivity'
    <2>1. Reads(io') = Reads(io)
      BY <1>2 DEF Reads
    <2>2. Connects(io') = Connects(io)
      <3>1. io' \in IoType
        BY DEF TypeInv, TypeOK
      <3>2. Connects(io) = io.cnOk + io.cnErr + 1
        BY <1>1, Typed, ConnectsFacts
      <3>3. Connects(io') = n + io.cnErr
        BY <1>2, <3>1, ConnectsFacts
      <3> QED
        BY <1>a, <3>2, <3>3, Typed
    <2>3. Activities(io', reconnectTimer', up') = Activities(io, reconnectTimer, up)
      BY <1>1, <2>1, <2>2 DEF Activities
    <2>4. ~Stuck => Activities(io, reconnectTimer, up) \in Nat
      BY Alone DEF Activities
    <2> QED
      BY <1>2, <1>4, <2>3, <2>4, Alone, ActivityKept
  <1>6. OrphanInv'
    <2>1. Connects(io) > 0
      BY <1>1, Typed, ConnectsFacts
    <2>2. ~Stuck => Connects(io) + One(~up) > 0
      BY <2>1, Alone
    <2>3. ~Stuck => io.got = {} /\ io.cnOk = 0
      BY <1>1, <2>2, Alone
    <2>4. \A r \in lstRequestCtx : ~Stuck /\ WillEnd(r, io) => WillEnd(r, io')
      BY <1>2, <2>3 DEF WillEnd
    <2> QED
      BY <1>1, <1>2, <1>4, <2>4, OrphanKept DEF ReconnectInv
  <1> QED
    BY <1>3, <1>5, <1>6

(* An attempt is refused: its handler counts in its place.                 *)
LEMMA ConnectionRefusedStep ==
    ASSUME ReconnectInv, TypeInv', ConnectionRefused
    PROVE  ReadInv' /\ OneActivity' /\ OrphanInv'
  <1> DEFINE n == io.cnErr + 1
  <1>1. /\ n \in Nat /\ io.sock = "connecting"
        /\ io' = [io EXCEPT !.sock = "open", !.cnErr = n]
        /\ lstRequestCtx' = lstRequestCtx /\ msgQueue' = msgQueue
        /\ reconnectTimer' = reconnectTimer /\ up' = up
    BY Typed DEF ConnectionRefused
  <1>a. n = io.cnErr + 1
    OBVIOUS
  <1> HIDE DEF n
  <1>2. /\ io'.sock = "open" /\ io'.rd = io.rd /\ io'.rdErr = io.rdErr
        /\ io'.got = io.got /\ io'.cnOk = io.cnOk /\ io'.cnErr = n
        /\ io'.sent = io.sent /\ io'.wr = io.wr /\ io'.wrOk = io.wrOk /\ io'.wrErr = io.wrErr
    BY <1>1, Typed DEF IoType
  <1>3. ~Linked(io) /\ ~Linked(io')
    BY <1>1, <1>2 DEF Linked
  <1>4. ReadInv'
    BY <1>2, <1>3 DEF ReconnectInv, ReadInv
  <1>5. Stuck' = Stuck
    BY <1>1, <1>2 DEF Stuck
  <1>6. OneActivity'
    <2>1. Reads(io') = Reads(io)
      BY <1>2 DEF Reads
    <2>2. Connects(io') = Connects(io)
      <3>1. io' \in IoType
        BY DEF TypeInv, TypeOK
      <3>2. Connects(io) = io.cnOk + io.cnErr + 1
        BY <1>1, Typed, ConnectsFacts
      <3>3. Connects(io') = io.cnOk + n
        BY <1>2, <3>1, ConnectsFacts
      <3> QED
        BY <1>a, <3>2, <3>3, Typed
    <2>3. Activities(io', reconnectTimer', up') = Activities(io, reconnectTimer, up)
      BY <1>1, <2>1, <2>2 DEF Activities
    <2>4. ~Stuck => Activities(io, reconnectTimer, up) \in Nat
      BY Alone DEF Activities
    <2> QED
      BY <1>2, <1>5, <2>3, <2>4, Alone, ActivityKept
  <1>7. OrphanInv'
    <2>1. \A r \in lstRequestCtx : ~Stuck /\ WillEnd(r, io) => WillEnd(r, io')
      BY <1>2, <1>3 DEF WillEnd
    <2> QED
      BY <1>1, <1>2, <1>5, <2>1, OrphanKept DEF ReconnectInv
  <1> QED
    BY <1>4, <1>6, <1>7

(* The connection is lost: the reads in progress end with an error.        *)
LEMMA LoseConnectionStep ==
    ASSUME ReconnectInv, TypeInv', LoseConnection
    PROVE  ReadInv' /\ OneActivity' /\ OrphanInv'
  <1> DEFINE a == io.rdErr + io.rd
             b == io.wrErr + io.wr
  <1>1. /\ io.sock = "connected" /\ lstRequestCtx' = lstRequestCtx /\ msgQueue' = msgQueue
        /\ reconnectTimer' = reconnectTimer /\ up' = up
        /\ io' = [io EXCEPT !.sock = "broken", !.rd = 0, !.rdErr = a, !.wr = 0, !.wrErr = b,
                            !.inbox = {}, !.part = FALSE,
                            !.torn = IF io.part THEN TRUE ELSE @]
    BY DEF LoseConnection, ConnectionLost
  <1>a. /\ a = io.rdErr + io.rd /\ b = io.wrErr + io.wr
        /\ a \in Nat /\ b \in Nat
    BY Typed
  <1> HIDE DEF a, b
  <1>2. /\ io'.sock = "broken" /\ io'.rd = 0 /\ io'.rdErr = a
        /\ io'.got = io.got /\ io'.cnOk = io.cnOk /\ io'.cnErr = io.cnErr
        /\ io'.sent = io.sent /\ io'.wr = 0 /\ io'.wrOk = io.wrOk /\ io'.wrErr = b
    BY <1>1, Typed DEF IoType
  <1>b. io'.rd + io'.rdErr = io.rd + io.rdErr
    <2>1. io.rd \in Nat /\ io.rdErr \in Nat /\ a = io.rdErr + io.rd
      BY <1>a, Typed
    <2>2. io'.rd = 0 /\ io'.rdErr = a
      BY <1>2
    <2> QED
      BY <2>1, <2>2
  <1>3. ReadInv'
    <2>1. io.rd + io.rdErr + io.cnOk > 0 \/ io.got # {}
      BY <1>1 DEF ReconnectInv, ReadInv, Linked, Reading
    <2>2. io'.rd + io'.rdErr + io'.cnOk > 0 \/ io'.got # {}
      BY <1>2, <1>b, <2>1, Zenon
    <2> QED
      BY <1>2, <2>2 DEF ReadInv, Linked, Reading
  <1>4. (Stuck => Stuck') /\ (Stuck' => Stuck \/ io'.wrErr > 0) /\ (io.wrErr > 0 => io'.wrErr > 0)
    BY <1>1, <1>2, <1>a, Typed DEF Stuck
  <1>5. OneActivity'
    <2>2. Reads(io') = Reads(io)
      BY <1>2, <1>b, Zenon DEF Reads
    <2>3. Connects(io') = Connects(io)
      BY <1>1, <1>2 DEF Connects, One
    <2>4. Activities(io', reconnectTimer', up') = Activities(io, reconnectTimer, up)
      BY <1>1, <2>2, <2>3 DEF Activities
    <2>5. ~Stuck => Activities(io, reconnectTimer, up) \in Nat
      BY Alone DEF Activities
    <2> QED
      BY <1>2, <1>4, <2>4, <2>5, Alone, ActivityKept
  <1>6. OrphanInv'
    <2>1. io.rdErr > 0 => io'.rdErr > 0
      BY <1>2, <1>a, Typed
    <2>2. Linked(io) /\ io'.sent = io.sent
      BY <1>1, <1>2 DEF Linked
    <2>3. \A r \in lstRequestCtx : ~Stuck /\ WillEnd(r, io) => WillEnd(r, io')
      BY <2>1, <2>2 DEF WillEnd
    <2> QED
      BY <1>1, <1>2, <1>4, <2>3, OrphanKept DEF ReconnectInv
  <1> QED
    BY <1>3, <1>5, <1>6


(* The wait for the next attempt expires: its handler counts in its place. *)
LEMMA TimerExpiresStep ==
    ASSUME ReconnectInv, TypeInv', TimerExpires
    PROVE  ReadInv' /\ OneActivity' /\ OrphanInv'
  <1>1. /\ io' = io /\ reconnectTimer.waiting /\ reconnectTimer' = Expire(reconnectTimer)
        /\ lstRequestCtx' = lstRequestCtx /\ msgQueue' = msgQueue /\ up' = up
    BY DEF TimerExpires, sessionVars
  <1>2. ReadInv'
    BY <1>1 DEF ReconnectInv, ReadInv, Linked, Reading
  <1>3. Stuck' = Stuck
    BY <1>1 DEF Stuck
  <1>4. OneActivity'
    <2>1. Count(reconnectTimer') = Count(reconnectTimer)
      BY <1>1, Typed, ExpireFacts
    <2>2. Activities(io', reconnectTimer', up') = Activities(io, reconnectTimer, up)
      BY <1>1, <2>1 DEF Activities
    <2> QED
      BY <1>1, <1>3, <2>2 DEF ReconnectInv, OneActivity
  <1>5. OrphanInv'
    BY <1>1, <1>3, OrphanKept DEF ReconnectInv
  <1> QED
    BY <1>2, <1>4, <1>5

(* A message has been written: its request is now with the peer.           *)
LEMMA WriteStep ==
    ASSUME ReconnectInv, TypeInv', Write
    PROVE  ReadInv' /\ OneActivity' /\ OrphanInv'
  <1>0. io.wr > 0 /\ io.sock = "connected"
    BY DEF Write, WriteCompletes
  <1>1. io.wr = 1 /\ io.wrOk = 0 /\ io.wrErr = 0 /\ msgQueue # <<>>
    BY <1>0, Typed
  <1> DEFINE S == io.sent \cup {Head(msgQueue)}
  <1>2. /\ io' = [io EXCEPT !.wr = 0, !.wrOk = 1, !.sent = S]
        /\ lstRequestCtx' = lstRequestCtx /\ msgQueue' = msgQueue
        /\ reconnectTimer' = reconnectTimer /\ up' = up
    <2>1. io' = [io EXCEPT !.wr = io.wr - 1, !.wrOk = io.wrOk + 1, !.sent = S]
      BY DEF Write, WriteCompletes
    <2>2. io.wr - 1 = 0 /\ io.wrOk + 1 = 1
      BY <1>1
    <2>3. /\ lstRequestCtx' = lstRequestCtx /\ msgQueue' = msgQueue
          /\ reconnectTimer' = reconnectTimer /\ up' = up
      BY DEF Write, WriteCompletes, clientVars
    <2> HIDE DEF S
    <2> QED
      BY <2>1, <2>2, <2>3
  <1>a. io.sent \subseteq S /\ Head(msgQueue) \in S
    OBVIOUS
  <1> HIDE DEF S
  <1>3. /\ io'.sock = io.sock /\ io'.rd = io.rd /\ io'.rdErr = io.rdErr
        /\ io'.got = io.got /\ io'.cnOk = io.cnOk /\ io'.cnErr = io.cnErr
        /\ io'.sent = S /\ io'.wr = 0 /\ io'.wrOk = 1
    BY <1>2, Typed DEF IoType
  <1>4. ReadInv'
    BY <1>0, <1>3 DEF ReconnectInv, ReadInv, Linked, Reading
  <1>5. ~Stuck /\ ~Stuck'
    BY <1>1, <1>3 DEF Stuck
  <1>6. OneActivity'
    <2>1. Reads(io') = Reads(io) /\ Connects(io') = Connects(io)
      BY <1>3 DEF Reads, Connects
    <2>2. Activities(io', reconnectTimer', up') = Activities(io, reconnectTimer, up)
      BY <1>2, <2>1 DEF Activities
    <2> QED
      BY <1>3, <1>5, <2>2 DEF ReconnectInv, OneActivity
  <1>7. OrphanInv'
    <2> SUFFICES ASSUME NEW r \in lstRequestCtx
                 PROVE  Unwritten(r)' \/ WillEnd(r, io')
      BY <1>2, <1>5 DEF OrphanInv
    <2>1. ASSUME NEW k \in 1..Len(msgQueue), msgQueue[k] = r
          PROVE  Unwritten(r)' \/ WillEnd(r, io')
      <3>1. CASE k = 1
        <4>1. r = Head(msgQueue)
          BY <1>1, <2>1, <3>1, Typed, HeadTailProperties
        <4> QED
          BY <1>3, <1>a, <4>1 DEF WillEnd
      <3>2. CASE k # 1
        BY <1>2, <2>1, <3>2 DEF Unwritten
      <3> QED
        BY <3>1, <3>2
    <2>2. WillEnd(r, io) => WillEnd(r, io')
      BY <1>3, <1>a DEF WillEnd, Linked
    <2>3. ~(io.wrErr > 0)
      BY <1>1
    <2> QED
      BY <2>1, <2>2, <2>3 DEF ReconnectInv, OrphanInv, Unwritten
  <1> QED
    BY <1>4, <1>6, <1>7

(* A message has been received, or the read goes on.                       *)
LEMMA ReadStep ==
    ASSUME ReconnectInv, TypeInv', Read
    PROVE  ReadInv' /\ OneActivity' /\ OrphanInv'
  <1>1. PICK m \in io.inbox : ReadCompletes(m)
    BY DEF Read
  <1>2. /\ io.rd > 0 /\ io.sock = "connected" /\ lstRequestCtx' = lstRequestCtx
        /\ msgQueue' = msgQueue /\ reconnectTimer' = reconnectTimer /\ up' = up
    BY <1>1 DEF Read, ReadCompletes, clientVars
  <1>3. /\ io'.sock = io.sock /\ io'.rdErr = io.rdErr
        /\ io'.cnOk = io.cnOk /\ io'.cnErr = io.cnErr /\ io'.sent = io.sent
        /\ io'.wr = io.wr /\ io'.wrOk = io.wrOk /\ io'.wrErr = io.wrErr
        /\ \/ io'.rd = io.rd /\ io'.got = io.got
           \/ io'.rd = io.rd - 1 /\ \E k : io'.got = io.got \cup {k}
    <2> DEFINE bad == [m EXCEPT !.ok = FALSE]
    <2> HIDE DEF bad
    <2>1. CASE io' = [io EXCEPT !.rd = @ - 1, !.inbox = @ \ {m}, !.part = FALSE,
                                !.got = @ \cup {m}]
      BY <2>1, Typed DEF IoType
    <2>2. CASE io' = [io EXCEPT !.rd = @ - 1, !.inbox = @ \ {m}, !.part = FALSE,
                                !.got = @ \cup {bad}, !.torn = TRUE]
      BY <2>2, Typed DEF IoType
    <2>3. CASE io' = [io EXCEPT !.inbox = @ \ {m}, !.part = FALSE, !.torn = TRUE]
      BY <2>3, Typed DEF IoType
    <2> QED
      BY <1>1, <2>1, <2>2, <2>3 DEF ReadCompletes, bad
  <1>4. ReadInv'
    <2>a. io.rd + io.rdErr + io.cnOk > 0
      BY <1>2, Typed
    <2>b. ASSUME io'.rd = io.rd PROVE io'.rd + io'.rdErr + io'.cnOk > 0
      BY <1>3, <2>a, <2>b, Zenon
    <2>c. ASSUME NEW k, io'.got = io.got \cup {k} PROVE io'.got # {}
      BY <2>c
    <2>1. io'.rd + io'.rdErr + io'.cnOk > 0 \/ io'.got # {}
      BY <1>3, <2>b, <2>c
    <2> QED
      BY <1>2, <1>3, <2>1 DEF ReadInv, Linked, Reading
  <1>5. Stuck' = Stuck
    BY <1>2, <1>3 DEF Stuck
  <1>6. OneActivity'
    <2> SUFFICES ASSUME ~Stuck
                 PROVE  /\ Activities(io', reconnectTimer', up')
                              <= Activities(io, reconnectTimer, up)
                        /\ \A k, n \in io'.got : k = n
      BY <1>5, ActivityKept
    <2>1. io.rd = 1 /\ io.rdErr = 0 /\ io.got = {}
      BY <1>2, Alone
    <2>2. /\ \A k, n \in io'.got : k = n
          /\ \/ io'.rd = 1 /\ io'.got = {}
             \/ io'.rd = 0 /\ io'.got # {}
      BY <1>3, <2>1
    <2>3. Reads(io') = 1 /\ Reads(io) = 1
      BY <1>3, <2>1, <2>2 DEF Reads, One
    <2>4. Connects(io') = Connects(io)
      BY <1>3 DEF Connects
    <2>5. Activities(io', reconnectTimer', up') = Activities(io, reconnectTimer, up)
      BY <1>2, <2>3, <2>4 DEF Activities
    <2>6. Activities(io, reconnectTimer, up) \in Nat
      BY Alone DEF Activities
    <2> QED
      BY <2>2, <2>5, <2>6
  <1>7. OrphanInv'
    <2>1. \A r \in lstRequestCtx : ~Stuck /\ WillEnd(r, io) => WillEnd(r, io')
      BY <1>2, <1>3 DEF WillEnd, Linked
    <2> QED
      BY <1>2, <1>3, <1>5, <2>1, OrphanKept DEF ReconnectInv
  <1> QED
    BY <1>4, <1>6, <1>7


-----------------------------------------------------------------------------
(* Steps that ReconnectInv does not notice.                                *)
LEMMA OtherStep ==
    ASSUME ReconnectInv, TypeInv',
           \/ SyncConnectRefused \/ CallRequest \/ SetAutoReconnectOff
           \/ Arrive \/ Answer \/ Notify \/ UNCHANGED vars
    PROVE  ReadInv' /\ OneActivity' /\ OrphanInv'
  <1>1. io' \in IoType
    BY DEF TypeInv, TypeOK
  <1>2. reconnectTimer' = reconnectTimer /\ up' = up /\ msgQueue' = msgQueue
        /\ lstRequestCtx' = lstRequestCtx
    BY DEF SyncConnectRefused, CallRequest, request, SetAutoReconnectOff, Arrive, ReadPart,
           Answer, PeerAnswers, Notify, PeerNotifies, vars, sessionVars, clientVars
  <1>3. CASE SyncConnectRefused
    <2>1. io.sock \in {"closed", "open"} /\ io' = [io EXCEPT !.sock = "open"]
      BY <1>3 DEF SyncConnectRefused
    <2>2. /\ io'.sock = "open"
          /\ io'.rd = io.rd /\ io'.rdErr = io.rdErr /\ io'.got = io.got
          /\ io'.cnOk = io.cnOk /\ io'.cnErr = io.cnErr /\ io'.sent = io.sent
          /\ io'.wr = io.wr /\ io'.wrOk = io.wrOk /\ io'.wrErr = io.wrErr
      BY <2>1, Typed DEF IoType
    <2> QED
      BY <1>1, <1>2, <2>1, <2>2, ElsewhereStep
  <1>4. CASE CallRequest \/ SetAutoReconnectOff \/ UNCHANGED vars
    <2>1. io' = io
      BY <1>4 DEF CallRequest, request, SetAutoReconnectOff, vars, sessionVars
    <2> QED
      BY <1>1, <1>2, <2>1, ElsewhereStep
  <1>5. ASSUME NEW R, NEW B, NEW p,
               io' = [io EXCEPT !.replied = R, !.inbox = B] \/ io' = [io EXCEPT !.part = p]
        PROVE  ReadInv' /\ OneActivity' /\ OrphanInv'
    <2>1. /\ io'.sock = io.sock
          /\ io'.rd = io.rd /\ io'.rdErr = io.rdErr /\ io'.got = io.got
          /\ io'.cnOk = io.cnOk /\ io'.cnErr = io.cnErr /\ io'.sent = io.sent
          /\ io'.wr = io.wr /\ io'.wrOk = io.wrOk /\ io'.wrErr = io.wrErr
      BY <1>5, Typed DEF IoType
    <2> QED
      BY <1>1, <1>2, <2>1, ElsewhereStep
  <1>6. CASE Arrive
    BY <1>5, <1>6 DEF Arrive, ReadPart
  <1>7. CASE Answer
    <2>1. PICK r \in io.sent : PeerAnswers(r)
      BY <1>7 DEF Answer
    <2> DEFINE B == io.inbox \cup {[id |-> Id(r), ans |-> r, ok |-> TRUE]}
    <2>2. io' = [io EXCEPT !.replied = io.replied \cup {r}, !.inbox = B]
      BY <2>1 DEF PeerAnswers
    <2> HIDE DEF B
    <2> QED
      BY <1>5, <2>2
  <1>8. CASE Notify
    <2>1. PICK id \in NotifyIds : PeerNotifies(id)
      BY <1>8 DEF Notify
    <2> DEFINE B == io.inbox \cup {[id |-> id, ans |-> 0, ok |-> TRUE]}
    <2>2. io' = [io EXCEPT !.inbox = B]
      BY <2>1 DEF PeerNotifies
    <2> HIDE DEF B
    <2>3. io' = [io EXCEPT !.replied = io.replied, !.inbox = B]
      BY <2>2, Typed DEF IoType
    <2> QED
      BY <1>5, <2>3
  <1> QED
    BY <1>3, <1>4, <1>6, <1>7, <1>8

(* A new client waits for syncConnect and has nothing to write.            *)
LEMMA ReconnectInit == Init => ReconnectInv
  <1> SUFFICES ASSUME Init PROVE ReconnectInv
    OBVIOUS
  <1>1. /\ io = IoInit /\ msgQueue = <<>> /\ lstRequestCtx = {} /\ up = FALSE
        /\ reconnectTimer = NewTimer
    BY DEF Init, SessionInit, ClientInit
  <1>2. /\ io.sock = "closed" /\ io.sent = {} /\ io.got = {} /\ io.rd = 0 /\ io.rdErr = 0
        /\ io.cnOk = 0 /\ io.cnErr = 0
    BY <1>1 DEF IoInit
  <1>3. ReadInv /\ OrphanInv
    BY <1>1, <1>2 DEF ReadInv, Linked, OrphanInv
  <1>4. OneActivity
    <2>1. Reads(io) = 0 /\ Connects(io) = 0
      BY <1>2 DEF Reads, Connects, One
    <2>2. Count(reconnectTimer) = 0 /\ One(~up) = 1
      BY <1>1 DEF NewTimer, Count, One
    <2>3. Activities(io, reconnectTimer, up) = 1
      BY <2>1, <2>2 DEF Activities
    <2> QED
      BY <1>2, <2>3 DEF OneActivity
  <1> QED
    BY <1>3, <1>4, TypeInit DEF ReconnectInv

(* Every step keeps the invariant.                                         *)
LEMMA ReconnectStep ==
    ASSUME ReconnectInv, [Next]_vars
    PROVE  ReconnectInv'
  <1>1. TypeInv'
    <2>1. CASE Next
      BY <2>1, TypeStep DEF ReconnectInv
    <2>2. CASE UNCHANGED vars
      BY <2>2 DEF ReconnectInv, TypeInv, TypeOK, SingleWrite, Writes, vars, sessionVars, clientVars
    <2> QED
      BY <2>1, <2>2
  <1>2. CASE Handlers
    <2>1. ReadInv' /\ OneActivity' /\ OrphanInv'
      BY <1>1, <1>2, IssueRequestStep, WriteDoneStep, ReadBodyStep, ReadFailedStep,
         WriteFailedStep, ConnectOkStep, ConnectFailedStep, OnTimerStep DEF Handlers
    <2> QED
      BY <1>1, <2>1 DEF ReconnectInv
  <1>3. CASE \/ ConnectionEstablished \/ ConnectionRefused \/ LoseConnection
             \/ TimerExpires \/ Write \/ Read \/ SyncConnectOk \/ StopSession
    <2>1. ReadInv' /\ OneActivity' /\ OrphanInv'
      BY <1>1, <1>3, ConnectionEstablishedStep, ConnectionRefusedStep, LoseConnectionStep,
         TimerExpiresStep, WriteStep, ReadStep, SyncConnectOkStep, StopSessionStep
    <2> QED
      BY <1>1, <2>1 DEF ReconnectInv
  <1>4. CASE \/ SyncConnectRefused \/ CallRequest \/ SetAutoReconnectOff
             \/ Arrive \/ Answer \/ Notify \/ UNCHANGED vars
    <2>1. ReadInv' /\ OneActivity' /\ OrphanInv'
      BY <1>1, <1>4, OtherStep
    <2> QED
      BY <1>1, <2>1 DEF ReconnectInv
  <1> QED
    BY <1>2, <1>3, <1>4 DEF Next, Environment

(* A request whose answer can still come is never left with nobody reading *)
(* the socket, through any number of errors, reconnects and stop().        *)
THEOREM ReadersExist == Spec => []SomebodyReads
  <1>1. Init => ReconnectInv
    BY ReconnectInit
  <1>2. ReconnectInv /\ [Next]_vars => ReconnectInv'
    BY ReconnectStep
  <1>3. ReconnectInv => SomebodyReads
    <2> SUFFICES ASSUME ReconnectInv, lstRequestCtx \cap io.sent # {}
                 PROVE  Reading(io)
      BY DEF SomebodyReads, Reading
    <2> QED
      BY DEF ReconnectInv, ReadInv
  <1> QED
    BY <1>1, <1>2, <1>3, PTL DEF Spec

(* No reconnect forgets a request: one without a response is still to be   *)
(* written, was written on this connection, or is failed by a handler that *)
(* is queued.                                                              *)
THEOREM NoRequestForgotten == Spec => []NoOrphan
  <1>1. Init => ReconnectInv
    BY ReconnectInit
  <1>2. ReconnectInv /\ [Next]_vars => ReconnectInv'
    BY ReconnectStep
  <1>3. ReconnectInv => NoOrphan
    <2> SUFFICES ASSUME ReconnectInv, NEW r \in lstRequestCtx
                 PROVE  \/ \E k \in 1..Len(msgQueue) : msgQueue[k] = r
                        \/ r \in io.sent
                        \/ io.rdErr + io.wrErr + io.cnOk > 0
                        \/ io.got # {}
      BY DEF NoOrphan
    <2>1. io.rdErr > 0 \/ io.wrErr > 0 \/ io.cnOk > 0 => io.rdErr + io.wrErr + io.cnOk > 0
      BY Typed
    <2>2. Unwritten(r) \/ io.wrErr > 0 \/ WillEnd(r, io)
      BY DEF ReconnectInv, OrphanInv
    <2> QED
      BY <2>1, <2>2 DEF Unwritten, WillEnd
  <1> QED
    BY <1>1, <1>2, <1>3, PTL DEF Spec
=============================================================================
