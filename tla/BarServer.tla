------------------------------ MODULE BarServer ------------------------------
(***************************************************************************)
(* The serving side of a bar server: TcpServer.cpp, the responding half of *)
(* TcpSession.cpp and AdManager::handleRequest.                            *)
(*                                                                         *)
(* Three threads meet here.  The net thread runs the handlers of _iosNet,  *)
(* one at a time and, as the completion port hands them out, in the order  *)
(* in which they became ready: ios is that queue.  The business thread     *)
(* fills and erases the buffers that the answers are made of.  The         *)
(* application's thread calls TcpServer::stop.                             *)
(*                                                                         *)
(* A session is the number of the TcpSession object, in the order in which *)
(* connections are accepted.  A request is its number on its session and   *)
(* what it asks for: "policy" (getAdPlayPolicy and getAdList are answered  *)
(* alike), "ad" (getAd), "unknown", or the ad whose file it wants.         *)
(***************************************************************************)
EXTENDS Integers, Sequences, FiniteSets, FiniteSetsExt, SequencesExt

CONSTANTS MaxSessions,  \* bound on the connections
          MaxAsks,      \* bound on the requests of all the clients
          Ads,          \* ids of ads
          Whats,        \* what clients ask for
          MaxChanges,   \* bound on the changes of the buffers
          None,         \* no such entry, nothing in progress
          Garbage       \* what is read through an invalid iterator

ASSUME ServerAssumption ==
    /\ MaxSessions \in Nat \ {0} /\ MaxAsks \in Nat /\ MaxChanges \in Nat
    /\ Whats \subseteq {"policy", "ad", "unknown"} \cup Ads
    /\ None # Garbage /\ None \notin Nat

VARIABLES acceptor,     \* _acceptor is open
          accepting,    \* session whose async_accept is in progress, or None
          nextSession,  \* the session that the next doAccept makes
          pool,         \* _sessionPool
          ses,          \* the TcpSession objects, see SessionType
          ios,          \* handlers that are ready to run on the net thread
          lookup,       \* handleRequest between unlock and the use of it
          bufPolicy,    \* _bufPolicy and _bufAdList: a version
          bufImages,    \* _bufImages: ad -> version, or None
          stopping,     \* progress of stop()
          changes       \* number of changes of the buffers so far

vars == <<acceptor, accepting, nextSession, pool, ses, ios, lookup, bufPolicy,
          bufImages, stopping, changes>>

buffers == <<bufPolicy, bufImages, changes>>
accepts == <<acceptor, accepting, nextSession>>

Sessions == 1..MaxSessions
Requests == [n : 1..MaxAsks, what : Whats]
NoHandler == 1  \* ERROR_METHOD_HANDLER_NOT_EXIST
NotExist  == 2  \* ERROR_DATA_NOT_EXIST

(* A response: an error code, or 0 and the data.                           *)
Answers == [n : 1..MaxAsks, code : {0}, data : (0..MaxChanges) \cup {Garbage}] \cup
           [n : 1..MaxAsks, code : {NoHandler, NotExist}, data : {None}]

SessionType ==
    [sock     : {"new", "open", "broken", "closed"},
     rd       : BOOLEAN,        \* an async_read is in progress
     wr       : BOOLEAN,        \* an async_write is in progress
     hooked   : BOOLEAN,        \* _afterNetError and _requestHandler are set
     msgQueue : Seq(Answers),   \* _msgQueue
     asked    : 0..MaxAsks,     \* requests the client has sent
     inbox    : Seq(Requests),  \* those that have not been read
     out      : Seq(Answers)]   \* answers that were written

(* A handler: its kind, its session, and its argument if it has one.       *)
Handler(k, s, x) == [kind |-> k, s |-> s, arg |-> x]

NewSession == [sock |-> "new", rd |-> FALSE, wr |-> FALSE, hooked |-> FALSE,
               msgQueue |-> <<>>, asked |-> 0, inbox |-> <<>>, out |-> <<>>]

(* TcpServer's constructor and start().                                    *)
Init ==
    /\ acceptor = TRUE
    /\ accepting = 1 /\ nextSession = 2
    /\ pool = {}
    /\ ses = [s \in Sessions |-> NewSession]
    /\ ios = <<>>
    /\ lookup = None
    /\ bufPolicy = 0 /\ bufImages = [a \in Ads |-> None]
    /\ stopping = "no"
    /\ changes = 0

-----------------------------------------------------------------------------
(* asio: what happens to a session t of number s, and which handlers that  *)
(* makes ready.  Closing ends the operations in progress with an error.    *)

Aborted(s, t) == (IF t.rd THEN <<Handler("rdErr", s, None)>> ELSE <<>>) \o
                 (IF t.wr THEN <<Handler("wrErr", s, None)>> ELSE <<>>)

Ended(t, sock) == [t EXCEPT !.sock = sock, !.rd = FALSE, !.wr = FALSE]

(* readHead(): a read on a socket that is not open fails at once.          *)
ReadHead(t) == IF t.sock = "open" THEN [t EXCEPT !.rd = TRUE] ELSE t
ReadHeadFails(s, t) == IF t.sock = "open" THEN <<>> ELSE <<Handler("rdErr", s, None)>>

(* writeData(), likewise.                                                  *)
WriteData(t) == IF t.sock = "open" THEN [t EXCEPT !.wr = TRUE] ELSE t
WriteDataFails(s, t) == IF t.sock = "open" THEN <<>> ELSE <<Handler("wrErr", s, None)>>

-----------------------------------------------------------------------------
(* The net thread: one action for each kind of handler at the front.       *)

Running(kind) == ios # <<>> /\ Head(ios).kind = kind /\ lookup = None

(* doAccept(), once the handler has been taken from the queue q.           *)
doAccept(q) ==
    IF acceptor /\ nextSession <= MaxSessions
    THEN accepting' = nextSession /\ nextSession' = nextSession + 1 /\ ios' = q
    ELSE /\ UNCHANGED nextSession
         /\ accepting' = None
         /\ ios' = IF acceptor THEN q ELSE Append(q, Handler("acceptErr", None, None))

(* A connection was accepted: the session is hooked to AdManager and to    *)
(* the pool, begins to read, and the next accept is started.               *)
AcceptOk ==
    LET s == Head(ios).s IN
    /\ Running("accept")
    /\ pool' = pool \cup {s}
    /\ ses' = [ses EXCEPT ![s] = ReadHead([@ EXCEPT !.hooked = TRUE])]
    /\ doAccept(Tail(ios) \o ReadHeadFails(s, ses[s]))
    /\ UNCHANGED <<acceptor, lookup, stopping, buffers>>

AcceptFailed ==
    /\ Running("acceptErr")
    /\ doAccept(Tail(ios))
    /\ UNCHANGED <<acceptor, pool, ses, lookup, stopping, buffers>>

(* Mutant of ReadOn: the next read is started before the request is        *)
(* handled.                                                                *)
ReadOnFirst(s, posts) ==
    /\ ses' = [ses EXCEPT ![s] = ReadHead(@)]
    /\ ios' = Tail(ios) \o ReadHeadFails(s, ses[s]) \o posts

(* The end of readBody: the next read is started.  The answer of           *)
(* handleRequest, if there is one, has been posted before.                 *)
ReadOn(s, posts) ==
    /\ ses' = [ses EXCEPT ![s] = ReadHead(@)]
    /\ ios' = Tail(ios) \o posts \o ReadHeadFails(s, ses[s])

Post(s, n, code, data) == <<Handler("post", s, [n |-> n, code |-> code, data |-> data])>>

(* A request was read and handleRequest answers it at once: a policy or a  *)
(* list with what the buffer holds, an unknown method with an error, getAd *)
(* and everything on a session that has lost its hooks not at all.         *)
HandleRequest ==
    LET s == Head(ios).s
        r == Head(ios).arg IN
    /\ Running("read")
    /\ \/ ~ses[s].hooked /\ ReadOn(s, <<>>)
       \/ ses[s].hooked /\ r.what = "ad" /\ ReadOn(s, <<>>)
       \/ ses[s].hooked /\ r.what = "policy" /\ ReadOn(s, Post(s, r.n, 0, bufPolicy))
       \/ ses[s].hooked /\ r.what = "unknown" /\ ReadOn(s, Post(s, r.n, NoHandler, None))
    /\ UNCHANGED <<accepts, pool, lookup, stopping, buffers>>

(* Mutant of LookUpFile: an ad without a file is not told apart.           *)
LookUpFileUnchecked ==
    LET s == Head(ios).s
        r == Head(ios).arg IN
    /\ Running("read")
    /\ ses[s].hooked /\ r.what \in Ads
    /\ ReadOn(s, Post(s, r.n, 0, bufImages[r.what]))
    /\ UNCHANGED <<accepts, pool, lookup, stopping, buffers>>

(* A file is asked for: it is looked up under the lock ...                 *)
LookUpFile ==
    LET s == Head(ios).s
        r == Head(ios).arg IN
    /\ Running("read")
    /\ ses[s].hooked /\ r.what \in Ads
    /\ IF bufImages[r.what] = None
       THEN lookup' = None /\ ReadOn(s, Post(s, r.n, NotExist, None))
       ELSE lookup' = bufImages[r.what] /\ UNCHANGED <<ses, ios>>
    /\ UNCHANGED <<accepts, pool, stopping, buffers>>

(* ... and, after the unlock, sent through the iterator, which is invalid  *)
(* when the business thread has erased the entry in between: what is read  *)
(* then may still be the file, or not.                                     *)
SendFile ==
    LET s == Head(ios).s
        r == Head(ios).arg IN
    /\ lookup # None
    /\ \/ ReadOn(s, Post(s, r.n, 0, lookup))
       \/ bufImages[r.what] # lookup /\ ReadOn(s, Post(s, r.n, 0, Garbage))
    /\ lookup' = None
    /\ UNCHANGED <<accepts, pool, stopping, buffers>>

(* The lambda that queueRspMsg posts.                                      *)
QueueRspMsg ==
    LET s == Head(ios).s
        t == [ses[s] EXCEPT !.msgQueue = Append(@, Head(ios).arg)] IN
    /\ Running("post")
    /\ IF ses[s].msgQueue = <<>>
       THEN ses' = [ses EXCEPT ![s] = WriteData(t)] /\ ios' = Tail(ios) \o WriteDataFails(s, t)
       ELSE ses' = [ses EXCEPT ![s] = t] /\ ios' = Tail(ios)
    /\ UNCHANGED <<accepts, pool, lookup, stopping, buffers>>

(* Mutant of WriteDone: the message that was written stays in the queue.   *)
WriteDoneKeeps ==
    LET s == Head(ios).s IN
    /\ Running("wrOk")
    /\ ses' = [ses EXCEPT ![s] = WriteData(@)]
    /\ ios' = Tail(ios) \o WriteDataFails(s, ses[s])
    /\ UNCHANGED <<accepts, pool, lookup, stopping, buffers>>

(* Mutant of WriteDone: the next message in the queue is not written.      *)
WriteDoneStops ==
    LET s == Head(ios).s IN
    /\ Running("wrOk")
    /\ ses' = [ses EXCEPT ![s].msgQueue = Tail(@)]
    /\ ios' = Tail(ios)
    /\ UNCHANGED <<accepts, pool, lookup, stopping, buffers>>

(* Handler of a successful write.                                          *)
WriteDone ==
    LET s == Head(ios).s
        t == [ses[s] EXCEPT !.msgQueue = Tail(@)] IN
    /\ Running("wrOk")
    /\ IF t.msgQueue # <<>>
       THEN ses' = [ses EXCEPT ![s] = WriteData(t)] /\ ios' = Tail(ios) \o WriteDataFails(s, t)
       ELSE ses' = [ses EXCEPT ![s] = t] /\ ios' = Tail(ios)
    /\ UNCHANGED <<accepts, pool, lookup, stopping, buffers>>

(* Mutant of NetError: the session stays in the pool.                      *)
NetErrorKeepsPool ==
    LET s == Head(ios).s IN
    /\ Running("rdErr") \/ Running("wrErr")
    /\ ses' = [ses EXCEPT ![s] = [Ended(@, "closed") EXCEPT !.hooked = FALSE]]
    /\ ios' = Tail(ios) \o Aborted(s, ses[s])
    /\ UNCHANGED <<accepts, pool, lookup, stopping, buffers>>

(* Handler of a failed read or write: handleNetError closes the socket and *)
(* calls _afterNetError, if it is still set, which takes the hooks off and *)
(* the session out of the pool.                                            *)
NetError ==
    LET s == Head(ios).s IN
    /\ Running("rdErr") \/ Running("wrErr")
    /\ ses' = [ses EXCEPT ![s] = [Ended(@, "closed") EXCEPT !.hooked = FALSE]]
    /\ pool' = IF ses[s].hooked THEN pool \ {s} ELSE pool
    /\ ios' = Tail(ios) \o Aborted(s, ses[s])
    /\ UNCHANGED <<accepts, lookup, stopping, buffers>>

-----------------------------------------------------------------------------
(* TcpServer::stop, on the application's thread: the acceptor is closed,   *)
(* then, under the lock, all sessions of the pool.                         *)

StopAcceptor ==
    /\ stopping = "no"
    /\ stopping' = "sessions"
    /\ acceptor' = FALSE
    /\ accepting' = None
    /\ ios' = IF accepting # None THEN Append(ios, Handler("acceptErr", None, None)) ELSE ios
    /\ UNCHANGED <<nextSession, pool, ses, lookup, buffers>>

(* The pool is unordered, so the aborted operations end in any order.      *)
AbortedByStop == {Handler("rdErr", s, None) : s \in {t \in pool : ses[t].rd}} \cup
                 {Handler("wrErr", s, None) : s \in {t \in pool : ses[t].wr}}

StopSessions ==
    /\ stopping = "sessions"
    /\ stopping' = "done"
    /\ ses' = [s \in Sessions |-> IF s \in pool THEN Ended(ses[s], "closed") ELSE ses[s]]
    /\ \E q \in SetToSeqs(AbortedByStop) : ios' = ios \o q
    /\ pool' = {}
    /\ UNCHANGED <<accepts, lookup, buffers>>

-----------------------------------------------------------------------------
(* The business thread: a file is inserted, or erased, or a new policy is  *)
(* published.  (A file is inserted only where there is none.)              *)

Cache(a) ==
    /\ changes < MaxChanges
    /\ changes' = changes + 1
    /\ bufImages' = [bufImages EXCEPT ![a] = IF @ = None THEN changes' ELSE None]
    /\ UNCHANGED <<accepts, pool, ses, ios, lookup, bufPolicy, stopping>>

Publish ==
    /\ changes < MaxChanges
    /\ changes' = changes + 1
    /\ bufPolicy' = changes'
    /\ UNCHANGED <<accepts, pool, ses, ios, lookup, bufImages, stopping>>

(* The network and the clients.                                            *)

ClientConnects ==
    /\ accepting # None
    /\ ses' = [ses EXCEPT ![accepting].sock = "open"]
    /\ ios' = Append(ios, Handler("accept", accepting, None))
    /\ accepting' = None
    /\ UNCHANGED <<acceptor, nextSession, pool, lookup, stopping, buffers>>

ClientAsks(s, w) ==
    /\ ses[s].sock = "open"
    /\ ses[s].asked < MaxAsks /\ MapThenSumSet(LAMBDA t : ses[t].asked, Sessions) < MaxAsks
    /\ ses' = [ses EXCEPT ![s].asked = @ + 1,
                          ![s].inbox = Append(@, [n |-> ses[s].asked + 1, what |-> w])]
    /\ UNCHANGED <<accepts, pool, ios, lookup, stopping, buffers>>

ReadCompletes(s) ==
    /\ ses[s].rd /\ ses[s].inbox # <<>>
    /\ ses' = [ses EXCEPT ![s].rd = FALSE, ![s].inbox = Tail(@)]
    /\ ios' = Append(ios, Handler("read", s, Head(ses[s].inbox)))
    /\ UNCHANGED <<accepts, pool, lookup, stopping, buffers>>

WriteCompletes(s) ==
    /\ ses[s].wr
    /\ ses' = [ses EXCEPT ![s].wr = FALSE, ![s].out = Append(@, Head(ses[s].msgQueue))]
    /\ ios' = Append(ios, Handler("wrOk", s, None))
    /\ UNCHANGED <<accepts, pool, lookup, stopping, buffers>>

ClientGone(s) ==
    /\ ses[s].sock = "open"
    /\ ses' = [ses EXCEPT ![s] = Ended(@, "broken")]
    /\ ios' = ios \o Aborted(s, ses[s])
    /\ UNCHANGED <<accepts, pool, lookup, stopping, buffers>>

-----------------------------------------------------------------------------
NetThread == \/ AcceptOk \/ AcceptFailed \/ HandleRequest \/ LookUpFile \/ SendFile
             \/ QueueRspMsg \/ WriteDone \/ NetError

Next == \/ NetThread
        \/ StopAcceptor \/ StopSessions
        \/ (\E a \in Ads : Cache(a)) \/ Publish
        \/ ClientConnects
        \/ \E s \in Sessions : \/ \E w \in Whats : ClientAsks(s, w)
                               \/ ReadCompletes(s) \/ WriteCompletes(s) \/ ClientGone(s)

Spec == Init /\ [][Next]_vars

(* The net thread runs, and operations in progress end.                    *)
FairSpec == /\ Spec /\ WF_vars(NetThread)
            /\ \A s \in Sessions : WF_vars(ReadCompletes(s)) /\ WF_vars(WriteCompletes(s))

-----------------------------------------------------------------------------
Handlers ==
    [kind : {"accept", "rdErr", "wrOk", "wrErr"}, s : Sessions, arg : {None}] \cup
    [kind : {"acceptErr"}, s : {None}, arg : {None}] \cup
    [kind : {"read"}, s : Sessions, arg : Requests] \cup
    [kind : {"post"}, s : Sessions, arg : Answers]

TypeOK ==
    /\ acceptor \in BOOLEAN
    /\ accepting \in Sessions \cup {None}
    /\ nextSession \in 2..(MaxSessions + 1)
    /\ pool \subseteq Sessions
    /\ ses \in [Sessions -> SessionType]
    /\ ios \in Seq(Handlers)
    /\ lookup \in (0..MaxChanges) \cup {None}
    /\ bufPolicy \in 0..MaxChanges
    /\ bufImages \in [Ads -> (0..MaxChanges) \cup {None}]
    /\ stopping \in {"no", "sessions", "done"}
    /\ changes \in 0..MaxChanges

(* The handlers of session s that are ready.                               *)
Ready(s) == {k \in 1..Len(ios) : ios[k].s = s}

(* Something keeps the TcpSession object alive: the pool, its own hooks    *)
(* (which hold a shared_ptr to it), or the self of an operation or of the  *)
(* handler of one.                                                         *)
Referenced(s) ==
    \/ s \in pool \/ ses[s].hooked \/ ses[s].rd \/ ses[s].wr
    \/ \E k \in Ready(s) : ios[k].kind # "post"

(* The lambda of queueRspMsg captures this, not self: the object must live *)
(* until it has run, whatever errors and stop() do in between.             *)
SessionOutlivesPosts ==
    \A k \in 1..Len(ios) : ios[k].kind = "post" => Referenced(ios[k].s)

(* The answers that session s has written or will write, as far as they    *)
(* have reached it.  Until the handler of a write has run, what was written *)
(* is also at the front of _msgQueue.                                      *)
Sent(s) ==
    ses[s].out \o (IF \E k \in Ready(s) : ios[k].kind = "wrOk"
                  THEN Tail(ses[s].msgQueue) ELSE ses[s].msgQueue)

(* A client gets its answers in the order of its requests, at most one to  *)
(* each, although they are posted, queued and written one after another.   *)
AnswersInOrder ==
    \A s \in Sessions :
        /\ \A i, j \in 1..Len(Sent(s)) : i < j => Sent(s)[i].n < Sent(s)[j].n
        /\ \A k \in Ready(s) : ios[k].kind = "post" =>
              /\ \A i \in 1..Len(Sent(s)) : Sent(s)[i].n < ios[k].arg.n
              /\ \A j \in Ready(s) : ios[j].kind = "post" /\ j < k =>
                    ios[j].arg.n < ios[k].arg.n

(* A session in the pool has a read in progress, or a handler that is      *)
(* ready will read on or take it out: no dead session stays in the pool.   *)
PoolIsServed ==
    \A s \in pool : ses[s].rd \/ \E k \in Ready(s) : ios[k].kind \in {"read", "rdErr"}

(* Every request is answered, but for getAd, as long as its connection     *)
(* lasts, whatever happens on other connections, and even when the         *)
(* acceptor is closed and its failing accepts fill the queue for good.     *)
RequestsAnswered ==
    \A s \in Sessions, n \in 1..MaxAsks :
        (\E k \in 1..Len(ses[s].inbox) : ses[s].inbox[k].n = n /\ ses[s].inbox[k].what # "ad")
        ~> (ses[s].sock # "open" \/ \E k \in 1..Len(ses[s].out) : ses[s].out[k].n = n)
==============================================================================
