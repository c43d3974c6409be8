-------------------------------- MODULE Wire --------------------------------
(***************************************************************************)
(* How messages travel between two TcpSessions: the generated class        *)
(* Message (ad/Message.pb.cc), the three ways a message is queued          *)
(* (TcpSession::request and both queueRspMsg), writeData, and the reader   *)
(* readHead, readBody.                                                     *)
(*                                                                         *)
(* A byte is <<field, value, k>>: the k-th byte of that value of that      *)
(* field, its tag included; <<"head", n, k>> is the k-th byte of the       *)
(* length n.  So a reader that starts anywhere but at the first byte of a  *)
(* message sees bytes that are not the encoding of anything.               *)
(*                                                                         *)
(* A field that has its default value is not written, so an answer that    *)
(* AdManager keeps in serialized form has no id: the id of the request is  *)
(* written in front of it.                                                 *)
(***************************************************************************)
EXTENDS Integers, Sequences, SequencesExt

CONSTANTS Ids,              \* ids of the requests that are answered
          Methods,          \* names of methods
          Contents,         \* contents, 0 is the empty one
          Errors,           \* return codes, each with its return message
          SizeOf(_, _),     \* bytes of a value of a field, with its tag
          HeadSize,         \* 4, the bytes of the length
          MaxSend           \* bound on the messages that are sent

ASSUME WireAssumption ==
    /\ Ids \subseteq Nat \ {0} /\ Methods \subseteq Nat \ {0}
    /\ Contents \subseteq Nat /\ Errors \subseteq Nat \ {0}
    /\ HeadSize \in Nat \ {0} /\ MaxSend \in Nat

ASSUME SizeAssumption ==
    \A f \in {"id", "method", "content", "returnCode", "returnMsg"} :
        \A v \in 1..MaxSend \cup Ids \cup Methods \cup Contents \cup Errors :
            SizeOf(f, v) \in Nat \ {0}

VARIABLES msgID,      \* _msgID of the sending session
          msgQueue,   \* _msgQueue: pairs of buffers, the second may be empty
          writing,    \* an async_write of its front is in progress
          written,    \* the bytes that it has transferred
          wire,       \* bytes in the network
          reading,    \* the async_read in progress: what and how many bytes
          recvBuf,    \* _recvBuf
          meant,      \* the messages queued so far, as the callers mean them
          received    \* the messages the other session has parsed

sender   == <<msgID, msgQueue, meant>>
receiver == <<reading, recvBuf, received>>
vars     == <<sender, writing, written, wire, receiver>>

Fields  == {"id", "method", "content", "returnCode", "returnMsg"}
Message == [Fields -> 1..MaxSend \cup Ids \cup Methods \cup Contents \cup Errors \cup {0}]
Default == [f \in Fields |-> 0]

Bytes(f, v, n) == [k \in 1..n |-> <<f, v, k>>]

(* One field of SerializeWithCachedSizes.                                  *)
Field(f, m) == IF m[f] = 0 THEN <<>> ELSE Bytes(f, m[f], SizeOf(f, m[f]))

Serialize(m) == Field("id", m) \o Field("method", m) \o Field("content", m)
                \o Field("returnCode", m) \o Field("returnMsg", m)

FieldSize(f, m) == IF m[f] = 0 THEN 0 ELSE SizeOf(f, m[f])

ByteSize(m) == FieldSize("method", m) + FieldSize("content", m) + FieldSize("returnMsg", m)
               + FieldSize("id", m) + FieldSize("returnCode", m)

(* MergePartialFromCodedStream reads fields to the end of the body.  It    *)
(* fails on what is not a field.                                           *)
Parses(body) ==
    /\ \A i \in 1..Len(body) : body[i][1] \in Fields
    /\ \A i \in 1..Len(body) :
          LET f == body[i][1]   v == body[i][2]   k == body[i][3] IN
          /\ k > 1 => i > 1 /\ body[i - 1] = <<f, v, k - 1>>
          /\ k < SizeOf(f, v) => i < Len(body) /\ body[i + 1] = <<f, v, k + 1>>

(* The message it makes of them: the last value of a field counts.         *)
Parsed(body) ==
    [f \in Fields |->
        LET at == {i \in 1..Len(body) : body[i][1] = f}
        IN  IF at = {} THEN 0 ELSE body[CHOOSE i \in at : \A j \in at : i >= j][2]]

Head4(n) == Bytes("head", n, HeadSize)

Init ==
    /\ msgID = 1 /\ msgQueue = <<>> /\ meant = <<>>
    /\ writing = FALSE /\ written = 0 /\ wire = <<>>
    /\ reading = [part |-> "head", size |-> HeadSize]
    /\ recvBuf = <<>> /\ received = <<>>

-----------------------------------------------------------------------------
(* The sender.                                                             *)

(* A message is queued, and written at once if the queue was empty.        *)
Queue(first, second, m) ==
    /\ Len(meant) < MaxSend
    /\ msgQueue' = Append(msgQueue, <<first, second>>)
    /\ writing' = (writing \/ msgQueue = <<>>)
    /\ meant' = Append(meant, m)
    /\ UNCHANGED <<written, wire, receiver>>

(* request(): the message gets the next id.                                *)
Request(method, content) ==
    LET m == [Default EXCEPT !["id"] = msgID, !["method"] = method, !["content"] = content] IN
    /\ msgID' = msgID + 1
    /\ Queue(Head4(ByteSize(m)) \o Serialize(m), <<>>, m)

(* An answer without an id.                                                *)
Answer(method, content, error) ==
    [f \in Fields |-> CASE f = "id"      -> 0
                        [] f = "method"  -> method
                        [] f = "content" -> content
                        [] OTHER         -> error]

(* queueRspMsg(msg): handleRequest sends the request back with an error.   *)
RespondError(id, method, content, error) ==
    LET m == [Answer(method, content, error) EXCEPT !["id"] = id] IN
    /\ Queue(Head4(ByteSize(m)) \o Serialize(m), <<>>, m)
    /\ UNCHANGED msgID

(* Mutant of Cached: the id of the message it was taken from is kept.      *)
CachedWithId(method, content, error) ==
    Serialize([Answer(method, content, error) EXCEPT !["id"] = 1])

(* What AdManager keeps in _bufPolicy, _bufAdList and _bufImages, and what *)
(* initResponseBuf puts there first.                                       *)
Cached(method, content, error) == Serialize(Answer(method, content, error))

(* queueRspMsg(msgID, data): a message that is nothing but the id, and the *)
(* kept answer behind it.                                                  *)
RespondCached(id, method, content, error) ==
    LET m    == [Default EXCEPT !["id"] = id]
        data == Cached(method, content, error) IN
    /\ Queue(Head4(ByteSize(m) + Len(data)) \o Serialize(m), data,
             [Answer(method, content, error) EXCEPT !["id"] = id])
    /\ UNCHANGED msgID

(* writeData: the buffers of the front, of which some bytes are taken.     *)
Buffers == Head(msgQueue)[1] \o Head(msgQueue)[2]

WriteSome(n) ==
    /\ writing
    /\ written + n <= Len(Buffers)
    /\ written' = written + n
    /\ wire' = wire \o SubSeq(Buffers, written + 1, written + n)
    /\ UNCHANGED <<sender, writing, receiver>>

(* Mutant of WriteDone: the next message is not written.                   *)
WriteDoneStops ==
    /\ writing /\ written = Len(Buffers)
    /\ msgQueue' = Tail(msgQueue)
    /\ writing' = FALSE /\ written' = 0
    /\ UNCHANGED <<msgID, meant, wire, receiver>>

(* Mutant of WriteDone: the message written stays in front of the queue.   *)
WriteDoneAgain ==
    /\ writing /\ written = Len(Buffers)
    /\ written' = 0
    /\ UNCHANGED <<msgID, msgQueue, writing, meant, wire, receiver>>

(* The handler of writeData.                                               *)
WriteDone ==
    /\ writing /\ written = Len(Buffers)
    /\ msgQueue' = Tail(msgQueue)
    /\ writing' = (Tail(msgQueue) # <<>>) /\ written' = 0
    /\ UNCHANGED <<msgID, meant, wire, receiver>>

-----------------------------------------------------------------------------
(* The receiver.                                                           *)

(* async_read with transfer_exactly: some of the bytes that it waits for.  *)
ReadSome(n) ==
    /\ n <= Len(wire) /\ Len(recvBuf) + n <= reading.size
    /\ recvBuf' = recvBuf \o SubSeq(wire, 1, n)
    /\ wire' = SubSeq(wire, n + 1, Len(wire))
    /\ UNCHANGED <<sender, writing, written, reading, received>>

(* Mutant of readHead: the bytes of the length stay in the buffer.         *)
readHeadKeeps ==
    /\ reading.part = "head" /\ Len(recvBuf) = reading.size
    /\ reading' = [part |-> "body", size |-> recvBuf[1][2]]
    /\ UNCHANGED <<sender, writing, written, wire, recvBuf, received>>

(* The handler of readHead: the length is taken from the first four bytes, *)
(* whatever they are.                                                      *)
readHead ==
    /\ reading.part = "head" /\ Len(recvBuf) = reading.size
    /\ reading' = [part |-> "body", size |-> recvBuf[1][2]]
    /\ recvBuf' = <<>>
    /\ UNCHANGED <<sender, writing, written, wire, received>>

(* Mutant of readBody: the bytes that were parsed stay in the buffer.      *)
readBodyKeeps ==
    /\ reading.part = "body" /\ Len(recvBuf) = reading.size
    /\ received' = IF Parses(recvBuf) THEN Append(received, Parsed(recvBuf)) ELSE received
    /\ reading' = [part |-> "head", size |-> HeadSize]
    /\ UNCHANGED <<sender, writing, written, wire, recvBuf>>

(* The handler of readBody.                                                *)
readBody ==
    /\ reading.part = "body" /\ Len(recvBuf) = reading.size
    /\ received' = IF Parses(recvBuf) THEN Append(received, Parsed(recvBuf)) ELSE received
    /\ reading' = [part |-> "head", size |-> HeadSize]
    /\ recvBuf' = <<>>
    /\ UNCHANGED <<sender, writing, written, wire>>

(* An answer goes to a request that was read, so its id is not 0.  A kept  *)
(* answer has a content, or the error of initResponseBuf.                  *)
Send == \E method \in Methods :
            \/ \E content \in Contents :
                  \/ Request(method, content)
                  \/ \E id \in Ids : RespondCached(id, method, content, 0)
                  \/ \E id \in Ids, e \in Errors : RespondError(id, method, content, e)
            \/ \E id \in Ids, e \in Errors : RespondCached(id, method, 0, e)

(* Chunks never exceed what there is to transfer.                          *)
Take == \E n \in 1..(IF writing THEN Len(Buffers) ELSE 0) : WriteSome(n)
Give == \E n \in 1..Len(wire) : ReadSome(n)

Next == Send \/ Take \/ WriteDone \/ Give \/ readHead \/ readBody

Spec == Init /\ [][Next]_vars

(* As long as the connection lasts, operations in progress make progress   *)
(* and their handlers run.                                                 *)
FairSpec == Spec /\ WF_vars(Take) /\ WF_vars(WriteDone)
                 /\ WF_vars(Give) /\ WF_vars(readHead) /\ WF_vars(readBody)

-----------------------------------------------------------------------------
TypeOK ==
    /\ msgID \in 1..(MaxSend + 1)
    /\ meant \in Seq(Message) /\ Len(meant) <= MaxSend
    /\ received \in Seq(Message)
    /\ writing \in BOOLEAN
    /\ written \in 0..(IF writing THEN Len(Buffers) ELSE 0)
    /\ reading.part \in {"head", "body"} /\ Len(recvBuf) <= reading.size

(* Whatever pieces the bytes travel in, the other side parses the messages *)
(* that were queued, in their order, every answer under the id of its      *)
(* request: a kept answer is the same as one that was built for it.        *)
ReceivedAsMeant == IsPrefix(received, meant)

(* No side waits for bytes that have gone: as long as a message has not    *)
(* been parsed, it is being written, or bytes that are waited for are in   *)
(* the network, or a handler of the reader is due.                         *)
NeverStarved ==
    Len(received) < Len(meant) =>
        \/ writing
        \/ wire # <<>> /\ Len(recvBuf) < reading.size
        \/ Len(recvBuf) = reading.size

(* Head, pieces, buffers and serialized forms are the sessions' own: what  *)
(* is left of them is a channel of messages (MessageChannel).              *)
Abs == INSTANCE MessageChannel WITH Messages <- Message, sent <- meant, delivered <- received

ImplementsChannel == Abs!Spec

(* The reader never loses the beginning of a message: as long as the       *)
(* connection lasts, each message that was queued arrives.                 *)
EachArrives == \A k \in 1..MaxSend : (Len(meant) >= k) ~> (Len(received) >= k)
=============================================================================
