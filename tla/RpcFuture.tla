------------------------------ MODULE RpcFuture ------------------------------
(***************************************************************************)
(* What a caller of TcpSession::request may rely on, with no sockets in    *)
(* it: every call gets a future; the future is set at most once; the value *)
(* is the answer to that very call or a network error; a network error may *)
(* fail several calls in one step.                                         *)
(***************************************************************************)
EXTENDS Integers

CONSTANTS MaxReq,    \* bound on the number of calls
          Pending,   \* the future has no value yet
          NetError   \* Message with returnCode -1

VARIABLES posted,    \* number of calls made so far
          result     \* result[r]: the value of the future of call r

vars == <<posted, result>>

Reqs == 1..MaxReq

Init == /\ posted = 0
        /\ result = [r \in Reqs |-> Pending]

Call == /\ posted < MaxReq
        /\ posted' = posted + 1
        /\ UNCHANGED result

(* The future of an outstanding call receives the answer to that call.     *)
Answer(r) == /\ r <= posted
             /\ result[r] = Pending
             /\ result' = [result EXCEPT ![r] = r]
             /\ UNCHANGED posted

(* All the calls of S fail together.                                       *)
Fail(S) == /\ \A r \in S : r <= posted /\ result[r] = Pending
           /\ result' = [r \in Reqs |-> IF r \in S THEN NetError ELSE result[r]]
           /\ UNCHANGED posted

Next == \/ Call
        \/ \E r \in Reqs : Answer(r)
        \/ \E S \in SUBSET Reqs : Fail(S)

Spec == Init /\ [][Next]_vars
==============================================================================
