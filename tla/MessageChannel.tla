--------------------------- MODULE MessageChannel ---------------------------
(***************************************************************************)
(* What a pair of TcpSessions promises while its connection lasts, and     *)
(* what both sides of the program rely on: a first-in first-out channel.   *)
(* Messages are delivered one at a time and in the order in which they     *)
(* were handed over, none is left out, doubled or changed, and what has    *)
(* been handed over or delivered is never taken back.                      *)
(***************************************************************************)
EXTENDS Integers, Sequences

CONSTANT Messages

VARIABLES sent,       \* the messages handed to the sending session
          delivered   \* the messages the receiving session has handed out

Init == sent = <<>> /\ delivered = <<>>

Send(m) == sent' = Append(sent, m) /\ UNCHANGED delivered

Deliver ==
    /\ Len(delivered) < Len(sent)
    /\ delivered' = Append(delivered, sent[Len(delivered) + 1])
    /\ UNCHANGED sent

Next == (\E m \in Messages : Send(m)) \/ Deliver

Spec == Init /\ [][Next]_<<sent, delivered>>
=============================================================================
