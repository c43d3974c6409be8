---------------------------- MODULE DeadlineTimer ----------------------------
(***************************************************************************)
(* boost::asio::deadline_timer as the repository uses it: the handlers are *)
(* bound without the error_code argument, so they run alike for a wait     *)
(* that expires and for a wait that is cancelled; a new expiry time        *)
(* cancels the wait in progress.                                           *)
(***************************************************************************)
EXTENDS Integers

(* waiting: a wait is in progress; expired, cancelled: queued handlers of  *)
(* waits that ended in that way.                                           *)
TimerType == [waiting : BOOLEAN, expired : Nat, cancelled : Nat]

NewTimer == [waiting |-> FALSE, expired |-> 0, cancelled |-> 0]

ExpiresFromNow(t) == [t EXCEPT !.waiting = FALSE,
                               !.cancelled = IF t.waiting THEN @ + 1 ELSE @]

AsyncWait(t) == [t EXCEPT !.waiting = TRUE]

Expire(t) == [t EXCEPT !.waiting = FALSE, !.expired = @ + 1]

(* The timer once one of its queued handlers has been taken to be run.     *)
HandlerTaken(t) ==
    (IF t.expired > 0 THEN {[t EXCEPT !.expired = @ - 1]} ELSE {}) \cup
    (IF t.cancelled > 0 THEN {[t EXCEPT !.cancelled = @ - 1]} ELSE {})

(* The handler will run again.                                             *)
Alive(t) == t.waiting \/ t.expired > 0 \/ t.cancelled > 0
==============================================================================
