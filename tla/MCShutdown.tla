------------------------------ MODULE MCShutdown ------------------------------
(***************************************************************************)
(* Shutdown for TLC, with the property that a run refutes.                 *)
(***************************************************************************)
EXTENDS Shutdown

(* AdManager.h:35 says of endBusiness() that it ends the advertisement     *)
(* business: it returns, whatever the business thread waits for, whatever  *)
(* the peer does, and whatever the net thread is in the middle of.         *)
EndBusinessReturns == (app # "business") ~> (app = "ended")
==============================================================================
