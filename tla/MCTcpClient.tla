----------------------------- MODULE MCTcpClient -----------------------------
(***************************************************************************)
(* TcpClient for TLC.  The property states what a comment of the code says *)
(* of the client and is refuted by a run.                                  *)
(***************************************************************************)
EXTENDS TcpClient

(* TcpSession.h:37: request() "issues a request as client".  Every request *)
(* is written on some connection, or fails.                                *)
EveryRequestIsSent ==
    \A r \in Reqs : (posted >= r) ~> (r \in io.sent \/ result[r] # Pending)
==============================================================================
