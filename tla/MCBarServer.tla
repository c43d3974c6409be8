----------------------------- MODULE MCBarServer -----------------------------
(***************************************************************************)
(* BarServer for TLC.  The property states what a comment of the code says *)
(* of the files the server sends and is refuted by a run.                  *)
(***************************************************************************)
EXTENDS BarServer

(* AdManagerImpl.h:75: an entry of _bufImages is the serialised message of *)
(* the ad's file, and this is what a client that asks for the file gets.   *)
FilesAreGenuine ==
    \A s \in Sessions : \A i \in 1..Len(ses[s].out) : ses[s].out[i].data # Garbage
==============================================================================
