------------------------------ MODULE FileCache -------------------------------
(***************************************************************************)
(* What the two maps of AdManagerImpl promise to the threads that read     *)
(* them, with no requests, timers or policies in it: what is known of an   *)
(* ad never changes once it is known; the file of an ad comes into memory  *)
(* only in the version that is known, and goes only as a whole.            *)
(***************************************************************************)
EXTENDS Integers

CONSTANTS Ids,      \* ids of ads
          MaxVer,   \* versions of a file are 1..MaxVer, 0 is an ad without a file
          None      \* nothing known, no file

VARIABLES known,    \* known[id]: the version of the ad, or None
          files     \* files[id]: the version of the file in memory, or None

vars == <<known, files>>

Init == /\ known = [id \in Ids |-> None]
        /\ files = [id \in Ids |-> None]

(* More ads become known, and the files of some others are dropped.        *)
Update ==
    /\ known' \in [Ids -> (0..MaxVer) \cup {None}]
    /\ files' \in [Ids -> (1..MaxVer) \cup {None}]
    /\ \A id \in Ids : known[id] # None => known'[id] = known[id]
    /\ \A id \in Ids : files'[id] \in {files[id], None}

(* The file of an ad arrives.                                              *)
Fetch(id) ==
    /\ files[id] = None /\ known[id] \in 1..MaxVer
    /\ files' = [files EXCEPT ![id] = known[id]]
    /\ UNCHANGED known

Next == Update \/ \E id \in Ids : Fetch(id)

Spec == Init /\ [][Next]_vars
==============================================================================
