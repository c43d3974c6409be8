------------------------------- MODULE AdChain --------------------------------
(***************************************************************************)
(* The last leg of an advertisement: the business of a bar client (the     *)
(* variables of AdBusiness) composed with the bar server it asks.  The     *)
(* server runs the same code; of it this module keeps what the client can  *)
(* see: the policy and the list it has published (peer) and its memory,    *)
(* which is a FileCache (AdBusiness implements it): known and files.       *)
(* handleRequest answers getAdFile from that memory as it is when the      *)
(* request is handled, in whatever version that is.                        *)
(*                                                                         *)
(* The server publishes a list before it merges it into its _mapAd and     *)
(* before it fetches the files, so the client may be ahead of it.          *)
(***************************************************************************)
EXTENDS AdBusiness

VARIABLES known,    \* _mapAd of the server
          files     \* _bufImages of the server

chainVars == <<vars, known, files>>

ChainInit ==
    /\ Init /\ ~isBarServer
    /\ known = [id \in Ids |-> None]
    /\ files = [id \in Ids |-> None]

Supply == INSTANCE FileCache

-----------------------------------------------------------------------------
(* The server.                                                             *)

(* Another policy or another list is published.                            *)
ServerPublishes == PeerChanges /\ UNCHANGED <<known, files>>

(* The rest of requestAdList on the server, and the start of downloadAds:  *)
(* the list is merged and what the policy does not need is dropped.        *)
ServerPolicyIds == peer.policy.lock \cup peer.policy.other

ServerMerges ==
    /\ known' = LookedUp(Inserted(known, peer.ads), ServerPolicyIds)
    /\ files' = Erased(files, {id \in ServerPolicyIds : known'[id] \in 1..MaxVer})
    /\ UNCHANGED vars

(* downloadAd on the server.                                               *)
ServerFetches(id) ==
    /\ id \in ServerPolicyIds
    /\ Supply!Fetch(id)
    /\ UNCHANGED vars

-----------------------------------------------------------------------------
(* Mutant of GetsFile: whatever comes is taken for the version asked for.  *)
GetsFileUnchecked(id) ==
    /\ biz.at = "file" /\ id = Min(biz.todo) /\ files[id] # None
    /\ FileArrives(mapAd[id])

(* The client gets its next file, if the server has one.                   *)
GetsFile(id) ==
    /\ biz.at = "file" /\ id = Min(biz.todo) /\ files[id] # None
    /\ FileArrives(files[id])

(* The steps of the client that need no file of the server.                *)
ClientRuns == \/ Connected \/ RunPolicy \/ PolicyOk \/ PolicyFailed \/ PolicyUnparsable
              \/ RunAdList \/ ListOk \/ ListFailed \/ RunDownload \/ FileFailed
              \/ PolicyTimerExpires \/ AdListTimerExpires \/ DownloadTimerExpires
              \/ EndBusiness

ChainNext ==
    \/ ServerPublishes \/ ServerMerges
    \/ \E id \in Ids : ServerFetches(id)
    \/ ClientRuns /\ UNCHANGED <<known, files>>
    \/ (\E id \in Ids : GetsFile(id)) /\ UNCHANGED <<known, files>>

ChainSpec == ChainInit /\ [][ChainNext]_chainVars

(* As in AdBusiness; and the server goes on with what it has begun.        *)
ChainFairness ==
    /\ WF_vars(Connected)
    /\ SF_vars(RunPolicy) /\ SF_vars(RunAdList) /\ SF_vars(RunDownload)
    /\ WF_vars(PolicyTimerExpires) /\ WF_vars(AdListTimerExpires)
    /\ WF_vars(DownloadTimerExpires)
    /\ SF_vars(PolicyOk) /\ SF_vars(ListOk) /\ WF_vars(FileFailed)
    /\ \A id \in Ids : SF_vars(GetsFile(id))
    /\ WF_chainVars(ServerMerges)
    /\ \A id \in Ids : WF_chainVars(ServerFetches(id))

FairChain == ChainSpec /\ ChainFairness

-----------------------------------------------------------------------------
(* The client wants the ad in the version that the server knows, and the   *)
(* server needs it too.                                                    *)
Wanted(id) == /\ id \in PolicyIds \cap ServerPolicyIds
              /\ mapAd[id] \in 1..MaxVer /\ mapAd[id] = known[id]

(* An ad comes to the client at last by way of the memory of the server,   *)
(* although the server publishes it before it has its file, may drop and   *)
(* fetch the file again, and either side fails on the way.                 *)
ReachesClient ==
    \A id \in Ids : Wanted(id) ~>
        (bufImages[id] # None \/ ~Wanted(id) \/ isEndBusiness \/ CutShort)

(* A client's file is of the version that the client knows, even when the  *)
(* server answered with the file of another version; and when both sides   *)
(* know the same version, it is what the server has or had.                *)
ClientFileIsKnown ==
    \A id \in Ids : bufImages[id] # None => bufImages[id] = mapAd[id] /\ bufImages[id] = known[id]
==============================================================================
