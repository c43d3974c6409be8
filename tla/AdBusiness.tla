----------------------------- MODULE AdBusiness ------------------------------
(***************************************************************************)
(* AdManager.cpp: the advertisement business of one bar server or one bar  *)
(* client.  Its business thread runs the handlers of _iosBiz one at a      *)
(* time: requestAdPlayPolicy, requestAdList and downloadAds, each the      *)
(* handler of a timer, the later ones also called by the earlier ones.     *)
(* Every one of them blocks in future::get() for the peer's answer, so a   *)
(* handler is several steps: the peer (the advertisement centre for a bar  *)
(* server, the bar server for a client) may change what it offers between  *)
(* two requests, and timers expire meanwhile.                              *)
(*                                                                         *)
(* An Ad is the version of its file (its md5): 0 is an ad with nothing to  *)
(* download, which is also what operator[] of _mapAd makes up for an id    *)
(* that is not there.  A policy is the ids it plays on the lock screen     *)
(* (location 1) and elsewhere.                                             *)
(***************************************************************************)
EXTENDS DeadlineTimer, FiniteSets, FiniteSetsExt

CONSTANTS Ids,          \* ids of ads, a set of naturals
          MaxVer,       \* bound on the versions of a file
          Policies,     \* the policies the peer may have
          Lists,        \* the ad lists the peer may have
          MaxChanges,   \* bound on the changes the peer makes
          MaxRuns,      \* bound on the runs of requestAdPlayPolicy
          Roles,        \* values of the isBarServer argument of setConfig
          None          \* no such entry, no data

ASSUME BusinessAssumption ==
    /\ Ids \subseteq Nat /\ IsFiniteSet(Ids)
    /\ MaxVer \in Nat /\ MaxChanges \in Nat /\ MaxRuns \in Nat
    /\ Policies \subseteq [lock : SUBSET Ids, other : SUBSET Ids]
    /\ Lists \subseteq [Ids -> (0..MaxVer) \cup {None}]
    /\ Roles \subseteq BOOLEAN
    /\ None \notin Nat

VARIABLES isBarServer,    \* _isBarServer
          policy,         \* _policy
          mapAd,          \* _mapAd: id -> version, or None
          bufPolicy,      \* _bufPolicy: what clients are answered
          bufAdList,      \* _bufAdList
          bufImages,      \* _bufImages: id -> version of the file, or None
          lockAds,        \* _lockAds
          playList,       \* _pPlayer->_playList: items <<id, adfile is set>>
          timerPolicy, timerAdList, timerDownload,
          retrySoon,      \* _timerPolicy was set to 5 minutes, not to 6 hours
          biz,            \* where the business thread is, see BizType
          isEndBusiness,  \* _isEndBusiness
          peer,           \* what the peer offers
          changes, runs   \* bounded counters

data   == <<isBarServer, policy, mapAd, bufPolicy, bufAdList, bufImages, lockAds, playList>>
timers == <<timerPolicy, timerAdList, timerDownload, retrySoon>>
vars   == <<data, timers, biz, isEndBusiness, peer, changes, runs>>

(* at: the request that is waited for; nested: within a call made by       *)
(* requestAdPlayPolicy; todo: the ads downloadAds has still to fetch.      *)
BizType == [at : {"connect", "idle", "policy", "list", "file"},
            nested : BOOLEAN, todo : SUBSET Ids]

Idle == [at |-> "idle", nested |-> FALSE, todo |-> {}]

EmptyPolicy == [lock |-> {}, other |-> {}]

Init ==
    /\ isBarServer \in Roles
    /\ policy = EmptyPolicy
    /\ mapAd = [id \in Ids |-> None]
    /\ bufPolicy = None /\ bufAdList = None
    /\ bufImages = [id \in Ids |-> None]
    /\ lockAds = {} /\ playList = {}
    /\ timerPolicy = NewTimer /\ timerAdList = NewTimer /\ timerDownload = NewTimer
    /\ retrySoon = FALSE
    /\ biz = [Idle EXCEPT !.at = "connect"]
    /\ isEndBusiness = FALSE
    /\ peer \in [policy : Policies, ads : Lists]
    /\ changes = 0 /\ runs = 0

-----------------------------------------------------------------------------
(* Mutant of Return: every handler waits for the timer again.              *)
ReturnAlwaysWaits(nested, tPolicy) ==
    /\ biz' = Idle
    /\ timerPolicy' = AsyncWait(tPolicy)

(* requestAdPlayPolicy ends with async_wait on its timer, on which it has   *)
(* already called expires_from_now; a handler that was not called by it    *)
(* just returns.                                                           *)
Return(nested, tPolicy) ==
    /\ biz' = Idle
    /\ timerPolicy' = IF nested THEN AsyncWait(tPolicy) ELSE tPolicy

PolicyIds == policy.lock \cup policy.other

(* The ids of the policy whose ad, in m, has something to download.        *)
Needed(m) == {id \in PolicyIds : m[id] \in 1..MaxVer}

Missing(need, images) == {id \in need : images[id] = None}

(* operator[] of _mapAd adds an entry without a file for an unknown id.    *)
LookedUp(m, S) == [id \in Ids |-> IF id \in S /\ m[id] = None THEN 0 ELSE m[id]]

(* Mutant of Inserted: an entry is replaced by the new one.                *)
InsertedOverwrites(m, ads) == [id \in Ids |-> IF ads[id] = None THEN m[id] ELSE ads[id]]

(* insert() does not replace an entry that is already in _mapAd.           *)
Inserted(m, ads) == [id \in Ids |-> IF m[id] = None THEN ads[id] ELSE m[id]]

(* Mutant of DownloadsEnd: a missing file is not asked for again.          *)
DownloadsEndForGood(need, images, tDownload, nested) ==
    /\ timerDownload' = tDownload
    /\ Return(nested, timerPolicy)

(* The end of downloadAds: try again in five minutes if a file is missing. *)
DownloadsEnd(need, images, tDownload, nested) ==
    /\ timerDownload' = IF Missing(need, images) # {}
                        THEN AsyncWait(ExpiresFromNow(tDownload)) ELSE tDownload
    /\ Return(nested, timerPolicy)

(* Mutant of Erased: nothing is dropped.                                   *)
ErasedNothing(images, need) == images

(* The files in memory that are not needed any more are dropped.           *)
Erased(images, need) == [id \in Ids |-> IF id \in need THEN images[id] ELSE None]

(* downloadAds up to its first request, when _mapAd is m: files that the   *)
(* policy does not need any more are dropped, missing ones will be fetched.*)
downloadAds(m, tDownload, nested) ==
    \/ /\ isEndBusiness
       /\ mapAd' = m
       /\ timerDownload' = tDownload
       /\ Return(nested, timerPolicy)
       /\ UNCHANGED bufImages
    \/ /\ ~isEndBusiness
       /\ mapAd' = LookedUp(m, PolicyIds)
       /\ bufImages' = Erased(bufImages, Needed(m))
       /\ LET todo == Missing(Needed(m), bufImages) IN
          \/ todo = {} /\ DownloadsEnd(Needed(m), bufImages, tDownload, nested)
          \/ /\ todo # {}
             /\ biz' = [at |-> "file", nested |-> nested, todo |-> todo]
             /\ timerDownload' = tDownload
             /\ UNCHANGED timerPolicy

(* requestAdList up to its request.                                        *)
requestAdList(tPolicy, nested) ==
    \/ isEndBusiness /\ Return(nested, tPolicy)
    \/ /\ ~isEndBusiness
       /\ biz' = [at |-> "list", nested |-> nested, todo |-> {}]
       /\ timerPolicy' = tPolicy

(* requestAdPlayPolicy up to its request.                                  *)
requestAdPlayPolicy(tPolicy) ==
    /\ timerPolicy' = tPolicy
    /\ \/ isEndBusiness /\ biz' = Idle /\ UNCHANGED runs
       \/ /\ ~isEndBusiness /\ runs < MaxRuns
          /\ biz' = [at |-> "policy", nested |-> TRUE, todo |-> {}]
          /\ runs' = runs + 1

-----------------------------------------------------------------------------
(* The lambda that bgnBusiness posts: syncConnect is called until it       *)
(* succeeds, then the policy is asked for.                                 *)
Connected ==
    /\ biz.at = "connect"
    /\ requestAdPlayPolicy(timerPolicy)
    /\ UNCHANGED <<data, timerAdList, timerDownload, retrySoon>>
    /\ UNCHANGED <<isEndBusiness, peer, changes>>

RunPolicy ==
    /\ biz.at = "idle"
    /\ \E t \in HandlerTaken(timerPolicy) : requestAdPlayPolicy(t)
    /\ UNCHANGED <<data, timerAdList, timerDownload, retrySoon>>
    /\ UNCHANGED <<isEndBusiness, peer, changes>>

(* The policy arrives: it is kept and published, then the list is asked    *)
(* for within the same call.                                               *)
PolicyOk ==
    /\ biz.at = "policy"
    /\ policy' = peer.policy
    /\ bufPolicy' = peer.policy
    /\ retrySoon' = FALSE
    /\ requestAdList(ExpiresFromNow(timerPolicy), TRUE)
    /\ UNCHANGED <<isBarServer, mapAd, bufAdList, bufImages, lockAds, playList>>
    /\ UNCHANGED <<timerAdList, timerDownload, isEndBusiness, peer, changes, runs>>

(* A network error or an error code: ask again in five minutes.            *)
PolicyFailed ==
    /\ biz.at = "policy"
    /\ retrySoon' = TRUE
    /\ Return(TRUE, ExpiresFromNow(timerPolicy))
    /\ UNCHANGED <<data, timerAdList, timerDownload, isEndBusiness, peer, changes, runs>>

(* Mutant of PolicyUnparsable: what could be read is published.            *)
PolicyUnparsablePublished ==
    /\ biz.at = "policy"
    /\ \E l \in SUBSET peer.policy.lock, o \in SUBSET peer.policy.other :
          policy' = [lock |-> l, other |-> o]
    /\ bufPolicy' = policy'
    /\ retrySoon' = TRUE
    /\ Return(TRUE, ExpiresFromNow(timerPolicy))
    /\ UNCHANGED <<isBarServer, mapAd, bufAdList, bufImages, lockAds, playList>>
    /\ UNCHANGED <<timerAdList, timerDownload, isEndBusiness, peer, changes, runs>>

(* The content does not parse.  ParseFromString works on _policy itself    *)
(* and leaves in it what was read before the error.                        *)
PolicyUnparsable ==
    /\ biz.at = "policy"
    /\ \E l \in SUBSET peer.policy.lock, o \in SUBSET peer.policy.other :
          policy' = [lock |-> l, other |-> o]
    /\ retrySoon' = TRUE
    /\ Return(TRUE, ExpiresFromNow(timerPolicy))
    /\ UNCHANGED <<isBarServer, mapAd, bufPolicy, bufAdList, bufImages, lockAds, playList>>
    /\ UNCHANGED <<timerAdList, timerDownload, isEndBusiness, peer, changes, runs>>

RunAdList ==
    /\ biz.at = "idle"
    /\ timerAdList' \in HandlerTaken(timerAdList)
    /\ requestAdList(timerPolicy, FALSE)
    /\ UNCHANGED <<data, timerDownload, retrySoon, isEndBusiness, peer, changes, runs>>

(* The list arrives: it is published and merged into _mapAd; a client also *)
(* appends the lock screen ads of the policy to the play list, as yet      *)
(* without a file; then downloadAds is called.                             *)
ListOk ==
    LET lock == IF isBarServer THEN {} ELSE policy.lock IN
    /\ biz.at = "list"
    /\ bufAdList' = peer.ads
    /\ lockAds' = lockAds \cup lock
    /\ playList' = playList \cup (lock \X {FALSE})
    /\ downloadAds(LookedUp(Inserted(mapAd, peer.ads), lock), timerDownload, biz.nested)
    /\ UNCHANGED <<isBarServer, policy, bufPolicy, timerAdList, retrySoon>>
    /\ UNCHANGED <<isEndBusiness, peer, changes, runs>>

(* No list, or one that does not parse: ask again in five minutes.         *)
ListFailed ==
    /\ biz.at = "list"
    /\ timerAdList' = AsyncWait(ExpiresFromNow(timerAdList))
    /\ Return(biz.nested, timerPolicy)
    /\ UNCHANGED <<data, timerDownload, retrySoon, isEndBusiness, peer, changes, runs>>

RunDownload ==
    /\ biz.at = "idle"
    /\ \E t \in HandlerTaken(timerDownload) : downloadAds(mapAd, t, FALSE)
    /\ UNCHANGED <<isBarServer, policy, bufPolicy, bufAdList, lockAds, playList>>
    /\ UNCHANGED <<timerAdList, retrySoon, isEndBusiness, peer, changes, runs>>

(* UpdatePlayList: every item of the ad gets the file.                     *)
UpdatePlayList(id) == {IF item[1] = id THEN <<id, TRUE>> ELSE item : item \in playList}

(* downloadAds goes on to its next download, or ends.                      *)
NextDownload(id, images) ==
    LET todo == biz.todo \ {id} IN
    \/ todo = {} /\ DownloadsEnd(Needed(mapAd), images, timerDownload, biz.nested)
    \/ /\ todo # {}
       /\ biz' = [biz EXCEPT !.todo = todo]
       /\ UNCHANGED <<timerPolicy, timerDownload>>

(* downloadAd has fetched version v of the next file.  It is kept if it is *)
(* the version that _mapAd asks for; a client that knows the ad as a lock  *)
(* screen ad hands it to the player.                                       *)
Kept(id, v) == v = mapAd[id]

FileArrives(v) ==
    LET id == Min(biz.todo) IN
    /\ biz.at = "file"
    /\ \/ /\ Kept(id, v)
          /\ bufImages' = [bufImages EXCEPT ![id] = v]
          /\ playList' = IF id \in lockAds THEN UpdatePlayList(id) ELSE playList
       \/ /\ ~Kept(id, v)
          /\ UNCHANGED <<bufImages, playList>>
    /\ NextDownload(id, bufImages')
    /\ UNCHANGED <<isBarServer, policy, mapAd, bufPolicy, bufAdList, lockAds>>
    /\ UNCHANGED <<timerAdList, retrySoon, isEndBusiness, peer, changes, runs>>

(* No file: a network error, an error code, or every url failed.           *)
FileFailed ==
    /\ biz.at = "file"
    /\ NextDownload(Min(biz.todo), bufImages)
    /\ UNCHANGED <<data, timerAdList, retrySoon, isEndBusiness, peer, changes, runs>>

(* Mutant of GetAd: the entry is made anew.                                *)
GetAdResets(id) ==
    /\ mapAd' = [mapAd EXCEPT ![id] = 0]
    /\ UNCHANGED <<isBarServer, policy, bufPolicy, bufAdList, bufImages, lockAds, playList>>
    /\ UNCHANGED <<timers, biz, isEndBusiness, peer, changes, runs>>

(* AdManager::getAd, on the application's thread, without the mutex: it    *)
(* adds an entry for an unknown id, like every operator[] of _mapAd.       *)
GetAd(id) ==
    /\ mapAd' = LookedUp(mapAd, {id})
    /\ UNCHANGED <<isBarServer, policy, bufPolicy, bufAdList, bufImages, lockAds, playList>>
    /\ UNCHANGED <<timers, biz, isEndBusiness, peer, changes, runs>>

(* The first step of endBusiness(), on the application's thread.           *)
EndBusiness ==
    /\ ~isEndBusiness
    /\ isEndBusiness' = TRUE
    /\ UNCHANGED <<data, timers, biz, peer, changes, runs>>

-----------------------------------------------------------------------------
(* The clock and the peer.                                                 *)

PolicyTimerExpires ==
    /\ timerPolicy.waiting /\ timerPolicy' = Expire(timerPolicy)
    /\ UNCHANGED <<timerAdList, timerDownload, retrySoon>>
    /\ UNCHANGED <<data, biz, isEndBusiness, peer, changes, runs>>

AdListTimerExpires ==
    /\ timerAdList.waiting /\ timerAdList' = Expire(timerAdList)
    /\ UNCHANGED <<timerPolicy, timerDownload, retrySoon>>
    /\ UNCHANGED <<data, biz, isEndBusiness, peer, changes, runs>>

DownloadTimerExpires ==
    /\ timerDownload.waiting /\ timerDownload' = Expire(timerDownload)
    /\ UNCHANGED <<timerPolicy, timerAdList, retrySoon>>
    /\ UNCHANGED <<data, biz, isEndBusiness, peer, changes, runs>>

(* The peer gets another policy or another list.                           *)
PeerChanges ==
    /\ changes < MaxChanges
    /\ changes' = changes + 1
    /\ \/ \E p \in Policies : peer' = [peer EXCEPT !.policy = p]
       \/ \E l \in Lists : peer' = [peer EXCEPT !.ads = l]
    /\ UNCHANGED <<data, timers, biz, isEndBusiness, runs>>

Next == \/ Connected \/ RunPolicy \/ PolicyOk \/ PolicyFailed \/ PolicyUnparsable
        \/ RunAdList \/ ListOk \/ ListFailed
        \/ RunDownload \/ (\E v \in 1..MaxVer : FileArrives(v)) \/ FileFailed
        \/ PolicyTimerExpires \/ AdListTimerExpires \/ DownloadTimerExpires
        \/ (\E id \in Ids : GetAd(id)) \/ EndBusiness \/ PeerChanges

Spec == Init /\ [][Next]_vars

-----------------------------------------------------------------------------
TypeOK ==
    /\ isBarServer \in Roles
    /\ policy \in [lock : SUBSET Ids, other : SUBSET Ids]
    /\ mapAd \in [Ids -> (0..MaxVer) \cup {None}]
    /\ bufPolicy \in Policies \cup {None}
    /\ bufAdList \in Lists \cup {None}
    /\ bufImages \in [Ids -> (1..MaxVer) \cup {None}]
    /\ lockAds \subseteq Ids
    /\ playList \subseteq Ids \X BOOLEAN
    /\ timerPolicy \in TimerType /\ timerAdList \in TimerType /\ timerDownload \in TimerType
    /\ retrySoon \in BOOLEAN
    /\ biz \in BizType
    /\ isEndBusiness \in BOOLEAN
    /\ peer \in [policy : Policies, ads : Lists]
    /\ changes \in 0..MaxChanges
    /\ runs \in 0..MaxRuns

(* A cached file is the version that _mapAd asks for, however often ads,   *)
(* lists and policies were replaced since it was fetched: what is served   *)
(* or played is never a file of another version than the ad it is for.     *)
CachedFileMatches == \A id \in Ids : bufImages[id] # None => bufImages[id] = mapAd[id]

(* Whatever the peer, the timers and the application do, the readers of    *)
(* _mapAd and _bufImages see a FileCache: an ad that is known is never     *)
(* replaced, and its file comes and goes only in its version.              *)
Cache == INSTANCE FileCache WITH known <- mapAd, files <- bufImages

ImplementsFileCache == Cache!Spec

(* When the business thread is idle, a file that the policy needs and that *)
(* is not cached will be asked for within five minutes: by the retry of    *)
(* downloadAds, by that of requestAdList if the list that goes with the    *)
(* policy failed, or by that of requestAdPlayPolicy if the policy did.     *)
NoForgottenDownload ==
    (biz.at = "idle" /\ ~isEndBusiness /\ Missing(Needed(mapAd), bufImages) # {}) =>
        \/ Alive(timerDownload)
        \/ Alive(timerAdList)
        \/ Alive(timerPolicy) /\ retrySoon

(* The refresh of the policy never dies out and is never doubled: exactly  *)
(* one wait or queued handler when the thread is idle, none while a        *)
(* refresh is going on.                                                    *)
OnePolicyChain ==
    LET n == (IF timerPolicy.waiting THEN 1 ELSE 0) + timerPolicy.expired
                                                     + timerPolicy.cancelled
    IN  /\ n <= 1
        /\ biz.nested => n = 0
        /\ (biz.at = "idle" /\ ~isEndBusiness) => n = 1

(* The bound on refreshes prevents the retry that is due.                  *)
CutShort == runs = MaxRuns /\ retrySoon

(* The file of an ad that the policy does not play any more is dropped     *)
(* from memory at last, unless the policy wants it back or the business    *)
(* ends.                                                                   *)
EventuallyReleased ==
    \A id \in Ids : (bufImages[id] # None /\ id \notin PolicyIds) ~>
        (bufImages[id] = None \/ id \in PolicyIds \/ isEndBusiness \/ CutShort)
==============================================================================
