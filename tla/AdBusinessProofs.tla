-------------------------- MODULE AdBusinessProofs ---------------------------
(***************************************************************************)
(* Proofs about AdBusiness for any set of ads, any policies and lists the  *)
(* peer may have, any number of changes and of refreshes; and about        *)
(* AdChain, the business of a client composed with the server it asks.     *)
(***************************************************************************)
EXTENDS AdChain, DeadlineTimerProofs, TLAPS

Known  == [Ids -> (0..MaxVer) \cup {None}]
Images == [Ids -> (1..MaxVer) \cup {None}]

(* What m2 knows agrees with what m knows.                                 *)
Extends(m, m2) == \A id \in Ids : m[id] # None => m2[id] = m[id]

(* Files have only gone.                                                   *)
Dropped(f, f2) == \A id \in Ids : f2[id] \in {f[id], None}

(* What downloadAds has still to fetch is needed and not there.  It holds  *)
(* across the blocking requests because no other thread drops files or     *)
(* replaces ads.                                                           *)
TodoInv == biz.at = "file" =>
              biz.todo # {} /\ biz.todo \subseteq Missing(Needed(mapAd), bufImages)

CacheInv == TypeOK /\ TodoInv /\ CachedFileMatches

-----------------------------------------------------------------------------
(* The operators on _mapAd and _bufImages.                                 *)

(* operator[] makes nothing known that has a file.                         *)
LEMMA LookedUpFacts ==
    ASSUME PolicyIds \subseteq Ids, NEW m \in Known, NEW S
    PROVE  /\ LookedUp(m, S) \in Known
           /\ Extends(m, LookedUp(m, S))
           /\ Needed(LookedUp(m, S)) = Needed(m)
  <1>1. 0 \in (0..MaxVer) \cup {None} /\ 0 \notin 1..MaxVer /\ None \notin 1..MaxVer
    BY BusinessAssumption
  <1>2. LookedUp(m, S) \in Known
    BY <1>1 DEF LookedUp, Known
  <1>3. Extends(m, LookedUp(m, S))
    BY DEF LookedUp, Extends
  <1>4. \A id \in Ids : LookedUp(m, S)[id] \in 1..MaxVer <=> m[id] \in 1..MaxVer
    <2> SUFFICES ASSUME NEW id \in Ids
                 PROVE  LookedUp(m, S)[id] \in 1..MaxVer <=> m[id] \in 1..MaxVer
      OBVIOUS
    <2>1. LookedUp(m, S)[id] = m[id] \/ (LookedUp(m, S)[id] = 0 /\ m[id] = None)
      BY DEF LookedUp
    <2> QED
      BY <2>1, <1>1
  <1> QED
    BY <1>2, <1>3, <1>4 DEF Needed


(* insert() keeps the entries that are there.                              *)
LEMMA InsertedFacts ==
    ASSUME NEW m \in Known, NEW ads \in Lists
    PROVE  Inserted(m, ads) \in Known /\ Extends(m, Inserted(m, ads))
  <1>1. ads \in Known
    BY BusinessAssumption DEF Known
  <1> QED
    BY <1>1 DEF Inserted, Known, Extends

(* What is only added to twice is only added to.                           *)
LEMMA ExtendsTransitive ==
    ASSUME NEW m, NEW m2, NEW m3, Extends(m, m2), Extends(m2, m3)
    PROVE  Extends(m, m3)
  BY DEF Extends

(* Dropping what is not needed leaves what is missing as it is.            *)
LEMMA ErasedFacts ==
    ASSUME NEW images \in Images, NEW need \in SUBSET Ids
    PROVE  /\ Erased(images, need) \in Images
           /\ Dropped(images, Erased(images, need))
           /\ Missing(need, Erased(images, need)) = Missing(need, images)
  <1>1. Erased(images, need) \in Images
    BY DEF Erased, Images
  <1>2. Dropped(images, Erased(images, need))
    BY DEF Erased, Dropped
  <1>3. \A id \in need : Erased(images, need)[id] = images[id]
    BY DEF Erased
  <1> QED
    BY <1>1, <1>2, <1>3 DEF Missing

-----------------------------------------------------------------------------
(* How the handlers end.                                                   *)

(* expires_from_now and async_wait leave a timer that will call its        *)
(* handler, whatever state it was in.                                      *)
LEMMA TimerWaits ==
    ASSUME NEW t \in TimerType
    PROVE  AsyncWait(ExpiresFromNow(t)) \in TimerType /\ Alive(AsyncWait(ExpiresFromNow(t)))
  BY ExpiresFromNowFacts, AsyncWaitFacts DEF Alive

(* The end of a handler leaves the thread idle and timerPolicy as it was,  *)
(* or waiting.                                                             *)
LEMMA ReturnFacts ==
    ASSUME NEW nested \in BOOLEAN, NEW t \in TimerType, Return(nested, t)
    PROVE  /\ biz' = Idle /\ biz' \in BizType
           /\ timerPolicy' \in TimerType
           /\ timerPolicy' = IF nested THEN AsyncWait(t) ELSE t
  <1>1. Idle \in BizType
    BY DEF Idle, BizType
  <1> QED
    BY <1>1, AsyncWaitFacts DEF Return

(* The end of downloadAds: a retry is set when a file is missing.          *)
LEMMA DownloadsEndFacts ==
    ASSUME TypeOK, NEW need, NEW images, NEW tDownload \in TimerType, NEW nested \in BOOLEAN,
           DownloadsEnd(need, images, tDownload, nested)
    PROVE  /\ timerDownload' \in TimerType
           /\ Return(nested, timerPolicy)
           /\ Missing(need, images) = {} \/ Alive(timerDownload')
  BY TimerWaits DEF DownloadsEnd

(* downloadAds, called with what mapAd has become: the cache has only lost *)
(* files and gained ads, and either the handler ends with a retry set for  *)
(* what is missing, or what is missing is what it goes on to fetch.        *)
LEMMA DownloadAdsFacts ==
    ASSUME TypeOK, NEW m \in Known, Extends(mapAd, m), NEW tDownload \in TimerType,
           NEW nested \in BOOLEAN, downloadAds(m, tDownload, nested)
    PROVE  /\ mapAd' \in Known /\ Extends(mapAd, mapAd')
           /\ bufImages' \in Images /\ Dropped(bufImages, bufImages')
           /\ timerDownload' \in TimerType
           /\ \/ /\ Return(nested, timerPolicy)
                 /\ \/ isEndBusiness
                    \/ Missing(Needed(mapAd'), bufImages') = {}
                    \/ Alive(timerDownload')
              \/ /\ biz' \in BizType /\ biz'.at = "file" /\ biz'.nested = nested
                 /\ biz'.todo # {} /\ biz'.todo = Missing(Needed(mapAd'), bufImages')
                 /\ timerPolicy' = timerPolicy
  <1>1. bufImages \in Images /\ PolicyIds \subseteq Ids
    BY DEF TypeOK, Images, PolicyIds
  <1>2. CASE isEndBusiness /\ mapAd' = m /\ timerDownload' = tDownload
             /\ Return(nested, timerPolicy) /\ UNCHANGED bufImages
    BY <1>1, <1>2 DEF Dropped
  <1>3. CASE /\ mapAd' = LookedUp(m, PolicyIds)
             /\ bufImages' = Erased(bufImages, Needed(m))
             /\ LET todo == Missing(Needed(m), bufImages) IN
                \/ todo = {} /\ DownloadsEnd(Needed(m), bufImages, tDownload, nested)
                \/ /\ todo # {}
                   /\ biz' = [at |-> "file", nested |-> nested, todo |-> todo]
                   /\ timerDownload' = tDownload
                   /\ UNCHANGED timerPolicy
    <2> DEFINE todo == Missing(Needed(m), bufImages)
    <2>1. mapAd' \in Known /\ Extends(mapAd, mapAd') /\ Needed(mapAd') = Needed(m)
      BY <1>1, <1>3, LookedUpFacts, ExtendsTransitive
    <2>2. Needed(m) \in SUBSET Ids
      BY <1>1 DEF Needed
    <2>3. /\ bufImages' \in Images /\ Dropped(bufImages, bufImages')
          /\ Missing(Needed(mapAd'), bufImages') = todo
      BY <1>1, <1>3, <2>1, <2>2, ErasedFacts
    <2>4. CASE todo = {} /\ DownloadsEnd(Needed(m), bufImages, tDownload, nested)
      BY <2>1, <2>3, <2>4, DownloadsEndFacts
    <2>5. CASE /\ todo # {}
               /\ biz' = [at |-> "file", nested |-> nested, todo |-> todo]
               /\ timerDownload' = tDownload
               /\ UNCHANGED timerPolicy
      <3>1. todo \in SUBSET Ids
        BY <2>2 DEF Missing
      <3>2. biz' \in BizType
        BY <2>5, <3>1 DEF BizType
      <3> QED
        BY <2>1, <2>3, <2>5, <3>2
    <2> QED
      BY <1>3, <2>4, <2>5
  <1> QED
    BY <1>2, <1>3 DEF downloadAds

(* downloadAds goes on, or ends with a retry set for what is missing.      *)
LEMMA NextDownloadFacts ==
    ASSUME TypeOK, biz.at = "file", NEW id, NEW images, NextDownload(id, images)
    PROVE  /\ timerDownload' \in TimerType
           /\ \/ /\ Return(biz.nested, timerPolicy)
                 /\ Missing(Needed(mapAd), images) = {} \/ Alive(timerDownload')
              \/ /\ biz' \in BizType /\ biz'.at = "file" /\ biz'.nested = biz.nested
                 /\ biz'.todo # {} /\ biz'.todo = biz.todo \ {id}
                 /\ timerPolicy' = timerPolicy
  <1> DEFINE todo == biz.todo \ {id}
  <1>1. timerDownload \in TimerType /\ biz.nested \in BOOLEAN /\ biz \in BizType
    BY DEF TypeOK, BizType
  <1>2. CASE todo = {} /\ DownloadsEnd(Needed(mapAd), images, timerDownload, biz.nested)
    BY <1>1, <1>2, DownloadsEndFacts
  <1>3. CASE /\ todo # {} /\ biz' = [biz EXCEPT !.todo = todo]
             /\ UNCHANGED <<timerPolicy, timerDownload>>
    <2>1. todo \in SUBSET Ids
      BY <1>1 DEF BizType
    <2>2. biz' \in BizType
      BY <1>1, <1>3, <2>1 DEF BizType
    <2>3. biz'.at = "file" /\ biz'.nested = biz.nested /\ biz'.todo = todo
      BY <1>1, <1>3 DEF BizType
    <2> QED
      BY <1>1, <1>3, <2>2, <2>3
  <1> QED
    BY <1>2, <1>3 DEF NextDownload

-----------------------------------------------------------------------------
(* Types, the files in memory, and the FileCache they implement.           *)

(* What a step does to the two maps.                                       *)
CacheStep == \/ UNCHANGED <<mapAd, bufImages>>
             \/ Cache!Update
             \/ \E id \in Ids : Cache!Fetch(id)

(* Every type-correct step of the cache keeps the versions in agreement.   *)
LEMMA CacheStepMatches ==
    ASSUME TypeOK, CachedFileMatches, CacheStep
    PROVE  CachedFileMatches'
  <1> USE DEF CachedFileMatches
  <1>1. CASE UNCHANGED <<mapAd, bufImages>>
    BY <1>1
  <1>2. CASE Cache!Update
    BY <1>2 DEF Cache!Update
  <1>3. CASE \E id \in Ids : Cache!Fetch(id)
    <2>1. PICK id \in Ids : Cache!Fetch(id)
      BY <1>3
    <2>2. bufImages' = [bufImages EXCEPT ![id] = mapAd[id]] /\ mapAd' = mapAd
      BY <2>1 DEF Cache!Fetch
    <2>3. bufImages \in [Ids -> (1..MaxVer) \cup {None}]
      BY DEF TypeOK
    <2> QED
      BY <2>2, <2>3
  <1> QED
    BY <1>1, <1>2, <1>3 DEF CacheStep

(* A step that adds to _mapAd and drops from _bufImages is FileCache's     *)
(* Update.                                                                 *)
LEMMA UpdateStep ==
    ASSUME mapAd' \in Known, Extends(mapAd, mapAd'),
           bufImages' \in Images, Dropped(bufImages, bufImages')
    PROVE  CacheStep
  BY DEF CacheStep, Cache!Update, Known, Images, Extends, Dropped

(* The requests that go out first thing in a handler.                      *)
LEMMA PolicyRequested ==
    ASSUME TypeOK, NEW t \in TimerType, requestAdPlayPolicy(t)
    PROVE  /\ timerPolicy' \in TimerType /\ timerPolicy' = t
           /\ biz' \in BizType /\ biz'.at # "file" /\ runs' \in 0..MaxRuns
           /\ \/ isEndBusiness /\ biz' = Idle
              \/ ~isEndBusiness /\ biz'.at = "policy" /\ biz'.nested
  <1>1. Idle \in BizType /\ Idle.at = "idle"
    BY DEF Idle, BizType
  <1>2. MaxRuns \in Nat /\ runs \in 0..MaxRuns
    BY BusinessAssumption DEF TypeOK
  <1>3. CASE isEndBusiness /\ biz' = Idle /\ UNCHANGED runs
    BY <1>1, <1>2, <1>3 DEF requestAdPlayPolicy
  <1>4. CASE /\ ~isEndBusiness /\ runs < MaxRuns
             /\ biz' = [at |-> "policy", nested |-> TRUE, todo |-> {}]
             /\ runs' = runs + 1
    <2>1. runs' \in 0..MaxRuns
      BY <1>2, <1>4
    <2>2. biz' \in BizType
      BY <1>4 DEF BizType
    <2> QED
      BY <1>4, <2>1, <2>2 DEF requestAdPlayPolicy
  <1> QED
    BY <1>3, <1>4 DEF requestAdPlayPolicy

(* requestAdList either returns at once, after endBusiness, or waits for   *)
(* the list.                                                               *)
LEMMA ListRequested ==
    ASSUME NEW t \in TimerType, NEW nested \in BOOLEAN, requestAdList(t, nested)
    PROVE  /\ timerPolicy' \in TimerType /\ biz' \in BizType /\ biz'.at # "file"
           /\ \/ isEndBusiness /\ Return(nested, t)
              \/ /\ ~isEndBusiness /\ timerPolicy' = t
                 /\ biz'.at = "list" /\ biz'.nested = nested
  <1>1. CASE isEndBusiness /\ Return(nested, t)
    BY <1>1, ReturnFacts DEF Idle
  <1>2. CASE /\ ~isEndBusiness /\ timerPolicy' = t
             /\ biz' = [at |-> "list", nested |-> nested, todo |-> {}]
    BY <1>2 DEF BizType
  <1> QED
    BY <1>1, <1>2 DEF requestAdList

(* The types of what a step may change.                                    *)
LEMMA TypesOf ==
    ASSUME TypeOK
    PROVE  /\ mapAd \in Known /\ bufImages \in Images
           /\ timerPolicy \in TimerType /\ timerAdList \in TimerType
           /\ timerDownload \in TimerType
           /\ biz \in BizType /\ biz.nested \in BOOLEAN /\ PolicyIds \subseteq Ids
  BY DEF TypeOK, Known, Images, BizType, PolicyIds

(* Handlers that do not touch the maps and do not end in a download.       *)
LEMMA HandlerStep ==
    ASSUME CacheInv,
           \/ Connected \/ RunPolicy \/ PolicyOk \/ PolicyFailed \/ PolicyUnparsable
           \/ RunAdList \/ ListFailed
    PROVE  TypeOK' /\ TodoInv' /\ CacheStep
  <1> USE TypesOf DEF CacheInv
  <1>1. ASSUME biz'.at # "file", UNCHANGED <<mapAd, bufImages>>
        PROVE  TodoInv' /\ CacheStep
    BY <1>1 DEF TodoInv, CacheStep
  <1>2. CASE Connected
    <2>1. biz'.at # "file" /\ timerPolicy' \in TimerType /\ biz' \in BizType /\ runs' \in 0..MaxRuns
      BY <1>2, PolicyRequested DEF Connected
    <2>2. UNCHANGED <<data, timerAdList, timerDownload, retrySoon, isEndBusiness, peer, changes>>
      BY <1>2 DEF Connected
    <2> QED
      BY <1>1, <2>1, <2>2 DEF TypeOK, data
  <1>3. CASE RunPolicy
    <2>1. PICK t \in HandlerTaken(timerPolicy) : requestAdPlayPolicy(t)
      BY <1>3 DEF RunPolicy
    <2>2. biz'.at # "file" /\ timerPolicy' \in TimerType /\ biz' \in BizType /\ runs' \in 0..MaxRuns
      BY <2>1, PolicyRequested, HandlerTakenFacts
    <2> QED
      BY <1>1, <1>3, <2>2 DEF RunPolicy, TypeOK, data
  <1>4. CASE PolicyOk
    <2>1. biz'.at # "file" /\ timerPolicy' \in TimerType /\ biz' \in BizType
      BY <1>4, ListRequested, ExpiresFromNowFacts DEF PolicyOk
    <2>2. peer.policy \in Policies /\ peer.policy \in [lock : SUBSET Ids, other : SUBSET Ids]
      BY BusinessAssumption DEF TypeOK
    <2> QED
      BY <1>1, <1>4, <2>1, <2>2 DEF PolicyOk, TypeOK
  <1>5. CASE PolicyFailed
    <2>1. biz' = Idle /\ timerPolicy' \in TimerType /\ biz' \in BizType
      BY <1>5, ReturnFacts, ExpiresFromNowFacts DEF PolicyFailed
    <2> QED
      BY <1>1, <1>5, <2>1 DEF PolicyFailed, TypeOK, data, Idle
  <1>6. CASE PolicyUnparsable
    <2>1. biz' = Idle /\ timerPolicy' \in TimerType /\ biz' \in BizType
      BY <1>6, ReturnFacts, ExpiresFromNowFacts DEF PolicyUnparsable
    <2>2. peer.policy \in [lock : SUBSET Ids, other : SUBSET Ids]
      BY BusinessAssumption DEF TypeOK
    <2>3. policy' \in [lock : SUBSET Ids, other : SUBSET Ids]
      BY <1>6, <2>2 DEF PolicyUnparsable
    <2> QED
      BY <1>1, <1>6, <2>1, <2>3 DEF PolicyUnparsable, TypeOK, Idle
  <1>7. CASE RunAdList
    <2>1. biz'.at # "file" /\ timerPolicy' \in TimerType /\ biz' \in BizType
      BY <1>7, ListRequested DEF RunAdList
    <2>2. timerAdList' \in TimerType
      BY <1>7, HandlerTakenFacts DEF RunAdList
    <2> QED
      BY <1>1, <1>7, <2>1, <2>2 DEF RunAdList, TypeOK, data
  <1>8. CASE ListFailed
    <2>1. biz' = Idle /\ timerPolicy' \in TimerType /\ biz' \in BizType
      BY <1>8, ReturnFacts DEF ListFailed
    <2>2. timerAdList' \in TimerType
      BY <1>8, TimerWaits DEF ListFailed
    <2> QED
      BY <1>1, <1>8, <2>1, <2>2 DEF ListFailed, TypeOK, data, Idle
  <1> QED
    BY <1>2, <1>3, <1>4, <1>5, <1>6, <1>7, <1>8

(* The handlers that publish a list and drop files.                        *)
LEMMA DownloadStep ==
    ASSUME CacheInv, ListOk \/ RunDownload
    PROVE  TypeOK' /\ TodoInv' /\ CacheStep
  <1> USE TypesOf DEF CacheInv
  <1> DEFINE Outcome(nested) ==
          /\ mapAd' \in Known /\ Extends(mapAd, mapAd')
          /\ bufImages' \in Images /\ Dropped(bufImages, bufImages')
          /\ timerDownload' \in TimerType
          /\ \/ Return(nested, timerPolicy)
             \/ /\ biz' \in BizType /\ biz'.at = "file"
                /\ biz'.todo # {} /\ biz'.todo = Missing(Needed(mapAd'), bufImages')
                /\ timerPolicy' = timerPolicy
  <1>1. ASSUME NEW nested \in BOOLEAN, Outcome(nested), policy' = policy
        PROVE  /\ CacheStep /\ TodoInv'
               /\ biz' \in BizType /\ timerPolicy' \in TimerType
    <2>1. CacheStep
      BY <1>1, UpdateStep
    <2>2. CASE Return(nested, timerPolicy)
      <3>1. biz' = Idle /\ biz' \in BizType /\ timerPolicy' \in TimerType
        BY <1>1, <2>2, ReturnFacts
      <3>2. TodoInv'
        BY <3>1 DEF TodoInv, Idle
      <3> QED
        BY <2>1, <3>1, <3>2
    <2>3. CASE /\ biz' \in BizType /\ biz'.at = "file"
               /\ biz'.todo # {} /\ biz'.todo = Missing(Needed(mapAd'), bufImages')
               /\ timerPolicy' = timerPolicy
      <3>1. Missing(Needed(mapAd), bufImages)' = Missing(Needed(mapAd'), bufImages')
        BY <1>1 DEF Missing, Needed, PolicyIds
      <3>2. TodoInv'
        BY <2>3, <3>1 DEF TodoInv
      <3> QED
        BY <2>1, <2>3, <3>2
    <2> QED
      BY <1>1, <2>2, <2>3
  <1>2. CASE ListOk
    <2> DEFINE lock == IF isBarServer THEN {} ELSE policy.lock
               m    == LookedUp(Inserted(mapAd, peer.ads), lock)
    <2>1. peer.ads \in Lists /\ lock \in SUBSET Ids
      BY DEF TypeOK
    <2>2. m \in Known /\ Extends(mapAd, m)
      BY <2>1, InsertedFacts, LookedUpFacts, ExtendsTransitive
    <2>3. Outcome(biz.nested)
      BY <1>2, <2>2, DownloadAdsFacts DEF ListOk
    <2>4. UNCHANGED <<isBarServer, policy, bufPolicy, timerAdList, retrySoon,
                      isEndBusiness, peer, changes, runs>>
      BY <1>2 DEF ListOk
    <2>5. /\ bufAdList' = peer.ads /\ lockAds' = lockAds \cup lock
          /\ playList' = playList \cup (lock \X {FALSE})
      BY <1>2 DEF ListOk
    <2>6. CacheStep /\ TodoInv' /\ biz' \in BizType /\ timerPolicy' \in TimerType
      BY <1>1, <2>3, <2>4
    <2>7. lockAds' \subseteq Ids /\ playList' \subseteq Ids \X BOOLEAN
      BY <2>1, <2>5 DEF TypeOK
    <2> HIDE DEF lock, m
    <2> QED
      BY <2>1, <2>3, <2>4, <2>5, <2>6, <2>7 DEF TypeOK, Known, Images
  <1>3. CASE RunDownload
    <2>1. PICK t \in HandlerTaken(timerDownload) : downloadAds(mapAd, t, FALSE)
      BY <1>3 DEF RunDownload
    <2>2. Extends(mapAd, mapAd)
      BY DEF Extends
    <2>3. t \in TimerType
      BY HandlerTakenFacts
    <2>4. Outcome(FALSE)
      BY <2>1, <2>2, <2>3, DownloadAdsFacts
    <2>5. UNCHANGED <<isBarServer, policy, bufPolicy, bufAdList, lockAds, playList,
                      timerAdList, retrySoon, isEndBusiness, peer, changes, runs>>
      BY <1>3 DEF RunDownload
    <2>6. CacheStep /\ TodoInv' /\ biz' \in BizType /\ timerPolicy' \in TimerType
      BY <1>1, <2>4, <2>5
    <2> QED
      BY <2>4, <2>5, <2>6 DEF TypeOK, Known, Images
  <1> QED
    BY <1>2, <1>3

(* A file arrives, or does not: downloadAds goes on.                       *)
LEMMA FileStep ==
    ASSUME CacheInv, (\E v \in 1..MaxVer : FileArrives(v)) \/ FileFailed
    PROVE  TypeOK' /\ TodoInv' /\ CacheStep
  <1> USE TypesOf DEF CacheInv
  <1> DEFINE id == Min(biz.todo)
  <1>1. biz.at = "file"
    BY DEF FileArrives, FileFailed
  <1>2. /\ biz.todo \in SUBSET Ids /\ biz.todo # {}
        /\ biz.todo \subseteq Missing(Needed(mapAd), bufImages)
    BY <1>1 DEF TodoInv, BizType
  <1>3. id \in biz.todo
    BY <1>2, MinOfNaturals, BusinessAssumption
  <1>4. id \in Ids /\ bufImages[id] = None /\ mapAd[id] \in 1..MaxVer
    BY <1>2, <1>3 DEF Missing, Needed
  <1> HIDE DEF id
  <1>5. ASSUME NextDownload(id, bufImages'), UNCHANGED <<policy, mapAd>>,
               bufImages' = bufImages \/ bufImages' = [bufImages EXCEPT ![id] = mapAd[id]]
        PROVE  /\ TodoInv' /\ biz' \in BizType
               /\ timerPolicy' \in TimerType /\ timerDownload' \in TimerType
    <2>1. CASE Return(biz.nested, timerPolicy)
      <3>1. biz' = Idle /\ biz' \in BizType /\ timerPolicy' \in TimerType
        BY <2>1, ReturnFacts
      <3>2. TodoInv'
        BY <3>1 DEF TodoInv, Idle
      <3> QED
        BY <1>1, <1>5, <3>1, <3>2, NextDownloadFacts
    <2>2. CASE /\ biz' \in BizType /\ biz'.at = "file" /\ biz'.nested = biz.nested
               /\ biz'.todo # {} /\ biz'.todo = biz.todo \ {id}
               /\ timerPolicy' = timerPolicy
      <3>1. Needed(mapAd)' = Needed(mapAd)
        BY <1>5 DEF Needed, PolicyIds
      <3>2. \A i \in Ids \ {id} : bufImages'[i] = bufImages[i]
        BY <1>5 DEF Images
      <3>3. biz'.todo \subseteq Missing(Needed(mapAd), bufImages)'
        BY <1>2, <2>2, <3>1, <3>2 DEF Missing
      <3>4. TodoInv'
        BY <2>2, <3>3 DEF TodoInv
      <3> QED
        BY <1>1, <1>5, <2>2, <3>4, NextDownloadFacts
    <2> QED
      BY <1>1, <1>5, <2>1, <2>2, NextDownloadFacts
  <1>6. CASE \E v \in 1..MaxVer : FileArrives(v)
    <2>1. PICK v \in 1..MaxVer : FileArrives(v)
      BY <1>6
    <2>2. /\ NextDownload(id, bufImages')
          /\ UNCHANGED <<isBarServer, policy, mapAd, bufPolicy, bufAdList, lockAds,
                         timerAdList, retrySoon, isEndBusiness, peer, changes, runs>>
      BY <2>1 DEF FileArrives, id
    <2>3. \/ /\ mapAd[id] = v /\ bufImages' = [bufImages EXCEPT ![id] = mapAd[id]]
             /\ playList' = IF id \in lockAds THEN UpdatePlayList(id) ELSE playList
          \/ UNCHANGED <<bufImages, playList>>
      BY <2>1 DEF FileArrives, Kept, id
    <2>4. playList' \subseteq Ids \X BOOLEAN
      <3>1. playList \subseteq Ids \X BOOLEAN /\ <<id, TRUE>> \in Ids \X BOOLEAN
        BY <1>4 DEF TypeOK
      <3>2. UpdatePlayList(id) \subseteq playList \cup {<<id, TRUE>>}
        BY DEF UpdatePlayList
      <3>3. playList' = UpdatePlayList(id) \/ playList' = playList
        BY <2>3
      <3> QED
        BY <3>1, <3>2, <3>3
    <2>5. TodoInv' /\ biz' \in BizType /\ timerPolicy' \in TimerType /\ timerDownload' \in TimerType
      BY <1>5, <2>2, <2>3
    <2>6. bufImages' \in Images
      BY <1>4, <2>3 DEF Images
    <2>7. CacheStep
      BY <1>4, <2>2, <2>3 DEF CacheStep, Cache!Fetch
    <2> QED
      BY <2>2, <2>4, <2>5, <2>6, <2>7 DEF TypeOK, Images
  <1>7. CASE FileFailed
    <2>1. /\ NextDownload(id, bufImages')
          /\ UNCHANGED <<data, timerAdList, retrySoon, isEndBusiness, peer, changes, runs>>
      BY <1>7 DEF FileFailed, id, data
    <2>2. TodoInv' /\ biz' \in BizType /\ timerPolicy' \in TimerType /\ timerDownload' \in TimerType
      BY <1>5, <2>1 DEF data
    <2> QED
      BY <2>1, <2>2 DEF TypeOK, data, CacheStep
  <1> QED
    BY <1>6, <1>7

(* The application, the clock and the peer.                                *)
LEMMA OtherStep ==
    ASSUME CacheInv,
           \/ PolicyTimerExpires \/ AdListTimerExpires \/ DownloadTimerExpires
           \/ (\E id \in Ids : GetAd(id)) \/ EndBusiness \/ PeerChanges
    PROVE  TypeOK' /\ TodoInv' /\ CacheStep
  <1> USE TypesOf DEF CacheInv
  <1>1. ASSUME UNCHANGED <<policy, mapAd, bufImages, biz>>
        PROVE  TodoInv' /\ CacheStep
    BY <1>1 DEF TodoInv, CacheStep, Missing, Needed, PolicyIds
  <1>2. CASE PolicyTimerExpires
    BY <1>1, <1>2, ExpireFacts DEF PolicyTimerExpires, TypeOK, data
  <1>3. CASE AdListTimerExpires
    BY <1>1, <1>3, ExpireFacts DEF AdListTimerExpires, TypeOK, data
  <1>4. CASE DownloadTimerExpires
    BY <1>1, <1>4, ExpireFacts DEF DownloadTimerExpires, TypeOK, data
  <1>5. CASE \E id \in Ids : GetAd(id)
    <2>1. PICK id \in Ids : GetAd(id)
      BY <1>5
    <2>2. /\ mapAd' = LookedUp(mapAd, {id})
          /\ UNCHANGED <<isBarServer, policy, bufPolicy, bufAdList, bufImages, lockAds, playList,
                         timers, biz, isEndBusiness, peer, changes, runs>>
      BY <2>1 DEF GetAd
    <2>3. mapAd' \in Known /\ Extends(mapAd, mapAd') /\ Needed(mapAd') = Needed(mapAd)
      BY <2>2, LookedUpFacts
    <2>4. CacheStep
      BY <2>2, <2>3, UpdateStep DEF Dropped
    <2>5. Missing(Needed(mapAd), bufImages)' = Missing(Needed(mapAd), bufImages)
      BY <2>2, <2>3 DEF Missing, Needed, PolicyIds
    <2>6. TodoInv'
      BY <2>2, <2>5 DEF TodoInv
    <2> QED
      BY <2>2, <2>3, <2>4, <2>6 DEF TypeOK, Known, timers
  <1>6. CASE EndBusiness
    BY <1>1, <1>6 DEF EndBusiness, TypeOK, data, timers
  <1>7. CASE PeerChanges
    <2>1. peer' \in [policy : Policies, ads : Lists]
      BY <1>7 DEF PeerChanges, TypeOK
    <2>2. changes' \in 0..MaxChanges
      BY <1>7, BusinessAssumption DEF PeerChanges, TypeOK
    <2> QED
      BY <1>1, <1>7, <2>1, <2>2 DEF PeerChanges, TypeOK, data, timers
  <1> QED
    BY <1>2, <1>3, <1>4, <1>5, <1>6, <1>7

(* No step disturbs CacheInv, and each is a step of the cache.             *)
LEMMA CacheInvStep ==
    ASSUME CacheInv, [Next]_vars
    PROVE  CacheInv' /\ CacheStep
  <1>1. CASE Next
    <2>1. TypeOK' /\ TodoInv' /\ CacheStep
      BY <1>1, HandlerStep, DownloadStep, FileStep, OtherStep DEF Next
    <2> QED
      BY <2>1, CacheStepMatches DEF CacheInv
  <1>2. CASE UNCHANGED vars
    BY <1>2 DEF CacheInv, TypeOK, TodoInv, CachedFileMatches, CacheStep, vars, data, timers,
               Missing, Needed, PolicyIds
  <1> QED
    BY <1>1, <1>2

(* The empty maps match, and nothing is to be fetched yet.                 *)
LEMMA CacheInvInit == Init => CacheInv
  <1> SUFFICES ASSUME Init PROVE CacheInv
    OBVIOUS
  <1>1. NewTimer \in TimerType
    BY DEF NewTimer, TimerType
  <1>2. biz \in BizType /\ biz.at = "connect"
    BY DEF Init, Idle, BizType
  <1>3. policy \in [lock : SUBSET Ids, other : SUBSET Ids]
    BY DEF Init, EmptyPolicy
  <1>4. 0 \in 0..MaxChanges /\ 0 \in 0..MaxRuns
    BY BusinessAssumption
  <1> QED
    BY <1>1, <1>2, <1>3, <1>4 DEF CacheInv, TypeOK, TodoInv, CachedFileMatches, Init

(* Every variable keeps its type: in particular no answer that does not    *)
(* parse is ever published, and the play list holds known ids only.        *)
THEOREM BusinessTypes == Spec => []TypeOK
  <1>1. CacheInv => TypeOK
    BY DEF CacheInv
  <1> QED
    BY CacheInvInit, CacheInvStep, <1>1, PTL DEF Spec

(* CachedFileMatches: a file in memory is the version that _mapAd asks     *)
(* for, for any lists, any number of changes and any bound on refreshes.   *)
THEOREM FilesMatch == Spec => []CachedFileMatches
  <1>1. CacheInv => CachedFileMatches
    BY DEF CacheInv
  <1> QED
    BY CacheInvInit, CacheInvStep, <1>1, PTL DEF Spec

(* The business thread, whatever it is told, implements FileCache: what is *)
(* known of an ad never changes, and its file comes in that version only.  *)
THEOREM BusinessIsACache == Spec => ImplementsFileCache
  <1>1. Init => Cache!Init
    BY DEF Init, Cache!Init
  <1>2. CacheInv /\ [Next]_vars => [Cache!Next]_(Cache!vars)
    BY CacheInvStep DEF CacheStep, Cache!Next, Cache!vars
  <1> QED
    BY CacheInvInit, CacheInvStep, <1>1, <1>2, PTL DEF Spec, ImplementsFileCache, Cache!Spec

-----------------------------------------------------------------------------
(* The refresh of the policy.                                              *)

Chained == Count(timerPolicy)

(* A refresh that is going on has taken the only handler of timerPolicy    *)
(* with it, and starts the only wait when it ends.                         *)
RefreshInv ==
    /\ biz.at = "connect" => ~biz.nested /\ Chained = 0
    /\ biz.at = "idle" => ~biz.nested
    /\ biz.at = "policy" => biz.nested
    /\ biz.nested => Chained = 0
    /\ Chained <= 1
    /\ (~biz.nested /\ biz.at # "connect" /\ ~isEndBusiness) => Chained = 1

(* The end of a handler keeps the chain.                                   *)
LEMMA ReturnChains ==
    ASSUME NEW nested \in BOOLEAN, NEW t \in TimerType, Return(nested, t),
           nested => Count(t) = 0, Count(t) <= 1,
           (~nested /\ ~isEndBusiness) => Count(t) = 1, isEndBusiness' = isEndBusiness
    PROVE  RefreshInv'
  <1>1. biz' = Idle /\ timerPolicy' = IF nested THEN AsyncWait(t) ELSE t
    BY ReturnFacts
  <1>2. biz'.at = "idle" /\ biz'.nested = FALSE
    BY <1>1 DEF Idle
  <1>3. nested => Count(AsyncWait(t)) = 1
    BY AsyncWaitFacts, CountFacts
  <1>4. Count(timerPolicy') <= 1 /\ (~isEndBusiness => Count(timerPolicy') = 1)
    BY <1>1, <1>3
  <1> QED
    BY <1>2, <1>4 DEF RefreshInv, Chained

(* The end of a refresh starts the wait for the next one.                  *)
LEMMA RefreshChains ==
    ASSUME NEW t \in TimerType, Count(t) = 0, Return(TRUE, t)
    PROVE  RefreshInv'
  <1>1. biz' = Idle /\ timerPolicy' = AsyncWait(t)
    BY DEF Return
  <1>2. biz'.at = "idle" /\ biz'.nested = FALSE
    BY <1>1 DEF Idle
  <1>3. Count(timerPolicy') = 1
    BY <1>1, AsyncWaitFacts, CountFacts
  <1> QED
    BY <1>2, <1>3 DEF RefreshInv, Chained

(* A request that is waited for keeps the chain, when it is made with the  *)
(* timer as it was.                                                        *)
LEMMA WaitingChains ==
    ASSUME RefreshInv, biz.at # "connect", biz'.at \in {"list", "file"},
           biz'.nested = biz.nested, Count(timerPolicy') = Count(timerPolicy),
           isEndBusiness' = isEndBusiness
    PROVE  RefreshInv'
  BY DEF RefreshInv, Chained

(* The handlers that begin or go on with a refresh.                        *)
LEMMA RefreshHandlerStep ==
    ASSUME CacheInv, RefreshInv,
           \/ Connected \/ RunPolicy \/ PolicyOk \/ PolicyFailed \/ PolicyUnparsable
           \/ RunAdList \/ ListFailed
    PROVE  RefreshInv'
  <1> USE TypesOf DEF CacheInv
  <1>1. isEndBusiness' = isEndBusiness
    BY DEF Connected, RunPolicy, PolicyOk, PolicyFailed, PolicyUnparsable, RunAdList, ListFailed
  <1>2. ASSUME NEW t \in TimerType, Count(t) = 0, requestAdPlayPolicy(t) PROVE RefreshInv'
    BY <1>1, <1>2, PolicyRequested DEF RefreshInv, Chained, Idle
  <1>3. CASE Connected
    BY <1>2, <1>3 DEF Connected, RefreshInv, Chained
  <1>4. CASE RunPolicy
    <2>1. PICK t \in HandlerTaken(timerPolicy) : requestAdPlayPolicy(t)
      BY <1>4 DEF RunPolicy
    <2>2. t \in TimerType /\ Count(t) = Count(timerPolicy) - 1
      BY HandlerTakenFacts
    <2>3. Count(t) = 0
      BY <2>2, CountFacts DEF RefreshInv, Chained
    <2> QED
      BY <1>2, <2>1, <2>2, <2>3
  <1>5. ASSUME biz.at = "policy", Return(TRUE, ExpiresFromNow(timerPolicy)) PROVE RefreshInv'
    <2>1. ExpiresFromNow(timerPolicy) \in TimerType /\ Count(ExpiresFromNow(timerPolicy)) = 0
      BY <1>5, ExpiresFromNowFacts DEF RefreshInv, Chained
    <2> QED
      BY <1>5, <2>1, RefreshChains
  <1>6. CASE PolicyFailed \/ PolicyUnparsable
    BY <1>5, <1>6 DEF PolicyFailed, PolicyUnparsable
  <1>7. CASE PolicyOk
    <2> DEFINE t == ExpiresFromNow(timerPolicy)
    <2>1. t \in TimerType /\ Count(t) = 0 /\ Count(timerPolicy) = 0 /\ biz.nested
      BY <1>7, ExpiresFromNowFacts DEF PolicyOk, RefreshInv, Chained
    <2>2. requestAdList(t, TRUE)
      BY <1>7 DEF PolicyOk
    <2> HIDE DEF t
    <2>3. CASE Return(TRUE, t)
      BY <2>1, <2>3, RefreshChains
    <2>4. CASE timerPolicy' = t /\ biz'.at = "list" /\ biz'.nested = TRUE
      BY <1>7, <2>1, <2>4 DEF RefreshInv, Chained
    <2> QED
      BY <2>1, <2>2, <2>3, <2>4, ListRequested
  <1>8. CASE RunAdList
    <2>1. requestAdList(timerPolicy, FALSE) /\ biz.at = "idle" /\ ~biz.nested
      BY <1>8 DEF RunAdList, RefreshInv
    <2>2. CASE Return(FALSE, timerPolicy)
      BY <1>1, <2>1, <2>2, ReturnChains DEF RefreshInv, Chained
    <2>3. CASE timerPolicy' = timerPolicy /\ biz'.at = "list" /\ biz'.nested = FALSE
      BY <1>1, <2>1, <2>3, WaitingChains
    <2> QED
      BY <2>1, <2>2, <2>3, ListRequested
  <1>9. CASE ListFailed
    BY <1>1, <1>9, ReturnChains DEF ListFailed, RefreshInv, Chained
  <1> QED
    BY <1>3, <1>4, <1>6, <1>7, <1>8, <1>9

(* Downloads are made within the refresh or on a timer of their own.       *)
LEMMA RefreshDownloadStep ==
    ASSUME CacheInv, RefreshInv,
           ListOk \/ RunDownload \/ (\E v \in 1..MaxVer : FileArrives(v)) \/ FileFailed
    PROVE  RefreshInv'
  <1> USE TypesOf DEF CacheInv
  <1>1. isEndBusiness' = isEndBusiness
    BY DEF ListOk, RunDownload, FileArrives, FileFailed
  <1>2. ASSUME biz.at # "connect", NEW nested \in BOOLEAN, nested = biz.nested,
               \/ Return(nested, timerPolicy)
               \/ biz'.at = "file" /\ biz'.nested = nested /\ timerPolicy' = timerPolicy
        PROVE  RefreshInv'
    <2>1. CASE Return(nested, timerPolicy)
      BY <1>1, <1>2, <2>1, ReturnChains DEF RefreshInv, Chained
    <2>2. CASE biz'.at = "file" /\ biz'.nested = nested /\ timerPolicy' = timerPolicy
      BY <1>1, <1>2, <2>2, WaitingChains
    <2> QED
      BY <1>2, <2>1, <2>2
  <1>3. CASE ListOk
    <2> DEFINE lock == IF isBarServer THEN {} ELSE policy.lock
               m    == LookedUp(Inserted(mapAd, peer.ads), lock)
    <2>1. peer.ads \in Lists
      BY DEF TypeOK
    <2>2. m \in Known /\ Extends(mapAd, m)
      BY <2>1, InsertedFacts, LookedUpFacts, ExtendsTransitive
    <2>3. downloadAds(m, timerDownload, biz.nested) /\ biz.at = "list"
      BY <1>3 DEF ListOk
    <2> HIDE DEF m
    <2> QED
      BY <1>2, <2>2, <2>3, DownloadAdsFacts
  <1>4. CASE RunDownload
    <2>1. PICK t \in HandlerTaken(timerDownload) : downloadAds(mapAd, t, FALSE)
      BY <1>4 DEF RunDownload
    <2>2. Extends(mapAd, mapAd) /\ t \in TimerType
      BY HandlerTakenFacts DEF Extends
    <2>3. biz.at = "idle" /\ biz.nested = FALSE
      BY <1>4 DEF RunDownload, RefreshInv
    <2> QED
      BY <1>2, <2>1, <2>2, <2>3, DownloadAdsFacts
  <1>5. CASE (\E v \in 1..MaxVer : FileArrives(v)) \/ FileFailed
    <2>1. biz.at = "file" /\ NextDownload(Min(biz.todo), bufImages')
      BY <1>5 DEF FileArrives, FileFailed, data
    <2> QED
      BY <1>2, <2>1, NextDownloadFacts
  <1> QED
    BY <1>3, <1>4, <1>5

(* No step disturbs the chain.                                             *)
LEMMA RefreshStep ==
    ASSUME CacheInv, RefreshInv, [Next]_vars
    PROVE  RefreshInv'
  <1> USE TypesOf DEF CacheInv
  <1>1. ASSUME UNCHANGED <<timerPolicy, biz>>, isEndBusiness => isEndBusiness' PROVE RefreshInv'
    BY <1>1 DEF RefreshInv, Chained
  <1>2. CASE PolicyTimerExpires
    <2>1. timerPolicy' = Expire(timerPolicy) /\ timerPolicy.waiting
      BY <1>2 DEF PolicyTimerExpires
    <2>2. UNCHANGED <<biz, isEndBusiness>>
      BY <1>2 DEF PolicyTimerExpires
    <2>3. Chained' = Chained
      BY <2>1, ExpireFacts DEF Chained
    <2> QED
      BY <2>2, <2>3 DEF RefreshInv
  <1>3. CASE \/ AdListTimerExpires \/ DownloadTimerExpires \/ (\E id \in Ids : GetAd(id))
             \/ EndBusiness \/ PeerChanges \/ UNCHANGED vars
    <2>1. CASE EndBusiness
      BY <1>1, <2>1 DEF EndBusiness, timers
    <2>2. CASE \E id \in Ids : GetAd(id)
      BY <1>1, <2>2 DEF GetAd, timers
    <2>3. CASE AdListTimerExpires \/ DownloadTimerExpires
      BY <1>1, <2>3 DEF AdListTimerExpires, DownloadTimerExpires
    <2>4. CASE PeerChanges \/ UNCHANGED vars
      BY <1>1, <2>4 DEF PeerChanges, vars, timers
    <2> QED
      BY <1>3, <2>1, <2>2, <2>3, <2>4
  <1> QED
    BY <1>2, <1>3, RefreshHandlerStep, RefreshDownloadStep DEF Next

(* OnePolicyChain: the refresh of the policy never dies out and is never   *)
(* doubled, whatever is answered and however the timers interleave.        *)
THEOREM RefreshGoesOn == Spec => []OnePolicyChain
  <1>1. Init => RefreshInv
    BY DEF Init, RefreshInv, Chained, Count, NewTimer, Idle
  <1>2. CacheInv /\ RefreshInv => OnePolicyChain
    BY DEF RefreshInv, Chained, Count, OnePolicyChain
  <1> QED
    BY CacheInvInit, CacheInvStep, RefreshStep, <1>1, <1>2, PTL DEF Spec

-----------------------------------------------------------------------------
(* The files that are missing.                                             *)

Lacking == Missing(Needed(mapAd), bufImages)

(* Nothing is claimed of a step that leads into a request or into the end. *)
LEMMA BusyRetries ==
    ASSUME biz'.at # "idle" \/ isEndBusiness' PROVE NoForgottenDownload'
  BY DEF NoForgottenDownload

(* The handlers that make a request first, or fail to get an answer.       *)
LEMMA RetryHandlerStep ==
    ASSUME CacheInv,
           \/ Connected \/ RunPolicy \/ PolicyOk \/ PolicyFailed \/ PolicyUnparsable
           \/ RunAdList \/ ListFailed
    PROVE  NoForgottenDownload'
  <1> USE TypesOf DEF CacheInv
  <1>1. isEndBusiness' = isEndBusiness
    BY DEF Connected, RunPolicy, PolicyOk, PolicyFailed, PolicyUnparsable, RunAdList, ListFailed
  <1>2. CASE Connected \/ RunPolicy
    <2>1. PICK t \in TimerType : requestAdPlayPolicy(t)
      BY <1>2, HandlerTakenFacts DEF Connected, RunPolicy
    <2>2. isEndBusiness \/ biz'.at = "policy"
      BY <2>1, PolicyRequested
    <2> QED
      BY <1>1, <2>2, BusyRetries
  <1>3. CASE PolicyOk
    <2>1. requestAdList(ExpiresFromNow(timerPolicy), TRUE)
      BY <1>3 DEF PolicyOk
    <2>2. isEndBusiness \/ biz'.at = "list"
      BY <2>1, ExpiresFromNowFacts, ListRequested
    <2> QED
      BY <1>1, <2>2, BusyRetries
  <1>4. CASE RunAdList
    <2>1. isEndBusiness \/ biz'.at = "list"
      BY <1>4, ListRequested DEF RunAdList
    <2> QED
      BY <1>1, <2>1, BusyRetries
  <1>5. CASE PolicyFailed \/ PolicyUnparsable
    <2>1. retrySoon' = TRUE /\ Return(TRUE, ExpiresFromNow(timerPolicy))
      BY <1>5 DEF PolicyFailed, PolicyUnparsable
    <2>2. timerPolicy' = AsyncWait(ExpiresFromNow(timerPolicy))
      BY <2>1 DEF Return
    <2>3. Alive(timerPolicy')
      BY <2>2, TimerWaits
    <2> QED
      BY <2>1, <2>3 DEF NoForgottenDownload
  <1>6. CASE ListFailed
    <2>1. Alive(timerAdList')
      BY <1>6, TimerWaits DEF ListFailed
    <2> QED
      BY <2>1 DEF NoForgottenDownload
  <1> QED
    BY <1>2, <1>3, <1>4, <1>5, <1>6

(* The handlers that download.                                             *)
LEMMA RetryDownloadStep ==
    ASSUME CacheInv,
           ListOk \/ RunDownload \/ (\E v \in 1..MaxVer : FileArrives(v)) \/ FileFailed
    PROVE  NoForgottenDownload'
  <1> USE TypesOf DEF CacheInv
  <1>1. isEndBusiness' = isEndBusiness /\ policy' = policy
    BY DEF ListOk, RunDownload, FileArrives, FileFailed, data
  <1>2. Lacking' = Missing(Needed(mapAd'), bufImages')
    BY <1>1 DEF Lacking, Missing, Needed, PolicyIds
  <1>3. ASSUME \/ isEndBusiness \/ biz'.at = "file" \/ Alive(timerDownload')
               \/ Missing(Needed(mapAd'), bufImages') = {}
        PROVE  NoForgottenDownload'
    BY <1>1, <1>2, <1>3 DEF NoForgottenDownload, Lacking
  <1>4. CASE ListOk
    <2> DEFINE lock == IF isBarServer THEN {} ELSE policy.lock
               m    == LookedUp(Inserted(mapAd, peer.ads), lock)
    <2>1. peer.ads \in Lists
      BY DEF TypeOK
    <2>2. m \in Known /\ Extends(mapAd, m)
      BY <2>1, InsertedFacts, LookedUpFacts, ExtendsTransitive
    <2>3. downloadAds(m, timerDownload, biz.nested)
      BY <1>4 DEF ListOk
    <2> HIDE DEF m
    <2> QED
      BY <1>3, <2>2, <2>3, DownloadAdsFacts
  <1>5. CASE RunDownload
    <2>1. PICK t \in HandlerTaken(timerDownload) : downloadAds(mapAd, t, FALSE)
      BY <1>5 DEF RunDownload
    <2>2. Extends(mapAd, mapAd) /\ t \in TimerType
      BY HandlerTakenFacts DEF Extends
    <2> QED
      BY <1>3, <2>1, <2>2, DownloadAdsFacts
  <1>6. CASE (\E v \in 1..MaxVer : FileArrives(v)) \/ FileFailed
    <2>1. biz.at = "file" /\ NextDownload(Min(biz.todo), bufImages') /\ mapAd' = mapAd
      BY <1>6 DEF FileArrives, FileFailed, data
    <2> QED
      BY <1>3, <2>1, NextDownloadFacts
  <1> QED
    BY <1>4, <1>5, <1>6

(* The application, the clock and the peer forget nothing.                 *)
LEMMA RetryOtherStep ==
    ASSUME CacheInv, NoForgottenDownload,
           \/ PolicyTimerExpires \/ AdListTimerExpires \/ DownloadTimerExpires
           \/ (\E id \in Ids : GetAd(id)) \/ EndBusiness \/ PeerChanges \/ UNCHANGED vars
    PROVE  NoForgottenDownload'
  <1> USE TypesOf DEF CacheInv
  <1>1. ASSUME biz' = biz, Lacking' = Lacking, isEndBusiness' = isEndBusiness,
               Alive(timerDownload) => Alive(timerDownload'),
               Alive(timerAdList) => Alive(timerAdList'),
               Alive(timerPolicy) => Alive(timerPolicy'), retrySoon' = retrySoon
        PROVE  NoForgottenDownload'
    BY <1>1 DEF NoForgottenDownload, Lacking
  <1>2. CASE PolicyTimerExpires \/ AdListTimerExpires \/ DownloadTimerExpires
    <2>1. UNCHANGED <<data, biz, isEndBusiness, retrySoon>>
      BY <1>2 DEF PolicyTimerExpires, AdListTimerExpires, DownloadTimerExpires
    <2>2. Lacking' = Lacking
      BY <2>1 DEF Lacking, Missing, Needed, PolicyIds, data
    <2>3. CASE PolicyTimerExpires
      BY <1>1, <2>1, <2>2, <2>3, ExpireFacts DEF PolicyTimerExpires
    <2>4. CASE AdListTimerExpires
      BY <1>1, <2>1, <2>2, <2>4, ExpireFacts DEF AdListTimerExpires
    <2>5. CASE DownloadTimerExpires
      BY <1>1, <2>1, <2>2, <2>5, ExpireFacts DEF DownloadTimerExpires
    <2> QED
      BY <1>2, <2>3, <2>4, <2>5
  <1>3. CASE \E id \in Ids : GetAd(id)
    <2>1. PICK id \in Ids : GetAd(id)
      BY <1>3
    <2>2. Needed(LookedUp(mapAd, {id})) = Needed(mapAd)
      BY LookedUpFacts
    <2>3. mapAd' = LookedUp(mapAd, {id}) /\ UNCHANGED <<policy, bufImages, timers, biz, isEndBusiness>>
      BY <2>1 DEF GetAd
    <2>4. Lacking' = Lacking
      BY <2>2, <2>3 DEF Lacking, Missing, Needed, PolicyIds
    <2> QED
      BY <1>1, <2>3, <2>4 DEF timers
  <1>4. CASE EndBusiness
    BY <1>4, BusyRetries DEF EndBusiness
  <1>5. CASE PeerChanges \/ UNCHANGED vars
    <2>1. UNCHANGED <<data, timers, biz, isEndBusiness>>
      BY <1>5 DEF PeerChanges, vars
    <2>2. Lacking' = Lacking
      BY <2>1 DEF Lacking, Missing, Needed, PolicyIds, data
    <2> QED
      BY <1>1, <2>1, <2>2 DEF timers
  <1> QED
    BY <1>2, <1>3, <1>4, <1>5

(* NoForgottenDownload: a missing file is asked for again, whichever of    *)
(* the three requests failed and whichever handler called which.           *)
THEOREM NothingForgotten == Spec => []NoForgottenDownload
  <1>1. Init => NoForgottenDownload
    BY DEF Init, NoForgottenDownload, Idle
  <1>2. CacheInv /\ NoForgottenDownload /\ [Next]_vars => NoForgottenDownload'
    BY RetryHandlerStep, RetryDownloadStep, RetryOtherStep DEF Next
  <1> QED
    BY CacheInvInit, CacheInvStep, <1>1, <1>2, PTL DEF Spec

-----------------------------------------------------------------------------
(* AdChain: the client and the server it gets its files from.              *)

(* The memory of the server is of the types and the versions that a        *)
(* FileCache has.                                                          *)
SupplyInv == /\ known \in Known /\ files \in Images
             /\ \A id \in Ids : files[id] # None => files[id] = known[id]

ClientInv == CacheInv /\ SupplyInv /\ ClientFileIsKnown

(* The server merges a list, or fetches a file: what it knows stays, and   *)
(* its files are of the version it knows.                                  *)
LEMMA ServerKnows ==
    ASSUME TypeOK, SupplyInv, ServerMerges \/ \E id \in Ids : ServerFetches(id)
    PROVE  SupplyInv' /\ Extends(known, known') /\ UNCHANGED vars
  <1>1. CASE ServerMerges
    <2> DEFINE need == {id \in ServerPolicyIds : known'[id] \in 1..MaxVer}
    <2>1. peer.ads \in Lists /\ ServerPolicyIds \subseteq Ids /\ PolicyIds \subseteq Ids
      BY BusinessAssumption, TypesOf DEF TypeOK, ServerPolicyIds
    <2>2. known' \in Known /\ Extends(known, known')
      BY <1>1, <2>1, InsertedFacts, LookedUpFacts, ExtendsTransitive DEF ServerMerges, SupplyInv
    <2>3. need \in SUBSET Ids /\ files' = Erased(files, need)
      BY <1>1, <2>1 DEF ServerMerges
    <2>4. files' \in Images /\ Dropped(files, files')
      BY <2>3, ErasedFacts DEF SupplyInv
    <2>5. SupplyInv'
      BY <2>2, <2>4 DEF SupplyInv, Extends, Dropped
    <2> QED
      BY <1>1, <2>2, <2>5 DEF ServerMerges
  <1>2. CASE \E id \in Ids : ServerFetches(id)
    <2>1. PICK id \in Ids : ServerFetches(id)
      BY <1>2
    <2>2. /\ known[id] \in 1..MaxVer /\ files' = [files EXCEPT ![id] = known[id]]
          /\ known' = known /\ UNCHANGED vars
      BY <2>1 DEF ServerFetches, Supply!Fetch
    <2> QED
      BY <2>2 DEF SupplyInv, Images, Extends
  <1> QED
    BY <1>1, <1>2

(* The steps of the client that get no file drop files at most.            *)
LEMMA ClientDrops ==
    ASSUME CacheInv, ClientRuns
    PROVE  Next /\ Dropped(bufImages, bufImages')
  <1> USE TypesOf DEF CacheInv
  <1>1. ASSUME bufImages' = bufImages PROVE Dropped(bufImages, bufImages')
    BY <1>1 DEF Dropped
  <1>2. CASE ListOk
    <2> DEFINE lock == IF isBarServer THEN {} ELSE policy.lock
               m    == LookedUp(Inserted(mapAd, peer.ads), lock)
    <2>1. peer.ads \in Lists
      BY DEF TypeOK
    <2>2. m \in Known /\ Extends(mapAd, m)
      BY <2>1, InsertedFacts, LookedUpFacts, ExtendsTransitive
    <2>3. downloadAds(m, timerDownload, biz.nested)
      BY <1>2 DEF ListOk
    <2> HIDE DEF m
    <2> QED
      BY <1>2, <2>2, <2>3, DownloadAdsFacts DEF Next
  <1>3. CASE RunDownload
    <2>1. PICK t \in HandlerTaken(timerDownload) : downloadAds(mapAd, t, FALSE)
      BY <1>3 DEF RunDownload
    <2>2. Extends(mapAd, mapAd) /\ t \in TimerType
      BY HandlerTakenFacts DEF Extends
    <2> QED
      BY <1>3, <2>1, <2>2, DownloadAdsFacts DEF Next
  <1>4. CASE \/ Connected \/ RunPolicy \/ PolicyOk \/ PolicyFailed \/ PolicyUnparsable
             \/ RunAdList \/ ListFailed \/ FileFailed
    BY <1>1, <1>4 DEF Connected, RunPolicy, PolicyOk, PolicyFailed, PolicyUnparsable, RunAdList,
       ListFailed, FileFailed, data, Next
  <1>5. CASE PolicyTimerExpires \/ AdListTimerExpires \/ DownloadTimerExpires \/ EndBusiness
    BY <1>1, <1>5 DEF PolicyTimerExpires, AdListTimerExpires, DownloadTimerExpires, EndBusiness,
       data, Next
  <1> QED
    BY <1>2, <1>3, <1>4, <1>5 DEF ClientRuns

(* The file that the server answers with is one that the client keeps only *)
(* if it is of the version that both know.                                 *)
LEMMA ClientGets ==
    ASSUME CacheInv, SupplyInv, NEW id \in Ids, GetsFile(id)
    PROVE  /\ Next
           /\ \A i \in Ids : bufImages'[i] # None =>
                  bufImages'[i] = bufImages[i] \/ bufImages'[i] = known[i]
  <1>1. /\ files[id] \in 1..MaxVer /\ files[id] = known[id] /\ id = Min(biz.todo)
        /\ FileArrives(files[id])
    BY DEF GetsFile, SupplyInv, Images
  <1>2. bufImages' = bufImages \/ bufImages' = [bufImages EXCEPT ![id] = files[id]]
    BY <1>1 DEF FileArrives
  <1>3. \A i \in Ids : bufImages'[i] # None =>
            bufImages'[i] = bufImages[i] \/ bufImages'[i] = known[i]
    BY <1>1, <1>2, TypesOf DEF CacheInv, Images
  <1> QED
    BY <1>1, <1>3 DEF Next

(* No step of either side parts the client's files from what is known.     *)
LEMMA ClientInvStep ==
    ASSUME ClientInv, [ChainNext]_chainVars
    PROVE  ClientInv' /\ [Next]_vars
  <1> USE DEF ClientInv
  <1>1. TypeOK /\ CacheInv /\ SupplyInv
    BY DEF CacheInv
  <1>2. ASSUME [Next]_vars, SupplyInv', Extends(known, known'),
               \A i \in Ids : bufImages'[i] # None =>
                   bufImages'[i] = bufImages[i] \/ bufImages'[i] = known[i]
        PROVE  ClientInv' /\ [Next]_vars
    <2>1. CacheInv'
      BY <1>1, <1>2, CacheInvStep
    <2>2. ASSUME NEW i \in Ids, bufImages'[i] # None
          PROVE  bufImages'[i] = mapAd'[i] /\ bufImages'[i] = known'[i]
      <3>1. bufImages'[i] = mapAd'[i]
        BY <2>1, <2>2 DEF CacheInv, CachedFileMatches
      <3>2. bufImages'[i] = known[i] /\ known[i] # None
        BY <1>2, <2>2 DEF ClientFileIsKnown
      <3> QED
        BY <1>2, <3>1, <3>2 DEF Extends
    <2> QED
      BY <1>2, <2>1, <2>2 DEF ClientFileIsKnown
  <1>3. ASSUME UNCHANGED <<known, files>> PROVE SupplyInv' /\ Extends(known, known')
    BY <1>1, <1>3 DEF SupplyInv, Extends
  <1>4. CASE ServerPublishes
    <2>1. Next /\ bufImages' = bufImages /\ UNCHANGED <<known, files>>
      BY <1>4 DEF ServerPublishes, PeerChanges, Next, data
    <2> QED
      BY <1>2, <1>3, <2>1
  <1>5. CASE ServerMerges \/ \E id \in Ids : ServerFetches(id)
    <2>1. SupplyInv' /\ Extends(known, known') /\ UNCHANGED vars
      BY <1>1, <1>5, ServerKnows
    <2>2. bufImages' = bufImages
      BY <2>1 DEF vars, data
    <2> QED
      BY <1>2, <2>1, <2>2
  <1>6. CASE ClientRuns /\ UNCHANGED <<known, files>>
    <2>1. Next /\ Dropped(bufImages, bufImages')
      BY <1>1, <1>6, ClientDrops
    <2> QED
      BY <1>2, <1>3, <1>6, <2>1 DEF Dropped
  <1>7. CASE (\E id \in Ids : GetsFile(id)) /\ UNCHANGED <<known, files>>
    BY <1>1, <1>2, <1>3, <1>7, ClientGets
  <1>8. CASE UNCHANGED chainVars
    <2>1. UNCHANGED <<known, files>> /\ UNCHANGED vars /\ bufImages' = bufImages
      BY <1>8 DEF chainVars, vars, data
    <2> QED
      BY <1>2, <1>3, <2>1
  <1> QED
    BY <1>4, <1>5, <1>6, <1>7, <1>8 DEF ChainNext

LEMMA ClientInvInit == ChainInit => ClientInv
  <1> SUFFICES ASSUME ChainInit PROVE ClientInv
    OBVIOUS
  <1>1. CacheInv /\ SupplyInv
    BY CacheInvInit DEF ChainInit, SupplyInv, Known, Images
  <1>2. ClientFileIsKnown
    BY DEF ChainInit, Init, ClientFileIsKnown
  <1> QED
    BY <1>1, <1>2 DEF ClientInv

(* A client that is answered by a server, in whatever version it has the   *)
(* file, is an AdBusiness: what is proved of one holds of the client.      *)
THEOREM ClientIsABusiness == ChainSpec => Spec
  <1>1. ChainInit => Init
    BY DEF ChainInit
  <1>2. ClientInv /\ [ChainNext]_chainVars => ClientInv' /\ [Next]_vars
    BY ClientInvStep
  <1> QED
    BY <1>1, <1>2, ClientInvInit, PTL DEF ChainSpec, Spec

(* ClientFileIsKnown: the client's file is of the version the client knows *)
(* and of the one the server knows, although the two merge the list at     *)
(* different times and the server answers with what it has at the moment.  *)
THEOREM ClientFilesAgree == ChainSpec => []ClientFileIsKnown
  <1>1. ClientInv /\ [ChainNext]_chainVars => ClientInv'
    BY ClientInvStep
  <1>2. ClientInv => ClientFileIsKnown
    BY DEF ClientInv
  <1> QED
    BY <1>1, <1>2, ClientInvInit, PTL DEF ChainSpec
==============================================================================
