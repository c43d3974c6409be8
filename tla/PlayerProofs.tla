----------------------------- MODULE PlayerProofs -----------------------------
(***************************************************************************)
(* Proofs about Player for any ads, any length of the play list and any    *)
(* number of windows, calls of the application and turns of the wait.      *)
(***************************************************************************)
EXTENDS Player, SequenceTheorems, TLAPS

InHand == IF win.hand = None THEN 0 ELSE 1

(* NotifyPlay has an item to take whenever it is about to take one, and an *)
(* item in its hand only while it runs.                                    *)
PlayInv ==
    /\ Len(playList) + InHand <= MaxItems
    /\ win.hand # None => win.at = "play"
    /\ win.at = "play" => win.n >= 1 /\ Len(playList) + InHand >= 1
    /\ win.at = "wait" => win.n >= 1

(* Events come from a session that is there: only CreateSession asks for   *)
(* them, and Closed gives the session up with what it has queued.          *)
SessionInv ==
    /\ win.at = "none" => session = None
    /\ win.at = "close" => session # None
    /\ mf.getting => session # None

(* MESessionClosed is the last event that Invoke takes of a session, and   *)
(* what wakes CloseSession up.                                             *)
CloseInv ==
    closeEvent => ~mf.getting /\ (invoke # None => invoke.event = "closed")

(* StaleEventsAreHarmless, of the event that Invoke still has to post too. *)
Harmless(m) == m.s \notin abandoned \cup {session} => m.event = "closed"

StaleInv ==
    /\ \A k \in 1..Len(msgs) : Harmless(msgs[k])
    /\ invoke # None => Harmless(invoke)

(* Of a session that was given up one event is left at most: Invoke has it *)
(* or has posted it.  No session is given up before it was released, and   *)
(* none comes back.                                                        *)
OnceInv ==
    /\ session \notin abandoned /\ (session # None => session <= opened)
    /\ \A s \in abandoned : s <= opened
    /\ \A j, k \in 1..Len(msgs) : msgs[j].s \in abandoned /\ msgs[k].s = msgs[j].s => j = k
    /\ invoke # None /\ invoke.s \in abandoned =>
          \A k \in 1..Len(msgs) : msgs[k].s # invoke.s

PlayerInv == TypeOK /\ PlayInv /\ SessionInv /\ CloseInv /\ StaleInv /\ OnceInv

-----------------------------------------------------------------------------
(* The places and messages that the steps make have their types.           *)

(* NULL is none of the values that the variables hold besides it.          *)
LEMMA NoneIsNew ==
    /\ None \notin Items /\ None \notin Ids /\ None \notin Nat
    /\ MaxItems \in Nat /\ MaxSessions \in Nat /\ MaxTries \in Nat \ {0} /\ MaxCalls \in Nat
  BY PlayerAssumption DEF Items

(* Where the window's thread is put has the fields it was given.           *)
LEMMA AtFacts ==
    ASSUME NEW place, NEW turns
    PROVE  /\ At(place, turns).at = place
           /\ At(place, turns).n = turns
           /\ At(place, turns).hand = None
  BY DEF At

(* ... and the type of win, if they are right.                             *)
LEMMA AtType ==
    ASSUME NEW place \in {"none", "wait", "loop", "play", "close", "crashed"},
           NEW turns \in 0..(MaxItems + MaxTries)
    PROVE  At(place, turns) \in WinType
  BY DEF At, WinType

(* NotifyPlay puts the window's thread into its loop over the list, unless *)
(* the list is empty.                                                      *)
LEMMA NotifyPlayFacts ==
    ASSUME PlayInv, playList \in Seq(Items), win.hand = None, NotifyPlay
    PROVE  /\ win' \in WinType /\ win'.hand = None
           /\ win'.at \in {"loop", "play"}
           /\ win'.at = "play" => win'.n >= 1 /\ Len(playList) >= 1
  <1>1. /\ Len(playList) \in Nat /\ Len(playList) <= MaxItems
        /\ playList # <<>> => Len(playList) >= 1
    BY EmptySeq, LenProperties DEF PlayInv, InHand
  <1>2. CASE playList = <<>>
    <2>1. win' = At("loop", 0)
      BY <1>2 DEF NotifyPlay
    <2>2. 0 \in 0..(MaxItems + MaxTries)
      BY NoneIsNew
    <2> QED
      BY <2>1, <2>2, AtFacts, AtType
  <1>3. CASE playList # <<>>
    <2>1. win' = At("play", Len(playList))
      BY <1>3 DEF NotifyPlay
    <2>2. Len(playList) \in 0..(MaxItems + MaxTries)
      BY <1>1, NoneIsNew
    <2> QED
      BY <1>1, <1>3, <2>1, <2>2, AtFacts, AtType
  <1> QED
    BY <1>2, <1>3

(* The session a window starts with has asked for its first event.         *)
LEMMA NewSessionFacts ==
    /\ NoSession \in MfType /\ ~NoSession.getting
    /\ [NoSession EXCEPT !.getting = TRUE] \in MfType
  <1>1. <<>> \in Seq(Events)
    BY EmptySeq
  <1> QED
    BY <1>1 DEF NoSession, MfType

(* What the steps do to the media session keeps its type.                  *)
Topologies == {"none", "resolving", "set", "running", "paused", "stopped", "over"}

LEMMA MfTopo ==
    ASSUME NEW m \in MfType, NEW t \in Topologies
    PROVE  [m EXCEPT !.topo = t] \in MfType /\ [m EXCEPT !.topo = t].getting = m.getting
  BY DEF MfType, Topologies

LEMMA MfTopoEvents ==
    ASSUME NEW m \in MfType, NEW t \in Topologies, NEW e \in Seq(Events)
    PROVE  /\ [m EXCEPT !.topo = t, !.events = e] \in MfType
           /\ [m EXCEPT !.topo = t, !.events = e].getting = m.getting
  BY DEF MfType, Topologies

LEMMA MfClosing ==
    ASSUME NEW m \in MfType
    PROVE  [m EXCEPT !.closing = TRUE] \in MfType /\ [m EXCEPT !.closing = TRUE].getting = m.getting
  BY DEF MfType

LEMMA MfCloses ==
    ASSUME NEW m \in MfType, NEW e \in Seq(Events)
    PROVE  /\ [m EXCEPT !.closing = FALSE, !.topo = "none", !.events = e] \in MfType
           /\ [m EXCEPT !.closing = FALSE, !.topo = "none", !.events = e].getting = m.getting
  BY DEF MfType

LEMMA MfTaken ==
    ASSUME NEW m \in MfType, NEW e \in Seq(Events), NEW g \in BOOLEAN
    PROVE  /\ [m EXCEPT !.events = e, !.getting = g] \in MfType
           /\ [m EXCEPT !.events = e, !.getting = g].getting = g
  BY DEF MfType

-----------------------------------------------------------------------------
(* The window's thread and the play list.                                  *)

WindowAndList == PlayInv /\ win \in WinType /\ playList \in Seq(Items)

(* The steps that touch them keep PlayInv and their types.                 *)
LEMMA WindowStep ==
    ASSUME TypeOK, PlayInv, Next
    PROVE  WindowAndList'
  <1>t. /\ win \in WinType /\ playList \in Seq(Items)
        /\ win.n \in 0..(MaxItems + MaxTries) /\ win.hand \in Items \cup {None}
        /\ win.at \in {"none", "wait", "loop", "play", "close", "crashed"}
        /\ Len(playList) \in Nat
    BY DEF TypeOK, WinType
  <1>u. MaxItems \in Nat /\ MaxTries \in Nat \ {0} /\ None \notin Items
    BY NoneIsNew
  <1>z. 0 \in 0..(MaxItems + MaxTries) /\ MaxTries \in 0..(MaxItems + MaxTries)
    BY <1>u
  <1>v. ASSUME win.n > 1 \/ (win.n >= 1 /\ win.n # 1)
        PROVE  win.n - 1 \in 0..(MaxItems + MaxTries) /\ win.n - 1 >= 1
    <2>1. \A bound \in Nat : \A n \in 0..bound :
             n > 1 \/ (n >= 1 /\ n # 1) => n - 1 \in 0..bound /\ n - 1 >= 1
      OBVIOUS
    <2>2. MaxItems + MaxTries \in Nat
      BY <1>u
    <2> QED
      BY <1>t, <1>v, <2>1, <2>2
  <1>a. ASSUME NEW place \in {"none", "loop", "close", "crashed"}, win' = At(place, 0),
               playList' = playList
        PROVE  WindowAndList'
    <2>1. win' \in WinType /\ win'.at = place /\ win'.hand = None
      BY <1>a, <1>z, AtFacts, AtType
    <2>2. InHand' = 0 /\ InHand \in {0, 1}
      BY <2>1 DEF InHand
    <2>3. Len(playList') + InHand' <= MaxItems
      BY <1>a, <1>t, <1>u, <2>2 DEF PlayInv
    <2> QED
      BY <1>a, <1>t, <2>1, <2>3 DEF WindowAndList, PlayInv
  <1>b. ASSUME win' = At("wait", MaxTries), playList' = playList, win.hand = None
        PROVE  WindowAndList'
    <2>1. win' \in WinType /\ win'.at = "wait" /\ win'.hand = None /\ win'.n = MaxTries
      BY <1>b, <1>z, AtFacts, AtType
    <2> QED
      BY <1>b, <1>t, <1>u, <2>1 DEF WindowAndList, PlayInv, InHand
  <1>c. ASSUME NotifyPlay, playList' = playList, win.hand = None
        PROVE  WindowAndList'
    <2>1. /\ win' \in WinType /\ win'.hand = None
          /\ win'.at \in {"loop", "play"}
          /\ win'.at = "play" => win'.n >= 1 /\ Len(playList) >= 1
      BY <1>c, <1>t, NotifyPlayFacts
    <2> QED
      BY <1>c, <1>t, <2>1 DEF WindowAndList, PlayInv, InHand
  <1>d. win.at # "play" => win.hand = None
    BY DEF PlayInv
  <1>1. CASE SetVideoWindow
    BY <1>1, <1>b, <1>d DEF SetVideoWindow
  <1>2. CASE SetVideoWindowFails
    BY <1>2, <1>a, <1>b, <1>d DEF SetVideoWindowFails
  <1>3. CASE WaitReady
    <2>1. CASE ready
      BY <1>3, <1>c, <1>d, <2>1 DEF WaitReady
    <2>2. CASE win.n > 1 /\ win' = [win EXCEPT !.n = @ - 1]
      <3>1. win.n - 1 \in 0..(MaxItems + MaxTries) /\ win.n - 1 >= 1
        BY <1>v, <2>2
      <3>2. /\ win' \in WinType /\ win'.at = win.at /\ win'.hand = win.hand
            /\ win'.n = win.n - 1
        BY <1>t, <2>2, <3>1 DEF WinType
      <3> QED
        BY <1>3, <1>t, <3>1, <3>2 DEF WaitReady, WindowAndList, PlayInv, InHand
    <2>3. CASE win' = At("loop", 0)
      BY <1>3, <1>a, <1>d, <2>3 DEF WaitReady
    <2> QED
      BY <1>3, <2>1, <2>2, <2>3 DEF WaitReady
  <1>4. CASE TakeFront
    <2>1. win.at = "play" /\ win.hand = None /\ win' = [win EXCEPT !.hand = Head(playList)]
          /\ playList' = Tail(playList)
      BY <1>4 DEF TakeFront
    <2>2. Len(playList) >= 1 /\ Len(playList) <= MaxItems /\ win.n >= 1
      BY <1>t, <2>1 DEF PlayInv, InHand
    <2>3. playList # <<>>
      BY <2>2
    <2>4. /\ Head(playList) \in Items /\ Tail(playList) \in Seq(Items)
          /\ Len(Tail(playList)) = Len(playList) - 1
      BY <1>t, <2>3, HeadTailProperties
    <2>5. win' \in WinType /\ win'.at = "play" /\ win'.n = win.n /\ win'.hand # None
      BY <1>t, <1>u, <2>1, <2>4 DEF WinType
    <2> QED
      BY <1>t, <2>1, <2>2, <2>4, <2>5 DEF WindowAndList, PlayInv, InHand
  <1>5. CASE PutBack
    <2>1. win.at = "play" /\ win.hand # None /\ playList' = Append(playList, win.hand)
      BY <1>5 DEF PutBack, Rotated
    <2>2. playList' \in Seq(Items) /\ Len(playList') = Len(playList) + 1
      BY <1>t, <2>1, AppendProperties
    <2>3. win.n >= 1 /\ Len(playList) + 1 <= MaxItems
      BY <1>t, <2>1 DEF PlayInv, InHand
    <2>4. \/ win' = At("loop", 0) \/ win' = At("crashed", 0)
          \/ win.n # 1 /\ win' = At("play", win.n - 1)
      BY <1>5 DEF PutBack, OpenMem, OpenMemFails
    <2>5. CASE win' = At("loop", 0) \/ win' = At("crashed", 0)
      <3>1. win' \in WinType /\ win'.at \in {"loop", "crashed"} /\ win'.hand = None
        BY <1>z, <2>5, AtFacts, AtType
      <3> QED
        BY <1>t, <2>2, <2>3, <3>1 DEF WindowAndList, PlayInv, InHand
    <2>6. CASE win.n # 1 /\ win' = At("play", win.n - 1)
      <3>1. win.n - 1 \in 0..(MaxItems + MaxTries) /\ win.n - 1 >= 1
        BY <1>v, <2>3, <2>6
      <3>2. win' \in WinType /\ win'.at = "play" /\ win'.hand = None /\ win'.n = win.n - 1
        BY <2>6, <3>1, AtFacts, AtType
      <3> QED
        BY <1>t, <2>2, <2>3, <3>1, <3>2 DEF WindowAndList, PlayInv, InHand
    <2> QED
      BY <2>4, <2>5, <2>6
  <1>6. CASE OnSessionEnded
    BY <1>6, <1>c, <1>d DEF OnSessionEnded, Handling
  <1>7. CASE Shutdown
    <2>1. playList' = playList
      BY <1>7 DEF Shutdown
    <2>2. win' = At("close", 0) \/ win' = At("none", 0)
      BY <1>7 DEF Shutdown, CloseSession, Closed
    <2> QED
      BY <1>a, <2>1, <2>2
  <1>8. CASE CloseTimesOut \/ CloseDone
    BY <1>8, <1>a DEF CloseTimesOut, CloseDone, Closed
  <1>9. ASSUME NEW id \in Ids, AppendItem(id)
        PROVE  WindowAndList'
    <2>1. [id |-> id, file |-> FALSE] \in Items
      BY DEF Items
    <2>2. playList' \in Seq(Items) /\ Len(playList') = Len(playList) + 1
      BY <1>9, <1>t, <2>1, AppendProperties DEF AppendItem
    <2>3. win' = win /\ Len(playList) + InHand < MaxItems
      BY <1>9 DEF AppendItem, InHand
    <2>4. InHand \in Nat /\ InHand' = InHand
      BY <2>3 DEF InHand
    <2> QED
      BY <1>t, <1>u, <2>2, <2>3, <2>4 DEF WindowAndList, PlayInv
  <1>10. ASSUME NEW id \in Ids, UpdatePlayList(id)
         PROVE  WindowAndList'
    <2> DEFINE upd(k) == IF playList[k].id = id THEN [playList[k] EXCEPT !.file = TRUE]
                         ELSE playList[k]
    <2>1. ASSUME NEW k \in 1..Len(playList)
          PROVE  upd(k) \in Items
      <3>1. playList[k] \in Items
        BY <1>t, ElementOfSeq
      <3> QED
        BY <3>1 DEF Items
    <2>2. playList' = [k \in 1..Len(playList) |-> upd(k)]
      BY <1>10 DEF UpdatePlayList
    <2> HIDE DEF upd
    <2>3. playList' \in Seq(Items)
      BY <1>t, <2>1, <2>2, IsASeq
    <2>4. Len(playList') = Len(playList)
      BY <1>t, <2>2, <2>3, LenProperties
    <2>5. win' = win
      BY <1>10 DEF UpdatePlayList
    <2> QED
      BY <1>t, <2>3, <2>4, <2>5 DEF WindowAndList, PlayInv, InHand
  <1>11. ASSUME UNCHANGED <<win, playList>>
         PROVE  WindowAndList'
    BY <1>11, <1>t DEF WindowAndList, PlayInv, InHand
  <1>12. CASE HandleOther \/ OnTopologyReady \/ OnTopologyEnded \/ HandleEventFails
              \/ OnPresentationEnded
    BY <1>11, <1>12 DEF HandleOther, OnTopologyReady, OnTopologyEnded, HandleEventFails,
       OnPresentationEnded, Handling
  <1>13. CASE Pause \/ Stop \/ Play
    BY <1>11, <1>13 DEF Pause, Stop, Play, Calls
  <1>14. CASE InvokeTakes \/ InvokeFails \/ InvokePosts \/ TopologyResolved \/ PlaybackEnds
              \/ SessionCloses \/ SetMediaSourceReady
    BY <1>11, <1>14 DEF InvokeTakes, InvokeFails, InvokePosts, TopologyResolved, PlaybackEnds,
       SessionCloses, SetMediaSourceReady
  <1>15. ASSUME NEW s \in late, InvokeAbandoned(s)
         PROVE  WindowAndList'
    <2>1. win' \in {At("crashed", 0), win} /\ playList' = playList
      BY <1>15 DEF InvokeAbandoned
    <2> QED
      BY <1>11, <1>a, <2>1
  <1> QED
    BY <1>1, <1>2, <1>3, <1>4, <1>5, <1>6, <1>7, <1>8, <1>9, <1>10, <1>12, <1>13, <1>14, <1>15
    DEF Next, WindowThread, HandleEvent
-----------------------------------------------------------------------------
(* The session, Invoke and the messages.                                   *)

Messages == [s : 1..MaxSessions, event : Events]

(* The types of what WindowStep leaves out.                                *)
OthersOK ==
    /\ mstate \in PlayerState
    /\ session \in 1..MaxSessions \cup {None}
    /\ source \in Ids \cup {None}
    /\ dangling \in BOOLEAN /\ closeEvent \in BOOLEAN
    /\ ready \in BOOLEAN
    /\ msgs \in Seq(Messages)
    /\ invoke \in Messages \cup {None}
    /\ mf \in MfType
    /\ abandoned \subseteq 1..MaxSessions /\ late \subseteq 1..MaxSessions
    /\ biz \in BOOLEAN
    /\ opened \in 0..MaxSessions
    /\ calls \in 0..MaxCalls
    /\ failed \in Failures \cup {None}

LEMMA TypeParts == TypeOK <=> OthersOK /\ win \in WinType /\ playList \in Seq(Items)
  BY DEF TypeOK, OthersOK, Messages

SessionState == SessionInv /\ CloseInv /\ StaleInv

(* The window is not destroyed, and CloseSession not waiting for nothing.  *)
WindowKept ==
    /\ win'.at = "none" => win.at = "none"
    /\ win'.at = "close" => win.at = "close" \/ session # None

(* The steps that leave the session, its closing and the messages alone    *)
(* keep what is known of them.                                             *)
LEMMA SessionKept ==
    ASSUME OthersOK, SessionState,
           UNCHANGED <<session, closeEvent, invoke, abandoned>>,
           mf'.getting = mf.getting,
           msgs' = msgs \/ (msgs # <<>> /\ msgs' = Tail(msgs)),
           WindowKept
    PROVE  SessionState'
  <1>2. SessionInv' /\ CloseInv'
    BY DEF SessionState, SessionInv, CloseInv, WindowKept
  <1>3. ASSUME msgs # <<>>, msgs' = Tail(msgs), NEW k \in 1..Len(msgs')
        PROVE  \E j \in 1..Len(msgs) : msgs'[k] = msgs[j]
    <2>1. /\ Len(msgs) \in Nat /\ Len(Tail(msgs)) = Len(msgs) - 1
          /\ \A i \in 1..Len(Tail(msgs)) : Tail(msgs)[i] = msgs[i + 1]
      BY <1>3, HeadTailProperties, LenProperties DEF OthersOK
    <2>2. k \in 1..(Len(msgs) - 1) /\ msgs'[k] = msgs[k + 1]
      BY <1>3, <2>1
    <2>3. k + 1 \in 1..Len(msgs)
      BY <2>1, <2>2
    <2> QED
      BY <2>2, <2>3
  <1>4. StaleInv'
    BY <1>3 DEF SessionState, StaleInv, Harmless
  <1> QED
    BY <1>2, <1>4 DEF SessionState

(* Everything else that Next does: the remaining types, and what is known  *)
(* of the session, its closing and the messages.                           *)
LEMMA SessionStep ==
    ASSUME TypeOK, PlayInv, SessionState, Next
    PROVE  OthersOK' /\ SessionState'
  <1>o. OthersOK
    BY TypeParts
  <1>f. \A call \in Failures : Fails(call) => failed' \in Failures \cup {None}
    BY DEF Fails
  <1>n. None \notin Nat
        /\ MaxSessions \in Nat /\ MaxCalls \in Nat
    BY NoneIsNew
  <1>m. /\ mf \in MfType /\ mf.events \in Seq(Events)
        /\ \A e \in Events : Append(mf.events, e) \in Seq(Events)
        /\ mf.events # <<>> => Head(mf.events) \in Events /\ Tail(mf.events) \in Seq(Events)
        /\ mf.topo \in Topologies
        /\ mf.getting \in BOOLEAN
    <2>1. mf \in MfType /\ mf.events \in Seq(Events)
      BY <1>o DEF OthersOK, MfType
    <2>2. mf.topo \in Topologies /\ mf.getting \in BOOLEAN
      BY <2>1 DEF MfType, Topologies
    <2> QED
      BY <2>1, <2>2, AppendProperties, HeadTailProperties
  <1>w. win.at = "none" => session = None
    BY DEF SessionState, SessionInv
  <1>e. \A e \in {"ready", "error", "closed"} : e \in Events
    BY DEF Events
  <1>u. Underway \in BOOLEAN /\ (Underway => session # None)
    BY <1>m DEF Underway, SessionState, SessionInv
  \* A session that is given up is the one whose event Invoke may hold.
  <1>a. ASSUME Abandon, session # None
        PROVE  /\ abandoned' \subseteq 1..MaxSessions
               /\ invoke # None => invoke.event = "closed" \/ invoke.s \in abandoned'
    BY <1>a, <1>o DEF Abandon, OthersOK, SessionState, StaleInv, Harmless
  \* The window is closed: the session is gone, and so are its messages.
  <1>c. ASSUME NEW calling \in BOOLEAN, Closed(calling),
               calling => session # None,
               UNCHANGED <<ready, invoke, biz, opened, calls>>,
               abandoned' \subseteq 1..MaxSessions,
               failed' \in Failures \cup {None},
               invoke # None => invoke.event = "closed" \/ invoke.s \in abandoned'
        PROVE  OthersOK' /\ SessionState'
    <2>1. msgs' = <<>> /\ msgs' \in Seq(Messages) /\ Len(msgs') = 0
      BY <1>c, EmptySeq DEF Closed
    <2>2. mf' \in MfType /\ ~mf'.getting
      BY <1>c, NewSessionFacts DEF Closed
    <2>3. win'.at = "none" /\ session' = None
      BY <1>c, AtFacts DEF Closed
    <2>4. OthersOK'
      <3>1. late' \subseteq 1..MaxSessions
        BY <1>c, <1>o DEF Closed, OthersOK
      <3> QED
        BY <1>c, <1>o, <2>1, <2>2, <3>1 DEF Closed, OthersOK, PlayerState
    <2>5. SessionInv' /\ CloseInv'
      BY <1>c, <2>2, <2>3 DEF SessionInv, CloseInv, Closed
    <2>6. StaleInv'
      BY <1>c, <2>1 DEF StaleInv, Harmless
    <2> QED
      BY <2>4, <2>5, <2>6 DEF SessionState
  \* Session, messages and Invoke stay what they are.
  <1>k. ASSUME UNCHANGED <<session, closeEvent, invoke, msgs, abandoned>>, mf'.getting = mf.getting,
               WindowKept
        PROVE  SessionState'
    <2>1. msgs' = msgs \/ (msgs # <<>> /\ msgs' = Tail(msgs))
      BY <1>k
    <2>2. UNCHANGED <<session, closeEvent, invoke, abandoned>>
      BY <1>k
    <2>3. mf'.getting = mf.getting /\ WindowKept
      BY <1>k
    <2>4. SessionState /\ OthersOK
      BY <1>o
    <2> QED
      BY <2>1, <2>2, <2>3, <2>4, SessionKept
  <1>1. CASE SetVideoWindow
    <2>1. /\ win.at = "none" /\ opened < MaxSessions /\ opened' = opened + 1 /\ ~closeEvent'
          /\ closeEvent' \in BOOLEAN
          /\ session' = opened' /\ mf' \in {NoSession, [NoSession EXCEPT !.getting = TRUE]}
          /\ mstate' \in {mstate, "Ready"}
          /\ win' = At("wait", MaxTries)
          /\ UNCHANGED <<source, dangling, ready, msgs, invoke, abandoned, late, biz, calls>>
      BY <1>1 DEF SetVideoWindow, CreateSession, released
    <2>f. failed' \in Failures \cup {None}
      BY <1>1, <1>f, <1>o DEF SetVideoWindow, CreateSession, OthersOK, Failures
    <2>2. opened' \in 1..MaxSessions /\ opened' \in 0..MaxSessions /\ session' # None
      BY <1>n, <1>o, <2>1 DEF OthersOK
    <2>3. OthersOK'
      BY <1>o, <2>1, <2>2, <2>f, NewSessionFacts DEF OthersOK, PlayerState
    <2>4. SessionInv' /\ CloseInv'
      BY <2>1, <2>2, AtFacts DEF SessionInv, CloseInv
    <2>5. /\ \A k \in 1..Len(msgs) : msgs[k].s # session
          /\ invoke # None => invoke.s # session
      <3>1. session = None /\ \A j \in 1..MaxSessions : j # None
        BY <1>n, <1>w, <2>1
      <3>2. /\ \A k \in 1..Len(msgs) : msgs[k] \in Messages
            /\ invoke # None => invoke \in Messages
        BY <1>o, ElementOfSeq DEF OthersOK
      <3>3. \A x \in Messages : x.s \in 1..MaxSessions
        BY DEF Messages
      <3> QED
        BY <3>1, <3>2, <3>3
    <2>6. StaleInv'
      BY <2>1, <2>5 DEF SessionState, StaleInv, Harmless
    <2> QED
      BY <2>3, <2>4, <2>6 DEF SessionState
  <1>2. CASE SetVideoWindowFails
    <2>1. OthersOK'
      BY <1>2, <1>o, <1>n DEF SetVideoWindowFails, OthersOK, Fails, Failures, player, released
    <2>2. WindowKept
      BY <1>2, AtFacts DEF SetVideoWindowFails, WindowKept
    <2> QED
      BY <1>2, <1>k, <2>1, <2>2 DEF SetVideoWindowFails, player, released
  <1>3. CASE WaitReady \/ TakeFront
    <2>1. WindowKept
      BY <1>3, AtFacts, <1>o, TypeParts DEF WaitReady, TakeFront, NotifyPlay, WinType, WindowKept
    <2>2. OthersOK'
      BY <1>3, <1>o DEF WaitReady, TakeFront, OthersOK, player, released
    <2> QED
      BY <1>3, <1>k, <2>1, <2>2 DEF WaitReady, TakeFront, player, released
  <1>4. CASE PutBack
    <2>1. /\ win.at = "play" /\ win.hand \in Items
          /\ UNCHANGED <<session, closeEvent, ready, msgs, invoke, abandoned, late, biz, opened,
                         calls>>
          /\ \/ OpenMem(win.hand.id) \/ OpenMemFails(win.hand.id)
             \/ /\ win' \in {At("loop", 0), At("play", win.n - 1)}
                /\ UNCHANGED <<mstate, source, dangling, mf, failed>>
      BY <1>4, TypeParts DEF PutBack, WinType, released
    <2>2. win.hand.id \in Ids
      BY <2>1 DEF Items
    <2>3. WindowKept
      BY <2>1, AtFacts DEF OpenMem, OpenMemFails, WindowKept
    <2>4. /\ mf' \in MfType /\ mf'.getting = mf.getting
      <3>1. mf' = mf \/ mf' = [mf EXCEPT !.topo = "resolving"]
        BY <2>1 DEF OpenMem, OpenMemFails, CreateMediaSourceFails, CreatePlaybackTopologyFails,
           ShutdownOfOldSourceFails
      <3> QED
        BY <1>m, <3>1, MfTopo DEF Topologies
    <2>5. mstate' \in PlayerState /\ source' \in Ids \cup {None} /\ dangling' \in BOOLEAN
      BY <1>o, <2>1, <2>2 DEF OthersOK, PlayerState, OpenMem, OpenMemFails, CreateMediaSourceFails,
         CreatePlaybackTopologyFails, ShutdownOfOldSourceFails
    <2>6. failed' \in Failures \cup {None}
      BY <1>o, <2>1 DEF OthersOK, OpenMem, OpenMemFails, Fails, Failures
    <2>7. OthersOK'
      BY <1>o, <2>1, <2>4, <2>5, <2>6 DEF OthersOK
    <2> QED
      BY <1>k, <2>1, <2>3, <2>4, <2>7
  <1>5. CASE HandleEvent
    <2>1. PICK events : Handling(events)
      BY <1>5 DEF HandleEvent, HandleOther, OnTopologyReady, OnTopologyEnded, HandleEventFails,
         OnPresentationEnded, OnSessionEnded
    <2>2. /\ msgs # <<>> /\ msgs' = Tail(msgs) /\ win.at = "loop"
          /\ UNCHANGED <<playList, ready, invoke, abandoned, late, biz, opened, calls>>
      BY <2>1 DEF Handling, released
    <2>3. msgs' \in Seq(Messages)
      BY <1>o, <2>2, HeadTailProperties DEF OthersOK
    <2>4. /\ UNCHANGED <<session, source, dangling, closeEvent>>
          /\ mstate' \in {mstate, "Started", "Stopped"}
          /\ failed' \in {failed, "handle"}
          /\ win' = win \/ NotifyPlay
          /\ \/ mf' = mf
             \/ mf' = [mf EXCEPT !.topo = "running"]
             \/ mf' = [mf EXCEPT !.topo = "none"]
      BY <1>5 DEF HandleEvent, HandleOther, OnTopologyReady, OnTopologyEnded, HandleEventFails,
         OnPresentationEnded, OnSessionEnded, StartPlayback, Fails, player
    <2>5. mf' \in MfType /\ mf'.getting = mf.getting
      <3>1. \A t \in {"running", "none"} :
               [mf EXCEPT !.topo = t] \in MfType /\ [mf EXCEPT !.topo = t].getting = mf.getting
        BY <1>m, MfTopo DEF Topologies
      <3> QED
        BY <1>m, <2>4, <3>1
    <2>6. OthersOK'
      <3>1. mstate' \in PlayerState /\ failed' \in Failures \cup {None}
        BY <1>o, <2>4 DEF OthersOK, PlayerState, Failures
      <3> QED
        BY <1>o, <2>2, <2>3, <2>4, <2>5, <3>1 DEF OthersOK
    <2>7. WindowKept
      BY <2>2, <2>4, AtFacts DEF NotifyPlay, WindowKept
    <2> QED
      BY <1>o, <2>2, <2>4, <2>5, <2>6, <2>7, SessionKept
  <1>6. CASE Pause \/ Stop \/ Play
    <2>1. \E t \in Topologies : Calls(t)
      BY <1>6, <1>m DEF Pause, Stop, Play, Topologies
    <2>2. PICK t \in Topologies : Calls(t)
      BY <2>1
    <2>3. /\ calls < MaxCalls /\ calls' = calls + 1 /\ mf' = [mf EXCEPT !.topo = t]
          /\ UNCHANGED <<session, source, dangling, closeEvent>>
          /\ UNCHANGED <<playList, ready, win, msgs, invoke, abandoned, late, biz, opened, failed>>
      BY <2>2 DEF Calls, released
    <2>4. mf' \in MfType /\ mf'.getting = mf.getting
      BY <1>m, <2>3, MfTopo
    <2>5. calls' \in 0..MaxCalls
      BY <1>n, <1>o, <2>3 DEF OthersOK
    <2>6. mstate' \in PlayerState
      BY <1>6 DEF Pause, Stop, Play, PlayerState
    <2>7. OthersOK'
      BY <1>o, <2>3, <2>4, <2>5, <2>6 DEF OthersOK
    <2> QED
      BY <1>k, <2>3, <2>4, <2>7 DEF WindowKept
  <1>7. CASE Shutdown
    <2>1. UNCHANGED <<ready, invoke, biz, opened, calls>>
      BY <1>7 DEF Shutdown
    <2>2. CASE /\ session # None /\ mstate' = "Closing" /\ mf' = [mf EXCEPT !.closing = TRUE]
               /\ win' = At("close", 0)
               /\ UNCHANGED <<session, source, dangling, closeEvent, released, msgs, failed>>
      <3>1. mf' \in MfType /\ mf'.getting = mf.getting
        BY <1>m, <2>2, MfClosing
      <3>2. OthersOK'
        BY <1>o, <2>1, <2>2, <3>1 DEF OthersOK, PlayerState, released
      <3>3. WindowKept
        BY <2>2, AtFacts DEF WindowKept
      <3> QED
        BY <1>k, <2>1, <2>2, <3>1, <3>2, <3>3 DEF released
    <2>3. CASE session = None /\ Closed(FALSE) /\ UNCHANGED <<abandoned, failed>>
      <3>1. invoke # None => invoke.event = "closed" \/ invoke.s \in abandoned'
        <4>1. invoke # None => invoke.s # session
          BY <1>n, <1>o, <2>3 DEF OthersOK, Messages
        <4> QED
          BY <2>3, <4>1 DEF SessionState, StaleInv, Harmless
      <3>2. failed' \in Failures \cup {None} /\ abandoned' \subseteq 1..MaxSessions
        BY <1>o, <2>3 DEF OthersOK
      <3> QED
        BY <1>c, <2>1, <2>3, <3>1, <3>2
    <2>4. CASE session # None /\ Closed(mf.getting) /\ Abandon /\ Fails("close")
      <3>1. failed' \in Failures \cup {None}
        BY <2>4 DEF Fails, Failures
      <3> QED
        BY <1>a, <1>c, <1>m, <2>1, <2>4, <3>1
    <2> QED
      BY <1>7, <2>2, <2>3, <2>4 DEF Shutdown, CloseSession
  <1>8. CASE CloseTimesOut
    <2>1. /\ Closed(Underway) /\ Abandon /\ failed' \in Failures \cup {None}
          /\ UNCHANGED <<ready, invoke, biz, opened, calls>> /\ session # None
      BY <1>8 DEF CloseTimesOut, Failures, SessionState, SessionInv
    <2> QED
      BY <1>a, <1>c, <1>u, <2>1
  <1>9. CASE CloseDone
    <2>1. /\ closeEvent /\ Closed(Underway)
          /\ UNCHANGED <<ready, invoke, abandoned, biz, opened, calls, failed>>
      BY <1>9 DEF CloseDone
    <2>2. invoke # None => invoke.event = "closed"
      BY <2>1 DEF SessionState, CloseInv
    <2>3. failed' \in Failures \cup {None} /\ abandoned' \subseteq 1..MaxSessions
      BY <1>o, <2>1 DEF OthersOK
    <2> QED
      BY <1>c, <1>u, <2>1, <2>2, <2>3
  <1>10. CASE InvokeTakes
    <2>1. /\ invoke = None /\ mf.getting /\ mf.events # <<>>
          /\ closeEvent' = (closeEvent \/ Head(mf.events) = "closed")
          /\ mf' = [mf EXCEPT !.events = Tail(mf.events), !.getting = Head(mf.events) # "closed"]
          /\ invoke' = [s |-> session, event |-> Head(mf.events)]
          /\ UNCHANGED <<mstate, session, source, dangling, ready, win, msgs>>
          /\ UNCHANGED <<abandoned, late, biz, opened, calls, failed>>
      BY <1>10 DEF InvokeTakes, Underway, GetEvent, released
    <2>2. session \in 1..MaxSessions /\ ~closeEvent
      BY <1>o, <2>1 DEF SessionState, SessionInv, CloseInv, OthersOK
    <2>3. Head(mf.events) \in Events /\ Tail(mf.events) \in Seq(Events)
      BY <1>m, <2>1
    <2>4. mf' \in MfType /\ mf'.getting = (Head(mf.events) # "closed")
      <3> DEFINE g == Head(mf.events) # "closed"
      <3>1. g \in BOOLEAN
        OBVIOUS
      <3> HIDE DEF g
      <3>2. /\ [mf EXCEPT !.events = Tail(mf.events), !.getting = g] \in MfType
            /\ [mf EXCEPT !.events = Tail(mf.events), !.getting = g].getting = g
        BY <1>m, <2>3, <3>1, MfTaken
      <3>3. mf' = [mf EXCEPT !.events = Tail(mf.events), !.getting = g]
        BY <2>1 DEF g
      <3>4. mf' \in MfType /\ mf'.getting = g
        BY <3>2, <3>3
      <3> QED
        BY <3>4 DEF g
    <2>5. invoke' \in Messages /\ invoke'.event = Head(mf.events) /\ invoke'.s = session
      BY <2>1, <2>2, <2>3 DEF Messages
    <2>6. closeEvent' \in BOOLEAN /\ (closeEvent' => Head(mf.events) = "closed")
      BY <2>1, <2>2
    <2>7. OthersOK'
      BY <1>o, <2>1, <2>4, <2>5, <2>6 DEF OthersOK
    <2>8. SessionInv'
      BY <1>n, <1>w, <2>1, <2>2 DEF SessionInv
    <2>9. CloseInv'
      BY <2>4, <2>5, <2>6 DEF CloseInv
    <2>10. StaleInv'
      BY <2>1, <2>5 DEF SessionState, StaleInv, Harmless
    <2> QED
      BY <2>7, <2>8, <2>9, <2>10 DEF SessionState
  <1>11. CASE InvokePosts
    <2>1. /\ invoke # None /\ invoke' = None /\ msgs' \in {Append(msgs, invoke), msgs}
          /\ UNCHANGED <<mstate, session, source, dangling, closeEvent>>
          /\ UNCHANGED <<ready, win, mf, abandoned, late, biz, opened, calls, failed>>
      BY <1>11 DEF InvokePosts, player, released
    <2>2. invoke \in Messages /\ msgs \in Seq(Messages) /\ Len(msgs) \in Nat
      BY <1>o, <2>1 DEF OthersOK
    <2>3. /\ Append(msgs, invoke) \in Seq(Messages)
          /\ Len(Append(msgs, invoke)) = Len(msgs) + 1
          /\ \A k \in 1..Len(msgs) : Append(msgs, invoke)[k] = msgs[k]
          /\ Append(msgs, invoke)[Len(msgs) + 1] = invoke
      BY <2>2, AppendProperties
    <2>4. OthersOK'
      BY <1>o, <2>1, <2>2, <2>3 DEF OthersOK
    <2>5. SessionInv' /\ CloseInv'
      BY <2>1 DEF SessionState, SessionInv, CloseInv
    <2>6. \A k \in 1..Len(msgs') : msgs'[k] = invoke \/ \E j \in 1..Len(msgs) : msgs'[k] = msgs[j]
      BY <2>1, <2>2, <2>3
    <2>7. StaleInv'
      BY <2>1, <2>6 DEF SessionState, StaleInv, Harmless
    <2> QED
      BY <2>4, <2>5, <2>7 DEF SessionState
  <1>12. CASE TopologyResolved \/ PlaybackEnds \/ SessionCloses
    <2>1. /\ \E e \in Seq(Events) :
                \/ \E t \in Topologies : mf' = [mf EXCEPT !.topo = t, !.events = e]
                \/ mf' = [mf EXCEPT !.closing = FALSE, !.topo = "none", !.events = e]
          /\ failed' \in {failed, "topology"}
          /\ UNCHANGED <<mstate, session, source, dangling, closeEvent>>
          /\ UNCHANGED <<ready, win, msgs, invoke, abandoned, late, biz, opened, calls>>
      <3>1. /\ Append(mf.events, "ready") \in Seq(Events)
            /\ Append(mf.events, "error") \in Seq(Events)
            /\ Append(mf.events, "closed") \in Seq(Events)
        BY <1>e, <1>m
      <3>2. mf.events \o <<"presentationEnded", "topologyEnded", "sessionEnded">> \in Seq(Events)
        <4>1. <<"presentationEnded", "topologyEnded", "sessionEnded">> \in Seq(Events)
          BY DEF Events
        <4> QED
          BY <1>m, <4>1, ConcatProperties
      <3>3. /\ failed' \in {failed, "topology"}
            /\ UNCHANGED <<mstate, session, source, dangling, closeEvent>>
            /\ UNCHANGED <<ready, win, msgs, invoke, abandoned, late, biz, opened, calls>>
        BY <1>12 DEF TopologyResolved, PlaybackEnds, SessionCloses, Fails, player, released
      <3>4. CASE TopologyResolved
        BY <3>1, <3>3, <3>4 DEF TopologyResolved, Topologies
      <3>5. CASE PlaybackEnds
        BY <3>2, <3>3, <3>5 DEF PlaybackEnds, Topologies
      <3>6. CASE SessionCloses
        BY <3>1, <3>3, <3>6 DEF SessionCloses
      <3> QED
        BY <1>12, <3>4, <3>5, <3>6
    <2>2. mf' \in MfType /\ mf'.getting = mf.getting
      <3>1. PICK e \in Seq(Events) :
                \/ \E t \in Topologies : mf' = [mf EXCEPT !.topo = t, !.events = e]
                \/ mf' = [mf EXCEPT !.closing = FALSE, !.topo = "none", !.events = e]
        BY <2>1
      <3>2. ASSUME NEW t \in Topologies, mf' = [mf EXCEPT !.topo = t, !.events = e]
            PROVE  mf' \in MfType /\ mf'.getting = mf.getting
        <4>1. /\ [mf EXCEPT !.topo = t, !.events = e] \in MfType
              /\ [mf EXCEPT !.topo = t, !.events = e].getting = mf.getting
          BY <1>m, MfTopoEvents
        <4> QED
          BY <3>2, <4>1, Zenon
      <3>3. CASE mf' = [mf EXCEPT !.closing = FALSE, !.topo = "none", !.events = e]
        BY <1>m, <3>1, <3>3, MfCloses
      <3> QED
        BY <3>1, <3>2, <3>3
    <2>3. failed' \in Failures \cup {None}
      BY <1>o, <2>1 DEF OthersOK, Failures
    <2>4. OthersOK'
      BY <1>o, <2>1, <2>2, <2>3 DEF OthersOK
    <2> QED
      BY <1>k, <2>1, <2>2, <2>4 DEF WindowKept
  <1>13. CASE \/ \E id \in Ids : AppendItem(id) \/ UpdatePlayList(id)
              \/ SetMediaSourceReady
    <2>1. OthersOK'
      BY <1>13, <1>o DEF AppendItem, UpdatePlayList, SetMediaSourceReady, OthersOK, player,
         released
    <2> QED
      BY <1>13, <1>k, <2>1 DEF AppendItem, UpdatePlayList, SetMediaSourceReady, player, released,
       WindowKept
  <1>14. CASE InvokeFails
    <2>1. /\ mf' = [mf EXCEPT !.events = Tail(mf.events), !.getting = FALSE]
          /\ mf.events # <<>> /\ failed' \in Failures \cup {None}
          /\ UNCHANGED <<player, ready, win, msgs, invoke, abandoned, late, biz, opened, calls>>
      BY <1>14 DEF InvokeFails, Underway, Fails, Failures, released
    <2>2. mf' \in MfType /\ ~mf'.getting
      BY <1>m, <2>1, MfTaken
    <2>3. OthersOK'
      BY <1>o, <2>1, <2>2 DEF OthersOK, player
    <2> QED
      BY <2>1, <2>2, <2>3 DEF SessionState, SessionInv, CloseInv, StaleInv, Harmless, player
  <1>15. ASSUME NEW s \in late, InvokeAbandoned(s)
         PROVE  OthersOK' /\ SessionState'
    <2>1. /\ WindowKept
          /\ late' \subseteq late
          /\ UNCHANGED <<player, ready, msgs, invoke, mf, abandoned, biz, opened, calls, failed>>
      BY <1>15, AtFacts DEF InvokeAbandoned, WindowKept
    <2>2. OthersOK'
      BY <1>o, <2>1 DEF OthersOK, player
    <2> QED
      BY <1>k, <2>1, <2>2 DEF player
  <1> QED
    BY <1>1, <1>2, <1>3, <1>4, <1>5, <1>6, <1>7, <1>8, <1>9, <1>10, <1>11, <1>12, <1>13, <1>14, <1>15
    DEF Next, WindowThread

-----------------------------------------------------------------------------
(* Sessions that were given up.                                            *)

(* The steps that leave the sessions and Invoke alone.                     *)
Quiet ==
    /\ UNCHANGED <<session, invoke, abandoned, opened>>
    /\ msgs' = msgs \/ (msgs # <<>> /\ msgs' = Tail(msgs))

(* The steps that release the session.                                     *)
Releases ==
    /\ session' = None /\ msgs' = <<>>
    /\ UNCHANGED <<invoke, opened>>
    /\ abandoned' = abandoned \/ (session # None /\ Abandon)

LEMMA QuietSteps ==
    ASSUME SessionInv, Next
    PROVE  \/ Quiet \/ Releases \/ SetVideoWindow \/ SetVideoWindowFails
           \/ InvokeTakes \/ InvokePosts
  <1>1. CASE WaitReady \/ TakeFront \/ PutBack \/ Pause \/ Stop \/ Play
    BY <1>1 DEF WaitReady, TakeFront, PutBack, Pause, Stop, Play, Calls, Quiet, player, released
  <1>2. CASE HandleEvent
    <2>1. PICK events : Handling(events)
      BY <1>2 DEF HandleEvent, HandleOther, OnTopologyReady, OnTopologyEnded, HandleEventFails,
         OnPresentationEnded, OnSessionEnded
    <2>2. session' = session
      BY <1>2 DEF HandleEvent, HandleOther, OnTopologyReady, OnTopologyEnded, HandleEventFails,
         OnPresentationEnded, OnSessionEnded, player
    <2> QED
      BY <2>1, <2>2 DEF Handling, Quiet, released
  <1>3. CASE Shutdown
    BY <1>3 DEF Shutdown, CloseSession, Closed, Quiet, Releases, released
  <1>4. CASE CloseTimesOut \/ CloseDone
    BY <1>4 DEF CloseTimesOut, CloseDone, Closed, Releases, SessionInv
  <1>5. CASE InvokeFails \/ TopologyResolved \/ PlaybackEnds \/ SessionCloses \/ SetMediaSourceReady
    BY <1>5 DEF InvokeFails, TopologyResolved, PlaybackEnds, SessionCloses, SetMediaSourceReady,
       Quiet, player, released
  <1>6. CASE \/ \E s \in late : InvokeAbandoned(s)
             \/ \E id \in Ids : AppendItem(id) \/ UpdatePlayList(id)
    BY <1>6 DEF InvokeAbandoned, AppendItem, UpdatePlayList, Quiet, player, released
  <1> QED
    BY <1>1, <1>2, <1>3, <1>4, <1>5, <1>6 DEF Next, WindowThread

LEMMA OnceStep ==
    ASSUME TypeOK, SessionInv, OnceInv, Next
    PROVE  OnceInv'
  <1>t. /\ msgs \in Seq(Messages) /\ Len(msgs) \in Nat
        /\ abandoned \subseteq 1..MaxSessions
        /\ session \in 1..MaxSessions \cup {None}
        /\ opened \in Nat /\ MaxSessions \in Nat
        /\ None \notin Nat
    BY NoneIsNew, LenProperties, TypeParts DEF OthersOK
  <1>1. CASE Quiet
    <2>1. CASE msgs' = msgs
      BY <1>1, <2>1 DEF Quiet, OnceInv
    <2>2. CASE msgs # <<>> /\ msgs' = Tail(msgs)
      <3>1. /\ Len(msgs') = Len(msgs) - 1
            /\ \A k \in 1..Len(msgs') : k + 1 \in 1..Len(msgs) /\ msgs'[k] = msgs[k + 1]
        BY <1>t, <2>2, HeadTailProperties
      <3>2. UNCHANGED <<session, invoke, abandoned, opened>>
        BY <1>1 DEF Quiet
      <3>3. ASSUME NEW j \in 1..Len(msgs'), NEW k \in 1..Len(msgs'),
                   msgs'[j].s \in abandoned, msgs'[k].s = msgs'[j].s
            PROVE  j = k
        <4>1. /\ j + 1 \in 1..Len(msgs) /\ msgs'[j] = msgs[j + 1]
              /\ k + 1 \in 1..Len(msgs) /\ msgs'[k] = msgs[k + 1]
          BY <3>1
        <4>2. j + 1 = k + 1
          BY <3>3, <4>1 DEF OnceInv
        <4> QED
          BY <1>t, <3>1, <4>2
      <3>4. ASSUME invoke # None, invoke.s \in abandoned, NEW k \in 1..Len(msgs')
            PROVE  msgs'[k].s # invoke.s
        BY <3>1, <3>4 DEF OnceInv
      <3> QED
        BY <3>2, <3>3, <3>4 DEF OnceInv
    <2> QED
      BY <1>1, <2>1, <2>2 DEF Quiet
  <1>2. CASE Releases
    <2>1. Len(msgs') = 0 /\ session' = None /\ UNCHANGED <<invoke, opened>>
      BY <1>2, EmptySeq DEF Releases
    <2>2. abandoned' \subseteq 1..MaxSessions /\ \A s \in abandoned' : s <= opened
      BY <1>2, <1>t DEF Releases, Abandon, OnceInv
    <2>3. session' \notin abandoned'
      <3>1. \A s \in abandoned' : s \in Nat
        BY <1>t, <2>2
      <3> QED
        BY <1>t, <2>1, <3>1
    <2> QED
      BY <2>1, <2>2, <2>3 DEF OnceInv
  <1>3. CASE SetVideoWindow
    <2>1. /\ opened' = opened + 1 /\ session' = opened + 1
          /\ UNCHANGED <<msgs, invoke, abandoned>>
      BY <1>3 DEF SetVideoWindow, CreateSession, released
    <2>2. \A s \in abandoned : s <= opened /\ s \in Nat
      BY <1>t DEF OnceInv
    <2>3. session' \notin abandoned' /\ session' <= opened' /\ \A s \in abandoned' : s <= opened'
      BY <1>t, <2>1, <2>2
    <2> QED
      BY <2>1, <2>3 DEF OnceInv
  <1>4. CASE SetVideoWindowFails
    <2>1. opened' = opened + 1 /\ UNCHANGED <<session, msgs, invoke, abandoned>>
      BY <1>4 DEF SetVideoWindowFails, player, released
    <2>2. \A s \in abandoned : s <= opened /\ s \in Nat
      BY <1>t DEF OnceInv
    <2>3. (session # None => session <= opened') /\ \A s \in abandoned : s <= opened'
      BY <1>t, <2>1, <2>2 DEF OnceInv
    <2> QED
      BY <2>1, <2>3 DEF OnceInv
  <1>5. CASE InvokeTakes
    <2>1. invoke'.s = session /\ UNCHANGED <<session, msgs, abandoned, opened>>
      BY <1>5 DEF InvokeTakes, released
    <2> QED
      BY <2>1 DEF OnceInv
  <1>6. CASE InvokePosts
    <2>1. /\ invoke # None /\ invoke' = None /\ msgs' \in {Append(msgs, invoke), msgs}
          /\ UNCHANGED <<session, abandoned, opened>>
      BY <1>6 DEF InvokePosts, player, released
    <2>2. CASE msgs' = msgs
      BY <2>1, <2>2 DEF OnceInv
    <2>3. CASE msgs' = Append(msgs, invoke)
      <3>1. invoke \in Messages
        BY <2>1, TypeParts DEF OthersOK
      <3>2. /\ Len(msgs') = Len(msgs) + 1
            /\ \A k \in 1..Len(msgs) : msgs'[k] = msgs[k]
            /\ msgs'[Len(msgs) + 1] = invoke
        BY <1>t, <2>3, <3>1, AppendProperties
      <3>3. \A k \in 1..Len(msgs') : k \in 1..Len(msgs) \/ k = Len(msgs) + 1
        BY <1>t, <3>2
      <3>4. \A j, k \in 1..Len(msgs') :
               msgs'[j].s \in abandoned /\ msgs'[k].s = msgs'[j].s => j = k
        BY <2>1, <3>2, <3>3 DEF OnceInv
      <3> QED
        BY <2>1, <3>4 DEF OnceInv
    <2> QED
      BY <2>1, <2>2, <2>3
  <1> QED
    BY <1>1, <1>2, <1>3, <1>4, <1>5, <1>6, QuietSteps

-----------------------------------------------------------------------------
(* The theorems.                                                           *)

LEMMA PlayerInvInit == Init => PlayerInv
  <1> SUFFICES ASSUME Init PROVE PlayerInv
    OBVIOUS
  <1>1. /\ win.at = "none" /\ win.n = 0 /\ win.hand = None /\ win \in WinType
    <2>1. 0 \in 0..(MaxItems + MaxTries)
      BY NoneIsNew
    <2> QED
      BY <2>1, AtFacts, AtType DEF Init
  <1>2. playList \in Seq(Items) /\ msgs \in Seq(Messages) /\ Len(playList) = 0 /\ Len(msgs) = 0
    BY EmptySeq DEF Init
  <1>3. mf \in MfType /\ ~mf.getting
    BY NewSessionFacts DEF Init
  <1>4. OthersOK
    <2>1. 0 \in 0..MaxSessions /\ 0 \in 0..MaxCalls
      BY NoneIsNew
    <2>2. /\ mstate \in PlayerState /\ session = None /\ source = None
          /\ dangling \in BOOLEAN /\ closeEvent \in BOOLEAN /\ ready \in BOOLEAN
          /\ invoke = None /\ biz \in BOOLEAN /\ opened = 0 /\ calls = 0 /\ failed = None
          /\ abandoned = {} /\ late = {}
      BY DEF Init, PlayerState
    <2> QED
      BY <1>2, <1>3, <2>1, <2>2 DEF OthersOK
  <1>5. PlayInv
    BY <1>1, <1>2, NoneIsNew DEF PlayInv, InHand
  <1>6. SessionInv /\ CloseInv /\ StaleInv /\ OnceInv
    BY <1>1, <1>2, <1>3 DEF Init, SessionInv, CloseInv, StaleInv, OnceInv
  <1> QED
    BY <1>1, <1>2, <1>4, <1>5, <1>6, TypeParts DEF PlayerInv

LEMMA PlayerInvStep == PlayerInv /\ [Next]_vars => PlayerInv'
  <1> SUFFICES ASSUME PlayerInv, [Next]_vars PROVE PlayerInv'
    OBVIOUS
  <1>1. CASE Next
    <2>1. WindowAndList'
      BY <1>1, WindowStep DEF PlayerInv
    <2>2. OthersOK' /\ SessionState'
      BY <1>1, SessionStep DEF PlayerInv, SessionState
    <2>3. TypeOK'
      BY <2>1, <2>2, TypeParts DEF WindowAndList, TypeOK, OthersOK, Messages
    <2>4. OnceInv'
      BY <1>1, OnceStep DEF PlayerInv
    <2> QED
      BY <2>1, <2>2, <2>3, <2>4 DEF PlayerInv, WindowAndList, SessionState
  <1>2. CASE UNCHANGED vars
    BY <1>2 DEF vars, player, released, PlayerInv, TypeOK, PlayInv, InHand, SessionInv, CloseInv,
       StaleInv, Harmless, OnceInv
  <1> QED
    BY <1>1, <1>2

(* Every variable of the player keeps its type, whatever order its three   *)
(* threads run in: the message loop and the wait never run past the end of *)
(* the play list, which the business thread changes under them.            *)
THEOREM PlayerTypes == Spec => []TypeOK
  <1>1. PlayerInv => TypeOK
    BY DEF PlayerInv
  <1> QED
    BY <1>1, PlayerInvInit, PlayerInvStep, PTL DEF Spec

(* No event of a session that CloseSession has waited for moves the next   *)
(* one: what crosses over is MESessionClosed, which HandleEvent ignores.   *)
(* Of a session that was given up, because Close failed or the wait timed  *)
(* out, one event at most crosses over.                                    *)
THEOREM StaleEventsStayHarmless == Spec => []StaleEventsAreHarmless
  <1>1. PlayerInv => StaleEventsAreHarmless
    BY DEF PlayerInv, StaleInv, Harmless, OnceInv, StaleEventsAreHarmless
  <1> QED
    BY <1>1, PlayerInvInit, PlayerInvStep, PTL DEF Spec
==============================================================================
