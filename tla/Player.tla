------------------------------- MODULE Player --------------------------------
(***************************************************************************)
(* player.cpp: the player of the lock screen of a bar client, as AdManager *)
(* uses it.                                                                *)
(*                                                                         *)
(* The thread of the lock screen's window calls SetVideoWindow and         *)
(* Shutdown (through setVideoWnd and closeVideoWnd, the latter right       *)
(* before it destroys the window, as ReadMe.txt asks) and, in its message  *)
(* loop, HandleEvent for every message that the player has posted.  A      *)
(* thread of Media Foundation runs Invoke, once for each event of the      *)
(* media session.  The business thread appends ads to the play list and    *)
(* fills in their files, without a lock.                                   *)
(*                                                                         *)
(* A session is its number.  One call into Media Foundation may fail, and  *)
(* the wait for the end of a session may time out, at any time.            *)
(***************************************************************************)
EXTENDS Integers, Sequences

CONSTANTS Ids,          \* ids of the ads of the lock screen
          Videos,       \* those that are videos (type 1)
          MaxItems,     \* bound on the length of the play list
          MaxSessions,  \* bound on the calls of setVideoWnd
          MaxTries,     \* 30, the turns of the loop in SetVideoWindow
          MaxCalls,     \* bound on the calls of Play, Pause and Stop
          None          \* NULL

(* What may fail: MFStartup, CreateEvent or the session itself; asking for *)
(* events or taking one; OpenMem; HandleEvent; resolving a topology; and   *)
(* in CloseSession, Close or the wait.                                     *)
Failures == {"startup", "event", "open", "handle", "topology", "close", "timeout"}

ASSUME PlayerAssumption ==
    /\ Videos \subseteq Ids
    /\ MaxItems \in Nat /\ MaxSessions \in Nat /\ MaxTries \in Nat \ {0}
    /\ MaxCalls \in Nat
    /\ None \notin Ids \cup Nat
    /\ None \notin [id : Ids, file : BOOLEAN]
    /\ None \notin Failures

VARIABLES mstate,      \* m_state
          session,     \* m_pSession: number of the session, or None
          source,      \* m_pSource: the ad whose file it plays, or None
          dangling,    \* m_pSource points to a source that was released
          closeEvent,  \* m_hCloseEvent is signalled
          playList,    \* _playList
          ready,       \* the static ready
          win,         \* where the window's thread is, see WinType
          msgs,        \* messages posted to the window and not yet handled
          invoke,      \* the event that Invoke has taken, or None
          mf,          \* the media session itself, see MfType
          abandoned,   \* sessions that were released before they had closed
          late,        \* those of them that may still call Invoke
          biz,         \* the business thread is before SetMediaSourceReady
          opened,      \* number of sessions created so far
          calls,       \* number of calls of Play, Pause and Stop so far
          failed       \* what has failed, or None

player == <<mstate, session, source, dangling, closeEvent>>
released == <<abandoned, late>>
vars   == <<player, playList, ready, win, msgs, invoke, mf, released, biz, opened, calls, failed>>

PlayerState == {"Closed", "Ready", "OpenPending", "Started", "Paused", "Stopped", "Closing"}

(* A PlayItem: its adfile is set or not.                                   *)
Items == [id : Ids, file : BOOLEAN]

(* at: outside, in the wait of SetVideoWindow, in the message loop, in     *)
(* NotifyPlay, or in the wait of CloseSession; n counts the turns left of  *)
(* the loop it is in; hand is the item NotifyPlay has taken out.           *)
WinType == [at : {"none", "wait", "loop", "play", "close", "crashed"},
            n : 0..(MaxItems + MaxTries), hand : Items \cup {None}]

At(place, turns) == [at |-> place, n |-> turns, hand |-> None]

(* The events that HandleEvent has a case for, and the last one.  The      *)
(* others (MESessionStarted and so on) go the same way and change nothing. *)
Events == {"ready", "error", "presentationEnded", "topologyEnded", "sessionEnded", "closed"}

(* topo: what the session does with the topology it was given; events:     *)
(* those it has queued; getting: a BeginGetEvent is outstanding.           *)
MfType == [topo : {"none", "resolving", "set", "running", "paused", "stopped", "over"},
           events : Seq(Events), getting : BOOLEAN, closing : BOOLEAN]

NoSession == [topo |-> "none", events |-> <<>>, getting |-> FALSE, closing |-> FALSE]

(* CreateInstance, in bgnBusiness.                                         *)
Init ==
    /\ mstate = "Closed" /\ session = None /\ source = None
    /\ dangling = FALSE /\ closeEvent = FALSE
    /\ playList = <<>> /\ ready = FALSE
    /\ win = At("none", 0)
    /\ msgs = <<>> /\ invoke = None /\ mf = NoSession /\ abandoned = {} /\ late = {}
    /\ biz = FALSE /\ opened = 0 /\ calls = 0 /\ failed = None

-----------------------------------------------------------------------------
Fails(call) == failed = None /\ failed' = call

(* The window's thread.                                                    *)

(* CreateSession.  CloseSession, which it calls first, finds no session.   *)
(* When the first BeginGetEvent fails, the session is there all the same.  *)
CreateSession ==
    /\ session' = opened'
    /\ \/ /\ mf' = [NoSession EXCEPT !.getting = TRUE]
          /\ mstate' = "Ready"
          /\ UNCHANGED failed
       \/ /\ Fails("event")
          /\ mf' = NoSession
          /\ UNCHANGED mstate

(* SetVideoWindow up to its wait.  It does not look at the result of       *)
(* CreateSession.                                                          *)
SetVideoWindow ==
    /\ win.at = "none" /\ opened < MaxSessions
    /\ opened' = opened + 1
    /\ closeEvent' = FALSE
    /\ CreateSession
    /\ win' = At("wait", MaxTries)
    /\ UNCHANGED <<source, dangling, playList, ready, msgs, invoke, released, biz, calls>>

(* MFStartup or CreateEvent fail, and it returns; or there is no session,  *)
(* which it does not notice.                                               *)
SetVideoWindowFails ==
    /\ win.at = "none" /\ opened < MaxSessions
    /\ opened' = opened + 1
    /\ Fails("startup")
    /\ win' \in {At("loop", 0), At("wait", MaxTries)}
    /\ UNCHANGED <<player, playList, ready, msgs, invoke, mf, released, biz, calls>>

(* NotifyPlay is called: it will look at as many items as there are.       *)
NotifyPlay == win' = IF playList = <<>> THEN At("loop", 0) ELSE At("play", Len(playList))

(* Mutant of WaitReady: the turns are not limited.                         *)
WaitReadyUnlimited ==
    /\ win.at = "wait"
    /\ \/ ready /\ NotifyPlay
       \/ ~ready /\ win' = [win EXCEPT !.n = @ - 1]
    /\ UNCHANGED <<player, playList, ready, msgs, invoke, mf, released>>
    /\ UNCHANGED <<biz, opened, calls, failed>>

(* One turn of the wait for a file.                                        *)
WaitReady ==
    /\ win.at = "wait"
    /\ \/ ready /\ NotifyPlay
       \/ ~ready /\ win.n > 1 /\ win' = [win EXCEPT !.n = @ - 1]
       \/ ~ready /\ win.n = 1 /\ win' = At("loop", 0)
    /\ UNCHANGED <<player, playList, ready, msgs, invoke, mf, released>>
    /\ UNCHANGED <<biz, opened, calls, failed>>

(* NotifyPlay takes the first item out of the list ...                     *)
TakeFront ==
    /\ win.at = "play" /\ win.hand = None
    /\ win' = [win EXCEPT !.hand = Head(playList)]
    /\ playList' = Tail(playList)
    /\ UNCHANGED <<player, ready, msgs, invoke, mf, released, biz, opened, calls, failed>>

Playable(item) == item.id \in Videos /\ item.file

(* OpenMem: a new source is made and its topology set, the old source is   *)
(* shut down and released.  Without a session it crashes at SetTopology.   *)
OpenMem(id) ==
    /\ source' = id
    /\ dangling' = FALSE
    /\ UNCHANGED failed
    /\ \/ /\ session # None
          /\ mstate' = "OpenPending"
          /\ mf' = [mf EXCEPT !.topo = "resolving"]
          /\ win' = At("loop", 0)
       \/ /\ session = None
          /\ win' = At("crashed", 0)
          /\ UNCHANGED <<mstate, mf>>

(* CreateMediaSource fails: m_pSource keeps the old source, which is       *)
(* released all the same.                                                  *)
CreateMediaSourceFails ==
    /\ source' = source
    /\ dangling' = (source # None)
    /\ UNCHANGED mf

(* The new source is there, but it gets no topology.                       *)
CreatePlaybackTopologyFails(id) ==
    /\ source' = id
    /\ dangling' = FALSE
    /\ UNCHANGED mf

(* The topology is set, but the old source cannot be shut down.            *)
ShutdownOfOldSourceFails(id) ==
    /\ source # None /\ session # None
    /\ source' = id
    /\ dangling' = FALSE
    /\ mf' = [mf EXCEPT !.topo = "resolving"]

(* OpenMem fails.  NotifyPlay does not look at its result.                 *)
OpenMemFails(id) ==
    /\ Fails("open")
    /\ mstate' = "Closed"
    /\ win' = At("loop", 0)
    /\ \/ CreateMediaSourceFails
       \/ CreatePlaybackTopologyFails(id)
       \/ ShutdownOfOldSourceFails(id)

Rotated(item) == Append(playList, item)

(* ... appends it, and plays it or goes on to the next one.                *)
PutBack ==
    /\ win.at = "play" /\ win.hand # None
    /\ playList' = Rotated(win.hand)
    /\ \/ Playable(win.hand) /\ (OpenMem(win.hand.id) \/ OpenMemFails(win.hand.id))
       \/ /\ ~Playable(win.hand)
          /\ win' = IF win.n = 1 THEN At("loop", 0) ELSE At("play", win.n - 1)
          /\ UNCHANGED <<mstate, source, dangling, mf, failed>>
    /\ UNCHANGED <<session, closeEvent, ready, msgs, invoke, released, biz, opened, calls>>

(* HandleEvent.  Events that report an error, and the last one, which has  *)
(* no handler, are dropped.                                                *)
Handling(events) ==
    /\ win.at = "loop" /\ msgs # <<>> /\ Head(msgs).event \in events
    /\ msgs' = Tail(msgs)
    /\ UNCHANGED <<playList, ready, invoke, released, biz, opened, calls>>

HandleOther ==
    /\ Handling({"error", "closed"})
    /\ UNCHANGED <<player, win, mf, failed>>

StartPlayback ==
    /\ mf' = [mf EXCEPT !.topo = "running"]
    /\ mstate' = "Started"

(* OnTopologyStatus: the topology is ready, playback is started.           *)
OnTopologyReady ==
    /\ Handling({"ready"})
    /\ StartPlayback
    /\ UNCHANGED <<session, source, dangling, closeEvent, win, failed>>

(* OnTopologyStatus: the topology has ended and is cleared.                *)
OnTopologyEnded ==
    /\ Handling({"topologyEnded"})
    /\ mf' = [mf EXCEPT !.topo = "none"]
    /\ UNCHANGED <<player, win, failed>>

(* The event cannot be read, or what OnTopologyStatus calls fails: nothing *)
(* is done, whatever the event was about.                                  *)
HandleEventFails ==
    /\ Handling(Events)
    /\ Fails("handle")
    /\ UNCHANGED <<player, win, mf>>

OnPresentationEnded ==
    /\ Handling({"presentationEnded"})
    /\ mstate' = "Stopped"
    /\ UNCHANGED <<session, source, dangling, closeEvent, win, mf, failed>>

OnSessionEnded ==
    /\ Handling({"sessionEnded"})
    /\ NotifyPlay
    /\ UNCHANGED <<player, mf, failed>>

(* The application's Pause, Stop and Play; each asks the session to do so. *)
Calls(topo) ==
    /\ win.at = "loop" /\ calls < MaxCalls
    /\ calls' = calls + 1
    /\ mf' = [mf EXCEPT !.topo = topo]
    /\ UNCHANGED <<session, source, dangling, closeEvent>>
    /\ UNCHANGED <<playList, ready, win, msgs, invoke, released, biz, opened, failed>>

Pause ==
    /\ mstate = "Started" /\ session # None /\ source # None
    /\ mstate' = "Paused"
    /\ Calls(IF mf.topo = "running" THEN "paused" ELSE mf.topo)

Stop ==
    /\ mstate \in {"Started", "Paused"} /\ session # None
    /\ mstate' = "Stopped"
    /\ Calls(IF mf.topo \in {"running", "paused"} THEN "stopped" ELSE mf.topo)

(* Mutant of Play: a paused session is not started again.                  *)
PlayStopped ==
    /\ mstate \in {"Paused", "Stopped"} /\ session # None /\ source # None
    /\ mstate' = "Started"
    /\ Calls(IF mf.topo = "stopped" THEN "running" ELSE mf.topo)

Play ==
    /\ mstate \in {"Paused", "Stopped"} /\ session # None /\ source # None
    /\ mstate' = "Started"
    /\ Calls(IF mf.topo \in {"paused", "stopped"} THEN "running" ELSE mf.topo)

(* The end of CloseSession and of Shutdown: the session is released, which *)
(* may still call Invoke (calling).  The window is destroyed after that,   *)
(* with the messages it still has.                                         *)
Closed(calling) ==
    /\ mstate' = "Closed"
    /\ session' = None /\ source' = None /\ dangling' = FALSE
    /\ closeEvent' = FALSE
    /\ mf' = NoSession
    /\ late' = IF calling THEN late \cup {session} ELSE late
    /\ msgs' = <<>>
    /\ win' = At("none", 0)

(* Close failed or the wait for it has timed out, of which the code keeps  *)
(* no record.                                                              *)
Abandon == abandoned' = abandoned \cup {session}

(* An event is on its way to Invoke.  Of a session that is shut down, this *)
(* is the last one.                                                        *)
Underway == mf.getting /\ mf.events # <<>>

(* Mutant of CloseSession: the end of the session is not waited for.       *)
CloseSessionAtOnce == Closed(Underway) /\ UNCHANGED <<abandoned, failed>>

(* CloseSession up to its wait.  There is none without a session, or when  *)
(* Close fails: then the session is not shut down either, and its next     *)
(* event goes to Invoke.                                                   *)
CloseSession ==
    \/ /\ session # None
       /\ mstate' = "Closing"
       /\ mf' = [mf EXCEPT !.closing = TRUE]
       /\ win' = At("close", 0)
       /\ UNCHANGED <<session, source, dangling, closeEvent, released, msgs, failed>>
    \/ session = None /\ Closed(FALSE) /\ UNCHANGED <<abandoned, failed>>
    \/ session # None /\ Closed(mf.getting) /\ Abandon /\ Fails("close")

(* Shutdown, called by closeVideoWnd.                                      *)
Shutdown ==
    /\ win.at = "loop"
    /\ CloseSession
    /\ UNCHANGED <<playList, ready, invoke, biz, opened, calls>>

(* The wait has a limit of five seconds; CloseSession goes on all the same.*)
CloseTimesOut ==
    /\ win.at = "close" /\ ~closeEvent
    /\ failed' = "timeout"
    /\ Closed(Underway) /\ Abandon
    /\ UNCHANGED <<playList, ready, invoke, biz, opened, calls>>

(* CloseSession and Shutdown after the wait.                               *)
CloseDone ==
    /\ win.at = "close" /\ closeEvent
    /\ Closed(Underway)
    /\ UNCHANGED <<playList, ready, invoke, abandoned, biz, opened, calls, failed>>

-----------------------------------------------------------------------------
(* Invoke, on a thread of Media Foundation.                                *)

(* Mutant of GetEvent: no further event is asked for while closing.        *)
GetEventUnlessClosing(event) ==
    /\ closeEvent' = (closeEvent \/ event = "closed")
    /\ mf' = [mf EXCEPT !.events = Tail(@), !.getting = mstate # "Closing"]

(* The last event wakes CloseSession up; after any other, the next one is  *)
(* asked for.                                                              *)
GetEvent(event) ==
    /\ closeEvent' = (closeEvent \/ event = "closed")
    /\ mf' = [mf EXCEPT !.events = Tail(@), !.getting = event # "closed"]

InvokeTakes ==
    /\ invoke = None /\ Underway
    /\ GetEvent(Head(mf.events))
    /\ invoke' = [s |-> session, event |-> Head(mf.events)]
    /\ UNCHANGED <<mstate, session, source, dangling, playList, ready, win, msgs>>
    /\ UNCHANGED <<released, biz, opened, calls, failed>>

(* The event cannot be taken, or the next one cannot be asked for: Invoke  *)
(* returns at once.  Nothing is posted, closeEvent is not signalled, and   *)
(* no event of the session is ever taken again.                            *)
InvokeFails ==
    /\ invoke = None /\ Underway
    /\ Fails("event")
    /\ mf' = [mf EXCEPT !.events = Tail(@), !.getting = FALSE]
    /\ UNCHANGED <<player, playList, ready, win, msgs, invoke, released, biz, opened, calls>>

(* Invoke is called for a session that was released.  It knows m_pSession  *)
(* only: without a session it crashes; another session refuses a result    *)
(* that is not its own, and Invoke returns at once.                        *)
InvokeAbandoned(s) ==
    /\ invoke = None /\ s \in late
    /\ late' = late \ {s}
    /\ win' = IF session = None THEN At("crashed", 0) ELSE win
    /\ UNCHANGED <<player, playList, ready, msgs, invoke, mf, abandoned>>
    /\ UNCHANGED <<biz, opened, calls, failed>>

(* The second half of Invoke looks at m_state when CloseSession may have   *)
(* gone on.  A message for a destroyed window is lost.                     *)
InvokePosts ==
    /\ invoke # None
    /\ invoke' = None
    /\ msgs' = IF mstate # "Closing" /\ win.at # "none" THEN Append(msgs, invoke) ELSE msgs
    /\ UNCHANGED <<player, playList, ready, win, mf, released, biz, opened, calls, failed>>

-----------------------------------------------------------------------------
(* The media session.                                                      *)

TopologyResolved ==
    /\ mf.topo = "resolving"
    /\ \/ /\ mf' = [mf EXCEPT !.topo = "set", !.events = Append(@, "ready")]
          /\ UNCHANGED failed
       \/ /\ Fails("topology")
          /\ mf' = [mf EXCEPT !.topo = "none", !.events = Append(@, "error")]
    /\ UNCHANGED <<player, playList, ready, win, msgs, invoke, released, biz, opened, calls>>

PlaybackEnds ==
    /\ mf.topo = "running"
    /\ mf' = [mf EXCEPT !.topo = "over",
                        !.events = @ \o <<"presentationEnded", "topologyEnded", "sessionEnded">>]
    /\ UNCHANGED <<player, playList, ready, win, msgs, invoke, released>>
    /\ UNCHANGED <<biz, opened, calls, failed>>

(* Close is carried out: whatever was going on is given up.                *)
SessionCloses ==
    /\ mf.closing
    /\ mf' = [mf EXCEPT !.closing = FALSE, !.topo = "none", !.events = Append(@, "closed")]
    /\ UNCHANGED <<player, playList, ready, win, msgs, invoke, released>>
    /\ UNCHANGED <<biz, opened, calls, failed>>

-----------------------------------------------------------------------------
(* The business thread.                                                    *)

(* The ids on the list, the item that NotifyPlay has in its hand included. *)
Listed == {playList[k].id : k \in 1..Len(playList)} \cup
          (IF win.hand = None THEN {} ELSE {win.hand.id})

AppendItem(id) ==
    /\ Len(playList) + (IF win.hand = None THEN 0 ELSE 1) < MaxItems
    /\ playList' = Append(playList, [id |-> id, file |-> FALSE])
    /\ UNCHANGED <<player, ready, win, msgs, invoke, mf, released, biz, opened, calls, failed>>

(* The file of an ad has been downloaded.  An item in NotifyPlay's hand    *)
(* goes without it.                                                        *)
UpdatePlayList(id) ==
    /\ ~biz /\ biz' = TRUE
    /\ id \in Listed
    /\ playList' = [k \in 1..Len(playList) |->
                       IF playList[k].id = id THEN [playList[k] EXCEPT !.file = TRUE]
                                              ELSE playList[k]]
    /\ UNCHANGED <<player, ready, win, msgs, invoke, mf, released, opened, calls, failed>>

SetMediaSourceReady ==
    /\ biz /\ biz' = FALSE
    /\ ready' = TRUE
    /\ UNCHANGED <<player, playList, win, msgs, invoke, mf, released, opened, calls, failed>>

-----------------------------------------------------------------------------
HandleEvent == \/ HandleOther \/ OnTopologyReady \/ OnTopologyEnded \/ HandleEventFails
               \/ OnPresentationEnded \/ OnSessionEnded

WindowThread == SetVideoWindow \/ SetVideoWindowFails \/ WaitReady \/ TakeFront \/ PutBack
                \/ HandleEvent \/ Shutdown \/ CloseTimesOut \/ CloseDone
                \/ Pause \/ Stop \/ Play

Next == \/ WindowThread
        \/ InvokeTakes \/ InvokeFails \/ InvokePosts
        \/ \E s \in late : InvokeAbandoned(s)
        \/ TopologyResolved \/ PlaybackEnds \/ SessionCloses
        \/ \E id \in Ids : AppendItem(id) \/ UpdatePlayList(id)
        \/ SetMediaSourceReady

Spec == Init /\ [][Next]_vars

(* Every thread goes on with what it has begun, and so does the session.   *)
(* Nobody has to open or close the window, or to bring a file, and no wait *)
(* has to time out.                                                        *)
Fairness == /\ WF_vars(WaitReady \/ TakeFront \/ PutBack \/ HandleEvent \/ CloseDone)
            /\ WF_vars(InvokeTakes \/ InvokePosts)
            /\ WF_vars(TopologyResolved) /\ WF_vars(PlaybackEnds) /\ WF_vars(SessionCloses)
            /\ WF_vars(SetMediaSourceReady)

FairSpec == Spec /\ Fairness

-----------------------------------------------------------------------------
TypeOK ==
    /\ mstate \in PlayerState
    /\ session \in 1..MaxSessions \cup {None}
    /\ source \in Ids \cup {None}
    /\ dangling \in BOOLEAN /\ closeEvent \in BOOLEAN
    /\ playList \in Seq(Items)
    /\ ready \in BOOLEAN
    /\ win \in WinType
    /\ msgs \in Seq([s : 1..MaxSessions, event : Events])
    /\ invoke \in [s : 1..MaxSessions, event : Events] \cup {None}
    /\ mf \in MfType
    /\ abandoned \subseteq 1..MaxSessions /\ late \subseteq 1..MaxSessions
    /\ biz \in BOOLEAN
    /\ opened \in 0..MaxSessions
    /\ calls \in 0..MaxCalls
    /\ failed \in Failures \cup {None}

(* An event of a session that was closed may still be posted, to the next  *)
(* window: Invoke looks at m_state after it has woken CloseSession up.  It *)
(* is MESessionClosed, which HandleEvent ignores; an event that would move *)
(* the new session never crosses over.  This is what the wait of           *)
(* CloseSession is for.  Of a session whose Close failed or whose wait     *)
(* timed out any event may cross over, but one at most: the one that       *)
(* Invoke was just handling.  What was given up once lets no event of      *)
(* another session through.                                                *)
StaleEventsAreHarmless ==
    /\ \A k \in 1..Len(msgs) :
          msgs[k].s \notin abandoned \cup {session} => msgs[k].event = "closed"
    /\ \A j, k \in 1..Len(msgs) : msgs[j].s \in abandoned /\ msgs[k].s = msgs[j].s => j = k

(* CloseSession does not live by its time-out: while the window's thread,  *)
(* which would handle the events, is blocked, Invoke drains them up to     *)
(* MESessionClosed and signals the event that is waited for, unless the    *)
(* time is up before that, or Invoke's chain of events has broken off in a *)
(* call that failed.  It does so also after an earlier session was given   *)
(* up, which may still call Invoke in between.                             *)
CloseIsSignalled ==
    (win.at = "close") ~> (closeEvent \/ win.at = "none" \/ failed = "event")

(* Once an ad plays, every ad of the list that has its file gets its turn, *)
(* unless the application leaves it paused or stopped, the window is       *)
(* closed or Media Foundation fails.  Pauses and restarts in between, even *)
(* right when an ad ends, do not break the chain.                          *)
Held == mstate \in {"Paused", "Stopped"} /\ mf.topo \in {"paused", "stopped"}

EveryAdGetsItsTurn ==
    \A id \in Ids :
        (/\ mstate = "Started" /\ win.at = "loop" /\ failed = None
         /\ \E k \in 1..Len(playList) : playList[k].id = id /\ Playable(playList[k]))
        ~> (source = id \/ Held \/ win.at \in {"close", "none"} \/ failed # None)
==============================================================================
