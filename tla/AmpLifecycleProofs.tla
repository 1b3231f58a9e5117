-------------------------- MODULE AmpLifecycleProofs --------------------------
(***************************************************************************)
(* AmpLifecycle implements AmpSession, for every number of priorities,     *)
(* ring size, image size, word width and set of builds; and its watchdogs  *)
(* are always live.                                                        *)
(*                                                                         *)
(* The argument rests on PeerInv.  OFFLINE must mean that CPU3 is off, but *)
(* the driver knows CPU3 only by AFFINITY_INFO, which may lag, and by the  *)
(* frames on p0.  So: OFF is said of a CPU3 that is off or, lagging, still *)
(* boots; once the driver has seen CPU3 alive, OFF is the truth; and a     *)
(* frame on p0 shows a CPU3 that has booted.                               *)
(***************************************************************************)
EXTENDS AmpLifecycle, TLAPS

PeerInv ==
  /\ 0 \in DOMAIN cpu3_to_linux
  /\ affinity = "OFF" => cpu3 = "off" \/ (cpu3 = "booting" /\ build.lag)
  /\ affinity_seen_on /\ affinity = "OFF" => cpu3 = "off"
  /\ cpu3 = "booting" => cpu3_to_linux[0] = <<>>

IInv == PeerInv /\ WatchdogsLive

\* What PeerInv speaks of, WatchdogsLive, and AmpSession.
peerView == <<cpu3_to_linux, affinity, cpu3, build, affinity_seen_on>>
watchView == <<mailmsg_state, timeout_armed, timeout_running, affinity_armed>>
sessionView ==
  <<mailmsg_state, image_written, cpu_on_attempted, open_count, cpu3, build>>

\* An action leaves out what AmpSession sees, or is one of its steps.
Allowed == Session!SessionNext \/ UNCHANGED Session!sessionState

-----------------------------------------------------------------------------
(* Steps that change little *)

\* PeerInv depends on peerView only.
LEMMA PeerStutter ==
  ASSUME PeerInv, UNCHANGED peerView
  PROVE  PeerInv'
  BY Zenon DEF PeerInv, peerView

\* WatchdogsLive depends on watchView only.
LEMMA WatchStutter ==
  ASSUME WatchdogsLive, UNCHANGED watchView
  PROVE  WatchdogsLive'
  BY Zenon DEF WatchdogsLive, watchView, LifecyclePending, Monitored

\* AmpSession does not see a step that leaves sessionView.
LEMMA SessionStutter ==
  ASSUME UNCHANGED sessionView
  PROVE  Allowed
  BY Zenon DEF Allowed, sessionView, Session!sessionState, Power

\* Taking no frame from an empty ring leaves it empty.
LEMMA EmptyDrop == DropFirst(<<>>, 0) = <<>>
  BY DEF DropFirst

\* A refresh of the affinity (r1_amp_refresh_affinity_locked) notices at most
\* that CPU3 is off, and then CPU3 is off.
LEMMA Refresh ==
  ASSUME PeerInv, NEW observed \in Observed, RefreshAffinity(observed),
         UNCHANGED <<image_written, cpu_on_attempted, open_count, cpu3, affinity,
                     cpu3_to_linux, build>>
  PROVE  /\ PeerInv'
         /\ Allowed
         /\ \/ mailmsg_state' = mailmsg_state /\ (timeout_armed => timeout_armed')
            \/ mailmsg_state' = "OFFLINE"
  <1>1. PeerInv'
    BY Zenon DEF PeerInv, RefreshAffinity, Observed
  <1>2. CASE GoesOffline(observed)
    <2>1. affinity = "OFF" /\ affinity_seen_on /\ mailmsg_state \in Monitored
      BY Zenon, <1>2 DEF GoesOffline, Observed
    <2>2. cpu3 = "off" /\ mailmsg_state' = "OFFLINE"
      BY Zenon, <2>1, <1>2 DEF PeerInv, RefreshAffinity
    <2>3. Session!Notice
      BY Zenon, <2>1, <2>2 DEF Session!Notice, Session!Watched, Monitored, Power
    <2> QED BY Zenon, <1>1, <2>2, <2>3 DEF Allowed, Session!SessionNext
  <1>3. CASE ~GoesOffline(observed)
    <2>1. mailmsg_state' = mailmsg_state /\ (timeout_armed => timeout_armed')
      BY Zenon, <1>3 DEF RefreshAffinity
    <2>2. Allowed
      BY Zenon, <2>1, SessionStutter DEF sessionView
    <2> QED BY Zenon, <1>1, <2>1, <2>2
  <1> QED BY Zenon, <1>2, <1>3

\* The same for a handler that refreshes and leaves the works alone.
LEMMA RefreshOnly ==
  ASSUME IInv, NEW observed \in Observed, RefreshAffinity(observed),
         UNCHANGED <<launchVars, open_count, sharedVars, peerVars, timeout_running,
                     affinity_armed, build>>
  PROVE  IInv' /\ Allowed
  <1>1. UNCHANGED <<image_written, cpu_on_attempted, open_count, cpu3, affinity,
                    cpu3_to_linux, build, timeout_running, affinity_armed>>
    BY Zenon DEF launchVars, sharedVars, peerVars
  <1>2. /\ PeerInv' /\ Allowed
        /\ \/ mailmsg_state' = mailmsg_state /\ (timeout_armed => timeout_armed')
           \/ mailmsg_state' = "OFFLINE"
    BY Zenon, <1>1, Refresh DEF IInv
  <1>3. WatchdogsLive'
    BY <1>1, <1>2 DEF IInv, WatchdogsLive, LifecyclePending, Monitored
  <1> QED BY Zenon, <1>2, <1>3 DEF IInv

-----------------------------------------------------------------------------
(* sysfs and users *)

\* Both outcomes of CPU_ON: the rings are empty and CPU3 has not been seen.
LEMMA LaunchSteps ==
  ASSUME IInv, StartCpuOn \/ StartCpuOnFails, UNCHANGED build
  PROVE  IInv' /\ Allowed
  <1>1. affinity = "OFF"
    BY Zenon DEF StartCpuOn, StartCpuOnFails, OpenSession, Observed
  <1>2. /\ ~cpu_on_attempted /\ image_written = ImageSize /\ cpu_on_attempted' = TRUE
        /\ UNCHANGED <<image_written, open_count, timeout_running>>
        /\ affinity_seen_on' = FALSE
        /\ 0 \in DOMAIN cpu3_to_linux' /\ cpu3_to_linux'[0] = <<>>
    BY Zenon, PriorityAssumption DEF StartCpuOn, StartCpuOnFails, OpenSession
  <1>3. CASE StartCpuOn
    <2>1. /\ cpu3 = "off" /\ cpu3' = "booting" /\ mailmsg_state' = "STARTING"
          /\ affinity' = "OFF" => build.lag
          /\ timeout_armed' = TRUE /\ affinity_armed' = TRUE
      BY Zenon, <1>3 DEF StartCpuOn, ArmTimeout
    <2>2. PeerInv'
      BY Zenon, <1>2, <2>1 DEF PeerInv
    <2>3. WatchdogsLive'
      BY Zenon, <2>1 DEF WatchdogsLive
    <2>4. Session!Launch
      BY Zenon, <1>2, <2>1 DEF Session!Launch, Session!SaysOff, Power
    <2> QED BY Zenon, <2>2, <2>3, <2>4 DEF IInv, Allowed, Session!SessionNext
  <1>4. CASE StartCpuOnFails
    <2>1. mailmsg_state' = "UNARMED" /\ UNCHANGED <<cpu3, affinity>>
      BY Zenon, <1>4 DEF StartCpuOnFails
    <2>2. PeerInv'
      BY Zenon, <1>1, <1>2, <2>1 DEF PeerInv, IInv
    <2>3. WatchdogsLive'
      BY Zenon, <2>1 DEF WatchdogsLive, LifecyclePending, Monitored
    <2>4. Session!SaysOff /\ UNCHANGED Power
      BY Zenon, <1>1, <2>1 DEF IInv, PeerInv, Session!SaysOff, Power
    <2>5. Session!Launch
      BY Zenon, <1>2, <2>1, <2>4 DEF Session!Launch
    <2> QED BY Zenon, <2>2, <2>3, <2>5 DEF IInv, Allowed, Session!SessionNext
  <1> QED BY Zenon, <1>3, <1>4

\* rearm forgets what was seen of CPU3.
LEMMA RearmStep ==
  ASSUME IInv, rearm_store, UNCHANGED build
  PROVE  IInv' /\ Allowed
  <1>1. /\ affinity = "OFF" /\ affinity_seen_on' = FALSE
        /\ mailmsg_state' = "UNARMED"
        /\ UNCHANGED <<cpu3_to_linux, cpu3, affinity, open_count>>
        /\ cpu_on_attempted /\ open_count = 0
        /\ image_written' = 0 /\ cpu_on_attempted' = FALSE
    BY Zenon DEF rearm_store, Observed, sharedVars, peerVars
  <1>2. PeerInv'
    BY Zenon, <1>1 DEF PeerInv, IInv
  <1>3. WatchdogsLive'
    BY Zenon, <1>1 DEF WatchdogsLive, LifecyclePending, Monitored
  <1>4. Session!SaysOff /\ UNCHANGED Power
    BY Zenon, <1>1 DEF IInv, PeerInv, Session!SaysOff, Power
  <1>5. Session!Rearm
    BY Zenon, <1>1, <1>4 DEF Session!Rearm
  <1> QED BY Zenon, <1>2, <1>3, <1>5 DEF IInv, Allowed, Session!SessionNext

\* A stop request is sent from ACTIVE with no file open, and has its deadline.
LEMMA StopStep ==
  ASSUME IInv, mailmsg_stop_store, UNCHANGED build
  PROVE  IInv' /\ Allowed
  <1>1. /\ mailmsg_state = "ACTIVE" /\ open_count = 0
        /\ UNCHANGED <<image_written, cpu_on_attempted, open_count, peerView>>
        /\ UNCHANGED <<timeout_running, affinity_armed>>
        /\ \/ UNCHANGED <<mailmsg_state, timeout_armed>>
           \/ mailmsg_state' = "STOPPING" /\ timeout_armed' = TRUE
    BY Zenon DEF mailmsg_stop_store, StopPreflight, ArmTimeout, launchVars, peerVars, peerView
  <1>2. PeerInv'
    BY Zenon, <1>1, PeerStutter DEF IInv
  <1>3. WatchdogsLive'
    BY Zenon, <1>1 DEF IInv, WatchdogsLive, LifecyclePending, Monitored
  <1>4. Allowed
    <2>1. CASE UNCHANGED mailmsg_state
      BY Zenon, <1>1, <2>1, SessionStutter DEF sessionView, peerView
    <2>2. CASE mailmsg_state' = "STOPPING"
      <3>1. Session!RequestStop
        BY Zenon, <1>1, <2>2 DEF Session!RequestStop, peerView, Power
      <3> QED BY Zenon, <3>1 DEF Allowed, Session!SessionNext
    <2> QED BY Zenon, <1>1, <2>1, <2>2
  <1> QED BY Zenon, <1>2, <1>3, <1>4 DEF IInv

\* Every write or read of a sysfs attribute.
LEMMA SysfsSteps ==
  ASSUME IInv, Sysfs, UNCHANGED build
  PROVE  IInv' /\ Allowed
  <1>1. CASE image_write
    <2>1. UNCHANGED <<peerView, watchView>>
      BY Zenon, <1>1 DEF image_write, timeoutVars, sharedVars, peerVars, peerView, watchView
    <2>2. Session!LoadChunk
      BY Zenon, <1>1 DEF image_write, peerVars, Session!LoadChunk, Power
    <2> QED BY Zenon, <2>1, <2>2, PeerStutter, WatchStutter
            DEF IInv, Allowed, Session!SessionNext
  <1>2. CASE StartBusy
    BY Zenon, <1>2, RefreshOnly DEF StartBusy
  <1>3. CASE RearmBusy
    BY Zenon, <1>3, RefreshOnly DEF RearmBusy
  <1>4. CASE affinity_state_show
    BY Zenon, <1>4, RefreshOnly DEF affinity_state_show
  <1>5. CASE mailmsg_response_show
    <2>1. UNCHANGED <<affinity, affinity_seen_on, cpu3, sessionView, watchView>>
      BY Zenon, <1>5 DEF mailmsg_response_show, launchVars, timeoutVars, peerVars, sessionView,
                  watchView
    <2>2. 0 \in DOMAIN cpu3_to_linux' /\ cpu3_to_linux'[0] = <<>>
      BY Zenon, <1>5, PriorityAssumption DEF mailmsg_response_show
    <2>3. PeerInv'
      BY Zenon, <2>1, <2>2 DEF IInv, PeerInv
    <2> QED BY Zenon, <2>1, <2>3, WatchStutter, SessionStutter DEF IInv
  <1> QED BY Zenon, <1>1, <1>2, <1>3, <1>4, <1>5, LaunchSteps, RearmStep, StopStep DEF Sysfs

\* Every use of the device.  A reader takes frames only from p0 rings that hold
\* some, so never while CPU3 boots.
LEMMA UserSteps ==
  ASSUME IInv, User, UNCHANGED build
  PROVE  IInv' /\ Allowed
  <1>1. CASE r1_amp_mailmsg_user_open
    <2>1. UNCHANGED <<peerView, watchView>>
      BY Zenon, <1>1 DEF r1_amp_mailmsg_user_open, timeoutVars, sharedVars, peerVars, peerView,
                  watchView
    <2>2. Session!OpenFile
      BY Zenon, <1>1 DEF r1_amp_mailmsg_user_open, launchVars, peerVars, Session!OpenFile, Power
    <2> QED BY Zenon, <2>1, <2>2, PeerStutter, WatchStutter
            DEF IInv, Allowed, Session!SessionNext
  <1>2. CASE r1_amp_mailmsg_user_release
    <2>1. UNCHANGED <<peerView, watchView>>
      BY Zenon, <1>2 DEF r1_amp_mailmsg_user_release, timeoutVars, sharedVars, peerVars,
                  peerView, watchView
    <2>2. Session!CloseFile
      BY Zenon, <1>2 DEF r1_amp_mailmsg_user_release, launchVars, peerVars, Session!CloseFile,
                  Power
    <2> QED BY Zenon, <2>1, <2>2, PeerStutter, WatchStutter
            DEF IInv, Allowed, Session!SessionNext
  <1>3. ASSUME NEW p \in build.used, mailmsg_receive(p)
        PROVE  IInv' /\ Allowed
    <2>1. UNCHANGED <<affinity, affinity_seen_on, cpu3, sessionView, watchView>>
      BY Zenon, <1>3 DEF mailmsg_receive, launchVars, timeoutVars, peerVars, sessionView,
                  watchView
    <2>2. /\ 0 \in DOMAIN cpu3_to_linux'
          /\ cpu3_to_linux[0] = <<>> => cpu3_to_linux'[0] = <<>>
      BY Zenon, <1>3 DEF mailmsg_receive, IInv, PeerInv
    <2>3. PeerInv'
      BY Zenon, <2>1, <2>2 DEF IInv, PeerInv
    <2> QED BY Zenon, <2>1, <2>3, WatchStutter, SessionStutter DEF IInv
  <1>4. ASSUME NEW p \in build.used, NEW doorbell \in BOOLEAN, mailmsg_send(p, doorbell)
        PROVE  IInv' /\ Allowed
    <2>1. UNCHANGED <<peerView, sessionView, watchView>>
      BY Zenon, <1>4 DEF mailmsg_send, launchVars, timeoutVars, peerVars, peerView, sessionView,
                  watchView
    <2> QED BY Zenon, <2>1, PeerStutter, WatchStutter, SessionStutter DEF IInv
  <1> QED BY Zenon, <1>1, <1>2, <1>3, <1>4 DEF User

-----------------------------------------------------------------------------
(* Callback, works and time *)

\* SetTimeout is the expiry of a phase.
LEMMA Expiry ==
  ASSUME SetTimeout,
         UNCHANGED <<image_written, cpu_on_attempted, open_count, cpu3, build>>
  PROVE  /\ Allowed
         /\ mailmsg_state \in Monitored /\ mailmsg_state' \in Monitored
         /\ mailmsg_state' \notin LifecyclePending
  <1>1. /\ mailmsg_state \in Monitored /\ mailmsg_state' \in Monitored
        /\ mailmsg_state' \notin LifecyclePending
    BY Zenon DEF SetTimeout, Monitored, LifecyclePending
  <1>2. Session!Expire
    BY Zenon DEF SetTimeout, Session!Expire, Power
  <1> QED BY Zenon, <1>1, <1>2 DEF Allowed, Session!SessionNext

\* What a run of the control work leaves: of an empty p0 it takes nothing.
LEMMA ControlLeaves ==
  ASSUME PeerInv, NEW n, ControlRun(n), cpu3_to_linux[0] = <<>> => n = 0
  PROVE  /\ 0 \in DOMAIN cpu3_to_linux'
         /\ cpu3_to_linux[0] = <<>> => cpu3_to_linux'[0] = <<>>
         /\ UNCHANGED <<image_written, cpu_on_attempted, open_count, cpu3, affinity,
                        timeout_running, affinity_armed>>
  <1>1. /\ cpu3_to_linux' = [cpu3_to_linux EXCEPT ![0] = DropFirst(@, n)]
        /\ UNCHANGED <<image_written, cpu_on_attempted, open_count, cpu3, affinity,
                       timeout_running, affinity_armed>>
    BY Zenon DEF ControlRun, launchVars, peerVars
  <1>2. /\ 0 \in DOMAIN cpu3_to_linux'
        /\ cpu3_to_linux'[0] = DropFirst(cpu3_to_linux[0], n)
    BY Zenon, <1>1 DEF PeerInv
  <1> QED BY Zenon, <1>1, <1>2, EmptyDrop

\* The control work opens the data plane on a frame of p0, which only a CPU3
\* that has booted can have put there.
LEMMA ControlSteps ==
  ASSUME IInv, r1_amp_mailmsg_control_work, UNCHANGED build
  PROVE  IInv' /\ Allowed
  <1>1. CASE ControlNothing
    <2> DEFINE n == IF mailmsg_state \in LifecyclePending
                    THEN Len(cpu3_to_linux[0]) ELSE 0
    <2>1. /\ ControlRun(n)
          /\ UNCHANGED <<mailmsg_state, affinity_seen_on, timeout_armed>>
      BY Zenon, <1>1 DEF ControlNothing
    <2>2. cpu3_to_linux[0] = <<>> => n = 0
      BY Zenon
    <2>3. /\ 0 \in DOMAIN cpu3_to_linux'
          /\ cpu3_to_linux[0] = <<>> => cpu3_to_linux'[0] = <<>>
          /\ UNCHANGED <<image_written, cpu_on_attempted, open_count, cpu3, affinity,
                         timeout_running, affinity_armed>>
      BY Zenon, <2>1, <2>2, ControlLeaves DEF IInv
    <2>4. PeerInv'
      BY Zenon, <2>1, <2>3 DEF IInv, PeerInv
    <2>5. UNCHANGED <<sessionView, watchView>>
      BY Zenon, <2>1, <2>3 DEF sessionView, watchView
    <2> QED BY Zenon, <2>4, <2>5, WatchStutter, SessionStutter DEF IInv
  <1>2. ASSUME NEW n \in 0 .. RingCapacity, ControlTimeout(n)
        PROVE  IInv' /\ Allowed
    <2>1. /\ ControlRun(n) /\ SetTimeout /\ UNCHANGED affinity_seen_on
          /\ n <= Len(cpu3_to_linux[0])
      BY Zenon, <1>2 DEF ControlTimeout
    <2>2. cpu3_to_linux[0] = <<>> => n = 0
      BY <2>1, BoundsAssumption
    <2>3. /\ 0 \in DOMAIN cpu3_to_linux'
          /\ cpu3_to_linux[0] = <<>> => cpu3_to_linux'[0] = <<>>
          /\ UNCHANGED <<image_written, cpu_on_attempted, open_count, cpu3, affinity,
                         timeout_running, affinity_armed>>
      BY Zenon, <2>1, <2>2, ControlLeaves DEF IInv
    <2>4. PeerInv'
      BY Zenon, <2>1, <2>3 DEF IInv, PeerInv
    <2>5. /\ Allowed /\ mailmsg_state \in Monitored
          /\ mailmsg_state' \notin LifecyclePending
      BY Zenon, <2>1, <2>3, Expiry
    <2>6. WatchdogsLive'
      BY Zenon, <2>3, <2>5 DEF IInv, WatchdogsLive
    <2> QED BY Zenon, <2>4, <2>5, <2>6 DEF IInv
  <1>3. ASSUME NEW n \in 0 .. RingCapacity, ControlSessionReady(n)
        PROVE  IInv' /\ Allowed
    <2>1. /\ ControlRun(n) /\ FirstDecisive(n)
          /\ mailmsg_state = "STARTING" /\ mailmsg_state' = "ACTIVE"
      BY Zenon, <1>3 DEF ControlSessionReady
    <2>2. cpu3_to_linux[0] # <<>>
      BY <2>1 DEF FirstDecisive
    <2>3. /\ 0 \in DOMAIN cpu3_to_linux'
          /\ UNCHANGED <<image_written, cpu_on_attempted, open_count, cpu3, affinity,
                         timeout_running, affinity_armed>>
      BY Zenon, <2>1, <2>2, ControlLeaves DEF IInv
    <2>4. cpu3 # "booting" /\ PeerInv'
      BY Zenon, <2>2, <2>3 DEF IInv, PeerInv
    <2>5. WatchdogsLive'
      BY Zenon, <2>1, <2>3 DEF IInv, WatchdogsLive, LifecyclePending, Monitored
    <2>6. Session!Ready
      BY Zenon, <2>1, <2>3, <2>4 DEF Session!Ready, Power
    <2> QED BY Zenon, <2>4, <2>5, <2>6 DEF IInv, Allowed, Session!SessionNext
  <1>4. ASSUME NEW n \in 0 .. RingCapacity, ControlStopReply(n)
        PROVE  IInv' /\ Allowed
    <2>1. /\ ControlRun(n) /\ FirstDecisive(n) /\ UNCHANGED affinity_seen_on
          /\ mailmsg_state = "STOPPING"
          /\ \/ UNCHANGED mailmsg_state /\ timeout_armed' = TRUE
             \/ mailmsg_state' = "ACTIVE"
      BY Zenon, <1>4 DEF ControlStopReply, ArmTimeout
    <2>2. cpu3_to_linux[0] # <<>>
      BY <2>1 DEF FirstDecisive
    <2>3. /\ 0 \in DOMAIN cpu3_to_linux'
          /\ UNCHANGED <<image_written, cpu_on_attempted, open_count, cpu3, affinity,
                         timeout_running, affinity_armed>>
      BY Zenon, <2>1, <2>2, ControlLeaves DEF IInv
    <2>4. PeerInv'
      BY Zenon, <2>1, <2>2, <2>3 DEF IInv, PeerInv
    <2>5. WatchdogsLive'
      BY Zenon, <2>1, <2>3 DEF IInv, WatchdogsLive, LifecyclePending, Monitored
    <2>6. CASE UNCHANGED mailmsg_state
      BY Zenon, <2>3, <2>4, <2>5, <2>6, SessionStutter DEF IInv, sessionView
    <2>7. CASE mailmsg_state' = "ACTIVE"
      <3>1. Session!RefuseStop
        BY Zenon, <2>1, <2>3, <2>7 DEF Session!RefuseStop, Power
      <3> QED BY Zenon, <2>4, <2>5, <3>1 DEF IInv, Allowed, Session!SessionNext
    <2> QED BY Zenon, <2>1, <2>6, <2>7
  <1> QED BY Zenon, <1>1, <1>2, <1>3, <1>4 DEF r1_amp_mailmsg_control_work

\* The timeout work: stale, rearmed, or the end of a phase.
LEMMA TimeoutSteps ==
  ASSUME IInv, r1_amp_mailmsg_lifecycle_timeout_work, UNCHANGED build
  PROVE  IInv' /\ Allowed
  <1>1. UNCHANGED <<image_written, cpu_on_attempted, open_count, cpu3, affinity,
                    cpu3_to_linux, affinity_armed>>
    BY Zenon DEF r1_amp_mailmsg_lifecycle_timeout_work, launchVars, peerVars, sharedVars
  <1>2. CASE /\ mailmsg_state \notin LifecyclePending
             /\ UNCHANGED <<mailmsg_state, affinity_seen_on>>
    <2>1. UNCHANGED <<peerView, sessionView>>
      BY Zenon, <1>1, <1>2 DEF peerView, sessionView
    <2>2. WatchdogsLive'
      BY Zenon, <1>1, <1>2 DEF IInv, WatchdogsLive
    <2> QED BY Zenon, <2>1, <2>2, PeerStutter, SessionStutter DEF IInv
  <1>3. CASE UNCHANGED <<mailmsg_state, affinity_seen_on>> /\ timeout_armed' = TRUE
    <2>1. UNCHANGED <<peerView, sessionView>>
      BY Zenon, <1>1, <1>3 DEF peerView, sessionView
    <2>2. WatchdogsLive'
      BY Zenon, <1>1, <1>3 DEF IInv, WatchdogsLive
    <2> QED BY Zenon, <2>1, <2>2, PeerStutter, SessionStutter DEF IInv
  <1>4. ASSUME NEW observed \in Observed, GoesOffline(observed),
               RefreshAffinity(observed)
        PROVE  IInv' /\ Allowed
    <2>1. PeerInv' /\ Allowed
      BY Zenon, <1>1, <1>4, Refresh DEF IInv
    <2>2. mailmsg_state' = "OFFLINE"
      BY Zenon, <1>4 DEF RefreshAffinity
    <2>3. WatchdogsLive'
      BY Zenon, <2>2 DEF WatchdogsLive, LifecyclePending, Monitored
    <2> QED BY Zenon, <2>1, <2>3 DEF IInv
  <1>5. ASSUME SetTimeout,
               affinity_seen_on' => affinity_seen_on \/ affinity # "OFF"
        PROVE  IInv' /\ Allowed
    <2>1. PeerInv'
      BY Zenon, <1>1, <1>5 DEF IInv, PeerInv
    <2>2. /\ Allowed /\ mailmsg_state \in Monitored
          /\ mailmsg_state' \notin LifecyclePending
      BY Zenon, <1>1, <1>5, Expiry
    <2>3. WatchdogsLive'
      BY Zenon, <1>1, <2>2 DEF IInv, WatchdogsLive
    <2> QED BY Zenon, <2>1, <2>2, <2>3 DEF IInv
  <1>6. ASSUME NEW observed \in Observed, SetTimeout,
               affinity_seen_on' =
                 (affinity_seen_on \/ observed \in {"ON", "ON_PENDING"})
        PROVE  IInv' /\ Allowed
    BY Zenon, <1>5, <1>6 DEF Observed
  <1>7. CASE SetTimeout /\ UNCHANGED affinity_seen_on
    BY Zenon, <1>5, <1>7
  <1> QED BY Zenon, <1>2, <1>3, <1>4, <1>6, <1>7 DEF r1_amp_mailmsg_lifecycle_timeout_work

\* Every work, timer and callback.
LEMMA WorksSteps ==
  ASSUME IInv, Works, UNCHANGED build
  PROVE  IInv' /\ Allowed
  <1>1. CASE r1_amp_affinity_work
    <2>1. UNCHANGED <<image_written, cpu_on_attempted, open_count, cpu3, affinity,
                      cpu3_to_linux, timeout_running>>
      BY Zenon, <1>1 DEF r1_amp_affinity_work, launchVars, peerVars, sharedVars
    <2>2. CASE /\ mailmsg_state \notin Monitored
               /\ UNCHANGED <<mailmsg_state, affinity_seen_on, timeout_armed>>
      <3>1. UNCHANGED <<peerView, sessionView>>
        BY Zenon, <2>1, <2>2 DEF peerView, sessionView
      <3>2. WatchdogsLive'
        BY Zenon, <2>2 DEF WatchdogsLive, Monitored, LifecyclePending
      <3> QED BY Zenon, <3>1, <3>2, PeerStutter, SessionStutter DEF IInv
    <2>3. ASSUME NEW observed \in Observed, RefreshAffinity(observed),
                 affinity_armed' = (mailmsg_state' \in Monitored)
          PROVE  IInv' /\ Allowed
      <3>1. /\ PeerInv' /\ Allowed
            /\ \/ mailmsg_state' = mailmsg_state /\ (timeout_armed => timeout_armed')
               \/ mailmsg_state' = "OFFLINE"
        BY Zenon, <2>1, <2>3, Refresh DEF IInv
      <3>2. WatchdogsLive'
        BY Zenon, <2>1, <2>3, <3>1 DEF IInv, WatchdogsLive, LifecyclePending
      <3> QED BY Zenon, <3>1, <3>2 DEF IInv
    <2> QED BY Zenon, <1>1, <2>2, <2>3 DEF r1_amp_affinity_work
  <1>2. CASE TimeoutFires
    <2>1. UNCHANGED <<peerView, sessionView>> /\ timeout_running' = TRUE
          /\ UNCHANGED affinity_armed
      BY Zenon, <1>2 DEF TimeoutFires, launchVars, sharedVars, peerVars, peerView, sessionView
    <2>2. WatchdogsLive'
      BY Zenon, <2>1 DEF IInv, WatchdogsLive, sessionView
    <2> QED BY Zenon, <2>1, <2>2, PeerStutter, SessionStutter DEF IInv
  <1>3. CASE DeadlinePasses
    <2>1. UNCHANGED <<peerView, sessionView, watchView>>
      BY Zenon, <1>3 DEF DeadlinePasses, launchVars, sharedVars, peerVars, peerView, sessionView,
                  watchView
    <2> QED BY Zenon, <2>1, PeerStutter, WatchStutter, SessionStutter DEF IInv
  <1>4. ASSUME NEW p \in Priority, r1_amp_mbox_rx_callback(p)
        PROVE  IInv' /\ Allowed
    <2>1. UNCHANGED <<peerView, sessionView, watchView>>
      BY Zenon, <1>4 DEF r1_amp_mbox_rx_callback, launchVars, timeoutVars, peerVars, peerView,
                  sessionView, watchView
    <2> QED BY Zenon, <2>1, PeerStutter, WatchStutter, SessionStutter DEF IInv
  <1> QED BY Zenon, <1>1, <1>2, <1>3, <1>4, ControlSteps, TimeoutSteps DEF Works

-----------------------------------------------------------------------------
(* CPU3 *)

\* A running CPU3 that stays on keeps both promises, whatever it sends.
LEMMA RunningSteps ==
  ASSUME IInv, UNCHANGED <<linuxVars, affinity, build>>,
         cpu3 \notin {"off", "booting"}, cpu3' \notin {"off", "booting"},
         0 \in DOMAIN cpu3_to_linux'
  PROVE  IInv' /\ Allowed
  <1>1. UNCHANGED <<watchView, affinity_seen_on>>
    BY Zenon DEF linuxVars, timeoutVars, watchView
  <1>2. PeerInv'
    BY Zenon, <1>1 DEF IInv, PeerInv
  <1>3. UNCHANGED Power
    BY Zenon DEF Power
  <1>4. Allowed
    BY Zenon, <1>3 DEF Allowed, Session!sessionState, linuxVars, launchVars
  <1> QED BY Zenon, <1>1, <1>2, <1>4, WatchStutter DEF IInv

\* Every step of CPU3.
LEMMA Cpu3Steps ==
  ASSUME IInv, Cpu3, UNCHANGED build
  PROVE  IInv' /\ Allowed
  <1>1. CASE Cpu3Boot
    <2>1. /\ cpu3 = "booting" /\ cpu3' = "bound" /\ affinity' = "ON"
          /\ UNCHANGED <<linuxVars, cpu3_to_linux>>
      BY Zenon, <1>1 DEF Cpu3Boot, sharedVars
    <2>2. PeerInv'
      BY Zenon, <2>1 DEF IInv, PeerInv
    <2>3. UNCHANGED watchView
      BY Zenon, <2>1 DEF linuxVars, timeoutVars, watchView
    <2>4. Session!PowerUp
      BY Zenon, <2>1 DEF Session!PowerUp, Power, linuxVars, launchVars
    <2> QED BY Zenon, <2>2, <2>3, <2>4, WatchStutter DEF IInv, Allowed, Session!SessionNext
  <1>2. CASE mailmsg_service_session_ready
    <2>1. /\ UNCHANGED <<linuxVars, affinity>>
          /\ cpu3 \notin {"off", "booting"} /\ cpu3' \notin {"off", "booting"}
      BY Zenon, <1>2 DEF mailmsg_service_session_ready
    <2>2. 0 \in DOMAIN cpu3_to_linux'
      BY Zenon, <1>2 DEF mailmsg_service_session_ready, sharedVars, IInv, PeerInv
    <2> QED BY Zenon, <2>1, <2>2, RunningSteps
  <1>3. CASE ServeUnpublished
    BY Zenon, <1>3, RunningSteps DEF ServeUnpublished, sharedVars, IInv, PeerInv
  <1>4. ASSUME NEW p, NEW replies, NEW next \in {"running", "stopping"},
               ServeFrame(p, replies, next)
        PROVE  IInv' /\ Allowed
    <2>1. /\ UNCHANGED <<linuxVars, affinity>>
          /\ cpu3 \notin {"off", "booting"} /\ cpu3' \notin {"off", "booting"}
      BY Zenon, <1>4 DEF ServeFrame
    <2>2. 0 \in DOMAIN cpu3_to_linux'
      BY Zenon, <1>4 DEF ServeFrame, IInv, PeerInv
    <2> QED BY Zenon, <2>1, <2>2, RunningSteps
  <1>5. CASE ServeStop
    BY Zenon, <1>4, <1>5 DEF ServeStop
  <1>6. CASE Cpu3Quiesce
    BY Zenon, <1>6, RunningSteps DEF Cpu3Quiesce, IInv, PeerInv
  <1>7. CASE mailmsg_arch_cpu_off
    <2>1. cpu3 = "quiesced" /\ UNCHANGED <<linuxVars, cpu3_to_linux>>
      BY Zenon, <1>7 DEF mailmsg_arch_cpu_off, sharedVars
    <2>2. CASE cpu3' = "off"
      <3>1. PeerInv'
        BY Zenon, <2>1, <2>2 DEF IInv, PeerInv
      <3>2. UNCHANGED watchView
        BY Zenon, <2>1 DEF linuxVars, timeoutVars, watchView
      <3>3. Session!PowerDown
        BY Zenon, <2>1, <2>2 DEF Session!PowerDown, Power, linuxVars, launchVars
      <3> QED BY Zenon, <3>1, <3>2, <3>3, WatchStutter DEF IInv, Allowed, Session!SessionNext
    <2>3. CASE cpu3' = "halted" /\ UNCHANGED affinity
      BY Zenon, <2>1, <2>3, RunningSteps DEF IInv, PeerInv
    <2> QED BY Zenon, <1>7, <2>2, <2>3 DEF mailmsg_arch_cpu_off
  <1>8. ASSUME NEW p \in Priority, mailmsg_mailbox_a2b_matrix_isr(p)
        PROVE  IInv' /\ Allowed
    BY Zenon, <1>8, RunningSteps DEF mailmsg_mailbox_a2b_matrix_isr, IInv, PeerInv
  <1>9. ASSUME NEW p \in Priority, ServeNothing(p)
        PROVE  IInv' /\ Allowed
    BY Zenon, <1>9, RunningSteps DEF ServeNothing, sharedVars, IInv, PeerInv
  <1>10. ASSUME NEW p \in Priority, ServeBusiness(p)
         PROVE  IInv' /\ Allowed
    BY Zenon, <1>4, <1>10 DEF ServeBusiness
  <1> QED BY Zenon, <1>1, <1>2, <1>3, <1>5, <1>6, <1>7, <1>8, <1>9, <1>10 DEF Cpu3

-----------------------------------------------------------------------------
(* Theorems *)

\* The invariant holds at first, and the first state is AmpSession's.
LEMMA InitInv ==
  ASSUME Init
  PROVE  IInv /\ Session!SessionInit
  <1>1. PeerInv
    BY Zenon, PriorityAssumption DEF Init, PeerInv
  <1>2. WatchdogsLive
    BY Zenon DEF Init, WatchdogsLive, LifecyclePending, Monitored
  <1>3. build.lag \in BOOLEAN
    BY Zenon, BuildAssumption DEF Init, Build
  <1>4. Session!SessionInit
    BY Zenon, <1>3 DEF Init, Session!SessionInit, Power
  <1> QED BY Zenon, <1>1, <1>2, <1>4 DEF IInv

\* A step preserves it, and is a step of AmpSession or invisible there.
LEMMA StepInv ==
  ASSUME IInv, [Next]_vars
  PROVE  IInv' /\ Allowed
  <1>1. CASE Next
    BY Zenon, <1>1, SysfsSteps, UserSteps, WorksSteps, Cpu3Steps DEF Next
  <1>2. CASE UNCHANGED vars
    <2>1. UNCHANGED <<peerView, sessionView, watchView>>
      BY Zenon, <1>2 DEF vars, systemVars, launchVars, timeoutVars, sharedVars, peerVars,
                  peerView, sessionView, watchView
    <2> QED BY Zenon, <2>1, PeerStutter, WatchStutter, SessionStutter DEF IInv
  <1> QED BY Zenon, <1>1, <1>2

\* The driver's handlers, works and timers, with CPU3 and the mailbox taking
\* their steps at any time between them, implement AmpSession.
THEOREM LifecycleImplementsSession == Spec => ImplementsSession
  <1>1. Init => IInv /\ Session!SessionInit
    BY Zenon, InitInv
  <1>2. IInv /\ [Next]_vars => IInv' /\ [Session!SessionNext]_(Session!sessionState)
    BY Zenon, StepInv DEF Allowed
  <1> QED BY <1>1, <1>2, PTL DEF Spec, ImplementsSession, Session!SessionSpec

\* A phase with a deadline always has a timeout work that is armed or about to
\* run, and a session that can go offline its affinity monitor, in whatever
\* order works are armed, fired, cancelled and run.
THEOREM LifecycleWatched == Spec => []WatchdogsLive
  <1>1. Init => IInv
    BY Zenon, InitInv
  <1>2. IInv /\ [Next]_vars => IInv'
    BY Zenon, StepInv
  <1>3. IInv => WatchdogsLive
    BY Zenon DEF IInv
  <1> QED BY <1>1, <1>2, <1>3, PTL DEF Spec

-----------------------------------------------------------------------------
(* What the driver inherits from AmpSession *)

\* AmpSession's inductive invariant, of the driver's own state.
KeptInv ==
  /\ Session!SessionTypeOK
  /\ mailmsg_state # "UNARMED" => cpu_on_attempted
  /\ ~build.lag /\ ~cpu_on_attempted => Power = "off"
  /\ Session!OfflineMeansOff /\ Session!OpenFilesOnlyWhileUsable

LEMMA KeptAtStart == Session!SessionInit => KeptInv
  <1> SUFFICES ASSUME Session!SessionInit PROVE KeptInv
    BY Zenon
  <1>1. image_written \in 0 .. ImageSize /\ open_count \in 0 .. MaxOpen /\ ~(open_count > 0)
    BY BoundsAssumption DEF Session!SessionInit
  <1> QED BY Zenon, <1>1 DEF Session!SessionInit, KeptInv, Session!SessionTypeOK,
            Session!Phase, Session!OfflineMeansOff, Session!OpenFilesOnlyWhileUsable

\* The count of open files under open and release, the image under a load.
LEMMA KeptCounts ==
  ASSUME KeptInv
  PROVE  /\ image_written < ImageSize => image_written + 1 \in 0 .. ImageSize
         /\ open_count < MaxOpen => open_count + 1 \in 0 .. MaxOpen
         /\ open_count > 0 => open_count - 1 \in 0 .. MaxOpen
         /\ open_count - 1 > 0 => open_count > 0
         /\ 0 \in 0 .. ImageSize /\ ~(0 > 0)
  <1>1. image_written \in 0 .. ImageSize /\ open_count \in 0 .. MaxOpen
    BY Zenon DEF KeptInv, Session!SessionTypeOK
  <1> QED BY <1>1, BoundsAssumption

LEMMA KeptStep ==
  ASSUME KeptInv, Allowed
  PROVE  KeptInv'
  <1> USE DEF KeptInv, Session!SessionTypeOK, Session!Phase, Session!OfflineMeansOff,
          Session!OpenFilesOnlyWhileUsable
  <1>0. /\ image_written < ImageSize => image_written + 1 \in 0 .. ImageSize
        /\ open_count < MaxOpen => open_count + 1 \in 0 .. MaxOpen
        /\ open_count > 0 => open_count - 1 \in 0 .. MaxOpen
        /\ open_count - 1 > 0 => open_count > 0
        /\ 0 \in 0 .. ImageSize /\ ~(0 > 0)
    BY Zenon, KeptCounts
  <1>1. CASE Session!LoadChunk
    BY Zenon, <1>0, <1>1 DEF Session!LoadChunk
  <1>2. CASE Session!Launch
    BY Zenon, <1>2 DEF Session!Launch
  <1>3. CASE Session!Ready \/ Session!Expire \/ Session!RefuseStop
    BY Zenon, <1>3 DEF Session!Ready, Session!Expire, Session!RefuseStop
  <1>4. CASE Session!RequestStop
    BY Zenon, <1>0, <1>4 DEF Session!RequestStop
  <1>5. CASE Session!Notice
    BY Zenon, <1>5 DEF Session!Notice, Session!Watched
  <1>6. CASE Session!Rearm
    BY Zenon, <1>0, <1>6 DEF Session!Rearm, Session!SaysOff
  <1>7. CASE Session!OpenFile \/ Session!CloseFile
    BY Zenon, <1>0, <1>7 DEF Session!OpenFile, Session!CloseFile
  <1>8. CASE Session!PowerUp \/ Session!PowerDown
    BY Zenon, <1>8 DEF Session!PowerUp, Session!PowerDown
  <1>9. CASE UNCHANGED Session!sessionState
    BY Zenon, <1>9 DEF Session!sessionState
  <1> QED BY Zenon, <1>1, <1>2, <1>3, <1>4, <1>5, <1>6, <1>7, <1>8, <1>9
            DEF Allowed, Session!SessionNext

\* The driver itself never reports OFFLINE of a CPU3 that is on or starting,
\* and a device file is open only while the session is ACTIVE or OFFLINE,
\* however its works, timers and sysfs calls interleave with CPU3.
THEOREM LifecycleOffline ==
  Spec => [](Session!OfflineMeansOff /\ Session!OpenFilesOnlyWhileUsable)
  <1>1. Init => IInv /\ KeptInv
    BY Zenon, InitInv, KeptAtStart
  <1>2. IInv /\ KeptInv /\ [Next]_vars => IInv' /\ KeptInv'
    BY Zenon, StepInv, KeptStep
  <1>3. KeptInv => Session!OfflineMeansOff /\ Session!OpenFilesOnlyWhileUsable
    BY Zenon DEF KeptInv
  <1> QED BY <1>1, <1>2, <1>3, PTL DEF Spec

\* After START_TIMEOUT or STOP_TIMEOUT the driver changes mailmsg_state only to
\* OFFLINE, on an OFF it has observed, or to UNARMED, by a rearm: a
\* SESSION_READY or STOP_READY that comes late changes nothing.
THEOREM LifecycleTimeouts == Spec => Session!TimeoutIsTerminal
  <1>1. Init => IInv /\ KeptInv
    BY Zenon, InitInv, KeptAtStart
  <1>2. IInv /\ KeptInv /\ [Next]_vars =>
          IInv' /\ KeptInv' /\ [Session!SessionNext]_(Session!sessionState)
    BY Zenon, StepInv, KeptStep DEF Allowed
  <1>3. ASSUME [Session!SessionNext]_(Session!sessionState),
               mailmsg_state \in {"START_TIMEOUT", "STOP_TIMEOUT"}, KeptInv
        PROVE  mailmsg_state' \in {mailmsg_state, "OFFLINE", "UNARMED"}
    BY Zenon, <1>3 DEF Session!SessionNext, Session!LoadChunk, Session!Launch, Session!Ready,
         Session!Expire, Session!RequestStop, Session!RefuseStop, Session!Notice,
         Session!Rearm, Session!OpenFile, Session!CloseFile, Session!PowerUp,
         Session!PowerDown, Session!sessionState, KeptInv
  <1> QED BY <1>1, <1>2, <1>3, PTL DEF Spec, Session!TimeoutIsTerminal

\* The driver writes a chunk of the image only while CPU3 is off, on firmware
\* whose AFFINITY_INFO does not lag.
THEOREM LifecycleImage == Spec => Session!ImageWrittenOnlyWhileOff
  <1>1. Init => IInv /\ KeptInv
    BY Zenon, InitInv, KeptAtStart
  <1>2. IInv /\ KeptInv /\ [Next]_vars =>
          IInv' /\ KeptInv' /\ [Session!SessionNext]_(Session!sessionState)
    BY Zenon, StepInv, KeptStep DEF Allowed
  <1>3. ASSUME [Session!SessionNext]_(Session!sessionState), ~build.lag,
               image_written' > image_written, KeptInv
        PROVE  Power = "off"
    <2>1. CASE Session!LoadChunk
      BY Zenon, <1>3, <2>1 DEF Session!LoadChunk, KeptInv
    <2>2. CASE ~Session!LoadChunk
      <3>1. image_written' \in {image_written, 0}
        BY Zenon, <1>3, <2>2 DEF Session!SessionNext, Session!Launch, Session!Ready,
             Session!Expire, Session!RequestStop, Session!RefuseStop, Session!Notice,
             Session!Rearm, Session!OpenFile, Session!CloseFile, Session!PowerUp,
             Session!PowerDown, Session!sessionState
      <3>2. image_written \in 0 .. ImageSize
        BY Zenon, <1>3 DEF KeptInv, Session!SessionTypeOK
      <3>3. ~(image_written' > image_written)
        BY <3>1, <3>2, BoundsAssumption
      <3> QED BY Zenon, <1>3, <3>3
    <2> QED BY Zenon, <2>1, <2>2
  <1> QED BY <1>1, <1>2, <1>3, PTL DEF Spec, Session!ImageWrittenOnlyWhileOff

-----------------------------------------------------------------------------
(***************************************************************************)
(* What the driver of AmpLifecycle believes of CPU3 is true, for every     *)
(* number of priorities, ring size, word width and set of builds: ACTIVE   *)
(* means that CPU3 bound this very session, an accepted STOP_READY that it *)
(* has left its service loop.                                              *)
(*                                                                         *)
(* Generations and stop sequences wrap, so that a number is the expected   *)
(* one does not show that the frame is of this session.  The argument is   *)
(* that CPU_ON empties the rings with CPU3 off: until CPU3 has bound the   *)
(* session p0 stays empty, and until it leaves the loop p0 holds no        *)
(* STOP_READY.                                                             *)
(***************************************************************************)

Leaving == {"stopping", "quiesced", "halted", "off"}
Lacks(ring, type) == \A n \in 1 .. Len(ring) : ring[n].type # type
NothingNew(before, after) == \A type : Lacks(before, type) => Lacks(after, type)

Typed ==
  /\ session_generation \in Word /\ shared_generation \in Word
  /\ cpu3_generation \in Word /\ next_sequence \in Word
  /\ linux_to_cpu3 \in [Priority -> Seq(Frame)]
  /\ cpu3_to_linux \in [Priority -> Seq(Frame)]

\* The session the driver opened is the one in shared memory and on CPU3.
SameSession ==
  mailmsg_state \in Monitored =>
    /\ session_generation # 0
    /\ shared_generation = session_generation
    /\ cpu3 # "booting" => cpu3_generation = session_generation

\* What p0 can hold.
SilentAtFirst == cpu3 \in {"booting", "bound"} => cpu3_to_linux[0] = <<>>
StopReadyIsLast == cpu3 \notin Leaving => Lacks(cpu3_to_linux[0], "STOP_READY")

BeliefInv ==
  /\ Typed /\ SameSession /\ SilentAtFirst /\ StopReadyIsLast
  /\ ActiveMeansPeerReady /\ StopReadyIsGenuine

numbers == <<session_generation, shared_generation, cpu3_generation>>
rings == <<linux_to_cpu3, cpu3_to_linux>>

-----------------------------------------------------------------------------
(* Counters and rings *)

\* A counter that skips zero stays a word and is never zero.
LEMMA NextWord ==
  ASSUME NEW n \in Word
  PROVE  NextNonZero(n) \in Word /\ NextNonZero(n) # 0
  BY BoundsAssumption DEF NextNonZero, Word

\* Taking frames from a ring.
LEMMA Dropping ==
  ASSUME NEW ring \in Seq(Frame), NEW n \in 0 .. Len(ring)
  PROVE  /\ DropFirst(ring, n) \in Seq(Frame)
         /\ ring = <<>> => DropFirst(ring, n) = <<>>
         /\ NothingNew(ring, DropFirst(ring, n))
  <1>1. DropFirst(ring, n) \in Seq(Frame)
    BY DEF DropFirst
  <1>2. ring = <<>> => DropFirst(ring, n) = <<>>
    BY DEF DropFirst
  <1>3. /\ Len(DropFirst(ring, n)) = Len(ring) - n
        /\ \A k \in 1 .. Len(ring) - n : DropFirst(ring, n)[k] = ring[n + k]
    BY DEF DropFirst
  <1>4. ASSUME NEW type, Lacks(ring, type), NEW k \in 1 .. Len(ring) - n
        PROVE  DropFirst(ring, n)[k].type # type
    <2>1. n + k \in 1 .. Len(ring)
      OBVIOUS
    <2> QED BY Zenon, <1>3, <1>4, <2>1 DEF Lacks
  <1> QED BY Zenon, <1>1, <1>2, <1>3, <1>4 DEF Lacks, NothingNew

\* Adding the frames that fit to a ring.
LEMMA Adding ==
  ASSUME NEW ring \in Seq(Frame), NEW frames \in Seq(Frame)
  PROVE  LET all == ring \o frames
             fit == IF Len(all) <= RingCapacity THEN all
                    ELSE SubSeq(all, 1, RingCapacity)
         IN  /\ fit \in Seq(Frame)
             /\ \A type : Lacks(ring, type) /\ Lacks(frames, type) => Lacks(fit, type)
  <1> DEFINE all == ring \o frames
             fit == IF Len(all) <= RingCapacity THEN all
                    ELSE SubSeq(all, 1, RingCapacity)
  <1>1. /\ all \in Seq(Frame) /\ Len(all) = Len(ring) + Len(frames)
        /\ \A k \in 1 .. Len(all) :
             all[k] = IF k <= Len(ring) THEN ring[k] ELSE frames[k - Len(ring)]
    OBVIOUS
  <1>2. \A type : Lacks(ring, type) /\ Lacks(frames, type) => Lacks(all, type)
    BY <1>1 DEF Lacks
  <1> HIDE DEF all
  <1>3. fit \in Seq(Frame)
    BY <1>1, BoundsAssumption
  <1>4. Len(fit) <= Len(all) /\ \A k \in 1 .. Len(fit) : fit[k] = all[k]
    BY <1>1, BoundsAssumption
  <1>5. \A type : Lacks(all, type) => Lacks(fit, type)
    BY <1>1, <1>3, <1>4 DEF Lacks
  <1> QED BY Zenon, <1>2, <1>3, <1>5 DEF all

\* One frame taken from one of CPU3's rings.
LEMMA Receiving ==
  ASSUME cpu3_to_linux \in [Priority -> Seq(Frame)],
         NEW p \in Priority, cpu3_to_linux[p] # <<>>,
         cpu3_to_linux' = [cpu3_to_linux EXCEPT ![p] = Tail(@)]
  PROVE  /\ cpu3_to_linux' \in [Priority -> Seq(Frame)]
         /\ cpu3_to_linux[0] = <<>> => cpu3_to_linux'[0] = <<>>
         /\ NothingNew(cpu3_to_linux[0], cpu3_to_linux'[0])
  <1>1. /\ Tail(cpu3_to_linux[p]) = DropFirst(cpu3_to_linux[p], 1)
        /\ 1 \in 0 .. Len(cpu3_to_linux[p])
    BY DEF DropFirst
  <1>2. /\ Tail(cpu3_to_linux[p]) \in Seq(Frame)
        /\ NothingNew(cpu3_to_linux[p], Tail(cpu3_to_linux[p]))
    BY Zenon, <1>1, Dropping
  <1>3. p # 0 => cpu3_to_linux'[0] = cpu3_to_linux[0]
    BY Zenon, PriorityAssumption
  <1> QED BY Zenon, <1>2, <1>3, PriorityAssumption DEF NothingNew

\* What a served frame does to the rings.
LEMMA Serving ==
  ASSUME Typed, NEW p \in Priority, NEW replies \in Seq(Frame), NEW next,
         ServeFrame(p, replies, next)
  PROVE  /\ linux_to_cpu3' \in [Priority -> Seq(Frame)]
         /\ cpu3_to_linux' \in [Priority -> Seq(Frame)]
         /\ NothingNew(linux_to_cpu3[0], linux_to_cpu3'[0])
         /\ \A type : Lacks(cpu3_to_linux[0], type) /\ Lacks(replies, type) =>
                       Lacks(cpu3_to_linux'[0], type)
  <1> DEFINE answered == cpu3_to_linux[p] \o replies
             fit == IF Len(answered) <= RingCapacity THEN answered
                    ELSE SubSeq(answered, 1, RingCapacity)
  <1>1. /\ linux_to_cpu3[p] # <<>>
        /\ linux_to_cpu3' = [linux_to_cpu3 EXCEPT ![p] = Tail(@)]
        /\ cpu3_to_linux' = [cpu3_to_linux EXCEPT ![p] = fit]
    BY Zenon DEF ServeFrame
  <1>2. /\ linux_to_cpu3 \in [Priority -> Seq(Frame)]
        /\ cpu3_to_linux \in [Priority -> Seq(Frame)] /\ 0 \in Priority
    BY Zenon, PriorityAssumption DEF Typed
  <1>3. /\ fit \in Seq(Frame)
        /\ \A type : Lacks(cpu3_to_linux[p], type) /\ Lacks(replies, type) =>
                      Lacks(fit, type)
    BY Zenon, <1>2, Adding
  <1> HIDE DEF fit
  <1>4. /\ Tail(linux_to_cpu3[p]) = DropFirst(linux_to_cpu3[p], 1)
        /\ 1 \in 0 .. Len(linux_to_cpu3[p])
    BY <1>1, <1>2 DEF DropFirst
  <1>5. /\ Tail(linux_to_cpu3[p]) \in Seq(Frame)
        /\ NothingNew(linux_to_cpu3[p], Tail(linux_to_cpu3[p]))
    BY Zenon, <1>2, <1>4, Dropping
  <1>6. /\ linux_to_cpu3' \in [Priority -> Seq(Frame)]
        /\ cpu3_to_linux' \in [Priority -> Seq(Frame)]
    BY Zenon, <1>1, <1>2, <1>3, <1>5
  <1>7. CASE p = 0
    BY Zenon, <1>1, <1>2, <1>3, <1>5, <1>6, <1>7
  <1>8. CASE p # 0
    <2>1. cpu3_to_linux'[0] = cpu3_to_linux[0] /\ linux_to_cpu3'[0] = linux_to_cpu3[0]
      BY Zenon, <1>1, <1>2, <1>8
    <2> QED BY Zenon, <1>6, <2>1 DEF NothingNew
  <1> QED BY Zenon, <1>7, <1>8

-----------------------------------------------------------------------------
(* Linux *)

\* A handler that touches neither rings nor numbers, and at most ends a phase.
LEMMA PhaseEnds ==
  ASSUME BeliefInv,
         UNCHANGED <<numbers, rings, next_sequence, peer_generation, cpu3>>,
         \/ UNCHANGED <<mailmsg_state, stop_reply_type>>
         \/ mailmsg_state' \in {"UNARMED", "OFFLINE"}
         \/ mailmsg_state = "STARTING" /\ mailmsg_state' = "START_TIMEOUT"
         \/ mailmsg_state = "STOPPING" /\ mailmsg_state' = "STOP_TIMEOUT"
  PROVE  BeliefInv'
  <1>1. Typed' /\ SilentAtFirst' /\ StopReadyIsLast'
    BY Zenon DEF BeliefInv, Typed, SilentAtFirst, StopReadyIsLast, numbers, rings
  <1>2. SameSession'
    BY Zenon DEF BeliefInv, SameSession, numbers, Monitored
  <1>3. ActiveMeansPeerReady'
    BY Zenon DEF BeliefInv, ActiveMeansPeerReady, numbers
  <1>4. StopReadyIsGenuine'
    BY Zenon DEF BeliefInv, StopReadyIsGenuine
  <1> QED BY Zenon, <1>1, <1>2, <1>3, <1>4 DEF BeliefInv

\* A refresh at most goes OFFLINE.
LEMMA RefreshEnds ==
  ASSUME BeliefInv, NEW observed, RefreshAffinity(observed),
         UNCHANGED <<sessionVars, stopVars, next_sequence, sharedVars, peerVars>>
  PROVE  BeliefInv'
  <1>1. /\ mailmsg_state' \in {mailmsg_state, "OFFLINE"}
        /\ UNCHANGED <<numbers, rings, next_sequence, peer_generation, cpu3,
                       stop_reply_type>>
    BY Zenon DEF RefreshAffinity, sessionVars, stopVars, sharedVars, peerVars, numbers, rings
  <1> QED BY Zenon, <1>1, PhaseEnds

\* A handler that takes frames from CPU3, and otherwise changes nothing here.
LEMMA FramesTaken ==
  ASSUME BeliefInv,
         UNCHANGED <<numbers, next_sequence, peer_generation, cpu3, linux_to_cpu3,
                     mailmsg_state, stop_reply_type>>,
         cpu3_to_linux' \in [Priority -> Seq(Frame)],
         cpu3_to_linux[0] = <<>> => cpu3_to_linux'[0] = <<>>,
         NothingNew(cpu3_to_linux[0], cpu3_to_linux'[0])
  PROVE  BeliefInv'
  <1>1. Typed' /\ SilentAtFirst' /\ StopReadyIsLast'
    BY Zenon DEF BeliefInv, Typed, SilentAtFirst, StopReadyIsLast, NothingNew, numbers
  <1>2. SameSession'
    BY Zenon DEF BeliefInv, SameSession, numbers
  <1>3. ActiveMeansPeerReady' /\ StopReadyIsGenuine'
    BY Zenon DEF BeliefInv, ActiveMeansPeerReady, StopReadyIsGenuine, numbers
  <1> QED BY Zenon, <1>1, <1>2, <1>3 DEF BeliefInv

\* Both outcomes of CPU_ON: a new session over empty rings.
LEMMA LaunchPeer ==
  ASSUME BeliefInv, StartCpuOn \/ StartCpuOnFails
  PROVE  BeliefInv'
  <1>1. /\ session_generation' \in Word /\ session_generation' # 0
        /\ shared_generation' = session_generation'
        /\ next_sequence' = 0 /\ UNCHANGED cpu3_generation
        /\ linux_to_cpu3' = [p \in Priority |-> <<>>]
        /\ cpu3_to_linux' = [p \in Priority |-> <<>>]
    BY Zenon, NextWord DEF StartCpuOn, StartCpuOnFails, OpenSession, BeliefInv, Typed
  <1>2. Typed'
    BY <1>1, BoundsAssumption DEF BeliefInv, Typed, Word
  <1>3. cpu3_to_linux'[0] = <<>>
    BY Zenon, <1>1, PriorityAssumption
  <1>4. SilentAtFirst' /\ StopReadyIsLast'
    BY <1>3 DEF SilentAtFirst, StopReadyIsLast, Lacks
  <1>5. \/ mailmsg_state' = "STARTING" /\ cpu3' = "booting"
        \/ mailmsg_state' = "UNARMED"
    BY Zenon DEF StartCpuOn, StartCpuOnFails
  <1>6. SameSession' /\ ActiveMeansPeerReady' /\ StopReadyIsGenuine'
    BY Zenon, <1>1, <1>5 DEF SameSession, ActiveMeansPeerReady, StopReadyIsGenuine, Monitored
  <1> QED BY Zenon, <1>2, <1>4, <1>6 DEF BeliefInv

\* Rearm disarms, and numbers restart.
LEMMA RearmPeer ==
  ASSUME BeliefInv, rearm_store
  PROVE  BeliefInv'
  <1>1. /\ mailmsg_state' = "UNARMED" /\ next_sequence' = 0
        /\ UNCHANGED <<numbers, rings, cpu3>>
    BY Zenon DEF rearm_store, sharedVars, peerVars, numbers, rings
  <1>2. Typed' /\ SilentAtFirst' /\ StopReadyIsLast'
    BY <1>1, BoundsAssumption
       DEF BeliefInv, Typed, SilentAtFirst, StopReadyIsLast, numbers, rings, Word
  <1>3. SameSession' /\ ActiveMeansPeerReady' /\ StopReadyIsGenuine'
    BY Zenon, <1>1 DEF SameSession, ActiveMeansPeerReady, StopReadyIsGenuine, Monitored
  <1> QED BY Zenon, <1>2, <1>3 DEF BeliefInv

\* A handler that sends on one ring and uses up a sequence number.
LEMMA FrameSent ==
  ASSUME BeliefInv,
         UNCHANGED <<numbers, cpu3_to_linux, peer_generation, cpu3>>,
         next_sequence' = NextNonZero(next_sequence),
         NEW p, NEW frame \in Frame,
         \/ UNCHANGED linux_to_cpu3
         \/ linux_to_cpu3' = [linux_to_cpu3 EXCEPT ![p] = Append(@, frame)],
         \/ UNCHANGED <<mailmsg_state, stop_reply_type>>
         \/ /\ mailmsg_state = "ACTIVE" /\ mailmsg_state' \in {"ACTIVE", "STOPPING"}
            /\ stop_reply_type' = "none"
  PROVE  BeliefInv'
  <1>1. linux_to_cpu3' \in [Priority -> Seq(Frame)]
    <2>1. \A q \in Priority : linux_to_cpu3[q] \in Seq(Frame)
      BY Zenon DEF BeliefInv, Typed
    <2>2. \A q \in Priority : Append(linux_to_cpu3[q], frame) \in Seq(Frame)
      BY <2>1
    <2> QED BY Zenon, <2>2 DEF BeliefInv, Typed
  <1>2. next_sequence' \in Word
    BY Zenon, NextWord DEF BeliefInv, Typed
  <1>3. Typed' /\ SilentAtFirst' /\ StopReadyIsLast'
    BY Zenon, <1>1, <1>2 DEF BeliefInv, Typed, SilentAtFirst, StopReadyIsLast, numbers
  <1>4. SameSession'
    BY Zenon DEF BeliefInv, SameSession, numbers, Monitored
  <1>5. ActiveMeansPeerReady'
    BY Zenon DEF BeliefInv, ActiveMeansPeerReady, numbers
  <1>6. StopReadyIsGenuine'
    BY Zenon DEF BeliefInv, StopReadyIsGenuine
  <1> QED BY Zenon, <1>3, <1>4, <1>5, <1>6 DEF BeliefInv

\* Every write or read of a sysfs attribute.
LEMMA SysfsPeer ==
  ASSUME BeliefInv, Sysfs
  PROVE  BeliefInv'
  <1>1. CASE image_write
    BY Zenon, <1>1, PhaseEnds DEF image_write, sessionVars, stopVars, sharedVars, peerVars,
                           numbers, rings
  <1>2. CASE StartBusy
    BY Zenon, <1>2, RefreshEnds DEF StartBusy
  <1>3. CASE RearmBusy
    BY Zenon, <1>3, RefreshEnds DEF RearmBusy
  <1>4. CASE affinity_state_show
    BY Zenon, <1>4, RefreshEnds DEF affinity_state_show
  <1>5. CASE mailmsg_stop_store
    <2> DEFINE request == [type |-> "STOP_REQUEST", word |-> next_sequence']
    <2>1. /\ next_sequence' = NextNonZero(next_sequence) /\ stop_reply_type' = "none"
          /\ mailmsg_state = "ACTIVE" /\ mailmsg_state' \in {"ACTIVE", "STOPPING"}
          /\ \/ UNCHANGED linux_to_cpu3
             \/ linux_to_cpu3' = [linux_to_cpu3 EXCEPT ![0] = Append(@, request)]
          /\ UNCHANGED <<numbers, cpu3_to_linux, peer_generation, cpu3>>
      BY Zenon, <1>5 DEF mailmsg_stop_store, sessionVars, peerVars, numbers
    <2>2. request \in Frame
      BY Zenon, <2>1, NextWord DEF BeliefInv, Typed, Frame, FrameType
    <2> HIDE DEF request
    <2> QED BY ZenonT(30), <2>1, <2>2, FrameSent
  <1>6. CASE mailmsg_response_show
    <2>1. /\ UNCHANGED <<numbers, next_sequence, peer_generation, cpu3, linux_to_cpu3,
                         mailmsg_state, stop_reply_type>>
          /\ cpu3_to_linux' = [p \in Priority |-> <<>>]
      BY Zenon, <1>6 DEF mailmsg_response_show, sessionVars, stopVars, peerVars, numbers
    <2>2. /\ cpu3_to_linux' \in [Priority -> Seq(Frame)] /\ cpu3_to_linux'[0] = <<>>
      BY <2>1, PriorityAssumption
    <2>3. NothingNew(cpu3_to_linux[0], cpu3_to_linux'[0])
      BY <2>2 DEF Lacks, NothingNew
    <2> QED BY Zenon, <2>1, <2>2, <2>3, FramesTaken
  <1> QED BY Zenon, <1>1, <1>2, <1>3, <1>4, <1>5, <1>6, LaunchPeer, RearmPeer DEF Sysfs

\* Every use of the device.
LEMMA UserPeer ==
  ASSUME BeliefInv, User, build.used \subseteq Priority
  PROVE  BeliefInv'
  <1>1. CASE r1_amp_mailmsg_user_open
    BY Zenon, <1>1, PhaseEnds DEF r1_amp_mailmsg_user_open, sessionVars, stopVars, sharedVars,
                           peerVars, numbers, rings
  <1>2. CASE r1_amp_mailmsg_user_release
    BY Zenon, <1>2, PhaseEnds DEF r1_amp_mailmsg_user_release, sessionVars, stopVars,
                           sharedVars, peerVars, numbers, rings
  <1>3. ASSUME NEW p \in Priority, mailmsg_receive(p)
        PROVE  BeliefInv'
    <2>1. /\ UNCHANGED <<numbers, next_sequence, peer_generation, cpu3, linux_to_cpu3,
                         mailmsg_state, stop_reply_type>>
          /\ cpu3_to_linux[p] # <<>>
          /\ cpu3_to_linux' = [cpu3_to_linux EXCEPT ![p] = Tail(@)]
      BY Zenon, <1>3 DEF mailmsg_receive, sessionVars, stopVars, peerVars, numbers
    <2>2. /\ cpu3_to_linux' \in [Priority -> Seq(Frame)]
          /\ cpu3_to_linux[0] = <<>> => cpu3_to_linux'[0] = <<>>
          /\ NothingNew(cpu3_to_linux[0], cpu3_to_linux'[0])
      BY Zenon, <2>1, Receiving DEF BeliefInv, Typed
    <2> QED BY Zenon, <2>1, <2>2, FramesTaken
  <1>4. ASSUME NEW p \in Priority, NEW doorbell \in BOOLEAN, mailmsg_send(p, doorbell)
        PROVE  BeliefInv'
    <2>1. /\ next_sequence' = NextNonZero(next_sequence)
          /\ \/ UNCHANGED linux_to_cpu3
             \/ linux_to_cpu3' = [linux_to_cpu3 EXCEPT ![p] = Append(@, Business)]
          /\ UNCHANGED <<numbers, cpu3_to_linux, peer_generation, cpu3, mailmsg_state,
                         stop_reply_type>>
      BY Zenon, <1>4 DEF mailmsg_send, sessionVars, stopVars, peerVars, numbers
    <2>2. Business \in Frame
      BY BoundsAssumption DEF Business, Frame, FrameType, Word
    <2> QED BY Zenon, <2>1, <2>2, FrameSent
  <1> QED BY Zenon, <1>1, <1>2, <1>3, <1>4 DEF User

-----------------------------------------------------------------------------
(* Callback, works and time *)

\* What a run of the control work leaves.
LEMMA ControlPeer ==
  ASSUME BeliefInv, NEW n \in 0 .. Len(cpu3_to_linux[0]), ControlRun(n)
  PROVE  /\ UNCHANGED <<numbers, next_sequence, cpu3, linux_to_cpu3>>
         /\ NothingNew(cpu3_to_linux[0], cpu3_to_linux'[0])
         /\ Typed' /\ SilentAtFirst' /\ StopReadyIsLast'
  <1>1. /\ cpu3_to_linux' = [cpu3_to_linux EXCEPT ![0] = DropFirst(@, n)]
        /\ UNCHANGED <<numbers, next_sequence, cpu3, linux_to_cpu3>>
    BY Zenon DEF ControlRun, peerVars, numbers
  <1>2. cpu3_to_linux \in [Priority -> Seq(Frame)] /\ 0 \in Priority
    BY Zenon, PriorityAssumption DEF BeliefInv, Typed
  <1>3. /\ DropFirst(cpu3_to_linux[0], n) \in Seq(Frame)
        /\ cpu3_to_linux[0] = <<>> => DropFirst(cpu3_to_linux[0], n) = <<>>
        /\ NothingNew(cpu3_to_linux[0], DropFirst(cpu3_to_linux[0], n))
    BY Zenon, <1>2, Dropping
  <1>4. /\ cpu3_to_linux' \in [Priority -> Seq(Frame)]
        /\ cpu3_to_linux'[0] = DropFirst(cpu3_to_linux[0], n)
    BY Zenon, <1>1, <1>2, <1>3
  <1>5. Typed' /\ SilentAtFirst'
    BY Zenon, <1>1, <1>3, <1>4 DEF BeliefInv, Typed, SilentAtFirst, numbers
  <1>6. StopReadyIsLast'
    BY Zenon, <1>1, <1>3, <1>4 DEF BeliefInv, StopReadyIsLast, NothingNew
  <1> QED BY Zenon, <1>1, <1>3, <1>4, <1>5, <1>6

\* The control work: its decisive frame shows what CPU3 has done.
LEMMA ControlWorkPeer ==
  ASSUME BeliefInv, r1_amp_mailmsg_control_work
  PROVE  BeliefInv'
  <1>0. Len(cpu3_to_linux[0]) \in Nat
    BY PriorityAssumption DEF BeliefInv, Typed
  <1>1. CASE ControlNothing
    <2> DEFINE n == IF mailmsg_state \in LifecyclePending
                    THEN Len(cpu3_to_linux[0]) ELSE 0
    <2>1. /\ ControlRun(n)
          /\ UNCHANGED <<mailmsg_state, peer_generation, stop_reply_type>>
      BY Zenon, <1>1 DEF ControlNothing
    <2>2. n \in 0 .. Len(cpu3_to_linux[0])
      BY <1>0
    <2> HIDE DEF n
    <2>3. /\ UNCHANGED <<numbers, cpu3>>
          /\ Typed' /\ SilentAtFirst' /\ StopReadyIsLast'
      BY Zenon, <2>1, <2>2, ControlPeer
    <2>4. SameSession' /\ ActiveMeansPeerReady' /\ StopReadyIsGenuine'
      BY Zenon, <2>1, <2>3 DEF BeliefInv, SameSession, ActiveMeansPeerReady, StopReadyIsGenuine,
                        numbers
    <2> QED BY Zenon, <2>3, <2>4 DEF BeliefInv
  <1>2. ASSUME NEW n \in 0 .. RingCapacity, ControlTimeout(n)
        PROVE  BeliefInv'
    <2>1. /\ ControlRun(n) /\ n <= Len(cpu3_to_linux[0])
          /\ UNCHANGED <<peer_generation, stop_reply_type>>
          /\ \/ mailmsg_state = "STARTING" /\ mailmsg_state' = "START_TIMEOUT"
             \/ mailmsg_state = "STOPPING" /\ mailmsg_state' = "STOP_TIMEOUT"
      BY Zenon, <1>2 DEF ControlTimeout, SetTimeout
    <2>2. n \in 0 .. Len(cpu3_to_linux[0])
      BY <1>0, <2>1, BoundsAssumption
    <2>3. /\ UNCHANGED <<numbers, cpu3>>
          /\ Typed' /\ SilentAtFirst' /\ StopReadyIsLast'
      BY Zenon, <2>1, <2>2, ControlPeer
    <2>4. SameSession'
      BY Zenon, <2>1, <2>3 DEF BeliefInv, SameSession, numbers, Monitored
    <2>5. ActiveMeansPeerReady' /\ StopReadyIsGenuine'
      BY Zenon, <2>1, <2>3 DEF BeliefInv, ActiveMeansPeerReady, StopReadyIsGenuine, numbers
    <2> QED BY Zenon, <2>3, <2>4, <2>5 DEF BeliefInv
  <1>3. ASSUME NEW n \in 0 .. RingCapacity, ControlSessionReady(n)
        PROVE  BeliefInv'
    <2>1. /\ ControlRun(n) /\ n \in 1 .. Len(cpu3_to_linux[0])
          /\ mailmsg_state = "STARTING" /\ mailmsg_state' = "ACTIVE"
          /\ peer_generation' = session_generation
      BY Zenon, <1>3 DEF ControlSessionReady, FirstDecisive
    <2>2. n \in 0 .. Len(cpu3_to_linux[0]) /\ cpu3_to_linux[0] # <<>>
      BY <1>0, <2>1
    <2>3. /\ UNCHANGED <<numbers, cpu3>>
          /\ Typed' /\ SilentAtFirst' /\ StopReadyIsLast'
      BY Zenon, <2>1, <2>2, ControlPeer
    <2>4. cpu3 \notin {"booting", "bound"}
      BY Zenon, <2>2 DEF BeliefInv, SilentAtFirst
    <2>5. SameSession' /\ StopReadyIsGenuine'
      BY Zenon, <2>1, <2>3 DEF BeliefInv, SameSession, StopReadyIsGenuine, numbers, Monitored
    <2>6. /\ session_generation # 0 /\ session_generation \in Word
          /\ shared_generation = session_generation
          /\ cpu3_generation = session_generation
      BY Zenon, <2>1, <2>4 DEF BeliefInv, Typed, SameSession, Monitored
    <2>7. ActiveMeansPeerReady'
      BY Zenon, <2>1, <2>3, <2>4, <2>6 DEF ActiveMeansPeerReady, numbers
    <2> QED BY Zenon, <2>3, <2>5, <2>7 DEF BeliefInv
  <1>4. ASSUME NEW n \in 0 .. RingCapacity, ControlStopReply(n)
        PROVE  BeliefInv'
    <2>1. /\ ControlRun(n) /\ n \in 1 .. Len(cpu3_to_linux[0])
          /\ UNCHANGED peer_generation
          /\ mailmsg_state = "STOPPING" /\ mailmsg_state' \in {"STOPPING", "ACTIVE"}
          /\ stop_reply_type' = cpu3_to_linux[0][n].type
      BY Zenon, <1>4 DEF ControlStopReply, FirstDecisive
    <2>2. n \in 0 .. Len(cpu3_to_linux[0])
      BY <1>0, <2>1
    <2>3. /\ UNCHANGED <<numbers, cpu3>>
          /\ Typed' /\ SilentAtFirst' /\ StopReadyIsLast'
      BY Zenon, <2>1, <2>2, ControlPeer
    <2>4. stop_reply_type' = "STOP_READY" => cpu3 \in Leaving
      BY Zenon, <2>1 DEF BeliefInv, StopReadyIsLast, Lacks
    <2>5. StopReadyIsGenuine'
      BY Zenon, <2>3, <2>4 DEF StopReadyIsGenuine, Leaving
    <2>6. SameSession'
      BY Zenon, <2>1, <2>3 DEF BeliefInv, SameSession, numbers, Monitored
    <2>7. ActiveMeansPeerReady'
      BY Zenon, <2>1, <2>3 DEF BeliefInv, ActiveMeansPeerReady, numbers
    <2> QED BY Zenon, <2>3, <2>5, <2>6, <2>7 DEF BeliefInv
  <1> QED BY Zenon, <1>1, <1>2, <1>3, <1>4 DEF r1_amp_mailmsg_control_work

\* Every work, timer and callback.
LEMMA WorksPeer ==
  ASSUME BeliefInv, Works
  PROVE  BeliefInv'
  <1>1. CASE r1_amp_mailmsg_lifecycle_timeout_work
    <2>1. UNCHANGED <<numbers, rings, next_sequence, peer_generation, cpu3,
                      stop_reply_type>>
      BY Zenon, <1>1 DEF r1_amp_mailmsg_lifecycle_timeout_work, sharedVars, peerVars, numbers,
                  rings
    <2>2. \/ UNCHANGED mailmsg_state
          \/ mailmsg_state' = "OFFLINE"
          \/ mailmsg_state = "STARTING" /\ mailmsg_state' = "START_TIMEOUT"
          \/ mailmsg_state = "STOPPING" /\ mailmsg_state' = "STOP_TIMEOUT"
      BY Zenon, <1>1 DEF r1_amp_mailmsg_lifecycle_timeout_work, RefreshAffinity, SetTimeout
    <2> QED BY Zenon, <2>1, <2>2, PhaseEnds
  <1>2. CASE r1_amp_affinity_work
    <2>1. UNCHANGED <<sessionVars, stopVars, next_sequence, sharedVars, peerVars>>
      BY Zenon, <1>2 DEF r1_amp_affinity_work
    <2>2. CASE UNCHANGED mailmsg_state
      BY Zenon, <2>1, <2>2, PhaseEnds DEF sessionVars, stopVars, sharedVars, peerVars, numbers,
                                   rings
    <2>3. CASE \E observed \in Observed : RefreshAffinity(observed)
      BY Zenon, <2>1, <2>3, RefreshEnds
    <2> QED BY Zenon, <1>2, <2>2, <2>3 DEF r1_amp_affinity_work
  <1>3. CASE TimeoutFires
    BY Zenon, <1>3, PhaseEnds DEF TimeoutFires, sessionVars, stopVars, sharedVars, peerVars,
                           numbers, rings
  <1>4. CASE DeadlinePasses
    BY Zenon, <1>4, PhaseEnds DEF DeadlinePasses, sessionVars, stopVars, sharedVars, peerVars,
                           numbers, rings
  <1>5. ASSUME NEW p \in Priority, r1_amp_mbox_rx_callback(p)
        PROVE  BeliefInv'
    BY Zenon, <1>5, PhaseEnds DEF r1_amp_mbox_rx_callback, sessionVars, stopVars, peerVars,
                           numbers, rings
  <1> QED BY Zenon, <1>1, <1>2, <1>3, <1>4, <1>5, ControlWorkPeer DEF Works

-----------------------------------------------------------------------------
(* CPU3 *)

\* CPU3 goes on, with a session it has bound, and never comes back from leaving.
LEMMA Cpu3Moves ==
  ASSUME BeliefInv,
         UNCHANGED <<linuxVars, shared_generation, cpu3_generation>>,
         linux_to_cpu3' \in [Priority -> Seq(Frame)],
         cpu3_to_linux' \in [Priority -> Seq(Frame)],
         cpu3 # "booting", cpu3' \notin {"booting", "bound"},
         cpu3 \in Leaving => cpu3' \in Leaving,
         cpu3' \notin Leaving => Lacks(cpu3_to_linux'[0], "STOP_READY")
  PROVE  BeliefInv'
  <1>1. UNCHANGED <<numbers, next_sequence, peer_generation, mailmsg_state,
                    stop_reply_type>>
    BY Zenon DEF linuxVars, sessionVars, stopVars, numbers
  <1>2. Typed' /\ SilentAtFirst' /\ StopReadyIsLast'
    BY Zenon, <1>1 DEF BeliefInv, Typed, SilentAtFirst, StopReadyIsLast, numbers
  <1>3. SameSession'
    BY Zenon, <1>1 DEF BeliefInv, SameSession, numbers
  <1>4. ActiveMeansPeerReady'
    BY Zenon, <1>1 DEF BeliefInv, ActiveMeansPeerReady, numbers
  <1>5. StopReadyIsGenuine'
    BY Zenon, <1>1 DEF BeliefInv, StopReadyIsGenuine, Leaving
  <1> QED BY Zenon, <1>2, <1>3, <1>4, <1>5 DEF BeliefInv

\* A served frame: CPU3 leaves exactly when the replies hold a STOP_READY.
LEMMA Served ==
  ASSUME BeliefInv, NEW p \in Priority, NEW replies \in Seq(Frame),
         NEW next \in {"running", "stopping"},
         next = "running" => Lacks(replies, "STOP_READY"),
         ServeFrame(p, replies, next)
  PROVE  BeliefInv'
  <1>1. /\ cpu3 = "running" /\ cpu3' = next
        /\ UNCHANGED <<linuxVars, shared_generation, cpu3_generation>>
    BY Zenon DEF ServeFrame
  <1>2. /\ linux_to_cpu3' \in [Priority -> Seq(Frame)]
        /\ cpu3_to_linux' \in [Priority -> Seq(Frame)]
        /\ next = "running" /\ Lacks(cpu3_to_linux[0], "STOP_READY") =>
             Lacks(cpu3_to_linux'[0], "STOP_READY")
    BY Zenon, Serving DEF BeliefInv
  <1>3. Lacks(cpu3_to_linux[0], "STOP_READY")
    BY Zenon, <1>1 DEF BeliefInv, StopReadyIsLast, Leaving
  <1> QED BY Zenon, <1>1, <1>2, <1>3, Cpu3Moves DEF Leaving

\* Every step of CPU3.
LEMMA Cpu3Peer ==
  ASSUME BeliefInv, Cpu3
  PROVE  BeliefInv'
  <1>1. CASE Cpu3Boot
    <2>1. /\ cpu3 = "booting" /\ cpu3' = "bound" /\ cpu3_generation' = shared_generation
          /\ UNCHANGED <<session_generation, shared_generation, rings, next_sequence,
                         peer_generation, mailmsg_state, stop_reply_type>>
      BY Zenon, <1>1 DEF Cpu3Boot, linuxVars, sessionVars, stopVars, sharedVars, rings
    <2>2. Typed' /\ SilentAtFirst' /\ StopReadyIsLast'
      BY Zenon, <2>1 DEF BeliefInv, Typed, SilentAtFirst, StopReadyIsLast, Leaving, rings
    <2>3. SameSession'
      BY Zenon, <2>1 DEF BeliefInv, SameSession
    <2>4. ActiveMeansPeerReady' /\ StopReadyIsGenuine'
      BY Zenon, <2>1 DEF BeliefInv, ActiveMeansPeerReady, StopReadyIsGenuine
    <2> QED BY Zenon, <2>2, <2>3, <2>4 DEF BeliefInv
  <1>2. CASE mailmsg_service_session_ready
    <2> DEFINE ready == [type |-> "SESSION_READY", word |-> cpu3_generation]
    <2>1. CASE /\ cpu3 = "bound" /\ cpu3' = "announced"
               /\ cpu3_to_linux' = [cpu3_to_linux EXCEPT ![0] = Append(@, ready)]
               /\ UNCHANGED <<linuxVars, shared_generation, linux_to_cpu3,
                              cpu3_generation>>
      <3>1. /\ cpu3_to_linux \in [Priority -> Seq(Frame)] /\ 0 \in Priority
            /\ linux_to_cpu3 \in [Priority -> Seq(Frame)]
            /\ cpu3_to_linux[0] = <<>>
        BY Zenon, <2>1, PriorityAssumption DEF BeliefInv, Typed, SilentAtFirst
      <3>2. ready \in Frame /\ ready.type # "STOP_READY"
        BY Zenon DEF BeliefInv, Typed, Frame, FrameType
      <3> HIDE DEF ready
      <3>3. cpu3_to_linux' = [cpu3_to_linux EXCEPT ![0] = <<ready>>]
        BY <2>1, <3>1
      <3>4. <<ready>> \in Seq(Frame) /\ Lacks(<<ready>>, "STOP_READY")
        BY <3>2 DEF Lacks
      <3>5. /\ cpu3_to_linux' \in [Priority -> Seq(Frame)]
            /\ Lacks(cpu3_to_linux'[0], "STOP_READY")
        BY Zenon, <3>1, <3>3, <3>4
      <3> QED BY Zenon, <2>1, <3>1, <3>5, Cpu3Moves DEF Leaving
    <2>2. CASE cpu3 = "announced" /\ cpu3' = "running"
               /\ UNCHANGED <<linuxVars, sharedVars, cpu3_generation>>
      BY Zenon, <2>2, Cpu3Moves DEF BeliefInv, Typed, StopReadyIsLast, Leaving, sharedVars
    <2> QED BY Zenon, <1>2, <2>1, <2>2 DEF mailmsg_service_session_ready
  <1>3. CASE ServeUnpublished
    BY Zenon, <1>3, PhaseEnds DEF ServeUnpublished, linuxVars, sessionVars, stopVars, sharedVars,
                           numbers, rings
  <1>4. CASE ServeStop
    <2> DEFINE reply == [type |-> IF build.stop_control THEN "STOP_READY"
                                  ELSE "STOP_REFUSED",
                         word |-> Head(linux_to_cpu3[0]).word]
               next == IF build.stop_control /\ ~Full(cpu3_to_linux[0])
                       THEN "stopping" ELSE "running"
    <2>1. linux_to_cpu3[0] # <<>> /\ ServeFrame(0, <<reply>>, next)
      BY Zenon, <1>4 DEF ServeStop
    <2>2. Head(linux_to_cpu3[0]) \in Frame
      BY <2>1, PriorityAssumption DEF BeliefInv, Typed
    <2>3. reply \in Frame
      BY Zenon, <2>2 DEF Frame, FrameType
    <2>4. CASE next = "stopping" \/ reply.type # "STOP_READY"
      <3> HIDE DEF reply
      <3>1. next = "running" => Lacks(<<reply>>, "STOP_READY")
        BY <2>4 DEF Lacks
      <3>2. next \in {"running", "stopping"}
        BY Zenon
      <3>3. <<reply>> \in Seq(Frame) /\ 0 \in Priority
        BY <2>3, PriorityAssumption
      <3> HIDE DEF next
      <3> QED BY Zenon, <2>1, <3>1, <3>2, <3>3, Served
    <2>5. CASE build.stop_control /\ Full(cpu3_to_linux[0])
      <3>1. next = "running"
        BY Zenon, <2>5
      <3> HIDE DEF reply, next
      <3>2. /\ cpu3 = "running" /\ cpu3' = "running"
            /\ linux_to_cpu3' = [linux_to_cpu3 EXCEPT ![0] = Tail(@)]
            /\ cpu3_to_linux' = [cpu3_to_linux EXCEPT ![0] =
                 IF Len(@ \o <<reply>>) <= RingCapacity THEN @ \o <<reply>>
                 ELSE SubSeq(@ \o <<reply>>, 1, RingCapacity)]
            /\ UNCHANGED <<linuxVars, shared_generation, cpu3_generation>>
        BY Zenon, <2>1, <3>1 DEF ServeFrame
      <3>3. /\ linux_to_cpu3 \in [Priority -> Seq(Frame)]
            /\ cpu3_to_linux \in [Priority -> Seq(Frame)] /\ 0 \in Priority
            /\ Lacks(cpu3_to_linux[0], "STOP_READY")
        BY Zenon, <3>2, PriorityAssumption DEF BeliefInv, Typed, StopReadyIsLast, Leaving
      <3>4. /\ Len(cpu3_to_linux[0]) = RingCapacity
            /\ Len(cpu3_to_linux[0] \o <<reply>>) = RingCapacity + 1
            /\ SubSeq(cpu3_to_linux[0] \o <<reply>>, 1, RingCapacity) = cpu3_to_linux[0]
        BY <2>3, <2>5, <3>3 DEF Full
      <3>5. cpu3_to_linux' = cpu3_to_linux
        BY <3>2, <3>3, <3>4, BoundsAssumption
      <3>6. linux_to_cpu3' \in [Priority -> Seq(Frame)]
        BY <2>1, <3>2, <3>3
      <3> QED BY Zenon, <3>2, <3>3, <3>5, <3>6, Cpu3Moves DEF Leaving
    <2> QED BY Zenon, <2>4, <2>5
  <1>5. CASE Cpu3Quiesce
    BY Zenon, <1>5, Cpu3Moves DEF Cpu3Quiesce, BeliefInv, Typed, Leaving
  <1>6. CASE mailmsg_arch_cpu_off
    BY Zenon, <1>6, Cpu3Moves DEF mailmsg_arch_cpu_off, sharedVars, BeliefInv, Typed, Leaving
  <1>7. ASSUME NEW p \in Priority, mailmsg_mailbox_a2b_matrix_isr(p)
        PROVE  BeliefInv'
    BY Zenon, <1>7, PhaseEnds DEF mailmsg_mailbox_a2b_matrix_isr, linuxVars, sessionVars,
                           stopVars, numbers, rings
  <1>8. ASSUME NEW p \in Priority, ServeNothing(p)
        PROVE  BeliefInv'
    BY Zenon, <1>8, PhaseEnds DEF ServeNothing, linuxVars, sessionVars, stopVars, sharedVars,
                           numbers, rings
  <1>9. ASSUME NEW p \in Priority, ServeBusiness(p)
        PROVE  BeliefInv'
    <2>1. Business \in Frame /\ Business.type # "STOP_READY"
      BY BoundsAssumption DEF Business, Frame, FrameType, Word
    <2>2. /\ <<>> \in Seq(Frame) /\ <<Business>> \in Seq(Frame)
          /\ <<Business, Business>> \in Seq(Frame)
      BY <2>1
    <2>3. Lacks(<<Business>>, "STOP_READY") /\ Lacks(<<Business, Business>>, "STOP_READY")
      BY <2>1 DEF Lacks
    <2> QED BY Zenon, <1>9, <2>2, <2>3, Served DEF ServeBusiness
  <1> QED BY Zenon, <1>1, <1>2, <1>3, <1>4, <1>5, <1>6, <1>7, <1>8, <1>9 DEF Cpu3

-----------------------------------------------------------------------------
(* Theorems *)

\* The invariant holds at first.
LEMMA InitPeer ==
  ASSUME Init
  PROVE  BeliefInv /\ build \in Builds
  <1>1. Typed /\ SilentAtFirst /\ StopReadyIsLast
    BY PriorityAssumption, BoundsAssumption
       DEF Init, Typed, SilentAtFirst, StopReadyIsLast, Lacks, Word, Leaving
  <1>2. SameSession /\ ActiveMeansPeerReady /\ StopReadyIsGenuine
    BY Zenon DEF Init, SameSession, ActiveMeansPeerReady, StopReadyIsGenuine, Monitored
  <1> QED BY Zenon, <1>1, <1>2 DEF BeliefInv, Init

\* A step preserves it.
LEMMA StepPeer ==
  ASSUME BeliefInv, build \in Builds, [Next]_vars
  PROVE  BeliefInv' /\ build' \in Builds
  <1>1. build.used \subseteq Priority
    BY Zenon, BuildAssumption DEF Build
  <1>2. CASE Next
    BY Zenon, <1>1, <1>2, SysfsPeer, UserPeer, WorksPeer, Cpu3Peer DEF Next
  <1>3. CASE UNCHANGED vars
    BY Zenon, <1>3, PhaseEnds DEF vars, systemVars, sessionVars, stopVars, sharedVars, peerVars,
                           numbers, rings
  <1> QED BY Zenon, <1>2, <1>3

\* The data plane is open only towards a CPU3 that bound this very session,
\* whose number is not 0, also after the counter has come round.
THEOREM ActiveIsReady == Spec => []ActiveMeansPeerReady
  <1>1. Init => BeliefInv /\ build \in Builds
    BY Zenon, InitPeer
  <1>2. BeliefInv /\ build \in Builds /\ [Next]_vars => (BeliefInv /\ build \in Builds)'
    BY Zenon, StepPeer
  <1>3. BeliefInv => ActiveMeansPeerReady
    BY Zenon DEF BeliefInv
  <1> QED BY <1>1, <1>2, <1>3, PTL DEF Spec

\* A STOP_READY the driver accepts is the answer of a CPU3 that has left its
\* service loop, also after stop sequences have come round.
THEOREM StopReadyGenuine == Spec => []StopReadyIsGenuine
  <1>1. Init => BeliefInv /\ build \in Builds
    BY Zenon, InitPeer
  <1>2. BeliefInv /\ build \in Builds /\ [Next]_vars => (BeliefInv /\ build \in Builds)'
    BY Zenon, StepPeer
  <1>3. BeliefInv => StopReadyIsGenuine
    BY Zenon DEF BeliefInv
  <1> QED BY <1>1, <1>2, <1>3, PTL DEF Spec

-----------------------------------------------------------------------------
(***************************************************************************)
(* Rearm is never refused for a doorbell CPU3 has left pending: the A2B    *)
(* bits of a CPU3 that a controlled stop took off are clear.  CPU3 clears  *)
(* them when it quiesces, so nothing may ring it afterwards: only ACTIVE   *)
(* rings, and while the session is ACTIVE, or may still become so, CPU3    *)
(* does not leave.  It leaves on a STOP_REQUEST only, which ends ACTIVE;   *)
(* and the way back, STOP_REFUSED, is never said by a build that stops.    *)
(***************************************************************************)
BeforeStop == {"STARTING", "START_TIMEOUT", "ACTIVE"}

RearmInv ==
  ~build.self_off =>
    /\ cpu3 \in {"quiesced", "halted", "off"} => a2b = {}
    /\ mailmsg_state \in BeforeStop => cpu3 \notin Leaving
    /\ mailmsg_state \in BeforeStop /\ build.stop_control =>
         Lacks(linux_to_cpu3[0], "STOP_REQUEST")
    /\ mailmsg_state \in Monitored /\ ~build.stop_control => cpu3 \notin Leaving
    /\ build.stop_control => Lacks(cpu3_to_linux[0], "STOP_REFUSED")

\* A handler that rings no bell and at most ends a phase.
LEMMA RearmKept ==
  ASSUME RearmInv, UNCHANGED <<build, cpu3, linux_to_cpu3>>, a2b' \subseteq a2b,
         NothingNew(cpu3_to_linux[0], cpu3_to_linux'[0]),
         \/ mailmsg_state' = mailmsg_state
         \/ mailmsg_state' \in {"UNARMED", "OFFLINE"}
         \/ mailmsg_state = "STARTING" /\ mailmsg_state' \in {"START_TIMEOUT", "ACTIVE"}
         \/ mailmsg_state = "STOPPING" /\ mailmsg_state' = "STOP_TIMEOUT"
  PROVE  RearmInv'
  BY Zenon DEF RearmInv, NothingNew, BeforeStop, Monitored

\* A handler that touches no ring and no bell.
LEMMA RearmQuiet ==
  ASSUME RearmInv, UNCHANGED <<build, cpu3, rings, a2b>>,
         \/ mailmsg_state' = mailmsg_state
         \/ mailmsg_state' \in {"UNARMED", "OFFLINE"}
         \/ mailmsg_state = "STARTING" /\ mailmsg_state' \in {"START_TIMEOUT", "ACTIVE"}
         \/ mailmsg_state = "STOPPING" /\ mailmsg_state' = "STOP_TIMEOUT"
  PROVE  RearmInv'
  BY Zenon, RearmKept DEF rings, NothingNew

\* A refresh at most goes OFFLINE.
LEMMA RearmRefresh ==
  ASSUME RearmInv, UNCHANGED <<build, sharedVars, peerVars>>,
         NEW observed, RefreshAffinity(observed)
  PROVE  RearmInv'
  <1>1. mailmsg_state' \in {mailmsg_state, "OFFLINE"}
    BY Zenon DEF RefreshAffinity
  <1> QED BY Zenon, <1>1, RearmQuiet DEF sharedVars, peerVars, rings

\* A frame appended to a ring.
LEMMA Appended ==
  ASSUME NEW ring \in Seq(Frame), NEW frame \in Frame, NEW type,
         Lacks(ring, type), frame.type # type
  PROVE  Lacks(Append(ring, frame), type)
  BY DEF Lacks

\* A new session begins over empty rings.
LEMMA RearmLaunch ==
  ASSUME RearmInv, StartCpuOn \/ StartCpuOnFails, UNCHANGED build
  PROVE  RearmInv'
  <1>1. /\ linux_to_cpu3'[0] = <<>> /\ cpu3_to_linux'[0] = <<>> /\ a2b' = a2b
        /\ \/ mailmsg_state' = "UNARMED" /\ cpu3' = cpu3
           \/ mailmsg_state' = "STARTING" /\ cpu3' = "booting"
    BY Zenon, PriorityAssumption DEF StartCpuOn, StartCpuOnFails, OpenSession
  <1> QED BY <1>1 DEF RearmInv, Lacks, Leaving, BeforeStop, Monitored

\* Linux rings CPU3 only while the session is ACTIVE.
LEMMA RearmSend ==
  ASSUME RearmInv, BeliefInv, NEW p \in Priority, NEW doorbell \in BOOLEAN,
         mailmsg_send(p, doorbell), UNCHANGED build
  PROVE  RearmInv'
  <1>1. /\ mailmsg_state = "ACTIVE" /\ mailmsg_state' = "ACTIVE"
        /\ UNCHANGED <<cpu3, cpu3_to_linux>>
        /\ \/ UNCHANGED linux_to_cpu3
           \/ linux_to_cpu3' = [linux_to_cpu3 EXCEPT ![p] = Append(@, Business)]
    BY Zenon DEF mailmsg_send, peerVars
  <1>2. linux_to_cpu3[0] \in Seq(Frame)
    BY Zenon, PriorityAssumption DEF BeliefInv, Typed
  <1>3. Business \in Frame /\ Business.type # "STOP_REQUEST"
    BY BoundsAssumption DEF Business, Frame, FrameType, Word
  <1>4. Lacks(linux_to_cpu3[0], "STOP_REQUEST") =>
          Lacks(Append(linux_to_cpu3[0], Business), "STOP_REQUEST")
    BY Zenon, <1>2, <1>3, Appended
  <1>5. Lacks(linux_to_cpu3[0], "STOP_REQUEST") =>
          Lacks(linux_to_cpu3'[0], "STOP_REQUEST")
    BY Zenon, <1>1, <1>4, PriorityAssumption DEF BeliefInv, Typed
  <1> QED BY Zenon, <1>1, <1>5 DEF RearmInv, Leaving, BeforeStop

\* Every write or read of a sysfs attribute.
LEMMA RearmSysfs ==
  ASSUME RearmInv, BeliefInv, Sysfs, UNCHANGED build
  PROVE  RearmInv'
  <1>1. CASE image_write
    BY Zenon, <1>1, RearmQuiet DEF image_write, sharedVars, peerVars, rings
  <1>2. CASE StartBusy
    BY Zenon, <1>2, RearmRefresh DEF StartBusy
  <1>3. CASE RearmBusy
    BY Zenon, <1>3, RearmRefresh DEF RearmBusy
  <1>4. CASE affinity_state_show
    BY Zenon, <1>4, RearmRefresh DEF affinity_state_show
  <1>5. CASE rearm_store
    BY Zenon, <1>5, RearmQuiet DEF rearm_store, sharedVars, peerVars, rings
  <1>6. CASE mailmsg_stop_store
    <2>1. /\ mailmsg_state = "ACTIVE" /\ UNCHANGED <<cpu3, cpu3_to_linux>>
          /\ \/ mailmsg_state' = "ACTIVE" /\ UNCHANGED <<linux_to_cpu3, a2b>>
             \/ mailmsg_state' = "STOPPING"
      BY Zenon, <1>6 DEF mailmsg_stop_store, peerVars
    <2> QED BY Zenon, <2>1 DEF RearmInv, Leaving, BeforeStop, Monitored
  <1>7. CASE mailmsg_response_show
    <2>1. /\ UNCHANGED <<mailmsg_state, cpu3, linux_to_cpu3, a2b>>
          /\ cpu3_to_linux'[0] = <<>>
      BY Zenon, <1>7, PriorityAssumption DEF mailmsg_response_show, peerVars
    <2>2. NothingNew(cpu3_to_linux[0], cpu3_to_linux'[0])
      BY <2>1 DEF NothingNew, Lacks
    <2> QED BY Zenon, <2>1, <2>2, RearmKept
  <1> QED BY Zenon, <1>1, <1>2, <1>3, <1>4, <1>5, <1>6, <1>7, RearmLaunch DEF Sysfs

\* Every use of the device.
LEMMA RearmUser ==
  ASSUME RearmInv, BeliefInv, User, build.used \subseteq Priority, UNCHANGED build
  PROVE  RearmInv'
  <1>1. CASE r1_amp_mailmsg_user_open
    BY Zenon, <1>1, RearmQuiet DEF r1_amp_mailmsg_user_open, sharedVars, peerVars, rings
  <1>2. CASE r1_amp_mailmsg_user_release
    BY Zenon, <1>2, RearmQuiet DEF r1_amp_mailmsg_user_release, sharedVars, peerVars, rings
  <1>3. ASSUME NEW p \in Priority, mailmsg_receive(p)
        PROVE  RearmInv'
    <2>1. /\ UNCHANGED <<mailmsg_state, cpu3, linux_to_cpu3, a2b>>
          /\ cpu3_to_linux[p] # <<>>
          /\ cpu3_to_linux' = [cpu3_to_linux EXCEPT ![p] = Tail(@)]
      BY Zenon, <1>3 DEF mailmsg_receive, peerVars
    <2>2. NothingNew(cpu3_to_linux[0], cpu3_to_linux'[0])
      BY Zenon, <2>1, Receiving DEF BeliefInv, Typed
    <2> QED BY Zenon, <2>1, <2>2, RearmKept
  <1> QED BY Zenon, <1>1, <1>2, <1>3, RearmSend DEF User

\* Every work, timer and callback.  A STOP_REFUSED shows a build that does not
\* stop, and so a CPU3 that has not left.
LEMMA RearmWorks ==
  ASSUME RearmInv, BeliefInv, Works, UNCHANGED build
  PROVE  RearmInv'
  <1>0. Len(cpu3_to_linux[0]) \in Nat
    BY PriorityAssumption DEF BeliefInv, Typed
  <1>1. CASE r1_amp_mailmsg_lifecycle_timeout_work
    <2>1. UNCHANGED <<cpu3, rings, a2b>>
      BY Zenon, <1>1 DEF r1_amp_mailmsg_lifecycle_timeout_work, sharedVars, peerVars, rings
    <2>2. \/ UNCHANGED mailmsg_state
          \/ mailmsg_state' = "OFFLINE"
          \/ mailmsg_state = "STARTING" /\ mailmsg_state' = "START_TIMEOUT"
          \/ mailmsg_state = "STOPPING" /\ mailmsg_state' = "STOP_TIMEOUT"
      BY Zenon, <1>1 DEF r1_amp_mailmsg_lifecycle_timeout_work, RefreshAffinity, SetTimeout
    <2> QED BY Zenon, <2>1, <2>2, RearmQuiet
  <1>2. CASE r1_amp_affinity_work
    <2>1. UNCHANGED <<sharedVars, peerVars>>
      BY Zenon, <1>2 DEF r1_amp_affinity_work
    <2>2. CASE UNCHANGED mailmsg_state
      BY Zenon, <2>1, <2>2, RearmQuiet DEF sharedVars, peerVars, rings
    <2>3. CASE \E observed \in Observed : RefreshAffinity(observed)
      BY Zenon, <2>1, <2>3, RearmRefresh
    <2> QED BY Zenon, <1>2, <2>2, <2>3 DEF r1_amp_affinity_work
  <1>3. CASE TimeoutFires
    BY Zenon, <1>3, RearmQuiet DEF TimeoutFires, sharedVars, peerVars, rings
  <1>4. CASE DeadlinePasses
    BY Zenon, <1>4, RearmQuiet DEF DeadlinePasses, sharedVars, peerVars, rings
  <1>5. ASSUME NEW p \in Priority, r1_amp_mbox_rx_callback(p)
        PROVE  RearmInv'
    BY Zenon, <1>5, RearmQuiet DEF r1_amp_mbox_rx_callback, peerVars, rings
  <1>6. ASSUME NEW n \in 0 .. Len(cpu3_to_linux[0]), ControlRun(n),
               \/ mailmsg_state' = mailmsg_state
               \/ mailmsg_state = "STARTING"
                  /\ mailmsg_state' \in {"START_TIMEOUT", "ACTIVE"}
               \/ mailmsg_state = "STOPPING" /\ mailmsg_state' = "STOP_TIMEOUT"
        PROVE  RearmInv'
    <2>1. /\ UNCHANGED <<cpu3, linux_to_cpu3>>
          /\ NothingNew(cpu3_to_linux[0], cpu3_to_linux'[0])
      BY Zenon, <1>6, ControlPeer
    <2>2. a2b' = a2b
      BY Zenon, <1>6 DEF ControlRun
    <2> QED BY Zenon, <1>6, <2>1, <2>2, RearmKept
  <1>7. CASE ControlNothing
    <2> DEFINE n == IF mailmsg_state \in LifecyclePending
                    THEN Len(cpu3_to_linux[0]) ELSE 0
    <2>1. ControlRun(n) /\ UNCHANGED mailmsg_state
      BY Zenon, <1>7 DEF ControlNothing
    <2>2. n \in 0 .. Len(cpu3_to_linux[0])
      BY <1>0
    <2> HIDE DEF n
    <2> QED BY Zenon, <2>1, <2>2, <1>6
  <1>8. ASSUME NEW n \in 0 .. RingCapacity, ControlTimeout(n)
        PROVE  RearmInv'
    <2>1. /\ ControlRun(n) /\ n <= Len(cpu3_to_linux[0])
          /\ \/ mailmsg_state = "STARTING" /\ mailmsg_state' = "START_TIMEOUT"
             \/ mailmsg_state = "STOPPING" /\ mailmsg_state' = "STOP_TIMEOUT"
      BY Zenon, <1>8 DEF ControlTimeout, SetTimeout
    <2>2. n \in 0 .. Len(cpu3_to_linux[0])
      BY <1>0, <2>1, BoundsAssumption
    <2> QED BY Zenon, <2>1, <2>2, <1>6
  <1>9. ASSUME NEW n \in 0 .. RingCapacity, ControlSessionReady(n)
        PROVE  RearmInv'
    <2>1. /\ ControlRun(n) /\ n \in 1 .. Len(cpu3_to_linux[0])
          /\ mailmsg_state = "STARTING" /\ mailmsg_state' = "ACTIVE"
      BY Zenon, <1>9 DEF ControlSessionReady, FirstDecisive
    <2>2. n \in 0 .. Len(cpu3_to_linux[0])
      BY <1>0, <2>1
    <2> QED BY Zenon, <2>1, <2>2, <1>6
  <1>10. ASSUME NEW n \in 0 .. RingCapacity, ControlStopReply(n)
         PROVE  RearmInv'
    <2>1. /\ ControlRun(n) /\ n \in 1 .. Len(cpu3_to_linux[0])
          /\ mailmsg_state = "STOPPING"
          /\ \/ mailmsg_state' = "STOPPING"
             \/ /\ mailmsg_state' = "ACTIVE"
                /\ cpu3_to_linux[0][n].type = "STOP_REFUSED"
      BY Zenon, <1>10 DEF ControlStopReply, FirstDecisive
    <2>2. n \in 0 .. Len(cpu3_to_linux[0])
      BY <1>0, <2>1
    <2>3. CASE mailmsg_state' = "STOPPING"
      BY Zenon, <2>1, <2>2, <2>3, <1>6
    <2>4. CASE mailmsg_state' = "ACTIVE" /\ cpu3_to_linux[0][n].type = "STOP_REFUSED"
      <3>1. ~build.self_off => ~build.stop_control
        BY Zenon, <2>1, <2>4 DEF RearmInv, Lacks
      <3>2. UNCHANGED <<cpu3, linux_to_cpu3, a2b>>
        BY Zenon, <2>1, <2>2, ControlPeer DEF ControlRun
      <3> QED BY Zenon, <2>1, <2>4, <3>1, <3>2 DEF RearmInv, BeforeStop, Monitored, Leaving
    <2> QED BY Zenon, <2>1, <2>3, <2>4
  <1> QED BY Zenon, <1>1, <1>2, <1>3, <1>4, <1>5, <1>7, <1>8, <1>9, <1>10
             DEF Works, r1_amp_mailmsg_control_work

\* Every step of CPU3.
LEMMA RearmCpu3 ==
  ASSUME RearmInv, BeliefInv, Cpu3, UNCHANGED build
  PROVE  RearmInv'
  <1>1. CASE Cpu3Boot
    BY Zenon, <1>1 DEF Cpu3Boot, linuxVars, sharedVars, RearmInv, Leaving
  <1>2. CASE mailmsg_service_session_ready
    <2> DEFINE ready == [type |-> "SESSION_READY", word |-> cpu3_generation]
    <2>1. /\ UNCHANGED <<mailmsg_state, linux_to_cpu3, a2b>>
          /\ cpu3 \notin Leaving /\ cpu3' \notin Leaving
          /\ \/ UNCHANGED cpu3_to_linux
             \/ cpu3_to_linux' = [cpu3_to_linux EXCEPT ![0] = Append(@, ready)]
      BY Zenon, <1>2 DEF mailmsg_service_session_ready, linuxVars, sharedVars, Leaving
    <2>2. cpu3_to_linux \in [Priority -> Seq(Frame)] /\ 0 \in Priority
      BY Zenon, PriorityAssumption DEF BeliefInv, Typed
    <2>3. ready \in Frame /\ ready.type # "STOP_REFUSED"
      BY Zenon DEF BeliefInv, Typed, Frame, FrameType
    <2> HIDE DEF ready
    <2>4. Lacks(cpu3_to_linux[0], "STOP_REFUSED") =>
            Lacks(Append(cpu3_to_linux[0], ready), "STOP_REFUSED")
      BY Zenon, <2>2, <2>3, Appended
    <2>5. Lacks(cpu3_to_linux[0], "STOP_REFUSED") =>
            Lacks(cpu3_to_linux'[0], "STOP_REFUSED")
      BY ZenonT(30), <2>1, <2>2, <2>4
    <2> QED BY Zenon, <2>1, <2>5 DEF RearmInv, Leaving
  <1>3. CASE ServeUnpublished
    BY Zenon, <1>3, RearmQuiet DEF ServeUnpublished, linuxVars, sharedVars, rings
  <1>4. ASSUME NEW p \in Priority, NEW replies \in Seq(Frame),
               NEW next \in {"running", "stopping"}, ServeFrame(p, replies, next),
               next = "stopping" => build.self_off
                 \/ (build.stop_control /\ ~Lacks(linux_to_cpu3[0], "STOP_REQUEST")),
               build.stop_control => Lacks(replies, "STOP_REFUSED")
        PROVE  RearmInv'
    <2>1. /\ NothingNew(linux_to_cpu3[0], linux_to_cpu3'[0])
          /\ build.stop_control /\ Lacks(cpu3_to_linux[0], "STOP_REFUSED") =>
               Lacks(cpu3_to_linux'[0], "STOP_REFUSED")
      BY ZenonT(30), <1>4, Serving DEF BeliefInv
    <2>2. cpu3 = "running" /\ cpu3' = next /\ UNCHANGED <<mailmsg_state, a2b>>
      BY Zenon, <1>4 DEF ServeFrame, linuxVars
    <2> QED BY Zenon, <1>4, <2>1, <2>2 DEF RearmInv, NothingNew, Leaving
  <1>5. CASE ServeStop
    <2> DEFINE reply == [type |-> IF build.stop_control THEN "STOP_READY"
                                  ELSE "STOP_REFUSED",
                         word |-> Head(linux_to_cpu3[0]).word]
               next == IF build.stop_control /\ ~Full(cpu3_to_linux[0])
                       THEN "stopping" ELSE "running"
    <2>1. /\ linux_to_cpu3[0] # <<>> /\ Head(linux_to_cpu3[0]).type = "STOP_REQUEST"
          /\ ServeFrame(0, <<reply>>, next)
      BY Zenon, <1>5 DEF ServeStop
    <2>2. linux_to_cpu3[0] \in Seq(Frame) /\ 0 \in Priority
      BY Zenon, PriorityAssumption DEF BeliefInv, Typed
    <2>3. Head(linux_to_cpu3[0]) \in Frame /\ ~Lacks(linux_to_cpu3[0], "STOP_REQUEST")
      BY <2>1, <2>2 DEF Lacks
    <2>4. <<reply>> \in Seq(Frame)
      BY <2>3 DEF Frame, FrameType
    <2>5. build.stop_control => reply.type # "STOP_REFUSED"
      BY Zenon
    <2> HIDE DEF reply
    <2>6. build.stop_control => Lacks(<<reply>>, "STOP_REFUSED")
      BY <2>5 DEF Lacks
    <2>7. next \in {"running", "stopping"} /\ (next = "stopping" => build.stop_control)
      BY Zenon
    <2> HIDE DEF next
    <2> QED BY Zenon, <2>1, <2>2, <2>3, <2>4, <2>6, <2>7, <1>4
  <1>6. CASE Cpu3Quiesce
    BY Zenon, <1>6 DEF Cpu3Quiesce, linuxVars, RearmInv, Leaving
  <1>7. CASE mailmsg_arch_cpu_off
    BY Zenon, <1>7 DEF mailmsg_arch_cpu_off, linuxVars, sharedVars, RearmInv, Leaving
  <1>8. ASSUME NEW p \in Priority, mailmsg_mailbox_a2b_matrix_isr(p)
        PROVE  RearmInv'
    BY ZenonT(30), <1>8 DEF mailmsg_mailbox_a2b_matrix_isr, linuxVars, RearmInv
  <1>9. ASSUME NEW p \in Priority, ServeNothing(p)
        PROVE  RearmInv'
    BY Zenon, <1>9, RearmQuiet DEF ServeNothing, linuxVars, sharedVars, rings
  <1>10. ASSUME NEW p \in Priority, ServeBusiness(p)
         PROVE  RearmInv'
    <2>1. Business \in Frame /\ Business.type # "STOP_REFUSED"
      BY BoundsAssumption DEF Business, Frame, FrameType, Word
    <2>2. /\ <<>> \in Seq(Frame) /\ <<Business>> \in Seq(Frame)
          /\ <<Business, Business>> \in Seq(Frame)
      BY <2>1
    <2>3. /\ Lacks(<<>>, "STOP_REFUSED") /\ Lacks(<<Business>>, "STOP_REFUSED")
          /\ Lacks(<<Business, Business>>, "STOP_REFUSED")
      BY <2>1 DEF Lacks
    <2> QED BY ZenonT(30), <1>10, <2>2, <2>3, <1>4 DEF ServeBusiness
  <1> QED BY Zenon, <1>1, <1>2, <1>3, <1>5, <1>6, <1>7, <1>8, <1>9, <1>10 DEF Cpu3

\* After a controlled stop no doorbell is left pending, in whatever order the
\* stop, the last frames and their doorbells, timeouts and refusals come.
THEOREM RearmUnblocked == Spec => []RearmNotBlocked
  <1> DEFINE Inv == RearmInv /\ BeliefInv /\ build \in Builds
  <1>1. Init => Inv
    BY InitPeer, PriorityAssumption
       DEF Init, RearmInv, Lacks, BeforeStop, Monitored
  <1>2. Inv /\ [Next]_vars => Inv'
    <2> SUFFICES ASSUME Inv, [Next]_vars
                 PROVE  Inv'
      BY Zenon
    <2>1. BeliefInv' /\ build' \in Builds
      BY Zenon, StepPeer
    <2>2. CASE Next
      <3>1. build.used \subseteq Priority
        BY Zenon, BuildAssumption DEF Build
      <3> QED BY Zenon, <2>1, <2>2, <3>1, RearmSysfs, RearmUser, RearmWorks, RearmCpu3 DEF Next
    <2>3. CASE UNCHANGED vars
      BY Zenon, <2>1, <2>3, RearmQuiet DEF vars, systemVars, sharedVars, peerVars, rings
    <2> QED BY Zenon, <2>2, <2>3
  <1>3. Inv => RearmNotBlocked
    BY Zenon DEF RearmInv, RearmNotBlocked
  <1> QED BY <1>1, <1>2, <1>3, PTL DEF Spec
===============================================================================
