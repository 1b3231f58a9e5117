----------------------------- MODULE RuntimeProofs -----------------------------
(***************************************************************************)
(* What AmpSession promises, for every image size and any number of files, *)
(* and what the launcher makes of it, for any number of launchers,         *)
(* processes, commands and reboots.                                        *)
(*                                                                         *)
(* The argument for the session.  A phase other than UNARMED, and a CPU3   *)
(* that is up, both go back to a CPU_ON that no rearm has cleared, since   *)
(* rearm waits for OFF; only firmware that lags may hand rearm an OFF too  *)
(* early.  So a new CPU_ON finds no OFFLINE session to contradict.         *)
(*                                                                         *)
(* The argument for the launcher.  A launcher in the middle of an image    *)
(* has written all of it so far, so nobody else is at its offset; a pid it *)
(* is about to signal was a server's and is not given out again; and in    *)
(* the calm at most one command is under way, so that a server is the one  *)
(* in the pidfile or the child about to be put there.                      *)
(***************************************************************************)
EXTENDS Runtime, TLAPS

-----------------------------------------------------------------------------
(* The session *)

\* The inductive invariant of the driver's session.
SessionInv ==
  /\ SessionTypeOK
  /\ phase # "UNARMED" => attempted
  /\ ~lag /\ ~attempted => power = "off"
  /\ OfflineMeansOff
  /\ OpenFilesOnlyWhileUsable

\* The probed device satisfies the invariant.
LEMMA SessionInvInit == SessionInit => SessionInv
<1> SUFFICES ASSUME SessionInit PROVE SessionInv
  BY Zenon
<1>1. image \in 0 .. ImageSize /\ files \in 0 .. MaxOpen /\ ~(files > 0)
  BY SessionAssumption DEF SessionInit
<1> QED BY Zenon, <1>1 DEF SessionInit, SessionInv, SessionTypeOK, Phase, OfflineMeansOff,
                    OpenFilesOnlyWhileUsable

\* Every attribute, file call, work and power step keeps the invariant.
LEMMA SessionInvStep == SessionInv /\ [SessionNext]_sessionState => SessionInv'
<1> SUFFICES ASSUME SessionInv, [SessionNext]_sessionState PROVE SessionInv'
  BY Zenon
<1> USE SessionAssumption DEF SessionInv, SessionTypeOK, Phase, OfflineMeansOff,
        OpenFilesOnlyWhileUsable
<1>1. CASE LoadChunk
  BY <1>1 DEF LoadChunk
<1>2. CASE Launch
  BY Zenon, <1>2 DEF Launch
<1>3. CASE Ready \/ Expire \/ RefuseStop
  BY Zenon, <1>3 DEF Ready, Expire, RefuseStop
<1>4. CASE RequestStop
  BY <1>4 DEF RequestStop
<1>5. CASE Notice
  BY Zenon, <1>5 DEF Notice, Watched
<1>6. CASE Rearm
  <2>1. image' \in 0 .. ImageSize
    BY <1>6 DEF Rearm
  <2>2. ~lag => power = "off"
    BY Zenon, <1>6 DEF Rearm, SaysOff
  <2>3. files' \in 0 .. MaxOpen /\ ~(files' > 0)
    BY <1>6 DEF Rearm
  <2>4. lag' \in BOOLEAN /\ (~lag' => power' = "off")
    BY Zenon, <1>6, <2>2 DEF Rearm
  <2>5. /\ phase' = "UNARMED" /\ attempted' = FALSE
        /\ power' \in {"off", "pending", "on"}
    BY Zenon, <1>6 DEF Rearm
  <2> QED BY Zenon, <2>1, <2>3, <2>4, <2>5
<1>7. CASE OpenFile \/ CloseFile
  BY <1>7 DEF OpenFile, CloseFile
<1>8. CASE PowerUp \/ PowerDown
  BY Zenon, <1>8 DEF PowerUp, PowerDown
<1>9. CASE UNCHANGED sessionState
  BY Zenon, <1>9 DEF sessionState
<1> QED BY Zenon, <1>1, <1>2, <1>3, <1>4, <1>5, <1>6, <1>7, <1>8, <1>9 DEF SessionNext

\* OFFLINE is never reported of a CPU3 that is running, and a file is open only
\* in a session that is active or over.
THEOREM SessionSafe == SessionSpec => [](OfflineMeansOff /\ OpenFilesOnlyWhileUsable)
<1>1. SessionInv => OfflineMeansOff /\ OpenFilesOnlyWhileUsable
  BY Zenon DEF SessionInv
<1> QED BY SessionInvInit, SessionInvStep, <1>1, PTL DEF SessionSpec

\* A timeout is left only by an observed OFF or by a rearm.
THEOREM SessionTimeouts == SessionSpec => TimeoutIsTerminal
<1>1. ASSUME [SessionNext]_sessionState, phase \in {"START_TIMEOUT", "STOP_TIMEOUT"},
             SessionInv
      PROVE  phase' \in {phase, "OFFLINE", "UNARMED"}
  BY Zenon, <1>1 DEF SessionNext, LoadChunk, Launch, Ready, Expire, RequestStop, RefuseStop,
              Notice, Rearm, OpenFile, CloseFile, PowerUp, PowerDown, sessionState, SessionInv
<1> QED BY <1>1, SessionInvInit, SessionInvStep, PTL DEF SessionSpec, TimeoutIsTerminal

\* The image is written only while CPU3 is off, on firmware that does not lag.
THEOREM SessionImage == SessionSpec => ImageWrittenOnlyWhileOff
<1>1. ASSUME [SessionNext]_sessionState, ~lag, image' > image, SessionInv
      PROVE  power = "off"
  <2>1. CASE LoadChunk
    BY Zenon, <1>1, <2>1 DEF LoadChunk, SessionInv
  <2>2. CASE Rearm
    BY <1>1, <2>2 DEF Rearm, SessionInv, SessionTypeOK
  <2>3. CASE ~LoadChunk /\ ~Rearm
    BY <1>1, <2>3
    DEF SessionNext, Launch, Ready, Expire, RequestStop, RefuseStop, Notice, OpenFile,
        CloseFile, PowerUp, PowerDown, sessionState, SessionInv, SessionTypeOK
  <2> QED BY Zenon, <2>1, <2>2, <2>3
<1> QED BY <1>1, SessionInvInit, SessionInvStep, PTL
        DEF SessionSpec, ImageWrittenOnlyWhileOff

-----------------------------------------------------------------------------
(* The launcher: types and frames *)

Label == {"idle", "failed", "affinity", "state", "rearm", "image", "start", "verify",
          "verify_state", "api", "pid", "spawn", "pidfile", "identify", "wait", "stop",
          "kill", "gone", "stop_affinity", "stop_zephyr", "stop_verify", "stop_verify_off"}
Affinity == {"off", "pending", "on", "error"}

\* Where a command holds a pid.
Holding == {"pidfile", "identify", "kill", "gone"}

RuntimeTyped ==
  /\ calm \in BOOLEAN
  /\ at \in [Launcher -> Label]
  /\ affinity \in [Launcher -> Affinity]
  /\ found \in [Launcher -> Phase]
  /\ pid \in [Launcher -> Pid \cup {0}]
  /\ withZephyr \in [Launcher -> BOOLEAN]
  /\ offset \in [Launcher -> 0 .. ImageSize]
  /\ writers \in Seq(Launcher)
  /\ process \in [Pid -> {"free", "shell", "server", "other"}]
  /\ pidfile \in Pid \cup {0}
  /\ \A l \in Launcher : at[l] \in Holding => pid[l] \in Pid

\* Steps of one launcher, by what they are about.
Starting(l) ==
  \/ StartAffinity(l) \/ StartState(l) \/ StartRearm(l) \/ StartImage(l)
  \/ StartStart(l) \/ StartVerify(l) \/ StartVerifyState(l)
Serving(l) ==
  \/ ServerApi(l) \/ ServerPid(l) \/ ServerSpawn(l) \/ ServerPidfile(l)
  \/ ServerIdentify(l) \/ ServerWait(l)
Stopping(l) ==
  \/ StopPid(l) \/ StopKill(l) \/ StopGone(l) \/ StopAffinity(l)
  \/ StopZephyr(l) \/ StopVerify(l) \/ StopVerifyOff(l)

LEMMA RuntimeCases ==
  ASSUME [Next]_vars
  PROVE  \/ \E l \in Launcher :
              Command(l) \/ Killed(l) \/ Starting(l) \/ Serving(l) \/ Stopping(l)
         \/ \E p \in Pid : ProcessMoves(p)
         \/ SessionMoves \/ Reboot \/ UNCHANGED vars
  BY Zenon DEF Next, Starting, Serving, Stopping

\* What a step that only moves the command does.
LEMMA Proceeding ==
  ASSUME RuntimeTyped, NEW l \in Launcher, NEW label \in Label, Proceed(l, label)
  PROVE  /\ at' = [at EXCEPT ![l] = label]
         /\ label \in Idle =>
              /\ affinity' = [affinity EXCEPT ![l] = "off"]
              /\ found' = [found EXCEPT ![l] = "UNARMED"]
              /\ pid' = [pid EXCEPT ![l] = 0]
              /\ withZephyr' = [withZephyr EXCEPT ![l] = FALSE]
              /\ offset' = [offset EXCEPT ![l] = 0]
         /\ label \notin Idle => UNCHANGED <<affinity, found, pid, withZephyr, offset>>
         /\ UNCHANGED <<sessionState, limits, writers, serverVars>>
  BY Zenon DEF Proceed, End, Go

LEMMA ProceedingTyped ==
  ASSUME RuntimeTyped, NEW l \in Launcher, NEW label \in Label, Proceed(l, label),
         label \in Holding => at[l] \in Holding
  PROVE  RuntimeTyped'
  <1>1. UNCHANGED <<calm, writers, process, pidfile>> /\ at' = [at EXCEPT ![l] = label]
    BY Zenon, Proceeding DEF limits, serverVars
  <1>2. CASE label \in Idle
    <2>1. label \notin Holding
      BY Zenon, <1>2 DEF Idle, Holding
    <2>2. /\ affinity' = [affinity EXCEPT ![l] = "off"]
          /\ found' = [found EXCEPT ![l] = "UNARMED"]
          /\ pid' = [pid EXCEPT ![l] = 0]
          /\ withZephyr' = [withZephyr EXCEPT ![l] = FALSE]
          /\ offset' = [offset EXCEPT ![l] = 0]
      BY Zenon, <1>2, Proceeding
    <2> QED BY <1>1, <2>1, <2>2, SessionAssumption DEF RuntimeTyped, Affinity, Phase
  <1>3. CASE label \notin Idle
    <2>1. UNCHANGED <<affinity, found, pid, withZephyr, offset>>
      BY Zenon, <1>3, Proceeding
    <2> QED BY Zenon, <1>1, <2>1 DEF RuntimeTyped
  <1> QED BY Zenon, <1>2, <1>3

LEMMA EndingTyped ==
  ASSUME RuntimeTyped, NEW l \in Launcher, NEW label \in Label \ Holding, End(l, label),
         UNCHANGED <<calm, writers, process>>, pidfile' \in {pidfile, 0}
  PROVE  RuntimeTyped'
  BY SessionAssumption DEF RuntimeTyped, End, Go, Affinity, Phase

LEMMA ReadingTyped ==
  ASSUME RuntimeTyped, SessionTypeOK, SessionTypeOK', NEW l \in Launcher,
         NEW label \in Label \ Holding, ReadAffinity(l, label)
  PROVE  RuntimeTyped'
  <1>1. UNCHANGED <<calm, pid, withZephyr, offset, writers, process, pidfile>>
    BY Zenon DEF ReadAffinity, limits, serverVars
  <1>2. \E a \in Affinity : affinity' = [affinity EXCEPT ![l] = a]
    BY Zenon DEF ReadAffinity, SessionTypeOK, Affinity
  <1>3. found' = [found EXCEPT ![l] = phase'] /\ phase' \in Phase
    BY Zenon DEF ReadAffinity, SessionTypeOK
  <1>4. at' = [at EXCEPT ![l] = label]
    BY Zenon DEF ReadAffinity, Go
  <1> QED BY Zenon, <1>1, <1>2, <1>3, <1>4 DEF RuntimeTyped

\* Every step of a launcher is a step of the session or leaves it alone.
LEMMA LauncherSession ==
  ASSUME NEW l \in Launcher,
         Command(l) \/ Killed(l) \/ Starting(l) \/ Serving(l) \/ Stopping(l)
  PROVE  [SessionNext]_sessionState
  <1>1. CASE Command(l) \/ Killed(l)
    BY Zenon, <1>1 DEF Command, Killed, Proceed
  <1>2. CASE Serving(l)
    BY Zenon, <1>2 DEF Serving, ServerApi, ServerPid, ServerSpawn, ServerPidfile, ServerIdentify,
         ServerWait, Proceed
  <1>3. CASE StartAffinity(l) \/ StartVerify(l) \/ StopAffinity(l) \/ StopVerify(l)
    BY Zenon, <1>3 DEF StartAffinity, StartVerify, StopAffinity, StopVerify, ReadAffinity, Refresh,
         SessionNext
  <1>4. CASE StartState(l) \/ StartVerifyState(l) \/ StopPid(l) \/ StopKill(l) \/ StopGone(l)
             \/ StopVerifyOff(l)
    BY Zenon, <1>4 DEF StartState, StartVerifyState, StopPid, StopKill, StopGone, StopVerifyOff, Proceed
  <1>5. CASE StartRearm(l) \/ StartImage(l) \/ StartStart(l) \/ StopZephyr(l)
    BY Zenon, <1>5 DEF StartRearm, StartImage, StartStart, StopZephyr, Proceed, SessionNext
  <1> QED BY Zenon, <1>1, <1>2, <1>3, <1>4, <1>5 DEF Starting, Stopping

\* A reboot apart, the board does only what the session allows.
LEMMA SessionStays ==
  ASSUME SessionInv, [Next]_vars
  PROVE  SessionInv'
  <1>1. CASE Reboot
    <2>1. /\ phase' = "UNARMED" /\ image' = 0 /\ attempted' = FALSE /\ files' = 0
          /\ power' = "off" /\ lag' = lag
      BY Zenon, <1>1 DEF Reboot
    <2>2. image' \in 0 .. ImageSize /\ files' \in 0 .. MaxOpen /\ ~(files' > 0)
      BY <2>1, SessionAssumption
    <2> QED BY Zenon, <2>1, <2>2 DEF SessionInv, SessionTypeOK, Phase, OfflineMeansOff,
                 OpenFilesOnlyWhileUsable
  <1>2. CASE ~Reboot
    <2>1. [SessionNext]_sessionState
      <3>1. CASE \E p \in Pid : ProcessMoves(p)
        BY Zenon, <3>1 DEF ProcessMoves
      <3>2. CASE SessionMoves
        BY Zenon, <3>2 DEF SessionMoves, SessionNext
      <3>3. CASE UNCHANGED vars
        BY Zenon, <3>3 DEF vars
      <3> QED BY Zenon, <1>2, <3>1, <3>2, <3>3, RuntimeCases, LauncherSession
    <2> QED BY Zenon, <2>1, SessionInvStep
  <1> QED BY Zenon, <1>1, <1>2

\* The launcher, its children and the files keep their types.
LEMMA TypedStays ==
  ASSUME RuntimeTyped, SessionTypeOK, SessionTypeOK', [Next]_vars
  PROVE  RuntimeTyped'
  <1>1. ASSUME NEW l \in Launcher, Command(l) PROVE RuntimeTyped'
    <2>1. UNCHANGED <<calm, affinity, found, pid, offset, writers, process, pidfile>>
      BY Zenon, <1>1 DEF Command, serverVars
    <2>2. \E label \in {"affinity", "stop"} : at' = [at EXCEPT ![l] = label]
      BY Zenon, <1>1 DEF Command, Go
    <2>3. withZephyr' \in [Launcher -> BOOLEAN]
      BY Zenon, <1>1 DEF Command, RuntimeTyped
    <2> QED BY Zenon, <2>1, <2>2, <2>3 DEF RuntimeTyped, Label, Holding
  <1>2. ASSUME NEW l \in Launcher, Killed(l) PROVE RuntimeTyped'
    BY Zenon, <1>2, ProceedingTyped DEF Killed, Label, Holding
  <1>3. ASSUME NEW l \in Launcher,
               StartAffinity(l) \/ StartVerify(l) \/ StopAffinity(l) \/ StopVerify(l)
        PROVE  RuntimeTyped'
    <2>1. {"state", "verify_state", "stop_zephyr", "stop_verify_off"} \subseteq Label \ Holding
      BY Zenon DEF Label, Holding
    <2> QED BY Zenon, <1>3, <2>1, ReadingTyped DEF StartAffinity, StartVerify, StopAffinity, StopVerify
  <1>4. ASSUME NEW l \in Launcher,
               StartState(l) \/ StartVerifyState(l) \/ ServerApi(l) \/ ServerPid(l)
               \/ ServerWait(l) \/ StopVerifyOff(l)
        PROVE  RuntimeTyped'
    <2>1. \E label \in {"api", "failed", "rearm", "image", "idle", "pid", "wait", "spawn"} :
            Proceed(l, label)
      BY Zenon, <1>4 DEF StartState, StartVerifyState, ServerApi, ServerPid, ServerWait, StopVerifyOff
    <2>2. {"api", "failed", "rearm", "image", "idle", "pid", "wait", "spawn"}
            \subseteq Label \ Holding
      BY Zenon DEF Label, Holding
    <2> QED BY Zenon, <2>1, <2>2, ProceedingTyped
  <1>5. ASSUME NEW l \in Launcher, StartRearm(l) PROVE RuntimeTyped'
    <2>1. CASE Proceed(l, "failed")
      BY Zenon, <2>1, ProceedingTyped DEF Label, Holding
    <2>2. CASE Rearm /\ writers' = <<>> /\ Go(l, "image")
               /\ UNCHANGED <<limits, affinity, found, pid, withZephyr, offset, serverVars>>
      <3>1. UNCHANGED <<calm, affinity, found, pid, withZephyr, offset, process, pidfile>>
            /\ at' = [at EXCEPT ![l] = "image"] /\ writers' \in Seq(Launcher)
        BY <2>2 DEF limits, serverVars, Go
      <3> QED BY Zenon, <3>1 DEF RuntimeTyped, Label, Holding
    <2> QED BY Zenon, <1>5, <2>1, <2>2 DEF StartRearm
  <1>6. ASSUME NEW l \in Launcher, StartImage(l) PROVE RuntimeTyped'
    <2>1. CASE Proceed(l, "failed")
      BY Zenon, <2>1, ProceedingTyped DEF Label, Holding
    <2>2. CASE ~Proceed(l, "failed")
      <3>1. /\ ChunkAccepted(l) /\ writers' = Append(writers, l)
            /\ offset' = [offset EXCEPT ![l] = @ + 1]
            /\ at' = [at EXCEPT ![l] = IF offset'[l] = ImageSize THEN "start" ELSE "image"]
            /\ UNCHANGED <<calm, affinity, found, pid, withZephyr, process, pidfile>>
        BY Zenon, <1>6, <2>2 DEF StartImage, Go, limits, serverVars
      <3>2. writers' \in Seq(Launcher)
        BY <3>1 DEF RuntimeTyped
      <3>3. offset' \in [Launcher -> 0 .. ImageSize]
        <4>1. offset[l] + 1 \in 0 .. ImageSize
          BY <3>1, SessionAssumption DEF ChunkAccepted, RuntimeTyped, SessionTypeOK
        <4> QED BY Zenon, <3>1, <4>1 DEF RuntimeTyped
      <3>4. at' \in [Launcher -> Label] /\ \A k \in Launcher : at'[k] \in Holding => at[k] \in Holding
        BY Zenon, <3>1 DEF RuntimeTyped, Label, Holding
      <3> QED BY Zenon, <3>1, <3>2, <3>3, <3>4 DEF RuntimeTyped
    <2> QED BY Zenon, <2>1, <2>2
  <1>7. ASSUME NEW l \in Launcher, StartStart(l) PROVE RuntimeTyped'
    <2>1. {"verify", "failed"} \subseteq Label \ Holding
      BY Zenon DEF Label, Holding
    <2>2. CASE Proceed(l, "failed")
      BY Zenon, <2>1, <2>2, ProceedingTyped
    <2>3. CASE ~Proceed(l, "failed")
      <3>1. UNCHANGED <<calm, writers, process, pidfile>>
        BY Zenon, <1>7, <2>3 DEF StartStart, limits, serverVars
      <3>2. \E label \in {"verify", "failed"} : End(l, label)
        BY Zenon, <1>7, <2>3 DEF StartStart
      <3> QED BY Zenon, <2>1, <3>1, <3>2, EndingTyped
    <2> QED BY Zenon, <2>2, <2>3
  <1>8. ASSUME NEW l \in Launcher, ServerSpawn(l) PROVE RuntimeTyped'
    <2>1. CASE Proceed(l, "failed")
      BY Zenon, <2>1, ProceedingTyped DEF Label, Holding
    <2>2. CASE ~Proceed(l, "failed")
      <3>1. PICK p \in Pid :
              /\ process' = [process EXCEPT ![p] = "shell"] /\ pid' = [pid EXCEPT ![l] = p]
              /\ at' = [at EXCEPT ![l] = "pidfile"]
        BY Zenon, <1>8, <2>2 DEF ServerSpawn, Go
      <3>2. UNCHANGED <<calm, affinity, found, withZephyr, offset, writers, pidfile>>
        BY Zenon, <1>8, <2>2 DEF ServerSpawn, limits
      <3> QED BY Zenon, <3>1, <3>2 DEF RuntimeTyped, Label
    <2> QED BY Zenon, <2>1, <2>2
  <1>9. ASSUME NEW l \in Launcher, ServerPidfile(l) PROVE RuntimeTyped'
    <2>1. /\ at[l] = "pidfile" /\ pidfile' = pid[l] /\ at' = [at EXCEPT ![l] = "identify"]
          /\ UNCHANGED <<calm, affinity, found, pid, withZephyr, offset, writers, process>>
      BY Zenon, <1>9 DEF ServerPidfile, Go, limits
    <2> QED BY Zenon, <2>1 DEF RuntimeTyped, Label, Holding
  <1>10. ASSUME NEW l \in Launcher, ServerIdentify(l) \/ StopKill(l) PROVE RuntimeTyped'
    <2>1. \E label \in {"wait", "failed", "gone"} : Proceed(l, label)
      BY Zenon, <1>10 DEF ServerIdentify, StopKill
    <2>2. {"wait", "failed", "gone"} \subseteq Label /\ at[l] \in Holding
      BY Zenon, <1>10 DEF Label, Holding, ServerIdentify, StopKill
    <2> QED BY Zenon, <2>1, <2>2, ProceedingTyped
  <1>11. ASSUME NEW l \in Launcher, StopPid(l) PROVE RuntimeTyped'
    <2>1. CASE ServerRuns
      <3>1. /\ pid' = [pid EXCEPT ![l] = pidfile] /\ at' = [at EXCEPT ![l] = "kill"]
            /\ UNCHANGED <<calm, affinity, found, withZephyr, offset, writers, process, pidfile>>
        BY Zenon, <1>11, <2>1 DEF StopPid, Go, limits, serverVars
      <3>2. pidfile \in Pid
        BY Zenon, <2>1 DEF ServerRuns, RuntimeTyped
      <3> QED BY Zenon, <3>1, <3>2 DEF RuntimeTyped, Label
    <2>2. CASE ~ServerRuns
      <3>1. Proceed(l, Stopped(l))
        BY Zenon, <1>11, <2>2 DEF StopPid
      <3>2. Stopped(l) \in Label \ Holding
        BY Zenon DEF Stopped, Label, Holding
      <3> QED BY Zenon, <3>1, <3>2, ProceedingTyped
    <2> QED BY Zenon, <2>1, <2>2
  <1>12. ASSUME NEW l \in Launcher, StopGone(l) PROVE RuntimeTyped'
    <2>1. CASE Proceed(l, "failed")
      BY Zenon, <2>1, ProceedingTyped DEF Label, Holding
    <2>2. CASE ~Proceed(l, "failed")
      <3>1. pidfile' = 0 /\ UNCHANGED <<calm, writers, process>>
        BY Zenon, <1>12, <2>2 DEF StopGone, limits
      <3>2. Stopped(l) \in Label \ Holding
        BY Zenon DEF Stopped, Label, Holding
      <3>3. CASE withZephyr[l]
        <4>1. /\ pid' = [pid EXCEPT ![l] = 0] /\ at' = [at EXCEPT ![l] = Stopped(l)]
              /\ UNCHANGED <<affinity, found, withZephyr, offset>>
          BY Zenon, <1>12, <2>2, <3>3 DEF StopGone, Go
        <4> QED BY Zenon, <3>1, <3>2, <4>1 DEF RuntimeTyped
      <3>4. CASE ~withZephyr[l]
        <4>1. End(l, Stopped(l))
          BY Zenon, <1>12, <2>2, <3>4 DEF StopGone
        <4> QED BY Zenon, <3>1, <3>2, <4>1, EndingTyped
      <3> QED BY Zenon, <3>3, <3>4
    <2> QED BY Zenon, <2>1, <2>2
  <1>13. ASSUME NEW l \in Launcher, StopZephyr(l) PROVE RuntimeTyped'
    <2>1. CASE Proceed(l, "idle") \/ Proceed(l, "failed")
      BY Zenon, <2>1, ProceedingTyped DEF Label, Holding
    <2>2. CASE ~Proceed(l, "idle") /\ ~Proceed(l, "failed")
      <3>1. End(l, "stop_verify") /\ UNCHANGED <<calm, writers, process, pidfile>>
        BY Zenon, <1>13, <2>2 DEF StopZephyr, limits, serverVars
      <3> QED BY Zenon, <3>1, EndingTyped DEF Label, Holding
    <2> QED BY Zenon, <2>1, <2>2
  <1>14. ASSUME NEW p \in Pid, ProcessMoves(p) PROVE RuntimeTyped'
    BY Zenon, <1>14 DEF ProcessMoves, RuntimeTyped, launcherVars, limits
  <1>15. CASE SessionMoves \/ UNCHANGED vars
    BY Zenon, <1>15 DEF SessionMoves, RuntimeTyped, vars, launcherVars, limits, serverVars
  <1>16. CASE Reboot
    BY <1>16, SessionAssumption DEF Reboot, RuntimeTyped, Label, Affinity, Phase, Holding
  <1> QED
    BY Zenon, <1>1, <1>2, <1>3, <1>4, <1>5, <1>6, <1>7, <1>8, <1>9, <1>10, <1>11, <1>12, <1>13,
       <1>14, <1>15, <1>16, RuntimeCases DEF Starting, Serving, Stopping

\* A launcher's step leaves the other launchers where they are.
LEMMA OthersStay ==
  ASSUME RuntimeTyped, NEW l \in Launcher,
         Command(l) \/ Killed(l) \/ Starting(l) \/ Serving(l) \/ Stopping(l)
  PROVE  \A k \in Launcher \ {l} :
           /\ at'[k] = at[k] /\ affinity'[k] = affinity[k] /\ found'[k] = found[k]
           /\ pid'[k] = pid[k] /\ offset'[k] = offset[k]
  <1> DEFINE Same == \A k \in Launcher \ {l} :
               /\ at'[k] = at[k] /\ affinity'[k] = affinity[k] /\ found'[k] = found[k]
               /\ pid'[k] = pid[k] /\ offset'[k] = offset[k]
  <1>1. ASSUME NEW label, Proceed(l, label) PROVE Same
    BY <1>1 DEF Proceed, End, Go, RuntimeTyped
  <1>2. ASSUME NEW label, ReadAffinity(l, label) PROVE Same
    BY Zenon, <1>2 DEF ReadAffinity, Go, RuntimeTyped
  <1>3. ASSUME NEW label, End(l, label) PROVE Same
    BY Zenon, <1>3 DEF End, Go, RuntimeTyped
  <1>4. CASE Command(l)
    BY Zenon, <1>4 DEF Command, Go, RuntimeTyped
  <1>5. CASE Killed(l)
    BY ZenonT(30), <1>1, <1>5 DEF Killed
  <1>6. CASE Starting(l)
    <2>1. CASE StartAffinity(l) \/ StartVerify(l)
      BY ZenonT(30), <1>2, <2>1 DEF StartAffinity, StartVerify
    <2>2. CASE StartState(l) \/ StartVerifyState(l)
      BY Zenon, <1>1, <2>2 DEF StartState, StartVerifyState
    <2>3. CASE StartRearm(l) /\ ~Proceed(l, "failed")
      BY Zenon, <2>3 DEF StartRearm, Go, RuntimeTyped
    <2>4. CASE StartImage(l) /\ ~Proceed(l, "failed")
      BY Zenon, <2>4 DEF StartImage, Go, RuntimeTyped
    <2>5. CASE StartStart(l) /\ ~Proceed(l, "failed")
      BY ZenonT(30), <1>3, <2>5 DEF StartStart
    <2> QED BY Zenon, <1>1, <1>6, <2>1, <2>2, <2>3, <2>4, <2>5 DEF Starting
  <1>7. CASE Serving(l)
    <2>1. CASE ServerApi(l) \/ ServerPid(l) \/ ServerIdentify(l) \/ ServerWait(l)
      BY Zenon, <1>1, <2>1 DEF ServerApi, ServerPid, ServerIdentify, ServerWait
    <2>2. CASE ServerSpawn(l) /\ ~Proceed(l, "failed")
      BY Zenon, <2>2 DEF ServerSpawn, Go, RuntimeTyped
    <2>3. CASE ServerPidfile(l)
      BY Zenon, <2>3 DEF ServerPidfile, Go, RuntimeTyped
    <2> QED BY Zenon, <1>1, <1>7, <2>1, <2>2, <2>3 DEF Serving
  <1>8. CASE Stopping(l)
    <2>1. CASE StopAffinity(l) \/ StopVerify(l)
      BY Zenon, <1>2, <2>1 DEF StopAffinity, StopVerify
    <2>2. CASE StopKill(l) \/ StopVerifyOff(l)
      BY Zenon, <1>1, <2>2 DEF StopKill, StopVerifyOff
    <2>3. CASE StopPid(l) /\ ~Proceed(l, Stopped(l))
      BY Zenon, <2>3 DEF StopPid, Go, RuntimeTyped
    <2>4. CASE StopGone(l) /\ ~Proceed(l, "failed")
      <3>1. CASE End(l, Stopped(l))
        BY Zenon, <1>3, <3>1
      <3>2. CASE ~End(l, Stopped(l))
        BY Zenon, <2>4, <3>2 DEF StopGone, Go, RuntimeTyped
      <3> QED BY Zenon, <3>1, <3>2
    <2>5. CASE StopZephyr(l)
      BY ZenonT(30), <1>1, <1>3, <2>5 DEF StopZephyr
    <2> QED BY ZenonT(30), <1>1, <1>8, <2>1, <2>2, <2>3, <2>4, <2>5 DEF Stopping
  <1> QED BY Zenon, <1>4, <1>5, <1>6, <1>7, <1>8

\* A command is under way before each step but its first.
LEMMA Busy ==
  ASSUME NEW l \in Launcher, Killed(l) \/ Starting(l) \/ Serving(l) \/ Stopping(l)
  PROVE  at[l] \notin Idle
  BY Zenon DEF Killed, Starting, Serving, Stopping, Idle, StartAffinity, StartState, StartRearm,
         StartImage, StartStart, StartVerify, StartVerifyState, ServerApi, ServerPid,
         ServerSpawn, ServerPidfile, ServerIdentify, ServerWait, StopPid, StopKill, StopGone,
         StopAffinity, StopZephyr, StopVerify, StopVerifyOff

\* In the calm one command is under way at most.
CalmInv ==
  calm => \A k, l \in Launcher : at[k] \notin Idle /\ at[l] \notin Idle => k = l

LEMMA CalmKept ==
  ASSUME NEW l \in Launcher,
         Command(l) \/ Killed(l) \/ Starting(l) \/ Serving(l) \/ Stopping(l)
  PROVE  calm' = calm /\ lag' = lag /\ reboots' = reboots
  <1>1. calm' = calm /\ reboots' = reboots
    BY Zenon DEF Command, Killed, Starting, Serving, Stopping, StartAffinity, StartState,
         StartRearm, StartImage, StartStart, StartVerify, StartVerifyState, ServerApi,
         ServerPid, ServerSpawn, ServerPidfile, ServerIdentify, ServerWait, StopPid,
         StopKill, StopGone, StopAffinity, StopZephyr, StopVerify, StopVerifyOff,
         Proceed, ReadAffinity, limits
  <1>2. lag' = lag
    BY Zenon, LauncherSession DEF SessionNext, LoadChunk, Launch, Ready, Expire, RequestStop,
         RefuseStop, Notice, Rearm, OpenFile, CloseFile, PowerUp, PowerDown, sessionState
  <1> QED BY Zenon, <1>1, <1>2

\* In the calm nobody else is busy when a launcher takes a step.
LEMMA Alone ==
  ASSUME CalmInv, calm, NEW l \in Launcher,
         Command(l) \/ Killed(l) \/ Starting(l) \/ Serving(l) \/ Stopping(l)
  PROVE  \A k \in Launcher \ {l} : at[k] \in Idle
  <1>1. CASE Command(l)
    BY Zenon, <1>1 DEF Command
  <1>2. CASE ~Command(l)
    BY Zenon, <1>2, Busy DEF CalmInv
  <1> QED BY Zenon, <1>1, <1>2

LEMMA CalmStays ==
  ASSUME RuntimeTyped, CalmInv, [Next]_vars
  PROVE  CalmInv'
  <1>1. ASSUME NEW l \in Launcher,
               Command(l) \/ Killed(l) \/ Starting(l) \/ Serving(l) \/ Stopping(l)
        PROVE  CalmInv'
    <2>1. \A k \in Launcher \ {l} : at'[k] = at[k]
      BY Zenon, <1>1, OthersStay
    <2>2. calm' = calm /\ (calm => \A k \in Launcher \ {l} : at[k] \in Idle)
      BY Zenon, <1>1, CalmKept, Alone
    <2> QED BY Zenon, <2>1, <2>2 DEF CalmInv
  <1>2. CASE (\E p \in Pid : ProcessMoves(p)) \/ SessionMoves \/ UNCHANGED vars
    BY Zenon, <1>2 DEF ProcessMoves, SessionMoves, CalmInv, vars, launcherVars, limits
  <1>3. CASE Reboot
    BY Zenon, <1>3 DEF Reboot, CalmInv, Idle
  <1> QED BY Zenon, <1>1, <1>2, <1>3, RuntimeCases

-----------------------------------------------------------------------------
(* The image *)

\* Who is in the middle of an image has written all of it.
ImageInv ==
  /\ Len(writers) = image
  /\ attempted => image = ImageSize
  /\ \A i, j \in 1 .. Len(writers) : writers[i] = writers[j]
  /\ \A l \in Launcher :
       /\ offset[l] > 0 =>
            /\ ~attempted /\ offset[l] = image
            /\ \A i \in 1 .. Len(writers) : writers[i] = l
       /\ at[l] = "start" => offset[l] = ImageSize
       /\ at[l] \notin {"image", "start"} => offset[l] = 0
       /\ at[l] = "image" => offset[l] < ImageSize

\* Steps of a launcher that leave the image alone.
LEMMA ImageUntouched ==
  ASSUME RuntimeTyped, ImageInv, NEW l \in Launcher,
         UNCHANGED <<writers, image, attempted>>,
         \A k \in Launcher \ {l} : at'[k] = at[k] /\ offset'[k] = offset[k],
         offset'[l] = 0, at'[l] # "start"
  PROVE  ImageInv'
  <1>1. \A k \in Launcher :
          /\ offset'[k] > 0 =>
               /\ ~attempted /\ offset'[k] = image
               /\ \A i \in 1 .. Len(writers) : writers[i] = k
          /\ at'[k] = "start" => offset'[k] = ImageSize
          /\ at'[k] \notin {"image", "start"} => offset'[k] = 0
          /\ at'[k] = "image" => offset'[k] < ImageSize
    <2> TAKE k \in Launcher
    <2>1. CASE k = l
      BY <2>1, SessionAssumption
    <2>2. CASE k # l
      BY <2>2 DEF ImageInv
    <2> QED BY Zenon, <2>1, <2>2
  <1> QED BY <1>1 DEF ImageInv

\* A step that ends the command, or goes on where there is no offset.
LEMMA ImageProceed ==
  ASSUME RuntimeTyped, ImageInv, NEW l \in Launcher, NEW label, Proceed(l, label),
         label # "start", label \in Idle \/ at[l] \notin {"image", "start"}
  PROVE  ImageInv'
  <1>1. UNCHANGED <<writers, image, attempted>>
    BY Zenon DEF Proceed, sessionState
  <1>2. /\ \A k \in Launcher \ {l} : at'[k] = at[k] /\ offset'[k] = offset[k]
        /\ offset'[l] = 0 /\ at'[l] # "start"
    BY DEF Proceed, End, Go, RuntimeTyped, ImageInv
  <1> QED BY Zenon, <1>1, <1>2, ImageUntouched

\* A chunk goes to the launcher that has written all the others.
LEMMA ImageWritten ==
  ASSUME RuntimeTyped, SessionTypeOK, ImageInv, NEW l \in Launcher, StartImage(l)
  PROVE  ImageInv'
  <1>1. CASE Proceed(l, "failed")
    BY Zenon, <1>1, ImageProceed DEF Idle
  <1>2. CASE ~Proceed(l, "failed")
    <2> DEFINE n == Len(writers)
    <2>1. /\ at[l] = "image" /\ ~attempted /\ offset[l] = image /\ image < ImageSize
          /\ image' = image + 1 /\ attempted' = attempted
          /\ writers' = Append(writers, l)
          /\ offset' = [offset EXCEPT ![l] = @ + 1]
          /\ at' = [at EXCEPT ![l] = IF offset'[l] = ImageSize THEN "start" ELSE "image"]
      BY Zenon, <1>2 DEF StartImage, ChunkAccepted, LoadChunk, Go
    <2>2. /\ n = image /\ n \in Nat /\ writers \in Seq(Launcher) /\ image \in Nat
          /\ ImageSize \in Nat
      BY SessionAssumption DEF ImageInv, RuntimeTyped, SessionTypeOK
    <2>3. /\ Len(writers') = n + 1 /\ writers'[n + 1] = l
          /\ \A i \in 1 .. n : writers'[i] = writers[i]
      BY <2>1, <2>2
    <2>4. \A i \in 1 .. n : writers[i] = l
      <3>1. CASE image > 0
        BY Zenon, <2>1, <3>1 DEF ImageInv
      <3>2. CASE ~(image > 0)
        <4>1. n = 0
          <5> HIDE DEF n
          <5> QED BY <2>2, <3>2
        <4> QED BY <4>1
      <3> QED BY Zenon, <3>1, <3>2
    <2>5. \A i \in 1 .. Len(writers') : writers'[i] = l
      <3>1. \A i \in 1 .. n + 1 : i \in 1 .. n \/ i = n + 1
        <4> HIDE DEF n
        <4> QED BY <2>2
      <3> QED BY <2>3, <2>4, <3>1
    <2>6. offset'[l] = image' /\ offset'[l] <= ImageSize
      BY <2>1, <2>2 DEF RuntimeTyped
    <2>7. at'[l] = IF offset'[l] = ImageSize THEN "start" ELSE "image"
      BY Zenon, <2>1 DEF RuntimeTyped
    <2>8. ASSUME NEW k \in Launcher, k # l
          PROVE  offset'[k] = 0 /\ at'[k] = at[k] /\ offset[k] = 0
      <3>1. offset'[k] = offset[k] /\ at'[k] = at[k] /\ offset[k] \in Nat
        BY <2>1, <2>8 DEF RuntimeTyped
      <3>2. ASSUME offset[k] > 0 PROVE FALSE
        <4>1. offset[k] = n /\ n > 0 /\ \A i \in 1 .. n : writers[i] = k
          BY Zenon, <3>2, <2>2 DEF ImageInv
        <4>2. 1 \in 1 .. n
          <5> HIDE DEF n
          <5> QED BY <2>2, <4>1
        <4> QED BY <2>4, <2>8, <4>1, <4>2
      <3> QED BY <3>1, <3>2
    <2>9. \A k \in Launcher :
            /\ offset'[k] > 0 =>
                 /\ ~attempted' /\ offset'[k] = image'
                 /\ \A i \in 1 .. Len(writers') : writers'[i] = k
            /\ at'[k] = "start" => offset'[k] = ImageSize
            /\ at'[k] \notin {"image", "start"} => offset'[k] = 0
            /\ at'[k] = "image" => offset'[k] < ImageSize
      <3> TAKE k \in Launcher
      <3>1. CASE k = l
        <4>1. offset'[l] = ImageSize \/ offset'[l] < ImageSize
          BY <2>1, <2>2, <2>6
        <4> QED BY <2>1, <2>5, <2>6, <2>7, <3>1, <4>1
      <3>2. CASE k # l
        BY <2>2, <2>8, <3>2 DEF ImageInv
      <3> QED BY Zenon, <3>1, <3>2
    <2>10. Len(writers') = image'
      BY Zenon, <2>1, <2>2, <2>3
    <2> QED BY Zenon, <2>1, <2>5, <2>9, <2>10 DEF ImageInv
  <1> QED BY Zenon, <1>1, <1>2

\* rearm needs an attempt, and nobody is in the middle of an image then.
LEMMA ImageRearmed ==
  ASSUME RuntimeTyped, ImageInv, NEW l \in Launcher, StartRearm(l)
  PROVE  ImageInv'
  <1>1. CASE Proceed(l, "failed")
    BY Zenon, <1>1, ImageProceed DEF Idle
  <1>2. CASE ~Proceed(l, "failed")
    <2>1. /\ attempted /\ image' = 0 /\ attempted' = FALSE /\ writers' = <<>>
          /\ at' = [at EXCEPT ![l] = "image"] /\ offset' = offset /\ at[l] = "rearm"
      BY Zenon, <1>2 DEF StartRearm, Rearm, Go
    <2>2. \A k \in Launcher : offset'[k] = 0 /\ at[k] # "start"
      BY <2>1, SessionAssumption DEF ImageInv, RuntimeTyped
    <2>3. Len(writers') = 0
      BY Zenon, <2>1
    <2>4. \A k \in Launcher :
            /\ ~(offset'[k] > 0) /\ at'[k] # "start" /\ offset'[k] = 0
            /\ at'[k] = "image" => offset'[k] < ImageSize
      BY <2>1, <2>2, SessionAssumption DEF RuntimeTyped
    <2> QED BY <2>1, <2>3, <2>4 DEF ImageInv
  <1> QED BY Zenon, <1>1, <1>2

\* start launches a whole image, and no other launcher has an offset then.
LEMMA ImageStarted ==
  ASSUME RuntimeTyped, SessionTypeOK, ImageInv, NEW l \in Launcher, StartStart(l)
  PROVE  ImageInv'
  <1>1. CASE Proceed(l, "failed")
    BY Zenon, <1>1, ImageProceed DEF Idle
  <1>2. CASE ~Proceed(l, "failed")
    <2>1. /\ at[l] = "start" /\ image = ImageSize /\ image' = image /\ writers' = writers
          /\ offset' = [offset EXCEPT ![l] = 0]
          /\ \E label \in {"verify", "failed"} : at' = [at EXCEPT ![l] = label]
      BY Zenon, <1>2 DEF StartStart, Launch, End, Go
    <2>2. /\ Len(writers) = ImageSize /\ ImageSize > 0 /\ offset[l] = ImageSize
          /\ \A i \in 1 .. Len(writers) : writers[i] = l
      BY <2>1, SessionAssumption DEF ImageInv
    <2>3. 1 \in 1 .. Len(writers)
      BY <2>2, SessionAssumption
    <2>4. \A k \in Launcher : offset'[k] = 0 /\ ~(offset'[k] > 0)
      <3> TAKE k \in Launcher
      <3>1. CASE k = l
        BY <2>1, <3>1 DEF RuntimeTyped
      <3>2. CASE k # l
        <4>1. offset'[k] = offset[k] /\ offset[k] \in Nat
          BY <2>1, <3>2 DEF RuntimeTyped
        <4>2. ~(offset[k] > 0)
          BY <2>2, <2>3, <3>2 DEF ImageInv
        <4> QED BY <4>1, <4>2
      <3> QED BY Zenon, <3>1, <3>2
    <2>5. \A k \in Launcher : at'[k] # "start"
      <3> TAKE k \in Launcher
      <3>1. CASE k = l
        BY Zenon, <2>1, <3>1 DEF RuntimeTyped
      <3>2. CASE k # l
        <4>1. offset'[k] = offset[k] /\ at'[k] = at[k]
          BY Zenon, <2>1, <3>2 DEF RuntimeTyped
        <4> QED BY <2>4, <4>1, SessionAssumption DEF ImageInv
      <3> QED BY Zenon, <3>1, <3>2
    <2>6. 0 < ImageSize
      BY SessionAssumption
    <2> QED BY ZenonT(30), <2>1, <2>4, <2>5, <2>6 DEF ImageInv
  <1> QED BY Zenon, <1>1, <1>2

LEMMA ImageStays ==
  ASSUME RuntimeTyped, SessionTypeOK, ImageInv, [Next]_vars
  PROVE  ImageInv'
  <1>1. ASSUME NEW l \in Launcher, Command(l) PROVE ImageInv'
    <2>1. /\ UNCHANGED <<writers, image, attempted, offset>> /\ at[l] \in Idle
          /\ at'[l] \in {"affinity", "stop"}
      BY Zenon, <1>1 DEF Command, Go, RuntimeTyped, sessionState
    <2>2. offset'[l] = 0
      BY Zenon, <2>1 DEF ImageInv, Idle
    <2> QED BY Zenon, <1>1, <2>1, <2>2, OthersStay, ImageUntouched
  <1>2. ASSUME NEW l \in Launcher, Killed(l) PROVE ImageInv'
    BY Zenon, <1>2, ImageProceed DEF Killed, Idle
  <1>3. ASSUME NEW l \in Launcher,
               StartAffinity(l) \/ StartVerify(l) \/ StopAffinity(l) \/ StopVerify(l)
        PROVE  ImageInv'
    <2>1. /\ UNCHANGED <<writers, offset>> /\ at'[l] # "start" /\ at[l] \notin {"image", "start"}
      BY Zenon, <1>3 DEF StartAffinity, StartVerify, StopAffinity, StopVerify, ReadAffinity, Go,
           RuntimeTyped
    <2>2. UNCHANGED <<image, attempted>>
      BY Zenon, <1>3 DEF StartAffinity, StartVerify, StopAffinity, StopVerify, ReadAffinity, Refresh,
           Notice, sessionState
    <2>3. offset'[l] = 0
      BY Zenon, <2>1 DEF ImageInv
    <2>4. \A k \in Launcher \ {l} : at'[k] = at[k] /\ offset'[k] = offset[k]
      BY Zenon, <1>3, OthersStay DEF Starting, Stopping
    <2> QED BY Zenon, <2>1, <2>2, <2>3, <2>4, ImageUntouched
  <1>4. ASSUME NEW l \in Launcher,
               \/ StartState(l) \/ StartVerifyState(l) \/ ServerApi(l) \/ ServerPid(l)
               \/ ServerWait(l) \/ ServerIdentify(l) \/ StopKill(l) \/ StopVerifyOff(l)
        PROVE  ImageInv'
    <2>1. /\ \E label \in {"api", "failed", "rearm", "image", "idle", "pid", "wait", "spawn",
                           "gone"} : Proceed(l, label)
          /\ at[l] \notin {"image", "start"}
      BY Zenon, <1>4 DEF StartState, StartVerifyState, ServerApi, ServerPid, ServerWait,
           ServerIdentify, StopKill, StopVerifyOff
    <2> QED BY Zenon, <2>1, ImageProceed
  <1>5. ASSUME NEW l \in Launcher, ServerSpawn(l) \/ ServerPidfile(l) \/ StopPid(l)
        PROVE  ImageInv'
    <2>1. CASE Proceed(l, "failed") \/ Proceed(l, Stopped(l))
      <3>1. at[l] \notin {"image", "start"} /\ Stopped(l) # "start"
        BY Zenon, <1>5 DEF ServerSpawn, ServerPidfile, StopPid, Stopped
      <3> QED BY Zenon, <2>1, <3>1, ImageProceed
    <2>2. CASE ~Proceed(l, "failed") /\ ~Proceed(l, Stopped(l))
      <3>1. /\ UNCHANGED <<writers, image, attempted, offset>> /\ at'[l] # "start"
            /\ at[l] \notin {"image", "start"}
        BY Zenon, <1>5, <2>2 DEF ServerSpawn, ServerPidfile, StopPid, Go, RuntimeTyped, sessionState
      <3>2. offset'[l] = 0
        BY Zenon, <3>1 DEF ImageInv
      <3>3. \A k \in Launcher \ {l} : at'[k] = at[k] /\ offset'[k] = offset[k]
        BY Zenon, <1>5, OthersStay DEF Serving, Stopping
      <3> QED BY Zenon, <3>1, <3>2, <3>3, ImageUntouched
    <2> QED BY Zenon, <2>1, <2>2
  <1>6. ASSUME NEW l \in Launcher, StopGone(l) \/ StopZephyr(l) PROVE ImageInv'
    <2>1. CASE Proceed(l, "failed") \/ Proceed(l, "idle")
      BY Zenon, <2>1, ImageProceed DEF Idle
    <2>2. CASE ~Proceed(l, "failed") /\ ~Proceed(l, "idle")
      <3>1. /\ UNCHANGED <<writers, image, attempted>> /\ at'[l] # "start"
            /\ at[l] \notin {"image", "start"} /\ offset'[l] \in {offset[l], 0}
        <4>1. CASE StopGone(l)
          BY <2>2, <4>1 DEF StopGone, End, Go, Stopped, RuntimeTyped, sessionState
        <4>2. CASE StopZephyr(l)
          BY Zenon, <2>2, <4>2 DEF StopZephyr, RequestStop, End, Go, RuntimeTyped
        <4> QED BY Zenon, <1>6, <4>1, <4>2
      <3>2. offset'[l] = 0
        BY Zenon, <3>1 DEF ImageInv
      <3>3. \A k \in Launcher \ {l} : at'[k] = at[k] /\ offset'[k] = offset[k]
        BY Zenon, <1>6, OthersStay DEF Stopping
      <3> QED BY Zenon, <3>1, <3>2, <3>3, ImageUntouched
    <2> QED BY Zenon, <2>1, <2>2
  <1>7. ASSUME NEW l \in Launcher, StartRearm(l) \/ StartImage(l) \/ StartStart(l)
        PROVE  ImageInv'
    BY Zenon, <1>7, ImageRearmed, ImageWritten, ImageStarted
  <1>8. CASE (\E p \in Pid : ProcessMoves(p)) \/ SessionMoves \/ UNCHANGED vars
    <2>1. UNCHANGED <<writers, image, attempted, at, offset>>
      BY Zenon, <1>8 DEF ProcessMoves, SessionMoves, vars, launcherVars, sessionState, Ready, Expire,
           RefuseStop, Notice, OpenFile, CloseFile, PowerUp, PowerDown
    <2> QED BY Zenon, <2>1 DEF ImageInv
  <1>9. CASE Reboot
    <2>1. /\ writers' = <<>> /\ image' = 0 /\ attempted' = FALSE
          /\ \A l \in Launcher : at'[l] = "idle" /\ offset'[l] = 0
      BY Zenon, <1>9 DEF Reboot
    <2>2. Len(writers') = 0
      BY Zenon, <2>1
    <2>3. \A i \in 1 .. Len(writers') : FALSE
      BY <2>2
    <2>4. Len(writers') = image' /\ ~attempted'
      BY Zenon, <2>1, <2>2
    <2>5. \A l \in Launcher : at'[l] \notin {"image", "start"} /\ offset'[l] = 0 /\ ~(offset'[l] > 0)
      BY <2>1
    <2> QED BY Zenon, <2>3, <2>4, <2>5 DEF ImageInv
  <1> QED
    BY Zenon, <1>1, <1>2, <1>3, <1>4, <1>5, <1>6, <1>7, <1>8, <1>9, RuntimeCases
       DEF Starting, Serving, Stopping

-----------------------------------------------------------------------------
(* The server *)

Alive == {"shell", "server"}

\* In the calm a server is the one in the pidfile, or the child about to be
\* put there; a child that has not exec'd yet is being watched.
ServerInv ==
  calm =>
    /\ \A p \in Pid : process[p] \in Alive =>
         p = pidfile \/ \E l \in Launcher : at[l] = "pidfile"
    /\ \A p \in Pid : process[p] = "shell" =>
         \E l \in Launcher : at[l] \in {"pidfile", "identify"}
    /\ \A l \in Launcher :
         /\ at[l] = "spawn" => \A p \in Pid : process[p] \notin Alive
         /\ at[l] = "pidfile" => \A p \in Pid \ {pid[l]} : process[p] \notin Alive
         /\ at[l] \in {"identify", "kill", "gone"} => pid[l] = pidfile

\* Where a command has to do with the server's process.
Handling == {"spawn", "pidfile", "identify", "kill", "gone"}

LEMMA ServerPlain ==
  ASSUME ServerInv, NEW l \in Launcher, UNCHANGED <<calm, process, pidfile>>,
         \A k \in Launcher \ {l} : at'[k] = at[k] /\ pid'[k] = pid[k],
         at[l] \notin {"pidfile", "identify"}, at'[l] \notin Handling
  PROVE  ServerInv'
  <1> SUFFICES ASSUME calm PROVE ServerInv'
    BY Zenon DEF ServerInv
  <1>1. \A k \in Launcher : at[k] \in {"pidfile", "identify"} => at'[k] = at[k]
    BY Zenon
  <1>2. \A k \in Launcher : at'[k] \in Handling => at'[k] = at[k] /\ pid'[k] = pid[k]
    BY Zenon
  <1> QED BY ZenonT(30), <1>1, <1>2 DEF ServerInv, Handling

LEMMA TermsPlain ==
  ASSUME TermsOnlyServers, NEW l \in Launcher, process' = process,
         \A k \in Launcher \ {l} : at'[k] = at[k] /\ pid'[k] = pid[k],
         at'[l] # "kill"
  PROVE  TermsOnlyServers'
  BY Zenon DEF TermsOnlyServers

\* The steps that have nothing to do with the process.
LEMMA NotHandling ==
  ASSUME RuntimeTyped, NEW l \in Launcher,
         \/ Command(l) \/ Starting(l) \/ ServerApi(l) \/ ServerWait(l)
         \/ StopAffinity(l) \/ StopZephyr(l) \/ StopVerify(l) \/ StopVerifyOff(l)
  PROVE  /\ UNCHANGED <<process, pidfile>>
         /\ at[l] \notin Handling /\ at'[l] \notin Handling
  <1>1. CASE Command(l)
    BY Zenon, <1>1 DEF Command, Go, RuntimeTyped, serverVars, Handling, Idle
  <1>2. CASE StartAffinity(l) \/ StartVerify(l) \/ StopAffinity(l) \/ StopVerify(l)
    BY Zenon, <1>2 DEF StartAffinity, StartVerify, StopAffinity, StopVerify, ReadAffinity, Go,
         RuntimeTyped, serverVars, Handling
  <1>3. CASE \/ StartState(l) \/ StartVerifyState(l) \/ ServerApi(l) \/ ServerWait(l)
             \/ StopVerifyOff(l)
    <2>1. /\ \E label \in {"api", "failed", "rearm", "image", "idle", "pid"} :
               Proceed(l, label)
          /\ at[l] \notin Handling
      BY Zenon, <1>3 DEF StartState, StartVerifyState, ServerApi, ServerWait, StopVerifyOff, Handling
    <2> QED BY Zenon, <2>1 DEF Proceed, End, Go, RuntimeTyped, serverVars, Handling
  <1>4. CASE StartRearm(l)
    BY Zenon, <1>4 DEF StartRearm, Proceed, End, Go, RuntimeTyped, serverVars, Handling
  <1>5. CASE StartImage(l)
    BY Zenon, <1>5 DEF StartImage, Proceed, End, Go, RuntimeTyped, serverVars, Handling
  <1>6. CASE StartStart(l)
    BY Zenon, <1>6 DEF StartStart, Proceed, End, Go, RuntimeTyped, serverVars, Handling
  <1>7. CASE StopZephyr(l)
    BY Zenon, <1>7 DEF StopZephyr, Proceed, End, Go, RuntimeTyped, serverVars, Handling
  <1> QED BY Zenon, <1>1, <1>2, <1>3, <1>4, <1>5, <1>6, <1>7 DEF Starting

\* A pid about to be signalled was a server's, and no new process gets it.
LEMMA TermsStays ==
  ASSUME RuntimeTyped, TermsOnlyServers, [Next]_vars
  PROVE  TermsOnlyServers'
  <1>1. ASSUME NEW l \in Launcher,
               \/ Command(l) \/ Starting(l) \/ ServerApi(l) \/ ServerWait(l)
               \/ StopAffinity(l) \/ StopZephyr(l) \/ StopVerify(l) \/ StopVerifyOff(l)
        PROVE  TermsOnlyServers'
    <2>1. process' = process /\ at'[l] # "kill"
      BY Zenon, <1>1, NotHandling DEF Handling
    <2>2. \A k \in Launcher \ {l} : at'[k] = at[k] /\ pid'[k] = pid[k]
      BY Zenon, <1>1, OthersStay DEF Serving, Stopping
    <2> QED BY Zenon, <2>1, <2>2, TermsPlain
  <1>2. ASSUME NEW l \in Launcher,
               Killed(l) \/ ServerPid(l) \/ ServerPidfile(l) \/ ServerIdentify(l)
               \/ StopKill(l) \/ StopGone(l)
        PROVE  TermsOnlyServers'
    <2>1. process' = process /\ at'[l] # "kill"
      BY ZenonT(30), <1>2 DEF Killed, ServerPid, ServerPidfile, ServerIdentify, StopKill, StopGone,
           Stopped, Proceed, End, Go, RuntimeTyped, serverVars
    <2>2. \A k \in Launcher \ {l} : at'[k] = at[k] /\ pid'[k] = pid[k]
      BY Zenon, <1>2, OthersStay DEF Serving, Stopping
    <2> QED BY Zenon, <2>1, <2>2, TermsPlain
  <1>3. ASSUME NEW l \in Launcher, ServerSpawn(l) PROVE TermsOnlyServers'
    <2>0. \A k \in Launcher \ {l} : at'[k] = at[k] /\ pid'[k] = pid[k]
      BY Zenon, <1>3, OthersStay DEF Serving
    <2>1. CASE Proceed(l, "failed")
      <3>1. process' = process /\ at'[l] # "kill"
        BY Zenon, <2>1 DEF Proceed, End, Go, RuntimeTyped, serverVars
      <3> QED BY Zenon, <2>0, <3>1, TermsPlain
    <2>2. CASE ~Proceed(l, "failed")
      <3>1. PICK p \in Pid :
              /\ \A k \in Launcher : pid[k] # p
              /\ process' = [process EXCEPT ![p] = "shell"]
              /\ at' = [at EXCEPT ![l] = "pidfile"]
        BY Zenon, <1>3, <2>2 DEF ServerSpawn, Go
      <3>2. at'[l] # "kill"
        BY Zenon, <3>1 DEF RuntimeTyped
      <3>3. \A k \in Launcher : at'[k] = "kill" =>
              k # l /\ at[k] = "kill" /\ pid'[k] = pid[k] /\ pid[k] \in Pid
        BY Zenon, <2>0, <3>2 DEF RuntimeTyped, Holding
      <3>4. \A q \in Pid : q # p => process'[q] = process[q]
        BY Zenon, <3>1 DEF RuntimeTyped
      <3> QED BY <3>1, <3>3, <3>4 DEF TermsOnlyServers
    <2> QED BY Zenon, <2>1, <2>2
  <1>4. ASSUME NEW l \in Launcher, StopPid(l) PROVE TermsOnlyServers'
    <2>0. \A k \in Launcher \ {l} : at'[k] = at[k] /\ pid'[k] = pid[k]
      BY ZenonT(30), <1>4, OthersStay DEF Stopping
    <2>1. CASE ServerRuns
      <3>1. process' = process /\ pid'[l] = pidfile /\ process[pidfile] = "server"
        BY Zenon, <1>4, <2>1 DEF StopPid, RuntimeTyped, serverVars, ServerRuns
      <3> QED BY Zenon, <2>0, <3>1 DEF TermsOnlyServers
    <2>2. CASE ~ServerRuns
      <3>1. process' = process /\ at'[l] # "kill"
        BY Zenon, <1>4, <2>2 DEF StopPid, Stopped, Proceed, End, Go, RuntimeTyped, serverVars
      <3> QED BY Zenon, <2>0, <3>1, TermsPlain
    <2> QED BY Zenon, <2>1, <2>2
  <1>5. ASSUME NEW p \in Pid, ProcessMoves(p) PROVE TermsOnlyServers'
    <2>1. UNCHANGED <<at, pid>>
      BY Zenon, <1>5 DEF ProcessMoves, launcherVars
    <2>2. \A q \in Pid : q # p => process'[q] = process[q]
      BY Zenon, <1>5 DEF ProcessMoves, RuntimeTyped
    <2>3. ASSUME NEW l \in Launcher, at[l] = "kill", pid[l] = p
          PROVE  process'[p] \in {"server", "free"}
      BY Zenon, <1>5, <2>3 DEF ProcessMoves, RuntimeTyped, TermsOnlyServers
    <2>4. \A l \in Launcher : at[l] = "kill" => pid[l] \in Pid
      BY Zenon DEF RuntimeTyped, Holding
    <2> QED BY Zenon, <2>1, <2>2, <2>3, <2>4 DEF TermsOnlyServers
  <1>6. CASE SessionMoves \/ UNCHANGED vars
    BY Zenon, <1>6 DEF SessionMoves, vars, launcherVars, serverVars, TermsOnlyServers
  <1>7. CASE Reboot
    BY Zenon, <1>7 DEF Reboot, TermsOnlyServers
  <1> QED
    BY Zenon, <1>1, <1>2, <1>3, <1>4, <1>5, <1>6, <1>7, RuntimeCases DEF Serving, Stopping

\* In the calm, with one launcher busy and not about to write the pidfile, a
\* server that server_pid does not find is not there.
LEMMA NoneHidden ==
  ASSUME RuntimeTyped, ServerInv, calm, ~ServerRuns,
         \A k \in Launcher : at[k] \notin {"pidfile", "identify"}
  PROVE  \A p \in Pid : process[p] \notin Alive
  <1> SUFFICES ASSUME NEW p \in Pid, process[p] \in Alive PROVE FALSE
    BY Zenon
  <1>1. p = pidfile /\ process[p] # "shell"
    BY Zenon DEF ServerInv
  <1>2. p # 0
    BY Zenon, RuntimeAssumption
  <1> QED BY Zenon, <1>1, <1>2 DEF ServerRuns, Alive

LEMMA ServerStays ==
  ASSUME RuntimeTyped, CalmInv, ServerInv, [Next]_vars
  PROVE  ServerInv'
  <1>0. ASSUME NEW l \in Launcher,
               Command(l) \/ Killed(l) \/ Starting(l) \/ Serving(l) \/ Stopping(l)
        PROVE  /\ calm' = calm
               /\ \A k \in Launcher \ {l} : at'[k] = at[k] /\ pid'[k] = pid[k]
               /\ calm => \A k \in Launcher \ {l} : at[k] \notin Handling
    <2>1. calm => \A k \in Launcher \ {l} : at[k] \in Idle
      BY Zenon, <1>0, Alone
    <2> QED BY Zenon, <1>0, <2>1, CalmKept, OthersStay DEF Idle, Handling
  <1>1. ASSUME NEW l \in Launcher,
               \/ Command(l) \/ Starting(l) \/ ServerApi(l) \/ ServerWait(l)
               \/ StopAffinity(l) \/ StopZephyr(l) \/ StopVerify(l) \/ StopVerifyOff(l)
        PROVE  ServerInv'
    <2>1. UNCHANGED <<process, pidfile>> /\ at[l] \notin Handling /\ at'[l] \notin Handling
      BY Zenon, <1>1, NotHandling
    <2>2. calm' = calm /\ \A k \in Launcher \ {l} : at'[k] = at[k] /\ pid'[k] = pid[k]
      BY Zenon, <1>0, <1>1 DEF Serving, Stopping
    <2>3. at[l] \notin {"pidfile", "identify"}
      BY Zenon, <2>1 DEF Handling
    <2> QED BY Zenon, <2>1, <2>2, <2>3, ServerPlain
  <1>2. ASSUME NEW l \in Launcher, Killed(l) PROVE ServerInv'
    BY Zenon, <1>0, <1>2 DEF Killed, ServerInv
  <1>3. ASSUME NEW l \in Launcher, ServerPid(l), calm PROVE ServerInv'
    <2>1. at[l] = "pid" /\ UNCHANGED <<process, pidfile>>
          /\ at'[l] = IF ServerRuns THEN "wait" ELSE "spawn"
      BY Zenon, <1>3 DEF ServerPid, Proceed, End, Go, RuntimeTyped, serverVars, Idle
    <2>2. \A k \in Launcher : at[k] \notin {"pidfile", "identify"}
      BY ZenonT(30), <1>0, <1>3, <2>1 DEF Serving, Handling
    <2>3. CASE ServerRuns
      BY Zenon, <1>0, <1>3, <2>1, <2>2, <2>3, ServerPlain DEF Serving, Handling
    <2>4. CASE ~ServerRuns
      <3>1. \A p \in Pid : process[p] \notin Alive
        BY Zenon, <1>3, <2>2, <2>4, NoneHidden
      <3>2. \A k \in Launcher : at'[k] \notin {"pidfile", "identify", "kill", "gone"}
        BY ZenonT(30), <1>0, <1>3, <2>1, <2>4 DEF Serving, Handling
      <3> QED BY Zenon, <2>1, <3>1, <3>2 DEF ServerInv, Alive
    <2> QED BY Zenon, <2>3, <2>4
  <1>4. ASSUME NEW l \in Launcher, ServerSpawn(l), calm PROVE ServerInv'
    <2>1. CASE Proceed(l, "failed")
      <3>1. at[l] = "spawn" /\ UNCHANGED <<process, pidfile>> /\ at'[l] = "failed"
        BY Zenon, <1>4, <2>1 DEF ServerSpawn, Proceed, End, Go, RuntimeTyped, serverVars
      <3> QED BY Zenon, <1>0, <1>4, <3>1, ServerPlain DEF Serving, Handling
    <2>2. CASE ~Proceed(l, "failed")
      <3>1. PICK p \in Pid :
              /\ process' = [process EXCEPT ![p] = "shell"] /\ pid' = [pid EXCEPT ![l] = p]
              /\ at' = [at EXCEPT ![l] = "pidfile"] /\ at[l] = "spawn"
        BY Zenon, <1>4, <2>2 DEF ServerSpawn, Go
      <3>2. at'[l] = "pidfile" /\ pid'[l] = p
        BY Zenon, <3>1 DEF RuntimeTyped
      <3>3. \A q \in Pid \ {p} : process'[q] \notin Alive
        BY Zenon, <1>4, <3>1 DEF RuntimeTyped, ServerInv
      <3>4. \A k \in Launcher : at'[k] \in Handling => k = l
        BY ZenonT(30), <1>0, <1>4 DEF Serving
      <3> QED BY Zenon, <3>2, <3>3, <3>4 DEF ServerInv, Handling
    <2> QED BY Zenon, <2>1, <2>2
  <1>5. ASSUME NEW l \in Launcher, ServerPidfile(l), calm PROVE ServerInv'
    <2>1. at[l] = "pidfile" /\ at'[l] = "identify" /\ pidfile' = pid[l]
          /\ UNCHANGED <<process, pid>>
      BY Zenon, <1>5 DEF ServerPidfile, Go, RuntimeTyped
    <2>2. \A k \in Launcher : at'[k] \in Handling => k = l
      BY ZenonT(30), <1>0, <1>5 DEF Serving
    <2>3. \A p \in Pid \ {pid[l]} : process[p] \notin Alive
      BY ZenonT(30), <1>5, <2>1 DEF ServerInv
    <2>4. \A p \in Pid : process'[p] \in Alive => p = pidfile'
      BY Zenon, <2>1, <2>3
    <2> QED BY Zenon, <2>1, <2>2, <2>4 DEF ServerInv, Handling
  <1>6. ASSUME NEW l \in Launcher, ServerIdentify(l), calm PROVE ServerInv'
    <2>1. at[l] = "identify" /\ at'[l] \in {"wait", "failed"} /\ UNCHANGED <<process, pidfile>>
          /\ (ServerRuns \/ process[pid[l]] # "shell")
      BY Zenon, <1>6 DEF ServerIdentify, Proceed, End, Go, RuntimeTyped, serverVars
    <2>2. \A k \in Launcher : at'[k] \notin Handling /\ at[k] # "pidfile"
      BY ZenonT(30), <1>0, <1>6, <2>1 DEF Serving, Handling
    <2>3. \A p \in Pid : process[p] \in Alive => p = pidfile
      BY Zenon, <1>6, <2>2 DEF ServerInv
    <2>4. pid[l] = pidfile
      BY Zenon, <1>6, <2>1 DEF ServerInv
    <2>5. \A p \in Pid : process[p] # "shell"
      BY Zenon, <2>1, <2>3, <2>4 DEF ServerRuns, Alive
    <2> QED BY ZenonT(30), <2>1, <2>2, <2>3, <2>5 DEF ServerInv, Handling
  <1>7. ASSUME NEW l \in Launcher, StopPid(l), calm PROVE ServerInv'
    <2>0. \A k \in Launcher : at[k] \notin {"pidfile", "identify"}
      BY Zenon, <1>0, <1>7 DEF Stopping, Handling, StopPid
    <2>1. CASE ServerRuns
      <3>1. at'[l] = "kill" /\ pid'[l] = pidfile /\ UNCHANGED <<process, pidfile>>
        BY Zenon, <1>7, <2>1 DEF StopPid, Go, RuntimeTyped, serverVars
      <3>2. \A k \in Launcher : at'[k] \in Handling => k = l
        BY Zenon, <1>0, <1>7 DEF Stopping
      <3> QED BY Zenon, <1>7, <2>0, <3>1, <3>2 DEF ServerInv, Handling
    <2>2. CASE ~ServerRuns
      <3>1. at'[l] \notin Handling /\ UNCHANGED <<process, pidfile>>
        BY Zenon, <1>7, <2>2 DEF StopPid, Stopped, Proceed, End, Go, RuntimeTyped, serverVars, Handling
      <3>2. at[l] \notin {"pidfile", "identify"}
        BY Zenon, <2>0
      <3> QED BY Zenon, <1>0, <1>7, <3>1, <3>2, ServerPlain DEF Stopping
    <2> QED BY Zenon, <2>1, <2>2
  <1>8. ASSUME NEW l \in Launcher, StopKill(l), calm PROVE ServerInv'
    <2>1. at[l] = "kill" /\ UNCHANGED <<process, pidfile>>
          /\ (at'[l] = "failed" \/ (at'[l] = "gone" /\ pid'[l] = pid[l]))
      BY <1>8 DEF StopKill, Proceed, End, Go, RuntimeTyped, serverVars, Idle
    <2>2. \A k \in Launcher : at'[k] \in Handling => k = l
      BY ZenonT(30), <1>0, <1>8 DEF Stopping
    <2>3. \A k \in Launcher : at[k] \notin {"pidfile", "identify"}
      BY Zenon, <1>0, <1>8, <2>1 DEF Stopping, Handling
    <2> QED BY Zenon, <1>8, <2>1, <2>2, <2>3 DEF ServerInv, Handling
  <1>9. ASSUME NEW l \in Launcher, StopGone(l), calm PROVE ServerInv'
    <2>0. at[l] = "gone" /\ process' = process
          /\ (pidfile' = pidfile \/ process[pid[l]] = "free")
      BY ZenonT(30), <1>9 DEF StopGone, Proceed, serverVars
    <2>1. at'[l] \notin Handling
      BY <1>9 DEF StopGone, Stopped, Proceed, End, Go, RuntimeTyped, Handling
    <2>2. \A k \in Launcher : at'[k] \notin Handling /\ at[k] \notin {"pidfile", "identify"}
      BY ZenonT(30), <1>0, <1>9, <2>0, <2>1 DEF Stopping, Handling
    <2>3. /\ pid[l] = pidfile
          /\ \A p \in Pid : process[p] \in Alive => p = pidfile
          /\ \A p \in Pid : process[p] # "shell"
      BY ZenonT(30), <1>9, <2>0, <2>2 DEF ServerInv
    <2>4. \A p \in Pid : process'[p] \in Alive => p = pidfile'
      BY Zenon, <2>0, <2>3 DEF Alive
    <2> QED BY Zenon, <2>0, <2>2, <2>3, <2>4 DEF ServerInv, Handling
  <1>10. ASSUME NEW p \in Pid, ProcessMoves(p) PROVE ServerInv'
    <2>1. UNCHANGED <<calm, at, pid, pidfile>>
      BY Zenon, <1>10 DEF ProcessMoves, launcherVars, limits
    <2>2. \A q \in Pid : /\ process'[q] \in Alive => process[q] \in Alive
                         /\ process'[q] = "shell" => process[q] = "shell"
      BY Zenon, <1>10 DEF ProcessMoves, RuntimeTyped, Alive
    <2> QED BY Zenon, <2>1, <2>2 DEF ServerInv
  <1>11. CASE SessionMoves \/ UNCHANGED vars
    BY ZenonT(30), <1>11 DEF SessionMoves, vars, launcherVars, limits, serverVars, ServerInv
  <1>12. CASE Reboot
    BY ZenonT(30), <1>12 DEF Reboot, ServerInv, Alive
  <1>13. ASSUME NEW l \in Launcher, Serving(l) \/ Stopping(l), ~calm PROVE ServerInv'
    BY Zenon, <1>13, CalmKept DEF ServerInv
  <1> QED
    BY Zenon, <1>1, <1>2, <1>3, <1>4, <1>5, <1>6, <1>7, <1>8, <1>9, <1>10, <1>11, <1>12, <1>13,
       RuntimeCases DEF Serving, Stopping

LEMMA RebootsCounted ==
  ASSUME reboots \in Nat, [Next]_vars
  PROVE  reboots' \in Nat
  <1>1. ASSUME NEW l \in Launcher,
               Command(l) \/ Killed(l) \/ Starting(l) \/ Serving(l) \/ Stopping(l)
        PROVE  reboots' \in Nat
    BY Zenon, <1>1, CalmKept
  <1>2. CASE (\E p \in Pid : ProcessMoves(p)) \/ SessionMoves \/ UNCHANGED vars
    BY Zenon, <1>2 DEF ProcessMoves, SessionMoves, vars, limits
  <1>3. CASE Reboot
    BY <1>3 DEF Reboot
  <1> QED BY Zenon, <1>1, <1>2, <1>3, RuntimeCases

\* A stop that finds no server, or sees the one it has signalled gone, has left
\* none behind.
LEMMA StoppedGone ==
  ASSUME RuntimeTyped, CalmInv, ServerInv, [Next]_vars, NEW l \in Launcher,
         reboots \in Nat, calm, at[l] \in {"stop", "gone"}, at'[l] \in {"idle", "stop_affinity"},
         reboots' = reboots
  PROVE  \A p \in Pid : process[p] \notin Alive
  <1>1. ~Reboot
    <2> SUFFICES ASSUME Reboot PROVE FALSE
      BY Zenon
    <2>1. reboots' = reboots + 1
      BY Zenon DEF Reboot
    <2> QED BY <2>1
  <1>2. StopPid(l) \/ StopGone(l)
    <2>1. at'[l] # at[l]
      BY Zenon
    <2>2. PICK k \in Launcher :
            Command(k) \/ Killed(k) \/ Starting(k) \/ Serving(k) \/ Stopping(k)
      BY ZenonT(30), <1>1, <2>1, RuntimeCases DEF ProcessMoves, SessionMoves, vars, launcherVars
    <2>3. k = l
      BY Zenon, <2>1, <2>2, OthersStay
    <2> QED
      BY Zenon, <2>2, <2>3 DEF Command, Killed, Starting, Serving, Stopping, Idle, StartAffinity,
         StartState, StartRearm, StartImage, StartStart, StartVerify, StartVerifyState,
         ServerApi, ServerPid, ServerSpawn, ServerPidfile, ServerIdentify, ServerWait,
         StopKill, StopAffinity, StopZephyr, StopVerify, StopVerifyOff
  <1>3. \A k \in Launcher : at[k] \notin {"pidfile", "identify"}
    <2>1. \A k \in Launcher \ {l} : at[k] \in Idle
      BY Zenon, <1>2, Alone DEF Stopping
    <2> QED BY Zenon, <2>1 DEF Idle
  <1>4. CASE StopPid(l)
    <2>1. ~ServerRuns
      BY Zenon, <1>4 DEF StopPid, Go, RuntimeTyped
    <2> QED BY Zenon, <1>3, <2>1, NoneHidden
  <1>5. CASE StopGone(l)
    <2>1. process[pid[l]] = "free" /\ at[l] = "gone"
      BY Zenon, <1>5 DEF StopGone, Proceed, End, Go, RuntimeTyped
    <2> QED BY Zenon, <1>3, <2>1 DEF ServerInv, Alive
  <1> QED BY Zenon, <1>2, <1>4, <1>5

-----------------------------------------------------------------------------
(* Why a start is refused *)

\* In the calm and with firmware that does not lag, a partial image belongs to
\* the command under way, and a start that has found OFFLINE rearms.
RefusalInv ==
  calm /\ ~lag =>
    /\ ~attempted /\ image > 0 => \E l \in Launcher : offset[l] > 0
    /\ \A l \in Launcher :
         /\ affinity[l] # "error"
         /\ at[l] \in {"rearm", "image"} => affinity[l] # "on"
         /\ at[l] = "rearm" => phase = "OFFLINE"
         /\ at[l] \in {"state", "rearm", "image"} /\ affinity[l] = "off" =>
              found[l] \in {"UNARMED", "STARTING", "START_TIMEOUT", "OFFLINE"}
         /\ at[l] = "state" /\ found[l] = "OFFLINE" => phase = "OFFLINE"
         /\ at[l] = "image" /\ found[l] = "OFFLINE" => ~attempted

\* Where what affinity_state has said still matters.
Deciding == {"state", "rearm", "image"}

LEMMA RefusalPlain ==
  ASSUME RefusalInv, ImageInv, calm, ~lag, NEW l \in Launcher,
         UNCHANGED <<image, attempted>>, offset'[l] = offset[l] \/ offset[l] = 0,
         \A k \in Launcher \ {l} :
           /\ at[k] \in Idle /\ at'[k] = at[k]
           /\ affinity'[k] = affinity[k] /\ offset'[k] = offset[k],
         affinity'[l] # "error", at'[l] \notin Deciding
  PROVE  RefusalInv'
  <1>1. \A k \in Launcher : at'[k] \notin Deciding /\ affinity'[k] # "error"
    BY ZenonT(30) DEF Idle, Deciding, RefusalInv
  <1>2. ASSUME ~attempted', image' > 0 PROVE \E k \in Launcher : offset'[k] > 0
    <2>1. PICK k \in Launcher : offset[k] > 0
      BY Zenon, <1>2 DEF RefusalInv
    <2>2. offset'[k] = offset[k]
      BY <2>1
    <2> QED BY Zenon, <2>1, <2>2
  <1> QED BY ZenonT(30), <1>1, <1>2 DEF RefusalInv, Deciding

\* The steps of a start that still decide.
LEMMA RefusalStart ==
  ASSUME RuntimeTyped, SessionInv, ImageInv, CalmInv, RefusalInv, calm, ~lag,
         NEW l \in Launcher,
         StartAffinity(l) \/ StartState(l) \/ StartRearm(l) \/ StartImage(l) \/ StartStart(l)
  PROVE  RefusalInv'
  <1>0. \A k \in Launcher \ {l} :
          /\ at[k] \in Idle /\ at'[k] = at[k]
          /\ affinity'[k] = affinity[k] /\ offset'[k] = offset[k]
    BY ZenonT(30), Alone, OthersStay DEF Starting
  <1>1. \A k \in Launcher \ {l} : at'[k] \notin Deciding /\ affinity'[k] # "error"
    BY ZenonT(30), <1>0 DEF Idle, Deciding, RefusalInv
  <1>2. \A k \in Launcher \ {l} : offset[k] = 0 /\ offset'[k] = 0
    BY Zenon, <1>0 DEF ImageInv, Idle
  <1>3. CASE StartAffinity(l)
    <2>1. /\ at[l] = "affinity" /\ at'[l] = "state" /\ found'[l] = phase' /\ offset' = offset
          /\ UNCHANGED <<image, attempted>>
      BY Zenon, <1>3 DEF StartAffinity, ReadAffinity, Refresh, Notice, Go, RuntimeTyped, sessionState
    <2>2. affinity'[l] = power /\ Refresh
      BY Zenon, <1>3 DEF StartAffinity, ReadAffinity, SaysOff, RuntimeTyped
    <2>3. power = "off" => phase' \in {"UNARMED", "STARTING", "START_TIMEOUT", "OFFLINE"}
      BY Zenon, <2>2 DEF Refresh, Notice, SessionInv, SessionTypeOK, Phase, sessionState
    <2>4. power # "error"
      BY Zenon DEF SessionInv, SessionTypeOK
    <2>5. ~attempted' /\ image' > 0 => \E k \in Launcher : offset'[k] > 0
      BY Zenon, <2>1 DEF RefusalInv
    <2> QED BY ZenonT(30), <1>1, <2>1, <2>2, <2>3, <2>4, <2>5 DEF RefusalInv, Deciding
  <1>4. CASE StartState(l)
    <2>1. /\ at[l] = "state" /\ UNCHANGED <<image, attempted, phase>>
          /\ at'[l] \in {"api", "failed", "rearm", "image"}
          /\ affinity[l] = "on" => at'[l] \in {"api", "failed"}
          /\ at'[l] = "rearm" => phase = "OFFLINE"
          /\ at'[l] = "image" => phase # "OFFLINE"
          /\ at'[l] \in {"rearm", "image"} => UNCHANGED <<affinity, found, offset>>
          /\ affinity'[l] \in {affinity[l], "off"}
      BY ZenonT(30), <1>4 DEF StartState, Proceed, End, Go, RuntimeTyped, sessionState, Idle
    <2>2. CASE at'[l] \in {"api", "failed"}
      <3>1. offset[l] = 0 /\ affinity'[l] # "error" /\ at'[l] \notin Deciding
        BY ZenonT(30), <2>1, <2>2 DEF ImageInv, RefusalInv, Deciding
      <3> QED BY Zenon, <1>0, <2>1, <3>1, RefusalPlain
    <2>3. CASE at'[l] \in {"rearm", "image"}
      <3>1. UNCHANGED <<affinity, found, offset>>
        BY ZenonT(30), <2>1, <2>3
      <3>2. ~attempted' /\ image' > 0 => \E k \in Launcher : offset'[k] > 0
        BY Zenon, <2>1, <3>1 DEF RefusalInv
      <3> QED BY ZenonT(30), <1>1, <2>1, <2>3, <3>1, <3>2 DEF RefusalInv, Deciding
    <2> QED BY ZenonT(30), <2>1, <2>2, <2>3
  <1>5. CASE StartRearm(l)
    <2>1. CASE Proceed(l, "failed")
      <3>1. /\ UNCHANGED <<image, attempted>> /\ at'[l] = "failed" /\ affinity'[l] = "off"
            /\ at[l] = "rearm"
        BY Zenon, <1>5, <2>1 DEF StartRearm, Proceed, End, Go, RuntimeTyped, sessionState, Idle
      <3>2. offset[l] = 0
        BY ZenonT(30), <3>1 DEF ImageInv
      <3> QED BY ZenonT(30), <1>0, <3>1, <3>2, RefusalPlain DEF Deciding
    <2>2. CASE ~Proceed(l, "failed")
      <3>1. /\ at[l] = "rearm" /\ at'[l] = "image" /\ image' = 0 /\ attempted' = FALSE
            /\ UNCHANGED <<affinity, found>>
        BY Zenon, <1>5, <2>2 DEF StartRearm, Rearm, Go, RuntimeTyped
      <3>2. ~(image' > 0) /\ ~attempted'
        BY <3>1
      <3>3. affinity'[l] \notin {"error", "on"}
            /\ (affinity'[l] = "off" =>
                  found'[l] \in {"UNARMED", "STARTING", "START_TIMEOUT", "OFFLINE"})
        BY Zenon, <3>1 DEF RefusalInv
      <3> QED BY Zenon, <1>1, <3>1, <3>2, <3>3 DEF RefusalInv, Deciding
    <2> QED BY Zenon, <2>1, <2>2
  <1>6. CASE StartImage(l)
    <2>1. CASE Proceed(l, "failed")
      <3>1. /\ UNCHANGED <<image, attempted>> /\ at'[l] = "failed" /\ affinity'[l] = "off"
            /\ at[l] = "image"
        BY <1>6, <2>1 DEF StartImage, Proceed, End, Go, RuntimeTyped, sessionState, Idle
      <3>2. ~ChunkAccepted(l)
        BY <1>6, <2>1 DEF StartImage, Proceed, LoadChunk, sessionState, SessionInv, SessionTypeOK
      <3>3. attempted \/ ~(image > 0)
        <4> SUFFICES ASSUME ~attempted, image > 0 PROVE FALSE
          BY Zenon
        <4>1. offset[l] > 0
          <5>1. PICK k \in Launcher : offset[k] > 0
            BY Zenon DEF RefusalInv
          <5>2. ASSUME k # l PROVE FALSE
            <6>1. offset[k] = 0
              BY Zenon, <1>2, <5>2
            <6> QED BY <5>1, <6>1
          <5> QED BY Zenon, <5>1, <5>2
        <4>2. offset[l] = image /\ image < ImageSize
          BY Zenon, <3>1, <4>1 DEF ImageInv
        <4> QED BY Zenon, <3>2, <4>2 DEF ChunkAccepted
      <3>4. \A k \in Launcher : at'[k] \notin Deciding /\ affinity'[k] # "error"
        BY Zenon, <1>1, <3>1 DEF Deciding
      <3> QED BY ZenonT(30), <3>1, <3>3, <3>4 DEF RefusalInv, Deciding
    <2>2. CASE ~Proceed(l, "failed")
      <3>1. /\ at[l] = "image" /\ at'[l] \in {"image", "start"} /\ ~attempted'
            /\ UNCHANGED <<affinity, found, phase>> /\ offset'[l] = offset[l] + 1
        BY <1>6, <2>2 DEF StartImage, ChunkAccepted, LoadChunk, Go, RuntimeTyped
      <3>2. offset'[l] > 0
        <4>1. offset[l] \in 0 .. ImageSize
          BY Zenon DEF RuntimeTyped
        <4> QED BY <3>1, <4>1, SessionAssumption
      <3> QED BY Zenon, <1>1, <3>1, <3>2 DEF RefusalInv, Deciding
    <2> QED BY Zenon, <2>1, <2>2
  <1>7. CASE StartStart(l)
    <2>1. /\ at[l] = "start" /\ offset[l] = ImageSize /\ offset[l] > 0 /\ ~attempted
          /\ image = ImageSize /\ power = "off"
      <3>1. at[l] = "start"
        BY Zenon, <1>7 DEF StartStart
      <3>2. offset[l] = ImageSize
        BY Zenon, <3>1 DEF ImageInv
      <3>3. offset[l] > 0
        BY <3>2, SessionAssumption
      <3>4. ~attempted /\ image = ImageSize
        BY Zenon, <3>2, <3>3 DEF ImageInv
      <3> QED BY Zenon, <3>1, <3>2, <3>3, <3>4 DEF SessionInv
    <2>2. Launch /\ at'[l] \in {"verify", "failed"} /\ affinity'[l] = "off"
      BY Zenon, <1>7, <2>1 DEF StartStart, End, Go, RuntimeTyped
    <2>3. attempted'
      BY ZenonT(30), <2>2 DEF Launch
    <2>4. \A k \in Launcher : at'[k] \notin Deciding /\ affinity'[k] # "error"
      BY Zenon, <1>1, <2>2 DEF Deciding
    <2> QED BY ZenonT(30), <2>3, <2>4 DEF RefusalInv, Deciding
  <1> QED BY Zenon, <1>3, <1>4, <1>5, <1>6, <1>7

LEMMA RefusalStays ==
  ASSUME RuntimeTyped, SessionInv, ImageInv, CalmInv, RefusalInv, [Next]_vars
  PROVE  RefusalInv'
  <1>1. ASSUME NEW l \in Launcher,
               Command(l) \/ Killed(l) \/ Starting(l) \/ Serving(l) \/ Stopping(l),
               ~calm \/ lag
        PROVE  RefusalInv'
    BY ZenonT(30), <1>1, CalmKept DEF RefusalInv
  <1>2. ASSUME NEW l \in Launcher,
               \/ Command(l) \/ StartVerify(l) \/ StartVerifyState(l) \/ Serving(l)
               \/ Stopping(l),
               calm, ~lag
        PROVE  RefusalInv'
    <2>1. \A k \in Launcher \ {l} :
            /\ at[k] \in Idle /\ at'[k] = at[k]
            /\ affinity'[k] = affinity[k] /\ offset'[k] = offset[k]
      BY ZenonT(30), <1>2, Alone, OthersStay DEF Starting
    <2>2. at[l] \notin {"image", "start"} /\ at'[l] \notin Deciding
      <3>1. CASE Command(l)
        BY Zenon, <3>1 DEF Command, Go, RuntimeTyped, Deciding, Idle
      <3>2. CASE StartVerify(l) \/ StopAffinity(l) \/ StopVerify(l)
        BY Zenon, <3>2 DEF StartVerify, StopAffinity, StopVerify, ReadAffinity, Go, RuntimeTyped,
             Deciding
      <3>3. CASE \/ StartVerifyState(l) \/ ServerApi(l) \/ ServerPid(l) \/ ServerIdentify(l)
                 \/ ServerWait(l) \/ StopKill(l) \/ StopVerifyOff(l)
        <4>1. /\ \E label \in {"api", "failed", "idle", "pid", "wait", "spawn", "gone"} :
                   Proceed(l, label)
              /\ at[l] \notin {"image", "start"}
          BY ZenonT(30), <3>3 DEF StartVerifyState, ServerApi, ServerPid, ServerIdentify, ServerWait,
               StopKill, StopVerifyOff
        <4> QED BY Zenon, <4>1 DEF Proceed, End, Go, RuntimeTyped, Deciding
      <3>4. CASE ServerSpawn(l) \/ ServerPidfile(l) \/ StopPid(l)
        BY ZenonT(30), <3>4 DEF ServerSpawn, ServerPidfile, StopPid, Stopped, Proceed, End, Go,
             RuntimeTyped, Deciding
      <3>5. CASE StopGone(l) \/ StopZephyr(l)
        BY ZenonT(30), <3>5 DEF StopGone, StopZephyr, Stopped, Proceed, End, Go, RuntimeTyped, Deciding
      <3> QED BY Zenon, <1>2, <3>1, <3>2, <3>3, <3>4, <3>5 DEF Serving, Stopping
    <2>3. affinity'[l] # "error"
      <3>1. affinity[l] # "error" /\ power # "error"
        BY ZenonT(30), <1>2 DEF RefusalInv, SessionInv, SessionTypeOK
      <3>2. CASE StartVerify(l) \/ StopAffinity(l) \/ StopVerify(l)
        BY Zenon, <1>2, <3>1, <3>2 DEF StartVerify, StopAffinity, StopVerify, ReadAffinity, RuntimeTyped
      <3>3. CASE ~(StartVerify(l) \/ StopAffinity(l) \/ StopVerify(l))
        <4>1. affinity'[l] \in {affinity[l], "off"}
          <5>1. CASE Command(l) \/ ServerPidfile(l)
            BY Zenon, <5>1 DEF Command, ServerPidfile
          <5>2. CASE StartVerifyState(l) \/ ServerApi(l) \/ ServerPid(l) \/ ServerIdentify(l)
                     \/ ServerWait(l) \/ StopKill(l) \/ StopVerifyOff(l)
            <6>1. \E label : Proceed(l, label)
              BY ZenonT(30), <5>2 DEF StartVerifyState, ServerApi, ServerPid, ServerIdentify, ServerWait,
                   StopKill, StopVerifyOff
            <6> QED BY <6>1 DEF Proceed, End, RuntimeTyped
          <5>3. CASE ServerSpawn(l) \/ StopPid(l)
            <6>1. affinity' = affinity \/ \E label : Proceed(l, label)
              BY Zenon, <5>3 DEF ServerSpawn, StopPid
            <6> QED BY <6>1 DEF Proceed, End, RuntimeTyped
          <5>4. CASE StopGone(l) \/ StopZephyr(l)
            <6>1. affinity' = affinity \/ (\E label : End(l, label)) \/ \E label : Proceed(l, label)
              BY Zenon, <5>4 DEF StopGone, StopZephyr
            <6> QED BY <6>1 DEF Proceed, End, RuntimeTyped
          <5> QED BY ZenonT(30), <1>2, <3>3, <5>1, <5>2, <5>3, <5>4 DEF Serving, Stopping
        <4> QED BY Zenon, <3>1, <4>1
      <3> QED BY Zenon, <3>2, <3>3
    <2>4. UNCHANGED <<image, attempted>>
      BY ZenonT(30), <1>2 DEF Command, StartVerify, StartVerifyState, Serving, Stopping, ServerApi,
           ServerPid, ServerSpawn, ServerPidfile, ServerIdentify, ServerWait, StopPid, StopKill,
           StopGone, StopAffinity, StopZephyr, StopVerify, StopVerifyOff, Proceed,
           ReadAffinity, Refresh, Notice, RequestStop, sessionState
    <2>5. offset[l] = 0
      BY Zenon, <2>2 DEF ImageInv
    <2> QED BY Zenon, <1>2, <2>1, <2>2, <2>3, <2>4, <2>5, RefusalPlain
  <1>3. ASSUME NEW l \in Launcher, Killed(l) PROVE RefusalInv'
    BY Zenon, <1>1, <1>3 DEF Killed
  <1>4. CASE (\E p \in Pid : ProcessMoves(p)) \/ UNCHANGED vars
    BY ZenonT(30), <1>4 DEF ProcessMoves, vars, launcherVars, limits, sessionState, RefusalInv
  <1>5. CASE SessionMoves
    <2>1. UNCHANGED <<calm, at, affinity, found, offset>>
      BY Zenon, <1>5 DEF SessionMoves, launcherVars, limits
    <2>2. UNCHANGED <<image, attempted, lag>> /\ (phase = "OFFLINE" => phase' = "OFFLINE")
      BY Zenon, <1>5 DEF SessionMoves, Ready, Expire, RefuseStop, Notice, OpenFile, CloseFile, PowerUp,
           PowerDown, Watched
    <2> QED BY Zenon, <2>1, <2>2 DEF RefusalInv
  <1>6. CASE Reboot
    <2>1. /\ image' = 0 /\ \A k \in Launcher : at'[k] = "idle" /\ affinity'[k] = "off"
      BY Zenon, <1>6 DEF Reboot
    <2>2. ~(image' > 0)
      BY <2>1
    <2> QED BY Zenon, <2>1, <2>2 DEF RefusalInv
  <1> QED
    BY Zenon, <1>1, <1>2, <1>3, <1>4, <1>5, <1>6, RefusalStart, RuntimeCases DEF Starting

\* What a refused step of a start tells of the board.
LEMMA RefusalReason ==
  ASSUME RuntimeTyped, SessionInv, ImageInv, CalmInv, RefusalInv, [Next]_vars,
         NEW l \in Launcher, calm, ~lag,
         at[l] \in {"rearm", "image", "start"}, at'[l] = "failed"
  PROVE  \/ at[l] = "rearm" /\ files > 0
         \/ /\ at[l] = "image" /\ attempted
            /\ \/ found[l] \in {"UNARMED", "STARTING", "START_TIMEOUT"}
               \/ affinity[l] = "pending"
         \/ at[l] = "start" /\ attempted' /\ ~attempted
  <1>1. StartRearm(l) \/ StartImage(l) \/ StartStart(l)
    <2>1. PICK k \in Launcher :
            Command(k) \/ Killed(k) \/ Starting(k) \/ Serving(k) \/ Stopping(k)
      BY ZenonT(30), RuntimeCases DEF ProcessMoves, SessionMoves, Reboot, vars, launcherVars
    <2>2. k = l
      BY Zenon, <2>1, OthersStay
    <2> QED
      BY ZenonT(30), <2>1, <2>2 DEF Command, Killed, Starting, Serving, Stopping, Idle, StartAffinity,
         StartState, StartVerify, StartVerifyState, ServerApi, ServerPid, ServerSpawn,
         ServerPidfile, ServerIdentify, ServerWait, StopPid, StopKill, StopGone,
         StopAffinity, StopZephyr, StopVerify, StopVerifyOff
  <1>2. CASE StartRearm(l)
    <2>1. at[l] = "rearm" /\ ~(attempted /\ files = 0 /\ power = "off")
      BY Zenon, <1>2 DEF StartRearm, Go, RuntimeTyped
    <2>2. attempted /\ power = "off"
      BY Zenon, <2>1 DEF RefusalInv, SessionInv, OfflineMeansOff
    <2>3. files > 0
      BY <2>1, <2>2, SessionAssumption DEF SessionInv, SessionTypeOK
    <2> QED BY Zenon, <2>1, <2>3
  <1>3. CASE StartImage(l)
    <2>1. at[l] = "image" /\ ~ChunkAccepted(l)
      BY Zenon, <1>3 DEF StartImage, Go, RuntimeTyped
    <2>2. attempted
      <3> SUFFICES ASSUME ~attempted PROVE FALSE
        BY Zenon
      <3>1. offset[l] = image
        <4>1. CASE image > 0
          <5>1. \A k \in Launcher \ {l} : offset[k] = 0
            BY Zenon, <2>1 DEF CalmInv, ImageInv, Idle
          <5>2. offset[l] > 0
            BY <4>1, <5>1 DEF RefusalInv
          <5> QED BY Zenon, <5>2 DEF ImageInv
        <4>2. CASE ~(image > 0)
          BY <4>2 DEF ImageInv, RuntimeTyped, SessionInv, SessionTypeOK
        <4> QED BY Zenon, <4>1, <4>2
      <3>2. image < ImageSize
        BY Zenon, <2>1, <3>1 DEF ImageInv
      <3> QED BY Zenon, <2>1, <3>1, <3>2 DEF ChunkAccepted
    <2>3. affinity[l] \in {"off", "pending"}
      BY Zenon, <2>1 DEF RefusalInv, RuntimeTyped, Affinity
    <2> QED BY Zenon, <2>1, <2>2, <2>3 DEF RefusalInv
  <1>4. CASE StartStart(l)
    <2>1. /\ at[l] = "start" /\ ~attempted /\ image = ImageSize /\ power = "off"
      <3>1. at[l] = "start"
        BY Zenon, <1>4 DEF StartStart
      <3>2. offset[l] = ImageSize
        BY Zenon, <3>1 DEF ImageInv
      <3>3. offset[l] > 0
        BY <3>2, SessionAssumption
      <3>4. ~attempted /\ image = ImageSize
        BY Zenon, <3>2, <3>3 DEF ImageInv
      <3> QED BY Zenon, <3>1, <3>4 DEF SessionInv
    <2> QED BY ZenonT(30), <1>4, <2>1 DEF StartStart, Launch
  <1> QED BY Zenon, <1>1, <1>2, <1>3, <1>4

-----------------------------------------------------------------------------
(* The launcher's theorems *)

\* The inductive invariant of the launcher.
RuntimeInv ==
  /\ SessionInv /\ RuntimeTyped /\ reboots \in Nat
  /\ CalmInv /\ ImageInv /\ TermsOnlyServers /\ ServerInv /\ RefusalInv

LEMMA RuntimeAtStart == Init => RuntimeInv
  <1> SUFFICES ASSUME Init PROVE RuntimeInv
    BY Zenon
  <1>1. SessionInv
    BY Zenon, SessionInvInit DEF Init
  <1>2. RuntimeTyped /\ reboots \in Nat
    BY SessionAssumption DEF Init, RuntimeTyped, Label, Affinity, Phase, Holding
  <1>3. CalmInv /\ TermsOnlyServers /\ ServerInv
    BY Zenon DEF Init, CalmInv, TermsOnlyServers, ServerInv, Idle, Alive
  <1>4. ImageInv
    <2>1. writers = <<>> /\ image = 0 /\ attempted = FALSE
          /\ \A l \in Launcher : at[l] = "idle" /\ offset[l] = 0
      BY Zenon DEF Init, SessionInit
    <2>2. Len(writers) = 0
      BY Zenon, <2>1
    <2> QED BY <2>1, <2>2 DEF ImageInv
  <1>5. RefusalInv
    BY DEF Init, SessionInit, RefusalInv
  <1> QED BY Zenon, <1>1, <1>2, <1>3, <1>4, <1>5 DEF RuntimeInv

LEMMA RuntimeStays == RuntimeInv /\ [Next]_vars => RuntimeInv'
  <1> SUFFICES ASSUME RuntimeInv, [Next]_vars PROVE RuntimeInv'
    BY Zenon
  <1>1. SessionInv' /\ SessionTypeOK /\ SessionTypeOK'
    BY Zenon, SessionStays DEF RuntimeInv, SessionInv
  <1> QED
    BY Zenon, <1>1, TypedStays, RebootsCounted, CalmStays, ImageStays, TermsStays, ServerStays,
       RefusalStays DEF RuntimeInv

\* SIGTERM reaches the RKLLM server or nobody: for any number of overlapping or
\* killed commands, processes and reboots, and whatever the pidfile names.
THEOREM TermsServers == Spec => []TermsOnlyServers
  <1>1. RuntimeInv => TermsOnlyServers
    BY Zenon DEF RuntimeInv
  <1> QED BY <1>1, RuntimeAtStart, RuntimeStays, PTL DEF Spec

\* While CPU3 is up it has one whole image of one writer, for every image size
\* and any number of overlapping, killed and repeated starts, unless the
\* firmware lags.
THEOREM OneImage == Spec => []RunsOneImage
  <1>1. RuntimeInv => RunsOneImage
    <2> SUFFICES ASSUME RuntimeInv, ~lag, power # "off"
                 PROVE  /\ Len(writers) = ImageSize
                        /\ \A i \in 1 .. ImageSize : writers[i] = writers[1]
      BY Zenon DEF RunsOneImage
    <2>1. attempted
      BY Zenon DEF RuntimeInv, SessionInv
    <2>2. Len(writers) = ImageSize /\ 1 \in 1 .. ImageSize
      BY <2>1, SessionAssumption DEF RuntimeInv, ImageInv
    <2>3. \A i, j \in 1 .. ImageSize : writers[i] = writers[j]
      BY Zenon, <2>2 DEF RuntimeInv, ImageInv
    <2> QED BY Zenon, <2>2, <2>3
  <1> QED BY <1>1, RuntimeAtStart, RuntimeStays, PTL DEF Spec

\* In the calm, a stop that reports the server stopped leaves none, however many
\* starts, crashes of the server and reboots came before it.
THEOREM StoppedIsGone == Spec => StoppedMeansGone
  <1>1. ASSUME RuntimeInv, [Next]_vars
        PROVE  \A l \in Launcher :
                 /\ calm /\ at[l] \in {"stop", "gone"}
                 /\ at'[l] \in {"idle", "stop_affinity"} /\ reboots' = reboots
                 => \A p \in Pid : process[p] \notin {"shell", "server"}
    BY Zenon, <1>1, StoppedGone DEF RuntimeInv, Alive
  <1> QED BY <1>1, RuntimeAtStart, RuntimeStays, PTL DEF Spec, StoppedMeansGone

\* In the calm, with firmware that does not lag, start is refused before CPU3
\* runs only for the reasons listed: a session that was active never prevents
\* the next one.
THEOREM RefusalsExplained == Spec => StartRefusalsExplained
  <1>1. ASSUME RuntimeInv, [Next]_vars
        PROVE  \A l \in Launcher :
                 calm /\ ~lag /\ at[l] \in {"rearm", "image", "start"} /\ at'[l] = "failed" =>
                   \/ at[l] = "rearm" /\ files > 0
                   \/ /\ at[l] = "image" /\ attempted
                      /\ \/ found[l] \in {"UNARMED", "STARTING", "START_TIMEOUT"}
                         \/ affinity[l] = "pending"
                   \/ at[l] = "start" /\ attempted' /\ ~attempted
    BY Zenon, <1>1, RefusalReason DEF RuntimeInv
  <1> QED BY <1>1, RuntimeAtStart, RuntimeStays, PTL DEF Spec, StartRefusalsExplained
=============================================================================
