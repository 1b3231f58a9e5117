------------------------------- MODULE Runtime -------------------------------
(***************************************************************************)
(* scripts/lzamp-runtime: the launcher that starts and stops Zephyr        *)
(* through the driver's sysfs attributes (AmpSession) and the RKLLM server *)
(* through its pidfile.  A step is one command of the script that reads or *)
(* changes something outside it; `set -e` makes every refusal the end of   *)
(* the command.  CPU3, users of the device files, the server and other     *)
(* processes act in between, and the board may be rebooted.                *)
(*                                                                         *)
(* A process is one of other programs, or the child the script has forked  *)
(* for the server: shell until it execs nohup, server afterwards (the      *)
(* arguments server_pid looks for are those of nohup already).  A pid is   *)
(* not given out again while a command holds it: numbers come round only   *)
(* after thousands of forks.                                               *)
(***************************************************************************)
EXTENDS AmpSession, Sequences

CONSTANTS
  Launcher,      \* invocations that may overlap
  Pid,           \* bound: process numbers, positive
  MaxCommands,   \* bound: commands given
  MaxReboots     \* bound: reboots, between or during commands that are calm

ASSUME RuntimeAssumption ==
  Pid \subseteq Nat \ {0} /\ MaxCommands \in Nat /\ MaxReboots \in Nat

VARIABLES
  calm,        \* no two commands overlap, none is killed, AFFINITY_INFO
               \* answers, and CPU3 leaves no doorbell behind
  commands, reboots,
  at,          \* the step each launcher is at
  affinity,    \* local: what affinity_state last said
  found,       \* history: the phase that reading affinity_state left
  pid,         \* local: pid, 0 when unset
  withZephyr,  \* local: stop --with-zephyr
  offset,      \* file position of cat
  writers,     \* history: who wrote each chunk of the image
  process, listening, pidfile   \* 0: no listener, no file

launcherVars == <<at, affinity, found, pid, withZephyr, offset>>
serverVars == <<process, listening, pidfile>>
limits == <<calm, commands, reboots>>
vars == <<sessionState, limits, launcherVars, writers, serverVars>>

Idle == {"idle", "failed"}   \* no command, or one that ended with an error

Init ==
  /\ SessionInit
  /\ calm \in BOOLEAN /\ commands = 0 /\ reboots = 0
  /\ lag => calm   \* bound: RunsOneImage says nothing of a firmware that lags
  /\ at = [l \in Launcher |-> "idle"]
  /\ affinity = [l \in Launcher |-> "off"]
  /\ found = [l \in Launcher |-> "UNARMED"]
  /\ pid = [l \in Launcher |-> 0]
  /\ withZephyr = [l \in Launcher |-> FALSE]
  /\ offset = [l \in Launcher |-> 0]
  /\ writers = <<>>
  /\ process = [p \in Pid |-> "free"] /\ listening = 0 /\ pidfile = 0

Go(l, label) == at' = [at EXCEPT ![l] = label]

\* The command ends; its locals are gone.
End(l, label) ==
  /\ Go(l, label)
  /\ affinity' = [affinity EXCEPT ![l] = "off"]
  /\ found' = [found EXCEPT ![l] = "UNARMED"]
  /\ pid' = [pid EXCEPT ![l] = 0]
  /\ withZephyr' = [withZephyr EXCEPT ![l] = FALSE]
  /\ offset' = [offset EXCEPT ![l] = 0]

\* A step that changes only where the command is.
Proceed(l, label) ==
  /\ IF label \in Idle THEN End(l, label)
     ELSE Go(l, label) /\ UNCHANGED <<affinity, found, pid, withZephyr, offset>>
  /\ UNCHANGED <<sessionState, limits, writers, serverVars>>

\* The commands start and stop [--with-zephyr].
Command(l) ==
  /\ at[l] \in Idle /\ commands < MaxCommands
  /\ calm => \A k \in Launcher : at[k] \in Idle
  /\ commands' = commands + 1
  /\ \/ Go(l, "affinity") /\ UNCHANGED withZephyr
     \/ /\ Go(l, "stop")
        /\ \E z \in BOOLEAN : withZephyr' = [withZephyr EXCEPT ![l] = z]
  /\ UNCHANGED <<sessionState, calm, reboots, affinity, found, pid, offset,
                 writers, serverVars>>

-----------------------------------------------------------------------------
(* start_zephyr *)

\* The driver refreshes when affinity_state is read: CPU3 off is noticed at
\* once after a session that was active, and before that only if an earlier
\* look had found it on.
Refresh ==
  \/ Notice
  \/ /\ ~(power = "off" /\ phase \in {"ACTIVE", "STOPPING", "STOP_TIMEOUT"})
     /\ UNCHANGED sessionState

\* cat affinity_state; AFFINITY_INFO may fail, and then nothing is refreshed.
ReadAffinity(l, label) ==
  /\ \/ /\ \/ affinity' = [affinity EXCEPT ![l] = power]
           \/ SaysOff /\ affinity' = [affinity EXCEPT ![l] = "off"]
        /\ Refresh
     \/ /\ ~calm /\ affinity' = [affinity EXCEPT ![l] = "error"]
        /\ UNCHANGED sessionState
  /\ found' = [found EXCEPT ![l] = phase']
  /\ Go(l, label)
  /\ UNCHANGED <<limits, pid, withZephyr, offset, writers, serverVars>>

StartAffinity(l) == at[l] = "affinity" /\ ReadAffinity(l, "state")

\* Mutant: an offline session is not rearmed.
StartStateNoRearm(l) ==
  /\ at[l] = "state"
  /\ IF affinity[l] = "on"
     THEN Proceed(l, IF phase = "ACTIVE" THEN "api" ELSE "failed")
     ELSE Proceed(l, "image")

StartState(l) ==
  /\ at[l] = "state"
  /\ IF affinity[l] = "on"
     THEN Proceed(l, IF phase = "ACTIVE" THEN "api" ELSE "failed")
     ELSE Proceed(l, IF phase = "OFFLINE" THEN "rearm" ELSE "image")

StartRearm(l) ==
  /\ at[l] = "rearm"
  /\ \/ /\ Rearm /\ writers' = <<>> /\ Go(l, "image")
        /\ UNCHANGED <<limits, affinity, found, pid, withZephyr, offset, serverVars>>
     \/ /\ calm => ~(attempted /\ files = 0 /\ power = "off")
        /\ Proceed(l, "failed")

\* image_write; otherwise EBUSY, ESPIPE or EFBIG.
ChunkAccepted(l) == ~attempted /\ offset[l] = image /\ image < ImageSize

StartImage(l) ==
  /\ at[l] = "image"
  /\ \/ /\ ChunkAccepted(l) /\ LoadChunk
        /\ writers' = Append(writers, l)
        /\ offset' = [offset EXCEPT ![l] = @ + 1]
        /\ Go(l, IF offset'[l] = ImageSize THEN "start" ELSE "image")
        /\ UNCHANGED <<limits, affinity, found, pid, withZephyr, serverVars>>
     \/ ~ChunkAccepted(l) /\ Proceed(l, "failed")

\* start_store; CPU_ON may fail.
StartStart(l) ==
  /\ at[l] = "start"
  /\ \/ /\ Launch
        /\ End(l, IF phase' = "STARTING" THEN "verify" ELSE "failed")
        /\ UNCHANGED <<limits, writers, serverVars>>
     \/ /\ calm => ~(~attempted /\ image = ImageSize /\ power = "off")
        /\ Proceed(l, "failed")

\* After a second.
StartVerify(l) == at[l] = "verify" /\ ReadAffinity(l, "verify_state")
StartVerifyState(l) ==
  /\ at[l] = "verify_state"
  /\ Proceed(l, IF affinity[l] = "on" /\ phase = "ACTIVE" THEN "api" ELSE "failed")

-----------------------------------------------------------------------------
(* start_server *)

\* Mutant: the pid in the file is trusted.
ServerRunsUnnamed == pidfile # 0 /\ process[pidfile] # "free"

\* server_pid: the file names a process with the server's arguments.
ServerRuns == pidfile # 0 /\ process[pidfile] = "server"

\* api_ready: a server that listens may still miss the two seconds.
ServerApi(l) ==
  /\ at[l] = "api"
  /\ \/ listening # 0 /\ Proceed(l, "idle")
     \/ Proceed(l, "pid")

\* Mutant: a server whose API is not ready is not looked for.
ServerPidSkipped(l) == at[l] = "pid" /\ Proceed(l, "spawn")

ServerPid(l) ==
  /\ at[l] = "pid"
  /\ Proceed(l, IF ServerRuns THEN "wait" ELSE "spawn")

\* server_preflight may fail; the child is forked.
ServerSpawn(l) ==
  /\ at[l] = "spawn"
  /\ \/ \E p \in Pid :
          /\ process[p] = "free" /\ \A k \in Launcher : pid[k] # p
          /\ process' = [process EXCEPT ![p] = "shell"]
          /\ pid' = [pid EXCEPT ![l] = p]
          /\ Go(l, "pidfile")
          /\ UNCHANGED <<sessionState, limits, affinity, found, withZephyr, offset,
                         writers, listening, pidfile>>
     \/ Proceed(l, "failed")

ServerPidfile(l) ==
  /\ at[l] = "pidfile"
  /\ pidfile' = pid[l] /\ Go(l, "identify")
  /\ UNCHANGED <<sessionState, limits, affinity, found, pid, withZephyr, offset,
                 writers, process, listening>>

\* Ten looks, a tenth of a second apart: by then the child has exec'd or died.
ServerIdentify(l) ==
  /\ at[l] = "identify"
  /\ \/ ServerRuns /\ Proceed(l, "wait")
     \/ ~ServerRuns /\ process[pid[l]] # "shell" /\ Proceed(l, "failed")

\* Sixty attempts.
ServerWait(l) ==
  /\ at[l] = "wait"
  /\ \/ listening # 0 /\ Proceed(l, "idle")
     \/ Proceed(l, "failed")

-----------------------------------------------------------------------------
(* stop_server and stop_zephyr *)

Stopped(l) == IF withZephyr[l] THEN "stop_affinity" ELSE "idle"

StopPid(l) ==
  /\ at[l] = "stop"
  /\ IF ServerRuns
     THEN /\ pid' = [pid EXCEPT ![l] = pidfile] /\ Go(l, "kill")
          /\ UNCHANGED <<sessionState, limits, affinity, found, withZephyr, offset,
                         writers, serverVars>>
     ELSE Proceed(l, Stopped(l))

\* kill -TERM; a server ends at any time, so the signal leaves no other mark.
StopKill(l) ==
  /\ at[l] = "kill"
  /\ Proceed(l, IF process[pid[l]] = "free" THEN "failed" ELSE "gone")

\* kill -0, thirty times.
StopGone(l) ==
  /\ at[l] = "gone"
  /\ \/ /\ process[pid[l]] = "free" /\ pidfile' = 0
        /\ IF withZephyr[l]
           THEN /\ pid' = [pid EXCEPT ![l] = 0] /\ Go(l, Stopped(l))
                /\ UNCHANGED <<affinity, found, withZephyr, offset>>
           ELSE End(l, Stopped(l))
        /\ UNCHANGED <<sessionState, limits, writers, process, listening>>
     \/ process[pid[l]] # "free" /\ Proceed(l, "failed")

StopAffinity(l) == at[l] = "stop_affinity" /\ ReadAffinity(l, "stop_zephyr")

\* mailmsg_stop may be refused by a full or busy p0 too.
StopZephyr(l) ==
  /\ at[l] = "stop_zephyr"
  /\ \/ affinity[l] = "off" /\ Proceed(l, "idle")
     \/ /\ affinity[l] # "off" /\ RequestStop /\ End(l, "stop_verify")
        /\ UNCHANGED <<limits, writers, serverVars>>
     \/ affinity[l] # "off" /\ Proceed(l, "failed")

StopVerify(l) == at[l] = "stop_verify" /\ ReadAffinity(l, "stop_verify_off")
StopVerifyOff(l) ==
  /\ at[l] = "stop_verify_off"
  /\ Proceed(l, IF affinity[l] = "off" THEN "idle" ELSE "failed")

-----------------------------------------------------------------------------
(* What else happens *)

\* CPU3, the driver's works and the users of the device files.
SessionMoves ==
  /\ \/ Ready \/ Expire \/ RefuseStop \/ Notice
     \/ OpenFile \/ CloseFile \/ PowerUp \/ PowerDown
  /\ UNCHANGED <<limits, launcherVars, writers, serverVars>>

\* The child execs, serves, and ends: it fails, is terminated, or finds the
\* address in use.  Other programs take and leave free pids, except one that a
\* launcher has just looked at: pids are given out in rotation.
ProcessMoves(p) ==
  /\ \/ /\ process[p] = "shell"
        /\ process' = [process EXCEPT ![p] = "server"] /\ UNCHANGED listening
     \/ /\ process[p] = "server" /\ listening = 0
        /\ listening' = p /\ UNCHANGED process
     \/ /\ process[p] # "free"
        /\ process' = [process EXCEPT ![p] = "free"]
        /\ listening' = IF listening = p THEN 0 ELSE listening
     \/ /\ process[p] = "free" /\ \A l \in Launcher : pid[l] # p
        /\ process' = [process EXCEPT ![p] = "other"] /\ UNCHANGED listening
  /\ UNCHANGED <<sessionState, limits, launcherVars, writers, pidfile>>

\* The launcher is killed; what it has started goes on.
Killed(l) ==
  /\ ~calm /\ at[l] \notin Idle
  /\ Proceed(l, "failed")

\* The pidfile alone survives.
Reboot ==
  /\ calm /\ reboots < MaxReboots /\ reboots' = reboots + 1
  /\ phase' = "UNARMED" /\ image' = 0 /\ attempted' = FALSE
  /\ files' = 0 /\ power' = "off"
  /\ at' = [l \in Launcher |-> "idle"]
  /\ affinity' = [l \in Launcher |-> "off"]
  /\ found' = [l \in Launcher |-> "UNARMED"]
  /\ pid' = [l \in Launcher |-> 0]
  /\ withZephyr' = [l \in Launcher |-> FALSE]
  /\ offset' = [l \in Launcher |-> 0]
  /\ writers' = <<>>
  /\ process' = [p \in Pid |-> "free"] /\ listening' = 0
  /\ UNCHANGED <<lag, calm, commands, pidfile>>

Next ==
  \/ \E l \in Launcher :
       \/ Command(l) \/ Killed(l)
       \/ StartAffinity(l) \/ StartState(l) \/ StartRearm(l) \/ StartImage(l)
       \/ StartStart(l) \/ StartVerify(l) \/ StartVerifyState(l)
       \/ ServerApi(l) \/ ServerPid(l) \/ ServerSpawn(l) \/ ServerPidfile(l)
       \/ ServerIdentify(l) \/ ServerWait(l)
       \/ StopPid(l) \/ StopKill(l) \/ StopGone(l) \/ StopAffinity(l)
       \/ StopZephyr(l) \/ StopVerify(l) \/ StopVerifyOff(l)
  \/ \E p \in Pid : ProcessMoves(p)
  \/ SessionMoves \/ Reboot
Spec == Init /\ [][Next]_vars

-----------------------------------------------------------------------------
(* Properties *)

\* SIGTERM reaches the RKLLM server or nobody, whatever the pidfile has
\* survived and however commands overlap (lzamp-runtime: "Never trust the PID
\* alone").
TermsOnlyServers ==
  \A l \in Launcher : at[l] = "kill" => process[pid[l]] \in {"server", "free"}

\* In the calm (no commands overlap or are killed), a stop that reports the
\* server stopped leaves none: no start, crash or reboot before it has put a
\* server where stop_server does not find it.
StoppedMeansGone ==
  [][\A l \in Launcher :
       /\ calm /\ at[l] \in {"stop", "gone"}
       /\ at'[l] \in {"idle", "stop_affinity"} /\ reboots' = reboots
       => \A p \in Pid : process[p] \notin {"shell", "server"}]_vars

\* CPU3 runs one whole image: however starts overlap and wherever they are
\* killed, image_write, start_store and rearm_store never let a partial image,
\* or one of two writers, be launched, nor a start that read OFFLINE before
\* another start succeeded take the image from under CPU3 (unless the firmware
\* lags).
RunsOneImage ==
  ~lag /\ power # "off" =>
    Len(writers) = ImageSize /\ \A i \in 1 .. ImageSize : writers[i] = writers[1]

\* In the calm, start fails before CPU3 runs for these reasons only: a device
\* file is open across OFFLINE; the last attempt was never active or CPU3 is
\* still in the firmware, so that the script does not rearm and image_write
\* refuses; or CPU_ON fails.  A session that was active never prevents the
\* next one.
StartRefusalsExplained ==
  [][\A l \in Launcher :
       calm /\ ~lag /\ at[l] \in {"rearm", "image", "start"} /\ at'[l] = "failed" =>
         \/ at[l] = "rearm" /\ files > 0
         \/ /\ at[l] = "image" /\ attempted
            /\ \/ found[l] \in {"UNARMED", "STARTING", "START_TIMEOUT"}
               \/ affinity[l] = "pending"
         \/ at[l] = "start" /\ attempted' /\ ~attempted]_vars
=============================================================================
