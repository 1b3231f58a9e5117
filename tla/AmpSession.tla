------------------------------ MODULE AmpSession ------------------------------
(***************************************************************************)
(* What the driver's sysfs attributes and device files promise about CPU3: *)
(* the lifecycle of AmpLifecycle without its works, timers, rings and      *)
(* frames.  AmpLifecycle implements it; Runtime uses it.                   *)
(***************************************************************************)
EXTENDS Integers

CONSTANTS
  ImageSize,   \* image chunks
  MaxOpen      \* bound: open files

ASSUME SessionAssumption == ImageSize \in Nat \ {0} /\ MaxOpen \in Nat

VARIABLES
  phase,       \* mailmsg_state
  image,       \* image_written
  attempted,   \* cpu_on_attempted
  files,       \* mailmsg_user_open_count
  power,       \* CPU3, as AFFINITY_INFO knows it: off, pending or on
  lag          \* may the firmware say OFF of a CPU3 that is pending?

sessionState == <<phase, image, attempted, files, power, lag>>

Phase == {"UNARMED", "STARTING", "START_TIMEOUT", "ACTIVE", "STOPPING",
          "STOP_TIMEOUT", "OFFLINE"}
Watched == {"STARTING", "START_TIMEOUT", "ACTIVE", "STOPPING", "STOP_TIMEOUT"}

\* The firmware says OFF.
SaysOff == power = "off" \/ (lag /\ power = "pending")

SessionInit ==
  /\ phase = "UNARMED" /\ image = 0 /\ attempted = FALSE
  /\ files = 0 /\ power = "off" /\ lag \in BOOLEAN

LoadChunk ==
  /\ ~attempted /\ image < ImageSize
  /\ image' = image + 1
  /\ UNCHANGED <<phase, attempted, files, power, lag>>

\* CPU_ON; on failure the attempt is all that is left.
Launch ==
  /\ ~attempted /\ image = ImageSize /\ SaysOff
  /\ attempted' = TRUE
  /\ \/ power = "off" /\ phase' = "STARTING" /\ power' = "pending"
     \/ phase' = "UNARMED" /\ UNCHANGED power
  /\ UNCHANGED <<image, files, lag>>

\* CPU3 has announced the session, so it has left the firmware.
Ready ==
  /\ phase = "STARTING" /\ power # "pending" /\ phase' = "ACTIVE"
  /\ UNCHANGED <<image, attempted, files, power, lag>>

\* A phase with a deadline ends without an answer.
Expire ==
  /\ \/ phase = "STARTING" /\ phase' = "START_TIMEOUT"
     \/ phase = "STOPPING" /\ phase' = "STOP_TIMEOUT"
  /\ UNCHANGED <<image, attempted, files, power, lag>>

RequestStop ==
  /\ phase = "ACTIVE" /\ files = 0
  /\ phase' = "STOPPING"
  /\ UNCHANGED <<image, attempted, files, power, lag>>

RefuseStop ==
  /\ phase = "STOPPING" /\ phase' = "ACTIVE"
  /\ UNCHANGED <<image, attempted, files, power, lag>>

\* The driver notices that CPU3 is off.
Notice ==
  /\ phase \in Watched /\ power = "off"
  /\ phase' = "OFFLINE"
  /\ UNCHANGED <<image, attempted, files, power, lag>>

\* Mutant: rearm_store trusts the phase the caller saw.
RearmUnchecked ==
  /\ attempted /\ files = 0
  /\ phase' = "UNARMED" /\ image' = 0 /\ attempted' = FALSE
  /\ UNCHANGED <<files, power, lag>>

Rearm ==
  /\ attempted /\ files = 0 /\ SaysOff
  /\ phase' = "UNARMED" /\ image' = 0 /\ attempted' = FALSE
  /\ UNCHANGED <<files, power, lag>>

OpenFile ==
  /\ phase = "ACTIVE" /\ files < MaxOpen
  /\ files' = files + 1
  /\ UNCHANGED <<phase, image, attempted, power, lag>>

CloseFile ==
  /\ files > 0
  /\ files' = files - 1
  /\ UNCHANGED <<phase, image, attempted, power, lag>>

\* CPU3 leaves the firmware, or goes off, on its own account.
PowerUp ==
  /\ power = "pending" /\ power' = "on"
  /\ UNCHANGED <<phase, image, attempted, files, lag>>
PowerDown ==
  /\ power = "on" /\ power' = "off"
  /\ UNCHANGED <<phase, image, attempted, files, lag>>

SessionNext ==
  \/ LoadChunk \/ Launch \/ Ready \/ Expire \/ RequestStop \/ RefuseStop
  \/ Notice \/ Rearm \/ OpenFile \/ CloseFile \/ PowerUp \/ PowerDown
SessionSpec == SessionInit /\ [][SessionNext]_sessionState

-----------------------------------------------------------------------------
(* Properties *)

\* Every variable keeps its type.
SessionTypeOK ==
  /\ phase \in Phase /\ image \in 0 .. ImageSize /\ attempted \in BOOLEAN
  /\ files \in 0 .. MaxOpen /\ power \in {"off", "pending", "on"}
  /\ lag \in BOOLEAN

\* A device file stays open only across ACTIVE and OFFLINE.  stop and rearm
\* both refuse while a file is open, so an open file never meets the gate's
\* ESHUTDOWN or ETIMEDOUT and never survives into another session.
OpenFilesOnlyWhileUsable == files > 0 => phase \in {"ACTIVE", "OFFLINE"}

\* OFFLINE is never reported of a CPU3 that is running.
OfflineMeansOff == phase = "OFFLINE" => power = "off"

\* A timeout is terminal: after it only an observed OFF or a rearm changes the
\* phase, and a late SESSION_READY or STOP_READY changes nothing.
TimeoutIsTerminal ==
  [][(phase \in {"START_TIMEOUT", "STOP_TIMEOUT"}) =>
       phase' \in {phase, "OFFLINE", "UNARMED"}]_sessionState

\* Linux writes the image only while CPU3 is off, unless the firmware lags
\* (docs/architecture.md: "Linux must never overwrite the image while CPU3 is
\* still running").
ImageWrittenOnlyWhileOff ==
  [][~lag /\ image' > image => power = "off"]_sessionState
=============================================================================
