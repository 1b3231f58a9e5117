# A TLA+ verification of lzamp

lzamp runs Linux on seven cores of an RK3588 and Zephyr on the eighth (A55
CPU3). Linux loads and starts the Zephyr image, both exchange MailMsg V7 frames
through rings in shared memory with mailbox0 doorbells, and Linux stops CPU3
again. This directory models the parts of that system in which something can go
wrong that a test would hardly reach, checks them with TLC on small instances
and proves the central facts with TLAPS for every instance.

## The system and its parts

| Part | Source | Module |
| --- | --- | --- |
| ring: push, pop, count, commit, CRC | `mailmsg/mailmsg.c`, `mailmsg.h` | `MailMsgRing`, abstractly `MailMsgFifo` |
| endpoint: session check, sequences, send, receive | `mailmsg/mailmsg_endpoint.c` | inside the callers' actions |
| notification: accepted, coalesced, failed | `mailmsg/mailmsg_notify.h`, `mailmsg_mailbox0.c` | inside the callers' actions |
| Linux lifecycle: image, start, stop, rearm, works, watchdogs | `scripts/linux-support/drivers/lzamp_amp_mailmsg.c` | `AmpLifecycle`, abstractly `AmpSession` |
| Linux character devices: open, claim, read, poll | the same driver | `MailMsgReader` |
| Zephyr session and stop | `zephyr/app/src/main.c` | `AmpLifecycle` |
| Zephyr interrupt, worker, main thread | the same file | `Cpu3Worker` |
| Zephyr observation records | the same file, `status_show` of the driver | `Observation` |
| Zephyr request service: one or two replies per request | the same file | `RequestService` |
| bring-up: clocks, resets, pins | `peripherals_initialize`, `zephyr/drivers/rk3588_peripheral_clock.c`, `rk3588_reset.c`, `rk3588_pinctrl.c` | `PeripheralBoot` |
| peripheral service and polling drivers | `zephyr/drivers/` | `PeripheralService`, after `PeripheralBoot` |
| agent's MailMsg calls | `agent/mailmsg_agent.py` | `AgentRpc` over `RequestService` |
| window benchmark | `tools/mailmsg_window_bench.c` | `WindowBench` over `RequestService` |
| launcher: start, stop | `scripts/lzamp-runtime` | `Runtime` over `AmpSession` |
| boot, build, kernel patches | `scripts/` | not modelled: one-shot or third-party |

A frame travels like this: a producer (a user write, a sysfs store, a reply of
CPU3) calls `mailmsg_endpoint_send`, which numbers the frame, pushes it and rings
the doorbell of its priority. The receiver's interrupt wakes a consumer: on CPU3
a worker that drains the announced priorities, on Linux the sleeping user reader
or, while a session starts or stops, `control_work`.

## The modules

**`MailMsgRing`** takes one producer and one consumer through `mailmsg_ring_push`
and `mailmsg_ring_pop` one publish or acquire at a time. Between two publish calls
the stores may become visible in any order and between two acquire calls the
loads may be served in any order, so a frame is written and read field by field.
The two CPUs share no lock. A frame may be stored with a damaged CRC, as the
driver's CRC injection does. **`MailMsgFifo`** is what the ring promises: a
bounded queue that gives back the frames it accepted, in order.

**`AmpLifecycle`** is the driver's state machine with CPU3 as the peer. Every
sysfs store, device call, work and timer of the driver is one action, since each
of them holds `data->lock` throughout. CPU3 boots, binds, announces itself, serves
frames and goes off in separate steps. Rings hold the class of a frame, its
generation, sequence and (for replies) the sequence it answers. `WORD` is the
modulus of the u32 counters; it is tiny, so that generations and sequences wrap.
A member of `Builds` is chosen at the start and kept: the firmware build
(`stop_control`: built with `MAILMSG_ENABLE_STOP_CONTROL`; `self_off`: the test build
that switches itself off on a magic PING), the platform firmware (`lag`:
AFFINITY_INFO may still say OFF after CPU_ON; `errors`: it may fail) and the
priorities users send on.

**`AmpSession`** is what the attributes and device files promise together, without
works, timers, rings and frames: seven phases, the image, the attempt, the open
files and the power state of CPU3. `AmpLifecycle` implements it (`ImplementsSession`,
checked and proved); `Runtime` is built on it.

**`Runtime`** takes invocations of the launcher through `start` and `stop
[--with-zephyr]`, one command of the script at a time. The server is a process that
is forked, execs, listens and ends on its own; other programs take free pids. In a
`calm` behaviour commands do not overlap and the board may be rebooted, which only
the pidfile survives. Otherwise two invocations run at once, may be killed at every
step, and AFFINITY_INFO may fail.

**`Cpu3Worker`** is the inside of CPU3: the level interrupt, the pending mask, the
binary semaphore, the cooperative worker with its quota of frames per priority
and visit, and the preemptible main thread that announces the session. An
interrupt may come between any two steps of a thread. `Faults` is the set of
priorities on which the driver's test attributes are used: they write a frame
without a doorbell, or a bad frame.

**`MailMsgReader`** is one priority device with several open files: the exclusive
reader claim, the read loop (sample `rx_generation`, take the lock, look into the
ring, sleep), poll, the sysfs attribute that drains the same ring, the mailbox
callback and the end of a session. A sleeping file is kept with whether
`rx_generation` still has the value it sampled, which is all the wait condition
looks at; a wrap of that 32-bit counter within one sleep is ignored.

**`RequestService`** is one priority as its users see it: two bounded queues (the
promise of `MailMsgRing`), and CPU3 serving one request at a time. A reliable
priority gets an ACK or NACK and a result, in two separate sends, each of which
may find the return ring full; the operation has been carried out by then. The
session may end at any moment. `of` in a reply is history: it tells which request
a frame answers even where the frame itself does not. The result of a peripheral
request carries a status; whether the operation succeeds is part of the call. Two
clients extend it:

- **`WindowBench`** takes the benchmark through its fill, poll, read and drain
  loops one system call or clock reading at a time. The set of outstanding values
  stands for the slots. `Modulus` is that of the u32 values. The window and whether
  the priority is reliable are chosen at the start.
- **`AgentRpc`** takes one or more agents through open, write, poll and read. The
  reader claim of the device is the set `reader`; the agents of a behaviour, and
  those whose deadlines may pass, are its `setup`. A call that read its ACK and its
  result ends with `ok` or, if the status of the result is an error, with
  `peripheral_failed`, which stands for the classes of `peripheral_status_error`; every
  other class is given up on before that.

**`Observation`** is a record CPU3 publishes in the control page (the worker's
counters, or the last refusal of a full return ring) and its read by `status`. The
writer zeroes `commit`, stores the words and, after a barrier, the new `commit`; the
reader loads `commit` before and after the words. As in `MailMsgRing`, accesses
between two barriers take effect in any order; no barrier follows the store that
zeroes `commit`, nor the first load of it. A word holds the number of the update that
wrote it.

**`PeripheralBoot`** is `peripherals_initialize` as a program of single register
writes. A field of the clock and reset unit (CRU) is named by its register and shift,
as in the drivers' tables, and has the width of its mask. The registers are the set of
their bits that are 1. `hiword_update` puts the word together from mask, shift and value
as the code does, and the CRU changes the bits its upper half selects; a word put
together wrongly would reach bits of Linux in the same register. `Contents` is what the
registers may hold at first, and `Foreign` the bits of Linux that it changes at any time
during the bring-up. When the service is ready the CRU is no longer looked at.

**`PeripheralService`** continues where the bring-up ends. It starts from power-on
or from what an earlier session may have left in the controllers (`LeftBehind`),
and then serves requests one after the other through the drivers of
the GPIO lines, I2C7, SPI0, the UARTs, PWM7 and the SARADC. A step is a register
write or a look at a status register; every wait may end by its timeout. The
devices act on their own between these steps, also late, when the driver has
given up. The number of a request stands for the data it moves, so a reply that
holds an earlier request's data can be told. Devices are external: a controller
that is switched off raises no bits, an SPI controller that is switched off
empties its FIFOs, a reset clears a controller that is clocked and stops a
conversion, and a locked PWM channel keeps its period and duty. `result` is the
last answer, `wanted` the level last asked for.

## What is checked

| Run | Shows |
| --- | --- |
| `shared_memory` | the ring: `DeliveredInOrder`, `NeverIncomplete`, `CountsUnreleased`, and that it implements the queue; the observation record: a snapshot `status` accepts is nowhere older than the update complete when the read began, and exact when CPU3 publishes nothing meanwhile |
| `lifecycle` | the product under an exact firmware, with users on p0 or on the other priority, and the self-switching test build under one that lags and one that fails as well: ACTIVE only after this session's SESSION_READY, STOP_READY only from a CPU3 on its way off, rearm never blocked by a leftover doorbell, works stay armed; the driver implements `AmpSession`; STARTING and STOPPING end even if CPU3 hangs, and a CPU3 that is off is noticed where the firmware answers |
| `runtime` | SIGTERM reaches the RKLLM server or nobody; a reported stop leaves no server (calm only); CPU3 never runs a partial image or one of two writers; start is refused for the named reasons only (calm only), so a session that was active never prevents the next |
| `worker` | a queued frame always has a wakeup on its way (or one of three named excuses), and every doorbell is served, whatever the traffic of the other priority |
| `reader` | nobody sleeps on a frame or through the end of a session; one reader per priority; a sleeper gets up |
| `bench` | a window whose replies fit the return ring never makes CPU3 give one up; a run without mishap succeeds; success means CPU3 served exactly the accepted requests; the benchmark ends though CPU3 may hang |
| `rpc` | two agents with timeouts: an answer is the result of a request CPU3 acted on, with that request's ACK (increments excepted, see below); one agent without timeouts: the answer is that of its own request and, while the session lasts, the class a call ends with tells whether CPU3 acted: it did exactly when the class is `ok` or one of a result's status |
| `peripherals` | the bring-up changes no CRU bit of Linux, writes selectors only under closed leaf gates and reset lines only under open ones, sets up only controllers with the clocks wanted and out of reset, and leaves nothing of an earlier session; success of I2C and a sample of the ADC belong to the request that reports them, whatever earlier requests left behind; SPI bytes stay in step; buses are released; PWM and GPIO show only what was asked for; every request ends |

`TypeOK` documents the types of a module's variables; no run lists it, and the
proof modules prove it for the ring, the observation record and the session.

Four runs end in a violation, because the code does not do what its
documentation or comments say:

- `stop_discards`: the stop preflight compares "no data" (0) with
  `MAILMSG_RING_EMPTY` (-1) and leaves its loop at the first test, so a stop can
  overtake business frames and their replies are dropped.
- `torn_snapshot`: the comment on the tx_full record (`main.c`) promises a stable
  snapshot. The words of the next update may overtake the store that zeroes `commit`,
  and the reader may load words before `commit`; an accepted snapshot then mixes two
  updates. A barrier after each first access would exclude it. `SnapshotIsRecent` and
  `QuietReadIsExact` say what holds all the same.
- `no_fallback_scan`: a doorbell that arrives after SESSION_READY was queued and
  before `mailmsg_session_ready_published` is set is used up without a drain, and
  nothing scans the ring later.
- `rpc_uncaught`: the session ends between poll and read, and the agent ends with a
  traceback instead of `ok:false`.

Smaller disagreements and limits met while modelling, which no run checks:

- `rearm` accepts an OFF that AFFINITY_INFO may still report right after CPU_ON, and
  the image can then be rewritten while CPU3 boots, although `docs/architecture.md`
  says that Linux must never overwrite the image while CPU3 is still running.
  `AmpSession` allows it exactly when the firmware lags (`SaysOff`), and
  `ImageWrittenOnlyWhileOff` and `RunsOneImage` are stated for firmware that does not.
- `docs/mailmsg.md` says that the consumer validates a frame before it releases the
  slot. `mailmsg_ring_pop` looks at the commit word, copies the frame, releases the slot
  and then checks CRC and length, and the endpoint checks the generation last: a bad
  frame is gone from the ring. The model has the code's order.
- CPU3 acts on a request before it queues ACK and result. With several agents, a
  timeout, a full return ring or a session that ends, an agent may report a failure of a
  request that took effect; `docs/mailmsg.md` says so of a timed-out request.
  `ClassTellsEffect` is therefore stated for one agent without timeouts while the
  session lasts.
- The launcher takes no lock. Two overlapping starts may fork two servers and leave
  the pid of either in the file; a stop that overlaps a start may remove the new
  server's pidfile; a launcher killed between the fork and the write of the pidfile
  leaves a server no stop will find. `StoppedMeansGone` is therefore stated for
  commands that do not overlap and are not killed.
- The launcher rearms from `offline` only. After a failed CPU_ON, and after a start
  timeout of a CPU3 that was never seen on, its next `start` fails at `image` with
  EBUSY; after a firmware error at `start` the image is complete but not launched,
  and the next `start` fails at `image` as well. `rearm` written by hand resolves the
  first two, while the third has no attempt to rearm.
- `control_work` past the deadline reports STOP_TIMEOUT without asking whether CPU3
  is off already, unlike the timeout work.
- The board test's sweep demands that windows 4 and 7 lose nothing on p0 and p1;
  two replies per request overrun seven slots when the reader is late
  (`docs/mailmsg.md` says itself that three responses fit). `NoReplyRefused` is
  therefore stated for windows whose replies fit.
- After a timeout the agent's next call puts a second request in flight, unlike its
  docstring; and as a PONG does not carry the request's sequence, unlike
  `docs/mailmsg.md` says, an increment can accept the late PONG of an earlier one.
  `AcceptedIsGenuine` leaves increments out of its claim on the ACK for this reason.

### Bounds

Three slots are the least for which a ring can be full, empty and partly filled
and wrap in between; five sends turn it more than once. One payload is enough
because frames differ by their sequence. Two priorities show interference and
starvation; the code treats priorities alike except for p0's lifecycle role,
which the instance keeps. Test hooks on one of the two (`Faults` = {1}) leave the
other with ordinary traffic. `WORD` = 3 makes every third number wrap.
`RingCapacity` = 2 makes full rings common. In `lifecycle` users send on p0 or on p1:
on p0 their frames share the ring with the lifecycle's, on p1 they are what a stop
meets elsewhere; the proofs have them on any set of priorities. One open file is enough for the
lifecycle, three files (one non-blocking) for the contention about the claim.
`QUOTA` = 2 equals the capacity, so that a visit may end by quota, by an empty
ring, and by both. The benchmark has four slots: window 2 just fits the replies of
a reliable priority, and window 5 overruns the ring on either. Six requests
(`MaxSequence`) use every one of the six values (`Modulus`), so that the last PONG
is 0, which the reader counts as unknown. No value is used a second time: the
code would need 2^32 requests for that. The agents choose
among an increment, a peripheral request that fails on CPU3 and one that CPU3 refuses,
with rings of two slots, which lets replies of one call meet the next and rings fill. Three peripheral requests let one disturb the next but one; `Left`
gives the levels an earlier session left in the data register; `UartDepth` = 1
suffices because a read drains byte by byte. `Foreign` has one bit of Linux in a
gate, a reset and a selector register that CPU3 writes. `Contents` has all of the
bits clear, all set, and mixtures with gates open or closed against resets asserted or
not. The builds are corners of `Builds`: the product on exact firmware, and the test build
on firmware that lags and on one that fails as well; the test build uses p0 alone, since `control_work` reads no other
priority. Two fields and three updates let a read meet one whole update and parts of
two others. Two launchers, three commands and two pids are enough for a start to
overlap two others, for a start and a stop to follow a reboot, and for a pid to be
given to another program; an image of two chunks can be partial or mixed.

### Fairness

Linux works run once queued, and time passes: a deadline is reached and an armed
timer fires (weak fairness). In `lifecycle` that is asked of the timeout and affinity
works alone, each of which is needed, and of the affinity work only where the firmware
does not fail: one whose AFFINITY_INFO always fails never tells that CPU3 is off, and
`OffIsNoticed` is stated for the others. The control work may never run, and CPU3, which
is never assumed to answer, may hang for ever at any step. On CPU3 the interrupt of a pending doorbell is
taken (strong fairness, as interrupts are masked now and then), the worker runs
between interrupts (strong fairness) and the main thread runs when the worker
sleeps. For the reader, a callback that is due runs and a woken task gets the
CPU. The benchmark is scheduled and its deadlines pass; CPU3 may hang. In
`peripherals` only the bring-up and the drivers are fair, no device is. `rpc`,
`shared_memory` and `runtime` check safety only.

## What is proved

Every invariant and every action property of the passing runs that is not a type
invariant is a theorem, for every value of the constants. Eight modules hold the
proofs. Each finds an inductive invariant, shows that the initial states satisfy it
and that every action keeps it, and concludes with temporal logic. The instances of
the runs satisfy the invariants.

**`MailMsgProofs`**, the ring: for every number of slots, every payload set and every
bound on the sends, `DeliveredInOrder`, `NeverIncomplete`, `CountsUnreleased` and
`TypeOK` are invariants of `MailMsgRing`. None of them is inductive. The
strengthening relates the two indices to the numbers of frames published and
released, says for each slot between them that it holds exactly the frame sent
with that number, committed, and ties the program counters' local copies to the
shared words; the free slot keeps the producer's slot apart from the consumer's.
Assumed: at least two slots, and natural bounds.

Under the same assumptions the ring implements the bounded queue of `MailMsgFifo`
(`RingImplementsFifo`). The queue is the part of `sent` no pop has released, and by
`CountsUnreleased` the two indices measure its length: so the store of the producer
index is a put with room left, the store of the consumer index takes the first frame,
and FULL and EMPTY are told of a full and an empty queue. A pop returns what it took
by `DeliveredInOrder`; `INCOMPLETE`, which the queue does not have, never happens by
`NeverIncomplete`. Every other step leaves the queue alone.

**`MailMsgProofs`**, the reader: `OneReader` and `NobodySleepsOnWork` for every set of
files and every ring capacity. With the types, each of the two is inductive: a claim is
granted only while the counter is 0, which it is only while nobody holds one; a call
falls asleep only on an empty ring of an ACTIVE session, and a frame that arrives
later has its doorbell or its callback outstanding until the sleep is over. Assumed:
a ring of at least one frame.

**`AmpLifecycleProofs`**: `AmpLifecycle` implements `AmpSession`
(`LifecycleImplementsSession`), for every set of priorities, ring size, counter
width, image size and build; and its watchdogs stay armed (`LifecycleWatched`). Each
action is shown to be a step of `AmpSession` or a stutter. With the invariant that
carries `AmpSession` (`KeptInv`), the driver with all its works and timers so keeps what
`AmpSession` promises: OFFLINE is reported only of a CPU3 that is off and files are open
only in a usable session (`LifecycleOffline`), a timeout is terminal
(`LifecycleTimeouts`), and the image is written only while CPU3 is off, unless the
firmware lags (`LifecycleImage`). The driver knows CPU3 only by
AFFINITY_INFO and by the frames on p0, so the invariant ties these to CPU3: OFF is
said of a CPU3 that is off or, with lag, still boots; once the driver has seen CPU3
alive, OFF is the truth; and p0 towards Linux is empty while CPU3 boots.

`ActiveMeansPeerReady` and `StopReadyIsGenuine` hold although generations and sequences
wrap. The number in a frame alone would not do. The invariant (`BeliefInv`) says that p0
towards Linux is empty until CPU3 has bound the session, that CPU3 has then the
generation of the session, and that no STOP_READY is in the ring before CPU3 has left
its service loop: frames of an earlier round cannot be there at all, as `start` clears
the shared page.

`RearmNotBlocked`: CPU3 clears its doorbells when it quiesces, and `RearmInv` says why
none is rung afterwards. Only an ACTIVE session rings; CPU3 leaves on a STOP_REQUEST
only, which ends ACTIVE; and STOP_REFUSED, the way back to ACTIVE, is never said by a
build that can stop.

**`Cpu3Proofs`**: `NoLostWakeup` for every set of priorities, ring size, quota and
set of priorities with test hooks. It needs `SemaphoreBacksPending` (a posted bit the
worker has not taken has the semaphore, or a step that is about to give it) and
`LocalsAreLive` (the bits the interrupt or the worker holds in locals). The two
properties of `Observation` that hold, for every set of fields and number of updates: the
invariant relates each word in memory and each local to the stores and loads still
outstanding in its block.

**`RuntimeProofs`**: for every image size and number of files, `OfflineMeansOff`,
`OpenFilesOnlyWhileUsable`, `TimeoutIsTerminal` and `ImageWrittenOnlyWhileOff` hold of
`AmpSession`. The invariant adds that every phase but UNARMED, and (unless the
firmware lags) every CPU3 that is not off, goes back to a CPU_ON no rearm has
cleared: so a new CPU_ON never finds an OFFLINE session to contradict. Assumed: an
image of at least one chunk, and a natural bound on the files.

The four properties of `Runtime` rest on that invariant, for every set of launchers and
of pids, image size, and number of commands and reboots. `ImageInv`: every chunk in the
driver comes from one writer, and a launcher that has written any has written all of
them and no CPU_ON lies between. `ServerInv`: in the calm a server is the one in the
pidfile, or the child about to be put there. `RefusalInv`: in the calm a partial image
belongs to the command under way, and what a start has read of AFFINITY_INFO and of the
state still holds when it acts on it. `TermsOnlyServers` is inductive with the types and
needs neither of them: what survives in the pidfile is identified before the signal. It
rests on one assumption of the model: no program is given a pid while a launcher still
holds it, that is, between the two steps (the kernel gives out pids in rotation, and the
script has no means to exclude it).

**`RequestServiceProofs`**: the three properties of `AgentRpc`, for every set of agents
and of calls, ring size, counter width and bound on the sequences. `AcceptedIsGenuine`
needs only that every frame on its way, and every reply CPU3 still has to send, is
genuine (`GenuineInv`): it names a request CPU3 acted on, so it does not matter
whose it was or when it was left behind. `AcceptedIsOwn` and `ClassTellsEffect` are
about one agent that never times out. `AloneInv` says that between its calls both rings
are empty, and that during one either the request has not reached CPU3 (`Requesting`),
or the replies already read, on their way and due are, in this order, those the service
sends to it, and no other (`Answering`).

**`WindowBenchProofs`**: the three properties of `WindowBench`, for every set of
windows, ring size, value width and number of requests. `SuccessMeansExecuted`: an ACK
that was counted is that of a request whose turn in the order of sequences is over
(`PingInv`), so there are never more ACKs than requests carried out, nor more of these
than the device accepted; success makes the ends meet. `NoReplyRefused`: each
outstanding request keeps its room in the return ring until its PONG has been read, as
ACKs and PONGs alternate (`RoomInv`). `HealthyRunPasses`: while values do not wrap, the
values outstanding are the ones last written, requests and PONGs carry them in order,
and the counters account for every reply that is coming (`ValueInv`).

**`PeripheralBootProofs`** and **`PeripheralServiceProofs`**: the eight properties of the
peripheral service, for both profiles, any initial content of the clock and reset
registers, any bits that Linux changes meanwhile outside CPU3's fields, every set and
number of requests, and every order in which devices act or fail to. A driver's
steps are the only ones at its labels and, with those of its device, the only ones that
touch its registers; so each controller has an invariant of its own, which the steps of
the others cannot disturb (`I2cInv`, `AdcInv`, `SpiInv`, `PwmInv`, `GpioInv`): what its
registers hold at each label was put there for the request being served. For the
bring-up, the first module computes the layout of `peripherals_initialize`. The word
`hiword_update` puts together changes the bits of its field, to the value, and no others
(`Hiword`); no two fields have a bit in common (`Apart`). So Linux's bits stay
(`LinuxBitsKept`), and a field holds what the preparation under way wrote to it last
(`CruInv`). That gives the clock and reset bits of a unit at each of its steps (`BringUpInOrder`), and
with them that a unit passes through its reset with its clocks on and so forgets what an
earlier session left in it (`CleanInv`, for `BootedClean`).

What is model-checked only: liveness and absence of deadlock, as this prover handles
neither fairness nor ENABLED; and the type invariants other than the ring's. The proofs
carry the types they need in their own invariants, mostly wider ones, without the
bounds that make the instances finite.

## Left out

Message contents and formatting; statistics; the raw mailbox matrix test apart
from its wakeup; the test builds `MAILMSG_TEST_SKIP_PRIORITY` and
`MAILMSG_TEST_HOLD_A2B_USEC`. `MAILMSG_TEST_SKIP_SESSION_READY` is covered: it is a
CPU3 that never takes its announcing step. Module removal is left out because
nothing sets `mailmsg_user_removing` before the devices are gone. Users do not
send STOP_REQUEST frames of their own. Of the agent, the language model's text,
its parsing and the HTTP call; of the benchmark, latencies. PWM polarity, the bytes
of I2C and UART transfers, and the difference between the service's and a driver's
code for bad arguments; baud rates and converter timings; `lzamp_rk3588_peripheral_clock_disable`, which
nothing calls. Of the launcher, `status` and `smoke`, which change nothing here, and
the checks that files exist. A user buffer that faults in `read` (the frame is then
lost).

Not modelled at all: the boot and build scripts, kernel patches and early
checkpoints, which run once and keep no protocol state, and `mailmsg_user_client.c`,
one write and one read of what `AgentRpc` does with more.
