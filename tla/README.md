# The DiveCAN head, modelled in TLA+

This directory holds a TLA+ development of the DiveCAN rebreather head: the
firmware under `src/Firmware` (Zephyr RTOS on an STM32L4). Every definition that
models code is translated from the source; `PROJECT.json` maps it to the lines
it stands for. TLC checks the modules on small instances, TLAPS proves theorems
about them for every value of the constants.

    tlc -workers 2 -config IsoTpTxQueue.cfg MCIsoTpTxQueue
    tlapm TransmitProofs.tla

## 1. The system

The head sits on a rebreather's CAN bus ("DiveCAN"). It reads up to three
oxygen cells, votes a consensus PPO2, fires oxygen solenoids to hold a setpoint,
calibrates the cells, reports to the diver's handset, and answers UDS
diagnostics (settings, firmware update, log download) over ISO-TP, to the
handset and to a Bluetooth bridge. Threads talk through zbus channels (last
value, publish and read with a timeout), message queues and a few shared flags.

Thread priorities matter for what may interleave with what: the log thread (3)
preempts the CAN RX thread (5), which preempts the PID, fire and calibration
threads (6); autotune and the accessory thread run at 7, the factory-image
worker at 9, the watchdog feeder at 14. `main` boots at priority 0 with polled
flash transfers, so no other thread runs before the settings are loaded.

| Component | State it keeps | Operations | Talks to | What is hard | What makes it correct |
|---|---|---|---|---|---|
| ISO-TP receiver (`divecan/isotp.c`) | per context: reassembly state, announced length, bytes received, next sequence number, reply target, deadline | process a frame, poll N_Cr | RX loop hands it frames; UDS takes the result | lost and reordered frames, two senders on one context, 16-bit lengths | what is executed is one whole request, once; buffers stay bounded; a reception ends |
| ISO-TP transmit queue (`divecan/isotp_tx_queue.c`) | 2-deep queue, IDLE / WAIT_FC machine, current transfer, one static scratch request | enqueue, process flow control, poll | UDS replies and log pushes enqueue; RX loop polls | a silent peer, queue-full recovery, block boundaries | transfers are contiguous and FIFO; nothing accepted is stuck for good |
| Log push (`uds/uds_log_push*.c`, RX loop) | ring of log lines, item buffer, suspended flag, time of last UDS activity | queue a line, try to send one, suspend, resume | log thread produces, RX thread sends | two threads on one static buffer; a queue at its limit; silence after an abandoned transfer | replies are not delayed by logs; newest lines survive; the stream recovers |
| Calibration (`calibration.c`, `calibration_store.c`) | machine state, guard, saved setpoint, coefficient cache and flash | request (CAN, UDS), per-cell steps, save, roll back, restore setpoint | RX thread requests; setpoint channel; flash | other writers of the setpoint; flash that fails or lies; power loss | failure restores, success has stored, the setpoint a calibration imposes and the guard do not outlive the run |
| Setpoint and handset failsafe (`divecan/handset_failsafe.c`) | last ping time, latch | ping, periodic check | setpoint channel | racing a calibration's restore | a lost handset reverts the setpoint |
| Solenoid driver (`drivers/solenoid`) | GPIOs, one deadman counter | fire, off, all off, deadman interrupt | fire and calibration threads, override | one deadline for all channels; arm and drive are two steps | an open valve always has something that closes it in bounded time |
| PPO2 control (`ppo2_control.c`) | PID state, failure latch, duty, last command, mode latch | PID tick, fire cycle (PID, MK15), setpoint flush, override | consensus, setpoint, duty channels; driver | stale duty, missed reads, guard tested then used | failure quiets injection; flushes answer commands |
| UDS server (`uds/uds.c`) | session, S3 deadline | dispatch, session control, read and write DIDs | all of the services | session loss in the middle of a service | services only in their session; loss undoes what they hold |
| OTA download (`uds/uds_ota.c`) | phase, block sequence, bytes written | request download, transfer data, exit, activate | arena, flash, log pause, MCUboot | power loss at any write; lost answers; racing the self test | only a whole image is ever activated; a bad one is reverted |
| Maintenance arena (`maintenance_arena.c`) | owner of the one scratch buffer | claim, release, evict | OTA, factory image, log index | one buffer for four users | one owner at a time, content never read after eviction |
| Factory image (`factory_image.c`) | captured mark, worker state | capture, force, restore | flash slots, arena, log pause | power loss between erase and mark | the mark implies a whole image |
| Firmware confirmation (`firmware_confirm.c`) | self-test state, pass mask, deadlines | one check per poll, confirm or reboot | MCUboot, all health sources | late inputs racing the deadline | a healthy image is confirmed, a sick one reverts |
| Log download (`uds/uds_log_download.c`) | select / stream state, resolver, inactivity deadline | select, resolve, read blocks, poll | flash log, log push, arena | asynchronous resolve overtaken by a new select | a stream ends; it is served from the range selected last |
| Flash log (`flash_log/*`) | sectors, cursors, pause flag, index | append, rotate, read, erase, resolve | external flash, readers | power loss in a batch or in the seconds a sector's erase takes; a reader on a recycled sector | earlier records survive; no torn record is returned |
| Cells and consensus (`oxygen_cell_*.c`, `consensus_subscriber.c`) | last sample per cell, its time and status | sample, vote | UART, ADC, PPO2 broadcast, control | stale cells, three-way votes at the threshold | a stale or failed cell never votes |
| PPO2 broadcast and alarm (`divecan_ppo2_tx.c`, `alarm.c`) | last sent values | periodic send | consensus | startup and failure encodings | a failed vote is never shown as a PPO2 |
| Power management (`power_management.c`) | shutdown state, bus state | shutdown request, abort, power down | RX thread, GPIO wake-up | a wake-up during the abort window | never powers down on a live bus |
| Heartbeats, watchdog, boot history (`heartbeat.c`, `watchdog_feeder.c`) | per-thread counters, long-operation flag, boot ring | kick, check, feed | every thread | one flag for all long operations | a stuck thread stops the feed, a working one does not |
| Runtime and UDS settings (`runtime_settings.c`, `uds_settings.c`) | live values, stored keys, menu order | load, edit, save one | UDS, control, autotune | writers of the whole struct without a lock; saves that fail | an edit is read back where it was written; what was answered as saved is what the next boot loads |
| I2C lock and recovery | lock, recovery state | lock, recover | ADC, power | recovery under a user | one owner of the bus |
| Autotune, Poseidon, tank pressure, option bytes, start-up | see `PROJECT.json` | | | | |
| Bluetooth client (`src/DiveCAN_bt/src`) | pending request, ISO-TP and SLIP buffers, OTA and log transfers | request, retry, upload, download | BLE bridge, head | late answers after a timeout | an answer is matched to its request |

Not part of the development: EDA and CAD data, board files, build scripts, the
client's user interface and telemetry viewer, register-level drivers.

## 2. Modules and their correspondence to the code

### IsoTpTxQueue (`divecan/isotp_tx_queue.c`)

A request is a record of identity, target and length; a frame on the `wire`
names its request and offset. `queue` is the message queue, `sm` the machine's
context (state, request, bytes sent, sequence number, block size and counter);
`reqBuffer` is the static buffer that `getTxRequestBuffer` returns to both
Enqueue and the dequeue path; `sinceLast` is the age of the last frame, for
N_Bs. `Enqueue` is `ISOTP_TxQueue_Enqueue`: room, no room, or no room and the
recovery (`EnqueueReap`: force IDLE, TICK, retry); `ProcessFC` is every flow
status, with the burst of Consecutive Frames it releases; `Poll` is one TICK;
`Tick` is time. `accepted`, `started` and `wire` are histories. STmin pacing is
dropped: it delays frames without reordering them.

### IsoTpRx and IsoTpLink (`divecan/isotp.c`, `divecan_rx.c`)

`IsoTpRx` is the pure receiver: `ISOTP_ProcessRxFrame` and `ISOTP_Poll` as
operators from a context and a frame to the context, the Flow Control sent and
the request delivered. `IsoTpLink` composes it with sending peers, a bus and an
RX queue that lose frames, lost Flow Controls, stray frames, and the two
contexts of the RX loop (dialog and log push) in the order the loop offers a
frame to them.

### LogPush (`uds/uds_log_push.c`, `uds_log_push_backend.c`, the RX loop)

EXTENDS `IsoTpTxQueue`: the same queue carries replies and pushes. `logq` is
`log_push_msgq`, `rxItem` the static item buffer that both threads use, `txBuf`
the frame being built from it (the bytes are copied before the length is used,
so `PushTake`, `PushCopy` and `PushSend` are three steps). `pc` follows one
iteration of `RXThread` in program order: take a frame and capture `now`, serve
a completed request, poll the transmit queue, then test quiescence and push. `suspended` says who suspended the
stream; only a log download has an inactivity poll that ends its suspension, an
OTA suspension ends with the session or the reboot.

### Calibration (`calibration.c`, `calibration_store.c`, `handset_failsafe.c`)

`RespCal*` and `UdsTrigger` are the two triggers, `CalThread` the machine, one
step per SMF state and cell; `cache` and `nvs` are the coefficients as seen by the
code and by the next boot; saves fail, or report success without storing (the
machine's read-back catches that). The failsafe and the diver are the other
writers of `setpoint`. `clamp_setpoint_cb` passes 0.19 bar, the value a
calibration imposes, as a diver's setpoint too, so the value does not tell whose it
is: the history `imposed` says whether a calibration published the setpoint in
force, and the one it will put back. The arithmetic of each cell type is
abstracted to success or failure.

### Solenoid (`drivers/solenoid/solenoid.c`, `ppo2_control.c`, and their callers)

Composes the driver, the PID thread, the fire thread in its three modes, the
pulses of a calibration and the UDS override. `solenoid_fire` is two steps (arm,
then drive) because the RX thread can preempt it in between. Time is counted in
ticks and passes only while every thread sleeps. The PID's arithmetic is any
duty; the counter and GPIO calls do not fail. Ambient pressure is a number of parts
of a bar, `Bar` of which are one, so that pressures below one bar exist:
`FireTiming` divides the capped duty by it and caps it no more, which lengthens
the pulse there, and the rest of a cycle shorter than its pulse wraps as the
code's unsigned number does (`Long` is 2^31). `PulseBounded` therefore lets a control pulse outlast
the deadman's limit in one case, a lengthened one whose deadman a calibration has
taken away, and then no longer than its own on-time. The closed-loop current check and
autotune are not in it yet.

### FcbRing, RingLog and FlashLog (`flash_log/*`)

`FcbRing` is one ring of sectors: entries in program order, reservation and
completion as two steps, rotation, and `fl_fast_seek_active`, the chunked search
for the write cursor at mount. `FlashLog` puts two rings (telemetry and text)
under the writer: `fl_enqueue` and the producers, `TakeSlot` and the batch,
`Flush` step by step under the flash mutex, drop accounting, boot and dive
markers mirrored to both rings, the one pause flag with its holders (settings
saves, erase, other subsystems), flash faults and power loss.

Power may go at any step, and inside three that take long: an entry (`CutEntry`,
`CutHeader`), the erase of a sector when a ring rotates or is erased (`CutErase`),
and the erase of a partition that would not mount (`CutRecovery`, and
`ErasedInPart` when that erase fails). `clean` says for each sector where remnants
begin: a sector erased in part has no valid header, so `fcb_init` takes it for a
free one, `fcb_append` opens it unerased, and what is programmed from there on
does not read back (`Lands`). A mount that searches its cursor
among remnants may hop over whatever lengths they spell (`Reopened`). Of an erase
cut short within its first block it is assumed that the header is intact with the
whole sector, blank, or unreadable, in which case `fcb_init` fails (`bad`).

`RingLog` is what one ring promises: records join at the young end and leave from
the old end, except in a recovery erase that stops half-way (`Wipe`), which takes
sectors in physical order. `KeepsLog` is the refinement, `FlashLog` implements
`RingLog` with `kept <- log[ring]` and `wipes <- wipes[ring]`, for both rings.

### MaintArena and LogDownload (`maintenance_arena.c`, `uds_log_download.c`, `flash_log_reader.c`)

`MaintArena` is claim, release and eviction with the content generation.
`LogDownload` composes it with the selectors, the binary semaphore and the
resolve worker, the sector index that lives in the arena, the range resolution
with its scan of unindexed sectors, the stream's cursor, numbered chunks whose
answers get lost, read errors and the inactivity abort, against a writer that
appends and rotates and against other tenants of the arena. The scan (`Scan`) goes sector by
sector, lets go of the flash in between and passes over what it cannot read, as
the code does. A read that fails inside an entry refuses the chunk
(`ChunkFails`); one that fails while the next entry is looked for is taken for
the end of the range, or skips to a later sector (`SearchFails`), and the chunk is
answered as if nothing had happened. The handset numbers its dives upwards;
a dive may lack its end.

### Maintenance (`uds_ota.c`, `factory_image*.c`, `firmware_confirm.c`, `flash_mass_erase.c`, sessions of `uds.c`)

Three threads over two image slots, the factory backup, NVS and the arena: the
receive thread (sessions, 0x34/0x36/0x37/0x31, capture, restore, revert, erase
commands), the factory work queue, and the self test with its per-check and
overall deadlines. MCUboot's swap and revert are external. An image is its number
and the count of its leading blocks in place. `UDS_OTA_Reset` runs on session
loss and on a dive as in the code. At boot the captured mark is read, and a read
that fails counts as not captured (`flash_backend_init`).

### Consensus and Cells (`oxygen_cell_*.c`, `consensus_subscriber.c`, `divecan_ppo2_tx.c`, `divecan_ppo2_math.c`, `alarm.c`)

`Consensus` is the vote, the alarm and the encoding of the broadcast, as
functions in integer centibar. `Cells` is one cell with its driver thread
(DiveO2 detection, polling, streaming and broadcast commands; O2S; analog), the
channel, the consensus thread's snapshot and the broadcast; the other cells are
inputs of the vote. The cell on the wire may die, be slow, garble a frame or miss
a command. A broadcast that cannot read the vote shows every slot as failed,
whatever the alarm mask; a vote the consensus thread fails to publish leaves the
broadcast with the one before, of which `ShownIsVoted` says what it said when it
was made.

### HeadLife (`power_management.c`, `main.c`, `errors.c`, `boot_history.c`, `heartbeat.c`, `watchdog_feeder.c`, `poseidon_accessories.c`)

From one reset to the next: the boot's stages, crash and reboot records, the wake
marker and the guard that sends a wrongly woken head back to sleep, heartbeats,
the shared long-operation flag and the watchdog, the shutdown thread with its
abort window, the hand-over to the accessory thread, and SHUTDOWN mode with its
wake-up. CAN_EN is the handset's pull (`line`) and the head's (`held`). The guard
tells the peers to sleep and then powers down, whatever the line does in between
(stage `refused`), and does not check a boot whose reset cause it cannot read
(`CauseUnread`).

### Settings (`runtime_settings.c`, `uds_settings.c`, the setting DIDs of `uds.c`, `stage_gains_volatile`)

`live` is the cache, `store` the NVS keys (the three cell-broadcast settings
share one), `UDS_ComputeMenuOrder` the permutation between the client's index and
the table's: a setting stands where the curated slots, and then the settings in
natural order, name it first. A save is two steps, because the RX thread waits for the flash in
between: byte-sized settings were copied by then, the others are read from the
cache when the flash answers. Autotune's staging is two steps as well, copy and
write-back. Gains go through a float of `Mantissa` bits in both directions;
exponents are as large as the scale needs, the shipped 24 bits and 10^6 included.
`told` and `kept` record what a client was answered.

### Proof modules

`TransmitProofs` (queue and log push), `IsoTpLinkProofs`, `ConfigProofs`
(calibration and settings),
`ControlProofs` (solenoids and cells), `FcbRingProofs`, `FlashLogProofs`,
`LogDownloadProofs` and `HeadProofs` (maintenance and the life of the head) hold
the inductive invariants and theorems of section 5, each extending the modules it
is about. The `MC*` modules hold the small sets that the
`.cfg` files assign to constants.

## 3. Runs

| Run | Shows | Bounds, and why they are enough |
|---|---|---|
| `tx_queue` | transfers contiguous on the wire, requests FIFO until a recovery, a silent peer cannot wedge the queue | 4 requests against a queue of 2: fills it behind a transfer in progress and triggers the recovery; lengths for 1, 2 and 5 frames; block sizes 0 and 2 so that blocks end inside and at the end of a payload; sequence numbers wrap |
| `isotp_link` | what is executed is one whole request, once; the buffer is never overrun; every reception completes, aborts or times out | one requesting peer: 2 requests, 3 losses, queue of 3: losses of each frame kind, of Flow Controls, overflow, and a new request after an abandoned one; sequence numbers modulo 3 wrap inside one request; one stray frame of the other peer, of every kind, with announced lengths 0, below the First Frame's bytes, maximal and over-long |
| `log_push` | a reply waits behind at most one push; abandoned downloads and lost Flow Controls do not silence the stream | 3 lines into a ring of 2, 2 requests, window 2, N_Bs 3: the window, the time-out and a queue-full recovery overlap |
| `calibration` | failure restores the coefficients, success has stored them, the setpoint it imposes does not outlive a run, the guard is always released, a lost handset reverts the setpoint | 2 cells and two methods, setpoints of 0.19 bar (the floor) and 1.3: a failure before, between and after saves; 2 CAN and 1 UDS request, one failed flash write, one failed publication, one power loss, one diver command |
| `solenoid` | an open valve has a closer and a bounded pulse, flushes answer commands, a latched failure quiets injection | two inject and two flush channels, cycle 4, pulses 1 to 3, a four-pulse calibration, one missed read, one command, two overrides; ambient pressure unreadable, half a bar and three bar |
| `flash_log` | each ring implements `RingLog`; every record offered is stored, staged, queued or owned up to as dropped, and markers reach both rings, unless the flash failed or programmed over remnants since boot; a staged batch is flushed unless a subsystem holds the writer off for ever | 3 sectors of 5 units with entries of different sizes, a search chunk of 4 that entries straddle, queue 1, batch 2, 2 records, and one trouble of any kind at any step; rings start with an earlier boot's records, the text ring with remnants from unit 2 on in its free sector, so that one entry lands before them and the next does not |
| `log_download` | the index is never trusted when its rows were overwritten or its build overtaken; whatever is asked for and on the ring is found, by the index or by the scan; the stream is the selection; chunks arrive without a gap; writer and arena are held for exactly the stream; no request is forgotten | all four selectors (latest boot, latest dive, a boot's and a dive's number) on 3 sectors; 3 requests, 4 writes and one lost answer, failing read or search, or arena tenant, at most 5 of these together: dives share sectors and span the ring's end, entries are split over chunks, numbers wrap |
| `maintenance` | an acknowledged activation boots the image that was sent; a restore stages only a whole image that ran confirmed; arena and writer are never stranded; the self test ends | images of 2 blocks, block numbers modulo 3, 7 requests of every service (enough for a download with a repeated block and a capture or restore across it), 1 trouble at any step, 2 swaps |
| `cells` | what the handset is shown as voted in was measured recently and confirmed by another cell, and nothing is voted in when the vote cannot be read; a broadcast request converges; a healthy cell is heard again | each driver in turn; readings 0, 255 and 256; the other cells absent, near, at the limit of agreement, outliers; one trouble, one request |
| `head_life` | the shutdown thread powers down only on a bus confirmed silent, the boot guard only a boot the wake-up pin may have caused; a crash is recorded before it is forgotten; a head that is called comes up and stays up | 1 thread, 1 long operation, 4 polls with 2 to confirm, watchdog of 2 laps, records of depth 1 with a wrapping sequence, 2 faults of any kind: a second fault in the recovery from the first |
| `settings` | an edit is read back at its menu entry; what was answered as saved is what the next boot loads | 4 requests or stagings over a reordered menu with a repeated and an empty slot, including refused ones, a gain beyond the float's precision, two cells under one key; 2 failed accesses or power cuts; whatever an earlier boot may have stored. Floats of 10 bits and a scale of 60, so that the largest wire value is about six times two to the number of bits, as in the shipped firmware |
| `cells_stale` | violation: an old O2S answer is published as new | O2S with receptions that end on a full buffer; 5 troubles |

`CHECK_DEADLOCK FALSE` where the environment's bounded requests and faults run
out and the threads have nothing left to do (`calibration`, `flash_log`,
`log_download`, `maintenance`, the two of the cells, `head_life`, `settings`).

### Fairness

* Transmit queue: weak fairness of `Poll` and `Tick`. The RX loop polls at least
  once a second whatever arrives, and time passes. Nothing is assumed of peers.
* Link: weak fairness of the head taking a frame, polling, and of time. Peers
  and the bus are free to stop or lose anything.
* Log push: weak fairness of the RX loop and of time; strong fairness of
  `TransferAbandoned`, which stands for the poll of a log download whose client
  has gone quiet for the inactivity limit: a client that keeps the download
  alive for ever is excluded, and nothing else.
* Calibration: weak fairness of the calibration thread and of the failsafe
  check, both of which are woken by the kernel. No fairness of handset or client.
* Flash log: weak fairness of the writer's steps and of a settings save and an
  erase coming to their end; strong fairness of the writer's batch timer, which
  the queue's traffic and the pause flag can postpone but not for ever. Nothing is
  assumed of the subsystems that hold the writer off: an OTA download the handset
  abandons keeps it paused until the next request (`uds_ota.c`, `UDS_OTA_Reset` is reached
  from requests only), so `StagedFlushes` has the premise that none holds it for ever.
* Maintenance: weak fairness of the self-test thread, which the kernel wakes.
* Cells: weak fairness of the driver thread, of time, and of a working cell
  that owes a frame.
* Head: weak fairness of the boot, the shutdown thread, the wake-up pin, the
  feeder, of threads that are not hung, and of long operations ending. The
  premise of `CalledIsUp` that the long-operation flag is not raised for ever is
  explained in section 4.
* Log download and settings state safety only.

## 4. Findings

One disagreement has a run of its own, `cells_stale` (code): `o2s_capture_rx`
leaves the previous answer in the buffer and the driver stamps it as new, while
`docs/OXYGEN_SENSORS.md` counts on the 10 s staleness limit to catch such a cell.
`ShownWasMeasured` proves that nothing else lets an old measurement through.

The following claims are stated in the modules and refuted by TLC when they are
put in place of the invariants of the named configuration:

| Claim | Configuration | What happens |
|---|---|---|
| `AcceptedInOrder` | `IsoTpTxQueue.cfg` | the queue-full recovery dequeues through the scratch buffer that holds the new request: an old request is repeated, the new one lost (`isotp_tx_queue.c:393`) |
| `DeliveredIsOneRequest` | `IsoTpLink.cfg` with both peers in `Peers` | Consecutive Frames are accepted from any sender, so requests of handset and bridge can be merged (`isotp.c`, `HandleConsecutiveFrame`) |
| `OneLinePerPush` | `LogPush.cfg` | log thread and RX thread share one static item buffer: a push carries the bytes of one line with the length of another |
| `RunOwnsGuard` | `Calibration.cfg` | the UDS trigger starts a run without claiming the guard (`writeCalibrationTriggerDID`) |
| `FallbackHolds` | `Calibration.cfg` | the end of a calibration restores the setpoint it saved over the failsafe's, and the latch keeps the failsafe quiet |
| `CalOwnsBank` | `Solenoid.cfg` | the guard is tested before the fire: a valve opens after a calibration took the bank |
| `SelectAllStands` | `LogDownload.cfg` | a whole-ring select is answered with success, then the resolve worker's older result replaces its range (`fl_resolve_worker`) |
| `RollbackTarget` | `Maintenance.cfg` with `MaxReqs = 8` | a download requested during the self test erases the image the head would roll back to (`ota_handle_request_download`) |
| `RestoreStagesProven` | `Maintenance.cfg` with `MaxReqs = 12`, `MaxTrouble = 0` and no capture or erase request | the same download, completed: when the self test fails the head reverts onto the new image, which counts as confirmed without a test of its own and is captured as the factory image that `factory_image.h` calls known good. What does hold, and is proved, is `RestoreStagesConfirmed`: it ran and was flagged as confirmed |
| `RestFits` | `Solenoid.cfg` | `pid_compute_fire_timing` caps the duty before `apply_depth_compensation` divides it by the pressure in bar. Below 980 mbar a full duty exceeds 1, the rest of the cycle is negative, and `duty_to_microseconds` casts it to `uint32_t` although its comment says that its inputs are non-negative: the fire thread rests for over an hour |
| `OnlyPendingLost` | `FlashLog.cfg` | `FLASH_LOG.md` says that a brownout costs the entry in progress and the queue. Inside a rotation's erase it also costs records of later boots, which are programmed over the sector's remnants and not counted |
| `DiveFromItsStart` | `LogDownload.cfg` | the first row, in physical order, that has a dive's number as its first and any start marker is taken for the dive. Where that row is of the sector in which the dive ends and the next one starts, the start is left out |
| `DownloadWhole` | `LogDownload.cfg` | `fl_reader_advance` takes every error of `fcb_getnext` for the end of the range; the client gets a short positive chunk, which by `UDS.md` is the end of the stream |
| `SavedIsLoaded` | `Settings.cfg` with `PlainValid`, `PlainDefault` and `PlainLeftovers` | without an O2 solenoid, a depth-compensation flag stored by a variant that has one loads without a check and fails the validation of the whole: every boot falls back to the defaults for all settings, although `DATA_IDENTIFIERS.md` says that a write persists. `SavedSurvives` is what holds without such a flag (`DepthFits`) |

Also met while modelling.

Transport, calibration, solenoids:

* A payload that ends exactly on a block boundary makes the machine wait N_Bs
  for a Flow Control nobody owes; only later replies are late.
* The quiescent window is measured from the last iteration that saw a reply in
  flight, so after a reply's last frame it can be shorter than its constant.
* After a boot whose coefficient load failed, a rollback writes the zeros of the
  cache over the good values in flash.
* If the RX thread's all-off comes between arm and drive, the valve opens with
  the counter stopped; the fire thread's own sleep still closes it, but
  `solenoid.h:7` promises a hardware bound. A later fire on another channel
  re-arms the shared counter, so a channel's on-time can exceed one maximum.
* At altitude (below one bar) depth compensation lengthens pulses past
  `SOLENOID_MAX_FIRE_MS`, and below about 0.9 bar past the deadman's limit.
* A cell failure's zero duty is published once; if that publication times out
  the fire thread keeps the old duty. A command read that times out yields the
  default setpoint, which looks like a change and is flushed.
* CAN and UDS calibration triggers mixed in one session can leave a valve open
  with no guard held; `OpenValveCloses` excludes that mixture explicitly.

Flash log and download:

* A transiently unreadable sector leaves an incomplete index that is trusted
  until the epoch moves; rotation does not move the epoch, so rows of reused
  sectors are stale until then.
* Dive and boot ranges end at the start of the sector that holds the next marker,
  which cuts the tail of a dive that shares this sector.
* A refused chunk loses the entries already read for it: a client that asks once
  more gets a stream with a gap. A flush in flight may still change the ring after
  a stream has begun. A mirror write's failure is ignored. `DownloadGapless` leaves
  these cases out by name (`patched`, `chased`), as it does a failed search (`unread`).
* When a rotation leaves a row of the erased sector in a valid index and that row
  ties with the latest dive's, the sector of the lower number is taken.
  `FindsWhatIsThere` asks for the newest marker only while no sector has been
  reused under the index (`hist.reused`), and for nothing of a request whose
  index build or scan could not read a sector (`blind`, `missed`).
* An erase at mount that stops half-way leaves a ring whose oldest sectors may be
  there while younger ones are gone; it mounts as if whole.

Maintenance:

* A forced re-capture cut short leaves the captured mark over a partial image
  (`factory_image.h:37`); restore's own check refuses it.
* Switching to the default session with 0x10 does not reset the OTA machine, and
  the session timeout is evaluated only inside requests: an abandoned download
  keeps arena and writer until the next request. To `ArenaNotStranded` and
  `WriterNotStranded` such a download is still at work: they say that nothing
  keeps the arena or the pause once the operation that took it has ended.
* A restore resumes the writer whoever paused it. 0x37 does not compare the byte
  count, and 0x36 does not test the session.

Cells:

* A silent O2S or analog cell publishes nothing; only staleness catches it.
* The broadcast enforced at detection is not verified, and broadcast mode has no
  fall-back to polling.
* The alarm is published on change only: a publication that times out leaves the
  old mask. A vote of one cell yields a value without confidence.

Life of the head:

* The feeder's lap and the log's batch window are both 2000 ms, and a flush
  raises the flag that excuses every thread: laps that fall into flushes can
  postpone a hung thread's reset for as long as they coincide, although
  `heartbeat.h:8` says that a thread that does not advance makes the feeder
  skip. A thread hung inside a long operation silences the watchdog.
* `poseidon_accessories.h` says a normal heartbeat cannot follow the shutdown
  frame; the accessory thread tests the flag at the top of its loop only, and the
  drain waits no longer than one period, so a slow send can.
* A pin read error counts as inactive. A crash before the history is saved
  replaces an earlier one; a reset between save and acknowledgement records one
  twice; a failed reboot save reuses a sequence number.
* Error histogram (not modelled): an error between the snapshot and the reset of
  the dirty flag is not saved until the next one; the clear does not take the
  save's gate, so a save in flight can bring old counts back.

Settings:

* Autotune writes back a copy of the whole settings: a client's edit made after
  the copy was taken is undone although it was answered with success, and a save
  waiting for the flash stores the old value of a setting passed by address.
* Saving one cell's broadcast setting also stores unsaved edits of the other
  cells, because they share a key.
* A gain of more than eight million micro-units may not read back exactly, although the comment
  in `UDS_GetSettingValue` says any gain does; its range is from when the scale
  was a thousand.

## 5. Proofs

Proofs use no assumption except the named ones on constants, which TLC evaluates
on every run, and three hypotheses (a compliant requester,
one trigger, no old answers) that are named with their theorems. Every theorem is about every
value of the constants: queue depths, buffer and frame sizes, channels, cells,
images, and any number of requests, losses, faults and power cuts.

**Transmit queue and log push** (`TransmitProofs`).
`TypeCorrect`: `TypeOK` alone is not inductive, because a burst started in WAIT_FC
with no genuine request would put a frame without an identity on the wire;
`WaitsAddressed` adds that WAIT_FC always holds an addressed request. `CeilDiv`
and `BurstType` bound a burst: every Consecutive Frame starts inside the payload.
`FifoCorrect`: accepted = started followed by queued, until the recovery runs.
`WireIsContiguous`: `WireInv` says where the wire stands while the machine waits:
at the First Frame, or at the frame after which the next block continues, with
the offset and sequence number the machine holds; it survives the recovery,
which only ever starts over with a First Frame. `PushUsesQueue` refines
`LogPush`'s loop to the queue, so the theorems above hold of the loop;
`ReplyBehindOne` needs that a push is submitted to an empty, idle queue
(`PushInv`).

**Receiver and link** (`IsoTpLinkProofs`).
`RxOutcome` sums up the reassembly machine: a frame is ignored, drops, begins,
continues or completes a reception, and the counter stays inside the buffer. The
16-bit difference wraps only when a First Frame announced less than it carries;
then exactly one more frame is copied and ends the reception, which is why
`BufferIsBounded` needs `FfData + CfData <= MaxPayload`. `RequestIsWhole` is about
one compliant requester (`Compliant`, which TLC evaluates on the run's instance:
one peer, requests above a Single Frame do not fit a First Frame, its only frames
outside requests are Flow Controls; other senders may send anything). Its
invariant `ReqInv` says that chunks are ordered along peer, queue and context
(`QueueOrder`, `PeerAhead`, `BufAhead`), that a First Frame and its Flow Control
are never both under way (`FirstPending`, `OneAnswer`), and that no frame of a
later request meets the reception of an earlier one once that First Frame was
answered (`NoneOlder`). The sequence number plays no part: it wraps, and a gap of
its modulus would pass. What closes the gap is counting: a reception completes
after as many Consecutive Frames as its length takes (`CeilTotal`, `NextFrame`),
their indices rise strictly and none exceeds that number, so none is missing.

**Calibration** (`ConfigProofs`).
`FailureRollsBack`, `SuccessIsStored` and `FloorEnds` are inductions over the
thread's program counter: `RunInv` says what flash holds at each state of the
machine, `FloorInv` at which of them the setpoint in force and the saved copy can
be a calibration's.

**Solenoids** (`ControlProofs`).
`OpenValveCloses`: `GuardInv` ties the guard to the calibration thread's program
counter. It is inductive only if one behaviour does not mix the CAN and UDS
triggers, the theorem's hypothesis `{"can", "uds"} \notin Sources`; the run shows
the instance. `FlushFollowsCommand`: `BaselineInv` relates `lastCmd` to the command
seen at the last readable check. `FailureQuietsInjection`: `QuietInv` counts the
injections since the latch against the fire thread's program counter.
`PulsesBounded`: `PulseInv` says who sleeps on which pulse and what is left on the
shared deadman, and that a pulse longer than the limit is a lengthened one. A fire thread that tested the guard before a calibration took it
can rearm the deadman once under a calibration pulse; that is harmless because
it happens before the first pulse has slept and the first two pulses are of one
valve (`CalPlansRepeat`).

**Rings on flash** (`FcbRingProofs`).
What a reader walks is the chain of sectors from the oldest to the active one
(`InUseIs`), and what it finds is their entries put together (`WalkedIs`).
Programming an entry therefore adds it at the young end, opening an erased sector
when the active one is full (`PutRing`), and a rotation drops the oldest sector's
entries and no other (`RotateRing`). `CursorFound` is about the mount: the search
reads chunks of `Chunk` units, leaps by decoded lengths and keeps a remainder for
the next chunk, and it ends behind the last entry of any sector written in order.
These are facts about recursive functions. Each is shown to exist and to be the
only solution of its equations (`Recursion`, `Climb`, `ClimbOnce`), and what it
computes is an induction over the positions of one sequence: the set of positions
for which the fact holds contains 0 and is closed under successor, or a least
counterexample would have a predecessor (`UpTo`, from the library's `WFMin`).

**Flash log** (`FlashLogProofs`).
`LogKept` says that both rings implement `RingLog`. `RingsSound` is the invariant:
every ring is a chain whose free sectors hold no entry (remnants they may hold), a
mounted ring's cursor is where its active sector ends, and `log` is what a reader
finds. A step moves a ring by what `Steps` allows or is a recovery erase that stops
half-way (`Moved`); a cut erase is a rotation as far as a reader can tell, and a
mount among remnants at most an entry more that holds nothing (`ReopenedSound`). A crash in the
middle of an entry leaves an unfinished one, which takes room but is not found; a
mount after it searches the cursor again, hence `CursorFound`. Of the sizes it
needs that a batch fits into a sector and two of the shortest entries do
(`LogConstants`; the sectors hold at least 4096 bytes and a batch at most 2048).
`RecordsAccountedFor` needs to know where every record is (`Tracked`): a record that is
in no ring, queue, batch or unfinished flush was counted, and the count is either
still in `drops` or became the number of a drop marker that has itself reached a
ring or a flush (`Faithful`); all this as long as no flash operation has failed or
programmed over remnants (`Harmed`). A record is offered once and dated when it is made,
so that a marker made later is none of those already counted (`AllDated`,
`Fresh`); what a flush has yet to write is still in the batch (`Pending`); between
flushes the batch holds no marker (`Resting`). `Total` adds up the counts of a
finite set, one member at a time in any order (`TotalStep`). `MarkersInBoth` follows from the
same invariant: a flush carries a marker to both rings or has yet to write it to
both. TLC checked `Tracked` as an invariant
of a `flash_log` instance before it was proved.

**Log download** (`LogDownloadProofs`).
`StreamKeepsHold` and `RequestIsKept` are inductive almost as stated.
`StreamIsAsked` needs `SelectionInv`: whose range `sm` holds at every point of a
selection. `IndexIsFaithful` rests on the worker's pin of the arena (`PinInv`) and
on which rows the walk has passed (`RowsInv`); whatever changes a passed row moves
the epoch, is a rotation, or needs the arena.
`StreamIsGapless` follows the reader through the ring. `Owes` says where it stands
(behind an entry of one of the sectors of its range, or inside one) and which units
are still to come from there. Opening a range makes the reader owe exactly what is
in it (`OpenedOwes`), going on to the next entry passes nothing over, across empty
sectors and the end of the range (`AdvanceOwes`), and a chunk takes the next units
from what is owed and is short only if nothing is left (`FillOwes`). The invariant
is `StreamInv`: what the client has put together and what is still to come are the
selection, and as long as client and head agree on the next chunk number the reader
owes what is still to come. A lost answer ends that agreement for good: the repeated
number is refused, provided that consecutive numbers differ (`SeqMax > 1`; the code
counts 1 to 255). The theorem is about streams in which no search for an entry
failed and no refused chunk was asked for again; `DownloadWhole` fails of the others. TLC checked `StreamInv` as an invariant of the `log_download`
instance before it was proved.

**Maintenance** (`HeadProofs`).
The argument is ownership: slot 1, the backup and the pause are changed only by
the holder of the arena (`Tenants`), so what a holder has put in place is its own
work (`SlotInv`, `BackupInv`), and an acknowledged activation stays in slot 1 until
the reset (`PromiseInv`). From these follow `ActivationBoots`, `ArenaGivenBack`,
`WriterGivenBack` and `RestoreStagesWhole`, through power cuts at every step.

**Cells** (`ControlProofs`).
`ShownWasMeasured` has two halves. `VoteConfirms` and `VoteBetween` are about the
vote for arbitrary messages: only cells that pass every exclusion and that
another included cell confirms are in it, and the value lies between them.
`FreshInv` says that a channel within the staleness limit carries a measurement at
most one response time-out older than its stamp; its hypothesis
`Stops \subseteq {"echo"}` is that O2S receptions end with an echo of the answer,
and `cells_stale` is what happens otherwise. `RequestConverges`: `CommandInv` counts
what one lie or lost command can still spoil after the first of the driver's two
attempts.

**Settings** (`ConfigProofs`).
Every menu shows each of the twelve settings at exactly one entry
(`MenuPermutes`): `Place` numbers the slots where a setting occurs first, it does
so without repetition, and there are twelve of them. So an edit changes what one
entry reads (`EditChangesOne`), and `EditsStand` follows with `TuneInv`, which says
what autotune's copy still shares with the live settings. `SavesSurvive` needs two
facts more: a save that waits for the flash has its own copy of the value or finds
it live (`RxInv`), and no stored key can throw the others away. The latter is not
obvious, because `runtime_settings_load` falls back to all defaults when the
loaded settings are not valid as a whole: it holds because each loader refuses
what validation would refuse, but for the boolean flags. The cells' flags nothing
but this code stores (`LoadsValid`, assumption `WhatIsThere`); of the depth flag
the property itself says that it must fit the build (`DepthFits`). What a float does to a gain
on the way in and out is an assumption about the constants (`GainsRoundTrip`),
evaluated by TLC for the instance's ten-bit floats; the shipped constants satisfy
it too: in C, with 24 bits, a scale of 10^6 and gains up to 100, each of the
10^8 + 1 values a client can write comes back as `Near` allows, within 6 of what
was written, and exactly up to eight million.

**Life of the head** (`HeadProofs`).
`ShutdownIsEarned` is an induction over the polls of one abort window: `ScanInv`
relates the counters of the scan to the sequence of polls, `LineInv` who holds
CAN_EN. What it says of the boot guard is the cause of the boot it may refuse. `CrashIsKept` follows one crash from noinit RAM to flash (`NoinitInv`).

Only model-checked:

* Every liveness property (`SlotReleased`, `QueuedEventuallyStarts`,
  `ReceptionEnds`, `LogsFlush`, `LossReverts`, `StagedFlushes`, `PostEnds`,
  `HealthyIsHeard`, `CalledIsUp`): fairness and ENABLED are out of the prover's
  reach.
* `FindsWhatIsThere` of the download: an answer is compared with what was on the
  ring when the request was taken, across rotations, rebuilt indexes and full scans.
  The facts about rows it would rest on are proved (`RowsInv`, `RowIs`); how a resolution relates to the ring of an earlier moment is not.
* That a gain survives the float round trip (`GainsRoundTrip`): powers of two are
  beyond the prover.

## 6. Not modelled

The reasons are with the components in `PROJECT.json`. In short: UDS state DIDs,
frame composition, labels and logging are formatting; the I2C lock, tank
pressure, device current, hardware version and option bytes keep no state between
calls that another actor could see; register-level drivers are third-party or for
simulation; PID, autotune identification and calibration coefficients are
floating-point arithmetic that the models take as inputs; the closed-loop
solenoid current check and autotune's duty override are the largest parts of a
modelled component that are missing; the Bluetooth client is the environment of
the head's modules.

## 7. Plan

Proofs: `FindsWhatIsThere`, with what the index promises of the ring of the moment
the request was taken. Models: the closed-loop
solenoid current check and autotune's duty override, then the client library
against `IsoTpLink` and `Maintenance`.
