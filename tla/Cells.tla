-------------------------------- MODULE Cells --------------------------------
(***************************************************************************)
(* From an oxygen cell to the handset: one cell's driver thread            *)
(* (oxygen_cell_diveo2.c, oxygen_cell_o2s.c or oxygen_cell_analog.c), the  *)
(* channel it publishes on, the consensus thread (consensus_subscriber.c)  *)
(* that reads it together with the other cells' channels, and the PPO2     *)
(* broadcast (divecan_ppo2_tx.c).                                          *)
(*                                                                         *)
(* The cell on the wire is external: it may die, be slow, garble a frame   *)
(* or miss a command, MaxTrouble times. The other two cells are inputs of  *)
(* the vote. Time is a tick of about a second: it passes only when every   *)
(* thread is waiting, the vote and the broadcast have run, and a cell that *)
(* owes a frame has sent it, since those take far less than a tick.        *)
(***************************************************************************)
EXTENDS Consensus, FiniteSetsExt

CONSTANTS Kinds,      \* drivers of the cell: diveo2, o2s, analog
          Families,   \* protocol families of a UART cell: diveo2, pyro
          Odd,        \* readings other than Normal a cell may give
          Others,     \* readings of the second and third cell, 0 for an excluded one
          Stops,      \* how an O2S reception can end without an answer
          DigitalTimeout,  \* DIGITAL_RESPONSE_TIMEOUT_MS, in ticks
          BroadcastWait,   \* BROADCAST_WAIT_MS and DETECT_LISTEN_MS, in ticks
          RxTimeout,       \* UART_RX_TIMEOUT_MS of the DiveO2 driver, in ticks
          MaxTrouble, \* bound: faults
          MaxAsks     \* bound: broadcast requests and finished calibrations

Normal == 100

ASSUME CellConstants ==
  /\ Kinds \subseteq {"diveo2", "o2s", "analog"}
  /\ Families \subseteq {"diveo2", "pyro"}
  /\ Odd \subseteq Nat /\ Others \subseteq Nat \X Nat
  /\ DigitalTimeout \in Nat /\ BroadcastWait \in Nat /\ RxTimeout \in Nat
  /\ MaxTrouble \in Nat /\ MaxAsks \in Nat

VARIABLES
  cfg,   \* the build and the stored calibration: kind, family, enforce, count, stored
  cell,  \* the driver's cell state and where its thread is
  rx,    \* last_message and rx_sem, written by the UART callback
  dev,   \* the cell on the wire
  chan,  \* the cell's channel; `taken' is the age of the measurement itself
  left,  \* faults and requests left
  hist   \* history: the last broadcast request ran its course, faults meanwhile

vars == <<cfg, cell, rx, dev, chan, left, hist>>

Cap    == DigitalTimeout + Staleness + 2
Older(a, cap) == Min({a + 1, cap})
NoFrame == [k |-> "none", v |-> 0, age |-> 0]
Waits  == {"observe", "verify", "listen", "probe", "stream", "poll", "answer"}

CellsInit ==
  /\ cfg \in [kind : Kinds, family : Families, enforce : BOOLEAN, count : {2, 3},
              stored : BOOLEAN]
  /\ cell = [pc |-> "top", waited |-> 0, raw |-> 0, last |-> Cap, taken |-> Cap,
             status |-> IF cfg.kind = "analog" /\ ~cfg.stored THEN "needcal" ELSE "fail",
             known |-> FALSE, mode |-> "polled", phase |-> 0, req |-> "none", want |-> "none"]
  /\ rx = [sem |-> FALSE, msg |-> NoFrame]
  /\ dev \in [alive : {TRUE}, stream : IF cfg.kind = "diveo2" THEN BOOLEAN ELSE {FALSE},
              low : {FALSE}, owes : {"none"}, flight : {FALSE}, fed : {FALSE}]
  /\ chan = [prec |-> 0, status |-> cell.status, age |-> 0, taken |-> Cap]
  /\ left = [trouble |-> MaxTrouble, asks |-> MaxAsks]
  /\ hist = [applied |-> FALSE, hits |-> 0]

Trouble ==
  /\ left.trouble > 0
  /\ left' = [left EXCEPT !.trouble = @ - 1]
Hit(n) == hist' = [hist EXCEPT !.hits = Min({@ + n, 2})]
-----------------------------------------------------------------------------
(* The cell on the wire.                                                   *)

\* Every wait of the driver outlasts a stream interval: the cell streams a
\* frame into it.
Due == [dev EXCEPT !.fed = FALSE]

\* The device after a command reached it.
Commanded(d, c) ==
  CASE ~d.alive      -> d
    [] c = "on"      -> [d EXCEPT !.stream = TRUE, !.owes = "echo", !.flight = FALSE]
    [] c = "off"     -> [d EXCEPT !.stream = FALSE, !.owes = "echo",
                                  !.flight = d.flight \/ d.stream]
    [] c = "other"   -> [d EXCEPT !.owes = "echo"]
    [] OTHER         -> [d EXCEPT !.owes = "frame"]

\* uart_tx took the bytes or did not, and the cell understood them or did not.
Send(c) ==
  \/ dev' = Commanded(Due, c) /\ UNCHANGED <<left, hist>>
  \/ Trouble /\ Hit(1) /\ dev' = Due

\* The sources of a frame, and the device once it has been sent.
Emits == {e \in {<<[dev EXCEPT !.owes = "none"], dev.owes>>,
                 <<[dev EXCEPT !.flight = FALSE], "straggler">>,
                 <<[dev EXCEPT !.fed = TRUE], "stream">>} :
            CASE e[2] = "straggler" -> dev.flight
              [] e[2] = "stream"    -> dev.alive /\ dev.stream /\ ~dev.fed
              [] OTHER              -> dev.alive /\ e[2] # "none"}

Kind(k) == IF k = "echo" THEN "other" ELSE "ok"

\* The O2S receiver is on only while the driver waits for the answer.
Listening == cfg.kind = "diveo2" \/ cell.pc = "answer"

diveo2_feed_rx(f) == rx' = IF Listening THEN [sem |-> TRUE, msg |-> f] ELSE rx

DeviceSends ==
  /\ cfg.kind # "analog"
  /\ \E e \in Emits :
       /\ dev' = e[1]
       /\ diveo2_feed_rx([k |-> Kind(e[2]), v |-> Normal, age |-> 0])
  /\ UNCHANGED <<cfg, cell, chan, left, hist>>

\* A frame is lost, garbled, carries an error code or an odd reading.
DeviceErrs ==
  /\ cfg.kind # "analog" /\ Trouble
  /\ \E e \in Emits :
       /\ dev' = e[1]
       /\ \/ UNCHANGED rx
          \/ /\ e[2] # "echo"
             /\ \/ \E k \in {"bad", "fail", "degraded"} :
                     /\ k \in {"fail", "degraded"} => cfg.kind = "diveo2"
                     /\ diveo2_feed_rx([k |-> k, v |-> Normal, age |-> 0])
                \/ \E v \in Odd : diveo2_feed_rx([k |-> "ok", v |-> v, age |-> 0])
  /\ UNCHANGED <<cfg, cell, chan, hist>>

\* An O2S reception ends with nothing captured: o2s_capture_rx takes no chunk
\* that fills the buffer, and a line error ends a reception with none at all.
O2sStops ==
  /\ cfg.kind = "o2s" /\ cell.pc = "answer" /\ dev.owes = "frame" /\ Trouble
  /\ \E k \in Stops :
       rx' = [sem |-> TRUE,
              msg |-> IF k = "echo" THEN [k |-> "other", v |-> 0, age |-> 0] ELSE rx.msg]
  /\ dev' = [dev EXCEPT !.owes = "none"]
  /\ UNCHANGED <<cfg, cell, chan, hist>>

DeviceDies ==
  /\ dev.alive /\ Trouble /\ Hit(2)
  /\ dev' = [dev EXCEPT !.alive = FALSE, !.owes = "none"]
  /\ UNCHANGED <<cfg, cell, rx, chan>>

DeviceRevives ==
  /\ ~dev.alive
  /\ dev' = [dev EXCEPT !.alive = TRUE]
  /\ UNCHANGED <<cfg, cell, rx, chan, left, hist>>

\* The supply sags under VBUS_MIN_VOLTAGE, and recovers.
Brownout ==
  /\ cfg.kind # "analog"
  /\ IF dev.low THEN UNCHANGED left ELSE Trouble
  /\ dev' = [dev EXCEPT !.low = ~@]
  /\ UNCHANGED <<cfg, cell, rx, chan, hist>>
-----------------------------------------------------------------------------
(* Requests from outside the driver.                                       *)

\* Called by the UDS handler: an atomic mailbox, the newest request wins.
diveo2_request_broadcast ==
  /\ cfg.kind = "diveo2" /\ left.asks > 0
  /\ left' = [left EXCEPT !.asks = @ - 1]
  /\ \E w \in {"on", "off"} : cell' = [cell EXCEPT !.req = w]
  /\ UNCHANGED <<cfg, rx, dev, chan, hist>>

load_cal(stored) == IF stored THEN "ok"
                    ELSE IF cfg.kind = "analog" THEN "needcal" ELSE "fail"

\* The listener runs on the calibration thread, which preempts the cell's.
cal_done_cb ==
  /\ left.asks > 0
  /\ left' = [left EXCEPT !.asks = @ - 1]
  /\ \E b \in {cfg.stored, TRUE} :
       /\ cfg' = [cfg EXCEPT !.stored = b]
       /\ cell' = [cell EXCEPT !.status = load_cal(b)]
  /\ UNCHANGED <<rx, dev, chan, hist>>
-----------------------------------------------------------------------------
(* What every driver does with a frame and with its cell state.            *)

\* Mutant: a failure stays until the next start.
process_rxLatched(c, f) ==
  CASE f.k \in {"ok", "fail", "degraded"} ->
         [c EXCEPT !.raw = f.v, !.status = IF c.known /\ @ = "fail" THEN @ ELSE f.k,
                   !.last = 0, !.taken = f.age, !.known = TRUE]
    [] f.k = "bad" -> [c EXCEPT !.status = "fail"]
    [] OTHER       -> c

process_rx(c, f) ==
  CASE f.k \in {"ok", "fail", "degraded"} ->
         [c EXCEPT !.raw = f.v, !.status = f.k, !.last = 0, !.taken = f.age, !.known = TRUE]
    [] f.k = "bad" -> [c EXCEPT !.status = "fail"]
    [] OTHER       -> c

Heard(f) == f.k \in {"ok", "fail", "degraded"}

\* Mutant: a silent cell keeps the status of its last frame.
JudgedByFrame(c) == IF dev.low \/ c.raw > PPO2_FAIL THEN "fail" ELSE c.status

\* The status that goes out with a reading of a digital cell.
Judged(c) ==
  IF c.last > DigitalTimeout \/ dev.low \/ c.raw > PPO2_FAIL THEN "fail" ELSE c.status

\* zbus_pub_checked gives up after its timeout.
Publish(c, s) ==
  /\ cell' = [c EXCEPT !.status = s]
  /\ \/ chan' = [prec |-> c.raw, status |-> s, age |-> 0, taken |-> c.taken] /\ UNCHANGED left
     \/ Trouble /\ UNCHANGED chan
-----------------------------------------------------------------------------
(* The DiveO2 thread.                                                      *)

\* diveo2_rx_sync before a wait that must not see an earlier frame.
Synced == [rx EXCEPT !.sem = FALSE]
At(c, pc) == [c EXCEPT !.pc = pc, !.waited = 0]

Guess(phase) == IF phase = 1 THEN "diveo2" ELSE "pyro"
Detail(f)    == IF f = cfg.family THEN "detail" ELSE "other"

\* The one UART operation of a loop: detect, listen or poll.
StartCycle(c) ==
  \/ /\ ~c.known /\ c.phase = 0
     /\ cell' = At(c, "listen") /\ rx' = Synced /\ dev' = Due /\ UNCHANGED <<left, hist>>
  \/ /\ ~c.known /\ c.phase > 0
     /\ cell' = At(c, "probe") /\ rx' = Synced /\ Send(Detail(Guess(c.phase)))
  \/ /\ c.known /\ c.mode = "broadcast"
     /\ cell' = At(c, "stream") /\ dev' = Due /\ UNCHANGED <<rx, left, hist>>
  \/ /\ c.known /\ c.mode = "polled"
     /\ cell' = At(c, "poll") /\ rx' = Synced /\ Send("detail")

diveo2_cell_thread ==
  /\ cfg.kind = "diveo2" /\ cell.pc = "top"
  /\ IF cell.known /\ cell.req # "none"
       THEN /\ cell' = [At(cell, "observe") EXCEPT !.req = "none", !.want = cell.req]
            /\ rx' = Synced
            /\ hist' = [applied |-> FALSE, hits |-> IF dev.alive THEN 0 ELSE 2]
            /\ dev' = Due /\ UNCHANGED left
       ELSE StartCycle(cell)
  /\ UNCHANGED <<cfg, chan>>

Limit(pc) == IF pc \in {"probe", "poll"} THEN RxTimeout ELSE BroadcastWait

\* diveo2_wait_frame: f is the frame taken, or none when the wait ran out.
WaitEnds(f) ==
  \/ rx.sem /\ f = rx.msg
  \/ ~rx.sem /\ cell.waited >= Limit(cell.pc) /\ f = NoFrame

SetsBroadcast(c) ==
  IF c.want = "on" THEN [c EXCEPT !.mode = "broadcast", !.want = "none"]
                   ELSE [c EXCEPT !.mode = "polled", !.want = "none"]

\* Observe, write if it differs, settle, observe again, write if it still
\* differs; then the loop goes on with its one UART operation.
Observe(pc, next, force) ==
  /\ cfg.kind = "diveo2" /\ cell.pc = pc
  /\ \E f \in {rx.msg, NoFrame} :
       /\ WaitEnds(f)
       /\ LET c    == process_rx(cell, f)
              lie  == IF Heard(f) # dev.stream THEN 1 ELSE 0
              done == pc = "verify"
              h(n) == [applied |-> done, hits |-> Min({hist.hits + lie + n, 2})]
          IN  /\ cell' = At(IF done THEN SetsBroadcast(c) ELSE c, next)
              /\ \/ /\ force /\ (cell.want = "on") # Heard(f)
                    /\ \/ dev' = Commanded(dev, cell.want) /\ hist' = h(0) /\ UNCHANGED left
                       \/ Trouble /\ hist' = h(1) /\ UNCHANGED dev
                 \/ /\ force => (cell.want = "on") = Heard(f)
                    /\ hist' = h(0) /\ UNCHANGED <<dev, left>>
  /\ rx' = Synced
  /\ UNCHANGED <<cfg, chan>>

\* Mutant: the result of the write is not verified.
diveo2_apply_broadcast_once == Observe("observe", "settle", TRUE) \/ Observe("verify", "cycle", FALSE)

diveo2_apply_broadcast == Observe("observe", "settle", TRUE) \/ Observe("verify", "cycle", TRUE)

\* The sleep outlasts a stream interval, so stragglers and echoes have landed.
Settle ==
  /\ cell.pc = "settle" /\ ~dev.flight /\ dev.owes = "none"
  /\ cell' = At(cell, "verify") /\ rx' = Synced /\ dev' = Due
  /\ UNCHANGED <<cfg, chan, left, hist>>

Resume ==
  /\ cell.pc = "cycle"
  /\ StartCycle(cell)
  /\ UNCHANGED <<cfg, chan>>

\* The first valid frame names the family; the setting to enforce the stream
\* is then applied once.
diveo2_detect_step ==
  /\ cfg.kind = "diveo2" /\ cell.pc \in {"listen", "probe"}
  /\ \E f \in {rx.msg, NoFrame} :
       /\ WaitEnds(f)
       /\ LET c    == process_rx(cell, f)
              mode == IF cell.pc = "listen" THEN "broadcast" ELSE "polled"
              enforce == c.known /\ cfg.enforce /\ mode = "polled"
          IN  /\ cell' = [At(c, "publish") EXCEPT
                            !.phase = IF c.known THEN @ ELSE (@ + 1) % 3,
                            !.mode  = IF enforce THEN "broadcast" ELSE IF c.known THEN mode ELSE @]
              /\ IF enforce THEN Send("on") ELSE UNCHANGED <<dev, left, hist>>
  /\ rx' = Synced
  /\ UNCHANGED <<cfg, chan>>

diveo2_wait_frame ==
  /\ cfg.kind = "diveo2" /\ cell.pc \in {"stream", "poll"}
  /\ \E f \in {rx.msg, NoFrame} :
       WaitEnds(f) /\ cell' = At(process_rx(cell, f), "publish")
  /\ rx' = Synced
  /\ UNCHANGED <<cfg, dev, chan, left, hist>>

diveo2_broadcast ==
  /\ cfg.kind = "diveo2" /\ cell.pc = "publish"
  /\ Publish(At(cell, "top"), Judged(cell))
  /\ UNCHANGED <<cfg, rx, dev, hist>>
-----------------------------------------------------------------------------
(* The O2S thread: it publishes after a measurement and otherwise keeps    *)
(* quiet, so a silent cell ages in its channel.                            *)

o2s_cell_thread ==
  /\ cfg.kind = "o2s" /\ cell.pc = "top"
  /\ cell' = At(cell, "answer") /\ rx' = Synced
  /\ Send("detail")
  /\ UNCHANGED <<cfg, chan>>

o2s_process_rx ==
  /\ cfg.kind = "o2s" /\ cell.pc = "answer" /\ rx.sem
  /\ cell' = At(process_rx(cell, rx.msg),
                IF rx.msg.k \in {"ok", "bad"} THEN "publish" ELSE "sleep")
  /\ rx' = Synced
  /\ UNCHANGED <<cfg, dev, chan, left, hist>>

\* Disabling the receiver hands over the bytes of a partial answer.
O2sTimeout ==
  /\ cfg.kind = "o2s" /\ cell.pc = "answer" /\ ~rx.sem /\ cell.waited >= BroadcastWait
  /\ cell' = At(cell, "sleep")
  /\ \E m \in {rx.msg, [NoFrame EXCEPT !.k = "other"]} : rx' = [sem |-> FALSE, msg |-> m]
  /\ dev' = [dev EXCEPT !.owes = "none"]
  /\ UNCHANGED <<cfg, chan, left, hist>>

o2s_broadcast ==
  /\ cfg.kind = "o2s" /\ cell.pc = "publish"
  /\ Publish(At(cell, "sleep"), Judged(cell))
  /\ UNCHANGED <<cfg, rx, dev, hist>>
-----------------------------------------------------------------------------
(* The analog thread: a failing conversion publishes nothing.              *)

analog_adc_read ==
  /\ cfg.kind = "analog" /\ cell.pc = "top"
  /\ \/ /\ dev.alive
        /\ \/ cell' = [At(cell, "publish") EXCEPT !.raw = Normal, !.last = 0, !.taken = 0]
              /\ UNCHANGED left
           \/ /\ Trouble
              /\ \E v \in Odd : cell' = [At(cell, "publish") EXCEPT
                                           !.raw = v, !.last = 0, !.taken = 0]
     \/ ~dev.alive /\ cell' = At(cell, "sleep") /\ UNCHANGED left
     \/ dev.alive /\ Trouble /\ cell' = At(cell, "sleep")
  /\ UNCHANGED <<cfg, rx, dev, chan, hist>>

analog_publish ==
  /\ cfg.kind = "analog" /\ cell.pc = "publish"
  /\ LET s == IF cell.raw > PPO2_FAIL THEN "fail"
              ELSE IF cell.last > DigitalTimeout THEN "fail"
              ELSE IF cell.status = "needcal" THEN "needcal" ELSE "ok"
     IN  Publish(At(cell, "sleep"), s)
  /\ UNCHANGED <<cfg, rx, dev, hist>>
-----------------------------------------------------------------------------
(* The consensus thread, the alarm and the PPO2 broadcast keep no state    *)
(* that feeds back: what they make of the channels at any moment is a      *)
(* function, of this cell's channel, of the other cells' readings (0 for   *)
(* one that is excluded) and of whether this channel could be read.        *)

\* A channel that cannot be read counts as a failed cell.
read_cell_or_fail(readable) ==
  IF readable THEN [prec |-> chan.prec, status |-> chan.status, age |-> chan.age]
              ELSE [prec |-> 0, status |-> "fail", age |-> 0]

\* The messages consensus_thread_fn votes over; cells not built in have failed.
Snapshot(readable, o) ==
  [i \in Slots |->
     IF i = 1 THEN read_cell_or_fail(readable)
     ELSE [prec |-> IF i > cfg.count THEN 0 ELSE o[i - 1],
           status |-> IF i > cfg.count \/ o[i - 1] = 0 THEN "fail" ELSE "ok", age |-> 0]]

\* Vote r over cells, or a failed one when the channel could not be read. A
\* build for two cells fills the third slot with the consensus.
divecan_ppo2_tx_thread(heard, r, cells, calibrating) ==
  LET vote == IF heard THEN r ELSE [ppo2 |-> PPO2_FAIL, include |-> {}]
      f == divecan_set_failed_cells(
             [i \in Slots |-> IF heard THEN cells[i].status ELSE "fail"], calibrating)
  IN  [include |-> IncludedSlots(vote, f.masked, cfg.count = 2),
       failed  |-> IF cfg.count = 2 /\ ~f.masked /\ vote.ppo2 # PPO2_FAIL
                     THEN f.slots \ {3} ELSE f.slots]
-----------------------------------------------------------------------------
TimePasses ==
  /\ ~dev.flight
  /\ dev.alive => dev.owes = "none" /\ (dev.stream => dev.fed)
  /\ \/ cell.pc \in Waits /\ ~rx.sem /\ cell.waited < Limit(cell.pc)
     \/ cell.pc = "sleep"
  /\ cell' = [cell EXCEPT !.pc = IF @ = "sleep" THEN "top" ELSE @,
                          !.waited = IF cell.pc = "sleep" THEN 0 ELSE @ + 1,
                          !.last = Older(@, DigitalTimeout + 1), !.taken = Older(@, Cap)]
  /\ rx' = [rx EXCEPT !.msg.age = IF rx.msg.k = "none" THEN 0 ELSE Older(@, Cap)]
  /\ chan' = [chan EXCEPT !.age = Older(@, Staleness + 1), !.taken = Older(@, Cap)]
  /\ dev' = [dev EXCEPT !.fed = FALSE]
  /\ UNCHANGED <<cfg, left, hist>>

Thread ==
  \/ diveo2_cell_thread \/ diveo2_apply_broadcast \/ Settle \/ Resume
  \/ diveo2_detect_step \/ diveo2_wait_frame \/ diveo2_broadcast
  \/ o2s_cell_thread \/ o2s_process_rx \/ O2sTimeout \/ o2s_broadcast
  \/ analog_adc_read \/ analog_publish

CellsNext ==
  \/ DeviceSends \/ DeviceErrs \/ O2sStops \/ DeviceDies \/ DeviceRevives \/ Brownout
  \/ diveo2_request_broadcast \/ cal_done_cb
  \/ Thread \/ TimePasses

CellsSpec == CellsInit /\ [][CellsNext]_vars

\* Every thread runs, time passes, and a cell sends what it owes.
FairCellsSpec ==
  /\ CellsSpec
  /\ WF_vars(Thread) /\ WF_vars(TimePasses) /\ WF_vars(DeviceSends)
-----------------------------------------------------------------------------
\* The cells whose own measurement is recent and that another one confirms.
Confirmed(cells) ==
  LET Real(i) == /\ cells[i].status = "ok" /\ cells[i].prec # 0
                 /\ i = 1 => chan.taken <= DigitalTimeout + Staleness
  IN  {i \in Slots : Real(i) /\ \E j \in Slots \ {i} :
                       Real(j) /\ ~Far(cells[i].prec, cells[j].prec)}

\* What the handset is told is voted in was measured: the slots it shows as
\* included are cells whose own measurement is at most one response timeout
\* and one staleness limit old and agrees with another such cell; the
\* synthetic third slot of a two-cell head stands for two of them; the value
\* lies between the voters'. A broadcast that sees the vote with every reading
\* failed or none voted in comes with an alarm raised by the pass that voted
\* (consensus_thread_fn), or asks for a calibration; one that could not read
\* the vote shows every slot failed and none voted in (divecan_ppo2_tx_thread),
\* whatever the alarm. This is about every vote the consensus thread makes: one
\* it fails to publish leaves the broadcast with the vote of the pass before.
ShownIsVoted ==
  \A o \in Others, readable, heard, calibrating \in BOOLEAN :
    LET cells == Snapshot(readable, o)
        r     == consensus_calculate(cells, cfg.count)
        tx    == divecan_ppo2_tx_thread(heard, r, cells, calibrating)
        real  == Confirmed(cells)
    IN  /\ tx.include \ {3} \subseteq real
        /\ 3 \in tx.include => IF cfg.count = 2 THEN Cardinality(real) > 1 ELSE 3 \in real
        /\ r.include # {} /\ r.ppo2 # PPO2_FAIL =>
             \E i, j \in r.include : cells[i].prec <= r.ppo2 /\ r.ppo2 <= cells[j].prec
        /\ ~heard => tx.include = {} /\ tx.failed = Slots
        /\ heard /\ (tx.include = {} \/ tx.failed = Slots) =>
             \/ alarm_ppo2_reasons(r, 40, 160) = {"invalid"}
             \/ ~calibrating /\ \E i \in Slots : cells[i].status = "needcal"

\* After a broadcast request ran its course with at most one lost command,
\* lost frame or misread observation, the cell streams exactly when the
\* driver will listen for a stream (diveo2_apply_broadcast).
BroadcastConverges ==
  hist.applied /\ hist.hits < 2 => dev.stream = (cell.mode = "broadcast")

\* A cell that stays alive, powered and calibrated, and streams when the
\* driver expects a stream, is published as good again and again, whatever
\* went wrong before (no driver state is a dead end).
HealthyIsHeard ==
  <>[](/\ dev.alive /\ ~dev.low
       /\ cfg.kind = "analog" => cfg.stored /\ cell.status # "needcal"
       /\ cfg.kind = "diveo2" /\ cell.known => dev.stream = (cell.mode = "broadcast"))
    => []<>(chan.status = "ok")
=============================================================================
