---------------------------- MODULE IsoTpTxQueue ----------------------------
(***************************************************************************)
(* The head's ISO-TP transmit queue, Firmware/src/divecan/isotp_tx_queue.c *)
(* A two-state machine (IDLE, WAIT_FC) drains a bounded message queue.     *)
(* Every entry point is called from the DiveCAN RX thread, so an operation *)
(* is one step; time passes, and Flow Control frames arrive or are lost,   *)
(* between operations.                                                     *)
(*                                                                         *)
(* Abstractions: a payload is the identity of the accepted request plus    *)
(* its length; STmin pacing is only delay and is dropped; time is a count  *)
(* of ticks since tx_last_frame_time, capped once it exceeds N_Bs.         *)
(***************************************************************************)
EXTENDS Integers, Sequences, FiniteSets

CONSTANTS Targets,        \* addressed DiveCAN devices
          Broadcast,      \* ISOTP_BROADCAST_ADDR
          Lengths,        \* payload lengths callers pass
          BlockSizes,     \* BS values a peer may put in a Flow Control
          SfMaxWithPad,   \* ISOTP_SF_MAX_WITH_PAD
          FfDataWithPad,  \* ISOTP_FF_DATA_WITH_PAD
          CfData,         \* ISOTP_CF_DATA_BYTES
          SeqMod,         \* ISOTP_SEQ_MASK + 1
          QueueSize,      \* ISOTP_TX_QUEUE_SIZE
          NBs,            \* ISOTP_TIMEOUT_N_BS, in ticks
          MaxSends        \* bound: number of Enqueue calls explored

ASSUME TxConstants ==
  /\ Broadcast \notin Targets
  /\ Lengths \subseteq Nat \ {0}
  /\ BlockSizes \subseteq Nat
  /\ FfDataWithPad \in Nat \ {0} /\ CfData \in Nat \ {0}
  /\ SfMaxWithPad \in Nat /\ FfDataWithPad <= SfMaxWithPad
  /\ SeqMod \in Nat \ {0}
  /\ QueueSize \in Nat \ {0} /\ NBs \in Nat /\ MaxSends \in Nat

VARIABLES
  queue,      \* isotp_tx_msgq
  sm,         \* TxSmCtx_t: SMF state, current request, progress fields
  reqBuffer,  \* the one static scratch request of getTxRequestBuffer
  sinceLast,  \* ticks since tx_last_frame_time
  wire,       \* history: every frame handed to the CAN driver
  accepted,   \* history: requests for which Enqueue returned true
  started,    \* history: requests dequeued for transmission
  calls,      \* history: number of Enqueue calls
  reaped      \* history: Enqueue has taken its queue-full recovery path

vars == <<queue, sm, reqBuffer, sinceLast, wire, accepted, started, calls, reaped>>

-----------------------------------------------------------------------------
\* ISOTPTxRequest_t; id stands for the data bytes.
Request == [id : 1..MaxSends, target : Targets \cup {Broadcast}, len : Lengths]

\* The zeroed request memset leaves in the scratch buffer or in sm.current.
NoRequest == [id |-> 0, target |-> Broadcast, len |-> 0]

\* TxSmCtx_t.
TxSmCtx == [state : {"IDLE", "WAIT_FC"}, cur : Request \cup {NoRequest},
            sent : Nat, seq : 0..(SeqMod - 1), bs : Nat, ctr : Nat]

Frame == [kind : {"SF", "FF", "CF"}, id : 1..MaxSends, seq : 0..(SeqMod - 1),
          off : Nat, n : Nat]

\* tx_idle_entry: entering IDLE zeroes the progress fields.
tx_idle_entry(s) ==
  [state |-> "IDLE", cur |-> s.cur, sent |-> 0, seq |-> 0, bs |-> 0, ctr |-> 0]

\* Number of Consecutive Frames that would exhaust the payload.
Needed(s) == IF s.sent < s.cur.len
               THEN (s.cur.len - s.sent + CfData - 1) \div CfData ELSE 0

\* Frames the loop of send_consecutive_frames really emits: the block limit is
\* tested after each frame and only when BS is not 0.
CfCount(s) == IF s.bs = 0 \/ Needed(s) < s.bs - s.ctr THEN Needed(s)
              ELSE IF Needed(s) = 0 THEN 0 ELSE s.bs - s.ctr

\* The slice of the payload that starts at off, cut to one frame.
CfSlice(s, off) == IF s.cur.len - off > CfData THEN CfData ELSE s.cur.len - off

\* Mutant: the frame carries the sequence number before its increment.
CfSeqOld(s, i) == (s.seq + i - 1) % SeqMod

\* Sequence number of the i-th frame of a burst.
CfSeq(s, i) == (s.seq + i) % SeqMod

CfFrames(s) ==
  [i \in 1..CfCount(s) |->
     [kind |-> "CF", id |-> s.cur.id, seq |-> CfSeq(s, i),
      off |-> s.sent + (i - 1) * CfData,
      n |-> CfSlice(s, s.sent + (i - 1) * CfData)]]

\* tx_bytes_sent after the burst.
CfSent(s) == IF s.sent + CfCount(s) * CfData > s.cur.len /\ CfCount(s) > 0
               THEN s.cur.len ELSE s.sent + CfCount(s) * CfData

\* The machine after send_consecutive_frames.
CfAfter(s) ==
  [state |-> s.state, cur |-> s.cur, sent |-> CfSent(s),
   seq |-> (s.seq + CfCount(s)) % SeqMod, bs |-> s.bs, ctr |-> s.ctr + CfCount(s)]

\* The Boolean send_consecutive_frames returns: !waitingForFC, which is false
\* whenever the block limit was hit, even by the last frame of the payload.
CfReturnsComplete(s) ==
  ~ (s.bs # 0 /\ CfCount(s) > 0 /\ s.ctr + CfCount(s) >= s.bs)

SingleFrame(m) == [kind |-> "SF", id |-> m.id, seq |-> 0, off |-> 0, n |-> m.len]
FirstFrame(m)  == [kind |-> "FF", id |-> m.id, seq |-> 0, off |-> 0,
                   n |-> FfDataWithPad]

\* The machine as tx_idle_run leaves it for the request m it has dequeued.
Progress(state, m, sent, bs, ctr) ==
  [state |-> state, cur |-> m, sent |-> sent, seq |-> 0, bs |-> bs, ctr |-> ctr]

\* A multi-frame message nobody is addressed to answer.
FireAndForget(m) == m.target = Broadcast

\* tx_idle_run on TICK: dequeue into the scratch buffer, then a Single Frame,
\* a whole fire-and-forget broadcast, or a First Frame and WAIT_FC.
tx_idle_run(q, s) ==
  IF q = <<>>
    THEN [queue |-> q, sm |-> s, req |-> NoRequest, out |-> <<>>]
  ELSE LET m  == Head(q)
           sb == Progress("IDLE", m, FfDataWithPad, 0, 0)
       IN [queue |-> Tail(q), req |-> m,
           sm  |-> IF m.len <= SfMaxWithPad THEN Progress("IDLE", m, 0, s.bs, s.ctr)
                   ELSE IF FireAndForget(m) THEN CfAfter(sb)
                   ELSE Progress("WAIT_FC", m, FfDataWithPad, s.bs, s.ctr),
           out |-> IF m.len <= SfMaxWithPad THEN <<SingleFrame(m)>>
                   ELSE IF FireAndForget(m) THEN <<FirstFrame(m)>> \o CfFrames(sb)
                   ELSE <<FirstFrame(m)>>]

\* The effect of one smf_run_state(TICK) in IDLE starting from machine s and
\* queue q, with frames pre already sent by the same call.
TickIdle(q, s, pre) ==
  LET r == tx_idle_run(q, s)
  IN /\ queue' = r.queue
     /\ sm' = r.sm
     /\ reqBuffer' = r.req
     /\ wire' = wire \o pre \o r.out
     /\ started' = IF q = <<>> THEN started ELSE Append(started, Head(q))
     /\ sinceLast' = 0

Expired == sinceLast > NBs

-----------------------------------------------------------------------------
Init ==
  /\ queue = <<>>
  /\ sm = [state |-> "IDLE", cur |-> NoRequest, sent |-> 0, seq |-> 0,
           bs |-> 0, ctr |-> 0]
  /\ reqBuffer = NoRequest
  /\ sinceLast = 0
  /\ wire = <<>> /\ accepted = <<>> /\ started = <<>>
  /\ calls = 0
  /\ reaped = FALSE

QueueHasRoom == Len(queue) < QueueSize

\* k_msgq_put succeeds.
EnqueuePut(m) ==
  /\ QueueHasRoom
  /\ queue' = Append(queue, m)
  /\ reqBuffer' = m
  /\ accepted' = Append(accepted, m)
  /\ UNCHANGED <<sm, sinceLast, wire, started, reaped>>

\* Mutant: a dropped request is reported as accepted.
EnqueueFullReturnsTrue(m) ==
  /\ ~QueueHasRoom
  /\ sm.state = "IDLE" \/ ~Expired
  /\ reqBuffer' = m
  /\ accepted' = Append(accepted, m)
  /\ UNCHANGED <<queue, sm, sinceLast, wire, started, reaped>>

\* Queue full and the transfer in flight is not (yet) dead: the request is
\* dropped, OP_ERR_QUEUE.
EnqueueFull(m) ==
  /\ ~QueueHasRoom
  /\ sm.state = "IDLE" \/ ~Expired
  /\ reqBuffer' = m
  /\ UNCHANGED <<queue, sm, sinceLast, wire, accepted, started, reaped>>

\* Queue full and the transfer in flight has blown N_Bs: back to IDLE, run one
\* TICK (which dequeues THROUGH reqBuffer), then put reqBuffer again.
EnqueueReap(m) ==
  /\ ~QueueHasRoom
  /\ sm.state = "WAIT_FC" /\ Expired
  /\ LET r == tx_idle_run(queue, tx_idle_entry(sm))
     IN /\ queue' = Append(r.queue, r.req)
        /\ sm' = r.sm
        /\ reqBuffer' = r.req
        /\ wire' = wire \o r.out
        /\ started' = Append(started, Head(queue))
  /\ accepted' = Append(accepted, m)
  /\ sinceLast' = 0
  /\ reaped' = TRUE

\* ISOTP_TxQueue_Enqueue. A null or zero-length or over-long request is
\* refused before anything changes; Lengths holds the others.
Enqueue(t, len) ==
  /\ calls < MaxSends
  /\ calls' = calls + 1
  /\ LET m == [id |-> calls + 1, target |-> t, len |-> len]
     IN EnqueuePut(m) \/ EnqueueFull(m) \/ EnqueueReap(m)

\* Mutant: the N_Bs deadline is not tested by the TICK.
PollNoTimeout ==
  /\ sm.state = "IDLE" /\ TickIdle(queue, sm, <<>>)
  /\ UNCHANGED <<accepted, calls, reaped>>

\* ISOTP_TxQueue_Poll: IDLE dequeues; WAIT_FC only tests the N_Bs deadline.
Poll ==
  /\ \/ sm.state = "IDLE" /\ TickIdle(queue, sm, <<>>)
     \/ /\ sm.state = "WAIT_FC" /\ Expired
        /\ sm' = tx_idle_entry(sm)
        /\ sinceLast' = 0
        /\ UNCHANGED <<queue, reqBuffer, wire, started>>
  /\ UNCHANGED <<accepted, calls, reaped>>

\* Flow Control "continue to send" with block size bs, addressed to the source
\* of the current transfer: stream one block; when the machine is back in IDLE
\* the next request is pulled in the same call.
FcCts(bs) ==
  /\ sm.state = "WAIT_FC"
  /\ LET s == [state |-> sm.state, cur |-> sm.cur, sent |-> sm.sent, seq |-> sm.seq,
               bs |-> bs, ctr |-> 0]
     IN IF CfReturnsComplete(s)
          THEN TickIdle(queue, tx_idle_entry(CfAfter(s)), CfFrames(s))
          ELSE /\ sm' = CfAfter(s)
               /\ wire' = wire \o CfFrames(s)
               /\ sinceLast' = IF CfCount(s) > 0 THEN 0 ELSE sinceLast
               /\ UNCHANGED <<queue, reqBuffer, started>>
  /\ UNCHANGED <<accepted, calls, reaped>>

\* Flow Control WAIT or OVFLW: the transfer is abandoned, the next one pulled.
FcAbort ==
  /\ sm.state = "WAIT_FC"
  /\ TickIdle(queue, tx_idle_entry(sm), <<>>)
  /\ UNCHANGED <<accepted, calls, reaped>>

\* Flow Control with an unknown status: back to IDLE, nothing is pulled.
FcUnknown ==
  /\ sm.state = "WAIT_FC"
  /\ sm' = tx_idle_entry(sm)
  /\ sinceLast' = 0
  /\ UNCHANGED <<queue, reqBuffer, wire, started, accepted, calls, reaped>>

\* Time passes.
Tick ==
  /\ sm.state = "WAIT_FC" /\ ~Expired
  /\ sinceLast' = sinceLast + 1
  /\ UNCHANGED <<queue, sm, reqBuffer, wire, accepted, started, calls, reaped>>

\* ISOTP_TxQueue_ProcessFC. In IDLE, or for a frame addressed to another node,
\* it changes nothing.
ProcessFC == (\E bs \in BlockSizes : FcCts(bs)) \/ FcAbort \/ FcUnknown

Next ==
  \/ \E t \in Targets \cup {Broadcast}, len \in Lengths : Enqueue(t, len)
  \/ Poll
  \/ ProcessFC
  \/ Tick

Spec == Init /\ [][Next]_vars

\* The RX loop polls on every iteration, at least once per second, and time
\* advances; nothing is assumed of the peer that should send Flow Control.
FairSpec == Spec /\ WF_vars(Poll) /\ WF_vars(Tick)

-----------------------------------------------------------------------------
Ids(seq) == {seq[i].id : i \in 1..Len(seq)}

TypeOK ==
  /\ queue \in Seq(Request) /\ Len(queue) <= QueueSize
  /\ sm \in TxSmCtx
  /\ reqBuffer \in Request \cup {NoRequest}
  /\ sinceLast \in 0..(NBs + 1)
  /\ wire \in Seq(Frame)
  /\ accepted \in Seq(Request) /\ started \in Seq(Request)
  /\ calls \in 0..MaxSends
  /\ reaped \in BOOLEAN

\* The frames of a transfer are contiguous on the wire: a Consecutive Frame
\* directly follows a frame of the same message, continues its payload where
\* that frame stopped and carries the next sequence number. Frames of two
\* messages never interleave, whatever mix of block boundaries, broadcasts,
\* aborts and reaps the sender goes through (send_consecutive_frames).
ContiguousTransfers ==
  \A i \in 1..Len(wire) : wire[i].kind = "CF" =>
    /\ i > 1
    /\ wire[i-1].kind \in {"FF", "CF"}
    /\ wire[i-1].id = wire[i].id
    /\ wire[i].off = wire[i-1].off + wire[i-1].n
    /\ wire[i].seq = (wire[i-1].seq + 1) % SeqMod

\* Until the queue-full recovery runs, every request for which Enqueue
\* returned true is transmitted or still queued, once, in the order accepted.
FifoUntilReap == ~reaped => accepted = started \o queue

\* The same without the exception: what Enqueue's contract ("true if enqueued
\* successfully") and its recovery comment promise.
AcceptedInOrder == accepted = started \o queue

\* Every queued request is eventually transmitted: a peer that never answers
\* delays the queue by N_Bs, it cannot wedge it (Poll's timeout branch).
QueuedEventuallyStarts ==
  \A m \in 1..MaxSends : (m \in Ids(queue)) ~> (m \in Ids(started))
=============================================================================
