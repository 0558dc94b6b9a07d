------------------------------- MODULE IsoTpRx -------------------------------
(***************************************************************************)
(* The head's ISO-TP reassembly machine, Firmware/src/divecan/isotp.c, as  *)
(* functions of a context and a frame. The machine is only ever driven by  *)
(* the DiveCAN RX thread, one frame per loop iteration (IsoTpLink).        *)
(*                                                                         *)
(* The contents of rx_buffer are a sequence of chunks, each naming the     *)
(* message and frame it was copied from, so that a property can say whose  *)
(* bytes a completed request is made of. rx_last_frame_time is an age.     *)
(***************************************************************************)
EXTENDS Integers, Sequences

CONSTANTS MaxPayload,   \* ISOTP_MAX_PAYLOAD
          SfMax,        \* ISOTP_SF_MAX_DATA
          FfData,       \* ISOTP_FF_DATA_BYTES
          CfData,       \* ISOTP_CF_DATA_BYTES
          SeqMod,       \* ISOTP_SEQ_MASK + 1
          NCr,          \* ISOTP_TIMEOUT_N_CR, in ticks
          Wrap16,       \* 2^16, the range of the uint16_t byte counters
          Broadcast,    \* ISOTP_BROADCAST_ADDR
          Controller    \* DIVECAN_CONTROLLER, the handset

ASSUME RxConstants ==
  /\ MaxPayload \in Nat /\ SfMax \in Nat \ {0} /\ FfData \in Nat \ {0}
  /\ CfData \in Nat \ {0} /\ SeqMod \in Nat \ {0, 1} /\ NCr \in Nat
  /\ Wrap16 \in Nat
  /\ FfData + CfData <= MaxPayload /\ MaxPayload + CfData < Wrap16
  /\ Controller # Broadcast

\* ISOTP_Init: idle, with the broadcast role fixed by the initial target. top is
\* a history field: the highest offset of rx_buffer ever written.
ISOTP_Init(target) ==
  [state |-> "IDLE", len |-> 0, rcvd |-> 0, seq |-> 0, buf |-> <<>>, age |-> 0,
   complete |-> FALSE, target |-> target, role |-> target = Broadcast,
   top |-> 0]

\* n bytes of rx_buffer have been filled.
Filled(c, n) == [c EXCEPT !.rcvd = n, !.top = IF n > @ THEN n ELSE @]

\* isotp_idle_entry: RX progress is cleared, the length only when no completed
\* message is waiting to be read.
isotp_idle_entry(c) ==
  [c EXCEPT !.state = "IDLE", !.len = IF c.complete THEN @ ELSE 0,
            !.rcvd = 0, !.seq = 0, !.age = 0]

\* HandleSingleFrame, for a frame with a valid length and enough bytes.
HandleSingleFrame(c, f) ==
  isotp_idle_entry([c EXCEPT !.buf = <<f.chunk>>, !.len = f.len, !.complete = TRUE])

\* Mutant: the announced length is not compared with the buffer.
FfAcceptableNoMax(f) == f.len # 0

\* HandleFirstFrame: refused with FC OVFLW and a reset, or accepted with FC CTS.
FfAcceptable(f) == f.len # 0 /\ f.len <= MaxPayload

\* Mutant: a First Frame that displaces a reception keeps its byte count.
HandleFirstFrameKeepsCount(c, f) ==
  IF ~FfAcceptable(f) THEN isotp_idle_entry(c)
  ELSE [Filled(c, c.rcvd + FfData) EXCEPT !.len = f.len, !.seq = 1,
          !.buf = <<f.chunk>>, !.age = 0, !.state = "RECEIVING"]

HandleFirstFrame(c, f) ==
  IF ~FfAcceptable(f) THEN isotp_idle_entry(c)
  ELSE [Filled(c, FfData) EXCEPT !.len = f.len, !.seq = 1, !.buf = <<f.chunk>>,
                                 !.age = 0, !.state = "RECEIVING"]

\* bytesRemaining of HandleConsecutiveFrame is a uint16_t difference, so a First
\* Frame that announced less than it carried wraps it.
BytesToCopy(c) ==
  LET remaining == (c.len - c.rcvd + Wrap16) % Wrap16
  IN IF remaining > CfData THEN CfData ELSE remaining

SeqOK(c, f) == f.seq = c.seq

\* HandleConsecutiveFrame, in RECEIVING: a sequence error aborts the reception,
\* the frame that fills the announced length completes it.
HandleConsecutiveFrame(c, f) ==
  IF ~SeqOK(c, f) THEN isotp_idle_entry(c)
  ELSE LET d == [Filled(c, c.rcvd + BytesToCopy(c)) EXCEPT !.buf = Append(@, f.chunk),
                          !.age = 0, !.seq = (@ + 1) % SeqMod]
       IN IF d.rcvd >= d.len THEN isotp_idle_entry([d EXCEPT !.complete = TRUE]) ELSE d

\* ISOTP_ProcessRxFrame follows the sender of every frame addressed to the head,
\* a Flow Control included, unless the Flow Control comes from 0xFF or the
\* context has the broadcast role.
Retarget(c, f) ==
  IF f.src # c.target /\ ~(f.kind = "FC" /\ f.src = Broadcast) /\ ~c.role
    THEN [c EXCEPT !.target = f.src] ELSE c

\* A frame the context consumes; the others change nothing but the target.
Consumes(c, f) ==
  \/ f.kind = "SF" /\ f.len # 0 /\ f.len <= SfMax
  \/ f.kind = "FF"
  \/ f.kind = "CF" /\ c.state = "RECEIVING"

\* ISOTP_ProcessRxFrame: the context after frame f, addressed to the head.
ISOTP_ProcessRxFrame(c, f) ==
  LET d == Retarget(c, f)
  IN CASE f.kind = "SF" /\ Consumes(c, f) -> HandleSingleFrame(d, f)
       [] f.kind = "FF" -> HandleFirstFrame(d, f)
       [] f.kind = "CF" /\ Consumes(c, f) -> HandleConsecutiveFrame(d, f)
       [] OTHER -> d

\* The Flow Control SendFlowControl emits while processing f: its status and the
\* peer it is addressed to, or nothing.
FlowControlFor(c, f) ==
  IF f.kind # "FF" THEN {}
  ELSE {[to |-> Retarget(c, f).target,
         status |-> IF FfAcceptable(f) THEN "CTS" ELSE "OVFLW"]}

\* Mutant: no N_Cr timeout.
ISOTP_PollNever(c) == c

\* ISOTP_Poll: a reception silent for more than N_Cr is abandoned.
ISOTP_Poll(c) ==
  IF c.state = "RECEIVING" /\ c.age > NCr THEN isotp_idle_entry(c) ELSE c
=============================================================================
