------------------------------ MODULE IsoTpLink ------------------------------
(***************************************************************************)
(* Requests on their way to the head: peers that segment UDS requests with *)
(* ISO-TP (external: the handset and the Bluetooth bridge), a bus and a    *)
(* bounded RX queue that lose frames, and the head's RX loop, which routes *)
(* each frame to the dialog context and, if that refuses it, to the        *)
(* log-push context, polls both and hands a completed request to UDS.      *)
(***************************************************************************)
EXTENDS IsoTpRx, FiniteSets

CONSTANTS Peers,        \* sources of requests; may contain Broadcast (the BT bridge)
          Lengths,      \* request lengths
          RxQueueSize,  \* depth of can_rx_msgq
          MaxRequests,  \* bound: requests started by all peers
          MaxLosses,    \* bound: frames lost on the bus or in the queue
          Strays,       \* frames outside any request: FCs, malformed or unexpected frames
          MaxStrays     \* bound: stray frames explored

ASSUME LinkConstants ==
  /\ Lengths \subseteq Nat /\ RxQueueSize \in Nat \ {0}
  /\ MaxRequests \in Nat /\ MaxLosses \in Nat /\ MaxStrays \in Nat
  /\ \A f \in Strays : f.len \in Nat /\ f.chunk.id = 0

\* One peer that segments requests as ISO-TP has it: what does not fit a Single Frame
\* does not fit a First Frame either, and outside its requests it sends Flow Controls.
Compliant ==
  /\ \E p \in Peers : Peers = {p}
  /\ \A len \in Lengths : len > SfMax => len > FfData
  /\ \A f \in Strays : f.src \in Peers => f.kind = "FC"

VARIABLES
  peer,        \* peer -> [pc, id, len, cf]: the sender half of ISO-TP (external)
  fcs,         \* Flow Controls in flight to the peers
  rxq,         \* can_rx_msgq
  ctx,         \* dialog context; meaningful once inited
  inited,      \* isotp_initialized
  logCtx,      \* log-push context
  delivered,   \* history: requests handed to UDS_ProcessRequest
  requests,    \* history: request id -> [src, len]
  losses, strays

lvars == <<peer, fcs, rxq, ctx, inited, logCtx, delivered, requests, losses, strays>>

-----------------------------------------------------------------------------
(* The peers (external): standard ISO 15765-2 senders.                     *)

NoPeer == [pc |-> "idle", id |-> 0, len |-> 0, cf |-> 0]

\* Consecutive Frames a request of length len needs.
CfTotal(len) == (len - FfData + CfData - 1) \div CfData

\* A frame reaches the head's RX queue or is lost: an error on the bus, or
\* can_rx_callback finding the queue full.
Arrive(f) ==
  \/ Len(rxq) < RxQueueSize /\ rxq' = Append(rxq, f) /\ UNCHANGED losses
  \/ losses < MaxLosses /\ losses' = losses + 1 /\ UNCHANGED rxq

Chunk(p, id, idx) == [src |-> p, id |-> id, idx |-> idx]

\* A peer starts its next request with a Single or a First Frame.
StartRequest(p, len) ==
  LET id == Len(requests) + 1
  IN /\ peer[p].pc = "idle" /\ id <= MaxRequests
     /\ requests' = Append(requests, [src |-> p, len |-> len])
     /\ IF len <= SfMax
          THEN /\ Arrive([kind |-> "SF", src |-> p, len |-> len, seq |-> 0,
                       chunk |-> Chunk(p, id, 0)])
               /\ UNCHANGED peer
          ELSE /\ Arrive([kind |-> "FF", src |-> p, len |-> len, seq |-> 0,
                       chunk |-> Chunk(p, id, 0)])
               /\ peer' = [peer EXCEPT ![p] = [pc |-> "waitFc", id |-> id, len |-> len, cf |-> 0]]
     /\ UNCHANGED <<fcs, ctx, inited, logCtx, delivered, strays>>

\* The Flow Control reaches the peer, or is lost.
ReceiveFc(p, fc) ==
  /\ fc \in fcs /\ fc.to = p
  /\ fcs' = fcs \ {fc}
  /\ peer' = IF peer[p].pc # "waitFc" THEN peer
             ELSE [peer EXCEPT ![p] = IF fc.status = "CTS" THEN [@ EXCEPT !.pc = "sending"]
                                      ELSE NoPeer]
  /\ UNCHANGED <<rxq, ctx, inited, logCtx, delivered, requests, losses, strays>>

LoseFc(fc) ==
  /\ fc \in fcs /\ losses < MaxLosses
  /\ fcs' = fcs \ {fc} /\ losses' = losses + 1
  /\ UNCHANGED <<peer, rxq, ctx, inited, logCtx, delivered, requests, strays>>

SendCf(p) ==
  LET i == peer[p].cf + 1
  IN /\ peer[p].pc = "sending"
     /\ Arrive([kind |-> "CF", src |-> p, len |-> 0, seq |-> i % SeqMod,
                chunk |-> Chunk(p, peer[p].id, i)])
     /\ peer' = [peer EXCEPT ![p] = IF i = CfTotal(@.len) THEN NoPeer ELSE [@ EXCEPT !.cf = i]]
     /\ UNCHANGED <<fcs, ctx, inited, logCtx, delivered, requests, strays>>

\* A peer gives up waiting for Flow Control. Its N_Bs exceeds the round trip:
\* neither its First Frame nor an answer to it is still on the way.
FcTimeout(p) ==
  /\ peer[p].pc = "waitFc"
  /\ \A fc \in fcs : fc.to # p
  /\ \A i \in 1..Len(rxq) : rxq[i].src # p
  /\ peer' = [peer EXCEPT ![p] = NoPeer]
  /\ UNCHANGED <<fcs, rxq, ctx, inited, logCtx, delivered, requests, losses, strays>>

\* A frame addressed to the head that belongs to no request.
StrayFrame(f) ==
  /\ strays < MaxStrays /\ Len(rxq) < RxQueueSize
  /\ strays' = strays + 1
  /\ rxq' = Append(rxq, f)
  /\ UNCHANGED <<peer, fcs, ctx, inited, logCtx, delivered, requests, losses>>

-----------------------------------------------------------------------------
(* The head's RX loop.                                                     *)

\* ProcessMenuMessage seeds the dialog context with the first frame's sender,
\* or with the handset when that is the broadcast address.
Seeded(f) == IF inited THEN ctx
             ELSE ISOTP_Init(IF f.src = Broadcast THEN Controller ELSE f.src)

\* ProcessISOTPCompletion hands a completed request to UDS, whose reply is sent
\* to the context's current target, and clears the flag.
Complete(c) ==
  /\ ctx' = [c EXCEPT !.complete = FALSE]
  /\ delivered' = IF ~c.complete THEN delivered
                  ELSE Append(delivered, [buf |-> c.buf, len |-> c.len, replyTo |-> c.target])

\* One loop iteration with a frame: dispatch, poll both contexts, complete.
HeadFrame ==
  /\ rxq # <<>>
  /\ LET f == Head(rxq)
         c == Seeded(f)
     IN /\ Complete(ISOTP_Poll(ISOTP_ProcessRxFrame(c, f)))
        /\ logCtx' = ISOTP_Poll(IF Consumes(c, f) THEN logCtx
                                ELSE ISOTP_ProcessRxFrame(logCtx, f))
        /\ fcs' = fcs \cup FlowControlFor(c, f)
  /\ inited' = TRUE
  /\ rxq' = Tail(rxq)
  /\ UNCHANGED <<peer, requests, losses, strays>>

\* One loop iteration that found the queue empty for the loop timeout (before
\* the first MENU frame the context is idle and polling it changes nothing).
HeadPoll ==
  /\ rxq = <<>>
  /\ Complete(ISOTP_Poll(ctx))
  /\ logCtx' = ISOTP_Poll(logCtx)
  /\ UNCHANGED <<peer, fcs, rxq, inited, requests, losses, strays>>

\* Time passes for a reception in progress.
Tick ==
  /\ ctx.state = "RECEIVING" /\ ctx.age <= NCr
  /\ ctx' = [ctx EXCEPT !.age = @ + 1]
  /\ UNCHANGED <<peer, fcs, rxq, inited, logCtx, delivered, requests, losses, strays>>

Init ==
  /\ peer = [p \in Peers |-> NoPeer]
  /\ fcs = {} /\ rxq = <<>> /\ delivered = <<>> /\ requests = <<>>
  /\ losses = 0 /\ strays = 0
  /\ ctx = ISOTP_Init(Controller) /\ inited = FALSE
  /\ logCtx = ISOTP_Init(Broadcast)

Next ==
  \/ \E p \in Peers :
       \/ \E len \in Lengths : StartRequest(p, len)
       \/ \E fc \in fcs : ReceiveFc(p, fc)
       \/ SendCf(p)
       \/ FcTimeout(p)
  \/ \E fc \in fcs : LoseFc(fc)
  \/ \E f \in Strays : StrayFrame(f)
  \/ HeadFrame
  \/ HeadPoll
  \/ Tick

Spec == Init /\ [][Next]_lvars

\* The RX thread keeps running and time advances; the peers owe nothing.
FairSpec == Spec /\ WF_lvars(HeadFrame) /\ WF_lvars(HeadPoll) /\ WF_lvars(Tick)

-----------------------------------------------------------------------------
TypeOK ==
  /\ ctx.state \in {"IDLE", "RECEIVING"} /\ ~ctx.complete
  /\ ctx.len \in 0..MaxPayload /\ ctx.seq \in 0..(SeqMod - 1)
  /\ ctx.age \in 0..(NCr + 1)
  /\ ctx.target \in Peers \cup {Controller}
  /\ Len(rxq) <= RxQueueSize

\* rx_buffer is never written past its end, even for a First Frame that
\* announces fewer bytes than it carries (uint16_t wrap in
\* HandleConsecutiveFrame).
BufferBounded == ctx.top <= MaxPayload /\ logCtx.top <= MaxPayload

\* The chunks of request id in the order its sender cut them.
WholeRequest(id) ==
  [i \in 1..(IF requests[id].len <= SfMax THEN 1 ELSE CfTotal(requests[id].len) + 1) |->
     Chunk(requests[id].src, id, i - 1)]

\* Unless a stray frame got into it, what UDS executes is one request, whole and
\* in order, of its announced length, and no request is executed twice: losing
\* any frames, in any combination with timeouts, restarts and stray frames, can
\* only drop a request (HandleFirstFrame, HandleConsecutiveFrame,
\* ProcessISOTPCompletion). Holds for one compliant peer.
DeliveredIsOneRequest ==
  LET Clean(i) == \A n \in DOMAIN delivered[i].buf : delivered[i].buf[n].id # 0
  IN /\ \A i \in 1..Len(delivered) : Clean(i) =>
          \E id \in 1..Len(requests) : /\ delivered[i].buf = WholeRequest(id)
                                       /\ delivered[i].len = requests[id].len
     /\ \A i, j \in 1..Len(delivered) :
          Clean(i) /\ Clean(j) /\ delivered[i].buf[1].id = delivered[j].buf[1].id => i = j

\* A reception always ends: completed, aborted or timed out.
ReceptionEnds == ctx.state = "RECEIVING" ~> ctx.state = "IDLE"
=============================================================================
