-------------------------- MODULE IsoTpLinkProofs --------------------------
(***************************************************************************)
(* Proofs about the ISO-TP receiver and its link, for every buffer, frame  *)
(* and queue size, any number of requests, losses and strays.              *)
(*                                                                         *)
(* RxOutcome sums the reassembly machine up: whatever frame comes, the     *)
(* reception is left alone, dropped, begun, continued or completed, and    *)
(* the byte counter stays within the buffer although it may wrap.          *)
(***************************************************************************)
EXTENDS IsoTpLink, SequenceTheorems, TLAPS

LEMMA Sizes ==
  /\ MaxPayload \in Nat /\ SfMax \in Nat \ {0} /\ FfData \in Nat \ {0} /\ CfData \in Nat \ {0}
  /\ SeqMod \in Nat \ {0, 1} /\ NCr \in Nat /\ Wrap16 \in Nat
  /\ FfData + CfData <= MaxPayload /\ MaxPayload + CfData < Wrap16 /\ Controller # Broadcast
  BY RxConstants

LEMMA Inputs ==
  /\ \A f \in Strays : f.len \in Nat /\ f.chunk.id = 0
  /\ Lengths \subseteq Nat
  BY LinkConstants, Zenon

-----------------------------------------------------------------------------
(* The reassembly machine.                                                 *)

RxFields == {"state", "len", "rcvd", "seq", "buf", "age", "complete", "target", "role", "top"}

\* The byte counter of a reception is behind the announced length, except that a First
\* Frame that announces fewer bytes than it carries leaves it at what it carried.
RxOK(c) ==
  /\ DOMAIN c = RxFields /\ c.len \in Nat /\ c.rcvd \in Nat /\ c.top \in 0..MaxPayload
  /\ c.state = "RECEIVING" =>
       c.len \in 1..MaxPayload /\ (c.rcvd < c.len \/ c.rcvd = FfData)

\* How a machine c may look after it processed a frame f.
Ignored(c, e) == e.state = c.state /\ e.complete = c.complete /\ e.buf = c.buf
                 /\ e.len = c.len /\ e.rcvd = c.rcvd
Dropped(c, e) == e.state = "IDLE" /\ e.complete = FALSE /\ e.buf = c.buf
Single(f, e) ==
  /\ f.kind = "SF" /\ f.len \in 1..SfMax
  /\ e.state = "IDLE" /\ e.complete = TRUE /\ e.buf = <<f.chunk>> /\ e.len = f.len
Began(f, e) ==
  /\ f.kind = "FF" /\ f.len \in 1..MaxPayload
  /\ e.state = "RECEIVING" /\ e.complete = FALSE /\ e.buf = <<f.chunk>>
  /\ e.len = f.len /\ e.rcvd = FfData
Grew(c, f, e) ==
  /\ f.kind = "CF" /\ c.state = "RECEIVING" /\ e.buf = Append(c.buf, f.chunk) /\ e.len = c.len
  /\ \/ /\ e.state = "RECEIVING" /\ e.complete = FALSE
        /\ e.rcvd = c.rcvd + BytesToCopy(c) /\ e.rcvd < e.len
     \/ /\ e.state = "IDLE" /\ e.complete = TRUE
        /\ c.rcvd + BytesToCopy(c) >= c.len

Outcome(c, f, e) ==
  \/ Ignored(c, e) /\ ~Consumes(c, f)
  \/ Dropped(c, e) \/ Single(f, e) \/ Began(f, e) \/ Grew(c, f, e)

\* The bytes a Consecutive Frame adds: what is missing, at most a frame's worth, and a
\* whole frame when the difference wraps.
LEMMA CopyBounded ==
  ASSUME NEW c, RxOK(c), c.state = "RECEIVING"
  PROVE  /\ BytesToCopy(c) \in Nat
         /\ c.rcvd < c.len => BytesToCopy(c) = IF c.len - c.rcvd > CfData THEN CfData
                                               ELSE c.len - c.rcvd
         /\ c.rcvd + BytesToCopy(c) <= MaxPayload
  <1>. DEFINE x == c.len - c.rcvd + Wrap16
  <1>1. c.len \in 1..MaxPayload /\ c.rcvd \in Nat /\ (c.rcvd < c.len \/ c.rcvd = FfData)
    BY DEF RxOK
  <1>2. CASE c.rcvd < c.len
    <2>1. x % Wrap16 = c.len - c.rcvd
      <3>1. x \in Int /\ x - Wrap16 \in 0..(Wrap16 - 1) /\ x - Wrap16 = c.len - c.rcvd
        BY <1>1, <1>2, Sizes
      <3>. HIDE DEF x
      <3>. QED  BY <3>1, Sizes
    <2>. QED  BY <1>1, <1>2, <2>1, Sizes DEF BytesToCopy
  <1>3. CASE ~(c.rcvd < c.len) /\ c.rcvd = c.len
    <2>1. x % Wrap16 = 0
      BY <1>1, <1>3, Sizes
    <2>. QED  BY <1>1, <1>3, <2>1, Sizes DEF BytesToCopy
  <1>4. CASE ~(c.rcvd < c.len) /\ c.rcvd # c.len
    <2>1. x % Wrap16 = x
      <3>1. x \in 0..(Wrap16 - 1)
        BY <1>1, <1>4, Sizes
      <3>. HIDE DEF x
      <3>. QED  BY <3>1, Sizes
    <2>2. x > CfData
      BY <1>1, <1>4, Sizes
    <2>. QED  BY <1>1, <1>4, <2>1, <2>2, Sizes DEF BytesToCopy
  <1>. QED  BY <1>2, <1>3, <1>4

LEMMA IdleOK ==
  ASSUME NEW c, DOMAIN c = RxFields, c.len \in Nat, c.top \in 0..MaxPayload
  PROVE  LET e == isotp_idle_entry(c)
         IN  /\ RxOK(e) /\ e.state = "IDLE" /\ e.complete = c.complete /\ e.buf = c.buf
             /\ e.target = c.target /\ e.role = c.role
             /\ c.complete => e.len = c.len
  BY DEF isotp_idle_entry, RxOK, RxFields

LEMMA SingleOutcome ==
  ASSUME NEW c, NEW f, RxOK(c), f.kind = "SF", f.len \in 1..SfMax
  PROVE  LET e == HandleSingleFrame(c, f)
         IN  RxOK(e) /\ Single(f, e) /\ e.role = c.role /\ e.target = c.target
  <1>. DEFINE d == [c EXCEPT !.buf = <<f.chunk>>, !.len = f.len, !.complete = TRUE]
  <1>1. /\ DOMAIN d = RxFields /\ d.len = f.len /\ d.top = c.top /\ d.complete = TRUE
        /\ d.buf = <<f.chunk>> /\ d.role = c.role /\ d.target = c.target
    BY DEF RxOK, RxFields
  <1>2. HandleSingleFrame(c, f) = isotp_idle_entry(d)
    BY DEF HandleSingleFrame
  <1>. HIDE DEF d
  <1>. QED  BY <1>1, <1>2, IdleOK, Sizes DEF Single, RxOK

LEMMA FirstOutcome ==
  ASSUME NEW c, NEW f, RxOK(c), f.kind = "FF", f.len \in Nat, c.complete = FALSE
  PROVE  LET e == HandleFirstFrame(c, f)
         IN  RxOK(e) /\ (Dropped(c, e) \/ Began(f, e)) /\ e.role = c.role /\ e.target = c.target
  <1>1. CASE ~FfAcceptable(f)
    BY <1>1, IdleOK DEF HandleFirstFrame, Dropped, RxOK
  <1>2. CASE FfAcceptable(f)
    <2>. DEFINE d == Filled(c, FfData)
                e == HandleFirstFrame(c, f)
    <2>1. /\ DOMAIN d = RxFields /\ d.rcvd = FfData /\ d.top \in 0..MaxPayload
          /\ d.complete = c.complete /\ d.role = c.role /\ d.target = c.target
      BY Sizes DEF Filled, RxOK, RxFields
    <2>. HIDE DEF d
    <2>2. e = [d EXCEPT !.len = f.len, !.seq = 1, !.buf = <<f.chunk>>, !.age = 0,
                        !.state = "RECEIVING"]
      BY <1>2 DEF HandleFirstFrame, d
    <2>. HIDE DEF e
    <2>3. /\ DOMAIN e = RxFields /\ e.rcvd = FfData /\ e.top \in 0..MaxPayload
          /\ e.complete = FALSE /\ e.len = f.len /\ e.state = "RECEIVING" /\ e.buf = <<f.chunk>>
          /\ e.role = c.role /\ e.target = c.target
      BY <2>1, <2>2 DEF RxFields
    <2>4. f.len \in 1..MaxPayload
      BY <1>2, Sizes DEF FfAcceptable
    <2>. QED  BY <2>3, <2>4, Sizes DEF e, RxOK, Began
  <1>. QED  BY <1>1, <1>2

LEMMA ConsecutiveOutcome ==
  ASSUME NEW c, NEW f, RxOK(c), f.kind = "CF", c.state = "RECEIVING", c.complete = FALSE
  PROVE  LET e == HandleConsecutiveFrame(c, f)
         IN  RxOK(e) /\ (Dropped(c, e) \/ Grew(c, f, e)) /\ e.role = c.role /\ e.target = c.target
  <1>1. CASE ~SeqOK(c, f)
    BY <1>1, IdleOK DEF HandleConsecutiveFrame, Dropped, RxOK
  <1>2. CASE SeqOK(c, f)
    <2>. DEFINE n == c.rcvd + BytesToCopy(c)
                g == Filled(c, n)
                d == [g EXCEPT !.buf = Append(@, f.chunk), !.age = 0, !.seq = (@ + 1) % SeqMod]
                e == HandleConsecutiveFrame(c, f)
    <2>1. n \in Nat /\ n <= MaxPayload
      BY CopyBounded, Sizes DEF RxOK
    <2>. HIDE DEF n
    <2>2. /\ DOMAIN g = RxFields /\ g.rcvd = n /\ g.top \in 0..MaxPayload /\ g.buf = c.buf
          /\ g.len = c.len /\ g.state = "RECEIVING" /\ g.complete = FALSE
          /\ g.role = c.role /\ g.target = c.target
      BY <2>1 DEF Filled, RxOK, RxFields
    <2>. HIDE DEF g
    <2>3. /\ DOMAIN d = RxFields /\ d.rcvd = n /\ d.top \in 0..MaxPayload
          /\ d.buf = Append(c.buf, f.chunk)
          /\ d.len = c.len /\ d.state = "RECEIVING" /\ d.complete = FALSE
          /\ d.role = c.role /\ d.target = c.target
      BY <2>2 DEF RxFields
    <2>4. e = IF d.rcvd >= d.len THEN isotp_idle_entry([d EXCEPT !.complete = TRUE]) ELSE d
      BY <1>2 DEF HandleConsecutiveFrame, g, n
    <2>. HIDE DEF d, e
    <2>5. c.len \in 1..MaxPayload
      BY DEF RxOK
    <2>6. CASE d.rcvd >= d.len
      <3>. DEFINE h == [d EXCEPT !.complete = TRUE]
      <3>1. /\ DOMAIN h = RxFields /\ h.top \in 0..MaxPayload /\ h.complete = TRUE
            /\ h.len = c.len /\ h.buf = Append(c.buf, f.chunk)
            /\ h.role = c.role /\ h.target = c.target
        BY <2>3 DEF RxFields
      <3>2. e = isotp_idle_entry(h)
        BY <2>4, <2>6
      <3>. HIDE DEF h
      <3>3. /\ RxOK(e) /\ e.state = "IDLE" /\ e.complete = TRUE /\ e.buf = Append(c.buf, f.chunk)
            /\ e.len = c.len /\ e.role = c.role /\ e.target = c.target
        BY <2>5, <3>1, <3>2, IdleOK
      <3>. QED  BY <2>3, <2>6, <3>3 DEF e, Grew, n
    <2>7. CASE ~(d.rcvd >= d.len)
      <3>1. e = d /\ n < c.len
        BY <2>1, <2>3, <2>4, <2>5, <2>7
      <3>2. RxOK(e)
        BY <2>1, <2>3, <2>5, <3>1 DEF RxOK
      <3>. QED  BY <2>3, <3>1, <3>2 DEF e, Grew, n
    <2>. QED  BY <2>6, <2>7
  <1>. QED  BY <1>1, <1>2

\* Whatever frame comes, the machine stays within its buffer and does one of five
\* things.
LEMMA RxOutcome ==
  ASSUME NEW c, NEW f, RxOK(c), c.complete = FALSE, f.len \in Nat
  PROVE  LET e == ISOTP_ProcessRxFrame(c, f)
         IN  RxOK(e) /\ Outcome(c, f, e) /\ e.role = c.role
             /\ e.target = Retarget(c, f).target
  <1>. DEFINE d == Retarget(c, f)
  <1>1. /\ RxOK(d) /\ d.state = c.state /\ d.len = c.len /\ d.rcvd = c.rcvd /\ d.buf = c.buf
        /\ d.complete = FALSE /\ d.role = c.role
    BY DEF Retarget, RxOK, RxFields
  <1>2. BytesToCopy(d) = BytesToCopy(c)
    BY <1>1 DEF BytesToCopy
  <1>3. ISOTP_ProcessRxFrame(c, f) =
          CASE f.kind = "SF" /\ Consumes(c, f) -> HandleSingleFrame(d, f)
            [] f.kind = "FF" -> HandleFirstFrame(d, f)
            [] f.kind = "CF" /\ Consumes(c, f) -> HandleConsecutiveFrame(d, f)
            [] OTHER -> d
    BY DEF ISOTP_ProcessRxFrame
  <1>. HIDE DEF d
  <1>4. CASE f.kind = "SF" /\ Consumes(c, f)
    <2>1. f.len \in 1..SfMax
      BY <1>4, Sizes DEF Consumes
    <2>. QED  BY <1>1, <1>3, <1>4, <2>1, SingleOutcome DEF Outcome, d
  <1>5. CASE f.kind = "FF"
    <2>1. ISOTP_ProcessRxFrame(c, f) = HandleFirstFrame(d, f)
      BY <1>3, <1>5
    <2>2. \A e : Dropped(d, e) => Dropped(c, e)
      BY <1>1 DEF Dropped
    <2>. DEFINE e == HandleFirstFrame(d, f)
    <2>3. RxOK(e) /\ (Dropped(d, e) \/ Began(f, e)) /\ e.role = d.role /\ e.target = d.target
      BY <1>1, <1>5, FirstOutcome
    <2>. HIDE DEF e
    <2>4. Outcome(c, f, e)
      BY <2>2, <2>3 DEF Outcome
    <2>. QED  BY <1>1, <2>1, <2>3, <2>4 DEF d, e
  <1>6. CASE f.kind = "CF" /\ Consumes(c, f)
    <2>1. c.state = "RECEIVING"
      BY <1>6 DEF Consumes
    <2>2. ISOTP_ProcessRxFrame(c, f) = HandleConsecutiveFrame(d, f)
      BY <1>3, <1>6
    <2>3. Grew(d, f, HandleConsecutiveFrame(d, f)) => Grew(c, f, HandleConsecutiveFrame(d, f))
      BY <1>1, <1>2 DEF Grew
    <2>4. \A e : Dropped(d, e) => Dropped(c, e)
      BY <1>1 DEF Dropped
    <2>. DEFINE e == HandleConsecutiveFrame(d, f)
    <2>5. RxOK(e) /\ (Dropped(d, e) \/ Grew(d, f, e)) /\ e.role = d.role /\ e.target = d.target
      BY <1>1, <1>6, <2>1, ConsecutiveOutcome
    <2>. HIDE DEF e
    <2>6. Outcome(c, f, e)
      BY <2>3, <2>4, <2>5 DEF Outcome, e
    <2>. QED  BY <1>1, <2>2, <2>5, <2>6 DEF d, e
  <1>7. CASE ~(f.kind = "SF" /\ Consumes(c, f)) /\ f.kind # "FF"
             /\ ~(f.kind = "CF" /\ Consumes(c, f))
    <2>1. ISOTP_ProcessRxFrame(c, f) = d
      BY <1>3, <1>7
    <2>2. ~Consumes(c, f)
      BY <1>7 DEF Consumes
    <2>. QED  BY <1>1, <2>1, <2>2 DEF Outcome, Ignored, d
  <1>. QED  BY <1>4, <1>5, <1>6, <1>7

\* Polling drops a silent reception or changes nothing.
LEMMA PollOutcome ==
  ASSUME NEW c, RxOK(c)
  PROVE  LET e == ISOTP_Poll(c)
         IN  /\ RxOK(e) /\ e.role = c.role /\ e.target = c.target
             /\ \/ e = c
                \/ /\ e.state = "IDLE" /\ e.complete = c.complete /\ e.buf = c.buf
                   /\ c.state = "RECEIVING"
  BY IdleOK DEF ISOTP_Poll, RxOK

-----------------------------------------------------------------------------
(* One iteration of the head's loop.                                       *)

\* The frames there are, what they carry and whom they come from.
OwnFrames ==
  [kind : {"SF", "FF", "CF"}, src : Peers, len : Nat, seq : Int,
   chunk : [src : Peers, id : Nat, idx : Nat]]
Sendable  == OwnFrames \cup Strays
Chunks    == {f.chunk : f \in Sendable}
Addresses == {f.src : f \in Sendable} \cup {Controller}
PeerStates == [pc : {"idle", "waitFc", "sending"}, id : Nat, len : Nat, cf : Nat]

\* The log-push context is never in a reception: the dialog context consumes every
\* First Frame.
HeadInv ==
  /\ RxOK(ctx) /\ ctx.complete = FALSE /\ ctx.role = FALSE
  /\ ctx.buf \in Seq(Chunks) /\ ctx.target \in Addresses
  /\ RxOK(logCtx) /\ logCtx.complete = FALSE /\ logCtx.state = "IDLE"
  /\ rxq \in Seq(Sendable)
  /\ delivered \in Seq([buf : Seq(Chunks), len : Nat, replyTo : Addresses])

\* What an iteration does with frame f, in terms of the context before and after.
Delivers(b, n) ==
  \E t \in Addresses : delivered' = Append(delivered, [buf |-> b, len |-> n, replyTo |-> t])

Ends        == ctx'.state = "IDLE" /\ UNCHANGED delivered
Leaves(f)   == Ignored(ctx, ctx') /\ ~Consumes(ctx, f) /\ UNCHANGED delivered
Executes(f) == /\ f.kind = "SF" /\ f.len \in 1..SfMax
               /\ ctx'.state = "IDLE" /\ Delivers(<<f.chunk>>, f.len)
Begins(f)   == Began(f, ctx') /\ UNCHANGED delivered
Goes(f)     == /\ f.kind = "CF" /\ ctx.state = "RECEIVING" /\ ctx'.state = "RECEIVING"
               /\ ctx'.buf = Append(ctx.buf, f.chunk) /\ ctx'.len = ctx.len
               /\ ctx'.rcvd = ctx.rcvd + BytesToCopy(ctx) /\ ctx'.rcvd < ctx'.len
               /\ UNCHANGED delivered
Finishes(f) == /\ f.kind = "CF" /\ ctx.state = "RECEIVING" /\ ctx'.state = "IDLE"
               /\ ctx.rcvd + BytesToCopy(ctx) >= ctx.len
               /\ Delivers(Append(ctx.buf, f.chunk), ctx.len)

Iterates(f) == Ends \/ Leaves(f) \/ Executes(f) \/ Begins(f) \/ Goes(f) \/ Finishes(f)

\* A First Frame is answered once, to its sender; nothing else is.
Answers(f) ==
  IF f.kind = "FF" THEN \E s : fcs' = fcs \cup {[to |-> f.src, status |-> s]} ELSE fcs' = fcs

LEMMA SendableFacts ==
  ASSUME NEW f \in Sendable
  PROVE  f.len \in Nat /\ f.chunk \in Chunks /\ f.src \in Addresses
  BY Inputs DEF Sendable, OwnFrames, Chunks, Addresses

LEMMA InitContext ==
  ASSUME NEW t \in Addresses
  PROVE  LET c == ISOTP_Init(t)
         IN  /\ RxOK(c) /\ c.complete = FALSE /\ c.state = "IDLE" /\ c.target = t
             /\ c.role = (t = Broadcast) /\ c.buf \in Seq(Chunks)
  BY Sizes DEF ISOTP_Init, RxOK, RxFields

\* Completion after a poll of an outcome e.
LEMMA CompleteOutcome ==
  ASSUME NEW c, Complete(c), RxOK(c), c.buf \in Seq(Chunks), c.target \in Addresses,
         c.role = FALSE, delivered \in Seq([buf : Seq(Chunks), len : Nat, replyTo : Addresses]),
         c.complete \in BOOLEAN
  PROVE  /\ RxOK(ctx') /\ ctx'.complete = FALSE /\ ctx'.role = FALSE
         /\ ctx'.buf \in Seq(Chunks) /\ ctx'.target \in Addresses
         /\ ctx'.state = c.state /\ ctx'.buf = c.buf /\ ctx'.len = c.len /\ ctx'.rcvd = c.rcvd
         /\ IF c.complete THEN Delivers(c.buf, c.len) ELSE UNCHANGED delivered
         /\ delivered' \in Seq([buf : Seq(Chunks), len : Nat, replyTo : Addresses])
  <1>. DEFINE D == [buf : Seq(Chunks), len : Nat, replyTo : Addresses]
              d == [buf |-> c.buf, len |-> c.len, replyTo |-> c.target]
  <1>1. /\ ctx' = [c EXCEPT !.complete = FALSE]
        /\ delivered' = IF ~c.complete THEN delivered ELSE Append(delivered, d)
    BY DEF Complete
  <1>2. /\ RxOK(ctx') /\ ctx'.complete = FALSE /\ ctx'.role = FALSE
        /\ ctx'.buf \in Seq(Chunks) /\ ctx'.target \in Addresses
        /\ ctx'.state = c.state /\ ctx'.buf = c.buf /\ ctx'.len = c.len /\ ctx'.rcvd = c.rcvd
    BY <1>1 DEF RxOK, RxFields
  <1>3. d \in D
    BY DEF RxOK
  <1>4. delivered' \in Seq(D)
    <2>. HIDE DEF d, D
    <2>1. delivered \in Seq(D)
      BY DEF D
    <2>. QED  BY <1>1, <1>3, <2>1
  <1>5. IF c.complete THEN Delivers(c.buf, c.len) ELSE UNCHANGED delivered
    BY <1>1 DEF Delivers
  <1>. QED  BY <1>2, <1>4, <1>5

\* What the loop makes of the frame it took from the queue.
LEMMA FrameIteration ==
  ASSUME HeadInv, HeadFrame
  PROVE  /\ HeadInv' /\ rxq # <<>> /\ rxq' = Tail(rxq) /\ Iterates(Head(rxq))
         /\ Answers(Head(rxq))
  <1>. DEFINE f == Head(rxq)
              c == Seeded(f)
              e == ISOTP_ProcessRxFrame(c, f)
              g == ISOTP_Poll(e)
  <1>0. /\ rxq # <<>> /\ rxq' = Tail(rxq) /\ rxq' \in Seq(Sendable) /\ f \in Sendable
        /\ Complete(g) /\ fcs' = fcs \cup FlowControlFor(c, f)
        /\ logCtx' = ISOTP_Poll(IF Consumes(c, f) THEN logCtx ELSE ISOTP_ProcessRxFrame(logCtx, f))
    BY DEF HeadFrame, HeadInv
  <1>1. f.len \in Nat /\ f.chunk \in Chunks /\ f.src \in Addresses
    BY <1>0, SendableFacts
  <1>2. /\ RxOK(c) /\ c.complete = FALSE /\ c.role = FALSE /\ c.buf \in Seq(Chunks)
        /\ c.target \in Addresses /\ (c = ctx \/ c.state = "IDLE")
    <2>1. CASE inited
      BY <2>1 DEF Seeded, HeadInv
    <2>2. CASE ~inited
      <3>. DEFINE t == IF f.src = Broadcast THEN Controller ELSE f.src
      <3>1. t \in Addresses /\ t # Broadcast /\ c = ISOTP_Init(t)
        BY <1>1, <2>2, Sizes DEF Seeded, Addresses
      <3>. HIDE DEF t, c
      <3>. QED  BY <3>1, InitContext
    <2>. QED  BY <2>1, <2>2
  <1>. HIDE DEF c, f
  <1>3. RxOK(e) /\ Outcome(c, f, e) /\ e.role = c.role /\ e.target = Retarget(c, f).target
    BY <1>1, <1>2, RxOutcome
  <1>4. Retarget(c, f).target \in {c.target, f.src} /\ (c.target # f.src /\ f.kind = "FF" =>
          Retarget(c, f).target = f.src)
    BY <1>2 DEF Retarget, RxOK, RxFields
  <1>5. e.complete \in BOOLEAN /\ e.buf \in Seq(Chunks)
    <2>1. <<f.chunk>> \in Seq(Chunks) /\ Append(c.buf, f.chunk) \in Seq(Chunks)
      BY <1>1, <1>2
    <2>. QED  BY <1>2, <1>3, <2>1 DEF Outcome, Ignored, Dropped, Single, Began, Grew
  <1>. HIDE DEF e
  <1>6. /\ RxOK(g) /\ g.role = e.role /\ g.target = e.target
        /\ \/ g = e
           \/ g.state = "IDLE" /\ g.complete = e.complete /\ g.buf = e.buf /\ e.state = "RECEIVING"
    BY <1>3, PollOutcome
  <1>. HIDE DEF g
  <1>7. /\ RxOK(ctx') /\ ctx'.complete = FALSE /\ ctx'.role = FALSE
        /\ ctx'.buf \in Seq(Chunks) /\ ctx'.target \in Addresses
        /\ ctx'.state = g.state /\ ctx'.buf = g.buf /\ ctx'.len = g.len /\ ctx'.rcvd = g.rcvd
        /\ IF g.complete THEN Delivers(g.buf, g.len) ELSE UNCHANGED delivered
        /\ delivered' \in Seq([buf : Seq(Chunks), len : Nat, replyTo : Addresses])
    <2>1. g.buf \in Seq(Chunks) /\ g.target \in Addresses /\ g.complete \in BOOLEAN
          /\ g.role = FALSE
      BY <1>1, <1>2, <1>3, <1>4, <1>5, <1>6
    <2>2. delivered \in Seq([buf : Seq(Chunks), len : Nat, replyTo : Addresses])
      BY DEF HeadInv
    <2>. QED  BY <1>0, <1>6, <2>1, <2>2, CompleteOutcome
  <1>8. Iterates(f)
    <2>1. CASE g # e
      <3>1. e.complete = FALSE
        BY <1>3, <1>6, <2>1, <1>2 DEF Outcome, Ignored, Dropped, Single, Began, Grew
      <3>. QED  BY <1>6, <1>7, <2>1, <3>1 DEF Iterates, Ends
    <2>2. CASE g = e /\ c # ctx
      <3>1. c.state = "IDLE"
        BY <1>2, <2>2
      <3>2. \/ Ignored(c, e) \/ Dropped(c, e) \/ Single(f, e) \/ Began(f, e)
        BY <1>3, <3>1 DEF Outcome, Grew
      <3>3. CASE Ignored(c, e) \/ Dropped(c, e)
        BY <1>2, <1>7, <2>2, <3>1, <3>3 DEF Ignored, Dropped, Iterates, Ends
      <3>4. CASE Single(f, e)
        BY <1>7, <2>2, <3>4 DEF Single, Iterates, Executes
      <3>5. CASE Began(f, e)
        BY <1>7, <2>2, <3>5 DEF Began, Iterates, Begins
      <3>. QED  BY <3>2, <3>3, <3>4, <3>5
    <2>3. CASE g = e /\ c = ctx
      <3>1. CASE Ignored(c, e) /\ ~Consumes(c, f)
        BY <1>2, <1>7, <2>3, <3>1 DEF Ignored, Iterates, Leaves
      <3>2. CASE Dropped(c, e)
        BY <1>7, <2>3, <3>2 DEF Dropped, Iterates, Ends
      <3>3. CASE Single(f, e)
        BY <1>7, <2>3, <3>3 DEF Single, Iterates, Executes
      <3>4. CASE Began(f, e)
        BY <1>7, <2>3, <3>4 DEF Began, Iterates, Begins
      <3>5. CASE Grew(c, f, e)
        BY <1>7, <2>3, <3>5 DEF Grew, Iterates, Goes, Finishes
      <3>. QED  BY <1>3, <3>1, <3>2, <3>3, <3>4, <3>5 DEF Outcome
    <2>. QED  BY <2>1, <2>2, <2>3
  <1>9. RxOK(logCtx') /\ logCtx'.complete = FALSE /\ logCtx'.state = "IDLE"
    <2>0. RxOK(logCtx) /\ logCtx.complete = FALSE /\ logCtx.state = "IDLE"
      BY DEF HeadInv
    <2>. DEFINE l == ISOTP_ProcessRxFrame(logCtx, f)
    <2>1. RxOK(l) /\ Outcome(logCtx, f, l)
      BY <1>1, <2>0, RxOutcome
    <2>2. ASSUME ~Consumes(c, f)  PROVE l.complete = FALSE /\ l.state = "IDLE"
      <3>1. ~Consumes(logCtx, f)
        BY <2>0, <2>2 DEF Consumes
      <3>. QED
        BY <1>1, <2>0, <2>1, <2>2, <3>1, Sizes
        DEF Outcome, Ignored, Dropped, Single, Began, Grew, Consumes
    <2>. HIDE DEF l
    <2>3. logCtx' = ISOTP_Poll(IF Consumes(c, f) THEN logCtx ELSE l)
      BY <1>0 DEF l
    <2>. QED  BY <2>0, <2>1, <2>2, <2>3, PollOutcome
  <1>10. Answers(f)
    <2>1. f.kind = "FF" => Retarget(c, f).target = f.src
      BY <1>4, <1>2 DEF Retarget, RxOK, RxFields
    <2>2. CASE f.kind = "FF"
      <3>. DEFINE s == IF FfAcceptable(f) THEN "CTS" ELSE "OVFLW"
      <3>1. fcs' = fcs \cup {[to |-> f.src, status |-> s]}
        BY <1>0, <2>1, <2>2 DEF FlowControlFor
      <3>. QED  BY <2>2, <3>1 DEF Answers
    <2>3. CASE f.kind # "FF"
      BY <1>0, <2>3 DEF FlowControlFor, Answers
    <2>. QED  BY <2>2, <2>3
  <1>. QED  BY <1>0, <1>7, <1>8, <1>9, <1>10 DEF HeadInv, f

\* An iteration without a frame can only drop a reception.
LEMMA PollIteration ==
  ASSUME HeadInv, HeadPoll
  PROVE  HeadInv' /\ (Ends \/ (Ignored(ctx, ctx') /\ UNCHANGED delivered))
  <1>1. /\ Complete(ISOTP_Poll(ctx)) /\ logCtx' = ISOTP_Poll(logCtx) /\ rxq' = rxq
    BY DEF HeadPoll
  <1>. DEFINE g == ISOTP_Poll(ctx)
  <1>2. /\ RxOK(g) /\ g.role = FALSE /\ g.target \in Addresses /\ g.complete = FALSE
        /\ g.buf \in Seq(Chunks) /\ (g = ctx \/ g.state = "IDLE")
    BY PollOutcome DEF HeadInv
  <1>. HIDE DEF g
  <1>3. /\ RxOK(ctx') /\ ctx'.complete = FALSE /\ ctx'.role = FALSE
        /\ ctx'.buf \in Seq(Chunks) /\ ctx'.target \in Addresses
        /\ ctx'.state = g.state /\ ctx'.buf = g.buf /\ ctx'.len = g.len /\ ctx'.rcvd = g.rcvd
        /\ UNCHANGED delivered
    <2>1. delivered \in Seq([buf : Seq(Chunks), len : Nat, replyTo : Addresses])
      BY DEF HeadInv
    <2>. QED  BY <1>1, <1>2, <2>1, CompleteOutcome DEF g
  <1>4. RxOK(logCtx') /\ logCtx'.complete = FALSE /\ logCtx'.state = "IDLE"
    BY <1>1, PollOutcome DEF HeadInv
  <1>5. Ends \/ (Ignored(ctx, ctx') /\ UNCHANGED delivered)
    BY <1>2, <1>3 DEF Ends, Ignored, HeadInv
  <1>. QED  BY <1>1, <1>3, <1>4, <1>5 DEF HeadInv

-----------------------------------------------------------------------------
(* The peers and the queue.                                                *)

LinkType ==
  /\ peer \in [Peers -> PeerStates]
  /\ requests \in Seq([src : Peers, len : Nat])

LinkInv == HeadInv /\ LinkType

\* A frame that arrives is appended or lost.
LEMMA ArriveType ==
  ASSUME rxq \in Seq(Sendable), NEW f \in Sendable, Arrive(f)
  PROVE  rxq' \in Seq(Sendable) /\ (rxq' = Append(rxq, f) \/ rxq' = rxq)
  <1>. HIDE DEF Sendable
  <1>. QED  BY DEF Arrive

LEMMA OwnSendable ==
  ASSUME NEW p \in Peers, NEW id \in Nat, NEW i \in Nat, NEW len \in Nat, NEW s \in Int,
         NEW k \in {"SF", "FF", "CF"}
  PROVE  [kind |-> k, src |-> p, len |-> len, seq |-> s, chunk |-> Chunk(p, id, i)] \in Sendable
  BY DEF Sendable, OwnFrames, Chunk

\* What a step of the peers does to the queue.
LEMMA StartStep ==
  ASSUME LinkType, rxq \in Seq(Sendable), NEW p \in Peers, NEW len \in Lengths,
         StartRequest(p, len)
  PROVE  LET id == Len(requests) + 1
             f  == [kind |-> IF len <= SfMax THEN "SF" ELSE "FF", src |-> p, len |-> len,
                    seq |-> 0, chunk |-> Chunk(p, id, 0)]
         IN  /\ id \in Nat /\ len \in Nat /\ f \in Sendable /\ peer[p].pc = "idle"
             /\ rxq' \in Seq(Sendable) /\ (rxq' = Append(rxq, f) \/ rxq' = rxq)
             /\ requests' = Append(requests, [src |-> p, len |-> len])
             /\ requests' \in Seq([src : Peers, len : Nat])
             /\ peer' = IF len <= SfMax THEN peer
                        ELSE [peer EXCEPT ![p] =
                                [pc |-> "waitFc", id |-> id, len |-> len, cf |-> 0]]
             /\ peer' \in [Peers -> PeerStates]
             /\ UNCHANGED <<fcs, ctx, inited, logCtx, delivered, strays>>
  <1>. DEFINE id == Len(requests) + 1
              q  == [src |-> p, len |-> len]
              n  == [pc |-> "waitFc", id |-> id, len |-> len, cf |-> 0]
  <1>1. id \in Nat /\ len \in Nat /\ 0 \in Int /\ 0 \in Nat
    BY Inputs DEF LinkType
  <1>2. q \in [src : Peers, len : Nat] /\ n \in PeerStates
    BY <1>1 DEF PeerStates
  <1>3. requests' = Append(requests, q) /\ requests' \in Seq([src : Peers, len : Nat])
    <2>1. requests' = Append(requests, q)
      BY DEF StartRequest
    <2>. HIDE DEF q
    <2>. QED  BY <1>2, <2>1 DEF LinkType
  <1>4. CASE len <= SfMax
    <2>. DEFINE f == [kind |-> "SF", src |-> p, len |-> len, seq |-> 0, chunk |-> Chunk(p, id, 0)]
    <2>1. f \in Sendable
      BY <1>1, OwnSendable
    <2>2. Arrive(f) /\ UNCHANGED peer
      BY <1>4 DEF StartRequest
    <2>. HIDE DEF f
    <2>3. rxq' \in Seq(Sendable) /\ (rxq' = Append(rxq, f) \/ rxq' = rxq)
      BY <2>1, <2>2, ArriveType
    <2>. QED  BY <1>1, <1>3, <1>4, <2>1, <2>2, <2>3 DEF StartRequest, LinkType, f
  <1>5. CASE ~(len <= SfMax)
    <2>. DEFINE f == [kind |-> "FF", src |-> p, len |-> len, seq |-> 0, chunk |-> Chunk(p, id, 0)]
    <2>1. f \in Sendable
      BY <1>1, OwnSendable
    <2>2. Arrive(f) /\ peer' = [peer EXCEPT ![p] = n]
      BY <1>5 DEF StartRequest
    <2>. HIDE DEF f
    <2>3. rxq' \in Seq(Sendable) /\ (rxq' = Append(rxq, f) \/ rxq' = rxq)
      BY <2>1, <2>2, ArriveType
    <2>4. peer' \in [Peers -> PeerStates]
      <3>. HIDE DEF n
      <3>. QED  BY <1>2, <2>2 DEF LinkType
    <2>. QED  BY <1>1, <1>3, <1>5, <2>1, <2>2, <2>3, <2>4 DEF StartRequest, f
  <1>. QED  BY <1>4, <1>5

LEMMA SendStep ==
  ASSUME LinkType, rxq \in Seq(Sendable), NEW p \in Peers, SendCf(p)
  PROVE  LET i == peer[p].cf + 1
             f == [kind |-> "CF", src |-> p, len |-> 0, seq |-> i % SeqMod,
                   chunk |-> Chunk(p, peer[p].id, i)]
         IN  /\ f \in Sendable /\ i \in Nat /\ peer[p].pc = "sending"
             /\ rxq' \in Seq(Sendable) /\ (rxq' = Append(rxq, f) \/ rxq' = rxq)
             /\ peer' = [peer EXCEPT ![p] = IF i = CfTotal(peer[p].len) THEN NoPeer
                                            ELSE [peer[p] EXCEPT !.cf = i]]
             /\ peer' \in [Peers -> PeerStates]
             /\ UNCHANGED <<fcs, ctx, inited, logCtx, delivered, requests, strays>>
  <1>. DEFINE i == peer[p].cf + 1
              s == i % SeqMod
              f == [kind |-> "CF", src |-> p, len |-> 0, seq |-> s,
                    chunk |-> Chunk(p, peer[p].id, i)]
  <1>1. peer[p] \in PeerStates
    BY DEF LinkType
  <1>2. i \in Nat /\ peer[p].id \in Nat /\ s \in Int /\ 0 \in Nat
    BY <1>1, Sizes DEF PeerStates
  <1>3. f \in Sendable
    <2>. HIDE DEF i, s
    <2>. QED  BY <1>2, OwnSendable
  <1>4. Arrive(f)
    BY DEF SendCf
  <1>. HIDE DEF f
  <1>5. rxq' \in Seq(Sendable) /\ (rxq' = Append(rxq, f) \/ rxq' = rxq)
    BY <1>3, <1>4, ArriveType
  <1>6. /\ peer' = [peer EXCEPT ![p] = IF i = CfTotal(peer[p].len) THEN NoPeer
                                       ELSE [peer[p] EXCEPT !.cf = i]]
        /\ peer' \in [Peers -> PeerStates]
    <2>. DEFINE a == [peer[p] EXCEPT !.cf = i]
                b == IF i = CfTotal(peer[p].len) THEN NoPeer ELSE a
    <2>1. peer' = [peer EXCEPT ![p] = b]
      BY DEF SendCf
    <2>2. a \in PeerStates /\ NoPeer \in PeerStates
      BY <1>1, <1>2 DEF PeerStates, NoPeer
    <2>3. b \in PeerStates
      <3>. HIDE DEF a
      <3>. QED  BY <2>2
    <2>4. peer' \in [Peers -> PeerStates]
      <3>. HIDE DEF b
      <3>. QED  BY <2>1, <2>3 DEF LinkType
    <2>. QED  BY <2>1, <2>4
  <1>. QED  BY <1>2, <1>3, <1>5, <1>6 DEF SendCf, f

LEMMA FcStep ==
  ASSUME LinkType, NEW p \in Peers, (\E fc \in fcs : ReceiveFc(p, fc)) \/ FcTimeout(p)
  PROVE  peer' \in [Peers -> PeerStates]
  <1>1. PICK n \in PeerStates : peer' = [peer EXCEPT ![p] = n]
    <2>0. peer[p] \in PeerStates /\ NoPeer \in PeerStates
          /\ [peer[p] EXCEPT !.pc = "sending"] \in PeerStates
      BY DEF LinkType, PeerStates, NoPeer
    <2>1. CASE FcTimeout(p)
      BY <2>0, <2>1 DEF FcTimeout
    <2>2. ASSUME NEW fc \in fcs, ReceiveFc(p, fc)
          PROVE  \E n \in PeerStates : peer' = [peer EXCEPT ![p] = n]
      <3>. DEFINE s == [peer[p] EXCEPT !.pc = "sending"]
      <3>1. \/ peer' = peer \/ peer' = [peer EXCEPT ![p] = s]
            \/ peer' = [peer EXCEPT ![p] = NoPeer]
        BY <2>2 DEF ReceiveFc
      <3>2. peer = [peer EXCEPT ![p] = peer[p]]
        BY DEF LinkType
      <3>. HIDE DEF s
      <3>. QED  BY <2>0, <3>1, <3>2 DEF s
    <2>. QED  BY <2>1, <2>2
  <1>. QED  BY <1>1 DEF LinkType

LEMMA LinkInit == Init => LinkInv
  <1>. SUFFICES ASSUME Init  PROVE LinkInv
    OBVIOUS
  <1>1. Controller \in Addresses
    BY DEF Addresses
  <1>2. RxOK(ctx) /\ ctx.complete = FALSE /\ ctx.role = FALSE /\ ctx.buf \in Seq(Chunks)
        /\ ctx.target = Controller
    BY <1>1, InitContext, Sizes DEF Init
  <1>3. RxOK(logCtx) /\ logCtx.complete = FALSE /\ logCtx.state = "IDLE"
    BY Sizes DEF Init, ISOTP_Init, RxOK, RxFields
  <1>4. peer \in [Peers -> PeerStates]
    BY DEF Init, NoPeer, PeerStates
  <1>5. rxq \in Seq(Sendable) /\ requests \in Seq([src : Peers, len : Nat])
        /\ delivered \in Seq([buf : Seq(Chunks), len : Nat, replyTo : Addresses])
    BY DEF Init
  <1>. QED  BY <1>1, <1>2, <1>3, <1>4, <1>5 DEF LinkInv, HeadInv, LinkType

LEMMA LinkStep == ASSUME LinkInv, [Next]_lvars  PROVE LinkInv'
  <1>0. HeadInv /\ LinkType /\ rxq \in Seq(Sendable)
    BY DEF LinkInv, HeadInv
  <1>1. ASSUME NEW p \in Peers, NEW len \in Lengths, StartRequest(p, len)  PROVE LinkInv'
    BY <1>0, <1>1, StartStep DEF LinkInv, HeadInv, LinkType
  <1>2. ASSUME NEW p \in Peers, SendCf(p)  PROVE LinkInv'
    BY <1>0, <1>2, SendStep DEF LinkInv, HeadInv, LinkType
  <1>3. ASSUME NEW p \in Peers, NEW fc \in fcs, ReceiveFc(p, fc)  PROVE LinkInv'
    <2>1. UNCHANGED <<rxq, ctx, logCtx, delivered, requests>>
      BY <1>3 DEF ReceiveFc
    <2>. QED  BY <1>0, <1>3, <2>1, FcStep DEF LinkInv, HeadInv, LinkType
  <1>4. ASSUME NEW p \in Peers, FcTimeout(p)  PROVE LinkInv'
    <2>1. UNCHANGED <<rxq, ctx, logCtx, delivered, requests>>
      BY <1>4 DEF FcTimeout
    <2>. QED  BY <1>0, <1>4, <2>1, FcStep DEF LinkInv, HeadInv, LinkType
  <1>5. ASSUME NEW fc \in fcs, LoseFc(fc)  PROVE LinkInv'
    BY <1>5 DEF LoseFc, LinkInv, HeadInv, LinkType
  <1>6. ASSUME NEW f \in Strays, StrayFrame(f)  PROVE LinkInv'
    <2>1. f \in Sendable
      BY DEF Sendable
    <2>2. rxq' \in Seq(Sendable)
      BY <1>0, <1>6, <2>1 DEF StrayFrame
    <2>. QED  BY <1>6, <2>2 DEF StrayFrame, LinkInv, HeadInv, LinkType
  <1>7. CASE HeadFrame
    BY <1>0, <1>7, FrameIteration DEF LinkInv, LinkType, HeadFrame
  <1>8. CASE HeadPoll
    BY <1>0, <1>8, PollIteration DEF LinkInv, LinkType, HeadPoll
  <1>9. CASE Tick
    <2>1. /\ ctx' = [ctx EXCEPT !.age = ctx.age + 1]
          /\ UNCHANGED <<peer, rxq, logCtx, delivered, requests>>
      BY <1>9 DEF Tick
    <2>. QED  BY <1>0, <2>1 DEF LinkInv, HeadInv, LinkType, RxOK, RxFields
  <1>10. CASE UNCHANGED lvars
    BY <1>10 DEF lvars, LinkInv, HeadInv, LinkType
  <1>. QED
    BY <1>1, <1>2, <1>3, <1>4, <1>5, <1>6, <1>7, <1>8, <1>9, <1>10 DEF Next

\* BufferBounded holds for every buffer and frame size and any number of peers, although
\* a First Frame may announce less than it carries and the difference may wrap: the next
\* Consecutive Frame then ends the reception before the buffer does.
THEOREM BufferIsBounded == Spec => []BufferBounded
  <1>1. Init => LinkInv
    BY LinkInit
  <1>2. LinkInv /\ [Next]_lvars => LinkInv'
    BY LinkStep
  <1>3. LinkInv => BufferBounded
    BY Sizes DEF LinkInv, HeadInv, RxOK, BufferBounded
  <1>. QED  BY <1>1, <1>2, <1>3, PTL DEF Spec

-----------------------------------------------------------------------------
(* How many Consecutive Frames a request takes.                            *)

\* a frames of c bytes hold less than b of them only if a < b.
LEMMA FewerFrames ==
  ASSUME NEW a \in Int, NEW b \in Int, NEW c \in Nat \ {0}, a * c < b * c
  PROVE  a < b
  <1>1. CASE b - a <= 0
    <2>1. (b - a) * c <= 0
      BY <1>1, SMT
    <2>2. (b - a) * c = b * c - a * c
      BY SMT
    <2>3. a * c \in Int /\ b * c \in Int
      BY SMT
    <2>. QED  BY <2>1, <2>2, <2>3, SMT
  <1>. QED  BY <1>1

\* CfTotal is the ceiling of what the First Frame leaves over.
LEMMA CeilTotal ==
  ASSUME NEW len \in Nat, len > FfData
  PROVE  LET t == CfTotal(len)
         IN  t \in Nat \ {0} /\ (t - 1) * CfData < len - FfData /\ len - FfData <= t * CfData
  <1>. DEFINE x == len - FfData + CfData - 1
              t == x \div CfData
              r == x % CfData
  <1>1. CfData \in Nat \ {0} /\ x \in Nat /\ len - FfData \in Nat \ {0} /\ FfData \in Nat
    BY Sizes
  <1>2. t \in Int /\ r \in Int /\ x = t * CfData + r /\ 0 <= r /\ r < CfData
    <2>. HIDE DEF x
    <2>. QED  BY <1>1, SMT
  <1>. HIDE DEF t, r
  <1>3. (t - 1) * CfData = t * CfData - CfData /\ t * CfData \in Int
    BY <1>1, <1>2, SMT
  <1>4. (t - 1) * CfData < len - FfData /\ len - FfData <= t * CfData
    BY <1>1, <1>2, <1>3, SMT
  <1>5. 0 * CfData < t * CfData
    BY <1>1, <1>3, <1>4, SMT
  <1>6. t > 0
    BY <1>1, <1>2, <1>5, FewerFrames
  <1>. QED  BY <1>2, <1>4, <1>6 DEF CfTotal, t

\* A reception that took k Consecutive Frames takes CfData bytes from the next one, or
\* it was the last of them.
LEMMA NextFrame ==
  ASSUME NEW c, RxOK(c), c.state = "RECEIVING", NEW k \in Nat,
         c.rcvd = FfData + k * CfData, c.rcvd < c.len
  PROVE  /\ c.rcvd + BytesToCopy(c) < c.len =>
              c.rcvd + BytesToCopy(c) = FfData + (k + 1) * CfData
         /\ c.rcvd + BytesToCopy(c) >= c.len => k + 1 = CfTotal(c.len)
  <1>1. c.len \in Nat /\ c.rcvd \in Nat /\ FfData \in Nat /\ CfData \in Nat \ {0}
    BY Sizes DEF RxOK
  <1>2. k * CfData \in Nat /\ (k + 1) * CfData = k * CfData + CfData
    BY <1>1, SMT
  <1>3. c.len > FfData
    BY <1>1, <1>2
  <1>4. BytesToCopy(c) = IF c.len - c.rcvd > CfData THEN CfData ELSE c.len - c.rcvd
    BY CopyBounded
  <1>. DEFINE t == CfTotal(c.len)
  <1>5. t \in Nat \ {0} /\ (t - 1) * CfData < c.len - FfData /\ c.len - FfData <= t * CfData
    BY <1>1, <1>3, CeilTotal
  <1>. HIDE DEF t
  <1>6. CASE c.len - c.rcvd > CfData
    BY <1>1, <1>2, <1>4, <1>6
  <1>7. CASE ~(c.len - c.rcvd > CfData)
    <2>1. t * CfData \in Int /\ (t - 1) * CfData \in Int
      BY <1>1, <1>5, SMT
    <2>2. k * CfData < t * CfData /\ (t - 1) * CfData < (k + 1) * CfData
      BY <1>1, <1>2, <1>5, <1>7, <2>1
    <2>3. k < t /\ t - 1 < k + 1
      BY <1>1, <1>5, <2>2, FewerFrames
    <2>. QED  BY <1>1, <1>4, <1>5, <1>7, <2>3 DEF t
  <1>. QED  BY <1>6, <1>7

LEMMA Pushed ==
  ASSUME NEW S, NEW q \in Seq(S), NEW f \in S
  PROVE  /\ Append(q, f) \in Seq(S) /\ Len(Append(q, f)) = Len(q) + 1 /\ Len(q) \in Nat
         /\ \A i \in 1..Len(q) : Append(q, f)[i] = q[i]
         /\ Append(q, f)[Len(q) + 1] = f
  OBVIOUS

LEMMA Popped ==
  ASSUME NEW S, NEW q \in Seq(S), q # <<>>
  PROVE  /\ Tail(q) \in Seq(S) /\ Len(Tail(q)) = Len(q) - 1 /\ Len(q) \in Nat \ {0}
         /\ \A i \in 1..Len(Tail(q)) : Tail(q)[i] = q[i + 1] /\ i + 1 \in 1..Len(q)
         /\ Head(q) = q[1] /\ 1 \in 1..Len(q)
  OBVIOUS

-----------------------------------------------------------------------------
(* One compliant peer: what is executed is one of its requests. The       *)
(* invariant follows the chunks of a request through the peer, the queue,  *)
(* the context and the history.                                            *)

P == CHOOSE p \in Peers : TRUE

Own(f)       == f.chunk.id # 0
Clean(b)     == \A n \in DOMAIN b : b[n].id # 0
Before(a, b) == a.id < b.id \/ (a.id = b.id /\ a.idx < b.idx)

\* A frame of a request says of it what its sender announced.
FrameSound(f, R) ==
  IF f.chunk.id = 0 THEN f.src = P => f.kind = "FC"
  ELSE /\ f.src = P /\ f.chunk = Chunk(P, f.chunk.id, f.chunk.idx) /\ f.chunk.idx \in Nat
       /\ f.chunk.id \in 1..Len(R) /\ f.kind \in {"SF", "FF", "CF"}
       /\ f.kind # "CF" => f.chunk.idx = 0 /\ f.len = R[f.chunk.id].len
       /\ f.kind = "SF" <=> R[f.chunk.id].len <= SfMax
       /\ f.kind = "CF" => f.chunk.idx \in 1..CfTotal(R[f.chunk.id].len)

RequestSound == \A k \in 1..Len(requests) :
                  /\ requests[k].src = P /\ requests[k].len \in Nat
                  /\ requests[k].len > SfMax => requests[k].len > FfData

QueueSound == \A i \in 1..Len(rxq) : FrameSound(rxq[i], requests)
QueueOrder == \A i, j \in 1..Len(rxq) :
                i < j /\ Own(rxq[i]) /\ Own(rxq[j]) => Before(rxq[i].chunk, rxq[j].chunk)

\* The peer is at its newest request; no frame it has not cut yet is in the queue.
PeerSound ==
  /\ peer[P].pc # "idle" =>
       /\ peer[P].id = Len(requests) /\ peer[P].id > 0 /\ peer[P].len = requests[peer[P].id].len
       /\ peer[P].len > SfMax /\ peer[P].cf < CfTotal(peer[P].len)
  /\ peer[P].pc = "waitFc" => peer[P].cf = 0
PeerAhead ==
  peer[P].pc # "idle" =>
    \A i \in 1..Len(rxq) : rxq[i].chunk.id = peer[P].id => rxq[i].chunk.idx <= peer[P].cf

\* A First Frame in the queue or a Flow Control on its way is of the request the peer
\* waits with; there is one of them.
FirstPending ==
  \A i \in 1..Len(rxq) : Own(rxq[i]) /\ rxq[i].kind = "FF" =>
    /\ peer[P].pc = "waitFc" /\ peer[P].id = rxq[i].chunk.id
    /\ \A fc \in fcs : fc.to # P
OneAnswer ==
  \A fc \in fcs : fc.to = P => peer[P].pc = "waitFc" /\ \A fd \in fcs : fd.to = P => fd = fc

Receiving == ctx.state = "RECEIVING" /\ Clean(ctx.buf)

\* Once a First Frame is answered, no older request is being received.
NoneOlder ==
  Receiving =>
    /\ peer[P].pc = "sending" \/ (\E fc \in fcs : fc.to = P) => ctx.buf[1].id >= peer[P].id
    /\ \A i \in 1..Len(rxq) :
         Own(rxq[i]) /\ rxq[i].kind = "CF" => ctx.buf[1].id >= rxq[i].chunk.id

\* The buffer b holds the first chunk of request id of length n and some of the later
\* ones in order, as many as Consecutive Frames were counted.
Reassembles(b, id, n) ==
  /\ Len(b) > 0 /\ b[1].idx = 0 /\ id \in 1..Len(requests)
  /\ \A m \in 1..Len(b) : b[m] = Chunk(P, id, b[m].idx) /\ b[m].idx \in 0..CfTotal(n)
  /\ \A m, k \in 1..Len(b) : m <= k => b[k].idx - b[m].idx >= k - m
  /\ n = requests[id].len /\ n > SfMax

BufSound ==
  Receiving => /\ Reassembles(ctx.buf, ctx.buf[1].id, ctx.len)
               /\ ctx.rcvd = FfData + (Len(ctx.buf) - 1) * CfData /\ ctx.rcvd < ctx.len
BufAhead ==
  Receiving =>
    LET last == ctx.buf[Len(ctx.buf)]
    IN  /\ \A i \in 1..Len(rxq) : Own(rxq[i]) => Before(last, rxq[i].chunk)
        /\ peer[P].pc # "idle" /\ peer[P].id = last.id => last.idx <= peer[P].cf

\* Executed requests are whole, and older than everything that may start another.
Whole(d) ==
  Clean(d.buf) => /\ d.buf[1].id \in 1..Len(requests) /\ d.buf = WholeRequest(d.buf[1].id)
                  /\ d.len = requests[d.buf[1].id].len
DoneSound == \A i \in 1..Len(delivered) : Whole(delivered[i])
DoneAhead ==
  \A i \in 1..Len(delivered) : Clean(delivered[i].buf) =>
    /\ \A k \in 1..Len(rxq) : Own(rxq[k]) /\ rxq[k].kind # "CF" =>
         rxq[k].chunk.id > delivered[i].buf[1].id
    /\ Receiving => ctx.buf[1].id > delivered[i].buf[1].id
DoneOnce ==
  \A i, j \in 1..Len(delivered) :
    Clean(delivered[i].buf) /\ Clean(delivered[j].buf)
      /\ delivered[i].buf[1].id = delivered[j].buf[1].id => i = j

WireInv == QueueSound /\ QueueOrder /\ PeerSound /\ PeerAhead /\ FirstPending /\ OneAnswer
CtxInv  == NoneOlder /\ BufSound /\ BufAhead
DoneInv == DoneSound /\ DoneAhead /\ DoneOnce
ReqInv  == LinkInv /\ RequestSound /\ WireInv /\ CtxInv /\ DoneInv

LEMMA OnlyPeer ==
  ASSUME Compliant
  PROVE  Peers = {P} /\ P \in Peers
  BY Zenon DEF Compliant, P

\* The invariant with everything it is made of.
LEMMA ReqParts ==
  ASSUME ReqInv
  PROVE  /\ LinkInv /\ HeadInv /\ LinkType /\ RequestSound
         /\ QueueSound /\ QueueOrder /\ PeerSound /\ PeerAhead /\ FirstPending /\ OneAnswer
         /\ NoneOlder /\ BufSound /\ BufAhead /\ DoneSound /\ DoneAhead /\ DoneOnce
         /\ Len(requests) \in Nat /\ Len(rxq) \in Nat /\ Len(delivered) \in Nat
         /\ peer[P].pc \in {"idle", "waitFc", "sending"} \/ P \notin Peers
  BY DEF ReqInv, WireInv, CtxInv, DoneInv, LinkInv, HeadInv, LinkType, PeerStates

\* A chunk that is appended to the requests known leaves the others what they were.
LEMMA MoreRequests ==
  ASSUME LinkType, NEW q \in [src : Peers, len : Nat], requests' = Append(requests, q)
  PROVE  /\ Len(requests') = Len(requests) + 1 /\ Len(requests) \in Nat
         /\ \A k \in 1..Len(requests) : requests'[k] = requests[k]
         /\ requests'[Len(requests) + 1] = q
         /\ \A f : FrameSound(f, requests) => FrameSound(f, requests')
  <1>1. /\ Len(requests') = Len(requests) + 1 /\ Len(requests) \in Nat
        /\ \A k \in 1..Len(requests) : requests'[k] = requests[k]
        /\ requests'[Len(requests) + 1] = q
    BY Pushed DEF LinkType
  <1>2. ASSUME NEW f, FrameSound(f, requests)  PROVE FrameSound(f, requests')
    <2>1. CASE f.chunk.id = 0
      BY <1>2, <2>1 DEF FrameSound
    <2>2. CASE f.chunk.id # 0
      <3>1. f.chunk.id \in 1..Len(requests)
        BY <1>2, <2>2 DEF FrameSound
      <3>2. requests'[f.chunk.id] = requests[f.chunk.id] /\ f.chunk.id \in 1..Len(requests')
        BY <1>1, <3>1
      <3>. QED  BY <1>2, <2>2, <3>2 DEF FrameSound
    <2>. QED  BY <2>1, <2>2
  <1>. QED  BY <1>1, <1>2

\* The history stands while nothing is executed.
LEMMA DoneKept ==
  ASSUME DoneSound, DoneOnce, UNCHANGED <<delivered, requests>>
  PROVE  DoneSound' /\ DoneOnce'
  <1>1. delivered' = delivered /\ requests' = requests
    OBVIOUS
  <1>2. \A id : WholeRequest(id)' = WholeRequest(id)
    BY <1>1 DEF WholeRequest
  <1>4. DoneSound'
    <2>1. ASSUME NEW i \in 1..Len(delivered')  PROVE Whole(delivered[i])'
      <3>1. Whole(delivered[i])
        BY <1>1, <2>1 DEF DoneSound
      <3>. QED  BY <1>1, <1>2, <3>1 DEF Whole, Clean
    <2>. QED  BY <2>1, Zenon DEF DoneSound
  <1>5. DoneOnce'
    BY <1>1 DEF DoneOnce, Clean
  <1>. QED  BY <1>4, <1>5

\* So does a reception.
LEMMA BufKept ==
  ASSUME BufSound, requests' = requests,
         Receiving' => Receiving /\ ctx'.buf = ctx.buf /\ ctx'.len = ctx.len /\ ctx'.rcvd = ctx.rcvd
  PROVE  BufSound'
  <1>. SUFFICES ASSUME Receiving'  PROVE BufSound'
    BY DEF BufSound
  <1>1. Receiving /\ ctx'.buf = ctx.buf /\ ctx'.len = ctx.len /\ ctx'.rcvd = ctx.rcvd
    OBVIOUS
  <1>2. Reassembles(ctx.buf, ctx.buf[1].id, ctx.len)'
          <=> Reassembles(ctx.buf, ctx.buf[1].id, ctx.len)
    BY <1>1 DEF Reassembles
  <1>. QED  BY <1>1, <1>2 DEF BufSound

LEMMA ChunkFields ==
  ASSUME NEW p, NEW id, NEW i
  PROVE  Chunk(p, id, i).src = p /\ Chunk(p, id, i).id = id /\ Chunk(p, id, i).idx = i
  BY DEF Chunk

\* What is known of the chunks of a reception.
LEMMA BufFacts ==
  ASSUME ReqInv, Receiving
  PROVE  LET n == Len(ctx.buf)
             last == ctx.buf[n]
         IN  /\ n \in Nat \ {0} /\ ctx.buf \in Seq(Chunks) /\ ctx.buf[1].idx = 0
             /\ ctx.buf[1].id \in 1..Len(requests) /\ ctx.len = requests[ctx.buf[1].id].len
             /\ ctx.len > SfMax /\ ctx.len \in Nat
             /\ last.id = ctx.buf[1].id /\ last.idx \in Nat /\ last.idx <= CfTotal(ctx.len)
             /\ last.idx >= n - 1 /\ n \in 1..n /\ 1 \in 1..n
  <1>. DEFINE n == Len(ctx.buf)
              id == ctx.buf[1].id
  <1>1. Reassembles(ctx.buf, id, ctx.len) /\ ctx.buf \in Seq(Chunks) /\ RxOK(ctx)
    BY ReqParts DEF BufSound, HeadInv
  <1>2. n \in Nat \ {0} /\ ctx.len \in Nat /\ ctx.buf[1].idx = 0
        /\ id \in 1..Len(requests) /\ ctx.len = requests[id].len /\ ctx.len > SfMax
    BY <1>1 DEF Reassembles, RxOK
  <1>3. n \in 1..n /\ 1 \in 1..n
    BY <1>2
  <1>4. /\ ctx.buf[n] = Chunk(P, id, ctx.buf[n].idx) /\ ctx.buf[n].idx \in 0..CfTotal(ctx.len)
        /\ ctx.buf[n].idx - ctx.buf[1].idx >= n - 1
    <2>1. \A m, k \in 1..n : m <= k => ctx.buf[k].idx - ctx.buf[m].idx >= k - m
      BY <1>1 DEF Reassembles
    <2>2. 1 <= n
      BY <1>2
    <2>3. ctx.buf[n].idx - ctx.buf[1].idx >= n - 1
      BY <1>3, <2>1, <2>2
    <2>. QED  BY <1>1, <1>3, <2>3 DEF Reassembles
  <1>5. ctx.buf[n].id = id
    BY <1>4, ChunkFields
  <1>. QED  BY <1>1, <1>2, <1>3, <1>4, <1>5

\* The peer starts a request.
LEMMA ReqStart ==
  ASSUME Compliant, ReqInv, LinkInv', NEW len \in Lengths, StartRequest(P, len)
  PROVE  ReqInv'
  <1>. DEFINE id == Len(requests) + 1
              f  == [kind |-> IF len <= SfMax THEN "SF" ELSE "FF", src |-> P, len |-> len,
                     seq |-> 0, chunk |-> Chunk(P, id, 0)]
              q  == [src |-> P, len |-> len]
              n  == [pc |-> "waitFc", id |-> id, len |-> len, cf |-> 0]
  <1>p. /\ HeadInv /\ LinkType /\ RequestSound
        /\ QueueSound /\ QueueOrder /\ PeerSound /\ PeerAhead /\ FirstPending /\ OneAnswer
        /\ NoneOlder /\ BufSound /\ BufAhead /\ DoneSound /\ DoneAhead /\ DoneOnce
        /\ Len(requests) \in Nat /\ Len(rxq) \in Nat /\ Len(delivered) \in Nat
    BY ReqParts
  <1>0. Peers = {P} /\ P \in Peers /\ rxq \in Seq(Sendable) /\ peer \in [Peers -> PeerStates]
    BY <1>p, OnlyPeer DEF HeadInv, LinkType
  <1>1. /\ id \in Nat /\ len \in Nat /\ f \in Sendable /\ peer[P].pc = "idle"
        /\ (rxq' = Append(rxq, f) \/ rxq' = rxq)
        /\ requests' = Append(requests, q)
        /\ peer' = IF len <= SfMax THEN peer ELSE [peer EXCEPT ![P] = n]
        /\ UNCHANGED <<fcs, ctx, delivered>>
    BY <1>p, <1>0, StartStep
  <1>2. /\ f.chunk.id = id /\ f.chunk.idx = 0 /\ f.chunk = Chunk(P, id, 0) /\ f.src = P
        /\ f.len = len /\ f.kind = IF len <= SfMax THEN "SF" ELSE "FF"
    BY DEF Chunk
  <1>. HIDE DEF f
  <1>3. /\ Len(requests') = Len(requests) + 1
        /\ \A k \in 1..Len(requests) : requests'[k] = requests[k]
        /\ requests'[id] = q /\ q.len = len /\ q.src = P
        /\ \A g : FrameSound(g, requests) => FrameSound(g, requests')
    BY <1>p, <1>0, <1>1, MoreRequests
  <1>4. /\ len <= SfMax => peer'[P] = peer[P]
        /\ len > SfMax => peer'[P].pc = "waitFc" /\ peer'[P].id = id /\ peer'[P].len = len
                          /\ peer'[P].cf = 0
    BY <1>0, <1>1, Sizes
  <1>. HIDE DEF q, n
  <1>5. \A i \in 1..Len(rxq') : \/ i \in 1..Len(rxq) /\ rxq'[i] = rxq[i]
                                \/ i = Len(rxq) + 1 /\ rxq'[i] = f
    BY <1>0, <1>1, Pushed
  <1>6. FrameSound(f, requests')
    <2>1. 0 \in Nat /\ SfMax \in Nat /\ id \in 1..Len(requests')
      BY <1>p, <1>1, <1>3, Sizes
    <2>. QED  BY <1>1, <1>2, <1>3, <2>1 DEF FrameSound
  <1>7. RequestSound'
    <2>1. len > SfMax => len > FfData
      BY DEF Compliant
    <2>. QED  BY <1>p, <1>1, <1>3, <2>1 DEF RequestSound
  <1>8. QueueSound'
    BY <1>p, <1>3, <1>5, <1>6 DEF QueueSound
  <1>9. \A i \in 1..Len(rxq) : Own(rxq[i]) => rxq[i].chunk.id \in 1..Len(requests)
    BY <1>p DEF QueueSound, FrameSound, Own
  <1>10. QueueOrder'
    <2>. SUFFICES ASSUME NEW i \in 1..Len(rxq'), NEW j \in 1..Len(rxq'), i < j,
                         Own(rxq'[i]), Own(rxq'[j])
                  PROVE  Before(rxq'[i].chunk, rxq'[j].chunk)
      BY DEF QueueOrder
    <2>1. i \in 1..Len(rxq) /\ rxq'[i] = rxq[i]
      BY <1>p, <1>5
    <2>2. CASE j \in 1..Len(rxq) /\ rxq'[j] = rxq[j]
      BY <1>p, <2>1, <2>2 DEF QueueOrder
    <2>3. CASE rxq'[j] = f
      BY <1>p, <1>2, <1>9, <2>1, <2>3 DEF Before
    <2>. QED  BY <1>5, <2>2, <2>3
  <1>11. PeerSound' /\ PeerAhead'
    <2>1. CASE len <= SfMax
      BY <1>1, <1>4, <2>1 DEF PeerSound, PeerAhead
    <2>2. CASE len > SfMax
      <3>1. CfTotal(len) \in Nat \ {0}
        BY <1>1, <2>2, CeilTotal DEF Compliant
      <3>2. PeerSound'
        BY <1>1, <1>3, <1>4, <2>2, <3>1 DEF PeerSound
      <3>3. ASSUME NEW i \in 1..Len(rxq'), rxq'[i].chunk.id = id  PROVE rxq'[i].chunk.idx <= 0
        <4>1. CASE i \in 1..Len(rxq) /\ rxq'[i] = rxq[i]
          BY <1>p, <1>9, <3>3, <4>1 DEF Own
        <4>2. CASE rxq'[i] = f
          BY <1>2, <4>2
        <4>. QED  BY <1>5, <4>1, <4>2
      <3>4. PeerAhead'
        BY <1>4, <2>2, <3>3 DEF PeerAhead
      <3>. QED  BY <3>2, <3>4
    <2>. QED  BY <1>1, <2>1, <2>2, Sizes
  <1>12. \A fc \in fcs : fc.to # P
    BY <1>p, <1>1 DEF OneAnswer
  <1>13. FirstPending' /\ OneAnswer'
    <2>1. \A i \in 1..Len(rxq) : ~(Own(rxq[i]) /\ rxq[i].kind = "FF")
      BY <1>p, <1>1 DEF FirstPending
    <2>2. ASSUME NEW i \in 1..Len(rxq'), rxq'[i].kind = "FF", Own(rxq'[i])
          PROVE  peer'[P].pc = "waitFc" /\ peer'[P].id = rxq'[i].chunk.id
      BY <1>1, <1>2, <1>4, <1>5, <2>1, <2>2, Sizes
    <2>. QED  BY <1>1, <1>12, <2>2 DEF FirstPending, OneAnswer
  <1>14. NoneOlder'
    <2>1. peer'[P].pc # "sending"
      BY <1>1, <1>4, Sizes
    <2>2. \A i \in 1..Len(rxq') : rxq'[i].kind = "CF" => i \in 1..Len(rxq) /\ rxq'[i] = rxq[i]
      BY <1>2, <1>5
    <2>. QED  BY <1>p, <1>1, <1>12, <2>1, <2>2 DEF NoneOlder, Receiving
  <1>15. BufSound'
    <2>. SUFFICES ASSUME Receiving'  PROVE BufSound'
      BY DEF BufSound
    <2>. DEFINE k == ctx.buf[1].id
    <2>1. Receiving /\ ctx' = ctx
      BY <1>1 DEF Receiving
    <2>2. Reassembles(ctx.buf, k, ctx.len)
      BY <1>p, <2>1 DEF BufSound
    <2>3. k \in 1..Len(requests) /\ ctx.len = requests[k].len
      BY <2>2 DEF Reassembles
    <2>4. k \in 1..Len(requests') /\ ctx.len = requests'[k].len
      BY <1>p, <1>3, <2>3
    <2>. HIDE DEF k
    <2>5. Reassembles(ctx.buf, k, ctx.len)'
      BY <2>1, <2>2, <2>4 DEF Reassembles, k
    <2>. QED  BY <1>p, <2>1, <2>5 DEF BufSound, k
  <1>16. BufAhead'
    <2>. SUFFICES ASSUME Receiving, Receiving'  PROVE BufAhead'
      BY <1>1 DEF BufAhead, Receiving
    <2>. DEFINE last == ctx.buf[Len(ctx.buf)]
    <2>1. last.id \in 1..Len(requests)
      BY BufFacts
    <2>2. \A i \in 1..Len(rxq') : Own(rxq'[i]) => Before(last, rxq'[i].chunk)
      <3>1. \A i \in 1..Len(rxq) : Own(rxq[i]) => Before(last, rxq[i].chunk)
        BY <1>p DEF BufAhead
      <3>. HIDE DEF last
      <3>2. Before(last, f.chunk)
        BY <1>p, <1>2, <2>1 DEF Before
      <3>. QED  BY <1>5, <3>1, <3>2
    <2>3. peer'[P].pc # "idle" => peer'[P].id = id /\ id # last.id
      BY <1>p, <1>1, <1>4, <2>1, Sizes
    <2>. HIDE DEF last
    <2>4. ctx'.buf[Len(ctx'.buf)] = last
      BY <1>1 DEF last
    <2>. QED  BY <2>2, <2>3, <2>4 DEF BufAhead
  <1>17. DoneSound' /\ DoneOnce'
    <2>1. ASSUME NEW i \in 1..Len(delivered)  PROVE Whole(delivered[i])'
      <3>1. Whole(delivered[i])
        BY <1>p DEF DoneSound
      <3>. DEFINE k == delivered[i].buf[1].id
      <3>2. CASE Clean(delivered[i].buf)
        <4>1. k \in 1..Len(requests) /\ delivered[i].buf = WholeRequest(k)
              /\ delivered[i].len = requests[k].len
          BY <3>1, <3>2 DEF Whole
        <4>2. requests'[k] = requests[k] /\ k \in 1..Len(requests')
          BY <1>p, <1>3, <4>1
        <4>3. WholeRequest(k)' = WholeRequest(k)
          BY <1>1, <4>2 DEF WholeRequest
        <4>. QED  BY <1>1, <4>1, <4>2, <4>3 DEF Whole
      <3>3. CASE ~Clean(delivered[i].buf)
        BY <1>1, <3>3 DEF Whole
      <3>. QED  BY <3>2, <3>3
    <2>. QED  BY <1>p, <1>1, <2>1 DEF DoneSound, DoneOnce
  <1>18. DoneAhead'
    <2>. SUFFICES ASSUME NEW i \in 1..Len(delivered), Clean(delivered[i].buf)
                  PROVE  /\ \A k \in 1..Len(rxq') : Own(rxq'[k]) /\ rxq'[k].kind # "CF" =>
                              rxq'[k].chunk.id > delivered[i].buf[1].id
                         /\ Receiving' => ctx'.buf[1].id > delivered[i].buf[1].id
      BY <1>1 DEF DoneAhead
    <2>1. delivered[i].buf[1].id \in 1..Len(requests)
      BY <1>p DEF DoneSound, Whole
    <2>2. /\ \A k \in 1..Len(rxq) : Own(rxq[k]) /\ rxq[k].kind # "CF" =>
                rxq[k].chunk.id > delivered[i].buf[1].id
          /\ Receiving => ctx.buf[1].id > delivered[i].buf[1].id
      BY <1>p DEF DoneAhead
    <2>3. id > delivered[i].buf[1].id
      BY <1>p, <2>1
    <2>. QED  BY <1>1, <1>2, <1>5, <2>2, <2>3 DEF Receiving
  <1>. QED
    BY <1>7, <1>8, <1>10, <1>11, <1>13, <1>14, <1>15, <1>16, <1>17, <1>18
    DEF ReqInv, WireInv, CtxInv, DoneInv


\* What does not touch the context, the history or the requests leaves this of it.
LEMMA Kept ==
  ASSUME ReqInv, UNCHANGED <<ctx, delivered, requests>>
  PROVE  /\ RequestSound' /\ BufSound' /\ DoneSound' /\ DoneOnce'
         /\ Receiving' <=> Receiving
         /\ \A f : FrameSound(f, requests)' <=> FrameSound(f, requests)
  <1>1. Receiving' <=> Receiving
    BY DEF Receiving
  <1>2. RequestSound' /\ BufSound'
    <2>1. RequestSound'
      BY ReqParts DEF RequestSound
    <2>. QED  BY <1>1, <2>1, ReqParts, BufKept
  <1>3. DoneSound' /\ DoneOnce'
    BY ReqParts, DoneKept
  <1>. QED  BY <1>1, <1>2, <1>3 DEF FrameSound

\* The peer sends its next Consecutive Frame.
LEMMA ReqSend ==
  ASSUME Compliant, ReqInv, SendCf(P)
  PROVE  WireInv' /\ CtxInv' /\ DoneInv' /\ RequestSound'
  <1>. DEFINE id == peer[P].id
              i  == peer[P].cf + 1
              f  == [kind |-> "CF", src |-> P, len |-> 0, seq |-> i % SeqMod,
                     chunk |-> Chunk(P, id, i)]
              n  == [peer[P] EXCEPT !.cf = i]
  <1>p. /\ HeadInv /\ LinkType /\ RequestSound
        /\ QueueSound /\ QueueOrder /\ PeerSound /\ PeerAhead /\ FirstPending /\ OneAnswer
        /\ NoneOlder /\ BufSound /\ BufAhead /\ DoneSound /\ DoneAhead /\ DoneOnce
        /\ Len(requests) \in Nat /\ Len(rxq) \in Nat /\ Len(delivered) \in Nat
    BY ReqParts
  <1>0. /\ P \in Peers /\ rxq \in Seq(Sendable) /\ peer \in [Peers -> PeerStates]
        /\ peer[P] \in PeerStates
    BY <1>p, OnlyPeer DEF HeadInv, LinkType
  <1>1. /\ f \in Sendable /\ i \in Nat /\ peer[P].pc = "sending"
        /\ (rxq' = Append(rxq, f) \/ rxq' = rxq)
        /\ peer' = [peer EXCEPT ![P] = IF i = CfTotal(peer[P].len) THEN NoPeer ELSE n]
        /\ UNCHANGED <<fcs, ctx, delivered, requests>>
    BY <1>p, <1>0, SendStep
  <1>2. f.chunk = Chunk(P, id, i) /\ f.src = P /\ f.kind = "CF"
        /\ f.chunk.id = id /\ f.chunk.idx = i
    BY ChunkFields
  <1>. HIDE DEF f
  <1>3. /\ id = Len(requests) /\ id > 0 /\ peer[P].len = requests[id].len
        /\ peer[P].len > SfMax /\ peer[P].cf < CfTotal(peer[P].len)
        /\ peer[P].cf \in Nat /\ peer[P].len \in Nat
    BY <1>p, <1>0, <1>1 DEF PeerSound, PeerStates
  <1>4. CfTotal(peer[P].len) \in Nat \ {0}
    BY <1>p, <1>3, CeilTotal DEF RequestSound
  <1>5. id \in 1..Len(requests) /\ i \in 1..CfTotal(peer[P].len)
    BY <1>p, <1>1, <1>3, <1>4
  <1>6. \/ peer'[P].pc = "idle"
        \/ /\ peer'[P].pc = "sending" /\ peer'[P].id = id /\ peer'[P].cf = i
           /\ peer'[P].len = peer[P].len /\ i < CfTotal(peer[P].len)
    <2>1. CASE i = CfTotal(peer[P].len)
      BY <1>0, <1>1, <2>1 DEF NoPeer
    <2>2. CASE i # CfTotal(peer[P].len)
      <3>1. n.pc = "sending" /\ n.id = id /\ n.cf = i /\ n.len = peer[P].len
        BY <1>0, <1>1 DEF PeerStates
      <3>. HIDE DEF n, i
      <3>2. peer'[P] = n
        BY <1>0, <1>1, <2>2
      <3>. QED  BY <1>4, <1>5, <2>2, <3>1, <3>2
    <2>. QED  BY <2>1, <2>2
  <1>7. \A k \in 1..Len(rxq') : \/ k \in 1..Len(rxq) /\ rxq'[k] = rxq[k]
                                \/ k = Len(rxq) + 1 /\ rxq'[k] = f
    BY <1>0, <1>1, Pushed
  <1>. HIDE DEF n
  <1>8. \A k \in 1..Len(rxq) : Own(rxq[k]) =>
          /\ rxq[k].chunk.id \in 1..id /\ rxq[k].chunk.idx \in Nat
          /\ rxq[k].chunk.id = id => rxq[k].chunk.idx < i
    <2>1. \A k \in 1..Len(rxq) : Own(rxq[k]) =>
            rxq[k].chunk.id \in 1..id /\ rxq[k].chunk.idx \in Nat
      BY <1>p, <1>3 DEF QueueSound, FrameSound, Own
    <2>2. \A k \in 1..Len(rxq) : rxq[k].chunk.id = id => rxq[k].chunk.idx <= peer[P].cf
      BY <1>p, <1>1 DEF PeerAhead
    <2>. QED  BY <1>3, <2>1, <2>2
  <1>. HIDE DEF id, i
  <1>9. FrameSound(f, requests)
    BY <1>2, <1>3, <1>5, <1>1, Sizes DEF FrameSound
  <1>10. QueueSound'
    BY <1>p, <1>1, <1>7, <1>9 DEF QueueSound
  <1>11. QueueOrder'
    <2>. SUFFICES ASSUME NEW k \in 1..Len(rxq'), NEW j \in 1..Len(rxq'), k < j,
                         Own(rxq'[k]), Own(rxq'[j])
                  PROVE  Before(rxq'[k].chunk, rxq'[j].chunk)
      BY DEF QueueOrder
    <2>1. k \in 1..Len(rxq) /\ rxq'[k] = rxq[k]
      BY <1>p, <1>7
    <2>2. CASE j \in 1..Len(rxq) /\ rxq'[j] = rxq[j]
      BY <1>p, <2>1, <2>2 DEF QueueOrder
    <2>3. CASE rxq'[j] = f
      <3>. DEFINE c == rxq[k].chunk
      <3>1. c.id \in 1..id /\ (c.id = id => c.idx < i)
        BY <1>8, <2>1
      <3>2. rxq'[j].chunk.id = id /\ rxq'[j].chunk.idx = i
        BY <1>2, <2>3
      <3>. HIDE DEF c
      <3>3. Before(c, rxq'[j].chunk)
        BY <1>p, <1>3, <3>1, <3>2 DEF Before
      <3>. QED  BY <2>1, <3>3 DEF c
    <2>. QED  BY <1>7, <2>2, <2>3
  <1>12. PeerSound'
    BY <1>1, <1>3, <1>6 DEF PeerSound, id
  <1>13. PeerAhead'
    <2>1. ASSUME NEW k \in 1..Len(rxq'), rxq'[k].chunk.id = id  PROVE rxq'[k].chunk.idx <= i
      <3>1. CASE k \in 1..Len(rxq) /\ rxq'[k] = rxq[k]
        <4>1. Own(rxq[k])
          BY <1>3, <2>1, <3>1 DEF Own
        <4>. QED  BY <1>1, <1>8, <2>1, <3>1, <4>1
      <3>2. CASE rxq'[k] = f
        BY <1>1, <1>2, <3>2
      <3>. QED  BY <1>7, <3>1, <3>2
    <2>. QED  BY <1>6, <2>1 DEF PeerAhead
  <1>14. FirstPending' /\ OneAnswer'
    <2>1. \A fc \in fcs : fc.to # P
      BY <1>p, <1>1 DEF OneAnswer
    <2>2. \A k \in 1..Len(rxq) : ~(Own(rxq[k]) /\ rxq[k].kind = "FF")
      BY <1>p, <1>1 DEF FirstPending
    <2>3. \A k \in 1..Len(rxq') : ~(Own(rxq'[k]) /\ rxq'[k].kind = "FF")
      BY <1>2, <1>7, <2>2
    <2>. QED  BY <1>1, <2>1, <2>3 DEF FirstPending, OneAnswer
  <1>15. RequestSound' /\ BufSound' /\ DoneSound' /\ DoneOnce' /\ (Receiving' <=> Receiving)
    BY <1>1, Kept
  <1>16. ASSUME Receiving
         PROVE  /\ ctx.buf[1].id = id
                /\ \A k \in 1..Len(rxq') : Own(rxq'[k]) => rxq'[k].chunk.id <= id
    <2>1. ctx.buf[1].id >= id /\ ctx.buf[1].id \in 1..Len(requests)
      BY <1>p, <1>1, <1>16, BufFacts DEF NoneOlder, id
    <2>2. ctx.buf[1].id = id
      BY <1>p, <1>3, <2>1 DEF id
    <2>3. id <= id
      BY <1>p, <1>3 DEF id
    <2>4. \A k \in 1..Len(rxq) : Own(rxq[k]) => rxq[k].chunk.id <= id
      BY <1>p, <1>3, <1>8 DEF id
    <2>. QED  BY <1>2, <1>7, <2>2, <2>3, <2>4
  <1>17. NoneOlder'
    <2>. SUFFICES ASSUME Receiving
                  PROVE  /\ peer'[P].pc = "sending" \/ (\E fc \in fcs : fc.to = P) =>
                              ctx.buf[1].id >= peer'[P].id
                         /\ \A k \in 1..Len(rxq') :
                              Own(rxq'[k]) => ctx.buf[1].id >= rxq'[k].chunk.id
      BY <1>1, <1>15 DEF NoneOlder
    <2>1. \A fc \in fcs : fc.to # P
      BY <1>p, <1>1 DEF OneAnswer
    <2>2. id \in Nat /\ \A k \in 1..Len(rxq') : Own(rxq'[k]) => rxq'[k].chunk.id \in Nat
      BY <1>2, <1>3, <1>7, <1>8, <1>p
    <2>. QED  BY <1>6, <1>16, <2>1, <2>2
  <1>18. BufAhead'
    <2>. SUFFICES ASSUME Receiving  PROVE BufAhead'
      BY <1>15 DEF BufAhead
    <2>. DEFINE last == ctx.buf[Len(ctx.buf)]
    <2>1. last.id = id /\ last.idx \in Nat
      BY <1>16, BufFacts
    <2>2. /\ \A k \in 1..Len(rxq) : Own(rxq[k]) => Before(last, rxq[k].chunk)
          /\ peer[P].id = last.id => last.idx <= peer[P].cf
      BY <1>p, <1>1 DEF BufAhead
    <2>3. ctx'.buf[Len(ctx'.buf)] = last
      BY <1>1
    <2>. HIDE DEF last
    <2>4. last.idx < i
      BY <1>3, <2>1, <2>2 DEF id, i
    <2>5. Before(last, f.chunk)
      BY <1>2, <2>1, <2>4 DEF Before
    <2>6. \A k \in 1..Len(rxq') : Own(rxq'[k]) => Before(last, rxq'[k].chunk)
      BY <1>7, <2>2, <2>5
    <2>7. peer'[P].pc # "idle" => last.idx <= peer'[P].cf
      BY <1>1, <1>6, <2>1, <2>4
    <2>. QED  BY <2>3, <2>6, <2>7 DEF BufAhead
  <1>19. DoneAhead'
    <2>1. \A k \in 1..Len(rxq') : rxq'[k].kind # "CF" =>
            k \in 1..Len(rxq) /\ rxq'[k] = rxq[k]
      BY <1>2, <1>7
    <2>. QED  BY <1>p, <1>1, <1>15, <2>1 DEF DoneAhead
  <1>. QED
    BY <1>10, <1>11, <1>12, <1>13, <1>14, <1>15, <1>17, <1>18, <1>19
    DEF WireInv, CtxInv, DoneInv

\* Flow Controls leave the bus, and the peer goes on or gives up when no First Frame of
\* its is left unanswered.
LEMMA ReqAnswered ==
  ASSUME ReqInv, UNCHANGED <<rxq, ctx, delivered, requests>>, fcs' \subseteq fcs,
         \/ peer' = peer
         \/ /\ \A fc \in fcs' : fc.to # P
            /\ \A k \in 1..Len(rxq) : ~(Own(rxq[k]) /\ rxq[k].kind = "FF")
            /\ \/ peer'[P].pc = "idle"
               \/ /\ peer'[P].pc = "sending" /\ peer[P].pc = "waitFc"
                  /\ peer'[P].id = peer[P].id /\ peer'[P].len = peer[P].len
                  /\ peer'[P].cf = peer[P].cf /\ \E fc \in fcs : fc.to = P
  PROVE  WireInv' /\ CtxInv' /\ DoneInv' /\ RequestSound'
  <1>p. /\ QueueSound /\ QueueOrder /\ PeerSound /\ PeerAhead /\ FirstPending /\ OneAnswer
        /\ NoneOlder /\ BufSound /\ BufAhead /\ DoneSound /\ DoneAhead /\ DoneOnce
    BY ReqParts
  <1>1. /\ RequestSound' /\ BufSound' /\ DoneSound' /\ DoneOnce' /\ (Receiving' <=> Receiving)
        /\ QueueSound' /\ QueueOrder' /\ DoneAhead'
    <2>1. RequestSound' /\ BufSound' /\ DoneSound' /\ DoneOnce' /\ (Receiving' <=> Receiving)
      BY Kept
    <2>. QED  BY <1>p, <2>1 DEF QueueSound, QueueOrder, DoneAhead, FrameSound
  <1>2. PeerSound' /\ PeerAhead' /\ FirstPending' /\ OneAnswer' /\ NoneOlder' /\ BufAhead'
    <2>1. CASE peer' = peer
      <3>1. PeerSound' /\ PeerAhead' /\ BufAhead'
        BY <1>p, <1>1, <2>1 DEF PeerSound, PeerAhead, BufAhead
      <3>2. FirstPending' /\ OneAnswer' /\ NoneOlder'
        BY <1>p, <1>1, <2>1 DEF FirstPending, OneAnswer, NoneOlder
      <3>. QED  BY <3>1, <3>2
    <2>2. CASE /\ \A fc \in fcs' : fc.to # P
               /\ \A k \in 1..Len(rxq) : ~(Own(rxq[k]) /\ rxq[k].kind = "FF")
               /\ peer'[P].pc = "idle"
      <3>1. PeerSound' /\ PeerAhead' /\ BufAhead'
        BY <1>p, <1>1, <2>2 DEF PeerSound, PeerAhead, BufAhead
      <3>2. FirstPending' /\ OneAnswer' /\ NoneOlder'
        BY <1>p, <1>1, <2>2 DEF FirstPending, OneAnswer, NoneOlder
      <3>. QED  BY <3>1, <3>2
    <2>3. CASE /\ \A fc \in fcs' : fc.to # P
               /\ \A k \in 1..Len(rxq) : ~(Own(rxq[k]) /\ rxq[k].kind = "FF")
               /\ peer'[P].pc = "sending" /\ peer[P].pc = "waitFc"
               /\ peer'[P].id = peer[P].id /\ peer'[P].len = peer[P].len
               /\ peer'[P].cf = peer[P].cf /\ \E fc \in fcs : fc.to = P
      <3>1. PeerSound' /\ PeerAhead' /\ BufAhead'
        BY <1>p, <1>1, <2>3 DEF PeerSound, PeerAhead, BufAhead
      <3>2. FirstPending' /\ OneAnswer' /\ NoneOlder'
        BY <1>p, <1>1, <2>3 DEF FirstPending, OneAnswer, NoneOlder
      <3>. QED  BY <3>1, <3>2
    <2>. QED  BY <2>1, <2>2, <2>3
  <1>. QED  BY <1>1, <1>2 DEF WireInv, CtxInv, DoneInv

LEMMA ReqFc ==
  ASSUME Compliant, ReqInv,
         \/ \E fc \in fcs : ReceiveFc(P, fc) \/ LoseFc(fc)
         \/ FcTimeout(P)
  PROVE  WireInv' /\ CtxInv' /\ DoneInv' /\ RequestSound'
  <1>p. /\ HeadInv /\ LinkType /\ QueueSound /\ FirstPending /\ OneAnswer /\ Len(rxq) \in Nat
    BY ReqParts
  <1>0. /\ P \in Peers /\ peer \in [Peers -> PeerStates] /\ peer[P] \in PeerStates
    BY <1>p, OnlyPeer DEF LinkType
  <1>1. ASSUME NEW fc \in fcs, ReceiveFc(P, fc)
        PROVE  WireInv' /\ CtxInv' /\ DoneInv' /\ RequestSound'
    <2>. DEFINE s == [peer[P] EXCEPT !.pc = "sending"]
    <2>1. /\ fc.to = P /\ fcs' = fcs \ {fc} /\ UNCHANGED <<rxq, ctx, delivered, requests>>
          /\ peer[P].pc = "waitFc" /\ \A fd \in fcs' : fd.to # P
      BY <1>p, <1>1 DEF ReceiveFc, OneAnswer
    <2>2. peer' = [peer EXCEPT ![P] = s] \/ peer' = [peer EXCEPT ![P] = NoPeer]
      BY <1>0, <1>1, <2>1 DEF ReceiveFc
    <2>3. /\ s.pc = "sending" /\ s.id = peer[P].id /\ s.len = peer[P].len /\ s.cf = peer[P].cf
          /\ NoPeer.pc = "idle"
      BY <1>0 DEF PeerStates, NoPeer
    <2>. HIDE DEF s
    <2>4. peer'[P] = s \/ peer'[P].pc = "idle"
      BY <1>0, <2>2, <2>3
    <2>5. \A k \in 1..Len(rxq) : ~(Own(rxq[k]) /\ rxq[k].kind = "FF")
      BY <1>p, <2>1 DEF FirstPending
    <2>. QED  BY <2>1, <2>3, <2>4, <2>5, ReqAnswered
  <1>2. ASSUME NEW fc \in fcs, LoseFc(fc)
        PROVE  WireInv' /\ CtxInv' /\ DoneInv' /\ RequestSound'
    BY <1>2, ReqAnswered DEF LoseFc
  <1>3. CASE FcTimeout(P)
    <2>1. /\ UNCHANGED <<rxq, ctx, delivered, requests, fcs>>
          /\ \A fc \in fcs : fc.to # P
          /\ \A k \in 1..Len(rxq) : rxq[k].src # P
          /\ peer'[P].pc = "idle"
      BY <1>0, <1>3 DEF FcTimeout, NoPeer
    <2>2. \A k \in 1..Len(rxq) : ~Own(rxq[k])
      BY <1>p, <2>1 DEF QueueSound, FrameSound, Own
    <2>. QED  BY <2>1, <2>2, ReqAnswered
  <1>. QED  BY <1>1, <1>2, <1>3

\* A frame of another sender, or one that belongs to no request.
LEMMA ReqStray ==
  ASSUME Compliant, ReqInv, NEW f \in Strays, StrayFrame(f)
  PROVE  WireInv' /\ CtxInv' /\ DoneInv' /\ RequestSound'
  <1>p. /\ HeadInv /\ LinkType /\ PeerSound
        /\ QueueSound /\ QueueOrder /\ PeerAhead /\ FirstPending /\ OneAnswer
        /\ NoneOlder /\ BufSound /\ BufAhead /\ DoneSound /\ DoneAhead /\ DoneOnce
        /\ Len(rxq) \in Nat
    BY ReqParts
  <1>1. /\ rxq' = Append(rxq, f) /\ UNCHANGED <<peer, fcs, ctx, delivered, requests>>
        /\ rxq \in Seq(Sendable) /\ f \in Sendable
    BY <1>p DEF StrayFrame, HeadInv, Sendable
  <1>2. f.chunk.id = 0 /\ (f.src = P => f.kind = "FC") /\ ~Own(f)
    BY Inputs, OnlyPeer DEF Compliant, Own
  <1>3. \A k \in 1..Len(rxq') : \/ k \in 1..Len(rxq) /\ rxq'[k] = rxq[k]
                                \/ k = Len(rxq) + 1 /\ rxq'[k] = f
    BY <1>1, Pushed
  <1>4. /\ RequestSound' /\ BufSound' /\ DoneSound' /\ DoneOnce' /\ (Receiving' <=> Receiving)
    BY <1>1, Kept
  <1>5. QueueSound'
    BY <1>p, <1>1, <1>2, <1>3 DEF QueueSound, FrameSound
  <1>6. QueueOrder'
    <2>. SUFFICES ASSUME NEW k \in 1..Len(rxq'), NEW j \in 1..Len(rxq'), k < j,
                         Own(rxq'[k]), Own(rxq'[j])
                  PROVE  Before(rxq'[k].chunk, rxq'[j].chunk)
      BY DEF QueueOrder
    <2>1. k \in 1..Len(rxq) /\ rxq'[k] = rxq[k] /\ j \in 1..Len(rxq) /\ rxq'[j] = rxq[j]
      BY <1>2, <1>3
    <2>. QED  BY <1>p, <2>1 DEF QueueOrder
  <1>7. PeerSound' /\ PeerAhead'
    <2>1. PeerSound'
      BY <1>p, <1>1 DEF PeerSound
    <2>2. ASSUME peer[P].pc # "idle", NEW k \in 1..Len(rxq'), rxq'[k].chunk.id = peer[P].id
          PROVE  rxq'[k].chunk.idx <= peer[P].cf
      <3>1. rxq'[k] # f
        BY <1>p, <1>2, <2>2 DEF PeerSound
      <3>. QED  BY <1>p, <1>3, <2>2, <3>1 DEF PeerAhead
    <2>. QED  BY <1>1, <2>1, <2>2 DEF PeerAhead
  <1>8. FirstPending' /\ OneAnswer' /\ NoneOlder' /\ DoneAhead' /\ BufAhead'
    <2>1. \A k \in 1..Len(rxq') : Own(rxq'[k]) => k \in 1..Len(rxq) /\ rxq'[k] = rxq[k]
      BY <1>2, <1>3
    <2>2. FirstPending' /\ OneAnswer'
      BY <1>p, <1>1, <2>1 DEF FirstPending, OneAnswer
    <2>3. NoneOlder'
      BY <1>p, <1>1, <1>4, <2>1 DEF NoneOlder
    <2>4. DoneAhead'
      BY <1>p, <1>1, <1>4, <2>1 DEF DoneAhead
    <2>5. BufAhead'
      BY <1>p, <1>1, <1>4, <2>1 DEF BufAhead
    <2>. QED  BY <2>2, <2>3, <2>4, <2>5
  <1>. QED  BY <1>4, <1>5, <1>6, <1>7, <1>8 DEF WireInv, CtxInv, DoneInv

\* A step of the head that takes no frame: time passes or a reception is dropped.
LEMMA ReqQuiet ==
  ASSUME ReqInv, UNCHANGED <<peer, fcs, rxq, requests, delivered>>,
         Ignored(ctx, ctx') \/ ctx'.state = "IDLE"
  PROVE  WireInv' /\ CtxInv' /\ DoneInv' /\ RequestSound'
  <1>p. /\ QueueSound /\ QueueOrder /\ PeerSound /\ PeerAhead /\ FirstPending /\ OneAnswer
        /\ NoneOlder /\ BufSound /\ BufAhead /\ DoneSound /\ DoneAhead /\ DoneOnce
        /\ RequestSound
    BY ReqParts
  <1>1. Receiving' => Receiving /\ ctx'.buf = ctx.buf /\ ctx'.len = ctx.len /\ ctx'.rcvd = ctx.rcvd
    BY DEF Receiving, Ignored
  <1>2. RequestSound' /\ QueueSound' /\ QueueOrder' /\ PeerSound' /\ PeerAhead'
    BY <1>p DEF RequestSound, QueueSound, QueueOrder, PeerSound, PeerAhead, FrameSound
  <1>3. FirstPending' /\ OneAnswer' /\ DoneSound' /\ DoneOnce'
    <2>1. DoneSound' /\ DoneOnce'
      BY <1>p, DoneKept
    <2>. QED  BY <1>p, <2>1 DEF FirstPending, OneAnswer
  <1>4. NoneOlder' /\ BufAhead' /\ BufSound' /\ DoneAhead'
    <2>1. NoneOlder'
      BY <1>p, <1>1 DEF NoneOlder
    <2>2. BufAhead'
      BY <1>p, <1>1 DEF BufAhead
    <2>3. BufSound'
      BY <1>p, <1>1, BufKept
    <2>4. DoneAhead'
      BY <1>p, <1>1 DEF DoneAhead
    <2>. QED  BY <2>1, <2>2, <2>3, <2>4
  <1>. QED  BY <1>2, <1>3, <1>4 DEF WireInv, CtxInv, DoneInv

\* The head takes a frame from the queue and answers it.
LEMMA ReqTakes ==
  ASSUME ReqInv, rxq # <<>>, rxq' = Tail(rxq), UNCHANGED <<peer, requests>>, Answers(rxq[1])
  PROVE  /\ WireInv' /\ RequestSound'
         /\ 1 \in 1..Len(rxq)
         /\ \A k \in 1..Len(rxq') : rxq'[k] = rxq[k + 1] /\ k + 1 \in 1..Len(rxq)
         /\ \A k \in 1..Len(rxq') : Own(rxq[1]) /\ Own(rxq'[k]) =>
              Before(rxq[1].chunk, rxq'[k].chunk)
  <1>p. /\ QueueSound /\ QueueOrder /\ PeerSound /\ PeerAhead /\ FirstPending /\ OneAnswer
        /\ RequestSound /\ HeadInv
    BY ReqParts
  <1>. DEFINE f == rxq[1]
  <1>1. /\ 1 \in 1..Len(rxq)
        /\ \A k \in 1..Len(rxq') : rxq'[k] = rxq[k + 1] /\ k + 1 \in 1..Len(rxq) /\ k \in Int
    BY <1>p, Popped DEF HeadInv
  <1>2. RequestSound' /\ QueueSound' /\ PeerSound' /\ PeerAhead'
    BY <1>p, <1>1 DEF RequestSound, QueueSound, FrameSound, PeerSound, PeerAhead
  <1>3. QueueOrder'
    <2>. SUFFICES ASSUME NEW k \in 1..Len(rxq'), NEW j \in 1..Len(rxq'), k < j,
                         Own(rxq'[k]), Own(rxq'[j])
                  PROVE  Before(rxq'[k].chunk, rxq'[j].chunk)
      BY DEF QueueOrder
    <2>1. k + 1 < j + 1
      BY <1>1
    <2>. QED  BY <1>p, <1>1, <2>1 DEF QueueOrder
  <1>4. \A k \in 1..Len(rxq') : Own(f) /\ Own(rxq'[k]) => Before(f.chunk, rxq'[k].chunk)
    <2>1. \A k \in 1..Len(rxq') : 1 < k + 1
      BY <1>1
    <2>. QED  BY <1>p, <1>1, <2>1 DEF QueueOrder
  <1>5. FrameSound(f, requests)
    BY <1>p, <1>1 DEF QueueSound
  <1>. HIDE DEF f
  <1>6. CASE f.kind # "FF"
    <2>1. fcs' = fcs
      BY <1>6 DEF Answers, f
    <2>2. FirstPending' /\ OneAnswer'
      BY <1>p, <1>1, <2>1 DEF FirstPending, OneAnswer
    <2>. QED  BY <1>1, <1>2, <1>3, <1>4, <2>2 DEF WireInv, f
  <1>7. CASE f.kind = "FF"
    <2>. PICK s : fcs' = fcs \cup {[to |-> f.src, status |-> s]}
      BY <1>7 DEF Answers, f
    <2>. DEFINE a == [to |-> f.src, status |-> s]
    <2>1. fcs' = fcs \cup {a} /\ a.to = f.src
      OBVIOUS
    <2>. HIDE DEF a
    <2>2. CASE Own(f)
      <3>1. /\ peer[P].pc = "waitFc" /\ peer[P].id = f.chunk.id
            /\ \A fc \in fcs : fc.to # P
        BY <1>p, <1>1, <1>7, <2>2 DEF FirstPending, f
      <3>2. f.chunk.idx = 0 /\ f.chunk.id \in Nat
        BY <1>5, <1>7, <2>2, ReqParts DEF FrameSound, Own
      <3>3. ASSUME NEW k \in 1..Len(rxq'), Own(rxq'[k]), rxq'[k].kind = "FF"  PROVE FALSE
        <4>. DEFINE g == rxq'[k]
        <4>1. peer[P].id = g.chunk.id /\ g.chunk.idx = 0
          BY <1>p, <1>1, <3>3 DEF FirstPending, QueueSound, FrameSound, Own
        <4>2. Before(f.chunk, g.chunk)
          BY <1>4, <2>2, <3>3
        <4>. HIDE DEF g
        <4>. QED  BY <3>1, <3>2, <4>1, <4>2 DEF Before
      <3>4. FirstPending' /\ OneAnswer'
        BY <2>1, <3>1, <3>3 DEF FirstPending, OneAnswer
      <3>. QED  BY <1>1, <1>2, <1>3, <1>4, <3>4 DEF WireInv, f
    <2>3. CASE ~Own(f)
      <3>1. a.to # P
        BY <1>5, <1>7, <2>1, <2>3 DEF FrameSound, Own
      <3>2. FirstPending' /\ OneAnswer'
        BY <1>p, <1>1, <2>1, <3>1 DEF FirstPending, OneAnswer
      <3>. QED  BY <1>1, <1>2, <1>3, <1>4, <3>2 DEF WireInv, f
    <2>. QED  BY <2>2, <2>3
  <1>. QED  BY <1>6, <1>7

\* A Consecutive Frame that joins a clean reception is a later one of its request.
LEMMA NextChunk ==
  ASSUME Compliant, ReqInv, NEW f, f = rxq[1], 1 \in 1..Len(rxq), f.kind = "CF",
         ctx.state = "RECEIVING", Clean(Append(ctx.buf, f.chunk))
  PROVE  LET b  == Append(ctx.buf, f.chunk)
             n  == Len(ctx.buf)
             id == ctx.buf[1].id
         IN  /\ Receiving /\ Own(f) /\ f.chunk.id = id /\ Len(b) = n + 1 /\ b[1] = ctx.buf[1]
             /\ b[n + 1] = f.chunk /\ Reassembles(b, id, ctx.len) /\ b \in Seq(Chunks)
             /\ n \in Nat \ {0} /\ f.chunk.idx >= n /\ f.chunk.idx \in 1..CfTotal(ctx.len)
  <1>. DEFINE b  == Append(ctx.buf, f.chunk)
              n  == Len(ctx.buf)
              id == ctx.buf[1].id
              x  == f.chunk.idx
  <1>p. /\ HeadInv /\ QueueSound /\ NoneOlder /\ BufSound /\ BufAhead
        /\ ctx.buf \in Seq(Chunks) /\ rxq \in Seq(Sendable) /\ f \in Sendable
    <2>1. /\ HeadInv /\ QueueSound /\ NoneOlder /\ BufSound /\ BufAhead
          /\ ctx.buf \in Seq(Chunks) /\ rxq \in Seq(Sendable)
      BY ReqParts DEF HeadInv
    <2>. HIDE DEF Sendable
    <2>. QED  BY <2>1
  <1>1. /\ b \in Seq(Chunks) /\ n \in Nat /\ Len(b) = n + 1 /\ b[n + 1] = f.chunk
        /\ \A m \in 1..n : b[m] = ctx.buf[m]
    BY <1>p, SendableFacts, Pushed
  <1>2. Receiving /\ Own(f)
    <2>1. \A m \in 1..Len(b) : b[m].id # 0
      BY <1>1 DEF Clean
    <2>2. n + 1 \in 1..Len(b) /\ \A m \in 1..n : m \in 1..Len(b)
      BY <1>1
    <2>3. \A m \in DOMAIN ctx.buf : ctx.buf[m].id # 0
      BY <1>1, <1>p, <2>1, <2>2
    <2>. QED  BY <1>1, <2>1, <2>2, <2>3 DEF Receiving, Clean, Own
  <1>3. /\ n \in 1..n /\ 1 \in 1..n /\ id \in 1..Len(requests) /\ ctx.len = requests[id].len
        /\ ctx.len > SfMax /\ ctx.len \in Nat /\ ctx.buf[n].id = id
        /\ ctx.buf[n].idx \in Nat /\ ctx.buf[n].idx >= n - 1 /\ ctx.buf[1].idx = 0
    BY <1>2, BufFacts
  <1>4. /\ f.chunk = Chunk(P, f.chunk.id, x) /\ f.chunk.id \in 1..Len(requests)
        /\ x \in 1..CfTotal(requests[f.chunk.id].len)
    BY <1>p, <1>2 DEF QueueSound, FrameSound, Own
  <1>5. id >= f.chunk.id /\ Before(ctx.buf[n], f.chunk)
    BY <1>p, <1>2 DEF NoneOlder, BufAhead
  <1>6. f.chunk.id = id /\ ctx.buf[n].idx < x
    BY <1>3, <1>4, <1>5, ReqParts DEF Before
  <1>7. x \in 1..CfTotal(ctx.len) /\ x \in Nat /\ x >= n
    <2>1. x \in 1..CfTotal(ctx.len)
      BY <1>3, <1>4, <1>6
    <2>. DEFINE y == ctx.buf[n].idx
    <2>2. y >= n - 1 /\ y \in Nat /\ y < x
      BY <1>3, <1>6
    <2>. HIDE DEF n, x, y
    <2>. QED  BY <1>1, <2>1, <2>2
  <1>8. Reassembles(ctx.buf, id, ctx.len)
    BY <1>p, <1>2 DEF BufSound
  <1>9. Reassembles(b, id, ctx.len)
    <2>1. \A m \in 1..Len(b) : m \in 1..n \/ m = n + 1
      BY <1>1
    <2>2. ASSUME NEW m \in 1..Len(b)
          PROVE  b[m] = Chunk(P, id, b[m].idx) /\ b[m].idx \in 0..CfTotal(ctx.len)
      <3>1. CASE m \in 1..n
        BY <1>1, <1>8, <3>1 DEF Reassembles
      <3>2. CASE m = n + 1
        BY <1>1, <1>4, <1>6, <1>7, <3>2
      <3>. QED  BY <2>1, <3>1, <3>2
    <2>3. ASSUME NEW m \in 1..Len(b), NEW k \in 1..Len(b), m <= k
          PROVE  b[k].idx - b[m].idx >= k - m
      <3>1. CASE m \in 1..n /\ k \in 1..n
        BY <1>1, <1>8, <2>3, <3>1 DEF Reassembles
      <3>2. CASE m \in 1..n /\ k = n + 1
        <4>. DEFINE y == ctx.buf[n].idx
                    z == ctx.buf[m].idx
        <4>1. y - z >= n - m
          <5>1. \A i, j \in 1..n : i <= j => ctx.buf[j].idx - ctx.buf[i].idx >= j - i
            BY <1>8 DEF Reassembles
          <5>2. m <= n
            BY <1>1, <3>2
          <5>. QED  BY <1>3, <3>2, <5>1, <5>2
        <4>2. z \in Nat /\ y \in Nat /\ y < x /\ x \in Nat
          BY <1>3, <1>6, <1>7, <1>8, <3>2 DEF Reassembles
        <4>3. b[k].idx = x /\ b[m].idx = z
          BY <1>1, <3>2
        <4>. HIDE DEF b, x, y, z, n
        <4>. QED  BY <1>1, <3>2, <4>1, <4>2, <4>3
      <3>3. CASE m = n + 1 /\ k = n + 1
        <4>1. b[k].idx = x /\ b[m].idx = x
          BY <1>1, <3>3
        <4>. HIDE DEF b, x
        <4>. QED  BY <1>1, <1>7, <3>3, <4>1
      <3>. QED  BY <1>1, <2>1, <2>3, <3>1, <3>2, <3>3
    <2>. HIDE DEF b
    <2>4. Len(b) > 0 /\ b[1].idx = 0
      BY <1>1, <1>3
    <2>. QED  BY <1>3, <2>2, <2>3, <2>4 DEF Reassembles
  <1>. QED  BY <1>1, <1>2, <1>3, <1>6, <1>7, <1>9

\* The frame at the head of the queue as the context sees it.
Takes(f) ==
  /\ f = rxq[1] /\ rxq # <<>> /\ rxq' = Tail(rxq)
  /\ UNCHANGED <<peer, requests>> /\ Answers(f)

\* A reception that ends without a request, and a frame that is not consumed.
LEMMA ReqDrops ==
  ASSUME ReqInv, NEW f, Takes(f), Ends \/ Leaves(f)
  PROVE  CtxInv' /\ DoneInv'
  <1>p. /\ NoneOlder /\ BufSound /\ BufAhead /\ DoneSound /\ DoneAhead /\ DoneOnce
    BY ReqParts
  <1>0. \A k \in 1..Len(rxq') : rxq'[k] = rxq[k + 1] /\ k + 1 \in 1..Len(rxq)
    BY ReqTakes DEF Takes
  <1>1. /\ Receiving' => /\ Receiving /\ ctx'.buf = ctx.buf /\ ctx'.len = ctx.len
                         /\ ctx'.rcvd = ctx.rcvd /\ fcs' = fcs
        /\ UNCHANGED <<peer, requests, delivered>>
    BY DEF Ends, Leaves, Ignored, Receiving, Consumes, Answers, Takes
  <1>2. NoneOlder'
    BY <1>p, <1>0, <1>1 DEF NoneOlder
  <1>3. BufSound'
    BY <1>p, <1>1, BufKept
  <1>4. BufAhead'
    BY <1>p, <1>0, <1>1 DEF BufAhead
  <1>5. DoneSound' /\ DoneOnce'
    BY <1>p, <1>1, DoneKept
  <1>6. DoneAhead'
    BY <1>p, <1>0, <1>1 DEF DoneAhead
  <1>. QED  BY <1>2, <1>3, <1>4, <1>5, <1>6 DEF CtxInv, DoneInv

\* A request is executed that is whole, newer than those before it and older than
\* whatever may start another.
LEMMA ReqDelivers ==
  ASSUME ReqInv, NEW f, Takes(f), ctx'.state = "IDLE",
         NEW b \in Seq(Chunks), NEW n \in Nat, Delivers(b, n),
         Clean(b) =>
           /\ b[1].id \in 1..Len(requests) /\ b = WholeRequest(b[1].id)
           /\ n = requests[b[1].id].len
           /\ \A i \in 1..Len(delivered) : Clean(delivered[i].buf) =>
                b[1].id > delivered[i].buf[1].id
           /\ \A k \in 1..Len(rxq') : Own(rxq'[k]) /\ rxq'[k].kind # "CF" =>
                rxq'[k].chunk.id > b[1].id
  PROVE  CtxInv' /\ DoneInv'
  <1>. PICK t \in Addresses :
         delivered' = Append(delivered, [buf |-> b, len |-> n, replyTo |-> t])
    BY DEF Delivers
  <1>. DEFINE d == [buf |-> b, len |-> n, replyTo |-> t]
              D == [buf : Seq(Chunks), len : Nat, replyTo : Addresses]
  <1>p. DoneSound /\ DoneAhead /\ DoneOnce /\ delivered \in Seq(D)
    BY ReqParts DEF HeadInv
  <1>0. \A k \in 1..Len(rxq') : rxq'[k] = rxq[k + 1] /\ k + 1 \in 1..Len(rxq)
    BY ReqTakes DEF Takes
  <1>1. d \in D /\ d.buf = b /\ d.len = n
    OBVIOUS
  <1>. HIDE DEF d, D
  <1>2. delivered' = Append(delivered, d)
    BY DEF d
  <1>3. /\ Len(delivered) \in Nat
        /\ \A i \in 1..Len(delivered') : \/ i \in 1..Len(delivered) /\ delivered'[i] = delivered[i]
                                         \/ i = Len(delivered) + 1 /\ delivered'[i] = d
    BY <1>p, <1>1, <1>2, Pushed
  <1>4. ~Receiving' /\ UNCHANGED requests
    BY DEF Receiving, Takes
  <1>5. CtxInv'
    BY <1>4 DEF CtxInv, NoneOlder, BufSound, BufAhead
  <1>7. DoneSound'
    <2>1. Whole(d)
      BY <1>1 DEF Whole
    <2>2. ASSUME NEW i \in 1..Len(delivered')  PROVE Whole(delivered[i])'
      <3>1. Whole(delivered'[i])
        BY <1>p, <1>3, <2>1 DEF DoneSound
      <3>. QED  BY <1>4, <3>1 DEF Whole, WholeRequest
    <2>. QED  BY <2>2 DEF DoneSound
  <1>8. DoneAhead'
    <2>1. ASSUME NEW i \in 1..Len(delivered'), Clean(delivered'[i].buf),
                 NEW k \in 1..Len(rxq'), Own(rxq'[k]), rxq'[k].kind # "CF"
          PROVE  rxq'[k].chunk.id > delivered'[i].buf[1].id
      <3>1. CASE i \in 1..Len(delivered) /\ delivered'[i] = delivered[i]
        BY <1>p, <1>0, <2>1, <3>1 DEF DoneAhead
      <3>2. CASE delivered'[i] = d
        BY <1>1, <2>1, <3>2
      <3>. QED  BY <1>3, <3>1, <3>2
    <2>. QED  BY <1>4, <2>1 DEF DoneAhead
  <1>9. DoneOnce'
    <2>1. ASSUME NEW i \in 1..Len(delivered), Clean(delivered[i].buf), Clean(b)
          PROVE  delivered[i].buf[1].id # b[1].id
      <3>1. /\ delivered[i].buf[1].id \in 1..Len(requests) /\ b[1].id \in 1..Len(requests)
            /\ b[1].id > delivered[i].buf[1].id
        BY <1>p, <2>1 DEF DoneSound, Whole
      <3>. QED  BY <3>1, ReqParts
    <2>2. ASSUME NEW i \in 1..Len(delivered'), NEW j \in 1..Len(delivered'),
                 Clean(delivered'[i].buf), Clean(delivered'[j].buf),
                 delivered'[i].buf[1].id = delivered'[j].buf[1].id
          PROVE  i = j
      <3>1. CASE /\ i \in 1..Len(delivered) /\ delivered'[i] = delivered[i]
                 /\ j \in 1..Len(delivered) /\ delivered'[j] = delivered[j]
        BY <1>p, <2>2, <3>1 DEF DoneOnce
      <3>2. CASE /\ i \in 1..Len(delivered) /\ delivered'[i] = delivered[i]
                 /\ delivered'[j] = d
        BY <1>1, <2>1, <2>2, <3>2
      <3>3. CASE /\ j \in 1..Len(delivered) /\ delivered'[j] = delivered[j]
                 /\ delivered'[i] = d
        BY <1>1, <2>1, <2>2, <3>3
      <3>4. CASE i = Len(delivered) + 1 /\ j = Len(delivered) + 1
        BY <3>4
      <3>. QED  BY <1>3, <3>1, <3>2, <3>3, <3>4
    <2>. QED  BY <2>2 DEF DoneOnce
  <1>. QED  BY <1>5, <1>7, <1>8, <1>9 DEF DoneInv

\* A Single Frame is its whole request.
LEMMA ReqExecutes ==
  ASSUME ReqInv, NEW f, Takes(f), Executes(f)
  PROVE  CtxInv' /\ DoneInv'
  <1>p. QueueSound /\ DoneAhead /\ DoneSound /\ HeadInv /\ RequestSound
        /\ Len(requests) \in Nat
    BY ReqParts
  <1>0. /\ 1 \in 1..Len(rxq) /\ f = rxq[1] /\ rxq \in Seq(Sendable)
        /\ \A k \in 1..Len(rxq') : rxq'[k] = rxq[k + 1] /\ k + 1 \in 1..Len(rxq)
        /\ \A k \in 1..Len(rxq') : Own(f) /\ Own(rxq'[k]) => Before(f.chunk, rxq'[k].chunk)
    BY <1>p, ReqTakes DEF Takes, HeadInv
  <1>. DEFINE b == <<f.chunk>>
              c == f.chunk
  <1>1. f \in Sendable
    <2>. HIDE DEF Sendable
    <2>. QED  BY <1>0
  <1>2. b \in Seq(Chunks) /\ f.len \in Nat /\ b[1] = c /\ DOMAIN b = {1} /\ Len(b) = 1
    BY <1>1, SendableFacts
  <1>3. f.kind = "SF" /\ f.len \in 1..SfMax /\ ctx'.state = "IDLE" /\ Delivers(b, f.len)
    BY DEF Executes
  <1>. HIDE DEF b
  <1>4. ASSUME Clean(b)
        PROVE  /\ c.id \in 1..Len(requests) /\ b = WholeRequest(c.id) /\ f.len = requests[c.id].len
               /\ \A i \in 1..Len(delivered) : Clean(delivered[i].buf) =>
                    c.id > delivered[i].buf[1].id
               /\ \A k \in 1..Len(rxq') : Own(rxq'[k]) /\ rxq'[k].kind # "CF" =>
                    rxq'[k].chunk.id > c.id
    <2>1. Own(f)
      BY <1>2, <1>4 DEF Clean, Own
    <2>2. /\ c = Chunk(P, c.id, 0) /\ c.id \in 1..Len(requests) /\ c.idx = 0
          /\ f.len = requests[c.id].len /\ requests[c.id].len <= SfMax
      BY <1>p, <1>0, <1>3, <2>1 DEF QueueSound, FrameSound, Own
    <2>3. b = WholeRequest(c.id)
      <3>1. requests[c.id].src = P
        BY <1>p, <2>2 DEF RequestSound
      <3>2. WholeRequest(c.id) = [i \in 1..1 |-> Chunk(P, c.id, i - 1)]
        BY <2>2, <3>1 DEF WholeRequest
      <3>3. b = [i \in 1..1 |-> c]
        BY <1>2 DEF b
      <3>4. \A i \in 1..1 : Chunk(P, c.id, i - 1) = Chunk(P, c.id, 0)
        <4>1. \A i \in 1..1 : i - 1 = 0
          OBVIOUS
        <4>. QED  BY <4>1
      <3>. HIDE DEF c
      <3>. QED  BY <2>2, <3>2, <3>3, <3>4
    <2>4. \A i \in 1..Len(delivered) : Clean(delivered[i].buf) => c.id > delivered[i].buf[1].id
      BY <1>p, <1>0, <1>3, <2>1 DEF DoneAhead
    <2>5. ASSUME NEW k \in 1..Len(rxq'), Own(rxq'[k]), rxq'[k].kind # "CF"
          PROVE  rxq'[k].chunk.id > c.id
      <3>. DEFINE g == rxq'[k]
      <3>1. g.chunk.idx = 0 /\ g.chunk.id \in 1..Len(requests)
        BY <1>p, <1>0, <2>5 DEF QueueSound, FrameSound, Own
      <3>2. Before(c, g.chunk)
        BY <1>0, <2>1, <2>5
      <3>. HIDE DEF g, c
      <3>3. g.chunk.id > c.id
        BY <1>p, <2>2, <3>1, <3>2 DEF Before
      <3>. QED  BY <3>3 DEF g
    <2>. QED  BY <2>2, <2>3, <2>4, <2>5
  <1>. QED  BY <1>2, <1>3, <1>4, ReqDelivers

\* A First Frame begins the request its sender waits with.
LEMMA ReqBegins ==
  ASSUME Compliant, ReqInv, NEW f, Takes(f), Begins(f)
  PROVE  CtxInv' /\ DoneInv'
  <1>p. /\ QueueSound /\ PeerSound /\ FirstPending /\ RequestSound
        /\ DoneSound /\ DoneAhead /\ DoneOnce /\ HeadInv /\ Len(requests) \in Nat
    BY ReqParts
  <1>. DEFINE c == f.chunk
  <1>0. /\ 1 \in 1..Len(rxq) /\ f = rxq[1] /\ rxq \in Seq(Sendable)
        /\ \A k \in 1..Len(rxq') : rxq'[k] = rxq[k + 1] /\ k + 1 \in 1..Len(rxq)
        /\ \A k \in 1..Len(rxq') : Own(f) /\ Own(rxq'[k]) => Before(c, rxq'[k].chunk)
    BY <1>p, ReqTakes DEF Takes, HeadInv
  <1>1. /\ f.kind = "FF" /\ ctx'.buf = <<c>> /\ ctx'.len = f.len /\ ctx'.rcvd = FfData
        /\ ctx'.state = "RECEIVING" /\ UNCHANGED <<delivered, peer, requests>>
    BY DEF Begins, Began, Takes
  <1>2. ctx'.buf[1] = c /\ Len(ctx'.buf) = 1 /\ DOMAIN ctx'.buf = {1}
    BY <1>1
  <1>3. DoneSound' /\ DoneOnce'
    BY <1>p, <1>1, DoneKept
  <1>4. CASE ~Receiving'
    <2>1. DoneAhead'
      BY <1>p, <1>0, <1>1, <1>4 DEF DoneAhead
    <2>. QED  BY <1>3, <1>4, <2>1 DEF CtxInv, DoneInv, NoneOlder, BufSound, BufAhead
  <1>5. CASE Receiving'
    <2>1. Own(f)
      BY <1>2, <1>5 DEF Receiving, Clean, Own
    <2>2. /\ c = Chunk(P, c.id, 0) /\ c.id \in 1..Len(requests) /\ c.idx = 0
          /\ f.len = requests[c.id].len /\ f.len > SfMax /\ f.len \in Nat
      <3>1. FrameSound(f, requests)
        BY <1>p, <1>0 DEF QueueSound
      <3>2. /\ c = Chunk(P, c.id, 0) /\ c.id \in 1..Len(requests) /\ c.idx = 0
            /\ f.len = requests[c.id].len /\ ~(requests[c.id].len <= SfMax)
        BY <1>1, <2>1, <3>1 DEF FrameSound, Own
      <3>3. requests[c.id].len \in Nat
        BY <1>p, <3>2 DEF RequestSound
      <3>. HIDE DEF c
      <3>. QED  BY <3>2, <3>3, Sizes
    <2>3. f.len > FfData /\ CfTotal(f.len) \in Nat
      BY <1>p, <2>2, CeilTotal DEF RequestSound
    <2>4. peer[P].id = c.id /\ c.id = Len(requests) /\ peer[P].pc = "waitFc" /\ peer[P].cf = 0
      BY <1>p, <1>0, <1>1, <2>1 DEF FirstPending, PeerSound
    <2>5. \A k \in 1..Len(rxq') : Own(rxq'[k]) =>
            rxq'[k].chunk.id \in 1..Len(requests) /\ rxq'[k].chunk.id <= c.id
      <3>1. \A k \in 1..Len(rxq') : Own(rxq'[k]) => rxq'[k].chunk.id \in 1..Len(requests)
        BY <1>p, <1>0 DEF QueueSound, FrameSound, Own
      <3>. HIDE DEF c
      <3>. QED  BY <1>p, <2>4, <3>1
    <2>. HIDE DEF c
    <2>6. NoneOlder'
      BY <1>p, <1>1, <1>2, <2>2, <2>4, <2>5 DEF NoneOlder
    <2>7. BufSound'
      <3>1. Reassembles(ctx.buf, ctx.buf[1].id, ctx.len)'
        <4>1. ctx'.buf[1].idx = 0 /\ 0 \in 0..CfTotal(ctx'.len)
          BY <1>1, <1>2, <2>2, <2>3
        <4>2. \A m \in 1..1 : m = 1
          OBVIOUS
        <4>3. /\ Len(ctx'.buf) > 0 /\ c.id \in 1..Len(requests') /\ ctx'.len > SfMax
              /\ ctx'.len = requests'[c.id].len
          BY <1>1, <1>2, <2>2
        <4>4. \A m \in 1..Len(ctx'.buf) : ctx'.buf[m] = Chunk(P, c.id, ctx'.buf[m].idx)
                                          /\ ctx'.buf[m].idx \in 0..CfTotal(ctx'.len)
          BY <1>2, <2>2, <4>1, <4>2
        <4>5. \A m, k \in 1..Len(ctx'.buf) : m <= k => ctx'.buf[k].idx - ctx'.buf[m].idx >= k - m
          BY <1>2, <4>1, <4>2
        <4>. QED  BY <1>2, <4>1, <4>3, <4>4, <4>5 DEF Reassembles
      <3>2. ctx'.rcvd = FfData + (Len(ctx'.buf) - 1) * CfData /\ ctx'.rcvd < ctx'.len
        <4>1. (Len(ctx'.buf) - 1) * CfData = 0
          BY <1>2, Sizes
        <4>. QED  BY <1>1, <2>2, <2>3, <4>1, Sizes
      <3>. QED  BY <1>2, <3>1, <3>2 DEF BufSound
    <2>8. BufAhead'
      BY <1>0, <1>1, <1>2, <2>1, <2>2, <2>4 DEF BufAhead, c
    <2>9. DoneAhead'
      <3>1. \A i \in 1..Len(delivered) : Clean(delivered[i].buf) => c.id > delivered[i].buf[1].id
        BY <1>p, <1>0, <1>1, <2>1 DEF DoneAhead, c
      <3>. QED  BY <1>p, <1>0, <1>1, <1>2, <3>1 DEF DoneAhead
    <2>. QED  BY <1>3, <2>6, <2>7, <2>8, <2>9 DEF CtxInv, DoneInv
  <1>. QED  BY <1>4, <1>5

\* A Consecutive Frame joins the reception.
LEMMA ReqGoes ==
  ASSUME Compliant, ReqInv, NEW f, Takes(f), Goes(f)
  PROVE  CtxInv' /\ DoneInv'
  <1>p. /\ QueueSound /\ PeerAhead /\ NoneOlder /\ BufSound
        /\ DoneSound /\ DoneAhead /\ DoneOnce /\ HeadInv /\ Len(requests) \in Nat
    BY ReqParts
  <1>. DEFINE c == f.chunk
              n == Len(ctx.buf)
  <1>0. /\ 1 \in 1..Len(rxq) /\ f = rxq[1]
        /\ \A k \in 1..Len(rxq') : rxq'[k] = rxq[k + 1] /\ k + 1 \in 1..Len(rxq)
        /\ \A k \in 1..Len(rxq') : Own(f) /\ Own(rxq'[k]) => Before(c, rxq'[k].chunk)
    BY ReqTakes DEF Takes
  <1>1. /\ f.kind = "CF" /\ ctx.state = "RECEIVING" /\ ctx'.state = "RECEIVING"
        /\ ctx'.buf = Append(ctx.buf, c) /\ ctx'.len = ctx.len
        /\ ctx'.rcvd = ctx.rcvd + BytesToCopy(ctx) /\ ctx'.rcvd < ctx'.len
        /\ UNCHANGED <<delivered, peer, requests, fcs>>
    BY DEF Goes, Takes, Answers
  <1>3. DoneSound' /\ DoneOnce'
    BY <1>p, <1>1, DoneKept
  <1>4. CASE ~Receiving'
    <2>1. DoneAhead'
      BY <1>p, <1>0, <1>1, <1>4 DEF DoneAhead
    <2>. QED  BY <1>3, <1>4, <2>1 DEF CtxInv, DoneInv, NoneOlder, BufSound, BufAhead
  <1>5. CASE Receiving'
    <2>0. Clean(Append(ctx.buf, c))
      BY <1>1, <1>5 DEF Receiving
    <2>1. /\ Receiving /\ Own(f) /\ c.id = ctx.buf[1].id /\ Len(ctx'.buf) = n + 1
          /\ ctx'.buf[1] = ctx.buf[1] /\ ctx'.buf[n + 1] = c
          /\ Reassembles(ctx'.buf, ctx.buf[1].id, ctx.len) /\ n \in Nat \ {0}
      BY <1>0, <1>1, <2>0, NextChunk
    <2>. HIDE DEF c, n
    <2>2. NoneOlder'
      BY <1>p, <1>0, <1>1, <2>1 DEF NoneOlder
    <2>3. BufSound'
      <3>1. Reassembles(ctx.buf, ctx.buf[1].id, ctx.len)'
        BY <1>1, <2>1 DEF Reassembles
      <3>2. /\ RxOK(ctx) /\ n - 1 \in Nat /\ ctx.rcvd = FfData + (n - 1) * CfData
            /\ ctx.rcvd < ctx.len
        BY <1>p, <2>1 DEF HeadInv, BufSound, n
      <3>3. ctx'.rcvd = FfData + ((n - 1) + 1) * CfData
        BY <1>1, <3>2, NextFrame
      <3>4. (n - 1) + 1 = n /\ Len(ctx'.buf) - 1 = n
        BY <2>1
      <3>. QED  BY <1>1, <3>1, <3>3, <3>4 DEF BufSound
    <2>4. BufAhead'
      <3>1. peer[P].pc # "idle" /\ peer[P].id = c.id => c.idx <= peer[P].cf
        BY <1>p, <1>0 DEF PeerAhead, c
      <3>2. ctx'.buf[Len(ctx'.buf)] = c
        BY <2>1
      <3>. QED  BY <1>0, <1>1, <2>1, <3>1, <3>2 DEF BufAhead
    <2>5. DoneAhead'
      BY <1>p, <1>0, <1>1, <2>1 DEF DoneAhead
    <2>. QED  BY <1>3, <2>2, <2>3, <2>4, <2>5 DEF CtxInv, DoneInv
  <1>. QED  BY <1>4, <1>5

\* The Consecutive Frame that completes a clean reception is the last of its request, and
\* none was left out: as many were counted as the length takes, and the indices only rise.
LEMMA ReqFinishes ==
  ASSUME Compliant, ReqInv, NEW f, Takes(f), Finishes(f)
  PROVE  CtxInv' /\ DoneInv'
  <1>p. /\ QueueSound /\ BufSound /\ DoneAhead /\ RequestSound
        /\ HeadInv /\ Len(requests) \in Nat
    BY ReqParts
  <1>. DEFINE c == f.chunk
              n == Len(ctx.buf)
              b == Append(ctx.buf, c)
              id == ctx.buf[1].id
  <1>0. /\ 1 \in 1..Len(rxq) /\ f = rxq[1] /\ rxq \in Seq(Sendable)
        /\ \A k \in 1..Len(rxq') : rxq'[k] = rxq[k + 1] /\ k + 1 \in 1..Len(rxq)
        /\ \A k \in 1..Len(rxq') : Own(f) /\ Own(rxq'[k]) => Before(c, rxq'[k].chunk)
    BY <1>p, ReqTakes DEF Takes, HeadInv
  <1>1. /\ f.kind = "CF" /\ ctx.state = "RECEIVING" /\ ctx'.state = "IDLE"
        /\ ctx.rcvd + BytesToCopy(ctx) >= ctx.len /\ Delivers(b, ctx.len)
    BY DEF Finishes
  <1>2. b \in Seq(Chunks) /\ ctx.len \in Nat
    <2>1. f \in Sendable
      <3>. HIDE DEF Sendable
      <3>. QED  BY <1>0
    <2>2. c \in Chunks
      BY <2>1, SendableFacts
    <2>. HIDE DEF Chunks, c
    <2>. QED  BY <1>p, <2>2 DEF HeadInv, RxOK
  <1>3. ASSUME Clean(b)
        PROVE  /\ b[1].id \in 1..Len(requests) /\ b = WholeRequest(b[1].id)
               /\ ctx.len = requests[b[1].id].len
               /\ \A i \in 1..Len(delivered) : Clean(delivered[i].buf) =>
                    b[1].id > delivered[i].buf[1].id
               /\ \A k \in 1..Len(rxq') : Own(rxq'[k]) /\ rxq'[k].kind # "CF" =>
                    rxq'[k].chunk.id > b[1].id
    <2>1. /\ Receiving /\ Own(f) /\ c.id = id /\ Len(b) = n + 1 /\ b[1] = ctx.buf[1]
          /\ b[n + 1] = c /\ Reassembles(b, id, ctx.len) /\ n \in Nat \ {0}
          /\ c.idx >= n /\ c.idx \in 1..CfTotal(ctx.len)
      BY <1>0, <1>1, <1>3, NextChunk
    <2>2. CfTotal(ctx.len) = n
      <3>1. RxOK(ctx) /\ n - 1 \in Nat /\ ctx.rcvd = FfData + (n - 1) * CfData
            /\ ctx.rcvd < ctx.len
        BY <1>p, <2>1 DEF HeadInv, BufSound
      <3>2. (n - 1) + 1 = CfTotal(ctx.len)
        BY <1>1, <3>1, NextFrame
      <3>. QED  BY <2>1, <3>2
    <2>3. id \in 1..Len(requests) /\ ctx.len = requests[id].len /\ ctx.len > SfMax
      BY <2>1, BufFacts
    <2>. HIDE DEF b, id, n, c
    <2>4. c.idx = n
      BY <2>1, <2>2
    <2>5. ASSUME NEW m \in 1..(n + 1)  PROVE b[m] = Chunk(P, id, m - 1)
      <3>. DEFINE y == b[m].idx
      <3>1. m \in 1..Len(b) /\ n + 1 \in 1..Len(b) /\ 1 \in 1..Len(b) /\ m <= n + 1 /\ 1 <= m
        BY <2>1
      <3>2. b[m] = Chunk(P, id, y) /\ y \in 0..CfTotal(ctx.len)
            /\ \A i, j \in 1..Len(b) : i <= j => b[j].idx - b[i].idx >= j - i
        BY <2>1, <3>1 DEF Reassembles
      <3>3. b[n + 1].idx - y >= (n + 1) - m /\ y - b[1].idx >= m - 1
        BY <3>1, <3>2
      <3>4. b[1].idx = 0 /\ b[n + 1].idx = n
        BY <2>1, <2>4 DEF Reassembles
      <3>. HIDE DEF y
      <3>5. y = m - 1
        BY <2>1, <2>2, <3>1, <3>2, <3>3, <3>4
      <3>. QED  BY <3>2, <3>5
    <2>6. b = WholeRequest(id)
      <3>1. requests[id].src = P /\ ~(requests[id].len <= SfMax)
        BY <1>p, <1>2, <2>3, Sizes DEF RequestSound
      <3>2. WholeRequest(id) = [i \in 1..(n + 1) |-> Chunk(P, id, i - 1)]
        BY <2>2, <2>3, <3>1 DEF WholeRequest
      <3>3. b = [i \in 1..(n + 1) |-> b[i]]
        BY <1>2, <2>1
      <3>. QED  BY <2>5, <3>2, <3>3
    <2>7. \A i \in 1..Len(delivered) : Clean(delivered[i].buf) => id > delivered[i].buf[1].id
      BY <1>p, <2>1 DEF DoneAhead, id
    <2>8. ASSUME NEW k \in 1..Len(rxq'), Own(rxq'[k]), rxq'[k].kind # "CF"
          PROVE  rxq'[k].chunk.id > id
      <3>. DEFINE g == rxq'[k]
      <3>1. g.chunk.idx = 0 /\ g.chunk.id \in 1..Len(requests)
        BY <1>p, <1>0, <2>8 DEF QueueSound, FrameSound, Own
      <3>2. Before(c, g.chunk)
        BY <1>0, <2>1, <2>8
      <3>. HIDE DEF g
      <3>3. g.chunk.id > id
        BY <1>p, <2>1, <2>3, <2>4, <3>1, <3>2 DEF Before
      <3>. QED  BY <3>3 DEF g
    <2>9. b[1].id = id
      BY <2>1 DEF id
    <2>. QED  BY <2>3, <2>6, <2>7, <2>8, <2>9
  <1>. QED  BY <1>1, <1>2, <1>3, ReqDelivers

LEMMA ReqHead ==
  ASSUME Compliant, ReqInv, HeadFrame
  PROVE  WireInv' /\ CtxInv' /\ DoneInv' /\ RequestSound'
  <1>. DEFINE f == rxq[1]
  <1>1. /\ HeadInv /\ rxq # <<>> /\ rxq' = Tail(rxq) /\ Iterates(Head(rxq))
        /\ Answers(Head(rxq)) /\ UNCHANGED <<peer, requests>>
    BY FrameIteration, ReqParts DEF HeadFrame
  <1>2. Head(rxq) = f
    BY <1>1, Popped DEF HeadInv
  <1>3. Takes(f) /\ Iterates(f)
    BY <1>1, <1>2 DEF Takes
  <1>. HIDE DEF f
  <1>4. WireInv' /\ RequestSound'
    BY <1>3, ReqTakes DEF Takes
  <1>5. CtxInv' /\ DoneInv'
    BY <1>3, ReqDrops, ReqExecutes, ReqBegins, ReqGoes, ReqFinishes DEF Iterates
  <1>. QED  BY <1>4, <1>5

LEMMA ReqInit ==
  ASSUME Compliant, Init
  PROVE  ReqInv
  <1>1. /\ rxq = <<>> /\ fcs = {} /\ delivered = <<>> /\ requests = <<>>
        /\ ctx.state = "IDLE" /\ Len(<<>>) = 0 /\ \A i : i \notin 1..0
    BY DEF Init, ISOTP_Init
  <1>2. peer[P].pc = "idle"
    BY OnlyPeer DEF Init, NoPeer
  <1>3. RequestSound /\ WireInv
    BY <1>1, <1>2
    DEF RequestSound, WireInv, QueueSound, QueueOrder, PeerSound, PeerAhead, FirstPending, OneAnswer
  <1>4. CtxInv /\ DoneInv
    BY <1>1
    DEF CtxInv, NoneOlder, BufSound, BufAhead, Receiving, DoneInv, DoneSound, DoneAhead, DoneOnce
  <1>. QED  BY <1>3, <1>4, LinkInit DEF ReqInv

LEMMA ReqStep ==
  ASSUME Compliant, ReqInv, [Next]_lvars
  PROVE  ReqInv'
  <1>1. LinkInv /\ LinkInv'
    BY LinkStep DEF ReqInv
  <1>2. \A p \in Peers : p = P
    BY OnlyPeer
  <1>3. ASSUME NEW p \in Peers, NEW len \in Lengths, StartRequest(p, len)  PROVE ReqInv'
    BY <1>1, <1>2, <1>3, ReqStart
  <1>4. ASSUME NEW p \in Peers, SendCf(p)  PROVE ReqInv'
    BY <1>1, <1>2, <1>4, ReqSend DEF ReqInv
  <1>5. ASSUME NEW p \in Peers, (\E fc \in fcs : ReceiveFc(p, fc)) \/ FcTimeout(p)  PROVE ReqInv'
    <2>1. (\E fc \in fcs : ReceiveFc(P, fc)) \/ FcTimeout(P)
      BY <1>2, <1>5
    <2>. QED  BY <1>1, <2>1, ReqFc DEF ReqInv
  <1>6. ASSUME NEW fc \in fcs, LoseFc(fc)  PROVE ReqInv'
    BY <1>1, <1>6, ReqFc DEF ReqInv
  <1>7. ASSUME NEW f \in Strays, StrayFrame(f)  PROVE ReqInv'
    BY <1>1, <1>7, ReqStray DEF ReqInv
  <1>8. CASE HeadFrame
    BY <1>1, <1>8, ReqHead DEF ReqInv
  <1>9. CASE HeadPoll
    <2>1. Ends \/ (Ignored(ctx, ctx') /\ UNCHANGED delivered)
      BY <1>9, PollIteration, ReqParts
    <2>2. UNCHANGED <<peer, fcs, rxq, requests, delivered>>
      BY <1>9, <2>1 DEF HeadPoll, Ends
    <2>. QED  BY <1>1, <2>1, <2>2, ReqQuiet DEF ReqInv, Ends
  <1>10. CASE Tick
    <2>1. UNCHANGED <<peer, fcs, rxq, requests, delivered>> /\ Ignored(ctx, ctx')
      BY <1>10, ReqParts DEF Tick, Ignored, HeadInv, RxOK, RxFields
    <2>. QED  BY <1>1, <2>1, ReqQuiet DEF ReqInv
  <1>11. CASE UNCHANGED lvars
    <2>1. UNCHANGED <<peer, fcs, rxq, requests, delivered, ctx>>
      BY <1>11 DEF lvars
    <2>2. Ignored(ctx, ctx')
      BY <2>1 DEF Ignored
    <2>. QED  BY <1>1, <2>1, <2>2, ReqQuiet DEF ReqInv
  <1>. QED
    BY <1>3, <1>4, <1>5, <1>6, <1>7, <1>8, <1>9, <1>10, <1>11 DEF Next

\* DeliveredIsOneRequest holds for every compliant peer, any loss, any number of strays
\* of other senders and any sizes: the byte counter and the indices of the chunks leave
\* no room for a gap, although the sequence number wraps and would not show one.
THEOREM RequestIsWhole == Compliant => (Spec => []DeliveredIsOneRequest)
  <1>1. Compliant /\ Init => ReqInv
    BY ReqInit
  <1>2. Compliant /\ ReqInv /\ [Next]_lvars => ReqInv'
    BY ReqStep
  <1>3. ReqInv => DeliveredIsOneRequest
    <2>. SUFFICES ASSUME ReqInv  PROVE DeliveredIsOneRequest
      OBVIOUS
    <2>1. \A i \in 1..Len(delivered) : Clean(delivered[i].buf) =>
            \E id \in 1..Len(requests) : /\ delivered[i].buf = WholeRequest(id)
                                         /\ delivered[i].len = requests[id].len
      BY ReqParts DEF DoneSound, Whole
    <2>2. DoneOnce
      BY ReqParts
    <2>. QED  BY <2>1, <2>2 DEF DeliveredIsOneRequest, DoneOnce, Clean
  <1>4. Compliant => []Compliant
    <2>1. Compliant => Compliant'
      BY DEF Compliant
    <2>. QED  BY <2>1, PTL
  <1>. QED  BY <1>1, <1>2, <1>3, <1>4, PTL DEF Spec
=============================================================================
