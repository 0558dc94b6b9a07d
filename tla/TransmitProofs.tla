--------------------------- MODULE TransmitProofs ---------------------------
(***************************************************************************)
(* Proofs about IsoTpTxQueue, for every queue size, block size, payload    *)
(* length and frame capacity, and about LogPush, which drives that queue:  *)
(* every step of the RX loop is a step of the queue or leaves it alone, so *)
(* what holds of the queue holds under the log stream.                     *)
(***************************************************************************)
EXTENDS LogPush, SequenceTheorems, TLAPS

\* Ceiling division: the i-th of Needed frames starts inside the payload.
LEMMA CeilDiv ==
  ASSUME NEW a \in Nat, NEW d \in Nat \ {0}
  PROVE  /\ (a + d - 1) \div d \in Nat
         /\ \A i \in Nat : i >= 1 /\ i <= (a + d - 1) \div d => (i - 1) * d < a
<1> DEFINE q == (a + d - 1) \div d
<1>1. q \in Int /\ q * d <= a + d - 1 /\ a + d - 1 < q * d + d
  BY SMT
<1>2. q >= 0
  BY <1>1, SMT
<1>3. ASSUME NEW i \in Nat, i >= 1, i <= q PROVE (i - 1) * d < a
  <2>1. i * d <= q * d
    BY <1>1, <1>3, SMT
  <2>2. (i - 1) * d = i * d - d
    BY SMT
  <2> QED BY <1>1, <2>1, <2>2, SMT
<1> QED BY <1>1, <1>2, <1>3

\* A burst of Consecutive Frames stays inside the payload and keeps the machine
\* well typed (send_consecutive_frames, started with a cleared block counter).
LEMMA BurstType ==
  ASSUME NEW s \in TxSmCtx, s.cur \in Request, s.ctr = 0
  PROVE  /\ CfCount(s) \in Nat
         /\ CfFrames(s) \in Seq(Frame)
         /\ CfAfter(s) \in TxSmCtx
         /\ CfAfter(s).state = s.state /\ CfAfter(s).cur = s.cur
<1> USE TxConstants
<1>1. /\ s.sent \in Nat /\ s.seq \in 0..(SeqMod - 1) /\ s.bs \in Nat
      /\ s.cur.len \in Nat /\ s.cur.id \in 1..MaxSends
  BY DEF TxSmCtx, Request
<1> DEFINE a == s.cur.len - s.sent
<1>2. /\ Needed(s) \in Nat
      /\ \A i \in 1..Needed(s) : (i - 1) * CfData < a
  <2>1. CASE s.sent < s.cur.len
    <3>1. a \in Nat /\ Needed(s) = (a + CfData - 1) \div CfData
      BY <1>1, <2>1 DEF Needed
    <3> HIDE DEF a
    <3> QED BY <3>1, CeilDiv
  <2>2. CASE ~(s.sent < s.cur.len)
    BY <2>2 DEF Needed
  <2> QED BY <2>1, <2>2
<1>3. CfCount(s) \in Nat /\ CfCount(s) <= Needed(s)
  BY <1>1, <1>2 DEF CfCount
<1>4. \A i \in 1..CfCount(s) : CfFrames(s)[i] \in Frame
  <2> SUFFICES ASSUME NEW i \in 1..CfCount(s) PROVE CfFrames(s)[i] \in Frame
    OBVIOUS
  <2> DEFINE o == (i - 1) * CfData
  <2>1. o \in Nat /\ o < a
    BY <1>2, <1>3
  <2>2. s.sent + o \in Nat /\ CfSlice(s, s.sent + o) \in Nat
    <3> HIDE DEF o
    <3> QED BY <1>1, <2>1 DEF CfSlice
  <2>3. CfSeq(s, i) \in 0..(SeqMod - 1)
    BY <1>1, <1>3, SMT DEF CfSeq
  <2>4. CfFrames(s)[i] = [kind |-> "CF", id |-> s.cur.id, seq |-> CfSeq(s, i),
                          off |-> s.sent + o, n |-> CfSlice(s, s.sent + o)]
    BY DEF CfFrames
  <2> HIDE DEF o
  <2> QED BY <1>1, <2>2, <2>3, <2>4 DEF Frame
<1>5. CfFrames(s) \in Seq(Frame)
  <2>1. CfFrames(s) = [i \in 1..CfCount(s) |-> CfFrames(s)[i]]
    BY DEF CfFrames
  <2>2. CfFrames(s) \in [1..CfCount(s) -> Frame]
    BY <1>4, <2>1
  <2> QED BY <1>3, <2>2, SeqDef
<1>6. CfAfter(s) \in TxSmCtx
  <2>1. CfCount(s) * CfData \in Nat
    BY <1>3
  <2>2. (s.seq + CfCount(s)) % SeqMod \in 0..(SeqMod - 1)
    BY <1>1, <1>3, SMT
  <2> QED BY <1>1, <1>3, <2>1, <2>2 DEF CfAfter, CfSent, TxSmCtx
<1>7. CfAfter(s).state = s.state /\ CfAfter(s).cur = s.cur
  BY DEF CfAfter, TxSmCtx
<1> QED BY <1>3, <1>5, <1>6, <1>7

\* A machine that waits for Flow Control holds an addressed multi-frame request.
WaitsAddressed(s) ==
  s.state = "WAIT_FC" => s.cur.target # Broadcast /\ s.cur.len > SfMaxWithPad

\* What one TICK in IDLE does to the queue, the machine and the scratch buffer.
LEMMA IdleRunType ==
  ASSUME NEW q \in Seq(Request), NEW s \in TxSmCtx, s.state = "IDLE"
  PROVE  /\ tx_idle_run(q, s).queue \in Seq(Request)
         /\ tx_idle_run(q, s).sm \in TxSmCtx
         /\ tx_idle_run(q, s).req \in Request \cup {NoRequest}
         /\ tx_idle_run(q, s).out \in Seq(Frame)
         /\ WaitsAddressed(tx_idle_run(q, s).sm)
         /\ q = <<>> => tx_idle_run(q, s).queue = q
         /\ q # <<>> => /\ tx_idle_run(q, s).queue = Tail(q)
                        /\ tx_idle_run(q, s).req = Head(q)
                        /\ Head(q) \in Request
<1> USE TxConstants
<1>1. CASE q = <<>>
  BY <1>1, EmptySeq DEF tx_idle_run, WaitsAddressed
<1>2. CASE q # <<>>
  <2> DEFINE m == Head(q)
             sb == Progress("IDLE", m, FfDataWithPad, 0, 0)
  <2>1. m \in Request /\ Tail(q) \in Seq(Request) /\ m.len \in Nat /\ m.id \in 1..MaxSends
    <3>1. m \in Request /\ Tail(q) \in Seq(Request)
      BY <1>2, HeadTailProperties
    <3> HIDE DEF m
    <3> QED BY <3>1 DEF Request
  <2>2. sb \in TxSmCtx /\ sb.cur = m /\ sb.ctr = 0 /\ sb.state = "IDLE"
    BY <2>1 DEF Progress, TxSmCtx
  <2>3. SingleFrame(m) \in Frame /\ FirstFrame(m) \in Frame
    BY <2>1 DEF SingleFrame, FirstFrame, Frame
  <2>4. <<SingleFrame(m)>> \in Seq(Frame) /\ <<FirstFrame(m)>> \in Seq(Frame)
    BY <2>3
  <2>5. CfFrames(sb) \in Seq(Frame) /\ CfAfter(sb) \in TxSmCtx
        /\ CfAfter(sb).state = "IDLE"
    BY <2>1, <2>2, BurstType
  <2>6. <<FirstFrame(m)>> \o CfFrames(sb) \in Seq(Frame)
    BY <2>4, <2>5, ConcatProperties
  <2>7. Progress("IDLE", m, 0, s.bs, s.ctr) \in TxSmCtx
        /\ Progress("IDLE", m, 0, s.bs, s.ctr).state = "IDLE"
    BY <2>1 DEF Progress, TxSmCtx
  <2>8. Progress("WAIT_FC", m, FfDataWithPad, s.bs, s.ctr) \in TxSmCtx
        /\ Progress("WAIT_FC", m, FfDataWithPad, s.bs, s.ctr).cur = m
    BY <2>1 DEF Progress, TxSmCtx
  <2>9. tx_idle_run(q, s) =
          [queue |-> Tail(q), req |-> m,
           sm  |-> IF m.len <= SfMaxWithPad THEN Progress("IDLE", m, 0, s.bs, s.ctr)
                   ELSE IF FireAndForget(m) THEN CfAfter(sb)
                   ELSE Progress("WAIT_FC", m, FfDataWithPad, s.bs, s.ctr),
           out |-> IF m.len <= SfMaxWithPad THEN <<SingleFrame(m)>>
                   ELSE IF FireAndForget(m) THEN <<FirstFrame(m)>> \o CfFrames(sb)
                   ELSE <<FirstFrame(m)>>]
    BY <1>2 DEF tx_idle_run
  <2> HIDE DEF m, sb
  <2>10. tx_idle_run(q, s).queue = Tail(q) /\ tx_idle_run(q, s).req = m
    BY <2>9
  <2>11. CASE m.len <= SfMaxWithPad
    BY <1>2, <2>1, <2>4, <2>7, <2>9, <2>10, <2>11 DEF WaitsAddressed, m
  <2>12. CASE ~(m.len <= SfMaxWithPad) /\ FireAndForget(m)
    BY <1>2, <2>1, <2>5, <2>6, <2>9, <2>10, <2>12 DEF WaitsAddressed, m
  <2>13. CASE ~(m.len <= SfMaxWithPad) /\ ~FireAndForget(m)
    BY <1>2, <2>1, <2>4, <2>8, <2>9, <2>10, <2>13 DEF WaitsAddressed, FireAndForget, m
  <2> QED BY <2>11, <2>12, <2>13
<1> QED BY <1>1, <1>2

\* The inductive invariant of type correctness: a burst is only ever started by
\* a Flow Control for a genuine, addressed request.
TypeInv == TypeOK /\ WaitsAddressed(sm)

LEMMA TypeInit == Init => TypeInv
<1> USE TxConstants
<1> SUFFICES ASSUME Init PROVE TypeInv
  OBVIOUS
<1>1. sm \in TxSmCtx /\ sm.state = "IDLE"
  BY DEF Init, TxSmCtx
<1>2. queue = <<>> /\ wire = <<>> /\ accepted = <<>> /\ started = <<>>
  BY DEF Init
<1>3. reqBuffer \in Request \cup {NoRequest} /\ sinceLast \in 0..(NBs + 1)
      /\ calls \in 0..MaxSends
  BY DEF Init
<1>4. reaped \in BOOLEAN
  BY Zenon DEF Init
<1> QED BY <1>1, <1>2, <1>3, <1>4 DEF TypeInv, TypeOK, WaitsAddressed

LEMMA IdleEntryType ==
  ASSUME NEW s \in TxSmCtx
  PROVE  tx_idle_entry(s) \in TxSmCtx /\ tx_idle_entry(s).state = "IDLE"
  BY TxConstants DEF tx_idle_entry, TxSmCtx

\* Every use of TickIdle, from an IDLE machine s and frames pre sent before it.
LEMMA TickIdleType ==
  ASSUME TypeInv, NEW s \in TxSmCtx, s.state = "IDLE", NEW pre \in Seq(Frame),
         TickIdle(queue, s, pre), UNCHANGED <<accepted, calls, reaped>>
  PROVE  TypeInv'
<1> USE TxConstants
<1> DEFINE r == tx_idle_run(queue, s)
<1>1. queue \in Seq(Request) /\ Len(queue) <= QueueSize /\ wire \in Seq(Frame)
      /\ started \in Seq(Request)
  BY DEF TypeInv, TypeOK
<1>2. /\ r.queue \in Seq(Request) /\ r.sm \in TxSmCtx
      /\ r.req \in Request \cup {NoRequest} /\ r.out \in Seq(Frame)
      /\ WaitsAddressed(r.sm)
      /\ queue = <<>> => r.queue = queue
      /\ queue # <<>> => r.queue = Tail(queue) /\ Head(queue) \in Request
  BY <1>1, IdleRunType
<1>3. /\ queue' = r.queue /\ sm' = r.sm /\ reqBuffer' = r.req
      /\ wire' = wire \o pre \o r.out /\ sinceLast' = 0
      /\ started' = IF queue = <<>> THEN started ELSE Append(started, Head(queue))
  BY DEF TickIdle
<1> HIDE DEF r
<1>4. queue' \in Seq(Request) /\ Len(queue') <= QueueSize
  BY <1>1, <1>2, <1>3, HeadTailProperties
<1>5. wire' \in Seq(Frame)
  BY <1>1, <1>2, <1>3, ConcatProperties
<1>6. started' \in Seq(Request)
  BY <1>1, <1>2, <1>3, AppendProperties
<1> QED BY <1>2, <1>3, <1>4, <1>5, <1>6 DEF TypeInv, TypeOK, WaitsAddressed

LEMMA TypeNext == TypeInv /\ [Next]_vars => TypeInv'
<1> USE TxConstants
<1> SUFFICES ASSUME TypeInv, [Next]_vars PROVE TypeInv'
  OBVIOUS
<1>1. /\ queue \in Seq(Request) /\ Len(queue) <= QueueSize /\ sm \in TxSmCtx
      /\ reqBuffer \in Request \cup {NoRequest} /\ sinceLast \in 0..(NBs + 1)
      /\ wire \in Seq(Frame) /\ accepted \in Seq(Request)
      /\ started \in Seq(Request) /\ calls \in 0..MaxSends /\ reaped \in BOOLEAN
      /\ WaitsAddressed(sm)
  BY DEF TypeInv, TypeOK
<1>2. ASSUME NEW t \in Targets \cup {Broadcast}, NEW len \in Lengths, Enqueue(t, len)
      PROVE  TypeInv'
  <2> DEFINE m == [id |-> calls + 1, target |-> t, len |-> len]
  <2>1. /\ calls' = calls + 1 /\ calls' \in 0..MaxSends
        /\ EnqueuePut(m) \/ EnqueueFull(m) \/ EnqueueReap(m)
    BY <1>1, <1>2 DEF Enqueue
  <2>2. m \in Request /\ m.id \in 1..MaxSends
    BY <1>1, <1>2, <2>1 DEF Request
  <2>3. Append(accepted, m) \in Seq(Request)
    BY <1>1, <2>2, AppendProperties
  <2> HIDE DEF m
  <2>4. CASE EnqueuePut(m)
    <3>1. Append(queue, m) \in Seq(Request) /\ Len(Append(queue, m)) = Len(queue) + 1
      BY <1>1, <2>2, AppendProperties
    <3> QED BY <1>1, <2>1, <2>2, <2>3, <2>4, <3>1
            DEF EnqueuePut, QueueHasRoom, TypeInv, TypeOK, WaitsAddressed
  <2>5. CASE EnqueueFull(m)
    BY <1>1, <2>1, <2>2, <2>5 DEF EnqueueFull, TypeInv, TypeOK, WaitsAddressed
  <2>6. CASE EnqueueReap(m)
    <3> DEFINE s == tx_idle_entry(sm)
               r == tx_idle_run(queue, s)
    <3>1. s \in TxSmCtx /\ s.state = "IDLE"
      BY <1>1, IdleEntryType
    <3>2. queue # <<>>
      BY <1>1, <2>6 DEF EnqueueReap, QueueHasRoom
    <3>3. /\ r.queue = Tail(queue) /\ r.sm \in TxSmCtx /\ r.req = Head(queue)
          /\ Head(queue) \in Request /\ r.out \in Seq(Frame) /\ WaitsAddressed(r.sm)
      BY <1>1, <3>1, <3>2, IdleRunType
    <3>4. /\ queue' = Append(r.queue, r.req) /\ sm' = r.sm /\ reqBuffer' = r.req
          /\ wire' = wire \o r.out /\ started' = Append(started, Head(queue))
          /\ accepted' = Append(accepted, m) /\ sinceLast' = 0 /\ reaped' = TRUE
      BY <2>6 DEF EnqueueReap
    <3> HIDE DEF s, r
    <3>5. queue' \in Seq(Request) /\ Len(queue') = Len(queue)
      BY <1>1, <3>2, <3>3, <3>4, HeadTailProperties, AppendProperties
    <3>6. wire' \in Seq(Frame)
      BY <1>1, <3>3, <3>4, ConcatProperties
    <3>7. started' \in Seq(Request)
      BY <1>1, <3>3, <3>4, AppendProperties
    <3> QED BY <1>1, <2>1, <2>3, <3>3, <3>4, <3>5, <3>6, <3>7
            DEF TypeInv, TypeOK, WaitsAddressed
  <2> QED BY <2>1, <2>4, <2>5, <2>6
<1>3. CASE Poll
  <2>1. CASE sm.state = "IDLE" /\ TickIdle(queue, sm, <<>>)
    BY <1>1, <1>3, <2>1, EmptySeq, TickIdleType DEF Poll
  <2>2. CASE sm' = tx_idle_entry(sm) /\ sinceLast' = 0
             /\ UNCHANGED <<queue, reqBuffer, wire, started>>
    <3>1. sm' \in TxSmCtx /\ sm'.state = "IDLE"
      BY <1>1, <2>2, IdleEntryType
    <3> QED BY <1>1, <1>3, <2>2, <3>1 DEF Poll, TypeInv, TypeOK, WaitsAddressed
  <2> QED BY <1>3, <2>1, <2>2 DEF Poll
<1>4. ASSUME NEW bs \in BlockSizes, FcCts(bs) PROVE TypeInv'
  <2> DEFINE s == [state |-> sm.state, cur |-> sm.cur, sent |-> sm.sent,
                   seq |-> sm.seq, bs |-> bs, ctr |-> 0]
  <2>1. s \in TxSmCtx /\ s.cur = sm.cur /\ s.ctr = 0 /\ s.state = "WAIT_FC"
    BY <1>1, <1>4 DEF FcCts, TxSmCtx
  <2>2. s.cur \in Request
    BY <1>1, <1>4, <2>1 DEF FcCts, WaitsAddressed, TxSmCtx, NoRequest
  <2>3. /\ CfFrames(s) \in Seq(Frame) /\ CfAfter(s) \in TxSmCtx
        /\ CfAfter(s).cur = sm.cur
    BY <2>1, <2>2, BurstType
  <2>4. /\ UNCHANGED <<accepted, calls, reaped>>
        /\ \/ TickIdle(queue, tx_idle_entry(CfAfter(s)), CfFrames(s))
           \/ /\ sm' = CfAfter(s)
              /\ wire' = wire \o CfFrames(s)
              /\ sinceLast' = 0 \/ sinceLast' = sinceLast
              /\ UNCHANGED <<queue, reqBuffer, started>>
    BY <1>4 DEF FcCts
  <2> HIDE DEF s
  <2>5. CASE TickIdle(queue, tx_idle_entry(CfAfter(s)), CfFrames(s))
    BY <2>3, <2>4, <2>5, IdleEntryType, TickIdleType
  <2>6. CASE /\ sm' = CfAfter(s) /\ wire' = wire \o CfFrames(s)
             /\ sinceLast' = 0 \/ sinceLast' = sinceLast
             /\ UNCHANGED <<queue, reqBuffer, started>>
    <3>1. wire' \in Seq(Frame)
      BY <1>1, <2>3, <2>6, ConcatProperties
    <3>2. WaitsAddressed(sm')
      BY <1>1, <1>4, <2>3, <2>6 DEF WaitsAddressed, FcCts
    <3> QED BY <1>1, <2>3, <2>4, <2>6, <3>1, <3>2 DEF TypeInv, TypeOK, WaitsAddressed
  <2> QED BY <2>4, <2>5, <2>6
<1>5. CASE FcAbort
  BY <1>1, <1>5, IdleEntryType, EmptySeq, TickIdleType DEF FcAbort
<1>6. CASE FcUnknown
  <2>1. sm' \in TxSmCtx /\ sm'.state = "IDLE"
    BY <1>1, <1>6, IdleEntryType DEF FcUnknown
  <2> QED BY <1>1, <1>6, <2>1 DEF FcUnknown, TypeInv, TypeOK, WaitsAddressed
<1>7. CASE Tick
  BY <1>1, <1>7 DEF Tick, Expired, TypeInv, TypeOK, WaitsAddressed
<1>8. CASE UNCHANGED vars
  BY <1>1, <1>8 DEF vars, TypeInv, TypeOK, WaitsAddressed
<1> QED BY <1>2, <1>3, <1>4, <1>5, <1>6, <1>7, <1>8 DEF Next, ProcessFC

\* Every reachable state of the transmit queue is well typed: the queue never
\* exceeds its capacity and every Consecutive Frame cut from a payload starts
\* inside it (send_consecutive_frames never reads past tx->length).
THEOREM TypeCorrect == Spec => []TypeOK
<1>1. Spec => []TypeInv
  BY TypeInit, TypeNext, PTL DEF Spec
<1>2. TypeInv => TypeOK
  BY DEF TypeInv
<1> QED BY <1>1, <1>2, PTL

-----------------------------------------------------------------------------
(* Order of transmission. *)

\* Dequeuing moves the head of the queue to the end of the started requests:
\* their concatenation does not change.
LEMMA DequeueConcat ==
  ASSUME NEW q \in Seq(Request), q # <<>>, NEW a \in Seq(Request)
  PROVE  Append(a, Head(q)) \o Tail(q) = a \o q
<1>1. Head(q) \in Request /\ Tail(q) \in Seq(Request)
  BY HeadTailProperties
<1>2. <<Head(q)>> \in Seq(Request)
  BY <1>1
<1>3. Append(a, Head(q)) = a \o <<Head(q)>>
  BY <1>1, AppendIsConcat
<1>4. <<Head(q)>> \o Tail(q) = q
  BY HeadTailProperties, ConcatSimplifications
<1>5. (a \o <<Head(q)>>) \o Tail(q) = a \o (<<Head(q)>> \o Tail(q))
  BY <1>1, <1>2, ConcatAssociative
<1> QED BY <1>3, <1>4, <1>5

LEMMA EnqueueConcat ==
  ASSUME NEW q \in Seq(Request), NEW m \in Request, NEW a \in Seq(Request)
  PROVE  Append(a \o q, m) = a \o Append(q, m)
<1>1. <<m>> \in Seq(Request) /\ a \o q \in Seq(Request)
  BY ConcatProperties
<1>2. Append(a \o q, m) = (a \o q) \o <<m>> /\ Append(q, m) = q \o <<m>>
  BY <1>1, AppendIsConcat
<1>3. (a \o q) \o <<m>> = a \o (q \o <<m>>)
  BY <1>1, ConcatAssociative
<1> QED BY <1>2, <1>3

LEMMA TickIdleFifo ==
  ASSUME TypeInv, FifoUntilReap, NEW s \in TxSmCtx, s.state = "IDLE", NEW pre,
         TickIdle(queue, s, pre), UNCHANGED <<accepted, calls, reaped>>
  PROVE  FifoUntilReap'
<1>1. queue \in Seq(Request) /\ started \in Seq(Request)
  BY DEF TypeInv, TypeOK
<1>2. /\ queue = <<>> => queue' = queue
      /\ queue # <<>> => queue' = Tail(queue)
  BY <1>1, IdleRunType DEF TickIdle
<1>3. started' = IF queue = <<>> THEN started ELSE Append(started, Head(queue))
  BY DEF TickIdle
<1> QED BY <1>1, <1>2, <1>3, DequeueConcat DEF FifoUntilReap

LEMMA FifoNext == TypeInv /\ FifoUntilReap /\ [Next]_vars => FifoUntilReap'
<1> USE TxConstants
<1> SUFFICES ASSUME TypeInv, FifoUntilReap, [Next]_vars PROVE FifoUntilReap'
  OBVIOUS
<1>1. queue \in Seq(Request) /\ started \in Seq(Request) /\ sm \in TxSmCtx
      /\ calls \in 0..MaxSends
  BY DEF TypeInv, TypeOK
<1>2. ASSUME NEW t \in Targets \cup {Broadcast}, NEW len \in Lengths, Enqueue(t, len)
      PROVE  FifoUntilReap'
  <2> DEFINE m == [id |-> calls + 1, target |-> t, len |-> len]
  <2>1. EnqueuePut(m) \/ EnqueueFull(m) \/ EnqueueReap(m)
    BY <1>2 DEF Enqueue
  <2>2. m \in Request
    BY <1>1, <1>2 DEF Enqueue, Request
  <2> HIDE DEF m
  <2>3. CASE EnqueuePut(m)
    BY <1>1, <2>2, <2>3, EnqueueConcat DEF EnqueuePut, FifoUntilReap
  <2>4. CASE EnqueueFull(m)
    BY <2>4 DEF EnqueueFull, FifoUntilReap
  <2>5. CASE EnqueueReap(m)
    BY <2>5 DEF EnqueueReap, FifoUntilReap
  <2> QED BY <2>1, <2>3, <2>4, <2>5
<1>3. CASE Poll
  <2>1. CASE sm.state = "IDLE" /\ TickIdle(queue, sm, <<>>)
    BY <1>1, <1>3, <2>1, TickIdleFifo DEF Poll
  <2>2. CASE UNCHANGED <<queue, started>>
    BY <1>3, <2>2 DEF Poll, FifoUntilReap
  <2> QED BY <1>3, <2>1, <2>2 DEF Poll
<1>4. ASSUME NEW bs \in BlockSizes, FcCts(bs) PROVE FifoUntilReap'
  <2> DEFINE s == [state |-> sm.state, cur |-> sm.cur, sent |-> sm.sent,
                   seq |-> sm.seq, bs |-> bs, ctr |-> 0]
  <2>1. s \in TxSmCtx /\ s.cur = sm.cur /\ s.ctr = 0 /\ s.state = "WAIT_FC"
    BY <1>1, <1>4 DEF FcCts, TxSmCtx
  <2>2. s.cur \in Request
    BY <1>1, <1>4, <2>1 DEF FcCts, WaitsAddressed, TxSmCtx, NoRequest, TypeInv
  <2>3. CfAfter(s) \in TxSmCtx
    BY <2>1, <2>2, BurstType
  <2>4. /\ UNCHANGED <<accepted, calls, reaped>>
        /\ \/ TickIdle(queue, tx_idle_entry(CfAfter(s)), CfFrames(s))
           \/ UNCHANGED <<queue, reqBuffer, started>>
    BY <1>4 DEF FcCts
  <2> HIDE DEF s
  <2>5. CASE TickIdle(queue, tx_idle_entry(CfAfter(s)), CfFrames(s))
    BY <2>3, <2>4, <2>5, IdleEntryType, TickIdleFifo
  <2>6. CASE UNCHANGED <<queue, reqBuffer, started>>
    BY <2>4, <2>6 DEF FifoUntilReap
  <2> QED BY <2>4, <2>5, <2>6
<1>5. CASE FcAbort
  BY <1>1, <1>5, IdleEntryType, TickIdleFifo DEF FcAbort
<1>6. CASE FcUnknown
  BY <1>6 DEF FcUnknown, FifoUntilReap
<1>7. CASE Tick
  BY <1>7 DEF Tick, FifoUntilReap
<1>8. CASE UNCHANGED vars
  BY <1>8 DEF vars, FifoUntilReap
<1> QED BY <1>2, <1>3, <1>4, <1>5, <1>6, <1>7, <1>8 DEF Next, ProcessFC

\* Until Enqueue's queue-full recovery runs for the first time, the accepted
\* requests are exactly the started ones followed by the queued ones: nothing
\* is lost, repeated or overtaken, for every queue size.
THEOREM FifoCorrect == Spec => []FifoUntilReap
<1>1. Init => FifoUntilReap
  BY EmptySeq, ConcatEmptySeq DEF Init, FifoUntilReap
<1>2. Spec => [](TypeInv /\ FifoUntilReap)
  BY <1>1, TypeInit, TypeNext, FifoNext, PTL DEF Spec
<1> QED BY <1>2, PTL

-----------------------------------------------------------------------------
(* Contiguity on the wire. *)

\* Quotient and remainder are unique.
LEMMA Remainder ==
  ASSUME NEW M \in Nat \ {0}, NEW q \in Int, NEW r \in 0..(M - 1), NEW a \in Int, a = q * M + r
  PROVE  a % M = r
<1> DEFINE p == a \div M
           t == a % M
<1>1. p \in Int /\ t \in Int /\ a = p * M + t /\ 0 <= t /\ t < M
  BY SMT
<1> HIDE DEF p, t
<1>2. (p - q) * M = r - t
  BY <1>1, SMT
<1>3. p - q = 0
  <2>1. CASE p - q >= 1
    <3>1. (p - q) * M >= M
      BY <1>1, <2>1, SMT
    <3> QED BY <1>1, <1>2, <3>1, SMT
  <2>2. CASE p - q <= -1
    <3>1. (p - q) * M <= -M
      BY <1>1, <2>2, SMT
    <3> QED BY <1>1, <1>2, <3>1, SMT
  <2> QED BY <1>1, <2>1, <2>2, SMT
<1>4. (p - q) * M = 0
  BY <1>1, <1>3, SMT
<1> QED BY <1>1, <1>2, <1>4, SMT DEF t

\* Sequence numbers may be masked at every step or once.
LEMMA NextSeqNumber ==
  ASSUME NEW a \in Nat, NEW M \in Nat \ {0}
  PROVE  ((a % M) + 1) % M = (a + 1) % M
<1> DEFINE p == a \div M
           t == a % M
<1>1. p \in Int /\ t \in Int /\ a = p * M + t /\ 0 <= t /\ t < M
  BY SMT
<1> HIDE DEF p, t
<1>2. CASE t + 1 < M
  <2>1. (a + 1) % M = t + 1
    BY <1>1, <1>2, Remainder
  <2>2. (t + 1) % M = t + 1
    BY <1>1, <1>2, SMT
  <2> QED BY <2>1, <2>2 DEF t
<1>3. CASE t + 1 = M
  <2>1. a + 1 = (p + 1) * M + 0
    BY <1>1, <1>3, SMT
  <2>2. (a + 1) % M = 0
    BY <1>1, <2>1, Remainder
  <2>3. (t + 1) % M = 0
    BY <1>1, <1>3, SMT
  <2> QED BY <2>2, <2>3 DEF t
<1> QED BY <1>1, <1>2, <1>3

\* Frame g continues frame f.
Continues(f, g) ==
  /\ f.kind \in {"FF", "CF"} /\ f.id = g.id
  /\ g.off = f.off + f.n /\ g.seq = (f.seq + 1) % SeqMod

Contiguous(w) ==
  \A i \in 1..Len(w) : w[i].kind = "CF" => i > 1 /\ Continues(w[i - 1], w[i])

\* The last frame on the wire is where machine s stands in its payload.
StandsAt(w, s) ==
  /\ w # <<>>
  /\ LET f == w[Len(w)]
     IN  /\ f.kind \in {"FF", "CF"} /\ f.id = s.cur.id
         /\ f.off + f.n = s.sent /\ f.seq = s.seq

\* A waiting machine knows where its transfer stopped.
WireInv == Contiguous(wire) /\ (sm.state = "WAIT_FC" => StandsAt(wire, sm))

\* Frames of one burst continue each other and the frame the machine stood at,
\* and leave the machine at the last of them.
LEMMA BurstFrames ==
  ASSUME NEW s \in TxSmCtx, s.cur \in Request, s.ctr = 0
  PROVE  LET b == CfFrames(s)
             k == CfCount(s)
         IN  /\ \A i \in 1..k : /\ b[i].kind = "CF" /\ b[i].id = s.cur.id
                                /\ b[i].seq = (s.seq + i) % SeqMod
             /\ k > 0 => b[1].off = s.sent
             /\ \A i \in 2..k : b[i].off = b[i - 1].off + b[i - 1].n
             /\ k > 0 => b[k].off + b[k].n = CfSent(s)
<1> USE TxConstants
<1> DEFINE b == CfFrames(s)
           k == CfCount(s)
           a == s.cur.len - s.sent
           o(i) == (i - 1) * CfData
<1>1. /\ s.sent \in Nat /\ s.seq \in 0..(SeqMod - 1) /\ s.bs \in Nat
      /\ s.cur.len \in Nat /\ s.cur.id \in 1..MaxSends
  BY DEF TxSmCtx, Request
<1>2. /\ Needed(s) \in Nat
      /\ \A i \in 1..Needed(s) : (i - 1) * CfData < a
  <2>1. CASE s.sent < s.cur.len
    <3>1. a \in Nat /\ Needed(s) = (a + CfData - 1) \div CfData
      BY <1>1, <2>1 DEF Needed
    <3> HIDE DEF a
    <3> QED BY <3>1, CeilDiv
  <2>2. CASE ~(s.sent < s.cur.len)
    BY <2>2 DEF Needed
  <2> QED BY <2>1, <2>2
<1>3. k \in Nat /\ k <= Needed(s)
  BY <1>1, <1>2 DEF CfCount
<1>4. \A i \in 1..k : o(i) \in Nat /\ o(i) < a
  BY <1>2, <1>3
<1>5. ASSUME NEW i \in 1..k
      PROVE  /\ b[i].kind = "CF" /\ b[i].id = s.cur.id /\ b[i].seq = (s.seq + i) % SeqMod
             /\ b[i].off = s.sent + o(i) /\ b[i].n = CfSlice(s, s.sent + o(i))
  <2>1. b[i] = [kind |-> "CF", id |-> s.cur.id, seq |-> CfSeq(s, i),
                off |-> s.sent + o(i), n |-> CfSlice(s, s.sent + o(i))]
    BY DEF CfFrames
  <2> DEFINE off == s.sent + o(i)
             n == CfSlice(s, off)
             seq == CfSeq(s, i)
             f == b[i]
  <2> HIDE DEF off, n, seq, f
  <2>2. f = [kind |-> "CF", id |-> s.cur.id, seq |-> seq, off |-> off, n |-> n]
    BY <2>1 DEF f, off, n, seq
  <2>3. f.kind = "CF" /\ f.id = s.cur.id /\ f.seq = seq /\ f.off = off /\ f.n = n
    BY <2>2
  <2> QED BY <2>3 DEF f, off, n, seq, CfSeq
<1>6. \A i \in 1..k : o(i + 1) = o(i) + CfData /\ o(i + 1) = i * CfData
  BY <1>3
<1>7. o(1) = 0
  OBVIOUS
<1> HIDE DEF b, o, k
<1>8. ASSUME NEW i \in 2..k  PROVE b[i].off = b[i - 1].off + b[i - 1].n
  <2>1. i \in 1..k /\ i - 1 \in 1..k /\ (i - 1) + 1 = i
    BY <1>3, <1>8
  <2>2. o(i) = o(i - 1) + CfData /\ o(i) < a /\ o(i - 1) \in Nat
    BY <1>4, <1>6, <2>1
  <2>3. CfSlice(s, s.sent + o(i - 1)) = CfData
    BY <1>1, <2>2 DEF CfSlice
  <2>4. b[i].off = s.sent + o(i) /\ b[i - 1].off = s.sent + o(i - 1) /\ b[i - 1].n = CfData
    BY <1>5, <2>1, <2>3
  <2> QED BY <1>1, <2>2, <2>4
<1>9. ASSUME k > 0  PROVE b[k].off + b[k].n = CfSent(s)
  <2>1. k \in 1..k /\ o(k) \in Nat /\ o(k) < a /\ k * CfData = o(k) + CfData
    BY <1>3, <1>4, <1>6, <1>9
  <2>2. b[k].off = s.sent + o(k) /\ b[k].n = CfSlice(s, s.sent + o(k))
    BY <1>5, <2>1
  <2>3. CfSent(s) = IF s.sent + k * CfData > s.cur.len THEN s.cur.len ELSE s.sent + k * CfData
    BY <1>9 DEF CfSent, k
  <2> DEFINE x == o(k)
             y == k * CfData
  <2> HIDE DEF x, y
  <2>4. x \in Nat /\ x < s.cur.len - s.sent /\ y = x + CfData
    BY <2>1 DEF x, y
  <2>5. CfSlice(s, s.sent + x) = IF s.cur.len - (s.sent + x) > CfData THEN CfData
                                 ELSE s.cur.len - (s.sent + x)
    BY DEF CfSlice
  <2>6. b[k].off = s.sent + x /\ b[k].n = CfSlice(s, s.sent + x)
    BY <2>2 DEF x
  <2>7. CfSent(s) = IF s.sent + y > s.cur.len THEN s.cur.len ELSE s.sent + y
    BY <2>3 DEF y
  <2> QED BY <1>1, <2>4, <2>5, <2>6, <2>7
<1>10. \A i \in 1..k : /\ b[i].kind = "CF" /\ b[i].id = s.cur.id
                       /\ b[i].seq = (s.seq + i) % SeqMod
  BY <1>5
<1>11. k > 0 => b[1].off = s.sent
  BY <1>1, <1>3, <1>5, <1>7
<1> QED BY <1>8, <1>9, <1>10, <1>11 DEF b, k

LEMMA BurstContiguous ==
  ASSUME NEW s \in TxSmCtx, s.cur \in Request, s.ctr = 0, NEW w \in Seq(Frame),
         Contiguous(w), StandsAt(w, s)
  PROVE  Contiguous(w \o CfFrames(s)) /\ StandsAt(w \o CfFrames(s), CfAfter(s))
<1> USE TxConstants
<1> DEFINE b == CfFrames(s)
           k == CfCount(s)
           l == Len(w)
           v == w \o b
<1>1. k \in Nat /\ b \in Seq(Frame) /\ Len(b) = k
  BY BurstType DEF CfFrames
<1>2. /\ s.seq \in Nat /\ s.seq < SeqMod /\ s.sent \in Nat /\ l \in Nat /\ l > 0
  BY EmptySeq DEF TxSmCtx, StandsAt
<1>3. /\ \A i \in 1..k : /\ b[i].kind = "CF" /\ b[i].id = s.cur.id
                         /\ b[i].seq = (s.seq + i) % SeqMod
      /\ k > 0 => b[1].off = s.sent
      /\ \A i \in 2..k : b[i].off = b[i - 1].off + b[i - 1].n
      /\ k > 0 => b[k].off + b[k].n = CfSent(s)
  BY BurstFrames
<1>4. /\ w[l].kind \in {"FF", "CF"} /\ w[l].id = s.cur.id
      /\ w[l].off + w[l].n = s.sent /\ w[l].seq = s.seq
  BY DEF StandsAt
<1> HIDE DEF b, k
<1>5. /\ v \in Seq(Frame) /\ Len(v) = l + k
      /\ \A i \in 1..l : v[i] = w[i]
      /\ \A i \in 1..k : v[l + i] = b[i]
  <2>1. \A i \in 1..(l + k) : v[i] = IF i <= l THEN w[i] ELSE b[i - l]
    BY <1>1, ConcatProperties
  <2>2. v \in Seq(Frame) /\ Len(v) = l + k
    BY <1>1, ConcatProperties
  <2>3. ASSUME NEW i \in 1..k  PROVE v[l + i] = b[i]
    <3>1. l + i \in 1..(l + k) /\ ~(l + i <= l) /\ (l + i) - l = i
      BY <1>1, <1>2
    <3> QED BY <2>1, <3>1
  <2>4. ASSUME NEW i \in 1..l  PROVE v[i] = w[i]
    <3>1. i \in 1..(l + k) /\ i <= l
      BY <1>1, <1>2
    <3> QED BY <2>1, <3>1
  <2> QED BY <2>2, <2>3, <2>4
<1> HIDE DEF v
<1>6. ASSUME NEW i \in 1..k  PROVE Continues(v[l + i - 1], v[l + i])
  <2>1. v[l + i] = b[i]
    BY <1>5
  <2>2. CASE i = 1
    <3>1. v[l + i - 1] = w[l]
      BY <1>2, <1>5, <2>2
    <3>2. k > 0 /\ 1 \in 1..k
      BY <1>1, <2>2
    <3> QED BY <1>3, <1>4, <2>1, <2>2, <3>1, <3>2 DEF Continues
  <2>3. CASE i # 1
    <3>1. i \in 2..k /\ i - 1 \in 1..k /\ l + i - 1 = l + (i - 1) /\ s.seq + (i - 1) \in Nat
      BY <1>1, <1>2, <2>3
    <3>2. v[l + i - 1] = b[i - 1]
      BY <1>5, <3>1
    <3>3. (((s.seq + (i - 1)) % SeqMod) + 1) % SeqMod = (s.seq + (i - 1) + 1) % SeqMod
      BY <3>1, NextSeqNumber
    <3>4. s.seq + (i - 1) + 1 = s.seq + i
      BY <1>2
    <3>5. b[i].seq = (b[i - 1].seq + 1) % SeqMod
      BY <1>3, <3>1, <3>3, <3>4
    <3> QED BY <1>3, <2>1, <3>1, <3>2, <3>5 DEF Continues
  <2> QED BY <2>2, <2>3
<1>7. Contiguous(v)
  <2> SUFFICES ASSUME NEW i \in 1..Len(v), v[i].kind = "CF"
               PROVE  i > 1 /\ Continues(v[i - 1], v[i])
    BY DEF Contiguous
  <2>1. CASE i <= l
    <3>1. i \in 1..l /\ v[i] = w[i]
      BY <1>2, <1>5, <2>1
    <3>2. i > 1 /\ Continues(w[i - 1], w[i])
      BY <3>1 DEF Contiguous
    <3>3. i - 1 \in 1..l
      BY <1>2, <3>1, <3>2
    <3> QED BY <1>5, <3>1, <3>2, <3>3
  <2>2. CASE i > l
    <3>1. i - l \in 1..k /\ l + (i - l) = i /\ l + (i - l) - 1 = i - 1 /\ i > 1
      BY <1>1, <1>2, <1>5, <2>2
    <3> QED BY <1>6, <3>1
  <2> QED BY <1>2, <2>1, <2>2
<1>8. /\ CfAfter(s).cur = s.cur /\ CfAfter(s).sent = CfSent(s)
      /\ CfAfter(s).seq = (s.seq + k) % SeqMod
  BY DEF CfAfter, k
<1>9. StandsAt(v, CfAfter(s))
  <2>1. CASE k = 0
    <3>1. CfSent(s) = s.sent
      BY <1>2, <2>1 DEF CfSent, k
    <3>2. (s.seq + k) % SeqMod = s.seq
      BY <1>2, <2>1
    <3>3. Len(v) = l /\ v[Len(v)] = w[l] /\ v # <<>>
      BY <1>2, <1>5, <2>1, EmptySeq
    <3> QED BY <1>4, <1>8, <3>1, <3>2, <3>3 DEF StandsAt
  <2>2. CASE k > 0
    <3>1. k \in 1..k /\ v[Len(v)] = b[k] /\ v # <<>>
      BY <1>1, <1>2, <1>5, <2>2, EmptySeq
    <3> QED BY <1>3, <1>8, <2>2, <3>1 DEF StandsAt
  <2> QED BY <1>1, <2>1, <2>2
<1> QED BY <1>7, <1>9 DEF v, b

\* A Single or First Frame may follow anything.
LEMMA FirstContiguous ==
  ASSUME NEW w \in Seq(Frame), Contiguous(w), NEW f \in Frame, f.kind # "CF"
  PROVE  /\ w \o <<f>> \in Seq(Frame) /\ Contiguous(w \o <<f>>)
         /\ w \o <<f>> # <<>> /\ (w \o <<f>>)[Len(w \o <<f>>)] = f
<1> DEFINE v == w \o <<f>>
<1>1. v = Append(w, f)
  BY AppendIsConcat
<1>2. /\ v \in Seq(Frame) /\ Len(v) = Len(w) + 1 /\ Len(w) \in Nat
      /\ \A i \in 1..Len(w) : v[i] = w[i]
      /\ v[Len(w) + 1] = f
  BY <1>1, AppendProperties
<1> HIDE DEF v
<1>3. Contiguous(v)
  <2> SUFFICES ASSUME NEW i \in 1..Len(v), v[i].kind = "CF"
               PROVE  i > 1 /\ Continues(v[i - 1], v[i])
    BY DEF Contiguous
  <2>1. i # Len(w) + 1
    BY <1>2
  <2>2. i \in 1..Len(w) /\ v[i] = w[i]
    BY <1>2, <2>1
  <2>3. i > 1 /\ Continues(w[i - 1], w[i])
    BY <2>2 DEF Contiguous
  <2>4. i - 1 \in 1..Len(w)
    BY <1>2, <2>2, <2>3
  <2> QED BY <1>2, <2>2, <2>3, <2>4
<1>4. v # <<>>
  BY <1>2, EmptySeq
<1> QED BY <1>2, <1>3, <1>4 DEF v

\* One TICK in IDLE adds nothing, one frame, or a whole broadcast.
LEMMA IdleRunContiguous ==
  ASSUME NEW q \in Seq(Request), NEW s \in TxSmCtx, s.state = "IDLE",
         NEW w \in Seq(Frame), Contiguous(w)
  PROVE  LET r == tx_idle_run(q, s)
         IN  /\ Contiguous(w \o r.out)
             /\ r.sm.state = "WAIT_FC" => StandsAt(w \o r.out, r.sm)
<1> USE TxConstants
<1> DEFINE r == tx_idle_run(q, s)
<1>1. CASE q = <<>>
  <2>1. r.out = <<>> /\ r.sm = s
    BY <1>1 DEF tx_idle_run
  <2>2. w \o <<>> = w
    BY ConcatEmptySeq
  <2> QED BY <2>1, <2>2
<1>2. CASE q # <<>>
  <2> DEFINE m == Head(q)
             sb == Progress("IDLE", m, FfDataWithPad, 0, 0)
             ff == FirstFrame(m)
             sf == SingleFrame(m)
  <2>1. m \in Request /\ m.len \in Nat /\ m.id \in 1..MaxSends
    <3>1. m \in Request
      BY <1>2, HeadTailProperties
    <3> HIDE DEF m
    <3> QED BY <3>1 DEF Request
  <2>2. sb \in TxSmCtx /\ sb.cur = m /\ sb.ctr = 0 /\ sb.state = "IDLE"
        /\ sb.sent = FfDataWithPad /\ sb.seq = 0
    BY <2>1 DEF Progress, TxSmCtx
  <2>3. /\ sf \in Frame /\ sf.kind = "SF"
        /\ ff \in Frame /\ ff.kind = "FF" /\ ff.id = m.id /\ ff.off + ff.n = FfDataWithPad
        /\ ff.seq = 0
    BY <2>1 DEF SingleFrame, FirstFrame, Frame
  <2>4. CASE m.len <= SfMaxWithPad
    <3>1. r.out = <<sf>> /\ r.sm = Progress("IDLE", m, 0, s.bs, s.ctr)
      BY <1>2, <2>4 DEF tx_idle_run
    <3>2. r.sm.state = "IDLE"
      BY <3>1 DEF Progress
    <3> HIDE DEF sf
    <3> QED BY <2>3, <3>1, <3>2, FirstContiguous
  <2>5. CASE ~(m.len <= SfMaxWithPad) /\ FireAndForget(m)
    <3>1. r.out = <<ff>> \o CfFrames(sb) /\ r.sm = CfAfter(sb)
      BY <1>2, <2>5 DEF tx_idle_run
    <3>2. r.sm.state = "IDLE" /\ CfFrames(sb) \in Seq(Frame)
      BY <2>1, <2>2, <3>1, BurstType
    <3> HIDE DEF ff, sb, m
    <3>3. w \o <<ff>> \in Seq(Frame) /\ Contiguous(w \o <<ff>>) /\ StandsAt(w \o <<ff>>, sb)
      BY <2>2, <2>3, FirstContiguous DEF StandsAt
    <3>4. Contiguous((w \o <<ff>>) \o CfFrames(sb))
      BY <2>1, <2>2, <3>3, BurstContiguous
    <3>5. (w \o <<ff>>) \o CfFrames(sb) = w \o (<<ff>> \o CfFrames(sb))
      <4>1. <<ff>> \in Seq(Frame)
        BY <2>3
      <4> QED BY <3>2, <4>1, ConcatAssociative
    <3> QED BY <3>1, <3>2, <3>4, <3>5
  <2>6. CASE ~(m.len <= SfMaxWithPad) /\ ~FireAndForget(m)
    <3>1. r.out = <<ff>> /\ r.sm = Progress("WAIT_FC", m, FfDataWithPad, s.bs, s.ctr)
      BY <1>2, <2>6 DEF tx_idle_run
    <3>2. r.sm.cur = m /\ r.sm.sent = FfDataWithPad /\ r.sm.seq = 0
      BY <3>1 DEF Progress
    <3> HIDE DEF ff, m
    <3> QED BY <2>3, <3>1, <3>2, FirstContiguous DEF StandsAt
  <2> QED BY <2>4, <2>5, <2>6
<1> QED BY <1>1, <1>2

LEMMA TickIdleContiguous ==
  ASSUME TypeInv, NEW s \in TxSmCtx, s.state = "IDLE", NEW pre \in Seq(Frame),
         Contiguous(wire \o pre), TickIdle(queue, s, pre)
  PROVE  WireInv'
<1> DEFINE r == tx_idle_run(queue, s)
<1>1. queue \in Seq(Request) /\ wire \in Seq(Frame) /\ wire \o pre \in Seq(Frame)
  BY ConcatProperties DEF TypeInv, TypeOK
<1>2. r.out \in Seq(Frame)
  BY <1>1, IdleRunType
<1>3. sm' = r.sm /\ wire' = (wire \o pre) \o r.out
  BY DEF TickIdle
<1>4. Contiguous((wire \o pre) \o r.out)
      /\ (r.sm.state = "WAIT_FC" => StandsAt((wire \o pre) \o r.out, r.sm))
  BY <1>1, IdleRunContiguous
<1> HIDE DEF r
<1> QED BY <1>3, <1>4 DEF WireInv, Contiguous, StandsAt, Continues

LEMMA WireNext == TypeInv /\ WireInv /\ [Next]_vars => WireInv'
<1> USE TxConstants
<1> SUFFICES ASSUME TypeInv, WireInv, [Next]_vars PROVE WireInv'
  OBVIOUS
<1>1. queue \in Seq(Request) /\ wire \in Seq(Frame) /\ sm \in TxSmCtx /\ WaitsAddressed(sm)
  BY DEF TypeInv, TypeOK
<1>2. wire \o <<>> = wire /\ <<>> \in Seq(Frame)
  BY <1>1, ConcatEmptySeq, EmptySeq
<1>3. ASSUME UNCHANGED wire, UNCHANGED sm \/ sm'.state = "IDLE"  PROVE WireInv'
  BY <1>3 DEF WireInv, Contiguous, StandsAt, Continues
<1>4. ASSUME NEW t \in Targets \cup {Broadcast}, NEW len \in Lengths, Enqueue(t, len)
      PROVE  WireInv'
  <2> DEFINE m == [id |-> calls + 1, target |-> t, len |-> len]
  <2>1. EnqueuePut(m) \/ EnqueueFull(m) \/ EnqueueReap(m)
    BY <1>4 DEF Enqueue
  <2> HIDE DEF m
  <2>2. CASE EnqueuePut(m) \/ EnqueueFull(m)
    BY <1>3, <2>2 DEF EnqueuePut, EnqueueFull
  <2>3. CASE EnqueueReap(m)
    <3> DEFINE s == tx_idle_entry(sm)
               r == tx_idle_run(queue, s)
    <3>1. s \in TxSmCtx /\ s.state = "IDLE"
      BY <1>1, IdleEntryType
    <3>2. sm' = r.sm /\ wire' = wire \o r.out
      BY <2>3 DEF EnqueueReap
    <3>3. Contiguous(wire \o r.out) /\ (r.sm.state = "WAIT_FC" => StandsAt(wire \o r.out, r.sm))
      <4> HIDE DEF s
      <4> QED BY <1>1, <3>1, IdleRunContiguous DEF WireInv
    <3> HIDE DEF s, r
    <3> QED BY <3>2, <3>3 DEF WireInv, Contiguous, StandsAt, Continues
  <2> QED BY <2>1, <2>2, <2>3
<1>5. CASE Poll
  <2>1. CASE sm.state = "IDLE" /\ TickIdle(queue, sm, <<>>)
    BY <1>1, <1>2, <2>1, TickIdleContiguous DEF WireInv
  <2>2. CASE sm' = tx_idle_entry(sm) /\ UNCHANGED wire
    BY <1>1, <1>3, <2>2, IdleEntryType
  <2> QED BY <1>5, <2>1, <2>2 DEF Poll
<1>6. ASSUME NEW bs \in BlockSizes, FcCts(bs) PROVE WireInv'
  <2> DEFINE s == [state |-> sm.state, cur |-> sm.cur, sent |-> sm.sent,
                   seq |-> sm.seq, bs |-> bs, ctr |-> 0]
  <2>1. s \in TxSmCtx /\ s.cur = sm.cur /\ s.ctr = 0 /\ s.state = "WAIT_FC"
        /\ s.sent = sm.sent /\ s.seq = sm.seq
    BY <1>1, <1>6 DEF FcCts, TxSmCtx
  <2>2. s.cur \in Request
    BY <1>1, <1>6, <2>1 DEF FcCts, WaitsAddressed, TxSmCtx, NoRequest
  <2>3. \/ TickIdle(queue, tx_idle_entry(CfAfter(s)), CfFrames(s))
        \/ sm' = CfAfter(s) /\ wire' = wire \o CfFrames(s)
    BY <1>6 DEF FcCts
  <2>4. StandsAt(wire, s) /\ Contiguous(wire)
    BY <1>6, <2>1 DEF FcCts, WireInv, StandsAt
  <2> HIDE DEF s
  <2>5. CfFrames(s) \in Seq(Frame) /\ CfAfter(s) \in TxSmCtx
    BY <2>1, <2>2, BurstType
  <2>6. Contiguous(wire \o CfFrames(s)) /\ StandsAt(wire \o CfFrames(s), CfAfter(s))
    BY <1>1, <2>1, <2>2, <2>4, BurstContiguous
  <2>7. CASE TickIdle(queue, tx_idle_entry(CfAfter(s)), CfFrames(s))
    BY <2>5, <2>6, <2>7, IdleEntryType, TickIdleContiguous
  <2>8. CASE sm' = CfAfter(s) /\ wire' = wire \o CfFrames(s)
    BY <2>6, <2>8 DEF WireInv, Contiguous, StandsAt, Continues
  <2> QED BY <2>3, <2>7, <2>8
<1>7. CASE FcAbort
  BY <1>1, <1>2, <1>7, IdleEntryType, TickIdleContiguous DEF FcAbort, WireInv
<1>8. CASE FcUnknown
  BY <1>1, <1>3, <1>8, IdleEntryType DEF FcUnknown
<1>9. CASE Tick
  BY <1>3, <1>9 DEF Tick
<1>10. CASE UNCHANGED vars
  BY <1>3, <1>10 DEF vars
<1> QED BY <1>4, <1>5, <1>6, <1>7, <1>8, <1>9, <1>10 DEF Next, ProcessFC

\* On the wire every Consecutive Frame directly follows the frame of the same
\* message it continues, with the next sequence number, whatever mix of blocks,
\* broadcasts, aborts, timeouts and reaps the sender goes through and whatever the
\* frame capacity and the range of sequence numbers.
THEOREM WireIsContiguous == Spec => []ContiguousTransfers
<1>1. Init => WireInv
  BY EmptySeq DEF Init, WireInv, Contiguous
<1>2. Spec => [](TypeInv /\ WireInv)
  BY <1>1, TypeInit, TypeNext, WireNext, PTL DEF Spec
<1>3. WireInv => ContiguousTransfers
  BY DEF WireInv, Contiguous, Continues, ContiguousTransfers
<1> QED BY <1>2, <1>3, PTL

-----------------------------------------------------------------------------
(* The log stream on top of the queue. *)

\* Whatever the RX loop, the client, the clock and the log thread do is one
\* operation of the transmit queue, or none.
LEMMA PushStepIsTxStep == [PushNext]_allVars => [Next]_vars
<1> SUFFICES ASSUME [PushNext]_allVars PROVE Next \/ UNCHANGED vars
  OBVIOUS
<1>1. CASE ClientRequest \/ ClientFlowControl \/ SendLogMessage \/ TransferAbandoned
  BY <1>1 DEF ClientRequest, ClientFlowControl, SendLogMessage, TransferAbandoned
<1>2. CASE TimePasses
  <2>1. CASE sm.state = "WAIT_FC" /\ ~Expired
    BY <1>2, <2>1 DEF TimePasses, Tick, Next
  <2>2. CASE ~(sm.state = "WAIT_FC" /\ ~Expired)
    BY <1>2, <2>2 DEF TimePasses, vars
  <2> QED BY <2>1, <2>2
<1>3. CASE Dispatch
  BY <1>3 DEF Dispatch, Next
<1>4. CASE DispatchTimeout \/ PushHold \/ PushTake \/ PushCopy
  BY <1>4 DEF DispatchTimeout, PushHold, PushTake, PushCopy
<1>5. CASE Handle
  <2>1. CASE UNCHANGED vars
    BY <2>1
  <2>2. CASE \E len \in ReplyLengths : len # 0 /\ Enqueue(Client, len)
    BY <2>2, PushConstants DEF Next
  <2> QED BY <1>5, <2>1, <2>2 DEF Handle
<1>6. CASE TxPoll
  BY <1>6 DEF TxPoll, Next
<1>7. CASE PushSend
  BY <1>7, PushConstants DEF PushSend, Next
<1>8. CASE UNCHANGED allVars
  BY <1>8 DEF allVars
<1> QED BY <1>1, <1>2, <1>3, <1>4, <1>5, <1>6, <1>7, <1>8 DEF PushNext, RxLoop

\* The log stream and the replies together use the transmit queue as its
\* specification says, so that the theorems above hold of the whole RX loop.
THEOREM PushUsesQueue == PushSpec => Spec
<1>1. PushInit => Init
  BY DEF PushInit
<1> QED BY <1>1, PushStepIsTxStep, PTL DEF PushSpec, Spec

\* No log message is in q.
NoPush(q) == \A i \in 1..Len(q) : q[i].target # Broadcast

\* A log message enters an empty queue of an idle machine, and the next poll of
\* the same iteration or of the next one takes it out.
PushInv ==
  /\ pc \in {"copy", "send"} => queue = <<>> /\ sm.state = "IDLE"
  /\ NoPush(queue) \/ (sm.state = "IDLE" /\ pc \in {"get", "handle", "txpoll"})
  /\ ReplyBehindOnePush

LEMMA NoPushTail ==
  ASSUME NEW q \in Seq(Request), q # <<>>
  PROVE  /\ NoPush(q) => NoPush(Tail(q)) /\ Head(q).target # Broadcast
         /\ (\A i \in 1..Len(q) : q[i].target = Broadcast => i = 1) => NoPush(Tail(q))
<1>1. Len(q) \in Nat /\ Len(q) > 0 /\ Head(q) = q[1] /\ Len(Tail(q)) = Len(q) - 1
      /\ \A i \in 1..Len(Tail(q)) : Tail(q)[i] = q[i + 1]
  BY HeadTailProperties, EmptySeq
<1>2. \A i \in 1..Len(Tail(q)) : i + 1 \in 1..Len(q) /\ i + 1 # 1
  BY <1>1
<1> QED BY <1>1, <1>2 DEF NoPush

LEMMA NoPushAppend ==
  ASSUME NEW q \in Seq(Request), NEW m \in Request, m.target # Broadcast
  PROVE  /\ NoPush(q) => NoPush(Append(q, m))
         /\ (\A i \in 1..Len(q) : q[i].target = Broadcast => i = 1)
              => \A i \in 1..Len(Append(q, m)) : Append(q, m)[i].target = Broadcast => i = 1
<1> DEFINE v == Append(q, m)
<1>1. /\ Len(v) = Len(q) + 1 /\ Len(q) \in Nat /\ v[Len(q) + 1] = m
      /\ \A i \in 1..Len(q) : v[i] = q[i]
  BY AppendProperties
<1> HIDE DEF v
<1>2. \A i \in 1..Len(v) : i \in 1..Len(q) \/ i = Len(q) + 1
  BY <1>1
<1>3. NoPush(q) => NoPush(v)
  BY <1>1, <1>2 DEF NoPush
<1>4. (\A i \in 1..Len(q) : q[i].target = Broadcast => i = 1)
        => \A i \in 1..Len(v) : v[i].target = Broadcast => i = 1
  BY <1>1, <1>2
<1> QED BY <1>3, <1>4 DEF v

\* A Flow Control or an expired transfer finds no log message in the queue, and
\* leaves none.
LEMMA NoPushKept ==
  ASSUME TypeInv, NoPush(queue), ProcessFC \/ Poll
  PROVE  NoPush(queue')
<1>1. queue \in Seq(Request) /\ sm \in TxSmCtx /\ WaitsAddressed(sm)
  BY DEF TypeInv, TypeOK
<1>2. ASSUME NEW s \in TxSmCtx, s.state = "IDLE", NEW pre, TickIdle(queue, s, pre)
      PROVE  NoPush(queue')
  <2>1. /\ queue = <<>> => queue' = queue
        /\ queue # <<>> => queue' = Tail(queue)
    BY <1>1, <1>2, IdleRunType DEF TickIdle
  <2> QED BY <1>1, <2>1, NoPushTail
<1>3. CASE UNCHANGED queue
  BY <1>3 DEF NoPush
<1>4. CASE Poll
  BY <1>1, <1>2, <1>3, <1>4 DEF Poll
<1>5. ASSUME NEW bs \in BlockSizes, FcCts(bs)  PROVE NoPush(queue')
  <2> DEFINE s == [state |-> sm.state, cur |-> sm.cur, sent |-> sm.sent,
                   seq |-> sm.seq, bs |-> bs, ctr |-> 0]
  <2>1. s \in TxSmCtx /\ s.cur \in Request /\ s.ctr = 0
    BY <1>1, <1>5, TxConstants DEF FcCts, WaitsAddressed, TxSmCtx, NoRequest
  <2>2. \/ TickIdle(queue, tx_idle_entry(CfAfter(s)), CfFrames(s))
        \/ UNCHANGED queue
    BY <1>5 DEF FcCts
  <2> HIDE DEF s
  <2>3. CfAfter(s) \in TxSmCtx
    BY <2>1, BurstType
  <2> QED BY <1>2, <1>3, <2>2, <2>3, IdleEntryType
<1>6. CASE FcAbort
  BY <1>1, <1>2, <1>6, IdleEntryType DEF FcAbort
<1>7. CASE FcUnknown
  BY <1>3, <1>7 DEF FcUnknown
<1> QED BY <1>4, <1>5, <1>6, <1>7 DEF ProcessFC

LEMMA PushInvNext == TypeInv /\ PushInv /\ [PushNext]_allVars => PushInv'
<1> USE TxConstants, PushConstants
<1> SUFFICES ASSUME TypeInv, PushInv, [PushNext]_allVars PROVE PushInv'
  OBVIOUS
<1>1. queue \in Seq(Request) /\ sm \in TxSmCtx /\ calls \in 0..MaxSends
  BY DEF TypeInv, TypeOK
<1>2. NoPush(queue) => ReplyBehindOnePush
  BY DEF NoPush, ReplyBehindOnePush
<1>3. ASSUME NoPush(queue'), pc' \notin {"copy", "send"}  PROVE PushInv'
  BY <1>3 DEF PushInv, NoPush, ReplyBehindOnePush
<1>4. ASSUME UNCHANGED vars, pc' = pc  PROVE PushInv'
  BY <1>4 DEF PushInv, NoPush, ReplyBehindOnePush, vars
<1>5. CASE ClientRequest \/ ClientFlowControl \/ SendLogMessage \/ TransferAbandoned
  BY <1>4, <1>5 DEF ClientRequest, ClientFlowControl, SendLogMessage, TransferAbandoned
<1>6. CASE TimePasses
  BY <1>6 DEF TimePasses, PushInv, NoPush, ReplyBehindOnePush
<1>7. CASE Dispatch
  <2>1. CASE ProcessFC
    <3>1. NoPush(queue)
      BY <2>1 DEF PushInv, ProcessFC, FcCts, FcAbort, FcUnknown
    <3> QED BY <1>3, <1>7, <2>1, <3>1, NoPushKept DEF Dispatch
  <2>2. CASE UNCHANGED vars
    BY <1>7, <2>2 DEF Dispatch, PushInv, NoPush, ReplyBehindOnePush, vars
  <2> QED BY <1>7, <2>1, <2>2 DEF Dispatch
<1>8. CASE DispatchTimeout
  BY <1>8 DEF DispatchTimeout, PushInv, NoPush, ReplyBehindOnePush, vars
<1>9. CASE Handle
  <2>0. pc = "handle" /\ pc' = "txpoll"
    BY <1>9 DEF Handle
  <2>1. CASE UNCHANGED vars
    BY <2>0, <2>1 DEF PushInv, NoPush, ReplyBehindOnePush, vars
  <2>2. ASSUME NEW len \in ReplyLengths, len # 0, Enqueue(Client, len)  PROVE PushInv'
    <3> DEFINE m == [id |-> calls + 1, target |-> Client, len |-> len]
    <3>1. m \in Request /\ m.target # Broadcast
      BY <1>1, <2>2 DEF Enqueue, Request
    <3>2. EnqueuePut(m) \/ EnqueueFull(m) \/ EnqueueReap(m)
      BY <2>2 DEF Enqueue
    <3> HIDE DEF m
    <3>3. CASE EnqueuePut(m)
      <4>1. queue' = Append(queue, m) /\ UNCHANGED sm
        BY <3>3 DEF EnqueuePut
      <4>2. NoPush(queue) => NoPush(queue')
        BY <1>1, <3>1, <4>1, NoPushAppend
      <4>3. ReplyBehindOnePush => ReplyBehindOnePush'
        <5>1. ReplyBehindOnePush => \A i \in 1..Len(Append(queue, m)) :
                                      Append(queue, m)[i].target = Broadcast => i = 1
          BY <1>1, <3>1, NoPushAppend DEF ReplyBehindOnePush
        <5> QED BY <4>1, <5>1 DEF ReplyBehindOnePush
      <4>4. NoPush(queue') = NoPush(queue)'
        BY DEF NoPush
      <4> QED BY <2>0, <4>1, <4>2, <4>3, <4>4 DEF PushInv
    <3>4. CASE EnqueueFull(m)
      BY <2>0, <3>4 DEF EnqueueFull, PushInv, NoPush, ReplyBehindOnePush
    <3>5. CASE EnqueueReap(m)
      <4>1. NoPush(queue) /\ queue # <<>>
        BY <1>1, <3>5 DEF EnqueueReap, PushInv, QueueHasRoom
      <4>2. queue' = Append(Tail(queue), Head(queue))
        <5>1. tx_idle_entry(sm) \in TxSmCtx /\ tx_idle_entry(sm).state = "IDLE"
          BY <1>1, IdleEntryType
        <5> QED BY <1>1, <3>5, <4>1, <5>1, IdleRunType DEF EnqueueReap
      <4>3. NoPush(Tail(queue)) /\ Head(queue).target # Broadcast
            /\ Tail(queue) \in Seq(Request) /\ Head(queue) \in Request
        BY <1>1, <4>1, NoPushTail, HeadTailProperties
      <4> QED BY <1>3, <2>0, <4>2, <4>3, NoPushAppend
    <3> QED BY <3>2, <3>3, <3>4, <3>5
  <2> QED BY <1>9, <2>1, <2>2 DEF Handle
<1>10. CASE TxPoll
  <2>0. pc' = "push"
    BY <1>10 DEF TxPoll
  <2>1. CASE Poll
    <3>1. CASE NoPush(queue)
      BY <1>3, <2>0, <2>1, <3>1, NoPushKept
    <3>2. CASE ~NoPush(queue)
      <4>1. sm.state = "IDLE" /\ queue # <<>>
        BY <3>2, EmptySeq DEF PushInv, NoPush
      <4>2. queue' = Tail(queue)
        BY <1>1, <2>1, <4>1, IdleRunType DEF Poll, TickIdle
      <4>3. NoPush(Tail(queue))
        BY <1>1, <4>1, NoPushTail DEF PushInv, ReplyBehindOnePush
      <4> QED BY <1>3, <2>0, <4>2, <4>3
    <3> QED BY <3>1, <3>2
  <2>2. CASE sm.state = "WAIT_FC" /\ UNCHANGED vars
    <3>1. NoPush(queue)
      BY <2>2 DEF PushInv
    <3>2. NoPush(queue')
      BY <2>2, <3>1 DEF vars, NoPush
    <3> QED BY <1>3, <2>0, <3>2
  <2> QED BY <1>10, <2>1, <2>2 DEF TxPoll
<1>11. CASE PushHold
  BY <1>11 DEF PushHold, PushInv, NoPush, ReplyBehindOnePush, vars
<1>12. CASE PushTake
  BY <1>12 DEF PushTake, MayPush, PushInv, NoPush, ReplyBehindOnePush, vars
<1>13. CASE PushCopy
  BY <1>13 DEF PushCopy, PushInv, NoPush, ReplyBehindOnePush, vars
<1>14. CASE PushSend
  <2> DEFINE m == [id |-> calls + 1, target |-> Broadcast, len |-> PushLength]
  <2>1. queue = <<>> /\ sm.state = "IDLE" /\ pc' = "get"
    BY <1>14 DEF PushSend, PushInv
  <2>2. EnqueuePut(m) \/ EnqueueFull(m) \/ EnqueueReap(m)
    BY <1>14 DEF PushSend, Enqueue
  <2> HIDE DEF m
  <2>3. EnqueuePut(m)
    <3>1. QueueHasRoom
      BY <2>1, EmptySeq DEF QueueHasRoom
    <3> QED BY <2>2, <3>1 DEF EnqueueFull, EnqueueReap
  <2>4. queue' = Append(queue, m) /\ UNCHANGED sm
    BY <2>3 DEF EnqueuePut
  <2>5. Len(queue') = 1
    BY <2>1, <2>4
  <2> QED BY <2>1, <2>4, <2>5 DEF PushInv, ReplyBehindOnePush
<1>15. CASE UNCHANGED allVars
  BY <1>4, <1>15 DEF allVars
<1> QED BY <1>5, <1>6, <1>7, <1>8, <1>9, <1>10, <1>11, <1>12, <1>13, <1>14, <1>15
        DEF PushNext, RxLoop

\* A reply waits behind at most one log message, however the log thread, the
\* client and the RX loop interleave: a log message in the transmit queue is at
\* its head, and gone before the next one.
THEOREM ReplyBehindOne == PushSpec => []ReplyBehindOnePush
<1>1. PushInit => TypeInv /\ PushInv
  <2>1. PushInit => PushInv
    BY EmptySeq DEF PushInit, Init, PushInv, NoPush, ReplyBehindOnePush
  <2> QED BY <2>1, TypeInit DEF PushInit
<1>2. TypeInv /\ PushInv /\ [PushNext]_allVars => TypeInv' /\ PushInv'
  BY PushStepIsTxStep, TypeNext, PushInvNext
<1>3. PushInv => ReplyBehindOnePush
  BY DEF PushInv
<1> QED BY <1>1, <1>2, <1>3, PTL DEF PushSpec
=============================================================================
