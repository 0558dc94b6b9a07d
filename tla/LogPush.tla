------------------------------- MODULE LogPush -------------------------------
(***************************************************************************)
(* The log stream to the Bluetooth client (uds_log_push.c) on top of the   *)
(* transmit queue, as the RX loop of divecan_rx.c drives both: one         *)
(* iteration takes a frame, captures `now`, serves a completed request,    *)
(* polls the transmit queue and only then lets a log message be pushed.    *)
(* The log thread (priority 3) preempts the RX thread (priority 5) between *)
(* any two of its steps; the RX thread never preempts the log thread.      *)
(***************************************************************************)
EXTENDS IsoTpTxQueue

CONSTANTS Client,       \* the peer that sends requests
          ReplyLengths, \* reply lengths; 0 is a suppressed reply
          PushLength,   \* length of a log message's WDBI frame
          Quiet,        \* LOG_PUSH_QUIESCENT_MS, in ticks
          LogQueueSize, \* UDS_LOG_QUEUE_LENGTH
          RxDepth,      \* bound: frames waiting for the RX loop
          MaxRequests,  \* bound: requests of the client
          MaxLogs       \* bound: log messages produced

ASSUME PushConstants ==
  /\ Client \in Targets /\ ReplyLengths \subseteq Lengths \cup {0}
  /\ PushLength \in Lengths
  /\ Quiet \in Nat /\ LogQueueSize \in Nat \ {0}
  /\ RxDepth \in Nat /\ MaxRequests \in Nat /\ MaxLogs \in Nat

VARIABLES
  pc,         \* where the RX loop is in its iteration
  rxFrames,   \* frames in can_rx_msgq: a request, or a Flow Control
  rxComplete, \* isotp_context.rx_complete
  nowAge,     \* ticks since `now` was captured in this iteration
  noteAge,    \* ticks since last_dialog_activity_ms, up to Quiet
  suspended,  \* LogPushState_t.suspended, and for which transfer: no, stream or ota
  logq,       \* log_push_msgq
  rxItem,     \* getRxItemBuffer(): shared by both threads
  txBuf,      \* LogPushState_t.tx_buffer: whose bytes were copied last
  produced,   \* history: log messages accepted by SendLogMessage
  requested,  \* history: requests sent by the client
  pushed      \* history: [data, len] of every log message given to ISOTP_Send

pushVars == <<rxFrames, rxComplete, noteAge, suspended, logq, rxItem, txBuf,
              produced, requested, pushed>>
allVars == <<vars, pc, nowAge, pushVars>>

-----------------------------------------------------------------------------
PushInit ==
  /\ Init
  /\ pc = "get"
  /\ rxFrames = <<>> /\ rxComplete = FALSE
  /\ nowAge = 0 /\ noteAge = 0
  /\ suspended = "no"
  /\ logq = <<>> /\ rxItem = 0 /\ txBuf = 0
  /\ produced = 0 /\ requested = 0
  /\ pushed = <<>>

-----------------------------------------------------------------------------
(* Environment: the client, time and the log thread.                       *)

\* The client (external) sends a request; a Flow Control answers a First Frame.
ClientRequest ==
  /\ requested < MaxRequests /\ Len(rxFrames) < RxDepth
  /\ requested' = requested + 1
  /\ rxFrames' = Append(rxFrames, "req")
  /\ UNCHANGED <<vars, pc, nowAge, noteAge, rxComplete, suspended, logq,
                 rxItem, txBuf, produced, pushed>>

ClientFlowControl ==
  /\ sm.state = "WAIT_FC" /\ Len(rxFrames) < RxDepth
  /\ \A i \in 1..Len(rxFrames) : rxFrames[i] # "fc"
  /\ rxFrames' = Append(rxFrames, "fc")
  /\ UNCHANGED <<vars, pc, nowAge, noteAge, rxComplete, suspended, logq,
                 rxItem, txBuf, produced, requested, pushed>>

\* A tick of the millisecond clock, scaled; ages saturate.
Older(a) == IF a < Quiet THEN a + 1 ELSE a

TimePasses ==
  /\ nowAge' = Older(nowAge) /\ noteAge' = Older(noteAge)
  /\ sinceLast' = IF sm.state = "WAIT_FC" /\ ~Expired THEN sinceLast + 1 ELSE sinceLast
  /\ UNCHANGED <<queue, sm, reqBuffer, wire, accepted, started, calls, reaped, pc,
                 rxFrames, rxComplete, suspended, logq, rxItem, txBuf, produced,
                 requested, pushed>>

\* A full log_push_msgq loses its oldest message, into the shared item buffer.
OverwriteOldest(m) ==
  /\ logq' = Append(IF Len(logq) = LogQueueSize THEN Tail(logq) ELSE logq, m)
  /\ rxItem' = IF Len(logq) = LogQueueSize THEN Head(logq) ELSE rxItem

\* upb_process and UDS_LogPush_SendLogMessage, in the log thread.
SendLogMessage ==
  /\ produced < MaxLogs
  /\ produced' = produced + 1
  /\ OverwriteOldest(produced + 1)
  /\ UNCHANGED <<vars, pc, nowAge, noteAge, rxFrames, rxComplete, suspended,
                 txBuf, requested, pushed>>

-----------------------------------------------------------------------------
(* The RX loop.                                                            *)

\* k_msgq_get and DispatchMessage; `now` is captured afterwards.
Dispatch ==
  /\ pc = "get" /\ rxFrames # <<>>
  /\ pc' = "handle" /\ nowAge' = 0
  /\ rxFrames' = Tail(rxFrames)
  /\ \/ /\ Head(rxFrames) = "req"
        /\ rxComplete' = TRUE
        /\ UNCHANGED vars
     \/ /\ Head(rxFrames) = "fc"
        /\ ProcessFC \/ (sm.state = "IDLE" /\ UNCHANGED vars)
        /\ UNCHANGED rxComplete
  /\ UNCHANGED <<noteAge, suspended, logq, rxItem, txBuf, produced, requested, pushed>>

DispatchTimeout ==
  /\ pc = "get" /\ rxFrames = <<>>
  /\ pc' = "handle" /\ nowAge' = 0
  /\ UNCHANGED <<vars, pushVars>>

\* UDS_LogPush_NoteDialogActivity(now): the time noted is the captured one.
NoteRequest == noteAge' = nowAge

\* UDS_ProcessRequest for a completed request: the reply is queued; a request
\* may start or end a transfer that owns the bridge (UDS_LogPush_SetSuspended).
Handle ==
  /\ pc = "handle"
  /\ pc' = "txpoll"
  /\ \/ /\ rxComplete /\ NoteRequest
        /\ \E len \in ReplyLengths :
             IF len = 0 THEN UNCHANGED vars ELSE Enqueue(Client, len)
        /\ suspended' \in IF suspended = "stream" THEN {"no", "stream"}
                                                  ELSE {"no", "stream", "ota"}
     \/ ~rxComplete /\ UNCHANGED <<vars, noteAge, suspended>>
  /\ rxComplete' = FALSE
  /\ UNCHANGED <<nowAge, rxFrames, logq, rxItem, txBuf, produced, requested,
                 pushed>>

\* ISOTP_TxQueue_Poll, then the window is re-armed while a reply is in flight.
TxPoll ==
  /\ pc = "txpoll"
  /\ pc' = "push"
  /\ Poll \/ (sm.state = "WAIT_FC" /\ ~Expired /\ UNCHANGED vars)
  /\ noteAge' = IF sm'.state # "IDLE" THEN nowAge ELSE noteAge
  /\ UNCHANGED <<nowAge, rxFrames, rxComplete, suspended, logq, rxItem, txBuf, produced,
                 requested, pushed>>

\* Mutant: the queue's pending count is not consulted.
MayPushBusyOnly == suspended = "no" /\ noteAge >= Quiet /\ sm.state = "IDLE"

\* The tests of UDS_LogPush_Poll and trySendNextItem. ISOTP_Send sets
\* tx_complete at once, so checkTxPending never holds a message back, and the
\* push context is always idle (IsoTpLink's LogContextInert).
MayPush == suspended = "no" /\ noteAge >= Quiet /\ sm.state = "IDLE" /\ queue = <<>>

\* UDS_LogPush_Poll holds the push back.
PushHold ==
  /\ pc = "push" /\ (~MayPush \/ logq = <<>>)
  /\ pc' = "get"
  /\ UNCHANGED <<vars, nowAge, pushVars>>

\* trySendNextItem takes the oldest message into the shared item buffer.
PushTake ==
  /\ pc = "push" /\ MayPush /\ logq # <<>>
  /\ pc' = "copy"
  /\ rxItem' = Head(logq) /\ logq' = Tail(logq)
  /\ UNCHANGED <<vars, nowAge, noteAge, rxFrames, rxComplete, suspended, txBuf,
                 produced, requested, pushed>>

\* sendQueuedItem copies the item's bytes...
PushCopy ==
  /\ pc = "copy"
  /\ pc' = "send"
  /\ txBuf' = rxItem
  /\ UNCHANGED <<vars, nowAge, noteAge, rxFrames, rxComplete, suspended, logq,
                 rxItem, produced, requested, pushed>>

\* ... and hands them to ISOTP_Send with the length it then reads.
PushSend ==
  /\ pc = "send"
  /\ pc' = "get"
  /\ Enqueue(Broadcast, PushLength)
  /\ pushed' = Append(pushed, [data |-> txBuf, len |-> rxItem])
  /\ UNCHANGED <<nowAge, noteAge, rxFrames, rxComplete, suspended, logq,
                 rxItem, txBuf, produced, requested>>

\* Mutant: closing the transfer does not resume the log stream.
TransferAbandonedStaysSuspended ==
  pc = "get" /\ suspended = "stream" /\ UNCHANGED allVars

\* A log download the client abandoned is closed by UDS_LogDownload_Poll's
\* inactivity timeout. An OTA download has no such poll: it ends in Handle, with
\* a request.
TransferAbandoned ==
  /\ pc = "get" /\ suspended = "stream"
  /\ suspended' = "no"
  /\ UNCHANGED <<vars, pc, nowAge, noteAge, rxFrames, rxComplete, logq, rxItem,
                 txBuf, produced, requested, pushed>>

RxLoop == Dispatch \/ DispatchTimeout \/ Handle \/ TxPoll
            \/ PushHold \/ PushTake \/ PushCopy \/ PushSend

PushNext ==
  \/ ClientRequest \/ ClientFlowControl \/ TimePasses \/ SendLogMessage
  \/ RxLoop \/ TransferAbandoned

PushSpec == PushInit /\ [][PushNext]_allVars

\* The RX thread runs its loop, the clock advances, and an abandoned stream is
\* closed at the end of some iteration (each iteration passes that point, and
\* the inactivity timeout holds from some moment on); nothing is assumed of the
\* client.
FairPushSpec ==
  PushSpec /\ WF_allVars(RxLoop) /\ WF_allVars(TimePasses) /\ SF_allVars(TransferAbandoned)

-----------------------------------------------------------------------------
PushTypeOK ==
  /\ TypeOK
  /\ pc \in {"get", "handle", "txpoll", "push", "copy", "send"}
  /\ rxFrames \in Seq({"req", "fc"}) /\ Len(rxFrames) <= RxDepth
  /\ rxComplete \in BOOLEAN /\ suspended \in {"no", "stream", "ota"}
  /\ nowAge \in 0..Quiet /\ noteAge \in 0..Quiet
  /\ logq \in Seq(1..MaxLogs) /\ Len(logq) <= LogQueueSize
  /\ rxItem \in 0..MaxLogs /\ txBuf \in 0..MaxLogs
  /\ produced \in 0..MaxLogs /\ requested \in 0..MaxRequests

\* However log messages and requests interleave, a reply queued by
\* UDS_ProcessRequest waits behind at most one log message: at most one
\* broadcast is in the transmit queue, at its head.
ReplyBehindOnePush ==
  \A i \in 1..Len(queue) : queue[i].target = Broadcast => i = 1

\* Each pushed frame is one log line: bytes and length come from one message.
OneLinePerPush == \A i \in 1..Len(pushed) : pushed[i].data = pushed[i].len

\* Once the client is quiet, every queued log message is pushed or overwritten:
\* neither a lost Flow Control nor an abandoned log download silences the log
\* stream. Only an OTA download that no request ever closes does.
LogsFlush == <>[](logq = <<>> \/ suspended = "ota")
=============================================================================
