-------------------------- MODULE LogDownloadProofs --------------------------
(***************************************************************************)
(* Proofs about LogDownload, for every ring, set of selectors, chunk size, *)
(* number of claim attempts and bound on requests, writes and troubles.    *)
(*                                                                         *)
(* The stream's hold on the arena and the writer, and the worker's on its  *)
(* request, are inductive as they stand. That the stream is the selection  *)
(* needs to know whose range is in sm at every point of a selection        *)
(* (SelectionInv). That the index describes the ring rests on the worker's *)
(* pin of the arena (PinInv) and on what the walk has passed (RowsInv):    *)
(* whatever changes a row moves the epoch, is a rotation, or needs the     *)
(* arena. That the stream is gapless rests on what the reader of the ring  *)
(* still owes (Owes): what the client has put together and what is owed    *)
(* are the selection (StreamInv), from one chunk to the next.              *)
(***************************************************************************)
EXTENDS LogDownload, FcbRingProofs

SmType ==
  /\ DOMAIN sm = {"state", "range", "hdr", "seq", "active", "done", "rc", "req"}
  /\ sm.state \in {"idle", "selected", "streaming"}
  /\ sm.active \in BOOLEAN /\ sm.done \in BOOLEAN

Arenas ==
  [owner : {"free", "ota", "flash", "index", "stream"}, content : {"free", "ota", "index"},
   gen : Nat, building : BOOLEAN]
ArenaType == arena \in Arenas

WorkerType ==
  /\ DOMAIN wk = {"pc", "req", "range", "rc", "tries", "todo", "snap", "errs"}
  /\ wk.pc \in {"wait", "claim", "ensure", "walk", "use", "scan", "release", "publish"}

HistType ==
  /\ DOMAIN hist = {"asked", "rangeOf", "streamed", "overtaken", "want", "chased", "unread",
                    "patched", "there", "blind", "missed", "reused"}
  /\ hist.overtaken \in BOOLEAN /\ hist.blind \in BOOLEAN

Entry == [k : {"boot", "start", "end", "data"}, id : Nat, no : Int, n : Nat \ {0}, ok : BOOLEAN]
Rings == [sec : [Sectors -> Seq(Entry)], old : Sectors, act : Sectors, cur : Nat]

\* Outside the sectors in use the ring is erased.
RingOk(r) == r \in Rings /\ \A s \in Sectors : ~Between(r, s) => r.sec[s] = <<>>

BudgetType == budget \in [{"reqs", "writes", "trouble", "all"} -> Nat] /\ dive \in Nat

EpochType ==
  /\ epoch \in Nat /\ owed \in BOOLEAN
  /\ idx \in [gen : Nat, valid : BOOLEAN, epoch : Nat]
  /\ wk.snap \in Nat /\ idx.epoch <= epoch /\ wk.snap <= epoch

\* The worker's pin: while it walks or reads the index the arena is the index's,
\* and the rows of a valid index were written by the last tenant that writes.
PinInv ==
  /\ idx.gen <= arena.gen
  /\ idx.valid /\ idx.gen = arena.gen => arena.content = "index"
  /\ wk.pc \in {"claim", "ensure", "walk", "use", "scan", "release"} => arena.building
  /\ wk.pc \in {"ensure", "walk", "use", "scan"} =>
       arena.owner = "index" /\ arena.content = "index" /\ idx.gen = arena.gen
  /\ wk.pc = "use" => idx.valid

Described(S) == \A s \in S : rows[s] = RowOf(ring.sec[s])

\* A valid index of the current epoch describes the ring; a walk begun in it
\* describes the sectors it has passed, and no older index passes for current.
RowsInv ==
  /\ DOMAIN rows = Sectors /\ wk.todo \in Seq(Sectors)
  /\ idx.valid /\ idx.gen = arena.gen /\ idx.epoch = epoch /\ ~owed /\ ~hist.blind =>
       Described(Sectors \ hist.reused)
  /\ wk.pc = "walk" => ~idx.valid \/ idx.epoch < epoch
  /\ wk.pc = "walk" /\ wk.snap = epoch /\ ~owed /\ ~hist.blind =>
       Described(Sectors \ (hist.reused \cup Range(wk.todo)))

\* Whose range is in sm: a request the worker has finished owns it until it is
\* consumed, and from the answer on nothing but another selection replaces it.
SelectionInv ==
  ~hist.overtaken =>
    /\ sm.active /\ sm.done => hist.rangeOf = sm.req
    /\ sm.state # "idle" => ~sm.active
    /\ sm.state = "selected" => hist.rangeOf = hist.asked
    /\ sm.state = "streaming" => hist.streamed = hist.asked

-----------------------------------------------------------------------------

\* A claim by a tenant keeps the arena well typed.
LEMMA Claimed ==
  ASSUME NEW a \in Arenas, NEW o \in {"ota", "flash", "index", "stream"}
  PROVE  Claim(a, o) \in Arenas
  <1>. DEFINE fresh == owner_writes_scratch(o) /\ o # a.content
              c == IF fresh THEN o ELSE a.content
              g == IF fresh THEN a.gen + 1 ELSE a.gen
  <1>1. c \in {"free", "ota", "index"} /\ g \in Nat
    BY DEF Arenas, owner_writes_scratch
  <1>2. Claim(a, o) = [[[a EXCEPT !.owner = o] EXCEPT !.content = c] EXCEPT !.gen = g]
    BY DEF Claim, Arenas
  <1>. HIDE DEF c, g
  <1>. QED BY <1>1, <1>2 DEF Arenas

\* fl_async_selector ends a stream, and then refuses or answers busy, consumes a
\* finished request, or takes a new one.
LEMMA SelectCases ==
  ASSUME SmType, NEW req, Select(req)
  PROVE  /\ paused' = (paused /\ sm.state # "streaming")
         /\ arena' = IF sm.state = "streaming" THEN Release(arena, "stream") ELSE arena
         /\ DOMAIN sm' = DOMAIN sm /\ sm'.range = sm.range /\ sm'.rc = sm.rc
         /\ \/ /\ UNCHANGED <<sem, hist>> /\ sm'.state = "idle"
               /\ sm'.active = sm.active /\ sm'.done = sm.done /\ sm'.req = sm.req
            \/ /\ sm.active /\ sm.done /\ sm.req = req /\ UNCHANGED sem
               /\ sm'.active = FALSE /\ sm'.done = FALSE /\ sm'.req = req
               /\ \/ sm'.state = "idle" /\ UNCHANGED hist
                  \/ sm'.state = "selected" /\ hist' = [hist EXCEPT !.asked = req]
            \/ /\ sem' = 1 /\ hist' = [hist EXCEPT !.overtaken = FALSE] /\ sm'.state = "idle"
               /\ sm'.active = TRUE /\ sm'.done = FALSE /\ sm'.req = req
  <1>. DEFINE idle == [sm EXCEPT !.state = "idle"]
              taken == [idle EXCEPT !.active = FALSE, !.done = FALSE]
              fresh == [idle EXCEPT !.req = req, !.active = TRUE, !.done = FALSE]
  <1>. USE DEF SmType
  <1>1. CASE /\ UNCHANGED <<sem, hist>> /\ StopStreaming(idle)
    BY <1>1 DEF StopStreaming
  <1>2. CASE /\ sm.active /\ sm.req = req /\ sm.done /\ UNCHANGED sem
             /\ StopStreaming(Finish(taken, sm.rc))
             /\ hist' = IF sm.rc = "ok" THEN [hist EXCEPT !.asked = req] ELSE hist
    <2>1. CASE sm.rc = "ok"
      BY <1>2, <2>1 DEF StopStreaming, Finish
    <2>2. CASE sm.rc # "ok"
      BY <1>2, <2>2 DEF StopStreaming, Finish
    <2>. QED BY <2>1, <2>2
  <1>3. CASE StopStreaming(fresh) /\ Kick /\ hist' = [hist EXCEPT !.overtaken = FALSE]
    BY <1>3 DEF StopStreaming, Kick
  <1>. QED BY <1>1, <1>2, <1>3 DEF Select

\* The machine of the requests keeps its shape.
LEMMA SmStep ==
  ASSUME SmType, [Next]_lvars  PROVE  SmType'
  <1>. USE DEF SmType
  <1>1. CASE WriterStep
    BY <1>1 DEF WriterStep, rxside
  <1>2. CASE TenantStep
    BY <1>2 DEF TenantStep, rxside
  <1>3. CASE Take /\ WorkerStep
    BY <1>3 DEF Take, WorkerStep
  <1>4. CASE ClaimIndex /\ WorkerStep
    BY <1>4 DEF ClaimIndex, WorkerStep
  <1>5. CASE ClaimDenied /\ WorkerStep
    BY <1>5 DEF ClaimDenied, WorkerStep
  <1>6. CASE Ensure /\ WorkerStep
    BY <1>6 DEF Ensure, WorkerStep
  <1>7. CASE Walk /\ WorkerStep
    BY <1>7 DEF Walk, WorkerStep
  <1>8. CASE BuildEnds /\ WorkerStep
    BY <1>8 DEF BuildEnds, WorkerStep
  <1>9. CASE Use /\ WorkerStep
    BY <1>9 DEF Use, Answer, WorkerStep
  <1>s. CASE Scan /\ WorkerStep
    BY <1>s DEF Scan, Answer, WorkerStep
  <1>10. CASE Unclaim /\ WorkerStep
    BY <1>10 DEF Unclaim, WorkerStep
  <1>11. CASE Publish /\ WorkerStep
    BY <1>11 DEF Publish, WorkerStep
  <1>12. CASE SelectAll /\ RxStep
    BY <1>12 DEF SelectAll, RxStep, StopStreaming, Finish
  <1>13. CASE BeginStream /\ RxStep
    BY <1>13 DEF BeginStream, RxStep, StopStreaming, Finish
  <1>14. CASE RequestDownload /\ RxStep
    BY <1>14 DEF RequestDownload, RxStep, StopStreaming, Finish
  <1>15. CASE TransferData /\ RxStep
    BY <1>15 DEF TransferData, Answered, RxStep, StopStreaming, Finish
  <1>16. CASE AnswerLost /\ RxStep
    BY <1>16 DEF AnswerLost, RxStep, StopStreaming, Finish
  <1>17. CASE ChunkFails /\ RxStep
    BY <1>17 DEF ChunkFails, RxStep, StopStreaming, Finish
  <1>f. CASE SearchFails /\ RxStep
    BY <1>f DEF SearchFails, Answered, RxStep, StopStreaming, Finish
  <1>18. CASE Poll /\ RxStep
    BY <1>18 DEF Poll, RxStep, StopStreaming, Finish
  <1>19. CASE TransferExit /\ RxStep
    BY <1>19 DEF TransferExit, RxStep, Poll, StopStreaming, Finish
  <1>20. ASSUME NEW req \in Selectors, Select(req), RxStep  PROVE SmType'
    BY <1>20, SelectCases
  <1>21. CASE UNCHANGED lvars
    BY <1>21 DEF lvars
  <1>. QED
    BY <1>s, <1>f, <1>1, <1>2, <1>3, <1>4, <1>5, <1>6, <1>7, <1>8, <1>9, <1>10, <1>11, <1>12, <1>13,
       <1>14, <1>15, <1>16, <1>17, <1>18, <1>19, <1>20, <1>21
    DEF Next, WorkerStep, RxStep

\* The arena keeps its shape.
LEMMA ArenaStep ==
  ASSUME SmType, ArenaType, [Next]_lvars  PROVE  ArenaType'
  <1>. USE DEF ArenaType
  <1>1. CASE WriterStep
    BY <1>1 DEF WriterStep
  <1>2. CASE TenantClaims /\ TenantStep
    BY <1>2, Claimed DEF TenantClaims, TenantStep
  <1>3. CASE TenantReleases /\ TenantStep
    BY <1>3 DEF TenantReleases, TenantStep, Release, Arenas
  <1>4. CASE EraseLog /\ TenantStep
    BY <1>4, Claimed DEF EraseLog, TenantStep, Release, Arenas
  <1>5. CASE Take /\ WorkerStep
    BY <1>5 DEF Take, WorkerStep, Arenas, Release, SetBuilding
  <1>6. CASE ClaimIndex /\ WorkerStep
    BY <1>6, Claimed DEF ClaimIndex, WorkerStep
  <1>7. CASE ClaimDenied /\ WorkerStep
    BY <1>7 DEF ClaimDenied, WorkerStep, Arenas, Release, SetBuilding
  <1>8. CASE Ensure /\ WorkerStep
    BY <1>8 DEF Ensure, WorkerStep, Arenas, Release, SetBuilding
  <1>9. CASE Walk /\ WorkerStep
    BY <1>9 DEF Walk, WorkerStep, Arenas, Release, SetBuilding
  <1>10. CASE BuildEnds /\ WorkerStep
    BY <1>10 DEF BuildEnds, WorkerStep, Arenas, Release, SetBuilding
  <1>11. CASE Use /\ WorkerStep
    BY <1>11 DEF Use, Answer, WorkerStep, Arenas, Release, SetBuilding
  <1>s. CASE Scan /\ WorkerStep
    BY <1>s DEF Scan, Answer, WorkerStep, Arenas, Release, SetBuilding
  <1>12. CASE Unclaim /\ WorkerStep
    BY <1>12 DEF Unclaim, WorkerStep, Arenas, Release, SetBuilding
  <1>13. CASE Publish /\ WorkerStep
    BY <1>13 DEF Publish, WorkerStep, Arenas, Release, SetBuilding
  <1>14. CASE SelectAll /\ RxStep
    BY <1>14 DEF SelectAll, RxStep, StopStreaming, Finish, Arenas, Release
  <1>15. CASE BeginStream /\ RxStep
    BY <1>15, Claimed DEF BeginStream, RxStep
  <1>16. CASE RequestDownload /\ RxStep
    BY <1>16 DEF RequestDownload, RxStep, StopStreaming, Finish, Arenas, Release
  <1>17. CASE TransferData /\ RxStep
    BY <1>17 DEF TransferData, Answered, RxStep, StopStreaming, Finish, Arenas, Release
  <1>18. CASE AnswerLost /\ RxStep
    BY <1>18 DEF AnswerLost, RxStep, StopStreaming, Finish, Arenas, Release
  <1>19. CASE ChunkFails /\ RxStep
    BY <1>19 DEF ChunkFails, RxStep, StopStreaming, Finish, Arenas, Release
  <1>f. CASE SearchFails /\ RxStep
    BY <1>f DEF SearchFails, Answered, RxStep, StopStreaming, Finish, Arenas, Release
  <1>20. CASE Poll /\ RxStep
    BY <1>20 DEF Poll, RxStep, StopStreaming, Finish, Arenas, Release
  <1>21. CASE TransferExit /\ RxStep
    BY <1>21 DEF TransferExit, RxStep, Poll, Arenas, Release, StopStreaming, Finish
  <1>22. ASSUME NEW req \in Selectors, Select(req), RxStep  PROVE ArenaType'
    BY <1>22, SelectCases DEF RxStep, Arenas, Release
  <1>23. CASE UNCHANGED lvars
    BY <1>23 DEF lvars
  <1>. QED
    BY <1>s, <1>f, <1>1, <1>2, <1>3, <1>4, <1>5, <1>6, <1>7, <1>8, <1>9, <1>10, <1>11, <1>12, <1>13,
       <1>14, <1>15, <1>16, <1>17, <1>18, <1>19, <1>20, <1>21, <1>22, <1>23
    DEF Next, TenantStep, WorkerStep, RxStep

\* The worker's answer ends the resolution of its request.
LEMMA AnswerIs ==
  ASSUME WorkerType, NEW range, Answer(range)
  PROVE  /\ wk'.pc = "release" /\ wk'.todo = <<>> /\ wk'.req = wk.req /\ wk'.snap = wk.snap
         /\ wk'.range = WholeRing \/ wk'.range = range
  BY DEF Answer, WorkerType

\* Until it answers the worker stays with its request.
LEMMA StaysWith ==
  ASSUME WorkerType, Use \/ Scan
  PROVE  /\ wk'.req = wk.req /\ wk'.snap = wk.snap /\ wk.pc # "wait"
         /\ wk'.pc \in {"release", "scan"}
  <1>. DEFINE Goal == wk'.req = wk.req /\ wk'.snap = wk.snap /\ wk'.pc \in {"release", "scan"}
  <1>0. wk.pc \in {"use", "scan"} /\ (Scan => wk.pc = "scan")
    BY DEF Use, Scan
  <1>1. ASSUME NEW range, Answer(range)  PROVE Goal
    BY <1>1, AnswerIs
  <1>2. ASSUME NEW t, wk' = [wk EXCEPT !.todo = t], Scan  PROVE Goal
    BY <1>0, <1>2 DEF WorkerType
  <1>3. ASSUME NEW t, wk' = [wk EXCEPT !.pc = "scan", !.todo = t]  PROVE Goal
    BY <1>3 DEF WorkerType
  <1>4. ASSUME Use  PROVE Goal
    <2>1. \/ \E range : Answer(range)
          \/ \E t : wk' = [wk EXCEPT !.pc = "scan", !.todo = t]
      BY <1>4, Zenon DEF Use
    <2>. HIDE DEF Goal
    <2>. QED BY <1>1, <1>3, <2>1, Zenon
  <1>5. ASSUME Scan  PROVE Goal
    <2>1. \/ \E range : Answer(range)
          \/ \E t : wk' = [wk EXCEPT !.todo = t]
      BY <1>5, Zenon DEF Scan
    <2>. HIDE DEF Goal
    <2>. QED BY <1>1, <1>2, <1>5, <2>1, Zenon
  <1>. QED BY <1>0, <1>4, <1>5

\* The worker keeps its shape.
LEMMA WorkerTypeStep ==
  ASSUME WorkerType, [Next]_lvars  PROVE  WorkerType'
  <1>. USE DEF WorkerType
  <1>1. CASE WriterStep
    BY <1>1 DEF WriterStep
  <1>2. CASE TenantStep
    BY <1>2 DEF TenantStep
  <1>3. CASE Take /\ WorkerStep
    BY <1>3 DEF Take, WorkerStep, Waiting
  <1>4. CASE ClaimIndex /\ WorkerStep
    BY <1>4 DEF ClaimIndex, WorkerStep, Waiting
  <1>5. CASE ClaimDenied /\ WorkerStep
    BY <1>5 DEF ClaimDenied, WorkerStep, Waiting
  <1>6. CASE Ensure /\ WorkerStep
    BY <1>6 DEF Ensure, WorkerStep, Waiting
  <1>7. CASE Walk /\ WorkerStep
    BY <1>7 DEF Walk, WorkerStep, Waiting
  <1>8. CASE BuildEnds /\ WorkerStep
    BY <1>8 DEF BuildEnds, WorkerStep, Waiting
  <1>9. CASE Use /\ WorkerStep
    BY <1>9 DEF Use, Answer, WorkerStep, Waiting
  <1>s. CASE Scan /\ WorkerStep
    BY <1>s DEF Scan, Answer, WorkerStep, Waiting
  <1>10. CASE Unclaim /\ WorkerStep
    BY <1>10 DEF Unclaim, WorkerStep, Waiting
  <1>11. CASE Publish /\ WorkerStep
    BY <1>11 DEF Publish, WorkerStep, Waiting
  <1>12. CASE RxStep
    BY <1>12 DEF RxStep
  <1>13. CASE UNCHANGED lvars
    BY <1>13 DEF lvars
  <1>. QED
    BY <1>s, <1>1, <1>2, <1>3, <1>4, <1>5, <1>6, <1>7, <1>8, <1>9, <1>10, <1>11, <1>12, <1>13
    DEF Next, WorkerStep

\* The histories keep their shape.
LEMMA HistStep ==
  ASSUME HistType, SmType, [Next]_lvars  PROVE  HistType'
  <1>. USE DEF HistType, SmType
  <1>1. CASE BeginFlush /\ WriterStep
    BY <1>1 DEF BeginFlush, WriterStep, Touched, Rotation
  <1>2. CASE EndFlush /\ WriterStep
    BY <1>2 DEF EndFlush, WriterStep, Touched, Rotation
  <1>3. CASE Write /\ WriterStep
    BY <1>3 DEF Write, WriterStep, Touched, Rotation
  <1>4. CASE MakeRoom /\ WriterStep
    BY <1>4 DEF MakeRoom, WriterStep, Touched, Rotation
  <1>5. CASE MoveEpoch /\ WriterStep
    BY <1>5 DEF MoveEpoch, WriterStep, Touched, Rotation
  <1>6. CASE TenantClaims /\ TenantStep
    BY <1>6 DEF TenantClaims, TenantStep, Touched, Rotation
  <1>7. CASE TenantReleases /\ TenantStep
    BY <1>7 DEF TenantReleases, TenantStep, Touched, Rotation
  <1>8. CASE EraseLog /\ TenantStep
    BY <1>8 DEF EraseLog, TenantStep, Touched, Rotation
  <1>9. CASE Take /\ WorkerStep
    BY <1>9 DEF Take, WorkerStep
  <1>10. CASE ClaimIndex /\ WorkerStep
    BY <1>10 DEF ClaimIndex, WorkerStep
  <1>11. CASE ClaimDenied /\ WorkerStep
    BY <1>11 DEF ClaimDenied, WorkerStep
  <1>12. CASE Ensure /\ WorkerStep
    BY <1>12 DEF Ensure, WorkerStep
  <1>13. CASE Walk /\ WorkerStep
    BY <1>13 DEF Walk, WorkerStep
  <1>14. CASE BuildEnds /\ WorkerStep
    BY <1>14 DEF BuildEnds, WorkerStep
  <1>15. CASE Use /\ WorkerStep
    BY <1>15 DEF Use, Answer, WorkerStep
  <1>s. CASE Scan /\ WorkerStep
    BY <1>s DEF Scan, Answer, WorkerStep
  <1>16. CASE Unclaim /\ WorkerStep
    BY <1>16 DEF Unclaim, WorkerStep
  <1>17. CASE Publish /\ WorkerStep
    BY <1>17 DEF Publish, WorkerStep
  <1>18. CASE SelectAll /\ RxStep
    BY <1>18 DEF SelectAll, RxStep, StopStreaming, Finish
  <1>19. CASE BeginStream /\ RxStep
    BY <1>19 DEF BeginStream, RxStep, StopStreaming, Finish
  <1>20. CASE RequestDownload /\ RxStep
    BY <1>20 DEF RequestDownload, RxStep, StopStreaming, Finish
  <1>21. CASE TransferData /\ RxStep
    BY <1>21 DEF TransferData, Answered, RxStep, StopStreaming, Finish
  <1>22. CASE AnswerLost /\ RxStep
    BY <1>22 DEF AnswerLost, RxStep, StopStreaming, Finish
  <1>23. CASE ChunkFails /\ RxStep
    BY <1>23 DEF ChunkFails, RxStep, StopStreaming, Finish
  <1>f. CASE SearchFails /\ RxStep
    BY <1>f DEF SearchFails, Answered, RxStep, StopStreaming, Finish
  <1>24. CASE Poll /\ RxStep
    BY <1>24 DEF Poll, RxStep, StopStreaming, Finish
  <1>25. CASE TransferExit /\ RxStep
    BY <1>25 DEF TransferExit, RxStep, Poll, StopStreaming, Finish
  <1>26. ASSUME NEW req \in Selectors, Select(req), RxStep  PROVE HistType'
    BY <1>26, SelectCases DEF RxStep
  <1>27. CASE UNCHANGED lvars
    BY <1>27 DEF lvars
  <1>. QED
    BY <1>s, <1>f, <1>1, <1>2, <1>3, <1>4, <1>5, <1>6, <1>7, <1>8, <1>9, <1>10, <1>11, <1>12, <1>13,
       <1>14, <1>15, <1>16, <1>17, <1>18, <1>19, <1>20, <1>21, <1>22, <1>23, <1>24, <1>25,
       <1>26, <1>27
    DEF Next, WriterStep, TenantStep, WorkerStep, RxStep

\* Nobody takes the arena or the writer from a stream, and whatever ends it gives
\* both back.
LEMMA HoldStep ==
  ASSUME SmType, ArenaType, StreamHolds, [Next]_lvars  PROVE  StreamHolds'
  <1>. USE DEF SmType, ArenaType, Arenas, StreamHolds
  <1>1. CASE WriterStep
    BY <1>1 DEF WriterStep, rxside
  <1>2. CASE TenantClaims /\ TenantStep
    BY <1>2 DEF TenantClaims, TenantStep, Claim, Release, SetBuilding, CanClaim,
         owner_writes_scratch, rxside, logside
  <1>3. CASE TenantReleases /\ TenantStep
    BY <1>3 DEF TenantReleases, TenantStep, Claim, Release, SetBuilding, CanClaim,
         owner_writes_scratch, rxside, logside
  <1>4. CASE EraseLog /\ TenantStep
    BY <1>4 DEF EraseLog, TenantStep, Claim, Release, SetBuilding, CanClaim, owner_writes_scratch,
         rxside, logside
  <1>5. CASE Take /\ WorkerStep
    BY <1>5 DEF Take, WorkerStep, Claim, Release, SetBuilding, CanClaim, owner_writes_scratch
  <1>6. CASE ClaimIndex /\ WorkerStep
    BY <1>6 DEF ClaimIndex, WorkerStep, Claim, Release, SetBuilding, CanClaim, owner_writes_scratch
  <1>7. CASE ClaimDenied /\ WorkerStep
    BY <1>7 DEF ClaimDenied, WorkerStep, Claim, Release, SetBuilding, CanClaim,
         owner_writes_scratch
  <1>8. CASE Ensure /\ WorkerStep
    BY <1>8 DEF Ensure, WorkerStep, Claim, Release, SetBuilding, CanClaim, owner_writes_scratch
  <1>9. CASE Walk /\ WorkerStep
    BY <1>9 DEF Walk, WorkerStep, Claim, Release, SetBuilding, CanClaim, owner_writes_scratch
  <1>10. CASE BuildEnds /\ WorkerStep
    BY <1>10 DEF BuildEnds, WorkerStep, Claim, Release, SetBuilding, CanClaim, owner_writes_scratch
  <1>11. CASE Use /\ WorkerStep
    BY <1>11 DEF Use, Answer, WorkerStep, Claim, Release, SetBuilding, CanClaim,
         owner_writes_scratch
  <1>s. CASE Scan /\ WorkerStep
    BY <1>s DEF Scan, Answer, WorkerStep, Claim, Release, SetBuilding, CanClaim,
         owner_writes_scratch
  <1>12. CASE Unclaim /\ WorkerStep
    BY <1>12 DEF Unclaim, WorkerStep, Claim, Release, SetBuilding, CanClaim, owner_writes_scratch
  <1>13. CASE Publish /\ WorkerStep
    BY <1>13 DEF Publish, WorkerStep, Claim, Release, SetBuilding, CanClaim, owner_writes_scratch
  <1>14. CASE SelectAll /\ RxStep
    BY <1>14 DEF SelectAll, RxStep, StopStreaming, Finish, Claim, Release, SetBuilding, CanClaim,
         owner_writes_scratch
  <1>15. CASE BeginStream /\ RxStep
    BY <1>15 DEF BeginStream, RxStep, StopStreaming, Finish, Claim, Release, SetBuilding, CanClaim,
         owner_writes_scratch
  <1>16. CASE RequestDownload /\ RxStep
    BY <1>16 DEF RequestDownload, RxStep, StopStreaming, Finish, Claim, Release, SetBuilding,
         CanClaim, owner_writes_scratch
  <1>17. CASE TransferData /\ RxStep
    BY <1>17 DEF TransferData, Answered, RxStep, StopStreaming, Finish, Claim, Release, SetBuilding,
         CanClaim,
         owner_writes_scratch
  <1>18. CASE AnswerLost /\ RxStep
    BY <1>18 DEF AnswerLost, RxStep, StopStreaming, Finish, Claim, Release, SetBuilding, CanClaim,
         owner_writes_scratch
  <1>19. CASE ChunkFails /\ RxStep
    BY <1>19 DEF ChunkFails, RxStep, StopStreaming, Finish, Claim, Release, SetBuilding, CanClaim,
         owner_writes_scratch
  <1>f. CASE SearchFails /\ RxStep
    BY <1>f DEF SearchFails, Answered, RxStep, StopStreaming, Finish, Claim, Release, SetBuilding,
         CanClaim,
         owner_writes_scratch
  <1>20. CASE Poll /\ RxStep
    BY <1>20 DEF Poll, RxStep, StopStreaming, Finish, Claim, Release, SetBuilding, CanClaim,
         owner_writes_scratch
  <1>21. CASE TransferExit /\ RxStep
    BY <1>21 DEF TransferExit, RxStep, Poll, StopStreaming, Finish, Claim, Release, SetBuilding,
         CanClaim, owner_writes_scratch
  <1>22. ASSUME NEW req \in Selectors, Select(req), RxStep  PROVE StreamHolds'
    BY <1>22, SelectCases DEF RxStep, Claim, Release, SetBuilding, CanClaim, owner_writes_scratch
  <1>23. CASE UNCHANGED lvars
    BY <1>23 DEF lvars
  <1>. QED
    BY <1>s, <1>f, <1>1, <1>2, <1>3, <1>4, <1>5, <1>6, <1>7, <1>8, <1>9, <1>10, <1>11, <1>12, <1>13,
       <1>14, <1>15, <1>16, <1>17, <1>18, <1>19, <1>20, <1>21, <1>22, <1>23
    DEF Next, TenantStep, WorkerStep, RxStep

\* The worker drops a request only when it has been replaced, which woke it again.
LEMMA RequestStep ==
  ASSUME SmType, WorkerType, RequestNotForgotten, [Next]_lvars  PROVE  RequestNotForgotten'
  <1>. USE DEF SmType, WorkerType, RequestNotForgotten
  <1>1. CASE WriterStep
    BY <1>1 DEF WriterStep, rxside
  <1>2. CASE TenantStep
    BY <1>2 DEF TenantStep, rxside
  <1>3. CASE Take /\ WorkerStep
    BY <1>3 DEF Take, WorkerStep, Waiting
  <1>4. CASE ClaimIndex /\ WorkerStep
    BY <1>4 DEF ClaimIndex, WorkerStep, Waiting
  <1>5. CASE ClaimDenied /\ WorkerStep
    BY <1>5 DEF ClaimDenied, WorkerStep, Waiting
  <1>6. CASE Ensure /\ WorkerStep
    <2>1. wk'.pc # "wait" /\ wk'.req = wk.req /\ UNCHANGED <<sm, sem>> /\ wk.pc # "wait"
      BY <1>6 DEF Ensure
    <2>. QED BY <2>1
  <1>7. CASE Walk /\ WorkerStep
    BY <1>7 DEF Walk, WorkerStep, Waiting
  <1>8. CASE BuildEnds /\ WorkerStep
    <2>1. wk'.pc # "wait" /\ wk'.req = wk.req /\ UNCHANGED <<sm, sem>> /\ wk.pc # "wait"
      BY <1>8 DEF BuildEnds
    <2>. QED BY <2>1
  <1>9. CASE Use /\ WorkerStep
    <2>1. UNCHANGED <<sm, sem>>
      BY <1>9 DEF Use
    <2>. QED BY <1>9, <2>1, StaysWith
  <1>s. CASE Scan /\ WorkerStep
    <2>1. UNCHANGED <<sm, sem>>
      BY <1>s DEF Scan
    <2>. QED BY <1>s, <2>1, StaysWith
  <1>10. CASE Unclaim /\ WorkerStep
    BY <1>10 DEF Unclaim, WorkerStep, Waiting
  <1>11. CASE Publish /\ WorkerStep
    BY <1>11 DEF Publish, WorkerStep, Waiting
  <1>12. CASE SelectAll /\ RxStep
    BY <1>12 DEF SelectAll, RxStep, StopStreaming, Finish
  <1>13. CASE BeginStream /\ RxStep
    BY <1>13 DEF BeginStream, RxStep, StopStreaming, Finish
  <1>14. CASE RequestDownload /\ RxStep
    BY <1>14 DEF RequestDownload, RxStep, StopStreaming, Finish
  <1>15. CASE TransferData /\ RxStep
    BY <1>15 DEF TransferData, Answered, RxStep, StopStreaming, Finish
  <1>16. CASE AnswerLost /\ RxStep
    BY <1>16 DEF AnswerLost, RxStep, StopStreaming, Finish
  <1>17. CASE ChunkFails /\ RxStep
    BY <1>17 DEF ChunkFails, RxStep, StopStreaming, Finish
  <1>f. CASE SearchFails /\ RxStep
    BY <1>f DEF SearchFails, Answered, RxStep, StopStreaming, Finish
  <1>18. CASE Poll /\ RxStep
    BY <1>18 DEF Poll, RxStep, StopStreaming, Finish
  <1>19. CASE TransferExit /\ RxStep
    BY <1>19 DEF TransferExit, RxStep, Poll, StopStreaming, Finish
  <1>20. ASSUME NEW req \in Selectors, Select(req), RxStep  PROVE RequestNotForgotten'
    BY <1>20, SelectCases DEF RxStep
  <1>21. CASE UNCHANGED lvars
    BY <1>21 DEF lvars
  <1>. QED
    BY <1>s, <1>f, <1>1, <1>2, <1>3, <1>4, <1>5, <1>6, <1>7, <1>8, <1>9, <1>10, <1>11, <1>12, <1>13,
       <1>14, <1>15, <1>16, <1>17, <1>18, <1>19, <1>20, <1>21
    DEF Next, WorkerStep, RxStep

\* The range in sm is the answered selection's.
LEMMA SelectionStep ==
  ASSUME SmType, HistType, SelectionInv, [Next]_lvars  PROVE  SelectionInv'
  <1>. USE DEF SmType, HistType, SelectionInv
  <1>1. CASE BeginFlush /\ WriterStep
    BY <1>1 DEF BeginFlush, WriterStep, Touched, Rotation, rxside
  <1>2. CASE EndFlush /\ WriterStep
    BY <1>2 DEF EndFlush, WriterStep, Touched, Rotation, rxside
  <1>3. CASE Write /\ WriterStep
    BY <1>3 DEF Write, WriterStep, Touched, Rotation, rxside
  <1>4. CASE MakeRoom /\ WriterStep
    BY <1>4 DEF MakeRoom, WriterStep, Touched, Rotation, rxside
  <1>5. CASE MoveEpoch /\ WriterStep
    BY <1>5 DEF MoveEpoch, WriterStep, Touched, Rotation, rxside
  <1>6. CASE TenantClaims /\ TenantStep
    BY <1>6 DEF TenantClaims, TenantStep, Touched, Rotation, rxside
  <1>7. CASE TenantReleases /\ TenantStep
    BY <1>7 DEF TenantReleases, TenantStep, Touched, Rotation, rxside
  <1>8. CASE EraseLog /\ TenantStep
    BY <1>8 DEF EraseLog, TenantStep, Touched, Rotation, rxside
  <1>9. CASE Take /\ WorkerStep
    BY <1>9 DEF Take, WorkerStep
  <1>10. CASE ClaimIndex /\ WorkerStep
    BY <1>10 DEF ClaimIndex, WorkerStep
  <1>11. CASE ClaimDenied /\ WorkerStep
    BY <1>11 DEF ClaimDenied, WorkerStep
  <1>12. CASE Ensure /\ WorkerStep
    BY <1>12 DEF Ensure, WorkerStep
  <1>13. CASE Walk /\ WorkerStep
    BY <1>13 DEF Walk, WorkerStep
  <1>14. CASE BuildEnds /\ WorkerStep
    BY <1>14 DEF BuildEnds, WorkerStep
  <1>15. CASE Use /\ WorkerStep
    BY <1>15 DEF Use, Answer, WorkerStep
  <1>s. CASE Scan /\ WorkerStep
    BY <1>s DEF Scan, Answer, WorkerStep
  <1>16. CASE Unclaim /\ WorkerStep
    BY <1>16 DEF Unclaim, WorkerStep
  <1>17. CASE Publish /\ WorkerStep
    <2>1. CASE sm.active /\ ~sm.done /\ sm.req = wk.req
      <3>1. /\ sm' = [sm EXCEPT !.range = wk.range, !.rc = wk.rc, !.done = TRUE]
            /\ hist' = [hist EXCEPT !.rangeOf = wk.req, !.there = {}, !.missed = FALSE]
        BY <1>17, <2>1 DEF Publish
      <3>2. sm'.state = sm.state /\ sm'.active = TRUE /\ sm'.req = wk.req
        BY <2>1, <3>1
      <3>3. /\ hist'.rangeOf = wk.req /\ hist'.overtaken = hist.overtaken
            /\ hist'.asked = hist.asked /\ hist'.streamed = hist.streamed
        BY <3>1
      <3>. QED BY <2>1, <3>2, <3>3
    <2>2. CASE ~(sm.active /\ ~sm.done /\ sm.req = wk.req)
      BY <1>17, <2>2 DEF Publish
    <2>. QED BY <2>1, <2>2
  <1>18. CASE SelectAll /\ RxStep
    BY <1>18 DEF SelectAll, RxStep, StopStreaming, Finish
  <1>19. CASE BeginStream /\ RxStep
    BY <1>19 DEF BeginStream, RxStep, StopStreaming, Finish
  <1>20. CASE RequestDownload /\ RxStep
    BY <1>20 DEF RequestDownload, RxStep, StopStreaming, Finish
  <1>21. CASE TransferData /\ RxStep
    BY <1>21 DEF TransferData, Answered, RxStep, StopStreaming, Finish
  <1>22. CASE AnswerLost /\ RxStep
    BY <1>22 DEF AnswerLost, RxStep, StopStreaming, Finish
  <1>23. CASE ChunkFails /\ RxStep
    BY <1>23 DEF ChunkFails, RxStep, StopStreaming, Finish
  <1>f. CASE SearchFails /\ RxStep
    BY <1>f DEF SearchFails, Answered, RxStep, StopStreaming, Finish
  <1>24. CASE Poll /\ RxStep
    BY <1>24 DEF Poll, RxStep, StopStreaming, Finish
  <1>25. CASE TransferExit /\ RxStep
    BY <1>25 DEF TransferExit, RxStep, Poll, StopStreaming, Finish
  <1>26. ASSUME NEW req \in Selectors, Select(req), RxStep  PROVE SelectionInv'
    <2>1. CASE /\ UNCHANGED hist /\ sm'.state = "idle"
               /\ sm'.active = sm.active /\ sm'.done = sm.done /\ sm'.req = sm.req
      BY <2>1
    <2>2. CASE sm'.active = FALSE /\ sm'.state = "idle"
      BY <2>2
    <2>3. CASE /\ sm.active /\ sm.done /\ sm.req = req /\ sm'.active = FALSE
               /\ sm'.state = "selected" /\ hist' = [hist EXCEPT !.asked = req]
      BY <2>3
    <2>4. CASE sm'.state = "idle" /\ sm'.done = FALSE
      BY <2>4
    <2>. QED BY <1>26, <2>1, <2>2, <2>3, <2>4, SelectCases
  <1>27. CASE UNCHANGED lvars
    BY <1>27 DEF lvars
  <1>. QED
    BY <1>s, <1>f, <1>1, <1>2, <1>3, <1>4, <1>5, <1>6, <1>7, <1>8, <1>9, <1>10, <1>11, <1>12, <1>13,
       <1>14, <1>15, <1>16, <1>17, <1>18, <1>19, <1>20, <1>21, <1>22, <1>23, <1>24, <1>25,
       <1>26, <1>27
    DEF Next, WriterStep, TenantStep, WorkerStep, RxStep

-----------------------------------------------------------------------------
(* The ring.                                                               *)

\* Every non-empty set of numbers has a least one, and Min is it.
LEMMA MinIn ==
  ASSUME NEW T, T \subseteq Nat, T # {}
  PROVE  Min(T) \in T /\ \A k \in T : Min(T) =< k
  <1>1. \E x \in T : \A y \in T : x =< y
    BY LeastIn
  <1>. QED BY <1>1 DEF Min

\* The row of a sector is a matter of its markers: an entry that is no marker
\* added, or entries losing their end marks, leave it as it is.
LEMMA SameRow ==
  ASSUME NEW p \in Seq(Entry), NEW q \in Seq(Entry), Len(p) <= Len(q),
         \A i \in 1..Len(p) : p[i].k = q[i].k /\ p[i].id = q[i].id,
         \A i \in 1..Len(q) : i > Len(p) => q[i].k = "data"
  PROVE  RowOf(q) = RowOf(p)
  <1>0. DOMAIN p = 1..Len(p) /\ DOMAIN q = 1..Len(q) /\ Len(p) \in Nat /\ Len(q) \in Nat
    OBVIOUS
  <1>1. ASSUME NEW kinds, "data" \notin kinds  PROVE FirstId(q, kinds) = FirstId(p, kinds)
    <2>. DEFINE I == {i \in DOMAIN p : p[i].k \in kinds}
    <2>1. I = {i \in DOMAIN q : q[i].k \in kinds}
      BY <1>0, <1>1
    <2>2. I # {} => Min(I) \in I
      <3>1. I \subseteq Nat
        BY <1>0
      <3>. HIDE DEF I
      <3>. QED BY <3>1, MinIn
    <2>3. I # {} => q[Min(I)].id = p[Min(I)].id
      <3>. SUFFICES ASSUME I # {} PROVE q[Min(I)].id = p[Min(I)].id
        OBVIOUS
      <3>1. Min(I) \in 1..Len(p)
        BY <1>0, <2>2
      <3>. QED BY <3>1
    <2>. HIDE DEF I
    <2>4. FirstId(p, kinds) = IF I = {} THEN 0 ELSE p[Min(I)].id
      BY Zenon DEF FirstId, I
    <2>5. FirstId(q, kinds) = IF I = {} THEN 0 ELSE q[Min(I)].id
      BY <2>1, Zenon DEF FirstId
    <2>. QED BY <2>3, <2>4, <2>5
  <1>2. FirstId(q, {"boot"}) = FirstId(p, {"boot"})
        /\ FirstId(q, {"start", "end"}) = FirstId(p, {"start", "end"})
    BY <1>1
  <1>3. MarkersOf(q) = MarkersOf(p) /\ MarkersOf(p) \subseteq 1..Len(p)
    BY <1>0 DEF MarkersOf
  <1>4. {q[i].k : i \in MarkersOf(q)} = {p[i].k : i \in MarkersOf(p)}
    BY <1>3
  <1>. QED BY <1>2, <1>4, Zenon DEF RowOf

\* What programming may leave of a sector: one more entry, or its old ones unmarked.
LEMMA Appended ==
  ASSUME NEW o \in Seq(Entry), NEW e \in Entry
  PROVE  LET t == Append(o, e) IN
         /\ t \in Seq(Entry) /\ Len(o) <= Len(t)
         /\ \A i \in 1..Len(o) : o[i].k = t[i].k /\ o[i].id = t[i].id
         /\ \A i \in 1..Len(t) : i > Len(o) => t[i].k = e.k
  <1>. DEFINE t == Append(o, e)
  <1>1. /\ t \in Seq(Entry) /\ Len(t) = Len(o) + 1 /\ Len(o) \in Nat
        /\ t[Len(o) + 1] = e /\ \A i \in 1..Len(o) : t[i] = o[i]
    OBVIOUS
  <1>. HIDE DEF t
  <1>2. \A i \in 1..Len(t) : i > Len(o) => i = Len(o) + 1
    BY <1>1
  <1>3. \A i \in 1..Len(o) : o[i].k = t[i].k /\ o[i].id = t[i].id
    BY <1>1
  <1>4. \A i \in 1..Len(t) : i > Len(o) => t[i].k = e.k
    BY <1>1, <1>2
  <1>5. Len(o) <= Len(t)
    BY <1>1
  <1>. QED BY <1>1, <1>3, <1>4, <1>5 DEF t

LEMMA Unmarked ==
  ASSUME NEW o \in Seq(Entry)
  PROVE  LET t == [i \in DOMAIN o |-> [o[i] EXCEPT !.ok = FALSE]] IN
         /\ t \in Seq(Entry) /\ Len(o) = Len(t)
         /\ \A i \in 1..Len(o) : o[i].k = t[i].k /\ o[i].id = t[i].id
  <1>. DEFINE g(i) == [o[i] EXCEPT !.ok = FALSE]
              t == [i \in DOMAIN o |-> g(i)]
  <1>1. DOMAIN o = 1..Len(o) /\ Len(o) \in Nat /\ \A i \in 1..Len(o) : o[i] \in Entry
    OBVIOUS
  <1>2. \A i \in 1..Len(o) : g(i) \in Entry /\ g(i).k = o[i].k /\ g(i).id = o[i].id
    BY <1>1 DEF Entry
  <1>. HIDE DEF g
  <1>3. t \in Seq(Entry) /\ Len(t) = Len(o) /\ \A i \in 1..Len(o) : t[i] = g(i)
    BY <1>1, <1>2
  <1>. QED BY <1>2, <1>3 DEF g

\* Appending keeps the ring in order, and changes rows only when it writes a marker.
LEMMA PutKeeps ==
  ASSUME NEW r, RingOk(r), NEW e \in Entry, HasRoom(r, e.n)
  PROVE  /\ RingOk(PutEntry(r, e))
         /\ e.k = "data" => \A s \in Sectors : RowOf(PutEntry(r, e).sec[s]) = RowOf(r.sec[s])
  <1>. DEFINE a == IF Fits(r, e.n) THEN r.act ELSE Succ(r.act)
              c == IF Fits(r, e.n) THEN r.cur ELSE 0
              o == r.sec[a]
              t == IF c = Used(o) THEN Append(o, e)
                   ELSE [i \in DOMAIN o |-> [o[i] EXCEPT !.ok = FALSE]]
              new == PutEntry(r, e)
  <1>1. r \in Rings /\ r.sec \in [Sectors -> Seq(Entry)] /\ r.old \in Sectors /\ r.act \in Sectors
        /\ r.cur \in Nat
    BY DEF RingOk, Rings
  <1>2. a \in Sectors /\ c \in Nat /\ e.n \in Nat
    BY <1>1, SuccIs DEF Entry
  <1>3. o \in Seq(Entry) /\ Len(o) \in Nat
    <2>. HIDE DEF a
    <2>. QED BY <1>1, <1>2
  <1>4. /\ t \in Seq(Entry) /\ Len(o) <= Len(t)
        /\ \A i \in 1..Len(o) : o[i].k = t[i].k /\ o[i].id = t[i].id
        /\ \A i \in 1..Len(t) : i > Len(o) => t[i].k = e.k
    <2>. HIDE DEF o, c
    <2>1. CASE c = Used(o)
      <3>1. t = Append(o, e)
        BY <2>1
      <3>. HIDE DEF t
      <3>. QED BY <1>3, <3>1, Appended
    <2>2. CASE c # Used(o)
      <3>1. t = [i \in DOMAIN o |-> [o[i] EXCEPT !.ok = FALSE]]
        BY <2>2
      <3>. HIDE DEF t
      <3>2. t \in Seq(Entry) /\ Len(o) = Len(t)
            /\ \A i \in 1..Len(o) : o[i].k = t[i].k /\ o[i].id = t[i].id
        BY <1>3, <3>1, Unmarked
      <3>. QED BY <1>3, <3>2
    <2>. QED BY <2>1, <2>2
  <1>5. new = [sec |-> [r.sec EXCEPT ![a] = t], old |-> r.old, act |-> a, cur |-> c + e.n]
    <2>1. CASE Fits(r, e.n)
      <3>1. new = [r EXCEPT !.cur = r.cur + e.n, !.sec[r.act] = t] /\ a = r.act /\ c = r.cur
        BY <2>1, Zenon DEF PutEntry
      <3>. HIDE DEF new, t, a, c
      <3>. QED BY <1>1, <3>1 DEF Rings
    <2>2. CASE ~Fits(r, e.n)
      <3>. DEFINE r1 == [r EXCEPT !.act = Succ(r.act), !.cur = 0]
      <3>1. r1.act = a /\ r1.cur = c /\ r1.sec = r.sec /\ a = Succ(r.act) /\ c = 0
            /\ r1.old = r.old /\ r1 \in Rings
        BY <1>1, <1>2, <2>2 DEF Rings
      <3>2. PutEntry(r, e) = [r1 EXCEPT !.cur = r1.cur + e.n, !.sec[r1.act] =
                                IF r1.cur = Used(r1.sec[r1.act]) THEN Append(r1.sec[r1.act], e)
                                ELSE [i \in DOMAIN r1.sec[r1.act] |->
                                        [r1.sec[r1.act][i] EXCEPT !.ok = FALSE]]]
        <4>. DEFINE rr == IF Fits(r, e.n) THEN r ELSE r1
        <4>1. PutEntry(r, e) = [rr EXCEPT !.cur = rr.cur + e.n, !.sec[rr.act] =
                                  IF rr.cur = Used(rr.sec[rr.act]) THEN Append(rr.sec[rr.act], e)
                                  ELSE [i \in DOMAIN rr.sec[rr.act] |->
                                          [rr.sec[rr.act][i] EXCEPT !.ok = FALSE]]]
          BY Zenon DEF PutEntry
        <4>2. rr = r1
          BY <2>2, Zenon
        <4>. HIDE DEF rr, r1
        <4>. QED BY <4>1, <4>2, Zenon
      <3>. HIDE DEF r1, a, c
      <3>3. new = [r1 EXCEPT !.cur = c + e.n, !.sec[a] = t]
        BY <3>1, <3>2
      <3>. HIDE DEF new
      <3>. HIDE DEF t
      <3>. QED BY <3>1, <3>3 DEF Rings
    <2>. QED BY <2>1, <2>2
  <1>6. a = r.act \/ (a = Succ(r.act) /\ a # r.old)
    BY DEF HasRoom
  <1>. HIDE DEF t, a, c, new
  <1>7. /\ new \in Rings /\ new.old = r.old /\ new.act = a
        /\ \A s \in Sectors : new.sec[s] = IF s = a THEN t ELSE r.sec[s]
    BY <1>1, <1>2, <1>4, <1>5 DEF Rings
  <1>8. Between(new, a) /\ \A s \in Sectors : Between(r, s) => Between(new, s)
    <2>1. CASE a = r.act
      BY <1>1, <1>7, <2>1 DEF Between, Sectors
    <2>2. CASE a = Succ(r.act) /\ a # r.old
      <3>1. a = IF r.act + 1 = NSectors THEN 0 ELSE r.act + 1
        BY <1>1, <2>2, SuccIs
      <3>2. a \in Nat /\ r.old \in Nat /\ r.act \in Nat /\ r.old < NSectors /\ r.act < NSectors
            /\ a # r.old /\ NSectors \in Nat /\ new.old = r.old /\ new.act = a
        BY <1>1, <1>2, <1>7, <2>2, Sizes DEF Sectors
      <3>3. Between(new, a)
        BY <3>2 DEF Between
      <3>4. ASSUME NEW s \in Sectors, Between(r, s)  PROVE Between(new, s)
        <4>1. s \in Nat /\ s < NSectors
          BY Sizes DEF Sectors
        <4>. QED BY <3>1, <3>2, <3>4, <4>1 DEF Between
      <3>. QED BY <3>3, <3>4
    <2>. QED BY <1>6, <2>1, <2>2
  <1>9. RingOk(new)
    BY <1>7, <1>8 DEF RingOk
  <1>10. ASSUME e.k = "data", NEW s \in Sectors PROVE RowOf(new.sec[s]) = RowOf(r.sec[s])
    <2>1. CASE s = a
      <3>1. new.sec[s] = t /\ r.sec[s] = o
        BY <1>7, <2>1
      <3>2. RowOf(t) = RowOf(o)
        <4>. HIDE DEF o
        <4>. QED BY <1>3, <1>4, <1>10, SameRow
      <3>. QED BY <3>1, <3>2
    <2>2. CASE s # a
      <3>1. new.sec[s] = r.sec[s]
        BY <1>7, <2>2
      <3>. QED BY <3>1
    <2>. QED BY <2>1, <2>2
  <1>. QED BY <1>9, <1>10 DEF new

\* Rotation erases the oldest sector and nothing else.
LEMMA RotateKeeps ==
  ASSUME NEW r, RingOk(r)
  PROVE  RingOk(Rotate(r)) /\ \A s \in Sectors \ {r.old} : Rotate(r).sec[s] = r.sec[s]
  <1>. DEFINE a == IF r.old = r.act THEN Succ(r.act) ELSE r.act
              c == IF r.old = r.act THEN 0 ELSE r.cur
              new == Rotate(r)
  <1>1. r \in Rings /\ r.sec \in [Sectors -> Seq(Entry)] /\ r.old \in Sectors /\ r.act \in Sectors
        /\ r.cur \in Nat
    BY DEF RingOk, Rings
  <1>2. a \in Sectors /\ c \in Nat /\ <<>> \in Seq(Entry)
    BY <1>1, SuccIs
  <1>3. new = [sec |-> [r.sec EXCEPT ![r.old] = <<>>], old |-> Succ(r.old), act |-> a, cur |-> c]
    BY <1>1 DEF Rotate, Rings
  <1>. HIDE DEF new, c
  <1>4. /\ new \in Rings /\ new.old = Succ(r.old) /\ new.act = a
        /\ \A s \in Sectors : new.sec[s] = IF s = r.old THEN <<>> ELSE r.sec[s]
    BY <1>1, <1>2, <1>3, SuccIs DEF Rings
  <1>5. \A s \in Sectors : Between(r, s) /\ s # r.old => Between(new, s)
    <2>1. Succ(r.old) = IF r.old + 1 = NSectors THEN 0 ELSE r.old + 1
      BY <1>1, SuccIs
    <2>2. CASE r.old = r.act
      BY <1>1, <1>2, <1>4, <2>1, <2>2, Sizes DEF Between, Sectors
    <2>3. CASE r.old # r.act
      BY <1>1, <1>2, <1>4, <2>1, <2>3, Sizes DEF Between, Sectors
    <2>. QED BY <2>2, <2>3
  <1>6. RingOk(new)
    BY <1>4, <1>5 DEF RingOk
  <1>. QED BY <1>4, <1>6 DEF new

\* The walk visits every sector from the oldest to the active one.
LEMMA UseCovers ==
  ASSUME NEW r \in Rings
  PROVE  InUse(r) \in Seq(Sectors) /\ \A s \in Sectors : Between(r, s) => s \in Range(InUse(r))
  <1>. DEFINE use == InUse(r)
  <1>1. r.old \in Sectors /\ r.act \in Sectors
    BY DEF Rings
  <1>2. /\ use \in Seq(Sectors) /\ Len(use) = Span(r)
        /\ \A i \in 1..Span(r) : use[i] = Nth(r, i)
    BY <1>1, InUseIs
  <1>3. \A s \in Sectors : Between(r, s) => \E i \in 1..Span(r) : Nth(r, i) = s
    BY <1>1, NthIs
  <1>. HIDE DEF use
  <1>. QED BY <1>2, <1>3 DEF Range, use

-----------------------------------------------------------------------------
(* The index.                                                              *)

\* Spending from one bound leaves a natural number of each (Spend).
LEMMA Spends ==
  ASSUME BudgetType, NEW b \in {"reqs", "writes", "trouble"}, Spend(b)
  PROVE  budget' \in [{"reqs", "writes", "trouble", "all"} -> Nat]
  <1>. DEFINE D == {"reqs", "writes", "trouble", "all"}
  <1>1. budget \in [D -> Nat] /\ budget[b] > 0 /\ budget.all > 0 /\ b # "all" /\ b \in D
        /\ budget' = [budget EXCEPT ![b] = @ - 1, !["all"] = @ - 1]
    BY DEF BudgetType, Spend
  <1>2. budget[b] - 1 \in Nat /\ budget["all"] - 1 \in Nat
    BY <1>1
  <1>3. budget' = [x \in D |-> IF x = "all" THEN budget["all"] - 1
                               ELSE IF x = b THEN budget[b] - 1 ELSE budget[x]]
    BY <1>1
  <1>. QED BY <1>1, <1>2, <1>3

\* Bounds are spent one at a time.
LEMMA BudgetStep ==
  ASSUME BudgetType, [Next]_lvars  PROVE  BudgetType'
  <1>. USE DEF BudgetType
  <1>d. dive' \in Nat
    <2>1. CASE Write
      <3>. DEFINE es == IF flushed THEN {E("data", 0, 0), E("start", dive + 1, 0),
                          E("end", dive, 0)}
                        ELSE {E("boot", 2, 0)}
      <3>1. PICK e \in es : dive' = IF e.k = "start" THEN e.id ELSE dive
        BY <2>1 DEF Write
      <3>2. e.id \in {0, 2, dive, dive + 1}
        BY DEF E
      <3>. QED BY <3>1, <3>2
    <2>2. CASE WriterStep /\ ~Write
      BY <2>2 DEF WriterStep, BeginFlush, EndFlush, MakeRoom, Rotation, MoveEpoch
    <2>3. CASE TenantStep
      BY <2>3 DEF TenantStep, TenantClaims, TenantReleases, EraseLog, logside
    <2>4. CASE WorkerStep \/ RxStep \/ UNCHANGED lvars
      BY <2>4 DEF WorkerStep, RxStep, logside, lvars
    <2>. QED BY <2>1, <2>2, <2>3, <2>4 DEF Next
  <1>. SUFFICES budget' \in [{"reqs", "writes", "trouble", "all"} -> Nat]
    BY <1>d
  <1>p. \A b \in {"reqs", "writes", "trouble"} :
          Spend(b) => budget' \in [{"reqs", "writes", "trouble", "all"} -> Nat]
    BY Spends
  <1>1. CASE BeginFlush /\ WriterStep
    BY <1>1 DEF BeginFlush, WriterStep, Spend, Rotation
  <1>2. CASE EndFlush /\ WriterStep
    BY <1>2 DEF EndFlush, WriterStep, Spend, Rotation
  <1>3. CASE Write /\ WriterStep
    BY <1>3, <1>p DEF Write, WriterStep, Rotation
  <1>4. CASE MakeRoom /\ WriterStep
    BY <1>4 DEF MakeRoom, WriterStep, Spend, Rotation
  <1>5. CASE MoveEpoch /\ WriterStep
    BY <1>5 DEF MoveEpoch, WriterStep, Spend, Rotation
  <1>6. CASE TenantClaims /\ TenantStep
    BY <1>6, <1>p DEF TenantClaims, TenantStep
  <1>7. CASE TenantReleases /\ TenantStep
    BY <1>7 DEF TenantReleases, TenantStep, Spend
  <1>8. CASE EraseLog /\ TenantStep
    BY <1>8, <1>p DEF EraseLog, TenantStep
  <1>9. CASE Take /\ WorkerStep
    BY <1>9 DEF Take, WorkerStep, Spend
  <1>10. CASE ClaimIndex /\ WorkerStep
    BY <1>10 DEF ClaimIndex, WorkerStep, Spend
  <1>11. CASE ClaimDenied /\ WorkerStep
    BY <1>11 DEF ClaimDenied, WorkerStep, Spend
  <1>12. CASE Ensure /\ WorkerStep
    BY <1>12 DEF Ensure, WorkerStep, Spend
  <1>13. CASE Walk /\ WorkerStep
    BY <1>13, <1>p DEF Walk, WorkerStep
  <1>14. CASE BuildEnds /\ WorkerStep
    BY <1>14 DEF BuildEnds, WorkerStep, Spend
  <1>15. CASE Use /\ WorkerStep
    BY <1>15, <1>p DEF Use, Answer, WorkerStep
  <1>s. CASE Scan /\ WorkerStep
    BY <1>s, <1>p DEF Scan, Answer, WorkerStep
  <1>16. CASE Unclaim /\ WorkerStep
    BY <1>16 DEF Unclaim, WorkerStep, Spend
  <1>17. CASE Publish /\ WorkerStep
    BY <1>17 DEF Publish, WorkerStep, Spend
  <1>18. CASE SelectAll /\ RxStep
    BY <1>18, <1>p DEF SelectAll, RxStep
  <1>19. CASE BeginStream /\ RxStep
    BY <1>19, <1>p DEF BeginStream, RxStep
  <1>20. CASE RequestDownload /\ RxStep
    BY <1>20 DEF RequestDownload, RxStep, Spend
  <1>21. CASE TransferData /\ RxStep
    BY <1>21 DEF TransferData, Answered, RxStep, Spend
  <1>22. CASE AnswerLost /\ RxStep
    BY <1>22, <1>p DEF AnswerLost, RxStep
  <1>23. CASE ChunkFails /\ RxStep
    BY <1>23, <1>p DEF ChunkFails, RxStep
  <1>f. CASE SearchFails /\ RxStep
    <2>1. Spend("trouble")
      BY <1>f DEF SearchFails
    <2>. QED BY <1>p, <2>1
  <1>24. CASE TransferExit /\ RxStep
    BY <1>24 DEF TransferExit, RxStep, Spend, Poll
  <1>25. CASE Poll /\ RxStep
    BY <1>25 DEF Poll, RxStep, Spend
  <1>26. ASSUME NEW req \in Selectors, Select(req), RxStep
        PROVE  budget' \in [{"reqs", "writes", "trouble", "all"} -> Nat]
    <2>1. UNCHANGED budget \/ Spend("reqs")
      BY <1>26, Zenon DEF Select
    <2>. QED BY <1>p, <2>1
  <1>27. CASE UNCHANGED lvars
    BY <1>27 DEF lvars
  <1>. QED
    BY <1>s, <1>f, <1>1, <1>2, <1>3, <1>4, <1>5, <1>6, <1>7, <1>8, <1>9, <1>10, <1>11, <1>12, <1>13,
       <1>14, <1>15, <1>16, <1>17, <1>18, <1>19, <1>20, <1>21, <1>22, <1>23, <1>24, <1>25,
       <1>26, <1>27
    DEF Next, WriterStep, TenantStep, WorkerStep, RxStep

\* An entry is one.
LEMMA EntryIs ==
  ASSUME NEW k \in {"boot", "start", "end", "data"}, NEW id \in Nat, NEW no \in Int
  PROVE  E(k, id, no) \in Entry
  <1>. DEFINE n == IF k = "data" THEN 2 ELSE 1
  <1>1. n \in Nat \ {0}
    OBVIOUS
  <1>2. E(k, id, no) = [k |-> k, id |-> id, no |-> no, n |-> n, ok |-> TRUE]
    BY Zenon DEF E
  <1>. HIDE DEF n
  <1>. QED BY <1>1, <1>2 DEF Entry

\* The ring the head starts with.
LEMMA OldRingOk == RingOk(OldRing)
  <1>. DEFINE s0 == <<E("boot", 1, 1), E("data", 0, 2)>>
              s1 == <<E("start", 1, 3)>>
  <1>1. s0 \in Seq(Entry) /\ s1 \in Seq(Entry) /\ <<>> \in Seq(Entry)
    <2>1. E("boot", 1, 1) \in Entry /\ E("data", 0, 2) \in Entry /\ E("start", 1, 3) \in Entry
      BY EntryIs
    <2>. QED BY <2>1
  <1>2. 0 \in Sectors /\ 1 \in Sectors
    BY Sizes DEF Sectors
  <1>3. OldRing = [sec |-> [[[s \in Sectors |-> <<>>] EXCEPT ![0] = s0] EXCEPT ![1] = s1],
                   old |-> 0, act |-> 1, cur |-> 1]
    BY <1>2 DEF OldRing, EmptyRing
  <1>. HIDE DEF s0, s1
  <1>4. OldRing \in Rings
    BY <1>1, <1>2, <1>3 DEF Rings
  <1>5. \A s \in Sectors : s # 0 /\ s # 1 => OldRing.sec[s] = <<>>
    BY <1>2, <1>3
  <1>6. \A s \in Sectors : ~Between(OldRing, s) => s # 0 /\ s # 1
    BY <1>3, Sizes DEF Between, Sectors
  <1>. QED BY <1>4, <1>5, <1>6 DEF RingOk

\* An entry the writer puts: which kind it is, and that it had room for it.
LEMMA Written ==
  ASSUME BudgetType, Write
  PROVE  \E e \in Entry : /\ HasRoom(ring, e.n) /\ ring' = PutEntry(ring, e)
                          /\ owed' = (e.k # "data")
  <1>1. PICK f \in IF flushed THEN {E("data", 0, 0), E("start", dive + 1, 0), E("end", dive, 0)}
                   ELSE {E("boot", 2, 0)} :
          /\ HasRoom(ring, f.n)
          /\ ring' = PutEntry(ring, [f EXCEPT !.no = OldEntries + MaxWrites - budget.writes + 1])
          /\ owed' = (f.k # "data")
    BY DEF Write
  <1>. DEFINE no == OldEntries + MaxWrites - budget.writes + 1
              e == [f EXCEPT !.no = no]
  <1>2. no \in Int
    BY DownloadConstants DEF BudgetType, OldEntries
  <1>. HIDE DEF no
  <1>3. f \in Entry
    <2>1. f \in {E("data", 0, 0), E("start", dive + 1, 0), E("end", dive, 0), E("boot", 2, 0)}
      BY <1>1, Zenon
    <2>2. 0 \in Nat /\ 2 \in Nat /\ 0 \in Int /\ dive \in Nat /\ dive + 1 \in Nat
      BY DEF BudgetType
    <2>. QED BY <2>1, <2>2, EntryIs
  <1>4. e \in Entry /\ e.n = f.n /\ e.k = f.k
    BY <1>2, <1>3 DEF Entry
  <1>. QED BY <1>1, <1>4 DEF no

\* The ring stays in order.
LEMMA RingStep ==
  ASSUME BudgetType, RingOk(ring), [Next]_lvars  PROVE  RingOk(ring)'
  <1>1. CASE BeginFlush /\ WriterStep
    BY <1>1 DEF BeginFlush, WriterStep
  <1>2. CASE EndFlush /\ WriterStep
    BY <1>2 DEF EndFlush, WriterStep
  <1>3. CASE Write /\ WriterStep
    <2>1. PICK e \in Entry : HasRoom(ring, e.n) /\ ring' = PutEntry(ring, e)
      BY <1>3, Written
    <2>2. RingOk(PutEntry(ring, e))
      BY <2>1, PutKeeps
    <2>. QED BY <2>1, <2>2
  <1>4. CASE MakeRoom /\ WriterStep
    BY <1>4, RotateKeeps DEF MakeRoom, WriterStep, Rotation
  <1>5. CASE MoveEpoch /\ WriterStep
    BY <1>5 DEF MoveEpoch, WriterStep
  <1>6. CASE TenantClaims /\ TenantStep
    BY <1>6 DEF TenantClaims, TenantStep, logside
  <1>7. CASE TenantReleases /\ TenantStep
    BY <1>7 DEF TenantReleases, TenantStep, logside
  <1>8. CASE EraseLog /\ TenantStep
    <2>1. ring.act \in Sectors /\ Succ(ring.act) \in Sectors
      BY SuccIs DEF RingOk, Rings
    <2>2. ring' = [sec |-> [s \in Sectors |-> <<>>], old |-> Succ(ring.act),
                   act |-> Succ(ring.act), cur |-> 0]
      BY <1>8 DEF EraseLog, EmptyRing
    <2>. QED BY <2>1, <2>2 DEF RingOk, Rings
  <1>9. CASE WorkerStep
    BY <1>9 DEF WorkerStep, logside
  <1>10. CASE RxStep
    BY <1>10 DEF RxStep, logside
  <1>11. CASE UNCHANGED lvars
    BY <1>11 DEF lvars
  <1>. QED
    BY <1>1, <1>2, <1>3, <1>4, <1>5, <1>6, <1>7, <1>8, <1>9, <1>10, <1>11
    DEF Next, WriterStep, TenantStep

\* The epoch only moves forward, and nobody is ahead of it.
LEMMA EpochStep ==
  ASSUME SmType, ArenaType, WorkerType, EpochType, [Next]_lvars  PROVE  EpochType'
  <1>. USE DEF EpochType, WorkerType
  <1>1. CASE BeginFlush /\ WriterStep
    BY <1>1 DEF BeginFlush, WriterStep, Rotation
  <1>2. CASE EndFlush /\ WriterStep
    BY <1>2 DEF EndFlush, WriterStep, Rotation
  <1>3. CASE Write /\ WriterStep
    BY <1>3 DEF Write, WriterStep, Rotation
  <1>4. CASE MakeRoom /\ WriterStep
    BY <1>4 DEF MakeRoom, WriterStep, Rotation
  <1>5. CASE MoveEpoch /\ WriterStep
    <2>1. epoch' = epoch + 1 /\ owed' \in BOOLEAN /\ UNCHANGED <<idx, wk>>
      BY <1>5 DEF MoveEpoch, WriterStep
    <2>2. epoch' \in Nat /\ idx'.epoch <= epoch' /\ wk'.snap <= epoch'
      BY <2>1
    <2>. QED BY <2>1, <2>2
  <1>6. CASE TenantClaims /\ TenantStep
    BY <1>6 DEF TenantClaims, TenantStep, logside
  <1>7. CASE TenantReleases /\ TenantStep
    BY <1>7 DEF TenantReleases, TenantStep, logside
  <1>8. CASE EraseLog /\ TenantStep
    BY <1>8 DEF EraseLog, TenantStep, logside
  <1>9. CASE Take /\ WorkerStep
    BY <1>9 DEF Take, WorkerStep, logside, Waiting
  <1>10. CASE ClaimIndex /\ WorkerStep
    <2>1. UNCHANGED <<epoch, owed>> /\ wk' = [wk EXCEPT !.pc = "ensure"] /\ arena'.gen \in Nat
      BY <1>10, ArenaStep DEF ClaimIndex, WorkerStep, logside, ArenaType, Arenas
    <2>2. idx' = idx \/ idx' = [[idx EXCEPT !.gen = arena'.gen] EXCEPT !.valid = FALSE]
      BY <1>10 DEF ClaimIndex
    <2>3. idx' \in [gen : Nat, valid : BOOLEAN, epoch : Nat] /\ idx'.epoch = idx.epoch
      BY <2>1, <2>2
    <2>. QED BY <2>1, <2>3
  <1>11. CASE ClaimDenied /\ WorkerStep
    BY <1>11 DEF ClaimDenied, WorkerStep, logside, Waiting
  <1>12. CASE Ensure /\ WorkerStep
    <2>1. UNCHANGED <<epoch, owed, idx>>
      BY <1>12 DEF Ensure, WorkerStep, logside
    <2>2. wk'.snap = wk.snap \/ wk'.snap = epoch
      BY <1>12 DEF Ensure
    <2>. QED BY <2>1, <2>2
  <1>13. CASE Walk /\ WorkerStep
    BY <1>13 DEF Walk, WorkerStep, logside, Waiting
  <1>14. CASE BuildEnds /\ WorkerStep
    BY <1>14 DEF BuildEnds, WorkerStep, logside, Waiting
  <1>15. CASE Use /\ WorkerStep
    <2>1. UNCHANGED <<epoch, owed, idx>>
      BY <1>15 DEF Use, WorkerStep, logside
    <2>. QED BY <1>15, <2>1, StaysWith
  <1>s. CASE Scan /\ WorkerStep
    <2>1. UNCHANGED <<epoch, owed, idx>>
      BY <1>s DEF Scan, WorkerStep, logside
    <2>. QED BY <1>s, <2>1, StaysWith
  <1>16. CASE Unclaim /\ WorkerStep
    BY <1>16 DEF Unclaim, WorkerStep, logside, Waiting
  <1>17. CASE Publish /\ WorkerStep
    BY <1>17 DEF Publish, WorkerStep, logside, Waiting
  <1>18. CASE RxStep
    BY <1>18 DEF RxStep, logside
  <1>19. CASE UNCHANGED lvars
    BY <1>19 DEF lvars
  <1>. QED
    BY <1>s, <1>1, <1>2, <1>3, <1>4, <1>5, <1>6, <1>7, <1>8, <1>9, <1>10, <1>11, <1>12, <1>13,
       <1>14, <1>15, <1>16, <1>17, <1>18, <1>19
    DEF Next, WriterStep, TenantStep, WorkerStep

\* The index is pinned from the worker's claim to its release.
LEMMA PinStep ==
  ASSUME SmType, ArenaType, WorkerType, EpochType, PinInv, [Next]_lvars  PROVE  PinInv'
  <1>. USE DEF ArenaType, Arenas, WorkerType, EpochType, PinInv
  <1>1. CASE WriterStep
    BY <1>1 DEF WriterStep
  <1>2. CASE TenantClaims /\ TenantStep
    BY <1>2 DEF TenantClaims, TenantStep, Claim, Release, SetBuilding, CanClaim,
         owner_writes_scratch
  <1>3. CASE TenantReleases /\ TenantStep
    BY <1>3 DEF TenantReleases, TenantStep, Claim, Release, SetBuilding, CanClaim,
         owner_writes_scratch
  <1>4. CASE EraseLog /\ TenantStep
    BY <1>4 DEF EraseLog, TenantStep, Claim, Release, SetBuilding, CanClaim, owner_writes_scratch
  <1>5. CASE Take /\ WorkerStep
    <2>1. CASE sm.active /\ ~sm.done
      <3>1. wk' = [wk EXCEPT !.pc = "claim", !.req = sm.req, !.tries = 0] /\ UNCHANGED idx
            /\ arena' = SetBuilding(arena, TRUE)
        BY <1>5, <2>1 DEF Take
      <3>2. wk'.pc = "claim"
        BY <3>1
      <3>. QED BY <3>1, <3>2 DEF SetBuilding
    <2>2. CASE ~(sm.active /\ ~sm.done)
      BY <1>5, <2>2 DEF Take
    <2>. QED BY <2>1, <2>2
  <1>6. CASE ClaimIndex /\ WorkerStep
    BY <1>6 DEF ClaimIndex, WorkerStep, Claim, Release, SetBuilding, CanClaim,
         owner_writes_scratch, Waiting
  <1>7. CASE ClaimDenied /\ WorkerStep
    BY <1>7 DEF ClaimDenied, WorkerStep, Claim, Release, SetBuilding, CanClaim,
         owner_writes_scratch, Waiting
  <1>8. CASE Ensure /\ WorkerStep
    BY <1>8 DEF Ensure, WorkerStep, Claim, Release, SetBuilding, CanClaim, owner_writes_scratch,
         Waiting
  <1>9. CASE Walk /\ WorkerStep
    BY <1>9 DEF Walk, WorkerStep, Claim, Release, SetBuilding, CanClaim, owner_writes_scratch,
         Waiting
  <1>10. CASE BuildEnds /\ WorkerStep
    BY <1>10 DEF BuildEnds, WorkerStep, Claim, Release, SetBuilding, CanClaim, owner_writes_scratch,
         Waiting
  <1>11. CASE Use /\ WorkerStep
    BY <1>11 DEF Use, Answer, WorkerStep, Claim, Release, SetBuilding, CanClaim,
         owner_writes_scratch,
         Waiting
  <1>s. CASE Scan /\ WorkerStep
    BY <1>s DEF Scan, Answer, WorkerStep, Claim, Release, SetBuilding, CanClaim,
         owner_writes_scratch,
         Waiting
  <1>12. CASE Unclaim /\ WorkerStep
    BY <1>12 DEF Unclaim, WorkerStep, Claim, Release, SetBuilding, CanClaim, owner_writes_scratch,
         Waiting
  <1>13. CASE Publish /\ WorkerStep
    BY <1>13 DEF Publish, WorkerStep, Claim, Release, SetBuilding, CanClaim, owner_writes_scratch,
         Waiting
  <1>14. CASE SelectAll /\ RxStep
    BY <1>14 DEF SelectAll, RxStep, StopStreaming, Finish, Claim, Release, SetBuilding, CanClaim,
         owner_writes_scratch
  <1>15. CASE BeginStream /\ RxStep
    BY <1>15 DEF BeginStream, RxStep, StopStreaming, Finish, Claim, Release, SetBuilding, CanClaim,
         owner_writes_scratch
  <1>16. CASE RequestDownload /\ RxStep
    BY <1>16 DEF RequestDownload, RxStep, StopStreaming, Finish, Claim, Release, SetBuilding,
         CanClaim, owner_writes_scratch
  <1>17. CASE TransferData /\ RxStep
    BY <1>17 DEF TransferData, Answered, RxStep, StopStreaming, Finish, Claim, Release, SetBuilding,
         CanClaim,
         owner_writes_scratch
  <1>18. CASE AnswerLost /\ RxStep
    BY <1>18 DEF AnswerLost, RxStep, StopStreaming, Finish, Claim, Release, SetBuilding, CanClaim,
         owner_writes_scratch
  <1>19. CASE ChunkFails /\ RxStep
    BY <1>19 DEF ChunkFails, RxStep, StopStreaming, Finish, Claim, Release, SetBuilding, CanClaim,
         owner_writes_scratch
  <1>f. CASE SearchFails /\ RxStep
    BY <1>f DEF SearchFails, Answered, RxStep, StopStreaming, Finish, Claim, Release, SetBuilding,
         CanClaim,
         owner_writes_scratch
  <1>20. CASE Poll /\ RxStep
    BY <1>20 DEF Poll, RxStep, StopStreaming, Finish, Claim, Release, SetBuilding, CanClaim,
         owner_writes_scratch
  <1>21. CASE TransferExit /\ RxStep
    BY <1>21 DEF TransferExit, RxStep, Poll, StopStreaming, Finish, Claim, Release, SetBuilding,
         CanClaim, owner_writes_scratch
  <1>22. ASSUME NEW req \in Selectors, Select(req), RxStep  PROVE PinInv'
    BY <1>22, SelectCases DEF RxStep, Claim, Release, SetBuilding, CanClaim, owner_writes_scratch
  <1>23. CASE UNCHANGED lvars
    BY <1>23 DEF lvars
  <1>. QED
    BY <1>s, <1>f, <1>1, <1>2, <1>3, <1>4, <1>5, <1>6, <1>7, <1>8, <1>9, <1>10, <1>11, <1>12, <1>13,
       <1>14, <1>15, <1>16, <1>17, <1>18, <1>19, <1>20, <1>21, <1>22, <1>23
    DEF Next, TenantStep, WorkerStep, RxStep

\* A walk's list loses its first sector.
LEMMA TailRange ==
  ASSUME NEW q \in Seq(Sectors), q # <<>>
  PROVE  /\ Tail(q) \in Seq(Sectors) /\ Head(q) \in Sectors
         /\ Range(q) \subseteq {Head(q)} \cup Range(Tail(q))
  <1>1. Tail(q) \in Seq(Sectors) /\ Head(q) \in Sectors /\ Len(q) \in Nat /\ Len(q) # 0
    OBVIOUS
  <1>2. DOMAIN q = 1..Len(q) /\ DOMAIN Tail(q) = 1..(Len(q) - 1) /\ q[1] = Head(q)
        /\ \A i \in 1..(Len(q) - 1) : Tail(q)[i] = q[i + 1]
    OBVIOUS
  <1>3. ASSUME NEW i \in 1..Len(q), i # 1  PROVE q[i] \in Range(Tail(q))
    <2>1. i - 1 \in 1..(Len(q) - 1) /\ Tail(q)[i - 1] = q[i]
      BY <1>1, <1>2, <1>3
    <2>. QED BY <1>2, <2>1 DEF Range
  <1>. QED BY <1>1, <1>2, <1>3 DEF Range

\* No request touches the generation of the arena, or what is known of the index.
LEMMA RxKeeps ==
  ASSUME SmType, ArenaType, HistType, RxStep
  PROVE  arena'.gen = arena.gen /\ hist'.blind = hist.blind /\ hist'.reused = hist.reused
  <1>. USE DEF SmType, ArenaType, Arenas, HistType, Release
  <1>1. CASE SelectAll
    BY <1>1 DEF SelectAll, StopStreaming
  <1>2. CASE BeginStream
    BY <1>2 DEF BeginStream, Claim, CanClaim, owner_writes_scratch
  <1>3. CASE RequestDownload
    BY <1>3 DEF RequestDownload, StopStreaming
  <1>4. CASE TransferData
    BY <1>4 DEF TransferData, Answered, StopStreaming
  <1>5. CASE AnswerLost
    BY <1>5 DEF AnswerLost, StopStreaming
  <1>6. CASE ChunkFails
    BY <1>6 DEF ChunkFails, StopStreaming
  <1>f. CASE SearchFails
    BY <1>f DEF SearchFails, Answered, StopStreaming
  <1>7. CASE TransferExit
    BY <1>7 DEF TransferExit, Poll, StopStreaming
  <1>8. CASE Poll
    BY <1>8 DEF Poll, StopStreaming
  <1>9. ASSUME NEW req \in Selectors, Select(req)
       PROVE  arena'.gen = arena.gen /\ hist'.blind = hist.blind /\ hist'.reused = hist.reused
    <2>1. arena' = IF sm.state = "streaming" THEN Release(arena, "stream") ELSE arena
      BY <1>9, SelectCases, Zenon
    <2>2. \/ UNCHANGED hist
          \/ hist' = [hist EXCEPT !.asked = req]
          \/ hist' = [hist EXCEPT !.overtaken = FALSE]
      BY <1>9, SelectCases, Zenon
    <2>. QED BY <2>1, <2>2
  <1>. QED BY <1>f, <1>1, <1>2, <1>3, <1>4, <1>5, <1>6, <1>7, <1>8, <1>9 DEF RxStep

\* The sectors the ring is read on from a sector are sectors.
LEMMA PathOn ==
  ASSUME RingOk(ring), NEW s \in Sectors  PROVE Path(s) \in Seq(Sectors) /\ Path(s) # <<>>
  <1>. DEFINE r == [old |-> s, act |-> ring.act]
              d == (ring.act + NSectors - s) % NSectors
  <1>1. ring.act \in Sectors /\ r.old = s /\ r.act = ring.act
    BY DEF RingOk, Rings
  <1>2. ring.act \in Nat /\ s \in Nat /\ NSectors \in Nat /\ NSectors > 0 /\ d \in Nat
    BY <1>1, Sizes DEF Sectors
  <1>3. InUse(r) = [i \in 1..(d + 1) |-> (s + i - 1) % NSectors]
    BY <1>1 DEF InUse
  <1>4. Path(s) = [i \in 1..(1 + d) |-> (s + i - 1) % NSectors]
    BY DEF Path
  <1>5. r.old \in Sectors /\ r.act \in Sectors
    BY <1>1
  <1>. HIDE DEF r, d
  <1>6. 1 + d = d + 1 /\ Path(s) = InUse(r)
    BY <1>2, <1>3, <1>4
  <1>7. InUse(r) \in Seq(Sectors)
    BY <1>5, InUseIs
  <1>8. 1 \in DOMAIN Path(s)
    BY <1>2, <1>4
  <1>. QED BY <1>6, <1>7, <1>8

\* A resolver answers, or begins a scan of the sectors in use.
LEMMA UseIs ==
  ASSUME WorkerType, Use
  PROVE  /\ wk'.req = wk.req /\ wk'.pc \in {"release", "scan"}
         /\ wk'.todo = <<>> \/ wk'.todo = InUse(ring)
         /\ \/ wk'.range \in {wk.range, WholeRing, LatestBoot, LatestDive}
            \/ Hits(wk.req) # {} /\ wk'.range = ById(wk.req, Min(Hits(wk.req)))
         /\ UNCHANGED hist \/ hist' = [hist EXCEPT !.missed = TRUE]
  <1>1. CASE Answer(LatestBoot) /\ UNCHANGED hist
    BY <1>1, AnswerIs
  <1>2. CASE Answer(LatestDive) /\ UNCHANGED hist
    BY <1>2, AnswerIs
  <1>3. CASE Hits(wk.req) # {} /\ Answer(ById(wk.req, Min(Hits(wk.req)))) /\ UNCHANGED hist
    <2>. DEFINE range == ById(wk.req, Min(Hits(wk.req)))
    <2>1. Answer(range)
      BY <1>3
    <2>. HIDE DEF range
    <2>2. /\ wk'.pc = "release" /\ wk'.todo = <<>> /\ wk'.req = wk.req
          /\ wk'.range = WholeRing \/ wk'.range = range
      BY <2>1, AnswerIs
    <2>. QED BY <1>3, <2>2 DEF range
  <1>4. CASE wk' = [wk EXCEPT !.pc = "scan", !.todo = InUse(ring)] /\ UNCHANGED hist
    BY <1>4 DEF WorkerType
  <1>5. CASE Answer(WholeRing) /\ hist' = [hist EXCEPT !.missed = TRUE]
    BY <1>5, AnswerIs
  <1>. QED BY <1>1, <1>2, <1>3, <1>4, <1>5, Zenon DEF Use

\* A scan ends in an answer, or goes on behind the sector it looked at.
LEMMA ScanGoes ==
  ASSUME WorkerType, RingOk(ring), wk.todo \in Seq(Sectors), Scan
  PROVE  /\ wk'.req = wk.req /\ wk'.pc \in {"release", "scan"} /\ wk'.todo \in Seq(Sectors)
         /\ \/ wk'.range \in {wk.range, WholeRing}
            \/ \E s \in Sectors : wk'.range = ById(wk.req, s)
         /\ UNCHANGED hist \/ hist' = [hist EXCEPT !.missed = TRUE]
  <1>. DEFINE Goal == /\ wk'.req = wk.req /\ wk'.pc \in {"release", "scan"}
                      /\ wk'.todo \in Seq(Sectors)
                      /\ \/ wk'.range \in {wk.range, WholeRing}
                         \/ \E s \in Sectors : wk'.range = ById(wk.req, s)
  <1>0. <<>> \in Seq(Sectors) /\ wk.pc = "scan"
    BY DEF Scan
  <1>1. CASE wk.todo = <<>>
    <2>1. Answer(WholeRing) /\ UNCHANGED hist
      BY <1>1 DEF Scan
    <2>. QED BY <1>0, <2>1, AnswerIs
  <1>2. CASE wk.todo # <<>>
    <2>. DEFINE s == Head(wk.todo)
                on == wk' = [wk EXCEPT !.todo = Tail(Path(s))]
    <2>1. s \in Sectors
      BY <1>2
    <2>2. Path(s) \in Seq(Sectors) /\ Path(s) # <<>>
      BY <2>1, PathOn
    <2>3. Tail(Path(s)) \in Seq(Sectors)
      <3>. DEFINE q == Path(s)
      <3>1. q \in Seq(Sectors) /\ q # <<>>
        BY <2>2
      <3>. HIDE DEF q
      <3>2. Tail(q) \in Seq(Sectors)
        BY <3>1
      <3>. QED BY <3>2 DEF q
    <2>4. \/ UNCHANGED hist /\ (Answer(ById(wk.req, s)) \/ on)
          \/ hist' = [hist EXCEPT !.missed = TRUE] /\ on
      BY <1>2, Zenon DEF Scan
    <2>. HIDE DEF s
    <2>5. ASSUME on  PROVE Goal
      <3>. DEFINE t == Tail(Path(s))
      <3>1. wk' = [wk EXCEPT !.todo = t] /\ t \in Seq(Sectors)
        BY <2>3, <2>5
      <3>. HIDE DEF t
      <3>. QED BY <1>0, <3>1 DEF WorkerType
    <2>6. ASSUME Answer(ById(wk.req, s))  PROVE Goal
      <3>. DEFINE range == ById(wk.req, s)
      <3>1. Answer(range)
        BY <2>6
      <3>. HIDE DEF range
      <3>2. /\ wk'.pc = "release" /\ wk'.todo = <<>> /\ wk'.req = wk.req
            /\ wk'.range = WholeRing \/ wk'.range = range
        BY <3>1, AnswerIs
      <3>. QED BY <1>0, <2>1, <3>2 DEF range
    <2>. QED BY <2>4, <2>5, <2>6
  <1>. QED BY <1>1, <1>2

\* A valid index of the current epoch describes the ring: what changes a row makes
\* the epoch move, puts the sector among the reused ones, or needs the arena.
LEMMA RowsStep ==
  ASSUME SmType, ArenaType, WorkerType, HistType, BudgetType, RingOk(ring),
         EpochType, PinInv, RowsInv, [Next]_lvars
  PROVE  RowsInv'
  <1>. USE DEF EpochType, WorkerType, HistType, RowsInv, Described
  <1>1. CASE BeginFlush /\ WriterStep
    <2>1. UNCHANGED <<epoch, owed, idx, arena, wk, rows, ring>> /\ hist'.blind = hist.blind
          /\ hist'.reused = hist.reused
      BY <1>1 DEF BeginFlush, WriterStep
    <2>. QED BY <2>1
  <1>2. CASE EndFlush /\ WriterStep
    <2>1. UNCHANGED <<epoch, owed, idx, arena, wk, rows, ring>> /\ hist'.blind = hist.blind
          /\ hist'.reused = hist.reused
      BY <1>2 DEF EndFlush, WriterStep
    <2>. QED BY <2>1
  <1>3. CASE Write /\ WriterStep
    <2>0. PICK e \in Entry : /\ HasRoom(ring, e.n) /\ ring' = PutEntry(ring, e)
                             /\ owed' = (e.k # "data")
      BY <1>3, Written
    <2>1. /\ UNCHANGED <<epoch, idx, arena, wk, rows>> /\ hist'.blind = hist.blind
          /\ hist'.reused = hist.reused /\ owed = FALSE
      BY <1>3 DEF Write, WriterStep, Touched
    <2>2. CASE e.k # "data"
      BY <2>0, <2>1, <2>2
    <2>3. CASE e.k = "data"
      <3>1. \A s \in Sectors : RowOf(ring'.sec[s]) = RowOf(ring.sec[s])
        BY <2>0, <2>3, PutKeeps
      <3>. QED BY <2>0, <2>1, <2>3, <3>1
    <2>. QED BY <2>2, <2>3
  <1>4. CASE MakeRoom /\ WriterStep
    <2>1. /\ UNCHANGED <<epoch, owed, idx, arena, wk, rows>> /\ hist'.blind = hist.blind
          /\ hist'.reused = hist.reused \cup {ring.old}
      BY <1>4 DEF MakeRoom, WriterStep, Rotation
    <2>2. \A s \in Sectors \ {ring.old} : ring'.sec[s] = ring.sec[s]
      BY <1>4, RotateKeeps DEF MakeRoom, Rotation
    <2>. QED BY <2>1, <2>2
  <1>5. CASE MoveEpoch /\ WriterStep
    <2>1. UNCHANGED <<wk, rows, idx>> /\ epoch' = epoch + 1
      BY <1>5 DEF MoveEpoch, WriterStep
    <2>2. idx'.epoch < epoch' /\ wk'.snap < epoch' /\ idx'.epoch # epoch' /\ wk'.snap # epoch'
      BY <2>1
    <2>. QED BY <2>1, <2>2
  <1>6. CASE TenantClaims /\ TenantStep
    <2>1. UNCHANGED <<epoch, idx, wk>> /\ arena'.content = "ota" /\ wk.pc # "walk"
          /\ DOMAIN rows' = Sectors
      BY <1>6 DEF TenantClaims, TenantStep, logside, Claim, CanClaim, owner_writes_scratch, PinInv,
             ArenaType, Arenas
    <2>2. ~(idx'.valid /\ idx'.gen = arena'.gen)
      <3>1. PinInv'
        BY PinStep DEF Next
      <3>. QED BY <2>1, <3>1 DEF PinInv
    <2>. QED BY <2>1, <2>2
  <1>7. CASE TenantReleases /\ TenantStep
    <2>1. UNCHANGED <<epoch, owed, idx, wk, rows, ring, hist>> /\ arena'.gen = arena.gen
      BY <1>7 DEF TenantReleases, TenantStep, logside, Release, ArenaType, Arenas
    <2>. QED BY <2>1
  <1>8. CASE EraseLog /\ TenantStep
    <2>1. UNCHANGED <<wk, rows, idx>> /\ epoch' = epoch + 1
      BY <1>8 DEF EraseLog, TenantStep, logside
    <2>2. idx'.epoch < epoch' /\ wk'.snap < epoch' /\ idx'.epoch # epoch' /\ wk'.snap # epoch'
      BY <2>1
    <2>. QED BY <2>1, <2>2
  <1>9. CASE Take /\ WorkerStep
    <2>1. /\ UNCHANGED <<epoch, owed, idx, rows, ring>> /\ arena'.gen = arena.gen
          /\ hist'.blind = hist.blind /\ hist'.reused = hist.reused
      BY <1>9 DEF Take, WorkerStep, logside, SetBuilding, ArenaType, Arenas
    <2>2. wk'.pc # "walk" /\ wk'.todo = wk.todo
      BY <1>9 DEF Take
    <2>. QED BY <2>1, <2>2
  <1>10. CASE ClaimIndex /\ WorkerStep
    <2>1. UNCHANGED <<epoch, owed, rows, ring, hist>> /\ wk'.pc = "ensure" /\ wk'.todo = wk.todo
      BY <1>10 DEF ClaimIndex, WorkerStep, logside
    <2>2. arena'.gen >= arena.gen
      BY <1>10 DEF ClaimIndex, Claim, ArenaType, Arenas
    <2>3. idx'.valid /\ idx'.gen = arena'.gen => idx' = idx /\ idx.gen = arena.gen
      BY <1>10, <2>2 DEF ClaimIndex, ArenaType, Arenas, PinInv
    <2>. QED BY <2>1, <2>3
  <1>11. CASE ClaimDenied /\ WorkerStep
    <2>1. UNCHANGED <<epoch, owed, idx, arena, rows, ring, hist>> /\ wk'.todo = wk.todo
          /\ wk'.pc # "walk"
      BY <1>11 DEF ClaimDenied, WorkerStep, logside
    <2>. QED BY <2>1
  <1>12. CASE Ensure /\ WorkerStep
    <2>1. UNCHANGED <<epoch, owed, idx, arena, ring>>
      BY <1>12 DEF Ensure, WorkerStep, logside
    <2>2. CASE idx.valid /\ idx.epoch = epoch
      <3>1. wk'.pc = "use" /\ wk'.todo = wk.todo /\ UNCHANGED <<rows, hist>>
        BY <1>12, <2>2 DEF Ensure
      <3>. QED BY <2>1, <3>1
    <2>3. CASE ~(idx.valid /\ idx.epoch = epoch)
      <3>1. wk'.todo = InUse(ring) /\ rows' = [s \in Sectors |-> NoRow] /\ hist'.reused = {}
        BY <1>12, <2>3 DEF Ensure
      <3>2. InUse(ring) \in Seq(Sectors)
            /\ \A s \in Sectors : s \notin Range(InUse(ring)) => ring.sec[s] = <<>>
        BY UseCovers DEF RingOk
      <3>3. RowOf(<<>>) = NoRow
        <4>1. DOMAIN <<>> = {}
          OBVIOUS
        <4>2. \A kinds : FirstId(<<>>, kinds) = 0
          BY <4>1, Zenon DEF FirstId
        <4>3. MarkersOf(<<>>) = {}
          BY <4>1 DEF MarkersOf
        <4>4. {(<<>>)[i].k : i \in MarkersOf(<<>>)} = {}
          BY <4>3
        <4>. QED BY <4>2, <4>4, Zenon DEF RowOf, NoRow
      <3>4. ~idx.valid \/ idx.epoch < epoch
        BY <2>3
      <3>. QED BY <2>1, <3>1, <3>2, <3>3, <3>4
    <2>. QED BY <2>2, <2>3
  <1>13. CASE Walk /\ WorkerStep
    <2>1. UNCHANGED <<epoch, owed, idx, arena, ring>> /\ wk'.pc = "walk" /\ wk'.snap = wk.snap
          /\ wk'.todo = Tail(wk.todo) /\ hist'.reused = hist.reused /\ wk.pc = "walk"
      BY <1>13 DEF Walk, WorkerStep, logside
    <2>2. /\ wk.todo # <<>> /\ Tail(wk.todo) \in Seq(Sectors) /\ Head(wk.todo) \in Sectors
          /\ Range(wk.todo) \subseteq {Head(wk.todo)} \cup Range(Tail(wk.todo))
      <3>1. wk.todo # <<>>
        BY <1>13 DEF Walk
      <3>. QED BY <3>1, TailRange
    <2>3. CASE /\ rows' = [rows EXCEPT ![Head(wk.todo)] = RowOf(ring.sec[Head(wk.todo)])]
               /\ UNCHANGED hist
      BY <2>1, <2>2, <2>3
    <2>4. CASE UNCHANGED rows /\ hist'.blind = TRUE
      BY <2>1, <2>2, <2>4
    <2>. QED BY <1>13, <2>3, <2>4 DEF Walk
  <1>14. CASE BuildEnds /\ WorkerStep
    <2>1. UNCHANGED <<epoch, owed, arena, ring, rows, hist>> /\ wk'.pc # "walk"
          /\ wk'.todo = wk.todo /\ wk.todo = <<>> /\ wk.pc = "walk"
      BY <1>14 DEF BuildEnds, WorkerStep, logside
    <2>2. CASE UNCHANGED idx
      BY <2>1, <2>2
    <2>3. CASE idx' = [idx EXCEPT !.valid = TRUE, !.epoch = wk.snap]
      <3>1. Range(wk.todo) = {}
        BY <2>1 DEF Range
      <3>2. idx'.epoch = wk.snap
        BY <2>3
      <3>. QED BY <2>1, <3>1, <3>2
    <2>. QED BY <1>14, <2>2, <2>3 DEF BuildEnds
  <1>15. CASE Use /\ WorkerStep
    <2>1. UNCHANGED <<epoch, owed, idx, arena, rows, ring>>
      BY <1>15 DEF Use, WorkerStep, logside
    <2>2. /\ wk'.pc # "walk" /\ wk'.todo \in Seq(Sectors)
          /\ hist'.blind = hist.blind /\ hist'.reused = hist.reused
      <3>1. InUse(ring) \in Seq(Sectors) /\ <<>> \in Seq(Sectors)
        BY UseCovers DEF RingOk
      <3>. QED BY <1>15, <3>1, UseIs
    <2>. QED BY <2>1, <2>2
  <1>s. CASE Scan /\ WorkerStep
    <2>1. UNCHANGED <<epoch, owed, idx, arena, rows, ring>>
      BY <1>s DEF Scan, WorkerStep, logside
    <2>2. /\ wk'.pc # "walk" /\ wk'.todo \in Seq(Sectors)
          /\ hist'.blind = hist.blind /\ hist'.reused = hist.reused
      BY <1>s, ScanGoes
    <2>. QED BY <2>1, <2>2
  <1>16. CASE Unclaim /\ WorkerStep
    <2>1. UNCHANGED <<epoch, owed, idx, rows, ring, hist>> /\ wk'.todo = wk.todo
          /\ wk'.pc # "walk" /\ arena'.gen = arena.gen
      BY <1>16 DEF Unclaim, WorkerStep, logside, Release, SetBuilding, ArenaType, Arenas
    <2>. QED BY <2>1
  <1>17. CASE Publish /\ WorkerStep
    <2>1. /\ UNCHANGED <<epoch, owed, idx, rows, ring, arena>> /\ wk'.todo = <<>>
          /\ wk'.pc # "walk" /\ hist'.blind = hist.blind /\ hist'.reused = hist.reused
      BY <1>17 DEF Publish, WorkerStep, logside, Waiting
    <2>. QED BY <2>1
  <1>18. CASE RxStep
    <2>1. UNCHANGED <<epoch, owed, idx, wk, rows, ring>>
      BY <1>18 DEF RxStep, logside
    <2>2. arena'.gen = arena.gen /\ hist'.blind = hist.blind /\ hist'.reused = hist.reused
      BY <1>18, RxKeeps
    <2>. QED BY <2>1, <2>2
  <1>19. CASE UNCHANGED lvars
    BY <1>19 DEF lvars
  <1>. QED
    BY <1>s, <1>1, <1>2, <1>3, <1>4, <1>5, <1>6, <1>7, <1>8, <1>9, <1>10, <1>11, <1>12, <1>13,
       <1>14, <1>15, <1>16, <1>17, <1>18, <1>19
    DEF Next, WriterStep, TenantStep, WorkerStep, RxStep

-----------------------------------------------------------------------------
(* What a reader still owes.                                               *)

Ranges == [from : Sectors \cup {NoSec}, to : Sectors \cup {NoSec}]
Unit   == Int \X Nat
Readers == [range : Ranges, sec : Sectors \cup {NoSec}, pos : Nat, off : Nat,
            have : BOOLEAN, fin : BOOLEAN]

\* The sectors of ring g from s to the active one.
Way(g, s) == InUse([old |-> s, act |-> g.act])
Begin(g, range) == IF range.from = NoSec THEN g.old ELSE range.from

\* Where a range ends: the first sector that is its end and holds something.
Stops(g, range) ==
  LET way == Way(g, Begin(g, range))
  IN  {i \in DOMAIN way : way[i] = range.to /\ g.sec[way[i]] # <<>>}

\* The sectors of a range, and what is in them.
Visited(g, range) ==
  LET way  == Way(g, Begin(g, range))
      stop == Stops(g, range)
  IN  IF stop = {} THEN way ELSE SubSeq(way, 1, Min(stop) - 1)
Parts(g, range) == [i \in DOMAIN Visited(g, range) |-> g.sec[Visited(g, range)[i]]]

\* What is left of parts from the j-th on, and behind the first pos of the j-th.
RestOf(ps, j) == Concat(SubSeq(ps, j, Len(ps)))
After(ps, j, pos) ==
  IF j <= Len(ps) THEN SubSeq(ps[j], pos + 1, Len(ps[j])) \o RestOf(ps, j + 1) ELSE <<>>

\* A reader stands behind the first pos of the j-th part, or at the very beginning.
Within(ps, j, pos) ==
  \/ j = 1 /\ pos = 0
  \/ j \in 1..Len(ps) /\ pos \in 0..Len(ps[j])

Units(e) == [u \in 1..e.n |-> <<e.no, u>>]

\* The reader is behind entry pos of the j-th part, or inside that entry.
StandsAt(g, r, j) ==
  LET ps == Parts(g, r.range) IN
  /\ r.sec = NoSec => r.range.from = NoSec /\ j = 1
  /\ r.sec # NoSec => r.sec = Way(g, Begin(g, r.range))[j]
  /\ Within(ps, j, r.pos)
  /\ r.have => r.sec # NoSec /\ r.pos > 0 /\ r.off < ps[j][r.pos].n

\* The units of the entry in flight that are still to come.
InFlight(e, r) == IF r.have THEN SubSeq(Units(e), r.off + 1, e.n) ELSE <<>>

Owes(g, r, rest) ==
  LET ps == Parts(g, r.range) IN
  /\ r \in Readers
  /\ r.fin => rest = <<>>
  /\ ~r.fin => \E j \in DOMAIN Way(g, Begin(g, r.range)) :
       /\ StandsAt(g, r, j)
       /\ rest = InFlight(ps[j][r.pos], r) \o Pieces(After(ps, j, r.pos))

RangeInv ==
  /\ sm.range \in Ranges /\ wk.range \in Ranges
  /\ sm.active => sm.req \in Selectors
  /\ wk.pc # "wait" => wk.req \in Selectors

\* The client and the head agree on the next chunk.
InStep ==
  /\ sm.state = "streaming" /\ ~cl.fin
  /\ cl.at = "begun" \/ (cl.at = "open" /\ cl.seq = sm.seq)

\* Something has spoilt the stream: the ring changed, a search for an entry failed, or
\* the client went on after a refused chunk.
Spoilt == hist.chased \/ hist.unread \/ hist.patched

\* The selection is what the client has and what is still to come; and that is
\* what the reader owes, as long as the two agree.
StreamInv ==
  /\ DOMAIN cl = {"seq", "got", "fin", "at"} /\ cl.seq \in Nat /\ cl.fin \in BOOLEAN
  /\ cl.at = "begun" => cl.seq = 1
  /\ ~Spoilt => \E rest \in Seq(Unit) : /\ cl.got \in Seq(Unit)
                                        /\ hist.want = cl.got \o rest
                                        /\ cl.fin => rest = <<>>
                                        /\ InStep => Owes(ring, rd, rest)

\* What is left from a part on is that part and what is left behind it.
LEMMA RestIs ==
  ASSUME NEW T, NEW ps \in Seq(Seq(T))
  PROVE  /\ \A j \in 1..Len(ps) : RestOf(ps, j) = ps[j] \o RestOf(ps, j + 1)
         /\ \A j \in 1..(Len(ps) + 1) : RestOf(ps, j) \in Seq(T)
         /\ RestOf(ps, Len(ps) + 1) = <<>> /\ RestOf(ps, 1) = Concat(ps)
  <1>. DEFINE Q == Seq(T)
              l == Len(ps)
  <1>1. l \in Nat /\ ps \in Seq(Q) /\ \A j \in 1..l : ps[j] \in Q
    OBVIOUS
  <1>2. ASSUME NEW j \in 1..(l + 1)
        PROVE  SubSeq(ps, j, l) \in Seq(Seq(T)) /\ RestOf(ps, j) \in Seq(T)
    <2>. HIDE DEF Q
    <2>1. j \in Int /\ l \in Int /\ \A i \in j..l : ps[i] \in Q
      BY <1>1
    <2>2. SubSeq(ps, j, l) \in Seq(Q)
      BY <2>1, SubSeqProperties
    <2>. QED BY <2>2, ConcatType DEF RestOf, Q
  <1>3. ASSUME NEW j \in 1..l  PROVE RestOf(ps, j) = ps[j] \o RestOf(ps, j + 1)
    <2>1. SubSeq(ps, j, l) = <<ps[j]>> \o SubSeq(ps, j + 1, l)
      <3>. HIDE DEF Q
      <3>1. l \in j..l
        BY <1>1
      <3>. QED BY <1>1, <3>1, SubSeqRecursiveFirst
    <2>2. SubSeq(ps, j + 1, l) \in Seq(Seq(T)) /\ <<ps[j]>> \in Seq(Seq(T)) /\ ps[j] \in Seq(T)
      <3>1. j + 1 \in 1..(l + 1)
        BY <1>1
      <3>2. SubSeq(ps, j + 1, l) \in Seq(Seq(T))
        BY <1>2, <3>1
      <3>3. ps[j] \in Q
        BY <1>1
      <3>. HIDE DEF Q
      <3>4. <<ps[j]>> \in Seq(Q)
        BY <3>3
      <3>. QED BY <3>2, <3>3, <3>4 DEF Q
    <2>. DEFINE tail == SubSeq(ps, j + 1, l)
                x == ps[j]
    <2>3. Concat(<<x>> \o tail) = Concat(<<x>>) \o Concat(tail) /\ Concat(<<x>>) = x
      <3>. HIDE DEF tail, x
      <3>. QED BY <2>2, ConcatBoth, ConcatOne DEF tail, x
    <2>. QED BY <2>1, <2>3, Zenon DEF RestOf
  <1>4. RestOf(ps, l + 1) = <<>>
    <2>1. SubSeq(ps, l + 1, l) = <<>>
      BY <1>1, SubSeqEmpty
    <2>. QED BY <2>1, ConcatNone, Zenon DEF RestOf
  <1>5. SubSeq(ps, 1, l) = ps
    <2>. HIDE DEF Q
    <2>. QED BY <1>1, SubSeqFull
  <1>6. RestOf(ps, 1) = Concat(ps)
    BY <1>5, Zenon DEF RestOf
  <1>. QED BY <1>2, <1>3, <1>4, <1>6

\* Sequences of a given kind may be regrouped.
LEMMA RegroupIn ==
  ASSUME NEW T
  PROVE  \A x, y, z \in Seq(T) : (x \o y) \o z = x \o (y \o z)
  BY Regroup

\* Behind a place is the entry there and what is behind it; behind the end of a
\* part is the next part from its beginning.
LEMMA AfterIs ==
  ASSUME NEW T, NEW ps \in Seq(Seq(T))
  PROVE  /\ After(ps, 1, 0) = Concat(ps)
         /\ \A j \in 1..Len(ps) : \A pos \in 0..Len(ps[j]) :
              /\ After(ps, j, pos) \in Seq(T)
              /\ pos < Len(ps[j]) =>
                   After(ps, j, pos) = <<ps[j][pos + 1]>> \o After(ps, j, pos + 1)
              /\ pos = Len(ps[j]) => After(ps, j, pos) = After(ps, j + 1, 0)
  <1>. DEFINE l == Len(ps)
  <1>0. \A x, y, z \in Seq(T) : (x \o y) \o z = x \o (y \o z)
    BY RegroupIn, SMTT(40)
  <1>1. l \in Nat /\ \A j \in 1..l : ps[j] \in Seq(T)
    OBVIOUS
  <1>2. /\ \A j \in 1..l : RestOf(ps, j) = ps[j] \o RestOf(ps, j + 1)
        /\ \A j \in 1..(l + 1) : RestOf(ps, j) \in Seq(T)
        /\ RestOf(ps, l + 1) = <<>> /\ RestOf(ps, 1) = Concat(ps)
    BY RestIs
  <1>3. ASSUME NEW j \in 1..l  PROVE After(ps, j, 0) = RestOf(ps, j)
    <2>1. SubSeq(ps[j], 0 + 1, Len(ps[j])) = ps[j] /\ j <= l
      BY <1>1, SubSeqFull
    <2>. QED BY <1>2, <2>1, Zenon DEF After
  <1>4. After(ps, l + 1, 0) = <<>>
    BY <1>1 DEF After
  <1>5. After(ps, 1, 0) = Concat(ps)
    <2>1. CASE l = 0
      <3>1. l + 1 = 1
        BY <2>1
      <3>. QED BY <1>2, <1>4, <3>1
    <2>2. CASE l # 0
      <3>1. 1 \in 1..l
        BY <1>1, <2>2
      <3>. QED BY <1>2, <1>3, <3>1
    <2>. QED BY <2>1, <2>2
  <1>6. ASSUME NEW j \in 1..l, NEW pos \in 0..Len(ps[j])
        PROVE  /\ After(ps, j, pos) \in Seq(T)
               /\ pos < Len(ps[j]) =>
                    After(ps, j, pos) = <<ps[j][pos + 1]>> \o After(ps, j, pos + 1)
               /\ pos = Len(ps[j]) => After(ps, j, pos) = After(ps, j + 1, 0)
    <2>. DEFINE s == ps[j]   m == Len(s)   rest == RestOf(ps, j + 1)
    <2>1. s \in Seq(T) /\ m \in Nat /\ rest \in Seq(T) /\ j <= l /\ j + 1 \in 1..(l + 1)
          /\ \A i \in 1..m : s[i] \in T
      <3>1. j + 1 \in 1..(l + 1) /\ j <= l /\ s \in Seq(T)
        BY <1>1
      <3>. QED BY <1>2, <3>1
    <2>2. \A p : After(ps, j, p) = SubSeq(s, p + 1, m) \o rest
      BY <2>1, Zenon DEF After
    <2>. HIDE DEF s, m, rest
    <2>3. \A p \in 0..m : SubSeq(s, p + 1, m) \in Seq(T)
      <3>. SUFFICES ASSUME NEW p \in 0..m PROVE SubSeq(s, p + 1, m) \in Seq(T)
        OBVIOUS
      <3>1. p + 1 \in Int /\ m \in Int /\ \A i \in (p + 1)..m : s[i] \in T
        BY <2>1
      <3>. QED BY <3>1, SubSeqProperties
    <2>4. pos \in 0..m
      BY DEF m, s
    <2>5. After(ps, j, pos) \in Seq(T)
      <3>. DEFINE x == SubSeq(s, pos + 1, m)
      <3>1. x \in Seq(T)
        BY <2>3, <2>4
      <3>2. After(ps, j, pos) = x \o rest
        BY <2>2, Zenon
      <3>. HIDE DEF x
      <3>. QED BY <2>1, <3>1, <3>2
    <2>6. ASSUME pos < m
          PROVE  After(ps, j, pos) = <<s[pos + 1]>> \o After(ps, j, pos + 1)
      <3>1. pos + 1 \in 1..m /\ m \in (pos + 1)..m /\ pos + 1 \in 0..m /\ s[pos + 1] \in T
        BY <2>1, <2>4, <2>6
      <3>2. SubSeq(s, pos + 1, m) = <<s[pos + 1]>> \o SubSeq(s, (pos + 1) + 1, m)
        BY <2>1, <3>1, SubSeqRecursiveFirst DEF m
      <3>. DEFINE x == <<s[pos + 1]>>   y == SubSeq(s, (pos + 1) + 1, m)
      <3>3. x \in Seq(T) /\ y \in Seq(T) /\ rest \in Seq(T)
        BY <2>1, <2>3, <3>1
      <3>. HIDE DEF x, y
      <3>4. (x \o y) \o rest = x \o (y \o rest)
        BY <1>0, <3>3, Zenon
      <3>. QED BY <2>2, <3>2, <3>4, Zenon DEF x, y
    <2>7. ASSUME pos = m  PROVE After(ps, j, pos) = After(ps, j + 1, 0)
      <3>1. SubSeq(s, pos + 1, m) = <<>>
        BY <2>1, <2>7, SubSeqEmpty
      <3>2. After(ps, j, pos) = rest
        <4>1. <<>> \o rest = rest
          BY <2>1, ConcatEmptySeq
        <4>. QED BY <2>2, <3>1, <4>1, Zenon
      <3>3. After(ps, j + 1, 0) = rest
        <4>1. CASE j = l
          BY <1>2, <1>4, <4>1 DEF rest
        <4>2. CASE j # l
          <5>1. j + 1 \in 1..l
            BY <1>1, <4>2
          <5>. QED BY <1>3, <5>1 DEF rest
        <4>. QED BY <4>1, <4>2
      <3>. QED BY <3>2, <3>3
    <2>. QED BY <2>5, <2>6, <2>7 DEF s, m
  <1>. QED BY <1>5, <1>6

\* Parts with nothing left in them do not count.
LEMMA AfterEmpty ==
  ASSUME NEW T, NEW ps \in Seq(Seq(T)), NEW j \in 1..Len(ps), NEW k \in (j + 1)..(Len(ps) + 1),
         \A i \in (j + 1)..(k - 1) : ps[i] = <<>>
  PROVE  After(ps, j, Len(ps[j])) = After(ps, k, 0)
  <1>. DEFINE l == Len(ps)
              n == k - j - 1
              Same == {m \in 0..n : After(ps, j, Len(ps[j])) = After(ps, j + 1 + m, 0)}
  <1>1. l \in Nat /\ n \in Nat /\ k <= l + 1 /\ j \in Nat /\ k \in Nat /\ Len(ps[j]) \in Nat
        /\ k = j + 1 + n
    OBVIOUS
  <1>2. 0 \in Same
    <2>1. Len(ps[j]) \in 0..Len(ps[j]) /\ 0 \in 0..n /\ j + 1 + 0 = j + 1
      BY <1>1
    <2>2. After(ps, j, Len(ps[j])) = After(ps, j + 1, 0)
      BY <2>1, AfterIs
    <2>. QED BY <2>1, <2>2
  <1>3. ASSUME NEW m \in 1..n, m - 1 \in Same  PROVE m \in Same
    <2>. DEFINE i == j + m
    <2>1. i \in 1..l /\ i \in (j + 1)..(k - 1) /\ j + 1 + (m - 1) = i /\ j + 1 + m = i + 1
          /\ m \in 0..n
      BY <1>1
    <2>. HIDE DEF i
    <2>2. ps[i] = <<>> /\ Len(ps[i]) = 0 /\ 0 \in 0..Len(ps[i])
      <3>1. ps[i] = <<>>
        BY <2>1, Zenon
      <3>2. Len(ps[i]) = 0
        BY <3>1
      <3>. QED BY <3>1, <3>2
    <2>3. After(ps, i, 0) = After(ps, i + 1, 0)
      BY <2>1, <2>2, AfterIs
    <2>4. After(ps, j, Len(ps[j])) = After(ps, j + 1 + (m - 1), 0)
      BY <1>3
    <2>5. After(ps, j, Len(ps[j])) = After(ps, j + 1 + m, 0)
      BY <2>1, <2>3, <2>4
    <2>. QED BY <2>1, <2>5
  <1>. HIDE DEF Same, n
  <1>4. n \in Same
    <2>1. 0..n \subseteq Same
      BY <1>1, <1>2, <1>3, UpTo
    <2>. QED BY <1>1, <2>1
  <1>. QED BY <1>1, <1>4, Zenon DEF Same

\* The units of an entry are as many as it is long, and one at least.
LEMMA UnitsIs ==
  ASSUME NEW e \in Entry
  PROVE  Units(e) \in Seq(Unit) /\ Len(Units(e)) = e.n /\ e.n \in Nat /\ e.n > 0
         /\ \A u \in 1..e.n : Units(e)[u] = <<e.no, u>>
  <1>. DEFINE g(u) == <<e.no, u>>
  <1>1. e.n \in Nat /\ e.n > 0 /\ \A u \in 1..e.n : g(u) \in Unit
    BY DEF Entry, Unit
  <1>2. Units(e) = [u \in 1..e.n |-> g(u)]
    BY DEF Units
  <1>. HIDE DEF g
  <1>3. Units(e) \in Seq(Unit) /\ Len(Units(e)) = e.n /\ \A u \in 1..e.n : Units(e)[u] = g(u)
    BY <1>1, <1>2
  <1>. QED BY <1>1, <1>3 DEF g

\* Entries as the sequences of their units.
Cut(es) == [i \in DOMAIN es |-> Units(es[i])]

\* Pieces puts the units of the entries one behind the other.
LEMMA CutIs ==
  ASSUME NEW es \in Seq(Entry)
  PROVE  /\ Cut(es) \in Seq(Seq(Unit)) /\ Len(Cut(es)) = Len(es)
         /\ \A i \in 1..Len(es) : Cut(es)[i] = Units(es[i])
         /\ Pieces(es) = Concat(Cut(es))
  <1>. DEFINE g(i) == Units(es[i])
              Q == Seq(Unit)
  <1>1. Len(es) \in Nat /\ DOMAIN es = 1..Len(es) /\ \A i \in 1..Len(es) : es[i] \in Entry
    OBVIOUS
  <1>2. \A i \in 1..Len(es) : g(i) \in Q
    BY <1>1, UnitsIs
  <1>3. Cut(es) = [i \in 1..Len(es) |-> g(i)]
    BY <1>1 DEF Cut
  <1>4. Pieces(es) = Concat(Cut(es))
    BY DEF Pieces, Cut, Units
  <1>. HIDE DEF g, Q
  <1>5. Cut(es) \in Seq(Q) /\ Len(Cut(es)) = Len(es) /\ \A i \in 1..Len(es) : Cut(es)[i] = g(i)
    BY <1>1, <1>2, <1>3
  <1>. QED BY <1>4, <1>5 DEF g, Q

\* The pieces of entries begin with the units of the first.
LEMMA PiecesIs ==
  /\ Pieces(<<>>) = <<>>
  /\ \A es \in Seq(Entry) : Pieces(es) \in Seq(Unit)
  /\ \A e \in Entry : \A es \in Seq(Entry) : Pieces(<<e>> \o es) = Units(e) \o Pieces(es)
  <1>1. Pieces(<<>>) = <<>>
    <2>1. Cut(<<>>) = <<>>
      BY DEF Cut
    <2>2. <<>> \in Seq(Entry)
      OBVIOUS
    <2>. QED BY <2>1, <2>2, CutIs, ConcatNone
  <1>2. ASSUME NEW es \in Seq(Entry) PROVE Pieces(es) \in Seq(Unit)
    BY CutIs, ConcatType
  <1>3. ASSUME NEW e \in Entry, NEW es \in Seq(Entry)
        PROVE  Pieces(<<e>> \o es) = Units(e) \o Pieces(es)
    <2>. DEFINE all == <<e>> \o es
                one == <<Units(e)>>
                both == one \o Cut(es)
    <2>1. all \in Seq(Entry) /\ Len(all) = 1 + Len(es) /\ Len(es) \in Nat /\ all[1] = e
          /\ \A i \in 2..(1 + Len(es)) : all[i] = es[i - 1]
      OBVIOUS
    <2>2. Units(e) \in Seq(Unit) /\ one \in Seq(Seq(Unit)) /\ Len(one) = 1 /\ one[1] = Units(e)
      BY UnitsIs
    <2>3. /\ Cut(es) \in Seq(Seq(Unit)) /\ Len(Cut(es)) = Len(es)
          /\ \A i \in 1..Len(es) : Cut(es)[i] = Units(es[i])
      BY CutIs
    <2>. HIDE DEF all
    <2>4. /\ Cut(all) \in Seq(Seq(Unit)) /\ Len(Cut(all)) = Len(all)
          /\ \A i \in 1..Len(all) : Cut(all)[i] = Units(all[i])
          /\ Pieces(all) = Concat(Cut(all))
      BY <2>1, CutIs
    <2>. HIDE DEF one
    <2>5. /\ both \in Seq(Seq(Unit)) /\ Len(both) = 1 + Len(es) /\ both[1] = Units(e)
          /\ \A i \in 2..(1 + Len(es)) : both[i] = Units(es[i - 1])
      <3>. DEFINE Q == Seq(Unit)   c == Cut(es)   m == Len(es)
      <3>1. one \in Seq(Q) /\ c \in Seq(Q) /\ Len(c) = m /\ m \in Nat /\ one[1] = Units(e)
            /\ Len(one) = 1
        BY <2>1, <2>2, <2>3
      <3>2. \A i \in 1..m : c[i] = Units(es[i])
        BY <2>3
      <3>. HIDE DEF Q, c, m
      <3>3. /\ one \o c \in Seq(Q) /\ Len(one \o c) = Len(one) + Len(c)
            /\ \A i \in 1 .. Len(one) + Len(c) :
                 (one \o c)[i] = IF i <= Len(one) THEN one[i] ELSE c[i - Len(one)]
        BY <3>1, ConcatProperties
      <3>4. 1 \in 1 .. Len(one) + Len(c) /\ 1 <= Len(one) /\ Len(one) + Len(c) = 1 + m
        BY <3>1
      <3>5. (one \o c)[1] = Units(e)
        BY <3>1, <3>3, <3>4
      <3>6. ASSUME NEW i \in 2..(1 + m) PROVE (one \o c)[i] = Units(es[i - 1])
        <4>1. i \in 1 .. Len(one) + Len(c) /\ ~(i <= Len(one)) /\ i - Len(one) = i - 1
              /\ i - 1 \in 1..m
          BY <3>1
        <4>2. (one \o c)[i] = c[i - 1]
          BY <3>3, <4>1
        <4>. QED BY <3>2, <4>1, <4>2
      <3>. QED BY <3>3, <3>4, <3>5, <3>6 DEF Q, c, m
    <2>. HIDE DEF both
    <2>6. Cut(all) = both
      <3>. DEFINE Q == Seq(Unit)   c == Cut(all)
      <3>1. c \in Seq(Q) /\ both \in Seq(Q) /\ Len(c) = Len(both)
        BY <2>1, <2>4, <2>5
      <3>2. ASSUME NEW i \in 1..Len(c)  PROVE c[i] = both[i]
        <4>1. CASE i = 1
          BY <2>1, <2>4, <2>5, <4>1
        <4>2. CASE i # 1
          <5>1. i \in 2..(1 + Len(es)) /\ i \in 1..Len(all)
            BY <2>1, <2>4, <4>2
          <5>. QED BY <2>1, <2>4, <2>5, <5>1
        <4>. QED BY <4>1, <4>2
      <3>. HIDE DEF Q, c
      <3>3. c = both
        BY <3>1, <3>2, SeqEqual
      <3>. QED BY <3>3 DEF c
    <2>7. Concat(both) = Concat(one) \o Concat(Cut(es)) /\ Concat(one) = Units(e)
      <3>1. Concat(one) = Units(e)
        BY <2>2, ConcatOne DEF one
      <3>. QED BY <2>2, <2>3, <3>1, ConcatBoth DEF both
    <2>8. Pieces(es) = Concat(Cut(es))
      BY CutIs
    <2>. QED BY <2>4, <2>6, <2>7, <2>8, Zenon DEF all
  <1>. QED BY <1>1, <1>2, <1>3

\* There is more of part k for it.
Holds(ps, j, pos, k) == Len(ps[k]) > IF k = j THEN pos ELSE 0

\* Where no part holds more, nothing is left.
LEMMA NoneLeft ==
  ASSUME NEW T, NEW ps \in Seq(Seq(T)), NEW j \in Nat, NEW pos \in Nat, Within(ps, j, pos),
         \A k \in j..Len(ps) : ~Holds(ps, j, pos, k)
  PROVE  After(ps, j, pos) = <<>>
  <1>. DEFINE l == Len(ps)
  <1>1. l \in Nat /\ \A k \in 1..l : ps[k] \in Seq(T) /\ Len(ps[k]) \in Nat
    OBVIOUS
  <1>2. \A p : After(ps, l + 1, p) = <<>>
    BY <1>1 DEF After
  <1>3. CASE j \in 1..l
    <2>1. j \in j..l /\ pos = Len(ps[j])
      BY <1>1, <1>3 DEF Within, Holds
    <2>2. \A i \in (j + 1)..((l + 1) - 1) : ps[i] = <<>>
      <3>. SUFFICES ASSUME NEW i \in (j + 1)..((l + 1) - 1) PROVE ps[i] = <<>>
        OBVIOUS
      <3>1. i \in j..l /\ i # j /\ i \in 1..l
        BY <1>1, <1>3
      <3>2. ~(Len(ps[i]) > 0)
        BY <3>1 DEF Holds
      <3>. QED BY <1>1, <3>1, <3>2
    <2>3. l + 1 \in (j + 1)..(Len(ps) + 1)
      BY <1>1, <1>3
    <2>4. After(ps, j, Len(ps[j])) = After(ps, l + 1, 0)
      BY <1>3, <2>2, <2>3, AfterEmpty
    <2>. QED BY <1>2, <2>1, <2>4
  <1>4. CASE j \notin 1..l
    <2>1. j = l + 1
      BY <1>1, <1>4 DEF Within
    <2>. QED BY <1>2, <2>1
  <1>. QED BY <1>3, <1>4

\* Part k is the first that holds more for it, behind its first q.
NextIn(ps, j, pos, k, q) ==
  /\ j \in Nat /\ pos \in Nat /\ Within(ps, j, pos) /\ k \in j..Len(ps)
  /\ Holds(ps, j, pos, k) /\ \A i \in j..(k - 1) : ~Holds(ps, j, pos, i)
  /\ q = IF k = j THEN pos ELSE 0

\* Else what is left begins in the first part that holds more.
LEMMA FirstLeft ==
  ASSUME NEW T, NEW ps \in Seq(Seq(T)), NEW j, NEW pos, NEW k, NEW q, NextIn(ps, j, pos, k, q)
  PROVE  /\ k \in 1..Len(ps) /\ q + 1 \in 1..Len(ps[k]) /\ ps[k][q + 1] \in T
         /\ After(ps, k, q + 1) \in Seq(T)
         /\ After(ps, j, pos) = <<ps[k][q + 1]>> \o After(ps, k, q + 1)
  <1>. DEFINE l == Len(ps)
  <1>0. /\ j \in Nat /\ pos \in Nat /\ Within(ps, j, pos) /\ k \in j..Len(ps)
        /\ Holds(ps, j, pos, k) /\ \A i \in j..(k - 1) : ~Holds(ps, j, pos, i)
        /\ q = IF k = j THEN pos ELSE 0
    BY DEF NextIn
  <1>1. l \in Nat /\ \A i \in 1..l : ps[i] \in Seq(T) /\ Len(ps[i]) \in Nat
    OBVIOUS
  <1>2. j \in 1..l /\ k \in 1..l /\ q \in Nat /\ q < Len(ps[k])
    BY <1>0, <1>1 DEF Within, Holds
  <1>3. After(ps, j, pos) = After(ps, k, q)
    <2>1. CASE k = j
      BY <1>0, <2>1
    <2>2. CASE k # j
      <3>1. j \in j..(k - 1)
        BY <1>0, <1>2, <2>2
      <3>2. pos = Len(ps[j])
        BY <1>0, <1>1, <1>2, <3>1 DEF Within, Holds
      <3>3. \A i \in (j + 1)..(k - 1) : ps[i] = <<>>
        <4>. SUFFICES ASSUME NEW i \in (j + 1)..(k - 1) PROVE ps[i] = <<>>
          OBVIOUS
        <4>1. i \in j..(k - 1) /\ i # j /\ i \in 1..l
          BY <1>0, <1>1, <1>2
        <4>2. ~(Len(ps[i]) > 0)
          BY <1>0, <4>1 DEF Holds
        <4>. QED BY <1>1, <4>1, <4>2
      <3>4. k \in (j + 1)..(Len(ps) + 1)
        BY <1>0, <1>1, <1>2, <2>2
      <3>5. After(ps, j, Len(ps[j])) = After(ps, k, 0)
        BY <1>2, <3>3, <3>4, AfterEmpty
      <3>. QED BY <1>0, <2>2, <3>2, <3>5
    <2>. QED BY <2>1, <2>2
  <1>4. q \in 0..Len(ps[k]) /\ q + 1 \in 0..Len(ps[k]) /\ q + 1 \in 1..Len(ps[k])
    BY <1>1, <1>2
  <1>5. /\ After(ps, k, q) = <<ps[k][q + 1]>> \o After(ps, k, q + 1)
        /\ After(ps, k, q + 1) \in Seq(T)
    <2>1. \A i \in 1..l : \A o \in 0..Len(ps[i]) :
            /\ After(ps, i, o) \in Seq(T)
            /\ o < Len(ps[i]) => After(ps, i, o) = <<ps[i][o + 1]>> \o After(ps, i, o + 1)
      BY AfterIs, Zenon
    <2>. QED BY <1>2, <1>4, <2>1
  <1>6. ps[k][q + 1] \in T
    <2>1. ps[k] \in Seq(T)
      BY <1>1, <1>2
    <2>. QED BY <1>4, <2>1
  <1>. QED BY <1>2, <1>3, <1>4, <1>5, <1>6

-----------------------------------------------------------------------------
(* The sectors of a range.                                                 *)

\* The way from a sector leads through different sectors to the active one, and
\* the way from any of them is the rest of it.
LEMMA WayIs ==
  ASSUME NEW g, RingOk(g), NEW s \in Sectors
  PROVE  /\ Way(g, s) \in Seq(Sectors) /\ Len(Way(g, s)) \in Nat \ {0} /\ Way(g, s)[1] = s
         /\ \A j \in 1..Len(Way(g, s)) :
              /\ Way(g, s)[j] \in Sectors
              /\ Len(Way(g, Way(g, s)[j])) = Len(Way(g, s)) - j + 1
              /\ \A i \in 1..(Len(Way(g, s)) - j + 1) :
                   Way(g, Way(g, s)[j])[i] = Way(g, s)[j + i - 1]
  <1>. DEFINE R(x) == [old |-> x, act |-> g.act]
              l == Span(R(s))
  <1>1. g.act \in Sectors
    BY DEF RingOk, Rings
  <1>2. ASSUME NEW x \in Sectors
        PROVE  /\ Way(g, x) \in Seq(Sectors) /\ Len(Way(g, x)) = Span(R(x))
               /\ Span(R(x)) \in 1..NSectors
               /\ \A i \in 1..Span(R(x)) : Way(g, x)[i] = Nth(R(x), i) /\ Nth(R(x), i) \in Sectors
    <2>1. R(x).old \in Sectors /\ R(x).act \in Sectors
      BY <1>1
    <2>2. Way(g, x) = InUse(R(x))
      BY DEF Way
    <2>. HIDE DEF R
    <2>. QED BY <2>1, <2>2, InUseIs
  <1>3. \A x : R(x).old = x /\ R(x).act = g.act
    OBVIOUS
  <1>. HIDE DEF R
  <1>4. ASSUME NEW j \in 1..l
        PROVE  /\ Span(R(Nth(R(s), j))) = l - j + 1
               /\ \A i \in 1..(l - j + 1) : Nth(R(Nth(R(s), j)), i) = Nth(R(s), j + i - 1)
    <2>. DEFINE n == Nth(R(s), j)
    <2>1. n = IF s + j - 1 < NSectors THEN s + j - 1 ELSE s + j - 1 - NSectors
      BY <1>3 DEF Nth
    <2>2. l = IF s <= g.act THEN g.act - s + 1 ELSE g.act + NSectors - s + 1
      BY <1>3 DEF Span
    <2>. HIDE DEF l, n
    <2>3. s \in 0..(NSectors - 1) /\ g.act \in 0..(NSectors - 1) /\ NSectors \in Nat /\ j \in Nat
          /\ j >= 1 /\ j <= l
      BY <1>1, <2>2, Sizes DEF Sectors
    <2>4. Span(R(n)) = l - j + 1
      BY <1>3, <2>1, <2>2, <2>3 DEF Span
    <2>5. ASSUME NEW i \in 1..(l - j + 1) PROVE Nth(R(n), i) = Nth(R(s), j + i - 1)
      <3>1. Nth(R(n), i) = IF n + i - 1 < NSectors THEN n + i - 1 ELSE n + i - 1 - NSectors
        BY <1>3 DEF Nth
      <3>2. Nth(R(s), j + i - 1) = IF s + (j + i - 1) - 1 < NSectors THEN s + (j + i - 1) - 1
                                   ELSE s + (j + i - 1) - 1 - NSectors
        BY <1>3 DEF Nth
      <3>3. i \in Nat /\ i >= 1 /\ i <= l - j + 1 /\ l \in Nat
        BY <2>2, <2>3
      <3>. QED BY <2>1, <2>2, <2>3, <3>1, <3>2, <3>3
    <2>. QED BY <2>4, <2>5 DEF n
  <1>5. Nth(R(s), 1) = s
    BY <1>3, Sizes DEF Nth, Sectors
  <1>6. l \in Nat \ {0} /\ 1 \in 1..l /\ Len(Way(g, s)) = l
    BY <1>2, Sizes
  <1>7. ASSUME NEW j \in 1..l
        PROVE  /\ Way(g, s)[j] \in Sectors
               /\ Len(Way(g, Way(g, s)[j])) = l - j + 1
               /\ \A i \in 1..(l - j + 1) : Way(g, Way(g, s)[j])[i] = Way(g, s)[j + i - 1]
    <2>. DEFINE n == Nth(R(s), j)
    <2>1. Way(g, s)[j] = n /\ n \in Sectors
      BY <1>2
    <2>2. Span(R(n)) = l - j + 1
          /\ \A i \in 1..(l - j + 1) : Nth(R(n), i) = Nth(R(s), j + i - 1)
      BY <1>4
    <2>. HIDE DEF n
    <2>3. Len(Way(g, n)) = Span(R(n)) /\ \A i \in 1..Span(R(n)) : Way(g, n)[i] = Nth(R(n), i)
      BY <1>2, <2>1
    <2>. HIDE DEF l
    <2>4. \A i \in 1..(l - j + 1) : j + i - 1 \in 1..l
      BY <1>6
    <2>5. \A i \in 1..l : Way(g, s)[i] = Nth(R(s), i)
      BY <1>2 DEF l
    <2>. QED BY <2>1, <2>2, <2>3, <2>4, <2>5
  <1>. QED BY <1>2, <1>5, <1>6, <1>7

\* The parts of a range are those of its way before the range's end.
LEMMA PartsIs ==
  ASSUME NEW g, RingOk(g), NEW range \in Ranges
  PROVE  LET way == Way(g, Begin(g, range))
             ps  == Parts(g, range)
         IN  /\ Begin(g, range) \in Sectors /\ ps \in Seq(Seq(Entry)) /\ Len(ps) <= Len(way)
             /\ \A i \in 1..Len(ps) : /\ ps[i] = g.sec[way[i]]
                                      /\ ps[i] # <<>> => way[i] # range.to
             /\ Len(ps) < Len(way) =>
                  way[Len(ps) + 1] = range.to /\ g.sec[way[Len(ps) + 1]] # <<>>
  <1>. DEFINE way  == Way(g, Begin(g, range))
              stop == Stops(g, range)
              l    == IF stop = {} THEN Len(way) ELSE Min(stop) - 1
  <1>1. Begin(g, range) \in Sectors /\ g.sec \in [Sectors -> Seq(Entry)]
    BY DEF RingOk, Rings, Ranges, Begin
  <1>2. way \in Seq(Sectors) /\ Len(way) \in Nat \ {0} /\ DOMAIN way = 1..Len(way)
        /\ \A i \in 1..Len(way) : way[i] \in Sectors
    BY <1>1, WayIs
  <1>. HIDE DEF way
  <1>3. stop = {i \in 1..Len(way) : way[i] = range.to /\ g.sec[way[i]] # <<>>}
    BY <1>2 DEF Stops, way
  <1>4. stop # {} => Min(stop) \in stop /\ \A k \in stop : Min(stop) <= k
    <2>1. stop \subseteq Nat
      BY <1>3
    <2>. HIDE DEF stop
    <2>. QED BY <2>1, MinIn
  <1>. HIDE DEF stop
  <1>5. /\ l \in 0..Len(way) /\ \A i \in 1..l : i \notin stop
        /\ l < Len(way) => l + 1 \in stop
    <2>1. CASE stop = {}
      BY <1>2, <2>1
    <2>2. CASE stop # {}
      <3>. DEFINE m == Min(stop)
      <3>1. m \in stop /\ (\A k \in stop : m <= k) /\ l = m - 1
        BY <1>4, <2>2
      <3>. HIDE DEF m, l
      <3>2. m \in 1..Len(way)
        BY <1>3, <3>1
      <3>3. \A i \in 1..l : ~(m <= i)
        BY <1>2, <3>1, <3>2
      <3>. QED BY <1>2, <3>1, <3>2, <3>3
    <2>. QED BY <2>1, <2>2
  <1>6. Visited(g, range) \in Seq(Sectors) /\ Len(Visited(g, range)) = l
        /\ \A i \in 1..l : Visited(g, range)[i] = way[i]
    <2>1. Visited(g, range) = IF stop = {} THEN way ELSE SubSeq(way, 1, Min(stop) - 1)
      BY Zenon DEF Visited, way, stop
    <2>2. CASE stop = {}
      BY <1>2, <2>1, <2>2
    <2>3. CASE stop # {}
      <3>1. Visited(g, range) = SubSeq(way, 1, l) /\ l \in 0..Len(way)
        BY <1>5, <2>1, <2>3
      <3>. HIDE DEF l
      <3>. QED BY <1>2, <3>1
    <2>. QED BY <2>2, <2>3
  <1>. HIDE DEF l
  <1>7. /\ Parts(g, range) \in Seq(Seq(Entry)) /\ Len(Parts(g, range)) = l
        /\ \A i \in 1..l : Parts(g, range)[i] = g.sec[way[i]]
    <2>. DEFINE e(i) == g.sec[Visited(g, range)[i]]
                Q == Seq(Entry)
    <2>1. Parts(g, range) = [i \in 1..l |-> e(i)] /\ l \in Nat
      BY <1>2, <1>5, <1>6 DEF Parts
    <2>2. \A i \in 1..l : e(i) = g.sec[way[i]] /\ e(i) \in Q
      <3>1. \A i \in 1..l : e(i) = g.sec[way[i]]
        BY <1>6
      <3>2. \A i \in 1..l : way[i] \in Sectors
        BY <1>2, <1>5
      <3>. HIDE DEF e
      <3>. QED BY <1>1, <3>1, <3>2
    <2>. HIDE DEF e, Q
    <2>3. Parts(g, range) \in Seq(Q) /\ Len(Parts(g, range)) = l
          /\ \A i \in 1..l : Parts(g, range)[i] = e(i)
      BY <2>1, <2>2
    <2>. QED BY <2>2, <2>3 DEF Q
  <1>8. \A i \in 1..l : i \in 1..Len(way)
    BY <1>2, <1>5
  <1>9. \A i \in 1..l : g.sec[way[i]] # <<>> => way[i] # range.to
    BY <1>3, <1>5, <1>8
  <1>10. l <= Len(way) /\ (l < Len(way) => way[l + 1] = range.to /\ g.sec[way[l + 1]] # <<>>)
    BY <1>2, <1>3, <1>5
  <1>. QED BY <1>1, <1>7, <1>9, <1>10 DEF way

\* Path is the way in the ring there is.
LEMMA PathIs ==
  ASSUME RingOk(ring), NEW s \in Sectors
  PROVE  Path(s) = Way(ring, s)
  <1>. DEFINE d == (ring.act + NSectors - s) % NSectors
  <1>1. ring.act \in Nat /\ s \in Nat /\ NSectors \in Nat /\ NSectors > 0
    BY Sizes DEF RingOk, Rings, Sectors
  <1>2. d \in Nat
    BY <1>1, Sizes DEF RingOk, Rings, Sectors
  <1>3. Way(ring, s) = [i \in 1..(d + 1) |-> (s + i - 1) % NSectors]
    BY DEF Way, InUse
  <1>4. Path(s) = [i \in 1..(1 + d) |-> (s + i - 1) % NSectors]
    BY DEF Path
  <1>. HIDE DEF d
  <1>5. 1 + d = d + 1
    BY <1>2
  <1>. QED BY <1>3, <1>4, <1>5

\* The contents of a range are its parts put together.
LEMMA ContentsIs ==
  ASSUME RingOk(ring), NEW range \in Ranges
  PROVE  Contents(range) = Concat(Parts(ring, range))
  <1>. DEFINE s == IF range.from = NoSec THEN ring.old ELSE range.from
  <1>1. s \in Sectors /\ s = Begin(ring, range)
    BY DEF RingOk, Rings, Ranges, Begin
  <1>. HIDE DEF s
  <1>2. Path(s) = Way(ring, Begin(ring, range))
    BY <1>1, PathIs
  <1>. QED BY <1>2, Zenon DEF Contents, Parts, Visited, Stops, s

\* Where on the way there is more for a reader that is pos entries into its first sector.
Ahead(g, way, pos) == {i \in DOMAIN way : Len(g.sec[way[i]]) > IF i = 1 THEN pos ELSE 0}

\* Advance takes the first entry there is more of, unless the range ends there.
LEMMA AdvanceIs ==
  ASSUME RingOk(ring), NEW r \in Readers,
         NEW s \in Sectors, s = IF r.sec = NoSec THEN ring.old ELSE r.sec
  PROVE  LET way  == Way(ring, s)
             hits == Ahead(ring, way, r.pos)
             i    == Min(hits)
         IN  Advance(r) = IF hits = {} \/ way[i] = r.range.to THEN [r EXCEPT !.fin = TRUE]
                          ELSE [r EXCEPT !.sec = way[i], !.pos = IF i = 1 THEN r.pos + 1 ELSE 1,
                                         !.have = TRUE, !.off = 0]
  <1>1. Path(s) = Way(ring, s)
    BY PathIs
  <1>. QED BY <1>1, Zenon DEF Advance, Ahead

\* On to the next entry: nothing is owed that was not, and nothing is passed over.
LEMMA AdvanceOwes ==
  ASSUME RingOk(ring), NEW r, NEW rest, Owes(ring, r, rest), ~r.have, ~r.fin
  PROVE  /\ Owes(ring, Advance(r), rest)
         /\ Advance(r).fin \/ Advance(r).have
  <1>. DEFINE range == r.range
              way == Way(ring, Begin(ring, range))
              ps  == Parts(ring, range)
              S   == Len(way)
              L   == Len(ps)
              p   == r.pos
              ahead == IF r.sec = NoSec THEN ring.old ELSE r.sec
              a   == Advance(r)
  <1>1. r \in Readers /\ range \in Ranges /\ p \in Nat
    BY DEF Owes, Readers
  <1>2. /\ Begin(ring, range) \in Sectors /\ ps \in Seq(Seq(Entry)) /\ L <= S
        /\ \A i \in 1..L : ps[i] = ring.sec[way[i]] /\ (ps[i] # <<>> => way[i] # range.to)
        /\ L < S => way[L + 1] = range.to /\ ring.sec[way[L + 1]] # <<>>
    <2>. HIDE DEF range
    <2>. QED BY <1>1, PartsIs
  <1>3. /\ way \in Seq(Sectors) /\ S \in Nat \ {0} /\ way[1] = Begin(ring, range)
        /\ \A k \in 1..S : /\ way[k] \in Sectors
                           /\ Len(Way(ring, way[k])) = S - k + 1
                           /\ \A i \in 1..(S - k + 1) : Way(ring, way[k])[i] = way[k + i - 1]
    <2>. DEFINE b == Begin(ring, range)
                w == Way(ring, b)
    <2>1. b \in Sectors
      BY <1>2
    <2>. HIDE DEF b
    <2>2. /\ w \in Seq(Sectors) /\ Len(w) \in Nat \ {0} /\ w[1] = b
          /\ \A k \in 1..Len(w) : /\ w[k] \in Sectors
                                  /\ Len(Way(ring, w[k])) = Len(w) - k + 1
                                  /\ \A i \in 1..(Len(w) - k + 1) :
                                       Way(ring, w[k])[i] = w[k + i - 1]
      BY <2>1, WayIs
    <2>. QED BY <2>2, Zenon DEF b
  <1>4. PICK j \in DOMAIN way :
          StandsAt(ring, r, j) /\ rest = InFlight(ps[j][p], r) \o Pieces(After(ps, j, p))
    BY DEF Owes
  <1>5. /\ r.sec = NoSec => range.from = NoSec /\ j = 1
        /\ r.sec # NoSec => r.sec = way[j]
        /\ Within(ps, j, p)
    BY <1>4, Zenon DEF StandsAt
  <1>6. j \in 1..S /\ j \in Nat /\ ahead = way[j] /\ L \in Nat
    <2>1. j \in 1..S /\ L \in Nat
      <3>. HIDE DEF way, ps
      <3>. QED BY <1>2, <1>3, <1>4
    <2>2. r.sec = NoSec => ahead = way[j]
      BY <1>3, <1>5 DEF Begin
    <2>. QED BY <1>3, <1>5, <2>1, <2>2
  <1>7. rest = Pieces(After(ps, j, p))
    <2>1. After(ps, j, p) \in Seq(Entry)
      <3>1. CASE j \in 1..L /\ p \in 0..Len(ps[j])
        <4>. HIDE DEF ps, p
        <4>. QED BY <1>2, <3>1, AfterIs
      <3>2. CASE ~(j \in 1..L /\ p \in 0..Len(ps[j]))
        <4>1. j = 1 /\ p = 0
          BY <1>5, <3>2 DEF Within
        <4>2. After(ps, 1, 0) = Concat(ps) /\ Concat(ps) \in Seq(Entry)
          <5>. HIDE DEF ps
          <5>. QED BY <1>2, AfterIs, ConcatType
        <4>. QED BY <4>1, <4>2
      <3>. QED BY <3>1, <3>2
    <2>. DEFINE x == Pieces(After(ps, j, p))
    <2>2. x \in Seq(Unit)
      BY <2>1, PiecesIs
    <2>3. rest = <<>> \o x
      BY <1>4 DEF InFlight
    <2>. HIDE DEF x
    <2>4. rest = x
      BY <2>2, <2>3
    <2>. QED BY <2>4 DEF x
  <1>. DEFINE onward == Way(ring, way[j])
              hits == Ahead(ring, onward, p)
              m    == Min(hits)
              k    == j + m - 1
  <1>8. a = IF hits = {} \/ onward[m] = range.to THEN [r EXCEPT !.fin = TRUE]
            ELSE [r EXCEPT !.sec = onward[m], !.pos = IF m = 1 THEN p + 1 ELSE 1,
                           !.have = TRUE, !.off = 0]
    BY <1>1, <1>3, <1>6, AdvanceIs
  <1>. HIDE DEF a, way, ps, p, range
  <1>9. /\ hits = {i \in 1..(S - j + 1) :
                    Len(ring.sec[way[j + i - 1]]) > IF i = 1 THEN p ELSE 0}
        /\ hits # {} => m \in hits /\ (\A i \in hits : m <= i) /\ onward[m] = way[k]
    <2>1. onward \in Seq(Sectors) /\ Len(onward) = S - j + 1 /\ DOMAIN onward = 1..(S - j + 1)
          /\ \A i \in 1..(S - j + 1) : onward[i] = way[j + i - 1]
      <3>1. onward \in Seq(Sectors)
        BY <1>3, <1>6, WayIs
      <3>2. Len(onward) = S - j + 1
            /\ \A i \in 1..(S - j + 1) : onward[i] = way[j + i - 1]
        BY <1>3, <1>6
      <3>. HIDE DEF onward
      <3>. QED BY <3>1, <3>2
    <2>. HIDE DEF onward
    <2>2. hits = {i \in 1..(S - j + 1) :
                    Len(ring.sec[way[j + i - 1]]) > IF i = 1 THEN p ELSE 0}
      BY <2>1 DEF Ahead
    <2>3. hits \subseteq Nat
      BY <2>2
    <2>. HIDE DEF hits
    <2>4. hits # {} => m \in hits /\ \A i \in hits : m <= i
      BY <2>3, MinIn
    <2>5. hits # {} => onward[m] = way[k]
      BY <2>1, <2>2, <2>4
    <2>. QED BY <2>2, <2>4, <2>5
  <1>. HIDE DEF hits, m, onward, S
  <1>11. j \in 1..S /\ L \in Nat /\ S \in Nat /\ L <= S /\ j <= L + 1 /\ j \in Nat
    <2>1. j <= L + 1
      BY <1>5, <1>6 DEF Within
    <2>. QED BY <1>2, <1>3, <1>6, <2>1
  \* Of the parts, those with more for the reader are the hits.
  <1>10. \A i \in j..L : Holds(ps, j, p, i) <=> i - j + 1 \in hits
    <2>. SUFFICES ASSUME NEW i \in j..L PROVE Holds(ps, j, p, i) <=> i - j + 1 \in hits
      OBVIOUS
    <2>. DEFINE n == i - j + 1
    <2>1. i \in 1..L /\ n \in 1..(S - j + 1) /\ j + n - 1 = i /\ (n = 1 <=> i = j)
      <3>. HIDE DEF L
      <3>. QED BY <1>11
    <2>. HIDE DEF n
    <2>2. ps[i] = ring.sec[way[i]]
      BY <1>2, <2>1
    <2>3. n \in hits <=> Len(ring.sec[way[i]]) > IF n = 1 THEN p ELSE 0
      BY <1>9, <2>1
    <2>4. n \in hits <=> Len(ps[i]) > IF i = j THEN p ELSE 0
      BY <2>1, <2>2, <2>3, Zenon
    <2>. QED BY <2>4 DEF Holds, n
  <1>12. L < S => L + 1 - j + 1 \in hits
    <2>. SUFFICES ASSUME L < S PROVE L + 1 - j + 1 \in hits
      OBVIOUS
    <2>. DEFINE n == L + 1 - j + 1
    <2>1. n \in 1..(S - j + 1) /\ j + n - 1 = L + 1 /\ L + 1 \in 1..S
      <3>. HIDE DEF L
      <3>. QED BY <1>11
    <2>2. n = 1 => p = 0
      BY <1>5, <1>6 DEF Within
    <2>. HIDE DEF n
    <2>3. Len(ring.sec[way[L + 1]]) > 0
      <3>1. way[L + 1] \in Sectors
        BY <1>3, <2>1 DEF S
      <3>2. ring.sec[way[L + 1]] \in Seq(Entry) /\ ring.sec[way[L + 1]] # <<>>
        BY <1>2, <3>1 DEF RingOk, Rings, S
      <3>. QED BY <3>2
    <2>4. n \in hits <=> Len(ring.sec[way[L + 1]]) > IF n = 1 THEN p ELSE 0
      BY <1>9, <2>1
    <2>. QED BY <2>2, <2>3, <2>4 DEF n
  <1>13. CASE hits # {} /\ k <= L
    <2>. DEFINE q == IF k = j THEN p ELSE 0
                e == ps[k][q + 1]
    <2>1. m \in hits /\ (\A i \in hits : m <= i) /\ m \in Nat /\ m >= 1 /\ onward[m] = way[k]
      BY <1>9, <1>13
    <2>2. k \in j..L /\ k - j + 1 = m /\ (m = 1 <=> k = j)
      BY <1>6, <1>13, <2>1
    <2>. HIDE DEF k
    <2>3. Holds(ps, j, p, k) /\ \A i \in j..(k - 1) : ~Holds(ps, j, p, i)
      <3>1. Holds(ps, j, p, k)
        BY <1>10, <2>1, <2>2
      <3>2. ASSUME NEW i \in j..(k - 1) PROVE ~Holds(ps, j, p, i)
        <4>1. i \in j..L /\ ~(m <= i - j + 1)
          BY <1>6, <2>2
        <4>. QED BY <1>10, <2>1, <4>1
      <3>. QED BY <3>1, <3>2
    <2>4. /\ k \in 1..L /\ q + 1 \in 1..Len(ps[k]) /\ e \in Entry
          /\ After(ps, k, q + 1) \in Seq(Entry)
          /\ After(ps, j, p) = <<e>> \o After(ps, k, q + 1)
      <3>1. /\ p \in Nat /\ j \in Nat /\ Within(ps, j, p) /\ k \in j..Len(ps)
            /\ ps \in Seq(Seq(Entry)) /\ Holds(ps, j, p, k)
            /\ \A i \in j..(k - 1) : ~Holds(ps, j, p, i)
        BY <1>1, <1>2, <1>5, <1>6, <2>2, <2>3
      <3>2. q = IF k = j THEN p ELSE 0
        OBVIOUS
      <3>0. NextIn(ps, j, p, k, q) /\ ps \in Seq(Seq(Entry))
        BY <3>1, <3>2, Zenon DEF NextIn
      <3>. HIDE DEF q, ps, p
      <3>3. /\ k \in 1..Len(ps) /\ q + 1 \in 1..Len(ps[k]) /\ ps[k][q + 1] \in Entry
            /\ After(ps, k, q + 1) \in Seq(Entry)
            /\ After(ps, j, p) = <<ps[k][q + 1]>> \o After(ps, k, q + 1)
        BY <3>0, FirstLeft
      <3>. QED BY <3>3
    <2>5. ps[k] # <<>> /\ way[k] # range.to /\ way[k] \in Sectors /\ k \in 1..S
      <3>1. ps[k] # <<>>
        BY <2>4
      <3>2. k \in 1..S
        BY <1>2, <1>3, <1>6, <2>4 DEF S
      <3>. QED BY <1>2, <1>3, <2>4, <3>1, <3>2 DEF S
    <2>6. a = [r EXCEPT !.sec = way[k], !.pos = q + 1, !.have = TRUE, !.off = 0]
      <3>1. a = [r EXCEPT !.sec = onward[m], !.pos = IF m = 1 THEN p + 1 ELSE 1,
                          !.have = TRUE, !.off = 0]
        BY <1>8, <1>13, <2>1, <2>5
      <3>2. (IF m = 1 THEN p + 1 ELSE 1) = q + 1
        BY <2>2
      <3>. QED BY <2>1, <3>1, <3>2, Zenon
    <2>. HIDE DEF q, e
    <2>7. /\ a \in Readers /\ a.range = range /\ a.sec = way[k] /\ a.pos = q + 1 /\ a.have
          /\ a.off = 0 /\ ~a.fin
      <3>1. q + 1 \in Nat
        BY <2>4
      <3>. QED BY <1>1, <2>5, <2>6, <3>1 DEF Readers, range
    <2>8. StandsAt(ring, a, k)
      <3>1. a.sec # NoSec
        BY <2>5, <2>7, Sizes DEF NoSec, Sectors
      <3>2. Within(ps, k, q + 1)
        BY <2>4 DEF Within
      <3>3. q + 1 > 0 /\ 0 < ps[k][q + 1].n
        BY <2>4, UnitsIs DEF e
      <3>. QED BY <2>7, <3>1, <3>2, <3>3 DEF StandsAt, ps, way
    <2>9. rest = InFlight(ps[k][a.pos], a) \o Pieces(After(ps, k, a.pos))
      <3>1. rest = Units(e) \o Pieces(After(ps, k, q + 1))
        BY <1>7, <2>4, PiecesIs
      <3>2. Units(e) \in Seq(Unit) /\ Len(Units(e)) = e.n
        BY <2>4, UnitsIs
      <3>3. SubSeq(Units(e), 0 + 1, e.n) = Units(e)
        BY <3>2, SubSeqFull
      <3>4. InFlight(ps[k][a.pos], a) = Units(e)
        BY <2>7, <3>3 DEF InFlight, e
      <3>. QED BY <2>7, <3>1, <3>4
    <2>10. Owes(ring, a, rest)
      <3>1. k \in DOMAIN way
        BY <1>3, <2>5 DEF S
      <3>. QED BY <2>7, <2>8, <2>9, <3>1 DEF Owes, ps, way
    <2>. QED BY <2>7, <2>10 DEF a
  <1>14. CASE ~(hits # {} /\ k <= L)
    <2>1. \A i \in j..L : ~Holds(ps, j, p, i)
      <3>. SUFFICES ASSUME NEW i \in j..L, Holds(ps, j, p, i) PROVE FALSE
        OBVIOUS
      <3>1. i - j + 1 \in hits
        BY <1>10
      <3>2. hits # {} /\ m <= i - j + 1 /\ m \in Nat
        BY <1>9, <3>1
      <3>. QED BY <1>6, <1>14, <3>2
    <2>2. After(ps, j, p) = <<>>
      BY <1>1, <1>2, <1>5, <1>6, <2>1, NoneLeft DEF p
    <2>3. rest = <<>>
      BY <1>7, <2>2, PiecesIs
    <2>4. hits = {} \/ onward[m] = range.to
      <3>. SUFFICES ASSUME hits # {} PROVE onward[m] = range.to
        OBVIOUS
      <3>1. m \in hits /\ (\A i \in hits : m <= i) /\ onward[m] = way[k] /\ ~(k <= L)
        BY <1>9, <1>14
      <3>2. m \in 1..(S - j + 1)
        BY <1>9, <3>1
      <3>3. L < S
        <4>. HIDE DEF L
        <4>. QED BY <1>11, <3>1, <3>2
      <3>4. m <= L + 1 - j + 1
        BY <1>12, <3>1, <3>3
      <3>5. k = L + 1
        <4>. HIDE DEF L
        <4>. QED BY <1>11, <3>1, <3>2, <3>4
      <3>. QED BY <1>2, <3>1, <3>3, <3>5 DEF S
    <2>5. a = [r EXCEPT !.fin = TRUE]
      BY <1>8, <2>4
    <2>6. a \in Readers /\ a.fin
      BY <1>1, <2>5 DEF Readers
    <2>. QED BY <2>3, <2>6 DEF Owes, a
  <1>. QED BY <1>13, <1>14

\* A unit read is the next one owed; when none comes the reader is through.
LEMMA ReadOwes ==
  ASSUME RingOk(ring), NEW r, NEW rest, Owes(ring, r, rest)
  PROVE  \E rd2, out : \E more \in Seq(Unit) :
           /\ ReadUnit(r) = [rd |-> rd2, out |-> out]
           /\ out \in Seq(Unit) /\ rest = out \o more /\ Owes(ring, rd2, more)
           /\ Len(out) = 1 \/ (out = <<>> /\ rd2.fin)
  <1>. DEFINE r1 == IF r.have \/ r.fin THEN r ELSE Advance(r)
  <1>1. Owes(ring, r1, rest) /\ (r1.fin \/ r1.have)
    <2>1. r.have \/ r.fin \/ (~r.have /\ ~r.fin)
      OBVIOUS
    <2>2. CASE r.have \/ r.fin
      BY <2>2
    <2>3. CASE ~r.have /\ ~r.fin
      <3>1. r1 = Advance(r)
        BY <2>3
      <3>2. Owes(ring, Advance(r), rest) /\ (Advance(r).fin \/ Advance(r).have)
        BY <2>3, AdvanceOwes
      <3>. HIDE DEF r1
      <3>. QED BY <3>1, <3>2
    <2>. QED BY <2>2, <2>3
  <1>. DEFINE s == ring.sec[r1.sec]
              e == IF r1.pos \in DOMAIN s THEN s[r1.pos] ELSE E("data", 0, 0)
              new == [r1 EXCEPT !.off = @ + 1, !.have = r1.off + 1 < e.n]
              u == <<e.no, r1.off + 1>>
  <1>2. ReadUnit(r) = IF r1.fin THEN [rd |-> r1, out |-> <<>>] ELSE [rd |-> new, out |-> <<u>>]
    BY Zenon DEF ReadUnit
  <1>. HIDE DEF r1
  <1>3. CASE r1.fin
    <2>1. ReadUnit(r) = [rd |-> r1, out |-> <<>>]
      BY <1>2, <1>3
    <2>2. rest = <<>> /\ <<>> \in Seq(Unit) /\ <<>> = <<>> \o <<>>
      BY <1>1, <1>3 DEF Owes
    <2>. QED BY <1>1, <1>3, <2>1, <2>2
  <1>4. CASE ~r1.fin
    <2>. DEFINE range == r1.range
                way == Way(ring, Begin(ring, range))
                ps  == Parts(ring, range)
                p   == r1.pos
    <2>1. r1 \in Readers /\ r1.have /\ range \in Ranges /\ p \in Nat /\ r1.off \in Nat
      BY <1>1, <1>4 DEF Owes, Readers
    <2>2. PICK j \in DOMAIN way :
            StandsAt(ring, r1, j) /\ rest = InFlight(ps[j][p], r1) \o Pieces(After(ps, j, p))
      BY <1>1, <1>4 DEF Owes
    <2>3. /\ r1.sec # NoSec /\ r1.sec = way[j] /\ p > 0 /\ r1.off < ps[j][p].n
          /\ Within(ps, j, p)
      BY <2>1, <2>2, Zenon DEF StandsAt
    <2>4. ps \in Seq(Seq(Entry)) /\ \A i \in 1..Len(ps) : ps[i] = ring.sec[way[i]]
      <3>. HIDE DEF range
      <3>. QED BY <2>1, PartsIs
    <2>. HIDE DEF way, ps, p, range
    <2>5. j \in 1..Len(ps) /\ p \in 1..Len(ps[j]) /\ ps[j] = s
      BY <2>1, <2>3, <2>4 DEF Within
    <2>6. e = ps[j][p] /\ e \in Entry
      <3>1. ps[j] \in Seq(Entry) /\ p \in DOMAIN ps[j] /\ ps[j][p] \in Entry
        BY <2>4, <2>5
      <3>2. e = ps[j][p]
        BY <2>5, <3>1 DEF p
      <3>. QED BY <3>1, <3>2
    <2>. DEFINE o == r1.off
                tail == SubSeq(Units(e), o + 1 + 1, e.n)
                x == Pieces(After(ps, j, p))
                more == tail \o x
    <2>. HIDE DEF e
    <2>7. /\ Units(e) \in Seq(Unit) /\ Len(Units(e)) = e.n /\ e.n \in Nat
          /\ \A i \in 1..e.n : Units(e)[i] = <<e.no, i>>
      BY <2>6, UnitsIs
    <2>8. o \in Nat /\ o < e.n /\ o + 1 \in 1..e.n /\ e.n \in (o + 1)..e.n
      BY <2>1, <2>3, <2>6, <2>7
    <2>9. SubSeq(Units(e), o + 1, e.n) = <<u>> \o tail
      <3>1. SubSeq(Units(e), o + 1, e.n) = <<Units(e)[o + 1]>> \o SubSeq(Units(e), (o + 1) + 1, e.n)
        BY <2>7, <2>8, SubSeqRecursiveFirst
      <3>2. Units(e)[o + 1] = u
        BY <2>7, <2>8
      <3>. QED BY <3>1, <3>2, Zenon
    <2>10. tail \in Seq(Unit) /\ <<u>> \in Seq(Unit) /\ x \in Seq(Unit) /\ more \in Seq(Unit)
      <3>1. tail \in Seq(Unit)
        <4>. DEFINE us == Units(e)
        <4>1. \A i \in (o + 1 + 1)..e.n : us[i] \in Unit
          BY <2>7, <2>8
        <4>2. o + 1 + 1 \in Int /\ e.n \in Int
          BY <2>7, <2>8
        <4>. HIDE DEF us
        <4>3. SubSeq(us, o + 1 + 1, e.n) \in Seq(Unit)
          BY <4>1, <4>2, SubSeqProperties
        <4>. QED BY <4>3 DEF us
      <3>2. u \in Unit
        BY <2>6, <2>8 DEF Unit, Entry
      <3>3. x \in Seq(Unit)
        <4>1. After(ps, j, p) \in Seq(Entry)
          <5>1. p \in 0..Len(ps[j])
            BY <2>5
          <5>. QED BY <2>4, <2>5, <5>1, AfterIs
        <4>. QED BY <4>1, PiecesIs
      <3>4. <<u>> \in Seq(Unit)
        <4>. HIDE DEF u
        <4>. QED BY <3>2
      <3>5. more \in Seq(Unit)
        <4>. HIDE DEF tail, x
        <4>. QED BY <3>1, <3>3
      <3>. QED BY <3>1, <3>3, <3>4, <3>5
    <2>11. rest = <<u>> \o more
      <3>1. rest = (<<u>> \o tail) \o x
        BY <2>1, <2>2, <2>6, <2>9 DEF InFlight
      <3>. DEFINE h == <<u>>
      <3>. HIDE DEF tail, x, h
      <3>2. h \in Seq(Unit)
        BY <2>10 DEF h
      <3>3. (h \o tail) \o x = h \o (tail \o x)
        BY <2>10, <3>2, RegroupIn, SMTT(40)
      <3>. QED BY <3>1, <3>3 DEF h
    <2>12. InFlight(ps[j][p], new) = tail
      <3>1. new.have = (o + 1 < e.n) /\ new.off = o + 1
        BY <2>1 DEF Readers
      <3>2. CASE o + 1 < e.n
        BY <2>6, <3>1, <3>2 DEF InFlight
      <3>3. CASE ~(o + 1 < e.n)
        <4>1. tail = <<>>
          BY <2>7, <2>8, <3>3, SubSeqEmpty
        <4>. QED BY <3>1, <3>3, <4>1 DEF InFlight
      <3>. QED BY <3>2, <3>3
    <2>13. /\ new \in Readers /\ new.range = range /\ new.sec = r1.sec /\ new.pos = p
           /\ new.off = o + 1 /\ new.have = (o + 1 < e.n) /\ ~new.fin
      <3>1. o + 1 \in Nat /\ (o + 1 < e.n) \in BOOLEAN
        BY <2>8
      <3>. QED BY <1>4, <2>1, <3>1 DEF Readers, range, p
    <2>. HIDE DEF new, more, tail
    <2>14. StandsAt(ring, new, j)
      BY <2>3, <2>6, <2>13, Zenon DEF StandsAt, ps, way
    <2>15. more = InFlight(ps[j][new.pos], new) \o Pieces(After(ps, j, new.pos))
      BY <2>12, <2>13 DEF more
    <2>16. Owes(ring, new, more)
      BY <2>13, <2>14, <2>15 DEF Owes, ps, way
    <2>17. ReadUnit(r) = [rd |-> new, out |-> <<u>>] /\ Len(<<u>>) = 1
      BY <1>2, <1>4
    <2>. HIDE DEF u
    <2>. QED BY <2>10, <2>11, <2>16, <2>17
  <1>. QED BY <1>3, <1>4

\* What Fill fills in.
Onto(x) == LET u == ReadUnit(x.rd) IN [rd |-> u.rd, out |-> x.out \o u.out]
IsFill(r, room, f) ==
  f = [k \in 0..room |-> IF k = 0 THEN [rd |-> r, out |-> <<>>] ELSE Onto(f[k - 1])]

\* A chunk under way: what it holds and what is still owed make up rest.
Chunks(rest) ==
  {x \in [rd : Readers, out : Seq(Unit)] :
     \E more \in Seq(Unit) : rest = x.out \o more /\ Owes(ring, x.rd, more)}

\* One unit more keeps a chunk a chunk of what is owed, or the reader is through.
LEMMA OntoIs ==
  ASSUME RingOk(ring), NEW rest, NEW x \in Chunks(rest)
  PROVE  /\ Onto(x) \in Chunks(rest)
         /\ Len(Onto(x).out) = Len(x.out) + 1 \/ Onto(x).rd.fin
         /\ x.rd.fin => Onto(x).rd.fin
  <1>1. x \in [rd : Readers, out : Seq(Unit)] /\ x.out \in Seq(Unit) /\ x.rd \in Readers
    BY DEF Chunks
  <1>2. PICK more \in Seq(Unit) : rest = x.out \o more /\ Owes(ring, x.rd, more)
    BY DEF Chunks
  <1>3. PICK rd2, out : \E left \in Seq(Unit) :
           /\ ReadUnit(x.rd) = [rd |-> rd2, out |-> out]
           /\ out \in Seq(Unit) /\ more = out \o left /\ Owes(ring, rd2, left)
           /\ Len(out) = 1 \/ (out = <<>> /\ rd2.fin)
    BY <1>2, ReadOwes
  <1>4. PICK left \in Seq(Unit) :
           /\ ReadUnit(x.rd) = [rd |-> rd2, out |-> out]
           /\ out \in Seq(Unit) /\ more = out \o left /\ Owes(ring, rd2, left)
           /\ Len(out) = 1 \/ (out = <<>> /\ rd2.fin)
    BY <1>3
  <1>. DEFINE o == x.out
              both == o \o out
  <1>5. Onto(x) = [rd |-> rd2, out |-> both]
    BY <1>4 DEF Onto
  <1>6. rd2 \in Readers
    BY <1>4 DEF Owes
  <1>. HIDE DEF o
  <1>7. o \in Seq(Unit) /\ both \in Seq(Unit) /\ Len(both) = Len(o) + Len(out)
    BY <1>1, <1>4 DEF o
  <1>8. rest = both \o left
    <2>1. rest = o \o (out \o left)
      BY <1>2, <1>4 DEF o
    <2>2. (o \o out) \o left = o \o (out \o left)
      BY <1>4, <1>7, RegroupIn, SMTT(40)
    <2>. QED BY <2>1, <2>2
  <1>. HIDE DEF both
  <1>9. Onto(x) \in Chunks(rest)
    <2>. DEFINE y == Onto(x)
    <2>1. y = [rd |-> rd2, out |-> both]
      BY <1>5
    <2>. HIDE DEF y
    <2>2. y \in [rd : Readers, out : Seq(Unit)] /\ y.out = both /\ y.rd = rd2
      BY <1>6, <1>7, <2>1
    <2>3. \E w \in Seq(Unit) : rest = y.out \o w /\ Owes(ring, y.rd, w)
      BY <1>4, <1>8, <2>2, Zenon
    <2>4. y \in Chunks(rest)
      BY <2>2, <2>3, Zenon DEF Chunks
    <2>. QED BY <2>4 DEF y
  <1>10. Len(Onto(x).out) = Len(x.out) + 1 \/ Onto(x).rd.fin
    <2>1. Onto(x).out = both /\ Onto(x).rd = rd2 /\ x.out = o
      BY <1>5 DEF o
    <2>2. Len(out) = 1 \/ rd2.fin
      BY <1>4
    <2>. HIDE DEF Onto
    <2>. QED BY <1>7, <2>1, <2>2
  <1>11. x.rd.fin => Onto(x).rd.fin
    BY DEF Onto, ReadUnit
  <1>. QED BY <1>9, <1>10, <1>11

\* A chunk is the next units owed; a short one is the last.
LEMMA FillOwes ==
  ASSUME RingOk(ring), NEW r, NEW rest \in Seq(Unit), Owes(ring, r, rest), NEW room \in Nat
  PROVE  \E c : /\ c \in Chunks(rest) /\ Fill(r, room) = c
                /\ Len(c.out) < room => c.rd.fin
  <1>. DEFINE St == Chunks(rest)
              a == [rd |-> r, out |-> <<>>]
              G == [p \in (1..room) \X St |-> Onto(p[2])]
              g == CHOOSE h : IsFill(r, room, h)
  <1>1. a \in St
    <2>1. r \in Readers /\ <<>> \in Seq(Unit) /\ rest = <<>> \o rest
      BY DEF Owes
    <2>2. a \in [rd : Readers, out : Seq(Unit)] /\ a.out = <<>> /\ a.rd = r
      BY <2>1
    <2>. HIDE DEF a
    <2>. QED BY <2>1, <2>2 DEF Chunks
  <1>2. \A x \in St : /\ Onto(x) \in St
                      /\ Len(Onto(x).out) = Len(x.out) + 1 \/ Onto(x).rd.fin
                      /\ x.rd.fin => Onto(x).rd.fin
    BY OntoIs
  <1>3. \A x \in St : x.out \in Seq(Unit) /\ Len(x.out) \in Nat
    BY DEF Chunks
  <1>. HIDE DEF St
  <1>4. G \in [(1..room) \X St -> St] /\ \A i \in 1..room, x \in St : G[<<i, x>>] = Onto(x)
    BY <1>2
  <1>. HIDE DEF G, a
  <1>5. PICK f : Folds(f, St, a, room, G)
    BY <1>1, <1>4, Recursion, Zenon
  <1>6. f \in [0..room -> St] /\ f[0] = a /\ \A i \in 1..room : f[i] = Onto(f[i - 1])
    <2>1. f \in [0..room -> St] /\ f[0] = a /\ \A i \in 1..room : f[i] = G[<<i, f[i - 1]>>]
      BY <1>5, Zenon DEF Folds
    <2>2. \A i \in 1..room : i - 1 \in 0..room
      OBVIOUS
    <2>. QED BY <1>4, <2>1, <2>2, Zenon
  <1>7. IsFill(r, room, f)
    <2>1. f = [i \in 0..room |-> f[i]]
      BY <1>6, Zenon
    <2>2. \A i \in 0..room : i # 0 => i \in 1..room
      OBVIOUS
    <2>3. \A i \in 0..room : f[i] = IF i = 0 THEN a ELSE Onto(f[i - 1])
      BY <1>6, <2>2, Zenon
    <2>. QED BY <2>1, <2>3, Zenon DEF IsFill, a
  <1>8. IsFill(r, room, g)
    BY <1>7
  <1>9. Fill(r, room) = g[room]
    BY DEF Fill, IsFill, Onto, g
  <1>. HIDE DEF g
  <1>10. g[0] = a /\ \A i \in 1..room : g[i] = Onto(g[i - 1])
    <2>1. \A i \in 0..room : g[i] = IF i = 0 THEN a ELSE Onto(g[i - 1])
      BY <1>8, Zenon DEF IsFill, a
    <2>2. 0 \in 0..room /\ \A i \in 1..room : i \in 0..room /\ i # 0
      OBVIOUS
    <2>. QED BY <2>1, <2>2, Zenon
  <1>. DEFINE Good == {i \in 0..room : g[i] \in St /\ (Len(g[i].out) = i \/ g[i].rd.fin)}
  <1>11. 0 \in Good
    <2>1. Len(a.out) = 0
      BY DEF a
    <2>. QED BY <1>1, <1>10, <2>1
  <1>12. ASSUME NEW i \in 1..room, i - 1 \in Good  PROVE i \in Good
    <2>. DEFINE x == g[i - 1]
    <2>1. g[i] = Onto(x) /\ x \in St /\ (Len(x.out) = i - 1 \/ x.rd.fin) /\ i \in 0..room
      BY <1>10, <1>12
    <2>. HIDE DEF x
    <2>2. Onto(x) \in St /\ (Len(Onto(x).out) = i \/ Onto(x).rd.fin)
      BY <1>2, <2>1
    <2>. QED BY <2>1, <2>2
  <1>. HIDE DEF Good
  <1>13. room \in Good
    <2>1. 0..room \subseteq Good
      BY <1>11, <1>12, UpTo
    <2>. QED BY <2>1
  <1>. DEFINE c == g[room]
  <1>14. c \in St /\ (Len(c.out) = room \/ c.rd.fin)
    BY <1>13 DEF Good
  <1>. HIDE DEF c
  <1>15. Len(c.out) < room => c.rd.fin
    BY <1>3, <1>14
  <1>. QED BY <1>9, <1>14, <1>15 DEF St, c

\* A reader just opened owes the whole range.
LEMMA OpenedOwes ==
  ASSUME RingOk(ring), NEW range \in Ranges
  PROVE  /\ Pieces(Contents(range)) \in Seq(Unit)
         /\ Owes(ring, Opened(range), Pieces(Contents(range)))
  <1>. DEFINE way == Way(ring, Begin(ring, range))
              ps  == Parts(ring, range)
              r   == Opened(range)
              x   == Pieces(After(ps, 1, 0))
  <1>1. Begin(ring, range) \in Sectors /\ ps \in Seq(Seq(Entry))
    BY PartsIs
  <1>2. 1 \in DOMAIN way /\ way[1] = Begin(ring, range)
    <2>. DEFINE b == Begin(ring, range)
    <2>. HIDE DEF b
    <2>1. Way(ring, b) \in Seq(Sectors) /\ Len(Way(ring, b)) \in Nat \ {0} /\ Way(ring, b)[1] = b
      BY <1>1, WayIs DEF b
    <2>2. 1 \in DOMAIN Way(ring, b)
      BY <2>1
    <2>. QED BY <2>1, <2>2, Zenon DEF b
  <1>3. After(ps, 1, 0) = Concat(ps) /\ Concat(ps) \in Seq(Entry)
    <2>. HIDE DEF ps
    <2>. QED BY <1>1, AfterIs, ConcatType
  <1>4. Contents(range) = Concat(ps)
    BY ContentsIs
  <1>5. Pieces(Contents(range)) = x /\ x \in Seq(Unit)
    <2>. HIDE DEF ps
    <2>. QED BY <1>3, <1>4, PiecesIs
  <1>6. /\ r \in Readers /\ r.range = range /\ r.sec = range.from /\ r.pos = 0 /\ r.have = FALSE
        /\ r.fin = FALSE
    BY DEF Opened, Readers, Ranges
  <1>. HIDE DEF r, way, x, ps
  <1>7. StandsAt(ring, r, 1)
    <2>1. r.sec # NoSec => r.sec = way[1]
      BY <1>2, <1>6 DEF Begin
    <2>2. Within(ps, 1, r.pos)
      BY <1>6 DEF Within
    <2>. QED BY <1>6, <2>1, <2>2 DEF StandsAt, ps, way
  <1>8. x = InFlight(ps[1][r.pos], r) \o x
    <2>1. <<>> \o x = x
      BY <1>5
    <2>. QED BY <1>6, <2>1 DEF InFlight
  <1>9. Owes(ring, r, x)
    <2>1. r.pos = 0
      BY <1>6
    <2>. QED BY <1>2, <1>6, <1>7, <1>8, <2>1 DEF Owes, ps, way, x
  <1>. QED BY <1>5, <1>9 DEF r

-----------------------------------------------------------------------------
(* Ranges.                                                                 *)

Rows == [boot : Nat, dive : Nat, flags : SUBSET {"boot", "start", "end", "data"}]
RowsType == rows \in [Sectors -> Rows]

\* Of numbered sectors one has the highest number.
LEMMA Highest ==
  ASSUME NEW S, S \subseteq Sectors, S # {}, NEW f \in [Sectors -> Nat]
  PROVE  \E s \in S : \A t \in S : f[s] >= f[t]
  <1>. DEFINE Has(n) == \E s \in S : \A t \in S : t < n => f[s] >= f[t]
              Good == {n \in 0..NSectors : Has(n)}
  <1>1. S \subseteq 0..(NSectors - 1) /\ NSectors \in Nat
    BY Sizes DEF Sectors
  <1>2. 0 \in Good
    <2>1. PICK s \in S : TRUE
      OBVIOUS
    <2>2. \A t \in S : ~(t < 0)
      BY <1>1
    <2>. QED BY <1>1, <2>1, <2>2
  <1>3. ASSUME NEW n \in 1..NSectors, n - 1 \in Good  PROVE n \in Good
    <2>1. PICK s \in S : \A t \in S : t < n - 1 => f[s] >= f[t]
      BY <1>3
    <2>2. \A t \in S : t < n => t < n - 1 \/ t = n - 1
      BY <1>1
    <2>3. \A t \in S : f[t] \in Nat
      OBVIOUS
    <2>4. CASE n - 1 \in S /\ ~(f[s] >= f[n - 1])
      <3>1. PICK x \in S : x = n - 1
        BY <2>4
      <3>2. \A t \in S : t < n => f[x] >= f[t]
        BY <2>1, <2>2, <2>3, <2>4, <3>1
      <3>. QED BY <3>1, <3>2
    <2>5. CASE ~(n - 1 \in S /\ ~(f[s] >= f[n - 1]))
      BY <2>1, <2>2, <2>3, <2>5
    <2>. QED BY <2>4, <2>5
  <1>4. NSectors \in Good
    <2>. HIDE DEF Good
    <2>1. 0..NSectors \subseteq Good
      BY <1>1, <1>2, <1>3, UpTo
    <2>. QED BY <1>1, <2>1
  <1>5. PICK s \in S : \A t \in S : t < NSectors => f[s] >= f[t]
    BY <1>4
  <1>6. \A t \in S : t < NSectors
    BY <1>1
  <1>. QED BY <1>5, <1>6

\* The least of some sectors is one of them.
LEMMA LeastSector ==
  ASSUME NEW S, S \subseteq Sectors, S # {}  PROVE Min(S) \in Sectors /\ Min(S) \in S
  <1>1. S \subseteq Nat
    BY Sizes DEF Sectors
  <1>. QED BY <1>1, MinIn

\* The row of a sector is a row.
LEMMA RowIs ==
  ASSUME NEW sec \in Seq(Entry)  PROVE RowOf(sec) \in Rows
  <1>0. DOMAIN sec \subseteq Nat /\ \A i \in DOMAIN sec : sec[i] \in Entry
    OBVIOUS
  <1>1. ASSUME NEW kinds  PROVE FirstId(sec, kinds) \in Nat
    <2>. DEFINE I == {i \in DOMAIN sec : sec[i].k \in kinds}
    <2>1. I \subseteq Nat /\ \A i \in I : sec[i].id \in Nat
      BY <1>0 DEF Entry
    <2>2. FirstId(sec, kinds) = IF I = {} THEN 0 ELSE sec[Min(I)].id
      BY Zenon DEF FirstId
    <2>. HIDE DEF I
    <2>3. I # {} => sec[Min(I)].id \in Nat
      <3>1. I # {} => Min(I) \in I
        BY <2>1, MinIn
      <3>. QED BY <2>1, <3>1, Zenon
    <2>. QED BY <2>2, <2>3
  <1>2. {sec[i].k : i \in MarkersOf(sec)} \subseteq {"boot", "start", "end", "data"}
    BY <1>0 DEF MarkersOf, Entry
  <1>. DEFINE flags == {sec[i].k : i \in MarkersOf(sec)}
  <1>3. RowOf(sec) = [boot |-> FirstId(sec, {"boot"}), dive |-> FirstId(sec, {"start", "end"}),
                      flags |-> flags]
    BY DEF RowOf
  <1>. HIDE DEF flags
  <1>. QED BY <1>1, <1>2, <1>3 DEF Rows, flags

\* Whatever a selector is resolved to is a range.
LEMMA ResolvedIs ==
  ASSUME RowsType, NEW req
  PROVE  /\ LatestBoot \in Ranges /\ LatestDive \in Ranges
         /\ \A s \in Sectors : ById(req, s) \in Ranges
         /\ Hits(req) # {} => Min(Hits(req)) \in Sectors
  <1>1. ASSUME NEW S, S \subseteq Sectors, NEW f \in [Sectors -> Nat],
               NEW x, x = IF S = {} THEN NoSec
                          ELSE Min({s \in S : \A t \in S : f[s] >= f[t]})
        PROVE  x \in Sectors \cup {NoSec}
    <2>. DEFINE best == {s \in S : \A t \in S : f[s] >= f[t]}
    <2>1. S # {} => best # {}
      BY <1>1, Highest
    <2>2. best \subseteq Sectors
      BY <1>1
    <2>. HIDE DEF best
    <2>3. S # {} => Min(best) \in Sectors
      BY <2>1, <2>2, LeastSector
    <2>. QED BY <1>1, <2>3 DEF best
  <1>2. LatestBoot \in Ranges
    <2>. DEFINE S == {s \in Sectors : "boot" \in rows[s].flags}
                f == [s \in Sectors |-> rows[s].boot]
                best == {s \in S : \A t \in S : rows[s].boot >= rows[t].boot}
                x == IF S = {} THEN NoSec ELSE Min(best)
    <2>1. f \in [Sectors -> Nat]
      BY DEF RowsType, Rows
    <2>2. best = {s \in S : \A t \in S : f[s] >= f[t]} /\ S \subseteq Sectors
      OBVIOUS
    <2>3. LatestBoot = [from |-> x, to |-> NoSec]
      BY Zenon DEF LatestBoot, Latest
    <2>. HIDE DEF f, S, best
    <2>4. x \in Sectors \cup {NoSec}
      BY <1>1, <2>1, <2>2
    <2>. QED BY <2>3, <2>4 DEF Ranges
  <1>3. LatestDive \in Ranges
    <2>. DEFINE S == {s \in Sectors : "start" \in rows[s].flags}
                f == [s \in Sectors |-> rows[s].dive]
                best == {s \in S : \A t \in S : rows[s].dive >= rows[t].dive}
                x == IF S = {} THEN NoSec ELSE Min(best)
    <2>1. f \in [Sectors -> Nat]
      BY DEF RowsType, Rows
    <2>2. best = {s \in S : \A t \in S : f[s] >= f[t]} /\ S \subseteq Sectors
      OBVIOUS
    <2>3. LatestDive = [from |-> x, to |-> NoSec]
      BY Zenon DEF LatestDive, Latest
    <2>. HIDE DEF f, S, best
    <2>4. x \in Sectors \cup {NoSec}
      BY <1>1, <2>1, <2>2
    <2>. QED BY <2>3, <2>4 DEF Ranges
  <1>4. ASSUME NEW s \in Sectors  PROVE ById(req, s) \in Ranges
    <2>. DEFINE ends == {t \in Sectors \ Hits(req) : t > s /\ rows[t].flags \cap KindsOf(req) # {}}
                y == IF ends = {} THEN NoSec ELSE Min(ends)
    <2>1. ById(req, s) = [from |-> s, to |-> y]
      BY Zenon DEF ById
    <2>2. ends \subseteq Sectors
      OBVIOUS
    <2>. HIDE DEF ends
    <2>3. y \in Sectors \cup {NoSec}
      BY <2>2, LeastSector
    <2>. HIDE DEF y
    <2>. QED BY <2>1, <2>3 DEF Ranges
  <1>5. Hits(req) # {} => Min(Hits(req)) \in Sectors
    <2>. DEFINE H == Hits(req)
    <2>1. H \subseteq Sectors
      BY DEF Hits
    <2>. HIDE DEF H
    <2>2. H # {} => Min(H) \in Sectors
      BY <2>1, LeastSector
    <2>. QED BY <2>2 DEF H
  <1>. QED BY <1>2, <1>3, <1>4, <1>5

\* The index rows are rows, whoever has the arena.
LEMMA RowsTypeStep ==
  ASSUME RingOk(ring), RowsType, [Next]_lvars  PROVE  RowsType'
  <1>. USE DEF RowsType
  <1>1. CASE UNCHANGED rows
    BY <1>1
  <1>2. CASE TenantClaims
    <2>1. Junk \in Rows
      BY DEF Junk, Rows
    <2>. QED BY <1>2, <2>1 DEF TenantClaims
  <1>3. CASE Ensure
    <2>1. NoRow \in Rows
      BY DEF NoRow, Rows
    <2>. QED BY <1>3, <2>1 DEF Ensure
  <1>4. CASE Walk
    <2>. DEFINE s == Head(wk.todo)
    <2>1. UNCHANGED rows \/ rows' = [rows EXCEPT ![s] = RowOf(ring.sec[s])]
      BY <1>4 DEF Walk
    <2>2. s \in Sectors => RowOf(ring.sec[s]) \in Rows
      <3>. HIDE DEF s
      <3>1. s \in Sectors => ring.sec[s] \in Seq(Entry)
        BY DEF RingOk, Rings
      <3>. QED BY <3>1, RowIs
    <2>. HIDE DEF s
    <2>. QED BY <2>1, <2>2
  <1>5. WriterStep => UNCHANGED rows
    BY DEF WriterStep
  <1>6. TenantStep => TenantClaims \/ UNCHANGED rows
    BY DEF TenantStep, TenantReleases, EraseLog
  <1>7. WorkerStep => Ensure \/ Walk \/ UNCHANGED rows
    BY DEF WorkerStep, Take, ClaimIndex, ClaimDenied, BuildEnds, Use, Scan, Unclaim, Publish
  <1>8. RxStep => UNCHANGED rows
    BY DEF RxStep
  <1>9. UNCHANGED lvars => UNCHANGED rows
    BY DEF lvars
  <1>. QED BY <1>1, <1>2, <1>3, <1>4, <1>5, <1>6, <1>7, <1>8, <1>9 DEF Next

\* What is asked for is a selector, and what it is resolved to a range.
LEMMA RangeStep ==
  ASSUME SmType, WorkerType, RingOk(ring), RowsType, wk.todo \in Seq(Sectors), RangeInv,
         [Next]_lvars
  PROVE  RangeInv'
  <1>. USE DEF RangeInv, SmType, WorkerType
  <1>0. WholeRing \in Ranges
    BY DEF WholeRing, Ranges
  <1>1. CASE WriterStep
    BY <1>1 DEF WriterStep, rxside
  <1>2. CASE TenantStep
    BY <1>2 DEF TenantStep, rxside
  <1>3. CASE Take /\ WorkerStep
    <2>1. UNCHANGED sm
      BY <1>3 DEF Take
    <2>2. CASE sm.active /\ ~sm.done
      <3>1. wk' = [wk EXCEPT !.pc = "claim", !.req = sm.req, !.tries = 0]
        BY <1>3, <2>2 DEF Take
      <3>. QED BY <2>1, <2>2, <3>1
    <2>3. CASE ~(sm.active /\ ~sm.done)
      BY <1>3, <2>1, <2>3 DEF Take
    <2>. QED BY <2>2, <2>3
  <1>4. CASE ClaimIndex /\ WorkerStep
    BY <1>4 DEF ClaimIndex
  <1>5. CASE ClaimDenied /\ WorkerStep
    BY <1>5 DEF ClaimDenied
  <1>6. CASE Ensure /\ WorkerStep
    BY <1>6 DEF Ensure
  <1>7. CASE Walk /\ WorkerStep
    BY <1>7 DEF Walk
  <1>8. CASE BuildEnds /\ WorkerStep
    BY <1>8 DEF BuildEnds
  <1>9. CASE Use /\ WorkerStep
    <2>1. UNCHANGED sm /\ wk.pc # "wait"
      BY <1>9 DEF Use
    <2>2. wk'.req = wk.req /\ wk'.range \in Ranges
      <3>. DEFINE h == Min(Hits(wk.req))
                  r == ById(wk.req, h)
      <3>1. /\ wk'.req = wk.req
            /\ \/ wk'.range \in {wk.range, WholeRing, LatestBoot, LatestDive}
               \/ Hits(wk.req) # {} /\ wk'.range = r
        BY <1>9, UseIs
      <3>2. LatestBoot \in Ranges /\ LatestDive \in Ranges
        BY ResolvedIs
      <3>3. Hits(wk.req) # {} => r \in Ranges
        <4>1. Hits(wk.req) # {} => h \in Sectors
          BY ResolvedIs
        <4>. HIDE DEF h
        <4>. QED BY <4>1, ResolvedIs
      <3>. HIDE DEF r
      <3>. QED BY <1>0, <3>1, <3>2, <3>3
    <2>. QED BY <2>1, <2>2
  <1>s. CASE Scan /\ WorkerStep
    <2>1. UNCHANGED sm /\ wk.pc # "wait"
      BY <1>s DEF Scan
    <2>2. wk'.req = wk.req /\ wk'.range \in Ranges
      <3>1. /\ wk'.req = wk.req
            /\ \/ wk'.range \in {wk.range, WholeRing}
               \/ \E s \in Sectors : wk'.range = ById(wk.req, s)
        BY <1>s, ScanGoes
      <3>2. \A s \in Sectors : ById(wk.req, s) \in Ranges
        BY ResolvedIs
      <3>. QED BY <1>0, <3>1, <3>2
    <2>. QED BY <2>1, <2>2
  <1>10. CASE Unclaim /\ WorkerStep
    BY <1>10 DEF Unclaim
  <1>11. CASE Publish /\ WorkerStep
    <2>1. wk' = Waiting /\ (UNCHANGED sm \/ sm' = [sm EXCEPT !.range = wk.range, !.rc = wk.rc,
                                                            !.done = TRUE])
      BY <1>11 DEF Publish
    <2>2. wk'.pc = "wait" /\ wk'.range \in Ranges
      BY <1>0, <2>1 DEF Waiting
    <2>. QED BY <2>1, <2>2
  <1>12. CASE SelectAll /\ RxStep
    BY <1>0, <1>12 DEF SelectAll, RxStep, StopStreaming, Finish
  <1>13. CASE BeginStream /\ RxStep
    BY <1>13 DEF BeginStream, RxStep
  <1>14. CASE RequestDownload /\ RxStep
    BY <1>14 DEF RequestDownload, RxStep
  <1>15. CASE TransferData /\ RxStep
    BY <1>15 DEF TransferData, Answered, RxStep
  <1>16. CASE AnswerLost /\ RxStep
    BY <1>16 DEF AnswerLost, RxStep
  <1>17. CASE ChunkFails /\ RxStep
    BY <1>17 DEF ChunkFails, RxStep
  <1>f. CASE SearchFails /\ RxStep
    BY <1>f DEF SearchFails, Answered, RxStep
  <1>18. CASE Poll /\ RxStep
    BY <1>18 DEF Poll, RxStep, StopStreaming
  <1>19. CASE TransferExit /\ RxStep
    BY <1>19 DEF TransferExit, Poll, RxStep, StopStreaming
  <1>20. ASSUME NEW req \in Selectors, Select(req), RxStep  PROVE RangeInv'
    <2>1. /\ sm'.range = sm.range /\ UNCHANGED wk
          /\ sm'.active => sm'.req = req \/ (sm.active /\ sm'.req = sm.req)
      BY <1>20, SelectCases DEF RxStep
    <2>. QED BY <1>20, <2>1
  <1>21. CASE UNCHANGED lvars
    BY <1>21 DEF lvars
  <1>. QED
    BY <1>s, <1>f, <1>1, <1>2, <1>3, <1>4, <1>5, <1>6, <1>7, <1>8, <1>9, <1>10, <1>11, <1>12, <1>13,
       <1>14, <1>15, <1>16, <1>17, <1>18, <1>19, <1>20, <1>21
    DEF Next, WorkerStep, RxStep

-----------------------------------------------------------------------------
(* The stream.                                                             *)

\* A step that gives the client nothing, and changes neither the reader nor the
\* ring while the two agree.
LEMMA NothingSent ==
  ASSUME StreamInv, DOMAIN cl' = DOMAIN cl, cl'.got = cl.got, cl'.fin = cl.fin, cl'.seq = cl.seq,
         cl'.at = "begun" => cl.at = "begun", hist'.want = hist.want,
         Spoilt => Spoilt',
         ~Spoilt' /\ InStep' => InStep /\ UNCHANGED <<ring, rd>>
  PROVE  StreamInv'
  <1>1. DOMAIN cl' = {"seq", "got", "fin", "at"} /\ cl'.seq \in Nat /\ cl'.fin \in BOOLEAN
        /\ (cl'.at = "begun" => cl'.seq = 1)
    BY DEF StreamInv
  <1>2. ASSUME ~Spoilt'
        PROVE  \E rest \in Seq(Unit) : /\ cl'.got \in Seq(Unit)
                                       /\ hist'.want = cl'.got \o rest
                                       /\ cl'.fin => rest = <<>>
                                       /\ InStep' => Owes(ring', rd', rest)
    <2>1. PICK rest \in Seq(Unit) : /\ cl.got \in Seq(Unit)
                                    /\ hist.want = cl.got \o rest
                                    /\ cl.fin => rest = <<>>
                                    /\ InStep => Owes(ring, rd, rest)
      BY <1>2 DEF StreamInv
    <2>2. InStep' => Owes(ring', rd', rest)
      <3>. SUFFICES ASSUME InStep' PROVE Owes(ring', rd', rest)
        OBVIOUS
      <3>1. InStep /\ ring' = ring /\ rd' = rd
        BY <1>2
      <3>. QED BY <2>1, <3>1
    <2>. QED BY <2>1, <2>2
  <1>. QED BY <1>1, <1>2 DEF StreamInv

\* Whoever changes the ring while a stream runs has it noted.
LEMMA RingChange ==
  ASSUME SmType, HistType, [Next]_lvars, ~RxStep
  PROVE  /\ UNCHANGED <<rd, cl>> /\ sm'.state = sm.state /\ sm'.seq = sm.seq
         /\ hist'.want = hist.want /\ hist'.unread = hist.unread /\ hist'.patched = hist.patched
         /\ hist.chased => hist'.chased
         /\ ~hist'.chased /\ sm.state = "streaming" => UNCHANGED ring
  <1>. USE DEF SmType, HistType
  <1>1. CASE BeginFlush /\ WriterStep
    BY <1>1 DEF BeginFlush, WriterStep, rxside
  <1>2. CASE EndFlush /\ WriterStep
    BY <1>2 DEF EndFlush, WriterStep, rxside
  <1>3. CASE Write /\ WriterStep
    BY <1>3 DEF Write, WriterStep, Touched, rxside
  <1>4. CASE MakeRoom /\ WriterStep
    BY <1>4 DEF MakeRoom, Rotation, WriterStep, rxside
  <1>5. CASE MoveEpoch /\ WriterStep
    BY <1>5 DEF MoveEpoch, WriterStep, rxside
  <1>6. CASE TenantClaims /\ TenantStep
    BY <1>6 DEF TenantClaims, TenantStep, logside, rxside
  <1>7. CASE TenantReleases /\ TenantStep
    BY <1>7 DEF TenantReleases, TenantStep, logside, rxside
  <1>8. CASE EraseLog /\ TenantStep
    BY <1>8 DEF EraseLog, TenantStep, Touched, rxside
  <1>9. CASE Take /\ WorkerStep
    BY <1>9 DEF Take, WorkerStep, logside
  <1>10. CASE ClaimIndex /\ WorkerStep
    BY <1>10 DEF ClaimIndex, WorkerStep, logside
  <1>11. CASE ClaimDenied /\ WorkerStep
    BY <1>11 DEF ClaimDenied, WorkerStep, logside
  <1>12. CASE Ensure /\ WorkerStep
    BY <1>12 DEF Ensure, WorkerStep, logside
  <1>13. CASE Walk /\ WorkerStep
    BY <1>13 DEF Walk, WorkerStep, logside
  <1>14. CASE BuildEnds /\ WorkerStep
    BY <1>14 DEF BuildEnds, WorkerStep, logside
  <1>15. CASE Use /\ WorkerStep
    BY <1>15 DEF Use, Answer, WorkerStep, logside
  <1>s. CASE Scan /\ WorkerStep
    BY <1>s DEF Scan, Answer, WorkerStep, logside
  <1>16. CASE Unclaim /\ WorkerStep
    BY <1>16 DEF Unclaim, WorkerStep, logside
  <1>17. CASE Publish /\ WorkerStep
    <2>1. UNCHANGED <<ring, rd, cl>>
      BY <1>17 DEF WorkerStep, logside
    <2>2. UNCHANGED sm \/ sm' = [sm EXCEPT !.range = wk.range, !.rc = wk.rc, !.done = TRUE]
      BY <1>17 DEF Publish
    <2>3. \/ hist' = [hist EXCEPT !.rangeOf = wk.req, !.there = {}, !.missed = FALSE]
          \/ hist' = [hist EXCEPT !.there = {}, !.missed = FALSE]
      BY <1>17 DEF Publish
    <2>4. sm'.state = sm.state /\ sm'.seq = sm.seq
      BY <2>2
    <2>5. /\ hist'.want = hist.want /\ hist'.unread = hist.unread
          /\ hist'.patched = hist.patched /\ hist'.chased = hist.chased
      BY <2>3
    <2>. QED BY <2>1, <2>4, <2>5
  <1>18. CASE UNCHANGED lvars
    BY <1>18 DEF lvars
  <1>. QED
    BY <1>s, <1>1, <1>2, <1>3, <1>4, <1>5, <1>6, <1>7, <1>8, <1>9, <1>10, <1>11, <1>12, <1>13,
         <1>14,
         <1>15, <1>16, <1>17, <1>18
    DEF Next, WriterStep, TenantStep, WorkerStep

\* A chunk of a spoilt stream only leaves the client well formed.
LEMMA SpoiltSent ==
  ASSUME StreamInv, Asked, NEW c, Answered(c), Spoilt'  PROVE  StreamInv'
  <1>. DEFINE n == NextSeq(cl.seq)   got == cl.got \o c.out   short == Len(c.out) < Room
  <1>1. n \in Nat /\ short \in BOOLEAN
    BY DEF NextSeq, StreamInv
  <1>2. cl' = [cl EXCEPT !.seq = n, !.got = got, !.fin = short] /\ cl.at # "begun"
    BY DEF Answered, Asked
  <1>. HIDE DEF n, got, short
  <1>3. /\ DOMAIN cl' = {"seq", "got", "fin", "at"} /\ cl'.seq = n /\ cl'.fin = short
        /\ cl'.at # "begun"
    BY <1>2 DEF StreamInv
  <1>. QED BY <1>1, <1>3 DEF StreamInv

\* A chunk carries the next of what is owed.
LEMMA ChunkSent ==
  ASSUME HistType, RingOk(ring), StreamInv, TransferData, RxStep, ~Spoilt'  PROVE  StreamInv'
  <1>. DEFINE c == Fill(rd, Room)
  <1>0. /\ ~Spoilt /\ cl.at = "open" /\ hist'.want = hist.want
    <2>. DEFINE p == hist.patched \/ cl.at = "refused"
    <2>1. hist' = [hist EXCEPT !.patched = p]
      BY DEF TransferData
    <2>. HIDE DEF p
    <2>2. /\ hist'.patched = p /\ hist'.chased = hist.chased /\ hist'.unread = hist.unread
          /\ hist'.want = hist.want
      BY <2>1 DEF HistType
    <2>3. ~p
      BY <2>2 DEF Spoilt
    <2>. QED BY <2>2, <2>3 DEF Spoilt, p, TransferData, Asked
  <1>1. /\ sm.state = "streaming" /\ cl.at = "open" /\ ~cl.fin /\ cl.seq = sm.seq
        /\ rd' = c.rd
        /\ cl' = [cl EXCEPT !.seq = NextSeq(cl.seq), !.got = cl.got \o c.out,
                            !.fin = Len(c.out) < Room]
        /\ UNCHANGED ring
    BY <1>0 DEF TransferData, Asked, Answered, Expected, RxStep, logside
  <1>2. Room \in Nat
    BY DownloadConstants DEF Room
  <1>3. NextSeq(cl.seq) \in Nat
    BY DEF NextSeq, StreamInv
  <1>. DEFINE n == NextSeq(cl.seq)   got == cl.got \o c.out   short == Len(c.out) < Room
  <1>4. short \in BOOLEAN
    OBVIOUS
  <1>5. cl' = [cl EXCEPT !.seq = n, !.got = got, !.fin = short]
    BY <1>1
  <1>. HIDE DEF n, got, short
  <1>6. /\ DOMAIN cl' = {"seq", "got", "fin", "at"} /\ cl'.seq = n /\ cl'.fin = short
        /\ cl'.got = got /\ cl'.at = "open"
    BY <1>1, <1>5 DEF StreamInv
  <1>7. \E rest \in Seq(Unit) : /\ cl'.got \in Seq(Unit)
                                /\ hist'.want = cl'.got \o rest
                                /\ cl'.fin => rest = <<>>
                                /\ InStep' => Owes(ring', rd', rest)
    <2>1. PICK rest \in Seq(Unit) : /\ cl.got \in Seq(Unit) /\ hist.want = cl.got \o rest
                                    /\ Owes(ring, rd, rest)
      <3>1. ~Spoilt /\ InStep
        BY <1>0, <1>1 DEF InStep
      <3>. QED BY <3>1 DEF StreamInv
    <2>2. c \in Chunks(rest) /\ (Len(c.out) < Room => c.rd.fin)
      <3>. HIDE DEF c
      <3>1. PICK d : d \in Chunks(rest) /\ Fill(rd, Room) = d /\ (Len(d.out) < Room => d.rd.fin)
        BY <1>2, <2>1, FillOwes
      <3>. QED BY <3>1 DEF c
    <2>. HIDE DEF c
    <2>3. PICK more \in Seq(Unit) : rest = c.out \o more /\ Owes(ring, c.rd, more)
      BY <2>2 DEF Chunks
    <2>4. c.out \in Seq(Unit)
      BY <2>2 DEF Chunks
    <2>. DEFINE x == cl.got   y == c.out
    <2>5. x \in Seq(Unit) /\ y \in Seq(Unit) /\ got = x \o y /\ hist.want = x \o (y \o more)
      BY <2>1, <2>3, <2>4 DEF got
    <2>. HIDE DEF x, y
    <2>6. got \in Seq(Unit) /\ hist.want = got \o more
      <3>1. (x \o y) \o more = x \o (y \o more)
        BY <2>5, RegroupIn, SMTT(40)
      <3>2. x \o y \in Seq(Unit)
        BY <2>5
      <3>. QED BY <2>5, <3>1, <3>2
    <2>7. short => more = <<>>
      BY <2>2, <2>3 DEF Owes, short
    <2>8. Owes(ring', rd', more)
      BY <1>1, <2>3 DEF c
    <2>. QED BY <1>0, <1>1, <1>6, <2>6, <2>7, <2>8
  <1>. QED BY <1>3, <1>4, <1>6, <1>7 DEF StreamInv, n

\* What the client has is the beginning of the selection, at every step.
LEMMA StreamStep ==
  ASSUME SmType, HistType, RingOk(ring), RangeInv, StreamInv, [Next]_lvars  PROVE  StreamInv'
  <1>. USE DEF SmType, HistType
  <1>0. DOMAIN cl = {"seq", "got", "fin", "at"} /\ cl.seq \in Nat
    BY DEF StreamInv
  <1>1. CASE ~RxStep
    <2>1. /\ UNCHANGED <<rd, cl>> /\ sm'.state = sm.state /\ sm'.seq = sm.seq
          /\ hist'.want = hist.want /\ (hist.chased => hist'.chased)
          /\ hist'.unread = hist.unread /\ hist'.patched = hist.patched
          /\ ~hist'.chased /\ sm.state = "streaming" => UNCHANGED ring
      BY <1>1, RingChange
    <2>2. Spoilt => Spoilt'
      BY <2>1 DEF Spoilt
    <2>3. ~Spoilt' /\ InStep' => InStep /\ UNCHANGED <<ring, rd>>
      BY <2>1 DEF Spoilt, InStep
    <2>. QED BY <2>1, <2>2, <2>3, NothingSent
  <1>2. CASE SelectAll /\ RxStep
    <2>1. /\ UNCHANGED <<rd, cl>> /\ sm'.state # "streaming" /\ hist'.want = hist.want
          /\ hist'.chased = hist.chased /\ hist'.unread = hist.unread
          /\ hist'.patched = hist.patched
      BY <1>2 DEF SelectAll, StopStreaming, Finish
    <2>. QED BY <2>1, NothingSent DEF InStep, Spoilt
  <1>3. ASSUME NEW req \in Selectors, Select(req), RxStep  PROVE StreamInv'
    <2>1. UNCHANGED <<rd, cl>>
      BY <1>3 DEF Select
    <2>2. /\ sm'.state # "streaming" /\ hist'.want = hist.want
          /\ hist'.chased = hist.chased /\ hist'.unread = hist.unread
          /\ hist'.patched = hist.patched
      <3>1. /\ sm'.state \in {"idle", "selected"}
            /\ \/ UNCHANGED hist \/ hist' = [hist EXCEPT !.asked = req]
               \/ hist' = [hist EXCEPT !.overtaken = FALSE]
        BY <1>3, SelectCases
      <3>. QED BY <3>1
    <2>. QED BY <2>1, <2>2, NothingSent DEF InStep, Spoilt
  <1>4. CASE BeginStream /\ RxStep
    <2>. DEFINE want == Pieces(Contents(sm.range))
    <2>1. rd' = Opened(sm.range) /\ cl' = NoStream /\ hist'.want = want /\ UNCHANGED ring
      BY <1>4 DEF BeginStream, RxStep, logside
    <2>2. want \in Seq(Unit) /\ Owes(ring, Opened(sm.range), want)
      BY OpenedOwes DEF RangeInv
    <2>. HIDE DEF want
    <2>3. /\ DOMAIN cl' = {"seq", "got", "fin", "at"} /\ cl'.seq = 1 /\ cl'.fin = FALSE
          /\ cl'.got = <<>>
      BY <2>1 DEF NoStream
    <2>4. want = <<>> \o want /\ <<>> \in Seq(Unit)
      BY <2>2
    <2>5. Owes(ring', rd', want)
      BY <2>1, <2>2
    <2>6. cl'.got \in Seq(Unit) /\ hist'.want = cl'.got \o want /\ ~cl'.fin
      BY <2>1, <2>3, <2>4
    <2>7. \E rest \in Seq(Unit) : /\ cl'.got \in Seq(Unit)
                                  /\ hist'.want = cl'.got \o rest
                                  /\ cl'.fin => rest = <<>>
                                  /\ InStep' => Owes(ring', rd', rest)
      BY <2>2, <2>5, <2>6, Zenon
    <2>8. cl'.seq \in Nat
      BY <2>3
    <2>9. cl'.fin \in BOOLEAN
      BY <2>3, Zenon
    <2>. QED BY <2>3, <2>7, <2>8, <2>9 DEF StreamInv
  <1>5. CASE RequestDownload /\ RxStep
    <2>1. /\ UNCHANGED <<rd, ring, hist>> /\ cl' = [cl EXCEPT !.at = "open"] /\ cl.at = "begun"
          /\ sm.state = "streaming"
      BY <1>5 DEF RequestDownload, RxStep, logside
    <2>2. /\ DOMAIN cl' = DOMAIN cl /\ cl'.got = cl.got /\ cl'.fin = cl.fin /\ cl'.seq = cl.seq
          /\ cl'.at = "open"
      BY <1>0, <2>1
    <2>. QED BY <2>1, <2>2, NothingSent DEF InStep, Spoilt
  <1>6. CASE TransferData /\ RxStep
    <2>1. CASE Spoilt'
      <3>. DEFINE c == Fill(rd, Room)
      <3>1. Asked /\ Answered(c)
        BY <1>6 DEF TransferData
      <3>. HIDE DEF c
      <3>. QED BY <2>1, <3>1, SpoiltSent
    <2>2. CASE ~Spoilt'
      BY <1>6, <2>2, ChunkSent
    <2>. QED BY <2>1, <2>2
  <1>f. CASE SearchFails /\ RxStep
    <2>1. Asked /\ hist' = [hist EXCEPT !.unread = TRUE] /\ \E c : Answered(c)
      BY <1>f DEF SearchFails
    <2>2. Spoilt'
      BY <2>1 DEF Spoilt
    <2>. QED BY <2>1, <2>2, SpoiltSent
  <1>7. CASE AnswerLost /\ RxStep
    <2>1. /\ UNCHANGED <<cl, ring, hist>> /\ cl.at # "begun" /\ cl.seq = sm.seq
          /\ sm' = [sm EXCEPT !.hdr = TRUE, !.seq = NextSeq(sm.seq)]
      BY <1>7 DEF AnswerLost, Asked, RxStep, logside, Expected
    <2>2. sm'.seq # sm.seq
      <3>1. NextSeq(sm.seq) # sm.seq
        BY <1>0, <2>1, DownloadConstants DEF NextSeq
      <3>. QED BY <2>1, <3>1
    <2>3. ~InStep'
      BY <2>1, <2>2 DEF InStep
    <2>. QED BY <2>1, <2>3, NothingSent DEF Spoilt
  <1>8. CASE ChunkFails /\ RxStep
    <2>1. UNCHANGED <<ring, hist>> /\ cl' = [cl EXCEPT !.at = "refused"]
      BY <1>8 DEF ChunkFails, RxStep, logside
    <2>2. /\ DOMAIN cl' = DOMAIN cl /\ cl'.got = cl.got /\ cl'.fin = cl.fin /\ cl'.seq = cl.seq
          /\ cl'.at = "refused"
      BY <1>0, <2>1
    <2>. QED BY <2>1, <2>2, NothingSent DEF InStep, Spoilt
  <1>9. CASE Poll /\ RxStep
    <2>1. cl' = NoStream /\ hist'.want = <<>> /\ sm'.state = "idle"
      BY <1>9 DEF Poll, StopStreaming
    <2>2. /\ DOMAIN cl' = {"seq", "got", "fin", "at"} /\ cl'.seq = 1 /\ cl'.fin = FALSE
          /\ cl'.got = <<>>
      BY <2>1 DEF NoStream
    <2>3. ~InStep' /\ <<>> \in Seq(Unit) /\ <<>> = <<>> \o <<>>
      BY <2>1 DEF InStep
    <2>4. cl'.got \in Seq(Unit) /\ hist'.want = cl'.got \o <<>> /\ ~cl'.fin
      BY <2>1, <2>2, <2>3
    <2>5. \E rest \in Seq(Unit) : /\ cl'.got \in Seq(Unit)
                                  /\ hist'.want = cl'.got \o rest
                                  /\ cl'.fin => rest = <<>>
                                  /\ InStep' => Owes(ring', rd', rest)
      BY <2>3, <2>4, Zenon
    <2>6. cl'.seq \in Nat
      BY <2>2
    <2>7. cl'.fin \in BOOLEAN
      BY <2>2, Zenon
    <2>. QED BY <2>2, <2>5, <2>6, <2>7 DEF StreamInv
  <1>10. CASE TransferExit /\ RxStep
    BY <1>9, <1>10 DEF TransferExit
  <1>. QED
    BY <1>f, <1>1, <1>2, <1>3, <1>4, <1>5, <1>6, <1>7, <1>8, <1>9, <1>10 DEF RxStep

-----------------------------------------------------------------------------
(* Theorems.                                                               *)

\* The stream holds the arena and the writer for exactly as long as it lives.
THEOREM StreamKeepsHold == Spec => []StreamHolds
  <1>. DEFINE I == SmType /\ ArenaType /\ StreamHolds
  <1>1. Init => I
    BY DEF Init, SmType, ArenaType, Arenas, FreshArena, StreamHolds
  <1>2. I /\ [Next]_lvars => I'
    BY SmStep, ArenaStep, HoldStep
  <1>. QED BY <1>1, <1>2, PTL DEF Spec

\* A request that waits for its answer is with the worker, or the worker is about
\* to wake up for it.
THEOREM RequestIsKept == Spec => []RequestNotForgotten
  <1>. DEFINE I == SmType /\ WorkerType /\ RequestNotForgotten
  <1>1. Init => I
    BY DEF Init, SmType, WorkerType, Waiting, RequestNotForgotten
  <1>2. I /\ [Next]_lvars => I'
    BY SmStep, WorkerTypeStep, RequestStep
  <1>. QED BY <1>1, <1>2, PTL DEF Spec

\* What is streamed is what the head last answered with success, unless a
\* whole-ring select overtook a request the worker had.
THEOREM StreamIsAsked == Spec => []StreamIsSelection
  <1>. DEFINE I == SmType /\ HistType /\ SelectionInv
  <1>1. Init => I
    BY DEF Init, HistInit, SmType, HistType, SelectionInv
  <1>2. I /\ [Next]_lvars => I'
    BY SmStep, HistStep, SelectionStep
  <1>3. I => StreamIsSelection
    BY DEF SelectionInv, StreamIsSelection
  <1>. QED BY <1>1, <1>2, <1>3, PTL DEF Spec

\* The head starts with a ring in order and no index.
LEMMA IndexStarts ==
  ASSUME Init  PROVE  RingOk(ring) /\ EpochType /\ PinInv /\ RowsInv
  <1>1. EpochType
    <2>1. owed \in BOOLEAN
      BY Zenon DEF Init
    <2>. QED BY <2>1 DEF Init, Waiting, EpochType
  <1>2. PinInv
    BY DEF Init, Waiting, FreshArena, PinInv
  <1>3. RowsInv
    BY DEF Init, Waiting, RowsInv
  <1>4. RingOk(ring)
    BY OldRingOk DEF Init
  <1>. QED BY <1>1, <1>2, <1>3, <1>4

\* The index the worker resolves from describes the ring, whoever had the arena
\* since it was built and whatever was written meanwhile.
THEOREM IndexIsFaithful == Spec => []IndexFaithful
  <1>. DEFINE T == SmType /\ ArenaType /\ WorkerType /\ HistType /\ BudgetType
              I == T /\ RingOk(ring) /\ EpochType /\ PinInv /\ RowsInv
  <1>1. Init => I
    <2>. SUFFICES ASSUME Init PROVE I
      OBVIOUS
    <2>1. T
      BY DownloadConstants DEF Init, HistInit, SmType, ArenaType, Arenas, FreshArena,
             WorkerType, Waiting, HistType, BudgetType
    <2>2. RingOk(ring) /\ EpochType /\ PinInv /\ RowsInv
      BY IndexStarts
    <2>. QED BY <2>1, <2>2
  <1>2. I /\ [Next]_lvars => I'
    BY SmStep, ArenaStep, WorkerTypeStep, HistStep, BudgetStep, RingStep,
       EpochStep, PinStep, RowsStep
  <1>3. I => IndexFaithful
    BY DEF PinInv, RowsInv, Described, IndexFaithful
  <1>. QED BY <1>1, <1>2, <1>3, PTL DEF Spec

\* What a client has put together is a gapless beginning of the selection, and all
\* of it once it takes a chunk for the last, for whatever chunk size and ring.
THEOREM StreamIsGapless == Spec => []DownloadGapless
  <1>. DEFINE T == SmType /\ ArenaType /\ WorkerType /\ HistType /\ BudgetType
              J == RingOk(ring) /\ EpochType /\ PinInv /\ RowsInv
              I == T /\ J /\ RowsType /\ RangeInv /\ StreamInv
  <1>1. Init => I
    <2>. SUFFICES ASSUME Init PROVE I
      OBVIOUS
    <2>1. T
      BY DownloadConstants DEF Init, HistInit, SmType, ArenaType, Arenas, FreshArena,
             WorkerType, Waiting, HistType, BudgetType
    <2>2. J
      BY IndexStarts
    <2>3. RowsType
      BY DEF Init, RowsType, NoRow, Rows
    <2>4. RangeInv
      BY DEF Init, Waiting, RangeInv, WholeRing, Ranges
    <2>5. StreamInv
      <3>1. /\ cl = NoStream /\ hist.want = <<>> /\ sm.state = "idle"
        BY DEF Init, HistInit
      <3>2. <<>> \in Seq(Unit) /\ <<>> = <<>> \o <<>>
        OBVIOUS
      <3>. QED BY <3>1, <3>2 DEF StreamInv, NoStream, InStep
    <2>. QED BY <2>1, <2>2, <2>3, <2>4, <2>5
  <1>2. I /\ [Next]_lvars => I'
    <2>. SUFFICES ASSUME I, [Next]_lvars  PROVE I'
      OBVIOUS
    <2>1. T'
      BY SmStep, ArenaStep, WorkerTypeStep, HistStep, BudgetStep
    <2>2. J'
      BY RingStep, EpochStep, PinStep, RowsStep
    <2>3. wk.todo \in Seq(Sectors)
      BY DEF RowsInv
    <2>. QED BY <2>1, <2>2, <2>3, RowsTypeStep, RangeStep, StreamStep
  <1>3. I => DownloadGapless
    <2>. SUFFICES ASSUME StreamInv, ~Spoilt
                  PROVE  IsPrefix(cl.got, hist.want) /\ (cl.fin => cl.got = hist.want)
      BY DEF DownloadGapless, Spoilt
    <2>. DEFINE got == cl.got
    <2>1. PICK rest \in Seq(Unit) : /\ got \in Seq(Unit) /\ hist.want = got \o rest
                                    /\ cl.fin => rest = <<>>
      BY DEF StreamInv
    <2>. HIDE DEF got
    <2>2. /\ got \o <<>> = got
          /\ Len(got) <= Len(got \o rest)
          /\ SubSeq(got, 1, Len(got)) = SubSeq(got \o rest, 1, Len(got))
      BY <2>1
    <2>. QED BY <2>1, <2>2 DEF IsPrefix, got
  <1>. QED BY <1>1, <1>2, <1>3, PTL DEF Spec
=============================================================================
