----------------------------- MODULE LogDownload -----------------------------
(***************************************************************************)
(* Log download over UDS (uds_log_download.c) on top of the log reader     *)
(* (flash_log_reader.c): selectors answered at once or resolved by a       *)
(* worker thread through a sector index kept in the shared arena, and a    *)
(* stream of numbered chunks during which the log writer is paused.        *)
(*                                                                         *)
(* The log writer and the arena's other tenants are here by what they do   *)
(* to shared state: entries and sector rotation, the index epoch, the      *)
(* pause flag and the arena. One ring is modelled, an entry is its kind,   *)
(* its id and a serial number, and n counts the units it takes in a sector *)
(* and in a chunk.                                                         *)
(***************************************************************************)
EXTENDS FcbRing, MaintArena, FiniteSets, SequencesExt

CONSTANTS Selectors,  \* the requests the worker resolves
          Block,      \* max_block_length, in units
          SeqMax,     \* the last chunk number before the wrap to 1
          MaxTries,   \* FL_RESOLVE_MAX_TRIES
          MaxReqs,    \* bound: selections and streams the client asks for (polls are free)
          MaxWrites,  \* bound: entries written
          MaxTrouble, \* bound: other tenants, log erases, read errors, lost answers
          MaxEvents   \* bound: requests, entries and troubles, together

NoSec == NSectors
NoReq == [rid |-> "none", id |-> 0]
All   == [rid |-> "all", id |-> 0]
Latests == {[rid |-> "latestBoot", id |-> 0], [rid |-> "latestDive", id |-> 0]}

ASSUME DownloadConstants ==
  /\ Selectors \subseteq Latests \cup [rid : {"boot", "dive"}, id : Nat]
  /\ Block \in Nat /\ Block > 1 /\ SeqMax \in Nat /\ SeqMax > 1 /\ MaxTries \in Nat \ {0}
  /\ \A bound \in {MaxReqs, MaxWrites, MaxTrouble, MaxEvents} : bound \in Nat

WholeRing == [from |-> NoSec, to |-> NoSec]
NoRow     == [boot |-> 0, dive |-> 0, flags |-> {}]
Junk      == [boot |-> 9, dive |-> 9, flags |-> {"boot", "start", "end"}]

VARIABLES
  ring,    \* the FCB of the stream
  epoch,   \* fl_index_epoch
  owed,    \* a marker is written and the epoch has not moved for it yet
  flushed, \* boot_marker_flushed
  flushing,\* the writer is inside a flush
  dive,    \* the number of the handset's latest dive
  paused,  \* fl_paused
  arena,
  rows,    \* the index rows, in the arena's memory
  idx,     \* fl_index_state_t
  sm,      \* LogDownloadSM_t
  rd,      \* sm->reader
  wk,      \* the resolve worker and its locals
  sem,     \* fl_resolve_sem
  cl,      \* the client: chunk number, pieces received, how far it is
  budget,
  hist     \* history, see HistInit

lvars == <<ring, epoch, owed, flushed, flushing, dive, paused, arena, rows, idx, sm, rd, wk,
           sem, cl, budget, hist>>
logside == <<ring, epoch, owed, flushed, flushing, dive>>
rxside  == <<sm, rd, cl>>

Spend(b) == /\ budget[b] > 0 /\ budget.all > 0
            /\ budget' = [budget EXCEPT ![b] = @ - 1, !.all = @ - 1]

-----------------------------------------------------------------------------
(* The ring as the reader sees it.                                         *)

E(k, id, no) == [k |-> k, id |-> id, no |-> no, n |-> IF k = "data" THEN 2 ELSE 1, ok |-> TRUE]

\* A boot, and a dive in a second sector with room for the next one's start.
OldRing == [EmptyRing EXCEPT !.act = 1, !.cur = 1,
              !.sec[0] = <<E("boot", 1, 1), E("data", 0, 2)>>,
              !.sec[1] = <<E("start", 1, 3)>>]
OldEntries == 3

\* The sectors fcb_getnext visits from sector s on.
Path(s) == [i \in 1..(1 + ((ring.act + NSectors - s) % NSectors)) |-> (s + i - 1) % NSectors]

\* Entries of a range, oldest first.
Contents(range) ==
  LET all  == Path(IF range.from = NoSec THEN ring.old ELSE range.from)
      stop == {i \in DOMAIN all : all[i] = range.to /\ ring.sec[all[i]] # <<>>}
      path == IF stop = {} THEN all ELSE SubSeq(all, 1, Min(stop) - 1)
  IN  Concat([i \in DOMAIN path |-> ring.sec[path[i]]])

\* The units an entry is sent in.
Pieces(es) == Concat([i \in DOMAIN es |-> [u \in 1..es[i].n |-> <<es[i].no, u>>]])

MarkersOf(sec) == {i \in DOMAIN sec : sec[i].k # "data"}
FirstId(sec, kinds) ==
  LET I == {i \in DOMAIN sec : sec[i].k \in kinds}
  IN  IF I = {} THEN 0 ELSE sec[Min(I)].id

\* fl_index_walk_cb and fl_index_apply_marker over one sector: the first boot
\* id, the first dive id, and which markers occur.
RowOf(sec) == [boot  |-> FirstId(sec, {"boot"}), dive |-> FirstId(sec, {"start", "end"}),
               flags |-> {sec[i].k : i \in MarkersOf(sec)}]

\* The start marker a selector asks for is in the ring.
Marks(req, e) ==
  \/ req.rid = "latestBoot" /\ e.k = "boot"
  \/ req.rid = "latestDive" /\ e.k = "start"
  \/ req.rid = "boot" /\ e.k = "boot"  /\ e.id = req.id
  \/ req.rid = "dive" /\ e.k = "start" /\ e.id = req.id
MarkersFor(req) == {e \in Range(Entries(ring)) : Marks(req, e)}

\* flash_log_reader_open
Opened(range) == [range |-> range, sec |-> range.from, pos |-> 0, off |-> 0,
                  have |-> FALSE, fin |-> FALSE]

HistInit ==
  [asked     |-> NoReq, \* the selector last answered with success
   rangeOf   |-> NoReq, \* the selector sm.range was resolved for
   streamed  |-> NoReq, \* the same, of the stream's range
   overtaken |-> FALSE, \* a whole-ring select came while the worker had a request
   want      |-> <<>>,  \* what the selection held when the stream began
   chased    |-> FALSE, \* the ring changed during the stream
   unread    |-> FALSE, \* the stream's search for its next entry failed once
   patched   |-> FALSE, \* the client went on after a refused chunk
   there     |-> {},    \* markers the worker's request could find when it was taken
   blind     |-> FALSE, \* reads failed during the walk the index is from
   missed    |-> FALSE, \* reads failed during the worker's scan
   reused    |-> {}]    \* sectors erased since the index was built

\* The client has nothing of a stream yet.
NoStream == [seq |-> 1, got |-> <<>>, fin |-> FALSE, at |-> "begun"]

\* The worker between requests; its locals are dead.
Waiting == [pc |-> "wait", req |-> NoReq, range |-> WholeRing, rc |-> "ok", tries |-> 0,
            todo |-> <<>>, snap |-> 0, errs |-> FALSE]

Init ==
  /\ ring = OldRing /\ epoch = 0 /\ owed = FALSE /\ flushed = FALSE /\ flushing = FALSE
  /\ dive = 1 /\ paused = FALSE /\ arena = FreshArena /\ rows = [s \in Sectors |-> NoRow]
  /\ idx = [gen |-> 0, valid |-> FALSE, epoch |-> 0]
  /\ sm = [state |-> "idle", range |-> WholeRing, hdr |-> FALSE, seq |-> 0,
           active |-> FALSE, done |-> FALSE, rc |-> "ok", req |-> NoReq]
  /\ rd = Opened(WholeRing)
  /\ wk = Waiting
  /\ sem = 0 /\ cl = NoStream
  /\ budget = [reqs |-> MaxReqs, writes |-> MaxWrites, trouble |-> MaxTrouble,
               all |-> MaxEvents]
  /\ hist = HistInit

-----------------------------------------------------------------------------
(* The log writer, and the arena's other tenants.                          *)

Touched == hist' = [hist EXCEPT !.chased = @ \/ sm.state = "streaming"]

\* A flush begins: the pause flag is looked at here only.
BeginFlush ==
  /\ ~flushing /\ ~paused /\ budget.writes > 0 /\ flushing' = TRUE
  /\ UNCHANGED <<ring, epoch, owed, flushed, dive, budget, hist>>
EndFlush ==
  /\ flushing /\ ~owed /\ flushing' = FALSE
  /\ UNCHANGED <<ring, epoch, owed, flushed, dive, budget, hist>>

\* The first entry of a boot is its marker. A full ring loses its oldest sector.
Rotation ==
  /\ ring' = Rotate(ring)
  /\ hist' = [hist EXCEPT !.chased = @ \/ sm.state = "streaming",
                          !.reused = @ \cup {ring.old}]
  /\ UNCHANGED <<epoch, owed, flushed, flushing, dive, budget>>
\* The handset numbers its dives upwards; a dive may lack its end.
Write ==
  /\ flushing /\ ~owed /\ Spend("writes")
  /\ \E e \in IF flushed THEN {E("data", 0, 0), E("start", dive + 1, 0), E("end", dive, 0)}
              ELSE {E("boot", 2, 0)} :
       /\ HasRoom(ring, e.n)
       /\ ring' = PutEntry(ring, [e EXCEPT !.no = OldEntries + MaxWrites - budget.writes + 1])
       /\ owed' = (e.k # "data")
       /\ dive' = IF e.k = "start" THEN e.id ELSE dive
  /\ Touched /\ UNCHANGED <<epoch, flushed, flushing>>
MakeRoom ==
  /\ flushing /\ ~owed /\ ~HasRoom(ring, 2) /\ Rotation

\* fl_bump_index_epoch, after the marker's mirror is written as well.
MoveEpoch ==
  /\ owed /\ owed' = FALSE /\ epoch' = epoch + 1 /\ flushed' = TRUE
  /\ UNCHANGED <<ring, flushing, dive, budget, hist>>

WriterStep ==
  /\ BeginFlush \/ EndFlush \/ Write \/ MakeRoom \/ MoveEpoch
  /\ UNCHANGED <<paused, arena, rows, idx, rxside, wk, sem>>

\* OTA takes the arena, writes it, and lets it go.
TenantClaims ==
  /\ Spend("trouble") /\ arena.owner # "ota" /\ CanClaim(arena, "ota")
  /\ arena' = Claim(arena, "ota") /\ rows' = [s \in Sectors |-> Junk]
  /\ UNCHANGED <<logside, paused, hist>>
TenantReleases ==
  /\ arena.owner = "ota" /\ arena' = Release(arena, "ota")
  /\ UNCHANGED <<logside, paused, rows, budget, hist>>

\* The erase of writeLogEraseDID, which holds the arena as "flash".
EraseLog ==
  /\ Spend("trouble") /\ CanClaim(arena, "flash")
  /\ ring' = [EmptyRing EXCEPT !.old = Succ(ring.act), !.act = Succ(ring.act)]
  /\ epoch' = epoch + 1 /\ paused' = FALSE /\ arena' = Release(Claim(arena, "flash"), "flash")
  /\ Touched /\ UNCHANGED <<owed, flushed, flushing, dive, rows>>

TenantStep ==
  /\ TenantClaims \/ TenantReleases \/ EraseLog
  /\ UNCHANGED <<idx, rxside, wk, sem>>
-----------------------------------------------------------------------------
(* The resolve worker.                                                     *)

\* fl_resolve_worker wakes up and copies the request; a wake-up without one
\* goes back to waiting. fl_worker_resolve pins the index.
Take ==
  /\ wk.pc = "wait" /\ sem = 1 /\ sem' = 0
  /\ IF sm.active /\ ~sm.done
     THEN /\ wk' = [wk EXCEPT !.pc = "claim", !.req = sm.req, !.tries = 0]
          /\ arena' = SetBuilding(arena, TRUE)
          /\ hist' = [hist EXCEPT !.there = IF owed THEN {} ELSE MarkersFor(sm.req)]
     ELSE UNCHANGED <<wk, arena, hist>>
  /\ UNCHANGED <<rows, idx, sm, budget>>

\* fl_index_claim: the rows are forgotten if the arena's contents have changed hands.
ClaimIndex ==
  /\ wk.pc = "claim" /\ CanClaim(arena, "index")
  /\ arena' = Claim(arena, "index")
  /\ idx' = IF arena'.gen = idx.gen THEN idx
            ELSE [idx EXCEPT !.gen = arena'.gen, !.valid = FALSE]
  /\ wk' = [wk EXCEPT !.pc = "ensure"]
  /\ UNCHANGED <<rows, sm, sem, budget, hist>>
ClaimDenied ==
  /\ wk.pc = "claim" /\ ~CanClaim(arena, "index")
  /\ wk' = [wk EXCEPT !.tries = @ + 1, !.rc = "busy",
                      !.pc = IF wk.tries + 1 = MaxTries THEN "release" ELSE "claim"]
  /\ UNCHANGED <<arena, rows, idx, sm, sem, budget, hist>>

\* fl_ensure_index; a build clears the rows, notes the epoch, and walks.
Ensure ==
  /\ wk.pc = "ensure"
  /\ IF idx.valid /\ idx.epoch = epoch
     THEN wk' = [wk EXCEPT !.pc = "use"] /\ UNCHANGED <<rows, hist>>
     ELSE /\ wk' = [wk EXCEPT !.pc = "walk", !.snap = epoch, !.todo = InUse(ring),
                              !.errs = FALSE]
          /\ rows' = [s \in Sectors |-> NoRow]
          /\ hist' = [hist EXCEPT !.reused = {}, !.blind = FALSE]
  /\ UNCHANGED <<arena, idx, sm, sem, budget>>

\* fl_build_index walks sector by sector and lets go of the flash in between.
Walk ==
  /\ wk.pc = "walk" /\ wk.todo # <<>>
  /\ \/ /\ rows' = [rows EXCEPT ![Head(wk.todo)] = RowOf(ring.sec[Head(wk.todo)])]
        /\ wk' = [wk EXCEPT !.todo = Tail(@)] /\ UNCHANGED <<budget, hist>>
     \/ /\ Spend("trouble") /\ wk' = [wk EXCEPT !.todo = Tail(@), !.errs = TRUE]
        /\ hist' = [hist EXCEPT !.blind = TRUE] /\ UNCHANGED rows
  /\ UNCHANGED <<arena, idx, sm, sem>>

\* A walk that could read no marker and saw errors is no index.
BuildEnds ==
  /\ wk.pc = "walk" /\ wk.todo = <<>>
  /\ IF wk.errs /\ \A s \in Sectors : rows[s].flags = {}
     THEN wk' = [wk EXCEPT !.pc = "release", !.rc = "io"] /\ UNCHANGED idx
     ELSE wk' = [wk EXCEPT !.pc = "use"]
          /\ idx' = [idx EXCEPT !.valid = TRUE, !.epoch = wk.snap]
  /\ UNCHANGED <<arena, rows, sm, sem, budget, hist>>

\* fl_resolve_latest_boot_impl and fl_resolve_latest_dive_impl: the first sector, in
\* physical order, with the highest id.
Latest(flag, id(_)) ==
  LET S == {s \in Sectors : flag \in rows[s].flags}
      best == {s \in S : \A t \in S : id(rows[s]) >= id(rows[t])}
  IN  IF S = {} THEN NoSec ELSE Min(best)

LatestBoot == [from |-> Latest("boot", LAMBDA r : r.boot), to |-> NoSec]
LatestDive == [from |-> Latest("start", LAMBDA r : r.dive), to |-> NoSec]

\* fl_resolve_boot_id_impl and fl_resolve_dive_id_impl: the sectors whose row carries
\* the id; from one of them, or from where a scan found the marker, to the start of
\* the next one, in physical order, that carries another marker of the kind.
Hits(req) ==
  {s \in Sectors : IF req.rid = "boot" THEN rows[s].boot = req.id
                   ELSE rows[s].dive = req.id /\ "start" \in rows[s].flags}
KindsOf(req) == IF req.rid = "boot" THEN {"boot"} ELSE {"start", "end"}
ById(req, first) ==
  LET ends == {s \in Sectors \ Hits(req) : s > first /\ rows[s].flags \cap KindsOf(req) # {}}
  IN  [from |-> first, to |-> IF ends = {} THEN NoSec ELSE Min(ends)]

\* The worker has its range, or knows that there is none.
Answer(range) ==
  wk' = [wk EXCEPT !.pc = "release", !.todo = <<>>,
                   !.rc = IF range.from = NoSec THEN "none" ELSE "ok",
                   !.range = IF range.from = NoSec THEN WholeRing ELSE range]

\* fl_call_resolver: an id no row carries is scanned for, unless the flash cannot be had.
Use ==
  /\ wk.pc = "use"
  /\ \/ /\ \/ wk.req.rid = "latestBoot" /\ Answer(LatestBoot)
           \/ wk.req.rid = "latestDive" /\ Answer(LatestDive)
           \/ /\ wk.req.rid \in {"boot", "dive"} /\ Hits(wk.req) # {}
              /\ Answer(ById(wk.req, Min(Hits(wk.req))))
           \/ /\ wk.req.rid \in {"boot", "dive"} /\ Hits(wk.req) = {}
              /\ wk' = [wk EXCEPT !.pc = "scan", !.todo = InUse(ring)]
        /\ UNCHANGED <<budget, hist>>
     \/ /\ wk.req.rid \in {"boot", "dive"} /\ Hits(wk.req) = {} /\ Spend("trouble")
        /\ Answer(WholeRing) /\ hist' = [hist EXCEPT !.missed = TRUE]
  /\ UNCHANGED <<arena, rows, idx, sm, sem>>

\* Mutant: the scan looks at the oldest sector only.
ScanOldest ==
  /\ wk.pc = "scan"
  /\ Answer(IF \E e \in Range(ring.sec[ring.old]) : Marks(wk.req, e)
            THEN ById(wk.req, ring.old) ELSE WholeRing)
  /\ UNCHANGED <<arena, rows, idx, sm, sem, budget, hist>>
\* fl_scan_for_marker, sector by sector: it lets go of the flash in between, follows
\* the ring as it then is, and passes over what it cannot read.
Scan ==
  /\ wk.pc = "scan"
  /\ IF wk.todo = <<>> THEN Answer(WholeRing) /\ UNCHANGED <<budget, hist>>
     ELSE LET s == Head(wk.todo) IN
          \/ /\ IF \E e \in Range(ring.sec[s]) : Marks(wk.req, e) THEN Answer(ById(wk.req, s))
                ELSE wk' = [wk EXCEPT !.todo = Tail(Path(s))]
             /\ UNCHANGED <<budget, hist>>
          \/ /\ Spend("trouble") /\ wk' = [wk EXCEPT !.todo = Tail(Path(s))]
             /\ hist' = [hist EXCEPT !.missed = TRUE]
  /\ UNCHANGED <<arena, rows, idx, sm, sem>>

\* fl_index_unclaim (of nothing, after a denial), then the end of
\* fl_worker_resolve.
Unclaim ==
  /\ wk.pc = "release" /\ arena' = SetBuilding(Release(arena, "index"), FALSE)
  /\ wk' = [wk EXCEPT !.pc = "publish"]
  /\ UNCHANGED <<rows, idx, sm, sem, budget, hist>>

\* Mutant: published whatever the request is by now.
PublishBlindly ==
  /\ wk.pc = "publish"
  /\ sm' = [sm EXCEPT !.range = wk.range, !.rc = wk.rc, !.done = TRUE]
  /\ hist' = [hist EXCEPT !.rangeOf = wk.req]
  /\ wk' = Waiting
  /\ UNCHANGED <<arena, rows, idx, sem, budget>>
\* The result is published if the request is still the active one.
Publish ==
  /\ wk.pc = "publish"
  /\ IF sm.active /\ ~sm.done /\ sm.req = wk.req
     THEN /\ sm' = [sm EXCEPT !.range = wk.range, !.rc = wk.rc, !.done = TRUE]
          /\ hist' = [hist EXCEPT !.rangeOf = wk.req, !.there = {}, !.missed = FALSE]
     ELSE hist' = [hist EXCEPT !.there = {}, !.missed = FALSE] /\ UNCHANGED sm
  /\ wk' = Waiting
  /\ UNCHANGED <<arena, rows, idx, sem, budget>>

WorkerStep ==
  /\ \/ Take \/ ClaimIndex \/ ClaimDenied \/ Ensure \/ Walk \/ BuildEnds \/ Use
     \/ Scan \/ Unclaim \/ Publish
  /\ UNCHANGED <<logside, paused, rd, cl>>

-----------------------------------------------------------------------------
(* Requests, on the CAN receive thread.                                    *)

\* Mutant: a selector that supersedes a stream leaves the writer paused.
StopStreamingKeepsPause(state) ==
  /\ UNCHANGED paused
  /\ arena' = IF sm.state = "streaming" THEN Release(arena, "stream") ELSE arena
  /\ sm' = state
\* fl_stop_streaming; whoever is not streaming changes the state only.
StopStreaming(state) ==
  LET live == sm.state = "streaming" IN
  /\ paused' = (paused /\ ~live)
  /\ arena' = IF live THEN Release(arena, "stream") ELSE arena
  /\ sm' = state

\* fl_finish_selector
Finish(s, rc) ==
  IF rc = "ok" THEN [s EXCEPT !.state = "selected", !.hdr = FALSE, !.seq = 1] ELSE s

\* RID_SELECT_ALL is answered at once.
SelectAll ==
  /\ Spend("reqs")
  /\ StopStreaming(Finish([sm EXCEPT !.state = "idle", !.range = WholeRing], "ok"))
  /\ hist' = [hist EXCEPT !.asked = All, !.rangeOf = All, !.overtaken = @ \/ sm.active]
  /\ UNCHANGED <<rd, cl, sem>>

\* Mutant: the worker is woken only when it had nothing to do.
KickIfIdle == sem' = IF sm.active THEN sem ELSE 1
\* The worker is woken for every new request.
Kick == sem' = 1

\* fl_async_selector: a finished request is consumed, a new one replaces the
\* old and wakes the worker, the same one is answered busy.
Select(req) ==
  LET same == sm.active /\ sm.req = req
      idle == [sm EXCEPT !.state = "idle"]
  IN
  /\ \/ /\ ~flushed /\ Spend("reqs") /\ StopStreaming(idle) /\ UNCHANGED <<sem, hist>>
     \/ /\ flushed /\ same /\ sm.done /\ UNCHANGED <<sem, budget>>
        /\ StopStreaming(Finish([idle EXCEPT !.active = FALSE, !.done = FALSE], sm.rc))
        /\ hist' = IF sm.rc = "ok" THEN [hist EXCEPT !.asked = req] ELSE hist
     \/ /\ flushed /\ same /\ ~sm.done /\ StopStreaming(idle) /\ UNCHANGED <<sem, budget, hist>>
     \/ /\ flushed /\ ~same /\ Spend("reqs") /\ Kick
        /\ StopStreaming([idle EXCEPT !.req = req, !.active = TRUE, !.done = FALSE])
        /\ hist' = [hist EXCEPT !.overtaken = FALSE]
  /\ UNCHANGED <<rd, cl>>

\* RID_BEGIN_STREAM: claim the arena, pause the writer, open the reader.
BeginStream ==
  /\ Spend("reqs") /\ sm.state = "selected" /\ CanClaim(arena, "stream")
  /\ arena' = Claim(arena, "stream") /\ paused' = TRUE
  /\ sm' = [sm EXCEPT !.state = "streaming", !.hdr = FALSE]
  /\ rd' = Opened(sm.range)
  /\ cl' = NoStream
  /\ hist' = [hist EXCEPT !.want = Pieces(Contents(sm.range)), !.chased = flushing,
                          !.unread = FALSE, !.patched = FALSE, !.streamed = hist.rangeOf]
  /\ UNCHANGED sem

\* 0x34 numbers the chunks from 1; the client sends it once per stream.
RequestDownload ==
  /\ sm.state = "streaming" /\ cl.at = "begun"
  /\ sm' = [sm EXCEPT !.seq = 1, !.hdr = FALSE] /\ cl' = [cl EXCEPT !.at = "open"]
  /\ UNCHANGED <<paused, arena, rd, sem, budget, hist>>

\* fl_reader_advance: the next entry in the ring, unless the range ends.
Advance(r) ==
  LET path == Path(IF r.sec = NoSec THEN ring.old ELSE r.sec)
      hits == {i \in DOMAIN path : Len(ring.sec[path[i]]) > (IF i = 1 THEN r.pos ELSE 0)}
      i    == Min(hits)
  IN  IF hits = {} \/ path[i] = r.range.to THEN [r EXCEPT !.fin = TRUE]
      ELSE [r EXCEPT !.sec = path[i], !.pos = IF i = 1 THEN r.pos + 1 ELSE 1,
                     !.have = TRUE, !.off = 0]

\* flash_log_reader_next, a unit at a time: fl_reader_emit_chunk on the entry in
\* flight. An entry erased under the cursor reads as nothing known.
ReadUnit(r) ==
  LET r1 == IF r.have \/ r.fin THEN r ELSE Advance(r)
      s  == ring.sec[r1.sec]
      e  == IF r1.pos \in DOMAIN s THEN s[r1.pos] ELSE E("data", 0, 0)
  IN  IF r1.fin THEN [rd |-> r1, out |-> <<>>]
      ELSE [rd  |-> [r1 EXCEPT !.off = @ + 1, !.have = r1.off + 1 < e.n],
            out |-> <<<<e.no, r1.off + 1>>>>]

\* fl_fill_chunk_body
Fill(r, room) ==
  LET f[k \in 0..room] ==
        IF k = 0 THEN [rd |-> r, out |-> <<>>]
        ELSE LET u == ReadUnit(f[k - 1].rd) IN [rd |-> u.rd, out |-> f[k - 1].out \o u.out]
  IN  f[room]

NextSeq(s) == IF s = SeqMax THEN 1 ELSE s + 1
Room == Block - (IF sm.hdr THEN 0 ELSE 1)

\* Mutant: the chunk number is not looked at.
ExpectedAny == TRUE
\* fl_handle_transfer_data accepts the number it expects.
Expected == cl.seq = sm.seq

\* The client asks for a chunk, a refused one again or the next one.
Asked ==
  sm.state = "streaming" /\ cl.at \in {"open", "refused"} /\ ~cl.fin /\ Expected

\* A chunk is answered; the client takes a short one for the end.
Answered(c) ==
  /\ rd' = c.rd /\ sm' = [sm EXCEPT !.hdr = TRUE, !.seq = NextSeq(@)]
  /\ cl' = [cl EXCEPT !.seq = NextSeq(@), !.got = @ \o c.out, !.fin = Len(c.out) < Room]

TransferData ==
  /\ Asked /\ Answered(Fill(rd, Room))
  /\ hist' = [hist EXCEPT !.patched = @ \/ cl.at = "refused"]
  /\ UNCHANGED <<paused, arena, sem, budget>>

\* The answer is lost: the client repeats the number.
AnswerLost ==
  /\ Asked /\ Spend("trouble")
  /\ rd' = Fill(rd, Room).rd /\ sm' = [sm EXCEPT !.hdr = TRUE, !.seq = NextSeq(@)]
  /\ UNCHANGED <<paused, arena, sem, cl, hist>>

\* A flash read fails inside an entry: the chunk is refused, and what was read before
\* is not read again.
ChunkFails ==
  /\ Asked /\ Spend("trouble")
  /\ \E k \in 0..(Room - 1) : rd' = Fill(rd, k).rd
  /\ sm' = [sm EXCEPT !.hdr = TRUE] /\ cl' = [cl EXCEPT !.at = "refused"]
  /\ UNCHANGED <<paused, arena, sem, hist>>

\* A flash read fails while the next entry is looked for: fcb_getnext goes on in a
\* later sector, or answers an error, which fl_reader_advance takes for the end.
AfterError(r) ==
  LET s == IF r.sec = NoSec THEN ring.old ELSE r.sec
  IN  {[r EXCEPT !.fin = TRUE]}
        \cup IF s = ring.act THEN {} ELSE {[r EXCEPT !.sec = Succ(s), !.pos = 0]}
SearchFails ==
  /\ Asked /\ Spend("trouble")
  /\ \E k \in 0..(Room - 1) :
       LET c == Fill(rd, k) IN
       /\ ~c.rd.have /\ ~c.rd.fin
       /\ \E r \in AfterError(c.rd) :
            LET d == Fill(r, Room - k) IN Answered([rd |-> d.rd, out |-> c.out \o d.out])
  /\ hist' = [hist EXCEPT !.unread = TRUE]
  /\ UNCHANGED <<paused, arena, sem>>

\* 0x37, or ten seconds without a chunk (UDS_LogDownload_Poll).
Poll ==
  /\ sm.state = "streaming"
  /\ StopStreaming([sm EXCEPT !.state = "idle", !.hdr = FALSE, !.seq = 0])
  /\ cl' = NoStream /\ hist' = [hist EXCEPT !.want = <<>>, !.chased = FALSE,
                                          !.unread = FALSE, !.patched = FALSE]
  /\ UNCHANGED <<rd, sem, budget>>
TransferExit == Poll

RxStep ==
  /\ \/ SelectAll \/ BeginStream \/ RequestDownload \/ TransferData \/ AnswerLost \/ ChunkFails
     \/ SearchFails \/ TransferExit \/ Poll \/ \E req \in Selectors : Select(req)
  /\ UNCHANGED <<logside, rows, idx, wk>>

Next == WriterStep \/ TenantStep \/ WorkerStep \/ RxStep
Spec == Init /\ [][Next]_lvars

-----------------------------------------------------------------------------
(* Properties.                                                             *)

\* When the worker resolves from the index and no marker has been written since
\* it was built, every row describes its sector, except sectors the ring has
\* erased since: another tenant's bytes are never read as rows, and a marker is
\* never missed (fl_index_claim, fl_ensure_index).
IndexFaithful ==
  wk.pc = "use" /\ idx.epoch = epoch /\ ~owed /\ ~hist.blind =>
    \A s \in Sectors \ hist.reused : rows[s] = RowOf(ring.sec[s])

\* A boot or dive whose start marker is in the ring from the moment the worker takes
\* the request is never reported unknown, also when two share a sector or the index is
\* old, whatever the ring does meanwhile; and "latest" covers the newest one, or one
\* begun since, as long as no sector has been reused under the index.
FindsWhatIsThere ==
  wk.pc = "publish" /\ wk.rc # "busy" /\ ~hist.blind /\ ~hist.missed =>
    LET still == hist.there \cap MarkersFor(wk.req)
    IN  still # {} =>
          /\ wk.rc = "ok"
          /\ wk.req \in Latests /\ hist.reused = {} =>
               \E e \in MarkersFor(wk.req) : /\ \A f \in still : e.no >= f.no
                                            /\ e \in Range(Contents(wk.range))

\* DATA_IDENTIFIERS.md: 0xF102 is to "Select entries for a given dive": what it selects
\* holds the start of the dive, as long as the ring does. Refuted: the sector in which a
\* dive ends may come first and hold the next dive's start.
DiveFromItsStart ==
  wk.pc = "publish" /\ wk.rc = "ok" /\ wk.req.rid = "dive" /\ ~hist.blind /\ ~hist.missed =>
    hist.there \cap MarkersFor(wk.req) \subseteq Range(Contents(wk.range))

\* The stream is that of the selector the head last answered with success,
\* unless a whole-ring select overtook a request the worker had.
StreamIsSelection ==
  sm.state = "streaming" /\ ~hist.overtaken => hist.streamed = hist.asked

\* What the client has put together is a gapless beginning of the selection, and all
\* of it once the client takes a chunk for the last, whatever answers were lost and
\* repeated; provided the writer's last flush was over, the search for an entry never
\* met a read error, and the client gave the stream up when a chunk was refused.
DownloadGapless ==
  ~hist.chased /\ ~hist.unread /\ ~hist.patched =>
    IsPrefix(cl.got, hist.want) /\ (cl.fin => cl.got = hist.want)

\* UDS.md: "A short final chunk (...) signals end-of-stream": a client that gets one
\* without a refusal has the selection. Refuted: a search that fails ends it as well.
DownloadWhole ==
  ~hist.chased /\ ~hist.patched /\ cl.fin => cl.got = hist.want

\* The stream holds the arena and the writer for exactly as long as it lives,
\* whichever request or timeout ends it and whoever else wants either: the
\* writer is never left paused, and no other tenant gets the arena meanwhile.
StreamHolds ==
  /\ paused <=> sm.state = "streaming"
  /\ arena.owner = "stream" <=> sm.state = "streaming"

\* A request that waits for its answer is being resolved by the worker, or the
\* worker is about to wake up for it, however often the client changes its mind:
\* the client is never told busy for good.
RequestNotForgotten ==
  sm.active /\ ~sm.done => sem = 1 \/ (wk.pc # "wait" /\ wk.req = sm.req)

\* The range streamed is the selection's, also when a whole-ring select comes
\* while the worker still has a request.
SelectAllStands ==
  sm.state = "streaming" /\ hist.asked = All => hist.streamed = All
====
