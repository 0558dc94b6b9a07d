------------------------------ MODULE FlashLog ------------------------------
(***************************************************************************)
(* The flash log (flash_log.c with flash_log_listeners.c and the text      *)
(* backend as its producers): producers that never block, a writer thread  *)
(* that stages records in RAM and flushes them in bursts, a ring of flash  *)
(* sectors for telemetry and one for text, the pause flag other subsystems *)
(* hold the writer off with, the log erase of the UDS thread, and power    *)
(* loss at any step, also inside the erase of a sector, with the mount     *)
(* that follows.                                                           *)
(*                                                                         *)
(* A record is its kind and a number; the telemetry kinds differ in their  *)
(* payload only and are one kind here. The flash mutex is modelled where   *)
(* it is held over several steps.                                          *)
(***************************************************************************)
EXTENDS FcbRing, FiniteSets, FiniteSetsExt, Functions

CONSTANTS QueueDepth,  \* CONFIG_FLASH_LOG_QUEUE_DEPTH
          BatchCap,    \* records fl_batch_buf holds
          Cuts,        \* where in a sector an erase may be cut short
          OldClean,    \* where remnants begin in the free sector of a ring at the start
          MaxOffers,   \* bound: records offered by producers
          MaxTrouble   \* bound: power losses, flash faults, pauses, erases and
                       \* settings saves, together

Dests   == {"tel", "txt"}
\* A flush fits into a sector, as do two of the shortest entries.
ASSUME LogConstants ==
  /\ QueueDepth \in Nat \ {0} /\ BatchCap \in 1..(Cap - 1) /\ Cap > 3
  /\ Cuts \subseteq 0..(Cap - 1) /\ OldClean \in [Dests -> Cuts \cup {Cap}]
  /\ MaxOffers \in Nat /\ MaxTrouble \in Nat

Other(d) == IF d = "tel" THEN "txt" ELSE "tel"

\* fl_is_marker_type; markers are offered to telemetry and mirrored.
Markers == {"boot", "dive"}
Dest(rec) == IF rec.k = "text" THEN "txt" ELSE "tel"

\* flash_log_erase is not running; otherwise the rings it has yet to clear.
Idle == <<"idle">>

NoRec == [k |-> "none", n |-> 0]

VARIABLES
  boot,    \* how far main() has got in flash_log_init and its boot marker
  mounted, \* rings whose FCB came up
  paused,  \* fl_paused
  q,       \* fl_ingest_msgq
  drops,   \* fl_drops_telemetry, fl_drops_text
  batch,   \* fl_batch_buf
  held,    \* the slot that did not fit, while the batch is flushed for it
  pc,      \* where the writer thread is
  jobs,    \* entries the running flush has yet to write
  ring,    \* the two FCBs: flash contents, and the cursor in RAM
  clean,   \* byte of a sector where remnants of a cut erase begin, or Cap
  bad,     \* rings with a sector header that is neither valid nor blank
  lock,    \* external_flash_mutex
  epoch,   \* fl_index_epoch
  flushed, \* boot_marker_flushed
  bootId,  \* fl_boot_id in RAM and in the settings partition
  eraser,  \* where flash_log_erase is
  saver,   \* where fl_settings_save_one_quiet is
  holder,  \* another subsystem believes it holds the writer off
  budget,  \* what is left of each bound
  boots,   \* history: power losses so far
  offered, \* history: records offered since boot, once the log was ready
  log,     \* history: the records a reader finds in each ring, oldest first
  gone,    \* history: records rotated out or erased since boot
  faulty,  \* history: a flash operation has failed since boot
  ruined,  \* history: an entry was programmed over remnants since boot
  wipes    \* history: recovery erases that did not get to the end of a ring

fvars == <<boot, mounted, paused, q, drops, batch, held, pc, jobs, ring, clean, bad,
           lock, epoch, flushed, bootId, eraser, saver, holder, budget, boots, offered, log,
           gone, faulty, ruined, wipes>>
bootvars  == <<boot, mounted, bootId>>
writer    == <<batch, held, pc, jobs>>
flagvars  == <<paused, holder, saver>>
indexvars == <<epoch, flushed>>
history   == <<boots, offered, gone, faulty, ruined>>
media     == <<clean, bad, wipes>>
queuevars == <<q, drops>>

Spend(b) == budget[b] > 0 /\ budget' = [budget EXCEPT ![b] = @ - 1]

\* The records a sequence of entries carries, and those a reader of a ring finds.
Recs(es) == Concat([i \in DOMAIN es |-> es[i].recs])
Stored(r) == Recs(Entries(r))

\* log follows the flash.
Track == log' = IF ring' = ring THEN log ELSE [d \in Dests |-> Stored(ring'[d])]

\* An entry is its header and its records.
Size(recs) == 1 + Len(recs)

\* A log that already holds an earlier boot: one full sector and a half.
Preload(d) ==
  LET e(n) == [recs |-> <<[k |-> "old", n |-> n]>>, n |-> 2, ok |-> TRUE]
  IN  [EmptyRing EXCEPT !.sec[0] = <<e(1), e(2)>>, !.sec[1] = <<e(3)>>, !.act = 1]

Init ==
  /\ boot = "tel" /\ mounted = {} /\ bootId = [ram |-> 0, nv |-> 1]
  /\ paused = FALSE /\ holder = FALSE /\ saver = "idle"
  /\ q = <<>> /\ drops = [d \in Dests |-> 0]
  /\ batch = <<>> /\ held = NoRec /\ pc = "top" /\ jobs = <<>>
  /\ ring = [d \in Dests |-> Preload(d)] /\ bad = {}
  /\ clean = [d \in Dests |-> [s \in Sectors |-> IF s = 2 THEN OldClean[d] ELSE Cap]]
  /\ lock = "free" /\ epoch = 0 /\ flushed = FALSE /\ eraser = Idle
  /\ budget = [offers |-> MaxOffers, trouble |-> MaxTrouble] /\ boots = 0
  /\ offered = {} /\ log = [d \in Dests |-> Stored(ring[d])]
  /\ gone = [d \in Dests |-> {}] /\ faulty = FALSE /\ ruined = FALSE
  /\ wipes = [d \in Dests |-> 0]

-----------------------------------------------------------------------------
(* main(): flash_log_init, then the boot marker.                           *)

NextBoot == IF boot = "tel" THEN "txt" ELSE "count"

\* The rings fcb_init and fl_fast_seek_active may find where the flash holds r,
\* with remnants from byte c on in its active sector: where the next length field
\* touches them the search hops over whatever lengths they spell.
Reopened(r, c) ==
  LET sec  == r.sec[r.act]
      hops == {n \in 2..(Cap - Used(sec)) : Used(sec) + 1 >= c}
      seen == {sec} \cup {Append(sec, [recs |-> <<>>, n |-> n, ok |-> FALSE]) : n \in hops}
  IN  {[r EXCEPT !.sec = [@ EXCEPT ![r.act] = x], !.cur = fl_fast_seek_active(x)] : x \in seen}

\* fl_mount_fcb: fcb_init finds the sectors, fl_fast_seek_active the cursor.
Mount(d) ==
  /\ boot = d /\ d \notin bad
  /\ \E r \in Reopened(ring[d], clean[d][ring[d].act]) : ring' = [ring EXCEPT ![d] = r]
  /\ mounted' = mounted \cup {d} /\ boot' = NextBoot
  /\ UNCHANGED <<paused, bootId, faulty, budget, media>>

\* The recovery erase goes through the partition in its physical order. Sectors
\* up to k are gone when it stops; fcb_init makes a ring of the headers left,
\* from the oldest to the youngest.
Left(r, k) ==
  IF r.act <= k /\ (r.old <= r.act \/ k = NSectors - 1) THEN EmptyRing
  ELSE [sec |-> [s \in Sectors |-> IF s > k THEN r.sec[s] ELSE <<>>],
        old |-> IF r.old > k THEN r.old ELSE k + 1,
        act |-> IF r.act > k THEN r.act ELSE NSectors - 1, cur |-> 0]
Unclean(d, k, c) ==
  [clean EXCEPT ![d] = [s \in Sectors |-> IF s < k THEN Cap ELSE IF s = k THEN c ELSE @[s]]]

\* fcb_init fails: the partition is erased and fcb_init tried again, whether the
\* erase got to its end or not, and may fail again.
Erased(d) ==
  /\ ring' = [ring EXCEPT ![d] = EmptyRing]
  /\ clean' = [clean EXCEPT ![d] = [s \in Sectors |-> Cap]] /\ bad' = bad \ {d}
  /\ mounted' \in {mounted, mounted \cup {d}} /\ UNCHANGED wipes
ErasedInPart(d) == \E k \in Sectors, c \in Cuts :
  /\ clean' = Unclean(d, k, c) /\ wipes' = [wipes EXCEPT ![d] = @ + 1]
  /\ LET left == Left(ring[d], k) IN
     \/ /\ mounted' = mounted /\ bad' \in {bad \ {d}, bad \cup {d}}
        /\ ring' = [ring EXCEPT ![d] = left]
     \/ /\ mounted' = mounted \cup {d} /\ bad' = bad \ {d}
        /\ \E r \in Reopened(left, clean'[d][left.act]) : ring' = [ring EXCEPT ![d] = r]
MountRecovers(d) ==
  /\ boot = d /\ boot' = NextBoot /\ faulty' = TRUE
  /\ (d \in bad /\ UNCHANGED budget) \/ Spend("trouble")
  /\ Erased(d) \/ ErasedInPart(d)
  /\ UNCHANGED <<paused, bootId>>

\* With both rings mounted the boot counter is incremented and saved (the flag
\* is put back after the save); otherwise the writer is left paused.
CountBoot ==
  /\ boot = "count" /\ boot' = "marker"
  /\ \/ mounted = Dests /\ UNCHANGED <<budget, faulty, paused>>
        /\ bootId' = [ram |-> bootId.nv + 1, nv |-> bootId.nv + 1]
     \/ mounted = Dests /\ Spend("trouble") /\ faulty' = TRUE /\ UNCHANGED paused
        /\ bootId' = [ram |-> bootId.nv + 1, nv |-> bootId.nv]
     \/ mounted # Dests /\ paused' = TRUE /\ UNCHANGED <<budget, faulty>>
        /\ bootId' = [bootId EXCEPT !.ram = bootId.nv]
  /\ UNCHANGED <<ring, mounted, media>>

MainStep ==
  /\ \/ \E d \in Dests : Mount(d) \/ MountRecovers(d)
     \/ CountBoot
  /\ UNCHANGED <<queuevars, writer, lock, indexvars, eraser, saver, holder, boots, offered,
                 gone, ruined>>
  /\ Track

-----------------------------------------------------------------------------
(* Producers.                                                              *)

Ready == boot \in {"marker", "up"}
NextNo == MaxOffers - budget.offers + 1

\* fl_enqueue: never blocks; a full queue costs the record and is counted.
fl_enqueue(rec) ==
  IF Len(q) < QueueDepth
  THEN q' = Append(q, rec) /\ UNCHANGED drops
  ELSE drops' = [drops EXCEPT ![Dest(rec)] = @ + 1] /\ UNCHANGED q

\* flash_log_record_boot_marker, called once by main().
RecordBootMarker ==
  /\ boot = "marker" /\ boot' = "up"
  /\ LET m == [k |-> "boot", n |-> bootId.ram, in |-> boots]
     IN  fl_enqueue(m) /\ offered' = offered \cup {m}
  /\ UNCHANGED <<budget, mounted, bootId>>

\* The flash_log_enqueue_... calls build a record for telemetry, for a dive
\* boundary, or for text.
Telemetry  == [k |-> "data", n |-> NextNo]
DiveMarker == [k |-> "dive", n |-> NextNo]
Text       == [k |-> "text", n |-> NextNo]
Offer(rec) ==
  /\ Ready /\ Spend("offers")
  /\ fl_enqueue(rec) /\ offered' = offered \cup {rec}
  /\ UNCHANGED bootvars

\* The channel listeners, run by whoever publishes, and the log backend, run by
\* the logging thread (fl_should_drop keeps the log's own messages out).
Listeners   == Offer(Telemetry) \/ Offer(DiveMarker)
TextBackend == Offer(Text)

\* Before initialisation a record is ignored, and not counted either.
OfferEarly ==
  /\ ~Ready /\ Spend("offers") /\ UNCHANGED <<bootvars, queuevars, offered>>

Produce ==
  /\ RecordBootMarker \/ OfferEarly \/ Listeners \/ TextBackend
  /\ UNCHANGED <<writer, ring, media, lock, indexvars, eraser, flagvars, boots, gone, faulty,
                 ruined>>
  /\ Track

-----------------------------------------------------------------------------
(* The writer thread.                                                      *)

\* What a flush writes, in order: drop markers (counted when their turn comes),
\* markers with their mirror and text one by one, all telemetry in one entry.
DropJob(d) == [d |-> d, recs |-> <<>>, key |-> FALSE]
Single(rec) == IF rec.k \in Markers
               THEN <<[d |-> Dest(rec), recs |-> <<rec>>, key |-> FALSE],
                      [d |-> Other(Dest(rec)), recs |-> <<rec>>, key |-> TRUE]>>
               ELSE <<[d |-> Dest(rec), recs |-> <<rec>>, key |-> FALSE]>>
IsSingle(rec) == rec.k \in Markers \/ Dest(rec) = "txt"
\* fl_write_telemetry_batch: one entry carries the rest of the batch.
Container(recs) ==
  IF recs = <<>> THEN <<>> ELSE <<[d |-> "tel", recs |-> recs, key |-> FALSE]>>
FlushJobs(b) ==
  LET singles == [i \in DOMAIN b |-> IF IsSingle(b[i]) THEN Single(b[i]) ELSE <<>>]
      rest    == [i \in DOMAIN b |-> IF IsSingle(b[i]) THEN <<>> ELSE <<b[i]>>]
  IN  <<DropJob("tel"), DropJob("txt")>> \o Concat(singles) \o Container(Concat(rest))

\* fl_batch_flush begins; an empty batch is no flush.
BeginFlush(b) ==
  IF b = <<>> THEN pc' = "top" /\ jobs' = <<>>
              ELSE pc' = "flush" /\ jobs' = FlushJobs(b)

\* The top of fl_writer_thread: the pause flag is looked at here only.
CheckPause ==
  /\ pc = "top" /\ ~paused /\ pc' = "get"
  /\ UNCHANGED <<queuevars, batch, held, jobs>>

\* fl_batch_append has room for another record.
BatchTakes == Len(batch) < BatchCap

\* The end of a round: the batch window has run out, or has not.
EndRound(b) == BeginFlush(b) \/ (pc' = "top" /\ UNCHANGED jobs)

\* Mutant: the slot that did not fit is not staged after the flush.
TakeSlotForgets ==
  /\ pc = "get" /\ q # <<>> /\ q' = Tail(q)
  /\ held' = NoRec
  /\ IF BatchTakes
     THEN /\ batch' = Append(batch, Head(q))
          /\ IF Head(q).k \in Markers THEN BeginFlush(batch') ELSE EndRound(batch')
     ELSE BeginFlush(batch) /\ UNCHANGED batch
  /\ UNCHANGED drops

\* A slot arrives. A full buffer is flushed first and the slot staged after; a
\* marker is flushed at once.
TakeSlot ==
  /\ pc = "get" /\ q # <<>> /\ q' = Tail(q)
  /\ IF BatchTakes
     THEN /\ batch' = Append(batch, Head(q)) /\ UNCHANGED held
          /\ IF Head(q).k \in Markers THEN BeginFlush(batch') ELSE EndRound(batch')
     ELSE held' = Head(q) /\ BeginFlush(batch) /\ UNCHANGED batch
  /\ UNCHANGED drops

\* The wait for a slot runs out.
WaitEnds ==
  /\ pc = "get" /\ q = <<>> /\ EndRound(batch) /\ UNCHANGED <<queuevars, batch, held>>

\* Mutant: a marker waits for the batch window like any other record.
EndFlushLater ==
  /\ pc = "flush" /\ jobs = <<>>
  /\ held' = NoRec /\ batch' = IF held = NoRec THEN <<>> ELSE <<held>>
  /\ pc' = "top" /\ UNCHANGED <<queuevars, jobs>>

\* fl_batch_flush ends and resets the buffer; the slot that did not fit follows,
\* and is flushed in turn if it is a marker.
EndFlush ==
  /\ pc = "flush" /\ jobs = <<>>
  /\ held' = NoRec
  /\ IF held = NoRec THEN batch' = <<>> /\ pc' = "top" /\ UNCHANGED jobs
     ELSE /\ batch' = <<held>>
          /\ IF held.k \in Markers THEN BeginFlush(batch') ELSE pc' = "top" /\ UNCHANGED jobs
  /\ UNCHANGED queuevars

WriterMoves ==
  /\ CheckPause \/ TakeSlot \/ WaitEnds \/ EndFlush
  /\ UNCHANGED <<bootvars, flagvars, ring, media, lock, indexvars, eraser, budget, history>>

\* fl_emit_drop_marker_if_any, for one ring or for both: take the count, then
\* write a marker for it; without a count nothing is written.
CountDrops ==
  /\ pc = "flush" /\ jobs # <<>> /\ Head(jobs).recs = <<>>
  /\ LET d == Head(jobs).d
         marker == [k |-> "drop", n |-> drops[d], at |-> Cardinality(offered), in |-> boots]
     IN  IF drops[d] > 0
         THEN /\ drops' = [drops EXCEPT ![d] = 0]
              /\ jobs' = <<[d |-> d, recs |-> <<marker>>, key |-> FALSE]>> \o Tail(jobs)
         ELSE /\ jobs' = IF d = "tel" /\ drops["txt"] = 0 THEN Tail(Tail(jobs)) ELSE Tail(jobs)
              /\ UNCHANGED drops
  /\ UNCHANGED <<bootvars, flagvars, q, batch, held, pc, ring, media, lock, indexvars, eraser,
                 budget, history>>

Writing == pc = "flush" /\ jobs # <<>> /\ Head(jobs).recs # <<>>
Target  == Head(jobs).d
Entry(ok) == [recs |-> Head(jobs).recs, n |-> Size(Head(jobs).recs), ok |-> ok]

\* What rotating a ring loses.
Expired(r) == Range(Recs(Whole(r.sec[r.old])))

\* The ring of the entry is full, or takes it.
Overflows == /\ Writing /\ lock = "free" /\ Target \in mounted
             /\ ~HasRoom(ring[Target], Entry(TRUE).n)
Takes     == /\ Writing /\ lock \in {"free", "writer"} /\ Target \in mounted
             /\ HasRoom(ring[Target], Entry(TRUE).n)

\* The ring is full: the oldest sector is erased, the mutex kept.
MakeRoom ==
  /\ Overflows /\ lock' = "writer"
  /\ ring' = [ring EXCEPT ![Target] = Rotate(@)]
  /\ clean' = [clean EXCEPT ![Target][ring[Target].old] = Cap]
  /\ gone' = [gone EXCEPT ![Target] = @ \cup Expired(ring[Target])]
  /\ UNCHANGED <<bootvars, flagvars, queuevars, writer, bad, wipes, indexvars, eraser, budget,
                 boots, offered, faulty, ruined>>

\* After the mirror of a marker the index epoch moves, whatever became of the
\* two writes.
KeyWritten ==
  IF Head(jobs).key
  THEN epoch' = epoch + 1 /\ flushed' = (flushed \/ Head(jobs).recs[1].k = "boot")
  ELSE UNCHANGED indexvars

\* fcb_append takes a sector without a header for an erased one; what is
\* programmed over remnants does not read back: its end marker is spoilt or, as
\* entries carry no CRC, its payload is.
Lands(r, n, erased) ==
  IF Fits(r, n) THEN r.cur + n <= erased[r.act] ELSE n <= erased[Succ(r.act)]

\* fl_write_entry_to_fcb and fl_batch_write_container, once there is room.
WriteEntry ==
  /\ Takes
  /\ \E lands \in BOOLEAN :
       /\ lands <=> Lands(ring[Target], Entry(TRUE).n, clean[Target])
       /\ ring' = [ring EXCEPT ![Target] = PutEntry(@, Entry(lands))]
       /\ ruined' = (ruined \/ ~lands)
  /\ jobs' = Tail(jobs) /\ lock' = "free" /\ KeyWritten
  /\ UNCHANGED <<bootvars, flagvars, queuevars, batch, held, pc, media, eraser, budget, boots,
                 offered, gone, faulty>>

\* A flash operation fails: the entry is not there, or stays unfinished; the
\* writer goes on. A ring that never mounted takes nothing.
WriteFails ==
  /\ Writing /\ lock \in {"free", "writer"} /\ faulty' = TRUE
  /\ \/ Target \notin mounted /\ UNCHANGED <<ring, budget>>
     \/ Target \in mounted /\ Spend("trouble")
        /\ \/ UNCHANGED ring
           \/ /\ HasRoom(ring[Target], Entry(TRUE).n)
              /\ ring' = [ring EXCEPT ![Target] = PutEntry(@, Entry(FALSE))]
  /\ jobs' = Tail(jobs) /\ lock' = "free" /\ KeyWritten
  /\ UNCHANGED <<bootvars, flagvars, queuevars, batch, held, pc, media, eraser, boots, offered,
                 gone, ruined>>

WriterStep == WriterMoves \/ CountDrops \/ MakeRoom \/ WriteEntry \/ WriteFails
Writer == WriterStep /\ Track

-----------------------------------------------------------------------------
(* The pause flag and the UDS thread.                                      *)

\* OTA, factory restore and log download hold the writer off and let it go when
\* they end; an OTA download the handset abandons never does.
Pause ==
  /\ Ready /\ ~holder /\ Spend("trouble")
  /\ holder' = TRUE /\ paused' = TRUE /\ UNCHANGED saver
Resume ==
  /\ holder /\ holder' = FALSE /\ paused' = FALSE /\ UNCHANGED <<saver, budget>>

\* fl_settings_save_one_quiet, for flash_log_set_rtt_level and
\* flash_log_set_can_verbose: the flag is put back as it was found.
BeginSave ==
  /\ Ready /\ saver = "idle" /\ eraser = Idle /\ Spend("trouble")
  /\ saver' = (IF paused THEN "wasPaused" ELSE "wasRunning") /\ paused' = TRUE
  /\ UNCHANGED holder
EndSave ==
  /\ saver # "idle" /\ saver' = "idle"
  /\ paused' = (paused /\ saver = "wasPaused")
  /\ UNCHANGED <<holder, budget>>

FlagStep ==
  /\ Pause \/ Resume \/ BeginSave \/ EndSave
  /\ UNCHANGED <<bootvars, queuevars, writer, ring, media, lock, indexvars, eraser, history>>
  /\ Track

\* flash_log_erase: pause, clear the chosen rings, move the epoch, resume.
BeginErase ==
  /\ Ready /\ eraser = Idle /\ saver = "idle" /\ Spend("trouble")
  /\ eraser' \in {<<"tel">>, <<"txt">>, <<"tel", "txt">>}
  /\ paused' = TRUE
  /\ UNCHANGED <<ring, clean, lock, indexvars, gone, faulty>>

Clears(d) == /\ eraser \notin {Idle, <<>>} /\ lock \in {"free", "eraser"}
             /\ d = Head(eraser) /\ d \in mounted /\ ~IsEmpty(ring[d])

\* fl_fcb_clear_fed: rotate until empty, the mutex held throughout.
EraseSector ==
  /\ \E d \in Dests :
       /\ Clears(d)
       /\ ring' = [ring EXCEPT ![d] = Rotate(@)]
       /\ clean' = [clean EXCEPT ![d][ring[d].old] = Cap]
       /\ gone' = [gone EXCEPT ![d] = @ \cup Expired(ring[d])]
  /\ lock' = "eraser"
  /\ UNCHANGED <<paused, eraser, indexvars, budget, faulty>>
EraseNext ==
  /\ eraser \notin {Idle, <<>>} /\ lock \in {"free", "eraser"}
  /\ \/ IsEmpty(ring[Head(eraser)]) /\ eraser' = Tail(eraser) /\ UNCHANGED <<budget, faulty>>
     \/ Spend("trouble") /\ faulty' = TRUE /\ eraser' = <<>>
     \/ Head(eraser) \notin mounted /\ faulty' = TRUE /\ eraser' = <<>> /\ UNCHANGED budget
  /\ lock' = "free"
  /\ UNCHANGED <<paused, ring, clean, indexvars, gone>>
\* Mutant: the erase forgets to let the writer go.
EndEraseStaysPaused ==
  /\ eraser = <<>> /\ eraser' = Idle
  /\ epoch' = epoch + 1 /\ UNCHANGED paused
  /\ UNCHANGED <<ring, clean, lock, flushed, budget, gone, faulty>>
EndErase ==
  /\ eraser = <<>> /\ eraser' = Idle
  /\ epoch' = epoch + 1 /\ paused' = FALSE
  /\ UNCHANGED <<ring, clean, lock, flushed, budget, gone, faulty>>

EraseStep ==
  /\ BeginErase \/ EraseSector \/ EraseNext \/ EndErase
  /\ UNCHANGED <<bootvars, queuevars, writer, saver, holder, bad, wipes, boots, offered, ruined>>
  /\ Track

-----------------------------------------------------------------------------
(* Power loss.                                                             *)

\* The cursors of the rings are in RAM.
Down(rings) == [d \in Dests |-> [rings[d] EXCEPT !.cur = 0]]

\* An entry being programmed may be left unfinished, its length field as intended
\* or half programmed and reaching past the sector.
CutEntry ==
  /\ \E torn \in {0, Cap} \cup (IF Takes THEN {Entry(TRUE).n} ELSE {}) :
       LET r1  == IF ~Takes \/ torn = 0 THEN ring
                  ELSE [ring EXCEPT ![Target] =
                          PutEntry(@, [Entry(FALSE) EXCEPT !.n =
                                         IF Fits(ring[Target], Entry(TRUE).n) /\ torn = Cap
                                         THEN Cap - ring[Target].cur ELSE torn])]
       IN  ring' = Down(r1)
  /\ UNCHANGED media

\* The sector opened for the entry has its header, or half of it.
CutHeader ==
  /\ Takes /\ ~Fits(ring[Target], Entry(TRUE).n)
  /\ \/ ring' = Down([ring EXCEPT ![Target].act = Succ(@)]) /\ UNCHANGED media
     \/ ring' = Down(ring) /\ bad' = bad \cup {Target} /\ UNCHANGED <<clean, wipes>>

\* fcb_rotate erases a sector block by block, its header with the first: a cut
\* leaves the header blank or unreadable (an erase that has not touched it yet
\* changes nothing) over the blocks still to go. Without a header left fcb_init
\* starts with the first sector.
CutErase(d) == \E c \in Cuts \cup {Cap} :
  /\ (Overflows /\ d = Target) \/ Clears(d)
  /\ ring' = Down([ring EXCEPT ![d] = IF @.old = @.act THEN EmptyRing ELSE Rotate(@)])
  /\ clean' = [clean EXCEPT ![d][ring[d].old] = c]
  /\ bad' \in {bad, bad \cup {d}} /\ UNCHANGED wipes

\* Power is lost during the recovery erase of a ring fcb_init has refused.
CutRecovery(d) == \E k \in Sectors, c \in Cuts :
  /\ boot = d
  /\ ring' = Down([ring EXCEPT ![d] = Left(@, k)])
  /\ clean' = Unclean(d, k, c) /\ wipes' = [wipes EXCEPT ![d] = @ + 1]
  /\ bad' \in {bad \ {d}, bad \cup {d}}

\* RAM is lost with the power.
Crash ==
  /\ Spend("trouble")
  /\ \/ CutEntry \/ CutHeader
     \/ \E d \in Dests : CutErase(d) \/ CutRecovery(d)
  /\ boot' = "tel" /\ mounted' = {} /\ bootId' = [bootId EXCEPT !.ram = 0]
  /\ paused' = FALSE /\ holder' = FALSE /\ saver' = "idle" /\ eraser' = Idle
  /\ q' = <<>> /\ drops' = [d \in Dests |-> 0]
  /\ batch' = <<>> /\ held' = NoRec /\ pc' = "top" /\ jobs' = <<>>
  /\ lock' = "free" /\ epoch' = 0 /\ flushed' = FALSE
  /\ log' = [d \in Dests |-> Stored(ring'[d])]
  /\ boots' = boots + 1 /\ offered' = {} /\ gone' = [d \in Dests |-> {}]
  /\ faulty' = FALSE /\ ruined' = FALSE

Next == MainStep \/ Produce \/ Writer \/ FlagStep \/ EraseStep \/ Crash

Spec == Init /\ [][Next]_fvars

\* Settings saves and erases end.
LetGo == \/ EndSave /\ UNCHANGED <<eraser, ring>>
         \/ (EraseSector \/ EraseNext \/ EndErase) /\ UNCHANGED <<saver, holder>>

\* The writer is never starved, the window of a batch runs out (SF: the flag may
\* come and go), and neither is the UDS thread in a save or an erase. Nothing is
\* assumed of the subsystems that hold the writer off.
FairSpec ==
  /\ Spec
  /\ WF_<<writer, lock, ring>>(WriterStep) /\ SF_pc(WriterMoves /\ pc = "get" /\ pc' = "flush")
  /\ WF_<<flagvars, eraser, ring>>(LetGo)

-----------------------------------------------------------------------------
(* Properties.                                                             *)

\* Each ring keeps its records and their order: whatever the writer, the erase,
\* a failing flash or a power loss inside an entry or the erase of a sector does,
\* records go only from the old end, and a mount finds the cursor behind the
\* last entry (fl_fast_seek_active), so that no record is programmed over. Only
\* a recovery erase that stops half-way takes records from the middle.
Tel == INSTANCE RingLog WITH kept <- log["tel"], wipes <- wipes["tel"]
Txt == INSTANCE RingLog WITH kept <- log["txt"], wipes <- wipes["txt"]
KeepsLog == Tel!Spec /\ Txt!Spec

\* The records of ring d that exist or have existed since boot.
Known(d) == Range(log[d]) \cup gone[d]

\* The records drop markers of this boot own up to, in ring d or about to be.
Told(d, known) ==
  MapThenSumSet(LAMBDA r : r.n,
    {r \in known \cup UNION {Range(j.recs) : j \in {i \in Range(jobs) : i.d = d}} :
       r.k = "drop" /\ r.in = boots})

\* Every record offered is queued, staged, on flash, or was on flash and has
\* expired; the records of a ring that are nowhere are exactly those the drop
\* counter and the drop markers own up to.
Accounted ==
  \A d \in Dests :
    LET known == Known(d)
        there == known \cup Range(q) \cup Range(batch) \cup {held}
        lost  == {r \in offered : Dest(r) = d /\ r \notin there}
    IN  Cardinality(lost) = drops[d] + Told(d, known)

\* No record offered to a ready log is lost unaccounted for, unless an operation
\* of the flash fails or programs over what a cut erase has left.
NothingVanishes == ~faulty /\ ~ruined => Accounted

\* FLASH_LOG.md says that a power loss costs the entry in progress and the queue:
\* the records of later boots are safe. Refuted: they are programmed over what
\* the cut erase of a sector has left, and lost without a count.
OnlyPendingLost == ~faulty => Accounted

\* Between flushes no marker waits in RAM, and with a working flash a marker is
\* in both rings or in neither: dive and boot boundaries can be found in the
\* text ring as well as in the telemetry ring.
MarkersMirrored ==
  pc # "flush" =>
    /\ \A i \in DOMAIN batch : batch[i].k \notin Markers
    /\ ~faulty /\ ~ruined => LET M(d) == {r \in Known(d) : r.k \in Markers} \cap offered
                             IN  M("tel") = M("txt")

\* Once both rings are mounted a staged record does not stay in RAM: the batch is
\* flushed (or lost with the power) whatever saves and erases come in between,
\* provided no other subsystem holds the writer off for ever.
StagedFlushes == []<>~holder => ((batch # <<>> /\ mounted = Dests) ~> (batch = <<>>))
====
