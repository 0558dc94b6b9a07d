----------------------------- MODULE Maintenance -----------------------------
(***************************************************************************)
(* Firmware maintenance: the UDS programming session and the OTA download  *)
(* (uds.c, uds_ota.c), the factory image and its work queue                *)
(* (factory_image.c, factory_image_backend_flash.c), the self test that    *)
(* confirms a new image (firmware_confirm.c), the flash erase commands     *)
(* (uds.c, flash_mass_erase.c) and the arena they share. MCUboot is        *)
(* external: it swaps the slots at a boot when asked to, or when the       *)
(* running image was never confirmed, and only to a valid image.           *)
(*                                                                         *)
(* Three threads interleave: the receive thread serves one request at a    *)
(* time, the factory work queue runs one item at a time, the self test     *)
(* polls. Power may fail between any two steps.                            *)
(*                                                                         *)
(* An image is its number and how many of its leading blocks are in place: *)
(* block 1 holds the header, the last block the TLVs.                      *)
(***************************************************************************)
EXTENDS MaintArena, Sequences, FiniteSets

CONSTANTS Services,   \* the requests the client may send
          Size,       \* blocks of an image
          SeqMod,     \* 256: TransferData block numbers
          StateTicks, \* the per-state deadline of the self test, in polls
          PostTicks,  \* POST_DEADLINE_MS, in polls
          MaxReqs,    \* bound: requests of the client
          MaxTrouble, \* bound: failing flash operations, lost answers, power losses
          MaxSwaps    \* bound: boots

AllServices == {"default", "programming", "34", "36", "37", "31",
                "revert", "restore", "capture", "massErase", "nvsErase"}

ASSUME MaintConstants ==
  /\ Services \subseteq AllServices
  /\ Size \in Nat \ {0, 1} /\ SeqMod \in Nat \ {0, 1}
  /\ StateTicks \in Nat /\ PostTicks \in Nat
  /\ MaxReqs \in Nat /\ MaxTrouble \in Nat /\ MaxSwaps \in Nat

Checks == <<"cells", "consensus", "ppo2Tx", "handset", "solenoid">>
Works  == {"capture", "force", "restore"}
Old    == 1      \* the image the unit left the factory with
New    == 2      \* the image the client offers
Blank  == [img |-> 0, n |-> 0]
Spoilt == [img |-> 9, n |-> 1]
Whole(s)  == s.n = Size
Header(s) == s.n > 0

VARIABLES
  slot0,  \* the running image
  slot1,  \* the upgrade slot, in external flash
  staged, \* slot1's trailer asks for a test swap
  ok,     \* boot_is_img_confirmed
  fac,    \* the factory partition
  mark,   \* factory/captured in NVS
  \* from here on lost at a reset
  captured, \* backend_state.captured
  arena,
  paused, \* fl_paused of the log writer
  sess,   \* ctx->session
  dive,   \* UDS_IsInDive
  ota,    \* OtaSmCtx_t: state and next_seq
  rx,     \* where the receive thread is
  wq,     \* items pending on the factory work queue
  job,    \* the item being run and how far it is
  post,   \* the self test
  cl,     \* the client: the block it sends next
  budget,
  hist    \* history: images that passed the self test, that ran confirmed; a promised activation

pvars == <<slot0, slot1, staged, ok, fac, mark>>
rvars == <<captured, arena, paused, sess, dive, ota, rx, wq, job, post>>
vars  == <<pvars, rvars, cl, budget, hist>>

NoJob   == [item |-> "none", at |-> "idle"]
Dormant == [at |-> 0, inState |-> 0, total |-> 0, beat |-> FALSE, end |-> "confirmed"]
Started == [at |-> 1, inState |-> 0, total |-> 0, beat |-> FALSE, end |-> "none"]

Init ==
  /\ slot0 = Old /\ slot1 = Blank /\ staged = FALSE /\ ok = TRUE
  /\ fac = Blank /\ mark = FALSE /\ captured = FALSE
  /\ arena = FreshArena /\ paused = FALSE
  /\ sess = "default" /\ dive = FALSE /\ ota = [st |-> "idle", seq |-> 1]
  /\ rx = "idle" /\ wq = <<"capture">> /\ job = NoJob /\ post = Dormant
  /\ cl = 1 /\ budget = [req |-> MaxReqs, trouble |-> MaxTrouble, boots |-> MaxSwaps]
  /\ hist = [proven |-> {Old}, confirmed |-> {Old}, promise |-> 0, kept |-> TRUE]

Trouble == budget.trouble > 0 /\ budget' = [budget EXCEPT !.trouble = @ - 1]
Asks    == rx = "idle" /\ budget.req > 0 /\ budget' = [budget EXCEPT !.req = @ - 1]

-----------------------------------------------------------------------------
(* Sessions. UDS_MaintainSession runs first in every request, and nowhere  *)
(* else: late is the S3 timeout.                                           *)

\* Mutant: the log is not resumed.
UDS_OTA_ResetPaused ==
  /\ ota' = [st |-> "idle", seq |-> 1]
  /\ arena' = Release(arena, "ota")
  /\ UNCHANGED paused

\* ota_idle_entry after the exit of the state left: what UDS_OTA_Reset does.
UDS_OTA_Reset ==
  /\ ota' = [st |-> "idle", seq |-> 1]
  /\ arena' = Release(arena, "ota")
  /\ paused' = IF ota.st = "downloading" THEN FALSE ELSE paused

UDS_MaintainSession(late) ==
  IF sess = "prog" /\ (late \/ dive)
  THEN sess' = "default" /\ UDS_OTA_Reset
  ELSE UNCHANGED <<sess, ota, arena, paused>>

\* A request arrives: the session is maintained and the service is served in
\* a step of its own.
UDS_ProcessRequest ==
  /\ Asks
  /\ \E late \in BOOLEAN : UDS_MaintainSession(late)
  /\ \E s \in Services : rx' = s
  /\ UNCHANGED <<pvars, captured, dive, wq, job, post, cl, hist>>

\* HandleDiagnosticSessionControl: leaving the programming session this way
\* does not reset the OTA machine.
HandleDiagnosticSessionControl ==
  /\ rx \in {"default", "programming"} /\ rx' = "idle"
  /\ sess' = IF rx = "default" THEN "default" ELSE IF dive THEN sess ELSE "prog"
  /\ UNCHANGED <<pvars, captured, arena, paused, dive, ota, wq, job, post, cl, budget, hist>>

DiveChanges ==
  /\ Trouble /\ dive' = ~dive
  /\ UNCHANGED <<pvars, captured, arena, paused, sess, ota, rx, wq, job, post, cl, hist>>

\* checkOtaWritePrecondition, and the same two tests in the OTA handlers.
Permitted == sess = "prog" /\ ~dive

-----------------------------------------------------------------------------
(* OTA download                                                            *)

\* Refusals leave everything as it is.
Refuse(req, unless) ==
  /\ rx = req /\ ~unless /\ rx' = "idle"
  /\ UNCHANGED <<pvars, captured, arena, paused, sess, dive, ota, wq, job, post, cl, budget, hist>>

CanDownload == ota.st = "idle" /\ Permitted /\ CanClaim(arena, "ota")

\* 0x34 claims the arena and pauses the log for the erase.
ota_handle_request_download ==
  /\ rx = "34" /\ CanDownload
  /\ arena' = Claim(arena, "ota") /\ paused' = TRUE /\ rx' = "34erase"
  /\ UNCHANGED <<pvars, captured, sess, dive, ota, wq, job, post, cl, budget, hist>>

\* The erase takes slot1's trailer with it. The log resumes after the erase
\* and is paused again by the entry into the downloading state.
ota_erase_and_init_download ==
  /\ rx = "34erase" /\ slot1' = Blank /\ staged' = FALSE /\ rx' = "idle"
  /\ ota' = [st |-> "downloading", seq |-> 1] /\ paused' = TRUE /\ cl' = 1
  /\ UNCHANGED <<slot0, ok, fac, mark, captured, arena, sess, dive, wq, job, post, budget, hist>>

\* Mutant: the failure path keeps the arena.
OtaEraseFailsHolding ==
  /\ rx = "34erase" /\ Trouble /\ \E s \in {slot1, Blank} : slot1' = s
  /\ staged' \in (IF slot1' = Blank THEN {FALSE} ELSE {staged})
  /\ paused' = FALSE /\ rx' = "idle"
  /\ UNCHANGED <<slot0, ok, fac, mark, captured, arena, sess, dive, ota, wq, job, post, cl, hist>>

OtaEraseFails ==
  /\ rx = "34erase" /\ Trouble /\ \E s \in {slot1, Blank} : slot1' = s
  /\ staged' \in (IF slot1' = Blank THEN {FALSE} ELSE {staged})
  /\ arena' = Release(arena, "ota") /\ paused' = FALSE /\ rx' = "idle"
  /\ UNCHANGED <<slot0, ok, fac, mark, captured, sess, dive, ota, wq, job, post, cl, hist>>

\* The number is compared with next_seq, a byte that wraps; the session is not looked at.
ExpectedBlock == ota.st = "downloading" /\ cl % SeqMod = ota.seq

\* 0x36 appends the block. The answer may be lost: the client then repeats.
ota_handle_transfer_data ==
  /\ rx = "36" /\ cl <= Size /\ ExpectedBlock
  /\ slot1' = IF slot1.n = cl - 1 /\ slot1.img \in {0, New}
              THEN [img |-> New, n |-> cl] ELSE Spoilt
  /\ ota' = [ota EXCEPT !.seq = (@ + 1) % SeqMod] /\ rx' = "idle"
  /\ \/ cl' = cl + 1 /\ UNCHANGED budget
     \/ cl' = cl /\ Trouble
  /\ UNCHANGED <<slot0, staged, ok, fac, mark, captured, arena, paused, sess, dive, wq, job, post, hist>>

\* A failed write leaves next_seq alone; the block writer may have kept a part
\* of the block, so that what follows lands in the wrong place.
TransferDataFails ==
  /\ rx = "36" /\ cl <= Size /\ ExpectedBlock /\ Trouble
  /\ slot1' \in {slot1, Spoilt} /\ rx' = "idle"
  /\ UNCHANGED <<slot0, staged, ok, fac, mark, captured, arena, paused, sess, dive, ota, wq, job,
                 post, cl, hist>>

\* 0x37: the last buffer is flushed and the header must read back; the number
\* of bytes received is not compared with the number announced.
CanExit == ota.st = "downloading" /\ Header(slot1)

ota_handle_transfer_exit ==
  /\ rx = "37" /\ CanExit /\ rx' = "idle"
  /\ ota' = [ota EXCEPT !.st = "awaiting"] /\ paused' = FALSE
  /\ UNCHANGED <<pvars, captured, arena, sess, dive, wq, job, post, cl, budget, hist>>

\* Mutant: the image is taken on the word of its header.
validateSlot1Header == Header(slot1)

\* The SHA-256 of the TLVs against the slot's content.
validateSlot1 == Whole(slot1)

CanActivate == ota.st = "awaiting" /\ Permitted

\* 0x31 stages the swap and answers; the head reboots after a delay in which the
\* receive thread does nothing else.
ota_handle_routine_control ==
  /\ rx = "31" /\ CanActivate /\ validateSlot1
  /\ staged' = TRUE /\ rx' = "reboot" /\ ota' = [ota EXCEPT !.st = "activating"]
  /\ paused' = FALSE /\ hist' = [hist EXCEPT !.promise = New]
  /\ UNCHANGED <<slot0, slot1, ok, fac, mark, captured, arena, sess, dive, wq, job, post, cl, budget>>

ActivateFails ==
  /\ rx = "31" /\ CanActivate /\ validateSlot1 /\ Trouble
  /\ staged' \in BOOLEAN /\ rx' = "idle" /\ paused' = FALSE
  /\ UNCHANGED <<slot0, slot1, ok, fac, mark, captured, arena, sess, dive, ota, wq, job, post, cl, hist>>

-----------------------------------------------------------------------------
(* The write DIDs                                                          *)

\* writeForceRevertDID: only the header is looked at.
CanRevert == Permitted /\ CanClaim(arena, "flash") /\ Header(slot1)

writeForceRevertDID ==
  /\ rx = "revert" /\ CanRevert
  /\ \/ staged' = TRUE /\ rx' = "reboot" /\ UNCHANGED budget
     \/ Trouble /\ staged' \in BOOLEAN /\ rx' = "idle"
  /\ arena' = Release(Claim(arena, "flash"), "flash") /\ paused' = FALSE
  /\ UNCHANGED <<slot0, slot1, ok, fac, mark, captured, sess, dive, ota, wq, job, post, cl, hist>>

CanErase == Permitted /\ CanClaim(arena, "flash")

\* flash_mass_erase_external goes on past a region that fails; the head reboots
\* with the arena still claimed. The storage partition holds the captured flag.
writeFactoryFlashEraseDID ==
  /\ rx = "massErase" /\ CanErase
  /\ arena' = Claim(arena, "flash") /\ paused' = TRUE /\ rx' = "reboot"
  /\ \E left \in SUBSET {"slot1", "factory", "storage"} :
       /\ IF left = {} THEN UNCHANGED budget ELSE Trouble
       /\ slot1' = (IF "slot1" \in left THEN slot1 ELSE Blank)
       /\ staged' = (staged /\ "slot1" \in left)
       /\ fac' = (IF "factory" \in left THEN fac ELSE Blank)
       /\ mark' = (mark /\ "storage" \in left)
  /\ UNCHANGED <<slot0, ok, captured, sess, dive, ota, wq, job, post, cl, hist>>

writeNvsEraseDID ==
  /\ rx = "nvsErase" /\ CanErase
  /\ arena' = Claim(arena, "flash") /\ paused' = TRUE /\ rx' = "reboot"
  /\ \/ mark' = FALSE /\ UNCHANGED budget
     \/ mark' = mark /\ Trouble
  /\ UNCHANGED <<slot0, slot1, staged, ok, fac, captured, sess, dive, ota, wq, job, post, cl, hist>>

\* k_work_submit_to_queue: an item already pending stays where it is.
Submit(w) == IF \E i \in DOMAIN wq : wq[i] = w THEN wq ELSE Append(wq, w)

writeRestoreFactoryDID ==
  /\ rx = "restore" /\ Permitted /\ captured
  /\ wq' = Submit("restore") /\ rx' = "idle"
  /\ UNCHANGED <<pvars, captured, arena, paused, sess, dive, ota, job, post, cl, budget, hist>>

\* boot_is_img_confirmed
CanCapture == Permitted /\ ok

writeFactoryCaptureDID ==
  /\ rx = "capture" /\ CanCapture
  /\ wq' = Submit("force") /\ rx' = "idle"
  /\ UNCHANGED <<pvars, captured, arena, paused, sess, dive, ota, job, post, cl, budget, hist>>

Refusals ==
  \/ Refuse("34", CanDownload) \/ Refuse("36", cl <= Size /\ ExpectedBlock)
  \/ Refuse("37", CanExit) \/ Refuse("31", CanActivate /\ validateSlot1)
  \/ Refuse("revert", CanRevert) \/ Refuse("massErase", CanErase)
  \/ Refuse("nvsErase", CanErase) \/ Refuse("restore", Permitted /\ captured)
  \/ Refuse("capture", CanCapture)

\* The log download of uds_log_download.c, by what it does to the arena and the log writer.
StreamBegins ==
  /\ Asks /\ CanClaim(arena, "stream")
  /\ arena' = Claim(arena, "stream") /\ paused' = TRUE
  /\ UNCHANGED <<pvars, captured, sess, dive, ota, rx, wq, job, post, cl, hist>>
StreamEnds ==
  /\ rx = "idle" /\ arena.owner = "stream"
  /\ arena' = Release(arena, "stream") /\ paused' = FALSE
  /\ UNCHANGED <<pvars, captured, sess, dive, ota, rx, wq, job, post, cl, budget, hist>>

RxStep ==
  \/ UDS_ProcessRequest \/ HandleDiagnosticSessionControl \/ Refusals
  \/ ota_handle_request_download \/ ota_erase_and_init_download \/ OtaEraseFails
  \/ ota_handle_transfer_data \/ TransferDataFails \/ ota_handle_transfer_exit
  \/ ota_handle_routine_control \/ ActivateFails
  \/ writeForceRevertDID \/ writeFactoryFlashEraseDID \/ writeNvsEraseDID
  \/ writeRestoreFactoryDID \/ writeFactoryCaptureDID
  \/ StreamBegins \/ StreamEnds

-----------------------------------------------------------------------------
(* The factory work queue                                                  *)

\* The next item. A restore pauses the log before anything else.
NextItem ==
  /\ job = NoJob /\ wq # <<>>
  /\ job' = [item |-> Head(wq), at |-> "start"] /\ wq' = Tail(wq)
  /\ paused' = IF Head(wq) = "restore" THEN TRUE ELSE paused
  /\ UNCHANGED <<pvars, captured, arena, sess, dive, ota, rx, post, cl, budget, hist>>

\* The end of an item. A restore resumes the log whoever else paused it.
EndItem ==
  /\ job' = NoJob /\ arena' = Release(arena, "factory")
  /\ paused' = IF job.item = "restore" THEN FALSE ELSE paused

\* capture_work_handler and factory_image_restore_to_slot1 look at the captured flag.
Needless == IF job.item = "restore" THEN ~captured ELSE job.item = "capture" /\ captured

StartItem ==
  /\ job.at = "start"
  /\ IF Needless \/ ~CanClaim(arena, "factory")
     THEN EndItem
     ELSE /\ arena' = Claim(arena, "factory") /\ UNCHANGED paused
          /\ job' = [job EXCEPT !.at = IF job.item = "restore" THEN "parse" ELSE "erase"]
  /\ UNCHANGED <<pvars, captured, sess, dive, ota, rx, wq, post, cl, budget, hist>>

\* A block that reads back as written: the next one in place.
NextBlock(s, img) == [img |-> img, n |-> s.n + 1]

flash_backend_erase == fac' = Blank
flash_backend_write == fac' = NextBlock(fac, slot0)
\* The flag in RAM follows the one in NVS only when that was saved.
flash_backend_mark_captured == mark' = TRUE /\ captured' = TRUE

\* capture_copy_and_bless: erase, copy with read-back, then the mark. A forced
\* capture leaves the mark of the earlier one in place until its own.
capture_copy_and_bless ==
  /\ \/ /\ job.at = "erase" /\ flash_backend_erase /\ job' = [job EXCEPT !.at = "copy"]
        /\ UNCHANGED <<mark, captured, arena, paused>>
     \/ /\ job.at = "copy" /\ fac.n < Size /\ flash_backend_write
        /\ UNCHANGED <<mark, captured, arena, paused, job>>
     \/ /\ job.at = "copy" /\ Whole(fac) /\ flash_backend_mark_captured
        /\ EndItem /\ UNCHANGED fac
  /\ UNCHANGED <<slot0, slot1, staged, ok, sess, dive, ota, rx, wq, post, cl, budget, hist>>

\* Mutant: the header alone is checked.
factory_backup_image_size_header == Header(fac)

\* The header's magic, and the TLV magic at the place the header gives.
factory_backup_image_size == Whole(fac)

\* The header's magic, then a swap request that MCUboot's reader sees too.
verify_and_stage_slot1 == Header(slot1) /\ staged' = TRUE

\* copy_backend_to_slot1 and verify_and_stage_slot1. The arena is released before the
\* delay and the reboot, the log stays paused.
copy_backend_to_slot1 ==
  /\ \/ /\ job.at = "parse" /\ factory_backup_image_size
        /\ slot1' = Blank /\ staged' = FALSE /\ job' = [job EXCEPT !.at = "fill"]
        /\ UNCHANGED <<arena, paused>>
     \/ /\ job.at = "parse" /\ ~factory_backup_image_size
        /\ EndItem /\ UNCHANGED <<slot1, staged>>
     \/ /\ job.at = "fill" /\ slot1.n < fac.n /\ slot1' = NextBlock(slot1, fac.img)
        /\ UNCHANGED <<staged, arena, paused, job>>
     \/ /\ job.at = "fill" /\ slot1.n = fac.n /\ verify_and_stage_slot1
        /\ job' = [job EXCEPT !.at = "reboot"]
        /\ arena' = Release(arena, "factory") /\ UNCHANGED <<slot1, paused>>
  /\ UNCHANGED <<slot0, ok, fac, mark, captured, sess, dive, ota, rx, wq, post, cl, budget, hist>>

\* A flash operation fails for good, its retries included.
ItemFails ==
  /\ job.at \in {"erase", "copy", "parse", "fill"} /\ Trouble /\ EndItem
  /\ \/ job.at = "erase" /\ fac' \in {fac, Blank} /\ UNCHANGED <<slot1, staged>>
     \/ job.at = "copy" /\ UNCHANGED <<fac, slot1, staged>>
     \/ /\ job.at = "parse" /\ UNCHANGED fac
        /\ \/ UNCHANGED <<slot1, staged>>
           \/ slot1' = Blank /\ staged' = FALSE
     \/ job.at = "fill" /\ staged' \in {staged, slot1.n = fac.n} /\ UNCHANGED <<fac, slot1>>
  /\ UNCHANGED <<slot0, ok, mark, captured, sess, dive, ota, rx, wq, post, cl, hist>>

JobStep == NextItem \/ StartItem \/ capture_copy_and_bless \/ copy_backend_to_slot1 \/ ItemFails

-----------------------------------------------------------------------------
(* The self test of an unconfirmed image                                   *)

\* factory_image_maybe_capture_async
MaybeCapture(q) == IF captured \/ \E i \in DOMAIN q : q[i] = "capture" THEN q ELSE Append(q, "capture")

\* One poll later, as far as the deadlines can tell; beat makes every poll a step.
TickOf(p) == [p EXCEPT !.beat = ~@, !.inState = IF @ < StateTicks THEN @ + 1 ELSE @,
                       !.total = IF @ < PostTicks THEN @ + 1 ELSE @]

\* post_confirmed_entry: the state already says confirmed when the write fails.
post_confirmed_entry ==
  /\ post' = Dormant
  /\ \/ ok' = TRUE /\ wq' = MaybeCapture(wq) /\ UNCHANGED budget
        /\ hist' = [hist EXCEPT !.proven = @ \cup {slot0}, !.confirmed = @ \cup {slot0}]
     \/ Trouble /\ UNCHANGED <<ok, wq, hist>>

\* One poll of a waiting state: what it waits for is there, or a deadline has passed.
PostAlive ==
  /\ post.at \in DOMAIN Checks /\ post.end = "none"
  /\ IF post.at = Len(Checks)
     THEN post_confirmed_entry
     ELSE post' = [TickOf(post) EXCEPT !.at = @ + 1, !.inState = 0] /\ UNCHANGED <<ok, wq, budget, hist>>
  /\ UNCHANGED <<slot0, slot1, staged, fac, mark, captured, arena, paused, sess, dive, ota, rx, job, cl>>

\* Mutant: the deadlines are not looked at.
ExceededNever(p) == FALSE

\* overall_deadline_exceeded, state_budget_exceeded
Exceeded(p) == p.total >= PostTicks \/ p.inState >= StateTicks

PostSilent ==
  /\ post.at \in DOMAIN Checks /\ post.end = "none"
  /\ post' = IF Exceeded(post) THEN [Dormant EXCEPT !.end = "failed"]
             ELSE TickOf(post)
  /\ UNCHANGED <<pvars, captured, arena, paused, sess, dive, ota, rx, wq, job, cl, budget, hist>>

-----------------------------------------------------------------------------
(* Resets                                                                  *)

\* MCUboot: an invalid image in slot1 is erased instead of swapped in; a swap the
\* application did not ask for is the revert, after which the image counts as confirmed.
MCUboot ==
  LET wants == staged \/ ~ok
      swaps == wants /\ Whole(slot1)
  IN  /\ slot0' = IF swaps THEN slot1.img ELSE slot0
      /\ slot1' = IF swaps THEN [img |-> slot0, n |-> Size] ELSE IF wants THEN Blank ELSE slot1
      /\ ok' = IF swaps THEN ~staged ELSE ok
      /\ staged' = FALSE

\* POST_ACTION_SILENT or POST_ACTION_RUN: a queued test swap is never seen by the
\* application, MCUboot acts on it first.
firmware_confirm_decide == IF ok' THEN Dormant ELSE Started

\* The captured flag comes from the settings; a load that fails counts as not captured,
\* whatever the mark says.
flash_backend_init == captured' \in {mark, FALSE}

\* main: the self test, then the captured flag, then the capture of a confirmed image.
Boot ==
  /\ budget.boots > 0 /\ MCUboot
  /\ post' = firmware_confirm_decide
  /\ flash_backend_init
  /\ wq' = IF post'.end = "confirmed" /\ ~captured' THEN <<"capture">> ELSE <<>>
  /\ arena' = FreshArena /\ paused' = FALSE /\ sess' = "default"
  /\ ota' = [st |-> "idle", seq |-> 1] /\ rx' = "idle" /\ job' = NoJob /\ cl' = 1
  /\ hist' = [hist EXCEPT !.promise = 0, !.kept = hist.promise \in {0, slot0'},
                         !.confirmed = IF ok' THEN @ \cup {slot0'} ELSE @]
  /\ UNCHANGED <<fac, mark, dive>>

\* sys_reboot of the receive thread, the restore and the failed self test.
Reboot ==
  /\ rx = "reboot" \/ job.at = "reboot" \/ post.end = "failed"
  /\ Boot /\ budget' = [budget EXCEPT !.boots = @ - 1]

PowerLoss ==
  /\ budget.trouble > 0 /\ Boot
  /\ budget' = [budget EXCEPT !.boots = @ - 1, !.trouble = @ - 1]

Next == RxStep \/ DiveChanges \/ JobStep \/ PostAlive \/ PostSilent \/ Reboot \/ PowerLoss

Spec == Init /\ [][Next]_vars

\* The self test is a thread of its own that polls on a timer.
FairSpec == Spec /\ WF_post(PostAlive \/ PostSilent)

-----------------------------------------------------------------------------
(* Properties                                                              *)

\* A positive answer to the activation is kept: the image the client sent is whole in
\* slot1 when the swap is asked for, and it is what runs after the next reset, whatever
\* the work queue, the other commands or a power loss do in between.
ActivatedBoots == hist.kept

\* The factory backup is a fallback: an image that restore puts back and stages is
\* a whole image that has run confirmed, also after a capture that power loss or a
\* failing flash cut short under an older mark (copy_backend_to_slot1).
RestoreStagesConfirmed ==
  [][job.at = "fill" /\ job'.at = "reboot" => Whole(slot1') /\ slot1'.img \in hist.confirmed]_vars

\* factory_image.h: the backup is a "known-good first-confirmed image", taken "on the
\* first POST-confirmed boot": what restore stages passed the self test.
RestoreStagesProven ==
  [][job.at = "fill" /\ job'.at = "reboot" => slot1'.img \in hist.proven]_vars

\* The arena is held only by a tenant that is at work: no refusal, failure or session
\* loss strands it, which would lock every later maintenance operation out.
ArenaNotStranded ==
  /\ arena.owner = "ota" => ota.st # "idle" \/ rx = "34erase"
  /\ arena.owner = "factory" => job.at \in {"erase", "copy", "parse", "fill"}
  /\ arena.owner = "flash" => rx = "reboot"

\* The log writer is paused only while an operation that paused it goes on: no failure
\* path leaves a dive computer that has stopped logging.
WriterNotStranded ==
  paused => \/ ota.st = "downloading" \/ rx \in {"34erase", "reboot"}
            \/ arena.owner = "stream" \/ job.item = "restore"

\* An image under test is confirmed or the head resets: the self test ends whatever
\* the cells, the bus and the handset do.
PostEnds == post.end = "none" ~> post.end # "none"

\* firmware_confirm.h: "If any fails within the deadline, the unit reboots without
\* confirming and MCUBoot rolls back automatically": there is an image to roll back to
\* for as long as the running one is unconfirmed.
RollbackTarget == ~ok => Whole(slot1)
====
