------------------------------ MODULE FcbRing ------------------------------
(***************************************************************************)
(* The ring of flash sectors behind each log: Zephyr's FCB library as      *)
(* flash_log.c uses it (CRC-free entries, one scratch sector), and the     *)
(* cursor search of flash_log_fastseek.c that replaces the library's walk  *)
(* at mount.                                                               *)
(*                                                                         *)
(* A sector is the sequence of entries programmed into it. An entry takes  *)
(* n bytes, length field and end marker included; ok is FALSE when it was  *)
(* reserved but never finished, or has been programmed over.               *)
(***************************************************************************)
EXTENDS Naturals, Sequences

CONSTANTS NSectors, \* f_sector_cnt
          Cap,      \* bytes of a sector behind its header
          Chunk     \* scratch_len of fl_fast_seek_active

ASSUME RingConstants ==
  NSectors \in Nat /\ NSectors > 2 /\ Cap \in Nat \ {0} /\ Chunk \in Nat /\ Chunk > 1

Sectors == 0..(NSectors - 1)
Succ(s) == (s + 1) % NSectors

\* Bytes programmed into a sector.
Used(sec) ==
  LET sum[i \in 0..Len(sec)] == IF i = 0 THEN 0 ELSE sum[i - 1] + sec[i].n
  IN  sum[Len(sec)]

\* Concatenation of a sequence of sequences.
Concat(ss) ==
  LET cat[i \in 0..Len(ss)] == IF i = 0 THEN <<>> ELSE cat[i - 1] \o ss[i]
  IN  cat[Len(ss)]

EmptyRing == [sec |-> [s \in Sectors |-> <<>>], old |-> 0, act |-> 0, cur |-> 0]

\* fcb_is_empty.
IsEmpty(r) == r.old = r.act /\ r.sec[r.act] = <<>>

\* The sectors in use, oldest first.
InUse(r) == LET d == (r.act + NSectors - r.old) % NSectors
            IN  [i \in 1..(d + 1) |-> (r.old + i - 1) % NSectors]

\* What fcb_walk visits: finished entries, oldest first; unfinished ones are
\* hopped by their length.
Whole(sec) == Concat([i \in DOMAIN sec |-> IF sec[i].ok THEN <<sec[i]>> ELSE <<>>])
Entries(r) ==
  LET use == InUse(r) IN Concat([i \in DOMAIN use |-> Whole(r.sec[use[i]])])

\* fcb_append has room in the active sector, or two sectors before the oldest.
Fits(r, n) == r.cur + n <= Cap
HasRoom(r, n) == Fits(r, n) \/ (Succ(r.act) # r.old /\ Succ(Succ(r.act)) # r.old)

\* fcb_append, the writes and fcb_append_finish of one entry. Programming that
\* does not start where the programmed bytes end ruins what it overlaps.
PutEntry(r, e) ==
  LET r1 == IF Fits(r, e.n) THEN r
            ELSE [r EXCEPT !.act = Succ(r.act), !.cur = 0]
      s  == r1.sec[r1.act]
  IN  [r1 EXCEPT !.cur = @ + e.n,
                 !.sec[r1.act] = IF r1.cur = Used(s) THEN Append(s, e)
                                 ELSE [i \in DOMAIN s |-> [s[i] EXCEPT !.ok = FALSE]]]

\* fcb_rotate: erase the oldest sector; if it was also the active one, open
\* the next.
Rotate(r) ==
  LET r1 == [r EXCEPT !.sec[r.old] = <<>>, !.old = Succ(r.old)]
  IN  IF r.old = r.act THEN [r1 EXCEPT !.act = Succ(r.act), !.cur = 0] ELSE r1

-----------------------------------------------------------------------------
(* flash_log_fastseek.c                                                    *)

Lesser(a, b) == IF a < b THEN a ELSE b

\* Size of the entry that starts at byte x of a sector; 0 where it is erased.
LengthAt(sec, x) ==
  LET I == {i \in DOMAIN sec : Used(SubSeq(sec, 1, i - 1)) = x}
  IN  IF I = {} THEN 0 ELSE sec[CHOOSE i \in I : TRUE].n

\* fl_scan_chunk: parse whole entries of one chunk read at byte base.
fl_scan_chunk(sec, base, chunk) ==
  LET scan[pos \in 0..(Cap + 1)] ==
        LET n == LengthAt(sec, base + pos) IN
        IF pos + 2 > chunk   THEN [consumed |-> pos, hop |-> 0, at_end |-> FALSE]
        ELSE IF n = 0        THEN [consumed |-> pos, hop |-> 0, at_end |-> TRUE]
        ELSE IF n > chunk - pos
                             THEN [consumed |-> pos, hop |-> n, at_end |-> FALSE]
        ELSE scan[pos + n]
  IN  scan[0]

\* Mutant: entries parsed before the terminator do not count (a defect this
\* parser once had).
fl_fast_seek_loses_chunk(sec) ==
  LET seek[cursor \in 0..Cap] ==
        LET chunk == Lesser(Chunk, Cap - cursor)
            sc    == fl_scan_chunk(sec, cursor, chunk)
        IN  IF cursor = Cap \/ sc.at_end THEN cursor
            ELSE IF sc.consumed + sc.hop = 0 THEN cursor
            ELSE seek[Lesser(Cap, cursor + sc.consumed + sc.hop)]
  IN  seek[0]

\* fl_fast_seek_active: the write cursor of the active sector.
fl_fast_seek_active(sec) ==
  LET seek[cursor \in 0..Cap] ==
        LET chunk == Lesser(Chunk, Cap - cursor)
            sc    == fl_scan_chunk(sec, cursor, chunk)
        IN  IF cursor = Cap THEN cursor
            ELSE IF sc.at_end THEN cursor + sc.consumed
            ELSE IF sc.consumed + sc.hop = 0 THEN cursor
            ELSE seek[Lesser(Cap, cursor + sc.consumed + sc.hop)]
  IN  seek[0]
====
