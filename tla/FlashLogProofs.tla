-------------------------- MODULE FlashLogProofs ---------------------------
(***************************************************************************)
(* Proofs about FlashLog, for every depth of the queue and the batch, size *)
(* of the rings, number of offers, boots and faults.                       *)
(*                                                                         *)
(* What is stored changes only at its ends: RingsSound says that each ring *)
(* is the chain of sectors a reader expects and that the history variable  *)
(* log is what it holds, and LogKept that the flash log implements the log *)
(* RingLog promises, through power cuts inside an entry or the erase of a  *)
(* sector, erasures and failed writes. A step takes records from the old   *)
(* end or adds some at the young one (Steps), or is a recovery erase that  *)
(* stops half-way (Moved).                                                 *)
(*                                                                         *)
(* Where a record is: Tracked follows every record offered since boot to   *)
(* the flash, to a flush, to the queue or the batch, or to the count of a  *)
(* drop marker (RecordsAccountedFor), and a marker of one ring to the other*)
(* (MarkersInBoth). Writing a marker moves a number from the queue's count *)
(* into a record, so the argument adds the counts of a finite set up.      *)
(***************************************************************************)
EXTENDS FlashLog, FcbRingProofs, FiniteSetTheorems

\* What is logged. A record has a kind and a number; a boot marker and a drop
\* marker also say in which boot they were made, a drop marker when.
Plain   == [k : {"none", "old", "data", "dive", "text"}, n : Nat]
BootRec == [k : {"boot"}, n : Nat, in : Nat]
DropRec == [k : {"drop"}, n : Nat, at : Nat, in : Nat]
Rec     == Plain \cup BootRec \cup DropRec

\* What is programmed into a sector, and what a flush has yet to write.
LogEntry == {e \in [recs : Seq(Rec), n : Nat, ok : BOOLEAN] : e.n > 1 /\ e.n <= Cap}
Job      == [d : Dests, recs : {s \in Seq(Rec) : Len(s) <= BatchCap}, key : BOOLEAN]

LEMMA EntryFacts == EntrySet(LogEntry) /\ Hops(LogEntry)
  BY DEF LogEntry, EntrySet, Hops

LEMMA RecsType ==
  ASSUME NEW es \in Seq(LogEntry)
  PROVE  Recs(es) \in Seq(Rec)
  <1>. DEFINE ss == [i \in DOMAIN es |-> es[i].recs]
  <1>1. ss \in Seq(Seq(Rec))
    <2>1. \A i \in 1..Len(es) : es[i].recs \in Seq(Rec)
      BY DEF LogEntry
    <2>. QED BY <2>1
  <1>. HIDE DEF ss
  <1>2. Concat(ss) \in Seq(Rec)
    BY <1>1, ConcatType
  <1>. QED BY <1>2 DEF Recs, ss

LEMMA RecsNone == Recs(<<>>) = <<>>
  <1>1. [i \in DOMAIN <<>> |-> <<>>[i].recs] = <<>>
    OBVIOUS
  <1>. QED BY <1>1, ConcatNone DEF Recs

LEMMA RecsOne ==
  ASSUME NEW e \in LogEntry
  PROVE  Recs(<<e>>) = e.recs
  <1>1. [i \in DOMAIN <<e>> |-> <<e>>[i].recs] = <<e.recs>>
    OBVIOUS
  <1>2. e.recs \in Seq(Rec)
    BY DEF LogEntry
  <1>3. Concat(<<e.recs>>) = e.recs
    BY <1>2, ConcatOne
  <1>. QED BY <1>1, <1>3 DEF Recs

LEMMA RecsBoth ==
  ASSUME NEW x \in Seq(LogEntry), NEW y \in Seq(LogEntry)
  PROVE  Recs(x \o y) = Recs(x) \o Recs(y)
  <1>. DEFINE R(es) == [i \in DOMAIN es |-> es[i].recs]
              E == LogEntry
              Q == Seq(Rec)
  <1>1. \A e \in E : e.recs \in Q
    BY DEF LogEntry
  <1>. HIDE DEF E, Q
  <1>2. x \in Seq(E) /\ y \in Seq(E)
    BY DEF E
  <1>3. R(x) \in Seq(Q) /\ R(y) \in Seq(Q) /\ R(x \o y) = R(x) \o R(y)
    <2>0. ASSUME NEW es \in Seq(E) PROVE R(es) \in Seq(Q) /\ Len(R(es)) = Len(es)
      BY <1>1
    <2>1. x \o y \in Seq(E) /\ Len(x \o y) = Len(x) + Len(y)
      BY <1>2
    <2>2. /\ R(x) \in Seq(Q) /\ R(y) \in Seq(Q) /\ R(x \o y) \in Seq(Q)
          /\ Len(R(x)) = Len(x) /\ Len(R(y)) = Len(y) /\ Len(R(x \o y)) = Len(x) + Len(y)
      <3>. HIDE DEF R
      <3>. QED BY <1>2, <2>0, <2>1
    <2>3. ASSUME NEW i \in 1..(Len(x) + Len(y)) PROVE R(x \o y)[i] = (R(x) \o R(y))[i]
      BY <1>1, <1>2
    <2>4. R(x) \o R(y) \in Seq(Q) /\ Len(R(x) \o R(y)) = Len(x) + Len(y)
      <3>. HIDE DEF R
      <3>. QED BY <2>2, ConcatProperties
    <2>. HIDE DEF R
    <2>. QED BY <2>2, <2>3, <2>4, SeqEqual
  <1>. HIDE DEF R
  <1>4. Concat(R(x) \o R(y)) = Concat(R(x)) \o Concat(R(y))
    BY <1>3, ConcatBoth DEF Q
  <1>5. \A s : Recs(s) = Concat(R(s))
    BY DEF Recs, R
  <1>. QED BY <1>3, <1>4, <1>5

LEMMA RecsAppend ==
  ASSUME NEW x \in Seq(LogEntry), NEW e \in LogEntry
  PROVE  Recs(Append(x, e)) = Recs(x) \o e.recs
  <1>1. Append(x, e) = x \o <<e>> /\ <<e>> \in Seq(LogEntry)
    OBVIOUS
  <1>. QED BY <1>1, RecsBoth, RecsOne

-----------------------------------------------------------------------------
(* What each operation does to a ring.                                     *)

\* A ring as the log leaves it in flash: nothing outside the sectors in use, no
\* sector programmed past its end.
Sound(r) == /\ r \in RingsOf(LogEntry) /\ Clear(r)
            /\ \A s \in Sectors : Used(r.sec[s]) <= Cap
\* The cursor is where the programmed bytes end.
AtEnd(r) == r.cur = Used(r.sec[r.act])

LEMMA PutSound ==
  ASSUME NEW r, Sound(r), AtEnd(r), NEW e \in LogEntry, HasRoom(r, e.n)
  PROVE  /\ Sound(PutEntry(r, e)) /\ AtEnd(PutEntry(r, e))
         /\ Stored(PutEntry(r, e)) = IF e.ok THEN Stored(r) \o e.recs ELSE Stored(r)
  <1>1. r \in RingsOf(LogEntry) /\ Clear(r) /\ r.cur = Used(r.sec[r.act])
    BY DEF Sound, AtEnd
  <1>2. /\ PutEntry(r, e) \in RingsOf(LogEntry) /\ Clear(PutEntry(r, e))
        /\ AtEnd(PutEntry(r, e))
        /\ Entries(PutEntry(r, e)) = IF e.ok THEN Append(Entries(r), e) ELSE Entries(r)
    BY <1>1, EntryFacts, PutRing DEF AtEnd
  <1>3. \A s \in Sectors : Used(PutEntry(r, e).sec[s]) <= Cap
    <2>1. PICK a \in Sectors :
             /\ a = IF Fits(r, e.n) THEN r.act ELSE Succ(r.act)
             /\ ~Fits(r, e.n) => a # r.old /\ r.sec[a] = <<>>
             /\ PutEntry(r, e) = [sec |-> [r.sec EXCEPT ![a] = Append(r.sec[a], e)],
                       old |-> r.old, act |-> a, cur |-> Used(Append(r.sec[a], e))]
      BY <1>1, EntryFacts, PutShape
    <2>2. r.sec \in [Sectors -> Seq(LogEntry)] /\ r.cur \in Nat
      BY <1>1 DEF RingsOf
    <2>3. Used(Append(r.sec[a], e)) = Used(r.sec[a]) + e.n /\ e.n <= Cap /\ e.n \in Nat
      <3>1. \A t \in LogEntry : t.n \in Nat
        BY DEF LogEntry
      <3>2. r.sec[a] \in Seq(LogEntry)
        BY <2>2
      <3>3. Used(Append(r.sec[a], e)) = Used(r.sec[a]) + e.n
        BY <3>1, <3>2, UsedAppend
      <3>. QED BY <3>3 DEF LogEntry
    <2>4. Used(Append(r.sec[a], e)) <= Cap
      <3>1. CASE Fits(r, e.n)
        BY <1>1, <2>1, <2>3, <3>1 DEF Fits
      <3>2. CASE ~Fits(r, e.n)
        BY <2>1, <2>3, <3>2, UsedNone
      <3>. QED BY <3>1, <3>2
    <2>5. \A s \in Sectors : PutEntry(r, e).sec[s] = IF s = a THEN Append(r.sec[a], e) ELSE r.sec[s]
      BY <2>1, <2>2
    <2>. QED BY <2>4, <2>5 DEF Sound
  <1>4. Entries(r) \in Seq(LogEntry)
    BY <1>1, WalkedIs
  <1>5. Recs(Append(Entries(r), e)) = Recs(Entries(r)) \o e.recs
    BY <1>4, RecsAppend
  <1>. QED BY <1>2, <1>3, <1>5 DEF Sound, Stored

LEMMA RotateSound ==
  ASSUME NEW r, Sound(r)
  PROVE  /\ Sound(Rotate(r)) /\ (AtEnd(r) => AtEnd(Rotate(r)))
         /\ Recs(Whole(r.sec[r.old])) \in Seq(Rec) /\ Stored(Rotate(r)) \in Seq(Rec)
         /\ Stored(r) = Recs(Whole(r.sec[r.old])) \o Stored(Rotate(r))
  <1>1. r \in RingsOf(LogEntry) /\ Clear(r)
    BY DEF Sound
  <1>2. /\ Rotate(r) \in RingsOf(LogEntry) /\ Clear(Rotate(r))
        /\ Rotate(r).old = Succ(r.old)
        /\ r.old # r.act => Rotate(r).act = r.act /\ Rotate(r).cur = r.cur
        /\ r.old = r.act => Rotate(r).cur = 0 /\ Rotate(r).sec[Rotate(r).act] = <<>>
        /\ \A s \in Sectors : Rotate(r).sec[s] = IF s = r.old THEN <<>> ELSE r.sec[s]
        /\ Entries(r) = Whole(r.sec[r.old]) \o Entries(Rotate(r))
    BY <1>1, RotateRing
  <1>3. \A s \in Sectors : Used(Rotate(r).sec[s]) <= Cap
    BY <1>2, UsedNone, SeekSizes DEF Sound
  <1>4. AtEnd(r) => AtEnd(Rotate(r))
    <2>1. r.act \in Sectors
      BY <1>1 DEF RingsOf
    <2>. QED BY <1>2, <2>1, UsedNone DEF AtEnd
  <1>5. Whole(r.sec[r.old]) \in Seq(LogEntry) /\ Entries(Rotate(r)) \in Seq(LogEntry)
    <2>1. r.sec[r.old] \in Seq(LogEntry)
      BY <1>1 DEF RingsOf
    <2>. QED BY <1>2, <2>1, WholeType, WalkedIs
  <1>6. Stored(r) = Recs(Whole(r.sec[r.old])) \o Stored(Rotate(r))
    BY <1>2, <1>5, RecsBoth DEF Stored
  <1>. QED BY <1>2, <1>3, <1>4, <1>5, <1>6, RecsType DEF Sound, Stored

\* A reader does not look at the cursor.
LEMMA CursorSound ==
  ASSUME NEW r, Sound(r), NEW c \in Nat
  PROVE  /\ Sound([r EXCEPT !.cur = c]) /\ Stored([r EXCEPT !.cur = c]) = Stored(r)
         /\ c = Used(r.sec[r.act]) => AtEnd([r EXCEPT !.cur = c])
  <1>. DEFINE new == [r EXCEPT !.cur = c]
  <1>1. r \in RingsOf(LogEntry)
    BY DEF Sound
  <1>2. new \in RingsOf(LogEntry) /\ new.sec = r.sec /\ new.old = r.old /\ new.act = r.act
        /\ new.cur = c
    BY <1>1 DEF RingsOf
  <1>. HIDE DEF new
  <1>3. Entries(new) = Entries(r)
    <2>1. InUse(new) = InUse(r)
      BY <1>2 DEF InUse
    <2>. QED BY <1>2, <2>1 DEF Entries
  <1>4. Sound(new)
    BY <1>2 DEF Sound, Clear, Between
  <1>. QED BY <1>2, <1>3, <1>4 DEF Stored, AtEnd, new

LEMMA EmptySound == Sound(EmptyRing) /\ AtEnd(EmptyRing) /\ Stored(EmptyRing) = <<>>
  <1>1. 0 \in Sectors
    BY Sizes DEF Sectors
  <1>2. EmptyRing \in RingsOf(LogEntry) /\ \A s \in Sectors : EmptyRing.sec[s] = <<>>
    BY <1>1 DEF EmptyRing, RingsOf
  <1>3. Sound(EmptyRing)
    BY <1>2, UsedNone, SeekSizes DEF Sound, Clear
  <1>4. EmptyRing.old = 0 /\ EmptyRing.act = 0 /\ EmptyRing.cur = 0
    BY DEF EmptyRing
  <1>5. AtEnd(EmptyRing)
    BY <1>1, <1>2, <1>4, UsedNone DEF AtEnd
  <1>6. Entries(EmptyRing) = <<>>
    <2>. DEFINE p == Walked(EmptyRing)
    <2>1. Span(EmptyRing) = 1 /\ Nth(EmptyRing, 1) \in Sectors
      BY <1>1, <1>4, NthIs, Sizes DEF Span
    <2>2. p \in Seq(Seq(LogEntry)) /\ Len(p) = 1 /\ p[1] = Whole(EmptyRing.sec[Nth(EmptyRing, 1)])
          /\ Entries(EmptyRing) = Concat(p)
      <3>1. 1 \in 1..Span(EmptyRing)
        BY <2>1
      <3>. QED BY <1>2, <2>1, <3>1, WalkedIs
    <2>. HIDE DEF p
    <2>3. p[1] = <<>>
      BY <1>2, <2>1, <2>2, WholeNone
    <2>4. p = <<<<>>>> /\ <<>> \in Seq(LogEntry)
      BY <2>2, <2>3
    <2>. QED BY <2>2, <2>4, ConcatOne
  <1>. QED BY <1>3, <1>5, <1>6, RecsNone DEF Stored

-----------------------------------------------------------------------------
(* Adding up what a finite set of records counts.                          *)

Any(s) == CHOOSE x \in s : TRUE
IsTotal(S, f) ==
  f = [s \in SUBSET S |-> IF s = {} THEN 0 ELSE Any(s).n + f[s \ {Any(s)}]]
Total(S) == (CHOOSE f : IsTotal(S, f))[S]

\* Finite sets of counting records.
Counts(S) == IsFiniteSet(S) /\ \A r \in S : r.n \in Nat

LEMMA Taken ==
  ASSUME NEW S, Counts(S), NEW s \in SUBSET S, NEW x \in s
  PROVE  /\ Counts(s) /\ Counts(s \ {x}) /\ s \ {x} \in SUBSET S /\ x.n \in Nat
         /\ Cardinality(s) \in Nat /\ Cardinality(s \ {x}) \in Nat
         /\ Cardinality(s) = Cardinality(s \ {x}) + 1 /\ Cardinality(s) =< Cardinality(S)
  <1>1. IsFiniteSet(S) /\ \A r \in S : r.n \in Nat
    BY DEF Counts
  <1>2. IsFiniteSet(s) /\ Cardinality(s) =< Cardinality(S)
    BY <1>1, FS_Subset
  <1>3. IsFiniteSet(s \ {x}) /\ Cardinality(s \ {x}) = Cardinality(s) - 1
    BY <1>2, FS_RemoveElement
  <1>4. Cardinality(s) \in Nat /\ Cardinality(s \ {x}) \in Nat
    BY <1>2, <1>3, FS_CardinalityType
  <1>. QED BY <1>1, <1>2, <1>3, <1>4 DEF Counts

LEMMA AnyIn ==
  ASSUME NEW s, s # {}
  PROVE  Any(s) \in s
  BY DEF Any

LEMMA TakeAny ==
  ASSUME NEW S, Counts(S), NEW s \in SUBSET S, s # {}
  PROVE  /\ Any(s) \in s /\ Any(s).n \in Nat /\ s \ {Any(s)} \in SUBSET S /\ Counts(s \ {Any(s)})
         /\ Cardinality(s) \in Nat /\ Cardinality(s \ {Any(s)}) \in Nat
         /\ Cardinality(s) = Cardinality(s \ {Any(s)}) + 1
  <1>. DEFINE x == Any(s)
  <1>1. x \in s
    BY AnyIn
  <1>. HIDE DEF x
  <1>2. /\ s \ {x} \in SUBSET S /\ Counts(s \ {x}) /\ x.n \in Nat
        /\ Cardinality(s) \in Nat /\ Cardinality(s \ {x}) \in Nat
        /\ Cardinality(s) = Cardinality(s \ {x}) + 1
    BY <1>1, Taken
  <1>. QED BY <1>1, <1>2 DEF x

LEMMA TotalExists ==
  ASSUME NEW S, Counts(S)
  PROVE  \E f \in [SUBSET S -> Nat] : IsTotal(S, f)
  <1>. DEFINE Ok(f, s) == f[s] = IF s = {} THEN 0 ELSE Any(s).n + f[s \ {Any(s)}]
              Has(k) == \E f \in [SUBSET S -> Nat] :
                          \A s \in SUBSET S : Cardinality(s) =< k => Ok(f, s)
              c == Cardinality(S)
              Good == {k \in 0..c : Has(k)}
  <1>1. IsFiniteSet(S) /\ c \in Nat
    BY FS_CardinalityType DEF Counts
  <1>2. 0 \in Good
    <2>. DEFINE f == [s \in SUBSET S |-> 0]
    <2>1. f \in [SUBSET S -> Nat]
      OBVIOUS
    <2>2. ASSUME NEW s \in SUBSET S, Cardinality(s) =< 0 PROVE Ok(f, s)
      <3>1. s # {} => Cardinality(s) \in Nat /\ Cardinality(s \ {Any(s)}) \in Nat
                       /\ Cardinality(s) = Cardinality(s \ {Any(s)}) + 1
        BY TakeAny
      <3>2. s = {}
        BY <2>2, <3>1
      <3>. QED BY <3>2
    <2>. HIDE DEF f, Ok
    <2>3. Has(0)
      BY <2>1, <2>2
    <2>. HIDE DEF Has
    <2>. QED BY <1>1, <2>3
  <1>3. ASSUME NEW k \in 1..c, k - 1 \in Good PROVE k \in Good
    <2>1. PICK f \in [SUBSET S -> Nat] : \A s \in SUBSET S : Cardinality(s) =< k - 1 => Ok(f, s)
      BY <1>3
    <2>. DEFINE v(s) == IF s = {} THEN 0 ELSE Any(s).n + f[s \ {Any(s)}]
                g == [s \in SUBSET S |-> IF Cardinality(s) = k THEN v(s) ELSE f[s]]
    <2>2. \A s \in SUBSET S : v(s) \in Nat
      <3>. SUFFICES ASSUME NEW s \in SUBSET S, s # {} PROVE Any(s).n + f[s \ {Any(s)}] \in Nat
        BY Zenon
      <3>1. Any(s).n \in Nat /\ s \ {Any(s)} \in SUBSET S
        BY TakeAny
      <3>2. f[s \ {Any(s)}] \in Nat
        BY <2>1, <3>1, Zenon
      <3>. QED BY <3>1, <3>2
    <2>. HIDE DEF v
    <2>3. g \in [SUBSET S -> Nat]
      BY <2>1, <2>2
    <2>4. ASSUME NEW s \in SUBSET S, Cardinality(s) =< k PROVE Ok(g, s)
      <3>1. s # {} => s \ {Any(s)} \in SUBSET S /\ Cardinality(s \ {Any(s)}) \in Nat
                      /\ Cardinality(s) = Cardinality(s \ {Any(s)}) + 1
        BY TakeAny
      <3>2. s # {} => g[s \ {Any(s)}] = f[s \ {Any(s)}]
        <4>1. s # {} => s \ {Any(s)} \in SUBSET S /\ Cardinality(s \ {Any(s)}) # k
          BY <2>4, <3>1
        <4>. QED BY <4>1, Zenon
      <3>3. CASE Cardinality(s) = k
        <4>1. g[s] = v(s)
          BY <3>3, Zenon
        <4>. HIDE DEF g
        <4>. QED BY <3>2, <4>1, Zenon DEF v
      <3>4. CASE Cardinality(s) # k
        <4>1. g[s] = f[s]
          BY <3>4, Zenon
        <4>2. Ok(f, s)
          <5>1. IsFiniteSet(s)
            BY <1>1, FS_Subset
          <5>2. Cardinality(s) \in Nat
            BY <5>1, FS_CardinalityType
          <5>3. Cardinality(s) =< k - 1
            BY <2>4, <3>4, <5>2
          <5>. QED BY <2>1, <5>3, Zenon
        <4>. HIDE DEF g
        <4>. QED BY <3>2, <4>1, <4>2, Zenon
      <3>. QED BY <3>3, <3>4
    <2>. HIDE DEF g, Ok
    <2>5. Has(k)
      BY <2>3, <2>4
    <2>. HIDE DEF Has
    <2>. QED BY <1>1, <2>5
  <1>. HIDE DEF Ok, Has
  <1>4. c \in Good
    <2>. HIDE DEF Good, c
    <2>1. 0..c \subseteq Good
      BY <1>1, <1>2, <1>3, UpTo
    <2>. QED BY <1>1, <2>1
  <1>5. PICK f \in [SUBSET S -> Nat] : \A s \in SUBSET S : Cardinality(s) =< c => Ok(f, s)
    BY <1>4 DEF Has
  <1>6. \A s \in SUBSET S : Ok(f, s)
    <2>. SUFFICES ASSUME NEW s \in SUBSET S PROVE Cardinality(s) =< c
      BY <1>5, Zenon
    <2>. QED BY <1>1, FS_Subset
  <1>7. f = [s \in SUBSET S |-> IF s = {} THEN 0 ELSE Any(s).n + f[s \ {Any(s)}]]
    BY <1>6, Zenon DEF Ok
  <1>. QED BY <1>7 DEF IsTotal

LEMMA TotalsAgree ==
  ASSUME NEW S, Counts(S), NEW U, S \subseteq U, NEW f, NEW g, IsTotal(S, f), IsTotal(U, g)
  PROVE  \A s \in SUBSET S : f[s] = g[s]
  <1>. DEFINE c == Cardinality(S)
              F == [s \in SUBSET S |-> IF s = {} THEN 0 ELSE Any(s).n + f[s \ {Any(s)}]]
              G == [s \in SUBSET U |-> IF s = {} THEN 0 ELSE Any(s).n + g[s \ {Any(s)}]]
              Same == {k \in 0..c : \A s \in SUBSET S : Cardinality(s) =< k => f[s] = g[s]}
  <1>1. IsFiniteSet(S) /\ c \in Nat
    BY FS_CardinalityType DEF Counts
  <1>2. f = F /\ g = G
    BY DEF IsTotal
  <1>3. ASSUME NEW s \in SUBSET S
        PROVE  /\ f[s] = IF s = {} THEN 0 ELSE Any(s).n + f[s \ {Any(s)}]
               /\ g[s] = IF s = {} THEN 0 ELSE Any(s).n + g[s \ {Any(s)}]
    <2>1. F[s] = IF s = {} THEN 0 ELSE Any(s).n + f[s \ {Any(s)}]
      BY Zenon
    <2>2. s \in SUBSET U
      OBVIOUS
    <2>3. G[s] = IF s = {} THEN 0 ELSE Any(s).n + g[s \ {Any(s)}]
      BY <2>2, Zenon
    <2>. HIDE DEF F, G
    <2>. QED BY <1>2, <2>1, <2>3, Zenon
  <1>. HIDE DEF F, G
  <1>4. 0 \in Same
    <2>. SUFFICES ASSUME NEW s \in SUBSET S, Cardinality(s) =< 0 PROVE f[s] = g[s]
      BY <1>1
    <2>1. s # {} => Cardinality(s) \in Nat /\ Cardinality(s \ {Any(s)}) \in Nat
                     /\ Cardinality(s) = Cardinality(s \ {Any(s)}) + 1
      BY TakeAny
    <2>2. s = {}
      BY <2>1
    <2>. QED BY <1>3, <2>2
  <1>5. ASSUME NEW k \in 1..c, k - 1 \in Same PROVE k \in Same
    <2>. SUFFICES ASSUME NEW s \in SUBSET S, Cardinality(s) =< k PROVE f[s] = g[s]
      BY <1>1
    <2>1. CASE s = {}
      BY <1>3, <2>1
    <2>2. CASE s # {}
      <3>1. s \ {Any(s)} \in SUBSET S /\ Cardinality(s \ {Any(s)}) \in Nat
            /\ Cardinality(s) = Cardinality(s \ {Any(s)}) + 1
        BY <2>2, TakeAny
      <3>2. Cardinality(s \ {Any(s)}) =< k - 1
        BY <3>1
      <3>3. f[s \ {Any(s)}] = g[s \ {Any(s)}]
        BY <1>5, <3>1, <3>2
      <3>. QED BY <1>3, <2>2, <3>3, Zenon
    <2>. QED BY <2>1, <2>2
  <1>6. c \in Same
    <2>. HIDE DEF Same, c
    <2>1. 0..c \subseteq Same
      BY <1>1, <1>4, <1>5, UpTo
    <2>. QED BY <1>1, <2>1
  <1>7. \A s \in SUBSET S : Cardinality(s) =< c
    BY <1>1, FS_Subset
  <1>. QED BY <1>6, <1>7

\* The total, one record taken off.
LEMMA TotalStep ==
  ASSUME NEW S, Counts(S)
  PROVE  /\ Total(S) \in Nat
         /\ Total(S) = IF S = {} THEN 0 ELSE Any(S).n + Total(S \ {Any(S)})
  <1>. DEFINE f == CHOOSE h : IsTotal(S, h)
              r == S \ {Any(S)}
              g == CHOOSE h : IsTotal(r, h)
  <1>1. PICK t \in [SUBSET S -> Nat] : IsTotal(S, t)
    BY TotalExists
  <1>2. IsTotal(S, f)
    BY <1>1
  <1>. HIDE DEF f
  <1>3. f[S] \in Nat
    <2>1. t[S] = f[S]
      BY <1>1, <1>2, TotalsAgree
    <2>. QED BY <1>1, <2>1
  <1>4. Total(S) = f[S]
    BY DEF Total, f
  <1>5. f[S] = IF S = {} THEN 0 ELSE Any(S).n + f[r]
    <2>. DEFINE F == [s \in SUBSET S |-> IF s = {} THEN 0 ELSE Any(s).n + f[s \ {Any(s)}]]
    <2>1. f = F
      BY <1>2 DEF IsTotal
    <2>2. F[S] = IF S = {} THEN 0 ELSE Any(S).n + f[S \ {Any(S)}]
      BY Zenon
    <2>. HIDE DEF F
    <2>. QED BY <2>1, <2>2
  <1>6. S # {} => f[r] = Total(r)
    <2>. SUFFICES ASSUME S # {} PROVE f[r] = Total(r)
      OBVIOUS
    <2>1. Counts(r) /\ r \subseteq S
      <3>1. Any(S) \in S /\ S \in SUBSET S
        BY AnyIn
      <3>. QED BY <3>1, Taken
    <2>2. PICK u \in [SUBSET r -> Nat] : IsTotal(r, u)
      BY <2>1, TotalExists
    <2>3. IsTotal(r, g)
      BY <2>2
    <2>. HIDE DEF g, r
    <2>4. g[r] = f[r]
      BY <1>2, <2>1, <2>3, TotalsAgree
    <2>. QED BY <2>4 DEF Total, g
  <1>. QED BY <1>3, <1>4, <1>5, <1>6, Zenon

LEMMA TotalNone == Total({}) = 0
  <1>1. Counts({})
    BY FS_EmptySet DEF Counts
  <1>. QED BY <1>1, TotalStep

\* In whatever order the records are taken.
LEMMA TotalLess ==
  ASSUME NEW S, Counts(S)
  PROVE  \A s \in SUBSET S : \A x \in s : Total(s) = x.n + Total(s \ {x})
  <1>. DEFINE c == Cardinality(S)
              Less == {k \in 0..c : \A s \in SUBSET S : Cardinality(s) =< k =>
                                      \A x \in s : Total(s) = x.n + Total(s \ {x})}
  <1>1. IsFiniteSet(S) /\ c \in Nat
    BY FS_CardinalityType DEF Counts
  <1>2. 0 \in Less
    <2>. SUFFICES ASSUME NEW s \in SUBSET S, Cardinality(s) =< 0, NEW x \in s PROVE FALSE
      BY <1>1
    <2>1. Cardinality(s) \in Nat /\ Cardinality(s \ {x}) \in Nat
          /\ Cardinality(s) = Cardinality(s \ {x}) + 1
      BY Taken
    <2>. QED BY <2>1
  <1>3. ASSUME NEW k \in 1..c, k - 1 \in Less PROVE k \in Less
    <2>. SUFFICES ASSUME NEW s \in SUBSET S, Cardinality(s) =< k, NEW x \in s
                  PROVE  Total(s) = x.n + Total(s \ {x})
      BY <1>1
    <2>. DEFINE y == Any(s)
                a == s \ {x}
                b == s \ {y}
                z == s \ {x, y}
    <2>1. y \in s
      BY AnyIn
    <2>2. Counts(s) /\ Total(s) = y.n + Total(b)
      <3>1. Counts(s)
        BY Taken
      <3>2. s # {}
        OBVIOUS
      <3>. QED BY <3>1, <3>2, TotalStep, Zenon
    <2>. HIDE DEF y
    <2>3. CASE x = y
      BY <2>2, <2>3
    <2>4. CASE x # y
      <3>1. x \in b /\ y \in a /\ b \ {x} = z /\ a \ {y} = z /\ a \in SUBSET S /\ b \in SUBSET S
        BY <2>1, <2>4
      <3>2. /\ Cardinality(a) =< k - 1 /\ Cardinality(b) =< k - 1 /\ x.n \in Nat /\ y.n \in Nat
            /\ Counts(b)
        <4>1. Cardinality(s) = Cardinality(a) + 1 /\ Cardinality(a) \in Nat /\ x.n \in Nat
          BY Taken
        <4>2. Cardinality(s) = Cardinality(b) + 1 /\ Cardinality(b) \in Nat /\ y.n \in Nat
                /\ Counts(b)
          BY <2>1, Taken
        <4>. QED BY <4>1, <4>2
      <3>3. Counts(z)
        <4>1. b \ {x} = z /\ x \in b /\ b \in SUBSET b
          BY <3>1
        <4>. HIDE DEF a, b, z
        <4>. QED BY <3>2, <4>1, Taken
      <3>. HIDE DEF a, b, z
      <3>4. Total(b) = x.n + Total(z) /\ Total(a) = y.n + Total(z)
        BY <1>3, <3>1, <3>2
      <3>5. Total(z) \in Nat
        BY <3>3, TotalStep
      <3>6. Total(s) = x.n + Total(a)
        BY <2>2, <3>2, <3>4, <3>5
      <3>. QED BY <3>6 DEF a
    <2>. QED BY <2>3, <2>4
  <1>4. c \in Less
    <2>. HIDE DEF Less, c
    <2>1. 0..c \subseteq Less
      BY <1>1, <1>2, <1>3, UpTo
    <2>. QED BY <1>1, <2>1
  <1>5. \A s \in SUBSET S : Cardinality(s) =< c
    BY <1>1, FS_Subset
  <1>. QED BY <1>4, <1>5

\* A record that was not counted yet.
LEMMA TotalMore ==
  ASSUME NEW S, Counts(S), NEW m, m.n \in Nat, m \notin S
  PROVE  Counts(S \cup {m}) /\ Total(S \cup {m}) = Total(S) + m.n
  <1>. DEFINE U == S \cup {m}
  <1>1. Counts(U) /\ U \in SUBSET U /\ m \in U /\ U \ {m} = S
    BY FS_AddElement DEF Counts
  <1>. HIDE DEF U
  <1>2. Total(U) = m.n + Total(S)
    BY <1>1, TotalLess
  <1>3. Total(S) \in Nat
    BY TotalStep
  <1>. QED BY <1>1, <1>2, <1>3 DEF U

-----------------------------------------------------------------------------
(* Types.                                                                  *)

\* Jobs without records are counts of drops yet to be taken, telemetry first.
Full    == {j \in Job : j.recs # <<>>}
Flushes == {s \in Seq(Job) : \A i \in 1..Len(s) : s[i].recs = <<>> /\ s[i].d = "tel" =>
                                i < Len(s) /\ s[i + 1].recs = <<>>}

FlashType ==
  /\ boot \in {"tel", "txt", "count", "marker", "up"} /\ mounted \subseteq Dests
  /\ boot = "tel" => mounted = {}
  /\ boot = "txt" => "txt" \notin mounted
  /\ bootId \in [ram : Nat, nv : Nat]
  /\ q \in Seq(Rec) /\ drops \in [Dests -> Nat]
  /\ batch \in Seq(Rec) /\ Len(batch) <= BatchCap /\ held \in Rec
  /\ pc \in {"top", "get", "flush"} /\ jobs \in Flushes
  /\ budget \in [offers : 0..MaxOffers, trouble : Nat] /\ boots \in Nat
  /\ offered \in SUBSET Rec /\ IsFiniteSet(offered)
  /\ gone \in [Dests -> SUBSET Rec] /\ \A d \in Dests : IsFiniteSet(gone[d])
  /\ faulty \in BOOLEAN /\ wipes \in [Dests -> Nat]

\* The flash, and what a reader finds there.
RingsSound ==
  /\ ring \in [Dests -> RingsOf(LogEntry)] /\ \A d \in Dests : Sound(ring[d])
  /\ \A d \in mounted : AtEnd(ring[d])
  /\ log = [d \in Dests |-> Stored(ring[d])]

LEMMA LogSizes ==
  /\ BatchCap \in Nat /\ BatchCap > 0 /\ BatchCap < Cap /\ Cap \in Nat /\ Cap > 3
  /\ MaxOffers \in Nat /\ MaxTrouble \in Nat /\ QueueDepth \in Nat
  BY LogConstants, RingConstants

LEMMA RangeFinite ==
  ASSUME NEW T, NEW s \in Seq(T)
  PROVE  IsFiniteSet(Range(s)) /\ Range(s) \in SUBSET T /\ Range(s) = {s[i] : i \in 1..Len(s)}
  <1>1. Len(s) \in Nat /\ s \in [1..Len(s) -> T]
    OBVIOUS
  <1>2. Range(s) = {s[i] : i \in 1..Len(s)}
    BY DEF Range
  <1>3. IsFiniteSet(1..Len(s))
    BY <1>1, FS_Interval
  <1>4. s \in Surjection(1..Len(s), Range(s))
    BY <1>1, <1>2 DEF Surjection
  <1>5. IsFiniteSet(Range(s))
    BY <1>3, <1>4, FS_Surjection
  <1>. QED BY <1>1, <1>2, <1>5

\* At most one from each part.
LEMMA ConcatShort ==
  ASSUME NEW T, NEW ss \in Seq(Seq(T)), \A i \in 1..Len(ss) : Len(ss[i]) =< 1
  PROVE  Len(Concat(ss)) =< Len(ss)
  <1>0. Len(ss) \in Nat
    OBVIOUS
  <1>1. PICK f \in [0..Len(ss) -> Seq(T)] :
           /\ f[0] = <<>> /\ \A i \in 1..Len(ss) : f[i] = f[i - 1] \o ss[i]
           /\ Concat(ss) = f[Len(ss)]
    BY CatIs
  <1>. DEFINE Short == {i \in 0..Len(ss) : Len(f[i]) =< i}
  <1>2. 0 \in Short
    BY <1>0, <1>1
  <1>3. ASSUME NEW i \in 1..Len(ss), i - 1 \in Short PROVE i \in Short
    <2>0. i - 1 \in 0..Len(ss) /\ i \in 0..Len(ss)
      BY <1>0
    <2>1. f[i - 1] \in Seq(T) /\ ss[i] \in Seq(T)
      <3>1. f[i - 1] \in Seq(T)
        BY <1>1, <2>0, Zenon
      <3>2. ss[i] \in Seq(T)
        OBVIOUS
      <3>. QED BY <3>1, <3>2
    <2>2. Len(f[i]) = Len(f[i - 1]) + Len(ss[i])
      <3>. DEFINE x == f[i - 1]
                  y == ss[i]
      <3>1. f[i] = x \o y /\ x \in Seq(T) /\ y \in Seq(T)
        BY <1>1, <2>1
      <3>. HIDE DEF x, y
      <3>2. Len(f[i]) = Len(x) + Len(y)
        BY <3>1, ConcatProperties
      <3>. QED BY <3>2 DEF x, y
    <2>3. Len(f[i - 1]) \in Nat /\ Len(ss[i]) \in Nat /\ Len(ss[i]) =< 1 /\ Len(f[i - 1]) =< i - 1
      BY <1>3, <2>1
    <2>4. Len(f[i]) =< i
      <3>. DEFINE m == Len(f[i - 1])
                  n == Len(ss[i])
      <3>1. m \in Nat /\ n \in Nat /\ n =< 1 /\ m =< i - 1 /\ Len(f[i]) = m + n
        BY <2>2, <2>3
      <3>. HIDE DEF m, n
      <3>. QED BY <3>1
    <2>. QED BY <2>0, <2>4
  <1>. HIDE DEF Short
  <1>4. 0..Len(ss) \subseteq Short
    BY <1>0, <1>2, <1>3, UpTo
  <1>5. Len(ss) \in Short
    BY <1>0, <1>4
  <1>. QED BY <1>1, <1>5 DEF Short

\* What a flush of b writes one by one, and what it leaves for the container.
Ones(b)  == [i \in DOMAIN b |-> IF IsSingle(b[i]) THEN Single(b[i]) ELSE <<>>]
Rests(b) == [i \in DOMAIN b |-> IF IsSingle(b[i]) THEN <<>> ELSE <<b[i]>>]

LEMMA FlushesTail ==
  ASSUME NEW s \in Flushes, s # <<>>
  PROVE  /\ s \in Seq(Job) /\ Head(s) \in Job /\ Tail(s) \in Flushes
         /\ Head(s).recs = <<>> /\ Head(s).d = "tel" =>
              Tail(s) # <<>> /\ Head(Tail(s)).recs = <<>> /\ Tail(Tail(s)) \in Flushes
  <1>1. s \in Seq(Job) /\ Len(s) \in Nat /\ Len(s) > 0 /\ Head(s) \in Job /\ Head(s) = s[1]
    BY DEF Flushes
  <1>2. ASSUME NEW t \in Flushes, t # <<>> PROVE Tail(t) \in Flushes
    <2>1. t \in Seq(Job) /\ Tail(t) \in Seq(Job) /\ Len(t) \in Nat /\ Len(t) > 0
          /\ Len(Tail(t)) = Len(t) - 1 /\ \A i \in 1..(Len(t) - 1) : Tail(t)[i] = t[i + 1]
      BY <1>2 DEF Flushes
    <2>2. ASSUME NEW i \in 1..Len(Tail(t)), Tail(t)[i].recs = <<>>, Tail(t)[i].d = "tel"
          PROVE  i < Len(Tail(t)) /\ Tail(t)[i + 1].recs = <<>>
      <3>1. i + 1 \in 1..Len(t) /\ Tail(t)[i] = t[i + 1]
        BY <2>1
      <3>2. i + 1 < Len(t) /\ t[(i + 1) + 1].recs = <<>>
        BY <2>2, <3>1 DEF Flushes
      <3>3. i + 1 \in 1..(Len(t) - 1)
        BY <2>1, <3>2
      <3>. QED BY <2>1, <3>2, <3>3
    <2>. QED BY <2>1, <2>2 DEF Flushes
  <1>3. Tail(s) \in Flushes
    BY <1>2
  <1>4. ASSUME Head(s).recs = <<>>, Head(s).d = "tel"
        PROVE  Tail(s) # <<>> /\ Head(Tail(s)).recs = <<>>
    <2>1. 1 \in 1..Len(s)
      BY <1>1
    <2>2. 1 < Len(s) /\ s[1 + 1].recs = <<>>
      BY <1>1, <1>4, <2>1 DEF Flushes
    <2>3. Len(Tail(s)) > 0 /\ Head(Tail(s)) = s[2]
      BY <1>1, <2>2
    <2>4. Tail(s) # <<>>
      <3>1. Len(<<>>) = 0 /\ ~(0 > 0)
        OBVIOUS
      <3>. QED BY <2>3, <3>1, Zenon
    <2>5. s[2].recs = <<>>
      BY <2>2
    <2>. QED BY <2>3, <2>4, <2>5, Zenon
  <1>. QED BY <1>1, <1>2, <1>3, <1>4

LEMMA FlushesMore ==
  ASSUME NEW j \in Full, NEW s \in Flushes
  PROVE  <<j>> \o s \in Flushes
  <1>. DEFINE t == <<j>> \o s
  <1>1. /\ t \in Seq(Job) /\ Len(t) = Len(s) + 1 /\ t[1] = j /\ Len(s) \in Nat
        /\ \A i \in 2..Len(t) : t[i] = s[i - 1]
    BY DEF Flushes, Full
  <1>. HIDE DEF t
  <1>2. ASSUME NEW i \in 1..Len(t), t[i].recs = <<>>, t[i].d = "tel"
        PROVE  i < Len(t) /\ t[i + 1].recs = <<>>
    <2>1. i # 1
      BY <1>1, <1>2 DEF Full
    <2>2. i - 1 \in 1..Len(s) /\ t[i] = s[i - 1]
      BY <1>1, <2>1
    <2>3. i - 1 < Len(s) /\ s[(i - 1) + 1].recs = <<>>
      BY <1>2, <2>2 DEF Flushes
    <2>4. i + 1 \in 2..Len(t) /\ (i + 1) - 1 = (i - 1) + 1
      BY <1>1, <2>3
    <2>5. t[i + 1] = s[(i - 1) + 1]
      BY <1>1, <2>4
    <2>. QED BY <1>1, <2>3, <2>5
  <1>. QED BY <1>1, <1>2 DEF Flushes, t

LEMMA JobsAre ==
  ASSUME NEW b \in Seq(Rec), Len(b) <= BatchCap
  PROVE  /\ Ones(b) \in Seq(Seq(Full)) /\ Rests(b) \in Seq(Seq(Rec))
         /\ Len(Ones(b)) = Len(b) /\ Len(Rests(b)) = Len(b)
         /\ Concat(Ones(b)) \in Seq(Full) /\ Concat(Rests(b)) \in Seq(Rec)
         /\ Container(Concat(Rests(b))) \in Seq(Full)
         /\ FlushJobs(b) \in Flushes
         /\ FlushJobs(b) = <<DropJob("tel"), DropJob("txt")>> \o Concat(Ones(b))
                             \o Container(Concat(Rests(b)))
  <1>1. ASSUME NEW rec \in Rec
        PROVE  <<rec>> \in Seq(Rec) /\ Dest(rec) \in Dests /\ Other(Dest(rec)) \in Dests
               /\ Single(rec) \in Seq(Full) /\ Len(<<rec>>) = 1
    <2>1. <<rec>> \in Seq(Rec) /\ Len(<<rec>>) = 1 /\ Dest(rec) \in Dests
            /\ Other(Dest(rec)) \in Dests
      BY DEF Dest, Other, Dests
    <2>2. \A d \in Dests, k \in BOOLEAN : [d |-> d, recs |-> <<rec>>, key |-> k] \in Full
      <3>. DEFINE s == <<rec>>
      <3>1. s # <<>> /\ s \in {t \in Seq(Rec) : Len(t) <= BatchCap}
        BY <2>1, LogSizes
      <3>. HIDE DEF s
      <3>2. \A d \in Dests, k \in BOOLEAN : [d |-> d, recs |-> s, key |-> k] \in Full
        BY <3>1 DEF Job, Full
      <3>. QED BY <3>2 DEF s
    <2>3. \A x \in Full, y \in Full : <<x>> \in Seq(Full) /\ <<x, y>> \in Seq(Full)
      OBVIOUS
    <2>4. TRUE \in BOOLEAN /\ FALSE \in BOOLEAN
      OBVIOUS
    <2>5. /\ [d |-> Dest(rec), recs |-> <<rec>>, key |-> FALSE] \in Full
          /\ [d |-> Other(Dest(rec)), recs |-> <<rec>>, key |-> TRUE] \in Full
      BY <2>1, <2>2, <2>4
    <2>6. Single(rec) \in Seq(Full)
      BY <2>3, <2>5, Zenon DEF Single
    <2>. QED BY <2>1, <2>6
  <1>2. Len(b) \in Nat /\ b \in [1..Len(b) -> Rec] /\ DOMAIN b = 1..Len(b)
    OBVIOUS
  <1>3. Ones(b) \in Seq(Seq(Full)) /\ Len(Ones(b)) = Len(b)
    <2>. DEFINE g(i) == IF IsSingle(b[i]) THEN Single(b[i]) ELSE <<>>
    <2>1. \A i \in 1..Len(b) : g(i) \in Seq(Full)
      BY <1>1, <1>2
    <2>2. Ones(b) = [i \in 1..Len(b) |-> g(i)]
      BY <1>2 DEF Ones
    <2>. HIDE DEF g
    <2>. QED BY <1>2, <2>1, <2>2
  <1>4. Rests(b) \in Seq(Seq(Rec)) /\ Len(Rests(b)) = Len(b)
        /\ \A i \in 1..Len(b) : Len(Rests(b)[i]) =< 1
    <2>. DEFINE g(i) == IF IsSingle(b[i]) THEN <<>> ELSE <<b[i]>>
    <2>1. \A i \in 1..Len(b) : g(i) \in Seq(Rec) /\ Len(g(i)) =< 1
      BY <1>1, <1>2
    <2>2. Rests(b) = [i \in 1..Len(b) |-> g(i)]
      BY <1>2 DEF Rests
    <2>. HIDE DEF g
    <2>. QED BY <1>2, <2>1, <2>2
  <1>5. Concat(Ones(b)) \in Seq(Full)
    BY <1>3, ConcatType
  <1>6. Concat(Rests(b)) \in Seq(Rec) /\ Len(Concat(Rests(b))) =< BatchCap
    <2>1. Concat(Rests(b)) \in Seq(Rec)
      BY <1>4, ConcatType
    <2>2. Len(Concat(Rests(b))) =< Len(b)
      BY <1>4, ConcatShort
    <2>3. Len(Concat(Rests(b))) \in Nat
      BY <2>1
    <2>. QED BY <1>2, <2>1, <2>2, <2>3, LogSizes
  <1>7. Container(Concat(Rests(b))) \in Seq(Full)
    <2>. DEFINE c == Concat(Rests(b))
    <2>1. c \in {s \in Seq(Rec) : Len(s) <= BatchCap}
      BY <1>6
    <2>. HIDE DEF c
    <2>2. c # <<>> => [d |-> "tel", recs |-> c, key |-> FALSE] \in Full
      BY <2>1 DEF Job, Dests, Full
    <2>. QED BY <2>2 DEF Container, c
  <1>8. DropJob("tel") \in Job /\ DropJob("txt") \in Job /\ DropJob("txt").recs = <<>>
        /\ DropJob("txt").d = "txt"
    BY LogSizes DEF DropJob, Job, Dests
  <1>9. FlushJobs(b) = <<DropJob("tel"), DropJob("txt")>> \o Concat(Ones(b))
                             \o Container(Concat(Rests(b)))
    BY DEF FlushJobs, Ones, Rests
  <1>10. FlushJobs(b) \in Flushes
    <2>. DEFINE x == DropJob("tel")
                w == DropJob("txt")
                y == Concat(Ones(b))
                z == Container(Concat(Rests(b)))
                t == (<<x, w>> \o y) \o z
                F == Full
    <2>0. F \subseteq Job /\ \A j \in F : j.recs # <<>>
      BY DEF Full
    <2>1. x \in Job /\ w \in Job /\ y \in Seq(F) /\ z \in Seq(F) /\ w.d # "tel" /\ w.recs = <<>>
      BY <1>5, <1>7, <1>8
    <2>2. FlushJobs(b) = t
      BY <1>9
    <2>. HIDE DEF x, y, z, w, F
    <2>3. y \in Seq(Job) /\ z \in Seq(Job) /\ y \o z \in Seq(F) /\ t = <<x, w>> \o (y \o z)
      BY <2>0, <2>1
    <2>4. t \in Seq(Job) /\ Len(t) = 2 + Len(y \o z) /\ t[1] = x /\ t[2] = w
          /\ Len(y \o z) \in Nat /\ \A i \in 3..Len(t) : t[i] = (y \o z)[i - 2]
      BY <2>1, <2>3
    <2>. HIDE DEF t
    <2>5. ASSUME NEW i \in 1..Len(t), t[i].recs = <<>>, t[i].d = "tel"
          PROVE  i < Len(t) /\ t[i + 1].recs = <<>>
      <3>1. i \notin 3..Len(t)
        <4>. SUFFICES ASSUME i \in 3..Len(t) PROVE FALSE
          OBVIOUS
        <4>1. i - 2 \in 1..Len(y \o z)
          BY <2>4
        <4>2. (y \o z)[i - 2] \in F
          BY <2>3, <4>1
        <4>. QED BY <2>0, <2>4, <2>5, <4>2
      <3>2. i # 2
        BY <2>1, <2>4, <2>5
      <3>3. i = 1
        BY <2>4, <3>1, <3>2
      <3>. QED BY <2>1, <2>4, <3>3
    <2>. QED BY <2>2, <2>4, <2>5 DEF Flushes
  <1>. QED BY <1>3, <1>4, <1>5, <1>6, <1>7, <1>9, <1>10

LEMMA TypeInit == Init => FlashType
  <1>. SUFFICES ASSUME Init PROVE FlashType
    OBVIOUS
  <1>1. NoRec \in Rec
    BY DEF NoRec, Rec, Plain
  <1>2. [offers |-> MaxOffers, trouble |-> MaxTrouble] \in [offers : 0..MaxOffers, trouble : Nat]
    BY LogSizes
  <1>3. IsFiniteSet({})
    BY FS_EmptySet
  <1>4. /\ <<>> \in Seq(Rec) /\ Len(<<>>) <= BatchCap /\ <<>> \in Flushes
        /\ [d \in Dests |-> 0] \in [Dests -> Nat] /\ [d \in Dests |-> {}] \in [Dests -> SUBSET Rec]
        /\ [ram |-> 0, nv |-> 1] \in [ram : Nat, nv : Nat]
    BY LogSizes DEF Flushes
  <1>5. /\ boot = "tel" /\ mounted = {} /\ bootId = [ram |-> 0, nv |-> 1]
        /\ q = <<>> /\ drops = [d \in Dests |-> 0] /\ batch = <<>> /\ held = NoRec
        /\ pc = "top" /\ jobs = <<>> /\ boots = 0 /\ offered = {} /\ faulty = FALSE
        /\ budget = [offers |-> MaxOffers, trouble |-> MaxTrouble]
        /\ gone = [d \in Dests |-> {}] /\ ruined = FALSE /\ wipes = [d \in Dests |-> 0]
    BY DEF Init
  <1>6. \A d \in Dests : IsFiniteSet(gone[d])
    BY <1>3, <1>5
  <1>. QED BY <1>1, <1>2, <1>3, <1>4, <1>5, <1>6 DEF FlashType

LEMMA Spends ==
  ASSUME FlashType, NEW b \in {"offers", "trouble"}, Spend(b)
  PROVE  /\ budget' \in [offers : 0..MaxOffers, trouble : Nat]
         /\ b = "offers" => budget.offers > 0 /\ budget'.offers = budget.offers - 1
         /\ b = "trouble" => budget'.offers = budget.offers
  BY LogSizes DEF FlashType, Spend

LEMMA OfferedIs ==
  ASSUME FlashType
  PROVE  /\ budget.offers > 0 => Telemetry \in Rec /\ DiveMarker \in Rec /\ Text \in Rec
              /\ NextNo \in Nat
         /\ [k |-> "boot", n |-> bootId.ram, in |-> boots] \in Rec
  <1>1. budget.offers \in 0..MaxOffers /\ bootId.ram \in Nat /\ boots \in Nat
    BY DEF FlashType
  <1>2. NextNo \in Nat
    BY <1>1, LogSizes DEF NextNo
  <1>3. Telemetry \in Rec /\ DiveMarker \in Rec /\ Text \in Rec
    BY <1>2 DEF Telemetry, DiveMarker, Text, Rec, Plain
  <1>4. [k |-> "boot", n |-> bootId.ram, in |-> boots] \in BootRec
    BY <1>1 DEF BootRec
  <1>. QED BY <1>2, <1>3, <1>4 DEF Rec

LEMMA EnqueueType ==
  ASSUME FlashType, NEW rec \in Rec, fl_enqueue(rec)
  PROVE  q' \in Seq(Rec) /\ drops' \in [Dests -> Nat]
  <1>1. q \in Seq(Rec) /\ drops \in [Dests -> Nat]
    BY DEF FlashType
  <1>2. CASE Len(q) < QueueDepth
    BY <1>1, <1>2 DEF fl_enqueue
  <1>3. CASE ~(Len(q) < QueueDepth)
    <2>1. q' = q /\ drops' = [drops EXCEPT ![Dest(rec)] = @ + 1]
      BY <1>3 DEF fl_enqueue
    <2>2. Dest(rec) \in Dests
      BY DEF Dest, Dests
    <2>. QED BY <1>1, <2>1, <2>2
  <1>. QED BY <1>2, <1>3

LEMMA FlushType ==
  ASSUME NEW b \in Seq(Rec), Len(b) <= BatchCap, BeginFlush(b)
  PROVE  pc' \in {"top", "get", "flush"} /\ jobs' \in Flushes
  <1>1. <<>> \in Flushes
    BY DEF Flushes
  <1>2. FlushJobs(b) \in Flushes
    BY JobsAre
  <1>. QED BY <1>1, <1>2 DEF BeginFlush

LEMMA WipesMore ==
  ASSUME wipes \in [Dests -> Nat], NEW d \in Dests,
         wipes' = wipes \/ wipes' = [wipes EXCEPT ![d] = @ + 1]
  PROVE  wipes' \in [Dests -> Nat]
  OBVIOUS

LEMMA TypeMain == FlashType /\ MainStep => FlashType'
  <1>. SUFFICES ASSUME FlashType, MainStep PROVE FlashType'
    OBVIOUS
  <1>. USE DEF FlashType
  <1>1. /\ UNCHANGED <<queuevars, writer, lock, indexvars, eraser, saver, holder, boots, offered,
             gone, ruined>>
        /\ (\E d \in Dests : Mount(d) \/ MountRecovers(d)) \/ CountBoot
    BY DEF MainStep
  <1>2. ASSUME NEW d \in Dests, Mount(d) PROVE FlashType'
    BY <1>1, <1>2 DEF Mount, NextBoot, queuevars, writer, media
  <1>3. ASSUME NEW d \in Dests, MountRecovers(d) PROVE FlashType'
    <2>1. budget' \in [offers : 0..MaxOffers, trouble : Nat]
      BY <1>3, Spends DEF MountRecovers
    <2>2. mounted' \subseteq Dests /\ wipes' \in [Dests -> Nat]
      <3>1. Erased(d) \/ ErasedInPart(d)
        BY <1>3 DEF MountRecovers
      <3>2. mounted' \in {mounted, mounted \cup {d}}
            /\ (wipes' = wipes \/ wipes' = [wipes EXCEPT ![d] = @ + 1])
        <4>1. Erased(d) => mounted' \in {mounted, mounted \cup {d}} /\ wipes' = wipes
          BY DEF Erased
        <4>2. ErasedInPart(d) => mounted' \in {mounted, mounted \cup {d}}
                                  /\ wipes' = [wipes EXCEPT ![d] = @ + 1]
          BY Zenon DEF ErasedInPart
        <4>. QED BY <3>1, <4>1, <4>2
      <3>3. mounted \subseteq Dests /\ wipes \in [Dests -> Nat]
        OBVIOUS
      <3>4. mounted' \subseteq Dests
        BY <3>2, <3>3
      <3>5. wipes' \in [Dests -> Nat]
        BY <3>2, <3>3, WipesMore
      <3>. QED BY <3>4, <3>5
    <2>3. boot = d /\ boot' = NextBoot /\ faulty' = TRUE /\ bootId' = bootId
      BY <1>3 DEF MountRecovers
    <2>4. boot' # "tel" /\ (boot' = "txt" => "txt" \notin mounted')
      <3>1. mounted' \subseteq mounted \cup {d}
        <4>1. Erased(d) => mounted' \subseteq mounted \cup {d}
          BY DEF Erased
        <4>2. ErasedInPart(d) => mounted' \subseteq mounted \cup {d}
          <5>1. ErasedInPart(d) => mounted' = mounted \/ mounted' = mounted \cup {d}
            BY Zenon DEF ErasedInPart
          <5>. QED BY <5>1
        <4>. QED BY <1>3, <4>1, <4>2 DEF MountRecovers
      <3>2. boot = "tel" \/ boot = "txt"
        BY <2>3 DEF Dests
      <3>3. boot = "tel" => mounted = {}
        OBVIOUS
      <3>. QED BY <2>3, <3>1, <3>2, <3>3 DEF NextBoot
    <2>. QED BY <1>1, <2>1, <2>2, <2>3, <2>4 DEF NextBoot, queuevars, writer
  <1>4. ASSUME CountBoot PROVE FlashType'
    <2>1. budget' \in [offers : 0..MaxOffers, trouble : Nat] /\ faulty' \in BOOLEAN
      BY <1>4, Spends DEF CountBoot
    <2>2. bootId' \in [ram : Nat, nv : Nat] /\ boot' = "marker" /\ mounted' = mounted
            /\ wipes' = wipes
      BY <1>4 DEF CountBoot, media
    <2>. QED BY <1>1, <2>1, <2>2 DEF queuevars, writer
  <1>. QED BY <1>1, <1>2, <1>3, <1>4

LEMMA TypeProduce == FlashType /\ Produce => FlashType'
  <1>. SUFFICES ASSUME FlashType, Produce PROVE FlashType'
    OBVIOUS
  <1>1. /\ UNCHANGED <<writer, ring, wipes, lock, indexvars, eraser, flagvars, boots, gone, faulty,
                       ruined>>
        /\ RecordBootMarker \/ OfferEarly \/ Offer(Telemetry) \/ Offer(DiveMarker) \/ Offer(Text)
    BY DEF Produce, Listeners, TextBackend, media
  <1>2. CASE RecordBootMarker
    <2>. DEFINE m == [k |-> "boot", n |-> bootId.ram, in |-> boots]
    <2>1. m \in Rec
      BY OfferedIs
    <2>2. fl_enqueue(m) /\ offered' = offered \cup {m} /\ boot' = "up"
          /\ UNCHANGED <<budget, mounted, bootId>>
      BY <1>2 DEF RecordBootMarker
    <2>. HIDE DEF m
    <2>3. q' \in Seq(Rec) /\ drops' \in [Dests -> Nat]
      BY <2>1, <2>2, EnqueueType
    <2>4. IsFiniteSet(offered \cup {m})
      BY FS_AddElement DEF FlashType
    <2>. QED BY <1>1, <2>1, <2>2, <2>3, <2>4 DEF FlashType, writer, flagvars
  <1>3. CASE OfferEarly
    <2>1. budget' \in [offers : 0..MaxOffers, trouble : Nat]
      BY <1>3, Spends DEF OfferEarly
    <2>. QED BY <1>1, <1>3, <2>1 DEF OfferEarly, FlashType, writer, flagvars, bootvars, queuevars
  <1>4. ASSUME NEW rec, rec \in {Telemetry, DiveMarker, Text}, Offer(rec) PROVE FlashType'
    <2>1. budget' \in [offers : 0..MaxOffers, trouble : Nat] /\ budget.offers > 0
      BY <1>4, Spends DEF Offer
    <2>2. rec \in Rec
      BY <1>4, <2>1, OfferedIs
    <2>3. fl_enqueue(rec) /\ offered' = offered \cup {rec} /\ UNCHANGED bootvars
      BY <1>4 DEF Offer
    <2>4. q' \in Seq(Rec) /\ drops' \in [Dests -> Nat]
      BY <2>2, <2>3, EnqueueType
    <2>5. IsFiniteSet(offered \cup {rec})
      BY FS_AddElement DEF FlashType
    <2>. QED BY <1>1, <2>1, <2>2, <2>3, <2>4, <2>5 DEF FlashType, writer, flagvars, bootvars
  <1>. QED BY <1>1, <1>2, <1>3, <1>4

LEMMA TypeMoves == FlashType /\ WriterMoves => FlashType'
  <1>. SUFFICES ASSUME FlashType, WriterMoves PROVE FlashType'
    OBVIOUS
  <1>1. /\ UNCHANGED <<bootvars, flagvars, ring, media, lock, indexvars, eraser, budget, history>>
        /\ CheckPause \/ TakeSlot \/ WaitEnds \/ EndFlush
    BY DEF WriterMoves
  <1>2. /\ q \in Seq(Rec) /\ batch \in Seq(Rec) /\ Len(batch) <= BatchCap /\ held \in Rec
        /\ jobs \in Flushes /\ drops \in [Dests -> Nat] /\ pc \in {"top", "get", "flush"}
    BY DEF FlashType
  <1>3. NoRec \in Rec
    BY DEF NoRec, Rec, Plain
  <1>. DEFINE W == /\ q' \in Seq(Rec) /\ drops' \in [Dests -> Nat]
                   /\ batch' \in Seq(Rec) /\ Len(batch') <= BatchCap /\ held' \in Rec
                   /\ pc' \in {"top", "get", "flush"} /\ jobs' \in Flushes
  <1>4. ASSUME CheckPause PROVE W
    BY <1>2, <1>4 DEF CheckPause, queuevars
  <1>5. ASSUME TakeSlot PROVE W
    <2>1. Head(q) \in Rec /\ Tail(q) \in Seq(Rec) /\ q' = Tail(q) /\ drops' = drops
      BY <1>2, <1>5 DEF TakeSlot
    <2>2. CASE BatchTakes
      <3>1. /\ batch' = Append(batch, Head(q)) /\ held' = held
            /\ BeginFlush(batch') \/ (pc' = "top" /\ jobs' = jobs)
        BY <1>5, <2>2 DEF TakeSlot, EndRound
      <3>2. batch' \in Seq(Rec) /\ Len(batch') <= BatchCap
        BY <1>2, <2>1, <2>2, <3>1, LogSizes DEF BatchTakes
      <3>3. pc' \in {"top", "get", "flush"} /\ jobs' \in Flushes
        BY <1>2, <3>1, <3>2, FlushType
      <3>. QED BY <1>2, <2>1, <3>1, <3>2, <3>3
    <2>3. CASE ~BatchTakes
      <3>1. batch' = batch /\ held' = Head(q) /\ BeginFlush(batch)
        BY <1>5, <2>3 DEF TakeSlot
      <3>2. pc' \in {"top", "get", "flush"} /\ jobs' \in Flushes
        BY <1>2, <3>1, FlushType
      <3>. QED BY <1>2, <2>1, <3>1, <3>2
    <2>. QED BY <2>2, <2>3
  <1>6. ASSUME WaitEnds PROVE W
    <2>1. UNCHANGED <<q, drops, batch, held>>
            /\ (BeginFlush(batch) \/ (pc' = "top" /\ jobs' = jobs))
      BY <1>6 DEF WaitEnds, EndRound, queuevars
    <2>2. pc' \in {"top", "get", "flush"} /\ jobs' \in Flushes
      BY <1>2, <2>1, FlushType
    <2>. QED BY <1>2, <2>1, <2>2
  <1>7. ASSUME EndFlush PROVE W
    <2>1. /\ UNCHANGED <<q, drops>> /\ held' = NoRec
          /\ \/ batch' = <<>> /\ pc' = "top" /\ jobs' = jobs
             \/ batch' = <<held>> /\ (BeginFlush(batch') \/ (pc' = "top" /\ jobs' = jobs))
      BY <1>7 DEF EndFlush, queuevars
    <2>2. batch' \in Seq(Rec) /\ Len(batch') <= BatchCap
      <3>1. <<>> \in Seq(Rec) /\ Len(<<>>) <= BatchCap /\ <<held>> \in Seq(Rec)
              /\ Len(<<held>>) <= BatchCap
        BY <1>2, LogSizes
      <3>. QED BY <2>1, <3>1
    <2>3. pc' \in {"top", "get", "flush"} /\ jobs' \in Flushes
      BY <1>2, <2>1, <2>2, FlushType
    <2>. QED BY <1>2, <1>3, <2>1, <2>2, <2>3
  <1>8. W
    BY <1>1, <1>4, <1>5, <1>6, <1>7
  <1>9. UNCHANGED <<boot, mounted, bootId, budget, boots, offered, gone, faulty, ruined, wipes>>
    BY <1>1 DEF bootvars, history, media
  <1>. QED BY <1>8, <1>9 DEF FlashType

\* The entry a flush is about to write.
LEMMA HeadJob ==
  ASSUME FlashType, jobs # <<>>
  PROVE  /\ Head(jobs) \in Job /\ Tail(jobs) \in Flushes /\ Target \in Dests
         /\ Head(jobs).recs \in Seq(Rec) /\ Len(Head(jobs).recs) <= BatchCap
  <1>1. Head(jobs) \in Job /\ Tail(jobs) \in Flushes
    BY FlushesTail DEF FlashType
  <1>. QED BY <1>1 DEF Job, Target

LEMMA EntryIs ==
  ASSUME FlashType, Writing, NEW ok \in BOOLEAN
  PROVE  /\ Entry(ok) \in LogEntry /\ Entry(ok).ok = ok /\ Entry(ok).recs = Head(jobs).recs
         /\ Entry(ok).n = Entry(TRUE).n /\ Entry(ok).n = 1 + Len(Head(jobs).recs)
  <1>1. /\ Head(jobs).recs \in Seq(Rec) /\ Len(Head(jobs).recs) <= BatchCap
        /\ Head(jobs).recs # <<>>
    BY HeadJob DEF Writing
  <1>. DEFINE s == Head(jobs).recs
  <1>2. Len(s) \in Nat /\ Len(s) > 0
    BY <1>1
  <1>3. 1 + Len(s) \in Nat /\ 1 + Len(s) > 1 /\ 1 + Len(s) <= Cap
    BY <1>1, <1>2, LogSizes
  <1>4. Entry(ok) = [recs |-> s, n |-> 1 + Len(s), ok |-> ok]
        /\ Entry(TRUE) = [recs |-> s, n |-> 1 + Len(s), ok |-> TRUE]
    BY DEF Entry, Size
  <1>. HIDE DEF s
  <1>5. Entry(ok) \in LogEntry
    BY <1>1, <1>3, <1>4 DEF LogEntry, s
  <1>6. Entry(ok).ok = ok /\ Entry(ok).recs = s /\ Entry(ok).n = 1 + Len(s)
        /\ Entry(TRUE).n = 1 + Len(s)
    BY DEF Entry, Size, s
  <1>. QED BY <1>5, <1>6 DEF s

LEMMA ExpiredIs ==
  ASSUME NEW r, Sound(r)
  PROVE  /\ IsFiniteSet(Expired(r)) /\ Expired(r) \in SUBSET Rec
         /\ Range(Stored(r)) = Expired(r) \cup Range(Stored(Rotate(r)))
  <1>. DEFINE x == Recs(Whole(r.sec[r.old]))
              y == Stored(Rotate(r))
  <1>1. x \in Seq(Rec) /\ y \in Seq(Rec) /\ Stored(r) = x \o y /\ Expired(r) = Range(x)
    BY RotateSound DEF Expired
  <1>. HIDE DEF x, y
  <1>2. IsFiniteSet(Range(x)) /\ Range(x) \in SUBSET Rec
    BY <1>1, RangeFinite
  <1>3. Range(x \o y) = Range(x) \cup Range(y)
    BY <1>1, RangeConcatenation
  <1>. QED BY <1>1, <1>2, <1>3 DEF y

LEMMA TypeWrites == FlashType /\ RingsSound /\ (CountDrops \/ MakeRoom \/ WriteEntry \/ WriteFails)
                      => FlashType'
  <1>. SUFFICES ASSUME FlashType, RingsSound, CountDrops \/ MakeRoom \/ WriteEntry \/ WriteFails
                PROVE  FlashType'
    OBVIOUS
  <1>1. CASE CountDrops
    <2>1. /\ UNCHANGED <<bootvars, flagvars, q, batch, held, pc, ring, media, lock, indexvars,
                         eraser, budget, history>> /\ jobs # <<>>
      BY <1>1 DEF CountDrops
    <2>. DEFINE d == Head(jobs).d
                marker == [k |-> "drop", n |-> drops[d], at |-> Cardinality(offered), in |-> boots]
    <2>2. d \in Dests /\ Tail(jobs) \in Flushes
      BY <2>1, HeadJob DEF Target
    <2>3. marker \in Rec
      <3>1. Cardinality(offered) \in Nat /\ drops[d] \in Nat /\ boots \in Nat
        BY <2>2, FS_CardinalityType DEF FlashType
      <3>. HIDE DEF d
      <3>2. marker \in DropRec
        BY <3>1 DEF DropRec
      <3>. HIDE DEF marker
      <3>. QED BY <3>2 DEF Rec
    <2>4. CASE drops[d] > 0
      <3>1. /\ drops' = [drops EXCEPT ![d] = 0]
            /\ jobs' = <<[d |-> d, recs |-> <<marker>>, key |-> FALSE]>> \o Tail(jobs)
        BY <1>1, <2>4 DEF CountDrops
      <3>. HIDE DEF marker, d
      <3>2. [d |-> d, recs |-> <<marker>>, key |-> FALSE] \in Full
        <4>1. <<marker>> \in {s \in Seq(Rec) : Len(s) <= BatchCap} /\ <<marker>> # <<>>
          BY <2>3, LogSizes
        <4>. QED BY <2>2, <4>1 DEF Job, Full
      <3>3. drops' \in [Dests -> Nat] /\ jobs' \in Flushes
        BY <2>2, <3>1, <3>2, FlushesMore DEF FlashType
      <3>. QED BY <2>1, <3>3 DEF FlashType, bootvars, history, media
    <2>5. CASE ~(drops[d] > 0)
      <3>1. drops' = drops /\ Head(jobs).recs = <<>>
            /\ (jobs' = Tail(jobs) \/ (jobs' = Tail(Tail(jobs)) /\ Head(jobs).d = "tel"))
        BY <1>1, <2>5 DEF CountDrops
      <3>2. jobs' \in Flushes
        BY <2>1, <2>2, <3>1, FlushesTail DEF FlashType
      <3>. QED BY <2>1, <3>1, <3>2 DEF FlashType, bootvars, history, media
    <2>. QED BY <2>4, <2>5
  <1>2. CASE MakeRoom
    <2>1. /\ UNCHANGED <<bootvars, flagvars, queuevars, writer, wipes, indexvars, eraser, budget,
                         boots, offered, faulty, ruined>>
          /\ gone' = [gone EXCEPT ![Target] = @ \cup Expired(ring[Target])] /\ Writing
      BY <1>2 DEF MakeRoom, Overflows
    <2>2. Target \in Dests /\ IsFiniteSet(Expired(ring[Target]))
            /\ Expired(ring[Target]) \in SUBSET Rec
      <3>1. Target \in Dests
        BY <2>1, HeadJob DEF Writing
      <3>. QED BY <3>1, ExpiredIs DEF RingsSound
    <2>3. gone' \in [Dests -> SUBSET Rec] /\ \A d \in Dests : IsFiniteSet(gone'[d])
      <3>1. IsFiniteSet(gone[Target] \cup Expired(ring[Target]))
        BY <2>2, FS_Union DEF FlashType
      <3>. QED BY <2>1, <2>2, <3>1 DEF FlashType
    <2>. QED BY <2>1, <2>3 DEF FlashType, bootvars, queuevars, writer
  <1>3. CASE WriteEntry
    <2>1. UNCHANGED <<bootvars, flagvars, queuevars, batch, held, pc, media, eraser, budget, boots,
                      offered, gone, faulty>>
          /\ jobs' = Tail(jobs) /\ jobs # <<>>
      BY <1>3 DEF WriteEntry, Takes, Writing
    <2>. QED BY <2>1, HeadJob DEF FlashType, bootvars, queuevars, media
  <1>4. CASE WriteFails
    <2>1. UNCHANGED <<bootvars, flagvars, queuevars, batch, held, pc, media, eraser, boots, offered,
                      gone, ruined>>
          /\ jobs' = Tail(jobs) /\ jobs # <<>> /\ faulty' = TRUE
          /\ (budget' = budget \/ Spend("trouble"))
      BY <1>4 DEF WriteFails, Writing
    <2>2. budget' \in [offers : 0..MaxOffers, trouble : Nat]
      BY <2>1, Spends DEF FlashType
    <2>. QED BY <2>1, <2>2, HeadJob DEF FlashType, bootvars, queuevars, media
  <1>. QED BY <1>1, <1>2, <1>3, <1>4

LEMMA TypeFlag == FlashType /\ FlagStep => FlashType'
  <1>. SUFFICES ASSUME FlashType, FlagStep PROVE FlashType'
    OBVIOUS
  <1>1. UNCHANGED <<bootvars, queuevars, writer, ring, media, lock, indexvars, eraser, history>>
        /\ (budget' = budget \/ Spend("trouble"))
    BY DEF FlagStep, Pause, Resume, BeginSave, EndSave
  <1>2. budget' \in [offers : 0..MaxOffers, trouble : Nat]
    BY <1>1, Spends DEF FlashType
  <1>. QED BY <1>1, <1>2 DEF FlashType, bootvars, queuevars, writer, history, media

LEMMA TypeErase == FlashType /\ RingsSound /\ EraseStep => FlashType'
  <1>. SUFFICES ASSUME FlashType, RingsSound, EraseStep PROVE FlashType'
    OBVIOUS
  <1>1. UNCHANGED <<bootvars, queuevars, writer, saver, holder, wipes, boots, offered, ruined>>
        /\ (BeginErase \/ EraseSector \/ EraseNext \/ EndErase)
    BY DEF EraseStep
  <1>2. budget' \in [offers : 0..MaxOffers, trouble : Nat] /\ faulty' \in BOOLEAN
    <2>1. (budget' = budget \/ Spend("trouble")) /\ (faulty' = faulty \/ faulty' = TRUE)
      BY <1>1 DEF BeginErase, EraseSector, EraseNext, EndErase
    <2>. QED BY <2>1, Spends DEF FlashType
  <1>3. gone' \in [Dests -> SUBSET Rec] /\ \A d \in Dests : IsFiniteSet(gone'[d])
    <2>1. CASE EraseSector
      <3>1. PICK d \in Dests : gone' = [gone EXCEPT ![d] = @ \cup Expired(ring[d])]
        BY <2>1 DEF EraseSector
      <3>2. d \in Dests
        OBVIOUS
      <3>3. IsFiniteSet(Expired(ring[d])) /\ Expired(ring[d]) \in SUBSET Rec
        BY <3>2, ExpiredIs DEF RingsSound
      <3>4. IsFiniteSet(gone[d] \cup Expired(ring[d]))
        BY <3>2, <3>3, FS_Union DEF FlashType
      <3>. QED BY <3>1, <3>2, <3>3, <3>4 DEF FlashType
    <2>2. CASE ~EraseSector
      <3>1. gone' = gone
        BY <1>1, <2>2 DEF BeginErase, EraseNext, EndErase
      <3>. QED BY <3>1 DEF FlashType
    <2>. QED BY <2>1, <2>2
  <1>. QED BY <1>1, <1>2, <1>3 DEF FlashType, bootvars, queuevars, writer

LEMMA TypeCrash == FlashType /\ Crash => FlashType'
  <1>. SUFFICES ASSUME FlashType, Crash PROVE FlashType'
    OBVIOUS
  <1>1. /\ Spend("trouble")
        /\ boot' = "tel" /\ mounted' = {} /\ bootId' = [bootId EXCEPT !.ram = 0]
        /\ q' = <<>> /\ drops' = [d \in Dests |-> 0]
        /\ batch' = <<>> /\ held' = NoRec /\ pc' = "top" /\ jobs' = <<>>
        /\ boots' = boots + 1 /\ offered' = {} /\ gone' = [d \in Dests |-> {}]
        /\ faulty' = FALSE /\ ruined' = FALSE
    BY DEF Crash
  <1>2. budget' \in [offers : 0..MaxOffers, trouble : Nat]
    BY <1>1, Spends
  <1>3. NoRec \in Rec
    BY DEF NoRec, Rec, Plain
  <1>4. IsFiniteSet({})
    BY FS_EmptySet
  <1>5. /\ <<>> \in Seq(Rec) /\ Len(<<>>) <= BatchCap /\ <<>> \in Flushes
        /\ [d \in Dests |-> 0] \in [Dests -> Nat] /\ [d \in Dests |-> {}] \in [Dests -> SUBSET Rec]
    BY LogSizes DEF Flushes
  <1>6. bootId' \in [ram : Nat, nv : Nat] /\ boots' \in Nat
    <2>1. bootId \in [ram : Nat, nv : Nat] /\ boots \in Nat
      BY DEF FlashType
    <2>. QED BY <1>1, <2>1
  <1>7. \A d \in Dests : IsFiniteSet(gone'[d])
    BY <1>1, <1>4
  <1>8. wipes' \in [Dests -> Nat]
    <2>1. wipes \in [Dests -> Nat]
      BY DEF FlashType
    <2>2. wipes' = wipes \/ \E d \in Dests : wipes' = [wipes EXCEPT ![d] = @ + 1]
      BY DEF Crash, CutEntry, CutHeader, CutErase, CutRecovery, media
    <2>. QED BY <2>1, <2>2
  <1>. QED BY <1>1, <1>2, <1>3, <1>4, <1>5, <1>6, <1>7, <1>8 DEF FlashType

LEMMA TypeStep == FlashType /\ RingsSound /\ [Next]_fvars => FlashType'
  <1>1. FlashType /\ UNCHANGED fvars => FlashType'
    BY DEF FlashType, fvars
  <1>. QED BY <1>1, TypeMain, TypeProduce, TypeMoves, TypeWrites, TypeFlag, TypeErase, TypeCrash
           DEF Next, Writer, WriterStep

-----------------------------------------------------------------------------
(* Each ring keeps its records.                                            *)

\* From x to y records are added at the young end, or go from the old end.
Grows(x, y)   == Len(x) < Len(y) /\ SubSeq(y, 1, Len(x)) = x
Shrinks(x, y) == Len(y) < Len(x) /\ y = SubSeq(x, Len(x) - Len(y) + 1, Len(x))
Keeps(x, y)   == x = y \/ Grows(x, y) \/ Shrinks(x, y)

LEMMA KeepsMore ==
  ASSUME NEW x \in Seq(Rec), NEW z \in Seq(Rec)
  PROVE  Keeps(x, x \o z)
  <1>1. x \o z \in Seq(Rec) /\ Len(x \o z) = Len(x) + Len(z) /\ Len(x) \in Nat /\ Len(z) \in Nat
    OBVIOUS
  <1>2. CASE z = <<>>
    BY <1>2 DEF Keeps
  <1>3. CASE z # <<>>
    <2>1. Len(x) < Len(x \o z)
      BY <1>1, <1>3
    <2>2. SubSeq(x \o z, 1, Len(x)) = x
      OBVIOUS
    <2>. QED BY <2>1, <2>2 DEF Keeps, Grows
  <1>. QED BY <1>2, <1>3

LEMMA KeepsLess ==
  ASSUME NEW z \in Seq(Rec), NEW y \in Seq(Rec)
  PROVE  Keeps(z \o y, y)
  <1>. DEFINE x == z \o y
  <1>1. /\ x \in Seq(Rec) /\ Len(x) = Len(z) + Len(y) /\ Len(y) \in Nat /\ Len(z) \in Nat
        /\ \A i \in 1..Len(y) : x[Len(z) + i] = y[i]
    OBVIOUS
  <1>2. CASE z = <<>>
    BY <1>2 DEF Keeps
  <1>3. CASE z # <<>>
    <2>1. Len(z) > 0
      BY <1>3
    <2>. DEFINE w == SubSeq(x, Len(z) + 1, Len(x))
    <2>. HIDE DEF x
    <2>2. w \in Seq(Rec) /\ Len(w) = Len(y) /\ \A i \in 1..Len(y) : w[i] = x[Len(z) + i]
      BY <1>1, <2>1
    <2>. HIDE DEF w
    <2>3. w = y
      BY <1>1, <2>2, SeqEqual
    <2>4. Len(y) < Len(x) /\ Len(x) - Len(y) + 1 = Len(z) + 1
      BY <1>1, <2>1
    <2>. QED BY <2>3, <2>4 DEF Keeps, Shrinks, w, x
  <1>. QED BY <1>2, <1>3

LEMMA StoredType ==
  ASSUME NEW r, Sound(r)
  PROVE  r \in RingsOf(LogEntry) /\ Stored(r) \in Seq(Rec)
  <1>1. r \in RingsOf(LogEntry)
    BY DEF Sound
  <1>2. Entries(r) \in Seq(LogEntry)
    BY <1>1, WalkedIs
  <1>. QED BY <1>1, <1>2, RecsType DEF Stored

\* What one operation may do to a ring.
Steps(r, new) ==
  /\ Sound(new)
  /\ \/ Stored(new) = Stored(r)
     \/ \E z \in Seq(Rec) : Stored(new) = Stored(r) \o z
     \/ \E z \in Seq(Rec) : Stored(r) = z \o Stored(new)

LEMMA StepsKeep ==
  ASSUME NEW r, NEW new, Sound(r), Steps(r, new)
  PROVE  Keeps(Stored(r), Stored(new))
  <1>1. Stored(r) \in Seq(Rec) /\ Stored(new) \in Seq(Rec)
    BY StoredType DEF Steps
  <1>2. CASE Stored(new) = Stored(r)
    BY <1>2 DEF Keeps
  <1>3. ASSUME NEW z \in Seq(Rec), Stored(new) = Stored(r) \o z PROVE Keeps(Stored(r), Stored(new))
    BY <1>1, <1>3, KeepsMore
  <1>4. ASSUME NEW z \in Seq(Rec), Stored(r) = z \o Stored(new) PROVE Keeps(Stored(r), Stored(new))
    BY <1>1, <1>4, KeepsLess
  <1>. QED BY <1>2, <1>3, <1>4 DEF Steps

LEMMA StepsPut ==
  ASSUME NEW r, Sound(r), AtEnd(r), NEW e \in LogEntry, HasRoom(r, e.n)
  PROVE  Steps(r, PutEntry(r, e)) /\ AtEnd(PutEntry(r, e))
         /\ Stored(PutEntry(r, e)) = IF e.ok THEN Stored(r) \o e.recs ELSE Stored(r)
  <1>1. e.recs \in Seq(Rec)
    BY DEF LogEntry
  <1>2. /\ Sound(PutEntry(r, e)) /\ AtEnd(PutEntry(r, e))
        /\ Stored(PutEntry(r, e)) = IF e.ok THEN Stored(r) \o e.recs ELSE Stored(r)
    BY PutSound
  <1>3. CASE e.ok
    BY <1>1, <1>2, <1>3 DEF Steps
  <1>4. CASE ~e.ok
    BY <1>2, <1>4 DEF Steps
  <1>. QED BY <1>2, <1>3, <1>4

LEMMA StepsRotate ==
  ASSUME NEW r, Sound(r)
  PROVE  Steps(r, Rotate(r)) /\ (AtEnd(r) => AtEnd(Rotate(r)))
  <1>. DEFINE z == Recs(Whole(r.sec[r.old]))
  <1>1. z \in Seq(Rec) /\ Stored(r) = z \o Stored(Rotate(r)) /\ Sound(Rotate(r))
        /\ (AtEnd(r) => AtEnd(Rotate(r)))
    BY RotateSound
  <1>. HIDE DEF z
  <1>. QED BY <1>1 DEF Steps

LEMMA StepsCursor ==
  ASSUME NEW r, Sound(r), NEW new, Steps(r, new), NEW c \in Nat
  PROVE  Steps(r, [new EXCEPT !.cur = c]) /\ Stored([new EXCEPT !.cur = c]) = Stored(new)
         /\ (c = Used(new.sec[new.act]) => AtEnd([new EXCEPT !.cur = c]))
  <1>1. Sound(new)
    BY DEF Steps
  <1>2. Sound([new EXCEPT !.cur = c]) /\ Stored([new EXCEPT !.cur = c]) = Stored(new)
        /\ (c = Used(new.sec[new.act]) => AtEnd([new EXCEPT !.cur = c]))
    BY <1>1, CursorSound
  <1>. QED BY <1>2 DEF Steps

LEMMA StepsEmpty ==
  ASSUME NEW r, Sound(r)
  PROVE  Steps(r, EmptyRing) /\ AtEnd(EmptyRing)
  <1>1. Stored(r) \in Seq(Rec) /\ Stored(r) = Stored(r) \o <<>>
    <2>1. Stored(r) \in Seq(Rec)
      BY StoredType
    <2>. QED BY <2>1, ConcatEmptySeq
  <1>. QED BY <1>1, EmptySound DEF Steps

LEMMA StepsNone ==
  ASSUME NEW r, Sound(r)
  PROVE  Steps(r, r)
  BY DEF Steps

LEMMA RangeNone == Range(<<>>) = {}
  BY DEF Range

LEMMA ConcatRange ==
  ASSUME NEW T, NEW ss \in Seq(Seq(T)), NEW x
  PROVE  x \in Range(Concat(ss)) <=> \E i \in 1..Len(ss) : x \in Range(ss[i])
  <1>0. Len(ss) \in Nat
    OBVIOUS
  <1>1. PICK f \in [0..Len(ss) -> Seq(T)] :
           /\ f[0] = <<>> /\ \A i \in 1..Len(ss) : f[i] = f[i - 1] \o ss[i]
           /\ Concat(ss) = f[Len(ss)]
    BY CatIs
  <1>. DEFINE Has(k) == x \in Range(f[k]) <=> \E i \in 1..k : x \in Range(ss[i])
              Good == {k \in 0..Len(ss) : Has(k)}
  <1>2. 0 \in Good
    <2>1. Range(<<>>) = {}
      BY DEF Range
    <2>2. 1..0 = {}
      OBVIOUS
    <2>3. Has(0)
      BY <1>1, <2>1, <2>2
    <2>. HIDE DEF Has
    <2>. QED BY <1>0, <2>3
  <1>3. ASSUME NEW k \in 1..Len(ss), k - 1 \in Good PROVE k \in Good
    <2>0. k - 1 \in 0..Len(ss) /\ k \in 0..Len(ss)
      BY <1>0
    <2>1. f[k - 1] \in Seq(T)
      BY <1>1, <2>0, Zenon
    <2>2. ss[k] \in Seq(T)
      OBVIOUS
    <2>3. Range(f[k]) = Range(f[k - 1]) \cup Range(ss[k])
      <3>. DEFINE u == f[k - 1]
                  v == ss[k]
      <3>1. f[k] = u \o v /\ u \in Seq(T) /\ v \in Seq(T)
        BY <1>1, <2>1, <2>2
      <3>. HIDE DEF u, v
      <3>2. Range(u \o v) = Range(u) \cup Range(v)
        BY <3>1, RangeConcatenation
      <3>. QED BY <3>1, <3>2 DEF u, v
    <2>4. Has(k - 1)
      BY <1>3
    <2>5. \A i : i \in 1..k <=> i \in 1..(k - 1) \/ i = k
      OBVIOUS
    <2>6. Has(k)
      BY <2>3, <2>4, <2>5
    <2>. HIDE DEF Has
    <2>. QED BY <2>0, <2>6
  <1>. HIDE DEF Good
  <1>4. 0..Len(ss) \subseteq Good
    BY <1>0, <1>2, <1>3, UpTo
  <1>5. Len(ss) \in Good
    BY <1>0, <1>4
  <1>. QED BY <1>1, <1>5 DEF Good

\* The records a reader finds are those of the sectors, in whatever order.
LEMMA StoredRange ==
  ASSUME NEW r, Sound(r), NEW x
  PROVE  x \in Range(Stored(r)) <=> \E s \in Sectors : x \in Range(Recs(Whole(r.sec[s])))
  <1>1. r \in RingsOf(LogEntry) /\ Clear(r) /\ r.old \in Sectors /\ r.act \in Sectors
        /\ r.sec \in [Sectors -> Seq(LogEntry)]
    BY DEF Sound, RingsOf
  <1>2. ASSUME NEW es \in Seq(LogEntry)
        PROVE  x \in Range(Recs(es)) <=> \E e \in Range(es) : x \in Range(e.recs)
    <2>. DEFINE ss == [i \in DOMAIN es |-> es[i].recs]
    <2>1. \A e \in LogEntry : e.recs \in Seq(Rec)
      BY DEF LogEntry
    <2>2. ss \in Seq(Seq(Rec)) /\ Len(ss) = Len(es) /\ \A i \in 1..Len(es) : ss[i] = es[i].recs
      BY <2>1
    <2>3. Recs(es) = Concat(ss)
      BY DEF Recs
    <2>. HIDE DEF ss
    <2>4. x \in Range(Concat(ss)) <=> \E i \in 1..Len(ss) : x \in Range(ss[i])
      BY <2>2, ConcatRange
    <2>5. Range(es) = {es[i] : i \in 1..Len(es)}
      BY RangeFinite
    <2>. QED BY <2>2, <2>3, <2>4, <2>5
  <1>3. /\ Walked(r) \in Seq(Seq(LogEntry)) /\ Len(Walked(r)) = Span(r)
        /\ \A i \in 1..Span(r) : Walked(r)[i] = Whole(r.sec[Nth(r, i)])
        /\ Entries(r) = Concat(Walked(r)) /\ Entries(r) \in Seq(LogEntry)
    BY <1>1, WalkedIs
  <1>4. ASSUME NEW e
        PROVE  e \in Range(Entries(r)) <=> \E i \in 1..Span(r) : e \in Range(Whole(r.sec[Nth(r, i)]))
    <2>1. e \in Range(Concat(Walked(r))) <=>
            \E i \in 1..Len(Walked(r)) : e \in Range(Walked(r)[i])
      BY <1>3, ConcatRange
    <2>. QED BY <1>3, <2>1
  <1>5. \A s \in Sectors : Whole(r.sec[s]) \in Seq(LogEntry)
    BY <1>1, WholeType
  <1>6. \A i \in 1..Span(r) : Nth(r, i) \in Sectors
    BY <1>1, InUseIs
  <1>7. x \in Range(Stored(r)) <=>
          \E i \in 1..Span(r) : x \in Range(Recs(Whole(r.sec[Nth(r, i)])))
    <2>1. x \in Range(Stored(r)) <=> \E e \in Range(Entries(r)) : x \in Range(e.recs)
      BY <1>2, <1>3 DEF Stored
    <2>2. \A i \in 1..Span(r) : x \in Range(Recs(Whole(r.sec[Nth(r, i)]))) <=>
            \E e \in Range(Whole(r.sec[Nth(r, i)])) : x \in Range(e.recs)
      BY <1>2, <1>5, <1>6
    <2>. QED BY <1>4, <2>1, <2>2, Zenon
  <1>8. \A s \in Sectors : ~Between(r, s) => Range(Recs(Whole(r.sec[s]))) = {}
    <2>1. Range(Recs(Whole(<<>>))) = {}
      BY WholeNone, RecsNone DEF Range
    <2>. QED BY <1>1, <2>1 DEF Clear
  <1>9. \A s \in Sectors : Between(r, s) => \E i \in 1..Span(r) : Nth(r, i) = s
    BY <1>1, NthIs
  <1>. QED BY <1>6, <1>7, <1>8, <1>9, Zenon

\* A ring that has lost sectors holds no other records.
LEMMA StoredLess ==
  ASSUME NEW r, NEW new, Sound(r), Sound(new),
         \A s \in Sectors : new.sec[s] = <<>> \/ new.sec[s] = r.sec[s]
  PROVE  Range(Stored(new)) \subseteq Range(Stored(r))
  <1>1. Range(Recs(Whole(<<>>))) = {}
    BY WholeNone, RecsNone DEF Range
  <1>2. ASSUME NEW x \in Range(Stored(new)) PROVE x \in Range(Stored(r))
    <2>1. PICK s \in Sectors : x \in Range(Recs(Whole(new.sec[s])))
      BY StoredRange
    <2>2. new.sec[s] = r.sec[s]
      BY <1>1, <2>1
    <2>. QED BY <2>1, <2>2, StoredRange
  <1>. QED BY <1>2

\* A mount puts the cursor behind the last entry, or behind what remnants of an
\* erase are taken for.
LEMMA ReopenedSound ==
  ASSUME NEW r, Sound(r), NEW c, NEW new \in Reopened(r, c)
  PROVE  Steps(r, new) /\ AtEnd(new) /\ Stored(new) = Stored(r)
  <1>. DEFINE sec == r.sec[r.act]
              g(n) == [recs |-> <<>>, n |-> n, ok |-> FALSE]
              At(x) == [r EXCEPT !.sec = [@ EXCEPT ![r.act] = x], !.cur = fl_fast_seek_active(x)]
  <1>1. r \in RingsOf(LogEntry) /\ Clear(r) /\ r.act \in Sectors
        /\ sec \in Seq(LogEntry) /\ Used(sec) <= Cap
    BY DEF Sound, RingsOf
  <1>2. Used(sec) \in Nat /\ \A x \in Seq(LogEntry) : Used(x) <= Cap =>
                               fl_fast_seek_active(x) = Used(x)
    BY <1>1, EntryFacts, CursorFound, EndsAll
  <1>3. new = At(sec) \/ \E n \in 2..(Cap - Used(sec)) : new = At(Append(sec, g(n)))
    BY Zenon DEF Reopened
  <1>4. CASE new = At(sec)
    <2>1. At(sec) = [r EXCEPT !.cur = Used(sec)]
      <3>1. fl_fast_seek_active(sec) = Used(sec)
        BY <1>1, <1>2
      <3>. HIDE DEF sec
      <3>2. [r.sec EXCEPT ![r.act] = sec] = r.sec
        BY <1>1 DEF RingsOf, sec
      <3>3. r = [sec |-> r.sec, old |-> r.old, act |-> r.act, cur |-> r.cur]
        BY <1>1 DEF RingsOf
      <3>. QED BY <3>1, <3>2, <3>3
    <2>2. Steps(r, [r EXCEPT !.cur = Used(sec)]) /\ AtEnd([r EXCEPT !.cur = Used(sec)])
          /\ Stored([r EXCEPT !.cur = Used(sec)]) = Stored(r)
      BY <1>2, StepsNone, StepsCursor
    <2>. HIDE DEF At, sec
    <2>. QED BY <1>4, <2>1, <2>2
  <1>5. ASSUME NEW n \in 2..(Cap - Used(sec)), new = At(Append(sec, g(n)))
        PROVE  Steps(r, new) /\ AtEnd(new) /\ Stored(new) = Stored(r)
    <2>. DEFINE r0 == [r EXCEPT !.cur = Used(sec)]
    <2>1. n \in Nat /\ n > 1 /\ n <= Cap /\ Used(sec) + n <= Cap
      BY <1>1, <1>2, LogSizes
    <2>2. g(n) \in LogEntry /\ g(n).n = n /\ g(n).ok = FALSE
      <3>1. <<>> \in Seq(Rec)
        OBVIOUS
      <3>. QED BY <2>1, <3>1 DEF LogEntry
    <2>3. /\ Sound(r0) /\ AtEnd(r0) /\ Stored(r0) = Stored(r)
      BY <1>2, CursorSound
    <2>4. r0.sec = r.sec /\ r0.act = r.act /\ r0.old = r.old /\ r0.cur = Used(sec)
          /\ r0 \in RingsOf(LogEntry)
      BY <1>1, <1>2 DEF RingsOf
    <2>. HIDE DEF r0, g
    <2>5. Fits(r0, n) /\ HasRoom(r0, n)
      BY <2>1, <2>4 DEF Fits, HasRoom
    <2>6. PutEntry(r0, g(n)) = [sec |-> [r.sec EXCEPT ![r.act] = Append(sec, g(n))],
            old |-> r.old, act |-> r.act, cur |-> Used(Append(sec, g(n)))]
      <3>1. Clear(r0)
        BY <2>3 DEF Sound
      <3>2. r0.cur = Used(r0.sec[r0.act])
        BY <2>3 DEF AtEnd
      <3>3. \E a \in Sectors :
              /\ a = IF Fits(r0, g(n).n) THEN r0.act ELSE Succ(r0.act)
              /\ ~Fits(r0, g(n).n) => a # r0.old /\ r0.sec[a] = <<>>
              /\ PutEntry(r0, g(n)) = [sec |-> [r0.sec EXCEPT ![a] = Append(r0.sec[a], g(n))],
                                old |-> r0.old, act |-> a, cur |-> Used(Append(r0.sec[a], g(n)))]
        BY <2>2, <2>4, <2>5, <3>1, <3>2, EntryFacts, PutShape
      <3>. QED BY <2>2, <2>4, <2>5, <3>3
    <2>7. fl_fast_seek_active(Append(sec, g(n))) = Used(Append(sec, g(n)))
      <3>1. Append(sec, g(n)) \in Seq(LogEntry)
        BY <1>1, <2>2
      <3>2. Used(Append(sec, g(n))) = Used(sec) + n
        <4>1. \A t \in LogEntry : t.n \in Nat
          BY DEF LogEntry
        <4>. QED BY <1>1, <2>2, <4>1, UsedAppend
      <3>. HIDE DEF sec
      <3>. QED BY <1>2, <2>1, <3>1, <3>2
    <2>8. new = PutEntry(r0, g(n))
      <3>1. r = [sec |-> r.sec, old |-> r.old, act |-> r.act, cur |-> r.cur]
        BY <1>1 DEF RingsOf
      <3>. DEFINE x == Append(sec, g(n))
      <3>2. new = [r EXCEPT !.sec = [@ EXCEPT ![r.act] = x], !.cur = fl_fast_seek_active(x)]
        BY <1>5
      <3>. HIDE DEF x
      <3>3. new = [sec |-> [r.sec EXCEPT ![r.act] = x], old |-> r.old, act |-> r.act,
                   cur |-> fl_fast_seek_active(x)]
        BY <3>1, <3>2
      <3>. QED BY <2>6, <2>7, <3>3 DEF x
    <2>9. /\ Steps(r0, PutEntry(r0, g(n))) /\ AtEnd(PutEntry(r0, g(n)))
          /\ Stored(PutEntry(r0, g(n))) = Stored(r0)
      BY <2>2, <2>3, <2>5, StepsPut
    <2>. QED BY <2>3, <2>8, <2>9 DEF Steps
  <1>. HIDE DEF At, sec, g
  <1>. QED BY <1>3, <1>4, <1>5

\* What a recovery erase leaves is a ring, of the sectors it did not reach.
LEMMA LeftSound ==
  ASSUME NEW r, Sound(r), NEW k \in Sectors
  PROVE  Sound(Left(r, k)) /\ Range(Stored(Left(r, k))) \subseteq Range(Stored(r))
  <1>. DEFINE new == Left(r, k)
  <1>1. r \in RingsOf(LogEntry) /\ Clear(r) /\ r.old \in Sectors /\ r.act \in Sectors
        /\ r.sec \in [Sectors -> Seq(LogEntry)]
    BY DEF Sound, RingsOf
  <1>2. CASE r.act <= k /\ (r.old <= r.act \/ k = NSectors - 1)
    <2>1. new = EmptyRing
      BY <1>2 DEF Left
    <2>2. Range(<<>>) = {}
      BY DEF Range
    <2>. QED BY <2>1, <2>2, EmptySound
  <1>3. CASE ~(r.act <= k /\ (r.old <= r.act \/ k = NSectors - 1))
    <2>1. new = [sec |-> [s \in Sectors |-> IF s > k THEN r.sec[s] ELSE <<>>],
                 old |-> IF r.old > k THEN r.old ELSE k + 1,
                 act |-> IF r.act > k THEN r.act ELSE NSectors - 1, cur |-> 0]
      BY <1>3 DEF Left
    <2>. HIDE DEF new
    <2>2. \A s \in Sectors : new.sec[s] = IF s > k THEN r.sec[s] ELSE <<>>
      BY <2>1
    <2>3. /\ new.old = IF r.old > k THEN r.old ELSE k + 1
          /\ new.act = IF r.act > k THEN r.act ELSE NSectors - 1
      BY <2>1
    <2>4. new.old \in Sectors /\ new.act \in Sectors
      BY <1>1, <1>3, <2>3, Sizes DEF Sectors
    <2>5. new \in RingsOf(LogEntry)
      <3>1. [s \in Sectors |-> IF s > k THEN r.sec[s] ELSE <<>>] \in [Sectors -> Seq(LogEntry)]
        BY <1>1
      <3>. QED BY <2>1, <2>3, <2>4, <3>1 DEF RingsOf
    <2>6. Clear(new)
      <3>. SUFFICES ASSUME NEW s \in Sectors, ~Between(new, s), s > k PROVE new.sec[s] = <<>>
        BY <2>2 DEF Clear
      <3>1. ~Between(r, s)
        BY <1>1, <1>3, <2>3, Sizes DEF Between, Sectors
      <3>. QED BY <1>1, <2>2, <3>1 DEF Clear
    <2>7. \A s \in Sectors : Used(new.sec[s]) <= Cap
      BY <2>2, UsedNone, LogSizes DEF Sound
    <2>8. Sound(new)
      BY <2>5, <2>6, <2>7 DEF Sound
    <2>9. Range(Stored(new)) \subseteq Range(Stored(r))
      BY <2>2, <2>8, StoredLess
    <2>. QED BY <2>8, <2>9 DEF new
  <1>. QED BY <1>2, <1>3

\* A sector opened and not written to holds nothing.
LEMMA OpenSound ==
  ASSUME NEW r, Sound(r), AtEnd(r), NEW n \in Nat, n > 1, n <= Cap, ~Fits(r, n), HasRoom(r, n),
         NEW new, new = [r EXCEPT !.act = Succ(r.act)]
  PROVE  Sound(new) /\ Stored(new) = Stored(r)
  <1>. DEFINE e == [recs |-> <<>>, n |-> n, ok |-> FALSE]
              p == PutEntry(r, e)
  <1>1. r \in RingsOf(LogEntry) /\ Clear(r) /\ r.cur = Used(r.sec[r.act])
    BY DEF Sound, AtEnd
  <1>2. e \in LogEntry /\ e.n = n /\ e.ok = FALSE
    <2>1. <<>> \in Seq(Rec)
      OBVIOUS
    <2>. QED BY <2>1 DEF LogEntry
  <1>. HIDE DEF e
  <1>3. PICK a \in Sectors :
          /\ a = Succ(r.act) /\ r.sec[a] = <<>>
          /\ p = [sec |-> [r.sec EXCEPT ![a] = Append(r.sec[a], e)], old |-> r.old, act |-> a,
                  cur |-> Used(Append(r.sec[a], e))]
    <2>1. \E a \in Sectors :
             /\ a = IF Fits(r, e.n) THEN r.act ELSE Succ(r.act)
             /\ ~Fits(r, e.n) => a # r.old /\ r.sec[a] = <<>>
             /\ p = [sec |-> [r.sec EXCEPT ![a] = Append(r.sec[a], e)], old |-> r.old,
                     act |-> a, cur |-> Used(Append(r.sec[a], e))]
      BY <1>1, <1>2, EntryFacts, PutShape
    <2>. QED BY <1>2, <2>1
  <1>4. Sound(p) /\ Stored(p) = Stored(r)
    BY <1>2, PutSound
  <1>. HIDE DEF p
  <1>5. new \in RingsOf(LogEntry) /\ new.sec = r.sec /\ new.old = r.old /\ new.act = a
    BY <1>1, <1>3 DEF RingsOf
  <1>6. p \in RingsOf(LogEntry) /\ p.old = new.old /\ p.act = new.act
        /\ \A s \in Sectors : p.sec[s] = IF s = a THEN Append(<<>>, e) ELSE r.sec[s]
    BY <1>1, <1>3, <1>4, <1>5 DEF Sound, RingsOf
  <1>7. Sound(new)
    <2>1. \A s \in Sectors : Between(new, s) <=> Between(p, s)
      BY <1>6 DEF Between
    <2>2. \A s \in Sectors : ~Between(new, s) => r.sec[s] = <<>>
      BY <1>3, <1>4, <1>6, <2>1 DEF Sound, Clear
    <2>. QED BY <1>5, <2>2 DEF Sound, Clear
  <1>8. \A s \in Sectors : Whole(p.sec[s]) = Whole(new.sec[s])
    <2>1. <<>> \in Seq(LogEntry)
      OBVIOUS
    <2>2. Whole(Append(<<>>, e)) = Whole(<<>>)
      BY <1>2, <2>1, WholeAppend
    <2>. QED BY <1>3, <1>5, <1>6, <2>2
  <1>9. Entries(new) = Entries(p)
    <2>1. Span(new) = Span(p) /\ \A i : Nth(new, i) = Nth(p, i)
      BY <1>6 DEF Span, Nth
    <2>2. \A i \in 1..Span(new) : Nth(new, i) \in Sectors
      BY <1>5, InUseIs DEF RingsOf
    <2>3. /\ Walked(new) \in Seq(Seq(LogEntry)) /\ Len(Walked(new)) = Span(new)
          /\ \A i \in 1..Span(new) : Walked(new)[i] = Whole(new.sec[Nth(new, i)])
          /\ Entries(new) = Concat(Walked(new))
      BY <1>5, WalkedIs
    <2>4. /\ Walked(p) \in Seq(Seq(LogEntry)) /\ Len(Walked(p)) = Span(p)
          /\ \A i \in 1..Span(p) : Walked(p)[i] = Whole(p.sec[Nth(p, i)])
          /\ Entries(p) = Concat(Walked(p))
      BY <1>6, WalkedIs
    <2>5. ASSUME NEW i \in 1..Len(Walked(new)) PROVE Walked(new)[i] = Walked(p)[i]
      <3>1. i \in 1..Span(new) /\ i \in 1..Span(p)
        BY <2>1, <2>3
      <3>2. Nth(new, i) \in Sectors /\ Nth(new, i) = Nth(p, i)
        BY <2>1, <2>2, <3>1
      <3>3. Whole(p.sec[Nth(new, i)]) = Whole(new.sec[Nth(new, i)])
        BY <1>8, <3>2
      <3>4. Walked(new)[i] = Whole(new.sec[Nth(new, i)])
        BY <2>3, <3>1
      <3>5. Walked(p)[i] = Whole(p.sec[Nth(p, i)])
        BY <2>4, <3>1
      <3>. QED BY <3>2, <3>3, <3>4, <3>5
    <2>. DEFINE x == Walked(new)
                y == Walked(p)
    <2>6. x \in Seq(Seq(LogEntry)) /\ y \in Seq(Seq(LogEntry)) /\ Len(x) = Len(y)
          /\ \A i \in 1..Len(x) : x[i] = y[i]
      BY <2>1, <2>3, <2>4, <2>5
    <2>. HIDE DEF x, y
    <2>7. x = y
      BY <2>6, SeqEqual
    <2>. QED BY <2>3, <2>4, <2>7 DEF x, y
  <1>. QED BY <1>4, <1>7, <1>9 DEF Stored

\* Every step of the log, ring by ring: only a recovery erase that stops half-way
\* does more to a ring than Steps allows.
Moved(d) ==
  /\ Sound(ring'[d])
  /\ Steps(ring[d], ring'[d]) \/ wipes'[d] = wipes[d] + 1
RingMoves ==
  /\ ring' \in [Dests -> RingsOf(LogEntry)]
  /\ \A d \in Dests : Moved(d) /\ (d \in mounted' => AtEnd(ring'[d]))

LEMMA OneMoves ==
  ASSUME RingsSound, mounted \subseteq Dests, NEW d \in Dests, NEW new, Sound(new),
         ring' = [ring EXCEPT ![d] = new], Steps(ring[d], new) \/ wipes'[d] = wipes[d] + 1,
         d \in mounted' => AtEnd(new), mounted' \subseteq mounted \cup {d}
  PROVE  RingMoves
  <1>1. new \in RingsOf(LogEntry)
    BY DEF Sound
  <1>2. ring' \in [Dests -> RingsOf(LogEntry)]
        /\ \A e \in Dests : ring'[e] = IF e = d THEN new ELSE ring[e]
    BY <1>1 DEF RingsSound
  <1>3. \A e \in Dests : Sound(ring[e]) /\ Steps(ring[e], ring[e]) /\ (e \in mounted => AtEnd(ring[e]))
    BY StepsNone DEF RingsSound
  <1>. QED BY <1>2, <1>3 DEF RingMoves, Moved

LEMMA NoneMoves ==
  ASSUME RingsSound, ring' = ring, mounted' \subseteq mounted
  PROVE  RingMoves
  BY StepsNone DEF RingsSound, RingMoves, Moved

\* A mount that finds no ring, and erases the partition whole or in part.
Recovers(d) ==
  /\ mounted' \subseteq mounted \cup {d}
  /\ \E new : /\ Sound(new) /\ ring' = [ring EXCEPT ![d] = new]
              /\ Steps(ring[d], new) \/ wipes'[d] = wipes[d] + 1
              /\ d \in mounted' => AtEnd(new)
              /\ Range(Stored(new)) \subseteq Range(Stored(ring[d]))

LEMMA RecoversIs ==
  ASSUME FlashType, RingsSound, NEW d \in Dests, MountRecovers(d)
  PROVE  Recovers(d)
  <1>0. d \notin mounted
    BY DEF MountRecovers, FlashType, Dests
  <1>1. Sound(ring[d]) /\ wipes \in [Dests -> Nat]
    BY DEF RingsSound, FlashType
  <1>2. Erased(d) \/ ErasedInPart(d)
    BY DEF MountRecovers
  <1>3. CASE Erased(d)
    <2>1. ring' = [ring EXCEPT ![d] = EmptyRing] /\ mounted' \subseteq mounted \cup {d}
      BY <1>3 DEF Erased
    <2>2. Steps(ring[d], EmptyRing) /\ AtEnd(EmptyRing) /\ Sound(EmptyRing)
      BY <1>1, StepsEmpty, EmptySound
    <2>3. Range(Stored(EmptyRing)) = {}
      BY EmptySound DEF Range
    <2>. QED BY <2>1, <2>2, <2>3 DEF Recovers
  <1>4. CASE ErasedInPart(d)
    <2>1. PICK k \in Sectors, c \in Cuts :
            /\ wipes' = [wipes EXCEPT ![d] = @ + 1]
            /\ \/ mounted' = mounted /\ ring' = [ring EXCEPT ![d] = Left(ring[d], k)]
               \/ /\ mounted' = mounted \cup {d}
                  /\ \E r \in Reopened(Left(ring[d], k), clean'[d][Left(ring[d], k).act]) :
                       ring' = [ring EXCEPT ![d] = r]
      BY <1>4, Zenon DEF ErasedInPart
    <2>2. wipes'[d] = wipes[d] + 1
      BY <1>1, <2>1
    <2>3. Sound(Left(ring[d], k)) /\ Range(Stored(Left(ring[d], k))) \subseteq Range(Stored(ring[d]))
      BY <1>1, LeftSound
    <2>4. CASE mounted' = mounted /\ ring' = [ring EXCEPT ![d] = Left(ring[d], k)]
      BY <1>0, <2>2, <2>3, <2>4 DEF Recovers
    <2>5. ASSUME mounted' = mounted \cup {d},
                 NEW r \in Reopened(Left(ring[d], k), clean'[d][Left(ring[d], k).act]),
                 ring' = [ring EXCEPT ![d] = r]
          PROVE  Recovers(d)
      <3>1. Steps(Left(ring[d], k), r) /\ AtEnd(r) /\ Stored(r) = Stored(Left(ring[d], k))
        BY <2>3, ReopenedSound
      <3>. QED BY <2>2, <2>3, <2>5, <3>1 DEF Recovers, Steps
    <2>. QED BY <2>1, <2>4, <2>5
  <1>. QED BY <1>2, <1>3, <1>4

LEMMA MovesMain ==
  ASSUME FlashType, RingsSound, MainStep
  PROVE  RingMoves
  <1>. mounted \subseteq Dests
    BY DEF FlashType
  <1>1. ASSUME NEW d \in Dests, Mount(d) PROVE RingMoves
    <2>1. PICK new \in Reopened(ring[d], clean[d][ring[d].act]) : ring' = [ring EXCEPT ![d] = new]
      BY <1>1 DEF Mount
    <2>2. Steps(ring[d], new) /\ AtEnd(new)
      BY ReopenedSound DEF RingsSound
    <2>3. mounted' = mounted \cup {d}
      BY <1>1 DEF Mount
    <2>. QED BY <2>1, <2>2, <2>3, OneMoves DEF Steps
  <1>2. ASSUME NEW d \in Dests, MountRecovers(d) PROVE RingMoves
    <2>1. Recovers(d)
      BY <1>2, RecoversIs
    <2>2. PICK new : /\ Sound(new) /\ ring' = [ring EXCEPT ![d] = new]
                     /\ Steps(ring[d], new) \/ wipes'[d] = wipes[d] + 1
                     /\ d \in mounted' => AtEnd(new)
      BY <2>1 DEF Recovers
    <2>3. mounted' \subseteq mounted \cup {d}
      BY <2>1 DEF Recovers
    <2>. QED BY <2>2, <2>3, OneMoves DEF Steps
  <1>3. ASSUME CountBoot PROVE RingMoves
    BY <1>3, NoneMoves DEF CountBoot
  <1>. QED BY <1>1, <1>2, <1>3 DEF MainStep

LEMMA MovesWriter ==
  ASSUME FlashType, RingsSound, WriterStep
  PROVE  RingMoves
  <1>1. mounted \subseteq Dests /\ mounted' = mounted
    BY DEF FlashType, WriterStep, WriterMoves, CountDrops, MakeRoom, WriteEntry, WriteFails,
         bootvars
  <1>2. CASE WriterMoves \/ CountDrops
    BY <1>1, <1>2, NoneMoves DEF WriterMoves, CountDrops
  <1>3. CASE MakeRoom
    <2>1. ring' = [ring EXCEPT ![Target] = Rotate(ring[Target])] /\ Writing /\ Target \in mounted
      BY <1>3 DEF MakeRoom, Overflows, RingsSound
    <2>2. Target \in Dests
      BY <1>1, <2>1
    <2>3. Steps(ring[Target], Rotate(ring[Target])) /\ AtEnd(Rotate(ring[Target]))
      BY <2>1, <2>2, StepsRotate DEF RingsSound
    <2>. QED BY <1>1, <2>1, <2>2, <2>3, OneMoves DEF Steps
  <1>4. ASSUME NEW ok \in BOOLEAN, Writing, Target \in mounted,
                 HasRoom(ring[Target], Entry(TRUE).n),
               ring' = [ring EXCEPT ![Target] = PutEntry(@, Entry(ok))]
        PROVE  RingMoves
    <2>1. Target \in Dests /\ Entry(ok) \in LogEntry /\ HasRoom(ring[Target], Entry(ok).n)
      BY <1>1, <1>4, EntryIs
    <2>2. Steps(ring[Target], PutEntry(ring[Target], Entry(ok)))
          /\ AtEnd(PutEntry(ring[Target], Entry(ok)))
      BY <1>4, <2>1, StepsPut DEF RingsSound
    <2>3. ring' = [ring EXCEPT ![Target] = PutEntry(ring[Target], Entry(ok))]
      BY <1>4
    <2>. QED BY <1>1, <2>1, <2>2, <2>3, OneMoves DEF Steps
  <1>5. CASE WriteEntry
    BY <1>4, <1>5 DEF WriteEntry, Takes
  <1>6. CASE WriteFails
    <2>1. Writing /\ (ring' = ring \/ (Target \in mounted /\ HasRoom(ring[Target], Entry(TRUE).n)
             /\ ring' = [ring EXCEPT ![Target] = PutEntry(@, Entry(FALSE))]))
      BY <1>6 DEF WriteFails
    <2>. QED BY <1>1, <1>4, <2>1, NoneMoves
  <1>. QED BY <1>2, <1>3, <1>5, <1>6 DEF WriterStep

LEMMA MovesErase ==
  ASSUME FlashType, RingsSound, EraseStep
  PROVE  RingMoves
  <1>1. mounted \subseteq Dests /\ mounted' = mounted
    BY DEF FlashType, EraseStep, bootvars
  <1>2. CASE EraseSector
    <2>1. PICK d \in Dests : d \in mounted /\ ring' = [ring EXCEPT ![d] = Rotate(@)]
      BY <1>2 DEF EraseSector, Clears
    <2>2. d \in Dests
      OBVIOUS
    <2>3. Steps(ring[d], Rotate(ring[d])) /\ AtEnd(Rotate(ring[d]))
      BY <2>1, <2>2, StepsRotate DEF RingsSound
    <2>. QED BY <1>1, <2>1, <2>2, <2>3, OneMoves DEF Steps
  <1>3. CASE ~EraseSector
    <2>1. ring' = ring
      BY <1>3 DEF EraseStep, BeginErase, EraseNext, EndErase
    <2>. QED BY <1>1, <2>1, NoneMoves
  <1>. QED BY <1>2, <1>3

\* The rings after a power loss, with one of them as it was cut.
LEMMA DownMoves ==
  ASSUME RingsSound, NEW d \in Dests, NEW new, Sound(new),
         Steps(ring[d], new) \/ wipes'[d] = wipes[d] + 1,
         Range(Stored(new)) \subseteq Range(Stored(ring[d])),
         ring' = Down([ring EXCEPT ![d] = new]), mounted' = {}
  PROVE  RingMoves /\ \A e \in Dests : Range(Stored(ring'[e])) \subseteq Range(Stored(ring[e]))
  <1>1. ASSUME NEW e \in Dests
        PROVE  /\ ring'[e] \in RingsOf(LogEntry) /\ Moved(e)
               /\ Range(Stored(ring'[e])) \subseteq Range(Stored(ring[e]))
    <2>. DEFINE x == IF e = d THEN new ELSE ring[e]
    <2>1. ring'[e] = [x EXCEPT !.cur = 0]
      BY DEF RingsSound, Down
    <2>2. Sound(x) /\ (Steps(ring[e], x) \/ wipes'[e] = wipes[e] + 1)
          /\ Range(Stored(x)) \subseteq Range(Stored(ring[e]))
      BY StepsNone DEF RingsSound
    <2>. HIDE DEF x
    <2>3. Sound([x EXCEPT !.cur = 0]) /\ Stored([x EXCEPT !.cur = 0]) = Stored(x)
      BY <2>2, CursorSound
    <2>. QED BY <2>1, <2>2, <2>3 DEF Moved, Steps, Sound
  <1>2. ring' = [e \in Dests |-> ring'[e]]
    BY DEF Down
  <1>3. ring' \in [Dests -> RingsOf(LogEntry)]
    BY <1>1, <1>2
  <1>. QED BY <1>1, <1>3 DEF RingMoves

\* An entry cut short takes its room and holds nothing.
LEMMA CutEntryIs ==
  ASSUME FlashType, RingsSound, Takes, NEW torn \in {Cap, Entry(TRUE).n}, NEW e,
         e = [Entry(FALSE) EXCEPT !.n = IF Fits(ring[Target], Entry(TRUE).n) /\ torn = Cap
                                        THEN Cap - ring[Target].cur ELSE torn]
  PROVE  /\ Steps(ring[Target], PutEntry(ring[Target], e))
         /\ Stored(PutEntry(ring[Target], e)) = Stored(ring[Target])
  <1>. DEFINE t == Target
              m == Entry(TRUE).n
              c == ring[t].cur
              n == IF Fits(ring[t], m) /\ torn = Cap THEN Cap - c ELSE torn
  <1>1. Writing /\ t \in Dests /\ AtEnd(ring[t]) /\ HasRoom(ring[t], m) /\ Sound(ring[t])
    BY DEF Takes, RingsSound, FlashType
  <1>2. c \in Nat
    BY <1>1 DEF Sound, RingsOf
  <1>3. /\ Entry(FALSE) \in LogEntry /\ Entry(FALSE).ok = FALSE /\ m \in Nat /\ m > 1 /\ m <= Cap
    <2>1. TRUE \in BOOLEAN /\ FALSE \in BOOLEAN
      OBVIOUS
    <2>2. Entry(FALSE) \in LogEntry /\ Entry(FALSE).ok = FALSE /\ Entry(TRUE) \in LogEntry
      BY <1>1, <2>1, EntryIs
    <2>. QED BY <2>2 DEF LogEntry
  <1>4. torn = Cap \/ torn = m
    OBVIOUS
  <1>5. e = [Entry(FALSE) EXCEPT !.n = n]
    OBVIOUS
  <1>6. Fits(ring[t], m) <=> c + m <= Cap
    BY DEF Fits
  <1>. HIDE DEF m, c, t
  <1>7. n \in Nat /\ n > 1 /\ n <= Cap
    BY <1>2, <1>3, <1>4, <1>6, LogSizes
  <1>8. HasRoom(ring[t], n)
    <2>1. CASE Fits(ring[t], m)
      <3>1. c + n <= Cap
        BY <1>2, <1>3, <1>4, <1>6, <2>1, LogSizes
      <3>. HIDE DEF n
      <3>. QED BY <3>1 DEF HasRoom, Fits, c
    <2>2. CASE ~Fits(ring[t], m)
      <3>. HIDE DEF n
      <3>. QED BY <1>1, <2>2 DEF HasRoom
    <2>. QED BY <2>1, <2>2
  <1>. HIDE DEF n
  <1>9. e \in LogEntry /\ e.n = n /\ e.ok = FALSE
    BY <1>3, <1>5, <1>7 DEF LogEntry
  <1>10. Steps(ring[t], PutEntry(ring[t], e)) /\ Stored(PutEntry(ring[t], e)) = Stored(ring[t])
    BY <1>1, <1>8, <1>9, StepsPut
  <1>. QED BY <1>10 DEF t

LEMMA MovesCrash ==
  ASSUME FlashType, RingsSound, Crash
  PROVE  RingMoves /\ \A d \in Dests : Range(Stored(ring'[d])) \subseteq Range(Stored(ring[d]))
  <1>. DEFINE Goal == RingMoves /\ \A d \in Dests :
                                     Range(Stored(ring'[d])) \subseteq Range(Stored(ring[d]))
  <1>1. mounted' = {} /\ mounted \subseteq Dests /\ wipes \in [Dests -> Nat]
    BY DEF Crash, FlashType
  <1>2. /\ ring \in [Dests -> RingsOf(LogEntry)] /\ \A d \in Dests : Sound(ring[d])
        /\ "tel" \in Dests
    BY DEF RingsSound, Dests
  <1>3. ASSUME NEW d \in Dests, NEW new, Sound(new),
               Steps(ring[d], new) \/ wipes'[d] = wipes[d] + 1,
               Range(Stored(new)) \subseteq Range(Stored(ring[d])),
               ring' = Down([ring EXCEPT ![d] = new])
        PROVE  Goal
    BY <1>1, <1>3, DownMoves
  <1>4. ASSUME ring' = Down(ring) PROVE Goal
    <2>1. ring = [ring EXCEPT !["tel"] = ring["tel"]]
      BY <1>2
    <2>2. Steps(ring["tel"], ring["tel"])
      BY <1>2, StepsNone
    <2>. HIDE DEF Goal
    <2>. QED BY <1>2, <1>3, <1>4, <2>1, <2>2
  <1>. HIDE DEF Goal
  <1>5. ASSUME CutEntry PROVE Goal
    <2>. DEFINE e(torn) == [Entry(FALSE) EXCEPT !.n =
                              IF Fits(ring[Target], Entry(TRUE).n) /\ torn = Cap
                              THEN Cap - ring[Target].cur ELSE torn]
    <2>1. PICK torn \in {0, Cap} \cup (IF Takes THEN {Entry(TRUE).n} ELSE {}) :
            ring' = Down(IF ~Takes \/ torn = 0 THEN ring
                         ELSE [ring EXCEPT ![Target] = PutEntry(@, e(torn))])
      BY <1>5 DEF CutEntry
    <2>2. CASE ~Takes \/ torn = 0
      <3>1. ring' = Down(ring)
        BY <2>1, <2>2
      <3>. QED BY <1>4, <3>1
    <2>3. CASE Takes /\ torn # 0
      <3>1. torn \in {Cap, Entry(TRUE).n} /\ Target \in Dests
        BY <1>1, <2>3 DEF Takes
      <3>2. ring' = Down([ring EXCEPT ![Target] = PutEntry(ring[Target], e(torn))])
        BY <1>2, <2>1, <2>3
      <3>3. /\ Steps(ring[Target], PutEntry(ring[Target], e(torn)))
            /\ Stored(PutEntry(ring[Target], e(torn))) = Stored(ring[Target])
        BY <2>3, <3>1, CutEntryIs
      <3>. HIDE DEF e
      <3>. QED BY <1>3, <3>1, <3>2, <3>3 DEF Steps
    <2>. QED BY <2>2, <2>3
  <1>6. ASSUME CutHeader PROVE Goal
    <2>1. Takes /\ ~Fits(ring[Target], Entry(TRUE).n)
          /\ \/ ring' = Down([ring EXCEPT ![Target].act = Succ(@)])
             \/ ring' = Down(ring)
      BY <1>6 DEF CutHeader
    <2>2. CASE ring' = Down([ring EXCEPT ![Target].act = Succ(@)])
      <3>. DEFINE r == ring[Target]
                  n == Entry(TRUE).n
                  new == [r EXCEPT !.act = Succ(r.act)]
      <3>1. Writing /\ Target \in Dests /\ AtEnd(r) /\ HasRoom(r, n) /\ Sound(r)
        BY <1>1, <2>1 DEF Takes, RingsSound
      <3>2. n \in Nat /\ n > 1 /\ n <= Cap
        <4>1. Entry(TRUE) \in LogEntry
          BY <3>1, EntryIs
        <4>. QED BY <4>1 DEF LogEntry
      <3>3. ring' = Down([ring EXCEPT ![Target] = new])
        BY <1>2, <2>2, <3>1
      <3>4. ~Fits(r, n)
        BY <2>1
      <3>. HIDE DEF r, n
      <3>5. Sound(new) /\ Stored(new) = Stored(r)
        BY <3>1, <3>2, <3>4, OpenSound
      <3>. HIDE DEF new
      <3>. QED BY <1>3, <3>1, <3>3, <3>5 DEF Steps, r
    <2>. QED BY <1>4, <2>1, <2>2
  <1>7. ASSUME NEW d \in Dests, CutErase(d) PROVE Goal
    <2>. DEFINE new == IF ring[d].old = ring[d].act THEN EmptyRing ELSE Rotate(ring[d])
    <2>1. ring' = Down([ring EXCEPT ![d] = new])
      BY <1>2, <1>7 DEF CutErase
    <2>2. Steps(ring[d], EmptyRing) /\ Range(Stored(EmptyRing)) = {}
      BY <1>2, StepsEmpty, EmptySound, RangeNone
    <2>3. Steps(ring[d], Rotate(ring[d]))
          /\ Range(Stored(Rotate(ring[d]))) \subseteq Range(Stored(ring[d]))
      BY <1>2, StepsRotate, ExpiredIs
    <2>4. Steps(ring[d], new) /\ Range(Stored(new)) \subseteq Range(Stored(ring[d]))
      BY <2>2, <2>3
    <2>. HIDE DEF new
    <2>. QED BY <1>3, <2>1, <2>4 DEF Steps
  <1>8. ASSUME NEW d \in Dests, CutRecovery(d) PROVE Goal
    <2>1. PICK k \in Sectors, c \in Cuts :
            /\ ring' = Down([ring EXCEPT ![d] = Left(@, k)])
            /\ wipes' = [wipes EXCEPT ![d] = @ + 1]
      BY <1>8 DEF CutRecovery
    <2>2. ring' = Down([ring EXCEPT ![d] = Left(ring[d], k)]) /\ wipes'[d] = wipes[d] + 1
      BY <1>1, <1>2, <2>1
    <2>3. Sound(Left(ring[d], k)) /\ Range(Stored(Left(ring[d], k))) \subseteq Range(Stored(ring[d]))
      BY <1>2, LeftSound
    <2>. QED BY <1>3, <2>2, <2>3
  <1>9. Goal
    BY <1>5, <1>6, <1>7, <1>8 DEF Crash
  <1>. QED BY <1>9 DEF Goal

LEMMA Moves ==
  ASSUME FlashType, RingsSound, [Next]_fvars
  PROVE  RingMoves /\ log' = [d \in Dests |-> Stored(ring'[d])]
  <1>1. CASE UNCHANGED fvars
    BY <1>1, NoneMoves DEF RingsSound, fvars
  <1>2. Track => log' = [d \in Dests |-> Stored(ring'[d])]
    BY DEF Track, RingsSound
  <1>3. CASE MainStep
    BY <1>2, <1>3, MovesMain DEF MainStep
  <1>4. CASE Produce
    <2>1. Track /\ ring' = ring /\ mounted' = mounted
      BY <1>4 DEF Produce, RecordBootMarker, OfferEarly, Listeners, TextBackend, Offer, bootvars
    <2>. QED BY <1>2, <2>1, NoneMoves
  <1>5. CASE Writer
    BY <1>2, <1>5, MovesWriter DEF Writer
  <1>6. CASE FlagStep
    <2>1. Track /\ ring' = ring /\ mounted' = mounted
      BY <1>6 DEF FlagStep, bootvars
    <2>. QED BY <1>2, <2>1, NoneMoves
  <1>7. CASE EraseStep
    BY <1>2, <1>7, MovesErase DEF EraseStep
  <1>8. CASE Crash
    BY <1>8, MovesCrash DEF Crash
  <1>. QED BY <1>1, <1>3, <1>4, <1>5, <1>6, <1>7, <1>8 DEF Next

LEMMA RingsStep == FlashType /\ RingsSound /\ [Next]_fvars => RingsSound'
  <1>. SUFFICES ASSUME FlashType, RingsSound, [Next]_fvars PROVE RingsSound'
    OBVIOUS
  <1>1. RingMoves /\ log' = [d \in Dests |-> Stored(ring'[d])]
    BY Moves
  <1>2. mounted' \subseteq Dests
    BY TypeStep DEF FlashType
  <1>. QED BY <1>1, <1>2 DEF RingsSound, RingMoves, Moved

LEMMA RingsInit == Init => RingsSound
  <1>. SUFFICES ASSUME Init PROVE RingsSound
    OBVIOUS
  <1>. DEFINE e(n) == [recs |-> <<[k |-> "old", n |-> n]>>, n |-> 2, ok |-> TRUE]
  <1>1. ring = [d \in Dests |-> Preload(d)] /\ mounted = {}
        /\ log = [d \in Dests |-> Stored(ring[d])]
    BY DEF Init
  <1>2. \A n \in Nat : e(n) \in LogEntry /\ e(n).n = 2
    <2>. SUFFICES ASSUME NEW n \in Nat PROVE e(n) \in LogEntry /\ e(n).n = 2
      OBVIOUS
    <2>1. <<[k |-> "old", n |-> n]>> \in Seq(Rec)
      BY DEF Rec, Plain
    <2>. QED BY <2>1, LogSizes DEF LogEntry
  <1>. DEFINE a == <<e(1), e(2)>>
              b == <<e(3)>>
  <1>3. /\ a \in Seq(LogEntry) /\ b \in Seq(LogEntry) /\ Used(a) = 4 /\ Used(b) = 2
    <2>1. e(1) \in LogEntry /\ e(2) \in LogEntry /\ e(3) \in LogEntry
          /\ e(1).n = 2 /\ e(2).n = 2 /\ e(3).n = 2
      BY <1>2
    <2>. DEFINE x == e(1)
                y == e(2)
                z == e(3)
    <2>. HIDE DEF e
    <2>2. \A t \in LogEntry : t.n \in Nat
      BY DEF LogEntry
    <2>3. <<>> \in Seq(LogEntry) /\ <<x>> \in Seq(LogEntry) /\ <<x>> = Append(<<>>, x)
          /\ <<x, y>> = Append(<<x>>, y) /\ <<z>> = Append(<<>>, z) /\ a \in Seq(LogEntry)
          /\ b \in Seq(LogEntry)
      BY <2>1
    <2>4. Used(<<x>>) = 2 /\ Used(<<z>>) = 2
      <3>1. Used(Append(<<>>, x)) = Used(<<>>) + x.n /\ Used(Append(<<>>, z)) = Used(<<>>) + z.n
        BY <2>1, <2>2, <2>3, UsedAppend
      <3>. QED BY <2>1, <2>3, <3>1, UsedNone
    <2>5. Used(Append(<<x>>, y)) = Used(<<x>>) + y.n
      BY <2>1, <2>2, <2>3, UsedAppend
    <2>6. Used(<<x, y>>) = 4
      <3>1. Used(<<x, y>>) = Used(Append(<<x>>, y))
        BY <2>3, Zenon
      <3>2. y.n = 2
        BY <2>1, Zenon
      <3>. HIDE DEF x, y
      <3>. QED BY <2>4, <2>5, <3>1, <3>2
    <2>. QED BY <2>3, <2>4, <2>6, Zenon
  <1>4. ASSUME NEW d \in Dests PROVE Sound(Preload(d))
    <2>1. EmptyRing.sec \in [Sectors -> Seq(LogEntry)] /\ 0 \in Sectors /\ 1 \in Sectors
      BY Sizes DEF EmptyRing, Sectors
    <2>2. Preload(d) = [sec |-> [EmptyRing.sec EXCEPT ![0] = a, ![1] = b], old |-> 0, act |-> 1,
            cur |-> 0]
      <3>1. Preload(d) = [EmptyRing EXCEPT !.sec[0] = a, !.sec[1] = b, !.act = 1]
        BY Zenon DEF Preload
      <3>. HIDE DEF a, b, e
      <3>. QED BY <3>1 DEF EmptyRing
    <2>. HIDE DEF a, b, e
    <2>3. Preload(d) \in RingsOf(LogEntry)
      <3>. DEFINE f == [EmptyRing.sec EXCEPT ![0] = a, ![1] = b]
      <3>1. f \in [Sectors -> Seq(LogEntry)]
        BY <1>3, <2>1
      <3>2. Preload(d) = [sec |-> f, old |-> 0, act |-> 1, cur |-> 0]
        BY <2>2
      <3>. HIDE DEF f
      <3>. QED BY <2>1, <3>1, <3>2 DEF RingsOf
    <2>4. ASSUME NEW s \in Sectors
          PROVE  Preload(d).sec[s] = IF s = 0 THEN a ELSE IF s = 1 THEN b ELSE <<>>
      BY <2>1, <2>2 DEF EmptyRing
    <2>5. Preload(d).old = 0 /\ Preload(d).act = 1
      BY <2>2
    <2>6. Clear(Preload(d))
      <3>. SUFFICES ASSUME NEW s \in Sectors, ~Between(Preload(d), s) PROVE Preload(d).sec[s] = <<>>
        BY DEF Clear
      <3>1. s # 0 /\ s # 1
        BY <2>5 DEF Between
      <3>. QED BY <2>4, <3>1
    <2>7. \A s \in Sectors : Used(Preload(d).sec[s]) <= Cap
      BY <1>3, <2>4, UsedNone, LogSizes
    <2>. QED BY <2>3, <2>6, <2>7 DEF Sound
  <1>5. ring \in [Dests -> RingsOf(LogEntry)]
    BY <1>1, <1>4 DEF Sound
  <1>. QED BY <1>1, <1>4, <1>5 DEF RingsSound

\* The types, and the flash behind them, hold always.
LEMMA FlashAlways == Spec => [](FlashType /\ RingsSound)
  <1>1. Init => FlashType /\ RingsSound
    BY TypeInit, RingsInit
  <1>2. FlashType /\ RingsSound /\ [Next]_fvars => (FlashType /\ RingsSound)'
    BY TypeStep, RingsStep
  <1>. QED BY <1>1, <1>2, PTL DEF Spec

\* Whatever the writer, the erase, a failing flash or a power loss in the middle
\* of an entry or of the erase of a sector does, each ring implements the log that
\* loses records from the old end only, with any number and size of sectors and
\* any remnants in the free ones (flash_log.c, flash_log_fastseek.c). Only a
\* recovery erase (fl_mount_fcb) that stops half-way is let take other records.
THEOREM LogKept == Spec => KeepsLog
  <1>1. FlashType /\ RingsSound /\ [Next]_fvars =>
          /\ [Tel!Extend \/ Tel!Expire \/ Tel!Wipe]_(log["tel"])
          /\ [Txt!Extend \/ Txt!Expire \/ Txt!Wipe]_(log["txt"])
    <2>. SUFFICES ASSUME FlashType, RingsSound, [Next]_fvars
                  PROVE  /\ [Tel!Extend \/ Tel!Expire \/ Tel!Wipe]_(log["tel"])
                         /\ [Txt!Extend \/ Txt!Expire \/ Txt!Wipe]_(log["txt"])
      OBVIOUS
    <2>1. RingMoves /\ log' = [d \in Dests |-> Stored(ring'[d])]
      BY Moves
    <2>2. \A d \in Dests : Keeps(log[d], log'[d]) \/ wipes'[d] = wipes[d] + 1
      BY <2>1, StepsKeep DEF RingMoves, Moved, RingsSound
    <2>3. /\ Keeps(log["tel"], log'["tel"]) \/ wipes'["tel"] = wipes["tel"] + 1
          /\ Keeps(log["txt"], log'["txt"]) \/ wipes'["txt"] = wipes["txt"] + 1
      BY <2>2 DEF Dests
    <2>. QED BY <2>3 DEF Keeps, Grows, Shrinks, Tel!Extend, Tel!Expire, Tel!Wipe,
                         Txt!Extend, Txt!Expire, Txt!Wipe
  <1>2. Spec => [](FlashType /\ RingsSound)
    BY FlashAlways
  <1>. QED BY <1>1, <1>2, PTL DEF Spec, KeepsLog, Tel!Spec, Txt!Spec

-----------------------------------------------------------------------------
(* Where the records are.                                                  *)

\* The records a flush has yet to write to ring d.
Pend(js, d) == UNION {Range(j.recs) : j \in {i \in Range(js) : i.d = d}}

LEMMA PendIn ==
  ASSUME NEW js \in Seq(Job), NEW d, NEW x
  PROVE  x \in Pend(js, d) <=> \E i \in 1..Len(js) : js[i].d = d /\ x \in Range(js[i].recs)
  <1>1. Range(js) = {js[i] : i \in 1..Len(js)}
    BY RangeFinite
  <1>. QED BY <1>1 DEF Pend

LEMMA PendFinite ==
  ASSUME NEW js \in Seq(Job), NEW d
  PROVE  IsFiniteSet(Pend(js, d)) /\ Pend(js, d) \in SUBSET Rec
  <1>. DEFINE g(i) == IF js[i].d = d THEN js[i].recs ELSE <<>>
              ss == [i \in 1..Len(js) |-> g(i)]
  <1>0. Len(js) \in Nat
    OBVIOUS
  <1>1. \A i \in 1..Len(js) : g(i) \in Seq(Rec)
    <2>1. \A i \in 1..Len(js) : js[i] \in Job
      OBVIOUS
    <2>. QED BY <2>1 DEF Job
  <1>2. \A x : \A i \in 1..Len(js) : x \in Range(g(i)) <=> js[i].d = d /\ x \in Range(js[i].recs)
    <2>1. Range(<<>>) = {}
      BY DEF Range
    <2>. QED BY <2>1
  <1>. HIDE DEF g
  <1>3. ss \in Seq(Seq(Rec)) /\ Len(ss) = Len(js) /\ \A i \in 1..Len(js) : ss[i] = g(i)
    BY <1>0, <1>1
  <1>. HIDE DEF ss
  <1>4. \A x : x \in Range(Concat(ss)) <=> \E i \in 1..Len(js) : x \in Range(g(i))
    <2>. SUFFICES ASSUME NEW x
                  PROVE  x \in Range(Concat(ss)) <=> \E i \in 1..Len(js) : x \in Range(g(i))
      OBVIOUS
    <2>1. x \in Range(Concat(ss)) <=> \E i \in 1..Len(ss) : x \in Range(ss[i])
      BY <1>3, ConcatRange
    <2>. QED BY <1>3, <2>1
  <1>5. \A x : x \in Pend(js, d) <=> x \in Range(Concat(ss))
    BY <1>2, <1>4, PendIn
  <1>6. Pend(js, d) = Range(Concat(ss))
    BY <1>5
  <1>7. Concat(ss) \in Seq(Rec)
    BY <1>3, ConcatType
  <1>. QED BY <1>6, <1>7, RangeFinite

LEMMA PendNone == \A d : Pend(<<>>, d) = {}
  BY DEF Pend, Range

LEMMA PendBoth ==
  ASSUME NEW x \in Seq(Job), NEW y \in Seq(Job), NEW d
  PROVE  Pend(x \o y, d) = Pend(x, d) \cup Pend(y, d)
  <1>1. Range(x \o y) = Range(x) \cup Range(y)
    BY RangeConcatenation
  <1>. QED BY <1>1 DEF Pend

LEMMA PendOne ==
  ASSUME NEW j \in Job, NEW d
  PROVE  Pend(<<j>>, d) = IF j.d = d THEN Range(j.recs) ELSE {}
  <1>1. Range(<<j>>) = {j}
    BY DEF Range
  <1>. QED BY <1>1 DEF Pend

LEMMA PendHead ==
  ASSUME NEW js \in Flushes, js # <<>>, NEW d
  PROVE  Pend(js, d) = (IF Head(js).d = d THEN Range(Head(js).recs) ELSE {}) \cup Pend(Tail(js), d)
  <1>1. js \in Seq(Job) /\ Head(js) \in Job /\ Tail(js) \in Seq(Job) /\ <<Head(js)>> \in Seq(Job)
    BY DEF Flushes
  <1>2. js = <<Head(js)>> \o Tail(js)
    BY <1>1
  <1>3. Pend(<<Head(js)>> \o Tail(js), d) = Pend(<<Head(js)>>, d) \cup Pend(Tail(js), d)
    <2>. DEFINE a == <<Head(js)>>
                b == Tail(js)
    <2>1. a \in Seq(Job) /\ b \in Seq(Job)
      BY <1>1
    <2>. HIDE DEF a, b
    <2>2. Pend(a \o b, d) = Pend(a, d) \cup Pend(b, d)
      BY <2>1, PendBoth
    <2>. QED BY <2>2, Zenon DEF a, b
  <1>. QED BY <1>1, <1>2, <1>3, PendOne

\* A flush writes each record to its ring, and markers to the other as well.
LEMMA PendFlush ==
  ASSUME NEW b \in Seq(Rec), Len(b) <= BatchCap, NEW d \in Dests
  PROVE  Pend(FlushJobs(b), d) = {r \in Range(b) : Dest(r) = d \/ r.k \in Markers}
  <1>. DEFINE x == <<DropJob("tel"), DropJob("txt")>>
              y == Concat(Ones(b))
              c == Concat(Rests(b))
              z == Container(c)
  <1>1. /\ Ones(b) \in Seq(Seq(Full)) /\ Rests(b) \in Seq(Seq(Rec)) /\ Len(Ones(b)) = Len(b)
        /\ Len(Rests(b)) = Len(b) /\ y \in Seq(Full) /\ c \in Seq(Rec) /\ z \in Seq(Full)
        /\ FlushJobs(b) \in Flushes /\ FlushJobs(b) = (x \o y) \o z
    BY JobsAre
  <1>2. DropJob("tel") \in Job /\ DropJob("txt") \in Job /\ Full \subseteq Job
    BY LogSizes DEF DropJob, Job, Dests, Full
  <1>3. x \in Seq(Job) /\ y \in Seq(Job) /\ z \in Seq(Job) /\ x \o y \in Seq(Job)
    BY <1>1, <1>2
  <1>4. Pend(x, d) = {}
    <2>1. x = <<DropJob("tel")>> \o <<DropJob("txt")>> /\ <<DropJob("tel")>> \in Seq(Job)
          /\ <<DropJob("txt")>> \in Seq(Job)
      BY <1>2
    <2>2. DropJob("tel").recs = <<>> /\ DropJob("txt").recs = <<>> /\ Range(<<>>) = {}
      BY DEF DropJob, Range
    <2>3. Pend(<<DropJob("tel")>>, d) = {} /\ Pend(<<DropJob("txt")>>, d) = {}
      BY <1>2, <2>2, PendOne
    <2>4. Pend(<<DropJob("tel")>> \o <<DropJob("txt")>>, d)
            = Pend(<<DropJob("tel")>>, d) \cup Pend(<<DropJob("txt")>>, d)
      <3>. DEFINE a == <<DropJob("tel")>>
                  e == <<DropJob("txt")>>
      <3>1. a \in Seq(Job) /\ e \in Seq(Job)
        BY <2>1
      <3>. HIDE DEF a, e
      <3>2. Pend(a \o e, d) = Pend(a, d) \cup Pend(e, d)
        BY <3>1, PendBoth
      <3>. QED BY <3>2, Zenon DEF a, e
    <2>. HIDE DEF x
    <2>. QED BY <2>1, <2>3, <2>4, Zenon
  <1>. HIDE DEF x, y, z
  <1>5. Pend(FlushJobs(b), d) = Pend(y, d) \cup Pend(z, d)
    <2>1. Pend(x \o y, d) = Pend(x, d) \cup Pend(y, d)
      BY <1>3, PendBoth
    <2>. DEFINE w == x \o y
    <2>2. Pend(w \o z, d) = Pend(w, d) \cup Pend(z, d)
      <3>1. w \in Seq(Job)
        BY <1>3
      <3>. HIDE DEF w
      <3>. QED BY <1>3, <3>1, PendBoth
    <2>3. Pend(FlushJobs(b), d) = Pend((x \o y) \o z, d)
      BY <1>1, Zenon
    <2>. QED BY <1>4, <2>1, <2>2, <2>3
  <1>6. b \in [1..Len(b) -> Rec] /\ Len(b) \in Nat /\ DOMAIN b = 1..Len(b)
        /\ Range(b) = {b[i] : i \in 1..Len(b)}
    BY RangeFinite
  <1>7. \A r : r \in Pend(y, d) <=> r \in Range(b) /\ IsSingle(r)
                 /\ (Dest(r) = d \/ r.k \in Markers)
    <2>. SUFFICES ASSUME NEW r
                  PROVE  r \in Pend(y, d) <=> r \in Range(b) /\ IsSingle(r)
                           /\ (Dest(r) = d \/ r.k \in Markers)
      OBVIOUS
    <2>1. \A j : j \in Range(y) <=> \E i \in 1..Len(b) : j \in Range(Ones(b)[i])
      BY <1>1, ConcatRange DEF y
    <2>2. \A i \in 1..Len(b) : Ones(b)[i] = IF IsSingle(b[i]) THEN Single(b[i]) ELSE <<>>
      BY <1>6 DEF Ones
    <2>3. ASSUME NEW i \in 1..Len(b), NEW j
          PROVE  j \in Range(Ones(b)[i]) /\ j.d = d /\ r \in Range(j.recs) =>
                   r = b[i] /\ IsSingle(r) /\ (Dest(r) = d \/ r.k \in Markers)
      <3>. SUFFICES ASSUME j \in Range(Ones(b)[i]), j.d = d, r \in Range(j.recs)
                    PROVE  r = b[i] /\ IsSingle(r) /\ (Dest(r) = d \/ r.k \in Markers)
        OBVIOUS
      <3>1. IsSingle(b[i]) /\ j \in Range(Single(b[i]))
        <4>1. Range(<<>>) = {}
          BY DEF Range
        <4>. QED BY <2>2, <4>1, Zenon
      <3>. DEFINE p == [d |-> Dest(b[i]), recs |-> <<b[i]>>, key |-> FALSE]
                  o == [d |-> Other(Dest(b[i])), recs |-> <<b[i]>>, key |-> TRUE]
      <3>2. Single(b[i]) = IF b[i].k \in Markers THEN <<p, o>> ELSE <<p>>
        BY DEF Single
      <3>3. p.d = Dest(b[i]) /\ p.recs = <<b[i]>> /\ o.d = Other(Dest(b[i])) /\ o.recs = <<b[i]>>
        OBVIOUS
      <3>. HIDE DEF p, o
      <3>4. Range(<<p, o>>) = {p, o} /\ Range(<<p>>) = {p} /\ Range(<<b[i]>>) = {b[i]}
        BY DEF Range
      <3>5. j = p \/ (b[i].k \in Markers /\ j = o)
        BY <3>1, <3>2, <3>4
      <3>. QED BY <3>1, <3>3, <3>4, <3>5
    <2>4. ASSUME NEW i \in 1..Len(b), r = b[i], IsSingle(r), Dest(r) = d \/ r.k \in Markers
          PROVE  \E j \in Range(Ones(b)[i]) : j.d = d /\ r \in Range(j.recs)
      <3>. DEFINE p == [d |-> Dest(r), recs |-> <<r>>, key |-> FALSE]
                  o == [d |-> Other(Dest(r)), recs |-> <<r>>, key |-> TRUE]
      <3>1. Ones(b)[i] = IF r.k \in Markers THEN <<p, o>> ELSE <<p>>
        BY <2>2, <2>4 DEF Single
      <3>2. p.d = Dest(r) /\ p.recs = <<r>> /\ o.d = Other(Dest(r)) /\ o.recs = <<r>>
        OBVIOUS
      <3>. HIDE DEF p, o
      <3>3. Range(<<p, o>>) = {p, o} /\ Range(<<p>>) = {p} /\ Range(<<r>>) = {r}
        BY DEF Range
      <3>4. Dest(r) = d \/ (r.k \in Markers /\ Other(Dest(r)) = d)
        BY <2>4 DEF Dest, Other, Dests
      <3>. QED BY <3>1, <3>2, <3>3, <3>4
    <2>. QED BY <1>6, <2>1, <2>3, <2>4 DEF Pend
  <1>8. \A r : r \in Pend(z, d) <=> r \in Range(b) /\ ~IsSingle(r)
                 /\ (Dest(r) = d \/ r.k \in Markers)
    <2>. SUFFICES ASSUME NEW r
                  PROVE  r \in Pend(z, d) <=> r \in Range(b) /\ ~IsSingle(r)
                           /\ (Dest(r) = d \/ r.k \in Markers)
      OBVIOUS
    <2>1. r \in Range(c) <=> \E i \in 1..Len(b) : r \in Range(Rests(b)[i])
      BY <1>1, ConcatRange
    <2>2. \A i \in 1..Len(b) : Rests(b)[i] = IF IsSingle(b[i]) THEN <<>> ELSE <<b[i]>>
      BY <1>6 DEF Rests
    <2>3. Range(<<>>) = {} /\ \A i \in 1..Len(b) : Range(<<b[i]>>) = {b[i]}
      BY DEF Range
    <2>4. r \in Range(c) <=> r \in Range(b) /\ ~IsSingle(r)
      BY <1>6, <2>1, <2>2, <2>3
    <2>5. ~IsSingle(r) => Dest(r) = "tel" /\ r.k \notin Markers
      BY DEF IsSingle, Dest
    <2>. DEFINE j == [d |-> "tel", recs |-> c, key |-> FALSE]
    <2>6. z = IF c = <<>> THEN <<>> ELSE <<j>>
      BY DEF z, Container
    <2>7. j.d = "tel" /\ j.recs = c
      OBVIOUS
    <2>. HIDE DEF j, c
    <2>8. Range(<<j>>) = {j}
      BY DEF Range
    <2>9. r \in Pend(z, d) <=> d = "tel" /\ r \in Range(c)
      <3>1. CASE c = <<>>
        BY <2>3, <2>6, <3>1, PendNone
      <3>2. CASE c # <<>>
        BY <2>6, <2>7, <2>8, <3>2 DEF Pend
      <3>. QED BY <3>1, <3>2
    <2>10. d = "tel" \/ d = "txt"
      BY DEF Dests
    <2>. QED BY <2>4, <2>5, <2>9, <2>10
  <1>. QED BY <1>5, <1>7, <1>8

-----------------------------------------------------------------------------
(* Where every record is.                                                  *)

\* On flash or once there since boot, or about to be written; and still in RAM.
Reached(d) == Known(d) \cup Pend(jobs, d)
Carried    == (Range(q) \cup Range(batch) \cup {held}) \ {NoRec}

\* No record is older than it says.
Dated(r) ==
  /\ r.k \in {"data", "dive", "text"} => r.n < NextNo
  /\ r.k = "boot" => r.in < boots \/ (r.in = boots /\ boot = "up")
  /\ r.k = "drop" => r.in <= boots

\* The records of ring d that are nowhere, and the markers that own up to them.
Lost(d)  == {r \in offered : Dest(r) = d /\ r \notin Reached(d) \cup Carried}
Owned(d) == {r \in Reached(d) : r.k = "drop" /\ r.in = boots}

Resting == pc # "flush" => held = NoRec /\ jobs = <<>> /\ \A r \in Range(batch) : r.k \notin Markers
Pending == \A d \in Dests : \A r \in Pend(jobs, d) : r.k = "drop" \/ r \in Range(batch)
AllDated ==
  /\ \A d \in Dests : \A r \in Reached(d) : Dated(r)
  /\ \A r \in Carried \cup offered : Dated(r) /\ r.k \notin {"drop", "none"}
\* A drop marker is newer than those before it, or has nothing left to count.
Fresh ==
  \A d \in Dests : \A r \in Owned(d) :
    r.at < Cardinality(offered) \/ (r.at = Cardinality(offered) /\ drops[d] = 0)
Harmed == faulty \/ ruined
Faithful ==
  ~Harmed =>
    /\ pc = "flush" => \A r \in Range(batch) : r \in Reached(Dest(r))
    /\ \A r \in offered : r.k \in Markers => (r \in Reached("tel") <=> r \in Reached("txt"))
    /\ \A d \in Dests : Cardinality(Lost(d)) = drops[d] + Total(Owned(d))
Tracked == Resting /\ Pending /\ AllDated /\ Fresh /\ Faithful

LEMMA Number == FlashType => NextNo \in Nat /\ budget.offers \in Nat /\ boots \in Nat
  BY LogSizes DEF FlashType, NextNo

LEMMA RangeFront ==
  ASSUME NEW T, NEW s \in Seq(T), s # <<>>
  PROVE  Range(s) = {Head(s)} \cup Range(Tail(s))
  <1>1. s = <<Head(s)>> \o Tail(s) /\ <<Head(s)>> \in Seq(T) /\ Tail(s) \in Seq(T)
    OBVIOUS
  <1>2. Range(<<Head(s)>> \o Tail(s)) = Range(<<Head(s)>>) \cup Range(Tail(s))
    <2>. DEFINE a == <<Head(s)>>
                b == Tail(s)
    <2>1. a \in Seq(T) /\ b \in Seq(T)
      BY <1>1
    <2>. HIDE DEF a, b
    <2>2. Range(a \o b) = Range(a) \cup Range(b)
      BY <2>1, RangeConcatenation
    <2>. QED BY <2>2, Zenon DEF a, b
  <1>. DEFINE h == Head(s)
  <1>. HIDE DEF h
  <1>3. Range(<<h>>) = {h}
    BY DEF Range
  <1>. QED BY <1>1, <1>2, <1>3 DEF h

LEMMA RangeMore ==
  ASSUME NEW T, NEW s \in Seq(T), NEW x \in T
  PROVE  Range(Append(s, x)) = Range(s) \cup {x}
  <1>1. Append(s, x) = s \o <<x>> /\ <<x>> \in Seq(T)
    OBVIOUS
  <1>2. Range(s \o <<x>>) = Range(s) \cup Range(<<x>>)
    <2>. DEFINE a == <<x>>
    <2>1. a \in Seq(T)
      BY <1>1
    <2>. HIDE DEF a
    <2>2. Range(s \o a) = Range(s) \cup Range(a)
      BY <2>1, RangeConcatenation
    <2>. QED BY <2>2, Zenon DEF a
  <1>3. Range(<<x>>) = {x}
    BY DEF Range
  <1>. QED BY <1>1, <1>2, <1>3

LEMMA KnownIs ==
  ASSUME FlashType, RingsSound, NEW d \in Dests
  PROVE  /\ log[d] \in Seq(Rec) /\ log[d] = Stored(ring[d])
         /\ IsFiniteSet(Reached(d)) /\ Reached(d) \in SUBSET Rec
  <1>1. log[d] \in Seq(Rec) /\ log[d] = Stored(ring[d])
    BY StoredType DEF RingsSound
  <1>2. IsFiniteSet(Range(log[d])) /\ Range(log[d]) \in SUBSET Rec
    BY <1>1, RangeFinite
  <1>3. IsFiniteSet(gone[d]) /\ gone[d] \in SUBSET Rec
    BY DEF FlashType
  <1>4. IsFiniteSet(Pend(jobs, d)) /\ Pend(jobs, d) \in SUBSET Rec
    BY PendFinite DEF FlashType, Flushes
  <1>5. IsFiniteSet(Range(log[d]) \cup gone[d])
    BY <1>2, <1>3, FS_Union
  <1>6. IsFiniteSet((Range(log[d]) \cup gone[d]) \cup Pend(jobs, d))
    BY <1>4, <1>5, FS_Union
  <1>. QED BY <1>1, <1>2, <1>3, <1>4, <1>6 DEF Reached, Known

LEMMA OwnedCounts ==
  ASSUME FlashType, RingsSound, NEW d \in Dests
  PROVE  Counts(Owned(d)) /\ Total(Owned(d)) \in Nat
  <1>1. Owned(d) \subseteq Reached(d) /\ Reached(d) \in SUBSET Rec /\ IsFiniteSet(Reached(d))
    BY KnownIs DEF Owned
  <1>2. \A r \in Rec : r.n \in Nat
    BY DEF Rec, Plain, BootRec, DropRec
  <1>3. Counts(Owned(d))
    BY <1>1, <1>2, FS_Subset DEF Counts
  <1>. QED BY <1>3, TotalStep

LEMMA DatedStays ==
  ASSUME FlashType, FlashType', NEW r \in Rec, Dated(r), boots' = boots,
         NextNo <= NextNo', boot = "up" => boot' = "up"
  PROVE  Dated(r)'
  <1>1. NextNo \in Nat /\ NextNo' \in Nat /\ boots \in Nat
    <2>1. NextNo \in Nat /\ boots \in Nat
      BY Number
    <2>2. NextNo' \in Nat
      <3>1. budget'.offers \in 0..MaxOffers
        BY DEF FlashType
      <3>. QED BY <3>1, LogSizes DEF NextNo
    <2>. QED BY <2>1, <2>2
  <1>2. r.n \in Nat
    BY DEF Rec, Plain, BootRec, DropRec
  <1>. DEFINE m == NextNo
              n == NextNo'
  <1>3. /\ m <= n /\ m \in Nat /\ n \in Nat
        /\ r.k \in {"data", "dive", "text"} => r.n < m
    BY <1>1 DEF Dated
  <1>. HIDE DEF m, n
  <1>4. r.k \in {"data", "dive", "text"} => r.n < n
    BY <1>2, <1>3
  <1>5. r.k \in {"data", "dive", "text"} => r.n < NextNo'
    BY <1>4 DEF n
  <1>. QED BY <1>5 DEF Dated

\* Nothing moves: what is reached stays so, unless the flash fails.
LEMMA StillTracked ==
  ASSUME FlashType, RingsSound, Tracked, FlashType',
         UNCHANGED <<queuevars, batch, held, pc, boots, offered>>,
         pc = "flush" \/ jobs' = jobs,
         \A d \in Dests : Pend(jobs, d)' \subseteq Pend(jobs, d)
                            /\ Reached(d)' \subseteq Reached(d),
         ~Harmed' => ~Harmed /\ \A d \in Dests : Reached(d)' = Reached(d),
         NextNo <= NextNo', boot = "up" => boot' = "up"
  PROVE  Tracked'
  <1>1. q' = q /\ drops' = drops /\ batch' = batch /\ held' = held /\ pc' = pc /\ boots' = boots
        /\ offered' = offered
    BY DEF queuevars
  <1>2. Carried' = Carried
    BY <1>1 DEF Carried
  <1>3. Resting'
    BY <1>1 DEF Tracked, Resting
  <1>4. Pending'
    BY <1>1 DEF Tracked, Pending
  <1>5. ASSUME NEW r \in Rec, Dated(r) PROVE Dated(r)'
    BY <1>1, <1>5, DatedStays
  <1>6. \A d \in Dests : Reached(d) \in SUBSET Rec
    BY KnownIs
  <1>7. Carried \cup offered \in SUBSET Rec
    <2>1. Range(q) \in SUBSET Rec /\ Range(batch) \in SUBSET Rec /\ held \in Rec
            /\ offered \in SUBSET Rec
      BY RangeOfSeq DEF FlashType
    <2>. QED BY <2>1 DEF Carried
  <1>8. AllDated'
    <2>1. ASSUME NEW d \in Dests, NEW r \in Reached(d)' PROVE Dated(r)'
      <3>1. r \in Reached(d) /\ r \in Rec
        BY <1>6
      <3>2. Dated(r)
        BY <3>1 DEF Tracked, AllDated
      <3>. QED BY <1>5, <3>1, <3>2
    <2>2. ASSUME NEW r \in (Carried \cup offered)' PROVE Dated(r)' /\ r.k \notin {"drop", "none"}
      <3>1. r \in Carried \cup offered /\ r \in Rec
        BY <1>1, <1>2, <1>7
      <3>2. Dated(r) /\ r.k \notin {"drop", "none"}
        BY <3>1 DEF Tracked, AllDated
      <3>. QED BY <1>5, <3>1, <3>2
    <2>. QED BY <2>1, <2>2 DEF AllDated
  <1>9. \A d \in Dests : Owned(d)' \subseteq Owned(d)
    BY <1>1 DEF Owned
  <1>10. Fresh'
    BY <1>1, <1>9 DEF Tracked, Fresh
  <1>11. Faithful'
    <2>. SUFFICES ASSUME ~Harmed'
                  PROVE  /\ pc' = "flush" => \A r \in Range(batch') : r \in Reached(Dest(r))'
                         /\ \A r \in offered' : r.k \in Markers =>
                              (r \in Reached("tel")' <=> r \in Reached("txt")')
                         /\ \A d \in Dests : Cardinality(Lost(d)') = drops'[d] + Total(Owned(d)')
      BY DEF Faithful
    <2>1. ~Harmed /\ \A d \in Dests : Reached(d)' = Reached(d)
      OBVIOUS
    <2>2. "tel" \in Dests /\ "txt" \in Dests /\ \A r : Dest(r) \in Dests
      BY DEF Dests, Dest
    <2>3. \A d \in Dests : Lost(d)' = Lost(d) /\ Owned(d)' = Owned(d)
      BY <1>1, <1>2, <2>1 DEF Lost, Owned
    <2>. QED BY <1>1, <2>1, <2>2, <2>3 DEF Tracked, Faithful
  <1>. QED BY <1>3, <1>4, <1>8, <1>10, <1>11 DEF Tracked

LEMMA BatchRoom ==
  ASSUME FlashType, ~BatchTakes
  PROVE  batch # <<>>
  <1>1. Len(<<>>) = 0 /\ ~(0 >= BatchCap)
    BY LogSizes
  <1>2. Len(batch) >= BatchCap
    BY LogSizes DEF FlashType, BatchTakes
  <1>. QED BY <1>1, <1>2, Zenon

\* The batch is filled, flushed and let go.
LEMMA MovesTracked ==
  ASSUME FlashType, RingsSound, Tracked, FlashType', WriterMoves, Track
  PROVE  Tracked'
  <1>1. /\ UNCHANGED <<bootvars, flagvars, ring, media, lock, indexvars, eraser, budget, history>>
        /\ CheckPause \/ TakeSlot \/ WaitEnds \/ EndFlush
    BY DEF WriterMoves
  <1>2. /\ boot' = boot /\ ring' = ring /\ budget' = budget /\ boots' = boots /\ offered' = offered
        /\ gone' = gone /\ Harmed' = Harmed /\ log' = log /\ drops' = drops
    BY <1>1 DEF Track, bootvars, history, CheckPause, TakeSlot, WaitEnds, EndFlush, queuevars,
                Harmed
  <1>3. NoRec.k = "none"
    BY DEF NoRec
  <1>4. /\ q \in Seq(Rec) /\ batch \in Seq(Rec) /\ held \in Rec /\ Len(batch) <= BatchCap
        /\ batch' \in Seq(Rec) /\ Len(batch') <= BatchCap
    BY DEF FlashType
  <1>5. jobs = <<>>
    BY <1>1 DEF Tracked, Resting, CheckPause, TakeSlot, WaitEnds, EndFlush
  <1>6. pc # "flush" => held = NoRec /\ \A r \in Range(batch) : r.k \notin Markers
    BY DEF Tracked, Resting
  <1>. DEFINE Still == /\ pc' # "flush" /\ jobs' = <<>> /\ held' = NoRec
                       /\ \A r \in Range(batch') : r.k \notin Markers
              Flush == pc' = "flush" /\ jobs' = FlushJobs(batch')
              Goes  == /\ Carried' \subseteq Carried
                       /\ ~Harmed => \A r \in Carried \ Carried' : r \in Reached(Dest(r))
  <1>7. Range(<<>>) = {}
    BY RangeNone
  <1>8. (Still \/ Flush) /\ Goes
    <2>1. CASE CheckPause
      <3>1. pc = "top" /\ pc' = "get" /\ q' = q /\ batch' = batch /\ held' = held /\ jobs' = jobs
        BY <2>1 DEF CheckPause, queuevars
      <3>. QED BY <1>5, <1>6, <3>1 DEF Carried
    <2>2. CASE WaitEnds
      <3>1. pc = "get" /\ q' = q /\ batch' = batch /\ held' = held /\ EndRound(batch)
        BY <2>2 DEF WaitEnds, queuevars
      <3>2. Goes
        BY <3>1 DEF Carried
      <3>3. Still \/ Flush
        BY <1>5, <1>6, <3>1 DEF EndRound, BeginFlush
      <3>. QED BY <3>2, <3>3
    <2>3. CASE TakeSlot
      <3>1. pc = "get" /\ q # <<>> /\ q' = Tail(q) /\ held = NoRec
        BY <1>6, <2>3 DEF TakeSlot
      <3>2. Range(q) = {Head(q)} \cup Range(q')
        BY <1>4, <3>1, RangeFront
      <3>3. Head(q) \in Rec
        BY <1>4, <3>1
      <3>4. CASE BatchTakes
        <4>1. /\ batch' = Append(batch, Head(q)) /\ held' = held
              /\ IF Head(q).k \in Markers THEN BeginFlush(batch') ELSE EndRound(batch')
          BY <2>3, <3>4 DEF TakeSlot
        <4>2. Range(batch') = Range(batch) \cup {Head(q)}
          BY <1>4, <3>3, <4>1, RangeMore
        <4>3. Goes
          BY <3>2, <4>1, <4>2 DEF Carried
        <4>4. batch' # <<>>
          BY <1>4, <3>3, <4>1
        <4>5. Still \/ Flush
          <5>1. CASE Head(q).k \in Markers
            BY <4>1, <4>4, <5>1 DEF BeginFlush
          <5>2. CASE Head(q).k \notin Markers
            BY <1>5, <1>6, <3>1, <4>1, <4>2, <4>4, <5>2 DEF BeginFlush, EndRound
          <5>. QED BY <5>1, <5>2
        <4>. QED BY <4>3, <4>5
      <3>5. CASE ~BatchTakes
        <4>1. held' = Head(q) /\ BeginFlush(batch) /\ batch' = batch
          BY <2>3, <3>5 DEF TakeSlot
        <4>2. Goes
          BY <3>1, <3>2, <4>1 DEF Carried
        <4>3. Flush
          BY <3>5, <4>1, BatchRoom DEF BeginFlush
        <4>. QED BY <4>2, <4>3
      <3>. QED BY <3>4, <3>5
    <2>4. CASE EndFlush
      <3>1. pc = "flush" /\ held' = NoRec /\ q' = q
        BY <2>4 DEF EndFlush, queuevars
      <3>2. ~Harmed => \A r \in Range(batch) : r \in Reached(Dest(r))
        BY <3>1 DEF Tracked, Faithful
      <3>3. CASE held = NoRec
        <4>1. batch' = <<>> /\ pc' = "top" /\ jobs' = jobs
          BY <2>4, <3>3 DEF EndFlush
        <4>2. Goes
          BY <1>7, <3>1, <3>2, <3>3, <4>1 DEF Carried
        <4>. QED BY <1>5, <1>7, <3>1, <4>1, <4>2
      <3>4. CASE held # NoRec
        <4>1. /\ batch' = <<held>>
              /\ IF held.k \in Markers THEN BeginFlush(batch') ELSE pc' = "top" /\ UNCHANGED jobs
          BY <2>4, <3>4 DEF EndFlush
        <4>2. Range(batch') = {held} /\ batch' # <<>>
          <5>1. Range(<<held>>) = {held} /\ <<held>> # <<>>
            BY DEF Range
          <5>. QED BY <4>1, <5>1
        <4>3. Goes
          BY <3>1, <3>2, <4>2 DEF Carried
        <4>4. Still \/ Flush
          BY <1>5, <3>1, <4>1, <4>2 DEF BeginFlush
        <4>. QED BY <4>3, <4>4
      <3>. QED BY <3>3, <3>4
    <2>. QED BY <1>1, <2>1, <2>2, <2>3, <2>4
  <1>. HIDE DEF Still, Flush, Goes
  <1>. DEFINE New(d) == IF Flush THEN {r \in Range(batch') : Dest(r) = d \/ r.k \in Markers} ELSE {}
  <1>9. ASSUME NEW d \in Dests
        PROVE  Pend(jobs, d) = {} /\ Pend(jobs, d)' = New(d) /\ Reached(d)' = Reached(d) \cup New(d)
    <2>1. Pend(jobs, d) = {}
      BY <1>5, PendNone
    <2>2. Pend(jobs, d)' = New(d)
      <3>1. CASE Flush
        <4>1. Pend(FlushJobs(batch'), d) = {r \in Range(batch') : Dest(r) = d \/ r.k \in Markers}
          BY <1>4, PendFlush
        <4>2. Pend(jobs, d)' = Pend(FlushJobs(batch'), d)
          BY <3>1 DEF Flush, Pend
        <4>. QED BY <3>1, <4>1, <4>2
      <3>2. CASE ~Flush
        <4>1. Pend(jobs, d)' = Pend(<<>>, d)
          BY <1>8, <3>2 DEF Still, Pend
        <4>. QED BY <3>2, <4>1, PendNone
      <3>. QED BY <3>1, <3>2
    <2>3. Known(d)' = Known(d)
      BY <1>2 DEF Known
    <2>. QED BY <2>1, <2>2, <2>3 DEF Reached
  <1>10. \A d \in Dests : New(d) \subseteq Range(batch')
    OBVIOUS
  <1>. HIDE DEF New
  <1>11. \A r : Dated(r)' <=> Dated(r)
    BY <1>2 DEF Dated, NextNo
  <1>12. ASSUME NEW r \in Range(batch')
         PROVE  Dated(r) /\ r.k # "drop" /\ (r \in offered => r \in Carried)
    <2>1. r \in Carried \/ r = NoRec
      BY <1>8 DEF Carried, Goes
    <2>2. \A x \in offered : x.k # "none"
      BY DEF Tracked, AllDated
    <2>3. NoRec.k \notin {"data", "dive", "text", "boot", "drop"}
      BY <1>3
    <2>4. Dated(NoRec)
      BY <2>3 DEF Dated
    <2>. QED BY <1>3, <2>1, <2>2, <2>3, <2>4 DEF Tracked, AllDated
  <1>13. Resting'
    BY <1>8 DEF Still, Flush, Resting
  <1>14. Pending'
    BY <1>9, <1>10 DEF Pending
  <1>15. AllDated'
    <2>1. ASSUME NEW d \in Dests, NEW r \in Reached(d)' PROVE Dated(r)'
      BY <1>9, <1>10, <1>11, <1>12 DEF Tracked, AllDated
    <2>2. (Carried \cup offered)' \subseteq Carried \cup offered
      BY <1>2, <1>8 DEF Goes
    <2>. QED BY <1>11, <2>1, <2>2 DEF Tracked, AllDated
  <1>16. \A d \in Dests : Owned(d)' = Owned(d)
    BY <1>2, <1>9, <1>10, <1>12 DEF Owned
  <1>17. Fresh'
    BY <1>2, <1>16 DEF Tracked, Fresh
  <1>18. Faithful'
    <2>. SUFFICES ASSUME ~Harmed
                  PROVE  /\ pc' = "flush" => \A r \in Range(batch') : r \in Reached(Dest(r))'
                         /\ \A r \in offered : r.k \in Markers =>
                              (r \in Reached("tel")' <=> r \in Reached("txt")')
                         /\ \A d \in Dests : Cardinality(Lost(d)') = drops[d] + Total(Owned(d)')
      BY <1>2 DEF Faithful
    <2>1. "tel" \in Dests /\ "txt" \in Dests /\ \A r : Dest(r) \in Dests
      BY DEF Dests, Dest
    <2>2. ASSUME pc' = "flush", NEW r \in Range(batch') PROVE r \in Reached(Dest(r))'
      <3>1. r \in New(Dest(r))
        BY <1>8, <2>2 DEF New, Still
      <3>. QED BY <1>9, <2>1, <3>1
    <2>3. ASSUME NEW r \in offered, r.k \in Markers
          PROVE  r \in Reached("tel")' <=> r \in Reached("txt")'
      <3>1. r \in Reached("tel") <=> r \in Reached("txt")
        BY <2>3 DEF Tracked, Faithful
      <3>2. r \in New("tel") <=> r \in New("txt")
        BY <2>3 DEF New
      <3>. QED BY <1>9, <2>1, <3>1, <3>2
    <2>4. ASSUME NEW d \in Dests PROVE Lost(d)' = Lost(d)
      <3>1. ASSUME NEW r \in offered, Dest(r) = d
            PROVE  r \in Reached(d)' \cup Carried' <=> r \in Reached(d) \cup Carried
        <4>1. r \in New(d) => r \in Carried
          BY <1>10, <1>12, <3>1
        <4>2. r \in Carried => r \in Carried' \/ r \in Reached(d)
          BY <1>8, <3>1 DEF Goes
        <4>3. Carried' \subseteq Carried
          BY <1>8 DEF Goes
        <4>. QED BY <1>9, <4>1, <4>2, <4>3
      <3>. QED BY <1>2, <3>1 DEF Lost
    <2>5. \A d \in Dests : Cardinality(Lost(d)) = drops[d] + Total(Owned(d))
      BY DEF Tracked, Faithful
    <2>. QED BY <1>16, <2>2, <2>3, <2>4, <2>5
  <1>. QED BY <1>13, <1>14, <1>15, <1>17, <1>18 DEF Tracked

\* A record is offered: it is queued, or counted as dropped.
LEMMA OfferTracked ==
  ASSUME FlashType, RingsSound, Tracked, FlashType',
         UNCHANGED <<batch, held, pc, jobs, log, gone, boots, Harmed>>,
         NEW rec \in Rec, fl_enqueue(rec), offered' = offered \cup {rec},
         rec.k \notin {"drop", "none"}, ~Dated(rec), Dated(rec)',
         NextNo <= NextNo', boot = "up" => boot' = "up"
  PROVE  Tracked'
  <1>1. /\ batch' = batch /\ held' = held /\ pc' = pc /\ jobs' = jobs /\ log' = log /\ gone' = gone
        /\ boots' = boots /\ Harmed' = Harmed
    OBVIOUS
  <1>2. \A d : Reached(d)' = Reached(d) /\ Pend(jobs, d)' = Pend(jobs, d)
    BY <1>1 DEF Reached, Known, Pend
  <1>3. \A d : Owned(d)' = Owned(d)
    BY <1>1, <1>2 DEF Owned
  <1>. DEFINE Queued == Len(q) < QueueDepth
  <1>4. /\ Queued => drops' = drops /\ Carried' = Carried \cup {rec}
        /\ ~Queued => drops' = [drops EXCEPT ![Dest(rec)] = @ + 1] /\ Carried' = Carried
    <2>1. CASE Queued
      <3>1. q' = Append(q, rec) /\ drops' = drops
        BY <2>1 DEF fl_enqueue
      <3>2. Range(q') = Range(q) \cup {rec}
        BY <3>1, RangeMore DEF FlashType
      <3>3. rec # NoRec
        BY DEF NoRec
      <3>. QED BY <1>1, <2>1, <3>1, <3>2, <3>3 DEF Carried
    <2>2. CASE ~Queued
      <3>1. q' = q /\ drops' = [drops EXCEPT ![Dest(rec)] = @ + 1]
        BY <2>2 DEF fl_enqueue
      <3>. QED BY <1>1, <2>2, <3>1 DEF Carried
    <2>. QED BY <2>1, <2>2
  <1>. HIDE DEF Queued
  <1>5. rec \notin offered \cup Carried /\ \A d \in Dests : rec \notin Reached(d)
    BY DEF Tracked, AllDated
  <1>6. ASSUME NEW r \in Rec, Dated(r) PROVE Dated(r)'
    BY <1>1, <1>6, DatedStays
  <1>7. \A d \in Dests : Reached(d) \in SUBSET Rec
    BY KnownIs
  <1>8. Carried \cup offered \in SUBSET Rec
    <2>1. Range(q) \in SUBSET Rec /\ Range(batch) \in SUBSET Rec /\ held \in Rec
            /\ offered \in SUBSET Rec
      BY RangeOfSeq DEF FlashType
    <2>. QED BY <2>1 DEF Carried
  <1>9. /\ IsFiniteSet(offered) /\ Cardinality(offered) \in Nat
        /\ Cardinality(offered') = Cardinality(offered) + 1
    <2>1. IsFiniteSet(offered)
      BY DEF FlashType
    <2>. QED BY <1>5, <2>1, FS_AddElement, FS_CardinalityType
  <1>10. Resting'
    BY <1>1 DEF Tracked, Resting
  <1>11. Pending'
    BY <1>1, <1>2 DEF Tracked, Pending
  <1>12. AllDated'
    <2>1. ASSUME NEW d \in Dests, NEW r \in Reached(d)' PROVE Dated(r)'
      BY <1>2, <1>6, <1>7 DEF Tracked, AllDated
    <2>2. ASSUME NEW r \in (Carried \cup offered)' PROVE Dated(r)' /\ r.k \notin {"drop", "none"}
      <3>1. r = rec \/ r \in Carried \cup offered
        BY <1>4
      <3>2. CASE r = rec
        BY <3>2
      <3>3. CASE r \in Carried \cup offered
        BY <1>6, <1>8, <3>3 DEF Tracked, AllDated
      <3>. QED BY <3>1, <3>2, <3>3
    <2>. QED BY <2>1, <2>2 DEF AllDated
  <1>13. Fresh'
    <2>1. ASSUME NEW d \in Dests, NEW r \in Owned(d)
          PROVE  r.at < Cardinality(offered')
      <3>1. r \in Rec /\ r.k = "drop"
        BY <1>7 DEF Owned
      <3>2. r.at \in Nat
        BY <3>1 DEF Rec, Plain, BootRec, DropRec
      <3>3. r.at < Cardinality(offered) \/ r.at = Cardinality(offered)
        BY DEF Tracked, Fresh
      <3>. QED BY <1>9, <3>2, <3>3
    <2>. QED BY <1>3, <2>1 DEF Fresh
  <1>14. Faithful'
    <2>. SUFFICES ASSUME ~Harmed
                  PROVE  /\ pc' = "flush" => \A r \in Range(batch') : r \in Reached(Dest(r))'
                         /\ \A r \in offered' : r.k \in Markers =>
                              (r \in Reached("tel")' <=> r \in Reached("txt")')
                         /\ \A d \in Dests : Cardinality(Lost(d)') = drops'[d] + Total(Owned(d)')
      BY <1>1 DEF Faithful
    <2>1. "tel" \in Dests /\ "txt" \in Dests /\ \A r : Dest(r) \in Dests
      BY DEF Dests, Dest
    <2>2. /\ pc = "flush" => \A r \in Range(batch) : r \in Reached(Dest(r))
          /\ \A r \in offered : r.k \in Markers => (r \in Reached("tel") <=> r \in Reached("txt"))
          /\ \A d \in Dests : Cardinality(Lost(d)) = drops[d] + Total(Owned(d))
      BY DEF Tracked, Faithful
    <2>3. ASSUME NEW d \in Dests
          PROVE  Cardinality(Lost(d)') = drops'[d] + Total(Owned(d)')
      <3>1. drops[d] \in Nat /\ Total(Owned(d)) \in Nat
        BY OwnedCounts DEF FlashType
      <3>2. CASE Queued \/ Dest(rec) # d
        <4>1. Lost(d)' = Lost(d)
          BY <1>2, <1>4, <1>5, <3>2 DEF Lost
        <4>2. drops'[d] = drops[d]
          BY <1>4, <3>2 DEF FlashType
        <4>. QED BY <1>3, <2>2, <4>1, <4>2
      <3>3. CASE ~Queued /\ Dest(rec) = d
        <4>1. Lost(d)' = Lost(d) \cup {rec} /\ rec \notin Lost(d)
          BY <1>2, <1>4, <1>5, <3>3 DEF Lost
        <4>2. IsFiniteSet(Lost(d))
          <5>1. Lost(d) \subseteq offered
            BY DEF Lost
          <5>. QED BY <1>9, <5>1, FS_Subset
        <4>3. Cardinality(Lost(d)') = Cardinality(Lost(d)) + 1 /\ Cardinality(Lost(d)) \in Nat
          BY <4>1, <4>2, FS_AddElement, FS_CardinalityType
        <4>4. drops'[d] = drops[d] + 1
          BY <1>4, <3>3 DEF FlashType
        <4>. QED BY <1>3, <2>2, <3>1, <4>3, <4>4
      <3>. QED BY <3>2, <3>3
    <2>. QED BY <1>1, <1>2, <1>5, <2>1, <2>2, <2>3
  <1>. QED BY <1>10, <1>11, <1>12, <1>13, <1>14 DEF Tracked

\* A count of drops becomes a drop marker.
LEMMA DropTracked ==
  ASSUME FlashType, RingsSound, Tracked, FlashType', CountDrops, log' = log, drops[Target] > 0
  PROVE  Tracked'
  <1>. DEFINE t == Target
              m == [k |-> "drop", n |-> drops[t], at |-> Cardinality(offered), in |-> boots]
              j == [d |-> t, recs |-> <<m>>, key |-> FALSE]
  <1>1. /\ pc = "flush" /\ jobs # <<>> /\ Head(jobs).recs = <<>>
        /\ drops' = [drops EXCEPT ![t] = 0] /\ jobs' = <<j>> \o Tail(jobs)
        /\ UNCHANGED <<bootvars, flagvars, q, batch, held, pc, ring, media, lock, indexvars,
                       eraser, budget, history>>
    BY DEF CountDrops, Target
  <1>2. /\ boot' = boot /\ budget' = budget /\ boots' = boots /\ offered' = offered /\ q' = q
        /\ gone' = gone /\ Harmed' = Harmed /\ log' = log /\ batch' = batch /\ held' = held
             /\ pc' = pc
    BY <1>1 DEF bootvars, history, Harmed
  <1>3. t \in Dests /\ Head(jobs) \in Job /\ Tail(jobs) \in Seq(Job) /\ Head(jobs).d = t
    BY <1>1, HeadJob DEF Flushes, Target
  <1>4. drops[t] \in Nat /\ drops[t] > 0 /\ boots \in Nat /\ IsFiniteSet(offered)
        /\ Cardinality(offered) \in Nat
    BY <1>3, FS_CardinalityType DEF FlashType
  <1>5. m \in Rec /\ m.k = "drop" /\ m.n = drops[t] /\ m.at = Cardinality(offered) /\ m.in = boots
    BY <1>4 DEF Rec, DropRec
  <1>. HIDE DEF m
  <1>6. j \in Job /\ j.d = t /\ j.recs = <<m>> /\ <<j>> \in Seq(Job)
    BY <1>3, <1>5, LogSizes DEF Job
  <1>. HIDE DEF j, t
  <1>7. Range(<<m>>) = {m} /\ Range(<<>>) = {}
    BY DEF Range
  <1>8. ASSUME NEW d \in Dests
        PROVE  Pend(jobs, d)' = Pend(jobs, d) \cup (IF d = t THEN {m} ELSE {})
    <2>1. Pend(jobs, d) = Pend(Tail(jobs), d)
      <3>1. Pend(jobs, d) = (IF Head(jobs).d = d THEN Range(Head(jobs).recs) ELSE {})
              \cup Pend(Tail(jobs), d)
        BY <1>1, PendHead DEF FlashType
      <3>. QED BY <1>1, <1>7, <3>1
    <2>2. Pend(<<j>> \o Tail(jobs), d) = Pend(<<j>>, d) \cup Pend(Tail(jobs), d)
      <3>. DEFINE a == <<j>>
                  b == Tail(jobs)
      <3>1. a \in Seq(Job) /\ b \in Seq(Job)
        BY <1>3, <1>6
      <3>. HIDE DEF a, b
      <3>2. Pend(a \o b, d) = Pend(a, d) \cup Pend(b, d)
        BY <3>1, PendBoth
      <3>. QED BY <3>2, Zenon DEF a, b
    <2>3. Pend(<<j>>, d) = IF j.d = d THEN Range(j.recs) ELSE {}
      BY <1>6, PendOne
    <2>4. Pend(jobs, d)' = Pend(<<j>> \o Tail(jobs), d)
      BY <1>1 DEF Pend
    <2>. QED BY <1>6, <1>7, <2>1, <2>2, <2>3, <2>4
  <1>9. ASSUME NEW d \in Dests
        PROVE  Reached(d)' = Reached(d) \cup (IF d = t THEN {m} ELSE {})
    <2>1. Known(d)' = Known(d)
      BY <1>2 DEF Known
    <2>. QED BY <1>8, <2>1 DEF Reached
  <1>10. Carried' = Carried
    BY <1>2 DEF Carried
  <1>11. \A r : Dated(r)' <=> Dated(r)
    BY <1>2 DEF Dated, NextNo
  <1>12. Dated(m)
    BY <1>4, <1>5 DEF Dated
  <1>13. m \notin Reached(t) /\ m \notin offered
    <2>1. ~(drops[t] = 0) /\ ~(Cardinality(offered) < Cardinality(offered))
      BY <1>4
    <2>2. m \notin Owned(t)
      BY <1>3, <1>5, <2>1 DEF Tracked, Fresh
    <2>. QED BY <1>5, <2>2 DEF Owned, Tracked, AllDated
  <1>14. Resting'
    BY <1>1, <1>2 DEF Resting
  <1>15. Pending'
    BY <1>2, <1>5, <1>8 DEF Tracked, Pending
  <1>16. AllDated'
    BY <1>2, <1>9, <1>10, <1>11, <1>12 DEF Tracked, AllDated
  <1>17. \A d \in Dests : Owned(d)' = Owned(d) \cup (IF d = t THEN {m} ELSE {})
    BY <1>2, <1>5, <1>9 DEF Owned
  <1>18. /\ drops'[t] = 0 /\ \A d \in Dests : d # t => drops'[d] = drops[d]
    BY <1>1, <1>3 DEF FlashType
  <1>19. Fresh'
    <2>1. ASSUME NEW d \in Dests, NEW r \in Owned(d)'
          PROVE  r.at < Cardinality(offered) \/ (r.at = Cardinality(offered) /\ drops'[d] = 0)
      <3>1. CASE r \in Owned(d)
        BY <1>18, <3>1 DEF Tracked, Fresh
      <3>2. CASE r \notin Owned(d)
        BY <1>5, <1>17, <1>18, <3>2
      <3>. QED BY <3>1, <3>2
    <2>. QED BY <1>2, <2>1 DEF Fresh
  <1>20. Faithful'
    <2>. SUFFICES ASSUME ~Harmed
                  PROVE  /\ pc' = "flush" => \A r \in Range(batch') : r \in Reached(Dest(r))'
                         /\ \A r \in offered' : r.k \in Markers =>
                              (r \in Reached("tel")' <=> r \in Reached("txt")')
                         /\ \A d \in Dests : Cardinality(Lost(d)') = drops'[d] + Total(Owned(d)')
      BY <1>2 DEF Faithful
    <2>1. "tel" \in Dests /\ "txt" \in Dests /\ \A r : Dest(r) \in Dests
      BY DEF Dests, Dest
    <2>2. /\ pc = "flush" => \A r \in Range(batch) : r \in Reached(Dest(r))
          /\ \A r \in offered : r.k \in Markers => (r \in Reached("tel") <=> r \in Reached("txt"))
          /\ \A d \in Dests : Cardinality(Lost(d)) = drops[d] + Total(Owned(d))
      BY DEF Tracked, Faithful
    <2>3. ASSUME NEW d \in Dests
          PROVE  Cardinality(Lost(d)') = drops'[d] + Total(Owned(d)')
      <3>1. Lost(d)' = Lost(d)
        BY <1>2, <1>9, <1>10, <1>13 DEF Lost
      <3>2. drops[d] \in Nat /\ Counts(Owned(d)) /\ Total(Owned(d)) \in Nat
        BY OwnedCounts DEF FlashType
      <3>3. CASE d # t
        BY <1>17, <1>18, <2>2, <3>1, <3>3
      <3>4. CASE d = t
        <4>1. Owned(d)' = Owned(d) \cup {m} /\ m \notin Owned(d)
          BY <1>13, <1>17, <3>4 DEF Owned
        <4>2. Total(Owned(d) \cup {m}) = Total(Owned(d)) + m.n
          BY <1>4, <1>5, <3>2, <4>1, TotalMore
        <4>. QED BY <1>4, <1>5, <1>18, <2>2, <3>1, <3>2, <3>4, <4>1, <4>2
      <3>. QED BY <3>3, <3>4
    <2>. QED BY <1>2, <1>9, <1>13, <2>1, <2>2, <2>3
  <1>. QED BY <1>14, <1>15, <1>16, <1>19, <1>20 DEF Tracked

LEMMA TrackIs ==
  ASSUME RingsSound, Track
  PROVE  log' = [d \in Dests |-> Stored(ring'[d])]
  BY DEF Track, RingsSound

LEMMA Later ==
  ASSUME FlashType, budget' = budget \/ Spend("trouble")
  PROVE  NextNo' = NextNo
  <1>1. budget'.offers = budget.offers
    BY Spends
  <1>. QED BY <1>1 DEF NextNo

LEMMA MainTracked ==
  ASSUME FlashType, RingsSound, Tracked, FlashType', MainStep
  PROVE  Tracked'
  <1>1. /\ UNCHANGED <<queuevars, writer, lock, indexvars, eraser, saver, holder, boots, offered,
             gone, ruined>>
        /\ Track
        /\ (\E d \in Dests : Mount(d) \/ MountRecovers(d)) \/ CountBoot
    BY DEF MainStep
  <1>2. /\ jobs' = jobs /\ gone' = gone /\ batch' = batch /\ held' = held /\ pc' = pc
             /\ boots' = boots
        /\ offered' = offered /\ queuevars' = queuevars
    BY <1>1 DEF writer
  <1>3. log' = [d \in Dests |-> Stored(ring'[d])]
    BY <1>1, TrackIs
  <1>4. boot # "up"
    BY <1>1 DEF Mount, MountRecovers, CountBoot, Dests
  <1>5. NextNo <= NextNo'
    <2>1. budget' = budget \/ Spend("trouble")
      BY <1>1 DEF Mount, MountRecovers, CountBoot
    <2>2. NextNo' = NextNo /\ NextNo \in Nat
      BY <2>1, Later, Number
    <2>. QED BY <2>2
  <1>6. ~Harmed' => ~Harmed
    <2>1. (faulty' = faulty \/ faulty' = TRUE) /\ ruined' = ruined
      BY <1>1 DEF Mount, MountRecovers, CountBoot
    <2>. QED BY <2>1 DEF Harmed
  <1>7. ASSUME NEW d \in Dests
        PROVE  Range(log'[d]) \subseteq Range(log[d]) /\ (~Harmed' => log'[d] = log[d])
    <2>1. log'[d] = Stored(ring'[d]) /\ log[d] = Stored(ring[d])
      BY <1>3 DEF RingsSound
    <2>2. ASSUME NEW e \in Dests, Mount(e) PROVE log'[d] = log[d]
      <3>1. PICK new \in Reopened(ring[e], clean[e][ring[e].act]) :
              ring' = [ring EXCEPT ![e] = new]
        BY <2>2 DEF Mount
      <3>2. Stored(new) = Stored(ring[e])
        BY ReopenedSound DEF RingsSound
      <3>. QED BY <2>1, <3>1, <3>2 DEF RingsSound
    <2>3. ASSUME NEW e \in Dests, MountRecovers(e)
                 PROVE  Harmed' /\ Range(log'[d]) \subseteq Range(log[d])
      <3>1. Recovers(e) /\ Harmed'
        BY <2>3, RecoversIs DEF MountRecovers, Harmed
      <3>2. PICK new : ring' = [ring EXCEPT ![e] = new]
                       /\ Range(Stored(new)) \subseteq Range(Stored(ring[e]))
        BY <3>1 DEF Recovers
      <3>. QED BY <2>1, <3>1, <3>2 DEF RingsSound
    <2>4. ASSUME CountBoot PROVE log'[d] = log[d]
      BY <2>1, <2>4 DEF CountBoot
    <2>. QED BY <1>1, <2>2, <2>3, <2>4
  <1>8. \A d \in Dests : Pend(jobs, d)' = Pend(jobs, d)
    BY <1>2 DEF Pend
  <1>9. \A d \in Dests : Reached(d)' \subseteq Reached(d) /\ (~Harmed' => Reached(d)' = Reached(d))
    BY <1>2, <1>7, <1>8 DEF Reached, Known
  <1>. QED BY <1>2, <1>4, <1>5, <1>6, <1>8, <1>9, StillTracked

LEMMA ProduceTracked ==
  ASSUME FlashType, RingsSound, Tracked, FlashType', Produce
  PROVE  Tracked'
  <1>1. /\ UNCHANGED <<writer, ring, lock, indexvars, eraser, flagvars, boots, gone, faulty, ruined>>
        /\ Track
        /\ RecordBootMarker \/ OfferEarly \/ Offer(Telemetry) \/ Offer(DiveMarker) \/ Offer(Text)
    BY DEF Produce, Listeners, TextBackend
  <1>2. /\ jobs' = jobs /\ gone' = gone /\ batch' = batch /\ held' = held /\ pc' = pc
             /\ boots' = boots
        /\ Harmed' = Harmed /\ log' = log
    BY <1>1 DEF writer, Track, Harmed
  <1>3. NextNo \in Nat /\ boots \in Nat
    BY Number
  <1>4. CASE RecordBootMarker
    <2>0. PICK m : m = [k |-> "boot", n |-> bootId.ram, in |-> boots]
      OBVIOUS
    <2>1. /\ boot = "marker" /\ boot' = "up" /\ fl_enqueue(m) /\ offered' = offered \cup {m}
          /\ budget' = budget
      BY <1>4, <2>0 DEF RecordBootMarker
    <2>2. m \in Rec
      BY <2>0, OfferedIs
    <2>3. m.k = "boot" /\ m.in = boots
      BY <2>0
    <2>4. ~Dated(m)
      BY <1>3, <2>1, <2>3 DEF Dated
    <2>5. Dated(m)'
      BY <1>2, <2>1, <2>3 DEF Dated
    <2>6. NextNo <= NextNo'
      BY <1>3, <2>1 DEF NextNo
    <2>. QED BY <1>2, <2>1, <2>2, <2>3, <2>4, <2>5, <2>6, OfferTracked
  <1>5. ASSUME NEW rec \in {Telemetry, DiveMarker, Text}, Offer(rec) PROVE Tracked'
    <2>1. /\ Spend("offers") /\ fl_enqueue(rec) /\ offered' = offered \cup {rec} /\ boot' = boot
      BY <1>5 DEF Offer, bootvars
    <2>2. budget.offers > 0 /\ budget'.offers = budget.offers - 1
      BY <2>1, Spends
    <2>3. rec \in Rec /\ rec.n = NextNo /\ rec.k \in {"data", "dive", "text"}
      BY <2>2, OfferedIs DEF Telemetry, DiveMarker, Text
    <2>4. NextNo' = NextNo + 1
      BY <2>2, LogSizes DEF FlashType, NextNo
    <2>5. ~Dated(rec) /\ Dated(rec)'
      <3>1. ~(NextNo < NextNo) /\ NextNo < NextNo'
        BY <1>3, <2>4
      <3>. QED BY <2>3, <3>1 DEF Dated
    <2>6. NextNo <= NextNo' /\ (boot = "up" => boot' = "up")
      BY <1>3, <2>1, <2>4
    <2>. QED BY <1>2, <2>1, <2>3, <2>5, <2>6, OfferTracked
  <1>6. CASE OfferEarly
    <2>1. /\ Spend("offers") /\ boot' = boot /\ queuevars' = queuevars /\ offered' = offered
      BY <1>6 DEF OfferEarly, bootvars
    <2>2. budget.offers > 0 /\ budget'.offers = budget.offers - 1
      BY <2>1, Spends
    <2>3. NextNo <= NextNo'
      <3>1. NextNo' = NextNo + 1
        BY <2>2, LogSizes DEF FlashType, NextNo
      <3>. QED BY <1>3, <3>1
    <2>4. \A d \in Dests : Pend(jobs, d)' = Pend(jobs, d) /\ Reached(d)' = Reached(d)
      BY <1>2 DEF Pend, Reached, Known
    <2>. QED BY <1>2, <2>1, <2>3, <2>4, StillTracked
  <1>. QED BY <1>1, <1>4, <1>5, <1>6

\* Entries are written, or fail to be; room is made for them.
LEMMA WritesTracked ==
  ASSUME FlashType, RingsSound, Tracked, FlashType', Track,
         CountDrops \/ MakeRoom \/ WriteEntry \/ WriteFails
  PROVE  Tracked'
  <1>0. log' = [d \in Dests |-> Stored(ring'[d])] /\ mounted \subseteq Dests
    BY TrackIs DEF FlashType
  <1>1. CASE CountDrops
    <2>1. /\ pc = "flush" /\ jobs # <<>> /\ Head(jobs).recs = <<>>
          /\ UNCHANGED <<bootvars, flagvars, q, batch, held, pc, ring, media, lock, indexvars,
                         eraser, budget, history>>
      BY <1>1 DEF CountDrops
    <2>2. log' = log /\ drops[Target] \in Nat
      BY <2>1, HeadJob DEF Track, FlashType
    <2>3. CASE drops[Target] > 0
      BY <1>1, <2>2, <2>3, DropTracked
    <2>4. CASE ~(drops[Target] > 0)
      <3>1. /\ jobs' = (IF Target = "tel" /\ drops["txt"] = 0 THEN Tail(Tail(jobs)) ELSE Tail(jobs))
            /\ drops' = drops
        BY <1>1, <2>4 DEF CountDrops, Target
      <3>2. ASSUME NEW d \in Dests PROVE Pend(jobs, d)' = Pend(jobs, d)
        <4>1. Pend(jobs, d) = Pend(Tail(jobs), d)
          <5>1. Pend(jobs, d) = (IF Head(jobs).d = d THEN Range(Head(jobs).recs) ELSE {})
                  \cup Pend(Tail(jobs), d)
            BY <2>1, PendHead DEF FlashType
          <5>. QED BY <2>1, <5>1, RangeNone
        <4>2. CASE Target = "tel" /\ drops["txt"] = 0
          <5>1. Tail(jobs) # <<>> /\ Head(Tail(jobs)).recs = <<>> /\ Tail(jobs) \in Flushes
            BY <2>1, <4>2, FlushesTail DEF Target, FlashType
          <5>2. Pend(Tail(jobs), d) =
                  (IF Head(Tail(jobs)).d = d THEN Range(Head(Tail(jobs)).recs) ELSE {})
                                        \cup Pend(Tail(Tail(jobs)), d)
            BY <5>1, PendHead
          <5>3. Pend(jobs, d)' = Pend(Tail(Tail(jobs)), d)
            BY <3>1, <4>2 DEF Pend
          <5>. QED BY <4>1, <5>1, <5>2, <5>3, RangeNone
        <4>3. CASE ~(Target = "tel" /\ drops["txt"] = 0)
          <5>1. Pend(jobs, d)' = Pend(Tail(jobs), d)
            BY <3>1, <4>3 DEF Pend
          <5>. QED BY <4>1, <5>1
        <4>. QED BY <4>2, <4>3
      <3>3. /\ gone' = gone /\ batch' = batch /\ held' = held /\ pc' = pc /\ boots' = boots
            /\ offered' = offered /\ queuevars' = queuevars /\ Harmed' = Harmed /\ boot' = boot
            /\ budget' = budget
        BY <2>1, <3>1 DEF bootvars, history, queuevars, Harmed
      <3>4. \A d \in Dests : Reached(d)' = Reached(d)
        BY <2>2, <3>2, <3>3 DEF Reached, Known
      <3>5. NextNo <= NextNo'
        BY <3>3, Number DEF NextNo
      <3>. QED BY <2>1, <3>2, <3>3, <3>4, <3>5, StillTracked
    <2>. QED BY <2>3, <2>4
  <1>2. CASE MakeRoom
    <2>1. /\ Writing /\ Target \in mounted /\ ring' = [ring EXCEPT ![Target] = Rotate(ring[Target])]
          /\ gone' = [gone EXCEPT ![Target] = gone[Target] \cup Expired(ring[Target])]
          /\ UNCHANGED <<bootvars, flagvars, queuevars, writer, indexvars, eraser, budget, boots,
                         offered, faulty, ruined>>
      BY <1>2 DEF MakeRoom, Overflows, RingsSound, FlashType
    <2>2. Target \in Dests
      BY <1>0, <2>1
    <2>3. Range(Stored(ring[Target])) = Expired(ring[Target])
            \cup Range(Stored(Rotate(ring[Target])))
      BY <2>2, ExpiredIs DEF RingsSound
    <2>4. ASSUME NEW d \in Dests PROVE Known(d)' = Known(d)
      <3>1. log'[d] = Stored(ring'[d]) /\ log[d] = Stored(ring[d])
        BY <1>0 DEF RingsSound
      <3>2. /\ d = Target => ring'[d] = Rotate(ring[Target])
                 /\ gone'[d] = gone[d] \cup Expired(ring[Target])
            /\ d # Target => ring'[d] = ring[d] /\ gone'[d] = gone[d]
        BY <2>1, <2>2 DEF RingsSound, FlashType
      <3>. QED BY <2>3, <3>1, <3>2 DEF Known
    <2>5. /\ jobs' = jobs /\ batch' = batch /\ held' = held /\ pc' = pc /\ boots' = boots
          /\ offered' = offered /\ queuevars' = queuevars /\ Harmed' = Harmed /\ boot' = boot
          /\ budget' = budget
      BY <2>1 DEF bootvars, writer, Harmed
    <2>6. \A d \in Dests : Pend(jobs, d)' = Pend(jobs, d) /\ Reached(d)' = Reached(d)
      BY <2>4, <2>5 DEF Pend, Reached
    <2>7. NextNo <= NextNo'
      BY <2>5, Number DEF NextNo
    <2>. QED BY <2>5, <2>6, <2>7, StillTracked
  <1>3. ASSUME Writing, jobs' = Tail(jobs)
        PROVE  \A d \in Dests : Pend(jobs, d) = (IF Target = d THEN Range(Head(jobs).recs) ELSE {})
                                                 \cup Pend(jobs, d)'
    <2>1. jobs \in Flushes /\ jobs # <<>>
      BY <1>3 DEF FlashType, Writing
    <2>2. \A d \in Dests : Pend(jobs, d)' = Pend(Tail(jobs), d)
      BY <1>3 DEF Pend
    <2>. QED BY <2>1, <2>2, PendHead DEF Target
  <1>4. CASE WriteEntry
    <2>0. PICK lands \in BOOLEAN :
            /\ ring' = [ring EXCEPT ![Target] = PutEntry(ring[Target], Entry(lands))]
            /\ ruined' = (ruined \/ ~lands)
      BY <1>4 DEF WriteEntry, RingsSound
    <2>1. /\ Writing /\ Target \in mounted /\ HasRoom(ring[Target], Entry(TRUE).n)
          /\ jobs' = Tail(jobs)
          /\ UNCHANGED <<bootvars, flagvars, queuevars, batch, held, pc, eraser, budget, boots,
                         offered, gone, faulty>>
      BY <1>4 DEF WriteEntry, Takes
    <2>2. Target \in Dests /\ Entry(lands) \in LogEntry /\ Entry(lands).ok = lands
          /\ Entry(lands).n = Entry(TRUE).n
          /\ Entry(lands).recs = Head(jobs).recs /\ Head(jobs).recs \in Seq(Rec)
      BY <1>0, <2>1, EntryIs, HeadJob DEF Writing
    <2>3. Stored(PutEntry(ring[Target], Entry(lands))) =
            IF lands THEN Stored(ring[Target]) \o Head(jobs).recs ELSE Stored(ring[Target])
      BY <2>1, <2>2, StepsPut DEF RingsSound
    <2>4. /\ batch' = batch /\ held' = held /\ pc' = pc /\ boots' = boots /\ gone' = gone
          /\ offered' = offered /\ queuevars' = queuevars /\ boot' = boot
          /\ budget' = budget /\ pc = "flush"
      BY <2>1 DEF bootvars, Writing
    <2>5. ASSUME NEW d \in Dests
          PROVE  Range(log'[d]) = Range(log[d])
                   \cup (IF Target = d /\ lands THEN Range(Head(jobs).recs) ELSE {})
      <3>1. log'[d] = Stored(ring'[d]) /\ log[d] = Stored(ring[d]) /\ log[d] \in Seq(Rec)
        BY <1>0, KnownIs DEF RingsSound
      <3>2. CASE Target = d /\ lands
        <4>1. log'[d] = log[d] \o Head(jobs).recs
          BY <2>0, <2>2, <2>3, <3>1, <3>2 DEF RingsSound
        <4>2. Range(log[d] \o Head(jobs).recs) = Range(log[d]) \cup Range(Head(jobs).recs)
          BY <2>2, <3>1, RangeConcatenation
        <4>. QED BY <3>2, <4>1, <4>2
      <3>3. CASE ~(Target = d /\ lands)
        BY <2>0, <2>2, <2>3, <3>1, <3>3 DEF RingsSound
      <3>. QED BY <3>2, <3>3
    <2>6. \A d \in Dests : Pend(jobs, d)' \subseteq Pend(jobs, d)
                             /\ Reached(d)' \subseteq Reached(d)
      BY <1>3, <2>1, <2>4, <2>5 DEF Reached, Known
    <2>7. ~Harmed' => ~Harmed /\ lands
      BY <2>0, <2>1, Zenon DEF Harmed
    <2>8. lands => \A d \in Dests : Reached(d)' = Reached(d)
      BY <1>3, <2>1, <2>4, <2>5 DEF Reached, Known
    <2>9. NextNo <= NextNo'
      BY <2>4, Number DEF NextNo
    <2>. QED BY <2>4, <2>6, <2>7, <2>8, <2>9, StillTracked
  <1>5. CASE WriteFails
    <2>1. /\ Writing /\ faulty' = TRUE /\ jobs' = Tail(jobs)
          /\ UNCHANGED <<bootvars, flagvars, queuevars, batch, held, pc, eraser, boots, offered,
                         gone>>
          /\ budget' = budget \/ Spend("trouble")
          /\ \/ ring' = ring
             \/ /\ Target \in mounted /\ HasRoom(ring[Target], Entry(TRUE).n)
                /\ ring' = [ring EXCEPT ![Target] = PutEntry(ring[Target], Entry(FALSE))]
      BY <1>5 DEF WriteFails, RingsSound
    <2>2. ASSUME NEW d \in Dests PROVE log'[d] = log[d]
      <3>1. log'[d] = Stored(ring'[d]) /\ log[d] = Stored(ring[d])
        BY <1>0 DEF RingsSound
      <3>2. CASE ring' = ring
        BY <3>1, <3>2
      <3>3. ASSUME Target \in mounted, HasRoom(ring[Target], Entry(TRUE).n),
                   ring' = [ring EXCEPT ![Target] = PutEntry(ring[Target], Entry(FALSE))]
            PROVE  log'[d] = log[d]
        <4>1. Target \in Dests /\ Entry(FALSE) \in LogEntry /\ Entry(FALSE).ok = FALSE
              /\ Entry(FALSE).n = Entry(TRUE).n
          BY <1>0, <2>1, <3>3, EntryIs
        <4>2. Stored(PutEntry(ring[Target], Entry(FALSE))) = Stored(ring[Target])
          BY <3>3, <4>1, StepsPut DEF RingsSound
        <4>. QED BY <3>1, <3>3, <4>1, <4>2 DEF RingsSound
      <3>. QED BY <2>1, <3>2, <3>3
    <2>3. /\ batch' = batch /\ held' = held /\ pc' = pc /\ boots' = boots /\ gone' = gone
          /\ offered' = offered /\ queuevars' = queuevars /\ boot' = boot /\ pc = "flush"
      BY <2>1 DEF bootvars, Writing
    <2>4. \A d \in Dests : Pend(jobs, d)' \subseteq Pend(jobs, d)
                             /\ Reached(d)' \subseteq Reached(d)
      BY <1>3, <2>1, <2>2, <2>3 DEF Reached, Known
    <2>5. NextNo <= NextNo'
      BY <2>1, Later, Number
    <2>6. Harmed'
      BY <2>1 DEF Harmed
    <2>. QED BY <2>3, <2>4, <2>5, <2>6, StillTracked
  <1>. QED BY <1>1, <1>2, <1>4, <1>5

LEMMA FlagTracked ==
  ASSUME FlashType, RingsSound, Tracked, FlashType', FlagStep
  PROVE  Tracked'
  <1>1. UNCHANGED <<bootvars, queuevars, writer, ring, media, lock, indexvars, eraser, history>>
        /\ Track /\ (budget' = budget \/ Spend("trouble"))
    BY DEF FlagStep, Pause, Resume, BeginSave, EndSave
  <1>2. /\ jobs' = jobs /\ batch' = batch /\ held' = held /\ pc' = pc /\ boots' = boots
        /\ gone' = gone /\ offered' = offered /\ queuevars' = queuevars /\ Harmed' = Harmed
        /\ boot' = boot /\ log' = log
    BY <1>1 DEF bootvars, writer, history, Track, Harmed
  <1>3. NextNo <= NextNo'
    BY <1>1, Later, Number
  <1>4. \A d \in Dests : Pend(jobs, d)' = Pend(jobs, d) /\ Reached(d)' = Reached(d)
    BY <1>2 DEF Pend, Reached, Known
  <1>. QED BY <1>2, <1>3, <1>4, StillTracked

LEMMA EraseTracked ==
  ASSUME FlashType, RingsSound, Tracked, FlashType', EraseStep
  PROVE  Tracked'
  <1>1. /\ UNCHANGED <<bootvars, queuevars, writer, saver, holder, boots, offered, ruined>> /\ Track
        /\ BeginErase \/ EraseSector \/ EraseNext \/ EndErase
    BY DEF EraseStep
  <1>2. /\ jobs' = jobs /\ batch' = batch /\ held' = held /\ pc' = pc /\ boots' = boots
        /\ offered' = offered /\ queuevars' = queuevars /\ boot' = boot
    BY <1>1 DEF bootvars, writer
  <1>3. (budget' = budget \/ Spend("trouble")) /\ (~Harmed' => ~Harmed)
    <2>1. (budget' = budget \/ Spend("trouble")) /\ (faulty' = faulty \/ faulty' = TRUE)
      BY <1>1 DEF BeginErase, EraseSector, EraseNext, EndErase
    <2>. QED BY <1>1, <2>1 DEF Harmed
  <1>4. NextNo <= NextNo'
    BY <1>3, Later, Number
  <1>5. ASSUME NEW d \in Dests PROVE Known(d)' = Known(d)
    <2>1. CASE EraseSector
      <3>1. PICK e \in Dests : /\ ring' = [ring EXCEPT ![e] = Rotate(@)]
                               /\ gone' = [gone EXCEPT ![e] = @ \cup Expired(ring[e])]
        BY <2>1 DEF EraseSector
      <3>2. e \in Dests
        OBVIOUS
      <3>3. Range(Stored(ring[e])) = Expired(ring[e]) \cup Range(Stored(Rotate(ring[e])))
        BY <3>2, ExpiredIs DEF RingsSound
      <3>4. log'[d] = Stored(ring'[d]) /\ log[d] = Stored(ring[d])
        BY <1>1, TrackIs DEF RingsSound
      <3>5. /\ d = e => ring'[d] = Rotate(ring[e]) /\ gone'[d] = gone[d] \cup Expired(ring[e])
            /\ d # e => ring'[d] = ring[d] /\ gone'[d] = gone[d]
        BY <3>1, <3>2 DEF RingsSound, FlashType
      <3>. QED BY <3>3, <3>4, <3>5 DEF Known
    <2>2. CASE ~EraseSector
      <3>1. ring' = ring /\ gone' = gone
        BY <1>1, <2>2 DEF BeginErase, EraseNext, EndErase
      <3>. QED BY <1>1, <3>1 DEF Known, Track
    <2>. QED BY <2>1, <2>2
  <1>6. \A d \in Dests : Pend(jobs, d)' = Pend(jobs, d) /\ Reached(d)' = Reached(d)
    BY <1>2, <1>5 DEF Pend, Reached
  <1>. QED BY <1>2, <1>3, <1>4, <1>6, StillTracked

\* A boot starts with nothing offered and nothing owned up to.
Afresh ==
  /\ q = <<>> /\ drops = [d \in Dests |-> 0] /\ batch = <<>> /\ held = NoRec
  /\ pc = "top" /\ jobs = <<>> /\ offered = {} /\ gone = [d \in Dests |-> {}]
  /\ \A d \in Dests : \A r \in Range(log[d]) : Dated(r) /\ (r.k = "drop" => r.in # boots)

LEMMA AfreshTracked == Afresh => Tracked
  <1>. SUFFICES ASSUME Afresh PROVE Tracked
    OBVIOUS
  <1>. USE DEF Afresh
  <1>1. \A d \in Dests : Reached(d) = Range(log[d])
    BY PendNone DEF Reached, Known
  <1>2. Carried = {}
    BY RangeNone DEF Carried
  <1>3. \A d \in Dests : Lost(d) = {} /\ Owned(d) = {}
    BY <1>1 DEF Lost, Owned
  <1>4. Resting
    BY RangeNone DEF Resting
  <1>5. Pending
    BY PendNone DEF Pending
  <1>6. AllDated
    BY <1>1, <1>2 DEF AllDated
  <1>7. Fresh
    BY <1>3 DEF Fresh
  <1>8. Cardinality({}) = 0 /\ Total({}) = 0
    BY FS_EmptySet, TotalNone
  <1>9. Faithful
    <2>1. ASSUME NEW d \in Dests PROVE Cardinality(Lost(d)) = drops[d] + Total(Owned(d))
      <3>1. drops[d] = 0 /\ Cardinality(Lost(d)) = 0 /\ Total(Owned(d)) = 0
        BY <1>3, <1>8
      <3>. QED BY <3>1
    <2>. QED BY <2>1 DEF Faithful
  <1>. QED BY <1>4, <1>5, <1>6, <1>7, <1>9 DEF Tracked

LEMMA CrashTracked ==
  ASSUME FlashType, RingsSound, Tracked, FlashType', Crash
  PROVE  Tracked'
  <1>1. /\ Spend("trouble") /\ boot' = "tel"
        /\ q' = <<>> /\ drops' = [d \in Dests |-> 0] /\ batch' = <<>> /\ held' = NoRec
        /\ pc' = "top" /\ jobs' = <<>> /\ offered' = {} /\ gone' = [d \in Dests |-> {}]
        /\ boots' = boots + 1 /\ log' = [d \in Dests |-> Stored(ring'[d])]
    BY DEF Crash
  <1>2. \A d \in Dests : Range(log'[d]) \subseteq Range(log[d])
    BY <1>1, MovesCrash DEF RingsSound
  <1>3. NextNo' = NextNo /\ boots \in Nat
    BY <1>1, Later, Number
  <1>4. ASSUME NEW d \in Dests, NEW r \in Range(log'[d])
        PROVE  Dated(r)' /\ (r.k = "drop" => r.in # boots')
    <2>1. r \in Reached(d) /\ r \in Rec
      BY <1>2, KnownIs DEF Reached, Known
    <2>2. Dated(r)
      BY <2>1 DEF Tracked, AllDated
    <2>3. r.k \in {"boot", "drop"} => r.in \in Nat
      BY <2>1 DEF Rec, Plain, BootRec, DropRec
    <2>4. r.k = "boot" => r.in < boots'
      <3>1. r.k = "boot" => r.in = boots \/ r.in < boots
        BY <2>2 DEF Dated
      <3>. QED BY <1>1, <1>3, <2>3, <3>1
    <2>5. r.k = "drop" => r.in <= boots' /\ r.in # boots'
      <3>1. r.k = "drop" => r.in <= boots
        BY <2>2 DEF Dated
      <3>. QED BY <1>1, <1>3, <2>3, <3>1
    <2>. QED BY <1>3, <2>2, <2>4, <2>5 DEF Dated
  <1>5. Afresh'
    BY <1>1, <1>4 DEF Afresh
  <1>. QED BY <1>5, AfreshTracked, PTL

LEMMA RecsIn ==
  ASSUME NEW R, NEW E, \A e \in E : e.recs \in Seq(R), NEW es \in Seq(E)
  PROVE  Recs(es) \in Seq(R)
  <1>. DEFINE ss == [i \in DOMAIN es |-> es[i].recs]
  <1>1. ss \in Seq(Seq(R))
    <2>1. \A i \in 1..Len(es) : es[i].recs \in Seq(R)
      <3>1. \A i \in 1..Len(es) : es[i] \in E
        OBVIOUS
      <3>. QED BY <3>1
    <2>. QED BY <2>1
  <1>. HIDE DEF ss
  <1>2. Concat(ss) \in Seq(R)
    BY <1>1, ConcatType
  <1>. QED BY <1>2 DEF Recs, ss

LEMMA TrackedInit == Init => Tracked
  <1>. SUFFICES ASSUME Init PROVE Tracked
    OBVIOUS
  <1>1. /\ q = <<>> /\ drops = [d \in Dests |-> 0] /\ batch = <<>> /\ held = NoRec
        /\ pc = "top" /\ jobs = <<>> /\ offered = {} /\ gone = [d \in Dests |-> {}]
        /\ log = [d \in Dests |-> Stored(ring[d])] /\ ring = [d \in Dests |-> Preload(d)]
    BY DEF Init
  <1>2. ASSUME NEW d \in Dests, NEW r \in Range(log[d]) PROVE r.k = "old"
    <2>. DEFINE R == {x \in Rec : x.k = "old"}
                E == {y \in LogEntry : y.recs \in Seq(R)}
                e(n) == [recs |-> <<[k |-> "old", n |-> n]>>, n |-> 2, ok |-> TRUE]
                a == <<e(1), e(2)>>
                b == <<e(3)>>
    <2>1. \A n \in Nat : e(n) \in E
      <3>. SUFFICES ASSUME NEW n \in Nat PROVE e(n) \in E
        OBVIOUS
      <3>1. [k |-> "old", n |-> n] \in Rec
        BY DEF Rec, Plain
      <3>2. <<[k |-> "old", n |-> n]>> \in Seq(Rec) /\ <<[k |-> "old", n |-> n]>> \in Seq(R)
        BY <3>1
      <3>. HIDE DEF R
      <3>3. e(n) \in [recs : Seq(Rec), n : Nat, ok : BOOLEAN] /\ e(n).n = 2 /\ e(n).recs \in Seq(R)
        BY <3>2
      <3>. HIDE DEF e
      <3>. QED BY <3>3, LogSizes DEF LogEntry
    <2>2. Preload(d) = [EmptyRing EXCEPT !.sec[0] = a, !.sec[1] = b, !.act = 1]
      BY Zenon DEF Preload
    <2>3. a \in Seq(E) /\ b \in Seq(E)
      <3>. HIDE DEF e, E
      <3>. QED BY <2>1
    <2>4. EmptyRing.sec \in [Sectors -> Seq(E)] /\ 0 \in Sectors /\ 1 \in Sectors
      <3>. HIDE DEF E
      <3>. QED BY Sizes DEF EmptyRing, Sectors
    <2>. HIDE DEF a, b, e, E
    <2>5. Preload(d) \in RingsOf(E)
      <3>1. Preload(d) = [sec |-> [EmptyRing.sec EXCEPT ![0] = a, ![1] = b], old |-> 0, act |-> 1,
              cur |-> 0]
        BY <2>2 DEF EmptyRing
      <3>. DEFINE c == EmptyRing.sec
                  Q == Seq(E)
      <3>2. c \in [Sectors -> Q] /\ a \in Q /\ b \in Q
        BY <2>3, <2>4
      <3>3. Preload(d) = [sec |-> [c EXCEPT ![0] = a, ![1] = b], old |-> 0, act |-> 1, cur |-> 0]
        BY <3>1
      <3>. HIDE DEF c, Q
      <3>4. [c EXCEPT ![0] = a, ![1] = b] \in [Sectors -> Q]
        BY <3>2
      <3>5. Preload(d) \in [sec : [Sectors -> Q], old : Sectors, act : Sectors, cur : Nat]
        BY <2>4, <3>3, <3>4
      <3>. QED BY <3>5 DEF RingsOf, Q
    <2>6. Entries(Preload(d)) \in Seq(E)
      BY <2>5, WalkedIs
    <2>7. \A y \in E : y.recs \in Seq(R)
      BY DEF E
    <2>. HIDE DEF R
    <2>8. Recs(Entries(Preload(d))) \in Seq(R)
      BY <2>6, <2>7, RecsIn
    <2>9. log[d] = Recs(Entries(Preload(d)))
      BY <1>1 DEF Stored
    <2>10. r \in R
      BY <2>8, <2>9, RangeOfSeq
    <2>. QED BY <2>10 DEF R
  <1>3. ASSUME NEW d \in Dests, NEW r \in Range(log[d])
        PROVE  Dated(r) /\ (r.k = "drop" => r.in # boots)
    BY <1>2 DEF Dated
  <1>4. Afresh
    BY <1>1, <1>3 DEF Afresh
  <1>. QED BY <1>4, AfreshTracked

LEMMA TrackedStep == FlashType /\ RingsSound /\ FlashType' /\ Tracked /\ [Next]_fvars => Tracked'
  <1>. SUFFICES ASSUME FlashType, RingsSound, FlashType', Tracked, [Next]_fvars PROVE Tracked'
    OBVIOUS
  <1>1. CASE UNCHANGED fvars
    <2>1. /\ jobs' = jobs /\ batch' = batch /\ held' = held /\ pc' = pc /\ boots' = boots
          /\ gone' = gone /\ offered' = offered /\ queuevars' = queuevars /\ Harmed' = Harmed
          /\ boot' = boot /\ log' = log /\ budget' = budget
      BY <1>1 DEF fvars, queuevars, Harmed
    <2>2. NextNo <= NextNo'
      BY <2>1, Number DEF NextNo
    <2>3. \A d \in Dests : Pend(jobs, d)' = Pend(jobs, d) /\ Reached(d)' = Reached(d)
      BY <2>1 DEF Pend, Reached, Known
    <2>. QED BY <2>1, <2>2, <2>3, StillTracked
  <1>2. CASE Writer
    BY <1>2, MovesTracked, WritesTracked DEF Writer, WriterStep
  <1>. QED BY <1>1, <1>2, MainTracked, ProduceTracked, FlagTracked, EraseTracked, CrashTracked
                DEF Next

LEMMA FlashTracked == Spec => [](FlashType /\ RingsSound /\ Tracked)
  <1>1. Init => FlashType /\ RingsSound /\ Tracked
    BY TypeInit, RingsInit, TrackedInit
  <1>2. FlashType /\ RingsSound /\ Tracked /\ [Next]_fvars => (FlashType /\ RingsSound /\ Tracked)'
    BY TypeStep, RingsStep, TrackedStep
  <1>. QED BY <1>1, <1>2, PTL DEF Spec

\* Every record offered to a ready log is queued, staged, on flash or expired, or
\* owned up to by the drop counter and the drop markers, in every interleaving of
\* producers, writer, erase and power loss, as long as since boot no operation of
\* the flash has failed and nothing was programmed over what a cut erase had left.
THEOREM RecordsAccountedFor == Spec => []NothingVanishes
  <1>1. FlashType /\ RingsSound /\ Tracked => NothingVanishes
    <2>. SUFFICES ASSUME FlashType, RingsSound, Tracked, ~Harmed, NEW d \in Dests
                  PROVE  LET known == Known(d)
                             there == known \cup Range(q) \cup Range(batch) \cup {held}
                             lost  == {r \in offered : Dest(r) = d /\ r \notin there}
                         IN  Cardinality(lost) = drops[d] + Told(d, known)
      BY DEF NothingVanishes, Accounted, Harmed
    <2>. DEFINE lost == {r \in offered : Dest(r) = d
                          /\ r \notin Known(d) \cup Range(q) \cup Range(batch) \cup {held}}
    <2>1. Cardinality(Lost(d)) = drops[d] + Total(Owned(d))
      BY DEF Tracked, Faithful
    <2>2. lost = Lost(d)
      <3>1. \A r \in offered : r # NoRec /\ r.k # "drop"
        BY DEF Tracked, AllDated, NoRec
      <3>2. \A r \in offered : r \in Pend(jobs, d) => r \in Range(batch)
        BY <3>1 DEF Tracked, Pending
      <3>. QED BY <3>1, <3>2 DEF Lost, Reached, Carried
    <2>3. Told(d, Known(d)) = Total(Owned(d))
      <3>1. Told(d, Known(d)) = Total({r \in Known(d)
              \cup UNION {Range(j.recs) : j \in {i \in Range(jobs) : i.d = d}} :
                                         r.k = "drop" /\ r.in = boots})
        BY DEF Told, MapThenSumSet, MapThenFoldSet, Total, IsTotal, Any
      <3>. QED BY <3>1 DEF Owned, Reached, Pend
    <2>. QED BY <2>1, <2>2, <2>3
  <1>. QED BY <1>1, FlashTracked, PTL

\* Between flushes no marker waits in RAM, and a marker is in both rings or in
\* neither, whatever the writer is interrupted by, as long as since boot no
\* operation of the flash has failed or programmed over remnants.
THEOREM MarkersInBoth == Spec => []MarkersMirrored
  <1>1. FlashType /\ Tracked => MarkersMirrored
    <2>. SUFFICES ASSUME FlashType, Tracked, pc # "flush" PROVE MarkersMirrored
      BY DEF MarkersMirrored
    <2>1. jobs = <<>> /\ \A r \in Range(batch) : r.k \notin Markers
      BY DEF Tracked, Resting
    <2>2. \A i \in DOMAIN batch : batch[i].k \notin Markers
      BY <2>1 DEF Range
    <2>3. \A d \in Dests : Reached(d) = Known(d)
      BY <2>1, PendNone DEF Reached
    <2>4. "tel" \in Dests /\ "txt" \in Dests
      BY DEF Dests
    <2>5. ~Harmed => {r \in Known("tel") : r.k \in Markers} \cap offered
                       = {r \in Known("txt") : r.k \in Markers} \cap offered
      BY <2>3, <2>4 DEF Tracked, Faithful
    <2>. QED BY <2>2, <2>5 DEF MarkersMirrored, Harmed
  <1>. QED BY <1>1, FlashTracked, PTL

=============================================================================
