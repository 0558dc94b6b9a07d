--------------------------- MODULE FcbRingProofs ---------------------------
(***************************************************************************)
(* Proofs about FcbRing, for every set of entries, any number of sectors   *)
(* and any number of units in a sector.                                    *)
(*                                                                         *)
(* What a reader walks is the chain of sectors from the oldest to the      *)
(* active one (InUseIs), and what it finds are their entries put together  *)
(* (WalkedIs). So programming an entry adds at the young end (PutRing) and *)
(* rotating drops the oldest sector's entries and no other (RotateRing).   *)
(*                                                                         *)
(* The search for the write position leaps over whole entries and stops at *)
(* the first that does not read back. CursorFound: in a sector that was    *)
(* written in order it ends behind the last entry, wherever it begins.     *)
(*                                                                         *)
(* Recursive functions are shown to exist and to be the only ones that     *)
(* solve their equations (CatIs, Climb); what they compute is shown by     *)
(* induction over the positions of one sequence, as a least position that  *)
(* fails would have a predecessor that does not (UpTo).                    *)
(***************************************************************************)
EXTENDS FcbRing, Integers, SequenceTheorems, WellFoundedInduction, TLAPS

\* Every non-empty set of numbers has a least one.
LEMMA LeastIn ==
  ASSUME NEW S, S \subseteq Nat, S # {}
  PROVE  \E m \in S : \A k \in S : m =< k
  <1>. DEFINE R == OpToRel(<, Nat)
  <1>1. IsWellFoundedOn(R, Nat)
    BY NatLessThanWellFounded, Zenon
  <1>2. \A x, y \in Nat : x < y => <<x, y>> \in R
    BY SMT DEF OpToRel
  <1>. HIDE DEF R
  <1>3. PICK m \in S : \A y \in S : <<y, m>> \notin R
    BY <1>1, WFMin
  <1>4. ASSUME NEW y \in S PROVE m =< y
    <2>1. m \in Nat /\ y \in Nat
      BY <1>3
    <2>2. ~(y < m)
      BY <1>2, <1>3, <2>1
    <2>. QED BY <2>1, <2>2
  <1>. QED BY <1>4

\* Induction up to n, for a set of numbers.
LEMMA UpTo ==
  ASSUME NEW n \in Nat, NEW S, 0 \in S, \A i \in 1..n : i - 1 \in S => i \in S
  PROVE  0..n \subseteq S
  <1>. DEFINE Bad == (0..n) \ S
  <1>. SUFFICES ASSUME Bad # {} PROVE FALSE
    OBVIOUS
  <1>1. Bad \subseteq Nat
    OBVIOUS
  <1>2. PICK k \in Bad : \A j \in Bad : k =< j
    BY <1>1, LeastIn, Zenon
  <1>3. k \in 1..n /\ k - 1 \in 0..n /\ ~(k =< k - 1)
    BY <1>1, <1>2
  <1>. QED BY <1>2, <1>3

\* f[i] is what a recursion from a by G has reached after i steps.
Folds(f, S, a, n, G) ==
  f \in [0..n -> S] /\ f[0] = a /\ \A i \in 1..n : f[i] = G[<<i, f[i - 1]>>]

\* A recursive function over 0..n exists.
LEMMA Recursion ==
  ASSUME NEW S, NEW a \in S, NEW n \in Nat, NEW G \in [(1..n) \X S -> S]
  PROVE  \E f : Folds(f, S, a, n, G)
  <1>. DEFINE Has(k) == \E f \in [0..k -> S] :
                          f[0] = a /\ \A i \in 1..k : f[i] = G[<<i, f[i - 1]>>]
              Good == {k \in 0..n : Has(k)}
  <1>1. Has(0)
    <2>. DEFINE f == [i \in 0..0 |-> a]
    <2>1. f \in [0..0 -> S] /\ f[0] = a /\ \A i \in 1..0 : f[i] = G[<<i, f[i - 1]>>]
      OBVIOUS
    <2>. QED BY <2>1
  <1>2. ASSUME NEW k \in 1..n, Has(k - 1)
        PROVE  Has(k)
    <2>1. PICK f \in [0..(k - 1) -> S] :
            f[0] = a /\ \A i \in 1..(k - 1) : f[i] = G[<<i, f[i - 1]>>]
      BY <1>2
    <2>. DEFINE g == [i \in 0..k |-> IF i = k THEN G[<<k, f[k - 1]>>] ELSE f[i]]
    <2>2. f[k - 1] \in S /\ G[<<k, f[k - 1]>>] \in S
      BY <2>1
    <2>3. g \in [0..k -> S] /\ g[0] = a
      BY <2>1, <2>2
    <2>4. ASSUME NEW i \in 1..k PROVE g[i] = G[<<i, g[i - 1]>>]
      <3>1. g[i - 1] = f[i - 1]
        OBVIOUS
      <3>2. CASE i = k
        <4>1. g[k] = G[<<k, f[k - 1]>>]
          OBVIOUS
        <4>2. g[k - 1] = f[k - 1]
          BY <3>1, <3>2
        <4>. HIDE DEF g
        <4>. QED BY <3>2, <4>1, <4>2
      <3>3. CASE i # k
        BY <2>1, <3>1, <3>3
      <3>. QED BY <3>2, <3>3
    <2>. HIDE DEF g
    <2>. QED BY <2>3, <2>4
  <1>. HIDE DEF Has
  <1>3. 0..n \subseteq Good
    <2>1. 0 \in Good /\ \A k \in 1..n : k - 1 \in Good => k \in Good
      BY <1>1, <1>2
    <2>. HIDE DEF Good
    <2>. QED BY <2>1, UpTo
  <1>4. Has(n)
    BY <1>3
  <1>. QED BY <1>4 DEF Has, Folds

\* What Used adds up.
IsSum(sec, f) == f = [i \in 0..Len(sec) |-> IF i = 0 THEN 0 ELSE f[i - 1] + sec[i].n]

LEMMA SumIs ==
  ASSUME NEW T, \A t \in T : t.n \in Nat, NEW sec \in Seq(T)
  PROVE  \E f \in [0..Len(sec) -> Nat] :
           /\ f[0] = 0 /\ \A i \in 1..Len(sec) : f[i] = f[i - 1] + sec[i].n
           /\ Used(sec) = f[Len(sec)]
  <1>. DEFINE l == Len(sec)
              G == [p \in (1..l) \X Nat |-> p[2] + sec[p[1]].n]
              g == CHOOSE h : IsSum(sec, h)
  <1>0. l \in Nat /\ 0 \in Nat /\ \A i \in 1..l : sec[i].n \in Nat
    OBVIOUS
  <1>1. G \in [(1..l) \X Nat -> Nat]
    BY <1>0
  <1>2. \A i \in 1..l, x \in Nat : G[<<i, x>>] = x + sec[i].n
    OBVIOUS
  <1>. HIDE DEF G
  <1>3a. PICK f : Folds(f, Nat, 0, l, G)
    <2>1. 0 \in Nat /\ l \in Nat
      BY <1>0
    <2>. QED BY <1>1, <2>1, Recursion, Zenon
  <1>3. f \in [0..l -> Nat] /\ f[0] = 0 /\ \A i \in 1..l : f[i] = G[<<i, f[i - 1]>>]
    BY <1>3a, Zenon DEF Folds
  <1>4. ASSUME NEW i \in 1..l PROVE f[i] = f[i - 1] + sec[i].n
    <2>1. i - 1 \in 0..l
      BY <1>0
    <2>2. f[i - 1] \in Nat
      BY <1>3, <2>1, Zenon
    <2>. QED BY <1>2, <1>3, <2>2, Zenon
  <1>5. IsSum(sec, f)
    <2>1. f = [i \in 0..l |-> f[i]]
      BY <1>3, Zenon
    <2>2. \A i \in 0..l : f[i] = IF i = 0 THEN 0 ELSE f[i - 1] + sec[i].n
      <3>1. \A i \in 0..l : i # 0 => i \in 1..l
        BY <1>0
      <3>. QED BY <1>3, <1>4, <3>1, Zenon
    <2>. QED BY <2>1, <2>2, Zenon DEF IsSum
  <1>6. IsSum(sec, g)
    BY <1>5
  <1>. HIDE DEF g
  <1>7. g[0] = 0 /\ \A i \in 1..l : g[i] = g[i - 1] + sec[i].n
    <2>1. \A i \in 0..l : g[i] = IF i = 0 THEN 0 ELSE g[i - 1] + sec[i].n
      BY <1>6, Zenon DEF IsSum
    <2>2. 0 \in 0..l /\ \A i \in 1..l : i \in 0..l /\ i # 0
      BY <1>0
    <2>. QED BY <2>1, <2>2, Zenon
  <1>. DEFINE Same == {i \in 0..l : g[i] = f[i]}
  <1>8. 0..l \subseteq Same
    <2>1. 0 \in Same
      BY <1>3, <1>7
    <2>2. ASSUME NEW i \in 1..l, i - 1 \in Same PROVE i \in Same
      BY <1>4, <1>7, <2>2
    <2>. HIDE DEF Same
    <2>. QED BY <1>0, <2>1, <2>2, UpTo
  <1>9. g[l] = f[l]
    BY <1>8
  <1>10. Used(sec) = g[l]
    BY DEF Used, IsSum, g
  <1>. QED BY <1>3, <1>4, <1>9, <1>10

\* What Concat puts together.
IsCat(ss, f) == f = [i \in 0..Len(ss) |-> IF i = 0 THEN <<>> ELSE f[i - 1] \o ss[i]]

LEMMA CatIs ==
  ASSUME NEW T, NEW ss \in Seq(Seq(T))
  PROVE  \E f \in [0..Len(ss) -> Seq(T)] :
           /\ f[0] = <<>> /\ \A i \in 1..Len(ss) : f[i] = f[i - 1] \o ss[i]
           /\ Concat(ss) = f[Len(ss)]
  <1>. DEFINE l == Len(ss)
              Q == Seq(T)
              G == [p \in (1..l) \X Q |-> p[2] \o ss[p[1]]]
              g == CHOOSE h : IsCat(ss, h)
  <1>0. l \in Nat /\ (\A i \in 1..l : ss[i] \in Q) /\ <<>> \in Q
        /\ (\A x, y \in Q : x \o y \in Q)
    OBVIOUS
  <1>. HIDE DEF Q
  <1>1. G \in [(1..l) \X Q -> Q]
    BY <1>0
  <1>2. \A i \in 1..l, x \in Q : G[<<i, x>>] = x \o ss[i]
    OBVIOUS
  <1>. HIDE DEF G
  <1>3a. PICK f : Folds(f, Q, <<>>, l, G)
    <2>1. <<>> \in Q /\ l \in Nat
      BY <1>0
    <2>. QED BY <1>1, <2>1, Recursion, Zenon
  <1>3. f \in [0..l -> Q] /\ f[0] = <<>> /\ \A i \in 1..l : f[i] = G[<<i, f[i - 1]>>]
    BY <1>3a, Zenon DEF Folds
  <1>4. ASSUME NEW i \in 1..l PROVE f[i] = f[i - 1] \o ss[i]
    <2>1. i - 1 \in 0..l
      BY <1>0
    <2>2. f[i - 1] \in Q
      BY <1>3, <2>1, Zenon
    <2>. QED BY <1>2, <1>3, <2>2, Zenon
  <1>5. IsCat(ss, f)
    <2>1. f = [i \in 0..l |-> f[i]]
      BY <1>3, Zenon
    <2>2. \A i \in 0..l : f[i] = IF i = 0 THEN <<>> ELSE f[i - 1] \o ss[i]
      <3>1. \A i \in 0..l : i # 0 => i \in 1..l
        BY <1>0
      <3>. QED BY <1>3, <1>4, <3>1, Zenon
    <2>. QED BY <2>1, <2>2, Zenon DEF IsCat
  <1>6. IsCat(ss, g)
    BY <1>5
  <1>. HIDE DEF g
  <1>7. g[0] = <<>> /\ \A i \in 1..l : g[i] = g[i - 1] \o ss[i]
    <2>1. \A i \in 0..l : g[i] = IF i = 0 THEN <<>> ELSE g[i - 1] \o ss[i]
      BY <1>6, Zenon DEF IsCat
    <2>2. 0 \in 0..l /\ \A i \in 1..l : i \in 0..l /\ i # 0
      BY <1>0
    <2>. QED BY <2>1, <2>2, Zenon
  <1>. DEFINE Same == {i \in 0..l : g[i] = f[i]}
  <1>8. 0..l \subseteq Same
    <2>1. 0 \in Same
      BY <1>3, <1>7
    <2>2. ASSUME NEW i \in 1..l, i - 1 \in Same PROVE i \in Same
      <3>1. g[i] = g[i - 1] \o ss[i] /\ f[i] = f[i - 1] \o ss[i] 
        BY <1>4, Zenon, <1>7
      <3>2. g[i - 1] = f[i - 1]
        BY <2>2
      <3>3. g[i] = f[i] /\ i \in 0..l
        BY <3>1, <3>2, <1>0
      <3>. QED BY <3>3
    <2>. HIDE DEF Same
    <2>. QED BY <1>0, <2>1, <2>2, UpTo
  <1>9. g[l] = f[l]
    BY <1>8
  <1>10. Concat(ss) = g[l]
    BY DEF Concat, IsCat, g
  <1>. QED BY <1>3, <1>4, <1>9, <1>10 DEF Q

LEMMA UsedPrefixes ==
  ASSUME NEW T, \A t \in T : t.n \in Nat, NEW sec \in Seq(T)
  PROVE  /\ \A i \in 0..Len(sec) : Used(SubSeq(sec, 1, i)) \in Nat
         /\ Used(SubSeq(sec, 1, 0)) = 0
         /\ \A i \in 1..Len(sec) :
              Used(SubSeq(sec, 1, i)) = Used(SubSeq(sec, 1, i - 1)) + sec[i].n
  <1>1. PICK f \in [0..Len(sec) -> Nat] :
          /\ f[0] = 0 /\ \A i \in 1..Len(sec) : f[i] = f[i - 1] + sec[i].n
          /\ Used(sec) = f[Len(sec)]
    BY SumIs
  <1>2. ASSUME NEW k \in 0..Len(sec) PROVE Used(SubSeq(sec, 1, k)) = f[k]
    <2>. DEFINE p == SubSeq(sec, 1, k)
    <2>1. p \in Seq(T) /\ Len(p) = k /\ \A i \in 1..k : p[i] = sec[i]
      OBVIOUS
    <2>. HIDE DEF p
    <2>2. PICK h \in [0..k -> Nat] :
            /\ h[0] = 0 /\ \A i \in 1..k : h[i] = h[i - 1] + p[i].n
            /\ Used(p) = h[k]
      BY <2>1, SumIs
    <2>. DEFINE Same == {i \in 0..k : h[i] = f[i]}
    <2>0. k \in Nat /\ k =< Len(sec) /\ Len(sec) \in Nat
      OBVIOUS
    <2>3. 0 \in Same
      BY <1>1, <2>0, <2>2
    <2>4. ASSUME NEW i \in 1..k, i - 1 \in Same PROVE i \in Same
      <3>1. i \in 1..Len(sec) /\ i \in 0..k
        BY <2>0
      <3>2. h[i - 1] = f[i - 1]
        BY <2>4
      <3>. QED BY <1>1, <2>1, <2>2, <3>1, <3>2
    <2>. HIDE DEF Same
    <2>6. 0..k \subseteq Same
      BY <2>0, <2>3, <2>4, UpTo
    <2>5. h[k] = f[k]
      BY <2>0, <2>6 DEF Same
    <2>. QED BY <2>2, <2>5 DEF p
  <1>3. Len(sec) \in Nat
    OBVIOUS
  <1>4. \A i \in 0..Len(sec) : Used(SubSeq(sec, 1, i)) \in Nat
    BY <1>1, <1>2
  <1>5. 0 \in 0..Len(sec) /\ \A i \in 1..Len(sec) : i \in 0..Len(sec) /\ i - 1 \in 0..Len(sec)
    BY <1>3
  <1>. QED BY <1>1, <1>2, <1>4, <1>5, Zenon

LEMMA UsedAppend ==
  ASSUME NEW T, \A t \in T : t.n \in Nat, NEW sec \in Seq(T), NEW e \in T
  PROVE  Used(sec) \in Nat /\ Used(Append(sec, e)) = Used(sec) + e.n
  <1>. DEFINE q == Append(sec, e)
  <1>1. /\ q \in Seq(T) /\ Len(q) = Len(sec) + 1 /\ q[Len(q)] = e
        /\ SubSeq(q, 1, Len(q)) = q /\ SubSeq(q, 1, Len(q) - 1) = sec
        /\ Len(sec) \in Nat
    OBVIOUS
  <1>. HIDE DEF q
  <1>2. Len(q) \in 1..Len(q) /\ Len(q) - 1 \in 0..Len(q)
    BY <1>1
  <1>3. /\ Used(SubSeq(q, 1, Len(q))) = Used(SubSeq(q, 1, Len(q) - 1)) + q[Len(q)].n
        /\ Used(SubSeq(q, 1, Len(q) - 1)) \in Nat
    BY <1>1, <1>2, UsedPrefixes
  <1>. QED BY <1>1, <1>3 DEF q

LEMMA UsedNone == Used(<<>>) = 0
  <1>. DEFINE T == [n : Nat]
  <1>1. <<>> \in Seq(T) /\ SubSeq(<<>>, 1, 0) = <<>> /\ \A t \in T : t.n \in Nat
    OBVIOUS
  <1>2. Used(SubSeq(<<>>, 1, 0)) = 0
    BY <1>1, UsedPrefixes
  <1>. QED BY <1>1, <1>2

LEMMA Regroup == \A T : \A x, y, z \in Seq(T) : (x \o y) \o z = x \o (y \o z)
  <1>. SUFFICES ASSUME NEW T, NEW x \in Seq(T), NEW y \in Seq(T), NEW z \in Seq(T)
                PROVE  (x \o y) \o z = x \o (y \o z)
    OBVIOUS
  <1>. QED BY ConcatAssociative

LEMMA ConcatType ==
  ASSUME NEW T, NEW ss \in Seq(Seq(T))
  PROVE  Concat(ss) \in Seq(T)
  <1>1. PICK f \in [0..Len(ss) -> Seq(T)] : Concat(ss) = f[Len(ss)]
    BY CatIs
  <1>. QED BY <1>1

LEMMA ConcatNone == Concat(<<>>) = <<>>
  <1>1. PICK f \in [0..Len(<<>>) -> Seq({})] : f[0] = <<>> /\ Concat(<<>>) = f[Len(<<>>)]
    <2>1. <<>> \in Seq(Seq({}))
      OBVIOUS
    <2>. QED BY <2>1, CatIs
  <1>. QED BY <1>1

LEMMA ConcatOne ==
  ASSUME NEW T, NEW s \in Seq(T)
  PROVE  Concat(<<s>>) = s
  <1>1. <<s>> \in Seq(Seq(T)) /\ Len(<<s>>) = 1 /\ <<s>>[1] = s
    OBVIOUS
  <1>2. PICK f \in [0..1 -> Seq(T)] :
          f[0] = <<>> /\ (\A i \in 1..1 : f[i] = f[i - 1] \o <<s>>[i]) /\ Concat(<<s>>) = f[1]
    BY <1>1, CatIs
  <1>3. f[1] = <<>> \o s
    BY <1>1, <1>2
  <1>. QED BY <1>2, <1>3

LEMMA ConcatBoth ==
  ASSUME NEW T, NEW ss \in Seq(Seq(T)), NEW tt \in Seq(Seq(T))
  PROVE  Concat(ss \o tt) = Concat(ss) \o Concat(tt)
  <1>. DEFINE m == Len(ss)   n == Len(tt)   uu == ss \o tt
  <1>1. /\ m \in Nat /\ n \in Nat /\ uu \in Seq(Seq(T)) /\ Len(uu) = m + n
        /\ (\A i \in 1..m : uu[i] = ss[i] /\ ss[i] \in Seq(T))
        /\ (\A j \in 1..n : uu[m + j] = tt[j] /\ tt[j] \in Seq(T))
    <2>1. m \in Nat /\ n \in Nat /\ uu \in Seq(Seq(T)) /\ Len(uu) = m + n
      OBVIOUS
    <2>2. \A i \in 1..m : uu[i] = ss[i] /\ ss[i] \in Seq(T)
      OBVIOUS
    <2>3. \A j \in 1..n : uu[m + j] = tt[j] /\ tt[j] \in Seq(T)
      OBVIOUS
    <2>. QED BY <2>1, <2>2, <2>3
  <1>2. PICK f \in [0..m -> Seq(T)] :
          /\ f[0] = <<>> /\ \A i \in 1..m : f[i] = f[i - 1] \o ss[i]
          /\ Concat(ss) = f[m]
    BY CatIs
  <1>3. PICK g \in [0..n -> Seq(T)] :
          /\ g[0] = <<>> /\ \A i \in 1..n : g[i] = g[i - 1] \o tt[i]
          /\ Concat(tt) = g[n]
    BY CatIs
  <1>. HIDE DEF uu
  <1>4. PICK h \in [0..(m + n) -> Seq(T)] :
          /\ h[0] = <<>> /\ \A i \in 1..(m + n) : h[i] = h[i - 1] \o uu[i]
          /\ Concat(uu) = h[m + n]
    <2>. HIDE DEF m, n
    <2>1. \E h \in [0..Len(uu) -> Seq(T)] :
            /\ h[0] = <<>> /\ \A i \in 1..Len(uu) : h[i] = h[i - 1] \o uu[i]
            /\ Concat(uu) = h[Len(uu)]
      BY <1>1, CatIs, Zenon
    <2>. QED BY <1>1, <2>1, Zenon
  <1>. HIDE DEF m, n
  <1>5. h[m] = f[m]
    <2>. DEFINE Same == {i \in 0..m : h[i] = f[i]}
    <2>1. 0 \in Same
      BY <1>1, <1>2, <1>4
    <2>2. ASSUME NEW i \in 1..m, i - 1 \in Same PROVE i \in Same
      <3>1. i \in 1..(m + n) /\ i \in 0..m
        BY <1>1
      <3>2. h[i] = h[i - 1] \o uu[i] /\ f[i] = f[i - 1] \o ss[i] /\ uu[i] = ss[i]
        BY <1>1, <1>2, <1>4, <3>1, Zenon
      <3>3. h[i - 1] = f[i - 1]
        BY <2>2
      <3>. QED BY <3>1, <3>2, <3>3
    <2>. HIDE DEF Same
    <2>3. 0..m \subseteq Same
      BY <1>1, <2>1, <2>2, UpTo
    <2>. QED BY <1>1, <2>3 DEF Same
  <1>6. h[m + n] = f[m] \o g[n]
    <2>. DEFINE Same == {j \in 0..n : h[m + j] = f[m] \o g[j]}
    <2>0. f[m] \in Seq(T)
      BY <1>1, <1>2
    <2>1. 0 \in Same
      <3>1. h[m + 0] = f[m] \o <<>>
        BY <1>1, <1>5, <2>0
      <3>2. m + 0 = m /\ 0 \in 0..n
        BY <1>1
      <3>3. h[m + 0] = f[m] \o g[0]
        BY <1>3, <3>1, Zenon
      <3>. QED BY <3>2, <3>3
    <2>2. ASSUME NEW j \in 1..n, j - 1 \in Same PROVE j \in Same
      <3>1. m + j \in 1..(m + n) /\ j \in 0..n /\ j - 1 \in 0..n /\ (m + j) - 1 = m + (j - 1)
        BY <1>1
      <3>2. h[m + j] = h[(m + j) - 1] \o uu[m + j] /\ g[j] = g[j - 1] \o tt[j]
            /\ uu[m + j] = tt[j] /\ tt[j] \in Seq(T)
        BY <1>1, <1>3, <1>4, <3>1, Zenon
      <3>3. h[m + (j - 1)] = f[m] \o g[j - 1] /\ g[j - 1] \in Seq(T)
        BY <1>3, <2>2, <3>1
      <3>4. h[m + j] = (f[m] \o g[j - 1]) \o tt[j]
        BY <3>1, <3>2, <3>3, Zenon
      <3>5. (f[m] \o g[j - 1]) \o tt[j] = f[m] \o (g[j - 1] \o tt[j])
        <4>. DEFINE x == f[m]   y == g[j - 1]   z == tt[j]
        <4>1. x \in Seq(T) /\ y \in Seq(T) /\ z \in Seq(T)
          BY <2>0, <3>2, <3>3
        <4>. HIDE DEF x, y, z
        <4>2. (x \o y) \o z = x \o (y \o z)
          BY <4>1, ConcatAssociative, SMTT(30)
        <4>. QED BY <4>2 DEF x, y, z
      <3>. QED BY <3>1, <3>2, <3>4, <3>5
    <2>. HIDE DEF Same
    <2>3. 0..n \subseteq Same
      BY <1>1, <2>1, <2>2, UpTo
    <2>4. n \in Same
      BY <1>1, <2>3
    <2>. QED BY <2>4, Zenon DEF Same
  <1>. QED BY <1>2, <1>3, <1>4, <1>5, <1>6 DEF uu

LEMMA ConcatAppend ==
  ASSUME NEW T, NEW ss \in Seq(Seq(T)), NEW s \in Seq(T)
  PROVE  Concat(Append(ss, s)) = Concat(ss) \o s /\ Concat(ss) \in Seq(T)
  <1>1. <<s>> \in Seq(Seq(T)) /\ Append(ss, s) = ss \o <<s>>
    <2>. DEFINE Q == Seq(T)
    <2>1. ss \in Seq(Q) /\ s \in Q
      OBVIOUS
    <2>. HIDE DEF Q
    <2>2. <<s>> \in Seq(Q) /\ Append(ss, s) = ss \o <<s>>
      BY <2>1, AppendIsConcat
    <2>. QED BY <2>2 DEF Q
  <1>2. Concat(ss \o <<s>>) = Concat(ss) \o Concat(<<s>>)
    BY <1>1, ConcatBoth
  <1>. QED BY <1>1, <1>2, ConcatOne, ConcatType

\* A sequence that continues another by one element.
LEMMA Continued ==
  ASSUME NEW S, NEW f \in Seq(S), NEW g \in Seq(S), Len(g) = Len(f) + 1,
         \A i \in 1..Len(f) : g[i] = f[i]
  PROVE  g = Append(f, g[Len(f) + 1])
  <1>. DEFINE x == g[Len(f) + 1]
              h == Append(f, x)
  <1>1. x \in S /\ Len(f) \in Nat
    OBVIOUS
  <1>. HIDE DEF x
  <1>2. h \in Seq(S) /\ Len(h) = Len(f) + 1 /\ h[Len(f) + 1] = x /\ \A i \in 1..Len(f) : h[i] = f[i]
    BY <1>1
  <1>. HIDE DEF h
  <1>3. ASSUME NEW i \in 1..Len(g) PROVE g[i] = h[i]
    <2>1. CASE i = Len(f) + 1
      BY <1>2, <2>1 DEF x
    <2>2. CASE i # Len(f) + 1
      <3>1. i \in 1..Len(f)
        BY <1>1, <2>2
      <3>. QED BY <1>2, <3>1
    <2>. QED BY <2>1, <2>2
  <1>4. g = h
    BY <1>2, <1>3, SeqEqual
  <1>. QED BY <1>4 DEF h, x

-----------------------------------------------------------------------------
(* Sectors and rings.                                                      *)

LEMMA Sizes == NSectors \in Nat /\ NSectors > 2
  BY RingConstants

\* What is programmed into sectors: entries of some set T.
EntrySet(T) == \A t \in T : t.n \in Nat /\ t.ok \in BOOLEAN

\* The entries of a sector that a reader finds, one by one.
Finished(sec) == [i \in DOMAIN sec |-> IF sec[i].ok THEN <<sec[i]>> ELSE <<>>]

LEMMA FinishedType ==
  ASSUME NEW T, NEW sec \in Seq(T)
  PROVE  /\ Finished(sec) \in Seq(Seq(T)) /\ Len(Finished(sec)) = Len(sec)
         /\ \A i \in 1..Len(sec) : Finished(sec)[i] = IF sec[i].ok THEN <<sec[i]>> ELSE <<>>
  <1>. DEFINE g(i) == IF sec[i].ok THEN <<sec[i]>> ELSE <<>>
  <1>1. Finished(sec) = [i \in 1..Len(sec) |-> g(i)] /\ Len(sec) \in Nat
    BY DEF Finished
  <1>2. \A i \in 1..Len(sec) : g(i) \in Seq(T)
    OBVIOUS
  <1>3. \A i \in 1..Len(sec) : Finished(sec)[i] = g(i)
    BY <1>1
  <1>4. [i \in 1..Len(sec) |-> g(i)] \in Seq(Seq(T)) /\ Len([i \in 1..Len(sec) |-> g(i)]) = Len(sec)
    <2>. HIDE DEF g
    <2>. QED BY <1>1, <1>2
  <1>. QED BY <1>1, <1>3, <1>4

LEMMA WholeType ==
  ASSUME NEW T, NEW sec \in Seq(T)
  PROVE  Whole(sec) \in Seq(T)
  <1>1. Whole(sec) = Concat(Finished(sec))
    BY Zenon DEF Whole, Finished
  <1>. QED BY <1>1, FinishedType, ConcatType

LEMMA WholeNone == Whole(<<>>) = <<>>
  <1>1. [i \in DOMAIN <<>> |-> IF <<>>[i].ok THEN <<<<>>[i]>> ELSE <<>>] = <<>>
    OBVIOUS
  <1>. QED BY <1>1, ConcatNone, Zenon DEF Whole

\* A finished entry is found behind the others; an unfinished one is not found.
LEMMA WholeAppend ==
  ASSUME NEW T, NEW sec \in Seq(T), NEW e \in T
  PROVE  Whole(Append(sec, e)) = IF e.ok THEN Append(Whole(sec), e) ELSE Whole(sec)
  <1>. DEFINE x == IF e.ok THEN <<e>> ELSE <<>>
              q == Append(sec, e)
              f == Finished(sec)
              g == Finished(q)
  <1>1. /\ q \in Seq(T) /\ Len(q) = Len(sec) + 1 /\ Len(sec) \in Nat /\ q[Len(sec) + 1] = e
        /\ \A i \in 1..Len(sec) : q[i] = sec[i]
    OBVIOUS
  <1>2. x \in Seq(T) /\ <<x>> \in Seq(Seq(T)) /\ Len(<<x>>) = 1 /\ <<x>>[1] = x
    OBVIOUS
  <1>3. /\ f \in Seq(Seq(T)) /\ Len(f) = Len(sec)
        /\ \A i \in 1..Len(sec) : f[i] = IF sec[i].ok THEN <<sec[i]>> ELSE <<>>
    BY FinishedType
  <1>. HIDE DEF f, q
  <1>4. /\ g \in Seq(Seq(T)) /\ Len(g) = Len(q)
        /\ \A i \in 1..Len(q) : g[i] = IF q[i].ok THEN <<q[i]>> ELSE <<>>
    BY <1>1, FinishedType
  <1>. HIDE DEF g
  <1>5. g = Append(f, x)
    <2>1. ASSUME NEW i \in 1..Len(f) PROVE g[i] = f[i]
      <3>1. i \in 1..Len(sec) /\ i \in 1..Len(q) /\ q[i] = sec[i]
        BY <1>1, <1>3
      <3>2. f[i] = IF sec[i].ok THEN <<sec[i]>> ELSE <<>>
        BY <1>3, <3>1, Zenon
      <3>3. g[i] = IF q[i].ok THEN <<q[i]>> ELSE <<>>
        BY <1>4, <3>1, Zenon
      <3>. QED BY <3>1, <3>2, <3>3
    <2>2. Len(g) = Len(f) + 1 /\ Len(q) \in 1..Len(q) /\ Len(q) = Len(f) + 1
      BY <1>1, <1>3, <1>4
    <2>3. g[Len(f) + 1] = x
      <3>1. g[Len(q)] = IF q[Len(q)].ok THEN <<q[Len(q)]>> ELSE <<>>
        BY <1>4, <2>2, Zenon
      <3>2. q[Len(q)] = e
        BY <1>1
      <3>. QED BY <2>2, <3>1, <3>2
    <2>. HIDE DEF x
    <2>4. g = Append(f, g[Len(f) + 1])
      BY <1>3, <1>4, <2>1, <2>2, Continued
    <2>. QED BY <2>3, <2>4, Zenon
  <1>6. Whole(q) = Concat(Append(f, x)) /\ Whole(sec) = Concat(f)
    BY <1>5, Zenon DEF Whole, Finished, f, g
  <1>7. Concat(Append(f, x)) = Concat(f) \o x /\ Concat(f) \in Seq(T)
    <2>. HIDE DEF x
    <2>. QED BY <1>2, <1>3, ConcatAppend
  <1>8. Whole(q) = Whole(sec) \o x /\ Whole(sec) \in Seq(T)
    BY <1>6, <1>7, Zenon
  <1>9. Whole(sec) \o <<e>> = Append(Whole(sec), e) /\ Whole(sec) \o <<>> = Whole(sec)
    BY <1>8, AppendIsConcat, ConcatEmptySeq
  <1>. QED BY <1>8, <1>9, Zenon DEF q

\* Sector s is one of those from the oldest to the active one.
Between(r, s) ==
  IF r.old <= r.act THEN r.old <= s /\ s <= r.act ELSE r.old <= s \/ s <= r.act

\* Rings whose entries are from T, erased outside the sectors in use.
RingsOf(T) == [sec : [Sectors -> Seq(T)], old : Sectors, act : Sectors, cur : Nat]
Clear(r) == \A s \in Sectors : ~Between(r, s) => r.sec[s] = <<>>

LEMMA SuccIs ==
  ASSUME NEW s \in Sectors
  PROVE  Succ(s) \in Sectors /\ Succ(s) = IF s + 1 = NSectors THEN 0 ELSE s + 1
  BY Sizes DEF Succ, Sectors

\* How many sectors are in use, and which the i-th is.
Span(r) == IF r.old <= r.act THEN r.act - r.old + 1 ELSE r.act + NSectors - r.old + 1
Nth(r, i) == IF r.old + i - 1 < NSectors THEN r.old + i - 1 ELSE r.old + i - 1 - NSectors

LEMMA InUseIs ==
  ASSUME NEW r, r.old \in Sectors, r.act \in Sectors
  PROVE  /\ InUse(r) \in Seq(Sectors) /\ Len(InUse(r)) = Span(r) /\ Span(r) \in 1..NSectors
         /\ \A i \in 1..Span(r) : InUse(r)[i] = Nth(r, i) /\ Nth(r, i) \in Sectors
  <1>. DEFINE d == (r.act + NSectors - r.old) % NSectors
              use == InUse(r)
  <1>2. d \in Nat /\ d + 1 = Span(r) /\ Span(r) \in 1..NSectors
    BY Sizes DEF Sectors, Span
  <1>3. use = [i \in 1..(d + 1) |-> (r.old + i - 1) % NSectors]
    BY DEF InUse
  <1>. HIDE DEF d, use
  <1>4. ASSUME NEW i \in 1..(d + 1)
        PROVE  use[i] = Nth(r, i) /\ Nth(r, i) \in Sectors
    <2>1. use[i] = (r.old + i - 1) % NSectors
      BY <1>3
    <2>2. i \in Nat /\ i >= 1 /\ i <= NSectors
      BY <1>2, Sizes
    <2>3. /\ (r.old + i - 1) % NSectors = Nth(r, i)
          /\ Nth(r, i) \in Sectors
      <3>. DEFINE x == r.old + i - 1
      <3>1. x \in Nat /\ x < 2 * NSectors
        BY <2>2, Sizes DEF Sectors
      <3>2. x % NSectors = IF x < NSectors THEN x ELSE x - NSectors
        <4>. HIDE DEF x
        <4>. QED BY <3>1, Sizes
      <3>. QED BY <3>1, <3>2, Sizes DEF Nth, Sectors
    <2>. QED BY <2>1, <2>3
  <1>5. use \in Seq(Sectors) /\ Len(use) = d + 1
    <2>. DEFINE g(i) == (r.old + i - 1) % NSectors
    <2>1. use = [i \in 1..(d + 1) |-> g(i)] /\ d + 1 \in Nat
      BY <1>2, <1>3
    <2>2. \A i \in 1..(d + 1) : g(i) \in Sectors
      BY <1>3, <1>4
    <2>. HIDE DEF g
    <2>. QED BY <2>1, <2>2
  <1>. QED BY <1>2, <1>4, <1>5 DEF use

\* Each sector in use comes up once, the oldest first and the active one last.
LEMMA NthIs ==
  ASSUME NEW r, r.old \in Sectors, r.act \in Sectors
  PROVE  /\ Nth(r, 1) = r.old /\ Nth(r, Span(r)) = r.act
         /\ \A i \in 1..Span(r) : Nth(r, i) = r.act => i = Span(r)
         /\ \A s \in Sectors : Between(r, s) => \E i \in 1..Span(r) : Nth(r, i) = s
  <1>1. Nth(r, 1) = r.old /\ Nth(r, Span(r)) = r.act
    BY Sizes DEF Nth, Span, Sectors
  <1>2. ASSUME NEW i \in 1..Span(r), Nth(r, i) = r.act PROVE i = Span(r)
    BY <1>2, Sizes DEF Nth, Span, Sectors
  <1>3. ASSUME NEW s \in Sectors, Between(r, s) PROVE \E i \in 1..Span(r) : Nth(r, i) = s
    <2>. DEFINE i == IF r.old <= s THEN s - r.old + 1 ELSE s + NSectors - r.old + 1
    <2>1. i \in 1..Span(r) /\ Nth(r, i) = s
      BY <1>3, Sizes DEF Between, Sectors, Nth, Span
    <2>. QED BY <2>1
  <1>. QED BY <1>1, <1>2, <1>3

\* The sectors a reader visits, by what it finds in them.
Walked(r) == [i \in DOMAIN InUse(r) |-> Whole(r.sec[InUse(r)[i]])]

LEMMA WalkedIs ==
  ASSUME NEW T, NEW r \in RingsOf(T)
  PROVE  /\ Walked(r) \in Seq(Seq(T)) /\ Len(Walked(r)) = Span(r)
         /\ \A i \in 1..Span(r) : Walked(r)[i] = Whole(r.sec[Nth(r, i)])
         /\ Entries(r) = Concat(Walked(r)) /\ Entries(r) \in Seq(T)
  <1>. DEFINE g(i) == Whole(r.sec[InUse(r)[i]])
  <1>0. r.old \in Sectors /\ r.act \in Sectors /\ r.sec \in [Sectors -> Seq(T)]
    BY DEF RingsOf
  <1>1. /\ InUse(r) \in Seq(Sectors) /\ Len(InUse(r)) = Span(r) /\ Span(r) \in 1..NSectors
        /\ \A i \in 1..Span(r) : InUse(r)[i] = Nth(r, i) /\ Nth(r, i) \in Sectors
    BY <1>0, InUseIs
  <1>2. DOMAIN InUse(r) = 1..Span(r) /\ Span(r) \in Nat
    BY <1>1, Sizes
  <1>3. \A i \in 1..Span(r) : g(i) = Whole(r.sec[Nth(r, i)]) /\ g(i) \in Seq(T)
    BY <1>0, <1>1, WholeType
  <1>4. Walked(r) = [i \in 1..Span(r) |-> g(i)]
    BY <1>2, Zenon DEF Walked
  <1>. HIDE DEF g
  <1>5. Walked(r) \in Seq(Seq(T)) /\ Len(Walked(r)) = Span(r)
        /\ \A i \in 1..Span(r) : Walked(r)[i] = g(i)
    BY <1>2, <1>3, <1>4
  <1>6. Entries(r) = Concat(Walked(r))
    BY DEF Entries, Walked
  <1>7. \A i \in 1..Span(r) : Walked(r)[i] = Whole(r.sec[Nth(r, i)])
    BY <1>3, <1>5, Zenon
  <1>. QED BY <1>5, <1>6, <1>7, ConcatType

\* What the walk finds, when only the last sector of it changes.
LEMMA LastChanges ==
  ASSUME NEW T, NEW p \in Seq(Seq(T)), NEW q \in Seq(Seq(T)), Len(q) = Len(p), p # <<>>,
         \A i \in 1..Len(p) : i # Len(p) => q[i] = p[i]
  PROVE  \E b \in Seq(T) : Concat(p) = b \o p[Len(p)] /\ Concat(q) = b \o q[Len(p)]
  <1>. DEFINE Q == Seq(T)
              l == Len(p)
              f == SubSeq(p, 1, l - 1)
  <1>1. l \in Nat /\ l >= 1 /\ p \in Seq(Q) /\ q \in Seq(Q) /\ p[l] \in Q /\ q[l] \in Q
    <2>. HIDE DEF Q
    <2>1. p \in Seq(Q) /\ q \in Seq(Q)
      BY DEF Q
    <2>. QED BY <2>1
  <1>. HIDE DEF Q
  <1>2. f \in Seq(Q) /\ Len(f) = l - 1 /\ \A i \in 1..(l - 1) : f[i] = p[i]
    BY <1>1
  <1>. HIDE DEF f
  <1>3. p = Append(f, p[l])
    <2>1. Len(p) = Len(f) + 1 /\ \A i \in 1..Len(f) : p[i] = f[i]
      BY <1>1, <1>2
    <2>. QED BY <1>1, <1>2, <2>1, Continued
  <1>4. q = Append(f, q[l])
    <2>1. Len(q) = Len(f) + 1 /\ \A i \in 1..Len(f) : q[i] = f[i]
      BY <1>1, <1>2
    <2>2. q = Append(f, q[Len(f) + 1])
      BY <1>1, <1>2, <2>1, Continued
    <2>. QED BY <1>1, <1>2, <2>2
  <1>. HIDE DEF l
  <1>5. /\ Concat(Append(f, p[l])) = Concat(f) \o p[l] /\ Concat(f) \in Seq(T)
        /\ Concat(Append(f, q[l])) = Concat(f) \o q[l]
    BY <1>1, <1>2, ConcatAppend DEF Q
  <1>. QED BY <1>3, <1>4, <1>5 DEF l

LEMMA AppendInside ==
  ASSUME NEW T, NEW b \in Seq(T), NEW w \in Seq(T), NEW e \in T
  PROVE  b \o Append(w, e) = Append(b \o w, e)
  OBVIOUS

\* Programming one entry at the write cursor: the sectors behind the active one are
\* erased before they are used, and a reader finds one entry more, or none.
LEMMA PutShape ==
  ASSUME NEW T, EntrySet(T), NEW r \in RingsOf(T), Clear(r), r.cur = Used(r.sec[r.act]),
         NEW e \in T, HasRoom(r, e.n)
  PROVE  \E a \in Sectors :
           /\ a = IF Fits(r, e.n) THEN r.act ELSE Succ(r.act)
           /\ ~Fits(r, e.n) => a # r.old /\ r.sec[a] = <<>>
           /\ PutEntry(r, e) = [sec |-> [r.sec EXCEPT ![a] = Append(r.sec[a], e)],
                                old |-> r.old, act |-> a,
                                cur |-> Used(Append(r.sec[a], e))]
  <1>. DEFINE a == IF Fits(r, e.n) THEN r.act ELSE Succ(r.act)
              t == Append(r.sec[a], e)
              rr == IF Fits(r, e.n) THEN r ELSE [r EXCEPT !.act = Succ(r.act), !.cur = 0]
  <1>1. r.sec \in [Sectors -> Seq(T)] /\ r.old \in Sectors /\ r.act \in Sectors /\ r.cur \in Nat
        /\ DOMAIN r = {"sec", "old", "act", "cur"}
    BY DEF RingsOf
  <1>2. a \in Sectors /\ r.sec[a] \in Seq(T) /\ e.n \in Nat
    <2>1. a \in Sectors
      BY <1>1, SuccIs
    <2>. QED BY <1>1, <2>1 DEF EntrySet
  <1>3. ~Fits(r, e.n) => a # r.old /\ r.sec[a] = <<>>
    <2>. SUFFICES ASSUME ~Fits(r, e.n) PROVE a # r.old /\ r.sec[a] = <<>>
      OBVIOUS
    <2>1. a = Succ(r.act) /\ a # r.old
      BY DEF HasRoom
    <2>2. a = IF r.act + 1 = NSectors THEN 0 ELSE r.act + 1
      BY <1>1, <2>1, SuccIs
    <2>3. ~Between(r, a)
      BY <1>1, <1>2, <2>1, <2>2, Sizes DEF Between, Sectors
    <2>. QED BY <1>2, <2>1, <2>3 DEF Clear
  <1>4. rr.sec = r.sec /\ rr.old = r.old /\ rr.act = a /\ rr.cur = Used(r.sec[a])
        /\ rr = [sec |-> r.sec, old |-> r.old, act |-> a, cur |-> Used(r.sec[a])]
    <2>1. CASE Fits(r, e.n)
      <3>1. rr = r /\ a = r.act
        BY <2>1, Zenon
      <3>2. r = [sec |-> r.sec, old |-> r.old, act |-> r.act, cur |-> r.cur]
        BY <1>1 DEF RingsOf
      <3>. HIDE DEF rr, a
      <3>. QED BY <3>1, <3>2
    <2>2. CASE ~Fits(r, e.n)
      <3>1. rr = [r EXCEPT !.act = Succ(r.act), !.cur = 0] /\ a = Succ(r.act)
        BY <2>2, Zenon
      <3>2. Used(r.sec[a]) = 0
        BY <1>3, <2>2, UsedNone
      <3>. HIDE DEF rr, a
      <3>3. rr = [sec |-> r.sec, old |-> r.old, act |-> a, cur |-> 0]
        BY <1>1, <3>1 DEF RingsOf
      <3>. QED BY <3>2, <3>3
    <2>. QED BY <2>1, <2>2
  <1>5. PutEntry(r, e) = [rr EXCEPT !.cur = rr.cur + e.n,
                                    !.sec[rr.act] = IF rr.cur = Used(rr.sec[rr.act])
                                                    THEN Append(rr.sec[rr.act], e)
                                                    ELSE [i \in DOMAIN rr.sec[rr.act] |->
                                                      [rr.sec[rr.act][i] EXCEPT !.ok = FALSE]]]
    BY Zenon DEF PutEntry
  <1>6. Used(t) = Used(r.sec[a]) + e.n
    <2>. HIDE DEF a
    <2>. QED BY <1>2, UsedAppend DEF EntrySet
  <1>. HIDE DEF rr
  <1>7. PutEntry(r, e) = [rr EXCEPT !.cur = rr.cur + e.n, !.sec[a] = t]
    BY <1>4, <1>5
  <1>. HIDE DEF t
  <1>8. PutEntry(r, e) = [sec |-> [r.sec EXCEPT ![a] = t], old |-> r.old, act |-> a,
          cur |-> Used(t)]
    BY <1>4, <1>6, <1>7
  <1>. QED BY <1>2, <1>3, <1>8 DEF t

LEMMA PutRing ==
  ASSUME NEW T, EntrySet(T), NEW r \in RingsOf(T), Clear(r), r.cur = Used(r.sec[r.act]),
         NEW e \in T, HasRoom(r, e.n)
  PROVE  /\ PutEntry(r, e) \in RingsOf(T) /\ Clear(PutEntry(r, e))
         /\ PutEntry(r, e).cur = Used(PutEntry(r, e).sec[PutEntry(r, e).act])
         /\ Entries(PutEntry(r, e)) = IF e.ok THEN Append(Entries(r), e) ELSE Entries(r)
  <1>. DEFINE new == PutEntry(r, e)
  <1>1. PICK a \in Sectors :
           /\ a = IF Fits(r, e.n) THEN r.act ELSE Succ(r.act)
           /\ ~Fits(r, e.n) => a # r.old /\ r.sec[a] = <<>>
           /\ new = [sec |-> [r.sec EXCEPT ![a] = Append(r.sec[a], e)],
                     old |-> r.old, act |-> a, cur |-> Used(Append(r.sec[a], e))]
    BY PutShape
  <1>2. r.sec \in [Sectors -> Seq(T)] /\ r.old \in Sectors /\ r.act \in Sectors /\ r.cur \in Nat
    BY DEF RingsOf
  <1>. HIDE DEF new
  <1>3. r.sec[a] \in Seq(T) /\ Append(r.sec[a], e) \in Seq(T)
    BY <1>2
  <1>4. Used(Append(r.sec[a], e)) \in Nat
    <2>1. Used(r.sec[a]) \in Nat /\ Used(Append(r.sec[a], e)) = Used(r.sec[a]) + e.n
      BY <1>3, UsedAppend DEF EntrySet
    <2>. QED BY <2>1 DEF EntrySet
  <1>5. new.old = r.old /\ new.act = a /\ new.cur = Used(new.sec[new.act])
        /\ new.sec \in [Sectors -> Seq(T)] /\ new \in RingsOf(T)
        /\ \A s \in Sectors : new.sec[s] = IF s = a THEN Append(r.sec[a], e) ELSE r.sec[s]
    BY <1>1, <1>2, <1>3, <1>4 DEF RingsOf
  <1>6. /\ Fits(r, e.n) => a = r.act
        /\ ~Fits(r, e.n) => a # r.old /\ r.sec[a] = <<>>
                            /\ a = IF r.act + 1 = NSectors THEN 0 ELSE r.act + 1
    BY <1>1, <1>2, SuccIs
  <1>7. Clear(new)
    <2>. SUFFICES ASSUME NEW s \in Sectors, ~Between(new, s) PROVE new.sec[s] = <<>>
      BY DEF Clear
    <2>1. s # a /\ ~Between(r, s)
      <3>1. CASE Fits(r, e.n)
        BY <1>2, <1>5, <1>6, <3>1, Sizes DEF Between, Sectors
      <3>2. CASE ~Fits(r, e.n)
        <4>1. a \in Nat /\ s \in Nat /\ r.old \in Nat /\ r.act \in Nat /\ NSectors \in Nat
              /\ a < NSectors /\ s < NSectors /\ r.old < NSectors /\ r.act < NSectors
          BY <1>2, Sizes DEF Sectors
        <4>2. a # r.old /\ a = IF r.act + 1 = NSectors THEN 0 ELSE r.act + 1
          BY <1>6, <3>2, Zenon
        <4>3. ~(IF r.old <= a THEN r.old <= s /\ s <= a ELSE r.old <= s \/ s <= a)
          BY <1>5 DEF Between
        <4>. QED BY <4>1, <4>2, <4>3 DEF Between
      <3>. QED BY <3>1, <3>2
    <2>. QED BY <1>5, <2>1 DEF Clear
  <1>. DEFINE p == Walked(r)
              q == Walked(new)
              w == Whole(r.sec[a])
              v == Whole(Append(r.sec[a], e))
  <1>8. /\ p \in Seq(Seq(T)) /\ Len(p) = Span(r) /\ Span(r) \in 1..NSectors
        /\ \A i \in 1..Span(r) : p[i] = Whole(r.sec[Nth(r, i)]) /\ Nth(r, i) \in Sectors
        /\ Entries(r) = Concat(p) /\ Entries(r) \in Seq(T)
    BY <1>2, WalkedIs, InUseIs
  <1>9. /\ q \in Seq(Seq(T)) /\ Len(q) = Span(new) /\ Span(new) \in 1..NSectors
        /\ \A i \in 1..Span(new) : q[i] = Whole(new.sec[Nth(new, i)]) /\ Nth(new, i) \in Sectors
        /\ Entries(new) = Concat(q) /\ Entries(new) \in Seq(T)
    BY <1>2, <1>5, WalkedIs, InUseIs
  <1>10. w \in Seq(T) /\ v \in Seq(T) /\ v = IF e.ok THEN Append(w, e) ELSE w
    BY <1>3, WholeType, WholeAppend
  <1>11. \A i \in Int : Nth(new, i) = Nth(r, i)
    BY <1>5 DEF Nth
  <1>. HIDE DEF p, q
  <1>12. \E b \in Seq(T) : Concat(p) = b \o w /\ Concat(q) = b \o v
    <2>1. CASE Fits(r, e.n)
      <3>1. a = r.act /\ Span(new) = Span(r)
        BY <1>5, <1>6, <2>1 DEF Span
      <3>2. \A i \in 1..Span(r) : Nth(r, i) = r.act <=> i = Span(r)
        BY <1>2, <1>8, NthIs
      <3>3. p # <<>> /\ Span(r) \in 1..Span(r) /\ Len(p) = Span(r) /\ Len(q) = Span(r)
        BY <1>8, <1>9, <3>1, Sizes
      <3>4. p[Span(r)] = w /\ q[Span(r)] = v
        BY <1>5, <1>8, <1>9, <1>11, <3>1, <3>2, <3>3
      <3>5. ASSUME NEW i \in 1..Len(p), i # Len(p) PROVE q[i] = p[i]
        <4>1. Nth(r, i) # a /\ Nth(r, i) \in Sectors /\ i \in 1..Span(new)
          BY <1>8, <3>1, <3>2, <3>3, <3>5
        <4>2. q[i] = Whole(new.sec[Nth(r, i)]) /\ p[i] = Whole(r.sec[Nth(r, i)])
          BY <1>8, <1>9, <1>11, <3>3, <4>1
        <4>. QED BY <1>5, <4>1, <4>2
      <3>6. \E b \in Seq(T) : Concat(p) = b \o p[Len(p)] /\ Concat(q) = b \o q[Len(p)]
        <4>1. Len(q) = Len(p)
          BY <3>3
        <4>. QED BY <1>8, <1>9, <3>3, <3>5, <4>1, LastChanges
      <3>. QED BY <3>3, <3>4, <3>6
    <2>2. CASE ~Fits(r, e.n)
      <3>1. Span(new) = Span(r) + 1
        <4>1. a \in Nat /\ r.old \in Nat /\ r.act \in Nat /\ NSectors \in Nat
              /\ a < NSectors /\ r.old < NSectors /\ r.act < NSectors
          BY <1>2, Sizes DEF Sectors
        <4>2. a # r.old /\ a = IF r.act + 1 = NSectors THEN 0 ELSE r.act + 1
          BY <1>6, <2>2, Zenon
        <4>. QED BY <1>5, <4>1, <4>2 DEF Span
      <3>2. Nth(new, Span(new)) = a /\ \A i \in 1..Span(new) : Nth(new, i) = a => i = Span(new)
        <4>1. new.old \in Sectors /\ new.act \in Sectors
          BY <1>2, <1>5
        <4>. QED BY <1>5, <4>1, NthIs
      <3>3. Span(r) \in Nat /\ Len(p) = Span(r) /\ Len(q) = Len(p) + 1
        BY <1>8, <1>9, <3>1, Sizes
      <3>4. ASSUME NEW i \in 1..Len(p) PROVE q[i] = p[i]
        <4>1. i \in 1..Span(new) /\ i # Span(new) /\ i \in 1..Span(r)
          BY <3>1, <3>3
        <4>2. Nth(r, i) # a /\ Nth(r, i) \in Sectors
          BY <1>8, <1>11, <3>2, <4>1
        <4>3. q[i] = Whole(new.sec[Nth(r, i)]) /\ p[i] = Whole(r.sec[Nth(r, i)])
          BY <1>8, <1>9, <1>11, <4>1
        <4>. QED BY <1>5, <4>2, <4>3
      <3>5. q[Len(p) + 1] = v
        <4>1. Len(p) + 1 \in 1..Span(new) /\ Len(p) + 1 = Span(new)
          BY <3>1, <3>3
        <4>. QED BY <1>5, <1>9, <3>2, <4>1
      <3>6. q = Append(p, v)
        <4>. DEFINE Q == Seq(T)
        <4>1. p \in Seq(Q) /\ q \in Seq(Q)
          BY <1>8, <1>9
        <4>. HIDE DEF Q, v
        <4>2. q = Append(p, q[Len(p) + 1])
          BY <3>3, <3>4, <4>1, Continued
        <4>. QED BY <3>5, <4>2, Zenon
      <3>7. Concat(q) = Concat(p) \o v /\ Concat(p) \in Seq(T)
        <4>. HIDE DEF v
        <4>. QED BY <1>8, <1>10, <3>6, ConcatAppend
      <3>8. w = <<>>
        BY <1>6, <2>2, WholeNone
      <3>9. Concat(p) = Concat(p) \o w
        BY <3>7, <3>8, ConcatEmptySeq
      <3>. QED BY <3>7, <3>9
    <2>. QED BY <2>1, <2>2
  <1>13. Entries(new) = IF e.ok THEN Append(Entries(r), e) ELSE Entries(r)
    <2>. HIDE DEF v, w
    <2>1. PICK b \in Seq(T) : Concat(p) = b \o w /\ Concat(q) = b \o v
      BY <1>12
    <2>2. b \o Append(w, e) = Append(b \o w, e)
      BY <1>10, AppendInside
    <2>. QED BY <1>8, <1>9, <1>10, <2>1, <2>2
  <1>. QED BY <1>5, <1>7, <1>13 DEF new

\* Erasing the oldest sector: a reader loses what was in it and nothing else.
LEMMA RotateRing ==
  ASSUME NEW T, NEW r \in RingsOf(T), Clear(r)
  PROVE  /\ Rotate(r) \in RingsOf(T) /\ Clear(Rotate(r))
         /\ Rotate(r).old = Succ(r.old)
         /\ r.old # r.act => Rotate(r).act = r.act /\ Rotate(r).cur = r.cur
         /\ r.old = r.act => Rotate(r).cur = 0 /\ Rotate(r).sec[Rotate(r).act] = <<>>
         /\ \A s \in Sectors : Rotate(r).sec[s] = IF s = r.old THEN <<>> ELSE r.sec[s]
         /\ Entries(r) = Whole(r.sec[r.old]) \o Entries(Rotate(r))
  <1>. DEFINE a == IF r.old = r.act THEN Succ(r.act) ELSE r.act
              c == IF r.old = r.act THEN 0 ELSE r.cur
              new == Rotate(r)
  <1>1. r.sec \in [Sectors -> Seq(T)] /\ r.old \in Sectors /\ r.act \in Sectors /\ r.cur \in Nat
    BY DEF RingsOf
  <1>2. a \in Sectors /\ c \in Nat /\ <<>> \in Seq(T)
    BY <1>1, SuccIs
  <1>3. new = [sec |-> [r.sec EXCEPT ![r.old] = <<>>], old |-> Succ(r.old), act |-> a, cur |-> c]
    BY <1>1 DEF Rotate, RingsOf
  <1>. HIDE DEF new
  <1>4. /\ new \in RingsOf(T) /\ new.old = Succ(r.old) /\ new.act = a /\ new.cur = c
        /\ \A s \in Sectors : new.sec[s] = IF s = r.old THEN <<>> ELSE r.sec[s]
    BY <1>1, <1>2, <1>3, SuccIs DEF RingsOf
  <1>5. new.old = IF r.old + 1 = NSectors THEN 0 ELSE r.old + 1
    BY <1>1, <1>4, SuccIs
  <1>6. /\ a \in Nat /\ r.old \in Nat /\ r.act \in Nat /\ NSectors \in Nat /\ NSectors > 2
        /\ a < NSectors /\ r.old < NSectors /\ r.act < NSectors
    BY <1>1, <1>2, Sizes DEF Sectors
  <1>7. r.old = r.act => a = new.old
    BY <1>4
  <1>8. Clear(new)
    <2>. SUFFICES ASSUME NEW s \in Sectors, ~Between(new, s) PROVE new.sec[s] = <<>>
      BY DEF Clear
    <2>1. s \in Nat /\ s < NSectors
      BY Sizes DEF Sectors
    <2>2. s # r.old => ~Between(r, s)
      <3>1. ~(IF new.old <= a THEN new.old <= s /\ s <= a ELSE new.old <= s \/ s <= a)
        BY <1>4 DEF Between
      <3>2. CASE r.old = r.act
        BY <1>5, <1>6, <1>7, <2>1, <3>1, <3>2 DEF Between
      <3>3. CASE r.old # r.act
        BY <1>5, <1>6, <2>1, <3>1, <3>3 DEF Between
      <3>. QED BY <3>2, <3>3
    <2>. QED BY <1>4, <2>2 DEF Clear
  <1>9. r.old = r.act => new.sec[a] = <<>>
    <2>. SUFFICES ASSUME r.old = r.act PROVE new.sec[a] = <<>>
      OBVIOUS
    <2>1. a # r.old /\ ~Between(r, a)
      BY <1>5, <1>6, <1>7 DEF Between
    <2>. QED BY <1>2, <1>4, <2>1 DEF Clear
  <1>. DEFINE p == Walked(r)
              q == Walked(new)
              w == Whole(r.sec[r.old])
  <1>10. /\ p \in Seq(Seq(T)) /\ Len(p) = Span(r) /\ Span(r) \in 1..NSectors
         /\ \A i \in 1..Span(r) : p[i] = Whole(r.sec[Nth(r, i)]) /\ Nth(r, i) \in Sectors
         /\ Entries(r) = Concat(p) /\ Entries(r) \in Seq(T) /\ w \in Seq(T)
    BY <1>1, WalkedIs, InUseIs, WholeType
  <1>11. new.old \in Sectors /\ new.act \in Sectors
    BY <1>4, <1>2, <1>1, SuccIs
  <1>12. /\ q \in Seq(Seq(T)) /\ Len(q) = Span(new) /\ Span(new) \in 1..NSectors
         /\ \A i \in 1..Span(new) : q[i] = Whole(new.sec[Nth(new, i)]) /\ Nth(new, i) \in Sectors
         /\ Entries(new) = Concat(q) /\ Entries(new) \in Seq(T)
    BY <1>4, <1>11, WalkedIs, InUseIs
  <1>13. Nth(r, 1) = r.old /\ p[1] = w
    BY <1>1, <1>10, NthIs, Sizes
  <1>. HIDE DEF p, q, w
  <1>14. Concat(p) = w \o Concat(q)
    <2>1. CASE r.old = r.act
      <3>1. Span(r) = 1 /\ Span(new) = 1
        BY <1>4, <1>6, <1>7, <2>1 DEF Span
      <3>2. q[1] = <<>>
        <4>1. Nth(new, 1) = a
          BY <1>7, <1>11, <2>1, NthIs
        <4>. QED BY <1>9, <1>12, <2>1, <3>1, <4>1, WholeNone
      <3>3. p = <<w>> /\ q = <<<<>>>>
        BY <1>10, <1>12, <1>13, <3>1, <3>2
      <3>4. Concat(p) = w /\ Concat(q) = <<>>
        BY <1>10, <1>2, <3>3, ConcatOne
      <3>. QED BY <1>10, <3>4, ConcatEmptySeq
    <2>2. CASE r.old # r.act
      <3>1. Span(r) = Span(new) + 1 /\ Span(r) \in Nat /\ Span(new) \in Nat /\ Span(r) <= NSectors
        <4>1. Span(r) = Span(new) + 1
          <5>. DEFINE o == new.old
          <5>1. Span(new) = IF o <= a THEN a - o + 1 ELSE a + NSectors - o + 1
            BY <1>4 DEF Span
          <5>2. Span(r) = IF r.old <= r.act THEN r.act - r.old + 1
                          ELSE r.act + NSectors - r.old + 1
            BY DEF Span
          <5>3. o = IF r.old + 1 = NSectors THEN 0 ELSE r.old + 1
            BY <1>5
          <5>4. a = r.act
            BY <2>2
          <5>. HIDE DEF o, a, Span
          <5>. QED BY <1>6, <2>2, <5>1, <5>2, <5>3, <5>4
        <4>. QED BY <1>6, <1>10, <1>12, <4>1
      <3>2. ASSUME NEW i \in 1..Span(new)
            PROVE  Nth(new, i) = Nth(r, i + 1) /\ Nth(r, i + 1) # r.old
        <4>1. i \in Nat /\ 1 <= i /\ i < NSectors
          <5>. HIDE DEF Span
          <5>. QED BY <1>6, <3>1
        <4>2. Nth(new, i) = IF new.old + i - 1 < NSectors THEN new.old + i - 1
                            ELSE new.old + i - 1 - NSectors
          BY DEF Nth
        <4>3. Nth(r, i + 1) = IF r.old + i < NSectors THEN r.old + i ELSE r.old + i - NSectors
          BY <1>6, <4>1 DEF Nth
        <4>. QED BY <1>5, <1>6, <4>1, <4>2, <4>3
      <3>3. ASSUME NEW i \in 1..Span(new) PROVE q[i] = p[i + 1]
        <4>1. i + 1 \in 1..Span(r)
          BY <3>1
        <4>2. q[i] = Whole(new.sec[Nth(r, i + 1)]) /\ p[i + 1] = Whole(r.sec[Nth(r, i + 1)])
              /\ Nth(r, i + 1) \in Sectors /\ Nth(r, i + 1) # r.old
          BY <1>10, <1>12, <3>2, <4>1
        <4>. QED BY <1>4, <4>2
      <3>4. p = <<w>> \o q
        <4>. DEFINE Q == Seq(T)
                    h == <<w>> \o q
        <4>1. w \in Q /\ p \in Seq(Q) /\ q \in Seq(Q) /\ Len(q) = Span(new) /\ Span(new) \in Nat
              /\ Len(p) = Span(new) + 1
          BY <1>6, <1>10, <1>12, <3>1
        <4>. HIDE DEF Q
        <4>2. h \in Seq(Q) /\ Len(h) = Span(new) + 1 /\ h[1] = w
              /\ \A i \in 2..(Span(new) + 1) : h[i] = q[i - 1]
          BY <4>1
        <4>. HIDE DEF h
        <4>3. ASSUME NEW i \in 1..Len(p) PROVE p[i] = h[i]
          <5>1. CASE i = 1
            BY <1>13, <4>2, <5>1
          <5>2. CASE i # 1
            <6>1. i \in 2..(Span(new) + 1) /\ i - 1 \in 1..Span(new) /\ (i - 1) + 1 = i
              BY <4>1, <5>2
            <6>2. h[i] = q[i - 1]
              BY <4>2, <6>1
            <6>3. q[i - 1] = p[(i - 1) + 1]
              BY <3>3, <6>1
            <6>. QED BY <6>1, <6>2, <6>3
          <5>. QED BY <5>1, <5>2
        <4>4. p = h
          BY <4>1, <4>2, <4>3, SeqEqual
        <4>. QED BY <4>4 DEF h
      <3>5. <<w>> \in Seq(Seq(T))
        BY <1>10
      <3>6. Concat(p) = Concat(<<w>>) \o Concat(q)
        BY <1>12, <3>4, <3>5, ConcatBoth
      <3>. QED BY <1>10, <3>6, ConcatOne
    <2>. QED BY <2>1, <2>2
  <1>. QED BY <1>4, <1>8, <1>9, <1>10, <1>12, <1>14 DEF new, w

-----------------------------------------------------------------------------
(* The cursor search.                                                      *)

\* A table over 0..n that is val where it stops and looks further up elsewhere.
Climbs(f, n, stop, val, up) ==
  f = [p \in 0..n |-> IF p \in stop THEN val[p] ELSE f[up[p]]]

\* Such a table exists, as looking further up comes to an end.
LEMMA Climb ==
  ASSUME NEW n \in Nat, NEW S, NEW val \in [0..n -> S], NEW stop, NEW up,
         \A p \in 0..n : p \notin stop => up[p] \in (p + 1)..n
  PROVE  \E f \in [0..n -> S] : Climbs(f, n, stop, val, up)
  <1>. DEFINE Done(f, p) == f[p] = IF p \in stop THEN val[p] ELSE f[up[p]]
              Has(k) == \E f \in [0..n -> S] : \A p \in 0..n : p + k > n => Done(f, p)
              Good == {k \in 0..(n + 1) : Has(k)}
  <1>1. 0 \in Good
    <2>1. \A p \in 0..n : ~(p + 0 > n)
      OBVIOUS
    <2>2. Has(0)
      BY <2>1
    <2>. QED BY <2>2
  <1>2. ASSUME NEW k \in 1..(n + 1), k - 1 \in Good PROVE k \in Good
    <2>1. PICK f \in [0..n -> S] : \A p \in 0..n : p + (k - 1) > n => Done(f, p)
      BY <1>2
    <2>. DEFINE m == n + 1 - k
                v == IF m \in stop THEN val[m] ELSE f[up[m]]
                g == [p \in 0..n |-> IF p = m THEN v ELSE f[p]]
    <2>2. m \in 0..n /\ \A p \in 0..n : p + k > n => p = m \/ (p + (k - 1) > n /\ p > m)
      OBVIOUS
    <2>3. v \in S
      <3>1. m \notin stop => up[m] \in 0..n
        BY <2>2
      <3>. HIDE DEF m
      <3>. QED BY <2>1, <2>2, <3>1
    <2>4. g \in [0..n -> S]
      BY <2>1, <2>3
    <2>5. ASSUME NEW p \in 0..n, p + k > n PROVE Done(g, p)
      <3>1. p \notin stop => up[p] \in 0..n /\ up[p] # m
        BY <2>2, <2>5
      <3>2. CASE p = m
        <4>. HIDE DEF m
        <4>. QED BY <2>2, <3>1, <3>2
      <3>3. CASE p # m
        <4>1. Done(f, p)
          BY <2>1, <2>2, <2>5, <3>3
        <4>. HIDE DEF m, v
        <4>. QED BY <3>1, <3>3, <4>1
      <3>. QED BY <3>2, <3>3
    <2>. HIDE DEF g, Done
    <2>6. Has(k)
      BY <2>4, <2>5
    <2>. QED BY <2>6
  <1>. HIDE DEF Done, Has
  <1>3. n + 1 \in Good
    <2>. HIDE DEF Good
    <2>0. n + 1 \in Nat
      OBVIOUS
    <2>1. 0..(n + 1) \subseteq Good
      BY <1>1, <1>2, <2>0, UpTo
    <2>. QED BY <2>1
  <1>4. PICK f \in [0..n -> S] : \A p \in 0..n : p + (n + 1) > n => Done(f, p)
    BY <1>3 DEF Has
  <1>5. \A p \in 0..n : Done(f, p)
    BY <1>4
  <1>6. f = [p \in 0..n |-> IF p \in stop THEN val[p] ELSE f[up[p]]]
    BY <1>5 DEF Done
  <1>. QED BY <1>6 DEF Climbs

\* There is one such table.
LEMMA ClimbOnce ==
  ASSUME NEW n \in Nat, NEW val, NEW stop, NEW up, NEW f, NEW g,
         \A p \in 0..n : p \notin stop => up[p] \in (p + 1)..n,
         Climbs(f, n, stop, val, up), Climbs(g, n, stop, val, up)
  PROVE  f = g
  <1>. DEFINE V(h) == [p \in 0..n |-> IF p \in stop THEN val[p] ELSE h[up[p]]]
              Same == {k \in 0..n : \A p \in 0..n : p + k >= n => f[p] = g[p]}
  <1>1. f = V(f) /\ g = V(g)
    BY DEF Climbs
  <1>2. \A p \in 0..n : /\ f[p] = IF p \in stop THEN val[p] ELSE f[up[p]]
                        /\ g[p] = IF p \in stop THEN val[p] ELSE g[up[p]]
    <2>. SUFFICES ASSUME NEW p \in 0..n
                  PROVE  V(f)[p] = (IF p \in stop THEN val[p] ELSE f[up[p]])
                         /\ V(g)[p] = (IF p \in stop THEN val[p] ELSE g[up[p]])
      BY <1>1, Zenon
    <2>. QED OBVIOUS
  <1>. HIDE DEF V
  <1>3. 0 \in Same
    <2>. SUFFICES ASSUME NEW p \in 0..n, p + 0 >= n PROVE f[p] = g[p]
      OBVIOUS
    <2>1. p \in stop
      OBVIOUS
    <2>. QED BY <1>2, <2>1
  <1>4. ASSUME NEW k \in 1..n, k - 1 \in Same PROVE k \in Same
    <2>. SUFFICES ASSUME NEW p \in 0..n, p + k >= n PROVE f[p] = g[p]
      OBVIOUS
    <2>1. CASE p \in stop
      BY <1>2, <2>1
    <2>2. CASE p \notin stop
      <3>1. up[p] \in 0..n /\ up[p] + (k - 1) >= n
        BY <2>2
      <3>2. f[up[p]] = g[up[p]]
        BY <1>4, <3>1
      <3>. QED BY <1>2, <2>2, <3>2
    <2>. QED BY <2>1, <2>2
  <1>5. \A p \in 0..n : f[p] = g[p]
    <2>. HIDE DEF Same
    <2>1. 0..n \subseteq Same
      BY <1>3, <1>4, UpTo
    <2>2. n \in Same
      BY <2>1
    <2>. QED BY <2>2 DEF Same
  <1>6. DOMAIN f = 0..n /\ DOMAIN g = 0..n
    BY <1>1 DEF V
  <1>7. f = [p \in 0..n |-> f[p]] /\ g = [p \in 0..n |-> g[p]]
    BY <1>1 DEF V
  <1>. QED BY <1>5, <1>7, Zenon

\* Where entries of a sector begin and end.
Ends(sec, i) == Used(SubSeq(sec, 1, i))
Hops(T) == \A t \in T : t.n \in Nat /\ t.n > 1

\* The ends of entries are strictly increasing.
LEMMA EndsGrow ==
  ASSUME NEW T, Hops(T), NEW sec \in Seq(T), NEW i \in 0..Len(sec), NEW j \in 0..Len(sec), i < j
  PROVE  Ends(sec, i) \in Nat /\ Ends(sec, j) \in Nat /\ Ends(sec, i) + 1 < Ends(sec, j)
  <1>1. \A t \in T : t.n \in Nat
    BY DEF Hops
  <1>2. /\ \A k \in 0..Len(sec) : Ends(sec, k) \in Nat
        /\ \A k \in 1..Len(sec) : Ends(sec, k) = Ends(sec, k - 1) + sec[k].n
    BY <1>1, UsedPrefixes DEF Ends
  <1>3. \A k \in 1..Len(sec) : sec[k].n \in Nat /\ sec[k].n > 1
    BY DEF Hops
  <1>. DEFINE Up == {d \in 0..Len(sec) : i + 1 + d <= Len(sec)
                      => Ends(sec, i) + 1 < Ends(sec, i + 1 + d)}
  <1>0. Len(sec) \in Nat /\ i \in Nat /\ j \in Nat /\ j <= Len(sec)
    OBVIOUS
  <1>4. 0 \in Up
    <2>1. i + 1 \in 1..Len(sec) /\ (i + 1) - 1 = i
      BY <1>0
    <2>2. Ends(sec, i + 1) = Ends(sec, i) + sec[i + 1].n /\ sec[i + 1].n > 1 /\ sec[i + 1].n \in Nat
      BY <1>2, <1>3, <2>1
    <2>. QED BY <1>0, <1>2, <2>2
  <1>5. ASSUME NEW d \in 1..Len(sec), d - 1 \in Up PROVE d \in Up
    <2>. SUFFICES ASSUME i + 1 + d <= Len(sec) PROVE Ends(sec, i) + 1 < Ends(sec, i + 1 + d)
      BY <1>5
    <2>1. i + 1 + d \in 1..Len(sec) /\ (i + 1 + d) - 1 = i + 1 + (d - 1)
            /\ i + 1 + (d - 1) \in 0..Len(sec)
      BY <1>0
    <2>2. Ends(sec, i + 1 + d) = Ends(sec, i + 1 + (d - 1)) + sec[i + 1 + d].n
          /\ sec[i + 1 + d].n \in Nat
      BY <1>2, <1>3, <2>1
    <2>3. Ends(sec, i) + 1 < Ends(sec, i + 1 + (d - 1))
      BY <1>0, <1>5, <2>1
    <2>4. Ends(sec, i) \in Nat /\ Ends(sec, i + 1 + (d - 1)) \in Nat
      BY <1>2, <2>1
    <2>. QED BY <2>2, <2>3, <2>4
  <1>. HIDE DEF Up
  <1>6. 0..Len(sec) \subseteq Up
    BY <1>0, <1>4, <1>5, UpTo
  <1>7. j - i - 1 \in Up
    BY <1>0, <1>6
  <1>8. i + 1 + (j - i - 1) = j
    BY <1>0
  <1>. QED BY <1>0, <1>2, <1>7, <1>8 DEF Up

\* Read at the end of an entry, the next length is that of the next entry, and
\* none behind the last; and it is a number wherever it is read.
LEMMA LengthIs ==
  ASSUME NEW T, Hops(T), NEW sec \in Seq(T)
  PROVE  /\ \A x : LengthAt(sec, x) \in Nat /\ LengthAt(sec, x) # 1
         /\ \A i \in 0..Len(sec) :
              LengthAt(sec, Ends(sec, i)) = IF i = Len(sec) THEN 0 ELSE sec[i + 1].n
  <1>0. Len(sec) \in Nat /\ DOMAIN sec = 1..Len(sec)
    OBVIOUS
  <1>. DEFINE I(x) == {i \in DOMAIN sec : Used(SubSeq(sec, 1, i - 1)) = x}
  <1>1. ASSUME NEW x
        PROVE  LengthAt(sec, x) = IF I(x) = {} THEN 0 ELSE sec[CHOOSE i \in I(x) : TRUE].n
    BY DEF LengthAt
  <1>2. ASSUME NEW x PROVE LengthAt(sec, x) \in Nat /\ LengthAt(sec, x) # 1
    <2>1. CASE I(x) = {}
      <3>. HIDE DEF I
      <3>. QED BY <1>1, <2>1
    <2>2. CASE I(x) # {}
      <3>1. (CHOOSE i \in I(x) : TRUE) \in DOMAIN sec
        BY <2>2
      <3>2. sec[CHOOSE i \in I(x) : TRUE] \in T
        BY <3>1
      <3>. HIDE DEF I
      <3>. QED BY <1>1, <2>2, <3>2 DEF Hops
    <2>. QED BY <2>1, <2>2
  <1>3. ASSUME NEW i \in 0..Len(sec)
        PROVE  LengthAt(sec, Ends(sec, i)) = IF i = Len(sec) THEN 0 ELSE sec[i + 1].n
    <2>1. ASSUME NEW j \in 1..Len(sec), Ends(sec, j - 1) = Ends(sec, i) PROVE j - 1 = i
      <3>1. j - 1 \in 0..Len(sec) /\ j \in Nat /\ i \in Nat
        BY <1>0
      <3>2. ~(j - 1 < i) /\ ~(i < j - 1)
        <4>1. j - 1 < i => FALSE
          <5>. SUFFICES ASSUME j - 1 < i PROVE FALSE
            OBVIOUS
          <5>1. Ends(sec, j - 1) \in Nat /\ Ends(sec, j - 1) + 1 < Ends(sec, i)
            BY <3>1, EndsGrow
          <5>. QED BY <2>1, <5>1
        <4>2. i < j - 1 => FALSE
          <5>. SUFFICES ASSUME i < j - 1 PROVE FALSE
            OBVIOUS
          <5>1. Ends(sec, i) \in Nat /\ Ends(sec, i) + 1 < Ends(sec, j - 1)
            BY <3>1, EndsGrow
          <5>. QED BY <2>1, <5>1
        <4>. QED BY <4>1, <4>2
      <3>. QED BY <3>1, <3>2
    <2>2. I(Ends(sec, i)) = IF i = Len(sec) THEN {} ELSE {i + 1}
      <3>1. \A j \in I(Ends(sec, i)) : j \in 1..Len(sec) /\ j = i + 1
        BY <1>0, <2>1 DEF Ends
      <3>2. i # Len(sec) => i + 1 \in I(Ends(sec, i))
        <4>. SUFFICES ASSUME i # Len(sec) PROVE i + 1 \in I(Ends(sec, i))
          OBVIOUS
        <4>1. Len(sec) \in Nat
          BY <1>0
        <4>2. i + 1 \in 1..Len(sec) /\ (i + 1) - 1 = i
          BY <4>1
        <4>. QED BY <1>0, <4>2 DEF Ends
      <3>3. i = Len(sec) => i + 1 \notin 1..Len(sec)
        BY <1>0
      <3>. HIDE DEF I
      <3>. QED BY <3>1, <3>2, <3>3
    <2>. HIDE DEF I
    <2>. QED BY <1>1, <2>2
  <1>. QED BY <1>2, <1>3

\* One chunk of the search.
ScanStops(sec, base, chunk) ==
  {p \in 0..(Cap + 1) :
     p + 2 > chunk \/ LengthAt(sec, base + p) = 0 \/ LengthAt(sec, base + p) > chunk - p}
ScanTo(sec, base, chunk) ==
  [p \in 0..(Cap + 1) |->
     [consumed |-> p,
      hop      |-> IF p + 2 > chunk THEN 0 ELSE LengthAt(sec, base + p),
      at_end   |-> ~(p + 2 > chunk) /\ LengthAt(sec, base + p) = 0]]
ScanUp(sec, base) == [p \in 0..(Cap + 1) |-> p + LengthAt(sec, base + p)]
IsScan(f, sec, base, chunk) ==
  f = [pos \in 0..(Cap + 1) |->
        LET n == LengthAt(sec, base + pos) IN
        IF pos + 2 > chunk   THEN [consumed |-> pos, hop |-> 0, at_end |-> FALSE]
        ELSE IF n = 0        THEN [consumed |-> pos, hop |-> 0, at_end |-> TRUE]
        ELSE IF n > chunk - pos
                             THEN [consumed |-> pos, hop |-> n, at_end |-> FALSE]
        ELSE f[pos + n]]

Found == [consumed : Nat, hop : Nat, at_end : BOOLEAN]

LEMMA SeekSizes == Cap \in Nat /\ Cap > 0 /\ Chunk \in Nat /\ Chunk > 1
  BY RingConstants

\* What the scan of a chunk returns.
LEMMA ScanIs ==
  ASSUME NEW T, Hops(T), NEW sec \in Seq(T), NEW base \in Nat, NEW chunk \in 0..Cap
  PROVE  \E f \in [0..(Cap + 1) -> Found] :
           IsScan(f, sec, base, chunk) /\ fl_scan_chunk(sec, base, chunk) = f[0]
  <1>. DEFINE L(p) == LengthAt(sec, base + p)
              stop == ScanStops(sec, base, chunk)
              val  == ScanTo(sec, base, chunk)
              up   == ScanUp(sec, base)
              g    == CHOOSE f : IsScan(f, sec, base, chunk)
  <1>1. \A p : L(p) \in Nat /\ L(p) # 1
    BY LengthIs
  <1>2. Cap + 1 \in Nat /\ Cap \in Nat /\ chunk \in Nat /\ chunk <= Cap
    BY SeekSizes
  <1>. HIDE DEF L
  <1>3. val \in [0..(Cap + 1) -> Found]
    <2>1. val = [p \in 0..(Cap + 1) |->
                   [consumed |-> p, hop |-> IF p + 2 > chunk THEN 0 ELSE L(p),
                    at_end |-> ~(p + 2 > chunk) /\ L(p) = 0]]
      BY DEF ScanTo, L
    <2>2. \A p \in 0..(Cap + 1) : p \in Nat /\ (IF p + 2 > chunk THEN 0 ELSE L(p)) \in Nat
      BY <1>1
    <2>. HIDE DEF val
    <2>. QED BY <2>1, <2>2 DEF Found
  <1>4. ASSUME NEW p \in 0..(Cap + 1), p \notin stop PROVE up[p] \in (p + 1)..(Cap + 1)
    <2>1. ~(p + 2 > chunk) /\ L(p) # 0 /\ ~(L(p) > chunk - p)
      BY <1>4 DEF ScanStops, L
    <2>2. up[p] = p + L(p)
      BY DEF ScanUp, L
    <2>. HIDE DEF up, stop
    <2>. QED BY <1>1, <1>2, <2>1, <2>2
  <1>. HIDE DEF val, stop, up
  <1>5. PICK f \in [0..(Cap + 1) -> Found] : Climbs(f, Cap + 1, stop, val, up)
    BY <1>2, <1>3, <1>4, Climb
  <1>6. \A h : IsScan(h, sec, base, chunk) <=> Climbs(h, Cap + 1, stop, val, up)
    <2>. SUFFICES ASSUME NEW h
                  PROVE  IsScan(h, sec, base, chunk) <=> Climbs(h, Cap + 1, stop, val, up)
      OBVIOUS
    <2>1. ASSUME NEW p \in 0..(Cap + 1)
          PROVE  (IF p + 2 > chunk THEN [consumed |-> p, hop |-> 0, at_end |-> FALSE]
                  ELSE IF L(p) = 0 THEN [consumed |-> p, hop |-> 0, at_end |-> TRUE]
                  ELSE IF L(p) > chunk - p THEN [consumed |-> p, hop |-> L(p), at_end |-> FALSE]
                  ELSE h[p + L(p)])
                 = IF p \in stop THEN val[p] ELSE h[up[p]]
      <3>1. p \in stop <=> p + 2 > chunk \/ L(p) = 0 \/ L(p) > chunk - p
        BY DEF stop, ScanStops, L
      <3>2. val[p] = [consumed |-> p, hop |-> IF p + 2 > chunk THEN 0 ELSE L(p),
                      at_end |-> ~(p + 2 > chunk) /\ L(p) = 0]
        BY DEF val, ScanTo, L
      <3>3. up[p] = p + L(p)
        BY DEF up, ScanUp, L
      <3>4. CASE p + 2 > chunk
        BY <3>1, <3>2, <3>4
      <3>5. CASE ~(p + 2 > chunk) /\ L(p) = 0
        BY <3>1, <3>2, <3>5
      <3>6. CASE ~(p + 2 > chunk) /\ L(p) # 0
        BY <3>1, <3>2, <3>3, <3>6
      <3>. QED BY <3>4, <3>5, <3>6
    <2>. QED BY <2>1 DEF IsScan, Climbs, L
  <1>7. IsScan(f, sec, base, chunk)
    BY <1>5, <1>6
  <1>8. IsScan(g, sec, base, chunk)
    BY <1>7
  <1>9. fl_scan_chunk(sec, base, chunk) = g[0]
    BY DEF fl_scan_chunk, IsScan
  <1>10. f = g
    <2>1. Climbs(g, Cap + 1, stop, val, up)
      BY <1>6, <1>8
    <2>. HIDE DEF g
    <2>. QED BY <1>2, <1>4, <1>5, <2>1, ClimbOnce
  <1>. QED BY <1>5, <1>8, <1>9, <1>10

LEMMA EndsAll ==
  ASSUME NEW T, Hops(T), NEW sec \in Seq(T)
  PROVE  /\ Len(sec) \in Nat /\ Ends(sec, 0) = 0 /\ Ends(sec, Len(sec)) = Used(sec)
         /\ \A i \in 0..Len(sec) : Ends(sec, i) \in Nat /\ Ends(sec, i) <= Used(sec)
         /\ \A i \in 0..Len(sec) : i < Len(sec) =>
              /\ sec[i + 1].n \in Nat /\ sec[i + 1].n > 1
              /\ Ends(sec, i + 1) = Ends(sec, i) + sec[i + 1].n
  <1>0. Len(sec) \in Nat
    OBVIOUS
  <1>0a. SubSeq(sec, 1, Len(sec)) = sec
    OBVIOUS
  <1>1. \A t \in T : t.n \in Nat
    BY DEF Hops
  <1>2. /\ \A k \in 0..Len(sec) : Ends(sec, k) \in Nat
        /\ Ends(sec, 0) = 0
        /\ \A k \in 1..Len(sec) : Ends(sec, k) = Ends(sec, k - 1) + sec[k].n
    BY <1>1, UsedPrefixes DEF Ends
  <1>3. Ends(sec, Len(sec)) = Used(sec)
    BY <1>0a DEF Ends
  <1>4. ASSUME NEW i \in 0..Len(sec) PROVE Ends(sec, i) <= Ends(sec, Len(sec))
    <2>1. CASE i = Len(sec)
      BY <1>2, <2>1
    <2>2. CASE i # Len(sec)
      <3>1. i < Len(sec) /\ Len(sec) \in 0..Len(sec)
        BY <1>0, <2>2
      <3>2. Ends(sec, i) + 1 < Ends(sec, Len(sec))
        BY <3>1, EndsGrow
      <3>. QED BY <1>2, <3>1, <3>2
    <2>. QED BY <2>1, <2>2
  <1>5. ASSUME NEW i \in 0..Len(sec), i < Len(sec)
        PROVE  /\ sec[i + 1].n \in Nat /\ sec[i + 1].n > 1
               /\ Ends(sec, i + 1) = Ends(sec, i) + sec[i + 1].n
    <2>1. i + 1 \in 1..Len(sec) /\ (i + 1) - 1 = i
      BY <1>0, <1>5
    <2>2. sec[i + 1] \in T
      BY <2>1
    <2>. QED BY <1>2, <2>1, <2>2 DEF Hops
  <1>. QED BY <1>0, <1>2, <1>3, <1>4, <1>5

\* A chunk that starts at the end of an entry: what is consumed ends at one.
Says(r, sec, base, chunk, i) ==
  /\ r \in Found
  /\ \E j \in i..Len(sec) :
       /\ base + r.consumed = Ends(sec, j)
       /\ r.at_end => j = Len(sec)
       /\ ~r.at_end /\ r.hop = 0 => r.consumed + 2 > chunk
       /\ ~r.at_end /\ r.hop # 0 => j < Len(sec) /\ r.hop = sec[j + 1].n

LEMMA ScanFinds ==
  ASSUME NEW T, Hops(T), NEW sec \in Seq(T), Used(sec) <= Cap,
         NEW i \in 0..Len(sec), NEW chunk \in 0..Cap
  PROVE  Says(fl_scan_chunk(sec, Ends(sec, i), chunk), sec, Ends(sec, i), chunk, i)
  <1>. DEFINE l == Len(sec)
              base == Ends(sec, i)
              P(j) == Ends(sec, j) - base
  <1>1. base \in Nat /\ Used(sec) \in Nat /\ l \in Nat /\ i \in Nat /\ i <= l
    BY EndsAll
  <1>2. PICK f \in [0..(Cap + 1) -> Found] :
           IsScan(f, sec, base, chunk) /\ fl_scan_chunk(sec, base, chunk) = f[0]
    BY <1>1, ScanIs
  <1>. DEFINE V == [pos \in 0..(Cap + 1) |->
                     LET n == LengthAt(sec, base + pos) IN
                     IF pos + 2 > chunk THEN [consumed |-> pos, hop |-> 0, at_end |-> FALSE]
                     ELSE IF n = 0 THEN [consumed |-> pos, hop |-> 0, at_end |-> TRUE]
                     ELSE IF n > chunk - pos
                          THEN [consumed |-> pos, hop |-> n, at_end |-> FALSE]
                     ELSE f[pos + n]]
              Len0(j) == IF j = l THEN 0 ELSE sec[j + 1].n
  <1>3. ASSUME NEW j \in i..l
        PROVE  /\ P(j) \in 0..Cap /\ P(j) \in 0..(Cap + 1) /\ j \in 0..l
                    /\ base + P(j) = Ends(sec, j)
               /\ LengthAt(sec, base + P(j)) = Len0(j)
               /\ j # l => Len0(j) \in Nat /\ Len0(j) > 1 /\ P(j + 1) = P(j) + Len0(j)
                    /\ j + 1 \in i..l
    <2>1. j \in 0..l
      BY <1>1
    <2>2. base <= Ends(sec, j) /\ Ends(sec, j) \in Nat /\ Ends(sec, j) <= Used(sec)
      <3>1. Ends(sec, j) \in Nat /\ Ends(sec, j) <= Used(sec)
        BY <2>1, EndsAll
      <3>2. i # j => base + 1 < Ends(sec, j)
        <4>1. i # j => i < j
          BY <1>1
        <4>. QED BY <2>1, <4>1, EndsGrow
      <3>. QED BY <1>1, <3>1, <3>2
    <2>3. P(j) \in 0..Cap /\ P(j) \in 0..(Cap + 1) /\ base + P(j) = Ends(sec, j)
      <3>. HIDE DEF base
      <3>. QED BY <1>1, <2>2, SeekSizes
    <2>4. LengthAt(sec, base + P(j)) = Len0(j)
      BY <2>1, <2>3, LengthIs
    <2>5. j # l => Len0(j) \in Nat /\ Len0(j) > 1 /\ P(j + 1) = P(j) + Len0(j) /\ j + 1 \in i..l
      <3>. SUFFICES ASSUME j # l
                    PROVE  Len0(j) \in Nat /\ Len0(j) > 1 /\ P(j + 1) = P(j) + Len0(j)
                             /\ j + 1 \in i..l
        OBVIOUS
      <3>1. j < l /\ j + 1 \in i..l
        BY <1>1
      <3>2. sec[j + 1].n \in Nat /\ sec[j + 1].n > 1
              /\ Ends(sec, j + 1) = Ends(sec, j) + sec[j + 1].n
        BY <2>1, <3>1, EndsAll
      <3>. HIDE DEF base, l
      <3>. QED BY <1>1, <2>2, <3>1, <3>2
    <2>. QED BY <2>1, <2>3, <2>4, <2>5
  <1>. HIDE DEF P, Len0
  <1>4. ASSUME NEW j \in i..l
        PROVE  f[P(j)] = IF P(j) + 2 > chunk THEN [consumed |-> P(j), hop |-> 0, at_end |-> FALSE]
                         ELSE IF Len0(j) = 0 THEN [consumed |-> P(j), hop |-> 0, at_end |-> TRUE]
                         ELSE IF Len0(j) > chunk - P(j)
                              THEN [consumed |-> P(j), hop |-> Len0(j), at_end |-> FALSE]
                         ELSE f[P(j) + Len0(j)]
    <2>1. f = V
      BY <1>2 DEF IsScan
    <2>. HIDE DEF base
    <2>2. V[P(j)] = IF P(j) + 2 > chunk THEN [consumed |-> P(j), hop |-> 0, at_end |-> FALSE]
                    ELSE IF Len0(j) = 0 THEN [consumed |-> P(j), hop |-> 0, at_end |-> TRUE]
                    ELSE IF Len0(j) > chunk - P(j)
                         THEN [consumed |-> P(j), hop |-> Len0(j), at_end |-> FALSE]
                    ELSE f[P(j) + Len0(j)]
      BY <1>3
    <2>. HIDE DEF V
    <2>. QED BY <2>1, <2>2
  <1>. HIDE DEF V
  <1>5. ASSUME NEW j \in i..l,
               j # l => Says(f[P(j + 1)], sec, base, chunk, i)
        PROVE  Says(f[P(j)], sec, base, chunk, i)
    <2>0. j \in i..Len(sec)
      OBVIOUS
    <2>. HIDE DEF base
    <2>1. f[P(j)] \in Found
      BY <1>2, <1>3
    <2>2. CASE P(j) + 2 > chunk
      <3>1. f[P(j)] = [consumed |-> P(j), hop |-> 0, at_end |-> FALSE]
        BY <1>4, <2>2
      <3>2. f[P(j)].consumed = P(j) /\ f[P(j)].hop = 0 /\ ~f[P(j)].at_end
        BY <3>1
      <3>3. base + f[P(j)].consumed = Ends(sec, j)
        BY <1>3, <3>2
      <3>4. f[P(j)].consumed + 2 > chunk
        BY <2>2, <3>2
      <3>. HIDE DEF l
      <3>. QED BY <2>0, <2>1, <3>2, <3>3, <3>4, Zenon DEF Says
    <2>3. CASE ~(P(j) + 2 > chunk) /\ Len0(j) = 0
      <3>1. f[P(j)] = [consumed |-> P(j), hop |-> 0, at_end |-> TRUE]
        BY <1>4, <2>3
      <3>2. j = l
        <4>1. j # l => Len0(j) \in Nat /\ Len0(j) > 1
          BY <1>3
        <4>. HIDE DEF l
        <4>. QED BY <2>3, <4>1
      <3>3. f[P(j)].consumed = P(j) /\ f[P(j)].at_end
        BY <3>1
      <3>4. base + f[P(j)].consumed = Ends(sec, j)
        BY <1>3, <3>3
      <3>5. j = Len(sec)
        BY <3>2
      <3>. HIDE DEF l
      <3>. QED BY <2>0, <2>1, <3>3, <3>4, <3>5, Zenon DEF Says
    <2>4. CASE ~(P(j) + 2 > chunk) /\ Len0(j) # 0 /\ Len0(j) > chunk - P(j)
      <3>1. f[P(j)] = [consumed |-> P(j), hop |-> Len0(j), at_end |-> FALSE]
        BY <1>4, <2>4
      <3>2. j # l /\ Len0(j) = sec[j + 1].n
        BY <2>4 DEF Len0
      <3>3. j < l
        BY <1>1, <3>2
      <3>4. f[P(j)].consumed = P(j) /\ f[P(j)].hop = Len0(j) /\ ~f[P(j)].at_end
        BY <3>1
      <3>5. base + f[P(j)].consumed = Ends(sec, j)
        BY <1>3, <3>4
      <3>6. f[P(j)].hop # 0 /\ f[P(j)].hop = sec[j + 1].n
        BY <2>4, <3>2, <3>4
      <3>7. j < Len(sec)
        BY <3>3
      <3>. HIDE DEF l
      <3>. QED BY <2>0, <2>1, <3>4, <3>5, <3>6, <3>7, Zenon DEF Says
    <2>5. CASE ~(P(j) + 2 > chunk) /\ Len0(j) # 0 /\ ~(Len0(j) > chunk - P(j))
      <3>1. j # l
        BY <2>5 DEF Len0
      <3>2. f[P(j)] = f[P(j + 1)]
        BY <1>3, <1>4, <2>5, <3>1
      <3>. QED BY <1>5, <3>1, <3>2
    <2>. QED BY <2>2, <2>3, <2>4, <2>5
  <1>. DEFINE Good == {d \in 0..(l - i) : Says(f[P(l - d)], sec, base, chunk, i)}
  <1>6. 0 \in Good
    <2>1. l \in i..l /\ l - 0 = l
      BY <1>1
    <2>2. Says(f[P(l)], sec, base, chunk, i)
      BY <1>5, <2>1
    <2>. HIDE DEF base, l
    <2>. QED BY <1>1, <2>1, <2>2
  <1>7. ASSUME NEW d \in 1..(l - i), d - 1 \in Good PROVE d \in Good
    <2>1. l - d \in i..l /\ (l - d) + 1 = l - (d - 1)
      BY <1>1
    <2>2. Says(f[P(l - d)], sec, base, chunk, i)
      BY <1>5, <1>7, <2>1
    <2>. HIDE DEF base, l
    <2>. QED BY <1>1, <2>2
  <1>8. l - i \in Good
    <2>. HIDE DEF Good
    <2>1. l - i \in Nat
      BY <1>1
    <2>2. 0..(l - i) \subseteq Good
      BY <1>6, <1>7, <2>1, UpTo
    <2>. QED BY <2>1, <2>2
  <1>9. P(i) = 0 /\ l - (l - i) = i
    BY <1>1 DEF P
  <1>. QED BY <1>2, <1>8, <1>9

\* The scan the search makes at a cursor.
ScanAt(sec, c) == fl_scan_chunk(sec, c, Lesser(Chunk, Cap - c))
SeekStops(sec) == {c \in 0..Cap : c = Cap \/ ScanAt(sec, c).at_end
                                  \/ ScanAt(sec, c).consumed + ScanAt(sec, c).hop = 0}
SeekTo(sec) == [c \in 0..Cap |-> IF c # Cap /\ ScanAt(sec, c).at_end
                                 THEN c + ScanAt(sec, c).consumed ELSE c]
SeekUp(sec) ==
  [c \in 0..Cap |-> Lesser(Cap, c + ScanAt(sec, c).consumed + ScanAt(sec, c).hop)]
IsSeek(f, sec) ==
  f = [cursor \in 0..Cap |->
        LET chunk == Lesser(Chunk, Cap - cursor)
            sc    == fl_scan_chunk(sec, cursor, chunk)
        IN  IF cursor = Cap THEN cursor
            ELSE IF sc.at_end THEN cursor + sc.consumed
            ELSE IF sc.consumed + sc.hop = 0 THEN cursor
            ELSE f[Lesser(Cap, cursor + sc.consumed + sc.hop)]]

\* fl_fast_seek_active finds the end of the last entry of any sector, chunk by
\* chunk, wherever the chunks cut it.
THEOREM CursorFound ==
  ASSUME NEW T, Hops(T), NEW sec \in Seq(T), Used(sec) <= Cap
  PROVE  fl_fast_seek_active(sec) = Used(sec)
  <1>. DEFINE stop == SeekStops(sec)
              val  == SeekTo(sec)
              up   == SeekUp(sec)
              g    == CHOOSE f : IsSeek(f, sec)
              Sc(c) == ScanAt(sec, c)
              u    == Used(sec)
  <1>0. Cap \in Nat /\ u \in Nat /\ u <= Cap /\ Len(sec) \in Nat
    BY SeekSizes, EndsAll
  <1>1. ASSUME NEW c \in 0..Cap
        PROVE  Lesser(Chunk, Cap - c) \in 0..Cap /\ Sc(c) \in Found
               /\ Lesser(Chunk, Cap - c) = IF Chunk < Cap - c THEN Chunk ELSE Cap - c
    <2>1. Lesser(Chunk, Cap - c) \in 0..Cap
          /\ Lesser(Chunk, Cap - c) = IF Chunk < Cap - c THEN Chunk ELSE Cap - c
      BY SeekSizes DEF Lesser
    <2>2. PICK f \in [0..(Cap + 1) -> Found] :
             fl_scan_chunk(sec, c, Lesser(Chunk, Cap - c)) = f[0]
      <3>1. c \in Nat
        BY <1>0
      <3>. QED BY <2>1, <3>1, ScanIs
    <2>3. 0 \in 0..(Cap + 1)
      BY <1>0
    <2>. QED BY <2>1, <2>2, <2>3 DEF ScanAt
  <1>2. ASSUME NEW c \in 0..Cap
        PROVE  /\ c \in stop <=> c = Cap \/ Sc(c).at_end \/ Sc(c).consumed + Sc(c).hop = 0
               /\ val[c] = IF c # Cap /\ Sc(c).at_end THEN c + Sc(c).consumed ELSE c
               /\ up[c] = IF Cap < c + Sc(c).consumed + Sc(c).hop THEN Cap
                          ELSE c + Sc(c).consumed + Sc(c).hop
    BY DEF SeekStops, SeekTo, SeekUp, Lesser
  <1>. HIDE DEF stop, up, Sc, u
  <1>3. val \in [0..Cap -> Nat]
    <2>1. val = [c \in 0..Cap |-> IF c # Cap /\ Sc(c).at_end THEN c + Sc(c).consumed ELSE c]
      BY DEF SeekTo, Sc
    <2>2. \A c \in 0..Cap : Sc(c).consumed \in Nat
      BY <1>1 DEF Found
    <2>. HIDE DEF val
    <2>. QED BY <2>1, <2>2
  <1>. HIDE DEF val
  <1>4. ASSUME NEW c \in 0..Cap, c \notin stop PROVE up[c] \in (c + 1)..Cap
    <2>1. Sc(c).consumed \in Nat /\ Sc(c).hop \in Nat
      BY <1>1 DEF Found
    <2>2. c # Cap /\ Sc(c).consumed + Sc(c).hop # 0
      BY <1>2, <1>4
    <2>3. up[c] = IF Cap < c + Sc(c).consumed + Sc(c).hop THEN Cap
                  ELSE c + Sc(c).consumed + Sc(c).hop
      BY <1>2
    <2>. QED BY <1>0, <2>1, <2>2, <2>3
  <1>5. PICK f \in [0..Cap -> Nat] : Climbs(f, Cap, stop, val, up)
    BY <1>0, <1>3, <1>4, Climb
  <1>6. ASSUME NEW h PROVE IsSeek(h, sec) <=> Climbs(h, Cap, stop, val, up)
    <2>1. ASSUME NEW c \in 0..Cap
          PROVE  (IF c = Cap THEN c ELSE IF Sc(c).at_end THEN c + Sc(c).consumed
                  ELSE IF Sc(c).consumed + Sc(c).hop = 0 THEN c
                  ELSE h[Lesser(Cap, c + Sc(c).consumed + Sc(c).hop)])
                 = IF c \in stop THEN val[c] ELSE h[up[c]]
      <3>1. up[c] = Lesser(Cap, c + Sc(c).consumed + Sc(c).hop)
        BY <1>2 DEF Lesser
      <3>2. CASE c = Cap
        BY <1>2, <3>2
      <3>3. CASE c # Cap /\ Sc(c).at_end
        BY <1>2, <3>3
      <3>4. CASE c # Cap /\ ~Sc(c).at_end /\ Sc(c).consumed + Sc(c).hop = 0
        BY <1>2, <3>4
      <3>5. CASE c # Cap /\ ~Sc(c).at_end /\ Sc(c).consumed + Sc(c).hop # 0
        BY <1>2, <3>1, <3>5
      <3>. QED BY <3>2, <3>3, <3>4, <3>5
    <2>. QED BY <2>1 DEF IsSeek, Climbs, Sc, ScanAt
  <1>7. Climbs(g, Cap, stop, val, up)
    <2>1. IsSeek(f, sec)
      BY <1>5, <1>6
    <2>2. IsSeek(g, sec)
      BY <2>1
    <2>. QED BY <1>6, <2>2
  <1>8. fl_fast_seek_active(sec) = g[0]
    BY DEF fl_fast_seek_active, IsSeek
  <1>. HIDE DEF g
  <1>9. g \in [0..Cap -> Nat]
    BY <1>0, <1>4, <1>5, <1>7, ClimbOnce
  <1>10. ASSUME NEW c \in 0..Cap PROVE g[c] = IF c \in stop THEN val[c] ELSE g[up[c]]
    <2>. DEFINE V == [p \in 0..Cap |-> IF p \in stop THEN val[p] ELSE g[up[p]]]
    <2>1. g = V
      BY <1>7 DEF Climbs
    <2>2. V[c] = IF c \in stop THEN val[c] ELSE g[up[c]]
      OBVIOUS
    <2>. HIDE DEF V
    <2>. QED BY <2>1, <2>2
  <1>. DEFINE Good == {k \in 0..Cap :
                         \A i \in 0..Len(sec) : Ends(sec, i) + k >= Cap => g[Ends(sec, i)] = u}
  \* What the search does at the end of entry i.
  <1>11. ASSUME NEW i \in 0..Len(sec)
         PROVE  /\ Ends(sec, i) \in 0..Cap
                /\ \/ Ends(sec, i) \in stop /\ val[Ends(sec, i)] = u
                   \/ /\ Ends(sec, i) \notin stop
                      /\ \E j \in 0..Len(sec) : up[Ends(sec, i)] = Ends(sec, j)
    <2>. DEFINE c == Ends(sec, i)
                chunk == Lesser(Chunk, Cap - c)
                r == Sc(c)
    <2>1. c \in Nat /\ c <= u /\ c \in 0..Cap /\ i \in Nat
      <3>1. c \in Nat /\ c <= u
        BY EndsAll DEF u
      <3>. HIDE DEF c
      <3>. QED BY <1>0, <3>1
    <2>2. i # Len(sec) => i < Len(sec) /\ c + 1 < u
      <3>. SUFFICES ASSUME i # Len(sec) PROVE i < Len(sec) /\ c + 1 < u
        OBVIOUS
      <3>1. i < Len(sec) /\ Len(sec) \in 0..Len(sec)
        BY <1>0
      <3>2. c + 1 < Ends(sec, Len(sec))
        BY <3>1, EndsGrow
      <3>. QED BY <3>1, <3>2, EndsAll DEF u
    <2>3. i = Len(sec) => c = u
      BY EndsAll DEF u
    <2>4. chunk \in 0..Cap /\ chunk = IF Chunk < Cap - c THEN Chunk ELSE Cap - c
      BY <1>1, <2>1
    <2>5. Says(r, sec, c, chunk, i)
      <3>1. Says(fl_scan_chunk(sec, Ends(sec, i), chunk), sec, Ends(sec, i), chunk, i)
        BY <1>0, <2>4, ScanFinds DEF u
      <3>. QED BY <3>1 DEF Sc, ScanAt
    <2>6. /\ c \in stop <=> c = Cap \/ r.at_end \/ r.consumed + r.hop = 0
          /\ val[c] = IF c # Cap /\ r.at_end THEN c + r.consumed ELSE c
          /\ up[c] = IF Cap < c + r.consumed + r.hop THEN Cap ELSE c + r.consumed + r.hop
      BY <1>2, <2>1
    <2>. HIDE DEF c, chunk, r
    <2>7. r.consumed \in Nat /\ r.hop \in Nat /\ r.at_end \in BOOLEAN
      BY <2>5 DEF Says, Found
    <2>8. PICK j \in i..Len(sec) :
            /\ c + r.consumed = Ends(sec, j)
            /\ r.at_end => j = Len(sec)
            /\ ~r.at_end /\ r.hop = 0 => r.consumed + 2 > chunk
            /\ ~r.at_end /\ r.hop # 0 => j < Len(sec) /\ r.hop = sec[j + 1].n
      BY <2>5 DEF Says
    <2>9. j \in 0..Len(sec) /\ Ends(sec, j) \in Nat /\ Ends(sec, j) <= u
      <3>1. j \in 0..Len(sec)
        BY <2>1, <1>0
      <3>. QED BY <3>1, EndsAll DEF u
    <2>10. CASE c = Cap
      <3>1. c = u
        BY <1>0, <2>1, <2>10
      <3>. QED BY <2>1, <2>6, <2>10, <3>1 DEF c
    <2>11. CASE c # Cap /\ r.at_end
      <3>1. c + r.consumed = u
        BY <2>8, <2>11, EndsAll DEF u
      <3>. QED BY <2>1, <2>6, <2>11, <3>1 DEF c
    <2>12. CASE c # Cap /\ ~r.at_end /\ r.hop = 0 /\ r.consumed = 0
      <3>1. 2 > chunk
        BY <2>7, <2>8, <2>12
      <3>2. Cap <= c + 1
        BY <1>0, <2>1, <2>4, <3>1, SeekSizes
      <3>3. c = u
        BY <1>0, <2>1, <2>2, <2>3, <3>2
      <3>. QED BY <2>1, <2>6, <2>12, <3>3 DEF c
    <2>13. CASE c # Cap /\ ~r.at_end /\ r.hop = 0 /\ r.consumed # 0
      <3>1. c \notin stop
        BY <2>6, <2>7, <2>13
      <3>2. up[c] = Ends(sec, j)
        <4>1. c + r.consumed + r.hop = Ends(sec, j)
          BY <2>1, <2>7, <2>8, <2>13
        <4>2. ~(Cap < Ends(sec, j))
          BY <1>0, <2>9
        <4>. QED BY <2>6, <4>1, <4>2, Zenon
      <3>. QED BY <2>1, <2>9, <3>1, <3>2 DEF c
    <2>14. CASE c # Cap /\ ~r.at_end /\ r.hop # 0
      <3>1. c \notin stop
        BY <2>6, <2>7, <2>14
      <3>2. j < Len(sec) /\ r.hop = sec[j + 1].n /\ j + 1 \in 0..Len(sec)
        <4>1. j < Len(sec) /\ r.hop = sec[j + 1].n
          BY <2>8, <2>14
        <4>. QED BY <1>0, <2>9, <4>1
      <3>3. Ends(sec, j + 1) = Ends(sec, j) + r.hop /\ Ends(sec, j + 1) <= u
        BY <2>9, <3>2, EndsAll DEF u
      <3>4. up[c] = Ends(sec, j + 1)
        <4>1. c + r.consumed + r.hop = Ends(sec, j + 1)
          BY <2>8, <3>3
        <4>2. ~(Cap < c + r.consumed + r.hop)
          <5>1. Ends(sec, j + 1) <= u /\ Ends(sec, j + 1) \in Nat
            BY <3>2, <3>3, EndsAll
          <5>2. ~(Cap < Ends(sec, j + 1))
            BY <1>0, <5>1
          <5>. QED BY <4>1, <5>2, Zenon
        <4>. QED BY <2>6, <4>1, <4>2
      <3>. QED BY <2>1, <3>1, <3>2, <3>4 DEF c
    <2>. QED BY <2>10, <2>11, <2>12, <2>13, <2>14
  <1>12. ASSUME NEW i \in 0..Len(sec),
                \A j \in 0..Len(sec) : Ends(sec, j) > Ends(sec, i) => g[Ends(sec, j)] = u
         PROVE  g[Ends(sec, i)] = u
    <2>1. CASE Ends(sec, i) \in stop
      BY <1>10, <1>11, <2>1
    <2>2. CASE Ends(sec, i) \notin stop
      <3>1. PICK j \in 0..Len(sec) : up[Ends(sec, i)] = Ends(sec, j)
        BY <1>11, <2>2
      <3>2. up[Ends(sec, i)] \in (Ends(sec, i) + 1)..Cap /\ Ends(sec, i) \in Nat
        BY <1>4, <1>11, <2>2
      <3>3. g[Ends(sec, j)] = u
        <4>1. Ends(sec, j) > Ends(sec, i)
          BY <3>1, <3>2
        <4>. QED BY <1>12, <4>1
      <3>. QED BY <1>10, <1>11, <2>2, <3>1, <3>3
    <2>. QED BY <2>1, <2>2
  <1>13. 0 \in Good
    <2>. SUFFICES ASSUME NEW i \in 0..Len(sec), Ends(sec, i) + 0 >= Cap
                  PROVE  g[Ends(sec, i)] = u
      BY <1>0
    <2>1. \A j \in 0..Len(sec) : ~(Ends(sec, j) > Ends(sec, i))
      <3>1. \A j \in 0..Len(sec) : Ends(sec, j) \in 0..Cap
        BY <1>11
      <3>. QED BY <1>0, <3>1
    <2>. QED BY <1>12, <2>1
  <1>14. ASSUME NEW k \in 1..Cap, k - 1 \in Good PROVE k \in Good
    <2>. SUFFICES ASSUME NEW i \in 0..Len(sec), Ends(sec, i) + k >= Cap
                  PROVE  g[Ends(sec, i)] = u
      BY <1>0
    <2>1. ASSUME NEW j \in 0..Len(sec), Ends(sec, j) > Ends(sec, i) PROVE g[Ends(sec, j)] = u
      <3>1. Ends(sec, j) \in 0..Cap /\ Ends(sec, i) \in 0..Cap
        BY <1>11
      <3>2. Ends(sec, j) + (k - 1) >= Cap
        BY <1>0, <2>1, <3>1
      <3>. QED BY <1>14, <3>2
    <2>. QED BY <1>12, <2>1
  <1>15. Cap \in Good
    <2>. HIDE DEF Good
    <2>1. 0..Cap \subseteq Good
      BY <1>0, <1>13, <1>14, UpTo
    <2>. QED BY <1>0, <2>1
  <1>16. 0 \in 0..Len(sec) /\ Ends(sec, 0) = 0
    BY <1>0, EndsAll
  <1>. QED BY <1>0, <1>8, <1>15, <1>16 DEF u

=============================================================================
