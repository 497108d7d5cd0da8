---------------------------- MODULE ReadersProofs ----------------------------
(***************************************************************************)
(* Theorems about the requests that read beside the block processor, for   *)
(* all values of the constants: whatever the blocks and however often they *)
(* are reorganised, tx_hashes_at_blockheight caches no stale hashes; and   *)
(* the size-bounded cache keeps its size and forgets what was used least   *)
(* recently.                                                               *)
(*                                                                         *)
(* FlattenSeq is defined by a recursion over the blocks of a chain; what   *)
(* the proof needs of it is proved first, by looking at the shortest       *)
(* counterexample.                                                         *)
(***************************************************************************)
EXTENDS MCReaders, FiniteSetsExt, FiniteSetTheorems, NaturalsInduction, WellFoundedInduction,
        SequenceTheorems, TLAPS

\* g is the function that the recursion of FlattenSeq defines, for the first n of s.
Flattens(s, n, g) ==
    g = [i \in 1 .. n |-> IF i = 1 THEN s[i] ELSE g[i - 1] \o s[i]]

\* A non-empty set of natural numbers has a least one.
LEMMA LeastNumber ==
    ASSUME NEW T \in SUBSET Nat, T # {}
    PROVE  \E n \in T : \A m \in Nat : m < n => m \notin T
<1>1. \E n \in T : \A m \in T : ~(<<m, n>> \in OpToRel(<, Nat))
  BY NatLessThanWellFounded, WFMin
<1> QED
  BY <1>1 DEF OpToRel

\* Two functions that satisfy the recursion agree where both are defined.
LEMMA FlattensUnique ==
    ASSUME NEW s, NEW n \in Nat, NEW m \in Nat, NEW g, NEW h,
           Flattens(s, n, g), Flattens(s, m, h)
    PROVE  \A i \in 1 .. n : i <= m => g[i] = h[i]
<1> DEFINE T == { i \in Nat : i \in 1 .. n /\ i <= m /\ g[i] # h[i] }
<1> SUFFICES ASSUME T # {} PROVE FALSE
  OBVIOUS
<1>1. PICK i \in T : \A j \in Nat : j < i => j \notin T
  <2> HIDE DEF T
  <2> QED
    BY LeastNumber, T \in SUBSET Nat DEF T
<1>2. i \in 1 .. n /\ i \in 1 .. m /\ g[i] # h[i]
  OBVIOUS
<1>3. i # 1
  BY <1>2 DEF Flattens
<1>4. g[i] = g[i - 1] \o s[i] /\ h[i] = h[i - 1] \o s[i]
  BY <1>2, <1>3 DEF Flattens
<1>5. g[i - 1] = h[i - 1]
  BY <1>1, <1>2, <1>3
<1> QED
  BY <1>2, <1>4, <1>5

\* The recursion defines a function.
LEMMA FlattensExist ==
    ASSUME NEW s
    PROVE  \A n \in Nat : \E g : Flattens(s, n, g)
<1> DEFINE T == { n \in Nat : ~ \E g : Flattens(s, n, g) }
<1> SUFFICES ASSUME T # {} PROVE FALSE
  OBVIOUS
<1>1. PICK n \in T : \A m \in Nat : m < n => m \notin T
  <2> HIDE DEF T
  <2> QED
    BY LeastNumber, T \in SUBSET Nat DEF T
<1>2. n \in Nat /\ ~ \E g : Flattens(s, n, g)
  OBVIOUS
<1>3. n # 0
  <2> DEFINE g == [i \in 1 .. 0 |-> s]
  <2>1. Flattens(s, 0, g)
    BY 1 .. 0 = {} DEF Flattens
  <2> QED
    BY <1>2, <2>1
<1>4. \E g : Flattens(s, n - 1, g)
  BY <1>1, <1>2, <1>3
<1>5. PICK g : Flattens(s, n - 1, g)
  BY <1>4
<1> DEFINE h == [i \in 1 .. n |-> IF i < n THEN g[i] ELSE IF i = 1 THEN s[i] ELSE g[i - 1] \o s[i]]
<1>6. \A i \in 1 .. n : h[i] = IF i = 1 THEN s[i] ELSE h[i - 1] \o s[i]
  <2> SUFFICES ASSUME NEW i \in 1 .. n PROVE h[i] = IF i = 1 THEN s[i] ELSE h[i - 1] \o s[i]
    OBVIOUS
  <2>1. CASE i < n
    <3>1. i \in 1 .. n - 1
      BY <1>2, <2>1
    <3>2. g[i] = IF i = 1 THEN s[i] ELSE g[i - 1] \o s[i]
      BY <1>5, <3>1 DEF Flattens
    <3>3. h[i] = g[i] /\ (i # 1 => h[i - 1] = g[i - 1])
      BY <1>2, <2>1
    <3> QED
      BY <3>2, <3>3
  <2>2. CASE i = n
    <3>1. i # 1 => h[i - 1] = g[i - 1]
      BY <1>2, <2>2
    <3> QED
      BY <2>2, <3>1
  <2> QED
    BY <1>2, <2>1, <2>2
<1>7. Flattens(s, n, h)
  <2>1. h = [i \in 1 .. n |-> h[i]]
    OBVIOUS
  <2> HIDE DEF h
  <2> QED
    BY <1>6, <2>1 DEF Flattens
<1> QED
  BY <1>2, <1>7

LEMMA FlattenIs ==
    ASSUME NEW S, NEW s \in Seq(S), s # <<>>, NEW g, Flattens(s, Len(s), g)
    PROVE  Txids!FlattenSeq(s) = g[Len(s)]
<1> DEFINE f == CHOOSE h : Flattens(s, Len(s), h)
<1>1. Len(s) \in Nat /\ Len(s) # 0
  BY SMT
<1>2. Flattens(s, Len(s), f)
  BY <1>1
<1>3. Txids!FlattenSeq(s) = f[Len(s)]
  BY <1>1 DEF Txids!FlattenSeq, Flattens
<1> HIDE DEF f
<1> QED
  BY <1>1, <1>2, <1>3, FlattensUnique

LEMMA FlattenEmpty ==
    Txids!FlattenSeq(<<>>) = <<>>
BY DEF Txids!FlattenSeq

LEMMA FlattenAppend ==
    ASSUME NEW S, NEW s \in Seq(Seq(S)), NEW b \in Seq(S)
    PROVE  Txids!FlattenSeq(Append(s, b)) = Txids!FlattenSeq(s) \o b
<1> DEFINE t == Append(s, b)
<1>1. t \in Seq(Seq(S)) /\ Len(t) = Len(s) + 1 /\ t # <<>> /\ Len(s) \in Nat
  <2> DEFINE U == Seq(S)
  <2>1. s \in Seq(U) /\ b \in U
    OBVIOUS
  <2> HIDE DEF U
  <2>2. t \in Seq(U) /\ Len(t) = Len(s) + 1 /\ t # <<>> /\ Len(s) \in Nat
    BY <2>1
  <2> QED
    BY <2>2 DEF U
<1>2. PICK g : Flattens(t, Len(t), g)
  <2> HIDE DEF t
  <2>1. Len(t) \in Nat
    BY <1>1
  <2> QED
    BY <2>1, FlattensExist
<1>3. Txids!FlattenSeq(t) = g[Len(t)]
  <2> HIDE DEF t
  <2> QED
    BY <1>1, <1>2, FlattenIs
<1>4. t[Len(s) + 1] = b /\ \A i \in 1 .. Len(s) : t[i] = s[i]
  OBVIOUS
<1>5. CASE s = <<>>
  <2>1. g[1] = b
    BY <1>1, <1>2, <1>4, <1>5, Len(s) = 0 DEF Flattens
  <2>2. <<>> \o b = b
    BY SMT
  <2> QED
    BY <1>1, <1>3, <1>5, <2>1, <2>2, FlattenEmpty, Len(s) = 0
<1>6. CASE s # <<>>
  <2>1. Len(s) # 0
    BY <1>6
  <2> DEFINE h == [i \in 1 .. Len(s) |-> g[i]]
  <2>2. \A i \in 1 .. Len(s) : h[i] = IF i = 1 THEN s[i] ELSE h[i - 1] \o s[i]
    <3> SUFFICES ASSUME NEW i \in 1 .. Len(s) PROVE h[i] = IF i = 1 THEN s[i] ELSE h[i - 1] \o s[i]
      OBVIOUS
    <3>1. g[i] = IF i = 1 THEN t[i] ELSE g[i - 1] \o t[i]
      <4> HIDE DEF t
      <4>1. i \in 1 .. Len(t)
        BY <1>1
      <4> QED
        BY <1>2, <4>1 DEF Flattens
    <3>2. h[i] = g[i] /\ (i # 1 => h[i - 1] = g[i - 1])
      BY <1>1
    <3> HIDE DEF t, h
    <3> QED
      BY <1>4, <3>1, <3>2
  <2>3. Flattens(s, Len(s), h)
    <3>1. h = [i \in 1 .. Len(s) |-> h[i]]
      OBVIOUS
    <3> HIDE DEF h
    <3> QED
      BY <2>2, <3>1 DEF Flattens
  <2>4. Txids!FlattenSeq(s) = h[Len(s)]
    <3> HIDE DEF h
    <3> QED
      BY <1>6, <2>3, FlattenIs
  <2>5. h[Len(s)] = g[Len(s)]
    BY <1>1, <2>1
  <2>6. g[Len(t)] = g[Len(s)] \o b
    <3> HIDE DEF t
    <3> DEFINE k == Len(t)
    <3>1. k \in 1 .. k /\ k # 1 /\ k - 1 = Len(s) /\ t[k] = b
      BY <1>1, <1>4, <2>1
    <3>2. g[k] = g[k - 1] \o t[k]
      BY <1>2, <3>1 DEF Flattens
    <3> QED
      BY <3>1, <3>2
  <2> QED
    BY <1>3, <2>4, <2>5, <2>6
<1> QED
  BY <1>5, <1>6

-----------------------------------------------------------------------------
(* Chains.                                                                  *)

\* Induction over the numbers of a set.
LEMMA AllNumbers ==
    ASSUME NEW T \in SUBSET Nat, 0 \in T, \A n \in T : n + 1 \in T
    PROVE  T = Nat
<1> SUFFICES ASSUME Nat \ T # {} PROVE FALSE
  OBVIOUS
<1>1. PICK n \in Nat \ T : \A m \in Nat : m < n => m \notin Nat \ T
  BY LeastNumber, Nat \ T \in SUBSET Nat
<1>2. n # 0 /\ n - 1 \in Nat /\ n - 1 < n
  OBVIOUS
<1>3. n - 1 \in T
  BY <1>1, <1>2
<1>4. n - 1 + 1 = n
  OBVIOUS
<1> QED
  BY <1>3, <1>4

Start(c, n) == SubSeq(c, 1, n)

LEMMA Starts ==
    ASSUME NEW S, NEW c \in Seq(S)
    PROVE  /\ \A n \in 0 .. Len(c) : /\ Start(c, n) \in Seq(S) /\ Len(Start(c, n)) = n
                                     /\ \A i \in 1 .. n : Start(c, n)[i] = c[i]
           /\ Start(c, 0) = <<>> /\ Start(c, Len(c)) = c
           /\ \A n \in 0 .. Len(c) : n < Len(c) => Start(c, n + 1) = Append(Start(c, n), c[n + 1])
           /\ \A n, m \in 0 .. Len(c) : m <= n => Start(Start(c, n), m) = Start(c, m)
<1>0. Len(c) \in Nat
  OBVIOUS
<1>1. ASSUME NEW n \in 0 .. Len(c)
      PROVE  /\ Start(c, n) \in Seq(S) /\ Len(Start(c, n)) = n
             /\ \A i \in 1 .. n : Start(c, n)[i] = c[i]
  <2>1. \A i \in 1 .. n : c[i] \in S
    BY <1>0
  <2>2. n \in Int /\ 1 \in Int
    BY <1>0
  <2> QED
    BY <2>1, <2>2, SubSeqProperties DEF Start
<1>2. Start(c, 0) = <<>> /\ Start(c, Len(c)) = c
  BY <1>0, SubSeqFull, SubSeqEmpty DEF Start
<1>3. ASSUME NEW n \in 0 .. Len(c), n < Len(c)
      PROVE  Start(c, n + 1) = Append(Start(c, n), c[n + 1])
  <2> DEFINE a == Start(c, n + 1)
             b == Append(Start(c, n), c[n + 1])
  <2>1. n + 1 \in 0 .. Len(c) /\ n + 1 \in 1 .. Len(c)
    BY <1>0, <1>3
  <2>2. a \in Seq(S) /\ Len(a) = n + 1 /\ \A i \in 1 .. n + 1 : a[i] = c[i]
    BY <1>1, <2>1
  <2>3. c[n + 1] \in S
    BY <2>1
  <2>4. b \in Seq(S) /\ Len(b) = n + 1 /\ \A i \in 1 .. n + 1 : b[i] = c[i]
    BY <1>0, <1>1, <2>3, AppendProperties
  <2> HIDE DEF a, b
  <2>5. \A i \in 1 .. Len(a) : a[i] = b[i]
    BY <2>2, <2>4
  <2>6. a = b
    BY <2>2, <2>4, <2>5, SeqEqual
  <2> QED
    BY <2>6 DEF a, b
<1>4. ASSUME NEW n \in 0 .. Len(c), NEW m \in 0 .. Len(c), m <= n
      PROVE  Start(Start(c, n), m) = Start(c, m)
  <2> DEFINE d == Start(c, n)
             a == Start(d, m)
             b == Start(c, m)
  <2>1. d \in Seq(S) /\ Len(d) = n /\ \A i \in 1 .. n : d[i] = c[i]
    BY <1>1
  <2>2. b \in Seq(S) /\ Len(b) = m /\ \A i \in 1 .. m : b[i] = c[i]
    BY <1>1
  <2> HIDE DEF b, d
  <2>3. (\A i \in 1 .. m : d[i] \in S) /\ m \in Int /\ 1 \in Int
    BY <1>0, <1>4, <2>1
  <2>4. a \in Seq(S) /\ Len(a) = m /\ \A i \in 1 .. m : a[i] = d[i]
    BY <2>3, SubSeqProperties DEF Start
  <2> HIDE DEF a
  <2>5. \A i \in 1 .. Len(a) : a[i] = b[i]
    BY <1>0, <1>4, <2>1, <2>2, <2>4
  <2>6. a = b
    BY <2>2, <2>4, <2>5, SeqEqual
  <2> QED
    BY <2>6 DEF a, b, d
<1> QED
  BY <1>1, <1>2, <1>3, <1>4

LEMMA CountIs == \A c, n : Txids!TxCount(c, n) = Len(Txids!Txs(Start(c, n)))
BY DEF Txids!TxCount, Start

\* The transactions of a chain, block by block.
LEMMA TxsByBlock ==
    ASSUME NEW S, NEW c \in Seq(Seq(S)), NEW n \in 0 .. Len(c), n < Len(c)
    PROVE  Txids!Txs(Start(c, n + 1)) = Txids!Txs(Start(c, n)) \o c[n + 1] /\ c[n + 1] \in Seq(S)
<1> DEFINE U == Seq(S)
<1>1. c \in Seq(U) /\ Len(c) \in Nat
  OBVIOUS
<1> HIDE DEF U
<1>2. c[n + 1] \in U
  BY <1>1
<1>3. Start(c, n) \in Seq(U) /\ Start(c, n + 1) = Append(Start(c, n), c[n + 1])
  BY <1>1, Starts
<1> QED
  BY <1>2, <1>3, FlattenAppend DEF U, Txids!Txs

LEMMA TxsTyped ==
    ASSUME NEW S, NEW c \in Seq(Seq(S))
    PROVE  \A n \in 0 .. Len(c) : Txids!Txs(Start(c, n)) \in Seq(S) /\ Txids!TxCount(c, n) \in Nat
<1> DEFINE T == { n \in Nat : n <= Len(c) => Txids!Txs(Start(c, n)) \in Seq(S) }
<1>0. Len(c) \in Nat
  OBVIOUS
<1>1. 0 \in T
  <2>1. Txids!Txs(Start(c, 0)) = <<>>
    BY FlattenEmpty, Starts DEF Txids!Txs
  <2>2. Txids!Txs(Start(c, 0)) \in Seq(S)
    BY <2>1, EmptySeq
  <2> QED
    BY <2>2
<1>2. ASSUME NEW n \in T PROVE n + 1 \in T
  <2> SUFFICES ASSUME n + 1 <= Len(c) PROVE Txids!Txs(Start(c, n + 1)) \in Seq(S)
    OBVIOUS
  <2>1. n \in 0 .. Len(c) /\ n < Len(c) /\ Txids!Txs(Start(c, n)) \in Seq(S)
    BY <1>0
  <2>2. Txids!Txs(Start(c, n + 1)) = Txids!Txs(Start(c, n)) \o c[n + 1] /\ c[n + 1] \in Seq(S)
    BY <2>1, TxsByBlock
  <2> QED
    BY <2>1, <2>2, ConcatProperties
<1>3. T = Nat
  <2>1. T \in SUBSET Nat
    OBVIOUS
  <2> HIDE DEF T
  <2> QED
    BY <1>1, <1>2, <2>1, AllNumbers
<1>4. \A n \in 0 .. Len(c) : Txids!Txs(Start(c, n)) \in Seq(S)
  BY <1>0, <1>3
<1> QED
  BY <1>4, CountIs, LenProperties

\* A longer chain begins with the transactions of a shorter one.
LEMMA TxsBegin ==
    ASSUME NEW S, NEW c \in Seq(Seq(S)), NEW n \in 0 .. Len(c)
    PROVE  \A m \in 0 .. Len(c) : n <= m =>
               /\ Txids!TxCount(c, n) <= Txids!TxCount(c, m)
               /\ \A i \in 1 .. Txids!TxCount(c, n) : Txids!Txs(Start(c, m))[i] = Txids!Txs(Start(c, n))[i]
<1> DEFINE P(m) == /\ Txids!TxCount(c, n) <= Txids!TxCount(c, m)
                   /\ \A i \in 1 .. Txids!TxCount(c, n) : Txids!Txs(Start(c, m))[i] = Txids!Txs(Start(c, n))[i]
           T == { m \in Nat : n <= m /\ m <= Len(c) => P(m) }
<1>0. Len(c) \in Nat
  OBVIOUS
<1>n. P(n)
  BY TxsTyped
<1>1. 0 \in T
  <2>1. n <= 0 => n = 0
    BY <1>0
  <2> QED
    BY <1>n, <2>1
<1>2. ASSUME NEW m \in T PROVE m + 1 \in T
  <2> SUFFICES ASSUME n <= m + 1, m + 1 <= Len(c) PROVE P(m + 1)
    OBVIOUS
  <2>1. CASE n = m + 1
    BY <1>n, <2>1
  <2>2. CASE n # m + 1
    <3>1. n <= m /\ m \in 0 .. Len(c) /\ m < Len(c) /\ m + 1 \in 0 .. Len(c)
      BY <1>0, <2>2
    <3>2. P(m)
      BY <3>1
    <3>3. Txids!Txs(Start(c, m + 1)) = Txids!Txs(Start(c, m)) \o c[m + 1] /\ c[m + 1] \in Seq(S)
      BY <3>1, TxsByBlock
    <3>4. /\ Txids!Txs(Start(c, m)) \in Seq(S) /\ Txids!TxCount(c, m) \in Nat /\ Txids!TxCount(c, n) \in Nat
          /\ Txids!TxCount(c, m + 1) = Len(Txids!Txs(Start(c, m + 1))) /\ Txids!TxCount(c, m) = Len(Txids!Txs(Start(c, m)))
      BY <3>1, TxsTyped, CountIs
    <3> DEFINE a == Txids!Txs(Start(c, m))
               b == c[m + 1]
    <3>5. /\ Len(a \o b) = Len(a) + Len(b) /\ Len(b) \in Nat
          /\ \A i \in 1 .. Len(a) : (a \o b)[i] = a[i]
      <4>1. a \in Seq(S) /\ b \in Seq(S)
        BY <3>3, <3>4
      <4> HIDE DEF a, b
      <4> QED
        BY <4>1
    <3> HIDE DEF a, b
    <3> QED
      BY <3>2, <3>3, <3>4, <3>5 DEF a, b
  <2> QED
    BY <2>1, <2>2
<1>3. T = Nat
  <2>1. T \in SUBSET Nat
    OBVIOUS
  <2> HIDE DEF T
  <2> QED
    BY <1>1, <1>2, <2>1, AllNumbers
<1> QED
  BY <1>0, <1>3

\* Where the transactions of a block are.
LEMMA TxsOfBlock ==
    ASSUME NEW S, NEW c \in Seq(Seq(S)), NEW h \in 0 .. Len(c), h < Len(c)
    PROVE  /\ Txids!TxCount(c, h) \in Nat /\ Len(c[h + 1]) \in Nat /\ c[h + 1] \in Seq(S)
           /\ Txids!TxCount(c, h + 1) = Txids!TxCount(c, h) + Len(c[h + 1])
           /\ Txids!TxCount(c, h + 1) <= Len(Txids!Txs(c))
           /\ \A k \in 1 .. Len(c[h + 1]) : Txids!Txs(c)[Txids!TxCount(c, h) + k] = c[h + 1][k]
<1>0. Len(c) \in Nat /\ h + 1 \in 0 .. Len(c) /\ Len(c) \in 0 .. Len(c) /\ h + 1 <= Len(c)
  OBVIOUS
<1> DEFINE a == Txids!Txs(Start(c, h))
           b == c[h + 1]
<1>1. a \in Seq(S) /\ b \in Seq(S) /\ Txids!Txs(Start(c, h + 1)) = a \o b
  BY TxsByBlock, TxsTyped
<1>2. /\ Txids!TxCount(c, h) = Len(a) /\ Txids!TxCount(c, h + 1) = Len(Txids!Txs(Start(c, h + 1)))
      /\ Txids!TxCount(c, Len(c)) = Len(Txids!Txs(c)) /\ Txids!Txs(Start(c, Len(c))) = Txids!Txs(c)
  BY CountIs, Starts
<1>3. /\ Txids!TxCount(c, h + 1) <= Txids!TxCount(c, Len(c))
      /\ \A i \in 1 .. Txids!TxCount(c, h + 1) : Txids!Txs(Start(c, Len(c)))[i] = Txids!Txs(Start(c, h + 1))[i]
  BY <1>0, TxsBegin
<1> HIDE DEF a, b
<1>4. /\ Len(a) \in Nat /\ Len(b) \in Nat /\ Len(a \o b) = Len(a) + Len(b)
      /\ \A k \in 1 .. Len(b) : (a \o b)[Len(a) + k] = b[k]
  BY <1>1
<1>5. \A k \in 1 .. Len(b) : Len(a) + k \in 1 .. Len(a) + Len(b)
  BY <1>4
<1>6. \A k \in 1 .. Len(b) : Txids!Txs(c)[Len(a) + k] = b[k]
  BY <1>1, <1>2, <1>3, <1>4, <1>5
<1> QED
  BY <1>1, <1>2, <1>3, <1>4, <1>6 DEF b

LEMMA IdsOf ==
    ASSUME NEW S, NEW b \in Seq(S)
    PROVE  /\ Txids!Ids(b) \in Seq({ x.id : x \in S }) /\ Len(Txids!Ids(b)) = Len(b)
           /\ \A i \in 1 .. Len(b) : Txids!Ids(b)[i] = b[i].id
<1> DEFINE I == { x.id : x \in S }
<1>1. DOMAIN b = 1 .. Len(b) /\ Len(b) \in Nat /\ \A i \in 1 .. Len(b) : b[i].id \in I
  OBVIOUS
<1> HIDE DEF I
<1>2. Txids!Ids(b) \in Seq(I) /\ Len(Txids!Ids(b)) = Len(b) /\ \A i \in 1 .. Len(b) : Txids!Ids(b)[i] = b[i].id
  BY <1>1 DEF Txids!Ids
<1> QED
  BY <1>2 DEF I

LEMMA NewIds ==
    ASSUME NEW S, NEW c \in Seq(Seq(S)), NEW k \in 0 .. Len(c), NEW m \in 0 .. Len(c), k <= m
    PROVE  LET N == [i \in 1 .. m - k |-> Txids!Ids(c[k + i])]
           IN  N \in Seq(Seq({ x.id : x \in S })) /\ Len(N) = m - k
<1> DEFINE I == { x.id : x \in S }
           U == Seq(I)
           N == [i \in 1 .. m - k |-> Txids!Ids(c[k + i])]
<1>0. Len(c) \in Nat /\ k \in Nat
  OBVIOUS
<1>1. \A i \in 1 .. m - k : Txids!Ids(c[k + i]) \in U
  <2> SUFFICES ASSUME NEW i \in 1 .. m - k PROVE Txids!Ids(c[k + i]) \in U
    OBVIOUS
  <2>1. k + i \in 1 .. Len(c)
    BY <1>0
  <2>2. c[k + i] \in Seq(S)
    BY <2>1
  <2> QED
    BY <2>2, IdsOf
<1> HIDE DEF U
<1>2. N \in Seq(U) /\ Len(N) = m - k
  BY <1>0, <1>1
<1> QED
  BY <1>2 DEF U

LEMMA NewTyped ==
    ASSUME NEW S, NEW c \in Seq(Seq(S)), NEW k \in 0 .. Len(c), NEW m \in 0 .. Len(c), k <= m
    PROVE  Len(Txids!FlattenSeq([i \in 1 .. m - k |-> Txids!Ids(c[k + i])])) \in Nat
<1> DEFINE I == { x.id : x \in S }
           N == [i \in 1 .. m - k |-> Txids!Ids(c[k + i])]
<1>1. N \in Seq(Seq(I))
  BY NewIds
<1> HIDE DEF N, I
<1>2. Txids!Txs(Start(N, Len(N))) \in Seq(I) /\ Start(N, Len(N)) = N
  BY <1>1, TxsTyped, Starts
<1>3. Txids!FlattenSeq(N) \in Seq(I)
  BY <1>2 DEF Txids!Txs
<1>4. Len(Txids!FlattenSeq(N)) \in Nat
  BY <1>3
<1> QED
  BY <1>4 DEF N

\* The ids of the last blocks of a chain, written behind those of the first ones.
LEMMA IdsBehind ==
    ASSUME NEW S, NEW c \in Seq(Seq(S)), NEW k \in 0 .. Len(c)
    PROVE  \A m \in 0 .. Len(c) : k <= m =>
               Txids!Ids(Txids!Txs(Start(c, m))) = Txids!Ids(Txids!Txs(Start(c, k))) \o Txids!FlattenSeq([i \in 1 .. m - k |-> Txids!Ids(c[k + i])])
<1> DEFINE I == { x.id : x \in S }
           N(m) == [i \in 1 .. m - k |-> Txids!Ids(c[k + i])]
           P(m) == Txids!Ids(Txids!Txs(Start(c, m))) = Txids!Ids(Txids!Txs(Start(c, k))) \o Txids!FlattenSeq(N(m))
           T == { m \in Nat : k <= m /\ m <= Len(c) => P(m) }
<1>0. Len(c) \in Nat /\ k \in Nat
  OBVIOUS
<1>i. \A b \in Seq(S) : Txids!Ids(b) \in Seq(I) /\ Len(Txids!Ids(b)) = Len(b) /\ \A i \in 1 .. Len(b) : Txids!Ids(b)[i] = b[i].id
  BY IdsOf
<1>j. \A a, b \in Seq(S) : Txids!Ids(a \o b) = Txids!Ids(a) \o Txids!Ids(b)
  <2> SUFFICES ASSUME NEW a \in Seq(S), NEW b \in Seq(S)
               PROVE  Txids!Ids(a \o b) = Txids!Ids(a) \o Txids!Ids(b)
    OBVIOUS
  <2>1. /\ a \o b \in Seq(S) /\ Len(a \o b) = Len(a) + Len(b) /\ Len(a) \in Nat /\ Len(b) \in Nat
        /\ \A i \in 1 .. Len(a) + Len(b) : (a \o b)[i] = IF i <= Len(a) THEN a[i] ELSE b[i - Len(a)]
    BY ConcatProperties
  <2> DEFINE x == Txids!Ids(a \o b)
             u == Txids!Ids(a)
             v == Txids!Ids(b)
             y == u \o v
  <2>2. x \in Seq(I) /\ Len(x) = Len(a) + Len(b) /\ \A i \in 1 .. Len(a) + Len(b) : x[i] = (a \o b)[i].id
    BY <1>i, <2>1
  <2>3. /\ u \in Seq(I) /\ Len(u) = Len(a) /\ \A i \in 1 .. Len(a) : u[i] = a[i].id
        /\ v \in Seq(I) /\ Len(v) = Len(b) /\ \A i \in 1 .. Len(b) : v[i] = b[i].id
    BY <1>i
  <2> HIDE DEF u, v, I
  <2>4. /\ y \in Seq(I) /\ Len(y) = Len(a) + Len(b)
        /\ \A i \in 1 .. Len(a) + Len(b) : y[i] = IF i <= Len(a) THEN u[i] ELSE v[i - Len(a)]
    <3>1. /\ y \in Seq(I) /\ Len(y) = Len(u) + Len(v)
          /\ \A i \in 1 .. Len(u) + Len(v) : y[i] = IF i <= Len(u) THEN u[i] ELSE v[i - Len(u)]
      <4>1. u \in Seq(I) /\ v \in Seq(I)
        BY <2>3
      <4> HIDE DEF y
      <4>2. y = u \o v
        BY DEF y
      <4>3. u \o v \in Seq(I)
        BY <4>1, ConcatProperties, Zenon
      <4>4. Len(u \o v) = Len(u) + Len(v)
        BY <4>1, ConcatProperties, Zenon
      <4>5. \A i \in 1 .. Len(u) + Len(v) : (u \o v)[i] = IF i <= Len(u) THEN u[i] ELSE v[i - Len(u)]
        BY <4>1, ConcatProperties, Zenon
      <4> QED
        BY <4>2, <4>3, <4>4, <4>5
    <3> QED
      BY <2>3, <3>1
  <2> HIDE DEF x, y
  <2>5. ASSUME NEW i \in 1 .. Len(x) PROVE x[i] = y[i]
    <3>1. i \in 1 .. Len(a) + Len(b)
      BY <2>2
    <3>2. CASE i <= Len(a)
      <4>1. i \in 1 .. Len(a)
        BY <2>1, <3>1, <3>2
      <4> QED
        BY <2>1, <2>2, <2>3, <2>4, <3>1, <3>2, <4>1
    <3>3. CASE ~(i <= Len(a))
      <4>1. i - Len(a) \in 1 .. Len(b)
        BY <2>1, <3>1, <3>3
      <4> QED
        BY <2>1, <2>2, <2>3, <2>4, <3>1, <3>3, <4>1
    <3> QED
      BY <3>2, <3>3
  <2>6. x = y
    BY <2>2, <2>4, <2>5, SeqEqual
  <2> QED
    BY <2>6 DEF x, y, u, v
<1>n. P(k)
  <2>1. N(k) = <<>>
    BY <1>0
  <2>2. Txids!Txs(Start(c, k)) \in Seq(S)
    BY TxsTyped
  <2>3. Txids!Ids(Txids!Txs(Start(c, k))) \in Seq(I)
    BY <1>i, <2>2
  <2> QED
    BY <2>1, <2>3, FlattenEmpty, ConcatEmptySeq
<1>b. \A m \in 0 .. Len(c) : k <= m => N(m) \in Seq(Seq(I)) /\ Len(N(m)) = m - k
  <2> HIDE DEF T, P
  <2> QED
    BY NewIds
<1>1. 0 \in T
  <2>1. k <= 0 => k = 0
    BY <1>0
  <2> QED
    BY <1>n, <2>1
<1>2. ASSUME NEW m \in T PROVE m + 1 \in T
  <2> SUFFICES ASSUME k <= m + 1, m + 1 <= Len(c) PROVE P(m + 1)
    <3> HIDE DEF P
    <3> QED
      OBVIOUS
  <2>1. CASE k = m + 1
    BY <1>n, <2>1
  <2>2. CASE k # m + 1
    <3>1. k <= m /\ m \in 0 .. Len(c) /\ m < Len(c) /\ m + 1 \in 0 .. Len(c) /\ k <= m + 1
      BY <1>0, <2>2
    <3>2. P(m)
      BY <3>1
    <3>3. Txids!Txs(Start(c, m + 1)) = Txids!Txs(Start(c, m)) \o c[m + 1] /\ c[m + 1] \in Seq(S)
      BY <3>1, TxsByBlock
    <3>4. Txids!Txs(Start(c, m)) \in Seq(S) /\ Txids!Txs(Start(c, k)) \in Seq(S)
      BY <3>1, TxsTyped
    <3>5. Txids!Ids(Txids!Txs(Start(c, m + 1))) = Txids!Ids(Txids!Txs(Start(c, m))) \o Txids!Ids(c[m + 1])
      BY <1>j, <3>3, <3>4
    <3>6. N(m) \in Seq(Seq(I)) /\ Len(N(m)) = m - k /\ N(m + 1) \in Seq(Seq(I)) /\ Len(N(m + 1)) = (m + 1) - k
      <4>1. N(m) \in Seq(Seq(I)) /\ Len(N(m)) = m - k
        BY <1>b, <3>1
      <4>2. N(m + 1) \in Seq(Seq(I)) /\ Len(N(m + 1)) = (m + 1) - k
        <5> DEFINE q == m + 1
        <5>1. q \in 0 .. Len(c) /\ k <= q
          BY <3>1
        <5> HIDE DEF q, T, P
        <5>2. N(q) \in Seq(Seq(I)) /\ Len(N(q)) = q - k
          BY <1>b, <5>1
        <5> QED
          BY <5>2, Zenon DEF q
      <4> QED
        BY <4>1, <4>2
    <3>7. Txids!Ids(c[m + 1]) \in Seq(I)
      BY <1>i, <3>3
    <3>8. N(m + 1) = Append(N(m), Txids!Ids(c[m + 1]))
      <4> DEFINE U == Seq(I)
                 a == N(m)
                 b == N(m + 1)
                 e == Txids!Ids(c[m + 1])
                 d == Append(a, e)
      <4>1. a \in Seq(U) /\ b \in Seq(U) /\ e \in U /\ Len(a) = m - k /\ Len(b) = m - k + 1
        <5> HIDE DEF N, I
        <5>1. Len(N(m + 1)) = m - k + 1
          BY <1>0, <3>1, <3>6
        <5> QED
          BY <3>6, <3>7, <5>1
      <4>2. \A i \in 1 .. m - k : a[i] = b[i]
        BY <1>0, <3>1
      <4>3. b[m - k + 1] = e
        <5>1. m - k + 1 \in 1 .. m + 1 - k /\ k + (m - k + 1) = m + 1
          BY <1>0, <3>1
        <5> QED
          BY <5>1
      <4> HIDE DEF U, a, b, e
      <4>4. d \in Seq(U) /\ Len(d) = Len(a) + 1 /\ (\A i \in 1 .. Len(a) : d[i] = a[i]) /\ d[Len(a) + 1] = e
        BY <4>1
      <4> HIDE DEF d
      <4>5. \A i \in 1 .. Len(b) : b[i] = d[i]
        <5> DEFINE j == m - k
        <5>1. j \in Nat /\ Len(a) = j /\ Len(b) = j + 1 /\ d[j + 1] = e /\ b[j + 1] = e
          BY <1>0, <3>1, <4>1, <4>3, <4>4
        <5>2. \A i \in 1 .. j : b[i] = d[i]
          BY <4>2, <4>4, <5>1
        <5> HIDE DEF j
        <5>3. \A i \in 1 .. j + 1 : i \in 1 .. j \/ i = j + 1
          BY <5>1
        <5> QED
          BY <5>1, <5>2, <5>3
      <4>6. b = d
        BY <4>1, <4>4, <4>5, SeqEqual
      <4> QED
        BY <4>6 DEF b, d, a, e
    <3> DEFINE n == N(m)
               p == N(m + 1)
               e == Txids!Ids(c[m + 1])
               s == Txids!Ids(Txids!Txs(Start(c, k)))
    <3>9. n \in Seq(Seq(I)) /\ e \in Seq(I) /\ s \in Seq(I)
      BY <1>i, <3>4, <3>6, <3>7
    <3>10. Txids!FlattenSeq(n) \in Seq(I)
      <4> HIDE DEF n, I
      <4>1. Txids!Txs(Start(n, Len(n))) \in Seq(I)
        BY <3>9, TxsTyped
      <4>2. Start(n, Len(n)) = n
        BY <3>9, Starts
      <4> QED
        BY <4>1, <4>2 DEF Txids!Txs
    <3>11. Txids!FlattenSeq(p) = Txids!FlattenSeq(n) \o e
      <4>1. p = Append(n, e)
        BY <3>8
      <4> HIDE DEF p, n, e, I
      <4> QED
        BY <3>9, <4>1, FlattenAppend
    <3>12. s \o Txids!FlattenSeq(p) = (s \o Txids!FlattenSeq(n)) \o e
      <4> DEFINE f == Txids!FlattenSeq(n)
      <4> HIDE DEF p, n, e, I, s, f, T, P, N
      <4>1. f \in Seq(I) /\ Txids!FlattenSeq(p) = f \o e
        BY <3>10, <3>11 DEF f
      <4>2. s \o (f \o e) = (s \o f) \o e
        <5>1. s \in Seq(I) /\ f \in Seq(I) /\ e \in Seq(I)
          BY <3>9, <4>1
        <5> QED
          BY <5>1
      <4> QED
        BY <4>1, <4>2 DEF f
    <3>13. Txids!Ids(Txids!Txs(Start(c, m))) = s \o Txids!FlattenSeq(n)
      BY <3>2
    <3> HIDE DEF p, n, e, s, N, P
    <3>14. Txids!Ids(Txids!Txs(Start(c, m + 1))) = s \o Txids!FlattenSeq(p)
      BY <3>5, <3>12, <3>13 DEF e
    <3> QED
      BY <3>14 DEF P, p, s
  <2> QED
    BY <2>1, <2>2
<1>3. T = Nat
  <2>1. T \in SUBSET Nat
    OBVIOUS
  <2> HIDE DEF T
  <2> QED
    BY <1>1, <1>2, <2>1, AllNumbers
<1> HIDE DEF P
<1>4. \A m \in 0 .. Len(c) : k <= m => P(m)
  BY <1>0, <1>3
<1> QED
  BY <1>4 DEF P

-----------------------------------------------------------------------------
(* The cached transaction hashes.                                           *)

TxIds == { tx.id : tx \in Txids!AllTxs }
AllChains == Seq(Seq(Txids!AllTxs))

Begins(d, c) == Len(d) <= Len(c) /\ d = Start(c, Len(d))

\* The file has the hashes of the chain, and maybe others behind them.
Holds(f, c) ==
    /\ Len(Txids!Txs(c)) <= Len(f)
    /\ \A i \in 1 .. Len(Txids!Txs(c)) : f[i] = Txids!Txs(c)[i].id

ReadersTyped ==
    /\ chain \in AllChains /\ disk \in AllChains
    /\ hashes_file \in Seq(TxIds)
    /\ bp \in [mode : {"advance", "backup"}, pc : {"idle", "history", "state", "commit", "signal"}]
    /\ reorg_count \in Nat
    /\ r = [kind |-> r.kind, pc |-> r.pc, arg |-> r.arg, todo |-> r.todo, at |-> r.at,
            out |-> r.out, count |-> r.count]
    /\ r.count \in Nat /\ r.count <= reorg_count
    /\ r.kind = "txids" => r.arg \in Nat
    /\ r.pc \in {"hashes", "resume"} => r.kind = "txids"
    /\ DOMAIN txids_cache \subseteq Nat

\* Outside a reorganisation the chain on disk is a start of the one in memory; in one
\* it is the other way round, until disk and memory are the same again.
ChainsInv ==
    /\ bp.mode = "advance" => Begins(disk, chain)
    /\ bp.mode = "backup" => IF bp.pc \in {"history", "state"} THEN Begins(chain, disk) ELSE chain = disk

FileInv ==
    /\ Holds(hashes_file, disk)
    /\ bp.mode = "advance" /\ bp.pc \in {"history", "state"} => Holds(hashes_file, chain)

\* What a request has read that no reorganisation has overtaken.
RequestInv ==
    bp.mode = "advance" /\ r.count = reorg_count =>
        /\ r.pc = "hashes" => /\ r.arg <= Txids!db_height
                              /\ r.todo = <<Txids!TxCount(disk, r.arg), Txids!TxCount(disk, r.arg + 1)>>
        /\ r.pc = "resume" => r.arg <= Txids!db_height /\ r.out = Txids!Ids(disk[r.arg + 1])

ReadersInv == ReadersTyped /\ ChainsInv /\ FileInv /\ RequestInv /\ Txids!TxidsFresh

LEMMA BeginsProperties ==
    ASSUME NEW S, NEW c \in Seq(Seq(S)), NEW d \in Seq(Seq(S)), Begins(d, c)
    PROVE  /\ Len(c) \in Nat /\ Len(d) \in Nat /\ Len(d) \in 0 .. Len(c)
           /\ \A i \in 1 .. Len(d) : d[i] = c[i]
           /\ \A n \in 0 .. Len(d) : Txids!TxCount(d, n) = Txids!TxCount(c, n)
           /\ Txids!Txs(d) = Txids!Txs(Start(c, Len(d)))
<1>1. Len(c) \in Nat /\ Len(d) \in Nat /\ Len(d) \in 0 .. Len(c) /\ d = Start(c, Len(d))
  BY DEF Begins
<1>2. \A i \in 1 .. Len(d) : Start(c, Len(d))[i] = c[i]
  BY <1>1, Starts
<1>3. \A n \in 0 .. Len(d) : Start(d, n) = Start(c, n)
  <2>1. \A n \in 0 .. Len(d) : Start(Start(c, Len(d)), n) = Start(c, n)
    <3> SUFFICES ASSUME NEW n \in 0 .. Len(d) PROVE Start(Start(c, Len(d)), n) = Start(c, n)
      OBVIOUS
    <3>1. n \in 0 .. Len(c) /\ n <= Len(d)
      BY <1>1
    <3> QED
      BY <1>1, <3>1, Starts
  <2> QED
    BY <1>1, <2>1
<1> QED
  BY <1>1, <1>2, <1>3, CountIs

LEMMA HoldsStart ==
    ASSUME NEW S, NEW c \in Seq(Seq(S)), NEW d \in Seq(Seq(S)), Begins(d, c),
           NEW f, Len(f) \in Nat, Holds(f, c)
    PROVE  Holds(f, d)
<1>1. Len(d) \in 0 .. Len(c) /\ Len(c) \in 0 .. Len(c) /\ Len(d) <= Len(c) /\ Txids!Txs(d) = Txids!Txs(Start(c, Len(d)))
  BY BeginsProperties
<1>2. /\ Txids!TxCount(c, Len(d)) <= Txids!TxCount(c, Len(c))
      /\ \A i \in 1 .. Txids!TxCount(c, Len(d)) : Txids!Txs(Start(c, Len(c)))[i] = Txids!Txs(Start(c, Len(d)))[i]
  BY <1>1, TxsBegin
<1>3. Txids!TxCount(c, Len(d)) = Len(Txids!Txs(d)) /\ Txids!TxCount(c, Len(c)) = Len(Txids!Txs(c)) /\ Txids!Txs(Start(c, Len(c))) = Txids!Txs(c)
  BY <1>1, CountIs, Starts
<1>4. Txids!TxCount(c, Len(d)) \in Nat /\ Txids!TxCount(c, Len(c)) \in Nat
  BY <1>1, TxsTyped
<1> DEFINE p == Len(Txids!Txs(d))
           q == Len(Txids!Txs(c))
<1>5. p \in Nat /\ q \in Nat /\ p <= q /\ \A i \in 1 .. p : Txids!Txs(c)[i] = Txids!Txs(d)[i]
  <2>1. p \in Nat /\ q \in Nat /\ p <= q
    BY <1>2, <1>3, <1>4
  <2>2. \A i \in 1 .. p : Txids!Txs(c)[i] = Txids!Txs(d)[i]
    BY <1>1, <1>2, <1>3
  <2> QED
    BY <2>1, <2>2
<1>6. q <= Len(f) /\ \A i \in 1 .. q : f[i] = Txids!Txs(c)[i].id
  BY DEF Holds
<1>7. p <= Len(f) /\ \A i \in 1 .. p : f[i] = Txids!Txs(d)[i].id
  <2> HIDE DEF p, q
  <2>1. p <= Len(f)
    BY <1>5, <1>6
  <2>2. \A i \in 1 .. p : i \in 1 .. q
    BY <1>5
  <2> QED
    BY <1>5, <1>6, <2>1, <2>2
<1> QED
  BY <1>7 DEF Holds

\* The hashes that fs_tx_hashes_at_blockheight reads are those of the block.
LEMMA BlockRead ==
    ASSUME NEW S, NEW c \in Seq(Seq(S)), NEW h \in Nat, h < Len(c), Holds(hashes_file, c)
    PROVE  SubSeq(hashes_file, Txids!TxCount(c, h) + 1, Txids!TxCount(c, h + 1)) = Txids!Ids(c[h + 1])
<1> DEFINE a == Txids!TxCount(c, h)
           b == c[h + 1]
           l == Len(b)
           x == SubSeq(hashes_file, a + 1, a + l)
           I == { tx.id : tx \in S }
<1>0. h \in 0 .. Len(c) /\ Len(c) \in Nat
  OBVIOUS
<1>1. /\ a \in Nat /\ l \in Nat /\ b \in Seq(S) /\ Txids!TxCount(c, h + 1) = a + l /\ a + l <= Len(Txids!Txs(c))
      /\ \A k \in 1 .. l : Txids!Txs(c)[a + k] = b[k]
  BY <1>0, TxsOfBlock
<1>2. Len(Txids!Txs(c)) \in Nat
  BY <1>0, TxsTyped, CountIs, Starts
<1>3. \A k \in 1 .. l : hashes_file[a + k] = b[k].id /\ b[k] \in S
  <2> HIDE DEF a, b
  <2> SUFFICES ASSUME NEW k \in 1 .. l PROVE hashes_file[a + k] = b[k].id /\ b[k] \in S
    OBVIOUS
  <2>1. a + k \in 1 .. Len(Txids!Txs(c))
    BY <1>1, <1>2
  <2> QED
    BY <1>1, <2>1 DEF Holds
<1> HIDE DEF a, b, l
<1>4. \A i \in a + 1 .. a + l : hashes_file[i] \in I
  <2> SUFFICES ASSUME NEW i \in a + 1 .. a + l PROVE hashes_file[i] \in I
    OBVIOUS
  <2>1. i - a \in 1 .. l /\ a + (i - a) = i
    BY <1>1
  <2> QED
    BY <1>3, <2>1
<1>5. x \in Seq(I) /\ Len(x) = l /\ \A k \in 1 .. l : x[k] = hashes_file[a + k]
  <2> HIDE DEF I
  <2>1. a + 1 \in Int /\ a + l \in Int
    BY <1>1
  <2>2. /\ x \in Seq(I) /\ Len(x) = IF a + 1 <= a + l THEN (a + l) - (a + 1) + 1 ELSE 0
        /\ \A k \in 1 .. (a + l) - (a + 1) + 1 : x[k] = hashes_file[(a + 1) + k - 1]
    BY <1>4, <2>1, SubSeqProperties
  <2> HIDE DEF x
  <2> QED
    BY <1>1, <2>2
<1>6. Txids!Ids(b) \in Seq(I) /\ Len(Txids!Ids(b)) = l /\ \A k \in 1 .. l : Txids!Ids(b)[k] = b[k].id
  <2>1. DOMAIN b = 1 .. l /\ \A k \in 1 .. l : b[k].id \in I
    BY <1>1, <1>3 DEF l
  <2> HIDE DEF I
  <2> QED
    BY <1>1, <2>1 DEF Txids!Ids
<1>7. x = Txids!Ids(b)
  <2> HIDE DEF x, I
  <2> QED
    BY <1>1, <1>3, <1>5, <1>6, SeqEqual
<1> QED
  BY <1>1, <1>7 DEF a, b

-----------------------------------------------------------------------------
\* A step of the block processor leaves requests alone, a step of a request the blocks.
LEMMA ReadKeeps ==
    ASSUME ReadersInv, UNCHANGED <<Txids!flushing, reorg_count>>, ReadersTyped', RequestInv', Txids!TxidsFresh'
    PROVE  ReadersInv'
<1>1. ChainsInv' /\ FileInv'
  BY DEF ReadersInv, ChainsInv, FileInv, Holds, Txids!flushing, Begins, Start, Txids!Txs
<1> QED
  BY <1>1 DEF ReadersInv

\* The steps after which a request holds no block's hashes.
LEMMA OtherReads ==
    ASSUME ReadersInv,
           Txids!ReadRows \/ Txids!Locate \/ Txids!ReadHash \/ Txids!RowsRead \/ Txids!LookupHashX \/ Txids!LookupUtxo \/ Txids!Answered
           \/ \E kind \in {"txids"} : \E arg \in Txids!Arguments(kind) : Txids!Request(kind, arg)
    PROVE  ReadersInv'
<1>1. ReadersTyped /\ Txids!TxidsFresh
  BY DEF ReadersInv
<1>2. UNCHANGED <<Txids!flushing, reorg_count, txids_cache>>
  BY DEF Txids!ReadRows, Txids!Locate, Txids!ReadHash, Txids!RowsRead, Txids!LookupHashX, Txids!LookupUtxo, Txids!Answered, Txids!Request, Txids!manager
<1>3. /\ r' = [kind |-> r'.kind, pc |-> r'.pc, arg |-> r'.arg, todo |-> r'.todo, at |-> r'.at,
               out |-> r'.out, count |-> r'.count]
      /\ r'.pc \notin {"hashes", "resume"}
      /\ r'.count \in {r.count, 0, reorg_count}
      /\ r'.kind = "txids" => r'.arg \in Nat
  <2>1. CASE Txids!ReadRows
    BY <1>1, <2>1 DEF Txids!ReadRows, ReadersTyped
  <2>2. CASE Txids!Locate
    BY <1>1, <2>2 DEF Txids!Locate, ReadersTyped
  <2>3. CASE Txids!ReadHash
    BY <1>1, <2>3 DEF Txids!ReadHash, ReadersTyped
  <2>4. CASE Txids!RowsRead
    BY <1>1, <2>4 DEF Txids!RowsRead, ReadersTyped
  <2>5. CASE Txids!LookupHashX
    BY <1>1, <2>5 DEF Txids!LookupHashX, ReadersTyped
  <2>6. CASE Txids!LookupUtxo
    BY <1>1, <2>6 DEF Txids!LookupUtxo, ReadersTyped
  <2>7. CASE Txids!Answered
    BY <2>7 DEF Txids!Answered, Txids!Idle
  <2>8. CASE \E kind \in {"txids"} : \E arg \in Txids!Arguments(kind) : Txids!Request(kind, arg)
    <3> PICK kind \in {"txids"} : \E arg \in Txids!Arguments(kind) : Txids!Request(kind, arg)
      BY <2>8
    <3> PICK arg \in Txids!Arguments(kind) : Txids!Request(kind, arg)
      OBVIOUS
    <3>1. kind = "txids" => arg \in Nat
      BY DEF Txids!Arguments
    <3> QED
      BY <3>1 DEF Txids!Request, Txids!Idle
  <2> QED
    BY <2>1, <2>2, <2>3, <2>4, <2>5, <2>6, <2>7, <2>8
<1>4. ReadersTyped'
  BY <1>1, <1>2, <1>3 DEF ReadersTyped, Txids!flushing
<1>5. RequestInv'
  BY <1>3 DEF RequestInv
<1>6. Txids!TxidsFresh'
  BY <1>1, <1>2 DEF Txids!TxidsFresh, Txids!flushing, Txids!db_height, Txids!Ids
<1> QED
  BY <1>2, <1>4, <1>5, <1>6, ReadKeeps

LEMMA CountsKeep ==
    ASSUME ReadersInv, Txids!BlockCounts
    PROVE  ReadersInv'
<1>1. ReadersTyped /\ Txids!TxidsFresh /\ ChainsInv
  BY DEF ReadersInv
<1>2. UNCHANGED <<Txids!flushing, reorg_count, txids_cache>>
  BY DEF Txids!BlockCounts, Txids!manager
<1>3. /\ ReadersTyped' /\ r'.pc # "resume" /\ r'.arg = r.arg
      /\ r'.pc = "hashes" => /\ r.arg <= Txids!db_height /\ r.arg \in Nat
                             /\ r'.todo = <<Txids!TxCount(chain, r.arg), Txids!TxCount(chain, r.arg + 1)>>
  <2>1. Len(disk) \in Nat /\ Len(chain) \in Nat
    BY <1>1 DEF ReadersTyped, AllChains
  <2>2. r.kind = "txids" /\ r.arg \in Nat
    BY <1>1 DEF Txids!BlockCounts, ReadersTyped
  <2>3. /\ r'.pc # "resume" /\ r'.arg = r.arg /\ r'.kind = r.kind /\ r'.count = r.count
        /\ r' = [kind |-> r'.kind, pc |-> r'.pc, arg |-> r'.arg, todo |-> r'.todo, at |-> r'.at,
                 out |-> r'.out, count |-> r'.count]
        /\ r'.pc = "hashes" => /\ ~(r.arg > Txids!db_height)
                               /\ r'.todo = <<Txids!TxCount(chain, r.arg), Txids!TxCount(chain, r.arg + 1)>>
    BY <1>1 DEF Txids!BlockCounts, ReadersTyped
  <2> QED
    BY <1>1, <1>2, <2>1, <2>2, <2>3 DEF ReadersTyped, Txids!flushing, Txids!db_height
<1>4. RequestInv'
  <2> SUFFICES ASSUME bp.mode = "advance", r'.pc = "hashes"
               PROVE  r'.todo = <<Txids!TxCount(disk, r.arg), Txids!TxCount(disk, r.arg + 1)>>
    BY <1>2, <1>3 DEF RequestInv, Txids!flushing, Txids!db_height, Txids!TxCount, Txids!Txs
  <2>1. Begins(disk, chain) /\ disk \in AllChains /\ chain \in AllChains
    BY <1>1 DEF ChainsInv, ReadersTyped
  <2>2. \A n \in 0 .. Len(disk) : Txids!TxCount(disk, n) = Txids!TxCount(chain, n)
    BY <2>1, BeginsProperties DEF AllChains
  <2>3. r.arg \in 0 .. Len(disk) /\ r.arg + 1 \in 0 .. Len(disk)
    BY <1>3, <2>1 DEF Txids!db_height, AllChains
  <2> QED
    BY <1>3, <2>2, <2>3
<1>5. Txids!TxidsFresh'
  BY <1>1, <1>2 DEF Txids!TxidsFresh, Txids!flushing, Txids!db_height, Txids!Ids
<1> QED
  BY <1>2, <1>3, <1>4, <1>5, ReadKeeps

LEMMA HashesKeep ==
    ASSUME ReadersInv, Txids!ReadHashes
    PROVE  ReadersInv'
<1>1. ReadersTyped /\ Txids!TxidsFresh /\ FileInv /\ RequestInv
  BY DEF ReadersInv
<1>2. UNCHANGED <<Txids!flushing, reorg_count, txids_cache>>
  BY DEF Txids!ReadHashes, Txids!manager
<1>3. /\ r'.pc = "resume" /\ r'.arg = r.arg /\ r'.kind = r.kind /\ r'.count = r.count
      /\ r' = [kind |-> r'.kind, pc |-> r'.pc, arg |-> r'.arg, todo |-> r'.todo, at |-> r'.at,
               out |-> r'.out, count |-> r'.count]
      /\ r'.out = SubSeq(hashes_file, r.todo[1] + 1, r.todo[2])
      /\ r.kind = "txids" /\ r.arg \in Nat
  BY <1>1 DEF Txids!ReadHashes, ReadersTyped
<1>4. ReadersTyped'
  BY <1>1, <1>2, <1>3 DEF ReadersTyped, Txids!flushing
<1>5. RequestInv'
  <2> SUFFICES ASSUME bp.mode = "advance", r.count = reorg_count
               PROVE  r.arg <= Txids!db_height /\ r'.out = Txids!Ids(disk[r.arg + 1])
    BY <1>2, <1>3 DEF RequestInv, Txids!flushing, Txids!db_height, Txids!Ids
  <2>1. r.arg <= Txids!db_height /\ r.todo = <<Txids!TxCount(disk, r.arg), Txids!TxCount(disk, r.arg + 1)>>
    BY <1>1 DEF RequestInv, Txids!ReadHashes
  <2>2. disk \in Seq(Seq(Txids!AllTxs)) /\ r.arg < Len(disk)
    BY <1>1, <1>3, <2>1 DEF ReadersTyped, AllChains, Txids!db_height
  <2>3. SubSeq(hashes_file, Txids!TxCount(disk, r.arg) + 1, Txids!TxCount(disk, r.arg + 1)) = Txids!Ids(disk[r.arg + 1])
    BY <1>1, <1>3, <2>2, BlockRead DEF FileInv
  <2> QED
    BY <1>3, <2>1, <2>3
<1>6. Txids!TxidsFresh'
  BY <1>1, <1>2 DEF Txids!TxidsFresh, Txids!flushing, Txids!db_height, Txids!Ids
<1> QED
  BY <1>2, <1>4, <1>5, <1>6, ReadKeeps

LEMMA CacheKeeps ==
    ASSUME ReadersInv, Txids!CacheTxids
    PROVE  ReadersInv'
<1>1. ReadersTyped /\ Txids!TxidsFresh /\ RequestInv
  BY DEF ReadersInv
<1>2. UNCHANGED <<Txids!flushing, reorg_count>>
  BY DEF Txids!CacheTxids
<1>3. /\ r'.pc \notin {"hashes", "resume"} /\ r'.arg = r.arg /\ r'.kind = r.kind
      /\ r'.count \in {r.count, reorg_count}
      /\ r' = [kind |-> r'.kind, pc |-> r'.pc, arg |-> r'.arg, todo |-> r'.todo, at |-> r'.at,
               out |-> r'.out, count |-> r'.count]
      /\ r.kind = "txids" /\ r.arg \in Nat
  BY <1>1 DEF Txids!CacheTxids, ReadersTyped
<1>4. ReadersTyped'
  <2>1. DOMAIN txids_cache' \subseteq Nat
    BY <1>1, <1>3 DEF Txids!CacheTxids, ReadersTyped
  <2> QED
    BY <1>1, <1>2, <1>3, <2>1 DEF ReadersTyped, Txids!flushing
<1>5. RequestInv'
  BY <1>3 DEF RequestInv
<1>6. Txids!TxidsFresh'
  <2>1. CASE UNCHANGED txids_cache
    BY <1>1, <1>2, <2>1 DEF Txids!TxidsFresh, Txids!flushing, Txids!db_height, Txids!Ids
  <2>2. CASE ~UNCHANGED txids_cache
    <3>1. /\ r.count = reorg_count
          /\ txids_cache' = [h \in DOMAIN txids_cache \cup {r.arg} |->
                               IF h = r.arg THEN r.out ELSE txids_cache[h]]
      BY <2>2 DEF Txids!CacheTxids, Txids!Fresh
    <3>2. bp.mode = "advance" => r.arg <= Txids!db_height /\ r.out = Txids!Ids(disk[r.arg + 1])
      BY <1>1, <3>1 DEF RequestInv, Txids!CacheTxids
    <3>3. bp' = bp /\ Txids!db_height' = Txids!db_height /\ disk' = disk
      BY <1>2 DEF Txids!flushing, Txids!db_height
    <3>4. \A h : Txids!Ids(disk[h + 1])' = Txids!Ids(disk[h + 1])
      BY <3>3 DEF Txids!Ids
    <3> QED
      BY <1>1, <3>1, <3>2, <3>3 DEF Txids!TxidsFresh, Txids!Ids
  <2> QED
    BY <2>1, <2>2
<1> QED
  BY <1>2, <1>4, <1>5, <1>6, ReadKeeps

-----------------------------------------------------------------------------
LEMMA AdvanceKeeps ==
    ASSUME ReadersInv, Txids!ReadersAssumption,
           \E h \in 1 .. Txids!MaxHeight : \E b \in Blocks[h] : h = Len(chain) /\ Txids!AdvanceBlock(Txids!BlockOf(b))
    PROVE  ReadersInv'
<1>1. ReadersTyped /\ ChainsInv /\ FileInv /\ RequestInv /\ Txids!TxidsFresh
  BY DEF ReadersInv
<1> PICK h \in 1 .. Txids!MaxHeight : \E b \in Blocks[h] : Txids!AdvanceBlock(Txids!BlockOf(b))
  OBVIOUS
<1> PICK b \in Blocks[h] : Txids!AdvanceBlock(Txids!BlockOf(b))
  OBVIOUS
<1>2. b \in Seq(Txids!AllTxs)
  BY DEF Txids!ReadersAssumption
<1>3. /\ chain' = Append(chain, b) /\ bp = [mode |-> "advance", pc |-> "idle"]
      /\ UNCHANGED <<hashes_file, hist_at, utxos_at, disk, bp, reorgs, r, snaps, txids_cache, reorg_count>>
  BY DEF Txids!AdvanceBlock, Txids!BlockOf, Txids!manager
<1> DEFINE U == Seq(Txids!AllTxs)
<1>4. chain \in Seq(U) /\ disk \in Seq(U) /\ b \in U /\ Begins(disk, chain)
  BY <1>1, <1>2, <1>3 DEF ReadersTyped, AllChains, ChainsInv
<1>5. chain' \in Seq(U) /\ Begins(disk, chain')
  <2> HIDE DEF U
  <2> DEFINE c == Append(chain, b)
             n == Len(disk)
  <2>1. /\ c \in Seq(U) /\ Len(c) = Len(chain) + 1 /\ \A i \in 1 .. Len(chain) : c[i] = chain[i]
        /\ Len(chain) \in Nat /\ n \in Nat /\ n <= Len(chain) /\ disk = Start(chain, n)
    BY <1>4 DEF Begins
  <2> HIDE DEF c, n
  <2>2. n \in 0 .. Len(c) /\ n \in 0 .. Len(chain)
    BY <2>1
  <2>3. Len(disk) = n /\ \A i \in 1 .. n : disk[i] = chain[i]
    BY <1>4, <2>1, <2>2, Starts
  <2>4. Start(c, n) \in Seq(U) /\ Len(Start(c, n)) = n /\ \A i \in 1 .. n : Start(c, n)[i] = c[i]
    BY <2>1, <2>2, Starts
  <2>5. \A i \in 1 .. n : Start(c, n)[i] = disk[i]
    BY <2>1, <2>3, <2>4
  <2>6. Start(c, n) = disk
    BY <1>4, <2>3, <2>4, <2>5, SeqEqual
  <2> QED
    BY <1>3, <2>1, <2>6 DEF Begins, c, n
<1>6. ReadersTyped' /\ ChainsInv'
  BY <1>1, <1>3, <1>5 DEF ReadersTyped, AllChains, ChainsInv, Begins, Start
<1>7. FileInv'
  BY <1>1, <1>3 DEF FileInv, Holds, Txids!Txs
<1>8. RequestInv' /\ Txids!TxidsFresh'
  BY <1>1, <1>3 DEF RequestInv, Txids!TxidsFresh, Txids!db_height, Txids!TxCount, Txids!Txs, Txids!Ids
<1> QED
  BY <1>6, <1>7, <1>8 DEF ReadersInv

LEMMA BackupKeeps ==
    ASSUME ReadersInv, \E n \in 1 .. Txids!MaxHeight : Txids!BackupBlocks(n)
    PROVE  ReadersInv'
<1>1. ReadersTyped /\ ChainsInv /\ FileInv
  BY DEF ReadersInv
<1> PICK n \in 1 .. Txids!MaxHeight : Txids!BackupBlocks(n)
  OBVIOUS
<1> DEFINE U == Seq(Txids!AllTxs)
           k == Len(chain) - n
<1>2. /\ chain' = Start(disk, k) /\ n < Len(disk) /\ chain = disk
      /\ bp' = [mode |-> "backup", pc |-> "history"]
      /\ UNCHANGED <<hashes_file, disk, r, txids_cache, reorg_count>>
  BY DEF Txids!BackupBlocks, Txids!manager, Start
<1>3. disk \in Seq(U)
  BY <1>1 DEF ReadersTyped, AllChains
<1>4. k \in 0 .. Len(disk)
  <2> HIDE DEF U
  <2> QED
    BY <1>2, <1>3
<1>5. chain' \in Seq(U) /\ Len(chain') = k
  <2> HIDE DEF U, k
  <2> QED
    BY <1>2, <1>3, <1>4, Starts
<1>6. Begins(chain, disk)'
  BY <1>2, <1>4, <1>5 DEF Begins, Start
<1>7. ReadersTyped'
  BY <1>1, <1>2, <1>5 DEF ReadersTyped, AllChains
<1>8. FileInv'
  BY <1>1, <1>2 DEF FileInv, Holds, Txids!Txs
<1> QED
  BY <1>2, <1>6, <1>7, <1>8 DEF ReadersInv, ChainsInv, RequestInv, Txids!TxidsFresh

LEMMA HistoryKeeps ==
    ASSUME ReadersInv, Txids!FlushHistory
    PROVE  ReadersInv'
<1>1. /\ bp.pc = "history" /\ bp'.mode = bp.mode /\ bp'.pc = "state"
      /\ bp' \in [mode : {"advance", "backup"}, pc : {"idle", "history", "state", "commit", "signal"}]
      /\ UNCHANGED <<chain, hashes_file, disk, r, txids_cache, reorg_count>>
  BY DEF Txids!FlushHistory, ReadersInv, ReadersTyped, Txids!manager
<1>2. ReadersTyped'
  BY <1>1 DEF ReadersInv, ReadersTyped
<1>3. ChainsInv' /\ FileInv'
  BY <1>1 DEF ReadersInv, ChainsInv, FileInv, Holds, Begins, Start, Txids!Txs
<1>4. RequestInv' /\ Txids!TxidsFresh'
  BY <1>1 DEF ReadersInv, RequestInv, Txids!TxidsFresh, Txids!db_height, Txids!TxCount, Txids!Txs, Txids!Ids
<1> QED
  BY <1>2, <1>3, <1>4 DEF ReadersInv

LEMMA CommitKeeps ==
    ASSUME ReadersInv, Txids!CommitBatch
    PROVE  ReadersInv'
<1>1. /\ bp.pc = "commit" /\ bp'.mode = bp.mode /\ bp'.pc \in {"idle", "signal"}
      /\ bp' \in [mode : {"advance", "backup"}, pc : {"idle", "history", "state", "commit", "signal"}]
      /\ UNCHANGED <<chain, hashes_file, disk, r, txids_cache, reorg_count>>
  BY DEF Txids!CommitBatch, ReadersInv, ReadersTyped, Txids!manager
<1>2. ReadersTyped'
  BY <1>1 DEF ReadersInv, ReadersTyped
<1>3. ChainsInv' /\ FileInv'
  BY <1>1 DEF ReadersInv, ChainsInv, FileInv, Holds, Begins, Start, Txids!Txs
<1>4. RequestInv' /\ Txids!TxidsFresh'
  BY <1>1 DEF ReadersInv, RequestInv, Txids!TxidsFresh, Txids!db_height, Txids!TxCount, Txids!Txs, Txids!Ids
<1> QED
  BY <1>2, <1>3, <1>4 DEF ReadersInv

\* A reorganisation is over: what was read before it is not trusted any more.
LEMMA SignalKeeps ==
    ASSUME ReadersInv, Txids!ReorgSignalled
    PROVE  ReadersInv'
<1>1. /\ bp.pc = "signal" /\ bp' = [mode |-> "advance", pc |-> "idle"]
      /\ reorg_count' = reorg_count + 1 /\ txids_cache' = <<>>
      /\ UNCHANGED <<chain, hashes_file, disk, r>>
  BY DEF Txids!ReorgSignalled
<1>2. ReadersTyped /\ ChainsInv /\ FileInv
  BY DEF ReadersInv
<1>3. DOMAIN txids_cache' = {}
  BY <1>1
<1>4. ReadersTyped'
  BY <1>1, <1>2, <1>3 DEF ReadersTyped
<1>5. Begins(disk, chain)
  <2>1. CASE bp.mode = "advance"
    BY <1>2, <2>1 DEF ChainsInv
  <2>2. CASE bp.mode = "backup"
    <3>1. chain = disk /\ disk \in AllChains
      BY <1>1, <1>2, <2>2 DEF ChainsInv, ReadersTyped
    <3>2. Len(disk) \in Nat
      BY <3>1 DEF AllChains
    <3> QED
      BY <3>1, <3>2, Starts DEF Begins, AllChains
  <2> QED
    BY <1>2, <2>1, <2>2 DEF ReadersTyped
<1>6. ChainsInv' /\ FileInv'
  BY <1>1, <1>2, <1>5 DEF ChainsInv, FileInv, Holds, Begins, Start, Txids!Txs
<1>7. RequestInv' /\ Txids!TxidsFresh'
  BY <1>1, <1>2, <1>3 DEF RequestInv, Txids!TxidsFresh, ReadersTyped
<1> QED
  BY <1>4, <1>6, <1>7 DEF ReadersInv

\* db_height is set: blocks that were on disk and still are stay where they were.
LEMMA StateKeeps ==
    ASSUME ReadersInv, Txids!SetState
    PROVE  ReadersInv'
<1>1. /\ bp.pc = "state" /\ bp'.mode = bp.mode /\ bp'.pc = "commit" /\ disk' = chain
      /\ bp' \in [mode : {"advance", "backup"}, pc : {"idle", "history", "state", "commit", "signal"}]
      /\ UNCHANGED <<chain, hashes_file, r, txids_cache, reorg_count>>
  BY DEF Txids!SetState, ReadersInv, ReadersTyped, Txids!manager
<1>2. ReadersTyped /\ ChainsInv /\ FileInv /\ RequestInv /\ Txids!TxidsFresh
  BY DEF ReadersInv
<1>3. ReadersTyped'
  BY <1>1, <1>2 DEF ReadersTyped
<1>4. chain \in Seq(Seq(Txids!AllTxs)) /\ disk \in Seq(Seq(Txids!AllTxs)) /\ Len(hashes_file) \in Nat
  BY <1>2 DEF ReadersTyped, AllChains
<1>5. ChainsInv'
  <2>1. Begins(chain, chain)
    BY <1>4, Starts DEF Begins
  <2> QED
    BY <1>1, <2>1 DEF ChainsInv, Begins, Start
<1>6. FileInv'
  <2>1. Holds(hashes_file, chain)
    <3>1. CASE bp.mode = "advance"
      BY <1>1, <1>2, <3>1 DEF FileInv
    <3>2. CASE bp.mode = "backup"
      BY <1>1, <1>2, <1>4, <3>2, HoldsStart DEF FileInv, ChainsInv
    <3> QED
      BY <1>2, <3>1, <3>2 DEF ReadersTyped
  <2> QED
    BY <1>1, <2>1 DEF FileInv, Holds, Txids!Txs
<1>7. RequestInv' /\ Txids!TxidsFresh'
  <2> SUFFICES ASSUME bp.mode = "advance" PROVE RequestInv' /\ Txids!TxidsFresh'
    BY <1>1 DEF RequestInv, Txids!TxidsFresh
  <2>1. /\ Len(chain) \in Nat /\ Len(disk) \in Nat /\ Len(disk) \in 0 .. Len(chain)
        /\ \A i \in 1 .. Len(disk) : disk[i] = chain[i]
        /\ \A n \in 0 .. Len(disk) : Txids!TxCount(disk, n) = Txids!TxCount(chain, n)
    <3>1. Begins(disk, chain)
      BY <1>2 DEF ChainsInv
    <3> QED
      BY <1>4, <3>1, BeginsProperties
  <2>2. ASSUME NEW h \in Nat, h <= Txids!db_height
        PROVE  /\ h <= Txids!db_height' /\ disk'[h + 1] = disk[h + 1]
               /\ Txids!TxCount(chain, h) = Txids!TxCount(disk, h) /\ Txids!TxCount(chain, h + 1) = Txids!TxCount(disk, h + 1)
    <3>1. h \in 0 .. Len(disk) /\ h + 1 \in 0 .. Len(disk) /\ h + 1 \in 1 .. Len(disk)
      BY <2>1, <2>2 DEF Txids!db_height
    <3>2. h <= Txids!db_height'
      BY <1>1, <2>1, <3>1 DEF Txids!db_height
    <3> QED
      BY <1>1, <2>1, <3>1, <3>2
  <2>3. RequestInv'
    <3>1. \A n : Txids!TxCount(disk, n)' = Txids!TxCount(chain, n')
      BY <1>1 DEF Txids!TxCount, Txids!Txs
    <3>2. r.pc \in {"hashes", "resume"} => r.arg \in Nat
      BY <1>2 DEF ReadersTyped
    <3> QED
      BY <1>1, <1>2, <2>2, <3>2 DEF RequestInv, Txids!TxCount, Txids!Txs, Txids!Ids
  <2>4. Txids!TxidsFresh'
    <3>1. \A h \in DOMAIN txids_cache : h \in Nat
      BY <1>2 DEF ReadersTyped
    <3> QED
      BY <1>1, <1>2, <2>2, <3>1 DEF Txids!TxidsFresh, Txids!Ids
  <2> QED
    BY <2>3, <2>4
<1> QED
  BY <1>3, <1>5, <1>6, <1>7 DEF ReadersInv

\* The hashes of new blocks are written behind those of the blocks on disk.
LEMMA FlushKeeps ==
    ASSUME ReadersInv, Txids!FlushFs
    PROVE  ReadersInv'
<1> DEFINE k == Len(disk)
           m == Len(chain)
           at == Txids!TxCount(chain, k)
           new == Txids!FlattenSeq([i \in 1 .. m - k |-> Txids!Ids(chain[k + i])])
           before == SubSeq(hashes_file, 1, at)
           after == SubSeq(hashes_file, at + Len(new) + 1, Len(hashes_file))
           all == Txids!Ids(Txids!Txs(chain))
<1>1. /\ bp = [mode |-> "advance", pc |-> "idle"] /\ bp' = [mode |-> "advance", pc |-> "history"]
      /\ m > k /\ hashes_file' = before \o new \o after
      /\ UNCHANGED <<chain, disk, r, txids_cache, reorg_count>>
  BY DEF Txids!FlushFs, Txids!manager
<1>2. ReadersTyped /\ ChainsInv /\ FileInv /\ RequestInv /\ Txids!TxidsFresh
  BY DEF ReadersInv
<1>3. chain \in Seq(Seq(Txids!AllTxs)) /\ disk \in Seq(Seq(Txids!AllTxs)) /\ hashes_file \in Seq(TxIds)
  BY <1>2 DEF ReadersTyped, AllChains
<1>4. Begins(disk, chain) /\ Holds(hashes_file, disk)
  BY <1>1, <1>2 DEF ChainsInv, FileInv
<1>5. k \in 0 .. m /\ m \in 0 .. m /\ k <= m /\ Txids!Txs(disk) = Txids!Txs(Start(chain, k))
  BY <1>3, <1>4, BeginsProperties
<1>6. /\ Txids!Txs(disk) \in Seq(Txids!AllTxs) /\ Txids!Txs(chain) \in Seq(Txids!AllTxs) /\ at = Len(Txids!Txs(disk))
      /\ Txids!Txs(Start(chain, m)) = Txids!Txs(chain) /\ at \in Nat
  BY <1>3, <1>5, TxsTyped, CountIs, Starts
<1>7. all = Txids!Ids(Txids!Txs(disk)) \o new
  BY <1>3, <1>5, <1>6, IdsBehind
<1>8. /\ all \in Seq(TxIds) /\ Len(all) = Len(Txids!Txs(chain))
      /\ \A i \in 1 .. Len(all) : all[i] = Txids!Txs(chain)[i].id
      /\ Txids!Ids(Txids!Txs(disk)) \in Seq(TxIds) /\ Len(Txids!Ids(Txids!Txs(disk))) = at
      /\ \A i \in 1 .. at : Txids!Ids(Txids!Txs(disk))[i] = Txids!Txs(disk)[i].id
  BY <1>6, IdsOf DEF TxIds
<1>9. before = Txids!Ids(Txids!Txs(disk))
  <2>1. at <= Len(hashes_file) /\ \A i \in 1 .. at : hashes_file[i] = Txids!Ids(Txids!Txs(disk))[i]
    BY <1>4, <1>6, <1>8 DEF Holds
  <2>2. before \in Seq(TxIds) /\ Len(before) = at /\ \A i \in 1 .. at : before[i] = hashes_file[i]
    <3>1. at \in 0 .. Len(hashes_file)
      BY <1>3, <1>6, <2>1
    <3> HIDE DEF at
    <3> QED
      BY <1>3, <3>1, Starts DEF Start
  <2> HIDE DEF before, at
  <2> QED
    BY <1>8, <2>1, <2>2, SeqEqual
<1>10. after \in Seq(TxIds)
  <2>1. Len(new) \in Nat
    BY <1>3, <1>5, NewTyped
  <2> DEFINE j == at + Len(new) + 1
  <2>2. j \in Int /\ Len(hashes_file) \in Int /\ j >= 1
    BY <1>3, <1>6, <2>1
  <2> HIDE DEF j
  <2>3. \A i \in j .. Len(hashes_file) : hashes_file[i] \in TxIds
    BY <1>3, <2>2
  <2>4. SubSeq(hashes_file, j, Len(hashes_file)) \in Seq(TxIds)
    BY <2>2, <2>3, SubSeqProperties
  <2> QED
    BY <2>4 DEF j
<1>11. hashes_file' = all \o after
  BY <1>1, <1>7, <1>9
<1>12. /\ hashes_file' \in Seq(TxIds) /\ Len(all) <= Len(hashes_file')
       /\ \A i \in 1 .. Len(all) : hashes_file'[i] = all[i]
  <2> HIDE DEF all, after
  <2>1. all \in Seq(TxIds) /\ after \in Seq(TxIds)
    BY <1>8, <1>10
  <2> QED
    BY <1>11, <2>1
<1>13. Holds(hashes_file, chain)'
  <2> HIDE DEF all
  <2>1. Txids!Txs(chain)' = Txids!Txs(chain)
    BY <1>1 DEF Txids!Txs
  <2> QED
    BY <1>1, <1>8, <1>12, <2>1 DEF Holds
<1>14. ReadersTyped'
  BY <1>1, <1>2, <1>12 DEF ReadersTyped
<1>15. Begins(disk, chain)'
  BY <1>1, <1>4 DEF Begins, Start
<1>16. Holds(hashes_file, disk)'
  <2>1. Len(hashes_file') \in Nat
    <3> HIDE DEF all
    <3> QED
      BY <1>12
  <2>2. Holds(hashes_file', chain)
    BY <1>1, <1>13 DEF Holds, Txids!Txs
  <2>3. Holds(hashes_file', disk)
    BY <1>3, <1>4, <2>1, <2>2, HoldsStart
  <2> QED
    BY <1>1, <2>3 DEF Holds, Txids!Txs
<1>17. RequestInv' /\ Txids!TxidsFresh'
  BY <1>1, <1>2 DEF RequestInv, Txids!TxidsFresh, Txids!db_height, Txids!TxCount, Txids!Txs, Txids!Ids
<1> QED
  BY <1>1, <1>13, <1>14, <1>15, <1>16, <1>17 DEF ReadersInv, ChainsInv, FileInv

LEMMA ReadersStart ==
    ASSUME Txids!ReadersAssumption, Txids!Init
    PROVE  ReadersInv
<1> DEFINE U == Seq(Txids!AllTxs)
<1>1. Genesis \in U /\ chain = <<Genesis>> /\ disk = chain /\ hashes_file = Txids!Ids(Genesis)
  BY DEF Txids!Init, Txids!ReadersAssumption
<1>2. chain \in Seq(U) /\ Len(chain) = 1 /\ chain[1] = Genesis
  <2> HIDE DEF U
  <2> QED
    BY <1>1
<1>3. Begins(disk, chain)
  <2> HIDE DEF U
  <2> QED
    <3>1. Start(chain, Len(chain)) = chain
      BY <1>2, Starts
    <3> QED
      BY <1>1, <1>2, <3>1 DEF Begins
<1>4. Txids!Txs(chain) = Genesis
  <2>1. 0 \in 0 .. Len(chain) /\ 0 < Len(chain)
    BY <1>2
  <2>2. Txids!Txs(Start(chain, 1)) = Txids!Txs(Start(chain, 0)) \o chain[1]
    <3>1. Txids!Txs(Start(chain, 0 + 1)) = Txids!Txs(Start(chain, 0)) \o chain[0 + 1]
      BY <1>2, <2>1, TxsByBlock
    <3>2. 0 + 1 = 1
      OBVIOUS
    <3> QED
      BY <3>1, <3>2
  <2>3. Txids!Txs(Start(chain, 0)) = <<>> /\ Start(chain, 1) = chain
    BY <1>2, Starts, FlattenEmpty DEF Txids!Txs
  <2>4. Txids!Txs(chain) = <<>> \o Genesis
    BY <1>2, <2>2, <2>3
  <2> QED
    BY <1>1, <2>4, ConcatEmptySeq
<1>5. /\ Txids!Ids(Genesis) \in Seq(TxIds) /\ Len(Txids!Ids(Genesis)) = Len(Genesis)
      /\ \A i \in 1 .. Len(Genesis) : Txids!Ids(Genesis)[i] = Genesis[i].id
  BY <1>1, IdsOf DEF TxIds
<1>6. Len(Genesis) \in Nat
  BY <1>1
<1>7. FileInv
  BY <1>1, <1>4, <1>5, <1>6 DEF FileInv, Holds
<1>8. ReadersTyped
  <2>1. DOMAIN txids_cache = {}
    BY DEF Txids!Init
  <2>2. r = Txids!Idle /\ reorg_count = 0 /\ bp = [mode |-> "advance", pc |-> "idle"]
    BY DEF Txids!Init
  <2> QED
    BY <1>1, <1>2, <1>5, <2>1, <2>2 DEF ReadersTyped, AllChains, Txids!Idle
<1>9. ChainsInv /\ RequestInv /\ Txids!TxidsFresh
  <2>1. DOMAIN txids_cache = {}
    BY DEF Txids!Init
  <2> QED
    BY <1>3, <2>1 DEF Txids!Init, Txids!Idle, ChainsInv, RequestInv, Txids!TxidsFresh
<1> QED
  BY <1>7, <1>8, <1>9 DEF ReadersInv

LEMMA ReadersStep ==
    ASSUME Txids!ReadersAssumption, ReadersInv, [Txids!Next]_(Txids!vars)
    PROVE  ReadersInv'
<1>1. CASE Txids!Process
  BY <1>1, AdvanceKeeps, BackupKeeps, FlushKeeps, HistoryKeeps, StateKeeps, CommitKeeps, SignalKeeps
     DEF Txids!Process
<1>2. CASE Txids!Read
  BY <1>2, OtherReads, CountsKeep, HashesKeep, CacheKeeps DEF Txids!Read
<1>3. CASE \E kind \in {"txids"} : \E arg \in Txids!Arguments(kind) : Txids!Request(kind, arg)
  BY <1>3, OtherReads
<1>4. CASE UNCHANGED Txids!vars
  <2>1. UNCHANGED <<Txids!flushing, reorg_count, r, txids_cache>>
    BY <1>4 DEF Txids!vars, Txids!flushing
  <2>2. ReadersTyped' /\ RequestInv' /\ Txids!TxidsFresh'
    BY <2>1 DEF ReadersInv, ReadersTyped, RequestInv, Txids!TxidsFresh, Txids!flushing, Txids!db_height, Txids!TxCount, Txids!Txs, Txids!Ids
  <2> QED
    BY <2>1, <2>2, ReadKeeps
<1> QED
  BY <1>1, <1>2, <1>3, <1>4 DEF Txids!Next

\* However a request and a reorganisation interleave, the cached hashes are those of the
\* blocks on disk (tx_hashes_at_blockheight reads again if the counter has moved).
THEOREM CachedTxidsAreFresh ==
    ASSUME Txids!ReadersAssumption
    PROVE  Txids!Spec => []TxidsFresh
<1>1. Txids!Init => ReadersInv
  BY ReadersStart
<1>2. ReadersInv /\ [Txids!Next]_(Txids!vars) => ReadersInv'
  BY ReadersStep
<1>3. ReadersInv => TxidsFresh
  BY DEF ReadersInv, TxidsFresh
<1> QED
  BY <1>1, <1>2, <1>3, PTL DEF Txids!Spec

-----------------------------------------------------------------------------
(* Sums.  MapThenSumSet is defined by a recursion that takes the elements   *)
(* of a set in a fixed but unknown order; the lemmas say that the order     *)
(* does not matter.  Each is proved by looking at a smallest counterexample. *)

\* The sum of f over S.
Sum(f, S) == MapThenSumSet(LAMBDA s : f[s], S)

First(s) == CHOOSE x \in s : TRUE

\* g is the function that the recursion defines on the subsets of S.
Sums(f, S, g) ==
    g = [s \in SUBSET S |-> IF s = {} THEN 0 ELSE f[First(s)] + g[s \ {First(s)}]]

\* A non-empty set of finite sets has a member that none of the others is within.
LEMMA SmallestSet ==
    ASSUME NEW S, IsFiniteSet(S), NEW T \in SUBSET (SUBSET S), T # {}
    PROVE  \E s \in T : \A t \in T : t \subseteq s => t = s
<1>1. IsWellFoundedOn(StrictSubsetOrdering(S), SUBSET S)
  BY FS_StrictSubsetOrderingWellFounded, FS_FiniteSubsetsOfFinite
<1>2. \E s \in T : \A t \in T : ~(<<t, s>> \in StrictSubsetOrdering(S))
  BY <1>1, WFMin
<1> QED
  BY <1>2 DEF StrictSubsetOrdering

\* Two functions that satisfy the recursion agree where both are defined.
LEMMA SumsUnique ==
    ASSUME NEW f, NEW S, IsFiniteSet(S), NEW S1 \in SUBSET S, NEW S2 \in SUBSET S,
           NEW g, NEW h, Sums(f, S1, g), Sums(f, S2, h)
    PROVE  \A s \in SUBSET (S1 \cap S2) : g[s] = h[s]
<1> DEFINE T == { s \in SUBSET (S1 \cap S2) : g[s] # h[s] }
<1> SUFFICES ASSUME T # {} PROVE FALSE
  OBVIOUS
<1>1. T \in SUBSET (SUBSET S)
  OBVIOUS
<1>2. \E s \in T : \A t \in T : t \subseteq s => t = s
  <2> HIDE DEF T
  <2> QED
    BY <1>1, SmallestSet
<1> PICK s \in T : \A t \in T : t \subseteq s => t = s
  BY <1>2
<1>3. s \in SUBSET S1 /\ s \in SUBSET S2 /\ g[s] # h[s]
  OBVIOUS
<1>4. s # {}
  BY <1>3 DEF Sums
<1>5. First(s) \in s
  BY <1>4 DEF First
<1> DEFINE rest == s \ {First(s)}
<1>6. g[s] = f[First(s)] + g[rest] /\ h[s] = f[First(s)] + h[rest]
  BY <1>3, <1>4 DEF Sums
<1>7. rest \notin T
  BY <1>5
<1>8. g[rest] = h[rest]
  BY <1>7, <1>3
<1> QED
  BY <1>3, <1>6, <1>8

\* The recursion defines a function.
LEMMA SumsExist ==
    ASSUME NEW f, NEW S, IsFiniteSet(S)
    PROVE  \E g : Sums(f, S, g)
<1> DEFINE T == { s \in SUBSET S : ~ \E g : Sums(f, s, g) }
<1> SUFFICES ASSUME T # {} PROVE FALSE
  OBVIOUS
<1>0. T \in SUBSET (SUBSET S)
  OBVIOUS
<1>1. \E s \in T : \A t \in T : t \subseteq s => t = s
  <2> HIDE DEF T
  <2> QED
    BY <1>0, SmallestSet
<1> PICK s \in T : \A t \in T : t \subseteq s => t = s
  BY <1>1
<1>2. s \in SUBSET S /\ ~ \E g : Sums(f, s, g)
  OBVIOUS
<1>3. \A t \in SUBSET s : t # s => \E g : Sums(f, t, g)
  BY <1>1
<1> DEFINE G(t) == CHOOSE g : Sums(f, t, g)
           V(t) == IF t = {} THEN 0 ELSE f[First(t)] + G(t \ {First(t)})[t \ {First(t)}]
           h == [t \in SUBSET s |-> V(t)]
<1>4. ASSUME NEW t \in SUBSET s, t # s
      PROVE  Sums(f, t, G(t))
  BY <1>3, <1>4
<1>5. ASSUME NEW t \in SUBSET s, t # s
      PROVE  G(t)[t] = V(t)
  <2>1. CASE t = {}
    <3>1. Sums(f, t, G(t)) /\ t \in SUBSET t
      BY <1>4, <1>5
    <3> HIDE DEF G
    <3>2. G(t)[t] = 0
      BY <2>1, <3>1 DEF Sums
    <3> QED
      BY <2>1, <3>2
  <2>2. CASE t # {}
    <3> DEFINE rest == t \ {First(t)}
    <3>1. First(t) \in t
      BY <2>2 DEF First
    <3>2. rest \in SUBSET s /\ rest # s /\ rest \in SUBSET (t \cap rest)
      BY <1>5, <3>1
    <3>3. Sums(f, t, G(t)) /\ Sums(f, rest, G(rest))
      BY <1>4, <1>5, <3>2
    <3>4. G(t)[t] = f[First(t)] + G(t)[rest]
      BY <2>2, <3>3 DEF Sums
    <3>5. t \in SUBSET S /\ rest \in SUBSET S
      BY <1>2, <1>5
    <3> HIDE DEF rest, G
    <3>6. G(t)[rest] = G(rest)[rest]
      BY <3>2, <3>3, <3>5, SumsUnique
    <3> QED
      BY <2>2, <3>4, <3>6 DEF rest
  <2> QED
    BY <2>1, <2>2
<1>6. ASSUME NEW t \in SUBSET s
      PROVE  h[t] = IF t = {} THEN 0 ELSE f[First(t)] + h[t \ {First(t)}]
  <2>1. CASE t = {}
    BY <2>1
  <2>2. CASE t # {}
    <3> DEFINE rest == t \ {First(t)}
    <3>1. First(t) \in t
      BY <2>2 DEF First
    <3>2. rest \in SUBSET s /\ rest # s
      BY <1>6, <3>1
    <3>3. h[rest] = V(rest) /\ h[t] = V(t)
      BY <1>6, <3>2
    <3>4. V(rest) = G(rest)[rest]
      BY <1>5, <3>2
    <3>5. V(t) = f[First(t)] + G(rest)[rest]
      BY <2>2
    <3> QED
      BY <2>2, <3>3, <3>4, <3>5
  <2> QED
    BY <2>1, <2>2
<1>7. Sums(f, s, h)
  <2>1. h = [t \in SUBSET s |-> h[t]]
    OBVIOUS
  <2> HIDE DEF h
  <2> QED
    BY <1>6, <2>1 DEF Sums
<1> QED
  BY <1>2, <1>7

\* A function that satisfies the recursion gives the sum.
LEMMA SumIs ==
    ASSUME NEW f, NEW S, IsFiniteSet(S)
    PROVE  \E g : Sums(f, S, g) /\ Sum(f, S) = g[S]
<1> DEFINE F == CHOOSE g : g = [s \in SUBSET S |-> IF s = {} THEN 0 ELSE f[First(s)] + g[s \ {First(s)}]]
<1>1. Sum(f, S) = F[S]
  BY DEF Sum, MapThenSumSet, MapThenFoldSet, First
<1>2. Sums(f, S, F)
  <2>1. F = CHOOSE g : Sums(f, S, g)
    BY DEF Sums
  <2>2. \E g : Sums(f, S, g)
    BY SumsExist
  <2> HIDE DEF F
  <2> QED
    BY <2>1, <2>2
<1> QED
  BY <1>1, <1>2

\* The same function gives the sums over all subsets.
LEMMA SumOfSubset ==
    ASSUME NEW f, NEW S, IsFiniteSet(S), NEW g, Sums(f, S, g), NEW s \in SUBSET S
    PROVE  Sum(f, s) = g[s]
<1>1. IsFiniteSet(s)
  BY FS_Subset
<1>2. PICK h : Sums(f, s, h) /\ Sum(f, s) = h[s]
  BY <1>1, SumIs
<1>3. S \in SUBSET S /\ s \in SUBSET S /\ s \in SUBSET (S \cap s)
  OBVIOUS
<1>4. g[s] = h[s]
  BY <1>2, <1>3, SumsUnique
<1> QED
  BY <1>2, <1>4

-----------------------------------------------------------------------------
\* The sum over nothing.
LEMMA SumEmpty ==
    ASSUME NEW f
    PROVE  Sum(f, {}) = 0
<1>1. PICK g : Sums(f, {}, g) /\ Sum(f, {}) = g[{}]
  BY FS_EmptySet, SumIs
<1> QED
  BY <1>1 DEF Sums

\* The recursion, for sums.
LEMMA SumPick ==
    ASSUME NEW f, NEW S, IsFiniteSet(S), S # {}
    PROVE  First(S) \in S /\ Sum(f, S) = f[First(S)] + Sum(f, S \ {First(S)})
<1>1. PICK g : Sums(f, S, g) /\ Sum(f, S) = g[S]
  BY SumIs
<1>2. Sum(f, S \ {First(S)}) = g[S \ {First(S)}]
  BY <1>1, SumOfSubset
<1>3. g[S] = f[First(S)] + g[S \ {First(S)}]
  BY <1>1 DEF Sums
<1> QED
  BY <1>1, <1>2, <1>3 DEF First

\* Sums of integers are integers.
LEMMA SumInt ==
    ASSUME NEW S, IsFiniteSet(S), NEW f, \A x \in S : f[x] \in Int
    PROVE  Sum(f, S) \in Int
<1> DEFINE T == { s \in SUBSET S : Sum(f, s) \notin Int }
<1> SUFFICES ASSUME T # {} PROVE FALSE
  OBVIOUS
<1>1. T \in SUBSET (SUBSET S)
  OBVIOUS
<1>2. \E s \in T : \A t \in T : t \subseteq s => t = s
  <2> HIDE DEF T
  <2> QED
    BY <1>1, SmallestSet
<1> PICK s \in T : \A t \in T : t \subseteq s => t = s
  BY <1>2
<1> DEFINE zero == Sum(f, {})
<1>z. zero \in Int
  <2>1. Sum(f, {}) = 0
    BY SumEmpty
  <2> QED
    BY <2>1
<1>3. s # {}
  <2>1. Sum(f, s) \notin Int
    OBVIOUS
  <2> QED
    BY <1>z, <2>1
<1>4. First(s) \in s /\ Sum(f, s) = f[First(s)] + Sum(f, s \ {First(s)})
  BY <1>3, FS_Subset, SumPick
<1>5. Sum(f, s \ {First(s)}) \in Int
  BY <1>4
<1> QED
  BY <1>4, <1>5

\* An element may be taken out of a sum, whichever it is.
LEMMA SumRemove ==
    ASSUME NEW S, IsFiniteSet(S), NEW f, \A x \in S : f[x] \in Int, NEW e \in S
    PROVE  Sum(f, S) = f[e] + Sum(f, S \ {e})
<1> DEFINE Wrong(s) == \E x \in s : Sum(f, s) # f[x] + Sum(f, s \ {x})
           T == { s \in SUBSET S : Wrong(s) }
<1> SUFFICES ASSUME T # {} PROVE FALSE
  OBVIOUS
<1>1. T \in SUBSET (SUBSET S)
  OBVIOUS
<1>2. \E s \in T : \A t \in T : t \subseteq s => t = s
  <2> HIDE DEF T
  <2> QED
    BY <1>1, SmallestSet
<1> PICK s \in T : \A t \in T : t \subseteq s => t = s
  BY <1>2
<1> PICK x \in s : Sum(f, s) # f[x] + Sum(f, s \ {x})
  OBVIOUS
<1> DEFINE y == First(s)
           rest == s \ {x, y}
<1>3. IsFiniteSet(s) /\ s \in SUBSET S /\ s # {}
  BY FS_Subset
<1>4. y \in s /\ Sum(f, s) = f[y] + Sum(f, s \ {y})
  BY <1>3, SumPick
<1>5. x # y
  BY <1>4
<1>6. Sum(f, s \ {y}) = f[x] + Sum(f, (s \ {y}) \ {x})
  <2>1. (s \ {y}) \notin T /\ x \in s \ {y} /\ (s \ {y}) \in SUBSET S
    BY <1>4, <1>5
  <2> QED
    BY <2>1
<1>7. Sum(f, s \ {x}) = f[y] + Sum(f, (s \ {x}) \ {y})
  <2>1. (s \ {x}) \notin T /\ y \in s \ {x} /\ (s \ {x}) \in SUBSET S
    BY <1>4, <1>5
  <2> QED
    BY <2>1
<1>8. (s \ {y}) \ {x} = rest /\ (s \ {x}) \ {y} = rest
  OBVIOUS
<1>9. Sum(f, rest) \in Int
  <2>1. IsFiniteSet(rest) /\ rest \in SUBSET S
    BY <1>3, FS_Subset
  <2> QED
    BY <2>1, SumInt
<1>10. f[x] \in Int /\ f[y] \in Int
  BY <1>3, <1>4
<1> HIDE DEF y, rest, T
<1>11. Sum(f, s) = f[y] + (f[x] + Sum(f, rest)) /\ Sum(f, s \ {x}) = f[y] + Sum(f, rest)
  BY <1>4, <1>6, <1>7, <1>8
<1>12. Sum(f, s) = f[x] + Sum(f, s \ {x})
  BY <1>9, <1>10, <1>11
<1> QED
  BY <1>12

\* An element may be added to a sum.
LEMMA SumAdd ==
    ASSUME NEW S, IsFiniteSet(S), NEW f, NEW e, \A x \in S \cup {e} : f[x] \in Int, e \notin S
    PROVE  Sum(f, S \cup {e}) = Sum(f, S) + f[e]
<1>1. IsFiniteSet(S \cup {e}) /\ (S \cup {e}) \ {e} = S
  BY FS_AddElement
<1>2. Sum(f, S \cup {e}) = f[e] + Sum(f, S)
  BY <1>1, SumRemove
<1>3. Sum(f, S) \in Int
  BY SumInt
<1> QED
  BY <1>2, <1>3

\* The sum depends on the values on the set only.
LEMMA SumSame ==
    ASSUME NEW S, IsFiniteSet(S), NEW f, NEW g, \A x \in S : f[x] = g[x]
    PROVE  Sum(f, S) = Sum(g, S)
<1> DEFINE T == { s \in SUBSET S : Sum(f, s) # Sum(g, s) }
<1> SUFFICES ASSUME T # {} PROVE FALSE
  OBVIOUS
<1>1. T \in SUBSET (SUBSET S)
  OBVIOUS
<1>2. \E s \in T : \A t \in T : t \subseteq s => t = s
  <2> HIDE DEF T
  <2> QED
    BY <1>1, SmallestSet
<1> PICK s \in T : \A t \in T : t \subseteq s => t = s
  BY <1>2
<1>3. s # {}
  BY SumEmpty
<1>4. /\ First(s) \in s /\ Sum(f, s) = f[First(s)] + Sum(f, s \ {First(s)})
      /\ Sum(g, s) = g[First(s)] + Sum(g, s \ {First(s)})
  BY <1>3, FS_Subset, SumPick
<1>5. Sum(f, s \ {First(s)}) = Sum(g, s \ {First(s)})
  BY <1>4
<1> QED
  BY <1>4, <1>5

\* A sum of natural numbers is one.
LEMMA SumNat ==
    ASSUME NEW S, IsFiniteSet(S), NEW f, \A x \in S : f[x] \in Nat
    PROVE  Sum(f, S) \in Nat
<1> DEFINE T == { s \in SUBSET S : Sum(f, s) \notin Nat }
<1> SUFFICES ASSUME T # {} PROVE FALSE
  OBVIOUS
<1>1. T \in SUBSET (SUBSET S)
  OBVIOUS
<1>2. \E s \in T : \A t \in T : t \subseteq s => t = s
  <2> HIDE DEF T
  <2> QED
    BY <1>1, SmallestSet
<1> PICK s \in T : \A t \in T : t \subseteq s => t = s
  BY <1>2
<1>3. s # {}
  BY SumEmpty
<1>4. First(s) \in s /\ Sum(f, s) = f[First(s)] + Sum(f, s \ {First(s)})
  BY <1>3, FS_Subset, SumPick
<1>5. Sum(f, s \ {First(s)}) \in Nat
  BY <1>4
<1> QED
  BY <1>4, <1>5

\* A sum may be cut in two.
LEMMA SumSplit ==
    ASSUME NEW S, IsFiniteSet(S), NEW f, \A x \in S : f[x] \in Int, NEW A1 \in SUBSET S
    PROVE  Sum(f, S) = Sum(f, A1) + Sum(f, S \ A1)
<1> DEFINE Wrong(s) == Sum(f, S) # Sum(f, s) + Sum(f, S \ s)
           T == { s \in SUBSET S : Wrong(s) }
<1> SUFFICES ASSUME T # {} PROVE FALSE
  OBVIOUS
<1>1. T \in SUBSET (SUBSET S)
  OBVIOUS
<1>2. \E s \in T : \A t \in T : t \subseteq s => t = s
  <2> HIDE DEF T
  <2> QED
    BY <1>1, SmallestSet
<1> PICK s \in T : \A t \in T : t \subseteq s => t = s
  BY <1>2
<1>3. s \in SUBSET S /\ Wrong(s)
  OBVIOUS
<1>4. s # {}
  <2>1. Sum(f, {}) = 0 /\ Sum(f, S) \in Int /\ S \ {} = S
    BY SumEmpty, SumInt
  <2>2. ~Wrong({})
    BY <2>1
  <2> QED
    BY <1>3, <2>2
<1>5. PICK e \in s : TRUE
  BY <1>4
<1> DEFINE rest == s \ {e}
           o == S \ s
<1>6. rest \in SUBSET S /\ rest # s /\ rest \subseteq s /\ ~(rest \in T)
  BY <1>3, <1>5
<1>7. Sum(f, S) = Sum(f, rest) + Sum(f, S \ rest)
  BY <1>6
<1>8. IsFiniteSet(s) /\ IsFiniteSet(rest) /\ IsFiniteSet(o) /\ e \in S
  BY <1>3, <1>5, FS_Subset
<1>9. Sum(f, s) = f[e] + Sum(f, rest)
  BY <1>3, <1>5, <1>8, SumRemove
<1>10. S \ rest = o \cup {e} /\ e \notin o
  BY <1>3, <1>5
<1>11. Sum(f, S \ rest) = Sum(f, o) + f[e]
  <2>1. \A x \in o \cup {e} : f[x] \in Int
    BY <1>8
  <2>2. IsFiniteSet(o) /\ e \notin o
    BY <1>8, <1>10
  <2> HIDE DEF o
  <2>3. Sum(f, o \cup {e}) = Sum(f, o) + f[e]
    BY <2>1, <2>2, SumAdd
  <2> QED
    BY <1>10, <2>3
<1>12. Sum(f, rest) \in Int /\ Sum(f, o) \in Int /\ f[e] \in Int
  BY <1>3, <1>8, SumInt
<1> HIDE DEF rest, o, T, Wrong
<1>13. Sum(f, S) = Sum(f, s) + Sum(f, o)
  BY <1>7, <1>9, <1>10, <1>11, <1>12
<1> QED
  BY <1>3, <1>13 DEF Wrong, o

-----------------------------------------------------------------------------
(* The size-bounded cache.                                                  *)

\* The keys held, each once, and each used after those before it.
OrderRight(o, held, nw) ==
    /\ o \in Seq(Key)
    /\ \A i, j \in 1 .. Len(o) : i < j => o[i] # o[j] /\ <<o[j], o[i]>> \in nw
    /\ held = { o[i] : i \in 1 .. Len(o) }

LRUInv ==
    /\ IsFiniteSet(DOMAIN data) /\ data \in [DOMAIN data -> Nat]
    /\ currsize \in Int /\ currsize = Sum(data, DOMAIN data) /\ currsize <= maxsize
    /\ OrderRight(order, DOMAIN data, newer)

\* A key is taken out of the order, the others keep theirs.
LEMMA DroppedRight ==
    ASSUME NEW o, NEW held, NEW nw, OrderRight(o, held, nw), NEW k
    PROVE  OrderRight(Lru!Dropped(o, k), held \ {k}, nw)
<1>1. CASE \E i \in 1 .. Len(o) : o[i] = k
  <2> DEFINE n == CHOOSE i \in 1 .. Len(o) : o[i] = k
             d == SubSeq(o, 1, n - 1) \o SubSeq(o, n + 1, Len(o))
  <2>1. n \in 1 .. Len(o) /\ o[n] = k
    BY <1>1
  <2>2. Lru!Dropped(o, k) = d
    BY <1>1 DEF Lru!Dropped, Lru!RemoveAt
  <2> HIDE DEF n
  <2>3. o \in Seq(Key) /\ Len(o) \in Nat
    BY DEF OrderRight
  <2> DEFINE before == SubSeq(o, 1, n - 1)
             after == SubSeq(o, n + 1, Len(o))
  <2>4. /\ before \in Seq(Key) /\ Len(before) = n - 1
        /\ \A i \in 1 .. n - 1 : before[i] = o[i]
    BY <2>1, <2>3
  <2>5. /\ after \in Seq(Key) /\ Len(after) = Len(o) - n
        /\ \A i \in 1 .. Len(o) - n : after[i] = o[n + i]
    BY <2>1, <2>3
  <2>6. d = before \o after
    OBVIOUS
  <2> HIDE DEF before, after, d
  <2> DEFINE at(i) == IF i < n THEN i ELSE i + 1
  <2>7. d \in Seq(Key) /\ Len(d) = Len(o) - 1
    <3>1. before \o after \in Seq(Key) /\ Len(before \o after) = Len(before) + Len(after)
      BY <2>4, <2>5
    <3> QED
      BY <2>1, <2>3, <2>4, <2>5, <2>6, <3>1
  <2>8. \A i \in 1 .. Len(o) - 1 : d[i] = o[at(i)]
    <3> SUFFICES ASSUME NEW i \in 1 .. Len(o) - 1 PROVE d[i] = o[at(i)]
      OBVIOUS
    <3>1. CASE i < n
      BY <2>1, <2>3, <2>4, <2>5, <2>6, <3>1
    <3>2. CASE i >= n
      <4>1. d[i] = after[i - (n - 1)] /\ i - (n - 1) \in 1 .. Len(o) - n
        BY <2>1, <2>3, <2>4, <2>5, <2>6, <3>2
      <4> QED
        BY <2>1, <2>3, <2>5, <3>2, <4>1
    <3> QED
      BY <2>1, <3>1, <3>2
  <2>9. \A i \in 1 .. Len(o) - 1 : at(i) \in 1 .. Len(o) /\ at(i) # n
    BY <2>1, <2>3
  <2>10. \A i, j \in 1 .. Len(o) - 1 : i < j => at(i) < at(j)
    BY <2>1, <2>3
  <2>11. \A i, j \in 1 .. Len(d) : i < j => d[i] # d[j] /\ <<d[j], d[i]>> \in nw
    <3> HIDE DEF at
    <3> QED
      BY <2>7, <2>8, <2>9, <2>10 DEF OrderRight
  <2>12. \A i \in 1 .. Len(o) : i # n => o[i] # k
    <3>1. \A i, j \in 1 .. Len(o) : i < j => o[i] # o[j]
      BY DEF OrderRight
    <3> QED
      BY <2>1, <2>3, <3>1
  <2>13. \A j \in 1 .. Len(o) : j # n => \E i \in 1 .. Len(o) - 1 : at(i) = j
    <3> SUFFICES ASSUME NEW j \in 1 .. Len(o), j # n PROVE \E i \in 1 .. Len(o) - 1 : at(i) = j
      OBVIOUS
    <3>1. CASE j < n
      <4>1. j \in 1 .. Len(o) - 1 /\ at(j) = j
        BY <2>1, <2>3, <3>1
      <4> QED
        BY <4>1
    <3>2. CASE j > n
      <4>1. j - 1 \in 1 .. Len(o) - 1 /\ at(j - 1) = j
        BY <2>1, <2>3, <3>2
      <4> QED
        BY <4>1
    <3> QED
      BY <2>1, <3>1, <3>2
  <2> HIDE DEF at
  <2>14. held = { o[i] : i \in 1 .. Len(o) }
    BY DEF OrderRight
  <2>15. \A x : x \in held \ {k} <=> x \in { d[i] : i \in 1 .. Len(d) }
    <3>1. ASSUME NEW x \in held, x # k PROVE x \in { d[i] : i \in 1 .. Len(d) }
      <4>1. PICK j \in 1 .. Len(o) : x = o[j] /\ j # n
        BY <2>1, <2>14, <3>1
      <4> QED
        BY <2>7, <2>8, <2>13, <4>1
    <3>2. ASSUME NEW i \in 1 .. Len(d) PROVE d[i] \in held \ {k}
      BY <2>7, <2>8, <2>9, <2>12, <2>14
    <3> QED
      BY <3>1, <3>2
  <2>16. held \ {k} = { d[i] : i \in 1 .. Len(d) }
    BY <2>15
  <2> QED
    BY <2>2, <2>7, <2>11, <2>16 DEF OrderRight
<1>2. CASE ~ \E i \in 1 .. Len(o) : o[i] = k
  <2>1. Lru!Dropped(o, k) = o
    BY <1>2 DEF Lru!Dropped
  <2>2. held \ {k} = held
    BY <1>2 DEF OrderRight
  <2> QED
    BY <2>1, <2>2
<1> QED
  BY <1>1, <1>2

\* A key that is used goes to the end.
LEMMA UpdatedRight ==
    ASSUME NEW o, NEW held, NEW nw, OrderRight(o, held, nw), NEW k \in Key
    PROVE  OrderRight(Lru!Updated(o, k), held \cup {k},
                      { jk \in nw : jk[2] # k } \cup { <<k, j>> : j \in Key \ {k} })
<1> DEFINE d == Lru!Dropped(o, k)
           w == { jk \in nw : jk[2] # k } \cup { <<k, j>> : j \in Key \ {k} }
           u == Append(d, k)
<1>1. OrderRight(d, held \ {k}, nw)
  BY DroppedRight
<1>2. Lru!Updated(o, k) = u
  BY DEF Lru!Updated
<1> HIDE DEF d
<1>3. d \in Seq(Key) /\ Len(d) \in Nat /\ \A i \in 1 .. Len(d) : d[i] \in Key /\ d[i] # k
  BY <1>1 DEF OrderRight
<1>4. u \in Seq(Key) /\ Len(u) = Len(d) + 1 /\ u[Len(d) + 1] = k /\ \A i \in 1 .. Len(d) : u[i] = d[i]
  BY <1>3
<1> HIDE DEF u
<1>5. \A i, j \in 1 .. Len(u) : i < j => u[i] # u[j] /\ <<u[j], u[i]>> \in w
  <2> SUFFICES ASSUME NEW i \in 1 .. Len(u), NEW j \in 1 .. Len(u), i < j
               PROVE  u[i] # u[j] /\ <<u[j], u[i]>> \in w
    OBVIOUS
  <2>1. i \in 1 .. Len(d) /\ u[i] = d[i]
    BY <1>3, <1>4
  <2>2. CASE j = Len(d) + 1
    BY <1>3, <1>4, <2>1, <2>2
  <2>3. CASE j # Len(d) + 1
    <3>1. j \in 1 .. Len(d) /\ u[j] = d[j]
      BY <1>3, <1>4, <2>3
    <3>2. d[i] # d[j] /\ <<d[j], d[i]>> \in nw
      BY <1>1, <2>1, <3>1 DEF OrderRight
    <3>3. <<d[j], d[i]>>[2] = d[i]
      OBVIOUS
    <3> QED
      BY <1>3, <2>1, <3>1, <3>2, <3>3
  <2> QED
    BY <2>2, <2>3
<1>6. held \cup {k} = { u[i] : i \in 1 .. Len(u) }
  <2>1. held \ {k} = { d[i] : i \in 1 .. Len(d) }
    BY <1>1 DEF OrderRight
  <2>2. \A x : x \in held \cup {k} <=> x \in { u[i] : i \in 1 .. Len(u) }
    <3>1. ASSUME NEW x \in held \cup {k} PROVE \E i \in 1 .. Len(u) : u[i] = x
      <4>1. CASE x = k
        BY <1>3, <1>4, <4>1
      <4>2. CASE x # k
        <5>1. PICK i \in 1 .. Len(d) : d[i] = x
          BY <2>1, <3>1, <4>2
        <5> QED
          BY <1>3, <1>4, <5>1
      <4> QED
        BY <4>1, <4>2
    <3>2. ASSUME NEW i \in 1 .. Len(u) PROVE u[i] \in held \cup {k}
      <4>1. CASE i = Len(d) + 1
        BY <1>4, <4>1
      <4>2. CASE i # Len(d) + 1
        <5>1. i \in 1 .. Len(d) /\ u[i] = d[i]
          BY <1>3, <1>4, <4>2
        <5> QED
          BY <2>1, <5>1
      <4> QED
        BY <4>1, <4>2
    <3> QED
      BY <3>1, <3>2
  <2> QED
    BY <2>2
<1> HIDE DEF w
<1>7. OrderRight(u, held \cup {k}, w)
  BY <1>4, <1>5, <1>6 DEF OrderRight
<1> QED
  BY <1>2, <1>7 DEF w


\* The keys that are popped go from the front of the order.
LEMMA PoppedRight ==
    ASSUME LRUInv, NEW n \in 0 .. Len(order)
    PROVE  /\ Lru!Popped(n) \subseteq DOMAIN data
           /\ OrderRight(SubSeq(order, n + 1, Len(order)), DOMAIN data \ Lru!Popped(n), newer)
           /\ \A gone \in Lru!Popped(n), kept \in DOMAIN data \ Lru!Popped(n) : <<kept, gone>> \in newer
<1> DEFINE s == SubSeq(order, n + 1, Len(order))
<1>1. /\ order \in Seq(Key) /\ Len(order) \in Nat
      /\ \A i, j \in 1 .. Len(order) : i < j => order[i] # order[j] /\ <<order[j], order[i]>> \in newer
      /\ DOMAIN data = { order[i] : i \in 1 .. Len(order) }
  BY DEF LRUInv, OrderRight
<1>2. Lru!Popped(n) = { order[i] : i \in 1 .. n }
  BY DEF Lru!Popped
<1>3. s \in Seq(Key) /\ Len(s) = Len(order) - n /\ \A i \in 1 .. Len(order) - n : s[i] = order[n + i]
  BY <1>1
<1> HIDE DEF s
<1>4. Lru!Popped(n) \subseteq DOMAIN data
  BY <1>1, <1>2
<1>5. \A i \in 1 .. n, j \in 1 .. Len(order) - n : s[j] # order[i] /\ <<s[j], order[i]>> \in newer
  BY <1>1, <1>3
<1>6. \A i, j \in 1 .. Len(s) : i < j => s[i] # s[j] /\ <<s[j], s[i]>> \in newer
  <2> SUFFICES ASSUME NEW i \in 1 .. Len(s), NEW j \in 1 .. Len(s), i < j
               PROVE  s[i] # s[j] /\ <<s[j], s[i]>> \in newer
    OBVIOUS
  <2>1. n + i \in 1 .. Len(order) /\ n + j \in 1 .. Len(order) /\ n + i < n + j
    BY <1>1, <1>3
  <2>2. s[i] = order[n + i] /\ s[j] = order[n + j]
    BY <1>3
  <2> QED
    BY <1>1, <2>1, <2>2
<1>7. \A x : x \in DOMAIN data \ Lru!Popped(n) <=> x \in { s[i] : i \in 1 .. Len(s) }
  <2>1. ASSUME NEW x \in DOMAIN data, x \notin Lru!Popped(n) PROVE \E i \in 1 .. Len(s) : s[i] = x
    <3>1. PICK i \in 1 .. Len(order) : order[i] = x
      BY <1>1
    <3>2. i \notin 1 .. n
      BY <1>2, <2>1, <3>1
    <3>3. i - n \in 1 .. Len(s) /\ s[i - n] = x
      BY <1>1, <1>3, <3>1, <3>2
    <3> QED
      BY <3>3
  <2>2. ASSUME NEW i \in 1 .. Len(s) PROVE s[i] \in DOMAIN data /\ s[i] \notin Lru!Popped(n)
    <3>1. s[i] \in DOMAIN data
      <4>1. s[i] = order[n + i] /\ n + i \in 1 .. Len(order)
        BY <1>1, <1>3
      <4> QED
        BY <1>1, <4>1
    <3>2. s[i] \notin Lru!Popped(n)
      BY <1>2, <1>3, <1>5
    <3> QED
      BY <3>1, <3>2
  <2> QED
    BY <2>1, <2>2
<1>8. DOMAIN data \ Lru!Popped(n) = { s[i] : i \in 1 .. Len(s) }
  BY <1>7
<1>9. \A gone \in Lru!Popped(n), kept \in { s[i] : i \in 1 .. Len(s) } : <<kept, gone>> \in newer
  BY <1>2, <1>3, <1>5
<1>10. OrderRight(s, DOMAIN data \ Lru!Popped(n), newer)
  BY <1>3, <1>6, <1>8 DEF OrderRight
<1> QED
  BY <1>4, <1>8, <1>9, <1>10 DEF s

\* What the cache counts without some of its keys.
LEMMA SizeWithout ==
    ASSUME LRUInv, NEW S \in SUBSET DOMAIN data
    PROVE  /\ Lru!TotalSize([k \in S |-> data[k]]) = Sum(data, S)
           /\ Sum(data, S) \in Int /\ Sum(data, DOMAIN data \ S) \in Int
           /\ currsize - Sum(data, S) = Sum(data, DOMAIN data \ S)
<1> DEFINE f == [k \in S |-> data[k]]
<1>1. IsFiniteSet(DOMAIN data) /\ IsFiniteSet(S) /\ \A x \in DOMAIN data : data[x] \in Int
  BY FS_Subset DEF LRUInv
<1>2. IsFiniteSet(DOMAIN data \ S)
  BY <1>1, FS_Subset
<1>3. \A x \in S : f[x] = data[x]
  OBVIOUS
<1>4. DOMAIN f = S
  OBVIOUS
<1>5. Lru!TotalSize(f) = Sum(f, S)
  BY <1>4 DEF Lru!TotalSize, Lru!Held, Sum, MapThenSumSet, MapThenFoldSet,
              Lru!MapThenSumSet, Lru!MapThenFoldSet
<1> HIDE DEF f
<1>6. Sum(f, S) = Sum(data, S)
  BY <1>1, <1>3, SumSame
<1>7. Sum(data, S) \in Int /\ Sum(data, DOMAIN data \ S) \in Int
  BY <1>1, <1>2, SumInt
<1>8. currsize = Sum(data, S) + Sum(data, DOMAIN data \ S)
  BY <1>1, SumSplit DEF LRUInv
<1>9. currsize \in Int
  BY DEF LRUInv
<1> QED
  BY <1>5, <1>6, <1>7, <1>8, <1>9 DEF f

\* Enough keys can be popped, and that is what ToPop finds.
LEMMA RoomIsMade ==
    ASSUME LRUInv, NEW size \in Nat, size <= maxsize, maxsize \in Nat
    PROVE  LET n == Lru!ToPop(size)
           IN  n \in 0 .. Len(order) /\ Lru!FitsWithout(n, size)
<1> DEFINE T == { n \in Nat : n \in 0 .. Len(order) /\ Lru!FitsWithout(n, size) }
<1>1. Len(order) \in Nat /\ Lru!Popped(Len(order)) = DOMAIN data
  BY DEF LRUInv, OrderRight, Lru!Popped
<1>2. Lru!FitsWithout(Len(order), size)
  <2>1. DOMAIN data \ DOMAIN data = {}
    OBVIOUS
  <2>2. /\ Lru!TotalSize([k \in DOMAIN data |-> data[k]]) = Sum(data, DOMAIN data)
        /\ currsize - Sum(data, DOMAIN data) = Sum(data, {})
    BY <2>1, SizeWithout
  <2>3. Sum(data, {}) = 0
    BY SumEmpty
  <2> QED
    BY <1>1, <2>2, <2>3 DEF Lru!FitsWithout
<1>3. T # {} /\ T \in SUBSET Nat
  BY <1>1, <1>2
<1>4. PICK n \in T : \A m \in Nat : m < n => m \notin T
  <2> HIDE DEF T
  <2> QED
    BY <1>3, LeastNumber
<1>5. n \in 0 .. Len(order) /\ Lru!FitsWithout(n, size) /\ \A m \in 0 .. n - 1 : ~Lru!FitsWithout(m, size)
  BY <1>1, <1>4
<1> QED
  BY <1>5 DEF Lru!ToPop

\* The size that is counted, for the mapping with one key set.
LEMMA SizeWith ==
    ASSUME NEW d, IsFiniteSet(DOMAIN d), \A x \in DOMAIN d : d[x] \in Nat, NEW k, NEW size \in Nat
    PROVE  LET e == [j \in DOMAIN d \cup {k} |-> IF j = k THEN size ELSE d[j]]
           IN  /\ IsFiniteSet(DOMAIN e) /\ e \in [DOMAIN e -> Nat]
               /\ Sum(e, DOMAIN e) = Sum(d, DOMAIN d) + Lru!DiffSize(d, k, size)
<1> DEFINE e == [j \in DOMAIN d \cup {k} |-> IF j = k THEN size ELSE d[j]]
           rest == DOMAIN d \ {k}
<1>1. DOMAIN e = DOMAIN d \cup {k} /\ DOMAIN e = rest \cup {k} /\ k \notin rest
  OBVIOUS
<1>2. IsFiniteSet(rest) /\ IsFiniteSet(DOMAIN d \cup {k})
  BY FS_Subset, FS_AddElement
<1>3. \A x \in rest : e[x] = d[x] /\ d[x] \in Int
  OBVIOUS
<1>4. e \in [DOMAIN e -> Nat] /\ e[k] = size
  OBVIOUS
<1>5. \A x \in DOMAIN d : d[x] \in Int
  OBVIOUS
<1>6. Lru!DiffSize(d, k, size) = IF k \in DOMAIN d THEN size - d[k] ELSE size
  BY DEF Lru!DiffSize, Lru!Held
<1> HIDE DEF e, rest
<1>7. Sum(e, rest) = Sum(d, rest) /\ Sum(d, rest) \in Int
  BY <1>2, <1>3, SumSame, SumInt
<1>8. Sum(e, rest \cup {k}) = Sum(e, rest) + size
  <2>1. \A x \in rest \cup {k} : e[x] \in Int
    BY <1>3, <1>4
  <2> QED
    BY <1>1, <1>2, <1>4, <2>1, SumAdd
<1>9. CASE k \in DOMAIN d
  <2>1. Sum(d, DOMAIN d) = d[k] + Sum(d, rest)
    BY <1>5, <1>9, SumRemove DEF rest
  <2>2. d[k] \in Int
    BY <1>5, <1>9
  <2>3. Sum(e, DOMAIN e) = Sum(d, rest) + size
    BY <1>1, <1>7, <1>8
  <2>4. Sum(e, DOMAIN e) = Sum(d, DOMAIN d) + Lru!DiffSize(d, k, size)
    BY <1>6, <1>7, <1>9, <2>1, <2>2, <2>3
  <2>5. IsFiniteSet(DOMAIN e)
    BY <1>1, <1>2
  <2> QED
    BY <1>4, <2>4, <2>5 DEF e
<1>10. CASE k \notin DOMAIN d
  <2>1. rest = DOMAIN d
    BY <1>10 DEF rest
  <2> QED
    BY <1>1, <1>2, <1>4, <1>6, <1>7, <1>8, <1>10, <2>1 DEF e
<1> QED
  BY <1>9, <1>10


\* __setitem__
LEMMA SetRight ==
    ASSUME Lru!LRUCacheAssumption, LRUInv, NEW k \in Key, NEW size \in 0 .. MaxValue, Lru!Set(k, size)
    PROVE  /\ LRUInv'
           /\ \A gone \in DOMAIN data \ DOMAIN data', kept \in (DOMAIN data \cap DOMAIN data') \ {k} :
                 <<kept, gone>> \in newer
<1> DEFINE grows == IF k \in DOMAIN data THEN data[k] < size ELSE TRUE
           n == IF grows THEN Lru!ToPop(size) ELSE 0
           gone == Lru!Popped(n)
           left == Lru!Without(data, gone)
           set == [j \in DOMAIN left \cup {k} |-> IF j = k THEN size ELSE left[j]]
<1>1. /\ data' = set
      /\ currsize' = currsize - Lru!TotalSize([j \in gone |-> data[j]]) + Lru!DiffSize(left, k, size)
      /\ order' = Lru!Updated(SubSeq(order, n + 1, Len(order)), k)
      /\ newer' = { jk \in newer : jk[2] # k } \cup { <<k, j>> : j \in Key \ {k} }
      /\ size <= maxsize
  BY DEF Lru!Set, Lru!Held, Lru!Use
<1>2. size \in Nat /\ maxsize \in Nat /\ Len(order) \in Nat
  BY DEF Lru!LRUCacheAssumption, LRUInv, OrderRight
<1>3. grows => n \in 0 .. Len(order) /\ Lru!FitsWithout(n, size)
  BY <1>1, <1>2, RoomIsMade
<1>4. n \in 0 .. Len(order)
  BY <1>2, <1>3
<1>5. ~grows => gone = {}
  BY DEF Lru!Popped
<1>6. /\ gone \subseteq DOMAIN data
      /\ OrderRight(SubSeq(order, n + 1, Len(order)), DOMAIN data \ gone, newer)
      /\ \A g \in gone, kept \in DOMAIN data \ gone : <<kept, g>> \in newer
  BY <1>4, PoppedRight
<1>7. DOMAIN left = DOMAIN data \ gone /\ \A x \in DOMAIN left : left[x] = data[x]
  BY DEF Lru!Without, Lru!Held
<1>8. IsFiniteSet(DOMAIN data) /\ \A x \in DOMAIN data : data[x] \in Nat
  BY DEF LRUInv
<1>9. /\ Lru!TotalSize([j \in gone |-> data[j]]) = Sum(data, gone)
      /\ Sum(data, gone) \in Int /\ Sum(data, DOMAIN data \ gone) \in Int
      /\ currsize - Sum(data, gone) = Sum(data, DOMAIN data \ gone)
  BY <1>6, SizeWithout
<1>10. grows => currsize - Sum(data, gone) + size <= maxsize
  BY <1>3, <1>9 DEF Lru!FitsWithout
<1> HIDE DEF gone, left
<1>11. IsFiniteSet(DOMAIN left) /\ \A x \in DOMAIN left : left[x] \in Nat
  BY <1>7, <1>8, FS_Subset
<1>12. Sum(left, DOMAIN left) = Sum(data, DOMAIN data \ gone)
  BY <1>7, <1>11, SumSame
<1>13. /\ IsFiniteSet(DOMAIN set) /\ set \in [DOMAIN set -> Nat]
       /\ Sum(set, DOMAIN set) = Sum(left, DOMAIN left) + Lru!DiffSize(left, k, size)
  BY <1>2, <1>11, SizeWith
<1>14. DOMAIN set = DOMAIN left \cup {k}
  OBVIOUS
<1> HIDE DEF set, n, grows
<1>15. currsize' = Sum(set, DOMAIN set)
  BY <1>1, <1>9, <1>12, <1>13
<1>16. Lru!DiffSize(left, k, size) \in Int /\ currsize \in Int
  BY <1>2, <1>11 DEF Lru!DiffSize, Lru!Held, LRUInv
<1>17. currsize' \in Int
  BY <1>1, <1>9, <1>16
<1>18. currsize' <= maxsize
  <2>1. CASE grows
    <3>1. Lru!DiffSize(left, k, size) <= size
      BY <1>2, <1>11 DEF Lru!DiffSize, Lru!Held
    <3> QED
      BY <1>1, <1>2, <1>9, <1>10, <1>16, <2>1, <3>1
  <2>2. CASE ~grows
    <3>1. k \in DOMAIN data /\ ~(data[k] < size) /\ gone = {}
      BY <1>5, <2>2 DEF grows
    <3>2. k \in DOMAIN left /\ left[k] = data[k] /\ data[k] \in Nat
      BY <1>7, <1>8, <3>1
    <3>3. Lru!DiffSize(left, k, size) <= 0
      BY <1>2, <3>1, <3>2 DEF Lru!DiffSize, Lru!Held
    <3>4. Sum(data, gone) = 0
      BY <3>1, SumEmpty
    <3> QED
      BY <1>1, <1>2, <1>9, <1>16, <3>3, <3>4 DEF LRUInv
  <2> QED
    BY <2>1, <2>2
<1>19. OrderRight(order', DOMAIN data', newer')
  <2>1. DOMAIN data' = (DOMAIN data \ gone) \cup {k}
    BY <1>1, <1>7, <1>14
  <2> QED
    BY <1>1, <1>6, <2>1, UpdatedRight
<1>20. LRUInv'
  BY <1>1, <1>13, <1>15, <1>17, <1>18, <1>19 DEF LRUInv, Lru!LRUCacheAssumption
<1>21. \A g \in DOMAIN data \ DOMAIN data' : g \in gone
  BY <1>1, <1>7, <1>14
<1>22. \A kept \in (DOMAIN data \cap DOMAIN data') \ {k} : kept \in DOMAIN data \ gone
  BY <1>1, <1>7, <1>14
<1> QED
  BY <1>6, <1>20, <1>21, <1>22

\* __getitem__, __delitem__
LEMMA OthersRight ==
    ASSUME Lru!LRUCacheAssumption, LRUInv, NEW k \in Key, Lru!Get(k) \/ Lru!Delete(k)
    PROVE  LRUInv'
<1>1. CASE Lru!Get(k)
  <2>1. /\ k \in DOMAIN data /\ order' = Lru!Updated(order, k) /\ UNCHANGED <<data, currsize>>
        /\ newer' = { jk \in newer : jk[2] # k } \cup { <<k, j>> : j \in Key \ {k} }
    BY <1>1 DEF Lru!Get, Lru!Use, Lru!Held
  <2>2. OrderRight(order', DOMAIN data \cup {k}, newer')
    BY <2>1, UpdatedRight DEF LRUInv
  <2>3. DOMAIN data \cup {k} = DOMAIN data
    BY <2>1
  <2> QED
    BY <2>1, <2>2, <2>3 DEF LRUInv
<1>2. CASE Lru!Delete(k)
  <2> DEFINE left == [j \in DOMAIN data \ {k} |-> data[j]]
  <2>1. /\ k \in DOMAIN data /\ data' = left /\ currsize' = currsize - data[k]
        /\ order' = Lru!Dropped(order, k) /\ newer' = newer
    BY <1>2 DEF Lru!Delete, Lru!Without, Lru!Held
  <2>2. OrderRight(order', DOMAIN data \ {k}, newer')
    BY <2>1, DroppedRight DEF LRUInv
  <2>3. DOMAIN left = DOMAIN data \ {k} /\ \A x \in DOMAIN left : left[x] = data[x]
    OBVIOUS
  <2>4. IsFiniteSet(DOMAIN data) /\ \A x \in DOMAIN data : data[x] \in Nat
    BY DEF LRUInv
  <2>5. IsFiniteSet(DOMAIN left) /\ left \in [DOMAIN left -> Nat]
    BY <2>3, <2>4, FS_Subset
  <2> HIDE DEF left
  <2>6. Sum(left, DOMAIN left) = Sum(data, DOMAIN left)
    BY <2>3, <2>5, SumSame
  <2>7. \A x \in DOMAIN data : data[x] \in Int
    BY <2>4
  <2>8. Sum(data, DOMAIN data) = data[k] + Sum(data, DOMAIN left)
    BY <2>1, <2>3, <2>4, <2>7, SumRemove
  <2>9. Sum(data, DOMAIN left) \in Int
    BY <2>3, <2>4, <2>5, SumInt
  <2>10. currsize' = Sum(left, DOMAIN left) /\ currsize' \in Int
    BY <2>1, <2>4, <2>6, <2>8, <2>9 DEF LRUInv
  <2>11. currsize' <= maxsize
    <3>1. currsize' <= currsize /\ currsize \in Int
      BY <2>1, <2>4 DEF LRUInv
    <3> QED
      BY <2>10, <3>1 DEF LRUInv, Lru!LRUCacheAssumption
  <2> QED
    BY <2>1, <2>2, <2>3, <2>5, <2>10, <2>11 DEF LRUInv
<1> QED
  BY <1>1, <1>2

LEMMA LRUStart ==
    ASSUME Lru!LRUCacheAssumption, Lru!Init
    PROVE  LRUInv
<1>1. data = << >> /\ order = << >> /\ currsize = 0
  BY DEF Lru!Init
<1>2. DOMAIN data = {}
  BY <1>1
<1>3. IsFiniteSet(DOMAIN data) /\ data \in [DOMAIN data -> Nat]
  BY <1>1, <1>2, FS_EmptySet
<1>4. currsize \in Int /\ currsize = Sum(data, DOMAIN data) /\ currsize <= maxsize
  BY <1>1, <1>2, SumEmpty DEF Lru!LRUCacheAssumption
<1>5. OrderRight(order, DOMAIN data, newer)
  BY <1>1, <1>2 DEF OrderRight
<1> QED
  BY <1>3, <1>4, <1>5 DEF LRUInv

\* LRUCache: whatever the sizes, the size counted is that of the values held and within
\* maxsize, also when a key that is set again makes room by popping itself, and no key goes
\* that was used after one that stays.
THEOREM LeastRecentlyUsedGo ==
    ASSUME Lru!LRUCacheAssumption
    PROVE  Lru!Spec => CacheRight
<1>1. Lru!Init => LRUInv
  BY LRUStart
<1>2. LRUInv /\ [Lru!Next]_(Lru!vars) => LRUInv'
  <2> SUFFICES ASSUME LRUInv, [Lru!Next]_(Lru!vars) PROVE LRUInv'
    OBVIOUS
  <2>1. CASE UNCHANGED Lru!vars
    BY <2>1 DEF Lru!vars, LRUInv
  <2>2. CASE Lru!Next
    <3>1. PICK k \in Key : Lru!Get(k) \/ Lru!Delete(k) \/ \E size \in 0 .. MaxValue : Lru!Set(k, size)
      BY <2>2 DEF Lru!Next
    <3> QED
      BY <3>1, SetRight, OthersRight
  <2> QED
    BY <2>1, <2>2
<1>3. LRUInv => Lru!SizeRight
  BY DEF LRUInv, Lru!SizeRight, Lru!TotalSize, Lru!Held, Sum, MapThenSumSet, MapThenFoldSet,
         Lru!MapThenSumSet, Lru!MapThenFoldSet
<1>4. LRUInv' => Lru!SizeRight'
  BY <1>3, PTL
<1>5. LRUInv => Lru!LeastRecentGone
  <2> SUFFICES ASSUME LRUInv, NEW k \in Key, NEW size \in 0 .. MaxValue, Lru!Set(k, size),
                      NEW gone \in DOMAIN data \ DOMAIN data',
                      NEW kept \in (DOMAIN data \cap DOMAIN data') \ {k}
               PROVE  <<kept, gone>> \in newer
    BY DEF Lru!LeastRecentGone, Lru!Held
  <2> QED
    BY SetRight
<1>6. LRUInv /\ LRUInv' => [Lru!SizeRight' /\ Lru!LeastRecentGone]_(Lru!vars)
  BY <1>4, <1>5
<1> QED
  BY <1>1, <1>2, <1>6, PTL DEF Lru!Spec, CacheRight, Lru!CacheRight

=============================================================================
