--------------------------- MODULE IndexingProofs ---------------------------
(***************************************************************************)
(* Theorems about the other ways of building the index, for all values of   *)
(* the constants: transactions in lexical order, Decred's votes, the        *)
(* upgrade of old databases, and the files of headers.                      *)
(*                                                                          *)
(* The loops and folds of these modules are recursive functions; that they  *)
(* exist, and what they give, is proved by looking at the least number for  *)
(* which it would not hold.                                                 *)
(***************************************************************************)
EXTENDS MCIndexing, NaturalsInduction, WellFoundedInduction, SequenceTheorems, TLAPS

\* A non-empty set of natural numbers has a least one.
LEMMA LeastNumber ==
    ASSUME NEW T \in SUBSET Nat, T # {}
    PROVE  \E n \in T : \A m \in Nat : m < n => m \notin T
<1>1. \E n \in T : \A m \in T : ~(<<m, n>> \in OpToRel(<, Nat))
  BY NatLessThanWellFounded, WFMin
<1> QED
  BY <1>1 DEF OpToRel

\* A bounded one has a greatest one.
LEMMA GreatestNumber ==
    ASSUME NEW N \in Nat, NEW T \in SUBSET (0 .. N), T # {}
    PROVE  \E n \in T : \A m \in T : m <= n
<1> DEFINE D == { n \in Nat : n <= N /\ N - n \in T }
<1>1. D # {}
  <2> PICK x \in T : TRUE
    OBVIOUS
  <2>1. N - x \in Nat /\ N - x <= N /\ N - (N - x) = x
    OBVIOUS
  <2>2. N - x \in D
    BY <2>1
  <2> QED
    BY <2>2
<1>2. PICK d \in D : \A m \in Nat : m < d => m \notin D
  <2>1. D \in SUBSET Nat
    OBVIOUS
  <2> HIDE DEF D
  <2> QED
    BY <1>1, <2>1, LeastNumber
<1>3. N - d \in T
  OBVIOUS
<1>4. ASSUME NEW m \in T, ~(m <= N - d) PROVE FALSE
  <2>1. N - m \in Nat /\ N - m < d /\ N - m <= N /\ N - (N - m) = m
    BY <1>4
  <2>2. N - m \in D
    BY <2>1
  <2> QED
    BY <1>2, <2>1, <2>2
<1> QED
  BY <1>3, <1>4

-----------------------------------------------------------------------------
(* Transactions in any order.                                               *)

\* g is the function that the recursion of FlattenSeq defines, for the first n of s.
Flattens(s, n, g) ==
    g = [i \in 1 .. n |-> IF i = 1 THEN s[i] ELSE g[i - 1] \o s[i]]

\* Two functions that satisfy the recursion agree where both are defined.
LEMMA FlattensUnique ==
    ASSUME NEW s, NEW n \in Nat, NEW m \in Nat, NEW g, NEW q,
           Flattens(s, n, g), Flattens(s, m, q)
    PROVE  \A i \in 1 .. n : i <= m => g[i] = q[i]
<1> DEFINE T == { i \in Nat : i \in 1 .. n /\ i <= m /\ g[i] # q[i] }
<1> SUFFICES ASSUME T # {} PROVE FALSE
  OBVIOUS
<1>1. PICK i \in T : \A j \in Nat : j < i => j \notin T
  <2> HIDE DEF T
  <2> QED
    BY LeastNumber, T \in SUBSET Nat DEF T
<1>2. i \in 1 .. n /\ i \in 1 .. m /\ g[i] # q[i]
  OBVIOUS
<1>3. i # 1
  BY <1>2 DEF Flattens
<1>4. g[i] = g[i - 1] \o s[i] /\ q[i] = q[i - 1] \o s[i]
  BY <1>2, <1>3 DEF Flattens
<1>5. g[i - 1] = q[i - 1]
  BY <1>1, <1>2, <1>3
<1> QED
  BY <1>2, <1>4, <1>5

\* The recursion defines a function.
LEMMA FlattensExist ==
    ASSUME NEW s
    PROVE  \A n \in Nat : \E g : Flattens(s, n, g)
<1> DEFINE T == { n \in Nat : ~ \E g : Flattens(s, n, g) }
<1> SUFFICES ASSUME T # {} PROVE FALSE
  OBVIOUS
<1>1. PICK n \in T : \A m \in Nat : m < n => m \notin T
  <2> HIDE DEF T
  <2> QED
    BY LeastNumber, T \in SUBSET Nat DEF T
<1>2. n \in Nat /\ ~ \E g : Flattens(s, n, g)
  OBVIOUS
<1>3. n # 0
  <2> DEFINE g == [i \in 1 .. 0 |-> s]
  <2>1. Flattens(s, 0, g)
    BY 1 .. 0 = {} DEF Flattens
  <2> QED
    BY <1>2, <2>1
<1>4. \E g : Flattens(s, n - 1, g)
  BY <1>1, <1>2, <1>3
<1>5. PICK g : Flattens(s, n - 1, g)
  BY <1>4
<1> DEFINE q == [i \in 1 .. n |-> IF i < n THEN g[i] ELSE IF i = 1 THEN s[i] ELSE g[i - 1] \o s[i]]
<1>6. \A i \in 1 .. n : q[i] = IF i = 1 THEN s[i] ELSE q[i - 1] \o s[i]
  <2> SUFFICES ASSUME NEW i \in 1 .. n PROVE q[i] = IF i = 1 THEN s[i] ELSE q[i - 1] \o s[i]
    OBVIOUS
  <2>1. CASE i < n
    <3>1. i \in 1 .. n - 1
      BY <1>2, <2>1
    <3>2. g[i] = IF i = 1 THEN s[i] ELSE g[i - 1] \o s[i]
      BY <1>5, <3>1 DEF Flattens
    <3>3. q[i] = g[i] /\ (i # 1 => q[i - 1] = g[i - 1])
      BY <1>2, <2>1
    <3> QED
      BY <3>2, <3>3
  <2>2. CASE i = n
    <3>1. i # 1 => q[i - 1] = g[i - 1]
      BY <1>2, <2>2
    <3> QED
      BY <2>2, <3>1
  <2> QED
    BY <1>2, <2>1, <2>2
<1>7. Flattens(s, n, q)
  <2>1. q = [i \in 1 .. n |-> q[i]]
    OBVIOUS
  <2> HIDE DEF q
  <2> QED
    BY <1>6, <2>1 DEF Flattens
<1> QED
  BY <1>2, <1>7

LEMMA FlattenIs ==
    ASSUME NEW S, NEW s \in Seq(S), s # <<>>, NEW g, Flattens(s, Len(s), g)
    PROVE  Ltor!FlattenSeq(s) = g[Len(s)]
<1> DEFINE f == CHOOSE q : Flattens(s, Len(s), q)
<1>1. Len(s) \in Nat /\ Len(s) # 0
  BY SMT
<1>2. Flattens(s, Len(s), f)
  BY <1>1
<1>3. Ltor!FlattenSeq(s) = f[Len(s)]
  BY <1>1 DEF Ltor!FlattenSeq, Flattens
<1> HIDE DEF f
<1> QED
  BY <1>1, <1>2, <1>3, FlattensUnique

LEMMA FlattenEmpty ==
    Ltor!FlattenSeq(<<>>) = <<>>
BY DEF Ltor!FlattenSeq

LEMMA FlattenAppend ==
    ASSUME NEW S, NEW s \in Seq(Seq(S)), NEW b \in Seq(S)
    PROVE  Ltor!FlattenSeq(Append(s, b)) = Ltor!FlattenSeq(s) \o b
<1> DEFINE t == Append(s, b)
<1>1. t \in Seq(Seq(S)) /\ Len(t) = Len(s) + 1 /\ t # <<>> /\ Len(s) \in Nat
  <2> DEFINE U == Seq(S)
  <2>1. s \in Seq(U) /\ b \in U
    OBVIOUS
  <2> HIDE DEF U
  <2>2. t \in Seq(U) /\ Len(t) = Len(s) + 1 /\ t # <<>> /\ Len(s) \in Nat
    BY <2>1
  <2> QED
    BY <2>2 DEF U
<1>2. PICK g : Flattens(t, Len(t), g)
  <2> HIDE DEF t
  <2>1. Len(t) \in Nat
    BY <1>1
  <2> QED
    BY <2>1, FlattensExist
<1>3. Ltor!FlattenSeq(t) = g[Len(t)]
  <2> HIDE DEF t
  <2> QED
    BY <1>1, <1>2, FlattenIs
<1>4. t[Len(s) + 1] = b /\ \A i \in 1 .. Len(s) : t[i] = s[i]
  OBVIOUS
<1>5. CASE s = <<>>
  <2>1. g[1] = b
    BY <1>1, <1>2, <1>4, <1>5, Len(s) = 0 DEF Flattens
  <2>2. <<>> \o b = b
    BY SMT
  <2> QED
    BY <1>1, <1>3, <1>5, <2>1, <2>2, FlattenEmpty, Len(s) = 0
<1>6. CASE s # <<>>
  <2>1. Len(s) # 0
    BY <1>6
  <2> DEFINE q == [i \in 1 .. Len(s) |-> g[i]]
  <2>2. \A i \in 1 .. Len(s) : q[i] = IF i = 1 THEN s[i] ELSE q[i - 1] \o s[i]
    <3> SUFFICES ASSUME NEW i \in 1 .. Len(s) PROVE q[i] = IF i = 1 THEN s[i] ELSE q[i - 1] \o s[i]
      OBVIOUS
    <3>1. g[i] = IF i = 1 THEN t[i] ELSE g[i - 1] \o t[i]
      <4> HIDE DEF t
      <4>1. i \in 1 .. Len(t)
        BY <1>1
      <4> QED
        BY <1>2, <4>1 DEF Flattens
    <3>2. q[i] = g[i] /\ (i # 1 => q[i - 1] = g[i - 1])
      BY <1>1
    <3> HIDE DEF t, q
    <3> QED
      BY <1>4, <3>1, <3>2
  <2>3. Flattens(s, Len(s), q)
    <3>1. q = [i \in 1 .. Len(s) |-> q[i]]
      OBVIOUS
    <3> HIDE DEF q
    <3> QED
      BY <2>2, <3>1 DEF Flattens
  <2>4. Ltor!FlattenSeq(s) = q[Len(s)]
    <3> HIDE DEF q
    <3> QED
      BY <1>6, <2>3, FlattenIs
  <2>5. q[Len(s)] = g[Len(s)]
    BY <1>1, <2>1
  <2>6. g[Len(t)] = g[Len(s)] \o b
    <3> HIDE DEF t
    <3> DEFINE k == Len(t)
    <3>1. k \in 1 .. k /\ k # 1 /\ k - 1 = Len(s) /\ t[k] = b
      BY <1>1, <1>4, <2>1
    <3>2. g[k] = g[k - 1] \o t[k]
      BY <1>2, <3>1 DEF Flattens
    <3> QED
      BY <3>1, <3>2
  <2> QED
    BY <1>3, <2>4, <2>5, <2>6
<1> QED
  BY <1>5, <1>6

LEMMA ToSetConcat ==
    ASSUME NEW S, NEW a \in Seq(S), NEW b \in Seq(S)
    PROVE  Ltor!ToSet(a \o b) = Ltor!ToSet(a) \cup Ltor!ToSet(b)
<1>1. /\ Len(a) \in Nat /\ Len(b) \in Nat /\ DOMAIN a = 1 .. Len(a) /\ DOMAIN b = 1 .. Len(b)
      /\ DOMAIN (a \o b) = 1 .. Len(a) + Len(b)
      /\ \A i \in 1 .. Len(a) : (a \o b)[i] = a[i]
      /\ \A i \in 1 .. Len(b) : (a \o b)[Len(a) + i] = b[i]
  BY SMT
<1> DEFINE c == a \o b
<1> HIDE DEF c
<1>2. ASSUME NEW x \in Ltor!ToSet(c) PROVE x \in Ltor!ToSet(a) \cup Ltor!ToSet(b)
  <2>1. PICK i \in 1 .. Len(a) + Len(b) : x = c[i]
    BY <1>1 DEF Ltor!ToSet, c
  <2>2. CASE i <= Len(a)
    BY <1>1, <2>1, <2>2 DEF Ltor!ToSet, c
  <2>3. CASE i > Len(a)
    <3>1. i - Len(a) \in 1 .. Len(b) /\ Len(a) + (i - Len(a)) = i
      BY <1>1, <2>3
    <3>2. c[i] = b[i - Len(a)]
      BY <1>1, <3>1 DEF c
    <3> QED
      BY <1>1, <2>1, <3>1, <3>2 DEF Ltor!ToSet
  <2> QED
    BY <1>1, <2>2, <2>3
<1>3. ASSUME NEW x \in Ltor!ToSet(a) PROVE x \in Ltor!ToSet(c)
  <2>1. PICK i \in 1 .. Len(a) : x = a[i]
    BY <1>1 DEF Ltor!ToSet
  <2>2. i \in 1 .. Len(a) + Len(b) /\ c[i] = x
    BY <1>1, <2>1 DEF c
  <2> QED
    BY <1>1, <2>2 DEF Ltor!ToSet, c
<1>4. ASSUME NEW x \in Ltor!ToSet(b) PROVE x \in Ltor!ToSet(c)
  <2>1. PICK i \in 1 .. Len(b) : x = b[i]
    BY <1>1 DEF Ltor!ToSet
  <2>2. Len(a) + i \in 1 .. Len(a) + Len(b) /\ c[Len(a) + i] = x
    BY <1>1, <2>1 DEF c
  <2> QED
    BY <1>1, <2>2 DEF Ltor!ToSet, c
<1> QED
  BY <1>2, <1>3, <1>4 DEF c

LEMMA SeqWider ==
    ASSUME NEW U, NEW e \in Seq(U), NEW S, \A i \in DOMAIN e : e[i] \in S
    PROVE  e \in Seq(S)
<1>1. Len(e) \in Nat /\ DOMAIN e = 1 .. Len(e) /\ e = [i \in 1 .. Len(e) |-> e[i]]
  OBVIOUS
<1>2. \A i \in 1 .. Len(e) : e[i] \in S
  BY <1>1
<1>3. e \in [1 .. Len(e) -> S]
  BY <1>1, <1>2
<1> QED
  BY <1>1, <1>3

\* x is in one of the sequences.
InSome(s, x) == \E k \in DOMAIN s : x \in Ltor!ToSet(s[k])

\* What is in a flattened sequence.
LEMMA FlattenRange ==
    ASSUME NEW S
    PROVE  \A s \in Seq(Seq(S)) : /\ Ltor!FlattenSeq(s) \in Seq(S)
                                  /\ \A x : x \in Ltor!ToSet(Ltor!FlattenSeq(s)) <=> InSome(s, x)
<1> DEFINE U == Seq(S)
           Holds(s) == Ltor!FlattenSeq(s) \in U /\ \A x : x \in Ltor!ToSet(Ltor!FlattenSeq(s)) <=> InSome(s, x)
           T == { n \in Nat : \E s \in Seq(U) : Len(s) = n /\ ~Holds(s) }
<1> SUFFICES ASSUME T # {} PROVE FALSE
  <2>1. ASSUME NEW s \in Seq(U), ~Holds(s) PROVE Len(s) \in T
    <3> HIDE DEF Holds, U
    <3>1. Len(s) \in Nat
      OBVIOUS
    <3> QED
      BY <2>1, <3>1
  <2> QED
    BY <2>1
<1>1. PICK n \in T : \A m \in Nat : m < n => m \notin T
  <2>1. T \in SUBSET Nat
    OBVIOUS
  <2> HIDE DEF T
  <2> QED
    BY LeastNumber, <2>1
<1>2. PICK s \in Seq(U) : Len(s) = n /\ ~Holds(s)
  OBVIOUS
<1>3. s # <<>>
  <2> SUFFICES ASSUME s = <<>> PROVE Holds(s)
    BY <1>2
  <2>1. Ltor!FlattenSeq(s) = <<>> /\ DOMAIN s = {}
    BY FlattenEmpty
  <2>2. <<>> \in U
    OBVIOUS
  <2>3. Ltor!ToSet(<<>>) = {}
    BY DOMAIN <<>> = {} DEF Ltor!ToSet
  <2>4. \A x : ~InSome(s, x)
    BY <2>1 DEF InSome
  <2> HIDE DEF U
  <2> QED
    BY <2>1, <2>2, <2>3, <2>4
<1>4. PICK t \in Seq(U), e \in U : s = Append(t, e)
  <2> HIDE DEF U
  <2> QED
    BY <1>3, SequenceEmptyOrAppend
<1>5. /\ Len(t) \in Nat /\ Len(s) = Len(t) + 1 /\ DOMAIN t = 1 .. Len(t) /\ DOMAIN s = 1 .. Len(t) + 1
      /\ s[Len(t) + 1] = e /\ \A i \in 1 .. Len(t) : s[i] = t[i]
  <2> HIDE DEF U
  <2> QED
    BY <1>4
<1>6. Holds(t)
  <2> HIDE DEF Holds, U
  <2>1. Len(t) \in Nat /\ Len(t) < n
    BY <1>2, <1>5
  <2> QED
    BY <1>1, <2>1
<1>7. Ltor!FlattenSeq(s) = Ltor!FlattenSeq(t) \o e
  BY <1>4, FlattenAppend
<1> DEFINE f == Ltor!FlattenSeq(t)
<1>8. f \in Seq(S) /\ e \in Seq(S) /\ \A x : x \in Ltor!ToSet(f) <=> InSome(t, x)
  BY <1>6
<1> HIDE DEF f
<1>9. f \o e \in Seq(S) /\ Ltor!ToSet(f \o e) = Ltor!ToSet(f) \cup Ltor!ToSet(e)
  BY <1>8, ToSetConcat
<1> HIDE DEF U, T
<1>10. \A x : InSome(s, x) <=> InSome(t, x) \/ x \in Ltor!ToSet(e)
  <2>1. ASSUME NEW x, NEW k \in DOMAIN s, x \in Ltor!ToSet(s[k]) PROVE InSome(t, x) \/ x \in Ltor!ToSet(e)
    <3>1. CASE k = Len(t) + 1
      BY <1>5, <2>1, <3>1
    <3>2. CASE k # Len(t) + 1
      <4>1. k \in DOMAIN t /\ x \in Ltor!ToSet(t[k])
        BY <1>5, <2>1, <3>2
      <4> QED
        BY <4>1 DEF InSome
    <3> QED
      BY <3>1, <3>2
  <2>2. ASSUME NEW x, NEW k \in DOMAIN t, x \in Ltor!ToSet(t[k]) PROVE InSome(s, x)
    <3>1. k \in DOMAIN s /\ x \in Ltor!ToSet(s[k])
      BY <1>5, <2>2
    <3> QED
      BY <3>1 DEF InSome
  <2>3. ASSUME NEW x \in Ltor!ToSet(e) PROVE InSome(s, x)
    <3>1. Len(t) + 1 \in DOMAIN s /\ x \in Ltor!ToSet(s[Len(t) + 1])
      BY <1>5, <2>3
    <3> QED
      BY <3>1 DEF InSome
  <2> QED
    BY <2>1, <2>2, <2>3 DEF InSome
<1>11. \A x : x \in Ltor!ToSet(f \o e) <=> InSome(s, x)
  BY <1>8, <1>9, <1>10
<1>12. Holds(s)
  BY <1>7, <1>9, <1>11 DEF f, U
<1> HIDE DEF Holds
<1> QED
  BY <1>2, <1>12

-----------------------------------------------------------------------------
(* Transactions and their coins.                                            *)

TxIds == DOMAIN Tx
Blocks_ == Seq(TxIds)
Spent(txs) == UNION {Ltor!ToSet(Tx[txs[k]].ins) : k \in DOMAIN txs}

LEMMA TxsAppend ==
    ASSUME NEW c \in Seq(Seq(TxIds)), NEW b \in Seq(TxIds)
    PROVE  Ltor!TxsOf(c) \in Seq(TxIds) /\ Ltor!TxsOf(Append(c, b)) = Ltor!TxsOf(c) \o b
BY FlattenAppend, FlattenRange DEF Ltor!TxsOf

LEMMA InputsAre ==
    ASSUME Ltor!LTORAssumption, NEW txs \in Seq(TxIds)
    PROVE  /\ Ltor!ToSet(Ltor!Inputs(txs)) = Spent(txs)
           /\ Ltor!Inputs(txs) \in Seq(Spent(txs))
<1> DEFINE s == [k \in DOMAIN txs |-> Tx[txs[k]].ins]
           S == Spent(txs)
<1>1. \A k \in DOMAIN txs : s[k] \in Seq(S)
  <2> SUFFICES ASSUME NEW k \in DOMAIN txs PROVE Tx[txs[k]].ins \in Seq(S)
    OBVIOUS
  <2> DEFINE e == Tx[txs[k]].ins
  <2>1. txs[k] \in TxIds
    OBVIOUS
  <2>2. e \in Seq(Ltor!ToSet(e))
    BY <2>1 DEF Ltor!LTORAssumption, TxIds
  <2>3. Ltor!ToSet(e) \subseteq S
    BY DEF Spent
  <2> HIDE DEF e, S
  <2>4. \A i \in DOMAIN e : e[i] \in S
    BY <2>3 DEF Ltor!ToSet
  <2>5. e \in Seq(S)
    BY <2>2, <2>4, SeqWider
  <2> QED
    BY <2>5 DEF e
<1>2. s \in Seq(Seq(S))
  <2> DEFINE U == Seq(S)
  <2>1. DOMAIN txs = 1 .. Len(txs) /\ Len(txs) \in Nat
    OBVIOUS
  <2>2. \A k \in 1 .. Len(txs) : s[k] \in U
    BY <1>1, <2>1
  <2>3. s = [k \in 1 .. Len(txs) |-> s[k]]
    BY <2>1
  <2> HIDE DEF U, s
  <2>4. s \in Seq(U)
    BY <2>1, <2>2, <2>3
  <2> QED
    BY <2>4 DEF U
<1>3. Ltor!Inputs(txs) = Ltor!FlattenSeq(s)
  BY DEF Ltor!Inputs
<1>4. Ltor!FlattenSeq(s) \in Seq(S) /\ \A x : x \in Ltor!ToSet(Ltor!FlattenSeq(s)) <=> InSome(s, x)
  <2> HIDE DEF s, S
  <2> QED
    BY <1>2, FlattenRange
<1>5. \A x : InSome(s, x) <=> x \in Spent(txs)
  BY DEF Spent, InSome
<1> HIDE DEF s
<1> QED
  BY <1>3, <1>4, <1>5

LEMMA MadeFrom ==
    ASSUME NEW txs, NEW o
    PROVE  o \in Ltor!MadeIn(txs) <=> o[1] \in Ltor!ToSet(txs) /\ o \in Ltor!Made(o[1])
<1>1. \A t : o \in Ltor!Made(t) => o[1] = t
  BY DEF Ltor!Made
<1> QED
  BY <1>1 DEF Ltor!MadeIn, Ltor!ToSet

LEMMA SpentFrom ==
    ASSUME NEW txs, NEW o
    PROVE  o \in Spent(txs) <=> \E t \in Ltor!ToSet(txs) : o \in Ltor!ToSet(Tx[t].ins)
BY DEF Spent, Ltor!ToSet

LEMMA Joins ==
    ASSUME NEW a \in Seq(TxIds), NEW b \in Seq(TxIds)
    PROVE  /\ a \o b \in Seq(TxIds) /\ Len(a \o b) = Len(a) + Len(b)
           /\ Ltor!ToSet(a \o b) = Ltor!ToSet(a) \cup Ltor!ToSet(b)
           /\ Ltor!MadeIn(a \o b) = Ltor!MadeIn(a) \cup Ltor!MadeIn(b)
           /\ Spent(a \o b) = Spent(a) \cup Spent(b)
<1>1. Ltor!ToSet(a \o b) = Ltor!ToSet(a) \cup Ltor!ToSet(b)
  BY ToSetConcat
<1>2. Ltor!MadeIn(a \o b) = Ltor!MadeIn(a) \cup Ltor!MadeIn(b)
  BY <1>1, MadeFrom
<1>3. Spent(a \o b) = Spent(a) \cup Spent(b)
  BY <1>1, SpentFrom
<1> QED
  BY <1>1, <1>2, <1>3

LEMMA JoinInjective ==
    ASSUME NEW a \in Seq(TxIds), NEW b \in Seq(TxIds)
    PROVE  Ltor!IsInjective(a \o b) <=> Ltor!IsInjective(a) /\ Ltor!IsInjective(b) /\ Ltor!ToSet(a) \cap Ltor!ToSet(b) = {}
<1> DEFINE c == a \o b
<1>1. /\ Len(a) \in Nat /\ Len(b) \in Nat /\ DOMAIN a = 1 .. Len(a) /\ DOMAIN b = 1 .. Len(b)
      /\ DOMAIN c = 1 .. Len(a) + Len(b)
      /\ \A i \in 1 .. Len(a) : c[i] = a[i]
      /\ \A i \in 1 .. Len(b) : c[Len(a) + i] = b[i]
  BY SMT
<1> HIDE DEF c
<1>2. ASSUME Ltor!IsInjective(c) PROVE Ltor!IsInjective(a) /\ Ltor!IsInjective(b) /\ Ltor!ToSet(a) \cap Ltor!ToSet(b) = {}
  <2>1. \A i, j \in 1 .. Len(a) + Len(b) : c[i] = c[j] => i = j
    BY <1>1, <1>2 DEF Ltor!IsInjective
  <2>2. \A i, j \in 1 .. Len(a) : a[i] = a[j] => i = j
    BY <1>1, <2>1
  <2>3. \A i, j \in 1 .. Len(b) : b[i] = b[j] => i = j
    <3> SUFFICES ASSUME NEW i \in 1 .. Len(b), NEW j \in 1 .. Len(b), b[i] = b[j] PROVE i = j
      OBVIOUS
    <3>1. Len(a) + i \in 1 .. Len(a) + Len(b) /\ Len(a) + j \in 1 .. Len(a) + Len(b)
      BY <1>1
    <3>2. Len(a) + i = Len(a) + j
      BY <1>1, <2>1, <3>1
    <3> QED
      BY <1>1, <3>2
  <2>4. \A i \in 1 .. Len(a), j \in 1 .. Len(b) : a[i] # b[j]
    <3> SUFFICES ASSUME NEW i \in 1 .. Len(a), NEW j \in 1 .. Len(b), a[i] = b[j] PROVE FALSE
      OBVIOUS
    <3>1. i \in 1 .. Len(a) + Len(b) /\ Len(a) + j \in 1 .. Len(a) + Len(b) /\ i # Len(a) + j
      BY <1>1
    <3> QED
      BY <1>1, <2>1, <3>1
  <2> QED
    BY <1>1, <2>2, <2>3, <2>4 DEF Ltor!IsInjective, Ltor!ToSet
<1>3. ASSUME Ltor!IsInjective(a), Ltor!IsInjective(b), Ltor!ToSet(a) \cap Ltor!ToSet(b) = {} PROVE Ltor!IsInjective(c)
  <2> SUFFICES ASSUME NEW i \in 1 .. Len(a) + Len(b), NEW j \in 1 .. Len(a) + Len(b), c[i] = c[j] PROVE i = j
    BY <1>1 DEF Ltor!IsInjective
  <2>1. \A k \in 1 .. Len(a) + Len(b) : k > Len(a) => k - Len(a) \in 1 .. Len(b) /\ c[k] = b[k - Len(a)]
    <3> SUFFICES ASSUME NEW k \in 1 .. Len(a) + Len(b), k > Len(a)
                 PROVE  k - Len(a) \in 1 .. Len(b) /\ c[k] = b[k - Len(a)]
      OBVIOUS
    <3>1. k - Len(a) \in 1 .. Len(b) /\ Len(a) + (k - Len(a)) = k
      BY <1>1
    <3> QED
      BY <1>1, <3>1
  <2>2. CASE i <= Len(a) /\ j <= Len(a)
    BY <1>1, <1>3, <2>2 DEF Ltor!IsInjective
  <2>3. CASE i > Len(a) /\ j > Len(a)
    <3>1. /\ i - Len(a) \in DOMAIN b /\ j - Len(a) \in DOMAIN b
          /\ b[i - Len(a)] = b[j - Len(a)]
      BY <1>1, <2>1, <2>3
    <3>2. i - Len(a) = j - Len(a)
      BY <1>3, <3>1 DEF Ltor!IsInjective
    <3> QED
      BY <1>1, <3>2
  <2>4. CASE i <= Len(a) /\ j > Len(a)
    <3>1. /\ i \in DOMAIN a /\ j - Len(a) \in DOMAIN b
          /\ a[i] = b[j - Len(a)]
      BY <1>1, <2>1, <2>4
    <3> QED
      BY <1>3, <3>1 DEF Ltor!ToSet
  <2>5. CASE i > Len(a) /\ j <= Len(a)
    <3>1. /\ j \in DOMAIN a /\ i - Len(a) \in DOMAIN b
          /\ a[j] = b[i - Len(a)]
      BY <1>1, <2>1, <2>5
    <3> QED
      BY <1>3, <3>1 DEF Ltor!ToSet
  <2> QED
    BY <1>1, <2>2, <2>3, <2>4, <2>5
<1> QED
  BY <1>2, <1>3 DEF c

\* The place of a transaction.
LEMMA Place ==
    ASSUME NEW s, Ltor!IsInjective(s), NEW k \in DOMAIN s
    PROVE  (CHOOSE j \in DOMAIN s : s[j] = s[k]) = k
BY DEF Ltor!IsInjective

LEMMA EntryLeft ==
    ASSUME NEW a \in Seq(TxIds), NEW b \in Seq(TxIds), Ltor!IsInjective(a \o b), NEW o, o[1] \in Ltor!ToSet(a)
    PROVE  Ltor!Entry(a \o b, 0, o) = Ltor!Entry(a, 0, o)
<1> DEFINE c == a \o b
<1>1. PICK k \in DOMAIN a : a[k] = o[1]
  BY DEF Ltor!ToSet
<1>2. k \in DOMAIN c /\ c[k] = o[1]
  BY <1>1
<1>3. Ltor!IsInjective(a) /\ Ltor!IsInjective(c)
  BY JoinInjective
<1> HIDE DEF c
<1>4. (CHOOSE j \in DOMAIN a : a[j] = o[1]) = k /\ (CHOOSE j \in DOMAIN c : c[j] = o[1]) = k
  BY <1>1, <1>2, <1>3, Place
<1>5. Ltor!Entry(c, 0, o) = Ltor!Entry(a, 0, o)
  BY <1>4 DEF Ltor!Entry
<1> QED
  BY <1>5 DEF c

LEMMA EntryRight ==
    ASSUME NEW a \in Seq(TxIds), NEW b \in Seq(TxIds), Ltor!IsInjective(a \o b), NEW o, o[1] \in Ltor!ToSet(b)
    PROVE  Ltor!Entry(a \o b, 0, o) = Ltor!Entry(b, Len(a), o)
<1> DEFINE c == a \o b
<1>1. PICK k \in DOMAIN b : b[k] = o[1]
  BY DEF Ltor!ToSet
<1>2. k \in Nat /\ Len(a) \in Nat /\ Len(a) + k \in DOMAIN c /\ c[Len(a) + k] = o[1]
  BY <1>1
<1>3. Ltor!IsInjective(b) /\ Ltor!IsInjective(c)
  BY JoinInjective
<1> HIDE DEF c
<1>4. (CHOOSE j \in DOMAIN b : b[j] = o[1]) = k /\ (CHOOSE j \in DOMAIN c : c[j] = o[1]) = Len(a) + k
  BY <1>1, <1>2, <1>3, Place
<1>5. 0 + (Len(a) + k) - 1 = Len(a) + k - 1
  BY <1>2
<1>6. Ltor!Entry(c, 0, o) = Ltor!Entry(b, Len(a), o)
  BY <1>4, <1>5 DEF Ltor!Entry
<1> QED
  BY <1>6 DEF c

-----------------------------------------------------------------------------
(* Chains.                                                                  *)

At(c, b) == SubSeq(c, 1, b)
Chains == Seq(Seq(TxIds))

\* No transaction twice, and what is spent was made.
Sound(txs) == Ltor!IsInjective(txs) /\ Spent(txs) \subseteq Ltor!MadeIn(txs)

\* A block spends what those before it leave, or what it makes.
Follows(before, txs) == Spent(txs) \subseteq (Ltor!MadeIn(before) \ Spent(before)) \cup Ltor!MadeIn(txs)

GoodChain(c) ==
    /\ c \in Chains
    /\ \A b \in 0 .. Len(c) : Sound(Ltor!TxsOf(At(c, b)))
    /\ \A b \in 1 .. Len(c) : Follows(Ltor!TxsOf(At(c, b - 1)), c[b])

UndoOf(c, b) == [i \in DOMAIN Ltor!Inputs(c[b]) |-> Ltor!Entry(Ltor!TxsOf(At(c, b)), 0, Ltor!Inputs(c[b])[i])]

LEMMA Ats ==
    ASSUME NEW U, NEW c \in Seq(U)
    PROVE  /\ Len(c) \in Nat /\ DOMAIN c = 1 .. Len(c)
           /\ At(c, Len(c)) = c
           /\ \A b \in 0 .. Len(c) : At(c, b) \in Seq(U) /\ At(c, b) = [i \in 1 .. b |-> c[i]]
<1>1. Len(c) \in Nat /\ DOMAIN c = 1 .. Len(c)
  OBVIOUS
<1>2. At(c, Len(c)) = c
  BY SubSeqFull DEF At
<1>3. ASSUME NEW b \in 0 .. Len(c)
      PROVE  At(c, b) \in Seq(U) /\ At(c, b) = [i \in 1 .. b |-> c[i]]
  <2>1. (\A i \in 1 .. b : c[i] \in U) /\ b \in Int /\ 1 \in Int
    BY <1>1
  <2>2. /\ At(c, b) \in Seq(U) /\ Len(At(c, b)) = b
        /\ \A i \in 1 .. b : At(c, b)[i] = c[i]
    BY <1>1, <2>1, SubSeqProperties DEF At
  <2> QED
    BY <2>2
<1> QED
  BY <1>1, <1>2, <1>3

LEMMA AtAppend ==
    ASSUME NEW U, NEW c \in Seq(U), NEW x \in U, NEW b \in 0 .. Len(c)
    PROVE  At(Append(c, x), b) = At(c, b)
<1> DEFINE d == Append(c, x)
<1>1. d \in Seq(U) /\ Len(c) \in Nat /\ Len(d) = Len(c) + 1 /\ \A i \in 1 .. Len(c) : d[i] = c[i]
  OBVIOUS
<1> HIDE DEF d
<1>2. b \in 0 .. Len(d)
  BY <1>1
<1>3. At(d, b) = [i \in 1 .. b |-> d[i]] /\ At(c, b) = [i \in 1 .. b |-> c[i]]
  BY <1>1, <1>2, Ats
<1>4. At(d, b) = At(c, b)
  BY <1>1, <1>3
<1> QED
  BY <1>4 DEF d

LEMMA FrontLast ==
    ASSUME NEW U, NEW c \in Seq(U), c # <<>>
    PROVE  /\ Len(c) \in Nat /\ Len(c) # 0
           /\ Ltor!Front(c) \in Seq(U) /\ Len(Ltor!Front(c)) = Len(c) - 1 /\ Ltor!Last(c) \in U
           /\ c = Append(Ltor!Front(c), Ltor!Last(c)) /\ Ltor!Front(c) = At(c, Len(c) - 1)
           /\ \A b \in 0 .. Len(c) - 1 : At(Ltor!Front(c), b) = At(c, b)
<1>1. Len(c) \in Nat /\ Len(c) # 0 /\ Len(c) \in 1 .. Len(c) /\ Len(c) - 1 \in 0 .. Len(c)
  OBVIOUS
<1>2. Ltor!Front(c) = At(c, Len(c) - 1)
  BY DEF Ltor!Front, At
<1>3. Ltor!Front(c) \in Seq(U) /\ Ltor!Front(c) = [i \in 1 .. Len(c) - 1 |-> c[i]]
  BY <1>1, <1>2, Ats
<1>4. Len(Ltor!Front(c)) = Len(c) - 1
  BY <1>1, <1>3
<1>5. Ltor!Last(c) \in U /\ Ltor!Last(c) = c[Len(c)]
  BY <1>1 DEF Ltor!Last
<1> DEFINE f == Ltor!Front(c)
           l == Ltor!Last(c)
           d == Append(f, l)
<1> HIDE DEF f, l
<1>6. /\ d \in Seq(U) /\ Len(d) = Len(c) /\ d[Len(c)] = l
      /\ \A i \in 1 .. Len(c) - 1 : d[i] = f[i]
  BY <1>1, <1>3, <1>4, <1>5 DEF f, l
<1>7. d = c
  <2> HIDE DEF d
  <2>1. \A i \in 1 .. Len(c) : d[i] = c[i]
    <3> SUFFICES ASSUME NEW i \in 1 .. Len(c) PROVE d[i] = c[i]
      OBVIOUS
    <3>1. CASE i = Len(c)
      BY <1>5, <1>6, <3>1 DEF l
    <3>2. CASE i # Len(c)
      <4>1. i \in 1 .. Len(c) - 1
        BY <1>1, <3>2
      <4> QED
        BY <1>3, <1>6, <4>1 DEF f
    <3> QED
      BY <3>1, <3>2
  <2> QED
    BY <1>6, <2>1, SeqEqual
<1>8. ASSUME NEW b \in 0 .. Len(c) - 1 PROVE At(f, b) = At(c, b)
  <2>1. f \in Seq(U) /\ b \in 0 .. Len(f)
    BY <1>3, <1>4 DEF f
  <2>2. At(Append(f, l), b) = At(f, b)
    BY <1>5, <2>1, AtAppend DEF l
  <2> QED
    BY <1>7, <2>2
<1> QED
  BY <1>1, <1>2, <1>3, <1>4, <1>5, <1>7, <1>8 DEF f, l

LEMMA GoodAppend ==
    ASSUME NEW c, GoodChain(c), NEW txs \in Seq(TxIds),
           Sound(Ltor!TxsOf(c) \o txs), Follows(Ltor!TxsOf(c), txs)
    PROVE  /\ GoodChain(Append(c, txs))
           /\ Ltor!TxsOf(Append(c, txs)) = Ltor!TxsOf(c) \o txs
           /\ \A b \in 1 .. Len(c) : UndoOf(Append(c, txs), b) = UndoOf(c, b)
<1> DEFINE d == Append(c, txs)
           U == Seq(TxIds)
<1>1. c \in Seq(U) /\ txs \in U
  BY DEF GoodChain, Chains
<1>2. Ltor!TxsOf(d) = Ltor!TxsOf(c) \o txs
  BY TxsAppend DEF GoodChain, Chains
<1> HIDE DEF U
<1>3. /\ d \in Seq(U) /\ Len(c) \in Nat /\ Len(d) = Len(c) + 1
      /\ d[Len(c) + 1] = txs /\ \A b \in 1 .. Len(c) : d[b] = c[b]
  BY <1>1
<1>4. /\ \A b \in 0 .. Len(c) : At(d, b) = At(c, b)
      /\ At(d, Len(c) + 1) = d /\ At(c, Len(c)) = c
  <2>1. \A b \in 0 .. Len(c) : At(d, b) = At(c, b)
    BY <1>1, AtAppend
  <2> HIDE DEF d
  <2>2. At(d, Len(d)) = d /\ At(c, Len(c)) = c
    BY <1>1, <1>3, Ats
  <2> QED
    BY <1>3, <2>1, <2>2
<1> HIDE DEF d
<1>5. ASSUME NEW b \in 0 .. Len(d) PROVE Sound(Ltor!TxsOf(At(d, b)))
  <2>1. CASE b = Len(c) + 1
    BY <1>2, <1>4, <2>1
  <2>2. CASE b # Len(c) + 1
    <3>1. b \in 0 .. Len(c)
      BY <1>3, <2>2
    <3> QED
      BY <1>4, <3>1 DEF GoodChain
  <2> QED
    BY <2>1, <2>2
<1>6. ASSUME NEW b \in 1 .. Len(d) PROVE Follows(Ltor!TxsOf(At(d, b - 1)), d[b])
  <2>1. CASE b = Len(c) + 1
    <3>1. b - 1 = Len(c) /\ b - 1 \in 0 .. Len(c)
      BY <1>3, <2>1
    <3> QED
      BY <1>3, <1>4, <2>1, <3>1
  <2>2. CASE b # Len(c) + 1
    <3>1. b \in 1 .. Len(c) /\ b - 1 \in 0 .. Len(c)
      BY <1>3, <2>2
    <3> QED
      BY <1>3, <1>4, <3>1 DEF GoodChain
  <2> QED
    BY <2>1, <2>2
<1>7. ASSUME NEW b \in 1 .. Len(c) PROVE UndoOf(d, b) = UndoOf(c, b)
  <2>1. b \in 0 .. Len(c)
    BY <1>3
  <2> QED
    BY <1>3, <1>4, <2>1 DEF UndoOf
<1>8. GoodChain(d)
  BY <1>3, <1>5, <1>6 DEF GoodChain, Chains, U
<1> QED
  BY <1>2, <1>7, <1>8 DEF d

LEMMA GoodFront ==
    ASSUME NEW c, GoodChain(c), c # <<>>
    PROVE  LET a == Ltor!TxsOf(Ltor!Front(c))
               b == Ltor!Last(c)
           IN  /\ GoodChain(Ltor!Front(c)) /\ Len(c) \in Nat /\ Len(Ltor!Front(c)) = Len(c) - 1
               /\ a \in Seq(TxIds) /\ b \in Seq(TxIds) /\ Ltor!TxsOf(c) = a \o b
               /\ Sound(a) /\ Sound(a \o b) /\ Follows(a, b)
               /\ At(c, Len(c)) = c /\ c[Len(c)] = b
               /\ \A k \in 1 .. Len(c) - 1 : UndoOf(Ltor!Front(c), k) = UndoOf(c, k)
<1> DEFINE U == Seq(TxIds)
<1>1. c \in Seq(U)
  BY DEF GoodChain, Chains
<1> DEFINE f == Ltor!Front(c)
           l == Ltor!Last(c)
<1>2. /\ Len(c) \in Nat /\ Len(c) # 0 /\ f \in Seq(U) /\ Len(f) = Len(c) - 1 /\ l \in U
      /\ c = Append(f, l) /\ f = At(c, Len(c) - 1) /\ l = c[Len(c)]
      /\ \A b \in 0 .. Len(c) - 1 : At(f, b) = At(c, b)
  <2> HIDE DEF U
  <2> QED
    BY <1>1, FrontLast DEF Ltor!Last
<1>3. At(c, Len(c)) = c
  <2> HIDE DEF U
  <2> QED
    BY <1>1, Ats
<1> HIDE DEF f, l
<1>4. Ltor!TxsOf(f) \in U /\ Ltor!TxsOf(c) = Ltor!TxsOf(f) \o l
  BY <1>2, TxsAppend
<1> HIDE DEF U
<1>5. \A b \in 1 .. Len(c) - 1 : f[b] = c[b]
  <2>1. Len(c) - 1 \in 0 .. Len(c)
    BY <1>2
  <2>2. f = [i \in 1 .. Len(c) - 1 |-> c[i]]
    BY <1>1, <1>2, <2>1, Ats
  <2> QED
    BY <2>2
<1>6. Sound(Ltor!TxsOf(f)) /\ Sound(Ltor!TxsOf(c)) /\ Follows(Ltor!TxsOf(f), l)
  <2>1. Len(c) - 1 \in 0 .. Len(c) /\ Len(c) \in 0 .. Len(c) /\ Len(c) \in 1 .. Len(c)
    BY <1>2
  <2> QED
    BY <1>2, <1>3, <2>1 DEF GoodChain
<1>7. GoodChain(f)
  <2>1. ASSUME NEW b \in 0 .. Len(f) PROVE Sound(Ltor!TxsOf(At(f, b)))
    <3>1. b \in 0 .. Len(c) - 1 /\ b \in 0 .. Len(c)
      BY <1>2
    <3> QED
      BY <1>2, <3>1 DEF GoodChain
  <2>2. ASSUME NEW b \in 1 .. Len(f) PROVE Follows(Ltor!TxsOf(At(f, b - 1)), f[b])
    <3>1. b \in 1 .. Len(c) - 1 /\ b \in 1 .. Len(c) /\ b - 1 \in 0 .. Len(c) - 1
      BY <1>2
    <3>2. At(f, b - 1) = At(c, b - 1) /\ f[b] = c[b]
      BY <1>2, <1>5, <3>1
    <3> QED
      BY <3>1, <3>2 DEF GoodChain
  <2> QED
    BY <1>2, <2>1, <2>2 DEF GoodChain, Chains, U
<1>8. ASSUME NEW k \in 1 .. Len(c) - 1 PROVE UndoOf(f, k) = UndoOf(c, k)
  <2>1. k \in 0 .. Len(c) - 1
    BY <1>2
  <2> QED
    BY <1>2, <1>5, <2>1 DEF UndoOf
<1> QED
  BY <1>2, <1>3, <1>4, <1>6, <1>7, <1>8 DEF f, l, U

-----------------------------------------------------------------------------
(* Coins.                                                                   *)

Coins(txs) == [o \in Ltor!MadeIn(txs) \ Spent(txs) |-> Ltor!Entry(txs, 0, o)]

LEMMA Apart ==
    ASSUME NEW a \in Seq(TxIds), NEW b \in Seq(TxIds), Sound(a), Sound(a \o b)
    PROVE  /\ Ltor!ToSet(a) \cap Ltor!ToSet(b) = {} /\ Ltor!MadeIn(a) \cap Ltor!MadeIn(b) = {}
           /\ \A o \in Ltor!MadeIn(a) : Ltor!Entry(a \o b, 0, o) = Ltor!Entry(a, 0, o)
           /\ \A o \in Ltor!MadeIn(b) : Ltor!Entry(a \o b, 0, o) = Ltor!Entry(b, Len(a), o)
<1>1. Ltor!IsInjective(a \o b)
  BY DEF Sound
<1>2. Ltor!ToSet(a) \cap Ltor!ToSet(b) = {}
  BY <1>1, JoinInjective
<1>3. Ltor!MadeIn(a) \cap Ltor!MadeIn(b) = {}
  BY <1>2, MadeFrom
<1>4. \A o \in Ltor!MadeIn(a) : Ltor!Entry(a \o b, 0, o) = Ltor!Entry(a, 0, o)
  BY <1>1, MadeFrom, EntryLeft
<1>5. \A o \in Ltor!MadeIn(b) : Ltor!Entry(a \o b, 0, o) = Ltor!Entry(b, Len(a), o)
  BY <1>1, MadeFrom, EntryRight
<1> QED
  BY <1>2, <1>3, <1>4, <1>5

\* advance_txs: the outputs first.
LEMMA OutputsAdded ==
    ASSUME NEW a \in Seq(TxIds), NEW b \in Seq(TxIds), Sound(a), Sound(a \o b), Follows(a, b)
    PROVE  LET added == Ltor!WithOutputs(Coins(a), b, Len(a))
           IN  /\ DOMAIN added = Ltor!MadeIn(b) \cup (Ltor!MadeIn(a) \ Spent(a))
               /\ Spent(b) \subseteq DOMAIN added
               /\ \A o \in DOMAIN added : added[o] = Ltor!Entry(a \o b, 0, o)
               /\ Ltor!Without(added, Spent(b)) = Coins(a \o b)
<1> DEFINE added == Ltor!WithOutputs(Coins(a), b, Len(a))
           c == a \o b
<1>1. /\ DOMAIN Coins(a) = Ltor!MadeIn(a) \ Spent(a)
      /\ \A o \in Ltor!MadeIn(a) \ Spent(a) : Coins(a)[o] = Ltor!Entry(a, 0, o)
  BY DEF Coins
<1>2. /\ DOMAIN added = Ltor!MadeIn(b) \cup (Ltor!MadeIn(a) \ Spent(a))
      /\ \A o \in DOMAIN added : added[o] = IF o \in Ltor!MadeIn(b) THEN Ltor!Entry(b, Len(a), o) ELSE Coins(a)[o]
  BY <1>1 DEF Ltor!WithOutputs
<1> HIDE DEF added
<1>3. \A o \in DOMAIN added : added[o] = Ltor!Entry(c, 0, o)
  BY <1>1, <1>2, Apart
<1>4. Spent(b) \subseteq DOMAIN added
  BY <1>2 DEF Follows
<1>5. DOMAIN added \ Spent(b) = Ltor!MadeIn(c) \ Spent(c)
  <2>1. Ltor!MadeIn(c) = Ltor!MadeIn(a) \cup Ltor!MadeIn(b) /\ Spent(c) = Spent(a) \cup Spent(b)
    BY Joins
  <2>2. Ltor!MadeIn(a) \cap Ltor!MadeIn(b) = {} /\ Spent(a) \subseteq Ltor!MadeIn(a)
    BY Apart DEF Sound
  <2> QED
    BY <1>2, <2>1, <2>2
<1>6. Ltor!Without(added, Spent(b)) = Coins(c)
  <2> HIDE DEF c
  <2>1. Ltor!Without(added, Spent(b)) = [o \in Ltor!MadeIn(c) \ Spent(c) |-> added[o]]
    BY <1>5 DEF Ltor!Without, Ltor!Restrict
  <2>2. \A o \in Ltor!MadeIn(c) \ Spent(c) : added[o] = Ltor!Entry(c, 0, o)
    BY <1>3, <1>5
  <2> QED
    BY <2>1, <2>2 DEF Coins
<1> QED
  BY <1>2, <1>3, <1>4, <1>6 DEF added

\* backup_txs: the coins that the block spent are restored first.
LEMMA CoinsRestored ==
    ASSUME Ltor!LTORAssumption, NEW a \in Seq(TxIds), NEW b \in Seq(TxIds), Sound(a), Sound(a \o b), Follows(a, b),
           utxos = Coins(a \o b),
           NEW info, info = [i \in DOMAIN Ltor!Inputs(b) |-> Ltor!Entry(a \o b, 0, Ltor!Inputs(b)[i])]
    PROVE  /\ Ltor!MadeIn(b) \subseteq DOMAIN Ltor!Restored(b, info)
           /\ Ltor!Without(Ltor!Restored(b, info), Ltor!MadeIn(b)) = Coins(a)
<1> DEFINE c == a \o b
           ins == Ltor!Inputs(b)
           r == Ltor!Restored(b, info)
<1>1. Ltor!ToSet(ins) = Spent(b)
  BY InputsAre
<1>2. \A o \in Spent(b) : info[CHOOSE i \in DOMAIN ins : ins[i] = o] = Ltor!Entry(c, 0, o)
  <2> HIDE DEF c
  <2> SUFFICES ASSUME NEW o \in Spent(b) PROVE info[CHOOSE i \in DOMAIN ins : ins[i] = o] = Ltor!Entry(c, 0, o)
    OBVIOUS
  <2> DEFINE j == CHOOSE i \in DOMAIN ins : ins[i] = o
  <2>1. j \in DOMAIN ins /\ ins[j] = o
    BY <1>1 DEF Ltor!ToSet
  <2>2. info[j] = Ltor!Entry(c, 0, ins[j])
    BY <2>1 DEF c
  <2> QED
    BY <2>1, <2>2
<1>3. /\ DOMAIN utxos = Ltor!MadeIn(c) \ Spent(c)
      /\ \A o \in DOMAIN utxos : utxos[o] = Ltor!Entry(c, 0, o)
  BY DEF Coins
<1>4. /\ DOMAIN r = Spent(b) \cup (Ltor!MadeIn(c) \ Spent(c))
      /\ \A o \in DOMAIN r : r[o] = Ltor!Entry(c, 0, o)
  <2> HIDE DEF c, ins
  <2>1. r = [o \in Spent(b) \cup DOMAIN utxos |->
               IF o \in Spent(b) THEN info[CHOOSE i \in DOMAIN ins : ins[i] = o] ELSE utxos[o]]
    BY <1>1 DEF Ltor!Restored, ins
  <2> HIDE DEF r
  <2> QED
    BY <1>2, <1>3, <2>1
<1> HIDE DEF r
<1>5. /\ Ltor!MadeIn(c) = Ltor!MadeIn(a) \cup Ltor!MadeIn(b) /\ Spent(c) = Spent(a) \cup Spent(b)
      /\ Ltor!MadeIn(a) \cap Ltor!MadeIn(b) = {} /\ Spent(a) \subseteq Ltor!MadeIn(a)
      /\ Spent(b) \subseteq (Ltor!MadeIn(a) \ Spent(a)) \cup Ltor!MadeIn(b)
  BY Joins, Apart DEF Sound, Follows
<1>6. Ltor!MadeIn(b) \subseteq DOMAIN r
  BY <1>4, <1>5
<1>7. DOMAIN r \ Ltor!MadeIn(b) = Ltor!MadeIn(a) \ Spent(a)
  BY <1>4, <1>5
<1>8. Ltor!Without(r, Ltor!MadeIn(b)) = Coins(a)
  <2>1. Ltor!Without(r, Ltor!MadeIn(b)) = [o \in Ltor!MadeIn(a) \ Spent(a) |-> r[o]]
    BY <1>7 DEF Ltor!Without, Ltor!Restrict
  <2>2. \A o \in Ltor!MadeIn(a) \ Spent(a) : r[o] = Ltor!Entry(a, 0, o)
    BY <1>4, <1>7, Apart
  <2> QED
    BY <2>1, <2>2 DEF Coins
<1> QED
  BY <1>6, <1>8 DEF r

-----------------------------------------------------------------------------
(* Histories.                                                               *)

\* s is the history of hx, among the first m transactions of txs.
HistoryOf(s, hx, txs, m) ==
    /\ s \in Seq(Nat)
    /\ Ltor!ToSet(s) = {n \in 0 .. m - 1 : Ltor!Touching(hx, txs[n + 1])}
    /\ \A i, j \in DOMAIN s : i < j => s[i] < s[j]

\* The recursion of WithHistory, from the history s.
Adds(s, hx, first, txs, map, n, g) ==
    g = [k \in 0 .. n |->
           IF k = 0 THEN s
           ELSE IF hx \in Ltor!HashXsOf(txs[k], map) THEN Append(g[k - 1], first + k - 1)
           ELSE g[k - 1]]

LEMMA AddsAt ==
    ASSUME NEW s, NEW hx, NEW first, NEW txs, NEW map, NEW n, NEW g,
           Adds(s, hx, first, txs, map, n, g), NEW k \in 0 .. n
    PROVE  g[k] = IF k = 0 THEN s
                  ELSE IF hx \in Ltor!HashXsOf(txs[k], map) THEN Append(g[k - 1], first + k - 1)
                  ELSE g[k - 1]
<1> DEFINE V(i) == IF i = 0 THEN s
                   ELSE IF hx \in Ltor!HashXsOf(txs[i], map) THEN Append(g[i - 1], first + i - 1)
                   ELSE g[i - 1]
<1>1. g = [i \in 0 .. n |-> V(i)]
  BY DEF Adds
<1> HIDE DEF V
<1>2. g[k] = V(k)
  BY <1>1
<1> QED
  BY <1>2 DEF V

LEMMA AddsExist ==
    ASSUME NEW s, NEW hx, NEW first, NEW txs, NEW map
    PROVE  \A n \in Nat : \E g : Adds(s, hx, first, txs, map, n, g)
<1> DEFINE T == { n \in Nat : ~ \E g : Adds(s, hx, first, txs, map, n, g) }
<1> SUFFICES ASSUME T # {} PROVE FALSE
  OBVIOUS
<1>1. PICK n \in T : \A m \in Nat : m < n => m \notin T
  <2>1. T \in SUBSET Nat
    OBVIOUS
  <2> HIDE DEF T
  <2> QED
    BY LeastNumber, <2>1
<1>2. n \in Nat /\ ~ \E g : Adds(s, hx, first, txs, map, n, g)
  OBVIOUS
<1>3. n # 0
  <2> DEFINE g == [k \in 0 .. 0 |-> s]
  <2>1. g = [k \in 0 .. 0 |->
           IF k = 0 THEN s
           ELSE IF hx \in Ltor!HashXsOf(txs[k], map) THEN Append(g[k - 1], first + k - 1)
           ELSE g[k - 1]]
    OBVIOUS
  <2>2. Adds(s, hx, first, txs, map, 0, g)
    BY <2>1 DEF Adds
  <2> QED
    BY <1>2, <2>2
<1>4. PICK f : Adds(s, hx, first, txs, map, n - 1, f)
  BY <1>1, <1>2, <1>3
<1> DEFINE V(k, p) == IF hx \in Ltor!HashXsOf(txs[k], map) THEN Append(p, first + k - 1) ELSE p
           g == [k \in 0 .. n |-> IF k < n THEN f[k] ELSE V(k, f[k - 1])]
<1>5. ASSUME NEW k \in 0 .. n PROVE g[k] = IF k = 0 THEN s ELSE V(k, g[k - 1])
  <2> HIDE DEF V
  <2>1. \A i \in 0 .. n - 1 : g[i] = f[i]
    BY <1>2
  <2>2. k # 0 => k - 1 \in 0 .. n - 1
    BY <1>2
  <2>3. CASE k < n
    <3>1. k \in 0 .. n - 1
      BY <1>2, <2>3
    <3>2. f[k] = IF k = 0 THEN s ELSE V(k, f[k - 1])
      BY <1>4, <3>1, AddsAt DEF V
    <3> HIDE DEF g
    <3> QED
      BY <2>1, <2>2, <3>1, <3>2
  <2>4. CASE k = n
    <3>1. g[k] = V(k, f[k - 1])
      BY <1>2, <2>4
    <3> HIDE DEF g
    <3> QED
      BY <1>3, <2>1, <2>2, <2>4, <3>1
  <2> QED
    BY <1>2, <2>3, <2>4
<1>6. Adds(s, hx, first, txs, map, n, g)
  <2>1. g = [k \in 0 .. n |-> g[k]]
    OBVIOUS
  <2>2. g = [k \in 0 .. n |-> IF k = 0 THEN s ELSE V(k, g[k - 1])]
    <3> HIDE DEF g, V
    <3> QED
      BY <1>5, <2>1
  <2> HIDE DEF g
  <2> QED
    BY <2>2 DEF Adds
<1> QED
  BY <1>2, <1>6

LEMMA HistoryAdds ==
    ASSUME NEW s, NEW hx, NEW txs, NEW m \in Nat, HistoryOf(s, hx, txs, m)
    PROVE  /\ Ltor!Touching(hx, txs[m + 1]) => HistoryOf(Append(s, m), hx, txs, m + 1)
           /\ ~Ltor!Touching(hx, txs[m + 1]) => HistoryOf(s, hx, txs, m + 1)
<1>1. /\ s \in Seq(Nat) /\ Len(s) \in Nat /\ DOMAIN s = 1 .. Len(s)
      /\ Ltor!ToSet(s) = {n \in 0 .. m - 1 : Ltor!Touching(hx, txs[n + 1])}
      /\ \A i, j \in DOMAIN s : i < j => s[i] < s[j]
  BY DEF HistoryOf
<1>2. 0 .. m + 1 - 1 = (0 .. m - 1) \cup {m}
  OBVIOUS
<1>3. ASSUME ~Ltor!Touching(hx, txs[m + 1]) PROVE HistoryOf(s, hx, txs, m + 1)
  <2>1. {n \in 0 .. m + 1 - 1 : Ltor!Touching(hx, txs[n + 1])} = {n \in 0 .. m - 1 : Ltor!Touching(hx, txs[n + 1])}
    BY <1>2, <1>3
  <2> QED
    BY <1>1, <2>1 DEF HistoryOf
<1>4. ASSUME Ltor!Touching(hx, txs[m + 1]) PROVE HistoryOf(Append(s, m), hx, txs, m + 1)
  <2>1. {n \in 0 .. m + 1 - 1 : Ltor!Touching(hx, txs[n + 1])} = {n \in 0 .. m - 1 : Ltor!Touching(hx, txs[n + 1])} \cup {m}
    BY <1>2, <1>4
  <2> DEFINE t == Append(s, m)
  <2>2. /\ t \in Seq(Nat) /\ Len(t) = Len(s) + 1 /\ DOMAIN t = 1 .. Len(s) + 1
        /\ t[Len(s) + 1] = m /\ \A i \in 1 .. Len(s) : t[i] = s[i]
    BY <1>1
  <2> HIDE DEF t
  <2>3. Ltor!ToSet(t) = Ltor!ToSet(s) \cup {m}
    <3>1. \A i \in DOMAIN t : i = Len(s) + 1 \/ i \in DOMAIN s
      BY <1>1, <2>2
    <3>2. DOMAIN s \subseteq DOMAIN t /\ Len(s) + 1 \in DOMAIN t
      BY <1>1, <2>2
    <3> QED
      BY <1>1, <2>2, <3>1, <3>2 DEF Ltor!ToSet
  <2>4. \A i \in DOMAIN s : s[i] < m
    <3> SUFFICES ASSUME NEW i \in DOMAIN s PROVE s[i] < m
      OBVIOUS
    <3>1. s[i] \in 0 .. m - 1
      BY <1>1 DEF Ltor!ToSet
    <3> QED
      BY <3>1
  <2>5. ASSUME NEW i \in DOMAIN t, NEW j \in DOMAIN t, i < j PROVE t[i] < t[j]
    <3>1. i \in DOMAIN s /\ (j = Len(s) + 1 \/ j \in DOMAIN s)
      BY <1>1, <2>2, <2>5
    <3> QED
      BY <1>1, <2>2, <2>4, <2>5, <3>1
  <2>6. Ltor!ToSet(t) = {n \in 0 .. m + 1 - 1 : Ltor!Touching(hx, txs[n + 1])}
    BY <1>1, <2>1, <2>3
  <2>7. HistoryOf(t, hx, txs, m + 1)
    BY <2>2, <2>5, <2>6 DEF HistoryOf
  <2> QED
    BY <2>7 DEF t
<1> QED
  BY <1>3, <1>4

LEMMA HistoryJoins ==
    ASSUME NEW s, NEW hx, NEW a \in Seq(TxIds), NEW b \in Seq(TxIds)
    PROVE  HistoryOf(s, hx, a, Len(a)) <=> HistoryOf(s, hx, a \o b, Len(a))
<1>1. Len(a) \in Nat /\ \A n \in 0 .. Len(a) - 1 : (a \o b)[n + 1] = a[n + 1]
  <2>1. Len(a) \in Nat /\ \A i \in 1 .. Len(a) : (a \o b)[i] = a[i]
    BY SMT
  <2>2. \A n \in 0 .. Len(a) - 1 : n + 1 \in 1 .. Len(a)
    BY <2>1
  <2> QED
    BY <2>1, <2>2
<1> DEFINE c == a \o b
<1> HIDE DEF c
<1>2. {n \in 0 .. Len(a) - 1 : Ltor!Touching(hx, c[n + 1])} = {n \in 0 .. Len(a) - 1 : Ltor!Touching(hx, a[n + 1])}
  BY <1>1 DEF c
<1>3. HistoryOf(s, hx, a, Len(a)) <=> HistoryOf(s, hx, c, Len(a))
  BY <1>2 DEF HistoryOf
<1> QED
  BY <1>3 DEF c

\* add_unflushed
LEMMA HistoryAdded ==
    ASSUME NEW s, NEW hx, NEW a \in Seq(TxIds), NEW b \in Seq(TxIds), NEW map,
           HistoryOf(s, hx, a, Len(a)),
           \A k \in DOMAIN b : hx \in Ltor!HashXsOf(b[k], map) <=> Ltor!Touching(hx, b[k]),
           NEW g, Adds(s, hx, Len(a), b, map, Len(b), g)
    PROVE  HistoryOf(g[Len(b)], hx, a \o b, Len(a) + Len(b))
<1> DEFINE c == a \o b
           T == { k \in Nat : k <= Len(b) /\ ~HistoryOf(g[k], hx, c, Len(a) + k) }
<1>1. /\ Len(a) \in Nat /\ Len(b) \in Nat /\ DOMAIN b = 1 .. Len(b)
      /\ \A i \in 1 .. Len(b) : c[Len(a) + i] = b[i]
  BY SMT
<1> HIDE DEF c
<1>2. T = {}
  <2> SUFFICES ASSUME T # {} PROVE FALSE
    OBVIOUS
  <2>1. PICK k \in T : \A m \in Nat : m < k => m \notin T
    <3>1. T \in SUBSET Nat
      OBVIOUS
    <3> HIDE DEF T
    <3> QED
      BY LeastNumber, <3>1
  <2>2. k \in Nat /\ k <= Len(b) /\ k \in 0 .. Len(b) /\ ~HistoryOf(g[k], hx, c, Len(a) + k)
    BY <1>1
  <2>3. g[k] = IF k = 0 THEN s
               ELSE IF hx \in Ltor!HashXsOf(b[k], map) THEN Append(g[k - 1], Len(a) + k - 1)
               ELSE g[k - 1]
    BY <2>2, AddsAt
  <2>4. k # 0
    <3> SUFFICES ASSUME k = 0 PROVE HistoryOf(g[0], hx, c, Len(a) + 0)
      BY <2>2
    <3>1. g[0] = s /\ Len(a) + 0 = Len(a)
      BY <1>1, <2>3
    <3> QED
      BY <3>1, HistoryJoins DEF c
  <2> DEFINE m == Len(a) + k - 1
  <2>5. k - 1 \in Nat /\ k - 1 < k /\ m \in Nat /\ m = Len(a) + (k - 1) /\ m + 1 = Len(a) + k /\ k \in 1 .. Len(b)
    BY <1>1, <2>2, <2>4
  <2> HIDE DEF m
  <2>6. HistoryOf(g[k - 1], hx, c, m)
    BY <2>1, <2>2, <2>5
  <2>7. c[m + 1] = b[k] /\ (hx \in Ltor!HashXsOf(b[k], map) <=> Ltor!Touching(hx, c[m + 1]))
    BY <1>1, <2>5
  <2>8. HistoryOf(g[k], hx, c, m + 1)
    <3>1. g[k] = IF hx \in Ltor!HashXsOf(b[k], map) THEN Append(g[k - 1], m) ELSE g[k - 1]
      BY <2>3, <2>4 DEF m
    <3> QED
      BY <2>5, <2>6, <2>7, <3>1, HistoryAdds
  <2> QED
    BY <2>2, <2>5, <2>8
<1>3. Len(b) \in Nat /\ Len(b) <= Len(b)
  BY <1>1
<1> QED
  BY <1>2, <1>3 DEF c

LEMMA WithHistoryIs ==
    ASSUME NEW txs, NEW map, Len(txs) \in Nat, NEW hx \in Ltor!HashXs
    PROVE  \E g : Adds(ltor_history[hx], hx, Ltor!tx_count, txs, map, Len(txs), g) /\ Ltor!WithHistory(txs, map)[hx] = g[Len(txs)]
<1> DEFINE g == CHOOSE f : Adds(ltor_history[hx], hx, Ltor!tx_count, txs, map, Len(txs), f)
<1>1. Adds(ltor_history[hx], hx, Ltor!tx_count, txs, map, Len(txs), g)
  BY AddsExist
<1>2. Ltor!WithHistory(txs, map)[hx] = g[Len(txs)]
  BY DEF Ltor!WithHistory, Adds
<1> HIDE DEF g
<1> QED
  BY <1>1, <1>2

LEMMA Bisect ==
    ASSUME NEW s \in Seq(Nat), \A i, j \in DOMAIN s : i < j => s[i] < s[j], NEW x \in Nat
    PROVE  /\ Ltor!bisect_left(s, x) \in 0 .. Len(s)
           /\ \A i \in 1 .. Ltor!bisect_left(s, x) : s[i] < x
           /\ \A i \in Ltor!bisect_left(s, x) + 1 .. Len(s) : s[i] >= x
<1> DEFINE D == {n \in 0 .. Len(s) : \A i \in 1 .. n : s[i] < x}
<1>1. Len(s) \in Nat /\ DOMAIN s = 1 .. Len(s) /\ \A i \in 1 .. Len(s) : s[i] \in Nat
  OBVIOUS
<1>2. PICK n \in D : \A m \in D : m <= n
  <2>1. D \in SUBSET (0 .. Len(s)) /\ D # {}
    <3>1. 0 \in D
      BY <1>1
    <3> QED
      BY <3>1
  <2> HIDE DEF D
  <2> QED
    BY <1>1, <2>1, GreatestNumber
<1>3. n \in 0 .. Len(s) /\ \A i \in 1 .. n : s[i] < x
  OBVIOUS
<1>4. ASSUME NEW i \in n + 1 .. Len(s) PROVE s[i] >= x
  <2>1. n + 1 \in 0 .. Len(s) /\ n + 1 \notin D /\ n + 1 \in 1 .. Len(s)
    <3>1. n \in Nat /\ n + 1 <= Len(s) /\ ~(n + 1 <= n)
      BY <1>1, <1>3
    <3> HIDE DEF D
    <3>2. n + 1 \notin D
      BY <1>2, <3>1
    <3> QED
      BY <1>1, <3>1, <3>2
  <2>2. s[n + 1] >= x
    <3> SUFFICES ASSUME s[n + 1] < x PROVE \A j \in 1 .. n + 1 : s[j] < x
      BY <1>1, <2>1
    <3> QED
      BY <1>1, <1>3
  <2>3. CASE i = n + 1
    BY <2>2, <2>3
  <2>4. CASE i # n + 1
    <3>1. i \in 1 .. Len(s) /\ n + 1 < i
      BY <1>1, <1>3, <2>4
    <3>2. s[n + 1] < s[i]
      BY <1>1, <2>1, <3>1
    <3> QED
      BY <1>1, <2>1, <2>2, <3>1, <3>2
  <2> QED
    BY <2>3, <2>4
<1>5. \E m \in 0 .. Len(s) : (\A i \in 1 .. m : s[i] < x) /\ \A i \in m + 1 .. Len(s) : s[i] >= x
  BY <1>3, <1>4
<1> QED
  BY <1>5 DEF Ltor!bisect_left

\* History.backup
LEMMA HistoryCut ==
    ASSUME NEW s, NEW hx, NEW a \in Seq(TxIds), NEW b \in Seq(TxIds),
           HistoryOf(s, hx, a \o b, Len(a \o b))
    PROVE  HistoryOf(SubSeq(s, 1, Ltor!bisect_left(s, Len(a))), hx, a, Len(a))
<1> DEFINE c == a \o b
           n == Ltor!bisect_left(s, Len(a))
           t == SubSeq(s, 1, n)
<1>1. Len(a) \in Nat /\ Len(b) \in Nat /\ Len(c) = Len(a) + Len(b)
  BY SMT
<1>2. /\ s \in Seq(Nat) /\ Len(s) \in Nat /\ DOMAIN s = 1 .. Len(s)
      /\ Ltor!ToSet(s) = {k \in 0 .. Len(c) - 1 : Ltor!Touching(hx, c[k + 1])}
      /\ \A i, j \in DOMAIN s : i < j => s[i] < s[j]
  BY DEF HistoryOf
<1> HIDE DEF c
<1>3. /\ n \in 0 .. Len(s)
      /\ \A i \in 1 .. n : s[i] < Len(a)
      /\ \A i \in n + 1 .. Len(s) : s[i] >= Len(a)
  BY <1>1, <1>2, Bisect
<1> HIDE DEF n
<1>4. t \in Seq(Nat) /\ t = [i \in 1 .. n |-> s[i]]
  BY <1>2, <1>3, Ats DEF At
<1> HIDE DEF t
<1>5. Ltor!ToSet(t) = {k \in Ltor!ToSet(s) : k < Len(a)}
  <2>1. \A i \in DOMAIN t : i \in DOMAIN s /\ t[i] = s[i] /\ s[i] < Len(a)
    BY <1>2, <1>3, <1>4
  <2>2. \A i \in DOMAIN s : s[i] < Len(a) => i \in DOMAIN t
    <3> SUFFICES ASSUME NEW i \in DOMAIN s, s[i] < Len(a), i \notin DOMAIN t PROVE FALSE
      OBVIOUS
    <3>1. i \in n + 1 .. Len(s) /\ s[i] \in Nat
      BY <1>2, <1>3, <1>4
    <3>2. s[i] >= Len(a)
      BY <1>3, <3>1
    <3> QED
      BY <1>1, <3>1, <3>2
  <2> QED
    BY <2>1, <2>2 DEF Ltor!ToSet
<1>6. {k \in Ltor!ToSet(s) : k < Len(a)} = {k \in 0 .. Len(a) - 1 : Ltor!Touching(hx, c[k + 1])}
  BY <1>1, <1>2
<1>7. \A i, j \in DOMAIN t : i < j => t[i] < t[j]
  <2>1. \A i \in DOMAIN t : i \in DOMAIN s /\ t[i] = s[i]
    BY <1>2, <1>3, <1>4
  <2> QED
    BY <1>2, <2>1
<1>8. HistoryOf(t, hx, c, Len(a))
  BY <1>4, <1>5, <1>6, <1>7 DEF HistoryOf
<1> QED
  BY <1>8, HistoryJoins DEF c, t, n

\* A hashX that a block does not touch.
LEMMA HistoryKept ==
    ASSUME NEW s, NEW hx, NEW a \in Seq(TxIds), NEW b \in Seq(TxIds),
           HistoryOf(s, hx, a \o b, Len(a \o b)), \A k \in DOMAIN b : ~Ltor!Touching(hx, b[k])
    PROVE  HistoryOf(s, hx, a, Len(a))
<1> DEFINE c == a \o b
<1>1. /\ Len(a) \in Nat /\ Len(b) \in Nat /\ DOMAIN b = 1 .. Len(b) /\ Len(c) = Len(a) + Len(b)
      /\ \A i \in 1 .. Len(b) : c[Len(a) + i] = b[i]
  BY SMT
<1> HIDE DEF c
<1>2. {k \in 0 .. Len(c) - 1 : Ltor!Touching(hx, c[k + 1])} = {k \in 0 .. Len(a) - 1 : Ltor!Touching(hx, c[k + 1])}
  <2>1. ASSUME NEW k \in 0 .. Len(c) - 1, Ltor!Touching(hx, c[k + 1]) PROVE k \in 0 .. Len(a) - 1
    <3> SUFFICES ASSUME k >= Len(a) PROVE FALSE
      BY <1>1
    <3>1. (k + 1) - Len(a) \in 1 .. Len(b) /\ Len(a) + ((k + 1) - Len(a)) = k + 1
      BY <1>1
    <3>2. c[k + 1] = b[(k + 1) - Len(a)]
      BY <1>1, <3>1
    <3> QED
      BY <1>1, <2>1, <3>1, <3>2
  <2>2. 0 .. Len(a) - 1 \subseteq 0 .. Len(c) - 1
    BY <1>1
  <2> QED
    BY <2>1, <2>2
<1>3. HistoryOf(s, hx, c, Len(c))
  BY DEF c
<1>4. HistoryOf(s, hx, c, Len(a))
  BY <1>2, <1>3 DEF HistoryOf
<1> QED
  BY <1>4, HistoryJoins DEF c

-----------------------------------------------------------------------------
(* The index.                                                               *)

Histories(txs) == \A hx \in Ltor!HashXs : HistoryOf(ltor_history[hx], hx, txs, Len(txs))

IndexInv ==
    /\ ~failed /\ GoodChain(ltor_chain)
    /\ utxos = Coins(Ltor!TxsOf(ltor_chain))
    /\ ltor_undo = [b \in 1 .. Len(ltor_chain) |-> UndoOf(ltor_chain, b)]
    /\ ltor_history = [hx \in Ltor!HashXs |-> ltor_history[hx]] /\ Histories(Ltor!TxsOf(ltor_chain))

LEMMA IndexStart ==
    ASSUME Ltor!LTORAssumption, Ltor!Init PROVE IndexInv
<1>1. /\ ltor_chain = <<>> /\ utxos = <<>> /\ ltor_undo = <<>> /\ failed = FALSE
      /\ ltor_history = [hx \in Ltor!HashXs |-> <<>>]
  BY DEF Ltor!Init
<1>2. Ltor!TxsOf(<<>>) = <<>> /\ DOMAIN <<>> = {} /\ Len(<<>>) = 0
  BY FlattenEmpty DEF Ltor!TxsOf
<1>3. Ltor!MadeIn(<<>>) = {} /\ Spent(<<>>) = {} /\ Ltor!ToSet(<<>>) = {} /\ Ltor!IsInjective(<<>>)
  BY <1>2 DEF Ltor!MadeIn, Spent, Ltor!ToSet, Ltor!IsInjective
<1>4. GoodChain(<<>>)
  <2>1. <<>> \in Chains
    BY DEF Chains
  <2>2. At(<<>>, 0) = <<>>
    BY <1>2 DEF At
  <2>3. \A b \in 0 .. Len(<<>>) : Sound(Ltor!TxsOf(At(<<>>, b)))
    BY <1>2, <1>3, <2>2 DEF Sound
  <2>4. 1 .. Len(<<>>) = {}
    BY <1>2
  <2> QED
    BY <2>1, <2>3, <2>4 DEF GoodChain
<1>5. utxos = Coins(<<>>)
  BY <1>1, <1>3 DEF Coins
<1>6. ltor_undo = [b \in 1 .. Len(<<>>) |-> UndoOf(<<>>, b)]
  BY <1>1, <1>2
<1>7. \A hx \in Ltor!HashXs : HistoryOf(<<>>, hx, <<>>, 0)
  <2> SUFFICES ASSUME NEW hx \in Ltor!HashXs PROVE HistoryOf(<<>>, hx, <<>>, 0)
    OBVIOUS
  <2>1. {n \in 0 .. 0 - 1 : Ltor!Touching(hx, <<>>[n + 1])} = {}
    OBVIOUS
  <2> QED
    BY <1>2, <1>3, <2>1 DEF HistoryOf
<1>8. Histories(<<>>)
  BY <1>1, <1>2, <1>7 DEF Histories
<1> QED
  BY <1>1, <1>2, <1>4, <1>5, <1>6, <1>8 DEF IndexInv

LEMMA ValidBlock ==
    ASSUME Ltor!LTORAssumption, IndexInv, NEW txs \in Ltor!ValidBlocks
    PROVE  LET a == Ltor!TxsOf(ltor_chain)
           IN  /\ a \in Seq(TxIds) /\ txs \in Seq(TxIds) /\ Sound(a) /\ Sound(a \o txs) /\ Follows(a, txs)
               /\ Ltor!CanAdvance(txs)
<1> DEFINE a == Ltor!TxsOf(ltor_chain)
<1>1. GoodChain(ltor_chain) /\ utxos = Coins(a)
  BY DEF IndexInv
<1>2. txs \in Seq(TxIds) /\ Ltor!Valid(txs)
  <2>1. PICK m \in 0 .. MaxBlockTxs : txs \in [1 .. m -> TxIds]
    BY DEF Ltor!ValidBlocks, Ltor!SeqOf, TxIds
  <2>2. m \in Nat
    BY DEF Ltor!LTORAssumption
  <2> QED
    BY <2>1, <2>2 DEF Ltor!ValidBlocks
<1>3. a \in Seq(TxIds)
  BY <1>1, FlattenRange DEF GoodChain, Chains, Ltor!TxsOf
<1>4. Sound(a)
  <2> DEFINE U == Seq(TxIds)
  <2>1. ltor_chain \in Seq(U)
    BY <1>1 DEF GoodChain, Chains
  <2> HIDE DEF U
  <2>2. At(ltor_chain, Len(ltor_chain)) = ltor_chain /\ Len(ltor_chain) \in 0 .. Len(ltor_chain)
    BY <2>1, Ats
  <2> QED
    BY <1>1, <2>2 DEF GoodChain
<1> HIDE DEF a
<1>5. Ltor!ToSet(Ltor!Inputs(txs)) = Spent(txs)
  BY <1>2, InputsAre
<1>6. DOMAIN utxos = Ltor!MadeIn(a) \ Spent(a)
  BY <1>1 DEF Coins
<1>7. Follows(a, txs)
  BY <1>2, <1>5, <1>6 DEF Ltor!Valid, Follows
<1>8. Sound(a \o txs)
  <2>1. Ltor!IsInjective(a \o txs)
    BY <1>2, <1>3, <1>4, JoinInjective DEF Ltor!Valid, Sound, a
  <2>2. Ltor!MadeIn(a \o txs) = Ltor!MadeIn(a) \cup Ltor!MadeIn(txs) /\ Spent(a \o txs) = Spent(a) \cup Spent(txs)
    BY <1>2, <1>3, Joins
  <2> QED
    BY <1>4, <1>7, <2>1, <2>2 DEF Sound, Follows
<1>9. Ltor!CanAdvance(txs)
  <2>1. DOMAIN Ltor!WithOutputs(utxos, txs, Ltor!tx_count) = Ltor!MadeIn(txs) \cup DOMAIN utxos
    BY DEF Ltor!WithOutputs
  <2> QED
    BY <1>2, <2>1 DEF Ltor!CanAdvance, Ltor!Spendable, Ltor!Valid
<1> QED
  BY <1>2, <1>3, <1>4, <1>7, <1>8, <1>9 DEF a

LEMMA AdvanceKeeps ==
    ASSUME Ltor!LTORAssumption, IndexInv, NEW txs \in Ltor!ValidBlocks, Ltor!advance_txs(txs)
    PROVE  IndexInv'
<1> DEFINE a == Ltor!TxsOf(ltor_chain)
           c == a \o txs
           added == Ltor!WithOutputs(utxos, txs, Ltor!tx_count)
<1>1. /\ a \in Seq(TxIds) /\ txs \in Seq(TxIds) /\ Sound(a) /\ Sound(c) /\ Follows(a, txs)
      /\ Ltor!CanAdvance(txs)
  BY ValidBlock
<1>2. /\ GoodChain(ltor_chain) /\ utxos = Coins(a) /\ Ltor!tx_count = Len(a) /\ ~failed
      /\ ltor_undo = [b \in 1 .. Len(ltor_chain) |-> UndoOf(ltor_chain, b)] /\ Histories(a)
  BY DEF IndexInv, Ltor!tx_count
<1>3. /\ utxos' = Ltor!Without(added, Ltor!ToSet(Ltor!Inputs(txs)))
      /\ ltor_undo' = Append(ltor_undo, [i \in DOMAIN Ltor!Inputs(txs) |-> added[Ltor!Inputs(txs)[i]]])
      /\ ltor_history' = Ltor!WithHistory(txs, added)
      /\ ltor_chain' = Append(ltor_chain, txs) /\ failed' = failed
  BY <1>1 DEF Ltor!advance_txs
<1>4. /\ Spent(txs) \subseteq DOMAIN added
      /\ \A o \in DOMAIN added : added[o] = Ltor!Entry(c, 0, o)
      /\ Ltor!Without(added, Spent(txs)) = Coins(c)
  BY <1>1, <1>2, OutputsAdded
<1>5. Ltor!ToSet(Ltor!Inputs(txs)) = Spent(txs)
  BY <1>1, InputsAre
<1> HIDE DEF a, c, added
<1>6. /\ GoodChain(ltor_chain') /\ Ltor!TxsOf(ltor_chain') = c
      /\ \A b \in 1 .. Len(ltor_chain) : UndoOf(ltor_chain', b) = UndoOf(ltor_chain, b)
  BY <1>1, <1>2, <1>3, GoodAppend DEF a, c
<1>7. utxos' = Coins(Ltor!TxsOf(ltor_chain'))
  BY <1>3, <1>4, <1>5, <1>6
<1>8. /\ Len(ltor_chain) \in Nat /\ Len(ltor_chain') = Len(ltor_chain) + 1 /\ ltor_chain'[Len(ltor_chain) + 1] = txs
      /\ At(ltor_chain', Len(ltor_chain) + 1) = ltor_chain'
  <2> DEFINE U == Seq(TxIds)
  <2>1. ltor_chain \in Seq(U) /\ txs \in U /\ ltor_chain' \in Seq(U)
    BY <1>1, <1>2, <1>6 DEF GoodChain, Chains
  <2> HIDE DEF U
  <2>2. Len(ltor_chain) \in Nat /\ Len(ltor_chain') = Len(ltor_chain) + 1 /\ ltor_chain'[Len(ltor_chain) + 1] = txs
    BY <1>3, <2>1
  <2> QED
    BY <2>1, <2>2, Ats
<1>9. ltor_undo' = [b \in 1 .. Len(ltor_chain') |-> UndoOf(ltor_chain', b)]
  <2> DEFINE info == [i \in DOMAIN Ltor!Inputs(txs) |-> added[Ltor!Inputs(txs)[i]]]
             n == Len(ltor_chain)
  <2>1. info = UndoOf(ltor_chain', n + 1)
    <3>1. \A i \in DOMAIN Ltor!Inputs(txs) : added[Ltor!Inputs(txs)[i]] = Ltor!Entry(c, 0, Ltor!Inputs(txs)[i])
      BY <1>4, <1>5 DEF Ltor!ToSet
    <3> QED
      BY <1>6, <1>8, <3>1 DEF UndoOf
  <2> HIDE DEF info, n
  <2> DEFINE E(b) == UndoOf(ltor_chain', b)
  <2>2. ltor_undo = [b \in 1 .. n |-> E(b)]
    BY <1>2, <1>6 DEF n
  <2>3. n \in Nat /\ Len(ltor_chain') = n + 1 /\ ltor_undo' = Append(ltor_undo, E(n + 1))
    BY <1>3, <1>8, <2>1 DEF n, info
  <2> HIDE DEF E
  <2>4. Append(ltor_undo, E(n + 1)) = [b \in 1 .. n + 1 |-> E(b)]
    BY <2>2, <2>3
  <2> QED
    BY <2>3, <2>4 DEF E
<1>10. ASSUME NEW hx \in Ltor!HashXs PROVE HistoryOf(ltor_history'[hx], hx, c, Len(c))
  <2>1. \A k \in DOMAIN txs : hx \in Ltor!HashXsOf(txs[k], added) <=> Ltor!Touching(hx, txs[k])
    <3> SUFFICES ASSUME NEW k \in DOMAIN txs PROVE hx \in Ltor!HashXsOf(txs[k], added) <=> Ltor!Touching(hx, txs[k])
      OBVIOUS
    <3>1. \A o \in Ltor!ToSet(Tx[txs[k]].ins) : added[o].hashX = Ltor!HashX(o)
      <4>1. Ltor!ToSet(Tx[txs[k]].ins) \subseteq Spent(txs)
        BY DEF Spent
      <4> QED
        BY <1>4, <4>1 DEF Ltor!Entry
    <3> QED
      BY <3>1 DEF Ltor!HashXsOf, Ltor!Touching
  <2>2. Len(txs) \in Nat
    BY <1>1
  <2>3. PICK g : Adds(ltor_history[hx], hx, Len(a), txs, added, Len(txs), g) /\ ltor_history'[hx] = g[Len(txs)]
    BY <1>2, <1>3, <2>2, WithHistoryIs
  <2>4. HistoryOf(ltor_history[hx], hx, a, Len(a))
    BY <1>2 DEF Histories
  <2>5. HistoryOf(g[Len(txs)], hx, c, Len(a) + Len(txs))
    BY <1>1, <2>1, <2>3, <2>4, HistoryAdded DEF c
  <2>6. Len(c) = Len(a) + Len(txs)
    BY <1>1, Joins DEF c
  <2> QED
    BY <2>3, <2>5, <2>6
<1>11. Histories(Ltor!TxsOf(ltor_chain))'
  BY <1>6, <1>10 DEF Histories, Ltor!HashXs
<1>12. ltor_history' = [hx \in Ltor!HashXs |-> ltor_history'[hx]]
  BY <1>3 DEF Ltor!WithHistory
<1>13. (~failed)'
  BY <1>2, <1>3
<1> QED
  BY <1>6, <1>7, <1>9, <1>11, <1>12, <1>13 DEF IndexInv

LEMMA BackupKeeps ==
    ASSUME Ltor!LTORAssumption, IndexInv, Ltor!backup_txs
    PROVE  IndexInv'
<1> DEFINE txs == Ltor!Last(ltor_chain)
           info == Ltor!Last(ltor_undo)
           a == Ltor!TxsOf(Ltor!Front(ltor_chain))
           c == a \o txs
           r == Ltor!Restored(txs, info)
           kept == Ltor!tx_count - Len(txs)
<1>1. /\ GoodChain(ltor_chain) /\ utxos = Coins(Ltor!TxsOf(ltor_chain)) /\ ~failed /\ ltor_chain # <<>>
      /\ ltor_undo = [b \in 1 .. Len(ltor_chain) |-> UndoOf(ltor_chain, b)] /\ Histories(Ltor!TxsOf(ltor_chain))
  BY DEF IndexInv, Ltor!backup_txs
<1>2. /\ GoodChain(Ltor!Front(ltor_chain)) /\ Len(ltor_chain) \in Nat /\ Len(Ltor!Front(ltor_chain)) = Len(ltor_chain) - 1
      /\ a \in Seq(TxIds) /\ txs \in Seq(TxIds) /\ Ltor!TxsOf(ltor_chain) = c
      /\ Sound(a) /\ Sound(c) /\ Follows(a, txs)
      /\ At(ltor_chain, Len(ltor_chain)) = ltor_chain /\ ltor_chain[Len(ltor_chain)] = txs
      /\ \A k \in 1 .. Len(ltor_chain) - 1 : UndoOf(Ltor!Front(ltor_chain), k) = UndoOf(ltor_chain, k)
  BY <1>1, GoodFront
<1>3. Len(ltor_chain) # 0
  <2> DEFINE U == Seq(TxIds)
  <2>1. ltor_chain \in Seq(U)
    BY <1>1 DEF GoodChain, Chains
  <2> HIDE DEF U
  <2> QED
    BY <1>1, <2>1, FrontLast
<1>4. info = [i \in DOMAIN Ltor!Inputs(txs) |-> Ltor!Entry(c, 0, Ltor!Inputs(txs)[i])]
  <2> HIDE DEF a, c, txs
  <2>1. Len(ltor_undo) = Len(ltor_chain) /\ Len(ltor_chain) \in 1 .. Len(ltor_chain)
    BY <1>1, <1>2, <1>3
  <2>2. info = UndoOf(ltor_chain, Len(ltor_chain))
    BY <1>1, <2>1 DEF Ltor!Last
  <2> QED
    BY <1>2, <2>2 DEF UndoOf
<1> HIDE DEF a, c, txs, info
<1>5. Ltor!MadeIn(txs) \subseteq DOMAIN r /\ Ltor!Without(r, Ltor!MadeIn(txs)) = Coins(a)
  BY <1>1, <1>2, <1>4, CoinsRestored DEF c
<1>6. /\ utxos' = Ltor!Without(r, Ltor!MadeIn(txs))
      /\ touched' = touched \cup Ltor!BackupTouches(txs, info)
      /\ ltor_history' = [q \in Ltor!HashXs |-> IF q \in touched' THEN SubSeq(ltor_history[q], 1, Ltor!bisect_left(ltor_history[q], kept))
                                      ELSE ltor_history[q]]
      /\ ltor_chain' = Ltor!Front(ltor_chain) /\ ltor_undo' = Ltor!Front(ltor_undo) /\ failed' = failed
  BY <1>5 DEF Ltor!backup_txs, txs, info
<1>7. kept = Len(a)
  <2>1. Len(c) = Len(a) + Len(txs) /\ Len(a) \in Nat /\ Len(txs) \in Nat
    BY <1>2, Joins DEF c
  <2>2. Ltor!tx_count = Len(c)
    BY <1>2 DEF Ltor!tx_count
  <2> QED
    BY <2>1, <2>2
<1> HIDE DEF kept, r
<1>8. ltor_undo' = [b \in 1 .. Len(ltor_chain') |-> UndoOf(ltor_chain', b)]
  <2> DEFINE n == Len(ltor_chain)
             E(b) == UndoOf(ltor_chain, b)
  <2>1. n \in Nat /\ n # 0 /\ ltor_undo = [b \in 1 .. n |-> E(b)] /\ Len(ltor_chain') = n - 1
    BY <1>1, <1>2, <1>3, <1>6
  <2>2. \A b \in 1 .. n - 1 : UndoOf(ltor_chain', b) = E(b)
    BY <1>2, <1>6
  <2> HIDE DEF n, E
  <2>3. Ltor!Front(ltor_undo) = [b \in 1 .. n - 1 |-> E(b)]
    <3>1. Len(ltor_undo) = n
      BY <2>1
    <3>2. SubSeq(ltor_undo, 1, n - 1) = [b \in 1 .. n - 1 |-> E(b)]
      BY <2>1
    <3> QED
      BY <3>1, <3>2 DEF Ltor!Front
  <2> QED
    BY <1>6, <2>1, <2>2, <2>3
<1>9. ASSUME NEW hx \in Ltor!HashXs PROVE HistoryOf(ltor_history'[hx], hx, a, Len(a))
  <2>1. HistoryOf(ltor_history[hx], hx, c, Len(c))
    BY <1>1, <1>2 DEF Histories
  <2>2. CASE hx \in touched'
    <3>1. ltor_history'[hx] = SubSeq(ltor_history[hx], 1, Ltor!bisect_left(ltor_history[hx], Len(a)))
      BY <1>6, <1>7, <2>2
    <3> QED
      BY <1>2, <2>1, <3>1, HistoryCut DEF c
  <2>3. CASE hx \notin touched'
    <3>1. ltor_history'[hx] = ltor_history[hx]
      BY <1>6, <2>3
    <3>2. \A k \in DOMAIN txs : ~Ltor!Touching(hx, txs[k])
      <4> SUFFICES ASSUME NEW k \in DOMAIN txs, Ltor!Touching(hx, txs[k]) PROVE hx \in Ltor!BackupTouches(txs, info)
        BY <1>6, <2>3
      <4>1. PICK o \in Ltor!Made(txs[k]) \cup Ltor!ToSet(Tx[txs[k]].ins) : hx = Ltor!HashX(o)
        BY DEF Ltor!Touching
      <4>2. CASE o \in Ltor!Made(txs[k])
        BY <4>1, <4>2 DEF Ltor!MadeIn, Ltor!BackupTouches
      <4>3. CASE o \in Ltor!ToSet(Tx[txs[k]].ins)
        <5>1. o \in Ltor!ToSet(Ltor!Inputs(txs))
          BY <1>2, <4>3, InputsAre DEF Spent
        <5>2. PICK i \in DOMAIN Ltor!Inputs(txs) : Ltor!Inputs(txs)[i] = o
          BY <5>1 DEF Ltor!ToSet
        <5>3. i \in DOMAIN info /\ info[i].hashX = Ltor!HashX(o)
          BY <1>4, <5>2 DEF Ltor!Entry
        <5> QED
          BY <4>1, <5>3 DEF Ltor!BackupTouches, Ltor!Range
      <4> QED
        BY <4>2, <4>3
    <3> QED
      BY <1>2, <2>1, <3>1, <3>2, HistoryKept DEF c
  <2> QED
    BY <2>2, <2>3
<1>10. Histories(Ltor!TxsOf(ltor_chain))'
  BY <1>6, <1>9 DEF Histories, Ltor!HashXs, a
<1>11. ltor_history' = [hx \in Ltor!HashXs |-> ltor_history'[hx]]
  BY <1>6
<1>12. GoodChain(ltor_chain') /\ utxos' = Coins(Ltor!TxsOf(ltor_chain'))
  BY <1>2, <1>5, <1>6 DEF a
<1>13. (~failed)'
  BY <1>1, <1>6
<1> QED
  BY <1>8, <1>10, <1>11, <1>12, <1>13 DEF IndexInv

LEMMA IndexIsRight ==
    ASSUME Ltor!LTORAssumption, IndexInv PROVE Ltor!IndexMatchesChain
<1> DEFINE all == Ltor!TxsOf(ltor_chain)
<1>1. all \in Seq(TxIds)
  BY FlattenRange DEF IndexInv, GoodChain, Chains, Ltor!TxsOf
<1>2. Ltor!ToSet(Ltor!Inputs(all)) = Spent(all)
  <2> HIDE DEF all
  <2> QED
    BY <1>1, InputsAre
<1>3. Ltor!UtxosMatchChain
  BY <1>2 DEF IndexInv, Ltor!UtxosMatchChain, Coins
<1>4. Ltor!HistoryMatchesChain
  BY DEF IndexInv, Ltor!HistoryMatchesChain, Histories, HistoryOf
<1> QED
  BY <1>3, <1>4 DEF Ltor!IndexMatchesChain, Ltor!NoChainError, IndexInv

\* LTORBlockProcessor.advance_txs and backup_txs: whatever the transactions and the order
\* they come in, no block is refused, and the coins and histories are those of the chain.
THEOREM AnyOrderIndexed ==
    ASSUME Ltor!LTORAssumption
    PROVE  Ltor!Spec => []IndexMatchesChain
<1>1. Ltor!Init => IndexInv
  BY IndexStart
<1>2. IndexInv /\ [Ltor!Next]_(Ltor!vars) => IndexInv'
  <2> SUFFICES ASSUME IndexInv, [Ltor!Next]_(Ltor!vars) PROVE IndexInv'
    OBVIOUS
  <2>1. CASE UNCHANGED Ltor!vars
    BY <2>1 DEF Ltor!vars, IndexInv, Histories
  <2>2. ASSUME NEW txs \in Ltor!ValidBlocks, Ltor!advance_txs(txs) PROVE IndexInv'
    BY <2>2, AdvanceKeeps
  <2>3. CASE Ltor!backup_txs
    BY <2>3, BackupKeeps
  <2>4. CASE Ltor!Notify
    BY <2>4 DEF Ltor!Notify, IndexInv, Histories
  <2> QED
    BY <2>1, <2>2, <2>3, <2>4 DEF Ltor!Next
<1>3. IndexInv => IndexMatchesChain
  BY IndexIsRight DEF IndexMatchesChain
<1> QED
  BY <1>1, <1>2, <1>3, PTL DEF Ltor!Spec

-----------------------------------------------------------------------------
(* Decred's votes.                                                          *)

\* Starts of chains.
LEMMA Starts ==
    ASSUME NEW S, NEW b \in Seq(S), NEW n \in 0 .. Len(b)
    PROVE  /\ Dcr!At(b, n) \in Seq(S) /\ Len(Dcr!At(b, n)) = n
           /\ \A i \in 1 .. n : Dcr!At(b, n)[i] = b[i]
<1>1. Len(b) \in Nat
  OBVIOUS
<1>2. (\A i \in 1 .. n : b[i] \in S) /\ n \in Int /\ 1 \in Int
  BY <1>1
<1> QED
  BY <1>1, <1>2, SubSeqProperties DEF Dcr!At

LEMMA WholeStart ==
    ASSUME NEW S, NEW b \in Seq(S)
    PROVE  Dcr!At(b, Len(b)) = b
BY SubSeqFull DEF Dcr!At

LEMMA EqualStarts ==
    ASSUME NEW S, NEW a \in Seq(S), NEW b \in Seq(S), NEW n \in 0 .. Len(a), n <= Len(b)
    PROVE  Dcr!At(a, n) = Dcr!At(b, n) <=> \A i \in 1 .. n : a[i] = b[i]
<1>1. n \in 0 .. Len(b) /\ Len(a) \in Nat /\ Len(b) \in Nat
  OBVIOUS
<1> DEFINE x == Dcr!At(a, n)
           y == Dcr!At(b, n)
<1>2. /\ x \in Seq(S) /\ Len(x) = n /\ \A i \in 1 .. n : x[i] = a[i]
      /\ y \in Seq(S) /\ Len(y) = n /\ \A i \in 1 .. n : y[i] = b[i]
  BY <1>1, Starts
<1> HIDE DEF x, y
<1>3. ASSUME \A i \in 1 .. n : a[i] = b[i] PROVE x = y
  <2>1. \A i \in 1 .. Len(x) : x[i] = y[i]
    BY <1>2, <1>3
  <2> QED
    BY <1>2, <2>1, SeqEqual
<1>4. ASSUME x = y PROVE \A i \in 1 .. n : a[i] = b[i]
  BY <1>2, <1>4
<1> QED
  BY <1>3, <1>4 DEF x, y

LEMMA PrefixIs ==
    ASSUME NEW S, NEW a \in Seq(S), NEW b \in Seq(S)
    PROVE  Dcr!IsPrefix(a, b) <=> Len(a) <= Len(b) /\ \A i \in 1 .. Len(a) : a[i] = b[i]
<1>1. Len(a) \in Nat /\ Len(a) \in 0 .. Len(a)
  OBVIOUS
<1>2. Dcr!IsPrefix(a, b) <=> Len(a) <= Len(b) /\ Dcr!At(a, Len(a)) = Dcr!At(b, Len(a))
  BY DEF Dcr!IsPrefix, Dcr!At
<1> QED
  BY <1>1, <1>2, EqualStarts

-----------------------------------------------------------------------------
(* Where a reorganisation starts.                                           *)

Shared(start, n) == \A i \in start .. start + n - 1 : Dcr!At(tip, i) = Dcr!At(best, i)

LEMMA DiffPos ==
    ASSUME NEW start \in Nat, NEW count \in Nat
    PROVE  Dcr!diff_pos(start, count) \in 0 .. count /\ Shared(start, Dcr!diff_pos(start, count))
<1> DEFINE same == {n \in 0 .. count : \A i \in start .. start + n - 1 : Dcr!At(tip, i) = Dcr!At(best, i)}
<1>1. 0 \in same
  <2>1. start .. start + 0 - 1 = {}
    OBVIOUS
  <2> QED
    BY <2>1
<1>2. same \in SUBSET (0 .. count)
  OBVIOUS
<1>3. \E n \in same : \A m \in same : m <= n
  <2> HIDE DEF same
  <2> QED
    BY <1>1, <1>2, GreatestNumber
<1>4. Dcr!diff_pos(start, count) \in same
  BY <1>3 DEF Dcr!diff_pos
<1> QED
  BY <1>4 DEF Shared

More(start, count) == Dcr!Min2(count * 2, start)

\* The recursion of calc_reorg_range, from the starts up to N.
From(N, f) ==
    f = [start \in 0 .. N |-> [count \in 1 .. Dcr!height |->
            IF start = 0 THEN 0
            ELSE IF Dcr!diff_pos(start, count) > 0 THEN start + Dcr!diff_pos(start, count)
            ELSE f[start - More(start, count)][More(start, count)]]]

LEMMA MoreIs ==
    ASSUME NEW start \in 1 .. Dcr!height, NEW count \in 1 .. Dcr!height, Dcr!height \in Nat
    PROVE  /\ More(start, count) \in 1 .. start /\ More(start, count) \in 1 .. Dcr!height
           /\ start - More(start, count) \in 0 .. start - 1
BY DEF More, Dcr!Min2

LEMMA FromAt ==
    ASSUME NEW N, NEW f, From(N, f), NEW start \in 0 .. N, NEW count \in 1 .. Dcr!height
    PROVE  f[start][count] = IF start = 0 THEN 0
            ELSE IF Dcr!diff_pos(start, count) > 0 THEN start + Dcr!diff_pos(start, count)
            ELSE f[start - More(start, count)][More(start, count)]
<1> DEFINE V(s, c) == IF s = 0 THEN 0
                      ELSE IF Dcr!diff_pos(s, c) > 0 THEN s + Dcr!diff_pos(s, c)
                      ELSE f[s - More(s, c)][More(s, c)]
<1>1. f = [s \in 0 .. N |-> [c \in 1 .. Dcr!height |-> V(s, c)]]
  BY DEF From
<1> HIDE DEF V
<1>2. f[start] = [c \in 1 .. Dcr!height |-> V(start, c)]
  BY <1>1
<1>3. f[start][count] = V(start, count)
  BY <1>2
<1> QED
  BY <1>3 DEF V

LEMMA FromExists ==
    ASSUME Dcr!height \in Nat
    PROVE  \E f : From(Dcr!height, f)
<1> DEFINE T == { n \in Nat : n <= Dcr!height /\ ~ \E f : From(n, f) }
<1> SUFFICES ASSUME T # {} PROVE FALSE
  OBVIOUS
<1>1. PICK n \in T : \A m \in Nat : m < n => m \notin T
  <2>1. T \in SUBSET Nat
    OBVIOUS
  <2> HIDE DEF T
  <2> QED
    BY LeastNumber, <2>1
<1>2. n \in Nat /\ n <= Dcr!height /\ ~ \E f : From(n, f)
  OBVIOUS
<1>3. n # 0
  <2> DEFINE f == [start \in 0 .. 0 |-> [count \in 1 .. Dcr!height |-> 0]]
  <2>1. f = [start \in 0 .. 0 |-> [count \in 1 .. Dcr!height |->
            IF start = 0 THEN 0
            ELSE IF Dcr!diff_pos(start, count) > 0 THEN start + Dcr!diff_pos(start, count)
            ELSE f[start - More(start, count)][More(start, count)]]]
    OBVIOUS
  <2>2. From(0, f)
    BY <2>1 DEF From
  <2> QED
    BY <1>2, <2>2
<1>4. PICK f : From(n - 1, f)
  BY <1>1, <1>2, <1>3
<1> DEFINE g == [start \in 0 .. n |-> [count \in 1 .. Dcr!height |->
                   IF start < n THEN f[start][count]
                   ELSE IF Dcr!diff_pos(start, count) > 0 THEN start + Dcr!diff_pos(start, count)
                   ELSE f[start - More(start, count)][More(start, count)]]]
<1>5. ASSUME NEW start \in 0 .. n, NEW count \in 1 .. Dcr!height
      PROVE  g[start][count] = IF start = 0 THEN 0
            ELSE IF Dcr!diff_pos(start, count) > 0 THEN start + Dcr!diff_pos(start, count)
            ELSE g[start - More(start, count)][More(start, count)]
  <2>1. start # 0 => /\ More(start, count) \in 1 .. Dcr!height
                     /\ start - More(start, count) \in 0 .. n - 1
    <3> SUFFICES ASSUME start # 0
                 PROVE  More(start, count) \in 1 .. Dcr!height /\ start - More(start, count) \in 0 .. n - 1
      OBVIOUS
    <3>1. start \in 1 .. Dcr!height
      BY <1>2
    <3>2. /\ More(start, count) \in 1 .. Dcr!height /\ More(start, count) \in 1 .. start
          /\ start - More(start, count) \in 0 .. start - 1
      BY <3>1, MoreIs
    <3> QED
      BY <1>2, <3>2
  <2>2. \A s \in 0 .. n - 1, c \in 1 .. Dcr!height : g[s][c] = f[s][c]
    BY <1>2
  <2>3. CASE start < n
    <3>1. start \in 0 .. n - 1
      BY <1>2, <2>3
    <3>2. f[start][count] = IF start = 0 THEN 0
            ELSE IF Dcr!diff_pos(start, count) > 0 THEN start + Dcr!diff_pos(start, count)
            ELSE f[start - More(start, count)][More(start, count)]
      BY <1>4, <3>1, FromAt
    <3> HIDE DEF g
    <3> QED
      BY <2>1, <2>2, <3>1, <3>2
  <2>4. CASE start = n
    <3>1. g[start][count] = IF Dcr!diff_pos(start, count) > 0 THEN start + Dcr!diff_pos(start, count)
                            ELSE f[start - More(start, count)][More(start, count)]
      BY <1>2, <2>4
    <3> HIDE DEF g
    <3> QED
      BY <1>3, <2>1, <2>2, <2>4, <3>1
  <2> QED
    BY <1>2, <2>3, <2>4
<1>6. From(n, g)
  <2>1. g = [start \in 0 .. n |-> [count \in 1 .. Dcr!height |-> g[start][count]]]
    OBVIOUS
  <2> HIDE DEF g
  <2> QED
    BY <1>5, <2>1 DEF From
<1> QED
  BY <1>2, <1>6

\* The block below the first one to back up is on both chains.
LEMMA BaseStartShared ==
    ASSUME Dcr!height \in Nat, Dcr!height # 0
    PROVE  /\ Dcr!BaseStart \in 0 .. Dcr!height
           /\ Dcr!BaseStart > 0 => Dcr!At(tip, Dcr!BaseStart - 1) = Dcr!At(best, Dcr!BaseStart - 1)
<1> DEFINE from == CHOOSE f : From(Dcr!height, f)
           Good(r) == r \in 0 .. Dcr!height /\ (r > 0 => Dcr!At(tip, r - 1) = Dcr!At(best, r - 1))
<1>1. From(Dcr!height, from)
  BY FromExists
<1>2. Dcr!BaseStart = from[Dcr!height - 1][1]
  BY DEF Dcr!BaseStart, From, More
<1> HIDE DEF from
<1> DEFINE T == { n \in Nat : n <= Dcr!height /\ \E count \in 1 .. Dcr!height : n + count <= Dcr!height /\ ~Good(from[n][count]) }
<1>3. T = {}
  <2> SUFFICES ASSUME T # {} PROVE FALSE
    OBVIOUS
  <2>1. PICK n \in T : \A m \in Nat : m < n => m \notin T
    <3>1. T \in SUBSET Nat
      OBVIOUS
    <3> HIDE DEF T
    <3> QED
      BY LeastNumber, <3>1
  <2>2. n \in Nat /\ n <= Dcr!height
    OBVIOUS
  <2>3. PICK count \in 1 .. Dcr!height : n + count <= Dcr!height /\ ~Good(from[n][count])
    OBVIOUS
  <2> DEFINE d == Dcr!diff_pos(n, count)
             more == More(n, count)
  <2>4. from[n][count] = IF n = 0 THEN 0 ELSE IF d > 0 THEN n + d ELSE from[n - more][more]
    <3>1. n \in 0 .. Dcr!height
      BY <2>2
    <3> QED
      BY <1>1, <3>1, FromAt
  <2>5. n # 0
    BY <2>3, <2>4
  <2>6. d \in 0 .. count /\ Shared(n, d)
    BY <2>2, DiffPos
  <2>7. ~(d > 0)
    <3> SUFFICES ASSUME d > 0 PROVE Good(n + d)
      BY <2>3, <2>4, <2>5
    <3> HIDE DEF d
    <3>1. n + d \in 0 .. Dcr!height /\ n + d - 1 \in n .. n + d - 1
      BY <2>2, <2>3, <2>6
    <3> QED
      BY <2>6, <3>1 DEF Shared
  <2>8. more \in 1 .. n /\ more \in 1 .. Dcr!height /\ n - more \in 0 .. n - 1
    <3>1. n \in 1 .. Dcr!height
      BY <2>2, <2>5
    <3> QED
      BY <3>1, MoreIs
  <2>9. n - more \notin T
    BY <2>1, <2>2, <2>8
  <2>10. Good(from[n - more][more])
    <3> HIDE DEF more, Good
    <3>1. n - more \in Nat /\ n - more <= Dcr!height /\ n - more + more <= Dcr!height
      BY <2>2, <2>8
    <3> QED
      BY <2>8, <2>9, <3>1
  <2> QED
    BY <2>3, <2>4, <2>5, <2>7, <2>10
<1>4. Dcr!height - 1 \in Nat /\ Dcr!height - 1 <= Dcr!height /\ 1 \in 1 .. Dcr!height /\ Dcr!height - 1 + 1 <= Dcr!height
  OBVIOUS
<1>5. Good(from[Dcr!height - 1][1])
  <2> HIDE DEF Good
  <2> QED
    BY <1>3, <1>4
<1> QED
  BY <1>2, <1>5

-----------------------------------------------------------------------------
(* The votes.                                                               *)

Chain == Seq(BOOLEAN)

VotesTyped ==
    /\ best \in Chain /\ tip \in Chain
    /\ Dcr!height <= Dcr!daemon_height
    /\ fetched \in Nat

\* What is fetched lies on the daemon's chain, above the server's height, and below the
\* daemon's tip.
FetchInv ==
    /\ Len(hashes) \in Nat /\ Len(blocks) \in Nat
    /\ fetched = Dcr!height + Len(blocks)
    /\ fetched + Len(hashes) <= Dcr!daemon_height
    /\ hashes = [i \in 1 .. Len(hashes) |-> Dcr!At(best, fetched + i)]
    /\ blocks = [i \in 1 .. Len(blocks) |-> [block |-> Dcr!At(best, Dcr!height + i), valid |-> best[Dcr!height + i + 1]]]

\* Whether the server is on the daemon's chain or on one that was left: its own blocks
\* say what was voted on those below its tip.
OwnVotes ==
    /\ trees \in Seq(BOOLEAN) /\ Len(trees) = Dcr!height
    /\ \A at \in 1 .. Dcr!height - 1 : trees[at] = tip[at + 1]
    /\ Dcr!IsPrefix(tip, best) /\ Dcr!height > 0 => trees[Dcr!height] = best[Dcr!height + 1]

VotesInv == VotesTyped /\ FetchInv /\ OwnVotes

LEMMA Heights ==
    ASSUME VotesTyped
    PROVE  /\ Dcr!height \in Nat /\ Len(best) \in Nat /\ Dcr!daemon_height \in Nat
           /\ Dcr!daemon_height <= Len(best) /\ (Dcr!daemon_height # 0 => Dcr!daemon_height = Len(best) - 1)
           /\ Dcr!height <= Len(best)
BY DEF VotesTyped, Chain, Dcr!height, Dcr!daemon_height

LEMMA Joined ==
    ASSUME NEW n \in Nat, NEW m \in Nat, NEW E(_)
    PROVE  LET s == [i \in 1 .. n |-> E(i)] \o [i \in 1 .. m |-> E(n + i)]
           IN  s = [i \in 1 .. n + m |-> E(i)] /\ Len(s) = n + m
OBVIOUS

LEMMA NewBestKeeps ==
    ASSUME VotesInv, \E b \in Dcr!SeqOf(BOOLEAN, MaxHeight) : Dcr!NewBest(b), MaxHeight \in Nat
    PROVE  VotesInv'
<1> PICK b \in Dcr!SeqOf(BOOLEAN, MaxHeight) : Dcr!NewBest(b)
  OBVIOUS
<1>0. VotesTyped /\ FetchInv /\ OwnVotes
  BY DEF VotesInv
<1>1. b \in Chain
  <2>1. PICK m \in 0 .. MaxHeight : b \in [1 .. m -> BOOLEAN]
    BY DEF Dcr!SeqOf
  <2> QED
    BY <2>1 DEF Chain
<1>2. /\ best' = b /\ Len(b) > Len(best) /\ UNCHANGED <<tip, trees, hashes, blocks, fetched>>
      /\ best \in Chain /\ tip \in Chain /\ Len(b) \in Nat /\ Len(best) \in Nat /\ Dcr!height \in Nat
      /\ Dcr!height' = Dcr!height /\ Dcr!daemon_height' >= Dcr!daemon_height
      /\ Dcr!daemon_height \in Nat /\ Dcr!daemon_height' \in Nat
      /\ Dcr!daemon_height <= Len(best) /\ Dcr!height <= Len(best) /\ Dcr!height = Len(tip)
      /\ Dcr!daemon_height # 0 => Dcr!daemon_height = Len(best) - 1
  BY <1>0, <1>1, Heights DEF Dcr!NewBest, VotesTyped, Chain, Dcr!height, Dcr!daemon_height
<1>3. VotesTyped'
  BY <1>0, <1>1, <1>2 DEF VotesTyped
<1>4. CASE Dcr!IsPrefix(best, b)
  <2>1. \A i \in 1 .. Len(best) : b[i] = best[i]
    BY <1>1, <1>2, <1>4, PrefixIs DEF Chain
  <2>2. \A n \in 0 .. Len(best) : Dcr!At(b, n) = Dcr!At(best, n)
    <3> SUFFICES ASSUME NEW n \in 0 .. Len(best) PROVE Dcr!At(best, n) = Dcr!At(b, n)
      OBVIOUS
    <3>1. n <= Len(b) /\ \A i \in 1 .. n : best[i] = b[i]
      BY <1>2, <2>1
    <3> QED
      BY <1>1, <1>2, <3>1, EqualStarts DEF Chain
  <2>3. FetchInv'
    <3>1. \A i \in 1 .. Len(hashes) : fetched + i \in 0 .. Len(best)
      BY <1>0, <1>2 DEF FetchInv, VotesTyped
    <3>2. \A i \in 1 .. Len(blocks) : Dcr!height + i \in 0 .. Len(best) /\ Dcr!height + i + 1 \in 1 .. Len(best)
      BY <1>0, <1>2 DEF FetchInv, VotesTyped
    <3>3. hashes = [i \in 1 .. Len(hashes) |-> Dcr!At(b, fetched + i)]
      BY <1>0, <2>2, <3>1 DEF FetchInv
    <3>4. blocks = [i \in 1 .. Len(blocks) |-> [block |-> Dcr!At(b, Dcr!height + i), valid |-> b[Dcr!height + i + 1]]]
      BY <1>0, <2>1, <2>2, <3>2 DEF FetchInv
    <3> QED
      BY <1>0, <1>2, <3>3, <3>4 DEF FetchInv, VotesTyped, Dcr!At
  <2>4. OwnVotes'
    <3>1. Dcr!IsPrefix(tip, b) => Dcr!IsPrefix(tip, best)
      <4> SUFFICES ASSUME Dcr!IsPrefix(tip, b) PROVE Dcr!IsPrefix(tip, best)
        OBVIOUS
      <4>1. \A i \in 1 .. Dcr!height : tip[i] = b[i]
        BY <1>1, <1>2, PrefixIs DEF Chain
      <4>2. \A i \in 1 .. Dcr!height : tip[i] = best[i]
        BY <1>2, <2>1, <4>1
      <4> QED
        BY <1>2, <4>2, PrefixIs DEF Chain
    <3>2. Dcr!height > 0 => Dcr!height + 1 \in 1 .. Len(best)
      BY <1>0, <1>2 DEF VotesTyped
    <3> QED
      BY <1>0, <1>2, <2>1, <3>1, <3>2 DEF OwnVotes, Dcr!IsPrefix
  <2> QED
    BY <1>3, <2>3, <2>4 DEF VotesInv
<1>5. CASE Dcr!CaughtUp /\ ~Dcr!IsPrefix(tip, b)
  <2>1. hashes = <<>> /\ blocks = <<>>
    BY <1>5 DEF Dcr!CaughtUp
  <2>2. Len(hashes) = 0 /\ Len(blocks) = 0
    BY <2>1
  <2>3. FetchInv'
    <3>1. hashes = [i \in 1 .. 0 |-> Dcr!At(b, fetched + i)]
      BY <2>1
    <3>2. blocks = [i \in 1 .. 0 |-> [block |-> Dcr!At(b, Dcr!height + i), valid |-> b[Dcr!height + i + 1]]]
      BY <2>1
    <3> QED
      BY <1>0, <1>2, <2>2, <3>1, <3>2 DEF FetchInv, VotesTyped, Dcr!At
  <2>4. OwnVotes'
    BY <1>0, <1>2, <1>5 DEF OwnVotes, Dcr!IsPrefix
  <2> QED
    BY <1>3, <2>3, <2>4 DEF VotesInv
<1> QED
  BY <1>4, <1>5 DEF Dcr!NewBest

LEMMA GetHashesKeeps ==
    ASSUME VotesInv, Dcr!DecredAssumption, Dcr!GetHashes
    PROVE  VotesInv'
<1>0. VotesTyped /\ FetchInv /\ OwnVotes
  BY DEF VotesInv
<1> DEFINE count == Dcr!Min2(Dcr!daemon_height - fetched, MaxFetch)
<1>1. /\ count > 0 /\ hashes' = [i \in 1 .. count |-> Dcr!At(best, fetched + i)]
      /\ UNCHANGED <<best, tip, trees, blocks, fetched>>
  BY DEF Dcr!GetHashes
<1>2. count \in Nat /\ count <= Dcr!daemon_height - fetched
  BY <1>0, <1>1, Heights DEF Dcr!Min2, Dcr!DecredAssumption, VotesTyped
<1> HIDE DEF count
<1>3. Len(hashes') = count
  BY <1>1, <1>2
<1>4. VotesTyped' /\ OwnVotes'
  BY <1>0, <1>1 DEF VotesTyped, OwnVotes, Dcr!height, Dcr!daemon_height, Dcr!IsPrefix
<1>5. FetchInv'
  <2>1. Dcr!height' = Dcr!height /\ Dcr!daemon_height' = Dcr!daemon_height
    BY <1>1 DEF Dcr!height, Dcr!daemon_height
  <2>2. fetched + count <= Dcr!daemon_height
    BY <1>0, <1>2, Heights DEF VotesTyped
  <2>3. fetched' + Len(hashes') <= Dcr!daemon_height'
    BY <1>1, <1>3, <2>1, <2>2
  <2>4. hashes' = [i \in 1 .. Len(hashes') |-> Dcr!At(best, fetched + i)]
    BY <1>1, <1>3
  <2> QED
    BY <1>0, <1>1, <1>2, <1>3, <2>1, <2>3, <2>4 DEF FetchInv, Dcr!At
<1> QED
  BY <1>4, <1>5 DEF VotesInv

LEMMA raw_blocksKeeps ==
    ASSUME VotesInv, Dcr!raw_blocks
    PROVE  VotesInv'
<1>0. VotesTyped /\ FetchInv /\ OwnVotes
  BY DEF VotesInv
<1>1. UNCHANGED <<best, tip, trees>> /\ hashes' = <<>>
  BY DEF Dcr!raw_blocks
<1>2. Dcr!height' = Dcr!height /\ Dcr!daemon_height' = Dcr!daemon_height /\ Len(hashes') = 0
  BY <1>1 DEF Dcr!height, Dcr!daemon_height
<1>3. OwnVotes'
  BY <1>0, <1>1, <1>2 DEF OwnVotes, Dcr!IsPrefix
<1>4. CASE UNCHANGED <<blocks, fetched>>
  <2>1. VotesTyped'
    BY <1>0, <1>1, <1>2, <1>4 DEF VotesTyped
  <2>2. hashes' = [i \in 1 .. 0 |-> Dcr!At(best, fetched + i)]
    BY <1>1
  <2>3. FetchInv'
    BY <1>0, <1>1, <1>2, <1>4, <2>2, Heights DEF FetchInv, VotesTyped, Dcr!At
  <2> QED
    BY <1>3, <2>1, <2>3 DEF VotesInv
<1>5. CASE Dcr!NextKnown(Dcr!Last(hashes)) /\ ~UNCHANGED <<blocks, fetched>>
  <2> DEFINE n == Len(hashes)
             k == Len(blocks)
             E(j) == [block |-> Dcr!At(best, Dcr!height + j), valid |-> best[Dcr!height + j + 1]]
             V(i) == Dcr!is_valid_tx_tree(IF i < n THEN hashes[i + 1] ELSE Dcr!At(best, Len(hashes[i]) + 1))
             new == [i \in 1 .. n |-> [block |-> hashes[i], valid |-> V(i)]]
  <2>1. /\ n \in Nat /\ k \in Nat /\ DOMAIN hashes = 1 .. n
        /\ fetched = Dcr!height + k /\ fetched + n <= Dcr!daemon_height
        /\ \A i \in 1 .. n : hashes[i] = Dcr!At(best, fetched + i)
        /\ blocks = [i \in 1 .. k |-> E(i)]
    BY <1>0 DEF FetchInv
  <2>2. blocks' = blocks \o new /\ fetched' = fetched + n
    BY <1>5, <2>1 DEF Dcr!raw_blocks
  <2>3. Dcr!height \in Nat /\ Dcr!daemon_height \in Nat /\ best \in Seq(BOOLEAN) /\ fetched \in Nat
        /\ Len(best) \in Nat /\ (Dcr!daemon_height # 0 => Dcr!daemon_height = Len(best) - 1)
    BY <1>0, Heights DEF VotesTyped, Chain
  <2>4. \A i \in 1 .. n : new[i] = E(k + i)
    <3> SUFFICES ASSUME NEW i \in 1 .. n PROVE new[i] = E(k + i)
      OBVIOUS
    <3>1. /\ hashes[i] = Dcr!At(best, fetched + i) /\ fetched + i = Dcr!height + (k + i)
          /\ fetched + i \in 0 .. Len(best) /\ fetched + i + 1 \in 0 .. Len(best)
          /\ i < n => hashes[i + 1] = Dcr!At(best, fetched + i + 1)
      <4> HIDE DEF n, k
      <4>1. i < n => i + 1 \in 1 .. n
        BY <2>1
      <4>2. fetched + i <= Dcr!daemon_height /\ Dcr!daemon_height # 0
        BY <2>1, <2>3
      <4>3. i < n => fetched + (i + 1) = fetched + i + 1
        BY <2>3
      <4> QED
        BY <2>1, <2>3, <4>1, <4>2, <4>3
    <3>2. Len(hashes[i]) = fetched + i
      BY <2>3, <3>1, Starts
    <3>3. V(i) = Dcr!Last(Dcr!At(best, fetched + i + 1))
      BY <3>1, <3>2 DEF Dcr!is_valid_tx_tree
    <3>4. Dcr!Last(Dcr!At(best, fetched + i + 1)) = best[fetched + i + 1]
      <4> DEFINE j == fetched + i + 1
      <4>1. j \in 1 .. j /\ j \in 0 .. Len(best)
        BY <2>3, <3>1
      <4> HIDE DEF j
      <4>2. Len(Dcr!At(best, j)) = j /\ Dcr!At(best, j)[j] = best[j]
        BY <2>3, <4>1, Starts
      <4> QED
        BY <4>2 DEF Dcr!Last, j
    <3>5. fetched + i + 1 = Dcr!height + (k + i) + 1
      BY <3>1
    <3>6. new[i] = [block |-> hashes[i], valid |-> V(i)]
      OBVIOUS
    <3> HIDE DEF V, new, n, k
    <3> QED
      BY <3>1, <3>3, <3>4, <3>5, <3>6
  <2>5. blocks' = [i \in 1 .. k + n |-> E(i)] /\ Len(blocks') = k + n
    <3> HIDE DEF E, V
    <3>1. new = [i \in 1 .. n |-> E(k + i)]
      BY <2>4
    <3> HIDE DEF new, n, k
    <3>2. blocks' = [i \in 1 .. k |-> E(i)] \o [i \in 1 .. n |-> E(k + i)]
      BY <2>1, <2>2, <3>1
    <3> QED
      BY <2>1, <3>2, Joined
  <2>6. VotesTyped'
    <3> HIDE DEF n, k
    <3> QED
      BY <1>0, <1>1, <1>2, <2>1, <2>2, <2>3 DEF VotesTyped
  <2>7. FetchInv'
    <3>1. hashes' = [i \in 1 .. 0 |-> Dcr!At(best, fetched' + i)]
      BY <1>1
    <3>2. fetched' = Dcr!height + (k + n) /\ k + n \in Nat /\ fetched' + 0 <= Dcr!daemon_height
      <4> HIDE DEF n, k
      <4> QED
        BY <2>1, <2>2, <2>3
    <3> HIDE DEF n, k
    <3>3. blocks' = [i \in 1 .. Len(blocks') |-> [block |-> Dcr!At(best, Dcr!height + i), valid |-> best[Dcr!height + i + 1]]]
      BY <2>5
    <3> QED
      BY <1>1, <1>2, <2>5, <3>1, <3>2, <3>3 DEF FetchInv, Dcr!At
  <2> QED
    BY <1>3, <2>6, <2>7 DEF VotesInv
<1> QED
  BY <1>4, <1>5 DEF Dcr!raw_blocks

\* The first prefetched block is the one above the server's height on the daemon's chain.
LEMMA FirstBlock ==
    ASSUME VotesTyped, FetchInv, blocks # <<>>
    PROVE  Len(blocks) > 0 /\ Dcr!Front(blocks[1].block) = Dcr!At(best, Dcr!height)
<1>1. /\ Dcr!height \in Nat /\ Len(blocks) \in Nat /\ Len(blocks) > 0 /\ best \in Seq(BOOLEAN)
      /\ Dcr!height + Len(blocks) <= Len(best) /\ Len(best) \in Nat
  <2>1. /\ Dcr!height \in Nat /\ Len(best) \in Nat /\ Dcr!daemon_height \in Nat /\ Dcr!daemon_height <= Len(best)
        /\ best \in Seq(BOOLEAN) /\ Len(blocks) \in Nat /\ Len(hashes) \in Nat
        /\ fetched = Dcr!height + Len(blocks) /\ fetched + Len(hashes) <= Dcr!daemon_height
    BY Heights DEF VotesTyped, FetchInv, Chain
  <2>2. Len(blocks) > 0
    <3> SUFFICES ASSUME Len(blocks) = 0 PROVE blocks = <<>>
      BY <2>1
    <3>1. blocks = [i \in 1 .. Len(blocks) |-> [block |-> Dcr!At(best, Dcr!height + i), valid |-> best[Dcr!height + i + 1]]]
      BY DEF FetchInv
    <3> QED
      BY <3>1
  <2> QED
    BY <2>1, <2>2
<1>2. blocks[1].block = Dcr!At(best, Dcr!height + 1)
  <2>1. 1 \in 1 .. Len(blocks)
    BY <1>1
  <2> QED
    BY <2>1 DEF FetchInv
<1> DEFINE b == Dcr!At(best, Dcr!height + 1)
<1>3. b \in Seq(BOOLEAN) /\ Len(b) = Dcr!height + 1 /\ \A i \in 1 .. Dcr!height + 1 : b[i] = best[i]
  <2>1. Dcr!height + 1 \in 0 .. Len(best)
    BY <1>1
  <2> HIDE DEF b
  <2> QED
    BY <1>1, <2>1, Starts DEF b
<1>4. Dcr!At(b, Dcr!height) = Dcr!At(best, Dcr!height)
  <2> HIDE DEF b
  <2>1. Dcr!height \in 0 .. Len(b) /\ Dcr!height <= Len(best) /\ \A i \in 1 .. Dcr!height : b[i] = best[i]
    BY <1>1, <1>3
  <2> QED
    BY <1>1, <1>3, <2>1, EqualStarts
<1>5. Dcr!Front(b) = Dcr!At(b, Dcr!height)
  <2> HIDE DEF b
  <2>1. Len(b) - 1 = Dcr!height
    BY <1>1, <1>3
  <2> QED
    BY <2>1 DEF Dcr!Front, Dcr!At
<1> QED
  BY <1>1, <1>2, <1>4, <1>5

LEMMA AdvanceBlocksKeeps ==
    ASSUME VotesInv, Dcr!AdvanceBlocks
    PROVE  VotesInv'
<1>0. VotesTyped /\ FetchInv /\ OwnVotes
  BY DEF VotesInv
<1> DEFINE n == Len(blocks)
<1>1. /\ Dcr!height \in Nat /\ n \in Nat /\ n > 0 /\ best \in Seq(BOOLEAN) /\ tip \in Seq(BOOLEAN) /\ Len(best) \in Nat
      /\ Dcr!daemon_height \in Nat /\ Dcr!daemon_height = Len(best) - 1
      /\ fetched = Dcr!height + n /\ fetched + Len(hashes) <= Dcr!daemon_height /\ Len(hashes) \in Nat
      /\ Dcr!Front(blocks[1].block) = Dcr!At(best, Dcr!height)
      /\ trees \in Seq(BOOLEAN) /\ Len(trees) = Dcr!height
  <2>1. blocks # <<>>
    BY DEF Dcr!AdvanceBlocks
  <2> HIDE DEF n
  <2> QED
    BY <1>0, <2>1, Heights, FirstBlock DEF VotesTyped, FetchInv, Chain, OwnVotes, n
<1>2. /\ UNCHANGED <<best, hashes, fetched>> /\ blocks' = <<>>
      /\ tip' = Dcr!Last(blocks).block /\ trees' = trees \o [i \in DOMAIN blocks |-> blocks[i].valid]
      /\ Dcr!Front(blocks[1].block) = tip
  <2>1. 1 \in DOMAIN blocks
    BY <1>0, <1>1 DEF FetchInv
  <2> QED
    BY <2>1 DEF Dcr!AdvanceBlocks, Dcr!Connects
<1>3. /\ DOMAIN blocks = 1 .. n
      /\ \A i \in 1 .. n : /\ blocks[i].valid = best[Dcr!height + i + 1]
                           /\ blocks[i].block = Dcr!At(best, Dcr!height + i)
  BY <1>0 DEF FetchInv
<1> HIDE DEF n
<1>4. tip = Dcr!At(best, Dcr!height)
  BY <1>1, <1>2
<1>5. \A i \in 1 .. Dcr!height : tip[i] = best[i]
  <2>1. Dcr!height \in 0 .. Len(best)
    BY <1>1
  <2> QED
    BY <1>1, <1>4, <2>1, Starts
<1>6. Dcr!IsPrefix(tip, best)
  <2>1. Len(tip) <= Len(best) /\ \A i \in 1 .. Len(tip) : tip[i] = best[i]
    BY <1>1, <1>5 DEF Dcr!height
  <2> QED
    BY <1>1, <2>1, PrefixIs
<1>7. \A at \in 1 .. Dcr!height : trees[at] = best[at + 1]
  <2> SUFFICES ASSUME NEW at \in 1 .. Dcr!height PROVE trees[at] = best[at + 1]
    OBVIOUS
  <2>1. CASE at = Dcr!height
    BY <1>0, <1>1, <1>6, <2>1 DEF OwnVotes
  <2>2. CASE at # Dcr!height
    <3>1. at \in 1 .. Dcr!height - 1 /\ at + 1 \in 1 .. Dcr!height
      BY <1>1, <2>2
    <3> QED
      BY <1>0, <1>5, <3>1 DEF OwnVotes
  <2> QED
    BY <2>1, <2>2
<1>8. /\ tip' \in Seq(BOOLEAN) /\ Dcr!height' = Dcr!height + n
      /\ \A i \in 1 .. Dcr!height + n : tip'[i] = best[i]
  <2>1. Dcr!height + n \in 0 .. Len(best) /\ n \in 1 .. n
    BY <1>1
  <2>2. tip' = Dcr!At(best, Dcr!height + n)
    BY <1>2, <1>3, <2>1 DEF Dcr!Last, n
  <2> QED
    BY <1>1, <2>1, <2>2, Starts DEF Dcr!height
<1>9. /\ trees' \in Seq(BOOLEAN) /\ Len(trees') = Dcr!height + n
      /\ \A at \in 1 .. Dcr!height + n : trees'[at] = best[at + 1]
  <2> DEFINE new == [i \in 1 .. n |-> best[Dcr!height + i + 1]]
  <2>1. trees' = trees \o new
    BY <1>2, <1>3
  <2>2. new \in Seq(BOOLEAN) /\ Len(new) = n /\ \A i \in 1 .. n : new[i] = best[Dcr!height + i + 1]
    <3>1. \A i \in 1 .. n : Dcr!height + i + 1 \in 1 .. Len(best)
      BY <1>1
    <3> QED
      BY <1>1, <3>1
  <2> HIDE DEF new
  <2>3. trees' \in Seq(BOOLEAN) /\ Len(trees') = Dcr!height + n
    <3>1. trees \o new \in Seq(BOOLEAN) /\ Len(trees \o new) = Len(trees) + Len(new)
      BY <1>1, <2>2, ConcatProperties
    <3> QED
      BY <1>1, <2>1, <2>2, <3>1
  <2>4. ASSUME NEW at \in 1 .. Dcr!height + n PROVE trees'[at] = best[at + 1]
    <3>1. CASE at <= Dcr!height
      <4>1. at \in 1 .. Dcr!height /\ trees'[at] = trees[at]
        BY <1>1, <2>1, <2>2, <3>1
      <4> QED
        BY <1>7, <4>1
    <3>2. CASE at > Dcr!height
      <4>1. at - Dcr!height \in 1 .. n /\ trees'[at] = new[at - Dcr!height] /\ (Dcr!height + (at - Dcr!height)) + 1 = at + 1
        BY <1>1, <2>1, <2>2, <3>2
      <4> QED
        BY <2>2, <4>1
    <3> QED
      BY <1>1, <3>1, <3>2
  <2> QED
    BY <2>3, <2>4
<1>10. Dcr!height' <= Dcr!daemon_height /\ Dcr!daemon_height' = Dcr!daemon_height
  BY <1>1, <1>2, <1>8 DEF Dcr!daemon_height
<1>11. VotesTyped'
  BY <1>0, <1>2, <1>8, <1>10 DEF VotesTyped, Chain
<1>12. FetchInv'
  <2>1. Len(blocks') = 0
    BY <1>2
  <2>2. blocks' = [i \in 1 .. 0 |-> [block |-> Dcr!At(best, Dcr!height' + i), valid |-> best[Dcr!height' + i + 1]]]
    BY <1>2
  <2>3. hashes' = [i \in 1 .. Len(hashes') |-> Dcr!At(best', fetched' + i)]
    BY <1>0, <1>2 DEF FetchInv, Dcr!At
  <2>4. fetched' = Dcr!height' + 0 /\ Len(hashes') \in Nat /\ fetched' + Len(hashes') <= Dcr!daemon_height'
    BY <1>1, <1>2, <1>8, <1>10
  <2>5. blocks' = [i \in 1 .. Len(blocks') |-> [block |-> Dcr!At(best', Dcr!height' + i), valid |-> best'[Dcr!height' + i + 1]]]
    BY <2>1, <2>2
  <2> QED
    BY <2>1, <2>3, <2>4, <2>5 DEF FetchInv
<1>13. OwnVotes'
  <2>1. \A at \in 1 .. Dcr!height' - 1 : trees'[at] = tip'[at + 1]
    <3> SUFFICES ASSUME NEW at \in 1 .. Dcr!height' - 1 PROVE trees'[at] = tip'[at + 1]
      OBVIOUS
    <3>1. at \in 1 .. Dcr!height + n /\ at + 1 \in 1 .. Dcr!height + n
      BY <1>1, <1>8
    <3> QED
      BY <1>8, <1>9, <3>1
  <2>2. Dcr!height' > 0 => trees'[Dcr!height'] = best'[Dcr!height' + 1]
    BY <1>1, <1>2, <1>8, <1>9
  <2> QED
    BY <1>8, <1>9, <2>1, <2>2 DEF OwnVotes
<1> QED
  BY <1>11, <1>12, <1>13 DEF VotesInv

\* The prefetcher starts again from where the server is.
LEMMA ResetKeeps ==
    ASSUME NEW k \in Nat, Dcr!ResetHeight(k), UNCHANGED best, VotesTyped, Dcr!height' = k,
           tip' \in Chain, k <= Dcr!daemon_height
    PROVE  VotesTyped' /\ FetchInv'
<1>1. /\ hashes' = <<>> /\ blocks' = <<>> /\ fetched' = k /\ best' = best
      /\ Len(hashes') = 0 /\ Len(blocks') = 0
  BY DEF Dcr!ResetHeight
<1>2. Dcr!daemon_height' = Dcr!daemon_height /\ Dcr!height' \in Nat /\ Dcr!daemon_height \in Nat
  BY <1>1, Heights DEF Dcr!daemon_height, Dcr!height, Chain
<1>3. VotesTyped'
  BY <1>1, <1>2 DEF VotesTyped
<1>4. hashes' = [i \in 1 .. Len(hashes') |-> Dcr!At(best', fetched' + i)]
  BY <1>1
<1>5. blocks' = [i \in 1 .. Len(blocks') |-> [block |-> Dcr!At(best', Dcr!height' + i), valid |-> best'[Dcr!height' + i + 1]]]
  BY <1>1
<1>6. /\ Len(hashes') \in Nat /\ Len(blocks') \in Nat /\ fetched' = Dcr!height' + Len(blocks')
      /\ fetched' + Len(hashes') <= Dcr!daemon_height'
  <2>1. fetched' = k /\ Dcr!height' = k /\ k <= Dcr!daemon_height /\ Dcr!daemon_height' = Dcr!daemon_height
    BY <1>1, <1>2
  <2>2. Len(hashes') = 0 /\ Len(blocks') = 0
    BY <1>1
  <2>3. Len(hashes') \in Nat /\ Len(blocks') \in Nat
    BY <2>2
  <2>4. fetched' = Dcr!height' + Len(blocks')
    <3>1. k = k + 0
      OBVIOUS
    <3> QED
      BY <2>1, <2>2, <3>1
  <2>5. fetched' + Len(hashes') <= Dcr!daemon_height'
    BY <2>1, <2>2
  <2> QED
    BY <2>3, <2>4, <2>5
<1>7. FetchInv'
  BY <1>4, <1>5, <1>6 DEF FetchInv
<1> QED
  BY <1>3, <1>7

LEMMA NotAChainKeeps ==
    ASSUME VotesInv, Dcr!NotAChain
    PROVE  VotesInv'
<1>0. VotesTyped /\ FetchInv /\ OwnVotes
  BY DEF VotesInv
<1>1. Dcr!ResetHeight(Dcr!height) /\ UNCHANGED <<best, tip, trees>>
  BY DEF Dcr!NotAChain
<1>2. Dcr!height \in Nat /\ Dcr!height' = Dcr!height /\ tip' \in Chain /\ Dcr!height <= Dcr!daemon_height
  BY <1>0, <1>1, Heights DEF Dcr!height, VotesTyped
<1>3. VotesTyped' /\ FetchInv'
  BY <1>0, <1>1, <1>2, ResetKeeps
<1>4. OwnVotes'
  BY <1>0, <1>1, <1>2 DEF OwnVotes, Dcr!IsPrefix
<1> QED
  BY <1>3, <1>4 DEF VotesInv

Kept == IF Dcr!calc_reorg_range > 0 THEN Dcr!calc_reorg_range - 1 ELSE 0

\* A block more is backed up than the first that differs: the vote on the last block kept
\* is in a block that both chains share.
LEMMA KeptShared ==
    ASSUME Dcr!height \in Nat, Dcr!height # 0
    PROVE  /\ Kept \in 0 .. Dcr!height - 1
           /\ Kept # 0 => Dcr!At(tip, Kept + 1) = Dcr!At(best, Kept + 1)
<1> DEFINE s == Dcr!BaseStart
<1>1. s \in 0 .. Dcr!height /\ (s > 0 => Dcr!At(tip, s - 1) = Dcr!At(best, s - 1))
  BY BaseStartShared
<1>2. Kept = IF s > 1 THEN s - 2 ELSE 0
  <2>1. Kept = IF (IF s > 0 THEN s - 1 ELSE s) > 0 THEN (IF s > 0 THEN s - 1 ELSE s) - 1 ELSE 0
    BY DEF Kept, Dcr!calc_reorg_range
  <2> HIDE DEF s
  <2> QED
    BY <1>1, <2>1
<1> HIDE DEF s
<1>3. Kept \in 0 .. Dcr!height - 1
  BY <1>1, <1>2
<1>4. Kept # 0 => s > 0 /\ Kept + 1 = s - 1
  BY <1>1, <1>2
<1> QED
  BY <1>1, <1>3, <1>4

LEMMA ReorgChainKeeps ==
    ASSUME VotesInv, Dcr!ReorgChain
    PROVE  VotesInv'
<1>0. VotesTyped /\ FetchInv /\ OwnVotes
  BY DEF VotesInv
<1>1. /\ blocks # <<>> /\ Dcr!Front(blocks[1].block) # tip /\ UNCHANGED best
      /\ tip' = Dcr!At(tip, Kept) /\ trees' = SubSeq(trees, 1, Kept) /\ Dcr!ResetHeight(Kept)
  BY DEF Dcr!ReorgChain, Kept
<1>2. /\ Dcr!height \in Nat /\ Dcr!height = Len(tip) /\ tip \in Seq(BOOLEAN) /\ best \in Seq(BOOLEAN)
      /\ Dcr!height <= Len(best) /\ Len(best) \in Nat /\ Dcr!height <= Dcr!daemon_height /\ Dcr!daemon_height \in Nat
      /\ trees \in Seq(BOOLEAN) /\ Len(trees) = Dcr!height
  BY <1>0, Heights DEF VotesTyped, Chain, OwnVotes, Dcr!height
<1>3. Dcr!height # 0
  <2> SUFFICES ASSUME Dcr!height = 0 PROVE FALSE
    OBVIOUS
  <2>1. Dcr!At(best, Dcr!height) # tip
    BY <1>0, <1>1, FirstBlock
  <2>2. Dcr!At(best, Dcr!height) \in Seq(BOOLEAN) /\ Len(Dcr!At(best, Dcr!height)) = 0
    BY <1>2, Starts
  <2> QED
    BY <1>2, <2>1, <2>2
<1>4. Kept \in 0 .. Dcr!height - 1 /\ (Kept # 0 => Dcr!At(tip, Kept + 1) = Dcr!At(best, Kept + 1))
  BY <1>2, <1>3, KeptShared
<1> DEFINE k == Kept
<1> HIDE DEF k
<1>5. /\ k \in Nat /\ k <= Dcr!height - 1 /\ tip' = Dcr!At(tip, k) /\ trees' = SubSeq(trees, 1, k) /\ Dcr!ResetHeight(k)
      /\ k # 0 => Dcr!At(tip, k + 1) = Dcr!At(best, k + 1)
  BY <1>1, <1>2, <1>4 DEF k
<1>6. tip' \in Seq(BOOLEAN) /\ Dcr!height' = k /\ \A i \in 1 .. k : tip'[i] = tip[i]
  <2>1. k \in 0 .. Len(tip)
    BY <1>2, <1>5
  <2> QED
    BY <1>2, <1>5, <2>1, Starts DEF Dcr!height
<1>7. trees' \in Seq(BOOLEAN) /\ Len(trees') = k /\ \A i \in 1 .. k : trees'[i] = trees[i]
  <2>1. k \in 0 .. Len(trees) /\ trees' = Dcr!At(trees, k)
    BY <1>2, <1>5 DEF Dcr!At
  <2> QED
    BY <1>2, <2>1, Starts
<1>8. VotesTyped' /\ FetchInv'
  <2>1. k <= Dcr!daemon_height
    BY <1>2, <1>5
  <2> QED
    BY <1>0, <1>1, <1>5, <1>6, <2>1, ResetKeeps DEF Chain
<1>9. \A at \in 1 .. k - 1 : trees'[at] = tip'[at + 1]
  <2> SUFFICES ASSUME NEW at \in 1 .. k - 1 PROVE trees'[at] = tip'[at + 1]
    OBVIOUS
  <2>1. at \in 1 .. k /\ at + 1 \in 1 .. k /\ at \in 1 .. Dcr!height - 1
    BY <1>2, <1>5
  <2> QED
    BY <1>0, <1>6, <1>7, <2>1 DEF OwnVotes
<1>10. k > 0 => trees'[k] = best[k + 1]
  <2> SUFFICES ASSUME k > 0 PROVE trees'[k] = best[k + 1]
    OBVIOUS
  <2>1. /\ k \in 1 .. k /\ k \in 1 .. Dcr!height - 1 /\ k + 1 \in 0 .. Len(tip) /\ k + 1 <= Len(best)
        /\ k + 1 \in 1 .. k + 1
    BY <1>2, <1>5
  <2>2. tip[k + 1] = best[k + 1]
    BY <1>2, <1>5, <2>1, EqualStarts
  <2> QED
    BY <1>0, <1>7, <2>1, <2>2 DEF OwnVotes
<1>11. OwnVotes'
  BY <1>1, <1>6, <1>7, <1>9, <1>10 DEF OwnVotes
<1> QED
  BY <1>8, <1>11 DEF VotesInv

LEMMA VotesInit ==
    ASSUME Dcr!Init PROVE VotesInv
<1>1. best = <<>> /\ tip = <<>> /\ trees = <<>> /\ hashes = <<>> /\ blocks = <<>> /\ fetched = 0
  BY DEF Dcr!Init
<1>2. Len(best) = 0 /\ Len(tip) = 0 /\ Len(trees) = 0 /\ Len(hashes) = 0 /\ Len(blocks) = 0
  BY <1>1
<1>3. Dcr!height = 0 /\ Dcr!daemon_height = 0
  BY <1>2 DEF Dcr!height, Dcr!daemon_height
<1>4. VotesTyped
  BY <1>1, <1>3 DEF VotesTyped, Chain
<1>5. hashes = [i \in 1 .. 0 |-> Dcr!At(best, fetched + i)]
  BY <1>1
<1>6. blocks = [i \in 1 .. 0 |-> [block |-> Dcr!At(best, Dcr!height + i), valid |-> best[Dcr!height + i + 1]]]
  BY <1>1
<1>7. FetchInv
  BY <1>1, <1>2, <1>3, <1>5, <1>6 DEF FetchInv
<1>8. OwnVotes
  BY <1>1, <1>2, <1>3 DEF OwnVotes
<1> QED
  BY <1>4, <1>7, <1>8 DEF VotesInv

LEMMA VotesFollowed ==
    ASSUME VotesInv PROVE Dcr!TreesFollowVotes
<1> SUFFICES ASSUME Dcr!IsPrefix(tip, best), NEW at \in 1 .. Dcr!height
             PROVE  trees[at] = best[at + 1]
  BY DEF Dcr!TreesFollowVotes
<1>0. VotesTyped /\ OwnVotes
  BY DEF VotesInv
<1>1. Dcr!height \in Nat /\ Dcr!height = Len(tip)
  BY <1>0, Heights DEF Dcr!height
<1>2. CASE at = Dcr!height
  BY <1>0, <1>1, <1>2 DEF OwnVotes
<1>3. CASE at # Dcr!height
  <2>1. at \in 1 .. Dcr!height - 1 /\ at + 1 \in 1 .. Len(tip)
    BY <1>1, <1>3
  <2>2. tip[at + 1] = best[at + 1]
    BY <1>0, <2>1, PrefixIs DEF VotesTyped, Chain
  <2> QED
    BY <1>0, <2>1, <2>2 DEF OwnVotes
<1> QED
  BY <1>2, <1>3

\* DecredDaemon.height and raw_blocks, DecredBlockProcessor.calc_reorg_range: whatever
\* chains the daemon moves to when the server has followed it, in batches of any size, each
\* block that the daemon's chain holds was advanced as the block after it votes.
THEOREM VotesAreFollowed ==
    ASSUME Dcr!DecredAssumption
    PROVE  Dcr!Spec => []TreesFollowVotes
<1>1. Dcr!Init => VotesInv
  BY VotesInit
<1>2. VotesInv /\ [Dcr!Next]_(Dcr!vars) => VotesInv'
  <2> SUFFICES ASSUME VotesInv, [Dcr!Next]_(Dcr!vars) PROVE VotesInv'
    OBVIOUS
  <2>1. CASE UNCHANGED Dcr!vars
    BY <2>1 DEF Dcr!vars, VotesInv, VotesTyped, FetchInv, OwnVotes, Dcr!height, Dcr!daemon_height, Dcr!At, Dcr!IsPrefix
  <2>2. CASE \E b \in Dcr!SeqOf(BOOLEAN, MaxHeight) : Dcr!NewBest(b)
    BY <2>2, NewBestKeeps DEF Dcr!DecredAssumption
  <2>3. CASE Dcr!GetHashes
    BY <2>3, GetHashesKeeps
  <2>4. CASE Dcr!raw_blocks
    BY <2>4, raw_blocksKeeps
  <2>5. CASE Dcr!AdvanceBlocks
    BY <2>5, AdvanceBlocksKeeps
  <2>6. CASE Dcr!ReorgChain
    BY <2>6, ReorgChainKeeps
  <2>7. CASE Dcr!NotAChain
    BY <2>7, NotAChainKeeps
  <2> QED
    BY <2>1, <2>2, <2>3, <2>4, <2>5, <2>6, <2>7 DEF Dcr!Next
<1>3. VotesInv => TreesFollowVotes
  BY VotesFollowed DEF TreesFollowVotes
<1> QED
  BY <1>1, <1>2, <1>3, PTL DEF Dcr!Spec

-----------------------------------------------------------------------------
(* The upgrade.  Wherever the process dies, the cursor of the loop, or the one *)
(* stored with the rows, separates what is converted from what is not.      *)

\* The cursor in the history state is that of the last prefix upgraded.
CursorOK == upgrade_cursor \in Int /\ 0 <= upgrade_cursor + 1 /\ upgrade_cursor < PrefixCount

TypeOK ==
    /\ db_version \in {"old", "new"} /\ hist_version \in {"old", "new"}
    /\ u \in [Prefix -> {"none", "old", "new"}] /\ h \in [Prefix -> {"none", "old", "new"}]
    /\ hist \in [Prefix -> {0, 4, 5}]
    /\ CursorOK /\ cursor \in Nat
    /\ pc \in {"open", "u", "h", "counts", "state", "open history", "history", "read counts",
               "serving", "failed"}

\* The tables of outputs are upgraded up to the cursor, one table after the other.
TablesInv ==
    /\ pc = "u" => cursor \in Prefix /\ \A p \in Prefix : p < cursor => u[p] # "old"
    /\ pc = "h" => /\ cursor \in Prefix
                   /\ \A p \in Prefix : u[p] # "old" /\ (p < cursor => h[p] # "old")
    /\ pc \in {"counts", "state"} => \A p \in Prefix : u[p] # "old" /\ h[p] # "old"
    /\ RowsUpgraded

\* The history is upgraded up to the stored cursor, from which the loop goes on.
HistoryInv ==
    /\ pc \in {"counts", "state", "open history"} => cursor = 0
    /\ pc = "history" => hist_version = "old" /\ cursor <= upgrade_cursor + 1

WidthsInv ==
    /\ hist_version = "old" => \A p \in Prefix : IF p <= upgrade_cursor THEN hist[p] # 4 ELSE hist[p] # 5
    /\ hist_version = "new" => \A p \in Prefix : hist[p] # 4

OnceInv == TypeOK /\ TablesInv /\ HistoryInv /\ WidthsInv

\* The steps that leave the history alone, and those that leave the tables alone.
LEMMA WidthsKept ==
    ASSUME OnceInv, UNCHANGED history
    PROVE  WidthsInv'
  BY DEF OnceInv, WidthsInv, history

LEMMA RowsKept ==
    ASSUME OnceInv, UNCHANGED utxo
    PROVE  RowsUpgraded'
  BY DEF OnceInv, TablesInv, RowsUpgraded, utxo

\* Open, UpgradeU and UpgradeH: a table is left when the last prefix is done.
LEMMA TablesStep ==
    ASSUME UpgradeAssumption, OnceInv, Open \/ UpgradeU \/ UpgradeH
    PROVE  OnceInv'
<1>0. TypeOK /\ TablesInv /\ HistoryInv /\ WidthsInv
  BY DEF OnceInv
<1>1. WidthsInv'
  BY WidthsKept DEF Open, UpgradeU, UpgradeH
<1>2. CASE Open
  <2>1. TypeOK'
    BY <1>0, <1>2 DEF Open, TypeOK, CursorOK, utxo, history
  <2>2. HistoryInv'
    BY <1>2 DEF Open, HistoryInv
  <2>3. RowsUpgraded'
    BY <1>2, RowsKept DEF Open
  <2>4. 0 \in Prefix /\ \A p \in Prefix : ~(p < 0)
    BY DEF UpgradeAssumption, Prefix
  <2>5. TablesInv'
    BY <1>2, <2>3, <2>4 DEF Open, TablesInv
  <2> QED
    BY <1>1, <2>1, <2>2, <2>5 DEF OnceInv
<1>3. CASE UpgradeU
  <2> USE <1>0, <1>3 DEF UpgradeU, UpgradeRows, LastPrefix, history, UpgradeAssumption, Prefix
  <2>1. TypeOK'
    BY DEF TypeOK, CursorOK, TablesInv
  <2>2. TablesInv'
    BY DEF TypeOK, CursorOK, TablesInv, RowsUpgraded
  <2>3. HistoryInv'
    BY DEF TypeOK, CursorOK, TablesInv, HistoryInv
  <2> QED
    BY <1>1, <2>1, <2>2, <2>3 DEF OnceInv
<1>4. CASE UpgradeH
  <2> USE <1>0, <1>4 DEF UpgradeH, UpgradeRows, LastPrefix, history, UpgradeAssumption, Prefix
  <2>1. TypeOK'
    BY DEF TypeOK, CursorOK, TablesInv
  <2>2. TablesInv'
    BY DEF TypeOK, CursorOK, TablesInv, RowsUpgraded
  <2>3. HistoryInv'
    BY DEF TypeOK, CursorOK, TablesInv, HistoryInv
  <2> QED
    BY <1>1, <2>1, <2>2, <2>3 DEF OnceInv
<1> QED
  BY <1>2, <1>3, <1>4

\* UpgradeCursor widens the prefix after the stored cursor, and moves it there.
LEMMA HistoryStep ==
    ASSUME UpgradeAssumption, OnceInv, UpgradeCursor
    PROVE  OnceInv'
<1>0. TypeOK /\ TablesInv /\ HistoryInv /\ WidthsInv
  BY DEF OnceInv
<1> DEFINE next == IF cursor > upgrade_cursor THEN cursor ELSE upgrade_cursor + 1
<1>1. next = upgrade_cursor + 1 /\ next \in Nat
  BY <1>0 DEF UpgradeCursor, TypeOK, CursorOK, HistoryInv
<1>2. /\ pc = "history" /\ pc' = pc /\ hist_version' = hist_version /\ next < PrefixCount
      /\ hist' = [hist EXCEPT ![next] = IF @ = 0 THEN 0 ELSE @ + 1]
      /\ upgrade_cursor' = next /\ cursor' = next + 1
      /\ UNCHANGED utxo
  BY DEF UpgradeCursor, CursorWritten
<1> HIDE DEF next
<1>3. next \in Prefix /\ hist[next] # 5 /\ hist_version = "old"
  <2>1. next \in Prefix /\ hist_version = "old"
    BY <1>0, <1>1, <1>2 DEF HistoryInv, Prefix, UpgradeAssumption
  <2>2. ~(next <= upgrade_cursor)
    <3>1. upgrade_cursor \in Int
      BY <1>0 DEF TypeOK, CursorOK
    <3> QED
      BY <1>1, <3>1
  <2> QED
    BY <1>0, <2>1, <2>2 DEF WidthsInv
<1>4. hist' \in [Prefix -> {0, 4, 5}] /\ \A p \in Prefix : hist'[p] = IF p = next /\ hist[p] # 0 THEN 5 ELSE hist[p]
  BY <1>0, <1>2, <1>3 DEF TypeOK, CursorOK
<1>5. TypeOK'
  BY <1>0, <1>1, <1>2, <1>3, <1>4 DEF TypeOK, CursorOK, utxo
<1>6. TablesInv'
  <2>1. RowsUpgraded'
    BY <1>2, RowsKept
  <2> QED
    BY <1>2, <2>1 DEF TablesInv
<1>7. HistoryInv'
  BY <1>1, <1>2, <1>3 DEF HistoryInv
<1>8. WidthsInv'
  BY <1>0, <1>1, <1>2, <1>3, <1>4 DEF TypeOK, CursorOK, WidthsInv, Prefix
<1> QED
  BY <1>5, <1>6, <1>7, <1>8 DEF OnceInv

\* Every row is converted once, for every number of prefixes, every length of the file
\* of counts and however often the process dies (upgrade_db, History.upgrade_db).
THEOREM RowsConvertedOnce ==
    ASSUME UpgradeAssumption
    PROVE  Spec => []RowsOnce
<1>1. Init => OnceInv
  <2> SUFFICES ASSUME Init PROVE OnceInv
    OBVIOUS
  <2>1. TypeOK
    BY DEF Init, TypeOK, CursorOK, UpgradeAssumption
  <2>2. TablesInv /\ HistoryInv
    BY DEF Init, TablesInv, HistoryInv, RowsUpgraded
  <2>3. WidthsInv
    BY DEF Init, WidthsInv, Prefix, UpgradeAssumption
  <2> QED
    BY <2>1, <2>2, <2>3 DEF OnceInv
<1>2. OnceInv /\ [Next]_vars => OnceInv'
  <2> SUFFICES ASSUME OnceInv, [Next]_vars PROVE OnceInv'
    OBVIOUS
  <2>0. TypeOK /\ TablesInv /\ HistoryInv /\ WidthsInv
    BY DEF OnceInv
  <2>1. CASE Open \/ UpgradeU \/ UpgradeH
    BY <2>1, TablesStep
  <2>2. CASE UpgradeCursor
    BY <2>2, HistoryStep
  <2>3. CASE WriteHistoryState
    <3> USE <2>0, <2>3 DEF WriteHistoryState
    <3>1. CursorOK'
      <4>1. upgrade_cursor' = -1
        OBVIOUS
      <4>2. PrefixCount \in Nat \ {0}
        BY DEF UpgradeAssumption
      <4> QED
        BY ONLY <4>1, <4>2 DEF CursorOK
    <3>2. TypeOK'
      BY <3>1 DEF TypeOK, CursorOK, utxo
    <3>3. TablesInv'
      <4>1. RowsUpgraded'
        BY RowsKept
      <4> QED
        BY <4>1 DEF TablesInv
    <3>4. HistoryInv'
      BY DEF HistoryInv
    <3>5. \A p \in Prefix : hist[p] # 4
      <4>1. \A p \in Prefix : p <= upgrade_cursor
        <5>1. PrefixCount \in Nat /\ upgrade_cursor = PrefixCount - 1
          BY DEF UpgradeAssumption
        <5> QED
          BY ONLY <5>1 DEF Prefix
      <4> QED
        BY <4>1 DEF HistoryInv, WidthsInv
    <3>6. WidthsInv'
      BY <3>5 DEF WidthsInv
    <3> QED
      BY <3>2, <3>3, <3>4, <3>6 DEF OnceInv
  <2>4. CASE UpgradeCounts \/ WriteUtxoState \/ OpenHistory \/ ReadTxCounts \/ Crash \/ UNCHANGED vars
    <3> USE <2>0, <2>4 DEF UpgradeCounts, WriteUtxoState, OpenHistory, ReadTxCounts, Crash, vars
    <3>1. UNCHANGED <<u, h, undo, history>> /\ db_version' \in {db_version, "new"}
      BY DEF utxo
    <3>2. CursorOK'
      BY <3>1 DEF TypeOK, CursorOK, history
    <3>3. cursor' = cursor \/ cursor' = 0
      OBVIOUS
    <3>4. cursor' \in Nat
      <4>1. cursor \in Nat
        BY <2>0 DEF TypeOK
      <4> QED
        BY ONLY <3>3, <4>1
    <3>5. pc' = pc \/ pc' \in {"open", "state", "open history", "history", "read counts", "serving", "failed"}
      OBVIOUS
    <3>6. UNCHANGED <<u, h, undo, history>> /\ TypeOK'
      BY ONLY <2>0, <3>1, <3>2, <3>4, <3>5 DEF TypeOK, history
    <3>7. TablesInv'
      BY <2>0, <2>4, <3>6 DEF TablesInv, RowsUpgraded, UpgradeCounts, WriteUtxoState, OpenHistory,
         ReadTxCounts, Crash, vars, utxo
    <3>8. HistoryInv'
      <4>1. upgrade_cursor + 1 >= 0
        BY <2>0 DEF TypeOK, CursorOK
      <4> QED
        BY <2>0, <2>4, <3>6, <4>1 DEF TypeOK, CursorOK, HistoryInv, UpgradeCounts, WriteUtxoState, OpenHistory,
           ReadTxCounts, Crash, vars, history
    <3>9. WidthsInv'
      BY <3>6, WidthsKept
    <3> QED
      BY <3>6, <3>7, <3>8, <3>9 DEF OnceInv
  <2> QED
    BY <2>1, <2>2, <2>3, <2>4 DEF Next, Work
<1>3. OnceInv => RowsOnce
  BY DEF OnceInv, TypeOK, CursorOK, TablesInv, WidthsInv, RowsOnce, HistoryOnce
<1> QED
  BY <1>1, <1>2, <1>3, PTL DEF Spec

-----------------------------------------------------------------------------
(* The files of headers.                                                    *)

Cells == (Nat \X {"a", "b"} \X Nat) \cup {Hole}
FileSets == [0 .. MaxFiles - 1 -> Seq(Cells)]
Headers == [height : Nat, branch : {"a", "b"}, size : Nat]

WithinSize(f) == \A n \in 0 .. MaxFiles - 1 : Len(f[n]) <= file_size

\* The byte at a place of the logical file.
Has(f, x) == x \div file_size \in 0 .. MaxFiles - 1 /\ x % file_size < Len(f[x \div file_size])
CellAt(f, x) == f[x \div file_size][(x % file_size) + 1]

\* The file has these bytes from a place on.
Holds(f, x, b) == \A i \in 1 .. Len(b) : Has(f, x + i - 1) /\ CellAt(f, x + i - 1) = b[i]

HeadersTyped ==
    /\ STATIC_BLOCK_HEADERS \in BOOLEAN
    /\ headers_file \in FileSets /\ WithinSize(headers_file)
    /\ headers_offsets_file \in [0 .. MaxHeaders + 1 -> Nat]
    /\ chain \in Seq(Headers) /\ Len(chain) <= MaxHeaders + 1
    /\ flush \in Seq(Headers) /\ stage \in {"headers", "offsets", "state"}

\* A header of the size that the coin or its block tells.
OfItsSize(header, at) ==
    IF STATIC_BLOCK_HEADERS THEN header.size = Hdr!static_header_len(at)
                            ELSE BASIC_HEADER_SIZE <= header.size

\* The headers of the chain follow each other from the start of the file.
OffsetsRight ==
    /\ Hdr!header_offset(0) = 0
    /\ \A n \in 1 .. Len(chain) :
         /\ Hdr!header_offset(n) = Hdr!header_offset(n - 1) + chain[n].size
         /\ OfItsSize(chain[n], n - 1)

ContentRight ==
    \A n \in 1 .. Len(chain) : Holds(headers_file, Hdr!header_offset(n - 1), Hdr!Bytes(chain[n]))

\* What is being flushed is behind them, and so are its offsets once they are written.
FlushRight ==
    stage # "headers" =>
        /\ Len(flush) \in {1, 2} /\ Len(chain) + Len(flush) <= MaxHeaders + 1
        /\ \A n \in 1 .. Len(flush) : OfItsSize(flush[n], Len(chain) + n - 1)
        /\ Holds(headers_file, Hdr!header_offset(Len(chain)), Hdr!Join(flush))
        /\ stage = "state" =>
             \A n \in 1 .. Len(flush) : Hdr!header_offset(Len(chain) + n) = Hdr!EndOf(n)

HeadersInv == HeadersTyped /\ OffsetsRight /\ ContentRight /\ FlushRight

LEMMA HeaderConstants ==
    ASSUME Hdr!HeadersAssumption
    PROVE  /\ file_size \in Nat \ {0} /\ MaxFiles \in Nat /\ BASIC_HEADER_SIZE \in Nat
           /\ ExpandedHeight \in Nat /\ ExpandedSize \in Nat /\ Sizes \subseteq Nat
           /\ MaxHeaders \in Nat /\ \A size \in Sizes : BASIC_HEADER_SIZE <= size
  BY DEF Hdr!HeadersAssumption

\* A place of the logical file is a file and a place in it.
LEMMA PlaceOf ==
    ASSUME NEW fs \in Nat \ {0}, NEW x \in Nat
    PROVE  /\ x \div fs \in Nat /\ x % fs \in 0 .. fs - 1
           /\ x = fs * (x \div fs) + (x % fs)
  BY SMTT(30)

LEMMA PlaceIs ==
    ASSUME NEW fs \in Nat \ {0}, NEW n \in Nat, NEW i \in 0 .. fs - 1
    PROVE  (fs * n + i) \div fs = n /\ (fs * n + i) % fs = i
  BY SMTT(30)

LEMMA OverwrittenRight ==
    ASSUME NEW s \in Seq(Cells), NEW b \in Seq(Cells), NEW at \in Nat
    PROVE  LET o == Hdr!Overwritten(s, at, b)
           IN /\ o \in Seq(Cells) /\ Len(o) = IF Len(s) < at + Len(b) THEN at + Len(b) ELSE Len(s)
              /\ \A i \in 1 .. Len(b) : o[at + i] = b[i]
              /\ \A i \in 1 .. Len(s) : i <= at \/ i > at + Len(b) => o[i] = s[i]
<1> DEFINE m == IF Len(s) < at + Len(b) THEN at + Len(b) ELSE Len(s)
           cell(i) == IF i > at /\ i <= at + Len(b) THEN b[i - at]
                      ELSE IF i <= Len(s) THEN s[i] ELSE Hole
           o == [i \in 1 .. m |-> cell(i)]
<1>1. Hdr!Overwritten(s, at, b) = o
  BY DEF Hdr!Overwritten, Hdr!Higher
<1>2. m \in Nat /\ Len(s) \in Nat /\ Len(b) \in Nat /\ at + Len(b) <= m /\ Len(s) <= m
  OBVIOUS
<1>3. ASSUME NEW i \in 1 .. m PROVE cell(i) \in Cells
  <2>1. CASE i > at /\ i <= at + Len(b)
    <3>1. i - at \in 1 .. Len(b)
      BY <1>2, <2>1
    <3> QED
      BY <2>1, <3>1
  <2>2. CASE ~(i > at /\ i <= at + Len(b)) /\ i <= Len(s)
    BY <1>2, <2>2
  <2>3. CASE ~(i > at /\ i <= at + Len(b)) /\ ~(i <= Len(s))
    BY <2>3 DEF Cells
  <2> QED
    BY <2>1, <2>2, <2>3
<1> HIDE DEF m
<1>4. o \in Seq(Cells) /\ Len(o) = m
  <2> HIDE DEF cell
  <2> QED
    BY <1>2, <1>3
<1>5. ASSUME NEW i \in 1 .. Len(b) PROVE o[at + i] = b[i]
  <2>1. at + i \in 1 .. m /\ at + i > at /\ at + i <= at + Len(b) /\ (at + i) - at = i
    BY <1>2
  <2> QED
    BY <2>1
<1>6. ASSUME NEW i \in 1 .. Len(s), i <= at \/ i > at + Len(b) PROVE o[i] = s[i]
  <2>1. i \in 1 .. m /\ ~(i > at /\ i <= at + Len(b)) /\ i <= Len(s)
    BY <1>2, <1>6
  <2> QED
    BY <2>1
<1> HIDE DEF o
<1> QED
  BY <1>1, <1>4, <1>5, <1>6 DEF m

\* Place x, which is place i of this file, has its byte of b.
Gets(g, i, start, b, x) == x >= start /\ x < start + Len(b) => i < Len(g) /\ g[i + 1] = b[x - start + 1]

\* One of the files: it gets what of b belongs to it, and keeps the rest.
LEMMA FileWritten ==
    ASSUME Hdr!HeadersAssumption, NEW f \in FileSets, WithinSize(f), NEW start \in Nat, NEW b \in Seq(Cells),
           NEW n \in 0 .. MaxFiles - 1
    PROVE  LET g == Hdr!Write(f, start, b)[n]
               lo == file_size * n
           IN /\ g \in Seq(Cells) /\ Len(f[n]) <= Len(g) /\ Len(g) <= file_size
              /\ \A i \in 0 .. file_size - 1 : Gets(g, i, start, b, lo + i)
              /\ \A i \in 0 .. file_size - 1 :
                    (lo + i < start \/ lo + i >= start + Len(b)) /\ i < Len(f[n]) => g[i + 1] = f[n][i + 1]
<1> DEFINE lo == file_size * n
           first == IF start < lo THEN lo ELSE start
           end == IF start + Len(b) < lo + file_size THEN start + Len(b) ELSE lo + file_size
           cut == SubSeq(b, first - start + 1, end - start)
           g == IF first < end THEN Hdr!Overwritten(f[n], first - lo, cut) ELSE f[n]
<1>1. file_size \in Nat \ {0} /\ MaxFiles \in Nat /\ n \in Nat
  BY HeaderConstants
<1>2. lo \in Nat /\ n * file_size = lo /\ (n + 1) * file_size = lo + file_size
  BY <1>1
<1>3. Hdr!Write(f, start, b)[n] = g
  <2>1. n \in DOMAIN f
    BY DEF FileSets
  <2> HIDE DEF lo
  <2> QED
    BY <1>2, <2>1 DEF Hdr!Write, Hdr!Higher, Hdr!Lower
<1> HIDE DEF lo
<1>4. f[n] \in Seq(Cells) /\ Len(f[n]) \in Nat /\ Len(f[n]) <= file_size /\ Len(b) \in Nat
  BY DEF FileSets, WithinSize
<1>5. first \in Nat /\ end \in Nat /\ start <= first /\ lo <= first /\ end <= lo + file_size
      /\ end <= start + Len(b)
  BY <1>1, <1>2, <1>4
<1>6. \A i \in 0 .. file_size - 1 :
         lo + i >= start /\ lo + i < start + Len(b) <=> lo + i >= first /\ lo + i < end
  BY <1>1, <1>2, <1>4
<1>7. CASE first < end
  <2>1. cut \in Seq(Cells) /\ Len(cut) = end - first /\ first - lo \in Nat
        /\ \A i \in 1 .. end - first : cut[i] = b[first - start + i]
    <3>1. first - start + 1 \in 1 .. Len(b) /\ end - start \in 1 .. Len(b) /\ end - start - (first - start + 1) + 1 = end - first
      BY <1>1, <1>2, <1>4, <1>5, <1>7
    <3> HIDE DEF first, end
    <3>2. \A j \in first - start + 1 .. end - start : b[j] \in Cells
      BY <1>4, <1>5, <3>1
    <3>3. cut \in Seq(Cells) /\ Len(cut) = end - first
      BY <1>4, <1>5, <1>7, <3>1
    <3>4. \A i \in 1 .. end - first : cut[i] = b[first - start + i]
      BY <1>4, <1>5, <1>7, <3>1
    <3>5. first - lo \in Nat
      BY <1>2, <1>5
    <3> HIDE DEF cut
    <3> QED
      BY <3>3, <3>4, <3>5
  <2> HIDE DEF first, end, cut
  <2> DEFINE o == Hdr!Overwritten(f[n], first - lo, cut)
  <2>2. /\ o \in Seq(Cells)
        /\ Len(o) = IF Len(f[n]) < (first - lo) + Len(cut) THEN (first - lo) + Len(cut) ELSE Len(f[n])
        /\ \A i \in 1 .. Len(cut) : o[(first - lo) + i] = cut[i]
        /\ \A i \in 1 .. Len(f[n]) : i <= first - lo \/ i > (first - lo) + Len(cut) => o[i] = f[n][i]
    BY <1>4, <2>1, OverwrittenRight
  <2>3. g = o
    BY <1>7
  <2> HIDE DEF o, g
  <2>4. (first - lo) + Len(cut) = end - lo
    BY <1>2, <1>5, <2>1
  <2>5. Len(f[n]) <= Len(o) /\ Len(o) <= file_size /\ end - lo <= Len(o)
    BY <1>1, <1>2, <1>4, <1>5, <2>2, <2>4
  <2>6. ASSUME NEW i \in 0 .. file_size - 1, lo + i >= first, lo + i < end
        PROVE  i < Len(o) /\ o[i + 1] = b[lo + i - start + 1]
    <3>1. i < Len(o)
      BY <1>1, <1>2, <1>5, <2>2, <2>5, <2>6
    <3> DEFINE j == lo + i - first + 1
    <3>2. j \in 1 .. end - first /\ (first - lo) + j = i + 1 /\ first - start + j = lo + i - start + 1
      BY <1>1, <1>2, <1>5, <2>6
    <3> HIDE DEF j
    <3>3. o[(first - lo) + j] = cut[j] /\ cut[j] = b[first - start + j]
      BY <2>1, <2>2, <3>2
    <3> QED
      BY <3>1, <3>2, <3>3
  <2>7. ASSUME NEW i \in 0 .. file_size - 1, ~(lo + i >= first /\ lo + i < end), i < Len(f[n])
        PROVE  o[i + 1] = f[n][i + 1]
    <3>1. i + 1 \in 1 .. Len(f[n]) /\ (i + 1 <= first - lo \/ i + 1 > (first - lo) + Len(cut))
      BY <1>1, <1>2, <1>4, <1>5, <2>4, <2>7
    <3> QED
      BY <2>2, <3>1
  <2>8. \A i \in 0 .. file_size - 1 : Gets(g, i, start, b, lo + i)
    <3>1. ASSUME NEW i \in 0 .. file_size - 1 PROVE Gets(g, i, start, b, lo + i)
      <4>1. ASSUME lo + i >= start, lo + i < start + Len(b)
            PROVE  i < Len(g) /\ g[i + 1] = b[(lo + i) - start + 1]
        <5>1. lo + i >= first /\ lo + i < end
          BY <1>6, <4>1
        <5>2. i < Len(o) /\ o[i + 1] = b[lo + i - start + 1]
          BY <2>6, <5>1
        <5>3. lo + i - start + 1 = (lo + i) - start + 1
          BY <1>1, <1>2
        <5> QED
          BY <2>3, <5>2, <5>3
      <4> QED
        BY <4>1 DEF Gets
    <3> QED
      BY <3>1
  <2>9. \A i \in 0 .. file_size - 1 :
           (lo + i < start \/ lo + i >= start + Len(b)) /\ i < Len(f[n]) => g[i + 1] = f[n][i + 1]
    <3>1. ASSUME NEW i \in 0 .. file_size - 1, lo + i < start \/ lo + i >= start + Len(b), i < Len(f[n])
          PROVE  g[i + 1] = f[n][i + 1]
      <4>1. ~(lo + i >= start /\ lo + i < start + Len(b))
        BY <1>1, <1>2, <1>4, <3>1
      <4> QED
        BY <1>6, <2>3, <2>7, <3>1, <4>1
    <3> QED
      BY <3>1
  <2> QED
    BY <1>3, <2>2, <2>3, <2>5, <2>8, <2>9 DEF lo
<1>8. CASE ~(first < end)
  <2>1. g = f[n]
    BY <1>8
  <2>2. \A i \in 0 .. file_size - 1 : ~(lo + i >= start /\ lo + i < start + Len(b))
    BY <1>1, <1>2, <1>4, <1>5, <1>6, <1>8
  <2> HIDE DEF g
  <2> QED
    BY <1>3, <1>4, <2>1, <2>2 DEF lo, Gets
<1> QED
  BY <1>7, <1>8

\* A write across files puts its bytes where they belong and moves nothing else.
LEMMA WriteRight ==
    ASSUME Hdr!HeadersAssumption, NEW f \in FileSets, WithinSize(f), NEW start \in Nat, NEW b \in Seq(Cells),
           start + Len(b) <= MaxFiles * file_size
    PROVE  LET g == Hdr!Write(f, start, b)
           IN /\ g \in FileSets /\ WithinSize(g) /\ Holds(g, start, b)
              /\ \A x \in Nat : x < start /\ Has(f, x) => Has(g, x) /\ CellAt(g, x) = CellAt(f, x)
<1> DEFINE g == Hdr!Write(f, start, b)
<1>1. file_size \in Nat \ {0} /\ MaxFiles \in Nat /\ Len(b) \in Nat
  BY HeaderConstants
<1>2. DOMAIN g = 0 .. MaxFiles - 1 /\ g = [n \in DOMAIN g |-> g[n]]
  BY DEF Hdr!Write, FileSets
<1>3. \A n \in 0 .. MaxFiles - 1 :
         /\ g[n] \in Seq(Cells) /\ Len(f[n]) <= Len(g[n]) /\ Len(g[n]) <= file_size
         /\ \A i \in 0 .. file_size - 1 : Gets(g[n], i, start, b, file_size * n + i)
         /\ \A i \in 0 .. file_size - 1 :
               (file_size * n + i < start \/ file_size * n + i >= start + Len(b)) /\ i < Len(f[n])
                  => g[n][i + 1] = f[n][i + 1]
  BY FileWritten
<1> HIDE DEF g
<1>4. g \in FileSets /\ WithinSize(g)
  BY <1>2, <1>3 DEF FileSets, WithinSize
<1>5. ASSUME NEW i \in 1 .. Len(b)
      PROVE  Has(g, start + i - 1) /\ CellAt(g, start + i - 1) = b[i]
  <2> DEFINE x == start + i - 1
             n == x \div file_size
             o == x % file_size
  <2>1. x \in Nat /\ x >= start /\ x < start + Len(b) /\ x - start + 1 = i
    BY <1>1
  <2> HIDE DEF x
  <2>2. n \in Nat /\ o \in 0 .. file_size - 1 /\ x = file_size * n + o
    BY <1>1, <2>1, PlaceOf
  <2> HIDE DEF n, o
  <2>3. n \in 0 .. MaxFiles - 1
    <3>1. file_size * n < file_size * MaxFiles
      BY <1>1, <2>1, <2>2
    <3>2. CASE n >= MaxFiles
      <4>1. file_size * n >= file_size * MaxFiles
        BY <1>1, <2>2, <3>2
      <4> QED
        BY <1>1, <2>2, <3>1, <4>1
    <3> QED
      BY <1>1, <2>2, <3>2
  <2>4. o < Len(g[n]) /\ g[n][o + 1] = b[x - start + 1]
    <3>1. Gets(g[n], o, start, b, file_size * n + o)
      BY <1>3, <2>2, <2>3, Zenon
    <3>2. Gets(g[n], o, start, b, x)
      BY <2>2, <3>1, Zenon
    <3> QED
      BY <2>1, <3>2 DEF Gets
  <2> QED
    BY <2>1, <2>3, <2>4 DEF Has, CellAt, x, n, o
<1>6. ASSUME NEW x \in Nat, x < start, Has(f, x)
      PROVE  Has(g, x) /\ CellAt(g, x) = CellAt(f, x)
  <2> DEFINE n == x \div file_size
             o == x % file_size
  <2>1. n \in Nat /\ o \in 0 .. file_size - 1 /\ x = file_size * n + o
    BY <1>1, PlaceOf
  <2>2. n \in 0 .. MaxFiles - 1 /\ o < Len(f[n])
    BY <1>6 DEF Has
  <2> HIDE DEF n, o
  <2>3. g[n][o + 1] = f[n][o + 1] /\ o < Len(g[n])
    <3>1. file_size * n + o < start
      BY <1>6, <2>1
    <3>2. Len(f[n]) <= Len(g[n]) /\ Len(f[n]) \in Nat /\ Len(g[n]) \in Nat
      BY <1>3, <2>2 DEF FileSets
    <3>3. o < Len(g[n])
      BY <2>1, <2>2, <3>2
    <3> QED
      BY <1>3, <2>1, <2>2, <3>1, <3>3
  <2> QED
    BY <2>2, <2>3 DEF Has, CellAt, n, o
<1> QED
  BY <1>4, <1>5, <1>6 DEF g, Holds

\* One part of a read: at least a byte, and no more than is asked for.
LEMMA PartRight ==
    ASSUME Hdr!HeadersAssumption, NEW f \in FileSets, WithinSize(f), NEW at \in Nat, NEW end \in Nat, at < end,
           Has(f, at)
    PROVE  LET got == Hdr!PartAt(f, at, end)
           IN /\ Len(got) \in 1 .. end - at /\ got = [i \in 1 .. Len(got) |-> CellAt(f, at + i - 1)]
              /\ got \in Seq(Cells) /\ got # <<>>
<1> DEFINE n == at \div file_size
           o == at % file_size
           k == IF o + (end - at) < Len(f[n]) THEN o + (end - at) ELSE Len(f[n])
           s == SubSeq(f[n], o + 1, k)
<1>1. file_size \in Nat \ {0} /\ MaxFiles \in Nat
  BY HeaderConstants
<1>2. n \in Nat /\ o \in 0 .. file_size - 1 /\ at = file_size * n + o
  BY <1>1, PlaceOf
<1>3. n \in 0 .. MaxFiles - 1 /\ o < Len(f[n]) /\ f[n] \in Seq(Cells) /\ Len(f[n]) <= file_size
      /\ Len(f[n]) \in Nat /\ n \in DOMAIN f
  BY DEF Has, FileSets, WithinSize
<1>4. Hdr!PartAt(f, at, end) = s
  BY <1>3 DEF Hdr!PartAt, Hdr!Lower
<1> HIDE DEF n, o
<1>5. k \in o + 1 .. Len(f[n]) /\ k - o \in 1 .. end - at
  BY <1>2, <1>3
<1> HIDE DEF k
<1>6. s \in Seq(Cells) /\ Len(s) = k - o /\ \A i \in 1 .. k - o : s[i] = f[n][o + i]
  <2>1. \A i \in o + 1 .. k : f[n][i] \in Cells
    BY <1>2, <1>3, <1>5
  <2>2. Len(s) = k - (o + 1) + 1 /\ s \in Seq(Cells) /\ \A i \in 1 .. k - (o + 1) + 1 : s[i] = f[n][o + 1 + i - 1]
    BY <1>2, <1>5, <2>1, SubSeqProperties
  <2>3. k - (o + 1) + 1 = k - o /\ \A i \in 1 .. k - o : o + 1 + i - 1 = o + i
    BY <1>2, <1>5
  <2> QED
    BY <2>2, <2>3
<1>7. ASSUME NEW i \in 1 .. k - o PROVE CellAt(f, at + i - 1) = s[i]
  <2>1. o + i - 1 \in 0 .. file_size - 1 /\ at + i - 1 = file_size * n + (o + i - 1) /\ (o + i - 1) + 1 = o + i
    BY <1>1, <1>2, <1>3, <1>5
  <2>2. (at + i - 1) \div file_size = n /\ (at + i - 1) % file_size = o + i - 1
    <3> DEFINE j == o + i - 1
    <3>1. j \in 0 .. file_size - 1 /\ at + i - 1 = file_size * n + j
      BY <2>1
    <3> HIDE DEF j
    <3>2. (file_size * n + j) \div file_size = n /\ (file_size * n + j) % file_size = j
      BY <1>1, <1>2, <3>1, PlaceIs
    <3> QED
      BY ONLY <3>1, <3>2 DEF j
  <2> QED
    BY <1>6, <2>1, <2>2 DEF CellAt
<1> HIDE DEF s
<1>8. s = [i \in 1 .. k - o |-> s[i]]
  BY <1>6
<1>9. s = [i \in 1 .. k - o |-> CellAt(f, at + i - 1)]
  BY <1>7, <1>8
<1>10. s # <<>>
  BY <1>2, <1>5, <1>6
<1> QED
  BY <1>4, <1>5, <1>6, <1>9, <1>10

\* A read across files gives the bytes, if all are there.
LEMMA ReadRight ==
    ASSUME Hdr!HeadersAssumption, NEW f \in FileSets, WithinSize(f), NEW start \in Nat, NEW size \in Nat,
           \A x \in Nat : start <= x /\ x < start + size => Has(f, x)
    PROVE  Hdr!Read(f, start, size) = [i \in 1 .. size |-> CellAt(f, start + i - 1)]
<1> DEFINE end == start + size
           S == start .. end
           heldAt(at) == [i \in 1 .. end - at |-> CellAt(f, at + i - 1)]
           piece(at) == Hdr!PartAt(f, at, end)
           Step(g) == [at \in S |-> IF at = end \/ piece(at) = <<>> THEN <<>>
                                    ELSE piece(at) \o g[at + Len(piece(at))]]
           whole == [at \in S |-> heldAt(at)]
<1>1. end \in Nat /\ start <= end
  OBVIOUS
<1>2. Hdr!Read(f, start, size) = (CHOOSE g : g = Step(g))[start]
  BY Zenon DEF Hdr!Read
<1> HIDE DEF end
<1>3. ASSUME NEW at \in S, at # end
      PROVE  /\ at \in Nat /\ at < end /\ Len(piece(at)) \in 1 .. end - at /\ piece(at) # <<>>
             /\ piece(at) = [i \in 1 .. Len(piece(at)) |-> CellAt(f, at + i - 1)]
             /\ at + Len(piece(at)) \in S
             /\ piece(at) \o heldAt(at + Len(piece(at))) = heldAt(at)
  <2>1. at \in Nat /\ at < end /\ Has(f, at)
    BY <1>1, <1>3 DEF end
  <2>2. Len(piece(at)) \in 1 .. end - at /\ piece(at) # <<>> /\ piece(at) \in Seq(Cells)
        /\ piece(at) = [i \in 1 .. Len(piece(at)) |-> CellAt(f, at + i - 1)]
    BY <1>1, <2>1, PartRight
  <2> DEFINE k == Len(piece(at))
             p == piece(at)
             rest == heldAt(at + k)
             all == heldAt(at)
  <2>3. k \in Nat /\ at + k \in S /\ end - (at + k) \in Nat /\ end - at = k + (end - (at + k))
    BY <1>1, <2>1, <2>2
  <2>4. p = [i \in 1 .. k |-> CellAt(f, at + i - 1)]
    BY <2>2
  <2> HIDE DEF p, k
  <2>5. p \o rest = all
    <3> DEFINE V == { CellAt(f, x) : x \in Int }
    <3>1. \A x \in Int : CellAt(f, x) \in V
      OBVIOUS
    <3> HIDE DEF V
    <3>2. p \in Seq(V) /\ Len(p) = k /\ \A i \in 1 .. k : p[i] = CellAt(f, at + i - 1)
      <4>1. \A i \in 1 .. k : at + i - 1 \in Int
        BY <2>1, <2>3
      <4> QED
        BY <2>3, <2>4, <3>1, <4>1
    <3>3. rest \in Seq(V) /\ Len(rest) = end - (at + k)
          /\ \A i \in 1 .. end - (at + k) : rest[i] = CellAt(f, at + k + i - 1)
      <4>1. \A i \in 1 .. end - (at + k) : at + k + i - 1 \in Int
        BY <1>1, <2>1, <2>3
      <4> QED
        BY <2>3, <3>1, <4>1
    <3>4. all \in Seq(V) /\ Len(all) = end - at /\ \A i \in 1 .. end - at : all[i] = CellAt(f, at + i - 1)
      <4>1. \A i \in 1 .. end - at : at + i - 1 \in Int
        BY <1>1, <2>1, <2>3
      <4> QED
        BY <1>1, <2>1, <2>3, <3>1, <4>1
    <3> HIDE DEF rest, all
    <3>5. p \o rest \in Seq(V) /\ Len(p \o rest) = Len(p) + Len(rest)
          /\ \A i \in 1 .. Len(p) + Len(rest) : (p \o rest)[i] = IF i <= Len(p) THEN p[i] ELSE rest[i - Len(p)]
      <4>1. p \in Seq(V) /\ rest \in Seq(V)
        BY <3>2, <3>3
      <4> QED
        BY ONLY <4>1, ConcatProperties
    <3>6. Len(p \o rest) = Len(all)
      BY <2>3, <3>2, <3>3, <3>4, <3>5
    <3>7. ASSUME NEW i \in 1 .. Len(p \o rest) PROVE (p \o rest)[i] = all[i]
      <4>1. i \in 1 .. end - at /\ i \in 1 .. Len(p) + Len(rest)
        BY <3>4, <3>5, <3>6
      <4>2. CASE i <= k
        BY <2>3, <3>2, <3>4, <3>5, <4>1, <4>2
      <4>3. CASE ~(i <= k)
        <5>1. i - k \in 1 .. end - (at + k) /\ at + k + (i - k) - 1 = at + i - 1
          BY <1>1, <2>1, <2>3, <4>1, <4>3
        <5>2. (p \o rest)[i] = rest[i - k]
          BY <3>2, <3>5, <4>1, <4>3
        <5>3. rest[i - k] = CellAt(f, at + i - 1)
          BY <3>3, <5>1
        <5> QED
          BY <3>4, <4>1, <5>2, <5>3
      <4> QED
        BY <4>2, <4>3
    <3> QED
      BY <3>4, <3>5, <3>6, <3>7, SeqEqual
  <2> QED
    BY <2>1, <2>2, <2>3, <2>5 DEF p, k
<1>4. heldAt(end) = <<>>
  <2>1. end - end = 0
    BY <1>1
  <2> QED
    BY <2>1
<1>5. whole = Step(whole)
  <2> SUFFICES ASSUME NEW at \in S
               PROVE heldAt(at) = IF at = end \/ piece(at) = <<>> THEN <<>>
                                 ELSE piece(at) \o whole[at + Len(piece(at))]
    OBVIOUS
  <2>1. CASE at = end
    BY <1>4, <2>1
  <2>2. CASE at # end
    <3>1. at + Len(piece(at)) \in S /\ piece(at) \o heldAt(at + Len(piece(at))) = heldAt(at) /\ piece(at) # <<>>
      BY <1>3, <2>2
    <3> HIDE DEF heldAt, piece
    <3> QED
      BY <2>2, <3>1
  <2> QED
    BY <2>1, <2>2
<1> DEFINE g == CHOOSE g : g = Step(g)
<1>6. g = Step(g)
  <2> HIDE DEF Step, whole
  <2> QED
    BY <1>5, Zenon
<1> HIDE DEF g
<1>7. ASSUME NEW n \in Nat, end - n \in S, \A m \in Nat : m < n /\ end - m \in S => g[end - m] = heldAt(end - m)
      PROVE  g[end - n] = heldAt(end - n)
  <2> DEFINE at == end - n
  <2>1. at \in S /\ at \in Nat /\ (at = end <=> n = 0)
    BY <1>1, <1>7
  <2>2. g[at] = IF at = end \/ piece(at) = <<>> THEN <<>> ELSE piece(at) \o g[at + Len(piece(at))]
    BY <1>6, <2>1
  <2> HIDE DEF at
  <2>3. CASE at = end
    BY <1>4, <2>1, <2>2, <2>3 DEF at
  <2>4. CASE at # end
    <3>1. /\ Len(piece(at)) \in 1 .. end - at /\ piece(at) # <<>> /\ at + Len(piece(at)) \in S
          /\ piece(at) \o heldAt(at + Len(piece(at))) = heldAt(at)
      BY <1>3, <2>1, <2>4
    <3> DEFINE k == Len(piece(at))
    <3>2. k \in 1 .. end - at /\ at + k \in S
      BY <3>1
    <3> HIDE DEF heldAt, piece, k
    <3>3. n - k \in Nat /\ n - k < n /\ end - (n - k) = at + k
      BY <1>1, <2>1, <3>2 DEF at
    <3>4. g[at + k] = heldAt(at + k)
      BY <1>7, <3>2, <3>3
    <3> QED
      BY <2>2, <2>4, <3>1, <3>4 DEF at, k
  <2> QED
    BY <2>3, <2>4
<1>8. \A n \in Nat : end - n \in S => g[end - n] = heldAt(end - n)
  <2> DEFINE Wrong == { n \in Nat : end - n \in S /\ g[end - n] # heldAt(end - n) }
  <2> HIDE DEF heldAt
  <2>1. ASSUME Wrong # {} PROVE FALSE
    <3>1. PICK n \in Wrong : \A m \in Nat : m < n => m \notin Wrong
      <4>1. Wrong \in SUBSET Nat
        OBVIOUS
      <4> HIDE DEF Wrong
      <4> QED
        BY <2>1, <4>1, LeastNumber
    <3>2. n \in Nat /\ end - n \in S /\ g[end - n] # heldAt(end - n)
      OBVIOUS
    <3>3. \A m \in Nat : m < n /\ end - m \in S => g[end - m] = heldAt(end - m)
      BY <3>1
    <3> HIDE DEF Wrong, S
    <3> QED
      BY <1>7, <3>2, <3>3
  <2> QED
    BY <2>1
<1>9. g[start] = heldAt(start)
  <2>1. size \in Nat /\ end - size = start /\ start \in S
    BY <1>1 DEF end
  <2> HIDE DEF heldAt, S
  <2> QED
    BY <1>8, <2>1
<1>10. end - start = size
  BY DEF end
<1> QED
  BY <1>2, <1>9, <1>10 DEF g

\* The bytes of a range of places are those that the file holds there.
LEMMA ReadHolds ==
    ASSUME Hdr!HeadersAssumption, NEW f \in FileSets, WithinSize(f), NEW start \in Nat, NEW b \in Seq(Cells),
           Holds(f, start, b)
    PROVE  Hdr!Read(f, start, Len(b)) = b
<1>1. Len(b) \in Nat /\ b = [i \in 1 .. Len(b) |-> b[i]]
  OBVIOUS
<1>2. ASSUME NEW x \in Nat, start <= x, x < start + Len(b) PROVE Has(f, x)
  <2>1. x - start + 1 \in 1 .. Len(b) /\ start + (x - start + 1) - 1 = x
    BY <1>1, <1>2
  <2> QED
    BY <2>1 DEF Holds
<1>3. Hdr!Read(f, start, Len(b)) = [i \in 1 .. Len(b) |-> CellAt(f, start + i - 1)]
  BY <1>1, <1>2, ReadRight
<1>4. \A i \in 1 .. Len(b) : CellAt(f, start + i - 1) = b[i]
  BY DEF Holds
<1> QED
  BY <1>1, <1>3, <1>4

LEMMA HoldsBoth ==
    ASSUME NEW f, NEW x \in Nat, NEW b \in Seq(Cells), NEW c \in Seq(Cells), Holds(f, x, b \o c)
    PROVE  Holds(f, x, b) /\ Holds(f, x + Len(b), c)
<1>1. /\ Len(b) \in Nat /\ Len(c) \in Nat /\ Len(b \o c) = Len(b) + Len(c)
      /\ \A i \in 1 .. Len(b) : (b \o c)[i] = b[i]
      /\ \A i \in 1 .. Len(c) : (b \o c)[Len(b) + i] = c[i]
  OBVIOUS
<1>2. ASSUME NEW i \in 1 .. Len(b) PROVE Has(f, x + i - 1) /\ CellAt(f, x + i - 1) = b[i]
  BY <1>1 DEF Holds
<1>3. ASSUME NEW i \in 1 .. Len(c) PROVE Has(f, x + Len(b) + i - 1) /\ CellAt(f, x + Len(b) + i - 1) = c[i]
  <2>1. Len(b) + i \in 1 .. Len(b \o c) /\ x + (Len(b) + i) - 1 = x + Len(b) + i - 1
    BY <1>1
  <2>2. Has(f, x + (Len(b) + i) - 1) /\ CellAt(f, x + (Len(b) + i) - 1) = (b \o c)[Len(b) + i]
    BY <2>1 DEF Holds
  <2> QED
    BY <1>1, <2>1, <2>2
<1> QED
  BY <1>2, <1>3 DEF Holds

LEMMA BytesTyped ==
    ASSUME NEW header \in Headers
    PROVE  Hdr!Bytes(header) \in Seq(Cells) /\ Len(Hdr!Bytes(header)) = header.size /\ header.size \in Nat
<1>1. header.size \in Nat /\ header.height \in Nat /\ header.branch \in {"a", "b"}
  BY DEF Headers
<1>2. \A i \in 1 .. header.size : Hdr!Byte(header, i) \in Cells
  BY <1>1 DEF Hdr!Byte, Cells
<1> QED
  BY <1>1, <1>2 DEF Hdr!Bytes

\* One or two headers that are written together.
LEMMA JoinRight ==
    ASSUME NEW hds \in Seq(Headers), Len(hds) \in {1, 2}
    PROVE  /\ Hdr!Join(hds) \in Seq(Cells)
           /\ \A n \in 1 .. Len(hds) : hds[n] \in Headers
           /\ Len(hds) = 1 => Hdr!Join(hds) = Hdr!Bytes(hds[1])
           /\ Len(hds) = 2 => Hdr!Join(hds) = Hdr!Bytes(hds[1]) \o Hdr!Bytes(hds[2])
           /\ Len(Hdr!Join(SubSeq(hds, 1, 1))) = hds[1].size
           /\ Len(hds) = 2 => Len(Hdr!Join(SubSeq(hds, 1, 2))) = hds[1].size + hds[2].size
<1>1. \A n \in 1 .. Len(hds) : hds[n] \in Headers
  OBVIOUS
<1>2. hds[1] \in Headers /\ (Len(hds) = 2 => hds[2] \in Headers)
  BY <1>1
<1>3. Hdr!Bytes(hds[1]) \in Seq(Cells) /\ Len(Hdr!Bytes(hds[1])) = hds[1].size /\ hds[1].size \in Nat
  BY <1>2, BytesTyped
<1>4. Len(hds) = 2 => /\ Hdr!Bytes(hds[2]) \in Seq(Cells) /\ Len(Hdr!Bytes(hds[2])) = hds[2].size
                      /\ hds[2].size \in Nat
  BY <1>2, BytesTyped
<1>5. Len(SubSeq(hds, 1, 1)) = 1 /\ SubSeq(hds, 1, 1)[1] = hds[1]
  OBVIOUS
<1>6. Len(hds) = 2 => SubSeq(hds, 1, 2) = hds
  BY SubSeqFull
<1>7. Len(Hdr!Join(SubSeq(hds, 1, 1))) = hds[1].size
  BY <1>3, <1>5 DEF Hdr!Join
<1>8. Len(hds) = 2 => Hdr!Join(hds) = Hdr!Bytes(hds[1]) \o Hdr!Bytes(hds[2])
  BY DEF Hdr!Join
<1>9. Len(hds) = 2 => /\ Hdr!Bytes(hds[1]) \o Hdr!Bytes(hds[2]) \in Seq(Cells)
                      /\ Len(Hdr!Bytes(hds[1]) \o Hdr!Bytes(hds[2])) = hds[1].size + hds[2].size
  <2> DEFINE one == Hdr!Bytes(hds[1])
             two == Hdr!Bytes(hds[2])
  <2> HIDE DEF one, two
  <2>1. ASSUME one \in Seq(Cells), two \in Seq(Cells)
        PROVE  one \o two \in Seq(Cells) /\ Len(one \o two) = Len(one) + Len(two)
    BY ONLY <2>1, ConcatProperties
  <2> QED
    BY <1>3, <1>4, <2>1 DEF one, two
<1>10. Len(hds) = 1 => Hdr!Join(hds) = Hdr!Bytes(hds[1])
  BY DEF Hdr!Join
<1>11. Len(hds) = 2 => Len(Hdr!Join(SubSeq(hds, 1, 2))) = hds[1].size + hds[2].size
  BY <1>6, <1>8, <1>9
<1>12. Hdr!Join(hds) \in Seq(Cells)
  BY <1>3, <1>8, <1>9, <1>10
<1> QED
  BY <1>1, <1>7, <1>8, <1>10, <1>11, <1>12

\* The static offset of the next header is behind the header.
LEMMA StaticOffsets ==
    ASSUME Hdr!HeadersAssumption
    PROVE  /\ Hdr!static_header_offset(0) = 0
           /\ \A n \in Nat : /\ Hdr!static_header_offset(n) \in Nat /\ Hdr!static_header_len(n) \in Nat
                             /\ Hdr!static_header_offset(n + 1)
                                  = Hdr!static_header_offset(n) + Hdr!static_header_len(n)
<1> DEFINE base == BASIC_HEADER_SIZE
           large == ExpandedSize
           at == ExpandedHeight
<1>1. base \in Nat /\ large \in Nat /\ at \in Nat
  BY HeaderConstants
<1> HIDE DEF base, large, at
<1>2. \A n \in Nat : Hdr!static_header_offset(n) = IF n <= at THEN n * base ELSE at * base + (n - at) * large
  BY DEF Hdr!static_header_offset, base, large, at
<1>3. ASSUME NEW n \in Nat PROVE Hdr!static_header_offset(n) \in Nat
  <2>1. CASE n <= at
    BY <1>1, <1>2, <2>1
  <2>2. CASE ~(n <= at)
    <3>1. n - at \in Nat /\ at * base \in Nat
      BY <1>1, <2>2
    <3>2. (n - at) * large \in Nat
      BY <1>1, <3>1
    <3>3. Hdr!static_header_offset(n) = at * base + (n - at) * large
      BY <1>2, <2>2
    <3> QED
      BY <3>1, <3>2, <3>3
  <2> QED
    BY <2>1, <2>2
<1>4. ASSUME NEW n \in Nat
      PROVE  Hdr!static_header_offset(n + 1) - Hdr!static_header_offset(n) \in Nat
  <2>1. CASE n + 1 <= at
    <3>1. (n + 1) * base = n * base + base
      BY <1>1
    <3>2. Hdr!static_header_offset(n + 1) = (n + 1) * base /\ Hdr!static_header_offset(n) = n * base
      BY <1>1, <1>2, <2>1
    <3> QED
      BY <1>1, <3>1, <3>2
  <2>2. CASE n >= at
    <3> DEFINE d == n - at
    <3>1. d \in Nat /\ (n + 1) - at = d + 1
      BY <1>1, <2>2
    <3>2. Hdr!static_header_offset(n + 1) = at * base + (d + 1) * large
      <4>1. ~(n + 1 <= at)
        BY <1>1, <2>2
      <4> QED
        BY <1>1, <1>2, <3>1, <4>1
    <3>3. Hdr!static_header_offset(n) = at * base + d * large
      <4>1. CASE n = at
        <5>1. d = 0 /\ 0 * large = 0 /\ n * base = at * base /\ at * base \in Nat
          BY <1>1, <4>1
        <5> QED
          BY <1>2, <4>1, <5>1
      <4>2. CASE n # at
        <5>1. ~(n <= at)
          BY <1>1, <2>2, <4>2
        <5> QED
          BY <1>2, <5>1
      <4> QED
        BY <4>1, <4>2
    <3> HIDE DEF d
    <3>4. (d + 1) * large = d * large + large /\ at * base \in Nat /\ d * large \in Nat
      BY <1>1, <3>1
    <3> QED
      BY <1>1, <3>2, <3>3, <3>4
  <2> QED
    BY <1>1, <2>1, <2>2
<1>5. Hdr!static_header_offset(0) = 0
  BY <1>1, <1>2
<1>6. ASSUME NEW n \in Nat
      PROVE  /\ Hdr!static_header_len(n) \in Nat
             /\ Hdr!static_header_offset(n + 1) = Hdr!static_header_offset(n) + Hdr!static_header_len(n)
  <2>1. Hdr!static_header_len(n) = Hdr!static_header_offset(n + 1) - Hdr!static_header_offset(n)
    BY DEF Hdr!static_header_len
  <2>2. Hdr!static_header_offset(n) \in Nat /\ Hdr!static_header_offset(n + 1) \in Nat
    BY <1>3
  <2> QED
    BY <1>4, <2>1, <2>2
<1> QED
  BY <1>3, <1>5, <1>6


\* A sequence of numbers none of which is less than the one before it.
LEMMA Ascending ==
    ASSUME NEW N \in Nat, NEW at \in [0 .. N -> Nat], \A n \in 1 .. N : at[n - 1] <= at[n]
    PROVE  \A m, n \in 0 .. N : m <= n => at[m] <= at[n]
<1> SUFFICES ASSUME NEW m \in 0 .. N PROVE \A n \in 0 .. N : m <= n => at[m] <= at[n]
  OBVIOUS
<1> DEFINE Wrong == { n \in 0 .. N : m <= n /\ at[n] < at[m] }
<1>1. ASSUME Wrong # {} PROVE FALSE
  <2>1. PICK n \in Wrong : \A k \in Nat : k < n => k \notin Wrong
    <3>1. Wrong \in SUBSET Nat
      OBVIOUS
    <3> HIDE DEF Wrong
    <3> QED
      BY <1>1, <3>1, LeastNumber
  <2>2. n \in 1 .. N /\ m <= n - 1 /\ at[n] < at[m]
    OBVIOUS
  <2>3. n - 1 \in 0 .. N /\ n - 1 < n /\ n - 1 \in Nat
    BY <2>2
  <2>4. n - 1 \notin Wrong
    BY <2>1, <2>3
  <2>5. ~(at[n - 1] < at[m])
    BY <2>2, <2>3, <2>4
  <2>6. at[n - 1] \in Nat /\ at[n] \in Nat /\ at[m] \in Nat /\ at[n - 1] <= at[n]
    BY <2>2, <2>3
  <2> QED
    BY <2>2, <2>5, <2>6
<1>2. ASSUME NEW n \in 0 .. N, m <= n PROVE at[m] <= at[n]
  <2>1. n \notin Wrong
    BY <1>1
  <2>2. ~(at[n] < at[m])
    BY <1>2, <2>1
  <2>3. at[n] \in Nat /\ at[m] \in Nat
    OBVIOUS
  <2> QED
    BY <2>2, <2>3
<1> QED
  BY <1>2

\* Where the headers of the chain are.
LEMMA HeaderPlaces ==
    ASSUME Hdr!HeadersAssumption, HeadersTyped, OffsetsRight
    PROVE  /\ \A n \in 0 .. MaxHeaders + 1 : Hdr!header_offset(n) \in Nat
           /\ \A n \in 1 .. Len(chain) :
                chain[n] \in Headers /\ Hdr!header_offset(n) = Hdr!header_offset(n - 1) + chain[n].size
           /\ \A m, n \in 0 .. Len(chain) : m <= n => Hdr!header_offset(m) <= Hdr!header_offset(n)
           /\ Len(chain) \in Nat /\ Len(chain) <= MaxHeaders + 1 /\ MaxHeaders \in Nat
<1>1. Len(chain) \in Nat /\ Len(chain) <= MaxHeaders + 1 /\ MaxHeaders \in Nat
  BY HeaderConstants DEF HeadersTyped
<1>2. ASSUME NEW n \in 0 .. MaxHeaders + 1 PROVE Hdr!header_offset(n) \in Nat
  <2>1. Hdr!static_header_offset(n) \in Nat
    BY StaticOffsets
  <2> QED
    BY <2>1 DEF Hdr!header_offset, HeadersTyped
<1>3. \A n \in 1 .. Len(chain) :
         chain[n] \in Headers /\ Hdr!header_offset(n) = Hdr!header_offset(n - 1) + chain[n].size
  BY DEF HeadersTyped, OffsetsRight
<1> DEFINE at == [n \in 0 .. Len(chain) |-> Hdr!header_offset(n)]
<1>4. at \in [0 .. Len(chain) -> Nat]
  BY <1>1, <1>2
<1>5. ASSUME NEW n \in 1 .. Len(chain) PROVE at[n - 1] <= at[n]
  <2>1. n - 1 \in 0 .. Len(chain) /\ n \in 0 .. Len(chain) /\ n \in 0 .. MaxHeaders + 1 /\ n - 1 \in 0 .. MaxHeaders + 1
    BY <1>1
  <2>2. chain[n].size \in Nat /\ Hdr!header_offset(n - 1) \in Nat
    BY <1>2, <1>3, <2>1 DEF Headers
  <2>3. Hdr!header_offset(n - 1) <= Hdr!header_offset(n)
    BY <1>3, <2>2
  <2> QED
    BY <2>1, <2>3
<1>6. \A n \in 0 .. Len(chain) : at[n] = Hdr!header_offset(n)
  OBVIOUS
<1>7. \A m, n \in 0 .. Len(chain) : m <= n => at[m] <= at[n]
  <2> HIDE DEF at
  <2> QED
    BY <1>1, <1>4, <1>5, Ascending
<1> QED
  BY <1>1, <1>2, <1>3, <1>6, <1>7

\* What is written has the sizes that the coin or the blocks tell, and its place.
LEMMA BatchOf ==
    ASSUME Hdr!HeadersAssumption, HeadersTyped, Hdr!db_height < MaxHeaders, NEW hds \in Hdr!Batches
    PROVE  /\ hds \in Seq(Headers) /\ Len(hds) \in {1, 2} /\ Len(chain) + Len(hds) <= MaxHeaders + 1
           /\ \A n \in 1 .. Len(hds) : OfItsSize(hds[n], Len(chain) + n - 1)
<1> DEFINE h0 == Len(chain)
<1>1. h0 \in Nat /\ h0 <= MaxHeaders /\ MaxHeaders \in Nat /\ Hdr!db_height + 1 = h0
  BY HeaderConstants DEF HeadersTyped, Hdr!db_height
<1> HIDE DEF h0
<1>2. ASSUME NEW k \in Nat, NEW header \in Hdr!NewHeader(k)
      PROVE  header \in Headers /\ OfItsSize(header, k)
  <2>1. header \in [height : {k}, branch : {"a", "b"}, size : Hdr!SizesAt(k)]
    BY DEF Hdr!NewHeader
  <2>2. CASE STATIC_BLOCK_HEADERS
    <3>1. Hdr!SizesAt(k) = {Hdr!static_header_len(k)} /\ Hdr!static_header_len(k) \in Nat
      BY <2>2, StaticOffsets DEF Hdr!SizesAt
    <3> QED
      BY <2>1, <2>2, <3>1 DEF Headers, OfItsSize
  <2>3. CASE ~STATIC_BLOCK_HEADERS
    <3>1. Hdr!SizesAt(k) = Sizes
      BY <2>3 DEF Hdr!SizesAt
    <3> QED
      BY <2>1, <2>3, <3>1, HeaderConstants DEF Headers, OfItsSize
  <2> QED
    BY <2>2, <2>3
<1>3. \/ \E a \in Hdr!NewHeader(h0) : hds = <<a>>
      \/ h0 < MaxHeaders /\ \E a \in Hdr!NewHeader(h0), b \in Hdr!NewHeader(h0 + 1) : hds = <<a, b>>
  BY <1>1 DEF Hdr!Batches
<1>4. CASE \E a \in Hdr!NewHeader(h0) : hds = <<a>>
  <2>1. PICK a \in Hdr!NewHeader(h0) : hds = <<a>>
    BY <1>4
  <2>2. a \in Headers /\ OfItsSize(a, h0)
    BY <1>1, <1>2
  <2>3. Len(hds) = 1 /\ hds[1] = a /\ hds \in Seq(Headers)
    BY <2>1, <2>2
  <2>4. ASSUME NEW n \in 1 .. Len(hds) PROVE OfItsSize(hds[n], Len(chain) + n - 1)
    <3>1. n = 1 /\ Len(chain) + n - 1 = h0
      BY <1>1, <2>3 DEF h0
    <3> QED
      BY <2>2, <2>3, <3>1
  <2> QED
    BY <1>1, <2>3, <2>4 DEF h0
<1>5. CASE h0 < MaxHeaders /\ \E a \in Hdr!NewHeader(h0), b \in Hdr!NewHeader(h0 + 1) : hds = <<a, b>>
  <2>1. PICK a \in Hdr!NewHeader(h0), b \in Hdr!NewHeader(h0 + 1) : hds = <<a, b>>
    BY <1>5
  <2>2. a \in Headers /\ OfItsSize(a, h0) /\ b \in Headers /\ OfItsSize(b, h0 + 1)
    BY <1>1, <1>2
  <2>3. Len(hds) = 2 /\ hds[1] = a /\ hds[2] = b /\ hds \in Seq(Headers)
    BY <2>1, <2>2
  <2>4. ASSUME NEW n \in 1 .. Len(hds) PROVE OfItsSize(hds[n], Len(chain) + n - 1)
    <3>1. (n = 1 /\ Len(chain) + n - 1 = h0) \/ (n = 2 /\ Len(chain) + n - 1 = h0 + 1)
      BY <1>1, <2>3 DEF h0
    <3> QED
      BY <2>2, <2>3, <3>1
  <2> QED
    BY <1>1, <1>5, <2>3, <2>4 DEF h0
<1> QED
  BY <1>3, <1>4, <1>5

-----------------------------------------------------------------------------
(* The steps.                                                               *)

LEMMA HeadersStart ==
    ASSUME Hdr!HeadersAssumption, Hdr!Init PROVE HeadersInv
<1>1. /\ STATIC_BLOCK_HEADERS \in BOOLEAN /\ headers_file = Hdr!NoFiles
      /\ headers_offsets_file = [n \in 0 .. MaxHeaders + 1 |-> 0]
      /\ chain = <<>> /\ flush = <<>> /\ stage = "headers" /\ Len(chain) = 0
  BY DEF Hdr!Init
<1>2. headers_file \in FileSets /\ WithinSize(headers_file)
  <2>1. \A n \in 0 .. MaxFiles - 1 : headers_file[n] = <<>>
    BY <1>1 DEF Hdr!NoFiles
  <2>2. headers_file \in FileSets
    BY <1>1 DEF Hdr!NoFiles, FileSets
  <2> QED
    BY <2>1, <2>2, HeaderConstants DEF WithinSize
<1>3. HeadersTyped
  BY <1>1, <1>2, HeaderConstants DEF HeadersTyped
<1>4. Hdr!header_offset(0) = 0
  BY <1>1, HeaderConstants, StaticOffsets DEF Hdr!header_offset
<1> QED
  BY <1>1, <1>3, <1>4 DEF HeadersInv, OffsetsRight, ContentRight, FlushRight

LEMMA WriteHeadersKeeps ==
    ASSUME Hdr!HeadersAssumption, HeadersInv, NEW hds \in Hdr!Batches, Hdr!WriteHeaders(hds)
    PROVE  HeadersInv'
<1> DEFINE f == headers_file
           start == Hdr!header_offset(Len(chain))
           b == Hdr!Join(hds)
           g == Hdr!Write(f, start, b)
<1>1. HeadersTyped /\ OffsetsRight /\ ContentRight
  BY DEF HeadersInv
<1>2. Hdr!db_height < MaxHeaders /\ Hdr!db_height + 1 = Len(chain)
  BY <1>1, HeaderConstants DEF Hdr!WriteHeaders, Hdr!db_height, HeadersTyped
<1>3. /\ headers_file' = g /\ flush' = hds /\ stage' = "offsets" /\ start + Len(b) <= MaxFiles * file_size
      /\ STATIC_BLOCK_HEADERS' = STATIC_BLOCK_HEADERS /\ headers_offsets_file' = headers_offsets_file
      /\ chain' = chain
  BY <1>2 DEF Hdr!WriteHeaders
<1>4. /\ hds \in Seq(Headers) /\ Len(hds) \in {1, 2} /\ Len(chain) + Len(hds) <= MaxHeaders + 1
      /\ \A n \in 1 .. Len(hds) : OfItsSize(hds[n], Len(chain) + n - 1)
  BY <1>1, <1>2, BatchOf
<1>5. b \in Seq(Cells)
  BY <1>4, JoinRight
<1>6. /\ \A n \in 0 .. MaxHeaders + 1 : Hdr!header_offset(n) \in Nat
      /\ \A n \in 1 .. Len(chain) :
            chain[n] \in Headers /\ Hdr!header_offset(n) = Hdr!header_offset(n - 1) + chain[n].size
      /\ \A m, n \in 0 .. Len(chain) : m <= n => Hdr!header_offset(m) <= Hdr!header_offset(n)
      /\ Len(chain) \in Nat /\ Len(chain) <= MaxHeaders + 1 /\ MaxHeaders \in Nat
  BY <1>1, HeaderPlaces
<1>7. f \in FileSets /\ WithinSize(f) /\ start \in Nat
  BY <1>1, <1>6 DEF HeadersTyped
<1> HIDE DEF f, b, start
<1>8. /\ g \in FileSets /\ WithinSize(g) /\ Holds(g, start, b)
      /\ \A x \in Nat : x < start /\ Has(f, x) => Has(g, x) /\ CellAt(g, x) = CellAt(f, x)
  BY <1>3, <1>5, <1>7, WriteRight
<1> HIDE DEF g
<1>9. HeadersTyped'
  BY <1>1, <1>3, <1>4, <1>8 DEF HeadersTyped, WithinSize
<1>10. /\ \A n : Hdr!header_offset(n)' = Hdr!header_offset(n)
       /\ \A header, at : OfItsSize(header, at)' = OfItsSize(header, at)
  BY <1>3 DEF Hdr!header_offset, OfItsSize
<1>11. OffsetsRight'
  BY <1>1, <1>3, <1>10 DEF OffsetsRight
<1>12. ASSUME NEW n \in 1 .. Len(chain)
       PROVE  Holds(g, Hdr!header_offset(n - 1), Hdr!Bytes(chain[n]))
  <2> DEFINE c == Hdr!Bytes(chain[n])
             at == Hdr!header_offset(n - 1)
  <2>1. Len(c) = chain[n].size /\ chain[n].size \in Nat
    BY <1>6, BytesTyped
  <2>2. at \in Nat /\ at + chain[n].size <= start
    <3>1. n - 1 \in 0 .. MaxHeaders + 1 /\ n \in 0 .. Len(chain) /\ Len(chain) \in 0 .. Len(chain) /\ n <= Len(chain)
      BY <1>6
    <3>2. Hdr!header_offset(n) <= start
      BY <1>6, <3>1 DEF start
    <3> QED
      BY <1>6, <3>1, <3>2
  <2>3. Holds(f, at, c)
    BY <1>1 DEF ContentRight, f
  <2> HIDE DEF c, at
  <2>4. ASSUME NEW i \in 1 .. Len(c) PROVE Has(g, at + i - 1) /\ CellAt(g, at + i - 1) = c[i]
    <3>1. at + i - 1 \in Nat /\ at + i - 1 < start
      BY <1>7, <2>1, <2>2
    <3>2. Has(f, at + i - 1) /\ CellAt(f, at + i - 1) = c[i]
      BY <2>3 DEF Holds
    <3> QED
      BY <1>8, <3>1, <3>2
  <2>5. Holds(g, at, c)
    BY <2>4 DEF Holds
  <2> QED
    BY <2>5 DEF at, c
<1>13. ContentRight'
  <2>1. \A n \in 1 .. Len(chain) : Hdr!Bytes(chain[n])' = Hdr!Bytes(chain[n])
    BY <1>3 DEF Hdr!Bytes, Hdr!Byte
  <2> QED
    BY <1>3, <1>10, <1>12, <2>1 DEF ContentRight
<1>14. FlushRight'
  <2>1. Hdr!Join(flush)' = b
    BY <1>3 DEF b
  <2>2. Hdr!header_offset(Len(chain))' = start
    BY <1>3, <1>10 DEF start
  <2>3. stage' # "state" /\ Len(flush') \in {1, 2}
    BY <1>3, <1>4
  <2> QED
    BY <1>3, <1>4, <1>8, <1>10, <2>1, <2>2, <2>3 DEF FlushRight
<1> QED
  BY <1>9, <1>11, <1>13, <1>14 DEF HeadersInv

LEMMA OneOrTwo ==
    ASSUME NEW K \in {1, 2}, NEW n \in 1 .. K
    PROVE  n = 1 \/ (n = 2 /\ K = 2)
<1>1. CASE K = 1
  BY <1>1
<1>2. CASE K = 2
  BY <1>2
<1> QED
  BY <1>1, <1>2

\* What EndOf computes: the sizes of what is written are added up.
LEMMA EndsAt ==
    ASSUME Hdr!HeadersAssumption, HeadersTyped, Len(flush) \in {1, 2},
           Hdr!header_offset(Len(chain)) \in Nat
    PROVE  /\ \A n \in 1 .. Len(flush) : flush[n] \in Headers /\ flush[n].size \in Nat /\ Hdr!EndOf(n) \in Nat
           /\ Hdr!EndOf(1) = Hdr!header_offset(Len(chain)) + flush[1].size
           /\ Len(flush) = 2 => Hdr!EndOf(2) = Hdr!EndOf(1) + flush[2].size
<1>1. flush \in Seq(Headers) /\ Len(chain) \in Nat /\ Hdr!db_height + 1 = Len(chain)
  BY DEF HeadersTyped, Hdr!db_height
<1>2. /\ \A n \in 1 .. Len(flush) : flush[n] \in Headers
      /\ Len(Hdr!Join(SubSeq(flush, 1, 1))) = flush[1].size
      /\ Len(flush) = 2 => Len(Hdr!Join(SubSeq(flush, 1, 2))) = flush[1].size + flush[2].size
  BY <1>1, JoinRight
<1>3. \A n \in 1 .. Len(flush) : flush[n].size \in Nat
  BY <1>2 DEF Headers
<1>4. Hdr!EndOf(1) = Hdr!header_offset(Len(chain)) + flush[1].size
  BY <1>1, <1>2 DEF Hdr!EndOf
<1>5. ASSUME Len(flush) = 2 PROVE Hdr!EndOf(2) = Hdr!EndOf(1) + flush[2].size
  <2>1. flush[1].size \in Nat /\ flush[2].size \in Nat
    BY <1>3, <1>5
  <2>2. Hdr!EndOf(2) = Hdr!header_offset(Len(chain)) + (flush[1].size + flush[2].size)
    BY <1>1, <1>2, <1>5 DEF Hdr!EndOf
  <2> QED
    BY <1>4, <2>1, <2>2
<1>6. \A n \in 1 .. Len(flush) : Hdr!EndOf(n) \in Nat
  <2>1. flush[1].size \in Nat /\ Hdr!EndOf(1) \in Nat
    BY <1>3, <1>4
  <2>2. Len(flush) = 2 => flush[2].size \in Nat /\ Hdr!EndOf(2) \in Nat
    BY <1>3, <1>5, <2>1
  <2>3. \A n \in 1 .. Len(flush) : n = 1 \/ (n = 2 /\ Len(flush) = 2)
    BY OneOrTwo
  <2> QED
    BY <2>1, <2>2, <2>3
<1> QED
  BY <1>2, <1>3, <1>4, <1>5, <1>6

LEMMA WriteOffsetsKeeps ==
    ASSUME Hdr!HeadersAssumption, HeadersInv, Hdr!WriteOffsets
    PROVE  HeadersInv'
<1> DEFINE N == Len(chain)
           K == Len(flush)
<1>1. HeadersTyped /\ OffsetsRight /\ ContentRight /\ FlushRight
  BY DEF HeadersInv
<1>2. /\ stage = "offsets" /\ stage' = "state" /\ STATIC_BLOCK_HEADERS' = STATIC_BLOCK_HEADERS
      /\ headers_file' = headers_file /\ chain' = chain /\ flush' = flush
  BY DEF Hdr!WriteOffsets
<1>13. N' = N
  BY <1>2
<1>3. /\ \A n \in 0 .. MaxHeaders + 1 : Hdr!header_offset(n) \in Nat
      /\ N \in Nat /\ N <= MaxHeaders + 1 /\ MaxHeaders \in Nat
  BY <1>1, HeaderPlaces
<1>4. /\ K \in {1, 2} /\ N + K <= MaxHeaders + 1
      /\ \A n \in 1 .. K : OfItsSize(flush[n], N + n - 1)
      /\ Holds(headers_file, Hdr!header_offset(N), Hdr!Join(flush))
  BY <1>1, <1>2 DEF FlushRight
<1>5. /\ \A n \in 1 .. K : flush[n] \in Headers /\ flush[n].size \in Nat /\ Hdr!EndOf(n) \in Nat
      /\ Hdr!EndOf(1) = Hdr!header_offset(N) + flush[1].size
      /\ K = 2 => Hdr!EndOf(2) = Hdr!EndOf(1) + flush[2].size
  BY <1>1, <1>3, <1>4, EndsAt
<1>12. \A n \in 1 .. K : N + n \in 0 .. MaxHeaders + 1
  <2> HIDE DEF N, K
  <2>1. ASSUME NEW n \in 1 .. K PROVE N + n \in 0 .. MaxHeaders + 1
    <3>1. n = 1 \/ (n = 2 /\ K = 2)
      BY <1>4, OneOrTwo
    <3> QED
      BY <1>3, <1>4, <3>1
  <2> QED
    BY <2>1
<1>6. /\ \A n \in 0 .. N : Hdr!header_offset(n)' = Hdr!header_offset(n)
      /\ \A n \in 1 .. K : Hdr!header_offset(N + n)' = Hdr!EndOf(n)
      /\ headers_offsets_file' \in [0 .. MaxHeaders + 1 -> Nat]
  <2>1. CASE STATIC_BLOCK_HEADERS
    <3>1. headers_offsets_file' = headers_offsets_file
      BY <2>1 DEF Hdr!WriteOffsets
    <3>2. \A n : Hdr!header_offset(n)' = Hdr!header_offset(n)
      BY <1>2, <3>1 DEF Hdr!header_offset
    <3>3. Hdr!header_offset(N + 1) = Hdr!header_offset(N) + flush[1].size
      <4>1. flush[1].size = Hdr!static_header_len(N)
        BY <1>3, <1>4, <2>1 DEF OfItsSize
      <4> QED
        BY <1>3, <2>1, <4>1, StaticOffsets DEF Hdr!header_offset
    <3>4. K = 2 => Hdr!header_offset(N + 2) = Hdr!header_offset(N + 1) + flush[2].size
      <4>1. K = 2 => flush[2].size = Hdr!static_header_len(N + 1)
        BY <1>3, <1>4, <2>1 DEF OfItsSize
      <4>2. N + 1 \in Nat /\ (N + 1) + 1 = N + 2
        BY <1>3
      <4> QED
        BY <2>1, <4>1, <4>2, StaticOffsets DEF Hdr!header_offset
    <3>5. \A n \in 1 .. K : n = 1 \/ (n = 2 /\ K = 2)
      BY <1>4, OneOrTwo
    <3>6. \A n \in 1 .. K : Hdr!header_offset(N + n) = Hdr!EndOf(n)
      BY <1>5, <3>3, <3>4, <3>5
    <3>7. headers_offsets_file' \in [0 .. MaxHeaders + 1 -> Nat]
      BY <1>1, <3>1 DEF HeadersTyped
    <3>8. ASSUME NEW n \in 1 .. K PROVE Hdr!header_offset(N + n)' = Hdr!EndOf(n)
      <4> DEFINE x == N + n
      <4>1. Hdr!header_offset(x)' = Hdr!header_offset(x)
        BY <1>2, <1>13, <3>1 DEF Hdr!header_offset
      <4> QED
        BY <3>6, <4>1
    <3> QED
      BY <3>2, <3>7, <3>8
  <2>2. CASE ~STATIC_BLOCK_HEADERS
    <3> DEFINE o == headers_offsets_file
               Ends(x) == \E n \in 1 .. K : x = Hdr!NextOffsetAt(n)
               end(x) == Hdr!EndOf(CHOOSE n \in 1 .. K : x = Hdr!NextOffsetAt(n))
    <3>1. headers_offsets_file' = [x \in DOMAIN o |-> IF Ends(x) THEN end(x) ELSE o[x]]
      BY <2>2 DEF Hdr!WriteOffsets
    <3>2. \A n : Hdr!NextOffsetAt(n) = (N - 1) + n + 1
      BY DEF Hdr!NextOffsetAt, Hdr!db_height
    <3>3. ASSUME NEW n \in 1 .. K PROVE Ends(N + n) /\ end(N + n) = Hdr!EndOf(n)
      <4>1. N + n = Hdr!NextOffsetAt(n)
        BY <1>3, <1>4, <3>2
      <4>2. ASSUME NEW m \in 1 .. K, N + n = Hdr!NextOffsetAt(m) PROVE m = n
        <5>1. N + n = (N - 1) + m + 1
          BY <3>2, <4>2
        <5> QED
          BY <1>3, <1>4, <5>1
      <4>3. (CHOOSE m \in 1 .. K : N + n = Hdr!NextOffsetAt(m)) = n
        BY <4>1, <4>2
      <4> QED
        BY <4>1, <4>3
    <3>4. ASSUME NEW x \in 0 .. MaxHeaders + 1, Ends(x) PROVE end(x) \in Nat
      BY <1>5, <3>4
    <3>5. ASSUME NEW n \in 0 .. N PROVE ~Ends(n)
      <4>1. ASSUME NEW m \in 1 .. K, n = Hdr!NextOffsetAt(m) PROVE FALSE
        <5>1. n = (N - 1) + m + 1
          BY <3>2, <4>1
        <5> QED
          BY <1>3, <1>4, <5>1
      <4> QED
        BY <4>1
    <3>6. o \in [0 .. MaxHeaders + 1 -> Nat] /\ DOMAIN o = 0 .. MaxHeaders + 1
      BY <1>1 DEF HeadersTyped
    <3>7. /\ \A n : Hdr!header_offset(n) = o[n]
          /\ \A n : Hdr!header_offset(n)' = headers_offsets_file'[n]
      BY <1>2, <2>2 DEF Hdr!header_offset
    <3> HIDE DEF o, Ends, end
    <3>8. headers_offsets_file' \in [0 .. MaxHeaders + 1 -> Nat]
      BY <3>1, <3>4, <3>6
    <3>9. ASSUME NEW n \in 0 .. N PROVE headers_offsets_file'[n] = o[n]
      <4>1. n \in DOMAIN o
        BY <1>3, <3>6
      <4> QED
        BY <3>1, <3>5, <4>1
    <3>10. ASSUME NEW n \in 1 .. K PROVE headers_offsets_file'[N + n] = Hdr!EndOf(n)
      <4>1. N + n \in DOMAIN o
        BY <1>12, <3>6
      <4> QED
        BY <3>1, <3>3, <4>1
    <3>11. ASSUME NEW n \in 0 .. N PROVE Hdr!header_offset(n)' = Hdr!header_offset(n)
      BY <3>7, <3>9
    <3>12. ASSUME NEW n \in 1 .. K PROVE Hdr!header_offset(N + n)' = Hdr!EndOf(n)
      <4>1. Hdr!header_offset(N + n)' = headers_offsets_file'[N + n]
        BY <1>2, <1>13, <2>2 DEF Hdr!header_offset
      <4> QED
        BY <3>10, <4>1
    <3> QED
      BY <3>8, <3>11, <3>12
  <2> QED
    BY <2>1, <2>2
<1>7. HeadersTyped'
  BY <1>1, <1>2, <1>6 DEF HeadersTyped, WithinSize
<1>8. \A header, at : OfItsSize(header, at)' = OfItsSize(header, at)
  BY <1>2 DEF OfItsSize
<1>9. OffsetsRight'
  <2>1. \A n \in 1 .. N : n \in 0 .. N /\ n - 1 \in 0 .. N
    BY <1>3
  <2>2. 0 \in 0 .. N
    BY <1>3
  <2> QED
    BY <1>1, <1>2, <1>6, <1>8, <2>1, <2>2 DEF OffsetsRight
<1>10. ContentRight'
  <2>1. \A n \in 1 .. N : n - 1 \in 0 .. N
    BY <1>3
  <2>2. \A n \in 1 .. N : Hdr!Bytes(chain[n])' = Hdr!Bytes(chain[n])
    BY <1>2 DEF Hdr!Bytes, Hdr!Byte
  <2> QED
    BY <1>1, <1>2, <1>6, <2>1, <2>2 DEF ContentRight
<1>11. FlushRight'
  <2>1. Hdr!Join(flush)' = Hdr!Join(flush)
    BY <1>2
  <2>2. Hdr!header_offset(Len(chain))' = Hdr!header_offset(N)
    <3>1. N \in 0 .. N
      BY <1>3
    <3> QED
      BY <1>2, <1>6, <3>1
  <2>3. \A n \in 1 .. K : Hdr!EndOf(n)' = Hdr!EndOf(n)
    <3>1. Hdr!db_height' = Hdr!db_height /\ Hdr!db_height + 1 = N
      BY <1>2, <1>3 DEF Hdr!db_height
    <3>2. Hdr!header_offset(Hdr!db_height + 1)' = Hdr!header_offset(Hdr!db_height + 1)
      <4>1. N \in 0 .. N
        BY <1>3
      <4> QED
        BY <1>6, <3>1, <4>1
    <3> QED
      BY <1>2, <3>2 DEF Hdr!EndOf
  <2>4. \A n \in 1 .. K : Hdr!header_offset(Len(chain) + n)' = Hdr!EndOf(n)'
    BY <1>2, <1>6, <2>3
  <2> QED
    BY <1>2, <1>4, <1>8, <2>1, <2>2, <2>4 DEF FlushRight
<1> QED
  BY <1>7, <1>9, <1>10, <1>11 DEF HeadersInv

LEMMA HeadersCrashKeeps ==
    ASSUME HeadersInv, Hdr!Crash PROVE HeadersInv'
<1>1. /\ stage' = "headers" /\ flush' = <<>> /\ chain' = chain /\ headers_file' = headers_file
      /\ headers_offsets_file' = headers_offsets_file /\ STATIC_BLOCK_HEADERS' = STATIC_BLOCK_HEADERS
  BY DEF Hdr!Crash
<1>2. HeadersTyped /\ OffsetsRight /\ ContentRight
  BY DEF HeadersInv
<1>3. HeadersTyped'
  BY <1>1, <1>2 DEF HeadersTyped, WithinSize
<1>4. /\ \A n : Hdr!header_offset(n)' = Hdr!header_offset(n)
      /\ \A header, at : OfItsSize(header, at)' = OfItsSize(header, at)
  BY <1>1 DEF Hdr!header_offset, OfItsSize
<1>5. OffsetsRight'
  BY <1>1, <1>2, <1>4 DEF OffsetsRight
<1>6. ContentRight'
  <2>1. \A n \in 1 .. Len(chain) : Hdr!Bytes(chain[n])' = Hdr!Bytes(chain[n])
    BY <1>1 DEF Hdr!Bytes, Hdr!Byte
  <2> QED
    BY <1>1, <1>2, <1>4, <2>1 DEF ContentRight
<1> QED
  BY <1>1, <1>3, <1>5, <1>6 DEF HeadersInv, FlushRight

LEMMA BackupFsKeeps ==
    ASSUME Hdr!HeadersAssumption, HeadersInv, Hdr!BackupFs PROVE HeadersInv'
<1>1. /\ stage = "headers" /\ stage' = stage /\ flush' = flush /\ headers_file' = headers_file
      /\ headers_offsets_file' = headers_offsets_file /\ STATIC_BLOCK_HEADERS' = STATIC_BLOCK_HEADERS
      /\ chain # <<>> /\ chain' = SubSeq(chain, 1, Len(chain) - 1)
  BY DEF Hdr!BackupFs
<1>2. HeadersTyped /\ OffsetsRight /\ ContentRight
  BY DEF HeadersInv
<1>3. /\ Len(chain') = Len(chain) - 1 /\ Len(chain) \in Nat \ {0} /\ chain' \in Seq(Headers)
      /\ \A n \in 1 .. Len(chain') : chain'[n] = chain[n] /\ n \in 1 .. Len(chain)
  <2>1. chain \in Seq(Headers)
    BY <1>2 DEF HeadersTyped
  <2>2. Len(chain) \in Nat \ {0}
    BY <1>1, <2>1
  <2>3. Len(chain) - 1 \in Nat /\ Len(chain) - 1 <= Len(chain)
    BY <2>2
  <2>4. /\ SubSeq(chain, 1, Len(chain) - 1) \in Seq(Headers)
        /\ Len(SubSeq(chain, 1, Len(chain) - 1)) = Len(chain) - 1
        /\ \A n \in 1 .. Len(chain) - 1 : SubSeq(chain, 1, Len(chain) - 1)[n] = chain[n]
    <3> DEFINE k == Len(chain) - 1
    <3>1. k \in Int /\ 1 \in Int /\ \A n \in 1 .. k : chain[n] \in Headers
      BY <2>1, <2>3
    <3>2. (IF 1 <= k THEN k - 1 + 1 ELSE 0) = k /\ k - 1 + 1 = k /\ \A n \in 1 .. k : 1 + n - 1 = n
      BY <2>3
    <3> HIDE DEF k
    <3>3. /\ SubSeq(chain, 1, k) \in Seq(Headers)
          /\ Len(SubSeq(chain, 1, k)) = IF 1 <= k THEN k - 1 + 1 ELSE 0
          /\ \A n \in 1 .. k - 1 + 1 : SubSeq(chain, 1, k)[n] = chain[1 + n - 1]
      BY <3>1, SubSeqProperties
    <3>4. \A n \in 1 .. k : SubSeq(chain, 1, k)[n] = chain[n]
      BY <3>2, <3>3
    <3> QED
      BY <3>2, <3>3, <3>4 DEF k
  <2>5. \A n \in 1 .. Len(chain) - 1 : n \in 1 .. Len(chain)
    BY <2>3
  <2> QED
    BY <1>1, <2>2, <2>4, <2>5
<1>4. HeadersTyped'
  <2>1. Len(chain) <= MaxHeaders + 1 /\ MaxHeaders \in Nat
    BY <1>2 DEF HeadersTyped, Hdr!HeadersAssumption
  <2>2. Len(chain') <= MaxHeaders + 1
    BY <1>3, <2>1
  <2> QED
    BY <1>1, <1>2, <1>3, <2>2 DEF HeadersTyped, WithinSize
<1>5. /\ \A n : Hdr!header_offset(n)' = Hdr!header_offset(n)
      /\ \A header, at : OfItsSize(header, at)' = OfItsSize(header, at)
  BY <1>1 DEF Hdr!header_offset, OfItsSize
<1>6. OffsetsRight'
  BY <1>2, <1>3, <1>5 DEF OffsetsRight
<1>7. ContentRight'
  <2>1. \A n \in 1 .. Len(chain') : Hdr!Bytes(chain[n])' = Hdr!Bytes(chain[n])
    BY <1>3 DEF Hdr!Bytes, Hdr!Byte
  <2> QED
    BY <1>1, <1>2, <1>3, <1>5, <2>1 DEF ContentRight
<1> QED
  BY <1>1, <1>4, <1>6, <1>7 DEF HeadersInv, FlushRight

LEMMA FlushStateKeeps ==
    ASSUME Hdr!HeadersAssumption, HeadersInv, Hdr!FlushState
    PROVE  HeadersInv'
<1> DEFINE N == Len(chain)
           K == Len(flush)
           new == chain \o flush
<1>1. HeadersTyped /\ OffsetsRight /\ ContentRight /\ FlushRight
  BY DEF HeadersInv
<1>2. /\ stage = "state" /\ stage' = "headers" /\ flush' = <<>> /\ chain' = new
      /\ headers_file' = headers_file /\ headers_offsets_file' = headers_offsets_file
      /\ STATIC_BLOCK_HEADERS' = STATIC_BLOCK_HEADERS
  BY DEF Hdr!FlushState
<1>3. /\ \A n \in 0 .. MaxHeaders + 1 : Hdr!header_offset(n) \in Nat
      /\ N \in Nat /\ N <= MaxHeaders + 1 /\ MaxHeaders \in Nat
  BY <1>1, HeaderPlaces
<1>4. /\ K \in {1, 2} /\ N + K <= MaxHeaders + 1
      /\ \A n \in 1 .. K : OfItsSize(flush[n], N + n - 1)
      /\ Holds(headers_file, Hdr!header_offset(N), Hdr!Join(flush))
      /\ \A n \in 1 .. K : Hdr!header_offset(N + n) = Hdr!EndOf(n)
  BY <1>1, <1>2 DEF FlushRight
<1>5. N \in 0 .. MaxHeaders + 1
  BY <1>3
<1>6. /\ \A n \in 1 .. K : flush[n] \in Headers /\ flush[n].size \in Nat /\ Hdr!EndOf(n) \in Nat
      /\ Hdr!EndOf(1) = Hdr!header_offset(N) + flush[1].size
      /\ K = 2 => Hdr!EndOf(2) = Hdr!EndOf(1) + flush[2].size
  BY <1>1, <1>3, <1>4, <1>5, EndsAt
<1>7. chain \in Seq(Headers) /\ flush \in Seq(Headers)
  BY <1>1 DEF HeadersTyped
<1>8. /\ new \in Seq(Headers) /\ Len(new) = N + K
      /\ \A n \in 1 .. N : new[n] = chain[n]
      /\ \A n \in 1 .. K : new[N + n] = flush[n]
  <2>1. /\ new \in Seq(Headers) /\ Len(new) = N + K
        /\ \A n \in 1 .. N + K : new[n] = IF n <= N THEN chain[n] ELSE flush[n - N]
    BY <1>7, ConcatProperties
  <2> HIDE DEF new, N, K
  <2>2. ASSUME NEW n \in 1 .. N PROVE new[n] = chain[n]
    <3>1. n \in 1 .. N + K /\ n <= N
      BY <1>3, <1>4
    <3> QED
      BY <2>1, <3>1
  <2>3. ASSUME NEW n \in 1 .. K PROVE new[N + n] = flush[n]
    <3>1. N + n \in 1 .. N + K /\ ~(N + n <= N) /\ (N + n) - N = n
      BY <1>3, <1>4
    <3> QED
      BY <2>1, <3>1
  <2> QED
    BY <2>1, <2>2, <2>3
<1> HIDE DEF new, N, K
\* The headers that were flushed follow those of the chain.
<1>9. ASSUME NEW n \in 1 .. K
      PROVE  /\ Hdr!header_offset(N + n) = Hdr!header_offset(N + n - 1) + flush[n].size
             /\ OfItsSize(flush[n], N + n - 1)
             /\ Holds(headers_file, Hdr!header_offset(N + n - 1), Hdr!Bytes(flush[n]))
  <2>1. n = 1 \/ (n = 2 /\ K = 2)
    BY <1>4, OneOrTwo
  <2>2. 1 \in 1 .. K /\ flush[1] \in Headers /\ (K = 2 => flush[2] \in Headers)
    BY <1>4, <1>6
  <2>3. Hdr!header_offset(N + 1) = Hdr!EndOf(1)
    BY <1>4, <2>2
  <2>4. Hdr!header_offset(N + 1) = Hdr!header_offset(N) + flush[1].size
    BY <1>6, <2>3
  <2>5. Hdr!Bytes(flush[1]) \in Seq(Cells) /\ Len(Hdr!Bytes(flush[1])) = flush[1].size
    BY <2>2, BytesTyped
  <2>6. /\ K = 1 => Hdr!Join(flush) = Hdr!Bytes(flush[1])
        /\ K = 2 => Hdr!Join(flush) = Hdr!Bytes(flush[1]) \o Hdr!Bytes(flush[2])
    BY <1>4, <1>7, JoinRight DEF K
  <2>7. CASE n = 1
    <3>1. N + 1 - 1 = N
      BY <1>3
    <3>2. Holds(headers_file, Hdr!header_offset(N), Hdr!Bytes(flush[1]))
      <4>1. CASE K = 1
        BY <1>4, <2>6, <4>1
      <4>2. CASE K = 2
        <5>1. Hdr!Bytes(flush[2]) \in Seq(Cells)
          BY <2>2, <4>2, BytesTyped
        <5>2. Holds(headers_file, Hdr!header_offset(N), Hdr!Bytes(flush[1]) \o Hdr!Bytes(flush[2]))
          BY <1>4, <2>6, <4>2
        <5> QED
          BY <1>3, <1>5, <2>5, <5>1, <5>2, HoldsBoth
      <4> QED
        BY <1>4, <4>1, <4>2
    <3> QED
      BY <1>4, <2>4, <2>7, <3>1, <3>2
  <2>8. CASE n = 2 /\ K = 2
    <3>1. N + 2 - 1 = N + 1 /\ 2 \in 1 .. K
      BY <1>3, <2>8
    <3>2. Hdr!header_offset(N + 2) = Hdr!header_offset(N + 1) + flush[2].size
      BY <1>4, <1>6, <2>3, <2>8, <3>1
    <3>3. Hdr!Bytes(flush[2]) \in Seq(Cells)
      BY <2>2, <2>8, BytesTyped
    <3>4. Holds(headers_file, Hdr!header_offset(N), Hdr!Bytes(flush[1]) \o Hdr!Bytes(flush[2]))
      BY <1>4, <2>6, <2>8
    <3>5. Holds(headers_file, Hdr!header_offset(N) + Len(Hdr!Bytes(flush[1])), Hdr!Bytes(flush[2]))
      BY <1>3, <1>5, <2>5, <3>3, <3>4, HoldsBoth
    <3>6. Holds(headers_file, Hdr!header_offset(N + 1), Hdr!Bytes(flush[2]))
      BY <2>4, <2>5, <3>5
    <3> QED
      BY <1>4, <2>8, <3>1, <3>2, <3>6
  <2> QED
    BY <2>1, <2>7, <2>8
\* Every header of the new chain is one of the old or of the flush.
<1>10. ASSUME NEW n \in 1 .. N + K
       PROVE  /\ Hdr!header_offset(n) = Hdr!header_offset(n - 1) + new[n].size
              /\ OfItsSize(new[n], n - 1)
              /\ Holds(headers_file, Hdr!header_offset(n - 1), Hdr!Bytes(new[n]))
  <2>1. CASE n <= N
    <3>1. n \in 1 .. N
      BY <1>3, <1>4, <2>1
    <3>2. /\ Hdr!header_offset(n) = Hdr!header_offset(n - 1) + chain[n].size
          /\ OfItsSize(chain[n], n - 1)
          /\ Holds(headers_file, Hdr!header_offset(n - 1), Hdr!Bytes(chain[n]))
      BY <1>1, <3>1 DEF OffsetsRight, ContentRight, N
    <3> QED
      BY <1>8, <3>1, <3>2
  <2>2. CASE ~(n <= N)
    <3> DEFINE k == n - N
    <3>1. k \in 1 .. K /\ N + k = n /\ N + k - 1 = n - 1
      BY <1>3, <1>4, <2>2
    <3> HIDE DEF k
    <3>2. new[n] = flush[k]
      BY <1>8, <3>1
    <3>3. /\ Hdr!header_offset(N + k) = Hdr!header_offset(N + k - 1) + flush[k].size
          /\ OfItsSize(flush[k], N + k - 1)
          /\ Holds(headers_file, Hdr!header_offset(N + k - 1), Hdr!Bytes(flush[k]))
      BY <1>9, <3>1
    <3> QED
      BY ONLY <3>1, <3>2, <3>3
  <2> QED
    BY <2>1, <2>2
<1>11. HeadersTyped'
  BY <1>1, <1>2, <1>4, <1>8 DEF HeadersTyped, WithinSize
<1>12. /\ \A n : Hdr!header_offset(n)' = Hdr!header_offset(n)
       /\ \A header, at : OfItsSize(header, at)' = OfItsSize(header, at)
  BY <1>2 DEF Hdr!header_offset, OfItsSize
<1>13. OffsetsRight'
  BY <1>1, <1>2, <1>8, <1>10, <1>12 DEF OffsetsRight
<1>14. ContentRight'
  <2>1. \A n \in 1 .. N + K : Hdr!Bytes(chain[n])' = Hdr!Bytes(new[n])
    BY <1>2 DEF Hdr!Bytes, Hdr!Byte
  <2> QED
    BY <1>2, <1>8, <1>10, <1>12, <2>1 DEF ContentRight
<1> QED
  BY <1>2, <1>11, <1>13, <1>14 DEF HeadersInv, FlushRight

-----------------------------------------------------------------------------
(* Reading.                                                                 *)

\* Every place between the starts of two headers belongs to a header.
LEMMA PlacesFilled ==
    ASSUME Hdr!HeadersAssumption, HeadersInv, NEW s \in 0 .. Len(chain), NEW e \in 0 .. Len(chain), s <= e,
           NEW x \in Nat, Hdr!header_offset(s) <= x, x < Hdr!header_offset(e)
    PROVE  Has(headers_file, x)
<1>1. HeadersTyped /\ OffsetsRight /\ ContentRight
  BY DEF HeadersInv
<1> DEFINE N == Len(chain)
           T == { n \in 0 .. N : Hdr!header_offset(n) <= x }
<1>2. /\ \A n \in 0 .. MaxHeaders + 1 : Hdr!header_offset(n) \in Nat
      /\ \A n \in 1 .. N : chain[n] \in Headers /\ Hdr!header_offset(n) = Hdr!header_offset(n - 1) + chain[n].size
      /\ \A m, n \in 0 .. N : m <= n => Hdr!header_offset(m) <= Hdr!header_offset(n)
      /\ N \in Nat /\ N <= MaxHeaders + 1 /\ MaxHeaders \in Nat
  BY <1>1, HeaderPlaces
<1>3. \A n \in 0 .. N : n \in 0 .. MaxHeaders + 1 /\ Hdr!header_offset(n) \in Nat
  BY <1>2
<1>4. PICK n \in T : \A m \in T : m <= n
  <2>1. T \in SUBSET (0 .. N) /\ s \in T
    OBVIOUS
  <2> HIDE DEF T
  <2>2. T # {}
    BY <2>1
  <2> QED
    BY <1>2, <2>1, <2>2, GreatestNumber
<1>5. n \in 0 .. N /\ Hdr!header_offset(n) <= x
  OBVIOUS
<1>6. n < N
  <2>1. N \in 0 .. N /\ e <= N
    BY <1>2
  <2>2. Hdr!header_offset(e) <= Hdr!header_offset(N)
    BY <1>2, <2>1
  <2>3. ~(Hdr!header_offset(N) <= x)
    BY <1>3, <2>1, <2>2
  <2> QED
    BY <1>2, <1>5, <2>3
<1>7. n + 1 \in 1 .. N /\ n + 1 \in 0 .. N /\ (n + 1) - 1 = n /\ ~(n + 1 <= n)
  BY <1>2, <1>5, <1>6
<1>8. x < Hdr!header_offset(n + 1)
  <2>1. n + 1 \notin T
    BY <1>4, <1>7
  <2> QED
    BY <1>3, <1>7, <2>1
<1> HIDE DEF N, T
<1> DEFINE header == chain[n + 1]
           i == x - Hdr!header_offset(n) + 1
<1>9. header \in Headers /\ Hdr!header_offset(n + 1) = Hdr!header_offset(n) + header.size
  BY <1>2, <1>7
<1>10. Len(Hdr!Bytes(header)) = header.size /\ header.size \in Nat
  BY <1>9, BytesTyped
<1>11. Holds(headers_file, Hdr!header_offset(n), Hdr!Bytes(header))
  BY <1>1, <1>7 DEF ContentRight, N
<1>12. i \in 1 .. header.size /\ Hdr!header_offset(n) + i - 1 = x
  BY <1>3, <1>5, <1>8, <1>9, <1>10
<1> HIDE DEF header, i
<1> QED
  BY <1>10, <1>11, <1>12 DEF Holds

\* A range of headers reads as the bytes between their starts.
LEMMA RangeRead ==
    ASSUME Hdr!HeadersAssumption, HeadersInv, NEW s \in Nat, NEW c \in Nat \ {0}, s + c <= Len(chain)
    PROVE  LET size == Hdr!header_offset(s + c) - Hdr!header_offset(s)
           IN /\ size \in Nat
              /\ Hdr!read_headers(s, c) = Hdr!Read(headers_file, Hdr!header_offset(s), size)
              /\ Hdr!read_headers(s, c) = [i \in 1 .. size |-> CellAt(headers_file, Hdr!header_offset(s) + i - 1)]
              /\ Hdr!DiskCount(s, c) = c
<1> DEFINE N == Len(chain)
           start == Hdr!header_offset(s)
           end == Hdr!header_offset(s + c)
<1>1. HeadersTyped /\ OffsetsRight
  BY DEF HeadersInv
<1>2. /\ \A n \in 0 .. MaxHeaders + 1 : Hdr!header_offset(n) \in Nat
      /\ \A m, n \in 0 .. N : m <= n => Hdr!header_offset(m) <= Hdr!header_offset(n)
      /\ N \in Nat /\ N <= MaxHeaders + 1 /\ MaxHeaders \in Nat
  BY <1>1, HeaderPlaces
<1>3. /\ s \in 0 .. N /\ s + c \in 0 .. N /\ s <= s + c
      /\ s \in 0 .. MaxHeaders + 1 /\ s + c \in 0 .. MaxHeaders + 1
  BY <1>2
<1>4. start \in Nat /\ end \in Nat /\ start <= end
  BY <1>2, <1>3
<1>5. Hdr!DiskCount(s, c) = c
  <2>1. Hdr!db_height + 1 = N /\ Hdr!db_height + 1 - s = N - s
    BY <1>2 DEF Hdr!db_height
  <2>2. Hdr!Lower(c, Hdr!db_height + 1 - s) = c
    BY <1>2, <1>3, <2>1 DEF Hdr!Lower
  <2> QED
    BY <2>2 DEF Hdr!DiskCount, Hdr!Higher
<1>6. Hdr!read_headers(s, c) = Hdr!Read(headers_file, start, end - start)
  BY <1>5 DEF Hdr!read_headers
<1>7. \A x \in Nat : start <= x /\ x < end => Has(headers_file, x)
  BY <1>3, PlacesFilled
<1>8. headers_file \in FileSets /\ WithinSize(headers_file)
  BY <1>1 DEF HeadersTyped
<1> HIDE DEF start, end
<1> DEFINE size == end - start
<1>9. size \in Nat /\ start + size = end
  BY <1>4
<1> HIDE DEF size
<1>10. Hdr!Read(headers_file, start, size) = [i \in 1 .. size |-> CellAt(headers_file, start + i - 1)]
  BY <1>4, <1>7, <1>8, <1>9, ReadRight
<1> QED
  BY <1>5, <1>6, <1>9, <1>10 DEF size, start, end

\* A header in a range, or the first bytes of it.
LEMMA PieceRead ==
    ASSUME Hdr!HeadersAssumption, HeadersInv, NEW s \in Nat, NEW c \in Nat \ {0}, s + c <= Len(chain),
           NEW n \in s + 1 .. s + c, NEW k \in 0 .. chain[n].size
    PROVE  LET at == Hdr!header_offset(n - 1) - Hdr!header_offset(s)
           IN SubSeq(Hdr!read_headers(s, c), at + 1, at + k) = SubSeq(Hdr!Bytes(chain[n]), 1, k)
<1> DEFINE N == Len(chain)
           start == Hdr!header_offset(s)
           first == Hdr!header_offset(n - 1)
           at == first - start
           size == Hdr!header_offset(s + c) - start
           b == Hdr!Bytes(chain[n])
           R == Hdr!read_headers(s, c)
           f == headers_file
<1>1. HeadersTyped /\ OffsetsRight /\ ContentRight
  BY DEF HeadersInv
<1>2. /\ \A m \in 0 .. MaxHeaders + 1 : Hdr!header_offset(m) \in Nat
      /\ \A m \in 1 .. N : chain[m] \in Headers /\ Hdr!header_offset(m) = Hdr!header_offset(m - 1) + chain[m].size
      /\ \A m, l \in 0 .. N : m <= l => Hdr!header_offset(m) <= Hdr!header_offset(l)
      /\ N \in Nat /\ N <= MaxHeaders + 1 /\ MaxHeaders \in Nat
  BY <1>1, HeaderPlaces
<1>3. /\ n \in 1 .. N /\ n \in 0 .. N /\ n - 1 \in 0 .. N /\ s \in 0 .. N /\ s + c \in 0 .. N
      /\ s <= n - 1 /\ n <= s + c
  BY <1>2
<1>4. \A m \in 0 .. N : Hdr!header_offset(m) \in Nat
  BY <1>2
<1>5. /\ chain[n] \in Headers /\ Hdr!header_offset(n) = first + chain[n].size
      /\ start <= first /\ Hdr!header_offset(n) <= Hdr!header_offset(s + c)
  BY <1>2, <1>3
<1>6. b \in Seq(Cells) /\ Len(b) = chain[n].size /\ chain[n].size \in Nat
  BY <1>5, BytesTyped
<1>7. start \in Nat /\ first \in Nat /\ Hdr!header_offset(n) \in Nat /\ Hdr!header_offset(s + c) \in Nat
  BY <1>3, <1>4
<1>8. at \in Nat /\ k \in Nat /\ at + k <= size /\ k <= Len(b) /\ size \in Nat /\ start + at = first
  <2> DEFINE last == Hdr!header_offset(n)
             stop == Hdr!header_offset(s + c)
             sz == chain[n].size
  <2>1. /\ start \in Nat /\ first \in Nat /\ last \in Nat /\ stop \in Nat /\ sz \in Nat /\ k \in 0 .. sz
        /\ last = first + sz /\ start <= first /\ last <= stop /\ Len(b) = sz
    BY <1>5, <1>6, <1>7
  <2>2. at = first - start /\ size = stop - start
    OBVIOUS
  <2> HIDE DEF start, first, last, stop, sz, b, at, size
  <2> QED
    BY <2>1, <2>2
<1>9. R = [i \in 1 .. size |-> CellAt(f, start + i - 1)]
  BY RangeRead
<1>10. Holds(f, first, b)
  BY <1>1, <1>3 DEF ContentRight
<1> HIDE DEF start, first, at, size, b, R, f
<1>11. ASSUME NEW i \in 1 .. k PROVE R[at + i] = b[i]
  <2>0. /\ at \in Nat /\ start \in Nat /\ first \in Nat /\ size \in Nat /\ k \in Nat /\ Len(b) \in Nat
        /\ at + k <= size /\ k <= Len(b) /\ start + at = first
    BY <1>6, <1>7, <1>8
  <2>1. at + i \in 1 .. size /\ start + (at + i) - 1 = first + i - 1 /\ i \in 1 .. Len(b)
    BY ONLY <2>0, i \in 1 .. k
  <2>2. R[at + i] = CellAt(f, start + (at + i) - 1)
    BY <1>9, <2>1
  <2>3. CellAt(f, first + i - 1) = b[i]
    BY <1>10, <2>1 DEF Holds
  <2> QED
    BY <2>1, <2>2, <2>3
<1>12. \A i \in 1 .. k : i \in 1 .. Len(b) /\ b[i] \in Cells
  BY <1>6, <1>8
<1> DEFINE lo == at + 1
           hi == at + k
           cut == SubSeq(R, lo, hi)
           own == SubSeq(b, 1, k)
<1>13. cut \in Seq(Cells) /\ Len(cut) = k /\ \A i \in 1 .. k : cut[i] = R[at + i]
  <2>1. lo \in Int /\ hi \in Int /\ (IF lo <= hi THEN hi - lo + 1 ELSE 0) = k /\ hi - lo + 1 = k
        /\ \A i \in 1 .. k : lo + i - 1 = at + i
    BY <1>8
  <2>2. ASSUME NEW j \in lo .. hi PROVE R[j] \in Cells
    <3>1. j - at \in 1 .. k /\ at + (j - at) = j
      BY <1>8, <2>2
    <3> QED
      BY <1>11, <1>12, <3>1
  <2> HIDE DEF lo, hi
  <2>3. /\ SubSeq(R, lo, hi) \in Seq(Cells)
        /\ Len(SubSeq(R, lo, hi)) = IF lo <= hi THEN hi - lo + 1 ELSE 0
        /\ \A i \in 1 .. hi - lo + 1 : SubSeq(R, lo, hi)[i] = R[lo + i - 1]
    BY <2>1, <2>2, SubSeqProperties
  <2> QED
    BY <2>1, <2>3
<1>14. own \in Seq(Cells) /\ Len(own) = k /\ \A i \in 1 .. k : own[i] = b[i]
  <2>1. (IF 1 <= k THEN k - 1 + 1 ELSE 0) = k /\ k - 1 + 1 = k /\ \A i \in 1 .. k : 1 + i - 1 = i
    BY <1>8
  <2>2. /\ SubSeq(b, 1, k) \in Seq(Cells)
        /\ Len(SubSeq(b, 1, k)) = IF 1 <= k THEN k - 1 + 1 ELSE 0
        /\ \A i \in 1 .. k - 1 + 1 : SubSeq(b, 1, k)[i] = b[1 + i - 1]
    BY <1>8, <1>12, SubSeqProperties
  <2> QED
    BY <2>1, <2>2
<1> HIDE DEF cut, own
<1>15. cut = own
  <2>1. \A i \in 1 .. Len(cut) : cut[i] = own[i]
    BY <1>11, <1>13, <1>14
  <2> QED
    BY <1>13, <1>14, <2>1, SeqEqual
<1> QED
  BY <1>15 DEF cut, own, lo, hi, at, first, start, b, R

LEMMA HeadersFollow ==
    ASSUME Hdr!HeadersAssumption, HeadersInv
    PROVE  HeadersRight
<1> DEFINE N == Len(chain)
<1>1. HeadersTyped /\ OffsetsRight /\ ContentRight
  BY DEF HeadersInv
<1>2. /\ \A m \in 0 .. MaxHeaders + 1 : Hdr!header_offset(m) \in Nat
      /\ \A m \in 1 .. N : chain[m] \in Headers /\ Hdr!header_offset(m) = Hdr!header_offset(m - 1) + chain[m].size
      /\ \A m, l \in 0 .. N : m <= l => Hdr!header_offset(m) <= Hdr!header_offset(l)
      /\ N \in Nat /\ N <= MaxHeaders + 1 /\ MaxHeaders \in Nat
  BY <1>1, HeaderPlaces
<1>3. \A m \in 0 .. N : Hdr!header_offset(m) \in Nat
  BY <1>2
<1>4. \A m \in 1 .. N : /\ Hdr!Bytes(chain[m]) \in Seq(Cells) /\ Len(Hdr!Bytes(chain[m])) = chain[m].size
                        /\ chain[m].size \in Nat
  BY <1>2, BytesTyped
<1>5. Hdr!db_height = N - 1
  BY DEF Hdr!db_height
<1>6. ASSUME NEW sc \in Hdr!Spans
      PROVE  sc[1] \in Nat /\ sc[2] \in Nat \ {0} /\ sc[1] + sc[2] <= N
  <2>1. sc \in (0 .. MaxHeaders) \X (1 .. MaxHeaders + 1) /\ sc[1] + sc[2] <= Hdr!db_height + 1
    BY <1>6 DEF Hdr!Spans
  <2>2. sc[1] \in 0 .. MaxHeaders /\ sc[2] \in 1 .. MaxHeaders + 1
    BY <2>1
  <2>3. Hdr!db_height + 1 = N
    BY <1>2, <1>5
  <2> QED
    BY <1>2, <2>1, <2>2, <2>3
<1> HIDE DEF N
<1>7. Hdr!HeadersReadBack
  <2> SUFFICES ASSUME NEW s \in 0 .. Hdr!db_height PROVE Hdr!read_headers(s, 1) = Hdr!Bytes(chain[s + 1])
    BY DEF Hdr!HeadersReadBack
  <2>1. s \in Nat /\ 1 \in Nat \ {0} /\ s + 1 <= N /\ s + 1 \in 1 .. N /\ (s + 1) - 1 = s /\ s \in 0 .. N /\ s + 1 \in 0 .. N
    BY <1>2, <1>5
  <2> DEFINE b == Hdr!Bytes(chain[s + 1])
  <2>2. Hdr!header_offset(s + 1) - Hdr!header_offset(s) = Len(b)
    <3>1. Hdr!header_offset(s + 1) = Hdr!header_offset(s) + chain[s + 1].size
      BY <1>2, <2>1
    <3>2. Hdr!header_offset(s) \in Nat /\ Len(b) = chain[s + 1].size /\ chain[s + 1].size \in Nat
      BY <1>3, <1>4, <2>1
    <3> QED
      BY <3>1, <3>2
  <2>3. b \in Seq(Cells)
    BY <1>4, <2>1
  <2>4. Holds(headers_file, Hdr!header_offset(s), b)
    BY <1>1, <2>1 DEF ContentRight, N
  <2>5. Hdr!read_headers(s, 1) = Hdr!Read(headers_file, Hdr!header_offset(s), Len(b))
    <3> HIDE DEF b
    <3>1. Hdr!read_headers(s, 1)
            = Hdr!Read(headers_file, Hdr!header_offset(s), Hdr!header_offset(s + 1) - Hdr!header_offset(s))
      BY <2>1, RangeRead DEF N
    <3> QED
      BY <2>2, <3>1
  <2>6. headers_file \in FileSets /\ WithinSize(headers_file) /\ Hdr!header_offset(s) \in Nat
    BY <1>1, <1>3, <2>1 DEF HeadersTyped
  <2> HIDE DEF b
  <2>7. Hdr!Read(headers_file, Hdr!header_offset(s), Len(b)) = b
    BY <2>3, <2>4, <2>6, ReadHolds
  <2> QED
    BY <2>5, <2>7 DEF b
<1>8. Hdr!BlockHashesRight
  <2> SUFFICES ASSUME NEW sc \in Hdr!Spans
               PROVE  Hdr!fs_headers(sc[1], sc[2]) = [n \in 1 .. sc[2] |-> Hdr!Bytes(chain[sc[1] + n])]
    BY DEF Hdr!BlockHashesRight
  <2> DEFINE s == sc[1]
             c == sc[2]
             R == Hdr!read_headers(s, c)
  <2>1. s \in Nat /\ c \in Nat \ {0} /\ s + c <= N
    BY <1>6
  <2> HIDE DEF s, c
  <2>2. ASSUME NEW m \in 1 .. c
        PROVE  LET at == Hdr!header_offset(s + m - 1) - Hdr!header_offset(s)
               IN SubSeq(R, at + 1, at + Hdr!header_len(s + m - 1)) = Hdr!Bytes(chain[s + m])
    <3> DEFINE n == s + m
               k == chain[n].size
               b == Hdr!Bytes(chain[n])
    <3>1. n \in s + 1 .. s + c /\ n \in 1 .. N /\ s + m - 1 = n - 1 /\ (n - 1) + 1 = n /\ n - 1 \in 0 .. N
      BY <1>2, <2>1
    <3> HIDE DEF n
    <3>2. b \in Seq(Cells) /\ Len(b) = k /\ k \in Nat /\ k \in 0 .. k
      BY <1>4, <3>1
    <3>3. Hdr!header_len(n - 1) = k
      <4>1. Hdr!header_offset(n) = Hdr!header_offset(n - 1) + k /\ Hdr!header_offset(n - 1) \in Nat
        BY <1>2, <1>3, <3>1
      <4>2. Hdr!header_len(n - 1) = Hdr!header_offset(n) - Hdr!header_offset(n - 1)
        BY <3>1 DEF Hdr!header_len
      <4> QED
        BY <3>2, <4>1, <4>2
    <3> DEFINE at == Hdr!header_offset(n - 1) - Hdr!header_offset(s)
    <3>4. SubSeq(R, at + 1, at + k) = SubSeq(b, 1, k)
      BY <2>1, <3>1, <3>2, PieceRead DEF N
    <3>5. SubSeq(b, 1, k) = b
      <4> HIDE DEF b, k
      <4> QED
        BY <3>2, SubSeqFull
    <3> HIDE DEF R
    <3> QED
      BY <3>1, <3>3, <3>4, <3>5 DEF n
  <2>3. Hdr!fs_headers(s, c) = [m \in 1 .. c |->
           LET at == Hdr!header_offset(s + m - 1) - Hdr!header_offset(s)
           IN SubSeq(R, at + 1, at + Hdr!header_len(s + m - 1))]
    BY DEF Hdr!fs_headers
  <2> HIDE DEF R
  <2>4. Hdr!fs_headers(s, c) = [m \in 1 .. c |-> Hdr!Bytes(chain[s + m])]
    BY <2>2, <2>3
  <2> QED
    BY <2>4 DEF s, c
<1>9. ASSUME ~STATIC_BLOCK_HEADERS PROVE Hdr!AuxPowTruncated
  <2> SUFFICES ASSUME NEW sc \in Hdr!Spans
               PROVE  Hdr!truncate_auxpow(sc[1], sc[2])
                        = [n \in 1 .. sc[2] |-> SubSeq(Hdr!Bytes(chain[sc[1] + n]), 1, BASIC_HEADER_SIZE)]
    BY DEF Hdr!AuxPowTruncated
  <2> DEFINE s == sc[1]
             c == sc[2]
             R == Hdr!read_headers(s, c)
             k == BASIC_HEADER_SIZE
  <2>1. s \in Nat /\ c \in Nat \ {0} /\ s + c <= N
    BY <1>6
  <2> HIDE DEF s, c
  <2>2. ASSUME NEW m \in 1 .. c
        PROVE  SubSeq(R, Hdr!TruncatedEnds(s, m - 1) + 1, Hdr!TruncatedEnds(s, m - 1) + k)
                 = SubSeq(Hdr!Bytes(chain[s + m]), 1, k)
    <3> DEFINE n == s + m
               at == Hdr!header_offset(n - 1) - Hdr!header_offset(s)
    <3>1. n \in s + 1 .. s + c /\ n \in 1 .. N /\ s + (m - 1) = n - 1
      BY <1>2, <2>1
    <3> HIDE DEF n
    <3>2. Hdr!TruncatedEnds(s, m - 1) = at
      BY <3>1 DEF Hdr!TruncatedEnds
    <3>3. k \in 0 .. chain[n].size
      <4>1. OfItsSize(chain[n], n - 1)
        BY <1>1, <3>1 DEF OffsetsRight, N
      <4>2. k <= chain[n].size /\ k \in Nat /\ chain[n].size \in Nat
        BY <1>4, <1>9, <3>1, <4>1, HeaderConstants DEF OfItsSize
      <4> QED
        BY <4>2
    <3> HIDE DEF k
    <3>4. SubSeq(R, at + 1, at + k) = SubSeq(Hdr!Bytes(chain[n]), 1, k)
      BY <2>1, <3>1, <3>3, PieceRead DEF N
    <3> HIDE DEF R, at
    <3> QED
      BY <3>2, <3>4 DEF n
  <2>3. Hdr!DiskCount(s, c) = c
    BY <2>1, RangeRead DEF N
  <2>4. Hdr!truncate_auxpow(s, c) = [m \in 1 .. c |->
           SubSeq(R, Hdr!TruncatedEnds(s, m - 1) + 1, Hdr!TruncatedEnds(s, m - 1) + k)]
    BY <2>3 DEF Hdr!truncate_auxpow
  <2> HIDE DEF R, k
  <2>5. Hdr!truncate_auxpow(s, c) = [m \in 1 .. c |-> SubSeq(Hdr!Bytes(chain[s + m]), 1, k)]
    BY <2>2, <2>4
  <2> QED
    BY <2>5 DEF s, c, k
<1> QED
  BY <1>7, <1>8, <1>9 DEF HeadersRight, Hdr!HeadersRight

\* LogicalFile, flush_fs, read_headers, fs_block_hashes: headers of any sizes read as they
\* were written, one by one and in ranges, whole and truncated, wherever the files are
\* split, after reorganisations to headers of other sizes and crashes in a flush.
THEOREM HeadersReadRight ==
    ASSUME Hdr!HeadersAssumption
    PROVE  Hdr!Spec => []HeadersRight
<1>1. Hdr!Init => HeadersInv
  BY HeadersStart
<1>2. HeadersInv /\ [Hdr!Next]_(Hdr!vars) => HeadersInv'
  <2> SUFFICES ASSUME HeadersInv, [Hdr!Next]_(Hdr!vars) PROVE HeadersInv'
    OBVIOUS
  <2>1. CASE UNCHANGED Hdr!vars
    <3>1. /\ stage' = stage /\ flush' = flush /\ chain' = chain /\ headers_file' = headers_file
          /\ headers_offsets_file' = headers_offsets_file /\ STATIC_BLOCK_HEADERS' = STATIC_BLOCK_HEADERS
      BY <2>1 DEF Hdr!vars
    <3> QED
      BY <3>1 DEF HeadersInv, HeadersTyped, WithinSize, OffsetsRight, ContentRight, FlushRight, OfItsSize,
                  Hdr!header_offset, Hdr!Bytes, Hdr!Byte, Hdr!EndOf, Hdr!db_height
  <2>2. CASE \E hds \in Hdr!Batches : Hdr!WriteHeaders(hds)
    BY <2>2, WriteHeadersKeeps
  <2>3. CASE Hdr!WriteOffsets
    BY <2>3, WriteOffsetsKeeps
  <2>4. CASE Hdr!FlushState
    BY <2>4, FlushStateKeeps
  <2>5. CASE Hdr!BackupFs
    BY <2>5, BackupFsKeeps
  <2>6. CASE Hdr!Crash
    BY <2>6, HeadersCrashKeeps
  <2> QED
    BY <2>1, <2>2, <2>3, <2>4, <2>5, <2>6 DEF Hdr!Next
<1>3. HeadersInv => HeadersRight
  BY HeadersFollow
<1> QED
  BY <1>1, <1>2, <1>3, PTL DEF Hdr!Spec
=============================================================================
