------------------------- MODULE BlockProcessorProofs -------------------------
(***************************************************************************)
(* The committed databases are the index of the committed tip's chain, and *)
(* the tables seen through the cache are the UTXO set of the chain in      *)
(* memory, for every block tree, whatever reorganisations, crashes and     *)
(* shutdowns there were.  Every address whose confirmed history changed is *)
(* reported as touched.  Without forced reorganisations no assertion and   *)
(* no lookup of the block processor fails.                                 *)
(***************************************************************************)
EXTENDS BlockProcessor, FiniteSetTheorems, SequenceTheorems, WellFoundedInduction, TLAPS

-----------------------------------------------------------------------------
(* Blockchain.  What follows for every tree of blocks: the chain that ends  *)
(* in a block, its transactions and its unspent outputs, in terms of its    *)
(* parent's.                                                                *)

-----------------------------------------------------------------------------
(* The recursive functions on chains.  That they exist is proved from there *)
(* being no set of blocks that contains the parent of each.                 *)

\* A property that every block inherits from its parent holds of all of them: Bad is the
\* set of blocks without it.
LEMMA Inherited ==
    ASSUME NEW Bad \in SUBSET Blocks, \A b \in Bad : Prev[b] \in Bad
    PROVE  Bad = {}
  BY BlockchainAssumption

\* g is what the recursion of Path and ChainTxs, with x[b] added by b, says on A.
Links(x, A, g) ==
    /\ A \subseteq Tips /\ NoBlock \in A /\ \A b \in A \ {NoBlock} : Prev[b] \in A
    /\ g = [b \in A |-> IF b = NoBlock THEN <<>> ELSE g[Prev[b]] \o x[b]]

LEMMA LinksUnique ==
    ASSUME NEW x, NEW A, NEW B, NEW g, NEW h, Links(x, A, g), Links(x, B, h)
    PROVE  \A b \in A \cap B : g[b] = h[b]
<1> DEFINE Bad == { b \in A \cap B : g[b] # h[b] }
<1>1. \A b \in A : g[b] = IF b = NoBlock THEN <<>> ELSE g[Prev[b]] \o x[b]
  BY DEF Links
<1>2. \A b \in B : h[b] = IF b = NoBlock THEN <<>> ELSE h[Prev[b]] \o x[b]
  BY DEF Links
<1>3. Bad \subseteq Blocks
  BY <1>1, <1>2 DEF Links, Tips
<1>4. \A b \in Bad : Prev[b] \in Bad
  BY <1>1, <1>2, <1>3, BlockchainAssumption DEF Links
<1>5. Bad = {}
  BY <1>3, <1>4, Inherited
<1> QED
  BY <1>5

LEMMA LinksExist ==
    ASSUME NEW x
    PROVE  \E g : Links(x, Tips, g)
<1> DEFINE Has(b) == \E A, g : b \in A /\ Links(x, A, g)
           Bad == { b \in Blocks : ~Has(b) }
<1>1. Has(NoBlock)
  <2> DEFINE g == [b \in {NoBlock} |-> <<>>]
  <2>1. Links(x, {NoBlock}, g)
    BY DEF Links, Tips
  <2> QED
    BY <2>1
<1>2. ASSUME NEW b \in Blocks, Has(Prev[b])
      PROVE  Has(b)
  <2>1. PICK A, g : Prev[b] \in A /\ Links(x, A, g)
    BY <1>2
  <2> DEFINE h == [c \in A \cup {b} |-> IF c \in A THEN g[c] ELSE g[Prev[b]] \o x[b]]
  <2>2. CASE b \in A
    BY <2>1, <2>2
  <2>3. CASE b \notin A
    <3>1. A \cup {b} \subseteq Tips /\ NoBlock \in A \cup {b}
          /\ \A c \in (A \cup {b}) \ {NoBlock} : Prev[c] \in A \cup {b}
      BY <2>1 DEF Links, Tips
    <3>2. h = [c \in A \cup {b} |-> IF c = NoBlock THEN <<>> ELSE h[Prev[c]] \o x[c]]
      <4>1. \A c \in A : g[c] = IF c = NoBlock THEN <<>> ELSE g[Prev[c]] \o x[c]
        BY <2>1 DEF Links
      <4>2. \A c \in A : c # NoBlock => Prev[c] \in A
        BY <2>1 DEF Links
      <4>3. b # NoBlock
        BY BlockchainAssumption
      <4>4. \A c \in A : h[c] = g[c]
        OBVIOUS
      <4>5. h[b] = g[Prev[b]] \o x[b]
        BY <2>3
      <4>6. \A c \in A \cup {b} : h[c] = IF c = NoBlock THEN <<>> ELSE h[Prev[c]] \o x[c]
        BY <2>1, <4>1, <4>2, <4>3, <4>4, <4>5
      <4>7. h = [c \in A \cup {b} |-> h[c]]
        OBVIOUS
      <4> HIDE DEF h
      <4> QED
        BY <4>6, <4>7
    <3>3. Links(x, A \cup {b}, h)
      BY <3>1, <3>2 DEF Links
    <3> QED
      BY <3>3
  <2> QED
    BY <2>2, <2>3
<1>3. Bad = {}
  <2>1. \A b \in Bad : Prev[b] \in Bad
    BY <1>1, <1>2, BlockchainAssumption
  <2> HIDE DEF Has
  <2> QED
    BY <2>1, Inherited
<1>4. \A b \in Tips : Has(b)
  BY <1>1, <1>3 DEF Tips
<1> DEFINE all == [b \in Tips |-> (CHOOSE p : b \in p[1] /\ Links(x, p[1], p[2]))[2][b]]
<1>5. ASSUME NEW b \in Tips, NEW A, NEW g, b \in A, Links(x, A, g)
      PROVE  all[b] = g[b]
  <2>1. b \in <<A, g>>[1] /\ Links(x, <<A, g>>[1], <<A, g>>[2])
    BY <1>5
  <2> DEFINE p == CHOOSE p : b \in p[1] /\ Links(x, p[1], p[2])
  <2>2. b \in p[1] /\ Links(x, p[1], p[2])
    BY <2>1
  <2>3. all[b] = p[2][b]
    OBVIOUS
  <2> HIDE DEF all, p
  <2>4. p[2][b] = g[b]
    BY <1>5, <2>2, LinksUnique
  <2> QED
    BY <2>3, <2>4
<1>6. ASSUME NEW b \in Tips
      PROVE  all[b] = IF b = NoBlock THEN <<>> ELSE all[Prev[b]] \o x[b]
  <2>1. PICK A, g : b \in A /\ Links(x, A, g)
    BY <1>4
  <2>2. all[b] = g[b]
    BY <1>5, <2>1
  <2>3. CASE b = NoBlock
    BY <2>1, <2>2, <2>3 DEF Links
  <2>4. CASE b # NoBlock
    <3>1. Prev[b] \in A /\ Prev[b] \in Tips
      BY <2>1, <2>4 DEF Links
    <3>2. all[Prev[b]] = g[Prev[b]]
      <4> HIDE DEF all
      <4> QED
        BY ONLY <1>5, <2>1, <3>1
    <3>3. g[b] = g[Prev[b]] \o x[b]
      BY <2>1, <2>4 DEF Links
    <3> QED
      BY <2>2, <2>4, <3>2, <3>3
  <2> QED
    BY <2>3, <2>4
<1>7. all = [b \in Tips |-> all[b]]
  OBVIOUS
<1> HIDE DEF all
<1>8. Links(x, Tips, all)
  <2>1. all = [b \in Tips |-> IF b = NoBlock THEN <<>> ELSE all[Prev[b]] \o x[b]]
    BY <1>6, <1>7
  <2>2. NoBlock \in Tips /\ \A b \in Tips \ {NoBlock} : Prev[b] \in Tips
    BY BlockchainAssumption DEF Tips
  <2> QED
    BY <2>1, <2>2 DEF Links
<1> QED
  BY <1>8

-----------------------------------------------------------------------------
(* The chain of a block, and its transactions.                              *)

TxId == DOMAIN Outs

LEMMA TipsFacts == /\ NoBlock \in Tips /\ Blocks \subseteq Tips /\ NoBlock \notin Blocks
                   /\ \A b \in Blocks : Prev[b] \in Tips
                   /\ \A b \in Tips : b # NoBlock => b \in Blocks
  BY BlockchainAssumption DEF Tips

LEMMA SequencesLinked ==
    ASSUME NEW S, NEW x \in [Blocks -> Seq(S)], NEW g, Links(x, Tips, g)
    PROVE  g \in [Tips -> Seq(S)]
<1> DEFINE Bad == { b \in Blocks : g[b] \notin Seq(S) }
<1>1. \A b \in Tips : g[b] = IF b = NoBlock THEN <<>> ELSE g[Prev[b]] \o x[b]
  BY DEF Links
<1>2. g[NoBlock] \in Seq(S)
  <2>1. g[NoBlock] = <<>>
    BY <1>1, TipsFacts
  <2> QED
    BY <2>1, EmptySeq
<1>3. \A b \in Bad : Prev[b] \in Bad
  <2> SUFFICES ASSUME NEW b \in Bad PROVE Prev[b] \in Bad
    OBVIOUS
  <2>1. b # NoBlock /\ Prev[b] \in Tips /\ g[b] = g[Prev[b]] \o x[b] /\ x[b] \in Seq(S)
    BY <1>1, TipsFacts
  <2>2. g[Prev[b]] \notin Seq(S)
    BY <2>1, ConcatProperties
  <2> QED
    BY <1>2, <2>1, <2>2, TipsFacts
<1>4. Bad = {}
  BY <1>3, Inherited
<1>5. \A b \in Tips : g[b] \in Seq(S)
  BY <1>2, <1>4, TipsFacts
<1>6. g = [b \in Tips |-> g[b]]
  BY DEF Links
<1> QED
  BY <1>5, <1>6

LEMMA PathFacts ==
    /\ Path \in [Tips -> Seq(Blocks)] /\ Path[NoBlock] = <<>>
    /\ \A b \in Blocks : Path[b] = Append(Path[Prev[b]], b)
<1> DEFINE x == [b \in Blocks |-> <<b>>]
<1>1. PICK g : Links(x, Tips, g)
  BY LinksExist
<1>2. x \in [Blocks -> Seq(Blocks)]
  OBVIOUS
<1>3. g \in [Tips -> Seq(Blocks)]
  BY <1>1, <1>2, SequencesLinked
<1>4. \A b \in Tips : g[b] = IF b = NoBlock THEN <<>> ELSE Append(g[Prev[b]], b)
  <2> SUFFICES ASSUME NEW b \in Tips, b # NoBlock PROVE g[b] = Append(g[Prev[b]], b)
    BY <1>1 DEF Links
  <2>1. g[b] = g[Prev[b]] \o <<b>> /\ Prev[b] \in Tips /\ b \in Blocks
    BY <1>1, TipsFacts DEF Links
  <2> QED
    BY <1>3, <2>1, AppendIsConcat
<1>5. g = [b \in Blocks \cup {NoBlock} |-> IF b = NoBlock THEN <<>> ELSE Append(g[Prev[b]], b)]
  BY <1>3, <1>4 DEF Tips
<1>6. Path = [b \in Blocks \cup {NoBlock} |-> IF b = NoBlock THEN <<>> ELSE Append(Path[Prev[b]], b)]
  BY <1>5 DEF Path
<1>7. \A b \in Tips : Path[b] = IF b = NoBlock THEN <<>> ELSE Append(Path[Prev[b]], b)
  BY <1>6 DEF Tips
<1>8. Path = [b \in Tips |-> Path[b]]
  BY <1>6 DEF Tips
<1> DEFINE Bad == { b \in Blocks : Path[b] \notin Seq(Blocks) }
<1>9. \A b \in Bad : Prev[b] \in Bad
  <2> SUFFICES ASSUME NEW b \in Bad PROVE Prev[b] \in Bad
    OBVIOUS
  <2>1. b # NoBlock /\ Prev[b] \in Tips /\ Path[b] = Append(Path[Prev[b]], b)
    BY <1>7, TipsFacts
  <2>2. b \in Blocks /\ Append(Path[Prev[b]], b) \notin Seq(Blocks)
    BY <2>1
  <2>3. Path[Prev[b]] \notin Seq(Blocks)
    BY <2>2, AppendProperties
  <2> QED
    BY <1>7, <2>1, <2>3, TipsFacts
<1>10. Bad = {}
  BY <1>9, Inherited
<1>11. Path[NoBlock] = <<>> /\ Path[NoBlock] \in Seq(Blocks)
  BY <1>7, TipsFacts, EmptySeq
<1>12. \A b \in Tips : Path[b] \in Seq(Blocks)
  BY <1>10, <1>11, TipsFacts
<1>13. Path \in [Tips -> Seq(Blocks)]
  BY <1>8, <1>12
<1> QED
  BY <1>7, <1>11, <1>13, TipsFacts

LEMMA ChainTxsFacts ==
    /\ ChainTxs \in [Tips -> Seq(TxId)] /\ ChainTxs[NoBlock] = <<>>
    /\ \A b \in Blocks : ChainTxs[b] = ChainTxs[Prev[b]] \o Txs[b]
<1>1. PICK g : Links(Txs, Tips, g)
  BY LinksExist
<1>2. ChainTxs = [b \in Tips |-> IF b = NoBlock THEN <<>> ELSE ChainTxs[Prev[b]] \o Txs[b]]
  BY <1>1 DEF Links, ChainTxs
<1>3. Links(Txs, Tips, ChainTxs)
  BY <1>2, TipsFacts DEF Links
<1>4. Txs \in [Blocks -> Seq(TxId)]
  BY BlockchainAssumption DEF TxId
<1>5. ChainTxs \in [Tips -> Seq(TxId)]
  BY <1>3, <1>4, SequencesLinked
<1>6. \A b \in Tips : ChainTxs[b] = IF b = NoBlock THEN <<>> ELSE ChainTxs[Prev[b]] \o Txs[b]
  BY <1>2
<1> QED
  BY <1>5, <1>6, TipsFacts

\* What a block adds to its parent's chain.
LEMMA HeightFacts ==
    ASSUME NEW b \in Tips
    PROVE  /\ Height(b) \in Int /\ Height(b) >= -1 /\ Len(Path[b]) = Height(b) + 1
           /\ Len(Path[b]) \in Nat /\ Path[b] \in Seq(Blocks)
           /\ TxCount(b) \in Nat /\ ChainTxs[b] \in Seq(TxId)
           /\ b = NoBlock => Height(b) = -1 /\ TxCount(b) = 0
<1>1. Path[b] \in Seq(Blocks) /\ Len(Path[b]) \in Nat
  BY PathFacts
<1>2. ChainTxs[b] \in Seq(TxId) /\ Len(ChainTxs[b]) \in Nat
  BY ChainTxsFacts
<1>3. b = NoBlock => Len(Path[b]) = 0 /\ Len(ChainTxs[b]) = 0
  BY PathFacts, ChainTxsFacts
<1> QED
  BY <1>1, <1>2, <1>3 DEF Height, TxCount

LEMMA ParentFacts ==
    ASSUME NEW b \in Blocks
    PROVE  /\ Prev[b] \in Tips /\ b \in Tips
           /\ Height(b) = Height(Prev[b]) + 1 /\ Height(b) >= 0
           /\ Path[b][Height(b) + 1] = b
           /\ \A i \in 1 .. Len(Path[Prev[b]]) : Path[b][i] = Path[Prev[b]][i]
           /\ Txs[b] \in Seq(TxId) /\ Len(Txs[b]) \in Nat \ {0}
           /\ TxCount(b) = TxCount(Prev[b]) + Len(Txs[b])
           /\ \A n \in 1 .. TxCount(Prev[b]) : ChainTxs[b][n] = ChainTxs[Prev[b]][n]
           /\ \A n \in 1 .. Len(Txs[b]) : ChainTxs[b][TxCount(Prev[b]) + n] = Txs[b][n]
<1>1. Prev[b] \in Tips /\ b \in Tips
  BY TipsFacts
<1> DEFINE p == Path[Prev[b]]
           c == ChainTxs[Prev[b]]
<1>2. p \in Seq(Blocks) /\ c \in Seq(TxId) /\ Len(p) = Height(Prev[b]) + 1 /\ Len(c) = TxCount(Prev[b])
      /\ Height(Prev[b]) \in Int /\ Height(Prev[b]) >= -1 /\ TxCount(Prev[b]) \in Nat
  BY <1>1, HeightFacts DEF TxCount
<1>3. Path[b] = Append(p, b) /\ ChainTxs[b] = c \o Txs[b]
  BY PathFacts, ChainTxsFacts
<1>4. Txs[b] \in Seq(TxId) /\ Txs[b] # <<>>
  BY BlockchainAssumption DEF TxId
<1>5. Len(Txs[b]) \in Nat \ {0}
  BY <1>4
<1> HIDE DEF p, c
<1>6. Len(Path[b]) = Len(p) + 1 /\ Path[b][Len(p) + 1] = b /\ \A i \in 1 .. Len(p) : Path[b][i] = p[i]
  BY <1>2, <1>3, AppendProperties
<1>7. /\ Len(ChainTxs[b]) = Len(c) + Len(Txs[b])
      /\ \A n \in 1 .. Len(c) : ChainTxs[b][n] = c[n]
      /\ \A n \in 1 .. Len(Txs[b]) : ChainTxs[b][Len(c) + n] = Txs[b][n]
  <2>1. \A i \in 1 .. Len(c) + Len(Txs[b]) :
           (c \o Txs[b])[i] = IF i <= Len(c) THEN c[i] ELSE Txs[b][i - Len(c)]
    BY <1>2, <1>4, ConcatProperties
  <2>2. Len(c \o Txs[b]) = Len(c) + Len(Txs[b])
    BY <1>2, <1>4, ConcatProperties
  <2>3. Len(c) \in Nat
    BY <1>2
  <2> QED
    BY <1>3, <1>5, <2>1, <2>2, <2>3
<1>8. Height(b) = Len(p) /\ Height(b) = Height(Prev[b]) + 1
  BY <1>2, <1>6 DEF Height
<1>9. TxCount(b) = TxCount(Prev[b]) + Len(Txs[b])
  BY <1>2, <1>7 DEF TxCount
<1> QED
  BY <1>1, <1>2, <1>4, <1>5, <1>6, <1>7, <1>8, <1>9 DEF p, c

-----------------------------------------------------------------------------
(* Ancestors.                                                               *)

\* The chain of b begins with that of a.
Extends(b, a) ==
    /\ Height(a) <= Height(b) /\ \A i \in 1 .. Height(a) + 1 : Path[b][i] = Path[a][i]
    /\ TxCount(a) <= TxCount(b) /\ \A n \in 1 .. TxCount(a) : ChainTxs[b][n] = ChainTxs[a][n]

LEMMA ExtendsItself ==
    ASSUME NEW b \in Tips
    PROVE  Extends(b, b)
  BY HeightFacts DEF Extends

LEMMA ExtendsNone ==
    ASSUME NEW b \in Tips
    PROVE  Extends(b, NoBlock)
<1>1. Height(NoBlock) = -1 /\ TxCount(NoBlock) = 0
  BY TipsFacts, HeightFacts
<1> QED
  BY <1>1, HeightFacts DEF Extends

LEMMA ExtendsTransitive ==
    ASSUME NEW a \in Tips, NEW b \in Tips, NEW c \in Tips, Extends(c, b), Extends(b, a)
    PROVE  Extends(c, a)
<1>1. /\ Height(a) \in Int /\ Height(b) \in Int /\ Height(c) \in Int
      /\ TxCount(a) \in Int /\ TxCount(b) \in Int /\ TxCount(c) \in Int
  BY HeightFacts
<1> QED
  BY <1>1 DEF Extends

LEMMA ExtendsParent ==
    ASSUME NEW b \in Blocks
    PROVE  Extends(b, Prev[b])
<1>1. Height(Prev[b]) \in Int /\ TxCount(Prev[b]) \in Nat /\ Len(Path[Prev[b]]) = Height(Prev[b]) + 1
  BY TipsFacts, HeightFacts
<1> QED
  BY <1>1, ParentFacts DEF Extends

\* The block at a height of the chain of b is one b extends.
LEMMA Ancestors ==
    ASSUME NEW b \in Tips, NEW h \in 0 .. Height(b)
    PROVE  /\ Path[b][h + 1] \in Blocks /\ Height(Path[b][h + 1]) = h
           /\ Extends(b, Path[b][h + 1])
<1> DEFINE Good(c, k) == /\ Path[c][k + 1] \in Blocks /\ Height(Path[c][k + 1]) = k
                         /\ Extends(c, Path[c][k + 1])
           Bad == { c \in Blocks : ~(\A k \in 0 .. Height(c) : Good(c, k)) }
<1>1. ASSUME NEW c \in Bad
      PROVE  Prev[c] \in Bad
  <2>1. PICK k \in 0 .. Height(c) : ~Good(c, k)
    OBVIOUS
  <2>2. c \in Blocks /\ Prev[c] \in Tips /\ c \in Tips /\ Height(c) = Height(Prev[c]) + 1
        /\ Path[c][Height(c) + 1] = c /\ Height(Prev[c]) \in Int
    BY TipsFacts, ParentFacts, HeightFacts
  <2>3. k # Height(c)
    BY <2>1, <2>2, ExtendsItself
  <2>4. k \in 0 .. Height(Prev[c])
    BY <2>2, <2>3
  <2>5. Prev[c] # NoBlock
    BY <2>4, TipsFacts, HeightFacts
  <2>6. Path[c][k + 1] = Path[Prev[c]][k + 1]
    <3>1. Len(Path[Prev[c]]) = Height(Prev[c]) + 1
      BY <2>2, HeightFacts
    <3>2. k + 1 \in 1 .. Len(Path[Prev[c]])
      BY <2>2, <2>4, <3>1
    <3> QED
      BY <2>2, <3>2, ParentFacts
  <2>7. ~Good(Prev[c], k)
    <3> SUFFICES ASSUME Good(Prev[c], k) PROVE FALSE
      OBVIOUS
    <3>1. Extends(c, Path[c][k + 1])
      BY <2>2, <2>6, ExtendsParent, ExtendsTransitive, TipsFacts
    <3> QED
      BY <2>1, <2>6, <3>1
  <2> HIDE DEF Good
  <2> QED
    BY <2>2, <2>4, <2>5, <2>7, TipsFacts
<1>2. Bad = {}
  <2> HIDE DEF Good
  <2> QED
    BY <1>1, Inherited
<1>3. b \in Blocks
  BY TipsFacts, HeightFacts
<1>4. Good(b, h)
  <2> HIDE DEF Good
  <2> QED
    BY <1>2, <1>3
<1> QED
  BY <1>4

\* Two blocks that one block extends are on one chain.
LEMMA ExtendsLinear ==
    ASSUME NEW a \in Tips, NEW b \in Tips, NEW c \in Tips,
           Extends(c, a), Extends(c, b), Height(a) <= Height(b)
    PROVE  Extends(b, a)
<1>1. CASE a = NoBlock
  BY <1>1, ExtendsNone
<1>2. CASE a # NoBlock
  <2>1. a \in Blocks /\ Height(a) >= 0 /\ Height(a) \in Int /\ Height(b) \in Int
    BY <1>2, TipsFacts, ParentFacts, HeightFacts
  <2>2. Path[a][Height(a) + 1] = a
    BY <2>1, ParentFacts
  <2>3. Path[c][Height(a) + 1] = a
    BY <2>1, <2>2 DEF Extends
  <2>4. Path[b][Height(a) + 1] = a
    BY <2>1, <2>3 DEF Extends
  <2> QED
    BY <2>1, <2>4, Ancestors
<1> QED
  BY <1>1, <1>2

\* Of one height, they are the same.
LEMMA ExtendsSame ==
    ASSUME NEW a \in Tips, NEW b \in Tips, Extends(b, a), Height(a) = Height(b)
    PROVE  a = b
<1>1. CASE a = NoBlock
  <2>1. Height(b) = -1
    BY <1>1, HeightFacts
  <2> QED
    BY <1>1, <2>1, TipsFacts, ParentFacts
<1>2. CASE a # NoBlock
  <2>1. a \in Blocks /\ Height(a) >= 0 /\ Height(a) \in Int /\ b # NoBlock
    BY <1>2, TipsFacts, ParentFacts, HeightFacts
  <2>2. Path[a][Height(a) + 1] = a /\ Path[b][Height(b) + 1] = b
    BY <2>1, TipsFacts, ParentFacts
  <2>3. Path[b][Height(a) + 1] = Path[a][Height(a) + 1]
    BY <2>1 DEF Extends
  <2> QED
    BY <2>2, <2>3
<1> QED
  BY <1>1, <1>2

\* A block extends what its proper descendants' parents do.
LEMMA ExtendsOfParent ==
    ASSUME NEW a \in Tips, NEW b \in Blocks, Extends(b, a), a # b
    PROVE  Extends(Prev[b], a)
<1>1. Height(a) # Height(b) /\ Height(a) \in Int /\ Height(b) \in Int
      /\ Height(b) = Height(Prev[b]) + 1 /\ Height(Prev[b]) \in Int /\ Prev[b] \in Tips /\ b \in Tips
  BY ExtendsSame, HeightFacts, ParentFacts, TipsFacts
<1>2. Height(a) <= Height(Prev[b])
  BY <1>1 DEF Extends
<1> QED
  BY <1>1, <1>2, ExtendsParent, ExtendsLinear

\* The transaction counts of a chain.
LEMMA TxCountsFacts ==
    ASSUME NEW b \in Tips
    PROVE  /\ TxCounts[b] \in Seq(Nat) /\ Len(TxCounts[b]) = Height(b) + 1
           /\ \A i \in 1 .. Height(b) + 1 : TxCounts[b][i] = TxCount(Path[b][i]) /\ TxCounts[b][i] <= TxCount(b)
           /\ b # NoBlock => TxCounts[b][Height(b) + 1] = TxCount(b)
           /\ \A a \in Tips : Extends(b, a) => \A i \in 1 .. Height(a) + 1 : TxCounts[b][i] = TxCounts[a][i]
<1>1. Len(Path[b]) \in Nat /\ Len(Path[b]) = Height(b) + 1 /\ TxCount(b) \in Nat /\ Height(b) \in Int
  BY HeightFacts
<1>2. TxCounts[b] = [i \in 1 .. Len(Path[b]) |-> TxCount(Path[b][i])]
  BY DEF TxCounts
<1>3. ASSUME NEW i \in 1 .. Len(Path[b])
      PROVE  TxCount(Path[b][i]) \in Nat /\ TxCount(Path[b][i]) <= TxCount(b)
  <2>1. i - 1 \in 0 .. Height(b) /\ (i - 1) + 1 = i
    BY <1>1
  <2>2. Path[b][i] \in Blocks /\ Extends(b, Path[b][i])
    BY <2>1, Ancestors
  <2> QED
    BY <2>2, HeightFacts, TipsFacts DEF Extends
<1>4. TxCounts[b] \in [1 .. Len(Path[b]) -> Nat]
  BY <1>2, <1>3
<1>5. TxCounts[b] \in Seq(Nat) /\ Len(TxCounts[b]) = Len(Path[b])
  BY <1>1, <1>4
<1>6. b # NoBlock => TxCounts[b][Height(b) + 1] = TxCount(b)
  <2> SUFFICES ASSUME b # NoBlock PROVE TxCounts[b][Height(b) + 1] = TxCount(b)
    OBVIOUS
  <2>1. b \in Blocks /\ Path[b][Height(b) + 1] = b /\ Height(b) >= 0
    BY TipsFacts, ParentFacts
  <2> QED
    BY <1>1, <1>2, <2>1
<1>7. ASSUME NEW a \in Tips, Extends(b, a), NEW i \in 1 .. Height(a) + 1
      PROVE  TxCounts[b][i] = TxCounts[a][i]
  <2>1. TxCounts[a] = [j \in 1 .. Len(Path[a]) |-> TxCount(Path[a][j])]
    BY DEF TxCounts
  <2>2. Len(Path[a]) = Height(a) + 1 /\ Height(a) \in Int /\ Height(a) <= Height(b)
    BY <1>7, HeightFacts DEF Extends
  <2>3. Path[b][i] = Path[a][i]
    BY <1>7 DEF Extends
  <2>4. i \in 1 .. Len(Path[a]) /\ i \in 1 .. Len(Path[b])
    BY <1>1, <2>2
  <2> QED
    BY <1>2, <2>1, <2>3, <2>4
<1> QED
  BY <1>1, <1>2, <1>3, <1>5, <1>6, <1>7

-----------------------------------------------------------------------------
(* Coins.                                                                   *)

\* The coin created by transaction n of the chain of b with its i-th output.
NewCoin(b, n, i) == [tx |-> ChainTxs[b][n + 1], idx |-> i, hashX |-> Outs[ChainTxs[b][n + 1]][i], tx_num |-> n]

SpendableAt(b, n) == { i \in DOMAIN Outs[ChainTxs[b][n + 1]] : Outs[ChainTxs[b][n + 1]][i] # NoX }

Nums(b) == 0 .. TxCount(b) - 1

LEMMA TxAt ==
    ASSUME NEW b \in Tips, NEW n \in Nums(b)
    PROVE  /\ n \in Nat /\ n < TxCount(b) /\ ChainTxs[b][n + 1] \in TxId
           /\ LET t == ChainTxs[b][n + 1] IN
                /\ Ins[t] \in Seq([tx : TxId, idx : Nat]) /\ Outs[t] \in Seq(Range(Outs[t]))
                /\ DOMAIN Outs[t] = 1 .. Len(Outs[t]) /\ DOMAIN Ins[t] = 1 .. Len(Ins[t])
                /\ Len(Outs[t]) \in Nat /\ Len(Ins[t]) \in Nat
<1>1. ChainTxs[b] \in Seq(TxId) /\ Len(ChainTxs[b]) = TxCount(b) /\ TxCount(b) \in Nat
  BY HeightFacts DEF TxCount
<1>2. n + 1 \in 1 .. Len(ChainTxs[b]) /\ n \in Nat /\ n < TxCount(b)
  BY <1>1 DEF Nums
<1>3. ChainTxs[b][n + 1] \in TxId
  BY <1>1, <1>2, ElementOfSeq
<1>4. \A t \in TxId : Ins[t] \in Seq([tx : TxId, idx : Nat]) /\ Outs[t] \in Seq(Range(Outs[t]))
  BY BlockchainAssumption DEF TxId
<1>5. \A t \in TxId : /\ DOMAIN Outs[t] = 1 .. Len(Outs[t]) /\ DOMAIN Ins[t] = 1 .. Len(Ins[t])
                       /\ Len(Outs[t]) \in Nat /\ Len(Ins[t]) \in Nat
  BY <1>4, LenProperties
<1> QED
  BY <1>2, <1>3, <1>4, <1>5

LEMMA CreatedIs ==
    ASSUME NEW b \in Tips
    PROVE  /\ \A n \in Nums(b) : \A i \in SpendableAt(b, n) : NewCoin(b, n, i) \in Created[b]
           /\ \A c \in Created[b] : /\ c.tx_num \in Nums(b) /\ c.idx \in SpendableAt(b, c.tx_num)
                                     /\ c = NewCoin(b, c.tx_num, c.idx)
<1>1. Created[b] = UNION { { NewCoin(b, n, i) : i \in SpendableAt(b, n) } : n \in Nums(b) }
  BY DEF Created, NewCoin, SpendableAt, Nums
<1> QED
  BY <1>1 DEF NewCoin

LEMMA IdsDiffer ==
    ASSUME NEW b \in Blocks, NEW m \in 1 .. TxCount(b), NEW n \in 1 .. TxCount(b),
           ChainTxs[b][m] = ChainTxs[b][n]
    PROVE  m = n
  BY ChainsValid

LEMMA InputsDiffer ==
    ASSUME NEW b \in Blocks, NEW m \in 1 .. TxCount(b), NEW n \in 1 .. TxCount(b),
           NEW j \in DOMAIN Ins[ChainTxs[b][m]], NEW i \in DOMAIN Ins[ChainTxs[b][n]],
           Ins[ChainTxs[b][m]][j] = Ins[ChainTxs[b][n]][i]
    PROVE  m = n /\ j = i
<1>1. \A m_, n_ \in 1 .. TxCount(b) :
        \A j_ \in DOMAIN Ins[ChainTxs[b][m_]] : \A i_ \in DOMAIN Ins[ChainTxs[b][n_]] :
          Ins[ChainTxs[b][m_]][j_] = Ins[ChainTxs[b][n_]][i_] => m_ = n_ /\ j_ = i_
  BY Zenon, ChainsValid
<1> QED
  BY ONLY <1>1, m \in 1 .. TxCount(b), n \in 1 .. TxCount(b),
          j \in DOMAIN Ins[ChainTxs[b][m]], i \in DOMAIN Ins[ChainTxs[b][n]],
          Ins[ChainTxs[b][m]][j] = Ins[ChainTxs[b][n]][i]

\* Transactions with different numbers have different ids, so a coin is known by its
\* outpoint, and by its number and index.
LEMMA CoinFacts ==
    ASSUME NEW b \in Blocks, NEW c \in Created[b]
    PROVE  /\ c.tx_num \in Nums(b) /\ c.tx_num \in Nat /\ c.tx_num < TxCount(b)
           /\ c.tx = ChainTxs[b][c.tx_num + 1] /\ c.tx \in TxId
           /\ c.idx \in DOMAIN Outs[c.tx] /\ c.idx \in Nat
           /\ c.hashX = Outs[c.tx][c.idx] /\ c.hashX # NoX
           /\ c = [tx |-> c.tx, idx |-> c.idx, hashX |-> c.hashX, tx_num |-> c.tx_num]
           /\ \A d \in Created[b] : c.tx = d.tx /\ c.idx = d.idx => c = d
           /\ \A d \in Created[b] : c.tx_num = d.tx_num /\ c.idx = d.idx => c = d
<1>1. b \in Tips
  BY TipsFacts
<1>2. c.tx_num \in Nums(b) /\ c.idx \in SpendableAt(b, c.tx_num) /\ c = NewCoin(b, c.tx_num, c.idx)
  BY <1>1, CreatedIs
<1>3. /\ c.tx_num \in Nat /\ c.tx_num < TxCount(b) /\ ChainTxs[b][c.tx_num + 1] \in TxId
      /\ DOMAIN Outs[ChainTxs[b][c.tx_num + 1]] = 1 .. Len(Outs[ChainTxs[b][c.tx_num + 1]])
  BY <1>1, <1>2, TxAt
<1>4. c.tx = ChainTxs[b][c.tx_num + 1] /\ c.hashX = Outs[c.tx][c.idx]
      /\ c = [tx |-> c.tx, idx |-> c.idx, hashX |-> c.hashX, tx_num |-> c.tx_num]
  BY <1>2 DEF NewCoin
<1>5. c.idx \in DOMAIN Outs[c.tx] /\ c.hashX # NoX /\ c.idx \in Nat
  BY <1>2, <1>3, <1>4 DEF SpendableAt
<1>6. ASSUME NEW d \in Created[b], c.tx_num = d.tx_num, c.idx = d.idx
      PROVE  c = d
  <2>1. d = NewCoin(b, d.tx_num, d.idx)
    BY <1>1, CreatedIs
  <2> QED
    BY <1>2, <1>6, <2>1
<1>7. ASSUME NEW d \in Created[b], c.tx = d.tx, c.idx = d.idx
      PROVE  c = d
  <2>1. d.tx_num \in Nums(b) /\ d = NewCoin(b, d.tx_num, d.idx)
    BY <1>1, CreatedIs
  <2>2. d.tx = ChainTxs[b][d.tx_num + 1]
    BY <2>1 DEF NewCoin
  <2>3. c.tx_num + 1 \in 1 .. TxCount(b) /\ d.tx_num + 1 \in 1 .. TxCount(b)
        /\ c.tx_num \in Int /\ d.tx_num \in Int
    <3>1. c.tx_num \in 0 .. TxCount(b) - 1 /\ d.tx_num \in 0 .. TxCount(b) - 1
      BY <1>2, <2>1 DEF Nums
    <3>2. TxCount(b) \in Nat
      BY HeightFacts, TipsFacts
    <3> QED
      BY ONLY <3>1, <3>2
  <2>4. c.tx_num = d.tx_num
    <3>1. ChainTxs[b][c.tx_num + 1] = ChainTxs[b][d.tx_num + 1]
      BY <1>4, <1>7, <2>2
    <3>2. c.tx_num + 1 = d.tx_num + 1
      BY ONLY <2>3, <3>1, IdsDiffer, b \in Blocks
    <3> QED
      BY <2>3, <3>2
  <2> QED
    BY <1>6, <1>7, <2>4
<1> QED
  BY <1>2, <1>3, <1>4, <1>5, <1>6, <1>7

\* The coin an outpoint refers to.
CoinAt(b, o) == CHOOSE c \in Created[b] : c.tx = o.tx /\ c.idx = o.idx

Input(b, n, i) == Ins[ChainTxs[b][n + 1]][i]
Inputs(b, n) == DOMAIN Ins[ChainTxs[b][n + 1]]

LEMMA InputsValid ==
    ASSUME NEW b \in Blocks, NEW n \in Nums(b), NEW i \in Inputs(b, n)
    PROVE  LET o == Input(b, n, i) IN
           /\ \E m \in 1 .. n : ChainTxs[b][m] = o.tx
           /\ o.idx \in DOMAIN Outs[o.tx] /\ Outs[o.tx][o.idx] # NoX
<1>1. n + 1 \in 1 .. TxCount(b) /\ (n + 1) - 1 = n
  BY HeightFacts, TipsFacts DEF Nums
<1>2. \A k \in 1 .. TxCount(b) : \A j \in DOMAIN Ins[ChainTxs[b][k]] :
        LET o == Ins[ChainTxs[b][k]][j] IN
        /\ \E m \in 1 .. k - 1 : ChainTxs[b][m] = o.tx
        /\ o.idx \in DOMAIN Outs[o.tx] /\ Outs[o.tx][o.idx] # NoX
  BY Zenon, ChainsValid
<1>3. \A j \in DOMAIN Ins[ChainTxs[b][n + 1]] :
        LET o == Ins[ChainTxs[b][n + 1]][j] IN
        /\ \E m \in 1 .. (n + 1) - 1 : ChainTxs[b][m] = o.tx
        /\ o.idx \in DOMAIN Outs[o.tx] /\ Outs[o.tx][o.idx] # NoX
  BY ONLY <1>1, <1>2, Zenon
<1>4. i \in DOMAIN Ins[ChainTxs[b][n + 1]]
  BY DEF Inputs
<1> QED
  BY ONLY <1>1, <1>3, <1>4, Zenon DEF Input

\* An input spends a coin created before, which nothing else spends.
LEMMA InputFacts ==
    ASSUME NEW b \in Blocks, NEW n \in Nums(b), NEW i \in Inputs(b, n)
    PROVE  LET c == CoinAt(b, Input(b, n, i)) IN
           /\ c \in Created[b] /\ c.tx = Input(b, n, i).tx /\ c.idx = Input(b, n, i).idx
           /\ c.tx_num < n /\ Spenders(b, c) = {n}
           /\ \A j \in Inputs(b, n) : j # i => CoinAt(b, Input(b, n, j)) # c
<1> DEFINE t == ChainTxs[b][n + 1]
           o == Input(b, n, i)
<1>1. b \in Tips /\ n \in Nat /\ n < TxCount(b) /\ n + 1 \in 1 .. TxCount(b) /\ TxCount(b) \in Nat
  BY TipsFacts, TxAt, HeightFacts
<1>2. o = Ins[t][i] /\ i \in DOMAIN Ins[t] /\ o \in [tx : TxId, idx : Nat]
  <2>1. Ins[t] \in Seq([tx : TxId, idx : Nat])
    BY <1>1, TxAt
  <2> QED
    BY <2>1, ElementOfSeq, LenProperties DEF Input, Inputs
<1>3. PICK m \in 1 .. n : ChainTxs[b][m] = o.tx /\ o.idx \in DOMAIN Outs[o.tx] /\ Outs[o.tx][o.idx] # NoX
  BY Zenon, InputsValid DEF o
<1>4. m - 1 \in Nums(b) /\ (m - 1) + 1 = m /\ m - 1 < n
  BY <1>1 DEF Nums
<1>5. o.idx \in SpendableAt(b, m - 1)
  BY <1>3, <1>4 DEF SpendableAt
<1>6. NewCoin(b, m - 1, o.idx) \in Created[b]
  BY <1>1, <1>4, <1>5, CreatedIs
<1>7. NewCoin(b, m - 1, o.idx).tx = o.tx /\ NewCoin(b, m - 1, o.idx).idx = o.idx /\ NewCoin(b, m - 1, o.idx).tx_num = m - 1
  BY <1>3, <1>4 DEF NewCoin
<1> DEFINE c == CoinAt(b, o)
<1>8. c \in Created[b] /\ c.tx = o.tx /\ c.idx = o.idx
  BY <1>6, <1>7 DEF CoinAt
<1>9. c = NewCoin(b, m - 1, o.idx)
  BY <1>6, <1>7, <1>8, CoinFacts
<1>10. c.tx_num < n
  BY <1>4, <1>7, <1>9
<1>11. [tx |-> c.tx, idx |-> c.idx] = o
  BY <1>2, <1>8
<1> HIDE DEF c, o
<1>12. ASSUME NEW k \in Nums(b), NEW j \in Inputs(b, k), Input(b, k, j) = o
       PROVE  k = n /\ j = i
  <2>1. k \in Nat /\ k + 1 \in 1 .. TxCount(b)
    BY <1>1, TxAt, HeightFacts
  <2>2. j \in DOMAIN Ins[ChainTxs[b][k + 1]] /\ Ins[ChainTxs[b][k + 1]][j] = Ins[ChainTxs[b][n + 1]][i]
    BY <1>2, <1>12 DEF Input, Inputs
  <2>3. k + 1 = n + 1 /\ j = i
    BY <1>1, <1>2, <2>1, <2>2, InputsDiffer
  <2> QED
    BY <1>1, <2>1, <2>3
<1>13. Spenders(b, c) = {n}
  <2>1. ASSUME NEW k \in Nums(b)
        PROVE  o \in Range(Ins[ChainTxs[b][k + 1]]) <=> k = n
    <3>1. Range(Ins[ChainTxs[b][k + 1]]) = { Input(b, k, j) : j \in Inputs(b, k) }
      BY DEF Range, Input, Inputs
    <3>2. o = Input(b, n, i)
      BY DEF o
    <3> QED
      BY <1>12, <3>1, <3>2
  <2> QED
    BY <1>11, <2>1 DEF Spenders, Nums
<1>14. ASSUME NEW j \in Inputs(b, n), j # i
       PROVE  CoinAt(b, Input(b, n, j)) # c
  <2>1. Input(b, n, j) # o /\ Input(b, n, j) \in [tx : TxId, idx : Nat]
    <3>1. Ins[t] \in Seq([tx : TxId, idx : Nat])
      BY <1>1, TxAt
    <3>2. Input(b, n, j) \in [tx : TxId, idx : Nat]
      BY <3>1, ElementOfSeq, LenProperties DEF Input, Inputs
    <3> QED
      BY <1>12, <1>14, <3>2
  <2>2. PICK d \in Created[b] : d.tx = Input(b, n, j).tx /\ d.idx = Input(b, n, j).idx
    <3>1. PICK k \in 1 .. n : /\ ChainTxs[b][k] = Input(b, n, j).tx
                               /\ Input(b, n, j).idx \in DOMAIN Outs[Input(b, n, j).tx]
                               /\ Outs[Input(b, n, j).tx][Input(b, n, j).idx] # NoX
      BY Zenon, InputsValid
    <3>2. k - 1 \in Nums(b) /\ (k - 1) + 1 = k
      BY <1>1 DEF Nums
    <3>3. Input(b, n, j).idx \in SpendableAt(b, k - 1)
      BY <3>1, <3>2 DEF SpendableAt
    <3>4. NewCoin(b, k - 1, Input(b, n, j).idx) \in Created[b]
      BY <1>1, <3>2, <3>3, CreatedIs
    <3> QED
      BY <3>1, <3>2, <3>4 DEF NewCoin
  <2>3. CoinAt(b, Input(b, n, j)).tx = Input(b, n, j).tx /\ CoinAt(b, Input(b, n, j)).idx = Input(b, n, j).idx
    BY <2>2 DEF CoinAt
  <2>4. o \in [tx : TxId, idx : Nat]
    BY <1>2
  <2> QED
    BY <1>8, <2>1, <2>3, <2>4
<1> QED
  BY <1>8, <1>10, <1>13, <1>14 DEF c, o

-----------------------------------------------------------------------------
(* The chain of b up to its first n transactions.                           *)

OutputsAt(b, n) == { c \in Created[b] : c.tx_num = n }
SpentAt(b, n) == { CoinAt(b, Input(b, n, i)) : i \in Inputs(b, n) }
UnspentAt(b, n) == { c \in Created[b] : c.tx_num < n /\ \A m \in Spenders(b, c) : m >= n }

Touch1(c, n) == [hashX |-> c.hashX, tx_num |-> n]
TouchesAt(b, n) == { p \in Touches[b] : p.tx_num < n }

LEMMA SpendersFacts ==
    ASSUME NEW b \in Blocks, NEW c \in Created[b], NEW n \in Spenders(b, c)
    PROVE  n \in Nums(b) /\ n \in Nat /\ n < TxCount(b) /\ c \in SpentAt(b, n) /\ Spenders(b, c) = {n} /\ c.tx_num < n
<1>1. n \in Nums(b) /\ [tx |-> c.tx, idx |-> c.idx] \in Range(Ins[ChainTxs[b][n + 1]])
  BY DEF Spenders, Nums
<1>2. n \in Nat /\ n < TxCount(b)
  BY <1>1, TipsFacts, TxAt
<1>3. PICK i \in Inputs(b, n) : Input(b, n, i) = [tx |-> c.tx, idx |-> c.idx]
  BY <1>1 DEF Range, Input, Inputs
<1>4. LET d == CoinAt(b, Input(b, n, i)) IN
      d \in Created[b] /\ d.tx = c.tx /\ d.idx = c.idx /\ d.tx_num < n /\ Spenders(b, d) = {n}
  BY <1>1, <1>3, InputFacts
<1>5. CoinAt(b, Input(b, n, i)) = c
  BY <1>4, CoinFacts
<1> QED
  BY <1>1, <1>2, <1>3, <1>4, <1>5 DEF SpentAt

LEMMA SpentFacts ==
    ASSUME NEW b \in Blocks, NEW n \in Nums(b), NEW c \in SpentAt(b, n)
    PROVE  c \in Created[b] /\ c.tx_num < n /\ Spenders(b, c) = {n} /\ c \in UnspentAt(b, n)
<1>1. c \in Created[b] /\ c.tx_num < n /\ Spenders(b, c) = {n}
  BY InputFacts DEF SpentAt
<1>2. n \in Nat
  BY TipsFacts, TxAt
<1> QED
  BY <1>1, <1>2 DEF UnspentAt

\* A transaction takes the coins it spends and adds its outputs.
LEMMA UnspentStep ==
    ASSUME NEW b \in Blocks, NEW n \in Nums(b)
    PROVE  /\ UnspentAt(b, n + 1) = (UnspentAt(b, n) \ SpentAt(b, n)) \cup OutputsAt(b, n)
           /\ UnspentAt(b, n) \cap OutputsAt(b, n) = {}
           /\ SpentAt(b, n) \subseteq UnspentAt(b, n)
<1>1. n \in Nat /\ n < TxCount(b)
  BY TipsFacts, TxAt
<1>2. ASSUME NEW c \in Created[b]
      PROVE  c \in UnspentAt(b, n + 1) <=> c \in (UnspentAt(b, n) \ SpentAt(b, n)) \cup OutputsAt(b, n)
  <2>1. c.tx_num \in Nat
    BY CoinFacts
  <2>2. \A m \in Spenders(b, c) : m \in Nat /\ c.tx_num < m /\ c \in SpentAt(b, m)
    BY SpendersFacts
  <2>3. c \in SpentAt(b, n) => Spenders(b, c) = {n}
    BY SpentFacts
  <2> QED
    BY <1>1, <2>1, <2>2, <2>3 DEF UnspentAt, OutputsAt
<1>3. UnspentAt(b, n + 1) \subseteq Created[b] /\ UnspentAt(b, n) \subseteq Created[b] /\ OutputsAt(b, n) \subseteq Created[b]
  BY DEF UnspentAt, OutputsAt
<1>4. UnspentAt(b, n) \cap OutputsAt(b, n) = {}
  BY <1>1 DEF UnspentAt, OutputsAt
<1> QED
  BY <1>2, <1>3, <1>4, SpentFacts

LEMMA TouchesIs ==
    ASSUME NEW b \in Blocks
    PROVE  Touches[b] = UNION { { Touch1(c, n) : c \in OutputsAt(b, n) \cup SpentAt(b, n) } : n \in Nums(b) }
<1> DEFINE T == UNION { { Touch1(c, n) : c \in OutputsAt(b, n) \cup SpentAt(b, n) } : n \in Nums(b) }
<1>1. Touches[b] = { Touch1(c, c.tx_num) : c \in Created[b] }
                   \cup UNION { { Touch1(c, n) : n \in Spenders(b, c) } : c \in Created[b] }
  BY TipsFacts DEF Touches, Touch1
<1>2. ASSUME NEW c \in Created[b]
      PROVE  Touch1(c, c.tx_num) \in T
  <2>1. c.tx_num \in Nums(b) /\ c \in OutputsAt(b, c.tx_num)
    BY CoinFacts DEF OutputsAt
  <2> QED
    BY <2>1
<1>3. ASSUME NEW c \in Created[b], NEW n \in Spenders(b, c)
      PROVE  Touch1(c, n) \in T
  <2>1. n \in Nums(b) /\ c \in SpentAt(b, n)
    BY SpendersFacts
  <2> QED
    BY <2>1
<1>4. ASSUME NEW n \in Nums(b), NEW c \in OutputsAt(b, n)
      PROVE  Touch1(c, n) \in Touches[b]
  BY <1>1 DEF OutputsAt
<1>5. ASSUME NEW n \in Nums(b), NEW c \in SpentAt(b, n)
      PROVE  Touch1(c, n) \in Touches[b]
  <2>1. c \in Created[b] /\ n \in Spenders(b, c)
    BY SpentFacts
  <2> QED
    BY <1>1, <2>1
<1>6. Touches[b] \subseteq T
  BY <1>1, <1>2, <1>3
<1>7. T \subseteq Touches[b]
  BY <1>4, <1>5
<1> QED
  BY <1>6, <1>7

LEMMA TouchesStep ==
    ASSUME NEW b \in Blocks, NEW n \in Nums(b)
    PROVE  TouchesAt(b, n + 1) = TouchesAt(b, n) \cup { Touch1(c, n) : c \in OutputsAt(b, n) \cup SpentAt(b, n) }
<1>1. n \in Nat /\ \A m \in Nums(b) : m \in Nat
  BY TipsFacts, TxAt
<1> DEFINE New(m) == { Touch1(c, m) : c \in OutputsAt(b, m) \cup SpentAt(b, m) }
<1>2. \A p : p \in Touches[b] <=> \E m \in Nums(b) : p \in New(m)
  BY TouchesIs
<1>3. \A m : \A p \in New(m) : p.tx_num = m
  BY DEF Touch1
<1> HIDE DEF New
<1>4. TouchesAt(b, n + 1) = TouchesAt(b, n) \cup New(n)
  BY <1>1, <1>2, <1>3 DEF TouchesAt
<1> QED
  BY <1>4 DEF New

\* Nothing is unspent or touched at the start, and all of it at the end.
LEMMA StartAndEnd ==
    ASSUME NEW b \in Blocks
    PROVE  /\ UnspentAt(b, 0) = {} /\ TouchesAt(b, 0) = {}
           /\ UnspentAt(b, TxCount(b)) = Unspent[b] /\ TouchesAt(b, TxCount(b)) = Touches[b]
<1>1. b \in Tips /\ TxCount(b) \in Nat
  BY TipsFacts, HeightFacts
<1>2. \A c \in Created[b] : c.tx_num \in Nat /\ c.tx_num < TxCount(b)
  BY CoinFacts
<1>3. \A c \in Created[b] : \A m \in Spenders(b, c) : m \in Nat /\ m < TxCount(b)
  BY SpendersFacts
<1>4. \A p \in Touches[b] : p.tx_num \in Nat /\ p.tx_num < TxCount(b)
  <2>1. \A m \in Nums(b) : m \in Nat /\ m < TxCount(b)
    BY <1>1, TxAt
  <2> QED
    BY <2>1, TouchesIs DEF Touch1
<1>5. UnspentAt(b, 0) = {} /\ UnspentAt(b, TxCount(b)) = { c \in Created[b] : Spenders(b, c) = {} }
  BY <1>1, <1>2, <1>3 DEF UnspentAt
<1>6. TouchesAt(b, 0) = {} /\ TouchesAt(b, TxCount(b)) = Touches[b]
  BY <1>1, <1>4 DEF TouchesAt
<1>7. Unspent[b] = { c \in Created[b] : Spenders(b, c) = {} }
  BY <1>1 DEF Unspent
<1> QED
  BY <1>5, <1>6, <1>7

\* Before the first block there is nothing.
LEMMA NoneFacts ==
    Created[NoBlock] = {} /\ Unspent[NoBlock] = {} /\ Touches[NoBlock] = {}
<1>1. NoBlock \in Tips /\ TxCount(NoBlock) = 0
  BY TipsFacts, HeightFacts
<1>2. Created[NoBlock] = {}
  <2>1. Nums(NoBlock) = {}
    BY <1>1 DEF Nums
  <2> QED
    BY <1>1, <2>1, CreatedIs
<1> QED
  BY <1>1, <1>2 DEF Unspent, Touches

-----------------------------------------------------------------------------
(* The coins of an ancestor.                                                *)

LEMMA CoinsOfAncestor ==
    ASSUME NEW b \in Blocks, NEW a \in Tips, Extends(b, a)
    PROVE  /\ Nums(a) \subseteq Nums(b)
           /\ \A n \in Nums(a) : /\ ChainTxs[b][n + 1] = ChainTxs[a][n + 1]
                                 /\ OutputsAt(b, n) = OutputsAt(a, n)
           /\ Created[a] = { c \in Created[b] : c.tx_num < TxCount(a) }
           /\ \A c : Spenders(a, c) = { m \in Spenders(b, c) : m < TxCount(a) }
           /\ Unspent[a] = UnspentAt(b, TxCount(a)) /\ Touches[a] = TouchesAt(b, TxCount(a))
<1>1. a \in Tips /\ b \in Tips /\ TxCount(a) \in Nat /\ TxCount(b) \in Nat /\ TxCount(a) <= TxCount(b)
  BY TipsFacts, HeightFacts DEF Extends
<1>2. Nums(a) \subseteq Nums(b) /\ \A n \in Nums(b) : n < TxCount(a) => n \in Nums(a)
  BY <1>1 DEF Nums
<1>3. ASSUME NEW n \in Nums(a)
      PROVE  ChainTxs[b][n + 1] = ChainTxs[a][n + 1]
  <2>1. n + 1 \in 1 .. TxCount(a)
    BY <1>1 DEF Nums
  <2> QED
    BY <2>1 DEF Extends
<1>4. \A n \in Nums(a) : SpendableAt(a, n) = SpendableAt(b, n) /\ \A i : NewCoin(a, n, i) = NewCoin(b, n, i)
  BY <1>3 DEF SpendableAt, NewCoin
<1>5. Created[a] = { c \in Created[b] : c.tx_num < TxCount(a) }
  <2>1. ASSUME NEW c \in Created[a]
        PROVE  c \in Created[b] /\ c.tx_num < TxCount(a)
    <3>1. c.tx_num \in Nums(a) /\ c.idx \in SpendableAt(a, c.tx_num) /\ c = NewCoin(a, c.tx_num, c.idx)
      BY <1>1, CreatedIs
    <3>2. c.tx_num \in Nums(b) /\ c.idx \in SpendableAt(b, c.tx_num) /\ c = NewCoin(b, c.tx_num, c.idx)
      BY <1>2, <1>4, <3>1
    <3>3. c.tx_num < TxCount(a)
      BY <1>1, <3>1, TxAt
    <3> QED
      BY <1>1, <3>2, <3>3, CreatedIs
  <2>2. ASSUME NEW c \in Created[b], c.tx_num < TxCount(a)
        PROVE  c \in Created[a]
    <3>1. c.tx_num \in Nums(b) /\ c.idx \in SpendableAt(b, c.tx_num) /\ c = NewCoin(b, c.tx_num, c.idx)
      BY <1>1, CreatedIs
    <3>2. c.tx_num \in Nums(a) /\ c.idx \in SpendableAt(a, c.tx_num) /\ c = NewCoin(a, c.tx_num, c.idx)
      BY <1>2, <1>4, <2>2, <3>1
    <3> QED
      BY <1>1, <3>2, CreatedIs
  <2> QED
    BY <2>1, <2>2
<1>6. ASSUME NEW c
      PROVE  Spenders(a, c) = { m \in Spenders(b, c) : m < TxCount(a) }
  <2> DEFINE Spends(x, n) == [tx |-> c.tx, idx |-> c.idx] \in Range(Ins[ChainTxs[x][n + 1]])
  <2>1. Spenders(a, c) = { n \in Nums(a) : Spends(a, n) } /\ Spenders(b, c) = { n \in Nums(b) : Spends(b, n) }
    BY DEF Spenders, Nums
  <2>2. \A n \in Nums(a) : n < TxCount(a)
    BY <1>1, TxAt
  <2>3. \A n \in Nums(a) : Spends(a, n) <=> Spends(b, n)
    BY <1>3
  <2> HIDE DEF Spends
  <2> QED
    BY <1>2, <2>1, <2>2, <2>3
<1>7. Unspent[a] = UnspentAt(b, TxCount(a))
  <2>1. Unspent[a] = { c \in Created[a] : Spenders(a, c) = {} }
    BY DEF Unspent
  <2>2. \A c \in Created[b] : \A m \in Spenders(b, c) : m \in Nat
    BY SpendersFacts
  <2> QED
    BY <1>1, <1>5, <1>6, <2>1, <2>2 DEF UnspentAt
<1>8. \A n \in Nums(a) : OutputsAt(b, n) = OutputsAt(a, n)
  <2>1. \A n \in Nums(a) : n < TxCount(a)
    BY <1>1, TxAt
  <2> QED
    BY <1>5, <2>1 DEF OutputsAt
<1>9. Touches[a] = TouchesAt(b, TxCount(a))
  <2>1. CASE a = NoBlock
    <3>1. TouchesAt(b, 0) = {} /\ TxCount(a) = 0
      BY <2>1, StartAndEnd, HeightFacts
    <3> QED
      BY <2>1, <3>1, NoneFacts
  <2>2. CASE a # NoBlock
    <3>1. a \in Blocks
      BY <2>2, TipsFacts
    <3> DEFINE Ta == { Touch1(c, c.tx_num) : c \in Created[a] }
                     \cup UNION { { Touch1(c, n) : n \in Spenders(a, c) } : c \in Created[a] }
               Tb == { Touch1(c, c.tx_num) : c \in Created[b] }
                     \cup UNION { { Touch1(c, n) : n \in Spenders(b, c) } : c \in Created[b] }
    <3>2. Touches[a] = Ta /\ Touches[b] = Tb
      BY <1>1 DEF Touches, Touch1
    <3>3. \A c, n : Touch1(c, n).tx_num = n
      BY DEF Touch1
    <3>4. \A c \in Created[b] : \A m \in Spenders(b, c) : m \in Nat /\ c.tx_num < m /\ c.tx_num \in Nat
      BY SpendersFacts, CoinFacts
    <3>5. ASSUME NEW p \in Ta
          PROVE  p \in Tb /\ p.tx_num < TxCount(a)
      BY <1>5, <1>6, <3>3
    <3>6. ASSUME NEW p \in Tb, p.tx_num < TxCount(a)
          PROVE  p \in Ta
      <4>1. CASE \E c \in Created[b] : p = Touch1(c, c.tx_num)
        BY <1>5, <3>3, <3>6, <4>1
      <4>2. CASE \E c \in Created[b] : \E n \in Spenders(b, c) : p = Touch1(c, n)
        <5>1. PICK c \in Created[b] : \E n \in Spenders(b, c) : p = Touch1(c, n)
          BY <4>2
        <5>2. PICK n \in Spenders(b, c) : p = Touch1(c, n)
          BY <5>1
        <5>3. n < TxCount(a) /\ n \in Nat /\ c.tx_num < n /\ c.tx_num \in Nat
          BY <3>3, <3>4, <3>6, <5>2
        <5>4. c \in Created[a] /\ n \in Spenders(a, c)
          BY <1>1, <1>5, <1>6, <5>2, <5>3
        <5> QED
          BY <5>2, <5>4
      <4> QED
        BY <3>6, <4>1, <4>2
    <3> HIDE DEF Ta, Tb
    <3> QED
      BY <3>2, <3>5, <3>6 DEF TouchesAt
  <2> QED
    BY <2>1, <2>2
<1> QED
  BY <1>2, <1>3, <1>5, <1>6, <1>7, <1>8, <1>9

\* The coin that an input spends is the same coin on every chain with that input.
LEMMA InputsOfAncestor ==
    ASSUME NEW b \in Blocks, NEW a \in Blocks, Extends(b, a), NEW n \in Nums(a)
    PROVE  /\ n \in Nums(b) /\ Inputs(a, n) = Inputs(b, n)
           /\ \A i \in Inputs(a, n) : /\ Input(a, n, i) = Input(b, n, i)
                                       /\ CoinAt(a, Input(a, n, i)) = CoinAt(b, Input(a, n, i))
<1>1. n \in Nums(b) /\ ChainTxs[b][n + 1] = ChainTxs[a][n + 1]
      /\ Created[a] \subseteq Created[b]
  BY CoinsOfAncestor, TipsFacts
<1>2. Inputs(a, n) = Inputs(b, n) /\ \A i : Input(a, n, i) = Input(b, n, i)
  BY <1>1 DEF Inputs, Input
<1>3. ASSUME NEW i \in Inputs(a, n)
      PROVE  CoinAt(a, Input(a, n, i)) = CoinAt(b, Input(a, n, i))
  <2> DEFINE o == Input(a, n, i)
  <2>1. CoinAt(a, o) \in Created[a] /\ CoinAt(a, o).tx = o.tx /\ CoinAt(a, o).idx = o.idx
    BY <1>3, InputFacts
  <2>2. CoinAt(b, o) \in Created[b] /\ CoinAt(b, o).tx = o.tx /\ CoinAt(b, o).idx = o.idx
    BY <1>1, <1>2, <1>3, InputFacts
  <2> HIDE DEF o
  <2>3. CoinAt(a, o) = CoinAt(b, o)
    BY <1>1, <2>1, <2>2, CoinFacts
  <2> QED
    BY <2>3 DEF o
<1> QED
  BY <1>1, <1>2, <1>3

LEMMA CreatedFinite ==
    ASSUME NEW b \in Blocks
    PROVE  IsFiniteSet(Created[b])
<1>1. ASSUME NEW n \in Nums(b)
      PROVE  IsFiniteSet(OutputsAt(b, n))
  <2> DEFINE I == DOMAIN Outs[ChainTxs[b][n + 1]]
             f == [c \in OutputsAt(b, n) |-> c.idx]
  <2>1. IsFiniteSet(I)
    <3>1. b \in Tips
      BY TipsFacts
    <3>2. I = 1 .. Len(Outs[ChainTxs[b][n + 1]]) /\ Len(Outs[ChainTxs[b][n + 1]]) \in Nat
      BY <3>1, TxAt
    <3> QED
      BY ONLY <3>2, FS_Interval
  <2>2. \A c \in OutputsAt(b, n) : c \in Created[b] /\ c.tx_num = n /\ c.idx \in I
    BY CoinFacts DEF OutputsAt
  <2>3. f \in Injection(OutputsAt(b, n), I)
    BY <2>2, CoinFacts DEF Injection, IsInjective
  <2> QED
    BY <2>1, <2>3, FS_Injection
<1> DEFINE T == { OutputsAt(b, n) : n \in Nums(b) }
           g == [n \in Nums(b) |-> OutputsAt(b, n)]
<1>2. IsFiniteSet(T)
  <2>1. TxCount(b) \in Nat
    BY TipsFacts, HeightFacts
  <2>2. IsFiniteSet(Nums(b))
    BY <2>1, FS_Interval DEF Nums
  <2>3. g \in Surjection(Nums(b), T)
    BY DEF Surjection
  <2> QED
    BY <2>2, <2>3, FS_Surjection
<1>3. IsFiniteSet(UNION T)
  BY <1>1, <1>2, FS_UNION
<1>4. Created[b] = UNION T
  BY CoinFacts DEF OutputsAt
<1> QED
  BY <1>3, <1>4

-----------------------------------------------------------------------------
(* Recursion over sequences.                                                *)

LEMMA Counting ==
    ASSUME NEW D, 0 \in D, \A n \in Nat : n \in D => n + 1 \in D
    PROVE  \A n \in Nat : n \in D
<1> DEFINE T == { n \in Nat : n \notin D }
<1> SUFFICES ASSUME T # {} PROVE FALSE
  OBVIOUS
<1>1. T \subseteq Nat
  OBVIOUS
<1> HIDE DEF T
<1>2. PICK n \in T : \A m \in T : ~(<<m, n>> \in OpToRel(<, Nat))
  BY <1>1, WFMin, NatLessThanWellFounded
<1>3. \A m \in T : ~(m < n)
  BY <1>1, <1>2 DEF OpToRel
<1>4. n \in Nat /\ n \notin D /\ n # 0
  BY DEF T
<1>5. n - 1 \in Nat /\ n - 1 < n /\ (n - 1) + 1 = n
  BY <1>4
<1>6. n - 1 \notin D
  BY <1>4, <1>5
<1>7. n - 1 \in T
  BY <1>5, <1>6 DEF T
<1> QED
  BY <1>3, <1>5, <1>7

\* A step from R to R can be taken any number of times.
Steps(n, R, base, F) == n \in Nat /\ base \in R /\ F \in [1 .. n -> [R -> R]]
Stepped(n, R, base, F, g) ==
    g \in [0 .. n -> R] /\ g[0] = base /\ \A i \in 1 .. n : g[i] = F[i][g[i - 1]]

LEMMA Iterates ==
    ASSUME NEW n, NEW R, NEW base, NEW F, Steps(n, R, base, F)
    PROVE  \E g : Stepped(n, R, base, F, g)
<1>. n \in Nat /\ base \in R /\ F \in [1 .. n -> [R -> R]]
  BY DEF Steps
<1> DEFINE Good(g, k) == g \in [0 .. k -> R] /\ g[0] = base /\ \A i \in 1 .. k : g[i] = F[i][g[i - 1]]
           D == { k \in Nat : k <= n => \E g : Good(g, k) }
<1>1. 0 \in D
  <2>1. Good([i \in 0 .. 0 |-> base], 0)
    OBVIOUS
  <2> QED
    BY <2>1
<1>2. ASSUME NEW k \in Nat, k \in D
      PROVE  k + 1 \in D
  <2> SUFFICES ASSUME k + 1 <= n PROVE \E g : Good(g, k + 1)
    OBVIOUS
  <2>1. PICK g : Good(g, k)
    BY <1>2
  <2> DEFINE v == F[k + 1][g[k]]
             h == [i \in 0 .. k + 1 |-> IF i <= k THEN g[i] ELSE v]
  <2>2. v \in R
    BY <2>1
  <2>3. h \in [0 .. k + 1 -> R]
    BY <2>1, <2>2
  <2>4. h[0] = base
    BY <2>1
  <2>5. \A i \in 0 .. k : h[i] = g[i]
    OBVIOUS
  <2>6. h[k + 1] = F[k + 1][h[k]]
    <3>1. h[k + 1] = v /\ h[k] = g[k]
      OBVIOUS
    <3> QED
      BY <3>1
  <2> HIDE DEF h, v
  <2>7. ASSUME NEW i \in 1 .. k + 1
        PROVE  h[i] = F[i][h[i - 1]]
    <3>1. CASE i = k + 1
      BY <2>6, <3>1
    <3>2. CASE i # k + 1
      <4>1. i \in 1 .. k /\ i \in 0 .. k /\ i - 1 \in 0 .. k
        BY <3>2
      <4> QED
        BY <2>1, <2>5, <4>1
    <3> QED
      BY <3>1, <3>2
  <2>8. Good(h, k + 1)
    BY <2>3, <2>4, <2>7
  <2> QED
    BY <2>8
<1>3. n \in D
  <2> HIDE DEF D
  <2> QED
    BY <1>1, <1>2, Counting
<1> QED
  BY <1>3 DEF Stepped

LEMMA FlattenIs ==
    ASSUME NEW S, NEW ss \in Seq(Seq(S)), NEW g \in [0 .. Len(ss) -> Seq(S)], g[0] = <<>>,
           \A i \in 1 .. Len(ss) : g[i] = g[i - 1] \o ss[i]
    PROVE  FlattenSeq(ss) = g[Len(ss)]
<1>1. Len(ss) \in Nat
  BY LenProperties
<1>2. CASE Len(ss) = 0
  <2>1. FlattenSeq(ss) = ss /\ ss = <<>>
    BY <1>2, LenProperties, EmptySeq DEF FlattenSeq
  <2> QED
    BY <1>2, <2>1
<1>3. CASE Len(ss) # 0
  <2> DEFINE n == Len(ss)
             Rec(f) == f = [i \in 1 .. n |-> IF i = 1 THEN ss[i] ELSE f[i - 1] \o ss[i]]
             h == [i \in 1 .. n |-> g[i]]
             flatten == CHOOSE f : Rec(f)
  <2>1. FlattenSeq(ss) = flatten[n]
    BY <1>3 DEF FlattenSeq
  <2>2. g[1] = ss[1]
    <3>1. 1 \in 1 .. n /\ ss[1] \in Seq(S)
      BY <1>1, <1>3, ElementOfSeq
    <3>2. <<>> \o ss[1] = ss[1]
      BY <3>1, ConcatEmptySeq
    <3>3. g[1] = g[0] \o ss[1]
      <4>1. 1 - 1 = 0
        OBVIOUS
      <4> QED
        BY <3>1, <4>1
    <3> QED
      BY <3>2, <3>3
  <2>3. Rec(h)
    <3>1. \A i \in 1 .. n : g[i] = IF i = 1 THEN ss[i] ELSE h[i - 1] \o ss[i]
      <4> SUFFICES ASSUME NEW i \in 1 .. n, i # 1 PROVE g[i] = h[i - 1] \o ss[i]
        BY <2>2
      <4>1. i - 1 \in 1 .. n
        BY <1>1
      <4> QED
        BY <4>1
    <3> QED
      BY <3>1
  <2>4. Rec(flatten)
    BY <2>3
  <2> HIDE DEF flatten
  <2> DEFINE D == { k \in Nat : k \in 1 .. n => flatten[k] = g[k] }
  <2>5. 0 \in D
    OBVIOUS
  <2>6. ASSUME NEW k \in Nat, k \in D
        PROVE  k + 1 \in D
    <3>1. CASE k = 0
      <4>1. 1 \in 1 .. n => flatten[1] = ss[1]
        BY <2>4
      <4> QED
        BY <2>2, <3>1, <4>1
    <3>2. CASE k # 0
      <4> SUFFICES ASSUME k + 1 \in 1 .. n PROVE flatten[k + 1] = g[k + 1]
        OBVIOUS
      <4>1. k \in 1 .. n /\ (k + 1) - 1 = k /\ k + 1 # 1
        BY <1>1, <3>2
      <4>2. flatten[k + 1] = flatten[k] \o ss[k + 1]
        BY <2>4, <4>1
      <4> QED
        BY <2>6, <4>1, <4>2
    <3> QED
      BY <3>1, <3>2
  <2>7. n \in D
    <3> HIDE DEF D
    <3> QED
      BY <1>1, <2>5, <2>6, Counting
  <2> QED
    BY <1>1, <1>3, <2>1, <2>7
<1> QED
  BY <1>2, <1>3

LEMMA FlattenExists ==
    ASSUME NEW S, NEW ss \in Seq(Seq(S))
    PROVE  \E g \in [0 .. Len(ss) -> Seq(S)] : g[0] = <<>> /\ \A i \in 1 .. Len(ss) : g[i] = g[i - 1] \o ss[i]
<1> DEFINE n == Len(ss)
           F == [i \in 1 .. n |-> [r \in Seq(S) |-> r \o ss[i]]]
<1>1. n \in Nat /\ \A i \in 1 .. n : ss[i] \in Seq(S)
  BY LenProperties, ElementOfSeq
<1>2. \A i \in 1 .. n : \A r \in Seq(S) : F[i][r] = r \o ss[i]
  OBVIOUS
<1>3. F \in [1 .. n -> [Seq(S) -> Seq(S)]]
  BY <1>1, ConcatProperties
<1>4. <<>> \in Seq(S)
  BY EmptySeq
<1> HIDE DEF F, n
<1>5. PICK g : Stepped(n, Seq(S), <<>>, F, g)
  <2>1. Steps(n, Seq(S), <<>>, F)
    BY <1>1, <1>3, <1>4 DEF Steps
  <2> QED
    BY <2>1, Iterates
<1>6. \A i \in 1 .. n : g[i] = g[i - 1] \o ss[i]
  <2>1. \A i \in 1 .. n : i - 1 \in 0 .. n
    BY <1>1
  <2> QED
    BY <1>2, <1>5, <2>1 DEF Stepped
<1> QED
  BY <1>5, <1>6 DEF n, Stepped

LEMMA FlattenFacts ==
    ASSUME NEW S, NEW ss \in Seq(Seq(S))
    PROVE  /\ FlattenSeq(ss) \in Seq(S) /\ (ss = <<>> => FlattenSeq(ss) = <<>>)
           /\ \A x \in Seq(S) : FlattenSeq(Append(ss, x)) = FlattenSeq(ss) \o x
<1>1. Len(ss) \in Nat
  BY LenProperties
<1>2. PICK g \in [0 .. Len(ss) -> Seq(S)] : g[0] = <<>> /\ \A i \in 1 .. Len(ss) : g[i] = g[i - 1] \o ss[i]
  BY FlattenExists
<1>3. FlattenSeq(ss) = g[Len(ss)]
  BY <1>2, FlattenIs
<1>4. FlattenSeq(ss) \in Seq(S)
  BY <1>1, <1>2, <1>3
<1>5. ss = <<>> => FlattenSeq(ss) = <<>>
  BY <1>2, <1>3, EmptySeq
<1>6. ASSUME NEW x \in Seq(S)
      PROVE  FlattenSeq(Append(ss, x)) = FlattenSeq(ss) \o x
  <2> DEFINE t == Append(ss, x)
             n == Len(ss)
  <2>1. t \in Seq(Seq(S)) /\ Len(t) = n + 1 /\ t[n + 1] = x /\ \A i \in 1 .. n : t[i] = ss[i]
    BY AppendProperties
  <2> HIDE DEF t
  <2>2. PICK h \in [0 .. Len(t) -> Seq(S)] : h[0] = <<>> /\ \A i \in 1 .. Len(t) : h[i] = h[i - 1] \o t[i]
    BY <2>1, FlattenExists
  <2>3. FlattenSeq(t) = h[n + 1]
    BY <2>1, <2>2, FlattenIs
  <2>4. h[n + 1] = h[n] \o x
    <3>1. n + 1 \in 1 .. Len(t) /\ (n + 1) - 1 = n
      BY <1>1, <2>1
    <3> QED
      BY <2>1, <2>2, <3>1
  <2> DEFINE k == [i \in 0 .. n |-> h[i]]
  <2>5. k \in [0 .. n -> Seq(S)] /\ k[0] = <<>>
    BY <1>1, <2>1, <2>2
  <2>6. ASSUME NEW i \in 1 .. n
        PROVE  k[i] = k[i - 1] \o ss[i]
    <3>1. i \in 1 .. Len(t) /\ i \in 0 .. n /\ i - 1 \in 0 .. n
      BY <1>1, <2>1
    <3>2. h[i] = h[i - 1] \o t[i] /\ t[i] = ss[i]
      BY <2>1, <2>2, <3>1
    <3> QED
      BY <3>1, <3>2
  <2>7. k[n] = h[n]
    BY <1>1
  <2> HIDE DEF k
  <2>8. FlattenSeq(ss) = k[n]
    BY <2>5, <2>6, FlattenIs
  <2> QED
    BY <2>3, <2>4, <2>7, <2>8 DEF t
<1> QED
  BY <1>4, <1>5, <1>6

Map(M, s) == [i \in DOMAIN s |-> M[s[i]]]

LEMMA MapConcat ==
    ASSUME NEW S, NEW s \in Seq(S), NEW t \in Seq(S), NEW M
    PROVE  Map(M, s \o t) = Map(M, s) \o Map(M, t)
<1> DEFINE T == { M[x] : x \in S }
           ms == [i \in DOMAIN s |-> M[s[i]]]
           mt == [i \in DOMAIN t |-> M[t[i]]]
           mst == [i \in DOMAIN (s \o t) |-> M[(s \o t)[i]]]
<1>1. Len(s) \in Nat /\ Len(t) \in Nat /\ DOMAIN s = 1 .. Len(s) /\ DOMAIN t = 1 .. Len(t)
      /\ (\A i \in 1 .. Len(s) : s[i] \in S) /\ (\A i \in 1 .. Len(t) : t[i] \in S)
  BY LenProperties, ElementOfSeq
<1>2. s \o t \in Seq(S) /\ Len(s \o t) = Len(s) + Len(t) /\ DOMAIN (s \o t) = 1 .. Len(s) + Len(t)
      /\ \A i \in 1 .. Len(s) + Len(t) : (s \o t)[i] = IF i <= Len(s) THEN s[i] ELSE t[i - Len(s)]
  BY ConcatProperties, LenProperties
<1>3. \A i \in 1 .. Len(s) + Len(t) : (s \o t)[i] \in S
  BY <1>2, ElementOfSeq
<1>4. ms \in Seq(T) /\ Len(ms) = Len(s) /\ mt \in Seq(T) /\ Len(mt) = Len(t)
      /\ mst \in Seq(T) /\ Len(mst) = Len(s) + Len(t)
  BY <1>1, <1>2, <1>3
<1>5. ms \o mt \in Seq(T) /\ Len(ms \o mt) = Len(s) + Len(t)
      /\ \A i \in 1 .. Len(s) + Len(t) : (ms \o mt)[i] = IF i <= Len(s) THEN ms[i] ELSE mt[i - Len(s)]
  <2> HIDE DEF ms, mt, T, mst
  <2>1. ms \in Seq(T) /\ mt \in Seq(T) /\ Len(ms) = Len(s) /\ Len(mt) = Len(t)
    BY <1>4
  <2>2. ms \o mt \in Seq(T) /\ Len(ms \o mt) = Len(ms) + Len(mt)
        /\ \A i \in 1 .. Len(ms) + Len(mt) : (ms \o mt)[i] = IF i <= Len(ms) THEN ms[i] ELSE mt[i - Len(ms)]
    BY ONLY <2>1, ConcatProperties
  <2> QED
    BY ONLY <2>1, <2>2
<1>6. ASSUME NEW i \in 1 .. Len(s) + Len(t)
      PROVE  mst[i] = (ms \o mt)[i]
  <2>1. mst[i] = M[(s \o t)[i]]
    BY <1>2
  <2>2. CASE i <= Len(s)
    <3>1. i \in 1 .. Len(s)
      BY <1>1, <2>2
    <3>2. ms[i] = M[s[i]]
      BY <1>1, <3>1
    <3> QED
      BY <1>2, <1>5, <2>1, <2>2, <3>2
  <2>3. CASE ~(i <= Len(s))
    <3>1. i - Len(s) \in 1 .. Len(t)
      BY <1>1, <2>3
    <3>2. mt[i - Len(s)] = M[t[i - Len(s)]]
      BY <1>1, <3>1
    <3> QED
      BY <1>2, <1>5, <2>1, <2>3, <3>2
  <2> QED
    BY <2>2, <2>3
<1> HIDE DEF ms, mt, mst, T
<1>7. mst = ms \o mt
  BY <1>4, <1>5, <1>6, SeqEqual
<1> QED
  BY <1>7 DEF ms, mt, mst, Map

TwoSeqs(S, u, z) == u \in Seq(S) /\ z \in Seq(S)

LEMMA FirstOnes ==
    ASSUME NEW S, NEW u, NEW z, TwoSeqs(S, u, z)
    PROVE  /\ u \o SubSeq(z, 1, 0) = u /\ u \o SubSeq(z, 1, Len(z)) = u \o z
           /\ \A i \in 1 .. Len(z) :
                u \o SubSeq(z, 1, i - 1) \in Seq(S)
                /\ u \o SubSeq(z, 1, i) = Append(u \o SubSeq(z, 1, i - 1), z[i])
<1>0. u \in Seq(S) /\ z \in Seq(S)
  BY DEF TwoSeqs
<1> USE <1>0
<1>1. SubSeq(z, 1, 0) = <<>>
  BY SubSeqEmpty
<1>2. SubSeq(z, 1, Len(z)) = z
  BY SubSeqFull
<1>3. u \o <<>> = u
  BY ConcatEmptySeq
<1>4. ASSUME NEW i \in 1 .. Len(z)
      PROVE  u \o SubSeq(z, 1, i - 1) \in Seq(S)
             /\ u \o SubSeq(z, 1, i) = Append(u \o SubSeq(z, 1, i - 1), z[i])
  <2>1. Len(z) \in Nat /\ i \in Int /\ i - 1 \in Int /\ 1 \in 1 .. Len(z) /\ i \in 1 .. Len(z)
        /\ \A j \in 1 .. Len(z) : z[j] \in S
    BY LenProperties, ElementOfSeq
  <2> DEFINE p == SubSeq(z, 1, i - 1)
  <2>2. p \in Seq(S)
    <3>1. \A j \in 1 .. i - 1 : z[j] \in S
      BY <2>1
    <3> QED
      BY <2>1, <3>1, SubSeqProperties
  <2>3. SubSeq(z, 1, i) = p \o <<z[i]>>
    BY <2>1, SubSeqRecursiveSecond
  <2> HIDE DEF p
  <2>4. z[i] \in S /\ <<z[i]>> \in Seq(S)
    BY <2>1
  <2>5. u \o (p \o <<z[i]>>) = (u \o p) \o <<z[i]>>
    BY <2>2, <2>4, ConcatAssociative
  <2>6. u \o p \in Seq(S)
    BY <2>2, ConcatProperties
  <2>7. Append(u \o p, z[i]) = (u \o p) \o <<z[i]>>
    BY <2>4, <2>6, AppendIsConcat
  <2> QED
    BY <2>3, <2>5, <2>6, <2>7 DEF p
<1> QED
  BY <1>1, <1>2, <1>3, <1>4

-----------------------------------------------------------------------------
(* What the undo information of a block must contain.                       *)

HashXs == UNION { Range(Outs[t]) : t \in TxId }
Prevouts == [hashX : HashXs, tx_num : Nat]

TxUndo(b, n) ==
    [i \in Inputs(b, n) |-> Touch1(CoinAt(b, Input(b, n, i)), CoinAt(b, Input(b, n, i)).tx_num)]

InsUpTo(b, k) == [i \in 1 .. k |-> Ins[Txs[b][i]]]

\* The outputs that the first k transactions of block b spend.
UndoUpTo(b, k) ==
    LET ins == FlattenSeq(InsUpTo(b, k))
    IN [i \in DOMAIN ins |-> Touch1(CoinAt(b, ins[i]), CoinAt(b, ins[i]).tx_num)]

LEMMA CoinTypes ==
    ASSUME NEW b \in Blocks, NEW c \in Created[b]
    PROVE  /\ c.hashX \in HashXs /\ Touch1(c, c.tx_num) \in Prevouts
           /\ \A n \in Nat : Touch1(c, n) \in Prevouts
<1>1. c.tx \in TxId /\ c.idx \in DOMAIN Outs[c.tx] /\ c.hashX = Outs[c.tx][c.idx] /\ c.tx_num \in Nat
  BY CoinFacts
<1>2. c.hashX \in Range(Outs[c.tx])
  BY <1>1 DEF Range
<1>3. c.hashX \in HashXs
  BY <1>1, <1>2 DEF HashXs
<1> QED
  BY <1>1, <1>3 DEF Prevouts, Touch1

LEMMA TxUndoFacts ==
    ASSUME NEW b \in Blocks, NEW n \in Nums(b)
    PROVE  /\ TxUndo(b, n) \in Seq(Prevouts) /\ Len(TxUndo(b, n)) = Len(Ins[ChainTxs[b][n + 1]])
           /\ Len(Ins[ChainTxs[b][n + 1]]) \in Nat /\ Inputs(b, n) = 1 .. Len(Ins[ChainTxs[b][n + 1]])
           /\ \A i \in Inputs(b, n) :
                TxUndo(b, n)[i] = Touch1(CoinAt(b, Input(b, n, i)), CoinAt(b, Input(b, n, i)).tx_num)
<1>1. Inputs(b, n) = 1 .. Len(Ins[ChainTxs[b][n + 1]]) /\ Len(Ins[ChainTxs[b][n + 1]]) \in Nat
  BY TipsFacts, TxAt DEF Inputs
<1>2. \A i \in Inputs(b, n) : CoinAt(b, Input(b, n, i)) \in Created[b]
  BY InputFacts
<1>3. \A i \in Inputs(b, n) : Touch1(CoinAt(b, Input(b, n, i)), CoinAt(b, Input(b, n, i)).tx_num) \in Prevouts
  BY <1>2, CoinTypes
<1> QED
  BY <1>1, <1>3 DEF TxUndo

LEMMA UndoStep ==
    ASSUME NEW b \in Blocks, NEW k \in 0 .. Len(Txs[b]) - 1
    PROVE  /\ TxCount(Prev[b]) + k \in Nums(b) /\ ChainTxs[b][TxCount(Prev[b]) + k + 1] = Txs[b][k + 1]
           /\ UndoUpTo(b, k + 1) = UndoUpTo(b, k) \o TxUndo(b, TxCount(Prev[b]) + k)
<1> DEFINE O == [tx : TxId, idx : Nat]
           M == [o \in O |-> Touch1(CoinAt(b, o), CoinAt(b, o).tx_num)]
           n == TxCount(Prev[b]) + k
           t == Txs[b][k + 1]
<1>1. Len(Txs[b]) \in Nat /\ k \in Nat /\ k + 1 \in 1 .. Len(Txs[b]) /\ Txs[b] \in Seq(TxId)
      /\ TxCount(Prev[b]) \in Nat /\ TxCount(b) = TxCount(Prev[b]) + Len(Txs[b])
  BY ParentFacts, HeightFacts
<1>2. n \in Nums(b) /\ ChainTxs[b][n + 1] = t
  <2>1. ChainTxs[b][TxCount(Prev[b]) + (k + 1)] = Txs[b][k + 1]
    BY <1>1, ParentFacts
  <2>2. n + 1 = TxCount(Prev[b]) + (k + 1)
    BY <1>1
  <2> QED
    BY <1>1, <2>1, <2>2 DEF Nums
<1>3. \A i \in 1 .. Len(Txs[b]) : Ins[Txs[b][i]] \in Seq(O)
  BY <1>1, ElementOfSeq, BlockchainAssumption DEF TxId
<1>4. InsUpTo(b, k) \in Seq(Seq(O)) /\ InsUpTo(b, k + 1) = Append(InsUpTo(b, k), Ins[t])
  <2>1. \A i \in 1 .. k : i \in 1 .. Len(Txs[b])
    BY <1>1
  <2>2. InsUpTo(b, k) \in Seq(Seq(O)) /\ Len(InsUpTo(b, k)) = k
    <3> HIDE DEF O
    <3>1. \A i \in 1 .. k : Ins[Txs[b][i]] \in Seq(O)
      BY <1>3, <2>1
    <3> QED
      BY <1>1, <3>1 DEF InsUpTo
  <2>3. InsUpTo(b, k + 1) \in Seq(Seq(O)) /\ Len(InsUpTo(b, k + 1)) = k + 1
    <3>1. \A i \in 1 .. k + 1 : i \in 1 .. Len(Txs[b])
      BY <1>1
    <3>2. k + 1 \in Nat
      BY <1>1
    <3> HIDE DEF O
    <3>3. \A i \in 1 .. k + 1 : Ins[Txs[b][i]] \in Seq(O)
      BY <1>3, <3>1
    <3> QED
      BY <3>2, <3>3 DEF InsUpTo
  <2> DEFINE a == Append(InsUpTo(b, k), Ins[t])
  <2>4. a \in Seq(Seq(O)) /\ Len(a) = k + 1 /\ a[k + 1] = Ins[t]
        /\ \A i \in 1 .. k : a[i] = InsUpTo(b, k)[i]
    <3>1. Ins[t] \in Seq(O)
      BY <1>1, <1>3
    <3> HIDE DEF O, t
    <3>2. /\ a \in Seq(Seq(O)) /\ Len(a) = Len(InsUpTo(b, k)) + 1
          /\ \A i \in 1 .. Len(InsUpTo(b, k)) : a[i] = InsUpTo(b, k)[i]
          /\ a[Len(InsUpTo(b, k)) + 1] = Ins[t]
      BY ONLY <2>2, <3>1, AppendProperties
    <3> QED
      BY ONLY <2>2, <3>2
  <2>5. \A i \in 1 .. k + 1 : a[i] = InsUpTo(b, k + 1)[i]
    <3> SUFFICES ASSUME NEW i \in 1 .. k + 1 PROVE a[i] = InsUpTo(b, k + 1)[i]
      OBVIOUS
    <3>1. InsUpTo(b, k + 1)[i] = Ins[Txs[b][i]]
      BY DEF InsUpTo
    <3>2. CASE i = k + 1
      BY <2>4, <3>1, <3>2
    <3>3. CASE i # k + 1
      <4>1. i \in 1 .. k
        BY <1>1, <3>3
      <4>2. InsUpTo(b, k)[i] = Ins[Txs[b][i]]
        BY <4>1 DEF InsUpTo
      <4> QED
        BY <2>4, <3>1, <4>1, <4>2
    <3> QED
      BY <3>2, <3>3
  <2> HIDE DEF a
  <2>6. a = InsUpTo(b, k + 1)
    BY <2>3, <2>4, <2>5, SeqEqual
  <2> QED
    BY <2>2, <2>6 DEF a
<1> DEFINE s == FlattenSeq(InsUpTo(b, k))
<1>5. Ins[t] \in Seq(O)
  BY <1>1, <1>3
<1>6. s \in Seq(O) /\ FlattenSeq(InsUpTo(b, k + 1)) = s \o Ins[t]
  <2> HIDE DEF O, t
  <2> QED
    BY <1>4, <1>5, FlattenFacts
<1>7. \A x \in Seq(O) : [i \in DOMAIN x |-> M[x[i]]] = [i \in DOMAIN x |-> Touch1(CoinAt(b, x[i]), CoinAt(b, x[i]).tx_num)]
  <2> SUFFICES ASSUME NEW x \in Seq(O), NEW i \in DOMAIN x
               PROVE  M[x[i]] = Touch1(CoinAt(b, x[i]), CoinAt(b, x[i]).tx_num)
    OBVIOUS
  <2>1. x[i] \in O
    <3> HIDE DEF O
    <3> QED
      BY LenProperties, ElementOfSeq
  <2> QED
    BY <2>1
<1>8. s \o Ins[t] \in Seq(O)
  <2> HIDE DEF O, t, s
  <2> QED
    BY <1>5, <1>6, ConcatProperties
<1> HIDE DEF M, O
<1>9. UndoUpTo(b, k) = Map(M, s)
  BY <1>6, <1>7 DEF UndoUpTo, Map
<1>10. UndoUpTo(b, k + 1) = Map(M, s \o Ins[t])
  BY <1>6, <1>7, <1>8 DEF UndoUpTo, Map
<1>11. TxUndo(b, n) = Map(M, Ins[t])
  BY <1>2, <1>5, <1>7 DEF TxUndo, Inputs, Input, Map
<1> HIDE DEF s, t, n
<1>12. UndoUpTo(b, k + 1) = UndoUpTo(b, k) \o TxUndo(b, n)
  <2>1. s \in Seq(O) /\ Ins[t] \in Seq(O)
    BY <1>5, <1>6
  <2>2. Map(M, s \o Ins[t]) = Map(M, s) \o Map(M, Ins[t])
    BY ONLY <2>1, MapConcat
  <2> QED
    BY ONLY <1>9, <1>10, <1>11, <2>2
<1> QED
  BY <1>2, <1>12 DEF n, t

LEMMA UndoFacts ==
    ASSUME NEW b \in Blocks
    PROVE  /\ UndoUpTo(b, 0) = <<>> /\ UndoUpTo(b, Len(Txs[b])) = SpentOutputs[b]
           /\ \A k \in 0 .. Len(Txs[b]) : UndoUpTo(b, k) \in Seq(Prevouts)
<1>1. Len(Txs[b]) \in Nat /\ Txs[b] \in Seq(TxId) /\ DOMAIN Txs[b] = 1 .. Len(Txs[b])
  BY ParentFacts, LenProperties
<1>2. UndoUpTo(b, 0) = <<>>
  <2>1. InsUpTo(b, 0) = <<>>
    BY DEF InsUpTo
  <2>2. <<>> \in Seq(Seq({}))
    BY EmptySeq
  <2>3. FlattenSeq(InsUpTo(b, 0)) = <<>>
    BY <2>1, <2>2, FlattenFacts
  <2> QED
    BY <2>3 DEF UndoUpTo
<1>3. UndoUpTo(b, Len(Txs[b])) = SpentOutputs[b]
  BY <1>1 DEF UndoUpTo, InsUpTo, SpentOutputs, CoinAt, Touch1
<1> DEFINE D == { k \in Nat : k <= Len(Txs[b]) => UndoUpTo(b, k) \in Seq(Prevouts) }
<1>4. 0 \in D
  BY <1>2, EmptySeq
<1>5. ASSUME NEW k \in Nat, k \in D
      PROVE  k + 1 \in D
  <2> SUFFICES ASSUME k + 1 <= Len(Txs[b]) PROVE UndoUpTo(b, k + 1) \in Seq(Prevouts)
    OBVIOUS
  <2>1. k \in 0 .. Len(Txs[b]) - 1 /\ UndoUpTo(b, k) \in Seq(Prevouts)
    BY <1>1, <1>5
  <2>2. TxUndo(b, TxCount(Prev[b]) + k) \in Seq(Prevouts)
    BY <2>1, UndoStep, TxUndoFacts
  <2> QED
    BY <2>1, <2>2, UndoStep, ConcatProperties
<1> HIDE DEF D
<1>6. \A k \in Nat : k \in D
  BY <1>4, <1>5, Counting
<1>7. \A k \in 0 .. Len(Txs[b]) : UndoUpTo(b, k) \in Seq(Prevouts)
  BY <1>1, <1>6 DEF D
<1> QED
  BY <1>2, <1>3, <1>7

EndsWith(S, p, e) == p \in Seq(S) /\ e \in S

LEMMA FrontAndLast ==
    ASSUME NEW S, NEW p, NEW e, EndsWith(S, p, e)
    PROVE  /\ Append(p, e) # <<>> /\ Last(Append(p, e)) = e /\ Front(Append(p, e)) = p
           /\ Append(p, e) \in Seq(S)
<1> DEFINE q == Append(p, e)
<1>1. p \in Seq(S) /\ e \in S /\ Len(p) \in Nat
  BY LenProperties DEF EndsWith
<1>2. q \in Seq(S) /\ Len(q) = Len(p) + 1 /\ q[Len(p) + 1] = e /\ \A i \in 1 .. Len(p) : q[i] = p[i]
  BY <1>1, AppendProperties
<1> HIDE DEF q
<1>3. q # <<>>
  BY <1>1, <1>2
<1>4. SubSeq(q, 1, Len(p)) = p
  <2>1. \A i \in 1 .. Len(p) : q[i] \in S
    BY <1>1, <1>2, ElementOfSeq
  <2>2. SubSeq(q, 1, Len(p)) \in Seq(S) /\ Len(SubSeq(q, 1, Len(p))) = Len(p)
        /\ \A i \in 1 .. Len(p) : SubSeq(q, 1, Len(p))[i] = q[i]
    <3>1. Len(p) \in 0 .. Len(q) /\ 1 \in 1 .. Len(q) + 1
      BY <1>1, <1>2
    <3> QED
      BY <1>1, <1>2, <2>1, <3>1, SubSeqProperties
  <2> DEFINE z == SubSeq(q, 1, Len(p))
  <2> HIDE DEF z
  <2>3. z = p
    BY <1>1, <1>2, <2>2, SeqEqual DEF z
  <2> QED
    BY <2>3 DEF z
<1>5. Len(q) - 1 = Len(p)
  BY <1>1, <1>2
<1> QED
  BY <1>1, <1>2, <1>3, <1>4, <1>5 DEF Last, Front, q

\* TxCounts of a block in terms of its parent's.
LEMMA TxCountsStep ==
    ASSUME NEW b \in Blocks
    PROVE  /\ TxCounts[b] = Append(TxCounts[Prev[b]], TxCount(b))
           /\ EndsWith(Nat, TxCounts[Prev[b]], TxCount(b))
<1> DEFINE p == TxCounts[Prev[b]]
           q == TxCounts[b]
           e == TxCount(b)
           r == Append(p, e)
<1>1. b \in Tips /\ Prev[b] \in Tips /\ Height(b) = Height(Prev[b]) + 1 /\ Height(Prev[b]) \in Int
      /\ Height(Prev[b]) >= -1 /\ b # NoBlock
  BY ParentFacts, HeightFacts, TipsFacts
<1>2. e \in Nat
  BY <1>1, HeightFacts
<1>3. p \in Seq(Nat) /\ Len(p) = Height(Prev[b]) + 1
  BY <1>1, TxCountsFacts
<1>4. q \in Seq(Nat) /\ Len(q) = Height(b) + 1 /\ q[Height(b) + 1] = e
  BY <1>1, TxCountsFacts
<1>5. \A i \in 1 .. Height(Prev[b]) + 1 : q[i] = p[i]
  BY <1>1, ExtendsParent, TxCountsFacts
<1>6. r \in Seq(Nat) /\ Len(r) = Len(p) + 1 /\ r[Len(p) + 1] = e /\ \A i \in 1 .. Len(p) : r[i] = p[i]
  BY <1>2, <1>3, AppendProperties
<1> HIDE DEF r, p, q, e
<1>7. ASSUME NEW i \in 1 .. Len(q)
      PROVE  q[i] = r[i]
  <2>1. i \in 1 .. Len(p) \/ i = Len(p) + 1
    BY <1>1, <1>3, <1>4
  <2>2. CASE i \in 1 .. Len(p)
    <3>1. i \in 1 .. Height(Prev[b]) + 1
      BY <1>3, <2>2
    <3> QED
      BY <1>5, <1>6, <2>2, <3>1
  <2>3. CASE i = Len(p) + 1
    <3>1. i = Height(b) + 1
      BY <1>1, <1>3, <2>3
    <3> QED
      BY <1>4, <1>6, <2>3, <3>1
  <2> QED
    BY <2>1, <2>2, <2>3
<1>8. Len(q) = Len(r)
  BY <1>1, <1>3, <1>4, <1>6
<1>9. q = r
  BY <1>4, <1>6, <1>7, <1>8, SeqEqual
<1> QED
  BY <1>2, <1>3, <1>9 DEF EndsWith, r, p, q, e

-----------------------------------------------------------------------------
(* BlockProcessor.                                                          *)

Committed == disk.state.tip

-----------------------------------------------------------------------------
(* Lookups.  X is a block whose chain begins with the committed one.        *)

Env(X) ==
    /\ X \in Blocks /\ Committed \in Tips /\ Extends(X, Committed)
    /\ db.height = Height(Committed)
    /\ disk.h = { HKey(c) : c \in Unspent[Committed] } /\ disk.u = { UKey(k) : k \in disk.h }
    /\ \A n \in Nums(Committed) : files.hashes[n + 1] = ChainTxs[Committed][n + 1]

\* Heights that are not on disk begin after the committed transactions.
CountsOk(counts) ==
    counts \in Seq(Nat) /\ \A i \in DOMAIN counts : i > db.height => counts[i] >= TxCount(Committed)

LEMMA CommittedFacts ==
    ASSUME NEW X, Env(X)
    PROVE  /\ IsFiniteSet(disk.h)
           /\ \A d \in Unspent[Committed] :
                /\ d \in Created[X] /\ d.tx_num \in Nums(Committed) /\ d.tx_num \in Nat
                /\ d.tx_num < TxCount(Committed) /\ d.tx = ChainTxs[Committed][d.tx_num + 1]
<1>1. X \in Blocks /\ Committed \in Tips /\ Extends(X, Committed)
  BY DEF Env
<1>2. ASSUME NEW d \in Unspent[Committed]
      PROVE  /\ d \in Created[X] /\ d.tx_num \in Nums(Committed) /\ d.tx_num \in Nat
             /\ d.tx_num < TxCount(Committed) /\ d.tx = ChainTxs[Committed][d.tx_num + 1]
  <2>1. Committed # NoBlock
    BY NoneFacts
  <2>2. Committed \in Blocks
    BY <1>1, <2>1, TipsFacts
  <2>3. d \in Created[Committed]
    BY <1>1 DEF Unspent
  <2>4. d \in Created[X]
    BY <1>1, <2>3, CoinsOfAncestor
  <2> QED
    BY <2>2, <2>3, <2>4, CoinFacts
<1>3. IsFiniteSet(Unspent[Committed])
  <2>1. Unspent[Committed] \subseteq Created[X]
    BY <1>2
  <2> QED
    BY <1>1, <2>1, CreatedFinite, FS_Subset
<1>4. IsFiniteSet(disk.h)
  <2> DEFINE f == [c \in Unspent[Committed] |-> HKey(c)]
  <2>1. disk.h = { HKey(c) : c \in Unspent[Committed] }
    BY DEF Env
  <2>2. f \in Surjection(Unspent[Committed], disk.h)
    BY <2>1 DEF Surjection
  <2> QED
    BY <1>3, <2>2, FS_Surjection
<1> QED
  BY <1>2, <1>4

LEMMA KeysDiffer ==
    ASSUME NEW X \in Blocks, NEW c \in Created[X], NEW d \in Created[X], HKey(c) = HKey(d)
    PROVE  c = d
<1>1. c.tx_num = d.tx_num /\ c.idx = d.idx
  BY DEF HKey
<1> QED
  BY <1>1, CoinFacts

LEMMA HashFound ==
    ASSUME NEW X, Env(X), NEW counts, CountsOk(counts), NEW d \in Unspent[Committed]
    PROVE  FsTxHash(counts, d.tx_num) = d.tx
<1> DEFINE S == { i \in DOMAIN counts : counts[i] <= d.tx_num }
<1>1. Committed \in Tips /\ db.height = Height(Committed) /\ Height(Committed) \in Int
      /\ Height(Committed) >= -1 /\ TxCount(Committed) \in Nat
  BY HeightFacts DEF Env
<1>2. d.tx_num \in Nums(Committed) /\ d.tx_num \in Nat /\ d.tx_num < TxCount(Committed)
      /\ d.tx = ChainTxs[Committed][d.tx_num + 1]
  BY CommittedFacts
<1>3. Height(Committed) >= 0
  BY <1>1, <1>2, HeightFacts, TipsFacts, ParentFacts
<1>4. S \subseteq 1 .. Height(Committed)
  <2>1. DOMAIN counts = 1 .. Len(counts) /\ Len(counts) \in Nat /\ \A i \in DOMAIN counts : counts[i] \in Nat
    BY LenProperties, ElementOfSeq DEF CountsOk
  <2> SUFFICES ASSUME NEW i \in S PROVE i \in 1 .. Height(Committed)
    OBVIOUS
  <2>2. i \in DOMAIN counts /\ counts[i] <= d.tx_num
    OBVIOUS
  <2>3. ~(i > Height(Committed))
    BY <1>1, <1>2, <2>1, <2>2 DEF CountsOk
  <2> QED
    BY <1>1, <2>1, <2>2, <2>3
<1>5. Cardinality(S) <= Height(Committed) /\ Cardinality(S) \in Nat
  <2>1. IsFiniteSet(1 .. Height(Committed)) /\ Cardinality(1 .. Height(Committed)) = Height(Committed)
    BY <1>1, <1>3, FS_Interval
  <2> HIDE DEF S
  <2> QED
    BY <1>4, <2>1, FS_Subset, FS_CardinalityType
<1>7. ~(HeightOf(counts, d.tx_num) > db.height)
  BY <1>1, <1>5 DEF HeightOf
<1>8. FsTxHash(counts, d.tx_num) = files.hashes[d.tx_num + 1]
  BY <1>7 DEF FsTxHash
<1> QED
  BY <1>2, <1>8 DEF Env

-----------------------------------------------------------------------------
(* The scratch state.                                                       *)

Scratches(X) ==
    [cache : SUBSET Created[X], deletes : SUBSET disk.h, touched : SUBSET HashXs,
     history : SUBSET Prevouts, tx_count : Int, counts : Seq(Nat), undo : Seq(Prevouts),
     spent : [hashX : HashXs \cup {NoX}, tx_num : Nat], ok : BOOLEAN]

Backups(X) ==
    [cache : SUBSET Created[X], deletes : SUBSET disk.h, touched : SUBSET HashXs,
     history : SUBSET Prevouts, tx_count : Int, counts : Seq(Nat), undo : Seq(Prevouts),
     spent : [hashX : HashXs \cup {NoX}, tx_num : Nat], ok : BOOLEAN,
     height : Int, tip : Tips]

\* The tables seen through the cache hold the coins U.
View(s, U) ==
    /\ s.cache \subseteq U
    /\ disk.h \ s.deletes = { HKey(c) : c \in U \ s.cache }

\* What an operation on the UTXOs leaves alone.
SameButTables(r, s) ==
    /\ r.touched = s.touched /\ r.history = s.history /\ r.tx_count = s.tx_count
    /\ r.counts = s.counts /\ r.undo = s.undo /\ r.ok = s.ok

SameBlock(r, s) == r.height = s.height /\ r.tip = s.tip

\* o is the outpoint of a coin c that is there.
CanSpend(X, s, U, c, o) ==
    /\ Env(X) /\ (s \in Scratches(X) \/ s \in Backups(X)) /\ CountsOk(s.counts)
    /\ U \subseteq Created[X] /\ View(s, U) /\ c \in U /\ o.tx = c.tx /\ o.idx = c.idx

\* spend_utxo finds the coin and takes it away.
LEMMA SpendFacts ==
    ASSUME NEW X, NEW s, NEW U, NEW c, NEW o, CanSpend(X, s, U, c, o)
    PROVE  LET r == SpendUtxo(s, o) IN
           /\ View(r, U \ {c}) /\ r.spent = Touch1(c, c.tx_num) /\ SameButTables(r, s)
           /\ s \in Scratches(X) => r \in Scratches(X)
           /\ s \in Backups(X) => r \in Backups(X) /\ SameBlock(r, s)
<1> DEFINE cached == { d \in s.cache : d.tx = o.tx /\ d.idx = o.idx }
           candidates == { k \in disk.h : k.comp = Comp[o.tx] /\ k.idx = o.idx }
           found == { k \in candidates : IsOutput(s, o, k, candidates) }
           cc == CHOOSE d \in cached : TRUE
           kk == CHOOSE k \in found : TRUE
           r == SpendUtxo(s, o)
           v == Touch1(c, c.tx_num)
<1>0. /\ Env(X) /\ (s \in Scratches(X) \/ s \in Backups(X)) /\ CountsOk(s.counts)
      /\ U \subseteq Created[X] /\ View(s, U) /\ c \in U /\ o.tx = c.tx /\ o.idx = c.idx
  BY DEF CanSpend
<1> USE <1>0
<1>1. X \in Blocks /\ c \in Created[X] /\ s.cache \subseteq U /\ U \subseteq Created[X]
  BY DEF Env, View
<1>2. \A d \in Created[X] : d.tx = c.tx /\ d.idx = c.idx => d = c
  BY <1>1, CoinFacts
<1>3. cached \subseteq {c}
  BY <1>1, <1>2
<1>4. Prevout(c) = v /\ Prevout(HKey(c)) = v
  BY DEF Prevout, HKey, Touch1
<1>5. v \in [hashX : HashXs \cup {NoX}, tx_num : Nat]
  BY <1>1, CoinTypes DEF Prevouts
<1>6. r = CASE cached # {} -> [s EXCEPT !.cache = @ \ {cc}, !.spent = Prevout(cc)]
            [] cached = {} /\ found # {} ->
                 [s EXCEPT !.deletes = @ \cup {kk}, !.spent = Prevout(kk)]
            [] OTHER -> [s EXCEPT !.ok = FALSE]
  BY DEF SpendUtxo
<1>7. CASE c \in s.cache
  <2>1. cached = {c}
    BY <1>3, <1>7
  <2>2. cc = c
    BY <2>1
  <2>3. r = [s EXCEPT !.cache = @ \ {c}, !.spent = v]
    BY <1>4, <1>6, <2>1, <2>2
  <2>4. (U \ {c}) \ (s.cache \ {c}) = U \ s.cache
    BY <1>7
  <2> HIDE DEF r, v
  <2>5. /\ s \in Scratches(X) => r \in Scratches(X) /\ r.spent = v /\ SameButTables(r, s)
                                 /\ r.cache = s.cache \ {c} /\ r.deletes = s.deletes
        /\ s \in Backups(X) => r \in Backups(X) /\ r.spent = v /\ SameButTables(r, s)
                               /\ r.cache = s.cache \ {c} /\ r.deletes = s.deletes
                               /\ SameBlock(r, s)
    BY <1>5, <2>3 DEF Scratches, Backups, SameButTables, SameBlock
  <2>6. View(r, U \ {c})
    BY <2>4, <2>5 DEF View
  <2> QED
    BY <2>5, <2>6 DEF r, v
<1>8. CASE c \notin s.cache
  <2>1. cached = {}
    BY <1>3, <1>8
  <2>2. HKey(c) \in disk.h /\ HKey(c) \notin s.deletes
    BY <1>8 DEF View
  <2>3. HKey(c) \in candidates
    BY <2>2 DEF HKey
  <2>4. IsFiniteSet(candidates)
    BY CommittedFacts, FS_Subset
  <2>5. \A k \in disk.h : UKey(k) \in disk.u
    BY DEF Env
  <2>6. ASSUME NEW k \in candidates, Cardinality(candidates) > 1, FsTxHash(s.counts, k.tx_num) = o.tx
        PROVE  k = HKey(c)
    <3>1. PICK d \in Unspent[Committed] : k = HKey(d)
      BY <2>6 DEF Env
    <3>2. d.tx_num = k.tx_num /\ d.idx = k.idx
      BY <3>1 DEF HKey
    <3>3. d.tx = o.tx /\ d.idx = o.idx
      BY <2>6, <3>2, HashFound
    <3>4. d \in Created[X]
      BY CommittedFacts
    <3> QED
      BY <1>2, <3>1, <3>3, <3>4
  <2>7. FsTxHash(s.counts, HKey(c).tx_num) = o.tx
    <3>1. PICK d \in Unspent[Committed] : HKey(c) = HKey(d)
      BY <2>2 DEF Env
    <3>2. d = c
      BY <1>1, <3>1, CommittedFacts, KeysDiffer
    <3>3. HKey(c).tx_num = c.tx_num
      BY DEF HKey
    <3> QED
      BY <3>2, <3>3, HashFound
  <2>8. HKey(c) \in found
    BY <2>3, <2>5, <2>7 DEF IsOutput
  <2>9. ASSUME NEW k \in found
        PROVE  k = HKey(c)
    <3>1. k \in candidates /\ (Cardinality(candidates) > 1 => FsTxHash(s.counts, k.tx_num) = o.tx)
      BY DEF IsOutput
    <3>2. CASE Cardinality(candidates) > 1
      BY <2>6, <3>1, <3>2
    <3>3. CASE ~(Cardinality(candidates) > 1)
      <4>1. IsFiniteSet({k, HKey(c)}) /\ {k, HKey(c)} \subseteq candidates
        BY <2>3, <2>4, <3>1, FS_Subset
      <4>2. Cardinality({k, HKey(c)}) <= Cardinality(candidates) /\ Cardinality(candidates) \in Nat
        <5> HIDE DEF candidates
        <5> QED
          BY <2>4, <4>1, FS_Subset, FS_CardinalityType
      <4>3. ASSUME k # HKey(c)
            PROVE  Cardinality({k, HKey(c)}) = 2
        <5> DEFINE A == {HKey(c)}
        <5>1. IsFiniteSet(A) /\ Cardinality(A) = 1 /\ k \notin A
          BY <4>3, FS_Singleton
        <5>2. A \cup {k} = {k, HKey(c)}
          OBVIOUS
        <5> HIDE DEF A
        <5>3. Cardinality(A \cup {k}) = IF k \in A THEN Cardinality(A) ELSE Cardinality(A) + 1
          BY ONLY <5>1, FS_AddElement, Zenon
        <5> QED
          BY <5>1, <5>2, <5>3
      <4> QED
        BY <3>3, <4>2, <4>3
    <3> QED
      BY <3>2, <3>3
  <2>10. found = {HKey(c)}
    BY <2>8, <2>9
  <2> HIDE DEF found, cached
  <2>11. kk = HKey(c) /\ found # {}
    BY <2>10
  <2>12. r = [s EXCEPT !.deletes = @ \cup {HKey(c)}, !.spent = v]
    BY <1>4, <1>6, <2>1, <2>11
  <2> HIDE DEF r, v
  <2>13. /\ s \in Scratches(X) => r \in Scratches(X) /\ r.spent = v /\ SameButTables(r, s)
                                  /\ r.cache = s.cache /\ r.deletes = s.deletes \cup {HKey(c)}
         /\ s \in Backups(X) => r \in Backups(X) /\ r.spent = v /\ SameButTables(r, s)
                                /\ r.cache = s.cache /\ r.deletes = s.deletes \cup {HKey(c)}
                                /\ SameBlock(r, s)
    BY <1>5, <2>2, <2>12 DEF Scratches, Backups, SameButTables, SameBlock
  <2>14. disk.h \ (s.deletes \cup {HKey(c)}) = { HKey(d) : d \in (U \ {c}) \ s.cache }
    <3>1. disk.h \ s.deletes = { HKey(d) : d \in U \ s.cache }
      BY DEF View
    <3>2. \A d \in U : HKey(d) = HKey(c) => d = c
      BY <1>1, KeysDiffer
    <3> QED
      BY <3>1, <3>2
  <2>15. View(r, U \ {c})
    BY <1>8, <2>13, <2>14 DEF View
  <2> QED
    BY <2>13, <2>15 DEF r, v
<1> QED
  BY <1>7, <1>8

\* put_utxo adds a coin that was not there.
LEMMA PutFacts ==
    ASSUME NEW X \in Blocks, NEW s, s \in Scratches(X) \/ s \in Backups(X),
           NEW U \in SUBSET Created[X], View(s, U), NEW c \in Created[X], c \notin U,
           NEW o, o.tx = c.tx, o.idx = c.idx, NEW v, v.hashX = c.hashX, v.tx_num = c.tx_num
    PROVE  LET r == PutUtxo(s, o, v) IN
           /\ View(r, U \cup {c}) /\ SameButTables(r, s)
           /\ s \in Scratches(X) => r \in Scratches(X)
           /\ s \in Backups(X) => r \in Backups(X) /\ SameBlock(r, s)
<1> DEFINE r == PutUtxo(s, o, v)
<1>1. s.cache \subseteq U
  BY DEF View
<1>2. c = [tx |-> o.tx, idx |-> o.idx, hashX |-> v.hashX, tx_num |-> v.tx_num]
  BY CoinFacts
<1>3. { d \in s.cache : <<d.tx, d.idx>> # <<o.tx, o.idx>> } = s.cache
  <2> SUFFICES ASSUME NEW d \in s.cache, d.tx = o.tx, d.idx = o.idx PROVE FALSE
    OBVIOUS
  <2>1. d \in Created[X]
    BY <1>1
  <2>2. d = c
    BY <2>1, CoinFacts
  <2> QED
    BY <1>1, <2>2
<1>4. r = [s EXCEPT !.cache = s.cache \cup {c}]
  BY <1>2, <1>3 DEF PutUtxo
<1>5. s.cache \cup {c} \in SUBSET Created[X]
  BY <1>1
<1> HIDE DEF r
<1>6. /\ s \in Scratches(X) => r \in Scratches(X) /\ SameButTables(r, s)
                               /\ r.cache = s.cache \cup {c} /\ r.deletes = s.deletes
      /\ s \in Backups(X) => r \in Backups(X) /\ SameButTables(r, s)
                             /\ r.cache = s.cache \cup {c} /\ r.deletes = s.deletes
                             /\ SameBlock(r, s)
  BY <1>4, <1>5 DEF Scratches, Backups, SameButTables, SameBlock
<1>7. (U \cup {c}) \ (s.cache \cup {c}) = U \ s.cache
  OBVIOUS
<1>8. View(r, U \cup {c})
  BY <1>1, <1>6, <1>7 DEF View
<1> QED
  BY <1>6, <1>8 DEF r

-----------------------------------------------------------------------------
(* Folds.  The operators that the block processor folds, one name for all:  *)
(* a lemma cannot take an operator as its parameter.                        *)

SpendInput(s, o) ==
    LET r == SpendUtxo(s, o) IN Touch([r EXCEPT !.undo = Append(@, r.spent)], r.spent.hashX)

CreateOutput(s, i, t) ==
    IF Outs[t][i] = NoX THEN s
    ELSE Touch(PutUtxo(s, [tx |-> t, idx |-> i], [hashX |-> Outs[t][i], tx_num |-> s.tx_count]),
               Outs[t][i])

UnspendOutput(s, i, t) ==
    LET r == SpendUtxo(s, [tx |-> t, idx |-> i])
    IN IF Outs[t][i] = NoX THEN s ELSE [r EXCEPT !.touched = @ \cup {r.spent.hashX}]

RestoreInput(s, o) ==
    IF s.undo = <<>> THEN [s EXCEPT !.ok = FALSE]
    ELSE [PutUtxo(s, o, Last(s.undo)) EXCEPT !.undo = Front(@), !.touched = @ \cup {Last(s.undo).hashX}]

Op(k, t, s, x) ==
    CASE k = "spend" -> SpendInput(s, x)
      [] k = "create" -> CreateOutput(s, x, t)
      [] k = "advance" -> AdvanceTx(s, x)
      [] k = "unspend" -> UnspendOutput(s, x, t)
      [] k = "restore" -> RestoreInput(s, x)
      [] k = "backup_tx" -> BackupTx(s, x)
      [] k = "backup_block" -> BackupBlock(s, x)

FoldFn(k, t, s, seq) ==
    CHOOSE f : f = [i \in 0 .. Len(seq) |->
                      IF i = 0 THEN s
                      ELSE CHOOSE r \in { Op(k, t, v, seq[i]) : v \in {f[i - 1]} } : TRUE]

Folded(k, t, s, seq) == FoldFn(k, t, s, seq)[Len(seq)]

\* Each step leads from one set of states to the next.
Runs(k, t, s, seq, G) ==
    /\ Len(seq) \in Nat /\ s \in G[0]
    /\ \A i \in 1 .. Len(seq) : \A r \in G[i - 1] : Op(k, t, r, seq[i]) \in G[i]

LEMMA FoldFacts ==
    ASSUME NEW k, NEW t, NEW s, NEW seq, NEW G, Runs(k, t, s, seq, G)
    PROVE  Folded(k, t, s, seq) \in G[Len(seq)]
<1> DEFINE n == Len(seq)
           R == UNION { G[i] : i \in 0 .. n }
           F == [i \in 1 .. n |-> [r \in R |-> IF r \in G[i - 1] THEN Op(k, t, r, seq[i]) ELSE s]]
           Rec(f) == f = [i \in 0 .. n |->
                            IF i = 0 THEN s
                            ELSE CHOOSE r \in { Op(k, t, v, seq[i]) : v \in {f[i - 1]} } : TRUE]
           f0 == CHOOSE f : Rec(f)
<1>1. n \in Nat /\ s \in G[0] /\ \A i \in 1 .. n : \A r \in G[i - 1] : Op(k, t, r, seq[i]) \in G[i]
  BY DEF Runs
<1>2. \A i \in 1 .. n : i \in 0 .. n /\ i - 1 \in 0 .. n
  BY <1>1
<1>3. s \in R
  <2>1. 0 \in 0 .. n
    BY <1>1
  <2> QED
    BY <1>1, <2>1
<1>4. F \in [1 .. n -> [R -> R]]
  <2>1. ASSUME NEW i \in 1 .. n, NEW r \in R
        PROVE  (IF r \in G[i - 1] THEN Op(k, t, r, seq[i]) ELSE s) \in R
    BY <1>1, <1>2, <1>3
  <2> HIDE DEF R
  <2> QED
    BY <2>1
<1>5. Steps(n, R, s, F)
  <2> HIDE DEF n, R, F
  <2> QED
    BY <1>1, <1>3, <1>4 DEF Steps
<1>6. PICK g : Stepped(n, R, s, F, g)
  <2> HIDE DEF n, R, F
  <2> QED
    BY <1>5, Iterates
<1>7. /\ g \in [0 .. n -> R] /\ g[0] = s /\ \A i \in 1 .. n : g[i] = F[i][g[i - 1]]
  <2> HIDE DEF n, R, F
  <2> QED
    BY <1>6 DEF Stepped
<1> HIDE DEF R
<1>8. \A i \in 1 .. n : \A r \in R : r \in G[i - 1] => F[i][r] = Op(k, t, r, seq[i])
  OBVIOUS
<1> HIDE DEF F
<1> DEFINE D == { i \in Nat : i <= n => g[i] \in G[i] }
<1>9. 0 \in D
  BY <1>1, <1>7
<1>10. ASSUME NEW i \in Nat, i \in D
       PROVE  i + 1 \in D
  <2> SUFFICES ASSUME i + 1 <= n PROVE g[i + 1] \in G[i + 1]
    OBVIOUS
  <2>1. i + 1 \in 1 .. n /\ (i + 1) - 1 = i /\ i \in 0 .. n
    BY <1>1
  <2>2. g[i] \in G[i] /\ g[i] \in R
    BY <1>7, <1>10, <2>1
  <2>3. g[i + 1] = F[i + 1][g[i]]
    BY <1>7, <2>1
  <2>4. F[i + 1][g[i]] = Op(k, t, g[i], seq[i + 1])
    BY <1>8, <2>1, <2>2
  <2>5. Op(k, t, g[i], seq[i + 1]) \in G[i + 1]
    BY <1>1, <2>1, <2>2
  <2> QED
    BY <2>3, <2>4, <2>5
<1> HIDE DEF D
<1>11. \A i \in Nat : i \in D
  BY <1>9, <1>10, Counting
<1>12. \A i \in 0 .. n : g[i] \in G[i]
  BY <1>1, <1>11 DEF D
<1>13. ASSUME NEW i \in 1 .. n
       PROVE  g[i] = CHOOSE r \in { Op(k, t, v, seq[i]) : v \in {g[i - 1]} } : TRUE
  <2>1. g[i - 1] \in G[i - 1] /\ g[i - 1] \in R
    BY <1>2, <1>7, <1>12
  <2>2. g[i] = Op(k, t, g[i - 1], seq[i])
    BY <1>7, <1>8, <2>1
  <2> QED
    BY <2>2
<1>14. Rec(g)
  BY <1>1, <1>7, <1>13
<1>15. Rec(f0)
  BY <1>14
<1> HIDE DEF f0
<1> DEFINE E == { i \in Nat : i <= n => f0[i] = g[i] }
<1>16. 0 \in E
  BY <1>1, <1>7, <1>15
<1>17. ASSUME NEW i \in Nat, i \in E
       PROVE  i + 1 \in E
  <2> SUFFICES ASSUME i + 1 <= n PROVE f0[i + 1] = g[i + 1]
    OBVIOUS
  <2>1. i + 1 \in 1 .. n /\ (i + 1) - 1 = i /\ i + 1 \in 0 .. n /\ i + 1 # 0
    BY <1>1
  <2>2. f0[i] = g[i]
    BY <1>1, <1>17
  <2>3. f0[i + 1] = CHOOSE r \in { Op(k, t, v, seq[i + 1]) : v \in {f0[i]} } : TRUE
    BY <1>15, <2>1
  <2>4. g[i + 1] = CHOOSE r \in { Op(k, t, v, seq[i + 1]) : v \in {g[i]} } : TRUE
    BY <1>13, <2>1
  <2> QED
    BY <2>2, <2>3, <2>4
<1> HIDE DEF E
<1>18. \A i \in Nat : i \in E
  BY <1>16, <1>17, Counting
<1>19. f0[n] = g[n]
  BY <1>1, <1>18 DEF E
<1>20. f0[n] \in G[n]
  BY <1>1, <1>12, <1>19
<1>21. Folded(k, t, s, seq) = f0[n]
  BY DEF Folded, FoldFn, f0
<1> QED
  BY <1>20, <1>21

LEMMA FoldFns ==
    ASSUME NEW t, NEW s, NEW q
    PROVE
    /\ (CHOOSE f : f = [i \in 0 .. Len(q) |->
                          IF i = 0 THEN s
                          ELSE CHOOSE r \in { SpendInput(v, q[i]) : v \in {f[i - 1]} } : TRUE])
       = FoldFn("spend", t, s, q)
    /\ (CHOOSE f : f = [i \in 0 .. Len(q) |->
                          IF i = 0 THEN s
                          ELSE CHOOSE r \in { CreateOutput(v, q[i], t) : v \in {f[i - 1]} } : TRUE])
       = FoldFn("create", t, s, q)
    /\ (CHOOSE f : f = [i \in 0 .. Len(q) |->
                          IF i = 0 THEN s
                          ELSE CHOOSE r \in { UnspendOutput(v, q[i], t) : v \in {f[i - 1]} } : TRUE])
       = FoldFn("unspend", t, s, q)
    /\ (CHOOSE f : f = [i \in 0 .. Len(q) |->
                          IF i = 0 THEN s
                          ELSE CHOOSE r \in { RestoreInput(v, q[i]) : v \in {f[i - 1]} } : TRUE])
       = FoldFn("restore", t, s, q)
    /\ (CHOOSE f : f = [i \in 0 .. Len(q) |->
                          IF i = 0 THEN s
                          ELSE CHOOSE r \in { AdvanceTx(v, q[i]) : v \in {f[i - 1]} } : TRUE])
       = FoldFn("advance", 0, s, q)
    /\ (CHOOSE f : f = [i \in 0 .. Len(q) |->
                          IF i = 0 THEN s
                          ELSE CHOOSE r \in { BackupTx(v, q[i]) : v \in {f[i - 1]} } : TRUE])
       = FoldFn("backup_tx", 0, s, q)
    /\ (CHOOSE f : f = [i \in 0 .. Len(q) |->
                          IF i = 0 THEN s
                          ELSE CHOOSE r \in { BackupBlock(v, q[i]) : v \in {f[i - 1]} } : TRUE])
       = FoldFn("backup_block", 0, s, q)
<1>1. (CHOOSE f : f = [i \in 0 .. Len(q) |->
                         IF i = 0 THEN s
                         ELSE CHOOSE r \in { SpendInput(v, q[i]) : v \in {f[i - 1]} } : TRUE])
      = FoldFn("spend", t, s, q)
  <2>1. \A r, y : SpendInput(r, y) = Op("spend", t, r, y)
    BY DEF Op
  <2> QED
    BY <2>1 DEF FoldFn
<1>2. (CHOOSE f : f = [i \in 0 .. Len(q) |->
                         IF i = 0 THEN s
                         ELSE CHOOSE r \in { CreateOutput(v, q[i], t) : v \in {f[i - 1]} } : TRUE])
      = FoldFn("create", t, s, q)
  <2>1. \A r, y : CreateOutput(r, y, t) = Op("create", t, r, y)
    BY DEF Op
  <2> QED
    BY <2>1 DEF FoldFn
<1>3. (CHOOSE f : f = [i \in 0 .. Len(q) |->
                         IF i = 0 THEN s
                         ELSE CHOOSE r \in { UnspendOutput(v, q[i], t) : v \in {f[i - 1]} } : TRUE])
      = FoldFn("unspend", t, s, q)
  <2>1. \A r, y : UnspendOutput(r, y, t) = Op("unspend", t, r, y)
    BY DEF Op
  <2> QED
    BY <2>1 DEF FoldFn
<1>4. (CHOOSE f : f = [i \in 0 .. Len(q) |->
                         IF i = 0 THEN s
                         ELSE CHOOSE r \in { RestoreInput(v, q[i]) : v \in {f[i - 1]} } : TRUE])
      = FoldFn("restore", t, s, q)
  <2>1. \A r, y : RestoreInput(r, y) = Op("restore", t, r, y)
    BY DEF Op
  <2> QED
    BY <2>1 DEF FoldFn
<1>5. (CHOOSE f : f = [i \in 0 .. Len(q) |->
                         IF i = 0 THEN s
                         ELSE CHOOSE r \in { AdvanceTx(v, q[i]) : v \in {f[i - 1]} } : TRUE])
      = FoldFn("advance", 0, s, q)
  <2>1. \A r, y : AdvanceTx(r, y) = Op("advance", 0, r, y)
    BY DEF Op
  <2> QED
    BY <2>1 DEF FoldFn
<1>6. (CHOOSE f : f = [i \in 0 .. Len(q) |->
                         IF i = 0 THEN s
                         ELSE CHOOSE r \in { BackupTx(v, q[i]) : v \in {f[i - 1]} } : TRUE])
      = FoldFn("backup_tx", 0, s, q)
  <2>1. \A r, y : BackupTx(r, y) = Op("backup_tx", 0, r, y)
    BY DEF Op
  <2> QED
    BY <2>1 DEF FoldFn
<1>7. (CHOOSE f : f = [i \in 0 .. Len(q) |->
                         IF i = 0 THEN s
                         ELSE CHOOSE r \in { BackupBlock(v, q[i]) : v \in {f[i - 1]} } : TRUE])
      = FoldFn("backup_block", 0, s, q)
  <2>1. \A r, y : BackupBlock(r, y) = Op("backup_block", 0, r, y)
    BY DEF Op
  <2> QED
    BY <2>1 DEF FoldFn
<1> QED
  BY <1>1, <1>2, <1>3, <1>4, <1>5, <1>6, <1>7

LEMMA AdvanceTxIs ==
    ASSUME NEW s, NEW t
    PROVE  AdvanceTx(s, t) = [Folded("create", t, Folded("spend", t, s, Ins[t]), Indices(t))
                                 EXCEPT !.tx_count = @ + 1]
<1> DEFINE fa == CHOOSE f : f = [i \in 0 .. Len(Ins[t]) |->
                        IF i = 0 THEN s
                        ELSE CHOOSE r \in { SpendInput(v, Ins[t][i]) : v \in {f[i - 1]} } : TRUE]
           a == fa[Len(Ins[t])]
           fb == CHOOSE f : f = [i \in 0 .. Len(Indices(t)) |->
                        IF i = 0 THEN a
                        ELSE CHOOSE r \in { CreateOutput(v, Indices(t)[i], t) : v \in {f[i - 1]} } : TRUE]
<1>1. AdvanceTx(s, t) = [fb[Len(Indices(t))] EXCEPT !.tx_count = @ + 1]
  BY DEF AdvanceTx, Fold, SpendInput, CreateOutput
<1>2. fa = FoldFn("spend", t, s, Ins[t])
  BY FoldFns
<1> HIDE DEF a
<1>3. fb = FoldFn("create", t, a, Indices(t))
  BY FoldFns
<1> HIDE DEF fa, fb
<1>4. AdvanceTx(s, t) = [fb[Len(Indices(t))] EXCEPT !.tx_count = @ + 1]
  BY <1>1
<1> QED
  BY <1>2, <1>3, <1>4 DEF Folded, a

LEMMA BackupTxIs ==
    ASSUME NEW s, NEW t
    PROVE  BackupTx(s, t) = Folded("restore", t, Folded("unspend", t, s, Indices(t)), Reverse(Ins[t]))
<1> DEFINE fa == CHOOSE f : f = [i \in 0 .. Len(Indices(t)) |->
                        IF i = 0 THEN s
                        ELSE CHOOSE r \in { UnspendOutput(v, Indices(t)[i], t) : v \in {f[i - 1]} } : TRUE]
           a == fa[Len(Indices(t))]
           fb == CHOOSE f : f = [i \in 0 .. Len(Reverse(Ins[t])) |->
                        IF i = 0 THEN a
                        ELSE CHOOSE r \in { RestoreInput(v, Reverse(Ins[t])[i]) : v \in {f[i - 1]} } : TRUE]
<1>1. BackupTx(s, t) = fb[Len(Reverse(Ins[t]))]
  BY DEF BackupTx, Fold, UnspendOutput, RestoreInput
<1>2. fa = FoldFn("unspend", t, s, Indices(t))
  BY FoldFns
<1> HIDE DEF a
<1>3. fb = FoldFn("restore", t, a, Reverse(Ins[t]))
  BY FoldFns
<1> HIDE DEF fa, fb
<1>4. BackupTx(s, t) = fb[Len(Reverse(Ins[t]))]
  BY <1>1
<1> QED
  BY <1>2, <1>3, <1>4 DEF Folded, a

LEMMA BlockFolds ==
    /\ \A s, q : Fold(AdvanceTx, s, q) = Folded("advance", 0, s, q)
    /\ \A s, q : Fold(BackupTx, s, q) = Folded("backup_tx", 0, s, q)
    /\ \A s, q : Fold(BackupBlock, s, q) = Folded("backup_block", 0, s, q)
  BY FoldFns DEF Fold, Folded

-----------------------------------------------------------------------------
(* advance_txs.                                                             *)

\* A scratch state after some inputs and outputs of transaction n: the coins are U, the
\* history is H, the undo list is u, and what is not of the history K is reported, beside
\* what was reported before.
Advanced(X, s, n, c, u, U, H, K) ==
    /\ s \in Scratches(X) /\ s.ok = TRUE /\ s.tx_count = n /\ s.counts = c /\ s.undo = u
    /\ View(s, U) /\ s.history = H /\ \A p \in H : p \in K \/ p.hashX \in s.touched
    /\ bp.touched \subseteq s.touched

LEMMA SpendInputFacts ==
    ASSUME NEW X, Env(X), NEW n \in Nat, NEW c, CountsOk(c), NEW u \in Seq(Prevouts),
           NEW U \in SUBSET Created[X], NEW H, NEW K,
           NEW s, Advanced(X, s, n, c, u, U, H, K), NEW d \in U, NEW o, o.tx = d.tx, o.idx = d.idx
    PROVE  Advanced(X, SpendInput(s, o), n, c, Append(u, Touch1(d, d.tx_num)), U \ {d},
                    H \cup {Touch1(d, n)}, K)
<1> DEFINE r == SpendUtxo(s, o)
           v == Touch1(d, d.tx_num)
           q == SpendInput(s, o)
<1>1. s \in Scratches(X) /\ s.ok = TRUE /\ s.tx_count = n /\ s.counts = c /\ s.undo = u
      /\ View(s, U) /\ s.history = H /\ \A p \in H : p \in K \/ p.hashX \in s.touched
  BY DEF Advanced
<1>2. View(r, U \ {d}) /\ r.spent = v /\ SameButTables(r, s) /\ r \in Scratches(X)
  <2>1. CanSpend(X, s, U, d, o)
    BY <1>1 DEF CanSpend
  <2> QED
    BY <1>1, <2>1, SpendFacts
<1>3. X \in Blocks /\ d \in Created[X]
  BY DEF Env
<1>4. v \in Prevouts /\ v.hashX = d.hashX /\ d.hashX \in HashXs
      /\ Touch1(d, n) = [hashX |-> d.hashX, tx_num |-> n] /\ Touch1(d, n) \in Prevouts
  BY <1>3, CoinTypes DEF Touch1
<1>5. Append(u, v) \in Seq(Prevouts)
  BY <1>4, AppendProperties
<1> HIDE DEF r, v
<1>6. q = Touch([r EXCEPT !.undo = Append(r.undo, v)], d.hashX)
  BY <1>2, <1>4 DEF SpendInput, r
<1>7. r.touched = s.touched /\ r.history = H /\ r.tx_count = n /\ r.counts = c /\ r.undo = u /\ r.ok = TRUE
  BY <1>1, <1>2 DEF SameButTables
<1>8. q = [r EXCEPT !.undo = Append(u, v), !.touched = r.touched \cup {d.hashX},
                    !.history = r.history \cup {Touch1(d, n)}]
  BY <1>2, <1>4, <1>6, <1>7 DEF Touch, Scratches
<1> HIDE DEF q
<1>9. q \in Scratches(X)
  BY <1>2, <1>4, <1>5, <1>8 DEF Scratches
<1>10. q.cache = r.cache /\ q.deletes = r.deletes /\ q.ok = TRUE /\ q.tx_count = n /\ q.counts = c
       /\ q.undo = Append(u, v) /\ q.touched = s.touched \cup {d.hashX} /\ q.history = H \cup {Touch1(d, n)}
  BY <1>2, <1>7, <1>8 DEF Scratches
<1>11. View(q, U \ {d})
  BY <1>2, <1>10 DEF View
<1>12. \A p \in H \cup {Touch1(d, n)} : p \in K \/ p.hashX \in q.touched
  BY <1>1, <1>4, <1>10
<1> QED
  BY <1>9, <1>10, <1>11, <1>12 DEF Advanced, q, v

LEMMA CreateOutputFacts ==
    ASSUME NEW X, Env(X), NEW n \in Nums(X), NEW c, NEW u, NEW U \in SUBSET Created[X], NEW H, NEW K,
           NEW s, Advanced(X, s, n, c, u, U, H, K),
           NEW i \in SpendableAt(X, n), NewCoin(X, n, i) \notin U
    PROVE  Advanced(X, CreateOutput(s, i, ChainTxs[X][n + 1]), n, c, u, U \cup {NewCoin(X, n, i)},
                    H \cup {Touch1(NewCoin(X, n, i), n)}, K)
<1> DEFINE t == ChainTxs[X][n + 1]
           d == NewCoin(X, n, i)
           o == [tx |-> t, idx |-> i]
           v == [hashX |-> Outs[t][i], tx_num |-> s.tx_count]
           r == PutUtxo(s, o, v)
           q == CreateOutput(s, i, t)
<1>1. s \in Scratches(X) /\ s.ok = TRUE /\ s.tx_count = n /\ s.counts = c /\ s.undo = u
      /\ View(s, U) /\ s.history = H /\ \A p \in H : p \in K \/ p.hashX \in s.touched
  BY DEF Advanced
<1>2. X \in Blocks /\ n \in Nat
  BY TipsFacts, TxAt DEF Env
<1>3. d \in Created[X] /\ d.tx = t /\ d.idx = i /\ d.hashX = Outs[t][i] /\ d.tx_num = n /\ Outs[t][i] # NoX
  BY <1>2, TipsFacts, CreatedIs DEF NewCoin, SpendableAt
<1>4. d.hashX \in HashXs /\ Touch1(d, n) = [hashX |-> d.hashX, tx_num |-> n] /\ Touch1(d, n) \in Prevouts
  BY <1>2, <1>3, CoinTypes DEF Touch1
<1>5. o.tx = t /\ o.idx = i /\ v.hashX = Outs[t][i] /\ v.tx_num = n
  BY <1>1
<1> HIDE DEF o, v, d, t
<1>6. View(r, U \cup {d}) /\ SameButTables(r, s) /\ r \in Scratches(X)
  BY <1>1, <1>2, <1>3, <1>5, PutFacts DEF d
<1>7. q = Touch(r, d.hashX)
  BY <1>3 DEF CreateOutput, o, v
<1> HIDE DEF r
<1>8. r.touched = s.touched /\ r.history = H /\ r.tx_count = n /\ r.counts = c /\ r.undo = u /\ r.ok = TRUE
  BY <1>1, <1>6 DEF SameButTables
<1>9. q = [r EXCEPT !.touched = r.touched \cup {d.hashX}, !.history = r.history \cup {Touch1(d, n)}]
  BY <1>4, <1>6, <1>7, <1>8 DEF Touch, Scratches
<1> HIDE DEF q
<1>10. q \in Scratches(X)
  BY <1>4, <1>6, <1>9 DEF Scratches
<1>11. q.cache = r.cache /\ q.deletes = r.deletes /\ q.ok = TRUE /\ q.tx_count = n /\ q.counts = c
       /\ q.undo = u /\ q.touched = s.touched \cup {d.hashX} /\ q.history = H \cup {Touch1(d, n)}
  BY <1>6, <1>8, <1>9 DEF Scratches
<1>12. View(q, U \cup {d})
  BY <1>6, <1>11 DEF View
<1>13. \A p \in H \cup {Touch1(d, n)} : p \in K \/ p.hashX \in q.touched
  BY <1>1, <1>4, <1>11
<1> QED
  BY <1>10, <1>11, <1>12, <1>13 DEF Advanced, q, d, t

\* The coins of the first k inputs of transaction n, and of its first k outputs.
InsUp(X, n, k) == { CoinAt(X, Input(X, n, j)) : j \in 1 .. k }
OutsUp(X, n, k) == { NewCoin(X, n, j) : j \in { i \in SpendableAt(X, n) : i <= k } }

LEMMA InsUpFacts ==
    ASSUME NEW X \in Blocks, NEW n \in Nums(X)
    PROVE  /\ InsUp(X, n, 0) = {} /\ InsUp(X, n, Len(Ins[ChainTxs[X][n + 1]])) = SpentAt(X, n)
           /\ \A k \in Inputs(X, n) : LET d == CoinAt(X, Input(X, n, k)) IN
                /\ InsUp(X, n, k) = InsUp(X, n, k - 1) \cup {d}
                /\ d \notin InsUp(X, n, k - 1) /\ d \in SpentAt(X, n) /\ d \in Created[X]
                /\ d \in UnspentAt(X, n) /\ Input(X, n, k).tx = d.tx /\ Input(X, n, k).idx = d.idx
           /\ \A k \in 0 .. Len(Ins[ChainTxs[X][n + 1]]) : InsUp(X, n, k) \subseteq Created[X]
<1> DEFINE m == Len(Ins[ChainTxs[X][n + 1]])
<1>1. m \in Nat /\ Inputs(X, n) = 1 .. m
  BY TxUndoFacts
<1>2. InsUp(X, n, 0) = {}
  BY DEF InsUp
<1>3. InsUp(X, n, m) = SpentAt(X, n)
  BY <1>1 DEF InsUp, SpentAt
<1>4. ASSUME NEW k \in Inputs(X, n)
      PROVE  LET d == CoinAt(X, Input(X, n, k)) IN
             /\ InsUp(X, n, k) = InsUp(X, n, k - 1) \cup {d}
             /\ d \notin InsUp(X, n, k - 1) /\ d \in SpentAt(X, n) /\ d \in Created[X]
             /\ d \in UnspentAt(X, n) /\ Input(X, n, k).tx = d.tx /\ Input(X, n, k).idx = d.idx
  <2> DEFINE d == CoinAt(X, Input(X, n, k))
  <2>1. d \in Created[X] /\ d.tx = Input(X, n, k).tx /\ d.idx = Input(X, n, k).idx
        /\ \A j \in Inputs(X, n) : j # k => CoinAt(X, Input(X, n, j)) # d
    BY InputFacts
  <2>2. d \in SpentAt(X, n)
    BY DEF SpentAt
  <2> HIDE DEF d
  <2>3. d \in UnspentAt(X, n)
    BY <2>2, SpentFacts
  <2>4. \A j \in 1 .. k - 1 : j \in Inputs(X, n) /\ j # k
    BY <1>1
  <2>5. d \notin InsUp(X, n, k - 1)
    BY <2>1, <2>4 DEF InsUp
  <2>6. InsUp(X, n, k) = InsUp(X, n, k - 1) \cup {d}
    <3>1. \A j : j \in 1 .. k <=> j \in 1 .. k - 1 \/ j = k
      BY <1>1
    <3> QED
      BY <3>1 DEF InsUp, d
  <2> QED
    BY <2>1, <2>2, <2>3, <2>5, <2>6 DEF d
<1>5. \A k \in 0 .. m : InsUp(X, n, k) \subseteq Created[X]
  <2> SUFFICES ASSUME NEW k \in 0 .. m, NEW j \in 1 .. k PROVE CoinAt(X, Input(X, n, j)) \in Created[X]
    BY DEF InsUp
  <2>1. j \in Inputs(X, n)
    BY <1>1
  <2> QED
    BY <2>1, InputFacts
<1> QED
  BY <1>2, <1>3, <1>4, <1>5

LEMMA OutsUpFacts ==
    ASSUME NEW X \in Blocks, NEW n \in Nums(X)
    PROVE  LET t == ChainTxs[X][n + 1] IN
           /\ OutsUp(X, n, 0) = {} /\ OutsUp(X, n, Len(Outs[t])) = OutputsAt(X, n)
           /\ Len(Outs[t]) \in Nat /\ DOMAIN Outs[t] = 1 .. Len(Outs[t])
           /\ Len(Indices(t)) = Len(Outs[t]) /\ \A k \in 1 .. Len(Outs[t]) : Indices(t)[k] = k
           /\ \A k \in 0 .. Len(Outs[t]) : OutsUp(X, n, k) \subseteq Created[X]
           /\ \A k \in 1 .. Len(Outs[t]) :
                /\ k \notin SpendableAt(X, n) => OutsUp(X, n, k) = OutsUp(X, n, k - 1) /\ Outs[t][k] = NoX
                /\ k \in SpendableAt(X, n) =>
                     /\ OutsUp(X, n, k) = OutsUp(X, n, k - 1) \cup {NewCoin(X, n, k)}
                     /\ NewCoin(X, n, k) \notin OutsUp(X, n, k - 1) /\ NewCoin(X, n, k) \notin UnspentAt(X, n)
                     /\ NewCoin(X, n, k) \in Created[X]
<1> DEFINE t == ChainTxs[X][n + 1]
           m == Len(Outs[t])
<1>1. X \in Tips /\ m \in Nat /\ DOMAIN Outs[t] = 1 .. m /\ n \in Nat
  BY TipsFacts, TxAt
<1>2. OutsUp(X, n, 0) = {}
  BY <1>1 DEF OutsUp, SpendableAt
<1>3. Len(Indices(t)) = m /\ \A k \in 1 .. m : Indices(t)[k] = k
  BY <1>1 DEF Indices
<1>4. \A i \in SpendableAt(X, n) : i \in 1 .. m /\ NewCoin(X, n, i) \in Created[X]
                                   /\ NewCoin(X, n, i).idx = i /\ NewCoin(X, n, i).tx_num = n
  BY <1>1, CreatedIs DEF SpendableAt, NewCoin
<1>5. OutsUp(X, n, m) = OutputsAt(X, n)
  <2>1. \A c \in Created[X] : c.idx \in SpendableAt(X, c.tx_num) /\ c = NewCoin(X, c.tx_num, c.idx)
    BY <1>1, CreatedIs
  <2> QED
    BY <1>1, <1>4, <2>1 DEF OutsUp, OutputsAt
<1>6. \A k : OutsUp(X, n, k) \subseteq Created[X]
  BY <1>4 DEF OutsUp
<1>7. ASSUME NEW k \in 1 .. m, k \notin SpendableAt(X, n)
      PROVE  OutsUp(X, n, k) = OutsUp(X, n, k - 1) /\ Outs[t][k] = NoX
  <2>1. \A i \in SpendableAt(X, n) : i <= k <=> i <= k - 1
    BY <1>1, <1>4, <1>7
  <2>2. Outs[t][k] = NoX
    BY <1>1, <1>7 DEF SpendableAt
  <2> QED
    BY <2>1, <2>2 DEF OutsUp
<1>8. ASSUME NEW k \in 1 .. m, k \in SpendableAt(X, n)
      PROVE  /\ OutsUp(X, n, k) = OutsUp(X, n, k - 1) \cup {NewCoin(X, n, k)}
             /\ NewCoin(X, n, k) \notin OutsUp(X, n, k - 1) /\ NewCoin(X, n, k) \notin UnspentAt(X, n)
             /\ NewCoin(X, n, k) \in Created[X]
  <2>1. \A i \in SpendableAt(X, n) : i <= k <=> (i <= k - 1 \/ i = k)
    BY <1>1, <1>4
  <2>2. OutsUp(X, n, k) = OutsUp(X, n, k - 1) \cup {NewCoin(X, n, k)}
    BY <1>1, <1>8, <2>1 DEF OutsUp
  <2>3. \A i \in SpendableAt(X, n) : i <= k - 1 => NewCoin(X, n, i) # NewCoin(X, n, k)
    <3>1. \A i \in SpendableAt(X, n) : i <= k - 1 => i # k
      BY <1>1, <1>4
    <3> QED
      BY <1>4, <1>8, <3>1
  <2>4. NewCoin(X, n, k) \notin OutsUp(X, n, k - 1)
    BY <2>3 DEF OutsUp
  <2>5. NewCoin(X, n, k) \notin UnspentAt(X, n)
    BY <1>1, <1>4, <1>8 DEF UnspentAt
  <2> QED
    BY <1>4, <1>8, <2>2, <2>4, <2>5
<1> QED
  BY <1>1, <1>2, <1>3, <1>5, <1>6, <1>7, <1>8

LEMMA SpendAll ==
    ASSUME NEW X, Env(X), NEW n \in Nums(X), NEW c, CountsOk(c), NEW u \in Seq(Prevouts), NEW K,
           NEW s, Advanced(X, s, n, c, u, UnspentAt(X, n), TouchesAt(X, n), K)
    PROVE  Advanced(X, Folded("spend", ChainTxs[X][n + 1], s, Ins[ChainTxs[X][n + 1]]), n, c,
                    u \o TxUndo(X, n), UnspentAt(X, n) \ SpentAt(X, n),
                    TouchesAt(X, n) \cup { Touch1(d, n) : d \in SpentAt(X, n) }, K)
<1> DEFINE t == ChainTxs[X][n + 1]
           m == Len(Ins[t])
           z == TxUndo(X, n)
           UA(i) == UnspentAt(X, n) \ InsUp(X, n, i)
           uA(i) == u \o SubSeq(z, 1, i)
           HA(i) == TouchesAt(X, n) \cup { Touch1(d, n) : d \in InsUp(X, n, i) }
           G == [i \in 0 .. m |-> { r \in Scratches(X) : Advanced(X, r, n, c, uA(i), UA(i), HA(i), K) }]
<1>1. X \in Blocks /\ n \in Nat
  BY TipsFacts, TxAt DEF Env
<1>2. /\ m \in Nat /\ Inputs(X, n) = 1 .. m /\ z \in Seq(Prevouts) /\ Len(z) = m
      /\ \A i \in 1 .. m : z[i] = Touch1(CoinAt(X, Input(X, n, i)), CoinAt(X, Input(X, n, i)).tx_num)
  BY <1>1, TxUndoFacts
<1>3. UA(0) = UnspentAt(X, n) /\ UA(m) = UnspentAt(X, n) \ SpentAt(X, n)
      /\ HA(0) = TouchesAt(X, n) /\ HA(m) = TouchesAt(X, n) \cup { Touch1(d, n) : d \in SpentAt(X, n) }
  BY <1>1, InsUpFacts
<1>4. uA(0) = u /\ uA(m) = u \o z
      /\ \A i \in 1 .. m : uA(i - 1) \in Seq(Prevouts) /\ uA(i) = Append(uA(i - 1), z[i])
  <2> HIDE DEF z, m
  <2>1. TwoSeqs(Prevouts, u, z)
    BY <1>2 DEF TwoSeqs
  <2>2. /\ u \o SubSeq(z, 1, 0) = u /\ u \o SubSeq(z, 1, Len(z)) = u \o z
        /\ \A i \in 1 .. Len(z) :
             u \o SubSeq(z, 1, i - 1) \in Seq(Prevouts)
             /\ u \o SubSeq(z, 1, i) = Append(u \o SubSeq(z, 1, i - 1), z[i])
    BY ONLY SMTT(20), <2>1, FirstOnes
  <2> QED
    BY <1>2, <2>2
<1>5. ASSUME NEW i \in 1 .. m
      PROVE  LET d == CoinAt(X, Input(X, n, i)) IN
             /\ d \in UA(i - 1) /\ UA(i) = UA(i - 1) \ {d} /\ UA(i - 1) \subseteq Created[X]
             /\ HA(i) = HA(i - 1) \cup {Touch1(d, n)}
             /\ Input(X, n, i).tx = d.tx /\ Input(X, n, i).idx = d.idx
  <2> DEFINE d == CoinAt(X, Input(X, n, i))
  <2>1. /\ InsUp(X, n, i) = InsUp(X, n, i - 1) \cup {d} /\ d \notin InsUp(X, n, i - 1)
        /\ d \in UnspentAt(X, n) /\ Input(X, n, i).tx = d.tx /\ Input(X, n, i).idx = d.idx
    BY <1>1, <1>2, InsUpFacts
  <2>2. UnspentAt(X, n) \subseteq Created[X]
    BY DEF UnspentAt
  <2> HIDE DEF d
  <2>3. HA(i) = HA(i - 1) \cup {Touch1(d, n)}
    BY <2>1
  <2> QED
    BY <2>1, <2>2, <2>3 DEF d
<1> HIDE DEF UA, uA, HA, z
<1>6. ASSUME NEW i \in 1 .. m, NEW r \in G[i - 1]
      PROVE  Op("spend", t, r, Ins[t][i]) \in G[i]
  <2> DEFINE d == CoinAt(X, Input(X, n, i))
             o == Input(X, n, i)
  <2>1. i - 1 \in 0 .. m /\ i \in 0 .. m
    BY <1>2
  <2>2. Advanced(X, r, n, c, uA(i - 1), UA(i - 1), HA(i - 1), K)
    BY <1>6, <2>1
  <2>3. d \in UA(i - 1) /\ UA(i) = UA(i - 1) \ {d} /\ UA(i - 1) \in SUBSET Created[X]
        /\ HA(i) = HA(i - 1) \cup {Touch1(d, n)} /\ o.tx = d.tx /\ o.idx = d.idx
    BY <1>5
  <2>4. uA(i - 1) \in Seq(Prevouts) /\ uA(i) = Append(uA(i - 1), Touch1(d, d.tx_num))
    BY <1>2, <1>4
  <2> HIDE DEF d, o, m, t
  <2>5. Advanced(X, SpendInput(r, o), n, c, uA(i), UA(i), HA(i), K)
    <3>1. Env(X) /\ CountsOk(c) /\ n \in Nat
      BY <1>1
    <3>2. Advanced(X, SpendInput(r, o), n, c, Append(uA(i - 1), Touch1(d, d.tx_num)), UA(i - 1) \ {d},
                   HA(i - 1) \cup {Touch1(d, n)}, K)
      BY ONLY <2>2, <2>3, <2>4, <3>1, SpendInputFacts
    <3> QED
      BY <2>3, <2>4, <3>2
  <2>6. SpendInput(r, o) \in Scratches(X)
    BY <2>5 DEF Advanced
  <2>7. Op("spend", t, r, Ins[t][i]) = SpendInput(r, o)
    BY DEF Op, o, Input, t
  <2> QED
    BY <2>1, <2>5, <2>6, <2>7
<1>7. s \in G[0]
  BY <1>2, <1>3, <1>4 DEF Advanced
<1> HIDE DEF G, t
<1>8. Runs("spend", t, s, Ins[t], G)
  BY <1>2, <1>6, <1>7 DEF Runs
<1>9. Folded("spend", t, s, Ins[t]) \in G[m]
  BY <1>8, FoldFacts
<1>10. Advanced(X, Folded("spend", t, s, Ins[t]), n, c, uA(m), UA(m), HA(m), K)
  <2>1. m \in 0 .. m
    BY <1>2
  <2> QED
    BY <1>9, <2>1 DEF G
<1> QED
  BY <1>3, <1>4, <1>10 DEF t, z

LEMMA CreateAll ==
    ASSUME NEW X, Env(X), NEW n \in Nums(X), NEW c, NEW u, NEW K, NEW U \in SUBSET UnspentAt(X, n), NEW H,
           NEW s, Advanced(X, s, n, c, u, U, H, K)
    PROVE  Advanced(X, Folded("create", ChainTxs[X][n + 1], s, Indices(ChainTxs[X][n + 1])), n, c,
                    u, U \cup OutputsAt(X, n), H \cup { Touch1(d, n) : d \in OutputsAt(X, n) }, K)
<1> DEFINE t == ChainTxs[X][n + 1]
           m == Len(Outs[t])
           UA(i) == U \cup OutsUp(X, n, i)
           HA(i) == H \cup { Touch1(d, n) : d \in OutsUp(X, n, i) }
           G == [i \in 0 .. m |-> { r \in Scratches(X) : Advanced(X, r, n, c, u, UA(i), HA(i), K) }]
<1>1. X \in Blocks /\ n \in Nat
  BY TipsFacts, TxAt DEF Env
<1>2. m \in Nat /\ Len(Indices(t)) = m /\ \A k \in 1 .. m : Indices(t)[k] = k
  BY <1>1, OutsUpFacts
<1>3. UA(0) = U /\ UA(m) = U \cup OutputsAt(X, n)
      /\ HA(0) = H /\ HA(m) = H \cup { Touch1(d, n) : d \in OutputsAt(X, n) }
  BY <1>1, OutsUpFacts
<1>4. ASSUME NEW i \in 1 .. m
      PROVE  /\ i \notin SpendableAt(X, n) => UA(i) = UA(i - 1) /\ HA(i) = HA(i - 1) /\ Outs[t][i] = NoX
             /\ i \in SpendableAt(X, n) =>
                  /\ UA(i) = UA(i - 1) \cup {NewCoin(X, n, i)} /\ NewCoin(X, n, i) \notin UA(i - 1)
                  /\ HA(i) = HA(i - 1) \cup {Touch1(NewCoin(X, n, i), n)} /\ UA(i - 1) \in SUBSET Created[X]
  <2>1. CASE i \notin SpendableAt(X, n)
    BY <1>1, <2>1, OutsUpFacts
  <2>2. CASE i \in SpendableAt(X, n)
    <3> DEFINE d == NewCoin(X, n, i)
    <3>1. OutsUp(X, n, i) = OutsUp(X, n, i - 1) \cup {d} /\ d \notin OutsUp(X, n, i - 1)
          /\ d \notin UnspentAt(X, n)
      BY <1>1, <2>2, OutsUpFacts
    <3>2. OutsUp(X, n, i - 1) \subseteq Created[X]
      <4>1. i - 1 \in 0 .. m
        BY <1>2
      <4> QED
        BY <1>1, <4>1, OutsUpFacts
    <3>3. UnspentAt(X, n) \subseteq Created[X]
      BY DEF UnspentAt
    <3> HIDE DEF d
    <3>4. HA(i) = HA(i - 1) \cup {Touch1(d, n)}
      BY <3>1
    <3> QED
      BY <2>2, <3>1, <3>2, <3>3, <3>4 DEF d
  <2> QED
    BY <2>1, <2>2
<1> HIDE DEF UA, HA
<1>5. ASSUME NEW i \in 1 .. m, NEW r \in G[i - 1]
      PROVE  Op("create", t, r, Indices(t)[i]) \in G[i]
  <2>1. i - 1 \in 0 .. m /\ i \in 0 .. m
    BY <1>2
  <2>2. Advanced(X, r, n, c, u, UA(i - 1), HA(i - 1), K) /\ r \in Scratches(X)
    BY <1>5, <2>1
  <2>3. Op("create", t, r, Indices(t)[i]) = CreateOutput(r, i, t)
    BY <1>2 DEF Op
  <2>4. CASE i \notin SpendableAt(X, n)
    <3>1. CreateOutput(r, i, t) = r
      BY <1>4, <2>4 DEF CreateOutput
    <3> QED
      BY <1>4, <2>1, <2>2, <2>3, <2>4, <3>1
  <2>5. CASE i \in SpendableAt(X, n)
    <3>1. UA(i) = UA(i - 1) \cup {NewCoin(X, n, i)} /\ NewCoin(X, n, i) \notin UA(i - 1)
          /\ HA(i) = HA(i - 1) \cup {Touch1(NewCoin(X, n, i), n)} /\ UA(i - 1) \in SUBSET Created[X]
      BY <1>4, <2>5
    <3>2. Advanced(X, CreateOutput(r, i, t), n, c, u, UA(i), HA(i), K)
      <4>1. Advanced(X, CreateOutput(r, i, ChainTxs[X][n + 1]), n, c, u, UA(i - 1) \cup {NewCoin(X, n, i)},
                     HA(i - 1) \cup {Touch1(NewCoin(X, n, i), n)}, K)
        BY ONLY <2>2, <2>5, <3>1, CreateOutputFacts, Env(X), n \in Nums(X)
      <4> QED
        BY <3>1, <4>1
    <3>3. CreateOutput(r, i, t) \in Scratches(X)
      BY <3>2 DEF Advanced
    <3> QED
      BY <2>1, <2>3, <3>2, <3>3
  <2> QED
    BY <2>4, <2>5
<1>6. s \in G[0]
  BY <1>2, <1>3 DEF Advanced
<1> HIDE DEF G, t
<1>7. Runs("create", t, s, Indices(t), G)
  BY <1>2, <1>5, <1>6 DEF Runs
<1>8. Folded("create", t, s, Indices(t)) \in G[m]
  BY <1>2, <1>7, FoldFacts
<1>9. Advanced(X, Folded("create", t, s, Indices(t)), n, c, u, UA(m), HA(m), K)
  <2>1. m \in 0 .. m
    BY <1>2
  <2> QED
    BY <1>8, <2>1 DEF G
<1> QED
  BY <1>3, <1>9 DEF t

LEMMA AdvanceTxFacts ==
    ASSUME NEW X, Env(X), NEW n \in Nums(X), NEW c, CountsOk(c), NEW u \in Seq(Prevouts), NEW K,
           NEW s, Advanced(X, s, n, c, u, UnspentAt(X, n), TouchesAt(X, n), K)
    PROVE  Advanced(X, AdvanceTx(s, ChainTxs[X][n + 1]), n + 1, c, u \o TxUndo(X, n),
                    UnspentAt(X, n + 1), TouchesAt(X, n + 1), K)
<1> DEFINE t == ChainTxs[X][n + 1]
           a == Folded("spend", t, s, Ins[t])
           r == Folded("create", t, a, Indices(t))
           u1 == u \o TxUndo(X, n)
           U1 == UnspentAt(X, n) \ SpentAt(X, n)
           H1 == TouchesAt(X, n) \cup { Touch1(d, n) : d \in SpentAt(X, n) }
           q == AdvanceTx(s, t)
<1>1. X \in Blocks /\ n \in Nat
  BY TipsFacts, TxAt DEF Env
<1>2. Advanced(X, a, n, c, u1, U1, H1, K)
  BY SpendAll
<1>3. U1 \in SUBSET UnspentAt(X, n)
  OBVIOUS
<1> HIDE DEF a, u1, U1, H1
<1>4. Advanced(X, r, n, c, u1, U1 \cup OutputsAt(X, n), H1 \cup { Touch1(d, n) : d \in OutputsAt(X, n) }, K)
  BY <1>2, <1>3, CreateAll
<1>5. UnspentAt(X, n + 1) = U1 \cup OutputsAt(X, n)
  BY <1>1, UnspentStep DEF U1
<1>6. TouchesAt(X, n + 1) = H1 \cup { Touch1(d, n) : d \in OutputsAt(X, n) }
  BY <1>1, TouchesStep DEF H1
<1>7. q = [r EXCEPT !.tx_count = @ + 1]
  BY AdvanceTxIs DEF a
<1> HIDE DEF r, q
<1>8. /\ q \in Scratches(X) /\ q.ok = TRUE /\ q.tx_count = n + 1 /\ q.counts = c /\ q.undo = u1
      /\ q.history = r.history /\ q.touched = r.touched /\ q.cache = r.cache /\ q.deletes = r.deletes
  <2>1. r \in Scratches(X) /\ r.ok = TRUE /\ r.tx_count = n /\ r.counts = c /\ r.undo = u1
    BY <1>4 DEF Advanced
  <2>2. n + 1 \in Int
    BY <1>1
  <2> QED
    BY ONLY <1>7, <2>1, <2>2 DEF Scratches
<1>9. Advanced(X, q, n + 1, c, u1, U1 \cup OutputsAt(X, n), H1 \cup { Touch1(d, n) : d \in OutputsAt(X, n) }, K)
  BY <1>4, <1>8 DEF Advanced, View
<1> QED
  BY <1>5, <1>6, <1>9 DEF q, u1, t

\* advance_txs on the transactions of a block.
LEMMA AdvanceFacts ==
    ASSUME NEW b, Env(b), NEW c, CountsOk(c), NEW K, NEW s,
           Advanced(b, s, TxCount(Prev[b]), c, <<>>, Unspent[Prev[b]], Touches[Prev[b]], K)
    PROVE  Advanced(b, Fold(AdvanceTx, s, Txs[b]), TxCount(b), c, SpentOutputs[b], Unspent[b], Touches[b], K)
<1> DEFINE m == Len(Txs[b])
           p == TxCount(Prev[b])
           At(r, k) == Advanced(b, r, p + k, c, UndoUpTo(b, k), UnspentAt(b, p + k), TouchesAt(b, p + k), K)
           G == [k \in 0 .. m |-> { r \in Scratches(b) : At(r, k) }]
<1>1. b \in Blocks /\ b \in Tips /\ Prev[b] \in Tips /\ m \in Nat /\ p \in Nat /\ TxCount(b) = p + m
  BY ParentFacts, HeightFacts DEF Env
<1>2. UnspentAt(b, p) = Unspent[Prev[b]] /\ TouchesAt(b, p) = Touches[Prev[b]]
  BY <1>1, ExtendsParent, CoinsOfAncestor
<1>3. UnspentAt(b, p + m) = Unspent[b] /\ TouchesAt(b, p + m) = Touches[b]
  BY <1>1, StartAndEnd
<1>4. UndoUpTo(b, 0) = <<>> /\ UndoUpTo(b, m) = SpentOutputs[b]
      /\ \A k \in 0 .. m : UndoUpTo(b, k) \in Seq(Prevouts)
  BY <1>1, UndoFacts
<1>5. p + 0 = p
  BY <1>1
<1>6. At(s, 0)
  BY <1>2, <1>4, <1>5
<1>7. ASSUME NEW i \in 1 .. m, NEW r, At(r, i - 1)
      PROVE  At(AdvanceTx(r, Txs[b][i]), i)
  <2> DEFINE k == i - 1
             n == p + k
  <2>1. k \in 0 .. m - 1 /\ k \in 0 .. m /\ k + 1 = i /\ n + 1 = p + i
    BY <1>1
  <2> HIDE DEF k
  <2>2. n \in Nums(b) /\ ChainTxs[b][n + 1] = Txs[b][k + 1]
        /\ UndoUpTo(b, k + 1) = UndoUpTo(b, k) \o TxUndo(b, n)
    BY <1>1, <2>1, UndoStep
  <2>3. UndoUpTo(b, k) \in Seq(Prevouts)
    BY <1>4, <2>1
  <2>4. Advanced(b, r, n, c, UndoUpTo(b, k), UnspentAt(b, n), TouchesAt(b, n), K)
    BY <1>7 DEF k
  <2> HIDE DEF n, p, m
  <2>5. Advanced(b, AdvanceTx(r, ChainTxs[b][n + 1]), n + 1, c, UndoUpTo(b, k) \o TxUndo(b, n),
                 UnspentAt(b, n + 1), TouchesAt(b, n + 1), K)
    BY <2>2, <2>3, <2>4, AdvanceTxFacts
  <2>6. Advanced(b, AdvanceTx(r, Txs[b][i]), n + 1, c, UndoUpTo(b, i), UnspentAt(b, n + 1), TouchesAt(b, n + 1), K)
    BY <2>1, <2>2, <2>5
  <2> QED
    BY <2>1, <2>6 DEF p
<1> HIDE DEF p
<1>8. \A k \in 0 .. m : \A r : At(r, k) => r \in G[k]
  BY DEF Advanced
<1>9. \A k \in 0 .. m : \A r \in G[k] : At(r, k)
  OBVIOUS
<1> HIDE DEF At, G
<1>10. Runs("advance", 0, s, Txs[b], G)
  <2>1. s \in G[0]
    BY <1>1, <1>6, <1>8
  <2>2. ASSUME NEW i \in 1 .. m, NEW r \in G[i - 1]
        PROVE  Op("advance", 0, r, Txs[b][i]) \in G[i]
    <3>1. i - 1 \in 0 .. m /\ i \in 0 .. m
      BY <1>1
    <3>2. At(AdvanceTx(r, Txs[b][i]), i)
      BY <1>7, <1>9, <3>1
    <3>3. Op("advance", 0, r, Txs[b][i]) = AdvanceTx(r, Txs[b][i])
      BY DEF Op
    <3> QED
      BY <1>8, <3>1, <3>2, <3>3
  <2> QED
    BY <1>1, <2>1, <2>2 DEF Runs
<1>11. At(Folded("advance", 0, s, Txs[b]), m)
  <2>1. m \in 0 .. m
    BY <1>1
  <2> QED
    BY <1>9, <1>10, <2>1, FoldFacts
<1> QED
  BY <1>1, <1>3, <1>4, <1>11, BlockFolds DEF At

-----------------------------------------------------------------------------
(* backup_txs.  X is the committed block.                                   *)

\* A scratch state while a block is undone, begun at z: the coins are U, u is left of the
\* undo list, and the addresses T are reported.
Undoing(X, s, z, u, U, T) ==
    /\ s \in Backups(X) /\ s.ok = TRUE /\ s.undo = u /\ View(s, U) /\ T \subseteq s.touched
    /\ SameBlock(s, z) /\ s.tx_count = z.tx_count /\ s.counts = z.counts /\ z.touched \subseteq s.touched

LEMMA UnspendOutputFacts ==
    ASSUME NEW X, Env(X), NEW n \in Nums(X), NEW z, CountsOk(z.counts), NEW u, NEW T,
           NEW U \in SUBSET Created[X], NEW s, Undoing(X, s, z, u, U, T),
           NEW i \in SpendableAt(X, n), NewCoin(X, n, i) \in U
    PROVE  Undoing(X, UnspendOutput(s, i, ChainTxs[X][n + 1]), z, u, U \ {NewCoin(X, n, i)},
                   T \cup {NewCoin(X, n, i).hashX})
<1> DEFINE t == ChainTxs[X][n + 1]
           d == NewCoin(X, n, i)
           o == [tx |-> t, idx |-> i]
           r == SpendUtxo(s, o)
           q == UnspendOutput(s, i, t)
<1>1. /\ s \in Backups(X) /\ s.ok = TRUE /\ s.undo = u /\ View(s, U) /\ T \subseteq s.touched
      /\ SameBlock(s, z) /\ s.tx_count = z.tx_count /\ s.counts = z.counts /\ z.touched \subseteq s.touched
  BY DEF Undoing
<1>2. X \in Blocks /\ d \in Created[X] /\ o.tx = d.tx /\ o.idx = d.idx /\ Outs[t][i] # NoX
  BY DEF Env, NewCoin, SpendableAt
<1>3. d.hashX \in HashXs
  BY <1>2, CoinTypes
<1>4. Touch1(d, d.tx_num).hashX = d.hashX
  BY DEF Touch1
<1> HIDE DEF d, o
<1>5. CanSpend(X, s, U, d, o)
  BY <1>1, <1>2 DEF CanSpend, d
<1>6. View(r, U \ {d}) /\ r.spent = Touch1(d, d.tx_num) /\ SameButTables(r, s)
      /\ r \in Backups(X) /\ SameBlock(r, s)
  <2>1. s \in Backups(X)
    BY <1>1
  <2> QED
    BY <1>5, <2>1, SpendFacts
<1>7. q = [r EXCEPT !.touched = @ \cup {r.spent.hashX}]
  BY <1>2 DEF UnspendOutput, o
<1> HIDE DEF q, r
<1>8. q = [r EXCEPT !.touched = r.touched \cup {d.hashX}]
  BY <1>4, <1>6, <1>7
<1>9. /\ q \in Backups(X) /\ q.ok = r.ok /\ q.undo = r.undo /\ q.cache = r.cache /\ q.deletes = r.deletes
      /\ q.touched = r.touched \cup {d.hashX} /\ q.height = r.height /\ q.tip = r.tip
      /\ q.tx_count = r.tx_count /\ q.counts = r.counts
  BY ONLY <1>3, <1>6, <1>8 DEF Backups
<1>10. View(q, U \ {d})
  BY <1>6, <1>9 DEF View
<1>11. q.ok = TRUE /\ q.undo = u /\ q.touched = s.touched \cup {d.hashX}
       /\ q.tx_count = s.tx_count /\ q.counts = s.counts
  BY <1>1, <1>6, <1>9 DEF SameButTables
<1> QED
  BY <1>1, <1>6, <1>9, <1>10, <1>11 DEF Undoing, SameBlock, q, d, t

LEMMA RestoreInputFacts ==
    ASSUME NEW X, Env(X), NEW z, NEW u \in Seq(Prevouts), NEW T,
           NEW U \in SUBSET Created[X], NEW d \in Created[X], d \notin U,
           NEW s, Undoing(X, s, z, Append(u, Touch1(d, d.tx_num)), U, T),
           NEW o, o.tx = d.tx, o.idx = d.idx
    PROVE  Undoing(X, RestoreInput(s, o), z, u, U \cup {d}, T \cup {d.hashX})
<1> DEFINE v == Touch1(d, d.tx_num)
           r == PutUtxo(s, o, v)
           q == RestoreInput(s, o)
<1>1. /\ s \in Backups(X) /\ s.ok = TRUE /\ s.undo = Append(u, v) /\ View(s, U) /\ T \subseteq s.touched
      /\ SameBlock(s, z) /\ s.tx_count = z.tx_count /\ s.counts = z.counts /\ z.touched \subseteq s.touched
  BY DEF Undoing
<1>2. X \in Blocks
  BY DEF Env
<1>3. v \in Prevouts /\ d.hashX \in HashXs /\ v.hashX = d.hashX /\ v.tx_num = d.tx_num
  BY <1>2, CoinTypes DEF Touch1
<1> HIDE DEF v
<1>4. EndsWith(Prevouts, u, v)
  BY <1>3 DEF EndsWith
<1>5. s.undo # <<>> /\ Last(s.undo) = v /\ Front(s.undo) = u
  BY <1>1, <1>4, FrontAndLast
<1>6. View(r, U \cup {d}) /\ SameButTables(r, s)
      /\ r \in Backups(X) /\ SameBlock(r, s)
  BY <1>1, <1>2, <1>3, PutFacts
<1>7. q = [PutUtxo(s, o, Last(s.undo)) EXCEPT !.undo = Front(@), !.touched = @ \cup {Last(s.undo).hashX}]
  BY <1>5 DEF RestoreInput
<1>8. q = [r EXCEPT !.undo = Front(r.undo), !.touched = r.touched \cup {v.hashX}]
  BY <1>5, <1>6, <1>7 DEF Backups
<1>9. r.undo = s.undo
  BY <1>6 DEF SameButTables
<1>10. q = [r EXCEPT !.undo = u, !.touched = r.touched \cup {d.hashX}]
  BY <1>3, <1>5, <1>8, <1>9
<1> HIDE DEF q, r
<1>11. /\ q \in Backups(X) /\ q.ok = r.ok /\ q.undo = u /\ q.cache = r.cache /\ q.deletes = r.deletes
       /\ q.touched = r.touched \cup {d.hashX} /\ q.height = r.height /\ q.tip = r.tip
       /\ q.tx_count = r.tx_count /\ q.counts = r.counts
  BY ONLY <1>3, <1>6, <1>10, u \in Seq(Prevouts) DEF Backups
<1>12. View(q, U \cup {d})
  BY <1>6, <1>11 DEF View
<1>13. q.ok = TRUE /\ q.touched = s.touched \cup {d.hashX}
       /\ q.tx_count = s.tx_count /\ q.counts = s.counts
  BY <1>1, <1>6, <1>11 DEF SameButTables
<1> QED
  BY <1>1, <1>6, <1>11, <1>12, <1>13 DEF Undoing, SameBlock, q

LEMMA UnspendAll ==
    ASSUME NEW X, Env(X), NEW n \in Nums(X), NEW z, CountsOk(z.counts), NEW u, NEW T,
           NEW s, Undoing(X, s, z, u, UnspentAt(X, n + 1), T)
    PROVE  Undoing(X, Folded("unspend", ChainTxs[X][n + 1], s, Indices(ChainTxs[X][n + 1])), z, u,
                   UnspentAt(X, n) \ SpentAt(X, n), T \cup { d.hashX : d \in OutputsAt(X, n) })
<1> DEFINE t == ChainTxs[X][n + 1]
           m == Len(Outs[t])
           UA(i) == UnspentAt(X, n + 1) \ OutsUp(X, n, i)
           TA(i) == T \cup { d.hashX : d \in OutsUp(X, n, i) }
           G == [i \in 0 .. m |-> { r \in Backups(X) : Undoing(X, r, z, u, UA(i), TA(i)) }]
<1>1. X \in Blocks /\ n \in Nat
  BY TipsFacts, TxAt DEF Env
<1>2. m \in Nat /\ Len(Indices(t)) = m /\ \A k \in 1 .. m : Indices(t)[k] = k
  BY <1>1, OutsUpFacts
<1>3. /\ UA(0) = UnspentAt(X, n + 1) /\ UA(m) = UnspentAt(X, n) \ SpentAt(X, n)
      /\ TA(0) = T /\ TA(m) = T \cup { d.hashX : d \in OutputsAt(X, n) }
  <2>1. OutsUp(X, n, 0) = {} /\ OutsUp(X, n, m) = OutputsAt(X, n)
    BY <1>1, OutsUpFacts
  <2>2. UnspentAt(X, n + 1) = (UnspentAt(X, n) \ SpentAt(X, n)) \cup OutputsAt(X, n)
        /\ UnspentAt(X, n) \cap OutputsAt(X, n) = {}
    BY <1>1, UnspentStep
  <2> QED
    BY <2>1, <2>2
<1>4. ASSUME NEW i \in 1 .. m
      PROVE  /\ i \notin SpendableAt(X, n) => UA(i) = UA(i - 1) /\ TA(i) = TA(i - 1) /\ Outs[t][i] = NoX
             /\ i \in SpendableAt(X, n) =>
                  /\ UA(i) = UA(i - 1) \ {NewCoin(X, n, i)} /\ NewCoin(X, n, i) \in UA(i - 1)
                  /\ TA(i) = TA(i - 1) \cup {NewCoin(X, n, i).hashX} /\ UA(i - 1) \in SUBSET Created[X]
  <2>1. CASE i \notin SpendableAt(X, n)
    BY <1>1, <2>1, OutsUpFacts
  <2>2. CASE i \in SpendableAt(X, n)
    <3> DEFINE d == NewCoin(X, n, i)
    <3>1. OutsUp(X, n, i) = OutsUp(X, n, i - 1) \cup {d} /\ d \notin OutsUp(X, n, i - 1)
      BY <1>1, <2>2, OutsUpFacts
    <3>2. d \in UnspentAt(X, n + 1)
      <4>1. d \in OutsUp(X, n, m)
        BY <1>2, <2>2 DEF OutsUp
      <4>2. OutsUp(X, n, m) = OutputsAt(X, n)
        BY <1>1, OutsUpFacts
      <4>3. UnspentAt(X, n + 1) = (UnspentAt(X, n) \ SpentAt(X, n)) \cup OutputsAt(X, n)
        BY <1>1, UnspentStep
      <4> QED
        BY <4>1, <4>2, <4>3
    <3>3. UnspentAt(X, n + 1) \subseteq Created[X]
      BY DEF UnspentAt
    <3> HIDE DEF d
    <3>4. TA(i) = TA(i - 1) \cup {d.hashX}
      BY <3>1
    <3> QED
      BY <2>2, <3>1, <3>2, <3>3, <3>4 DEF d
  <2> QED
    BY <2>1, <2>2
<1> HIDE DEF UA, TA
<1>5. ASSUME NEW i \in 1 .. m, NEW r \in G[i - 1]
      PROVE  Op("unspend", t, r, Indices(t)[i]) \in G[i]
  <2>1. i - 1 \in 0 .. m /\ i \in 0 .. m
    BY <1>2
  <2>2. Undoing(X, r, z, u, UA(i - 1), TA(i - 1)) /\ r \in Backups(X)
    BY <1>5, <2>1
  <2>3. Op("unspend", t, r, Indices(t)[i]) = UnspendOutput(r, i, t)
    BY <1>2 DEF Op
  <2>4. CASE i \notin SpendableAt(X, n)
    <3>1. UnspendOutput(r, i, t) = r
      BY <1>4, <2>4 DEF UnspendOutput
    <3> QED
      BY <1>4, <2>1, <2>2, <2>3, <2>4, <3>1
  <2>5. CASE i \in SpendableAt(X, n)
    <3>1. UA(i) = UA(i - 1) \ {NewCoin(X, n, i)} /\ NewCoin(X, n, i) \in UA(i - 1)
          /\ TA(i) = TA(i - 1) \cup {NewCoin(X, n, i).hashX} /\ UA(i - 1) \in SUBSET Created[X]
      BY <1>4, <2>5
    <3>2. Undoing(X, UnspendOutput(r, i, t), z, u, UA(i), TA(i))
      <4>1. Undoing(X, UnspendOutput(r, i, ChainTxs[X][n + 1]), z, u, UA(i - 1) \ {NewCoin(X, n, i)},
                    TA(i - 1) \cup {NewCoin(X, n, i).hashX})
        BY ONLY <2>2, <2>5, <3>1, UnspendOutputFacts, Env(X), CountsOk(z.counts), n \in Nums(X)
      <4> QED
        BY <3>1, <4>1
    <3>3. UnspendOutput(r, i, t) \in Backups(X)
      BY <3>2 DEF Undoing
    <3> QED
      BY <2>1, <2>3, <3>2, <3>3
  <2> QED
    BY <2>4, <2>5
<1>6. s \in G[0]
  BY <1>2, <1>3 DEF Undoing
<1> HIDE DEF G, t
<1>7. Runs("unspend", t, s, Indices(t), G)
  BY <1>2, <1>5, <1>6 DEF Runs
<1>8. Folded("unspend", t, s, Indices(t)) \in G[m]
  BY <1>2, <1>7, FoldFacts
<1>9. Undoing(X, Folded("unspend", t, s, Indices(t)), z, u, UA(m), TA(m))
  <2>1. m \in 0 .. m
    BY <1>2
  <2> QED
    BY <1>8, <2>1 DEF G
<1> QED
  BY <1>3, <1>9 DEF t

LEMMA RestoreAll ==
    ASSUME NEW X, Env(X), NEW n \in Nums(X), NEW z, NEW u \in Seq(Prevouts), NEW T,
           NEW s, Undoing(X, s, z, u \o TxUndo(X, n), UnspentAt(X, n) \ SpentAt(X, n), T)
    PROVE  Undoing(X, Folded("restore", ChainTxs[X][n + 1], s, Reverse(Ins[ChainTxs[X][n + 1]])), z, u,
                   UnspentAt(X, n), T \cup { d.hashX : d \in SpentAt(X, n) })
<1> DEFINE t == ChainTxs[X][n + 1]
           m == Len(Ins[t])
           v == TxUndo(X, n)
           D(j) == CoinAt(X, Input(X, n, j))
           UA(i) == UnspentAt(X, n) \ InsUp(X, n, m - i)
           uA(i) == u \o SubSeq(v, 1, m - i)
           TA(i) == T \cup { D(j).hashX : j \in m - i + 1 .. m }
           q == Reverse(Ins[t])
           G == [i \in 0 .. m |-> { r \in Backups(X) : Undoing(X, r, z, uA(i), UA(i), TA(i)) }]
<1>1. X \in Blocks /\ n \in Nat
  BY TipsFacts, TxAt DEF Env
<1>2. /\ m \in Nat /\ Inputs(X, n) = 1 .. m /\ v \in Seq(Prevouts) /\ Len(v) = m
      /\ \A i \in 1 .. m : v[i] = Touch1(D(i), D(i).tx_num)
  BY <1>1, TxUndoFacts
<1>3. Len(q) = m /\ \A i \in 1 .. m : q[i] = Input(X, n, m - i + 1)
  BY <1>2 DEF Reverse, Input
<1>4. UA(0) = UnspentAt(X, n) \ SpentAt(X, n) /\ UA(m) = UnspentAt(X, n)
  <2>1. InsUp(X, n, 0) = {} /\ InsUp(X, n, m) = SpentAt(X, n)
    BY <1>1, InsUpFacts
  <2>2. m - 0 = m /\ m - m = 0
    BY <1>2
  <2> QED
    BY <2>1, <2>2
<1>5. TA(0) = T /\ TA(m) = T \cup { d.hashX : d \in SpentAt(X, n) }
  <2>1. m - 0 + 1 .. m = {} /\ m - m + 1 .. m = Inputs(X, n)
    BY <1>2
  <2> QED
    BY <2>1 DEF SpentAt
<1>6. uA(0) = u \o v /\ uA(m) = u
      /\ \A i \in 1 .. m : uA(i) \in Seq(Prevouts) /\ uA(i - 1) = Append(uA(i), v[m - i + 1])
  <2> HIDE DEF v, m
  <2>1. TwoSeqs(Prevouts, u, v)
    BY <1>2 DEF TwoSeqs
  <2>2. /\ u \o SubSeq(v, 1, 0) = u /\ u \o SubSeq(v, 1, Len(v)) = u \o v
        /\ \A i \in 1 .. Len(v) :
             u \o SubSeq(v, 1, i - 1) \in Seq(Prevouts)
             /\ u \o SubSeq(v, 1, i) = Append(u \o SubSeq(v, 1, i - 1), v[i])
    BY ONLY SMTT(20), <2>1, FirstOnes
  <2>3. m - 0 = m /\ m - m = 0
    BY <1>2
  <2>4. ASSUME NEW i \in 1 .. m
        PROVE  uA(i) \in Seq(Prevouts) /\ uA(i - 1) = Append(uA(i), v[m - i + 1])
    <3>1. m - i + 1 \in 1 .. m /\ (m - i + 1) - 1 = m - i /\ m - (i - 1) = m - i + 1
      BY <1>2
    <3> QED
      BY <1>2, <2>2, <3>1
  <2> QED
    BY <1>2, <2>2, <2>3, <2>4
<1>7. ASSUME NEW i \in 1 .. m
      PROVE  LET d == D(m - i + 1) IN
             /\ d \in Created[X] /\ d \notin UA(i - 1) /\ UA(i) = UA(i - 1) \cup {d}
             /\ UA(i - 1) \in SUBSET Created[X] /\ TA(i) = TA(i - 1) \cup {d.hashX}
             /\ q[i].tx = d.tx /\ q[i].idx = d.idx
  <2> DEFINE k == m - i + 1
             d == D(k)
  <2>1. k \in 1 .. m /\ k - 1 = m - i /\ m - (i - 1) = k /\ m - (i - 1) + 1 = k + 1
    BY <1>2
  <2> HIDE DEF k
  <2>2. /\ InsUp(X, n, k) = InsUp(X, n, k - 1) \cup {d} /\ d \notin InsUp(X, n, k - 1)
        /\ d \in UnspentAt(X, n) /\ d \in Created[X] /\ Input(X, n, k).tx = d.tx /\ Input(X, n, k).idx = d.idx
    BY <1>1, <1>2, <2>1, InsUpFacts
  <2>3. UnspentAt(X, n) \subseteq Created[X]
    BY DEF UnspentAt
  <2>4. q[i] = Input(X, n, k)
    BY <1>3 DEF k
  <2>5. \A j : j \in k .. m <=> (j \in k + 1 .. m \/ j = k)
    BY <1>2, <2>1
  <2>6. UA(i) = UnspentAt(X, n) \ InsUp(X, n, k - 1) /\ UA(i - 1) = UnspentAt(X, n) \ InsUp(X, n, k)
    BY <2>1
  <2>7. TA(i) = T \cup { D(j).hashX : j \in k .. m } /\ TA(i - 1) = T \cup { D(j).hashX : j \in k + 1 .. m }
    BY <2>1 DEF k
  <2> HIDE DEF UA, TA, q
  <2>8. TA(i) = TA(i - 1) \cup {d.hashX}
    <3> HIDE DEF D
    <3> QED
      BY <2>5, <2>7
  <2> HIDE DEF d
  <2>9. d \notin UA(i - 1) /\ UA(i) = UA(i - 1) \cup {d} /\ UA(i - 1) \in SUBSET Created[X]
    BY <2>2, <2>3, <2>6
  <2> QED
    BY <2>2, <2>4, <2>8, <2>9 DEF d, k
<1> HIDE DEF UA, uA, TA, q, v, D
<1>8. ASSUME NEW i \in 1 .. m, NEW r \in G[i - 1]
      PROVE  Op("restore", t, r, q[i]) \in G[i]
  <2> DEFINE d == D(m - i + 1)
             o == q[i]
  <2>1. i - 1 \in 0 .. m /\ i \in 0 .. m /\ m - i + 1 \in 1 .. m
    BY <1>2
  <2>2. Undoing(X, r, z, uA(i - 1), UA(i - 1), TA(i - 1))
    BY <1>8, <2>1
  <2>3. d \in Created[X] /\ d \notin UA(i - 1) /\ UA(i) = UA(i - 1) \cup {d}
        /\ UA(i - 1) \in SUBSET Created[X] /\ TA(i) = TA(i - 1) \cup {d.hashX}
        /\ o.tx = d.tx /\ o.idx = d.idx
    BY <1>7
  <2>4. uA(i) \in Seq(Prevouts) /\ uA(i - 1) = Append(uA(i), Touch1(d, d.tx_num))
    BY <1>2, <1>6, <2>1
  <2> HIDE DEF d, o, m, t
  <2>5. Undoing(X, r, z, Append(uA(i), Touch1(d, d.tx_num)), UA(i - 1), TA(i - 1))
    BY <2>2, <2>4
  <2>6. Undoing(X, RestoreInput(r, o), z, uA(i), UA(i - 1) \cup {d}, TA(i - 1) \cup {d.hashX})
    BY ONLY <2>3, <2>4, <2>5, RestoreInputFacts, Env(X)
  <2>7. Undoing(X, RestoreInput(r, o), z, uA(i), UA(i), TA(i))
    BY <2>3, <2>6
  <2>8. RestoreInput(r, o) \in Backups(X)
    BY <2>7 DEF Undoing
  <2>9. Op("restore", t, r, q[i]) = RestoreInput(r, o)
    BY DEF Op, o
  <2> QED
    BY <2>1, <2>7, <2>8, <2>9
<1>9. s \in G[0]
  <2>1. Undoing(X, s, z, uA(0), UA(0), TA(0))
    BY <1>4, <1>5, <1>6 DEF v
  <2>2. s \in Backups(X) /\ 0 \in 0 .. m
    BY <1>2 DEF Undoing
  <2> QED
    BY <2>1, <2>2
<1> HIDE DEF G, t
<1>10. Runs("restore", t, s, q, G)
  BY <1>2, <1>3, <1>8, <1>9 DEF Runs
<1>11. Folded("restore", t, s, q) \in G[m]
  BY <1>3, <1>10, FoldFacts
<1>12. Undoing(X, Folded("restore", t, s, q), z, uA(m), UA(m), TA(m))
  <2>1. m \in 0 .. m
    BY <1>2
  <2> QED
    BY <1>11, <2>1 DEF G
<1> QED
  BY <1>4, <1>5, <1>6, <1>12 DEF t, q

LEMMA BackupTxFacts ==
    ASSUME NEW X, Env(X), NEW n \in Nums(X), NEW z, CountsOk(z.counts), NEW u \in Seq(Prevouts), NEW T,
           NEW s, Undoing(X, s, z, u \o TxUndo(X, n), UnspentAt(X, n + 1), T)
    PROVE  Undoing(X, BackupTx(s, ChainTxs[X][n + 1]), z, u, UnspentAt(X, n),
                   T \cup { d.hashX : d \in OutputsAt(X, n) \cup SpentAt(X, n) })
<1> DEFINE t == ChainTxs[X][n + 1]
           a == Folded("unspend", t, s, Indices(t))
           T1 == T \cup { d.hashX : d \in OutputsAt(X, n) }
<1>1. Undoing(X, a, z, u \o TxUndo(X, n), UnspentAt(X, n) \ SpentAt(X, n), T1)
  BY UnspendAll
<1> HIDE DEF a, T1
<1>2. Undoing(X, Folded("restore", t, a, Reverse(Ins[t])), z, u, UnspentAt(X, n),
              T1 \cup { d.hashX : d \in SpentAt(X, n) })
  BY <1>1, RestoreAll
<1>3. T1 \cup { d.hashX : d \in SpentAt(X, n) } = T \cup { d.hashX : d \in OutputsAt(X, n) \cup SpentAt(X, n) }
  BY DEF T1
<1>4. BackupTx(s, t) = Folded("restore", t, a, Reverse(Ins[t]))
  BY BackupTxIs DEF a
<1> QED
  BY <1>2, <1>3, <1>4

\* The addresses that transaction n and later ones touch.
HashXsFrom(X, n) == { p.hashX : p \in { q \in Touches[X] : q.tx_num >= n } }

LEMMA HashXsFromFacts ==
    ASSUME NEW X \in Blocks
    PROVE  /\ HashXsFrom(X, TxCount(X)) = {}
           /\ \A n \in Nums(X) :
                HashXsFrom(X, n) \subseteq
                    HashXsFrom(X, n + 1) \cup { d.hashX : d \in OutputsAt(X, n) \cup SpentAt(X, n) }
<1>1. ASSUME NEW p \in Touches[X] PROVE p.tx_num \in Nat /\ p.tx_num < TxCount(X)
  <2>1. PICK n \in Nums(X) : \E c \in OutputsAt(X, n) \cup SpentAt(X, n) : p = Touch1(c, n)
    BY TouchesIs
  <2>2. X \in Tips /\ n \in Nat /\ n < TxCount(X)
    BY TipsFacts, TxAt
  <2> QED
    BY <2>1, <2>2 DEF Touch1
<1>2. TxCount(X) \in Nat
  BY TipsFacts, HeightFacts
<1>3. HashXsFrom(X, TxCount(X)) = {}
  <2>1. \A p \in Touches[X] : ~(p.tx_num >= TxCount(X))
    BY <1>1, <1>2
  <2> QED
    BY <2>1 DEF HashXsFrom
<1>4. ASSUME NEW n \in Nums(X), NEW x \in HashXsFrom(X, n)
      PROVE  x \in HashXsFrom(X, n + 1) \/ \E d \in OutputsAt(X, n) \cup SpentAt(X, n) : x = d.hashX
  <2>1. PICK p \in Touches[X] : p.tx_num >= n /\ x = p.hashX
    BY DEF HashXsFrom
  <2>2. X \in Tips /\ n \in Nat /\ p.tx_num \in Nat
    BY <1>1, TipsFacts, TxAt
  <2>3. CASE p.tx_num >= n + 1
    BY <2>1, <2>3 DEF HashXsFrom
  <2>4. CASE ~(p.tx_num >= n + 1)
    <3>1. p \in TouchesAt(X, n + 1) /\ p \notin TouchesAt(X, n)
      BY <2>1, <2>2, <2>4 DEF TouchesAt
    <3>2. PICK d \in OutputsAt(X, n) \cup SpentAt(X, n) : p = Touch1(d, n)
      BY <3>1, TouchesStep
    <3>3. p.hashX = d.hashX
      BY <3>2 DEF Touch1
    <3> QED
      BY <2>1, <3>3
  <2> QED
    BY <2>3, <2>4
<1>5. ASSUME NEW n \in Nums(X)
      PROVE  HashXsFrom(X, n) \subseteq
                 HashXsFrom(X, n + 1) \cup { d.hashX : d \in OutputsAt(X, n) \cup SpentAt(X, n) }
  BY <1>4
<1> QED
  BY <1>3, <1>5

LEMMA BackupTxsFacts ==
    ASSUME NEW X, Env(X), NEW b \in Blocks, Extends(X, b), NEW z, CountsOk(z.counts),
           NEW s, Undoing(X, s, z, SpentOutputs[b], UnspentAt(X, TxCount(b)), HashXsFrom(X, TxCount(b)))
    PROVE  Undoing(X, Fold(BackupTx, s, Reverse(Txs[b])), z, <<>>, UnspentAt(X, TxCount(Prev[b])),
                   HashXsFrom(X, TxCount(Prev[b])))
<1> DEFINE m == Len(Txs[b])
           p == TxCount(Prev[b])
           q == Reverse(Txs[b])
           At(r, k) == Undoing(X, r, z, UndoUpTo(b, k), UnspentAt(X, p + k), HashXsFrom(X, p + k))
           G == [i \in 0 .. m |-> { r \in Backups(X) : At(r, m - i) }]
<1>1. X \in Blocks /\ b \in Tips /\ m \in Nat /\ p \in Nat /\ TxCount(b) = p + m
  BY ParentFacts, HeightFacts DEF Env
<1>2. UndoUpTo(b, 0) = <<>> /\ UndoUpTo(b, m) = SpentOutputs[b]
      /\ \A k \in 0 .. m : UndoUpTo(b, k) \in Seq(Prevouts)
  BY <1>1, UndoFacts
<1>3. Len(q) = m /\ \A i \in 1 .. m : q[i] = Txs[b][m - i + 1]
  BY <1>1 DEF Reverse
<1>4. At(s, m)
  BY <1>1, <1>2
<1>5. ASSUME NEW i \in 1 .. m, NEW r, At(r, m - (i - 1))
      PROVE  At(BackupTx(r, q[i]), m - i)
  <2> DEFINE k == m - i
             n == p + k
             H == { d.hashX : d \in OutputsAt(X, n) \cup SpentAt(X, n) }
  <2>1. k \in 0 .. m - 1 /\ k \in 0 .. m /\ m - (i - 1) = k + 1 /\ p + (k + 1) = n + 1
    BY <1>1
  <2>2. q[i] = Txs[b][k + 1]
    BY <1>3
  <2> HIDE DEF k
  <2>3. n \in Nums(b) /\ ChainTxs[b][n + 1] = Txs[b][k + 1]
        /\ UndoUpTo(b, k + 1) = UndoUpTo(b, k) \o TxUndo(b, n)
    BY <2>1, UndoStep
  <2> HIDE DEF n
  <2>4. n \in Nums(X) /\ ChainTxs[X][n + 1] = ChainTxs[b][n + 1]
    BY <1>1, <2>3, CoinsOfAncestor
  <2>5. TxUndo(b, n) = TxUndo(X, n)
    <3>1. Inputs(b, n) = Inputs(X, n)
          /\ \A j \in Inputs(b, n) : /\ Input(b, n, j) = Input(X, n, j)
                                     /\ CoinAt(b, Input(b, n, j)) = CoinAt(X, Input(b, n, j))
      BY <1>1, <2>3, InputsOfAncestor
    <3> QED
      BY <3>1 DEF TxUndo
  <2>6. UndoUpTo(b, k) \in Seq(Prevouts)
    BY <1>2, <2>1
  <2>7. Undoing(X, r, z, UndoUpTo(b, k) \o TxUndo(X, n), UnspentAt(X, n + 1), HashXsFrom(X, n + 1))
    <3>1. At(r, k + 1)
      BY <1>5, <2>1
    <3> QED
      BY <2>1, <2>3, <2>5, <3>1
  <2> HIDE DEF p, m, q
  <2>8. Undoing(X, BackupTx(r, ChainTxs[X][n + 1]), z, UndoUpTo(b, k), UnspentAt(X, n), HashXsFrom(X, n + 1) \cup H)
    BY <2>4, <2>6, <2>7, BackupTxFacts
  <2>9. HashXsFrom(X, n) \subseteq HashXsFrom(X, n + 1) \cup H
    BY <1>1, <2>4, HashXsFromFacts
  <2> HIDE DEF H
  <2>10. Undoing(X, BackupTx(r, q[i]), z, UndoUpTo(b, k), UnspentAt(X, n), HashXsFrom(X, n))
    <3>1. ChainTxs[X][n + 1] = q[i]
      BY <2>2, <2>3, <2>4
    <3>2. Undoing(X, BackupTx(r, q[i]), z, UndoUpTo(b, k), UnspentAt(X, n), HashXsFrom(X, n + 1) \cup H)
      BY <2>8, <3>1
    <3> QED
      BY <2>9, <3>2 DEF Undoing
  <2> QED
    BY <2>10 DEF n, k
<1> HIDE DEF p, q
<1>6. \A k : \A r : At(r, k) => r \in Backups(X)
  BY DEF Undoing
<1>7. \A i \in 0 .. m : \A r : At(r, m - i) => r \in G[i]
  BY <1>6
<1>8. \A i \in 0 .. m : \A r \in G[i] : At(r, m - i)
  OBVIOUS
<1> HIDE DEF At, G
<1>9. Runs("backup_tx", 0, s, q, G)
  <2>1. s \in G[0]
    <3>1. 0 \in 0 .. m /\ m - 0 = m
      BY <1>1
    <3> QED
      BY <1>4, <1>7, <3>1
  <2>2. ASSUME NEW i \in 1 .. m, NEW r \in G[i - 1]
        PROVE  Op("backup_tx", 0, r, q[i]) \in G[i]
    <3>1. i - 1 \in 0 .. m /\ i \in 0 .. m
      BY <1>1
    <3>2. At(BackupTx(r, q[i]), m - i)
      BY <1>5, <1>8, <3>1
    <3>3. Op("backup_tx", 0, r, q[i]) = BackupTx(r, q[i])
      BY DEF Op
    <3> QED
      BY <1>7, <3>1, <3>2, <3>3
  <2> QED
    BY <1>1, <1>3, <2>1, <2>2 DEF Runs
<1>10. At(Folded("backup_tx", 0, s, q), 0)
  <2>1. m \in 0 .. m /\ m - m = 0
    BY <1>1
  <2>2. Folded("backup_tx", 0, s, q) \in G[m]
    BY <1>3, <1>9, FoldFacts
  <2> QED
    BY <1>8, <2>1, <2>2
<1>11. Fold(BackupTx, s, q) = Folded("backup_tx", 0, s, q)
  BY BlockFolds
<1>12. p + 0 = p
  BY <1>1 DEF p
<1> QED
  BY <1>2, <1>10, <1>11, <1>12 DEF At, p, q

-----------------------------------------------------------------------------
(* backup_blocks.                                                           *)

LEMMA CountsFacts ==
    ASSUME NEW X, Env(X), NEW t \in Tips, Extends(t, Committed) \/ Extends(Committed, t)
    PROVE  CountsOk(TxCounts[t])
<1>1. Committed \in Tips /\ db.height = Height(Committed)
  BY DEF Env
<1>2. TxCounts[t] \in Seq(Nat) /\ Len(TxCounts[t]) = Height(t) + 1
      /\ \A i \in 1 .. Height(t) + 1 : TxCounts[t][i] = TxCount(Path[t][i])
  BY TxCountsFacts
<1>3. Height(t) \in Int /\ Height(t) >= -1 /\ Height(Committed) \in Int /\ Height(Committed) >= -1
  BY <1>1, HeightFacts
<1>4. DOMAIN TxCounts[t] = 1 .. Height(t) + 1
  BY <1>2, LenProperties
<1>5. ASSUME NEW i \in 1 .. Height(t) + 1, i > Height(Committed)
      PROVE  TxCounts[t][i] >= TxCount(Committed)
  <2> DEFINE b == Path[t][i]
             h == i - 1
  <2>1. h \in 0 .. Height(t) /\ h + 1 = i /\ h >= Height(Committed)
    BY <1>3, <1>5
  <2> HIDE DEF h
  <2>2. Path[t][h + 1] \in Blocks /\ Height(Path[t][h + 1]) = h /\ Extends(t, Path[t][h + 1])
    BY <2>1, Ancestors
  <2>3. b \in Blocks /\ Height(b) = h /\ Extends(t, b)
    BY <2>1, <2>2
  <2> HIDE DEF b
  <2>4. Extends(b, Committed)
    <3>1. b \in Tips
      BY <2>3, TipsFacts
    <3>2. CASE Extends(t, Committed)
      BY <1>1, <2>1, <2>3, <3>1, <3>2, ExtendsLinear
    <3>3. CASE Extends(Committed, t)
      <4>1. Extends(Committed, b)
        BY <1>1, <2>3, <3>1, <3>3, ExtendsTransitive
      <4>2. Height(b) <= Height(Committed)
        BY <4>1 DEF Extends
      <4>3. b = Committed
        BY <1>1, <1>3, <2>1, <2>3, <3>1, <4>1, <4>2, ExtendsSame
      <4> QED
        BY <3>1, <4>3, ExtendsItself
    <3> QED
      BY <3>2, <3>3
  <2>5. TxCount(Committed) <= TxCount(b) /\ TxCount(b) \in Nat /\ TxCount(Committed) \in Nat
    BY <1>1, <2>3, <2>4, TipsFacts, HeightFacts DEF Extends
  <2>6. TxCounts[t][i] = TxCount(b)
    BY <1>2 DEF b
  <2> QED
    BY <2>5, <2>6
<1> QED
  BY <1>1, <1>2, <1>4, <1>5 DEF CountsOk

\* The undo information of the committed chain's blocks, as far as it is there.
UndoRight ==
    \A h \in DOMAIN disk.undo :
        h \in 0 .. Height(Committed) => disk.undo[h] = SpentOutputs[Path[Committed][h + 1]]

\* A scratch state whose tip is the ancestor t of the committed block X.
BackedUp(X, s, t) ==
    /\ s \in Backups(X) /\ s.ok = TRUE /\ t \in Tips /\ Extends(X, t)
    /\ s.height = Height(t) /\ s.tip = t /\ s.tx_count = TxCount(t) /\ s.counts = TxCounts[t]
    /\ View(s, Unspent[t]) /\ HashXsFrom(X, TxCount(t)) \subseteq s.touched
    /\ bp.touched \subseteq s.touched

LEMMA BackupBlockFacts ==
    ASSUME NEW X, Env(X), X = Committed, UndoRight, NEW t \in Blocks, NEW b,
           NEW s \in Backups(X), s.ok => BackedUp(X, s, t)
    PROVE  /\ BackupBlock(s, b) \in Backups(X)
           /\ BackupBlock(s, b).ok => BackedUp(X, BackupBlock(s, b), Prev[t])
           /\ s.ok /\ b = t /\ Height(t) \in DOMAIN disk.undo => BackupBlock(s, b).ok
<1> DEFINE z == BackupBlock(s, b)
           s1 == [s EXCEPT !.undo = disk.undo[s.height]]
           r == Fold(BackupTx, s1, Reverse(Txs[b]))
<1>1. CASE ~s.ok \/ b # s.tip \/ s.height \notin DOMAIN disk.undo
  <2>1. z = [s EXCEPT !.ok = FALSE]
    BY <1>1 DEF BackupBlock
  <2>2. z \in Backups(X) /\ ~z.ok
    <3> HIDE DEF z
    <3> QED
      BY <2>1 DEF Backups
  <2>3. ~(s.ok /\ b = t /\ Height(t) \in DOMAIN disk.undo)
    BY <1>1 DEF BackedUp
  <2> QED
    BY <2>2, <2>3
<1>2. CASE ~(~s.ok \/ b # s.tip \/ s.height \notin DOMAIN disk.undo)
  <2>1. /\ s.ok = TRUE /\ t \in Tips /\ Extends(X, t) /\ b = t
        /\ s.height = Height(t) /\ s.tip = t /\ s.tx_count = TxCount(t) /\ s.counts = TxCounts[t]
        /\ View(s, Unspent[t]) /\ HashXsFrom(X, TxCount(t)) \subseteq s.touched
        /\ bp.touched \subseteq s.touched
    BY <1>2 DEF BackedUp
  <2>2. /\ Prev[t] \in Tips /\ Height(t) = Height(Prev[t]) + 1 /\ Height(t) \in Int /\ Height(t) >= 0
        /\ Path[t][Height(t) + 1] = t /\ TxCount(t) = TxCount(Prev[t]) + Len(Txs[t]) /\ Len(Txs[t]) \in Nat
        /\ Height(Prev[t]) \in Int /\ TxCount(Prev[t]) \in Nat /\ TxCount(t) \in Nat
    BY ParentFacts, HeightFacts
  <2>3. X \in Blocks /\ X \in Tips /\ Height(X) \in Int /\ Height(t) <= Height(X)
    BY <2>1, TipsFacts, HeightFacts DEF Env, Extends
  <2>4. disk.undo[s.height] = SpentOutputs[t]
    <3>1. Height(t) \in 0 .. Height(Committed) /\ Height(t) \in DOMAIN disk.undo
      BY <1>2, <2>1, <2>2, <2>3
    <3>2. Path[X][Height(t) + 1] = t
      <4>1. \A i \in 1 .. Height(t) + 1 : Path[X][i] = Path[t][i]
        BY <2>1 DEF Extends
      <4>2. Height(t) + 1 \in 1 .. Height(t) + 1
        BY <2>2
      <4> QED
        BY <2>2, <4>1, <4>2
    <3> QED
      BY <2>1, <3>1, <3>2 DEF UndoRight
  <2>5. SpentOutputs[t] \in Seq(Prevouts)
    <3>1. Len(Txs[t]) \in 0 .. Len(Txs[t])
      BY <2>2
    <3> QED
      BY <3>1, UndoFacts
  <2>6. CountsOk(s.counts)
    BY <2>1, CountsFacts
  <2>7. Unspent[t] = UnspentAt(X, TxCount(t)) /\ Unspent[Prev[t]] = UnspentAt(X, TxCount(Prev[t]))
        /\ Extends(X, Prev[t])
    <3>1. Extends(X, Prev[t])
      BY <2>1, <2>2, <2>3, ExtendsParent, ExtendsTransitive
    <3> QED
      BY <2>1, <2>2, <2>3, <3>1, CoinsOfAncestor
  <2>8. Undoing(X, s1, s, SpentOutputs[t], UnspentAt(X, TxCount(t)), HashXsFrom(X, TxCount(t)))
    <3>1. /\ s1 \in Backups(X) /\ s1.ok = TRUE /\ s1.undo = SpentOutputs[t] /\ s1.cache = s.cache
          /\ s1.deletes = s.deletes /\ s1.touched = s.touched /\ SameBlock(s1, s)
          /\ s1.tx_count = s.tx_count /\ s1.counts = s.counts
      BY <2>1, <2>4, <2>5 DEF Backups, SameBlock
    <3> HIDE DEF s1
    <3>2. View(s1, UnspentAt(X, TxCount(t)))
      BY <2>1, <2>7, <3>1 DEF View
    <3> QED
      BY <2>1, <3>1, <3>2 DEF Undoing
  <2>9. Undoing(X, r, s, <<>>, UnspentAt(X, TxCount(Prev[t])), HashXsFrom(X, TxCount(Prev[t])))
    <3> HIDE DEF s1
    <3> QED
      BY <2>1, <2>6, <2>8, BackupTxsFacts
  <2>10. z = [r EXCEPT !.ok = @ /\ r.undo = <<>>, !.tx_count = @ - Len(Txs[b]), !.height = @ - 1,
                       !.tip = Prev[b], !.counts = Front(@)]
    BY <1>2 DEF BackupBlock
  <2> HIDE DEF s1, r, z
  <2>11. /\ r \in Backups(X) /\ r.ok = TRUE /\ r.undo = <<>> /\ View(r, Unspent[Prev[t]])
         /\ HashXsFrom(X, TxCount(Prev[t])) \subseteq r.touched /\ s.touched \subseteq r.touched
         /\ r.height = Height(t) /\ r.tx_count = TxCount(t) /\ r.counts = TxCounts[t]
    BY <2>1, <2>7, <2>9 DEF Undoing, SameBlock
  <2>12. Front(TxCounts[t]) = TxCounts[Prev[t]] /\ TxCounts[Prev[t]] \in Seq(Nat)
    <3>1. TxCounts[t] = Append(TxCounts[Prev[t]], TxCount(t)) /\ EndsWith(Nat, TxCounts[Prev[t]], TxCount(t))
      BY TxCountsStep
    <3> QED
      BY <3>1, FrontAndLast DEF EndsWith
  <2>13. r.tx_count - Len(Txs[b]) = TxCount(Prev[t]) /\ r.height - 1 = Height(Prev[t])
    BY <2>1, <2>2, <2>11
  <2>14. z = [r EXCEPT !.ok = TRUE, !.tx_count = TxCount(Prev[t]), !.height = Height(Prev[t]),
                       !.tip = Prev[t], !.counts = TxCounts[Prev[t]]]
    <3>1. z = [r EXCEPT !.ok = r.ok /\ r.undo = <<>>, !.tx_count = r.tx_count - Len(Txs[b]),
                        !.height = r.height - 1, !.tip = Prev[b], !.counts = Front(r.counts)]
      BY <2>10, <2>11 DEF Backups
    <3> QED
      BY <2>1, <2>11, <2>12, <2>13, <3>1
  <2>15. /\ z \in Backups(X) /\ z.ok = TRUE /\ z.height = Height(Prev[t]) /\ z.tip = Prev[t]
         /\ z.tx_count = TxCount(Prev[t]) /\ z.counts = TxCounts[Prev[t]]
         /\ z.cache = r.cache /\ z.deletes = r.deletes /\ z.touched = r.touched
    <3>1. TxCount(Prev[t]) \in Int
      BY <2>2
    <3> QED
      BY ONLY <2>2, <2>11, <2>12, <2>14, <3>1 DEF Backups
  <2>16. View(z, Unspent[Prev[t]])
    BY <2>11, <2>15 DEF View
  <2>17. BackedUp(X, z, Prev[t])
    BY <2>1, <2>2, <2>7, <2>11, <2>15, <2>16 DEF BackedUp
  <2> QED
    BY <2>15, <2>17 DEF z
<1> QED
  BY <1>1, <1>2

-----------------------------------------------------------------------------
(* The inductive invariant.                                                 *)

\* A block of a chain that the daemon may have, or none.
Known(b) == b \in Tips /\ \E t \in DaemonTips : Extends(t, b)

\* A block that can have been fetched.
Fetched(b) == b \in Blocks /\ Known(b) /\ Height(b) <= cached_height

\* What the daemon's height was known to be at least.
Reached == IF pc = "down" THEN Height(best) ELSE cached_height

ChainInv ==
    /\ best \in DaemonTips /\ prior_best \in DaemonTips
    /\ cached_height \in Int /\ cached_height <= Height(best)
    /\ fetched_height \in Int /\ fetched_height >= -1
    /\ queue \in Seq(Blocks) /\ \A i \in 1 .. Len(queue) : Fetched(queue[i])

\* The variables that hold records have the fields that the code gives them.
Shapes ==
    /\ disk = [state |-> disk.state, h |-> disk.h, u |-> disk.u, undo |-> disk.undo,
               history |-> disk.history]
    /\ disk.state = [height |-> disk.state.height, tx_count |-> disk.state.tx_count,
                     tip |-> disk.state.tip, first_sync |-> disk.state.first_sync]
    /\ db = [height |-> db.height, tx_count |-> db.tx_count, tip |-> db.tip,
             first_sync |-> db.first_sync, fs_height |-> db.fs_height]
    /\ bp = [height |-> bp.height, tip |-> bp.tip, tx_count |-> bp.tx_count,
             headers |-> bp.headers, tx_hashes |-> bp.tx_hashes, undo_infos |-> bp.undo_infos,
             cache |-> bp.cache, deletes |-> bp.deletes, touched |-> bp.touched,
             history |-> bp.history]
    /\ work = [batch |-> work.batch, after |-> work.after, flush_utxos |-> work.flush_utxos,
               start |-> work.start, count |-> work.count]

\* s is the beginning of f.
Begins(S, f, s) == f \in Seq(S) /\ s \in Seq(S) /\ Len(s) <= Len(f) /\ \A i \in 1 .. Len(s) : f[i] = s[i]

\* The metadata files are those of the chain of b, up to its height.
FilesAre(f, b) ==
    /\ Begins(Blocks, f.headers, Path[b]) /\ Begins(Nat, f.tx_counts, TxCounts[b])
    /\ Begins(TxId, f.hashes, ChainTxs[b])

FilesHold(b) == FilesAre(files, b)

UndoThere == \A h \in 0 .. Height(Committed) : h + ReorgLimit > Reached => h \in DOMAIN disk.undo

\* An undo entry of some height is that of a block of this height, if not of ours.
UndoSound ==
    \A h \in DOMAIN disk.undo :
        \E b \in Blocks : Known(b) /\ Height(b) = h /\ disk.undo[h] = SpentOutputs[b]

DiskInv ==
    /\ Known(Committed) /\ TablesMatchTip /\ FilesHold(Committed)
    /\ UndoRight /\ UndoSound

\* The committed tip is not beyond the daemon's, and can be undone as far as needed.
ReachInv == Height(Committed) <= Reached /\ UndoThere

WorkInv ==
    /\ work.after \in {"top", "reopen", "reorg", "notify", "forced", "exit"}
    /\ work.after # "notify" => work.flush_utxos = TRUE
    /\ work.start \in Int /\ work.count \in Int /\ reorg_count \in Int
    /\ pc = "probe" => work.count \in Nat
    /\ pc = "flush_utxos" => db.fs_height = bp.height
    /\ pc = "reopen" => db.fs_height = db.height
    /\ pc = "advance" =>
         /\ work.batch \in Seq(Blocks)
         /\ \A i \in 1 .. Len(work.batch) :
              Fetched(work.batch[i]) /\ Prev[work.batch[i]] = IF i = 1 THEN bp.tip ELSE work.batch[i - 1]

\* The block processor's view of its tip.
TipInv ==
    /\ Known(bp.tip) /\ bp.height = Height(bp.tip) /\ bp.tx_count = TxCount(bp.tip)
    /\ tx_counts = TxCounts[bp.tip] /\ bp.height <= cached_height
    /\ View(bp, Unspent[bp.tip]) /\ bp.deletes \subseteq disk.h /\ bp.touched \subseteq HashXs
    /\ db.height = disk.state.height /\ db.tip = disk.state.tip

\* What is still to be appended to the files follows what they hold.
Unwritten ==
    \E b \in Tips :
        /\ db.fs_height = Height(b) /\ Extends(b, Committed) /\ Extends(bp.tip, b) /\ FilesHold(b)
        /\ bp.headers \in Seq(Blocks) /\ Path[bp.tip] = Path[b] \o bp.headers
        /\ bp.tx_hashes \in Seq(Seq(TxId)) /\ ChainTxs[bp.tip] = ChainTxs[b] \o FlattenSeq(bp.tx_hashes)

\* The undo information to be written.
PendingUndo ==
    LET undos == bp.undo_infos
    IN /\ undos \in Seq([height : Nat, info : Seq(Prevouts)])
       /\ \A i, j \in 1 .. Len(undos) : undos[i].height = undos[j].height => i = j
       /\ \A i \in 1 .. Len(undos) :
            /\ undos[i].height \in Height(Committed) + 1 .. Height(bp.tip)
            /\ undos[i].info = SpentOutputs[Path[bp.tip][undos[i].height + 1]]
       /\ \A h \in Height(Committed) + 1 .. Height(bp.tip) :
            h + ReorgLimit > cached_height => \E i \in 1 .. Len(undos) : undos[i].height = h

\* The memory is at or ahead of what is committed ...
Ahead ==
    /\ pc # "flush_backup"
    /\ Extends(bp.tip, Committed) /\ bp.history = Touches[bp.tip]
    /\ Unwritten /\ PendingUndo

\* ... or behind it, while blocks are backed up.
Behind ==
    /\ pc \in {"flush_backup", "flush", "failed"}
    /\ Extends(Committed, bp.tip) /\ bp.height < db.height /\ db.fs_height = db.height
    /\ bp.history = Touches[Committed] /\ HashXsFrom(Committed, bp.tx_count) \subseteq bp.touched
    /\ bp.headers = <<>> /\ bp.tx_hashes = <<>> /\ bp.undo_infos = <<>>

IInv ==
    /\ ChainInv /\ Shapes /\ DiskInv /\ ReachInv /\ WorkInv
    /\ pc # "down" => TipInv /\ (Ahead \/ Behind)

-----------------------------------------------------------------------------
(* What a step leaves alone.                                                *)

LEMMA ConstantFacts ==
    /\ ReorgLimit \in Nat /\ ReorgLimit > 0 /\ ChunkSize \in Nat /\ ChunkSize > 0
    /\ MaxQueue \in Nat /\ MaxForced \in Nat /\ "down" \notin ShutdownPoints
    /\ \A b \in DaemonTips : b \in Blocks /\ b \in Tips /\ Height(b) \in Int /\ Height(b) >= 0
                             /\ Known(b)
<1>1. DaemonTips \subseteq Blocks
  BY ProcessorAssumption
<1>2. \A b \in DaemonTips : b \in Blocks /\ b \in Tips /\ Height(b) \in Int /\ Height(b) >= 0
  BY <1>1, TipsFacts, HeightFacts, ParentFacts
<1>3. \A b \in DaemonTips : Known(b)
  BY <1>2, ExtendsItself DEF Known
<1> QED
  BY <1>2, <1>3, ProcessorAssumption

LEMMA KnownFacts ==
    /\ \A b : Known(b) => b \in Tips /\ Height(b) \in Int /\ Height(b) >= -1
    /\ \A b \in Tips : \A a \in Tips : Known(b) /\ Extends(b, a) => Known(a)
    /\ \A b \in Blocks : Known(b) => Known(Prev[b])
<1>1. \A b : Known(b) => b \in Tips /\ Height(b) \in Int /\ Height(b) >= -1
  BY HeightFacts DEF Known
<1>2. ASSUME NEW b \in Tips, NEW a \in Tips, Known(b), Extends(b, a)
      PROVE  Known(a)
  <2>1. PICK t \in DaemonTips : Extends(t, b)
    BY <1>2 DEF Known
  <2>2. t \in Tips
    BY ConstantFacts
  <2>3. Extends(t, a)
    BY <1>2, <2>1, <2>2, ExtendsTransitive
  <2> QED
    BY <2>3 DEF Known
<1>3. ASSUME NEW b \in Blocks, Known(b)
      PROVE  Known(Prev[b])
  BY <1>2, <1>3, TipsFacts, ExtendsParent
<1> QED
  BY <1>1, <1>2, <1>3

LEMMA ReachedFacts ==
    ASSUME ChainInv
    PROVE  Reached \in Int /\ cached_height <= Reached /\ Reached <= Height(best) /\ Height(best) \in Int
           /\ cached_height \in Int
  BY ConstantFacts DEF ChainInv, Reached

LEMMA SameShapes ==
    ASSUME Shapes, UNCHANGED <<disk, db, bp, work>>
    PROVE  Shapes'
  BY DEF Shapes

LEMMA SameDisk ==
    ASSUME DiskInv, UNCHANGED <<disk, files>>
    PROVE  DiskInv'
  BY DEF DiskInv, TablesMatchTip, FilesHold, FilesAre, UndoRight, UndoSound, Committed

LEMMA SameReach ==
    ASSUME ReachInv, DiskInv, ChainInv, ChainInv', UNCHANGED disk, Reached' >= Reached
    PROVE  ReachInv'
<1>1. Reached \in Int /\ Reached' \in Int
  <2>1. Reached \in Int
    BY ReachedFacts
  <2>2. Reached' \in Int
    BY ConstantFacts DEF ChainInv, Reached
  <2> QED
    BY <2>1, <2>2
<1>2. Height(Committed) \in Int /\ Committed' = Committed /\ ReorgLimit \in Nat
  BY KnownFacts, ConstantFacts DEF DiskInv, Committed
<1>3. \A h \in Int : h + ReorgLimit > Reached' => h + ReorgLimit > Reached
  BY <1>1, <1>2
<1>4. UndoThere'
  BY <1>2, <1>3 DEF UndoThere, ReachInv
<1> QED
  BY <1>1, <1>2, <1>4 DEF ReachInv

LEMMA SameTip ==
    ASSUME TipInv, UNCHANGED <<disk, bp, tx_counts>>, db'.height = db.height, db'.tip = db.tip,
           cached_height \in Int, cached_height' \in Int, cached_height' >= cached_height
    PROVE  TipInv'
<1>1. bp.height \in Int /\ bp.height <= cached_height
  BY KnownFacts DEF TipInv
<1>2. bp'.height <= cached_height'
  BY <1>1
<1> QED
  BY <1>2 DEF TipInv, View

LEMMA SameAhead ==
    ASSUME Ahead, UNCHANGED <<disk, bp, files>>, db'.fs_height = db.fs_height, pc' # "flush_backup",
           DiskInv, TipInv,
           cached_height \in Int, cached_height' \in Int, cached_height' >= cached_height
    PROVE  Ahead'
<1>1. Unwritten'
  BY DEF Ahead, Unwritten, FilesHold, FilesAre, Committed
<1>2. PendingUndo'
  <2>1. ReorgLimit \in Nat /\ Height(Committed) \in Int /\ Height(bp.tip) \in Int
    BY ConstantFacts, KnownFacts DEF DiskInv, TipInv
  <2>2. \A h \in Height(Committed) + 1 .. Height(bp.tip) :
            h + ReorgLimit > cached_height' => h + ReorgLimit > cached_height
    BY <2>1
  <2> QED
    BY <2>2 DEF Ahead, PendingUndo, Committed
<1> QED
  BY <1>1, <1>2 DEF Ahead, Committed

LEMMA SameBehind ==
    ASSUME Behind, UNCHANGED <<disk, bp>>, db'.fs_height = db.fs_height, db'.height = db.height,
           pc' \in {"flush_backup", "flush", "failed"}
    PROVE  Behind'
  BY DEF Behind, Committed

\* Steps that move no blocks.
LEMMA SameMemory ==
    ASSUME IInv, ChainInv', WorkInv', Shapes', UNCHANGED <<disk, files, bp, tx_counts>>,
           db'.height = db.height, db'.tip = db.tip, db'.fs_height = db.fs_height,
           pc # "down", pc' # "down", cached_height' >= cached_height,
           \/ Ahead /\ pc' # "flush_backup"
           \/ Behind /\ pc' \in {"flush_backup", "flush", "failed"}
    PROVE  IInv'
<1>1. ChainInv /\ DiskInv /\ ReachInv /\ TipInv
  BY DEF IInv
<1>2. cached_height \in Int /\ cached_height' \in Int
  BY <1>1 DEF ChainInv
<1>3. DiskInv'
  BY <1>1, SameDisk
<1>4. Reached' >= Reached
  BY DEF Reached
<1>5. ReachInv'
  BY <1>1, <1>4, SameReach
<1>6. TipInv'
  BY <1>1, <1>2, SameTip
<1>7. Ahead' \/ Behind'
  BY <1>1, <1>2, SameAhead, SameBehind
<1> QED
  BY <1>3, <1>5, <1>6, <1>7 DEF IInv

LEMMA SameWork ==
    ASSUME WorkInv, UNCHANGED <<work, pc, bp, db>>, reorg_count' \in Int,
           cached_height \in Int, cached_height' \in Int, cached_height' >= cached_height
    PROVE  WorkInv'
<1>1. \A b : Fetched(b) => Fetched(b)'
  BY KnownFacts DEF Fetched
<1> QED
  BY <1>1 DEF WorkInv

\* Work that the process goes on to do, at a place where nothing is expected of it.
LEMMA OtherWork ==
    ASSUME work'.after \in {"top", "reopen", "reorg", "notify", "forced", "exit"},
           work'.after # "notify" => work'.flush_utxos = TRUE,
           work'.start \in Int, work'.count \in Int, reorg_count' \in Int,
           pc' \notin {"probe", "flush_utxos", "reopen", "advance"}
    PROVE  WorkInv'
  BY DEF WorkInv

LEMMA NoWorkFacts ==
    /\ NoWork.after = "top" /\ NoWork.flush_utxos = TRUE /\ NoWork.start = 0 /\ NoWork.count = 0
    /\ NoWork = [batch |-> <<>>, after |-> "top", flush_utxos |-> TRUE, start |-> 0, count |-> 0]
  BY DEF NoWork

-----------------------------------------------------------------------------
(* The actions of the daemon, the prefetcher and the operator.              *)

LEMMA InitInv == Init => IInv
<1> SUFFICES ASSUME Init PROVE IInv
  OBVIOUS
<1>1. ChainInv
  <2>1. best \in DaemonTips /\ Height(best) \in Int /\ Height(best) >= 0
    BY ConstantFacts DEF Init
  <2> QED
    BY <2>1 DEF Init, ChainInv
<1>2. Shapes
  BY DEF Init, Shapes, EmptyState, EmptyBp, EmptyDb, NoWork
<1>3. Committed = NoBlock /\ disk.state = EmptyState
  BY DEF Init, Committed, EmptyState
<1>4. NoBlock \in Tips /\ Height(NoBlock) = -1 /\ TxCount(NoBlock) = 0
  BY TipsFacts, HeightFacts
<1>5. DiskInv
  <2>1. Known(Committed)
    <3>1. best \in DaemonTips /\ best \in Tips
      BY ConstantFacts DEF Init
    <3> QED
      BY <1>3, <1>4, <3>1, ExtendsNone DEF Known
  <2>2. TablesMatchTip
    <3>1. disk.state.height = Height(Committed) /\ disk.state.tx_count = TxCount(Committed)
      BY <1>3, <1>4 DEF EmptyState
    <3>2. disk.h = {} /\ disk.u = {} /\ disk.history = {}
      BY DEF Init
    <3>3. Unspent[Committed] = {} /\ Touches[Committed] = {}
      BY <1>3, NoneFacts
    <3> QED
      BY <3>1, <3>2, <3>3 DEF TablesMatchTip, Committed
  <2>3. FilesHold(Committed)
    <3>1. Path[NoBlock] = <<>> /\ ChainTxs[NoBlock] = <<>>
      BY PathFacts, ChainTxsFacts
    <3>2. TxCounts[NoBlock] = <<>>
      BY <1>4, <3>1 DEF TxCounts
    <3>3. files.headers = <<>> /\ files.tx_counts = <<>> /\ files.hashes = <<>>
      BY DEF Init
    <3>4. \A S : Begins(S, <<>>, <<>>)
      BY EmptySeq DEF Begins
    <3> QED
      BY <1>3, <3>1, <3>2, <3>3, <3>4 DEF FilesHold, FilesAre
  <2>4. DOMAIN disk.undo = {}
    BY DEF Init
  <2> QED
    BY <2>1, <2>2, <2>3, <2>4 DEF DiskInv, UndoRight, UndoSound
<1>6. ReachInv
  <2>1. Height(Committed) = -1
    BY <1>3, <1>4
  <2>2. Reached >= 0
    BY ConstantFacts DEF Init, Reached
  <2>3. Reached \in Int
    BY <1>1, ReachedFacts
  <2> QED
    BY <2>1, <2>2, <2>3 DEF ReachInv, UndoThere
<1>7. WorkInv
  BY NoWorkFacts DEF Init, WorkInv
<1> QED
  BY <1>1, <1>2, <1>5, <1>6, <1>7 DEF IInv, Init

LEMMA NewBestInv ==
    ASSUME IInv, NewBest
    PROVE  IInv'
<1>1. /\ best' \in DaemonTips /\ Height(best') > Height(best)
      /\ UNCHANGED <<prior_best, prefetchVars, pc, memVars, diskVars>>
  BY DEF NewBest
<1>2. ChainInv /\ Shapes /\ DiskInv /\ ReachInv /\ WorkInv
  BY DEF IInv
<1>3. cached_height \in Int /\ cached_height' = cached_height /\ cached_height <= Height(best)
      /\ Height(best) \in Int /\ Height(best') \in Int
  BY <1>1, <1>2, ConstantFacts DEF ChainInv, prefetchVars
<1>4. ChainInv'
  <2>1. \A b : Fetched(b) => Fetched(b)'
    BY <1>3 DEF Fetched
  <2> QED
    BY <1>1, <1>2, <1>3, <2>1 DEF ChainInv, prefetchVars
<1>5. Shapes'
  BY <1>1, <1>2, SameShapes DEF memVars, diskVars
<1>6. DiskInv'
  BY <1>1, <1>2, SameDisk DEF diskVars
<1>7. Reached' >= Reached
  BY <1>1, <1>3 DEF Reached
<1>8. ReachInv'
  BY <1>1, <1>2, <1>4, <1>7, SameReach DEF diskVars
<1>0. UNCHANGED <<work, pc, bp, db, disk, files>> /\ cached_height' >= cached_height
      /\ db'.fs_height = db.fs_height /\ db'.height = db.height /\ cached_height' \in Int
  BY <1>1, <1>3 DEF memVars, diskVars
<1>9. WorkInv'
  <2>1. reorg_count' \in Int
    BY <1>1, <1>2 DEF WorkInv, memVars
  <2> QED
    BY ONLY <1>0, <1>2, <1>3, <2>1, SameWork
<1>10. ASSUME pc' # "down" PROVE TipInv' /\ (Ahead' \/ Behind')
  <2>1. pc' = pc /\ TipInv /\ (Ahead \/ Behind)
    BY <1>1, <1>10 DEF IInv
  <2>2. TipInv'
    BY <1>1, <1>3, <2>1, SameTip DEF memVars, diskVars
  <2>3. CASE Ahead
    <3>1. pc' # "flush_backup"
      BY <2>1, <2>3 DEF Ahead
    <3> QED
      BY ONLY <1>0, <1>2, <1>3, <2>1, <2>2, <2>3, <3>1, SameAhead
  <2>4. CASE Behind
    <3>1. pc' \in {"flush_backup", "flush", "failed"}
      BY <2>1, <2>4 DEF Behind
    <3> QED
      BY ONLY <1>0, <2>2, <2>4, <3>1, SameBehind
  <2> QED
    BY <2>1, <2>2, <2>3, <2>4
<1> QED
  BY <1>4, <1>5, <1>6, <1>8, <1>9, <1>10 DEF IInv

LEMMA PrefetchInv ==
    ASSUME IInv, Prefetching
    PROVE  IInv'
<1>1. PICK count \in 1 .. MaxQueue : \E old \in 0 .. count - 1 : Prefetch(count, old)
  BY DEF Prefetching
<1>2. PICK old \in 0 .. count - 1 : Prefetch(count, old)
  BY <1>1
<1> DEFINE tip(i) == IF i <= old THEN prior_best ELSE best
           new == [i \in 1 .. count |-> Path[tip(i)][fetched_height + 1 + i]]
<1>3. /\ pc # "down" /\ count <= Height(best) - fetched_height
      /\ old = 0 \/ fetched_height + old <= Height(prior_best)
      /\ queue' = queue \o new /\ fetched_height' = fetched_height + count
      /\ cached_height' = Height(best) /\ prior_best' = best
      /\ UNCHANGED <<best, pc, memVars, diskVars, countVars>>
  BY <1>2 DEF Prefetch
<1>4. ChainInv /\ Shapes /\ WorkInv
  BY DEF IInv
<1>5. /\ cached_height \in Int /\ cached_height <= Height(best) /\ Height(best) \in Int
      /\ Height(prior_best) \in Int /\ fetched_height \in Int /\ fetched_height >= -1
      /\ count \in Nat /\ old \in Nat /\ old < count
  BY <1>4, ConstantFacts DEF ChainInv
<1>6. cached_height' \in Int /\ cached_height' >= cached_height
  BY <1>3, <1>5
<1>7. ASSUME NEW i \in 1 .. count
      PROVE  new[i] \in Blocks /\ Known(new[i]) /\ Height(new[i]) <= cached_height'
  <2> DEFINE h == fetched_height + i
             t == tip(i)
  <2>1. t \in DaemonTips /\ t \in Tips /\ Known(t)
    BY <1>4, ConstantFacts DEF ChainInv
  <2>2. h \in 0 .. Height(t) /\ h <= Height(best) /\ fetched_height + 1 + i = h + 1
    BY <1>3, <1>5
  <2> HIDE DEF h, t
  <2>3. Path[t][h + 1] \in Blocks /\ Height(Path[t][h + 1]) = h /\ Extends(t, Path[t][h + 1])
    BY <2>1, <2>2, Ancestors
  <2>4. Known(Path[t][h + 1])
    BY <2>1, <2>3, TipsFacts, KnownFacts
  <2>5. new[i] = Path[t][h + 1]
    BY <2>2 DEF t
  <2> HIDE DEF new
  <2> QED
    BY <1>3, <2>2, <2>3, <2>4, <2>5
<1>8. ChainInv'
  <2> DEFINE Ok(b) == b \in Blocks /\ Known(b) /\ Height(b) <= cached_height'
  <2>1. \A b : Fetched(b) => Ok(b)
    BY <1>5, <1>6, KnownFacts DEF Fetched
  <2>2. new \in Seq(Blocks) /\ Len(new) = count
    <3>1. \A i \in 1 .. count : new[i] \in Blocks
      BY <1>7
    <3> QED
      BY <1>5, <3>1
  <2>3. \A i \in 1 .. Len(new) : Ok(new[i])
    <3> HIDE DEF new
    <3> QED
      BY <1>7, <2>2
  <2> HIDE DEF new, Ok
  <2>4. queue \in Seq(Blocks) /\ \A i \in 1 .. Len(queue) : Ok(queue[i])
    BY <1>4, <2>1 DEF ChainInv
  <2>5. queue' \in Seq(Blocks) /\ \A i \in 1 .. Len(queue') : Ok(queue'[i])
    <3>1. queue \o new \in Seq(Blocks) /\ Len(queue \o new) = Len(queue) + Len(new)
          /\ \A i \in 1 .. Len(queue) + Len(new) :
               (queue \o new)[i] = IF i <= Len(queue) THEN queue[i] ELSE new[i - Len(queue)]
      BY <2>2, <2>4, ConcatProperties
    <3>2. Len(queue) \in Nat /\ Len(new) \in Nat
      BY <2>2, <2>4, LenProperties
    <3>3. ASSUME NEW i \in 1 .. Len(queue) + Len(new) PROVE Ok((queue \o new)[i])
      <4>1. CASE i <= Len(queue)
        BY <2>4, <3>1, <3>2, <4>1
      <4>2. CASE ~(i <= Len(queue))
        <5>1. i - Len(queue) \in 1 .. Len(new)
          BY <3>2, <4>2
        <5> QED
          BY <2>3, <3>1, <4>2, <5>1
      <4> QED
        BY <4>1, <4>2
    <3> QED
      BY <1>3, <3>1, <3>3
  <2>6. fetched_height' \in Int /\ fetched_height' >= -1
    BY <1>3, <1>5
  <2>7. (\A i \in 1 .. Len(queue) : Fetched(queue[i]))'
    BY <2>5 DEF Ok, Fetched
  <2> QED
    BY <1>3, <1>4, <1>5, <2>5, <2>6, <2>7 DEF ChainInv
<1>9. UNCHANGED <<work, pc, bp, db, disk, files, tx_counts>> /\ reorg_count' \in Int
      /\ db'.fs_height = db.fs_height /\ db'.height = db.height /\ db'.tip = db.tip
  BY <1>3, <1>4 DEF memVars, diskVars, WorkInv
<1>10. WorkInv'
  BY ONLY <1>4, <1>5, <1>6, <1>9, SameWork
<1>11. Shapes'
  BY <1>4, <1>9, SameShapes
<1>12. (Ahead /\ pc' # "flush_backup") \/ (Behind /\ pc' \in {"flush_backup", "flush", "failed"})
  BY <1>3, <1>9 DEF IInv, Ahead, Behind
<1>13. pc # "down" /\ pc' # "down"
  BY <1>3, <1>9
<1> QED
  BY ONLY IInv, <1>6, <1>8, <1>9, <1>10, <1>11, <1>12, <1>13, SameMemory

LEMMA ForceReorgInv ==
    ASSUME IInv, NEW count \in 1 .. MaxForced, ForceReorg(count)
    PROVE  IInv'
<1>1. /\ pc # "down" /\ reorg_count' = count
      /\ UNCHANGED <<daemonVars, prefetchVars, pc, bp, work, caught_up, db, tx_counts, diskVars>>
  BY DEF ForceReorg
<1>2. ChainInv /\ Shapes /\ WorkInv
  BY DEF IInv
<1>3. UNCHANGED <<work, pc, bp, db, disk, files, tx_counts>> /\ reorg_count' \in Int
      /\ db'.fs_height = db.fs_height /\ db'.height = db.height /\ db'.tip = db.tip
      /\ cached_height \in Int /\ cached_height' \in Int /\ cached_height' >= cached_height
      /\ pc' # "down"
  BY <1>1, <1>2, ConstantFacts DEF diskVars, prefetchVars, ChainInv
<1>4. ChainInv'
  BY <1>1, <1>2 DEF ChainInv, Fetched, prefetchVars, daemonVars
<1>5. WorkInv'
  BY ONLY <1>2, <1>3, SameWork
<1>6. Shapes'
  BY <1>2, <1>3, SameShapes
<1>7. (Ahead /\ pc' # "flush_backup") \/ (Behind /\ pc' \in {"flush_backup", "flush", "failed"})
  BY <1>1, <1>3 DEF IInv, Ahead, Behind
<1> QED
  BY ONLY IInv, <1>1, <1>3, <1>4, <1>5, <1>6, <1>7, SameMemory

-----------------------------------------------------------------------------
(* Stopping.                                                                *)

LEMMA StopInv ==
    ASSUME IInv, Stop, UNCHANGED <<daemonVars, diskVars>>
    PROVE  IInv'
<1>1. ChainInv /\ Shapes /\ DiskInv /\ ReachInv
  BY DEF IInv
<1>2. /\ pc' = "down" /\ bp' = EmptyBp /\ work' = NoWork /\ reorg_count' = 0 /\ db' = EmptyDb
      /\ cached_height' = -1 /\ queue' = <<>> /\ fetched_height' = -1
      /\ UNCHANGED <<best, prior_best, disk, files>>
  BY DEF Stop, daemonVars, diskVars
<1>3. ChainInv'
  BY <1>1, <1>2, ConstantFacts DEF ChainInv
<1>4. Shapes'
  BY <1>1, <1>2, NoWorkFacts DEF Shapes, EmptyBp, EmptyDb
<1>5. DiskInv'
  BY <1>1, <1>2, SameDisk
<1>6. Reached' >= Reached
  <2>1. Reached' = Height(best)
    BY <1>2 DEF Reached
  <2> QED
    BY <1>1, <2>1, ReachedFacts
<1>7. ReachInv'
  BY ONLY <1>1, <1>2, <1>3, <1>6, SameReach
<1>8. WorkInv'
  BY <1>2, NoWorkFacts DEF WorkInv
<1> QED
  BY <1>2, <1>3, <1>4, <1>5, <1>7, <1>8 DEF IInv

LEMMA DownInv ==
    ASSUME IInv, Crash \/ RestartFailed \/ Exit
    PROVE  IInv'
  BY StopInv DEF Crash, RestartFailed, Exit

LEMMA ShutdownInv ==
    ASSUME IInv, Shutdown
    PROVE  IInv'
<1>1. /\ pc # "down" /\ work' = [NoWork EXCEPT !.after = "exit"] /\ pc' = "flush"
      /\ UNCHANGED <<daemonVars, prefetchVars, bp, reorg_count, db, tx_counts, diskVars>>
  BY ConstantFacts DEF Shutdown
<1>2. ChainInv /\ Shapes /\ WorkInv
  BY DEF IInv
<1>3. UNCHANGED <<bp, db, disk, files, tx_counts>>
      /\ db'.fs_height = db.fs_height /\ db'.height = db.height /\ db'.tip = db.tip
      /\ cached_height' >= cached_height /\ pc' # "down"
  BY <1>1, <1>2 DEF diskVars, prefetchVars, ChainInv
<1>4. ChainInv'
  BY <1>1, <1>2 DEF ChainInv, Fetched, prefetchVars, daemonVars
<1>5. work' = [batch |-> <<>>, after |-> "exit", flush_utxos |-> TRUE, start |-> 0, count |-> 0]
  BY <1>1, NoWorkFacts
<1>6. WorkInv'
  <2>1. reorg_count' \in Int
    BY <1>1, <1>2 DEF WorkInv
  <2> QED
    BY <1>1, <1>5, <2>1 DEF WorkInv
<1>7. Shapes'
  BY <1>2, <1>3, <1>5 DEF Shapes
<1>8. (Ahead /\ pc' # "flush_backup") \/ (Behind /\ pc' \in {"flush_backup", "flush", "failed"})
  BY <1>1 DEF IInv
<1> QED
  BY ONLY IInv, <1>1, <1>3, <1>4, <1>6, <1>7, <1>8, SameMemory

-----------------------------------------------------------------------------
(* Steps from one place of the loop to the next.                            *)

LEMMA SameChain ==
    ASSUME ChainInv, UNCHANGED <<daemonVars, prefetchVars>>
    PROVE  ChainInv'
  BY DEF ChainInv, Fetched, daemonVars, prefetchVars

LEMMA ResetChain ==
    ASSUME ChainInv, NEW height \in Int, height >= -1, ResetHeight(height), UNCHANGED daemonVars
    PROVE  ChainInv' /\ cached_height' >= cached_height /\ cached_height' = Height(best)
<1>1. best' = best /\ prior_best' = prior_best /\ queue' = <<>> /\ fetched_height' = height
      /\ cached_height' = Height(best)
  BY DEF ResetHeight, daemonVars
<1>2. Height(best) \in Int
  BY ConstantFacts DEF ChainInv
<1> QED
  BY <1>1, <1>2 DEF ChainInv

LEMMA TipFacts ==
    ASSUME IInv, pc # "down"
    PROVE  /\ TipInv /\ bp.tip \in Tips /\ bp.height \in Int /\ bp.height >= -1
           /\ bp.height = Height(bp.tip) /\ (pc \notin {"flush_backup", "flush", "failed"} => Ahead)
  BY KnownFacts DEF IInv, TipInv, Behind

IsWork(w) == w = [batch |-> w.batch, after |-> w.after, flush_utxos |-> w.flush_utxos,
                  start |-> w.start, count |-> w.count]

LEMMA MoveInv ==
    ASSUME IInv, ChainInv', WorkInv', IsWork(work'), UNCHANGED <<disk, files, bp, tx_counts, db>>,
           pc # "down", pc' # "down", cached_height' >= cached_height, Ahead, pc' # "flush_backup"
    PROVE  IInv'
<1>1. db'.height = db.height /\ db'.tip = db.tip /\ db'.fs_height = db.fs_height
  OBVIOUS
<1>2. Shapes'
  BY DEF IInv, Shapes, IsWork
<1> QED
  BY <1>1, <1>2, SameMemory

\* Where only `work' and `pc' change.
LEMMA OnlyWork ==
    ASSUME IInv, WorkInv', IsWork(work'), Ahead, pc # "down", pc' \notin {"down", "flush_backup"},
           UNCHANGED <<daemonVars, prefetchVars, bp, db, tx_counts, diskVars>>
    PROVE  IInv'
<1>1. ChainInv' /\ cached_height' >= cached_height
  BY SameChain DEF IInv, ChainInv, prefetchVars
<1>2. UNCHANGED <<disk, files, bp, tx_counts, db>>
  BY DEF diskVars
<1> QED
  BY ONLY IInv, WorkInv', IsWork(work'), Ahead, pc # "down", pc' \notin {"down", "flush_backup"},
          <1>1, <1>2, MoveInv

LEMMA FlushNothingInv ==
    ASSUME IInv, FlushNothing
    PROVE  IInv'
<1>1. /\ pc = "flush" /\ bp.height = db.height
      /\ pc' = IF AssertFlushed THEN work.after ELSE "failed"
      /\ UNCHANGED <<daemonVars, prefetchVars, bp, db, tx_counts, diskVars, work, reorg_count>>
  BY DEF FlushNothing, memVars
<1>2. Ahead
  BY <1>1, TipFacts DEF IInv, Behind
<1>3. WorkInv /\ IsWork(work)
  BY DEF IInv, Shapes, IsWork
<1>4. pc' \in {"top", "reopen", "reorg", "notify", "forced", "exit", "failed"}
  BY <1>1, <1>3 DEF WorkInv
<1>5. pc' = "reopen" => db.fs_height = db.height
  BY <1>1 DEF AssertFlushed
<1>6. WorkInv'
  BY <1>1, <1>3, <1>4, <1>5 DEF WorkInv
<1>7. IsWork(work')
  BY <1>1, <1>3
<1> QED
  BY <1>1, <1>2, <1>4, <1>6, <1>7, OnlyWork

LEMMA TopInv ==
    ASSUME IInv, Top
    PROVE  IInv'
<1>1. /\ pc = "top" /\ pc' \in {"flush", "wait"}
      /\ db' = db \/ db' = [db EXCEPT !.first_sync = FALSE]
      /\ work' = work \/ work' = [NoWork EXCEPT !.after = "reopen"]
      /\ UNCHANGED <<daemonVars, prefetchVars, bp, tx_counts, diskVars, reorg_count>>
  BY DEF Top
<1>2. Ahead
  BY <1>1, TipFacts
<1>3. WorkInv /\ Shapes
  BY DEF IInv
<1>4. \/ work' = work
      \/ work' = [batch |-> <<>>, after |-> "reopen", flush_utxos |-> TRUE, start |-> 0, count |-> 0]
  <2>1. ASSUME work' = [NoWork EXCEPT !.after = "reopen"]
        PROVE  work' = [batch |-> <<>>, after |-> "reopen", flush_utxos |-> TRUE, start |-> 0, count |-> 0]
    BY <2>1 DEF NoWork
  <2> QED
    BY <1>1, <2>1
<1>5. WorkInv'
  BY <1>1, <1>3, <1>4 DEF WorkInv
<1>6. db'.height = db.height /\ db'.tip = db.tip /\ db'.fs_height = db.fs_height
      /\ db' = [height |-> db'.height, tx_count |-> db'.tx_count, tip |-> db'.tip,
                first_sync |-> db'.first_sync, fs_height |-> db'.fs_height]
  <2>1. CASE db' = db
    BY <1>3, <2>1 DEF Shapes
  <2>2. CASE db' = [db EXCEPT !.first_sync = FALSE]
    <3>1. db = [height |-> db.height, tx_count |-> db.tx_count, tip |-> db.tip,
                first_sync |-> db.first_sync, fs_height |-> db.fs_height]
      BY <1>3 DEF Shapes
    <3>2. db' = [height |-> db.height, tx_count |-> db.tx_count, tip |-> db.tip,
                 first_sync |-> FALSE, fs_height |-> db.fs_height]
      BY <2>2, <3>1
    <3> QED
      BY <3>2
  <2> QED
    BY <1>1, <2>1, <2>2
<1>7. IsWork(work')
  BY <1>1, <1>3, <1>4 DEF Shapes, IsWork
<1>8. Shapes'
  BY <1>1, <1>3, <1>6, <1>7 DEF Shapes, IsWork, diskVars
<1>9. ChainInv' /\ cached_height' >= cached_height
  BY <1>1, SameChain DEF IInv, ChainInv, prefetchVars
<1>10. UNCHANGED <<disk, files, bp, tx_counts>> /\ pc # "down" /\ pc' # "down" /\ pc' # "flush_backup"
  BY <1>1 DEF diskVars
<1> QED
  BY ONLY IInv, <1>2, <1>5, <1>6, <1>8, <1>9, <1>10, SameMemory

LEMMA TakeForcedReorgInv ==
    ASSUME IInv, TakeForcedReorg
    PROVE  IInv'
<1>1. /\ pc = "wait" /\ pc' = "flush"
      /\ work' = [NoWork EXCEPT !.after = "forced", !.count = reorg_count]
      /\ UNCHANGED <<daemonVars, prefetchVars, bp, db, tx_counts, diskVars, reorg_count>>
  BY DEF TakeForcedReorg
<1>2. Ahead
  BY <1>1, TipFacts
<1>3. work' = [batch |-> <<>>, after |-> "forced", flush_utxos |-> TRUE, start |-> 0, count |-> reorg_count]
  BY <1>1, NoWorkFacts
<1>4. WorkInv'
  <2>1. reorg_count' \in Int /\ reorg_count \in Int
    BY <1>1 DEF IInv, WorkInv
  <2>2. /\ work'.after \in {"top", "reopen", "reorg", "notify", "forced", "exit"}
        /\ (work'.after # "notify" => work'.flush_utxos = TRUE)
        /\ work'.start \in Int /\ work'.count \in Int
    BY <1>3, <2>1
  <2>3. pc' \notin {"probe", "flush_utxos", "reopen", "advance"}
    BY <1>1
  <2> QED
    BY ONLY <2>1, <2>2, <2>3, OtherWork
<1>5. IsWork(work')
  BY <1>3 DEF IsWork
<1> QED
  BY <1>1, <1>2, <1>4, <1>5, OnlyWork

LEMMA ForcedRangeInv ==
    ASSUME IInv, ForcedRange
    PROVE  IInv'
<1>1. /\ pc = "forced" /\ pc' \in {"backup", "failed"}
      /\ work' = [work EXCEPT !.start = bp.height - work.count + 1]
      /\ UNCHANGED <<daemonVars, prefetchVars, bp, db, tx_counts, diskVars, reorg_count>>
  BY DEF ForcedRange
<1>2. Ahead /\ bp.height \in Int
  BY <1>1, TipFacts
<1>3. WorkInv /\ IsWork(work)
  BY DEF IInv, Shapes, IsWork
<1>4. work' = [batch |-> work.batch, after |-> work.after, flush_utxos |-> work.flush_utxos,
               start |-> bp.height - work.count + 1, count |-> work.count]
  BY <1>1, <1>3 DEF IsWork
<1>5. bp.height - work.count + 1 \in Int
  BY <1>2, <1>3 DEF WorkInv
<1>6. WorkInv'
  BY <1>1, <1>3, <1>4, <1>5 DEF WorkInv
<1>7. IsWork(work')
  BY <1>4 DEF IsWork
<1> QED
  BY <1>1, <1>2, <1>6, <1>7, OnlyWork

LEMMA RealRangeInv ==
    ASSUME IInv, RealRange
    PROVE  IInv'
<1>1. /\ pc = "reorg" /\ pc' = "probe"
      /\ work' = [work EXCEPT !.start = bp.height - 1, !.count = 1]
      /\ UNCHANGED <<daemonVars, prefetchVars, bp, db, tx_counts, diskVars, reorg_count>>
  BY DEF RealRange
<1>2. Ahead /\ bp.height \in Int
  BY <1>1, TipFacts
<1>3. WorkInv /\ IsWork(work)
  BY DEF IInv, Shapes, IsWork
<1>4. work' = [batch |-> work.batch, after |-> work.after, flush_utxos |-> work.flush_utxos,
               start |-> bp.height - 1, count |-> 1]
  BY <1>1, <1>3 DEF IsWork
<1>5. bp.height - 1 \in Int
  BY <1>2
<1>6. WorkInv'
  BY <1>1, <1>3, <1>4, <1>5 DEF WorkInv
<1>7. IsWork(work')
  BY <1>4 DEF IsWork
<1> QED
  BY <1>1, <1>2, <1>6, <1>7, OnlyWork

LEMMA MaybeFlushInv ==
    ASSUME IInv, NEW needed \in BOOLEAN, NEW flush_utxos \in BOOLEAN, MaybeFlush(needed, flush_utxos)
    PROVE  IInv'
<1>1. /\ pc = "advanced" /\ pc' \in {"flush", "notify"}
      /\ work' = [NoWork EXCEPT !.after = "notify", !.flush_utxos = flush_utxos]
      /\ UNCHANGED <<daemonVars, prefetchVars, bp, db, tx_counts, diskVars, reorg_count>>
  BY DEF MaybeFlush
<1>2. Ahead
  BY <1>1, TipFacts
<1>3. work' = [batch |-> <<>>, after |-> "notify", flush_utxos |-> flush_utxos, start |-> 0, count |-> 0]
  BY <1>1, NoWorkFacts
<1>4. WorkInv'
  <2>1. reorg_count' \in Int /\ reorg_count \in Int
    BY <1>1 DEF IInv, WorkInv
  <2>2. /\ work'.after \in {"top", "reopen", "reorg", "notify", "forced", "exit"}
        /\ (work'.after # "notify" => work'.flush_utxos = TRUE)
        /\ work'.start \in Int /\ work'.count \in Int
    BY <1>3, <2>1
  <2>3. pc' \notin {"probe", "flush_utxos", "reopen", "advance"}
    BY <1>1
  <2> QED
    BY ONLY <2>1, <2>2, <2>3, OtherWork
<1>5. IsWork(work')
  BY <1>3 DEF IsWork
<1> QED
  BY <1>1, <1>2, <1>4, <1>5, OnlyWork


\* Where two chains begin to differ.
LEMMA CommonFacts ==
    ASSUME NEW start \in Int, NEW count \in Nat
    PROVE  LET n == Common(start, count) IN
           /\ n \in 0 .. count
           /\ n < count => files.headers[start + (n + 1)] # Path[best][start + (n + 1)]
<1> DEFINE same == { n \in 0 .. count :
                       \A i \in 1 .. n : files.headers[start + i] = Path[best][start + i] }
<1>1. 0 \in same
  OBVIOUS
<1>2. \E n \in same : \A m \in same : m <= n
  <2>1. SUFFICES ASSUME \A n \in same : \E m \in same : ~(m <= n)
                 PROVE  FALSE
    OBVIOUS
  <2>2. \A n \in same : n \in 0 .. count
    OBVIOUS
  <2> HIDE DEF same
  <2> DEFINE D == { k \in Nat : \E n \in same : n >= k }
  <2>3. 0 \in D
    BY <1>1
  <2>4. ASSUME NEW k \in Nat, k \in D PROVE k + 1 \in D
    <3>1. PICK n \in same : n >= k
      BY <2>4
    <3>2. PICK m \in same : ~(m <= n)
      BY <2>1
    <3> QED
      BY <2>2, <3>1, <3>2
  <2>5. \A k \in D : \E n \in same : n >= k
    OBVIOUS
  <2> HIDE DEF D
  <2>6. \A k \in Nat : k \in D
    BY <2>3, <2>4, Counting
  <2>7. count + 1 \in D
    BY <2>6
  <2> QED
    BY <2>2, <2>5, <2>7
<1>3. Common(start, count) = CHOOSE n \in same : \A m \in same : m <= n
  BY DEF Common
<1>4. Common(start, count) \in same /\ \A m \in same : m <= Common(start, count)
  <2> HIDE DEF same
  <2> QED
    BY <1>2, <1>3
<1> DEFINE n == Common(start, count)
<1>5. n \in 0 .. count /\ \A i \in 1 .. n : files.headers[start + i] = Path[best][start + i]
  BY <1>4
<1> HIDE DEF n
<1>6. ASSUME n < count, files.headers[start + (n + 1)] = Path[best][start + (n + 1)]
      PROVE  FALSE
  <2>1. n + 1 \in 0 .. count /\ \A i \in 1 .. n + 1 : i \in 1 .. n \/ i = n + 1
    BY <1>5, <1>6
  <2>2. n + 1 \in same
    BY <1>5, <1>6, <2>1
  <2>3. n + 1 <= n
    BY <1>4, <2>2 DEF n
  <2> QED
    BY <1>5, <2>3
<1> QED
  BY <1>5, <1>6 DEF n

LEMMA ProbeInv ==
    ASSUME IInv, Probe
    PROVE  IInv'
<1>1. WorkInv /\ IsWork(work)
  BY DEF IInv, Shapes, IsWork
<1>2. /\ pc = "probe"
      /\ UNCHANGED <<daemonVars, prefetchVars, bp, db, tx_counts, diskVars, reorg_count>>
  BY DEF Probe
<1>3. Ahead /\ bp.height \in Int
  BY <1>2, TipFacts
<1>4. work.start \in Int /\ work.count \in Nat /\ reorg_count' \in Int
  BY <1>1, <1>2 DEF WorkInv
<1> DEFINE n == Common(work.start, work.count)
           count == IF work.count * 2 < work.start THEN work.count * 2 ELSE work.start
<1>5. n \in Int
  <2>1. n \in 0 .. work.count
    BY <1>4, CommonFacts
  <2> QED
    BY <1>4, <2>1
<1>6. count \in Int /\ (work.start > 0 => count \in Nat)
  <2>1. work.count * 2 \in Nat
    BY <1>4
  <2> QED
    BY <1>4, <2>1
<1>7. \/ pc' \in {"backup", "failed"}
         /\ work' = [work EXCEPT !.start = work.start, !.count = bp.height - work.start + 1]
      \/ pc' = "backup"
         /\ work' = [work EXCEPT !.start = work.start + n,
                                 !.count = bp.height - (work.start + n) + 1]
      \/ pc' = "probe" /\ work.start > 0
         /\ work' = [work EXCEPT !.start = work.start - count, !.count = count]
  <2> HIDE DEF n, count
  <2>1. IF work.start <= 0
        THEN pc' \in {"backup", "failed"}
             /\ work' = [work EXCEPT !.start = work.start, !.count = bp.height - work.start + 1]
        ELSE IF n > 0
        THEN pc' = "backup"
             /\ work' = [work EXCEPT !.start = work.start + n,
                                 !.count = bp.height - (work.start + n) + 1]
        ELSE pc' = "probe"
             /\ work' = [work EXCEPT !.start = work.start - count, !.count = count]
    BY DEF Probe, n, count
  <2> QED
    BY <1>4, <2>1
<1> HIDE DEF n, count
<1>8. PICK start \in Int, length \in Int :
         /\ work' = [work EXCEPT !.start = start, !.count = length]
         /\ pc' \in {"backup", "failed", "probe"} /\ (pc' = "probe" => length \in Nat)
  <2>1. bp.height - work.start + 1 \in Int /\ work.start + n \in Int
        /\ bp.height - (work.start + n) + 1 \in Int /\ work.start - count \in Int
    BY <1>3, <1>4, <1>5, <1>6
  <2> QED
    BY <1>4, <1>6, <1>7, <2>1
<1>9. work' = [batch |-> work.batch, after |-> work.after, flush_utxos |-> work.flush_utxos,
               start |-> start, count |-> length]
  BY <1>1, <1>8 DEF IsWork
<1>10. WorkInv'
  BY <1>1, <1>4, <1>8, <1>9 DEF WorkInv
<1>11. IsWork(work')
  BY <1>9 DEF IsWork
<1>12. pc # "down" /\ pc' \notin {"down", "flush_backup"}
  BY <1>2, <1>8
<1> QED
  BY ONLY IInv, <1>2, <1>3, <1>10, <1>11, <1>12, OnlyWork

LEMMA TakeBlocksInv ==
    ASSUME IInv, TakeBlocks
    PROVE  IInv'
<1>1. /\ pc = "wait" /\ queue # <<>>
      /\ UNCHANGED <<daemonVars, bp, db, tx_counts, diskVars, reorg_count>>
  BY DEF TakeBlocks
<1>2. Ahead /\ bp.height \in Int /\ bp.height >= -1
  BY <1>1, TipFacts
<1>3. ChainInv /\ WorkInv /\ IsWork(work) /\ reorg_count' \in Int
  BY <1>1 DEF IInv, Shapes, IsWork, WorkInv
<1>4. cached_height \in Int
  BY <1>3 DEF ChainInv
<1>5. UNCHANGED <<disk, files, bp, tx_counts, db>>
  BY <1>1 DEF diskVars
<1>6. CASE \A i \in DOMAIN queue : Linked[i]
  <2>1. /\ pc' = "advance" /\ work' = [NoWork EXCEPT !.batch = queue] /\ queue' = <<>>
        /\ UNCHANGED <<fetched_height, cached_height>>
    BY <1>6 DEF TakeBlocks
  <2>2. work' = [batch |-> queue, after |-> "top", flush_utxos |-> TRUE, start |-> 0, count |-> 0]
    BY <2>1 DEF NoWork
  <2>3. ChainInv'
    BY <1>1, <1>3, <2>1 DEF ChainInv, daemonVars
  <2>4. \A i \in 1 .. Len(queue) : Prev[queue[i]] = IF i = 1 THEN bp.tip ELSE queue[i - 1]
    <3>1. DOMAIN queue = 1 .. Len(queue)
      BY <1>3 DEF ChainInv
    <3> QED
      BY <1>6, <3>1 DEF Linked
  <2>5. queue \in Seq(Blocks)
        /\ \A i \in 1 .. Len(queue) :
             queue[i] \in Blocks /\ Known(queue[i]) /\ Height(queue[i]) <= cached_height'
    BY <1>3, <2>1 DEF ChainInv, Fetched
  <2>6. WorkInv'
    BY <1>1, <1>3, <2>1, <2>2, <2>4, <2>5 DEF WorkInv, Fetched
  <2>7. IsWork(work')
    BY <2>2 DEF IsWork
  <2>8. pc # "down" /\ pc' # "down" /\ pc' # "flush_backup" /\ cached_height' >= cached_height
    BY <1>1, <1>4, <2>1
  <2> QED
    BY ONLY IInv, <1>2, <1>5, <2>3, <2>6, <2>7, <2>8, MoveInv
<1>7. CASE ~(\A i \in DOMAIN queue : Linked[i]) /\ ~Linked[1]
  <2>1. /\ pc' = "flush" /\ work' = [NoWork EXCEPT !.after = "reorg"] /\ queue' = <<>>
        /\ UNCHANGED <<fetched_height, cached_height>>
    BY <1>7 DEF TakeBlocks
  <2>2. work' = [batch |-> <<>>, after |-> "reorg", flush_utxos |-> TRUE, start |-> 0, count |-> 0]
    BY <2>1 DEF NoWork
  <2>3. ChainInv'
    BY <1>1, <1>3, <2>1 DEF ChainInv, daemonVars
  <2>6. WorkInv'
    BY <1>3, <2>1, <2>2 DEF WorkInv
  <2>7. IsWork(work')
    BY <2>2 DEF IsWork
  <2>8. pc # "down" /\ pc' # "down" /\ pc' # "flush_backup" /\ cached_height' >= cached_height
    BY <1>1, <1>4, <2>1
  <2> QED
    BY ONLY IInv, <1>2, <1>5, <2>3, <2>6, <2>7, <2>8, MoveInv
<1>8. CASE ~(\A i \in DOMAIN queue : Linked[i]) /\ Linked[1]
  <2>1. ResetHeight(bp.height) /\ pc' = "top" /\ work' = work
    BY <1>8 DEF TakeBlocks
  <2>2. ChainInv' /\ cached_height' >= cached_height
    BY <1>1, <1>2, <1>3, <2>1, ResetChain
  <2>3. WorkInv'
    BY <1>1, <1>3, <2>1 DEF WorkInv
  <2>4. IsWork(work') /\ pc # "down" /\ pc' # "down" /\ pc' # "flush_backup"
    BY <1>1, <1>3, <2>1
  <2> QED
    BY ONLY IInv, <1>2, <1>5, <2>2, <2>3, <2>4, MoveInv
<1> QED
  BY <1>6, <1>7, <1>8


LEMMA NotifyInv ==
    ASSUME IInv, Notify
    PROVE  IInv'
<1>1. /\ pc = "notify" /\ pc' = "top" /\ bp' = [bp EXCEPT !.touched = {}]
      /\ UNCHANGED <<daemonVars, prefetchVars, work, db, tx_counts, diskVars, reorg_count>>
  BY DEF Notify
<1>2. TipInv /\ Ahead /\ ChainInv /\ Shapes /\ DiskInv /\ ReachInv /\ WorkInv
  BY <1>1, TipFacts DEF IInv
<1>3. bp' = [height |-> bp.height, tip |-> bp.tip, tx_count |-> bp.tx_count,
             headers |-> bp.headers, tx_hashes |-> bp.tx_hashes, undo_infos |-> bp.undo_infos,
             cache |-> bp.cache, deletes |-> bp.deletes, touched |-> {}, history |-> bp.history]
  BY <1>1, <1>2 DEF Shapes
<1>4. UNCHANGED <<disk, files, best, cached_height, Committed>>
  BY <1>1 DEF diskVars, daemonVars, prefetchVars, Committed
<1>5. ChainInv'
  BY <1>1, <1>2, SameChain
<1>6. Shapes'
  BY <1>1, <1>2, <1>3, <1>4 DEF Shapes
<1>7. DiskInv'
  BY <1>2, <1>4, SameDisk
<1>8. ReachInv'
  <2>1. Reached' = Reached
    BY <1>1, <1>4 DEF Reached
  <2> QED
    BY <1>2, <1>4, <2>1 DEF ReachInv, UndoThere
<1>9. WorkInv'
  BY <1>1, <1>2 DEF WorkInv
<1>10. TipInv'
  BY <1>1, <1>2, <1>3, <1>4 DEF TipInv, View
<1>11. Unwritten'
  BY <1>1, <1>2, <1>3, <1>4 DEF Ahead, Unwritten, FilesHold, FilesAre
<1>12. PendingUndo'
  BY <1>2, <1>3, <1>4 DEF Ahead, PendingUndo
<1>13. Ahead'
  BY <1>1, <1>2, <1>3, <1>4, <1>11, <1>12 DEF Ahead
<1> QED
  BY <1>5, <1>6, <1>7, <1>8, <1>9, <1>10, <1>13 DEF IInv

-----------------------------------------------------------------------------
(* Opening the databases.                                                   *)

\* What clear_excess_undo_info leaves is enough.
LEMMA ClearedUndo ==
    ASSUME ChainInv, Shapes, DiskInv, ReachInv, ClearExcessUndo, files' = files, Reached' = Reached
    PROVE  /\ disk' = [state |-> disk.state, h |-> disk.h, u |-> disk.u, undo |-> disk'.undo,
                       history |-> disk.history]
           /\ DiskInv' /\ ReachInv'
<1> DEFINE min == disk.state.height - ReorgLimit + 1
           old == disk.undo
<1>1. disk' = [disk EXCEPT !.undo = From(@, min)]
  BY DEF ClearExcessUndo, MinUndoHeight
<1>2. disk' = [state |-> disk.state, h |-> disk.h, u |-> disk.u, undo |-> From(old, min),
               history |-> disk.history]
  BY <1>1 DEF Shapes
<1>3. disk'.undo = From(old, min) /\ disk'.state = disk.state /\ disk'.h = disk.h /\ disk'.u = disk.u
      /\ disk'.history = disk.history /\ Committed' = Committed
  BY <1>2 DEF Committed
<1>4. /\ \A h : h \in DOMAIN disk'.undo <=> h \in DOMAIN old /\ h >= min
      /\ \A h \in DOMAIN disk'.undo : disk'.undo[h] = old[h]
  BY <1>3 DEF From
<1>5. Known(Committed) /\ Height(Committed) \in Int /\ disk.state.height = Height(Committed)
      /\ ReorgLimit \in Nat
  BY KnownFacts, ConstantFacts DEF DiskInv, TablesMatchTip, Committed
<1> HIDE DEF min, old
<1>6. UndoRight' /\ UndoSound'
  BY <1>3, <1>4 DEF DiskInv, UndoRight, UndoSound, old
<1>7. DiskInv'
  BY <1>3, <1>6 DEF DiskInv, TablesMatchTip, FilesHold, FilesAre, Committed
<1>8. ASSUME NEW h \in 0 .. Height(Committed), h + ReorgLimit > Reached
      PROVE  h \in DOMAIN disk'.undo
  <2>1. h \in DOMAIN old
    BY <1>8 DEF ReachInv, UndoThere, old
  <2>2. Reached \in Int /\ Height(Committed) <= Reached
    BY ReachedFacts DEF ReachInv
  <2>3. h + ReorgLimit > Height(Committed)
    BY <1>5, <1>8, <2>2
  <2>4. h >= min
    BY <1>5, <2>3 DEF min
  <2> QED
    BY <1>4, <2>1, <2>4
<1>9. ReachInv'
  BY <1>3, <1>8 DEF ReachInv, UndoThere
<1> QED
  BY <1>2, <1>3, <1>7, <1>9

LEMMA ReopenInv ==
    ASSUME IInv, Reopen
    PROVE  IInv'
<1>1. /\ pc = "reopen" /\ pc' = "wait" /\ ReadUtxoState /\ ClearExcessUndo
      /\ UNCHANGED <<daemonVars, prefetchVars, bp, work, tx_counts, files, reorg_count>>
  BY DEF Reopen
<1>2. TipInv /\ Ahead /\ ChainInv /\ Shapes /\ DiskInv /\ ReachInv /\ WorkInv
  BY <1>1, TipFacts DEF IInv
<1>3. UNCHANGED <<best, cached_height>> /\ files' = files
  BY <1>1 DEF daemonVars, prefetchVars
<1>4. Reached' = Reached
  BY <1>1, <1>3 DEF Reached
<1>5. /\ disk' = [state |-> disk.state, h |-> disk.h, u |-> disk.u, undo |-> disk'.undo,
                  history |-> disk.history]
      /\ DiskInv' /\ ReachInv'
  BY <1>1, <1>2, <1>3, <1>4, ClearedUndo
<1>6. disk'.state = disk.state /\ disk'.h = disk.h /\ Committed' = Committed
  BY <1>5 DEF Committed
<1>7. db' = [height |-> disk.state.height, tx_count |-> disk.state.tx_count, tip |-> disk.state.tip,
             first_sync |-> disk.state.first_sync, fs_height |-> disk.state.height]
  BY <1>1 DEF ReadUtxoState
<1>8. db'.height = disk.state.height /\ db'.tip = disk.state.tip /\ db'.fs_height = disk.state.height
  BY <1>7
<1>9. ChainInv'
  BY <1>1, <1>2, SameChain
<1>10. Shapes'
  BY <1>1, <1>2, <1>5, <1>6, <1>7 DEF Shapes
<1>11. WorkInv'
  BY <1>1, <1>2 DEF WorkInv
<1>12. TipInv'
  BY <1>1, <1>2, <1>3, <1>6, <1>8 DEF TipInv, View
<1>13. db'.fs_height = db.fs_height
  BY <1>1, <1>2, <1>8 DEF TipInv, WorkInv
<1>14. Unwritten'
  BY <1>1, <1>2, <1>3, <1>6, <1>13 DEF Ahead, Unwritten, FilesHold, FilesAre
<1>15. PendingUndo'
  BY <1>1, <1>2, <1>3, <1>6 DEF Ahead, PendingUndo
<1>16. Ahead'
  BY <1>1, <1>2, <1>6, <1>14, <1>15 DEF Ahead
<1> QED
  BY <1>5, <1>9, <1>10, <1>11, <1>12, <1>16 DEF IInv

\* A file that begins with what is known to be there.
LEMMA BeginsFacts ==
    ASSUME NEW S, NEW f, NEW s, Begins(S, f, s)
    PROVE  SubSeq(f, 1, Len(s)) = s
<1>1. f \in Seq(S) /\ s \in Seq(S) /\ Len(s) \in Nat /\ Len(f) \in Nat /\ Len(s) <= Len(f)
      /\ \A i \in 1 .. Len(s) : f[i] = s[i]
  BY LenProperties DEF Begins
<1> DEFINE p == SubSeq(f, 1, Len(s))
<1>2. \A i \in 1 .. Len(s) : f[i] \in S
  BY <1>1, ElementOfSeq
<1>3. p \in Seq(S) /\ Len(p) = (IF 1 <= Len(s) THEN Len(s) - 1 + 1 ELSE 0)
      /\ \A i \in 1 .. Len(s) - 1 + 1 : p[i] = f[1 + i - 1]
  BY <1>1, <1>2, SubSeqProperties
<1>4. Len(p) = Len(s) /\ \A i \in 1 .. Len(s) : p[i] = s[i]
  <2>1. Len(s) - 1 + 1 = Len(s) /\ \A i \in 1 .. Len(s) : 1 + i - 1 = i
    BY <1>1
  <2> HIDE DEF p
  <2> QED
    BY <1>1, <1>3, <2>1
<1> HIDE DEF p
<1>5. p = s
  BY <1>1, <1>3, <1>4, SeqEqual
<1> QED
  BY <1>5 DEF p

LEMMA NothingMore ==
    ASSUME NEW b \in Tips
    PROVE  Path[b] = Path[b] \o <<>> /\ ChainTxs[b] = ChainTxs[b] \o FlattenSeq(<<>>)
<1>1. <<>> \in Seq(Seq(TxId))
  BY EmptySeq
<1>2. FlattenSeq(<<>>) = <<>>
  BY <1>1, FlattenFacts
<1>3. Path[b] \in Seq(Blocks) /\ ChainTxs[b] \in Seq(TxId)
  BY HeightFacts
<1> QED
  BY <1>2, <1>3, ConcatEmptySeq

LEMMA StartInv ==
    ASSUME IInv, Start
    PROVE  IInv'
<1> DEFINE c == Committed
<1>1. /\ pc = "down" /\ pc' = "top" /\ ReadUtxoState /\ ClearExcessUndo
      /\ tx_counts' = SubSeq(files.tx_counts, 1, disk.state.height + 1)
      /\ bp' = [EmptyBp EXCEPT !.height = disk.state.height, !.tip = disk.state.tip,
                               !.tx_count = disk.state.tx_count, !.history = disk.history]
      /\ ResetHeight(disk.state.height)
      /\ UNCHANGED <<daemonVars, work, reorg_count, files>>
  BY DEF Start
<1>2. ChainInv /\ Shapes /\ DiskInv /\ ReachInv /\ WorkInv
  BY DEF IInv
<1>3. /\ Known(c) /\ c \in Tips /\ Height(c) \in Int /\ Height(c) >= -1
      /\ disk.state.height = Height(c) /\ disk.state.tip = c /\ disk.state.tx_count = TxCount(c)
      /\ disk.history = Touches[c] /\ disk.h = { HKey(d) : d \in Unspent[c] } /\ FilesHold(c)
  BY <1>2, KnownFacts DEF DiskInv, TablesMatchTip, Committed
<1>4. ChainInv' /\ cached_height' = Height(best)
  BY <1>1, <1>2, <1>3, ResetChain
<1>5. Reached' = Reached /\ Reached = Height(best)
  BY <1>1, <1>4 DEF Reached
<1>6. /\ disk' = [state |-> disk.state, h |-> disk.h, u |-> disk.u, undo |-> disk'.undo,
                  history |-> disk.history]
      /\ DiskInv' /\ ReachInv'
  BY <1>1, <1>2, <1>5, ClearedUndo
<1>7. disk'.state = disk.state /\ disk'.h = disk.h /\ Committed' = c /\ files' = files
  BY <1>1, <1>6 DEF Committed
<1>8. db' = [height |-> disk.state.height, tx_count |-> disk.state.tx_count, tip |-> disk.state.tip,
             first_sync |-> disk.state.first_sync, fs_height |-> disk.state.height]
  BY <1>1 DEF ReadUtxoState
<1>9. db'.height = Height(c) /\ db'.tip = c /\ db'.fs_height = Height(c)
  BY <1>3, <1>8
<1>10. bp' = [height |-> Height(c), tip |-> c, tx_count |-> TxCount(c), headers |-> <<>>,
              tx_hashes |-> <<>>, undo_infos |-> <<>>, cache |-> {},
              deletes |-> {}, touched |-> {}, history |-> Touches[c]]
  BY <1>1, <1>3 DEF EmptyBp
<1>11. tx_counts' = TxCounts[c]
  <2>1. Begins(Nat, files.tx_counts, TxCounts[c]) /\ Len(TxCounts[c]) = Height(c) + 1
    BY <1>3, TxCountsFacts DEF FilesHold, FilesAre
  <2> QED
    BY <1>1, <1>3, <2>1, BeginsFacts
<1>12. Shapes'
  BY <1>1, <1>2, <1>6, <1>7, <1>8, <1>10 DEF Shapes
<1>13. WorkInv'
  BY <1>1, <1>2 DEF WorkInv
<1> HIDE DEF c
<1>14. TipInv'
  <2>1. Height(c) <= cached_height'
    BY <1>2, <1>4, <1>5 DEF ReachInv, c
  <2>2. bp'.height = Height(c) /\ bp'.tip = c /\ bp'.tx_count = TxCount(c) /\ bp'.cache = {}
        /\ bp'.deletes = {} /\ bp'.touched = {}
    BY <1>10
  <2>3. Known(c)
    BY <1>3
  <2> QED
    BY <1>3, <1>7, <1>9, <1>11, <2>1, <2>2, <2>3 DEF TipInv, View
<1>15. /\ bp'.tip = c /\ bp'.headers = <<>> /\ bp'.tx_hashes = <<>> /\ bp'.undo_infos = <<>>
       /\ bp'.history = Touches[c] /\ Extends(c, c)
  BY <1>3, <1>10, ExtendsItself
<1>16. Unwritten'
  <2>1. Path[c] = Path[c] \o <<>> /\ ChainTxs[c] = ChainTxs[c] \o FlattenSeq(<<>>)
    BY <1>3, NothingMore
  <2>2. <<>> \in Seq(Blocks) /\ <<>> \in Seq(Seq(TxId))
    BY EmptySeq
  <2>3. /\ Begins(Blocks, files'.headers, Path[c]) /\ Begins(Nat, files'.tx_counts, TxCounts[c])
        /\ Begins(TxId, files'.hashes, ChainTxs[c])
    BY <1>3, <1>7 DEF FilesHold, FilesAre
  <2> QED
    BY <1>3, <1>7, <1>9, <1>15, <2>1, <2>2, <2>3 DEF Unwritten, FilesHold, FilesAre
<1>17. PendingUndo'
  <2>1. Height(c) + 1 .. Height(c) = {} /\ 1 .. Len(<<>>) = {}
    BY <1>3
  <2>2. <<>> \in Seq([height : Nat, info : Seq(Prevouts)])
    BY EmptySeq
  <2> QED
    BY <1>7, <1>15, <2>1, <2>2 DEF PendingUndo
<1>18. Ahead'
  BY <1>1, <1>7, <1>15, <1>16, <1>17 DEF Ahead
<1> QED
  BY <1>4, <1>6, <1>12, <1>13, <1>14, <1>18 DEF IInv


-----------------------------------------------------------------------------
(* Appending to the files.                                                  *)

LEMMA OverwriteFacts ==
    ASSUME NEW S, NEW f, NEW p, NEW s, Begins(S, f, p), TwoSeqs(S, p, s)
    PROVE  Begins(S, Overwrite(f, Len(p), s), p \o s)
<1> DEFINE rest == SubSeq(f, Len(p) + Len(s) + 1, Len(f))
           ps == p \o s
           w == ps \o rest
<1>1. f \in Seq(S) /\ p \in Seq(S) /\ s \in Seq(S) /\ Len(p) \in Nat /\ Len(s) \in Nat /\ Len(f) \in Nat
  BY LenProperties DEF Begins, TwoSeqs
<1>2. rest \in Seq(S)
  <2>1. \A i \in Len(p) + Len(s) + 1 .. Len(f) : f[i] \in S
    <3>1. \A i \in 1 .. Len(f) : f[i] \in S
      BY <1>1, ElementOfSeq
    <3> QED
      BY <1>1, <3>1
  <2>2. Len(p) + Len(s) + 1 \in Int /\ Len(f) \in Int
    BY <1>1
  <2> QED
    BY <2>1, <2>2, SubSeqProperties
<1> HIDE DEF rest
<1>3. ps \in Seq(S)
  BY <1>1, ConcatProperties
<1> HIDE DEF ps
<1>4. w \in Seq(S) /\ Len(w) = Len(ps) + Len(rest)
      /\ \A i \in 1 .. Len(ps) + Len(rest) : w[i] = IF i <= Len(ps) THEN ps[i] ELSE rest[i - Len(ps)]
  BY <1>2, <1>3, ConcatProperties
<1>5. Len(ps) \in Nat /\ Len(rest) \in Nat
  BY <1>2, <1>3, LenProperties
<1> HIDE DEF w
<1>6. Begins(S, w, ps)
  BY <1>3, <1>4, <1>5 DEF Begins
<1>7. Overwrite(f, Len(p), s) = w
  BY BeginsFacts DEF Overwrite, w, ps, rest
<1> QED
  BY <1>6, <1>7 DEF ps

\* A sequence is its beginning and the rest.
LEMMA RestFacts ==
    ASSUME NEW S, NEW z, NEW p, Begins(S, z, p)
    PROVE  /\ SubSeq(z, Len(p) + 1, Len(z)) \in Seq(S)
           /\ z = p \o SubSeq(z, Len(p) + 1, Len(z))
<1> DEFINE rest == SubSeq(z, Len(p) + 1, Len(z))
           w == p \o rest
<1>1. z \in Seq(S) /\ p \in Seq(S) /\ Len(p) \in Nat /\ Len(z) \in Nat /\ Len(p) <= Len(z)
      /\ (\A i \in 1 .. Len(p) : z[i] = p[i]) /\ (\A i \in 1 .. Len(z) : z[i] \in S)
  BY LenProperties, ElementOfSeq DEF Begins
<1>2. \A i \in Len(p) + 1 .. Len(z) : z[i] \in S
  BY <1>1
<1>3. rest \in Seq(S) /\ Len(rest) = (IF Len(p) + 1 <= Len(z) THEN Len(z) - (Len(p) + 1) + 1 ELSE 0)
      /\ \A i \in 1 .. Len(z) - (Len(p) + 1) + 1 : rest[i] = z[Len(p) + 1 + i - 1]
  BY <1>1, <1>2, SubSeqProperties
<1> HIDE DEF rest
<1>4. Len(rest) = Len(z) - Len(p)
  BY <1>1, <1>3
<1>5. ASSUME NEW i \in 1 .. Len(z), ~(i <= Len(p))
      PROVE  rest[i - Len(p)] = z[i]
  <2>1. i - Len(p) \in 1 .. Len(z) - (Len(p) + 1) + 1 /\ Len(p) + 1 + (i - Len(p)) - 1 = i
    BY <1>1, <1>5
  <2> QED
    BY <1>3, <2>1
<1>6. w \in Seq(S) /\ Len(w) = Len(p) + Len(rest)
      /\ \A i \in 1 .. Len(p) + Len(rest) : w[i] = IF i <= Len(p) THEN p[i] ELSE rest[i - Len(p)]
  BY <1>1, <1>3, ConcatProperties
<1> HIDE DEF w
<1>7. Len(w) = Len(z) /\ \A i \in 1 .. Len(z) : w[i] = z[i]
  <2>1. Len(p) + Len(rest) = Len(z)
    BY <1>1, <1>4
  <2> QED
    BY <1>1, <1>5, <1>6, <2>1
<1>8. w = z
  BY <1>1, <1>6, <1>7, SeqEqual
<1> QED
  BY <1>3, <1>8 DEF w, rest

\* What is of the chain of b is of the chain of each block that it extends.
LEMMA FilesOfAncestor ==
    ASSUME NEW f, NEW b \in Tips, NEW a \in Tips, Extends(b, a), FilesAre(f, b)
    PROVE  FilesAre(f, a)
<1>1. /\ Path[a] \in Seq(Blocks) /\ ChainTxs[a] \in Seq(TxId) /\ TxCounts[a] \in Seq(Nat)
      /\ Len(Path[a]) = Height(a) + 1 /\ Len(TxCounts[a]) = Height(a) + 1
      /\ Len(ChainTxs[a]) = TxCount(a) /\ Height(a) \in Int /\ Height(a) >= -1 /\ TxCount(a) \in Nat
  BY HeightFacts, TxCountsFacts DEF TxCount
<1>2. /\ Len(Path[b]) = Height(b) + 1 /\ Len(TxCounts[b]) = Height(b) + 1
      /\ Len(ChainTxs[b]) = TxCount(b) /\ Height(b) \in Int /\ Height(b) >= -1 /\ TxCount(b) \in Nat
  BY HeightFacts, TxCountsFacts DEF TxCount
<1>3. /\ Height(a) <= Height(b) /\ TxCount(a) <= TxCount(b)
      /\ \A i \in 1 .. Height(a) + 1 : Path[b][i] = Path[a][i]
      /\ \A i \in 1 .. TxCount(a) : ChainTxs[b][i] = ChainTxs[a][i]
      /\ \A i \in 1 .. Height(a) + 1 : TxCounts[b][i] = TxCounts[a][i]
  BY TxCountsFacts DEF Extends
<1>4. ASSUME NEW g, NEW s, NEW t, NEW S, Begins(S, g, s), t \in Seq(S), Len(t) \in Nat, Len(s) \in Nat,
             Len(t) <= Len(s), \A i \in 1 .. Len(t) : s[i] = t[i]
      PROVE  Begins(S, g, t)
  <2>1. Len(g) \in Nat
    BY <1>4, LenProperties DEF Begins
  <2> QED
    BY <1>4, <2>1 DEF Begins
<1>5. Begins(Blocks, f.headers, Path[a])
  <2>1. Begins(Blocks, f.headers, Path[b])
    BY DEF FilesAre
  <2>2. Len(Path[a]) <= Len(Path[b]) /\ \A i \in 1 .. Len(Path[a]) : Path[b][i] = Path[a][i]
    BY <1>1, <1>2, <1>3
  <2>3. Path[a] \in Seq(Blocks) /\ Len(Path[a]) \in Nat /\ Len(Path[b]) \in Nat
    BY <1>1, <1>2
  <2> QED
    BY ONLY <1>4, <2>1, <2>2, <2>3
<1>6. Begins(Nat, f.tx_counts, TxCounts[a])
  <2>1. Begins(Nat, f.tx_counts, TxCounts[b])
    BY DEF FilesAre
  <2>2. Len(TxCounts[a]) <= Len(TxCounts[b])
        /\ \A i \in 1 .. Len(TxCounts[a]) : TxCounts[b][i] = TxCounts[a][i]
    BY <1>1, <1>2, <1>3
  <2>3. TxCounts[a] \in Seq(Nat) /\ Len(TxCounts[a]) \in Nat /\ Len(TxCounts[b]) \in Nat
    BY <1>1, <1>2
  <2> QED
    BY ONLY <1>4, <2>1, <2>2, <2>3
<1>7. Begins(TxId, f.hashes, ChainTxs[a])
  <2>1. Begins(TxId, f.hashes, ChainTxs[b])
    BY DEF FilesAre
  <2> QED
    BY <1>1, <1>2, <1>3, <1>4, <2>1
<1> QED
  BY <1>5, <1>6, <1>7 DEF FilesAre


LEMMA FlushFsInv ==
    ASSUME IInv, FlushFs
    PROVE  IInv'
<1>1. /\ pc = "flush" /\ bp.height # db.height
      /\ UNCHANGED <<daemonVars, prefetchVars, work, tx_counts, disk, reorg_count>>
  BY DEF FlushFs
<1>2. TipInv /\ ChainInv /\ Shapes /\ DiskInv /\ ReachInv /\ WorkInv /\ (Ahead \/ Behind)
      /\ bp.tip \in Tips /\ bp.height \in Int /\ bp.height = Height(bp.tip) /\ bp.height >= -1
  BY <1>1, TipFacts DEF IInv
<1>3. ChainInv' /\ UNCHANGED <<best, cached_height, Committed>>
  BY <1>1, <1>2, SameChain DEF daemonVars, prefetchVars, Committed
<1>4. CASE ~FlushFsAsserts
  <2>1. pc' = "failed" /\ UNCHANGED <<files, db, bp>>
    BY <1>4 DEF FlushFs
  <2>2. IsWork(work') /\ Shapes'
    BY <1>1, <1>2, <2>1 DEF Shapes, IsWork
  <2>3. WorkInv'
    BY <1>1, <1>2, <2>1 DEF WorkInv
  <2>4. /\ UNCHANGED <<disk, files, bp, tx_counts>> /\ db'.height = db.height /\ db'.tip = db.tip
        /\ db'.fs_height = db.fs_height /\ pc # "down" /\ pc' # "down" /\ cached_height' >= cached_height
        /\ (Ahead /\ pc' # "flush_backup") \/ (Behind /\ pc' \in {"flush_backup", "flush", "failed"})
    BY <1>1, <1>2, <1>3, <2>1 DEF ChainInv
  <2> QED
    BY ONLY IInv, <1>3, <2>2, <2>3, <2>4, SameMemory
<1>5. CASE FlushFsAsserts
  <2> DEFINE tip == bp.tip
  <2>1. /\ files' = [headers |-> Overwrite(files.headers, db.fs_height + 1, bp.headers),
                     tx_counts |-> Overwrite(files.tx_counts, db.fs_height + 1,
                                             SubSeq(tx_counts, db.fs_height + 2, Len(tx_counts))),
                     hashes |-> Overwrite(files.hashes, PriorTxCount, FlattenSeq(bp.tx_hashes))]
        /\ db' = [db EXCEPT !.fs_height = bp.height]
        /\ bp' = [bp EXCEPT !.headers = <<>>, !.tx_hashes = <<>>]
        /\ pc' = "flush_utxos"
    BY <1>5 DEF FlushFs
  <2>2. db' = [height |-> db.height, tx_count |-> db.tx_count, tip |-> db.tip,
               first_sync |-> db.first_sync, fs_height |-> bp.height]
    BY <1>2, <2>1 DEF Shapes
  <2>3. bp' = [height |-> bp.height, tip |-> bp.tip, tx_count |-> bp.tx_count,
               headers |-> <<>>, tx_hashes |-> <<>>, undo_infos |-> bp.undo_infos,
               cache |-> bp.cache, deletes |-> bp.deletes, touched |-> bp.touched,
               history |-> bp.history]
    BY <1>2, <2>1 DEF Shapes
  <2>4. Ahead
    <3>1. ASSUME Behind PROVE FALSE
      <4>1. bp.headers = <<>> /\ db.fs_height = db.height /\ bp.height < db.height
        BY <3>1 DEF Behind
      <4>2. bp.height = db.fs_height + Len(bp.headers)
        BY <1>5 DEF FlushFsAsserts
      <4>3. db.height \in Int
        BY <1>2, KnownFacts DEF TipInv, DiskInv, TablesMatchTip, Committed
      <4> QED
        BY <1>2, <4>1, <4>2, <4>3
    <3> QED
      BY <1>2, <3>1
  <2>5. PICK b \in Tips :
          /\ db.fs_height = Height(b) /\ Extends(b, Committed) /\ Extends(tip, b) /\ FilesHold(b)
          /\ bp.headers \in Seq(Blocks) /\ Path[tip] = Path[b] \o bp.headers
          /\ bp.tx_hashes \in Seq(Seq(TxId)) /\ ChainTxs[tip] = ChainTxs[b] \o FlattenSeq(bp.tx_hashes)
    BY <2>4 DEF Ahead, Unwritten
  <2>6. /\ Height(b) \in Int /\ Height(b) >= -1 /\ Len(Path[b]) = Height(b) + 1
        /\ Len(TxCounts[b]) = Height(b) + 1 /\ TxCounts[b] \in Seq(Nat) /\ Path[b] \in Seq(Blocks)
        /\ ChainTxs[b] \in Seq(TxId) /\ Len(ChainTxs[b]) = TxCount(b)
    BY HeightFacts, TxCountsFacts DEF TxCount
  <2>7. PriorTxCount = TxCount(b)
    <3>1. CASE b = NoBlock
      <4>1. Height(b) = -1 /\ TxCount(b) = 0
        BY <3>1, HeightFacts
      <4> QED
        BY <2>5, <4>1 DEF PriorTxCount
    <3>2. CASE b # NoBlock
      <4>1. Height(b) >= 0 /\ TxCounts[b][Height(b) + 1] = TxCount(b)
        BY <3>2, TipsFacts, ParentFacts, TxCountsFacts
      <4>2. TxCounts[tip][Height(b) + 1] = TxCounts[b][Height(b) + 1]
        <5>1. Height(b) + 1 \in 1 .. Height(b) + 1
          BY <2>6, <4>1
        <5> QED
          BY <1>2, <2>5, <5>1, TxCountsFacts
      <4>3. tx_counts = TxCounts[tip]
        BY <1>2 DEF TipInv
      <4> QED
        BY <2>5, <4>1, <4>2, <4>3 DEF PriorTxCount
    <3> QED
      BY <3>1, <3>2
  <2>8. Begins(Blocks, files'.headers, Path[tip])
    <3>1. Begins(Blocks, files.headers, Path[b]) /\ TwoSeqs(Blocks, Path[b], bp.headers)
      BY <2>5, <2>6 DEF FilesHold, FilesAre, TwoSeqs
    <3>2. files'.headers = Overwrite(files.headers, Len(Path[b]), bp.headers)
      BY <2>1, <2>5, <2>6
    <3> QED
      BY <2>5, <3>1, <3>2, OverwriteFacts
  <2>9. Begins(Nat, files'.tx_counts, TxCounts[tip])
    <3> DEFINE z == TxCounts[tip]
               p == TxCounts[b]
               rest == SubSeq(z, Len(p) + 1, Len(z))
    <3>1. Begins(Nat, z, p)
      <4>1. z \in Seq(Nat) /\ Len(z) = Height(tip) + 1 /\ Height(b) <= Height(tip) /\ Height(tip) \in Int
            /\ \A i \in 1 .. Height(b) + 1 : z[i] = p[i]
        BY <1>2, <2>5, TxCountsFacts DEF Extends
      <4> QED
        BY <2>6, <4>1 DEF Begins
    <3>2. rest \in Seq(Nat) /\ z = p \o rest
      BY <3>1, RestFacts
    <3>3. Begins(Nat, files.tx_counts, p) /\ TwoSeqs(Nat, p, rest)
      BY <2>5, <2>6, <3>2 DEF FilesHold, FilesAre, TwoSeqs
    <3>4. files'.tx_counts = Overwrite(files.tx_counts, Len(p), rest)
      <4>1. tx_counts = z /\ db.fs_height + 1 = Len(p) /\ db.fs_height + 2 = Len(p) + 1
        BY <1>2, <2>5, <2>6 DEF TipInv
      <4> QED
        BY <2>1, <4>1
    <3> HIDE DEF z, p, rest
    <3>5. Begins(Nat, files'.tx_counts, p \o rest)
      BY <3>3, <3>4, OverwriteFacts
    <3> QED
      BY <3>2, <3>5 DEF z
  <2>10. Begins(TxId, files'.hashes, ChainTxs[tip])
    <3>1. Begins(TxId, files.hashes, ChainTxs[b]) /\ TwoSeqs(TxId, ChainTxs[b], FlattenSeq(bp.tx_hashes))
      BY <2>5, <2>6, FlattenFacts DEF FilesHold, FilesAre, TwoSeqs
    <3>2. files'.hashes = Overwrite(files.hashes, Len(ChainTxs[b]), FlattenSeq(bp.tx_hashes))
      BY <2>1, <2>6, <2>7
    <3> QED
      BY <2>5, <3>1, <3>2, OverwriteFacts
  <2>11. tip \in Tips /\ Extends(tip, Committed) /\ Committed \in Tips /\ Extends(tip, tip)
         /\ bp.history = Touches[tip] /\ PendingUndo
    BY <1>2, <2>4, ExtendsItself, KnownFacts DEF Ahead, DiskInv
  <2>12. bp'.tip = tip /\ bp'.height = bp.height /\ bp'.tx_count = bp.tx_count /\ bp'.cache = bp.cache
         /\ bp'.deletes = bp.deletes /\ bp'.touched = bp.touched /\ bp'.history = bp.history
         /\ bp'.undo_infos = bp.undo_infos /\ bp'.headers = <<>> /\ bp'.tx_hashes = <<>>
         /\ db'.height = db.height /\ db'.tip = db.tip /\ db'.fs_height = Height(tip)
    BY <1>2, <2>2, <2>3
  <2> HIDE DEF tip
  <2>13. FilesAre(files', tip) /\ FilesAre(files', Committed)
    <3>1. FilesAre(files', tip)
      BY <2>8, <2>9, <2>10 DEF FilesAre
    <3> QED
      BY <2>11, <3>1, FilesOfAncestor
  <2>14. DiskInv'
    <3>1. FilesHold(Committed)'
      BY <1>3, <2>13 DEF FilesHold
    <3>2. Known(Committed)' /\ TablesMatchTip' /\ UndoRight' /\ UndoSound'
      BY <1>1, <1>2, <1>3 DEF DiskInv, TablesMatchTip, UndoRight, UndoSound
    <3> QED
      BY <3>1, <3>2 DEF DiskInv
  <2>15. ReachInv'
    <3>1. Reached' = Reached
      BY <1>1, <1>3, <2>1 DEF Reached
    <3> QED
      BY <1>1, <1>2, <1>3, <3>1 DEF ReachInv, UndoThere
  <2>16. Shapes'
    BY <1>1, <1>2, <2>2, <2>3 DEF Shapes
  <2>17. WorkInv'
    <3>1. pc' = "flush_utxos" /\ work' = work /\ reorg_count' = reorg_count
          /\ db'.fs_height = bp'.height
      BY <1>1, <1>2, <2>1, <2>2, <2>3
    <3> QED
      BY <1>2, <3>1 DEF WorkInv
  <2>18. TipInv'
    <3>1. bp.tip = tip
      BY DEF tip
    <3> QED
      BY <1>1, <1>2, <1>3, <2>12, <3>1 DEF TipInv, View
  <2>19. Unwritten'
    <3>1. Path[tip] = Path[tip] \o <<>> /\ ChainTxs[tip] = ChainTxs[tip] \o FlattenSeq(<<>>)
      BY <2>11, NothingMore
    <3>2. <<>> \in Seq(Blocks) /\ <<>> \in Seq(Seq(TxId))
      BY EmptySeq
    <3> QED
      BY <1>3, <2>11, <2>12, <2>13, <3>1, <3>2 DEF Unwritten, FilesHold
  <2>20. PendingUndo'
    <3>1. bp.tip = tip
      BY DEF tip
    <3> QED
      BY <1>3, <2>11, <2>12, <3>1 DEF PendingUndo
  <2>21. Ahead'
    BY <1>3, <2>1, <2>11, <2>12, <2>19, <2>20 DEF Ahead
  <2> QED
    BY <1>3, <2>14, <2>15, <2>16, <2>17, <2>18, <2>21 DEF IInv
<1> QED
  BY <1>4, <1>5


-----------------------------------------------------------------------------
(* Writing the UTXO batch.                                                  *)

\* The undo information on disk and that of the batch.
LEMMA FlushedUndo ==
    ASSUME PendingUndo
    PROVE  LET undos == bp.undo_infos
               u == FlushUtxoDb(db).undo
           IN /\ \A h : h \in DOMAIN u <=>
                          h \in DOMAIN disk.undo \/ \E i \in 1 .. Len(undos) : undos[i].height = h
              /\ \A i \in 1 .. Len(undos) : u[undos[i].height] = undos[i].info
              /\ \A h \in DOMAIN disk.undo :
                   (\A i \in 1 .. Len(undos) : undos[i].height # h) => u[h] = disk.undo[h]
<1> DEFINE undos == bp.undo_infos
           pick(h) == CHOOSE i \in DOMAIN undos :
                        undos[i].height = h /\ \A j \in DOMAIN undos : undos[j].height = h => j <= i
           H == { undos[i].height : i \in DOMAIN undos }
           new_undo == [h \in H |-> pick(h)]
           new == [h \in DOMAIN new_undo |-> undos[new_undo[h]].info]
           both == [h \in DOMAIN new_undo \cup DOMAIN disk.undo |->
                      IF h \in DOMAIN new_undo THEN undos[new_undo[h]].info ELSE disk.undo[h]]
           u == FlushUtxoDb(db).undo
<1>1. undos \in Seq([height : Nat, info : Seq(Prevouts)])
      /\ \A i, j \in 1 .. Len(undos) : undos[i].height = undos[j].height => i = j
  BY DEF PendingUndo
<1>2. DOMAIN undos = 1 .. Len(undos) /\ Len(undos) \in Nat
  BY <1>1
<1>3. u = both
  BY DEF FlushUtxoDb
<1>4. \A i \in 1 .. Len(undos) : pick(undos[i].height) = i
  <2> SUFFICES ASSUME NEW i \in 1 .. Len(undos) PROVE pick(undos[i].height) = i
    OBVIOUS
  <2>1. \A j \in DOMAIN undos : undos[j].height = undos[i].height => j = i
    BY <1>1, <1>2
  <2>2. i \in DOMAIN undos /\ i <= i
    BY <1>2
  <2> QED
    BY <2>1, <2>2
<1> HIDE DEF pick
<1>5. DOMAIN new = H /\ \A i \in 1 .. Len(undos) : new[undos[i].height] = undos[i].info
  BY <1>2, <1>4
<1>6. \A h : h \in H <=> \E i \in 1 .. Len(undos) : undos[i].height = h
  BY <1>2
<1> HIDE DEF new, both, H, undos, u
<1>7. /\ \A h : h \in DOMAIN u <=> h \in H \/ h \in DOMAIN disk.undo
      /\ \A h \in H : u[h] = new[h]
      /\ \A h \in DOMAIN disk.undo : h \notin H => u[h] = disk.undo[h]
  BY <1>3, <1>5 DEF both, new
<1>8. \A i \in 1 .. Len(undos) : u[undos[i].height] = undos[i].info
  BY <1>5, <1>6, <1>7
<1> QED
  BY <1>6, <1>7, <1>8 DEF undos, u

LEMMA FlushedTables ==
    ASSUME TipInv, DiskInv
    PROVE  /\ FlushUtxoDb(db).h = { HKey(c) : c \in Unspent[bp.tip] }
           /\ FlushUtxoDb(db).u = { UKey(k) : k \in FlushUtxoDb(db).h }
<1> DEFINE c1 == Committed
           U == Unspent[bp.tip]
           new_h == { HKey(c) : c \in bp.cache }
           h == (disk.h \ bp.deletes) \cup new_h
           u == (disk.u \ { UKey(k) : k \in bp.deletes }) \cup { UKey(k) : k \in new_h }
<1>1. FlushUtxoDb(db).h = h /\ FlushUtxoDb(db).u = u
  BY DEF FlushUtxoDb
<1>2. bp.cache \subseteq U /\ disk.h \ bp.deletes = { HKey(c) : c \in U \ bp.cache }
      /\ bp.deletes \subseteq disk.h
  BY DEF TipInv, View
<1>3. h = { HKey(c) : c \in U }
  BY <1>2
<1>4. disk.h = { HKey(c) : c \in Unspent[c1] } /\ disk.u = { UKey(k) : k \in disk.h } /\ c1 \in Tips
  <2>1. disk.u = { UKey(k) : k \in { HKey(c) : c \in Unspent[c1] } }
        /\ disk.h = { HKey(c) : c \in Unspent[c1] }
    BY DEF DiskInv, TablesMatchTip, Committed
  <2> QED
    BY <2>1, KnownFacts DEF DiskInv
<1>5. \A k, l \in disk.h : UKey(k) = UKey(l) => k = l
  <2> SUFFICES ASSUME NEW k \in disk.h, NEW l \in disk.h, UKey(k) = UKey(l) PROVE k = l
    OBVIOUS
  <2>1. c1 \in Blocks
    BY <1>4, NoneFacts, TipsFacts
  <2>2. PICK c \in Unspent[c1] : k = HKey(c)
    BY <1>4
  <2>3. PICK d \in Unspent[c1] : l = HKey(d)
    BY <1>4
  <2>4. c \in Created[c1] /\ d \in Created[c1]
    BY <1>4 DEF Unspent
  <2>5. c.tx_num = d.tx_num /\ c.idx = d.idx
    BY <2>2, <2>3 DEF UKey, HKey
  <2>6. c = d
    BY <2>1, <2>4, <2>5, CoinFacts
  <2> QED
    BY <2>2, <2>3, <2>6
<1>6. disk.u \ { UKey(k) : k \in bp.deletes } = { UKey(k) : k \in disk.h \ bp.deletes }
  BY <1>2, <1>4, <1>5
<1>7. u = { UKey(k) : k \in h }
  BY <1>6
<1> QED
  BY <1>1, <1>3, <1>7

\* A block that the daemon cannot replace any more is the only one of its height.
LEMMA Buried ==
    ASSUME ChainInv, NEW t \in Tips, Known(t), NEW b \in Blocks, Known(b),
           Height(b) + ReorgLimit <= cached_height, Height(b) <= Height(t)
    PROVE  Path[t][Height(b) + 1] = b
<1>1. PICK s \in DaemonTips : Extends(s, t)
  BY DEF Known
<1>2. PICK r \in DaemonTips : Extends(r, b)
  BY DEF Known
<1>3. best \in DaemonTips /\ cached_height \in Int /\ cached_height <= Height(best)
      /\ Height(best) \in Int /\ ReorgLimit \in Nat /\ Height(s) \in Int /\ Height(r) \in Int
  BY ConstantFacts DEF ChainInv
<1> DEFINE h == Height(b)
<1>4. h \in Int /\ h >= 0 /\ Height(t) \in Int /\ Path[b][h + 1] = b
  BY TipsFacts, ParentFacts, HeightFacts
<1>5. h <= Height(s) /\ h <= Height(r) /\ h <= Height(best) - ReorgLimit /\ h \in 0 .. Height(best)
  BY <1>1, <1>2, <1>3, <1>4 DEF Extends
<1>6. Path[best][h + 1] = Path[s][h + 1] /\ Path[best][h + 1] = Path[r][h + 1]
  BY <1>3, <1>5, ReorgsShallow
<1>7. Path[s][h + 1] = Path[t][h + 1] /\ Path[r][h + 1] = Path[b][h + 1]
  <2>1. h + 1 \in 1 .. Height(t) + 1 /\ h + 1 \in 1 .. Height(b) + 1
    BY <1>4
  <2> QED
    BY <1>1, <1>2, <2>1 DEF Extends
<1> QED
  BY <1>4, <1>6, <1>7


\* The undo information after the batch: right, sound, and all that is needed.
LEMMA FlushedUndoRight ==
    ASSUME ChainInv, DiskInv, ReachInv, TipInv, Extends(bp.tip, Committed), PendingUndo, pc # "down"
    PROVE  LET u == FlushUtxoDb(db).undo
           IN /\ \A h \in DOMAIN u :
                   h \in 0 .. Height(bp.tip) => u[h] = SpentOutputs[Path[bp.tip][h + 1]]
              /\ \A h \in DOMAIN u : \E b \in Blocks : Known(b) /\ Height(b) = h /\ u[h] = SpentOutputs[b]
              /\ \A h \in 0 .. Height(bp.tip) : h + ReorgLimit > cached_height => h \in DOMAIN u
<1> DEFINE undos == bp.undo_infos
           u == FlushUtxoDb(db).undo
           tip == bp.tip
           c == Committed
           at(h) == Path[tip][h + 1]
           New(h) == \E i \in 1 .. Len(undos) : undos[i].height = h
<1>1. /\ tip \in Tips /\ Known(tip) /\ c \in Tips /\ Height(tip) \in Int /\ Height(c) \in Int
      /\ Height(c) >= -1 /\ cached_height \in Int /\ ReorgLimit \in Nat /\ Height(c) <= Height(tip)
      /\ Height(tip) <= cached_height
  BY KnownFacts, ConstantFacts DEF DiskInv, TipInv, ChainInv, Extends
<1>2. /\ \A h : h \in DOMAIN u <=> h \in DOMAIN disk.undo \/ New(h)
      /\ \A i \in 1 .. Len(undos) : u[undos[i].height] = undos[i].info
      /\ \A h \in DOMAIN disk.undo : ~New(h) => u[h] = disk.undo[h]
  BY FlushedUndo
<1>3. /\ \A i \in 1 .. Len(undos) : /\ undos[i].height \in Height(c) + 1 .. Height(tip)
                                   /\ undos[i].info = SpentOutputs[at(undos[i].height)]
      /\ \A h \in Height(c) + 1 .. Height(tip) : h + ReorgLimit > cached_height => New(h)
  BY DEF PendingUndo
<1> HIDE DEF undos, u, tip, c, at
<1>4. ASSUME NEW h, New(h)
      PROVE  h \in Height(c) + 1 .. Height(tip) /\ u[h] = SpentOutputs[at(h)]
  BY <1>2, <1>3, <1>4
<1> HIDE DEF New
<1>5. ASSUME NEW h \in DOMAIN u, ~New(h)
      PROVE  h \in DOMAIN disk.undo /\ u[h] = disk.undo[h]
             /\ \E b \in Blocks : Known(b) /\ Height(b) = h /\ u[h] = SpentOutputs[b]
  BY <1>2, <1>5 DEF DiskInv, UndoSound
<1>6. ASSUME NEW h \in DOMAIN u, h \in 0 .. Height(tip)
      PROVE  u[h] = SpentOutputs[at(h)]
  <2>1. CASE New(h)
    BY <1>4, <2>1
  <2>2. CASE ~New(h) /\ h <= Height(c)
    <3>1. h \in 0 .. Height(c) /\ h + 1 \in 1 .. Height(c) + 1
      BY <1>1, <1>6, <2>2
    <3>2. disk.undo[h] = SpentOutputs[Path[c][h + 1]]
      BY <1>5, <2>2, <3>1 DEF DiskInv, UndoRight, c
    <3>3. Path[tip][h + 1] = Path[c][h + 1]
      BY <3>1 DEF Extends, tip, c
    <3> QED
      BY <1>5, <2>2, <3>2, <3>3 DEF at
  <2>3. CASE ~New(h) /\ ~(h <= Height(c))
    <3>1. h \in Height(c) + 1 .. Height(tip)
      BY <1>1, <1>6, <2>3
    <3>2. h + ReorgLimit <= cached_height
      BY <1>1, <1>3, <1>6, <2>3, <3>1
    <3>3. PICK b \in Blocks : Known(b) /\ Height(b) = h /\ u[h] = SpentOutputs[b]
      BY <1>5, <2>3
    <3>4. Path[tip][h + 1] = b
      <4>1. Height(b) + ReorgLimit <= cached_height /\ Height(b) <= Height(tip)
        BY <1>1, <1>6, <3>2, <3>3
      <4> QED
        BY <1>1, <3>3, <4>1, Buried
    <3> QED
      BY <3>3, <3>4 DEF at
  <2> QED
    BY <2>1, <2>2, <2>3
<1>7. ASSUME NEW h \in DOMAIN u
      PROVE  \E b \in Blocks : Known(b) /\ Height(b) = h /\ u[h] = SpentOutputs[b]
  <2>1. CASE New(h)
    <3>1. h \in 0 .. Height(tip) /\ u[h] = SpentOutputs[at(h)]
      BY <1>1, <1>4, <2>1
    <3>2. at(h) \in Blocks /\ Height(at(h)) = h /\ Extends(tip, at(h))
      BY <1>1, <3>1, Ancestors DEF at
    <3>3. Known(at(h))
      BY <1>1, <3>2, KnownFacts, TipsFacts
    <3> QED
      BY <3>1, <3>2, <3>3
  <2> QED
    BY <1>5, <2>1
<1>8. ASSUME NEW h \in 0 .. Height(tip), h + ReorgLimit > cached_height
      PROVE  h \in DOMAIN u
  <2>1. CASE h <= Height(c)
    <3>1. h \in 0 .. Height(c)
      BY <1>1, <2>1
    <3>2. h \in DOMAIN disk.undo
      BY <1>8, <3>1 DEF ReachInv, UndoThere, Reached, c
    <3> QED
      BY <1>2, <3>2
  <2>2. CASE ~(h <= Height(c))
    <3>1. h \in Height(c) + 1 .. Height(tip)
      BY <1>1, <2>2
    <3> QED
      BY <1>2, <1>3, <1>8, <3>1
  <2> QED
    BY <2>1, <2>2
<1> QED
  BY <1>6, <1>7, <1>8 DEF u, tip, at

LEMMA FlushUtxosInv ==
    ASSUME IInv, FlushUtxos
    PROVE  IInv'
<1>1. /\ pc = "flush_utxos" /\ pc' = work.after
      /\ UNCHANGED <<daemonVars, prefetchVars, work, tx_counts, files, reorg_count>>
  BY DEF FlushUtxos
<1>2. TipInv /\ ChainInv /\ Shapes /\ DiskInv /\ ReachInv /\ WorkInv /\ Ahead
      /\ bp.tip \in Tips /\ bp.height \in Int /\ bp.height = Height(bp.tip) /\ bp.height >= -1
  BY <1>1, TipFacts DEF IInv
<1>3. ChainInv' /\ UNCHANGED <<best, cached_height>>
  BY <1>1, <1>2, SameChain DEF daemonVars, prefetchVars
<1>4. /\ pc' \in {"top", "reopen", "reorg", "notify", "forced", "exit"}
      /\ pc' # "down" /\ Reached' = Reached /\ Reached = cached_height
  BY <1>1, <1>2, <1>3 DEF WorkInv, Reached
<1>5. CASE ~work.flush_utxos
  <2>1. disk' = [disk EXCEPT !.state.first_sync = db.first_sync] /\ UNCHANGED <<db, bp>>
    BY <1>5 DEF FlushUtxos
  <2>2. disk' = [state |-> [disk.state EXCEPT !.first_sync = db.first_sync], h |-> disk.h, u |-> disk.u,
                 undo |-> disk.undo, history |-> disk.history]
    BY <1>2, <2>1 DEF Shapes
  <2>3. disk'.state = [disk.state EXCEPT !.first_sync = db.first_sync]
        /\ disk'.h = disk.h /\ disk'.u = disk.u /\ disk'.undo = disk.undo /\ disk'.history = disk.history
    BY <2>2
  <2>4. disk'.state = [height |-> disk.state.height, tx_count |-> disk.state.tx_count,
                       tip |-> disk.state.tip, first_sync |-> db.first_sync]
    BY <1>2, <2>3 DEF Shapes
  <2>5. disk'.state.height = disk.state.height /\ disk'.state.tx_count = disk.state.tx_count
        /\ disk'.state.tip = disk.state.tip /\ Committed' = Committed
    BY <2>4 DEF Committed
  <2>6. DiskInv'
    BY <1>1, <1>2, <2>3, <2>5 DEF DiskInv, TablesMatchTip, FilesHold, FilesAre, UndoRight, UndoSound
  <2>7. ReachInv'
    BY <1>2, <1>4, <2>3, <2>5 DEF ReachInv, UndoThere
  <2>8. Shapes'
    BY <1>1, <1>2, <2>1, <2>2, <2>3, <2>4 DEF Shapes
  <2>9. WorkInv'
    <3>1. pc' = "notify"
      BY <1>1, <1>2, <1>5 DEF WorkInv
    <3> QED
      BY <1>1, <1>2, <2>1, <3>1 DEF WorkInv
  <2>10. TipInv'
    BY <1>1, <1>2, <1>3, <2>1, <2>3, <2>5 DEF TipInv, View
  <2>11. Unwritten'
    BY <1>1, <1>2, <2>1, <2>5 DEF Ahead, Unwritten, FilesHold
  <2>12. PendingUndo'
    BY <1>2, <1>3, <2>1, <2>5 DEF Ahead, PendingUndo
  <2>13. Ahead'
    BY <1>2, <1>4, <2>1, <2>5, <2>11, <2>12 DEF Ahead
  <2> QED
    BY <1>3, <2>6, <2>7, <2>8, <2>9, <2>10, <2>13 DEF IInv
<1>6. CASE work.flush_utxos
  <2> DEFINE tip == bp.tip
             new == FlushUtxoDb(db)
  <2>1. /\ disk' = new /\ bp' = Flushed
        /\ db' = [db EXCEPT !.height = bp.height, !.tip = bp.tip, !.tx_count = bp.tx_count]
    BY <1>6 DEF FlushUtxos
  <2>2. /\ new = [state |-> new.state, h |-> new.h, u |-> new.u, undo |-> new.undo,
                  history |-> new.history]
        /\ new.state = [height |-> bp.height, tx_count |-> bp.tx_count, tip |-> bp.tip,
                        first_sync |-> db.first_sync]
        /\ new.history = bp.history
    BY DEF FlushUtxoDb
  <2>3. new.h = { HKey(c) : c \in Unspent[tip] } /\ new.u = { UKey(k) : k \in new.h }
    BY <1>2, FlushedTables
  <2>4. /\ \A h \in DOMAIN new.undo : h \in 0 .. Height(tip) => new.undo[h] = SpentOutputs[Path[tip][h + 1]]
        /\ \A h \in DOMAIN new.undo :
             \E b \in Blocks : Known(b) /\ Height(b) = h /\ new.undo[h] = SpentOutputs[b]
        /\ \A h \in 0 .. Height(tip) : h + ReorgLimit > cached_height => h \in DOMAIN new.undo
    BY <1>1, <1>2, FlushedUndoRight DEF Ahead
  <2>5. /\ bp.tip = tip /\ bp.height = Height(tip) /\ bp.tx_count = TxCount(tip)
        /\ bp.history = Touches[tip] /\ Known(tip) /\ tip \in Tips /\ tx_counts = TxCounts[tip]
        /\ Height(tip) <= cached_height /\ bp.touched \subseteq HashXs
    BY <1>2 DEF TipInv, Ahead
  <2> HIDE DEF new, tip
  <2>6. db' = [height |-> bp.height, tx_count |-> bp.tx_count, tip |-> bp.tip,
               first_sync |-> db.first_sync, fs_height |-> db.fs_height]
    BY <1>2, <2>1 DEF Shapes
  <2>7. bp' = [height |-> bp.height, tip |-> bp.tip, tx_count |-> bp.tx_count,
               headers |-> bp.headers, tx_hashes |-> bp.tx_hashes, undo_infos |-> <<>>,
               cache |-> {}, deletes |-> {}, touched |-> bp.touched, history |-> bp.history]
    BY <1>2, <2>1 DEF Shapes, Flushed
  <2>8. /\ disk'.state.height = Height(tip) /\ disk'.state.tx_count = TxCount(tip)
        /\ disk'.state.tip = tip /\ Committed' = tip /\ disk'.history = Touches[tip]
        /\ disk'.h = new.h /\ disk'.u = new.u /\ disk'.undo = new.undo
    BY <2>1, <2>2, <2>5 DEF Committed
  <2>9. /\ db'.height = Height(tip) /\ db'.tip = tip /\ db'.fs_height = db.fs_height
        /\ db.fs_height = Height(tip) /\ bp'.height = Height(tip)
    <3>1. db.fs_height = bp.height
      BY <1>1, <1>2 DEF WorkInv
    <3> QED
      BY <2>5, <2>6, <2>7, <3>1
  <2>10. PICK b \in Tips :
          /\ db.fs_height = Height(b) /\ Extends(tip, b) /\ FilesHold(b)
          /\ bp.headers \in Seq(Blocks) /\ Path[tip] = Path[b] \o bp.headers
          /\ bp.tx_hashes \in Seq(Seq(TxId)) /\ ChainTxs[tip] = ChainTxs[b] \o FlattenSeq(bp.tx_hashes)
    BY <1>2, <2>5 DEF Ahead, Unwritten
  <2>11. b = tip
    BY <2>5, <2>9, <2>10, ExtendsSame
  <2>12. DiskInv'
    <3>1. Known(Committed)'
      BY <2>5, <2>8 DEF Known
    <3>2. TablesMatchTip'
      BY <2>3, <2>8 DEF TablesMatchTip
    <3>3. FilesHold(Committed)'
      BY <1>1, <2>8, <2>10, <2>11 DEF FilesHold
    <3>4. UndoRight'
      BY <2>4, <2>8 DEF UndoRight
    <3>5. UndoSound'
      BY <2>4, <2>8 DEF UndoSound, Known
    <3> QED
      BY <3>1, <3>2, <3>3, <3>4, <3>5 DEF DiskInv
  <2>13. ReachInv'
    BY <1>4, <2>4, <2>5, <2>8 DEF ReachInv, UndoThere
  <2>14. Shapes'
    <3>1. disk'.state = [height |-> disk'.state.height, tx_count |-> disk'.state.tx_count,
                         tip |-> disk'.state.tip, first_sync |-> disk'.state.first_sync]
      BY <2>1, <2>2
    <3> QED
      BY <1>1, <1>2, <2>1, <2>2, <2>6, <2>7, <3>1 DEF Shapes
  <2>15. WorkInv'
    <3>1. pc' = "reopen" => db'.fs_height = db'.height
      BY <2>9
    <3>2. work' = work /\ reorg_count' = reorg_count
      BY <1>1
    <3> QED
      BY <1>2, <1>4, <3>1, <3>2 DEF WorkInv
  <2>16. TipInv'
    <3>1. /\ bp'.tip = tip /\ bp'.tx_count = TxCount(tip) /\ bp'.cache = {} /\ bp'.deletes = {}
          /\ bp'.touched = bp.touched
      BY <2>5, <2>7
    <3>2. tx_counts' = TxCounts[tip] /\ bp'.height <= cached_height'
      BY <1>1, <1>3, <2>5, <2>9
    <3> QED
      BY <2>3, <2>5, <2>8, <2>9, <3>1, <3>2 DEF TipInv, View
  <2>17. Unwritten'
    <3>1. bp'.tip = tip /\ bp'.headers = bp.headers /\ bp'.tx_hashes = bp.tx_hashes
          /\ files' = files /\ Extends(tip, tip)
      BY <1>1, <2>5, <2>7, ExtendsItself
    <3> QED
      BY <2>5, <2>8, <2>9, <2>10, <2>11, <3>1 DEF Unwritten, FilesHold
  <2>18. PendingUndo'
    <3>1. Height(tip) + 1 .. Height(tip) = {} /\ 1 .. Len(<<>>) = {}
      BY <1>2 DEF tip
    <3>2. <<>> \in Seq([height : Nat, info : Seq(Prevouts)])
      BY EmptySeq
    <3>3. bp'.undo_infos = <<>> /\ bp'.tip = tip
      BY <2>5, <2>7
    <3> QED
      BY <2>8, <3>1, <3>2, <3>3 DEF PendingUndo
  <2>19. Ahead'
    <3>1. bp'.tip = tip /\ bp'.history = Touches[tip] /\ Extends(tip, tip)
      BY <2>5, <2>7, ExtendsItself
    <3> QED
      BY <1>4, <2>8, <2>17, <2>18, <3>1 DEF Ahead
  <2> QED
    BY <1>3, <2>12, <2>13, <2>14, <2>15, <2>16, <2>19 DEF IInv
<1> QED
  BY <1>5, <1>6


-----------------------------------------------------------------------------
(* Advancing.                                                               *)

LEMMA EnvFacts ==
    ASSUME DiskInv, db.height = disk.state.height, NEW X \in Blocks, Extends(X, Committed)
    PROVE  Env(X)
<1>1. Committed \in Tips
  BY KnownFacts DEF DiskInv
<1>2. /\ disk.state.height = Height(Committed)
      /\ disk.h = { HKey(c) : c \in Unspent[Committed] } /\ disk.u = { UKey(k) : k \in disk.h }
  <2>1. TablesMatchTip
    BY DEF DiskInv
  <2> QED
    BY <2>1 DEF TablesMatchTip, Committed
<1>3. ASSUME NEW n \in Nums(Committed)
      PROVE  files.hashes[n + 1] = ChainTxs[Committed][n + 1]
  <2>1. Begins(TxId, files.hashes, ChainTxs[Committed])
    BY DEF DiskInv, FilesHold, FilesAre
  <2>2. n + 1 \in 1 .. Len(ChainTxs[Committed])
    BY <1>1, HeightFacts DEF Nums, TxCount
  <2> QED
    BY <2>1, <2>2 DEF Begins
<1> QED
  BY <1>1, <1>2, <1>3 DEF Env

LEMMA TouchesTypes ==
    ASSUME NEW b \in Tips
    PROVE  Touches[b] \subseteq Prevouts
<1>1. CASE b = NoBlock
  BY <1>1, NoneFacts
<1>2. CASE b # NoBlock
  <2>1. b \in Blocks
    BY <1>2, TipsFacts
  <2>2. TxCount(b) \in Nat
    BY HeightFacts
  <2>3. ASSUME NEW c \in Created[b], NEW n \in Nat
        PROVE  [hashX |-> c.hashX, tx_num |-> n] \in Prevouts
    BY <2>1, CoinTypes DEF Touch1
  <2>4. \A c \in Created[b] : c.tx_num \in Nat
    BY <2>1, CoinFacts
  <2>5. \A c \in Created[b] : Spenders(b, c) \subseteq Nat
    BY <2>2 DEF Spenders
  <2> QED
    BY <2>3, <2>4, <2>5 DEF Touches
<1> QED
  BY <1>1, <1>2

LEMMA ScratchFacts ==
    ASSUME DiskInv, TipInv, NEW X \in Blocks, Extends(X, bp.tip), bp.history \subseteq Prevouts
    PROVE  Scratch \in Scratches(X) /\ BackupScratch \in Backups(X)
<1>1. bp.tip \in Tips /\ TxCount(bp.tip) \in Int /\ TxCounts[bp.tip] \in Seq(Nat) /\ Height(bp.tip) \in Int
  BY KnownFacts, HeightFacts, TxCountsFacts DEF TipInv
<1>2. Unspent[bp.tip] \subseteq Created[X]
  <2>1. Created[bp.tip] \subseteq Created[X]
    BY <1>1, CoinsOfAncestor
  <2>2. Unspent[bp.tip] \subseteq Created[bp.tip]
    BY <1>1 DEF Unspent
  <2> QED
    BY <2>1, <2>2
<1>3. bp.cache \in SUBSET Created[X] /\ bp.deletes \in SUBSET disk.h /\ bp.touched \in SUBSET HashXs
      /\ bp.history \in SUBSET Prevouts /\ bp.tx_count \in Int /\ tx_counts \in Seq(Nat)
      /\ bp.height \in Int /\ bp.tip \in Tips
  BY <1>1, <1>2 DEF TipInv, View
<1>4. <<>> \in Seq(Prevouts) /\ [hashX |-> NoX, tx_num |-> 0] \in [hashX : HashXs \cup {NoX}, tx_num : Nat]
  BY EmptySeq
<1> QED
  BY <1>3, <1>4 DEF Scratch, BackupScratch, Scratches, Backups

\* Appending to the end of a concatenation.
LEMMA AppendConcat ==
    ASSUME NEW S, NEW u, NEW z, NEW e, TwoSeqs(S, u, z), EndsWith(S, z, e)
    PROVE  Append(u \o z, e) = u \o Append(z, e) /\ Append(z, e) \in Seq(S)
<1>0. u \in Seq(S) /\ z \in Seq(S) /\ e \in S
  BY DEF TwoSeqs, EndsWith
<1> USE <1>0
<1>1. <<e>> \in Seq(S) /\ u \o z \in Seq(S)
  BY ConcatProperties
<1>2. Append(u \o z, e) = (u \o z) \o <<e>> /\ Append(z, e) = z \o <<e>>
  BY <1>1, AppendIsConcat
<1>3. (u \o z) \o <<e>> = u \o (z \o <<e>>)
  BY <1>1, ConcatAssociative
<1> QED
  BY <1>2, <1>3, AppendProperties

Pieces(S, u, ss, x) == u \in Seq(S) /\ ss \in Seq(Seq(S)) /\ x \in Seq(S)

LEMMA FlattenMore ==
    ASSUME NEW S, NEW u, NEW ss, NEW x, Pieces(S, u, ss, x)
    PROVE  /\ (u \o FlattenSeq(ss)) \o x = u \o FlattenSeq(Append(ss, x))
           /\ Append(ss, x) \in Seq(Seq(S))
<1> DEFINE f == FlattenSeq(ss)
<1>1. u \in Seq(S) /\ ss \in Seq(Seq(S)) /\ x \in Seq(S)
  BY DEF Pieces
<1>2. f \in Seq(S) /\ FlattenSeq(Append(ss, x)) = f \o x
  BY <1>1, FlattenFacts
<1> HIDE DEF f
<1>3. (u \o f) \o x = u \o (f \o x)
  BY <1>1, <1>2, ConcatAssociative
<1> QED
  BY <1>1, <1>2, <1>3, AppendProperties DEF f

\* What a block does to the scratch state.
LEMMA AdvancedScratch ==
    ASSUME IInv, pc = "advance", work.batch # <<>>
    PROVE  LET b == Head(work.batch)
               tip == bp.tip
               s == Fold(AdvanceTx, Scratch, Txs[b])
           IN /\ work.batch \in Seq(Blocks) /\ b \in Blocks /\ b = work.batch[1] /\ Len(work.batch) \in Nat
              /\ Len(work.batch) >= 1 /\ Fetched(b) /\ Prev[b] = tip
              /\ tip \in Tips /\ bp.height = Height(tip) /\ Height(b) = Height(tip) + 1
              /\ Height(tip) \in Int /\ Height(tip) >= -1 /\ b \in Tips /\ Known(b) /\ Height(b) <= cached_height
              /\ Extends(b, tip) /\ Committed \in Tips /\ Extends(tip, Committed) /\ Extends(b, Committed)
              /\ cached_height \in Int /\ ReorgLimit \in Nat /\ Height(Committed) \in Int
              /\ Height(Committed) >= -1 /\ Height(Committed) <= Height(tip)
              /\ Advanced(b, s, TxCount(b), tx_counts, SpentOutputs[b], Unspent[b], Touches[b], Touches[tip])
<1> DEFINE b == Head(work.batch)
           tip == bp.tip
           height == bp.height + 1
           s == Fold(AdvanceTx, Scratch, Txs[b])
<1>1. pc = "advance" /\ work.batch # <<>>
  OBVIOUS
<1>2. TipInv /\ ChainInv /\ Shapes /\ DiskInv /\ ReachInv /\ WorkInv /\ Ahead
  BY <1>1, TipFacts DEF IInv
<1>4. /\ work.batch \in Seq(Blocks) /\ b \in Blocks /\ b = work.batch[1] /\ Len(work.batch) \in Nat
      /\ Len(work.batch) >= 1 /\ Fetched(b) /\ Prev[b] = tip
  <2>1. work.batch \in Seq(Blocks)
        /\ \A i \in 1 .. Len(work.batch) :
             Fetched(work.batch[i]) /\ Prev[work.batch[i]] = IF i = 1 THEN bp.tip ELSE work.batch[i - 1]
    BY <1>1, <1>2 DEF WorkInv
  <2>2. b = work.batch[1] /\ Len(work.batch) \in Nat /\ Len(work.batch) >= 1 /\ b \in Blocks
    BY <1>1, <2>1
  <2>3. 1 \in 1 .. Len(work.batch)
    BY <2>2
  <2> QED
    BY <2>1, <2>2, <2>3
<1> HIDE DEF b
<1>5. /\ tip \in Tips /\ bp.height = Height(tip) /\ Height(b) = Height(tip) + 1 /\ height = Height(b)
      /\ Height(tip) \in Int /\ Height(tip) >= -1 /\ b \in Tips /\ Known(b) /\ Height(b) <= cached_height
      /\ Extends(b, tip) /\ Committed \in Tips /\ Extends(tip, Committed) /\ Extends(b, Committed)
      /\ cached_height \in Int /\ ReorgLimit \in Nat /\ Height(Committed) \in Int
      /\ Height(Committed) >= -1 /\ Height(Committed) <= Height(tip)
  <2>1. tip \in Tips /\ bp.height = Height(tip) /\ Committed \in Tips /\ Extends(tip, Committed)
        /\ Height(tip) \in Int /\ Height(tip) >= -1
    BY <1>2, KnownFacts DEF TipInv, DiskInv, Ahead
  <2>2. b \in Tips /\ Height(b) = Height(tip) + 1 /\ Known(b) /\ Height(b) <= cached_height
    BY <1>4, ParentFacts, TipsFacts DEF Fetched
  <2>3. Extends(b, tip)
    BY <1>4, ExtendsParent
  <2>4. Extends(b, Committed)
    BY <2>1, <2>2, <2>3, ExtendsTransitive
  <2> QED
    BY <1>2, <2>1, <2>2, <2>3, <2>4, HeightFacts, ConstantFacts DEF ChainInv, Extends
<1>6. Env(b)
  BY <1>2, <1>4, <1>5, EnvFacts DEF TipInv
<1>7. CountsOk(tx_counts)
  <2>1. tx_counts = TxCounts[tip]
    BY <1>2 DEF TipInv
  <2> QED
    BY <1>5, <1>6, <2>1, CountsFacts
<1>8. Advanced(b, Scratch, TxCount(Prev[b]), tx_counts, <<>>, Unspent[Prev[b]], Touches[Prev[b]], Touches[tip])
  <2>1. bp.history = Touches[tip] /\ Touches[tip] \subseteq Prevouts
    BY <1>2, <1>5, TouchesTypes DEF Ahead
  <2>2. Scratch \in Scratches(b)
    BY <1>2, <1>4, <1>5, <2>1, ScratchFacts
  <2>3. /\ Scratch.ok = TRUE /\ Scratch.tx_count = bp.tx_count /\ Scratch.counts = tx_counts
        /\ Scratch.undo = <<>> /\ Scratch.cache = bp.cache /\ Scratch.deletes = bp.deletes
        /\ Scratch.history = bp.history /\ Scratch.touched = bp.touched
    BY DEF Scratch
  <2>4. bp.tx_count = TxCount(tip) /\ View(bp, Unspent[tip])
    BY <1>2 DEF TipInv
  <2> QED
    BY <1>4, <2>1, <2>2, <2>3, <2>4 DEF Advanced, View
<1>9. Advanced(b, s, TxCount(b), tx_counts, SpentOutputs[b], Unspent[b], Touches[b], Touches[tip])
  BY <1>6, <1>7, <1>8, AdvanceFacts
<1> QED
  BY <1>4, <1>5, <1>9 DEF b, s

LEMMA AdvanceBlockInv ==
    ASSUME IInv, AdvanceBlock
    PROVE  IInv'
<1> DEFINE b == Head(work.batch)
           tip == bp.tip
           height == bp.height + 1
           keep == height >= MinUndoHeight(cached_height)
           s == Fold(AdvanceTx, Scratch, Txs[b])
           entry == [height |-> height, info |-> s.undo]
           infos == IF keep THEN Append(bp.undo_infos, entry) ELSE bp.undo_infos
<1>1. /\ pc = "advance" /\ work.batch # <<>>
      /\ bp' = [bp EXCEPT !.height = height, !.tip = b, !.tx_count = s.tx_count,
                          !.headers = Append(@, b), !.tx_hashes = Append(@, Txs[b]),
                          !.undo_infos = IF keep THEN Append(@, entry) ELSE @,
                          !.cache = s.cache, !.deletes = s.deletes,
                          !.touched = s.touched, !.history = s.history]
      /\ tx_counts' = Append(tx_counts, s.tx_count)
      /\ work' = [work EXCEPT !.batch = Tail(@)]
      /\ pc' = IF ~s.ok THEN "failed" ELSE IF Len(work.batch) = 1 THEN "advanced" ELSE "advance"
      /\ UNCHANGED <<daemonVars, prefetchVars, reorg_count, db, disk, files>>
  BY DEF AdvanceBlock
<1>2. TipInv /\ ChainInv /\ Shapes /\ DiskInv /\ ReachInv /\ WorkInv /\ Ahead
  BY <1>1, TipFacts DEF IInv
<1>3. ChainInv' /\ UNCHANGED <<best, cached_height, Committed>>
  BY <1>1, <1>2, SameChain DEF daemonVars, prefetchVars, Committed
<1>4. /\ work.batch \in Seq(Blocks) /\ b \in Blocks /\ b = work.batch[1] /\ Len(work.batch) \in Nat
      /\ Len(work.batch) >= 1 /\ Fetched(b) /\ Prev[b] = tip
  BY <1>1, AdvancedScratch
<1>5. /\ tip \in Tips /\ bp.height = Height(tip) /\ Height(b) = Height(tip) + 1 /\ height = Height(b)
      /\ Height(tip) \in Int /\ Height(tip) >= -1 /\ b \in Tips /\ Known(b) /\ Height(b) <= cached_height
      /\ Extends(b, tip) /\ Committed \in Tips /\ Extends(tip, Committed) /\ Extends(b, Committed)
      /\ cached_height \in Int /\ ReorgLimit \in Nat /\ Height(Committed) \in Int
      /\ Height(Committed) >= -1 /\ Height(Committed) <= Height(tip)
  BY <1>1, AdvancedScratch
<1>9. Advanced(b, s, TxCount(b), tx_counts, SpentOutputs[b], Unspent[b], Touches[b], Touches[tip])
  BY <1>1, AdvancedScratch
<1> HIDE DEF b
<1> HIDE DEF s
<1>10. /\ s.ok = TRUE /\ s.tx_count = TxCount(b) /\ s.undo = SpentOutputs[b] /\ View(s, Unspent[b])
       /\ s.history = Touches[b] /\ s.deletes \subseteq disk.h /\ s.touched \subseteq HashXs
  BY <1>9 DEF Advanced, Scratches
<1>11. bp' = [height |-> height, tip |-> b, tx_count |-> s.tx_count,
              headers |-> Append(bp.headers, b), tx_hashes |-> Append(bp.tx_hashes, Txs[b]),
              undo_infos |-> infos, cache |-> s.cache, deletes |-> s.deletes,
              touched |-> s.touched, history |-> s.history]
  BY <1>1, <1>2 DEF Shapes
<1>12. work' = [batch |-> Tail(work.batch), after |-> work.after, flush_utxos |-> work.flush_utxos,
                start |-> work.start, count |-> work.count]
  BY <1>1, <1>2 DEF Shapes
<1> HIDE DEF infos, entry, keep, height, tip
<1>13. /\ bp'.height = height /\ bp'.tip = b /\ bp'.tx_count = s.tx_count
       /\ bp'.headers = Append(bp.headers, b) /\ bp'.tx_hashes = Append(bp.tx_hashes, Txs[b])
       /\ bp'.undo_infos = infos /\ bp'.cache = s.cache /\ bp'.deletes = s.deletes
       /\ bp'.touched = s.touched /\ bp'.history = s.history
  BY <1>11
<1>14. DiskInv' /\ ReachInv'
  <2>1. DiskInv'
    BY <1>1, <1>2, SameDisk
  <2>2. pc' # "down" /\ Reached' = Reached
    BY <1>1, <1>3, <1>10 DEF Reached
  <2>3. ReachInv'
    BY <1>1, <1>2, <1>3, <2>2 DEF ReachInv, UndoThere
  <2> QED
    BY <2>1, <2>3
<1>15. Shapes'
  BY <1>1, <1>2, <1>11, <1>12 DEF Shapes
<1>16. WorkInv'
  <2>1. pc' \in {"advanced", "advance"} /\ reorg_count' = reorg_count
    BY <1>1, <1>10
  <2>2. /\ Tail(work.batch) \in Seq(Blocks)
        /\ \A i \in 1 .. Len(Tail(work.batch)) :
             /\ Fetched(Tail(work.batch)[i])
             /\ Prev[Tail(work.batch)[i]] = IF i = 1 THEN b ELSE Tail(work.batch)[i - 1]
    <3> DEFINE t == Tail(work.batch)
               n == Len(work.batch)
    <3>1. t \in Seq(Blocks) /\ Len(t) = n - 1 /\ \A i \in 1 .. Len(t) : t[i] = work.batch[i + 1]
      BY <1>1, <1>4, HeadTailProperties
    <3>2. \A i \in 1 .. n : Fetched(work.batch[i])
             /\ Prev[work.batch[i]] = IF i = 1 THEN bp.tip ELSE work.batch[i - 1]
      BY <1>1, <1>2 DEF WorkInv
    <3> HIDE DEF t, n
    <3>3. ASSUME NEW i \in 1 .. Len(t)
          PROVE  Fetched(t[i]) /\ Prev[t[i]] = IF i = 1 THEN b ELSE t[i - 1]
      <4>1. i + 1 \in 1 .. n /\ i + 1 # 1 /\ (i + 1) - 1 = i /\ t[i] = work.batch[i + 1]
        BY <1>4, <3>1, <3>3 DEF n
      <4>2. Fetched(t[i]) /\ Prev[t[i]] = work.batch[i]
        BY <3>2, <4>1
      <4>3. i # 1 => i - 1 \in 1 .. Len(t) /\ (i - 1) + 1 = i
        BY <1>4, <3>1, <3>3 DEF n
      <4>4. i # 1 => t[i - 1] = work.batch[i]
        BY <3>1, <4>3
      <4> QED
        BY <1>4, <4>2, <4>4
    <3> QED
      BY <3>1, <3>3 DEF t
  <2>3. \A i \in 1 .. Len(Tail(work.batch)) :
           LET c == Tail(work.batch)[i] IN c \in Blocks /\ Known(c) /\ Height(c) <= cached_height
    BY <2>2 DEF Fetched
  <2>4. /\ work'.batch = Tail(work.batch) /\ work'.after = work.after
        /\ work'.flush_utxos = work.flush_utxos /\ work'.start = work.start /\ work'.count = work.count
    BY <1>12
  <2> QED
    BY <1>2, <1>3, <1>13, <2>1, <2>2, <2>3, <2>4 DEF WorkInv, Fetched
<1>17. TipInv'
  <2>1. tx_counts' = TxCounts[b]
    BY <1>1, <1>2, <1>4, <1>10, TxCountsStep DEF TipInv, tip
  <2>2. bp'.height = Height(b) /\ bp'.height <= cached_height'
    BY <1>3, <1>5, <1>13
  <2> QED
    BY <1>1, <1>2, <1>5, <1>10, <1>13, <2>1, <2>2 DEF TipInv, View
<1>18. Unwritten'
  <2>1. PICK a \in Tips :
          /\ db.fs_height = Height(a) /\ Extends(a, Committed) /\ Extends(tip, a) /\ FilesHold(a)
          /\ bp.headers \in Seq(Blocks) /\ Path[tip] = Path[a] \o bp.headers
          /\ bp.tx_hashes \in Seq(Seq(TxId)) /\ ChainTxs[tip] = ChainTxs[a] \o FlattenSeq(bp.tx_hashes)
    BY <1>2 DEF Ahead, Unwritten, tip
  <2>2. Extends(b, a)
    BY <1>5, <2>1, ExtendsTransitive
  <2>3. Path[b] = Path[a] \o Append(bp.headers, b) /\ Append(bp.headers, b) \in Seq(Blocks)
    <3>1. Path[b] = Append(Path[tip], b) /\ Path[a] \in Seq(Blocks)
      BY <1>4, PathFacts, HeightFacts
    <3>2. TwoSeqs(Blocks, Path[a], bp.headers) /\ EndsWith(Blocks, bp.headers, b)
      BY <1>4, <2>1, <3>1 DEF TwoSeqs, EndsWith
    <3>3. Append(Path[a] \o bp.headers, b) = Path[a] \o Append(bp.headers, b)
          /\ Append(bp.headers, b) \in Seq(Blocks)
      BY ONLY <3>2, AppendConcat
    <3> QED
      BY <2>1, <3>1, <3>3
  <2>4. /\ ChainTxs[b] = ChainTxs[a] \o FlattenSeq(Append(bp.tx_hashes, Txs[b]))
        /\ Append(bp.tx_hashes, Txs[b]) \in Seq(Seq(TxId))
    <3>1. ChainTxs[b] = ChainTxs[tip] \o Txs[b] /\ ChainTxs[a] \in Seq(TxId) /\ Txs[b] \in Seq(TxId)
      BY <1>4, ChainTxsFacts, HeightFacts, ParentFacts
    <3>2. Pieces(TxId, ChainTxs[a], bp.tx_hashes, Txs[b])
      BY <2>1, <3>1 DEF Pieces
    <3>3. /\ (ChainTxs[a] \o FlattenSeq(bp.tx_hashes)) \o Txs[b]
               = ChainTxs[a] \o FlattenSeq(Append(bp.tx_hashes, Txs[b]))
          /\ Append(bp.tx_hashes, Txs[b]) \in Seq(Seq(TxId))
      BY ONLY <3>2, FlattenMore
    <3> QED
      BY <2>1, <3>1, <3>3
  <2>5. db'.fs_height = Height(a) /\ FilesAre(files', a)
    BY <1>1, <2>1 DEF FilesHold
  <2> QED
    BY <1>3, <1>13, <2>1, <2>2, <2>3, <2>4, <2>5 DEF Unwritten, FilesHold
<1>19. PendingUndo'
  <2> DEFINE undos == bp.undo_infos
             E == [height : Nat, info : Seq(Prevouts)]
             lo == Height(Committed) + 1
  <2>1. /\ undos \in Seq(E) /\ \A i, j \in 1 .. Len(undos) : undos[i].height = undos[j].height => i = j
        /\ \A i \in 1 .. Len(undos) : /\ undos[i].height \in lo .. Height(tip)
                                      /\ undos[i].info = SpentOutputs[Path[tip][undos[i].height + 1]]
        /\ \A h \in lo .. Height(tip) :
             h + ReorgLimit > cached_height => \E i \in 1 .. Len(undos) : undos[i].height = h
    BY <1>2 DEF Ahead, PendingUndo, tip
  <2>2. \A h \in lo .. Height(tip) : Path[b][h + 1] = Path[tip][h + 1]
    <3>1. \A h \in lo .. Height(tip) : h + 1 \in 1 .. Height(tip) + 1
      BY <1>5
    <3> QED
      BY <1>5, <3>1 DEF Extends
  <2>3. Path[b][Height(b) + 1] = b /\ SpentOutputs[b] \in Seq(Prevouts) /\ Height(b) \in lo .. Height(b)
        /\ Height(b) \in Nat
    <3>1. Path[b][Height(b) + 1] = b
      BY <1>4, ParentFacts
    <3>2. SpentOutputs[b] \in Seq(Prevouts)
      <4>1. Len(Txs[b]) \in 0 .. Len(Txs[b])
        BY <1>4, ParentFacts
      <4> QED
        BY <1>4, <4>1, UndoFacts
    <3> QED
      BY <1>5, <3>1, <3>2
  <2>4. entry \in E /\ entry.height = Height(b) /\ entry.info = SpentOutputs[b]
    BY <1>5, <1>10, <2>3 DEF entry
  <2>5. ~keep => ~(Height(b) + ReorgLimit > cached_height)
    BY <1>5 DEF keep, MinUndoHeight
  <2> HIDE DEF undos, E, lo
  <2>6. lo \in Int /\ Len(undos) \in Nat
    BY <1>5, <2>1 DEF lo
  <2>7. CASE keep
    <3>1. infos = Append(undos, entry)
      BY <2>7 DEF infos, undos
    <3>2. infos \in Seq(E) /\ Len(infos) = Len(undos) + 1 /\ infos[Len(undos) + 1] = entry
          /\ \A i \in 1 .. Len(undos) : infos[i] = undos[i]
      BY <2>1, <2>4, <3>1, AppendProperties
    <3>3. ASSUME NEW i \in 1 .. Len(infos)
          PROVE  (i \in 1 .. Len(undos) /\ infos[i] = undos[i]) \/ (i = Len(undos) + 1 /\ infos[i] = entry)
      BY <2>6, <3>2
    <3>4. ASSUME NEW i \in 1 .. Len(infos), NEW j \in 1 .. Len(infos), infos[i].height = infos[j].height
          PROVE  i = j
      <4>1. \A k \in 1 .. Len(undos) : undos[k].height # Height(b)
        BY <1>5, <2>1, <2>6
      <4> QED
        BY <2>1, <2>4, <3>3, <3>4, <4>1
    <3>5. ASSUME NEW i \in 1 .. Len(infos)
          PROVE  infos[i].height \in lo .. Height(b) /\ infos[i].info = SpentOutputs[Path[b][infos[i].height + 1]]
      <4>1. CASE i \in 1 .. Len(undos) /\ infos[i] = undos[i]
        <5>1. undos[i].height \in lo .. Height(tip)
              /\ undos[i].info = SpentOutputs[Path[tip][undos[i].height + 1]]
          BY <2>1, <4>1
        <5>2. undos[i].height \in lo .. Height(b)
          BY <1>5, <2>6, <5>1
        <5> QED
          BY <2>2, <4>1, <5>1, <5>2
      <4>2. CASE infos[i] = entry
        BY <2>3, <2>4, <4>2
      <4> QED
        BY <3>3, <4>1, <4>2
    <3>6. ASSUME NEW h \in lo .. Height(b), h + ReorgLimit > cached_height
          PROVE  \E i \in 1 .. Len(infos) : infos[i].height = h
      <4>1. CASE h = Height(b)
        <5>1. Len(undos) + 1 \in 1 .. Len(infos)
          BY <2>6, <3>2
        <5> QED
          BY <2>4, <3>2, <4>1, <5>1
      <4>2. CASE h # Height(b)
        <5>1. h \in lo .. Height(tip)
          BY <1>5, <2>6, <4>2
        <5>2. PICK i \in 1 .. Len(undos) : undos[i].height = h
          BY <2>1, <3>6, <5>1
        <5>3. i \in 1 .. Len(infos) /\ infos[i] = undos[i]
          BY <2>6, <3>2
        <5> QED
          BY <5>2, <5>3
      <4> QED
        BY <4>1, <4>2
    <3> QED
      BY <1>3, <1>13, <3>2, <3>4, <3>5, <3>6 DEF PendingUndo, E, lo
  <2>8. CASE ~keep
    <3>1. infos = undos
      BY <2>8 DEF infos, undos
    <3>2. \A i \in 1 .. Len(undos) : /\ undos[i].height \in lo .. Height(b)
                                     /\ undos[i].info = SpentOutputs[Path[b][undos[i].height + 1]]
      <4> TAKE i \in 1 .. Len(undos)
      <4>1. undos[i].height \in lo .. Height(tip)
            /\ undos[i].info = SpentOutputs[Path[tip][undos[i].height + 1]]
        BY <2>1
      <4>2. undos[i].height \in lo .. Height(b)
        BY <1>5, <2>6, <4>1
      <4> QED
        BY <2>2, <4>1, <4>2
    <3>3. ASSUME NEW h \in lo .. Height(b), h + ReorgLimit > cached_height
          PROVE  \E i \in 1 .. Len(undos) : undos[i].height = h
      <4>1. h # Height(b)
        BY <2>5, <2>8, <3>3
      <4>2. h \in lo .. Height(tip)
        BY <1>5, <2>6, <4>1
      <4> QED
        BY <2>1, <3>3, <4>2
    <3> QED
      BY <1>3, <1>13, <2>1, <3>1, <3>2, <3>3 DEF PendingUndo, E, lo
  <2> QED
    BY <2>7, <2>8
<1>20. Ahead'
  <2>1. pc' # "flush_backup"
    BY <1>1, <1>10
  <2> QED
    BY <1>3, <1>5, <1>10, <1>13, <1>18, <1>19, <2>1 DEF Ahead
<1> QED
  BY <1>3, <1>14, <1>15, <1>16, <1>17, <1>20 DEF IInv


-----------------------------------------------------------------------------
(* Backing up.                                                              *)

\* backup_blocks undoes blocks from the committed tip down, or fails.
LEMMA BackupBlocksFacts ==
    ASSUME NEW X, Env(X), X = Committed, UndoRight, NEW s, s \in Backups(X), BackedUp(X, s, X),
           NEW q, Len(q) \in Nat, Len(q) <= Height(X), Fold(BackupBlock, s, q).ok
    PROVE  \E t \in Tips : Height(t) = Height(X) - Len(q) /\ BackedUp(X, Fold(BackupBlock, s, q), t)
<1> DEFINE m == Len(q)
           At(r, k) == r \in Backups(X)
                       /\ (r.ok => \E t \in Tips : Height(t) = Height(X) - k /\ BackedUp(X, r, t))
           G == [k \in 0 .. m |-> { r \in Backups(X) : At(r, k) }]
<1>1. X \in Blocks /\ X \in Tips /\ Height(X) \in Int /\ Height(X) >= 0 /\ m \in Nat /\ m <= Height(X)
  BY TipsFacts, ParentFacts, HeightFacts DEF Env
<1>2. At(s, 0)
  <2>1. Height(X) = Height(X) - 0
    BY <1>1
  <2> QED
    BY <1>1, <2>1
<1>3. ASSUME NEW i \in 1 .. m, NEW r, At(r, i - 1)
      PROVE  At(BackupBlock(r, q[i]), i)
  <2> DEFINE w == BackupBlock(r, q[i])
  <2>1. r \in Backups(X) /\ i \in Int /\ i <= Height(X)
    BY <1>1, <1>3
  <2>2. CASE r.ok
    <3>1. PICK t \in Tips : Height(t) = Height(X) - (i - 1) /\ BackedUp(X, r, t)
      BY <1>3, <2>2
    <3>2. Height(t) >= 0
      BY <1>1, <2>1, <3>1
    <3>3. t \in Blocks
      BY <3>1, <3>2, TipsFacts, HeightFacts
    <3>4. w \in Backups(X) /\ (w.ok => BackedUp(X, w, Prev[t]))
      BY <2>1, <3>1, <3>3, BackupBlockFacts
    <3>5. Prev[t] \in Tips /\ Height(Prev[t]) = Height(X) - i
      <4>1. Prev[t] \in Tips /\ Height(t) = Height(Prev[t]) + 1 /\ Height(Prev[t]) \in Int
        BY <3>3, ParentFacts, HeightFacts
      <4> QED
        BY <1>1, <2>1, <3>1, <4>1
    <3> HIDE DEF w
    <3> QED
      BY <3>4, <3>5 DEF w
  <2>3. CASE ~r.ok
    <3>1. w.ok = FALSE /\ w \in Backups(X)
      <4>1. w = [r EXCEPT !.ok = FALSE]
        BY <2>3 DEF BackupBlock
      <4> HIDE DEF w
      <4> QED
        BY <2>1, <4>1 DEF Backups
    <3> HIDE DEF w
    <3> QED
      BY <3>1 DEF w
  <2> QED
    BY <2>2, <2>3
<1>4. \A k \in 0 .. m : \A r : At(r, k) => r \in G[k]
  OBVIOUS
<1>5. \A k \in 0 .. m : \A r \in G[k] : At(r, k)
  OBVIOUS
<1> HIDE DEF At, G
<1>6. Runs("backup_block", 0, s, q, G)
  <2>1. s \in G[0]
    BY <1>1, <1>2, <1>4
  <2>2. ASSUME NEW i \in 1 .. m, NEW r \in G[i - 1]
        PROVE  Op("backup_block", 0, r, q[i]) \in G[i]
    <3>1. i - 1 \in 0 .. m /\ i \in 0 .. m
      BY <1>1
    <3>2. At(BackupBlock(r, q[i]), i)
      BY <1>3, <1>5, <3>1
    <3>3. Op("backup_block", 0, r, q[i]) = BackupBlock(r, q[i])
      BY DEF Op
    <3> QED
      BY <1>4, <3>1, <3>2, <3>3
  <2> QED
    BY <1>1, <2>1, <2>2 DEF Runs
<1>7. At(Folded("backup_block", 0, s, q), m)
  <2>1. m \in 0 .. m
    BY <1>1
  <2> QED
    BY <1>5, <1>6, <2>1, FoldFacts
<1>8. At(Fold(BackupBlock, s, q), m)
  BY <1>7, BlockFolds
<1> QED
  BY <1>8 DEF At

\* What backup_blocks begins with, and ends with if nothing is wrong.
LEMMA BackedUpScratch ==
    ASSUME IInv, pc = "backup", AssertFlushed
    PROVE  LET X == bp.tip
               s == Fold(BackupBlock, BackupScratch, RawBlocks(Chunk))
           IN /\ X \in Tips /\ X = Committed /\ bp.height = Height(X) /\ Height(X) \in Int /\ UndoRight
              /\ bp.height = db.fs_height /\ bp.height = db.height
              /\ bp.headers = <<>> /\ bp.tx_hashes = <<>> /\ bp.undo_infos = <<>>
              /\ X # NoBlock => X \in Blocks /\ Env(X) /\ BackedUp(X, BackupScratch, X)
              /\ work.count > 0 /\ bp.height >= Chunk => Chunk \in Nat /\ Chunk > 0 /\ X # NoBlock /\ Len(RawBlocks(Chunk)) = Chunk
              /\ work.count > 0 /\ bp.height >= Chunk /\ s.ok =>
                   X \in Blocks /\ \E t \in Tips : Height(t) = Height(X) - Chunk /\ BackedUp(X, s, t)
<1> DEFINE n == Chunk
           raws == RawBlocks(n)
           s == Fold(BackupBlock, BackupScratch, raws)
           X == bp.tip
<1>1. pc = "backup" /\ AssertFlushed
  OBVIOUS
<1>2. TipInv /\ ChainInv /\ Shapes /\ DiskInv /\ ReachInv /\ WorkInv /\ Ahead
      /\ X \in Tips /\ bp.height \in Int /\ bp.height = Height(X) /\ Height(X) \in Int /\ UndoRight
  BY <1>1, TipFacts DEF IInv, DiskInv
<1>3. /\ bp.height = db.fs_height /\ bp.height = db.height /\ bp.tip = db.tip /\ X = Committed
      /\ bp.headers = <<>> /\ bp.tx_hashes = <<>> /\ bp.undo_infos = <<>>
  BY <1>1, <1>2 DEF AssertFlushed, TipInv, Committed
<1>4. ASSUME X # NoBlock
      PROVE  X \in Blocks /\ Env(X) /\ BackedUp(X, BackupScratch, X)
  <2>1. X \in Blocks
    BY <1>2, <1>4, TipsFacts
  <2>2. Extends(X, X)
    BY <1>2, ExtendsItself
  <2>3. Env(X)
    BY <1>2, <1>3, <2>1, <2>2, EnvFacts DEF TipInv
  <2>4. bp.history = Touches[X] /\ Touches[X] \subseteq Prevouts
    BY <1>2, TouchesTypes DEF Ahead
  <2>5. BackupScratch \in Backups(X)
    BY <1>2, <2>1, <2>2, <2>4, ScratchFacts
  <2>6. /\ BackupScratch.ok = TRUE /\ BackupScratch.tx_count = bp.tx_count
        /\ BackupScratch.counts = tx_counts /\ BackupScratch.cache = bp.cache
        /\ BackupScratch.deletes = bp.deletes /\ BackupScratch.height = bp.height
        /\ BackupScratch.tip = bp.tip /\ BackupScratch.touched = bp.touched
    BY DEF BackupScratch
  <2>7. bp.tx_count = TxCount(X) /\ View(bp, Unspent[X]) /\ tx_counts = TxCounts[X]
    BY <1>2 DEF TipInv
  <2>8. HashXsFrom(X, TxCount(X)) = {}
    BY <2>1, HashXsFromFacts
  <2> QED
    BY <1>2, <2>1, <2>2, <2>3, <2>5, <2>6, <2>7, <2>8 DEF BackedUp, View
<1>5. ASSUME work.count > 0, bp.height >= n
      PROVE  n \in Nat /\ n > 0 /\ X # NoBlock /\ Len(raws) = n
  <2>1. work.count \in Int /\ ChunkSize \in Nat /\ ChunkSize > 0
    BY <1>2, ConstantFacts DEF WorkInv
  <2>2. n \in Nat /\ n > 0
    BY <1>5, <2>1 DEF Chunk
  <2> HIDE DEF n
  <2>3. X # NoBlock
    BY <1>2, <1>5, <2>2, TipsFacts, HeightFacts
  <2> QED
    BY <2>2, <2>3 DEF RawBlocks
<1>6. ASSUME work.count > 0, bp.height >= n, s.ok
      PROVE  X \in Blocks /\ \E t \in Tips : Height(t) = Height(X) - n /\ BackedUp(X, s, t)
  <2> HIDE DEF n, raws, X
  <2>1. X \in Blocks /\ Env(X) /\ BackedUp(X, BackupScratch, X) /\ Len(raws) = n /\ n \in Nat /\ n <= Height(X)
    BY <1>2, <1>4, <1>5, <1>6
  <2>2. BackupScratch \in Backups(X)
    BY <2>1 DEF BackedUp
  <2> QED
    BY <1>2, <1>3, <1>6, <2>1, <2>2, BackupBlocksFacts
<1> HIDE DEF s
<1> QED
  BY <1>2, <1>3, <1>4, <1>5, <1>6 DEF s

LEMMA BackupBlocksInv ==
    ASSUME IInv, BackupBlocks
    PROVE  IInv'
<1> DEFINE n == Chunk
           raws == RawBlocks(n)
           s == Fold(BackupBlock, BackupScratch, raws)
           X == bp.tip
<1>1. /\ pc = "backup" /\ work.count > 0
      /\ UNCHANGED <<daemonVars, prefetchVars, reorg_count, db, diskVars>>
      /\ IF AssertFlushed /\ bp.height >= n /\ s.ok
         THEN /\ bp' = [bp EXCEPT !.height = s.height, !.tip = s.tip, !.tx_count = s.tx_count,
                                  !.cache = s.cache, !.deletes = s.deletes, !.touched = s.touched]
              /\ tx_counts' = s.counts
              /\ work' = [work EXCEPT !.count = @ - n]
              /\ pc' = "flush_backup"
         ELSE pc' = "failed" /\ UNCHANGED <<bp, tx_counts, work>>
  BY DEF BackupBlocks
<1>2. TipInv /\ ChainInv /\ Shapes /\ DiskInv /\ ReachInv /\ WorkInv /\ Ahead
      /\ X \in Tips /\ bp.height \in Int /\ bp.height = Height(X)
  BY <1>1, TipFacts DEF IInv
<1>3. ChainInv' /\ UNCHANGED <<best, cached_height, Committed, disk, files>>
  BY <1>1, <1>2, SameChain DEF daemonVars, prefetchVars, diskVars, Committed
<1>4. n \in Nat /\ n > 0
  <2>1. work.count \in Int /\ work.count > 0 /\ ChunkSize \in Nat /\ ChunkSize > 0
    BY <1>1, <1>2, ConstantFacts DEF WorkInv
  <2> QED
    BY <2>1 DEF Chunk
<1> HIDE DEF n
<1>5. CASE ~(AssertFlushed /\ bp.height >= n /\ s.ok)
  <2>1. pc' = "failed" /\ UNCHANGED <<bp, tx_counts, work>>
    BY <1>1, <1>5
  <2>2. WorkInv'
    BY <1>1, <1>2, <2>1 DEF WorkInv
  <2>3. IsWork(work')
    BY <1>2, <2>1 DEF IsWork, Shapes
  <2>4. pc # "down" /\ pc' # "down" /\ pc' # "flush_backup" /\ cached_height' >= cached_height
        /\ UNCHANGED <<disk, files, bp, tx_counts, db>>
    BY <1>1, <1>2, <1>3, <2>1 DEF ChainInv
  <2> QED
    BY ONLY IInv, <1>2, <1>3, <2>2, <2>3, <2>4, MoveInv
<1>6. CASE AssertFlushed /\ bp.height >= n /\ s.ok
  <2>1. /\ bp' = [bp EXCEPT !.height = s.height, !.tip = s.tip, !.tx_count = s.tx_count,
                            !.cache = s.cache, !.deletes = s.deletes, !.touched = s.touched]
        /\ tx_counts' = s.counts /\ work' = [work EXCEPT !.count = @ - n] /\ pc' = "flush_backup"
    BY <1>1, <1>6
  <2>2. /\ bp.height = db.fs_height /\ bp.height = db.height /\ bp.tip = db.tip /\ X = Committed
        /\ bp.headers = <<>> /\ bp.tx_hashes = <<>> /\ bp.undo_infos = <<>>
    BY <1>2, <1>6 DEF AssertFlushed, TipInv, Committed
  <2>3. X \in Blocks /\ n <= Height(X)
    BY <1>2, <1>4, <1>6, TipsFacts, HeightFacts
  <2>7. PICK t \in Tips : Height(t) = Height(X) - n /\ BackedUp(X, s, t)
    BY <1>1, <1>6, BackedUpScratch DEF n
  <2> HIDE DEF s, X
  <2>8. /\ Extends(X, t) /\ s.height = Height(t) /\ s.tip = t /\ s.tx_count = TxCount(t)
        /\ s.counts = TxCounts[t] /\ View(s, Unspent[t]) /\ HashXsFrom(X, TxCount(t)) \subseteq s.touched
        /\ s.deletes \subseteq disk.h /\ s.touched \subseteq HashXs
    BY <2>7 DEF BackedUp, Backups
  <2>9. bp' = [height |-> s.height, tip |-> s.tip, tx_count |-> s.tx_count,
               headers |-> bp.headers, tx_hashes |-> bp.tx_hashes, undo_infos |-> bp.undo_infos,
               cache |-> s.cache, deletes |-> s.deletes, touched |-> s.touched,
               history |-> bp.history]
    BY <1>2, <2>1 DEF Shapes
  <2>10. work' = [batch |-> work.batch, after |-> work.after, flush_utxos |-> work.flush_utxos,
                  start |-> work.start, count |-> work.count - n]
    BY <1>2, <2>1 DEF Shapes
  <2>11. /\ bp'.height = Height(t) /\ bp'.tip = t /\ bp'.tx_count = TxCount(t)
         /\ bp'.headers = <<>> /\ bp'.tx_hashes = <<>> /\ bp'.undo_infos = <<>>
         /\ bp'.cache = s.cache /\ bp'.deletes = s.deletes /\ bp'.touched = s.touched
         /\ bp'.history = bp.history
    BY <2>2, <2>8, <2>9
  <2>12. DiskInv' /\ ReachInv'
    <3>1. DiskInv'
      BY <1>2, <1>3, SameDisk
    <3>2. Reached' = Reached
      BY <1>1, <1>3, <2>1 DEF Reached
    <3> QED
      BY <1>2, <1>3, <3>1, <3>2 DEF ReachInv, UndoThere
  <2>13. Shapes'
    BY <1>1, <1>2, <1>3, <2>9, <2>10 DEF Shapes
  <2>14. WorkInv'
    <3>1. work.count - n \in Int /\ reorg_count' \in Int
      BY <1>1, <1>2, <1>4 DEF WorkInv
    <3> QED
      BY <1>2, <2>1, <2>10, <3>1 DEF WorkInv
  <2>15. Height(t) < Height(X) /\ Height(t) \in Int /\ Height(X) \in Int /\ Known(t)
    <3>1. Known(X)
      BY <1>2 DEF TipInv, X
    <3> QED
      BY <1>4, <2>3, <2>7, <2>8, <3>1, TipsFacts, HeightFacts, KnownFacts
  <2>16. TipInv'
    <3>1. Height(t) <= cached_height'
      <4>1. cached_height \in Int /\ Height(X) <= cached_height
        BY <1>2 DEF ChainInv, TipInv, X
      <4> QED
        BY <1>3, <2>15, <4>1
    <3>2. db'.height = disk'.state.height /\ db'.tip = disk'.state.tip
      BY <1>1, <1>2, <1>3 DEF TipInv
    <3> QED
      BY <1>3, <2>1, <2>8, <2>11, <2>15, <3>1, <3>2 DEF TipInv, View
  <2>17. Behind'
    <3>1. bp.history = Touches[X]
      BY <1>2 DEF Ahead, X
    <3>2. Committed' = X /\ db' = db /\ db.height = Height(X) /\ db.fs_height = db.height
      BY <1>1, <1>2, <1>3, <2>2 DEF X
    <3> QED
      BY <2>1, <2>8, <2>11, <2>15, <3>1, <3>2 DEF Behind, HashXsFrom
  <2> QED
    BY <1>3, <2>12, <2>13, <2>14, <2>16, <2>17 DEF IInv
<1> QED
  BY <1>5, <1>6

LEMMA FlushBackupInv ==
    ASSUME IInv, FlushBackup
    PROVE  IInv'
<1> DEFINE tip == bp.tip
           X == Committed
           new == FlushUtxoDb(db)
           cut == Cut(bp.history, bp.tx_count)
<1>1. /\ pc = "flush_backup"
      /\ bp' = [Flushed EXCEPT !.history = Cut(@, bp.tx_count)]
      /\ disk' = [FlushUtxoDb(db) EXCEPT !.history = Cut(@, bp.tx_count)]
      /\ db' = [db EXCEPT !.height = bp.height, !.tip = bp.tip,
                          !.tx_count = bp.tx_count, !.fs_height = bp.height]
      /\ \/ pc' = "backup" /\ UNCHANGED <<prefetchVars, reorg_count>>
         \/ pc' = "top" /\ ResetHeight(bp.height) /\ reorg_count' \in {0, reorg_count}
      /\ UNCHANGED <<daemonVars, work, tx_counts, files>>
  BY DEF FlushBackup
<1>2. TipInv /\ ChainInv /\ Shapes /\ DiskInv /\ ReachInv /\ WorkInv
      /\ tip \in Tips /\ bp.height \in Int /\ bp.height = Height(tip) /\ bp.height >= -1
  BY <1>1, TipFacts DEF IInv
<1>3. Behind
  BY <1>1 DEF IInv, Ahead
<1>4. /\ X \in Blocks /\ X \in Tips /\ Known(X) /\ Extends(X, tip) /\ Height(tip) < Height(X)
      /\ Height(X) \in Int /\ Height(tip) \in Int /\ Height(tip) >= -1 /\ Known(tip)
      /\ bp.history = Touches[X] /\ HashXsFrom(X, TxCount(tip)) \subseteq bp.touched
      /\ bp.headers = <<>> /\ bp.tx_hashes = <<>> /\ bp.undo_infos = <<>>
      /\ bp.tx_count = TxCount(tip) /\ tx_counts = TxCounts[tip] /\ bp.touched \subseteq HashXs
  <2>1. Known(X) /\ X \in Tips /\ Height(X) \in Int /\ Height(X) = disk.state.height
    BY <1>2, KnownFacts DEF DiskInv, TablesMatchTip, Committed
  <2>2. db.height = Height(X) /\ Height(tip) < Height(X)
    BY <1>2, <1>3, <2>1 DEF TipInv, Behind
  <2>3. X # NoBlock
    <3>1. Height(NoBlock) = -1
      BY TipsFacts, HeightFacts
    <3>2. Height(tip) \in Int /\ Height(tip) >= -1
      BY <1>2, HeightFacts
    <3> QED
      BY <2>1, <2>2, <3>1, <3>2
  <2> QED
    BY <1>2, <1>3, <2>1, <2>2, <2>3, TipsFacts DEF Behind, TipInv
<1>5. cut = Touches[tip]
  <2>1. Touches[tip] = { p \in Touches[X] : p.tx_num < TxCount(tip) }
    BY <1>2, <1>4, CoinsOfAncestor DEF TouchesAt
  <2>2. TxCount(tip) \in Nat /\ \A p \in Touches[X] : p.tx_num \in Nat
    <3>1. Touches[X] \subseteq Prevouts
      BY <1>4, TouchesTypes
    <3> QED
      BY <1>2, <3>1, HeightFacts DEF Prevouts
  <2>3. \A p \in Touches[X] : ~(p.tx_num < TxCount(tip)) => p.hashX \in bp.touched
    <3> SUFFICES ASSUME NEW p \in Touches[X], ~(p.tx_num < TxCount(tip)) PROVE p.hashX \in bp.touched
      OBVIOUS
    <3>1. p.tx_num >= TxCount(tip)
      BY <2>2
    <3>2. p.hashX \in HashXsFrom(X, TxCount(tip))
      BY <3>1 DEF HashXsFrom
    <3> QED
      BY <1>4, <3>2
  <2> HIDE DEF X, tip
  <2> QED
    BY <1>4, <2>1, <2>3 DEF Cut, tip
<1>6. /\ new = [state |-> new.state, h |-> new.h, u |-> new.u, undo |-> new.undo,
                history |-> bp.history]
      /\ new.state = [height |-> bp.height, tx_count |-> bp.tx_count, tip |-> bp.tip,
                      first_sync |-> db.first_sync]
      /\ new.history = bp.history
  BY DEF FlushUtxoDb
<1>7. new.h = { HKey(c) : c \in Unspent[tip] } /\ new.u = { UKey(k) : k \in new.h }
  BY <1>2, FlushedTables
<1>8. DOMAIN new.undo = DOMAIN disk.undo /\ \A h \in DOMAIN disk.undo : new.undo[h] = disk.undo[h]
  <2>1. PendingUndo
    <3>1. <<>> \in Seq([height : Nat, info : Seq(Prevouts)]) /\ 1 .. Len(<<>>) = {}
          /\ Height(X) + 1 .. Height(tip) = {}
      BY <1>4, EmptySeq
    <3> QED
      BY <1>4, <3>1 DEF PendingUndo
  <2>2. 1 .. Len(bp.undo_infos) = {}
    BY <1>4
  <2> QED
    BY <2>1, <2>2, FlushedUndo
<1> HIDE DEF new, cut
<1>9. disk' = [state |-> new.state, h |-> new.h, u |-> new.u, undo |-> new.undo, history |-> cut]
  BY <1>1, <1>6 DEF new, cut
<1>10. bp' = [height |-> bp.height, tip |-> bp.tip, tx_count |-> bp.tx_count,
              headers |-> bp.headers, tx_hashes |-> bp.tx_hashes, undo_infos |-> <<>>,
              cache |-> {}, deletes |-> {}, touched |-> bp.touched, history |-> cut]
  BY <1>1, <1>2 DEF Shapes, Flushed, cut
<1>11. db' = [height |-> bp.height, tx_count |-> bp.tx_count, tip |-> bp.tip,
              first_sync |-> db.first_sync, fs_height |-> bp.height]
  BY <1>1, <1>2 DEF Shapes
<1> HIDE DEF tip, X
<1>12. /\ bp'.height = Height(tip) /\ bp'.tip = tip /\ bp'.tx_count = TxCount(tip)
       /\ bp'.headers = <<>> /\ bp'.tx_hashes = <<>> /\ bp'.undo_infos = <<>>
       /\ bp'.cache = {} /\ bp'.deletes = {} /\ bp'.touched = bp.touched /\ bp'.history = Touches[tip]
       /\ db'.height = Height(tip) /\ db'.tip = tip /\ db'.fs_height = Height(tip)
  BY <1>2, <1>4, <1>5, <1>10, <1>11 DEF tip
<1>13. /\ disk'.state.height = Height(tip) /\ disk'.state.tx_count = TxCount(tip)
       /\ disk'.state.tip = tip /\ Committed' = tip /\ disk'.h = new.h /\ disk'.u = new.u
       /\ disk'.undo = new.undo /\ disk'.history = Touches[tip]
  BY <1>2, <1>4, <1>5, <1>6, <1>9 DEF Committed, tip
<1>14. ChainInv' /\ cached_height' >= cached_height
  <2>1. CASE pc' = "backup" /\ UNCHANGED <<prefetchVars, reorg_count>>
    BY <1>1, <1>2, <2>1, SameChain DEF ChainInv, prefetchVars
  <2>2. CASE pc' = "top" /\ ResetHeight(bp.height) /\ reorg_count' \in {0, reorg_count}
    BY <1>1, <1>2, <2>2, ResetChain
  <2> QED
    BY <1>1, <2>1, <2>2
<1>15. /\ pc' \in {"backup", "top"} /\ pc # "down" /\ cached_height \in Int /\ cached_height' \in Int
       /\ Reached = cached_height /\ Reached' = cached_height' /\ reorg_count' \in Int
  BY <1>1, <1>2, <1>14 DEF ChainInv, Reached, WorkInv
<1>16. FilesAre(files', tip)
  <2>1. FilesAre(files, X)
    BY <1>2 DEF DiskInv, FilesHold, X
  <2>2. FilesAre(files, tip)
    BY <1>2, <1>4, <2>1, FilesOfAncestor DEF tip
  <2> QED
    BY <1>1, <2>2
<1>17. DiskInv'
  <2>1. Known(Committed)'
    BY <1>4, <1>13 DEF Known
  <2>2. TablesMatchTip'
    BY <1>7, <1>13 DEF TablesMatchTip
  <2>3. FilesHold(Committed)'
    BY <1>13, <1>16 DEF FilesHold
  <2>4. UndoRight'
    <3> SUFFICES ASSUME NEW h \in DOMAIN new.undo, h \in 0 .. Height(tip)
                 PROVE  new.undo[h] = SpentOutputs[Path[tip][h + 1]]
      BY <1>13 DEF UndoRight
    <3>1. h \in 0 .. Height(X) /\ h + 1 \in 1 .. Height(tip) + 1
      BY <1>4
    <3>2. disk.undo[h] = SpentOutputs[Path[X][h + 1]]
      BY <1>2, <1>8, <3>1 DEF DiskInv, UndoRight, X
    <3>3. Path[X][h + 1] = Path[tip][h + 1]
      BY <1>4, <3>1 DEF Extends
    <3> QED
      BY <1>8, <3>2, <3>3
  <2>5. UndoSound'
    BY <1>2, <1>8, <1>13 DEF DiskInv, UndoSound, Known
  <2> QED
    BY <2>1, <2>2, <2>3, <2>4, <2>5 DEF DiskInv
<1>18. ReachInv'
  <2>1. Height(tip) <= cached_height'
    <3>1. Height(tip) <= cached_height
      BY <1>2 DEF TipInv, tip
    <3> QED
      BY <1>4, <1>14, <1>15, <3>1
  <2>2. ReorgLimit \in Nat
    BY ConstantFacts
  <2>3. ASSUME NEW h \in 0 .. Height(tip), h + ReorgLimit > cached_height'
        PROVE  h \in DOMAIN new.undo
    <3>1. h \in 0 .. Height(X) /\ h + ReorgLimit > cached_height
      BY <1>4, <1>14, <1>15, <2>2, <2>3
    <3> QED
      BY <1>2, <1>8, <1>15, <3>1 DEF ReachInv, UndoThere, X
  <2> QED
    BY <1>13, <1>15, <2>1, <2>3 DEF ReachInv, UndoThere
<1>19. Shapes'
  <2>1. disk'.state = [height |-> disk'.state.height, tx_count |-> disk'.state.tx_count,
                       tip |-> disk'.state.tip, first_sync |-> disk'.state.first_sync]
    BY <1>6, <1>9
  <2> QED
    BY <1>1, <1>2, <1>9, <1>10, <1>11, <2>1 DEF Shapes
<1>20. WorkInv'
  BY <1>1, <1>2, <1>15 DEF WorkInv
<1>21. TipInv'
  <2>1. Height(tip) <= cached_height'
    BY <1>13, <1>15, <1>18 DEF ReachInv
  <2>2. tx_counts' = TxCounts[tip]
    BY <1>1, <1>4
  <2> QED
    BY <1>4, <1>7, <1>12, <1>13, <2>1, <2>2 DEF TipInv, View
<1>22. tip \in Tips /\ Extends(tip, tip)
  BY <1>2, ExtendsItself DEF tip
<1>23. Unwritten'
  <2>1. Path[tip] = Path[tip] \o <<>> /\ ChainTxs[tip] = ChainTxs[tip] \o FlattenSeq(<<>>)
    BY <1>22, NothingMore
  <2>2. <<>> \in Seq(Blocks) /\ <<>> \in Seq(Seq(TxId))
    BY EmptySeq
  <2> QED
    BY <1>12, <1>13, <1>16, <1>22, <2>1, <2>2 DEF Unwritten, FilesHold
<1>24. PendingUndo'
  <2>1. Height(tip) + 1 .. Height(tip) = {} /\ 1 .. Len(<<>>) = {}
    BY <1>4
  <2>2. <<>> \in Seq([height : Nat, info : Seq(Prevouts)])
    BY EmptySeq
  <2> QED
    BY <1>12, <1>13, <2>1, <2>2 DEF PendingUndo
<1>25. Ahead'
  BY <1>12, <1>13, <1>15, <1>22, <1>23, <1>24 DEF Ahead
<1> QED
  BY <1>14, <1>17, <1>18, <1>19, <1>20, <1>21, <1>25 DEF IInv


-----------------------------------------------------------------------------
(* The invariant, and what it says of the properties that are checked.      *)

LEMMA StutterInv ==
    ASSUME IInv, UNCHANGED vars
    PROVE  IInv'
<1>1. /\ UNCHANGED <<daemonVars, prefetchVars, pc, memVars, diskVars>>
      /\ UNCHANGED <<disk, files, bp, tx_counts, db, work, reorg_count, best>>
  BY DEF vars, memVars, diskVars, daemonVars
<1>2. ChainInv /\ Shapes /\ DiskInv /\ ReachInv /\ WorkInv
  BY DEF IInv
<1>3. cached_height \in Int /\ cached_height' = cached_height /\ cached_height' >= cached_height
      /\ reorg_count' \in Int
  BY <1>1, <1>2 DEF ChainInv, WorkInv, prefetchVars
<1>4. ChainInv'
  BY <1>1, <1>2, SameChain
<1>5. Shapes' /\ DiskInv'
  BY <1>1, <1>2, SameShapes, SameDisk
<1>6. WorkInv'
  BY ONLY <1>1, <1>2, <1>3, SameWork
<1>7. CASE pc = "down"
  <2>1. Reached' = Reached /\ Reached \in Int
    BY <1>1, <1>2, <1>3, ReachedFacts DEF Reached
  <2>2. Reached' >= Reached
    BY <2>1
  <2>3. ReachInv'
    BY ONLY <1>1, <1>2, <1>4, <2>2, SameReach
  <2> QED
    BY <1>1, <1>4, <1>5, <1>6, <1>7, <2>3 DEF IInv
<1>8. CASE pc # "down"
  <2>1. db'.height = db.height /\ db'.tip = db.tip /\ db'.fs_height = db.fs_height /\ pc' # "down"
    BY <1>1, <1>8
  <2>2. (Ahead /\ pc' # "flush_backup") \/ (Behind /\ pc' \in {"flush_backup", "flush", "failed"})
    BY <1>1, <1>8 DEF IInv, Ahead, Behind
  <2> QED
    BY ONLY IInv, <1>1, <1>3, <1>4, <1>5, <1>6, <1>8, <2>1, <2>2, SameMemory
<1> QED
  BY <1>7, <1>8

LEMMA NextInv ==
    ASSUME IInv, [Next]_vars
    PROVE  IInv'
<1>1. CASE Process
  <2>1. \/ Start \/ FlushNothing \/ FlushFs \/ FlushUtxos \/ Top \/ Reopen \/ TakeBlocks
        \/ AdvanceBlock \/ (\E needed, flush_utxos \in BOOLEAN : MaybeFlush(needed, flush_utxos))
        \/ Notify \/ TakeForcedReorg \/ ForcedRange \/ RealRange \/ Probe
        \/ BackupBlocks \/ FlushBackup \/ Exit \/ RestartFailed
    BY <1>1 DEF Process
  <2>2. CASE Start
    BY <2>2, StartInv
  <2>3. CASE FlushNothing
    BY <2>3, FlushNothingInv
  <2>4. CASE FlushFs
    BY <2>4, FlushFsInv
  <2>5. CASE FlushUtxos
    BY <2>5, FlushUtxosInv
  <2>6. CASE Top
    BY <2>6, TopInv
  <2>7. CASE Reopen
    BY <2>7, ReopenInv
  <2>8. CASE TakeBlocks
    BY <2>8, TakeBlocksInv
  <2>9. CASE AdvanceBlock
    BY <2>9, AdvanceBlockInv
  <2>10. CASE \E needed, flush_utxos \in BOOLEAN : MaybeFlush(needed, flush_utxos)
    BY <2>10, MaybeFlushInv
  <2>11. CASE Notify
    BY <2>11, NotifyInv
  <2>12. CASE TakeForcedReorg
    BY <2>12, TakeForcedReorgInv
  <2>13. CASE ForcedRange
    BY <2>13, ForcedRangeInv
  <2>14. CASE RealRange
    BY <2>14, RealRangeInv
  <2>15. CASE Probe
    BY <2>15, ProbeInv
  <2>16. CASE BackupBlocks
    BY <2>16, BackupBlocksInv
  <2>17. CASE FlushBackup
    BY <2>17, FlushBackupInv
  <2>18. CASE Exit \/ RestartFailed
    BY <2>18, DownInv
  <2> QED
    BY ONLY <2>1, <2>2, <2>3, <2>4, <2>5, <2>6, <2>7, <2>8, <2>9, <2>10, <2>11, <2>12, <2>13,
            <2>14, <2>15, <2>16, <2>17, <2>18
<1>2. CASE Prefetching
  BY <1>2, PrefetchInv
<1>3. CASE NewBest
  BY <1>3, NewBestInv
<1>4. CASE \E count \in 1 .. MaxForced : ForceReorg(count)
  BY <1>4, ForceReorgInv
<1>5. CASE Crash
  BY <1>5, DownInv
<1>6. CASE Shutdown
  BY <1>6, ShutdownInv
<1>7. CASE UNCHANGED vars
  BY <1>7, StutterInv
<1> QED
  BY <1>1, <1>2, <1>3, <1>4, <1>5, <1>6, <1>7 DEF Next

\* What the proofs below take from the specification: every step of the loop, of the
\* prefetcher, of the daemon and of the operator, and every crash and shutdown, keeps the
\* invariant (block_processor.py and db.py as a whole).
THEOREM ProcessorInvariant == Spec => []IInv
<1>1. Init => IInv
  BY InitInv
<1>2. IInv /\ [Next]_vars => IInv'
  BY NextInv
<1> QED
  BY <1>1, <1>2, PTL DEF Spec

LEMMA DiskRight ==
    ASSUME IInv
    PROVE  DiskMatchesTip
<1> DEFINE c == Committed
<1>1. ChainInv /\ DiskInv /\ ReachInv /\ c \in Tips /\ Height(c) \in Int /\ TablesMatchTip
      /\ disk.state.height = Height(c) /\ disk.state.tip = c
  BY KnownFacts DEF IInv, DiskInv, TablesMatchTip, Committed
<1>2. FilesMatchTip
  <2>1. FilesAre(files, c) /\ Path[c] \in Seq(Blocks) /\ ChainTxs[c] \in Seq(TxId)
    BY <1>1, HeightFacts DEF DiskInv, FilesHold
  <2>2. Len(TxCounts[c]) = Len(Path[c])
    BY <1>1, TxCountsFacts, HeightFacts
  <2>3. SubSeq(files.headers, 1, Len(Path[c])) = Path[c]
    BY <2>1, BeginsFacts DEF FilesAre
  <2>4. SubSeq(files.tx_counts, 1, Len(TxCounts[c])) = TxCounts[c]
    BY <2>1, BeginsFacts DEF FilesAre
  <2>5. SubSeq(files.hashes, 1, Len(ChainTxs[c])) = ChainTxs[c]
    BY <2>1, BeginsFacts DEF FilesAre
  <2> QED
    BY <2>2, <2>3, <2>4, <2>5 DEF FilesMatchTip, TxCount, Committed
<1>3. UndoAvailable
  <2> SUFFICES ASSUME pc # "down", NEW h \in 0 .. disk.state.height, h > cached_height - ReorgLimit
               PROVE  h \in DOMAIN disk.undo
                      /\ disk.undo[h] = SpentOutputs[Path[disk.state.tip][h + 1]]
    BY DEF UndoAvailable
  <2>1. h \in 0 .. Height(c) /\ Reached = cached_height
    BY <1>1 DEF Reached
  <2>2. cached_height \in Int /\ ReorgLimit \in Int /\ h \in Int
    BY <1>1, ConstantFacts DEF ChainInv
  <2>3. h + ReorgLimit > Reached
    BY <2>1, <2>2
  <2>4. h \in DOMAIN disk.undo
    BY <1>1, <2>1, <2>3 DEF ReachInv, UndoThere
  <2> QED
    BY <1>1, <2>1, <2>4 DEF DiskInv, UndoRight
<1> QED
  BY <1>1, <1>2, <1>3 DEF DiskMatchesTip

LEMMA CacheRight ==
    ASSUME IInv
    PROVE  CacheMatchesTip
<1> SUFFICES ASSUME pc # "down"
             PROVE  /\ (disk.h \ bp.deletes) \cup { HKey(c) : c \in bp.cache }
                           = { HKey(c) : c \in Unspent[bp.tip] }
                    /\ tx_counts = TxCounts[bp.tip]
  BY DEF CacheMatchesTip
<1> DEFINE U == Unspent[bp.tip]
<1>1. TipInv
  BY DEF IInv
<1>2. bp.cache \subseteq U /\ disk.h \ bp.deletes = { HKey(c) : c \in U \ bp.cache }
  BY <1>1 DEF TipInv, View
<1>3. (disk.h \ bp.deletes) \cup { HKey(c) : c \in bp.cache } = { HKey(c) : c \in U }
  <2> HIDE DEF U
  <2> QED
    BY <1>2
<1> QED
  BY <1>1, <1>3 DEF TipInv

\* Whatever crashes, shutdowns and reorganisations there were, what is committed is the
\* index of one of the daemon's chains: the tables and the histories, the metadata files up
\* to the committed height, and the undo information of every block that may still be
\* replaced (flush_dbs, flush_backup, _open_dbs).
THEOREM CommittedIndexRight == Spec => []DiskMatchesTip
<1>1. IInv => DiskMatchesTip
  BY DiskRight
<1> QED
  BY <1>1, ProcessorInvariant, PTL

\* The tables seen through the cache are the UTXO set of the chain in memory, in the middle
\* of a batch, of a flush and of a reorganisation too (spend_utxo, advance_txs, backup_txs).
THEOREM CachedViewRight == Spec => []CacheMatchesTip
<1>1. IInv => CacheMatchesTip
  BY CacheRight
<1> QED
  BY <1>1, ProcessorInvariant, PTL

-----------------------------------------------------------------------------
(* Confirmed histories, and the addresses that are reported as touched.     *)

\* Where a number is on the chain of b.
HeightsAt(b, n) == { h \in 0 .. Height(b) : n < TxCounts[b][h + 1] /\ (h > 0 => n >= TxCounts[b][h]) }

LEMMA TxHeightIs ==
    ASSUME NEW b, NEW n
    PROVE  TxHeight(b, n) = CHOOSE h : h \in HeightsAt(b, n)
<1>1. \A h : h \in HeightsAt(b, n) <=> h \in 0 .. Height(b) /\ (n < TxCounts[b][h + 1] /\ (h > 0 => n >= TxCounts[b][h]))
  BY DEF HeightsAt
<1> QED
  BY <1>1, Zenon DEF TxHeight

LEMMA TxHeightKept ==
    ASSUME NEW b \in Tips, NEW a \in Tips, Extends(b, a), NEW n \in Nums(a)
    PROVE  TxHeight(b, n) = TxHeight(a, n)
<1>1. /\ Height(a) \in Int /\ Height(b) \in Int /\ Height(a) <= Height(b) /\ Height(a) >= -1
      /\ TxCount(a) \in Nat /\ n \in Nat /\ n < TxCount(a)
  BY HeightFacts DEF Nums, Extends
<1>2. \A i \in 1 .. Height(a) + 1 : TxCounts[b][i] = TxCounts[a][i]
  BY TxCountsFacts
<1>3. ASSUME NEW h \in 0 .. Height(b), h > Height(a), h > 0
      PROVE  TxCounts[b][h] >= TxCount(a)
  <2> DEFINE c == Path[b][h]
  <2>1. h - 1 \in 0 .. Height(b) /\ h \in 1 .. Height(b) + 1 /\ (h - 1) + 1 = h
    BY <1>1, <1>3
  <2>2. c \in Blocks /\ Height(c) = h - 1 /\ Extends(b, c)
    BY <2>1, Ancestors
  <2>3. c \in Tips /\ Height(a) <= Height(c)
    BY <1>1, <1>3, <2>2, TipsFacts
  <2>4. Extends(c, a)
    BY <2>2, <2>3, ExtendsLinear
  <2>5. TxCounts[b][h] = TxCount(c)
    BY <2>1, TxCountsFacts
  <2> QED
    BY <2>4, <2>5 DEF Extends
<1>4. HeightsAt(b, n) = HeightsAt(a, n)
  <2>1. ASSUME NEW h \in HeightsAt(b, n)
        PROVE  h \in HeightsAt(a, n)
    <3>1. h \in 0 .. Height(b) /\ n < TxCounts[b][h + 1] /\ (h > 0 => n >= TxCounts[b][h])
      BY DEF HeightsAt
    <3>2. h <= Height(a)
      <4>1. SUFFICES ASSUME h > Height(a) PROVE FALSE
        BY <1>1, <3>1
      <4>2. CASE h > 0
        <5>1. TxCounts[b][h] >= TxCount(a) /\ n >= TxCounts[b][h]
          BY <1>3, <3>1, <4>1, <4>2
        <5>2. TxCounts[b][h] \in Nat
          <6>1. TxCounts[b] \in Seq(Nat) /\ Len(TxCounts[b]) = Height(b) + 1 /\ h \in 1 .. Height(b) + 1
            BY <1>1, <3>1, <4>2, TxCountsFacts
          <6> QED
            BY <6>1
        <5> QED
          BY <1>1, <5>1, <5>2
      <4>3. CASE h = 0
        <5>1. Height(a) = -1
          BY <1>1, <4>1, <4>3
        <5>2. a = NoBlock
          BY <5>1, TipsFacts, ParentFacts
        <5> QED
          BY <1>1, <5>2, HeightFacts
      <4> QED
        BY <3>1, <4>2, <4>3
    <3>3. h \in 0 .. Height(a) /\ h + 1 \in 1 .. Height(a) + 1 /\ (h > 0 => h \in 1 .. Height(a) + 1)
      BY <1>1, <3>1, <3>2
    <3> QED
      BY <1>2, <3>1, <3>3 DEF HeightsAt
  <2>2. ASSUME NEW h \in HeightsAt(a, n)
        PROVE  h \in HeightsAt(b, n)
    <3>1. h \in 0 .. Height(a) /\ n < TxCounts[a][h + 1] /\ (h > 0 => n >= TxCounts[a][h])
      BY DEF HeightsAt
    <3>2. h \in 0 .. Height(b) /\ h + 1 \in 1 .. Height(a) + 1 /\ (h > 0 => h \in 1 .. Height(a) + 1)
      BY <1>1, <3>1
    <3> QED
      BY <1>2, <3>1, <3>2 DEF HeightsAt
  <2> QED
    BY <2>1, <2>2
<1> QED
  BY <1>4, TxHeightIs

\* The history entry of a touch.
Entry(b, p) == <<p.hashX, ChainTxs[b][p.tx_num + 1], TxHeight(b, p.tx_num)>>

\* The addresses whose history is another one on the chain of b than on that of a are of S.
Covers(S, a, b) ==
    \A e \in (Confirmed[a] \ Confirmed[b]) \cup (Confirmed[b] \ Confirmed[a]) : e[1] \in S

LEMMA CoversFacts ==
    /\ \A S, a : Covers(S, a, a)
    /\ \A S, T, a, b : Covers(S, a, b) /\ S \subseteq T => Covers(T, a, b)
    /\ \A S, a, b : Covers(S, a, b) => Covers(S, b, a)
    /\ \A S, a, b, c : Covers(S, a, b) /\ Covers(S, b, c) => Covers(S, a, c)
<1>1. \A S, a, b, e : Covers(S, a, b) /\ e \in Confirmed[a] /\ e \notin Confirmed[b] => e[1] \in S
  BY DEF Covers
<1>2. \A S, a, b, e : Covers(S, a, b) /\ e \in Confirmed[b] /\ e \notin Confirmed[a] => e[1] \in S
  BY DEF Covers
<1>3. ASSUME NEW S, NEW a, NEW b, NEW c, Covers(S, a, b), Covers(S, b, c),
             NEW e \in (Confirmed[a] \ Confirmed[c]) \cup (Confirmed[c] \ Confirmed[a])
      PROVE  e[1] \in S
  BY <1>1, <1>2, <1>3
<1>4. \A S, a, b, c : Covers(S, a, b) /\ Covers(S, b, c) => Covers(S, a, c)
  BY <1>3 DEF Covers
<1> QED
  BY <1>4 DEF Covers

LEMMA CoversMore ==
    ASSUME NEW b \in Blocks, NEW a \in Tips, Extends(b, a), NEW S, HashXsFrom(b, TxCount(a)) \subseteq S
    PROVE  Covers(S, a, b)
<1>1. b \in Tips /\ TxCount(a) \in Nat
  BY TipsFacts, HeightFacts
<1>2. Touches[a] = { p \in Touches[b] : p.tx_num < TxCount(a) }
  BY CoinsOfAncestor DEF TouchesAt
<1>3. Touches[b] \subseteq Prevouts
  BY <1>1, TouchesTypes
<1>4. ASSUME NEW p \in Touches[a]
      PROVE  Entry(a, p) = Entry(b, p)
  <2>1. p.tx_num \in Nat /\ p.tx_num < TxCount(a) /\ p.tx_num \in Nums(a)
    BY <1>1, <1>2, <1>3 DEF Prevouts, Nums
  <2>2. ChainTxs[b][p.tx_num + 1] = ChainTxs[a][p.tx_num + 1]
    BY <2>1, CoinsOfAncestor
  <2>3. TxHeight(b, p.tx_num) = TxHeight(a, p.tx_num)
    BY <1>1, <2>1, TxHeightKept
  <2> QED
    BY <2>2, <2>3 DEF Entry
<1>5. Confirmed[a] = { Entry(a, p) : p \in Touches[a] } /\ Confirmed[b] = { Entry(b, p) : p \in Touches[b] }
  BY <1>1 DEF Confirmed, Entry
<1>6. Confirmed[a] \subseteq Confirmed[b]
  BY <1>2, <1>4, <1>5
<1>7. ASSUME NEW e \in Confirmed[b], e \notin Confirmed[a]
      PROVE  e[1] \in S
  <2>1. PICK p \in Touches[b] : e = Entry(b, p)
    BY <1>5
  <2>2. p \notin Touches[a]
    BY <1>4, <1>5, <1>7, <2>1
  <2>3. p.tx_num \in Nat /\ p.tx_num >= TxCount(a)
    BY <1>1, <1>2, <1>3, <2>2 DEF Prevouts
  <2>4. p.hashX \in S
    BY <2>3 DEF HashXsFrom
  <2> QED
    BY <2>1, <2>4 DEF Entry
<1> QED
  BY <1>6, <1>7 DEF Covers

\* The invariant: since the last announcement, everything that changed is reported.
TouchInv ==
    /\ pc = "down" => ~caught_up
    /\ told \in Tips
    /\ caught_up => Covers(bp.touched, told, bp.tip)

LEMMA SameTouch ==
    ASSUME TouchInv, UNCHANGED <<bp, told, caught_up>>, pc' # "down"
    PROVE  TouchInv'
  BY DEF TouchInv, Covers

LEMMA AdvanceTouch ==
    ASSUME IInv, TouchInv, AdvanceBlock
    PROVE  TouchInv'
<1> DEFINE b == Head(work.batch)
           tip == bp.tip
           s == Fold(AdvanceTx, Scratch, Txs[b])
<1>1. /\ pc = "advance" /\ work.batch # <<>> /\ UNCHANGED <<told, caught_up>>
      /\ bp'.tip = b /\ bp'.touched = s.touched /\ pc' # "down"
  <2>1. bp' = [bp EXCEPT
                      !.height = bp.height + 1, !.tip = b, !.tx_count = s.tx_count,
                      !.headers = Append(@, b), !.tx_hashes = Append(@, Txs[b]),
                      !.undo_infos = bp'.undo_infos,
                      !.cache = s.cache, !.deletes = s.deletes,
                      !.touched = s.touched, !.history = s.history]
        /\ pc = "advance" /\ work.batch # <<>> /\ UNCHANGED <<told, caught_up>> /\ pc' # "down"
    BY DEF AdvanceBlock, countVars
  <2> QED
    BY <2>1 DEF IInv, Shapes
<1>2. /\ b \in Blocks /\ tip \in Tips /\ Prev[b] = tip /\ Extends(b, tip)
      /\ Advanced(b, s, TxCount(b), tx_counts, SpentOutputs[b], Unspent[b], Touches[b], Touches[tip])
  BY <1>1, AdvancedScratch
<1> HIDE DEF b, s, tip
<1>3. \A p \in Touches[b] : p \in Touches[tip] \/ p.hashX \in s.touched
  BY <1>2 DEF Advanced
<1>4. bp.touched \subseteq s.touched
  BY <1>2 DEF Advanced
<1>5. HashXsFrom(b, TxCount(tip)) \subseteq s.touched
  <2>1. Touches[tip] = { p \in Touches[b] : p.tx_num < TxCount(tip) }
    BY <1>2, CoinsOfAncestor DEF TouchesAt
  <2>2. Touches[b] \subseteq Prevouts /\ TxCount(tip) \in Nat
    BY <1>2, TipsFacts, HeightFacts, TouchesTypes
  <2>3. \A p \in Touches[b] : p.tx_num >= TxCount(tip) => p \notin Touches[tip]
    BY <2>1, <2>2 DEF Prevouts
  <2> QED
    BY <1>3, <2>3 DEF HashXsFrom
<1>6. Covers(s.touched, tip, b)
  BY <1>2, <1>5, CoversMore
<1>7. caught_up => Covers(s.touched, told, b)
  BY <1>4, <1>6, CoversFacts DEF TouchInv, tip
<1> QED
  BY <1>1, <1>7 DEF TouchInv, Covers

LEMMA BackupTouch ==
    ASSUME IInv, TouchInv, BackupBlocks
    PROVE  TouchInv'
<1> DEFINE X == bp.tip
           s == Fold(BackupBlock, BackupScratch, RawBlocks(Chunk))
<1>1. pc = "backup" /\ work.count > 0 /\ UNCHANGED <<told, caught_up>> /\ pc' # "down"
  BY DEF BackupBlocks, countVars
<1>2. CASE ~(AssertFlushed /\ bp.height >= Chunk /\ s.ok)
  <2>1. bp' = bp
    BY <1>2 DEF BackupBlocks
  <2> QED
    BY <1>1, <2>1, SameTouch
<1>3. CASE AssertFlushed /\ bp.height >= Chunk /\ s.ok
  <2>1. bp'.tip = s.tip /\ bp'.touched = s.touched
    <3>1. bp' = [bp EXCEPT !.height = s.height, !.tip = s.tip, !.tx_count = s.tx_count,
                           !.cache = s.cache, !.deletes = s.deletes, !.touched = s.touched]
      BY <1>3 DEF BackupBlocks
    <3> QED
      BY <3>1 DEF IInv, Shapes
  <2>2. X \in Blocks /\ X \in Tips /\ \E t \in Tips : BackedUp(X, s, t)
    BY <1>1, <1>3, BackedUpScratch
  <2>3. PICK t \in Tips : BackedUp(X, s, t)
    BY <2>2
  <2> HIDE DEF s, X
  <2>4. Extends(X, t) /\ s.tip = t /\ HashXsFrom(X, TxCount(t)) \subseteq s.touched /\ bp.touched \subseteq s.touched
    BY <2>3 DEF BackedUp
  <2>5. Covers(s.touched, X, t)
    BY <2>2, <2>4, CoversMore, CoversFacts
  <2>6. caught_up => Covers(s.touched, told, t)
    BY <2>4, <2>5, CoversFacts DEF TouchInv, X
  <2> QED
    BY <1>1, <2>1, <2>4, <2>6 DEF TouchInv, Covers
<1> QED
  BY <1>2, <1>3

LEMMA NextTouch ==
    ASSUME IInv, TouchInv, [Next]_vars
    PROVE  TouchInv'
<1>1. CASE \/ FlushNothing \/ Top \/ TakeBlocks \/ TakeForcedReorg \/ ForcedRange \/ RealRange \/ Probe
           \/ Prefetching \/ NewBest \/ UNCHANGED vars
           \/ (\E needed, flush_utxos \in BOOLEAN : MaybeFlush(needed, flush_utxos))
           \/ (\E count \in 1 .. MaxForced : ForceReorg(count)) \/ Shutdown
  <2>1. UNCHANGED <<bp, told, caught_up>>
    BY <1>1 DEF FlushNothing, Top, TakeBlocks, TakeForcedReorg, ForcedRange, RealRange, Probe, Prefetching,
                Prefetch, NewBest, MaybeFlush, ForceReorg, Shutdown, vars, memVars, countVars
  <2>2. pc' # "down" \/ pc' = pc
    BY <1>1 DEF FlushNothing, Top, TakeBlocks, TakeForcedReorg, ForcedRange, RealRange, Probe, Prefetching,
                Prefetch, NewBest, MaybeFlush, ForceReorg, Shutdown, vars, IInv, WorkInv
  <2> QED
    BY <2>1, <2>2 DEF TouchInv, Covers
<1>2. CASE Start
  <2>1. pc = "down" /\ pc' = "top" /\ UNCHANGED <<told, caught_up>>
    BY <1>2 DEF Start, countVars
  <2> QED
    BY <2>1 DEF TouchInv, Covers
<1>3. CASE Crash \/ Exit \/ RestartFailed
  <2>1. Stop
    BY <1>3 DEF Crash, Exit, RestartFailed
  <2>2. caught_up' = FALSE /\ told' = NoBlock
    BY <2>1 DEF Stop
  <2> QED
    BY <2>2, TipsFacts DEF TouchInv
<1>4. CASE FlushFs \/ FlushUtxos \/ FlushBackup
  <2>1. UNCHANGED <<told, caught_up>> /\ pc' # "down"
    BY <1>4 DEF FlushFs, FlushUtxos, FlushBackup, countVars, IInv, WorkInv
  <2>2. bp'.tip = bp.tip /\ bp'.touched = bp.touched
    BY <1>4 DEF FlushFs, FlushUtxos, FlushBackup, Flushed, IInv, Shapes
  <2> QED
    BY <2>1, <2>2 DEF TouchInv, Covers
<1>5. CASE Reopen
  <2>1. told' = bp.tip /\ bp' = bp /\ pc' = "wait" /\ pc # "down"
    BY <1>5 DEF Reopen
  <2>2. bp.tip \in Tips
    BY <2>1, TipFacts DEF IInv
  <2>3. Covers(bp.touched, bp.tip, bp.tip)
    BY CoversFacts
  <2> QED
    BY <2>1, <2>2, <2>3 DEF TouchInv, Covers
<1>6. CASE Notify
  <2>1. /\ pc = "notify" /\ pc' = "top" /\ caught_up' = caught_up
        /\ told' = IF caught_up THEN bp.tip ELSE told
        /\ bp' = [bp EXCEPT !.touched = {}]
    BY <1>6 DEF Notify
  <2>2. bp'.tip = bp.tip /\ bp'.touched = {}
    BY <2>1 DEF IInv, Shapes
  <2>3. bp.tip \in Tips
    BY <2>1, TipFacts DEF IInv
  <2>4. Covers(bp'.touched, bp.tip, bp.tip)
    BY CoversFacts
  <2> QED
    BY <2>1, <2>2, <2>3, <2>4 DEF TouchInv, Covers
<1>7. CASE AdvanceBlock
  BY <1>7, AdvanceTouch
<1>8. CASE BackupBlocks
  BY <1>8, BackupTouch
<1> QED
  BY <1>1, <1>2, <1>3, <1>4, <1>5, <1>6, <1>7, <1>8 DEF Next, Process

\* Whatever was advanced or undone since the last announcement, the touched set that goes
\* with the next one has every address whose history is not what it was
\* (check_and_advance_blocks, advance_txs, backup_txs).
THEOREM ReportedTouchesRight == Spec => []TouchedCoversChanges
<1>1. Init => TouchInv
  BY TipsFacts DEF Init, TouchInv
<1>2. IInv /\ TouchInv /\ [Next]_vars => TouchInv'
  BY NextTouch
<1>3. TouchInv => TouchedCoversChanges
  BY DEF TouchInv, Covers, TouchedCoversChanges
<1> QED
  BY <1>1, <1>2, <1>3, ProcessorInvariant, PTL DEF Spec

-----------------------------------------------------------------------------
(* No assertion fails.                                                      *)

\* Where nothing fails: nobody forces a reorganisation, nobody stops the server between
\* backup_blocks and flush_backup, and a chain is longer than what is reorganised.
NoFailureCondition ==
    /\ MaxForced = 0 /\ "flush_backup" \notin ShutdownPoints
    /\ \A a \in DaemonTips : Height(a) >= 3 * ReorgLimit

\* A block of this height is not too deep to be replaced.
Replaceable(h) == \A a \in DaemonTips : h + ReorgLimit > Height(a)

FlushFor(after) == pc \in {"flush", "flush_utxos"} /\ work.after = after

Reorganising == pc \in {"reorg", "probe", "backup", "flush_backup"} \/ FlushFor("reorg")

Ending == pc = "exit" \/ FlushFor("exit")

\* What was fetched follows what was processed.
QueueInv ==
    /\ \A i \in 1 .. Len(queue) : Height(queue[i]) = fetched_height - Len(queue) + i
    /\ pc # "down" /\ ~Reorganising /\ ~Ending =>
         fetched_height = bp.height + Len(queue) + (IF pc = "advance" THEN Len(work.batch) ELSE 0)

\* A reorganisation looks for the first block to be undone from above, and stays where blocks
\* can be replaced.
ReorgInv ==
    /\ pc = "reorg" \/ FlushFor("reorg") => Replaceable(bp.height)
    /\ pc = "probe" =>
         /\ work.start > 0 /\ work.count > 0 /\ work.start + work.count <= bp.height
         /\ Replaceable(work.start + work.count)
    /\ pc \in {"backup", "flush_backup"} =>
         work.start > 0 /\ Replaceable(work.start) /\ bp.height = work.start + work.count - 1
    /\ pc \in {"reorg", "probe", "backup"} => bp.height = db.height

UnforcedInv == reorg_count = 0 /\ pc # "forced" /\ ~FlushFor("forced")

\* The numbers that flush_dbs compares, and nothing pending at the committed height.
BooksInv ==
    /\ Len(bp.tx_hashes) = Len(bp.headers) /\ db.tx_count = disk.state.tx_count
    /\ pc # "flush_backup" /\ bp.height = db.height => bp.cache = {} /\ bp.deletes = {}

\* Raw blocks on disk that may still be undone are those of the chain of b.
RawRight(b) == \A h \in DOMAIN raw : h \in 0 .. Height(b) /\ h + ReorgLimit > Reached => raw[h] = Path[b][h + 1]

SafeInv ==
    /\ pc # "failed" /\ QueueInv /\ ReorgInv /\ UnforcedInv /\ RawRight(Committed)
    /\ pc # "down" => BooksInv /\ RawRight(bp.tip) /\ (pc # "flush_backup" => Ahead)


LEMMA AheadAgain ==
    ASSUME IInv', pc' # "down", bp'.height >= db'.height
    PROVE  Ahead'
<1>1. TipInv' /\ (Ahead \/ Behind)' /\ DiskInv'
  BY DEF IInv
<1>2. bp'.height \in Int /\ db'.height \in Int
  BY <1>1, KnownFacts DEF TipInv, DiskInv, TablesMatchTip, Committed
<1>3. ~Behind'
  BY <1>2 DEF Behind
<1> QED
  BY <1>1, <1>3

\* Where the memory is ahead, the heights say how far.
LEMMA AheadHeights ==
    ASSUME IInv, pc # "down", Ahead
    PROVE  /\ bp.tip \in Tips /\ Committed \in Tips /\ Extends(bp.tip, Committed) /\ Known(bp.tip)
           /\ bp.height = Height(bp.tip) /\ bp.height \in Int /\ bp.height >= -1
           /\ db.height = Height(Committed) /\ db.height \in Int /\ db.height >= -1
           /\ db.height <= bp.height /\ (bp.height = db.height => bp.tip = Committed)
           /\ bp.tx_count = TxCount(bp.tip) /\ tx_counts = TxCounts[bp.tip]
           /\ db.tip = Committed /\ disk.state.tx_count = TxCount(Committed)
           /\ cached_height \in Int /\ bp.height <= cached_height /\ cached_height <= Height(best)
           /\ Height(best) \in Int /\ best \in DaemonTips /\ ReorgLimit \in Nat /\ ReorgLimit > 0
<1>1. TipInv /\ DiskInv /\ TablesMatchTip /\ ChainInv
  BY DEF IInv, DiskInv
<1>2. /\ bp.tip \in Tips /\ Committed \in Tips /\ Extends(bp.tip, Committed) /\ Known(bp.tip)
      /\ bp.height = Height(bp.tip) /\ bp.height \in Int /\ bp.height >= -1
      /\ db.height = Height(Committed) /\ db.height \in Int /\ db.height >= -1
      /\ bp.tx_count = TxCount(bp.tip) /\ tx_counts = TxCounts[bp.tip]
      /\ db.tip = Committed /\ disk.state.tx_count = TxCount(Committed)
  BY <1>1, KnownFacts DEF TipInv, DiskInv, TablesMatchTip, Ahead, Committed
<1>3. bp.height = db.height => bp.tip = Committed
  BY <1>2, ExtendsSame
<1>4. cached_height \in Int /\ bp.height <= cached_height /\ cached_height <= Height(best)
      /\ Height(best) \in Int /\ best \in DaemonTips /\ ReorgLimit \in Nat /\ ReorgLimit > 0
  BY <1>1, ConstantFacts DEF TipInv, ChainInv
<1> QED
  BY <1>2, <1>3, <1>4 DEF Extends

\* With nothing pending at the committed height, assert_flushed holds.
LEMMA FlushedAsserts ==
    ASSUME IInv, Ahead, pc # "down", BooksInv, bp.height = db.height
    PROVE  AssertFlushed
<1>1. /\ bp.tip \in Tips /\ Committed \in Tips /\ bp.tip = Committed /\ bp.height = Height(bp.tip)
      /\ bp.height \in Int /\ bp.tx_count = TxCount(bp.tip) /\ db.tip = Committed
      /\ disk.state.tx_count = TxCount(Committed)
  BY AheadHeights
<1>2. Unwritten /\ PendingUndo
  BY DEF Ahead
<1>3. PICK b \in Tips :
        /\ db.fs_height = Height(b) /\ Extends(b, Committed) /\ Extends(bp.tip, b)
        /\ bp.headers \in Seq(Blocks) /\ Path[bp.tip] = Path[b] \o bp.headers
        /\ bp.tx_hashes \in Seq(Seq(TxId))
  BY <1>2 DEF Unwritten
<1>4. Height(b) = Height(bp.tip) /\ b = bp.tip
  <2>1. Height(b) \in Int /\ Height(b) <= Height(bp.tip) /\ Height(Committed) <= Height(b)
        /\ Height(Committed) = Height(bp.tip)
    BY <1>1, <1>3, HeightFacts DEF Extends
  <2>2. Height(b) = Height(bp.tip)
    BY <1>1, <2>1
  <2> QED
    BY <1>1, <1>3, <2>2, ExtendsSame
<1>5. bp.headers = <<>>
  <2>1. Path[b] \in Seq(Blocks) /\ Len(Path[b]) \in Nat
    BY HeightFacts
  <2>2. Len(Path[b] \o bp.headers) = Len(Path[b]) + Len(bp.headers) /\ Len(bp.headers) \in Nat
    BY <1>3, <2>1, ConcatProperties, LenProperties
  <2>3. Len(Path[bp.tip]) = Len(Path[b] \o bp.headers)
    BY <1>3
  <2>4. Len(Path[b]) = Len(Path[b]) + Len(bp.headers)
    BY <1>4, <2>2, <2>3, Zenon
  <2>5. Len(bp.headers) = 0
    <3> DEFINE m == Len(Path[b])
               n == Len(bp.headers)
    <3>1. m \in Nat /\ n \in Nat /\ m = m + n
      BY <2>1, <2>2, <2>4
    <3> HIDE DEF m, n
    <3>2. n = 0
      BY ONLY <3>1
    <3> QED
      BY <3>2 DEF n
  <2> QED
    BY <1>3, <2>5, EmptySeq
<1>6. bp.tx_hashes = <<>>
  <2>1. Len(bp.tx_hashes) = 0
    BY <1>5 DEF BooksInv
  <2> QED
    BY <1>3, <2>1, EmptySeq
<1>7. bp.undo_infos = <<>>
  <2> DEFINE undos == bp.undo_infos
  <2>1. undos \in Seq([height : Nat, info : Seq(Prevouts)]) /\ Len(undos) \in Nat
    BY <1>2, LenProperties DEF PendingUndo
  <2>2. \A i \in 1 .. Len(undos) : undos[i].height \in Height(Committed) + 1 .. Height(bp.tip)
    BY <1>2 DEF PendingUndo
  <2>3. Height(Committed) + 1 .. Height(bp.tip) = {}
    BY <1>1
  <2>4. Len(undos) = 0
    BY SMTT(20), <2>1, <2>2, <2>3
  <2> HIDE DEF undos
  <2> QED
    BY <2>1, <2>4, EmptySeq DEF undos
<1>8. bp.cache = {} /\ bp.deletes = {} /\ db.tx_count = disk.state.tx_count
  BY DEF BooksInv, Ahead
<1> QED
  BY <1>1, <1>3, <1>4, <1>5, <1>6, <1>7, <1>8 DEF AssertFlushed

\* What flush_fs asserts.
LEMMA FileAsserts ==
    ASSUME IInv, Ahead, pc # "down", BooksInv, bp.height # db.height
    PROVE  FlushFsAsserts
<1>1. /\ bp.tip \in Tips /\ Committed \in Tips /\ bp.height = Height(bp.tip)
      /\ bp.height \in Int /\ bp.tx_count = TxCount(bp.tip) /\ tx_counts = TxCounts[bp.tip]
      /\ db.height <= bp.height /\ db.height \in Int /\ db.height >= -1
  BY AheadHeights
<1>2. PICK b \in Tips :
        /\ db.fs_height = Height(b) /\ Extends(bp.tip, b)
        /\ bp.headers \in Seq(Blocks) /\ Path[bp.tip] = Path[b] \o bp.headers
        /\ bp.tx_hashes \in Seq(Seq(TxId)) /\ ChainTxs[bp.tip] = ChainTxs[b] \o FlattenSeq(bp.tx_hashes)
  BY DEF Ahead, Unwritten
<1>3. /\ Path[b] \in Seq(Blocks) /\ Len(Path[b]) = Height(b) + 1 /\ Height(b) \in Int /\ Height(b) >= -1
      /\ Len(Path[bp.tip]) = Height(bp.tip) + 1 /\ ChainTxs[b] \in Seq(TxId)
      /\ (b = NoBlock => TxCount(b) = 0) /\ TxCount(b) \in Nat /\ TxCount(bp.tip) \in Nat
  BY <1>1, HeightFacts
<1>4. bp.height = db.fs_height + Len(bp.headers)
  <2>1. Len(Path[b] \o bp.headers) = Len(Path[b]) + Len(bp.headers) /\ Len(bp.headers) \in Nat
    BY <1>2, <1>3, ConcatProperties, LenProperties
  <2>2. Len(Path[bp.tip]) = Len(Path[b] \o bp.headers)
    BY <1>2
  <2>3. Len(Path[bp.tip]) = Len(Path[b]) + Len(bp.headers)
    BY <2>1, <2>2, Zenon
  <2>4. Height(bp.tip) + 1 = Height(b) + 1 + Len(bp.headers)
    BY <1>3, <2>3, Zenon
  <2>5. Height(bp.tip) = Height(b) + Len(bp.headers)
    BY ONLY <1>1, <1>3, <2>1, <2>4
  <2> QED
    BY <1>1, <1>2, <2>5, Zenon
<1>5. Len(tx_counts) = bp.height + 1 /\ bp.tx_count = Last(tx_counts)
  <2>1. bp.tip # NoBlock
    BY <1>1, HeightFacts
  <2>2. Len(TxCounts[bp.tip]) = Height(bp.tip) + 1
        /\ TxCounts[bp.tip][Height(bp.tip) + 1] = TxCount(bp.tip)
    BY <1>1, <2>1, TxCountsFacts
  <2> QED
    BY <1>1, <2>2 DEF Last
<1>6. Len(FlattenSeq(bp.tx_hashes)) = bp.tx_count - PriorTxCount
  <2> DEFINE f == FlattenSeq(bp.tx_hashes)
  <2>1. f \in Seq(TxId)
    BY <1>2, FlattenFacts
  <2>2. ChainTxs[bp.tip] = ChainTxs[b] \o f
    BY <1>2
  <2> HIDE DEF f
  <2>3. Len(ChainTxs[b] \o f) = Len(ChainTxs[b]) + Len(f) /\ Len(f) \in Nat
    BY <1>3, <2>1, ConcatProperties, LenProperties
  <2>4. TxCount(bp.tip) = TxCount(b) + Len(f)
    BY <2>2, <2>3 DEF TxCount
  <2>5. PriorTxCount = TxCount(b)
    <3>1. CASE Height(b) >= 0
      <4>1. b # NoBlock
        BY <3>1, HeightFacts
      <4>2. Height(b) + 1 \in 1 .. Height(b) + 1
        BY <1>3, <3>1
      <4>3. TxCounts[bp.tip][Height(b) + 1] = TxCounts[b][Height(b) + 1]
            /\ TxCounts[b][Height(b) + 1] = TxCount(b)
        BY <1>1, <1>2, <4>1, <4>2, TxCountsFacts
      <4> QED
        BY <1>1, <1>2, <3>1, <4>3 DEF PriorTxCount
    <3>2. CASE Height(b) = -1
      <4>1. b = NoBlock
        BY <3>2, TipsFacts, ParentFacts
      <4> QED
        BY <1>2, <1>3, <3>2, <4>1 DEF PriorTxCount
    <3> QED
      BY <1>3, <3>1, <3>2
  <2> QED
    BY <1>1, <1>3, <2>3, <2>4, <2>5 DEF f
<1>7. Len(bp.tx_hashes) = Len(bp.headers)
  BY DEF BooksInv
<1> QED
  BY <1>4, <1>5, <1>6, <1>7 DEF FlushFsAsserts

\* Where two chains that the daemon may have differ, blocks can be replaced.
LEMMA NotTooDeep ==
    ASSUME NEW a, NEW b, Known(a), Known(b), NEW h \in Int, 0 <= h, h <= Height(a), h <= Height(b),
           Path[a][h + 1] # Path[b][h + 1]
    PROVE  Replaceable(h)
<1>1. SUFFICES ASSUME NEW t \in DaemonTips, ~(h + ReorgLimit > Height(t))
               PROVE  FALSE
  BY DEF Replaceable
<1>2. ReorgLimit \in Nat /\ ReorgLimit > 0 /\ Height(t) \in Int /\ h \in 0 .. Height(t)
      /\ h <= Height(t) - ReorgLimit
  BY <1>1, ConstantFacts
<1>3. ASSUME NEW c, Known(c), h <= Height(c)
      PROVE  Path[c][h + 1] = Path[t][h + 1]
  <2>1. PICK d \in DaemonTips : Extends(d, c)
    BY <1>3 DEF Known
  <2>2. Height(c) \in Int /\ Height(d) \in Int
    BY <1>3, KnownFacts, ConstantFacts
  <2>3. h <= Height(d) /\ h + 1 \in 1 .. Height(c) + 1
    BY <1>3, <2>1, <2>2 DEF Extends
  <2>4. Path[d][h + 1] = Path[c][h + 1]
    BY <2>1, <2>3 DEF Extends
  <2>5. Path[t][h + 1] = Path[d][h + 1]
    BY <1>2, <2>3, ReorgsShallow
  <2> QED
    BY <2>4, <2>5
<1> QED
  BY <1>3

\* Blocks that are read right, and whose undo information is there, are backed up.
LEMMA BackupBlocksWork ==
    ASSUME NEW X, Env(X), X = Committed, UndoRight, NEW s, s \in Backups(X), BackedUp(X, s, X),
           NEW q, Len(q) \in Nat, Len(q) <= Height(X),
           \A i \in 1 .. Len(q) : /\ q[i] = Path[X][Height(X) - i + 2]
                                  /\ Height(X) - i + 1 \in DOMAIN disk.undo
    PROVE  Fold(BackupBlock, s, q).ok
<1> DEFINE m == Len(q)
           At(r, k) == r \in Backups(X) /\ r.ok
                       /\ \E t \in Tips : Height(t) = Height(X) - k /\ BackedUp(X, r, t)
           G == [k \in 0 .. m |-> { r \in Backups(X) : At(r, k) }]
<1>1. X \in Blocks /\ X \in Tips /\ Height(X) \in Int /\ Height(X) >= 0 /\ m \in Nat /\ m <= Height(X)
  BY TipsFacts, ParentFacts, HeightFacts DEF Env
<1>2. At(s, 0)
  <2>1. Height(X) = Height(X) - 0 /\ s.ok
    BY <1>1 DEF BackedUp
  <2> QED
    BY <1>1, <2>1
<1>3. ASSUME NEW i \in 1 .. m, NEW r, At(r, i - 1)
      PROVE  At(BackupBlock(r, q[i]), i)
  <2> DEFINE w == BackupBlock(r, q[i])
  <2>1. r \in Backups(X) /\ r.ok /\ i \in Int /\ i <= Height(X)
    BY <1>1, <1>3
  <2>2. PICK t \in Tips : Height(t) = Height(X) - (i - 1) /\ BackedUp(X, r, t)
    BY <1>3
  <2>3. Height(t) \in Int /\ Height(t) >= 0 /\ Height(t) = Height(X) - i + 1
    BY <1>1, <2>1, <2>2
  <2>4. t \in Blocks
    BY <2>2, <2>3, TipsFacts, HeightFacts
  <2>5. q[i] = t
    <3>1. Extends(X, t)
      BY <2>2 DEF BackedUp
    <3>2. Height(t) + 1 \in 1 .. Height(t) + 1 /\ Height(t) + 1 = Height(X) - i + 2
      BY <1>1, <2>1, <2>3
    <3>3. Path[X][Height(t) + 1] = Path[t][Height(t) + 1]
      BY <3>1, <3>2 DEF Extends
    <3>4. Path[t][Height(t) + 1] = t
      BY <2>4, ParentFacts
    <3> QED
      BY <3>2, <3>3, <3>4
  <2>6. Height(t) \in DOMAIN disk.undo
    BY <2>3
  <2>7. w \in Backups(X) /\ w.ok /\ BackedUp(X, w, Prev[t])
    BY <2>1, <2>2, <2>4, <2>5, <2>6, BackupBlockFacts
  <2>8. Prev[t] \in Tips /\ Height(Prev[t]) = Height(X) - i
    <3>1. Prev[t] \in Tips /\ Height(t) = Height(Prev[t]) + 1 /\ Height(Prev[t]) \in Int
      BY <2>4, ParentFacts, HeightFacts
    <3> QED
      BY <1>1, <2>1, <2>2, <3>1
  <2> HIDE DEF w
  <2> QED
    BY <2>7, <2>8 DEF w
<1>4. \A k \in 0 .. m : \A r : At(r, k) => r \in G[k]
  OBVIOUS
<1>5. \A k \in 0 .. m : \A r \in G[k] : At(r, k)
  OBVIOUS
<1> HIDE DEF At, G
<1>6. Runs("backup_block", 0, s, q, G)
  <2>1. s \in G[0]
    BY <1>1, <1>2, <1>4
  <2>2. ASSUME NEW i \in 1 .. m, NEW r \in G[i - 1]
        PROVE  Op("backup_block", 0, r, q[i]) \in G[i]
    <3>1. i - 1 \in 0 .. m /\ i \in 0 .. m
      BY <1>1
    <3>2. At(BackupBlock(r, q[i]), i)
      BY <1>3, <1>5, <3>1
    <3>3. Op("backup_block", 0, r, q[i]) = BackupBlock(r, q[i])
      BY DEF Op
    <3> QED
      BY <1>4, <3>1, <3>2, <3>3
  <2> QED
    BY <1>1, <2>1, <2>2 DEF Runs
<1>7. At(Folded("backup_block", 0, s, q), m)
  <2>1. m \in 0 .. m
    BY <1>1
  <2> QED
    BY <1>5, <1>6, <2>1, FoldFacts
<1>8. At(Fold(BackupBlock, s, q), m)
  BY <1>7, BlockFolds
<1> QED
  BY <1>8 DEF At

\* A chunk of a reorganisation is read right, from the files or from the daemon.
LEMMA RawBlocksRight ==
    ASSUME IInv, SafeInv, pc = "backup", work.count > 0
    PROVE  /\ Chunk \in Nat /\ Chunk > 0 /\ bp.height >= Chunk
           /\ \A i \in 1 .. Chunk : /\ RawBlocks(Chunk)[i] = Path[bp.tip][bp.height - i + 2]
                                    /\ bp.height - i + 1 \in DOMAIN disk.undo
<1> DEFINE n == Chunk
           heights == [i \in 1 .. n |-> bp.height - i + 1]
<1>1. Ahead /\ pc # "down" /\ RawRight(bp.tip) /\ bp.height = db.height
      /\ work.start > 0 /\ Replaceable(work.start) /\ bp.height = work.start + work.count - 1
  BY DEF SafeInv, ReorgInv
<1>2. /\ bp.tip \in Tips /\ bp.tip = Committed /\ bp.height = Height(bp.tip) /\ bp.height \in Int
      /\ cached_height \in Int /\ cached_height <= Height(best)
      /\ Height(best) \in Int /\ best \in DaemonTips /\ ReorgLimit \in Nat
  BY <1>1, AheadHeights
<1>3. work.start \in Int /\ work.count \in Int
  BY DEF IInv, WorkInv
<1>4. n \in Nat /\ n > 0 /\ n <= work.count
  BY <1>3, ConstantFacts DEF Chunk
<1> HIDE DEF n
<1>5. ASSUME NEW i \in 1 .. n
      PROVE  LET h == bp.height - i + 1 IN
             /\ h \in 0 .. Height(bp.tip) /\ h + ReorgLimit > Reached /\ heights[i] = h
             /\ h + 1 \in 1 .. Height(bp.tip) + 1 /\ h + 1 = bp.height - i + 2
  <2>1. bp.height - i + 1 >= work.start /\ bp.height - i + 1 <= bp.height
    BY <1>1, <1>2, <1>3, <1>4
  <2>2. work.start + ReorgLimit > Height(best)
    BY <1>1, <1>2 DEF Replaceable
  <2>3. Reached = cached_height
    BY <1>1 DEF Reached
  <2> QED
    BY <1>1, <1>2, <1>3, <1>4, <2>1, <2>2, <2>3
<1>6. ASSUME NEW i \in 1 .. n
      PROVE  bp.height - i + 1 \in DOMAIN disk.undo
  BY <1>2, <1>5 DEF IInv, ReachInv, UndoThere
<1>7. ASSUME NEW i \in 1 .. n
      PROVE  RawBlocks(n)[i] = Path[bp.tip][bp.height - i + 2]
  <2> DEFINE h == bp.height - i + 1
  <2>0. h \in 0 .. Height(bp.tip) /\ h + ReorgLimit > Reached /\ heights[i] = h
        /\ h + 1 \in 1 .. Height(bp.tip) + 1 /\ h + 1 = bp.height - i + 2
    BY <1>5
  <2>1. CASE Range(heights) \subseteq DOMAIN raw
    <3>1. RawBlocks(n)[i] = raw[heights[i]]
      BY <2>1 DEF RawBlocks
    <3>2. heights[i] \in Range(heights)
      BY DEF Range
    <3>3. h \in DOMAIN raw
      BY <2>0, <2>1, <3>2
    <3>4. raw[h] = Path[bp.tip][h + 1]
      BY <1>1, <2>0, <3>3 DEF RawRight
    <3> QED
      BY <2>0, <3>1, <3>4
  <2>2. CASE ~(Range(heights) \subseteq DOMAIN raw)
    <3>1. RawBlocks(n)[i] = files.headers[heights[i] + 1]
      BY <2>2 DEF RawBlocks
    <3>2. Begins(Blocks, files.headers, Path[bp.tip]) /\ Len(Path[bp.tip]) = Height(bp.tip) + 1
      BY <1>2, HeightFacts DEF IInv, DiskInv, FilesHold, FilesAre
    <3>3. files.headers[h + 1] = Path[bp.tip][h + 1]
      BY <2>0, <3>2 DEF Begins
    <3> QED
      BY <2>0, <3>1, <3>3
  <2> QED
    BY <2>1, <2>2
<1> QED
  BY <1>1, <1>2, <1>3, <1>4, <1>6, <1>7 DEF n

LEMMA BackupSucceeds ==
    ASSUME IInv, SafeInv, pc = "backup", work.count > 0
    PROVE  /\ AssertFlushed /\ bp.height >= Chunk
           /\ Fold(BackupBlock, BackupScratch, RawBlocks(Chunk)).ok
<1> DEFINE n == Chunk
           raws == RawBlocks(n)
           X == bp.tip
<1>1. Ahead /\ pc # "down" /\ BooksInv /\ bp.height = db.height
  BY DEF SafeInv, ReorgInv
<1>2. AssertFlushed
  BY <1>1, FlushedAsserts
<1>3. /\ n \in Nat /\ n > 0 /\ bp.height >= n
      /\ \A i \in 1 .. n : raws[i] = Path[X][bp.height - i + 2] /\ bp.height - i + 1 \in DOMAIN disk.undo
  BY RawBlocksRight
<1>4. X = Committed /\ bp.height = Height(X) /\ UndoRight /\ X \in Blocks /\ Env(X)
      /\ BackedUp(X, BackupScratch, X) /\ Len(raws) = n
  BY <1>2, <1>3, BackedUpScratch
<1>5. BackupScratch \in Backups(X)
  BY <1>4 DEF BackedUp
<1> HIDE DEF n, raws, X
<1>6. Fold(BackupBlock, BackupScratch, raws).ok
  BY <1>3, <1>4, <1>5, BackupBlocksWork
<1> QED
  BY <1>2, <1>3, <1>6 DEF n, raws


-----------------------------------------------------------------------------
(* Every step keeps it.                                                     *)

LEMMA SameRaw ==
    ASSUME ChainInv, ChainInv', \A h \in DOMAIN raw' : h \in DOMAIN raw /\ raw'[h] = raw[h],
           Reached' >= Reached, SafeInv
    PROVE  /\ Committed' = Committed => RawRight(Committed)'
           /\ pc # "down" /\ bp'.tip = bp.tip => RawRight(bp.tip)'
           /\ pc = "down" /\ bp'.tip = Committed => RawRight(bp.tip)'
<1>1. Reached \in Int /\ Reached' \in Int /\ ReorgLimit \in Nat
  <2>1. Reached \in Int
    BY ReachedFacts
  <2>2. Reached' \in Int
    BY ConstantFacts DEF ChainInv, Reached
  <2> QED
    BY <2>1, <2>2, ConstantFacts
<1>2. \A h \in Int : h + ReorgLimit > Reached' => h + ReorgLimit > Reached
  BY <1>1
<1>3. \A b : \A h \in 0 .. Height(b) : h \in Int
  OBVIOUS
<1>4. Committed' = Committed => RawRight(Committed)'
  BY <1>2, <1>3 DEF SafeInv, RawRight
<1>5. pc # "down" /\ bp'.tip = bp.tip => RawRight(bp.tip)'
  BY <1>2, <1>3 DEF SafeInv, RawRight
<1>6. pc = "down" /\ bp'.tip = Committed => RawRight(bp.tip)'
  BY <1>2, <1>3 DEF SafeInv, RawRight
<1> QED
  BY <1>4, <1>5, <1>6

Quiet ==
    /\ UNCHANGED <<disk, raw>>
    /\ bp'.height = bp.height /\ bp'.tip = bp.tip /\ bp'.headers = bp.headers
    /\ bp'.tx_hashes = bp.tx_hashes /\ bp'.cache = bp.cache /\ bp'.deletes = bp.deletes
    /\ db'.height = db.height /\ db'.tx_count = db.tx_count
    /\ cached_height' >= cached_height

Going == QueueInv /\ ReorgInv /\ UnforcedInv /\ pc \notin {"down", "failed", "flush_backup"}

\* Steps that move no blocks.
LEMMA QuietSafe ==
    ASSUME IInv, IInv', SafeInv, Quiet, Going', pc \notin {"down", "flush_backup"}
    PROVE  SafeInv'
<1>1. Ahead /\ BooksInv
  BY DEF SafeInv
<1>2. bp.height >= db.height /\ bp.height \in Int /\ db.height \in Int
  BY <1>1, AheadHeights
<1>3. bp'.height >= db'.height
  BY <1>2 DEF Quiet
<1>4. Ahead'
  BY ONLY IInv', Going', <1>3, AheadAgain DEF Going
<1>5. RawRight(Committed)' /\ RawRight(bp.tip)'
  <2>1. ChainInv /\ ChainInv' /\ Committed' = Committed /\ bp'.tip = bp.tip
    BY DEF IInv, Quiet, Committed
  <2>2. Reached' >= Reached
    BY DEF Reached, Going, Quiet
  <2>3. \A h \in DOMAIN raw' : h \in DOMAIN raw /\ raw'[h] = raw[h]
    BY DEF Quiet
  <2> QED
    BY <2>1, <2>2, <2>3, SameRaw
<1>6. BooksInv'
  BY <1>1 DEF BooksInv, Quiet
<1> QED
  BY <1>4, <1>5, <1>6 DEF SafeInv, Going

\* A flush is over.
LEMMA FlushReturns ==
    ASSUME SafeInv, WorkInv, pc \in {"flush", "flush_utxos"}, pc' = work.after,
           UNCHANGED <<queue, fetched_height, work, reorg_count>>, bp'.height = bp.height,
           work.after = "reorg" => bp'.height = db'.height
    PROVE  Going'
<1>1. work.after \in {"top", "reopen", "reorg", "notify", "forced", "exit"}
  BY DEF WorkInv
<1>2. QueueInv /\ ReorgInv /\ UnforcedInv
  BY DEF SafeInv
<1>3. work.after # "forced"
  BY <1>2 DEF UnforcedInv, FlushFor
<1>4. QueueInv'
  BY <1>1, <1>2 DEF QueueInv, Reorganising, Ending, FlushFor
<1>5. ReorgInv'
  BY <1>1, <1>2 DEF ReorgInv, Replaceable, FlushFor
<1>6. UnforcedInv'
  BY <1>1, <1>2, <1>3 DEF UnforcedInv, FlushFor
<1> QED
  BY <1>1, <1>4, <1>5, <1>6 DEF Going

LEMMA FlushNothingSafe ==
    ASSUME IInv, IInv', SafeInv, FlushNothing
    PROVE  SafeInv'
<1>1. Ahead /\ BooksInv /\ pc # "down"
  BY DEF SafeInv, FlushNothing
<1>2. /\ pc = "flush" /\ bp.height = db.height /\ pc' = work.after
      /\ UNCHANGED <<prefetchVars, bp, db, work, reorg_count, diskVars>>
  <2>1. bp.height = db.height
    BY DEF FlushNothing
  <2>2. AssertFlushed
    BY <1>1, <2>1, FlushedAsserts
  <2> QED
    BY <2>2 DEF FlushNothing, memVars
<1>3. Going'
  <2>1. UNCHANGED <<queue, fetched_height, work, reorg_count>> /\ bp'.height = bp.height
        /\ bp'.height = db'.height
    BY <1>2 DEF prefetchVars
  <2>2. WorkInv
    BY DEF IInv
  <2> QED
    BY ONLY SafeInv, <1>2, <2>1, <2>2, FlushReturns
<1>4. Quiet
  BY <1>2 DEF Quiet, prefetchVars, diskVars, IInv, ChainInv
<1> QED
  BY <1>2, <1>3, <1>4, QuietSafe

\* Steps that leave the queue alone, and are not part of a reorganisation.
LEMMA PlainSafe ==
    ASSUME IInv, IInv', SafeInv, Quiet, UNCHANGED <<queue, fetched_height>>, reorg_count' = 0,
           pc \notin {"down", "flush_backup", "advance"}, ~Reorganising, ~Ending,
           pc' \in {"flush", "wait", "notify", "top"}, pc' = "flush" => work'.after \in {"reopen", "notify", "exit"}
    PROVE  SafeInv'
<1>1. QueueInv /\ ReorgInv /\ UnforcedInv
  BY DEF SafeInv
<1>2. QueueInv'
  BY <1>1 DEF QueueInv, Reorganising, Ending, FlushFor, Quiet
<1>3. ReorgInv'
  BY DEF ReorgInv, FlushFor
<1>4. UnforcedInv'
  BY DEF UnforcedInv, FlushFor
<1>5. Going'
  BY <1>2, <1>3, <1>4 DEF Going
<1> QED
  BY <1>5, QuietSafe

LEMMA TopSafe ==
    ASSUME IInv, IInv', SafeInv, Top
    PROVE  SafeInv'
<1>1. /\ pc = "top" /\ pc' \in {"flush", "wait"} /\ (pc' = "flush" => work' = [NoWork EXCEPT !.after = "reopen"])
      /\ UNCHANGED <<prefetchVars, bp, reorg_count, diskVars>>
      /\ db' = db \/ db' = [db EXCEPT !.first_sync = FALSE]
  BY DEF Top
<1>2. db'.height = db.height /\ db'.tx_count = db.tx_count
  BY <1>1 DEF IInv, Shapes
<1>3. pc' = "flush" => work'.after = "reopen"
  BY <1>1, NoWorkFacts
<1>4. Quiet
  BY <1>1, <1>2 DEF Quiet, prefetchVars, diskVars, IInv, ChainInv
<1>5. reorg_count' = 0 /\ UNCHANGED <<queue, fetched_height>> /\ ~Reorganising /\ ~Ending
  BY <1>1 DEF SafeInv, UnforcedInv, Reorganising, Ending, FlushFor, prefetchVars
<1> QED
  BY <1>1, <1>3, <1>4, <1>5, PlainSafe

LEMMA MaybeFlushSafe ==
    ASSUME IInv, IInv', SafeInv, \E needed, flush_utxos \in BOOLEAN : MaybeFlush(needed, flush_utxos)
    PROVE  SafeInv'
<1>1. PICK flush_utxos \in BOOLEAN :
        /\ pc = "advanced" /\ pc' \in {"flush", "notify"}
        /\ work' = [NoWork EXCEPT !.after = "notify", !.flush_utxos = flush_utxos]
        /\ UNCHANGED <<prefetchVars, bp, reorg_count, db, diskVars>>
  BY DEF MaybeFlush
<1>2. work'.after = "notify"
  BY <1>1 DEF NoWork
<1>3. Quiet
  BY <1>1 DEF Quiet, prefetchVars, diskVars, IInv, ChainInv
<1>4. reorg_count' = 0 /\ UNCHANGED <<queue, fetched_height>> /\ ~Reorganising /\ ~Ending
  BY <1>1 DEF SafeInv, UnforcedInv, Reorganising, Ending, FlushFor, prefetchVars
<1> QED
  BY <1>1, <1>2, <1>3, <1>4, PlainSafe

LEMMA NotifySafe ==
    ASSUME IInv, IInv', SafeInv, Notify
    PROVE  SafeInv'
<1>1. /\ pc = "notify" /\ pc' = "top" /\ bp' = [bp EXCEPT !.touched = {}]
      /\ UNCHANGED <<prefetchVars, reorg_count, db, diskVars>>
  BY DEF Notify
<1>2. Quiet
  BY <1>1 DEF Quiet, prefetchVars, diskVars, IInv, ChainInv, Shapes
<1>3. reorg_count' = 0 /\ UNCHANGED <<queue, fetched_height>> /\ ~Reorganising /\ ~Ending
  BY <1>1 DEF SafeInv, UnforcedInv, Reorganising, Ending, FlushFor, prefetchVars
<1> QED
  BY <1>1, <1>2, <1>3, PlainSafe


LEMMA ShutdownSafe ==
    ASSUME IInv, IInv', SafeInv, Shutdown, "flush_backup" \notin ShutdownPoints
    PROVE  SafeInv'
<1>1. /\ pc \notin {"down", "flush_backup"} /\ pc' = "flush" /\ work' = [NoWork EXCEPT !.after = "exit"]
      /\ UNCHANGED <<prefetchVars, bp, reorg_count, db, diskVars>>
  BY ConstantFacts DEF Shutdown
<1>2. work'.after = "exit"
  BY <1>1 DEF NoWork
<1>3. Quiet
  BY <1>1 DEF Quiet, prefetchVars, diskVars, IInv, ChainInv
<1>4. QueueInv'
  BY <1>1, <1>2 DEF SafeInv, QueueInv, Ending, FlushFor, prefetchVars
<1>5. ReorgInv' /\ UnforcedInv'
  BY <1>1, <1>2 DEF SafeInv, UnforcedInv, ReorgInv, FlushFor
<1>6. Going'
  BY <1>1, <1>4, <1>5 DEF Going
<1> QED
  BY <1>1, <1>3, <1>6, QuietSafe

LEMMA TakeBlocksSafe ==
    ASSUME IInv, IInv', SafeInv, TakeBlocks
    PROVE  SafeInv'
<1>1. /\ pc = "wait" /\ queue # <<>> /\ UNCHANGED <<daemonVars, bp, reorg_count, db, diskVars>>
      /\ \/ /\ pc' = "advance" /\ work' = [NoWork EXCEPT !.batch = queue]
            /\ queue' = <<>> /\ UNCHANGED <<fetched_height, cached_height>>
         \/ /\ ~Linked[1] /\ pc' = "flush" /\ work' = [NoWork EXCEPT !.after = "reorg"]
            /\ queue' = <<>> /\ UNCHANGED <<fetched_height, cached_height>>
         \/ ResetHeight(bp.height) /\ pc' = "top" /\ work' = work
  BY DEF TakeBlocks
<1>2. ChainInv /\ Ahead /\ pc # "down" /\ QueueInv /\ UnforcedInv
  BY <1>1 DEF SafeInv, IInv
<1>3. /\ bp.tip \in Tips /\ Known(bp.tip) /\ bp.height = Height(bp.tip) /\ bp.height \in Int
      /\ bp.height >= -1 /\ cached_height \in Int
  BY <1>2, AheadHeights
<1>4. /\ queue \in Seq(Blocks) /\ Len(queue) \in Nat /\ Len(queue) > 0 /\ 1 \in 1 .. Len(queue)
      /\ DOMAIN queue = 1 .. Len(queue) /\ fetched_height = bp.height + Len(queue)
  <2>1. queue \in Seq(Blocks) /\ Len(queue) \in Nat /\ DOMAIN queue = 1 .. Len(queue)
    BY <1>2, LenProperties DEF ChainInv
  <2>2. Len(queue) # 0
    BY <1>1, <2>1, EmptySeq
  <2>3. ~Reorganising /\ ~Ending
    BY <1>1 DEF Reorganising, Ending, FlushFor
  <2>4. fetched_height = bp.height + Len(queue) + 0
    BY <1>1, <1>2, <2>3 DEF QueueInv
  <2> QED
    BY <1>3, <2>1, <2>2, <2>4
<1>5. CASE pc' = "advance" /\ work' = [NoWork EXCEPT !.batch = queue]
           /\ queue' = <<>> /\ UNCHANGED <<fetched_height, cached_height>>
  <2>1. work'.batch = queue
    BY <1>5 DEF NoWork
  <2>2. Quiet
    BY <1>1, <1>3, <1>5 DEF Quiet, diskVars
  <2>3. QueueInv'
    <3>1. fetched_height' = bp'.height + Len(queue') + Len(work'.batch)
      BY <1>1, <1>3, <1>4, <1>5, <2>1
    <3>2. 1 .. Len(queue') = {}
      BY <1>5
    <3> QED
      BY <1>5, <3>1, <3>2 DEF QueueInv
  <2>4. ReorgInv' /\ UnforcedInv'
    BY <1>1, <1>2, <1>5 DEF UnforcedInv, ReorgInv, FlushFor
  <2>5. Going'
    BY <1>5, <2>3, <2>4 DEF Going
  <2> QED
    BY <1>1, <2>2, <2>5, QuietSafe
<1>6. CASE ~Linked[1] /\ pc' = "flush" /\ work' = [NoWork EXCEPT !.after = "reorg"]
           /\ queue' = <<>> /\ UNCHANGED <<fetched_height, cached_height>>
  <2> DEFINE b == queue[1]
             c == Prev[b]
  <2>1. b \in Blocks /\ Known(b) /\ Height(b) = bp.height + 1
    <3>1. Fetched(b) /\ Height(b) = fetched_height - Len(queue) + 1
      BY <1>2, <1>4 DEF ChainInv, QueueInv
    <3> QED
      BY <1>3, <1>4, <3>1 DEF Fetched
  <2>2. c # bp.tip
    BY <1>4, <1>6 DEF Linked
  <2> HIDE DEF b
  <2>3. c \in Tips /\ Known(c) /\ Height(c) = bp.height
    <3>1. c \in Tips /\ Known(c) /\ Height(b) = Height(c) + 1 /\ Height(c) \in Int
      BY <2>1, KnownFacts, ParentFacts, HeightFacts
    <3> QED
      BY <1>3, <2>1, <3>1
  <2> HIDE DEF c
  <2>4. Replaceable(bp.height)
    <3>1. c # NoBlock /\ bp.tip # NoBlock
      <4>1. \A a \in Tips : Height(a) = -1 => a = NoBlock
        BY TipsFacts, ParentFacts
      <4>2. Height(NoBlock) = -1
        BY TipsFacts, HeightFacts
      <4> QED
        BY <1>3, <2>2, <2>3, <4>1, <4>2
    <3>2. c \in Blocks /\ bp.tip \in Blocks
      BY <1>3, <2>3, <3>1, TipsFacts
    <3>3. Path[c][bp.height + 1] = c /\ Path[bp.tip][bp.height + 1] = bp.tip /\ bp.height >= 0
      BY <1>3, <2>3, <3>2, ParentFacts
    <3>4. bp.height <= Height(c) /\ bp.height <= Height(bp.tip)
      BY <1>3, <2>3
    <3> QED
      BY <1>3, <2>2, <2>3, <3>3, <3>4, NotTooDeep
  <2>5. work'.after = "reorg"
    BY <1>6 DEF NoWork
  <2>6. Quiet
    BY <1>1, <1>3, <1>6 DEF Quiet, diskVars
  <2>7. QueueInv'
    <3>1. 1 .. Len(queue') = {}
      BY <1>6
    <3> QED
      BY <1>6, <2>5, <3>1 DEF QueueInv, Reorganising, FlushFor
  <2>8. ReorgInv' /\ UnforcedInv'
    BY <1>1, <1>2, <1>6, <2>4, <2>5 DEF UnforcedInv, ReorgInv, FlushFor, Replaceable
  <2>9. Going'
    BY <1>6, <2>7, <2>8 DEF Going
  <2> QED
    BY <1>1, <2>6, <2>9, QuietSafe
<1>7. CASE ResetHeight(bp.height) /\ pc' = "top" /\ work' = work
  <2>1. queue' = <<>> /\ fetched_height' = bp.height /\ cached_height' >= cached_height
    BY <1>1, <1>2, <1>3, <1>7, ResetChain DEF ResetHeight
  <2>2. Quiet
    BY <1>1, <2>1 DEF Quiet, diskVars
  <2>3. QueueInv'
    <3>1. Len(queue') = 0 /\ fetched_height' = bp'.height + Len(queue') + 0
      BY <1>1, <1>3, <2>1
    <3>2. 1 .. Len(queue') = {}
      BY <3>1
    <3> QED
      BY <1>7, <3>1, <3>2 DEF QueueInv
  <2>4. ReorgInv' /\ UnforcedInv'
    BY <1>1, <1>2, <1>7 DEF UnforcedInv, ReorgInv, FlushFor
  <2>5. Going'
    BY <1>7, <2>3, <2>4 DEF Going
  <2> QED
    BY <1>1, <2>2, <2>5, QuietSafe
<1> QED
  BY <1>1, <1>5, <1>6, <1>7

LEMMA RealRangeSafe ==
    ASSUME IInv, IInv', SafeInv, RealRange, NoFailureCondition
    PROVE  SafeInv'
<1>1. /\ pc = "reorg" /\ pc' = "probe" /\ work' = [work EXCEPT !.start = bp.height - 1, !.count = 1]
      /\ UNCHANGED <<daemonVars, prefetchVars, bp, reorg_count, db, diskVars>>
  BY DEF RealRange
<1>2. work'.start = bp.height - 1 /\ work'.count = 1
  BY <1>1 DEF IInv, Shapes
<1>3. /\ bp.height \in Int /\ Height(best) \in Int /\ best \in DaemonTips /\ ReorgLimit \in Nat
      /\ ReorgLimit > 0
  BY <1>1, AheadHeights DEF SafeInv
<1>4. Replaceable(bp.height) /\ bp.height = db.height
  BY <1>1 DEF SafeInv, ReorgInv
<1>5. bp.height > 1
  <2>1. bp.height + ReorgLimit > Height(best) /\ Height(best) >= 3 * ReorgLimit
    BY <1>3, <1>4 DEF Replaceable, NoFailureCondition
  <2> QED
    BY <1>3, <2>1
<1>6. ReorgInv'
  <2>1. work'.start > 0 /\ work'.count > 0 /\ work'.start + work'.count = bp.height
    BY <1>2, <1>3, <1>5
  <2>2. bp' = bp /\ db' = db
    BY <1>1
  <2> QED
    BY <1>1, <1>3, <1>4, <2>1, <2>2 DEF ReorgInv, Replaceable, FlushFor
<1>7. QueueInv' /\ UnforcedInv'
  BY <1>1 DEF SafeInv, QueueInv, UnforcedInv, FlushFor, Reorganising, prefetchVars
<1>8. Quiet
  BY <1>1 DEF Quiet, prefetchVars, diskVars, IInv, ChainInv
<1>9. Going'
  BY <1>1, <1>6, <1>7 DEF Going
<1> QED
  BY <1>1, <1>8, <1>9, QuietSafe


LEMMA ProbeSafe ==
    ASSUME IInv, IInv', SafeInv, Probe, NoFailureCondition
    PROVE  SafeInv'
<1> DEFINE n == Common(work.start, work.count)
           count == IF work.count * 2 < work.start THEN work.count * 2 ELSE work.start
           s == work.start
           k == work.count
<1>1. pc = "probe" /\ UNCHANGED <<daemonVars, prefetchVars, bp, reorg_count, db, diskVars>>
  BY DEF Probe
<1>2. /\ s \in Int /\ k \in Nat /\ s > 0 /\ k > 0 /\ s + k <= bp.height /\ Replaceable(s + k)
      /\ bp.height = db.height
  BY <1>1 DEF IInv, WorkInv, SafeInv, ReorgInv
<1>3. /\ \/ n > 0 /\ pc' = "backup"
            /\ work' = [work EXCEPT !.start = s + n, !.count = bp.height - (s + n) + 1]
         \/ ~(n > 0) /\ pc' = "probe" /\ work' = [work EXCEPT !.start = s - count, !.count = count]
  <2> HIDE DEF n, count
  <2> QED
    BY <1>2 DEF Probe, n, count
<1>4. n \in 0 .. k /\ (n < k => files.headers[s + (n + 1)] # Path[best][s + (n + 1)])
  BY <1>2, CommonFacts
<1> HIDE DEF n, s, k, count
<1>5. /\ bp.tip \in Tips /\ Known(bp.tip) /\ bp.tip = Committed /\ bp.height = Height(bp.tip)
      /\ bp.height \in Int /\ bp.height <= Height(best)
      /\ Height(best) \in Int /\ best \in DaemonTips /\ Known(best) /\ ReorgLimit \in Nat /\ ReorgLimit > 0
  <2>1. Ahead /\ pc # "down"
    BY <1>1 DEF SafeInv
  <2> QED
    BY <1>2, <2>1, AheadHeights, ConstantFacts
<1>6. n < k => Replaceable(s + n)
  <2>1. SUFFICES ASSUME n < k PROVE Replaceable(s + n)
    OBVIOUS
  <2>2. /\ s + n \in Int /\ 0 <= s + n /\ s + n <= Height(bp.tip) /\ s + n <= Height(best)
        /\ (s + n) + 1 = s + (n + 1) /\ s + (n + 1) \in 1 .. Height(bp.tip) + 1
    BY <1>2, <1>4, <1>5, <2>1
  <2>3. Begins(Blocks, files.headers, Path[bp.tip]) /\ Len(Path[bp.tip]) = Height(bp.tip) + 1
    BY <1>5, HeightFacts DEF IInv, DiskInv, FilesHold, FilesAre
  <2>4. Path[bp.tip][s + (n + 1)] # Path[best][s + (n + 1)]
    BY <1>4, <2>1, <2>2, <2>3 DEF Begins
  <2> QED
    BY <1>5, <2>2, <2>4, NotTooDeep
<1>7. Replaceable(s + n)
  <2>1. n = k \/ n < k
    BY <1>2, <1>4
  <2> QED
    BY <1>2, <1>6, <2>1
<1>8. Quiet
  BY <1>1 DEF Quiet, prefetchVars, diskVars, IInv, ChainInv
<1>9. UNCHANGED <<bp, db, queue, fetched_height, reorg_count>>
  BY <1>1 DEF prefetchVars
<1>10. CASE n > 0 /\ pc' = "backup"
            /\ work' = [work EXCEPT !.start = s + n, !.count = bp.height - (s + n) + 1]
  <2>1. work'.start = s + n /\ work'.count = bp.height - (s + n) + 1
    BY <1>10 DEF IInv, Shapes
  <2>2. work'.start > 0 /\ bp.height = work'.start + work'.count - 1
    BY <1>2, <1>4, <1>5, <2>1
  <2>3. ReorgInv'
    BY <1>2, <1>7, <1>9, <1>10, <2>1, <2>2 DEF ReorgInv, FlushFor, Replaceable
  <2>4. QueueInv' /\ UnforcedInv'
    BY <1>9, <1>10 DEF SafeInv, QueueInv, UnforcedInv, FlushFor, Reorganising
  <2>5. Going'
    BY <1>10, <2>3, <2>4 DEF Going
  <2> QED
    BY <1>1, <1>8, <2>5, QuietSafe
<1>11. CASE ~(n > 0) /\ pc' = "probe" /\ work' = [work EXCEPT !.start = s - count, !.count = count]
  <2>1. work'.start = s - count /\ work'.count = count
    BY <1>11 DEF IInv, Shapes
  <2>2. n = 0 /\ Replaceable(s)
    <3>1. n = 0 /\ s + n = s
      BY <1>2, <1>4, <1>11
    <3> QED
      BY <1>7, <3>1
  <2>3. k * 2 < s
    <3>1. s + ReorgLimit > Height(best) /\ Height(best) >= 3 * ReorgLimit
      BY <1>5, <2>2 DEF Replaceable, NoFailureCondition
    <3>2. k < ReorgLimit /\ 2 * ReorgLimit < s
      BY <1>2, <1>5, <3>1
    <3> QED
      BY <1>2, <1>5, <3>2
  <2>4. count = k * 2
    BY <2>3 DEF count, k, s
  <2>5. work'.start > 0 /\ work'.count > 0 /\ work'.start + work'.count = s /\ s <= bp.height
    BY <1>2, <1>5, <2>1, <2>3, <2>4
  <2>6. ReorgInv'
    BY <1>2, <1>9, <1>11, <2>2, <2>5 DEF ReorgInv, FlushFor, Replaceable
  <2>7. QueueInv' /\ UnforcedInv'
    BY <1>9, <1>11 DEF SafeInv, QueueInv, UnforcedInv, FlushFor, Reorganising
  <2>8. Going'
    BY <1>11, <2>6, <2>7 DEF Going
  <2> QED
    BY <1>1, <1>8, <2>8, QuietSafe
<1> QED
  BY <1>3, <1>10, <1>11

LEMMA UnforcedSafe ==
    ASSUME SafeInv, TakeForcedReorg \/ ForcedRange
    PROVE  FALSE
  BY DEF SafeInv, UnforcedInv, TakeForcedReorg, ForcedRange

\* What a step outside the process may do.
LEMMA OutsideSafe ==
    ASSUME IInv, IInv', SafeInv, UNCHANGED <<pc, bp, work, reorg_count, db, disk, raw, files>>,
           Reached' >= Reached, \A i \in 1 .. Len(queue') : Height(queue'[i]) = fetched_height' - Len(queue') + i,
           pc # "down" => fetched_height' = fetched_height - Len(queue) + Len(queue')
    PROVE  SafeInv'
<1>1. ChainInv /\ ChainInv' /\ Committed' = Committed /\ bp'.tip = bp.tip
  BY DEF IInv, Committed
<1>2. RawRight(Committed)' /\ (pc' # "down" => RawRight(bp.tip)')
  <2>1. \A h \in DOMAIN raw' : h \in DOMAIN raw /\ raw'[h] = raw[h]
    OBVIOUS
  <2> QED
    BY <1>1, <2>1, SameRaw
<1>3. pc' # "down" => BooksInv'
  BY DEF SafeInv, BooksInv
<1>4. pc' # "down" /\ pc' # "flush_backup" => Ahead'
  <2>1. SUFFICES ASSUME pc' # "down", pc' # "flush_backup" PROVE Ahead'
    OBVIOUS
  <2>2. bp.height >= db.height
    BY <2>1, AheadHeights DEF SafeInv
  <2> QED
    BY <2>1, <2>2, AheadAgain
<1>5. ReorgInv' /\ UnforcedInv' /\ pc' # "failed"
  BY DEF SafeInv, ReorgInv, UnforcedInv, Replaceable, FlushFor
<1>6. QueueInv'
  <2>1. /\ fetched_height \in Int /\ fetched_height' \in Int /\ Len(queue) \in Nat /\ Len(queue') \in Nat
    BY <1>1, LenProperties DEF ChainInv
  <2>2. ASSUME pc' # "down", ~Reorganising', ~Ending'
        PROVE  fetched_height' = bp'.height + Len(queue') + (IF pc' = "advance" THEN Len(work'.batch) ELSE 0)
    <3> DEFINE m == IF pc = "advance" THEN Len(work.batch) ELSE 0
    <3>1. pc # "down" /\ ~Reorganising /\ ~Ending
      BY <2>2 DEF Reorganising, Ending, FlushFor
    <3>2. fetched_height = bp.height + Len(queue) + m
      BY <3>1 DEF SafeInv, QueueInv
    <3>3. m \in Nat /\ bp.height \in Int
      <4>1. pc = "advance" => Len(work.batch) \in Nat
        BY LenProperties DEF IInv, WorkInv
      <4> QED
        BY <3>1, <4>1, TipFacts
    <3>4. fetched_height' = fetched_height - Len(queue) + Len(queue')
      BY <3>1
    <3> HIDE DEF m
    <3>5. fetched_height' = bp.height + Len(queue') + m
      BY SMTT(20), <2>1, <3>2, <3>3, <3>4
    <3> QED
      BY <3>5 DEF m
  <2> QED
    BY <2>2 DEF QueueInv
<1> QED
  BY <1>2, <1>3, <1>4, <1>5, <1>6 DEF SafeInv

LEMMA NewBestSafe ==
    ASSUME IInv, IInv', SafeInv, NewBest
    PROVE  SafeInv'
<1>1. UNCHANGED <<pc, bp, work, reorg_count, db, disk, raw, files, queue, fetched_height, cached_height>>
      /\ Height(best') > Height(best)
  BY DEF NewBest, memVars, diskVars, prefetchVars
<1>2. Reached' >= Reached
  <2>1. Height(best) \in Int /\ Height(best)' \in Int /\ cached_height \in Int /\ Height(best)' = Height(best')
    BY ConstantFacts DEF IInv, ChainInv
  <2> QED
    BY <1>1, <2>1 DEF Reached
<1>3. \A i \in 1 .. Len(queue') : Height(queue'[i]) = fetched_height' - Len(queue') + i
  BY <1>1 DEF SafeInv, QueueInv
<1>4. fetched_height' = fetched_height - Len(queue) + Len(queue')
  <2>1. fetched_height \in Int /\ Len(queue) \in Int
    BY LenProperties DEF IInv, ChainInv
  <2> QED
    BY <1>1, <2>1
<1> QED
  BY <1>1, <1>2, <1>3, <1>4, OutsideSafe

LEMMA PrefetchSafe ==
    ASSUME IInv, IInv', SafeInv, Prefetching
    PROVE  SafeInv'
<1>1. PICK count \in 1 .. MaxQueue : \E old \in 0 .. count - 1 : Prefetch(count, old)
  BY DEF Prefetching
<1>2. PICK old \in 0 .. count - 1 : Prefetch(count, old)
  BY <1>1
<1> DEFINE tip(i) == IF i <= old THEN prior_best ELSE best
           more == [i \in 1 .. count |-> Path[tip(i)][fetched_height + 1 + i]]
<1>3. /\ pc # "down" /\ count <= Height(best) - fetched_height
      /\ old = 0 \/ fetched_height + old <= Height(prior_best)
      /\ queue' = queue \o more /\ fetched_height' = fetched_height + count
      /\ cached_height' = Height(best)
      /\ UNCHANGED <<pc, bp, work, reorg_count, db, disk, raw, files>>
  BY <1>2 DEF Prefetch, memVars, diskVars
<1>4. /\ count \in Nat /\ count >= 1 /\ old \in Nat /\ old < count
      /\ fetched_height \in Int /\ fetched_height >= -1 /\ queue \in Seq(Blocks) /\ Len(queue) \in Nat
      /\ best \in Tips /\ prior_best \in Tips /\ Height(best) \in Int /\ Height(prior_best) \in Int
      /\ cached_height \in Int /\ cached_height <= Height(best)
  BY ConstantFacts, LenProperties DEF IInv, ChainInv
<1>5. ASSUME NEW i \in 1 .. count
      PROVE  more[i] \in Blocks /\ Height(more[i]) = fetched_height + i
  <2> DEFINE t == tip(i)
             h == fetched_height + i
  <2>1. t \in Tips /\ h \in 0 .. Height(t) /\ h + 1 = fetched_height + 1 + i
    BY <1>3, <1>4
  <2> HIDE DEF t
  <2>2. Path[t][h + 1] \in Blocks /\ Height(Path[t][h + 1]) = h
    BY <2>1, Ancestors
  <2> QED
    BY <2>1, <2>2 DEF t
<1> HIDE DEF more
<1>6. more \in Seq(Blocks) /\ Len(more) = count
  <2>1. DOMAIN more = 1 .. count /\ more = [i \in 1 .. count |-> more[i]]
    BY DEF more
  <2>2. more \in [1 .. count -> Blocks]
    BY ONLY <1>5, <2>1
  <2> QED
    BY ONLY <1>4, <2>1, <2>2
<1>7. Len(queue') = Len(queue) + count /\ \A i \in 1 .. Len(queue) + count :
        queue'[i] = IF i <= Len(queue) THEN queue[i] ELSE more[i - Len(queue)]
  BY <1>3, <1>4, <1>6, ConcatProperties
<1>8. ASSUME NEW i \in 1 .. Len(queue')
      PROVE  Height(queue'[i]) = fetched_height' - Len(queue') + i
  <2>1. CASE i <= Len(queue)
    <3>1. queue'[i] = queue[i] /\ i \in 1 .. Len(queue)
      BY <1>4, <1>7, <2>1
    <3>2. Height(queue[i]) = fetched_height - Len(queue) + i
      BY <3>1 DEF SafeInv, QueueInv
    <3> QED
      BY <1>3, <1>4, <1>7, <3>1, <3>2
  <2>2. CASE ~(i <= Len(queue))
    <3>1. queue'[i] = more[i - Len(queue)] /\ i - Len(queue) \in 1 .. count
      BY <1>4, <1>7, <2>2
    <3>2. Height(queue'[i]) = fetched_height + (i - Len(queue))
      BY <1>5, <3>1
    <3> QED
      BY <1>3, <1>4, <1>7, <3>2
  <2> QED
    BY <2>1, <2>2
<1>9. Reached' >= Reached /\ fetched_height' = fetched_height - Len(queue) + Len(queue')
  BY <1>3, <1>4, <1>7 DEF Reached
<1> QED
  BY <1>3, <1>8, <1>9, OutsideSafe


LEMMA DownSafe ==
    ASSUME IInv, IInv', SafeInv, Crash \/ Exit \/ RestartFailed
    PROVE  SafeInv'
<1>1. Stop /\ UNCHANGED <<daemonVars, diskVars>> /\ pc # "down"
  BY DEF Crash, Exit, RestartFailed
<1>2. /\ pc' = "down" /\ work' = NoWork /\ reorg_count' = 0 /\ queue' = <<>>
      /\ UNCHANGED <<best, disk, raw>>
  BY <1>1 DEF Stop, daemonVars, diskVars
<1>3. RawRight(Committed)'
  <2>1. ChainInv /\ ChainInv' /\ Committed' = Committed
    BY <1>2 DEF IInv, Committed
  <2>2. Reached' >= Reached
    <3>1. Reached = cached_height /\ Reached' = Height(best)
      BY <1>1, <1>2 DEF Reached
    <3> QED
      BY <2>1, <3>1, ConstantFacts DEF ChainInv
  <2>3. \A h \in DOMAIN raw' : h \in DOMAIN raw /\ raw'[h] = raw[h]
    BY <1>2
  <2> QED
    BY <2>1, <2>2, <2>3, SameRaw
<1>4. QueueInv'
  <2>1. 1 .. Len(queue') = {}
    BY <1>2
  <2> QED
    BY <1>2, <2>1 DEF QueueInv
<1>5. ReorgInv' /\ UnforcedInv'
  BY <1>2 DEF ReorgInv, UnforcedInv, FlushFor
<1> QED
  BY <1>2, <1>3, <1>4, <1>5 DEF SafeInv

\* Old raw blocks are removed.
LEMMA ClearedRaw ==
    ASSUME ClearExcessUndo
    PROVE  \A h \in DOMAIN raw' : h \in DOMAIN raw /\ raw'[h] = raw[h]
  BY DEF ClearExcessUndo, From

LEMMA ClearedState ==
    ASSUME ClearExcessUndo, Shapes
    PROVE  disk'.state = disk.state /\ Committed' = Committed
  BY DEF ClearExcessUndo, Shapes, Committed

LEMMA StartSafe ==
    ASSUME IInv, IInv', SafeInv, Start
    PROVE  SafeInv'
<1>1. /\ pc = "down" /\ pc' = "top" /\ ReadUtxoState /\ ClearExcessUndo /\ ResetHeight(disk.state.height)
      /\ bp' = [EmptyBp EXCEPT !.height = disk.state.height, !.tip = disk.state.tip,
                               !.tx_count = disk.state.tx_count, !.history = disk.history]
      /\ UNCHANGED <<daemonVars, work, reorg_count>>
  BY DEF Start
<1>2. bp' = [height |-> disk.state.height, tip |-> disk.state.tip, tx_count |-> disk.state.tx_count,
             headers |-> <<>>, tx_hashes |-> <<>>, undo_infos |-> <<>>, cache |-> {},
             deletes |-> {}, touched |-> {}, history |-> disk.history]
  BY <1>1 DEF EmptyBp
<1>3. db'.height = disk.state.height /\ db'.tx_count = disk.state.tx_count
  BY <1>1 DEF ReadUtxoState
<1>4. disk'.state = disk.state /\ Committed' = Committed /\ bp'.tip = Committed
  BY <1>1, <1>2, ClearedState DEF IInv, Committed
<1>5. ChainInv /\ ChainInv' /\ disk.state.height \in Int
  BY KnownFacts DEF IInv, DiskInv, TablesMatchTip, Committed
<1>6. Reached' = Reached /\ Reached \in Int
  BY <1>1, <1>5, ConstantFacts DEF Reached, ResetHeight, ChainInv
<1>7. RawRight(Committed)' /\ RawRight(bp.tip)'
  <2>1. Reached' >= Reached
    BY <1>6
  <2> QED
    BY <1>1, <1>4, <1>5, <2>1, ClearedRaw, SameRaw
<1>8. BooksInv'
  BY <1>2, <1>3, <1>4 DEF BooksInv
<1>9. Ahead'
  <2>1. bp'.height >= db'.height
    BY <1>2, <1>3, <1>5
  <2> QED
    BY <1>1, <2>1, AheadAgain
<1>10. QueueInv'
  <2>1. queue' = <<>> /\ fetched_height' = disk.state.height /\ bp'.height = disk.state.height
    BY <1>1, <1>2 DEF ResetHeight
  <2>2. Len(queue') = 0 /\ 1 .. Len(queue') = {}
    BY <2>1
  <2> QED
    BY <1>1, <1>5, <2>1, <2>2 DEF QueueInv
<1>11. ReorgInv' /\ UnforcedInv'
  BY <1>1 DEF SafeInv, ReorgInv, UnforcedInv, FlushFor
<1> QED
  BY <1>1, <1>7, <1>8, <1>9, <1>10, <1>11 DEF SafeInv

LEMMA ReopenSafe ==
    ASSUME IInv, IInv', SafeInv, Reopen
    PROVE  SafeInv'
<1>1. /\ pc = "reopen" /\ pc' = "wait" /\ ReadUtxoState /\ ClearExcessUndo
      /\ UNCHANGED <<daemonVars, prefetchVars, bp, work, reorg_count>>
  BY DEF Reopen
<1>2. db'.height = disk.state.height /\ db'.tx_count = disk.state.tx_count
  BY <1>1 DEF ReadUtxoState
<1>3. disk'.state = disk.state /\ Committed' = Committed /\ bp'.tip = bp.tip
  BY <1>1, ClearedState DEF IInv
<1>4. ChainInv /\ ChainInv' /\ db.height = disk.state.height
  BY <1>1, TipFacts DEF IInv, TipInv
<1>5. Ahead /\ BooksInv /\ bp.height >= db.height
  BY <1>1, AheadHeights DEF SafeInv
<1>6. Reached' = Reached /\ Reached \in Int
  BY <1>1, <1>4, ReachedFacts DEF Reached, prefetchVars
<1>7. RawRight(Committed)' /\ RawRight(bp.tip)'
  <2>1. Reached' >= Reached
    BY <1>6
  <2> QED
    BY <1>1, <1>3, <1>4, <2>1, ClearedRaw, SameRaw
<1>8. BooksInv'
  BY <1>1, <1>2, <1>3, <1>4, <1>5 DEF BooksInv
<1>9. Ahead'
  <2>1. bp'.height >= db'.height
    BY <1>1, <1>2, <1>4, <1>5
  <2> QED
    BY <1>1, <2>1, AheadAgain
<1>10. QueueInv' /\ ReorgInv' /\ UnforcedInv'
  BY <1>1 DEF SafeInv, QueueInv, ReorgInv, UnforcedInv, FlushFor, Reorganising, Ending, prefetchVars
<1> QED
  BY <1>1, <1>7, <1>8, <1>9, <1>10 DEF SafeInv

LEMMA FlushFsSafe ==
    ASSUME IInv, IInv', SafeInv, FlushFs
    PROVE  SafeInv'
<1>1. Ahead /\ BooksInv /\ pc = "flush" /\ bp.height # db.height
  BY DEF SafeInv, FlushFs
<1>2. /\ pc' = "flush_utxos" /\ db' = [db EXCEPT !.fs_height = bp.height]
      /\ bp' = [bp EXCEPT !.headers = <<>>, !.tx_hashes = <<>>]
      /\ UNCHANGED <<prefetchVars, work, reorg_count, disk, raw>>
  <2>1. FlushFsAsserts
    BY <1>1, FileAsserts
  <2> QED
    BY <2>1 DEF FlushFs
<1>3. db'.height = db.height /\ db'.tx_count = db.tx_count
  BY <1>2 DEF IInv, Shapes
<1>4. bp'.height = bp.height /\ bp'.tip = bp.tip /\ bp'.headers = <<>> /\ bp'.tx_hashes = <<>>
  BY <1>2 DEF IInv, Shapes
<1>5. ChainInv /\ ChainInv' /\ Committed' = Committed
  BY <1>2 DEF IInv, Committed
<1>6. bp.height >= db.height
  BY <1>1, AheadHeights
<1>7. RawRight(Committed)' /\ RawRight(bp.tip)'
  <2>1. Reached' >= Reached
    BY <1>1, <1>2, <1>5, ReachedFacts DEF Reached, prefetchVars
  <2>2. \A h \in DOMAIN raw' : h \in DOMAIN raw /\ raw'[h] = raw[h]
    BY <1>2
  <2> QED
    BY <1>1, <1>4, <1>5, <2>1, <2>2, SameRaw
<1>8. BooksInv'
  BY <1>1, <1>2, <1>3, <1>4 DEF BooksInv
<1>9. Ahead'
  <2>1. bp'.height >= db'.height
    BY <1>3, <1>4, <1>6
  <2> QED
    BY <1>2, <2>1, AheadAgain
<1>10. QueueInv'
  BY <1>1, <1>2, <1>4 DEF SafeInv, QueueInv, FlushFor, Reorganising, Ending, prefetchVars
<1>11. ReorgInv' /\ UnforcedInv'
  BY <1>1, <1>2, <1>4 DEF SafeInv, ReorgInv, UnforcedInv, FlushFor, Replaceable
<1> QED
  BY <1>2, <1>7, <1>8, <1>9, <1>10, <1>11 DEF SafeInv

LEMMA FlushUtxosSafe ==
    ASSUME IInv, IInv', SafeInv, FlushUtxos
    PROVE  SafeInv'
<1>1. Ahead /\ BooksInv /\ pc = "flush_utxos" /\ WorkInv /\ pc' = work.after
  BY DEF SafeInv, FlushUtxos, IInv
<1>2. /\ UNCHANGED <<prefetchVars, work, reorg_count, raw>>
      /\ \/ /\ work.flush_utxos /\ disk' = FlushUtxoDb(db) /\ bp' = Flushed
            /\ db' = [db EXCEPT !.height = bp.height, !.tip = bp.tip, !.tx_count = bp.tx_count]
         \/ /\ ~work.flush_utxos /\ disk' = [disk EXCEPT !.state.first_sync = db.first_sync]
            /\ UNCHANGED <<db, bp>>
  BY DEF FlushUtxos
<1>3. bp'.height = bp.height /\ bp'.tip = bp.tip /\ bp'.headers = bp.headers /\ bp'.tx_hashes = bp.tx_hashes
  BY <1>2 DEF IInv, Shapes, Flushed
<1>4. work.flush_utxos => /\ db'.height = bp.height /\ db'.tx_count = bp.tx_count
                          /\ disk'.state.tx_count = bp.tx_count /\ disk'.state.tip = bp.tip
                          /\ bp'.cache = {} /\ bp'.deletes = {}
  <2>1. SUFFICES ASSUME work.flush_utxos
                 PROVE  /\ db'.height = bp.height /\ db'.tx_count = bp.tx_count
                        /\ disk'.state.tx_count = bp.tx_count /\ disk'.state.tip = bp.tip
                        /\ bp'.cache = {} /\ bp'.deletes = {}
    OBVIOUS
  <2>2. disk' = FlushUtxoDb(db) /\ bp' = Flushed
        /\ db' = [db EXCEPT !.height = bp.height, !.tip = bp.tip, !.tx_count = bp.tx_count]
    BY <1>2, <2>1
  <2>3. disk'.state.tx_count = bp.tx_count /\ disk'.state.tip = bp.tip
    BY <2>2 DEF FlushUtxoDb
  <2>4. db'.height = bp.height /\ db'.tx_count = bp.tx_count
    BY <2>2 DEF IInv, Shapes
  <2>5. bp'.cache = {} /\ bp'.deletes = {}
    BY <2>2 DEF IInv, Shapes, Flushed
  <2> QED
    BY <2>3, <2>4, <2>5
<1>5. ~work.flush_utxos => /\ disk'.state.tx_count = disk.state.tx_count /\ disk'.state.tip = disk.state.tip
                           /\ UNCHANGED <<db, bp>>
  BY <1>2 DEF IInv, Shapes
<1>6. ChainInv /\ ChainInv' /\ pc # "down" /\ pc' # "down"
  BY <1>1 DEF IInv, WorkInv
<1>7. bp.height \in Int /\ bp.height >= db.height
  BY <1>1, <1>6, AheadHeights
<1>8. RawRight(Committed)' /\ RawRight(bp.tip)'
  <2>1. Reached' >= Reached
    BY <1>2, <1>6, ReachedFacts DEF Reached, prefetchVars
  <2>2. \A h \in DOMAIN raw' : h \in DOMAIN raw /\ raw'[h] = raw[h]
    BY <1>2
  <2>3. RawRight(bp.tip)' /\ (Committed' = Committed => RawRight(Committed)')
    BY <1>3, <1>6, <2>1, <2>2, SameRaw
  <2>4. Committed' = Committed \/ Committed' = bp'.tip
    BY <1>3, <1>4, <1>5 DEF Committed
  <2> QED
    BY <2>3, <2>4 DEF RawRight
<1>9. BooksInv'
  BY <1>1, <1>3, <1>4, <1>5 DEF BooksInv
<1>10. Ahead'
  <2>1. bp'.height >= db'.height
    BY <1>3, <1>4, <1>5, <1>7
  <2> QED
    BY <1>6, <2>1, AheadAgain
<1>11. Going'
  <2>1. UNCHANGED <<queue, fetched_height, work, reorg_count>>
    BY <1>2 DEF prefetchVars
  <2>2. work.after = "reorg" => work.flush_utxos
    BY <1>1 DEF WorkInv
  <2>3. work.after = "reorg" => bp'.height = db'.height
    BY <1>3, <1>4, <2>2
  <2> QED
    BY ONLY SafeInv, <1>1, <1>3, <2>1, <2>3, FlushReturns
<1> QED
  BY <1>8, <1>9, <1>10, <1>11 DEF SafeInv, Going


LEMMA AdvanceSafe ==
    ASSUME IInv, IInv', SafeInv, AdvanceBlock
    PROVE  SafeInv'
<1> DEFINE b == Head(work.batch)
           tip == bp.tip
           height == bp.height + 1
           keep == height >= MinUndoHeight(cached_height)
           s == Fold(AdvanceTx, Scratch, Txs[b])
<1>1. /\ pc = "advance" /\ work.batch # <<>>
      /\ bp' = [bp EXCEPT
                  !.height = height, !.tip = b, !.tx_count = s.tx_count,
                  !.headers = Append(@, b), !.tx_hashes = Append(@, Txs[b]),
                  !.undo_infos = bp'.undo_infos,
                  !.cache = s.cache, !.deletes = s.deletes,
                  !.touched = s.touched, !.history = s.history]
      /\ work' = [work EXCEPT !.batch = Tail(@)]
      /\ pc' = (IF ~s.ok THEN "failed" ELSE IF Len(work.batch) = 1 THEN "advanced" ELSE "advance")
      /\ raw' = (IF keep
                 THEN [h \in (DOMAIN raw \cup {height}) \ {MinUndoHeight(height) - 1} |->
                          IF h = height THEN b ELSE raw[h]]
                 ELSE raw)
      /\ UNCHANGED <<prefetchVars, reorg_count, db, disk>>
  BY DEF AdvanceBlock, IInv, Shapes
<1>2. /\ work.batch \in Seq(Blocks) /\ b \in Blocks /\ Len(work.batch) \in Nat
      /\ Len(work.batch) >= 1 /\ Prev[b] = tip
      /\ tip \in Tips /\ bp.height = Height(tip) /\ Height(b) = Height(tip) + 1
      /\ Height(tip) \in Int /\ Height(tip) >= -1 /\ b \in Tips
      /\ Extends(b, tip) /\ Committed \in Tips /\ Extends(tip, Committed)
      /\ cached_height \in Int /\ ReorgLimit \in Nat /\ Height(Committed) \in Int
      /\ Height(Committed) >= -1 /\ Height(Committed) <= Height(tip)
      /\ Advanced(b, s, TxCount(b), tx_counts, SpentOutputs[b], Unspent[b], Touches[b], Touches[tip])
  BY <1>1, AdvancedScratch
<1>3. s.ok
  BY <1>2 DEF Advanced
<1> HIDE DEF b, s
<1>4. bp'.height = height /\ bp'.tip = b /\ bp'.headers = Append(bp.headers, b)
      /\ bp'.tx_hashes = Append(bp.tx_hashes, Txs[b])
  BY <1>1 DEF IInv, Shapes
<1>5. work'.batch = Tail(work.batch) /\ Len(work'.batch) = Len(work.batch) - 1
  BY <1>1, <1>2, HeadTailProperties DEF IInv, Shapes
<1>6. /\ pc' \in {"advance", "advanced"}
      /\ Len(work.batch) = (IF pc' = "advance" THEN Len(work'.batch) ELSE 0) + 1
  <2>1. pc' = (IF Len(work.batch) = 1 THEN "advanced" ELSE "advance")
    BY <1>1, <1>3
  <2>2. CASE Len(work.batch) = 1
    BY <2>1, <2>2
  <2>3. CASE Len(work.batch) # 1
    <3>1. pc' = "advance" /\ Len(work.batch) = Len(work'.batch) + 1
      BY <1>2, <1>5, <2>1, <2>3
    <3> QED
      BY <3>1
  <2> QED
    BY <2>2, <2>3
<1>7. Ahead /\ BooksInv /\ RawRight(tip) /\ RawRight(Committed) /\ db.height <= bp.height
      /\ db.height \in Int
  BY <1>1, AheadHeights DEF SafeInv
<1>8. \A h \in DOMAIN raw' : \/ h = height /\ raw'[h] = b /\ keep
                             \/ h \in DOMAIN raw /\ raw'[h] = raw[h]
  <2> DEFINE old == MinUndoHeight(height) - 1
             new == [h \in (DOMAIN raw \cup {height}) \ {old} |-> IF h = height THEN b ELSE raw[h]]
  <2>1. raw' = IF keep THEN new ELSE raw
    BY <1>1
  <2> HIDE DEF keep, old, height
  <2>2. CASE keep
    <3>1. raw' = new
      BY <2>1, <2>2
    <3>2. \A h \in DOMAIN new : new[h] = (IF h = height THEN b ELSE raw[h]) /\ (h # height => h \in DOMAIN raw)
      OBVIOUS
    <3> HIDE DEF new
    <3> QED
      BY <2>2, <3>1, <3>2
  <2>3. CASE ~keep
    BY <2>1, <2>3
  <2> QED
    BY <2>2, <2>3
<1>9. keep <=> height + ReorgLimit > cached_height
  BY <1>2 DEF MinUndoHeight
<1> HIDE DEF keep
<1>10. Reached = cached_height /\ Reached' = cached_height
  BY <1>1, <1>6 DEF Reached, prefetchVars
<1>11. RawRight(Committed)'
  <2>1. Committed' = Committed
    BY <1>1 DEF Committed
  <2>2. ASSUME NEW h \in DOMAIN raw', h \in 0 .. Height(Committed), h + ReorgLimit > Reached'
        PROVE  raw'[h] = Path[Committed][h + 1]
    <3>1. h # height
      BY <1>2, <2>2
    <3>2. h \in DOMAIN raw /\ raw'[h] = raw[h]
      BY <1>8, <2>2, <3>1
    <3> QED
      BY <1>7, <1>10, <2>2, <3>2 DEF RawRight
  <2> QED
    BY <2>1, <2>2 DEF RawRight
<1>12. RawRight(bp.tip)'
  <2>1. ASSUME NEW h \in DOMAIN raw', h \in 0 .. Height(b), h + ReorgLimit > Reached'
        PROVE  raw'[h] = Path[b][h + 1]
    <3>1. CASE h = height
      <4>1. raw'[h] = b
        <5>1. CASE h = height /\ raw'[h] = b /\ keep
          BY <5>1
        <5>2. CASE h \in DOMAIN raw /\ raw'[h] = raw[h]
          <6>1. keep
            BY <1>9, <1>10, <2>1, <3>1
          <6> QED
            BY <1>1, <2>1, <3>1, <6>1
        <5> QED
          BY <1>8, <2>1, <5>1, <5>2
      <4> QED
        BY <1>2, <3>1, <4>1, ParentFacts
    <3>2. CASE h # height
      <4>1. h \in DOMAIN raw /\ raw'[h] = raw[h]
        BY <1>8, <2>1, <3>2
      <4>2. h \in 0 .. Height(tip) /\ h + 1 \in 1 .. Height(tip) + 1
        BY <1>2, <2>1, <3>2
      <4>3. raw[h] = Path[tip][h + 1]
        BY <1>7, <1>10, <2>1, <4>1, <4>2 DEF RawRight
      <4>4. Path[b][h + 1] = Path[tip][h + 1]
        BY <1>2, <4>2 DEF Extends
      <4> QED
        BY <4>1, <4>3, <4>4
    <3> QED
      BY <3>1, <3>2
  <2> QED
    BY <1>4, <2>1 DEF RawRight
<1>13. bp'.height > db'.height /\ bp'.height \in Int
  <2>1. bp'.height = height /\ db'.height = db.height
    BY <1>1, <1>4
  <2>2. bp.height \in Int /\ db.height \in Int /\ db.height <= bp.height
    BY <1>2, <1>7
  <2> QED
    BY ONLY <2>1, <2>2
<1>14. BooksInv'
  <2>1. Len(bp'.tx_hashes) = Len(bp'.headers)
    <3>1. bp.headers \in Seq(Blocks) /\ bp.tx_hashes \in Seq(Seq(TxId)) /\ Txs[b] \in Seq(TxId)
      BY <1>2, <1>7, ParentFacts DEF Ahead, Unwritten
    <3>2. Len(bp'.headers) = Len(bp.headers) + 1 /\ Len(bp'.tx_hashes) = Len(bp.tx_hashes) + 1
      BY <1>2, <1>4, <3>1, AppendProperties
    <3> QED
      BY <1>7, <3>2 DEF BooksInv
  <2>2. bp'.height # db'.height
    BY <1>1, <1>7, <1>13
  <2> QED
    BY <1>1, <1>7, <2>1, <2>2 DEF BooksInv
<1>15. Ahead'
  <2>1. bp'.height >= db'.height
    BY <1>1, <1>7, <1>13
  <2> QED
    BY <1>6, <2>1, AheadAgain
<1>16. QueueInv'
  <2>1. ~Reorganising /\ ~Ending
    BY <1>1 DEF Reorganising, Ending, FlushFor
  <2>2. fetched_height = bp.height + Len(queue) + Len(work.batch)
    BY <1>1, <2>1 DEF SafeInv, QueueInv
  <2>3. Len(queue) \in Nat /\ UNCHANGED <<queue, fetched_height>>
    BY <1>1, LenProperties DEF IInv, ChainInv, prefetchVars
  <2>4. (IF pc' = "advance" THEN Len(work'.batch) ELSE 0) \in Int
    BY <1>2, <1>5
  <2>5. fetched_height' = bp'.height + Len(queue') + (IF pc' = "advance" THEN Len(work'.batch) ELSE 0)
    BY <1>2, <1>4, <1>6, <2>2, <2>3, <2>4
  <2> QED
    BY <2>3, <2>5 DEF SafeInv, QueueInv
<1>17. ReorgInv' /\ UnforcedInv'
  BY <1>1, <1>6 DEF SafeInv, ReorgInv, UnforcedInv, FlushFor
<1> QED
  BY <1>6, <1>11, <1>12, <1>14, <1>15, <1>16, <1>17 DEF SafeInv


LEMMA BackupSafe ==
    ASSUME IInv, IInv', SafeInv, BackupBlocks
    PROVE  SafeInv'
<1> DEFINE n == Chunk
           X == bp.tip
           s == Fold(BackupBlock, BackupScratch, RawBlocks(n))
<1>1. pc = "backup" /\ work.count > 0 /\ UNCHANGED <<prefetchVars, reorg_count, db, disk, raw>>
  BY DEF BackupBlocks, diskVars
<1>2. AssertFlushed /\ bp.height >= n /\ s.ok
  BY <1>1, BackupSucceeds
<1>3. /\ bp' = [bp EXCEPT !.height = s.height, !.tip = s.tip, !.tx_count = s.tx_count,
                          !.cache = s.cache, !.deletes = s.deletes, !.touched = s.touched]
      /\ work' = [work EXCEPT !.count = @ - n] /\ pc' = "flush_backup"
  BY <1>2 DEF BackupBlocks
<1>4. /\ bp.height = Height(X) /\ Height(X) \in Int /\ X \in Blocks
      /\ \E t \in Tips : Height(t) = Height(X) - n /\ BackedUp(X, s, t)
  BY <1>1, <1>2, BackedUpScratch
<1>5. PICK t \in Tips : Height(t) = Height(X) - n /\ BackedUp(X, s, t)
  BY <1>4
<1>6. n \in Nat
  BY <1>1, RawBlocksRight
<1> HIDE DEF s, n, X
<1>7. s.height = Height(t) /\ s.tip = t /\ Extends(X, t)
  BY <1>5 DEF BackedUp
<1>8. bp'.height = bp.height - n /\ bp'.tip = t /\ bp'.headers = bp.headers /\ bp'.tx_hashes = bp.tx_hashes
  BY <1>3, <1>4, <1>5, <1>7 DEF IInv, Shapes
<1>9. work'.start = work.start /\ work'.count = work.count - n
  BY <1>3 DEF IInv, Shapes
<1>10. Reached' = Reached /\ Committed' = Committed
  BY <1>1, <1>3 DEF Reached, prefetchVars, Committed
<1>11. RawRight(Committed)'
  BY <1>1, <1>10 DEF SafeInv, RawRight
<1>12. RawRight(bp.tip)'
  <2>1. RawRight(X)
    BY <1>1 DEF SafeInv, X
  <2>2. ASSUME NEW h \in DOMAIN raw, h \in 0 .. Height(t), h + ReorgLimit > Reached
        PROVE  raw[h] = Path[t][h + 1]
    <3>1. h \in 0 .. Height(X) /\ h + 1 \in 1 .. Height(t) + 1
      BY <1>4, <1>5, <1>6, <2>2
    <3>2. Path[X][h + 1] = Path[t][h + 1]
      BY <1>7, <3>1 DEF Extends
    <3> QED
      BY <2>1, <2>2, <3>1, <3>2 DEF RawRight
  <2> QED
    BY <1>1, <1>8, <1>10, <2>2 DEF RawRight
<1>13. BooksInv'
  BY <1>1, <1>3, <1>8 DEF SafeInv, BooksInv
<1>14. QueueInv'
  BY <1>1, <1>3 DEF SafeInv, QueueInv, Reorganising, prefetchVars
<1>15. ReorgInv' /\ UnforcedInv'
  <2>1. work.start > 0 /\ Replaceable(work.start) /\ bp.height = work.start + work.count - 1
    BY <1>1 DEF SafeInv, ReorgInv
  <2>2. work.start \in Int /\ work.count \in Int /\ bp.height \in Int
    BY <1>4 DEF IInv, WorkInv
  <2>3. bp'.height = work'.start + work'.count - 1
    BY <1>6, <1>8, <1>9, <2>1, <2>2
  <2>4. ReorgInv'
    BY <1>3, <1>9, <2>1, <2>3 DEF ReorgInv, FlushFor, Replaceable
  <2> QED
    BY <1>1, <1>3, <2>4 DEF SafeInv, UnforcedInv, FlushFor
<1> QED
  BY <1>3, <1>11, <1>12, <1>13, <1>14, <1>15 DEF SafeInv

LEMMA FlushBackupSafe ==
    ASSUME IInv, IInv', SafeInv, FlushBackup
    PROVE  SafeInv'
<1>1. /\ pc = "flush_backup" /\ bp' = [Flushed EXCEPT !.history = Cut(@, bp.tx_count)]
      /\ disk' = [FlushUtxoDb(db) EXCEPT !.history = Cut(@, bp.tx_count)]
      /\ db' = [db EXCEPT !.height = bp.height, !.tip = bp.tip,
                          !.tx_count = bp.tx_count, !.fs_height = bp.height]
      /\ UNCHANGED <<daemonVars, work, raw>>
      /\ \/ work.count > 0 /\ pc' = "backup" /\ UNCHANGED <<prefetchVars, reorg_count>>
         \/ /\ pc' = "top" /\ ResetHeight(bp.height)
            /\ reorg_count' = IF work.after = "forced" THEN 0 ELSE reorg_count
  BY DEF FlushBackup
<1>2. TipInv /\ bp.height \in Int /\ bp.height >= -1 /\ BooksInv /\ RawRight(bp.tip)
  BY <1>1, TipFacts DEF SafeInv
<1>3. /\ bp'.height = bp.height /\ bp'.tip = bp.tip /\ bp'.headers = bp.headers
      /\ bp'.tx_hashes = bp.tx_hashes /\ bp'.cache = {} /\ bp'.deletes = {}
  BY <1>1 DEF IInv, Shapes, Flushed
<1>4. db'.height = bp.height /\ db'.tx_count = bp.tx_count
  BY <1>1 DEF IInv, Shapes
<1>5. disk'.state.tx_count = bp.tx_count /\ Committed' = bp.tip
  <2>1. disk'.state = FlushUtxoDb(db).state
    BY <1>1 DEF FlushUtxoDb
  <2> QED
    BY <2>1 DEF FlushUtxoDb, Committed
<1>6. ChainInv /\ ChainInv' /\ reorg_count = 0 /\ reorg_count' = 0 /\ pc' \in {"backup", "top"}
  BY <1>1 DEF IInv, SafeInv, UnforcedInv
<1>7. Reached' >= Reached
  <2>1. cached_height' >= cached_height
    BY <1>1, <1>2, <1>6, ResetChain DEF prefetchVars, ChainInv
  <2> QED
    BY <1>1, <1>6, <2>1 DEF Reached
<1>8. RawRight(bp.tip)' /\ RawRight(Committed)'
  <2>1. \A h \in DOMAIN raw' : h \in DOMAIN raw /\ raw'[h] = raw[h]
    BY <1>1
  <2>2. RawRight(bp.tip)'
    BY <1>1, <1>3, <1>6, <1>7, <2>1, SameRaw
  <2> QED
    BY <1>3, <1>5, <2>2 DEF RawRight
<1>9. BooksInv'
  BY <1>2, <1>3, <1>4, <1>5 DEF BooksInv
<1>10. Ahead'
  <2>1. bp'.height >= db'.height /\ pc' # "down"
    BY <1>2, <1>3, <1>4, <1>6
  <2> QED
    BY <2>1, AheadAgain
<1>11. CASE work.count > 0 /\ pc' = "backup" /\ UNCHANGED <<prefetchVars, reorg_count>>
  <2>1. QueueInv' /\ UnforcedInv'
    BY <1>1, <1>6, <1>11 DEF SafeInv, QueueInv, UnforcedInv, FlushFor, Reorganising, prefetchVars
  <2>2. ReorgInv'
    BY <1>1, <1>3, <1>4, <1>11 DEF SafeInv, ReorgInv, FlushFor, Replaceable
  <2> QED
    BY <1>8, <1>9, <1>10, <1>11, <2>1, <2>2 DEF SafeInv
<1>12. CASE pc' = "top" /\ ResetHeight(bp.height)
  <2>1. queue' = <<>> /\ fetched_height' = bp.height
    BY <1>12 DEF ResetHeight
  <2>2. Len(queue') = 0 /\ 1 .. Len(queue') = {}
    BY <2>1
  <2>3. QueueInv'
    BY <1>2, <1>3, <1>12, <2>1, <2>2 DEF QueueInv
  <2>4. ReorgInv' /\ UnforcedInv'
    BY <1>6, <1>12 DEF ReorgInv, UnforcedInv, FlushFor
  <2> QED
    BY <1>8, <1>9, <1>10, <1>12, <2>3, <2>4 DEF SafeInv
<1> QED
  BY <1>1, <1>11, <1>12

LEMMA StutterSafe ==
    ASSUME IInv, IInv', SafeInv, UNCHANGED vars
    PROVE  SafeInv'
<1>1. UNCHANGED <<pc, bp, work, reorg_count, db, disk, raw, files, queue, fetched_height, cached_height, best>>
  BY DEF vars, memVars, diskVars, prefetchVars, daemonVars
<1>2. \A i \in 1 .. Len(queue') : Height(queue'[i]) = fetched_height' - Len(queue') + i
  BY <1>1 DEF SafeInv, QueueInv
<1>3. Reached' >= Reached /\ fetched_height' = fetched_height - Len(queue) + Len(queue')
  <2>1. fetched_height \in Int /\ Len(queue) \in Int /\ Reached \in Int /\ Reached' = Reached
    BY <1>1, LenProperties, ReachedFacts DEF IInv, ChainInv, Reached
  <2> QED
    BY <1>1, <2>1
<1> QED
  BY <1>1, <1>2, <1>3, OutsideSafe

LEMMA NextSafe ==
    ASSUME IInv, SafeInv, [Next]_vars, NoFailureCondition
    PROVE  SafeInv'
<1>0. IInv'
  BY NextInv
<1>1. CASE Process
  <2>1. \/ Start \/ FlushNothing \/ FlushFs \/ FlushUtxos \/ Top \/ Reopen \/ TakeBlocks
        \/ AdvanceBlock \/ (\E needed, flush_utxos \in BOOLEAN : MaybeFlush(needed, flush_utxos))
        \/ Notify \/ TakeForcedReorg \/ ForcedRange \/ RealRange \/ Probe
        \/ BackupBlocks \/ FlushBackup \/ Exit \/ RestartFailed
    BY <1>1 DEF Process
  <2>2. CASE Start
    BY <1>0, <2>2, StartSafe
  <2>3. CASE FlushNothing
    BY <1>0, <2>3, FlushNothingSafe
  <2>4. CASE FlushFs
    BY <1>0, <2>4, FlushFsSafe
  <2>5. CASE FlushUtxos
    BY <1>0, <2>5, FlushUtxosSafe
  <2>6. CASE Top
    BY <1>0, <2>6, TopSafe
  <2>7. CASE Reopen
    BY <1>0, <2>7, ReopenSafe
  <2>8. CASE TakeBlocks
    BY <1>0, <2>8, TakeBlocksSafe
  <2>9. CASE AdvanceBlock
    BY <1>0, <2>9, AdvanceSafe
  <2>10. CASE \E needed, flush_utxos \in BOOLEAN : MaybeFlush(needed, flush_utxos)
    BY <1>0, <2>10, MaybeFlushSafe
  <2>11. CASE Notify
    BY <1>0, <2>11, NotifySafe
  <2>12. CASE TakeForcedReorg \/ ForcedRange
    BY <2>12, UnforcedSafe
  <2>13. CASE RealRange
    BY <1>0, <2>13, RealRangeSafe
  <2>14. CASE Probe
    BY <1>0, <2>14, ProbeSafe
  <2>15. CASE BackupBlocks
    BY <1>0, <2>15, BackupSafe
  <2>16. CASE FlushBackup
    BY <1>0, <2>16, FlushBackupSafe
  <2>17. CASE Exit \/ RestartFailed
    BY <1>0, <2>17, DownSafe
  <2> QED
    BY ONLY <2>1, <2>2, <2>3, <2>4, <2>5, <2>6, <2>7, <2>8, <2>9, <2>10, <2>11, <2>12, <2>13,
            <2>14, <2>15, <2>16, <2>17
<1>2. CASE Prefetching
  BY <1>0, <1>2, PrefetchSafe
<1>3. CASE NewBest
  BY <1>0, <1>3, NewBestSafe
<1>4. CASE \E count \in 1 .. MaxForced : ForceReorg(count)
  BY <1>4 DEF NoFailureCondition
<1>5. CASE Crash
  BY <1>0, <1>5, DownSafe
<1>6. CASE Shutdown
  BY <1>0, <1>6, ShutdownSafe DEF NoFailureCondition
<1>7. CASE UNCHANGED vars
  BY <1>0, <1>7, StutterSafe
<1> QED
  BY <1>1, <1>2, <1>3, <1>4, <1>5, <1>6, <1>7 DEF Next

LEMMA InitSafe == Init => SafeInv
<1> SUFFICES ASSUME Init PROVE SafeInv
  OBVIOUS
<1>1. /\ pc = "down" /\ queue = <<>> /\ reorg_count = 0 /\ raw = <<>>
  BY DEF Init
<1>2. 1 .. Len(queue) = {} /\ DOMAIN raw = {}
  BY <1>1
<1> QED
  BY <1>1, <1>2 DEF SafeInv, QueueInv, ReorgInv, UnforcedInv, FlushFor, RawRight

\* Nothing fails by itself: short of a forced reorganisation, of a stop between backup_blocks
\* and flush_backup, and of a chain hardly longer than what can be reorganised, whatever the
\* daemon's chain does and wherever the server crashes, every assertion of flush_dbs and
\* backup_blocks holds, and what a reorganisation needs is there: no ChainError, no DBError.
THEOREM NothingFails ==
    ASSUME NoFailureCondition
    PROVE  Spec => []NoFailure
<1>1. Init => SafeInv
  BY InitSafe
<1>2. IInv /\ SafeInv /\ [Next]_vars => SafeInv'
  BY NextSafe
<1>3. SafeInv => NoFailure
  BY DEF SafeInv, NoFailure
<1> QED
  BY <1>1, <1>2, <1>3, ProcessorInvariant, PTL DEF Spec
=============================================================================
