---------------------------- MODULE NetworkProofs ----------------------------
(***************************************************************************)
(* Theorems about what the server's tasks hand to each other, for all      *)
(* values of the constants: the queue between prefetcher and processor,    *)
(* and the buffer of the padded transport.                                 *)
(***************************************************************************)
EXTENDS MCNetwork, NaturalsInduction, SequenceTheorems, WellFoundedInduction, TLAPS

-----------------------------------------------------------------------------
(* The prefetcher's queue.                                                  *)

Chains == Seq(Nat \X {"a", "b"})

\* Blocks of consecutive heights, the first above h.
Numbered(s, h) == \A i \in 1 .. Len(s) : s[i][1] = h + i

PrefetchTypes ==
    /\ branch \in {"a", "b"} /\ daemon_height \in Nat /\ seen \in Nat /\ fetched_height \in Nat
    /\ reorg_count \in Nat
    /\ blocks \in Chains /\ hashes \in Chains /\ chain \in Chains /\ batch \in Chains
    /\ bp \in {"top", "wait", "advance", "reorg", "forced", "reset", "forced reset",
               "reset done", "forced done", "failed"}

\* The prefetcher fetches under the semaphore, and fetches what follows its height.
Fetching ==
    /\ pf \in {"hashes", "blocks"} => semaphore = "prefetcher"
    /\ pf = "blocks" => Numbered(hashes, fetched_height)

\* What is queued follows what the processor has, or is about to have; it is stale only
\* between the discovery of a reorganisation and the reset.
Queued ==
    /\ bp \in {"top", "wait", "reset done", "forced done"} =>
          fetched_height = Pf!height + Len(blocks) /\ Numbered(blocks, Pf!height)
    /\ bp = "advance" =>
          /\ fetched_height = Pf!height + Len(batch) + Len(blocks)
          /\ Numbered(batch, Pf!height) /\ Numbered(blocks, Pf!height + Len(batch))

\* Every block that was processed is the child of the one before.
Linked(c) == \A i \in 1 .. Len(c) :
                /\ c[i][1] = i
                /\ Pf!Prev(c[i]) = IF i = 1 THEN Pf!Block(0, "a") ELSE c[i - 1]

QueueInv == PrefetchTypes /\ Fetching /\ Queued /\ Linked(chain)

LEMMA BlockTyped == \A n \in Nat, b \in {"a", "b"} : Pf!Block(n, b) \in Nat \X {"a", "b"} /\ Pf!Block(n, b)[1] = n
  BY DEF Pf!Block

LEMMA ChainsJoin ==
    ASSUME NEW c \in Chains, NEW s \in Chains
    PROVE  /\ c \o s \in Chains /\ Len(c \o s) = Len(c) + Len(s) /\ Len(c) \in Nat /\ Len(s) \in Nat
           /\ \A i \in 1 .. Len(c) : (c \o s)[i] = c[i]
           /\ \A i \in 1 .. Len(s) : (c \o s)[Len(c) + i] = s[i]
  BY DEF Chains

LEMMA ChainLinks ==
    ASSUME NEW c \in Chains, NEW s \in Chains, Linked(c), Numbered(s, Len(c)), s # << >>,
           Pf!Prev(s[1]) = Pf!TipOf(c), \A i \in 2 .. Len(s) : Pf!Prev(s[i]) = s[i - 1]
    PROVE  Linked(c \o s)
<1>1. Len(c \o s) = Len(c) + Len(s) /\ Len(c) \in Nat /\ Len(s) \in Nat \ {0}
  BY DEF Chains
<1>2. \A i \in 1 .. Len(c) : (c \o s)[i] = c[i]
  BY ChainsJoin
<1>3. \A i \in 1 .. Len(s) : (c \o s)[Len(c) + i] = s[i]
  BY ChainsJoin
<1> DEFINE t == c \o s
<1> HIDE DEF t
<1>4. /\ Len(t) = Len(c) + Len(s) /\ \A i \in 1 .. Len(c) : t[i] = c[i]
      /\ \A i \in 1 .. Len(s) : t[Len(c) + i] = s[i]
  BY <1>1, <1>2, <1>3 DEF t
<1> SUFFICES ASSUME NEW i \in 1 .. Len(t)
             PROVE  /\ t[i][1] = i
                    /\ Pf!Prev(t[i]) = IF i = 1 THEN Pf!Block(0, "a") ELSE t[i - 1]
  BY DEF Linked, t
<1>5. CASE i <= Len(c)
  <2>1. i \in 1 .. Len(c) /\ t[i] = c[i] /\ (i # 1 => t[i - 1] = c[i - 1])
    BY <1>1, <1>4, <1>5
  <2> QED
    BY <2>1 DEF Linked
<1>6. CASE i = Len(c) + 1
  <2>1. t[i] = s[1] /\ s[1][1] = Len(c) + 1
    BY <1>1, <1>4, <1>6 DEF Numbered
  <2>2. Pf!TipOf(c) = IF i = 1 THEN Pf!Block(0, "a") ELSE t[i - 1]
    <3>1. CASE c = << >>
      BY <1>6, <3>1 DEF Pf!TipOf
    <3>2. CASE c # << >>
      <4>1. Len(c) # 0
        BY <3>2 DEF Chains
      <4>2. i # 1 /\ t[i - 1] = c[Len(c)]
        BY <1>1, <1>4, <1>6, <4>1
      <4> QED
        BY <3>2, <4>2 DEF Pf!TipOf
    <3> QED
      BY <3>1, <3>2
  <2> QED
    BY <1>6, <2>1, <2>2
<1>7. CASE i > Len(c) + 1
  <2>1. i - Len(c) \in 2 .. Len(s) /\ i - Len(c) - 1 \in 1 .. Len(s) /\ i - Len(c) \in 1 .. Len(s) /\ i # 1
    BY <1>1, <1>4, <1>7
  <2>2. t[i] = s[i - Len(c)] /\ t[i - 1] = s[i - Len(c) - 1]
    <3>1. Len(c) + (i - Len(c)) = i /\ Len(c) + (i - Len(c) - 1) = i - 1
      BY <1>1, <1>4
    <3> QED
      BY <1>4, <2>1, <3>1
  <2>3. s[i - Len(c)][1] = Len(c) + (i - Len(c))
    BY <2>1 DEF Numbered
  <2> QED
    BY <1>1, <1>4, <2>1, <2>2, <2>3
<1> QED
  BY <1>1, <1>4, <1>5, <1>6, <1>7

LEMMA BackupLinks ==
    ASSUME NEW c \in Chains, Linked(c), NEW n \in 0 .. Len(c)
    PROVE  SubSeq(c, 1, n) \in Chains /\ Linked(SubSeq(c, 1, n)) /\ Len(SubSeq(c, 1, n)) = n
<1> DEFINE s == SubSeq(c, 1, n)
<1>1. s \in Chains /\ Len(s) = n /\ \A i \in 1 .. n : s[i] = c[i]
  BY DEF Chains
<1>2. Len(c) \in Nat
  BY DEF Chains
<1> HIDE DEF s
<1>3. Linked(s)
  BY <1>1, <1>2 DEF Linked
<1> QED
  BY <1>1, <1>3 DEF s

-----------------------------------------------------------------------------
\* The prefetcher's steps.
LEMMA PrefetchKeeps ==
    ASSUME Pf!PrefetcherAssumption, QueueInv, Pf!Prefetch
    PROVE  QueueInv'
<1>0. PrefetchTypes /\ Fetching /\ Queued /\ Linked(chain)
  BY DEF QueueInv
<1>a. daemon_height \in Nat /\ seen \in Nat /\ fetched_height \in Nat
  BY <1>0 DEF PrefetchTypes
<1>b. blocks \in Chains /\ hashes \in Chains /\ chain \in Chains /\ batch \in Chains
  BY <1>0 DEF PrefetchTypes
<1>1. CASE Pf!AskHeight \/ Pf!Begin \/ Pf!NothingToFetch \/ Pf!FetchFails
  <2>1. /\ UNCHANGED <<branch, daemon_height, fetched_height, blocks, chain, batch, bp, reorg_count>>
        /\ seen' \in {seen, daemon_height}
        /\ hashes' \in {hashes, << >>}
        /\ pf' # "blocks" /\ (pf' = "hashes" => semaphore' = "prefetcher")
    BY <1>1 DEF Pf!AskHeight, Pf!Begin, Pf!NothingToFetch, Pf!FetchFails, Pf!daemonVars
  <2>2. << >> \in Chains
    BY DEF Chains
  <2> QED
    BY <1>0, <2>1, <2>2 DEF QueueInv, PrefetchTypes, Fetching, Queued, Pf!height
<1>2. CASE Pf!FetchHashes
  <2>1. UNCHANGED <<branch, daemon_height, seen, fetched_height, blocks, chain, batch, bp, reorg_count>> /\ pf = "hashes"
    BY <1>2 DEF Pf!FetchHashes, Pf!daemonVars
  <2>2. CASE fetched_height + Pf!Wanted <= daemon_height
    <3> DEFINE W == Pf!Wanted
               s == [i \in 1 .. W |-> Pf!Best(fetched_height + i)]
    <3>1. hashes' = s /\ pf' = "blocks" /\ semaphore' = semaphore /\ W > 0
      BY <1>2, <2>2 DEF Pf!FetchHashes
    <3>0. W \in Nat
      BY <1>a, <3>1 DEF Pf!Wanted, Pf!Room, Pf!PrefetcherAssumption
    <3> HIDE DEF W
    <3>2. \A i \in 1 .. W : s[i] \in Nat \X {"a", "b"} /\ s[i][1] = fetched_height + i
      <4>1. \A i \in 1 .. W : fetched_height + i \in Nat
        BY <1>a, <3>0
      <4> QED
        BY <1>0, <4>1, BlockTyped DEF PrefetchTypes, Pf!Best
    <3>3. s \in Chains /\ Len(s) = W
      BY <3>0, <3>2 DEF Chains
    <3>4. Numbered(s, fetched_height) /\ semaphore = "prefetcher"
      BY <1>0, <2>1, <3>2, <3>3 DEF Numbered, Fetching
    <3> HIDE DEF s
    <3> QED
      BY <1>0, <2>1, <3>1, <3>3, <3>4 DEF QueueInv, PrefetchTypes, Fetching, Queued, Pf!height
  <2>3. CASE ~(fetched_height + Pf!Wanted <= daemon_height)
    <3>1. hashes' = hashes /\ pf' = "wait"
      BY <1>2, <2>3 DEF Pf!FetchHashes
    <3> QED
      BY <1>0, <2>1, <3>1 DEF QueueInv, PrefetchTypes, Fetching, Queued, Pf!height
  <2> QED
    BY <2>2, <2>3
<1>3. CASE Pf!FetchBlocks
  <2>1. /\ UNCHANGED <<branch, daemon_height, seen, chain, batch, bp, reorg_count>> /\ pf = "blocks"
        /\ blocks' = blocks \o hashes /\ fetched_height' = fetched_height + Len(hashes) /\ hashes' = << >>
        /\ pf' # "blocks" /\ (pf' = "hashes" => semaphore' = semaphore)
    BY <1>3 DEF Pf!FetchBlocks, Pf!daemonVars
  <2>2. Numbered(hashes, fetched_height) /\ semaphore = "prefetcher"
    BY <1>0, <2>1 DEF Fetching
  <2>3. /\ blocks' \in Chains /\ Len(blocks') = Len(blocks) + Len(hashes)
        /\ \A i \in 1 .. Len(blocks) : blocks'[i] = blocks[i]
        /\ \A i \in 1 .. Len(hashes) : blocks'[Len(blocks) + i] = hashes[i]
    BY <1>b, <2>1, ChainsJoin
  <2>4. Len(hashes) \in Nat /\ Len(blocks) \in Nat /\ Len(batch) \in Nat /\ Len(chain) \in Nat
    BY <1>b, ChainsJoin
  <2>0. fetched_height' \in Nat
    BY <1>a, <2>1, <2>4
  <2>5. ASSUME NEW n \in Nat, Numbered(blocks, n), fetched_height = n + Len(blocks)
        PROVE  Numbered(blocks', n)
    <3> SUFFICES ASSUME NEW i \in 1 .. Len(blocks') PROVE blocks'[i][1] = n + i
      BY DEF Numbered
    <3>1. CASE i <= Len(blocks)
      BY <2>3, <2>4, <2>5, <3>1 DEF Numbered
    <3>2. CASE i > Len(blocks)
      <4>1. i - Len(blocks) \in 1 .. Len(hashes) /\ Len(blocks) + (i - Len(blocks)) = i
        BY <2>3, <2>4, <3>2
      <4>2. blocks'[i] = hashes[i - Len(blocks)]
        BY <2>3, <4>1
      <4>3. hashes[i - Len(blocks)][1] = fetched_height + (i - Len(blocks))
        BY <2>2, <4>1 DEF Numbered
      <4> QED
        BY <2>4, <2>5, <4>2, <4>3
    <3> QED
      BY <2>3, <2>4, <3>1, <3>2
  <2>6. PrefetchTypes'
    <3>1. << >> \in Chains
      BY DEF Chains
    <3> QED
      BY <1>0, <1>a, <2>0, <2>1, <2>3, <3>1 DEF PrefetchTypes
  <2>7. Fetching'
    BY <2>1, <2>2 DEF Fetching
  <2>8. Queued'
    <3>1. CASE bp \in {"top", "wait", "reset done", "forced done"}
      <4>1. fetched_height = Len(chain) + Len(blocks) /\ Numbered(blocks, Len(chain))
        BY <1>0, <3>1 DEF Queued, Pf!height
      <4>2. Numbered(blocks', Len(chain))
        BY <2>4, <2>5, <4>1
      <4>3. fetched_height' = Len(chain) + Len(blocks')
        BY <1>a, <2>1, <2>3, <2>4, <4>1
      <4> QED
        BY <2>1, <3>1, <4>2, <4>3 DEF Queued, Pf!height
    <3>2. CASE bp = "advance"
      <4>1. fetched_height = (Len(chain) + Len(batch)) + Len(blocks) /\ Numbered(blocks, Len(chain) + Len(batch))
        BY <1>0, <3>2 DEF Queued, Pf!height
      <4>2. Numbered(blocks', Len(chain) + Len(batch))
        BY <2>4, <2>5, <4>1
      <4> QED
        BY <1>0, <1>a, <2>1, <2>3, <2>4, <3>2, <4>1, <4>2 DEF Queued, Pf!height
    <3> QED
      BY <2>1, <3>1, <3>2 DEF Queued
  <2> QED
    BY <1>0, <2>1, <2>6, <2>7, <2>8 DEF QueueInv
<1> QED
  BY <1>1, <1>2, <1>3 DEF Pf!Prefetch

\* The processor's steps.
LEMMA AdvanceKeeps ==
    ASSUME QueueInv, Pf!Advance
    PROVE  QueueInv'
<1>0. PrefetchTypes /\ Fetching /\ Queued /\ Linked(chain)
  BY DEF QueueInv
<1>a. daemon_height \in Nat /\ seen \in Nat /\ fetched_height \in Nat
  BY <1>0 DEF PrefetchTypes
<1>b. blocks \in Chains /\ chain \in Chains /\ batch \in Chains
  BY <1>0 DEF PrefetchTypes
<1>1. /\ bp = "advance" /\ batch' = << >>
      /\ UNCHANGED <<branch, daemon_height, seen, fetched_height, blocks, hashes, pf, semaphore, reorg_count>>
  BY DEF Pf!Advance, Pf!daemonVars, Pf!fetchVars
<1>2. /\ fetched_height = Len(chain) + Len(batch) + Len(blocks)
      /\ Numbered(batch, Len(chain)) /\ Numbered(blocks, Len(chain) + Len(batch))
  BY <1>0, <1>1 DEF Queued, Pf!height
<1>3. Fetching'
  BY <1>0, <1>1 DEF Fetching
<1>4. << >> \in Chains
  BY DEF Chains
<1>5. CASE batch = << >>
  <2>1. bp' = "top" /\ chain' = chain
    BY <1>5 DEF Pf!Advance
  <2>2. Len(batch) = 0 /\ Len(chain) \in Nat
    BY <1>b, <1>5, ChainsJoin
  <2>3. fetched_height = Len(chain) + Len(blocks) /\ Numbered(blocks, Len(chain))
    BY <1>2, <2>2
  <2>4. Queued'
    BY <1>1, <2>1, <2>3 DEF Queued, Pf!height
  <2>5. PrefetchTypes'
    BY <1>0, <1>1, <1>4, <2>1 DEF PrefetchTypes
  <2> QED
    BY <1>0, <1>3, <2>1, <2>4, <2>5 DEF QueueInv
<1>6. CASE batch # << >> /\ (~Pf!Follows(chain) \/ ~Pf!Chained)
  <2>1. bp' \in {"reorg", "reset"} /\ chain' = chain
    BY <1>6 DEF Pf!Advance
  <2>2. Queued'
    BY <2>1 DEF Queued
  <2>3. PrefetchTypes'
    BY <1>0, <1>1, <1>4, <2>1 DEF PrefetchTypes
  <2> QED
    BY <1>0, <1>3, <2>1, <2>2, <2>3 DEF QueueInv
<1>7. CASE batch # << >> /\ Pf!Follows(chain) /\ Pf!Chained
  <2>1. bp' = "top" /\ chain' = chain \o batch
    BY <1>7 DEF Pf!Advance
  <2>2. chain' \in Chains /\ Len(chain') = Len(chain) + Len(batch)
    BY <1>b, <2>1, ChainsJoin
  <2>3. Linked(chain')
    <3>1. Pf!Prev(batch[1]) = Pf!TipOf(chain) /\ \A i \in 2 .. Len(batch) : Pf!Prev(batch[i]) = batch[i - 1]
      BY <1>7 DEF Pf!Follows, Pf!Chained
    <3> QED
      BY <1>0, <1>b, <1>2, <1>7, <2>1, <3>1, ChainLinks
  <2>4. Queued'
    BY <1>1, <1>2, <2>1, <2>2 DEF Queued, Pf!height
  <2>5. PrefetchTypes'
    BY <1>0, <1>1, <1>4, <2>1, <2>2 DEF PrefetchTypes
  <2> QED
    BY <1>3, <2>3, <2>4, <2>5 DEF QueueInv
<1> QED
  BY <1>5, <1>6, <1>7

LEMMA TakeKeeps ==
    ASSUME QueueInv, Pf!TakeBlocks
    PROVE  QueueInv'
<1>0. PrefetchTypes /\ Fetching /\ Queued /\ Linked(chain)
  BY DEF QueueInv
<1>b. blocks \in Chains /\ chain \in Chains /\ batch \in Chains
  BY <1>0 DEF PrefetchTypes
<1>1. /\ bp = "wait"
      /\ UNCHANGED <<branch, daemon_height, seen, fetched_height, chain, hashes, pf, semaphore, reorg_count>>
  BY DEF Pf!TakeBlocks, Pf!daemonVars, Pf!fetchVars
<1>2. fetched_height = Len(chain) + Len(blocks) /\ Numbered(blocks, Len(chain))
  BY <1>0, <1>1 DEF Queued, Pf!height
<1>3. Fetching' /\ Linked(chain')
  BY <1>0, <1>1 DEF Fetching
<1>4. << >> \in Chains /\ Len(<< >>) = 0
  BY DEF Chains
<1>5. CASE reorg_count > 0
  <2>1. bp' = "forced" /\ UNCHANGED <<blocks, batch>>
    BY <1>5 DEF Pf!TakeBlocks
  <2>2. Queued'
    BY <2>1 DEF Queued
  <2>3. PrefetchTypes'
    BY <1>0, <1>1, <2>1 DEF PrefetchTypes
  <2> QED
    BY <1>3, <2>2, <2>3 DEF QueueInv
<1>6. CASE ~(reorg_count > 0)
  <2>1. bp' = "advance" /\ batch' = blocks /\ blocks' = << >>
    BY <1>6 DEF Pf!TakeBlocks, Pf!Taken
  <2>2. Len(blocks) \in Nat /\ Len(chain) \in Nat
    BY <1>b, ChainsJoin
  <2>3. fetched_height' = Len(chain') + Len(batch') + Len(blocks')
    BY <1>1, <1>2, <1>4, <2>1, <2>2
  <2>4. Numbered(blocks', Len(chain') + Len(batch'))
    BY <1>4, <2>1 DEF Numbered
  <2>5. Queued'
    BY <1>1, <1>2, <2>1, <2>3, <2>4 DEF Queued, Pf!height
  <2>6. PrefetchTypes'
    BY <1>0, <1>1, <1>4, <2>1 DEF PrefetchTypes
  <2> QED
    BY <1>3, <2>5, <2>6 DEF QueueInv
<1> QED
  BY <1>5, <1>6

\* A non-empty set of numbers up to n has a greatest.
LEMMA GreatestOf ==
    ASSUME NEW n \in Nat, NEW S, S \subseteq 0 .. n, S # {}
    PROVE  (CHOOSE k \in S : \A m \in S : m <= k) \in S
<1> DEFINE T == { k \in Nat : \A i \in S : i <= k }
<1>1. n \in T
  OBVIOUS
<1>2. \E k \in T : \A m \in T : ~(<<m, k>> \in OpToRel(<, Nat))
  <2> HIDE DEF T
  <2>1. T \in SUBSET Nat
    BY DEF T
  <2> QED
    BY <1>1, <2>1, NatLessThanWellFounded, WFMin
<1>3. PICK k \in T : \A m \in T : ~(m < k)
  BY <1>2 DEF OpToRel
<1>4. k \in S
  <2> SUFFICES ASSUME k \notin S PROVE FALSE
    OBVIOUS
  <2>0. PICK i \in S : TRUE
    OBVIOUS
  <2>1. k # 0 /\ k \in Nat /\ \A j \in S : j < k
    BY <2>0
  <2>2. k - 1 \in T
    BY <2>1
  <2> QED
    BY <1>3, <2>1, <2>2
<1>5. \E h \in S : \A i \in S : i <= h
  BY <1>4
<1> QED
  BY <1>5

LEMMA ReorgKeeps ==
    ASSUME QueueInv, Pf!ReorgChain
    PROVE  QueueInv'
<1>0. PrefetchTypes /\ Fetching /\ Queued /\ Linked(chain)
  BY DEF QueueInv
<1>b. chain \in Chains /\ Len(chain) \in Nat
  BY <1>0, ChainsJoin DEF PrefetchTypes
<1>c. reorg_count \in Nat
  BY <1>0 DEF PrefetchTypes
<1>1. UNCHANGED <<branch, daemon_height, seen, fetched_height, blocks, batch, hashes, pf, semaphore, reorg_count>>
  BY DEF Pf!ReorgChain, Pf!daemonVars, Pf!fetchVars
<1>2. bp' \in {"forced reset", "failed", "reset"}
  BY DEF Pf!ReorgChain
<1>3. Queued' /\ Fetching'
  BY <1>0, <1>1, <1>2 DEF Queued, Fetching
<1>4. chain' = chain \/ \E n \in 0 .. Len(chain) : chain' = SubSeq(chain, 1, n)
  <2>1. CASE bp = "forced"
    <3>1. chain' = SubSeq(chain, 1, IF reorg_count < Len(chain) THEN Len(chain) - reorg_count ELSE 0)
      BY <2>1 DEF Pf!ReorgChain, Pf!Backup, Pf!height
    <3>2. (IF reorg_count < Len(chain) THEN Len(chain) - reorg_count ELSE 0) \in 0 .. Len(chain)
      BY <1>b, <1>c
    <3> QED
      BY <3>1, <3>2
  <2>2. CASE bp # "forced"
    <3>1. chain' = chain \/ chain' = SubSeq(chain, 1, Pf!Common)
      BY <2>2 DEF Pf!ReorgChain, Pf!Backup
    <3>2. 0 \in Pf!Agreed /\ Pf!Agreed \subseteq 0 .. Len(chain)
      BY <1>b DEF Pf!Agreed, Pf!height
    <3>3. Pf!Common \in 0 .. Len(chain)
      BY <1>b, <3>2, GreatestOf DEF Pf!Common
    <3> QED
      BY <3>1, <3>3
  <2> QED
    BY <2>1, <2>2
<1>5. chain' \in Chains /\ Linked(chain')
  BY <1>0, <1>b, <1>4, BackupLinks
<1>6. PrefetchTypes'
  BY <1>0, <1>1, <1>2, <1>5 DEF PrefetchTypes
<1> QED
  BY <1>3, <1>5, <1>6 DEF QueueInv

\* The reset waits until nothing is being fetched, so that what is fetched after it
\* follows the height it sets.
LEMMA ResetKeeps ==
    ASSUME QueueInv, Pf!ResetHeight
    PROVE  QueueInv'
<1>0. PrefetchTypes /\ Fetching /\ Linked(chain)
  BY DEF QueueInv
<1>1. /\ blocks' = << >> /\ fetched_height' = Len(chain) /\ bp' \in {"reset done", "forced done"}
      /\ semaphore = "free"
      /\ UNCHANGED <<branch, daemon_height, seen, reorg_count, chain, batch, hashes, pf, semaphore>>
  BY DEF Pf!ResetHeight, Pf!ResetUnder, Pf!height, Pf!daemonVars, Pf!fetchVars
<1>2. << >> \in Chains /\ Len(<< >>) = 0
  BY DEF Chains
<1>3. chain \in Chains /\ Len(chain) \in Nat
  BY <1>0, ChainsJoin DEF PrefetchTypes
<1>4. pf \notin {"hashes", "blocks"}
  BY <1>0, <1>1 DEF Fetching
<1>5. Fetching'
  BY <1>1, <1>4 DEF Fetching
<1>6. Numbered(blocks', Len(chain')) /\ fetched_height' = Len(chain') + Len(blocks')
  <2>1. Len(blocks') = 0 /\ chain' = chain
    BY <1>1, <1>2
  <2>2. Numbered(blocks', Len(chain'))
    BY <2>1 DEF Numbered
  <2>3. fetched_height' = Len(chain)
    BY <1>1
  <2>4. Len(chain) + 0 = Len(chain)
    BY <1>3
  <2>5. fetched_height' = Len(chain') + Len(blocks')
    BY <2>1, <2>3, <2>4
  <2> QED
    BY <2>2, <2>5
<1>7. Queued'
  BY <1>1, <1>6 DEF Queued, Pf!height
<1>8. PrefetchTypes'
  BY <1>0, <1>1, <1>2, <1>3 DEF PrefetchTypes
<1> QED
  BY <1>0, <1>1, <1>5, <1>7, <1>8 DEF QueueInv

LEMMA OtherStepsKeep ==
    ASSUME Pf!PrefetcherAssumption, QueueInv,
           \/ Pf!Top \/ Pf!ResetDone \/ Pf!ForceChainReorg
           \/ \E h \in 1 .. MaxHeight, b \in {"a", "b"} : Pf!NewBest(h, b) \/ Pf!Failover(h, b)
    PROVE  QueueInv'
<1>0. PrefetchTypes /\ Fetching /\ Queued /\ Linked(chain)
  BY DEF QueueInv
<1>1. UNCHANGED <<fetched_height, blocks, chain, batch, hashes, pf, semaphore, seen>>
  BY DEF Pf!Top, Pf!ResetDone, Pf!ForceChainReorg, Pf!NewBest, Pf!Failover, Pf!fetchVars
<1>2. CASE Pf!Top \/ Pf!ResetDone
  <2>1. /\ UNCHANGED <<branch, daemon_height>> /\ reorg_count' \in {0, reorg_count}
        /\ bp \in {"top", "reset done", "forced done"} /\ bp' \in {"top", "wait"}
    BY <1>2 DEF Pf!Top, Pf!ResetDone, Pf!daemonVars
  <2>2. PrefetchTypes'
    <3>1. reorg_count \in Nat
      BY <1>0 DEF PrefetchTypes
    <3>2. reorg_count' = 0 \/ reorg_count' = reorg_count
      BY <1>2 DEF Pf!Top, Pf!ResetDone
    <3>3. reorg_count' \in Nat
      BY <3>1, <3>2
    <3> QED
      BY <1>0, <1>1, <2>1, <3>3 DEF PrefetchTypes
  <2>3. Queued'
    BY <1>0, <1>1, <2>1 DEF Queued, Pf!height
  <2> QED
    BY <1>0, <1>1, <2>2, <2>3 DEF QueueInv, Fetching
<1>3. CASE Pf!ForceChainReorg
  <2>1. UNCHANGED <<branch, daemon_height, bp>> /\ reorg_count' = 1
    BY <1>3 DEF Pf!ForceChainReorg, Pf!daemonVars
  <2>2. PrefetchTypes'
    BY <1>0, <1>1, <2>1 DEF PrefetchTypes
  <2> QED
    BY <1>0, <1>1, <2>1, <2>2 DEF QueueInv, Fetching, Queued, Pf!height
<1>4. ASSUME NEW h \in 1 .. MaxHeight, NEW b \in {"a", "b"}, Pf!NewBest(h, b) \/ Pf!Failover(h, b)
      PROVE  QueueInv'
  <2>1. daemon_height' = h /\ branch' = b /\ UNCHANGED <<bp, reorg_count>>
    BY <1>4 DEF Pf!NewBest, Pf!Failover
  <2>2. h \in Nat
    BY DEF Pf!PrefetcherAssumption
  <2>3. PrefetchTypes'
    BY <1>0, <1>1, <2>1, <2>2 DEF PrefetchTypes
  <2> QED
    BY <1>0, <1>1, <2>1, <2>3 DEF QueueInv, Fetching, Queued, Pf!height
<1> QED
  BY <1>2, <1>3, <1>4

LEMMA QueueStart ==
    ASSUME Pf!PrefetcherAssumption, Pf!Init
    PROVE  QueueInv
<1>1. /\ branch \in {"a", "b"} /\ daemon_height = DaemonStart /\ blocks = << >> /\ fetched_height = Start
      /\ semaphore = "free" /\ pf = "wait" /\ seen = 0 /\ hashes = << >> /\ bp = "top"
      /\ chain = [h \in 1 .. Start |-> Pf!Block(h, "a")] /\ batch = << >> /\ reorg_count = 0
  BY DEF Pf!Init
<1>2. Start \in Nat /\ DaemonStart \in Nat /\ Fork \in Nat
  BY DEF Pf!PrefetcherAssumption
<1>3. << >> \in Chains /\ Len(<< >>) = 0
  BY DEF Chains
<1> DEFINE c == [h \in 1 .. Start |-> Pf!Block(h, "a")]
<1>4. c \in Chains /\ Len(c) = Start /\ \A h \in 1 .. Start : c[h] = Pf!Block(h, "a")
  BY <1>2, BlockTyped DEF Chains
<1> HIDE DEF c
<1>5. \A h \in Nat : Pf!Block(h, "a") = <<h, "a">>
  BY DEF Pf!Block
<1>6. Linked(c)
  <2> SUFFICES ASSUME NEW i \in 1 .. Start
               PROVE  c[i][1] = i /\ Pf!Prev(c[i]) = IF i = 1 THEN Pf!Block(0, "a") ELSE c[i - 1]
    BY <1>4 DEF Linked
  <2>1. i \in Nat /\ i - 1 \in Nat /\ (i # 1 => i - 1 \in 1 .. Start)
    BY <1>2
  <2>2. c[i] = <<i, "a">>
    BY <1>4, <1>5, <2>1
  <2>3. Pf!Prev(c[i]) = Pf!Block(i - 1, "a")
    BY <2>2 DEF Pf!Prev
  <2> QED
    BY <1>4, <2>1, <2>2, <2>3
<1>7. PrefetchTypes
  BY <1>1, <1>2, <1>3, <1>4 DEF PrefetchTypes, c
<1>8. Queued
  BY <1>1, <1>2, <1>3, <1>4 DEF Queued, Numbered, Pf!height, c
<1>9. Fetching
  BY <1>1 DEF Fetching
<1> QED
  BY <1>1, <1>6, <1>7, <1>8, <1>9 DEF QueueInv, c

\* Prefetcher, _process_prefetched_blocks: for chains, caches and branches of every size and
\* however often the daemon reorganises, fails over or a reorganisation is forced, blocks
\* wait in the order of the chain, and what was processed is one chain.
THEOREM QueueInOrder ==
    ASSUME Pf!PrefetcherAssumption
    PROVE  Pf!Spec => [](Pf!QueueFollowsChain /\ Linked(chain))
<1>1. Pf!Init => QueueInv
  BY QueueStart
<1>2. QueueInv /\ [Pf!Next]_(Pf!vars) => QueueInv'
  <2> SUFFICES ASSUME QueueInv, [Pf!Next]_(Pf!vars) PROVE QueueInv'
    OBVIOUS
  <2>1. CASE UNCHANGED Pf!vars
    BY <2>1 DEF Pf!vars, Pf!daemonVars, Pf!fetchVars, QueueInv, PrefetchTypes, Fetching, Queued, Pf!height
  <2>2. CASE Pf!Next
    BY <2>2, PrefetchKeeps, TakeKeeps, AdvanceKeeps, ReorgKeeps, ResetKeeps, OtherStepsKeep
       DEF Pf!Next, Pf!Process
  <2> QED
    BY <2>1, <2>2
<1>3. QueueInv => Pf!QueueFollowsChain /\ Linked(chain)
  BY DEF QueueInv, Queued, Numbered, Pf!QueueFollowsChain
<1> QED
  BY <1>1, <1>2, <1>3, PTL DEF Pf!Spec

-----------------------------------------------------------------------------
(* The padded transport.                                                    *)

BufferInv ==
    /\ written \in Seq(Sizes) /\ wire \in Seq(Sizes) /\ sbuffer \in Seq(Sizes)
    /\ wire \o sbuffer = written

\* A packet takes some messages from the front of the buffer.
LEMMA PacketTakes ==
    ASSUME NEW buf \in Seq(Sizes)
    PROVE  Tp!Packet(buf).count \in 0 .. Len(buf)
<1>1. Len(buf) \in Nat
  OBVIOUS
<1>2. ASSUME NEW size PROVE Tp!Fitting(buf, size) \in 0 .. Len(buf)
  <2> DEFINE ends == {k \in 1 .. Len(buf) : Tp!Size(SubSeq(buf, 1, k)) <= size}
  <2>1. ends \subseteq 1 .. Len(buf)
    OBVIOUS
  <2>2. Tp!Fitting(buf, size) = IF ends = {} THEN 0 ELSE CHOOSE k \in ends : \A n \in ends : n <= k
    BY DEF Tp!Fitting
  <2> HIDE DEF ends
  <2>3. ends # {} => (CHOOSE k \in ends : \A n \in ends : n <= k) \in 1 .. Len(buf)
    <3>1. ends \subseteq 0 .. Len(buf)
      BY <1>1, <2>1
    <3> QED
      BY <1>1, <2>1, <3>1, GreatestOf
  <2> QED
    BY <1>1, <2>2, <2>3
<1> QED
  BY <1>1, <1>2 DEF Tp!Packet

LEMMA RejoinedAt ==
    ASSUME NEW S, NEW s \in Seq(S), NEW n \in 0 .. Len(s)
    PROVE  SubSeq(s, 1, n) \o SubSeq(s, n + 1, Len(s)) = s
<1>1. /\ Len(s) \in Nat /\ 1 \in 1 .. Len(s) + 1 /\ n \in 1 - 1 .. Len(s)
      /\ Len(s) \in n .. Len(s)
  OBVIOUS
<1>2. SubSeq(s, 1, n) \o SubSeq(s, n + 1, Len(s)) = SubSeq(s, 1, Len(s))
  BY <1>1, ConcatAdjacentSubSeq
<1> QED
  BY <1>2, SubSeqFull

LEMMA ConsumeKeeps ==
    ASSUME NEW buf \in Seq(Sizes), NEW evt, wire \in Seq(Sizes), Tp!MaybeConsume(buf, evt)
    PROVE  wire' \in Seq(Sizes) /\ sbuffer' \in Seq(Sizes) /\ wire' \o sbuffer' = wire \o buf
<1>1. CASE sbuffer' = buf /\ wire' = wire
  BY <1>1
<1>2. CASE ~(sbuffer' = buf /\ wire' = wire)
  <2>1. PICK p \in {Tp!Packet(buf)} : /\ wire' = wire \o SubSeq(buf, 1, p.count)
                                      /\ sbuffer' = SubSeq(buf, p.count + 1, Len(buf))
    BY <1>2 DEF Tp!MaybeConsume, Tp!Left
  <2> DEFINE n == p.count
  <2>2. n \in 0 .. Len(buf) /\ Len(buf) \in Nat
    BY PacketTakes
  <2> HIDE DEF n
  <2> DEFINE front == SubSeq(buf, 1, n)
             back == SubSeq(buf, n + 1, Len(buf))
  <2>3. wire' = wire \o front /\ sbuffer' = back
    BY <2>1 DEF n
  <2>4. /\ front \in Seq(Sizes) /\ Len(front) = n /\ \A i \in 1 .. n : front[i] = buf[i]
        /\ back \in Seq(Sizes) /\ Len(back) = Len(buf) - n /\ \A i \in 1 .. Len(buf) - n : back[i] = buf[n + i]
    BY <2>2
  <2> HIDE DEF front, back
  <2>5. front \o back = buf
    BY <2>2, RejoinedAt DEF front, back
  <2>6. (wire \o front) \o back = wire \o (front \o back)
    BY <2>4
  <2> QED
    BY <2>3, <2>4, <2>5, <2>6
<1> QED
  BY <1>1, <1>2

\* PaddedRSTransport: what was handed to the socket, followed by what waits in the buffer,
\* is what was written, whatever the sizes and whenever sending is paused.
THEOREM NoMessageLost == Tp!Spec => []Tp!NothingLost
<1>1. Tp!Init => BufferInv
  BY DEF Tp!Init, BufferInv
<1>2. BufferInv /\ [Tp!Next]_(Tp!vars) => BufferInv'
  <2> SUFFICES ASSUME BufferInv, [Tp!Next]_(Tp!vars) PROVE BufferInv'
    OBVIOUS
  <2>1. ASSUME NEW m \in Sizes, Tp!Write(m) PROVE BufferInv'
    <3>1. written' = Append(written, m) /\ Tp!MaybeConsume(Append(sbuffer, m), TRUE)
      BY <2>1 DEF Tp!Write
    <3>2. Append(sbuffer, m) \in Seq(Sizes) /\ Append(written, m) \in Seq(Sizes)
      BY DEF BufferInv
    <3>3. wire' \in Seq(Sizes) /\ sbuffer' \in Seq(Sizes) /\ wire' \o sbuffer' = wire \o Append(sbuffer, m)
      BY <3>1, <3>2, ConsumeKeeps DEF BufferInv
    <3>4. wire \o Append(sbuffer, m) = Append(wire \o sbuffer, m)
      BY DEF BufferInv
    <3> QED
      BY <3>1, <3>2, <3>3, <3>4 DEF BufferInv
  <2>2. CASE Tp!PollHasData
    <3>1. written' = written /\ Tp!MaybeConsume(sbuffer, has_data_evt)
      BY <2>2 DEF Tp!PollHasData
    <3> QED
      BY <3>1, ConsumeKeeps DEF BufferInv
  <2>3. CASE \/ Tp!PollEnds \/ Tp!PollCanSend \/ Tp!PollWakes \/ Tp!SecondPasses
             \/ Tp!PauseWriting \/ Tp!ResumeWriting \/ Tp!Close \/ UNCHANGED Tp!vars
    <3>1. UNCHANGED <<written, wire, sbuffer>>
      BY <2>3 DEF Tp!PollEnds, Tp!PollCanSend, Tp!PollWakes, Tp!SecondPasses, Tp!PauseWriting,
                  Tp!ResumeWriting, Tp!Close, Tp!vars
    <3> QED
      BY <3>1 DEF BufferInv
  <2> QED
    BY <2>1, <2>2, <2>3 DEF Tp!Next, Tp!Poll
<1>3. BufferInv => Tp!NothingLost
  BY DEF BufferInv, Tp!NothingLost
<1> QED
  BY <1>1, <1>2, <1>3, PTL DEF Tp!Spec

=============================================================================
