------------------------------- MODULE Decred -------------------------------
(***************************************************************************)
(* Decred's blocks vote on the block below them: a vote against it removes    *)
(* its regular transactions.  DecredDaemon (server/daemon.py) hides the tip,  *)
(* whose vote is not known yet, and strips the blocks that were voted down;   *)
(* DecredBlockProcessor (server/block_processor.py) backs up one block more   *)
(* in a reorganisation.                                                       *)
(*                                                                          *)
(* A block is the sequence of the votes up to it: its last element is its     *)
(* vote on its parent, which is the block without that element.  Blocks at    *)
(* one place that vote alike are one block here.  The genesis block is <<>>.  *)
(***************************************************************************)
EXTENDS Integers, Sequences, SequencesExt

CONSTANTS
    MaxHeight,   \* the daemon's chain
    MaxFetch,    \* coin.max_fetch_blocks
    Races        \* whether the daemon reorganises before the server has followed it

DecredAssumption ==
    MaxHeight \in Nat /\ MaxFetch \in Nat \ {0} /\ Races \in BOOLEAN

VARIABLES
    best,      \* the daemon's tip
    tip,       \* the block processor's tip
    trees,     \* trees[h]: whether block h was advanced with its regular transactions
    hashes,    \* hashes whose blocks are being fetched
    blocks,    \* prefetched: [block, valid]
    fetched    \* fetched_height

vars == <<best, tip, trees, hashes, blocks, fetched>>

Min2(a, b) == IF a < b THEN a ELSE b
height == Len(tip)
At(b, h) == SubSeq(b, 1, h)

\* Mutant of daemon_height: the daemon's own height.
HonestHeight == Len(best)

\* DecredDaemon.height: the tip may yet be invalidated.
daemon_height == IF Len(best) > 0 THEN Len(best) - 1 ELSE 0

Init == /\ best = <<>> /\ tip = <<>> /\ trees = <<>>
        /\ hashes = <<>> /\ blocks = <<>> /\ fetched = 0

----------------------------------------------------------------------------
(* The daemon *)

CaughtUp == height = daemon_height /\ IsPrefix(tip, best) /\ hashes = <<>> /\ blocks = <<>>

\* The daemon finds a longer chain.  Unless Races, one that leaves its old chain does so
\* when the server has followed it, and replaces the server's tip.
NewBest(b) ==
    /\ Len(b) > Len(best)
    /\ Races \/ IsPrefix(best, b) \/ (CaughtUp /\ ~IsPrefix(tip, b))
    /\ best' = b
    /\ UNCHANGED <<tip, trees, hashes, blocks, fetched>>

----------------------------------------------------------------------------
(* The prefetcher *)

\* _prefetch_blocks asks for the next hashes.
GetHashes ==
    /\ hashes = <<>>
    /\ LET count == Min2(daemon_height - fetched, MaxFetch)
       IN  count > 0 /\ hashes' = [i \in 1 .. count |-> At(best, fetched + i)]
    /\ UNCHANGED <<best, tip, trees, blocks, fetched>>

\* getblockheader of the last block, for its nextblockhash: a tip or a block off the best
\* chain has none.
NextKnown(b) == IsPrefix(b, best) /\ b # best

\* is_valid_tx_tree of the vote in the block that follows.
is_valid_tx_tree(b) == Last(b)

\* raw_blocks: the next block of the batch says whether a block is valid; for the last
\* block the daemon is asked what follows.
raw_blocks ==
    /\ hashes # <<>>
    /\ IF NextKnown(Last(hashes))
       THEN /\ blocks' = blocks \o [i \in DOMAIN hashes |->
                  [block |-> hashes[i],
                   valid |-> is_valid_tx_tree(IF i < Len(hashes) THEN hashes[i + 1]
                                              ELSE At(best, Len(hashes[i]) + 1))]]
            /\ fetched' = fetched + Len(hashes)
       ELSE UNCHANGED <<blocks, fetched>>
    /\ hashes' = <<>>
    /\ UNCHANGED <<best, tip, trees>>

----------------------------------------------------------------------------
(* The block processor *)

Connects == \A i \in DOMAIN blocks : Front(blocks[i].block) = IF i = 1 THEN tip ELSE blocks[i - 1].block

ResetHeight(h) == hashes' = <<>> /\ blocks' = <<>> /\ fetched' = h

AdvanceBlocks ==
    /\ blocks # <<>> /\ Connects
    /\ tip' = Last(blocks).block
    /\ trees' = trees \o [i \in DOMAIN blocks |-> blocks[i].valid]
    /\ blocks' = <<>>
    /\ UNCHANGED <<best, hashes, fetched>>

\* Hashes the two chains share from start on.
diff_pos(start, count) ==
    LET same == {n \in 0 .. count : \A i \in start .. start + n - 1 : At(tip, i) = At(best, i)}
    IN  CHOOSE n \in same : \A m \in same : m <= n

\* BlockProcessor.calc_reorg_range: the first block to back up.
BaseStart ==
    LET from[start \in 0 .. height] == [count \in 1 .. height |->
            IF start = 0 THEN 0
            ELSE LET n == diff_pos(start, count)
                     more == Min2(count * 2, start)
                 IN  IF n > 0 THEN start + n ELSE from[start - more][more]]
    IN  from[height - 1][1]

\* Mutant of calc_reorg_range: the range of other coins.
RangeOfOthers == BaseStart

\* A reorg in Decred can invalidate the previous block.
calc_reorg_range == IF BaseStart > 0 THEN BaseStart - 1 ELSE BaseStart

\* reorg_chain; the blocks are backed up as they were advanced (read_raw_block).  The
\* genesis block has no transactions: backed up, it is fetched again.
ReorgChain ==
    /\ blocks # <<>> /\ Front(blocks[1].block) # tip
    /\ LET kept == IF calc_reorg_range > 0 THEN calc_reorg_range - 1 ELSE 0
       IN  /\ tip' = At(tip, kept)
           /\ trees' = SubSeq(trees, 1, kept)
           /\ ResetHeight(kept)
    /\ UNCHANGED best

\* Batches fetched on either side of a reorganisation of the daemon do not connect.
NotAChain ==
    /\ blocks # <<>> /\ Front(blocks[1].block) = tip /\ ~Connects
    /\ ResetHeight(height)
    /\ UNCHANGED <<best, tip, trees>>

Next == \/ \E b \in SeqOf(BOOLEAN, MaxHeight) : NewBest(b)
        \/ GetHashes \/ raw_blocks
        \/ AdvanceBlocks \/ ReorgChain \/ NotAChain

Work == GetHashes \/ raw_blocks \/ AdvanceBlocks \/ ReorgChain \/ NotAChain

\* The prefetcher polls the daemon and the block processor takes what it fetched.
Spec == Init /\ [][Next]_vars /\ WF_vars(Work)

----------------------------------------------------------------------------
\* A block that the daemon's chain holds was advanced with its regular transactions
\* exactly if the block after it votes for it.
TreesFollowVotes ==
    IsPrefix(tip, best) /\ tip # best => \A h \in 1 .. height : trees[h] = best[h + 1]

\* Whatever the daemon does on the way, the server ends up just below its tip: no
\* batch is refused for ever because the block after it is not known.
CatchesUp == <>[]CaughtUp
=============================================================================
