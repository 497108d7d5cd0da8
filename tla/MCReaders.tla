------------------------------ MODULE MCReaders ------------------------------
(***************************************************************************)
(* What requests read while blocks come and go, and the caches they fill:   *)
(* the databases beside a flush, the merkle cache of the headers, and the   *)
(* size-bounded cache.  They share no state; `part' says which one a        *)
(* behaviour is about, the others stay as they began.                       *)
(***************************************************************************)
EXTENDS Integers, Sequences, FiniteSets

CONSTANTS
    Parts,
    Blocks, Genesis, A, NoOne, Comp(_), MaxReorgs,   \* those of DBReaders
    Key, maxsize, MaxValue                           \* those of LRUCache

VARIABLES
    part,
    chain, hashes_file, hist_at, utxos_at, disk, bp, reorgs, r, snaps, txids_cache, reorg_count,
    header_chain, backing_up, length, level, depth_higher, initialized, req, header_reorgs,
    data, order, currsize, newer

readers == <<chain, hashes_file, hist_at, utxos_at, disk, bp, reorgs, r, snaps,
             txids_cache, reorg_count>>
merkle == <<header_chain, backing_up, length, level, depth_higher, initialized, req, header_reorgs>>
lru == <<data, order, currsize, newer>>

\* Two branches of two blocks.  The second branch has a transaction of a
\* stranger where the first has one of the address.
Tx(id, to, value, spends) == [id |-> id, to |-> to, value |-> value, spends |-> spends]
MCGenesis == <<Tx("g", "A", 5, "none")>>
MCBlocks == <<
    { <<Tx("a1", "A", 1, "none"), Tx("a2", "B", 5, "g")>>, <<Tx("b1", "B", 2, "none")>> },
    { <<Tx("a3", "A", 3, "none")>>, <<Tx("b2", "A", 4, "none"), Tx("b3", "B", 5, "none")>> } >>
\* Two transaction ids with the same first bytes.
MCComp(id) == IF id \in {"a1", "a3"} THEN "a" ELSE id

\* Reading histories and coins while blocks are added; the cache of
\* transaction hashes with reorganisations.
Rd == INSTANCE DBReaders WITH Kinds <- {"history", "utxos", "lookup"}, MaxReorgs <- 0
Txids == INSTANCE DBReaders WITH Kinds <- {"txids"}

Mc == INSTANCE MerkleCache WITH
    Client <- {"c1"}, MaxLength <- 5, Blocks <- 2, MaxReorgs <- 1, ReorgLimit <- 2,
    Quiesced <- TRUE, chain <- header_chain, reorgs <- header_reorgs

Lru == INSTANCE LRUCache

ASSUME ReadingAssumption ==
    Rd!ReadersAssumption /\ Txids!ReadersAssumption /\ Mc!MerkleCacheAssumption /\ Lru!LRUCacheAssumption

-----------------------------------------------------------------------------
Init == /\ part \in Parts
        /\ Rd!Init
        /\ Mc!Init /\ (part # "merkle" => Len(header_chain) = 1)
        /\ Lru!Init

Next == /\ UNCHANGED part
        /\ \/ part = "readers" /\ Rd!Next /\ UNCHANGED <<merkle, lru>>
           \/ part = "txids" /\ Txids!Next /\ UNCHANGED <<merkle, lru>>
           \/ part = "merkle" /\ Mc!Next /\ UNCHANGED <<readers, lru>>
           \/ part = "lru" /\ Lru!Next /\ UNCHANGED <<readers, merkle>>

\* The fairness of DBReaders: threads run to their end, and what was advanced
\* is flushed.
Fairness ==
    /\ WF_readers(part = "readers" /\ Rd!FlushFs)
    /\ WF_readers(part = "readers" /\ Rd!FlushHistory)
    /\ WF_readers(part = "readers" /\ Rd!SetState)
    /\ WF_readers(part = "readers" /\ Rd!CommitBatch)
    /\ WF_readers(part = "readers" /\ Rd!ReorgSignalled)
    /\ WF_readers(part = "readers" /\ Rd!Read)

Spec == Init /\ [][Next]_<<part, readers, merkle, lru>> /\ Fairness

-----------------------------------------------------------------------------
\* limited_history, all_utxos, lookup_utxos: while blocks are only added, what a
\* request reads in its thread was true while it ran.
ReadsConsistent == part = "readers" => Rd!ReadsConsistent

\* limited_history starts over, but not for ever: a request is answered.
RequestsAnswered == part = "readers" => Rd!RequestsAnswered

\* tx_hashes_at_blockheight: outside a reorganisation the cached hashes are
\* those of the block now at the height.
TxidsFresh == part = "txids" => Txids!TxidsFresh

\* MerkleCache: the cached level and the proofs sent are those of the headers.
ProofsRight == Mc!ProofsRight

\* LRUCache: within its size, and the least recently used keys go first.
CacheRight == Lru!CacheRight
=============================================================================
