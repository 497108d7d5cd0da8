----------------------------- MODULE MerkleCache -----------------------------
(***************************************************************************)
(* The cache of one level of the header tree (class MerkleCache), used by  *)
(* concurrent requests for header proofs while the block processor extends *)
(* the chain and truncates it in a reorganisation.  Every await of         *)
(* source_func is a point where others run.                                *)
(*                                                                         *)
(* Before it, the tree algorithms of lib/merkle.py on symbolic hashes: a   *)
(* leaf is a 1-tuple and hash_func(l + r) is the pair <<l, r>>, so that    *)
(* two hashes are equal exactly when the hashed data are.                  *)
(***************************************************************************)
EXTENDS Integers, Sequences, FiniteSets, SequencesExt

HashFunc(l, r) == <<l, r>>

\* ceil(log(hash_count, 2)); exact for the counts a chain can have (the floating
\* point logarithm is first wrong at 2^29).
branch_length(n) == CHOOSE d \in 0 .. n : 2 ^ d >= n /\ (d > 0 => 2 ^ (d - 1) < n)

tree_depth(n) == branch_length(n) + 1

Sibling(i) == IF i % 2 = 0 THEN i + 1 ELSE i - 1     \* index ^ 1

Evened(hashes) == IF Len(hashes) % 2 = 1 THEN Append(hashes, Last(hashes)) ELSE hashes

\* One step up the tree; indices are the code's, from 0.
StepUp(s) ==
    LET hashes == Evened(s.hashes)
    IN [branch |-> Append(s.branch, hashes[Sibling(s.index) + 1]),
        index  |-> s.index \div 2,
        hashes |-> [n \in 1 .. Len(hashes) \div 2 |->
                       HashFunc(hashes[2 * n - 1], hashes[2 * n])]]

\* The pair (branch, root), for a branch of the given length.
branch_and_root_len(hashes, index, length) ==
    LET top == FoldLeft(LAMBDA s, i : StepUp(s),
                        [branch |-> <<>>, index |-> index, hashes |-> hashes],
                        [i \in 1 .. length |-> i])
    IN <<top.branch, top.hashes[1]>>

branch_and_root(hashes, index) ==
    branch_and_root_len(hashes, index, branch_length(Len(hashes)))

merkle_root(hashes, length) == branch_and_root_len(hashes, 0, length)[2]

root_from_proof(hash, branch, index) ==
    FoldLeft(LAMBDA s, elt : [hash  |-> IF s.index % 2 = 1 THEN HashFunc(elt, s.hash)
                                        ELSE HashFunc(s.hash, elt),
                              index |-> s.index \div 2],
             [hash |-> hash, index |-> index], branch).hash

\* hashes[a:b] of Python, for 0 <= a.
Slice(s, a, b) == SubSeq(s, a + 1, IF b < Len(s) THEN b ELSE Len(s))

merkle_level(hashes, depth_higher) ==
    LET size == 2 ^ depth_higher
        count == (Len(hashes) + size - 1) \div size
    IN [n \in 1 .. count |->
           merkle_root(Slice(hashes, (n - 1) * size, n * size), depth_higher)]

\* An empty branch with no root stands for the ValueError raised when the leaf
\* hashes are not those of the level.
Inconsistent == <<<<>>, <<>>>>

branch_and_root_from_level(level, leaf_hashes, index, depth_higher) ==
    LET leaf == branch_and_root_len(leaf_hashes, index % 2 ^ depth_higher, depth_higher)
        i == index \div 2 ^ depth_higher
        top == branch_and_root(level, i)
    IN IF i >= Len(level) \/ leaf[2] # level[i + 1] THEN Inconsistent
       ELSE <<leaf[1] \o top[1], top[2]>>

-----------------------------------------------------------------------------
(* Reference: a tree read from its root down.  Node k of height d covers    *)
(* leaves k*2^d onwards; a missing right child is a copy of the left one.   *)

Node[d \in Nat, hashes \in Seq(Seq(Nat)), k \in Nat] ==
    IF d = 0 THEN hashes[k + 1]
    ELSE LET right == IF (2 * k + 1) * 2 ^ (d - 1) < Len(hashes) THEN 2 * k + 1 ELSE 2 * k
         IN HashFunc(Node[d - 1, hashes, 2 * k], Node[d - 1, hashes, right])

\* The node next to the one above leaf i at height d.
NodeSibling(hashes, i, d) ==
    LET s == Sibling(i \div 2 ^ d)
    IN Node[d, hashes, IF s * 2 ^ d < Len(hashes) THEN s ELSE i \div 2 ^ d]

TrueRoot(hashes) == Node[branch_length(Len(hashes)), hashes, 0]
TrueBranch(hashes, i) ==
    [d \in 1 .. branch_length(Len(hashes)) |-> NodeSibling(hashes, i, d - 1)]
TrueProof(hashes, i) == <<TrueBranch(hashes, i), TrueRoot(hashes)>>

-----------------------------------------------------------------------------
(* The cache.                                                               *)

CONSTANTS
    Client,        \* requests in flight at a time
    MaxLength,     \* bound on the number of headers
    Blocks,        \* distinct header hashes at one height
    MaxReorgs,     \* reorganisations
    ReorgLimit,    \* headers left out of the cache when it is filled
    Quiesced       \* do reorganisations wait until no request is in flight

MerkleCacheAssumption ==
    /\ MaxLength \in Nat \ {0} /\ MaxReorgs \in Nat /\ ReorgLimit \in Nat
    /\ Quiesced \in BOOLEAN /\ Blocks \in Nat \ {0}

VARIABLES
    chain,         \* header hashes on disk up to db_height
    backing_up,    \* target length of a backup between backup_fs and db_height's change
    length, level, depth_higher, initialized,
    req,           \* [Client -> request]
    reorgs

cache == <<length, level, depth_higher, initialized>>
vars == <<chain, backing_up, length, level, depth_higher, initialized, req, reorgs>>

Idle == [pc |-> "idle", length |-> 0, index |-> 0, hashes |-> <<>>, leaf |-> <<>>,
         start |-> 0, ok |-> TRUE]

Init ==
    /\ chain \in { [i \in 1 .. n |-> <<i>>] : n \in 1 .. MaxLength }
    /\ backing_up = 0 /\ reorgs = 0
    /\ length = 0 /\ level = <<>> /\ depth_higher = 0 /\ initialized = FALSE
    /\ req = [c \in Client |-> Idle]

-----------------------------------------------------------------------------
segment_length == 2 ^ depth_higher

leaf_start(i) == (i \div segment_length) * segment_length

\* source_func: fails unless all the headers are there.
Available(start, count) == start + count <= Len(chain)
Source(start, count) == Slice(chain, start, start + count)

Min2(a, b) == IF a < b THEN a ELSE b

\* populate_header_merkle_cache; the only reader until then.
Initialize ==
    /\ ~initialized /\ initialized' = TRUE /\ backing_up = 0
    /\ LET n == IF Len(chain) - 1 - ReorgLimit > 1 THEN Len(chain) - 1 - ReorgLimit ELSE 1
           d == tree_depth(n) \div 2
       IN /\ length' = n /\ depth_higher' = d
          /\ level' = merkle_level(Slice(chain, 0, n), d)
    /\ UNCHANGED <<chain, backing_up, req, reorgs>>

Become(c, r) == req' = [req EXCEPT ![c] = r]

\* A client asks for the branch of header i in the tree of the first n headers;
\* n and i were checked against db_height.
Request(c, n, i) ==
    /\ initialized /\ req[c].pc = "idle" /\ n <= Len(chain) /\ i < n
    /\ Quiesced => backing_up = 0
    /\ Become(c, [Idle EXCEPT !.pc = IF n <= length THEN "leaf" ELSE "extend",
                             !.length = n, !.index = i, !.start = leaf_start(length)])
    /\ UNCHANGED <<chain, backing_up, cache, reorgs>>

Fail(c) == Become(c, Idle)

\* _extend_to: the hashes are read in a thread ...
ExtendRead(c) ==
    /\ req[c].pc = "extend"
    /\ LET r == req[c] IN
         IF Available(r.start, r.length - r.start)
         THEN Become(c, [r EXCEPT !.pc = "extended",
                                 !.hashes = Source(r.start, r.length - r.start)])
         ELSE Fail(c)
    /\ UNCHANGED <<chain, backing_up, cache, reorgs>>

\* The slice assignment level[start >> depth_higher:] = ...
Extended(r) == Slice(level, 0, r.start \div segment_length) \o merkle_level(r.hashes, depth_higher)

\* ... and stored when the event loop resumes the request.
ExtendStore(c) ==
    /\ req[c].pc = "extended"
    /\ level' = Extended(req[c])
    /\ length' = req[c].length
    /\ Become(c, [req[c] EXCEPT !.pc = "leaf", !.hashes = <<>>])
    /\ UNCHANGED <<chain, backing_up, depth_higher, initialized, reorgs>>

LeafRead(c) ==
    /\ req[c].pc = "leaf"
    /\ LET r == req[c]
           start == leaf_start(r.index)
           count == Min2(segment_length, r.length - start)
       IN IF Available(start, count)
          THEN Become(c, [r EXCEPT !.pc = "level", !.leaf = Source(start, count)])
          ELSE Fail(c)
    /\ UNCHANGED <<chain, backing_up, cache, reorgs>>

Answer(c, r, proof) ==
    Become(c, [Idle EXCEPT !.ok = \/ proof = TrueProof(Slice(chain, 0, r.length), r.index)
                                  \/ proof = Inconsistent])

\* A tree smaller than a segment does not need the level, nor does the cached
\* length itself need more hashes.
AnswerAtOnce(c) ==
    /\ req[c].pc = "level"
    /\ LET r == req[c] IN
         \/ /\ r.length < segment_length
            /\ Answer(c, r, branch_and_root(r.leaf, r.index))
         \/ /\ r.length >= segment_length /\ r.length = length
            /\ Answer(c, r, branch_and_root_from_level(level, r.leaf, r.index, depth_higher))
    /\ UNCHANGED <<chain, backing_up, cache, reorgs>>

WholeSegments(n) == Slice(level, 0, n \div segment_length)

\* _level_for: the level of a shorter tree, whose last segment is read again.
LevelSlice(c) ==
    /\ req[c].pc = "level" /\ req[c].length >= segment_length /\ req[c].length # length
    /\ Become(c, [req[c] EXCEPT !.pc = "tail",
                               !.hashes = WholeSegments(req[c].length)])
    /\ UNCHANGED <<chain, backing_up, cache, reorgs>>

TailRead(c) ==
    /\ req[c].pc = "tail"
    /\ LET r == req[c]
           start == leaf_start(r.length)
       IN IF Available(start, r.length - start)
          THEN Become(c, [r EXCEPT !.pc = "answer",
                           !.hashes = @ \o merkle_level(Source(start, r.length - start),
                                                        depth_higher)])
          ELSE Fail(c)
    /\ UNCHANGED <<chain, backing_up, cache, reorgs>>

AnswerFromLevel(c) ==
    /\ req[c].pc = "answer"
    /\ LET r == req[c] IN
         Answer(c, r, branch_and_root_from_level(r.hashes, r.leaf, r.index, depth_higher))
    /\ UNCHANGED <<chain, backing_up, cache, reorgs>>

-----------------------------------------------------------------------------
(* The block processor.                                                     *)

Quiet == \A c \in Client : req[c].pc = "idle"

\* A flush adds a header; the hash tells the branch it is on.
Advance(b) ==
    /\ backing_up = 0 /\ Len(chain) < MaxLength
    /\ chain' = Append(chain, <<Len(chain) + 1 + MaxLength * b>>)
    /\ UNCHANGED <<backing_up, cache, req, reorgs>>

\* Mutant of Truncated: the root of the segment cut in two is kept.
TruncatedKeepsSegment(n) ==
    [length |-> Min2(n, length),
     level |-> Slice(level, 0, (Min2(n, length) + segment_length - 1) \div segment_length)]

\* truncate: down to a whole number of segments.
Truncated(n) ==
    IF n >= length THEN [length |-> length, level |-> level]
    ELSE [length |-> leaf_start(n), level |-> Slice(level, 0, leaf_start(n) \div segment_length)]

\* backup_fs truncates the cache; db_height follows when the batch is written.
BackupFs(n) ==
    /\ backing_up = 0 /\ 0 < n /\ n < Len(chain) /\ reorgs < MaxReorgs
    /\ Len(chain) - n <= ReorgLimit
    /\ Quiesced => Quiet
    /\ length' = Truncated(n).length /\ level' = Truncated(n).level
    /\ reorgs' = reorgs + 1
    /\ backing_up' = n
    /\ UNCHANGED <<chain, depth_higher, initialized, req>>

BackupDone ==
    /\ backing_up # 0 /\ backing_up' = 0
    /\ chain' = SubSeq(chain, 1, backing_up)
    /\ UNCHANGED <<cache, req, reorgs>>

Step(c) == \/ ExtendRead(c) \/ ExtendStore(c) \/ LeafRead(c) \/ AnswerAtOnce(c)
           \/ LevelSlice(c) \/ TailRead(c) \/ AnswerFromLevel(c)

Next ==
    \/ Initialize
    \/ \E c \in Client : \/ Step(c)
                         \/ \E n \in 1 .. MaxLength, i \in 0 .. MaxLength - 1 : Request(c, n, i)
    \/ \E b \in 0 .. Blocks - 1 : Advance(b)
    \/ \E n \in 1 .. MaxLength : BackupFs(n)
    \/ BackupDone

Spec == Init /\ [][Next]_vars

-----------------------------------------------------------------------------
TypeOK ==
    /\ length \in 0 .. MaxLength
    /\ Len(level) = (length + segment_length - 1) \div segment_length
    /\ depth_higher \in 0 .. MaxLength
    /\ initialized \in BOOLEAN /\ backing_up \in 0 .. MaxLength /\ Len(chain) \in 1 .. MaxLength
    /\ \A c \in Client : req[c].pc \in {"idle", "extend", "extended", "leaf", "level", "tail", "answer"}

\* The cached level is that of the headers on disk: extensions start at a segment
\* boundary and truncation goes back to one (_extend_to, truncate).
LevelMatchesChain ==
    (initialized /\ backing_up = 0) =>
        /\ length <= Len(chain)
        /\ level = merkle_level(Slice(chain, 0, length), depth_higher)

\* The algorithms agree with the tree read from its root, and a client that folds
\* the branch gets the root (branch_and_root, root_from_proof).
ProofsVerify ==
    \A n \in 1 .. Len(chain), i \in 0 .. Len(chain) - 1 : i < n =>
        LET hashes == Slice(chain, 0, n)
            proof == branch_and_root(hashes, i)
        IN /\ proof = TrueProof(hashes, i)
           /\ root_from_proof(hashes[i + 1], proof[1], i) = proof[2]

\* A proof sent to a client is the one computed from all the headers, or an error.
AnswersCorrect == \A c \in Client : req[c].ok

\* The cache holds the level of the headers on disk, and clients get the proofs of
\* those headers (_extend_to, truncate, branch_and_root).
ProofsRight == LevelMatchesChain /\ ProofsVerify /\ AnswersCorrect
=============================================================================
