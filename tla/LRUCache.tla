------------------------------ MODULE LRUCache ------------------------------
(***************************************************************************)
(* The cache of the session manager (lrucache.LRUCache): a dictionary, the *)
(* order in which its keys were last used, and a total size that is kept   *)
(* by addition and subtraction.  Values are reduced to their sizes.        *)
(***************************************************************************)
EXTENDS Integers, Sequences, FiniteSetsExt, SequencesExt

CONSTANTS Key, maxsize, MaxValue   \* MaxValue bounds the size of a value

LRUCacheAssumption == maxsize \in Nat /\ MaxValue \in Nat

VARIABLES
    data,       \* [keys held -> size of the value]
    order,      \* keys, least recently used first
    currsize,
    newer       \* history: <<j, k>> if j was used after k

vars == <<data, order, currsize, newer>>

Init == data = << >> /\ order = <<>> /\ currsize = 0 /\ newer = {}

Held(d) == DOMAIN d
Use(k) == newer' = { jk \in newer : jk[2] # k } \cup { <<k, j>> : j \in Key \ {k} }

\* The order without a key that is in it at most once.
Dropped(o, k) == IF \E i \in 1 .. Len(o) : o[i] = k
                 THEN RemoveAt(o, CHOOSE i \in 1 .. Len(o) : o[i] = k)
                 ELSE o

\* __update
Updated(o, k) == Append(Dropped(o, k), k)

Without(d, S) == [k \in Held(d) \ S |-> d[k]]
TotalSize(d) == MapThenSumSet(LAMBDA k : d[k], Held(d))

-----------------------------------------------------------------------------
\* __getitem__ of a key that is there; nothing happens with another.
Get(k) ==
    /\ k \in Held(data) /\ order' = Updated(order, k) /\ Use(k)
    /\ UNCHANGED <<data, currsize>>

\* The first n keys of the order go.
Popped(n) == { order[i] : i \in 1 .. n }
FitsWithout(n, size) == currsize - TotalSize([k \in Popped(n) |-> data[k]]) + size <= maxsize

\* while self.__currsize + size > maxsize: self.popitem()
ToPop(size) == CHOOSE n \in 0 .. Len(order) :
                  FitsWithout(n, size) /\ \A m \in 0 .. n - 1 : ~FitsWithout(m, size)

\* Mutant of DiffSize: the old value is looked up before keys are popped.
DiffSizeBefore(d, k, size) == IF k \in Held(data) THEN size - data[k] ELSE size

DiffSize(d, k, size) == IF k \in Held(d) THEN size - d[k] ELSE size

\* __setitem__; too large a value is refused.
Set(k, size) ==
    /\ size <= maxsize
    /\ LET grows == IF k \in Held(data) THEN data[k] < size ELSE TRUE
           popped == IF grows THEN ToPop(size) ELSE 0
           gone == Popped(popped)
           left == Without(data, gone)
       IN /\ data' = [j \in Held(left) \cup {k} |-> IF j = k THEN size ELSE left[j]]
          /\ currsize' = currsize - TotalSize([j \in gone |-> data[j]]) + DiffSize(left, k, size)
          /\ order' = Updated(SubSeq(order, popped + 1, Len(order)), k)
    /\ Use(k)

\* __delitem__, pop
Delete(k) ==
    /\ k \in Held(data)
    /\ data' = Without(data, {k}) /\ currsize' = currsize - data[k]
    /\ order' = Dropped(order, k)
    /\ UNCHANGED newer

Next == \E k \in Key : Get(k) \/ Delete(k) \/ \E size \in 0 .. MaxValue : Set(k, size)

Spec == Init /\ [][Next]_vars

-----------------------------------------------------------------------------
\* The size the cache counts is that of its values, and at most maxsize, when
\* keys are replaced, popped by their own replacement, and deleted.
SizeRight == currsize = TotalSize(data) /\ currsize <= maxsize

\* A key that makes room was used before every key that stays.
LeastRecentGone ==
    \A k \in Key : (\E size \in 0 .. MaxValue : Set(k, size)) =>
        \A gone \in Held(data) \ Held(data'), kept \in (Held(data) \cap Held(data')) \ {k} :
            <<kept, gone>> \in newer

\* Every operation leaves the cache within its size, and lets the least recently used
\* keys go (__setitem__, __delitem__, popitem).
CacheRight == [][SizeRight' /\ LeastRecentGone]_vars
=============================================================================
