---------------------------- MODULE MempoolProofs ----------------------------
(***************************************************************************)
(* Theorems about the mempool and what is told of it, for all values of    *)
(* the constants.  Of the notifications: no address that a block touched is *)
(* forgotten before clients are told of it, and the heights clients are    *)
(* told never fall.  Of the refresh, if the tasks it left behind end before *)
(* the next one: what came or went is announced and not before its block,  *)
(* an undisturbed refresh takes in all of the daemon's mempool, and nothing *)
(* moves under the thread that computes the fee histogram.                 *)
(***************************************************************************)
EXTENDS MCMempool, WellFoundedInduction, TLAPS

-----------------------------------------------------------------------------
(* The notifications.                                                       *)

\* A non-empty set of bounded natural numbers has a largest element, which Max is.
LEMMA MaxOfHeights ==
    ASSUME NEW n \in Nat, NEW S \in SUBSET (0 .. n), S # {}
    PROVE  Max(S) \in S /\ \A x \in S : Max(S) >= x
<1> DEFINE T == { n - x : x \in S }
           R == OpToRel(<, Nat)
<1>0. \A x \in S : x \in Int /\ n - x \in Nat
  OBVIOUS
<1>1. T \subseteq Nat /\ T # {}
  BY <1>0
<1>2. \E x \in T : \A y \in T : ~(<<y, x>> \in R)
  BY <1>1, NatLessThanWellFounded, WFMin
<1>3. PICK x \in T : \A y \in T : ~(y < x)
  BY <1>1, <1>2 DEF OpToRel
<1>4. PICK m \in S : x = n - m
  BY <1>3
<1>5. \A y \in S : m >= y
  <2> TAKE y \in S
  <2>1. ~(n - y < n - m)
    BY <1>3, <1>4
  <2>2. y \in Int /\ m \in Int /\ n \in Int
    BY <1>0
  <2> QED
    BY <2>1, <2>2
<1> QED
  BY <1>5 DEF Max

\* Heights are natural numbers up to the daemon's, and an interrupted batch is a block.
HeightsOK ==
    /\ daemon_height \in 0 .. MaxHeight
    /\ chain \in Seq(SUBSET HashX) /\ Len(chain) \in 1 .. daemon_height + 1
    /\ bp_pc \in {"idle", "flushed"} /\ (bp_pc = "flushed" => Len(chain) > 1)
    /\ highest_block \in 0 .. daemon_height
    /\ DOMAIN touched_mp \subseteq 0 .. daemon_height
    /\ touched_mp = [h \in DOMAIN touched_mp |-> touched_mp[h]]
    /\ DOMAIN touched_bp \subseteq 0 .. daemon_height
    /\ refresh = Idle \/ (refresh.height \in 0 .. daemon_height /\ refresh.done \in BOOLEAN)
    /\ reorgs \in Nat

\* A notification is at one of the heights of the mempool's sets.
LEMMA DueHeight ==
    ASSUME NEW tmp, NEW tbp, NEW highest, NEW n \in Nat,
           DOMAIN tmp \subseteq 0 .. n, DOMAIN tbp \subseteq 0 .. n,
           NEW height \in NotifyHeight(tmp, tbp, highest), tmp = [h \in DOMAIN tmp |-> tmp[h]]
    PROVE  height \in DOMAIN tmp
<1>1. CASE DOMAIN tmp \cap DOMAIN tbp # {}
  <2>1. (DOMAIN tmp \cap DOMAIN tbp) \in SUBSET (0 .. n)
    OBVIOUS
  <2>2. Max(DOMAIN tmp \cap DOMAIN tbp) \in DOMAIN tmp \cap DOMAIN tbp
    BY <1>1, <2>1, MaxOfHeights
  <2>3. height = Max(DOMAIN tmp \cap DOMAIN tbp)
    BY <1>1 DEF NotifyHeight
  <2> QED
    BY <2>2, <2>3
<1>2. CASE DOMAIN tmp \cap DOMAIN tbp = {}
  <2>1. tmp # <<>> /\ Max(DOMAIN tmp) = highest /\ height = highest
    BY <1>2 DEF NotifyHeight
  <2>2. DOMAIN tmp # {}
    <3> SUFFICES ASSUME DOMAIN tmp = {} PROVE tmp = <<>>
      BY <2>1
    <3>1. DOMAIN <<>> = {} /\ <<>> = [h \in {} |-> tmp[h]]
      OBVIOUS
    <3> QED
      BY <3>1
  <2>3. Max(DOMAIN tmp) \in DOMAIN tmp
    BY <2>2, MaxOfHeights
  <2> QED
    BY <2>1, <2>3
<1> QED
  BY <1>1, <1>2

\* What MaybeNotify does to the sets: nothing, or one height is told and what is at or
\* below it is taken away.
LEMMA NotifyCases ==
    ASSUME NEW tmp, NEW tbp, NEW highest, NEW n \in Nat,
           DOMAIN tmp \subseteq 0 .. n, DOMAIN tbp \subseteq 0 .. n,
           tmp = [h \in DOMAIN tmp |-> tmp[h]],
           MaybeNotify(tmp, tbp, highest)
    PROVE  \/ /\ touched_mp' = tmp /\ touched_bp' = tbp
              /\ UNCHANGED <<owed_bp, owed_mp, told, reorgs>>
           \/ \E height \in DOMAIN tmp :
                /\ touched_mp' = Above(tmp, height) /\ touched_bp' = Above(tbp, height)
                /\ owed_bp' = owed_bp \ Deliver(tmp, tbp, height)
                /\ told' = height
                /\ reorgs' = IF owed_bp' = {} THEN 0 ELSE reorgs
<1>1. CASE NotifyHeight(tmp, tbp, highest) = {}
  BY <1>1 DEF MaybeNotify
<1>2. ASSUME NEW height \in NotifyHeight(tmp, tbp, highest)
      PROVE  height \in DOMAIN tmp
  BY <1>2, DueHeight
<1> QED
  BY <1>1, <1>2 DEF MaybeNotify

\* Whatever MaybeNotify does, the sets it leaves are some of those it was given.
LEMMA NotifyDomains ==
    ASSUME NEW tmp, NEW tbp, NEW highest, NEW n \in Nat,
           DOMAIN tmp \subseteq 0 .. n, DOMAIN tbp \subseteq 0 .. n,
           tmp = [h \in DOMAIN tmp |-> tmp[h]],
           MaybeNotify(tmp, tbp, highest)
    PROVE  /\ DOMAIN touched_mp' \subseteq DOMAIN tmp /\ DOMAIN touched_bp' \subseteq DOMAIN tbp
           /\ touched_mp' = [h \in DOMAIN touched_mp' |-> touched_mp'[h]]
           /\ reorgs' \in {0, reorgs}
<1>1. CASE touched_mp' = tmp /\ touched_bp' = tbp /\ UNCHANGED <<owed_bp, owed_mp, told, reorgs>>
  BY <1>1
<1>2. ASSUME NEW height \in DOMAIN tmp,
             touched_mp' = Above(tmp, height), touched_bp' = Above(tbp, height),
             reorgs' = IF owed_bp' = {} THEN 0 ELSE reorgs
      PROVE  /\ DOMAIN touched_mp' \subseteq DOMAIN tmp /\ DOMAIN touched_bp' \subseteq DOMAIN tbp
             /\ touched_mp' = [h \in DOMAIN touched_mp' |-> touched_mp'[h]]
             /\ reorgs' \in {0, reorgs}
  BY <1>2 DEF Above
<1> QED
  BY <1>1, <1>2, NotifyCases

\* At the start the heights are in order.
LEMMA InitHeights ==
    ASSUME NotificationsAssumption, Init
    PROVE  HeightsOK
<1>1. chain \in Seq(SUBSET HashX) /\ Len(chain) = 1
  BY DEF Init
<1>2. DOMAIN touched_mp = {} /\ DOMAIN touched_bp = {}
  BY DEF Init
<1>3. touched_mp = [h \in DOMAIN touched_mp |-> touched_mp[h]]
  BY DEF Init
<1>4. MaxHeight \in Nat
  BY DEF NotificationsAssumption
<1> QED
  BY <1>1, <1>2, <1>3, <1>4 DEF Init, HeightsOK

\* Heights stay within the daemon's.
LEMMA HeightsStep ==
    ASSUME NotificationsAssumption, HeightsOK, [Next]_vars
    PROVE  HeightsOK'
<1>h. /\ daemon_height \in Nat /\ MaxHeight \in Nat /\ daemon_height <= MaxHeight
      /\ chain \in Seq(SUBSET HashX) /\ Len(chain) \in Nat \ {0} /\ Len(chain) <= daemon_height + 1
  BY DEF HeightsOK, NotificationsAssumption
<1>1. ASSUME NEW S \in Touches, AdvanceAndFlush(S)
      PROVE  HeightsOK'
  <2>1. S \in SUBSET HashX
    BY DEF NotificationsAssumption
  <2>2. chain' \in Seq(SUBSET HashX) /\ Len(chain') = Len(chain) + 1
    BY <1>1, <1>h, <2>1 DEF AdvanceAndFlush
  <2>3. Len(chain) < daemon_height + 1
    BY <1>1, <1>h DEF AdvanceAndFlush, db_height
  <2> QED
    BY <1>1, <1>h, <2>2, <2>3 DEF AdvanceAndFlush, HeightsOK, notif
<1>2. ASSUME NEW S \in Touches, RefreshBegin(S)
      PROVE  HeightsOK'
  BY <1>2, <1>h DEF RefreshBegin, HeightsOK, notif, db_height, Idle
<1>3. ASSUME NEW S \in Touches, RefreshAccepts(S)
      PROVE  HeightsOK'
  BY <1>3, <1>h DEF RefreshAccepts, HeightsOK, notif, Idle
<1>4. ASSUME NEW n \in 1 .. MaxHeight, BackupBlocks(n)
      PROVE  HeightsOK'
  <2>1. n \in Nat \ {0} /\ n < Len(chain) /\ chain' = SubSeq(chain, 1, Len(chain) - n)
    BY <1>4, <1>h DEF BackupBlocks
  <2>2. chain' \in Seq(SUBSET HashX) /\ Len(chain') = Len(chain) - n
    BY <2>1, <1>h
  <2> QED
    BY <1>4, <1>h, <2>1, <2>2 DEF BackupBlocks, HeightsOK, notif
<1>5. CASE OnBlock
  <2> DEFINE tbp == Put(touched_bp, db_height, bp_touched)
  <2>1. db_height \in 0 .. daemon_height
    BY <1>h DEF db_height
  <2>2. DOMAIN tbp \subseteq 0 .. daemon_height
    <3>1. DOMAIN tbp = DOMAIN touched_bp \cup {db_height}
      BY DEF Put
    <3> QED
      BY <2>1, <3>1 DEF HeightsOK
  <2>3. MaybeNotify(touched_mp, tbp, db_height)
    BY <1>5 DEF OnBlock
  <2>4. DOMAIN touched_mp \subseteq 0 .. daemon_height /\ touched_mp = [h \in DOMAIN touched_mp |-> touched_mp[h]]
    BY DEF HeightsOK
  <2> HIDE DEF tbp
  <2>5. /\ DOMAIN touched_mp' \subseteq DOMAIN touched_mp /\ DOMAIN touched_bp' \subseteq DOMAIN tbp
        /\ touched_mp' = [h \in DOMAIN touched_mp' |-> touched_mp'[h]]
        /\ reorgs' \in {0, reorgs}
    BY <1>h, <2>2, <2>3, <2>4, NotifyDomains
  <2> QED
    BY <1>5, <1>h, <2>1, <2>2, <2>5 DEF OnBlock, HeightsOK
<1>6. CASE RefreshFails
  BY <1>6, <1>h DEF RefreshFails, HeightsOK, notif
<1>7. CASE OnMempool
  <2> DEFINE tmp == Put(touched_mp, refresh.height, mp_touched)
  <2>1. refresh.height \in 0 .. daemon_height
    BY <1>7 DEF OnMempool, HeightsOK, Idle
  <2>2. DOMAIN tmp \subseteq 0 .. daemon_height /\ tmp = [h \in DOMAIN tmp |-> tmp[h]]
    <3>1. DOMAIN tmp = DOMAIN touched_mp \cup {refresh.height}
      BY DEF Put
    <3>2. DOMAIN touched_mp \subseteq 0 .. daemon_height
      BY DEF HeightsOK
    <3>3. tmp = [h \in DOMAIN tmp |-> tmp[h]]
      BY DEF Put
    <3> QED
      BY <2>1, <3>1, <3>2, <3>3
  <2>3. MaybeNotify(tmp, touched_bp, highest_block)
    BY <1>7 DEF OnMempool
  <2>4. DOMAIN touched_bp \subseteq 0 .. daemon_height
    BY DEF HeightsOK
  <2> HIDE DEF tmp
  <2>5. /\ DOMAIN touched_mp' \subseteq DOMAIN tmp /\ DOMAIN touched_bp' \subseteq DOMAIN touched_bp
        /\ touched_mp' = [h \in DOMAIN touched_mp' |-> touched_mp'[h]]
        /\ reorgs' \in {0, reorgs}
    BY <1>h, <2>2, <2>3, <2>4, NotifyDomains
  <2> QED
    BY <1>7, <1>h, <2>2, <2>5 DEF OnMempool, HeightsOK
<1>8. CASE DaemonAdvances
  <2>1. daemon_height' = daemon_height + 1 /\ daemon_height' <= MaxHeight
    BY <1>8, <1>h DEF DaemonAdvances
  <2>2. 0 .. daemon_height \subseteq 0 .. daemon_height'
    BY <2>1, <1>h
  <2> QED
    BY <1>8, <1>h, <2>1, <2>2 DEF DaemonAdvances, HeightsOK, notif
<1>9. CASE UNCHANGED vars
  BY <1>9 DEF vars, HeightsOK
<1> QED
  BY <1>1, <1>2, <1>3, <1>4, <1>5, <1>6, <1>7, <1>8, <1>9 DEF Next

(* The addresses that are owed.                                             *)

\* The height that on_block is called with next.
NextHeight == IF bp_pc = "flushed" THEN Len(chain) - 1 ELSE Len(chain)

\* The block notification of height h holds an owed address where the next on_block does
\* not overwrite it; before a reorganisation it is an address of the block itself, so
\* that undoing the block would bring it back.
HeldAt(h, x) ==
    /\ h < NextHeight /\ x \in touched_bp[h]
    /\ reorgs = 0 => x \in chain[h + 1]

\* Every owed address is held; before a reorganisation those not announced yet are of
\* the block that is being flushed.
TouchInv ==
    \A x \in owed_bp :
        /\ x \in bp_touched \/ \E h \in DOMAIN touched_bp : HeldAt(h, x)
        /\ x \in bp_touched /\ reorgs = 0 => bp_pc = "flushed" /\ x \in chain[Len(chain)]

\* What MaybeNotify takes away is told; the rest stays where it was.
LEMMA NotifyKeeps ==
    ASSUME NEW tmp, NEW tbp, NEW highest, NEW n \in Nat,
           DOMAIN tmp \subseteq 0 .. n, DOMAIN tbp \subseteq 0 .. n,
           tmp = [h \in DOMAIN tmp |-> tmp[h]],
           MaybeNotify(tmp, tbp, highest)
    PROVE  /\ owed_bp' \subseteq owed_bp
           /\ \A x \in owed_bp' : \A h \in DOMAIN tbp :
                 x \in tbp[h] => h \in DOMAIN touched_bp' /\ touched_bp'[h] = tbp[h]
           /\ owed_bp' = {} \/ reorgs' = reorgs
<1> DEFINE Goal == /\ owed_bp' \subseteq owed_bp
                   /\ \A x \in owed_bp' : \A h \in DOMAIN tbp :
                         x \in tbp[h] => h \in DOMAIN touched_bp' /\ touched_bp'[h] = tbp[h]
                   /\ owed_bp' = {} \/ reorgs' = reorgs
<1>1. CASE touched_mp' = tmp /\ touched_bp' = tbp /\ UNCHANGED <<owed_bp, owed_mp, told, reorgs>>
  BY <1>1
<1>2. ASSUME NEW height \in DOMAIN tmp, touched_bp' = Above(tbp, height),
             owed_bp' = owed_bp \ Deliver(tmp, tbp, height),
             reorgs' = IF owed_bp' = {} THEN 0 ELSE reorgs
      PROVE  Goal
  <2>1. ASSUME NEW x \in owed_bp', NEW h \in DOMAIN tbp, x \in tbp[h]
        PROVE  h \in DOMAIN touched_bp' /\ touched_bp'[h] = tbp[h]
    <3>1. ~(h <= height)
      BY <1>2, <2>1 DEF Deliver
    <3>2. h \in Int /\ height \in Int
      OBVIOUS
    <3>3. h > height
      BY <3>1, <3>2
    <3> QED
      BY <1>2, <3>3 DEF Above
  <2> QED
    BY <1>2, <2>1
<1> QED
  BY <1>1, <1>2, NotifyCases

\* No owed address is dropped: with one reorganisation at a time, an entry that on_block
\* overwrites is that of an undone block, whose addresses were collected again.
LEMMA TouchStep ==
    ASSUME NotificationsAssumption, MaxReorgs <= 1, HeightsOK, TouchInv, [Next]_vars
    PROVE  TouchInv'
<1>h. /\ daemon_height \in Nat /\ chain \in Seq(SUBSET HashX) /\ Len(chain) \in Nat \ {0}
      /\ bp_pc \in {"idle", "flushed"} /\ reorgs \in Nat /\ MaxReorgs \in Nat
      /\ DOMAIN touched_bp \subseteq 0 .. daemon_height
      /\ DOMAIN touched_mp \subseteq 0 .. daemon_height
      /\ touched_mp = [h \in DOMAIN touched_mp |-> touched_mp[h]]
      /\ db_height \in 0 .. daemon_height
  BY DEF HeightsOK, NotificationsAssumption, db_height
<1>i. \A h \in DOMAIN touched_bp : h \in Nat
  BY <1>h
<1>1. ASSUME NEW S \in Touches, AdvanceAndFlush(S)
      PROVE  TouchInv'
  <2>1. /\ chain' = Append(chain, S) /\ Len(chain') = Len(chain) + 1 /\ chain'[Len(chain')] = S
        /\ \A h \in Nat : h < Len(chain) => chain'[h + 1] = chain[h + 1]
    <3>1. S \in SUBSET HashX
      BY DEF NotificationsAssumption
    <3> QED
      BY <1>1, <1>h, <3>1 DEF AdvanceAndFlush
  <2>2. /\ bp_pc = "idle" /\ bp_pc' = "flushed" /\ touched_bp' = touched_bp
        /\ bp_touched' = bp_touched \cup S /\ owed_bp' = owed_bp \cup S /\ reorgs' = reorgs
    BY <1>1 DEF AdvanceAndFlush, notif
  <2>3. NextHeight' = NextHeight /\ NextHeight = Len(chain)
    BY <2>1, <2>2, <1>h DEF NextHeight
  <2>4. ASSUME NEW h \in DOMAIN touched_bp, NEW x, HeldAt(h, x)
        PROVE  HeldAt(h, x)'
    BY <2>1, <2>2, <2>3, <2>4, <1>i DEF HeldAt
  <2>5. ASSUME NEW x \in owed_bp'
        PROVE  x \in bp_touched' \/ \E h \in DOMAIN touched_bp' : HeldAt(h, x)'
    BY <2>2, <2>4, <2>5 DEF TouchInv
  <2>6. ASSUME NEW x \in owed_bp', x \in bp_touched', reorgs' = 0
        PROVE  x \in chain'[Len(chain')]
    BY <2>1, <2>2, <2>6 DEF TouchInv
  <2> QED
    BY <2>2, <2>5, <2>6 DEF TouchInv
<1>2. ASSUME NEW n \in 1 .. MaxHeight, BackupBlocks(n)
      PROVE  TouchInv'
  <2> DEFINE undone == UNION { chain[i] : i \in Len(chain) - n + 1 .. Len(chain) }
  <2>1. /\ n \in Nat \ {0} /\ n < Len(chain) /\ chain' = SubSeq(chain, 1, Len(chain) - n)
        /\ bp_pc = "idle" /\ bp_pc' = "idle" /\ touched_bp' = touched_bp
        /\ bp_touched' = bp_touched \cup undone /\ owed_bp' = owed_bp \cup undone
    BY <1>2, <1>h DEF BackupBlocks, notif, NotificationsAssumption
  <2>2. reorgs = 0 /\ reorgs' = 1
    BY <1>2, <1>h DEF BackupBlocks
  <2>3. Len(chain') = Len(chain) - n
    BY <2>1, <1>h
  <2>4. NextHeight = Len(chain) /\ NextHeight' = Len(chain) - n
    BY <2>1, <2>3 DEF NextHeight
  <2>5. ASSUME NEW h \in DOMAIN touched_bp, NEW x, HeldAt(h, x)
        PROVE  x \in undone \/ HeldAt(h, x)'
    <3>1. h \in Nat /\ h < Len(chain) /\ x \in touched_bp[h] /\ x \in chain[h + 1]
      BY <2>2, <2>4, <2>5, <1>i DEF HeldAt
    <3>2. CASE h < Len(chain) - n
      BY <2>1, <2>2, <2>4, <3>1, <3>2 DEF HeldAt
    <3>3. CASE ~(h < Len(chain) - n)
      <4>1. h + 1 \in Len(chain) - n + 1 .. Len(chain)
        BY <2>1, <3>1, <3>3, <1>h
      <4> QED
        BY <3>1, <4>1
    <3> QED
      BY <3>2, <3>3
  <2> HIDE DEF undone
  <2> QED
    BY <2>1, <2>2, <2>5 DEF TouchInv
<1>3. CASE OnBlock
  <2> DEFINE tbp == Put(touched_bp, db_height, bp_touched)
  <2>1. /\ bp_pc = "flushed" /\ bp_pc' = "idle" /\ chain' = chain /\ bp_touched' = {}
        /\ MaybeNotify(touched_mp, tbp, db_height)
    BY <1>3 DEF OnBlock
  <2>2. /\ DOMAIN tbp = DOMAIN touched_bp \cup {db_height} /\ tbp[db_height] = bp_touched
        /\ \A h \in DOMAIN touched_bp : h # db_height => tbp[h] = touched_bp[h]
    BY DEF Put
  <2>3. DOMAIN tbp \subseteq 0 .. daemon_height
    BY <2>2, <1>h
  <2> HIDE DEF tbp
  <2>4. /\ owed_bp' \subseteq owed_bp
        /\ \A x \in owed_bp' : \A h \in DOMAIN tbp :
              x \in tbp[h] => h \in DOMAIN touched_bp' /\ touched_bp'[h] = tbp[h]
        /\ owed_bp' = {} \/ reorgs' = reorgs
    BY <2>1, <2>3, <1>h, NotifyKeeps
  <2>5. NextHeight = db_height /\ NextHeight' = db_height + 1 /\ db_height \in Nat
        /\ db_height + 1 = Len(chain)
    BY <2>1, <1>h DEF NextHeight, db_height
  <2>6. ASSUME NEW x \in owed_bp'
        PROVE  \E h \in DOMAIN touched_bp' : HeldAt(h, x)'
    <3>1. reorgs' = reorgs /\ x \in owed_bp
      BY <2>4, <2>6
    <3>2. CASE x \in bp_touched
      <4>1. db_height \in DOMAIN touched_bp' /\ x \in touched_bp'[db_height]
        BY <2>2, <2>4, <2>6, <3>2
      <4>2. reorgs' = 0 => x \in chain'[db_height + 1]
        BY <2>1, <2>5, <3>1, <3>2 DEF TouchInv
      <4> QED
        BY <2>5, <4>1, <4>2 DEF HeldAt
    <3>3. ASSUME NEW h \in DOMAIN touched_bp, HeldAt(h, x)
          PROVE  h \in DOMAIN touched_bp' /\ HeldAt(h, x)'
      <4>1. h < db_height /\ h \in Nat
        BY <2>5, <3>3, <1>i DEF HeldAt
      <4>2. h \in DOMAIN tbp /\ x \in tbp[h] /\ h # db_height
        BY <2>2, <2>5, <3>3, <4>1 DEF HeldAt
      <4>3. h \in DOMAIN touched_bp' /\ x \in touched_bp'[h]
        BY <2>4, <2>6, <4>2
      <4> QED
        BY <2>1, <2>5, <3>1, <3>3, <4>1, <4>3 DEF HeldAt
    <3> QED
      BY <3>1, <3>2, <3>3 DEF TouchInv
  <2> QED
    BY <2>1, <2>6 DEF TouchInv
<1>4. CASE OnMempool
  <2> DEFINE tmp == Put(touched_mp, refresh.height, mp_touched)
  <2>1. MaybeNotify(tmp, touched_bp, highest_block)
        /\ bp_pc' = bp_pc /\ chain' = chain /\ bp_touched' = bp_touched
    BY <1>4 DEF OnMempool
  <2>2. DOMAIN tmp = DOMAIN touched_mp \cup {refresh.height} /\ tmp = [h \in DOMAIN tmp |-> tmp[h]]
    BY DEF Put
  <2>3. refresh.height \in 0 .. daemon_height
    BY <1>4 DEF OnMempool, HeightsOK, Idle
  <2>4. DOMAIN tmp \subseteq 0 .. daemon_height
    BY <2>2, <2>3, <1>h
  <2> HIDE DEF tmp
  <2>5. /\ owed_bp' \subseteq owed_bp
        /\ \A x \in owed_bp' : \A h \in DOMAIN touched_bp :
              x \in touched_bp[h] => h \in DOMAIN touched_bp' /\ touched_bp'[h] = touched_bp[h]
        /\ owed_bp' = {} \/ reorgs' = reorgs
    BY <2>1, <2>2, <2>4, <1>h, NotifyKeeps
  <2>6. NextHeight' = NextHeight
    BY <2>1 DEF NextHeight
  <2>7. ASSUME NEW x \in owed_bp', NEW h \in DOMAIN touched_bp, HeldAt(h, x)
        PROVE  h \in DOMAIN touched_bp' /\ HeldAt(h, x)'
    BY <2>1, <2>5, <2>6, <2>7 DEF HeldAt
  <2> QED
    BY <2>1, <2>5, <2>7 DEF TouchInv
<1>5. CASE UNCHANGED <<touched_bp, chain, bp_touched, bp_pc, owed_bp, reorgs>>
  BY <1>5 DEF TouchInv, HeldAt, NextHeight
<1> QED
  BY <1>1, <1>2, <1>3, <1>4, <1>5
  DEF Next, RefreshBegin, RefreshAccepts, RefreshFails, DaemonAdvances, notif, vars

\* An address touched by a block, or by the undoing of one, is held until clients are
\* told of it, however blocks, refreshes and one reorganisation at a time interleave
\* (on_block, on_mempool, _maybe_notify).  With two reorganisations it is not.
THEOREM TouchesAreKept ==
    ASSUME NotificationsAssumption, MaxReorgs <= 1
    PROVE  Spec => []BlockTouchesKept
<1>1. Init => HeightsOK /\ TouchInv
  BY InitHeights DEF Init, TouchInv
<1>2. HeightsOK /\ TouchInv /\ [Next]_vars => HeightsOK' /\ TouchInv'
  BY HeightsStep, TouchStep
<1>3. TouchInv => BlockTouchesKept
  BY DEF TouchInv, HeldAt, BlockTouchesKept, Pending
<1> QED
  BY <1>1, <1>2, <1>3, PTL DEF Spec

(* The heights that are told.                                               *)

\* No set of the mempool is at a height below the last one told, and the refresh in
\* progress is at none below theirs: refreshes begin at the daemon's height.
ToldInv ==
    /\ told \in 0 .. daemon_height
    /\ \A h \in DOMAIN touched_mp : told <= h
    /\ refresh # Idle => /\ told <= refresh.height
                         /\ \A h \in DOMAIN touched_mp : h <= refresh.height

\* Notifying keeps ToldInv and does not lower the height told.
LEMMA NotifyRises ==
    ASSUME NEW tmp, NEW tbp, NEW highest, NEW n \in Nat,
           DOMAIN tmp \subseteq 0 .. n, DOMAIN tbp \subseteq 0 .. n,
           tmp = [h \in DOMAIN tmp |-> tmp[h]],
           told \in 0 .. n, \A h \in DOMAIN tmp : told <= h,
           MaybeNotify(tmp, tbp, highest)
    PROVE  /\ told' >= told /\ (told' = told \/ told' \in DOMAIN tmp)
           /\ DOMAIN touched_mp' \subseteq DOMAIN tmp
           /\ \A h \in DOMAIN touched_mp' : told' <= h
<1>1. CASE touched_mp' = tmp /\ touched_bp' = tbp /\ UNCHANGED <<owed_bp, owed_mp, told, reorgs>>
  BY <1>1
<1>2. ASSUME NEW height \in DOMAIN tmp, touched_mp' = Above(tmp, height), told' = height
      PROVE  /\ told' >= told /\ told' \in DOMAIN tmp
             /\ DOMAIN touched_mp' \subseteq DOMAIN tmp
             /\ \A h \in DOMAIN touched_mp' : told' <= h
  <2>1. \A h \in DOMAIN tmp : h \in Int
    OBVIOUS
  <2> QED
    BY <1>2, <2>1 DEF Above
<1> QED
  BY <1>1, <1>2, NotifyCases

\* Every step keeps ToldInv, and tells no lower height.
LEMMA ToldStep ==
    ASSUME NotificationsAssumption, HeightsOK, ToldInv, [Next]_vars
    PROVE  ToldInv' /\ told' >= told
<1>h. /\ daemon_height \in Nat /\ told \in 0 .. daemon_height
      /\ DOMAIN touched_bp \subseteq 0 .. daemon_height
      /\ DOMAIN touched_mp \subseteq 0 .. daemon_height
      /\ touched_mp = [h \in DOMAIN touched_mp |-> touched_mp[h]]
      /\ db_height \in 0 .. daemon_height
      /\ refresh = Idle \/ refresh.height \in 0 .. daemon_height
  BY DEF HeightsOK, NotificationsAssumption, db_height, ToldInv
<1>i. \A h \in DOMAIN touched_mp : h \in 0 .. daemon_height
  BY <1>h
<1>1. ASSUME NEW S \in Touches, RefreshBegin(S)
      PROVE  ToldInv' /\ told' >= told
  <2>1. /\ refresh'.height = daemon_height /\ touched_mp' = touched_mp /\ told' = told
        /\ daemon_height' = daemon_height
    BY <1>1 DEF RefreshBegin, notif
  <2> QED
    BY <2>1, <1>h, <1>i DEF ToldInv
<1>2. ASSUME NEW S \in Touches, RefreshAccepts(S)
      PROVE  ToldInv' /\ told' >= told
  <2>1. /\ refresh # Idle /\ touched_mp' = touched_mp /\ told' = told /\ daemon_height' = daemon_height
        /\ refresh' = [refresh EXCEPT !.done = TRUE]
    BY <1>2 DEF RefreshAccepts, notif
  <2>2. refresh'.height = refresh.height
    BY <2>1
  <2> QED
    BY <2>1, <2>2, <1>h DEF ToldInv
<1>3. CASE OnBlock
  <2> DEFINE tbp == Put(touched_bp, db_height, bp_touched)
  <2>1. MaybeNotify(touched_mp, tbp, db_height) /\ refresh' = refresh /\ daemon_height' = daemon_height
    BY <1>3 DEF OnBlock
  <2>2. DOMAIN tbp \subseteq 0 .. daemon_height
    BY <1>h DEF Put
  <2> HIDE DEF tbp
  <2>3. /\ told' >= told /\ (told' = told \/ told' \in DOMAIN touched_mp)
        /\ DOMAIN touched_mp' \subseteq DOMAIN touched_mp
        /\ \A h \in DOMAIN touched_mp' : told' <= h
    BY <2>1, <2>2, <1>h, NotifyRises DEF ToldInv
  <2> QED
    BY <2>1, <2>3, <1>h, <1>i DEF ToldInv
<1>4. CASE OnMempool
  <2> DEFINE tmp == Put(touched_mp, refresh.height, mp_touched)
  <2>1. /\ MaybeNotify(tmp, touched_bp, highest_block) /\ refresh' = Idle /\ refresh # Idle
        /\ daemon_height' = daemon_height
    BY <1>4 DEF OnMempool, Idle
  <2>2. DOMAIN tmp = DOMAIN touched_mp \cup {refresh.height} /\ tmp = [h \in DOMAIN tmp |-> tmp[h]]
    BY DEF Put
  <2>3. DOMAIN tmp \subseteq 0 .. daemon_height /\ \A h \in DOMAIN tmp : told <= h
    BY <2>1, <2>2, <1>h DEF ToldInv
  <2> HIDE DEF tmp
  <2>4. /\ told' >= told /\ (told' = told \/ told' \in DOMAIN tmp)
        /\ \A h \in DOMAIN touched_mp' : told' <= h
    BY <2>1, <2>2, <2>3, <1>h, NotifyRises
  <2> QED
    BY <2>1, <2>3, <2>4, <1>h DEF ToldInv
<1>5. CASE RefreshFails
  BY <1>5, <1>h DEF RefreshFails, ToldInv, notif
<1>6. CASE DaemonAdvances
  BY <1>6, <1>h DEF DaemonAdvances, ToldInv, notif
<1>7. CASE UNCHANGED <<told, daemon_height, touched_mp, refresh>>
  BY <1>7, <1>h DEF ToldInv
<1> QED
  BY <1>1, <1>2, <1>3, <1>4, <1>5, <1>6, <1>7
  DEF Next, AdvanceAndFlush, BackupBlocks, notif, vars

\* Clients are told of heights in their order, whatever is reorganised meanwhile
\* (_maybe_notify).
THEOREM ToldHeightsAdvance ==
    ASSUME NotificationsAssumption
    PROVE  Spec => HeightsAdvance
<1>1. Init => HeightsOK /\ ToldInv
  <2> SUFFICES ASSUME Init PROVE HeightsOK /\ ToldInv
    OBVIOUS
  <2>1. DOMAIN touched_mp = {}
    BY DEF Init
  <2> QED
    BY <2>1, InitHeights DEF Init, ToldInv
<1>2. HeightsOK /\ ToldInv /\ [Next]_vars => HeightsOK' /\ ToldInv' /\ [told' >= told]_vars
  BY HeightsStep, ToldStep
<1> QED
  BY <1>1, <1>2, PTL DEF Spec, HeightsAdvance

-----------------------------------------------------------------------------
(* The refresh.                                                             *)

Outpoints == UNION { Prevouts[t] : t \in Tx }

Steps == {"start", "hashes", "height", "lock", "process", "spawned", "gather", "announce"}

RefreshStates == [pc : Steps, height : Nat, hashes : SUBSET Tx, gen : {0, 1}]

TaskStates == [pc : {"fetch", "lookup", "accept"}, hashes : SUBSET Tx,
               found : SUBSET Outpoints, all : SUBSET Tx, gen : {0, 1}, live : BOOLEAN]

MempoolTypes ==
    /\ pool \in SUBSET Tx /\ mined \in Seq(SUBSET Tx) /\ evicted \in SUBSET Tx
    /\ txs \in SUBSET Tx /\ gone \in SUBSET Tx
    /\ rf \in RefreshStates /\ tasks \in SUBSET TaskStates
    /\ gathered \in (SUBSET Tx) \X (SUBSET Outpoints)

\* Heights only rise: the refresh's was the daemon's when it was read.
HeightsRise ==
    /\ cached \in Nat /\ cached =< Len(mined)
    /\ rf.height =< cached

\* A transaction is mined once, and is in the daemon's mempool before that only.
MinedOnce ==
    /\ \A i, j \in 1 .. Len(mined) : i # j => mined[i] \cap mined[j] = {}
    /\ \A i \in 1 .. Len(mined) : mined[i] \cap pool = {}

\* The tasks in flight are those of the present refresh.
OwnTasks ==
    /\ rf.pc \in {"hashes", "height", "lock", "process", "announce"} => tasks = {}
    /\ \A k \in tasks : k.gen = rf.gen /\ (rf.pc \in {"spawned", "gather"} => k.live)

\* All that the mempool has heard of is alive, or was dropped by the daemon.
Known == Mp!Alive \cup evicted

HeardOf ==
    /\ txs \subseteq Known /\ rf.hashes \subseteq Known /\ gathered[1] \subseteq Known
    /\ \A k \in tasks : k.hashes \subseteq Known

\* What has disappeared is mined, at the refresh's height once that is confirmed.
Disappeared ==
    /\ Mp!At("height") => txs \ rf.hashes \subseteq Mp!Confirmed(Len(mined)) \cup evicted
    /\ rf.pc \in {"lock", "process"} =>
          txs \ rf.hashes \subseteq Mp!Confirmed(rf.height) \cup evicted
    /\ gone \ (txs \cup evicted) \subseteq Mp!Confirmed(rf.height)

\* No fetch and no refresh with the lock while the histogram is computed.
HistogramAlone == histogram => ~Mp!Locked /\ tasks = {}

MempoolInv ==
    /\ MempoolTypes /\ HeightsRise /\ MinedOnce /\ OwnTasks /\ HeardOf /\ Disappeared
    /\ HistogramAlone /\ Mp!ChangesAnnounced

-----------------------------------------------------------------------------
LEMMA PassWithin ==
    ASSUME NEW S, NEW order \in Mp!SetToSeqs(S), NEW found, NEW accepted
    PROVE  Mp!AcceptPass(order, found, accepted) \subseteq accepted \cup S
<1>1. \A i \in DOMAIN order : order[i] \in S
  BY DEF Mp!SetToSeqs
<1> QED
  BY <1>1, Zenon DEF Mp!AcceptPass

LEMMA RoundsWithin ==
    ASSUME NEW pending, NEW found, NEW accepted
    PROVE  Mp!AcceptRounds(pending, found, accepted) \subseteq accepted \cup pending
BY DEF Mp!AcceptRounds

\* Blocks that are added leave those below them.
LEMMA ConfirmedGrows ==
    ASSUME mined \in Seq(SUBSET Tx), NEW S \in SUBSET Tx, mined' = Append(mined, S),
           NEW n \in Nat, n =< Len(mined)
    PROVE  /\ UNION { mined'[i] : i \in 1 .. n } = Mp!Confirmed(n)
           /\ UNION { mined'[i] : i \in 1 .. Len(mined') } = Mp!Confirmed(Len(mined)) \cup S
<1>1. Len(mined') = Len(mined) + 1 /\ mined'[Len(mined) + 1] = S
  OBVIOUS
<1>2. \A i \in 1 .. Len(mined) : mined'[i] = mined[i]
  OBVIOUS
<1>3. Len(mined) \in Nat
  OBVIOUS
<1>4. \A i : i \in 1 .. n => i \in 1 .. Len(mined)
  BY <1>3
<1>5. \A i : i \in 1 .. Len(mined) + 1 <=> i \in 1 .. Len(mined) \/ i = Len(mined) + 1
  BY <1>3
<1>6. ASSUME NEW i \in 1 .. n PROVE mined'[i] = mined[i]
  BY <1>2, <1>4, Zenon
<1>7. UNION { mined'[i] : i \in 1 .. n } = Mp!Confirmed(n)
  BY <1>6, Zenon DEF Mp!Confirmed
<1>8. ASSUME NEW x PROVE x \in UNION { mined'[i] : i \in 1 .. Len(mined') }
                           <=> x \in Mp!Confirmed(Len(mined)) \cup S
  <2>1. x \in UNION { mined'[i] : i \in 1 .. Len(mined') }
           <=> \E i \in 1 .. Len(mined) + 1 : x \in mined'[i]
    BY <1>1, Zenon
  <2>2. x \in Mp!Confirmed(Len(mined)) <=> \E i \in 1 .. Len(mined) : x \in mined[i]
    BY Zenon DEF Mp!Confirmed
  <2> QED
    BY <2>1, <2>2, <1>1, <1>2, <1>5
<1> QED
  BY <1>7, <1>8

LEMMA ConfirmedMonotone ==
    ASSUME NEW m \in Nat, NEW n \in Nat, m =< n
    PROVE  Mp!Confirmed(m) \subseteq Mp!Confirmed(n)
<1>1. \A i : i \in 1 .. m => i \in 1 .. n
  OBVIOUS
<1> QED
  BY <1>1, Zenon DEF Mp!Confirmed

-----------------------------------------------------------------------------
LEMMA InitInv == Mp!Init => MempoolInv
<1> SUFFICES ASSUME Mp!Init PROVE MempoolInv
  OBVIOUS
<1> USE DEF Mp!Init
<1>1. MempoolTypes
  BY DEF MempoolTypes, RefreshStates, Steps
<1>2. HeightsRise /\ MinedOnce
  BY DEF HeightsRise, MinedOnce
<1>3. OwnTasks /\ HistogramAlone /\ Mp!ChangesAnnounced
  BY DEF OwnTasks, HistogramAlone, Mp!ChangesAnnounced
<1>4. HeardOf /\ Disappeared
  BY DEF HeardOf, Disappeared, Mp!At
<1> QED
  BY <1>1, <1>2, <1>3, <1>4 DEF MempoolInv

\* The daemon takes, drops and mines transactions.
LEMMA DaemonStep ==
    ASSUME MempoolInv,
           (\E t \in Tx : Mp!DaemonAccepts(t) \/ Mp!DaemonEvicts(t))
              \/ \E S \in SUBSET pool : Mp!DaemonMines(S)
    PROVE  MempoolInv'
<1> USE DEF MempoolInv, Mp!ext, Mp!mem
<1>1. ASSUME NEW t \in Tx, Mp!DaemonAccepts(t) PROVE MempoolInv'
  <2> USE <1>1 DEF Mp!DaemonAccepts
  <2>1. MempoolTypes' /\ HeightsRise' /\ OwnTasks' /\ HistogramAlone' /\ Mp!ChangesAnnounced'
    BY DEF MempoolTypes, HeightsRise, OwnTasks, HistogramAlone, Mp!Locked, Mp!ChangesAnnounced
  <2>2. MinedOnce'
    <3>1. \A i \in 1 .. Len(mined) : t \notin mined[i]
      BY Zenon DEF Mp!Alive, Mp!Confirmed
    <3> QED
      BY <3>1 DEF MinedOnce
  <2>3. HeardOf'
    BY DEF HeardOf, Known, Mp!Alive, Mp!Confirmed
  <2>4. Disappeared'
    BY DEF Disappeared, Mp!At, Mp!Confirmed
  <2> QED
    BY <2>1, <2>2, <2>3, <2>4
<1>2. ASSUME NEW t \in Tx, Mp!DaemonEvicts(t) PROVE MempoolInv'
  <2> USE <1>2 DEF Mp!DaemonEvicts
  <2>1. MempoolTypes' /\ HeightsRise' /\ OwnTasks' /\ HistogramAlone' /\ Mp!ChangesAnnounced'
    BY DEF MempoolTypes, HeightsRise, OwnTasks, HistogramAlone, Mp!Locked, Mp!ChangesAnnounced
  <2>2. MinedOnce'
    BY Zenon DEF MinedOnce
  <2>3. HeardOf'
    BY DEF HeardOf, Known, Mp!Alive, Mp!Confirmed
  <2>4. Disappeared'
    BY DEF Disappeared, Mp!At, Mp!Confirmed
  <2> QED
    BY <2>1, <2>2, <2>3, <2>4
<1>3. ASSUME NEW S \in SUBSET pool, Mp!DaemonMines(S) PROVE MempoolInv'
  <2> USE <1>3 DEF Mp!DaemonMines
  <2>1. MempoolTypes' /\ HeightsRise' /\ OwnTasks' /\ HistogramAlone' /\ Mp!ChangesAnnounced'
    BY DEF MempoolTypes, RefreshStates, HeightsRise, OwnTasks, HistogramAlone, Mp!Locked,
           Mp!ChangesAnnounced
  <2>2. S \in SUBSET Tx /\ mined \in Seq(SUBSET Tx) /\ Len(mined) \in Nat
    BY DEF MempoolTypes
  <2>3. rf.height \in Nat /\ rf.height =< Len(mined)
    BY <2>2 DEF MempoolTypes, RefreshStates, HeightsRise
  <2>4. MinedOnce'
    <3>1. \A i \in 1 .. Len(mined) : mined'[i] = mined[i]
      BY <2>2
    <3>2. mined'[Len(mined) + 1] = S /\ Len(mined') = Len(mined) + 1
      BY <2>2
    <3>3. \A i : i \in 1 .. Len(mined') => i \in 1 .. Len(mined) \/ i = Len(mined) + 1
      BY <2>2, <3>2
    <3>4. \A i \in 1 .. Len(mined) : mined[i] \cap S = {} /\ mined[i] \cap pool' = {}
      BY DEF MinedOnce
    <3>5. S \cap pool' = {}
      OBVIOUS
    <3>6. \A i, j \in 1 .. Len(mined) : i # j => mined[i] \cap mined[j] = {}
      BY DEF MinedOnce
    <3>7. ASSUME NEW i \in 1 .. Len(mined'), NEW j \in 1 .. Len(mined'), i # j
          PROVE  mined'[i] \cap mined'[j] = {}
      BY <3>1, <3>2, <3>3, <3>4, <3>6, <3>7
    <3>8. ASSUME NEW i \in 1 .. Len(mined') PROVE mined'[i] \cap pool' = {}
      BY <3>1, <3>2, <3>3, <3>4, <3>5
    <3> QED
      BY <3>7, <3>8 DEF MinedOnce
  <2>5. /\ UNION { mined'[i] : i \in 1 .. rf.height } = Mp!Confirmed(rf.height)
        /\ UNION { mined'[i] : i \in 1 .. Len(mined') } = Mp!Confirmed(Len(mined)) \cup S
    BY <2>2, <2>3, ConfirmedGrows
  <2>6. Known' = Known
    BY <2>5 DEF Known, Mp!Alive, Mp!Confirmed
  <2>7. HeardOf'
    BY <2>6 DEF HeardOf
  <2>8. Mp!Confirmed(rf.height)' = Mp!Confirmed(rf.height)
    BY <2>5 DEF Mp!Confirmed
  <2>9. Mp!Confirmed(Len(mined))' = Mp!Confirmed(Len(mined)) \cup S
    BY <2>5 DEF Mp!Confirmed
  <2>10. Disappeared'
    BY <2>8, <2>9 DEF Disappeared, Mp!At
  <2> QED
    BY <2>1, <2>4, <2>7, <2>10
<1> QED
  BY <1>1, <1>2, <1>3

\* The height is polled, a block indexed, the histogram computed.
LEMMA AroundStep ==
    ASSUME PromptTasks, MempoolInv,
           Mp!HeightPolled \/ Mp!BlockIndexed \/ Mp!HistogramBegins \/ Mp!HistogramEnds
    PROVE  MempoolInv'
<1> USE DEF MempoolInv, Mp!ext, Mp!mem, Mp!HeightPolled, Mp!BlockIndexed, Mp!HistogramBegins,
            Mp!HistogramEnds
<1>1. MempoolTypes' /\ OwnTasks' /\ Mp!ChangesAnnounced'
  BY DEF MempoolTypes, OwnTasks, Mp!ChangesAnnounced
<1>2. HeightsRise'
  BY DEF HeightsRise, MempoolTypes, RefreshStates
<1>3. MinedOnce' /\ HistogramAlone'
  BY DEF MinedOnce, HistogramAlone, Mp!Locked
<1>4. HeardOf' /\ Disappeared'
  BY DEF HeardOf, Disappeared, Mp!At, Known, Mp!Alive, Mp!Confirmed
<1> QED
  BY <1>1, <1>2, <1>3, <1>4

\* The refresh, until it has the lock and the database's height.
LEMMA BeforeProcessing ==
    ASSUME PromptTasks, MempoolInv,
           Mp!ReadHeight \/ Mp!GetHashes \/ Mp!CheckHeight \/ Mp!TakeLock \/ Mp!NotSynced
    PROVE  MempoolInv'
<1> USE DEF MempoolInv, Mp!ext, Mp!mem, Mp!At, Mp!Goto
<1>0. rf \in RefreshStates /\ mined \in Seq(SUBSET Tx) /\ Len(mined) \in Nat
  BY DEF MempoolTypes
<1>1. ASSUME Mp!ReadHeight PROVE MempoolInv'
  <2> USE <1>1 DEF Mp!ReadHeight
  <2>1. /\ rf' \in RefreshStates /\ rf'.pc = "hashes" /\ rf'.height = cached
        /\ rf'.hashes = rf.hashes /\ rf'.gen = rf.gen
    BY <1>0 DEF RefreshStates, Steps, HeightsRise
  <2>2. Mp!Confirmed(rf.height) \subseteq Mp!Confirmed(cached)
    BY <1>0, ConfirmedMonotone DEF HeightsRise, RefreshStates
  <2>3. MempoolTypes' /\ HeightsRise' /\ MinedOnce' /\ OwnTasks' /\ HistogramAlone'
           /\ Mp!ChangesAnnounced'
    BY <2>1 DEF MempoolTypes, HeightsRise, MinedOnce, OwnTasks, HistogramAlone, Mp!Locked,
                Mp!ChangesAnnounced
  <2>4. HeardOf'
    BY <2>1 DEF HeardOf, Known, Mp!Alive, Mp!Confirmed
  <2>5. Mp!Confirmed(rf.height)' = Mp!Confirmed(cached)
    BY <2>1 DEF Mp!Confirmed
  <2>6. Disappeared'
    BY <2>1, <2>2, <2>5 DEF Disappeared
  <2> QED
    BY <2>3, <2>4, <2>6
<1>2. ASSUME Mp!GetHashes PROVE MempoolInv'
  <2> USE <1>2 DEF Mp!GetHashes
  <2>1. /\ rf' \in RefreshStates /\ rf'.pc = "height" /\ rf'.height = rf.height
        /\ rf'.hashes = pool /\ rf'.gen = rf.gen
    BY <1>0 DEF RefreshStates, Steps, MempoolTypes
  <2>2. MempoolTypes' /\ HeightsRise' /\ MinedOnce' /\ OwnTasks' /\ HistogramAlone'
           /\ Mp!ChangesAnnounced'
    BY <2>1 DEF MempoolTypes, HeightsRise, MinedOnce, OwnTasks, HistogramAlone, Mp!Locked,
                Mp!ChangesAnnounced
  <2>3. HeardOf'
    BY <2>1 DEF HeardOf, Known, Mp!Alive, Mp!Confirmed
  <2>4. /\ Mp!Confirmed(rf.height)' = Mp!Confirmed(rf.height)
        /\ Mp!Confirmed(Len(mined))' = Mp!Confirmed(Len(mined))
    BY <2>1 DEF Mp!Confirmed
  <2>5. txs \ pool \subseteq Mp!Confirmed(Len(mined)) \cup evicted
    BY DEF HeardOf, Known, Mp!Alive
  <2>6. Disappeared'
    BY <2>1, <2>4, <2>5 DEF Disappeared
  <2> QED
    BY <2>2, <2>3, <2>6
<1>3. ASSUME Mp!CheckHeight PROVE MempoolInv'
  <2> USE <1>3 DEF Mp!CheckHeight
  <2>1. /\ rf' \in RefreshStates /\ rf'.height = rf.height
        /\ rf'.pc = IF rf.height = Len(mined) THEN "lock" ELSE "start"
        /\ rf'.hashes = rf.hashes /\ rf'.gen = rf.gen
    BY <1>0 DEF RefreshStates, Steps
  <2>2. MempoolTypes' /\ HeightsRise'
    BY <1>0, <2>1 DEF MempoolTypes, HeightsRise, RefreshStates
  <2>3. MinedOnce' /\ OwnTasks' /\ HistogramAlone' /\ Mp!ChangesAnnounced'
    BY <2>1 DEF MinedOnce, OwnTasks, HistogramAlone, Mp!Locked, Mp!ChangesAnnounced
  <2>4. HeardOf'
    BY <2>1 DEF HeardOf, Known, Mp!Alive, Mp!Confirmed
  <2>5. Mp!Confirmed(rf.height)' = Mp!Confirmed(rf.height)
    BY <2>1 DEF Mp!Confirmed
  <2>6. Disappeared'
    BY <2>1, <2>5 DEF Disappeared
  <2> QED
    BY <2>2, <2>3, <2>4, <2>6
<1>4. ASSUME Mp!TakeLock \/ Mp!NotSynced PROVE MempoolInv'
  <2> USE <1>4 DEF Mp!TakeLock, Mp!NotSynced
  <2>1. /\ rf' \in RefreshStates /\ rf'.height = rf.height
        /\ \/ rf'.pc = "process" /\ rf.pc = "lock" /\ ~histogram
           \/ rf'.pc = "start" /\ rf.pc = "process"
        /\ rf'.hashes = rf.hashes /\ rf'.gen = rf.gen
    <3>1. CASE Mp!TakeLock
      BY <3>1, <1>0 DEF RefreshStates, Steps
    <3>2. CASE Mp!NotSynced
      BY <3>2, <1>0 DEF RefreshStates, Steps
    <3> QED
      BY <3>1, <3>2
  <2>2. MempoolTypes' /\ HeightsRise'
    BY <2>1 DEF MempoolTypes, HeightsRise
  <2>3. MinedOnce' /\ OwnTasks' /\ HistogramAlone' /\ Mp!ChangesAnnounced'
    BY <2>1 DEF MinedOnce, OwnTasks, HistogramAlone, Mp!Locked, Mp!ChangesAnnounced
  <2>4. HeardOf'
    BY <2>1 DEF HeardOf, Known, Mp!Alive, Mp!Confirmed
  <2>5. Mp!Confirmed(rf.height)' = Mp!Confirmed(rf.height)
    BY <2>1 DEF Mp!Confirmed
  <2>6. Disappeared'
    BY <2>1, <2>5 DEF Disappeared
  <2> QED
    BY <2>2, <2>3, <2>4, <2>6
<1> QED
  BY <1>1, <1>2, <1>3, <1>4

\* The confirmed transactions and those heard of are the same after a step that
\* leaves the daemon and the refresh's height.
LEMMA SameChain ==
    ASSUME UNCHANGED <<pool, mined, evicted>>, rf'.height = rf.height
    PROVE  /\ Known' = Known /\ Mp!Confirmed(rf.height)' = Mp!Confirmed(rf.height)
           /\ Mp!Confirmed(Len(mined))' = Mp!Confirmed(Len(mined))
BY DEF Known, Mp!Alive, Mp!Confirmed

\* What has gone is taken out and fetches are spawned.
LEMMA ProcessStep ==
    ASSUME PromptTasks, MempoolInv, Mp!Process
    PROVE  MempoolInv'
<1> USE DEF MempoolInv
<1> DEFINE old == txs \ rf.hashes
           new == rf.hashes \ txs
           spawn(c) == [pc |-> "fetch", hashes |-> c, found |-> {}, all |-> rf.hashes,
                        gen |-> rf.gen, live |-> TRUE]
<1>0. rf \in RefreshStates /\ txs \in SUBSET Tx /\ gone \in SUBSET Tx /\ tasks = {}
  BY DEF MempoolTypes, OwnTasks, Mp!Process, Mp!At
<1>1. /\ txs' = txs \ old /\ gone' = gone \cup old /\ gathered' = <<{}, {}>>
      /\ touched' = touched \cup UNION { Mp!Addresses(t) : t \in old }
      /\ owed' = owed \cup UNION { Mp!Addresses(t) : t \in old }
      /\ UNCHANGED <<pool, mined, cached, mp_height, evicted, histogram, quiet>>
  BY DEF Mp!Process, Mp!ext, Mp!TouchRemoved
<1>2. PICK chunking \in Mp!Chunkings(new) : tasks' = { spawn(c) : c \in chunking }
  BY <1>0 DEF Mp!Process
<1>3. \A c \in chunking : c \subseteq new
  BY DEF Mp!Chunkings
<1>4. /\ rf' \in RefreshStates /\ rf'.height = rf.height /\ rf'.hashes = rf.hashes
      /\ rf'.gen = rf.gen /\ rf.pc = "process"
      /\ rf'.pc = IF new = {} THEN "announce" ELSE "spawned"
  BY <1>0 DEF Mp!Process, Mp!At, Mp!Goto, RefreshStates, Steps
<1>5. \A k \in tasks' : /\ k.hashes \subseteq new /\ k.gen = rf.gen /\ k.live
                        /\ k \in TaskStates
  <2>1. \A c \in chunking : spawn(c) \in TaskStates
    BY <1>0, <1>3 DEF TaskStates, RefreshStates
  <2> QED
    BY <1>2, <1>3, <2>1
<1>6. new = {} => tasks' = {}
  <2>1. SUFFICES ASSUME new = {}, NEW k \in tasks' PROVE FALSE
    OBVIOUS
  <2>2. PICK c \in chunking : TRUE
    BY <1>2, <2>1
  <2>3. c # {} /\ c \subseteq new
    BY <1>3 DEF Mp!Chunkings
  <2> QED
    BY <2>1, <2>3
<1>7. MempoolTypes' /\ HeightsRise'
  BY <1>0, <1>1, <1>4, <1>5 DEF MempoolTypes, HeightsRise
<1>8. MinedOnce' /\ OwnTasks'
  BY <1>1, <1>4, <1>5, <1>6 DEF MinedOnce, OwnTasks
<1>9. Mp!ChangesAnnounced' /\ HistogramAlone'
  BY <1>1, <1>4 DEF Mp!ChangesAnnounced, HistogramAlone, Mp!Locked
<1>10. Known' = Known /\ Mp!Confirmed(rf.height)' = Mp!Confirmed(rf.height)
  BY <1>1, <1>4, SameChain
<1>11. HeardOf'
  BY <1>1, <1>4, <1>5, <1>10 DEF HeardOf
<1>12. Disappeared'
  <2>1. old \subseteq Mp!Confirmed(rf.height) \cup evicted
    BY <1>4 DEF Disappeared
  <2> QED
    BY <1>1, <1>4, <1>10, <2>1 DEF Disappeared, Mp!At
<1> QED
  BY <1>7, <1>8, <1>9, <1>11, <1>12

\* Abandoned tasks live on, but within the present generation of touched.
LEMMA AbandonStep ==
    ASSUME PromptTasks, MempoolInv, Mp!Abandon \/ Mp!Await
    PROVE  MempoolInv'
<1> USE DEF MempoolInv
<1> DEFINE left(k) == [k EXCEPT !.live = FALSE]
<1>0. rf \in RefreshStates /\ tasks \in SUBSET TaskStates
  BY DEF MempoolTypes
<1>1. /\ UNCHANGED <<pool, mined, cached, mp_height, evicted, histogram, quiet, txs, gone,
                     touched, owed, gathered>>
  BY DEF Mp!Abandon, Mp!Await, Mp!ext, Mp!mem
<1>2. /\ rf' \in RefreshStates /\ rf'.height = rf.height /\ rf'.hashes = rf.hashes
      /\ rf'.gen = rf.gen /\ rf.pc = "spawned"
      /\ \/ rf'.pc = "start" /\ tasks' = { left(k) : k \in tasks }
         \/ rf'.pc = "gather" /\ tasks' = tasks
  <2>1. CASE Mp!Abandon
    BY <2>1, <1>0 DEF Mp!Abandon, Mp!At, Mp!Goto, RefreshStates, Steps
  <2>2. CASE Mp!Await
    BY <2>2, <1>0 DEF Mp!Await, Mp!At, Mp!Goto, RefreshStates, Steps
  <2> QED
    BY <2>1, <2>2
<1>3. \A k \in tasks : /\ left(k) \in TaskStates /\ left(k).hashes = k.hashes
                       /\ left(k).gen = k.gen
  BY <1>0 DEF TaskStates
<1>4. \A k \in tasks' : \E j \in tasks : /\ k.hashes = j.hashes /\ k.gen = j.gen
                                         /\ k \in TaskStates /\ (rf'.pc # "start" => k = j)
  <2>1. CASE tasks' = { left(k) : k \in tasks } /\ rf'.pc = "start"
    <3> SUFFICES ASSUME NEW k \in tasks'
                 PROVE \E j \in tasks : k.hashes = j.hashes /\ k.gen = j.gen /\ k \in TaskStates
      BY <2>1
    <3>1. PICK j \in tasks : k = left(j)
      BY <2>1
    <3> HIDE DEF left
    <3> QED
      BY <1>3, <3>1
  <2>2. CASE tasks' = tasks
    BY <1>0, <2>2
  <2> QED
    BY <1>2, <2>1, <2>2
<1>5. MempoolTypes' /\ HeightsRise'
  BY <1>0, <1>1, <1>2, <1>4 DEF MempoolTypes, HeightsRise
<1>6. MinedOnce'
  BY <1>1 DEF MinedOnce
<1>7. OwnTasks'
  BY <1>2, <1>4 DEF OwnTasks
<1>8. Mp!ChangesAnnounced' /\ HistogramAlone'
  BY <1>1, <1>2 DEF Mp!ChangesAnnounced, HistogramAlone, Mp!Locked
<1>9. Known' = Known /\ Mp!Confirmed(rf.height)' = Mp!Confirmed(rf.height)
  BY <1>1, <1>2, SameChain
<1>10. HeardOf'
  BY <1>1, <1>2, <1>4, <1>9 DEF HeardOf
<1>11. Disappeared'
  BY <1>1, <1>2, <1>9 DEF Disappeared, Mp!At
<1> QED
  BY <1>5, <1>6, <1>7, <1>8, <1>10, <1>11

\* Accepting transactions heard of: their addresses are touched in the generation
\* of the refresh.
LEMMA AcceptStep ==
    ASSUME MempoolInv, NEW new \in SUBSET Tx, new \subseteq Known, Mp!Accept(new, rf.gen),
           UNCHANGED <<pool, mined, evicted, cached>>, rf'.height = rf.height,
           rf' \in RefreshStates, rf'.hashes = rf.hashes, rf'.pc \notin {"lock", "process", "height"}
    PROVE  /\ txs' \in SUBSET Tx /\ gone' \in SUBSET Tx /\ HeightsRise' /\ MinedOnce'
           /\ txs' \subseteq Known' /\ Known' = Known
           /\ Mp!ChangesAnnounced' /\ Disappeared'
<1> USE DEF MempoolInv, Mp!Accept
<1>1. Known' = Known /\ Mp!Confirmed(rf.height)' = Mp!Confirmed(rf.height)
  BY SameChain
<1>2. txs' \in SUBSET Tx /\ gone' \in SUBSET Tx
  BY DEF MempoolTypes
<1>3. HeightsRise' /\ MinedOnce'
  BY DEF HeightsRise, MinedOnce
<1>4. txs' \subseteq Known'
  BY <1>1 DEF HeardOf
<1>5. Mp!ChangesAnnounced'
  <2>1. UNION { Mp!Addresses(t) : t \in new \ txs } \subseteq UNION { Mp!Addresses(t) : t \in new }
    BY Zenon
  <2>2. /\ touched' = touched \cup UNION { Mp!Addresses(t) : t \in new }
        /\ owed' = owed \cup UNION { Mp!Addresses(t) : t \in new \ txs }
    BY Zenon
  <2> QED
    BY <2>1, <2>2 DEF Mp!ChangesAnnounced
<1>6. Disappeared'
  BY <1>1 DEF Disappeared, Mp!At
<1> QED
  BY <1>1, <1>2, <1>3, <1>4, <1>5, <1>6

\* A task fetches, looks up and accepts.
LEMMA TaskStep ==
    ASSUME PromptTasks, MempoolInv, Mp!Task
    PROVE  MempoolInv'
<1> USE DEF MempoolInv
<1>0. rf \in RefreshStates /\ tasks \in SUBSET TaskStates /\ txs \in SUBSET Tx
      /\ gathered \in (SUBSET Tx) \X (SUBSET Outpoints)
  BY DEF MempoolTypes
<1>1. PICK k \in tasks : Mp!Fetch(k) \/ Mp!Lookup(k) \/ Mp!AcceptFetched(k)
  BY DEF Mp!Task
<1>2. k \in TaskStates /\ k.hashes \subseteq Known /\ k.gen = rf.gen
      /\ rf.pc \in {"start", "spawned", "gather"} /\ ~histogram
      /\ (rf.pc \in {"spawned", "gather"} => k.live)
  BY <1>0 DEF OwnTasks, HeardOf, HistogramAlone, RefreshStates, Steps
<1>3. ASSUME NEW j \in TaskStates, tasks' = (tasks \ {k}) \cup {j}, j.hashes \subseteq k.hashes,
             j.gen = k.gen, j.live = k.live,
             UNCHANGED <<Mp!ext, Mp!mem, histogram, rf, gathered, quiet>>
      PROVE  MempoolInv'
  <2> USE <1>3 DEF Mp!ext, Mp!mem
  <2>1. MempoolTypes' /\ HeightsRise' /\ MinedOnce' /\ Mp!ChangesAnnounced'
    BY DEF MempoolTypes, HeightsRise, MinedOnce, Mp!ChangesAnnounced
  <2>2. OwnTasks' /\ HistogramAlone'
    BY <1>2 DEF OwnTasks, HistogramAlone, Mp!Locked
  <2>3. Known' = Known /\ Mp!Confirmed(rf.height)' = Mp!Confirmed(rf.height)
        /\ Mp!Confirmed(Len(mined))' = Mp!Confirmed(Len(mined))
    BY SameChain
  <2>4. HeardOf'
    BY <1>2, <2>3 DEF HeardOf
  <2>5. Disappeared'
    BY <2>3 DEF Disappeared, Mp!At
  <2> QED
    BY <2>1, <2>2, <2>4, <2>5
<1>4. CASE Mp!Fetch(k)
  <2> DEFINE j == [k EXCEPT !.pc = "lookup", !.hashes = @ \cap pool]
  <2>1. j \in TaskStates /\ j.hashes = k.hashes \cap pool /\ j.gen = k.gen /\ j.live = k.live
    BY <1>2 DEF TaskStates
  <2>2. tasks' = (tasks \ {k}) \cup {j} /\ UNCHANGED <<Mp!ext, Mp!mem, histogram, rf, gathered, quiet>>
    BY <1>4 DEF Mp!Fetch
  <2> QED
    BY <1>3, <2>1, <2>2
<1>5. CASE Mp!Lookup(k)
  <2> DEFINE prevouts == { p \in UNION { Prevouts[t] : t \in k.hashes } : p[1] \notin k.all }
             j == [k EXCEPT !.pc = "accept", !.found = prevouts \cap Mp!Utxos(mp_height)]
  <2>0. prevouts \in SUBSET Outpoints
    BY <1>2 DEF Outpoints, TaskStates
  <2>1. j \in TaskStates /\ j.hashes = k.hashes /\ j.gen = k.gen /\ j.live = k.live
    BY <1>2, <2>0 DEF TaskStates
  <2>2. tasks' = (tasks \ {k}) \cup {j} /\ UNCHANGED <<Mp!ext, Mp!mem, histogram, rf, gathered, quiet>>
    BY <1>5 DEF Mp!Lookup
  <2> QED
    BY <1>3, <2>1, <2>2
<1>6. CASE Mp!AcceptFetched(k)
  <2>1. PICK order \in Mp!SetToSeqs(k.hashes) :
          LET acc == Mp!AcceptPass(order, k.found, txs) \ txs
              spent == UNION { Prevouts[t] : t \in acc }
          IN /\ Mp!Accept(acc, k.gen)
             /\ gathered' = IF k.live
                            THEN <<gathered[1] \cup (k.hashes \ (acc \cup txs)),
                                   gathered[2] \cup (k.found \ spent)>>
                            ELSE gathered
    BY <1>6 DEF Mp!AcceptFetched
  <2> DEFINE acc == Mp!AcceptPass(order, k.found, txs) \ txs
  <2>2. acc \subseteq k.hashes
    BY PassWithin
  <2>3. acc \in SUBSET Tx /\ acc \subseteq Known
    BY <1>2, <2>2 DEF TaskStates
  <2>4. Mp!Accept(acc, rf.gen)
    BY <1>2, <2>1
  <2>5. tasks' = tasks \ {k}
        /\ UNCHANGED <<pool, mined, cached, mp_height, evicted, histogram, rf, quiet>>
    BY <1>6 DEF Mp!AcceptFetched, Mp!ext
  <2>6. /\ gathered' \in (SUBSET Tx) \X (SUBSET Outpoints)
        /\ gathered'[1] \subseteq gathered[1] \cup k.hashes
    BY <1>0, <1>2, <2>1 DEF TaskStates
  <2> HIDE DEF acc
  <2>7. /\ txs' \in SUBSET Tx /\ gone' \in SUBSET Tx /\ HeightsRise' /\ MinedOnce'
        /\ txs' \subseteq Known' /\ Known' = Known
        /\ Mp!ChangesAnnounced' /\ Disappeared'
    BY <1>0, <1>2, <2>3, <2>4, <2>5, AcceptStep
  <2>8. MempoolTypes'
    BY <1>0, <2>5, <2>6, <2>7 DEF MempoolTypes
  <2>9. OwnTasks' /\ HistogramAlone'
    BY <1>2, <2>5 DEF OwnTasks, HistogramAlone
  <2>10. HeardOf'
    BY <1>2, <2>5, <2>6, <2>7 DEF HeardOf
  <2> QED
    BY <2>7, <2>8, <2>9, <2>10
<1> QED
  BY <1>1, <1>4, <1>5, <1>6

\* The deferred transactions are tried together.
LEMMA GatherStep ==
    ASSUME PromptTasks, MempoolInv, Mp!Gather
    PROVE  MempoolInv'
<1> USE DEF MempoolInv
<1> DEFINE new == Mp!AcceptRounds(gathered[1], gathered[2], txs) \ txs
<1>0. rf \in RefreshStates /\ gathered \in (SUBSET Tx) \X (SUBSET Outpoints)
  BY DEF MempoolTypes
<1>1. /\ rf.pc = "gather" /\ ~ \E k \in tasks : k.live
      /\ gathered' = <<{}, {}>>
      /\ UNCHANGED <<pool, mined, cached, mp_height, evicted, histogram, tasks, quiet>>
  BY DEF Mp!Gather, Mp!At, Mp!ext
<1>2. Mp!Accept(new, rf.gen)
  BY DEF Mp!Gather
<1>3. tasks = {} /\ ~histogram
  BY <1>1 DEF OwnTasks, HistogramAlone, Mp!Locked
<1>4. new \subseteq gathered[1]
  BY RoundsWithin
<1>5. new \in SUBSET Tx /\ new \subseteq Known
  BY <1>0, <1>4 DEF HeardOf
<1>6. /\ rf' \in RefreshStates /\ rf'.pc = "announce" /\ rf'.height = rf.height
      /\ rf'.hashes = rf.hashes /\ rf'.gen = rf.gen
  BY <1>0 DEF Mp!Gather, Mp!Goto, RefreshStates, Steps
<1> HIDE DEF new
<1>7. /\ txs' \in SUBSET Tx /\ gone' \in SUBSET Tx /\ HeightsRise' /\ MinedOnce'
      /\ txs' \subseteq Known' /\ Known' = Known
      /\ Mp!ChangesAnnounced' /\ Disappeared'
  BY <1>1, <1>2, <1>5, <1>6, AcceptStep
<1>8. MempoolTypes'
  BY <1>1, <1>6, <1>7 DEF MempoolTypes
<1>9. OwnTasks' /\ HistogramAlone'
  BY <1>1, <1>3, <1>6 DEF OwnTasks, HistogramAlone
<1>10. HeardOf'
  BY <1>1, <1>3, <1>6, <1>7 DEF HeardOf
<1> QED
  BY <1>7, <1>8, <1>9, <1>10

\* What was touched is handed over.
LEMMA AnnounceStep ==
    ASSUME PromptTasks, MempoolInv, Mp!Announce
    PROVE  MempoolInv'
<1> USE DEF MempoolInv, Mp!Announce, Mp!ext
<1>0. rf \in RefreshStates /\ tasks = {}
  BY DEF MempoolTypes, OwnTasks, Mp!At
<1>1. /\ rf' \in RefreshStates /\ rf'.pc = "start" /\ rf'.height = rf.height
      /\ rf'.hashes = rf.hashes
  <2>1. rf' = [rf EXCEPT !.pc = "start", !.gen = 1 - rf.gen] /\ 1 - rf.gen \in {0, 1}
    BY <1>0 DEF RefreshStates
  <2> QED
    BY <1>0, <2>1 DEF RefreshStates, Steps
<1>2. MempoolTypes' /\ HeightsRise' /\ MinedOnce'
  BY <1>1 DEF MempoolTypes, HeightsRise, MinedOnce
<1>3. OwnTasks' /\ HistogramAlone' /\ Mp!ChangesAnnounced'
  BY <1>0, <1>1 DEF OwnTasks, HistogramAlone, Mp!Locked, Mp!ChangesAnnounced
<1>4. Known' = Known
  BY <1>1, SameChain
<1>5. HeardOf' /\ Disappeared'
  BY <1>0, <1>1, <1>4 DEF HeardOf, Disappeared, Mp!At
<1> QED
  BY <1>2, <1>3, <1>5

-----------------------------------------------------------------------------
LEMMA NextInv ==
    ASSUME PromptTasks
    PROVE  MempoolInv /\ [Mp!Next]_(Mp!vars) => MempoolInv'
<1> SUFFICES ASSUME MempoolInv, [Mp!Next]_(Mp!vars) PROVE MempoolInv'
  OBVIOUS
<1>1. CASE Mp!External
  BY <1>1, DaemonStep, AroundStep DEF Mp!External
<1>2. CASE Mp!HeightPolled \/ Mp!BlockIndexed \/ Mp!HistogramEnds
  BY <1>2, AroundStep
<1>3. CASE Mp!Refresh
  BY <1>3, BeforeProcessing, ProcessStep, AbandonStep, GatherStep, AnnounceStep DEF Mp!Refresh
<1>4. CASE Mp!Task
  BY <1>4, TaskStep
<1>5. CASE UNCHANGED Mp!vars
  <2> USE <1>5 DEF Mp!vars, MempoolInv
  <2>1. MempoolTypes' /\ HeightsRise' /\ MinedOnce' /\ OwnTasks' /\ HistogramAlone'
           /\ Mp!ChangesAnnounced'
    BY DEF MempoolTypes, HeightsRise, MinedOnce, OwnTasks, HistogramAlone, Mp!Locked,
           Mp!ChangesAnnounced
  <2>2. HeardOf' /\ Disappeared'
    BY DEF HeardOf, Known, Mp!Alive, Disappeared, Mp!Confirmed, Mp!At
  <2> QED
    BY <2>1, <2>2
<1> QED
  BY <1>1, <1>2, <1>3, <1>4, <1>5 DEF Mp!Next

\* A block that holds a transaction is the only one: it is no later than the refresh.
LEMMA InvInTime == MempoolInv => Mp!AnnouncedInTime
<1> SUFFICES ASSUME MempoolInv, Mp!At("announce"), NEW t \in gone \ (txs \cup evicted),
                    NEW n \in 1 .. Len(mined), t \in mined[n]
             PROVE  n =< rf.height
  BY DEF Mp!AnnouncedInTime, Mp!NotBeforeItsBlock, MempoolInv
<1>1. t \in Mp!Confirmed(rf.height)
  BY DEF MempoolInv, Disappeared
<1>2. PICK m \in 1 .. rf.height : t \in mined[m]
  BY <1>1 DEF Mp!Confirmed
<1>3. m \in 1 .. Len(mined) /\ m =< rf.height
  BY DEF MempoolInv, HeightsRise, MempoolTypes, RefreshStates
<1>4. m = n
  BY <1>2, <1>3 DEF MempoolInv, MinedOnce
<1> QED
  BY <1>3, <1>4

\* _update_histogram: the transactions and their index stay as they are under the thread.
THEOREM HistogramReadsUndisturbed ==
    ASSUME PromptTasks
    PROVE  Mp!Spec => Mp!HistogramUndisturbed
<1>1. Mp!Spec => []MempoolInv
  BY InitInv, NextInv, PTL DEF Mp!Spec
<1>2. MempoolInv /\ [Mp!Next]_(Mp!vars) => [histogram => UNCHANGED <<txs, hashXs>>]_(Mp!vars)
  <2> SUFFICES ASSUME MempoolInv, Mp!Next, histogram PROVE UNCHANGED <<txs, hashXs>>
    BY DEF Mp!vars
  <2>1. ~Mp!Locked /\ tasks = {}
    BY DEF MempoolInv, HistogramAlone
  <2>2. ~Mp!Task /\ ~Mp!Process /\ ~Mp!Gather
    BY <2>1 DEF Mp!Task, Mp!Locked, Mp!Process, Mp!Gather, Mp!At
  <2> QED
    BY <2>2 DEF Mp!Next, Mp!External, Mp!Refresh, Mp!DaemonAccepts, Mp!DaemonEvicts, Mp!DaemonMines,
                Mp!HistogramBegins, Mp!HeightPolled, Mp!BlockIndexed, Mp!HistogramEnds, Mp!ReadHeight,
                Mp!GetHashes, Mp!CheckHeight, Mp!TakeLock, Mp!NotSynced, Mp!Abandon, Mp!Await,
                Mp!Announce, Mp!mem
<1> QED
  BY <1>1, <1>2, PTL DEF Mp!Spec, Mp!HistogramUndisturbed

-----------------------------------------------------------------------------
(* A refresh that nothing disturbs takes in all of the daemon's mempool.    *)

\* The parents of what is alive are alive, and those of the confirmed confirmed;
\* no two spend the same outpoint; and nothing is among its own ancestors.
DaemonInv ==
    /\ \A t \in Mp!Alive : Mp!Parents(t) \subseteq Mp!Alive
    /\ \A i \in 1 .. Len(mined) : \A t \in mined[i] : Mp!Parents(t) \cap pool = {}
    /\ \A t, u \in Mp!Alive : t # u => Prevouts[t] \cap Prevouts[u] = {}
    /\ \A S \in SUBSET Mp!Alive : S # {} => \E t \in S : Mp!Parents(t) \cap S = {}

Still == quiet /\ mp_height = Len(mined)

\* The inputs of these transactions that are not of the mempool are among those found.
InputsFound(S, found) ==
    \A t \in S : \A p \in Prevouts[t] : p[1] \notin pool => p \in found

\* While nothing moves, what is new is accepted, deferred or being fetched, and the
\* outpoints that the database knows are kept until their transaction is accepted.
NothingMissed ==
    /\ quiet /\ rf.pc \in {"height", "lock", "process", "spawned", "gather", "announce"}
          => rf.hashes = pool
    /\ Still /\ rf.pc \in {"spawned", "gather"} =>
          /\ pool = txs \cup gathered[1] \cup UNION { k.hashes : k \in tasks }
          /\ \A k \in tasks : /\ k.all = pool
                              /\ (k.pc = "accept" => InputsFound(k.hashes, k.found))
          /\ InputsFound(gathered[1], gathered[2])
    /\ Still /\ Mp!At("announce") => txs = pool

CompleteInv == MempoolInv /\ DaemonInv /\ NothingMissed

LEMMA InitComplete == Mp!Init => CompleteInv
<1> SUFFICES ASSUME Mp!Init PROVE DaemonInv /\ NothingMissed
  BY InitInv DEF CompleteInv
<1>1. Mp!Alive = {} /\ rf.pc = "start" /\ Len(mined) = 0
  BY DEF Mp!Init, Mp!Alive, Mp!Confirmed
<1> QED
  BY <1>1 DEF DaemonInv, NothingMissed, Mp!At

\* A mempool transaction spends what its mempool parents create, and coins that the
\* database has.
LEMMA InputsInDatabase ==
    ASSUME Mp!MempoolAssumption, CompleteInv, Still, NEW t \in pool, NEW p \in Prevouts[t],
           p[1] \notin pool
    PROVE  p \in Mp!Utxos(mp_height)
<1>1. t \in Tx /\ t \in Mp!Alive
  BY DEF CompleteInv, MempoolInv, MempoolTypes, Mp!Alive
<1>2. p \in DOMAIN Pairs /\ (p[1] \in Tx \/ p \in Coins)
  BY <1>1 DEF Mp!MempoolAssumption
<1>3. p \in Coins \cup UNION { Mp!Outs(u) : u \in Mp!Confirmed(Len(mined)) }
  <2>1. CASE p[1] \in Tx
    <3>1. p[1] \in Mp!Confirmed(Len(mined))
      <4>1. p[1] \in Mp!Parents(t)
        BY <2>1 DEF Mp!Parents
      <4> QED
        BY <1>1, <4>1 DEF CompleteInv, DaemonInv, Mp!Alive
    <3>2. p \in Mp!Outs(p[1])
      BY <1>2 DEF Mp!Outs
    <3> QED
      BY <3>1, <3>2
  <2> QED
    BY <1>2, <2>1
<1>4. ASSUME NEW u \in Mp!Confirmed(Len(mined)) PROVE p \notin Prevouts[u]
  <2>1. u \in Mp!Alive
    BY DEF Mp!Alive
  <2>2. u # t
    BY DEF CompleteInv, MempoolInv, MinedOnce, Mp!Confirmed
  <2> QED
    BY <1>1, <2>1, <2>2 DEF CompleteInv, DaemonInv
<1> QED
  BY <1>3, <1>4 DEF Mp!Utxos, Still

\* Passing over the deferred transactions until none is accepted accepts them all.
LEMMA RoundsAcceptAll ==
    ASSUME CompleteInv, Still, rf.pc = "gather", tasks = {}
    PROVE  Mp!AcceptRounds(gathered[1], gathered[2], txs) = pool
<1> DEFINE pending == gathered[1]
           found == gathered[2]
<1>1. pool = txs \cup pending /\ InputsFound(pending, found)
  BY DEF CompleteInv, NothingMissed
<1>2. pending \subseteq Mp!Alive
  BY <1>1 DEF Mp!Alive
<1> HIDE DEF pending, found
<1>3. ASSUME NEW S \in SUBSET pending,
             \A t \in pending : Mp!Resolved(t, found, txs \cup S) => t \in S
      PROVE  pending \subseteq S
  <2>1. SUFFICES ASSUME pending \ S # {} PROVE FALSE
    OBVIOUS
  <2>2. (pending \ S) \in SUBSET Mp!Alive
    BY <1>2
  <2>3. PICK t \in pending \ S : Mp!Parents(t) \cap (pending \ S) = {}
    BY <2>1, <2>2 DEF CompleteInv, DaemonInv
  <2>4. ASSUME NEW p \in Prevouts[t] PROVE p \in found \/ p[1] \in txs \cup S
    <3>1. CASE p[1] \notin pool
      BY <1>1, <3>1 DEF InputsFound
    <3>2. CASE p[1] \in pool
      <4>1. p[1] \in Tx
        BY <3>2 DEF CompleteInv, MempoolInv, MempoolTypes
      <4>2. p[1] \in Mp!Parents(t)
        BY <4>1 DEF Mp!Parents
      <4> QED
        BY <1>1, <2>3, <3>2, <4>2
    <3> QED
      BY <3>1, <3>2
  <2>5. Mp!Resolved(t, found, txs \cup S)
    BY <2>4 DEF Mp!Resolved
  <2> QED
    BY <1>3, <2>3, <2>5
<1>4. \A t \in pending : \A S \in { R \in SUBSET pending :
            \A u \in pending : Mp!Resolved(u, found, txs \cup R) => u \in R } : t \in S
  BY <1>3
<1>5. Mp!AcceptRounds(pending, found, txs) = txs \cup pending
  BY <1>4 DEF Mp!AcceptRounds
<1> QED
  BY <1>1, <1>5 DEF pending, found

\* The daemon keeps its transactions in order.
LEMMA DaemonInvStep ==
    ASSUME CompleteInv, [Mp!Next]_(Mp!vars)
    PROVE  DaemonInv'
<1> USE DEF CompleteInv
<1>1. ASSUME NEW t \in Tx, Mp!DaemonAccepts(t) PROVE DaemonInv'
  <2>1. /\ t \notin Mp!Alive /\ Mp!Parents(t) \subseteq Mp!Alive /\ mined' = mined
        /\ \A u \in Mp!Alive : Prevouts[u] \cap Prevouts[t] = {}
        /\ pool' = pool \cup {t}
    BY <1>1 DEF Mp!DaemonAccepts
  <2>2. Mp!Alive' = Mp!Alive \cup {t}
    BY <2>1 DEF Mp!Alive, Mp!Confirmed
  <2>3. \A u \in Mp!Alive' : Mp!Parents(u) \subseteq Mp!Alive /\ t \notin Mp!Parents(u)
    BY <2>1, <2>2 DEF DaemonInv
  <2>4. \A i \in 1 .. Len(mined) : mined[i] \subseteq Mp!Alive
    BY DEF Mp!Alive, Mp!Confirmed
  <2>5. \A i \in 1 .. Len(mined') : \A u \in mined'[i] : Mp!Parents(u) \cap pool' = {}
    BY <2>1, <2>2, <2>3, <2>4 DEF DaemonInv
  <2>6. \A u, v \in Mp!Alive' : u # v => Prevouts[u] \cap Prevouts[v] = {}
    BY <2>1, <2>2 DEF DaemonInv
  <2>7. ASSUME NEW S \in SUBSET Mp!Alive', S # {} PROVE \E u \in S : Mp!Parents(u) \cap S = {}
    <3>1. CASE S = {t}
      BY <2>1, <3>1
    <3>2. CASE S # {t}
      <4>1. (S \ {t}) \in SUBSET Mp!Alive /\ S \ {t} # {}
        BY <2>2, <2>7, <3>2
      <4>2. PICK u \in S \ {t} : Mp!Parents(u) \cap (S \ {t}) = {}
        BY <4>1 DEF DaemonInv
      <4> QED
        BY <2>3, <4>2
    <3> QED
      BY <3>1, <3>2
  <2> QED
    BY <2>2, <2>3, <2>5, <2>6, <2>7 DEF DaemonInv
<1>2. ASSUME NEW t \in Tx, Mp!DaemonEvicts(t) PROVE DaemonInv'
  <2>1. /\ mined' = mined /\ pool' = pool \ {t} /\ t \in pool
        /\ ~ \E u \in pool : t \in Mp!Parents(u)
    BY <1>2 DEF Mp!DaemonEvicts
  <2>2. Mp!Alive' \subseteq Mp!Alive /\ t \in Mp!Alive /\ Mp!Alive \ {t} \subseteq Mp!Alive'
    BY <2>1 DEF Mp!Alive, Mp!Confirmed
  <2>3. \A u \in Mp!Alive : t \notin Mp!Parents(u)
    BY <2>1 DEF DaemonInv, Mp!Alive, Mp!Confirmed
  <2> QED
    BY <2>1, <2>2, <2>3 DEF DaemonInv
<1>3. ASSUME NEW S \in SUBSET pool, Mp!DaemonMines(S) PROVE DaemonInv'
  <2>1. /\ mined' = Append(mined, S) /\ pool' = pool \ S
        /\ \A t \in S : Mp!Parents(t) \cap pool \subseteq S
    BY <1>3 DEF Mp!DaemonMines
  <2>2. mined \in Seq(SUBSET Tx) /\ S \in SUBSET Tx /\ Len(mined) \in Nat
    BY DEF MempoolInv, MempoolTypes
  <2>3. Mp!Alive' = Mp!Alive
    <3>1. UNION { mined'[i] : i \in 1 .. Len(mined') } = Mp!Confirmed(Len(mined)) \cup S
      BY <2>1, <2>2, ConfirmedGrows
    <3> QED
      BY <2>1, <3>1 DEF Mp!Alive, Mp!Confirmed
  <2>4. ASSUME NEW i \in 1 .. Len(mined'), NEW t \in mined'[i]
        PROVE  Mp!Parents(t) \cap pool' = {}
    <3>1. (i \in 1 .. Len(mined) /\ mined'[i] = mined[i]) \/ mined'[i] = S
      BY <2>1, <2>2
    <3>2. CASE mined'[i] = S
      BY <2>1, <3>2
    <3>3. CASE i \in 1 .. Len(mined) /\ mined'[i] = mined[i]
      BY <2>1, <3>3 DEF DaemonInv
    <3> QED
      BY <3>1, <3>2, <3>3
  <2> QED
    BY <2>3, <2>4 DEF DaemonInv
<1>4. ASSUME UNCHANGED <<pool, mined>> PROVE DaemonInv'
  <2>1. Mp!Alive' = Mp!Alive
    BY <1>4 DEF Mp!Alive, Mp!Confirmed
  <2>2. \A i \in 1 .. Len(mined') : \A t \in mined'[i] : Mp!Parents(t) \cap pool' = {}
    BY <1>4 DEF DaemonInv
  <2> QED
    BY <2>1, <2>2 DEF DaemonInv
<1>5. \/ \E t \in Tx : Mp!DaemonAccepts(t) \/ Mp!DaemonEvicts(t)
      \/ \E S \in SUBSET pool : Mp!DaemonMines(S)
      \/ UNCHANGED <<pool, mined>>
  BY DEF Mp!Next, Mp!External, Mp!Refresh, Mp!Task, Mp!HistogramBegins, Mp!HeightPolled, Mp!BlockIndexed,
         Mp!HistogramEnds, Mp!ReadHeight, Mp!GetHashes, Mp!CheckHeight, Mp!TakeLock, Mp!NotSynced,
         Mp!Process, Mp!Abandon, Mp!Await, Mp!Gather, Mp!Announce, Mp!Fetch, Mp!Lookup, Mp!AcceptFetched,
         Mp!Accept, Mp!ext, Mp!vars
<1> QED
  BY <1>1, <1>2, <1>3, <1>4, <1>5

\* Steps at which the refresh has nothing in flight.
LEMMA StillStep ==
    ASSUME PromptTasks, CompleteInv,
           \/ (\E t \in Tx : Mp!DaemonAccepts(t) \/ Mp!DaemonEvicts(t))
           \/ \E S \in SUBSET pool : Mp!DaemonMines(S)
           \/ Mp!HeightPolled \/ Mp!BlockIndexed \/ Mp!HistogramBegins \/ Mp!HistogramEnds
           \/ UNCHANGED Mp!vars
    PROVE  NothingMissed'
<1> USE DEF CompleteInv, Mp!ext, Mp!mem
<1>1. CASE quiet' = FALSE
  BY <1>1 DEF NothingMissed, Still
<1>2. CASE UNCHANGED <<quiet, pool, mined, mp_height, txs, rf, tasks, gathered>>
  BY <1>2 DEF NothingMissed, Still, Mp!At, InputsFound
<1> QED
  BY <1>1, <1>2 DEF Mp!DaemonAccepts, Mp!DaemonEvicts, Mp!DaemonMines, Mp!HeightPolled, Mp!BlockIndexed,
                    Mp!HistogramBegins, Mp!HistogramEnds, Mp!vars

LEMMA StillRefresh ==
    ASSUME PromptTasks, CompleteInv,
           \/ Mp!ReadHeight \/ Mp!GetHashes \/ Mp!CheckHeight \/ Mp!TakeLock \/ Mp!NotSynced
           \/ Mp!Abandon \/ Mp!Await \/ Mp!Announce
    PROVE  NothingMissed'
<1> USE DEF CompleteInv, Mp!ext, Mp!mem, Mp!At, Mp!Goto
<1>0. rf \in RefreshStates
  BY DEF MempoolInv, MempoolTypes
<1>1. CASE Mp!ReadHeight \/ Mp!NotSynced \/ Mp!Abandon \/ Mp!Announce
  <2>1. rf'.pc \in {"hashes", "start"}
    BY <1>0, <1>1 DEF Mp!ReadHeight, Mp!NotSynced, Mp!Abandon, Mp!Announce, RefreshStates
  <2> QED
    BY <2>1 DEF NothingMissed
<1>2. CASE Mp!GetHashes
  <2>1. rf'.pc = "height" /\ rf'.hashes = pool /\ pool' = pool
    BY <1>0, <1>2 DEF Mp!GetHashes, RefreshStates
  <2> QED
    BY <2>1 DEF NothingMissed
<1>3. CASE Mp!CheckHeight \/ Mp!TakeLock
  <2>1. rf'.pc \in {"lock", "start", "process"} /\ rf.pc \in {"height", "lock"}
        /\ rf'.hashes = rf.hashes /\ UNCHANGED <<pool, quiet>>
    BY <1>0, <1>3 DEF Mp!CheckHeight, Mp!TakeLock, RefreshStates
  <2> QED
    BY <2>1 DEF NothingMissed
<1>4. CASE Mp!Await
  <2>1. rf'.pc = "gather" /\ rf.pc = "spawned" /\ rf'.hashes = rf.hashes
        /\ UNCHANGED <<pool, quiet, mined, mp_height, txs, tasks, gathered>>
    BY <1>0, <1>4 DEF Mp!Await, RefreshStates
  <2> QED
    BY <2>1 DEF NothingMissed, Still, InputsFound
<1> QED
  BY <1>1, <1>2, <1>3, <1>4

\* All that is new is fetched.
LEMMA StillProcess ==
    ASSUME PromptTasks, CompleteInv, Mp!Process
    PROVE  NothingMissed'
<1> USE DEF CompleteInv, Mp!ext, Mp!mem, Mp!At, Mp!Goto
<1> DEFINE new == rf.hashes \ txs
           spawn(c) == [pc |-> "fetch", hashes |-> c, found |-> {}, all |-> rf.hashes,
                        gen |-> rf.gen, live |-> TRUE]
<1>0. rf \in RefreshStates /\ tasks = {}
  BY DEF MempoolInv, MempoolTypes, OwnTasks, Mp!Process
<1>1. /\ txs' = txs \ (txs \ rf.hashes) /\ gathered' = <<{}, {}>>
      /\ UNCHANGED <<pool, mined, mp_height, quiet>>
      /\ rf.pc = "process" /\ rf'.hashes = rf.hashes
      /\ rf'.pc = IF new = {} THEN "announce" ELSE "spawned"
  BY <1>0 DEF Mp!Process, RefreshStates
<1>2. PICK chunking \in Mp!Chunkings(new) : tasks' = { spawn(c) : c \in chunking }
  BY <1>0 DEF Mp!Process
<1>3. UNION chunking = new
  BY DEF Mp!Chunkings
<1>4. quiet => rf.hashes = pool
  BY <1>1 DEF NothingMissed
<1>5. UNION { k.hashes : k \in tasks' } = new
  <2>1. ASSUME NEW t PROVE t \in UNION { k.hashes : k \in tasks' } <=> \E c \in chunking : t \in c
    <3>1. t \in UNION { k.hashes : k \in tasks' } <=> \E k \in tasks' : t \in k.hashes
      BY Zenon
    <3>2. \A c \in chunking : spawn(c).hashes = c
      OBVIOUS
    <3> QED
      BY <1>2, <3>1, <3>2
  <2>2. ASSUME NEW t PROVE t \in new <=> \E c \in chunking : t \in c
    BY <1>3
  <2> QED
    BY <2>1, <2>2, Zenon
<1>6. \A k \in tasks' : k.all = rf.hashes /\ k.pc = "fetch"
  BY <1>2
<1> HIDE DEF spawn
<1>7. ASSUME Still' , rf'.pc = "spawned"
      PROVE  /\ pool' = txs' \cup gathered'[1] \cup UNION { k.hashes : k \in tasks' }
             /\ \A k \in tasks' : k.all = pool' /\ k.pc # "accept"
             /\ InputsFound(gathered[1], gathered[2])'
  BY <1>1, <1>4, <1>5, <1>6, <1>7 DEF Still, InputsFound
<1>8. Still' /\ rf'.pc = "announce" => txs' = pool'
  BY <1>1, <1>4 DEF Still
<1> QED
  BY <1>1, <1>4, <1>7, <1>8 DEF NothingMissed

\* Every input is looked up, and kept until its transaction is accepted.
LEMMA StillTask ==
    ASSUME PromptTasks, Mp!MempoolAssumption, CompleteInv, Mp!Task
    PROVE  NothingMissed'
<1> USE DEF CompleteInv, Mp!ext, Mp!mem
<1>0. rf \in RefreshStates /\ tasks \in SUBSET TaskStates
      /\ gathered \in (SUBSET Tx) \X (SUBSET Outpoints)
  BY DEF MempoolInv, MempoolTypes
<1>1. PICK k \in tasks : Mp!Fetch(k) \/ Mp!Lookup(k) \/ Mp!AcceptFetched(k)
  BY DEF Mp!Task
<1>2. k \in TaskStates /\ k.gen = rf.gen
      /\ rf.pc \in {"start", "spawned", "gather"}
      /\ (rf.pc \in {"spawned", "gather"} => k.live)
  BY <1>0 DEF MempoolInv, OwnTasks, RefreshStates, Steps
<1>3. UNCHANGED <<pool, mined, mp_height, quiet, rf>>
  BY <1>1 DEF Mp!Fetch, Mp!Lookup, Mp!AcceptFetched
<1>4. CASE ~(Still /\ rf.pc \in {"spawned", "gather"})
  BY <1>2, <1>3, <1>4 DEF NothingMissed, Still, Mp!At
<1>5. CASE Still /\ rf.pc \in {"spawned", "gather"}
  <2>1. /\ rf.hashes = pool /\ pool = txs \cup gathered[1] \cup UNION { j.hashes : j \in tasks }
        /\ \A j \in tasks : j.all = pool /\ (j.pc = "accept" => InputsFound(j.hashes, j.found))
        /\ InputsFound(gathered[1], gathered[2])
    BY <1>5 DEF NothingMissed, Still
  <2>2. k.hashes \subseteq pool /\ k.all = pool
    BY <2>1
  <2>3. SUFFICES /\ pool = txs' \cup gathered'[1] \cup UNION { j.hashes : j \in tasks' }
                 /\ \A j \in tasks' : j.all = pool
                                      /\ (j.pc = "accept" => InputsFound(j.hashes, j.found))
                 /\ InputsFound(gathered'[1], gathered'[2])
    BY <1>3, <1>5, <2>1 DEF NothingMissed, Mp!At, InputsFound
  <2>4. ASSUME NEW j, tasks' = (tasks \ {k}) \cup {j}, j.hashes = k.hashes, j.all = pool,
               j.pc = "accept" => InputsFound(j.hashes, j.found),
               UNCHANGED <<txs, gathered>>
        PROVE  /\ pool = txs' \cup gathered'[1] \cup UNION { i.hashes : i \in tasks' }
               /\ \A i \in tasks' : i.all = pool
                                    /\ (i.pc = "accept" => InputsFound(i.hashes, i.found))
               /\ InputsFound(gathered'[1], gathered'[2])
    <3>1. UNION { i.hashes : i \in tasks' } = UNION { i.hashes : i \in tasks }
      BY <2>4
    <3> QED
      BY <2>1, <2>4, <3>1
  <2>5. CASE Mp!Fetch(k)
    <3> DEFINE j == [k EXCEPT !.pc = "lookup", !.hashes = @ \cap pool]
    <3>1. j.hashes = k.hashes /\ j.all = k.all /\ j.pc = "lookup"
      BY <1>2, <2>2 DEF TaskStates
    <3>2. tasks' = (tasks \ {k}) \cup {j} /\ UNCHANGED <<txs, gathered>>
      BY <2>5 DEF Mp!Fetch
    <3> HIDE DEF j
    <3> QED
      BY <2>2, <2>4, <3>1, <3>2
  <2>6. CASE Mp!Lookup(k)
    <3> DEFINE prevouts == { p \in UNION { Prevouts[t] : t \in k.hashes } : p[1] \notin k.all }
               j == [k EXCEPT !.pc = "accept", !.found = prevouts \cap Mp!Utxos(mp_height)]
    <3>1. j.hashes = k.hashes /\ j.all = k.all /\ j.found = prevouts \cap Mp!Utxos(mp_height)
      BY <1>2 DEF TaskStates
    <3>2. tasks' = (tasks \ {k}) \cup {j} /\ UNCHANGED <<txs, gathered>>
      BY <2>6 DEF Mp!Lookup
    <3>3. ASSUME NEW t \in k.hashes, NEW p \in Prevouts[t], p[1] \notin pool
          PROVE  p \in prevouts \cap Mp!Utxos(mp_height)
      <4>1. p \in Mp!Utxos(mp_height)
        BY <1>5, <2>2, <3>3, InputsInDatabase
      <4> QED
        BY <2>2, <3>3, <4>1
    <3>4. InputsFound(j.hashes, j.found)
      BY <3>1, <3>3 DEF InputsFound
    <3> HIDE DEF j
    <3> QED
      BY <2>2, <2>4, <3>1, <3>2, <3>4
  <2>7. CASE Mp!AcceptFetched(k)
    <3>1. PICK order \in Mp!SetToSeqs(k.hashes) :
            LET acc == Mp!AcceptPass(order, k.found, txs) \ txs
                spent == UNION { Prevouts[t] : t \in acc }
            IN /\ Mp!Accept(acc, k.gen)
               /\ gathered' = IF k.live
                              THEN <<gathered[1] \cup (k.hashes \ (acc \cup txs)),
                                     gathered[2] \cup (k.found \ spent)>>
                              ELSE gathered
      BY <2>7 DEF Mp!AcceptFetched
    <3> DEFINE acc == Mp!AcceptPass(order, k.found, txs) \ txs
               spent == UNION { Prevouts[t] : t \in acc }
    <3>2. acc \subseteq k.hashes
      BY PassWithin
    <3>3. /\ txs' = txs \cup acc /\ tasks' = tasks \ {k} /\ k.pc = "accept"
          /\ gathered'[1] = gathered[1] \cup (k.hashes \ (acc \cup txs))
          /\ gathered'[2] = gathered[2] \cup (k.found \ spent)
      BY <1>2, <1>5, <2>7, <3>1 DEF Mp!Accept, Mp!AcceptFetched
    <3> HIDE DEF acc
    <3>4. pool = txs' \cup gathered'[1] \cup UNION { j.hashes : j \in tasks' }
      <4>1. \A t : t \in UNION { j.hashes : j \in tasks }
                     <=> t \in k.hashes \/ t \in UNION { j.hashes : j \in tasks' }
        BY <3>3
      <4> QED
        BY <2>1, <3>2, <3>3, <4>1
    <3>5. \A t \in k.hashes \ acc : \A p \in Prevouts[t] : p \notin spent
      <4>1. \A t, u \in k.hashes : t # u => Prevouts[t] \cap Prevouts[u] = {}
        BY <2>2 DEF DaemonInv, Mp!Alive
      <4> QED
        BY <3>2, <4>1
    <3>6. InputsFound(gathered'[1], gathered'[2])
      BY <2>1, <3>3, <3>5 DEF InputsFound
    <3> QED
      BY <2>1, <3>3, <3>4, <3>6
  <2> QED
    BY <1>1, <2>3, <2>5, <2>6, <2>7
<1> QED
  BY <1>4, <1>5

LEMMA StillGather ==
    ASSUME PromptTasks, CompleteInv, Mp!Gather
    PROVE  NothingMissed'
<1> USE DEF CompleteInv
<1>0. rf \in RefreshStates /\ tasks = {}
  BY DEF MempoolInv, MempoolTypes, OwnTasks, Mp!Gather, Mp!At
<1>1. /\ rf.pc = "gather" /\ rf'.pc = "announce" /\ rf'.hashes = rf.hashes
      /\ UNCHANGED <<pool, mined, mp_height, quiet>>
      /\ txs' = txs \cup Mp!AcceptRounds(gathered[1], gathered[2], txs)
  BY <1>0 DEF Mp!Gather, Mp!At, Mp!Goto, Mp!Accept, Mp!ext, RefreshStates
<1>2. ASSUME Still PROVE txs' = pool
  <2>1. Mp!AcceptRounds(gathered[1], gathered[2], txs) = pool
    BY <1>0, <1>1, <1>2, RoundsAcceptAll
  <2>2. txs \subseteq pool
    BY <1>1, <1>2 DEF NothingMissed
  <2> QED
    BY <1>1, <2>1, <2>2
<1> QED
  BY <1>1, <1>2 DEF NothingMissed, Still, Mp!At

LEMMA NextComplete ==
    ASSUME PromptTasks, Mp!MempoolAssumption
    PROVE  CompleteInv /\ [Mp!Next]_(Mp!vars) => CompleteInv'
<1> SUFFICES ASSUME CompleteInv, [Mp!Next]_(Mp!vars) PROVE CompleteInv'
  OBVIOUS
<1>1. MempoolInv' /\ DaemonInv'
  BY NextInv, DaemonInvStep DEF CompleteInv
<1>2. NothingMissed'
  BY StillStep, StillRefresh, StillProcess, StillTask, StillGather
     DEF Mp!Next, Mp!External, Mp!Refresh
<1> QED
  BY <1>1, <1>2 DEF CompleteInv

\* _refresh_hashes: a refresh that nothing disturbs, and that finds the database at the
\* daemon's height, ends with exactly the daemon's mempool, whichever tasks fetched parents
\* and children and in whatever order they came; every address of a transaction that came
\* or went is handed over, and that of a mined one with its block's height or a later one.
THEOREM RefreshesAreRight ==
    ASSUME PromptTasks, Mp!MempoolAssumption
    PROVE  Mp!Spec => []RefreshRight
<1>1. Mp!Spec => []CompleteInv
  BY InitComplete, NextComplete, PTL DEF Mp!Spec
<1>2. CompleteInv => Mp!RefreshComplete
  BY DEF CompleteInv, NothingMissed, Mp!RefreshComplete, Still, Mp!At
<1>3. CompleteInv => RefreshRight
  BY <1>2, InvInTime DEF CompleteInv, RefreshRight, Mp!RefreshRight
<1> QED
  BY <1>1, <1>3, PTL

-----------------------------------------------------------------------------
(* The index of addresses.                                                  *)

LEMMA InIndex ==
    ASSUME NEW S, NEW e
    PROVE  e \in Mp!Index(S) <=> \E t \in S : \E x \in Mp!Addresses(t) : e = <<x, t>>
<1> DEFINE rows(t) == { <<x, t>> : x \in Mp!Addresses(t) }
<1>1. Mp!Index(S) = UNION { rows(t) : t \in S }
  BY Zenon DEF Mp!Index
<1>2. \A t : e \in rows(t) <=> \E x \in Mp!Addresses(t) : e = <<x, t>>
  OBVIOUS
<1> HIDE DEF rows
<1>3. e \in UNION { rows(t) : t \in S } <=> \E t \in S : e \in rows(t)
  OBVIOUS
<1> QED
  BY <1>1, <1>2, <1>3, Zenon

LEMMA IndexOfUnion ==
    ASSUME NEW S, NEW T
    PROVE  Mp!Index(S \cup T) = Mp!Index(S) \cup Mp!Index(T)
<1>1. ASSUME NEW e PROVE e \in Mp!Index(S \cup T) <=> e \in Mp!Index(S) \/ e \in Mp!Index(T)
  <2>1. /\ e \in Mp!Index(S) <=> \E t \in S : \E x \in Mp!Addresses(t) : e = <<x, t>>
        /\ e \in Mp!Index(T) <=> \E t \in T : \E x \in Mp!Addresses(t) : e = <<x, t>>
    BY InIndex, Zenon
  <2>2. e \in Mp!Index(S \cup T) <=> \E t \in S \cup T : \E x \in Mp!Addresses(t) : e = <<x, t>>
    BY InIndex, Zenon
  <2> QED
    BY <2>1, <2>2
<1> QED
  BY <1>1

LEMMA IndexWithout ==
    ASSUME NEW S, NEW T
    PROVE  { e \in Mp!Index(S) : e[2] \notin T } = Mp!Index(S \ T)
<1>1. \A t, x : <<x, t>>[2] = t
  OBVIOUS
<1>2. ASSUME NEW e PROVE e \in Mp!Index(S) /\ e[2] \notin T <=> e \in Mp!Index(S \ T)
  <2>1. e \in Mp!Index(S) <=> \E t \in S : \E x \in Mp!Addresses(t) : e = <<x, t>>
    BY InIndex, Zenon
  <2>2. e \in Mp!Index(S \ T) <=> \E t \in S \ T : \E x \in Mp!Addresses(t) : e = <<x, t>>
    BY InIndex, Zenon
  <2> QED
    BY <1>1, <2>1, <2>2
<1> QED
  BY <1>2

IndexExact == hashXs = Mp!Index(txs)

LEMMA NextIndex == IndexExact /\ [Mp!Next]_(Mp!vars) => IndexExact'
<1> SUFFICES ASSUME IndexExact, [Mp!Next]_(Mp!vars) PROVE IndexExact'
  OBVIOUS
<1> USE DEF IndexExact, Mp!ext, Mp!mem
<1>1. ASSUME NEW new, NEW gen, Mp!Accept(new, gen) PROVE IndexExact'
  <2>1. txs' = txs \cup new /\ hashXs' = hashXs \cup Mp!Index(new)
    BY <1>1 DEF Mp!Accept
  <2>2. hashXs' = Mp!Index(txs \cup new)
    BY <2>1, IndexOfUnion
  <2> QED
    BY <2>1, <2>2, Zenon DEF Mp!Index
<1>2. CASE Mp!Process
  <2>1. /\ txs' = txs \ (txs \ rf.hashes)
        /\ hashXs' = { e \in hashXs : e[2] \notin txs \ rf.hashes }
    BY <1>2 DEF Mp!Process
  <2>2. hashXs' = Mp!Index(txs \ (txs \ rf.hashes))
    BY <2>1, IndexWithout
  <2> QED
    BY <2>1, <2>2, Zenon DEF Mp!Index
<1>3. ASSUME UNCHANGED <<txs, hashXs>> PROVE IndexExact'
  BY <1>3 DEF Mp!Index
<1>4. CASE Mp!Gather
  BY <1>1, <1>4 DEF Mp!Gather
<1>5. ASSUME NEW k \in tasks, Mp!AcceptFetched(k) PROVE IndexExact'
  BY <1>1, <1>5 DEF Mp!AcceptFetched
<1>6. Mp!Process \/ Mp!Gather \/ (\E k \in tasks : Mp!AcceptFetched(k)) \/ UNCHANGED <<txs, hashXs>>
  BY DEF Mp!Next, Mp!External, Mp!Refresh, Mp!Task, Mp!DaemonAccepts, Mp!DaemonEvicts, Mp!DaemonMines,
         Mp!HistogramBegins, Mp!HeightPolled, Mp!BlockIndexed, Mp!HistogramEnds, Mp!ReadHeight,
         Mp!GetHashes, Mp!CheckHeight, Mp!TakeLock, Mp!NotSynced, Mp!Abandon, Mp!Await, Mp!Announce, Mp!Fetch,
         Mp!Lookup, Mp!vars
<1> QED
  BY <1>2, <1>3, <1>4, <1>5, <1>6

\* The part of QueriesExact about sets: spends, unconfirmed outputs and summaries of an
\* address are those of all accepted transactions.
ListsExact ==
    \A x \in Mp!HashXs :
      /\ { p \in UNION { Prevouts[t] : t \in txs } : Pairs[p].hashX = x }
           \subseteq Mp!potential_spends(x)
      /\ Mp!unordered_UTXOs(x) = { p \in UNION { Mp!Outs(t) : t \in txs } : Pairs[p].hashX = x }
      /\ { s.hash : s \in Mp!transaction_summaries(x) } = { t \in txs : x \in Mp!Addresses(t) }

\* potential_spends, unordered_UTXOs, transaction_summaries: no transaction of an address
\* is missing from its index, and none is left in it.
THEOREM QueriesOfIndexExact == Mp!Spec => []ListsExact
<1>1. Mp!Init => IndexExact
  BY DEF Mp!Init, IndexExact, Mp!Index
<1>2. IndexExact => ListsExact
  <2> SUFFICES ASSUME IndexExact, NEW x \in Mp!HashXs
               PROVE /\ { p \in UNION { Prevouts[t] : t \in txs } : Pairs[p].hashX = x }
                          \subseteq Mp!potential_spends(x)
                     /\ Mp!unordered_UTXOs(x)
                             = { p \in UNION { Mp!Outs(t) : t \in txs } : Pairs[p].hashX = x }
                     /\ { s.hash : s \in Mp!transaction_summaries(x) }
                          = { t \in txs : x \in Mp!Addresses(t) }
    BY Zenon DEF ListsExact
  <2>1. Mp!TxsOf(x) = { t \in txs : x \in Mp!Addresses(t) }
    <3>1. \A t \in txs : <<x, t>> \in Mp!Index(txs) <=> x \in Mp!Addresses(t)
      BY DEF Mp!Index
    <3> QED
      BY <3>1 DEF IndexExact, Mp!TxsOf
  <2>2. \A t \in txs : \A p \in Prevouts[t] \cup Mp!Outs(t) : Pairs[p].hashX = x => t \in Mp!TxsOf(x)
    BY <2>1, Zenon DEF Mp!Addresses
  <2>3. Mp!TxsOf(x) \subseteq txs
    BY <2>1
  <2>4. { p \in UNION { Prevouts[t] : t \in txs } : Pairs[p].hashX = x } \subseteq Mp!potential_spends(x)
    BY <2>2, Zenon DEF Mp!potential_spends
  <2>5. Mp!unordered_UTXOs(x) = { p \in UNION { Mp!Outs(t) : t \in txs } : Pairs[p].hashX = x }
    BY <2>2, <2>3, Zenon DEF Mp!unordered_UTXOs
  <2>6. { s.hash : s \in Mp!transaction_summaries(x) } = Mp!TxsOf(x)
    <3> DEFINE summary(t) == [hash |-> t, has_unconfirmed_inputs |-> \E p \in Prevouts[t] : p[1] \in txs]
    <3>1. Mp!transaction_summaries(x) = { summary(t) : t \in Mp!TxsOf(x) }
      BY DEF Mp!transaction_summaries
    <3>2. \A t : summary(t).hash = t
      OBVIOUS
    <3> HIDE DEF summary
    <3> QED
      BY <3>1, <3>2
  <2> QED
    BY <2>1, <2>4, <2>5, <2>6
<1> QED
  BY <1>1, <1>2, NextIndex, PTL DEF Mp!Spec

=============================================================================
