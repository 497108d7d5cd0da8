------------------------------ MODULE Histogram ------------------------------
(***************************************************************************)
(* The compact fee histogram of MemPool (server/mempool.py): transactions     *)
(* are counted by fee rate, rounded down to a tenth, and rates are joined     *)
(* until a bin is full.  A rate is a number of tenths; the bin grows by a      *)
(* tenth each time, so bin number n holds more than bin_size * (11/10)^n.      *)
(***************************************************************************)
EXTENDS Integers, Sequences, SequencesExt, FiniteSetsExt

CONSTANTS
    Tx,          \* transactions: [fee, size]
    bin_size,    \* coin.MEMPOOL_COMPACT_HISTOGRAM_BINSIZE
    MaxTxs       \* transactions in the mempool

HistogramAssumption == bin_size \in Nat \ {0} /\ MaxTxs \in Nat

VARIABLES
    txs,         \* the mempool's transactions, in the order they came
    compact,     \* cached_compact_histogram: a sequence of [rate, size]
    updated      \* whether compact is of these transactions

vars == <<txs, compact, updated>>

SizeOf(T) == MapThenSumSet(LAMBDA i : txs[i].size, T)

\* Mutant of RateOf: to the nearest tenth.
RateRounded(tx) == (20 * tx.fee + tx.size) \div (2 * tx.size)

\* 0.1 sat/byte resolution, rounded down.
RateOf(tx) == (10 * tx.fee) \div tx.size

\* histogram: fee rate -> total size
histogram == [r \in {RateOf(txs[i]) : i \in DOMAIN txs} |->
                SizeOf({i \in DOMAIN txs : RateOf(txs[i]) = r})]

\* a > bin_size * (11/10)^n
Exceeds(a, n) == a * 10^n > bin_size * 11^n

\* The loop of _compress_histogram, from the highest rate: what is emitted, how often the
\* bin has grown, the size not emitted yet and the rate before.
Start == [out |-> <<>>, cum |-> 0, prev |-> -1]

Emit(s, rate) == [s EXCEPT !.out = Append(@, [rate |-> rate, size |-> s.cum]), !.cum = 0]

\* A big lump at one rate is kept apart from the rates above it.
Lump(s, size) ==
    IF size * 10^Len(s.out) > 2 * bin_size * 11^Len(s.out) /\ s.prev # -1 /\ s.cum > 0
    THEN Emit(s, s.prev) ELSE s

Join(s, rate, size) ==
    LET t == [s EXCEPT !.cum = @ + size]
    IN  [IF Exceeds(t.cum, Len(t.out)) THEN Emit(t, rate) ELSE t EXCEPT !.prev = rate]

_compress_histogram ==
    FoldLeft(LAMBDA s, rate : Join(Lump(s, histogram[rate]), rate, histogram[rate]),
             Start, SetToSortSeq(DOMAIN histogram, >)).out

Init == txs = <<>> /\ compact = <<>> /\ updated = FALSE

Accept(tx) ==
    /\ Len(txs) < MaxTxs
    /\ txs' = Append(txs, tx) /\ updated' = FALSE
    /\ UNCHANGED compact

_update_histogram ==
    /\ compact' = _compress_histogram /\ updated' = TRUE
    /\ UNCHANGED txs

Next == _update_histogram \/ \E tx \in Tx : Accept(tx)

Spec == Init /\ [][Next]_vars

----------------------------------------------------------------------------
\* tx pays at least this many tenths.
Pays(tx, rate) == 10 * tx.fee >= rate * tx.size

\* Each entry holds the sizes of exactly the transactions whose true fee rate is in
\* [rate_n, rate_(n-1)), rates falling: "rounding *down* is intentional".
IntervalsExact ==
    updated => \A n \in DOMAIN compact :
        /\ n > 1 => compact[n].rate < compact[n - 1].rate
        /\ compact[n].size = SizeOf({i \in DOMAIN txs :
                Pays(txs[i], compact[n].rate) /\ (n > 1 => ~Pays(txs[i], compact[n - 1].rate))})

\* What pays too little to be in an entry would not fill the next bin.
TailBelowBin ==
    updated => ~Exceeds(SizeOf({i \in DOMAIN txs : \A n \in DOMAIN compact : ~Pays(txs[i], compact[n].rate)}),
                        Len(compact))

\* The histogram accounts for every transaction that fills a bin, under its own rate
\* (_compress_histogram).
HistogramRight == IntervalsExact /\ TailBelowBin

\* "Intervals are chosen to create tranches containing at least a certain cumulative
\* size (bin_size) of transactions."  This does not hold (README, section 4).
TranchesFull == \A n \in DOMAIN compact : compact[n].size >= bin_size
=============================================================================
