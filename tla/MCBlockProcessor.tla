-------------------------- MODULE MCBlockProcessor --------------------------
(***************************************************************************)
(* A block tree for model checking BlockProcessor.                         *)
(*                                                                         *)
(*     g0 --- m1 --- m2 --- a3 --- a4 --- a5                               *)
(*              \      \--- c3 --- c4 --- c5 --- c6                        *)
(*               \--- d2 --- d3 --- d4                                     *)
(*                                                                         *)
(* Transaction p is in both branches, at different heights and numbers;    *)
(* q spends an output of p in the same block in one branch and in a later  *)
(* block in the other; r and s spend two outputs each.  There are only two *)
(* compressed hashes, so that lookups in the h table collide.              *)
(***************************************************************************)
EXTENDS BlockProcessor

MCPrev == [g0 |-> "none", m1 |-> "g0", m2 |-> "m1",
           a3 |-> "m2", a4 |-> "a3", a5 |-> "a4",
           c3 |-> "m2", c4 |-> "c3", c5 |-> "c4", c6 |-> "c5",
           d2 |-> "m1", d3 |-> "d2", d4 |-> "d3"]

MCBlocks == DOMAIN MCPrev

MCTxs == [g0 |-> <<"g">>, m1 |-> <<"m">>, m2 |-> <<"n">>,
          a3 |-> <<"a", "p", "q">>, a4 |-> <<"b", "r">>, a5 |-> <<"f">>,
          c3 |-> <<"c">>, c4 |-> <<"d", "p">>, c5 |-> <<"e", "q", "s">>,
          c6 |-> <<"h">>,
          d2 |-> <<"a">>, d3 |-> <<"b">>, d4 |-> <<"c">>]

Out(t, i) == [tx |-> t, idx |-> i]

MCIns == [g |-> <<>>, m |-> <<>>, a |-> <<>>, b |-> <<>>, c |-> <<>>,
          d |-> <<>>, e |-> <<>>, f |-> <<>>, h |-> <<>>, n |-> <<>>,
          p |-> <<Out("m", 1)>>, q |-> <<Out("p", 1)>>,
          r |-> <<Out("p", 2), Out("a", 1)>>, s |-> <<Out("c", 1), Out("p", 2)>>]

MCOuts == [g |-> <<"x">>, m |-> <<"x">>, a |-> <<"y">>, b |-> <<"x">>,
           c |-> <<"y">>, d |-> <<"x">>, e |-> <<"y">>,
           p |-> <<"y", "x">>, q |-> <<"none", "x">>, r |-> <<"y">>,
           s |-> <<"z">>, f |-> <<"x">>, h |-> <<"x">>, n |-> <<"y">>]

MCComp == [t \in DOMAIN MCOuts |-> IF t \in {"p", "q", "r", "s"} THEN 1 ELSE 0]
=============================================================================
