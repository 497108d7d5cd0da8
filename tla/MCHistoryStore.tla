--------------------------- MODULE MCHistoryStore ---------------------------
(* Constant values and symmetry for model checking HistoryStore.            *)
EXTENDS HistoryStore, TLC

CONSTANTS a, b

MCHashX == {a, b}

\* a and b have different prefixes, so that compaction passes separate them.
MCPrefixOf == (a :> 0) @@ (b :> 1)
=============================================================================
