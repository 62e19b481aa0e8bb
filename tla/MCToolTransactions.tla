------------------------- MODULE MCToolTransactions -------------------------
\* A small pool and a few requests for TLC; requests and slots are
\* interchangeable.
EXTENDS ToolTransactions, TLC

Symmetry == Permutations(Requests) \cup Permutations(Conns)
=============================================================================
