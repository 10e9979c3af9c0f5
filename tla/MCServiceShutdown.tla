------------------------- MODULE MCServiceShutdown -------------------------
EXTENDS ServiceShutdown

At2(b, l, c) == [block |-> b, log |-> l, commitment |-> c]

\* Two heads, and a return to the first block with a log of another branch.
MCShortCursors == <<At2(1, 0, 0), At2(2, 0, 0), At2(1, 1, 0)>>
=============================================================================
