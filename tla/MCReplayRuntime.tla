--------------------------- MODULE MCReplayRuntime ---------------------------
\* A session of four events, of which the first lies before the cursor;
\* 4 is in its range and not in it.
EXTENDS ReplayRuntime

MCSession == <<2, 3, 5, 6>>
=============================================================================
