--------------------------- MODULE MCStressStream ---------------------------
EXTENDS StressStream

McSizes == {2, 3, 5}

=============================================================================
