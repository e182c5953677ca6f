---------------------------- MODULE MCRecvStream ----------------------------
EXTENDS RecvStream

McSizes == {2, 3, 5}

=============================================================================
