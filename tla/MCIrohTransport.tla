--------------------------- MODULE MCIrohTransport ---------------------------
EXTENDS IrohTransport

CONSTANTS a1, a2, k1, k2

Names == Permutations(Addrs) \cup Permutations(Conns)
=============================================================================
