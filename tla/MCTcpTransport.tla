--------------------------- MODULE MCTcpTransport ---------------------------
EXTENDS TcpTransport, TLC
CONSTANTS r1, r2

ReactorSymmetry == Permutations(Reactors)
=============================================================================
