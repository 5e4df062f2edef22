--------------------------- MODULE MCEpollReactor ---------------------------
EXTENDS EpollReactor, TLC
CONSTANTS h1, h2

\* What the transports, connectors and acceptors ask for.
MCRequests == {{"CONNECT"}, {"READ"}, {"WRITE"}}

\* Nothing; one event; two upcalls; one that was not asked for; the errors.
MCReports == {{}, {"WRITE"}, {"WRITE", "READ"}, {"EXCEPTION"}, {"HUP"}, {"ERR"}}

HandlerSymmetry == Permutations(Handlers)
=============================================================================
