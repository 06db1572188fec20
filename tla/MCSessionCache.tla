--------------------------- MODULE MCSessionCache ---------------------------
EXTENDS SessionCache, TLC

Clients == Permutations(Client)

=============================================================================
