--------------------------- MODULE MCProxyServer ---------------------------
EXTENDS ProxyServer, TLC

\* Connections are interchangeable: no action tells one from another.
ConnSymmetry == Permutations(Conn)
=============================================================================
