------------------------- MODULE MCConnectionPool --------------------------
(* ConnectionPool for TLC.  There are names for more connections than can   *)
(* be open at once, so that opening one never waits.                        *)
EXTENDS ConnectionPool

CONSTANTS c1, c2, c3, k1, k2, k3, k4, k5, k6

ThreeClients == {c1, c2, c3}
SixNames == {k1, k2, k3, k4, k5, k6}
OneSeed == <<k1>>
=============================================================================
