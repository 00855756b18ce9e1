--------------------------- MODULE MCALooperRoster ---------------------------
(* Model values and bounds for checking ALooperRoster with TLC.            *)
EXTENDS ALooperRoster, TLC

CONSTANTS c1, c2, l1, l2, h1, h2

MCClients == {c1, c2}
MCLoopers == {l1, l2}
MCHandlers == {h1, h2}
OneHandler == {h1}
Interchangeable == Permutations(MCClients) \cup Permutations(MCLoopers) \cup Permutations(MCHandlers)
==============================================================================
