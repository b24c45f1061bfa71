--------------------------- MODULE MCTeleopHandoff ---------------------------
(* Two handoffs of one run, as many sessions as the popups ask for.         *)
EXTENDS TeleopHandoff
CONSTANTS h1, h2, s1, s2, s3

MCTransfers == {h1, h2}
MCSessions == {s1, s2, s3}
MCRequests == MCTransfers \cup {NoTransfer}
=============================================================================
