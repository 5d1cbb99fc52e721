---------------------------- MODULE MCUP2DateClient ----------------------------
(***************************************************************************)
(* Instance of the example program for TLC.                                *)
(***************************************************************************)
EXTENDS UP2DateClient

CONSTANTS e1, e2, link, k1, k2

MCEndpoints == {e1, e2}
MCKeypairs == {k1, k2}
MCLinks == {link}

\* -1: the server sends no interval and the builder's default one is used.
MCServerSleepTimes == {-1, 2000}
MCDefaultSleepTimes == {30000}

================================================================================
