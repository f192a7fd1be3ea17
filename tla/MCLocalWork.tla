---------------------------- MODULE MCLocalWork ----------------------------
(* Instances of LocalWork for TLC.                                          *)
EXTENDS LocalWork

CONSTANTS c1, c2, t1, route_loop

OneCall == {c1}
TwoCalls == {c1, c2}
OneTask == {t1}
=============================================================================
