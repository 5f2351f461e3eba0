---------------------------- MODULE MCBattleTurn ----------------------------
(* Two or three members a side: small enough to exhaust, and long enough for  *)
(* a replacement to come from either side of the active member's position.   *)
EXTENDS BattleTurn

CONSTANTS p1, p2, e1, e2, e3

MCTeam == <<p1, p2>>
MCFoes == <<e1, e2, e3>>
MCCapped == {p2}
=============================================================================
