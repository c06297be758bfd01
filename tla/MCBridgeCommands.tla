---------------------------- MODULE MCBridgeCommands ----------------------------
(***************************************************************************)
(* A small instance of BridgeCommands for TLC: a request for a named tab   *)
(* and one for any, which do not share a lock, and a passive prompt for    *)
(* the named tab.                                                          *)
(***************************************************************************)
EXTENDS BridgeCommands

CONSTANTS t1, t2, r1, r2, p1

TwoTabs     == {t1, t2}
TwoRequests == {r1, r2}
OnePassive  == {p1}
Targets     == [x \in {r1, r2, p1} |-> IF x = r2 THEN Any ELSE t1]

(* The bound of the search: two requests compete, or one competes with the  *)
(* passive prompt.                                                         *)
Focus == phase[r2] = "new" \/ record[p1] = "UNKNOWN"
===============================================================================
