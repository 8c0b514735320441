------------------------------ MODULE MCICAP ------------------------------
(***************************************************************************)
(* Two groups that differ in every option that the handlers ask: the first   *)
(* scans everything and lets blocks be bypassed, the second does not; the    *)
(* other configuration has a group at reporting level -1.                    *)
(***************************************************************************)
EXTENDS ICAP

MCGroups == {0, 1}

Fg(s, n, x, b) == [stealth |-> s, scan |-> n, scanexc |-> x, bypass |-> b]

MCConfs ==
  {[g \in MCGroups |-> IF g = 0 THEN Fg(FALSE, TRUE, TRUE, TRUE) ELSE Fg(FALSE, TRUE, FALSE, FALSE)],
   [g \in MCGroups |-> IF g = 0 THEN Fg(TRUE, FALSE, FALSE, TRUE) ELSE Fg(FALSE, FALSE, TRUE, TRUE)]}
=============================================================================
