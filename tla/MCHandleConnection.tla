------------------------ MODULE MCHandleConnection ------------------------
(***************************************************************************)
(* Two servers, two groups.  The first configuration has no parent proxy,   *)
(* the others do; between them they have every kind of authentication,      *)
(* gateway rules, scanners, forwarded addresses, interception and reporting *)
(* level -1.                                                                *)
(***************************************************************************)
EXTENDS THTTPS

CONSTANTS A, B

MCDests == {A, B}
MCGroups == {0, 1}

Fg(s, m, a, x) == [stealth |-> s, mitm |-> m, auto |-> a, scanexc |-> x]
Plain == Fg(FALSE, FALSE, FALSE, FALSE)
Full == Fg(FALSE, TRUE, TRUE, TRUE)
Stealth == Fg(TRUE, TRUE, FALSE, FALSE)

Conf(p, g, x, s, a, f0, f1) ==
  [no_proxy |-> p, gateways |-> g, xff |-> x, scan |-> s, auth |-> a,
   fg |-> [i \in MCGroups |-> IF i = 0 THEN f0 ELSE f1]]

MCConfs ==
  {Conf(TRUE, FALSE, FALSE, TRUE, "none", Full, Plain),
   Conf(FALSE, FALSE, FALSE, FALSE, "ntlm", Full, Stealth),
   Conf(FALSE, TRUE, FALSE, FALSE, "digest", Plain, Full),
   Conf(FALSE, FALSE, TRUE, TRUE, "local", Stealth, Full)}

(* A CONNECT is proxied and keeps the connection; a HEAD names A and keeps  *)
(* it; everything else is free.                                             *)
MCRequests ==
  {r \in [dest : MCDests, connect : BOOLEAN, head : BOOLEAN, keep : BOOLEAN, proxied : BOOLEAN] :
     /\ r.connect => ~r.head /\ r.keep /\ r.proxied
     /\ r.head => r.dest = A /\ r.keep}
=============================================================================
