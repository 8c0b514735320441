----------------------------- MODULE MCExchange ------------------------------
(***************************************************************************)
(* The connection to the server and the transfer of a body over it.  They  *)
(* share no state, so a behaviour here is one of Upstream, with no         *)
(* transfer, or one of Content, with no worker connecting.                 *)
(*                                                                         *)
(* Upstream: three lists that a load can bring: everything by a group but  *)
(* for one address; one name by the group, with other members known and    *)
(* down; no rules.  A weight of 0 counts as 1.                             *)
(***************************************************************************)
EXTENDS Upstream, Content

CONSTANTS w1, w2

Rule(src, kind, dst, gw) == [src |-> src, kind |-> kind, dst |-> dst, gateway |-> gw]
Member(n, t, w, up) == [name |-> n, tier |-> t, weight |-> w, up |-> up]
Group == <<Member("g1", 1, 2, TRUE), Member("g2", 1, 0, TRUE), Member("g3", 2, 1, TRUE)>>
MCLists == <<[rules |-> <<Rule({"c1"}, "ip", {"a1"}, "g1"), Rule({}, "any", {}, "all")>>,
             gateways |-> [g1 |-> TRUE, g2 |-> TRUE], groups |-> [all |-> Group]],
            [rules |-> <<Rule({}, "name", {"n1"}, "all")>>,
             gateways |-> [g1 |-> FALSE, g3 |-> TRUE], groups |-> [all |-> Group]],
            [rules |-> <<>>, gateways |-> [g1 |-> TRUE], groups |-> [all |-> <<>>]]>>
Req(c, n, ip, direct) == [client |-> c, name |-> n, ip |-> ip, isdirect |-> direct]
MCRequests == {Req("c1", "n1", NULL, TRUE), Req("c1", "a1", "a1", TRUE), Req("c1", "n1", NULL, FALSE),
               Req("c1", "me", "me", TRUE)}
MCLookup == [n1 |-> {<<"a2", "a1">>}, a1 |-> {<<"a1">>}, me |-> {<<"me">>}]
MCWorkers == {w1, w2}

(* Bodies shorter and longer than the limits, of every framing. *)
R(kind, n, chunks, gzip, text) == [kind |-> kind, n |-> n, chunks |-> chunks, gzip |-> gzip, text |-> text]
MCResponses ==
  {R("length", n, <<>>, FALSE, TRUE) : n \in 0 .. 7}
    \cup {R("length", 2, <<>>, TRUE, TRUE), R("length", 3, <<>>, FALSE, FALSE)}
    \cup {R("close", n, <<>>, FALSE, TRUE) : n \in {0, 3}}
    \cup {R("chunked", 0, <<>>, FALSE, TRUE), R("chunked", 1, <<1>>, TRUE, TRUE),
          R("chunked", 4, <<1, 3>>, FALSE, TRUE), R("chunked", 7, <<2, 5>>, FALSE, TRUE)}

C(check, scanners, filter, forgiving, bypass) ==
  [check |-> check, scanners |-> scanners, filter |-> filter, ram |-> 2, file |-> 5, block |-> 1,
   forgiving |-> forgiving, bypass |-> bypass]
MCConfigs == {C(FALSE, 0, 2, FALSE, FALSE), C(TRUE, 0, 2, FALSE, FALSE), C(TRUE, 1, 1, FALSE, TRUE),
              C(TRUE, 2, 2, TRUE, FALSE)}

NoTransfer ==
  /\ resp = R("length", 0, <<>>, FALSE, TRUE) /\ conf = C(FALSE, 0, 2, FALSE, FALSE) /\ last = 0
  /\ sock = [pos |-> 0, buf |-> 0, chunk |-> 0, fault |-> None] /\ d = NoBuffer /\ cm = NoVerdict
  /\ peer = [out |-> <<>>, header |-> "none", gone |-> FALSE] /\ through = 0 /\ persistProxy = TRUE
  /\ step = "none"

ExchangeInit ==
  \/ Init /\ NoTransfer
  \/ ContentInit /\ Init /\ loc = 1

ExchangeNext ==
  \/ step = "none" /\ Next /\ UNCHANGED contentvars
  \/ step # "none" /\ ContentNext /\ UNCHANGED vars

ExchangeSpec == ExchangeInit /\ [][ExchangeNext]_<<vars, contentvars>> /\ Fairness
=============================================================================
