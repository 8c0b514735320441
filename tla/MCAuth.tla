------------------------------- MODULE MCAuth -------------------------------
(* Two workers, two clients, one reload and one edit of the ipgroups file. *)
EXTENDS Auth, TLC

CONSTANTS t1, t2

MCClients == {"10.0.0.1", "fd00::2"}
MCIPv4 == {"10.0.0.1", "10.0.0.2"}
MCNames == MCClients \cup MCIPv4 \cup {NoName, Portal, "-", "Ann", "ann", "bob", "port", "blank"}
MCNorm == [n \in MCNames |-> CASE n = "Ann" -> "ann" [] n = "blank" -> NoName [] OTHER -> n]

(* ann moves from group 1 to group 2 with the reload; bob has no group. *)
MCListed == [g \in 1 .. 2 |-> [n \in MCNames |->
  CASE n = "ann" -> g [] n = "port" -> 2 [] OTHER -> -1]]

(* The first client moves, the second one is banned by the edit. *)
MCIPGroups == [v \in 1 .. 2 |-> [c \in MCIPv4 |->
  IF c = "10.0.0.1" THEN v ELSE IF v = 1 THEN -1 ELSE -3]]

(* The first client has a record; the second one logs in, and may be given
   a group that does not exist or an answer without text. *)
MCTxt == [c \in MCClients, said \in MCNames |->
  IF c = "10.0.0.1" THEN {[kind |-> "txt", user |-> "ann", group |-> 1]}
  ELSE {[kind |-> k, user |-> "bob", group |-> 7] : k \in {"txt", "other", "none"}}]

Request(auth, name, fwd) == [auth |-> auth, name |-> name, colon |-> TRUE, fwd |-> fwd,
                             said |-> NoName, portal |-> FALSE]
Basic == {Request("basic", n, NoName) : n \in {"Ann", "bob"}}
Addressed == {[Request("none", NoName, NoName) EXCEPT !.said = "10.0.0.2"]}
Chains == {<<>>, <<"pfbasic", "ip">>, <<"ntlm", "header", "port">>, <<"basic", "ident">>, <<"ip", "digest">>,
           <<"dnsauth", "basic">>}
MCRequests == [p \in Chains |->
  CASE p = <<>> -> {Request("none", NoName, NoName)}
    [] p = <<"pfbasic", "ip">> -> {[Request("basic", "ann", NoName) EXCEPT !.colon = FALSE],
                                  Request("basic", "blank", NoName), Request("none", NoName, "ann")}
    [] p = <<"ntlm", "header", "port">> -> {Request("ntlm", "Ann", NoName), Request("header", "bob", NoName)}
    [] p = <<"basic", "ident">> -> Basic
    [] p = <<"ip", "digest">> -> Addressed \cup {Request("digest", "ann", NoName)}
    [] p = <<"dnsauth", "basic">> ->
         {Request("basic", NoName, NoName)} \cup {[Request("none", NoName, NoName) EXCEPT !.portal = TRUE]}]

Conf(plugins) == [plugins |-> plugins, xff |-> FALSE, mapped |-> "any", requires |-> FALSE, redirect |-> FALSE,
                  unreadable |-> FALSE, plugdef |-> -1, default_fg |-> 0, default_trans_fg |-> 2]
MCConfs == {Conf(<<>>), [Conf(<<"pfbasic", "ip">>) EXCEPT !.unreadable = TRUE], Conf(<<"ntlm", "header", "port">>),
            [Conf(<<"ntlm", "header", "port">>) EXCEPT !.mapped = "port"]}
  \cup {[Conf(<<"basic", "ident">>) EXCEPT !.plugdef = d, !.requires = TRUE] : d \in {-1, 2}}
  \cup {[Conf(<<"ip", "digest">>) EXCEPT !.xff = TRUE]}
  \cup {[Conf(<<"dnsauth", "basic">>) EXCEPT !.redirect = r] : r \in BOOLEAN}

Two == Permutations(Workers)
=============================================================================
