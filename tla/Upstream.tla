------------------------------ MODULE Upstream ------------------------------
(***************************************************************************)
(* The connection upstream: ConnectionHandler::connectUpstream, the use of *)
(* a connection again for the next request, and the gateway rules of the   *)
(* lists in force that say by which gateway a request leaves               *)
(* (LOptionContainer::matchGatewayRule, getGatewayEndpoints).  Workers     *)
(* share the counter of an LOptionContainer that spreads the connections   *)
(* over the members of a gateway group; a reload brings other rules, other *)
(* gateways and a new counter.                                             *)
(*                                                                         *)
(* A rule says which clients and which destinations (names or addresses)   *)
(* it is for; the ways of writing them are left out.                       *)
(***************************************************************************)
EXTENDS Integers, Sequences, FiniteSets, SequencesExt, FiniteSetsExt

CONSTANTS
  Workers,
  Requests,        \* [client, name, ip, isdirect]: ip is NULL unless the address is known
  Lookup,          \* the addresses a name can have, in the order the resolver gives them
  Lists,           \* what the loads can bring, a sequence of [rules, gateways, groups]
  check_ip,        \* o.check_ip
  check_ports,     \* the names whose port is one of o.check_ports
  connect_retries,
  CounterLimit,    \* 2^32 in the code
  MaxLoads, MaxRequests,     \* bounds on the loads, and on the requests of all workers
  NULL

VARIABLES
  loc,         \* the lists in force, by their index in Lists
  counters,    \* gw_rr_counter, of each load
  loads,
  served,      \* how many requests there have been
  st           \* each worker: its request, its lists, its socket, the attempt

vars == <<loc, counters, loads, served, st>>

(* No gateway: the empty name. *)
NoGateway == "none"

Closed == [open |-> FALSE, peer |-> NULL, gateway |-> NoGateway]
Idle == [pc |-> "idle", req |-> NULL, ldl |-> 0, sock |-> Closed, retry |-> 0,
         loop |-> FALSE, addrs |-> <<>>, seq |-> 0, tried |-> 0, gw |-> NoGateway]

Init ==
  /\ loc \in DOMAIN Lists
  /\ loads = <<loc>>
  /\ counters = <<0>>
  /\ served = 0
  /\ st = [w \in Workers |-> Idle]

-----------------------------------------------------------------------------
(* Rules. *)
SourceMatches(rule, req) == rule.src = {} \/ req.client \in rule.src

(* dst.kind is "any", "name", or "ip", which is compared with the address  *)
(* that is tried.                                                          *)
DestinationMatches(rule, req, ip) ==
  \/ rule.kind = "any"
  \/ rule.kind = "name" /\ req.name \in rule.dst
  \/ rule.kind = "ip" /\ (ip \in rule.dst \/ req.name \in rule.dst)

matchGatewayRule(lists, req, ip) ==
  LET on == {i \in DOMAIN lists.rules :
               SourceMatches(lists.rules[i], req) /\ DestinationMatches(lists.rules[i], req, ip)}
  IN  IF on = {} THEN NoGateway ELSE lists.rules[Min(on)].gateway

(* The members of a group, with what is known of the gateway now. *)
Members(lists, name) ==
  LET g == lists.groups[name]
  IN  [i \in DOMAIN g |-> IF g[i].name \in DOMAIN lists.gateways
                          THEN [g[i] EXCEPT !.up = @ /\ lists.gateways[g[i].name]] ELSE g[i]]

IsGroup(lists, name) == name \notin DOMAIN lists.gateways /\ name \in DOMAIN lists.groups

(* append_tier: the place of member i among the members with its tier and  *)
(* its state; the one that seq picks by weight is first, then round.       *)
append_tier(m, seq, i) ==
  LET tier == {k \in DOMAIN m : m[k].tier = m[i].tier /\ m[k].up = m[i].up}
      upto[k \in 0 .. Len(m)] == IF k = 0 THEN 0 ELSE upto[k - 1] + (IF k \in tier THEN Max({m[k].weight, 1}) ELSE 0)
      pick == seq % upto[Len(m)]
      primary == Min({k \in tier : pick < upto[k]})
  IN  IF i >= primary THEN i ELSE i + Len(m)

(* A mutant: the members that are down are left where their tier is. *)
FirstMixed(m, seq, i, j) ==
  \/ m[i].tier < m[j].tier
  \/ m[i].tier = m[j].tier /\ append_tier(m, seq, i) < append_tier(m, seq, j)

First(m, seq, i, j) ==
  \/ m[i].up /\ ~m[j].up
  \/ m[i].up = m[j].up /\ m[i].tier < m[j].tier
  \/ m[i].up = m[j].up /\ m[i].tier = m[j].tier /\ append_tier(m, seq, i) < append_tier(m, seq, j)

(* The order in which the members of a group are tried, for each value of  *)
(* the counter.                                                            *)
Order == [i \in DOMAIN Lists |-> [name \in DOMAIN Lists[i].groups |-> [seq \in 0 .. CounterLimit - 1 |->
            LET m == Members(Lists[i], name)
            IN  SortSeq([k \in DOMAIN m |-> k], LAMBDA k, j : First(m, seq, k, j))]]]

(* A gateway is its own endpoint; a name that is neither has none. *)
getGatewayEndpoints(i, name, seq) ==
  IF name \in DOMAIN Lists[i].gateways
  THEN <<[name |-> name, tier |-> 1, weight |-> 1, up |-> Lists[i].gateways[name]]>>
  ELSE IF ~IsGroup(Lists[i], name) THEN <<>>
  ELSE LET m == Members(Lists[i], name) IN [k \in DOMAIN m |-> m[Order[i][name][seq][k]]]

-----------------------------------------------------------------------------
(* A reload: the workers take the new lists with their next request. *)
Reload ==
  /\ Len(loads) < MaxLoads
  /\ loc' \in DOMAIN Lists
  /\ loads' = Append(loads, loc')
  /\ counters' = Append(counters, 0)
  /\ UNCHANGED <<served, st>>

(* The lists a worker took with its request. *)
LDL(s) == Lists[loads[s.ldl]]

(* A mutant: a connection is used again whatever the rules now say. *)
KeepsAny(s) == s.sock.open

(* The connection of the last request is kept for the next one to the same *)
(* place, if the rules still give it the gateway it was made by.           *)
Keeps(s) ==
  /\ s.sock.open
  /\ s.req.isdirect => (LDL(s).rules # <<>> =>
                          matchGatewayRule(LDL(s), s.req, s.sock.peer) = s.sock.gateway)

Same(old, new) == old # NULL /\ old.name = new.name /\ old.isdirect = new.isdirect

(* The next request: it takes the lists in force, closes a connection that *)
(* leads elsewhere, and needs a new one if there is none.                  *)
NextRequest(w, req) ==
  LET s == st[w]
      kept == IF Same(s.req, req) THEN s.sock ELSE Closed
      n == [s EXCEPT !.req = req, !.ldl = Len(loads), !.sock = kept,
                     !.retry = 0, !.loop = req.name \in check_ports]
  IN  /\ s.pc = "idle"
      /\ served < MaxRequests
      /\ served' = served + 1
      /\ st' = [st EXCEPT ![w] = IF Keeps(n) THEN [n EXCEPT !.pc = "send"]
                                 ELSE [n EXCEPT !.pc = "connect", !.sock = Closed]]
      /\ UNCHANGED <<loc, counters, loads>>

(* One attempt begins, or there have been enough. *)
Again(w) ==
  LET s == st[w]
      fail == [s EXCEPT !.pc = "failed", !.addrs = <<>>]
      known == s.req.ip # NULL
      own == s.loop /\ s.req.ip \in check_ip
  IN  /\ s.pc = "connect"
      /\ st' = [st EXCEPT ![w] =
                  IF s.retry >= connect_retries THEN fail
                  ELSE IF ~s.req.isdirect THEN [s EXCEPT !.pc = "proxy", !.retry = @ + 1]
                  ELSE IF known /\ own THEN fail
                  ELSE IF known THEN [s EXCEPT !.pc = "address", !.retry = @ + 1, !.loop = FALSE, !.addrs = <<s.req.ip>>]
                  ELSE [s EXCEPT !.pc = "resolve", !.retry = @ + 1]]
      /\ UNCHANGED <<loc, counters, loads, served>>

(* A mutant: an attempt whose name could not be resolved for now does not  *)
(* count.                                                                  *)
ResolveUncounted(w) ==
  /\ st[w].pc = "resolve"
  /\ \/ \E a \in Lookup[st[w].req.name] : st' = [st EXCEPT ![w].pc = "address", ![w].addrs = a]
     \/ st' = [st EXCEPT ![w].pc = "connect", ![w].retry = @ - 1]
     \/ st' = [st EXCEPT ![w].pc = "failed"]
  /\ UNCHANGED <<loc, counters, loads, served>>

(* getaddrinfo answers, fails for now, or fails. *)
Resolve(w) ==
  /\ st[w].pc = "resolve"
  /\ \/ \E a \in Lookup[st[w].req.name] : st' = [st EXCEPT ![w].pc = "address", ![w].addrs = a]
     \/ st' = [st EXCEPT ![w].pc = "connect"]
     \/ st' = [st EXCEPT ![w].pc = "failed"]
  /\ UNCHANGED <<loc, counters, loads, served>>

(* The next address: not one of our own, as long as that is looked for;    *)
(* the rules name the gateway, and a group takes a value of the counter.   *)
Address(w) ==
  LET s == st[w]
      ip == Head(s.addrs)
      gw == matchGatewayRule(LDL(s), s.req, ip)
      group == IsGroup(LDL(s), gw)
  IN  /\ s.pc = "address"
      /\ IF s.addrs = <<>>
         THEN /\ st' = [st EXCEPT ![w].pc = IF s.loop THEN "failed" ELSE "connect"]
              /\ UNCHANGED counters
         ELSE IF s.loop /\ ip \in check_ip
         THEN st' = [st EXCEPT ![w].pc = "failed", ![w].addrs = <<>>] /\ UNCHANGED counters
         ELSE /\ st' = [st EXCEPT ![w] = [s EXCEPT !.pc = "endpoint", !.loop = FALSE, !.gw = gw, !.tried = 0,
                                                   !.seq = IF group THEN counters[s.ldl] ELSE 0]]
              /\ counters' = IF group THEN [counters EXCEPT ![s.ldl] = (@ + 1) % CounterLimit] ELSE counters
      /\ UNCHANGED <<loc, loads, served>>

(* sock.connect by the next endpoint of getGatewayEndpoints, or plainly    *)
(* where there is none.                                                    *)
Endpoint(w) ==
  LET s == st[w]
      n == IF IsGroup(LDL(s), s.gw) THEN Len(LDL(s).groups[s.gw]) ELSE 1
      sock == [open |-> TRUE, peer |-> Head(s.addrs), gateway |-> s.gw]
      over == [s EXCEPT !.tried = 0, !.seq = 0, !.gw = NoGateway]
  IN  /\ s.pc = "endpoint"
      /\ \/ st' = [st EXCEPT ![w] = [over EXCEPT !.pc = "send", !.sock = sock, !.addrs = <<>>, !.retry = 0]]
         \/ st' = [st EXCEPT ![w] = IF s.tried + 1 < n THEN [s EXCEPT !.tried = @ + 1]
                                    ELSE [over EXCEPT !.pc = "address", !.addrs = Tail(@)]]
      /\ UNCHANGED <<loc, counters, loads, served>>

(* The proxy is connected to, without the rules. *)
Proxy(w) ==
  /\ st[w].pc = "proxy"
  /\ \/ st' = [st EXCEPT ![w].pc = "send", ![w].sock = [Closed EXCEPT !.open = TRUE]]
     \/ st' = [st EXCEPT ![w].pc = "connect"]
  /\ UNCHANGED <<loc, counters, loads, served>>

(* The request is sent and answered; the connection may stay open.         *)
SendRequest(w) ==
  LET s == [st[w] EXCEPT !.pc = "idle", !.retry = 0, !.loop = FALSE]
  IN  /\ st[w].pc \in {"send", "failed"}
      /\ \/ st[w].pc = "send" /\ st' = [st EXCEPT ![w] = s]
         \/ st' = [st EXCEPT ![w] = [s EXCEPT !.sock = Closed, !.req = NULL]]
      /\ UNCHANGED <<loc, counters, loads, served>>

Next ==
  \/ Reload
  \/ \E w \in Workers :
       \/ \E r \in Requests : NextRequest(w, r)
       \/ Again(w)
       \/ Resolve(w)
       \/ Address(w)
       \/ Endpoint(w)
       \/ Proxy(w)
       \/ SendRequest(w)

Fairness == \A w \in Workers : WF_vars(Again(w) \/ Resolve(w) \/ Address(w) \/ Endpoint(w) \/ Proxy(w) \/ SendRequest(w))

Spec == Init /\ [][Next]_vars /\ Fairness

-----------------------------------------------------------------------------
(* A request that goes out directly leaves by the gateway that the rules   *)
(* it was accepted under give it for the address it is sent to, over a new *)
(* connection and over one that an earlier request made under other rules. *)
(* (When a load has no rules at all, a connection that is open is not      *)
(* looked at again and stays with its gateway.)                            *)
LeavesByItsGateway ==
  \A w \in Workers : LET s == st[w] IN
    (s.pc = "send" /\ s.req.isdirect /\ LDL(s).rules # <<>>) =>
      s.sock.gateway = matchGatewayRule(LDL(s), s.req, s.sock.peer)

(* Where a group of gateways is tried, every member is tried once before   *)
(* the address is given up, whatever the counter is: first the ones that   *)
(* are up, in the order of their tiers, then the ones that are down.       *)
UpFirst ==
  \A w \in Workers : LET s == st[w] IN
    (s.pc = "endpoint" /\ IsGroup(LDL(s), s.gw)) =>
      LET m == Members(LDL(s), s.gw)
          e == getGatewayEndpoints(loads[s.ldl], s.gw, s.seq)
      IN  /\ Len(e) = Len(m) /\ Range(e) = Range(m)
          /\ \A i \in 1 .. s.tried :
               LET x == e[i]
                   y == e[s.tried + 1]
               IN  (x.up /\ ~y.up) \/ (x.up = y.up /\ x.tier <= y.tier)

(* Every attempt to connect ends: the request is sent or given up, after   *)
(* connect_retries attempts at most (connectUpstream).                     *)
ConnectEnds ==
  \A w \in Workers : st[w].pc = "connect" ~> st[w].pc \in {"send", "failed"}

=============================================================================
