--------------------------- MODULE UpstreamProofs ---------------------------
(***************************************************************************)
(* A request that goes out directly leaves by the gateway its rules name,  *)
(* whatever the requests, the rules, the addresses and the retries are,    *)
(* and however reloads fall between the steps of a connection attempt.     *)
(*                                                                         *)
(* LeavesByItsGateway alone is not inductive: the gateway is chosen when   *)
(* an address is taken and used one or more failed endpoints later, and    *)
(* the rules meant are those of a load that a reload must leave alone.     *)
(***************************************************************************)
EXTENDS Upstream, TLAPS

(* The state of a worker is a record with the fields of Idle. *)
Attempt(s) ==
  /\ s = [f \in DOMAIN s |-> s[f]]
  /\ DOMAIN s = {"pc", "req", "ldl", "sock", "retry", "loop", "addrs", "seq", "tried", "gw"}

(* A worker that is not idle has lists of a load; the gateway that is      *)
(* tried is the one of the address that is tried, by these lists; the      *)
(* proxy is for requests that do not go out directly.                      *)
OnItsWay(s) ==
  /\ s.pc # "idle" => s.ldl \in DOMAIN loads
  /\ s.pc = "endpoint" => s.gw = matchGatewayRule(LDL(s), s.req, Head(s.addrs))
  /\ s.pc = "proxy" => ~s.req.isdirect
  /\ s.pc = "send" => (s.req.isdirect /\ LDL(s).rules # <<>>
                         => s.sock.gateway = matchGatewayRule(LDL(s), s.req, s.sock.peer))

GInv ==
  /\ loads \in Seq(DOMAIN Lists) /\ loads # <<>>
  /\ st = [w \in Workers |-> st[w]]
  /\ \A w \in Workers : Attempt(st[w]) /\ OnItsWay(st[w])

LEMMA GInvStarts == Init => GInv
<1> SUFFICES ASSUME Init PROVE GInv
  BY Zenon
<1>1. loads \in Seq(DOMAIN Lists) /\ loads # <<>>
  BY DEF Init
<1>2. st = [w \in Workers |-> st[w]] /\ \A w \in Workers : st[w] = Idle
  BY Zenon DEF Init
<1>3. Attempt(Idle) /\ OnItsWay(Idle)
  BY Zenon DEF Idle, Attempt, OnItsWay
<1> QED BY <1>1, <1>2, <1>3, Zenon DEF GInv

(* A step of one worker: it is enough to look at its new state. *)
LEMMA OneWorker ==
  ASSUME GInv, NEW w \in Workers, NEW s, st' = [st EXCEPT ![w] = s], loads' = loads,
         Attempt(s), OnItsWay(s)
  PROVE  GInv'
<1>1. /\ st' = [v \in Workers |-> st'[v]]
      /\ \A v \in Workers : st'[v] = IF v = w THEN s ELSE st[v]
  BY Zenon DEF GInv
<1>2. ASSUME NEW v \in Workers PROVE Attempt(st[v])' /\ OnItsWay(st[v])'
  <2>1. Attempt(st'[v]) /\ OnItsWay(st'[v])
    BY <1>1, Zenon DEF GInv
  <2>2. Attempt(st[v])'
    BY <2>1, Zenon DEF Attempt
  <2>3. OnItsWay(st[v])'
    BY <2>1, Zenon DEF OnItsWay, LDL
  <2> QED BY <2>2, <2>3, Zenon
<1> QED BY <1>1, <1>2, Zenon DEF GInv

(* A reload leaves the loads that workers have taken their lists of. *)
LEMMA ReloadKeeps ==
  ASSUME GInv, Reload
  PROVE  GInv'
<1>1. /\ st' = st
      /\ loads' \in Seq(DOMAIN Lists) /\ loads' # <<>>
      /\ \A i \in DOMAIN loads : i \in DOMAIN loads' /\ loads'[i] = loads[i]
  BY DEF GInv, Reload
<1>2. ASSUME NEW w \in Workers PROVE Attempt(st[w])' /\ OnItsWay(st[w])'
  <2>1. Attempt(st[w]) /\ OnItsWay(st[w])
    BY Zenon DEF GInv
  <2>2. Attempt(st[w])'
    BY <1>1, <2>1, Zenon DEF Attempt
  <2>3. OnItsWay(st[w])'
    BY <1>1, <2>1, Zenon DEF OnItsWay, LDL
  <2> QED BY <2>2, <2>3, Zenon
<1>3. (st = [w \in Workers |-> st[w]])'
  BY <1>1, Zenon DEF GInv
<1> QED BY <1>1, <1>2, <1>3, Zenon DEF GInv

(* The lists of a request are the ones in force, and a connection that is  *)
(* kept is checked against the rules of these.                             *)
LEMMA NextRequestKeeps ==
  ASSUME GInv, NEW w \in Workers, NEW r \in Requests, NextRequest(w, r)
  PROVE  GInv'
<1> DEFINE s == st[w]
           kept == IF Same(s.req, r) THEN s.sock ELSE Closed
           n == [s EXCEPT !.req = r, !.ldl = Len(loads), !.sock = kept,
                          !.retry = 0, !.loop = r.name \in check_ports]
           m == IF Keeps(n) THEN [n EXCEPT !.pc = "send"]
                ELSE [n EXCEPT !.pc = "connect", !.sock = Closed]
<1>1. st' = [st EXCEPT ![w] = m] /\ loads' = loads
  BY Zenon DEF NextRequest
<1>2. Attempt(s)
  BY Zenon DEF GInv
<1>3. /\ Attempt(n)
      /\ n.req = r /\ n.ldl = Len(loads) /\ n.sock = kept
  <2> HIDE DEF kept, s
  <2> QED BY <1>2, Zenon DEF Attempt
<1>4. n.ldl \in DOMAIN loads
  BY <1>3 DEF GInv
<1> HIDE DEF s, kept, n
<1>5. CASE Keeps(n)
  <2>1. m = [n EXCEPT !.pc = "send"]
    BY <1>5, Zenon
  <2>2. Attempt(m) /\ m.pc = "send" /\ m.ldl = n.ldl /\ m.req = n.req /\ m.sock = n.sock
    BY <1>3, <2>1, Zenon DEF Attempt
  <2>3. OnItsWay(m)
    BY <1>4, <1>5, <2>2, Zenon DEF OnItsWay, Keeps, LDL
  <2> QED BY <1>1, <2>2, <2>3, OneWorker, Zenon
<1>6. CASE ~Keeps(n)
  <2>1. m = [n EXCEPT !.pc = "connect", !.sock = Closed]
    BY <1>6, Zenon
  <2>2. Attempt(m) /\ m.pc = "connect" /\ m.ldl = n.ldl
    BY <1>3, <2>1, Zenon DEF Attempt
  <2>3. OnItsWay(m)
    BY <1>4, <2>2, Zenon DEF OnItsWay
  <2> QED BY <1>1, <2>2, <2>3, OneWorker, Zenon
<1> QED BY <1>5, <1>6, Zenon

(* A step to a place where nothing has been chosen yet. *)
LEMMA Unchosen ==
  ASSUME GInv, NEW w \in Workers, NEW s, st' = [st EXCEPT ![w] = s], loads' = loads,
         st[w].pc # "idle", Attempt(s), s.ldl = st[w].ldl, s.pc \notin {"endpoint", "proxy", "send"}
  PROVE  GInv'
<1>1. OnItsWay(st[w])
  BY Zenon DEF GInv
<1>2. OnItsWay(s)
  BY <1>1, Zenon DEF OnItsWay
<1> QED BY <1>2, OneWorker, Zenon

LEMMA AgainKeeps ==
  ASSUME GInv, NEW w \in Workers, Again(w)
  PROVE  GInv'
<1> DEFINE s == st[w]
<1>1. Attempt(s) /\ OnItsWay(s) /\ s.pc = "connect" /\ loads' = loads
  BY Zenon DEF GInv, Again
<1>2. CASE st' = [st EXCEPT ![w] = [s EXCEPT !.pc = "failed", !.addrs = <<>>]]
  <2> DEFINE m == [s EXCEPT !.pc = "failed", !.addrs = <<>>]
  <2>1. Attempt(m) /\ m.pc = "failed" /\ m.ldl = s.ldl
    BY <1>1, Zenon DEF Attempt
  <2> HIDE DEF m
  <2> QED BY <1>1, <1>2, <2>1, Unchosen, Zenon DEF m
<1>3. CASE ~s.req.isdirect /\ st' = [st EXCEPT ![w] = [s EXCEPT !.pc = "proxy", !.retry = @ + 1]]
  <2> DEFINE m == [s EXCEPT !.pc = "proxy", !.retry = @ + 1]
  <2>1. Attempt(m) /\ m.pc = "proxy" /\ m.ldl = s.ldl /\ m.req = s.req
    BY <1>1, Zenon DEF Attempt
  <2> HIDE DEF m
  <2>2. OnItsWay(m)
    BY <1>1, <1>3, <2>1, Zenon DEF OnItsWay
  <2> QED BY <1>1, <1>3, <2>1, <2>2, OneWorker, Zenon DEF m
<1>4. CASE st' = [st EXCEPT ![w] = [s EXCEPT !.pc = "address", !.retry = @ + 1, !.loop = FALSE,
                                             !.addrs = <<s.req.ip>>]]
  <2> DEFINE m == [s EXCEPT !.pc = "address", !.retry = @ + 1, !.loop = FALSE, !.addrs = <<s.req.ip>>]
  <2>1. Attempt(m) /\ m.pc = "address" /\ m.ldl = s.ldl
    BY <1>1, Zenon DEF Attempt
  <2> HIDE DEF m
  <2> QED BY <1>1, <1>4, <2>1, Unchosen, Zenon DEF m
<1>5. CASE st' = [st EXCEPT ![w] = [s EXCEPT !.pc = "resolve", !.retry = @ + 1]]
  <2> DEFINE m == [s EXCEPT !.pc = "resolve", !.retry = @ + 1]
  <2>1. Attempt(m) /\ m.pc = "resolve" /\ m.ldl = s.ldl
    BY <1>1, Zenon DEF Attempt
  <2> HIDE DEF m
  <2> QED BY <1>1, <1>5, <2>1, Unchosen, Zenon DEF m
<1> QED BY <1>2, <1>3, <1>4, <1>5, Zenon DEF Again

LEMMA ResolveKeeps ==
  ASSUME GInv, NEW w \in Workers, Resolve(w)
  PROVE  GInv'
<1> DEFINE s == st[w]
<1>1. Attempt(s) /\ s.pc = "resolve" /\ loads' = loads
  BY Zenon DEF GInv, Resolve
<1>2. ASSUME NEW pc \in {"connect", "failed"}, st' = [st EXCEPT ![w].pc = pc] PROVE GInv'
  <2> DEFINE m == [s EXCEPT !.pc = pc]
  <2>1. Attempt(m) /\ m.pc = pc /\ m.ldl = s.ldl /\ st' = [st EXCEPT ![w] = m]
    BY <1>1, <1>2, Zenon DEF Attempt
  <2> HIDE DEF m
  <2> QED BY <1>1, <2>1, Unchosen, Zenon
<1>3. ASSUME NEW a, st' = [st EXCEPT ![w].pc = "address", ![w].addrs = a] PROVE GInv'
  <2> DEFINE m == [s EXCEPT !.pc = "address", !.addrs = a]
  <2>1. Attempt(m) /\ m.pc = "address" /\ m.ldl = s.ldl
    BY <1>1, Zenon DEF Attempt
  <2>2. st' = [st EXCEPT ![w] = m]
    BY <1>3, Zenon DEF GInv
  <2> HIDE DEF m
  <2> QED BY <1>1, <2>1, <2>2, Unchosen, Zenon
<1> QED BY <1>2, <1>3, Zenon DEF Resolve

(* The gateway is the one the rules name for the address it is tried for. *)
LEMMA AddressKeeps ==
  ASSUME GInv, NEW w \in Workers, Address(w)
  PROVE  GInv'
<1> DEFINE s == st[w]
           gw == matchGatewayRule(LDL(s), s.req, Head(s.addrs))
<1>1. Attempt(s) /\ OnItsWay(s) /\ s.pc = "address" /\ loads' = loads
  BY Zenon DEF GInv, Address
<1>2. ASSUME NEW pc \in {"connect", "failed"}, st' = [st EXCEPT ![w].pc = pc] PROVE GInv'
  <2> DEFINE m == [s EXCEPT !.pc = pc]
  <2>1. Attempt(m) /\ m.pc = pc /\ m.ldl = s.ldl /\ st' = [st EXCEPT ![w] = m]
    BY <1>1, <1>2, Zenon DEF Attempt
  <2> HIDE DEF m
  <2> QED BY <1>1, <2>1, Unchosen, Zenon
<1>3. CASE st' = [st EXCEPT ![w].pc = "failed", ![w].addrs = <<>>]
  <2> DEFINE m == [s EXCEPT !.pc = "failed", !.addrs = <<>>]
  <2>1. Attempt(m) /\ m.pc = "failed" /\ m.ldl = s.ldl
    BY <1>1, Zenon DEF Attempt
  <2>2. st' = [st EXCEPT ![w] = m]
    BY <1>3, Zenon DEF GInv
  <2> HIDE DEF m
  <2> QED BY <1>1, <2>1, <2>2, Unchosen, Zenon
<1>4. ASSUME NEW c, st' = [st EXCEPT ![w] = [s EXCEPT !.pc = "endpoint", !.loop = FALSE, !.gw = gw,
                                                      !.tried = 0, !.seq = c]]
      PROVE  GInv'
  <2> DEFINE m == [s EXCEPT !.pc = "endpoint", !.loop = FALSE, !.gw = gw, !.tried = 0, !.seq = c]
  <2>1. /\ Attempt(m) /\ m.pc = "endpoint" /\ m.ldl = s.ldl /\ m.req = s.req
        /\ m.addrs = s.addrs /\ m.gw = gw
    <3> HIDE DEF gw
    <3> QED BY ZenonT(60), <1>1 DEF Attempt
  <2> HIDE DEF m
  <2>2. OnItsWay(m)
    BY <1>1, <2>1, Zenon DEF OnItsWay, LDL
  <2> QED BY <1>1, <1>4, <2>1, <2>2, OneWorker, Zenon DEF m
<1>5. \/ \E pc \in {"connect", "failed"} : st' = [st EXCEPT ![w].pc = pc]
      \/ st' = [st EXCEPT ![w].pc = "failed", ![w].addrs = <<>>]
      \/ \E c : st' = [st EXCEPT ![w] = [s EXCEPT !.pc = "endpoint", !.loop = FALSE, !.gw = gw,
                                                  !.tried = 0, !.seq = c]]
  <2>1. CASE s.addrs = <<>>
    BY ZenonT(60), <2>1 DEF Address
  <2>2. CASE s.addrs # <<>> /\ s.loop /\ Head(s.addrs) \in check_ip
    BY ZenonT(60), <2>2 DEF Address
  <2>3. CASE s.addrs # <<>> /\ ~(s.loop /\ Head(s.addrs) \in check_ip)
    <3> DEFINE c == IF IsGroup(LDL(s), gw) THEN counters[s.ldl] ELSE 0
    <3>1. st' = [st EXCEPT ![w] = [s EXCEPT !.pc = "endpoint", !.loop = FALSE, !.gw = gw,
                                            !.tried = 0, !.seq = c]]
      BY <2>3, Zenon DEF Address
    <3> QED BY <3>1, Zenon
  <2> QED BY <2>1, <2>2, <2>3, Zenon
<1> QED BY <1>2, <1>3, <1>4, <1>5, Zenon

(* The connection has the address and the gateway that were tried. *)
LEMMA EndpointKeeps ==
  ASSUME GInv, NEW w \in Workers, Endpoint(w)
  PROVE  GInv'
<1> DEFINE s == st[w]
           sock == [open |-> TRUE, peer |-> Head(s.addrs), gateway |-> s.gw]
           over == [s EXCEPT !.tried = 0, !.seq = 0, !.gw = NoGateway]
<1>1. Attempt(s) /\ OnItsWay(s) /\ s.pc = "endpoint" /\ loads' = loads
  BY Zenon DEF GInv, Endpoint
<1>2. Attempt(over) /\ over.ldl = s.ldl /\ over.req = s.req /\ over.addrs = s.addrs
  BY <1>1, Zenon DEF Attempt
<1>3. \/ st' = [st EXCEPT ![w] = [over EXCEPT !.pc = "send", !.sock = sock, !.addrs = <<>>, !.retry = 0]]
      \/ st' = [st EXCEPT ![w] = [s EXCEPT !.tried = @ + 1]]
      \/ st' = [st EXCEPT ![w] = [over EXCEPT !.pc = "address", !.addrs = Tail(@)]]
  <2> DEFINE n == IF IsGroup(LDL(s), s.gw) THEN Len(LDL(s).groups[s.gw]) ELSE 1
  <2>1. \/ st' = [st EXCEPT ![w] = [over EXCEPT !.pc = "send", !.sock = sock, !.addrs = <<>>, !.retry = 0]]
        \/ st' = [st EXCEPT ![w] = IF s.tried + 1 < n THEN [s EXCEPT !.tried = @ + 1]
                                   ELSE [over EXCEPT !.pc = "address", !.addrs = Tail(@)]]
    BY Zenon DEF Endpoint
  <2> HIDE DEF s, sock, over, n
  <2> QED BY <2>1, Zenon
<1>4. CASE st' = [st EXCEPT ![w] = [over EXCEPT !.pc = "send", !.sock = sock, !.addrs = <<>>, !.retry = 0]]
  <2> DEFINE m == [over EXCEPT !.pc = "send", !.sock = sock, !.addrs = <<>>, !.retry = 0]
  <2>1. Attempt(m) /\ m.pc = "send" /\ m.ldl = s.ldl /\ m.req = s.req /\ m.sock = sock
    <3> HIDE DEF over, sock
    <3> QED BY <1>2, Zenon DEF Attempt
  <2>2. sock.gateway = s.gw /\ sock.peer = Head(s.addrs)
    BY Zenon
  <2> HIDE DEF m, over, sock
  <2>3. OnItsWay(m)
    BY <1>1, <2>1, <2>2, Zenon DEF OnItsWay, LDL
  <2> QED BY <1>1, <1>4, <2>1, <2>3, OneWorker, Zenon DEF m
<1>5. CASE st' = [st EXCEPT ![w] = [s EXCEPT !.tried = @ + 1]]
  <2> DEFINE m == [s EXCEPT !.tried = @ + 1]
  <2>1. /\ Attempt(m) /\ m.pc = "endpoint" /\ m.ldl = s.ldl /\ m.req = s.req
        /\ m.addrs = s.addrs /\ m.gw = s.gw
    BY <1>1, Zenon DEF Attempt
  <2> HIDE DEF m
  <2>2. OnItsWay(m)
    BY <1>1, <2>1, Zenon DEF OnItsWay, LDL
  <2> QED BY <1>1, <1>5, <2>1, <2>2, OneWorker, Zenon DEF m
<1>6. CASE st' = [st EXCEPT ![w] = [over EXCEPT !.pc = "address", !.addrs = Tail(@)]]
  <2> DEFINE m == [over EXCEPT !.pc = "address", !.addrs = Tail(@)]
  <2>1. Attempt(m) /\ m.pc = "address" /\ m.ldl = s.ldl
    <3> HIDE DEF over
    <3> QED BY <1>2, Zenon DEF Attempt
  <2> HIDE DEF m, over
  <2> QED BY <1>1, <1>6, <2>1, Unchosen, Zenon DEF m
<1> QED BY <1>3, <1>4, <1>5, <1>6, Zenon

LEMMA ProxyKeeps ==
  ASSUME GInv, NEW w \in Workers, Proxy(w)
  PROVE  GInv'
<1> DEFINE s == st[w]
<1>1. Attempt(s) /\ OnItsWay(s) /\ s.pc = "proxy" /\ loads' = loads
  BY Zenon DEF GInv, Proxy
<1>2. CASE st' = [st EXCEPT ![w].pc = "send", ![w].sock = [Closed EXCEPT !.open = TRUE]]
  <2> DEFINE m == [s EXCEPT !.pc = "send", !.sock = [Closed EXCEPT !.open = TRUE]]
  <2>1. Attempt(m) /\ m.pc = "send" /\ m.ldl = s.ldl /\ m.req = s.req
    BY <1>1, Zenon DEF Attempt
  <2>2. st' = [st EXCEPT ![w] = m]
    BY <1>2, Zenon DEF GInv
  <2> HIDE DEF m
  <2>3. OnItsWay(m)
    BY <1>1, <2>1, Zenon DEF OnItsWay
  <2> QED BY <1>1, <2>1, <2>2, <2>3, OneWorker, ZenonT(60)
<1>3. CASE st' = [st EXCEPT ![w].pc = "connect"]
  <2> DEFINE m == [s EXCEPT !.pc = "connect"]
  <2>1. Attempt(m) /\ m.pc = "connect" /\ m.ldl = s.ldl /\ st' = [st EXCEPT ![w] = m]
    BY <1>1, <1>3, Zenon DEF Attempt
  <2> HIDE DEF m
  <2> QED BY <1>1, <2>1, Unchosen, Zenon
<1> QED BY <1>2, <1>3, Zenon DEF Proxy

LEMMA SendRequestKeeps ==
  ASSUME GInv, NEW w \in Workers, SendRequest(w)
  PROVE  GInv'
<1> DEFINE s == [st[w] EXCEPT !.pc = "idle", !.retry = 0, !.loop = FALSE]
           m == [s EXCEPT !.sock = Closed, !.req = NULL]
<1>1. Attempt(st[w]) /\ loads' = loads
  BY Zenon DEF GInv, SendRequest
<1>2. Attempt(s) /\ s.pc = "idle"
  BY <1>1, Zenon DEF Attempt
<1>3. Attempt(m) /\ m.pc = "idle"
  BY <1>2, Zenon DEF Attempt
<1>4. st' = [st EXCEPT ![w] = s] \/ st' = [st EXCEPT ![w] = m]
  BY Zenon DEF SendRequest
<1> HIDE DEF s, m
<1>5. OnItsWay(s) /\ OnItsWay(m)
  BY <1>2, <1>3, Zenon DEF OnItsWay
<1> QED BY <1>1, <1>2, <1>3, <1>4, <1>5, OneWorker, Zenon

LEMMA GInvStep == GInv /\ [Next]_vars => GInv'
<1> SUFFICES ASSUME GInv, [Next]_vars PROVE GInv'
  BY Zenon
<1>1. CASE UNCHANGED vars
  BY <1>1, Zenon DEF vars, GInv, Attempt, OnItsWay, LDL
<1> QED BY Zenon, <1>1, ReloadKeeps, NextRequestKeeps, AgainKeeps, ResolveKeeps, AddressKeeps,
           EndpointKeeps, ProxyKeeps, SendRequestKeeps DEF Next

(* Whatever the rules of the loads, the requests and the addresses are, a  *)
(* request that connectUpstream or a kept connection sends out directly    *)
(* leaves by the gateway that matchGatewayRule gives it under the lists it *)
(* was accepted with.                                                      *)
THEOREM RequestsLeaveByTheirGateway == Spec => []LeavesByItsGateway
<1>1. GInv => LeavesByItsGateway
  BY Zenon DEF GInv, OnItsWay, LeavesByItsGateway
<1> QED BY <1>1, GInvStarts, GInvStep, PTL DEF Spec

=============================================================================
