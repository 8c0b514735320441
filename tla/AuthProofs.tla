----------------------------- MODULE AuthProofs -----------------------------
(***************************************************************************)
(* Proofs about Auth, for any number of workers, clients, names, groups,   *)
(* reloads and edits of the ipgroups file.                                 *)
(*                                                                         *)
(* What the argument needs besides the two properties: which versions of   *)
(* the ipgroups file the generations of the lists began with (Times), what *)
(* the shared plugins store (Stored), and what every handler remembers     *)
(* (Sound): the group kept in oldfg is one its user had since the          *)
(* connection began, and while the plugins are asked the group is the      *)
(* default one.                                                            *)
(***************************************************************************)
EXTENDS Auth, TLAPS

Fields == {"pc", "client", "proxied", "req", "served", "since", "ldl", "at", "clientuser", "oldclientuser",
           "oldfg", "filtergroup", "real", "authed", "persist", "override", "readid", "by", "oldby"}

Asks == {"ask", "stored", "same", "group"}

DefaultOf(r) == IF r.proxied THEN conf.default_fg ELSE conf.default_trans_fg

Published(g) == g = 0 \/ \E c \in DOMAIN Txt : \E a \in Txt[c] : a.kind = "txt" /\ g = a.group

(* Where a group g of a user on a connection that began under the lists
   `since` may come from, when it was found the way `by` says. *)
Fits(since, default, g, user, by) ==
  /\ by \in {"none", "list", "ip", "plugdef", "nogroup", "dns", "first"}
  /\ by = "none" => user = "-" /\ (g = default \/ ~InRange(g))
  /\ by = "list" => \E i \in since .. gen : g = Listed[i][user]
  /\ by = "ip" => \E v \in (IF conf.unreadable THEN 1 ELSE verAt[since]) .. ver : g = IPGroups[v][user]
  /\ by = "plugdef" => g = conf.plugdef /\ \E n \in Names \ {NoName, "-"} : user = Norm[n]
  /\ by = "nogroup" => g = default /\ ~conf.requires
  /\ by = "dns" => Published(g)
  /\ by = "first" => g = 0 /\ user = NoName

Times ==
  /\ gen \in 1 .. MaxGen /\ ver \in Nat \ {0}
  /\ verAt \in [1 .. MaxGen -> Nat \ {0}]
  /\ \A i, j \in 1 .. gen : i <= j => verAt[i] <= verAt[j]
  /\ \A i \in 1 .. gen : verAt[i] <= ver

Stored ==
  /\ userst.user \in Names /\ Published(userst.group) /\ buffer \in Names
  /\ ip \in [list : Nat \ {0}, id : Int, holder : Workers \cup {"none"}]
  /\ ip.list <= ver
  /\ ip.id > 0 => ip.id <= gen /\ verAt[ip.id] <= ip.list

Begun(r) ==
  /\ r.since \in 1 .. gen /\ r.client \in Clients /\ r.clientuser \in Names
  /\ r.oldby # "none" /\ Fits(r.since, DefaultOf(r), r.oldfg, r.oldclientuser, r.oldby)
  /\ conf.plugins = <<>> => r.by = "none"

BeingAsked(r) ==
  /\ conf.plugins # <<>> /\ r.req \in RequestType
  /\ r.ldl \in r.since .. gen /\ r.filtergroup = DefaultOf(r)

Sound(r) ==
  /\ DOMAIN r = Fields
  /\ r.pc \in {"idle", "ready", "done", "locked"} \cup Asks
  /\ r.pc # "idle" => Begun(r)
  /\ r.pc = "ready" => ~r.persist
  /\ r.pc \in Asks \cup {"locked"} => BeingAsked(r)
  /\ r.pc = "locked" => r.readid \in r.since .. gen /\ r.clientuser \in IPv4
  /\ r.pc = "done" => Fits(r.since, DefaultOf(r), r.filtergroup, r.clientuser, r.by)

IInv ==
  /\ conf \in Confs /\ Times /\ Stored
  /\ DOMAIN w = Workers /\ \A t \in Workers : Sound(w[t])

-----------------------------------------------------------------------------
(* Records put together with ++ *)

LEMMA MergeDomain ==
  ASSUME NEW f, NEW g
  PROVE  DOMAIN (f ++ g) = DOMAIN f \cup DOMAIN g
BY Zenon DEF ++

LEMMA MergeAt ==
  ASSUME NEW f, NEW g, NEW x \in DOMAIN f \cup DOMAIN g
  PROVE  (f ++ g)[x] = IF x \in DOMAIN f THEN f[x] ELSE g[x]
BY Zenon DEF ++

LEMMA FreshFields ==
  /\ DOMAIN Fresh = Fields /\ Fresh.pc = "idle" /\ Fresh.clientuser = NoName /\ Fresh.oldclientuser = NoName
  /\ Fresh.oldfg = 0 /\ Fresh.by = "none" /\ Fresh.oldby = "first" /\ Fresh.persist = FALSE
BY Zenon DEF Fresh, Fields

-----------------------------------------------------------------------------
(* What a handler remembers stays sound. *)

LEMMA OneHandler ==
  ASSUME IInv, NEW t \in Workers, NEW r, w' = [w EXCEPT ![t] = r], Sound(r), UNCHANGED <<conf, gen, ver, verAt>>
  PROVE  (DOMAIN w = Workers)' /\ \A u \in Workers : Sound(w[u])'
<1>1. (DOMAIN w = Workers)' /\ \A u \in Workers : w'[u] = IF u = t THEN r ELSE w[u]
  BY Zenon DEF IInv
<1>2. ASSUME NEW u \in Workers, NEW q, Sound(q), w'[u] = q
      PROVE  Sound(w[u])'
  BY <1>2 DEF Sound, Begun, BeingAsked, Fits, DefaultOf
<1>3. ASSUME NEW u \in Workers
      PROVE  Sound(w[u])'
  <2>1. PICK q : q = w[u]
    BY Zenon
  <2>2. Sound(q)
    BY <2>1, Zenon DEF IInv
  <2> QED
    BY <1>1, <1>2, <2>1, <2>2, Zenon
<1> QED
  BY <1>1, <1>3, Zenon

(* A reload of the lists or an edit of the file only adds to what a group may
   come from. *)
LEMMA TimePasses ==
  ASSUME IInv, UNCHANGED <<conf, w>>, gen' \in Nat, gen <= gen', ver' \in Nat, ver <= ver',
         \A i \in 1 .. gen : verAt'[i] = verAt[i], NEW u \in Workers
  PROVE  Sound(w[u])'
<1> PICK r : r = w[u]
  BY Zenon
<1>1. Sound(r) /\ w'[u] = r
  BY Zenon DEF IInv
<1>2. gen \in Nat /\ ver \in Nat /\ \A i \in 1 .. gen : verAt[i] \in Nat
  BY AuthAssumption DEF IInv, Times
<1>3. ASSUME NEW s \in 1 .. gen, NEW d, NEW g, NEW user, NEW by, Fits(s, d, g, user, by)
      PROVE  Fits(s, d, g, user, by)'
  <2>1. s .. gen \subseteq s .. gen'
    BY <1>2
  <2>2. ((IF conf.unreadable THEN 1 ELSE verAt[s]) .. ver) \subseteq ((IF conf.unreadable THEN 1 ELSE verAt[s]) .. ver)'
    BY <1>2
  <2> QED
    BY <1>3, <2>1, <2>2, Zenon DEF Fits, Published
<1>4. r.pc # "idle" => Begun(r)'
  BY <1>1, <1>2, <1>3 DEF Sound, Begun, DefaultOf
<1>5. r.pc \in Asks \cup {"locked"} => BeingAsked(r)'
  BY <1>1, <1>2, <1>4 DEF Sound, Begun, BeingAsked, DefaultOf
<1>6. r.pc = "done" => Fits(r.since, DefaultOf(r), r.filtergroup, r.clientuser, r.by)'
  BY <1>1, <1>2, <1>3, Zenon DEF Sound, Begun, DefaultOf
<1>7. r.pc = "locked" => r.readid \in (r.since .. gen)'
  BY <1>1, <1>2 DEF Sound, Begun
<1>8. Sound(r)'
  BY <1>1, <1>4, <1>5, <1>6, <1>7, Zenon DEF Sound
<1> QED
  BY <1>1, <1>8 DEF Sound, Begun, BeingAsked, Fits, DefaultOf

(* The end of a connection *)
LEMMA EndSound ==
  ASSUME NEW f, DOMAIN f = {"oldclientuser", "oldfg", "oldby"}
  PROVE  Sound(f ++ Fresh)
<1>1. DOMAIN (f ++ Fresh) = Fields
  <2>1. DOMAIN f \subseteq Fields
    BY Zenon DEF Fields
  <2>2. DOMAIN (f ++ Fresh) = DOMAIN f \cup Fields
    BY MergeDomain, FreshFields, Zenon
  <2> QED
    BY <2>1, <2>2, Zenon
<1>2. (f ++ Fresh).pc = "idle"
  BY MergeAt, FreshFields DEF Fields
<1> QED
  BY <1>1, <1>2, Zenon DEF Sound, Asks

(* A step of identify *)
LEMMA AskSound ==
  ASSUME NEW r, Sound(r), r.pc \in Asks \cup {"locked"},
         NEW f, DOMAIN f \subseteq {"pc", "clientuser", "real", "at", "override"}, "pc" \in DOMAIN f, f.pc \in Asks,
         "clientuser" \in DOMAIN f => f.clientuser \in Names
  PROVE  Sound(f ++ r)
<1> DEFINE q == f ++ r
<1>1. DOMAIN q = Fields
  BY MergeDomain, ZenonT(60) DEF Sound, Fields
<1>2. q.pc \in Asks
  BY MergeAt, Zenon DEF Sound, Fields
<1>3. /\ q.since = r.since /\ q.client = r.client /\ q.proxied = r.proxied /\ q.oldby = r.oldby
      /\ q.oldfg = r.oldfg /\ q.oldclientuser = r.oldclientuser /\ q.by = r.by
      /\ q.req = r.req /\ q.ldl = r.ldl /\ q.filtergroup = r.filtergroup
  BY MergeAt DEF Sound, Fields
<1>4. q.clientuser \in Names
  BY MergeAt DEF Sound, Fields, Begun, Asks
<1> HIDE DEF q
<1>5. Begun(r) /\ BeingAsked(r)
  BY Zenon DEF Sound, Asks
<1>6. Begun(q) /\ BeingAsked(q)
  BY <1>3, <1>4, <1>5, Zenon DEF Begun, BeingAsked, DefaultOf
<1>7. Sound(q)
  BY <1>1, <1>2, <1>6, Zenon DEF Sound, Asks
<1> QED
  BY <1>7, Zenon DEF q

(* The end of doAuth: nobody, or a group out of range, or a group found *)
LEMMA VerdictSound ==
  ASSUME NEW t, Sound(w[t]), w[t].pc \in Asks \cup {"locked"},
         NEW f, DOMAIN f \subseteq {"authed", "filtergroup", "clientuser", "by"},
         NEW c, c = f ++ w[t], c.clientuser \in Names,
         c.authed => c.by # "none" /\ Fits(c.since, DefaultOf(c), c.filtergroup, c.clientuser, c.by),
         ~c.authed => c.filtergroup = DefaultOf(c)
  PROVE  Sound(Verdict(t, f))
<1> DEFINE r == w[t]
           nobody == [authed |-> ~NeedsProxyQuery, clientuser |-> "-", by |-> "none", pc |-> "done"] ++ Asleep
           somebody == [persist |-> ConnectionBased(Plugin(t)) /\ ~c.override, oldclientuser |-> c.clientuser,
                        oldfg |-> c.filtergroup, oldby |-> c.by, pc |-> "done"] ++ Asleep
<1>1. DOMAIN c = Fields
  <2>1. DOMAIN f \subseteq Fields
    BY Zenon DEF Fields
  <2>2. DOMAIN c = DOMAIN f \cup Fields
    BY MergeDomain, Zenon DEF Sound
  <2> QED
    BY <2>1, <2>2, Zenon
<1>2. /\ c.since = r.since /\ c.client = r.client /\ c.proxied = r.proxied
      /\ c.oldby = r.oldby /\ c.oldfg = r.oldfg /\ c.oldclientuser = r.oldclientuser
  BY MergeAt DEF Sound, Fields
<1>3. Begun(r) /\ conf.plugins # <<>>
  BY Zenon DEF Sound, BeingAsked, Asks
<1>4. Begun(c)
  BY <1>2, <1>3, Zenon DEF Begun, DefaultOf
<1>5. Verdict(t, f) = IF ~c.authed \/ ~InRange(c.filtergroup) THEN nobody ++ c ELSE somebody ++ c
  BY Zenon DEF Verdict
<1>6. ASSUME NEW h, DOMAIN h \subseteq Fields, NEW x \in Fields
      PROVE  DOMAIN (h ++ c) = Fields /\ (h ++ c)[x] = IF x \in DOMAIN h THEN h[x] ELSE c[x]
  <2>1. DOMAIN (h ++ c) = DOMAIN h \cup Fields
    BY <1>1, MergeDomain, Zenon
  <2>2. (h ++ c)[x] = IF x \in DOMAIN h THEN h[x] ELSE c[x]
    BY <1>1, MergeAt
  <2> QED
    BY <1>6, <2>1, <2>2, Zenon
<1>7. "-" \in Names
  BY AuthAssumption, Zenon
<1>a. DOMAIN Asleep = {"req", "readid", "ldl", "at"}
  BY Zenon DEF Asleep
<1>8. CASE ~c.authed \/ ~InRange(c.filtergroup)
  <2> DEFINE l == [authed |-> ~NeedsProxyQuery, clientuser |-> "-", by |-> "none", pc |-> "done"]
  <2>1. DOMAIN nobody = DOMAIN l \cup DOMAIN Asleep
    BY MergeDomain, Zenon
  <2>2. DOMAIN nobody = {"authed", "clientuser", "by", "pc", "req", "readid", "ldl", "at"}
    BY <2>1, <1>a, Zenon
  <2>3. nobody["clientuser"] = "-" /\ nobody["by"] = "none" /\ nobody["pc"] = "done"
    BY MergeAt
  <2>4. PICK h : h = nobody
    BY Zenon
  <2> HIDE DEF nobody
  <2>5. PICK v : v = h ++ c
    BY Zenon
  <2>6. DOMAIN h \subseteq Fields
    BY <2>2, <2>4, Zenon DEF Fields
  <2>7. DOMAIN v = Fields /\ \A x \in Fields : v[x] = IF x \in DOMAIN h THEN h[x] ELSE c[x]
    BY <1>6, <2>5, <2>6 DEF Fields
  <2>8. /\ v.pc = "done" /\ v.clientuser = "-" /\ v.by = "none" /\ v.filtergroup = c.filtergroup
        /\ v.since = c.since /\ v.client = c.client /\ v.proxied = c.proxied
        /\ v.oldby = c.oldby /\ v.oldfg = c.oldfg /\ v.oldclientuser = c.oldclientuser
    BY <2>7, <2>4, <2>2, <2>3, Zenon DEF Fields
  <2>9. Begun(v) /\ Fits(v.since, DefaultOf(v), v.filtergroup, v.clientuser, v.by)
    BY <1>8, <1>4, <1>7, <2>8 DEF Begun, Fits, DefaultOf
  <2>10. Sound(v)
    BY <2>7, <2>8, <2>9, Zenon DEF Sound, Asks
  <2> QED
    BY <1>5, <1>8, <2>10, <2>4, <2>5, Zenon
<1>9. CASE ~(~c.authed \/ ~InRange(c.filtergroup))
  <2> DEFINE l == [persist |-> ConnectionBased(Plugin(t)) /\ ~c.override, oldclientuser |-> c.clientuser,
                   oldfg |-> c.filtergroup, oldby |-> c.by, pc |-> "done"]
  <2>1. DOMAIN somebody = DOMAIN l \cup DOMAIN Asleep
    BY MergeDomain, Zenon
  <2>2. DOMAIN somebody = {"persist", "oldclientuser", "oldfg", "oldby", "pc", "req", "readid", "ldl", "at"}
    BY <2>1, <1>a, Zenon
  <2>3. /\ somebody["oldclientuser"] = c.clientuser /\ somebody["oldfg"] = c.filtergroup
        /\ somebody["oldby"] = c.by /\ somebody["pc"] = "done"
    BY MergeAt
  <2>4. PICK h : h = somebody
    BY Zenon
  <2> HIDE DEF somebody
  <2>5. PICK v : v = h ++ c
    BY Zenon
  <2>6. DOMAIN h \subseteq Fields
    BY <2>2, <2>4, Zenon DEF Fields
  <2>7. DOMAIN v = Fields /\ \A x \in Fields : v[x] = IF x \in DOMAIN h THEN h[x] ELSE c[x]
    BY <1>6, <2>5, <2>6 DEF Fields
  <2>8. /\ v.pc = "done" /\ v.clientuser = c.clientuser /\ v.by = c.by /\ v.filtergroup = c.filtergroup
        /\ v.since = c.since /\ v.client = c.client /\ v.proxied = c.proxied
        /\ v.oldby = c.by /\ v.oldfg = c.filtergroup /\ v.oldclientuser = c.clientuser
    BY <2>7, <2>4, <2>2, <2>3, Zenon DEF Fields
  <2>9. Begun(v) /\ Fits(v.since, DefaultOf(v), v.filtergroup, v.clientuser, v.by)
    BY <1>9, <1>3, <1>4, <2>8, Zenon DEF Begun, DefaultOf
  <2>10. Sound(v)
    BY <2>7, <2>8, <2>9, Zenon DEF Sound, Asks
  <2> QED
    BY <1>5, <1>9, <2>10, <2>4, <2>5, Zenon
<1> QED
  BY <1>8, <1>9, Zenon

-----------------------------------------------------------------------------
(* The steps of a worker that several actions share: each leaves its record
   sound. *)
Steps(t) == \E r : w' = [w EXCEPT ![t] = r] /\ Sound(r)

Serving(t) == t \in Workers /\ Sound(w[t]) /\ w[t].pc \in Asks \cup {"locked"}

LEMMA GotoSteps ==
  ASSUME NEW t, Serving(t), DOMAIN w = Workers,
         NEW f, DOMAIN f \subseteq {"pc", "clientuser", "real", "at", "override"}, "pc" \in DOMAIN f, f.pc \in Asks,
         "clientuser" \in DOMAIN f => f.clientuser \in Names, Goto(t, f)
  PROVE  Steps(t)
<1>1. Sound(f ++ w[t])
  BY AskSound, Zenon DEF Serving
<1> QED
  BY <1>1, Zenon DEF Goto, Steps, Serving

LEMMA NextPluginSteps ==
  ASSUME NEW t, Serving(t), DOMAIN w = Workers,
         NEW f, DOMAIN f \subseteq {"clientuser"}, "clientuser" \in DOMAIN f => f.clientuser \in Names,
         NextPlugin(t, f)
  PROVE  Steps(t)
<1>1. CASE w[t].at < Len(conf.plugins)
  <2> DEFINE l == [at |-> w[t].at + 1, pc |-> "ask"]
  <2>1. PICK h : h = l ++ f
    BY Zenon
  <2>2. DOMAIN h = DOMAIN l \cup DOMAIN f
    BY <2>1, MergeDomain, Zenon
  <2>3. DOMAIN l = {"at", "pc"}
    BY Zenon
  <2>4. h["pc"] = "ask"
    BY <2>1, MergeAt, ZenonT(60)
  <2>5. "clientuser" \in DOMAIN h => h["clientuser"] = f["clientuser"] /\ "clientuser" \in DOMAIN f
    BY <2>1, <2>2, <2>3, MergeAt
  <2>6. Goto(t, h)
    BY <1>1, <2>1, Zenon DEF NextPlugin
  <2> HIDE DEF l
  <2> QED
    BY <2>2, <2>3, <2>4, <2>5, <2>6, GotoSteps, Zenon DEF Asks
<1>2. CASE ~(w[t].at < Len(conf.plugins))
  <2> DEFINE l == [authed |-> FALSE]
  <2>1. PICK h : h = l ++ f
    BY Zenon
  <2>2. DOMAIN h = DOMAIN l \cup DOMAIN f
    BY <2>1, MergeDomain, Zenon
  <2>3. DOMAIN l = {"authed"}
    BY Zenon
  <2>4. h["authed"] = FALSE
    BY <2>1, MergeAt
  <2>5. "clientuser" \in DOMAIN h => h["clientuser"] = f["clientuser"] /\ "clientuser" \in DOMAIN f
    BY <2>1, <2>2, <2>3, MergeAt
  <2> HIDE DEF l
  <2>6. PICK c : c = h ++ w[t]
    BY Zenon
  <2>7. DOMAIN w[t] = Fields /\ w[t].clientuser \in Names /\ w[t].filtergroup = DefaultOf(w[t])
    BY Zenon DEF Serving, Sound, Begun, BeingAsked, Asks
  <2>8. DOMAIN c = DOMAIN h \cup Fields
    BY <2>6, <2>7, MergeDomain, Zenon
  <2>9. c["authed"] = FALSE /\ c["filtergroup"] = w[t].filtergroup /\ c["proxied"] = w[t].proxied
    BY <2>2, <2>3, <2>4, <2>6, <2>7, MergeAt DEF Fields
  <2>10. c["clientuser"] \in Names
    BY <2>2, <2>3, <2>5, <2>6, <2>7, MergeAt DEF Fields
  <2>11. ~c.authed /\ c.filtergroup = DefaultOf(c)
    BY <2>7, <2>9, Zenon DEF DefaultOf
  <2>12. Sound(Verdict(t, h))
    BY <2>2, <2>3, <2>6, <2>10, <2>11, VerdictSound, Zenon DEF Serving
  <2>13. w' = [w EXCEPT ![t] = Verdict(t, h)]
    BY <1>2, <2>1, Zenon DEF NextPlugin, Decided, l
  <2> QED
    BY <2>12, <2>13, Zenon DEF Steps
<1> QED
  BY <1>1, <1>2, Zenon

LEMMA EmptyRecord == DOMAIN <<>> = {}
OBVIOUS

LEMMA PassedOver ==
  ASSUME NEW t, Serving(t), DOMAIN w = Workers, NextPlugin(t, <<>>) \/ NoMatch(t) \/ NextPlugin(t, [clientuser |-> NoName])
  PROVE  Steps(t)
<1>1. CASE NextPlugin(t, <<>>)
  BY <1>1, EmptyRecord, NextPluginSteps, Zenon
<1>2. CASE NoMatch(t) \/ NextPlugin(t, [clientuser |-> NoName])
  <2>1. PICK f : f = [clientuser |-> NoName]
    BY Zenon
  <2>2. DOMAIN f = {"clientuser"} /\ f.clientuser \in Names
    BY <2>1, AuthAssumption, Zenon
  <2>3. NextPlugin(t, f)
    BY <1>2, <2>1, Zenon DEF NoMatch
  <2> QED
    BY <2>2, <2>3, NextPluginSteps, Zenon
<1> QED
  BY <1>1, <1>2, Zenon

LEMMA FoundSteps ==
  ASSUME NEW t, Serving(t), DOMAIN w = Workers, NEW name \in Names, NEW real, Found(t, name, real)
  PROVE  Steps(t)
<1>1. PICK f : f = [clientuser |-> name, real |-> real, pc |-> "same"]
  BY Zenon
<1>2. DOMAIN f = {"clientuser", "real", "pc"} /\ f.clientuser \in Names /\ f.pc = "same"
  BY <1>1, Zenon
<1>3. Goto(t, f)
  BY <1>1, Zenon DEF Found
<1> QED
  BY <1>2, <1>3, GotoSteps, Zenon DEF Asks

LEMMA ForwardedSteps ==
  ASSUME NEW t, Serving(t), DOMAIN w = Workers, Forwarded(t)
  PROVE  Steps(t)
<1>1. w[t].req.fwd \in Names
  BY Zenon DEF Serving, Sound, BeingAsked, RequestType
<1> QED
  BY <1>1, FoundSteps, PassedOver, Zenon DEF Forwarded

LEMMA EndedSteps ==
  ASSUME NEW t \in Workers, DOMAIN w = Workers, Ended(t) \/ Failed(t)
  PROVE  Steps(t)
<1>1. PICK f : f = [oldclientuser |-> w[t].oldclientuser, oldfg |-> w[t].oldfg, oldby |-> w[t].oldby]
  BY Zenon
<1>2. DOMAIN f = {"oldclientuser", "oldfg", "oldby"}
  BY <1>1, Zenon
<1>3. w' = [w EXCEPT ![t] = f ++ Fresh]
  BY <1>1, Zenon DEF Ended, Failed
<1> QED
  BY <1>2, <1>3, EndSound, Zenon DEF Steps

(* A group is found: the one of the user, or the default one. *)
LEMMA DecidedSteps ==
  ASSUME NEW t, Serving(t), DOMAIN w = Workers, NEW f, DOMAIN f \subseteq {"authed", "filtergroup", "clientuser", "by"},
         {"authed", "by"} \subseteq DOMAIN f, f.authed = TRUE, f.by # "none",
         NEW user \in Names, user = IF "clientuser" \in DOMAIN f THEN f.clientuser ELSE w[t].clientuser,
         NEW g, g = IF "filtergroup" \in DOMAIN f THEN f.filtergroup ELSE w[t].filtergroup,
         Fits(w[t].since, DefaultOf(w[t]), g, user, f.by), Decided(t, f)
  PROVE  Steps(t)
<1>1. PICK c : c = f ++ w[t]
  BY Zenon
<1>2. DOMAIN w[t] = Fields
  BY Zenon DEF Serving, Sound
<1>3. c.authed = TRUE /\ c.by = f.by /\ c.clientuser = user /\ c.filtergroup = g
  BY <1>1, <1>2, MergeAt DEF Fields
<1>4. c.since = w[t].since /\ c.proxied = w[t].proxied
  BY <1>1, <1>2, MergeAt DEF Fields
<1>5. DefaultOf(c) = DefaultOf(w[t])
  BY <1>4, Zenon DEF DefaultOf
<1>6. Sound(Verdict(t, f))
  BY <1>1, <1>3, <1>4, <1>5, VerdictSound DEF Serving
<1> QED
  BY <1>6, Zenon DEF Decided, Steps

LEMMA GroupFoundSteps ==
  ASSUME NEW t, Serving(t), DOMAIN w = Workers, NEW g, NEW user \in Names, NEW by, by # "none",
         Fits(w[t].since, DefaultOf(w[t]), g, user, by), GroupFound(t, g, user, by)
  PROVE  Steps(t)
<1>1. PICK f : f = [authed |-> TRUE, filtergroup |-> g, clientuser |-> user, by |-> by]
  BY Zenon
<1>2. DOMAIN f = {"authed", "filtergroup", "clientuser", "by"}
  BY <1>1, Zenon
<1>3. f.authed = TRUE /\ f.filtergroup = g /\ f.clientuser = user /\ f.by = by
  BY <1>1, Zenon
<1>4. Decided(t, f)
  BY <1>1, Zenon DEF GroupFound
<1> QED
  BY <1>2, <1>3, <1>4, DecidedSteps, Zenon

LEMMA NoGroupSteps ==
  ASSUME NEW t, Serving(t), DOMAIN w = Workers, NEW user \in Names, NoGroup(t, user)
  PROVE  Steps(t)
<1>1. CASE conf.requires \/ ~w[t].real
  BY <1>1, PassedOver, Zenon DEF NoGroup
<1>2. CASE ~(conf.requires \/ ~w[t].real)
  <2>1. PICK f : f = [authed |-> TRUE, clientuser |-> user, by |-> "nogroup"]
    BY Zenon
  <2>2. DOMAIN f = {"authed", "clientuser", "by"}
    BY <2>1, Zenon
  <2>3. f.authed = TRUE /\ f.clientuser = user /\ f.by = "nogroup"
    BY <2>1, Zenon
  <2>4. Decided(t, f)
    BY <1>2, <2>1, Zenon DEF NoGroup
  <2>5. w[t].filtergroup = DefaultOf(w[t])
    BY Zenon DEF Serving, Sound, BeingAsked
  <2>6. Fits(w[t].since, DefaultOf(w[t]), w[t].filtergroup, user, "nogroup")
    BY <1>2, <2>5, Zenon DEF Fits
  <2> QED
    BY <2>2, <2>3, <2>4, <2>6, DecidedSteps, Zenon
<1> QED
  BY <1>1, <1>2, Zenon

-----------------------------------------------------------------------------
(* Every action of a worker *)

LEMMA StoredKept ==
  ASSUME Stored, UNCHANGED <<shared, userst, buffer, ip>>
  PROVE  Stored'
BY Zenon DEF Stored, shared

LEMMA ConnectionSteps ==
  ASSUME IInv, NEW t \in Workers, Accept(t) \/ Close(t) \/ NextRequest(t)
  PROVE  Steps(t) /\ UNCHANGED <<conf, gen, ver, verAt, userst, buffer, ip>>
<1>0. UNCHANGED <<conf, gen, ver, verAt, userst, buffer, ip>>
  BY Zenon DEF Accept, Close, NextRequest, shared
<1> USE DEF IInv
<1>1. CASE Accept(t)
  <2>1. PICK c \in Clients, proxied \in BOOLEAN :
          w' = [w EXCEPT ![t] = [pc |-> "ready", client |-> c, proxied |-> proxied, since |-> gen] ++ Fresh]
    BY <1>1, Zenon DEF Accept, NewHandler
  <2>2. PICK f : f = [pc |-> "ready", client |-> c, proxied |-> proxied, since |-> gen]
    BY Zenon
  <2>3. DOMAIN f = {"pc", "client", "proxied", "since"}
    BY <2>2, Zenon
  <2>4. PICK r : r = f ++ Fresh
    BY Zenon
  <2>5. DOMAIN r = DOMAIN f \cup Fields
    BY <2>4, MergeDomain, FreshFields, Zenon
  <2>6. DOMAIN f \subseteq Fields
    BY <2>3, Zenon DEF Fields
  <2>7. r.pc = "ready" /\ r.client = c /\ r.since = gen
    BY <2>2, <2>3, <2>4, MergeAt, ZenonT(60)
  <2>8. /\ r.clientuser = NoName /\ r.oldclientuser = NoName /\ r.oldfg = 0 /\ r.by = "none"
        /\ r.oldby = "first" /\ r.persist = FALSE
    BY <2>3, <2>4, FreshFields, MergeAt DEF Fields
  <2>9. Begun(r)
    BY <2>7, <2>8, AuthAssumption DEF Begun, Fits, Times
  <2>10. Sound(r)
    BY <2>5, <2>6, <2>7, <2>8, <2>9, Zenon DEF Sound, Asks
  <2> QED
    BY <1>0, <2>1, <2>2, <2>4, <2>10, Zenon DEF Steps
<1>2. CASE Close(t)
  BY <1>0, <1>2, EndedSteps, Zenon DEF Close
<1>3. CASE NextRequest(t)
  <2>1. PICK r \in Requests[conf.plugins] :
          LET request == [req |-> IF w[t].persist THEN NoRequest ELSE r, served |-> w[t].served + 1,
                          override |-> FALSE]
          IN  Goto(t, CASE w[t].persist -> [authed |-> TRUE, pc |-> "done"] ++ request
                        [] ~w[t].persist /\ conf.plugins = <<>> ->
                             [authed |-> TRUE, clientuser |-> "-", persist |-> TRUE,
                              filtergroup |-> Default(t), pc |-> "done"] ++ request
                        [] OTHER -> [authed |-> FALSE, filtergroup |-> Default(t), ldl |-> gen,
                                     at |-> 1, pc |-> "ask"] ++ request)
    BY <1>3, Zenon DEF NextRequest
  <2>2. PICK q : q = [req |-> IF w[t].persist THEN NoRequest ELSE r, served |-> w[t].served + 1,
                      override |-> FALSE]
    BY Zenon
  <2>3. DOMAIN q = {"req", "served", "override"} /\ (~w[t].persist => q.req = r)
    BY <2>2, Zenon
  <2>4. Sound(w[t]) /\ DOMAIN w[t] = Fields /\ w[t].pc \in {"ready", "done"} /\ Begun(w[t])
    BY <1>3, Zenon DEF NextRequest, Sound
  <2>5. Default(t) = DefaultOf(w[t])
    BY Zenon DEF Default, DefaultOf
  <2>6. r \in RequestType
    BY AuthAssumption, Zenon
  <2>7. ASSUME NEW l, DOMAIN l \subseteq {"authed", "clientuser", "persist", "filtergroup", "ldl", "at", "pc"}
        PROVE  LET v == (l ++ q) ++ w[t]
               IN  /\ DOMAIN v = Fields
                   /\ \A x \in Fields : v[x] = IF x \in DOMAIN l THEN l[x]
                                               ELSE IF x \in DOMAIN q THEN q[x] ELSE w[t][x]
    <3>1. PICK h : h = l ++ q
      BY Zenon
    <3>2. DOMAIN h = DOMAIN l \cup DOMAIN q /\ \A x \in DOMAIN l \cup DOMAIN q : h[x] = IF x \in DOMAIN l THEN l[x] ELSE q[x]
      <4>1. DOMAIN h = DOMAIN l \cup DOMAIN q
        BY <3>1, MergeDomain, Zenon
      <4>2. \A x \in DOMAIN l \cup DOMAIN q : h[x] = IF x \in DOMAIN l THEN l[x] ELSE q[x]
        BY <3>1, MergeAt
      <4> QED
        BY <4>1, <4>2, Zenon
    <3>3. DOMAIN h \subseteq Fields
      BY <2>3, <2>7, <3>2, Zenon DEF Fields
    <3>4. DOMAIN (h ++ w[t]) = DOMAIN h \cup Fields
      BY <2>4, MergeDomain, Zenon
    <3>5. \A x \in Fields : (h ++ w[t])[x] = IF x \in DOMAIN h THEN h[x] ELSE w[t][x]
      BY <2>4, MergeAt
    <3> QED
      BY <3>1, <3>2, <3>3, <3>4, <3>5, Zenon
  <2>8. CASE w[t].persist
    <3>1. PICK l : l = [authed |-> TRUE, pc |-> "done"]
      BY Zenon
    <3>2. DOMAIN l = {"authed", "pc"} /\ l.pc = "done"
      BY <3>1, Zenon
    <3>3. PICK v : v = (l ++ q) ++ w[t]
      BY Zenon
    <3>4. w' = [w EXCEPT ![t] = v]
      BY <2>1, <2>2, <2>8, <3>1, <3>3, Zenon DEF Goto
    <3>5. DOMAIN v = Fields /\ \A x \in Fields : v[x] = IF x \in DOMAIN l THEN l[x]
                                               ELSE IF x \in DOMAIN q THEN q[x] ELSE w[t][x]
      BY <2>7, <3>2, <3>3, Zenon
    <3>6. /\ v.pc = "done" /\ v.clientuser = w[t].clientuser /\ v.by = w[t].by /\ v.filtergroup = w[t].filtergroup
          /\ v.since = w[t].since /\ v.client = w[t].client /\ v.proxied = w[t].proxied
          /\ v.oldby = w[t].oldby /\ v.oldfg = w[t].oldfg /\ v.oldclientuser = w[t].oldclientuser
      BY <2>3, <3>2, <3>5, Zenon DEF Fields
    <3>7. w[t].pc = "done" /\ Fits(w[t].since, DefaultOf(w[t]), w[t].filtergroup, w[t].clientuser, w[t].by)
      BY <2>4, <2>8, Zenon DEF Sound
    <3>8. Begun(v) /\ Fits(v.since, DefaultOf(v), v.filtergroup, v.clientuser, v.by)
      BY <2>4, <3>6, <3>7, Zenon DEF Begun, DefaultOf
    <3>9. Sound(v)
      BY <3>5, <3>6, <3>8, Zenon DEF Sound, Asks
    <3> QED
      BY <1>0, <3>4, <3>9, Zenon DEF Steps
  <2>9. CASE ~w[t].persist /\ conf.plugins = <<>>
    <3>1. PICK l : l = [authed |-> TRUE, clientuser |-> "-", persist |-> TRUE, filtergroup |-> Default(t), pc |-> "done"]
      BY Zenon
    <3>2. /\ DOMAIN l = {"authed", "clientuser", "persist", "filtergroup", "pc"}
          /\ l.pc = "done" /\ l.clientuser = "-" /\ l.filtergroup = Default(t)
      BY <3>1, Zenon
    <3>3. PICK v : v = (l ++ q) ++ w[t]
      BY Zenon
    <3>4. w' = [w EXCEPT ![t] = v]
      BY <2>1, <2>2, <2>9, <3>1, <3>3, Zenon DEF Goto
    <3>5. DOMAIN v = Fields /\ \A x \in Fields : v[x] = IF x \in DOMAIN l THEN l[x]
                                               ELSE IF x \in DOMAIN q THEN q[x] ELSE w[t][x]
      BY <2>7, <3>2, <3>3, Zenon
    <3>6. /\ v.pc = "done" /\ v.clientuser = "-" /\ v.by = w[t].by /\ v.filtergroup = Default(t)
          /\ v.since = w[t].since /\ v.client = w[t].client /\ v.proxied = w[t].proxied
          /\ v.oldby = w[t].oldby /\ v.oldfg = w[t].oldfg /\ v.oldclientuser = w[t].oldclientuser
      BY <2>3, <3>2, <3>5, Zenon DEF Fields
    <3>7. "-" \in Names /\ w[t].by = "none"
      BY <2>4, <2>9, AuthAssumption, Zenon DEF Begun
    <3>8. Begun(v) /\ Fits(v.since, DefaultOf(v), v.filtergroup, v.clientuser, v.by)
      BY <2>4, <2>5, <3>6, <3>7, ZenonT(60) DEF Begun, Fits, DefaultOf
    <3>9. Sound(v)
      BY <3>5, <3>6, <3>8, Zenon DEF Sound, Asks
    <3> QED
      BY <1>0, <3>4, <3>9, Zenon DEF Steps
  <2>10. CASE ~w[t].persist /\ conf.plugins # <<>>
    <3>1. PICK l : l = [authed |-> FALSE, filtergroup |-> Default(t), ldl |-> gen, at |-> 1, pc |-> "ask"]
      BY Zenon
    <3>2. /\ DOMAIN l = {"authed", "filtergroup", "ldl", "at", "pc"}
          /\ l.pc = "ask" /\ l.ldl = gen /\ l.filtergroup = Default(t)
      BY <3>1, Zenon
    <3>3. PICK v : v = (l ++ q) ++ w[t]
      BY Zenon
    <3>4. w' = [w EXCEPT ![t] = v]
      BY <2>1, <2>2, <2>10, <3>1, <3>3, Zenon DEF Goto
    <3>5. DOMAIN v = Fields /\ \A x \in Fields : v[x] = IF x \in DOMAIN l THEN l[x]
                                               ELSE IF x \in DOMAIN q THEN q[x] ELSE w[t][x]
      BY <2>7, <3>2, <3>3, Zenon
    <3>6. /\ v.pc = "ask" /\ v.clientuser = w[t].clientuser /\ v.by = w[t].by /\ v.filtergroup = Default(t)
          /\ v.since = w[t].since /\ v.client = w[t].client /\ v.proxied = w[t].proxied /\ v.ldl = gen /\ v.req = r
          /\ v.oldby = w[t].oldby /\ v.oldfg = w[t].oldfg /\ v.oldclientuser = w[t].oldclientuser
      BY <2>3, <2>10, <3>2, <3>5, Zenon DEF Fields
    <3>7. gen \in v.since .. gen
      BY <2>4, <3>6, AuthAssumption DEF Begun, Times
    <3>8. Begun(v) /\ BeingAsked(v)
      BY <2>4, <2>5, <2>6, <2>10, <3>6, <3>7, Zenon DEF Begun, BeingAsked, DefaultOf
    <3>9. Sound(v)
      BY <3>5, <3>6, <3>8, Zenon DEF Sound, Asks
    <3> QED
      BY <1>0, <3>4, <3>9, Zenon DEF Steps
  <2> QED
    BY <2>8, <2>9, <2>10, Zenon
<1> QED
  BY <1>1, <1>2, <1>3, Zenon

LEMMA IdentifySteps ==
  ASSUME IInv, NEW t \in Workers,
         \/ PassOver(t) \/ ProxyBasic(t) \/ PFBasic(t) \/ Digest(t) \/ Header(t) \/ Port(t) \/ Ident(t)
         \/ IPAddress(t) \/ DnsAsk(t) \/ Ntlm(t) \/ TakeName(t)
  PROVE  Steps(t) /\ Stored' /\ UNCHANGED <<conf, gen, ver, verAt>>
<1>0. UNCHANGED <<conf, gen, ver, verAt, ip>>
  BY Zenon DEF PassOver, ProxyBasic, PFBasic, Digest, Header, Port, Ident, IPAddress, DnsAsk, Ntlm, TakeName, Asking, shared
<1>1. Serving(t) /\ DOMAIN w = Workers
  BY Zenon DEF IInv, Serving, Asks, PassOver, ProxyBasic, PFBasic, Digest, Header, Port, Ident, IPAddress, DnsAsk, Ntlm,
         TakeName, Asking
<1>2. w[t].req \in RequestType /\ w[t].client \in Clients /\ w[t].clientuser \in Names
  BY <1>1, Zenon DEF Serving, Sound, BeingAsked, Begun, Asks
<1>3. w[t].req.name \in Names /\ w[t].req.said \in Names
  BY <1>2, Zenon DEF RequestType
<1>4. {NoName, Portal, "-", "port"} \cup Clients \cup IPv4 \subseteq Names
  BY AuthAssumption, Zenon
<1>5. UNCHANGED <<userst, buffer>> => Stored'
  BY <1>0, StoredKept, Zenon DEF IInv, Stored
<1>6. CASE PassOver(t)
  BY <1>0, <1>1, <1>5, <1>6, PassedOver, Zenon DEF PassOver
<1>7. CASE ProxyBasic(t)
  BY <1>0, <1>1, <1>3, <1>5, <1>7, FoundSteps, ForwardedSteps, Zenon DEF ProxyBasic
<1>8. CASE PFBasic(t)
  BY <1>0, <1>1, <1>3, <1>5, <1>8, FoundSteps, ForwardedSteps, EndedSteps, Zenon DEF PFBasic
<1>9. CASE Digest(t)
  BY <1>0, <1>1, <1>3, <1>5, <1>9, FoundSteps, PassedOver, Zenon DEF Digest
<1>10. CASE Header(t)
  BY <1>0, <1>1, <1>3, <1>5, <1>10, FoundSteps, PassedOver, Zenon DEF Header
<1>11. CASE Port(t)
  BY <1>0, <1>1, <1>4, <1>5, <1>11, FoundSteps, Zenon DEF Port
<1>12. CASE Ident(t)
  BY <1>0, <1>1, <1>3, <1>5, <1>12, FoundSteps, PassedOver, EndedSteps, Zenon DEF Ident
<1>13. CASE IPAddress(t)
  <2>1. Address(t) \in Names
    BY <1>2, <1>4, Zenon DEF Address
  <2> QED
    BY <1>0, <1>1, <1>5, <1>13, <2>1, FoundSteps, Zenon DEF IPAddress
<1>14. CASE DnsAsk(t)
  <2>1. PICK answer \in Records(t) :
          \/ /\ answer.kind = "txt"
             /\ userst' = [user |-> answer.user, group |-> answer.group]
             /\ Goto(t, [pc |-> "stored"])
          \/ answer.kind = "other" /\ Goto(t, [pc |-> "stored"]) /\ UNCHANGED userst
          \/ (NextPlugin(t, <<>>) \/ Failed(t)) /\ UNCHANGED userst
          \/ /\ userst' = [user |-> Portal, group |-> 0]
             /\ Goto(t, [clientuser |-> Portal, override |-> TRUE, pc |-> "same"])
    BY <1>14, Zenon DEF DnsAsk
  <2>2. PICK i \in DOMAIN Txt : Records(t) = Txt[i]
    <3>1. <<w[t].client, IF conf.xff THEN w[t].req.said ELSE NoName>> \in DOMAIN Txt
      BY <1>2, <1>3, <1>4, AuthAssumption, Zenon
    <3> QED
      BY <3>1, Zenon DEF Records
  <2>3. answer.user \in Names
    BY <2>2, AuthAssumption
  <2>4. answer.kind = "txt" => Published(answer.group)
    BY <2>1, <2>2, Zenon DEF Published
  <2>5. Published(0)
    BY Zenon DEF Published
  <2>6. buffer' = buffer
    BY <1>14, Zenon DEF DnsAsk
  <2>7. Stored'
    BY <1>0, <1>4, <2>1, <2>3, <2>4, <2>5, <2>6 DEF IInv, Stored, Published
  <2>8. Goto(t, [pc |-> "stored"]) => Steps(t)
    <3>1. PICK f : f = [pc |-> "stored"]
      BY Zenon
    <3>2. DOMAIN f = {"pc"} /\ f.pc = "stored"
      BY <3>1, Zenon
    <3> QED
      BY <1>1, <3>1, <3>2, GotoSteps, Zenon DEF Asks
  <2>9. Goto(t, [clientuser |-> Portal, override |-> TRUE, pc |-> "same"]) => Steps(t)
    <3>1. PICK f : f = [clientuser |-> Portal, override |-> TRUE, pc |-> "same"]
      BY Zenon
    <3>2. DOMAIN f = {"clientuser", "override", "pc"} /\ f.pc = "same" /\ f.clientuser \in Names
      BY <1>4, <3>1, Zenon
    <3> QED
      BY <1>1, <3>1, <3>2, GotoSteps, Zenon DEF Asks
  <2> QED
    BY <1>0, <1>1, <2>1, <2>7, <2>8, <2>9, PassedOver, EndedSteps, Zenon
<1>15. CASE Ntlm(t)
  <2>1. Stored'
    BY <1>0, <1>3, <1>15, Zenon DEF IInv, Stored, Ntlm
  <2>2. ASSUME NEW s \in {"same", "stored"}, Goto(t, [pc |-> s])
        PROVE  Steps(t)
    <3>1. PICK f : f = [pc |-> s]
      BY Zenon
    <3>2. DOMAIN f = {"pc"} /\ f.pc = s
      BY <3>1, Zenon
    <3>3. Goto(t, f)
      BY <2>2, <3>1, Zenon
    <3> QED
      BY <1>1, <3>2, <3>3, GotoSteps, Zenon DEF Asks
  <2> QED
    BY <1>0, <1>1, <1>15, <2>1, <2>2, PassedOver, EndedSteps, ForwardedSteps, Zenon DEF Ntlm
<1>16. CASE TakeName(t)
  <2>1. (IF Plugin(t) = "ntlm" THEN buffer ELSE userst.user) \in Names
    BY Zenon DEF IInv, Stored
  <2> QED
    BY <1>0, <1>1, <1>5, <1>16, <2>1, FoundSteps, Zenon DEF TakeName
<1> QED
  BY <1>6, <1>7, <1>8, <1>9, <1>10, <1>11, <1>12, <1>13, <1>14, <1>15, <1>16, Zenon

LEMMA GroupSteps ==
  ASSUME IInv, NEW t \in Workers,
         SameUser(t) \/ StoryGroup(t) \/ DnsGroup(t) \/ IPLock(t) \/ IPUnparsed(t) \/ IPGroup(t)
  PROVE  Steps(t) /\ Stored' /\ UNCHANGED <<conf, gen, ver, verAt>>
<1>0. UNCHANGED <<conf, gen, ver, verAt, userst, buffer>>
  BY Zenon DEF SameUser, StoryGroup, DnsGroup, IPLock, IPUnparsed, IPGroup, shared
<1>1. Serving(t) /\ DOMAIN w = Workers
  BY Zenon DEF IInv, Serving, Asks, SameUser, StoryGroup, DnsGroup, IPLock, IPUnparsed, IPGroup
<1>2. ip' = ip => Stored'
  BY <1>0, Zenon DEF IInv, Stored
<1>3. Begun(w[t]) /\ BeingAsked(w[t])
  BY <1>1, Zenon DEF Serving, Sound, Asks
<1>4. CASE SameUser(t)
  <2>1. CASE w[t].clientuser = w[t].oldclientuser
    <3>1. PICK f : f = [authed |-> TRUE, filtergroup |-> w[t].oldfg, by |-> w[t].oldby]
      BY Zenon
    <3>2. DOMAIN f = {"authed", "filtergroup", "by"}
      BY <3>1, Zenon
    <3>3. f.authed = TRUE /\ f.filtergroup = w[t].oldfg /\ f.by = w[t].oldby
      BY <3>1, Zenon
    <3>4. PICK user, g : user = w[t].clientuser /\ g = w[t].oldfg
      BY Zenon
    <3>5. user \in Names /\ f.by # "none" /\ Fits(w[t].since, DefaultOf(w[t]), g, user, f.by)
      BY <1>3, <2>1, <3>3, <3>4, Zenon DEF Begun
    <3>6. Decided(t, f)
      BY <1>4, <2>1, <3>1, Zenon DEF SameUser
    <3>7. Steps(t)
      BY <1>1, <3>2, <3>3, <3>4, <3>5, <3>6, DecidedSteps, Zenon
    <3> QED
      BY <1>0, <1>2, <1>4, <3>7, Zenon DEF SameUser
  <2>2. CASE w[t].clientuser # w[t].oldclientuser
    <3>1. PICK f : f = [pc |-> "group"]
      BY Zenon
    <3>2. DOMAIN f = {"pc"} /\ f.pc = "group"
      BY <3>1, Zenon
    <3>3. Goto(t, f)
      BY <1>4, <2>2, <3>1, Zenon DEF SameUser
    <3>4. Steps(t)
      BY <1>1, <3>2, <3>3, GotoSteps, Zenon DEF Asks
    <3> QED
      BY <1>0, <1>2, <1>4, <3>4, Zenon DEF SameUser
  <2> QED
    BY <2>1, <2>2, Zenon
<1>5. CASE StoryGroup(t)
  <2>1. PICK user, g : user = Norm[w[t].clientuser] /\ g = Listed[w[t].ldl][user]
    BY Zenon
  <2>2. user \in Names
    BY <1>3, <2>1, AuthAssumption, Zenon DEF Begun
  <2>3. w[t].ldl \in w[t].since .. gen
    BY <1>3, Zenon DEF BeingAsked
  <2>4. \/ NoMatch(t)
        \/ GroupFound(t, g, user, "list")
        \/ w[t].clientuser \notin {NoName, "-"} /\ GroupFound(t, conf.plugdef, user, "plugdef")
        \/ NoGroup(t, user)
    BY <1>5, <2>1, Zenon DEF StoryGroup
  <2>5. Fits(w[t].since, DefaultOf(w[t]), g, user, "list")
    BY <2>1, <2>3, Zenon DEF Fits
  <2>6. w[t].clientuser \notin {NoName, "-"} => Fits(w[t].since, DefaultOf(w[t]), conf.plugdef, user, "plugdef")
    BY <1>3, <2>1, Zenon DEF Fits, Begun
  <2>7. Steps(t)
    BY <1>1, <2>2, <2>4, <2>5, <2>6, PassedOver, GroupFoundSteps, NoGroupSteps, Zenon
  <2> QED
    BY <1>0, <1>2, <1>5, <2>7, Zenon DEF StoryGroup
<1>6. CASE DnsGroup(t)
  <2>1. PICK user, g : user = w[t].clientuser /\ g = userst.group
    BY Zenon
  <2>2. user \in Names /\ Fits(w[t].since, DefaultOf(w[t]), g, user, "dns")
    BY <1>3, <2>1, Zenon DEF Begun, Fits, IInv, Stored
  <2>3. GroupFound(t, g, user, "dns")
    BY <1>6, <2>1, Zenon DEF DnsGroup
  <2>4. Steps(t)
    BY <1>1, <2>2, <2>3, GroupFoundSteps, Zenon
  <2> QED
    BY <1>0, <1>2, <1>6, <2>4, Zenon DEF DnsGroup
<1>7. CASE IPLock(t)
  <2>1. PICK f : f = [pc |-> "locked", readid |-> gen]
    BY Zenon
  <2>2. DOMAIN f = {"pc", "readid"} /\ f.pc = "locked" /\ f.readid = gen
    BY <2>1, Zenon
  <2>3. PICK r : r = f ++ w[t]
    BY Zenon
  <2>4. DOMAIN w[t] = Fields
    BY <1>1, Zenon DEF Serving, Sound
  <2>5. DOMAIN r = DOMAIN f \cup Fields
    BY <2>3, <2>4, MergeDomain, Zenon
  <2>6. DOMAIN f \subseteq Fields
    BY <2>2, Zenon DEF Fields
  <2>7. \A x \in Fields : r[x] = IF x \in DOMAIN f THEN f[x] ELSE w[t][x]
    BY <2>3, <2>4, MergeAt
  <2>8. /\ r.pc = "locked" /\ r.readid = gen
        /\ r.since = w[t].since /\ r.client = w[t].client /\ r.proxied = w[t].proxied /\ r.oldby = w[t].oldby
        /\ r.oldfg = w[t].oldfg /\ r.oldclientuser = w[t].oldclientuser /\ r.by = w[t].by
        /\ r.req = w[t].req /\ r.ldl = w[t].ldl /\ r.filtergroup = w[t].filtergroup
        /\ r.clientuser = w[t].clientuser
    BY <2>2, <2>7, Zenon DEF Fields
  <2>9. Begun(r) /\ BeingAsked(r)
    BY <1>3, <2>8, Zenon DEF Begun, BeingAsked, DefaultOf
  <2>10. gen \in r.since .. gen
    BY <1>3, <2>8, AuthAssumption, SMTT(30) DEF IInv, Times, Begun
  <2>11. Sound(r)
    BY <1>7, <2>5, <2>6, <2>8, <2>9, <2>10, Zenon DEF Sound, Asks, IPLock
  <2>12. Steps(t)
    BY <1>7, <2>1, <2>3, <2>11, Zenon DEF IPLock, Goto, Steps
  <2>13. Stored'
    BY <1>0, <1>7, Zenon DEF IInv, Stored, IPLock
  <2> QED
    BY <1>0, <2>12, <2>13, Zenon
<1>8. CASE IPUnparsed(t)
  <2>1. Steps(t)
    BY <1>1, <1>8, PassedOver, Zenon DEF IPUnparsed
  <2> QED
    BY <1>0, <1>2, <1>8, <2>1, Zenon DEF IPUnparsed
<1>9. CASE IPGroup(t)
  <2>1. PICK l \in IPLists(t) :
          /\ ip' = [l EXCEPT !.holder = "none"]
          /\ \/ NoGroup(t, w[t].clientuser) \/ NoMatch(t)
             \/ GroupFound(t, IPGroups[l.list][w[t].clientuser], w[t].clientuser, "ip")
    BY <1>9, Zenon DEF IPGroup
  <2>2. PICK since, readid : since = w[t].since /\ readid = w[t].readid
    BY Zenon
  <2>3. since \in 1 .. gen /\ readid \in since .. gen /\ w[t].clientuser \in Names
    BY <1>1, <1>3, <1>9, <2>2, Zenon DEF Serving, Sound, Begun, IPGroup
  <2>4. gen \in Nat /\ ver \in Nat /\ verAt[readid] <= ver /\ verAt[since] <= verAt[readid]
        /\ verAt[since] \in Nat \ {0} /\ verAt[readid] \in Nat
    <3>1. Times
      BY Zenon DEF IInv
    <3>2. gen \in Nat /\ ver \in Nat
      BY <3>1, AuthAssumption DEF Times
    <3>3. /\ \A i \in 1 .. gen : verAt[i] \in Nat \ {0} /\ verAt[i] <= ver
          /\ \A i, j \in 1 .. gen : i <= j => verAt[i] <= verAt[j]
      BY <3>1, <3>2, AuthAssumption, SMTT(30) DEF Times
    <3> QED
      BY <2>3, <3>2, <3>3
  <2>5. /\ l \in [list : Nat \ {0}, id : Int, holder : Workers \cup {"none"}]
        /\ l.list <= ver
        /\ l.id > 0 => l.id <= gen /\ verAt[l.id] <= l.list
        /\ conf.unreadable \/ verAt[readid] <= l.list
    <3>1. ver # 0 /\ Stored
      BY Zenon DEF IInv, Times
    <3>2. \/ l = ip /\ (ip.id = readid \/ conf.unreadable)
          \/ l = [ip EXCEPT !.list = ver, !.id = readid]
      BY <2>1, <2>2, Zenon DEF IPLists
    <3>3. CASE l = ip /\ (ip.id = readid \/ conf.unreadable)
      BY <2>3, <2>4, <3>1, <3>3 DEF Stored
    <3>4. CASE l = [ip EXCEPT !.list = ver, !.id = readid]
      <4>0. l = [list |-> ver, id |-> readid, holder |-> ip.holder] /\ ip.holder \in Workers \cup {"none"}
        BY <3>1, <3>4, Zenon DEF Stored
      <4>a. readid \in Int /\ ver \in Nat \ {0}
        BY <2>3, <2>4, <3>1
      <4>1. l \in [list : Nat \ {0}, id : Int, holder : Workers \cup {"none"}] /\ l.list = ver /\ l.id = readid
        BY <4>0, <4>a, Zenon
      <4> QED
        BY <2>3, <2>4, <4>1
    <3> QED
      BY <3>2, <3>3, <3>4, Zenon
  <2>6. Stored'
    BY <1>0, <2>1, <2>5, Zenon DEF IInv, Stored
  <2>7. PICK user, g : user = w[t].clientuser /\ g = IPGroups[l.list][user]
    BY Zenon
  <2>8. l.list \in (IF conf.unreadable THEN 1 ELSE verAt[since]) .. ver
    BY <2>3, <2>4, <2>5
  <2>9. Fits(w[t].since, DefaultOf(w[t]), g, user, "ip")
    BY <2>2, <2>7, <2>8, Zenon DEF Fits
  <2>10. NoGroup(t, user) \/ NoMatch(t) \/ GroupFound(t, g, user, "ip")
    BY <2>1, <2>7, Zenon
  <2>11. Steps(t)
    BY <1>1, <2>3, <2>7, <2>9, <2>10, PassedOver, GroupFoundSteps, NoGroupSteps, Zenon
  <2> QED
    BY <1>0, <2>6, <2>11, Zenon
<1> QED
  BY <1>4, <1>5, <1>6, <1>7, <1>8, <1>9, Zenon

-----------------------------------------------------------------------------
LEMMA Starts == Init => IInv
<1> SUFFICES ASSUME Init
             PROVE  IInv
  BY Zenon
<1>1. Times
  BY AuthAssumption DEF Init, Times
<1>2. Stored
  BY AuthAssumption DEF Init, Stored, Published
<1>3. ASSUME NEW t \in Workers
      PROVE  Sound(w[t])
  <2>1. w[t] = Fresh
    BY Zenon DEF Init
  <2> QED
    BY <2>1, FreshFields, Zenon DEF Sound, Asks
<1> QED
  BY <1>1, <1>2, <1>3, Zenon DEF Init, IInv

LEMMA Kept == IInv /\ [Next]_vars => IInv'
<1> SUFFICES ASSUME IInv, [Next]_vars
             PROVE  IInv'
  BY Zenon
<1>1. CASE Reload
  <2>1. /\ gen \in Nat /\ gen' = gen + 1 /\ gen + 1 \in 1 .. MaxGen /\ ver' = ver /\ ver \in Nat
        /\ conf' = conf /\ w' = w /\ userst' = userst /\ buffer' = buffer /\ ip' = ip
        /\ verAt' = [verAt EXCEPT ![gen + 1] = ver]
    BY <1>1, AuthAssumption DEF Reload, IInv, Times
  <2>2. \A i \in 1 .. gen : verAt'[i] = verAt[i] /\ verAt[i] <= ver
    BY <2>1, AuthAssumption DEF IInv, Times
  <2>3. verAt'[gen + 1] = ver /\ verAt' \in [1 .. MaxGen -> Nat \ {0}]
    BY <2>1, Zenon DEF IInv, Times
  <2>4. Times'
    <3>1. \A i \in 1 .. gen' : verAt'[i] <= ver'
      BY <2>1, <2>2, <2>3
    <3>2. \A i, j \in 1 .. gen' : i <= j => verAt'[i] <= verAt'[j]
      BY <2>1, <2>2, <2>3 DEF IInv, Times
    <3> QED
      BY <2>1, <2>3, <3>1, <3>2, Zenon DEF IInv, Times
  <2>5. Stored'
    BY <2>1, <2>2 DEF IInv, Stored
  <2>6. \A u \in Workers : Sound(w[u])'
    BY <2>1, <2>2, TimePasses
  <2> QED
    BY <2>1, <2>4, <2>5, <2>6, Zenon DEF IInv
<1>2. CASE EditFile
  <2>1. /\ gen \in Nat /\ gen' = gen /\ ver' = ver + 1 /\ ver \in Nat /\ verAt' = verAt
        /\ conf' = conf /\ w' = w /\ userst' = userst /\ buffer' = buffer /\ ip' = ip
    BY <1>2, AuthAssumption DEF EditFile, IInv, Times
  <2>2. Times'
    <3>1. ASSUME NEW i \in 1 .. gen
          PROVE  verAt[i] <= ver + 1
      BY <2>1, AuthAssumption DEF IInv, Times
    <3> QED
      BY <2>1, <3>1 DEF IInv, Times
  <2>3. Stored'
    BY <2>1 DEF IInv, Stored
  <2>4. \A u \in Workers : Sound(w[u])'
    BY <2>1, TimePasses
  <2> QED
    BY <2>1, <2>2, <2>3, <2>4, Zenon DEF IInv
<1>3. ASSUME NEW t \in Workers, Worker(t)
      PROVE  IInv'
  <2>1. Steps(t) /\ Stored' /\ UNCHANGED <<conf, gen, ver, verAt>>
    <3>1. CASE Accept(t) \/ Close(t) \/ NextRequest(t)
      BY <3>1, ConnectionSteps, Zenon DEF IInv, Stored
    <3>2. CASE ~(Accept(t) \/ Close(t) \/ NextRequest(t))
      BY <1>3, <3>2, IdentifySteps, GroupSteps, Zenon DEF Worker
    <3> QED
      BY <3>1, <3>2, Zenon
  <2>2. PICK r : w' = [w EXCEPT ![t] = r] /\ Sound(r)
    BY <2>1, Zenon DEF Steps
  <2>3. (DOMAIN w = Workers)' /\ \A u \in Workers : Sound(w[u])'
    BY <2>1, <2>2, OneHandler, Zenon
  <2>4. Times'
    BY <2>1, Zenon DEF IInv, Times
  <2> QED
    BY <2>1, <2>3, <2>4, Zenon DEF IInv
<1>4. CASE UNCHANGED vars
  <2>1. \A u \in Workers : Sound(w[u])'
    <3> SUFFICES ASSUME NEW u \in Workers PROVE Sound(w[u])'
      BY Zenon
    <3>1. Sound(w[u])
      BY Zenon DEF IInv
    <3>2. Begun(w[u]) => Begun(w[u])'
      BY <1>4, SMTT(30) DEF vars, Begun, Fits, DefaultOf
    <3>3. BeingAsked(w[u]) => BeingAsked(w[u])'
      BY <1>4, SMTT(30) DEF vars, BeingAsked, DefaultOf
    <3>4. Fits(w[u].since, DefaultOf(w[u]), w[u].filtergroup, w[u].clientuser, w[u].by)
            => Fits(w[u].since, DefaultOf(w[u]), w[u].filtergroup, w[u].clientuser, w[u].by)'
      BY <1>4, SMTT(30) DEF vars, Fits, DefaultOf
    <3>5. w' = w /\ gen' = gen
      BY <1>4, Zenon DEF vars
    <3> QED BY <3>1, <3>2, <3>3, <3>4, <3>5, ZenonT(60) DEF Sound
  <2> QED
    BY <1>4, <2>1, ZenonT(60) DEF IInv, vars, Times, Stored
<1> QED
  BY <1>1, <1>2, <1>3, <1>4, Zenon DEF Next

(* GroupsAreTheUsers: every request doAuth lets through has a group its user
   had since the connection began, whatever the plugins, the lists, the
   ipgroups file and the answers of the DNS server hold, and whatever the
   other workers, reloads and edits do between the steps of doAuth. *)
THEOREM GroupsAreTheUsers == Spec => []GroupIsTheUsers
<1>1. IInv => GroupIsTheUsers
  <2> SUFFICES ASSUME IInv, NEW t \in Workers, w[t].pc = "done"
               PROVE  LET g == w[t].filtergroup
                          user == w[t].clientuser
                      IN  CASE w[t].by = "none"    -> user = "-" /\ (g = Default(t) \/ ~InRange(g))
                            [] w[t].by = "list"    -> \E i \in w[t].since .. gen : g = Listed[i][user]
                            [] w[t].by = "ip"      -> \E v \in Versions(t) : g = IPGroups[v][user]
                            [] w[t].by = "plugdef" -> g = conf.plugdef /\ \E n \in Names \ {NoName, "-"} : user = Norm[n]
                            [] w[t].by = "nogroup" -> g = Default(t) /\ ~conf.requires
                            [] w[t].by = "dns"     -> g = 0 \/ \E c \in DOMAIN Txt : \E a \in Txt[c] : a.kind = "txt" /\ g = a.group
                            [] w[t].by = "first"   -> g = 0 /\ user = NoName
    BY Zenon DEF GroupIsTheUsers
  <2>1. Fits(w[t].since, DefaultOf(w[t]), w[t].filtergroup, w[t].clientuser, w[t].by)
    BY Zenon DEF IInv, Sound
  <2>2. Default(t) = DefaultOf(w[t])
    BY Zenon DEF Default, DefaultOf
  <2> QED
    BY <2>1, <2>2, Zenon DEF Fits, Published, Versions
<1> QED
  BY <1>1, Starts, Kept, PTL DEF Spec

(* IPListIsNew: no reload of the lists is missed by the ipgroups list in
   memory, however many workers ask the ip plugin and however often the file
   is edited or cannot be read. *)
THEOREM IPListIsNew == Spec => []IPListAsNewAsItsLabel
<1>1. IInv => IPListAsNewAsItsLabel
  BY AuthAssumption, Zenon DEF IInv, Times, Stored, IPListAsNewAsItsLabel
<1> QED
  BY <1>1, Starts, Kept, PTL DEF Spec

=============================================================================
