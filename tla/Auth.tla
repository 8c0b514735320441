-------------------------------- MODULE Auth --------------------------------
(***************************************************************************)
(* Who a client is and which filter group it gets: doAuth of               *)
(* src/ConnectionHandler.cpp, the plugin base class of src/Auth.cpp and    *)
(* the plugins of src/authplugins/.  Worker threads serve connections of   *)
(* several requests each.  A plugin is one object shared by all workers,   *)
(* so what a plugin stores between identify and determineGroup is shared   *)
(* state, and the lists are replaced while requests are being served.      *)
(* That an address may be excepted or banned before the plugins are asked  *)
(* is in HandleConnection and THTTPS.                                      *)
(***************************************************************************)
EXTENDS Integers, Sequences

CONSTANTS
  Workers,      \* the worker threads
  Clients,      \* addresses of clients
  Names,        \* user names as they arrive, the empty one and the addresses included
  Norm,         \* [Names -> Names]: normalise_auth_username and toLower
  NumGroups,    \* o.numfg
  Listed,       \* [generation of the lists -> [Names -> group, or -1]]
  IPv4,         \* the addresses inet_aton can parse
  IPGroups,     \* [version of the ipgroups file -> [IPv4 -> group, -1, -2 or -3]]
  Txt,          \* [client, forwarded address -> answers the DNS server may give]
  Confs,        \* the configurations considered
  Requests,     \* [sequences of plugins -> the requests considered with them]
  MaxGen, MaxVer, MaxConns, MaxRequests   \* bounds

(* The record r with the fields of f in place of its own *)
f ++ r == [x \in DOMAIN f \cup DOMAIN r |-> IF x \in DOMAIN f THEN f[x] ELSE r[x]]

NoName == ""
Portal == "::auth::"        \* the user dnsauth reports for the login page
HiddenGroups == {-2, -3}    \* kHiddenExceptionGroup, kHiddenBannedGroup
InRange(g) == g \in 0 .. NumGroups - 1

(* What the plugins see of a request: credentials and the user they name, the
   forwarded user, the address it says it comes from, and whether it is for
   the login page. *)
RequestType == [auth : {"none", "basic", "digest", "header", "ntlm"}, name : Names, colon : BOOLEAN,
                fwd : Names, said : Names, portal : BOOLEAN]

ASSUME AuthAssumption ==
  /\ {NoName, Portal, "-", "port"} \cup Clients \cup IPv4 \subseteq Names
  /\ Norm \in [Names -> Names]
  /\ MaxGen \in Nat \ {0} /\ MaxVer \in Nat
  /\ Listed \in [1 .. MaxGen -> [Names -> -1 .. NumGroups - 1]]
  /\ IPGroups \in [1 .. MaxVer -> [IPv4 -> -3 .. NumGroups - 1]]
  /\ Txt \in [Clients \X Names -> SUBSET [kind : {"txt", "other", "none"}, user : Names, group : Int]]
  /\ \A c \in Confs : Requests[c.plugins] \subseteq RequestType

VARIABLES
  conf,     \* o.*: the plugins in order and the options of authentication
  gen,      \* reload_id of o.currentLists()
  ver,      \* version of the ipgroups file on disk
  verAt,    \* history: version of the file when each generation came in force
  userst,   \* dnsauthinstance::userst
  buffer,   \* the static buffers of ntlminstance::identify
  ip,       \* ipinstance: list version, ipgroups_reload_id_, mutex holder
  w,        \* the workers: connection, request and ConnectionHandler members
  conns     \* connections accepted so far

vars == <<conf, gen, ver, verAt, userst, buffer, ip, w, conns>>
shared == <<conf, gen, ver, verAt, conns>>

(* is_connection_based and client_ip_based, as the constructors set them *)
ConnectionBased(p) == p \in {"ntlm", "port"} \/ (p \in {"ip", "dnsauth"} /\ ~conf.xff)
ClientIPBased(p) == p \in {"ip", "dnsauth", "ident"}

(* auth_needs_proxy_query: set by loadAuthPlugins from the plugins loaded *)
NeedsProxyQuery == \E i \in DOMAIN conf.plugins : conf.plugins[i] \in {"digest", "header", "ntlm"}

Plugin(t) == conf.plugins[w[t].at]

(* The address a plugin takes the client to have: the forwarded one where the
   configuration trusts it and it is an address, the peer's otherwise. *)
Address(t) == IF conf.xff /\ w[t].req.said \in IPv4 THEN w[t].req.said ELSE w[t].client

Default(t) == IF w[t].proxied THEN conf.default_fg ELSE conf.default_trans_fg

NoRequest == [auth |-> "none", name |-> NoName, colon |-> FALSE, fwd |-> NoName, said |-> NoName,
              portal |-> FALSE]

Fresh == [pc |-> "idle", client |-> CHOOSE c \in Clients : TRUE, proxied |-> TRUE,
          req |-> NoRequest, served |-> 0, since |-> 0, ldl |-> 0, at |-> 0,
          clientuser |-> NoName, oldclientuser |-> NoName, oldfg |-> 0, filtergroup |-> 0,
          real |-> FALSE, authed |-> FALSE, persist |-> FALSE, override |-> FALSE,
          readid |-> 0, by |-> "none", oldby |-> "first"]

Init ==
  /\ conf \in Confs
  /\ gen = 1 /\ ver = 1 /\ verAt = [g \in 1 .. MaxGen |-> 1]
  /\ userst = [user |-> NoName, group |-> 0] /\ buffer = NoName
  /\ ip = [list |-> 1, id |-> -1, holder |-> "none"]
  /\ w = [t \in Workers |-> Fresh]
  /\ conns = 0

-----------------------------------------------------------------------------
(* The lists and the file change under the running threads. *)

(* A reload replaces o.currentLists(). *)
Reload ==
  /\ gen < MaxGen
  /\ gen' = gen + 1 /\ verAt' = [verAt EXCEPT ![gen + 1] = ver]
  /\ UNCHANGED <<conf, ver, userst, buffer, ip, w, conns>>

(* Somebody edits the ipgroups file; nobody else reads it. *)
EditFile ==
  /\ ver < MaxVer /\ \E i \in DOMAIN conf.plugins : conf.plugins[i] = "ip"
  /\ ver' = ver + 1
  /\ UNCHANGED <<conf, gen, verAt, userst, buffer, ip, w, conns>>

-----------------------------------------------------------------------------
(* One connection of a worker, up to doAuth. *)

Goto(t, fields) == w' = [w EXCEPT ![t] = fields ++ @]

(* A mutant: one handler serves all connections of its thread. *)
KeptHandler(t) == [oldclientuser |-> w[t].oldclientuser, oldfg |-> w[t].oldfg,
                   oldby |-> w[t].oldby] ++ Fresh

(* handle_connections makes a ConnectionHandler for every connection. *)
NewHandler(t) == Fresh


Accept(t) ==
  /\ w[t].pc = "idle" /\ conns < MaxConns
  /\ \E c \in Clients, proxied \in BOOLEAN :
       w' = [w EXCEPT ![t] = [pc |-> "ready", client |-> c, proxied |-> proxied, since |-> gen]
                             ++ NewHandler(t)]
  /\ conns' = conns + 1
  /\ UNCHANGED <<conf, gen, ver, verAt, userst, buffer, ip>>

Ended(t) == w' = [w EXCEPT ![t] = [oldclientuser |-> @.oldclientuser, oldfg |-> @.oldfg,
                                  oldby |-> @.oldby] ++ Fresh]

(* The connection ends after a request. *)
Close(t) ==
  /\ w[t].pc = "done"
  /\ Ended(t)
  /\ UNCHANGED <<shared, userst, buffer, ip>>

(* A request: credentials kept for the connection are not asked for again,
   otherwise the default group is set and the plugins are asked in turn. *)
NextRequest(t) ==
  /\ w[t].pc \in {"ready", "done"} /\ w[t].served < MaxRequests
  /\ \E r \in Requests[conf.plugins] :
       LET request == [req |-> IF w[t].persist THEN NoRequest ELSE r, served |-> w[t].served + 1,
                       override |-> FALSE]
       IN  Goto(t, CASE w[t].persist -> [authed |-> TRUE, pc |-> "done"] ++ request
                     [] ~w[t].persist /\ conf.plugins = <<>> ->
                          [authed |-> TRUE, clientuser |-> "-", persist |-> TRUE,
                           filtergroup |-> Default(t), pc |-> "done"] ++ request
                     [] OTHER -> [authed |-> FALSE, filtergroup |-> Default(t), ldl |-> gen,
                                  at |-> 1, pc |-> "ask"] ++ request)
  /\ UNCHANGED <<shared, userst, buffer, ip>>

-----------------------------------------------------------------------------
(* The end of doAuth. *)

(* Locals of doAuth, dead once it returns *)
Asleep == [req |-> NoRequest, readid |-> 0, ldl |-> 0, at |-> 0]

(* Nobody, or a group that does not exist: the user is "-".  Otherwise the
   user and the group are remembered, and kept if the plugin says so. *)
Verdict(t, fields) ==
  LET c == fields ++ w[t]
  IN  IF ~c.authed \/ ~InRange(c.filtergroup)
      THEN [authed |-> ~NeedsProxyQuery, clientuser |-> "-", by |-> "none", pc |-> "done"] ++ Asleep ++ c
      ELSE [persist |-> ConnectionBased(Plugin(t)) /\ ~c.override, oldclientuser |-> c.clientuser,
            oldfg |-> c.filtergroup, oldby |-> c.by, pc |-> "done"] ++ Asleep ++ c

Decided(t, fields) == w' = [w EXCEPT ![t] = Verdict(t, fields)]

(* The next plugin, or the end of the loop. *)
NextPlugin(t, fields) ==
  IF w[t].at < Len(conf.plugins)
  THEN Goto(t, [at |-> w[t].at + 1, pc |-> "ask"] ++ fields)
  ELSE Decided(t, [authed |-> FALSE] ++ fields)

(* A redirection or an error: doAuth fails and the connection ends. *)
Failed(t) == Ended(t)

-----------------------------------------------------------------------------
(* identify: the plugins' ways to a user name. *)

(* Transparent requests only ask plugins that go by the address; a plugin
   mapped to another port is passed over. *)
Asked(t) == /\ w[t].proxied \/ ClientIPBased(Plugin(t))
            /\ conf.mapped \in {"any", Plugin(t)}

PassOver(t) ==
  /\ w[t].pc = "ask" /\ ~Asked(t)
  /\ NextPlugin(t, <<>>)
  /\ UNCHANGED <<shared, userst, buffer, ip>>

Found(t, name, real) == Goto(t, [clientuser |-> name, real |-> real, pc |-> "same"])

(* extract_forwarded_user: the last entry of X-Forwarded-For, if a name. *)
Forwarded(t) == IF w[t].req.fwd # NoName THEN Found(t, w[t].req.fwd, TRUE) ELSE NextPlugin(t, <<>>)

Asking(t, p) == w[t].pc = "ask" /\ Asked(t) /\ Plugin(t) = p /\ UNCHANGED <<shared, ip>>

ProxyBasic(t) ==
  /\ Asking(t, "basic")
  /\ IF w[t].req.auth = "basic" /\ w[t].req.colon THEN Found(t, w[t].req.name, TRUE) ELSE Forwarded(t)
  /\ UNCHANGED <<userst, buffer>>

(* Credentials without a colon make std::string::resize throw, which ends
   the connection in handle_connections. *)
PFBasic(t) ==
  /\ Asking(t, "pfbasic")
  /\ IF w[t].req.auth = "basic"
     THEN IF w[t].req.colon THEN Found(t, w[t].req.name, TRUE) ELSE Failed(t)
     ELSE Forwarded(t)
  /\ UNCHANGED <<userst, buffer>>

Digest(t) ==
  /\ Asking(t, "digest")
  /\ IF w[t].req.auth = "digest" THEN Found(t, w[t].req.name, TRUE) ELSE NextPlugin(t, <<>>)
  /\ UNCHANGED <<userst, buffer>>

Header(t) ==
  /\ Asking(t, "header")
  /\ IF w[t].req.auth = "header" THEN Found(t, w[t].req.name, FALSE)
     ELSE NextPlugin(t, [clientuser |-> NoName])
  /\ UNCHANGED <<userst, buffer>>

Port(t) ==
  /\ Asking(t, "port")
  /\ Found(t, "port", FALSE)
  /\ UNCHANGED <<userst, buffer>>

(* The client's own ident server: silent, in error, or naming the user. *)
Ident(t) ==
  /\ Asking(t, "ident")
  /\ NextPlugin(t, <<>>) \/ Failed(t) \/ (w[t].req.name # NoName /\ Found(t, w[t].req.name, TRUE))
  /\ UNCHANGED <<userst, buffer>>

IPAddress(t) ==
  /\ Asking(t, "ip")
  /\ Found(t, Address(t), TRUE)
  /\ UNCHANGED <<userst, buffer>>

(* The answers to the question dnsauth asks: it names the peer and, where it
   is trusted, the forwarded address. *)
Records(t) == Txt[w[t].client, IF conf.xff THEN w[t].req.said ELSE NoName]

(* The DNS server is asked.  An answer is stored in the plugin; one that
   holds no text leaves what was stored before. *)
DnsAsk(t) ==
  /\ Asking(t, "dnsauth")
  /\ \E answer \in Records(t) :
       \/ /\ answer.kind = "txt"
          /\ userst' = [user |-> answer.user, group |-> answer.group]
          /\ Goto(t, [pc |-> "stored"])
       \/ answer.kind = "other" /\ Goto(t, [pc |-> "stored"]) /\ UNCHANGED userst
       \/ answer.kind = "none" /\ ~conf.redirect /\ NextPlugin(t, <<>>) /\ UNCHANGED userst
       \/ answer.kind = "none" /\ conf.redirect /\ ~w[t].req.portal /\ Failed(t) /\ UNCHANGED userst
       \/ /\ answer.kind = "none" /\ conf.redirect /\ w[t].req.portal
          /\ userst' = [user |-> Portal, group |-> 0]
          /\ Goto(t, [clientuser |-> Portal, override |-> TRUE, pc |-> "same"])
  /\ UNCHANGED buffer

(* NTLM: without a handshake a forwarded name counts.  In a handshake the
   parent proxy must ask for credentials, and the client's next message
   goes through the plugin's static buffers.  A client that leaves is
   E2AUTH_NOIDENTPART, which doAuth treats like a name. *)
Ntlm(t) ==
  /\ Asking(t, "ntlm")
  /\ \/ w[t].req.auth # "ntlm" /\ Forwarded(t) /\ UNCHANGED buffer
     \/ w[t].req.auth = "ntlm" /\ Failed(t) /\ UNCHANGED buffer
     \/ w[t].req.auth = "ntlm" /\ NextPlugin(t, <<>>) /\ UNCHANGED buffer
     \/ w[t].req.auth = "ntlm" /\ Goto(t, [pc |-> "same"]) /\ UNCHANGED buffer
     \/ w[t].req.auth = "ntlm" /\ buffer' = w[t].req.name /\ Goto(t, [pc |-> "stored"])
  /\ UNCHANGED userst

(* The name is taken from the plugin's own storage. *)
TakeName(t) ==
  /\ w[t].pc = "stored"
  /\ Found(t, IF Plugin(t) = "ntlm" THEN buffer ELSE userst.user, TRUE)
  /\ UNCHANGED <<shared, userst, buffer, ip>>

-----------------------------------------------------------------------------
(* doAuth and determineGroup: from the name to the group. *)

(* "Same user as last time, re-using old group no." *)
SameUser(t) ==
  /\ w[t].pc = "same"
  /\ IF w[t].clientuser = w[t].oldclientuser
     THEN Decided(t, [authed |-> TRUE, filtergroup |-> w[t].oldfg,
                      by |-> w[t].oldby])
     ELSE Goto(t, [pc |-> "group"])
  /\ UNCHANGED <<shared, userst, buffer, ip>>

NoMatch(t) == NextPlugin(t, [clientuser |-> NoName])

GroupFound(t, g, user, how) == Decided(t, [authed |-> TRUE, filtergroup |-> g, clientuser |-> user, by |-> how])

(* A user without a group counts as authenticated only if it is a real user
   and no group is required. *)
NoGroup(t, user) ==
  IF conf.requires \/ ~w[t].real THEN NoMatch(t)
  ELSE Decided(t, [authed |-> TRUE, clientuser |-> user, by |-> "nogroup"])

(* AuthPlugin::determineGroup and pf_basic_instance::determineGroup: the
   plugin's story, then the plugin's default group. *)
StoryGroup(t) ==
  /\ w[t].pc = "group" /\ Plugin(t) \notin {"ip", "dnsauth"}
  /\ LET user == Norm[w[t].clientuser]
         g == Listed[w[t].ldl][user]
     IN  CASE w[t].clientuser \in {NoName, "-"} \/ (user = NoName /\ Plugin(t) = "pfbasic") -> NoMatch(t)
           [] OTHER -> IF g >= 0 THEN GroupFound(t, g, user, "list")
                       ELSE IF conf.plugdef >= 0 THEN GroupFound(t, conf.plugdef, user, "plugdef")
                       ELSE NoGroup(t, user)
  /\ UNCHANGED <<shared, userst, buffer, ip>>

(* dnsauthinstance::determineGroup: whatever is stored now. *)
DnsGroup(t) ==
  /\ w[t].pc = "group" /\ Plugin(t) = "dnsauth"
  /\ GroupFound(t, userst.group, w[t].clientuser, "dns")
  /\ UNCHANGED <<shared, userst, buffer, ip>>

(* ipinstance::determineGroup takes the mutex and notes which lists are in force. *)
IPLock(t) ==
  /\ w[t].pc = "group" /\ Plugin(t) = "ip" /\ ip.holder = "none"
  /\ w[t].clientuser \in IPv4
  /\ ip' = [ip EXCEPT !.holder = t]
  /\ Goto(t, [pc |-> "locked", readid |-> gen])
  /\ UNCHANGED <<shared, userst, buffer>>

(* An address that cannot be parsed *)
IPUnparsed(t) ==
  /\ w[t].pc = "group" /\ Plugin(t) = "ip" /\ w[t].clientuser \notin IPv4
  /\ NoMatch(t)
  /\ UNCHANGED <<shared, userst, buffer, ip>>

(* A mutant: a list that could not be read gets the label all the same. *)
IPListsUnread(t) ==
  IF ip.id = w[t].readid THEN {ip}
  ELSE {[ip EXCEPT !.list = ver, !.id = w[t].readid]}
       \cup (IF conf.unreadable THEN {[ip EXCEPT !.id = w[t].readid]} ELSE {})

(* ensureIPGroupsLoadedLocked: a list read under other lists is read again;
   a file that cannot be read leaves the old list and the old label. *)
IPLists(t) ==
  IF ip.id = w[t].readid THEN {ip}
  ELSE {[ip EXCEPT !.list = ver, !.id = w[t].readid]} \cup (IF conf.unreadable THEN {ip} ELSE {})

IPGroup(t) ==
  /\ w[t].pc = "locked"
  /\ \E l \in IPLists(t) :
       LET g == IPGroups[l.list][w[t].clientuser] IN
       /\ ip' = [l EXCEPT !.holder = "none"]
       /\ CASE g \in HiddenGroups -> NoGroup(t, w[t].clientuser)
            [] g >= 0 -> GroupFound(t, g, w[t].clientuser, "ip")
            [] OTHER -> NoMatch(t)
  /\ UNCHANGED <<shared, userst, buffer>>

Worker(t) ==
  \/ Accept(t) \/ Close(t) \/ NextRequest(t) \/ PassOver(t)
  \/ ProxyBasic(t) \/ PFBasic(t) \/ Digest(t) \/ Header(t) \/ Port(t) \/ Ident(t) \/ IPAddress(t)
  \/ DnsAsk(t) \/ Ntlm(t) \/ TakeName(t)
  \/ SameUser(t) \/ StoryGroup(t) \/ DnsGroup(t) \/ IPLock(t) \/ IPUnparsed(t) \/ IPGroup(t)

Next == Reload \/ EditFile \/ \E t \in Workers : Worker(t)

Spec == Init /\ [][Next]_vars

-----------------------------------------------------------------------------
(* History variables: verAt, w.since, w.by and w.oldby are read by the
   properties only. *)

(* The versions of the ipgroups file the group of an address may come from:
   those on disk since the lists of the connection's start came in force,
   and any before if reading may fail. *)
Versions(t) == (IF conf.unreadable THEN 1 ELSE verAt[w[t].since]) .. ver

(* GroupIsTheUsers: a request that doAuth lets through has the group its
   user has in lists, or in an ipgroups file, that were in force at some time
   since its connection began; or the default group of the plugin or of the
   port; or a group the DNS server published.  The group remembered from an
   earlier request (oldfg) is never older than the connection, whatever
   reloads happen between and during the requests.  Two cases of the code
   are named: a user with an empty name gets oldfg on its first request,
   and a group out of range is kept when the user becomes "-". *)
GroupIsTheUsers ==
  \A t \in Workers : w[t].pc = "done" =>
    LET g == w[t].filtergroup
        user == w[t].clientuser
    IN  CASE w[t].by = "none"    -> user = "-" /\ (g = Default(t) \/ ~InRange(g))
          [] w[t].by = "list"    -> \E i \in w[t].since .. gen : g = Listed[i][user]
          [] w[t].by = "ip"      -> \E v \in Versions(t) : g = IPGroups[v][user]
          [] w[t].by = "plugdef" -> g = conf.plugdef /\ \E n \in Names \ {NoName, "-"} : user = Norm[n]
          [] w[t].by = "nogroup" -> g = Default(t) /\ ~conf.requires
          [] w[t].by = "dns"     -> g = 0 \/ \E c \in DOMAIN Txt : \E a \in Txt[c] : a.kind = "txt" /\ g = a.group
          [] w[t].by = "first"   -> g = 0 /\ user = NoName

(* IPListAsNewAsItsLabel: the ipgroups list in memory is at least as new as
   the file was when the lists it is labelled with (ipgroups_reload_id_)
   came in force, so that a reload is never missed: the label is read before
   the file, both under the mutex, and only a list that was read gets it. *)
IPListAsNewAsItsLabel == ip.id > 0 => ip.list >= verAt[ip.id]

(* DnsGroupIsTheClients: doc/AuthPlugins says of determineGroup that it is
   given "an integer reference into which the user's numeric filter group
   ... should be placed".  A client for whom the DNS server always has a
   record is let through with the group of that record; a group out of range
   is replaced. *)
DnsGroupIsTheClients ==
  \A t \in Workers :
    /\ w[t].pc = "done" /\ w[t].by = "dns"
    /\ \A a \in Records(t) : a.kind = "txt" /\ InRange(a.group)
    => \E a \in Records(t) : w[t].filtergroup = a.group

=============================================================================
