------------------------------- MODULE THTTPS -------------------------------
(***************************************************************************)
(* Transparent HTTPS: ConnectionHandler::handleTHTTPSConnection looks at    *)
(* the first bytes of a connection without taking them off the socket and   *)
(* refuses it, passes it on as it is, or intercepts it; goMITM then runs    *)
(* the request loop of HandleConnection inside the TLS session.             *)
(***************************************************************************)
EXTENDS HandleConnection

VARIABLE hello  \* what was seen of the connection

tvars == <<vars, hello>>

(* tls: a TLS record header; data: the record can be read; sni: it is a     *)
(* client hello that names the server; orig: the firewall tells where the   *)
(* connection was meant to go.                                              *)
Hellos == {h \in [tls : BOOLEAN, data : BOOLEAN, sni : BOOLEAN, orig : BOOLEAN] :
             h.sni => h.tls /\ h.data}

(* There is nothing to see of a plain connection, nor of the requests       *)
(* inside an intercepted session.                                           *)
NoHello == [tls |-> FALSE, data |-> FALSE, sni |-> TRUE, orig |-> FALSE]

TInit ==
  /\ hello \in Hellos
  /\ conf \in Confs
  /\ class \in Classes
  /\ pc = "hello"
  /\ ismitm = FALSE /\ firsttime = TRUE
  /\ persistOutgoing = TRUE /\ persistPeer = TRUE /\ persistProxy = FALSE
  /\ last_isdirect = FALSE /\ last_domain_port = Closed
  /\ filtergroup = 0 /\ persistent_authed = FALSE
  /\ req \in {r \in Requests : r.connect} /\ cm = Fresh(req) /\ resp = NoResponse
  /\ up = Shut /\ gone = FALSE
  /\ sent = <<>> /\ logged = 0 /\ vetted = FALSE /\ lost = FALSE

(* handlePeer: the port decides which handler a connection gets.            *)
handlePeer == (Init /\ hello = NoHello) \/ TInit

(* A connection whose server nobody names, or that ends early, is dropped.   *)
Peek ==
  /\ pc = "hello"
  /\ pc' = IF (hello.sni \/ hello.orig) /\ (hello.tls => hello.data) THEN "tpreauth" ELSE "closed"
  /\ filtergroup' = DefaultTransFG
  /\ UNCHANGED <<hello, conf, class, persistent_authed, loop, persistPeer, persistProxy,
                 req, cm, resp, up, gone, sent, logged, vetted, lost>>

(* thttps-pre-authcheck.  Blocked clients and exceptions are not asked who   *)
(* they are.                                                                *)
TPreAuth ==
  /\ pc = "tpreauth"
  /\ \E c \in ThttpsPreAuthVerdicts(cm) :
       CASE class = "exceptionIP" ->
              /\ cm' = [c EXCEPT !.exception = TRUE, !.special = "exception", !.nomitm = TRUE,
                                 !.automitm = FALSE, !.authed = TRUE]
              /\ filtergroup' = -1 /\ pc' = "tstory"
         [] class = "bannedIP" ->
              /\ cm' = [c EXCEPT !.exception = FALSE, !.blocked = TRUE, !.naughty = TRUE,
                                 !.special = "banned", !.authed = TRUE]
              /\ filtergroup' = -1 /\ pc' = "tstory"
         [] OTHER ->
              /\ cm' \in {c, [c EXCEPT !.exception = FALSE, !.blocked = TRUE, !.naughty = TRUE]}
              /\ filtergroup' = filtergroup
              /\ pc' = IF cm'.naughty \/ cm'.exception THEN "tstory" ELSE "tauth"
  /\ UNCHANGED <<hello, conf, class, persistent_authed, loop, persistPeer, persistProxy,
                 req, resp, up, gone, sent, logged, vetted, lost>>

(* doAuth asks only plugins that need the address of the client.  A client   *)
(* that must log in is told so inside an intercepted session, if it may be   *)
(* intercepted.                                                             *)
TAuth ==
  /\ pc = "tauth"
  /\ \/ /\ conf.auth = "none"
        /\ cm' = [cm EXCEPT !.authed = TRUE]
        /\ persistent_authed' = TRUE
        /\ UNCHANGED filtergroup
     \/ /\ conf.auth = "local"
        /\ \E d \in Hidden(cm) : cm' = [d EXCEPT !.authed = TRUE]
        /\ \E g \in Groups, p \in BOOLEAN :
             /\ filtergroup' = g
             /\ persistent_authed' = p
     \/ /\ conf.auth # "none"
        /\ \E d \in Hidden(cm) : cm' = [d EXCEPT !.authed = (conf.auth = "local")]
        /\ filtergroup' = filtergroup \/ (conf.auth = "local" /\ filtergroup' = -1)
        /\ UNCHANGED persistent_authed
     \/ /\ conf.auth = "local" /\ FG.mitm
        /\ \E d \in Hidden(cm) : cm' = [d EXCEPT !.gomitm = ~d.nomitm, !.done = TRUE]
        /\ UNCHANGED <<filtergroup, persistent_authed>>
  /\ pc' = "tstory"
  /\ UNCHANGED <<hello, conf, class, loop, persistPeer, persistProxy, req, resp, up, gone, sent,
                 logged, vetted, lost>>

TNotAuthenticated ==
  /\ pc = "tauth"
  /\ conf.auth = "local"
  /\ Leave
  /\ UNCHANGED <<hello, conf, client, loop, persistPeer, persistProxy, req, cm, resp, gone, sent,
                 logged, vetted, lost>>

(* A mutant: a connection that names no server is a candidate.              *)
TJudgeUnnamed(c) ==
  LET n == c.nomitm \/ (c.special = "no" /\ ~(HasFG /\ FG.mitm))
      k == HasFG /\ ~n /\ FG.mitm
  IN [c EXCEPT !.nomitm = n, !.candidate = k, !.automitm = IF k THEN FG.auto ELSE @]

(* Interception needs a server name and a group that intercepts.            *)
TJudge(c) ==
  LET n == c.nomitm \/ (c.special = "no" /\ ~(HasFG /\ FG.mitm))
      k == HasFG /\ hello.sni /\ ~n /\ FG.mitm
  IN [c EXCEPT !.nomitm = n, !.candidate = k, !.automitm = IF k THEN FG.auto ELSE @]

TStoryRuns(c) == HasFG /\ ~c.done /\ ~c.blocked /\ ~c.exception

TRequestStory(c) ==
  IF ~TStoryRuns(c) THEN {c}
  ELSE IF FG.stealth
    THEN {[d EXCEPT !.naughty = FALSE, !.blocked = FALSE] : d \in ThttpsVerdicts(c)}
    ELSE {[d EXCEPT !.naughty = d.blocked] : d \in ThttpsVerdicts(c)}

TStory ==
  /\ pc = "tstory"
  /\ \E c \in TRequestStory(TJudge(cm)) : cm' = [c EXCEPT !.direct = @ \/ conf.gateways]
  /\ vetted' = TStoryRuns(cm)
  /\ pc' = "tupstream"
  /\ UNCHANGED <<hello, conf, client, loop, persistPeer, persistProxy, req, resp, up, gone, sent,
                 logged, lost>>

----------------------------------------------------------------------------
(* A refusal, or that the server cannot be reached, can only be told inside  *)
(* an intercepted session.  Exceptions and all that is neither refused nor   *)
(* to be intercepted are passed on.                                         *)
TRoute(c) ==
  LET d == [c EXCEPT !.gomitm = @ \/ ((c.naughty \/ c.upfail) /\ c.automitm /\ hello.sni)]
      mitm == ~(d.exception /\ ~d.upfail) /\ d.gomitm /\ ~d.nomitm
  IN /\ cm' = [d EXCEPT !.rest = ~mitm /\ ~d.upfail]
     /\ pc' = IF mitm THEN "mitm" ELSE "ttunnel"

TRefuse ==
  /\ pc = "tupstream"
  /\ cm.naughty
  /\ TRoute(cm)
  /\ UNCHANGED <<hello, conf, client, loop, persistPeer, persistProxy, req, resp, up, gone, sent,
                 logged, vetted, lost>>

(* connectUpstream and, through a parent proxy, sendProxyConnect: once the   *)
(* proxy has agreed the connection is as good as one to the server.          *)
TConnect(result) ==
  /\ pc = "tupstream"
  /\ ~cm.naughty
  /\ result = "refused" => ~cm.direct
  /\ CASE result = "connected" -> up' = Open(req.dest) /\ TRoute(cm)
       [] result = "refused" -> up' = Shut /\ TRoute([cm EXCEPT !.naughty = TRUE, !.upfail = TRUE])
       [] result = "fails" -> up' = Shut /\ TRoute(UpFails(cm))
  /\ UNCHANGED <<hello, conf, client, loop, persistPeer, persistProxy, req, resp, gone, sent,
                 logged, vetted, lost>>

(* The tunnel, doLog, and the end of the connection.                        *)
TTunnel ==
  /\ pc = "ttunnel"
  /\ sent' = IF ~cm.naughty /\ cm.rest THEN Append(sent, "tunnel") ELSE sent
  /\ logged' = logged + 1
  /\ Leave
  /\ UNCHANGED <<hello, conf, client, loop, persistPeer, persistProxy, req, cm, resp, gone,
                 vetted, lost>>

TNext ==
  \/ Peek \/ TPreAuth \/ TAuth \/ TNotAuthenticated \/ TStory \/ TRefuse
  \/ \E r \in {"connected", "refused", "fails"} : TConnect(r)
  \/ TTunnel
  \/ Next /\ hello' = IF ismitm' THEN NoHello ELSE hello

PeerSpec == handlePeer /\ [][TNext]_tvars

----------------------------------------------------------------------------
(* handleTHTTPSConnection intercepts only for a group that intercepts, never *)
(* a site of the nomitm list or a client that is an exception, and only      *)
(* where the client named the server it must be shown a certificate of, or   *)
(* where it must log in.                                                    *)
InterceptionAllowed ==
  pc = "mitm" /\ hello # NoHello => HasFG /\ FG.mitm /\ ~cm.nomitm /\ (hello.sni \/ cm.done)

(* Content of a server reaches the client only if a story of the client's    *)
(* group has judged the request or the response (JudgedBeforeDelivered).     *)
(* Of a transparent connection, what is passed on as it is was judged by     *)
(* the story of the client's group, or is an exception, and is not blocked;  *)
(* the cases that no story judges are a client that must log in and asks     *)
(* for a site that is not to be intercepted, and one to whom a plugin gives  *)
(* a group that does not exist.                                             *)
DeliveredIsJudged ==
  IF hello = NoHello THEN JudgedBeforeDelivered
  ELSE "tunnel" \in Said =>
         /\ ~cm.blocked
         /\ \/ vetted \/ cm.exception
            \/ cm.done /\ cm.nomitm
            \/ cm.special = "no" /\ ~HasFG
=============================================================================
