-------------------------- MODULE HandleConnection --------------------------
(***************************************************************************)
(* One client connection: the loop of ConnectionHandler::handleConnection  *)
(* over the requests of a persistent connection, the upstream connection   *)
(* it keeps from one request to the next, authentication, the filtering    *)
(* decisions, and the recursive call that goMITM makes inside a TLS        *)
(* session with the client.  Lists, stories, plugins, scanners and the     *)
(* peers are the environment: each of them gives any of the answers its    *)
(* caller tells apart.                                                     *)
(***************************************************************************)
EXTENDS Integers, Sequences, FiniteSets, StoryPromise

CONSTANTS
  Dests,                     \* servers (host and port) requests name
  Parent,                    \* the parent proxy
  Closed,                    \* no upstream connection
  Groups,                    \* filter groups, 0 .. numfg - 1
  DefaultFG, DefaultTransFG, \* default group, for proxied and transparent requests
  Requests,                  \* requests a client sends
  Confs                      \* configurations

(* Group options: reporting_level = -1, ssl_mitm, automitm and               *)
(* content_scan_exceptions.                                                 *)
GroupOptions == [stealth : BOOLEAN, mitm : BOOLEAN, auto : BOOLEAN, scanexc : BOOLEAN]

(* no_proxy: no parent proxy; gateways: there are gateway rules; xff:        *)
(* use_xforwardedfor; scan: content scanners are configured; auth: no plugin,*)
(* plugins that can tell by themselves, plugins that leave it to the parent  *)
(* proxy to ask for credentials (digest, header), or NTLM, which talks to    *)
(* the parent proxy inside the plugin.                                      *)
ConfType == [no_proxy : BOOLEAN, gateways : BOOLEAN, xff : BOOLEAN, scan : BOOLEAN,
             auth : {"none", "local", "digest", "ntlm"}, fg : [Groups -> GroupOptions]]

(* connect: a CONNECT, to port 443; head: a HEAD; keep: the header allows a  *)
(* persistent connection; proxied: it names the whole URL.                   *)
RequestType == [dest : Dests, connect : BOOLEAN, head : BOOLEAN, keep : BOOLEAN,
                proxied : BOOLEAN]

ASSUME ConstantsAssumption ==
  /\ Parent \notin Dests /\ Closed \notin Dests /\ Parent # Closed
  /\ Groups \subseteq Nat /\ 0 \in Groups
  /\ DefaultFG \in Groups /\ DefaultTransFG \in Groups
  /\ Requests \subseteq RequestType
  /\ \A r \in Requests : r.connect => ~r.head
  /\ Confs \subseteq ConfType

Classes == {"plain", "exceptionIP", "bannedIP"}

VARIABLES
  conf,               \* the configuration, fixed
  class,              \* what the lists say of the client's address
  pc,                 \* where in the loop
  ismitm,             \* the loop runs inside an intercepted TLS session
  firsttime,
  persistOutgoing, persistPeer, persistProxy,
  last_isdirect, last_domain_port,
  filtergroup, persistent_authed,
  req,                \* the request header
  cm,                 \* the NaughtyFilter of this request: checkme
  resp,               \* the response header
  up,                 \* proxysock: whom it reaches, and data nobody has read
  gone,               \* a write to the client has failed
  sent,               \* what the client was sent for this request
  logged,             \* calls of doLog for this request
  vetted,             \* history: a group's story has judged this request
  lost                \* history: the upstream connection was kept in the middle of a response

client == <<class, filtergroup, persistent_authed>>
loop == <<ismitm, firsttime, persistOutgoing, last_isdirect, last_domain_port>>
vars == <<conf, client, pc, loop, persistPeer, persistProxy, req, cm, resp, up, gone,
          sent, logged, vetted, lost>>

Shut == [to |-> Closed, unread |-> FALSE]
Open(d) == [to |-> d, unread |-> FALSE]
UpType == [to : Dests \cup {Parent, Closed}, unread : BOOLEAN]

RespType == [rc : {"none", "200", "407", "other"}, body : {"none", "sized", "open"},
             retried : BOOLEAN]
NoResponse == [rc |-> "none", body |-> "none", retried |-> FALSE]

CMType ==
  [connect : BOOLEAN, direct : BOOLEAN, exception : BOOLEAN, blocked : BOOLEAN,
   naughty : BOOLEAN, grey : BOOLEAN, logcat : BOOLEAN, redirect : BOOLEAN,
   bypass : {"no", "asked", "held"}, special : {"no", "exception", "banned"},
   authed : BOOLEAN, done : BOOLEAN, candidate : BOOLEAN, gomitm : BOOLEAN,
   nomitm : BOOLEAN, automitm : BOOLEAN, noscan : BOOLEAN, upfail : BOOLEAN,
   rest : BOOLEAN, twoway : BOOLEAN, checked : BOOLEAN, toobig : BOOLEAN]

(* A new NaughtyFilter, after setURL.                                       *)
Fresh(r) ==
  [connect |-> r.connect, direct |-> conf.no_proxy, exception |-> FALSE, blocked |-> FALSE,
   naughty |-> FALSE, grey |-> FALSE, logcat |-> FALSE, redirect |-> FALSE,
   bypass |-> "no", special |-> "no", authed |-> FALSE, done |-> FALSE,
   candidate |-> FALSE, gomitm |-> FALSE, nomitm |-> FALSE, automitm |-> FALSE,
   noscan |-> TRUE, upfail |-> FALSE, rest |-> FALSE, twoway |-> FALSE,
   checked |-> FALSE, toobig |-> FALSE]

HasFG == filtergroup \in Groups
FG == conf.fg[filtergroup]

(* Whom connectUpstream connects to.                                        *)
Target(c) == IF c.direct THEN req.dest ELSE Parent

(* The end of connectUpstream when no attempt succeeded.                    *)
UpFails(c) ==
  [c EXCEPT !.upfail = TRUE, !.naughty = TRUE, !.exception = FALSE, !.bypass = "no"]

(* The loop is left: both sockets are closed.                               *)
Leave == pc' = "closed" /\ up' = Shut

Init ==
  /\ conf \in Confs
  /\ class \in Classes
  /\ pc = "read"
  /\ ismitm = FALSE /\ firsttime = TRUE
  /\ persistOutgoing = TRUE /\ persistPeer = TRUE /\ persistProxy = FALSE
  /\ last_isdirect = FALSE /\ last_domain_port = Closed
  /\ filtergroup = 0 /\ persistent_authed = FALSE
  /\ req \in Requests /\ cm = Fresh(req) /\ resp = NoResponse
  /\ up = Shut /\ gone = FALSE
  /\ sent = <<>> /\ logged = 0 /\ vetted = FALSE /\ lost = FALSE

----------------------------------------------------------------------------
(* The client closes, stays silent, or the daemon is stopping.              *)
NoHeader ==
  /\ pc = "read"
  /\ Leave
  /\ UNCHANGED <<conf, client, loop, persistPeer, persistProxy, req, cm, resp, gone, sent,
                 logged, vetted, lost>>

(* The next request.  With use_xforwardedfor each request may name another   *)
(* client; inside TLS the client asks for no tunnel and names paths, no URLs. *)
ReadRequest(r, c) ==
  /\ pc = "read"
  /\ ~gone
  /\ ismitm => ~r.connect /\ ~r.proxied
  /\ (conf.xff /\ ~ismitm) \/ c = class
  /\ req' = r /\ class' = c
  /\ cm' = Fresh(r) /\ resp' = NoResponse
  /\ sent' = <<>> /\ logged' = 0 /\ vetted' = FALSE
  /\ firsttime' = FALSE
  /\ pc' = "preauth"
  /\ UNCHANGED <<conf, filtergroup, persistent_authed, ismitm, persistOutgoing,
                 last_isdirect, last_domain_port, persistPeer, persistProxy, up, gone, lost>>

(* A malformed URL, or the internal test URL.                               *)
AnswerURL ==
  /\ pc = "preauth"
  /\ \E a \in {"error", "page"} : sent' = Append(sent, a)
  /\ Leave
  /\ UNCHANGED <<conf, client, loop, persistPeer, persistProxy, req, cm, resp, gone, logged,
                 vetted, lost>>

StaleByHost == persistProxy /\ last_isdirect /\ last_domain_port # req.dest

(* An upstream connection that went direct does not serve another server,    *)
(* nor, if there is a parent proxy, any other request.                      *)
Stale == persistProxy /\ last_isdirect /\ (last_domain_port # req.dest \/ ~conf.no_proxy)

(* What the pre-authentication story and the rooms say of the client.       *)
PreAuthSays ==
  CASE class = "exceptionIP" ->
         {[cm EXCEPT !.exception = TRUE, !.special = "exception", !.nomitm = TRUE,
                     !.automitm = FALSE, !.authed = TRUE]}
    [] class = "bannedIP" ->
         {[cm EXCEPT !.blocked = TRUE, !.naughty = TRUE, !.special = "banned",
                     !.authed = TRUE]}
    [] OTHER ->
         UNION {{c, [c EXCEPT !.exception = TRUE], [c EXCEPT !.blocked = TRUE, !.naughty = TRUE]} :
                  c \in PreAuthVerdicts(cm)}

PreAuth ==
  /\ pc = "preauth"
  /\ persistOutgoing' = req.keep
  /\ up' = IF Stale THEN Shut ELSE up
  /\ persistProxy' = (persistProxy /\ ~Stale)
  /\ last_domain_port' = req.dest /\ last_isdirect' = cm.direct
  /\ \E c \in PreAuthSays :
       IF c.special # "no"
         THEN filtergroup' = -1 /\ cm' = c /\ pc' = "story"
         ELSE IF persistent_authed
           THEN filtergroup' = filtergroup /\ cm' = [c EXCEPT !.authed = TRUE] /\ pc' = "story"
           ELSE /\ filtergroup' = IF req.proxied THEN DefaultFG ELSE DefaultTransFG
                /\ cm' = c
                /\ pc' = "auth"
  /\ UNCHANGED <<conf, class, persistent_authed, ismitm, firsttime, persistPeer, req,
                 resp, gone, sent, logged, vetted, lost>>

----------------------------------------------------------------------------
(* The NTLM plugin needs the parent proxy before the request is judged.     *)
Early == ~persistProxy /\ conf.auth = "ntlm" /\ req.proxied

AfterEarly(ok) ==
  IF Early /\ ~ok
    THEN [UpFails(cm) EXCEPT !.gomitm = @ \/ (cm.connect /\ FG.mitm /\ FG.auto)]
    ELSE cm

(* For a transparent request only plugins that need no more than the         *)
(* client's address are asked.                                              *)
PluginAsked == conf.auth = "local" \/ (conf.auth # "none" /\ req.proxied)

(* The list of the ip plugin may say that a client is an exception or banned. *)
Hidden(c) ==
  {c} \cup IF conf.auth = "local"
             THEN {[c EXCEPT !.exception = TRUE, !.special = "exception", !.nomitm = TRUE,
                             !.automitm = FALSE],
                   [c EXCEPT !.blocked = TRUE, !.naughty = TRUE, !.special = "banned"]}
             ELSE {}

(* doAuth lets the request go on: there are no plugins; a plugin knows the   *)
(* user (and may keep the answer for the connection); none does, or it names *)
(* a group that does not exist; or the user must log in, which a CONNECT is  *)
(* told inside an intercepted session.                                      *)
Authenticated(ok) ==
  /\ pc = "auth"
  /\ Early \/ ok
  /\ persistProxy' = (persistProxy \/ (Early /\ ok))
  /\ up' = IF ~Early THEN up ELSE IF ok THEN Open(Target(cm)) ELSE Shut
  /\ LET c == AfterEarly(ok) IN
       \/ /\ conf.auth = "none"
          /\ cm' = [c EXCEPT !.authed = TRUE]
          /\ persistent_authed' = TRUE
          /\ UNCHANGED filtergroup
       \/ /\ PluginAsked
          /\ \E d \in Hidden(c) : cm' = [d EXCEPT !.authed = TRUE]
          /\ \E g \in Groups, p \in {conf.auth # "digest", FALSE} :
               /\ filtergroup' = g
               /\ persistent_authed' = p
       \/ /\ conf.auth # "none"
          /\ \E d \in Hidden(c) : cm' = [d EXCEPT !.authed = (conf.auth = "local")]
          /\ filtergroup' = filtergroup \/ (conf.auth = "local" /\ filtergroup' = -1)
          /\ UNCHANGED persistent_authed
       \/ /\ PluginAsked /\ cm.connect /\ FG.mitm
          /\ \E d \in Hidden(c) : cm' = [d EXCEPT !.gomitm = TRUE, !.done = TRUE]
          /\ UNCHANGED <<filtergroup, persistent_authed>>
  /\ pc' = "story"
  /\ UNCHANGED <<conf, class, loop, persistPeer, req, resp, gone, sent, logged, vetted, lost>>

(* A plugin fails, or sends the user to a login page.                       *)
NotAuthenticated ==
  /\ pc = "auth"
  /\ PluginAsked
  /\ \/ ~cm.connect /\ sent' = Append(sent, "redirect")
     \/ UNCHANGED sent
  /\ Leave
  /\ UNCHANGED <<conf, client, loop, persistPeer, persistProxy, req, cm, resp, gone, logged,
                 vetted, lost>>

(* The internal status URL; a link to a file that was scanned before.       *)
StatusPage ==
  /\ pc = "story"
  /\ sent' = Append(sent, "page")
  /\ Leave
  /\ UNCHANGED <<conf, client, loop, persistPeer, persistProxy, req, cm, resp, gone, logged,
                 vetted, lost>>

ScanBypass ==
  /\ pc = "story"
  /\ HasFG /\ ~cm.done
  /\ sent' = Append(sent, "page")
  /\ logged' = logged + 1
  /\ persistProxy' = FALSE
  /\ Leave
  /\ UNCHANGED <<conf, client, loop, persistPeer, req, cm, resp, gone, vetted, lost>>

Candidate(c) == c.connect /\ ~c.nomitm /\ HasFG /\ FG.mitm

Judge(c) ==
  [c EXCEPT !.candidate = Candidate(c), !.nomitm = @ \/ ~Candidate(c),
            !.automitm = @ /\ Candidate(c) /\ FG.auto]

(* A bypass link ("asked", answered by a redirection that sets the cookie)   *)
(* or a bypass that is already in force ("held").                           *)
Bypassed(c) ==
  {c} \cup IF HasFG /\ ~c.done
             THEN {[c EXCEPT !.exception = TRUE, !.bypass = b] : b \in {"asked", "held"}}
             ELSE {}

SetNoScan(c) ==
  [c EXCEPT !.noscan = ~(/\ HasFG /\ ~c.done /\ ~c.connect /\ ~req.head /\ ~c.blocked
                         /\ c.authed /\ conf.scan
                         /\ ~(c.exception /\ ~FG.scanexc))]

StoryRuns(c) == HasFG /\ c.authed /\ ~c.blocked /\ ~c.done /\ c.special # "exception"

RequestStoryUnreported(c) == IF StoryRuns(c) THEN StorySays(c) ELSE {c}

RequestStory(c) ==
  IF ~StoryRuns(c) THEN {c}
  ELSE IF FG.stealth THEN {[d EXCEPT !.naughty = FALSE, !.blocked = FALSE] : d \in StorySays(c)}
  ELSE {[d EXCEPT !.naughty = d.blocked] : d \in StorySays(c)}

(* Search terms are looked for in the phrase lists.                         *)
SearchSays(c) ==
  IF c.grey /\ ~c.done /\ HasFG THEN {c, [c EXCEPT !.naughty = TRUE]} ELSE {c}

(* In mixed mode a request that goes direct closes the upstream connection.  *)
GoDirect(c) ==
  /\ last_isdirect' = (last_isdirect \/ c.direct)
  /\ persistProxy' = (persistProxy /\ ~(c.direct /\ ~conf.no_proxy))

StoryRequest ==
  /\ pc = "story"
  /\ \E b \in Bypassed(Judge(cm)) :
       \E s \in RequestStory(SetNoScan(b)) :
         LET c == [s EXCEPT !.direct = @ \/ conf.gateways]
         IN /\ GoDirect(c)
            /\ vetted' = StoryRuns(SetNoScan(b))
            /\ IF c.bypass = "asked" \/ c.redirect
                 THEN /\ cm' = c
                      /\ sent' = Append(sent, "redirect")
                      /\ Leave
                 ELSE /\ cm' \in SearchSays(c)
                      /\ up' = IF persistProxy /\ ~persistProxy' THEN Shut ELSE up
                      /\ pc' = "upstream"
                      /\ UNCHANGED sent
  /\ UNCHANGED <<conf, client, ismitm, firsttime, persistOutgoing, last_domain_port,
                 persistPeer, req, resp, gone, logged, lost>>

----------------------------------------------------------------------------
(* The request is refused: a CONNECT may be answered inside an intercepted   *)
(* session, set up for no other purpose.                                    *)
Refuse(ok) ==
  /\ pc = "upstream"
  /\ cm.naughty
  /\ LET half == cm.connect /\ cm.automitm
         answer == half /\ cm.direct
     IN /\ ok \/ answer
        /\ cm' = [cm EXCEPT !.gomitm = half]
        /\ sent' = IF answer /\ ok THEN Append(sent, "established") ELSE sent
        /\ gone' = ~ok
        /\ IF ok THEN pc' = "route" /\ UNCHANGED up ELSE Leave
  /\ UNCHANGED <<conf, client, loop, persistPeer, persistProxy, req, resp, logged, vetted, lost>>

(* The upstream connection of the previous request is used again, unless the *)
(* gateway rules now choose another gateway.                                *)
Reuse ==
  /\ pc = "upstream"
  /\ ~cm.naughty
  /\ persistProxy
  /\ pc' = "send"
  /\ UNCHANGED <<conf, client, loop, persistPeer, persistProxy, req, cm, resp, up, gone, sent,
                 logged, vetted, lost>>

(* connectUpstream, and TLS with the server if the client's session is       *)
(* intercepted.  A parent proxy does not speak TLS.                          *)
ConnectUpstream(result) ==
  /\ pc = "upstream"
  /\ ~cm.naughty
  /\ ~persistProxy \/ (cm.direct /\ conf.gateways)
  /\ result \in {"tlsfails", "badcert"} => ismitm
  /\ result \in {"connected", "badcert"} /\ ismitm => Target(cm) # Parent
  /\ persistProxy' = FALSE
  /\ up' = IF result = "fails" THEN Shut ELSE Open(Target(cm))
  /\ cm' = CASE result = "fails" -> [UpFails(cm) EXCEPT !.gomitm = @ \/ (cm.connect /\ cm.automitm)]
             [] result = "tlsfails" -> [cm EXCEPT !.upfail = TRUE]
             [] result = "badcert" -> [cm EXCEPT !.upfail = FALSE, !.naughty = TRUE]
             [] OTHER -> [cm EXCEPT !.upfail = FALSE]
  /\ pc' = "send"
  /\ UNCHANGED <<conf, client, loop, persistPeer, req, resp, gone, sent, logged, vetted, lost>>

(* A grey CONNECT that is not intercepted becomes a tunnel.                 *)
TunnelGrey(c) == IF c.connect /\ c.grey THEN [c EXCEPT !.twoway = TRUE, !.rest = FALSE] ELSE c

(* A direct CONNECT has no response but ours.                               *)
Establish(ok) ==
  /\ pc = "send"
  /\ cm.direct /\ cm.connect
  /\ gone' = ~ok
  /\ sent' = IF ok THEN Append(sent, "established") ELSE sent
  /\ cm' = TunnelGrey(cm)
  /\ IF ok THEN pc' = "route" /\ UNCHANGED up ELSE Leave
  /\ UNCHANGED <<conf, client, loop, persistPeer, persistProxy, req, resp, logged, vetted, lost>>

(* There is no upstream connection to send the request on.                  *)
NotSent ==
  /\ pc = "send"
  /\ cm.upfail /\ ~(cm.direct /\ cm.connect)
  /\ cm' = TunnelGrey(cm)
  /\ pc' = "route"
  /\ UNCHANGED <<conf, client, loop, persistPeer, persistProxy, req, resp, up, gone, sent,
                 logged, vetted, lost>>

(* HTTPHeader::out connects again, once, when the parent proxy has dropped   *)
(* the connection.                                                          *)
Reconnect ==
  /\ pc = "send"
  /\ ~cm.upfail /\ ~cm.direct /\ ~ismitm
  /\ ~resp.retried
  /\ resp' = [resp EXCEPT !.retried = TRUE]
  /\ up' = Open(Parent)
  /\ UNCHANGED <<conf, client, pc, loop, persistPeer, persistProxy, req, cm, gone, sent, logged,
                 vetted, lost>>

(* The socket never becomes writable, or the request cannot be written or    *)
(* gets no response: a 408 in most cases, and the connection ends.           *)
ExchangeFails ==
  /\ pc = "send"
  /\ ~cm.upfail
  /\ \/ UNCHANGED sent
     \/ ~(cm.direct /\ cm.connect) /\ sent' = Append(sent, "error")
  /\ Leave
  /\ UNCHANGED <<conf, client, loop, persistPeer, persistProxy, req, cm, resp, gone, logged,
                 vetted, lost>>

(* What the status code of the response changes in checkme.                 *)
StatusCode(rc, body) ==
  LET auth == CASE rc = "407" -> [cm EXCEPT !.rest = TRUE, !.twoway = FALSE,
                                            !.connect = FALSE, !.exception = TRUE]
                [] rc # "407" /\ ~cm.authed /\ req.proxied /\ conf.auth = "ntlm"
                     /\ ~cm.exception -> [cm EXCEPT !.naughty = TRUE]
                [] OTHER -> cm
      refused == auth.connect /\ rc # "200"
  IN IF cm.naughty THEN cm
     ELSE [auth EXCEPT !.candidate = @ /\ ~refused,
                       !.rest = @ \/ refused \/ body = "none",
                       !.twoway = @ /\ ~refused]

(* The request is sent and a response header read.  Its body is empty        *)
(* ("none"), of known length ("sized"), or chunked or ended by the server's  *)
(* closing ("open"); keep: the header allows a persistent connection.        *)
Exchange(rc, body, keep) ==
  /\ pc = "send"
  /\ ~cm.upfail /\ ~(cm.direct /\ cm.connect)
  /\ LET c == StatusCode(rc, body)
         tunnel == c.connect /\ rc = "200" /\ ~cm.naughty
     IN /\ cm' = TunnelGrey(c)
        /\ persistProxy' = (persistOutgoing /\ keep /\ ~tunnel)
        /\ persistPeer' = (persistOutgoing /\ keep /\ body # "open" /\ ~tunnel)
        /\ up' = [up EXCEPT !.unread = body # "none" /\ ~req.head /\ ~tunnel]
  /\ resp' = [resp EXCEPT !.rc = rc, !.body = body]
  /\ pc' = "route"
  /\ UNCHANGED <<conf, client, loop, req, gone, sent, logged, vetted, lost>>

PassOnAll(c) ==
  IF c.upfail THEN c
  ELSE IF c.connect THEN [c EXCEPT !.twoway = TRUE, !.rest = FALSE]
  ELSE [c EXCEPT !.noscan = TRUE, !.twoway = FALSE, !.rest = TRUE]

(* Exceptions and logged categories are passed on without content checks,    *)
(* unless exceptions are scanned; then an intercepted CONNECT leaves this    *)
(* loop for the one inside the TLS session.                                 *)
PassOn(c) ==
  IF ~((c.exception \/ c.logcat) /\ ~c.upfail) THEN c
  ELSE IF c.connect THEN [c EXCEPT !.twoway = TRUE, !.rest = FALSE]
  ELSE LET noscan == c.noscan \/ ~HasFG \/ ~FG.scanexc
       IN [c EXCEPT !.noscan = noscan, !.twoway = @ /\ ~noscan, !.rest = @ \/ noscan]

Route ==
  /\ pc = "route"
  /\ LET c == PassOn(cm)
         tunnel == c.connect /\ (c.exception \/ c.logcat) /\ ~c.upfail
     IN /\ cm' = c
        /\ persistPeer' = (persistPeer /\ ~tunnel)
        /\ persistProxy' = (persistProxy /\ ~tunnel)
        /\ pc' = IF ~c.rest /\ c.connect /\ c.gomitm THEN "mitm" ELSE "response"
  /\ UNCHANGED <<conf, client, loop, req, resp, up, gone, sent, logged, vetted, lost>>

----------------------------------------------------------------------------
(* goMITM.  A client that asked for a tunnel is told that it is there, unless *)
(* it was already; then TLS is started on both sides.                        *)
transparent == cm.direct \/ ~req.proxied
Established == IF transparent THEN sent ELSE Append(sent, "established")

(* The request loop starts again, inside the session, on the same upstream   *)
(* connection, which now reaches the server.                                *)
Intercept ==
  /\ pc = "mitm"
  /\ ~cm.naughty /\ ~cm.upfail
  /\ persistent_authed' = (persistent_authed \/ cm.authed)
  /\ ismitm' = TRUE /\ firsttime' = TRUE
  /\ persistOutgoing' = TRUE /\ persistPeer' = TRUE /\ persistProxy' = TRUE
  /\ last_isdirect' = FALSE /\ last_domain_port' = Closed
  /\ up' = Open(req.dest)
  /\ sent' = Established
  /\ pc' = "read"
  /\ UNCHANGED <<conf, class, filtergroup, req, cm, resp, gone, logged, vetted, lost>>

(* No certificate, no key, or the handshake with the client fails: that is   *)
(* only logged.                                                             *)
ClientHandshakeFails ==
  /\ pc = "mitm"
  /\ cm' = [cm EXCEPT !.naughty = TRUE]
  /\ sent' = Established
  /\ logged' = logged + 1
  /\ Leave
  /\ UNCHANGED <<conf, client, loop, persistPeer, persistProxy, req, resp, gone, vetted, lost>>

(* Mutant: the refusal is not logged.                                       *)
DenyInsideUnlogged ==
  /\ pc = "mitm"
  /\ cm.naughty \/ cm.upfail \/ up # Shut
  /\ cm' = [cm EXCEPT !.naughty = TRUE]
  /\ sent' = Append(Established, "deny")
  /\ Leave
  /\ UNCHANGED <<conf, client, loop, persistPeer, persistProxy, req, resp, gone, logged, vetted,
                 lost>>

(* The request was refused already, the server cannot be reached, or its TLS *)
(* or its certificate is bad: a page says so inside the session.            *)
DenyInside ==
  /\ pc = "mitm"
  /\ cm.naughty \/ cm.upfail \/ up # Shut
  /\ cm' = [cm EXCEPT !.naughty = TRUE]
  /\ sent' = Append(Established, "deny")
  /\ logged' = logged + 1
  /\ Leave
  /\ UNCHANGED <<conf, client, loop, persistPeer, persistProxy, req, resp, gone, vetted, lost>>

(* "200 Connection established" cannot be written.                          *)
MitmClientGone ==
  /\ pc = "mitm"
  /\ ~transparent
  /\ gone' = TRUE
  /\ Leave
  /\ UNCHANGED <<conf, client, loop, persistPeer, persistProxy, req, cm, resp, sent, logged,
                 vetted, lost>>

----------------------------------------------------------------------------
ResponseStoryRuns ==
  HasFG /\ ~cm.naughty /\ ~cm.upfail /\ ~cm.connect /\ ~cm.logcat /\ ~cm.rest

(* The response story, the reporting level and what follows from them.      *)
ResponseStory ==
  LET Report(c) == IF FG.stealth
                     THEN [c EXCEPT !.naughty = FALSE, !.blocked = FALSE, !.grey = TRUE]
                     ELSE [c EXCEPT !.naughty = c.blocked]
      Exempt(c) == c.exception /\ ~FG.scanexc
  IN {[Report(c) EXCEPT !.rest = req.head \/ resp.body = "none" \/ Exempt(c),
                        !.noscan = @ \/ Exempt(c)] : c \in ResponseSays(cm)}

(* check_content: scanners or, for text that is no exception, the phrase     *)
(* filter want the content; otherwise it is passed on.                      *)
Wanted(c) == (c.grey \/ ~c.noscan) /\ ~c.rest

(* The download ends with the body, at the size limit, or when the server    *)
(* falls silent, which nothing reports.                                     *)
Downloads == {"all", "toobig", "short"}

Contents(c) ==
  {[c EXCEPT !.rest = TRUE]}
  \cup IF c.noscan /\ c.exception THEN {}
       ELSE {[c EXCEPT !.checked = TRUE, !.naughty = @ \/ n] : n \in BOOLEAN}

(* A slow download sends the client the first line of the header, to keep    *)
(* the connection alive.                                                    *)
CheckResponse(download, slow) ==
  /\ pc = "response"
  /\ IF ResponseStoryRuns
       THEN \E s \in ResponseStory :
              \E c \in IF Wanted(s) THEN Contents(s) ELSE {s} :
                /\ cm' = [c EXCEPT !.toobig = c.checked /\ download = "toobig"]
                /\ up' = [up EXCEPT !.unread = IF c.checked THEN download # "all" ELSE @]
                /\ lost' = (lost \/ (c.checked /\ download = "short"))
                /\ sent' = IF c.checked /\ slow THEN Append(sent, "firstline") ELSE sent
       ELSE UNCHANGED <<cm, up, lost, sent>>
  /\ vetted' = (vetted \/ ResponseStoryRuns)
  /\ pc' = "reply"
  /\ UNCHANGED <<conf, client, loop, persistPeer, persistProxy, req, resp, gone, logged>>

Answerable == ~cm.naughty /\ ~cm.upfail /\ ~(cm.connect /\ cm.direct)

SendHead(ok) ==
  /\ pc = "reply"
  /\ ok \/ Answerable
  /\ gone' = ~ok
  /\ sent' = IF Answerable /\ ok THEN Append(sent, "head") ELSE sent
  /\ IF ok THEN pc' = "body" /\ UNCHANGED up ELSE Leave
  /\ UNCHANGED <<conf, client, loop, persistPeer, persistProxy, req, cm, resp, logged, vetted,
                 lost>>

(* What was downloaded is written; the rest, or all of what was not checked, *)
(* goes through FDTunnel, which reports (all) whether it passed on as much   *)
(* as the header announced and, without a length, says yes in any case.      *)
Rest(ok) == cm.rest \/ (cm.checked /\ Answerable /\ cm.toobig /\ ok)

TunnelSaysAll(all) ==
  CASE resp.body = "none" -> TRUE
    [] resp.body = "open" -> TRUE
    [] resp.body = "sized" -> all /\ ~req.head

Deliver(ok, all) ==
  /\ pc = "body"
  /\ ~cm.naughty
  /\ gone' = ~ok
  /\ CASE Rest(ok) ->
            /\ persistProxy' = (persistProxy /\ TunnelSaysAll(all))
            /\ up' = [up EXCEPT !.unread = @ /\ ~(ok /\ all)]
            /\ sent' = IF resp.body = "none" \/ req.head THEN sent
                       ELSE Append(sent, IF ok /\ all THEN "body" ELSE "part")
            /\ UNCHANGED lost
       [] ~Rest(ok) /\ cm.twoway ->
            /\ persistProxy' = (persistProxy /\ all)
            /\ up' = [up EXCEPT !.unread = TRUE]
            /\ sent' = Append(sent, "tunnel")
            /\ lost' = TRUE
       [] OTHER ->
            /\ sent' = IF cm.checked /\ Answerable
                         THEN Append(sent, IF ok /\ ~up.unread THEN "body" ELSE "part") ELSE sent
            /\ lost' = (lost \/ (Answerable /\ up.unread))
            /\ UNCHANGED <<persistProxy, up>>
  /\ pc' = "finish"
  /\ UNCHANGED <<conf, client, loop, persistPeer, req, cm, resp, logged, vetted>>

NotDelivered ==
  /\ pc = "body"
  /\ cm.naughty
  /\ pc' = "finish"
  /\ UNCHANGED <<conf, client, loop, persistPeer, persistProxy, req, cm, resp, up, gone, sent,
                 logged, vetted, lost>>

(* genDenyAccess at reporting level -1 writes nothing, except to a CONNECT,  *)
(* and forgets that the request was refused.                                *)
Silent ==
  /\ cm.upfail \/ cm.naughty
  /\ conf.fg[IF HasFG THEN filtergroup ELSE 0].stealth
  /\ ~req.connect

(* denyAccess, doLog, and back to the top of the loop or out of it.          *)
Finish ==
  /\ pc = "finish"
  /\ LET deny == (cm.upfail \/ cm.naughty) /\ ~Silent
         stay == persistPeer /\ ~(deny /\ cm.naughty)
     IN /\ sent' = IF deny THEN Append(sent, "deny") ELSE sent
        /\ cm' = [cm EXCEPT !.naughty = @ /\ ~Silent]
        /\ logged' = logged + 1
        /\ persistPeer' = stay
        /\ lost' = (lost \/ (Silent /\ up.unread))
        /\ IF stay
             THEN pc' = "read" /\ up' = IF persistProxy THEN up ELSE Shut
             ELSE Leave
  /\ UNCHANGED <<conf, client, loop, persistProxy, req, resp, gone, vetted>>

Over == pc = "closed" /\ UNCHANGED vars

Next ==
  \/ NoHeader
  \/ \E r \in Requests, c \in Classes : ReadRequest(r, c)
  \/ AnswerURL \/ PreAuth
  \/ \E ok \in BOOLEAN : Authenticated(ok)
  \/ NotAuthenticated
  \/ StatusPage \/ ScanBypass \/ StoryRequest
  \/ \E ok \in BOOLEAN : Refuse(ok) \/ Establish(ok) \/ SendHead(ok)
  \/ Reuse
  \/ \E r \in {"connected", "fails", "tlsfails", "badcert"} : ConnectUpstream(r)
  \/ NotSent \/ Reconnect \/ ExchangeFails
  \/ \E rc \in {"200", "407", "other"}, b \in {"none", "sized", "open"}, k \in BOOLEAN :
       Exchange(rc, b, k)
  \/ Route
  \/ Intercept \/ ClientHandshakeFails \/ DenyInside \/ MitmClientGone
  \/ \E d \in Downloads, slow \in BOOLEAN : CheckResponse(d, slow)
  \/ \E ok, all \in BOOLEAN : Deliver(ok, all)
  \/ NotDelivered \/ Finish
  \/ Over

Spec == Init /\ [][Next]_vars

----------------------------------------------------------------------------
Steps == {"read", "preauth", "auth", "story", "upstream", "send", "route", "mitm", "response",
          "reply", "body", "finish", "closed"}
Answers == {"head", "deny", "error", "redirect", "page"}
Tokens == Answers \cup {"established", "firstline", "body", "part", "tunnel"}
Said == {sent[i] : i \in DOMAIN sent}

(* Type correctness of the handler's state.                                 *)
TypeOK ==
  /\ conf \in Confs /\ class \in Classes /\ pc \in Steps
  /\ ismitm \in BOOLEAN /\ firsttime \in BOOLEAN
  /\ persistOutgoing \in BOOLEAN /\ persistPeer \in BOOLEAN /\ persistProxy \in BOOLEAN
  /\ last_isdirect \in BOOLEAN /\ last_domain_port \in Dests \cup {Closed}
  /\ filtergroup \in Groups \cup {-1}
  /\ persistent_authed \in BOOLEAN
  /\ req \in Requests
  /\ cm \in CMType
  /\ resp \in RespType /\ up \in UpType
  /\ gone \in BOOLEAN /\ vetted \in BOOLEAN /\ lost \in BOOLEAN
  /\ sent \in Seq(Tokens) /\ logged \in Nat

(* A request goes to the server it names or, where one is used, to the       *)
(* parent proxy, over a connection on which nothing is left of an earlier    *)
(* response: the upstream connection that handleConnection keeps between     *)
(* requests is closed or replaced in time.  The exceptions are the cases in  *)
(* which it is kept in the middle of a response (lost): a download that      *)
(* ended early, a body that nobody passed on, a tunnel, and a refusal that   *)
(* was not carried out.  Inside an intercepted session it is never a parent  *)
(* proxy that gets the request.                                             *)
UpstreamMatches ==
  pc = "send" /\ ~cm.upfail =>
    /\ IF ismitm THEN up.to \in Dests ELSE up.to = Target(cm)
    /\ up.unread => lost

(* A request that is refused is answered by the refusal and by nothing of    *)
(* what the server sent; one that a story or the lists of banned addresses   *)
(* and rooms block is not even sent upstream.                               *)
RefusedIsRefused ==
  /\ "deny" \in Said => Said \cap {"head", "body", "part", "tunnel"} = {}
  /\ pc = "send" => ~cm.blocked

(* Content of a server reaches the client only if a story of the client's    *)
(* group has judged the request or the response, or the request is an        *)
(* exception (by its address, room, bypass, or as a demand for               *)
(* authentication by the parent proxy), or it is the parent proxy's own      *)
(* refusal of a CONNECT.                                                    *)
JudgedBeforeDelivered ==
  Said \cap {"body", "part", "tunnel"} # {} =>
    vetted \/ cm.exception \/ (cm.connect /\ cm.rest /\ resp.rc \notin {"none", "200"})

(* A request gets one answer, and the handler waits for another one only      *)
(* when it has, except at reporting level -1; requests that are refused, and  *)
(* those whose content the client gets, are logged, and none twice.          *)
AnsweredOnce ==
  /\ \A i, j \in DOMAIN sent : sent[i] \in Answers /\ sent[j] \in Answers => i = j
  /\ pc = "read" /\ ~firsttime => sent # <<>> \/ conf.fg[IF HasFG THEN filtergroup ELSE 0].stealth
  /\ logged <= 1
  /\ pc \in {"read", "closed"} /\ Said \cap {"deny", "body", "part", "tunnel"} # {} => logged = 1
=============================================================================
