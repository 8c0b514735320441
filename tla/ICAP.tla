-------------------------------- MODULE ICAP --------------------------------
(***************************************************************************)
(* handleICAPConnection: the loop that serves one connection of an ICAP     *)
(* client.  A REQMOD is judged from its URL and the verdict goes back in a   *)
(* header (X-ICAP-E2G) that the client returns with the RESPMOD of the same  *)
(* transaction, which says whether the content is still to be checked.       *)
(***************************************************************************)
EXTENDS Naturals, Sequences, FiniteSets, StoryPromise

CONSTANTS
  Groups,     \* the filter groups
  Confs,      \* the configurations of the groups
  NoCom       \* a message without X-ICAP-E2G

(* Per group: reporting level -1, scanners, contentscanexceptions, bypass.   *)
GroupOptions == [stealth : BOOLEAN, scan : BOOLEAN, scanexc : BOOLEAN, bypass : BOOLEAN]

ASSUME ConfsAssumption == Confs \subseteq [Groups -> GroupOptions]

(* The ICAP message: its service, and of the HTTP message in it what the     *)
(* handlers ask.  "other" is a method that is not one of its service.        *)
Services == {"reqmod", "respmod", "options", "other"}
MessageType == [svc : Services, connect : BOOLEAN, body : BOOLEAN, allow_204 : BOOLEAN]

(* X-ICAP-E2G: E(xception), G(rey), bY(pass), V(irus bypass), L(og only).    *)
ComType == [EBG : {"E", "G", "Y", "V", "L"}, group : Groups]

(* The bypass held by a request: a link in its URL, or the cookie.           *)
Bypasses == {"no", "link", "cookie", "virus"}

(* How the download of the content ended, if there was one.                  *)
Downloads == {"none", "all", "toobig", "short"}

CMType ==
  [exception : BOOLEAN, grey : BOOLEAN, blocked : BOOLEAN, naughty : BOOLEAN, redirect : BOOLEAN,
   logcat : BOOLEAN, nolog : BOOLEAN, bypass : Bypasses, noscan : BOOLEAN,
   checked : BOOLEAN, rest : BOOLEAN, download : Downloads]
Fresh ==
  [exception |-> FALSE, grey |-> FALSE, blocked |-> FALSE, naughty |-> FALSE, redirect |-> FALSE,
   logcat |-> FALSE, nolog |-> FALSE, bypass |-> "no", noscan |-> TRUE,
   checked |-> FALSE, rest |-> FALSE, download |-> "none"]

VARIABLES
  conf,         \* the configuration
  pc,           \* where the handler is
  ttg,          \* the process has been told to stop
  msg,          \* the message being served
  com,          \* the X-ICAP-E2G the client holds for its transaction
  filtergroup,  \* the group of the message
  cm,           \* checkme
  unread,       \* part of the message's body is still in the socket
  sent,         \* what the message has been answered with
  logged,       \* how often the message was logged
  stalled       \* a body was given up

vars == <<conf, pc, ttg, msg, com, filtergroup, cm, unread, sent, logged, stalled>>

FG == conf[filtergroup]

AgainAlways == pc' = "read"

(* while (... && !ttg)                                                       *)
Again == pc' = IF ttg THEN "closed" ELSE "read"

(* Reading the body to its end, with drainChunk or with loopChunk; a body    *)
(* that stalls or is malformed is given up, and the result is not looked at. *)
ReadBody(ok) ==
  /\ unread' = (unread /\ ~ok)
  /\ stalled' = (stalled \/ (unread /\ ~ok))

LeaveBody == UNCHANGED <<unread, stalled>>

Echoed(ok) == IF unread /\ ~ok THEN <<"echo", "open">> ELSE <<"echo">>

NoMessage == [svc |-> "other", connect |-> FALSE, body |-> FALSE, allow_204 |-> FALSE]

Init ==
  /\ conf \in Confs
  /\ pc = "read"
  /\ ttg = FALSE
  /\ msg = NoMessage
  /\ com = NoCom
  /\ filtergroup \in Groups
  /\ cm = Fresh
  /\ unread = FALSE
  /\ sent = <<>>
  /\ logged = 0
  /\ stalled = FALSE

(* The main thread ends the process.                                         *)
Stop ==
  /\ ~ttg
  /\ ttg' = TRUE
  /\ UNCHANGED <<conf, pc, msg, com, filtergroup, cm, unread, sent, logged, stalled>>

Served(m, answers) ==
  /\ msg' = m
  /\ unread' = (unread \/ m.body)
  /\ cm' = Fresh
  /\ sent' = answers
  /\ logged' = 0
  /\ pc' = "dispatch"
  /\ UNCHANGED <<conf, ttg, com, filtergroup>>

(* ICAPHeader::in reads a whole header.                                      *)
ReadMessage(m) ==
  /\ pc = "read"
  /\ ~unread
  /\ Served(m, <<>>)
  /\ UNCHANGED stalled

(* The client closed the connection, or what it sent is not a header: the    *)
(* rest of an earlier body never is one.                                     *)
NoHeader ==
  /\ pc = "read"
  /\ pc' = "closed"
  /\ UNCHANGED <<conf, ttg, msg, com, filtergroup, cm, unread, sent, logged, stalled>>

(* No header in time: 408 is written, and what came of it is served like a   *)
(* message, down to the encapsulated headers as far as they came; the flags  *)
(* that say that there is a body are only set after them.                    *)
HeaderTimeout(m) ==
  /\ pc = "read"
  /\ ~m.body
  /\ unread => m.svc = "other"
  /\ Served(m, <<"408">>)
  /\ UNCHANGED stalled

Said == {sent[i] : i \in DOMAIN sent}
Whole == "408" \notin Said

(* OPTIONS is answered; a method that is not of the service is refused.      *)
AnswerOptions ==
  /\ pc = "dispatch"
  /\ msg.svc = "options"
  /\ sent' = Append(sent, "options")
  /\ Again
  /\ LeaveBody
  /\ UNCHANGED <<conf, ttg, msg, com, filtergroup, cm, logged>>

BadRequest ==
  /\ pc = "dispatch"
  /\ msg.svc = "other"
  /\ sent' = Append(sent, "error")
  /\ Again
  /\ LeaveBody
  /\ UNCHANGED <<conf, ttg, msg, com, filtergroup, cm, logged>>

-----------------------------------------------------------------------------
(* handleICAPreqmod                                                          *)

(* A URL that is malformed, as that of a request whose header never came is. *)
Malformed(ok) ==
  /\ pc = "dispatch"
  /\ msg.svc = "reqmod"
  /\ sent' = Append(sent, "error")
  /\ ReadBody(ok)
  /\ Again
  /\ UNCHANGED <<conf, ttg, msg, com, filtergroup, cm, logged>>

(* The pre-authentication story of an ICAP request.                          *)
PreAuthSays ==
  {Fresh, [Fresh EXCEPT !.exception = TRUE], [Fresh EXCEPT !.blocked = TRUE, !.naughty = TRUE]}

(* checkByPass: a link or a cookie makes the request an exception.           *)
BypassSays(g, c) ==
  IF msg.connect \/ ~conf[g].bypass THEN {c}
  ELSE {c} \cup {[c EXCEPT !.bypass = b, !.exception = TRUE] : b \in Bypasses \ {"no"}}

Reported(g, c) ==
  IF conf[g].stealth THEN [c EXCEPT !.naughty = FALSE, !.blocked = FALSE]
  ELSE [c EXCEPT !.naughty = c.blocked]

RequestStory(g, c) ==
  IF c.blocked \/ c.exception THEN {c} ELSE {Reported(g, d) : d \in ReqmodVerdicts(~msg.connect, c)}

(* The group of the user or the default one, which exists, the               *)
(* pre-authentication story, the bypass, and the story of the group.         *)
JudgeRequest(g) ==
  /\ pc = "dispatch"
  /\ msg.svc = "reqmod"
  /\ filtergroup' = g
  /\ \E p \in PreAuthSays : \E b \in BypassSays(g, p) : cm' \in RequestStory(g, b)
  /\ pc' = "reqmod"
  /\ UNCHANGED <<conf, ttg, msg, com, unread, sent, logged, stalled>>

(* A file that a scanner kept is sent, and logged.                           *)
SendScanFile(g) ==
  /\ pc = "dispatch"
  /\ msg.svc = "reqmod"
  /\ ~msg.connect
  /\ conf[g].bypass
  /\ filtergroup' = g
  /\ sent' = Append(sent, "page")
  /\ logged' = logged + 1
  /\ com' = NoCom
  /\ LeaveBody
  /\ Again
  /\ UNCHANGED <<conf, ttg, msg, cm>>

(* doLog, which a story may have switched off.                               *)
Logged(c) == logged' = IF c.nolog THEN logged ELSE logged + 1

(* A bypass link is answered with the cookie that will stand for it.         *)
SendBypassCookie ==
  /\ pc = "reqmod"
  /\ cm.bypass = "link"
  /\ sent' = Append(sent, "redirect")
  /\ com' = NoCom
  /\ LeaveBody
  /\ Again
  /\ UNCHANGED <<conf, ttg, msg, filtergroup, cm, logged>>

Code(c) ==
  CASE c.bypass = "virus" -> "V"
    [] c.bypass = "cookie" -> "Y"
    [] c.bypass = "no" /\ c.logcat -> "L"
    [] OTHER -> "E"

PassRequestUndrained(ok) ==
  /\ pc = "reqmod"
  /\ cm.bypass # "link"
  /\ cm.exception \/ cm.logcat
  /\ com' = [EBG |-> Code(cm), group |-> filtergroup]
  /\ sent' = Append(sent, IF msg.allow_204 THEN "204" ELSE "echo")
  /\ LeaveBody
  /\ Logged(cm)
  /\ Again
  /\ UNCHANGED <<conf, ttg, msg, filtergroup, cm>>

PassRequestNotDone(ok) ==
  /\ pc = "reqmod"
  /\ cm.bypass # "link"
  /\ cm.exception \/ cm.logcat
  /\ com' = [EBG |-> "G", group |-> filtergroup]
  /\ sent' = sent \o <<"204">> \o Echoed(ok)
  /\ ReadBody(ok)
  /\ Logged(cm)
  /\ Again
  /\ UNCHANGED <<conf, ttg, msg, filtergroup, cm>>

(* An exception, and a request that is only logged, go on unchanged.         *)
PassRequest(ok) ==
  /\ pc = "reqmod"
  /\ cm.bypass # "link"
  /\ cm.exception \/ cm.logcat
  /\ com' = [EBG |-> Code(cm), group |-> filtergroup]
  /\ sent' = sent \o IF msg.allow_204 THEN <<"204">> ELSE Echoed(ok)
  /\ ReadBody(ok)
  /\ Logged(cm)
  /\ Again
  /\ UNCHANGED <<conf, ttg, msg, filtergroup, cm>>

Redirect(ok) ==
  /\ pc = "reqmod"
  /\ cm.redirect
  /\ com' = NoCom
  /\ sent' = Append(sent, "redirect")
  /\ ReadBody(ok)
  /\ Logged(cm)
  /\ Again
  /\ UNCHANGED <<conf, ttg, msg, filtergroup, cm>>

(* Search terms are looked for in the phrase lists.                          *)
SearchSays(c) == IF c.grey THEN {c, [c EXCEPT !.naughty = TRUE]} ELSE {c}

(* genDenyAccess at reporting level -1 writes nothing, except to a CONNECT,  *)
(* and forgets that the request was refused.                                 *)
Silent(c) == c.naughty /\ FG.stealth /\ ~msg.connect

(* What is left is refused, or goes on to have its content checked.          *)
AnswerRequest(ok) ==
  /\ pc = "reqmod"
  /\ ~cm.exception /\ ~cm.logcat /\ ~cm.redirect
  /\ \E c \in SearchSays(cm) :
       LET deny == c.naughty /\ ~Silent(c)
       IN /\ sent' = sent \o IF deny THEN <<"deny">> ELSE Echoed(ok)
          /\ com' = IF deny THEN NoCom ELSE [EBG |-> "G", group |-> filtergroup]
          /\ cm' = [c EXCEPT !.naughty = deny]
          /\ Logged(c)
  /\ ReadBody(ok)
  /\ Again
  /\ UNCHANGED <<conf, ttg, msg, filtergroup>>

-----------------------------------------------------------------------------
(* handleICAPresmod                                                          *)

(* A response whose X-ICAP-E2G the client did not return ends the connection. *)
NoComposition ==
  /\ pc = "dispatch"
  /\ msg.svc = "respmod"
  /\ sent' = Append(sent, "error")
  /\ pc' = "closed"
  /\ UNCHANGED <<conf, ttg, msg, com, filtergroup, cm, unread, logged, stalled>>

Carried(k) ==
  [Fresh EXCEPT !.exception = k.EBG # "G", !.grey = k.EBG = "G", !.logcat = k.EBG = "L",
                !.bypass = CASE k.EBG = "V" -> "virus" [] k.EBG = "Y" -> "cookie" [] OTHER -> "no"]

(* noviruscheck is on unless there is content that a scanner may see.        *)
SetNoScan(g, c) ==
  [c EXCEPT !.noscan = ~(/\ msg.body
                         /\ conf[g].scan
                         /\ c.exception => conf[g].scanexc
                         /\ c.bypass # "virus")]

ResponseStory(g, c) ==
  IF c.exception /\ c.noscan THEN {c} ELSE {Reported(g, d) : d \in RespmodVerdicts(c)}

(* contentscanexceptions decides for every exception, whatever was set.      *)
ScanExceptions(g, c) == IF c.exception THEN [c EXCEPT !.noscan = ~conf[g].scanexc] ELSE c

JudgeResponse ==
  /\ pc = "dispatch"
  /\ msg.svc = "respmod"
  /\ com # NoCom
  /\ filtergroup' = com.group
  /\ \E c \in ResponseStory(com.group, SetNoScan(com.group, Carried(com))) :
       cm' = ScanExceptions(com.group, c)
  /\ pc' = "respmod"
  /\ UNCHANGED <<conf, ttg, msg, com, unread, sent, logged, stalled>>

ExemptEither(c) == c.exception \/ c.noscan \/ ~msg.body

Exempt(c) == (c.exception /\ c.noscan) \/ ~msg.body

(* Exceptions that are not scanned, and responses without a body.            *)
PassResponse(ok) ==
  /\ pc = "respmod"
  /\ Exempt(cm)
  /\ sent' = sent \o IF msg.allow_204 THEN <<"204">> ELSE Echoed(ok)
  /\ ReadBody(ok)
  /\ pc' = "finish"
  /\ UNCHANGED <<conf, ttg, msg, com, filtergroup, cm, logged>>

(* check_content: scanners or, for text that is no exception, the phrase     *)
(* filter want the content; otherwise it is passed on.                       *)
Contents(c) ==
  {[c EXCEPT !.rest = TRUE]}
  \cup IF c.noscan /\ c.exception THEN {}
       ELSE {[c EXCEPT !.checked = TRUE, !.naughty = n] : n \in BOOLEAN}

CheckResponse(download) ==
  /\ pc = "respmod"
  /\ ~Exempt(cm) /\ ~cm.naughty
  /\ \E c \in Contents(cm) :
       /\ c.checked <=> download # "none"
       /\ cm' = [c EXCEPT !.download = download]
  /\ unread' = (download # "all")
  /\ pc' = "answer"
  /\ UNCHANGED <<conf, ttg, msg, com, filtergroup, sent, logged, stalled>>

(* What the story blocked is not looked into.                                *)
SkipCheck ==
  /\ pc = "respmod"
  /\ ~Exempt(cm) /\ cm.naughty
  /\ pc' = "finish"
  /\ UNCHANGED <<conf, ttg, msg, com, filtergroup, cm, unread, sent, logged, stalled>>

(* The header, what was read of the content, and the rest of it if the       *)
(* content was too large or was not looked into.  A download that stopped    *)
(* short is sent as it is.                                                   *)
AnswerResponse(ok) ==
  /\ pc = "answer"
  /\ ~cm.naughty
  /\ sent' = sent \o IF cm.rest THEN Echoed(ok)
                     ELSE IF unread /\ ~ok THEN <<"checked", "open">> ELSE <<"checked">>
  /\ ReadBody(ok /\ cm.download # "short")
  /\ pc' = "finish"
  /\ UNCHANGED <<conf, ttg, msg, com, filtergroup, cm, logged>>

RefuseContent ==
  /\ pc = "answer"
  /\ cm.naughty
  /\ pc' = "finish"
  /\ UNCHANGED <<conf, ttg, msg, com, filtergroup, cm, unread, sent, logged, stalled>>

(* A response that was refused is answered with the page that says so, is    *)
(* logged, and ends the connection.                                          *)
FinishResponse(ok) ==
  /\ pc = "finish"
  /\ LET deny == cm.naughty /\ ~Silent(cm)
     IN /\ sent' = IF deny THEN Append(sent, "deny") ELSE sent
        /\ logged' = IF deny THEN logged + 1 ELSE logged
        /\ IF deny THEN ReadBody(ok) ELSE LeaveBody
        /\ cm' = [cm EXCEPT !.naughty = deny]
        /\ IF cm.naughty THEN pc' = "closed" ELSE Again
  /\ com' = NoCom
  /\ UNCHANGED <<conf, ttg, msg, filtergroup>>

Over == pc = "closed" /\ UNCHANGED vars

Handler ==
  \/ \E m \in MessageType : ReadMessage(m)
  \/ NoHeader
  \/ \E m \in MessageType : HeaderTimeout(m)
  \/ AnswerOptions
  \/ BadRequest
  \/ \E ok \in BOOLEAN : Malformed(ok)
  \/ \E g \in Groups : JudgeRequest(g)
  \/ \E g \in Groups : SendScanFile(g)
  \/ SendBypassCookie
  \/ \E ok \in BOOLEAN : PassRequest(ok)
  \/ \E ok \in BOOLEAN : Redirect(ok)
  \/ \E ok \in BOOLEAN : AnswerRequest(ok)
  \/ NoComposition
  \/ JudgeResponse
  \/ \E ok \in BOOLEAN : PassResponse(ok)
  \/ \E download \in Downloads : CheckResponse(download)
  \/ SkipCheck
  \/ \E ok \in BOOLEAN : AnswerResponse(ok)
  \/ RefuseContent
  \/ \E ok \in BOOLEAN : FinishResponse(ok)

Next == Stop \/ Handler \/ Over

(* The handler's thread runs on, and no read waits longer than its timeout.  *)
Spec == Init /\ [][Next]_vars /\ WF_vars(Handler)

-----------------------------------------------------------------------------
Tokens == {"408", "options", "error", "page", "redirect", "204", "echo", "checked", "open", "deny"}

(* The variables hold what the handler's variables can.                      *)
TypeOK ==
  /\ conf \in Confs
  /\ pc \in {"read", "dispatch", "reqmod", "respmod", "answer", "finish", "closed"}
  /\ ttg \in BOOLEAN
  /\ msg \in MessageType
  /\ com \in ComType \cup {NoCom}
  /\ filtergroup \in Groups
  /\ cm \in CMType
  /\ unread \in BOOLEAN
  /\ sent \in Seq(Tokens)
  /\ logged \in Nat
  /\ stalled \in BOOLEAN

(* When the next header is read, the body of the message before it has been  *)
(* read and the answer to it is complete, unless a body stalled: on every    *)
(* path through the two handlers there is a drainChunk or a loopChunk, but   *)
(* for the answers that are not about the message's content (a bypass link,  *)
(* a file that was kept for the client, a method that is not served).        *)
Synchronised ==
  pc = "read" /\ ~stalled =>
    /\ "open" \notin Said
    /\ unread => cm.bypass = "link" \/ "page" \in Said \/ msg.svc \in {"options", "other"}

(* A message whose header was read gets one answer, none is logged twice,    *)
(* and a response that was refused is logged.  A RESPMOD without a body is   *)
(* the exception: it is answered before the verdict is looked at.            *)
OneAnswer ==
  /\ Whole /\ (msg.svc = "respmod" => msg.body) =>
       Cardinality({i \in DOMAIN sent : sent[i] # "open"}) <= 1
  /\ logged <= 1
  /\ msg.svc = "respmod" /\ "deny" \in Said => logged = 1

(* The content of a response goes to the client without having been offered  *)
(* to the scanners and the phrase filter only if it is an exception and      *)
(* exceptions are not scanned, or if check_content did not want it: across   *)
(* the two messages of the transaction and the two stories.                  *)
ContentIsOffered ==
  pc = "finish" /\ msg.body /\ Said \cap {"204", "echo"} # {} =>
    cm.rest \/ (cm.exception /\ ~FG.scanexc)

(* Once the process is told to stop the connection is closed: each round of  *)
(* the loop ends, and the next one does not start.                           *)
StopEnds == ttg ~> pc = "closed"
=============================================================================
