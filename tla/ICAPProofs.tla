----------------------------- MODULE ICAPProofs -----------------------------
(***************************************************************************)
(* Proofs about the ICAP handlers, for any groups and configurations: the    *)
(* stream stays synchronised, and content is offered to the checks that the  *)
(* verdict of the REQMOD, the group and the response story ask for.          *)
(***************************************************************************)
EXTENDS ICAP, SequenceTheorems, FiniteSetTheorems, TLAPS

Steps == {"read", "dispatch", "reqmod", "respmod", "answer", "finish", "closed"}

(* Before a handler answers, nothing but a 408 has been sent.               *)
Unanswered == sent \in {<<>>, <<"408">>}

(* After ReadBody, what is unread or unfinished is so because of a stall.    *)
Settled == ~stalled => ~unread /\ "open" \notin Said

Types ==
  /\ conf \in [Groups -> GroupOptions]
  /\ pc \in Steps
  /\ msg \in MessageType
  /\ com \in ComType \cup {NoCom}
  /\ filtergroup \in Groups
  /\ cm \in CMType
  /\ unread \in BOOLEAN
  /\ stalled \in BOOLEAN
  /\ sent \in Seq(Tokens)

(* Exceptions are scanned if and only if the group says so.                  *)
ScanDecided == cm.exception => cm.noscan = ~FG.scanexc

IInv ==
  /\ Types
  /\ pc \in {"dispatch", "reqmod", "respmod", "answer"} => Unanswered
  /\ pc \in {"respmod", "answer", "finish"} => ScanDecided
  /\ pc = "finish" /\ ~cm.naughty => Settled
  /\ Synchronised
  /\ ContentIsOffered

-----------------------------------------------------------------------------
(* The flags of a message are flags after each of the operators that set     *)
(* them.                                                                     *)
LEMMA FreshType == Fresh \in CMType
  BY Zenon DEF Fresh, CMType, Bypasses, Downloads

LEMMA PreAuthType == ASSUME NEW c \in PreAuthSays PROVE c \in CMType
  BY FreshType, Zenon DEF PreAuthSays, CMType

LEMMA BypassType ==
  ASSUME NEW g, NEW c \in CMType, NEW d \in BypassSays(g, c) PROVE d \in CMType
<1>1. ASSUME NEW b \in Bypasses PROVE [c EXCEPT !.bypass = b, !.exception = TRUE] \in CMType
  BY <1>1, Zenon DEF CMType
<1>2. d = c \/ \E b \in Bypasses : d = [c EXCEPT !.bypass = b, !.exception = TRUE]
  BY Zenon DEF BypassSays
<1> QED
  BY <1>1, <1>2, Zenon

LEMMA ReportedType ==
  ASSUME NEW g, NEW c \in CMType PROVE Reported(g, c) \in CMType
  BY Zenon DEF Reported, CMType

LEMMA VerdictsType ==
  ASSUME NEW c \in CMType, NEW q \in BOOLEAN, NEW d \in ReqmodVerdicts(q, c) PROVE d \in CMType
<1>1. ASSUME NEW n \in BOOLEAN
      PROVE  /\ [c EXCEPT !.exception = TRUE, !.nolog = n] \in CMType
             /\ [c EXCEPT !.grey = n, !.nolog = n] \in CMType
             /\ [c EXCEPT !.grey = TRUE, !.logcat = TRUE, !.nolog = n] \in CMType
  BY <1>1, Zenon DEF CMType
<1>2. [c EXCEPT !.blocked = TRUE] \in CMType /\ [c EXCEPT !.redirect = TRUE] \in CMType
  BY Zenon DEF CMType
<1>3. \/ d = [c EXCEPT !.blocked = TRUE]
      \/ d = [c EXCEPT !.redirect = TRUE]
      \/ d = [c EXCEPT !.exception = TRUE, !.nolog = q]
      \/ d = [c EXCEPT !.grey = q, !.nolog = q]
      \/ \E n \in {FALSE, q} : d = [c EXCEPT !.grey = TRUE, !.logcat = TRUE, !.nolog = n]
  BY Zenon DEF ReqmodVerdicts
<1> QED
  BY <1>1, <1>2, <1>3, Zenon

LEMMA StoryType ==
  ASSUME NEW g, NEW c \in CMType, msg \in MessageType, NEW d \in RequestStory(g, c) PROVE d \in CMType
<1>1. (~msg.connect) \in BOOLEAN
  BY Zenon
<1> QED
  BY <1>1, ReportedType, VerdictsType, Zenon DEF RequestStory

LEMMA SearchType ==
  ASSUME NEW c \in CMType, NEW d \in SearchSays(c) PROVE d \in CMType
  BY Zenon DEF SearchSays, CMType

LEMMA CarriedType == ASSUME NEW k \in ComType PROVE Carried(k) \in CMType
<1> DEFINE e == k.EBG # "G"
           g == k.EBG = "G"
           l == k.EBG = "L"
           b == CASE k.EBG = "V" -> "virus" [] k.EBG = "Y" -> "cookie" [] OTHER -> "no"
<1>1. b \in Bypasses
  <2>1. CASE k.EBG = "V"
    BY <2>1, Zenon DEF Bypasses
  <2>2. CASE k.EBG = "Y"
    BY <2>2, Zenon DEF Bypasses
  <2>3. CASE k.EBG # "V" /\ k.EBG # "Y"
    BY <2>3, Zenon DEF Bypasses
  <2> QED
    BY <2>1, <2>2, <2>3, Zenon
<1>2. e \in BOOLEAN /\ g \in BOOLEAN /\ l \in BOOLEAN
  BY Zenon
<1>3. Carried(k) = [Fresh EXCEPT !.exception = e, !.grey = g, !.logcat = l, !.bypass = b]
  BY Zenon DEF Carried
<1> HIDE DEF e, g, l, b
<1>4. ASSUME NEW c \in CMType
      PROVE  [c EXCEPT !.exception = e, !.grey = g, !.logcat = l, !.bypass = b] \in CMType
  BY <1>1, <1>2, Zenon DEF CMType
<1> QED
  BY <1>3, <1>4, FreshType, Zenon

LEMMA SetNoScanType ==
  ASSUME NEW g, NEW c \in CMType PROVE SetNoScan(g, c) \in CMType
  BY Zenon DEF SetNoScan, CMType

LEMMA ResponseVerdictsType ==
  ASSUME NEW c \in CMType, NEW d \in RespmodVerdicts(c) PROVE d \in CMType
<1>1. [c EXCEPT !.noscan = TRUE] \in CMType
  BY Zenon DEF CMType
<1>2. [c EXCEPT !.blocked = TRUE, !.grey = FALSE] \in CMType
  BY Zenon DEF CMType
<1>3. [c EXCEPT !.blocked = TRUE, !.grey = FALSE, !.noscan = TRUE] \in CMType
  BY Zenon DEF CMType
<1>4. [c EXCEPT !.exception = TRUE, !.grey = FALSE] \in CMType
  BY Zenon DEF CMType
<1> QED
  BY <1>1, <1>2, <1>3, <1>4, Zenon DEF RespmodVerdicts

LEMMA ResponseStoryType ==
  ASSUME NEW g, NEW c \in CMType, NEW d \in ResponseStory(g, c) PROVE d \in CMType
  BY ReportedType, ResponseVerdictsType, Zenon DEF ResponseStory

(* What ScanExceptions decides, it decides for every exception.              *)
LEMMA ScanExceptionsDecides ==
  ASSUME NEW g, NEW c \in CMType
  PROVE  /\ ScanExceptions(g, c) \in CMType
         /\ ScanExceptions(g, c).exception => ScanExceptions(g, c).noscan = ~conf[g].scanexc
  BY Zenon DEF ScanExceptions, CMType

(* check_content does not change who is an exception or what is scanned.     *)
LEMMA ContentsType ==
  ASSUME NEW c \in CMType, NEW d \in Contents(c)
  PROVE  d \in CMType /\ d.exception = c.exception /\ d.noscan = c.noscan
<1> DEFINE Kept(e) == e \in CMType /\ e.exception = c.exception /\ e.noscan = c.noscan
<1>1. Kept([c EXCEPT !.rest = TRUE])
  BY Zenon DEF CMType
<1>2. ASSUME NEW n \in BOOLEAN PROVE Kept([c EXCEPT !.checked = TRUE, !.naughty = n])
  BY Zenon DEF CMType
<1>3. d = [c EXCEPT !.rest = TRUE] \/ \E n \in BOOLEAN : d = [c EXCEPT !.checked = TRUE, !.naughty = n]
  BY Zenon DEF Contents
<1> QED
  BY <1>1, <1>2, <1>3, Zenon

LEMMA CodeType ==
  ASSUME NEW c \in CMType PROVE Code(c) \in {"E", "G", "Y", "V", "L"}
<1>1. c.bypass = "virus" => Code(c) = "V"
  BY Zenon DEF Code
<1>2. c.bypass = "cookie" => Code(c) = "Y"
  BY Zenon DEF Code
<1>3. c.bypass = "no" => Code(c) \in {"L", "E"}
  BY Zenon DEF Code
<1>4. c.bypass = "link" => Code(c) = "E"
  BY Zenon DEF Code
<1> QED
  BY <1>1, <1>2, <1>3, <1>4, Zenon DEF CMType, Bypasses

-----------------------------------------------------------------------------
(* Reading a body settles the stream, whether the body came or not.          *)
LEMMA ReadBodySettles ==
  ASSUME Types, NEW ok \in BOOLEAN, ReadBody(ok), sent' \in Seq(Tokens),
         "open" \in Said' => unread /\ ~ok
  PROVE  Settled' /\ unread' \in BOOLEAN /\ stalled' \in BOOLEAN
  BY Zenon DEF ReadBody, Settled, Types

(* What an echo of the message consists of.                                  *)
LEMMA EchoedIs ==
  ASSUME NEW ok \in BOOLEAN
  PROVE  Echoed(ok) = <<"echo">> \/ (Echoed(ok) = <<"echo", "open">> /\ unread /\ ~ok)
  BY Zenon DEF Echoed

(* What is said after tokens were added.                                     *)
LEMMA Added ==
  ASSUME sent \in Seq(Tokens), NEW s \in Seq(Tokens), sent' = sent \o s
  PROVE  /\ sent' \in Seq(Tokens)
         /\ \A x \in Said' : x \in Said \/ \E i \in DOMAIN s : x = s[i]
<1>1. /\ sent' \in Seq(Tokens)
      /\ Len(sent') = Len(sent) + Len(s)
      /\ \A i \in 1 .. Len(sent) + Len(s) : sent'[i] = IF i <= Len(sent) THEN sent[i] ELSE s[i - Len(sent)]
  BY ConcatProperties, Zenon
<1>2. ASSUME NEW i \in DOMAIN sent'
      PROVE  sent'[i] \in Said \/ \E j \in DOMAIN s : sent'[i] = s[j]
  <2>1. CASE i <= Len(sent)
    BY <1>1, <2>1 DEF Said
  <2>2. CASE i > Len(sent)
    <3>1. i - Len(sent) \in DOMAIN s
      BY <1>1, <2>2
    <3> QED
      BY <1>1, <2>2, <3>1
  <2> QED
    BY <1>1, <2>1, <2>2
<1> QED
  BY <1>1, <1>2 DEF Said

(* An answer to a message that had no answer yet.                            *)
LEMMA OneToken ==
  ASSUME sent \in Seq(Tokens), Unanswered, NEW t \in Tokens, sent' = sent \o <<t>> \/ sent' = Append(sent, t)
  PROVE  sent' \in Seq(Tokens) /\ Said' \subseteq {"408", t} /\ t \in Said'
  BY DEF Unanswered, Said, Tokens

LEMMA TwoTokens ==
  ASSUME sent \in Seq(Tokens), Unanswered, NEW t \in Tokens, NEW u \in Tokens, sent' = sent \o <<t, u>>
  PROVE  sent' \in Seq(Tokens) /\ Said' \subseteq {"408", t, u}
<1>1. <<t, u>> \in Seq(Tokens) /\ \A i \in DOMAIN <<t, u>> : <<t, u>>[i] \in {t, u}
  OBVIOUS
<1>2. Said \subseteq {"408"}
  BY DEF Unanswered, Said
<1> QED
  BY <1>1, <1>2, Added, ZenonT(60)

-----------------------------------------------------------------------------
(* A handler that has answered and read the body goes back to the loop.      *)
LEMMA BackToLoop ==
  ASSUME Types', Settled', pc' \in {"read", "closed"}
  PROVE  IInv'
  BY Zenon DEF IInv, Settled, Synchronised, ContentIsOffered

(* The messages that are served before any handler.                          *)
LEMMA ServedKeeps ==
  ASSUME IInv, NEW m \in MessageType, NEW s \in {<<>>, <<"408">>}, Served(m, s), UNCHANGED stalled
  PROVE  IInv'
<1>1. Types'
  <2>1. sent' \in Seq(Tokens) /\ pc' \in Steps
    <3>1. <<"408">> \in Seq(Tokens) /\ <<>> \in Seq(Tokens)
      BY DEF Tokens
    <3>2. sent' = s /\ pc' = "dispatch"
      BY Zenon DEF Served
    <3> QED
      BY <3>1, <3>2, Zenon DEF Steps
  <2>2. cm' \in CMType /\ msg' \in MessageType
    BY FreshType, Zenon DEF Served
  <2>3. unread' \in BOOLEAN
    BY Zenon DEF Served
  <2> QED
    BY <2>1, <2>2, <2>3, Zenon DEF IInv, Types, Served
<1>2. Unanswered' /\ pc' = "dispatch"
  BY Zenon DEF Served, Unanswered
<1> QED
  BY <1>1, <1>2, Zenon DEF IInv, Synchronised, ContentIsOffered

LEMMA InitHolds == Init => IInv
<1> SUFFICES ASSUME Init PROVE IInv
  BY Zenon
<1>1. Types
  <2>1. msg \in MessageType
    BY Zenon DEF Init, NoMessage, MessageType, Services
  <2>2. cm \in CMType /\ conf \in [Groups -> GroupOptions] /\ pc \in Steps /\ sent \in Seq(Tokens)
    BY FreshType, ConfsAssumption DEF Init, Steps
  <2> QED
    BY <2>1, <2>2, Zenon DEF Init, Types
<1>2. Settled /\ pc = "read"
  BY DEF Init, Settled, Said
<1> QED
  BY <1>1, <1>2, Zenon DEF IInv, Settled, Synchronised, ContentIsOffered

LEMMA StutterKeeps == IInv /\ UNCHANGED vars => IInv'
<1> SUFFICES ASSUME IInv, UNCHANGED vars PROVE IInv'
  BY Zenon
<1>1. Types' /\ (Unanswered' <=> Unanswered) /\ (ScanDecided' <=> ScanDecided) /\ (Settled' <=> Settled)
  BY Zenon DEF IInv, Types, vars, Unanswered, ScanDecided, FG, Settled, Said
<1>2. Synchronised' /\ ContentIsOffered'
  BY Zenon DEF IInv, vars, Synchronised, ContentIsOffered, Said, FG
<1> QED
  BY <1>1, <1>2, Zenon DEF IInv, vars

-----------------------------------------------------------------------------
(* The steps that end a message before or in handleICAPreqmod.               *)
LEMMA DispatchKeeps ==
  ASSUME IInv, AnswerOptions \/ BadRequest
  PROVE  IInv'
<1>1. pc = "dispatch" /\ msg.svc \in {"options", "other"} /\ msg' = msg /\ pc' \in {"read", "closed"}
  BY Zenon DEF AnswerOptions, BadRequest, Again
<1>2. PICK t \in {"options", "error"} : sent' = Append(sent, t)
  BY Zenon DEF AnswerOptions, BadRequest
<1>3. sent' \in Seq(Tokens) /\ "open" \notin Said'
  BY <1>1, <1>2, OneToken, Zenon DEF IInv, Types, Tokens
<1>4. Types'
  BY <1>1, <1>3, Zenon DEF IInv, Types, AnswerOptions, BadRequest, LeaveBody, Steps
<1> QED
  BY <1>1, <1>3, <1>4, Zenon DEF IInv, Synchronised, ContentIsOffered

LEMMA MalformedKeeps ==
  ASSUME IInv, NEW ok \in BOOLEAN, Malformed(ok)
  PROVE  IInv'
<1>1. pc = "dispatch" /\ pc' \in {"read", "closed"} /\ sent' = Append(sent, "error")
  BY Zenon DEF Malformed, Again
<1>2. sent' \in Seq(Tokens) /\ "open" \notin Said'
  BY <1>1, OneToken, Zenon DEF IInv, Types, Tokens
<1>3. Settled' /\ unread' \in BOOLEAN /\ stalled' \in BOOLEAN
  BY <1>2, ReadBodySettles, Zenon DEF IInv, Malformed
<1>4. Types'
  BY <1>1, <1>2, <1>3, Zenon DEF IInv, Types, Malformed, Steps
<1> QED
  BY <1>1, <1>3, <1>4, BackToLoop, Zenon

LEMMA JudgeRequestKeeps ==
  ASSUME IInv, NEW g \in Groups, JudgeRequest(g)
  PROVE  IInv'
<1>1. cm' \in CMType
  <2>1. PICK p \in PreAuthSays : \E b \in BypassSays(g, p) : cm' \in RequestStory(g, b)
    BY Zenon DEF JudgeRequest
  <2>2. PICK b \in BypassSays(g, p) : cm' \in RequestStory(g, b)
    BY <2>1, Zenon
  <2>3. b \in CMType
    BY PreAuthType, BypassType, Zenon
  <2> QED
    BY <2>2, <2>3, StoryType, Zenon DEF IInv, Types
<1>2. Types'
  BY <1>1, Zenon DEF IInv, Types, JudgeRequest, Steps
<1>3. Unanswered' /\ pc' = "reqmod"
  BY Zenon DEF IInv, JudgeRequest, Unanswered
<1> QED
  BY <1>2, <1>3, Zenon DEF IInv, Synchronised, ContentIsOffered

(* The file goes to the client and the body of the request is not looked at. *)
LEMMA SendScanFileKeeps ==
  ASSUME IInv, NEW g \in Groups, SendScanFile(g)
  PROVE  IInv'
<1>1. pc = "dispatch" /\ pc' \in {"read", "closed"} /\ sent' = Append(sent, "page")
  BY Zenon DEF SendScanFile, Again
<1>2. sent' \in Seq(Tokens) /\ "open" \notin Said' /\ "page" \in Said'
  BY <1>1, OneToken, Zenon DEF IInv, Types, Tokens
<1>3. Types'
  BY <1>1, <1>2, Zenon DEF IInv, Types, SendScanFile, LeaveBody, Steps
<1> QED
  BY <1>1, <1>2, <1>3, Zenon DEF IInv, Synchronised, ContentIsOffered

LEMMA SendBypassCookieKeeps ==
  ASSUME IInv, SendBypassCookie
  PROVE  IInv'
<1>1. /\ pc = "reqmod" /\ pc' \in {"read", "closed"} /\ sent' = Append(sent, "redirect")
      /\ cm' = cm /\ cm.bypass = "link"
  BY Zenon DEF SendBypassCookie, Again
<1>2. sent' \in Seq(Tokens) /\ "open" \notin Said'
  BY <1>1, OneToken, Zenon DEF IInv, Types, Tokens
<1>3. Types'
  BY <1>1, <1>2, Zenon DEF IInv, Types, SendBypassCookie, LeaveBody, Steps
<1> QED
  BY <1>1, <1>2, <1>3, Zenon DEF IInv, Synchronised, ContentIsOffered

(* An echo, or one token, after the body was read.                           *)
LEMMA AnswerSettles ==
  ASSUME IInv, Unanswered, NEW ok \in BOOLEAN, ReadBody(ok),
         (\E t \in Tokens \ {"open"} : sent' = sent \o <<t>>) \/ sent' = sent \o Echoed(ok)
  PROVE  sent' \in Seq(Tokens) /\ Settled' /\ unread' \in BOOLEAN /\ stalled' \in BOOLEAN
<1>1. CASE \E t \in Tokens \ {"open"} : sent' = sent \o <<t>>
  <2>1. PICK t \in Tokens \ {"open"} : sent' = sent \o <<t>>
    BY <1>1, Zenon
  <2>2. sent' \in Seq(Tokens) /\ "open" \notin Said'
    BY <2>1, OneToken, Zenon DEF IInv, Types
  <2> QED
    BY <2>2, ReadBodySettles, Zenon DEF IInv
<1>2. CASE sent' = sent \o <<"echo", "open">> /\ unread /\ ~ok
  <2>1. sent' \in Seq(Tokens)
    BY <1>2, TwoTokens, Zenon DEF IInv, Types, Tokens
  <2> QED
    BY <1>2, <2>1, ReadBodySettles, Zenon DEF IInv
<1> QED
  BY <1>1, <1>2, EchoedIs, Zenon DEF Tokens

LEMMA PassRequestKeeps ==
  ASSUME IInv, NEW ok \in BOOLEAN, PassRequest(ok)
  PROVE  IInv'
<1>1. /\ pc = "reqmod" /\ pc' \in {"read", "closed"} /\ ReadBody(ok)
      /\ com' = [EBG |-> Code(cm), group |-> filtergroup]
  BY Zenon DEF PassRequest, Again
<1>2. sent' = sent \o <<"204">> \/ sent' = sent \o Echoed(ok)
  BY Zenon DEF PassRequest
<1>3. sent' \in Seq(Tokens) /\ Settled' /\ unread' \in BOOLEAN /\ stalled' \in BOOLEAN
  BY <1>1, <1>2, AnswerSettles, Zenon DEF IInv, Tokens
<1>4. com' \in ComType
  BY <1>1, CodeType, Zenon DEF IInv, Types, ComType
<1>5. Types'
  BY <1>1, <1>3, <1>4, Zenon DEF IInv, Types, PassRequest, Steps
<1> QED
  BY <1>1, <1>3, <1>5, BackToLoop, Zenon

LEMMA RedirectKeeps ==
  ASSUME IInv, NEW ok \in BOOLEAN, Redirect(ok)
  PROVE  IInv'
<1>1. pc = "reqmod" /\ pc' \in {"read", "closed"} /\ ReadBody(ok) /\ sent' = Append(sent, "redirect")
  BY Zenon DEF Redirect, Again
<1>2. sent' \in Seq(Tokens) /\ "open" \notin Said'
  BY <1>1, OneToken, Zenon DEF IInv, Types, Tokens
<1>3. Settled' /\ unread' \in BOOLEAN /\ stalled' \in BOOLEAN
  BY <1>1, <1>2, ReadBodySettles, Zenon DEF IInv
<1>4. Types'
  BY <1>1, <1>2, <1>3, Zenon DEF IInv, Types, Redirect, Steps
<1> QED
  BY <1>1, <1>3, <1>4, BackToLoop, Zenon

LEMMA AnswerRequestKeeps ==
  ASSUME IInv, NEW ok \in BOOLEAN, AnswerRequest(ok)
  PROVE  IInv'
<1>1. pc = "reqmod" /\ pc' \in {"read", "closed"} /\ ReadBody(ok)
  BY Zenon DEF AnswerRequest, Again
<1>2. PICK c \in SearchSays(cm), deny \in BOOLEAN :
        /\ sent' = sent \o IF deny THEN <<"deny">> ELSE Echoed(ok)
        /\ com' = IF deny THEN NoCom ELSE [EBG |-> "G", group |-> filtergroup]
        /\ cm' = [c EXCEPT !.naughty = deny]
  BY Zenon DEF AnswerRequest
<1>3. sent' \in Seq(Tokens) /\ Settled' /\ unread' \in BOOLEAN /\ stalled' \in BOOLEAN
  BY <1>1, <1>2, AnswerSettles, Zenon DEF IInv, Tokens
<1>4. com' \in ComType \cup {NoCom}
  BY <1>2, Zenon DEF IInv, Types, ComType
<1>5. cm' \in CMType
  <2>1. c \in CMType
    BY SearchType, Zenon DEF IInv, Types
  <2> QED
    BY <1>2, <2>1, Zenon DEF CMType
<1>6. Types'
  BY <1>1, <1>3, <1>4, <1>5, Zenon DEF IInv, Types, AnswerRequest, Steps
<1> QED
  BY <1>1, <1>3, <1>6, BackToLoop, Zenon

-----------------------------------------------------------------------------
(* handleICAPresmod.                                                         *)
LEMMA NoCompositionKeeps ==
  ASSUME IInv, NoComposition
  PROVE  IInv'
<1>1. sent' \in Seq(Tokens)
  BY OneToken, Zenon DEF IInv, Types, Tokens, NoComposition
<1>2. Types' /\ pc' = "closed"
  BY <1>1, Zenon DEF IInv, Types, NoComposition, Steps
<1> QED
  BY <1>2, Zenon DEF IInv, Synchronised, ContentIsOffered

LEMMA JudgeResponseKeeps ==
  ASSUME IInv, JudgeResponse
  PROVE  IInv'
<1>1. com \in ComType /\ com.group \in Groups
  BY Zenon DEF IInv, Types, JudgeResponse, ComType
<1>2. PICK c \in ResponseStory(com.group, SetNoScan(com.group, Carried(com))) :
        cm' = ScanExceptions(com.group, c)
  BY Zenon DEF JudgeResponse
<1>3. c \in CMType
  BY <1>1, CarriedType, SetNoScanType, ResponseStoryType, Zenon
<1>4. cm' \in CMType /\ (cm'.exception => cm'.noscan = ~conf[com.group].scanexc)
  BY <1>2, <1>3, ScanExceptionsDecides, Zenon
<1>5. Types'
  BY <1>1, <1>4, Zenon DEF IInv, Types, JudgeResponse, Steps
<1>6. ScanDecided'
  BY <1>4, Zenon DEF ScanDecided, FG, JudgeResponse
<1>7. Unanswered' /\ pc' = "respmod"
  BY Zenon DEF IInv, JudgeResponse, Unanswered
<1> QED
  BY <1>5, <1>6, <1>7, Zenon DEF IInv, Synchronised, ContentIsOffered

LEMMA PassResponseKeeps ==
  ASSUME IInv, NEW ok \in BOOLEAN, PassResponse(ok)
  PROVE  IInv'
<1>1. pc = "respmod" /\ pc' = "finish" /\ ReadBody(ok) /\ Exempt(cm)
  BY Zenon DEF PassResponse
<1>2. sent' = sent \o <<"204">> \/ sent' = sent \o Echoed(ok)
  BY Zenon DEF PassResponse
<1>3. sent' \in Seq(Tokens) /\ Settled' /\ unread' \in BOOLEAN /\ stalled' \in BOOLEAN
  BY <1>1, <1>2, AnswerSettles, Zenon DEF IInv, Tokens
<1>4. Types'
  BY <1>1, <1>3, Zenon DEF IInv, Types, PassResponse, Steps
<1>5. ScanDecided'
  BY <1>1, Zenon DEF IInv, PassResponse, ScanDecided, FG
<1>6. ContentIsOffered'
  <2>1. msg.body => cm.exception /\ cm.noscan
    BY <1>1, Zenon DEF Exempt
  <2>2. cm.exception => cm.noscan = ~FG.scanexc
    BY <1>1, Zenon DEF IInv, ScanDecided
  <2>3. cm' = cm /\ msg' = msg /\ FG' = FG
    BY Zenon DEF PassResponse, FG
  <2> QED
    BY <2>1, <2>2, <2>3, Zenon DEF ContentIsOffered
<1> QED
  BY <1>1, <1>3, <1>4, <1>5, <1>6, Zenon DEF IInv, Synchronised

LEMMA CheckResponseKeeps ==
  ASSUME IInv, NEW download \in Downloads, CheckResponse(download)
  PROVE  IInv'
<1>1. PICK c \in Contents(cm) : cm' = [c EXCEPT !.download = download]
  BY Zenon DEF CheckResponse
<1>2. c \in CMType /\ c.exception = cm.exception /\ c.noscan = cm.noscan
  BY ContentsType, Zenon DEF IInv, Types
<1>3. cm' \in CMType /\ cm'.exception = cm.exception /\ cm'.noscan = cm.noscan
  BY <1>1, <1>2, Zenon DEF CMType
<1>4. Types'
  BY <1>3, Zenon DEF IInv, Types, CheckResponse, Steps
<1>5. ScanDecided'
  BY <1>3, Zenon DEF IInv, CheckResponse, ScanDecided, FG
<1>6. Unanswered' /\ pc' = "answer"
  BY Zenon DEF IInv, CheckResponse, Unanswered
<1> QED
  BY <1>4, <1>5, <1>6, Zenon DEF IInv, Synchronised, ContentIsOffered

LEMMA RefusedKeeps ==
  ASSUME IInv, SkipCheck \/ RefuseContent
  PROVE  IInv'
<1>1. /\ pc \in {"respmod", "answer"} /\ pc' = "finish" /\ cm.naughty
      /\ UNCHANGED <<conf, ttg, msg, com, filtergroup, cm, unread, sent, logged, stalled>>
  BY Zenon DEF SkipCheck, RefuseContent
<1>2. Types' /\ ScanDecided'
  BY <1>1, Zenon DEF IInv, Types, Steps, ScanDecided, FG
<1>3. Said' \subseteq {"408"}
  BY <1>1 DEF IInv, Unanswered, Said
<1> QED
  BY <1>1, <1>2, <1>3, Zenon DEF IInv, Synchronised, ContentIsOffered

(* Content that was not looked into is marked as such.                       *)
LEMMA AnswerResponseKeeps ==
  ASSUME IInv, NEW ok \in BOOLEAN, AnswerResponse(ok)
  PROVE  IInv'
<1> DEFINE all == ok /\ cm.download # "short"
<1>1. /\ pc = "answer" /\ pc' = "finish" /\ ReadBody(all)
      /\ UNCHANGED <<conf, ttg, msg, com, filtergroup, cm, logged>>
  BY Zenon DEF AnswerResponse
<1>2. \/ cm.rest /\ sent' = sent \o Echoed(ok)
      \/ ~cm.rest /\ unread /\ ~ok /\ sent' = sent \o <<"checked", "open">>
      \/ ~cm.rest /\ sent' = sent \o <<"checked">>
  BY Zenon DEF AnswerResponse
<1>3. /\ sent' \in Seq(Tokens)
      /\ "open" \in Said' => unread /\ ~ok
      /\ ~cm.rest => Said' \subseteq {"408", "checked", "open"}
  <2>1. CASE sent' = sent \o <<"echo">> /\ cm.rest
    BY <1>1, <2>1, OneToken, Zenon DEF IInv, Types, Tokens
  <2>2. CASE sent' = sent \o <<"echo", "open">> /\ unread /\ ~ok /\ cm.rest
    BY <1>1, <2>2, TwoTokens, Zenon DEF IInv, Types, Tokens
  <2>3. CASE sent' = sent \o <<"checked", "open">> /\ unread /\ ~ok /\ ~cm.rest
    BY <1>1, <2>3, TwoTokens, Zenon DEF IInv, Types, Tokens
  <2>4. CASE sent' = sent \o <<"checked">> /\ ~cm.rest
    BY <1>1, <2>4, OneToken, Zenon DEF IInv, Types, Tokens
  <2> QED
    BY <1>2, <2>1, <2>2, <2>3, <2>4, EchoedIs, Zenon
<1>4. Settled' /\ unread' \in BOOLEAN /\ stalled' \in BOOLEAN
  <2>1. all \in BOOLEAN /\ ("open" \in Said' => unread /\ ~all)
    BY <1>3, Zenon
  <2> HIDE DEF all
  <2> QED
    BY <1>1, <1>3, <2>1, ReadBodySettles, Zenon DEF IInv
<1>5. Types' /\ ScanDecided'
  BY <1>1, <1>3, <1>4, Zenon DEF IInv, Types, Steps, ScanDecided, FG
<1>6. ContentIsOffered'
  BY <1>1, <1>3, Zenon DEF ContentIsOffered
<1> QED
  BY <1>1, <1>4, <1>5, <1>6, Zenon DEF IInv, Synchronised

LEMMA FinishResponseKeeps ==
  ASSUME IInv, NEW ok \in BOOLEAN, FinishResponse(ok)
  PROVE  IInv'
<1>1. PICK deny \in BOOLEAN :
        /\ deny => cm.naughty
        /\ sent' = IF deny THEN Append(sent, "deny") ELSE sent
        /\ IF deny THEN ReadBody(ok) ELSE LeaveBody
        /\ cm' = [cm EXCEPT !.naughty = deny]
  BY Zenon DEF FinishResponse
<1>2. pc = "finish" /\ pc' \in {"read", "closed"} /\ (cm.naughty => pc' = "closed")
  BY Zenon DEF FinishResponse, Again
<1>3. cm' \in CMType
  BY <1>1, Zenon DEF IInv, Types, CMType
<1>4. sent' \in Seq(Tokens) /\ unread' \in BOOLEAN /\ stalled' \in BOOLEAN
  <2>1. sent' \in Seq(Tokens)
    BY <1>1 DEF IInv, Types, Tokens
  <2>2. ReadBody(ok) => unread' \in BOOLEAN /\ stalled' \in BOOLEAN
    BY Zenon DEF ReadBody
  <2>3. LeaveBody => unread' \in BOOLEAN /\ stalled' \in BOOLEAN
    BY Zenon DEF IInv, Types, LeaveBody
  <2> QED
    BY <1>1, <2>1, <2>2, <2>3, Zenon
<1>5. Types'
  BY <1>2, <1>3, <1>4, Zenon DEF IInv, Types, FinishResponse, Steps
<1>6. CASE cm.naughty
  BY <1>2, <1>5, <1>6, Zenon DEF IInv, Synchronised, ContentIsOffered
<1>7. CASE ~cm.naughty
  <2>1. sent' = sent /\ unread' = unread /\ stalled' = stalled
    BY <1>1, <1>7, Zenon DEF LeaveBody
  <2>2. Settled'
    BY <1>2, <1>7, <2>1, Zenon DEF IInv, Settled, Said
  <2> QED
    BY <1>2, <1>5, <2>2, BackToLoop, Zenon
<1> QED
  BY <1>6, <1>7, Zenon

-----------------------------------------------------------------------------
LEMMA HandlerKeeps == IInv /\ Handler => IInv'
<1> SUFFICES ASSUME IInv, Handler PROVE IInv'
  BY Zenon
<1>1. ASSUME NEW m \in MessageType, ReadMessage(m) PROVE IInv'
  BY <1>1, ServedKeeps, Zenon DEF ReadMessage
<1>2. CASE NoHeader
  <2>1. Types' /\ pc' = "closed"
    BY <1>2, Zenon DEF IInv, Types, NoHeader, Steps
  <2> QED
    BY <2>1, Zenon DEF IInv, Synchronised, ContentIsOffered
<1>3. ASSUME NEW m \in MessageType, HeaderTimeout(m) PROVE IInv'
  BY <1>3, ServedKeeps, Zenon DEF HeaderTimeout
<1>4. CASE AnswerOptions \/ BadRequest
  BY <1>4, DispatchKeeps, Zenon
<1>5. ASSUME NEW ok \in BOOLEAN, Malformed(ok) PROVE IInv'
  BY <1>5, MalformedKeeps, Zenon
<1>6. ASSUME NEW g \in Groups, JudgeRequest(g) PROVE IInv'
  BY <1>6, JudgeRequestKeeps, Zenon
<1>7. ASSUME NEW g \in Groups, SendScanFile(g) PROVE IInv'
  BY <1>7, SendScanFileKeeps, Zenon
<1>8. CASE SendBypassCookie
  BY <1>8, SendBypassCookieKeeps, Zenon
<1>9. ASSUME NEW ok \in BOOLEAN, PassRequest(ok) \/ Redirect(ok) \/ AnswerRequest(ok) PROVE IInv'
  BY <1>9, PassRequestKeeps, RedirectKeeps, AnswerRequestKeeps, Zenon
<1>10. CASE NoComposition \/ JudgeResponse
  BY <1>10, NoCompositionKeeps, JudgeResponseKeeps, Zenon
<1>11. ASSUME NEW ok \in BOOLEAN, PassResponse(ok) \/ AnswerResponse(ok) \/ FinishResponse(ok) PROVE IInv'
  BY <1>11, PassResponseKeeps, AnswerResponseKeeps, FinishResponseKeeps, Zenon
<1>12. ASSUME NEW download \in Downloads, CheckResponse(download) PROVE IInv'
  BY <1>12, CheckResponseKeeps, Zenon
<1>13. CASE SkipCheck \/ RefuseContent
  BY <1>13, RefusedKeeps, Zenon
<1> QED
  BY <1>1, <1>2, <1>3, <1>4, <1>5, <1>6, <1>7, <1>8, <1>9, <1>10, <1>11, <1>12, <1>13, Zenon DEF Handler

(* The main thread's flag is none of the handler's state.                    *)
LEMMA StopKeeps == IInv /\ Stop => IInv'
<1> SUFFICES ASSUME IInv, Stop PROVE IInv'
  BY Zenon
<1>1. UNCHANGED <<conf, pc, msg, com, filtergroup, cm, unread, sent, logged, stalled>>
  BY Zenon DEF Stop
<1>2. Types' /\ (Unanswered' <=> Unanswered) /\ (ScanDecided' <=> ScanDecided) /\ (Settled' <=> Settled)
  BY <1>1, Zenon DEF IInv, Types, Unanswered, ScanDecided, FG, Settled, Said
<1>3. Synchronised' /\ ContentIsOffered'
  BY <1>1, Zenon DEF IInv, Synchronised, ContentIsOffered, Said, FG
<1> QED
  BY <1>1, <1>2, <1>3, Zenon DEF IInv

LEMMA IInvHolds == Spec => []IInv
<1>1. IInv /\ [Next]_vars => IInv'
  BY HandlerKeeps, StopKeeps, StutterKeeps, Zenon DEF Next, Over
<1> QED
  BY <1>1, InitHolds, PTL DEF Spec

(* When the ICAP loop reads the next header it finds one: the body of the    *)
(* message before it was read to its end by drainChunk, loopChunk or the     *)
(* download, on every path but those that Synchronised names.                *)
THEOREM StreamStaysSynchronised == Spec => []Synchronised
  BY IInvHolds, PTL DEF IInv

(* Whatever the verdict the REQMOD sent along, the group's options and the   *)
(* response story: handleICAPresmod passes content on unchecked only if      *)
(* check_content did not want it, or if it is an exception of a group that   *)
(* does not scan exceptions.                                                 *)
THEOREM ContentIsAlwaysOffered == Spec => []ContentIsOffered
  BY IInvHolds, PTL DEF IInv

-----------------------------------------------------------------------------
(* One answer.  What OneAnswer counts, without counting.                     *)
Once ==
  Whole => \A i, j \in DOMAIN sent : sent[i] # "open" /\ sent[j] # "open" => i = j

(* Until a handler is done with its message nothing was logged; an exception *)
(* is not refused by the response story; and when a refusal is looked for at *)
(* the end of handleICAPresmod, nothing was answered yet if there is content *)
(* to be refused.                                                            *)
Answering ==
  /\ logged \in {0, 1}
  /\ pc \in {"dispatch", "reqmod", "respmod", "answer", "finish"} => logged = 0
  /\ pc = "reqmod" => msg.svc = "reqmod"
  /\ pc \in {"respmod", "answer", "finish"} => msg.svc = "respmod"
  /\ pc = "respmod" /\ cm.exception => ~cm.naughty
  /\ pc = "finish" => "deny" \notin Said /\ (cm.naughty /\ msg.body => Unanswered)
  /\ (msg.svc = "respmod" => msg.body) => Once
  /\ msg.svc = "respmod" /\ "deny" \in Said => logged = 1

LEMMA NotDenied ==
  ASSUME sent \in Seq(Tokens), Unanswered, NEW t \in Tokens \ {"deny"},
         sent' = sent \o <<t>> \/ sent' = sent \o <<t, "open">>
  PROVE  "deny" \notin Said'
<1>1. CASE sent' = sent \o <<t>>
  BY <1>1, OneToken, Zenon
<1>2. CASE sent' = sent \o <<t, "open">>
  <2>1. PICK u \in Tokens : u = "open"
    BY Zenon DEF Tokens
  <2>2. t \in Tokens /\ sent' = sent \o <<t, u>>
    BY <1>2, <2>1, Zenon
  <2>3. Said' \subseteq {"408", t, u}
    BY <2>2, TwoTokens, Zenon
  <2> QED
    BY <2>1, <2>3, Zenon
<1> QED
  BY <1>1, <1>2, Zenon

LEMMA OnceAnswered ==
  ASSUME sent \in Seq(Tokens), Unanswered, NEW t \in Tokens,
         sent' = sent \o <<t>> \/ sent' = Append(sent, t) \/ sent' = sent \o <<t, "open">>
  PROVE  Once'
<1>1. CASE sent = <<>>
  <2>1. sent' = <<t>> \/ sent' = <<t, "open">>
    BY <1>1
  <2> QED
    BY <2>1 DEF Once
<1>2. CASE sent = <<"408">>
  <2>1. sent'[1] = "408" /\ 1 \in DOMAIN sent'
    BY <1>2
  <2> QED
    BY <2>1, Zenon DEF Once, Whole, Said
<1> QED
  BY <1>1, <1>2, Zenon DEF Unanswered

(* The same, of an echo.                                                     *)
LEMMA OnceEchoed ==
  ASSUME sent \in Seq(Tokens), Unanswered, NEW ok \in BOOLEAN, NEW t \in Tokens,
         sent' = sent \o <<t>> \/ sent' = Append(sent, t) \/ sent' = sent \o Echoed(ok)
  PROVE  Once'
  BY EchoedIs, OnceAnswered, Zenon DEF Tokens

(* A message that is not a RESPMOD has been answered.                        *)
LEMMA AnsweredRequest ==
  ASSUME IInv, Answering, pc \in {"dispatch", "reqmod"}, msg.svc # "respmod", msg' = msg,
         pc' \in {"read", "closed"}, logged' \in {logged, logged + 1}, Once'
  PROVE  Answering'
  BY DEF Answering

LEMMA RequestAnswered ==
  ASSUME IInv, Answering, NEW ok \in BOOLEAN,
         \/ AnswerOptions \/ BadRequest \/ Malformed(ok) \/ SendBypassCookie
         \/ PassRequest(ok) \/ Redirect(ok) \/ AnswerRequest(ok)
         \/ \E g \in Groups : SendScanFile(g)
  PROVE  Answering'
<1>1. pc \in {"dispatch", "reqmod"} /\ msg' = msg /\ pc' \in {"read", "closed"} /\ msg.svc # "respmod"
  BY Zenon DEF AnswerOptions, BadRequest, Malformed, SendBypassCookie, PassRequest, Redirect,
     AnswerRequest, SendScanFile, Again, Answering
<1>2. logged' \in {logged, logged + 1}
  BY Zenon DEF AnswerOptions, BadRequest, Malformed, SendBypassCookie, PassRequest, Redirect,
     AnswerRequest, SendScanFile, Logged
<1>3. \E t \in Tokens : sent' = sent \o <<t>> \/ sent' = Append(sent, t) \/ sent' = sent \o Echoed(ok)
  BY Zenon DEF AnswerOptions, BadRequest, Malformed, SendBypassCookie, PassRequest, Redirect,
     AnswerRequest, SendScanFile, Tokens
<1>4. Once'
  BY <1>1, <1>3, OnceEchoed, Zenon DEF IInv, Types
<1> QED
  BY <1>1, <1>2, <1>4, AnsweredRequest, Zenon

(* The response story refuses no exception.                                  *)
LEMMA ExceptionsStand ==
  ASSUME NEW g, NEW k \in ComType, NEW c \in ResponseStory(g, SetNoScan(g, Carried(k)))
  PROVE  LET d == ScanExceptions(g, c) IN d.exception => ~d.naughty
<1> DEFINE f == SetNoScan(g, Carried(k))
<1>1. f \in CMType /\ ~f.naughty /\ ~f.blocked
  <2>1. Carried(k) \in CMType /\ ~Carried(k).naughty /\ ~Carried(k).blocked
    BY CarriedType, Zenon DEF Carried, Fresh
  <2> QED
    BY <2>1, Zenon DEF SetNoScan, CMType
<1> HIDE DEF f
<1>2. ASSUME NEW d \in RespmodVerdicts(f) PROVE d \in CMType /\ (d.exception => ~d.blocked)
  <2>1. d \in CMType
    BY <1>1, ResponseVerdictsType, Zenon
  <2>2. \/ d = f \/ d = [f EXCEPT !.noscan = TRUE]
        \/ ~f.exception /\ d = [f EXCEPT !.blocked = TRUE, !.grey = FALSE]
        \/ ~f.exception /\ d = [f EXCEPT !.blocked = TRUE, !.grey = FALSE, !.noscan = TRUE]
        \/ d = [f EXCEPT !.exception = TRUE, !.grey = FALSE]
    BY Zenon DEF RespmodVerdicts
  <2> QED
    BY <1>1, <2>1, <2>2, Zenon DEF CMType
<1>3. ASSUME NEW d \in CMType, d.exception => ~d.blocked
      PROVE  Reported(g, d).exception => ~Reported(g, d).naughty
  BY <1>3, Zenon DEF Reported, CMType
<1>4. c \in CMType /\ (c.exception => ~c.naughty)
  <2>1. c = f \/ \E d \in RespmodVerdicts(f) : c = Reported(g, d)
    BY Zenon DEF ResponseStory, f
  <2> QED
    BY <1>1, <1>2, <1>3, <2>1, ReportedType, Zenon
<1> QED
  BY <1>4, Zenon DEF ScanExceptions, CMType

LEMMA ResponseJudged ==
  ASSUME IInv, Answering, JudgeResponse
  PROVE  Answering'
<1>1. com \in ComType
  BY Zenon DEF IInv, Types, JudgeResponse
<1>2. PICK c \in ResponseStory(com.group, SetNoScan(com.group, Carried(com))) :
        cm' = ScanExceptions(com.group, c)
  BY Zenon DEF JudgeResponse
<1>3. cm'.exception => ~cm'.naughty
  BY <1>1, <1>2, ExceptionsStand, Zenon
<1>4. Once' <=> Once
  BY Zenon DEF JudgeResponse, Once, Whole, Said
<1>5. Said' = Said
  BY Zenon DEF JudgeResponse, Said
<1> QED
  BY <1>3, <1>4, <1>5, Zenon DEF Answering, JudgeResponse

(* The steps of handleICAPresmod between the verdict and its end.            *)
LEMMA ResponsePassed ==
  ASSUME IInv, Answering, NEW ok \in BOOLEAN, PassResponse(ok)
  PROVE  Answering'
<1>1. sent' = sent \o <<"204">> \/ sent' = sent \o <<"echo">> \/ sent' = sent \o <<"echo", "open">>
  BY EchoedIs, Zenon DEF PassResponse
<1>2. pc = "respmod" /\ sent \in Seq(Tokens) /\ Unanswered
  BY Zenon DEF IInv, Types, PassResponse
<1>3. Once'
  BY <1>1, <1>2, OnceAnswered, Zenon DEF Tokens
<1>4. "deny" \notin Said'
  BY <1>1, <1>2, NotDenied, Zenon DEF Tokens
<1>5. msg.body => ~cm.naughty
  BY <1>2, Zenon DEF PassResponse, Exempt, Answering
<1> QED
  BY <1>2, <1>3, <1>4, <1>5, Zenon DEF Answering, PassResponse

LEMMA ResponseAnswered ==
  ASSUME IInv, Answering, NEW ok \in BOOLEAN, AnswerResponse(ok)
  PROVE  Answering'
<1>1. \/ sent' = sent \o <<"echo">> \/ sent' = sent \o <<"echo", "open">>
      \/ sent' = sent \o <<"checked">> \/ sent' = sent \o <<"checked", "open">>
  BY EchoedIs, Zenon DEF AnswerResponse
<1>2. pc = "answer" /\ sent \in Seq(Tokens) /\ Unanswered
  BY Zenon DEF IInv, Types, AnswerResponse
<1>3. Once'
  BY <1>1, <1>2, OnceAnswered, Zenon DEF Tokens
<1>4. "deny" \notin Said'
  BY <1>1, <1>2, NotDenied, Zenon DEF Tokens
<1> QED
  BY <1>2, <1>3, <1>4, Zenon DEF Answering, AnswerResponse

LEMMA ResponseFinished ==
  ASSUME IInv, Answering, NEW ok \in BOOLEAN, FinishResponse(ok)
  PROVE  Answering'
<1>1. PICK deny \in BOOLEAN :
        /\ deny => cm.naughty
        /\ sent' = IF deny THEN Append(sent, "deny") ELSE sent
        /\ logged' = IF deny THEN logged + 1 ELSE logged
  BY Zenon DEF FinishResponse
<1>2. pc = "finish" /\ pc' \in {"read", "closed"} /\ msg' = msg /\ sent \in Seq(Tokens)
  BY Zenon DEF IInv, Types, FinishResponse, Again
<1>3. CASE deny
  <2>1. msg.body => Once'
    BY <1>1, <1>2, <1>3, OnceAnswered, Zenon DEF Answering, Tokens
  <2> QED
    BY <1>1, <1>2, <1>3, <2>1 DEF Answering
<1>4. CASE ~deny
  <2>1. Said' = Said /\ (Once' <=> Once)
    BY <1>1, <1>4, Zenon DEF Said, Once, Whole
  <2> QED
    BY <1>1, <1>2, <1>4, <2>1, Zenon DEF Answering
<1> QED
  BY <1>3, <1>4, Zenon

LEMMA AnsweringKept == IInv /\ Answering /\ [Next]_vars => Answering'
<1> SUFFICES ASSUME IInv, Answering, [Next]_vars PROVE Answering'
  BY Zenon
<1>1. ASSUME NEW m \in MessageType, ReadMessage(m) \/ HeaderTimeout(m) PROVE Answering'
  <2>1. /\ sent' \in {<<>>, <<"408">>} /\ logged' = 0 /\ pc' = "dispatch"
    BY <1>1, Zenon DEF ReadMessage, HeaderTimeout, Served
  <2>2. Once' /\ "deny" \notin Said'
    BY <2>1 DEF Once, Said
  <2> QED
    BY <2>1, <2>2, Zenon DEF Answering
<1>2. ASSUME UNCHANGED <<sent, msg, logged>>,
             \/ NoHeader \/ Stop \/ SkipCheck \/ RefuseContent \/ UNCHANGED vars
             \/ \E g \in Groups : JudgeRequest(g)
             \/ \E download \in Downloads : CheckResponse(download)
      PROVE  Answering'
  <2>1. Said' = Said /\ (Once' <=> Once) /\ (Unanswered' <=> Unanswered)
    BY <1>2, Zenon DEF Said, Once, Whole, Unanswered
  <2>2. Unanswered => "deny" \notin Said
    BY DEF Unanswered, Said
  <2>3. CASE NoHeader \/ Stop \/ UNCHANGED vars
    BY <1>2, <2>1, <2>3, Zenon DEF NoHeader, Stop, vars, Answering
  <2>4. CASE SkipCheck \/ RefuseContent
    BY <1>2, <2>1, <2>2, <2>4, Zenon DEF SkipCheck, RefuseContent, IInv, Answering
  <2>5. CASE \E g \in Groups : JudgeRequest(g)
    BY <1>2, <2>1, <2>5, Zenon DEF JudgeRequest, Answering
  <2>6. CASE \E download \in Downloads : CheckResponse(download)
    BY <1>2, <2>1, <2>6, Zenon DEF CheckResponse, Answering
  <2> QED
    BY <1>2, <2>3, <2>4, <2>5, <2>6, Zenon
<1>3. CASE NoComposition
  <2>1. sent \in Seq(Tokens) /\ Unanswered /\ sent' = Append(sent, "error") /\ pc' = "closed"
    BY <1>3, Zenon DEF IInv, Types, NoComposition
  <2>2. Once' /\ "deny" \notin Said'
    BY <2>1, OnceAnswered, OneToken, Zenon DEF Tokens
  <2> QED
    BY <1>3, <2>1, <2>2, Zenon DEF Answering, NoComposition
<1>4. CASE JudgeResponse
  BY <1>4, ResponseJudged, Zenon
<1>5. ASSUME NEW ok \in BOOLEAN, PassResponse(ok) \/ AnswerResponse(ok) \/ FinishResponse(ok)
      PROVE  Answering'
  BY <1>5, ResponsePassed, ResponseAnswered, ResponseFinished, Zenon
<1>6. ASSUME NEW ok \in BOOLEAN,
             \/ AnswerOptions \/ BadRequest \/ Malformed(ok) \/ SendBypassCookie
             \/ PassRequest(ok) \/ Redirect(ok) \/ AnswerRequest(ok)
             \/ \E g \in Groups : SendScanFile(g)
      PROVE  Answering'
  BY <1>6, RequestAnswered, Zenon
<1>7. \/ NoHeader \/ Stop \/ SkipCheck \/ RefuseContent \/ UNCHANGED vars
      \/ \E g \in Groups : JudgeRequest(g)
      \/ \E download \in Downloads : CheckResponse(download)
      => UNCHANGED <<sent, msg, logged>>
  BY Zenon DEF NoHeader, Stop, SkipCheck, RefuseContent, vars, JudgeRequest, CheckResponse
<1>8. TRUE \in BOOLEAN
  BY Zenon
<1> QED
  BY <1>1, <1>2, <1>3, <1>4, <1>5, <1>6, <1>7, <1>8, Zenon DEF Next, Over, Handler

(* Each message whose header was read gets one answer, is logged once at     *)
(* most, and a response that is refused is logged (FinishResponse), on every *)
(* path through the two handlers.                                            *)
THEOREM EachMessageIsAnsweredOnce == Spec => []OneAnswer
<1>1. Init => Answering
  BY DEF Init, Answering, Once, Said, NoMessage
<1>2. ASSUME NEW S, \A i, j \in S : i = j PROVE Cardinality(S) <= 1
  <2>1. CASE S = {}
    BY <2>1, FS_EmptySet
  <2>2. ASSUME NEW x \in S PROVE Cardinality(S) <= 1
    <3>1. S = {x}
      BY <1>2, Zenon
    <3> QED
      BY <3>1, FS_Singleton
  <2> QED
    BY <2>1, <2>2, Zenon
<1>3. Answering => OneAnswer
  <2> SUFFICES ASSUME Answering PROVE OneAnswer
    BY Zenon
  <2>1. ASSUME Whole, msg.svc = "respmod" => msg.body
        PROVE  Cardinality({i \in DOMAIN sent : sent[i] # "open"}) <= 1
    BY <1>2, <2>1, Zenon DEF Answering, Once
  <2> QED
    BY <2>1 DEF OneAnswer, Answering
<1> QED
  BY <1>1, <1>3, IInvHolds, AnsweringKept, PTL DEF Spec
=============================================================================
