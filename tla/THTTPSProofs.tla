---------------------------- MODULE THTTPSProofs ----------------------------
(***************************************************************************)
(* Proofs about a whole connection (handlePeer): the transparent handler,  *)
(* the request loop, and the loop inside an intercepted session, for any   *)
(* servers, groups, requests and configurations.                           *)
(*                                                                         *)
(* The inductive invariant says, of every step of the two handlers, what   *)
(* the client has been told (Talk), which flags of its NaughtyFilter the   *)
(* request can have (Flags), and the same of a transparent connection that *)
(* is not intercepted yet (TFlags).                                        *)
(***************************************************************************)
EXTENDS THTTPS, HandleConnectionProofs

(* IInv is about the request loop. *)
PInv ==
  IF hello = NoHello THEN IInv /\ pc \in Steps
  ELSE Types /\ ~ismitm /\ pc \in TSteps \cup {"mitm", "closed"}

(* A transparent connection: nobody has judged it; its story starts; its     *)
(* story has judged it.                                                     *)
MayMitm == HasFG /\ FG.mitm

TUnjudged(c) ==
  c.special = "no" /\ ~c.done /\ ~c.gomitm /\ ~c.automitm /\ ~c.blocked /\ ~c.naughty

TReady(c) ==
  /\ ~c.automitm
  /\ c.blocked => c.naughty
  /\ c.special = "exception" => c.exception /\ c.nomitm
  /\ c.special = "banned" => c.blocked
  /\ c.done => c.gomitm \/ c.nomitm

TJudged(c) ==
  /\ c.blocked => c.naughty
  /\ c.gomitm \/ c.automitm => c.nomitm \/ MayMitm
  /\ c.gomitm => hello.sni \/ c.done
  /\ c.done => c.gomitm \/ c.nomitm
  /\ \/ c.naughty \/ c.upfail \/ vetted \/ c.exception \/ c.done
     \/ c.special = "no" /\ ~HasFG

TFlags ==
  /\ pc \in {"hello", "tpreauth"} => cm = Fresh(req)
  /\ pc \in {"tpreauth", "tauth"} => filtergroup = DefaultTransFG
  /\ pc = "tauth" => TUnjudged(cm)
  /\ pc = "tstory" => TReady(cm) /\ (cm.gomitm => cm.done /\ MayMitm)
  /\ pc = "tupstream" => TJudged(cm)
  /\ pc = "mitm" => MayMitm /\ ~cm.nomitm /\ (hello.sni \/ cm.done)
  /\ pc = "ttunnel" /\ ~cm.naughty /\ cm.rest =>
       ~cm.blocked /\ (vetted \/ cm.exception \/ (cm.done /\ cm.nomitm) \/ (cm.special = "no" /\ ~HasFG))
  /\ DeliveredIsJudged

JInv == PInv /\ Talk /\ IF hello = NoHello THEN Flags ELSE TFlags

-----------------------------------------------------------------------------
(* A transparent connection, until it is intercepted or ends                *)

LEMMA FGType == ASSUME Types, HasFG PROVE FG.auto \in BOOLEAN
BY ConstantsAssumption, Zenon DEF Types, HasFG, FG, ConfType, GroupOptions

(* What is fixed while the connection is looked at.                         *)
Fixed == UNCHANGED <<hello, conf, ismitm, persistPeer, persistProxy, last_isdirect, req, resp, gone, lost>>

LEMMA TTypes ==
  ASSUME Types, Fixed, cm' \in CMType, up' \in UpType
  PROVE  Types'
BY Zenon DEF Types, Fixed

(* Nothing is passed on before the tunnel.                                  *)
LEMMA TUnheard ==
  ASSUME Talk, hello # NoHello, hello' = hello, sent = <<>>, UNCHANGED <<sent, logged>>,
         pc \in TSteps, pc' \in TSteps \cup {"mitm", "closed"}
  PROVE  Talk' /\ DeliveredIsJudged'
<1>1. sent' = <<>> /\ Said' = {} /\ OneOfAnswers' /\ sent' \in Seq(Tokens)
  BY NothingSaid1, Zenon
<1>2. logged = 0 /\ logged' = 0
  BY Zenon DEF Talk, TSteps
<1>3. Talk'
  BY <1>1, <1>2, Zenon DEF Talk, TSteps, Unsent
<1> QED BY <1>1, <1>3, Zenon DEF DeliveredIsJudged

(* The pre-authentication story decides no more than exceptions and whether  *)
(* a site may be intercepted.                                               *)
LEMMA ThttpsPreAuthFlags ==
  ASSUME NEW c \in CMType, TUnjudged(c), NEW d \in ThttpsPreAuthVerdicts(c)
  PROVE  d \in CMType /\ TUnjudged(d)
<1> DEFINE m == [c EXCEPT !.nomitm = TRUE, !.gomitm = FALSE, !.automitm = FALSE]
<1>1. ThttpsPreAuthVerdicts(c) = UNION {{[b EXCEPT !.exception = e] : e \in BOOLEAN} : b \in {c, m}}
  BY Zenon DEF ThttpsPreAuthVerdicts
<1>2. m \in CMType
  BY ZenonT(30) DEF CMType
<1>3. TUnjudged(m)
  BY Zenon DEF CMType, TUnjudged
<1> HIDE DEF m
<1>4. PICK b \in {c, m} : \E e \in BOOLEAN : d = [b EXCEPT !.exception = e]
  BY Zenon, <1>1
<1>5. b \in CMType /\ TUnjudged(b)
  BY <1>2, <1>3, Zenon
<1>6. d \in CMType
  BY ZenonT(60), <1>4, <1>5 DEF CMType
<1>7. TUnjudged(d)
  BY <1>4, <1>5, Zenon DEF CMType, TUnjudged
<1> QED BY <1>6, <1>7, Zenon

LEMMA TPreAuthSays ==
  ASSUME cm \in CMType, TUnjudged(cm), TPreAuth
  PROVE  /\ cm' \in CMType
         /\ pc' = "tstory" => TReady(cm') /\ ~cm'.gomitm
         /\ pc' = "tauth" => TUnjudged(cm') /\ filtergroup' = filtergroup
         /\ pc' \in {"tstory", "tauth"}
<1>1. PICK c \in ThttpsPreAuthVerdicts(cm) :
       CASE class = "exceptionIP" ->
              /\ cm' = [c EXCEPT !.exception = TRUE, !.special = "exception", !.nomitm = TRUE,
                                 !.automitm = FALSE, !.authed = TRUE]
              /\ filtergroup' = -1 /\ pc' = "tstory"
         [] class = "bannedIP" ->
              /\ cm' = [c EXCEPT !.exception = FALSE, !.blocked = TRUE, !.naughty = TRUE,
                                 !.special = "banned", !.authed = TRUE]
              /\ filtergroup' = -1 /\ pc' = "tstory"
         [] OTHER ->
              /\ cm' \in {c, [c EXCEPT !.exception = FALSE, !.blocked = TRUE, !.naughty = TRUE]}
              /\ filtergroup' = filtergroup
              /\ pc' = IF cm'.naughty \/ cm'.exception THEN "tstory" ELSE "tauth"
  BY Zenon DEF TPreAuth
<1>2. c \in CMType /\ TUnjudged(c)
  BY ThttpsPreAuthFlags, Zenon
<1>3. CASE class = "exceptionIP"
  <2>1. /\ cm' = [c EXCEPT !.exception = TRUE, !.special = "exception", !.nomitm = TRUE,
                           !.automitm = FALSE, !.authed = TRUE]
        /\ pc' = "tstory"
    BY <1>1, <1>3, Zenon
  <2>2. cm' \in CMType
    BY ZenonT(30), <1>2, <2>1 DEF CMType
  <2>3. TReady(cm') /\ ~cm'.gomitm
    BY <1>2, <2>1, Zenon DEF CMType, TReady, TUnjudged
  <2> QED BY <2>1, <2>2, <2>3, Zenon
<1>4. CASE class = "bannedIP"
  <2>1. /\ cm' = [c EXCEPT !.exception = FALSE, !.blocked = TRUE, !.naughty = TRUE,
                           !.special = "banned", !.authed = TRUE]
        /\ pc' = "tstory"
    BY <1>1, <1>4, Zenon
  <2>2. cm' \in CMType
    BY ZenonT(60), <1>2, <2>1 DEF CMType
  <2>3. TReady(cm') /\ ~cm'.gomitm
    BY <1>2, <2>1, Zenon DEF CMType, TReady, TUnjudged
  <2> QED BY <2>1, <2>2, <2>3, Zenon
<1>5. CASE class \notin {"exceptionIP", "bannedIP"}
  <2> DEFINE e == [c EXCEPT !.exception = FALSE, !.blocked = TRUE, !.naughty = TRUE]
  <2>1. /\ cm' = c \/ cm' = e
        /\ filtergroup' = filtergroup
        /\ pc' = IF cm'.naughty \/ cm'.exception THEN "tstory" ELSE "tauth"
    BY <1>1, <1>5, Zenon
  <2>2. e \in CMType
    BY ZenonT(30), <1>2 DEF CMType
  <2>3. TReady(e) /\ ~e.gomitm /\ e.naughty
    BY <1>2, Zenon DEF CMType, TReady, TUnjudged
  <2> HIDE DEF e
  <2>4. TReady(c) /\ ~c.gomitm
    BY <1>2, Zenon DEF TReady, TUnjudged
  <2> QED BY <1>2, <2>1, <2>2, <2>3, <2>4, Zenon
<1> QED BY <1>3, <1>4, <1>5, Zenon

LEMMA THiddenReady ==
  ASSUME NEW c \in CMType, TUnjudged(c), NEW d \in Hidden(c)
  PROVE  d \in CMType /\ TReady(d) /\ ~d.gomitm /\ ~d.done
<1>1. d \in CMType
  BY HiddenOK, Zenon
<1>2. c.special = "no" /\ ~c.done /\ ~c.gomitm /\ ~c.automitm /\ ~c.blocked
  BY Zenon DEF TUnjudged
<1>3. \/ d = c
      \/ d = [c EXCEPT !.exception = TRUE, !.special = "exception", !.nomitm = TRUE, !.automitm = FALSE]
      \/ d = [c EXCEPT !.blocked = TRUE, !.naughty = TRUE, !.special = "banned"]
  BY Zenon DEF Hidden
<1>4. CASE d = [c EXCEPT !.exception = TRUE, !.special = "exception", !.nomitm = TRUE,
                         !.automitm = FALSE]
  BY <1>2, <1>4, Zenon DEF CMType, TReady
<1>5. CASE d = [c EXCEPT !.blocked = TRUE, !.naughty = TRUE, !.special = "banned"]
  BY ZenonT(60), <1>2, <1>5 DEF CMType, TReady
<1> QED BY <1>1, <1>2, <1>3, <1>4, <1>5, Zenon DEF TReady

(* Who must log in is intercepted if the group may be.                      *)
LEMMA TAuthSays ==
  ASSUME cm \in CMType, TUnjudged(cm), filtergroup = DefaultTransFG, TAuth
  PROVE  /\ cm' \in CMType /\ TReady(cm')
         /\ cm'.gomitm => cm'.done /\ MayMitm'
<1>1. ASSUME NEW d \in Hidden(cm), NEW b \in BOOLEAN, cm' = [d EXCEPT !.authed = b]
      PROVE  cm' \in CMType /\ TReady(cm') /\ ~cm'.gomitm
  <2>1. d \in CMType /\ TReady(d) /\ ~d.gomitm
    BY THiddenReady, Zenon
  <2>2. cm' \in CMType
    BY ZenonT(60), <1>1, <2>1 DEF CMType
  <2>3. TReady(cm') /\ ~cm'.gomitm
    BY <1>1, <2>1, Zenon DEF CMType, TReady
  <2> QED BY <2>2, <2>3, Zenon
<1>2. ASSUME NEW d \in Hidden(cm), cm' = [d EXCEPT !.gomitm = ~d.nomitm, !.done = TRUE]
      PROVE  cm' \in CMType /\ TReady(cm') /\ cm'.done
  <2>1. d \in CMType /\ TReady(d)
    BY THiddenReady, Zenon
  <2> DEFINE g == ~d.nomitm
  <2>2. g \in BOOLEAN /\ g = ~d.nomitm /\ cm' = [d EXCEPT !.gomitm = g, !.done = TRUE]
    BY <1>2, Zenon
  <2> HIDE DEF g
  <2>3. ASSUME NEW x \in BOOLEAN PROVE [d EXCEPT !.gomitm = x, !.done = TRUE] \in CMType
    BY ZenonT(30), <2>1 DEF CMType
  <2>4. TReady(cm') /\ cm'.done
    BY ZenonT(60), <2>1, <2>2 DEF CMType, TReady
  <2> QED BY Zenon, <2>2, <2>3, <2>4
<1>3. \/ \E d \in Hidden(cm) : \E b \in BOOLEAN : cm' = [d EXCEPT !.authed = b]
      \/ /\ FG.mitm /\ UNCHANGED <<filtergroup, conf>>
         /\ \E d \in Hidden(cm) : cm' = [d EXCEPT !.gomitm = ~d.nomitm, !.done = TRUE]
  <2>1. (conf.auth = "local") \in BOOLEAN /\ cm \in Hidden(cm)
    BY Zenon DEF Hidden
  <2> QED BY Zenon, <2>1 DEF TAuth
<1>4. CASE \E d \in Hidden(cm) : \E b \in BOOLEAN : cm' = [d EXCEPT !.authed = b]
  BY <1>1, <1>4, Zenon
<1>5. CASE /\ FG.mitm /\ UNCHANGED <<filtergroup, conf>>
           /\ \E d \in Hidden(cm) : cm' = [d EXCEPT !.gomitm = ~d.nomitm, !.done = TRUE]
  <2>1. cm' \in CMType /\ TReady(cm') /\ cm'.done
    BY <1>2, <1>5, Zenon
  <2>2. MayMitm'
    BY <1>5, ConstantsAssumption, Zenon DEF MayMitm, HasFG, FG
  <2> QED BY <2>1, <2>2, Zenon
<1> QED BY <1>3, <1>4, <1>5, Zenon

(* Interception is for groups that intercept and servers that are named.    *)
LEMMA TJudgeSays ==
  ASSUME Types, NEW c \in CMType
  PROVE  LET d == TJudge(c) IN
           /\ d \in CMType
           /\ d.nomitm = (c.nomitm \/ (c.special = "no" /\ ~MayMitm))
           /\ d.candidate => MayMitm /\ hello.sni
           /\ d.automitm => c.automitm \/ MayMitm
           /\ d.gomitm = c.gomitm /\ d.done = c.done /\ d.special = c.special
           /\ d.blocked = c.blocked /\ d.naughty = c.naughty /\ d.exception = c.exception
           /\ d.upfail = c.upfail
<1> DEFINE n == c.nomitm \/ (c.special = "no" /\ ~MayMitm)
           k == HasFG /\ hello.sni /\ ~n /\ FG.mitm
           a == IF k THEN FG.auto ELSE c.automitm
<1>1. TJudge(c) = [c EXCEPT !.nomitm = n, !.candidate = k, !.automitm = a]
  BY Zenon DEF TJudge, MayMitm
<1>2. n \in BOOLEAN /\ (k => MayMitm /\ hello.sni)
  BY Zenon DEF MayMitm
<1>3. k \in BOOLEAN
  BY Zenon
<1>4. a \in BOOLEAN /\ (a => c.automitm \/ k)
  <2>1. c.automitm \in BOOLEAN
    BY Zenon DEF CMType
  <2>2. k => FG.auto \in BOOLEAN
    BY FGType, Zenon
  <2> QED BY Zenon, <2>1, <2>2
<1> HIDE DEF n, k, a
<1>5. ASSUME NEW x \in BOOLEAN, NEW y \in BOOLEAN, NEW z \in BOOLEAN
      PROVE  [c EXCEPT !.nomitm = x, !.candidate = y, !.automitm = z] \in CMType
  BY ZenonT(30) DEF CMType
<1>6. TJudge(c) \in CMType
  BY Zenon, <1>1, <1>2, <1>3, <1>4, <1>5
<1>7. /\ TJudge(c).nomitm = n /\ TJudge(c).candidate = k /\ TJudge(c).automitm = a
      /\ TJudge(c).gomitm = c.gomitm /\ TJudge(c).done = c.done /\ TJudge(c).special = c.special
      /\ TJudge(c).blocked = c.blocked /\ TJudge(c).naughty = c.naughty
      /\ TJudge(c).exception = c.exception /\ TJudge(c).upfail = c.upfail
  BY <1>1, Zenon DEF CMType
<1> QED BY Zenon, <1>2, <1>4, <1>6, <1>7 DEF n

(* The story of a transparent connection.                                   *)
LEMMA ThttpsSays ==
  ASSUME NEW c \in CMType, NEW d \in ThttpsVerdicts(c)
  PROVE  /\ d \in CMType
         /\ d.automitm => c.automitm \/ ~c.nomitm
         /\ d.gomitm => c.gomitm \/ c.candidate
         /\ d.nomitm = c.nomitm /\ d.done = c.done /\ d.special = c.special
<1> DEFINE a == c.automitm \/ ~c.nomitm
           e == [c EXCEPT !.automitm = a]
<1>1. a \in BOOLEAN /\ (a => c.automitm \/ ~c.nomitm)
  BY Zenon
<1>2. ThttpsVerdicts(c) =
        {[e EXCEPT !.exception = TRUE], [e EXCEPT !.blocked = TRUE], [e EXCEPT !.grey = TRUE]}
        \cup {[e EXCEPT !.gomitm = TRUE] : m \in {m \in {TRUE} : c.candidate /\ ~c.nomitm}}
  BY Zenon DEF ThttpsVerdicts
<1> HIDE DEF a
<1>3. e \in CMType
  BY <1>1, Zenon DEF CMType
<1>4. /\ e.automitm = a /\ e.gomitm = c.gomitm /\ e.nomitm = c.nomitm /\ e.done = c.done
      /\ e.special = c.special
  BY Zenon DEF CMType
<1> HIDE DEF e
<1>5. \/ d = [e EXCEPT !.exception = TRUE] \/ d = [e EXCEPT !.blocked = TRUE]
      \/ d = [e EXCEPT !.grey = TRUE]
      \/ d = [e EXCEPT !.gomitm = TRUE] /\ c.candidate
  BY Zenon, <1>2
<1>6. d \in CMType
  <2>1. [e EXCEPT !.exception = TRUE] \in CMType /\ [e EXCEPT !.blocked = TRUE] \in CMType
    BY Zenon, <1>3 DEF CMType
  <2>2. [e EXCEPT !.grey = TRUE] \in CMType /\ [e EXCEPT !.gomitm = TRUE] \in CMType
    BY Zenon, <1>3 DEF CMType
  <2> QED BY Zenon, <1>5, <2>1, <2>2
<1>7. /\ d.automitm = e.automitm /\ (d.gomitm => e.gomitm \/ c.candidate)
      /\ d.nomitm = e.nomitm /\ d.done = e.done /\ d.special = e.special
  BY <1>3, <1>5, ZenonT(60) DEF CMType
<1> QED BY <1>1, <1>4, <1>6, <1>7, Zenon

LEMMA TStorySays ==
  ASSUME Types, TReady(cm), cm.gomitm => cm.done /\ MayMitm, TStory
  PROVE  cm' \in CMType /\ TJudged(cm)'
<1> DEFINE j == TJudge(cm)
<1>1. /\ j \in CMType
      /\ j.nomitm = (cm.nomitm \/ (cm.special = "no" /\ ~MayMitm))
      /\ j.candidate => MayMitm /\ hello.sni
      /\ j.automitm => MayMitm
      /\ j.gomitm = cm.gomitm /\ j.done = cm.done /\ j.special = cm.special
      /\ j.blocked = cm.blocked /\ j.naughty = cm.naughty /\ j.exception = cm.exception
  BY TJudgeSays, Zenon DEF Types, TReady
<1>2. PICK c \in TRequestStory(j) : cm' = [c EXCEPT !.direct = @ \/ conf.gateways]
  BY Zenon DEF TStory
<1>3. TStoryRuns(j) = TStoryRuns(cm)
  BY <1>1, Zenon DEF TStoryRuns
<1>4. cm.special \in {"no", "exception", "banned"}
  BY Zenon DEF Types, CMType
<1>5. vetted' = TStoryRuns(cm) /\ hello' = hello /\ MayMitm' = MayMitm /\ HasFG' = HasFG
  BY Zenon DEF TStory, MayMitm, HasFG, FG, client
<1> HIDE DEF j
<1> DEFINE Fits(d) ==
             /\ d.blocked => d.naughty
             /\ d.gomitm \/ d.automitm => d.nomitm \/ MayMitm
             /\ d.gomitm => hello.sni \/ d.done
             /\ d.done => d.gomitm \/ d.nomitm
             /\ \/ d.naughty \/ TStoryRuns(cm) \/ d.exception \/ d.done
                \/ d.special = "no" /\ ~HasFG
<1>6. c \in CMType /\ Fits(c)
  <2>1. CASE ~TStoryRuns(j)
    <3>1. c = j
      BY <2>1, Zenon DEF TRequestStory
    <3>2. ~TStoryRuns(cm)
      BY <1>3, <2>1, Zenon
    <3> QED BY <1>1, <1>4, <3>1, <3>2, Zenon DEF TReady, TStoryRuns
  <2>2. CASE TStoryRuns(j)
    <3>1. PICK d \in ThttpsVerdicts(j) : \/ c = [d EXCEPT !.naughty = FALSE, !.blocked = FALSE]
                                         \/ c = [d EXCEPT !.naughty = d.blocked]
      BY Zenon, <2>2 DEF TRequestStory
    <3>2. /\ d \in CMType
          /\ d.automitm => j.automitm \/ ~j.nomitm
          /\ d.gomitm => j.gomitm \/ j.candidate
          /\ d.nomitm = j.nomitm /\ d.done = j.done /\ d.special = j.special
      BY <1>1, ThttpsSays, Zenon
    <3>3. d.blocked \in BOOLEAN
      BY <3>2, Zenon DEF CMType
    <3>4. c \in CMType
      BY Zenon, <3>1, <3>2, <3>3, ReportOK
    <3>5. /\ c.automitm = d.automitm /\ c.gomitm = d.gomitm /\ c.nomitm = d.nomitm
          /\ c.done = d.done /\ (c.blocked => c.naughty)
      BY ZenonT(60), <3>1, <3>2 DEF CMType
    <3>6. TStoryRuns(cm) /\ ~cm.done /\ ~cm.blocked
      BY <1>3, <2>2, Zenon DEF TStoryRuns
    <3>7. ~j.nomitm => MayMitm
      BY <1>1, <1>4, <3>6, Zenon DEF TReady
    <3> QED BY <1>1, <3>2, <3>4, <3>5, <3>6, <3>7, Zenon
  <2> QED BY <2>1, <2>2, Zenon
<1>7. PICK g \in BOOLEAN : cm' = [c EXCEPT !.direct = g]
  BY <1>2, Zenon
<1>8. cm' \in CMType
  BY <1>6, <1>7, Zenon DEF CMType
<1>9. /\ cm'.blocked = c.blocked /\ cm'.naughty = c.naughty /\ cm'.gomitm = c.gomitm
      /\ cm'.automitm = c.automitm /\ cm'.nomitm = c.nomitm /\ cm'.done = c.done
      /\ cm'.exception = c.exception /\ cm'.special = c.special
  BY <1>6, <1>7, Zenon DEF CMType
<1>10. TJudged(cm)'
  BY <1>5, <1>6, <1>9, Zenon DEF TJudged
<1> QED BY <1>8, <1>10, Zenon

(* Where a transparent connection goes.                                     *)
LEMMA TRouteSays ==
  ASSUME NEW c \in CMType, TRoute(c), TJudged(c), UNCHANGED <<hello, conf, filtergroup, vetted>>
  PROVE  /\ cm' \in CMType /\ pc' \in {"mitm", "ttunnel"}
         /\ pc' = "mitm" => MayMitm' /\ ~cm'.nomitm /\ (hello'.sni \/ cm'.done)
         /\ pc' = "ttunnel" /\ ~cm'.naughty /\ cm'.rest =>
              /\ ~cm'.blocked
              /\ \/ vetted' \/ cm'.exception \/ (cm'.done /\ cm'.nomitm)
                 \/ cm'.special = "no" /\ ~HasFG'
<1> DEFINE g == c.gomitm \/ ((c.naughty \/ c.upfail) /\ c.automitm /\ hello.sni)
           d == [c EXCEPT !.gomitm = g]
           mitm == ~(d.exception /\ ~d.upfail) /\ d.gomitm /\ ~d.nomitm
           r == ~mitm /\ ~d.upfail
<1>1. cm' = [d EXCEPT !.rest = r] /\ pc' = IF mitm THEN "mitm" ELSE "ttunnel"
  BY Zenon DEF TRoute
<1>2. g \in BOOLEAN /\ (g => c.gomitm \/ (c.automitm /\ hello.sni)) /\ (c.gomitm => g)
  BY Zenon
<1> HIDE DEF g
<1>3. d \in CMType
  BY <1>2, Zenon DEF CMType
<1>4. /\ d.gomitm = g /\ d.blocked = c.blocked /\ d.naughty = c.naughty /\ d.nomitm = c.nomitm
      /\ d.done = c.done /\ d.exception = c.exception /\ d.special = c.special
      /\ d.upfail = c.upfail
  BY <1>2, Zenon DEF CMType
<1>5. r \in BOOLEAN /\ (r => ~mitm /\ ~d.upfail)
  BY Zenon
<1>6. mitm => g /\ ~c.nomitm
  BY <1>4, Zenon
<1>7. ~mitm /\ ~c.upfail => c.exception \/ ~g \/ c.nomitm
  BY <1>4, Zenon
<1> HIDE DEF r, mitm, d
<1>8. cm' \in CMType
  BY <1>1, <1>3, <1>5, ZenonT(60) DEF CMType
<1>9. /\ cm'.gomitm = d.gomitm /\ cm'.blocked = d.blocked /\ cm'.naughty = d.naughty
      /\ cm'.nomitm = d.nomitm /\ cm'.done = d.done /\ cm'.exception = d.exception
      /\ cm'.special = d.special /\ cm'.rest = r
  BY <1>1, <1>3, Zenon DEF CMType
<1>10. MayMitm' = MayMitm /\ HasFG' = HasFG
  BY Zenon DEF MayMitm, HasFG, FG
<1>11. pc' = "mitm" => MayMitm' /\ ~cm'.nomitm /\ (hello'.sni \/ cm'.done)
  BY <1>1, <1>2, <1>4, <1>6, <1>9, <1>10, Zenon DEF TJudged
<1>12. pc' = "ttunnel" /\ ~cm'.naughty /\ cm'.rest =>
         /\ ~cm'.blocked
         /\ \/ vetted' \/ cm'.exception \/ (cm'.done /\ cm'.nomitm)
            \/ cm'.special = "no" /\ ~HasFG'
  BY <1>1, <1>2, <1>4, <1>5, <1>7, <1>9, <1>10, Zenon DEF TJudged
<1> QED BY <1>1, <1>8, <1>11, <1>12, Zenon

(* Every step of handleTHTTPSConnection.                                    *)
TStep ==
  \/ Peek \/ TPreAuth \/ TAuth \/ TNotAuthenticated \/ TStory \/ TRefuse
  \/ \E r \in {"connected", "refused", "fails"} : TConnect(r)
  \/ TTunnel

LEMMA TConnectSays ==
  ASSUME Types, pc = "tupstream", TFlags,
         TRefuse \/ \E r \in {"connected", "refused", "fails"} : TConnect(r)
  PROVE  \E c \in CMType : /\ TRoute(c) /\ TJudged(c)
                           /\ UNCHANGED <<hello, conf, filtergroup, vetted>>
<1>1. cm \in CMType /\ TJudged(cm)
  BY Zenon DEF Types, TFlags
<1>2. UNCHANGED <<hello, conf, filtergroup, vetted>>
  BY Zenon DEF TRefuse, TConnect, client
<1>3. CASE TRoute(cm)
  BY <1>1, <1>2, <1>3, Zenon
<1>4. CASE TRoute([cm EXCEPT !.naughty = TRUE, !.upfail = TRUE])
  <2> DEFINE c == [cm EXCEPT !.naughty = TRUE, !.upfail = TRUE]
  <2>1. c \in CMType
    BY ZenonT(30), <1>1 DEF CMType
  <2>2. /\ c.naughty /\ c.gomitm = cm.gomitm /\ c.automitm = cm.automitm /\ c.nomitm = cm.nomitm
        /\ c.done = cm.done
    BY <1>1, Zenon DEF CMType
  <2> HIDE DEF c
  <2>3. TJudged(c)
    BY <1>1, <2>2, Zenon DEF TJudged
  <2> QED BY <1>2, <1>4, <2>1, <2>3, Zenon DEF c
<1>5. CASE TRoute(UpFails(cm))
  <2>1. UpFails(cm) \in CMType
    BY <1>1, UpFailsOK, Zenon
  <2>2. /\ UpFails(cm).naughty /\ UpFails(cm).gomitm = cm.gomitm
        /\ UpFails(cm).automitm = cm.automitm /\ UpFails(cm).nomitm = cm.nomitm
        /\ UpFails(cm).done = cm.done
    BY <1>1, Zenon DEF CMType, UpFails
  <2>3. TJudged(UpFails(cm))
    BY <1>1, <2>2, Zenon DEF TJudged
  <2> QED BY <1>2, <1>5, <2>1, <2>3, Zenon
<1>6. ASSUME NEW r \in {"connected", "refused", "fails"}, TConnect(r)
      PROVE  TRoute(cm) \/ TRoute([cm EXCEPT !.naughty = TRUE, !.upfail = TRUE]) \/ TRoute(UpFails(cm))
  BY <1>6, Zenon DEF TConnect
<1> QED BY <1>3, <1>4, <1>5, <1>6, Zenon DEF TRefuse

LEMMA TStepKeeps ==
  ASSUME Types, hello # NoHello, Talk, TFlags, TStep
  PROVE  /\ Types' /\ hello' = hello /\ pc' \in TSteps \cup {"mitm", "closed"}
         /\ Talk' /\ TFlags'
<1>1. /\ Fixed /\ pc \in TSteps
      /\ pc = "ttunnel" \/ UNCHANGED <<sent, logged>>
  BY Zenon DEF TStep, Fixed, TSteps, Peek, TPreAuth, TAuth, TNotAuthenticated, TStory, TRefuse, TConnect,
         TTunnel, loop
<1>2. hello' = hello /\ sent = <<>>
  BY <1>1, Zenon DEF Fixed, Talk
<1>3. up' \in UpType
  <2>1. req.dest \in Dests
    BY ConstantsAssumption, Zenon DEF Types, RequestType
  <2>2. up' \in {up, Shut, Open(req.dest)}
    BY Zenon DEF TStep, Peek, TPreAuth, TAuth, TNotAuthenticated, TStory, TRefuse, TConnect, TTunnel, Leave
  <2> QED BY <2>1, <2>2, ShutOK, Zenon DEF Types
<1>4. cm \in CMType
  BY Zenon DEF Types
<1>5. CASE TTunnel
  <2>1. /\ pc = "ttunnel" /\ pc' = "closed" /\ logged = 0 /\ logged' = 1
        /\ UNCHANGED <<cm, vetted, filtergroup>>
        /\ sent' = IF ~cm.naughty /\ cm.rest THEN Append(sent, "tunnel") ELSE sent
    BY <1>5 DEF TTunnel, Leave, Talk, client
  <2>2. CASE ~cm.naughty /\ cm.rest
    <3>1. "tunnel" \in Tokens /\ "tunnel" \notin Answers
      BY Zenon DEF Tokens, Answers
    <3>2. /\ sent' \in Seq(Tokens) /\ OneOfAnswers' /\ Said' = {"tunnel"}
      BY <1>2, <2>1, <2>2, <3>1, NothingSaid, OneMore, Zenon
    <3>3. Talk'
      BY <2>1, <3>2, Zenon DEF Talk, Unsent, TSteps
    <3>4. DeliveredIsJudged'
      BY <1>2, <2>1, <2>2, Zenon DEF TFlags, DeliveredIsJudged, HasFG
    <3> QED BY <1>1, <1>2, <1>3, <1>4, <2>1, <3>3, <3>4, TTypes, Zenon DEF TFlags
  <2>3. CASE ~(~cm.naughty /\ cm.rest)
    <3>1. sent' = <<>> /\ Said' = {} /\ OneOfAnswers' /\ sent' \in Seq(Tokens)
      BY <1>2, <2>1, <2>3, NothingSaid1, Zenon
    <3>2. Talk'
      BY <2>1, <3>1, Zenon DEF Talk, Unsent, TSteps
    <3>3. DeliveredIsJudged'
      BY <1>2, <3>1, Zenon DEF DeliveredIsJudged
    <3> QED BY <1>1, <1>2, <1>3, <1>4, <2>1, <3>2, <3>3, TTypes, Zenon DEF TFlags
  <2> QED BY <2>2, <2>3, Zenon
<1>6. SUFFICES ASSUME ~TTunnel, TStep
               PROVE  /\ cm' \in CMType /\ pc' \in TSteps \cup {"mitm", "closed"}
                      /\ UNCHANGED <<sent, logged>>
                      /\ DeliveredIsJudged' => TFlags'
  <2>1. CASE TTunnel
    BY <1>5, <2>1, Zenon
  <2>2. CASE ~TTunnel
    <3>1. /\ cm' \in CMType /\ pc' \in TSteps \cup {"mitm", "closed"}
          /\ UNCHANGED <<sent, logged>>
          /\ DeliveredIsJudged' => TFlags'
      BY <1>6, <2>2, Zenon
    <3>2. Talk' /\ DeliveredIsJudged'
      BY <1>1, <1>2, <3>1, TUnheard, Zenon
    <3> QED BY <1>1, <1>2, <1>3, <3>1, <3>2, TTypes, Zenon
  <2> QED BY <2>1, <2>2, Zenon
<1>7. UNCHANGED <<sent, logged>>
  BY <1>6, Zenon DEF TStep, Peek, TPreAuth, TAuth, TNotAuthenticated, TStory, TRefuse, TConnect
<1>8. CASE Peek
  <2>1. /\ pc = "hello" /\ pc' \in {"tpreauth", "closed"} /\ cm' = cm /\ filtergroup' = DefaultTransFG
        /\ UNCHANGED <<conf, req>>
    BY <1>8, Zenon DEF Peek
  <2>2. cm' = Fresh(req)'
    BY <2>1, Zenon DEF TFlags, Fresh
  <2> QED BY <1>4, <1>7, <2>1, <2>2, Zenon DEF TFlags, TSteps
<1>9. CASE TPreAuth
  <2>1. pc = "tpreauth" /\ filtergroup = DefaultTransFG /\ cm = Fresh(req)
    BY <1>9, Zenon DEF TPreAuth, TFlags
  <2>2. TUnjudged(cm)
    BY <2>1, Zenon DEF TUnjudged, Fresh
  <2>3. /\ cm' \in CMType
        /\ pc' = "tstory" => TReady(cm') /\ ~cm'.gomitm
        /\ pc' = "tauth" => TUnjudged(cm') /\ filtergroup' = filtergroup
        /\ pc' \in {"tstory", "tauth"}
    BY <1>4, <1>9, <2>2, TPreAuthSays, Zenon
  <2> QED BY <1>7, <2>1, <2>3, Zenon DEF TFlags, TSteps, TReady, TUnjudged
<1>10. CASE TAuth
  <2>1. pc = "tauth" /\ pc' = "tstory"
    BY <1>10, Zenon DEF TAuth
  <2>2. filtergroup = DefaultTransFG /\ TUnjudged(cm)
    BY <2>1, Zenon DEF TFlags
  <2>3. cm' \in CMType /\ TReady(cm') /\ (cm'.gomitm => cm'.done /\ MayMitm')
    BY <1>4, <1>10, <2>2, TAuthSays, Zenon
  <2> QED BY <1>7, <2>1, <2>3, Zenon DEF TFlags, TSteps, TReady
<1>11. CASE TNotAuthenticated
  <2>1. pc' = "closed" /\ cm' = cm
    BY <1>11, Zenon DEF TNotAuthenticated, Leave
  <2> QED BY <1>4, <1>7, <2>1, Zenon DEF TFlags
<1>12. CASE TStory
  <2>1. pc = "tstory" /\ pc' = "tupstream"
    BY <1>12, Zenon DEF TStory
  <2>2. cm' \in CMType /\ TJudged(cm)'
    BY <1>12, <2>1, TStorySays, Zenon DEF TFlags
  <2> QED BY <1>7, <2>1, <2>2, Zenon DEF TFlags, TSteps
<1>13. CASE TRefuse \/ \E r \in {"connected", "refused", "fails"} : TConnect(r)
  <2>1. pc = "tupstream"
    BY <1>13, Zenon DEF TRefuse, TConnect
  <2>2. PICK c \in CMType : /\ TRoute(c) /\ TJudged(c)
                            /\ UNCHANGED <<hello, conf, filtergroup, vetted>>
    BY <1>13, <2>1, TConnectSays, Zenon
  <2>3. /\ cm' \in CMType /\ pc' \in {"mitm", "ttunnel"}
        /\ pc' = "mitm" => MayMitm' /\ ~cm'.nomitm /\ (hello'.sni \/ cm'.done)
        /\ pc' = "ttunnel" /\ ~cm'.naughty /\ cm'.rest =>
             /\ ~cm'.blocked
             /\ \/ vetted' \/ cm'.exception \/ (cm'.done /\ cm'.nomitm)
                \/ cm'.special = "no" /\ ~HasFG'
    BY <2>2, TRouteSays, Zenon
  <2> QED BY <1>7, <2>3, Zenon DEF TFlags, TSteps
<1> QED BY <1>6, <1>8, <1>9, <1>10, <1>11, <1>12, <1>13, Zenon DEF TStep

-----------------------------------------------------------------------------
(* A whole connection                                                       *)

LEMMA NextAt ==
  ASSUME Next
  PROVE  /\ pc \in Steps
         /\ pc \in {"mitm", "closed"} =>
              Intercept \/ ClientHandshakeFails \/ DenyInside \/ MitmClientGone \/ Over
<1>1. \/ pc \in Steps \ {"mitm", "closed"}
      \/ Intercept \/ ClientHandshakeFails \/ DenyInside \/ MitmClientGone \/ Over
  BY ZenonT(60) DEF Next, Steps, NoHeader, ReadRequest, AnswerURL, PreAuth, Authenticated, NotAuthenticated,
         StatusPage, ScanBypass, StoryRequest, Refuse, Establish, SendHead, Reuse, ConnectUpstream,
         NotSent, Reconnect, ExchangeFails, Exchange, Route, CheckResponse, Deliver, NotDelivered,
         Finish
<1>2. ASSUME Intercept \/ ClientHandshakeFails \/ DenyInside \/ MitmClientGone \/ Over
      PROVE  pc \in {"mitm", "closed"}
  BY <1>2, Zenon DEF Intercept, ClientHandshakeFails, DenyInside, MitmClientGone, Over
<1> QED BY <1>1, <1>2, Zenon DEF Steps

LEMMA TStepAt == ASSUME TStep PROVE pc \in TSteps
BY Zenon DEF TStep, TSteps, Peek, TPreAuth, TAuth, TNotAuthenticated, TStory, TRefuse, TConnect, TTunnel

LEMMA StutterKeeps ==
  ASSUME JInv, UNCHANGED tvars
  PROVE  JInv'
<1>1. /\ UNCHANGED <<hello, conf, class, filtergroup, persistent_authed, pc, ismitm, firsttime,
                     persistOutgoing, last_isdirect, last_domain_port>>
      /\ UNCHANGED <<persistPeer, persistProxy, req, cm, resp, up, gone, sent, logged, vetted, lost>>
  BY Zenon DEF tvars, vars, client, loop
<1>2. IInv => IInv'
  BY NextOK, Zenon DEF tvars
<1>3. Types => Types'
  BY <1>1, Zenon DEF Types
<1>4. PInv'
  BY <1>1, <1>2, <1>3, Zenon DEF JInv, PInv
<1>5. Said' = Said /\ OneOfAnswers' = OneOfAnswers /\ SilentGroup' = SilentGroup
  BY <1>1, SameSaid, Zenon DEF SilentGroup, HasFG
<1>6. Talk'
  BY <1>1, <1>5, ZenonT(60) DEF JInv, Talk
<1>7. Fresh(req)' = Fresh(req) /\ MayMitm' = MayMitm /\ HasFG' = HasFG
  BY <1>1, Zenon DEF Fresh, MayMitm, HasFG, FG
<1>8. JudgedBeforeDelivered' = JudgedBeforeDelivered /\ DeliveredIsJudged' = DeliveredIsJudged
  BY <1>1, <1>5, <1>7, Zenon DEF JudgedBeforeDelivered, DeliveredIsJudged
<1>9. Flags => Flags'
  BY <1>1, <1>7, <1>8, Zenon DEF Flags, Unjudged, Permitted
<1>10. TFlags => TFlags'
  <2>1. TJudged(cm)' = TJudged(cm)
    BY <1>1, <1>7, Zenon DEF TJudged
  <2> QED BY <1>1, <1>7, <1>8, <2>1, Zenon DEF TFlags
<1> QED BY <1>1, <1>4, <1>6, <1>9, <1>10, Zenon DEF JInv

LEMMA NextKeeps ==
  ASSUME JInv, Next, hello' = IF ismitm' THEN NoHello ELSE hello
  PROVE  JInv'
<1>1. CASE hello = NoHello
  <2>1. IInv /\ Talk /\ Flags
    BY <1>1, Zenon DEF JInv, PInv
  <2>2. IInv'
    BY <2>1, NextOK, Zenon
  <2>3. Talk' /\ Flags' /\ pc' \in Steps
    BY <2>1, LoopStep, Zenon
  <2>4. hello' = NoHello
    BY <1>1, Zenon
  <2> QED BY <2>2, <2>3, <2>4, Zenon DEF JInv, PInv
<1>2. CASE hello # NoHello
  <2>1. Types /\ ~ismitm /\ Talk /\ TFlags /\ pc \in {"mitm", "closed"}
    BY <1>2, NextAt, Zenon DEF JInv, PInv, Steps, TSteps
  <2>2. CASE Over
    <3>1. UNCHANGED vars /\ ismitm' = ismitm
      BY <2>2, Zenon DEF Over, vars, loop
    <3> QED BY <2>1, <3>1, StutterKeeps, Zenon DEF tvars
  <2>3. CASE Intercept
    <3>1. Talk' /\ Said' \cap Content = {}
      BY <2>1, <2>3, MitmTalk, Zenon
    <3>2. IInv' /\ ismitm' /\ pc' = "read"
      BY <2>1, <2>3, InterceptOK, Zenon DEF Intercept
    <3>3. Flags'
      BY <3>1, <3>2, LoopFlags, Zenon DEF JudgedBeforeDelivered, Content
    <3> QED BY <3>1, <3>2, <3>3, Zenon DEF JInv, PInv, Steps
  <2>4. CASE ClientHandshakeFails \/ DenyInside \/ MitmClientGone
    <3>1. Talk' /\ Said' \cap Content = {}
      BY <2>1, <2>4, MitmTalk, Zenon
    <3>2. Types'
      BY <2>1, <2>4, EndOK, Zenon DEF IInv
    <3>3. ismitm' = ismitm /\ pc' = "closed"
      BY <2>4, Zenon DEF ClientHandshakeFails, DenyInside, MitmClientGone, Leave, loop
    <3>4. hello' = hello
      BY <2>1, <3>3, Zenon
    <3>5. DeliveredIsJudged'
      BY <1>2, <3>1, <3>4, Zenon DEF DeliveredIsJudged, Content
    <3> QED BY <1>2, <2>1, <3>1, <3>2, <3>3, <3>4, <3>5, Zenon DEF JInv, PInv, TFlags
  <2> QED BY <2>1, <2>2, <2>3, <2>4, NextAt, Zenon
<1> QED BY <1>1, <1>2, Zenon

LEMMA JInvStep == JInv /\ [TNext]_tvars => JInv'
<1> SUFFICES ASSUME JInv, [TNext]_tvars PROVE JInv'
  BY Zenon
<1>1. CASE UNCHANGED tvars
  BY <1>1, StutterKeeps, Zenon
<1>2. CASE Next /\ hello' = IF ismitm' THEN NoHello ELSE hello
  BY <1>2, NextKeeps, Zenon
<1>3. CASE TStep
  <2>1. hello # NoHello
    BY <1>3, TStepAt, Zenon DEF JInv, PInv, Steps, TSteps
  <2>2. Types /\ ~ismitm /\ Talk /\ TFlags
    BY <2>1, Zenon DEF JInv, PInv
  <2>3. /\ Types' /\ hello' = hello /\ pc' \in TSteps \cup {"mitm", "closed"}
        /\ Talk' /\ TFlags'
    BY <1>3, <2>1, <2>2, TStepKeeps, Zenon
  <2>4. ismitm' = ismitm
    BY <1>3, Zenon DEF TStep, Peek, TPreAuth, TAuth, TNotAuthenticated, TStory, TRefuse, TConnect, TTunnel, loop
  <2> QED BY <2>1, <2>2, <2>3, <2>4, Zenon DEF JInv, PInv
<1> QED BY <1>1, <1>2, <1>3, Zenon DEF TNext, TStep

LEMMA JInvStarts == handlePeer => JInv
<1>1. ASSUME Init, hello = NoHello PROVE JInv
  <2>1. IInv /\ pc = "read"
    BY <1>1, InitOK, Zenon DEF Init
  <2>2. Said = {} /\ OneOfAnswers /\ sent \in Seq(Tokens) /\ logged = 0 /\ firsttime
    BY <1>1, NothingSaid, Zenon DEF Init
  <2>3. Talk
    BY <2>1, <2>2, Zenon DEF Talk, Unsent, TSteps
  <2>4. Flags
    BY <2>1, <2>2, Zenon DEF Flags, Unjudged, Permitted, Unsent, Judging, Working, After, JudgedBeforeDelivered
  <2> QED BY <1>1, <2>1, <2>3, <2>4, Zenon DEF JInv, PInv, Steps
<1>2. ASSUME TInit PROVE JInv
  <2>1. hello # NoHello
    BY <1>2 DEF TInit, Hellos, NoHello
  <2>2. Types
    BY Zenon, <1>2, FreshOK, ShutOK DEF TInit, Types, NoResponse, RespType
  <2>3. Said = {} /\ OneOfAnswers /\ sent \in Seq(Tokens) /\ sent = <<>> /\ logged = 0
    BY <1>2, NothingSaid, Zenon DEF TInit
  <2>4. pc = "hello" /\ cm = Fresh(req) /\ ~ismitm
    BY <1>2, Zenon DEF TInit
  <2>5. Talk
    BY <2>3, <2>4, Zenon DEF Talk, Unsent, TSteps
  <2>6. TFlags
    BY <2>1, <2>3, <2>4, Zenon DEF TFlags, DeliveredIsJudged
  <2> QED BY <2>1, <2>2, <2>4, <2>5, <2>6, Zenon DEF JInv, PInv, TSteps
<1> QED BY <1>1, <1>2, Zenon DEF handlePeer

LEMMA JInvHolds == PeerSpec => []JInv
BY JInvStarts, JInvStep, PTL DEF PeerSpec

(* On every connection, proxied, transparent or intercepted, a request goes  *)
(* upstream over a connection to the server it names or to the parent proxy, *)
(* with nothing left of an earlier response on it, apart from the cases lost *)
(* records.                                                                 *)
THEOREM EveryRequestReachesItsPeer == PeerSpec => []UpstreamMatches
<1>1. JInv => UpstreamMatches
  <2> SUFFICES ASSUME JInv, pc = "send", ~cm.upfail
               PROVE  /\ IF ismitm THEN up.to \in Dests ELSE up.to = Target(cm)
                      /\ up.unread => lost
    BY Zenon DEF UpstreamMatches
  <2>1. IInv
    BY Zenon DEF JInv, PInv, TSteps
  <2> QED BY <2>1, Zenon DEF IInv, BeforeSend, Reaches, Clean
<1> QED BY <1>1, JInvHolds, PTL

(* A refusal is never mixed with what the server sent, and what a story or   *)
(* the lists of banned addresses and rooms block never goes upstream.        *)
THEOREM RefusalsStand == PeerSpec => []RefusedIsRefused
<1>1. JInv => RefusedIsRefused
  <2> SUFFICES ASSUME JInv PROVE RefusedIsRefused
    BY Zenon
  <2>1. Talk /\ pc \in Steps \cup TSteps
    BY Zenon DEF JInv, PInv, Steps
  <2>2. pc = "send" => ~cm.blocked
    BY Zenon DEF JInv, PInv, TSteps, Flags, Unjudged
  <2>3. pc \in Unsent \cup TSteps => Said = {}
    BY <2>1, NothingSaid, Zenon DEF Talk
  <2>4. "deny" \in Said => Said \cap {"head", "body", "part", "tunnel"} = {}
    BY <2>1, <2>3, Zenon DEF Talk, Content, Unsent, Steps
  <2> QED BY <2>2, <2>4, Zenon DEF RefusedIsRefused
<1> QED BY <1>1, JInvHolds, PTL

(* No content reaches a client unless a story of its group has judged the    *)
(* request or the response, or one of the exceptions the property names      *)
(* holds; the same of a transparent connection that is passed on as it is.   *)
THEOREM NothingUnjudgedIsDelivered == PeerSpec => []DeliveredIsJudged
<1>1. JInv => DeliveredIsJudged
  BY Zenon DEF JInv, Flags, Permitted, TFlags, DeliveredIsJudged
<1> QED BY <1>1, JInvHolds, PTL

(* Every request gets at most one answer, the loop waits for the next one    *)
(* only after an answer (or silently, at reporting level -1), and a refusal  *)
(* or content is logged exactly once.                                       *)
THEOREM OneAnswerEach == PeerSpec => []AnsweredOnce
<1>1. JInv => AnsweredOnce
  BY DEF JInv, Talk, OneOfAnswers, AnsweredOnce, SilentGroup, Content
<1> QED BY <1>1, JInvHolds, PTL

(* A transparent connection is intercepted only for a group that intercepts, *)
(* never for a site or client exempt from it, and only where the client      *)
(* named the server or must log in.                                         *)
THEOREM OnlyAllowedInterception == PeerSpec => []InterceptionAllowed
<1>1. JInv => InterceptionAllowed
  BY Zenon DEF JInv, TFlags, MayMitm, InterceptionAllowed
<1> QED BY <1>1, JInvHolds, PTL

=============================================================================
