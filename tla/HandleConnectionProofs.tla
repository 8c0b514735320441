----------------------- MODULE HandleConnectionProofs -----------------------
(***************************************************************************)
(* The upstream connection that handleConnection keeps between requests     *)
(* always reaches the peer the next request is meant for; and what every    *)
(* step of its loop may rely on about the flags of the request and about    *)
(* what the client was told (LoopStep), which THTTPSProofs uses.            *)
(***************************************************************************)
EXTENDS HandleConnection, TLAPS

-----------------------------------------------------------------------------
(* What each party that judges a request may change of its NaughtyFilter:   *)
(* facts about the operators of HandleConnection, for its proofs.           *)

(* The fields that say how the upstream connection is used are the same.    *)
Same(c, d) ==
  /\ c.direct = d.direct /\ c.upfail = d.upfail
  /\ c.connect = d.connect /\ c.checked = d.checked

(* setURL gives a request a filter of the right type, direct exactly if      *)
(* there is no parent proxy.                                                *)
LEMMA FreshOK ==
  ASSUME conf \in Confs, NEW r \in Requests
  PROVE  /\ Fresh(r) \in CMType
         /\ Fresh(r).direct = conf.no_proxy /\ ~Fresh(r).upfail /\ ~Fresh(r).checked
BY ConstantsAssumption, Zenon DEF Fresh, CMType, ConfType, RequestType

(* Same, except that the request may now go direct.                         *)
MayGoDirect(c, d) ==
  /\ d.direct => c.direct
  /\ c.upfail = d.upfail /\ c.connect = d.connect /\ c.checked = d.checked

(* The pre-authentication story may send a request direct; it and the rooms  *)
(* change nothing else of the connection.                                   *)
LEMMA UnbrokenOK ==
  ASSUME NEW c \in CMType, NEW d \in Unbroken(c)
  PROVE  d \in CMType /\ Same(d, c)
<1>1. CASE d = c
  BY <1>1, Zenon DEF Same
<1>2. CASE d = [c EXCEPT !.nomitm = TRUE, !.gomitm = FALSE, !.automitm = FALSE]
  BY ZenonT(30), <1>2 DEF CMType, Same
<1>3. CASE d = [c EXCEPT !.automitm = FALSE]
  BY Zenon, <1>3 DEF CMType, Same
<1> QED BY <1>1, <1>2, <1>3, Zenon DEF Unbroken

LEMMA PreAuthVerdictsOK ==
  ASSUME NEW c \in CMType, NEW d \in PreAuthVerdicts(c)
  PROVE  d \in CMType /\ MayGoDirect(d, c)
<1> DEFINE e == [c EXCEPT !.exception = TRUE, !.direct = TRUE]
<1>1. e \in CMType /\ MayGoDirect(e, c)
  BY ZenonT(30) DEF CMType, MayGoDirect
<1>2. CASE d \in Unbroken(c)
  BY <1>2, UnbrokenOK, Zenon DEF Same, MayGoDirect
<1>3. CASE d \in Unbroken(e)
  <2> HIDE DEF e
  <2>1. d \in CMType /\ Same(d, e)
    BY <1>1, <1>3, UnbrokenOK, Zenon
  <2> QED BY <1>1, <2>1, Zenon DEF Same, MayGoDirect
<1> QED BY <1>2, <1>3, Zenon DEF PreAuthVerdicts

LEMMA PreAuthSaysOK ==
  ASSUME cm \in CMType, NEW c \in PreAuthSays
  PROVE  c \in CMType /\ MayGoDirect(c, cm)
<1>1. CASE c = [cm EXCEPT !.exception = TRUE, !.special = "exception", !.nomitm = TRUE,
                          !.automitm = FALSE, !.authed = TRUE]
  BY ZenonT(30), <1>1 DEF CMType, MayGoDirect
<1>2. CASE c = [cm EXCEPT !.blocked = TRUE, !.naughty = TRUE, !.special = "banned",
                          !.authed = TRUE]
  BY ZenonT(30), <1>2 DEF CMType, MayGoDirect
<1>3. ASSUME NEW d \in PreAuthVerdicts(cm),
             c \in {d, [d EXCEPT !.exception = TRUE], [d EXCEPT !.blocked = TRUE, !.naughty = TRUE]}
      PROVE  c \in CMType /\ MayGoDirect(c, cm)
  <2>1. d \in CMType /\ MayGoDirect(d, cm)
    BY PreAuthVerdictsOK, Zenon
  <2>2. ASSUME NEW e \in CMType
        PROVE  /\ [e EXCEPT !.exception = TRUE] \in CMType
               /\ Same([e EXCEPT !.exception = TRUE], e)
    BY Zenon DEF CMType, Same
  <2>3. ASSUME NEW e \in CMType
        PROVE  /\ [e EXCEPT !.blocked = TRUE, !.naughty = TRUE] \in CMType
               /\ Same([e EXCEPT !.blocked = TRUE, !.naughty = TRUE], e)
    BY ZenonT(30) DEF CMType, Same
  <2>4. c \in CMType /\ Same(c, d)
    BY <1>3, <2>1, <2>2, <2>3, ZenonT(60) DEF Same
  <2> QED BY <2>1, <2>4, Zenon DEF Same, MayGoDirect
<1>4. \/ c = [cm EXCEPT !.exception = TRUE, !.special = "exception", !.nomitm = TRUE,
                        !.automitm = FALSE, !.authed = TRUE]
      \/ c = [cm EXCEPT !.blocked = TRUE, !.naughty = TRUE, !.special = "banned",
                        !.authed = TRUE]
      \/ \E d \in PreAuthVerdicts(cm) :
           c \in {d, [d EXCEPT !.exception = TRUE], [d EXCEPT !.blocked = TRUE, !.naughty = TRUE]}
  BY Zenon DEF PreAuthSays
<1> QED BY Zenon, <1>1, <1>2, <1>3, <1>4

(* A failed connectUpstream is remembered in upfail.                        *)
LEMMA UpFailsOK ==
  ASSUME NEW c \in CMType
  PROVE  /\ UpFails(c) \in CMType /\ UpFails(c).upfail
         /\ UpFails(c).direct = c.direct /\ UpFails(c).checked = c.checked
BY ZenonT(30) DEF UpFails, CMType

(* So is the failure of the early connection for NTLM.                      *)
LEMMA AfterEarlyOK ==
  ASSUME cm \in CMType, NEW ok \in BOOLEAN
  PROVE  /\ AfterEarly(ok) \in CMType
         /\ AfterEarly(ok).direct = cm.direct /\ AfterEarly(ok).checked = cm.checked
         /\ AfterEarly(ok).upfail => cm.upfail \/ (Early /\ ~ok)
<1>1. CASE Early /\ ~ok
  <2> DEFINE g == UpFails(cm).gomitm \/ (cm.connect /\ FG.mitm /\ FG.auto)
  <2>1. g \in BOOLEAN
    BY Zenon
  <2>2. AfterEarly(ok) = [UpFails(cm) EXCEPT !.gomitm = g]
    BY <1>1, Zenon DEF AfterEarly
  <2> HIDE DEF g
  <2>3. UpFails(cm) \in CMType /\ UpFails(cm).direct = cm.direct /\ UpFails(cm).checked = cm.checked
    BY UpFailsOK, Zenon
  <2>4. /\ AfterEarly(ok) \in CMType
        /\ AfterEarly(ok).direct = UpFails(cm).direct /\ AfterEarly(ok).checked = UpFails(cm).checked
    BY <2>1, <2>2, <2>3 DEF CMType
  <2> QED BY <1>1, <2>3, <2>4, Zenon
<1>2. CASE ~(Early /\ ~ok)
  <2>1. AfterEarly(ok) = cm
    BY <1>2, Zenon DEF AfterEarly
  <2> QED BY <2>1, Zenon
<1> QED BY <1>1, <1>2, Zenon

(* Deciding who may be intercepted, a bypass and the choice of scanners      *)
(* leave the connection alone.                                              *)
LEMMA JudgeOK ==
  ASSUME NEW c \in CMType
  PROVE  Judge(c) \in CMType /\ Same(Judge(c), c)
<1>1. ASSUME NEW x \in BOOLEAN, NEW y \in BOOLEAN, NEW z \in BOOLEAN
      PROVE  [c EXCEPT !.candidate = x, !.nomitm = y, !.automitm = z] \in CMType
  BY Zenon DEF CMType
<1>2. ASSUME NEW x \in BOOLEAN, NEW y \in BOOLEAN, NEW z \in BOOLEAN
      PROVE  Same([c EXCEPT !.candidate = x, !.nomitm = y, !.automitm = z], c)
  BY Zenon DEF CMType, Same
<1> DEFINE p == Candidate(c)
           q == c.nomitm \/ ~Candidate(c)
           r == c.automitm /\ Candidate(c) /\ FG.auto
<1>3. p \in BOOLEAN /\ q \in BOOLEAN /\ r \in BOOLEAN
  BY Zenon DEF Candidate
<1>4. Judge(c) = [c EXCEPT !.candidate = p, !.nomitm = q, !.automitm = r]
  BY Zenon DEF Judge
<1> HIDE DEF p, q, r
<1> QED BY Zenon, <1>1, <1>2, <1>3, <1>4

LEMMA BypassedOK ==
  ASSUME NEW c \in CMType, NEW b \in Bypassed(c)
  PROVE  b \in CMType /\ Same(b, c)
<1>1. b = c \/ \E x \in {"asked", "held"} : b = [c EXCEPT !.exception = TRUE, !.bypass = x]
  BY Zenon DEF Bypassed
<1> QED BY ZenonT(30), <1>1 DEF CMType, Same

LEMMA SetNoScanOK ==
  ASSUME NEW c \in CMType
  PROVE  SetNoScan(c) \in CMType /\ Same(SetNoScan(c), c)
<1>1. PICK n \in BOOLEAN : SetNoScan(c) = [c EXCEPT !.noscan = n]
  BY Zenon DEF SetNoScan
<1> QED BY <1>1 DEF CMType, Same

(* The request story may send a request direct and changes nothing else of   *)
(* the connection.                                                          *)
LEMMA VerdictsOK ==
  ASSUME NEW c \in CMType, NEW d \in Verdicts(c)
  PROVE  d \in CMType /\ Same(d, c)
<1>1. (~c.nomitm) \in BOOLEAN
  BY Zenon
<1>2. ASSUME NEW a \in BOOLEAN,
             d = [c EXCEPT !.blocked = TRUE, !.grey = FALSE, !.exception = FALSE, !.automitm = a]
      PROVE  d \in CMType /\ Same(d, c)
  BY ZenonT(30), <1>2 DEF CMType, Same
<1>3. CASE d = [c EXCEPT !.exception = TRUE, !.grey = FALSE, !.blocked = FALSE]
  BY ZenonT(30), <1>3 DEF CMType, Same
<1>4. CASE d = [c EXCEPT !.grey = TRUE, !.exception = FALSE, !.blocked = FALSE]
  BY ZenonT(30), <1>4 DEF CMType, Same
<1>5. CASE d = [c EXCEPT !.grey = TRUE, !.logcat = TRUE]
  BY Zenon, <1>5 DEF CMType, Same
<1>6. CASE d = [c EXCEPT !.redirect = TRUE]
  BY Zenon, <1>6 DEF CMType, Same
<1>7. CASE d = [c EXCEPT !.gomitm = TRUE]
  BY Zenon, <1>7 DEF CMType, Same
<1>8. CASE d = [c EXCEPT !.redirect = TRUE, !.grey = TRUE]
  BY Zenon, <1>8 DEF CMType, Same
<1>9. CASE d = c
  BY <1>9, Zenon DEF Same
<1> QED BY Zenon, <1>1, <1>2, <1>3, <1>4, <1>5, <1>6, <1>7, <1>8, <1>9 DEF Verdicts

LEMMA RoutedOK ==
  ASSUME NEW c \in CMType, NEW d \in Routed(c)
  PROVE  d \in CMType /\ MayGoDirect(d, c)
<1>1. CASE d = c
  BY <1>1, Zenon DEF MayGoDirect
<1>2. CASE d = [c EXCEPT !.direct = TRUE]
  BY Zenon, <1>2 DEF MayGoDirect, CMType
<1>3. CASE d = [c EXCEPT !.noscan = TRUE]
  BY Zenon, <1>3 DEF MayGoDirect, CMType
<1>4. CASE d = [c EXCEPT !.direct = TRUE, !.noscan = TRUE]
  BY Zenon, <1>4 DEF MayGoDirect, CMType
<1> QED BY <1>1, <1>2, <1>3, <1>4, Zenon DEF Routed

LEMMA JudgedOK ==
  ASSUME NEW c \in CMType, NEW d \in Judged(c)
  PROVE  d \in CMType /\ Same(d, c)
<1> DEFINE e == [c EXCEPT !.bypass = "no", !.exception = FALSE]
<1>1. e \in CMType /\ Same(e, c)
  BY ZenonT(30) DEF CMType, Same
<1>2. CASE d = c
  BY <1>2, Zenon DEF Same
<1>3. CASE d \in Verdicts(c)
  BY <1>3, VerdictsOK, Zenon
<1>4. CASE d \in Verdicts(e)
  <2> HIDE DEF e
  <2>1. d \in CMType /\ Same(d, e)
    BY <1>1, <1>4, VerdictsOK, Zenon
  <2> QED BY <1>1, <2>1, Zenon DEF Same
<1> QED BY <1>2, <1>3, <1>4, Zenon DEF Judged

LEMMA StorySaysOK ==
  ASSUME NEW c \in CMType, NEW s \in StorySays(c)
  PROVE  s \in CMType /\ MayGoDirect(s, c)
<1>1. PICK d \in Judged(c) : s \in Routed(d)
  BY Zenon DEF StorySays
<1>2. d \in CMType /\ Same(d, c)
  BY JudgedOK, Zenon
<1>3. s \in CMType /\ MayGoDirect(s, d)
  BY <1>1, <1>2, RoutedOK, Zenon
<1> QED BY <1>2, <1>3, Zenon DEF Same, MayGoDirect

(* The reporting level decides what becomes of a block.                     *)
LEMMA ReportOK ==
  ASSUME NEW c \in CMType, NEW x \in BOOLEAN, NEW y \in BOOLEAN
  PROVE  /\ [c EXCEPT !.naughty = x, !.blocked = y] \in CMType
         /\ Same([c EXCEPT !.naughty = x, !.blocked = y], c)
         /\ [c EXCEPT !.naughty = x] \in CMType
         /\ Same([c EXCEPT !.naughty = x], c)
<1>1. [c EXCEPT !.naughty = x, !.blocked = y] \in CMType
  BY ZenonT(30) DEF CMType
<1>2. Same([c EXCEPT !.naughty = x, !.blocked = y], c)
  BY Zenon DEF CMType, Same
<1>3. [c EXCEPT !.naughty = x] \in CMType
  BY Zenon DEF CMType
<1>4. Same([c EXCEPT !.naughty = x], c)
  BY Zenon DEF CMType, Same
<1> QED BY <1>1, <1>2, <1>3, <1>4, Zenon

LEMMA RequestStoryOK ==
  ASSUME NEW c \in CMType, NEW s \in RequestStory(c)
  PROVE  s \in CMType /\ MayGoDirect(s, c)
<1>1. CASE s = c
  BY <1>1, Zenon DEF MayGoDirect
<1>2. ASSUME NEW d \in StorySays(c),
             s = [d EXCEPT !.naughty = FALSE, !.blocked = FALSE] \/ s = [d EXCEPT !.naughty = d.blocked]
      PROVE  s \in CMType /\ MayGoDirect(s, c)
  <2>1. d \in CMType /\ MayGoDirect(d, c)
    BY StorySaysOK, Zenon
  <2>2. d.blocked \in BOOLEAN
    BY <2>1, Zenon DEF CMType
  <2>3. s \in CMType /\ Same(s, d)
    BY Zenon, <1>2, <2>1, <2>2, ReportOK
  <2> QED BY <2>1, <2>3, Zenon DEF Same, MayGoDirect
<1> QED BY Zenon, <1>1, <1>2 DEF RequestStory

LEMMA SearchSaysOK ==
  ASSUME NEW c \in CMType, NEW s \in SearchSays(c)
  PROVE  s \in CMType /\ Same(s, c)
<1>1. CASE s = c
  BY <1>1, Zenon DEF Same
<1>2. CASE s = [c EXCEPT !.naughty = TRUE]
  BY Zenon, <1>2 DEF CMType, Same
<1> QED BY <1>1, <1>2, Zenon DEF SearchSays

LEMMA TunnelGreyOK ==
  ASSUME NEW c \in CMType
  PROVE  TunnelGrey(c) \in CMType /\ Same(TunnelGrey(c), c)
<1>1. CASE TunnelGrey(c) = c
  BY <1>1, Zenon DEF Same
<1>2. CASE TunnelGrey(c) = [c EXCEPT !.twoway = TRUE, !.rest = FALSE]
  BY ZenonT(30), <1>2 DEF CMType, Same
<1> QED BY <1>1, <1>2, Zenon DEF TunnelGrey

(* The status code of a response changes no more than whether the request    *)
(* still counts as a CONNECT.                                               *)
LEMMA StatusCodeOK ==
  ASSUME cm \in CMType, NEW rc, NEW body
  PROVE  /\ StatusCode(rc, body) \in CMType
         /\ StatusCode(rc, body).direct = cm.direct /\ StatusCode(rc, body).upfail = cm.upfail
         /\ StatusCode(rc, body).checked = cm.checked
         /\ StatusCode(rc, body).connect => cm.connect
<1> DEFINE a1 == [cm EXCEPT !.rest = TRUE, !.twoway = FALSE, !.connect = FALSE, !.exception = TRUE]
           a2 == [cm EXCEPT !.naughty = TRUE]
           auth == CASE rc = "407" -> a1
                     [] rc # "407" /\ ~cm.authed /\ req.proxied /\ conf.auth = "ntlm"
                          /\ ~cm.exception -> a2
                     [] OTHER -> cm
           Fits(c) == /\ c \in CMType
                      /\ c.direct = cm.direct /\ c.upfail = cm.upfail /\ c.checked = cm.checked
                      /\ c.connect => cm.connect
<1>1. a1 \in CMType
  BY ZenonT(30) DEF CMType
<1>2. a1.direct = cm.direct /\ a1.upfail = cm.upfail /\ a1.checked = cm.checked /\ ~a1.connect
  BY Zenon DEF CMType
<1>3. a2 \in CMType
  BY Zenon DEF CMType
<1>4. a2.direct = cm.direct /\ a2.upfail = cm.upfail /\ a2.checked = cm.checked
      /\ a2.connect = cm.connect
  BY Zenon DEF CMType
<1>5. auth = a1 \/ auth = a2 \/ auth = cm
  <2> HIDE DEF a1, a2
  <2> QED BY Zenon
<1>6. Fits(auth)
  <2> HIDE DEF a1, a2, auth
  <2> QED BY <1>1, <1>2, <1>3, <1>4, <1>5, Zenon
<1>7. ASSUME NEW c \in CMType, NEW x \in BOOLEAN, NEW y \in BOOLEAN, NEW z \in BOOLEAN
      PROVE  [c EXCEPT !.candidate = x, !.rest = y, !.twoway = z] \in CMType
  <2> HIDE DEF a1, a2, auth
  <2> QED BY ZenonT(30) DEF CMType
<1>8. ASSUME NEW c \in CMType, NEW x \in BOOLEAN, NEW y \in BOOLEAN, NEW z \in BOOLEAN
      PROVE  Same([c EXCEPT !.candidate = x, !.rest = y, !.twoway = z], c)
  <2> HIDE DEF a1, a2, auth
  <2> QED BY Zenon DEF CMType, Same
<1> DEFINE refused == auth.connect /\ rc # "200"
           p == auth.candidate /\ ~refused
           q == auth.rest \/ refused \/ body = "none"
           r == auth.twoway /\ ~refused
<1>9. p \in BOOLEAN /\ q \in BOOLEAN /\ r \in BOOLEAN
  <2> HIDE DEF auth
  <2> QED BY Zenon
<1>10. StatusCode(rc, body) = IF cm.naughty THEN cm
                              ELSE [auth EXCEPT !.candidate = p, !.rest = q, !.twoway = r]
  BY Zenon DEF StatusCode
<1> HIDE DEF auth, refused, p, q, r
<1>11. Fits([auth EXCEPT !.candidate = p, !.rest = q, !.twoway = r])
  <2> DEFINE e == [auth EXCEPT !.candidate = p, !.rest = q, !.twoway = r]
  <2>1. e \in CMType
    BY ZenonT(30), <1>6, <1>7, <1>9
  <2>2. Same(e, auth)
    BY Zenon, <1>6, <1>8, <1>9
  <2> HIDE DEF e
  <2>3. Fits(e)
    BY SMTT(30), <1>6, <2>1, <2>2 DEF Same
  <2> QED BY <2>3, Zenon DEF e
<1> QED BY <1>10, <1>11, Zenon

(* Passing exceptions on leaves the connection alone.                                          *)
LEMMA PassOnOK ==
  ASSUME NEW c \in CMType
  PROVE  PassOn(c) \in CMType /\ Same(PassOn(c), c)
<1> DEFINE n == c.noscan \/ ~HasFG \/ ~FG.scanexc
           t == c.twoway /\ ~n
           r == c.rest \/ n
<1>1. n \in BOOLEAN /\ t \in BOOLEAN /\ r \in BOOLEAN
  BY Zenon
<1>2. \/ PassOn(c) = c
      \/ PassOn(c) = [c EXCEPT !.twoway = TRUE, !.rest = FALSE]
      \/ PassOn(c) = [c EXCEPT !.noscan = n, !.twoway = t, !.rest = r]
  BY Zenon DEF PassOn
<1> HIDE DEF n, t, r
<1>3. ASSUME NEW x \in BOOLEAN, NEW y \in BOOLEAN, NEW z \in BOOLEAN
      PROVE  [c EXCEPT !.noscan = x, !.twoway = y, !.rest = z] \in CMType
  BY ZenonT(30) DEF CMType
<1>4. ASSUME NEW x \in BOOLEAN, NEW y \in BOOLEAN, NEW z \in BOOLEAN
      PROVE  Same([c EXCEPT !.noscan = x, !.twoway = y, !.rest = z], c)
  BY Zenon DEF CMType, Same
<1>5. [c EXCEPT !.twoway = TRUE, !.rest = FALSE] \in CMType
  BY Zenon DEF CMType
<1>6. Same([c EXCEPT !.twoway = TRUE, !.rest = FALSE], c)
  BY Zenon DEF CMType, Same
<1>7. Same(c, c)
  BY Zenon DEF Same
<1> QED BY Zenon, <1>1, <1>2, <1>3, <1>4, <1>5, <1>6, <1>7

LEMMA RestOK ==
  ASSUME NEW c \in CMType, NEW x \in BOOLEAN, NEW y \in BOOLEAN
  PROVE  /\ [c EXCEPT !.rest = x, !.noscan = y] \in CMType
         /\ [c EXCEPT !.rest = x, !.noscan = y].rest = x
         /\ Same([c EXCEPT !.rest = x, !.noscan = y], c)
<1>1. [c EXCEPT !.rest = x, !.noscan = y] \in CMType
  BY Zenon DEF CMType
<1>2. [c EXCEPT !.rest = x, !.noscan = y].rest = x
  BY Zenon DEF CMType
<1>3. Same([c EXCEPT !.rest = x, !.noscan = y], c)
  BY Zenon DEF CMType, Same
<1> QED BY <1>1, <1>2, <1>3, Zenon

(* So does what the response story says.                                     *)
LEMMA ResponseSaysOK ==
  ASSUME NEW c \in CMType, NEW s \in ResponseSays(c)
  PROVE  s \in CMType /\ Same(s, c)
<1>1. PICK d \in ResponseVerdicts(c) : s \in {d, [d EXCEPT !.noscan = TRUE]}
  BY Zenon DEF ResponseSays
<1>2. d \in CMType /\ Same(d, c)
  <2>1. CASE d = c
    BY <2>1, Zenon DEF Same
  <2>2. CASE d = [c EXCEPT !.exception = TRUE, !.grey = FALSE, !.blocked = FALSE]
    BY ZenonT(30), <2>2 DEF CMType, Same
  <2>3. CASE d = [c EXCEPT !.blocked = TRUE, !.grey = FALSE, !.exception = FALSE]
    BY ZenonT(30), <2>3 DEF CMType, Same
  <2> QED BY <2>1, <2>2, <2>3, Zenon DEF ResponseVerdicts
<1>3. ASSUME NEW e \in CMType
      PROVE  [e EXCEPT !.noscan = TRUE] \in CMType /\ Same([e EXCEPT !.noscan = TRUE], e)
  BY Zenon DEF CMType, Same
<1>4. CASE s = d
  BY <1>2, <1>4, Zenon
<1>5. CASE s = [d EXCEPT !.noscan = TRUE]
  BY <1>2, <1>3, <1>5, Zenon DEF Same
<1> QED BY <1>1, <1>4, <1>5, Zenon

(* So does the response story; a response without a body is not looked into. *)
LEMMA ResponseStoryOK ==
  ASSUME cm \in CMType, NEW s \in ResponseStory
  PROVE  /\ s \in CMType /\ Same(s, cm)
         /\ resp.body = "none" => s.rest
<1> DEFINE Exempt(c) == c.exception /\ ~FG.scanexc
           Report(c) == IF FG.stealth
                          THEN [c EXCEPT !.naughty = FALSE, !.blocked = FALSE, !.grey = TRUE]
                          ELSE [c EXCEPT !.naughty = c.blocked]
<1>1. PICK c \in ResponseSays(cm) :
        s = [Report(c) EXCEPT !.rest = req.head \/ resp.body = "none" \/ Exempt(c),
                              !.noscan = @ \/ Exempt(c)]
  BY Zenon DEF ResponseStory
<1>4. c \in CMType /\ Same(c, cm)
  BY ResponseSaysOK, Zenon
<1>5. Report(c) \in CMType /\ Same(Report(c), c)
  <2>1. [c EXCEPT !.naughty = FALSE, !.blocked = FALSE, !.grey = TRUE] \in CMType
    BY ZenonT(30), <1>4 DEF CMType
  <2>2. Same([c EXCEPT !.naughty = FALSE, !.blocked = FALSE, !.grey = TRUE], c)
    BY <1>4, Zenon DEF CMType, Same
  <2>3. c.blocked \in BOOLEAN
    BY <1>4, Zenon DEF CMType
  <2>4. [c EXCEPT !.naughty = c.blocked] \in CMType /\ Same([c EXCEPT !.naughty = c.blocked], c)
    BY Zenon, <1>4, <2>3, ReportOK
  <2> QED BY <2>1, <2>2, <2>4, Zenon
<1> DEFINE d == Report(c)
           x == req.head \/ resp.body = "none" \/ Exempt(c)
           y == d.noscan \/ Exempt(c)
<1>6. x \in BOOLEAN /\ y \in BOOLEAN /\ (resp.body = "none" => x)
  BY Zenon
<1>7. s = [d EXCEPT !.rest = x, !.noscan = y]
  BY <1>1, Zenon
<1> HIDE DEF x, y, d
<1>8. d \in CMType /\ Same(d, c)
  BY SMTT(30), <1>5 DEF d
<1> HIDE DEF Report, Exempt
<1>9. s \in CMType /\ s.rest = x /\ Same(s, d)
  BY ZenonT(30), <1>6, <1>7, <1>8, RestOK
<1> QED BY <1>4, <1>6, <1>8, <1>9, Zenon DEF Same

(* check_content either leaves the content for the tunnel or checks it.     *)
LEMMA ContentsOK ==
  ASSUME NEW c \in CMType, NEW d \in Contents(c)
  PROVE  /\ d \in CMType
         /\ d.direct = c.direct /\ d.upfail = c.upfail /\ d.connect = c.connect
<1>1. CASE d = [c EXCEPT !.rest = TRUE]
  BY Zenon, <1>1 DEF CMType
<1>2. ASSUME NEW n \in BOOLEAN, d = [c EXCEPT !.checked = TRUE, !.naughty = n]
      PROVE  /\ d \in CMType
             /\ d.direct = c.direct /\ d.upfail = c.upfail /\ d.connect = c.connect
  BY ZenonT(30), <1>2 DEF CMType
<1>3. ASSUME NEW n \in BOOLEAN
      PROVE  (c.naughty \/ n) \in BOOLEAN
  BY Zenon
<1>4. \/ d = [c EXCEPT !.rest = TRUE]
      \/ \E n \in BOOLEAN : d = [c EXCEPT !.checked = TRUE, !.naughty = @ \/ n]
  BY Zenon DEF Contents
<1> QED BY Zenon, <1>1, <1>2, <1>3, <1>4

-----------------------------------------------------------------------------
(* The upstream connection *)

Types ==
  /\ conf \in Confs
  /\ ismitm \in BOOLEAN /\ persistPeer \in BOOLEAN /\ persistProxy \in BOOLEAN
  /\ last_isdirect \in BOOLEAN
  /\ req \in Requests /\ cm \in CMType
  /\ resp \in RespType /\ up \in UpType
  /\ gone \in BOOLEAN /\ lost \in BOOLEAN

Reaches == IF ismitm THEN up.to \in Dests ELSE up.to = Target(cm)
Clean == up.unread => lost

(* The connection kept from the last request: it reaches whom that request   *)
(* was sent to, and without a parent proxy every request goes direct.        *)
Kept ==
  persistProxy =>
    /\ gone \/ Clean
    /\ ismitm => up.to \in Dests
    /\ ~ismitm => /\ up.to = (IF last_isdirect THEN last_domain_port ELSE Parent)
                  /\ conf.no_proxy => last_isdirect

After == {"route", "mitm", "response", "reply", "body", "finish"}
Judging == {"auth", "story"}
Working == {"upstream", "send"} \cup After

(* Before the request is judged; the story of the client may send it direct  *)
(* while the connection to the parent proxy is still open.                  *)
AtTop ==
  /\ pc = "read" => Kept
  /\ pc = "preauth" => Kept /\ ~gone /\ ~cm.upfail /\ ~cm.checked /\ resp.body = "none"
  /\ pc = "auth" => ~cm.upfail
  /\ pc = "preauth" => cm.direct = conf.no_proxy
  /\ pc \in Judging =>
       /\ last_domain_port = req.dest /\ last_isdirect = conf.no_proxy
       /\ conf.no_proxy => cm.direct
       /\ cm.upfail => ~persistProxy
       /\ persistProxy /\ (conf.no_proxy \/ ~cm.direct) => Reaches
       /\ ~cm.checked
  /\ pc \in {"preauth"} \cup Judging => (ismitm => ~req.proxied)

(* From then on the two memories are those of this request.                 *)
Remembered ==
  pc \in Working =>
    /\ last_domain_port = req.dest /\ last_isdirect = cm.direct
    /\ conf.no_proxy => cm.direct
    /\ cm.upfail => ~persistProxy
    /\ persistProxy => Reaches
    /\ pc \notin {"reply", "body", "finish"} => ~cm.checked

BeforeSend ==
  /\ pc \in Judging \cup {"upstream"} => (persistProxy => Clean)
  /\ pc \in Judging \cup {"upstream", "send"} => resp.body = "none"
  /\ pc = "send" /\ ~cm.upfail => Reaches /\ Clean

(* Unread data of a response without a body, of a CONNECT answered here or   *)
(* of a response that was passed on is data of an earlier response.          *)
AfterSend ==
  pc \in After =>
    /\ resp.body = "none" /\ persistProxy => Clean
    /\ cm.connect /\ cm.direct /\ persistProxy => Clean
    /\ resp.body = "open" => ~persistPeer
    /\ pc = "finish" /\ persistProxy /\ persistPeer /\ ~gone /\ ~cm.naughty => Clean

IInv == Types /\ AtTop /\ Remembered /\ BeforeSend /\ AfterSend

----------------------------------------------------------------------------
(* Once the loop is left only the types matter.                             *)
LEMMA LeaveOK ==
  ASSUME Types', pc' = "closed"
  PROVE  IInv'
BY Zenon DEF IInv, AtTop, Remembered, BeforeSend, AfterSend, Working, Judging, After

LEMMA ShutOK == Shut \in UpType /\ ~Shut.unread /\ \A d \in Dests \cup {Parent} :
                  Open(d) \in UpType /\ Open(d).to = d /\ ~Open(d).unread
BY Zenon DEF Shut, Open, UpType

LEMMA InitOK == Init => IInv
<1> SUFFICES ASSUME Init PROVE IInv
  BY Zenon
<1>1. Types
  BY Zenon, FreshOK, ShutOK DEF Init, Types, NoResponse, RespType
<1>2. AtTop /\ Remembered /\ BeforeSend /\ AfterSend
  BY Zenon DEF Init, AtTop, Kept, Remembered, BeforeSend, AfterSend, Working, Judging, After
<1> QED BY <1>1, <1>2, Zenon DEF IInv

LEMMA ReadRequestOK ==
  ASSUME IInv, NEW r \in Requests, NEW c, ReadRequest(r, c)
  PROVE  IInv'
<1>1. /\ Fresh(r) \in CMType
      /\ Fresh(r).direct = conf.no_proxy /\ ~Fresh(r).upfail /\ ~Fresh(r).checked
  BY FreshOK, Zenon DEF IInv, Types
<1>2. Types'
  BY <1>1, Zenon DEF IInv, Types, ReadRequest, NoResponse, RespType
<1>3. AtTop'
  BY <1>1, Zenon DEF IInv, AtTop, Kept, Clean, ReadRequest, Judging, NoResponse
<1>4. Remembered' /\ BeforeSend' /\ AfterSend'
  BY Zenon DEF ReadRequest, Remembered, BeforeSend, AfterSend, Working, Judging, After
<1> QED BY <1>2, <1>3, <1>4, Zenon DEF IInv

LEMMA PreAuthOK ==
  ASSUME IInv, PreAuth
  PROVE  IInv'
<1>1. PICK c \in PreAuthSays :
        IF c.special # "no"
          THEN filtergroup' = -1 /\ cm' = c /\ pc' = "story"
          ELSE IF persistent_authed
            THEN filtergroup' = filtergroup /\ cm' = [c EXCEPT !.authed = TRUE] /\ pc' = "story"
            ELSE /\ filtergroup' = IF req.proxied THEN DefaultFG ELSE DefaultTransFG
                 /\ cm' = c
                 /\ pc' = "auth"
  BY Zenon DEF PreAuth
<1>2. c \in CMType /\ MayGoDirect(c, cm)
  BY PreAuthSaysOK, Zenon DEF IInv, Types
<1>3. [c EXCEPT !.authed = TRUE] \in CMType
  BY Zenon, <1>2 DEF CMType
<1>4. Same([c EXCEPT !.authed = TRUE], c)
  BY <1>2, Zenon DEF CMType, Same
<1>5. cm' \in CMType /\ MayGoDirect(cm', cm)
  BY Zenon, <1>1, <1>2, <1>3, <1>4 DEF Same, MayGoDirect
<1>6. pc' \in Judging
  BY <1>1, Zenon DEF Judging
<1>7. cm.direct = conf.no_proxy /\ ~cm.upfail /\ ~cm.checked
  BY Zenon DEF IInv, AtTop, PreAuth
<1>8. cm.direct \in BOOLEAN /\ conf.no_proxy \in BOOLEAN
  BY ConstantsAssumption, Zenon DEF IInv, Types, CMType, ConfType
<1>9. Types'
  BY <1>5, <1>8, ShutOK, Zenon DEF IInv, Types, PreAuth
<1>10. persistProxy' => Clean' /\ (conf.no_proxy \/ ~cm'.direct => Reaches')
  <2>1. ASSUME conf.no_proxy \/ ~cm'.direct PROVE cm'.direct = cm.direct
    BY <1>5, <1>7, <1>8, <2>1, Zenon DEF MayGoDirect, CMType
  <2> QED
    BY <1>7, <1>8, <2>1, Zenon DEF IInv, AtTop, Kept, Clean, Reaches, PreAuth, Stale, Target, Types
<1>11. AtTop'
  BY <1>5, <1>6, <1>7, <1>10, Zenon DEF IInv, AtTop, PreAuth, Judging, MayGoDirect
<1>12. Remembered' /\ BeforeSend' /\ AfterSend'
  BY <1>6, <1>10, Zenon
  DEF Remembered, BeforeSend, AfterSend, Working, Judging, After, PreAuth, IInv, AtTop
<1> QED BY <1>9, <1>11, <1>12, Zenon DEF IInv

(* What the ip plugin finds changes neither the way to the server nor what   *)
(* is known of it.                                                          *)
LEMMA HiddenOK ==
  ASSUME NEW c \in CMType, NEW d \in Hidden(c)
  PROVE  d \in CMType /\ Same(d, c)
<1> DEFINE e == [c EXCEPT !.exception = TRUE, !.special = "exception", !.nomitm = TRUE,
                          !.automitm = FALSE]
           f == [c EXCEPT !.blocked = TRUE, !.naughty = TRUE, !.special = "banned"]
<1>1. d = c \/ d = e \/ d = f
  BY Zenon DEF Hidden
<1>2. e \in CMType
  BY ZenonT(60) DEF CMType
<1>3. f \in CMType
  BY ZenonT(60) DEF CMType
<1>4. Same(c, c) /\ Same(e, c) /\ Same(f, c)
  BY Zenon DEF CMType, Same
<1> QED BY Zenon, <1>1, <1>2, <1>3, <1>4

LEMMA AuthenticatedOK ==
  ASSUME IInv, NEW ok \in BOOLEAN, Authenticated(ok)
  PROVE  IInv'
<1> DEFINE a == AfterEarly(ok)
<1>1. /\ a \in CMType /\ a.direct = cm.direct /\ a.checked = cm.checked
      /\ a.upfail => cm.upfail \/ (Early /\ ~ok)
  BY AfterEarlyOK, Zenon DEF IInv, Types
<1>2. \E d \in Hidden(a) : \/ \E b \in BOOLEAN : cm' = [d EXCEPT !.authed = b]
                            \/ cm' = [d EXCEPT !.gomitm = TRUE, !.done = TRUE]
  <2>1. (conf.auth = "local") \in BOOLEAN /\ a \in Hidden(a)
    BY Zenon DEF Hidden
  <2> HIDE DEF a
  <2> QED BY Zenon, <2>1 DEF Authenticated, a
<1> HIDE DEF a
<1>3. ASSUME NEW d \in Hidden(a), NEW b \in BOOLEAN
      PROVE  [d EXCEPT !.authed = b] \in CMType /\ Same([d EXCEPT !.authed = b], a)
  <2>1. d \in CMType /\ Same(d, a)
    BY <1>1, HiddenOK, Zenon
  <2> QED BY <2>1 DEF CMType, Same
<1>4. ASSUME NEW d \in Hidden(a)
      PROVE  /\ [d EXCEPT !.gomitm = TRUE, !.done = TRUE] \in CMType
             /\ Same([d EXCEPT !.gomitm = TRUE, !.done = TRUE], a)
  <2>1. d \in CMType /\ Same(d, a)
    BY <1>1, HiddenOK, Zenon
  <2>2. [d EXCEPT !.gomitm = TRUE, !.done = TRUE] \in CMType
    BY Zenon, <2>1 DEF CMType
  <2>3. Same([d EXCEPT !.gomitm = TRUE, !.done = TRUE], a)
    BY <2>1, Zenon DEF CMType, Same
  <2> QED BY <2>2, <2>3, Zenon
<1>6. /\ cm' \in CMType /\ cm'.direct = cm.direct /\ cm'.checked = cm.checked
      /\ cm'.upfail => cm.upfail \/ (Early /\ ~ok)
  BY ZenonT(60), <1>1, <1>2, <1>3, <1>4 DEF Same
<1>7. Target(cm) \in Dests \cup {Parent}
  BY ConstantsAssumption, Zenon DEF IInv, Types, Target, RequestType
<1>8. Types'
  BY <1>6, <1>7, ShutOK, Zenon DEF IInv, Types, Authenticated, loop
<1>9. persistProxy' => Clean' /\ (conf.no_proxy \/ ~cm'.direct => Reaches')
  <2>1. CASE Early
    BY <1>6, <1>7, <2>1, ShutOK, Zenon
    DEF IInv, AtTop, Early, Judging, Authenticated, Reaches, Clean, Target, loop, Types
  <2>2. CASE ~Early
    BY <1>6, <2>2, Zenon
    DEF IInv, AtTop, BeforeSend, Judging, Authenticated, Reaches, Clean, Target, loop, Types
  <2> QED BY <2>1, <2>2, Zenon
<1>10. cm'.upfail => ~persistProxy'
  BY <1>6, Zenon DEF IInv, AtTop, Authenticated, Early, Types
<1>11. pc = "auth" /\ pc' = "story" /\ UNCHANGED <<conf, loop, req, resp>>
  BY Zenon DEF Authenticated
<1>12. AtTop'
  BY <1>6, <1>9, <1>10, <1>11, Zenon DEF IInv, AtTop, Judging, loop
<1>13. Remembered' /\ BeforeSend' /\ AfterSend'
  BY <1>9, <1>11, Zenon DEF IInv, Remembered, BeforeSend, AfterSend, Working, Judging, After
<1> QED BY <1>8, <1>12, <1>13, Zenon DEF IInv

LEMMA StoryRequestOK ==
  ASSUME IInv, StoryRequest
  PROVE  IInv'
<1>1. PICK b \in Bypassed(Judge(cm)) :
        \E s \in RequestStory(SetNoScan(b)) :
          LET c == [s EXCEPT !.direct = @ \/ conf.gateways]
          IN /\ GoDirect(c)
             /\ IF c.bypass = "asked" \/ c.redirect
                  THEN cm' = c /\ Leave
                  ELSE /\ cm' \in SearchSays(c)
                       /\ up' = IF persistProxy /\ ~persistProxy' THEN Shut ELSE up
                       /\ pc' = "upstream"
  BY Zenon DEF StoryRequest
<1>s. PICK s \in RequestStory(SetNoScan(b)) :
        LET c == [s EXCEPT !.direct = @ \/ conf.gateways]
        IN /\ GoDirect(c)
           /\ IF c.bypass = "asked" \/ c.redirect
                THEN cm' = c /\ Leave
                ELSE /\ cm' \in SearchSays(c)
                     /\ up' = IF persistProxy /\ ~persistProxy' THEN Shut ELSE up
                     /\ pc' = "upstream"
  BY SMTT(30), <1>1
<1>2. s \in CMType /\ MayGoDirect(s, cm)
  <2>1. Judge(cm) \in CMType /\ Same(Judge(cm), cm)
    BY JudgeOK, Zenon DEF IInv, Types
  <2>2. b \in CMType /\ Same(b, Judge(cm))
    BY <2>1, BypassedOK, Zenon
  <2>3. SetNoScan(b) \in CMType /\ Same(SetNoScan(b), b)
    BY <2>2, SetNoScanOK, Zenon
  <2>4. s \in CMType /\ MayGoDirect(s, SetNoScan(b))
    BY <2>3, RequestStoryOK, Zenon
  <2> QED BY <2>1, <2>2, <2>3, <2>4, Zenon DEF Same, MayGoDirect
<1> DEFINE g == s.direct \/ conf.gateways
           c == [s EXCEPT !.direct = g]
<1>3. g \in BOOLEAN /\ (s.direct => g)
  BY Zenon
<1>4. /\ GoDirect(c)
      /\ IF c.bypass = "asked" \/ c.redirect
           THEN cm' = c /\ Leave
           ELSE /\ cm' \in SearchSays(c)
                /\ up' = IF persistProxy /\ ~persistProxy' THEN Shut ELSE up
                /\ pc' = "upstream"
  BY <1>s, Zenon
<1> HIDE DEF g
<1>5. c \in CMType
  BY <1>2, <1>3, Zenon DEF CMType
<1>6. c.direct = g /\ c.upfail = s.upfail /\ c.connect = s.connect /\ c.checked = s.checked
  BY <1>2, <1>3, Zenon DEF CMType
<1> HIDE DEF c
<1>7. MayGoDirect(c, cm)
  BY <1>2, <1>3, <1>6, Zenon DEF MayGoDirect
<1>8. cm' \in CMType /\ Same(cm', c)
  BY <1>4, <1>5, SearchSaysOK, Zenon DEF Same
<1>9. Types'
  BY <1>4, <1>8, ShutOK, Zenon DEF IInv, Types, StoryRequest, GoDirect, Leave
<1>10. CASE pc' = "closed"
  BY <1>9, <1>10, LeaveOK, Zenon
<1>11. CASE pc' = "upstream"
  <2>1. /\ cm.direct \in BOOLEAN /\ c.direct \in BOOLEAN /\ conf.no_proxy \in BOOLEAN
        /\ conf.no_proxy => cm.direct
        /\ last_isdirect = conf.no_proxy
    BY <1>5, ConstantsAssumption, Zenon DEF IInv, AtTop, Types, CMType, ConfType, StoryRequest, Judging
  <2>2. persistProxy' => /\ persistProxy /\ up' = up /\ c.direct = cm.direct
                         /\ conf.no_proxy \/ ~cm.direct
    BY <1>4, <1>7, <1>11, <2>1, Zenon DEF GoDirect, Leave, MayGoDirect, IInv, Types
  <2>3. persistProxy' => Reaches' /\ Clean'
    BY <1>8, <2>2, Zenon
    DEF IInv, AtTop, BeforeSend, Judging, StoryRequest, Reaches, Clean, Target, Same
  <2>4. last_isdirect' = cm'.direct
    BY <1>4, <1>7, <1>8, <2>1, Zenon DEF GoDirect, MayGoDirect, Same, IInv, Types
  <2>5. Remembered'
    BY <1>7, <1>8, <1>11, <2>1, <2>2, <2>3, <2>4, Zenon
    DEF IInv, AtTop, Remembered, Working, Judging, StoryRequest, MayGoDirect, Same
  <2>6. AtTop' /\ BeforeSend' /\ AfterSend'
    BY <1>11, <2>3, Zenon
    DEF IInv, AtTop, BeforeSend, AfterSend, Judging, After, StoryRequest
  <2> QED BY <1>9, <2>5, <2>6, Zenon DEF IInv
<1> QED BY <1>4, <1>10, <1>11, Zenon DEF Leave

LEMMA RefuseOK ==
  ASSUME IInv, NEW ok \in BOOLEAN, Refuse(ok)
  PROVE  IInv'
<1>1. PICK g \in BOOLEAN : cm' = [cm EXCEPT !.gomitm = g]
  <2>1. (cm.connect /\ cm.automitm) \in BOOLEAN
    BY Zenon
  <2> QED BY Zenon, <2>1 DEF Refuse
<1>2. cm' \in CMType /\ Same(cm', cm)
  BY <1>1 DEF IInv, Types, CMType, Same
<1>3. Types'
  BY <1>2, ShutOK, Zenon DEF IInv, Types, Refuse, Leave, loop
<1>4. CASE ~ok
  BY <1>3, <1>4, LeaveOK, Zenon DEF Refuse, Leave
<1>5. CASE ok
  <2>1. /\ pc = "upstream" /\ pc' = "route" /\ up' = up
        /\ UNCHANGED <<conf, loop, persistPeer, persistProxy, req, resp, lost>>
    BY <1>5, Zenon DEF Refuse
  <2>2. Reaches' = Reaches /\ Clean' = Clean
    BY <1>2, <2>1, Zenon DEF Reaches, Clean, Target, Same, loop
  <2>3. Remembered'
    BY <1>2, <2>1, <2>2, Zenon DEF IInv, Remembered, Working, After, Same, loop
  <2>4. AtTop' /\ BeforeSend' /\ AfterSend'
    BY <2>1, <2>2, Zenon DEF IInv, AtTop, BeforeSend, AfterSend, Judging, After
  <2> QED BY <1>3, <2>3, <2>4, Zenon DEF IInv
<1> QED BY <1>4, <1>5, Zenon

LEMMA ReuseOK ==
  ASSUME IInv, Reuse
  PROVE  IInv'
<1>1. /\ pc = "upstream" /\ pc' = "send" /\ persistProxy
      /\ UNCHANGED <<conf, loop, persistPeer, persistProxy, req, cm, resp, up, gone, lost>>
  BY Zenon DEF Reuse
<1>2. Reaches' = Reaches /\ Clean' = Clean
  BY <1>1, Zenon DEF Reaches, Clean, Target, loop
<1>3. Types'
  BY <1>1, Zenon DEF IInv, Types, loop
<1>4. Remembered'
  BY <1>1, <1>2, Zenon DEF IInv, Remembered, Working, loop
<1>5. AtTop' /\ BeforeSend' /\ AfterSend'
  BY <1>1, <1>2, Zenon DEF IInv, Remembered, Working, AtTop, BeforeSend, AfterSend, Judging, After
<1> QED BY <1>3, <1>4, <1>5, Zenon DEF IInv

LEMMA ConnectUpstreamOK ==
  ASSUME IInv, NEW result \in {"connected", "fails", "tlsfails", "badcert"},
         ConnectUpstream(result)
  PROVE  IInv'
<1>1. /\ cm' \in CMType /\ cm'.direct = cm.direct /\ cm'.checked = cm.checked
      /\ result \in {"fails", "tlsfails"} => cm'.upfail
  <2>1. cm \in CMType
    BY Zenon DEF IInv, Types
  <2>2. CASE result = "fails"
    <3> DEFINE g == UpFails(cm).gomitm \/ (cm.connect /\ cm.automitm)
    <3>1. g \in BOOLEAN
      BY Zenon
    <3>2. cm' = [UpFails(cm) EXCEPT !.gomitm = g]
      BY <2>2, Zenon DEF ConnectUpstream
    <3> HIDE DEF g
    <3>3. /\ UpFails(cm) \in CMType /\ UpFails(cm).upfail
          /\ UpFails(cm).direct = cm.direct /\ UpFails(cm).checked = cm.checked
      BY <2>1, UpFailsOK, Zenon
    <3>4. cm' \in CMType
      BY <3>1, <3>2, <3>3, Zenon DEF CMType
    <3>5. Same(cm', UpFails(cm))
      BY Zenon, <3>1, <3>2, <3>3 DEF CMType, Same
    <3> QED BY <3>3, <3>4, <3>5, Zenon DEF Same
  <2>3. CASE result = "tlsfails"
    <3>1. cm' = [cm EXCEPT !.upfail = TRUE]
      BY <2>3, Zenon DEF ConnectUpstream
    <3> QED BY Zenon, <2>1, <3>1 DEF CMType
  <2>4. CASE result = "badcert"
    <3>1. cm' = [cm EXCEPT !.upfail = FALSE, !.naughty = TRUE]
      BY <2>4, Zenon DEF ConnectUpstream
    <3> QED BY ZenonT(30), <2>1, <2>4, <3>1 DEF CMType
  <2>5. CASE result = "connected"
    <3>1. cm' = [cm EXCEPT !.upfail = FALSE]
      BY <2>5, Zenon DEF ConnectUpstream
    <3> QED BY ZenonT(30), <2>1, <2>5, <3>1 DEF CMType
  <2> QED BY <2>2, <2>3, <2>4, <2>5, Zenon
<1>2. Target(cm) \in Dests \cup {Parent}
  BY ConstantsAssumption, Zenon DEF IInv, Types, Target, RequestType
<1>3. /\ pc = "upstream" /\ pc' = "send" /\ ~persistProxy'
      /\ UNCHANGED <<conf, loop, persistPeer, req, resp, gone, lost>>
  BY Zenon DEF ConnectUpstream
<1>4. Types'
  BY Zenon, <1>1, <1>2, <1>3, ShutOK DEF IInv, Types, ConnectUpstream, loop
<1>5. ~cm'.upfail => Reaches' /\ Clean'
  BY <1>1, <1>2, <1>3, ShutOK DEF ConnectUpstream, Reaches, Clean, Target, loop
<1>6. Remembered'
  BY <1>1, <1>3, <1>5, Zenon DEF IInv, Remembered, Working, loop
<1>7. AtTop' /\ BeforeSend' /\ AfterSend'
  BY <1>3, <1>5, Zenon DEF IInv, AtTop, BeforeSend, AfterSend, Judging, After
<1> QED BY <1>4, <1>6, <1>7, Zenon DEF IInv

LEMMA EstablishOK ==
  ASSUME IInv, NEW ok \in BOOLEAN, Establish(ok)
  PROVE  IInv'
<1>1. cm' \in CMType /\ Same(cm', cm)
  BY TunnelGreyOK, Zenon DEF IInv, Types, Establish
<1>2. Types'
  BY <1>1, ShutOK, Zenon DEF IInv, Types, Establish, Leave, loop
<1>3. CASE ~ok
  BY <1>2, <1>3, LeaveOK, Zenon DEF Establish, Leave
<1>4. CASE ok
  <2>1. /\ pc = "send" /\ pc' = "route" /\ up' = up
        /\ UNCHANGED <<conf, loop, persistPeer, persistProxy, req, resp, lost>>
    BY <1>4, Zenon DEF Establish
  <2>2. Reaches' = Reaches /\ Clean' = Clean
    BY <1>1, <2>1, Zenon DEF Reaches, Clean, Target, Same, loop
  <2>3. Remembered'
    BY <1>1, <2>1, <2>2, Zenon DEF IInv, Remembered, Working, After, Same, loop
  <2>4. persistProxy => Clean
    BY <2>1, Zenon DEF IInv, Remembered, BeforeSend, Working
  <2>5. AtTop' /\ BeforeSend' /\ AfterSend'
    BY <2>1, <2>2, <2>4, Zenon DEF IInv, AtTop, BeforeSend, AfterSend, Judging, After
  <2> QED BY <1>2, <2>3, <2>5, Zenon DEF IInv
<1> QED BY <1>3, <1>4, Zenon

LEMMA NotSentOK ==
  ASSUME IInv, NotSent
  PROVE  IInv'
<1>1. cm' \in CMType /\ Same(cm', cm)
  BY TunnelGreyOK, Zenon DEF IInv, Types, NotSent
<1>2. /\ pc = "send" /\ pc' = "route" /\ cm.upfail
      /\ UNCHANGED <<conf, loop, persistPeer, persistProxy, req, resp, up, gone, lost>>
  BY Zenon DEF NotSent
<1>3. Types'
  BY <1>1, <1>2, Zenon DEF IInv, Types, loop
<1>4. Reaches' = Reaches /\ Clean' = Clean
  BY <1>1, <1>2, Zenon DEF Reaches, Clean, Target, Same, loop
<1>5. ~persistProxy /\ Remembered'
  BY <1>1, <1>2, <1>4, Zenon DEF IInv, Remembered, Working, After, Same, loop
<1>6. AtTop' /\ BeforeSend' /\ AfterSend'
  BY <1>2, <1>4, <1>5, Zenon DEF IInv, AtTop, BeforeSend, AfterSend, Judging, After
<1> QED BY <1>3, <1>5, <1>6, Zenon DEF IInv

LEMMA ReconnectOK ==
  ASSUME IInv, Reconnect
  PROVE  IInv'
<1>1. /\ pc = "send" /\ pc' = "send" /\ ~ismitm /\ ~cm.direct
      /\ up' = Open(Parent) /\ resp' = [resp EXCEPT !.retried = TRUE]
      /\ UNCHANGED <<conf, loop, persistPeer, persistProxy, req, cm, gone, lost>>
  BY Zenon DEF Reconnect
<1>2. resp' \in RespType /\ resp'.body = resp.body
  BY Zenon, <1>1 DEF IInv, Types, RespType
<1>3. Types'
  BY <1>1, <1>2, ShutOK, Zenon DEF IInv, Types, loop
<1>4. Reaches' /\ Clean'
  BY <1>1, ShutOK, Zenon DEF Reaches, Clean, Target, loop
<1>5. Remembered'
  BY <1>1, <1>4, Zenon DEF IInv, Remembered, loop
<1>6. AtTop' /\ BeforeSend' /\ AfterSend'
  BY <1>1, <1>2, <1>4, Zenon DEF IInv, AtTop, BeforeSend, AfterSend, Judging, After
<1> QED BY <1>3, <1>5, <1>6, Zenon DEF IInv

LEMMA ExchangeOK ==
  ASSUME IInv, NEW rc \in {"200", "407", "other"}, NEW body \in {"none", "sized", "open"},
         NEW keep \in BOOLEAN, Exchange(rc, body, keep)
  PROVE  IInv'
<1> DEFINE c == StatusCode(rc, body)
           tunnel == c.connect /\ rc = "200" /\ ~cm.naughty
           u == body # "none" /\ ~req.head /\ ~tunnel
<1>1. /\ c \in CMType /\ c.direct = cm.direct /\ c.upfail = cm.upfail /\ c.checked = cm.checked
      /\ c.connect => cm.connect
  BY StatusCodeOK, Zenon DEF IInv, Types
<1>2. /\ pc = "send" /\ pc' = "route" /\ ~cm.upfail /\ ~(cm.direct /\ cm.connect)
      /\ cm' = TunnelGrey(c)
      /\ persistProxy' = (persistOutgoing /\ keep /\ ~tunnel)
      /\ persistPeer' = (persistOutgoing /\ keep /\ body # "open" /\ ~tunnel)
      /\ up' = [up EXCEPT !.unread = u]
      /\ resp' = [resp EXCEPT !.rc = rc, !.body = body]
      /\ UNCHANGED <<conf, loop, req, gone, lost>>
  BY Zenon DEF Exchange
<1>3. u \in BOOLEAN /\ persistProxy' \in BOOLEAN /\ persistPeer' \in BOOLEAN
  BY <1>2, Zenon
<1>4. (body = "none" => ~u) /\ (body = "open" => ~persistPeer')
  BY Zenon, <1>2
<1> HIDE DEF c, tunnel, u
<1>5. cm' \in CMType /\ Same(cm', c)
  BY <1>1, <1>2, TunnelGreyOK, Zenon
<1>6. resp' \in RespType /\ resp'.body = body
  BY Zenon, <1>2 DEF IInv, Types, RespType
<1>7. up' \in UpType /\ up'.to = up.to /\ up'.unread = u
  BY <1>2, <1>3, Zenon DEF IInv, Types, UpType
<1>8. Types'
  BY <1>2, <1>3, <1>5, <1>6, <1>7, Zenon DEF IInv, Types, loop
<1>9. Reaches'
  BY <1>1, <1>2, <1>5, <1>7, Zenon DEF IInv, BeforeSend, Reaches, Target, Same, loop
<1>10. Remembered'
  BY <1>1, <1>2, <1>5, <1>9, Zenon DEF IInv, Remembered, Working, After, Same, loop
<1>11. AtTop' /\ BeforeSend'
  BY <1>2, Zenon DEF AtTop, BeforeSend, Judging
<1>12. AfterSend'
  BY <1>1, <1>2, <1>4, <1>5, <1>6, <1>7, Zenon DEF AfterSend, After, Clean, Same
<1> QED BY <1>8, <1>10, <1>11, <1>12, Zenon DEF IInv

LEMMA RouteOK ==
  ASSUME IInv, Route
  PROVE  IInv'
<1> DEFINE c == PassOn(cm)
           tunnel == c.connect /\ (c.exception \/ c.logcat) /\ ~c.upfail
<1>1. c \in CMType /\ Same(c, cm)
  BY PassOnOK, Zenon DEF IInv, Types
<1>2. /\ pc = "route" /\ pc' \in {"mitm", "response"} /\ cm' = c
      /\ persistPeer' = (persistPeer /\ ~tunnel) /\ persistProxy' = (persistProxy /\ ~tunnel)
      /\ UNCHANGED <<conf, loop, req, resp, up, gone, lost>>
  BY Zenon DEF Route
<1>3. /\ persistPeer' \in BOOLEAN /\ persistProxy' \in BOOLEAN
      /\ (persistPeer' => persistPeer) /\ (persistProxy' => persistProxy)
  BY Zenon, <1>2
<1> HIDE DEF c, tunnel
<1>4. Types'
  BY <1>1, <1>2, <1>3, Zenon DEF IInv, Types, loop
<1>5. Reaches' = Reaches /\ Clean' = Clean
  BY <1>1, <1>2, Zenon DEF Reaches, Clean, Target, Same, loop
<1>6. Remembered'
  BY <1>1, <1>2, <1>3, <1>5, Zenon DEF IInv, Remembered, Working, After, Same, loop
<1>7. AtTop' /\ BeforeSend'
  BY <1>2, Zenon DEF AtTop, BeforeSend, Judging
<1>8. AfterSend'
  BY <1>1, <1>2, <1>3, <1>5, Zenon DEF IInv, AfterSend, After, Same
<1> QED BY <1>4, <1>6, <1>7, <1>8, Zenon DEF IInv

(* The loop inside the TLS session starts on a connection to the server.     *)
LEMMA InterceptOK ==
  ASSUME Types, Intercept
  PROVE  IInv'
<1>1. req.dest \in Dests
  BY ConstantsAssumption, Zenon DEF Types, RequestType
<1>2. Types'
  BY Zenon, <1>1, ShutOK DEF Types, Intercept
<1>3. AtTop'
  BY <1>1, ShutOK, Zenon DEF Intercept, AtTop, Kept, Clean, Judging
<1>4. Remembered' /\ BeforeSend' /\ AfterSend'
  BY Zenon DEF Intercept, Remembered, BeforeSend, AfterSend, Working, Judging, After
<1> QED BY <1>2, <1>3, <1>4, Zenon DEF IInv

LEMMA CheckResponseOK ==
  ASSUME IInv, NEW download \in Downloads, NEW slow \in BOOLEAN, CheckResponse(download, slow)
  PROVE  IInv'
<1>1. /\ pc = "response" /\ pc' = "reply"
      /\ UNCHANGED <<conf, loop, persistPeer, persistProxy, req, resp, gone>>
  BY Zenon DEF CheckResponse
<1>2. AtTop' /\ BeforeSend'
  BY <1>1, Zenon DEF AtTop, BeforeSend, Judging
<1>3. CASE ~ResponseStoryRuns
  <2>1. UNCHANGED <<cm, up, lost>>
    BY <1>3, Zenon DEF CheckResponse
  <2>2. Reaches' = Reaches /\ Clean' = Clean
    BY <1>1, <2>1, Zenon DEF Reaches, Clean, Target, loop
  <2>3. Types'
    BY <1>1, <2>1, Zenon DEF IInv, Types, loop
  <2>4. Remembered' /\ AfterSend'
    BY <1>1, <2>1, <2>2, Zenon DEF IInv, Remembered, AfterSend, Working, After, loop
  <2> QED BY <1>2, <2>3, <2>4, Zenon DEF IInv
<1>4. CASE ResponseStoryRuns
  <2>1. PICK s \in ResponseStory :
          \E c \in IF Wanted(s) THEN Contents(s) ELSE {s} :
            /\ cm' = [c EXCEPT !.toobig = c.checked /\ download = "toobig"]
            /\ up' = [up EXCEPT !.unread = IF c.checked THEN download # "all" ELSE @]
            /\ lost' = (lost \/ (c.checked /\ download = "short"))
    BY <1>4, Zenon DEF CheckResponse
  <2>2. PICK c \in IF Wanted(s) THEN Contents(s) ELSE {s} :
          /\ cm' = [c EXCEPT !.toobig = c.checked /\ download = "toobig"]
          /\ up' = [up EXCEPT !.unread = IF c.checked THEN download # "all" ELSE @]
          /\ lost' = (lost \/ (c.checked /\ download = "short"))
    BY Zenon, <2>1
  <2>3. s \in CMType /\ Same(s, cm) /\ (resp.body = "none" => s.rest)
    BY ResponseStoryOK, Zenon DEF IInv, Types
  <2>4. /\ c \in CMType
        /\ c.direct = cm.direct /\ c.upfail = cm.upfail /\ c.connect = cm.connect
    BY <2>3, ContentsOK, Zenon DEF Same
  <2>5. resp.body = "none" => ~c.checked
    <3>1. ~cm.checked
      BY <1>1, Zenon DEF IInv, Remembered, Working, After
    <3> QED BY <2>3, <3>1, Zenon DEF Wanted, Same
  <2> DEFINE b == c.checked /\ download = "toobig"
             n == IF c.checked THEN download # "all" ELSE up.unread
  <2>6. b \in BOOLEAN /\ n \in BOOLEAN /\ (~c.checked => n = up.unread)
    BY Zenon DEF IInv, Types, UpType
  <2>7. cm' = [c EXCEPT !.toobig = b] /\ up' = [up EXCEPT !.unread = n]
    BY <2>2, Zenon
  <2> HIDE DEF b, n
  <2>8. cm' \in CMType /\ Same(cm', c)
    BY <2>4, <2>6, <2>7 DEF CMType, Same
  <2>9. up' \in UpType /\ up'.to = up.to /\ up'.unread = n
    BY <2>6, <2>7, Zenon DEF IInv, Types, UpType
  <2>10. lost' \in BOOLEAN /\ (lost => lost')
    BY Zenon, <2>2
  <2>11. Types'
    BY <1>1, <2>8, <2>9, <2>10, Zenon DEF IInv, Types, loop
  <2>12. Reaches' = Reaches
    BY <1>1, <2>4, <2>8, <2>9, Zenon DEF Reaches, Target, Same, loop
  <2>13. Remembered'
    BY Zenon, <1>1, <2>4, <2>8, <2>12 DEF IInv, Remembered, Working, After, Same, loop
  <2>14. ~cm'.connect
    BY <1>4, <2>4, <2>8, Zenon DEF ResponseStoryRuns, Same
  <2>15. resp.body = "none" => (Clean => Clean')
    BY Zenon, <2>5, <2>6, <2>9, <2>10 DEF Clean
  <2>16. AfterSend'
    BY <1>1, <2>14, <2>15, Zenon DEF IInv, AfterSend, After
  <2> QED BY <1>2, <2>11, <2>13, <2>16, Zenon DEF IInv
<1> QED BY <1>3, <1>4, Zenon

LEMMA SendHeadOK ==
  ASSUME IInv, NEW ok \in BOOLEAN, SendHead(ok)
  PROVE  IInv'
<1>1. Types'
  BY ShutOK, Zenon DEF IInv, Types, SendHead, Leave, loop
<1>2. CASE ~ok
  BY <1>1, <1>2, LeaveOK, Zenon DEF SendHead, Leave
<1>3. CASE ok
  <2>1. /\ pc = "reply" /\ pc' = "body" /\ up' = up
        /\ UNCHANGED <<conf, loop, persistPeer, persistProxy, req, cm, resp, lost>>
    BY <1>3, Zenon DEF SendHead
  <2>2. Reaches' = Reaches /\ Clean' = Clean
    BY <2>1, Zenon DEF Reaches, Clean, Target, loop
  <2>3. Remembered' /\ AfterSend'
    BY <2>1, <2>2, Zenon DEF IInv, Remembered, AfterSend, Working, After, loop
  <2>4. AtTop' /\ BeforeSend'
    BY <2>1, Zenon DEF AtTop, BeforeSend, Judging
  <2> QED BY <1>1, <2>3, <2>4, Zenon DEF IInv
<1> QED BY <1>2, <1>3, Zenon

(* Whatever is left unread after a delivery ends the connection, with the    *)
(* client or with the server, or is recorded in lost.                       *)
LEMMA DeliverOK ==
  ASSUME IInv, NEW ok \in BOOLEAN, NEW all \in BOOLEAN, Deliver(ok, all)
  PROVE  IInv'
<1>1. /\ pc = "body" /\ pc' = "finish" /\ ~cm.naughty /\ gone' = ~ok
      /\ UNCHANGED <<conf, loop, persistPeer, req, cm, resp>>
  BY Zenon DEF Deliver
<1>2. AtTop' /\ BeforeSend'
  BY <1>1, Zenon DEF AtTop, BeforeSend, Judging
<1>3. /\ cm.upfail => ~persistProxy
      /\ resp.body = "none" /\ persistProxy => Clean
      /\ cm.connect /\ cm.direct /\ persistProxy => Clean
      /\ resp.body = "open" => ~persistPeer
  BY <1>1, Zenon DEF IInv, Remembered, AfterSend, Working, After
<1>4. SUFFICES /\ persistProxy' \in BOOLEAN /\ up' \in UpType /\ lost' \in BOOLEAN
               /\ up'.to = up.to
               /\ persistProxy' => persistProxy
               /\ persistProxy' /\ (resp.body = "none" \/ (cm.connect /\ cm.direct)) => Clean'
               /\ persistProxy' /\ persistPeer /\ ok => Clean'
  <2>1. Types'
    BY <1>1, <1>4, Zenon DEF IInv, Types, loop
  <2>2. Reaches' = Reaches
    BY SMTT(30), <1>1, <1>4 DEF Reaches, Target, loop
  <2>3. Remembered'
    BY SMTT(30), <1>1, <1>4, <2>2 DEF IInv, Remembered, Working, After, loop
  <2>4. AfterSend'
    BY <1>1, <1>3, <1>4, Zenon DEF AfterSend
  <2> QED BY <1>2, <2>1, <2>3, <2>4, Zenon DEF IInv
<1>5. persistProxy \in BOOLEAN /\ up \in UpType /\ lost \in BOOLEAN /\ resp.body \in {"none", "sized", "open"}
  BY Zenon DEF IInv, Types, RespType
<1>6. CASE Rest(ok)
  <2> DEFINE u == up.unread /\ ~(ok /\ all)
  <2>1. /\ persistProxy' = (persistProxy /\ TunnelSaysAll(all))
        /\ up' = [up EXCEPT !.unread = u] /\ lost' = lost
    BY <1>6, Zenon DEF Deliver
  <2>2. u \in BOOLEAN /\ (u => up.unread) /\ (ok /\ all => ~u)
    BY Zenon
  <2> HIDE DEF u
  <2>3. up' \in UpType /\ up'.to = up.to /\ up'.unread = u
    BY <1>5, <2>1, <2>2, Zenon DEF UpType
  <2>4. resp.body = "sized" => (persistProxy' => all)
    BY <2>1, Zenon DEF TunnelSaysAll
  <2> QED BY <1>3, <1>5, <2>1, <2>2, <2>3, <2>4, Zenon DEF Clean
<1>7. CASE ~Rest(ok) /\ cm.twoway
  <2>1. /\ persistProxy' = (persistProxy /\ all)
        /\ up' = [up EXCEPT !.unread = TRUE] /\ lost' = TRUE
    BY <1>7, Zenon DEF Deliver
  <2>2. up' \in UpType /\ up'.to = up.to
    BY Zenon, <1>5, <2>1 DEF UpType
  <2> QED BY <1>5, <2>1, <2>2, Zenon DEF Clean
<1>8. CASE ~Rest(ok) /\ ~cm.twoway
  <2>1. /\ lost' = (lost \/ (Answerable /\ up.unread))
        /\ UNCHANGED <<persistProxy, up>>
    BY <1>8, Zenon DEF Deliver
  <2>2. lost' \in BOOLEAN
    BY <2>1, Zenon
  <2> QED BY <1>1, <1>3, <1>5, <2>1, <2>2, Zenon DEF Clean, Answerable
<1> QED BY <1>6, <1>7, <1>8, Zenon

LEMMA NotDeliveredOK ==
  ASSUME IInv, NotDelivered
  PROVE  IInv'
<1>1. /\ pc = "body" /\ pc' = "finish" /\ cm.naughty
      /\ UNCHANGED <<conf, loop, persistPeer, persistProxy, req, cm, resp, up, gone, lost>>
  BY Zenon DEF NotDelivered
<1>2. Reaches' = Reaches /\ Clean' = Clean
  BY <1>1, Zenon DEF Reaches, Clean, Target, loop
<1>3. Types'
  BY <1>1, Zenon DEF IInv, Types, loop
<1>4. Remembered' /\ AfterSend'
  BY SMTT(30), <1>1, <1>2 DEF IInv, Remembered, AfterSend, Working, After, loop
<1>5. AtTop' /\ BeforeSend'
  BY <1>1, Zenon DEF AtTop, BeforeSend, Judging
<1> QED BY <1>3, <1>4, <1>5, Zenon DEF IInv

LEMMA FinishOK ==
  ASSUME IInv, Finish
  PROVE  IInv'
<1> DEFINE n == cm.naughty /\ ~Silent
           deny == (cm.upfail \/ cm.naughty) /\ ~Silent
           stay == persistPeer /\ ~(deny /\ cm.naughty)
<1>1. /\ pc = "finish" /\ cm' = [cm EXCEPT !.naughty = n]
      /\ persistPeer' = stay /\ lost' = (lost \/ (Silent /\ up.unread))
      /\ IF stay THEN pc' = "read" /\ up' = IF persistProxy THEN up ELSE Shut ELSE Leave
      /\ UNCHANGED <<conf, loop, persistProxy, req, resp, gone>>
  BY Zenon DEF Finish
<1>2. /\ n \in BOOLEAN /\ persistPeer' \in BOOLEAN /\ lost' \in BOOLEAN
      /\ stay => persistPeer /\ (cm.naughty => Silent)
  BY SMTT(30), <1>1
<1> HIDE DEF n, deny, stay
<1>3. cm' \in CMType /\ Same(cm', cm)
  BY Zenon, <1>1, <1>2, ReportOK DEF IInv, Types
<1>4. Types'
  BY <1>1, <1>2, <1>3, ShutOK, Zenon DEF IInv, Types, Leave, loop
<1>5. CASE ~stay
  BY <1>1, <1>4, <1>5, LeaveOK, Zenon DEF Leave
<1>6. CASE stay
  <2>1. /\ persistProxy => Reaches
        /\ last_domain_port = req.dest /\ last_isdirect = cm.direct
        /\ conf.no_proxy => cm.direct
    BY <1>1, Zenon DEF IInv, Remembered, Working, After
  <2>2. persistProxy /\ ~gone /\ ~cm.naughty => Clean
    BY <1>1, <1>2, <1>6, Zenon DEF IInv, AfterSend, After
  <2>3. persistProxy /\ ~gone => Clean'
    BY Zenon, <1>1, <1>2, <1>6, <2>2 DEF Clean
  <2>4. Kept'
    BY <1>1, <1>6, <2>1, <2>3, Zenon DEF Kept, Reaches, Target, loop
  <2>5. AtTop' /\ Remembered' /\ BeforeSend' /\ AfterSend'
    BY <1>1, <1>6, <2>4, Zenon
    DEF AtTop, Remembered, BeforeSend, AfterSend, Working, Judging, After
  <2> QED BY <1>4, <2>5, Zenon DEF IInv
<1> QED BY <1>5, <1>6, Zenon

(* The steps that end the connection.                                       *)
LEMMA EndOK ==
  ASSUME Types,
         \/ NoHeader \/ AnswerURL \/ NotAuthenticated \/ StatusPage \/ ScanBypass \/ ExchangeFails
         \/ ClientHandshakeFails \/ DenyInside \/ MitmClientGone
  PROVE  IInv'
<1>1. cm' = cm \/ cm' = [cm EXCEPT !.naughty = TRUE]
  BY Zenon DEF NoHeader, AnswerURL, NotAuthenticated, StatusPage, ScanBypass, ExchangeFails,
         ClientHandshakeFails, DenyInside, MitmClientGone
<1>2. cm' \in CMType
  BY Zenon, <1>1, ReportOK DEF Types
<1>3. /\ Leave /\ persistProxy' \in BOOLEAN /\ gone' \in BOOLEAN
      /\ UNCHANGED <<conf, loop, persistPeer, req, resp, lost>>
  BY Zenon DEF NoHeader, AnswerURL, NotAuthenticated, StatusPage, ScanBypass, ExchangeFails,
         ClientHandshakeFails, DenyInside, MitmClientGone, Types
<1>4. Types'
  BY <1>2, <1>3, ShutOK, Zenon DEF Types, Leave, loop
<1> QED BY <1>3, <1>4, LeaveOK, Zenon DEF Leave

LEMMA NextOK == IInv /\ [Next]_vars => IInv'
<1> SUFFICES ASSUME IInv, [Next]_vars PROVE IInv'
  BY Zenon
<1>1. CASE UNCHANGED vars
  <2>1. UNCHANGED <<conf, pc, ismitm, last_isdirect, last_domain_port, persistPeer, persistProxy,
                    req, cm, resp, up, gone, lost>>
    BY <1>1, Zenon DEF vars, loop
  <2>2. Types' /\ Kept' = Kept /\ Reaches' = Reaches /\ Clean' = Clean
    BY <2>1, Zenon DEF IInv, Types, Kept, Reaches, Clean, Target
  <2>3. AtTop'
    BY <2>1, <2>2, Zenon DEF IInv, AtTop
  <2>4. Remembered'
    BY <2>1, <2>2, Zenon DEF IInv, Remembered
  <2>5. BeforeSend'
    BY <2>1, <2>2, Zenon DEF IInv, BeforeSend
  <2>6. AfterSend'
    BY SMTT(30), <2>1, <2>2 DEF IInv, AfterSend
  <2> QED BY <2>2, <2>3, <2>4, <2>5, <2>6, Zenon DEF IInv
<1>2. CASE Next
  <2>1. CASE \/ NoHeader \/ AnswerURL \/ NotAuthenticated \/ StatusPage \/ ScanBypass
             \/ ExchangeFails \/ ClientHandshakeFails \/ DenyInside \/ MitmClientGone
    BY <2>1, EndOK, Zenon DEF IInv
  <2>2. CASE Over
    BY <1>1, <2>2, Zenon DEF Over
  <2>3. CASE \/ PreAuth \/ StoryRequest \/ Reuse \/ NotSent \/ Reconnect \/ Route \/ Intercept
             \/ NotDelivered \/ Finish
    BY Zenon, <2>3, PreAuthOK, StoryRequestOK, ReuseOK, NotSentOK, ReconnectOK, RouteOK, InterceptOK,
       NotDeliveredOK, FinishOK
    DEF IInv
  <2>4. CASE \/ \E r \in Requests, c \in Classes : ReadRequest(r, c)
             \/ \E ok \in BOOLEAN : Authenticated(ok) \/ Refuse(ok) \/ Establish(ok) \/ SendHead(ok)
    BY <2>4, ReadRequestOK, AuthenticatedOK, RefuseOK, EstablishOK, SendHeadOK, Zenon
  <2>5. CASE \E r \in {"connected", "fails", "tlsfails", "badcert"} : ConnectUpstream(r)
    BY <2>5, ConnectUpstreamOK, Zenon
  <2>6. CASE \E rc \in {"200", "407", "other"}, b \in {"none", "sized", "open"}, k \in BOOLEAN :
               Exchange(rc, b, k)
    BY <2>6, ExchangeOK, Zenon
  <2>7. CASE \E d \in Downloads, slow \in BOOLEAN : CheckResponse(d, slow)
    BY <2>7, CheckResponseOK, Zenon
  <2>8. CASE \E ok \in BOOLEAN, all \in BOOLEAN : Deliver(ok, all)
    BY <2>8, DeliverOK, Zenon
  <2> QED BY <1>2, <2>1, <2>2, <2>3, <2>4, <2>5, <2>6, <2>7, <2>8, Zenon DEF Next
<1> QED BY <1>1, <1>2, Zenon

(* Every request that handleConnection sends upstream goes to the server it  *)
(* names or, where one is used, to the parent proxy, over a connection with  *)
(* nothing left of an earlier response, apart from the cases lost records:   *)
(* for any servers, groups, requests and configurations.                     *)
THEOREM RequestsReachTheirPeer == Spec => []UpstreamMatches
<1>1. IInv => UpstreamMatches
  BY Zenon DEF IInv, BeforeSend, UpstreamMatches, Reaches, Clean
<1> QED BY InitOK, NextOK, <1>1, PTL DEF Spec
-----------------------------------------------------------------------------
(* What the client is told, and what the flags of a request can be, at each  *)
(* step of the loop.  The steps of the transparent handler (TSteps) come     *)
(* before the loop and are in THTTPSProofs.                                 *)
TSteps == {"hello", "tpreauth", "tauth", "tstory", "tupstream", "ttunnel"}
Unsent == {"preauth", "auth", "story", "upstream", "send"}
Content == {"body", "part", "tunnel"}

SilentGroup == conf.fg[IF HasFG THEN filtergroup ELSE 0].stealth

OneOfAnswers == \A i, j \in DOMAIN sent : sent[i] \in Answers /\ sent[j] \in Answers => i = j

(* What the client was told at each step *)
Talk ==
  /\ sent \in Seq(Tokens) /\ logged \in {0, 1} /\ OneOfAnswers
  /\ pc \in Unsent \cup TSteps => sent = <<>>
  /\ pc \notin {"read", "closed"} => logged = 0
  /\ pc \in {"route", "mitm", "response"} => Said \subseteq {"established"}
  /\ pc = "reply" => Said \subseteq {"established", "firstline"}
  /\ pc = "body" => Said \subseteq {"established", "firstline", "head"}
  /\ pc = "finish" => Said \subseteq {"established", "firstline", "head"} \cup Content
  /\ pc \in {"body", "finish"} /\ (cm.naughty \/ cm.upfail) => Said \subseteq {"established", "firstline"}
  /\ pc \in {"body", "finish"} => cm.naughty \/ cm.upfail \/ sent # <<>>
  /\ pc \in {"route", "response", "reply"} /\ cm.connect /\ cm.direct => cm.naughty \/ cm.upfail \/ sent # <<>>
  /\ pc \in {"read", "closed"} =>
       /\ Said \cap ({"deny"} \cup Content) # {} => logged = 1
       /\ "deny" \in Said => Said \cap ({"head"} \cup Content) = {}
  /\ pc = "read" /\ ~firsttime => sent # <<>> \/ SilentGroup

(* The flags of a request before it is sent *)
Unjudged ==
  /\ pc = "preauth" => cm = Fresh(req)
  /\ pc \in {"preauth", "upstream", "send"} \cup Judging \cup After => (ismitm => ~cm.connect)
  /\ pc \in Unsent => ~cm.rest /\ ~cm.twoway
  /\ pc \in Judging \cup {"upstream"} => (cm.blocked => cm.naughty)
  /\ pc \in Judging => ~cm.grey /\ ~cm.logcat
  /\ pc = "send" => ~cm.blocked

(* The flags that let content through, and who has set them *)
Permitted ==
  /\ pc \in Working => (cm.grey \/ cm.logcat => vetted)
  /\ pc \in {"send"} \cup After /\ cm.upfail => cm.naughty \/ (~cm.connect /\ ~cm.twoway)
  /\ pc \in After =>
       /\ cm.upfail => resp.body = "none"
       /\ cm.checked => vetted
       /\ cm.twoway => vetted \/ cm.exception
       /\ cm.rest => \/ vetted \/ cm.exception \/ resp.body = "none"
                     \/ cm.connect /\ resp.rc \notin {"none", "200"}
  /\ JudgedBeforeDelivered

Flags == Unjudged /\ Permitted

-----------------------------------------------------------------------------
(* What each party that judges a request may change of its flags            *)

(* What may happen to the flags before the story of the group is asked.     *)
Before(d, c) ==
  /\ d.rest = c.rest /\ d.twoway = c.twoway /\ d.grey = c.grey /\ d.logcat = c.logcat
  /\ d.connect = c.connect
  /\ (c.blocked => c.naughty) => (d.blocked => d.naughty)

(* The pre-authentication story only decides on exceptions and interception. *)
LEMMA PreAuthVerdictsFlags ==
  ASSUME NEW c \in CMType, NEW d \in PreAuthVerdicts(c)
  PROVE  Before(d, c)
<1>1. ASSUME NEW e \in CMType, NEW f \in Unbroken(e)
      PROVE  Before(f, e)
  <2>1. CASE f = e
    BY <2>1, Zenon DEF Before
  <2>2. CASE f = [e EXCEPT !.nomitm = TRUE, !.gomitm = FALSE, !.automitm = FALSE]
    BY <2>2, Zenon DEF CMType, Before
  <2>3. CASE f = [e EXCEPT !.automitm = FALSE]
    BY <2>3, Zenon DEF CMType, Before
  <2> QED BY <2>1, <2>2, <2>3, Zenon DEF Unbroken
<1> DEFINE e == [c EXCEPT !.exception = TRUE, !.direct = TRUE]
<1>2. e \in CMType
  BY ZenonT(30) DEF CMType
<1>3. Before(e, c)
  BY Zenon DEF CMType, Before
<1>4. d \in Unbroken(c) \/ d \in Unbroken(e)
  BY Zenon DEF PreAuthVerdicts
<1> HIDE DEF e
<1>5. Before(d, c) \/ Before(d, e)
  BY <1>1, <1>2, <1>4, Zenon
<1> QED BY <1>3, <1>5, Zenon DEF Before

(* Who is blocked by the lists of addresses and rooms is refused.           *)
LEMMA PreAuthSaysFlags ==
  ASSUME cm \in CMType, NEW c \in PreAuthSays
  PROVE  Before(c, cm)
<1>1. CASE c = [cm EXCEPT !.exception = TRUE, !.special = "exception", !.nomitm = TRUE,
                          !.automitm = FALSE, !.authed = TRUE]
  BY <1>1, Zenon DEF CMType, Before
<1>2. CASE c = [cm EXCEPT !.blocked = TRUE, !.naughty = TRUE, !.special = "banned",
                          !.authed = TRUE]
  BY <1>2, Zenon DEF CMType, Before
<1>3. ASSUME NEW d \in PreAuthVerdicts(cm),
             c \in {d, [d EXCEPT !.exception = TRUE], [d EXCEPT !.blocked = TRUE, !.naughty = TRUE]}
      PROVE  Before(c, cm)
  <2>1. d \in CMType /\ Before(d, cm)
    BY PreAuthVerdictsOK, PreAuthVerdictsFlags, Zenon
  <2>2. Before(c, d)
    BY ZenonT(60), <1>3, <2>1 DEF CMType, Before
  <2> QED BY <2>1, <2>2, Zenon DEF Before
<1>4. \/ c = [cm EXCEPT !.exception = TRUE, !.special = "exception", !.nomitm = TRUE,
                        !.automitm = FALSE, !.authed = TRUE]
      \/ c = [cm EXCEPT !.blocked = TRUE, !.naughty = TRUE, !.special = "banned",
                        !.authed = TRUE]
      \/ \E d \in PreAuthVerdicts(cm) :
           c \in {d, [d EXCEPT !.exception = TRUE], [d EXCEPT !.blocked = TRUE, !.naughty = TRUE]}
  BY Zenon DEF PreAuthSays
<1> QED BY Zenon, <1>1, <1>2, <1>3, <1>4

(* A failed connection for NTLM is a refusal.                               *)
LEMMA AfterEarlyFlags ==
  ASSUME cm \in CMType, NEW ok \in BOOLEAN
  PROVE  Before(AfterEarly(ok), cm)
<1> DEFINE g == UpFails(cm).gomitm \/ (cm.connect /\ FG.mitm /\ FG.auto)
<1>1. AfterEarly(ok) = cm \/ AfterEarly(ok) = [UpFails(cm) EXCEPT !.gomitm = g]
  BY Zenon DEF AfterEarly
<1> HIDE DEF g
<1>2. UpFails(cm) \in CMType
  BY UpFailsOK, Zenon
<1>3. Before(UpFails(cm), cm)
  BY Zenon DEF UpFails, CMType, Before
<1>4. Before([UpFails(cm) EXCEPT !.gomitm = g], UpFails(cm))
  BY <1>2, Zenon DEF CMType, Before
<1> QED BY <1>1, <1>3, <1>4, Zenon DEF Before

(* The ip plugin refuses whom it blocks.                                    *)
LEMMA HiddenFlags ==
  ASSUME NEW c \in CMType, NEW d \in Hidden(c)
  PROVE  Before(d, c)
<1>1. \/ d = c
      \/ d = [c EXCEPT !.exception = TRUE, !.special = "exception", !.nomitm = TRUE, !.automitm = FALSE]
      \/ d = [c EXCEPT !.blocked = TRUE, !.naughty = TRUE, !.special = "banned"]
  BY Zenon DEF Hidden
<1>2. CASE d = [c EXCEPT !.exception = TRUE, !.special = "exception", !.nomitm = TRUE,
                         !.automitm = FALSE]
  BY <1>2, Zenon DEF CMType, Before
<1>3. CASE d = [c EXCEPT !.blocked = TRUE, !.naughty = TRUE, !.special = "banned"]
  BY <1>3, Zenon DEF CMType, Before
<1> QED BY <1>1, <1>2, <1>3, Zenon DEF Before

(* Deciding who may be intercepted, a bypass, and the choice of scanners     *)
(* neither block nor permit anything.                                       *)
LEMMA JudgeFlags ==
  ASSUME NEW c \in CMType
  PROVE  Before(Judge(c), c)
<1> DEFINE p == Candidate(c)
           q == c.nomitm \/ ~Candidate(c)
           r == c.automitm /\ Candidate(c) /\ FG.auto
<1>1. Judge(c) = [c EXCEPT !.candidate = p, !.nomitm = q, !.automitm = r]
  BY Zenon DEF Judge
<1> HIDE DEF p, q, r
<1> QED BY <1>1 DEF CMType, Before

LEMMA BypassedFlags ==
  ASSUME NEW c \in CMType, NEW b \in Bypassed(c)
  PROVE  Before(b, c)
<1>1. b = c \/ \E x \in {"asked", "held"} : b = [c EXCEPT !.exception = TRUE, !.bypass = x]
  BY Zenon DEF Bypassed
<1> QED BY <1>1, ZenonT(60) DEF CMType, Before

LEMMA SetNoScanFlags ==
  ASSUME NEW c \in CMType
  PROVE  Before(SetNoScan(c), c)
<1>1. PICK n \in BOOLEAN : SetNoScan(c) = [c EXCEPT !.noscan = n]
  BY Zenon DEF SetNoScan
<1> QED BY <1>1, Zenon DEF CMType, Before

(* The request story does not touch what is done with a response.           *)
LEMMA StorySaysFlags ==
  ASSUME NEW c \in CMType, NEW s \in StorySays(c)
  PROVE  s.rest = c.rest /\ s.twoway = c.twoway
<1> DEFINE Mute(d, e) == d.rest = e.rest /\ d.twoway = e.twoway
<1>1. ASSUME NEW e \in CMType, NEW d \in Verdicts(e)
      PROVE  Mute(d, e)
  <2>1. ASSUME NEW a,
               d = [e EXCEPT !.blocked = TRUE, !.grey = FALSE, !.exception = FALSE, !.automitm = a]
        PROVE  Mute(d, e)
    BY <2>1, Zenon DEF CMType
  <2>2. CASE d = [e EXCEPT !.exception = TRUE, !.grey = FALSE, !.blocked = FALSE]
    BY <2>2, Zenon DEF CMType
  <2>3. CASE d = [e EXCEPT !.grey = TRUE, !.exception = FALSE, !.blocked = FALSE]
    BY <2>3, Zenon DEF CMType
  <2>4. CASE d = [e EXCEPT !.grey = TRUE, !.logcat = TRUE]
    BY <2>4, Zenon DEF CMType
  <2>5. CASE d = [e EXCEPT !.redirect = TRUE] \/ d = [e EXCEPT !.gomitm = TRUE]
    BY <2>5, Zenon DEF CMType
  <2>6. CASE d = [e EXCEPT !.redirect = TRUE, !.grey = TRUE]
    BY <2>6, Zenon DEF CMType
  <2>7. CASE d = e
    BY <2>7, Zenon
  <2> HIDE DEF Mute
  <2> QED BY Zenon, <2>1, <2>2, <2>3, <2>4, <2>5, <2>6, <2>7 DEF Verdicts
<1>2. ASSUME NEW e \in CMType, NEW d \in Routed(e)
      PROVE  Mute(d, e)
  BY Zenon DEF Routed, CMType
<1> DEFINE f == [c EXCEPT !.bypass = "no", !.exception = FALSE]
<1>3. PICK d \in Judged(c) : s \in Routed(d)
  BY Zenon DEF StorySays
<1>4. f \in CMType
  BY ZenonT(30) DEF CMType
<1>5. Mute(f, c)
  BY Zenon DEF CMType
<1>6. d = c \/ d \in Verdicts(c) \/ d \in Verdicts(f)
  BY Zenon DEF Judged
<1> HIDE DEF f
<1>7. Mute(d, c)
  BY <1>1, <1>4, <1>5, <1>6, Zenon
<1>8. Mute(s, d)
  BY <1>2, <1>3, JudgedOK, Zenon
<1> QED BY <1>7, <1>8, Zenon

(* After the request story a request that is blocked is refused; only the    *)
(* story makes a request grey or one of a logged category.                  *)
LEMMA RequestStoryFlags ==
  ASSUME NEW c \in CMType, NEW s \in RequestStory(c), c.blocked => c.naughty
  PROVE  /\ s.rest = c.rest /\ s.twoway = c.twoway
         /\ s.blocked => s.naughty
         /\ StoryRuns(c) \/ (s.grey = c.grey /\ s.logcat = c.logcat)
<1>1. CASE ~StoryRuns(c)
  BY <1>1, Zenon DEF RequestStory
<1>2. CASE StoryRuns(c)
  <2>1. PICK d \in StorySays(c) : \/ s = [d EXCEPT !.naughty = FALSE, !.blocked = FALSE]
                                  \/ s = [d EXCEPT !.naughty = d.blocked]
    BY Zenon, <1>2 DEF RequestStory
  <2>2. d \in CMType /\ d.rest = c.rest /\ d.twoway = c.twoway
    BY StorySaysOK, StorySaysFlags, Zenon
  <2>3. s.rest = d.rest /\ s.twoway = d.twoway /\ (s.blocked => s.naughty)
    BY <2>1, <2>2, ZenonT(60) DEF CMType
  <2> QED BY <1>2, <2>2, <2>3, Zenon
<1> QED BY <1>1, <1>2, Zenon

LEMMA SearchSaysFlags ==
  ASSUME NEW c \in CMType, NEW s \in SearchSays(c)
  PROVE  Before(s, c)
<1>1. s = c \/ s = [c EXCEPT !.naughty = TRUE]
  BY Zenon DEF SearchSays
<1> QED BY <1>1, Zenon DEF CMType, Before

(* What passing a request on changes: the way its response is handled.      *)
Standing(d, c) ==
  /\ d.naughty = c.naughty /\ d.upfail = c.upfail /\ d.exception = c.exception
  /\ d.connect = c.connect /\ d.direct = c.direct
  /\ d.grey = c.grey /\ d.logcat = c.logcat /\ d.checked = c.checked

LEMMA TunnelGreyFlags ==
  ASSUME NEW c \in CMType
  PROVE  /\ Standing(TunnelGrey(c), c)
         /\ TunnelGrey(c).twoway => c.twoway \/ (c.connect /\ c.grey)
         /\ TunnelGrey(c).rest => c.rest
<1>1. CASE c.connect /\ c.grey
  BY <1>1, Zenon DEF TunnelGrey, CMType, Standing
<1>2. CASE ~(c.connect /\ c.grey)
  BY <1>2, Zenon DEF TunnelGrey, Standing
<1> QED BY <1>1, <1>2, Zenon

LEMMA PassOnFlags ==
  ASSUME NEW c \in CMType
  PROVE  /\ Standing(PassOn(c), c)
         /\ PassOn(c).twoway => c.twoway \/ ((c.exception \/ c.logcat) /\ ~c.upfail)
         /\ PassOn(c).rest => c.rest \/ c.exception \/ c.logcat
<1> DEFINE n == c.noscan \/ ~HasFG \/ ~FG.scanexc
           t == c.twoway /\ ~n
           r == c.rest \/ n
           passed == (c.exception \/ c.logcat) /\ ~c.upfail
<1>1. CASE ~passed
  <2>1. PassOn(c) = c
    BY <1>1, Zenon DEF PassOn
  <2> QED BY <2>1, Zenon DEF Standing
<1>2. CASE passed /\ c.connect
  <2>1. PassOn(c) = [c EXCEPT !.twoway = TRUE, !.rest = FALSE]
    BY <1>2, Zenon DEF PassOn
  <2> QED BY <1>2, <2>1, ZenonT(60) DEF Standing, CMType
<1>3. CASE passed /\ ~c.connect
  <2>1. PassOn(c) = [c EXCEPT !.noscan = n, !.twoway = t, !.rest = r]
    BY <1>3, Zenon DEF PassOn
  <2> HIDE DEF n, t, r
  <2>2. Standing(PassOn(c), c) /\ PassOn(c).twoway = t
    BY <2>1, Zenon DEF Standing, CMType
  <2>3. t => c.twoway
    BY Zenon DEF t
  <2> QED BY <1>3, <2>2, <2>3, Zenon
<1> QED BY <1>1, <1>2, <1>3, Zenon

(* A response without a body, a demand for authentication and the refusal    *)
(* of a CONNECT are passed on.                                              *)
LEMMA StatusCodeFlags ==
  ASSUME cm \in CMType, NEW rc, NEW body
  PROVE  LET d == StatusCode(rc, body) IN
           /\ d.grey = cm.grey /\ d.logcat = cm.logcat
           /\ d.twoway => cm.twoway
           /\ cm.exception => d.exception
           /\ d.rest => \/ cm.rest \/ d.exception \/ body = "none"
                        \/ d.connect /\ rc # "200"
<1> DEFINE a1 == [cm EXCEPT !.rest = TRUE, !.twoway = FALSE, !.connect = FALSE, !.exception = TRUE]
           a2 == [cm EXCEPT !.naughty = TRUE]
           auth == CASE rc = "407" -> a1
                     [] rc # "407" /\ ~cm.authed /\ req.proxied /\ conf.auth = "ntlm"
                          /\ ~cm.exception -> a2
                     [] OTHER -> cm
           Fits(c) == /\ c.grey = cm.grey /\ c.logcat = cm.logcat
                      /\ c.twoway => cm.twoway
                      /\ cm.exception => c.exception
                      /\ c.rest => cm.rest \/ c.exception
<1>1. a1 \in CMType
  BY ZenonT(30) DEF CMType
<1>2. Fits(a1)
  BY Zenon DEF CMType
<1>3. a2 \in CMType
  BY Zenon DEF CMType
<1>4. Fits(a2)
  BY Zenon DEF CMType
<1>5. auth = a1 \/ auth = a2 \/ auth = cm
  <2> HIDE DEF a1, a2
  <2> QED BY Zenon
<1>6. auth \in CMType /\ Fits(auth)
  <2> HIDE DEF a1, a2, auth
  <2> QED BY <1>1, <1>2, <1>3, <1>4, <1>5, Zenon
<1> DEFINE refused == auth.connect /\ rc # "200"
           p == auth.candidate /\ ~refused
           q == auth.rest \/ refused \/ body = "none"
           r == auth.twoway /\ ~refused
           e == [auth EXCEPT !.candidate = p, !.rest = q, !.twoway = r]
<1>7. StatusCode(rc, body) = IF cm.naughty THEN cm ELSE e
  BY Zenon DEF StatusCode
<1> HIDE DEF auth, p, q, r
<1>8. /\ e.grey = auth.grey /\ e.logcat = auth.logcat /\ e.twoway = r /\ e.rest = q
      /\ e.exception = auth.exception /\ e.connect = auth.connect
  BY <1>6, Zenon DEF CMType
<1>9. (r => auth.twoway) /\ (q => auth.rest \/ body = "none" \/ (auth.connect /\ rc # "200"))
  BY Zenon DEF q, r
<1> HIDE DEF e
<1> QED BY <1>6, <1>7, <1>8, <1>9, Zenon

-----------------------------------------------------------------------------
(* What the client was told                                                 *)

LEMMA NothingSaid == ASSUME sent = <<>> PROVE Said = {} /\ OneOfAnswers /\ sent \in Seq(Tokens)
BY DEF Said, OneOfAnswers

LEMMA NothingSaid1 == ASSUME sent' = <<>> PROVE Said' = {} /\ OneOfAnswers' /\ sent' \in Seq(Tokens)
BY DEF Said, OneOfAnswers

LEMMA SameSaid == ASSUME sent' = sent PROVE Said' = Said /\ OneOfAnswers' = OneOfAnswers
BY Zenon DEF Said, OneOfAnswers

(* One more token: if it is an answer, there was none.                      *)
LEMMA OneMore ==
  ASSUME sent \in Seq(Tokens), OneOfAnswers, NEW x \in Tokens, sent' = Append(sent, x),
         x \in Answers => Said \cap Answers = {}
  PROVE  /\ sent' \in Seq(Tokens) /\ sent' # <<>> /\ OneOfAnswers'
         /\ Said' = Said \cup {x}
<1>1. /\ sent' \in Seq(Tokens) /\ Len(sent') = Len(sent) + 1 /\ Len(sent) \in Nat
      /\ DOMAIN sent = 1 .. Len(sent) /\ DOMAIN sent' = 1 .. Len(sent) + 1
      /\ \A i \in 1 .. Len(sent) : sent'[i] = sent[i]
      /\ sent'[Len(sent) + 1] = x
  OBVIOUS
<1>2. sent' # <<>>
  BY <1>1
<1>3. Said' \subseteq Said \cup {x}
  <2>1. ASSUME NEW i \in DOMAIN sent' PROVE sent'[i] \in Said \cup {x}
    BY <1>1, <2>1 DEF Said
  <2> QED BY <2>1, Zenon DEF Said
<1>4. Said \subseteq Said' /\ x \in Said'
  BY <1>1 DEF Said
<1>5. OneOfAnswers'
  <2> SUFFICES ASSUME NEW i \in DOMAIN sent', NEW j \in DOMAIN sent',
                      sent'[i] \in Answers, sent'[j] \in Answers
               PROVE  i = j
    BY Zenon DEF OneOfAnswers
  <2>1. CASE x \in Answers
    <3>1. ASSUME NEW k \in 1 .. Len(sent) PROVE sent'[k] \notin Answers
      BY <1>1, <2>1, <3>1, Zenon DEF Said
    <3> QED BY <1>1, <3>1
  <2>2. CASE x \notin Answers
    <3>1. i \in 1 .. Len(sent) /\ j \in 1 .. Len(sent)
      BY <1>1, <2>2
    <3> QED BY <1>1, <3>1, Zenon DEF OneOfAnswers
  <2> QED BY <2>1, <2>2, Zenon
<1> QED BY <1>1, <1>2, <1>3, <1>4, <1>5, Zenon

(* The steps of which the client hears nothing.                             *)
LEMMA QuietTalk ==
  ASSUME sent' = <<>>, logged' = 0, pc' \in Unsent \cup TSteps
  PROVE  Talk'
BY NothingSaid1, Zenon DEF Talk, Unsent, TSteps

(* The connection ends before any content: with at most one line of our own. *)
LEMMA LastWord ==
  ASSUME sent \in Seq(Tokens), OneOfAnswers, Said \subseteq {"established", "firstline"}, 
         pc' = "closed", logged' \in {0, 1},
         sent' = sent \/ \E x \in {"error", "page", "redirect", "established"} : sent' = Append(sent, x)
  PROVE  Talk' /\ Said' \cap Content = {}
<1>1. Said \cap Answers = {}
  BY Zenon DEF Answers
<1>2. /\ sent' \in Seq(Tokens) /\ OneOfAnswers'
      /\ Said' \subseteq {"established", "firstline", "error", "page", "redirect"}
  <2>1. CASE sent' = sent
    BY <2>1, SameSaid, Zenon
  <2>2. ASSUME NEW x \in {"error", "page", "redirect", "established"}, sent' = Append(sent, x)
        PROVE  <1>2
    <3>1. x \in Tokens
      BY Zenon DEF Tokens, Answers
    <3>2. /\ sent' \in Seq(Tokens) /\ OneOfAnswers' /\ Said' = Said \cup {x}
      BY <1>1, <2>2, <3>1, OneMore, Zenon
    <3> QED BY <3>2, Zenon
  <2> QED BY <2>1, <2>2, Zenon
<1>3. Said' \cap ({"deny", "head"} \cup Content) = {}
  BY <1>2, Zenon DEF Content
<1> QED BY <1>2, <1>3, Zenon DEF Talk, Unsent, TSteps

(* The steps of the request loop that say nothing of their own to a client   *)
(* that was told nothing.                                                   *)
LEMMA UnheardTalk ==
  ASSUME Talk,
         \/ \E r \in Requests, c \in Classes : ReadRequest(r, c)
         \/ PreAuth \/ (\E ok \in BOOLEAN : Authenticated(ok))
         \/ Reuse \/ (\E r \in {"connected", "fails", "tlsfails", "badcert"} : ConnectUpstream(r))
         \/ Reconnect
  PROVE  Talk'
<1>1. sent' = <<>> /\ logged' = 0 /\ pc' \in Unsent
  BY Zenon DEF Talk, Unsent, ReadRequest, PreAuth, Authenticated, Reuse, ConnectUpstream, Reconnect
<1> QED BY <1>1, QuietTalk, Zenon

(* The steps that end the connection before a request is sent.              *)
LEMMA EndTalk ==
  ASSUME Talk,
         AnswerURL \/ NotAuthenticated \/ StatusPage \/ ScanBypass \/ ExchangeFails
  PROVE  Talk' /\ Said' \cap Content = {}
<1>1. /\ pc' = "closed" /\ logged' \in {0, 1} /\ sent = <<>>
      /\ sent' = sent \/ \E x \in {"error", "page", "redirect", "established"} : sent' = Append(sent, x)
  BY DEF Talk, Unsent, AnswerURL, NotAuthenticated, StatusPage, ScanBypass, ExchangeFails, Leave
<1> QED BY <1>1, NothingSaid, LastWord, Zenon

LEMMA StoryTalk ==
  ASSUME Talk, StoryRequest
  PROVE  Talk' /\ Said' \cap Content = {}
<1>1. sent = <<>> /\ logged = 0 /\ logged' = logged
  BY Zenon DEF Talk, Unsent, StoryRequest
<1>2. \/ sent' = Append(sent, "redirect") /\ pc' = "closed"
      \/ sent' = sent /\ pc' = "upstream"
  BY Zenon DEF StoryRequest, Leave
<1>3. CASE sent' = Append(sent, "redirect") /\ pc' = "closed"
  BY <1>1, <1>3, NothingSaid, LastWord, Zenon
<1>4. CASE sent' = sent /\ pc' = "upstream"
  BY <1>1, <1>4, NothingSaid1, QuietTalk, Zenon DEF Unsent
<1> QED BY <1>2, <1>3, <1>4, Zenon

(* The tunnel that a CONNECT is told of.                                    *)
LEMMA RouteTalk ==
  ASSUME sent = <<>>, logged' = 0,
         sent' = sent \/ sent' = Append(sent, "established"),
         pc' = "route", cm'.connect /\ cm'.direct => cm'.naughty \/ cm'.upfail \/ sent' # <<>>
  PROVE  Talk'
<1>1. sent' \in Seq(Tokens) /\ OneOfAnswers' /\ Said' \subseteq {"established"}
  <2>1. CASE sent' = sent
    BY <2>1, NothingSaid1, Zenon
  <2>2. CASE sent' = Append(sent, "established")
    <3>1. "established" \in Tokens /\ "established" \notin Answers
      BY Zenon DEF Tokens, Answers
    <3> QED BY <2>2, <3>1, NothingSaid, OneMore, Zenon
  <2> QED BY <2>1, <2>2, Zenon
<1> QED BY <1>1, Zenon DEF Talk, Unsent, TSteps

LEMMA RefuseTalk ==
  ASSUME Talk, cm \in CMType, NEW ok \in BOOLEAN, Refuse(ok)
  PROVE  Talk' /\ Said' \cap Content = {}
<1>1. sent = <<>> /\ logged = 0 /\ logged' = 0 /\ cm.naughty
  BY Zenon DEF Talk, Unsent, Refuse
<1>2. cm'.naughty
  BY <1>1, Zenon DEF Refuse, CMType
<1>3. sent' = sent \/ sent' = Append(sent, "established")
  BY Zenon DEF Refuse
<1>4. pc' = "route" \/ pc' = "closed"
  BY Zenon DEF Refuse, Leave
<1>5. CASE pc' = "closed"
  BY <1>1, <1>3, <1>5, NothingSaid, LastWord, Zenon
<1>6. CASE pc' = "route"
  <2>1. Talk'
    BY <1>1, <1>2, <1>3, <1>6, RouteTalk, Zenon
  <2> QED BY <1>6, <2>1, Zenon DEF Talk, Content
<1> QED BY <1>4, <1>5, <1>6, Zenon

LEMMA EstablishTalk ==
  ASSUME Talk, NEW ok \in BOOLEAN, Establish(ok)
  PROVE  Talk' /\ Said' \cap Content = {}
<1>1. sent = <<>> /\ logged = 0 /\ logged' = 0
  BY Zenon DEF Talk, Unsent, Establish
<1>2. sent' = sent \/ sent' = Append(sent, "established")
  BY Zenon DEF Establish
<1>3. CASE ok
  <2>1. pc' = "route" /\ sent' = Append(sent, "established")
    BY <1>3, Zenon DEF Establish
  <2>2. sent' # <<>>
    BY <1>1, <2>1
  <2>3. Talk'
    BY <1>1, <2>1, <2>2, RouteTalk, Zenon
  <2> QED BY <2>1, <2>3, Zenon DEF Talk, Content
<1>4. CASE ~ok
  <2>1. pc' = "closed"
    BY <1>4, Zenon DEF Establish, Leave
  <2> QED BY <1>1, <1>2, <2>1, NothingSaid, LastWord, Zenon
<1> QED BY <1>3, <1>4, Zenon

LEMMA NotSentTalk ==
  ASSUME Talk, cm \in CMType, NotSent
  PROVE  Talk'
<1>1. /\ sent = <<>> /\ sent' = sent /\ logged' = 0 /\ pc' = "route"
      /\ ~(cm.direct /\ cm.connect) /\ cm' = TunnelGrey(cm)
  BY Zenon DEF Talk, Unsent, NotSent
<1>2. cm'.connect = cm.connect /\ cm'.direct = cm.direct
  BY <1>1, TunnelGreyFlags, Zenon DEF Standing
<1> QED BY <1>1, <1>2, RouteTalk, Zenon

(* What Exchange makes of the flags.                                        *)
LEMMA ExchangeFlags ==
  ASSUME cm \in CMType, NEW rc, NEW b, NEW k, Exchange(rc, b, k), ~cm.rest, ~cm.twoway
  PROVE  /\ cm'.upfail = cm.upfail /\ cm'.direct = cm.direct /\ cm'.checked = cm.checked
         /\ cm'.connect => cm.connect
         /\ cm'.grey = cm.grey /\ cm'.logcat = cm.logcat
         /\ cm'.twoway => cm.connect /\ cm.grey
         /\ cm'.rest => \/ cm'.exception \/ b = "none"
                        \/ cm'.connect /\ rc # "200"
<1>1. PICK d : d = StatusCode(rc, b)
  BY Zenon
<1>2. cm' = TunnelGrey(d)
  BY <1>1, Zenon DEF Exchange
<1>3. /\ d \in CMType
      /\ d.direct = cm.direct /\ d.upfail = cm.upfail /\ d.checked = cm.checked
      /\ d.connect => cm.connect
  BY <1>1, StatusCodeOK, Zenon
<1>4. /\ d.grey = cm.grey /\ d.logcat = cm.logcat
      /\ ~d.twoway
      /\ d.rest => d.exception \/ b = "none" \/ (d.connect /\ rc # "200")
  BY <1>1, StatusCodeFlags, Zenon
<1>5. /\ Standing(cm', d)
      /\ cm'.twoway => d.twoway \/ (d.connect /\ d.grey)
      /\ cm'.rest => d.rest
  BY <1>2, <1>3, TunnelGreyFlags, Zenon
<1> QED BY <1>3, <1>4, <1>5, Zenon DEF Standing

LEMMA ExchangeTalk ==
  ASSUME Talk, Unjudged, cm \in CMType, NEW rc, NEW b, NEW k, Exchange(rc, b, k)
  PROVE  Talk'
<1>1. /\ sent = <<>> /\ sent' = sent /\ logged' = 0 /\ pc' = "route"
      /\ ~(cm.direct /\ cm.connect) /\ ~cm.rest /\ ~cm.twoway
  BY Zenon DEF Talk, Unjudged, Unsent, Exchange
<1>2. cm'.direct = cm.direct /\ (cm'.connect => cm.connect)
  BY <1>1, ExchangeFlags, Zenon
<1> QED BY <1>1, <1>2, RouteTalk, Zenon

LEMMA PassOnTalk ==
  ASSUME Talk, cm \in CMType, Route
  PROVE  Talk'
<1>1. pc = "route" /\ pc' \in {"mitm", "response"} /\ sent' = sent /\ logged' = logged /\ cm' = PassOn(cm)
  BY Zenon DEF Route
<1>2. Standing(cm', cm)
  BY <1>1, PassOnFlags, Zenon
<1>3. Said' = Said /\ OneOfAnswers' = OneOfAnswers
  BY <1>1, SameSaid, Zenon
<1> QED BY <1>1, <1>2, <1>3, Zenon DEF Talk, Standing, Unsent, TSteps

(* goMITM tells the client of the tunnel, and a refusal inside it.          *)
LEMMA MitmTalk ==
  ASSUME Talk, Intercept \/ ClientHandshakeFails \/ DenyInside \/ MitmClientGone
  PROVE  Talk' /\ Said' \cap Content = {}
<1>1. pc = "mitm" /\ Said \subseteq {"established"} /\ logged = 0 /\ sent \in Seq(Tokens) /\ OneOfAnswers
  BY Zenon DEF Talk, Intercept, ClientHandshakeFails, DenyInside, MitmClientGone
<1>2. Established = sent \/ Established = Append(sent, "established")
  BY Zenon DEF Established
<1>3. "established" \in Tokens /\ "established" \notin Answers /\ "deny" \in Tokens
  BY Zenon DEF Tokens, Answers
<1>4. CASE Intercept
  <2>1. pc' = "read" /\ logged' = 0 /\ firsttime' /\ sent' = Established
    BY <1>1, <1>4, Zenon DEF Intercept
  <2>2. sent' \in Seq(Tokens) /\ OneOfAnswers' /\ Said' \subseteq {"established"}
    BY <1>1, <1>2, <1>3, <2>1, SameSaid, OneMore, Zenon
  <2>3. Said' \cap ({"deny"} \cup Content) = {}
    BY <2>2, Zenon DEF Content
  <2> QED BY <2>1, <2>2, <2>3, Zenon DEF Talk, Unsent, TSteps
<1>5. CASE ClientHandshakeFails \/ MitmClientGone
  <2>1. pc' = "closed" /\ logged' \in {0, 1} /\ (sent' = sent \/ sent' = Established)
    BY <1>1, <1>5 DEF ClientHandshakeFails, MitmClientGone, Leave
  <2> QED BY <1>1, <1>2, <2>1, LastWord, Zenon
<1>6. CASE DenyInside
  <2>1. pc' = "closed" /\ logged' = 1 /\ sent' = Append(Established, "deny")
    BY <1>1, <1>6 DEF DenyInside, Leave
  <2>2. /\ sent' \in Seq(Tokens) /\ OneOfAnswers'
        /\ Said' \subseteq {"established", "deny"}
    <3>1. CASE Established = sent
      <4>1. Said \cap Answers = {}
        BY <1>1, Zenon DEF Answers
      <4> QED BY <1>1, <1>3, <2>1, <3>1, <4>1, OneMore, Zenon
    <3>2. CASE Established = Append(sent, "established")
      <4>1. sent' = Append(Append(sent, "established"), "deny")
        BY <2>1, <3>2, Zenon
      <4>2. /\ Len(sent) \in Nat /\ DOMAIN sent = 1 .. Len(sent)
            /\ \A i \in 1 .. Len(sent) : sent[i] = "established"
        BY <1>1 DEF Said
      <4>3. /\ sent' \in Seq(Tokens) /\ DOMAIN sent' = 1 .. Len(sent) + 2
            /\ \A i \in 1 .. Len(sent) + 1 : sent'[i] = "established"
            /\ sent'[Len(sent) + 2] = "deny"
        BY <1>1, <1>3, <4>1, <4>2
      <4>4. Said' \subseteq {"established", "deny"}
        <5>1. ASSUME NEW i \in DOMAIN sent' PROVE sent'[i] \in {"established", "deny"}
          BY <4>2, <4>3
        <5> QED BY <5>1, Zenon DEF Said
      <4>5. OneOfAnswers'
        BY <1>3, <4>2, <4>3 DEF OneOfAnswers
      <4> QED BY <4>3, <4>4, <4>5, Zenon
    <3> QED BY <1>2, <3>1, <3>2, Zenon
  <2>3. Said' \cap ({"head"} \cup Content) = {}
    BY <2>2, Zenon DEF Content
  <2> QED BY <2>1, <2>2, <2>3, Zenon DEF Talk, Unsent, TSteps
<1> QED BY <1>4, <1>5, <1>6, Zenon

(* What check_content makes of the flags.                                   *)
LEMMA CheckFlags ==
  ASSUME cm \in CMType, NEW d, NEW slow, CheckResponse(d, slow), ResponseStoryRuns
  PROVE  /\ ~cm'.connect /\ ~cm'.upfail
         /\ sent' = sent \/ sent' = Append(sent, "firstline")
<1>1. PICK s \in ResponseStory :
        \E c \in IF Wanted(s) THEN Contents(s) ELSE {s} :
          /\ cm' = [c EXCEPT !.toobig = c.checked /\ d = "toobig"]
          /\ sent' = IF c.checked /\ slow THEN Append(sent, "firstline") ELSE sent
  BY Zenon DEF CheckResponse
<1>2. PICK c \in IF Wanted(s) THEN Contents(s) ELSE {s} :
          /\ cm' = [c EXCEPT !.toobig = c.checked /\ d = "toobig"]
          /\ sent' = IF c.checked /\ slow THEN Append(sent, "firstline") ELSE sent
  BY <1>1, Zenon
<1>3. s \in CMType /\ Same(s, cm)
  BY ResponseStoryOK, Zenon
<1>4. c = s \/ c \in Contents(s)
  BY <1>2, Zenon
<1>5. c \in CMType /\ c.upfail = cm.upfail /\ c.connect = cm.connect
  BY <1>3, <1>4, ContentsOK, Zenon DEF Same
<1>6. cm'.upfail = c.upfail /\ cm'.connect = c.connect
  BY <1>2, <1>5, Zenon DEF CMType
<1> QED BY <1>2, <1>5, <1>6, Zenon DEF ResponseStoryRuns

LEMMA CheckTalk ==
  ASSUME Talk, cm \in CMType, NEW d, NEW slow, CheckResponse(d, slow)
  PROVE  Talk'
<1>1. /\ pc = "response" /\ pc' = "reply" /\ logged' = 0
      /\ sent \in Seq(Tokens) /\ OneOfAnswers /\ Said \subseteq {"established"}
  BY Zenon DEF Talk, CheckResponse
<1>2. CASE ResponseStoryRuns
  <2>1. ~cm'.connect /\ (sent' = sent \/ sent' = Append(sent, "firstline"))
    BY <1>2, CheckFlags, Zenon
  <2>2. "firstline" \in Tokens /\ "firstline" \notin Answers
    BY Zenon DEF Tokens, Answers
  <2>3. sent' \in Seq(Tokens) /\ OneOfAnswers' /\ Said' \subseteq {"established", "firstline"}
    BY <1>1, <2>1, <2>2, SameSaid, OneMore, Zenon
  <2> QED BY <1>1, <2>1, <2>3, Zenon DEF Talk, Unsent, TSteps
<1>3. CASE ~ResponseStoryRuns
  <2>1. cm' = cm /\ sent' = sent
    BY <1>3, Zenon DEF CheckResponse
  <2>2. Said' = Said /\ OneOfAnswers' = OneOfAnswers
    BY <2>1, SameSaid, Zenon
  <2> QED BY <1>1, <2>1, <2>2, Zenon DEF Talk, Unsent, TSteps
<1> QED BY <1>2, <1>3, Zenon

(* The header of the response is the answer of a request that is not         *)
(* refused.                                                                 *)
LEMMA SendHeadTalk ==
  ASSUME Talk, NEW ok \in BOOLEAN, SendHead(ok)
  PROVE  Talk' /\ Said' \cap Content = {}
<1>1. /\ pc = "reply" /\ logged = 0 /\ logged' = 0 /\ cm' = cm
      /\ sent \in Seq(Tokens) /\ OneOfAnswers /\ Said \subseteq {"established", "firstline"}
      /\ cm.connect /\ cm.direct => cm.naughty \/ cm.upfail \/ sent # <<>>
  BY Zenon DEF Talk, SendHead
<1>2. CASE ok /\ Answerable
  <2>1. pc' = "body" /\ sent' = Append(sent, "head")
    BY <1>2, Zenon DEF SendHead
  <2>2. "head" \in Tokens /\ Said \cap Answers = {}
    BY <1>1, Zenon DEF Tokens, Answers
  <2>3. sent' \in Seq(Tokens) /\ sent' # <<>> /\ OneOfAnswers' /\ Said' = Said \cup {"head"}
    BY <1>1, <2>1, <2>2, OneMore, Zenon
  <2>4. ~cm'.naughty /\ ~cm'.upfail
    BY <1>1, <1>2, Zenon DEF Answerable
  <2>5. Said' \subseteq {"established", "firstline", "head"}
    BY <1>1, <2>3, Zenon
  <2> QED BY <1>1, <2>1, <2>3, <2>4, <2>5, Zenon DEF Talk, Unsent, TSteps, Content
<1>3. CASE ok /\ ~Answerable
  <2>1. pc' = "body" /\ sent' = sent
    BY <1>3, Zenon DEF SendHead
  <2>2. Said' = Said /\ OneOfAnswers' = OneOfAnswers
    BY <2>1, SameSaid, Zenon
  <2>3. cm.naughty \/ cm.upfail \/ sent # <<>>
    BY <1>1, <1>3, Zenon DEF Answerable
  <2> QED BY <1>1, <2>1, <2>2, <2>3, Zenon DEF Talk, Unsent, TSteps, Content
<1>4. CASE ~ok
  <2>1. pc' = "closed" /\ sent' = sent
    BY <1>4, Zenon DEF SendHead, Leave
  <2> QED BY <1>1, <2>1, LastWord, Zenon
<1> QED BY <1>2, <1>3, <1>4, Zenon

(* Content is passed on only of a request that is not refused.              *)
LEMMA DeliverSays ==
  ASSUME Permitted, NEW ok \in BOOLEAN, NEW all \in BOOLEAN, Deliver(ok, all)
  PROVE  \/ sent' = sent
         \/ /\ \E x \in Content : sent' = Append(sent, x)
            /\ ~cm.naughty /\ ~cm.upfail
            /\ vetted \/ cm.exception \/ (cm.connect /\ cm.rest /\ resp.rc \notin {"none", "200"})
<1>1. pc = "body" /\ ~cm.naughty
  BY Zenon DEF Deliver
<1>2. /\ cm.upfail => resp.body = "none" /\ ~cm.twoway
      /\ cm.checked => vetted
      /\ cm.twoway => vetted \/ cm.exception
      /\ cm.rest => \/ vetted \/ cm.exception \/ resp.body = "none"
                    \/ cm.connect /\ resp.rc \notin {"none", "200"}
  BY <1>1, Zenon DEF Permitted, After
<1>3. CASE Rest(ok)
  <2>1. sent' = IF resp.body = "none" \/ req.head THEN sent
                ELSE Append(sent, IF ok /\ all THEN "body" ELSE "part")
    BY <1>3, Zenon DEF Deliver
  <2>2. cm.rest \/ cm.checked
    BY <1>3, Zenon DEF Rest
  <2> QED BY <1>1, <1>2, <2>1, <2>2, Zenon DEF Content
<1>4. CASE ~Rest(ok) /\ cm.twoway
  <2>1. sent' = Append(sent, "tunnel")
    BY <1>4, Zenon DEF Deliver
  <2> QED BY <1>1, <1>2, <1>4, <2>1, Zenon DEF Content
<1>5. CASE ~Rest(ok) /\ ~cm.twoway
  <2>1. sent' = IF cm.checked /\ Answerable
                  THEN Append(sent, IF ok /\ ~up.unread THEN "body" ELSE "part") ELSE sent
    BY <1>5, Zenon DEF Deliver
  <2> QED BY <1>2, <2>1, Zenon DEF Content, Answerable
<1> QED BY <1>3, <1>4, <1>5, Zenon

LEMMA DeliverTalk ==
  ASSUME Talk, Permitted, NEW ok \in BOOLEAN, NEW all \in BOOLEAN, Deliver(ok, all)
  PROVE  Talk'
<1>1. /\ pc = "body" /\ pc' = "finish" /\ logged' = 0 /\ cm' = cm
      /\ sent \in Seq(Tokens) /\ OneOfAnswers /\ Said \subseteq {"established", "firstline", "head"}
      /\ cm.naughty \/ cm.upfail => Said \subseteq {"established", "firstline"}
      /\ cm.naughty \/ cm.upfail \/ sent # <<>>
  BY Zenon DEF Talk, Deliver
<1>2. CASE sent' = sent
  <2>1. Said' = Said /\ OneOfAnswers' = OneOfAnswers
    BY <1>2, SameSaid, Zenon
  <2> QED BY <1>1, <1>2, <2>1, Zenon DEF Talk, Unsent, TSteps
<1>3. ASSUME NEW x \in Content, sent' = Append(sent, x), ~cm.naughty, ~cm.upfail
      PROVE  Talk'
  <2>1. x \in Tokens /\ x \notin Answers
    BY Zenon DEF Content, Tokens, Answers
  <2>2. sent' \in Seq(Tokens) /\ sent' # <<>> /\ OneOfAnswers' /\ Said' = Said \cup {x}
    BY <1>1, <1>3, <2>1, OneMore, Zenon
  <2>3. Said' \subseteq {"established", "firstline", "head"} \cup Content
    BY <1>1, <2>2, Zenon
  <2> QED BY <1>1, <1>3, <2>2, <2>3, Zenon DEF Talk, Unsent, TSteps
<1> QED BY <1>2, <1>3, DeliverSays, Zenon

LEMMA NotDeliveredTalk ==
  ASSUME Talk, NotDelivered
  PROVE  Talk'
<1>1. pc = "body" /\ pc' = "finish" /\ logged' = logged /\ cm' = cm /\ sent' = sent
  BY Zenon DEF NotDelivered
<1>2. Said' = Said /\ OneOfAnswers' = OneOfAnswers
  BY <1>1, SameSaid, Zenon
<1> QED BY <1>1, <1>2, Zenon DEF Talk, Unsent, TSteps

(* denyAccess answers a request that has no answer yet.                     *)
LEMMA FinishTalk ==
  ASSUME Talk, Finish
  PROVE  Talk' /\ Said' \cap Content \subseteq Said
<1> DEFINE deny == (cm.upfail \/ cm.naughty) /\ ~Silent
<1>1. /\ pc = "finish" /\ pc' \in {"read", "closed"} /\ logged = 0 /\ logged' = 1
      /\ sent \in Seq(Tokens) /\ OneOfAnswers
      /\ Said \subseteq {"established", "firstline", "head"} \cup Content
      /\ cm.naughty \/ cm.upfail => Said \subseteq {"established", "firstline"}
      /\ cm.naughty \/ cm.upfail \/ sent # <<>>
      /\ sent' = IF deny THEN Append(sent, "deny") ELSE sent
  BY DEF Talk, Finish, Leave
<1>2. CASE deny
  <2>1. Said \subseteq {"established", "firstline"} /\ sent' = Append(sent, "deny")
    BY <1>1, <1>2, Zenon
  <2>2. "deny" \in Tokens /\ Said \cap Answers = {}
    BY <2>1, Zenon DEF Tokens, Answers
  <2>3. sent' \in Seq(Tokens) /\ sent' # <<>> /\ OneOfAnswers' /\ Said' = Said \cup {"deny"}
    BY <1>1, <2>1, <2>2, OneMore, Zenon
  <2>4. Said' \cap ({"head"} \cup Content) = {}
    BY <2>1, <2>3, Zenon DEF Content
  <2> QED BY <1>1, <2>3, <2>4, Zenon DEF Talk, Unsent, TSteps
<1>3. CASE ~deny
  <2>1. sent' = sent /\ Said' = Said /\ OneOfAnswers' = OneOfAnswers
    BY <1>1, <1>3, SameSaid, Zenon
  <2>2. "deny" \notin Said
    BY <1>1, Zenon DEF Content
  <2>3. sent # <<>> \/ SilentGroup
    BY <1>1, <1>3, Zenon DEF Silent, SilentGroup
  <2>4. SilentGroup' = SilentGroup
    BY Zenon DEF SilentGroup, Finish, client, HasFG
  <2> QED BY <1>1, <2>1, <2>2, <2>3, <2>4, Zenon DEF Talk, Unsent, TSteps
<1> QED BY <1>2, <1>3, Zenon

LEMMA NoHeaderTalk ==
  ASSUME Talk, NoHeader
  PROVE  Talk' /\ Said' = Said
<1>1. pc = "read" /\ pc' = "closed" /\ logged' = logged /\ sent' = sent
  BY Zenon DEF NoHeader, Leave
<1>2. Said' = Said /\ OneOfAnswers' = OneOfAnswers
  BY <1>1, SameSaid, Zenon
<1> QED BY <1>1, <1>2, Zenon DEF Talk, Unsent, TSteps

-----------------------------------------------------------------------------
(* The flags of a request, step by step                                     *)

(* Nothing is delivered before the last steps.                              *)
LEMMA NotYetDelivered ==
  ASSUME Talk', pc' \notin {"read", "finish", "closed"}, pc' \in Steps
  PROVE  JudgedBeforeDelivered'
<1>1. pc' \in Unsent => Said' = {}
  BY NothingSaid1, Zenon DEF Talk
<1>2. Said' \cap {"body", "part", "tunnel"} = {}
  BY <1>1, Zenon DEF Talk, Steps, Unsent
<1> QED BY <1>2, Zenon DEF JudgedBeforeDelivered

LEMMA LoopFlags ==
  ASSUME pc' \in {"read", "closed"}, JudgedBeforeDelivered'
  PROVE  Flags'
BY Zenon DEF Flags, Unjudged, Permitted, Unsent, Judging, Working, After

LEMMA ReadRequestFlags ==
  ASSUME Types, Talk', NEW r \in Requests, NEW c, ReadRequest(r, c)
  PROVE  Flags'
<1>1. cm' = Fresh(req)' /\ pc' = "preauth" /\ (ismitm' => ~req'.connect)
  BY Zenon DEF ReadRequest, Fresh
<1>2. cm'.connect = req'.connect /\ ~cm'.rest /\ ~cm'.twoway
  BY <1>1, Zenon DEF Fresh
<1>3. JudgedBeforeDelivered'
  BY <1>1, NotYetDelivered, Zenon DEF Steps
<1> QED BY <1>1, <1>2, <1>3, Zenon DEF Flags, Unjudged, Permitted, Unsent, Judging, Working, After

(* Blocked by address or room.                                              *)
LEMMA PreAuthFlags ==
  ASSUME Types, Flags, Talk', PreAuth
  PROVE  Flags'
<1>1. PICK c \in PreAuthSays : cm' = c \/ cm' = [c EXCEPT !.authed = TRUE]
  BY Zenon DEF PreAuth
<1>2. pc = "preauth" /\ pc' \in Judging /\ ismitm' = ismitm
  BY Zenon DEF PreAuth, Judging
<1>3. c \in CMType /\ Before(c, cm)
  BY PreAuthSaysOK, PreAuthSaysFlags, Zenon DEF Types
<1>4. Before(cm', c)
  BY <1>1, <1>3, ZenonT(60) DEF CMType, Before
<1>5. /\ ~cm.rest /\ ~cm.twoway /\ ~cm.blocked /\ ~cm.grey /\ ~cm.logcat
      /\ ismitm => ~cm.connect
  BY SMTT(30), <1>2 DEF Flags, Unjudged, Fresh
<1>6. /\ ~cm'.rest /\ ~cm'.twoway /\ (cm'.blocked => cm'.naughty) /\ ~cm'.grey /\ ~cm'.logcat
      /\ ismitm' => ~cm'.connect
  BY <1>2, <1>3, <1>4, <1>5, Zenon DEF Before
<1>7. JudgedBeforeDelivered'
  BY <1>2, NotYetDelivered, Zenon DEF Steps, Judging
<1> QED BY <1>2, <1>6, <1>7, Zenon DEF Flags, Unjudged, Permitted, Unsent, Judging, Working, After

LEMMA AuthenticatedFlags ==
  ASSUME Types, Flags, Talk', NEW ok \in BOOLEAN, Authenticated(ok)
  PROVE  Flags'
<1> DEFINE a == AfterEarly(ok)
<1>1. \E d \in Hidden(a) : \/ \E b \in BOOLEAN : cm' = [d EXCEPT !.authed = b]
                           \/ cm' = [d EXCEPT !.gomitm = TRUE, !.done = TRUE]
  <2>1. (conf.auth = "local") \in BOOLEAN /\ a \in Hidden(a)
    BY Zenon DEF Hidden
  <2> HIDE DEF a
  <2> QED BY Zenon, <2>1 DEF Authenticated, a
<1>2. a \in CMType /\ Before(a, cm)
  BY AfterEarlyOK, AfterEarlyFlags, Zenon DEF Types
<1> HIDE DEF a
<1>3. PICK d \in Hidden(a) : \/ \E b \in BOOLEAN : cm' = [d EXCEPT !.authed = b]
                             \/ cm' = [d EXCEPT !.gomitm = TRUE, !.done = TRUE]
  BY <1>1, Zenon
<1>4. d \in CMType /\ Before(d, a)
  BY <1>2, HiddenOK, HiddenFlags, Zenon
<1>5. Before(cm', d)
  <2>1. ASSUME NEW b \in BOOLEAN, cm' = [d EXCEPT !.authed = b] PROVE Before(cm', d)
    BY <1>4, <2>1, Zenon DEF CMType, Before
  <2>2. CASE cm' = [d EXCEPT !.gomitm = TRUE, !.done = TRUE]
    BY <1>4, <2>2, Zenon DEF CMType, Before
  <2> QED BY <1>3, <2>1, <2>2, Zenon
<1>6. pc = "auth" /\ pc' = "story" /\ ismitm' = ismitm
  BY Zenon DEF Authenticated, loop
<1>7. /\ ~cm.rest /\ ~cm.twoway /\ (cm.blocked => cm.naughty) /\ ~cm.grey /\ ~cm.logcat
      /\ ismitm => ~cm.connect
  BY <1>6, Zenon DEF Flags, Unjudged, Judging, Unsent
<1>8. /\ ~cm'.rest /\ ~cm'.twoway /\ (cm'.blocked => cm'.naughty) /\ ~cm'.grey /\ ~cm'.logcat
      /\ ismitm' => ~cm'.connect
  BY <1>2, <1>4, <1>5, <1>6, <1>7, Zenon DEF Before
<1>9. JudgedBeforeDelivered'
  BY <1>6, NotYetDelivered, Zenon DEF Steps
<1> QED BY <1>6, <1>8, <1>9, Zenon DEF Flags, Unjudged, Permitted, Unsent, Judging, Working, After

(* The request story: what it blocks is refused, what it permits is vetted.  *)
LEMMA StoryRequestFlags ==
  ASSUME Types, Flags, Talk', Said' \cap Content = {}, StoryRequest
  PROVE  Flags'
<1>1. PICK b \in Bypassed(Judge(cm)) :
        \E s \in RequestStory(SetNoScan(b)) :
          LET c == [s EXCEPT !.direct = @ \/ conf.gateways]
          IN /\ vetted' = StoryRuns(SetNoScan(b))
             /\ (cm' = c /\ pc' = "closed") \/ (cm' \in SearchSays(c) /\ pc' = "upstream")
  BY Zenon DEF StoryRequest, Leave
<1>2. PICK s \in RequestStory(SetNoScan(b)) :
          LET c == [s EXCEPT !.direct = @ \/ conf.gateways]
          IN /\ vetted' = StoryRuns(SetNoScan(b))
             /\ (cm' = c /\ pc' = "closed") \/ (cm' \in SearchSays(c) /\ pc' = "upstream")
  BY SMTT(30), <1>1
<1>3. pc = "story" /\ ismitm' = ismitm
  BY Zenon DEF StoryRequest
<1>4. /\ ~cm.rest /\ ~cm.twoway /\ (cm.blocked => cm.naughty) /\ ~cm.grey /\ ~cm.logcat
      /\ ismitm => ~cm.connect
  BY <1>3, Zenon DEF Flags, Unjudged, Judging, Unsent
<1>5. Judge(cm) \in CMType /\ Before(Judge(cm), cm)
  BY JudgeOK, JudgeFlags, Zenon DEF Types
<1>6. b \in CMType /\ Before(b, Judge(cm))
  BY <1>5, BypassedOK, BypassedFlags, Zenon
<1>7. SetNoScan(b) \in CMType /\ Before(SetNoScan(b), b)
  BY <1>6, SetNoScanOK, SetNoScanFlags, Zenon
<1> DEFINE n == SetNoScan(b)
           g == s.direct \/ conf.gateways
           c == [s EXCEPT !.direct = g]
<1>8. n \in CMType /\ Before(n, cm)
  BY <1>5, <1>6, <1>7, Zenon DEF Before
<1>9. /\ vetted' = StoryRuns(n)
      /\ (cm' = c /\ pc' = "closed") \/ (cm' \in SearchSays(c) /\ pc' = "upstream")
  BY <1>2, Zenon
<1>10. g \in BOOLEAN
  BY Zenon
<1> HIDE DEF n, g
<1>11. n.blocked => n.naughty
  BY <1>4, <1>8, Zenon DEF Before
<1>12. /\ s \in CMType /\ s.connect = n.connect
       /\ s.rest = n.rest /\ s.twoway = n.twoway
       /\ s.blocked => s.naughty
       /\ StoryRuns(n) \/ (s.grey = n.grey /\ s.logcat = n.logcat)
  BY <1>8, <1>11, RequestStoryOK, RequestStoryFlags, Zenon DEF n, MayGoDirect
<1>13. c \in CMType
  BY <1>10, <1>12, Zenon DEF CMType
<1>14. Before(c, s)
  BY <1>12, Zenon DEF CMType, Before
<1> HIDE DEF c
<1>15. CASE pc' = "closed"
  <2>1. JudgedBeforeDelivered'
    BY Zenon DEF JudgedBeforeDelivered, Content
  <2> QED BY <1>15, <2>1, LoopFlags, Zenon
<1>16. CASE cm' \in SearchSays(c) /\ pc' = "upstream"
  <2>1. Before(cm', c)
    BY <1>13, <1>16, SearchSaysFlags, Zenon
  <2>2. /\ ~cm'.rest /\ ~cm'.twoway /\ (cm'.blocked => cm'.naughty)
        /\ ismitm' => ~cm'.connect
        /\ cm'.grey \/ cm'.logcat => vetted'
    BY <1>3, <1>4, <1>8, <1>9, <1>12, <1>14, <2>1, ZenonT(60) DEF Before
  <2>3. JudgedBeforeDelivered'
    BY <1>16, NotYetDelivered, Zenon DEF Steps
  <2> QED BY <1>16, <2>2, <2>3, Zenon DEF Flags, Unjudged, Permitted, Unsent, Judging, Working, After
<1> QED BY <1>9, <1>15, <1>16, Zenon

(* From here on the flags of the request before it is sent.                 *)
LEMMA UpstreamFlags ==
  ASSUME Flags, pc = "upstream"
  PROVE  /\ ~cm.rest /\ ~cm.twoway /\ (cm.blocked => cm.naughty)
         /\ ismitm => ~cm.connect
         /\ cm.grey \/ cm.logcat => vetted
BY Zenon DEF Flags, Unjudged, Permitted, Unsent, Judging, Working, After

LEMMA SendFlags ==
  ASSUME Flags, pc = "send"
  PROVE  /\ ~cm.rest /\ ~cm.twoway /\ ~cm.blocked
         /\ ismitm => ~cm.connect
         /\ cm.grey \/ cm.logcat => vetted
         /\ cm.upfail => cm.naughty \/ ~cm.connect
BY Zenon DEF Flags, Unjudged, Permitted, Unsent, Judging, Working, After

LEMMA ToSendFlags ==
  ASSUME pc' = "send", Talk',
         ~cm'.rest, ~cm'.twoway, ~cm'.blocked, ismitm' => ~cm'.connect,
         cm'.grey \/ cm'.logcat => vetted', cm'.upfail => cm'.naughty \/ ~cm'.connect
  PROVE  Flags'
<1>1. JudgedBeforeDelivered'
  BY NotYetDelivered, Zenon DEF Steps
<1> QED BY <1>1, Zenon DEF Flags, Unjudged, Permitted, Unsent, Judging, Working, After

(* The clauses of a request that was sent, or will not be.                  *)
Sent ==
  /\ cm.grey \/ cm.logcat => vetted
  /\ cm.upfail => resp.body = "none" /\ (cm.naughty \/ (~cm.connect /\ ~cm.twoway))
  /\ cm.checked => vetted
  /\ cm.twoway => vetted \/ cm.exception
  /\ cm.rest => \/ vetted \/ cm.exception \/ resp.body = "none"
                \/ cm.connect /\ resp.rc \notin {"none", "200"}

LEMMA AfterFlags ==
  ASSUME Flags, pc \in After
  PROVE  Sent /\ (ismitm => ~cm.connect) /\ JudgedBeforeDelivered
BY Zenon DEF Flags, Unjudged, Permitted, Working, After, Sent

LEMMA ToAfterFlags ==
  ASSUME pc' \in After, Sent', ismitm' => ~cm'.connect, JudgedBeforeDelivered'
  PROVE  Flags'
BY Zenon DEF Flags, Unjudged, Permitted, Unsent, Judging, Working, After, Sent

LEMMA RefuseFlags ==
  ASSUME IInv, Flags, Talk', Said' \cap Content = {}, NEW ok \in BOOLEAN, Refuse(ok)
  PROVE  Flags'
<1>1. pc = "upstream" /\ cm.naughty /\ UNCHANGED <<ismitm, vetted, resp>>
  BY Zenon DEF Refuse, loop
<1>2. /\ ~cm.rest /\ ~cm.twoway /\ (ismitm => ~cm.connect)
      /\ cm.grey \/ cm.logcat => vetted
  BY <1>1, UpstreamFlags, Zenon
<1>3. cm \in CMType /\ ~cm.checked /\ resp.body = "none"
  BY <1>1, Zenon DEF IInv, Types, Remembered, BeforeSend, Working
<1>4. PICK g : cm' = [cm EXCEPT !.gomitm = g]
  BY ZenonT(60) DEF Refuse
<1>5. /\ ~cm'.rest /\ ~cm'.twoway /\ cm'.naughty /\ ~cm'.checked /\ cm'.connect = cm.connect
      /\ cm'.grey = cm.grey /\ cm'.logcat = cm.logcat
  BY <1>1, <1>2, <1>3, <1>4, Zenon DEF CMType
<1>6. JudgedBeforeDelivered'
  BY Zenon DEF JudgedBeforeDelivered, Content
<1>7. CASE pc' = "closed"
  BY <1>6, <1>7, LoopFlags, Zenon
<1>8. CASE pc' = "route"
  <2>1. Sent'
    BY <1>1, <1>2, <1>3, <1>5, Zenon DEF Sent
  <2> QED BY <1>1, <1>2, <1>5, <1>6, <1>8, <2>1, ToAfterFlags, Zenon DEF After
<1> QED BY <1>7, <1>8, Zenon DEF Refuse, Leave

LEMMA ReuseFlags ==
  ASSUME IInv, Flags, Talk', Reuse
  PROVE  Flags'
<1>1. /\ pc = "upstream" /\ pc' = "send" /\ ~cm.naughty /\ persistProxy
      /\ UNCHANGED <<ismitm, vetted, cm>>
  BY Zenon DEF Reuse, loop
<1>2. ~cm.upfail
  BY <1>1, Zenon DEF IInv, Remembered, Working
<1> QED BY <1>1, <1>2, UpstreamFlags, ToSendFlags, Zenon

(* Only inside an intercepted session can TLS with the server fail, and      *)
(* there is no CONNECT there.                                               *)
LEMMA ConnectUpstreamFlags ==
  ASSUME Types, Flags, Talk', NEW r \in {"connected", "fails", "tlsfails", "badcert"},
         ConnectUpstream(r)
  PROVE  Flags'
<1>1. /\ pc = "upstream" /\ pc' = "send" /\ ~cm.naughty
      /\ UNCHANGED <<ismitm, vetted>>
  BY Zenon DEF ConnectUpstream, loop
<1>2. /\ ~cm.rest /\ ~cm.twoway /\ ~cm.blocked
      /\ ismitm => ~cm.connect
      /\ cm.grey \/ cm.logcat => vetted
  BY <1>1, UpstreamFlags, Zenon
<1> DEFINE Kin(d) == /\ d.rest = cm.rest /\ d.twoway = cm.twoway /\ d.blocked = cm.blocked
                     /\ d.connect = cm.connect /\ d.grey = cm.grey /\ d.logcat = cm.logcat
<1>3. cm \in CMType
  BY Zenon DEF Types
<1>4. Kin(cm') /\ (cm'.upfail => cm'.naughty \/ ~cm'.connect)
  <2>1. CASE r = "fails"
    <3>1. PICK g : cm' = [UpFails(cm) EXCEPT !.gomitm = g]
      BY <2>1, Zenon DEF ConnectUpstream
    <3>2. UpFails(cm) \in CMType
      BY <1>3, UpFailsOK, Zenon
    <3>3. Kin(UpFails(cm)) /\ UpFails(cm).naughty
      BY <1>3, Zenon DEF UpFails, CMType
    <3>4. /\ cm'.rest = UpFails(cm).rest /\ cm'.twoway = UpFails(cm).twoway
          /\ cm'.blocked = UpFails(cm).blocked /\ cm'.connect = UpFails(cm).connect
          /\ cm'.grey = UpFails(cm).grey /\ cm'.logcat = UpFails(cm).logcat
          /\ cm'.naughty = UpFails(cm).naughty
      BY <3>1, <3>2, Zenon DEF CMType
    <3> QED BY <3>3, <3>4, Zenon
  <2>2. CASE r = "tlsfails"
    <3>1. cm' = [cm EXCEPT !.upfail = TRUE] /\ ismitm
      BY <2>2, Zenon DEF ConnectUpstream
    <3> QED BY <1>2, <1>3, <3>1, Zenon DEF CMType
  <2>3. CASE r = "badcert"
    <3>1. cm' = [cm EXCEPT !.upfail = FALSE, !.naughty = TRUE]
      BY <2>3, Zenon DEF ConnectUpstream
    <3> QED BY <1>3, <3>1, Zenon DEF CMType
  <2>4. CASE r = "connected"
    <3>1. cm' = [cm EXCEPT !.upfail = FALSE]
      BY <2>4, Zenon DEF ConnectUpstream
    <3> QED BY <1>3, <3>1, Zenon DEF CMType
  <2> QED BY <2>1, <2>2, <2>3, <2>4, Zenon
<1> QED BY <1>1, <1>2, <1>4, ToSendFlags, Zenon

LEMMA ReconnectFlags ==
  ASSUME Flags, Talk', Reconnect
  PROVE  Flags'
<1>1. pc = "send" /\ pc' = "send" /\ UNCHANGED <<ismitm, vetted, cm>>
  BY Zenon DEF Reconnect, loop
<1> QED BY <1>1, SendFlags, ToSendFlags, Zenon

LEMMA EstablishFlags ==
  ASSUME IInv, Flags, Talk', Said' \cap Content = {},
         NotSent \/ \E ok \in BOOLEAN : Establish(ok)
  PROVE  Flags'
<1>1. /\ pc = "send" /\ pc' \in {"route", "closed"} /\ cm' = TunnelGrey(cm)
      /\ UNCHANGED <<ismitm, vetted, resp>>
  BY Zenon DEF Establish, NotSent, Leave, loop
<1>2. /\ ~cm.rest /\ ~cm.twoway /\ (ismitm => ~cm.connect)
      /\ cm.grey \/ cm.logcat => vetted
      /\ cm.upfail => cm.naughty \/ ~cm.connect
  BY <1>1, SendFlags, Zenon
<1>3. cm \in CMType /\ ~cm.checked /\ resp.body = "none"
  BY <1>1, Zenon DEF IInv, Types, Remembered, BeforeSend, Working
<1>4. /\ Standing(cm', cm) /\ (cm'.twoway => cm.connect /\ cm.grey) /\ ~cm'.rest
  BY <1>1, <1>2, <1>3, TunnelGreyFlags, Zenon
<1>5. JudgedBeforeDelivered'
  BY Zenon DEF JudgedBeforeDelivered, Content
<1>6. CASE pc' = "closed"
  BY <1>5, <1>6, LoopFlags, Zenon
<1>7. CASE pc' = "route"
  <2>1. Sent' /\ (ismitm' => ~cm'.connect)
    BY <1>1, <1>2, <1>3, <1>4, Zenon DEF Sent, Standing
  <2> QED BY <1>5, <1>7, <2>1, ToAfterFlags, Zenon DEF After
<1> QED BY <1>1, <1>6, <1>7, Zenon

(* A response that nobody has looked at is passed on only if it has no body, *)
(* asks for authentication, or is the parent proxy's refusal of a CONNECT.   *)
LEMMA ExchangeStep ==
  ASSUME IInv, Flags, Talk', NEW rc \in {"200", "407", "other"}, NEW b \in {"none", "sized", "open"},
         NEW k, Exchange(rc, b, k)
  PROVE  Flags'
<1>1. /\ pc = "send" /\ pc' = "route" /\ ~cm.upfail
      /\ UNCHANGED <<ismitm, vetted>> /\ resp' = [resp EXCEPT !.rc = rc, !.body = b]
  BY Zenon DEF Exchange, loop
<1>2. /\ ~cm.rest /\ ~cm.twoway /\ (ismitm => ~cm.connect)
      /\ cm.grey \/ cm.logcat => vetted
  BY <1>1, SendFlags, Zenon
<1>3. cm \in CMType /\ ~cm.checked /\ resp \in RespType
  BY <1>1, Zenon DEF IInv, Types, Remembered, Working
<1>4. resp'.rc = rc /\ resp'.body = b
  BY <1>1, <1>3, Zenon DEF RespType
<1>5. /\ cm'.upfail = cm.upfail /\ cm'.checked = cm.checked
      /\ cm'.connect => cm.connect
      /\ cm'.grey = cm.grey /\ cm'.logcat = cm.logcat
      /\ cm'.twoway => cm.connect /\ cm.grey
      /\ cm'.rest => \/ cm'.exception \/ b = "none"
                     \/ cm'.connect /\ rc # "200"
  BY <1>2, <1>3, ExchangeFlags, Zenon
<1>6. Sent'
  BY <1>1, <1>2, <1>3, <1>4, <1>5, Zenon DEF Sent
<1>7. JudgedBeforeDelivered'
  BY <1>1, NotYetDelivered, Zenon DEF Steps
<1> QED BY <1>1, <1>2, <1>5, <1>6, <1>7, ToAfterFlags, Zenon DEF After

LEMMA RouteFlags ==
  ASSUME Types, Flags, Talk', Route
  PROVE  Flags'
<1>1. /\ pc = "route" /\ pc' \in {"mitm", "response"} /\ cm' = PassOn(cm)
      /\ UNCHANGED <<ismitm, vetted, resp>>
  BY Zenon DEF Route, loop
<1>2. Sent /\ (ismitm => ~cm.connect)
  BY <1>1, AfterFlags, Zenon DEF After
<1>3. /\ Standing(cm', cm)
      /\ cm'.twoway => cm.twoway \/ ((cm.exception \/ cm.logcat) /\ ~cm.upfail)
      /\ cm'.rest => cm.rest \/ cm.exception \/ cm.logcat
  BY <1>1, PassOnFlags, Zenon DEF Types
<1>4. Sent' /\ (ismitm' => ~cm'.connect)
  BY <1>1, <1>2, <1>3, Zenon DEF Sent, Standing
<1>5. JudgedBeforeDelivered'
  BY <1>1, NotYetDelivered, Zenon DEF Steps
<1> QED BY <1>1, <1>4, <1>5, ToAfterFlags, Zenon DEF After

LEMMA CheckResponseFlags ==
  ASSUME Types, Flags, Talk', NEW d, NEW slow, CheckResponse(d, slow)
  PROVE  Flags'
<1>1. /\ pc = "response" /\ pc' = "reply" /\ vetted' = (vetted \/ ResponseStoryRuns)
      /\ UNCHANGED <<ismitm, resp>>
  BY Zenon DEF CheckResponse, loop
<1>2. Sent /\ (ismitm => ~cm.connect)
  BY <1>1, AfterFlags, Zenon DEF After
<1>3. JudgedBeforeDelivered'
  BY <1>1, NotYetDelivered, Zenon DEF Steps
<1>4. Sent' /\ (ismitm' => ~cm'.connect)
  <2>1. CASE ResponseStoryRuns
    <3>1. vetted' /\ ~cm'.connect /\ ~cm'.upfail
      BY <1>1, <2>1, CheckFlags, Zenon DEF Types
    <3> QED BY <3>1, Zenon DEF Sent
  <2>2. CASE ~ResponseStoryRuns
    <3>1. cm' = cm /\ (vetted => vetted')
      BY <1>1, <2>2, Zenon DEF CheckResponse
    <3> QED BY <1>1, <1>2, <3>1, Zenon DEF Sent
  <2> QED BY <2>1, <2>2, Zenon
<1> QED BY <1>1, <1>3, <1>4, ToAfterFlags, Zenon DEF After

LEMMA SendHeadFlags ==
  ASSUME Flags, Talk', Said' \cap Content = {}, NEW ok \in BOOLEAN, SendHead(ok)
  PROVE  Flags'
<1>1. /\ pc = "reply" /\ pc' \in {"body", "closed"} /\ UNCHANGED <<ismitm, vetted, resp, cm>>
  BY Zenon DEF SendHead, Leave, loop
<1>2. Sent /\ (ismitm => ~cm.connect)
  BY <1>1, AfterFlags, Zenon DEF After
<1>3. JudgedBeforeDelivered'
  BY Zenon DEF JudgedBeforeDelivered, Content
<1>4. CASE pc' = "closed"
  BY <1>3, <1>4, LoopFlags, Zenon
<1>5. CASE pc' = "body"
  <2>1. Sent' /\ (ismitm' => ~cm'.connect)
    BY <1>1, <1>2, Zenon DEF Sent
  <2> QED BY <1>3, <1>5, <2>1, ToAfterFlags, Zenon DEF After
<1> QED BY <1>1, <1>4, <1>5, Zenon

(* What is delivered was vetted, is an exception, or is a refusal.          *)
LEMMA DeliverFlags ==
  ASSUME Flags, Talk, NotDelivered \/ \E ok \in BOOLEAN, all \in BOOLEAN : Deliver(ok, all)
  PROVE  Flags'
<1>1. /\ pc = "body" /\ pc' = "finish" /\ UNCHANGED <<ismitm, vetted, resp, cm>>
  BY Zenon DEF NotDelivered, Deliver, loop
<1>2. Sent /\ (ismitm => ~cm.connect)
  BY <1>1, AfterFlags, Zenon DEF After
<1>3. Said \cap {"body", "part", "tunnel"} = {}
  BY <1>1, Zenon DEF Talk
<1>4. \/ sent' = sent
      \/ vetted \/ cm.exception \/ (cm.connect /\ cm.rest /\ resp.rc \notin {"none", "200"})
  BY DeliverSays, Zenon DEF NotDelivered, Flags
<1>5. JudgedBeforeDelivered'
  BY <1>1, <1>3, <1>4, SameSaid, Zenon DEF JudgedBeforeDelivered
<1>6. Sent' /\ (ismitm' => ~cm'.connect)
  BY <1>1, <1>2, Zenon DEF Sent
<1> QED BY <1>1, <1>5, <1>6, ToAfterFlags, Zenon DEF After

LEMMA FinishFlags ==
  ASSUME Types, Flags, Said' \cap Content \subseteq Said, Finish
  PROVE  Flags'
<1>1. pc = "finish" /\ pc' \in {"read", "closed"} /\ UNCHANGED <<vetted, resp>>
  BY Zenon DEF Finish, Leave
<1>2. PICK n : cm' = [cm EXCEPT !.naughty = n]
  BY Zenon DEF Finish
<1>3. cm'.exception = cm.exception /\ cm'.connect = cm.connect /\ cm'.rest = cm.rest
  BY <1>2, Zenon DEF Types, CMType
<1>4. JudgedBeforeDelivered
  BY <1>1, AfterFlags, Zenon DEF After
<1>5. JudgedBeforeDelivered'
  BY <1>1, <1>3, <1>4, Zenon DEF JudgedBeforeDelivered, Content
<1> QED BY <1>1, <1>5, LoopFlags, Zenon

LEMMA NoHeaderFlags ==
  ASSUME Flags, Said' = Said, NoHeader
  PROVE  Flags'
<1>1. pc' = "closed" /\ UNCHANGED <<cm, vetted, resp>>
  BY Zenon DEF NoHeader, Leave
<1>2. JudgedBeforeDelivered'
  BY <1>1, Zenon DEF Flags, Permitted, JudgedBeforeDelivered
<1> QED BY <1>1, <1>2, LoopFlags, Zenon

(* Both halves, for a plain connection and inside an intercepted session.   *)
LEMMA LoopStep ==
  ASSUME IInv, Talk, Flags, Next
  PROVE  Talk' /\ Flags' /\ pc' \in Steps
<1>t. Types /\ cm \in CMType
  BY Zenon DEF IInv, Types
<1>1. ASSUME Said' \cap Content = {}, pc' \in {"read", "closed"} PROVE Flags' /\ pc' \in Steps
  <2>1. JudgedBeforeDelivered'
    BY <1>1, Zenon DEF JudgedBeforeDelivered, Content
  <2> QED BY <1>1, <2>1, LoopFlags, Zenon DEF Steps
<1>2. CASE AnswerURL \/ NotAuthenticated \/ StatusPage \/ ScanBypass \/ ExchangeFails
  <2>1. pc' = "closed"
    BY <1>2, Zenon DEF AnswerURL, NotAuthenticated, StatusPage, ScanBypass, ExchangeFails, Leave
  <2> QED BY <1>1, <1>2, <2>1, EndTalk, Zenon
<1>3. CASE Intercept \/ ClientHandshakeFails \/ DenyInside \/ MitmClientGone
  <2>1. pc' \in {"read", "closed"}
    BY <1>3, Zenon DEF Intercept, ClientHandshakeFails, DenyInside, MitmClientGone, Leave
  <2> QED BY <1>1, <1>3, <2>1, MitmTalk, Zenon
<1>4. CASE NoHeader
  <2>1. pc' \in Steps
    BY <1>4, Zenon DEF NoHeader, Leave, Steps
  <2> QED BY <1>4, <2>1, NoHeaderTalk, NoHeaderFlags, Zenon
<1>5. ASSUME NEW r \in Requests, NEW c \in Classes, ReadRequest(r, c)
      PROVE  Talk' /\ Flags' /\ pc' \in Steps
  <2>1. pc' \in Steps
    BY <1>5, Zenon DEF ReadRequest, Steps
  <2>2. Talk'
    BY <1>5, UnheardTalk, Zenon
  <2> QED BY <1>t, <1>5, <2>1, <2>2, ReadRequestFlags, Zenon
<1>6. CASE PreAuth
  <2>1. pc' \in Steps
    BY <1>6, Zenon DEF PreAuth, Steps
  <2>2. Talk'
    BY <1>6, UnheardTalk, Zenon
  <2> QED BY <1>t, <1>6, <2>1, <2>2, PreAuthFlags, Zenon
<1>7. ASSUME NEW ok \in BOOLEAN, Authenticated(ok)
      PROVE  Talk' /\ Flags' /\ pc' \in Steps
  <2>1. pc' \in Steps
    BY <1>7, Zenon DEF Authenticated, Steps
  <2>2. Talk'
    BY <1>7, UnheardTalk, Zenon
  <2> QED BY <1>t, <1>7, <2>1, <2>2, AuthenticatedFlags, Zenon
<1>8. CASE StoryRequest
  <2>1. pc' \in Steps
    BY <1>8, Zenon DEF StoryRequest, Leave, Steps
  <2> QED BY <1>t, <1>8, <2>1, StoryTalk, StoryRequestFlags, Zenon
<1>9. ASSUME NEW ok \in BOOLEAN, Refuse(ok) \/ Establish(ok) \/ SendHead(ok)
      PROVE  Talk' /\ Flags' /\ pc' \in Steps
  <2>1. pc' \in Steps
    BY <1>9, Zenon DEF Refuse, Establish, SendHead, Leave, Steps
  <2>2. Talk' /\ Said' \cap Content = {}
    BY <1>t, <1>9, RefuseTalk, EstablishTalk, SendHeadTalk, Zenon
  <2> QED BY <1>9, <2>1, <2>2, RefuseFlags, EstablishFlags, SendHeadFlags, Zenon
<1>10. CASE Reuse \/ Reconnect
  <2>1. pc' \in Steps
    BY <1>10, Zenon DEF Reuse, Reconnect, Steps
  <2>2. Talk'
    BY <1>10, UnheardTalk, Zenon
  <2> QED BY <1>10, <2>1, <2>2, ReuseFlags, ReconnectFlags, Zenon
<1>11. ASSUME NEW r \in {"connected", "fails", "tlsfails", "badcert"}, ConnectUpstream(r)
       PROVE  Talk' /\ Flags' /\ pc' \in Steps
  <2>1. pc' \in Steps
    BY <1>11, Zenon DEF ConnectUpstream, Steps
  <2>2. Talk'
    BY <1>11, UnheardTalk, Zenon
  <2> QED BY <1>t, <1>11, <2>1, <2>2, ConnectUpstreamFlags, Zenon
<1>12. CASE NotSent
  <2>1. pc' \in Steps /\ pc' = "route"
    BY <1>12, Zenon DEF NotSent, Steps
  <2>2. Talk'
    BY <1>t, <1>12, NotSentTalk, Zenon
  <2>3. Said' \cap Content = {}
    BY <2>1, <2>2, Zenon DEF Talk, Content
  <2> QED BY <1>12, <2>1, <2>2, <2>3, EstablishFlags, Zenon
<1>13. ASSUME NEW rc \in {"200", "407", "other"}, NEW b \in {"none", "sized", "open"},
              NEW k \in BOOLEAN, Exchange(rc, b, k)
       PROVE  Talk' /\ Flags' /\ pc' \in Steps
  <2>1. pc' \in Steps
    BY <1>13, Zenon DEF Exchange, Steps
  <2>2. Talk'
    BY <1>t, <1>13, ExchangeTalk, Zenon DEF Flags
  <2> QED BY <1>13, <2>1, <2>2, ExchangeStep, Zenon
<1>14. CASE Route
  <2>1. pc' \in Steps
    BY <1>14, Zenon DEF Route, Steps
  <2> QED BY <1>t, <1>14, <2>1, PassOnTalk, RouteFlags, Zenon
<1>15. ASSUME NEW d \in Downloads, NEW slow \in BOOLEAN, CheckResponse(d, slow)
       PROVE  Talk' /\ Flags' /\ pc' \in Steps
  <2>1. pc' \in Steps
    BY <1>15, Zenon DEF CheckResponse, Steps
  <2>2. Talk'
    BY <1>t, <1>15, CheckTalk, Zenon
  <2> QED BY <1>t, <1>15, <2>1, <2>2, CheckResponseFlags, Zenon
<1>16. CASE NotDelivered \/ \E ok, all \in BOOLEAN : Deliver(ok, all)
  <2>1. pc' \in Steps
    BY <1>16, Zenon DEF NotDelivered, Deliver, Steps
  <2>2. Talk'
    BY <1>16, NotDeliveredTalk, DeliverTalk, Zenon DEF Flags
  <2> QED BY <1>16, <2>1, <2>2, DeliverFlags, Zenon
<1>17. CASE Finish
  <2>1. pc' \in Steps
    BY <1>17, Zenon DEF Finish, Leave, Steps
  <2> QED BY <1>t, <1>17, <2>1, FinishTalk, FinishFlags, Zenon
<1>18. CASE Over
  <2>1. UNCHANGED <<pc, sent, logged, vetted, resp, cm>> /\ pc = "closed"
    BY <1>18, Zenon DEF Over, vars
  <2>2. Said' = Said /\ OneOfAnswers' = OneOfAnswers
    BY <2>1, SameSaid, Zenon
  <2>3. Talk' /\ pc' \in Steps
    BY <2>1, <2>2, Zenon DEF Talk, Unsent, TSteps, Steps
  <2>4. JudgedBeforeDelivered'
    BY <2>1, <2>2, Zenon DEF Flags, Permitted, JudgedBeforeDelivered
  <2> QED BY <2>1, <2>3, <2>4, LoopFlags, Zenon
<1> QED
  BY <1>2, <1>3, <1>4, <1>5, <1>6, <1>7, <1>8, <1>9, <1>10, <1>11, <1>12, <1>13, <1>14, <1>15, Zenon,
     <1>16, <1>17, <1>18
  DEF Next

=============================================================================
