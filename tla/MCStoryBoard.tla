---------------------------- MODULE MCStoryBoard ----------------------------
(***************************************************************************)
(* The shipped stories, called as the handlers call them, and a few small   *)
(* story files that override, end and break functions.                      *)
(***************************************************************************)
EXTENDS StoryBoard, Stories, StoryPromise

Run(e, C) == {[entry |-> e, cm |-> c] : c \in C}

Scanned == [Plain EXCEPT !.noscan = FALSE]
Tunnel(k, n) == [Plain EXCEPT !.connect = TRUE, !.siteonly = TRUE, !.candidate = k, !.nomitm = n]
Tunnels == {Tunnel(TRUE, FALSE), Tunnel(FALSE, TRUE)}
Gets == {Scanned, [Plain EXCEPT !.embedded = TRUE], [Plain EXCEPT !.iphost = TRUE],
         [Scanned EXCEPT !.siteonly = TRUE, !.bypassallow = TRUE]}
Held == [Scanned EXCEPT !.exception = TRUE, !.bypass = "held"]
Answers == {Scanned, [Plain EXCEPT !.grey = TRUE], [Scanned EXCEPT !.exception = TRUE]}
Named == [Tunnel(TRUE, FALSE) EXCEPT !.tls = TRUE, !.sni = TRUE]
Unnamed == [Tunnel(FALSE, FALSE) EXCEPT !.iphost = TRUE]

CommonRuns ==
  Run("checkrequest", Gets \cup Tunnels \cup {Held}) \cup Run("checkresponse", Answers)
  \cup Run("thttps-checkrequest", {Named, Unnamed, [Unnamed EXCEPT !.nomitm = TRUE]})
  \cup Run("icap-checkrequest", Gets \cup Tunnels) \cup Run("icap-checkresponse", Answers)
GroupRuns == Run("checkrequest", {Plain}) \cup Run("checklogging", {Plain})
PreAuthRuns ==
  Run("pre-authcheck", Gets \cup Tunnels) \cup Run("thttps-pre-authcheck", {Named, Unnamed})
  \cup Run("icap-pre-authcheck", Gets)
  \cup Run("auth_pf_basic", {Plain}) \cup Run("auth_ip", {Plain}) \cup Run("auth_port", {Plain})

Line1(n) == IfNotMess("tls", n, "return", "b")
Small(top, other) ==
  [lines |-> [top |-> top, other |-> other], top |-> "top", runs |-> {}]
Other == <<Function("b"), Line1(1), Function("c"), Line1(2)>>

SmallTexts ==
  <<Small(<<Function("a"), Line1(3), End, Include("other"), Function("c"), Line1(4), Line1(5)>>, Other),
    Small(<<Include("other"), Function("a"), Line1(3), Function("b"), Line1(4)>>, Other),
    Small(<<Function("b"), Line1(3), End, Include("other")>>, Other),
    Small(<<Function("a"), Line1(3), End, Include("missing")>>, Other),
    Small(<<Function("a"), [Line1(3) EXCEPT !.state = "unknown"]>>, Other),
    Small(<<Function("a"), [com |-> "unless", name |-> "b"]>>, Other),
    Small(<<Function("a"), Function("setblock")>>, Other)>>

MCTexts ==
  SmallTexts
  \o <<[lines |-> StoryText, top |-> "common", runs |-> CommonRuns],
       [lines |-> StoryText, top |-> "group", runs |-> GroupRuns],
       [lines |-> StoryText, top |-> "preauth", runs |-> PreAuthRuns]>>

----------------------------------------------------------------------------
(* Clients whose address is in the lists of exceptions or banned clients.   *)
Clients(c) ==
  {[c EXCEPT !.exception = TRUE, !.special = "exception", !.nomitm = TRUE, !.automitm = FALSE],
   [c EXCEPT !.blocked = TRUE, !.special = "banned"]}

Promised(r) ==
  CASE r.entry = "checkrequest" -> StorySays(r.cm)
    [] r.entry = "checkresponse" -> ResponseSays(r.cm)
    [] r.entry = "thttps-checkrequest" -> ThttpsVerdicts(r.cm)
    [] r.entry = "icap-checkrequest" -> ReqmodVerdicts(~r.cm.connect, r.cm)
    [] r.entry = "icap-checkresponse" -> RespmodVerdicts(r.cm)
    [] r.entry = "pre-authcheck" -> PreAuthVerdicts(r.cm) \cup Clients(r.cm)
    [] r.entry = "thttps-pre-authcheck" ->
         ThttpsPreAuthVerdicts(r.cm) \cup UNION {Clients(d) : d \in ThttpsPreAuthVerdicts(r.cm)}
    [] OTHER -> {r.cm}

Decided(e) ==
  {"exception", "grey", "blocked", "redirect", "logcat", "bypass", "gomitm", "nomitm",
   "automitm", "direct", "special"}
  \cup (IF e = "icap-checkrequest" THEN {"nolog"} ELSE {"noscan"})
  \cup (IF e \in {"checkrequest", "checkresponse"} THEN {"nolog"} ELSE {})

Finished == stack = <<>> /\ run # NoRun

(* Whatever the lists say, the shipped stories do to the flags of a request  *)
(* what the handlers rely on and nothing else: every call of runFunctEntry   *)
(* ends with one of the outcomes that the models of handleConnection,        *)
(* handleTHTTPSConnection and the ICAP handlers go on with.                  *)
PromiseKept ==
  Finished => \E d \in Promised(run) : \A f \in Decided(run.entry) : cm[f] = d[f]

(* Of the lists of URLs the first of local exceptions, local grey and banned *)
(* sites, exceptions and banned sites that holds a request decides: those    *)
(* before it were asked and do not, those after it change nothing.          *)
FirstListDecides ==
  Finished /\ run.entry \in {"checkrequest", "icap-checkrequest"}
           /\ ~run.cm.connect /\ ~run.cm.exception =>
    LET Hit(l) == <<"urlin", l>> \in DOMAIN known /\ known[<<"urlin", l>>]
        Order == <<"localexception", "localgrey", "localbanned", "exception", "banned">>
        first == SelectInSeq(Order, Hit)
        Denied(l) == <<"urlin", l>> \in DOMAIN known /\ ~Hit(l)
    IN first # 0 => /\ \A i \in 1 .. first - 1 : Denied(Order[i])
                    /\ cm.exception = (Order[first] \in {"localexception", "exception"})
                    /\ cm.blocked = (Order[first] \in {"localbanned", "banned"})

----------------------------------------------------------------------------
(* The lines of the small story files in the order readFile reads them.     *)
InOrder ==
  LET top == Texts[text].lines[Texts[text].top]
  IN FlattenSeq([i \in DOMAIN top |-> IF top[i].com = "include" THEN Texts[text].lines[top[i].name]
                                      ELSE <<top[i]>>])
Numbers(comm) == [i \in DOMAIN comm |-> comm[i].mess_no]

(* However often and in whatever file a function is defined, its last        *)
(* definition, and nothing of an earlier one, is what readFile keeps; the    *)
(* number of a function is its place, and calls find it there.              *)
LastDefinitionWins ==
  phase = "ready" /\ text \in DOMAIN SmallTexts =>
    \A k \in DOMAIN vec :
      LET at == SelectLastInSeq(InOrder, LAMBDA l : l.com = "function" /\ l.name = vec[k].name)
          rest == SubSeq(InOrder, at + 1, Len(InOrder))
          size == SelectInSeq(rest \o <<End>>, LAMBDA l : l.com \in {"function", "end"}) - 1
      IN /\ vec[k].fn_id = k
         /\ \A j \in DOMAIN vec : vec[j].name = vec[k].name => j = k
         /\ Numbers(vec[k].comm) = Numbers(SubSeq(rest, 1, size))
         /\ \A i \in DOMAIN vec[k].comm : LET id == vec[k].comm[i].action.id
                                          IN id # 0 /\ vec[id].name = "b"

(* Loading ends, and so does every call of a shipped story: no function of   *)
(* the library calls itself, directly or through others.                    *)
StoryEnds == []<>(phase # "reading" /\ stack = <<>>)
=============================================================================
