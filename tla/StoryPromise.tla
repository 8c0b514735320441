---------------------------- MODULE StoryPromise ----------------------------
(***************************************************************************)
(* What the callers of the storyboard rely on: for each entry function,    *)
(* what it may make of the flags c of a request.  The modules of the       *)
(* callers take their stories from here, and the shipped stories are shown *)
(* to do no more.                                                          *)
(***************************************************************************)

(* pre-authcheck, for a client that is neither banned nor an exception.     *)
Unbroken(c) ==
  IF ~c.connect THEN {c}
  ELSE {c, [c EXCEPT !.nomitm = TRUE, !.gomitm = FALSE, !.automitm = FALSE],
           [c EXCEPT !.automitm = FALSE]}
PreAuthVerdicts(c) == Unbroken(c) \cup Unbroken([c EXCEPT !.exception = TRUE, !.direct = TRUE])

(* checkrequest, on a request that is no exception yet.  No verdict at all   *)
(* is what a redirection to nothing leaves.                                 *)
Verdicts(c) ==
  {c,
   [c EXCEPT !.exception = TRUE, !.grey = FALSE, !.blocked = FALSE],
   [c EXCEPT !.grey = TRUE, !.exception = FALSE, !.blocked = FALSE],
   [c EXCEPT !.grey = TRUE, !.logcat = TRUE],
   [c EXCEPT !.redirect = TRUE],
   [c EXCEPT !.redirect = TRUE, !.grey = TRUE]}
  \cup {[c EXCEPT !.gomitm = TRUE] : m \in {m \in {TRUE} : c.candidate}}
  \cup {[c EXCEPT !.blocked = TRUE, !.grey = FALSE, !.exception = FALSE, !.automitm = a] :
          a \in {FALSE, ~c.nomitm}}

(* The story may send the request direct and may exempt it from scanning.   *)
Routed(c) ==
  {c, [c EXCEPT !.direct = TRUE], [c EXCEPT !.noscan = TRUE],
   [c EXCEPT !.direct = TRUE, !.noscan = TRUE]}

(* Exceptions stay exceptions, but the story may revoke a bypass.           *)
Judged(c) ==
  IF ~c.exception THEN Verdicts(c)
  ELSE {c} \cup IF c.bypass = "no" THEN {}
                ELSE Verdicts([c EXCEPT !.bypass = "no", !.exception = FALSE])

StorySays(c) == UNION {Routed(d) : d \in Judged(c)}

(* checkresponse                                                            *)
ResponseVerdicts(c) ==
  {c, [c EXCEPT !.exception = TRUE, !.grey = FALSE, !.blocked = FALSE],
      [c EXCEPT !.blocked = TRUE, !.grey = FALSE, !.exception = FALSE]}
ResponseSays(c) == UNION {{d, [d EXCEPT !.noscan = TRUE]} : d \in ResponseVerdicts(c)}

(* thttps-pre-authcheck, for a client that is neither banned nor an         *)
(* exception, and thttps-checkrequest.                                      *)
ThttpsPreAuthVerdicts(c) ==
  UNION {{[d EXCEPT !.exception = e] : e \in BOOLEAN} :
           d \in {c, [c EXCEPT !.nomitm = TRUE, !.gomitm = FALSE, !.automitm = FALSE]}}

ThttpsVerdicts(c) ==
  LET d == [c EXCEPT !.automitm = @ \/ ~c.nomitm]
  IN {[d EXCEPT !.exception = TRUE], [d EXCEPT !.blocked = TRUE], [d EXCEPT !.grey = TRUE]}
     \cup {[d EXCEPT !.gomitm = TRUE] : m \in {m \in {TRUE} : c.candidate /\ ~c.nomitm}}

(* icap-checkrequest: without a block the logging is left to the RESPMOD,    *)
(* unless the request is a CONNECT.                                         *)
ReqmodVerdicts(quiet, c) ==
  {[c EXCEPT !.blocked = TRUE],
   [c EXCEPT !.exception = TRUE, !.nolog = quiet],
   [c EXCEPT !.grey = quiet, !.nolog = quiet],
   [c EXCEPT !.redirect = TRUE]}
  \cup {[c EXCEPT !.grey = TRUE, !.logcat = TRUE, !.nolog = n] : n \in {FALSE, quiet}}

(* icap-checkresponse                                                       *)
RespmodVerdicts(c) ==
  {c, [c EXCEPT !.noscan = TRUE]}
  \cup IF c.exception THEN {}
       ELSE {[c EXCEPT !.blocked = TRUE, !.grey = FALSE],
             [c EXCEPT !.blocked = TRUE, !.grey = FALSE, !.noscan = TRUE],
             [c EXCEPT !.exception = TRUE, !.grey = FALSE]}

=============================================================================
