----------------------------- MODULE StoryBoard -----------------------------
(***************************************************************************)
(* The storyboard: readFile turns story files into a vector of functions,  *)
(* and runFunct interprets a function, line by line, on the flags of a     *)
(* request.  Which lists hold the request is the environment's choice, the *)
(* same one each time a list is asked about the same part of the request.  *)
(***************************************************************************)
EXTENDS Integers, Sequences, FiniteSets, SequencesExt

CONSTANTS
  Texts,      \* story files: the lines of each, the one to start with, the calls made
  ListTypes,  \* the types a list name is defined with
  MessageNo,  \* the message number of a list
  NumFG       \* o.numfg

BuiltIn ==
  {"setexception", "setgrey", "setblock", "setmodurl", "setdone", "true", "false",
   "setgomitm", "setlogcategory", "setaddheader", "setredirect", "setnocheckcert",
   "setsearchterm", "setmodheader", "setgodirect", "setnolog", "unsetviruscheck",
   "unsetbypass", "setconnectsite", "unsetbypassallow", "unsetinfectionbypassallow",
   "setnomitm", "setautomitm", "unsetautomitm", "setgroup"}

(* Types of the lists that a state looks in, none for a flag.               *)
StateTypes ==
  [sitein |-> {"ipsite", "site", "regexpbool"},
   urlin |-> {"ipsite", "site", "url", "fileext", "regexpbool"},
   searchin |-> {"search"},
   embeddedin |-> {"ipsite", "site", "url", "regexpbool"},
   refererin |-> {"ipsite", "site", "url", "regexpbool"},
   fullurlin |-> {"regexprep"},
   headerin |-> {"regexprep", "regexpbool"},
   responseheaderin |-> {"regexprep", "regexpbool"},
   clientin |-> {"ip", "site", "ipmap"},
   userin |-> {"ipmap", "map"},
   extensionin |-> {"fileext"},
   mimein |-> {"mime"},
   useragentin |-> {"regexpbool"},
   timein |-> {"time"},
   listenportin |-> {"map"}]

FlagStates ==
  {"connect", "post", "get", "siteisip", "tls", "exceptionset", "greyset", "blockset",
   "mitmset", "doneset", "returnset", "true", "hassniset", "redirectset", "viruscheckset",
   "bypassset", "bypassallowset", "infectionbypassallowset"}

----------------------------------------------------------------------------
VARIABLES
  text,     \* which story files are read
  files,    \* the calls of readFile, innermost last
  vec,      \* funct_vec
  fnt_cnt,
  phase,    \* "reading", "ready" or "failed"
  run,      \* the call of runFunctEntry: story, entry function and flags
  stack,    \* the calls of runFunct, innermost last
  cm,       \* the flags of the request
  known     \* what the lists said so far

board == <<text, files, vec, fnt_cnt, phase>>
call == <<run, stack, cm, known>>
vars == <<board, call>>

NoFunction == [name |-> "", fn_id |-> 0, comm |-> <<>>]
File(f) == [file |-> f, at |-> 1, cur |-> NoFunction, fnt_id |-> 0, overwrite |-> FALSE,
            in_function |-> FALSE]

Reader == files[Len(files)]
Reading == phase = "reading" /\ Reader.at <= Len(Texts[text].lines[Reader.file])
Read == Texts[text].lines[Reader.file][Reader.at]

(* Built-in actions hide functions, once there is a function.               *)
FunctID(v, n) ==
  IF v # <<>> /\ n \in BuiltIn THEN [bi |-> n, id |-> 0]
  ELSE [bi |-> "", id |-> LET k == SelectInSeq(v, LAMBDA f : f.name = n)
                          IN IF k = 0 THEN 0 ELSE v[k].fn_id]

(* A mutant: a later definition is added behind the earlier one.            *)
PushedBehind(r) == IF ~r.in_function THEN vec ELSE Append(vec, r.cur)

(* The function under definition goes to the end, or replaces an older one.  *)
Pushed(r) ==
  IF ~r.in_function THEN vec
  ELSE IF r.overwrite THEN [vec EXCEPT ![r.fnt_id] = r.cur] ELSE Append(vec, r.cur)

NextLine(r) == files' = [files EXCEPT ![Len(files)] = [r EXCEPT !.at = @ + 1]]

(* .Include<file>: readFile calls itself.  A file that does not exist, or a  *)
(* wrong line, fails the whole load.                                        *)
ReadInclude ==
  /\ Reading /\ Read.com = "include"
  /\ IF Read.name \in DOMAIN Texts[text].lines
       THEN /\ files' = Append([files EXCEPT ![Len(files)].at = @ + 1], File(Read.name))
            /\ phase' = phase
       ELSE files' = files /\ phase' = "failed"
  /\ UNCHANGED <<text, vec, fnt_cnt, call>>

ReadFunction ==
  /\ Reading /\ Read.com = "function"
  /\ vec' = Pushed(Reader)
  /\ LET old == FunctID(vec', Read.name)
         id == IF old.id > 0 THEN old.id ELSE fnt_cnt + 1
     IN /\ phase' = IF old.bi = "" THEN phase ELSE "failed"
        /\ fnt_cnt' = IF old.bi = "" /\ old.id = 0 THEN id ELSE fnt_cnt
        /\ NextLine([Reader EXCEPT !.fnt_id = id, !.overwrite = old.id > 0, !.in_function = TRUE,
                       !.cur = [name |-> Read.name, fn_id |-> id, comm |-> <<>>]])
  /\ UNCHANGED <<text, call>>

ReadEnd ==
  /\ Reading /\ Read.com = "end"
  /\ vec' = Pushed(Reader)
  /\ NextLine([Reader EXCEPT !.in_function = FALSE])
  /\ UNCHANGED <<text, fnt_cnt, phase, call>>

(* addline                                                                  *)
ReadCommand ==
  /\ Reading /\ Read.com \in {"if", "ifnot"}
  /\ NextLine([Reader EXCEPT !.cur.comm = Append(@, Read)])
  /\ phase' = IF Read.state \in DOMAIN StateTypes \cup FlagStates THEN phase ELSE "failed"
  /\ UNCHANGED <<text, vec, fnt_cnt, call>>

ReadUnknown ==
  /\ Reading /\ Read.com \notin {"include", "function", "end", "if", "ifnot"}
  /\ phase' = "failed"
  /\ UNCHANGED <<text, files, vec, fnt_cnt, call>>

(* The end of a file.  After the top file actions become function numbers.  *)
Linked(v) ==
  LET Link(l) == [isif |-> l.com = "if", state |-> l.state, list |-> l.list,
                  mess_no |-> l.mess_no, ret |-> l.ret, action |-> FunctID(v, l.name)]
  IN [k \in DOMAIN v |-> [v[k] EXCEPT !.comm = [i \in DOMAIN @ |-> Link(@[i])]]]

EndOfFile ==
  /\ phase = "reading" /\ ~Reading
  /\ files' = Front(files)
  /\ IF Len(files) = 1
       THEN vec' = Linked(Pushed(Reader)) /\ phase' = "ready"
       ELSE vec' = Pushed(Reader) /\ phase' = phase
  /\ UNCHANGED <<text, fnt_cnt, call>>

----------------------------------------------------------------------------
(* The flags that callers set and stories read or write.                    *)
CMType ==
  [connect : BOOLEAN, exception : BOOLEAN, grey : BOOLEAN, blocked : BOOLEAN,
   redirect : BOOLEAN, logcat : BOOLEAN, done : BOOLEAN, isReturn : BOOLEAN,
   candidate : BOOLEAN, gomitm : BOOLEAN, nomitm : BOOLEAN, automitm : BOOLEAN,
   noscan : BOOLEAN, bypass : {"no", "held"}, bypassallow : BOOLEAN, infbypassallow : BOOLEAN,
   direct : BOOLEAN, nolog : BOOLEAN, search : BOOLEAN, result : BOOLEAN,
   special : {"no", "exception", "banned"}, group : -1 .. NumFG - 1,
   mods : SUBSET {"url", "site", "header", "addheader", "nocheckcert"},
   message_no : Nat, siteonly : BOOLEAN, iphost : BOOLEAN, reversed : BOOLEAN,
   embedded : BOOLEAN, post : BOOLEAN, tls : BOOLEAN, sni : BOOLEAN, mitm : BOOLEAN]

(* A new NaughtyFilter.                                                     *)
Plain ==
  [connect |-> FALSE, exception |-> FALSE, grey |-> FALSE, blocked |-> FALSE,
   redirect |-> FALSE, logcat |-> FALSE, done |-> FALSE, isReturn |-> FALSE,
   candidate |-> FALSE, gomitm |-> FALSE, nomitm |-> FALSE, automitm |-> FALSE,
   noscan |-> TRUE, bypass |-> "no", bypassallow |-> FALSE, infbypassallow |-> FALSE,
   direct |-> FALSE, nolog |-> FALSE, search |-> FALSE, result |-> FALSE,
   special |-> "no", group |-> 0, mods |-> {}, message_no |-> 0, siteonly |-> FALSE,
   iphost |-> FALSE, reversed |-> FALSE, embedded |-> FALSE, post |-> FALSE, tls |-> FALSE,
   sni |-> FALSE, mitm |-> FALSE]

NoRun == [entry |-> "", cm |-> Plain]

Top == stack[Len(stack)]
Line == vec[Top.f].comm[Top.at]

(* The value of a state that is a flag.                                     *)
Flag(s, c) ==
  CASE s = "connect" -> c.connect          [] s = "post" -> c.post
    [] s = "get" -> ~c.connect /\ ~c.post  [] s = "siteisip" -> c.iphost
    [] s = "tls" -> c.tls                  [] s = "hassniset" -> c.sni
    [] s = "exceptionset" -> c.exception   [] s = "greyset" -> c.grey
    [] s = "blockset" -> c.blocked         [] s = "mitmset" -> c.mitm
    [] s = "doneset" -> c.done             [] s = "returnset" -> c.isReturn
    [] s = "true" -> TRUE                  [] s = "redirectset" -> c.redirect
    [] s = "viruscheckset" -> ~c.noscan    [] s = "bypassset" -> c.bypass # "no"
    [] s = "bypassallowset" -> c.bypassallow
    [] s = "infectionbypassallowset" -> c.infbypassallow

(* The lists a line looks in: those of the right type that are defined, but  *)
(* none for URLs when the URL is only a site, none of addresses for a named  *)
(* site and, search_sitelist_for_ip being off, none of sites for an address. *)
(* The hosts a reverse lookup found and embedded URLs are looked for in all. *)
Skipped(s, c) ==
  IF s \in {"headerin", "responseheaderin", "embeddedin"}
     \/ (s \in {"sitein", "urlin", "fullurlin"} /\ c.iphost /\ c.reversed) THEN {}
  ELSE (IF c.siteonly THEN {"url", "fileext"} ELSE {})
       \cup (IF c.iphost THEN {"site"} ELSE {"ipsite"})

Asked(l, c) ==
  /\ l.state = "searchin" => c.search
  /\ l.state = "embeddedin" => c.embedded
  /\ (ListTypes[l.list] \cap StateTypes[l.state]) \ Skipped(l.state, c) # {}

(* What looking may say: TRUE is a match.                                    *)
Key(l) == <<l.state, l.list>>
Says(l, c) ==
  IF l.state \in FlagStates THEN {Flag(l.state, c)}
  ELSE IF ~Asked(l, c) THEN {FALSE}
  ELSE IF Key(l) \in DOMAIN known THEN {known[Key(l)]} ELSE BOOLEAN

(* A replacement or a map gives a text, which may be empty.                 *)
Results(l, hit) ==
  IF hit /\ l.state \notin FlagStates
        /\ ListTypes[l.list] \cap {"regexprep", "map", "ipmap"} # {}
    THEN BOOLEAN ELSE {FALSE}

----------------------------------------------------------------------------
(* update_messages and the message numbers of the line itself.              *)
Message(l, c) ==
  LET listed == IF l.isif /\ l.state \notin FlagStates THEN MessageNo[l.list] ELSE 0
  IN [c EXCEPT !.message_no = IF l.mess_no > 0 THEN l.mess_no ELSE listed,
               !.result = @ /\ l.isif /\ l.state \notin FlagStates]

(* Messages 600 and 631 are those of exception clients, 100 (logged as 103   *)
(* or 104) that of banned ones.                                             *)
SetException(l, c) ==
  LET d == Message(l, [c EXCEPT !.exception = TRUE, !.grey = FALSE, !.blocked = FALSE])
  IN IF d.message_no \in {600, 631}
       THEN [d EXCEPT !.special = "exception", !.group = -1, !.nomitm = TRUE, !.automitm = FALSE]
       ELSE d

SetBlock(l, c) ==
  LET d == Message(l, [c EXCEPT !.blocked = TRUE, !.grey = FALSE, !.exception = FALSE])
  IN IF d.message_no = 100 THEN [d EXCEPT !.special = "banned", !.group = -1] ELSE d

(* The built-in actions that always succeed.                                *)
Always(l, c) ==
  LET a == l.action.bi
  IN CASE a = "setexception" -> SetException(l, c)
       [] a = "setblock" -> SetBlock(l, c)
       [] a = "setgrey" -> [c EXCEPT !.grey = TRUE, !.exception = FALSE, !.blocked = FALSE]
       [] a = "setmodurl" -> [c EXCEPT !.mods = @ \cup {"url"}]
       [] a = "setconnectsite" -> [c EXCEPT !.mods = @ \cup {"site"}]
       [] a = "setaddheader" -> [c EXCEPT !.mods = @ \cup {"addheader"}]
       [] a = "setmodheader" -> [c EXCEPT !.mods = @ \cup {"header"}]
       [] a = "setnocheckcert" -> [c EXCEPT !.mods = @ \cup {"nocheckcert"}]
       [] a = "setlogcategory" -> Message(l, [c EXCEPT !.logcat = TRUE])
       [] a = "setnomitm" -> [c EXCEPT !.nomitm = TRUE, !.gomitm = FALSE, !.automitm = FALSE]
       [] a = "setautomitm" -> [c EXCEPT !.automitm = @ \/ ~c.nomitm]
       [] a = "unsetautomitm" -> [c EXCEPT !.automitm = FALSE]
       [] a = "setsearchterm" -> [c EXCEPT !.search = @ \/ c.result]
       [] a = "setgodirect" -> [c EXCEPT !.direct = TRUE]
       [] a = "setdone" -> [c EXCEPT !.done = TRUE]
       [] a = "setnolog" -> [c EXCEPT !.nolog = TRUE]
       [] a = "unsetviruscheck" -> [c EXCEPT !.noscan = TRUE]
       [] a = "unsetbypass" -> [c EXCEPT !.bypass = "no", !.exception = FALSE]
       [] a = "true" -> c

(* Those that may fail: when they succeed, what they do, and the group g the *)
(* label of setgroup names, 0 if it names none.                             *)
MayFail == {"setredirect", "setgomitm", "setgroup", "unsetbypassallow",
            "unsetinfectionbypassallow", "false"}
(* A mutant: setgomitm succeeds for what is no candidate.                    *)
SucceedsForAll(l, c, g) ==
  LET a == l.action.bi
  IN \/ a \notin MayFail
     \/ a = "setredirect" /\ c.result
     \/ a = "setgomitm" /\ ~c.nomitm
     \/ a = "setgroup" /\ l.state \notin FlagStates /\ c.result /\ g \in 1 .. NumFG
     \/ a = "unsetbypassallow" /\ c.bypassallow
     \/ a = "unsetinfectionbypassallow" /\ c.infbypassallow

Succeeds(l, c, g) ==
  LET a == l.action.bi
  IN \/ a \notin MayFail
     \/ a = "setredirect" /\ c.result
     \/ a = "setgomitm" /\ c.candidate /\ ~c.nomitm
     \/ a = "setgroup" /\ l.state \notin FlagStates /\ c.result /\ g \in 1 .. NumFG
     \/ a = "unsetbypassallow" /\ c.bypassallow
     \/ a = "unsetinfectionbypassallow" /\ c.infbypassallow
Done(l, c, g) ==
  LET a == l.action.bi
  IN CASE a \notin MayFail -> Always(l, c)
       [] a = "setredirect" -> [c EXCEPT !.redirect = TRUE]
       [] a = "setgomitm" -> [c EXCEPT !.gomitm = TRUE]
       [] a = "setgroup" -> [c EXCEPT !.group = g - 1]
       [] a = "unsetbypassallow" -> [c EXCEPT !.bypassallow = FALSE]
       [] a = "unsetinfectionbypassallow" -> [c EXCEPT !.infbypassallow = FALSE]

----------------------------------------------------------------------------
Init ==
  /\ text \in DOMAIN Texts
  /\ files = <<File(Texts[text].top)>> /\ vec = <<>> /\ fnt_cnt = 0 /\ phase = "reading"
  /\ run = NoRun /\ stack = <<>> /\ cm = Plain /\ known = <<>>

(* runFunctEntry                                                            *)
RunFunctEntry(r) ==
  /\ phase = "ready" /\ run = NoRun
  /\ run' = r
  /\ stack' = <<[f |-> FunctID(vec, r.entry).id, at |-> 1, ar |-> FALSE]>>
  /\ cm' = [r.cm EXCEPT !.done = FALSE]
  /\ UNCHANGED <<board, known>>

(* The calling line goes on with what its action returned, ok: it leaves the *)
(* function, or the next line comes.                                        *)
Went(frame, ok) ==
  LET l == vec[frame.f].comm[frame.at]
  IN [frame EXCEPT !.ar = ok,
                   !.at = IF l.ret = "return" \/ (l.ret = "returnif" /\ ok)
                            THEN Len(vec[frame.f].comm) + 1 ELSE @ + 1]
Replace(frame) == [stack EXCEPT ![Len(stack)] = frame]

Running == stack # <<>> /\ Top.at <= Len(vec[Top.f].comm)

(* What a line has found out: a header that matches sets the message, and a  *)
(* match of an if sets the result.                                          *)
Found(l, hit, res, c) ==
  IF ~hit \/ ~l.isif \/ l.state \in FlagStates THEN c
  ELSE IF l.state \in {"headerin", "responseheaderin"}
    THEN [c EXCEPT !.result = res, !.message_no = MessageNo[l.list]]
    ELSE [c EXCEPT !.result = res]

Learnt(l, hit) ==
  IF l.state \in FlagStates \/ ~Asked(l, cm) THEN known
  ELSE [k \in DOMAIN known \cup {Key(l)} |-> IF k = Key(l) THEN hit ELSE known[k]]

(* A line whose condition does not hold.                                    *)
LineFails ==
  /\ Running
  /\ \E hit \in Says(Line, cm) : \E res \in Results(Line, hit) :
       /\ hit # Line.isif
       /\ cm' = [Found(Line, hit, res, cm) EXCEPT !.isReturn = FALSE]
       /\ known' = Learnt(Line, hit)
       /\ stack' = Replace([Top EXCEPT !.ar = FALSE, !.at = @ + 1])
  /\ UNCHANGED <<run, board>>

(* A line that calls a built-in action, or one that nothing defines.        *)
LineActs ==
  /\ Running
  /\ Line.action.id = 0
  /\ \E hit \in Says(Line, cm) : \E res \in Results(Line, hit) :
     \E g \in IF Line.action.bi = "setgroup" THEN 0 .. NumFG + 1 ELSE {0} :
       LET c == Found(Line, hit, res, cm)
           ok == Line.action.bi = "" \/ Succeeds(Line, c, g)
       IN /\ hit = Line.isif
          /\ cm' = [(IF ok /\ Line.action.bi # "" THEN Done(Line, c, g) ELSE c)
                       EXCEPT !.isReturn = ok]
          /\ known' = Learnt(Line, hit)
          /\ stack' = Replace(Went(Top, ok))
  /\ UNCHANGED <<run, board>>

(* A line that calls a function of the storyboard.                          *)
LineCalls ==
  /\ Running
  /\ Line.action.id > 0
  /\ \E hit \in Says(Line, cm) : \E res \in Results(Line, hit) :
       /\ hit = Line.isif
       /\ cm' = Found(Line, hit, res, cm)
       /\ known' = Learnt(Line, hit)
  /\ stack' = Append(stack, [f |-> Line.action.id, at |-> 1, ar |-> FALSE])
  /\ UNCHANGED <<run, board>>

(* A mutant: the caller stays on the line that called.                      *)
ReturnAgain ==
  /\ stack # <<>> /\ ~Running
  /\ stack' = Front(stack)
  /\ cm' = IF Len(stack) = 1 THEN cm ELSE [cm EXCEPT !.isReturn = Top.ar]
  /\ UNCHANGED <<run, known, board>>

(* A function ends: its caller goes on.                                     *)
Return ==
  /\ stack # <<>> /\ ~Running
  /\ IF Len(stack) = 1
       THEN stack' = <<>> /\ cm' = cm
       ELSE /\ stack' = [Front(stack) EXCEPT ![Len(stack) - 1] = Went(@, Top.ar)]
            /\ cm' = [cm EXCEPT !.isReturn = Top.ar]
  /\ UNCHANGED <<run, known, board>>

ReadStep == ReadInclude \/ ReadFunction \/ ReadEnd \/ ReadCommand \/ ReadUnknown \/ EndOfFile
RunStep == LineFails \/ LineActs \/ LineCalls \/ Return

Next == ReadStep \/ (\E r \in Texts[text].runs : RunFunctEntry(r)) \/ RunStep

Spec == Init /\ [][Next]_vars /\ WF_vars(ReadStep \/ RunStep)
=============================================================================
