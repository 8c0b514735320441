------------------------------- MODULE MCLists -------------------------------
(***************************************************************************)
(* The lists in memory and what is found in them.  The two share no state: *)
(* a behaviour here is one of ListManager, with no file to ask, or one of  *)
(* Lookups, before the first load.                                         *)
(*                                                                         *)
(* ListManager: a site list that includes another, a regular expression    *)
(* list, a map of users to groups and a phrase list.                       *)
(*                                                                         *)
(* Lookups: strings over a few characters, a and b, the dot and the slash; *)
(* texts over a, b, A, %a, and the angle brackets, with 1 for a character  *)
(* no phrase has.                                                          *)
(***************************************************************************)
EXTENDS ListManager, Lookups

CONSTANTS w1, MaxItems, MaxLines

a == 97
b == 98
A == 65
one == 49

Strings(chars, n) == UNION {[1 .. k -> chars] : k \in 1 .. n}
Bunches(s, n) == {SetToSeq(x) : x \in {y \in SUBSET s : Cardinality(y) <= n}}

Midday == [days |-> {0}, sthour |-> 1, stmin |-> 1, endhour |-> 2, endmin |-> 0]
MCTimes == {[day |-> 0, hour |-> 1, min |-> 0], [day |-> 0, hour |-> 2, min |-> 0],
            [day |-> 0, hour |-> 2, min |-> 1], [day |-> 1, hour |-> 1, min |-> 1]}

File(items, sw, band, more) == [items |-> items, startswith |-> sw, band |-> band, more |-> more]
Included == {<<>>, <<[items |-> <<<<a, Dot, b>>>>, band |-> Midday]>>}

(* Sites, most of them a domain of another. *)
Sites == {<<a, Dot, b>>, <<b, Dot, b>>, <<a, Dot, a, Dot, b>>, <<b, a, Dot, b>>, <<Dot, b, b>>, <<a, Dot, b, b>>}
MCSiteFiles == {File(s, FALSE, band, more) : s \in Bunches(Sites, MaxItems), band \in {None, Midday}, more \in Included}
MCHosts == Sites \cup {<<b, b>>, <<b>>, <<b, Dot, a, Dot, b>>, <<a, Dot, a>>, <<a, Dot, b, a, Dot, b>>, <<b, Dot, b, b>>}

(* URLs: two hosts, and paths. *)
URLItems == {<<a, Dot, b>>, <<a, Dot, b, Slash, a>>, <<a, Dot, b, Slash, b>>, <<a, Dot, b, Slash, a, Slash, b>>,
             <<b, Dot, b, Slash, a>>, <<a, Dot, b, b>>}
MCURLFiles == {File(s, TRUE, None, <<>>) : s \in Bunches(URLItems, MaxItems)}
Paths == {<<>>, <<Slash>>} \cup {<<Slash>> \o p : p \in [1 .. 1 -> {a, b}]}
         \cup {<<Slash>> \o p : p \in [1 .. 2 -> {a, Slash}]}
         \cup {<<Slash, a>> \o p : p \in {<<Slash, b>>, <<Slash, Question>>, <<b, Slash>>, <<Question, b>>}}
         \cup {<<Slash, b, Slash, Dot, Dot, Slash, a>>, <<Slash, a + Encoded>>, <<Slash, Dot, Slash>>}
MCURLs == {h \o p : h \in {<<a, Dot, b>>, <<b, Dot, b>>, <<b, Dot, a, Dot, b>>, <<a, Dot, b, b>>}, p \in Paths}

(* Extensions and names. *)
MCExtensionFiles == {File(s, FALSE, None, <<>>) :
                       s \in Bunches({<<Dot, a>>, <<Dot, b>>, <<Dot, a, Dot, b>>, <<Dot, b, b>>, <<Dot, a, b>>}, 4)}
MCFileNames == {p \o <<Dot>> \o q : p \in Strings({a, b, Dot}, 2), q \in Strings({a, b}, 2)}

(* IP files of up to three entries. *)
IP(n, g) == [kind |-> "ip", addr |-> n, group |-> g]
Mask(n, m, g) == [kind |-> "mask", addr |-> n, mask |-> m, group |-> g]
CIDR(n, m, g) == [kind |-> "cidr", addr |-> n, m |-> m, group |-> g]
IPRange(x, y, g) == [kind |-> "range", start |-> x, end |-> y, group |-> g]
Entries == {IP(n, g) : n \in {0, 3, 5, 7}, g \in {1, 2, 3}}
           \cup {Mask(5, m, 1) : m \in {0, 4, 5}} \cup {CIDR(n, m, g) : n \in {1, 6}, m \in {0, 1, 3, 4}, g \in {1, 2}}
           \cup {IPRange(2, 5, 2), IPRange(5, 5, 1), IPRange(6, 1, 1), IPRange(0, 7, Special)}
MCIPFiles == UNION {[1 .. n -> Entries] : n \in 1 .. 2} \cup {<<IP(n, 1), IP(m, 2), e>> : n, m \in {0, 5}, e \in Entries}

(* Phrase files. *)
Line(parts, t, w, n) == [parts |-> parts, type |-> t, weight |-> w, now |-> n]
Lines == {Line(<<<<a>>>>, 1, 1, TRUE), Line(<<<<a, b>>>>, 1, 2, TRUE), Line(<<<<a, b>>>>, 1, 3, TRUE),
          Line(<<<<a, b>>>>, 0, 0, TRUE), Line(<<<<a, b>>>>, -1, 0, TRUE), Line(<<<<a, a, b>>>>, -1, 0, TRUE), Line(<<<<b, a>>>>, 0, 0, FALSE),
          Line(<<<<a, a>>>>, 1, -1, TRUE),
          Line(<<<<a>>, <<b>>>>, 1, 2, TRUE), Line(<<<<a, b>>, <<b, b>>>>, 1, 1, TRUE),
          Line(<<<<b>>, <<a, a>>>>, -1, 0, TRUE), Line(<<<<b, b>>, <<a>>>>, 0, 0, TRUE)}
FewLines == {Line(<<<<a>>>>, 1, 1, TRUE), Line(<<<<a, a>>>>, 0, 0, TRUE), Line(<<<<A>>>>, -1, 0, TRUE)}
Few(f) == Range(f) \subseteq FewLines
MCPhraseFiles == UNION {[1 .. n -> Lines] : n \in 1 .. MaxLines} \cup UNION {[1 .. n -> FewLines] : n \in 1 .. 2}
Raw == [weighted_phrase_mode |-> 1, phrase_filter_mode |-> 0, preserve_case |-> 0, hex_decode_content |-> FALSE,
        searchterms |-> FALSE, limit |-> 3]
MCFilterConfs(f) ==
  IF Few(f) THEN [weighted_phrase_mode : {1}, phrase_filter_mode : {0, 1, 2}, preserve_case : {0, 1, 2},
                  hex_decode_content : {TRUE}, searchterms : BOOLEAN, limit : {1}]
                 \cup {[Raw EXCEPT !.weighted_phrase_mode = 0]}
  ELSE {Raw, [Raw EXCEPT !.weighted_phrase_mode = 2]}
MCTexts(f) ==
  IF Few(f) THEN {x \o <<one, one>> : x \in Strings({a, A, a + PercentCode, Less, Greater}, 2)
                                    \cup {<<a>> \o y \o <<a>> : y \in Strings({A, Less, Greater}, 2)}}
  ELSE {x \o <<one, one>> : x \in Strings({a, b}, 4)} \cup Strings({a, b}, 2)

MCConfs == {<<"sites">>, <<"regexps">>, <<"users">>}
MCKind == [sites |-> "item", more |-> "item", regexps |-> "regexp", users |-> "map", phrases |-> "phrase"]
MCIncludes == [f \in DOMAIN MCKind |-> IF f = "sites" THEN <<"more">> ELSE <<>>]
MCLabels == [users |-> 0]
MCNumbers == {1, 2}
MCWorkers == {w1}

NoQuestion == loaded = [kind |-> "none"] /\ question = None /\ answer = None

(* The two numbers are interchangeable, so one may come first. *)
ListsInit ==
  /\ Init /\ number = 1
  /\ \/ NoQuestion
     \/ LookupInit /\ named = <<"sites">>

ListsNext ==
  \/ loaded.kind = "none" /\ Next /\ UNCHANGED lookupvars
  \/ loaded.kind # "none" /\ LookupNext /\ UNCHANGED vars

ListsSpec == ListsInit /\ [][ListsNext]_<<vars, lookupvars>>
=============================================================================
