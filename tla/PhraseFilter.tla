---------------------------- MODULE PhraseFilter ----------------------------
(***************************************************************************)
(* The phrase filter: the phrase lists of src/src/ListContainer.cpp, with  *)
(* the tree and the quick search that find their phrases in a text, and    *)
(* NaughtyFilter::checkme and checkphrase (src/src/NaughtyFilter.cpp),     *)
(* which decide from what was found.                                       *)
(*                                                                         *)
(* A text is a sequence of character codes; a character written %xx is its *)
(* code plus PercentCode.  Categories and log lines are left out, and so   *)
(* is phrasefiltermode 3 (only the meta and title tags).                   *)
(***************************************************************************)
EXTENDS Integers, Sequences, FiniteSets, SequencesExt, FiniteSetsExt, Functions

CONSTANTS
  FewBranches     \* below so many branches (12) a root's phrases are searched one by one

Space == 32
Less == 60
Greater == 62
PercentCode == 1000

StartsAt(text, p, j) == j + Len(p) <= Len(text) /\ SubSeq(text, j + 1, j + Len(p)) = p

-----------------------------------------------------------------------------
(* Reading.  A line of a phrase file is [parts, type, weight, now]: type   *)
(* is -1 (exception), 0 (banned) or 1 (weighted), now says that it is its  *)
(* time.  The parts of a combination are items too, of a type above 9.     *)
readPhraseListHelper(lines) ==
  LET Items(e) == [i \in DOMAIN e.parts |->
                     [phrase |-> e.parts[i], weight |-> e.weight, now |-> e.now,
                      type |-> IF Len(e.parts) > 1 THEN e.type + 11 ELSE e.type]]
  IN  [items |-> FlattenSeq([i \in DOMAIN lines |-> Items(lines[i])]),
       combilist |-> SelectSeq(lines, LAMBDA e : Len(e.parts) > 1)]

(* A mutant: an exception does not replace a banned phrase. *)
TakesPrecedenceBanned(old, new) ==
  \/ old.type > 9 /\ new.type < 10
  \/ old.type = 1 /\ new.type = 1 /\ new.weight > old.weight
  \/ old.type = 1 /\ new.type < 1

(* Of two uses of one phrase, whether the new one replaces the old one. *)
TakesPrecedence(old, new) ==
  \/ old.type > 9 /\ new.type < 10
  \/ old.type = 1 /\ new.type = 1 /\ new.weight > old.weight
  \/ old.type = 1 /\ new.type = 0
  \/ new.type = -1

Resolve(items, old, new) ==
  IF TakesPrecedence(items[old], items[new]) THEN [items EXCEPT ![old] = items[new]] ELSE items

(* A phrase joins the phrases searched one by one. *)
AddSlow(g, i) ==
  LET same == {k \in Range(g.slowgraph) : g.items[k].phrase = g.items[i].phrase}
  IN  IF same = {} THEN [g EXCEPT !.slowgraph = Append(@, i)]
      ELSE [g EXCEPT !.items = Resolve(@, CHOOSE k \in same : TRUE, i)]

(* graphAdd: a node is named by the prefix it stands for; id is its index. *)
graphAdd(g, i) ==
  LET p == g.items[i].phrase
      d == Max({k \in 0 .. Len(p) : k = 0 \/ SubSeq(p, 1, k) \in DOMAIN g.nodes})
      new == {SubSeq(p, 1, k) : k \in d + 1 .. Len(p)}
      first == Cardinality(DOMAIN g.nodes) - d
  IN  IF new # {}
      THEN [g EXCEPT !.nodes = [q \in DOMAIN @ \cup new |->
                                  IF q \in new THEN [id |-> first + Len(q), item |-> i, end |-> q = p] ELSE @[q]]]
      ELSE IF g.nodes[p].end THEN [g EXCEPT !.items = Resolve(@, g.nodes[p].item, i)]
      ELSE g

Children(nodes, q) == {c \in DOMAIN nodes : Len(c) = Len(q) + 1 /\ IsPrefix(q, c)}

InOrder(nodes, s) == SetToSortSeq(s, LAMBDA a, b : nodes[a].id < nodes[b].id)

graphFindBranches(nodes, q) ==
  LET under == {c \in DOMAIN nodes : IsPrefix(q, c) /\ Children(nodes, c) # {}}
  IN  MapThenSumSet(LAMBDA c : Cardinality(Children(nodes, c)) - 1, under)

RECURSIVE graphCopyNodePhrases(_, _)
graphCopyNodePhrases(g, q) ==
  AddSlow(FoldLeft(graphCopyNodePhrases, g, InOrder(g.nodes, Children(g.nodes, q))), g.nodes[q].item)

(* A mutant: phrases are added in the order of the file. *)
graphSizeSortNot(items) == [i \in DOMAIN items |-> i]

(* The items, the shortest phrase first. *)
graphSizeSort(items) ==
  SortSeq([i \in DOMAIN items |-> i], LAMBDA a, b : Len(items[a].phrase) < Len(items[b].phrase))

(* makeGraph: the tree of all phrases, then the roots with few branches    *)
(* are taken out of it, the last root first.                               *)
makeGraph(list, force_quick_search) ==
  LET empty == [items |-> list.items, combilist |-> list.combilist, slowgraph |-> <<>>,
                nodes |-> [q \in {} |-> 0], roots |-> {}]
      tree == FoldLeft(graphAdd, empty, graphSizeSort(list.items))
      roots == Children(tree.nodes, <<>>)
      few == {q \in roots : graphFindBranches(tree.nodes, q) < FewBranches}
  IN  IF force_quick_search
      THEN FoldLeft(AddSlow, empty, [i \in DOMAIN list.items |-> i])
      ELSE FoldLeft(graphCopyNodePhrases, [tree EXCEPT !.roots = roots \ few],
                    Reverse(InOrder(tree.nodes, few)))

-----------------------------------------------------------------------------
(* Searching.  The phrase is written behind the text (tail) so that it is  *)
(* always found; the quick search then shifts by the character behind the  *)
(* window.                                                                 *)
Overwrite(tail, p) == p \o SubSeq(tail, Len(p) + 1, Len(tail))

qsBc(p, c) == LET at == {j \in DOMAIN p : p[j] = c}
              IN  IF at = {} THEN Len(p) + 1 ELSE Len(p) + 1 - Max(at)

bmsearch(text, tail, p) ==
  LET file == text \o Overwrite(tail, p)
      from[j \in 0 .. Len(text) + Len(p) + 1] ==
        IF j >= Len(text) THEN 0
        ELSE (IF StartsAt(file, p, j) THEN 1 ELSE 0) + from[j + qsBc(p, file[j + Len(p) + 1])]
  IN  IF Len(text) < Len(p) THEN 0 ELSE from[0]

(* What the searches of the slow phrases leave behind the text. *)
TailAfter(g, text, tail) ==
  LET write(t, i) == LET p == g.items[i].phrase IN IF Len(text) < Len(p) THEN t ELSE Overwrite(t, p)
  IN  FoldLeft(write, tail, g.slowgraph)

(* graphSearch: phrases and how often each was found. *)
graphSearch(g, text, tail) ==
  LET slow == {g.items[i].phrase : i \in Range(g.slowgraph)}
      file == text \o TailAfter(g, text, tail)
      treed == {q \in DOMAIN g.nodes : g.nodes[q].end /\ SubSeq(q, 1, 1) \in g.roots}
      count(p) == IF p \in slow THEN bmsearch(text, tail, p) ELSE 0
      times(p) == count(p) + (IF p \in treed
                              THEN Cardinality({j \in 0 .. Len(text) - 1 : StartsAt(file, p, j)}) ELSE 0)
  IN  [p \in {q \in slow \cup treed : times(q) > 0} |-> times(p)]

(* The item that says how a phrase is used. *)
ItemOf(g, p) ==
  LET s == {i \in Range(g.slowgraph) : g.items[i].phrase = p}
  IN  g.items[IF s # {} THEN CHOOSE i \in s : TRUE ELSE g.nodes[p].item]

-----------------------------------------------------------------------------
(* checkphrase.  What is kept while the combinations are gone through:     *)
(* low is lowest_occurrences.                                              *)
Combination(found, mode, s, c) ==
  LET counts == {found[c.parts[i]] : i \in {k \in DOMAIN c.parts : c.parts[k] \in DOMAIN found}}
      low == Min(counts \cup (IF s.low = 0 THEN {} ELSE {s.low}))
      t == [s EXCEPT !.low = low]
  IN  IF s.exception THEN s
      ELSE IF \E i \in DOMAIN c.parts : c.parts[i] \notin DOMAIN found THEN [s EXCEPT !.low = 0]
      ELSE IF ~c.now THEN t
      ELSE IF c.type = -1 THEN [t EXCEPT !.exception = TRUE]
      ELSE IF c.type = 0 THEN [t EXCEPT !.banned = TRUE]
      ELSE [t EXCEPT !.weighting = @ + c.weight * (IF mode = 2 THEN 1 ELSE low)]

Single(found, g, type) == {p \in DOMAIN found : ItemOf(g, p).now /\ ItemOf(g, p).type = type}

(* The weighting a text keeps: the one further from nothing. *)
Higher(weighting, n) ==
  \/ weighting < 0 /\ n <= 0 /\ weighting < n
  \/ n >= 0 /\ weighting > n
  \/ n < 0 /\ weighting > 0

Conclude(nf, exception, banned, weighting, limit) ==
  IF exception THEN [nf EXCEPT !.isException = TRUE, !.isItNaughty = FALSE]
  ELSE [nf EXCEPT !.naughtiness = IF Higher(weighting, @) THEN weighting ELSE @,
                  !.isItNaughty = @ \/ banned \/ weighting > limit]

Weigh(nf, g, found, mode, limit) ==
  LET step(s, c) == Combination(found, mode, s, c)
      combi == FoldLeft(step, [low |-> 0, exception |-> FALSE, banned |-> FALSE, weighting |-> 0],
                        g.combilist)
      weight(p) == ItemOf(g, p).weight * (IF mode = 2 THEN 1 ELSE found[p])
  IN  Conclude(nf, combi.exception \/ Single(found, g, -1) # {}, combi.banned \/ Single(found, g, 0) # {},
               combi.weighting + MapThenSumSet(weight, Single(found, g, 1)), limit)

checkphrase(nf, g, text, tail, mode, limit) == Weigh(nf, g, graphSearch(g, text, tail), mode, limit)

-----------------------------------------------------------------------------
(* checkme: the passes over a text.                                        *)
(* An encoded character at the very end is left as it is. *)
hexdecode(raw) ==
  [i \in DOMAIN raw |-> IF raw[i] >= PercentCode /\ i < Len(raw) THEN raw[i] - PercentCode ELSE raw[i]]

(* Punctuation becomes a space; html keeps the angle brackets. *)
Flatten(c, preserve_case, html) ==
  IF ~preserve_case /\ c \in 65 .. 90 THEN c + 32
  ELSE IF \/ c < 47
          \/ c \in 91 .. 96
          \/ c \in (IF html THEN {58, 59, 61, 63, 64} ELSE 58 .. 64)
       THEN Space ELSE c

(* Without tags and repeated spaces, after one space. *)
NoHtml(s) ==
  LET step(b, ch) ==
        LET in == ch # Greater /\ (b.in \/ ch = Less)
            c == IF ch = Greater THEN Space ELSE ch
        IN  IF in \/ (c = Space /\ Last(b.out) = Space) THEN [b EXCEPT !.in = in]
            ELSE [in |-> in, out |-> Append(b.out, c)]
  IN  FoldLeft(step, [in |-> FALSE, out |-> <<Space>>], s).out

NoTags(s) == [i \in DOMAIN s |-> IF s[i] \in {Less, Greater} THEN Space ELSE s[i]]

Decided(nf) == nf.isItNaughty \/ nf.isException

Search(nf, g, conf, text, tail, buffer) ==
  [checkphrase(nf, g, text, tail, conf.weighted_phrase_mode, conf.limit)
     EXCEPT !.tails[buffer] = TailAfter(g, text, tail)]

(* The last character of the text without tags is not searched. *)
SearchNoHtml(nf, g, conf, bodynohtml) ==
  Search(nf, g, conf, Front(bodynohtml),
         <<Last(bodynohtml)>> \o (IF nf.tails.nohtml = <<>> THEN <<>> ELSE Tail(nf.tails.nohtml)), "nohtml")

SearchRaw(nf, g, conf, raw) ==
  IF Decided(nf) \/ conf.phrase_filter_mode \notin {0, 2} THEN [nf EXCEPT !.done = TRUE]
  ELSE LET r == Search(nf, g, conf, raw, nf.tails.raw, "raw") IN [r EXCEPT !.done = Decided(r)]

(* One round of the passes: without tags, then raw. *)
Pass(nf, g, conf, body, preserve) ==
  LET do_nohtml == ~conf.searchterms /\ conf.phrase_filter_mode \in {1, 2}
      bodylc == [i \in DOMAIN body |-> Flatten(body[i], preserve, do_nohtml)]
  IN  SearchRaw(IF do_nohtml THEN SearchNoHtml(nf, g, conf, NoHtml(bodylc)) ELSE nf, g, conf,
                IF do_nohtml THEN NoTags(bodylc) ELSE bodylc)

checkme(g, conf, rawbody) ==
  LET nf == [isItNaughty |-> FALSE, isException |-> FALSE, naughtiness |-> 0, done |-> FALSE,
             tails |-> [raw |-> <<>>, nohtml |-> <<>>]]
      body == IF ~conf.searchterms /\ conf.hex_decode_content THEN hexdecode(rawbody) ELSE rawbody
      round(n, preserve) == IF n.done THEN n ELSE Pass(n, g, conf, body, preserve)
  IN  IF conf.weighted_phrase_mode = 0 THEN nf
      ELSE FoldLeft(round, nf, IF conf.preserve_case = 2 THEN <<FALSE, TRUE>> ELSE <<conf.preserve_case = 1>>)

=============================================================================
