------------------------------- MODULE Lookups -------------------------------
(***************************************************************************)
(* What a worker asks of the lists that are loaded, and what it is told:   *)
(* a site or a URL of an item list, an address of an IP list, a text of a  *)
(* phrase list.  A behaviour loads one file (LookupInit) and asks one      *)
(* question.                                                               *)
(***************************************************************************)
EXTENDS ListContainer, PhraseFilter

CONSTANTS
  SiteFiles, URLFiles, ExtensionFiles, IPFiles, PhraseFiles,   \* what the files can hold
  Hosts, URLs, FileNames,                                       \* what is asked
  Texts(_), FilterConfs(_),                                     \* what a phrase file is tried with
  Times

VARIABLES
  loaded,    \* the file: its kind and what it holds
  question,
  answer

lookupvars == <<loaded, question, answer>>

LookupInit ==
  /\ \/ \E f \in SiteFiles : loaded = [kind |-> "sites", file |-> f]
     \/ \E f \in URLFiles : loaded = [kind |-> "urls", file |-> f]
     \/ \E f \in ExtensionFiles : loaded = [kind |-> "extensions", file |-> f]
     \/ \E f \in IPFiles : loaded = [kind |-> "addresses", file |-> f]
     \/ \E f \in PhraseFiles : loaded = [kind |-> "phrases", file |-> f]
  /\ question = None
  /\ answer = None

Ask(kind, q, a) ==
  /\ loaded.kind = kind
  /\ question = None
  /\ question' = q
  /\ answer' = a
  /\ UNCHANGED loaded

LookupSite(host, site_wild, t) ==
  Ask("sites", [host |-> host, wild |-> site_wild, t |-> t],
      inSiteList(Sorted(loaded.file, t), host, site_wild))

LookupURL(url, site_wild, t) ==
  Ask("urls", [url |-> url, wild |-> site_wild, t |-> t],
      inURLList(Sorted(loaded.file, t), url, site_wild))

LookupExtension(name, t) ==
  Ask("extensions", [name |-> name, t |-> t], findEndsWith(Sorted(loaded.file, t), name))

LookupAddress(ip) ==
  Ask("addresses", ip,
      [listed |-> inIPList(addToIPList(loaded.file), ip), group |-> getIPMapData(addToIPMap(loaded.file), ip)])

Judge(text, conf, force_quick_search) ==
  LET g == makeGraph(readPhraseListHelper(loaded.file), force_quick_search)
  IN  Ask("phrases", [text |-> text, conf |-> conf],
          [found |-> graphSearch(g, text, <<>>), nf |-> checkme(g, conf, text)])

LookupNext ==
  \/ \E h \in Hosts, w \in BOOLEAN, t \in Times : LookupSite(h, w, t)
  \/ \E u \in URLs, w \in BOOLEAN, t \in Times : LookupURL(u, w, t)
  \/ \E n \in FileNames, t \in Times : LookupExtension(n, t)
  \/ \E ip \in 0 .. AllOnes : LookupAddress(ip)
  \/ loaded.kind = "phrases" /\ \E x \in Texts(loaded.file), c \in FilterConfs(loaded.file), fqs \in BOOLEAN : Judge(x, c, fqs)

LookupSpec == LookupInit /\ [][LookupNext]_lookupvars

Answered(kind) == question # None /\ loaded.kind = kind

-----------------------------------------------------------------------------
(* References.  The minutes of a day are counted in a base no minute reaches. *)
Clock(hour, min) == 100 * hour + min

InTime(band, t) ==
  band = None \/ (t.day \in band.days /\ Clock(t.hour, t.min) \in
                    Clock(band.sthour, band.stmin) .. Clock(band.endhour, band.endmin))

(* The entries in force at time t. *)
InForce(f, t) ==
  IF InTime(f.band, t)
  THEN Range(f.items) \cup UNION {Range(f.more[i].items) : i \in {k \in DOMAIN f.more : InTime(f.more[k].band, t)}}
  ELSE {}

(* A host and the domains above it that have a dot, and the top level     *)
(* domain written .tld, unless it is one letter.                           *)
Domains(host) ==
  {SubSeq(host, i + 1, Len(host)) : i \in {k \in 0 .. Len(host) : k = 0 \/ host[k] = Dot}}

SiteNames(host, wild) ==
  LET whole == IF wild THEN Domains(host) ELSE {host}
  IN  {d \in whole : Dot \in Range(d) /\ (wild \/ Len(d) > 2)}
      \cup {<<Dot>> \o d : d \in {e \in whole : Dot \notin Range(e) /\ Len(e) > 1}}

(* A site is found in a site list exactly when the list, or a list it     *)
(* includes, has in force at that time the host, a domain above it or its  *)
(* top level domain: the binary search over the items sorted by their ends *)
(* (ListContainer::doSort, search) misses none and invents none.           *)
SiteIsListed ==
  Answered("sites") =>
    /\ (answer # None) = (SiteNames(question.host, question.wild) \cap InForce(loaded.file, question.t) # {})
    /\ answer # None => answer \in SiteNames(question.host, question.wild)

(* What of a URL an entry of a URL list covers. *)
Covers(item, url) ==
  IsPrefix(item, url) /\ (Len(item) = Len(url) \/ url[Len(item) + 1] \in Separator)

URLForms(url, wild) ==
  LET n == Normal(url)
      host == before(n, Slash)
      starts == {k \in 0 .. Len(host) : k = 0 \/ (wild /\ host[k] = Dot)}
  IN  {SubSeq(n, k + 1, Len(n)) : k \in {s \in starts : Dot \in Range(SubSeq(host, s + 1, Len(host)))}}

NoneExtends(items, Extends(_, _)) == \A i, j \in items : i # j => ~Extends(i, j)

(* A URL found in a URL list is covered by the entry that is named; and it *)
(* is found whenever an entry in force covers it, if no entry of the list  *)
(* is the beginning of another one.                                        *)
URLIsListed ==
  Answered("urls") =>
    LET in == InForce(loaded.file, question.t)
        forms == URLForms(question.url, question.wild)
    IN  /\ answer # None => answer \in in /\ \E u \in forms : Covers(answer, u)
        /\ (NoneExtends(in, IsPrefix) /\ \E u \in forms, i \in in : Covers(i, u)) => answer # None

(* The same from the other end: the extension of a file name is found in a *)
(* list of extensions (findEndsWith), if none is the end of another.       *)
ExtensionIsListed ==
  Answered("extensions") =>
    LET in == InForce(loaded.file, question.t)
    IN  /\ answer # None => answer \in in /\ IsSuffix(answer, question.name)
        /\ (NoneExtends(in, IsSuffix) /\ \E i \in in : IsSuffix(i, question.name)) => answer # None

-----------------------------------------------------------------------------
(* The addresses an entry of an IP list stands for. *)
Stands(e) ==
  CASE e.kind = "ip" -> {e.addr}
    [] e.kind = "range" -> e.start .. e.end
    [] e.kind = "mask" -> {ip \in 0 .. AllOnes : \A b \in 0 .. Bits - 1 :
                             (e.mask \div 2 ^ b) % 2 = 1 => (ip \div 2 ^ b) % 2 = (e.addr \div 2 ^ b) % 2}
    [] e.kind = "cidr" -> IF e.m > Bits THEN {}
                          ELSE {ip \in 0 .. AllOnes : ip \div 2 ^ (Bits - e.m) = e.addr \div 2 ^ (Bits - e.m)}

(* An address is in an IP list exactly when an entry stands for it, and an *)
(* IP map gives it the group of such an entry with a usable group: of an   *)
(* entry for the very address if there is one, else of the first subnet,   *)
(* else of the first range (getIPMapData).                                 *)
AddressIsListed ==
  Answered("addresses") =>
    LET f == loaded.file
        usable(i) == question \in Stands(f[i]) /\ (f[i].group = Special \/ f[i].group \in 1 .. filter_groups)
        exact == {i \in DOMAIN f : usable(i) /\ f[i].kind = "ip"}
        nets == {i \in DOMAIN f : usable(i) /\ f[i].kind \in {"mask", "cidr"}}
        ranges == {i \in DOMAIN f : usable(i) /\ f[i].kind = "range"}
    IN  /\ answer.listed = (\E i \in DOMAIN f : question \in Stands(f[i]))
        /\ IF exact # {} THEN answer.group \in {f[i].group : i \in exact}
           ELSE IF nets # {} THEN answer.group = f[Min(nets)].group
           ELSE IF ranges # {} THEN answer.group = f[Min(ranges)].group
           ELSE answer.group = None

(* A worker that asks a list is told of an entry in force exactly when there *)
(* is one: of sites, URLs, extensions and addresses.                         *)
EntriesAreFound == SiteIsListed /\ URLIsListed /\ ExtensionIsListed /\ AddressIsListed


-----------------------------------------------------------------------------
Occurrences(text, p) == Cardinality({j \in 0 .. Len(text) : StartsAt(text, p, j)})

(* Where a text ends in the middle of a phrase. *)
Straddles(text, p) ==
  Cardinality({k \in 1 .. Len(p) - 1 : k <= Len(text) /\ SubSeq(text, Len(text) - k + 1, Len(text)) = SubSeq(p, 1, k)})

PhrasesOf(lines) == UNION {Range(lines[i].parts) : i \in DOMAIN lines}

(* Every occurrence of every phrase of the list is counted, overlapping   *)
(* ones included, whichever of the tree and the quick search looks for it; *)
(* no more are counted, except where the text ends in the middle of a      *)
(* phrase, which what is written behind the text may complete.             *)
PhrasesAreFound ==
  Answered("phrases") =>
    \A p \in PhrasesOf(loaded.file) :
      LET n == IF p \in DOMAIN answer.found THEN answer.found[p] ELSE 0
          occ == Occurrences(question.text, p)
      IN  occ <= n /\ n <= occ + Straddles(question.text, p)

(* What a text should be judged to be, from the lines of the file. *)
Found(line, text) == line.now /\ \A i \in DOMAIN line.parts : Occurrences(text, line.parts[i]) > 0

Weight(lines, text, mode) ==
  LET times(n) == IF mode = 2 THEN 1 ELSE n
      here == {i \in DOMAIN lines : lines[i].type = 1 /\ Found(lines[i], text)}
      combis == {i \in here : Len(lines[i].parts) > 1}
      lowest(i) == Min({Occurrences(text, lines[i].parts[k]) : k \in DOMAIN lines[i].parts})
      singles == {lines[i].parts[1] : i \in here \ combis}
      heaviest(p) == Max({lines[i].weight : i \in {k \in here \ combis : lines[k].parts[1] = p}})
  IN  MapThenSumSet(LAMBDA i : lines[i].weight * times(lowest(i)), combis)
        + MapThenSumSet(LAMBDA p : heaviest(p) * times(Occurrences(text, p)), singles)

Verdict(lines, text, mode, limit) ==
  LET some(t) == \E i \in DOMAIN lines : lines[i].type = t /\ Found(lines[i], text)
  IN  IF some(-1) THEN "exception"
      ELSE IF some(0) \/ Weight(lines, text, mode) > limit THEN "naughty" ELSE "none"

(* The texts a configuration has searched, in order (e2guardian.conf,     *)
(* phrasefiltermode and preservecase).                                     *)
Views(conf, raw) ==
  LET body == IF ~conf.searchterms /\ conf.hex_decode_content THEN hexdecode(raw) ELSE raw
      smart == ~conf.searchterms /\ conf.phrase_filter_mode \in {1, 2}
      flat(pc) == [i \in DOMAIN body |-> Flatten(body[i], pc, smart)]
      round(pc) == (IF smart THEN <<Front(NoHtml(flat(pc)))>> ELSE <<>>)
                   \o (IF conf.phrase_filter_mode \in {0, 2} THEN <<NoTags(flat(pc))>> ELSE <<>>)
  IN  CASE conf.preserve_case = 0 -> round(FALSE)
        [] conf.preserve_case = 1 -> round(TRUE)
        [] conf.preserve_case = 2 -> round(FALSE) \o round(TRUE)

Expected(lines, conf, raw) ==
  LET v == Views(conf, raw)
      said == [i \in DOMAIN v |-> Verdict(lines, v[i], conf.weighted_phrase_mode, conf.limit)]
      decisive == {i \in DOMAIN v : said[i] # "none"}
  IN  IF conf.weighted_phrase_mode = 0 \/ decisive = {} THEN "none" ELSE said[Min(decisive)]

Said(nf) == IF nf.isException THEN "exception" ELSE IF nf.isItNaughty THEN "naughty" ELSE "none"

(* No text searched ends in the middle of a phrase, and the lines with one *)
(* phrase have one time.                                                   *)
Plain(lines, conf, raw) ==
  /\ \A v \in Range(Views(conf, raw)), p \in PhrasesOf(lines) : Straddles(v, p) = 0
  /\ \A i, j \in DOMAIN lines : lines[i].parts = lines[j].parts => lines[i].now = lines[j].now

OneCombination(lines, conf, raw) ==
  \A v \in Range(Views(conf, raw)) :
    Cardinality({i \in DOMAIN lines : Len(lines[i].parts) > 1 /\ Found([lines[i] EXCEPT !.now = TRUE], v)}) <= 1

(* A text is judged by its phrases: an exception phrase or combination    *)
(* found excepts it, else a banned one, or weights above the limit, deny   *)
(* it, whatever the order of the lines and however often a phrase is       *)
(* listed, in every pass the configuration asks for.  Left out: two        *)
(* combinations in one text, of which the second gets a weight by the      *)
(* count of the first (lowest_occurrences), and smart filtering only, of   *)
(* search terms or in two cases, where checkme returns before the pass.    *)
JudgedByItsPhrases ==
  (Answered("phrases") /\ Plain(loaded.file, question.conf, question.text)
     /\ OneCombination(loaded.file, question.conf, question.text)
     /\ ~(question.conf.phrase_filter_mode = 1 /\ (question.conf.searchterms \/ question.conf.preserve_case = 2))) =>
    Said(answer.nf) = Expected(loaded.file, question.conf, question.text)

=============================================================================
