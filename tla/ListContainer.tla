---------------------------- MODULE ListContainer ----------------------------
(***************************************************************************)
(* What a list finds (src/src/ListContainer.cpp, ListMeta.cpp): item lists *)
(* are sorted once and searched with a binary search that compares from    *)
(* the start or from the end of a string; IP lists hold addresses, ranges  *)
(* and subnets; maps give the group of a user or of an address.            *)
(*                                                                         *)
(* A string is a sequence of character codes.  A character written in a    *)
(* URL as %xx is its code plus Encoded.                                    *)
(***************************************************************************)
EXTENDS Integers, Sequences, FiniteSets, SequencesExt, FiniteSetsExt, Bitwise

CONSTANTS
  Bits,            \* width of an address
  filter_groups,   \* o.filter_groups
  None

Dot == 46
Slash == 47
Question == 63
Ampersand == 38
Equals == 61
Encoded == 1000

-----------------------------------------------------------------------------
(* Comparators.                                                            *)
Separator == {Slash, Question, Ampersand, Equals}

Smaller(m, n) == IF m < n THEN m ELSE n

(* The sign of the first difference within the shorter of two strings. *)
FirstDifference(a, b) ==
  LET d == {i \in 1 .. Smaller(Len(a), Len(b)) : a[i] # b[i]}
  IN  IF d = {} THEN 0 ELSE IF a[Min(d)] > b[Min(d)] THEN 1 ELSE -1

greaterThanSWF(a, b) ==
  IF FirstDifference(a, b) # 0 THEN FirstDifference(a, b)
  ELSE IF Len(a) > Len(b) THEN 1 ELSE IF Len(a) < Len(b) THEN -1 ELSE 0

greaterThanEWF(a, b) == greaterThanSWF(Reverse(a), Reverse(b))

greaterThanSW(a, b) ==
  IF FirstDifference(a, b) # 0 THEN FirstDifference(a, b)
  ELSE IF Len(a) > Len(b) /\ a[Len(b) + 1] \notin Separator THEN 1
  ELSE IF Len(b) > Len(a) THEN -1 ELSE 0

greaterThanEW(a, b) ==
  LET d == FirstDifference(Reverse(a), Reverse(b))
  IN  IF d # 0 THEN d ELSE IF Len(b) > Len(a) THEN -1 ELSE 0

(* doSort: the greatest first; a list is sorted once. *)
lessThanSWF(a, b) == greaterThanSWF(a, b) = 1

lessThanEWF(a, b) == greaterThanEWF(a, b) = 1

doSort(items, startsWith) ==
  IF startsWith THEN SortSeq(items, lessThanSWF) ELSE SortSeq(items, lessThanEWF)

(* search: indexes count from 0; a negative one says where p would be. *)
search(comparitor(_, _), list, p) ==
  LET at[a \in 0 .. Len(list), s \in -1 .. Len(list)] ==
        LET m == (a + s) \div 2
            r == comparitor(p, list[m + 1])
        IN  IF a > s THEN -1 - a
            ELSE IF r = 0 THEN m
            ELSE IF r = -1 THEN at[m + 1, s]
            ELSE IF a = s THEN -1 - a
            ELSE at[a, m - 1]
  IN  at[0, Len(list) - 1]

-----------------------------------------------------------------------------
(* A time band: hours and minutes on some days. *)
isNow(b, t) ==
  /\ t.day \in b.days
  /\ ~(t.hour < b.sthour)
  /\ ~(t.hour > b.endhour)
  /\ t.hour = b.sthour => ~(t.min < b.stmin)
  /\ t.hour = b.endhour => ~(t.min > b.endmin)

(* A file with its items, a time band or none, and the files it includes;  *)
(* the list it makes, seen at time t.                                      *)
Now(band, t) == band = None \/ isNow(band, t)

Sorted(file, t) ==
  LET one(f, more) == [items |-> doSort(f.items, file.startswith), isSW |-> file.startswith,
                       now |-> Now(f.band, t), more |-> more]
  IN  one(file, [i \in DOMAIN file.more |-> one(file.more[i], <<>>)])

(* The item found in the list itself, or in the first included list that   *)
(* has one: ListContainer::find... with the comparator given.              *)
Find(comparitor(_, _), list, p) ==
  LET own(li) == LET r == search(comparitor, li.items, p)
                 IN  IF ~li.now \/ li.items = <<>> \/ r < 0 THEN None ELSE li.items[r + 1]
      in == {i \in DOMAIN list.more : own(list.more[i]) # None}
  IN  IF own(list) # None THEN own(list)
      ELSE IF list.now /\ in # {} THEN own(list.more[Min(in)]) ELSE None

findInList(list, p) ==
  IF list.isSW THEN Find(greaterThanSWF, list, p) ELSE Find(greaterThanEWF, list, p)

findStartsWith(list, p) == Find(greaterThanSW, list, p)

findEndsWith(list, p) == Find(greaterThanEW, list, p)

-----------------------------------------------------------------------------
(* Strings (src/src/String.cpp).                                           *)
after(s, c) == IF c \in Range(s) THEN SubSeq(s, Min({i \in DOMAIN s : s[i] = c}) + 1, Len(s)) ELSE <<>>

before(s, c) == IF c \in Range(s) THEN SubSeq(s, 1, Min({i \in DOMAIN s : s[i] = c}) - 1) ELSE <<>>

hexDecode(s) == [i \in DOMAIN s |-> s[i] % Encoded]

(* realPath: out is what has been kept when character i is next. *)
realPath(s) ==
  LET char(i) == IF i > Len(s) THEN 0 ELSE s[i]
      Up(out) == LET cut == IF out = <<>> THEN out ELSE Front(out)
                     slashes == {i \in DOMAIN cut : cut[i] = Slash}
                 IN  IF slashes = {} THEN <<>> ELSE SubSeq(cut, 1, Max(slashes) - 1)
      step[i \in 1 .. Len(s) + 2] ==
        IF i = 1 THEN [out |-> <<>>, skip |-> FALSE]
        ELSE LET prev == step[i - 1]
                 b == char(i - 1)
                 c == char(i)
                 d == char(i + 1)
             IN  IF prev.skip THEN [out |-> prev.out, skip |-> FALSE]
                 ELSE IF b = 0 \/ (b = Slash /\ c = Slash) \/ (b = Dot /\ c \in {0, Slash}) THEN prev
                 ELSE IF b = Dot /\ c = Dot /\ d \in {0, Slash} THEN [out |-> Up(prev.out), skip |-> TRUE]
                 ELSE [out |-> Append(prev.out, b), skip |-> FALSE]
  IN  IF Len(s) < 3 THEN s ELSE step[Len(s) + 1].out

(* inSiteList: the host, then the domains above it, then .tld. *)
inSiteList(list, host, site_wild) ==
  LET up[n \in 0 .. Len(host)] == IF n = 0 THEN host ELSE after(up[n - 1], Dot)
      dots == Cardinality({i \in DOMAIN host : host[i] = Dot})
      hits == {n \in 0 .. dots - 1 : findInList(list, up[n]) # None}
      rest == IF site_wild THEN up[dots] ELSE host
      last == IF Dot \notin Range(rest) /\ Len(rest) > 1 THEN <<Dot>> \o rest ELSE rest
  IN  IF site_wild /\ hits # {} THEN findInList(list, up[Min(hits)])
      ELSE IF Len(last) > 2 THEN findInList(list, last) ELSE None

(* inURLList: a URL without its path tricks, then with the host's domains. *)
Normal(url) ==
  LET path == realPath(hexDecode(<<Slash>> \o after(url, Slash)))
      whole == IF Slash \in Range(url) THEN before(url, Slash) \o path ELSE url
  IN  IF whole # <<>> /\ Last(whole) = Slash THEN Front(whole) ELSE whole

Matches(item, url) == Len(url) <= Len(item) \/ url[Len(item) + 1] \in Separator

(* The part of a URL that must have a dot: url.before("/"), which is empty *)
(* for a URL that is only a host.                                          *)
inURLList(list, url, site_wild) ==
  LET n == Normal(url)
      up[k \in 0 .. Len(n)] == IF k = 0 THEN n ELSE after(up[k - 1], Dot)
      dots == Cardinality({i \in DOMAIN before(n, Slash) : n[i] = Dot})
      tries == 0 .. (IF site_wild THEN dots - 1 ELSE Smaller(dots - 1, 0))
      hits == {k \in tries : findStartsWith(list, up[k]) # None /\ Matches(findStartsWith(list, up[k]), up[k])}
  IN  IF hits = {} THEN None ELSE findStartsWith(list, up[Min(hits)])

-----------------------------------------------------------------------------
(* IP lists.  An entry is an address, a subnet with its mask, a subnet in  *)
(* CIDR form, or a range.                                                  *)
AllOnes == 2 ^ Bits - 1

(* 0xFFFFFFFF << (32 - m), in the width of an address. *)
CIDRMask(m) == IF m = 0 THEN 0 ELSE (AllOnes * 2 ^ (Bits - m)) % 2 ^ Bits

Subnets(entries) ==
  LET mask(e) == IF e.kind = "cidr" THEN CIDRMask(e.m) ELSE e.mask
      in == SelectSeq(entries, LAMBDA e : e.kind = "mask" \/ (e.kind = "cidr" /\ e.m \in 0 .. Bits))
  IN  [i \in DOMAIN in |-> [mask |-> mask(in[i]), maskedaddr |-> in[i].addr & mask(in[i]), group |-> in[i].group]]

Ranges(entries) == SelectSeq(entries, LAMBDA e : e.kind = "range")

Before(e, f) == e.addr < f.addr

Addresses(entries) == SortSeq(SelectSeq(entries, LAMBDA e : e.kind = "ip"), Before)

addToIPList(entries) ==
  [iplist |-> Addresses(entries), iprangelist |-> Ranges(entries), ipsubnetlist |-> Subnets(entries)]

(* A mutant: the end of a range is not in it. *)
InRangeOpen(r, ip) == r.start <= ip /\ ip < r.end

InRange(r, ip) == r.start <= ip /\ ip <= r.end

InSubnet(s, ip) == s.maskedaddr = (ip & s.mask)

inIPList(list, ip) ==
  \/ \E i \in DOMAIN list.iplist : list.iplist[i].addr = ip
  \/ \E i \in DOMAIN list.iprangelist : InRange(list.iprangelist[i], ip)
  \/ \E i \in DOMAIN list.ipsubnetlist : InSubnet(list.ipsubnetlist[i], ip)

(* addToIPMap leaves out an entry whose group does not exist; a special    *)
(* group (Special) is kept without a number.                               *)
Special == -1

addToIPMap(entries) ==
  addToIPList(SelectSeq(entries, LAMBDA e : e.group = Special \/ e.group \in 1 .. filter_groups))

(* The list of addresses is sorted upwards. *)
Compare(p, e) == IF e.addr = p THEN 0 ELSE IF e.addr < p THEN -1 ELSE 1

searchIPMap(list, ip) ==
  LET r == search(Compare, list, ip) IN IF list = <<>> \/ r < 0 THEN None ELSE list[r + 1].group

FirstGroup(list, Test(_, _), ip) ==
  LET in == {i \in DOMAIN list : Test(list[i], ip)}
  IN  IF in = {} THEN None ELSE list[Min(in)].group

(* getIPMapData: addresses, then subnets, then ranges. *)
getIPMapData(map, ip) ==
  LET exact == searchIPMap(map.iplist, ip)
      subnet == FirstGroup(map.ipsubnetlist, InSubnet, ip)
  IN  IF exact # None THEN exact
      ELSE IF subnet # None THEN subnet
      ELSE FirstGroup(map.iprangelist, InRange, ip)

=============================================================================
