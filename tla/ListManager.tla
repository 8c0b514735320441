----------------------------- MODULE ListManager -----------------------------
(***************************************************************************)
(* The lists in memory (ListManager o.lm, src/src/ListManager.cpp) and who *)
(* refers to them.  A load of the lists (the constructor of                *)
(* LOptionContainer) reads the files the configuration names, or uses a    *)
(* list again that an earlier load read, if neither its file nor a file it *)
(* includes has a newer date.  An LOptionContainer that nobody holds any   *)
(* more gives its references back, in whatever thread let go of it last,   *)
(* while the main thread may be loading the next one.  ++ and -- on a      *)
(* reference count are not atomic: a read and a write.                     *)
(*                                                                         *)
(* Administrators edit the files at any time.  The date of a file is the   *)
(* number of its edits.                                                    *)
(***************************************************************************)
EXTENDS Integers, Sequences, FiniteSets, SequencesExt

CONSTANTS
  Confs,          \* configurations: the lists named, in load order
  Kind,           \* "item", "map", "regexp" or "phrase", of each file
  Includes,       \* the files each file includes, in order
  Phrases,        \* the phrase list of the filter group
  Labels,         \* the group a map file gives a user: ByName, or a number
  Numbers,        \* the numbers the group's name can have in the group files
  nlimit,         \* naughtynesslimit, at least 1
  abort_on_missing_list,
  Workers,
  MaxEdits,       \* bound on the edits
  MaxLoads,       \* bound on the loads, the one at the start included
  NULL

(* The group of a map entry before normalisation: a name.                  *)
ByName == 0

Main == "main"
Threads == Workers \cup {Main}
Files == DOMAIN Kind

ASSUME ListManagerAssumption ==
  /\ nlimit \in Nat \ {0}
  /\ Main \notin Workers
  /\ \A f \in Files : Range(Includes[f]) \subseteq Files \ {f}

VARIABLES
  named,     \* the lists the configuration names, which do not change
  disk,      \* each file: its date, and whether it can be read or compiled
  number,    \* the number the group's name has in the group files
  l,         \* o.lm.l
  cur,       \* current_LOC
  held,      \* the lists each worker holds
  mpc,       \* where the main thread is
  job,       \* the list of Conf it is loading
  stack,     \* the lists it is reading: one, and the ones including it
  temp,      \* the LOptionContainer under construction
  ops,       \* the counts each thread still has to change
  reg,       \* the count it has read
  loads, edits

vars == <<named, disk, number, l, cur, held, mpc, job, stack, temp, ops, reg, loads, edits>>
env == <<named, disk, number, edits>>
users == <<cur, held>>
counting == <<ops, reg>>

(* An LOptionContainer: the lists it refers to, and as history the list    *)
(* each reference meant and the dates of the files when its load began.    *)
NoLOC == [id |-> 0, refs |-> <<>>, ok |-> TRUE, start |-> <<>>]

Init ==
  /\ named \in Confs
  /\ disk = [f \in Files |-> [date |-> 1, ok |-> TRUE]]
  /\ number \in Numbers
  /\ l = <<>>
  /\ cur = NoLOC
  /\ held = [t \in Workers |-> NoLOC]
  /\ mpc = "idle" /\ job = 0 /\ stack = <<>> /\ temp = NoLOC
  /\ ops = [t \in Threads |-> <<>>]
  /\ reg = [t \in Threads |-> NULL]
  /\ loads = 0 /\ edits = 0

-----------------------------------------------------------------------------
(* The administrator edits a file, rightly or wrongly, or renumbers the    *)
(* groups.                                                                 *)
Edit(f, ok) ==
  /\ edits < MaxEdits
  /\ f \in Range(named) \cup UNION {Range(Includes[g]) : g \in Range(named)} \cup {Phrases}
  /\ edits' = edits + 1
  /\ disk' = [disk EXCEPT ![f] = [date |-> @.date + 1, ok |-> ok]]
  /\ UNCHANGED <<named, number, l, users, mpc, job, stack, temp, counting, loads>>

Renumber(n) ==
  /\ edits < MaxEdits /\ n # number
  /\ edits' = edits + 1
  /\ number' = n
  /\ UNCHANGED <<named, disk, l, users, mpc, job, stack, temp, counting, loads>>

-----------------------------------------------------------------------------
(* Reference counts: l[i]->refcount++ or --, a read and a write.           *)
Counts(t) == ops[t] # <<>>

ReadCount(t) ==
  /\ Counts(t) /\ reg[t] = NULL
  /\ LET i == Head(ops[t]).slot IN
     IF l[i] = NULL
     THEN ops' = [ops EXCEPT ![t] = Tail(@)] /\ UNCHANGED reg
     ELSE reg' = [reg EXCEPT ![t] = l[i].refcount] /\ UNCHANGED ops
  /\ UNCHANGED <<env, l, users, mpc, job, stack, temp, loads>>

WriteCount(t) ==
  /\ Counts(t) /\ reg[t] # NULL
  /\ LET op == Head(ops[t]) IN
     l' = IF l[op.slot] = NULL THEN l
          ELSE [l EXCEPT ![op.slot].refcount = reg[t] + op.delta]
  /\ ops' = [ops EXCEPT ![t] = Tail(@)]
  /\ reg' = [reg EXCEPT ![t] = NULL]
  /\ UNCHANGED <<env, users, mpc, job, stack, temp, loads>>

(* refList and deRefList: a list and the lists it includes.  An include    *)
(* has none of its own here (Includes is one level deep).                  *)
WithIncludes(i) == <<i>> \o (IF l[i] = NULL THEN <<>> ELSE l[i].more)

Op(s, delta) == [k \in DOMAIN s |-> [slot |-> s[k], delta |-> delta]]

refList(i) == Op(WithIncludes(i), 1)

deRefList(i) == Op(WithIncludes(i), -1)

(* ~LOptionContainer: the phrase lists of its filter groups, then LMeta.   *)
Release(loc) ==
  LET slots(k) == FlattenSeq([r \in DOMAIN loc.refs |->
                    IF (loc.refs[r].kind = "phrase") = k THEN deRefList(loc.refs[r].slot) ELSE <<>>])
  IN  slots(TRUE) \o slots(FALSE)

Drops(loc, t) == [ops EXCEPT ![t] = @ \o Release(loc)]

-----------------------------------------------------------------------------
(* A worker takes the lists in force (currentLists) and lets go of them.   *)
Take(t) ==
  /\ held[t] = NoLOC /\ cur # NoLOC /\ ~Counts(t)
  /\ held' = [held EXCEPT ![t] = cur]
  /\ UNCHANGED <<env, l, cur, mpc, job, stack, temp, counting, loads>>

Drop(t) ==
  /\ held[t] # NoLOC /\ ~Counts(t)
  /\ held' = [held EXCEPT ![t] = NoLOC]
  /\ ops' = IF held[t].id = cur.id \/ \E u \in Workers \ {t} : held[u].id = held[t].id
            THEN ops ELSE Drops(held[t], t)
  /\ UNCHANGED <<env, l, cur, mpc, job, stack, temp, reg, loads>>

-----------------------------------------------------------------------------
(* The main thread loads the lists.                                        *)
Ready(pc) == mpc = pc /\ ~Counts(Main)

StartLoad ==
  /\ Ready("idle") /\ loads < MaxLoads
  /\ loads' = loads + 1
  /\ temp' = [id |-> loads + 1, refs |-> <<>>, ok |-> TRUE, start |-> [f \in Files |-> disk[f].date]]
  /\ mpc' = "look" /\ job' = 1
  /\ UNCHANGED <<env, l, users, stack, counting>>

(* A mutant: only the file itself is looked at, not the ones it includes. *)
upToDateItself(i) == disk[l[i].file].date <= l[i].date

upToDate(i) ==
  \A k \in Range(WithIncludes(i)) : disk[l[k].file].date <= l[k].date

(* previousUseItem.  A phrase list is one for ListManager::newPhraseList,  *)
(* which compares naughtynesslimit, a member that is never assigned.       *)
Reusable(f) ==
  {i \in DOMAIN l : /\ l[i] # NULL
                    /\ l[i].file = f
                    /\ IF Kind[f] = "phrase" THEN l[i].naughtynesslimit = nlimit /\ disk[f].date <= l[i].date
                       ELSE upToDate(i)}

(* findNULL, or push_back. *)
Slot == IF \E i \in DOMAIN l : l[i] = NULL
        THEN CHOOSE i \in DOMAIN l : l[i] = NULL /\ \A j \in 1 .. i - 1 : l[j] # NULL
        ELSE Len(l) + 1

At(i, list) == IF i > Len(l) THEN Append(l, list) ELSE [l EXCEPT ![i] = list]

New(f) == [file |-> f, date |-> disk[f].date, content |-> 0, ok |-> TRUE, more |-> <<>>, refcount |-> 1,
           group |-> IF Kind[f] = "map" THEN Labels[f] ELSE NULL, naughtynesslimit |-> 0]

Ref(i) == [slot |-> i, kind |-> Kind[l[i].file], file |-> l[i].file, content |-> l[i].content]

(* The file the main thread needs next: an include of the list on top of  *)
(* the stack, or the next one of the configuration.                        *)
Wanted == IF stack = <<>> THEN named[job] ELSE Includes[Last(stack).file][Last(stack).next]

(* Back in the caller, callers on the stack, with the list in slot i:      *)
(* ifsreadItemList goes on with the next line, or load_type with the next  *)
(* list.  A regular expression that does not compile fails with the        *)
(* reference kept (readRegExMatchFile).                                    *)
Returns(i, callers) ==
  IF callers = <<>>
  THEN /\ temp' = IF Kind[l[i].file] = "regexp" /\ ~l[i].ok
                  THEN [temp EXCEPT !.ok = @ /\ ~abort_on_missing_list]
                  ELSE [temp EXCEPT !.refs = Append(@, Ref(i))]
       /\ job' = job + 1
       /\ mpc' = IF job = Len(named) THEN "groups" ELSE "look"
       /\ stack' = <<>>
       /\ UNCHANGED l
  ELSE /\ l' = [l EXCEPT ![Last(callers).slot].more = Append(@, i)]
       /\ stack' = [callers EXCEPT ![Len(callers)].next = @ + 1]
       /\ mpc' = "lines"
       /\ UNCHANGED <<temp, job>>

(* newItemList finds a list it can use again. *)
Reuse ==
  /\ Ready("look")
  /\ \E i \in Reusable(Wanted) :
       /\ \A j \in Reusable(Wanted) : i <= j
       /\ ops' = [ops EXCEPT ![Main] = refList(i)]
       /\ Returns(i, stack)
  /\ UNCHANGED <<env, users, reg, loads>>

(* newItemList makes a new one; readItemList takes the date of the file. *)
NewList ==
  /\ Ready("look") /\ Reusable(Wanted) = {}
  /\ l' = At(Slot, New(Wanted))
  /\ stack' = Append(stack, [slot |-> Slot, file |-> Wanted, next |-> 1])
  /\ mpc' = "open"
  /\ UNCHANGED <<env, users, job, temp, counting, loads>>

(* The file is read; one that cannot be, or has a wrong line, fails. *)
Open ==
  /\ Ready("open")
  /\ LET top == Last(stack) IN
     IF disk[top.file].ok \/ Kind[top.file] = "regexp"
     THEN /\ l' = [l EXCEPT ![top.slot].content = disk[top.file].date, ![top.slot].ok = disk[top.file].ok]
          /\ mpc' = "lines"
     ELSE mpc' = "fail" /\ UNCHANGED l
  /\ UNCHANGED <<env, users, job, stack, temp, counting, loads>>

Include ==
  /\ Ready("lines") /\ Last(stack).next <= Len(Includes[Last(stack).file])
  /\ mpc' = "look"
  /\ UNCHANGED <<env, l, users, job, stack, temp, counting, loads>>

EndOfFile ==
  /\ Ready("lines") /\ Last(stack).next > Len(Includes[Last(stack).file])
  /\ Returns(Last(stack).slot, Front(stack))
  /\ UNCHANGED <<env, users, counting, loads>>

(* delete l[free]: ListContainer::reset gives back the lists it included; *)
(* the list that includes this one fails as well.                          *)
Fail ==
  /\ Ready("fail")
  /\ LET i == Last(stack).slot IN
     /\ ops' = [ops EXCEPT ![Main] = Op(l[i].more, -1)]
     /\ l' = [l EXCEPT ![i] = NULL]
  /\ stack' = Front(stack)
  /\ IF Len(stack) > 1
     THEN mpc' = "fail" /\ UNCHANGED <<job, temp>>
     ELSE /\ temp' = [temp EXCEPT !.ok = @ /\ ~abort_on_missing_list]
          /\ job' = job + 1
          /\ mpc' = IF job = Len(named) THEN "groups" ELSE "look"
  /\ UNCHANGED <<env, users, reg, loads>>

(* readFilterGroupConf, if all is well so far: newPhraseList looks at the  *)
(* date of the phrase file and makes a list or uses one again.             *)
Groups ==
  /\ Ready("groups") /\ temp.ok
  /\ IF Reusable(Phrases) = {}
     THEN /\ l' = At(Slot, New(Phrases))
          /\ stack' = <<[slot |-> Slot, file |-> Phrases, next |-> 1]>>
          /\ mpc' = "phrases"
          /\ UNCHANGED <<temp, ops>>
     ELSE /\ \E i \in Reusable(Phrases) :
               /\ \A j \in Reusable(Phrases) : i <= j
               /\ temp' = [temp EXCEPT !.refs = Append(@, Ref(i))]
               /\ ops' = [ops EXCEPT ![Main] = refList(i)]
          /\ mpc' = "names"
          /\ UNCHANGED <<l, stack>>
  /\ UNCHANGED <<env, users, job, reg, loads>>

NoGroups ==
  /\ Ready("groups") /\ ~temp.ok
  /\ mpc' = "publish"
  /\ UNCHANGED <<env, l, users, job, stack, temp, counting, loads>>

(* readbplfile reads the phrase list.  If it cannot, the list stays, with  *)
(* its reference, and the group fails.                                     *)
ReadPhrases ==
  /\ Ready("phrases")
  /\ LET i == Last(stack).slot IN
     IF disk[Phrases].ok
     THEN /\ l' = [l EXCEPT ![i].content = disk[Phrases].date]
          /\ temp' = [temp EXCEPT !.refs = Append(@, [Ref(i) EXCEPT !.content = disk[Phrases].date])]
          /\ mpc' = "names"
     ELSE /\ temp' = [temp EXCEPT !.ok = FALSE]
          /\ mpc' = "publish"
          /\ UNCHANGED l
  /\ stack' = <<>>
  /\ UNCHANGED <<env, users, job, counting, loads>>

(* A mutant: every entry gets the number of its name again. *)
NamesAgain ==
  /\ Ready("names")
  /\ l' = [i \in DOMAIN l |-> IF \E r \in Range(temp.refs) : r.slot = i /\ r.kind = "map"
                              THEN [l[i] EXCEPT !.group = number] ELSE l[i]]
  /\ mpc' = "publish"
  /\ UNCHANGED <<env, users, job, stack, temp, counting, loads>>

(* normaliseAuthMapGroups: the name of a group in a map becomes the number *)
(* it has now; a number stays.                                             *)
Names ==
  /\ Ready("names")
  /\ l' = [i \in DOMAIN l |-> IF /\ \E r \in Range(temp.refs) : r.slot = i /\ r.kind = "map"
                                 /\ l[i].group = ByName
                              THEN [l[i] EXCEPT !.group = number] ELSE l[i]]
  /\ mpc' = "publish"
  /\ UNCHANGED <<env, users, job, stack, temp, counting, loads>>

(* A mutant: garbageCollect at the end of every load. *)
PublishCollects ==
  /\ Ready("publish")
  /\ IF temp.ok
     THEN /\ cur' = temp
          /\ ops' = IF \E t \in Workers : held[t].id = cur.id THEN ops ELSE Drops(cur, Main)
     ELSE /\ ops' = Drops(temp, Main)
          /\ UNCHANGED cur
  /\ mpc' = IF temp.ok \/ loads > 1 THEN "start" ELSE "exit"
  /\ temp' = NoLOC
  /\ UNCHANGED <<env, l, held, job, stack, reg, loads>>

(* createLists: the new lists come in force, or are destroyed.  A program  *)
(* that cannot load its lists at the start ends.                           *)
Publish ==
  /\ Ready("publish")
  /\ IF temp.ok
     THEN /\ cur' = temp
          /\ ops' = IF \E t \in Workers : held[t].id = cur.id THEN ops ELSE Drops(cur, Main)
          /\ mpc' = IF loads = 1 THEN "start" ELSE "idle"
     ELSE /\ ops' = Drops(temp, Main)
          /\ mpc' = IF loads = 1 THEN "exit" ELSE "idle"
          /\ UNCHANGED cur
  /\ temp' = NoLOC
  /\ UNCHANGED <<env, l, held, job, stack, reg, loads>>

(* garbageCollect, which only the start of fc_controlit calls. *)
garbageCollect ==
  /\ Ready("start")
  /\ l' = [i \in DOMAIN l |-> IF l[i] # NULL /\ l[i].refcount < 1 THEN NULL ELSE l[i]]
  /\ mpc' = "idle"
  /\ UNCHANGED <<env, users, job, stack, temp, counting, loads>>

Next ==
  \/ \E f \in Files, ok \in BOOLEAN : Edit(f, ok)
  \/ \E n \in Numbers : Renumber(n)
  \/ \E t \in Threads : ReadCount(t) \/ WriteCount(t)
  \/ \E t \in Workers : Take(t) \/ Drop(t)
  \/ StartLoad \/ Reuse \/ NewList \/ Open \/ Include \/ EndOfFile \/ Fail
  \/ Groups \/ NoGroups \/ ReadPhrases \/ Names \/ Publish \/ garbageCollect

Spec == Init /\ [][Next]_vars

-----------------------------------------------------------------------------
InUse == {cur, temp} \cup Range(held)

(* HeldListsAreKept: a list that some LOptionContainer in use refers to is *)
(* in memory and is the list it was when the reference was made, whatever  *)
(* the counts have become: the main thread and the workers change them     *)
(* with no lock (ListManager.cpp:78 and :88), and a count can be one less  *)
(* than the references.                                                    *)
HeldListsAreKept ==
  \A loc \in InUse : \A r \in Range(loc.refs) :
    /\ l[r.slot] # NULL
    /\ l[r.slot].file = r.file /\ l[r.slot].content = r.content
    /\ \A k \in Range(l[r.slot].more) : l[k] # NULL

(* AsNewAsTheLoad: the lists in force, with the lists they include, have   *)
(* the contents the files had when their load began, or newer ones,        *)
(* whichever files are edited while it runs and whatever was used again.   *)
AsNewAsTheLoad ==
  \A loc \in {cur} \cup Range(held) : \A r \in Range(loc.refs) :
    \A k \in Range(WithIncludes(r.slot)) : l[k].content >= loc.start[l[k].file]

(* MapsInForceAreNotWritten: giving the groups of a map their numbers      *)
(* (normaliseDataMapGroups) writes to no map that a request may be         *)
(* searching.                                                              *)
MapsInForceAreNotWritten ==
  [][\A loc \in {cur} \cup Range(held) : \A r \in Range(loc.refs) :
       l'[r.slot].group = l[r.slot].group]_vars
=============================================================================
