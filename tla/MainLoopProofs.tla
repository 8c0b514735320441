--------------------------- MODULE MainLoopProofs ---------------------------
(***************************************************************************)
(* Proofs about module MainLoop, for any number of handlers, signals and   *)
(* edits of the files.                                                     *)
(***************************************************************************)
EXTENDS MainLoop, FiniteSetTheorems, TLAPS

(* The types of everything but LC_cnt, whose type follows from LCExact.    *)
Types ==
  /\ mpc \in {"top", "load", "groups", "publish", "wait", "tidyup", "killed"}
  /\ ttg \in BOOLEAN
  /\ gentlereload \in BOOLEAN
  /\ reload_cnt \in Nat
  /\ pending \subseteq Signals
  /\ files \in Seq(Verdicts) \ {<<>>}
  /\ config_error \in BOOLEAN
  /\ temp \in [lists : ListSets \cup {NoLists}, loaded_ok : BOOLEAN]
  /\ current_LOC \in ListSets
  /\ ldl \in [Handlers -> ListSets \cup {NoLists}]
  /\ sends \in Nat
  /\ asked \in Nat

(* Lists refer to versions that exist.                                     *)
Read(lists) == lists.itemv \in 1..Len(files) /\ lists.groupv \in 1..Len(files)

GoodLists(lists) == Read(lists) /\ Sound(lists)

(* The lists being loaded are newer than all others, and what has been read  *)
(* of them so far is sound if loaded_ok.                                   *)
Loading ==
  /\ mpc \in {"groups", "publish"} =>
       /\ temp.lists \in ListSets
       /\ temp.lists.id = reload_cnt
       /\ current_LOC.id < reload_cnt
       /\ \A h \in Handlers : ldl[h] # NoLists => ldl[h].id < reload_cnt
       /\ temp.lists.itemv \in 1..Len(files)
       /\ temp.loaded_ok =>
            /\ files[temp.lists.itemv] # "bad"
            /\ abort_on_missing_list => files[temp.lists.itemv] # "noItemList"
  /\ mpc = "publish" /\ temp.loaded_ok => GoodLists(temp.lists)
  /\ mpc \notin {"groups", "publish", "killed"} => temp = NoTemp
  /\ current_LOC.id <= reload_cnt
  /\ \A h \in Handlers : ldl[h] # NoLists => ldl[h].id <= reload_cnt

InForce ==
  /\ GoodLists(current_LOC)
  /\ \A h \in Handlers : ldl[h] # NoLists => GoodLists(ldl[h])

Inv == Types /\ Loading /\ InForce

LEMMA InitInv == Init => Inv
<1> SUFFICES ASSUME Init PROVE Inv
  BY Zenon
<1> USE MainLoopAssumption DEF Init, Lists, ListSets, NoTemp
<1>1. Types
  <2>1. files \in Seq(Verdicts) /\ files # <<>>
    BY DEF Verdicts
  <2>2. ldl \in [Handlers -> ListSets \cup {NoLists}]
    BY Zenon
  <2>3. current_LOC \in ListSets
    BY Zenon
  <2>4. temp \in [lists : ListSets \cup {NoLists}, loaded_ok : BOOLEAN]
    BY Zenon
  <2> QED BY <2>1, <2>2, <2>3, <2>4, Zenon DEF Types
<1>2. Loading /\ InForce
  BY DEF Loading, InForce, GoodLists, Read, Sound
<1> QED BY <1>1, <1>2, Zenon DEF Inv

(* Appending a version changes nothing about the ones already read.        *)
LEMMA EditKeeps ==
  ASSUME Types, NEW v \in Verdicts, files' = Append(files, v)
  PROVE  /\ files' \in Seq(Verdicts) \ {<<>>}
         /\ Len(files') = Len(files) + 1
         /\ \A i \in 1..Len(files) : i \in 1..Len(files') /\ files'[i] = files[i]
  BY DEF Types

LEMMA EditInv ==
  ASSUME Inv, NEW v \in Verdicts, Edit(v)
  PROVE  Inv'
<1> USE DEF Inv
<1>1. /\ files' \in Seq(Verdicts) \ {<<>>}
      /\ \A i \in 1..Len(files) : i \in 1..Len(files') /\ files'[i] = files[i]
  BY EditKeeps, Zenon DEF Edit
<1>2. UNCHANGED <<mpc, ttg, gentlereload, reload_cnt, pending, config_error, temp,
                  current_LOC, ldl, sends, asked>>
  BY Zenon DEF Edit
<1>3. \A L : GoodLists(L) => GoodLists(L)'
  BY <1>1, Zenon DEF GoodLists, Read, Sound
<1>4. Types'
  BY <1>1, <1>2, Zenon DEF Types
<1>5. InForce'
  BY <1>2, <1>3, Zenon DEF InForce
<1>6. Loading'
  BY <1>1, <1>2, <1>3, Zenon DEF Loading
<1> QED BY <1>4, <1>5, <1>6, Zenon

LEMMA NextInv == Inv /\ [Next]_vars => Inv'
<1> SUFFICES ASSUME Inv, [Next]_vars PROVE Inv'
  BY Zenon
<1> USE MainLoopAssumption DEF Inv, GoodLists, Read, Sound
<1>1. ASSUME NEW v \in Verdicts, Edit(v) PROVE Inv'
  BY <1>1, EditInv, Zenon
<1>2. ASSUME NEW sig \in Signals, Send(sig) PROVE Inv'
  BY <1>2 DEF Send, Types, Loading, InForce
<1>3. CASE LoopTop
  BY <1>3, Zenon DEF LoopTop, Types, Loading, InForce
<1>4. CASE LoadItemLists
  <2>1. Len(files) \in 1..Len(files) /\ Len(files) \in Nat
    BY DEF Types
  <2>2. temp' \in [lists : ListSets \cup {NoLists}, loaded_ok : BOOLEAN]
    BY <1>4, <2>1 DEF LoadItemLists, Lists, ListSets, Now, Types
  <2>3. Types'
    BY <1>4, <2>2 DEF LoadItemLists, Types
  <2>4. InForce'
    BY <1>4, Zenon DEF LoadItemLists, InForce
  <2>5. /\ temp'.lists \in ListSets
        /\ temp'.lists.id = reload_cnt'
        /\ temp'.lists.itemv = Len(files)
        /\ temp'.loaded_ok =>
             /\ files[Len(files)] # "bad"
             /\ abort_on_missing_list => files[Len(files)] # "noItemList"
    BY <1>4, <2>1 DEF LoadItemLists, Lists, ListSets, Now, Types
  <2>6. /\ current_LOC.id < reload_cnt'
        /\ \A h \in Handlers : ldl[h] # NoLists => ldl[h].id < reload_cnt'
    BY <1>4 DEF LoadItemLists, Loading, Types, ListSets
  <2>7. Loading'
    BY <1>4, <2>1, <2>5, <2>6, <2>3 DEF LoadItemLists, Loading, Types, ListSets
  <2> QED BY <2>3, <2>4, <2>7, Zenon
<1>5. CASE LoadGroups
  <2>1. Len(files) \in 1..Len(files) /\ Len(files) \in Nat
    BY DEF Types
  <2>2. temp.lists \in ListSets /\ temp.lists.itemv \in 1..Len(files)
    BY <1>5, Zenon DEF LoadGroups, Loading
  <2>3. /\ temp'.lists = [temp.lists EXCEPT !.groupv = Len(files)]
        /\ temp'.lists \in ListSets
        /\ temp'.lists.id = temp.lists.id
        /\ temp'.lists.itemv = temp.lists.itemv
        /\ temp'.lists.groupv = Len(files)
    BY <1>5, <2>1, <2>2, Zenon DEF LoadGroups, ListSets
  <2>4. /\ config_error' \in BOOLEAN
        /\ temp'.loaded_ok \in BOOLEAN
        /\ temp' \in [lists : ListSets \cup {NoLists}, loaded_ok : BOOLEAN]
    BY <1>5, <2>3, Zenon DEF LoadGroups, Types
  <2>5. Types'
    BY <1>5, <2>4, Zenon DEF LoadGroups, Types
  <2>6. InForce'
    BY <1>5, Zenon DEF LoadGroups, InForce
  <2>7. temp'.loaded_ok =>
          /\ temp.loaded_ok
          /\ files[Len(files)] # "bad"
          /\ abort_on_missing_list => files[Len(files)] = "ok"
    <3>1. files[Len(files)] \in Verdicts
      BY <2>1 DEF Types
    <3> QED BY <1>5, <3>1, Zenon DEF LoadGroups, Now, Verdicts
  <2>8. temp'.loaded_ok => GoodLists(temp'.lists)
    BY <1>5, <2>1, <2>2, <2>3, <2>7, Zenon DEF LoadGroups, Loading
  <2>9. Loading'
    BY <1>5, <2>2, <2>3, <2>7, <2>8, Zenon DEF LoadGroups, Loading
  <2> QED BY <2>5, <2>6, <2>9, Zenon
<1>6. CASE Publish
  <2>1. current_LOC' \in ListSets
    BY <1>6, Zenon DEF Publish, Types, Loading
  <2>2. Types'
    BY <1>6, <2>1, Zenon DEF Publish, NoTemp, Types
  <2>3. GoodLists(current_LOC)'
    BY <1>6, Zenon DEF Publish, Loading, InForce
  <2>4. InForce'
    BY <1>6, <2>3, Zenon DEF Publish, InForce
  <2>5. Loading'
    BY <1>6, <2>1 DEF Publish, NoTemp, Loading, Types, ListSets
  <2> QED BY <2>2, <2>4, <2>5, Zenon
<1>7. ASSUME NEW sig \in Signals, TakeSignal(sig) PROVE Inv'
  BY <1>7, Zenon DEF TakeSignal, Types, Loading, InForce
<1>8. CASE WaitTimeout
  BY <1>8, Zenon DEF WaitTimeout, Types, Loading, InForce
<1>9. ASSUME NEW h \in Handlers, TakeLists(h) PROVE Inv'
  BY <1>9 DEF TakeLists, Types, Loading, InForce
<1>10. ASSUME NEW h \in Handlers, ReleaseLists(h) PROVE Inv'
  BY <1>10 DEF ReleaseLists, Types, Loading, InForce
<1>11. CASE UNCHANGED vars
  BY <1>11 DEF vars, Types, Loading, InForce
<1> QED BY <1>1, <1>2, <1>3, <1>4, <1>5, <1>6, <1>7, <1>8, <1>9, <1>10, <1>11, Zenon
        DEF Next, Main

LEMMA SpecInv == Spec => []Inv
  BY InitInv, NextInv, PTL DEF Spec

(* A load that fails never reaches a request: the lists in force and those   *)
(* any request holds were read from files that load, whatever the            *)
(* administrator edits while they are being read.                           *)
THEOREM FailedLoadsNotUsed == Spec => []ListsInForceSound
<1>1. Inv => ListsInForceSound
  BY Zenon DEF Inv, InForce, GoodLists, ListsInForceSound
<1> QED BY <1>1, SpecInv, PTL

-----------------------------------------------------------------------------
(* The count of live sets of lists.  A set under construction is referenced  *)
(* from LoadItemLists on but counted only when its constructor ends.        *)
Counted == Referenced(current_LOC, ldl, IF mpc = "publish" THEN temp ELSE NoTemp)

All == Referenced(current_LOC, ldl, temp)

LEMMA AllFinite ==
  ASSUME NEW cur, NEW held, NEW tmp
  PROVE  IsFiniteSet(Referenced(cur, held, tmp))
<1>1. IsFiniteSet({held[h] : h \in Handlers})
  <2> DEFINE T == {held[h] : h \in Handlers}
             f == [h \in Handlers |-> held[h]]
  <2>1. f \in Surjection(Handlers, T)
    BY Zenon DEF Surjection
  <2> HIDE DEF f, T
  <2>2. IsFiniteSet(T)
    BY <2>1, MainLoopAssumption, FS_Surjection, Zenon
  <2> QED BY <2>2, Zenon DEF T
<1>2. IsFiniteSet({cur} \cup {held[h] : h \in Handlers} \cup {tmp.lists})
  BY <1>1, FS_Singleton, FS_Union, Zenon
<1>3. Referenced(cur, held, tmp)
        \subseteq {cur} \cup {held[h] : h \in Handlers} \cup {tmp.lists}
  BY Zenon DEF Referenced
<1> QED BY <1>2, <1>3, FS_Subset, Zenon

LEMMA LCStep == Inv /\ Inv' /\ LCExact /\ [Next]_vars => LCExact'
<1> SUFFICES ASSUME Inv, Inv', LCExact, [Next]_vars, mpc' # "killed"
             PROVE  LC_cnt' = Cardinality(Counted')
  BY Zenon DEF LCExact, Counted
<1> USE MainLoopAssumption
<1>a. /\ IsFiniteSet(Counted) /\ IsFiniteSet(Counted')
      /\ Cardinality(Counted) \in Nat /\ Cardinality(Counted') \in Nat
  BY AllFinite, FS_CardinalityType, Zenon DEF Counted
<1>b. mpc # "killed" => LC_cnt = Cardinality(Counted)
  BY Zenon DEF LCExact, Counted
<1>1. ASSUME UNCHANGED <<current_LOC, ldl, temp, mpc, LC_cnt>>
      PROVE  LC_cnt' = Cardinality(Counted')
  BY <1>1, <1>b, Zenon DEF Counted, Referenced
<1>2. ASSUME mpc \notin {"publish", "killed"}, mpc' # "publish",
             UNCHANGED <<current_LOC, ldl, LC_cnt>>
      PROVE  LC_cnt' = Cardinality(Counted')
  BY <1>2, <1>b, Zenon DEF Counted
(* A step that only drops references. *)
<1>3. ASSUME mpc # "killed", Counted' \subseteq Counted,
             LC_cnt' = LC_cnt - Cardinality(Counted \ Counted')
      PROVE  LC_cnt' = Cardinality(Counted')
  <2>1. Counted \cap Counted' = Counted'
    BY <1>3, Zenon
  <2>2. Cardinality(Counted \ Counted')
          = Cardinality(Counted) - Cardinality(Counted \cap Counted')
    BY <1>a, FS_Difference, Zenon
  <2> QED BY <1>3, <1>a, <1>b, <2>1, <2>2
<1>4. CASE LoadGroups
  <2>1. Counted' = Counted \cup {temp'.lists} /\ temp'.lists \notin Counted
    <3>1. temp'.lists.id = reload_cnt /\ temp'.lists \in ListSets
      BY <1>4, Zenon DEF LoadGroups, Inv, Loading
    <3>2. \A x \in Counted : x.id < reload_cnt
      BY <1>4 DEF LoadGroups, Inv, Loading, Counted, Referenced, NoTemp, Types,
         ListSets
    <3>3. temp'.lists \notin Counted
      BY <3>1, <3>2 DEF ListSets, Inv, Types
    <3>4. /\ mpc = "groups" /\ mpc' = "publish"
          /\ UNCHANGED <<current_LOC, ldl>>
          /\ temp'.lists # NoLists
      BY <1>4, <3>1, Zenon DEF LoadGroups
    <3>5. Counted' = Counted \cup {temp'.lists}
      BY <3>4, Zenon DEF Counted, Referenced, NoTemp
    <3> QED BY <3>3, <3>5, Zenon
  <2>2. Cardinality(Counted') = Cardinality(Counted) + 1
    BY <1>a, <2>1, FS_AddElement, Zenon
  <2> QED BY <1>4, <1>b, <2>2, Zenon DEF LoadGroups
<1>5. CASE Publish
  <2>1. /\ mpc = "publish" /\ mpc' = "top" /\ temp' = NoTemp /\ ldl' = ldl
        /\ current_LOC' = IF temp.loaded_ok THEN temp.lists ELSE current_LOC
        /\ LC_cnt' = LC_cnt - Destroyed(current_LOC', ldl, NoTemp)
    BY <1>5, Zenon DEF Publish
  <2>2. Counted = All /\ Counted' = Referenced(current_LOC', ldl, NoTemp)
    BY <2>1, Zenon DEF Counted, All
  <2>3. Counted' \subseteq Counted
    BY <2>1, <2>2, Zenon DEF All, Referenced, NoTemp
  <2>4. LC_cnt' = LC_cnt - Cardinality(Counted \ Counted')
    BY <2>1, <2>2, Zenon DEF Destroyed, All
  <2> QED BY <1>3, <2>1, <2>3, <2>4, Zenon
<1>6. ASSUME NEW h \in Handlers, TakeLists(h) \/ ReleaseLists(h)
      PROVE  LC_cnt' = Cardinality(Counted')
  <2>1. /\ mpc # "killed" /\ mpc' = mpc
        /\ UNCHANGED <<current_LOC, temp>>
        /\ ldl' = [ldl EXCEPT ![h] = current_LOC] \/ ldl' = [ldl EXCEPT ![h] = NoLists]
        /\ LC_cnt' = LC_cnt - Destroyed(current_LOC, ldl', temp)
    BY <1>6, Zenon DEF TakeLists, ReleaseLists
  <2>2. Counted' \subseteq Counted
    BY <2>1, Zenon DEF Counted, Referenced, Inv, Types
  <2>3. Counted \ Counted' = All \ Referenced(current_LOC, ldl', temp)
    <3>1. CASE mpc = "publish"
      BY <2>1, <3>1, Zenon DEF Counted, All
    <3>2. CASE mpc = "groups"
      <4>1. \A x \in Counted \cup Counted' : x.id < reload_cnt
        BY <2>1, <3>2 DEF Counted, Referenced, NoTemp, Inv, Types, Loading
      <4>2. temp.lists.id = reload_cnt /\ reload_cnt \in Nat
        BY <3>2, Zenon DEF Inv, Loading, Types
      <4>3. temp.lists \notin Counted \cup Counted'
        BY <4>1, <4>2
      <4>4. /\ All = Counted \cup ({temp.lists} \ {NoLists})
            /\ Referenced(current_LOC, ldl', temp)
                 = Counted' \cup ({temp.lists} \ {NoLists})
        BY <2>1, <3>2, Zenon DEF All, Counted, Referenced, NoTemp
      <4> QED BY <4>3, <4>4, Zenon
    <3>3. CASE mpc \notin {"publish", "groups"}
      BY <2>1, <3>3, Zenon DEF Counted, All, Inv, Loading
    <3> QED BY <3>1, <3>2, <3>3, Zenon
  <2>4. LC_cnt' = LC_cnt - Cardinality(Counted \ Counted')
    BY <2>1, <2>3, Zenon DEF Destroyed, All
  <2> QED BY <1>3, <2>1, <2>2, <2>4, Zenon
<1>7. \/ UNCHANGED <<current_LOC, ldl, temp, mpc, LC_cnt>>
      \/ /\ mpc \notin {"publish", "killed"} /\ mpc' # "publish"
         /\ UNCHANGED <<current_LOC, ldl, LC_cnt>>
      \/ LoadGroups
      \/ Publish
      \/ \E h \in Handlers : TakeLists(h) \/ ReleaseLists(h)
  BY Zenon DEF Next, Main, Edit, Send, LoopTop, LoadItemLists, TakeSignal,
     WaitTimeout, vars
<1> QED BY <1>1, <1>2, <1>4, <1>5, <1>6, <1>7, Zenon

LEMMA LCTypeStep ==
  ASSUME LC_cnt \in Nat, LCExact', [Next]_vars
  PROVE  LC_cnt' \in Nat
<1>1. CASE mpc' # "killed"
  BY <1>1, AllFinite, FS_CardinalityType, Zenon DEF LCExact
<1>2. CASE mpc' = "killed"
  <2>1. LC_cnt' = LC_cnt
    BY <1>2, Zenon DEF Next, Main, Edit, Send, LoopTop, LoadItemLists, LoadGroups,
       Publish, TakeSignal, WaitTimeout, TakeLists, ReleaseLists, vars
  <2> QED BY <2>1, Zenon
<1> QED BY <1>1, <1>2, Zenon

LCCounts == LCExact /\ LC_cnt \in Nat

(* LCcnt is exact after any number of reloads, failed loads and requests, so *)
(* a set of lists that is no longer used is always destroyed.               *)
THEOREM ListsCountExact == Spec => [](TypeOK /\ LCExact)
<1>1. Init => LCCounts
  <2> SUFFICES ASSUME Init PROVE LCExact /\ LC_cnt \in Nat
    BY Zenon DEF LCCounts
  <2>1. Counted = {current_LOC}
    BY MainLoopAssumption DEF Init, Counted, Referenced, NoTemp, Lists, ListSets
  <2>2. LC_cnt = Cardinality(Counted)
    BY <2>1, FS_Singleton, Zenon DEF Init
  <2>3. LCExact
    BY <2>2, Zenon DEF LCExact, Counted
  <2> QED BY <2>3, Zenon DEF Init, LCCounts
<1>2. Inv /\ Inv' /\ LCCounts /\ [Next]_vars => LCCounts'
  <2> SUFFICES ASSUME Inv, Inv', LCExact, LC_cnt \in Nat, [Next]_vars
               PROVE  LCExact' /\ LC_cnt' \in Nat
    BY Zenon DEF LCCounts
  <2>1. LCExact'
    BY LCStep, Zenon
  <2> QED BY <2>1, LCTypeStep, Zenon
<1>3. Spec => []LCCounts
  BY <1>1, <1>2, SpecInv, PTL DEF Spec
<1>4. Inv /\ LCCounts => TypeOK /\ LCExact
  BY Zenon DEF Inv, Types, TypeOK, LCCounts
<1> QED BY <1>3, <1>4, SpecInv, PTL
=============================================================================
