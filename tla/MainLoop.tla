------------------------------ MODULE MainLoop ------------------------------
(***************************************************************************)
(* The main thread between start-up and tidy-up (the loop of fc_controlit, *)
(* src/src/FatController.cpp): it waits for signals, rereads the lists     *)
(* (OptionContainer::createLists, the constructor of LOptionContainer) and *)
(* publishes them to the threads that handle requests, each of which keeps *)
(* the lists it took (currentLists) until it is done with them.            *)
(*                                                                         *)
(* The files an administrator edits are the sequence of their versions, each *)
(* a verdict: how a load that reads them ends.  A load reads the item lists and the story- *)
(* board first and the filter group files after, so it can see two versions.*)
(***************************************************************************)
EXTENDS Integers, Sequences, FiniteSets

CONSTANTS
  Handlers,            \* threads that take the current lists
  Loggers,             \* TRUE: a logger thread was created before the mask
  abort_on_missing_list,
  MaxSends,            \* bound on the signals sent to the process
  MaxEdits,            \* bound on the edits of the files
  NoLists              \* a handler that holds no lists

(* A set of lists: the load that made it and the versions it read of the     *)
(* item lists and of the group files.                                      *)
ListSets == [id : Nat, itemv : Nat, groupv : Nat]

ASSUME MainLoopAssumption ==
  /\ NoLists \notin ListSets
  /\ IsFiniteSet(Handlers)
  /\ Loggers \in BOOLEAN
  /\ abort_on_missing_list \in BOOLEAN
  /\ MaxSends \in Nat
  /\ MaxEdits \in Nat

VARIABLES
  mpc,           \* where the main thread is
  ttg,
  gentlereload,
  reload_cnt,
  pending,       \* signals the kernel holds for the process
  files,         \* verdicts of the versions of the files, the latest last
  config_error,  \* o.config_error
  temp,          \* the LOptionContainer under construction, and loaded_ok
  current_LOC,   \* the published lists
  ldl,           \* the lists each handler holds
  LC_cnt,        \* o.LC_cnt
  sends,         \* signals sent so far
  asked          \* history: latest version when a reload was last asked for

vars == <<mpc, ttg, gentlereload, reload_cnt, pending, files, config_error, temp,
          current_LOC, ldl, LC_cnt, sends, asked>>

Signals == {"HUP", "USR1", "TERM"}

(* How a load ends: an item list or an included phrase file that is missing *)
(* is fatal only with abortiflistmissing, a wrong storyboard or group file  *)
(* always.                                                                 *)
Verdicts == {"ok", "noItemList", "noInclude", "bad"}

Lists(id, itemv, groupv) == [id |-> id, itemv |-> itemv, groupv |-> groupv]

(* How a load of the files as they are now ends.                           *)
Now == files[Len(files)]

NoTemp == [lists |-> NoLists, loaded_ok |-> FALSE]

Init ==
  /\ mpc = "top"
  /\ ttg = FALSE
  /\ gentlereload = FALSE
  /\ reload_cnt = 0
  /\ pending = {}
  /\ files = <<"ok">>
  /\ config_error = FALSE
  /\ temp = NoTemp
  /\ current_LOC = Lists(0, 1, 1)
  /\ ldl = [h \in Handlers |-> NoLists]
  /\ LC_cnt = 1
  /\ sends = 0
  /\ asked = 1

-----------------------------------------------------------------------------
(* The administrator.                                                      *)
Edit(verdict) ==
  /\ Len(files) <= MaxEdits
  /\ files' = Append(files, verdict)
  /\ UNCHANGED <<mpc, ttg, gentlereload, reload_cnt, pending, config_error, temp,
                 current_LOC, ldl, LC_cnt, sends, asked>>

(* Mutant: a handler that sets the flag, as the commented-out sig_hup does.  *)
SendToHandler(sig) ==
  /\ sends < MaxSends
  /\ sends' = sends + 1
  /\ asked' = IF sig \in {"HUP", "USR1"} THEN Len(files) ELSE asked
  /\ gentlereload' = (gentlereload \/ sig \in {"HUP", "USR1"})
  /\ pending' = IF sig = "TERM" THEN pending \cup {sig} ELSE pending
  /\ UNCHANGED <<mpc, ttg, reload_cnt, files, config_error, temp, current_LOC, ldl,
                 LC_cnt>>

(* e2guardian -r, -g or -q sends a signal.  All threads but the loggers, and *)
(* the main thread except while it is in sigtimedwait, block it; no handler *)
(* is installed, so a thread that does not block it ends the process.       *)
Send(sig) ==
  /\ sends < MaxSends
  /\ sends' = sends + 1
  /\ asked' = IF sig \in {"HUP", "USR1"} THEN Len(files) ELSE asked
  /\ IF Loggers /\ mpc # "wait"
     THEN mpc' = "killed" /\ UNCHANGED pending
     ELSE pending' = pending \cup {sig} /\ UNCHANGED mpc
  /\ UNCHANGED <<ttg, gentlereload, reload_cnt, files, config_error, temp,
                 current_LOC, ldl, LC_cnt>>

-----------------------------------------------------------------------------
(* shared_ptr<LOptionContainer>: the sets of lists somebody refers to.      *)
(* Destroying the last reference runs ~LOptionContainer, which counts down  *)
(* LC_cnt.                                                                 *)
Referenced(cur, held, tmp) ==
  ({cur} \cup {held[h] : h \in Handlers} \cup {tmp.lists}) \ {NoLists}

Destroyed(cur, held, tmp) ==
  Cardinality(Referenced(current_LOC, ldl, temp) \ Referenced(cur, held, tmp))

-----------------------------------------------------------------------------
(* while (failurecount < 30 && !ttg && !reloadconfig): failurecount and      *)
(* reloadconfig never change.                                              *)
LoopTop ==
  /\ mpc = "top"
  /\ mpc' = IF ttg THEN "tidyup" ELSE IF gentlereload THEN "load" ELSE "wait"
  /\ UNCHANGED <<ttg, gentlereload, reload_cnt, pending, files, config_error, temp,
                 current_LOC, ldl, LC_cnt, sends, asked>>

(* new LOptionContainer(++reload_cnt): the item lists and the storyboard.   *)
LoadItemLists ==
  /\ mpc = "load"
  /\ mpc' = "groups"
  /\ reload_cnt' = reload_cnt + 1
  /\ temp' = [lists |-> Lists(reload_cnt + 1, Len(files), 0),
              loaded_ok |-> /\ Now # "bad"
                            /\ ~(Now = "noItemList"
                                 /\ abort_on_missing_list)]
  /\ UNCHANGED <<ttg, gentlereload, pending, files, config_error, current_LOC, ldl,
                 LC_cnt, sends, asked>>

(* readFilterGroupConf, only if all was well so far; the phrase lists it     *)
(* reads may set o.config_error, which nothing ever clears.                 *)
LoadGroups ==
  /\ mpc = "groups"
  /\ mpc' = "publish"
  /\ config_error' = (config_error \/ (temp.loaded_ok
                                       /\ Now = "noInclude"))
  /\ temp' = [lists |-> [temp.lists EXCEPT !.groupv = Len(files)],
              loaded_ok |-> /\ temp.loaded_ok
                            /\ Now # "bad"
                            /\ ~(Now = "noItemList"
                                 /\ abort_on_missing_list)
                            /\ ~(abort_on_missing_list /\ config_error')]
  /\ LC_cnt' = LC_cnt + 1
  /\ UNCHANGED <<ttg, gentlereload, reload_cnt, pending, files, current_LOC, ldl,
                 sends, asked>>

(* Mutant: the new lists are published whether or not they loaded.          *)
PublishAlways ==
  /\ mpc = "publish"
  /\ current_LOC' = temp.lists
  /\ temp' = NoTemp
  /\ LC_cnt' = LC_cnt - Destroyed(current_LOC', ldl, NoTemp)
  /\ gentlereload' = FALSE
  /\ mpc' = "top"
  /\ UNCHANGED <<ttg, reload_cnt, pending, files, config_error, ldl, sends, asked>>

(* Mutant: a failed load is not destroyed.                                 *)
PublishLeaks ==
  /\ mpc = "publish"
  /\ current_LOC' = IF temp.loaded_ok THEN temp.lists ELSE current_LOC
  /\ temp' = NoTemp
  /\ LC_cnt' = IF temp.loaded_ok
               THEN LC_cnt - Destroyed(current_LOC', ldl, NoTemp) ELSE LC_cnt
  /\ gentlereload' = FALSE
  /\ mpc' = "top"
  /\ UNCHANGED <<ttg, reload_cnt, pending, files, config_error, ldl, sends, asked>>

(* The end of createLists: under current_loc_mutex the new lists replace the *)
(* old ones, or the new ones are destroyed; then gentlereload = false.      *)
Publish ==
  /\ mpc = "publish"
  /\ current_LOC' = IF temp.loaded_ok THEN temp.lists ELSE current_LOC
  /\ temp' = NoTemp
  /\ LC_cnt' = LC_cnt - Destroyed(current_LOC', ldl, NoTemp)
  /\ gentlereload' = FALSE
  /\ mpc' = "top"
  /\ UNCHANGED <<ttg, reload_cnt, pending, files, config_error, ldl, sends, asked>>

(* sigtimedwait returns a pending signal; then the warnings and statistics. *)
TakeSignal(sig) ==
  /\ mpc = "wait"
  /\ sig \in pending
  /\ pending' = pending \ {sig}
  /\ gentlereload' = (gentlereload \/ sig \in {"HUP", "USR1"})
  /\ ttg' = (ttg \/ sig = "TERM")
  /\ mpc' = "top"
  /\ UNCHANGED <<reload_cnt, files, config_error, temp, current_LOC, ldl, LC_cnt,
                 sends, asked>>

(* sigtimedwait times out after 5 s (or fails).                            *)
WaitTimeout ==
  /\ mpc = "wait"
  /\ pending = {}
  /\ mpc' = "top"
  /\ UNCHANGED <<ttg, gentlereload, reload_cnt, pending, files, config_error, temp,
                 current_LOC, ldl, LC_cnt, sends, asked>>

-----------------------------------------------------------------------------
(* ldl = o.currentLists(), at each request of a connection: what the thread *)
(* held before is released.                                                *)
TakeLists(h) ==
  /\ mpc # "killed"
  /\ ldl' = [ldl EXCEPT ![h] = current_LOC]
  /\ LC_cnt' = LC_cnt - Destroyed(current_LOC, ldl', temp)
  /\ UNCHANGED <<mpc, ttg, gentlereload, reload_cnt, pending, files, config_error,
                 temp, current_LOC, sends, asked>>

(* The ConnectionHandler, or the log record in hand, is done.               *)
ReleaseLists(h) ==
  /\ mpc # "killed"
  /\ ldl[h] # NoLists
  /\ ldl' = [ldl EXCEPT ![h] = NoLists]
  /\ LC_cnt' = LC_cnt - Destroyed(current_LOC, ldl', temp)
  /\ UNCHANGED <<mpc, ttg, gentlereload, reload_cnt, pending, files, config_error,
                 temp, current_LOC, sends, asked>>

-----------------------------------------------------------------------------
Main ==
  \/ LoopTop
  \/ LoadItemLists
  \/ LoadGroups
  \/ Publish
  \/ \E sig \in Signals : TakeSignal(sig)
  \/ WaitTimeout

Next ==
  \/ \E verdict \in Verdicts : Edit(verdict)
  \/ \E sig \in Signals : Send(sig)
  \/ Main
  \/ \E h \in Handlers : TakeLists(h) \/ ReleaseLists(h)

Spec == Init /\ [][Next]_vars

(* The main thread runs; a request, and a connection, ends.  Nothing is      *)
(* assumed of the administrator.                                           *)
FairSpec ==
  /\ Spec
  /\ WF_vars(Main)
  /\ \A h \in Handlers : WF_vars(ReleaseLists(h))

-----------------------------------------------------------------------------
(* The types of the variables.                                             *)
TypeOK ==
  /\ mpc \in {"top", "load", "groups", "publish", "wait", "tidyup", "killed"}
  /\ ttg \in BOOLEAN
  /\ gentlereload \in BOOLEAN
  /\ reload_cnt \in Nat
  /\ pending \subseteq Signals
  /\ files \in Seq(Verdicts) \ {<<>>}
  /\ config_error \in BOOLEAN
  /\ temp \in [lists : ListSets \cup {NoLists}, loaded_ok : BOOLEAN]
  /\ current_LOC \in ListSets
  /\ ldl \in [Handlers -> ListSets \cup {NoLists}]
  /\ LC_cnt \in Nat
  /\ sends \in Nat
  /\ asked \in Nat

(* Whatever fails to load, the lists in force, and those each request uses,  *)
(* were read from files that load ("just continue to use previous lists").   *)
Sound(lists) ==
  /\ files[lists.itemv] # "bad"
  /\ files[lists.groupv] # "bad"
  /\ abort_on_missing_list =>
       /\ files[lists.itemv] # "noItemList"
       /\ files[lists.groupv] = "ok"

ListsInForceSound ==
  /\ Sound(current_LOC)
  /\ \A h \in Handlers : ldl[h] # NoLists => Sound(ldl[h])

(* o.LC_cnt, the LCcnt column of the statistics, is the number of sets of    *)
(* lists somebody still refers to; a load that fails is not counted for ever.*)
LCExact ==
  mpc # "killed" =>
    LC_cnt = Cardinality(
      Referenced(current_LOC, ldl, IF mpc = "publish" THEN temp ELSE NoTemp))

(* A HUP or USR1 is never lost, also not one that comes while the lists are  *)
(* being reread: if the files load and are not edited again, the lists in    *)
(* force become at least as new as the files were when it was sent.          *)
Effective(v) == current_LOC.itemv >= v /\ current_LOC.groupv >= v

ReloadTakesEffect ==
  \A v \in 1..(MaxEdits + 1) :
    (asked = v /\ files[v] = "ok")
      ~> (Effective(v) \/ Len(files) > v \/ ttg \/ config_error)

(* "-r: reloads lists and group config files by issuing a HUP" (the help    *)
(* text): whatever happened in loads before, files that are right now load.  *)
ReloadRecovers ==
  \A v \in 1..(MaxEdits + 1) :
    (asked = v /\ files[v] = "ok") ~> (Effective(v) \/ Len(files) > v \/ ttg)

(* LCcnt "may rise after a gentle restart(s) and should return to one after a*)
(* period of time" (notes/dstats_format).                                  *)
LCReturnsToOne == <>[](LC_cnt = 1)

(* Every reload is carried out, and leaves nothing behind in the end.      *)
ReloadSettles == ReloadTakesEffect /\ LCReturnsToOne

=============================================================================
