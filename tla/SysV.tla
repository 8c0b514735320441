------------------------------- MODULE SysV --------------------------------
(***************************************************************************)
(* Starting, stopping and replacing the daemon: the command line of        *)
(* src/src/e2guardian.cpp, the pid file of src/src/SysV.cpp and the start- *)
(* up part of fc_controlit (src/src/FatController.cpp).  Invocations of     *)
(* e2guardian run side by side and meet in the file system (the pid file), *)
(* in the kernel (the listening port) and through signals.                 *)
(*                                                                         *)
(* An invocation and the daemon it becomes are one process here: the pid   *)
(* is used by others only once it is written, after the fork.              *)
(***************************************************************************)
EXTENDS Naturals, FiniteSets

CONSTANTS
  Procs,   \* invocations of e2guardian
  None,    \* no process, no file
  Reuse    \* TRUE: the pid of an ended process may be given to another program

ASSUME SysVAssumption ==
  /\ None \notin Procs
  /\ Reuse \in BOOLEAN

VARIABLES
  pc,         \* where each invocation is
  kind,       \* what it was invoked for
  target,     \* the pid getpid(pidfile) gave it
  fd,         \* the file it opened as its pid file, named after its creator
  pidfile,    \* the file that has the name o.pid_filename
  content,    \* the pid written in each file
  listening,  \* who listens on the filter port
  reused,     \* processes whose pid is now that of another program
  overlapped  \* history: a command was given before the one before had ended

vars == <<pc, kind, target, fd, pidfile, content, listening, reused,
          overlapped>>
files == <<fd, pidfile, content>>

Kinds == {"start", "restart", "quit", "reload"}  \* no option, -Q, -q, -r or -g

Daemon == {"running", "stopping", "tidy"}
Settled == Daemon \cup {"unborn", "exited"}

Init ==
  /\ pc = [p \in Procs |-> "unborn"]
  /\ kind = [p \in Procs |-> "start"]
  /\ target = [p \in Procs |-> None]
  /\ fd = [p \in Procs |-> None]
  /\ pidfile = None
  /\ content = [p \in Procs |-> None]
  /\ listening = None
  /\ reused = {}
  /\ overlapped = FALSE

Goto(p, place) == pc' = [pc EXCEPT ![p] = place]

(* The kernel closes the listening socket of a process that ends.          *)
ClosedBy(p) == IF listening = p THEN None ELSE listening

-----------------------------------------------------------------------------
(* ::kill(p, 0) succeeds: the pid exists, whoever has it.                  *)
confirmname(p) == p \in reused \/ pc[p] \notin {"unborn", "exited"}

(* The pid in the file, if there is one and it exists; getpidfromcommand is  *)
(* not implemented and finds nothing.                                      *)
getpid ==
  IF /\ pidfile # None
     /\ content[pidfile] # None
     /\ confirmname(content[pidfile])
  THEN content[pidfile]
  ELSE None

-----------------------------------------------------------------------------
(* The options are read: -q, -r, -g and -Q act at once.                    *)
Launch(p, k) ==
  /\ pc[p] = "unborn"
  /\ overlapped' = (overlapped \/ \E q \in Procs : pc[q] \notin Settled)
  /\ kind' = [kind EXCEPT ![p] = k]
  /\ Goto(p, IF k = "start" THEN "check" ELSE "getpid")
  /\ UNCHANGED <<target, files, listening, reused>>

(* p = getpid(pidfile); if (p <= 1): -q and -r fail, -Q goes on.            *)
FindTarget(p) ==
  /\ pc[p] = "getpid"
  /\ target' = [target EXCEPT ![p] = getpid]
  /\ Goto(p, IF getpid # None THEN "signal"
             ELSE IF kind[p] = "restart" THEN "unlink" ELSE "exited")
  /\ UNCHANGED <<kind, files, listening, reused, overlapped>>

(* Mutant: -Q goes on at once, as -q does.                                 *)
SendSignalNoWait(p) ==
  LET t == target[p] IN
  /\ pc[p] = "signal"
  /\ LET next == IF ~confirmname(t) \/ kind[p] = "reload" THEN "exited"
                 ELSE "unlink"
         told == pc[t] = "running" /\ kind[p] # "reload"
     IN pc' = [pc EXCEPT ![p] = next, ![t] = IF told THEN "stopping" ELSE @]
  /\ UNCHANGED <<kind, target, files, listening, reused, overlapped>>

(* kill(p, SIGTERM) or kill(p, SIGHUP): the process may have ended since.   *)
SendSignal(p) ==
  LET t == target[p] IN
  /\ pc[p] = "signal"
  /\ LET next == IF ~confirmname(t) \/ kind[p] = "reload" THEN "exited"
                 ELSE IF kind[p] = "quit" THEN "unlink" ELSE "waitexit"
         told == pc[t] = "running" /\ kind[p] # "reload"
     IN pc' = [pc EXCEPT ![p] = next, ![t] = IF told THEN "stopping" ELSE @]
  /\ UNCHANGED <<kind, target, files, listening, reused, overlapped>>

(* wait_for_exit finds that the process is gone.                           *)
WaitGone(p) ==
  /\ pc[p] \in {"waitexit", "waitkilled"}
  /\ ~confirmname(target[p])
  /\ Goto(p, "unlink")
  /\ UNCHANGED <<kind, target, files, listening, reused, overlapped>>

(* Mutant: no limit on the wait.                                           *)
WaitTimeoutNever(p) ==
  /\ pc[p] = "waitkilled"
  /\ confirmname(target[p])
  /\ Goto(p, "exited")
  /\ UNCHANGED <<kind, target, files, listening, reused, overlapped>>

(* wait_for_exit times out: SIGKILL after the first wait, failure after the *)
(* second.                                                                 *)
WaitTimeout(p) ==
  /\ pc[p] \in {"waitexit", "waitkilled"}
  /\ confirmname(target[p])
  /\ Goto(p, IF pc[p] = "waitexit" THEN "sigkill" ELSE "exited")
  /\ UNCHANGED <<kind, target, files, listening, reused, overlapped>>

(* kill(p, SIGKILL); if it fails, because the process is gone, so does -Q.  *)
Sigkill(p) ==
  LET t == target[p]
      next == IF confirmname(t) THEN "waitkilled" ELSE "exited"
  IN
  /\ pc[p] = "sigkill"
  /\ IF t \in reused
     THEN Goto(p, next) /\ UNCHANGED listening
     ELSE /\ pc' = [pc EXCEPT ![p] = next, ![t] = "exited"]
          /\ listening' = ClosedBy(t)
  /\ UNCHANGED <<kind, target, files, reused, overlapped>>

(* unlink(pidfile): the end of -q; -Q goes on to start a new copy.          *)
Unlink(p) ==
  /\ pc[p] = "unlink"
  /\ pidfile' = None
  /\ Goto(p, IF kind[p] = "quit" THEN "exited" ELSE "check")
  /\ UNCHANGED <<kind, target, fd, content, listening, reused, overlapped>>

-----------------------------------------------------------------------------
(* sysv_amirunning, before and after the lists are read.                   *)
CheckRunning(p) ==
  /\ pc[p] \in {"check", "recheck"}
  /\ Goto(p, IF getpid \notin {None, p} THEN "exited"
             ELSE IF pc[p] = "check" THEN "recheck" ELSE "rmpid")
  /\ UNCHANGED <<kind, target, files, listening, reused, overlapped>>

(* sysv_openpidfile, first half: unlink(pidfile).                          *)
RemovePidFile(p) ==
  /\ pc[p] = "rmpid"
  /\ pidfile' = None
  /\ Goto(p, "openpid")
  /\ UNCHANGED <<kind, target, fd, content, listening, reused, overlapped>>

(* Second half: open with O_CREAT and without O_EXCL or O_TRUNC; a file    *)
(* another copy has created in between is shared with it.                  *)
OpenPidFile(p) ==
  /\ pc[p] = "openpid"
  /\ pidfile' = IF pidfile = None THEN p ELSE pidfile
  /\ fd' = [fd EXCEPT ![p] = pidfile']
  /\ Goto(p, "bind")
  /\ UNCHANGED <<kind, target, content, listening, reused, overlapped>>

(* bind: with SO_REUSEADDR it fails only if somebody listens on the port.   *)
Bind(p) ==
  /\ pc[p] = "bind"
  /\ Goto(p, IF listening = None THEN "listen" ELSE "exited")
  /\ UNCHANGED <<kind, target, files, listening, reused, overlapped>>

(* Mutant: the port may be shared.                                         *)
ListenShared(p) ==
  /\ pc[p] = "listen"
  /\ Goto(p, "writepid")
  /\ listening' = p
  /\ UNCHANGED <<kind, target, files, reused, overlapped>>

(* listen fails if another socket listens; then daemonise forks.           *)
Listen(p) ==
  /\ pc[p] = "listen"
  /\ IF listening = None
     THEN Goto(p, "writepid") /\ listening' = p
     ELSE Goto(p, "exited") /\ UNCHANGED listening
  /\ UNCHANGED <<kind, target, files, reused, overlapped>>

(* Mutant: the pid is written before the fork, by name.                    *)
WritePidByName(p) ==
  /\ pc[p] \in {"bind", "writepid"}
  /\ content' = [content EXCEPT ![fd[p]] = p]
  /\ Goto(p, IF pc[p] = "bind" THEN "listen" ELSE "running")
  /\ UNCHANGED <<kind, target, fd, pidfile, listening, reused, overlapped>>

(* sysv_writepidfile, through the descriptor: the file may no longer have a *)
(* name.                                                                   *)
WritePid(p) ==
  /\ pc[p] = "writepid"
  /\ content' = [content EXCEPT ![fd[p]] = p]
  /\ Goto(p, "running")
  /\ UNCHANGED <<kind, target, fd, pidfile, listening, reused, overlapped>>

(* The lists do not load, a descriptor, the log file or the fork fails.    *)
StartFails(p) ==
  /\ pc[p] \in {"check", "recheck", "rmpid", "openpid", "bind", "listen", "writepid"}
  /\ Goto(p, "exited")
  /\ listening' = ClosedBy(p)
  /\ UNCHANGED <<kind, target, files, reused, overlapped>>

-----------------------------------------------------------------------------
(* The tidy-up of fc_controlit: the listeners close their sockets, ...     *)
StopListening(p) ==
  /\ pc[p] = "stopping"
  /\ Goto(p, "tidy")
  /\ listening' = ClosedBy(p)
  /\ UNCHANGED <<kind, target, files, reused, overlapped>>

(* Mutant: the daemon removes the pid file when it ends.                   *)
ExitUnlinks(p) ==
  /\ pc[p] \in {"stopping", "tidy"}
  /\ Goto(p, "exited")
  /\ listening' = ClosedBy(p)
  /\ pidfile' = None
  /\ UNCHANGED <<kind, target, fd, content, reused, overlapped>>

(* ... and after two seconds, whether they have or not, the process ends.   *)
(* The pid file is left as it is.                                          *)
Exit(p) ==
  /\ pc[p] \in {"stopping", "tidy"}
  /\ Goto(p, "exited")
  /\ listening' = ClosedBy(p)
  /\ UNCHANGED <<kind, target, files, reused, overlapped>>

(* The daemon is killed, or dies, without a tidy-up.                       *)
Crash(p) ==
  /\ pc[p] = "running"
  /\ Goto(p, "exited")
  /\ listening' = ClosedBy(p)
  /\ UNCHANGED <<kind, target, files, reused, overlapped>>

(* The kernel gives the pid to another program.                            *)
PidReused(p) ==
  /\ Reuse
  /\ pc[p] = "exited"
  /\ \E f \in Procs : content[f] = p
  /\ reused' = reused \cup {p}
  /\ UNCHANGED <<pc, kind, target, files, listening, overlapped>>

-----------------------------------------------------------------------------
Command(p) ==
  \/ FindTarget(p)
  \/ SendSignal(p)
  \/ WaitGone(p)
  \/ WaitTimeout(p)
  \/ Sigkill(p)
  \/ Unlink(p)
  \/ CheckRunning(p)
  \/ RemovePidFile(p)
  \/ OpenPidFile(p)
  \/ Bind(p)
  \/ Listen(p)
  \/ WritePid(p)

Next ==
  \E p \in Procs :
    \/ \E k \in Kinds : Launch(p, k)
    \/ Command(p)
    \/ StartFails(p)
    \/ StopListening(p)
    \/ Exit(p)
    \/ Crash(p)
    \/ PidReused(p)

Spec == Init /\ [][Next]_vars

(* A command goes on; nothing is assumed of the daemons.                   *)
FairSpec == Spec /\ \A p \in Procs : WF_vars(Command(p))

-----------------------------------------------------------------------------
(* The types of the variables.                                             *)
TypeOK ==
  /\ pc \in [Procs -> Settled \cup
       {"getpid", "signal", "waitexit", "sigkill", "waitkilled", "unlink", "check",
        "recheck", "rmpid", "openpid", "bind", "listen", "writepid"}]
  /\ kind \in [Procs -> Kinds]
  /\ target \in [Procs -> Procs \cup {None}]
  /\ fd \in [Procs -> Procs \cup {None}]
  /\ pidfile \in Procs \cup {None}
  /\ content \in [Procs -> Procs \cup {None}]
  /\ listening \in Procs \cup {None}
  /\ reused \subseteq Procs
  /\ overlapped \in BOOLEAN

(* "can't have two copies running!!" (e2guardian.cpp): the checks of the pid *)
(* file can both pass, the port cannot be had by both.                     *)
OneRunning ==
  \A p, q \in Procs : pc[p] = "running" /\ pc[q] = "running" => p = q

(* However starts, restarts and stops overlap, the pid file never leads a   *)
(* signal to a copy other than the one that runs, unless that other is      *)
(* already stopping.                                                       *)
NamesNoOther ==
  \A p \in Procs :
    /\ pc[p] = "running"
    /\ pidfile # None
    /\ content[pidfile] \notin {None, p}
    => pc[content[pidfile]] \in {"stopping", "tidy", "exited"}

(* -Q starts the new copy only when the old one has ended and its port is   *)
(* free ("kill any running copy AND start a new one").                     *)
RestartWaits ==
  \A p \in Procs :
    /\ kind[p] = "restart"
    /\ target[p] # None
    /\ pc[p] \in {"unlink", "check", "recheck", "rmpid", "openpid", "bind", "listen"}
    => pc[target[p]] = "exited" /\ listening # target[p]

(* When commands do not overlap, the pid file names the copy that runs,     *)
(* also if an older one is still stopping, or one crashed before.          *)
RunningNamed ==
  ~overlapped =>
    \A p \in Procs :
      pc[p] = "running" => pidfile # None /\ content[pidfile] = p

(* Every command ends, or becomes the daemon, even if the daemon it waits   *)
(* for does not stop: -Q turns to SIGKILL.                                 *)
CommandEnds ==
  \A p \in Procs : pc[p] = "getpid" ~> pc[p] \in {"running", "exited"}

=============================================================================
