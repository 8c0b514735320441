----------------------------- MODULE SysVProofs -----------------------------
(***************************************************************************)
(* Proofs about module SysV, for any number of invocations.                *)
(***************************************************************************)
EXTENDS SysV, TLAPS

(* Those that hold the port.  The pid in a file belongs to a process that   *)
(* had the port when it wrote it; until it is told to stop, or ends, it     *)
(* still has it.                                                           *)
PortHeld ==
  /\ \A p \in Procs : pc[p] \in {"writepid", "running"} => listening = p
  /\ listening # None => pc[listening] \in {"writepid", "running", "stopping"}

Written ==
  \A f \in Procs : content[f] # None =>
    pc[content[f]] \in {"running", "stopping", "tidy", "exited"}

(* Between the moments it opens its pid file and uses it, a copy has one;   *)
(* a signal is sent to somebody, once a daemon.                            *)
Opened ==
  \A p \in Procs : pc[p] \in {"bind", "listen", "writepid"} => fd[p] # None

Aimed ==
  /\ \A p \in Procs : pc[p] \in {"signal", "waitexit", "sigkill", "waitkilled"} =>
       target[p] # None
  /\ \A p \in Procs : target[p] # None =>
       pc[target[p]] \in {"running", "stopping", "tidy", "exited"}

Inv == TypeOK /\ PortHeld /\ Written /\ Opened /\ Aimed

LEMMA InitInv == Init => Inv
  BY SysVAssumption, ZenonT(60) DEF Init, Inv, TypeOK, PortHeld, Written, Opened, Aimed,
     Settled, Daemon, Kinds

(* The steps in which one process moves and may close its listening socket. *)
LEMMA StepInv ==
  ASSUME Inv, [Next]_vars
  PROVE  Inv'
<1> USE SysVAssumption DEF Goto, ClosedBy, files
<1> USE DEF Settled, Daemon, Kinds
<1>0. CASE UNCHANGED vars
  BY <1>0, Zenon DEF vars, Inv, TypeOK, PortHeld, Written, Opened, Aimed
<1> SUFFICES ASSUME NEW p \in Procs,
                    \/ \E k \in Kinds : Launch(p, k)
                    \/ Command(p)
                    \/ StartFails(p)
                    \/ StopListening(p)
                    \/ Exit(p)
                    \/ Crash(p)
                    \/ PidReused(p)
             PROVE  Inv'
  BY <1>0, Zenon DEF Next
<1>1. CASE \E k \in Kinds : Launch(p, k)
  BY <1>1 DEF Launch, Inv, TypeOK, PortHeld, Written, Opened, Aimed
<1>2. CASE FindTarget(p)
  BY <1>2, ZenonT(60) DEF FindTarget, getpid, Inv, TypeOK, PortHeld, Written, Opened, Aimed
<1>3. CASE SendSignal(p)
  BY <1>3 DEF SendSignal, Inv, TypeOK, PortHeld, Written, Opened, Aimed
<1>4. CASE WaitGone(p)
  BY <1>4 DEF WaitGone, Inv, TypeOK, PortHeld, Written, Opened, Aimed
<1>5. CASE WaitTimeout(p)
  BY <1>5 DEF WaitTimeout, Inv, TypeOK, PortHeld, Written, Opened, Aimed
<1>6. CASE Sigkill(p)
  BY <1>6 DEF Sigkill, Inv, TypeOK, PortHeld, Written, Opened, Aimed
<1>7. CASE Unlink(p)
  BY <1>7, ZenonT(60) DEF Unlink, Inv, TypeOK, PortHeld, Written, Opened, Aimed
<1>8. CASE CheckRunning(p)
  BY <1>8 DEF CheckRunning, Inv, TypeOK, PortHeld, Written, Opened, Aimed
<1>9. CASE RemovePidFile(p)
  BY <1>9 DEF RemovePidFile, Inv, TypeOK, PortHeld, Written, Opened, Aimed
<1>10. CASE OpenPidFile(p)
  BY <1>10 DEF OpenPidFile, Inv, TypeOK, PortHeld, Written, Opened, Aimed
<1>11. CASE Bind(p)
  BY <1>11 DEF Bind, Inv, TypeOK, PortHeld, Written, Opened, Aimed
<1>12. CASE Listen(p)
  BY <1>12 DEF Listen, Inv, TypeOK, PortHeld, Written, Opened, Aimed
<1>13. CASE WritePid(p)
  BY <1>13 DEF WritePid, Inv, TypeOK, PortHeld, Written, Opened, Aimed
<1>14. CASE StartFails(p)
  BY <1>14 DEF StartFails, Inv, TypeOK, PortHeld, Written, Opened, Aimed
<1>15. CASE StopListening(p)
  BY <1>15 DEF StopListening, Inv, TypeOK, PortHeld, Written, Opened, Aimed
<1>16. CASE Exit(p)
  BY <1>16 DEF Exit, Inv, TypeOK, PortHeld, Written, Opened, Aimed
<1>17. CASE Crash(p)
  BY <1>17 DEF Crash, Inv, TypeOK, PortHeld, Written, Opened, Aimed
<1>18. CASE PidReused(p)
  BY <1>18, ZenonT(60) DEF PidReused, Inv, TypeOK, PortHeld, Written, Opened, Aimed
<1> QED
  BY <1>1, <1>2, <1>3, <1>4, <1>5, <1>6, <1>7, <1>8, <1>9, <1>10, <1>11, <1>12, Zenon,
     <1>13, <1>14, <1>15, <1>16, <1>17, <1>18 DEF Command

LEMMA SpecInv == Spec => []Inv
  BY InitInv, StepInv, PTL DEF Spec

(* Two copies of the daemon never run at once, however many are started and  *)
(* whatever becomes of the pid file: the port decides.                     *)
THEOREM OneCopyRuns == Spec => []OneRunning
<1>1. Inv => OneRunning
  BY Zenon DEF Inv, PortHeld, OneRunning
<1> QED BY <1>1, SpecInv, PTL

(* While a copy runs, the pid in the pid file is its own or that of a copy   *)
(* that is stopping or has ended: a signal sent by it reaches no other       *)
(* running copy.                                                           *)
THEOREM PidFileNamesNoOther == Spec => []NamesNoOther
<1>1. Inv => NamesNoOther
  BY Zenon DEF Inv, TypeOK, PortHeld, Written, NamesNoOther
<1> QED BY <1>1, SpecInv, PTL

LEMMA RestartStep == Inv /\ RestartWaits /\ [Next]_vars => RestartWaits'
<1> SUFFICES ASSUME Inv, RestartWaits, [Next]_vars, Inv', NEW r \in Procs,
                    kind'[r] = "restart", target'[r] # None,
                    pc'[r] \in {"unlink", "check", "recheck", "rmpid", "openpid",
                                "bind", "listen"}
             PROVE  pc'[target'[r]] = "exited"
  BY StepInv, Zenon DEF RestartWaits, Inv, PortHeld, TypeOK
<1> USE SysVAssumption DEF Goto, files, Settled, Daemon
<1>1. \A q \in Procs : pc[q] = "exited" => pc'[q] = "exited"
  BY DEF Inv, TypeOK, Next, Command, Launch, FindTarget, SendSignal, WaitGone,
     WaitTimeout, Sigkill, Unlink, CheckRunning, RemovePidFile, OpenPidFile,
     Bind, Listen, WritePid, StartFails, StopListening, Exit, Crash, PidReused,
     vars
<1>2. CASE target'[r] = target[r] /\ kind'[r] = kind[r]
           /\ pc[r] \in {"unlink", "check", "recheck", "rmpid", "openpid", "bind"}
  BY <1>1, <1>2, Zenon DEF RestartWaits, Inv, TypeOK
<1>3. CASE WaitGone(r)
  BY <1>3, ZenonT(60) DEF WaitGone, confirmname, Inv, TypeOK, Aimed
<1>4. CASE FindTarget(r)
  BY <1>4, ZenonT(60) DEF FindTarget, Inv, TypeOK
<1>5. CASE target'[r] = target[r] /\ kind'[r] = kind[r] /\ pc'[r] = pc[r]
  BY <1>1, <1>5, Zenon DEF RestartWaits, Inv, TypeOK
<1>6. \/ /\ target'[r] = target[r] /\ kind'[r] = kind[r]
         /\ pc[r] \in {"unlink", "check", "recheck", "rmpid", "openpid", "bind"}
      \/ WaitGone(r)
      \/ FindTarget(r)
      \/ target'[r] = target[r] /\ kind'[r] = kind[r] /\ pc'[r] = pc[r]
  BY DEF Inv, TypeOK, Next, Command, Launch, FindTarget, SendSignal, WaitGone,
     WaitTimeout, Sigkill, Unlink, CheckRunning, RemovePidFile, OpenPidFile,
     Bind, Listen, WritePid, StartFails, StopListening, Exit, Crash, PidReused,
     vars
<1> QED BY <1>2, <1>3, <1>4, <1>5, <1>6, Zenon

(* What -Q waited for has ended, and has given back the port, before -Q      *)
(* removes the pid file and starts the new copy.                           *)
THEOREM RestartWaitsForExit == Spec => []RestartWaits
<1>1. Init => RestartWaits
  BY Zenon DEF Init, RestartWaits
<1> QED BY <1>1, SpecInv, RestartStep, PTL DEF Spec

(* While commands do not overlap, at most one of them is under way; what it  *)
(* does to the pid file it does when no copy runs, the file it opened keeps  *)
(* its name until the pid is written, and the copy it signals is the one     *)
(* that runs.                                                              *)
Alone ==
  \A p, q \in Procs : pc[p] \notin Settled /\ pc[q] \notin Settled => p = q

NoneRuns ==
  \A q \in Procs :
    pc[q] \in {"waitexit", "sigkill", "waitkilled", "unlink", "recheck", "rmpid",
              "openpid", "bind", "listen", "writepid"}
    => \A p \in Procs : pc[p] # "running"

SignalsTheRunning ==
  \A q \in Procs : pc[q] = "signal" =>
    \A p \in Procs : pc[p] = "running" => p = target[q]

StillNamed ==
  \A p \in Procs : pc[p] \in {"bind", "listen", "writepid"} => pidfile = fd[p]

OneByOne == ~overlapped => Alone /\ NoneRuns /\ SignalsTheRunning /\ StillNamed

LEMMA NamedStep ==
  ASSUME Inv, OneByOne, RunningNamed, [Next]_vars
  PROVE  OneByOne' /\ RunningNamed'
<1> USE SysVAssumption DEF Goto, ClosedBy, files
<1> USE DEF Settled, Daemon, Kinds
<1> USE DEF Inv, TypeOK, Opened, OneByOne, Alone, NoneRuns, SignalsTheRunning,
            StillNamed, RunningNamed
<1>0. CASE UNCHANGED vars
  BY <1>0, Zenon DEF vars
<1> SUFFICES ASSUME NEW p \in Procs,
                    \/ \E k \in Kinds : Launch(p, k)
                    \/ Command(p)
                    \/ StartFails(p)
                    \/ StopListening(p)
                    \/ Exit(p)
                    \/ Crash(p)
                    \/ PidReused(p)
             PROVE  OneByOne' /\ RunningNamed'
  BY <1>0, Zenon DEF Next
<1> SUFFICES ASSUME ~overlapped'
             PROVE  /\ Alone' /\ NoneRuns' /\ SignalsTheRunning' /\ StillNamed'
                    /\ \A r \in Procs : pc'[r] = "running" =>
                         pidfile' # None /\ content'[pidfile'] = r
  BY Zenon
<1>e. ~overlapped
  BY Zenon DEF Launch, Command, FindTarget, SendSignal, WaitGone, WaitTimeout, Sigkill, Unlink,
     CheckRunning, RemovePidFile, OpenPidFile, Bind, Listen, WritePid, StartFails,
     StopListening, Exit, Crash, PidReused
<1>f. \A r \in Procs : pc[r] = "running" => getpid = r
  BY <1>e DEF getpid, confirmname
<1>1. CASE \E k \in Kinds : Launch(p, k)
  <2>1. PICK k \in Kinds : Launch(p, k)
    BY <1>1, Zenon
  <2>2. \A q \in Procs : pc[q] \in Settled
    <3> HIDE DEF Settled
    <3> QED BY <2>1, Zenon DEF Launch
  <2>3. /\ pc'[p] \in {"check", "getpid"} /\ \A q \in Procs \ {p} : pc'[q] = pc[q]
        /\ pc[p] # "running" /\ UNCHANGED <<target, fd, pidfile, content>>
    BY <2>1 DEF Launch
  <2> QED BY SMTT(30), <1>e, <2>2, <2>3
<1>2. CASE FindTarget(p)
  BY <1>f, <1>2 DEF FindTarget
<1>3. CASE SendSignal(p)
  BY <1>3 DEF SendSignal, Aimed
<1>4. CASE WaitGone(p)
  BY <1>4 DEF WaitGone
<1>5. CASE WaitTimeout(p)
  BY <1>5 DEF WaitTimeout
<1>6. CASE Sigkill(p)
  BY <1>6 DEF Sigkill, Aimed
<1>7. CASE Unlink(p)
  BY <1>7 DEF Unlink
<1>8. CASE CheckRunning(p)
  BY <1>f, <1>8 DEF CheckRunning
<1>9. CASE RemovePidFile(p)
  BY <1>9 DEF RemovePidFile
<1>10. CASE OpenPidFile(p)
  BY <1>10 DEF OpenPidFile
<1>11. CASE Bind(p)
  BY <1>11 DEF Bind
<1>12. CASE Listen(p)
  BY <1>12 DEF Listen
<1>13. CASE WritePid(p)
  BY <1>13 DEF WritePid, PortHeld
<1>14. CASE StartFails(p)
  BY <1>14 DEF StartFails
<1>15. CASE StopListening(p)
  BY <1>15 DEF StopListening
<1>16. CASE Exit(p)
  BY <1>16 DEF Exit
<1>17. CASE Crash(p)
  BY <1>17 DEF Crash
<1>18. CASE PidReused(p)
  BY <1>18 DEF PidReused
<1> QED
  BY <1>1, <1>2, <1>3, <1>4, <1>5, <1>6, <1>7, <1>8, <1>9, <1>10, <1>11, <1>12, Zenon,
     <1>13, <1>14, <1>15, <1>16, <1>17, <1>18 DEF Command

(* When each command ends, or has become the daemon, before the next is      *)
(* given, the pid file names the copy that runs: -q, -Q, -r and -g find it.  *)
THEOREM PidFileNamesTheRunning == Spec => []RunningNamed
<1>1. Init => OneByOne /\ RunningNamed
  BY Zenon DEF Init, OneByOne, Alone, NoneRuns, SignalsTheRunning, StillNamed,
     RunningNamed, Settled, Daemon
<1> QED BY <1>1, SpecInv, NamedStep, PTL DEF Spec
=============================================================================
