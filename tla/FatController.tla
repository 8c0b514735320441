--------------------------- MODULE FatController ---------------------------
(***************************************************************************)
(* The thread system of the daemon (src/src/FatController.cpp): one        *)
(* listener thread per listening socket (accept_connections), the shared   *)
(* queue of accepted connections (Queue.hpp), the pool of worker threads   *)
(* (handle_connections), the log writer (log_listener) and the tidy-up of  *)
(* the main thread that stops them all (end of fc_controlit).              *)
(*                                                                         *)
(* What happens to one connection inside handlePeer is the subject of      *)
(* other modules; here it is the interval between WorkerCheck and          *)
(* WorkerDone.  Signals and list reloads are in module MainLoop.           *)
(***************************************************************************)
EXTENDS Naturals, Sequences, FiniteSets

CONSTANTS
  Workers,          \* the worker threads, o.http_workers of them
  Listeners,        \* the listening sockets, one thread each
  Conns,            \* client connections
  BadConns,         \* those whose descriptor or peer address is unusable
  MaxAcceptErrors,  \* 30 in the code
  Null,             \* LQ_rec with sock == NULL, and the empty log line
  Wake,             \* the connection self_connect makes to a listener
  NoSock            \* a thread's local Socket pointer holds nothing

ASSUME FatControllerAssumption ==
  /\ IsFiniteSet(Workers)
  /\ BadConns \subseteq Conns
  /\ MaxAcceptErrors \in Nat \ {0}
  /\ Null \notin Conns
  /\ Wake \notin Conns
  /\ NoSock \notin Conns
  /\ Null # Wake
  /\ Null # NoSock
  /\ Wake # NoSock

VARIABLES
  ttg,            \* "time to go": the main thread has taken SIGTERM
  logger_ttg,     \* the same for the log writer
  fresh,          \* connections no client has opened yet
  backlog,        \* kernel accept queue of each listening socket
  lpc,            \* where each listener thread is
  lsock,          \* its local peersock
  errorcount,     \* its count of consecutive accept errors
  http_worker_Q,  \* accepted connections waiting for a worker
  wpc,            \* where each worker thread is
  wsock,          \* its local peersock
  busychildren,   \* dystat->busychildren
  log_Q,          \* log records waiting to be written
  gpc,            \* where the log writer is
  written,        \* connections whose record is in the log file
  mpc,            \* where the main thread is
  nulls,          \* null records the main thread has pushed so far
  unwoken,        \* listeners self_connect has not reached yet
  served,         \* history: connections handlePeer was called for
  logged,         \* history: connections doLog pushed a record for
  closed          \* history: connections whose Socket is gone

stopVars == <<ttg, logger_ttg, mpc, nulls, unwoken>>
listenVars == <<backlog, lpc, lsock, errorcount>>
workVars == <<wpc, wsock, busychildren>>
logVars == <<log_Q, gpc, written>>
histVars == <<fresh, served, logged, closed>>
vars == <<stopVars, listenVars, http_worker_Q, workVars, logVars, histVars>>

(* A thread that spawn_detached_thread failed to create is "none" for ever: *)
(* the return value is ignored by every caller.                             *)
Init ==
  /\ ttg = FALSE
  /\ logger_ttg = FALSE
  /\ fresh = Conns
  /\ backlog = [l \in Listeners |-> {}]
  /\ lpc \in [Listeners -> {"top", "none"}]
  /\ lsock = [l \in Listeners |-> NoSock]
  /\ errorcount = [l \in Listeners |-> 0]
  /\ http_worker_Q = <<>>
  /\ wpc \in [Workers -> {"top", "none"}]
  /\ wsock = [w \in Workers |-> NoSock]
  /\ busychildren = 0
  /\ log_Q = <<>>
  /\ gpc \in {"top", "none"}
  /\ written = {}
  /\ mpc = "loop"
  /\ nulls = 0
  /\ unwoken = Listeners
  /\ served = {}
  /\ logged = {}
  /\ closed = {}

-----------------------------------------------------------------------------
(* Queue.hpp: push and pop hold d_mutex, so each is one atomic step; pop    *)
(* waits until the queue is not empty.                                      *)
push(Q, rec) == Append(Q, rec)

(* Mutant: the queue is taken for empty when it holds one record.          *)
CanPopSecond(Q) == Len(Q) > 1

CanPop(Q) == Q # <<>>

-----------------------------------------------------------------------------
(* Clients.  A connection reaches the kernel's queue while the listening   *)
(* socket is open, whether or not the listener thread runs.                *)
ClientConnect(c, l) ==
  /\ c \in fresh
  /\ lpc[l] # "exited"
  /\ fresh' = fresh \ {c}
  /\ backlog' = [backlog EXCEPT ![l] = @ \cup {c}]
  /\ UNCHANGED <<stopVars, lpc, lsock, errorcount, http_worker_Q, workVars,
                 logVars, served, logged, closed>>

-----------------------------------------------------------------------------
(* accept_connections: while ((errorcount < 30) && !ttg)                   *)
ListenerTop(l) ==
  /\ lpc[l] = "top"
  /\ lpc' = [lpc EXCEPT ![l] = IF errorcount[l] < MaxAcceptErrors /\ ~ttg
                               THEN "accept" ELSE "close"]
  /\ UNCHANGED <<stopVars, backlog, lsock, errorcount, http_worker_Q, workVars,
                 logVars, histVars>>

(* Mutant: break without delete peersock.                                  *)
AcceptLeak(l) ==
  /\ lpc[l] = "accept"
  /\ \E s \in backlog[l] :
       /\ backlog' = [backlog EXCEPT ![l] = @ \ {s}]
       /\ IF ttg
          THEN /\ lpc' = [lpc EXCEPT ![l] = "close"]
               /\ UNCHANGED <<lsock, errorcount>>
          ELSE /\ lpc' = [lpc EXCEPT ![l] = "push"]
               /\ lsock' = [lsock EXCEPT ![l] = s]
               /\ errorcount' = [errorcount EXCEPT ![l] = 0]
  /\ UNCHANGED <<stopVars, http_worker_Q, workVars, logVars, fresh, served,
                 logged, closed>>

(* accept succeeds.  The test of ttg that follows is taken in the same step *)
(* (nothing another thread can see happens between the two).               *)
Accept(l) ==
  /\ lpc[l] = "accept"
  /\ \E s \in backlog[l] :
       /\ backlog' = [backlog EXCEPT ![l] = @ \ {s}]
       /\ IF ttg
          THEN /\ lpc' = [lpc EXCEPT ![l] = "close"]
               /\ closed' = closed \cup ({s} \cap Conns)
               /\ UNCHANGED <<lsock, errorcount>>
          ELSE /\ lpc' = [lpc EXCEPT ![l] = "push"]
               /\ lsock' = [lsock EXCEPT ![l] = s]
               /\ errorcount' = [errorcount EXCEPT ![l] = 0]
               /\ UNCHANGED closed
  /\ UNCHANGED <<stopVars, http_worker_Q, workVars, logVars, fresh, served,
                 logged>>

(* o.http_worker_Q.push(rec): ttg may have been set since it was tested.   *)
ListenerPush(l) ==
  /\ lpc[l] = "push"
  /\ http_worker_Q' = push(http_worker_Q, lsock[l])
  /\ lsock' = [lsock EXCEPT ![l] = NoSock]
  /\ lpc' = [lpc EXCEPT ![l] = "top"]
  /\ UNCHANGED <<stopVars, backlog, errorcount, workVars, logVars, histVars>>

(* accept fails.  ECONNABORTED, EINTR and EAGAIN are not counted.          *)
AcceptFails(l, transient) ==
  /\ lpc[l] = "accept"
  /\ lpc' = [lpc EXCEPT ![l] = IF ttg THEN "close" ELSE "top"]
  /\ errorcount' = IF ttg \/ transient THEN errorcount
                   ELSE [errorcount EXCEPT ![l] = @ + 1]
  /\ UNCHANGED <<stopVars, backlog, lsock, http_worker_Q, workVars, logVars,
                 histVars>>

(* serversockets[index]->close(): the kernel resets what it still queues.  *)
ListenerClose(l) ==
  /\ lpc[l] = "close"
  /\ lpc' = [lpc EXCEPT ![l] = "exited"]
  /\ backlog' = [backlog EXCEPT ![l] = {}]
  /\ closed' = closed \cup (backlog[l] \cap Conns)
  /\ UNCHANGED <<stopVars, lsock, errorcount, http_worker_Q, workVars, logVars,
                 fresh, served, logged>>

-----------------------------------------------------------------------------
(* handle_connections.  Both while (!ttg) loops lead here: after a break of *)
(* the inner loop the outer one tests ttg and makes a new ConnectionHandler.*)
WorkerTop(w) ==
  /\ wpc[w] = "top"
  /\ wpc' = [wpc EXCEPT ![w] = IF ttg THEN "exited" ELSE "pop"]
  /\ UNCHANGED <<stopVars, listenVars, http_worker_Q, wsock, busychildren,
                 logVars, histVars>>

WorkerPop(w) ==
  /\ wpc[w] = "pop"
  /\ CanPop(http_worker_Q)
  /\ wsock' = [wsock EXCEPT ![w] = Head(http_worker_Q)]
  /\ http_worker_Q' = Tail(http_worker_Q)
  /\ wpc' = [wpc EXCEPT ![w] = "popped"]
  /\ UNCHANGED <<stopVars, listenVars, busychildren, logVars, histVars>>

(* Mutant: no test of the descriptor and the peer address.                 *)
WorkerCheckLax(w) ==
  /\ wpc[w] = "popped"
  /\ IF ttg \/ wsock[w] = Null
     THEN /\ wpc' = [wpc EXCEPT ![w] = "top"]
          /\ closed' = closed \cup ({wsock[w]} \cap Conns)
          /\ wsock' = [wsock EXCEPT ![w] = NoSock]
          /\ UNCHANGED <<busychildren, served>>
     ELSE /\ wpc' = [wpc EXCEPT ![w] = "serve"]
          /\ busychildren' = busychildren + 1
          /\ served' = served \cup {wsock[w]}
          /\ UNCHANGED <<closed, wsock>>
  /\ UNCHANGED <<stopVars, listenVars, http_worker_Q, logVars, fresh, logged>>

(* if (ttg || !peersock) break; then the test of descriptor and address;   *)
(* then BusyGuard.  peersock is a unique_ptr: leaving the block closes it. *)
WorkerCheck(w) ==
  /\ wpc[w] = "popped"
  /\ IF ttg \/ wsock[w] = Null \/ wsock[w] \in BadConns
     THEN /\ wpc' = [wpc EXCEPT ![w] = "top"]
          /\ closed' = closed \cup ({wsock[w]} \cap Conns)
          /\ wsock' = [wsock EXCEPT ![w] = NoSock]
          /\ UNCHANGED <<busychildren, served>>
     ELSE /\ wpc' = [wpc EXCEPT ![w] = "serve"]
          /\ busychildren' = busychildren + 1
          /\ served' = served \cup {wsock[w]}
          /\ UNCHANGED <<closed, wsock>>
  /\ UNCHANGED <<stopVars, listenVars, http_worker_Q, logVars, fresh, logged>>

(* doLog inside handlePeer.  A connection's records are alike: one is enough.*)
WorkerLog(w) ==
  /\ wpc[w] = "serve"
  /\ wsock[w] \notin logged
  /\ logged' = logged \cup {wsock[w]}
  /\ log_Q' = push(log_Q, wsock[w])
  /\ UNCHANGED <<stopVars, listenVars, http_worker_Q, workVars, gpc, written,
                 fresh, served, closed>>

(* handlePeer returns, or throws and is caught: either way BusyGuard and    *)
(* the unique_ptr are destroyed and the outer loop goes round.             *)
WorkerDone(w) ==
  /\ wpc[w] = "serve"
  /\ wpc' = [wpc EXCEPT ![w] = "top"]
  /\ busychildren' = busychildren - 1
  /\ closed' = closed \cup {wsock[w]}
  /\ wsock' = [wsock EXCEPT ![w] = NoSock]
  /\ UNCHANGED <<stopVars, listenVars, http_worker_Q, logVars, fresh, served,
                 logged>>

-----------------------------------------------------------------------------
(* log_listener: while (!logger_ttg)                                       *)
LoggerTop ==
  /\ gpc = "top"
  /\ gpc' = IF logger_ttg THEN "exited" ELSE "pop"
  /\ UNCHANGED <<stopVars, listenVars, http_worker_Q, workVars, log_Q, written,
                 histVars>>

(* Mutant: the last record of the queue is not written.                    *)
LoggerPopLast ==
  /\ gpc = "pop"
  /\ CanPop(log_Q)
  /\ log_Q' = Tail(log_Q)
  /\ IF logger_ttg \/ Tail(log_Q) = <<>>
     THEN /\ gpc' = IF logger_ttg THEN "exited" ELSE "top"
          /\ UNCHANGED written
     ELSE gpc' = "top" /\ written' = written \cup ({Head(log_Q)} \cap Conns)
  /\ UNCHANGED <<stopVars, listenVars, http_worker_Q, workVars, histVars>>

(* pop, then if (logger_ttg) break: the record in hand is dropped.  An      *)
(* empty line has not all the parts of a record and is skipped.            *)
LoggerPop ==
  /\ gpc = "pop"
  /\ CanPop(log_Q)
  /\ log_Q' = Tail(log_Q)
  /\ IF logger_ttg
     THEN gpc' = "exited" /\ UNCHANGED written
     ELSE gpc' = "top" /\ written' = written \cup ({Head(log_Q)} \cap Conns)
  /\ UNCHANGED <<stopVars, listenVars, http_worker_Q, workVars, histVars>>

-----------------------------------------------------------------------------
(* The main thread: SIGTERM ends its loop, then the tidy-up of fc_controlit.*)
MainTerm ==
  /\ mpc = "loop"
  /\ ttg' = TRUE
  /\ mpc' = "nulls"
  /\ UNCHANGED <<logger_ttg, nulls, unwoken, listenVars, http_worker_Q,
                 workVars, logVars, histVars>>

(* for (i = 0; i < o.http_workers; i++) o.http_worker_Q.push(rec)          *)
MainPushNull ==
  /\ mpc = "nulls"
  /\ nulls < Cardinality(Workers)
  /\ http_worker_Q' = push(http_worker_Q, Null)
  /\ nulls' = nulls + 1
  /\ UNCHANGED <<ttg, logger_ttg, mpc, unwoken, listenVars, workVars, logVars,
                 histVars>>

MainStopLogger ==
  /\ mpc = "nulls"
  /\ nulls = Cardinality(Workers)
  /\ logger_ttg' = TRUE
  /\ mpc' = "logpush"
  /\ UNCHANGED <<ttg, nulls, unwoken, listenVars, http_worker_Q, workVars,
                 logVars, histVars>>

(* Mutant: no empty line is pushed.                                        *)
MainPushNoLog ==
  /\ mpc = "logpush"
  /\ mpc' = "wake"
  /\ UNCHANGED <<ttg, logger_ttg, nulls, unwoken, listenVars, http_worker_Q,
                 workVars, logVars, histVars>>

MainPushNullLog ==
  /\ mpc = "logpush"
  /\ log_Q' = push(log_Q, Null)
  /\ mpc' = "wake"
  /\ UNCHANGED <<ttg, logger_ttg, nulls, unwoken, listenVars, http_worker_Q,
                 workVars, gpc, written, histVars>>

(* SocketArray::self_connect: connect once to every socket still open.     *)
MainSelfConnect(l) ==
  /\ mpc = "wake"
  /\ l \in unwoken
  /\ unwoken' = unwoken \ {l}
  /\ backlog' = IF lpc[l] = "exited" THEN backlog
                ELSE [backlog EXCEPT ![l] = @ \cup {Wake}]
  /\ UNCHANGED <<ttg, logger_ttg, mpc, nulls, lpc, lsock, errorcount,
                 http_worker_Q, workVars, logVars, histVars>>

(* sleep 2s, return from fc_controlit and main: every other thread dies.   *)
MainReturn ==
  /\ mpc = "wake"
  /\ unwoken = {}
  /\ mpc' = "returned"
  /\ UNCHANGED <<ttg, logger_ttg, nulls, unwoken, listenVars, http_worker_Q,
                 workVars, logVars, histVars>>

-----------------------------------------------------------------------------
Listener(l) ==
  \/ ListenerTop(l)
  \/ Accept(l)
  \/ ListenerPush(l)
  \/ \E transient \in BOOLEAN : AcceptFails(l, transient)
  \/ ListenerClose(l)

Worker(w) ==
  \/ WorkerTop(w)
  \/ WorkerPop(w)
  \/ WorkerCheck(w)
  \/ WorkerLog(w)
  \/ WorkerDone(w)

Logger == LoggerTop \/ LoggerPop

Stop ==
  \/ MainPushNull
  \/ MainStopLogger
  \/ MainPushNullLog
  \/ \E l \in Listeners : MainSelfConnect(l)

Next ==
  /\ mpc # "returned"
  /\ \/ \E c \in Conns, l \in Listeners : ClientConnect(c, l)
     \/ \E l \in Listeners : Listener(l)
     \/ \E w \in Workers : Worker(w)
     \/ Logger
     \/ MainTerm
     \/ Stop
     \/ MainReturn

Spec == Init /\ [][Next]_vars

(* Every thread keeps running.  Nothing is assumed of the clients, of when  *)
(* SIGTERM comes, of accept errors, or of how long the final sleep lasts.   *)
(* WorkerDone is fair only where a property is about connections whose     *)
(* exchange ends (the code bounds it by timeouts, tunnels excepted).       *)
ListenerRuns(l) ==
  ListenerTop(l) \/ Accept(l) \/ ListenerPush(l) \/ ListenerClose(l)

WorkerRuns(w) == WorkerTop(w) \/ WorkerPop(w) \/ WorkerCheck(w)

ThreadsRun ==
  /\ \A l \in Listeners : WF_vars(mpc # "returned" /\ ListenerRuns(l))
  /\ \A w \in Workers : WF_vars(mpc # "returned" /\ WorkerRuns(w))
  /\ WF_vars(mpc # "returned" /\ Logger)
  /\ WF_vars(Stop)

ExchangesEnd ==
  \A w \in Workers : WF_vars(mpc # "returned" /\ WorkerDone(w))

FairSpec == Spec /\ ThreadsRun

-----------------------------------------------------------------------------
(* The types of the variables.                                             *)
TypeOK ==
  /\ ttg \in BOOLEAN
  /\ logger_ttg \in BOOLEAN
  /\ fresh \subseteq Conns
  /\ backlog \in [Listeners -> SUBSET (Conns \cup {Wake})]
  /\ lpc \in [Listeners -> {"none", "top", "accept", "push", "close", "exited"}]
  /\ lsock \in [Listeners -> Conns \cup {NoSock}]
  /\ errorcount \in [Listeners -> 0..MaxAcceptErrors]
  /\ http_worker_Q \in Seq(Conns \cup {Null})
  /\ wpc \in [Workers -> {"none", "top", "pop", "popped", "serve", "exited"}]
  /\ wsock \in [Workers -> Conns \cup {Null, NoSock}]
  /\ busychildren \in Nat
  /\ log_Q \in Seq(Conns \cup {Null})
  /\ gpc \in {"none", "top", "pop", "exited"}
  /\ written \subseteq Conns
  /\ mpc \in {"loop", "nulls", "logpush", "wake", "returned"}
  /\ nulls \in 0..Cardinality(Workers)
  /\ unwoken \subseteq Listeners
  /\ served \subseteq Conns
  /\ logged \subseteq Conns
  /\ closed \subseteq Conns

(* The places a connection can be in, read off the data structures.        *)
Places == {"client", "kernel", "listener", "queue", "worker", "closed"}

At(c, p) ==
  \/ p = "client" /\ c \in fresh
  \/ p = "kernel" /\ \E l \in Listeners : c \in backlog[l]
  \/ p = "listener" /\ \E l \in Listeners : lsock[l] = c
  \/ p = "queue" /\ \E i \in 1..Len(http_worker_Q) : http_worker_Q[i] = c
  \/ p = "worker" /\ \E w \in Workers : wsock[w] = c
  \/ p = "closed" /\ c \in closed

(* Every connection is in exactly one place: none is lost between accept,   *)
(* the queue and a worker, and none is still held after its Socket is gone. *)
OnePlace ==
  \A c \in Conns : \E p \in Places : \A r \in Places : At(c, r) <=> r = p

(* Within a place it is held once: no connection is queued twice, or held by*)
(* two workers or two listeners (each would close the descriptor).         *)
OneHolder ==
  /\ \A i, j \in 1..Len(http_worker_Q) :
       http_worker_Q[i] \in Conns /\ http_worker_Q[i] = http_worker_Q[j] => i = j
  /\ \A v, w \in Workers : wsock[v] \in Conns /\ wsock[v] = wsock[w] => v = w
  /\ \A k, l \in Listeners : lsock[k] \in Conns /\ lsock[k] = lsock[l] => k = l
  /\ \A k, l \in Listeners, c \in Conns :
       c \in backlog[k] /\ c \in backlog[l] => k = l

OneOwner == OnePlace /\ OneHolder

(* dystat->busychildren, which the main thread compares with http_workers to *)
(* warn that the system is full, is the number of workers inside handlePeer, *)
(* whichever way handlePeer ends.                                           *)
BusyCount == busychildren = Cardinality({w \in Workers : wpc[w] = "serve"})

(* Once the null records are pushed no worker waits in pop for a record     *)
(* nobody will push: there are at least as many records as waiting workers, *)
(* although workers take real connections too, and listeners may still push.*)
EnoughNulls ==
  mpc \in {"logpush", "wake", "returned"} =>
    Cardinality({w \in Workers : wpc[w] = "pop"}) <= Len(http_worker_Q)

(* A connection is closed without being served only because its socket is   *)
(* unusable, because the daemon is stopping, or because its listener gave up*)
(* after MaxAcceptErrors consecutive errors before accepting it.           *)
ClosedServed ==
  \A c \in closed \ (served \cup BadConns) :
    ttg \/ \E l \in Listeners : errorcount[l] = MaxAcceptErrors

(* Until the log writer is told to stop, every record doLog pushed is in the*)
(* log file or still queued.                                               *)
LogKept ==
  ~logger_ttg => \A c \in logged :
    c \in written \/ \E i \in 1..Len(log_Q) : log_Q[i] = c

(* The phase of a connection as a client of the daemon sees it.            *)
Phase(c) ==
  IF c \in closed THEN "done"
  ELSE IF \E w \in Workers : wsock[w] = c /\ wpc[w] = "serve" THEN "serving"
  ELSE IF At(c, "listener") \/ At(c, "queue") \/ At(c, "worker") THEN "waiting"
  ELSE "new"

Service == INSTANCE ConnService WITH
  Limit <- Cardinality(Workers),
  phase <- [c \in Conns |-> Phase(c)],
  stopping <- ttg

(* The thread system implements ConnService: accepted connections wait, are *)
(* served at most once and by at most http_workers workers at a time, and   *)
(* none that was accepted is dropped while the daemon runs.                *)
ImplementsService == Service!Spec

(* SIGTERM stops every thread, whatever was being handled and wherever the  *)
(* threads wait: in the end no worker is left in pop (it has exited, or is   *)
(* inside an exchange), every listener has left accept and closed its        *)
(* socket, and the log writer has seen the empty line that is pushed after   *)
(* logger_ttg is set; unless main returns first.                            *)
ThreadsStop ==
  ttg ~> \/ mpc = "returned"
         \/ /\ \A w \in Workers : wpc[w] \in {"none", "serve", "exited"}
            /\ \A l \in Listeners : lpc[l] \in {"none", "exited"}
            /\ gpc \in {"none", "exited"}

(* A queued connection that can be used is taken by a worker in the end, if *)
(* there is one and exchanges end: it is served, or closed because the      *)
(* daemon stops.                                                            *)
QueuedHandled ==
  ExchangesEnd =>
    \A c \in Conns \ BadConns :
      (At(c, "queue") /\ \E w \in Workers : wpc[w] # "none")
        ~> (c \in served \cup closed \/ ttg)
=============================================================================
