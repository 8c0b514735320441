---------------------------- MODULE ConnService ----------------------------
(***************************************************************************)
(* What the thread system promises for each client connection, without     *)
(* threads or queues: it waits, it is served by one of a fixed number of   *)
(* workers, it is over.  Module FatController implements this.             *)
(***************************************************************************)
EXTENDS Naturals, FiniteSets

CONSTANTS
  Conns,     \* client connections
  BadConns,  \* those whose socket turns out to be unusable
  Limit      \* how many may be served at a time

VARIABLES
  phase,     \* "new", "waiting" (accepted), "serving" or "done"
  stopping   \* the daemon is stopping

vars == <<phase, stopping>>

Serving == {c \in Conns : phase[c] = "serving"}

Init ==
  /\ phase = [c \in Conns |-> "new"]
  /\ stopping = FALSE

(* A connection is accepted.                                               *)
Admit(c) ==
  /\ phase[c] = "new"
  /\ phase' = [phase EXCEPT ![c] = "waiting"]
  /\ UNCHANGED stopping

(* A worker takes it: never more than Limit at a time, and only from        *)
(* "waiting", so no connection is served twice.                            *)
Start(c) ==
  /\ phase[c] = "waiting"
  /\ c \notin BadConns
  /\ Cardinality(Serving) < Limit
  /\ phase' = [phase EXCEPT ![c] = "serving"]
  /\ UNCHANGED stopping

Finish(c) ==
  /\ phase[c] = "serving"
  /\ phase' = [phase EXCEPT ![c] = "done"]
  /\ UNCHANGED stopping

(* Connections that never reached the daemon may be reset by the kernel;    *)
(* one that did is dropped only if it is unusable or the daemon is stopping.*)
Drop(S) ==
  /\ S # {}
  /\ \A c \in S :
       \/ phase[c] = "new"
       \/ phase[c] = "waiting" /\ (stopping \/ c \in BadConns)
  /\ phase' = [c \in Conns |-> IF c \in S THEN "done" ELSE phase[c]]
  /\ UNCHANGED stopping

BeginStop ==
  /\ ~stopping
  /\ stopping' = TRUE
  /\ UNCHANGED phase

Next ==
  \/ \E c \in Conns : Admit(c) \/ Start(c) \/ Finish(c)
  \/ \E S \in SUBSET Conns : Drop(S)
  \/ BeginStop

Spec == Init /\ [][Next]_vars
=============================================================================
