------------------------ MODULE FatControllerProofs ------------------------
(***************************************************************************)
(* Proofs about module FatController, for any number of workers, listeners *)
(* and connections.                                                        *)
(***************************************************************************)
EXTENDS FatController, FiniteSetTheorems, TLAPS

(* What ties the program counters of the threads to the values they hold.  *)
ListenerState ==
  /\ \A l \in Listeners : lpc[l] = "push" <=> lsock[l] # NoSock
  /\ \A l \in Listeners : lpc[l] = "accept" => errorcount[l] < MaxAcceptErrors
  /\ \A l \in Listeners :
       lpc[l] = "close" => ttg \/ errorcount[l] = MaxAcceptErrors
  /\ \A l \in Listeners : Wake \in backlog[l] => ttg

WorkerState ==
  /\ \A w \in Workers : wpc[w] = "serve" => wsock[w] \in served
  /\ \A w \in Workers : wpc[w] = "popped" => wsock[w] # NoSock
  /\ \A w \in Workers : wpc[w] \notin {"popped", "serve"} => wsock[w] = NoSock

MainState ==
  /\ ttg <=> mpc # "loop"
  /\ mpc = "loop" => nulls = 0
  /\ mpc \in {"logpush", "wake", "returned"} => nulls = Cardinality(Workers)

Serving == {w \in Workers : wpc[w] = "serve"}

Inv == TypeOK /\ ListenerState /\ WorkerState /\ MainState /\ BusyCount

LEMMA CardNat == ASSUME NEW S, S \subseteq Workers PROVE Cardinality(S) \in Nat /\ IsFiniteSet(S)
  BY FS_Subset, FS_CardinalityType, FatControllerAssumption, Zenon

LEMMA InitInv == Init => Inv
<1> SUFFICES ASSUME Init PROVE Inv
  BY Zenon
<1> USE FatControllerAssumption
<1>1. Cardinality(Workers) \in Nat
  BY CardNat, Zenon
<1>2. TypeOK
  <2>1. lpc \in [Listeners -> {"none", "top", "accept", "push", "close", "exited"}]
    BY Zenon DEF Init
  <2>2. wpc \in [Workers -> {"none", "top", "pop", "popped", "serve", "exited"}]
    BY Zenon DEF Init
  <2>3. backlog \in [Listeners -> SUBSET (Conns \cup {Wake})]
    BY Zenon DEF Init
  <2>4. lsock \in [Listeners -> Conns \cup {NoSock}]
    BY Zenon DEF Init
  <2>5. errorcount \in [Listeners -> 0..MaxAcceptErrors]
    BY DEF Init
  <2>6. wsock \in [Workers -> Conns \cup {Null, NoSock}]
    BY Zenon DEF Init
  <2>7. nulls \in 0..Cardinality(Workers)
    BY <1>1 DEF Init
  <2>8. http_worker_Q \in Seq(Conns \cup {Null}) /\ log_Q \in Seq(Conns \cup {Null})
    BY DEF Init
  <2> QED BY <2>1, <2>2, <2>3, <2>4, <2>5, <2>6, <2>7, <2>8, Zenon DEF Init, TypeOK
<1>3. ListenerState /\ WorkerState /\ MainState
  BY Zenon DEF Init, ListenerState, WorkerState, MainState
<1>4. {w \in Workers : wpc[w] = "serve"} = {}
  BY Zenon DEF Init
<1>5. BusyCount
  BY <1>4, FS_EmptySet, Zenon DEF Init, BusyCount
<1> QED BY <1>2, <1>3, <1>5, Zenon DEF Inv

LEMMA ListenerInv ==
  ASSUME Inv, NEW l \in Listeners, Listener(l)
  PROVE  Inv'
<1> USE FatControllerAssumption DEF Inv
<1> USE DEF ListenerState, WorkerState, MainState, BusyCount, stopVars,
            workVars, logVars, histVars
<1>1. CASE ListenerTop(l)
  BY <1>1 DEF ListenerTop, TypeOK
<1>2. CASE Accept(l)
  <2>1. PICK s \in backlog[l] :
          /\ backlog' = [backlog EXCEPT ![l] = @ \ {s}]
          /\ ttg => /\ lpc' = [lpc EXCEPT ![l] = "close"]
                    /\ closed' = closed \cup ({s} \cap Conns)
                    /\ UNCHANGED <<lsock, errorcount>>
          /\ ~ttg => /\ lpc' = [lpc EXCEPT ![l] = "push"]
                     /\ lsock' = [lsock EXCEPT ![l] = s]
                     /\ errorcount' = [errorcount EXCEPT ![l] = 0]
                     /\ UNCHANGED closed
    BY <1>2, Zenon DEF Accept
  <2>2. ~ttg => s \in Conns
    BY DEF TypeOK
  <2>3. backlog' \in [Listeners -> SUBSET (Conns \cup {Wake})]
    BY <2>1, Zenon DEF TypeOK
  <2>4. CASE ttg
    <3>a. /\ lpc' = [lpc EXCEPT ![l] = "close"]
          /\ closed' = closed \cup ({s} \cap Conns)
          /\ UNCHANGED <<lsock, errorcount, stopVars, http_worker_Q, workVars,
                         logVars, fresh, served, logged>>
      BY <1>2, <2>1, <2>4, Zenon DEF Accept
    <3>1. TypeOK'
      BY <2>3, <3>a, SMTT(60) DEF TypeOK
    <3>b. \A k \in Listeners : lpc'[k] = IF k = l THEN "close" ELSE lpc[k]
      BY <3>a, Zenon DEF TypeOK
    <3>c. ttg' /\ lsock' = lsock /\ errorcount' = errorcount
      BY <2>4, <3>a, Zenon
    <3>2. ListenerState'
      <4>1. \A k \in Listeners : lpc'[k] = "push" <=> lsock'[k] # NoSock
        BY <1>2, <3>b, <3>c, Zenon DEF Accept
      <4>2. \A k \in Listeners : lpc'[k] = "accept" => errorcount'[k] < MaxAcceptErrors
        BY <3>b, <3>c, Zenon
      <4> QED BY <3>c, <4>1, <4>2, Zenon
    <3> QED BY <1>2, <3>1, <3>2, Zenon DEF Accept
  <2>5. CASE ~ttg
    <3>a. /\ lpc' = [lpc EXCEPT ![l] = "push"]
          /\ lsock' = [lsock EXCEPT ![l] = s]
          /\ errorcount' = [errorcount EXCEPT ![l] = 0]
          /\ closed' = closed
          /\ s \in Conns
      BY <2>1, <2>2, <2>5, Zenon
    <3>1. /\ lpc' \in [Listeners -> {"none", "top", "accept", "push", "close", "exited"}]
          /\ lsock' \in [Listeners -> Conns \cup {NoSock}]
          /\ errorcount' \in [Listeners -> 0..MaxAcceptErrors]
      BY <3>a DEF TypeOK
    <3>2. TypeOK'
      BY <1>2, <2>3, <3>a, <3>1, Zenon DEF Accept, TypeOK
    <3>3. ListenerState'
      BY <1>2, <2>1, <3>a, <3>1 DEF Accept, TypeOK
    <3> QED BY <1>2, <3>2, <3>3, <3>a, Zenon DEF Accept
  <2> QED BY <2>4, <2>5, Zenon
<1>3. CASE ListenerPush(l)
  BY <1>3 DEF ListenerPush, push, TypeOK
<1>4. CASE \E transient \in BOOLEAN : AcceptFails(l, transient)
  BY <1>4 DEF AcceptFails, TypeOK
<1>5. CASE ListenerClose(l)
  BY <1>5, SMTT(60) DEF ListenerClose, TypeOK
<1> QED BY <1>1, <1>2, <1>3, <1>4, <1>5, Zenon DEF Listener

LEMMA WorkerInv ==
  ASSUME Inv, NEW w \in Workers, Worker(w)
  PROVE  Inv'
<1> USE FatControllerAssumption DEF Inv
<1> USE DEF ListenerState, WorkerState, MainState, stopVars, listenVars,
            workVars, logVars, histVars
<1>a. /\ IsFiniteSet(Serving)
      /\ Cardinality(Serving) \in Nat
      /\ IsFiniteSet(Serving \ {w})
      /\ Cardinality(Serving \ {w}) \in Nat
  BY CardNat, Zenon DEF Serving
<1>1. CASE WorkerTop(w)
  <2>1. Serving' = Serving
    BY <1>1, Zenon DEF WorkerTop, Serving, TypeOK
  <2> QED BY <1>1, <2>1, Zenon DEF WorkerTop, BusyCount, Serving, TypeOK
<1>2. CASE WorkerPop(w)
  <2>1. Serving' = Serving
    BY <1>2, Zenon DEF WorkerPop, Serving, TypeOK
  <2>2. Head(http_worker_Q) \in Conns \cup {Null}
    BY <1>2 DEF WorkerPop, CanPop, TypeOK
  <2>3. TypeOK'
    BY <1>2, <2>2 DEF WorkerPop, CanPop, TypeOK
  <2>4. WorkerState'
    BY <1>2, <2>2, Zenon DEF WorkerPop, TypeOK
  <2>5. BusyCount'
    BY <1>2, <2>1, Zenon DEF WorkerPop, BusyCount, Serving
  <2> QED BY <1>2, <2>3, <2>4, <2>5, Zenon DEF WorkerPop
<1>3. CASE WorkerCheck(w)
  <2>1. CASE ttg \/ wsock[w] = Null \/ wsock[w] \in BadConns
    <3>1. Serving' = Serving
      BY <1>3, <2>1, SMTT(60) DEF WorkerCheck, Serving, TypeOK
    <3>a. /\ wpc' = [wpc EXCEPT ![w] = "top"]
          /\ closed' = closed \cup ({wsock[w]} \cap Conns)
          /\ wsock' = [wsock EXCEPT ![w] = NoSock]
          /\ UNCHANGED <<busychildren, served, stopVars, listenVars,
                         http_worker_Q, logVars, fresh, logged>>
      BY <1>3, <2>1, Zenon DEF WorkerCheck
    <3>2. TypeOK'
      BY <3>a, Zenon DEF TypeOK
    <3>3. WorkerState'
      BY <3>a, Zenon DEF TypeOK
    <3>4. BusyCount'
      BY <1>3, <2>1, <3>1, Zenon DEF WorkerCheck, BusyCount, Serving
    <3> QED BY <1>3, <3>2, <3>3, <3>4, Zenon DEF WorkerCheck
  <2>2. CASE ~(ttg \/ wsock[w] = Null \/ wsock[w] \in BadConns)
    <3>1. Serving' = Serving \cup {w} /\ w \notin Serving
      BY <1>3, <2>2, SMTT(60) DEF WorkerCheck, Serving, TypeOK
    <3>2. Cardinality(Serving') = Cardinality(Serving) + 1
      BY <1>a, <3>1, FS_AddElement, Zenon
    <3>3. wsock[w] \in Conns
      BY <1>3, <2>2, Zenon DEF WorkerCheck, TypeOK
    <3>4. TypeOK'
      BY <1>3, <2>2, <3>3, SMTT(60) DEF WorkerCheck, TypeOK
    <3>5. BusyCount'
      BY <1>3, <2>2, <3>2, Zenon DEF WorkerCheck, BusyCount, Serving
    <3> QED BY <1>3, <2>2, <3>4, <3>5, SMTT(60) DEF WorkerCheck, TypeOK
  <2> QED BY <2>1, <2>2, Zenon
<1>4. CASE WorkerLog(w)
  <2>1. wsock[w] \in Conns
    BY <1>4, Zenon DEF WorkerLog, TypeOK
  <2> QED BY <1>4, <2>1 DEF WorkerLog, push, BusyCount, TypeOK
<1>5. CASE WorkerDone(w)
  <2>1. Serving' = Serving \ {w} /\ w \in Serving
    BY <1>5, Zenon DEF WorkerDone, Serving, TypeOK
  <2>2. Cardinality(Serving') = Cardinality(Serving) - 1
    BY <1>a, <2>1, FS_RemoveElement, SMTT(60)
  <2>3. BusyCount' /\ busychildren' \in Nat
    BY <1>a, <1>5, <2>1, <2>2, Zenon DEF WorkerDone, BusyCount, Serving
  <2>4. wsock[w] \in Conns
    BY <1>5, Zenon DEF WorkerDone, TypeOK
  <2> QED BY <1>5, <2>3, <2>4 DEF WorkerDone, TypeOK
<1> QED BY <1>1, <1>2, <1>3, <1>4, <1>5, Zenon DEF Worker

LEMMA OtherInv ==
  ASSUME Inv,
         \/ \E c \in Conns, l \in Listeners : ClientConnect(c, l)
         \/ Logger \/ MainTerm \/ Stop \/ MainReturn
  PROVE  Inv'
<1> USE FatControllerAssumption DEF Inv, ListenerState, WorkerState, MainState,
        BusyCount, TypeOK, stopVars, listenVars, workVars, logVars, histVars
<1>a. Cardinality(Workers) \in Nat
  BY CardNat, Zenon
<1>1. CASE \E c \in Conns, l \in Listeners : ClientConnect(c, l)
  BY <1>1, SMTT(60) DEF ClientConnect
<1>2. CASE LoggerTop
  BY <1>2, Zenon DEF LoggerTop
<1>3. CASE LoggerPop
  BY <1>3 DEF LoggerPop, CanPop
<1>4. CASE MainTerm
  BY <1>4, Zenon DEF MainTerm
<1>5. CASE MainPushNull
  BY <1>a, <1>5 DEF MainPushNull, push
<1>6. CASE MainStopLogger
  BY <1>6, Zenon DEF MainStopLogger
<1>7. CASE MainPushNullLog
  BY <1>7 DEF MainPushNullLog, push
<1>8. CASE \E l \in Listeners : MainSelfConnect(l)
  BY <1>8, SMTT(60) DEF MainSelfConnect
<1>9. CASE MainReturn
  BY <1>9, Zenon DEF MainReturn
<1> QED BY <1>1, <1>2, <1>3, <1>4, <1>5, <1>6, <1>7, <1>8, <1>9, Zenon DEF Logger, Stop

LEMMA NextInv == Inv /\ [Next]_vars => Inv'
<1> SUFFICES ASSUME Inv, [Next]_vars PROVE Inv'
  BY Zenon
<1>1. CASE Next
  BY <1>1, ListenerInv, WorkerInv, OtherInv, Zenon DEF Next
<1>2. CASE UNCHANGED vars
  BY <1>2, Zenon DEF vars, stopVars, listenVars, workVars, logVars, histVars, Inv,
     TypeOK, ListenerState, WorkerState, MainState, BusyCount
<1> QED BY <1>1, <1>2, Zenon

LEMMA SpecInv == Spec => []Inv
  BY InitInv, NextInv, PTL DEF Spec

(* The variables keep their types, and dystat->busychildren is the number of *)
(* workers inside handlePeer, for any number of workers: the guard object    *)
(* BusyGuard never drifts, whichever way handlePeer ends.                   *)
THEOREM TypeAndBusyCount == Spec => [](TypeOK /\ BusyCount)
<1>1. Inv => TypeOK /\ BusyCount
  BY Zenon DEF Inv
<1> QED BY <1>1, SpecInv, PTL

-----------------------------------------------------------------------------
(* Shutdown.  EnoughNulls is not inductive; what is kept by every step from  *)
(* MainTerm on is that the null records pushed so far are matched by records *)
(* in the queue and workers that no longer need one.                        *)
NotPopping == {w \in Workers : wpc[w] # "pop"}

NullBalance == ttg => nulls <= Len(http_worker_Q) + Cardinality(NotPopping)

LEMMA NullBalanceStep == Inv /\ Inv' /\ NullBalance /\ [Next]_vars => NullBalance'
<1> SUFFICES ASSUME Inv, Inv', NullBalance, [Next]_vars, ttg'
             PROVE  nulls' <= Len(http_worker_Q') + Cardinality(NotPopping')
  BY Zenon DEF NullBalance
<1> USE FatControllerAssumption
<1>a. /\ IsFiniteSet(NotPopping) /\ Cardinality(NotPopping) \in Nat
      /\ IsFiniteSet(NotPopping') /\ Cardinality(NotPopping') \in Nat
  BY CardNat, Zenon DEF NotPopping
<1>b. /\ Len(http_worker_Q) \in Nat /\ Len(http_worker_Q') \in Nat
      /\ nulls \in Nat /\ nulls' \in Nat
  BY CardNat DEF Inv, TypeOK
<1>1. ASSUME NEW l \in Listeners, ListenerPush(l)
      PROVE  nulls' <= Len(http_worker_Q') + Cardinality(NotPopping')
  <2>1. Len(http_worker_Q') = Len(http_worker_Q) + 1
    BY <1>1, SMTT(60) DEF ListenerPush, push, Inv, TypeOK, ListenerState
  <2> QED BY <1>1, <1>a, <1>b, <2>1
      DEF ListenerPush, stopVars, workVars, NotPopping, NullBalance
<1>2. ASSUME NEW w \in Workers, WorkerTop(w)
      PROVE  nulls' <= Len(http_worker_Q') + Cardinality(NotPopping')
  <2>1. NotPopping' = NotPopping
    BY <1>2, Zenon DEF WorkerTop, NotPopping, stopVars, Inv, TypeOK
  <2> QED BY <1>2, <1>a, <1>b, <2>1, Zenon DEF WorkerTop, stopVars, NullBalance
<1>3. ASSUME NEW w \in Workers, WorkerPop(w)
      PROVE  nulls' <= Len(http_worker_Q') + Cardinality(NotPopping')
  <2>1. NotPopping' = NotPopping \cup {w} /\ w \notin NotPopping
    BY <1>3 DEF WorkerPop, NotPopping, Inv, TypeOK
  <2>2. Cardinality(NotPopping') = Cardinality(NotPopping) + 1
    BY <1>a, <2>1, FS_AddElement, Zenon
  <2>3. Len(http_worker_Q') = Len(http_worker_Q) - 1
    BY <1>3 DEF WorkerPop, CanPop, Inv, TypeOK
  <2> QED BY <1>3, <1>a, <1>b, <2>2, <2>3 DEF WorkerPop, stopVars, NullBalance
<1>4. ASSUME NEW w \in Workers, WorkerCheck(w) \/ WorkerLog(w) \/ WorkerDone(w)
      PROVE  nulls' <= Len(http_worker_Q') + Cardinality(NotPopping')
  <2>1. NotPopping' = NotPopping
    BY <1>4, SMTT(60) DEF WorkerCheck, WorkerLog, WorkerDone, workVars, NotPopping, Inv,
       TypeOK
  <2> QED BY <1>4, <1>a, <1>b, <2>1, Zenon
      DEF WorkerCheck, WorkerLog, WorkerDone, stopVars, NullBalance
<1>5. CASE MainPushNull
  <2>1. Len(http_worker_Q') = Len(http_worker_Q) + 1
    BY <1>5, SMTT(60) DEF MainPushNull, push, Inv, TypeOK
  <2> QED BY <1>5, <1>a, <1>b, <2>1
      DEF MainPushNull, workVars, NotPopping, NullBalance
<1>6. CASE MainTerm
  BY <1>6, <1>a, <1>b DEF MainTerm, Inv, MainState
<1>7. ASSUME UNCHANGED <<http_worker_Q, wpc, nulls, ttg>>
      PROVE  nulls' <= Len(http_worker_Q') + Cardinality(NotPopping')
  BY <1>7, SMTT(60) DEF NullBalance, NotPopping
<1>8. \/ \E l \in Listeners : ListenerPush(l)
      \/ \E w \in Workers : Worker(w)
      \/ MainPushNull
      \/ MainTerm
      \/ UNCHANGED <<http_worker_Q, wpc, nulls, ttg>>
  BY ZenonT(60) DEF Next, Listener, Stop, Logger, ClientConnect, ListenerTop, Accept,
     AcceptFails, ListenerClose, LoggerTop, LoggerPop, MainStopLogger,
     MainPushNullLog, MainSelfConnect, MainReturn, vars, stopVars, listenVars,
     workVars
<1> QED BY <1>1, <1>2, <1>3, <1>4, <1>5, <1>6, <1>7, <1>8, Zenon DEF Worker

(* From the moment the main thread has pushed its null records no worker     *)
(* waits in pop on an empty queue, whatever the workers, the listeners that  *)
(* still push and the main thread did before.                               *)
THEOREM WorkersAreReleased == Spec => []EnoughNulls
<1>1. Init => NullBalance
  BY Zenon DEF Init, NullBalance
<1>2. Spec => []NullBalance
  BY <1>1, SpecInv, NullBalanceStep, PTL DEF Spec
<1>3. Inv /\ NullBalance => EnoughNulls
  <2> SUFFICES ASSUME Inv, NullBalance, mpc \in {"logpush", "wake", "returned"}
               PROVE  Cardinality({w \in Workers : wpc[w] = "pop"})
                        <= Len(http_worker_Q)
    BY Zenon DEF EnoughNulls
  <2> DEFINE Popping == {w \in Workers : wpc[w] = "pop"}
  <2>1. Cardinality(Workers) <= Len(http_worker_Q) + Cardinality(NotPopping)
    BY Zenon DEF Inv, MainState, NullBalance
  <2>2. Workers = Popping \cup NotPopping /\ Popping \cap NotPopping = {}
    BY Zenon DEF NotPopping
  <2>3. /\ IsFiniteSet(Popping) /\ IsFiniteSet(NotPopping)
        /\ Cardinality(Popping) \in Nat /\ Cardinality(NotPopping) \in Nat
    BY CardNat, Zenon DEF NotPopping
  <2>4. Cardinality(Workers) = Cardinality(Popping) + Cardinality(NotPopping)
    <3>1. Cardinality(Popping \cap NotPopping) = 0
      BY <2>2, FS_EmptySet, Zenon
    <3>2. Cardinality(Popping \cup NotPopping) =
            Cardinality(Popping) + Cardinality(NotPopping)
              - Cardinality(Popping \cap NotPopping)
      BY <2>3, FS_Union, Zenon
    <3>3. Cardinality(Workers) = Cardinality(Popping \cup NotPopping)
      BY <2>2, Zenon
    <3> HIDE DEF Popping
    <3> QED BY <2>3, <3>1, <3>2, <3>3
  <2>5. Len(http_worker_Q) \in Nat
    BY DEF Inv, TypeOK
  <2> QED BY <2>1, <2>3, <2>4, <2>5
<1> QED BY <1>2, <1>3, SpecInv, PTL

-----------------------------------------------------------------------------
(* Sequences as collections of their members.                              *)
LEMMA AppendMembers ==
  ASSUME NEW S, NEW q \in Seq(S), NEW e \in S, NEW c
  PROVE  (\E i \in 1..Len(Append(q, e)) : Append(q, e)[i] = c)
           <=> (c = e \/ \E i \in 1..Len(q) : q[i] = c)
<1>1. Len(Append(q, e)) = Len(q) + 1 /\ Len(q) \in Nat
  OBVIOUS
<1>2. \A i \in 1..Len(q) : Append(q, e)[i] = q[i]
  OBVIOUS
<1>3. Append(q, e)[Len(q) + 1] = e
  OBVIOUS
<1>4. 1..(Len(q) + 1) = (1..Len(q)) \cup {Len(q) + 1}
  BY <1>1
<1> QED BY <1>1, <1>2, <1>3, <1>4, Zenon

LEMMA TailMembers ==
  ASSUME NEW S, NEW q \in Seq(S), q # <<>>, NEW c
  PROVE  (\E i \in 1..Len(q) : q[i] = c)
           <=> (c = Head(q) \/ \E i \in 1..Len(Tail(q)) : Tail(q)[i] = c)
<1>1. Len(Tail(q)) = Len(q) - 1 /\ Len(q) \in Nat /\ Len(q) >= 1
  OBVIOUS
<1>2. \A i \in 1..Len(Tail(q)) : Tail(q)[i] = q[i + 1]
  OBVIOUS
<1>3. Head(q) = q[1]
  OBVIOUS
<1>4. ASSUME NEW i \in 1..Len(q), q[i] = c, c # Head(q)
      PROVE  \E j \in 1..Len(Tail(q)) : Tail(q)[j] = c
  <2>1. i - 1 \in 1..Len(Tail(q))
    BY <1>1, <1>3, <1>4
  <2>2. Tail(q)[i - 1] = q[i]
    BY <1>2, <2>1
  <2> QED BY <1>4, <2>1, <2>2, Zenon
<1>5. ASSUME NEW i \in 1..Len(Tail(q)), Tail(q)[i] = c
      PROVE  \E j \in 1..Len(q) : q[j] = c
  BY <1>1, <1>2, <1>5
<1> QED BY <1>1, <1>3, <1>4, <1>5

-----------------------------------------------------------------------------
(* Connections given up, and log records.                                  *)
LEMMA ClosedServedStep == Inv /\ ClosedServed /\ [Next]_vars => ClosedServed'
<1> SUFFICES ASSUME Inv, ClosedServed, [Next]_vars, ~ttg',
                    NEW c \in closed' \ (served' \cup BadConns)
             PROVE  \E l \in Listeners : errorcount'[l] = MaxAcceptErrors
  BY SMTT(60) DEF ClosedServed
<1> USE FatControllerAssumption
<1>1. /\ served \subseteq served'
      /\ ~ttg
  BY ZenonT(60) DEF Inv, TypeOK, Next, Listener, Worker, Logger, Stop, ListenerTop, Accept,
     ListenerPush, AcceptFails, ListenerClose, WorkerTop, WorkerPop,
     WorkerCheck, WorkerLog, WorkerDone, LoggerTop, LoggerPop, MainTerm,
     MainPushNull, MainStopLogger, MainPushNullLog, MainSelfConnect,
     MainReturn, ClientConnect, vars, stopVars, histVars
<1>2. ASSUME NEW l \in Listeners, errorcount[l] = MaxAcceptErrors
      PROVE  errorcount'[l] = MaxAcceptErrors
  <2>a. lpc[l] = "accept" => errorcount[l] < MaxAcceptErrors
    BY Zenon DEF Inv, ListenerState
  <2>1. lpc[l] # "accept"
    <3> HIDE DEF Inv
    <3> QED BY <1>2, <2>a
  <2>2. ASSUME NEW k \in Listeners,
               Accept(k) \/ \E transient \in BOOLEAN : AcceptFails(k, transient)
        PROVE  errorcount'[l] = errorcount[l]
    BY <2>1, <2>2, SMTT(60) DEF Accept, AcceptFails, Inv, TypeOK
  <2>3. \/ \E k \in Listeners :
             Accept(k) \/ \E transient \in BOOLEAN : AcceptFails(k, transient)
        \/ UNCHANGED errorcount
    BY Zenon DEF Next, Listener, Worker, Logger, Stop, ListenerTop, ListenerPush,
       ListenerClose, WorkerTop, WorkerPop, WorkerCheck, WorkerLog, WorkerDone,
       LoggerTop, LoggerPop, MainTerm, MainPushNull, MainStopLogger,
       MainPushNullLog, MainSelfConnect, MainReturn, ClientConnect, vars,
       listenVars
  <2> QED BY <1>2, <2>2, <2>3, Zenon
<1>3. CASE c \in closed
  BY <1>1, <1>2, <1>3, Zenon DEF ClosedServed
<1>4. CASE c \notin closed
  <2>1. \/ \E l \in Listeners : ListenerClose(l)
        \/ \E w \in Workers : WorkerCheck(w) \/ WorkerDone(w)
    BY <1>1, <1>4, ZenonT(60) DEF Next, Listener, Worker, Logger, Stop, ListenerTop, Accept,
       ListenerPush, AcceptFails, WorkerTop, WorkerPop, WorkerLog, LoggerTop,
       LoggerPop, MainTerm, MainPushNull, MainStopLogger, MainPushNullLog,
       MainSelfConnect, MainReturn, ClientConnect, vars, histVars
  <2>2. ASSUME NEW l \in Listeners, ListenerClose(l)
        PROVE  errorcount'[l] = MaxAcceptErrors
    BY <1>1, <2>2, Zenon DEF ListenerClose, Inv, ListenerState
  <2>3. ASSUME NEW w \in Workers, WorkerCheck(w) PROVE FALSE
    BY <1>1, <1>4, <2>3, Zenon DEF WorkerCheck
  <2>4. ASSUME NEW w \in Workers, WorkerDone(w) PROVE FALSE
    BY <1>1, <1>4, <2>4, Zenon DEF WorkerDone, Inv, WorkerState
  <2> QED BY <2>1, <2>2, <2>3, <2>4, SMTT(60)
<1> QED BY <1>3, <1>4, Zenon

(* No usable connection is given up while the daemon runs, unless a listener *)
(* has failed for good: a connection that is accepted is served.            *)
THEOREM AcceptedAreServed == Spec => []ClosedServed
<1>1. Init => ClosedServed
  BY Zenon DEF Init, ClosedServed
<1> QED BY <1>1, SpecInv, ClosedServedStep, PTL DEF Spec

Queued(q, c) == \E i \in 1..Len(q) : q[i] = c

LEMMA LogAppend ==
  ASSUME NEW q \in Seq(Conns \cup {Null}), NEW e \in Conns \cup {Null}, NEW c
  PROVE  Queued(Append(q, e), c) <=> (c = e \/ Queued(q, c))
  BY AppendMembers DEF Queued

LEMMA LogKeptStep == Inv /\ LogKept /\ [Next]_vars => LogKept'
<1> SUFFICES ASSUME Inv, LogKept, [Next]_vars, ~logger_ttg', NEW c \in logged'
             PROVE  c \in written' \/ \E i \in 1..Len(log_Q') : log_Q'[i] = c
  BY Zenon DEF LogKept
<1> USE FatControllerAssumption
<1>0. log_Q \in Seq(Conns \cup {Null})
  BY Zenon DEF Inv, TypeOK
<1>1. ASSUME NEW w \in Workers, WorkerLog(w)
      PROVE  c \in written' \/ \E i \in 1..Len(log_Q') : log_Q'[i] = c
  <2>1. /\ wsock[w] \in Conns \cup {Null} /\ log_Q' = Append(log_Q, wsock[w])
        /\ c \in logged \/ c = wsock[w]
        /\ ~logger_ttg /\ written' = written
    BY <1>1, SMTT(60) DEF WorkerLog, push, stopVars, Inv, TypeOK, WorkerState
  <2>2. (\E i \in 1..Len(log_Q') : log_Q'[i] = c)
          <=> (c = wsock[w] \/ \E i \in 1..Len(log_Q) : log_Q[i] = c)
    <3> DEFINE e == wsock[w]
    <3>1. e \in Conns \cup {Null}
      BY <2>1, Zenon
    <3> HIDE DEF e
    <3>2. Queued(Append(log_Q, e), c) <=> (c = e \/ Queued(log_Q, c))
      BY <1>0, <3>1, LogAppend, Zenon
    <3> QED BY <2>1, <3>2, Zenon DEF e, Queued
  <2> QED BY <2>1, <2>2, Zenon DEF LogKept
<1>2. CASE LoggerPop
  <2>1. /\ log_Q # <<>> /\ log_Q' = Tail(log_Q) /\ c \in logged /\ ~logger_ttg
        /\ written' = written \cup ({Head(log_Q)} \cap Conns)
        /\ c \in Conns
    BY <1>2, Zenon DEF LoggerPop, CanPop, stopVars, histVars, Inv, TypeOK
  <2>2. (\E i \in 1..Len(log_Q) : log_Q[i] = c)
          <=> (c = Head(log_Q) \/ \E i \in 1..Len(log_Q') : log_Q'[i] = c)
    BY <1>0, <2>1, TailMembers
  <2> QED BY <2>1, <2>2, Zenon DEF LogKept
<1>3. CASE MainPushNullLog
  <2>1. /\ log_Q' = Append(log_Q, Null) /\ c \in logged /\ ~logger_ttg
        /\ written' = written
    BY <1>3, Zenon DEF MainPushNullLog, push, histVars
  <2>2. Null \in Conns \cup {Null}
    BY Zenon
  <2>3. (\E i \in 1..Len(Append(log_Q, Null)) : Append(log_Q, Null)[i] = c)
          <=> (c = Null \/ \E i \in 1..Len(log_Q) : log_Q[i] = c)
    BY <1>0, <2>2, AppendMembers
  <2> QED BY <2>1, <2>3, Zenon DEF LogKept
<1>4. ASSUME UNCHANGED <<log_Q, written, logged>>, ~logger_ttg
      PROVE  c \in written' \/ \E i \in 1..Len(log_Q') : log_Q'[i] = c
  BY <1>4, SMTT(60) DEF LogKept
<1>5. \/ \E w \in Workers : WorkerLog(w)
      \/ LoggerPop
      \/ MainPushNullLog
      \/ UNCHANGED <<log_Q, written, logged>> /\ ~logger_ttg
  BY ZenonT(60) DEF Next, Listener, Worker, Logger, Stop, ListenerTop, Accept,
     ListenerPush, AcceptFails, ListenerClose, WorkerTop, WorkerPop,
     WorkerCheck, WorkerDone, LoggerTop, MainTerm, MainPushNull,
     MainStopLogger, MainSelfConnect, MainReturn, ClientConnect, vars,
     stopVars, logVars, histVars
<1> QED BY <1>1, <1>2, <1>3, <1>4, <1>5, Zenon

(* Until the tidy-up tells the log writer to stop, no record is lost between *)
(* doLog and the log file.                                                 *)
THEOREM LogRecordsAreKept == Spec => []LogKept
<1>1. Init => LogKept
  BY Zenon DEF Init, LogKept
<1> QED BY <1>1, SpecInv, LogKeptStep, PTL DEF Spec

-----------------------------------------------------------------------------
(* Proof that every connection has one owner, for any number of workers,   *)
(* listeners and connections.  Each lemma says of one action where it moves *)
(* which connections.                                                      *)

(* What a step does to the places: the connections of M go to place q, the   *)
(* others stay where they are.                                             *)
Moves(M, q) ==
  \A c \in Conns, r \in Places : At(c, r)' <=> IF c \in M THEN r = q ELSE At(c, r)

LEMMA MovesOnePlace ==
  ASSUME OnePlace, NEW M, NEW q \in Places, Moves(M, q)
  PROVE  OnePlace'
<1> SUFFICES ASSUME NEW c \in Conns
             PROVE  \E p \in Places : \A r \in Places : At(c, r)' <=> r = p
  BY Zenon DEF OnePlace, Places
<1>1. CASE c \in M
  BY <1>1, Zenon DEF Moves
<1>2. CASE c \notin M
  BY <1>2, Zenon DEF Moves, OnePlace
<1> QED BY <1>1, <1>2, Zenon

LEMMA Exclusive ==
  ASSUME OnePlace, NEW c \in Conns, NEW p \in Places, At(c, p),
         NEW r \in Places, r # p
  PROVE  ~At(c, r)
  BY Zenon DEF OnePlace

LEMMA InitOneOwner == Init => OneOwner
<1> SUFFICES ASSUME Init PROVE OneOwner
  BY Zenon
<1> USE FatControllerAssumption DEF Init
<1>1. \A c \in Conns, r \in Places : At(c, r) <=> r = "client"
  BY DEF At, Places
<1>2. OnePlace
  BY <1>1, Zenon DEF OnePlace, Places
<1>3. OneHolder
  BY DEF OneHolder
<1> QED BY <1>2, <1>3, Zenon DEF OneOwner

LEMMA ClientConnectOwner ==
  ASSUME Inv, OneOwner, NEW c \in Conns, NEW l \in Listeners, ClientConnect(c, l)
  PROVE  OneOwner'
<1> USE FatControllerAssumption DEF OneOwner
<1>1. At(c, "client")
  BY Zenon DEF ClientConnect, At
<1>2. \A r \in Places \ {"client"} : ~At(c, r)
  BY <1>1, Exclusive, Zenon DEF Places
<1>a. /\ fresh' = fresh \ {c}
      /\ backlog' = [backlog EXCEPT ![l] = @ \cup {c}]
      /\ UNCHANGED <<lsock, http_worker_Q, wsock, closed>>
      /\ backlog \in [Listeners -> SUBSET (Conns \cup {Wake})]
  BY Zenon DEF ClientConnect, workVars, Inv, TypeOK
<1>3. Moves({c}, "kernel")
  <2>1. \A d \in Conns : At(d, "client")' <=> d # c /\ At(d, "client")
    BY <1>a, Zenon DEF At
  <2>2. \A d \in Conns : At(d, "kernel")' <=> d = c \/ At(d, "kernel")
    BY <1>a, Zenon DEF At
  <2>3. \A d \in Conns, r \in {"listener", "queue", "worker", "closed"} :
          At(d, r)' <=> At(d, r)
    BY <1>a DEF At
  <2> QED BY <1>2, <2>1, <2>2, <2>3, Zenon DEF Moves, Places
<1>4. OneHolder'
  <2>1. \A k \in Listeners : c \notin backlog[k]
    BY <1>2, Zenon DEF At, Places
  <2>2. \A k, m \in Listeners, d \in Conns :
          d \in backlog'[k] /\ d \in backlog'[m] => k = m
    BY <1>a, <2>1, Zenon DEF OneHolder
  <2> QED BY <1>a, <2>2, Zenon DEF OneHolder
<1> QED BY <1>3, <1>4, MovesOnePlace, Zenon DEF Places

LEMMA AcceptOwner ==
  ASSUME Inv, OneOwner, NEW l \in Listeners, Accept(l)
  PROVE  OneOwner'
<1> USE FatControllerAssumption DEF OneOwner
<1>1. PICK s \in backlog[l] :
        /\ backlog' = [backlog EXCEPT ![l] = @ \ {s}]
        /\ ttg => closed' = closed \cup ({s} \cap Conns) /\ UNCHANGED lsock
        /\ ~ttg => lsock' = [lsock EXCEPT ![l] = s] /\ UNCHANGED closed
  BY Zenon DEF Accept
<1>2. UNCHANGED <<fresh, http_worker_Q, wsock>>
  BY Zenon DEF Accept, workVars
<1>3. s \in Conns => At(s, "kernel") /\ \A r \in Places \ {"kernel"} : ~At(s, r)
  <2>1. At(s, "kernel")
    BY Zenon DEF At
  <2> QED BY <2>1, Exclusive, Zenon DEF Places
<1>4. \A k \in Listeners : s \in Conns /\ s \in backlog[k] => k = l
  BY Zenon DEF OneHolder
<1>7. \A c \in Conns : At(c, "kernel")' <=> c # s /\ At(c, "kernel")
  <2>1. \A k \in Listeners : backlog'[k] = IF k = l THEN backlog[k] \ {s} ELSE backlog[k]
    BY <1>1, Zenon DEF Inv, TypeOK
  <2> QED BY <1>4, <2>1, ZenonT(60) DEF At
<1>8. \A k, m \in Listeners, c \in Conns :
        c \in backlog'[k] /\ c \in backlog'[m] => k = m
  <2>1. \A k \in Listeners : backlog'[k] \subseteq backlog[k]
    BY <1>1, Zenon DEF Inv, TypeOK
  <2> QED BY <2>1, Zenon DEF OneHolder
<1>5. CASE ttg
  <2>1. Moves({s} \cap Conns, "closed")
    <3>1. \A c \in Conns : At(c, "closed")' <=> c = s \/ At(c, "closed")
      BY <1>1, <1>5, Zenon DEF At
    <3>2. \A c \in Conns, r \in {"client", "listener", "queue", "worker"} :
            At(c, r)' <=> At(c, r)
      <4>1. UNCHANGED lsock
        BY <1>1, <1>5, Zenon
      <4> QED BY <1>2, <4>1, SMTT(60) DEF At
    <3> QED BY <1>3, <1>7, <3>1, <3>2, Zenon DEF Moves, Places
  <2>2. OneHolder'
    BY <1>1, <1>2, <1>5, <1>8, Zenon DEF OneHolder
  <2> QED BY <2>1, <2>2, MovesOnePlace, Zenon DEF Places
<1>6. CASE ~ttg
  <2>a. s \in Conns
    BY <1>6 DEF Inv, TypeOK, ListenerState
  <2>b. lsock[l] = NoSock
    BY Zenon DEF Accept, Inv, ListenerState
  <2>1. Moves({s}, "listener")
    <3>1. \A c \in Conns : At(c, "listener")' <=> c = s \/ At(c, "listener")
      <4>1. \A k \in Listeners : lsock'[k] = IF k = l THEN s ELSE lsock[k]
        BY <1>1, <1>6, Zenon DEF Inv, TypeOK
      <4> QED BY <2>b, <4>1, SMTT(60) DEF At
    <3>2. \A c \in Conns, r \in {"client", "queue", "worker", "closed"} :
            At(c, r)' <=> At(c, r)
      <4>1. UNCHANGED closed
        BY <1>1, <1>6, Zenon
      <4> QED BY <1>2, <4>1, SMTT(60) DEF At
    <3> QED BY <1>3, <1>7, <2>a, <3>1, <3>2, Zenon DEF Moves, Places
  <2>2. OneHolder'
    <3>1. \A k \in Listeners : lsock[k] # s
      BY <1>3, <2>a, Zenon DEF At, Places
    <3>2. \A k, m \in Listeners :
            lsock'[k] \in Conns /\ lsock'[k] = lsock'[m] => k = m
      <4>1. \A k \in Listeners : lsock'[k] = IF k = l THEN s ELSE lsock[k]
        BY <1>1, <1>6, Zenon DEF Inv, TypeOK
      <4>2. \A k, m \in Listeners : lsock[k] \in Conns /\ lsock[k] = lsock[m] => k = m
        BY Zenon DEF OneHolder
      <4> QED BY <3>1, <4>1, <4>2, Zenon
    <3> QED BY <1>2, <1>8, <3>2, Zenon DEF OneHolder
  <2> QED BY <2>1, <2>2, MovesOnePlace, Zenon DEF Places
<1> QED BY <1>5, <1>6, Zenon

LEMMA ListenerPushOwner ==
  ASSUME Inv, OneOwner, NEW l \in Listeners, ListenerPush(l)
  PROVE  OneOwner'
<1> USE FatControllerAssumption DEF OneOwner
<1> DEFINE s == lsock[l]
<1>1. s \in Conns
  BY Zenon DEF ListenerPush, Inv, TypeOK, ListenerState
<1>2. At(s, "listener") /\ \A r \in Places \ {"listener"} : ~At(s, r)
  <2>1. At(s, "listener")
    BY Zenon DEF At
  <2> QED BY <1>1, <2>1, Exclusive, Zenon DEF Places
<1>3. http_worker_Q' = Append(http_worker_Q, s) /\ http_worker_Q \in Seq(Conns \cup {Null})
  BY Zenon DEF ListenerPush, push, Inv, TypeOK
<1>4. \A c \in Conns : At(c, "queue")' <=> c = s \/ At(c, "queue")
  <2> SUFFICES ASSUME NEW c \in Conns PROVE At(c, "queue")' <=> c = s \/ At(c, "queue")
    BY Zenon
  <2> HIDE DEF s
  <2>s. s \in Conns \cup {Null} /\ http_worker_Q \in Seq(Conns \cup {Null})
    BY <1>1, <1>3, Zenon
  <2>m. (\E i \in 1..Len(Append(http_worker_Q, s)) : Append(http_worker_Q, s)[i] = c)
          <=> (c = s \/ \E i \in 1..Len(http_worker_Q) : http_worker_Q[i] = c)
    BY <2>s, AppendMembers, SMTT(60)
  <2>q. http_worker_Q' = Append(http_worker_Q, s)
    BY <1>3, Zenon
  <2> QED BY <2>m, <2>q, ZenonT(60) DEF At
<1>5. UNCHANGED <<fresh, backlog, wsock, closed>> /\ lsock' = [lsock EXCEPT ![l] = NoSock]
  BY Zenon DEF ListenerPush, workVars, histVars
<1>6. Moves({s}, "queue")
  <2>1. \A c \in Conns : At(c, "listener")' <=> c # s /\ At(c, "listener")
    <3>1. \A k \in Listeners : lsock'[k] = IF k = l THEN NoSock ELSE lsock[k]
      BY <1>5, Zenon DEF Inv, TypeOK
    <3>2. \A k \in Listeners : lsock[k] = s => k = l
      BY <1>1, Zenon DEF OneHolder
    <3>3. \A c \in Conns : c # NoSock
      BY Zenon
    <3> HIDE DEF s
    <3>4. lsock[l] = s
      BY Zenon DEF s
    <3> QED BY <3>1, <3>2, <3>3, <3>4, Zenon DEF At
  <2>2. \A c \in Conns, r \in {"client", "kernel", "worker", "closed"} :
          At(c, r)' <=> At(c, r)
    BY <1>5, SMTT(60) DEF At
  <2> HIDE DEF s
  <2> QED BY <1>2, <1>4, <2>1, <2>2, Zenon DEF Moves, Places
<1>7. OneHolder'
  <2>1. \A i \in 1..Len(http_worker_Q) : http_worker_Q[i] # s
    BY <1>2, Zenon DEF At, Places
  <2>2. \A i, j \in 1..Len(http_worker_Q') :
          http_worker_Q'[i] \in Conns /\ http_worker_Q'[i] = http_worker_Q'[j] => i = j
    <3> HIDE DEF s
    <3>1. /\ Len(http_worker_Q') = Len(http_worker_Q) + 1
          /\ Len(http_worker_Q) \in Nat
          /\ \A i \in 1..Len(http_worker_Q) : http_worker_Q'[i] = http_worker_Q[i]
          /\ http_worker_Q'[Len(http_worker_Q) + 1] = s
      BY <1>1, <1>3
    <3>2. \A i, j \in 1..Len(http_worker_Q) :
            http_worker_Q[i] \in Conns /\ http_worker_Q[i] = http_worker_Q[j] => i = j
      BY Zenon DEF OneHolder
    <3>3. \A i \in 1..Len(http_worker_Q') :
            i \in 1..Len(http_worker_Q) \/ i = Len(http_worker_Q) + 1
      BY <3>1
    <3> QED BY <2>1, <3>1, <3>2, <3>3, Zenon
  <2>3. \A j, k \in Listeners : lsock'[j] \in Conns /\ lsock'[j] = lsock'[k] => j = k
    <3>1. \A j, k \in Listeners : lsock[j] \in Conns /\ lsock[j] = lsock[k] => j = k
      BY Zenon DEF OneHolder
    <3>2. \A k \in Listeners : lsock'[k] = IF k = l THEN NoSock ELSE lsock[k]
      BY <1>5, Zenon DEF Inv, TypeOK
    <3> QED BY <3>1, <3>2, Zenon
  <2>4. /\ \A v, w \in Workers : wsock'[v] \in Conns /\ wsock'[v] = wsock'[w] => v = w
        /\ \A j, k \in Listeners, c \in Conns :
             c \in backlog'[j] /\ c \in backlog'[k] => j = k
    BY <1>5, Zenon DEF OneHolder
  <2> QED BY <2>2, <2>3, <2>4, Zenon DEF OneHolder
<1> QED BY <1>6, <1>7, MovesOnePlace, Zenon DEF Places

LEMMA ListenerCloseOwner ==
  ASSUME Inv, OneOwner, NEW l \in Listeners, ListenerClose(l)
  PROVE  OneOwner'
<1> USE FatControllerAssumption DEF OneOwner
<1>1. ASSUME NEW c \in Conns, c \in backlog[l]
      PROVE  /\ \A r \in Places \ {"kernel"} : ~At(c, r)
             /\ \A k \in Listeners : c \in backlog[k] => k = l
  <2>1. At(c, "kernel")
    BY <1>1, Zenon DEF At
  <2> QED BY <1>1, <2>1, Exclusive, Zenon DEF Places, OneHolder
<1>2. /\ UNCHANGED <<fresh, lsock, http_worker_Q, wsock>>
      /\ backlog' = [backlog EXCEPT ![l] = {}]
      /\ closed' = closed \cup (backlog[l] \cap Conns)
  BY Zenon DEF ListenerClose, workVars
<1>3. Moves(backlog[l] \cap Conns, "closed")
  <2>1. \A c \in Conns : At(c, "kernel")' <=> c \notin backlog[l] /\ At(c, "kernel")
    <3>1. \A k \in Listeners : backlog'[k] = IF k = l THEN {} ELSE backlog[k]
      BY <1>2, Zenon DEF Inv, TypeOK
    <3> QED BY <1>1, <3>1, Zenon DEF At
  <2>2. \A c \in Conns : At(c, "closed")' <=> c \in backlog[l] \/ At(c, "closed")
    BY <1>2, Zenon DEF At
  <2>3. \A c \in Conns, r \in {"client", "listener", "queue", "worker"} :
          At(c, r)' <=> At(c, r)
    BY <1>2 DEF At
  <2> QED BY <1>1, <2>1, <2>2, <2>3, Zenon DEF Moves, Places
<1>4. OneHolder'
  <2>1. \A k \in Listeners : backlog'[k] \subseteq backlog[k]
    BY <1>2, Zenon DEF Inv, TypeOK
  <2> QED BY <1>2, <2>1, Zenon DEF OneHolder
<1> QED BY <1>3, <1>4, MovesOnePlace, Zenon DEF Places

LEMMA WorkerPopOwner ==
  ASSUME Inv, OneOwner, NEW w \in Workers, WorkerPop(w)
  PROVE  OneOwner'
<1> USE FatControllerAssumption DEF OneOwner
<1> DEFINE q == http_worker_Q
           s == Head(http_worker_Q)
<1>1. /\ q \in Seq(Conns \cup {Null}) /\ q # <<>>
      /\ s \in Conns \cup {Null}
      /\ q' = Tail(q)
      /\ wsock' = [wsock EXCEPT ![w] = s]
      /\ wsock[w] = NoSock
      /\ UNCHANGED <<fresh, backlog, lsock, closed>>
  <2>1. /\ q \in Seq(Conns \cup {Null}) /\ q # <<>>
        /\ q' = Tail(q)
        /\ wsock' = [wsock EXCEPT ![w] = s]
        /\ UNCHANGED <<fresh, backlog, lsock, closed>>
    BY Zenon DEF WorkerPop, CanPop, listenVars, histVars, Inv, TypeOK
  <2>2. wsock[w] = NoSock
    BY Zenon DEF WorkerPop, Inv, WorkerState
  <2>3. s \in Conns \cup {Null}
    BY <2>1
  <2> QED BY <2>1, <2>2, <2>3, Zenon
<1>2. s \in Conns => At(s, "queue") /\ \A r \in Places \ {"queue"} : ~At(s, r)
  <2>1. At(s, "queue")
    BY <1>1 DEF At
  <2> QED BY <2>1, Exclusive, Zenon DEF Places
<1>3. /\ Len(q') = Len(q) - 1 /\ Len(q) \in Nat /\ Len(q) >= 1
      /\ \A i \in 1..Len(q') : q'[i] = q[i + 1]
      /\ q[1] = s
  BY <1>1
<1>4. \A i, j \in 1..Len(q) : q[i] \in Conns /\ q[i] = q[j] => i = j
  BY Zenon DEF OneHolder
<1>5. \A c \in Conns : At(c, "queue")' <=> c # s /\ At(c, "queue")
  <2> SUFFICES ASSUME NEW c \in Conns
               PROVE  At(c, "queue")' <=> c # s /\ At(c, "queue")
    BY Zenon
  <2>1. At(c, "queue") <=> c = s \/ At(c, "queue")'
    <3> HIDE DEF s
    <3>1. (\E i \in 1..Len(q) : q[i] = c)
            <=> (c = Head(q) \/ \E i \in 1..Len(Tail(q)) : Tail(q)[i] = c)
      <4>1. q \in Seq(Conns \cup {Null}) /\ q # <<>>
        BY <1>1, Zenon
      <4> HIDE DEF q
      <4> QED BY <4>1, TailMembers, ZenonT(60)
    <3> QED BY <1>1, <3>1, Zenon DEF At, s
  <2>2. c = s => ~At(c, "queue")'
    <3> SUFFICES ASSUME c = s, NEW i \in 1..Len(q'), q'[i] = c PROVE FALSE
      BY Zenon DEF At
    <3>1. i + 1 \in 1..Len(q) /\ 1 \in 1..Len(q) /\ q[i + 1] = q[1] /\ i + 1 # 1
      BY <1>3
    <3> QED BY <1>3, <1>4, <3>1, Zenon
  <2> QED BY <2>1, <2>2, Zenon
<1>6. \A c \in Conns : At(c, "worker")' <=> c = s \/ At(c, "worker")
  <2> HIDE DEF s
  <2>1. \A v \in Workers : wsock'[v] = IF v = w THEN s ELSE wsock[v]
    BY <1>1, Zenon DEF Inv, TypeOK
  <2>2. wsock[w] = NoSock
    BY <1>1, Zenon
  <2> QED BY <2>1, <2>2, SMTT(60) DEF At
<1>7. \A c \in Conns, r \in {"client", "kernel", "listener", "closed"} :
        At(c, r)' <=> At(c, r)
  <2>1. UNCHANGED <<fresh, backlog, lsock, closed>>
    BY <1>1, Zenon
  <2> QED BY <2>1, SMTT(60) DEF At
<1>8. Moves({s} \cap Conns, "worker")
  <2> HIDE DEF s
  <2> QED BY <1>2, <1>5, <1>6, <1>7, Zenon DEF Moves, Places
<1>9. OneHolder'
  <2>1. \A i, j \in 1..Len(q') : q'[i] \in Conns /\ q'[i] = q'[j] => i = j
    <3> SUFFICES ASSUME NEW i \in 1..Len(q'), NEW j \in 1..Len(q'),
                        q'[i] \in Conns, q'[i] = q'[j]
                 PROVE  i = j
      BY Zenon
    <3>1. i + 1 \in 1..Len(q) /\ j + 1 \in 1..Len(q) /\ q[i + 1] = q[j + 1]
          /\ q[i + 1] \in Conns
      BY <1>3
    <3>2. i + 1 = j + 1
      BY <1>4, <3>1, Zenon
    <3> QED BY <3>2
  <2>2. s \in Conns => \A v \in Workers : wsock[v] # s
    BY <1>2, Zenon DEF At, Places
  <2>3. \A u, v \in Workers : wsock'[u] \in Conns /\ wsock'[u] = wsock'[v] => u = v
    <3> HIDE DEF s
    <3> QED BY <1>1, <2>2 DEF OneHolder, Inv, TypeOK
  <2> QED BY <1>1, <2>1, <2>3, Zenon DEF OneHolder
<1> HIDE DEF s
<1> QED BY <1>8, <1>9, MovesOnePlace, Zenon DEF Places

(* WorkerDone, and the branch of WorkerCheck that gives the connection up.   *)
LEMMA WorkerCloseOwner ==
  ASSUME Inv, OneOwner, NEW w \in Workers,
         closed' = closed \cup ({wsock[w]} \cap Conns),
         wsock' = [wsock EXCEPT ![w] = NoSock],
         UNCHANGED <<fresh, backlog, lsock, http_worker_Q>>
  PROVE  OneOwner'
<1> USE FatControllerAssumption DEF OneOwner
<1> DEFINE s == wsock[w]
<1>a. \A v \in Workers : wsock'[v] = IF v = w THEN NoSock ELSE wsock[v]
  BY Zenon DEF Inv, TypeOK
<1>1. s \in Conns => At(s, "worker") /\ \A r \in Places \ {"worker"} : ~At(s, r)
  <2>1. At(s, "worker")
    BY Zenon DEF At
  <2> QED BY <2>1, Exclusive, Zenon DEF Places
<1>2. \A c \in Conns : At(c, "worker")' <=> c # s /\ At(c, "worker")
  <2>2. \A v \in Workers : s \in Conns /\ wsock[v] = s => v = w
    BY Zenon DEF OneHolder
  <2> QED BY <1>a, <2>2, Zenon DEF At
<1>3. \A c \in Conns : At(c, "closed")' <=> c = s \/ At(c, "closed")
  BY Zenon DEF At
<1>4. \A c \in Conns, r \in {"client", "kernel", "listener", "queue"} :
        At(c, r)' <=> At(c, r)
  BY DEF At
<1>5. Moves({s} \cap Conns, "closed")
  <2> HIDE DEF s
  <2> QED BY <1>1, <1>2, <1>3, <1>4, Zenon DEF Moves, Places
<1>6. OneHolder'
  <2>1. \A u, v \in Workers : wsock[u] \in Conns /\ wsock[u] = wsock[v] => u = v
    BY Zenon DEF OneHolder
  <2>2. \A u, v \in Workers : wsock'[u] \in Conns /\ wsock'[u] = wsock'[v] => u = v
    BY <1>a, <2>1
  <2> QED BY <2>2, Zenon DEF OneHolder
<1> QED BY <1>5, <1>6, MovesOnePlace, Zenon DEF Places

LEMMA MainPushNullOwner ==
  ASSUME Inv, OneOwner, MainPushNull
  PROVE  OneOwner'
<1> USE FatControllerAssumption DEF OneOwner
<1>1. /\ http_worker_Q' = Append(http_worker_Q, Null)
      /\ http_worker_Q \in Seq(Conns \cup {Null})
      /\ UNCHANGED <<fresh, backlog, lsock, wsock, closed>>
  BY Zenon DEF MainPushNull, push, listenVars, workVars, histVars, Inv, TypeOK
<1>2. \A c \in Conns : At(c, "queue")' <=> At(c, "queue")
  <2> SUFFICES ASSUME NEW c \in Conns PROVE At(c, "queue")' <=> At(c, "queue")
    BY Zenon
  <2>1. (\E i \in 1..Len(Append(http_worker_Q, Null)) : Append(http_worker_Q, Null)[i] = c)
          <=> (c = Null \/ \E i \in 1..Len(http_worker_Q) : http_worker_Q[i] = c)
    BY <1>1, AppendMembers, SMTT(60)
  <2>2. http_worker_Q' = Append(http_worker_Q, Null) /\ c # Null
    BY <1>1, Zenon
  <2> QED BY <2>1, <2>2, ZenonT(60) DEF At
<1>3. \A c \in Conns, r \in Places \ {"queue"} : At(c, r)' <=> At(c, r)
  <2>1. UNCHANGED <<fresh, backlog, lsock, wsock, closed>>
    BY <1>1, Zenon
  <2> QED BY <2>1, SMTT(60) DEF At, Places
<1>4. OnePlace'
  <2>1. Moves({}, "queue")
    BY <1>2, <1>3, Zenon DEF Moves
  <2> QED BY <2>1, MovesOnePlace, Zenon DEF Places
<1>5. OneHolder'
  <2>1. /\ Len(http_worker_Q') = Len(http_worker_Q) + 1
        /\ Len(http_worker_Q) \in Nat
        /\ \A i \in 1..Len(http_worker_Q) : http_worker_Q'[i] = http_worker_Q[i]
        /\ http_worker_Q'[Len(http_worker_Q) + 1] = Null
    BY <1>1
  <2>2. \A i, j \in 1..Len(http_worker_Q') :
          http_worker_Q'[i] \in Conns /\ http_worker_Q'[i] = http_worker_Q'[j] => i = j
    BY <2>1, SMTT(60) DEF OneHolder
  <2> QED BY <1>1, <2>2, Zenon DEF OneHolder
<1> QED BY <1>4, <1>5, Zenon

LEMMA SelfConnectOwner ==
  ASSUME Inv, OneOwner, NEW l \in Listeners, MainSelfConnect(l)
  PROVE  OneOwner'
<1> USE FatControllerAssumption DEF OneOwner
<1>1. /\ \A k \in Listeners, c \in Conns : c \in backlog'[k] <=> c \in backlog[k]
      /\ UNCHANGED <<fresh, lsock, http_worker_Q, wsock, closed>>
  BY Zenon DEF MainSelfConnect, workVars, histVars, Inv, TypeOK
<1>2. Moves({}, "kernel")
  <2>1. \A c \in Conns : At(c, "kernel")' <=> At(c, "kernel")
    BY <1>1, Zenon DEF At
  <2>2. \A c \in Conns, r \in Places \ {"kernel"} : At(c, r)' <=> At(c, r)
    BY <1>1 DEF At, Places
  <2> QED BY <2>1, <2>2, Zenon DEF Moves, Places
<1>3. OneHolder'
  BY <1>1, Zenon DEF OneHolder
<1> QED BY <1>2, <1>3, MovesOnePlace, Zenon DEF Places

LEMMA OneOwnerStep == Inv /\ OneOwner /\ [Next]_vars => OneOwner'
<1> SUFFICES ASSUME Inv, OneOwner, [Next]_vars PROVE OneOwner'
  BY Zenon
<1>1. ASSUME UNCHANGED <<fresh, backlog, lsock, http_worker_Q, wsock, closed>>
      PROVE  OneOwner'
  BY <1>1, SMTT(60) DEF OneOwner, OnePlace, OneHolder, At, Places
<1>2. ASSUME NEW w \in Workers, WorkerCheck(w) PROVE OneOwner'
  <2>1. CASE ttg \/ wsock[w] = Null \/ wsock[w] \in BadConns
    BY <1>2, <2>1, WorkerCloseOwner, Zenon DEF WorkerCheck, listenVars
  <2>2. CASE ~(ttg \/ wsock[w] = Null \/ wsock[w] \in BadConns)
    BY <1>1, <1>2, <2>2, Zenon DEF WorkerCheck, listenVars
  <2> QED BY <2>1, <2>2, Zenon
<1>3. ASSUME NEW w \in Workers, WorkerDone(w) PROVE OneOwner'
  <2>1. wsock[w] \in Conns
    BY <1>3, Zenon DEF WorkerDone, Inv, TypeOK, WorkerState
  <2> QED BY <1>3, <2>1, WorkerCloseOwner, Zenon DEF WorkerDone, listenVars
<1>4. \/ \E c \in Conns, l \in Listeners : ClientConnect(c, l)
      \/ \E l \in Listeners :
           \/ Accept(l) \/ ListenerPush(l) \/ ListenerClose(l)
           \/ MainSelfConnect(l)
      \/ \E w \in Workers : WorkerPop(w) \/ WorkerCheck(w) \/ WorkerDone(w)
      \/ MainPushNull
      \/ UNCHANGED <<fresh, backlog, lsock, http_worker_Q, wsock, closed>>
  BY Zenon DEF Next, Listener, Worker, Logger, Stop, ListenerTop, AcceptFails,
     WorkerTop, WorkerLog, LoggerTop, LoggerPop, MainTerm, MainStopLogger,
     MainPushNullLog, MainReturn, vars, stopVars, listenVars, workVars,
     histVars
<1> QED BY Zenon, <1>1, <1>2, <1>3, <1>4, ClientConnectOwner, AcceptOwner,
           ListenerPushOwner, ListenerCloseOwner, SelfConnectOwner,
           WorkerPopOwner, MainPushNullOwner

(* Between accept, the queue and the workers every connection has exactly    *)
(* one owner: none is lost, queued twice, held by two threads, or held after *)
(* its Socket was destroyed, for any number of threads and connections.     *)
THEOREM ConnectionsHaveOneOwner == Spec => []OneOwner
  BY SpecInv, InitOneOwner, OneOwnerStep, PTL DEF Spec

-----------------------------------------------------------------------------
(* Proof that the thread system implements ConnService, for any number of  *)
(* workers, listeners and connections.  That a connection has one owner    *)
(* makes its phase follow from its place; each lemma says of one action    *)
(* whose phase it changes.                                                 *)

Served(c) == \E w \in Workers : wsock[w] = c /\ wpc[w] = "serve"

(* The connections of M go to phase p, the others keep theirs.             *)
Turns(M, p) == \A c \in Conns : Phase(c)' = IF c \in M THEN p ELSE Phase(c)

LEMMA PhaseOf ==
  ASSUME NEW c
  PROVE  /\ Phase(c) = IF At(c, "closed") THEN "done"
                       ELSE IF Served(c) THEN "serving"
                       ELSE IF At(c, "listener") \/ At(c, "queue") \/ At(c, "worker") THEN "waiting"
                       ELSE "new"
         /\ Phase(c)' = IF At(c, "closed")' THEN "done"
                        ELSE IF Served(c)' THEN "serving"
                        ELSE IF At(c, "listener")' \/ At(c, "queue")' \/ At(c, "worker")' THEN "waiting"
                        ELSE "new"
  BY Zenon DEF Phase, At, Served

(* A step that moves no connection between phases, and none by SIGTERM.    *)
LEMMA Stutters ==
  ASSUME Turns({}, "done"), ttg' = ttg
  PROVE  UNCHANGED Service!vars
<1>1. \A c \in Conns : Phase(c)' = Phase(c)
  BY Zenon DEF Turns
<1>2. [c \in Conns |-> Phase(c)]' = [c \in Conns |-> Phase(c)]
  BY <1>1, Zenon
<1> QED BY <1>2, Zenon DEF Service!vars

LEMMA SameData ==
  ASSUME UNCHANGED <<closed, wsock, wpc, lsock, http_worker_Q>>
  PROVE  Turns({}, "done")
  BY Zenon DEF Turns, Phase, At

(* One connection goes to phase p.                                         *)
LEMMA OneTurns ==
  ASSUME NEW s \in Conns, NEW p, Turns({s}, p)
  PROVE  [c \in Conns |-> Phase(c)]' = [[c \in Conns |-> Phase(c)] EXCEPT ![s] = p]
  BY Zenon DEF Turns

LEMMA DropStep ==
  ASSUME NEW S \in SUBSET Conns, Turns(S, "done"), ttg' = ttg,
         \A c \in S : Phase(c) = "new" \/ (Phase(c) = "waiting" /\ (ttg \/ c \in BadConns))
  PROVE  [Service!Next]_(Service!vars)
<1>1. CASE S = {}
  BY <1>1, Stutters, Zenon
<1>2. CASE S # {}
  <2>1. [c \in Conns |-> Phase(c)]'
          = [c \in Conns |-> IF c \in S THEN "done" ELSE [d \in Conns |-> Phase(d)][c]]
    BY Zenon DEF Turns
  <2>2. Service!Drop(S)
    BY <1>2, <2>1, Zenon DEF Service!Drop
  <2> QED BY <2>2, Zenon DEF Service!Next
<1> QED BY <1>1, <1>2, Zenon

-----------------------------------------------------------------------------
LEMMA AcceptService ==
  ASSUME Inv, OneOwner, NEW l \in Listeners, Accept(l)
  PROVE  [Service!Next]_(Service!vars)
<1> USE FatControllerAssumption DEF OneOwner
<1>1. PICK s \in backlog[l] :
        /\ ttg => closed' = closed \cup ({s} \cap Conns) /\ UNCHANGED lsock
        /\ ~ttg => lsock' = [lsock EXCEPT ![l] = s] /\ UNCHANGED closed
  BY Zenon DEF Accept
<1>2. UNCHANGED <<ttg, http_worker_Q, wsock, wpc>>
  BY Zenon DEF Accept, workVars, stopVars
<1>3. s \in Conns => At(s, "kernel") /\ \A r \in Places \ {"kernel"} : ~At(s, r)
  <2>1. At(s, "kernel")
    BY Zenon DEF At
  <2> QED BY <2>1, Exclusive, Zenon DEF Places
<1>4. s \in Conns => Phase(s) = "new"
  <2>1. s \in Conns => ~Served(s)
    BY <1>3, Zenon DEF At, Served, Places
  <2> QED BY <1>3, <2>1, PhaseOf, Zenon DEF Places
<1>5. CASE ttg
  <2>1. PICK S \in SUBSET Conns : S = {s} \cap Conns
    BY Zenon
  <2>2. Turns(S, "done")
    BY <1>1, <1>2, <1>5, <2>1, Zenon DEF Turns, Phase, At
  <2>3. \A c \in S : Phase(c) = "new"
    BY <1>4, <2>1, Zenon
  <2>4. ttg' = ttg
    BY <1>2, Zenon
  <2> QED BY <2>2, <2>3, <2>4, DropStep, Zenon
<1>6. CASE ~ttg
  <2>1. s \in Conns
    BY <1>6 DEF Inv, TypeOK, ListenerState
  <2>2. \A k \in Listeners : lsock'[k] = IF k = l THEN s ELSE lsock[k]
    BY <1>1, <1>6, Zenon DEF Inv, TypeOK
  <2>3. lsock[l] = NoSock
    BY Zenon DEF Accept, Inv, ListenerState
  <2>4. \A c \in Conns : At(c, "listener")' <=> c = s \/ At(c, "listener")
    BY <2>2, <2>3, Zenon DEF At
  <2>5. \A c \in Conns, r \in {"queue", "worker", "closed"} : At(c, r)' <=> At(c, r)
    BY <1>1, <1>2, <1>6, ZenonT(60) DEF At
  <2>6. \A c \in Conns : Served(c)' <=> Served(c)
    BY <1>2, Zenon DEF Served
  <2>7. Turns({s}, "waiting")
    BY <1>3, <1>4, <2>1, <2>4, <2>5, <2>6, PhaseOf, Zenon DEF Turns, Places
  <2>8. Service!Admit(s)
    BY <1>2, <1>4, <2>1, <2>7, OneTurns, Zenon DEF Service!Admit
  <2> QED BY <2>1, <2>8, Zenon DEF Service!Next
<1> QED BY <1>5, <1>6, Zenon

LEMMA ListenerPushService ==
  ASSUME Inv, OneOwner, NEW l \in Listeners, ListenerPush(l)
  PROVE  [Service!Next]_(Service!vars)
<1> USE FatControllerAssumption DEF OneOwner
<1> DEFINE s == lsock[l]
<1>1. /\ http_worker_Q' = Append(http_worker_Q, s)
      /\ lsock' = [lsock EXCEPT ![l] = NoSock]
      /\ UNCHANGED <<ttg, closed, wsock, wpc>>
  BY Zenon DEF ListenerPush, push, workVars, stopVars, histVars
<1>2. s \in Conns
  BY Zenon DEF ListenerPush, Inv, TypeOK, ListenerState
<1>3. http_worker_Q \in Seq(Conns \cup {Null})
  BY Zenon DEF Inv, TypeOK
<1>4. \A c \in Conns : At(c, "queue")' <=> c = s \/ At(c, "queue")
  <2> SUFFICES ASSUME NEW c \in Conns PROVE At(c, "queue")' <=> c = s \/ At(c, "queue")
    BY Zenon
  <2> HIDE DEF s
  <2>s. s \in Conns \cup {Null} /\ http_worker_Q \in Seq(Conns \cup {Null})
    BY <1>2, <1>3, Zenon
  <2>m. (\E i \in 1..Len(Append(http_worker_Q, s)) : Append(http_worker_Q, s)[i] = c)
          <=> (c = s \/ \E i \in 1..Len(http_worker_Q) : http_worker_Q[i] = c)
    BY <2>s, AppendMembers, SMTT(60)
  <2>q. http_worker_Q' = Append(http_worker_Q, s)
    BY <1>1, Zenon
  <2> QED BY <2>m, <2>q, ZenonT(60) DEF At
<1>5. \A k \in Listeners : lsock'[k] = IF k = l THEN NoSock ELSE lsock[k]
  BY <1>1, Zenon DEF Inv, TypeOK
<1>6. \A c \in Conns : c # s => (At(c, "listener")' <=> At(c, "listener"))
  BY <1>5, Zenon DEF At
<1>7. At(s, "listener")
  BY Zenon DEF At
<1>8. \A c \in Conns, r \in {"worker", "closed"} : At(c, r)' <=> At(c, r)
  BY <1>1, Zenon DEF At
<1>9. \A c \in Conns : Served(c)' <=> Served(c)
  BY <1>1, Zenon DEF Served
<1>10. Turns({}, "done")
  BY <1>4, <1>6, <1>7, <1>8, <1>9, PhaseOf, Zenon DEF Turns
<1> QED BY <1>1, <1>10, Stutters, Zenon

LEMMA ListenerCloseService ==
  ASSUME Inv, OneOwner, NEW l \in Listeners, ListenerClose(l)
  PROVE  [Service!Next]_(Service!vars)
<1> USE FatControllerAssumption DEF OneOwner
<1>0. PICK S \in SUBSET Conns : S = backlog[l] \cap Conns
  BY Zenon
<1>1. closed' = closed \cup S /\ UNCHANGED <<ttg, lsock, http_worker_Q, wsock, wpc>>
  BY <1>0, Zenon DEF ListenerClose, workVars, stopVars
<1>2. ASSUME NEW c \in S
      PROVE  Phase(c) = "new"
  <2>1. At(c, "kernel")
    BY <1>0, Zenon DEF At
  <2>2. \A r \in Places \ {"kernel"} : ~At(c, r)
    BY <2>1, Exclusive, Zenon DEF Places
  <2>3. ~Served(c)
    BY <2>2, Zenon DEF At, Served, Places
  <2> QED BY <2>2, <2>3, PhaseOf, Zenon DEF Places
<1>3. Turns(S, "done")
  BY <1>1, Zenon DEF Turns, Phase, At
<1>4. ttg' = ttg
  BY <1>1, Zenon
<1> QED BY <1>2, <1>3, <1>4, DropStep, Zenon

-----------------------------------------------------------------------------
LEMMA WorkerPopService ==
  ASSUME Inv, OneOwner, NEW w \in Workers, WorkerPop(w)
  PROVE  [Service!Next]_(Service!vars)
<1> USE FatControllerAssumption DEF OneOwner
<1> DEFINE s == Head(http_worker_Q)
<1>1. /\ http_worker_Q # <<>>
      /\ http_worker_Q' = Tail(http_worker_Q)
      /\ wsock' = [wsock EXCEPT ![w] = s]
      /\ wpc' = [wpc EXCEPT ![w] = "popped"]
      /\ UNCHANGED <<ttg, closed, lsock>>
  BY Zenon DEF WorkerPop, CanPop, stopVars, listenVars, histVars
<1>2. http_worker_Q \in Seq(Conns \cup {Null})
  BY Zenon DEF Inv, TypeOK
<1>3. \A c \in Conns : At(c, "queue") <=> c = s \/ At(c, "queue")'
  <2>1. PICK q \in Seq(Conns \cup {Null}) : q = http_worker_Q
    BY <1>2, Zenon
  <2>2. SUFFICES ASSUME NEW c \in Conns
                 PROVE  At(c, "queue") <=> c = s \/ At(c, "queue")'
    BY Zenon
  <2>3. (\E i \in 1..Len(q) : q[i] = c)
          <=> (c = Head(q) \/ \E i \in 1..Len(Tail(q)) : Tail(q)[i] = c)
    BY <1>1, <2>1, TailMembers
  <2> QED BY <1>1, <2>1, <2>3, Zenon DEF At
<1>4. \A v \in Workers : /\ wsock'[v] = IF v = w THEN s ELSE wsock[v]
                         /\ wpc'[v] = IF v = w THEN "popped" ELSE wpc[v]
  BY <1>1, Zenon DEF Inv, TypeOK
<1>5. wpc[w] = "pop" /\ wsock[w] = NoSock
  BY Zenon DEF WorkerPop, Inv, WorkerState
<1>6. \A c \in Conns : At(c, "worker")' <=> c = s \/ At(c, "worker")
  BY <1>4, <1>5, Zenon DEF At
<1>7. \A c \in Conns : Served(c)' <=> Served(c)
  BY <1>4, <1>5, Zenon DEF Served
<1>8. \A c \in Conns, r \in {"listener", "closed"} : At(c, r)' <=> At(c, r)
  BY <1>1, Zenon DEF At
<1>9. Turns({}, "done")
  BY <1>3, <1>6, <1>7, <1>8, PhaseOf, Zenon DEF Turns
<1> QED BY <1>1, <1>9, Stutters, Zenon

(* A worker that lets go of its connection, before serving it or after.    *)
LEMMA ReleasePhases ==
  ASSUME Inv, OneOwner, NEW w \in Workers, wpc[w] \in {"popped", "serve"},
         NEW S \in SUBSET Conns, S = {wsock[w]} \cap Conns,
         closed' = closed \cup S,
         wsock' = [wsock EXCEPT ![w] = NoSock], wpc' = [wpc EXCEPT ![w] = "top"],
         UNCHANGED <<lsock, http_worker_Q>>
  PROVE  Turns(S, "done")
<1> USE FatControllerAssumption DEF OneOwner
<1>1. \A v \in Workers : /\ wsock'[v] = IF v = w THEN NoSock ELSE wsock[v]
                         /\ wpc'[v] = IF v = w THEN "top" ELSE wpc[v]
  BY Zenon DEF Inv, TypeOK
<1>2. ASSUME NEW c \in Conns, c \notin S
      PROVE  /\ At(c, "worker")' <=> At(c, "worker")
             /\ Served(c)' <=> Served(c)
  BY <1>1, <1>2, ZenonT(60) DEF At, Served
<1>3. \A c \in Conns, r \in {"listener", "queue"} : At(c, r)' <=> At(c, r)
  BY Zenon DEF At
<1>4. \A c \in Conns : At(c, "closed")' <=> c \in S \/ At(c, "closed")
  BY Zenon DEF At
<1> QED BY <1>2, <1>3, <1>4, PhaseOf, Zenon DEF Turns

LEMMA WorkerDoneService ==
  ASSUME Inv, OneOwner, NEW w \in Workers, WorkerDone(w)
  PROVE  [Service!Next]_(Service!vars)
<1> USE FatControllerAssumption DEF OneOwner
<1>1. PICK s : s = wsock[w]
  BY Zenon
<1>2. /\ wpc[w] = "serve"
      /\ closed' = closed \cup {s}
      /\ wsock' = [wsock EXCEPT ![w] = NoSock]
      /\ wpc' = [wpc EXCEPT ![w] = "top"]
      /\ UNCHANGED <<ttg, lsock, http_worker_Q>>
  BY <1>1, Zenon DEF WorkerDone, stopVars, listenVars
<1>3. s \in Conns
  BY <1>1, <1>2, Zenon DEF Inv, TypeOK, WorkerState
<1>4. Turns({s}, "done")
  <2>1. {s} = {wsock[w]} \cap Conns /\ {s} \in SUBSET Conns
    BY <1>1, <1>3, Zenon
  <2> QED BY <1>2, <2>1, ReleasePhases, Zenon
<1>5. Phase(s) = "serving"
  <2>1. At(s, "worker") /\ Served(s)
    BY <1>1, <1>2, Zenon DEF At, Served
  <2>2. ~At(s, "closed")
    BY <1>3, <2>1, Exclusive, Zenon DEF Places
  <2> QED BY <2>1, <2>2, PhaseOf, Zenon
<1>6. Service!Finish(s)
  BY <1>2, <1>3, <1>4, <1>5, OneTurns, Zenon DEF Service!Finish
<1> QED BY <1>3, <1>6, Zenon DEF Service!Next

LEMMA WorkerRefuseService ==
  ASSUME Inv, OneOwner, NEW w \in Workers, WorkerCheck(w),
         ttg \/ wsock[w] = Null \/ wsock[w] \in BadConns
  PROVE  [Service!Next]_(Service!vars)
<1> USE FatControllerAssumption DEF OneOwner
<1>1. PICK S \in SUBSET Conns : S = {wsock[w]} \cap Conns
  BY Zenon
<1>2. /\ wpc[w] = "popped"
      /\ closed' = closed \cup S
      /\ wsock' = [wsock EXCEPT ![w] = NoSock]
      /\ wpc' = [wpc EXCEPT ![w] = "top"]
      /\ ttg' = ttg
      /\ UNCHANGED <<lsock, http_worker_Q>>
  BY <1>1, Zenon DEF WorkerCheck, stopVars, listenVars
<1>3. Turns(S, "done")
  BY <1>1, <1>2, ReleasePhases, Zenon
<1>4. ASSUME NEW c \in S
      PROVE  Phase(c) = "waiting" /\ (ttg \/ c \in BadConns)
  <2>1. At(c, "worker") /\ c = wsock[w] /\ c \in Conns
    BY <1>1, Zenon DEF At
  <2>2. ~At(c, "closed")
    BY <2>1, Exclusive, Zenon DEF Places
  <2>3. ~Served(c)
    BY <1>2, <2>1, Zenon DEF Served, OneHolder
  <2>4. Phase(c) = "waiting"
    BY <2>1, <2>2, <2>3, PhaseOf, Zenon
  <2> QED BY <2>1, <2>4, Zenon
<1>5. \A c \in S : Phase(c) = "new" \/ (Phase(c) = "waiting" /\ (ttg \/ c \in BadConns))
  BY <1>4, Zenon
<1> QED BY <1>2, <1>3, <1>5, DropStep, Zenon

(* There is a worker for every connection being served, and w serves none. *)
LEMMA WorkerLeft ==
  ASSUME Inv, OneOwner, NEW w \in Workers, wpc[w] = "popped"
  PROVE  Cardinality(Service!Serving) < Cardinality(Workers)
<1> USE FatControllerAssumption DEF OneOwner
<1>1. PICK A : A = {v \in Workers : wpc[v] = "serve"}
  BY Zenon
<1>2. PICK B : B = Service!Serving
  BY Zenon
<1>3. \A c \in B : \E v \in A : wsock[v] = c
  BY <1>1, <1>2, PhaseOf, Zenon DEF Service!Serving, Served
<1>4. \A v \in A : wsock[v] \in B
  <2>1. SUFFICES ASSUME NEW v \in A
                 PROVE  wsock[v] \in B
    BY Zenon
  <2>2. PICK c : c = wsock[v]
    BY Zenon
  <2>3. c \in Conns /\ At(c, "worker") /\ Served(c)
    BY <1>1, <2>2, Zenon DEF At, Served, Inv, TypeOK, WorkerState
  <2>4. ~At(c, "closed")
    BY <2>3, Exclusive, Zenon DEF Places
  <2>5. Phase(c) = "serving"
    BY <2>3, <2>4, PhaseOf, Zenon
  <2> QED BY <1>2, <2>2, <2>3, <2>5, Zenon DEF Service!Serving
<1>5. [v \in A |-> wsock[v]] \in Surjection(A, B)
  BY <1>3, <1>4, Zenon DEF Surjection
<1>6. A \subseteq Workers /\ w \notin A /\ IsFiniteSet(Workers)
  BY <1>1, Zenon
<1>7. /\ IsFiniteSet(A)
      /\ Cardinality(A) <= Cardinality(Workers)
      /\ Cardinality(A) = Cardinality(Workers) => A = Workers
  BY <1>6, FS_Subset, Zenon
<1>8. IsFiniteSet(B) /\ Cardinality(B) <= Cardinality(A)
  BY <1>5, <1>7, FS_Surjection, Zenon
<1>9. /\ Cardinality(A) \in Nat
      /\ Cardinality(B) \in Nat
      /\ Cardinality(Workers) \in Nat
  BY <1>6, <1>7, <1>8, FS_CardinalityType, Zenon
<1> QED BY <1>2, <1>6, <1>7, <1>8, <1>9

LEMMA WorkerServeService ==
  ASSUME Inv, OneOwner, NEW w \in Workers, WorkerCheck(w),
         ~(ttg \/ wsock[w] = Null \/ wsock[w] \in BadConns)
  PROVE  [Service!Next]_(Service!vars)
<1> USE FatControllerAssumption DEF OneOwner
<1>1. PICK s : s = wsock[w]
  BY Zenon
<1>2. /\ wpc[w] = "popped"
      /\ wpc' = [wpc EXCEPT ![w] = "serve"]
      /\ UNCHANGED <<ttg, closed, wsock, lsock, http_worker_Q>>
  BY Zenon DEF WorkerCheck, stopVars, listenVars
<1>3. s \in Conns \ BadConns
  BY <1>1, <1>2, Zenon DEF Inv, TypeOK, WorkerState
<1>4. At(s, "worker") /\ ~At(s, "closed")
  <2>1. At(s, "worker")
    BY <1>1, Zenon DEF At
  <2> QED BY <1>3, <2>1, Exclusive, Zenon DEF Places
<1>5. ~Served(s)
  BY <1>1, <1>2, <1>3, Zenon DEF Served, OneHolder
<1>6. Phase(s) = "waiting"
  BY <1>3, <1>4, <1>5, PhaseOf, Zenon
<1>7. \A v \in Workers : wpc'[v] = IF v = w THEN "serve" ELSE wpc[v]
  BY <1>2, Zenon DEF Inv, TypeOK
<1>8. \A c \in Conns : Served(c)' <=> c = s \/ Served(c)
  BY <1>1, <1>2, <1>7, Zenon DEF Served
<1>9. \A c \in Conns, r \in Places \ {"client", "kernel"} : At(c, r)' <=> At(c, r)
  BY <1>2, ZenonT(60) DEF At, Places
<1>10. Turns({s}, "serving")
  BY <1>3, <1>4, <1>8, <1>9, PhaseOf, Zenon DEF Turns, Places
<1>11. Service!Start(s)
  <2>1. Cardinality(Service!Serving) < Cardinality(Workers)
    BY <1>2, WorkerLeft, Zenon
  <2>2. [c \in Conns |-> Phase(c)]' = [[c \in Conns |-> Phase(c)] EXCEPT ![s] = "serving"]
    BY <1>3, <1>10, OneTurns, Zenon
  <2>3. [c \in Conns |-> Phase(c)][s] = "waiting" /\ s \notin BadConns /\ ttg' = ttg
    BY <1>2, <1>3, <1>6, Zenon
  <2>4. Service!Cardinality(Service!Serving) = Cardinality(Service!Serving)
    BY Zenon DEF Service!Cardinality, Cardinality
  <2> QED BY <2>1, <2>2, <2>3, <2>4, Zenon DEF Service!Start
<1> QED BY <1>3, <1>11, Zenon DEF Service!Next

LEMMA WorkerTopService ==
  ASSUME Inv, NEW w \in Workers, WorkerTop(w)
  PROVE  [Service!Next]_(Service!vars)
<1> USE FatControllerAssumption
<1>1. /\ wpc[w] = "top" /\ wsock[w] = NoSock
      /\ UNCHANGED <<ttg, closed, wsock, lsock, http_worker_Q>>
  BY Zenon DEF WorkerTop, Inv, WorkerState, stopVars, listenVars, histVars
<1>2. \A v \in Workers \ {w} : wpc'[v] = wpc[v]
  BY Zenon DEF WorkerTop, Inv, TypeOK
<1>3. \A c \in Conns : Served(c)' <=> Served(c)
  BY <1>1, <1>2, Zenon DEF Served
<1>4. Turns({}, "done")
  BY <1>1, <1>3, ZenonT(60) DEF Turns, Phase, At, Served
<1> QED BY <1>1, <1>4, Stutters, Zenon

LEMMA MainPushNullService ==
  ASSUME Inv, MainPushNull
  PROVE  [Service!Next]_(Service!vars)
<1> USE FatControllerAssumption
<1>1. /\ http_worker_Q' = Append(http_worker_Q, Null)
      /\ UNCHANGED <<ttg, closed, wsock, wpc, lsock>>
  BY Zenon DEF MainPushNull, push, listenVars, workVars, histVars
<1>2. http_worker_Q \in Seq(Conns \cup {Null})
  BY Zenon DEF Inv, TypeOK
<1>3. ASSUME NEW c \in Conns PROVE At(c, "queue")' <=> At(c, "queue")
  <2> DEFINE q == Append(http_worker_Q, Null)
  <2>1. (\E i \in 1..Len(q) : q[i] = c) <=> (\E i \in 1..Len(http_worker_Q) : http_worker_Q[i] = c)
    BY <1>2, AppendMembers
  <2>2. http_worker_Q' = q
    BY <1>1, Zenon
  <2> HIDE DEF q
  <2> QED BY <2>1, <2>2, Zenon DEF At
<1>4. \A c \in Conns, r \in {"listener", "worker", "closed"} : At(c, r)' <=> At(c, r)
  BY <1>1, ZenonT(60) DEF At
<1>5. \A c \in Conns : Served(c)' <=> Served(c)
  BY <1>1, Zenon DEF Served
<1>6. Turns({}, "done")
  BY <1>3, <1>4, <1>5, PhaseOf, Zenon DEF Turns
<1> QED BY <1>1, <1>6, Stutters, Zenon

LEMMA MainTermService ==
  ASSUME Inv, MainTerm
  PROVE  [Service!Next]_(Service!vars)
<1>1. ttg' = TRUE /\ UNCHANGED <<closed, wsock, wpc, lsock, http_worker_Q>>
  BY Zenon DEF MainTerm, listenVars, workVars, histVars
<1>2. ~ttg
  BY Zenon DEF MainTerm, Inv, MainState
<1>3. Turns({}, "done")
  BY <1>1, SameData, Zenon
<1>4. [c \in Conns |-> Phase(c)]' = [c \in Conns |-> Phase(c)]
  BY <1>3, Zenon DEF Turns
<1> QED BY <1>1, <1>2, <1>4, Zenon DEF Service!Next, Service!BeginStop

-----------------------------------------------------------------------------
LEMMA ServiceInit == Init => Service!Init
<1> SUFFICES ASSUME Init PROVE Service!Init
  BY Zenon
<1> USE FatControllerAssumption
<1>1. \A c \in Conns : Phase(c) = "new"
  BY DEF Init, Phase, At
<1>2. ttg = FALSE
  BY Zenon DEF Init
<1> QED BY <1>1, <1>2, Zenon DEF Service!Init

LEMMA ServiceStep == Inv /\ OneOwner /\ [Next]_vars => [Service!Next]_(Service!vars)
<1> SUFFICES ASSUME Inv, OneOwner, [Next]_vars PROVE [Service!Next]_(Service!vars)
  BY Zenon
<1>1. ASSUME UNCHANGED <<ttg, closed, wsock, wpc, lsock, http_worker_Q>>
      PROVE  [Service!Next]_(Service!vars)
  BY <1>1, SameData, Stutters, Zenon
<1>2. ASSUME NEW w \in Workers, WorkerCheck(w)
      PROVE  [Service!Next]_(Service!vars)
  BY <1>2, WorkerRefuseService, WorkerServeService, Zenon
<1>3. ASSUME NEW l \in Listeners, Listener(l)
      PROVE  [Service!Next]_(Service!vars)
  <2>1. CASE ListenerTop(l)
    BY <1>1, <2>1, Zenon DEF ListenerTop, stopVars, workVars, histVars
  <2>2. CASE \E transient \in BOOLEAN : AcceptFails(l, transient)
    BY <1>1, <2>2, Zenon DEF AcceptFails, stopVars, workVars, histVars
  <2> QED BY <1>3, <2>1, <2>2, AcceptService, ListenerPushService, ListenerCloseService, Zenon DEF Listener
<1>4. ASSUME NEW w \in Workers, Worker(w)
      PROVE  [Service!Next]_(Service!vars)
  <2>1. CASE WorkerLog(w)
    BY <1>1, <2>1, Zenon DEF WorkerLog, stopVars, listenVars, workVars, histVars
  <2> QED BY <1>2, <1>4, <2>1, WorkerTopService, WorkerPopService, WorkerDoneService, Zenon DEF Worker
<1>5. CASE Logger
  BY <1>1, <1>5, Zenon DEF Logger, LoggerTop, LoggerPop, stopVars, listenVars, workVars, histVars
<1>6. CASE Stop
  <2>1. CASE MainStopLogger
    BY <1>1, <2>1, Zenon DEF MainStopLogger, listenVars, workVars, histVars
  <2>2. CASE MainPushNullLog
    BY <1>1, <2>2, Zenon DEF MainPushNullLog, listenVars, workVars, histVars
  <2>3. ASSUME NEW l \in Listeners, MainSelfConnect(l)
        PROVE  [Service!Next]_(Service!vars)
    BY <1>1, <2>3, Zenon DEF MainSelfConnect, workVars, histVars
  <2> QED BY <1>6, <2>1, <2>2, <2>3, MainPushNullService, Zenon DEF Stop
<1>7. ASSUME NEW c \in Conns, NEW l \in Listeners, ClientConnect(c, l)
      PROVE  [Service!Next]_(Service!vars)
  BY <1>1, <1>7, Zenon DEF ClientConnect, stopVars, workVars
<1>8. CASE MainReturn
  BY <1>1, <1>8, Zenon DEF MainReturn, listenVars, workVars, histVars
<1>9. CASE UNCHANGED vars
  BY <1>1, <1>9, Zenon DEF vars, stopVars, listenVars, workVars, histVars
<1> QED BY <1>3, <1>4, <1>5, <1>6, <1>7, <1>8, <1>9, MainTermService, Zenon DEF Next

(* The listeners, the workers, the queue between them and the stop sequence *)
(* of fc_controlit implement ConnService: an accepted connection waits, is *)
(* served at most once by one of the http_workers workers, and is dropped   *)
(* unserved only if its socket is unusable or the daemon is stopping.      *)
THEOREM ThreadsImplementService == Spec => ImplementsService
  BY SpecInv, ConnectionsHaveOneOwner, ServiceInit, ServiceStep, PTL
     DEF Spec, ImplementsService, Service!Spec
=============================================================================
