------------------------ MODULE WebSocketServer_proofs ------------------------
(***************************************************************************)
(* The safety properties of the WebSocket server, for any number of        *)
(* topics, publishers, clients, messages and restarts.                     *)
(*                                                                         *)
(* The thread decides by its position alone what is on the lists of the    *)
(* bus (ListInv), and since it takes its callback off every list before it *)
(* ends, the next thread puts it on once.  A number belongs to the         *)
(* publisher that drew it until the coroutine has it (NumberInv); the      *)
(* coroutine takes a client off its list when it writes, so what is still  *)
(* on the list has not got the message (CopyInv).  Nobody is skipped       *)
(* because a client leaves the copies only when it has got the message or  *)
(* is found closed, and the registered ones only when closed (ClientInv).  *)
(***************************************************************************)
EXTENDS WebSocketServer, TLAPS

\* The bounds are numbers.
LEMMA Bounds == NumTopics \in Nat \ {0} /\ MaxStarts \in Nat /\ MaxEvents \in Nat
BY BusAssumption, ServerAssumption

TaskState == [pc: TaskSteps, todo: SUBSET Clients, at: Clients \union {None},
              lost: SUBSET Clients]
AtWhileSending(task) == task.at # None <=> task.pc = "sending"

\* The states a coroutine is put in.
LEMMA TaskStates ==
  /\ NoTask = [pc |-> "none", todo |-> {}, at |-> None, lost |-> {}]
  /\ [NoTask EXCEPT !.pc = "ready"] = [pc |-> "ready", todo |-> {}, at |-> None, lost |-> {}]
  /\ Over = [pc |-> "over", todo |-> {}, at |-> None, lost |-> {}]
BY DEF NoTask, Over

\* The type of the coroutines, by name.
LEMMA TaskTypes ==
  ASSUME WsTypeOK
  PROVE  /\ tasks \in [Numbers -> TaskState]
         /\ \A n \in Numbers : AtWhileSending(tasks[n])
BY DEF WsTypeOK, TaskState, AtWhileSending

\* A step of coroutine n that gives it the state v keeps the type of tasks, and
\* leaves the other coroutines alone.
LEMMA OneTaskMoves ==
  ASSUME WsTypeOK, NEW n \in Numbers, NEW v, Set(n, v)
  PROVE  /\ tasks'[n] = v
         /\ \A m \in Numbers : m # n => tasks'[m] = tasks[m]
         /\ v \in TaskState /\ AtWhileSending(v)
              => /\ tasks' \in [Numbers -> TaskState]
                 /\ \A m \in Numbers : AtWhileSending(tasks'[m])
<1>1. /\ tasks \in [Numbers -> TaskState]
      /\ \A m \in Numbers : AtWhileSending(tasks[m])
  BY TaskTypes
<1>2. tasks'[n] = v /\ \A m \in Numbers : m # n => tasks'[m] = tasks[m]
  BY <1>1 DEF Set
<1>3. v \in TaskState => tasks' \in [Numbers -> TaskState]
  BY <1>1 DEF Set
<1> QED
  BY <1>1, <1>2, <1>3

---------------------------------------------------------------------------
(* The types *)

\* WsTypeOK without the coroutines, for the steps that leave those alone.
LEMMA OtherTypes ==
  ASSUME WsTypeOK
  PROVE  /\ subs \in [Topics -> Nat]
         /\ pub \in [Publishers -> [left: Nat, n: Nat]]
         /\ stage \in [Clients -> Stages]
         /\ copies \in [Clients -> [Numbers -> Nat]]
         /\ topic \in Topics /\ starts \in Nat /\ server \in Nat /\ seq \in Nat
BY Bounds DEF WsTypeOK, BusTypeOK, Topics

\* WsTypeOK is kept when the thread takes a step, or is started or stopped.
LEMMA ThreadKeepsType ==
  ASSUME WsTypeOK, Start \/ Stop \/ Thread
  PROVE  WsTypeOK'
<1> USE DEF clientVars, busVars
<1>1. CASE Start
  BY <1>1, Bounds DEF Start, Alive, WsTypeOK, BusTypeOK
<1>2. CASE Stop
  BY <1>2 DEF Stop, WsTypeOK, BusTypeOK
<1>3. CASE MakesLoop \/ BindFails
  BY <1>3 DEF MakesLoop, BindFails, WsTypeOK, BusTypeOK
<1>4. CASE Binds
  BY <1>4, Bounds DEF Binds, WsTypeOK, BusTypeOK, Topics
<1>5. CASE Subscribes
  <2>1. subs' \in [Topics -> Nat]
    BY <1>5, OtherTypes DEF Subscribes, Subscribe
  <2>2. topic' \in Topics /\ pc' \in {pc, "serving"}
    BY <1>5, Bounds, OtherTypes DEF Subscribes, GoesOn, Topics
  <2> QED
    BY <1>5, <2>1, <2>2 DEF Subscribes, WsTypeOK, BusTypeOK
<1>6. CASE DoClose
  BY <1>6 DEF DoClose, WsTypeOK, BusTypeOK
<1>7. CASE ServeForeverEnds
  BY <1>7, Bounds DEF ServeForeverEnds, WsTypeOK, BusTypeOK, Topics
<1>8. CASE Unsubscribes
  <2>1. subs' \in [Topics -> Nat]
    BY <1>8, OtherTypes DEF Unsubscribes, Unsubscribe
  <2>2. topic' \in Topics /\ pc' \in {pc, "closed"}
    BY <1>8, Bounds, OtherTypes DEF Unsubscribes, GoesOn, Topics
  <2> QED
    BY <1>8, <2>1, <2>2 DEF Unsubscribes, WsTypeOK, BusTypeOK
<1>9. CASE AllClosed
  BY <1>9 DEF AllClosed, WsTypeOK, BusTypeOK
<1>10. CASE LoopCloses
  <2>1. NoTask \in TaskState /\ Over \in TaskState
        /\ AtWhileSending(NoTask) /\ AtWhileSending(Over)
    BY TaskStates DEF TaskState, TaskSteps, AtWhileSending
  <2>2. /\ tasks' \in [Numbers -> TaskState]
        /\ \A n \in Numbers : AtWhileSending(tasks'[n])
    BY <1>10, <2>1 DEF LoopCloses
  <2> QED
    BY <1>10, <2>2 DEF LoopCloses, WsTypeOK, BusTypeOK, TaskState, AtWhileSending
<1> QED
  BY <1>1, <1>2, <1>3, <1>4, <1>5, <1>6, <1>7, <1>8, <1>9, <1>10 DEF Thread

\* A publisher that has drawn a number is in a call.
LEMMA PublisherKeepsType ==
  ASSUME WsTypeOK, NumberInv, NEW p \in Publishers, Publishes(p) \/ Publisher(p)
  PROVE  WsTypeOK'
<1> USE DEF threadVars, clientVars
<1>1. CASE Publishes(p)
  <2>1. pub' \in [Publishers -> [left: Nat, n: Nat]]
    BY <1>1, OtherTypes DEF Publishes, Publish
  <2> QED
    BY <1>1, <2>1 DEF Publishes, WsTypeOK, BusTypeOK
<1>2. CASE DrawsNumber(p)
  <2>1. pub' \in [Publishers -> [left: Nat, n: Nat]]
    BY <1>2, OtherTypes DEF DrawsNumber
  <2> QED
    BY <1>2, <2>1, Bounds DEF DrawsNumber, WsTypeOK, BusTypeOK
<1>3. CASE HandsOver(p)
  <2>1. pub' \in [Publishers -> [left: Nat, n: Nat]]
    BY <1>3, OtherTypes DEF HandsOver, CallEnds, NumberInv
  <2>2. pub[p].n \in Numbers
    BY <1>3, OtherTypes, Bounds DEF HandsOver, NumberInv, Numbers, WsTypeOK
  <2>3. /\ tasks' \in [Numbers -> TaskState]
        /\ \A n \in Numbers : AtWhileSending(tasks'[n])
    <3>1. CASE tasks' = tasks
      BY <3>1, TaskTypes
    <3>2. CASE Set(pub[p].n, [NoTask EXCEPT !.pc = "ready"])
      BY <2>2, <3>2, TaskStates, OneTaskMoves DEF TaskState, TaskSteps, AtWhileSending
    <3> QED
      BY <1>3, <3>1, <3>2 DEF HandsOver, Set
  <2> QED
    BY <1>3, <2>1, <2>3 DEF HandsOver, WsTypeOK, BusTypeOK, TaskState, AtWhileSending
<1> QED
  BY <1>1, <1>2, <1>3 DEF Publisher

\* The steps of a connection.
Connection(c) ==
  Registers(c) \/ Rejects(c) \/ Drops(c) \/ ServerCloses(c) \/ Unregisters(c)

LEMMA ConnectionKeepsType ==
  ASSUME WsTypeOK, NEW c \in Clients, Connection(c)
  PROVE  WsTypeOK'
<1> USE DEF threadVars, busVars, Stages
<1>1. stage' \in [Clients -> Stages]
  BY OtherTypes DEF Connection, Registers, Rejects, Drops, ServerCloses, Unregisters
<1>2. up' \subseteq Clients /\ registered' \subseteq Clients
  BY DEF Connection, Registers, Rejects, Drops, ServerCloses, Unregisters, WsTypeOK
<1>3. UNCHANGED <<threadVars, busVars, seq, tasks, copies>>
  BY DEF Connection, Registers, Rejects, Drops, ServerCloses, Unregisters
<1> QED
  BY <1>1, <1>2, <1>3 DEF WsTypeOK, BusTypeOK

LEMMA CoroutineKeepsType ==
  ASSUME WsTypeOK, NEW n \in Numbers, SendAll(n)
  PROVE  WsTypeOK'
<1>1. /\ tasks[n] \in TaskState
      /\ AtWhileSending(tasks[n])
      /\ None \notin Clients /\ registered \subseteq Clients
  BY TaskTypes, ServerAssumption DEF WsTypeOK
<1> DEFINE Typed == /\ tasks' \in [Numbers -> TaskState]
                    /\ \A m \in Numbers : AtWhileSending(tasks'[m])
                    /\ copies' \in [Clients -> [Numbers -> Nat]]
                    /\ registered' \subseteq Clients
                    /\ UNCHANGED <<threadVars, busVars, seq, stage, up>>
<1>2. SUFFICES Typed
  BY DEF WsTypeOK, BusTypeOK, TaskState, AtWhileSending, threadVars, busVars
<1> USE DEF clientVars, TaskSteps
<1>3. CASE Begins(n)
  BY <1>1, <1>3, OneTaskMoves, OtherTypes DEF Begins, Running, TaskState, AtWhileSending
<1>4. ASSUME NEW c \in Clients, Sends(n, c) PROVE Typed
  <2>1. copies' \in [Clients -> [Numbers -> Nat]]
    BY <1>4, OtherTypes DEF Sends
  <2>2. /\ tasks' \in [Numbers -> TaskState]
        /\ \A m \in Numbers : AtWhileSending(tasks'[m])
    BY <1>1, <1>4, OneTaskMoves DEF Sends, Sending, TaskState, AtWhileSending
  <2> QED
    BY <1>1, <1>4, <2>1, <2>2 DEF Sends
<1>5. ASSUME NEW c \in Clients, Drains(n, c) \/ FindsClosed(n, c) PROVE Typed
  <2>1. PICK todo \in SUBSET Clients, lost \in SUBSET Clients : Set(n, Running(todo, lost))
    BY <1>1, <1>5 DEF Drains, FindsClosed, TaskState
  <2>2. /\ tasks' \in [Numbers -> TaskState]
        /\ \A m \in Numbers : AtWhileSending(tasks'[m])
    BY <2>1, OneTaskMoves DEF Running, TaskState, AtWhileSending
  <2> QED
    BY <1>1, <1>5, <2>2, OtherTypes DEF Drains, FindsClosed
<1>6. CASE Finishes(n)
  BY <1>1, <1>6, OneTaskMoves, OtherTypes, TaskStates DEF Finishes, TaskState, AtWhileSending
<1> QED
  BY <1>3, <1>4, <1>5, <1>6 DEF SendAll

LEMMA TypeStep ==
  ASSUME WsTypeOK, NumberInv, [Next]_vars
  PROVE  WsTypeOK'
<1>1. CASE UNCHANGED vars
  BY <1>1 DEF vars, threadVars, busVars, clientVars, WsTypeOK, BusTypeOK
<1> QED
  BY <1>1, ThreadKeepsType, PublisherKeepsType, ConnectionKeepsType, CoroutineKeepsType
  DEF Next, Connection

---------------------------------------------------------------------------
(* What a step leaves alone *)

\* Publishers, connections and coroutines leave the thread and the lists alone.
LEMMA ThreadIsAlone ==
  ASSUME [Next]_vars, ~(Start \/ Stop \/ Thread)
  PROVE  UNCHANGED <<threadVars, subs>>
<1> USE DEF busVars
<1>1. CASE UNCHANGED vars
  BY <1>1 DEF vars
<1>2. CASE \E p \in Publishers : Publishes(p) \/ Publisher(p)
  BY <1>2 DEF Publishes, Publisher, DrawsNumber, HandsOver
<1>3. CASE \E c \in Clients : Connection(c)
  BY <1>3 DEF Connection, Registers, Rejects, Drops, ServerCloses, Unregisters
<1>4. CASE \E n \in Numbers : SendAll(n)
  BY <1>4 DEF SendAll, Begins, Sends, Drains, FindsClosed, Finishes
<1> QED
  BY <1>1, <1>2, <1>3, <1>4 DEF Next, Connection

\* The thread leaves everything else alone, but for the coroutines, which go
\* with their loop.
LEMMA OthersAreAlone ==
  ASSUME Start \/ Stop \/ Thread
  PROVE  /\ UNCHANGED <<pub, seq, stage, up, registered, copies>>
         /\ ~LoopCloses => UNCHANGED tasks
BY DEF Start, Stop, Thread, MakesLoop, Binds, BindFails, Subscribes, DoClose,
       ServeForeverEnds, Unsubscribes, AllClosed, LoopCloses, busVars, clientVars

---------------------------------------------------------------------------
(* The lists of the bus *)

LEMMA ListStep ==
  ASSUME WsTypeOK, ListInv, [Next]_vars
  PROVE  ListInv'
<1>1. topic \in 1 .. NumTopics /\ NumTopics \in Nat \ {0} /\ subs \in [Topics -> Nat]
  BY Bounds DEF WsTypeOK, BusTypeOK, Topics
<1>2. CASE ~(Start \/ Stop \/ Thread)
  BY <1>2, ThreadIsAlone DEF ListInv, threadVars
<1>3. CASE Start \/ Stop \/ MakesLoop \/ BindFails \/ DoClose \/ AllClosed \/ LoopCloses
  BY <1>3 DEF Start, Alive, Stop, MakesLoop, BindFails, DoClose, AllClosed, LoopCloses,
              ListInv, busVars
<1>4. CASE Binds \/ ServeForeverEnds
  BY <1>1, <1>4 DEF Binds, ServeForeverEnds, ListInv, busVars, Topics
<1>5. CASE Subscribes
  BY <1>1, <1>5 DEF Subscribes, Subscribe, GoesOn, ListInv, Topics
<1>6. CASE Unsubscribes
  BY <1>1, <1>6 DEF Unsubscribes, Unsubscribe, GoesOn, ListInv, Topics
<1> QED
  BY <1>2, <1>3, <1>4, <1>5, <1>6 DEF Thread

\* The callback is once on a list at most, and a publisher has to call it as
\* often as it was when the list was copied.
LEMMA OneMessageStep ==
  ASSUME WsTypeOK, ListInv, OneMessagePerEvent, WsTypeOK', ListInv', [Next]_vars
  PROVE  OneMessagePerEvent'
<1>1. \A t \in Topics : subs[t] \in Nat /\ subs'[t] <= 1
  BY DEF WsTypeOK, BusTypeOK, ListInv
<1> DEFINE CalledOnce == \A p \in Publishers : pub'[p].left <= 1
<1>2. CalledOnce
  <2>1. CASE pub' = pub
    BY <2>1 DEF OneMessagePerEvent
  <2>2. ASSUME NEW p \in Publishers, Publishes(p) PROVE CalledOnce
    BY <2>2, OtherTypes DEF Publishes, Publish, OneMessagePerEvent
  <2>3. ASSUME NEW p \in Publishers, Publisher(p) PROVE CalledOnce
    <3>1. \A q \in Publishers : q # p => pub'[q] = pub[q]
      BY <2>3, OtherTypes DEF Publisher, DrawsNumber, HandsOver, CallEnds
    <3>2. pub'[p].left <= pub[p].left
      <4>1. pub[p].left \in Nat /\ p \in DOMAIN pub
        BY OtherTypes
      <4>2. CASE DrawsNumber(p)
        BY <4>1, <4>2 DEF DrawsNumber
      <4>3. CASE HandsOver(p)
        BY <4>1, <4>3 DEF HandsOver, CallEnds
      <4> QED
        BY <2>3, <4>2, <4>3 DEF Publisher
    <3>3. pub[p].left \in Nat /\ pub'[p].left \in Nat
      BY DEF WsTypeOK, BusTypeOK
    <3>4. pub'[p].left <= 1
      BY <3>2, <3>3 DEF OneMessagePerEvent
    <3> QED
      BY <3>1, <3>4 DEF OneMessagePerEvent
  <2>4. CASE \E c \in Clients : Connection(c)
    BY <2>1, <2>4 DEF Connection, Registers, Rejects, Drops, ServerCloses, Unregisters, busVars
  <2>5. CASE \E n \in Numbers : SendAll(n)
    BY <2>1, <2>5 DEF SendAll, Begins, Sends, Drains, FindsClosed, Finishes, busVars
  <2> QED
    BY <2>1, <2>2, <2>3, <2>4, <2>5, OthersAreAlone DEF Next, Connection, vars, busVars
<1> QED
  BY <1>1, <1>2 DEF OneMessagePerEvent

---------------------------------------------------------------------------
(* Numbers and copies *)

\* A coroutine takes a step.
LEMMA CoroutineMoves ==
  ASSUME WsTypeOK, NEW n \in Numbers, SendAll(n)
  PROVE  /\ tasks[n].pc \in {"ready", "running", "sending"}
         /\ tasks'[n].pc \in {"running", "sending", "over"}
         /\ \A m \in Numbers : m # n => tasks'[m] = tasks[m]
         /\ UNCHANGED <<threadVars, busVars, seq, stage, up>>
         /\ HasLoop
<1>1. AtWhileSending(tasks[n]) /\ None \notin Clients
  BY TaskTypes, ServerAssumption
<1>2. PICK v : Set(n, v) /\ v.pc \in {"running", "sending", "over"}
  <2>1. /\ \A todo, lost : Running(todo, lost).pc = "running"
        /\ \A todo, c, lost : Sending(todo, c, lost).pc = "sending"
        /\ Over.pc = "over"
    BY TaskStates DEF Running, Sending
  <2>2. CASE Begins(n)
    BY <2>1, <2>2 DEF Begins
  <2>3. ASSUME NEW c \in Clients, Sends(n, c) \/ Drains(n, c) \/ FindsClosed(n, c)
        PROVE  \E v : Set(n, v) /\ v.pc \in {"running", "sending", "over"}
    BY <2>1, <2>3 DEF Sends, Drains, FindsClosed
  <2>4. CASE Finishes(n)
    BY <2>1, <2>4 DEF Finishes
  <2> QED
    BY <2>2, <2>3, <2>4 DEF SendAll
<1>3. tasks'[n] = v /\ \A m \in Numbers : m # n => tasks'[m] = tasks[m]
  BY <1>2, OneTaskMoves
<1>4. tasks[n].pc \in {"ready", "running", "sending"}
  BY <1>1 DEF SendAll, Begins, Sends, Drains, FindsClosed, SendsTo, Finishes, AtWhileSending
<1>5. UNCHANGED <<threadVars, busVars, seq, stage, up>> /\ LoopRuns
  BY DEF SendAll, Begins, Sends, Drains, FindsClosed, Finishes, clientVars
<1> QED
  BY <1>2, <1>3, <1>4, <1>5 DEF LoopRuns

\* The loop closes.
LEMMA TasksAreOver ==
  ASSUME LoopCloses, NEW n \in Numbers
  PROVE  tasks'[n] = IF tasks[n].pc = "none" THEN NoTask ELSE Over
BY DEF LoopCloses

\* A publisher hands its message over.
LEMMA HandOver ==
  ASSUME WsTypeOK, NumberInv, NEW p \in Publishers, HandsOver(p)
  PROVE  /\ pub[p].n \in Numbers /\ pub[p].n <= seq
         /\ tasks[pub[p].n].pc = "none"
         /\ ~HasLoop => tasks' = tasks
         /\ HasLoop => tasks'[pub[p].n] = [pc |-> "ready", todo |-> {}, at |-> None, lost |-> {}]
         /\ \A m \in Numbers : m # pub[p].n => tasks'[m] = tasks[m]
         /\ pub'[p].n = 0
         /\ \A q \in Publishers : q # p => pub'[q] = pub[q]
         /\ UNCHANGED <<threadVars, subs, seq, clientVars, copies>>
<1>1. pub[p].n \in Nat /\ pub[p].n # 0
  BY OtherTypes DEF HandsOver
<1>2. pub[p].n \in Numbers /\ pub[p].n <= seq /\ tasks[pub[p].n].pc = "none"
  BY <1>1, Bounds DEF NumberInv, Numbers, WsTypeOK
<1>3. HasLoop => Set(pub[p].n, [NoTask EXCEPT !.pc = "ready"])
  BY DEF HandsOver, Set
<1>4. ~HasLoop => tasks' = tasks
  BY DEF HandsOver
<1>5. pub'[p].n = 0 /\ \A q \in Publishers : q # p => pub'[q] = pub[q]
  BY OtherTypes DEF HandsOver, CallEnds
<1> QED
  BY <1>2, <1>3, <1>4, <1>5, OneTaskMoves, TaskStates DEF HandsOver

LEMMA NumberStep ==
  ASSUME WsTypeOK, NumberInv, [Next]_vars
  PROVE  NumberInv'
<1> USE DEF NumberInv
<1>1. /\ pub \in [Publishers -> [left: Nat, n: Nat]] /\ seq \in Nat
      /\ \A p \in Publishers : pub[p].n # 0 => pub[p].n \in Numbers
  BY OtherTypes, Bounds DEF Numbers, WsTypeOK
<1>2. CASE UNCHANGED <<pub, seq, tasks>>
  BY <1>2
<1>3. CASE LoopCloses
  BY <1>1, <1>3, OthersAreAlone, TasksAreOver, TaskStates DEF Thread
<1>4. ASSUME NEW p \in Publishers, Publishes(p) PROVE NumberInv'
  BY <1>1, <1>4 DEF Publishes, Publish
<1>5. ASSUME NEW p \in Publishers, DrawsNumber(p) PROVE NumberInv'
  <2>1. seq + 1 \in Numbers /\ tasks[seq + 1].pc = "none" /\ seq' = seq + 1
    BY <1>1, <1>5, Bounds DEF DrawsNumber, Numbers
  <2>2. /\ pub'[p].n = seq + 1 /\ pub'[p].left > 0
        /\ \A q \in Publishers : q # p => pub'[q] = pub[q]
    BY <1>1, <1>5 DEF DrawsNumber
  <2>3. tasks' = tasks
    BY <1>5 DEF DrawsNumber
  <2> QED
    BY <1>1, <2>1, <2>2, <2>3 DEF Numbers
<1>6. ASSUME NEW p \in Publishers, HandsOver(p) PROVE NumberInv'
  <2>1. \A q \in Publishers : pub'[q].n # 0 => q # p /\ pub[q].n # pub[p].n
    BY <1>1, <1>6, HandOver DEF HandsOver
  <2> QED
    BY <1>1, <1>6, <2>1, HandOver
<1>7. ASSUME NEW n \in Numbers, SendAll(n) PROVE NumberInv'
  BY <1>1, <1>7, CoroutineMoves DEF busVars
<1>8. CASE \E c \in Clients : Connection(c)
  BY <1>2, <1>8 DEF Connection, Registers, Rejects, Drops, ServerCloses, Unregisters, busVars
<1> QED
  BY <1>2, <1>3, <1>4, <1>5, <1>6, <1>7, <1>8, OthersAreAlone
  DEF Next, Connection, Publisher, vars, busVars

\* A coroutine writes to a client, or just goes on with the clients it has.
LEMMA CopyMoves ==
  ASSUME WsTypeOK, CopyInv, NEW n \in Numbers, SendAll(n)
  PROVE  /\ tasks'[n].pc \notin {"running", "sending"} => tasks'[n].todo = {}
         /\ \A c \in tasks'[n].todo : c \in tasks[n].todo \/ tasks[n].pc = "ready"
         /\ \A c \in Clients, m \in Numbers :
              copies'[c][m] # copies[c][m]
                => /\ m = n /\ c \in tasks[n].todo /\ c \notin tasks'[n].todo
                   /\ copies'[c][m] = copies[c][m] + 1
                   /\ tasks[n].pc = "running"
<1> DEFINE Moves ==
      /\ tasks'[n].pc \notin {"running", "sending"} => tasks'[n].todo = {}
      /\ \A c \in tasks'[n].todo : c \in tasks[n].todo \/ tasks[n].pc = "ready"
      /\ \A c \in Clients, m \in Numbers :
           copies'[c][m] # copies[c][m]
             => /\ m = n /\ c \in tasks[n].todo /\ c \notin tasks'[n].todo
                /\ copies'[c][m] = copies[c][m] + 1
                /\ tasks[n].pc = "running"
<1>1. copies \in [Clients -> [Numbers -> Nat]] /\ tasks[n] \in TaskState
  BY OtherTypes, TaskTypes
<1>2. ASSUME NEW c \in Clients, Sends(n, c)
      PROVE  /\ tasks'[n] = Sending(tasks[n].todo \ {c}, c, tasks[n].lost)
             /\ \A d \in Clients, m \in Numbers :
                  copies'[d][m] = IF d = c /\ m = n THEN copies[d][m] + 1 ELSE copies[d][m]
  <2>1. tasks'[n] = Sending(tasks[n].todo \ {c}, c, tasks[n].lost)
    BY <1>2, OneTaskMoves DEF Sends
  <2>2. ASSUME NEW d \in Clients, NEW m \in Numbers
        PROVE  copies'[d][m] = IF d = c /\ m = n THEN copies[d][m] + 1 ELSE copies[d][m]
    BY <1>1, <1>2 DEF Sends
  <2> QED
    BY <2>1, <2>2
<1>3. ASSUME NEW c \in Clients, Sends(n, c) PROVE Moves
  <2>1. /\ tasks'[n].pc = "sending" /\ tasks'[n].todo = tasks[n].todo \ {c}
        /\ tasks[n].pc = "running" /\ c \in tasks[n].todo
    <3>1. tasks'[n] = Sending(tasks[n].todo \ {c}, c, tasks[n].lost)
      BY <1>2, <1>3
    <3>2. tasks[n].pc = "running" /\ c \in tasks[n].todo
      BY <1>3 DEF Sends
    <3> QED
      BY <3>1, <3>2 DEF Sending
  <2>2. \A d \in Clients, m \in Numbers :
          copies'[d][m] = IF d = c /\ m = n THEN copies[d][m] + 1 ELSE copies[d][m]
    BY <1>2, <1>3
  <2> QED
    BY <2>1, <2>2
<1>4. ASSUME Begins(n) PROVE Moves
  BY <1>4, OneTaskMoves DEF Begins, Running
<1>5. ASSUME NEW c \in Clients, Drains(n, c) \/ FindsClosed(n, c) PROVE Moves
  BY <1>1, <1>5, OneTaskMoves DEF Drains, FindsClosed, Running
<1>6. ASSUME Finishes(n) PROVE Moves
  BY <1>6, OneTaskMoves, TaskStates DEF Finishes
<1> QED
  BY <1>3, <1>4, <1>5, <1>6 DEF SendAll

LEMMA CopyStep ==
  ASSUME WsTypeOK, NumberInv, CopyInv, [Next]_vars
  PROVE  CopyInv'
<1>1. CASE UNCHANGED <<tasks, copies>>
  BY <1>1 DEF CopyInv
<1>2. CASE LoopCloses
  BY <1>2, OthersAreAlone, TasksAreOver, TaskStates DEF CopyInv, Thread
<1>3. ASSUME NEW p \in Publishers, HandsOver(p) PROVE CopyInv'
  BY <1>1, <1>3, HandOver DEF CopyInv
<1>4. ASSUME NEW n \in Numbers, SendAll(n) PROVE CopyInv'
  <2>1. \A m \in Numbers : m # n => tasks'[m] = tasks[m]
    BY <1>4, CoroutineMoves
  <2>2. \A m \in Numbers : tasks'[m].pc \notin {"running", "sending"} => tasks'[m].todo = {}
    BY <1>4, <2>1, CopyMoves DEF CopyInv
  <2>3. ASSUME NEW m \in Numbers, NEW c \in Clients,
               tasks'[m].pc \in {"none", "ready"} \/ c \in tasks'[m].todo
        PROVE  copies'[c][m] = 0
    BY <1>4, <2>1, <2>3, CoroutineMoves, CopyMoves DEF CopyInv
  <2> QED
    BY <2>2, <2>3 DEF CopyInv
<1>5. CASE \E c \in Clients : Connection(c)
  BY <1>1, <1>5 DEF Connection, Registers, Rejects, Drops, ServerCloses, Unregisters
<1>6. CASE \E p \in Publishers : Publishes(p) \/ DrawsNumber(p)
  BY <1>1, <1>6 DEF Publishes, DrawsNumber
<1> QED
  BY <1>1, <1>2, <1>3, <1>4, <1>5, <1>6, OthersAreAlone DEF Next, Connection, Publisher, vars

---------------------------------------------------------------------------
(* Clients and coroutines *)

\* The clients a coroutine has to do with.
Known(task) == task.todo \union task.lost \union {task.at}

LEMMA ClientMoves ==
  ASSUME WsTypeOK, ClientInv, NEW n \in Numbers, SendAll(n)
  PROVE  /\ tasks'[n].lost \intersect up = {}
         /\ \A c \in Known(tasks'[n]) : c \in Clients => stage[c] # "away"
         /\ up \subseteq registered' /\ registered' \subseteq registered
<1> DEFINE Moves ==
      /\ tasks'[n].lost \intersect up = {}
      /\ \A c \in Known(tasks'[n]) : c \in Clients => stage[c] # "away"
      /\ up \subseteq registered' /\ registered' \subseteq registered
<1>1. /\ None \notin Clients /\ registered \subseteq Clients
      /\ \A c \in registered : stage[c] # "away"
      /\ up \subseteq registered /\ tasks[n].lost \intersect up = {}
      /\ \A c \in Known(tasks[n]) : c \in Clients => stage[c] # "away"
  BY ServerAssumption DEF WsTypeOK, ClientInv, ConnectedIsRegistered, Known
<1>2. ASSUME Begins(n) PROVE Moves
  BY <1>1, <1>2, OneTaskMoves DEF Begins, Running, Known, clientVars
<1>3. ASSUME NEW c \in Clients, Sends(n, c) PROVE Moves
  <2>1. tasks'[n] = Sending(tasks[n].todo \ {c}, c, tasks[n].lost)
    BY <1>3, OneTaskMoves DEF Sends
  <2>2. c \in tasks[n].todo /\ registered' = registered
    BY <1>3 DEF Sends, clientVars
  <2> QED
    BY <1>1, <2>1, <2>2 DEF Sending, Known
<1>4. ASSUME NEW c \in Clients, Drains(n, c) PROVE Moves
  BY <1>1, <1>4, OneTaskMoves DEF Drains, Running, Known, clientVars
<1>5. ASSUME NEW c \in Clients, FindsClosed(n, c) PROVE Moves
  <2>1. tasks'[n] = Running(tasks[n].todo \ {c}, tasks[n].lost \union {c})
    BY <1>5, OneTaskMoves DEF FindsClosed
  <2>2. c \in Known(tasks[n]) /\ c \notin up /\ registered' = registered
    BY <1>5 DEF FindsClosed, SendsTo, Known, clientVars
  <2> QED
    BY <1>1, <2>1, <2>2 DEF Running, Known
<1>6. ASSUME Finishes(n) PROVE Moves
  <2>1. tasks'[n] = Over /\ registered' = registered \ tasks[n].lost
    BY <1>6, OneTaskMoves DEF Finishes
  <2> QED
    BY <1>1, <2>1, TaskStates DEF Known
<1> QED
  BY <1>2, <1>3, <1>4, <1>5, <1>6 DEF SendAll

LEMMA ClientStep ==
  ASSUME WsTypeOK, NumberInv, ClientInv, [Next]_vars
  PROVE  ClientInv'
<1>1. /\ None \notin Clients
      /\ \A n \in Numbers : \A c \in Known(tasks[n]) : c \in Clients => stage[c] # "away"
  BY ServerAssumption DEF ClientInv, ConnectedIsRegistered, Known
<1>2. CASE UNCHANGED <<pc, stage, up, registered, tasks>>
  BY <1>2 DEF ClientInv, ConnectedIsRegistered
<1>3. CASE (Start \/ Stop \/ Thread) /\ ~LoopCloses
  <2>1. UNCHANGED <<stage, up, registered, tasks>>
    BY <1>3, OthersAreAlone
  <2>2. ASSUME NEW c \in Clients, stage[c] = "open"
        PROVE  pc' \in {"serving", "closing", "unsubscribing", "closed"}
    BY <1>3, <2>2 DEF Start, Alive, Stop, Thread, MakesLoop, Binds, BindFails, Subscribes,
       DoClose, ServeForeverEnds, Unsubscribes, AllClosed, GoesOn, ClientInv, ConnectedIsRegistered
  <2> QED
    BY <2>1, <2>2 DEF ClientInv, ConnectedIsRegistered
<1>4. CASE LoopCloses
  <2>1. UNCHANGED <<stage, up, registered>> /\ pc = "cancelling"
    BY <1>4, OthersAreAlone DEF Thread, LoopCloses
  <2>2. \A n \in Numbers : tasks'[n].lost = {} /\ tasks'[n].todo = {} /\ tasks'[n].at = None
    BY <1>4, TasksAreOver, TaskStates
  <2> QED
    BY <1>1, <2>1, <2>2 DEF ClientInv, ConnectedIsRegistered
<1>5. ASSUME NEW p \in Publishers, HandsOver(p) PROVE ClientInv'
  <2>1. UNCHANGED <<pc, stage, up, registered>>
    BY <1>5, HandOver DEF threadVars, clientVars
  <2>2. \A n \in Numbers :
          \/ tasks'[n] = tasks[n]
          \/ tasks'[n].lost = {} /\ tasks'[n].todo = {} /\ tasks'[n].at = None
    BY <1>5, HandOver
  <2> QED
    BY <1>1, <2>1, <2>2 DEF ClientInv, ConnectedIsRegistered
<1>6. ASSUME NEW n \in Numbers, SendAll(n) PROVE ClientInv'
  <2>1. UNCHANGED <<pc, stage, up>> /\ \A m \in Numbers : m # n => tasks'[m] = tasks[m]
    BY <1>6, CoroutineMoves DEF threadVars
  <2> QED
    BY <1>6, <2>1, ClientMoves DEF ClientInv, ConnectedIsRegistered, Known
<1>7. ASSUME NEW c \in Clients, Connection(c) PROVE ClientInv'
  <2>1. UNCHANGED <<pc, tasks>>
    BY <1>7 DEF Connection, Registers, Rejects, Drops, ServerCloses, Unregisters, threadVars
  <2>2. stage \in [Clients -> Stages] /\ registered \subseteq Clients
    BY OtherTypes DEF WsTypeOK
  <2>3. CASE Registers(c)
    <3>1. \A n \in Numbers : c \notin tasks[n].lost
      BY <1>1, <2>3 DEF Registers, Known
    <3>2. /\ up' = up \union {c} /\ registered' = registered \union {c}
          /\ stage'[c] = "open" /\ \A d \in Clients : d # c => stage'[d] = stage[d]
          /\ pc = "serving"
      BY <2>2, <2>3 DEF Registers
    <3> QED
      BY <2>1, <2>2, <3>1, <3>2 DEF ClientInv, ConnectedIsRegistered
  <2>4. CASE Rejects(c)
    BY <2>1, <2>2, <2>4 DEF Rejects, ClientInv, ConnectedIsRegistered, Stages
  <2>5. CASE Drops(c)
    BY <2>1, <2>5 DEF Drops, ClientInv, ConnectedIsRegistered
  <2>6. CASE Unregisters(c)
    BY <2>1, <2>2, <2>6 DEF Unregisters, ClientInv, ConnectedIsRegistered, Stages
  <2> QED
    BY <1>7, <2>3, <2>4, <2>5, <2>6 DEF Connection, ServerCloses
<1>8. CASE \E p \in Publishers : Publishes(p) \/ DrawsNumber(p)
  BY <1>2, <1>8 DEF Publishes, DrawsNumber, threadVars, clientVars
<1> QED
  BY <1>2, <1>3, <1>4, <1>5, <1>6, <1>7, <1>8
  DEF Next, Connection, Publisher, vars, threadVars, clientVars

LEMMA TaskStep ==
  ASSUME WsTypeOK, NumberInv, TaskInv, [Next]_vars
  PROVE  TaskInv'
<1>1. CASE UNCHANGED <<pc, tasks>>
  BY <1>1 DEF TaskInv, HasLoop
<1>2. CASE (Start \/ Stop \/ Thread) /\ ~LoopCloses
  <2>1. UNCHANGED tasks /\ (HasLoop => HasLoop')
    BY <1>2, OthersAreAlone DEF Start, Alive, Stop, Thread, MakesLoop, Binds, BindFails,
       Subscribes, DoClose, ServeForeverEnds, Unsubscribes, AllClosed, GoesOn, HasLoop
  <2> QED
    BY <2>1 DEF TaskInv
<1>3. CASE LoopCloses
  BY <1>3, TasksAreOver, TaskStates DEF TaskInv
<1>4. ASSUME NEW p \in Publishers, HandsOver(p) PROVE TaskInv'
  BY <1>4, HandOver DEF TaskInv, HasLoop, threadVars
<1>5. ASSUME NEW n \in Numbers, SendAll(n) PROVE TaskInv'
  BY <1>5, CoroutineMoves DEF TaskInv, HasLoop, threadVars
<1>6. CASE \E c \in Clients : Connection(c)
  BY <1>1, <1>6 DEF Connection, Registers, Rejects, Drops, ServerCloses, Unregisters, threadVars
<1>7. CASE \E p \in Publishers : Publishes(p) \/ DrawsNumber(p)
  BY <1>1, <1>7 DEF Publishes, DrawsNumber, threadVars
<1> QED
  BY <1>1, <1>2, <1>3, <1>4, <1>5, <1>6, <1>7
  DEF Next, Connection, Publisher, vars, threadVars

---------------------------------------------------------------------------
(* The invariant, and the theorems *)

LEMMA InitEstablishes == Init => WsInv
<1> SUFFICES ASSUME Init PROVE WsInv
  OBVIOUS
<1> USE DEF Init, BusInit, NotPublishing
<1>1. /\ pc = "none" /\ topic = 1 /\ seq = 0 /\ starts = 0 /\ server = 0
      /\ \A t \in Topics : subs[t] = 0
      /\ \A p \in Publishers : pub[p].left = 0 /\ pub[p].n = 0
      /\ \A n \in Numbers : tasks[n] = [pc |-> "none", todo |-> {}, at |-> None, lost |-> {}]
      /\ up = {} /\ registered = {}
      /\ \A c \in Clients : stage[c] = "away"
  BY TaskStates
<1>2. WsTypeOK
  <2>1. BusTypeOK
    BY DEF BusTypeOK
  <2>2. /\ tasks \in [Numbers -> TaskState]
        /\ \A n \in Numbers : AtWhileSending(tasks[n])
    BY TaskStates DEF TaskState, TaskSteps, AtWhileSending
  <2>3. copies \in [Clients -> [Numbers -> Nat]] /\ stage \in [Clients -> Stages]
    BY DEF Stages
  <2>4. topic \in Topics /\ seq \in 0 .. MaxEvents /\ starts \in 0 .. MaxStarts
        /\ server \in 0 .. starts
    BY <1>1, Bounds DEF Topics
  <2>5. closeAsked \in BOOLEAN
    OBVIOUS
  <2> QED
    BY <1>1, <2>1, <2>2, <2>3, <2>4, <2>5 DEF WsTypeOK, TaskState, AtWhileSending
<1>3. OneMessagePerEvent /\ ListInv
  BY <1>1 DEF OneMessagePerEvent, ListInv
<1>4. NumberInv /\ TaskInv
  BY <1>1 DEF NumberInv, TaskInv
<1>5. CopyInv
  BY <1>1 DEF CopyInv
<1>6. ClientInv
  BY <1>1, ServerAssumption DEF ClientInv, ConnectedIsRegistered
<1> QED
  BY <1>2, <1>3, <1>4, <1>5, <1>6 DEF WsInv

\* The invariant of the server, for any clients, publishers and bounds.
THEOREM ServerInvariant == Spec => []WsInv
<1>1. WsInv /\ [Next]_vars => WsInv'
  BY TypeStep, ListStep, OneMessageStep, NumberStep, CopyStep, ClientStep, TaskStep DEF WsInv
<1> QED
  BY InitEstablishes, <1>1, PTL DEF Spec

\* The variables keep their types, and a coroutine is at a client exactly while
\* it sends (_send_all).
THEOREM TypeCorrect == Spec => []WsTypeOK
<1>1. WsInv => WsTypeOK
  BY DEF WsInv
<1> QED
  BY <1>1, ServerInvariant, PTL

\* No event makes two messages, however often the server is started and stopped
\* (start, _serve, EventBus.publish).
THEOREM EventsAreSentOnce == Spec => []OneMessagePerEvent
<1>1. WsInv => OneMessagePerEvent
  BY DEF WsInv
<1> QED
  BY <1>1, ServerInvariant, PTL

\* The server listens to every topic while it serves, and leaves nothing behind
\* when its thread ends (_serve, _run_loop).
THEOREM ServingIsSubscribed == Spec => []SubscribedWhileServing
<1>1. WsInv => SubscribedWhileServing
  <2> SUFFICES ASSUME WsInv PROVE SubscribedWhileServing
    OBVIOUS
  <2>1. pc = "serving" => \A t \in Topics : subs[t] = 1
    BY DEF WsInv, ListInv
  <2>2. ~Alive => \A t \in Topics : subs[t] = 0
    BY DEF WsInv, ListInv, Alive
  <2>3. ~Alive => registered = {}
    BY DEF WsInv, WsTypeOK, ClientInv, ConnectedIsRegistered, Alive
  <2>4. ~Alive => \A n \in Numbers : tasks[n].pc \in {"none", "over"}
    BY DEF WsInv, TaskInv, HasLoop, Alive
  <2> QED
    BY <2>1, <2>2, <2>3, <2>4 DEF SubscribedWhileServing
<1> QED
  BY <1>1, ServerInvariant, PTL

\* No open connection is off the list of clients, however handlers and
\* broadcasts interleave (_handle_client, _send_all).
THEOREM ConnectedStayRegistered == Spec => []ConnectedIsRegistered
<1>1. WsInv => ConnectedIsRegistered
  BY DEF WsInv, ClientInv
<1> QED
  BY <1>1, ServerInvariant, PTL

---------------------------------------------------------------------------
(* What the clients see *)

\* The server implements the channel: a number is drawn once, and a client gets
\* a message once at most (_next_seq, _send_all).
THEOREM ServerImplementsChannel == Spec => ImplementsChannel
<1> USE DEF Channel!channel, Channel!ChannelNext, Channel!Draw, Channel!Deliver
<1>1. Init => Channel!ChannelInit
  BY DEF Init, Channel!ChannelInit
<1>2. WsInv /\ [Next]_vars => [Channel!ChannelNext]_Channel!channel
  <2> SUFFICES ASSUME WsInv, [Next]_vars PROVE [Channel!ChannelNext]_Channel!channel
    OBVIOUS
  <2>1. CASE UNCHANGED <<seq, copies>>
    BY <2>1
  <2>2. ASSUME NEW p \in Publishers, DrawsNumber(p) PROVE Channel!Draw
    BY <2>2 DEF DrawsNumber
  <2>3. ASSUME NEW n \in Numbers, NEW c \in Clients, Sends(n, c) PROVE Channel!Deliver(c, n)
    <3>1. copies[c][n] = 0
      BY <2>3 DEF Sends, WsInv, CopyInv
    <3>2. n <= seq
      BY <2>3 DEF Sends, WsInv, NumberInv
    <3>3. copies' = [copies EXCEPT ![c][n] = 1] /\ seq' = seq
      BY <2>3, <3>1 DEF Sends
    <3> QED
      BY <3>1, <3>2, <3>3
  <2>4. ASSUME NEW n \in Numbers, SendAll(n), \A c \in Clients : ~Sends(n, c)
        PROVE  UNCHANGED <<seq, copies>>
    BY <2>4 DEF SendAll, Begins, Drains, FindsClosed, Finishes
  <2>5. ASSUME NEW p \in Publishers, Publishes(p) \/ HandsOver(p)
        PROVE  UNCHANGED <<seq, copies>>
    BY <2>5 DEF Publishes, HandsOver
  <2>6. ASSUME NEW c \in Clients, Connection(c) PROVE UNCHANGED <<seq, copies>>
    BY <2>6 DEF Connection, Registers, Rejects, Drops, ServerCloses, Unregisters
  <2> QED
    BY <2>1, <2>2, <2>3, <2>4, <2>5, <2>6, OthersAreAlone DEF Next, Connection, Publisher, vars
<1> QED
  BY <1>1, <1>2, ServerInvariant, PTL DEF Spec, ImplementsChannel, Channel!ChannelSpec

\* A client that is owed a message is still owed it after a step, or has got it,
\* or is gone.
LEMMA OwedStep ==
  ASSUME WsTypeOK, NumberInv, CopyInv, ClientInv, [Next]_vars,
         NEW c \in Clients, NEW n \in Owed(c)
  PROVE  n \in Owed(c)' \/ copies'[c][n] > 0 \/ c \notin up
<1> SUFFICES ASSUME c \in up PROVE n \in Owed(c)' \/ copies'[c][n] > 0
  OBVIOUS
<1>1. /\ n \in Numbers /\ c \in registered /\ stage[c] = "open"
      /\ pc \in {"serving", "closing", "unsubscribing", "closed"}
      /\ tasks[n].pc \in {"ready", "running", "sending"}
  BY DEF Owed, ClientInv, ConnectedIsRegistered, CopyInv
<1>2. (tasks'[n] = tasks[n] /\ c \in registered') => n \in Owed(c)'
  BY <1>1 DEF Owed
<1>3. CASE UNCHANGED <<tasks, registered>>
  BY <1>1, <1>2, <1>3
<1>4. CASE LoopCloses
  BY <1>1, <1>4 DEF LoopCloses
<1>5. ASSUME NEW p \in Publishers, HandsOver(p) PROVE n \in Owed(c)'
  BY <1>1, <1>2, <1>5, HandOver DEF clientVars
<1>6. ASSUME NEW m \in Numbers, SendAll(m), m # n PROVE n \in Owed(c)'
  BY <1>1, <1>2, <1>6, CoroutineMoves, ClientMoves
<1>7. ASSUME SendAll(n) PROVE n \in Owed(c)' \/ copies'[c][n] > 0
  <2>1. CASE Begins(n)
    BY <1>1, <2>1, OneTaskMoves DEF Begins, Running, Owed
  <2>2. CASE Sends(n, c)
    <3>1. copies \in [Clients -> [Numbers -> Nat]]
      BY OtherTypes
    <3> QED
      BY <1>1, <2>2, <3>1 DEF Sends
  <2>3. ASSUME NEW d \in Clients, d # c, Sends(n, d) PROVE n \in Owed(c)'
    <3>1. tasks'[n] = Sending(tasks[n].todo \ {d}, d, tasks[n].lost)
      BY <1>1, <2>3, OneTaskMoves DEF Sends
    <3>2. c \in tasks[n].todo
      BY <2>3 DEF Sends, Owed
    <3> QED
      BY <1>1, <2>3, <3>1, <3>2 DEF Sending, Owed
  <2>4. ASSUME NEW d \in Clients, Drains(n, d) PROVE n \in Owed(c)'
    <3>1. tasks'[n] = Running(tasks[n].todo, tasks[n].lost)
      BY <1>1, <2>4, OneTaskMoves DEF Drains
    <3>2. c \in tasks[n].todo
      BY <2>4, ServerAssumption, TaskTypes DEF Drains, Owed, AtWhileSending
    <3> QED
      BY <1>1, <3>1, <3>2 DEF Running, Owed
  <2>5. ASSUME NEW d \in Clients, FindsClosed(n, d) PROVE n \in Owed(c)'
    <3>1. tasks'[n] = Running(tasks[n].todo \ {d}, tasks[n].lost \union {d})
      BY <1>1, <2>5, OneTaskMoves DEF FindsClosed
    <3>2. c \in tasks[n].todo /\ c # d
      BY <2>5, ServerAssumption, TaskTypes
      DEF FindsClosed, SendsTo, Owed, AtWhileSending
    <3> QED
      BY <1>1, <3>1, <3>2 DEF Running, Owed
  <2>6. CASE Finishes(n)
    BY <2>6 DEF Finishes, Owed
  <2> QED
    BY <1>7, <2>1, <2>2, <2>3, <2>4, <2>5, <2>6 DEF SendAll
<1>8. ASSUME NEW d \in Clients, Connection(d) PROVE n \in Owed(c)'
  <2>1. UNCHANGED tasks /\ c \in registered'
    BY <1>1, <1>8 DEF Connection, Registers, Rejects, Drops, ServerCloses, Unregisters
  <2> QED
    BY <1>2, <2>1
<1>9. ASSUME NEW p \in Publishers, Publishes(p) \/ DrawsNumber(p) PROVE n \in Owed(c)'
  BY <1>3, <1>9, <1>2, <1>1 DEF Publishes, DrawsNumber, clientVars
<1> QED
  BY <1>3, <1>4, <1>5, <1>6, <1>7, <1>8, <1>9, OthersAreAlone
  DEF Next, Connection, Publisher, vars, clientVars

\* No step takes a message from a client that is connected but by sending it
\* (_send_all, _handle_client, _do_close).
THEOREM NobodyIsLeftOut == Spec => NobodyIsSkipped
<1>1. WsInv /\ [Next]_vars
        => [\A c \in Clients : \A n \in Owed(c) :
              n \in Owed(c)' \/ copies'[c][n] > 0 \/ c \notin up]_vars
  BY OwedStep DEF WsInv
<1> QED
  BY <1>1, ServerInvariant, PTL DEF Spec, NobodyIsSkipped

=============================================================================
