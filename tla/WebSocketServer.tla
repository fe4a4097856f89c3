--------------------------- MODULE WebSocketServer ---------------------------
(***************************************************************************)
(* The WebSocket server (app/interfaces/websocket/server.py): a thread     *)
(* with an event loop of its own, which sends every event of the bus to    *)
(* the clients that are connected.                                         *)
(*                                                                         *)
(* An event goes through three hands.  The publisher's thread draws a      *)
(* number and hands a coroutine over to the loop; the coroutine sends to   *)
(* the clients that were registered when it began, one after the other,    *)
(* and waits where a client reads too slowly; meanwhile clients come and   *)
(* go, the server may be stopped, and the loop may end.                    *)
(*                                                                         *)
(* What websockets and asyncio do is modelled as server.py relies on it: a *)
(* connection lets one send write and drain at a time, a send on a closed  *)
(* connection raises, close() closes every connection.  The loop runs one  *)
(* task at a time, up to its next await; here the steps of the tasks       *)
(* interleave freely, which is more than it does.                          *)
(***************************************************************************)
EXTENDS EventBus, FiniteSets

CONSTANTS
  Clients,     \* connections; none is opened twice
  MaxStarts,   \* bound: threads that are started, one after another
  MaxEvents,   \* bound: numbers that are drawn
  None         \* no client

ASSUME ServerAssumption ==
  /\ {MaxStarts, MaxEvents} \subseteq Nat
  /\ None \notin Clients

VARIABLES
  pc,          \* the thread: where it is in _run_loop and _serve
  topic,       \* ... and the topic it subscribes or unsubscribes next
  starts,      \* the threads started so far; the last one is the present one
  server,      \* _server: the thread whose server object it is, 0 for None
  closeAsked,  \* _do_close is scheduled on the loop
  seq,         \* _seq
  tasks,       \* the coroutine that sends message n
  stage,       \* the handler of each connection
  up,          \* the connections that are open
  registered,  \* _clients
  copies       \* how often each message was written to each connection

threadVars == <<pc, topic, starts, server, closeAsked>>
clientVars == <<stage, up, registered>>
busVars == <<subs, pub>>
vars == <<threadVars, busVars, seq, tasks, clientVars, copies>>

Numbers == 1 .. MaxEvents

\* Not connected yet, in the handler, through with it.
Stages == {"away", "open", "gone"}

\* The coroutine of a message: no coroutine, scheduled, between two sends (it may
\* wait for the lock of a connection), waiting for a connection to drain, over.
TaskSteps == {"none", "ready", "running", "sending", "over"}

NoTask == [pc |-> "none", todo |-> {}, at |-> None, lost |-> {}]

Running(todo, lost) == [pc |-> "running", todo |-> todo, at |-> None, lost |-> lost]
Sending(todo, c, lost) == [pc |-> "sending", todo |-> todo, at |-> c, lost |-> lost]
Over == [NoTask EXCEPT !.pc = "over"]

Init ==
  /\ BusInit
  /\ pc = "none" /\ topic = 1 /\ starts = 0 /\ server = 0 /\ closeAsked = FALSE
  /\ seq = 0
  /\ tasks = [n \in Numbers |-> NoTask]
  /\ stage = [c \in Clients |-> "away"]
  /\ up = {} /\ registered = {}
  /\ copies = [c \in Clients |-> [n \in Numbers |-> 0]]

---------------------------------------------------------------------------
(* The thread of the server, and who starts and stops it *)

Alive == pc \notin {"none", "ended"}

\* _loop is there, and runs.
HasLoop == pc \notin {"none", "starting", "ended"}

\* start: a no-op while the thread is alive.  _server keeps what it was.
Start ==
  /\ ~Alive
  /\ starts < MaxStarts
  /\ starts' = starts + 1
  /\ pc' = "starting"
  /\ UNCHANGED <<topic, server, closeAsked, busVars, seq, tasks, clientVars, copies>>

\* stop does nothing to a thread that has no server yet, nor to one that closes
\* already; that it waits 5 s for the end of the thread changes nothing.
Stop ==
  /\ pc \in {"binding", "subscribing", "serving"} /\ server # 0
  /\ closeAsked' = TRUE
  /\ UNCHANGED <<pc, topic, starts, server, busVars, seq, tasks, clientVars, copies>>

\* _run_loop makes the loop and runs _serve on it.
MakesLoop ==
  /\ pc = "starting"
  /\ pc' = "binding"
  /\ UNCHANGED <<topic, starts, server, closeAsked, busVars, seq, tasks, clientVars, copies>>

\* websockets.serve has bound the port ...
Binds ==
  /\ pc = "binding"
  /\ server' = starts
  /\ pc' = "subscribing" /\ topic' = 1
  /\ UNCHANGED <<starts, closeAsked, busVars, seq, tasks, clientVars, copies>>

\* ... or has raised.
BindFails ==
  /\ pc = "binding"
  /\ pc' = "cancelling"
  /\ UNCHANGED <<topic, starts, server, closeAsked, busVars, seq, tasks, clientVars, copies>>

\* At the last topic the thread goes on to the step "next".
GoesOn(next) ==
  IF topic < NumTopics THEN topic' = topic + 1 /\ pc' = pc
                       ELSE topic' = 1 /\ pc' = next

Subscribes ==
  /\ pc = "subscribing"
  /\ Subscribe(topic)
  /\ GoesOn("serving")
  /\ UNCHANGED <<starts, server, closeAsked, pub, seq, tasks, clientVars, copies>>

\* Mutant: the server is closed when the last client has gone.
DoCloseWhenIdle ==
  /\ closeAsked /\ registered = {}
  /\ pc \in {"binding", "serving"}
  /\ closeAsked' = FALSE
  /\ pc' = IF pc = "serving" THEN "closing" ELSE pc
  /\ UNCHANGED <<topic, starts, server, busVars, seq, tasks, clientVars, copies>>

\* _do_close runs on the loop, between two tasks.  If the server object is that
\* of an earlier thread, it is closed already.
DoClose ==
  /\ closeAsked
  /\ pc \in {"binding", "serving"}
  /\ closeAsked' = FALSE
  /\ pc' = IF pc = "serving" THEN "closing" ELSE pc
  /\ UNCHANGED <<topic, starts, server, busVars, seq, tasks, clientVars, copies>>

\* Mutant: the CancelledError is not caught.
ServeForeverRaises ==
  /\ pc = "closing"
  /\ pc' = "closed" /\ topic' = 1
  /\ UNCHANGED <<starts, server, closeAsked, busVars, seq, tasks, clientVars, copies>>

\* serve_forever raises CancelledError, which is caught.
ServeForeverEnds ==
  /\ pc = "closing"
  /\ pc' = "unsubscribing" /\ topic' = 1
  /\ UNCHANGED <<starts, server, closeAsked, busVars, seq, tasks, clientVars, copies>>

Unsubscribes ==
  /\ pc = "unsubscribing"
  /\ Unsubscribe(topic)
  /\ GoesOn("closed")
  /\ UNCHANGED <<starts, server, closeAsked, pub, seq, tasks, clientVars, copies>>

\* The server has closed its connections, and the handlers are through.
AllClosed ==
  /\ pc = "closed"
  /\ \A c \in Clients : stage[c] # "open"
  /\ pc' = "cancelling"
  /\ UNCHANGED <<topic, starts, server, closeAsked, busVars, seq, tasks, clientVars, copies>>

\* _cancel_pending, and the loop is closed: neither a coroutine nor a callback
\* that is still scheduled will run.
LoopCloses ==
  /\ pc = "cancelling"
  /\ pc' = "ended"
  /\ closeAsked' = FALSE
  /\ tasks' = [n \in Numbers |-> IF tasks[n].pc = "none" THEN NoTask ELSE Over]
  /\ UNCHANGED <<topic, starts, server, busVars, seq, clientVars, copies>>

Thread ==
  \/ MakesLoop \/ Binds \/ BindFails \/ Subscribes
  \/ DoClose
  \/ ServeForeverEnds \/ Unsubscribes \/ AllClosed \/ LoopCloses

---------------------------------------------------------------------------
(* A publisher, in the callback of the server: _on_event *)

\* The bus copies its list of callbacks.
Publishes(p) ==
  /\ \E t \in Topics : Publish(p, t)
  /\ UNCHANGED <<threadVars, subs, seq, tasks, clientVars, copies>>

\* _build_envelope draws the number, under a lock.
DrawsNumber(p) ==
  /\ pub[p].left > 0 /\ pub[p].n = 0
  /\ seq < MaxEvents
  /\ seq' = seq + 1
  /\ pub' = [pub EXCEPT ![p] = [left |-> @.left, n |-> seq + 1]]
  /\ UNCHANGED <<threadVars, subs, tasks, clientVars, copies>>

\* The coroutine is handed over if there is a loop.  If the loop goes between
\* this test and the hand-over the callback raises, and the message is lost as
\* if the test had failed.
HandsOver(p) ==
  /\ pub[p].n # 0
  /\ tasks' = IF HasLoop
                THEN [tasks EXCEPT ![pub[p].n] = [NoTask EXCEPT !.pc = "ready"]]
                ELSE tasks
  /\ CallEnds(p)
  /\ UNCHANGED <<threadVars, subs, seq, clientVars, copies>>

Publisher(p) == DrawsNumber(p) \/ HandsOver(p)

---------------------------------------------------------------------------
(* A connection and its handler: _handle_client *)

\* The handshake is done, and the handler begins without an await between.
Registers(c) ==
  /\ pc = "serving"
  /\ stage[c] = "away"
  /\ stage' = [stage EXCEPT ![c] = "open"]
  /\ up' = up \union {c}
  /\ registered' = registered \union {c}
  /\ UNCHANGED <<threadVars, busVars, seq, tasks, copies>>

\* The client asked for another path than /ws/events.
Rejects(c) ==
  /\ pc = "serving"
  /\ stage[c] = "away"
  /\ stage' = [stage EXCEPT ![c] = "gone"]
  /\ UNCHANGED <<threadVars, busVars, seq, tasks, up, registered, copies>>

\* The client goes, its network fails, or it does not answer a ping.
Drops(c) ==
  /\ c \in up
  /\ up' = up \ {c}
  /\ UNCHANGED <<threadVars, busVars, seq, tasks, stage, registered, copies>>

\* Server.close() closes the connection.
ServerCloses(c) ==
  /\ pc \in {"closing", "closed"}
  /\ Drops(c)

\* The loop runs tasks while it waits for something.
LoopRuns == HasLoop /\ pc \notin {"subscribing", "unsubscribing"}

\* The iteration over the connection ends: the finally of the handler.
Unregisters(c) ==
  /\ LoopRuns
  /\ stage[c] = "open" /\ c \notin up
  /\ stage' = [stage EXCEPT ![c] = "gone"]
  /\ registered' = registered \ {c}
  /\ UNCHANGED <<threadVars, busVars, seq, tasks, up, copies>>

---------------------------------------------------------------------------
(* The coroutine that sends message n: _send_all *)

Set(n, task) == tasks' = [tasks EXCEPT ![n] = task]

\* The clients are copied under their lock.
Begins(n) ==
  /\ LoopRuns
  /\ tasks[n].pc = "ready"
  /\ Set(n, Running(registered, {}))
  /\ UNCHANGED <<threadVars, busVars, seq, clientVars, copies>>

\* No send to connection c is under way.
LockIsFree(c) == \A m \in Numbers : tasks[m].at # c

\* Mutant: the client is not taken from the list.
SendsKeepsClient(n, c) ==
  /\ LoopRuns
  /\ tasks[n].pc = "running" /\ c \in tasks[n].todo
  /\ c \in up /\ LockIsFree(c)
  /\ copies' = [copies EXCEPT ![c][n] = @ + 1]
  /\ Set(n, Sending(tasks[n].todo, c, tasks[n].lost))
  /\ UNCHANGED <<threadVars, busVars, seq, clientVars>>

\* The next client of the copy, which has no order to go by: the message is
\* written once the lock of the connection is free.
Sends(n, c) ==
  /\ LoopRuns
  /\ tasks[n].pc = "running" /\ c \in tasks[n].todo
  /\ c \in up /\ LockIsFree(c)
  /\ copies' = [copies EXCEPT ![c][n] = @ + 1]
  /\ Set(n, Sending(tasks[n].todo \ {c}, c, tasks[n].lost))
  /\ UNCHANGED <<threadVars, busVars, seq, clientVars>>

\* Mutant: a send that takes too long counts as one to a closed connection.
DrainsTooLate(n, c) ==
  /\ LoopRuns
  /\ tasks[n].at = c /\ c \in up
  /\ \/ Set(n, Running(tasks[n].todo, tasks[n].lost))
     \/ Set(n, Running(tasks[n].todo, tasks[n].lost \union {c}))
  /\ UNCHANGED <<threadVars, busVars, seq, clientVars, copies>>

\* The client has read enough for the send to return.
Drains(n, c) ==
  /\ LoopRuns
  /\ tasks[n].at = c /\ c \in up
  /\ Set(n, Running(tasks[n].todo, tasks[n].lost))
  /\ UNCHANGED <<threadVars, busVars, seq, clientVars, copies>>

\* A send to c is under way, or the next one.
SendsTo(n, c) == tasks[n].at = c \/ (tasks[n].pc = "running" /\ c \in tasks[n].todo)

\* Mutant: ConnectionClosed is not caught, and ends the coroutine.
RaisesClosed(n, c) ==
  /\ LoopRuns
  /\ SendsTo(n, c) /\ c \notin up
  /\ Set(n, Over)
  /\ UNCHANGED <<threadVars, busVars, seq, clientVars, copies>>

\* Mutant: the send is tried again.
FindsClosedRetries(n, c) ==
  /\ LoopRuns
  /\ SendsTo(n, c) /\ c \notin up
  /\ Set(n, Running(tasks[n].todo \union {c}, tasks[n].lost))
  /\ UNCHANGED <<threadVars, busVars, seq, clientVars, copies>>

\* Mutant: the coroutine keeps the connection it was sending to.
FindsClosedKeepsAt(n, c) ==
  /\ LoopRuns
  /\ SendsTo(n, c) /\ c \notin up
  /\ Set(n, [tasks[n] EXCEPT !.pc = "running", !.todo = @ \ {c}, !.lost = @ \union {c}])
  /\ UNCHANGED <<threadVars, busVars, seq, clientVars, copies>>

\* The send raises ConnectionClosed; the other clients get the message.
FindsClosed(n, c) ==
  /\ LoopRuns
  /\ SendsTo(n, c) /\ c \notin up
  /\ Set(n, Running(tasks[n].todo \ {c}, tasks[n].lost \union {c}))
  /\ UNCHANGED <<threadVars, busVars, seq, clientVars, copies>>

\* The clients that were found closed are removed.
Finishes(n) ==
  /\ LoopRuns
  /\ tasks[n].pc = "running" /\ tasks[n].todo = {}
  /\ registered' = registered \ tasks[n].lost
  /\ Set(n, Over)
  /\ UNCHANGED <<threadVars, busVars, seq, stage, up, copies>>

SendAll(n) ==
  \/ Begins(n)
  \/ \E c \in Clients : Sends(n, c) \/ Drains(n, c) \/ FindsClosed(n, c)
  \/ Finishes(n)

---------------------------------------------------------------------------

Next ==
  \/ Start \/ Stop
  \/ Thread
  \/ \E p \in Publishers : Publishes(p) \/ Publisher(p)
  \/ \E c \in Clients : Registers(c) \/ Rejects(c) \/ Drops(c) \/ ServerCloses(c) \/ Unregisters(c)
  \/ \E n \in Numbers : SendAll(n)

Spec == Init /\ [][Next]_vars

\* The threads run, the loop serves all that is ready, and a send ends: a client
\* that does not read is dropped when it misses a ping (ping_timeout).  Nobody
\* need connect, drop, publish, start or stop.
Fairness ==
  /\ WF_vars(Thread)
  /\ \A p \in Publishers : WF_vars(Publisher(p))
  /\ \A c \in Clients : WF_vars(Unregisters(c) \/ ServerCloses(c))
  /\ \A n \in Numbers : WF_vars(SendAll(n))

FairSpec == Spec /\ Fairness

---------------------------------------------------------------------------
(* Properties *)

\* The types of the variables; a coroutine is at a client while it sends.
WsTypeOK ==
  /\ BusTypeOK
  /\ pc \in {"none", "starting", "binding", "subscribing", "serving", "closing", "unsubscribing",
             "closed", "cancelling", "ended"}
  /\ topic \in Topics
  /\ starts \in 0 .. MaxStarts /\ server \in 0 .. starts
  /\ closeAsked \in BOOLEAN
  /\ seq \in 0 .. MaxEvents
  /\ tasks \in [Numbers -> [pc: TaskSteps, todo: SUBSET Clients,
                            at: Clients \union {None}, lost: SUBSET Clients]]
  /\ \A n \in Numbers : tasks[n].at # None <=> tasks[n].pc = "sending"
  /\ stage \in [Clients -> Stages]
  /\ up \subseteq Clients /\ registered \subseteq Clients
  /\ copies \in [Clients -> [Numbers -> Nat]]

\* An event makes one message at most: at no time is the callback on a list
\* twice, also after a restart, nor does a publisher have to call it twice.
OneMessagePerEvent ==
  /\ \A t \in Topics : subs[t] <= 1
  /\ \A p \in Publishers : pub[p].left <= 1

\* While the server serves it listens to every topic, and when its thread has
\* ended it listens to none, knows of no client and has no coroutine left.
SubscribedWhileServing ==
  /\ pc = "serving" => \A t \in Topics : subs[t] = 1
  /\ ~Alive => /\ \A t \in Topics : subs[t] = 0
               /\ registered = {}
               /\ \A n \in Numbers : tasks[n].pc \in {"none", "over"}

\* A client that is connected gets the events to come: none that has an open
\* connection is off the list of clients, which handlers and several broadcasts
\* that have found clients closed take clients from, each by what it saw before
\* (_handle_client, _send_all).
ConnectedIsRegistered == up \subseteq registered

\* Every message has a number of its own, and no client gets one twice, however
\* publishers, slow clients and restarts interleave.
Channel == INSTANCE EventChannel WITH drawn <- seq
ImplementsChannel == Channel!ChannelSpec

\* The messages that client c has still to be sent.
Owed(c) ==
  {n \in Numbers : (tasks[n].pc = "ready" /\ c \in registered) \/ c \in tasks[n].todo}

\* Whoever is registered when a message is handed over and stays connected is
\* not left out of it, whatever becomes of the other clients, of the lists of
\* clients that are copied meanwhile, and of the server.
NobodyIsSkipped ==
  [][\A c \in Clients : \A n \in Owed(c) :
       n \in Owed(c)' \/ copies'[c][n] > 0 \/ c \notin up]_vars

\* Every message that is handed over is done with in the end: a client that is
\* slow or gone holds up the others, but not for ever.
SendingEnds == \A n \in Numbers : tasks[n].pc = "ready" ~> tasks[n].pc = "over"

\* Once close is asked of the server of this thread the thread ends, whatever
\* its clients do.
StopEndsServer == closeAsked /\ server = starts ~> ~Alive

---------------------------------------------------------------------------
(* The inductive invariant of the safety properties *)

\* What is on the lists of the bus at each step of the thread.
ListInv ==
  \A t \in Topics :
    CASE pc \in {"serving", "closing"} -> subs[t] = 1
      [] pc = "subscribing"            -> subs[t] = IF t < topic THEN 1 ELSE 0
      [] pc = "unsubscribing"          -> subs[t] = IF t < topic THEN 0 ELSE 1
      [] OTHER                         -> subs[t] = 0

\* A publisher that has drawn a number is the only one that has it, and no
\* coroutine sends it yet.
NumberInv ==
  /\ \A p \in Publishers :
       pub[p].n # 0 => /\ pub[p].left > 0
                       /\ pub[p].n <= seq
                       /\ tasks[pub[p].n].pc = "none"
  /\ \A p, q \in Publishers : pub[p].n = pub[q].n /\ pub[p].n # 0 => p = q
  /\ \A n \in Numbers : tasks[n].pc # "none" => n <= seq

\* A client that a message has still to be sent to has not got it.
CopyInv ==
  /\ \A n \in Numbers : tasks[n].pc \notin {"running", "sending"} => tasks[n].todo = {}
  /\ \A n \in Numbers, c \in Clients :
       tasks[n].pc \in {"none", "ready"} \/ c \in tasks[n].todo => copies[c][n] = 0

\* The clients that are connected are registered, and those are in the handler,
\* which no client is once all connections are closed.
ClientInv ==
  /\ ConnectedIsRegistered
  /\ \A c \in registered : stage[c] = "open"
  /\ \A c \in Clients :
       stage[c] = "open" => pc \in {"serving", "closing", "unsubscribing", "closed"}
  /\ \A n \in Numbers :
       /\ tasks[n].lost \intersect up = {}
       /\ \A c \in tasks[n].todo \union tasks[n].lost \union {tasks[n].at} :
            c \in Clients => stage[c] # "away"

\* Without a loop there is no coroutine.
TaskInv == ~HasLoop => \A n \in Numbers : tasks[n].pc \in {"none", "over"}

WsInv ==
  /\ WsTypeOK
  /\ OneMessagePerEvent
  /\ ListInv
  /\ NumberInv
  /\ CopyInv
  /\ ClientInv
  /\ TaskInv

=============================================================================
