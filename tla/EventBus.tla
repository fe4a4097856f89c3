------------------------------ MODULE EventBus ------------------------------
(***************************************************************************)
(* The event bus (app/infrastructure/events/event_bus.py): callbacks are   *)
(* registered for a topic, and whoever publishes an event calls them in    *)
(* its own thread, from a copy of the list made under the lock of the bus. *)
(*                                                                         *)
(* The program has one subscriber, the WebSocket server, which registers   *)
(* one callback; so a list is known by how often that callback is on it.   *)
(***************************************************************************)
EXTENDS Naturals

CONSTANTS
  NumTopics,   \* the topics are 1 .. NumTopics, in the order of EVENT_TOPICS
  Publishers   \* the threads that publish: the cycle, workers, watchers, the API

Topics == 1 .. NumTopics

ASSUME BusAssumption == NumTopics \in Nat \ {0}

VARIABLES
  subs,   \* _subscribers: the registrations for each topic
  pub     \* each publisher: calls that remain, and the number drawn in this one

\* A publisher that is in no call; n = 0: no number is drawn.
NotPublishing == [left |-> 0, n |-> 0]

BusInit ==
  /\ subs = [t \in Topics |-> 0]
  /\ pub = [p \in Publishers |-> NotPublishing]

Subscribe(t) == subs' = [subs EXCEPT ![t] = @ + 1]

\* Every registration of the callback goes.
Unsubscribe(t) == subs' = [subs EXCEPT ![t] = 0]

\* publish copies the list.  From here on the callbacks of the copy are called,
\* whatever becomes of the list.
Publish(p, t) ==
  /\ pub[p] = NotPublishing
  /\ pub' = [pub EXCEPT ![p] = [left |-> subs[t], n |-> 0]]

\* A callback has returned, or has raised, which is logged: the next one.
CallEnds(p) == pub' = [pub EXCEPT ![p] = [left |-> @.left - 1, n |-> 0]]

BusTypeOK ==
  /\ subs \in [Topics -> Nat]
  /\ pub \in [Publishers -> [left: Nat, n: Nat]]
=============================================================================
