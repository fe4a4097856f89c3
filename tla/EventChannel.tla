---------------------------- MODULE EventChannel ----------------------------
(***************************************************************************)
(* What the clients of the WebSocket server may see: numbered messages,    *)
(* each of them at most once, and none that was not numbered before.  Both *)
(* order and completeness are left open: two publishers may hand over in   *)
(* another order than they drew their numbers.                             *)
(***************************************************************************)
EXTENDS Naturals

CONSTANTS Clients, Numbers
VARIABLES
  drawn,    \* the last number that was drawn
  copies    \* how often each message was sent to each client

channel == <<drawn, copies>>

ChannelInit == drawn = 0 /\ copies = [c \in Clients |-> [n \in Numbers |-> 0]]

Draw ==
  /\ drawn' = drawn + 1
  /\ UNCHANGED copies

Deliver(c, n) ==
  /\ n <= drawn
  /\ copies[c][n] = 0
  /\ copies' = [copies EXCEPT ![c][n] = 1]
  /\ UNCHANGED drawn

ChannelNext == Draw \/ \E c \in Clients, n \in Numbers : Deliver(c, n)

ChannelSpec == ChannelInit /\ [][ChannelNext]_channel
=============================================================================
