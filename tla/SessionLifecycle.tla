-------------------------- MODULE SessionLifecycle --------------------------
(***************************************************************************)
(* What a recording session in the database may go through                 *)
(* (app/domain/recording/session.py), seen by whoever reads the table: it  *)
(* is created active, it is closed with an outcome, and it is never active *)
(* again.                                                                  *)
(*                                                                         *)
(* The diagram at the top of session.py says more, that a closed session   *)
(* is read-only: DocumentedSpec.  The methods that enforce it check the    *)
(* caller's own copy of the session, so what the table shows is only       *)
(* ObservedSpec.                                                           *)
(***************************************************************************)
CONSTANT Sessions
VARIABLE session

Endings == {"completed", "failed", "aborted"}
Statuses == {"none", "recording"} \union Endings

AllAbsent == session = [s \in Sessions |-> "none"]

Create(s) ==
  /\ session[s] = "none"
  /\ session' = [session EXCEPT ![s] = "recording"]

Close(s, outcome) ==
  /\ session[s] = "recording"
  /\ session' = [session EXCEPT ![s] = outcome]

Relabel(s, outcome) ==
  /\ session[s] \in Endings
  /\ session' = [session EXCEPT ![s] = outcome]

DocumentedNext ==
  \E s \in Sessions : Create(s) \/ \E o \in Endings : Close(s, o)

ObservedNext ==
  \E s \in Sessions :
    Create(s) \/ \E o \in Endings : Close(s, o) \/ Relabel(s, o)

DocumentedSpec == AllAbsent /\ [][DocumentedNext]_session
ObservedSpec   == AllAbsent /\ [][ObservedNext]_session
=============================================================================
