------------------------- MODULE RecordingContract -------------------------
(***************************************************************************)
(* What the ffmpeg runner promises the recording service about each        *)
(* recording it starts, without its registry, its stop calls, the stop     *)
(* events and the joins: ffmpeg is started once; a death is reported at    *)
(* most once, and nothing but a death is reported; and ffmpeg is stopped   *)
(* on purpose only when no report can come any more (the comment at        *)
(* start_watcher in app/infrastructure/ffmpeg/process_runner.py: the exit  *)
(* is reported "if it was not deliberately stopped").                      *)
(***************************************************************************)
CONSTANT Recordings
VARIABLES
  life,     \* the ffmpeg process of each recording
  report    \* what the service can still hear of it

contractVars == <<life, report>>

Lives   == {"none", "running", "died", "stopped", "orphan"}
Reports == {"none", "due", "delivering", "over"}

ContractInit ==
  /\ life = [r \in Recordings |-> "none"]
  /\ report = [r \in Recordings |-> "none"]

Starts(r) ==
  /\ life[r] = "none"
  /\ life' = [life EXCEPT ![r] = "running"]
  /\ report' = [report EXCEPT ![r] = "due"]

Dies(r) ==
  /\ life[r] = "running"
  /\ life' = [life EXCEPT ![r] = "died"]
  /\ UNCHANGED report

\* The death is reported ...
Reported(r) ==
  /\ life[r] = "died"
  /\ report[r] = "due"
  /\ report' = [report EXCEPT ![r] = "delivering"]
  /\ UNCHANGED life

\* ... and there is nothing to report after it.
Delivered(r) ==
  /\ report[r] = "delivering"
  /\ report' = [report EXCEPT ![r] = "over"]
  /\ UNCHANGED life

\* Somebody is stopping the recording: a death will not be reported any more.
Silenced(r) ==
  /\ report[r] = "due"
  /\ report' = [report EXCEPT ![r] = "over"]
  /\ UNCHANGED life

Stopped(r) ==
  /\ life[r] = "running"
  /\ report[r] = "over"
  /\ life' = [life EXCEPT ![r] = "stopped"]
  /\ UNCHANGED report

\* The core ends, and what it has not stopped goes on without it.
CoreEnds ==
  /\ life' = [r \in Recordings |->
                IF life[r] = "running" THEN "orphan" ELSE life[r]]
  /\ report' = [r \in Recordings |->
                  IF report[r] = "none" THEN "none" ELSE "over"]

ContractNext ==
  \/ \E r \in Recordings :
       Starts(r) \/ Dies(r) \/ Reported(r) \/ Delivered(r) \/ Silenced(r)
         \/ Stopped(r)
  \/ CoreEnds

ContractSpec == ContractInit /\ [][ContractNext]_contractVars
=============================================================================
