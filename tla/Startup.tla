------------------------------ MODULE Startup -------------------------------
(***************************************************************************)
(* The client that has created a session and started its service, waiting  *)
(* for it to become ready (src/runtime/daemon.rs, spawn_daemon): it looks  *)
(* at the status, then asks whether the process has ended, each at a       *)
(* moment of its own, until it can answer or its time is up.               *)
(***************************************************************************)
EXTENDS Service

VARIABLES
  creator,   \* where the loop is
  late,      \* whether the time of the present loop is up
  misread,   \* whether a look at the store failed; no step depends on it
  verdict    \* what spawn_daemon returned: none yet, ready, failed (with
             \* the reason of the session), exited, timed_out, error

creatorVars == <<creator, late, misread, verdict>>

startupVars == <<vars, creatorVars>>

StartupInit ==
  /\ Init
  /\ creator = "look" /\ late = FALSE /\ misread = FALSE /\ verdict = "none"

ServiceRuns == Next /\ UNCHANGED creatorVars

(* Mutant of Answer: whatever is not Starting is ready.                    *)
AnswerOnceStarted == [Live |-> "ready", Exited |-> "ready", Failed |-> "ready"]

(* ready_result; a Starting session has no answer yet.                     *)
Answer == [Live |-> "ready", Exited |-> "ready", Failed |-> "failed"]

(* Where a look that found no answer leads: the main loop, the second of   *)
(* grace after the process has ended, the last quarter of a second.        *)
AfterLook == [look |-> "try_wait", look_grace |-> "wait_grace",
              look_last |-> "wait_last"]

(* session_by_hash and ready_result.                                       *)
Look ==
  /\ creator \in DOMAIN AfterLook
  /\ IF status \in DOMAIN Answer
     THEN creator' = "done" /\ verdict' = Answer[status]
     ELSE creator' = AfterLook[creator] /\ UNCHANGED verdict
  /\ UNCHANGED <<vars, late, misread>>

(* An error of the store is no answer.                                     *)
LookFails ==
  /\ creator \in DOMAIN AfterLook
  /\ creator' = AfterLook[creator]
  /\ misread' = TRUE
  /\ FaultElsewhere /\ UNCHANGED <<late, verdict>>

(* Mutant of TryWait: a process that has ended leaves nothing to look at.  *)
TryWaitOnly ==
  /\ creator = "try_wait"
  /\ \/ /\ main = "gone"
        /\ creator' = "done" /\ verdict' = "exited" /\ late' = late
     \/ /\ main # "gone"
        /\ creator' = IF late THEN "look_last" ELSE "look"
        /\ late' = FALSE /\ verdict' = verdict
  /\ UNCHANGED <<vars, misread>>

(* try_wait: after the end of the process the status is looked at again.   *)
TryWait ==
  /\ creator = "try_wait"
  /\ \/ main = "gone" /\ creator' = "look_grace" /\ late' = FALSE
     \/ main # "gone" /\ late /\ creator' = "look_last" /\ late' = FALSE
     \/ main # "gone" /\ ~ late /\ creator' = "look" /\ UNCHANGED late
  /\ UNCHANGED <<vars, misread, verdict>>

(* An error of try_wait is the client's, whatever becomes of the service.  *)
TryWaitFails ==
  /\ creator = "try_wait"
  /\ creator' = "done" /\ verdict' = "error"
  /\ FaultElsewhere /\ UNCHANGED <<late, misread>>

(* Mutant of Wait: the second of grace has no end.                         *)
WaitWithoutEnd ==
  \/ /\ creator \in {"wait_grace", "wait_last"} /\ (late => creator = "wait_grace")
     /\ creator' = IF creator = "wait_grace" THEN "look_grace" ELSE "look_last"
     /\ UNCHANGED <<vars, late, misread, verdict>>
  \/ /\ creator = "wait_last" /\ late
     /\ creator' = "done"
     /\ verdict' = "timed_out"
     /\ UNCHANGED <<vars, late, misread>>

(* wait_for_ready_state after a look in vain.                              *)
Wait ==
  \/ /\ creator \in {"wait_grace", "wait_last"} /\ ~ late
     /\ creator' = IF creator = "wait_grace" THEN "look_grace" ELSE "look_last"
     /\ UNCHANGED <<vars, late, misread, verdict>>
  \/ /\ creator \in {"wait_grace", "wait_last"} /\ late
     /\ creator' = "done"
     /\ verdict' = IF creator = "wait_grace" THEN "exited" ELSE "timed_out"
     /\ UNCHANGED <<vars, late, misread>>

TimePasses ==
  /\ ~ late /\ creator # "done"
  /\ late' = TRUE
  /\ UNCHANGED <<vars, creator, misread, verdict>>

CreatorStep == Look \/ TryWait \/ Wait

CreatorFails == LookFails \/ TryWaitFails

StartupNext == ServiceRuns \/ CreatorStep \/ CreatorFails \/ TimePasses

StartupSpec == StartupInit /\ [][StartupNext]_startupVars

-----------------------------------------------------------------------------
(* "Exited before session became ready" is said only of a service that is  *)
(* gone and has left its session Starting, although the status and the end *)
(* of the process are asked for one after the other.                       *)
ExitedVerdictIsTrue ==
  verdict = "exited" => main = "gone" /\ (status = "Starting" \/ misread)

(* new returns without an error only for a session whose command has been  *)
(* started and which has a socket to attach to, unless it is over by then. *)
ReadyMeansStarted ==
  verdict = "ready" => child # "none" /\ (socket \/ IsDead)

(* The client is answered, whatever the service does or fails to do.       *)
CreatorAnswered == creator = "look" ~> creator = "done"
=============================================================================
