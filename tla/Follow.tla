------------------------------- MODULE Follow -------------------------------
(***************************************************************************)
(* A client that follows a session of the service: tail -f and             *)
(* events --follow (src/runtime/client.rs), and the output and event       *)
(* subscriptions of the RPC server (src/rpc.rs), which are the same loop.  *)
(* It shares nothing with the service but the files: it reads the log or   *)
(* the history, then the status, then the length of the file again, each   *)
(* at a moment of its own.                                                 *)
(***************************************************************************)
EXTENDS Service

VARIABLES
  followed,   \* the file: "output" (pty.log) or "events"
  follower,   \* where the loop is
  position,   \* how much of the file has been printed
  atDeath     \* the length of the file when the session died; no step of
              \* the program depends on it

followVars == <<vars, followed, follower, position, atDeath>>

FileExists == followed = "events" \/ logFile

FileLen == IF followed = "events" THEN Len(history) ELSE logged

FollowInit ==
  /\ Init
  /\ followed \in {"output", "events"}
  /\ follower = "read" /\ position = 0 /\ atDeath = 0

ServiceStep(Step) ==
  /\ Step
  /\ UNCHANGED <<followed, follower, position>>
  /\ atDeath' = IF ~ IsDead /\ IsDead' THEN FileLen' ELSE atDeath

(* What is new in the file is printed.                                     *)
ReadFile ==
  /\ follower = "read"
  /\ position' = IF FileExists THEN FileLen ELSE position
  /\ follower' = "ask"
  /\ UNCHANGED <<vars, followed, atDeath>>

(* Mutant of AskStatus: a dead session has no more to say.                 *)
AskStatusOnly ==
  /\ follower = "ask"
  /\ follower' = IF IsDead THEN "done" ELSE "read"
  /\ UNCHANGED <<vars, followed, position, atDeath>>

(* session_by_hash; a live session is looked at again after a pause.       *)
AskStatus ==
  /\ follower = "ask"
  /\ follower' = IF IsDead THEN "measure" ELSE "read"
  /\ UNCHANGED <<vars, followed, position, atDeath>>

(* Mutant of Measure: the file must have grown since it was read.          *)
MeasureGrowth ==
  /\ follower = "measure"
  /\ follower' = IF FileExists /\ FileLen < position THEN "done" ELSE "read"
  /\ UNCHANGED <<vars, followed, position, atDeath>>

(* Nothing new since the file was read: the loop ends.                     *)
Measure ==
  /\ follower = "measure"
  /\ follower' = IF FileExists /\ FileLen <= position THEN "done" ELSE "read"
  /\ UNCHANGED <<vars, followed, position, atDeath>>

FollowerStep == ReadFile \/ AskStatus \/ Measure

(* An error of the file, the store or the printing ends the loop.          *)
FollowerFails ==
  /\ follower \in {"read", "ask", "measure"}
  /\ follower' = "failed"
  /\ FaultElsewhere /\ UNCHANGED <<followed, position, atDeath>>

FollowNext == ServiceStep(Next) \/ FollowerStep \/ FollowerFails

FollowSpec == FollowInit /\ [][FollowNext]_followVars

(* The threads of the service as in FairSpec; the follower keeps polling.  *)
FairFollowSpec ==
  /\ FollowSpec
  /\ WF_followVars(ServiceStep(Main)) /\ WF_followVars(ServiceStep(Reader))
  /\ WF_followVars(ServiceStep(Waiter))
  /\ WF_followVars(FollowerStep)

-----------------------------------------------------------------------------
FollowTypeOK ==
  /\ followed \in {"output", "events"}
  /\ follower \in {"absent", "read", "ask", "measure", "done", "failed"}
  /\ position \in Nat /\ atDeath \in Nat

(* A follower prints nothing twice, and ends only after the death of the   *)
(* session, having printed at least everything the file held when the      *)
(* session died, whatever was appended between its reading, its question   *)
(* and its measuring.                                                      *)
DrainedAtDeath ==
  /\ position <= FileLen
  /\ follower = "done" => IsDead /\ position >= atDeath

(* Once the session is dead and its file exists, the follower ends.        *)
FollowEnds ==
  follower = "read" /\ IsDead /\ FileExists ~> follower \in {"done", "failed"}

-----------------------------------------------------------------------------
(* What the documentation says and the code does not do.                   *)

(* src/cli.rs: tail --follow streams until the session exits and the log   *)
(* is drained, events --follow until it exits and events are drained.      *)
FollowedIsDrained == follower = "done" /\ outcome = "ok" => position = FileLen

(* docs/rpc-v1.md: a subscription finishes with done, if nothing fails.    *)
FollowAlwaysEnds == IsDead ~> follower \in {"done", "failed"}
=============================================================================
