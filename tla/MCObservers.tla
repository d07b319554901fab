---------------------------- MODULE MCObservers -----------------------------
(***************************************************************************)
(* A service and one process that observes it: the one that has created    *)
(* the session and waits for it to be ready, or one that follows it.       *)
(* Neither changes anything of the service, so that one observer sees what *)
(* any number of them would.                                               *)
(***************************************************************************)
EXTENDS Startup, Follow

followerVars == <<followed, follower, position, atDeath>>

mcVars == <<vars, creatorVars, followerVars>>

MCInit ==
  /\ Init
  /\ late = FALSE /\ misread = FALSE /\ verdict = "none"
  /\ position = 0 /\ atDeath = 0
  /\ \/ creator = "look" /\ followed = "output" /\ follower = "absent"
     \/ creator = "absent" /\ followed \in {"output", "events"} /\ follower = "read"

Service(Step) == ServiceStep(Step) /\ UNCHANGED creatorVars

Polls ==
  \/ CreatorStep /\ UNCHANGED followerVars
  \/ FollowerStep /\ UNCHANGED creatorVars

Clock == creator # "absent" /\ TimePasses /\ UNCHANGED followerVars

MCNext ==
  \/ Service(Next) \/ Polls \/ Clock
  \/ CreatorFails /\ UNCHANGED followerVars
  \/ FollowerFails /\ UNCHANGED creatorVars

(* The observer polls and time passes; the threads of the service go on as *)
(* in FairSpec.  The steps of the reader, the waiter and the clock are     *)
(* bounded in number: one condition says as much as three.                 *)
MCSpec ==
  /\ MCInit /\ [][MCNext]_mcVars
  /\ WF_mcVars(Polls)
  /\ WF_mcVars(Service(Main)) /\ WF_mcVars(Service(Reader \/ Waiter) \/ Clock)

=============================================================================
