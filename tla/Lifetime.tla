------------------------------ MODULE Lifetime ------------------------------
(***************************************************************************)
(* What the service of a session promises those who connect to it: when it *)
(* can be found and reached, when it accepts, what becomes of its status   *)
(* and its terminal, and that it ends.  Module Service implements it       *)
(* (Service!ImplementsLifetime); module Input is built on it.              *)
(***************************************************************************)

VARIABLES
  stage,    \* starting, serving (it accepts), stopping, gone
  status,   \* the status of the session in state.json
  socket,   \* whether the session's socket exists in live/
  child,    \* none, running, exited
  tty       \* whether anybody has the terminal open

lifetime == <<stage, status, socket, child, tty>>

LifetimeInit ==
  /\ stage = "starting" /\ status = "Starting" /\ socket = FALSE
  /\ child = "none" /\ tty = FALSE

(* The command is started on a terminal of its own, before the socket is   *)
(* bound; the session is live only then.                                   *)
StartChild ==
  /\ stage = "starting" /\ child = "none"
  /\ child' = "running" /\ tty' = TRUE
  /\ UNCHANGED <<stage, status, socket>>

Bind ==
  /\ stage = "starting" /\ child # "none" /\ status = "Starting"
  /\ socket' = TRUE
  /\ UNCHANGED <<stage, status, child, tty>>

BecomeLive ==
  /\ stage = "starting" /\ socket /\ status = "Starting"
  /\ status' = "Live"
  /\ UNCHANGED <<stage, socket, child, tty>>

StartServing ==
  /\ stage = "starting" /\ status = "Live"
  /\ stage' = "serving"
  /\ UNCHANGED <<status, socket, child, tty>>

(* The terminal is closed once, and the child may leave it open.           *)
ChildExits ==
  /\ child = "running"
  /\ child' = "exited"
  /\ tty' \in {tty, FALSE}
  /\ UNCHANGED <<stage, status, socket>>

CloseTty ==
  /\ tty /\ tty' = FALSE
  /\ UNCHANGED <<stage, status, socket, child>>

(* The loop ends when the terminal is closed or the child has exited, or   *)
(* when something fails; a service that fails to start serves nobody.      *)
StopServing ==
  /\ stage \in {"starting", "serving"}
  /\ stage' = "stopping"
  /\ UNCHANGED <<status, socket, child, tty>>

(* A session that has been served dies once, with its child or with the    *)
(* service, and a session reported Failed was being stopped.               *)
BecomeExited ==
  /\ stage \in {"serving", "stopping"} /\ child = "exited"
  /\ status' = "Exited"
  /\ UNCHANGED <<stage, socket, child, tty>>

BecomeFailed ==
  /\ stage = "stopping"
  /\ status' = "Failed"
  /\ UNCHANGED <<stage, socket, child, tty>>

(* The socket is removed from a session that is dead.                      *)
RemoveSocket ==
  /\ status \in {"Exited", "Failed"}
  /\ socket' = FALSE
  /\ UNCHANGED <<stage, status, child, tty>>

(* The process returns, or is killed.                                      *)
End ==
  /\ stage # "gone"
  /\ stage' = "gone"
  /\ UNCHANGED <<status, socket, child, tty>>

LifetimeNext ==
  \/ StartChild \/ Bind \/ BecomeLive \/ StartServing \/ ChildExits \/ CloseTty
  \/ StopServing \/ BecomeExited \/ BecomeFailed \/ RemoveSocket \/ End

LifetimeSpec == LifetimeInit /\ [][LifetimeNext]_lifetime

-----------------------------------------------------------------------------
Over == child = "exited" /\ ~ tty

(* A session that can be reached is served or given up; the service stops  *)
(* accepting when its terminal is closed or its child has exited, and ends *)
(* when both are so.                                                       *)
LeavesItsStages ==
  /\ socket ~> stage # "starting"
  /\ child # "none" /\ (child = "exited" \/ ~ tty) ~> stage \in {"stopping", "gone"}
  /\ Over ~> stage = "gone"
=============================================================================
