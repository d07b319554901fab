------------------------------ MODULE Service -------------------------------
(***************************************************************************)
(* The service process of one session (src/runtime/server.rs, run_server)  *)
(* and what it runs: the child on a pseudo-terminal, the thread that reads *)
(* the terminal (reader), the thread that waits for the child (waiter),    *)
(* and the main thread, which accepts clients until it is told to stop.    *)
(*                                                                         *)
(* The calls to the store are atomic here: module Store shows that they    *)
(* are, seen through state.json.  The event that follows a status change   *)
(* is a step of its own.  Output is counted in chunks.                     *)
(***************************************************************************)
EXTENDS Naturals, Sequences

CONSTANTS
  MaxOutput,   \* bound: how many chunks of output the session produces
  MaxFaults    \* bound: how many system calls fail

VARIABLES
  status,     \* the status of the session in state.json
  history,    \* the kinds of the events in events.jsonl
  socket,     \* whether the session's socket exists in live/
  logFile,    \* whether pty.log exists
  logged,     \* the number of chunks in pty.log
  produced,   \* the number of chunks written to the terminal so far
  pty,        \* the number of them the reader has not read
  holders,    \* who has the terminal open: the child, a process it left
  child,      \* none, running, exited
  main, reader, waiter,   \* where the threads are
  batch,      \* the number of chunks the reader holds in its buffer
  running,    \* the flag that keeps the main loop going
  fatal,      \* a fatal error: none, sent to the main thread, received
  outcome,    \* how the process ended: none yet, ok, failed, killed
  faults      \* how many system calls have failed

log == <<logFile, logged>>

terminal == <<produced, pty, holders, child>>

flags == <<running, fatal>>

process == <<main, reader, waiter, batch, flags, outcome, faults>>

vars == <<status, history, socket, log, terminal, process>>

IsDead == status \in {"Exited", "Failed"}

(* spawn_daemon has started the process of a session just created.         *)
Init ==
  /\ status = "Starting" /\ history = <<"created">>
  /\ socket = FALSE /\ logFile = FALSE /\ logged = 0
  /\ produced = 0 /\ pty = 0 /\ holders = {} /\ child = "none"
  /\ main = "prepare" /\ reader = "off" /\ waiter = "off"
  /\ batch = 0 /\ running = TRUE /\ fatal = "none"
  /\ outcome = "none" /\ faults = 0

Fault == faults < MaxFaults /\ faults' = faults + 1

(* A call of a process that watches the service fails.                     *)
FaultElsewhere ==
  /\ Fault
  /\ UNCHANGED <<status, history, socket, log, terminal, main, reader, waiter,
                 batch, flags, outcome>>

-----------------------------------------------------------------------------
(* The terminal and the processes on it.                                   *)

Produce ==
  /\ holders # {}
  /\ produced < MaxOutput
  /\ produced' = produced + 1
  /\ pty' = pty + 1
  /\ UNCHANGED <<status, history, socket, log, holders, child, process>>

(* The child leaves a process behind that keeps the terminal open.         *)
LeaveBackgroundProcess ==
  /\ "child" \in holders
  /\ holders' = holders \cup {"background"}
  /\ UNCHANGED <<status, history, socket, log, produced, pty, child, process>>

(* Somebody closes the terminal; the child may do so before it exits.      *)
CloseTerminal ==
  /\ \E who \in holders : holders' = holders \ {who}
  /\ UNCHANGED <<status, history, socket, log, produced, pty, child, process>>

ChildExit ==
  /\ child = "running"
  /\ child' = "exited"
  /\ holders' = holders \ {"child"}
  /\ UNCHANGED <<status, history, socket, log, produced, pty, process>>

-----------------------------------------------------------------------------
(* The main thread.                                                        *)

MainStep(from, to) ==
  /\ main = from /\ main' = to
  /\ UNCHANGED <<log, reader, waiter, batch, faults>>

(* The stale socket is removed, the sandbox checked, the terminal opened.  *)
Prepare ==
  /\ MainStep("prepare", "spawn")
  /\ socket' = FALSE
  /\ UNCHANGED <<status, history, terminal, flags, outcome>>

SpawnChild ==
  /\ MainStep("spawn", "bind")
  /\ child' = "running" /\ holders' = {"child"}
  /\ UNCHANGED <<status, history, socket, produced, pty, flags, outcome>>

BindSocket ==
  /\ MainStep("bind", "mark")
  /\ socket' = TRUE
  /\ UNCHANGED <<status, history, terminal, flags, outcome>>

MarkLive ==
  /\ MainStep("mark", "live_event")
  /\ status' = "Live"
  /\ UNCHANGED <<history, socket, terminal, flags, outcome>>

LiveEvent ==
  /\ MainStep("live_event", "start")
  /\ history' = Append(history, "live")
  /\ UNCHANGED <<status, socket, terminal, flags, outcome>>

StartThreads ==
  /\ main = "start" /\ main' = "loop"
  /\ reader' = "open" /\ waiter' = "wait"
  /\ UNCHANGED <<status, history, socket, log, terminal, batch, flags,
                 outcome, faults>>

(* Mutant of CheckRunning: the flag is not looked at.                      *)
CheckNothing ==
  /\ MainStep("loop", "receive")
  /\ UNCHANGED <<status, history, socket, terminal, flags, outcome>>

(* The loop: still running? a fatal error? a client?  The flag and the     *)
(* channel are read one after the other.                                   *)
CheckRunning ==
  /\ MainStep("loop", IF running THEN "receive" ELSE "join_reader")
  /\ UNCHANGED <<status, history, socket, terminal, flags, outcome>>

Accept ==
  /\ fatal = "none"
  /\ MainStep("receive", "loop")
  /\ UNCHANGED <<status, history, socket, terminal, flags, outcome>>

(* SIGTERM is sent to the child's group, which may ignore it.              *)
ReceiveFatal ==
  /\ fatal = "sent"
  /\ MainStep("receive", "join_reader")
  /\ fatal' = "received" /\ running' = FALSE
  /\ UNCHANGED <<status, history, socket, terminal, outcome>>

(* Mutant of JoinReader: the main thread does not wait for the reader.     *)
DetachReader ==
  /\ MainStep("join_reader", "join_waiter")
  /\ UNCHANGED <<status, history, socket, terminal, flags, outcome>>

(* Joining a thread that ended in an error returns that error at once.     *)
JoinReader ==
  /\ reader \in {"done", "error"}
  /\ MainStep("join_reader",
              IF reader = "done" THEN "join_waiter" ELSE "mark_failed")
  /\ UNCHANGED <<status, history, socket, terminal, flags, outcome>>

JoinWaiter ==
  /\ waiter \in {"done", "error"}
  /\ MainStep("join_waiter",
              IF waiter = "done" THEN "unlink" ELSE "mark_failed")
  /\ UNCHANGED <<status, history, socket, terminal, flags, outcome>>

(* Mutant of Unlink: the waiter has removed the socket already, and the    *)
(* error is not ignored.                                                   *)
UnlinkOrFail ==
  /\ MainStep("unlink", IF socket THEN "return" ELSE "mark_failed")
  /\ socket' = FALSE
  /\ UNCHANGED <<status, history, terminal, flags, outcome>>

Unlink ==
  /\ MainStep("unlink", IF fatal = "received" THEN "mark_failed" ELSE "return")
  /\ socket' = FALSE
  /\ UNCHANGED <<status, history, terminal, flags, outcome>>

(* run_server has returned an error: serve records it.                     *)
MarkFailed ==
  /\ MainStep("mark_failed", "failed_event")
  /\ status' = "Failed"
  /\ UNCHANGED <<history, socket, terminal, flags, outcome>>

FailedEvent ==
  /\ MainStep("failed_event", "return_error")
  /\ history' = Append(history, "failed")
  /\ UNCHANGED <<status, socket, terminal, flags, outcome>>

(* The process ends, and its threads wherever they are.                    *)
EndProcess(how) ==
  /\ main' = "gone" /\ reader' = "off" /\ waiter' = "off"
  /\ outcome' = how
  /\ UNCHANGED <<status, history, socket, log, terminal, batch, flags>>

Return ==
  \/ main = "return" /\ EndProcess("ok") /\ UNCHANGED faults
  \/ main = "return_error" /\ EndProcess("failed") /\ UNCHANGED faults

(* Mutant of MainFails: an error of run_server is not recorded.            *)
MainGivesUp ==
  /\ main \in {"prepare", "spawn", "bind", "mark", "live_event", "start", "receive"}
  /\ Fault
  /\ main' = "return_error"
  /\ UNCHANGED <<status, history, socket, log, terminal, reader, waiter,
                 batch, flags, outcome>>

(* A step of run_server fails (the sandbox, the terminal, the command, the *)
(* socket, the store, accept), or mark_failed does, whose error is         *)
(* dropped.                                                                *)
MainFails ==
  /\ Fault
  /\ \/ /\ main \in {"prepare", "spawn", "bind", "mark", "live_event",
                     "start", "receive"}
        /\ main' = "mark_failed"
     \/ /\ main \in {"mark_failed", "failed_event"}
        /\ main' = "return_error"
  /\ UNCHANGED <<status, history, socket, log, terminal, reader, waiter,
                 batch, flags, outcome>>

(* The process is killed.                                                  *)
Killed == main # "gone" /\ Fault /\ EndProcess("killed")

-----------------------------------------------------------------------------
(* The reader.                                                             *)

ReaderStep(from, to) ==
  /\ reader = from /\ reader' = to
  /\ UNCHANGED <<status, history, socket, main, waiter, outcome>>

OpenLog ==
  /\ ReaderStep("open", "read")
  /\ logFile' = TRUE
  /\ UNCHANGED <<logged, terminal, batch, flags, faults>>

Read ==
  /\ ReaderStep("read", "write")
  /\ \E n \in 1 .. pty : batch' = n /\ pty' = pty - n
  /\ UNCHANGED <<log, produced, holders, child, flags, faults>>

(* Mutant of WriteLog: one chunk of the buffer is written.                 *)
WriteOneChunk ==
  /\ ReaderStep("write", "read")
  /\ logged' = logged + 1 /\ batch' = 0
  /\ UNCHANGED <<logFile, terminal, flags, faults>>

WriteLog ==
  /\ ReaderStep("write", "read")
  /\ logged' = logged + batch /\ batch' = 0
  /\ UNCHANGED <<logFile, terminal, flags, faults>>

(* Nobody has the terminal open and all of its output has been read.       *)
EndOfOutput ==
  /\ ReaderStep("read", "stop")
  /\ holders = {} /\ pty = 0
  /\ UNCHANGED <<log, terminal, batch, flags, faults>>

ReaderStops ==
  /\ ReaderStep("stop", "done")
  /\ running' = FALSE
  /\ UNCHANGED <<log, terminal, batch, fatal, faults>>

(* The reader clears the flag before it reports its error.                 *)
ReaderFails ==
  /\ \E at \in {"open", "read", "write"} : ReaderStep(at, "report")
  /\ Fault
  /\ running' = FALSE
  /\ UNCHANGED <<log, terminal, batch, fatal>>

ReaderReports ==
  /\ ReaderStep("report", "error")
  /\ fatal' = IF fatal = "none" THEN "sent" ELSE fatal
  /\ UNCHANGED <<log, terminal, batch, running, faults>>

-----------------------------------------------------------------------------
(* The waiter.                                                             *)

WaiterStep(from, to) ==
  /\ waiter = from /\ waiter' = to
  /\ UNCHANGED <<log, terminal, main, reader, batch, outcome>>

(* Mutant of ChildWait: the socket is removed before the status changes.   *)
ChildWaitUnlinks ==
  /\ WaiterStep("wait", "mark")
  /\ child = "exited"
  /\ socket' = FALSE
  /\ UNCHANGED <<status, history, flags, faults>>

ChildWait ==
  /\ WaiterStep("wait", "mark")
  /\ child = "exited"
  /\ UNCHANGED <<status, history, socket, flags, faults>>

MarkExited ==
  /\ WaiterStep("mark", "event")
  /\ status' = "Exited"
  /\ UNCHANGED <<history, socket, flags, faults>>

ExitedEvent ==
  /\ WaiterStep("event", "unlink")
  /\ history' = Append(history, "exited")
  /\ UNCHANGED <<status, socket, flags, faults>>

WaiterUnlink ==
  /\ WaiterStep("unlink", "stop")
  /\ socket' = FALSE
  /\ UNCHANGED <<status, history, flags, faults>>

WaiterStops ==
  /\ WaiterStep("stop", "done")
  /\ running' = FALSE
  /\ UNCHANGED <<status, history, socket, fatal, faults>>

WaiterFails ==
  /\ \E at \in {"wait", "mark", "event"} : WaiterStep(at, "report")
  /\ Fault
  /\ running' = FALSE
  /\ UNCHANGED <<status, history, socket, fatal>>

WaiterReports ==
  /\ WaiterStep("report", "error")
  /\ fatal' = IF fatal = "none" THEN "sent" ELSE fatal
  /\ UNCHANGED <<status, history, socket, running, faults>>

-----------------------------------------------------------------------------
Outside == Produce \/ LeaveBackgroundProcess \/ CloseTerminal \/ ChildExit

Main ==
  \/ Prepare \/ SpawnChild \/ BindSocket \/ MarkLive \/ LiveEvent
  \/ StartThreads \/ CheckRunning \/ Accept \/ ReceiveFatal
  \/ JoinReader \/ JoinWaiter \/ Unlink
  \/ MarkFailed \/ FailedEvent \/ Return

Reader == OpenLog \/ Read \/ WriteLog \/ EndOfOutput \/ ReaderStops \/ ReaderReports

Waiter ==
  \/ ChildWait \/ MarkExited \/ ExitedEvent \/ WaiterUnlink
  \/ WaiterStops \/ WaiterReports

Failure == MainFails \/ ReaderFails \/ WaiterFails \/ Killed

Next == Outside \/ Main \/ Reader \/ Waiter \/ Failure

Spec == Init /\ [][Next]_vars

(* Each thread goes on when it can.  Nothing is assumed of the child.      *)
FairSpec == Spec /\ WF_vars(Main) /\ WF_vars(Reader) /\ WF_vars(Waiter)

-----------------------------------------------------------------------------
TypeOK ==
  /\ status \in {"Starting", "Live", "Exited", "Failed"}
  /\ history \in Seq({"created", "live", "exited", "failed"})
  /\ socket \in BOOLEAN /\ logFile \in BOOLEAN /\ running \in BOOLEAN
  /\ logged \in Nat /\ produced \in Nat /\ pty \in Nat /\ batch \in Nat
  /\ faults \in Nat
  /\ logged + batch + pty = produced
  /\ holders \subseteq {"child", "background"}
  /\ child \in {"none", "running", "exited"}
  /\ main \in {"prepare", "spawn", "bind", "mark", "live_event", "start",
               "loop", "receive", "join_reader", "join_waiter", "unlink",
               "return", "mark_failed", "failed_event", "return_error", "gone"}
  /\ reader \in {"off", "open", "read", "write", "stop", "report", "done", "error"}
  /\ waiter \in {"off", "wait", "mark", "event", "unlink", "stop", "report",
                 "done", "error"}
  /\ fatal \in {"none", "sent", "received"}
  /\ outcome \in {"none", "ok", "failed", "killed"}

(* run_server returns Ok only for a session that is completely over: the   *)
(* child has exited and is recorded so, every chunk anybody wrote to the   *)
(* terminal is in the log, the history is complete and the socket gone.    *)
OkIsComplete ==
  outcome = "ok" =>
    /\ child = "exited" /\ holders = {}
    /\ status = "Exited"
    /\ history = <<"created", "live", "exited">>
    /\ logged = produced
    /\ ~ socket

(* One failure, of any step of any thread, does not leave the session      *)
(* listed as live: when the process is gone its status and the end of its  *)
(* history say so.  (A second failure, of mark_failed, may, and a kill.)   *)
OneFailureIsRecorded ==
  main = "gone" /\ outcome # "killed" /\ faults <= 1 =>
    IsDead /\ history[Len(history)] \in {"exited", "failed"}

(* A session of which no system call failed is never reported Failed.      *)
NoFalseFailure == status = "Failed" => faults > 0

(* A live session has its socket, from mark_live until its end: a client   *)
(* that resolves it as live finds the file to connect to.                  *)
LiveHasSocket == status = "Live" => socket

(* How the service appears to those who connect to it.                     *)
Stage ==
  CASE main = "gone" -> "gone"
    [] main \in {"prepare", "spawn", "bind", "mark", "live_event", "start"} -> "starting"
    [] main \in {"loop", "receive"} -> "serving"
    [] OTHER -> "stopping"

Abstract == INSTANCE Lifetime WITH stage <- Stage, tty <- holders # {}

(* The service, with all its threads and failures, keeps the promises of   *)
(* module Lifetime.                                                        *)
ImplementsLifetime == Abstract!LifetimeSpec

(* Once live it is served, it stops accepting when its terminal is closed  *)
(* or its child has exited, and ends when both are so or the reader has    *)
(* failed, whatever failed on the way.                                     *)
ServiceEnds ==
  /\ Abstract!LeavesItsStages
  /\ reader = "error" ~> main = "gone"
=============================================================================
