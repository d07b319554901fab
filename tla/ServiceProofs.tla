---------------------------- MODULE ServiceProofs ---------------------------
(***************************************************************************)
(* What is true of the service of a session for any amount of output and   *)
(* any number of failing system calls.                                     *)
(*                                                                         *)
(* The invariants rest on each other: where the three threads are in       *)
(* relation to each other; the terminal and what the reader holds, from    *)
(* which the count of chunks follows; what each place of a thread says of  *)
(* the status, the history and the socket; how failures are accounted for. *)
(***************************************************************************)
EXTENDS Service, SequenceTheorems, TLAPS

Starting == {"prepare", "spawn", "bind", "mark", "live_event", "start"}

Serving == {"loop", "receive", "join_reader", "join_waiter", "unlink", "return"}

Failing == {"mark_failed", "failed_event", "return_error"}

(* The threads run from start on, until the process ends; main has joined  *)
(* them where it says so.                                                  *)
ThreadsInv ==
  /\ main \in Starting \cup {"gone"} => reader = "off" /\ waiter = "off"
  /\ main \in Serving => reader # "off" /\ waiter # "off"
  /\ main \in {"join_waiter", "unlink", "return"} => reader = "done"
  /\ main \in {"unlink", "return"} => waiter = "done"
  /\ outcome = "none" <=> main # "gone"

(* The child and its terminal, and what the reader holds.                  *)
TerminalInv ==
  /\ main \in {"prepare", "spawn"} => child = "none" /\ holders = {}
  /\ main \in Starting \ {"prepare", "spawn"} => child # "none"
  /\ main \in Starting => batch = 0
  /\ waiter \in {"mark", "event", "unlink", "stop", "done"} => child = "exited"
  /\ reader \in {"open", "read", "stop", "done"} => batch = 0
  /\ reader \in {"stop", "done"} => holders = {} /\ pty = 0

(* The status, the history and the socket.                                 *)
SessionInv ==
  /\ main \in {"prepare", "spawn", "bind", "mark"} =>
       status = "Starting" /\ history = <<"created">>
  /\ main \in {"prepare", "spawn"} => ~ socket
  /\ main = "mark" => socket
  /\ main = "live_event" => status = "Live" /\ history = <<"created">>
  /\ main = "start" => status = "Live" /\ history = <<"created", "live">>
  /\ main \in Serving /\ waiter \in {"wait", "mark"} =>
       status = "Live" /\ history = <<"created", "live">>
  /\ main \in Serving /\ waiter = "event" =>
       status = "Exited" /\ history = <<"created", "live">>
  /\ main \in Serving /\ waiter \in {"unlink", "stop", "done"} =>
       status = "Exited" /\ history = <<"created", "live", "exited">>
  /\ waiter \in {"event", "unlink", "stop", "done"} => IsDead
  /\ main = "return" => ~ socket
  /\ LiveHasSocket

Recorded == IsDead /\ history[Len(history)] \in {"exited", "failed"}

(* Whoever reports, records or returns an error has met one; an error that *)
(* is returned without being recorded has met a second.                    *)
FaultInv ==
  /\ reader \in {"report", "error"} => faults > 0
  /\ waiter \in {"report", "error"} => faults > 0
  /\ fatal # "none" => faults > 0
  /\ main \in Failing => faults > 0
  /\ status = "Failed" => faults > 0
  /\ main = "failed_event" => IsDead
  /\ main = "return_error" => faults > 1 \/ Recorded
  /\ main = "gone" /\ outcome # "killed" => faults > 1 \/ Recorded

-----------------------------------------------------------------------------
(* TypeOK in three parts: each is proved by another kind of reasoning.     *)
FlagsOK == socket \in BOOLEAN /\ logFile \in BOOLEAN /\ running \in BOOLEAN

CountsOK ==
  /\ logged \in Nat /\ produced \in Nat /\ pty \in Nat /\ batch \in Nat
  /\ faults \in Nat
  /\ logged + batch + pty = produced

PlacesOK ==
  /\ status \in {"Starting", "Live", "Exited", "Failed"}
  /\ history \in Seq({"created", "live", "exited", "failed"})
  /\ holders \subseteq {"child", "background"}
  /\ child \in {"none", "running", "exited"}
  /\ main \in Starting \cup Serving \cup Failing \cup {"gone"}
  /\ reader \in {"off", "open", "read", "write", "stop", "report", "done", "error"}
  /\ waiter \in {"off", "wait", "mark", "event", "unlink", "stop", "report",
                 "done", "error"}
  /\ fatal \in {"none", "sent", "received"}
  /\ outcome \in {"none", "ok", "failed", "killed"}

LEMMA TypeParts == TypeOK <=> FlagsOK /\ CountsOK /\ PlacesOK
<1>1. main \in Starting \cup Serving \cup Failing \cup {"gone"} <=>
        main \in {"prepare", "spawn", "bind", "mark", "live_event", "start",
                  "loop", "receive", "join_reader", "join_waiter", "unlink",
                  "return", "mark_failed", "failed_event", "return_error", "gone"}
  BY DEF Starting, Serving, Failing
<1> QED BY <1>1, Zenon DEF TypeOK, FlagsOK, CountsOK, PlacesOK

LEMMA TypeInit == Init => TypeOK
<1> SUFFICES ASSUME Init PROVE FlagsOK /\ CountsOK /\ PlacesOK
  BY TypeParts
<1>1. FlagsOK
  BY Zenon DEF Init, FlagsOK
<1>2. CountsOK
  BY DEF Init, CountsOK
<1>3. PlacesOK
  BY DEF Init, PlacesOK, Starting
<1> QED BY <1>1, <1>2, <1>3

LEMMA FlagsStep == FlagsOK /\ [Next]_vars => FlagsOK'
<1> SUFFICES ASSUME FlagsOK, [Next]_vars PROVE FlagsOK'
  OBVIOUS
<1> USE DEF FlagsOK, log, terminal, flags, process, vars
<1>1. CASE Outside
  BY <1>1, Zenon DEF Outside, Produce, LeaveBackgroundProcess, CloseTerminal, ChildExit
<1>2. CASE Main
  <2>1. CASE Prepare \/ SpawnChild \/ BindSocket \/ MarkLive \/ LiveEvent \/ StartThreads
    BY <2>1, Zenon DEF Prepare, SpawnChild, BindSocket, MarkLive, LiveEvent, StartThreads,
       MainStep
  <2>2. CASE CheckRunning \/ Accept \/ ReceiveFatal \/ JoinReader
    BY <2>2, Zenon DEF CheckRunning, Accept, ReceiveFatal, JoinReader, MainStep
  <2>3. CASE JoinWaiter \/ Unlink \/ MarkFailed \/ FailedEvent
    BY <2>3, Zenon DEF JoinWaiter, Unlink, MarkFailed, FailedEvent, MainStep
  <2>4. CASE Return
    BY <2>4, Zenon DEF Return, EndProcess
  <2> QED BY <1>2, <2>1, <2>2, <2>3, <2>4 DEF Main
<1>3. CASE Reader
  BY <1>3, Zenon DEF Reader, OpenLog, Read, WriteLog, EndOfOutput, ReaderStops,
     ReaderReports, ReaderStep
<1>4. CASE Waiter
  BY <1>4, Zenon DEF Waiter, ChildWait, MarkExited, ExitedEvent, WaiterUnlink,
     WaiterStops, WaiterReports, WaiterStep
<1>5. CASE Failure
  BY <1>5, Zenon DEF Failure, MainFails, ReaderFails, WaiterFails, Killed, ReaderStep,
     WaiterStep, EndProcess
<1>6. CASE UNCHANGED vars
  BY <1>6, Zenon
<1> QED BY <1>1, <1>2, <1>3, <1>4, <1>5, <1>6 DEF Next

LEMMA PlacesStep == PlacesOK /\ [Next]_vars => PlacesOK'
<1> SUFFICES ASSUME PlacesOK, [Next]_vars PROVE PlacesOK'
  OBVIOUS
<1> USE DEF PlacesOK, Starting, Serving, Failing, log, terminal, flags, process, vars
<1>1. CASE Outside
  <2>1. child' \in {"none", "running", "exited"}
        /\ UNCHANGED <<status, history, main, reader, waiter, fatal, outcome>>
    BY <1>1 DEF Outside, Produce, LeaveBackgroundProcess, CloseTerminal, ChildExit
  <2>2. holders' \subseteq {"child", "background"}
    BY <1>1 DEF Outside, Produce, LeaveBackgroundProcess, CloseTerminal, ChildExit
  <2> QED BY <2>1, <2>2
<1>2. CASE Main
  <2>1. CASE Prepare \/ SpawnChild \/ BindSocket \/ MarkLive \/ StartThreads
    BY <2>1 DEF Prepare, SpawnChild, BindSocket, MarkLive, StartThreads, MainStep
  <2>2. CASE LiveEvent \/ FailedEvent
    <3>1. history' \in Seq({"created", "live", "exited", "failed"})
      BY <2>2 DEF LiveEvent, FailedEvent
    <3> QED BY <2>2, <3>1 DEF LiveEvent, FailedEvent, MainStep
  <2>3. CASE CheckRunning \/ Accept \/ ReceiveFatal
    BY <2>3 DEF CheckRunning, Accept, ReceiveFatal, MainStep
  <2>4. CASE JoinReader \/ JoinWaiter
    <3>1. main' \in {"join_waiter", "unlink", "mark_failed"}
      BY <2>4 DEF JoinReader, JoinWaiter, MainStep
    <3>2. UNCHANGED <<status, history, terminal, reader, waiter, fatal, outcome>>
      BY <2>4 DEF JoinReader, JoinWaiter, MainStep
    <3> QED BY <3>1, <3>2
  <2>5. CASE Unlink \/ MarkFailed
    BY <2>5 DEF Unlink, MarkFailed, MainStep
  <2>6. CASE Return
    BY <2>6 DEF Return, EndProcess
  <2> QED BY <1>2, <2>1, <2>2, <2>3, <2>4, <2>5, <2>6 DEF Main
<1>3. CASE Reader
  BY <1>3 DEF Reader, OpenLog, Read, WriteLog, EndOfOutput, ReaderStops, ReaderReports,
     ReaderStep
<1>4. CASE Waiter
  <2>1. CASE ExitedEvent
    <3>1. history' \in Seq({"created", "live", "exited", "failed"})
      BY <2>1 DEF ExitedEvent
    <3> QED BY <2>1, <3>1 DEF ExitedEvent, WaiterStep
  <2>2. CASE ChildWait \/ MarkExited \/ WaiterUnlink \/ WaiterStops \/ WaiterReports
    BY <2>2 DEF ChildWait, MarkExited, WaiterUnlink, WaiterStops, WaiterReports, WaiterStep
  <2> QED BY <1>4, <2>1, <2>2 DEF Waiter
<1>5. CASE Failure
  <2>1. CASE MainFails
    BY <2>1 DEF MainFails
  <2>2. CASE ReaderFails \/ WaiterFails
    <3>1. \/ reader' = "report" /\ waiter' = waiter
          \/ reader' = reader /\ waiter' = "report"
      BY <2>2 DEF ReaderFails, WaiterFails, ReaderStep, WaiterStep
    <3>2. UNCHANGED <<status, history, terminal, main, fatal, outcome>>
      BY <2>2 DEF ReaderFails, WaiterFails, ReaderStep, WaiterStep
    <3> QED BY <3>1, <3>2
  <2>3. CASE Killed
    BY <2>3 DEF Killed, EndProcess
  <2> QED BY <1>5, <2>1, <2>2, <2>3 DEF Failure
<1>6. CASE UNCHANGED vars
  BY <1>6
<1> QED BY <1>1, <1>2, <1>3, <1>4, <1>5, <1>6 DEF Next

-----------------------------------------------------------------------------
LEMMA ThreadsStep == PlacesOK /\ ThreadsInv /\ [Next]_vars => ThreadsInv'
<1> SUFFICES ASSUME PlacesOK, ThreadsInv, [Next]_vars PROVE ThreadsInv'
  OBVIOUS
<1> USE DEF ThreadsInv, Starting, Serving, log, terminal, flags, process, vars
<1>1. CASE Outside
  BY <1>1 DEF Outside, Produce, LeaveBackgroundProcess, CloseTerminal, ChildExit
<1>2. CASE Main
  <2>1. CASE Prepare \/ SpawnChild \/ BindSocket \/ MarkLive \/ LiveEvent \/ StartThreads
    BY <2>1 DEF Prepare, SpawnChild, BindSocket, MarkLive, LiveEvent, StartThreads, MainStep
  <2>2. CASE CheckRunning \/ Accept \/ ReceiveFatal \/ JoinReader
    BY <2>2 DEF CheckRunning, Accept, ReceiveFatal, JoinReader, MainStep
  <2>3. CASE JoinWaiter \/ Unlink \/ MarkFailed \/ FailedEvent
    BY <2>3 DEF JoinWaiter, Unlink, MarkFailed, FailedEvent, MainStep
  <2>4. CASE Return
    BY <2>4 DEF Return, EndProcess
  <2> QED BY <1>2, <2>1, <2>2, <2>3, <2>4 DEF Main
<1>3. CASE Reader
  BY <1>3 DEF Reader, OpenLog, Read, WriteLog, EndOfOutput, ReaderStops,
     ReaderReports, ReaderStep
<1>4. CASE Waiter
  BY <1>4 DEF Waiter, ChildWait, MarkExited, ExitedEvent, WaiterUnlink, WaiterStops,
     WaiterReports, WaiterStep
<1>5. CASE Failure
  BY <1>5 DEF Failure, MainFails, ReaderFails, WaiterFails, Killed, ReaderStep,
     WaiterStep, EndProcess
<1>6. CASE UNCHANGED vars
  BY <1>6
<1> QED BY <1>1, <1>2, <1>3, <1>4, <1>5, <1>6 DEF Next

LEMMA TerminalStep ==
  PlacesOK /\ ThreadsInv /\ TerminalInv /\ [Next]_vars => TerminalInv'
<1> SUFFICES ASSUME PlacesOK, ThreadsInv, TerminalInv, [Next]_vars PROVE TerminalInv'
  OBVIOUS
<1> USE DEF TerminalInv, ThreadsInv, Starting, log, terminal, flags, process, vars
<1>1. CASE Outside
  BY <1>1 DEF Outside, Produce, LeaveBackgroundProcess, CloseTerminal, ChildExit
<1>2. CASE Main
  <2>1. CASE Prepare \/ SpawnChild \/ BindSocket \/ MarkLive \/ LiveEvent \/ StartThreads
    BY <2>1 DEF Prepare, SpawnChild, BindSocket, MarkLive, LiveEvent, StartThreads, MainStep
  <2>2. CASE CheckRunning \/ Accept \/ ReceiveFatal \/ JoinReader
    BY <2>2 DEF CheckRunning, Accept, ReceiveFatal, JoinReader, MainStep
  <2>3. CASE JoinWaiter \/ Unlink \/ MarkFailed \/ FailedEvent
    BY <2>3 DEF JoinWaiter, Unlink, MarkFailed, FailedEvent, MainStep
  <2>4. CASE Return
    BY <2>4 DEF Return, EndProcess
  <2> QED BY <1>2, <2>1, <2>2, <2>3, <2>4 DEF Main
<1>3. CASE Reader
  BY <1>3 DEF Reader, OpenLog, Read, WriteLog, EndOfOutput, ReaderStops,
     ReaderReports, ReaderStep
<1>4. CASE Waiter
  BY <1>4 DEF Waiter, ChildWait, MarkExited, ExitedEvent, WaiterUnlink, WaiterStops,
     WaiterReports, WaiterStep
<1>5. CASE Failure
  BY <1>5 DEF Failure, MainFails, ReaderFails, WaiterFails, Killed, ReaderStep,
     WaiterStep, EndProcess
<1>6. CASE UNCHANGED vars
  BY <1>6
<1> QED BY <1>1, <1>2, <1>3, <1>4, <1>5, <1>6 DEF Next

LEMMA CountsStep == CountsOK /\ TerminalInv /\ [Next]_vars => CountsOK'
<1> SUFFICES ASSUME CountsOK, TerminalInv, [Next]_vars PROVE CountsOK'
  OBVIOUS
<1>1. CASE UNCHANGED <<log, terminal, batch, faults>>
  BY <1>1 DEF CountsOK, log, terminal
<1>2. CASE Produce
  BY <1>2 DEF CountsOK, Produce, log, process
<1>3. CASE LeaveBackgroundProcess \/ CloseTerminal \/ ChildExit
  BY <1>3 DEF CountsOK, LeaveBackgroundProcess, CloseTerminal, ChildExit, log, process
<1>4. CASE SpawnChild
  BY <1>4 DEF CountsOK, SpawnChild, MainStep, log
<1>5. CASE OpenLog
  BY <1>5 DEF CountsOK, OpenLog, ReaderStep, terminal
<1>6. CASE Read
  <2>1. PICK n \in 1 .. pty : batch' = n /\ pty' = pty - n
    BY <1>6 DEF Read
  <2>2. batch = 0 /\ UNCHANGED <<logged, produced, faults>>
    BY <1>6 DEF Read, ReaderStep, log, TerminalInv
  <2> QED BY <2>1, <2>2 DEF CountsOK
<1>7. CASE WriteLog
  BY <1>7 DEF CountsOK, WriteLog, ReaderStep, terminal
<1>8. CASE Failure
  <2>1. faults' = faults + 1 /\ UNCHANGED <<log, terminal, batch>>
    BY <1>8 DEF Failure, MainFails, ReaderFails, WaiterFails, Killed, Fault, ReaderStep,
       WaiterStep, EndProcess
  <2> QED BY <2>1 DEF CountsOK, log, terminal
<1>9. CASE UNCHANGED vars
  BY <1>1, <1>9 DEF vars, process
<1>10. CASE Main /\ ~ SpawnChild
  BY <1>1, <1>10, Zenon DEF Main, Prepare, BindSocket, MarkLive, LiveEvent, StartThreads,
     CheckRunning, Accept, ReceiveFatal, JoinReader, JoinWaiter, Unlink, MarkFailed,
     FailedEvent, Return, EndProcess, MainStep
<1>11. CASE EndOfOutput \/ ReaderStops \/ ReaderReports \/ Waiter
  BY <1>1, <1>11, Zenon DEF EndOfOutput, ReaderStops, ReaderReports, Waiter, ChildWait,
     MarkExited, ExitedEvent, WaiterUnlink, WaiterStops, WaiterReports, WaiterStep,
     ReaderStep
<1> QED BY <1>2, <1>3, <1>4, <1>5, <1>6, <1>7, <1>8, <1>9, <1>10, <1>11
        DEF Next, Outside, Reader

EventKinds == {"created", "live", "exited", "failed"}

LEMMA AppendEvents ==
  /\ Append(<<"created">>, "live") = <<"created", "live">>
  /\ Append(<<"created", "live">>, "exited") = <<"created", "live", "exited">>
<1>1. /\ <<"created">> \in Seq(EventKinds) /\ <<"created", "live">> \in Seq(EventKinds)
      /\ <<"created", "live", "exited">> \in Seq(EventKinds)
  BY DEF EventKinds
<1> DEFINE one == Append(<<"created">>, "live")
           two == Append(<<"created", "live">>, "exited")
<1>2. /\ one \in Seq(EventKinds) /\ Len(one) = 2 /\ one[1] = "created" /\ one[2] = "live"
  BY <1>1 DEF EventKinds
<1>3. /\ two \in Seq(EventKinds) /\ Len(two) = 3
      /\ two[1] = "created" /\ two[2] = "live" /\ two[3] = "exited"
  BY <1>1 DEF EventKinds
<1> HIDE DEF one, two
<1>4. one = <<"created", "live">>
  BY <1>1, <1>2, SeqEqual
<1>5. two = <<"created", "live", "exited">>
  BY <1>1, <1>3, SeqEqual
<1> QED BY <1>4, <1>5 DEF one, two

LEMMA SessionStep ==
  PlacesOK /\ ThreadsInv /\ SessionInv /\ [Next]_vars => SessionInv'
<1> SUFFICES ASSUME PlacesOK, ThreadsInv, SessionInv, [Next]_vars PROVE SessionInv'
  OBVIOUS
<1> USE DEF SessionInv, ThreadsInv, LiveHasSocket, IsDead, Starting, Serving,
        log, terminal, flags, process, vars
<1>1. CASE Outside
  BY <1>1 DEF Outside, Produce, LeaveBackgroundProcess, CloseTerminal, ChildExit
<1>2. CASE Main
  <2>1. CASE Prepare \/ SpawnChild \/ BindSocket \/ MarkLive
    BY <2>1 DEF Prepare, SpawnChild, BindSocket, MarkLive, MainStep
  <2>2. CASE LiveEvent \/ StartThreads
    BY <2>2, AppendEvents DEF LiveEvent, StartThreads, MainStep
  <2>3. CASE CheckRunning \/ Accept \/ ReceiveFatal \/ JoinReader
    BY <2>3 DEF CheckRunning, Accept, ReceiveFatal, JoinReader, MainStep
  <2>4. CASE JoinWaiter \/ Unlink
    BY <2>4 DEF JoinWaiter, Unlink, MainStep
  <2>5. CASE MarkFailed \/ FailedEvent
    BY <2>5 DEF MarkFailed, FailedEvent, MainStep
  <2>6. CASE Return
    BY <2>6 DEF Return, EndProcess
  <2> QED BY <1>2, <2>1, <2>2, <2>3, <2>4, <2>5, <2>6 DEF Main
<1>3. CASE Reader
  BY <1>3 DEF Reader, OpenLog, Read, WriteLog, EndOfOutput, ReaderStops,
     ReaderReports, ReaderStep
<1>4. CASE Waiter
  <2>1. CASE ChildWait \/ MarkExited
    BY <2>1 DEF ChildWait, MarkExited, WaiterStep
  <2>2. CASE ExitedEvent
    BY <2>2, AppendEvents DEF ExitedEvent, WaiterStep
  <2>3. CASE WaiterUnlink \/ WaiterStops \/ WaiterReports
    BY <2>3 DEF WaiterUnlink, WaiterStops, WaiterReports, WaiterStep
  <2> QED BY <1>4, <2>1, <2>2, <2>3 DEF Waiter
<1>5. CASE Failure
  BY <1>5 DEF Failure, MainFails, ReaderFails, WaiterFails, Killed, ReaderStep,
     WaiterStep, EndProcess
<1>6. CASE UNCHANGED vars
  BY <1>6
<1> QED BY <1>1, <1>2, <1>3, <1>4, <1>5, <1>6 DEF Next

Inv == TypeOK /\ ThreadsInv /\ TerminalInv /\ SessionInv

LEMMA InvInit == Init => Inv
<1>1. Init => ThreadsInv /\ TerminalInv /\ SessionInv
  BY DEF Init, ThreadsInv, TerminalInv, SessionInv, Starting, Serving, LiveHasSocket,
     IsDead
<1> QED BY <1>1, TypeInit DEF Inv

LEMMA InvStep == Inv /\ [Next]_vars => Inv'
<1>1. Inv /\ [Next]_vars => FlagsOK' /\ CountsOK' /\ PlacesOK'
  BY TypeParts, FlagsStep, CountsStep, PlacesStep DEF Inv
<1>2. Inv /\ [Next]_vars => ThreadsInv' /\ TerminalInv' /\ SessionInv'
  BY TypeParts, ThreadsStep, TerminalStep, SessionStep DEF Inv
<1>3. TypeOK' <=> FlagsOK' /\ CountsOK' /\ PlacesOK'
  BY TypeParts, PTL
<1> QED BY <1>1, <1>2, <1>3 DEF Inv

LEMMA Invariance == Spec => []Inv
BY InvInit, InvStep, PTL DEF Spec

(* Every variable has its type, and every chunk produced is in the         *)
(* terminal, in the reader's buffer or in the log, for any bounds.         *)
THEOREM TypeCorrect == Spec => []TypeOK
BY Invariance, PTL DEF Inv

(* A session that is listed as live has its socket, whatever has failed.   *)
THEOREM SocketOfLive == Spec => []LiveHasSocket
<1>1. Inv => LiveHasSocket
  BY DEF Inv, SessionInv
<1> QED BY <1>1, Invariance, PTL

-----------------------------------------------------------------------------
LEMMA OkStep == Inv /\ OkIsComplete /\ [Next]_vars => OkIsComplete'
<1> SUFFICES ASSUME Inv, OkIsComplete, [Next]_vars, outcome' = "ok"
             PROVE  /\ child' = "exited" /\ holders' = {} /\ status' = "Exited"
                    /\ history' = <<"created", "live", "exited">>
                    /\ logged' = produced' /\ ~ socket'
  BY DEF OkIsComplete
<1> USE DEF log, terminal, flags, process, vars
<1>1. CASE outcome = "ok"
  <2>1. main = "gone" /\ reader = "off" /\ waiter = "off"
    BY <1>1 DEF Inv, ThreadsInv
  <2>2. holders = {} /\ child = "exited"
    BY <1>1 DEF OkIsComplete
  <2>3. UNCHANGED vars
    BY <2>1, <2>2 DEF Next, Outside, Produce, LeaveBackgroundProcess, CloseTerminal,
       ChildExit, Main, Prepare, SpawnChild, BindSocket, MarkLive, LiveEvent,
       StartThreads, CheckRunning, Accept, ReceiveFatal, JoinReader, JoinWaiter, Unlink,
       MarkFailed, FailedEvent, Return, MainStep, Reader, OpenLog, Read, WriteLog,
       EndOfOutput, ReaderStops, ReaderReports, ReaderStep, Waiter, ChildWait,
       MarkExited, ExitedEvent, WaiterUnlink, WaiterStops, WaiterReports, WaiterStep,
       Failure, MainFails, ReaderFails, WaiterFails, Killed
  <2> QED BY <1>1, <2>3 DEF OkIsComplete
<1>2. CASE outcome # "ok"
  <2>1. main = "return" /\ UNCHANGED <<status, history, socket, log, terminal>>
    BY <1>2 DEF Next, Outside, Produce, LeaveBackgroundProcess, CloseTerminal,
       ChildExit, Main, Prepare, SpawnChild, BindSocket, MarkLive, LiveEvent,
       StartThreads, CheckRunning, Accept, ReceiveFatal, JoinReader, JoinWaiter, Unlink,
       MarkFailed, FailedEvent, Return, EndProcess, MainStep, Reader, OpenLog, Read,
       WriteLog, EndOfOutput, ReaderStops, ReaderReports, ReaderStep, Waiter, ChildWait,
       MarkExited, ExitedEvent, WaiterUnlink, WaiterStops, WaiterReports, WaiterStep,
       Failure, MainFails, ReaderFails, WaiterFails, Killed
  <2>2. reader = "done" /\ waiter = "done"
    BY <2>1 DEF Inv, ThreadsInv
  <2>3. child = "exited" /\ holders = {} /\ pty = 0 /\ batch = 0
    BY <2>2 DEF Inv, TerminalInv
  <2>4. status = "Exited" /\ history = <<"created", "live", "exited">> /\ ~ socket
    BY <2>1, <2>2 DEF Inv, SessionInv, Serving
  <2>5. logged = produced
    BY <2>3 DEF Inv, TypeOK
  <2> QED BY <2>1, <2>3, <2>4, <2>5
<1> QED BY <1>1, <1>2

(* The process ends well only when the session is over in every respect.   *)
THEOREM Complete == Spec => []OkIsComplete
<1>1. Init => OkIsComplete
  BY DEF Init, OkIsComplete
<1> QED BY <1>1, Invariance, OkStep, PTL DEF Spec

-----------------------------------------------------------------------------
LEMMA LastOf ==
  ASSUME NEW s \in Seq({"created", "live", "exited", "failed"}), NEW e
  PROVE  Append(s, e)[Len(Append(s, e))] = e
OBVIOUS

LEMMA FaultStep == Inv /\ OkIsComplete' /\ FaultInv /\ [Next]_vars => FaultInv'
<1> SUFFICES ASSUME Inv, OkIsComplete', FaultInv, [Next]_vars PROVE FaultInv'
  OBVIOUS
<1> USE DEF FaultInv, Failing, IsDead, log, terminal, flags, process, vars
<1>0. TypeOK /\ ThreadsInv /\ faults \in Nat
      /\ history \in Seq({"created", "live", "exited", "failed"})
      /\ (main = "mark" => status = "Starting")
      /\ (waiter \in {"event", "unlink", "stop", "done"} => IsDead)
  BY DEF Inv, SessionInv, TypeOK
<1> USE DEF ThreadsInv, Starting, Serving
<1>1. CASE Outside
  BY <1>1 DEF Outside, Produce, LeaveBackgroundProcess, CloseTerminal, ChildExit, Recorded
<1>2. CASE Main
  <2>1. CASE Prepare \/ SpawnChild \/ BindSocket \/ MarkLive \/ LiveEvent \/ StartThreads
    BY <1>0, <2>1 DEF Prepare, SpawnChild, BindSocket, MarkLive, LiveEvent, StartThreads,
       MainStep
  <2>2. CASE CheckRunning \/ Accept \/ ReceiveFatal \/ JoinReader
    BY <1>0, <2>2 DEF CheckRunning, Accept, ReceiveFatal, JoinReader, MainStep
  <2>3. CASE JoinWaiter \/ Unlink \/ MarkFailed
    BY <1>0, <2>3 DEF JoinWaiter, Unlink, MarkFailed, MainStep
  <2>4. CASE FailedEvent
    <3>1. Recorded'
      BY <1>0, <2>4, LastOf DEF FailedEvent, MainStep, Recorded
    <3> QED BY <1>0, <2>4, <3>1 DEF FailedEvent, MainStep
  <2>5. CASE Return
    <3>1. outcome' = "ok" => Recorded'
      <4> DEFINE full == <<"created", "live", "exited">>
      <4>1. full[Len(full)] = "exited"
        OBVIOUS
      <4>2. outcome' = "ok" => status' = "Exited" /\ history' = full
        BY DEF OkIsComplete
      <4> QED BY <4>1, <4>2 DEF Recorded
    <3>2. outcome' = "failed" => faults > 1 \/ Recorded'
      BY <2>5 DEF Return, EndProcess, Recorded
    <3> QED BY <1>0, <2>5, <3>1, <3>2 DEF Return, EndProcess
  <2> QED BY <1>2, <2>1, <2>2, <2>3, <2>4, <2>5 DEF Main
<1>3. CASE Reader
  BY <1>0, <1>3 DEF Reader, OpenLog, Read, WriteLog, EndOfOutput, ReaderStops,
     ReaderReports, ReaderStep, Recorded
<1>4. CASE Waiter
  <2>1. CASE ExitedEvent
    <3>1. Recorded'
      BY <1>0, <2>1, LastOf DEF ExitedEvent, WaiterStep, Recorded
    <3> QED BY <1>0, <2>1, <3>1 DEF ExitedEvent, WaiterStep
  <2>2. CASE ChildWait \/ MarkExited \/ WaiterUnlink \/ WaiterStops \/ WaiterReports
    BY <1>0, <2>2 DEF ChildWait, MarkExited, WaiterUnlink, WaiterStops, WaiterReports,
       WaiterStep, Recorded
  <2> QED BY <1>4, <2>1, <2>2 DEF Waiter
<1>5. CASE Failure
  <2>1. faults' = faults + 1
    BY <1>5 DEF Failure, MainFails, ReaderFails, WaiterFails, Killed, Fault
  <2>2. CASE MainFails
    BY <1>0, <2>1, <2>2 DEF MainFails
  <2>3. CASE ReaderFails \/ WaiterFails
    BY <1>0, <2>1, <2>3 DEF ReaderFails, WaiterFails, ReaderStep, WaiterStep, Recorded
  <2>4. CASE Killed
    BY <1>0, <2>1, <2>4 DEF Killed, EndProcess
  <2> QED BY <1>5, <2>2, <2>3, <2>4 DEF Failure
<1>6. CASE UNCHANGED vars
  BY <1>6 DEF Recorded
<1> QED BY <1>1, <1>2, <1>3, <1>4, <1>5, <1>6 DEF Next

LEMMA FaultInvariance == Spec => [](FaultInv /\ Inv)
<1>1. Init => FaultInv
  BY DEF Init, FaultInv, Failing
<1> QED BY <1>1, Invariance, Complete, FaultStep, PTL DEF Spec

(* One failing call, whichever it is and however many threads it stops, is *)
(* in the status and at the end of the history when the process is gone.   *)
THEOREM Accounted == Spec => []OneFailureIsRecorded
<1>1. FaultInv /\ Inv => OneFailureIsRecorded
  <2> SUFFICES ASSUME FaultInv, Inv, main = "gone", outcome # "killed", faults <= 1
               PROVE  Recorded
    BY DEF OneFailureIsRecorded, Recorded
  <2>1. ~ (faults > 1)
    BY DEF Inv, TypeOK
  <2> QED BY <2>1 DEF FaultInv
<1> QED BY <1>1, FaultInvariance, PTL

(* Without a failing call no session is ever reported Failed.              *)
THEOREM Truthful == Spec => []NoFalseFailure
<1>1. FaultInv => NoFalseFailure
  BY DEF FaultInv, NoFalseFailure
<1> QED BY <1>1, FaultInvariance, PTL

-----------------------------------------------------------------------------
(* The service implements what Lifetime promises.                          *)

LEMMA StageOf ==
  TypeOK => /\ main = "gone" => Stage = "gone"
            /\ main \in Starting => Stage = "starting"
            /\ main \in {"loop", "receive"} => Stage = "serving"
            /\ main \notin Starting \cup {"loop", "receive", "gone"} => Stage = "stopping"
BY DEF Stage, Starting, TypeOK

LEMMA LifetimeStep ==
  Inv /\ Inv' /\ [Next]_vars => [Abstract!LifetimeNext]_(Abstract!lifetime)
<1> SUFFICES ASSUME Inv, Inv', [Next]_vars
             PROVE  [Abstract!LifetimeNext]_(Abstract!lifetime)
  OBVIOUS
<1> DEFINE tty == holders # {}
<1>1. TypeOK /\ ThreadsInv /\ TerminalInv /\ SessionInv
  BY DEF Inv
<1>2. /\ main = "gone" => Stage = "gone"
      /\ main \in Starting => Stage = "starting"
      /\ main \in {"loop", "receive"} => Stage = "serving"
      /\ main \notin Starting \cup {"loop", "receive", "gone"} => Stage = "stopping"
  BY <1>1, StageOf
<1>3. /\ main' = "gone" => Stage' = "gone"
      /\ main' \in Starting => Stage' = "starting"
      /\ main' \in {"loop", "receive"} => Stage' = "serving"
      /\ main' \notin Starting \cup {"loop", "receive", "gone"} => Stage' = "stopping"
  <2>1. main' \in Starting \cup Serving \cup Failing \cup {"gone"}
    BY DEF Inv, TypeOK, Starting, Serving, Failing
  <2> QED BY <2>1 DEF Stage, Starting, Serving, Failing
<1>4. main' = main => Stage' = Stage
  BY DEF Stage
<1> USE DEF Abstract!lifetime, Abstract!LifetimeNext, Starting, log, terminal, flags,
        process, vars
<1>5. CASE Outside
  <2>1. Stage' = Stage /\ UNCHANGED <<status, socket>>
    BY <1>4, <1>5 DEF Outside, Produce, LeaveBackgroundProcess, CloseTerminal, ChildExit
  <2>2. CASE Produce \/ LeaveBackgroundProcess
    <3>1. UNCHANGED child /\ tty' = tty
      BY <2>2 DEF Produce, LeaveBackgroundProcess
    <3> QED BY <2>1, <3>1
  <2>3. CASE CloseTerminal
    BY <2>1, <2>3 DEF CloseTerminal, Abstract!CloseTty
  <2>4. CASE ChildExit
    BY <2>1, <2>4 DEF ChildExit, Abstract!ChildExits
  <2> QED BY <1>5, <2>2, <2>3, <2>4 DEF Outside
<1>6. CASE Main
  <2>1. CASE Prepare \/ LiveEvent \/ Accept \/ JoinReader \/ JoinWaiter \/ FailedEvent
    BY <1>1, <1>2, <1>3, <2>1 DEF Prepare, LiveEvent, Accept, JoinReader, JoinWaiter,
       FailedEvent, MainStep, SessionInv, TypeOK
  <2>2. CASE SpawnChild
    BY <1>1, <1>2, <1>3, <2>2 DEF SpawnChild, MainStep, TerminalInv, Abstract!StartChild
  <2>3. CASE BindSocket
    BY <1>1, <1>2, <1>3, <2>3 DEF BindSocket, MainStep, TerminalInv, SessionInv,
       Abstract!Bind
  <2>4. CASE MarkLive
    BY <1>1, <1>2, <1>3, <2>4 DEF MarkLive, MainStep, SessionInv, Abstract!BecomeLive
  <2>5. CASE StartThreads
    BY <1>1, <1>2, <1>3, <2>5 DEF StartThreads, SessionInv, Abstract!StartServing
  <2>6. CASE CheckRunning \/ ReceiveFatal
    BY <1>2, <1>3, <2>6 DEF CheckRunning, ReceiveFatal, MainStep, Abstract!StopServing
  <2>7. CASE Unlink
    <3>1. status = "Exited"
      BY <1>1, <2>7 DEF Unlink, MainStep, ThreadsInv, SessionInv, Serving
    <3> QED BY <1>2, <1>3, <2>7, <3>1 DEF Unlink, MainStep, Abstract!RemoveSocket
  <2>8. CASE MarkFailed
    BY <1>2, <1>3, <2>8 DEF MarkFailed, MainStep, Abstract!BecomeFailed
  <2>9. CASE Return
    BY <1>2, <1>3, <2>9 DEF Return, EndProcess, Abstract!End
  <2> QED BY <1>6, <2>1, <2>2, <2>3, <2>4, <2>5, <2>6, <2>7, <2>8, <2>9 DEF Main
<1>7. CASE Reader \/ ReaderFails
  BY <1>4, <1>7 DEF Reader, OpenLog, Read, WriteLog, EndOfOutput, ReaderStops,
     ReaderReports, ReaderFails, ReaderStep
<1>8. CASE Waiter \/ WaiterFails
  <2>1. Stage' = Stage /\ UNCHANGED <<child, holders>>
    BY <1>4, <1>8 DEF Waiter, ChildWait, MarkExited, ExitedEvent, WaiterUnlink,
       WaiterStops, WaiterReports, WaiterFails, WaiterStep
  <2>2. CASE MarkExited
    <3>1. waiter = "mark" /\ child = "exited" /\ main \notin Starting \cup {"gone"}
      BY <1>1, <2>2 DEF MarkExited, WaiterStep, TerminalInv, ThreadsInv
    <3> QED BY <1>1, <1>2, <2>1, <2>2, <3>1 DEF MarkExited, Abstract!BecomeExited, TypeOK
  <2>3. CASE WaiterUnlink
    BY <1>1, <2>1, <2>3 DEF WaiterUnlink, WaiterStep, SessionInv, IsDead,
       Abstract!RemoveSocket
  <2>4. CASE ChildWait \/ ExitedEvent \/ WaiterStops \/ WaiterReports \/ WaiterFails
    BY <2>1, <2>4 DEF ChildWait, ExitedEvent, WaiterStops, WaiterReports, WaiterFails
  <2> QED BY <1>8, <2>2, <2>3, <2>4 DEF Waiter
<1>9. CASE MainFails
  BY <1>2, <1>3, <1>9 DEF MainFails, Abstract!StopServing
<1>10. CASE Killed
  BY <1>1, <1>2, <1>3, <1>10 DEF Killed, EndProcess, Abstract!End, TypeOK
<1>11. CASE UNCHANGED vars
  BY <1>4, <1>11
<1> QED BY <1>5, <1>6, <1>7, <1>8, <1>9, <1>10, <1>11 DEF Next, Failure

(* Whatever fails and however its threads interleave, the service appears  *)
(* to its clients as Lifetime says.                                        *)
THEOREM Implements == Spec => ImplementsLifetime
<1>1. Init => Abstract!LifetimeInit
  BY DEF Init, Abstract!LifetimeInit, Stage
<1> QED BY <1>1, Invariance, LifetimeStep, PTL
        DEF Spec, ImplementsLifetime, Abstract!LifetimeSpec
=============================================================================
