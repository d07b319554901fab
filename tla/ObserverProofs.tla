--------------------------- MODULE ObserverProofs ---------------------------
(***************************************************************************)
(* What is true of those who watch a service from outside, each look at a  *)
(* moment of its own, for any amount of output and any number of failures. *)
(* The service does not notice them, so that its invariant (ServiceProofs) *)
(* holds under their eyes; what they know is what cannot change any more.  *)
(***************************************************************************)
EXTENDS ServiceProofs, Startup, Follow

(* What the life of a session never takes back: the status of a session    *)
(* that has left Starting, the end of the process, the end of the session. *)
Started == status # "Starting"

HasRun == status \in {"Live", "Exited"} => child # "none"

LEMMA HasRunStep == Inv /\ HasRun /\ [Next]_vars => HasRun'
<1> SUFFICES ASSUME Inv, HasRun, [Next]_vars PROVE HasRun'
  OBVIOUS
<1>1. ThreadsInv /\ TerminalInv /\ SessionInv /\ TypeOK
  BY DEF Inv
<1> USE DEF HasRun, log, terminal, flags, process, vars
<1>2. CASE MarkLive
  BY <1>1, <1>2 DEF MarkLive, MainStep, TerminalInv, Starting
<1>3. CASE MarkExited
  BY <1>1, <1>3 DEF MarkExited, WaiterStep, TerminalInv
<1>4. CASE MarkFailed
  BY <1>4 DEF MarkFailed
<1>5. CASE SpawnChild \/ ChildExit
  BY <1>5 DEF SpawnChild, ChildExit
<1>6. CASE UNCHANGED <<status, child>>
  BY <1>6
<1>7. [Next]_vars => MarkLive \/ MarkExited \/ MarkFailed \/ SpawnChild \/ ChildExit
                       \/ UNCHANGED <<status, child>>
  BY Zenon DEF Next, Outside, Produce, LeaveBackgroundProcess, CloseTerminal, Main, Prepare,
     BindSocket, LiveEvent, StartThreads, CheckRunning, Accept, ReceiveFatal, JoinReader,
     JoinWaiter, Unlink, FailedEvent, Return, EndProcess, MainStep, Reader, OpenLog,
     Read, WriteLog, EndOfOutput, ReaderStops, ReaderReports, ReaderStep, Waiter,
     ChildWait, ExitedEvent, WaiterUnlink, WaiterStops, WaiterReports, WaiterStep,
     Failure, MainFails, ReaderFails, WaiterFails, Killed
<1> QED BY <1>2, <1>3, <1>4, <1>5, <1>6, <1>7

(* A session that has left Starting does not return to it, one that is     *)
(* dead stays dead, and a process that has ended does nothing more.        *)
LEMMA Forward ==
  ASSUME Inv, [Next]_vars
  PROVE  /\ Started => Started'
         /\ IsDead => IsDead'
         /\ main = "gone" => main' = "gone" /\ status' = status
         /\ child # "none" => child' # "none"
         /\ Started /\ (socket \/ IsDead) => socket' \/ IsDead'
<1>1. ThreadsInv /\ TerminalInv /\ SessionInv /\ TypeOK
  BY DEF Inv
<1> USE DEF Started, IsDead, log, terminal, flags, process, vars
<1>2. CASE UNCHANGED <<status, main, child, socket>>
  BY <1>2
<1>3. CASE SpawnChild \/ ChildExit
  BY <1>3 DEF SpawnChild, ChildExit, MainStep
<1>4. CASE MarkLive \/ Prepare \/ BindSocket
  BY <1>1, <1>4 DEF MarkLive, Prepare, BindSocket, MainStep, SessionInv
<1>5. CASE MarkExited
  BY <1>1, <1>5 DEF MarkExited, WaiterStep, ThreadsInv
<1>6. CASE MarkFailed
  BY <1>6 DEF MarkFailed, MainStep
<1>7. CASE Unlink
  <2>1. waiter = "done"
    BY <1>1, <1>7 DEF Unlink, MainStep, ThreadsInv
  <2> QED BY <1>1, <1>7, <2>1 DEF Unlink, MainStep, SessionInv
<1>8. CASE WaiterUnlink
  BY <1>1, <1>8 DEF WaiterUnlink, WaiterStep, SessionInv
<1>9. CASE main # "gone" /\ UNCHANGED <<status, child, socket>>
  BY <1>9
<1>10. \/ SpawnChild \/ ChildExit \/ MarkLive \/ Prepare \/ BindSocket \/ MarkExited
       \/ MarkFailed \/ Unlink \/ WaiterUnlink
       \/ main # "gone" /\ UNCHANGED <<status, child, socket>>
       \/ UNCHANGED <<status, main, child, socket>>
  BY DEF Next, Outside, Produce, LeaveBackgroundProcess, CloseTerminal, Main,
     LiveEvent, StartThreads, CheckRunning, Accept, ReceiveFatal, JoinReader,
     JoinWaiter, FailedEvent, Return, EndProcess, MainStep, Reader, OpenLog,
     Read, WriteLog, EndOfOutput, ReaderStops, ReaderReports, ReaderStep, Waiter,
     ChildWait, ExitedEvent, WaiterStops, WaiterReports, WaiterStep,
     Failure, MainFails, ReaderFails, WaiterFails, Killed
<1> QED BY <1>2, <1>3, <1>4, <1>5, <1>6, <1>7, <1>8, <1>9, <1>10

(* The service does not notice what fails elsewhere.                       *)
LEMMA FaultKeepsInv == Inv /\ FaultElsewhere => Inv'
<1> SUFFICES ASSUME Inv, FaultElsewhere PROVE Inv'
  OBVIOUS
<1>1. /\ UNCHANGED <<status, history, socket, log, terminal, main, reader, waiter, batch,
                     flags, outcome>>
      /\ faults' = faults + 1
  BY Zenon DEF FaultElsewhere, Fault
<1>2. TypeOK'
  <2>1. FlagsOK /\ CountsOK /\ PlacesOK
    BY TypeParts DEF Inv
  <2>2. FlagsOK'
    BY <1>1, <2>1, Zenon DEF FlagsOK, log, flags
  <2>3. CountsOK'
    BY <1>1, <2>1 DEF CountsOK, log, terminal
  <2>4. PlacesOK'
    BY <1>1, <2>1 DEF PlacesOK, terminal, flags
  <2>5. TypeOK' <=> FlagsOK' /\ CountsOK' /\ PlacesOK'
    BY TypeParts, PTL
  <2> QED BY <2>2, <2>3, <2>4, <2>5
<1>3. ThreadsInv' /\ TerminalInv' /\ SessionInv'
  BY <1>1 DEF Inv, ThreadsInv, TerminalInv, SessionInv, LiveHasSocket, IsDead, terminal
<1> QED BY <1>2, <1>3 DEF Inv
-----------------------------------------------------------------------------
(* The client that has started the service.                                *)

(* What it has concluded, and what it is about to: it waits the second of  *)
(* grace only for a process that has ended, having looked at its status    *)
(* after that.                                                             *)
Gone == main = "gone" /\ (status = "Starting" \/ misread)

CreatorInv ==
  /\ creator \in {"look_grace", "wait_grace"} => main = "gone"
  /\ creator = "wait_grace" \/ verdict = "exited" => Gone
  /\ verdict = "ready" => Started /\ ReadyMeansStarted

ServiceInv == Inv /\ HasRun

LEMMA CreatorUnderService ==
  ServiceInv /\ CreatorInv /\ ServiceRuns => ServiceInv' /\ CreatorInv'
<1> SUFFICES ASSUME ServiceInv, CreatorInv, ServiceRuns PROVE ServiceInv' /\ CreatorInv'
  OBVIOUS
<1>1. Inv /\ [Next]_vars /\ HasRun /\ UNCHANGED <<creator, misread, verdict>>
  BY DEF ServiceInv, ServiceRuns, creatorVars
<1>2. Inv' /\ HasRun'
  BY <1>1, InvStep, HasRunStep
<1>3. /\ Started => Started'
      /\ main = "gone" => main' = "gone" /\ status' = status
      /\ child # "none" => child' # "none"
      /\ Started /\ (socket \/ IsDead) => socket' \/ IsDead'
  BY <1>1, Forward
<1> QED BY <1>1, <1>2, <1>3 DEF ServiceInv, CreatorInv, Gone, ReadyMeansStarted

LEMMA CreatorSteps ==
  ServiceInv /\ CreatorInv /\ (CreatorStep \/ TimePasses \/ UNCHANGED startupVars)
     => ServiceInv' /\ CreatorInv'
<1> SUFFICES ASSUME ServiceInv, CreatorInv,
                    CreatorStep \/ TimePasses \/ UNCHANGED startupVars
             PROVE  ServiceInv' /\ CreatorInv'
  OBVIOUS
<1>1. UNCHANGED vars
  BY DEF CreatorStep, Look, TryWait, Wait, TimePasses, startupVars
<1>2. ServiceInv'
  BY <1>1, InvStep, HasRunStep DEF ServiceInv
<1>3. UNCHANGED <<status, child, main, socket>>
  BY <1>1 DEF vars, terminal, process
<1> USE DEF CreatorInv, Gone, Started, ReadyMeansStarted, IsDead
<1>4. CASE Look
  <2>1. status = "Live" => socket
    BY DEF ServiceInv, Inv, SessionInv, LiveHasSocket
  <2>2. status \in {"Live", "Exited"} => child # "none"
    BY DEF ServiceInv, HasRun
  <2>3. creator \in {"look", "look_grace", "look_last"} /\ misread' = misread
    BY <1>4 DEF Look, AfterLook
  <2>4. CASE status \in {"Live", "Exited", "Failed"}
    <3>1. creator' = "done" /\ verdict' \in {"ready", "failed"}
          /\ (verdict' = "ready" => status \in {"Live", "Exited"})
      BY <1>4, <2>4 DEF Look, Answer
    <3> QED BY <1>2, <1>3, <2>1, <2>2, <2>4, <3>1
  <2>5. CASE status \notin {"Live", "Exited", "Failed"}
    <3>1. verdict' = verdict /\ creator' \in {"try_wait", "wait_grace", "wait_last"}
          /\ (creator' = "wait_grace" => creator = "look_grace")
      BY <1>4, <2>3, <2>5 DEF Look, Answer, AfterLook
    <3>2. status = "Starting"
      BY <2>5 DEF ServiceInv, Inv, TypeOK
    <3> QED BY <1>2, <1>3, <2>3, <3>1, <3>2
  <2> QED BY <2>4, <2>5
<1>5. CASE TryWait
  BY <1>2, <1>3, <1>5 DEF TryWait
<1>6. CASE Wait
  BY <1>2, <1>3, <1>6 DEF Wait
<1>7. CASE TimePasses \/ UNCHANGED startupVars
  BY <1>2, <1>3, <1>7 DEF TimePasses, startupVars, creatorVars
<1> QED BY <1>4, <1>5, <1>6, <1>7 DEF CreatorStep

LEMMA CreatorMisses == ServiceInv /\ CreatorInv /\ CreatorFails => ServiceInv' /\ CreatorInv'
<1> SUFFICES ASSUME ServiceInv, CreatorInv, CreatorFails PROVE ServiceInv' /\ CreatorInv'
  OBVIOUS
<1>1. FaultElsewhere
  BY DEF CreatorFails, LookFails, TryWaitFails
<1>2. UNCHANGED <<status, socket, terminal, main>>
  BY <1>1, Zenon DEF FaultElsewhere
<1>3. Inv'
  BY <1>1, FaultKeepsInv DEF ServiceInv
<1>4. HasRun'
  BY <1>2 DEF ServiceInv, HasRun, terminal
<1> USE DEF CreatorInv, Gone, Started, ReadyMeansStarted, IsDead
<1>5. CreatorInv'
  <2>1. CASE LookFails
    <3>1. misread' /\ verdict' = verdict /\ creator' = AfterLook[creator]
          /\ creator \in DOMAIN AfterLook
      BY <2>1 DEF LookFails
    <3> QED BY <1>2, <3>1 DEF AfterLook, terminal
  <2>2. CASE TryWaitFails
    BY <1>2, <2>2 DEF TryWaitFails, terminal
  <2> QED BY <2>1, <2>2 DEF CreatorFails
<1> QED BY <1>3, <1>4, <1>5 DEF ServiceInv

LEMMA CreatorInvariance == StartupSpec => [](ServiceInv /\ CreatorInv)
<1>1. StartupInit => ServiceInv /\ CreatorInv
  <2> SUFFICES ASSUME StartupInit PROVE ServiceInv /\ CreatorInv
    OBVIOUS
  <2>1. Inv
    BY InvInit DEF StartupInit
  <2> QED BY <2>1 DEF StartupInit, Init, ServiceInv, HasRun, CreatorInv
<1>2. ServiceInv /\ CreatorInv /\ [StartupNext]_startupVars => ServiceInv' /\ CreatorInv'
  BY CreatorUnderService, CreatorSteps, CreatorMisses DEF StartupNext
<1> QED BY <1>1, <1>2, PTL DEF StartupSpec

(* "Exited before session became ready" is said only of a service that is  *)
(* gone and has left its session Starting, unless the store could not be   *)
(* read.                                                                   *)
THEOREM ExitedIsTrue == StartupSpec => []ExitedVerdictIsTrue
<1>1. CreatorInv => ExitedVerdictIsTrue
  BY DEF CreatorInv, Gone, ExitedVerdictIsTrue
<1> QED BY <1>1, CreatorInvariance, PTL

(* new returns without an error only for a session whose command has been  *)
(* started, and which has a socket or is over by then.                     *)
THEOREM ReadyIsTrue == StartupSpec => []ReadyMeansStarted
<1>1. CreatorInv => ReadyMeansStarted
  BY DEF CreatorInv, ReadyMeansStarted
<1> QED BY <1>1, CreatorInvariance, PTL

-----------------------------------------------------------------------------
(* The client that follows a file of the session.                          *)

FileTypes == logged \in Nat /\ Len(history) \in Nat

LEMMA FilesGrow ==
  ASSUME Inv, [Next]_vars
  PROVE  FileTypes /\ FileTypes' /\ logged' >= logged /\ Len(history') >= Len(history)
<1>1. TypeOK /\ TypeOK'
  BY InvStep DEF Inv
<1>2. FileTypes /\ FileTypes'
  BY <1>1 DEF FileTypes, TypeOK
<1>3. logged' >= logged
  <2>1. CASE WriteLog
    BY <1>1, <2>1 DEF WriteLog, TypeOK
  <2>2. CASE logged' = logged
    BY <1>2, <2>2 DEF FileTypes
  <2>3. WriteLog \/ logged' = logged
    BY DEF Next, Outside, Produce, LeaveBackgroundProcess, CloseTerminal, ChildExit, Main,
       Prepare, SpawnChild, BindSocket, MarkLive, LiveEvent, StartThreads, CheckRunning,
       Accept, ReceiveFatal, JoinReader, JoinWaiter, Unlink, MarkFailed, FailedEvent,
       Return, EndProcess, MainStep, Reader, OpenLog, Read, EndOfOutput, ReaderStops,
       ReaderReports, ReaderStep, Waiter, ChildWait, MarkExited, ExitedEvent,
       WaiterUnlink, WaiterStops, WaiterReports, WaiterStep, Failure, MainFails,
       ReaderFails, WaiterFails, Killed, log, vars
  <2> QED BY <2>1, <2>2, <2>3
<1>4. Len(history') >= Len(history)
  <2>1. CASE LiveEvent \/ ExitedEvent \/ FailedEvent
    BY <1>1, <2>1 DEF LiveEvent, ExitedEvent, FailedEvent, TypeOK
  <2>2. CASE history' = history
    BY <1>2, <2>2 DEF FileTypes
  <2>3. LiveEvent \/ ExitedEvent \/ FailedEvent \/ history' = history
    BY DEF Next, Outside, Produce, LeaveBackgroundProcess, CloseTerminal, ChildExit, Main,
       Prepare, SpawnChild, BindSocket, MarkLive, StartThreads, CheckRunning, Accept,
       ReceiveFatal, JoinReader, JoinWaiter, Unlink, MarkFailed, Return, EndProcess,
       Reader, OpenLog, Read, WriteLog, EndOfOutput, ReaderStops, ReaderReports,
       ReaderStep, Waiter, ChildWait, MarkExited, WaiterUnlink, WaiterStops,
       WaiterReports, Failure, MainFails, ReaderFails, WaiterFails, WaiterStep, Killed, vars
  <2> QED BY <2>1, <2>2, <2>3
<1> QED BY <1>2, <1>3, <1>4

FollowerInv ==
  /\ position \in Nat /\ atDeath \in Nat
  /\ followed \in {"output", "events"}
  /\ position <= FileLen /\ atDeath <= FileLen
  /\ follower \in {"measure", "done"} => IsDead
  /\ follower = "done" => position >= atDeath

LEMMA FollowerUnderService ==
  Inv /\ FollowerInv /\ ServiceStep(Next) => Inv' /\ FollowerInv'
<1> SUFFICES ASSUME Inv, FollowerInv, ServiceStep(Next) PROVE Inv' /\ FollowerInv'
  OBVIOUS
<1>1. Inv /\ [Next]_vars /\ UNCHANGED <<followed, follower, position>>
  BY DEF ServiceStep
<1>2. Inv' /\ (IsDead => IsDead')
  BY <1>1, InvStep, Forward
<1>3. FileLen' >= FileLen /\ FileLen \in Nat /\ FileLen' \in Nat
  BY <1>1, FilesGrow DEF FileTypes, FileLen
<1>4. atDeath' = IF ~ IsDead /\ IsDead' THEN FileLen' ELSE atDeath
  BY DEF ServiceStep
<1>5. atDeath' \in Nat /\ atDeath' <= FileLen' /\ (IsDead => atDeath' = atDeath)
  BY <1>3, <1>4 DEF FollowerInv
<1> HIDE DEF FileLen
<1> QED BY <1>1, <1>2, <1>3, <1>5 DEF FollowerInv

LEMMA FollowerMisses == Inv /\ FollowerInv /\ FollowerFails => Inv' /\ FollowerInv'
<1> SUFFICES ASSUME Inv, FollowerInv, FollowerFails PROVE Inv' /\ FollowerInv'
  OBVIOUS
<1>1. FaultElsewhere /\ follower' = "failed" /\ UNCHANGED <<followed, position, atDeath>>
  BY DEF FollowerFails
<1>2. UNCHANGED <<history, log>>
  BY <1>1, Zenon DEF FaultElsewhere
<1>3. FileLen' = FileLen
  BY <1>1, <1>2 DEF FileLen, log
<1> QED BY <1>1, <1>3, FaultKeepsInv DEF FollowerInv

LEMMA FollowerSteps ==
  Inv /\ FollowerInv /\ (FollowerStep \/ UNCHANGED followVars) => Inv' /\ FollowerInv'
<1> SUFFICES ASSUME Inv, FollowerInv, FollowerStep \/ UNCHANGED followVars
             PROVE  Inv' /\ FollowerInv'
  OBVIOUS
<1>1. UNCHANGED vars
  BY DEF FollowerStep, ReadFile, AskStatus, Measure, followVars
<1>2. Inv'
  BY <1>1, InvStep
<1>3. FileTypes
  BY DEF Inv, TypeOK, FileTypes
<1>4. UNCHANGED <<status, history, logFile, logged>>
  BY <1>1 DEF vars, log
<1> USE DEF FollowerInv, FileLen, FileExists, FileTypes, IsDead
<1>5. CASE ReadFile
  BY <1>2, <1>3, <1>4, <1>5 DEF ReadFile
<1>6. CASE AskStatus
  BY <1>2, <1>3, <1>4, <1>6 DEF AskStatus
<1>7. CASE Measure
  BY <1>2, <1>3, <1>4, <1>7 DEF Measure
<1>8. CASE UNCHANGED followVars
  BY <1>2, <1>3, <1>4, <1>8 DEF followVars
<1> QED BY <1>5, <1>6, <1>7, <1>8 DEF FollowerStep

(* A follower ends only after the death of the session, having printed all *)
(* that the file held then, and nothing twice.                             *)
THEOREM Drained == FollowSpec => []DrainedAtDeath
<1>1. FollowInit => Inv /\ FollowerInv
  <2> SUFFICES ASSUME FollowInit PROVE Inv /\ FollowerInv
    OBVIOUS
  <2>1. Inv
    BY InvInit DEF FollowInit
  <2>2. FileLen \in Nat
    BY DEF FollowInit, Init, FileLen
  <2> QED BY <2>1, <2>2 DEF FollowInit, FollowerInv
<1>2. Inv /\ FollowerInv /\ [FollowNext]_followVars => Inv' /\ FollowerInv'
  BY FollowerUnderService, FollowerSteps, FollowerMisses DEF FollowNext
<1>3. FollowerInv => DrainedAtDeath
  BY DEF FollowerInv, DrainedAtDeath
<1> QED BY <1>1, <1>2, <1>3, PTL DEF FollowSpec
=============================================================================
