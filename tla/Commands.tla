------------------------------ MODULE Commands ------------------------------
(***************************************************************************)
(* A command of the user, or a request to the RPC server, against a        *)
(* registry that others change at the same time (src/cli.rs; src/rpc.rs,   *)
(* dispatch_request; src/runtime/client.rs).  Each look at the registry is *)
(* a step: between two of them sessions are created, renamed and die.      *)
(*                                                                         *)
(* new and create, attach, wait, and those that look a session up once and *)
(* act on it: send, which stands for write too, signal, which stands for   *)
(* kill too, and inspect.  rename is one step of the registry, which the   *)
(* other processes take.                                                   *)
(***************************************************************************)
EXTENDS Resolve

CONSTANT None

ASSUME NoneAssumption == None \notin Hash

VARIABLES
  kind,      \* the command
  target,    \* what attach was given, or the name that new attaches by
  pc,        \* idle, spawn, read, again, connect, act, poll, done
  own,       \* new: the session it created
  found,     \* the session it first found
  reached,   \* the session it attaches to, acted on or answered with
  status     \* the status of that session when it was looked at for that

commandVars == <<kind, target, pc, own, found, reached, status>>

allVars == <<vars, commandVars>>

CommandsInit ==
  /\ Init
  /\ kind = None /\ target = None /\ pc = "idle"
  /\ own = None /\ found = None /\ reached = None /\ status = None

Others == Next /\ UNCHANGED commandVars

(* The command ends, with session h or, if h is None, with an error.       *)
Finish(h) ==
  /\ pc' = "done"
  /\ reached' = h
  /\ status' = IF h = None THEN None ELSE sessions[h].status
  /\ UNCHANGED <<kind, target, own, found>>

-----------------------------------------------------------------------------
(* new, with and without attaching, and the request create.                *)

New(k) ==
  /\ pc = "idle" /\ k \in {"new", "new_attach"}
  /\ \E h \in Hash :
       /\ CreateNumbered(h) \/ \E name \in ExplicitName : CreateNamed(h, name)
       /\ own' = h
  /\ kind' = k /\ pc' = "spawn"
  /\ UNCHANGED <<target, found, reached, status>>

(* Mutant of SpawnAnswers: whatever is not Failed is ready.                *)
SpawnAnswersEarly ==
  /\ pc = "spawn"
  /\ \/ sessions[own].status = "Failed" /\ Finish(None) /\ UNCHANGED vars
     \/ sessions[own].status # "Failed" /\ pc' = "read"
        /\ UNCHANGED <<vars, kind, target, own, found, reached, status>>

(* spawn_daemon: module Startup.  Its error may come while the session is  *)
(* still starting.                                                         *)
SpawnAnswers ==
  /\ pc = "spawn"
  /\ \/ sessions[own].status \in {"Starting", "Failed"} /\ Finish(None) /\ UNCHANGED vars
     \/ sessions[own].status \in {"Live", "Exited"} /\ pc' = "read"
        /\ UNCHANGED <<vars, kind, target, own, found, reached, status>>

(* session_by_hash; new attaches by the name the session has by now.       *)
ReadOwn ==
  /\ pc = "read"
  /\ IF kind = "new_attach"
     THEN /\ pc' = "again"
          /\ target' = sessions[own].current
          /\ UNCHANGED <<kind, own, found, reached, status>>
     ELSE Finish(own)
  /\ UNCHANGED vars

-----------------------------------------------------------------------------
(* The commands that are given a target.                                   *)

LookupScope == [attach |-> "live_only", send |-> "live_only", signal |-> "live_only",
                wait |-> "all", inspect |-> "all"]

AfterLookup == [attach |-> "again", send |-> "act", signal |-> "act",
                wait |-> "poll", inspect |-> "act"]

Lookup(k, t) ==
  /\ pc = "idle" /\ k \in DOMAIN LookupScope
  /\ kind' = k /\ target' = IF k = "attach" THEN t ELSE None
  /\ LET hs == ResolveTarget(t, LookupScope[k]) IN
     \/ hs = {} /\ pc' = "done" /\ UNCHANGED found
     \/ \E h \in hs : found' = h /\ pc' = AfterLookup[k]
  /\ UNCHANGED <<vars, own, reached, status>>

(* Session h is the one to connect to, with the socket of its record.      *)
ConnectTo(h) ==
  /\ reached' = h /\ status' = sessions[h].status /\ pc' = "connect"
  /\ UNCHANGED <<kind, target, own, found>>

(* Mutant of LookupAgain: dead sessions are looked at too.                 *)
LookupAgainAll ==
  /\ pc = "again"
  /\ LET hs == ResolveTarget(target, "all") IN
     \/ hs = {} /\ Finish(None)
     \/ \E h \in hs : ConnectTo(h)
  /\ UNCHANGED vars

(* attach looks its target up, a second time after the command has done so *)
(* for the detach key.                                                     *)
LookupAgain ==
  /\ pc = "again"
  /\ LET hs == ResolveTarget(target, "live_only") IN
     \/ hs = {} /\ Finish(None)
     \/ \E h \in hs : ConnectTo(h)
  /\ UNCHANGED vars

(* It connects, which may fail whatever the session's status is: there is  *)
(* no socket yet, or none any more, or nobody listens because the service  *)
(* was killed and the record still says Live.                              *)
Connect ==
  /\ pc = "connect" /\ pc' = "done"
  /\ UNCHANGED <<reached, status>> \/ (reached' = None /\ status' = None)
  /\ UNCHANGED <<vars, kind, target, own, found>>

(* What was found is acted on, whatever has become of it.                  *)
Inspect ==
  /\ pc = "act" /\ kind = "inspect"
  /\ Finish(found)
  /\ UNCHANGED vars

(* That may fail: a signal needs the child's number, which a record has    *)
(* once it is live, a process by that number, and a log for its event.     *)
Signal ==
  /\ pc = "act" /\ kind = "signal"
  /\ Finish(found) \/ Finish(None)
  /\ UNCHANGED vars

(* A send connects and writes.                                             *)
Send ==
  /\ pc = "act" /\ kind = "send"
  /\ Finish(found) \/ Finish(None)
  /\ UNCHANGED vars

(* Mutants of Poll: a session that has not started counts as ended; one    *)
(* that has failed does not.                                               *)
PollNotLive ==
  /\ pc = "poll" /\ sessions[found].status # "Live"
  /\ Finish(found)
  /\ UNCHANGED vars

PollExited ==
  /\ pc = "poll" /\ sessions[found].status = "Exited"
  /\ Finish(found)
  /\ UNCHANGED vars

(* wait_for_exit.                                                          *)
Poll ==
  /\ pc = "poll" /\ Dead(sessions, found)
  /\ Finish(found)
  /\ UNCHANGED vars

(* The time of a wait with a timeout is up, at a look that finds the       *)
(* session live.                                                           *)
TimeIsUp ==
  /\ pc = "poll" /\ Live(sessions, found)
  /\ Finish(None)
  /\ UNCHANGED vars

CommandStep ==
  SpawnAnswers \/ ReadOwn \/ LookupAgain \/ Inspect \/ Signal \/ Poll

CommandsNext ==
  \/ Others \/ CommandStep \/ Connect \/ Send \/ TimeIsUp
  \/ \E k \in {"new", "new_attach"} : New(k)
  \/ \E k \in DOMAIN LookupScope, t \in Target : Lookup(k, t)

CommandsSpec == CommandsInit /\ [][CommandsNext]_allVars

(* The command goes on where it waits for nobody.  Nothing is assumed of   *)
(* the others, nor of timeouts, nor of Connect and Send: as long as no     *)
(* service accepts or reads, they may be blocked (module Input).           *)
FairCommandsSpec == CommandsSpec /\ WF_allVars(CommandStep)

-----------------------------------------------------------------------------
(* The answers are true, though each is put together from several looks:   *)
(* create answers with its own session, which is not starting any more,    *)
(* wait with a session that is over and stays so, and a session attached   *)
(* to was live at the look that led to it.                                 *)
AnswersAreTrue ==
  pc = "done" /\ reached # None =>
    /\ kind = "new" => reached = own /\ status # "Starting"
    /\ kind = "wait" => reached = found /\ Dead(sessions, found)
    /\ kind \in {"attach", "new_attach"} => status \in LiveStatus

(* new attaches by name.  While its own session is live under that name it *)
(* connects to no other, and finds none only if another live session has   *)
(* the name, or the hash, too.  (When its session was renamed or has ended *)
(* in between, it may connect to another whose name or hash begins with    *)
(* it.)  Connecting to what was found may still fail.                      *)
NewFindsItsOwn ==
  [][/\ pc = "again" /\ pc' # "again" /\ kind = "new_attach"
     /\ Live(sessions, own) /\ sessions[own].current = target
     => \/ reached' = own
        \/ /\ reached' = None
           /\ \E h \in Hash \ {own} :
                Live(sessions, h) /\ target \in {h, sessions[h].current}]_allVars

(* attach with the hash of a live session: the detach key and the socket   *)
(* to connect to, which it takes from two looks, are of one session,       *)
(* unless that session has died in between.                                *)
HashLeadsOn ==
  target \in Hash /\ found = target /\ reached # None =>
    reached = found \/ Dead(sessions, found)

(* A command is answered, or comes to where it depends on a service: no    *)
(* look at the registry, and no race between them, leaves it waiting.  A   *)
(* wait without a timeout is answered once its session is over.            *)
CommandsEnd ==
  \/ pc \in {"spawn", "read", "again"}
  \/ pc = "act" /\ kind # "send"
  \/ pc = "poll" /\ Dead(sessions, found)
  ~> pc \in {"connect", "done"}
=============================================================================
