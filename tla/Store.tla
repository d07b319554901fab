------------------------------- MODULE Store --------------------------------
(***************************************************************************)
(* The session store (src/store.rs) as the processes of tmuy use it: each  *)
(* call is a series of steps on state.json, its lock, the log directories  *)
(* and the process making the call, any of which may stop at any step.     *)
(*                                                                         *)
(* Processes: clients (the CLI or a thread of the RPC server) that create  *)
(* and rename sessions, and for every session a service process with two   *)
(* threads that call the store: main (run_server) and wait (the thread     *)
(* that waits for the child).                                              *)
(***************************************************************************)
EXTENDS Sessions, Sequences

CONSTANTS
  Client,
  None,        \* Rust's None
  Torn,        \* the content of a file that is not a whole record
  MaxEvents,   \* bound: no rename of a session with that many events begins
  MaxFaults    \* bound: how many calls are cut short and services crash

Main(h) == <<"main", h>>

Wait(h) == <<"wait", h>>

Proc == Client \cup {Main(h) : h \in Hash} \cup {Wait(h) : h \in Hash}

ASSUME ProcAssumption ==
  /\ None \notin Proc
  /\ \A h \in Hash : Main(h) \notin Client /\ Wait(h) \notin Client

VARIABLES
  disk,     \* state.json; what is read from it when it does not exist
  tmp,      \* state.json.tmp
  lock,     \* the process holding the exclusive flock on state.lock, or None
  pc,       \* [Proc -> where the process is]
  op,       \* [Proc -> the call it is making]
  mem,      \* the StateFile the holder of the lock has read and changed
  result,   \* [Proc -> the record the closure of its call returned]
  faults,   \* how many faults there have been
  meta,     \* meta.json of every log directory that has one
  events    \* events.jsonl of every log directory that has one

vars == <<disk, tmp, lock, pc, op, mem, result, faults, meta, events>>

(* A call of the store.  hash is None until create_session has drawn it;   *)
(* name is None for a session to be numbered and for the status updates.   *)
Kind == {"create", "rename", "live", "exited", "failed"}

Call == [kind : Kind, hash : Hash \cup {None}, name : ExplicitName \cup {None}]

NoCall == [kind |-> "none"]

(* Where a process is between calls.  Clients: idle, or about to spawn the *)
(* service of the session they created.  Main: off until spawned, boot     *)
(* until mark_live is done, serve; failing when mark_live failed, exit     *)
(* when run_server and the mark_failed after it have returned.  Wait: off, *)
(* child while the child runs, joined or broken when the thread has ended. *)
Resting == {"idle", "spawn", "off", "boot", "serve", "failing", "exit",
            "child", "joined", "broken", "gone"}

Calling == {"apply", "meta", "metafill", "event", "write", "fill", "commit"}

Init ==
  /\ disk = EmptyState
  /\ tmp = None
  /\ lock = None
  /\ pc = [p \in Proc |-> IF p \in Client THEN "idle" ELSE "off"]
  /\ op = [p \in Proc |-> NoCall]
  /\ mem = None
  /\ result = [p \in Proc |-> None]
  /\ faults = 0
  /\ meta = << >>
  /\ events = << >>

-----------------------------------------------------------------------------
(* The directory of a record is made from the started name and the hash    *)
(* when the session is created.                                            *)
Dir(p) == <<result[p].started, op[p].hash>>

Put(f, key, value) ==
  [x \in DOMAIN f \cup {key} |-> IF x = key THEN value ELSE f[x]]

EventsOf(dir) == IF dir \in DOMAIN events THEN events[dir] ELSE << >>

EventName == [create |-> "created", rename |-> "renamed", live |-> "live",
              exited |-> "exited", failed |-> "failed"]

(* created and renamed events carry the current name of the record.        *)
EventOf(p) ==
  [kind |-> EventName[op[p].kind],
   name |-> IF op[p].kind \in {"create", "rename"}
            THEN result[p].current ELSE None]

(* Where a process goes when its call returns, and when it fails.          *)
Returned == [create |-> "spawn", rename |-> "idle", live |-> "serve",
             exited |-> "joined", failed |-> "exit"]

Errored == [create |-> "idle", rename |-> "idle", live |-> "failing",
            exited |-> "broken", failed |-> "exit"]

-----------------------------------------------------------------------------
(* with_locked_state: lock, read, apply the closure, write, unlock.        *)

(* lock_exclusive and read_state_file: nobody else writes while the lock   *)
(* is held.  A call that waits for the lock has done nothing yet, and is   *)
(* not told apart from one that has not been made.                         *)
Begin(p, kind, h, name) ==
  /\ lock = None
  /\ lock' = p
  /\ mem' = disk
  /\ op' = [op EXCEPT ![p] = [kind |-> kind, hash |-> h, name |-> name]]
  /\ pc' = [pc EXCEPT ![p] = "apply"]
  /\ UNCHANGED <<disk, tmp, result, faults, meta, events>>

(* Mutants of NextAfterApply: every closure writes its event, or none does. *)
EventBeforeWrite(kind) == "meta"

CreateUndocumented(kind) == "write"

(* The closure of create_session goes on to write meta.json and the        *)
(* created event, holding the lock; the other closures end here.           *)
NextAfterApply(kind) == IF kind = "create" THEN "meta" ELSE "write"

(* The closure leaves state s and returns the record of h in it.           *)
Apply(p, s, h) ==
  /\ mem' = s
  /\ result' = [result EXCEPT ![p] = s.sessions[h]]
  /\ pc' = [pc EXCEPT ![p] = NextAfterApply(op[p].kind)]
  /\ UNCHANGED <<disk, tmp, lock, faults, meta, events>>

(* The state the closure of create_session leaves.                         *)
Created(s, h, name) ==
  IF name = None
  THEN [sessions |-> [s.sessions EXCEPT
                        ![h] = NewSession(NextNumber(s.next), "numbered")],
        next |-> NextNumber(s.next) + 1]
  ELSE [s EXCEPT !.sessions[h] = NewSession(name, "explicit")]

ApplyCreate(p) ==
  /\ pc[p] = "apply" /\ op[p].kind = "create"
  /\ op[p].name # None => ~ NameTaken(mem.sessions, op[p].name)
  /\ \E h \in Hash :
        /\ ~ Known(mem.sessions, h)
        /\ op' = [op EXCEPT ![p].hash = h]
        /\ Apply(p, Created(mem, h, op[p].name), h)

(* Mutant of ApplyRename: the target need not be live.                     *)
ApplyRenameOfAny(p) ==
  LET h == op[p].hash IN
  /\ pc[p] = "apply" /\ op[p].kind = "rename"
  /\ ~ NameTaken(mem.sessions, op[p].name)
  /\ Apply(p, [mem EXCEPT !.sessions[h].current = op[p].name], h)
  /\ UNCHANGED op

ApplyRename(p) ==
  LET h == op[p].hash IN
  /\ pc[p] = "apply" /\ op[p].kind = "rename"
  /\ ~ NameTaken(mem.sessions, op[p].name)
  /\ Live(mem.sessions, h)
  /\ Apply(p, [mem EXCEPT !.sessions[h].current = op[p].name], h)
  /\ UNCHANGED op

StatusAfter == [live |-> "Live", exited |-> "Exited", failed |-> "Failed"]

(* update_session as mark_live, mark_exited and mark_failed call it: the   *)
(* status is overwritten whatever it was.                                  *)
ApplyStatus(p) ==
  LET h == op[p].hash IN
  /\ pc[p] = "apply" /\ op[p].kind \in DOMAIN StatusAfter
  /\ Known(mem.sessions, h)
  /\ Apply(p, [mem EXCEPT !.sessions[h].status = StatusAfter[op[p].kind]],
           h)
  /\ UNCHANGED op

(* The closure returns an error: a name that is taken, a target that is    *)
(* not live.  Bound: a create also gives up when the model has no hash     *)
(* left, where the program would draw from 2^28.                           *)
Refused(p) ==
  \/ /\ op[p].kind \in {"create", "rename"}
     /\ op[p].name # None
     /\ NameTaken(mem.sessions, op[p].name)
  \/ op[p].kind = "rename" /\ ~ Live(mem.sessions, op[p].hash)
  \/ op[p].kind = "create" /\ \A h \in Hash : Known(mem.sessions, h)

(* Mutant of Leave: the error path keeps the lock.                         *)
LeakyLeave(ps, next) ==
  /\ pc' = [p \in Proc |-> IF p \in ps THEN next ELSE pc[p]]
  /\ op' = [p \in Proc |-> IF p \in ps THEN NoCall ELSE op[p]]
  /\ result' = [p \in Proc |-> IF p \in ps THEN None ELSE result[p]]
  /\ UNCHANGED <<lock, mem>>

(* The calls of ps end, and with them the hold on the lock: the descriptor *)
(* goes out of scope, or its process ends.                                 *)
Leave(ps, next) ==
  /\ pc' = [p \in Proc |-> IF p \in ps THEN next ELSE pc[p]]
  /\ op' = [p \in Proc |-> IF p \in ps THEN NoCall ELSE op[p]]
  /\ result' = [p \in Proc |-> IF p \in ps THEN None ELSE result[p]]
  /\ IF lock \in ps THEN lock' = None /\ mem' = None
                    ELSE UNCHANGED <<lock, mem>>

Reject(p) ==
  /\ pc[p] = "apply"
  /\ Refused(p)
  /\ Leave({p}, Errored[op[p].kind])
  /\ UNCHANGED <<disk, tmp, faults, meta, events>>

(* The file p has truncated and nobody has truncated or written since.     *)
Begun(p) == [begun |-> p]

(* create_session writes meta.json and the created event before it writes  *)
(* state.json, holding the lock; the others after, having released it.     *)
TruncateMeta(p) ==
  /\ pc[p] = "meta"
  /\ meta' = Put(meta, Dir(p), Begun(p))
  /\ pc' = [pc EXCEPT ![p] = "metafill"]
  /\ UNCHANGED <<disk, tmp, lock, op, mem, result, faults, events>>

(* The record goes out in many writes, and without the lock two calls may  *)
(* be at it: the later one then leaves its record or a splice of the two.  *)
FillMeta(p) ==
  /\ pc[p] = "metafill"
  /\ \/ meta' = Put(meta, Dir(p), result[p])
     \/ meta[Dir(p)] # Begun(p) /\ meta' = Put(meta, Dir(p), Torn)
  /\ pc' = [pc EXCEPT ![p] = "event"]
  /\ UNCHANGED <<disk, tmp, lock, op, mem, result, faults, events>>

NextAfterEvent(kind) == IF kind = "create" THEN "write" ELSE Returned[kind]

(* The event of the call, the last step of every call but create_session.  *)
(* With the live event done the service starts its wait thread.            *)
AppendEvent(p) ==
  LET kind == op[p].kind IN
  /\ pc[p] = "event"
  /\ events' = Put(events, Dir(p), Append(EventsOf(Dir(p)), EventOf(p)))
  /\ pc' = [q \in Proc |->
              IF q = p THEN NextAfterEvent(kind)
              ELSE IF kind = "live" /\ q = Wait(op[p].hash) THEN "child"
              ELSE pc[q]]
  /\ IF kind = "create"
     THEN UNCHANGED <<op, result>>
     ELSE /\ op' = [op EXCEPT ![p] = NoCall]
          /\ result' = [result EXCEPT ![p] = None]
  /\ UNCHANGED <<disk, tmp, lock, mem, faults, meta>>

(* Mutant of TruncateTmp: the file is renamed before it is filled.         *)
EarlyTruncateTmp(p) ==
  /\ pc[p] = "write"
  /\ tmp' = Torn
  /\ pc' = [pc EXCEPT ![p] = "commit"]
  /\ UNCHANGED <<disk, lock, op, mem, result, faults, meta, events>>

(* write_state_file: truncate and write the temporary file, then rename.   *)
TruncateTmp(p) ==
  /\ pc[p] = "write"
  /\ tmp' = Torn
  /\ pc' = [pc EXCEPT ![p] = "fill"]
  /\ UNCHANGED <<disk, lock, op, mem, result, faults, meta, events>>

FillTmp(p) ==
  /\ pc[p] = "fill"
  /\ tmp' = mem
  /\ pc' = [pc EXCEPT ![p] = "commit"]
  /\ UNCHANGED <<disk, lock, op, mem, result, faults, meta, events>>

NextAfterCommit(kind) == IF kind = "create" THEN Returned[kind] ELSE "meta"

(* The rename, and the unlock after it: nobody reads state.json between.   *)
Commit(p) ==
  /\ pc[p] = "commit"
  /\ disk' = tmp
  /\ tmp' = None
  /\ lock' = None
  /\ mem' = None
  /\ pc' = [pc EXCEPT ![p] = NextAfterCommit(op[p].kind)]
  /\ UNCHANGED <<op, result, faults, meta, events>>

(* Mutant of Leavings: state.json itself is truncated and rewritten.       *)
LeavingsInPlace(ps) ==
  /\ UNCHANGED <<tmp, meta, events>>
  /\ disk' = IF \E p \in ps : pc[p] \in {"fill", "commit"}
             THEN EmptyState ELSE disk

(* What a process stopped in the middle leaves behind: its temporary file, *)
(* whose content nobody reads any more, and a meta.json cut short, unless  *)
(* it had not written yet and another call has.                            *)
Leavings(ps) ==
  /\ tmp' = IF \E p \in ps : pc[p] \in {"fill", "commit"} THEN Torn ELSE tmp
  /\ LET filling == {p \in ps : pc[p] = "metafill"} IN
     \/ (\A p \in filling : meta[Dir(p)] # Begun(p)) /\ UNCHANGED meta
     \/ \E p \in filling : meta' = Put(meta, Dir(p), Torn)
  /\ UNCHANGED <<disk, events>>

(* A system call fails, or the client is killed: the rest of the call is   *)
(* not made.  A client may also stop between create_session and the spawn. *)
Abandon(p) ==
  /\ faults < MaxFaults /\ faults' = faults + 1
  /\ pc[p] \in Calling \cup {"spawn"}
  /\ Leave({p}, Errored[op[p].kind])
  /\ Leavings({p})

Step(p) ==
  \/ ApplyCreate(p) \/ ApplyRename(p) \/ ApplyStatus(p) \/ Reject(p)
  \/ TruncateMeta(p) \/ FillMeta(p) \/ AppendEvent(p)
  \/ TruncateTmp(p) \/ FillTmp(p) \/ Commit(p)

-----------------------------------------------------------------------------
(* The clients.                                                            *)

BeginCreate(c) ==
  /\ pc[c] = "idle"
  /\ \E name \in ExplicitName \cup {None} : Begin(c, "create", None, name)

(* The target is resolved to its session under the lock; a target that     *)
(* resolves to none is refused as a dead session is.                       *)
BeginRename(c) ==
  /\ pc[c] = "idle"
  /\ \E h \in Hash, name \in ExplicitName :
        /\ Known(disk.sessions, h)
        /\ Len(EventsOf(<<disk.sessions[h].started, h>>)) < MaxEvents
        /\ Begin(c, "rename", h, name)

(* Mutant of Spawn: the wait thread runs before the live event is written. *)
SpawnWithWaitThread(c) ==
  /\ pc[c] = "spawn"
  /\ pc' = [pc EXCEPT ![c] = "idle", ![Main(op[c].hash)] = "boot",
                      ![Wait(op[c].hash)] = "child"]
  /\ op' = [op EXCEPT ![c] = NoCall]
  /\ result' = [result EXCEPT ![c] = None]
  /\ UNCHANGED <<disk, tmp, lock, mem, faults, meta, events>>

(* spawn_daemon starts the service process of the new session.             *)
Spawn(c) ==
  /\ pc[c] = "spawn"
  /\ pc' = [pc EXCEPT ![c] = "idle", ![Main(op[c].hash)] = "boot"]
  /\ op' = [op EXCEPT ![c] = NoCall]
  /\ result' = [result EXCEPT ![c] = None]
  /\ UNCHANGED <<disk, tmp, lock, mem, faults, meta, events>>

-----------------------------------------------------------------------------
(* The service of session h.                                               *)

MarkLive(h) == pc[Main(h)] = "boot" /\ Begin(Main(h), "live", h, None)

(* run_server returns an error before, in or after mark_live, with or      *)
(* without waiting for its threads, and serve calls mark_failed.           *)
MarkFailed(h) ==
  /\ pc[Main(h)] \in {"boot", "failing", "serve"}
  /\ Begin(Main(h), "failed", h, None)

MarkExited(h) == pc[Wait(h)] = "child" /\ Begin(Wait(h), "exited", h, None)

(* run_server joins the wait thread and returns Ok.                        *)
ReturnOk(h) ==
  /\ pc[Main(h)] = "serve" /\ pc[Wait(h)] = "joined"
  /\ pc' = [pc EXCEPT ![Main(h)] = "exit"]
  /\ UNCHANGED <<disk, tmp, lock, op, mem, result, faults, meta, events>>

(* The end of the process ends its threads, wherever they are.             *)
StopService(h) ==
  /\ Leave({Main(h), Wait(h)}, "gone")
  /\ Leavings({Main(h), Wait(h)})

ExitService(h) ==
  /\ pc[Main(h)] = "exit"
  /\ StopService(h)
  /\ UNCHANGED faults

CrashService(h) ==
  /\ faults < MaxFaults /\ faults' = faults + 1
  /\ pc[Main(h)] \notin {"off", "exit", "gone"}
  /\ StopService(h)

Next ==
  \/ \E p \in Proc : Step(p) \/ Abandon(p)
  \/ \E c \in Client : BeginCreate(c) \/ BeginRename(c) \/ Spawn(c)
  \/ \E h \in Hash : \/ MarkLive(h) \/ MarkFailed(h) \/ MarkExited(h)
                     \/ ReturnOk(h) \/ ExitService(h) \/ CrashService(h)

Spec == Init /\ [][Next]_vars

(* A process whose next step is its own to take takes it, or is stopped.   *)
FairSpec == Spec /\ \A p \in Proc : WF_vars(Step(p))

-----------------------------------------------------------------------------
Events == [kind : {EventName[k] : k \in Kind}, name : Name \cup {None}]

Dirs == Name \X Hash

(* What a meta.json holds that is not a whole record.                      *)
Unfinished == {Torn} \cup {Begun(p) : p \in Proc}

TypeOK ==
  /\ disk \in StateFile
  /\ tmp \in StateFile \cup {None, Torn}
  /\ lock \in Proc \cup {None}
  /\ pc \in [Proc -> Resting \cup Calling]
  /\ op \in [Proc -> Call \cup {NoCall}]
  /\ mem \in StateFile \cup {None}
  /\ result \in [Proc -> SessionRecord \cup {None}]
  /\ faults \in Nat
  /\ DOMAIN meta \subseteq Dirs
  /\ \A dir \in DOMAIN meta : meta[dir] \in SessionRecord \cup Unfinished
  /\ DOMAIN events \subseteq Dirs
  /\ \A dir \in DOMAIN events : events[dir] \in Seq(Events)

DirOf(h) == <<disk.sessions[h].started, h>>

Happened(h) == {EventsOf(DirOf(h))[i].kind : i \in DOMAIN EventsOf(DirOf(h))}

(* A session anyone can see in state.json has its log directory, with a    *)
(* meta.json that was written at least once and a history that starts with *)
(* its creation, wherever its creator stopped.                             *)
CommittedIsDocumented ==
  \A h \in Hash : Known(disk.sessions, h) =>
     /\ DirOf(h) \in DOMAIN meta
     /\ EventsOf(DirOf(h)) # << >>
     /\ EventsOf(DirOf(h))[1].kind = "created"

(* The history never runs ahead of state.json: a live event means that the *)
(* session has been live, an exited or failed event that it is dead.  (The *)
(* other direction does not hold: state.json is written first.)            *)
EventsFollowStatus ==
  \A h \in Hash : Known(disk.sessions, h) =>
     /\ "live" \in Happened(h) => disk.sessions[h].status # "Starting"
     /\ Happened(h) \cap {"exited", "failed"} # {} => Dead(disk.sessions, h)

(* A history has each of live, exited and failed at most once, and exited  *)
(* only after live, however the threads of the service interleave.         *)
HistoryInOrder ==
  \A dir \in DOMAIN events : \A i, j \in DOMAIN events[dir] :
     LET k(n) == events[dir][n].kind IN
     /\ k(i) = k(j) /\ k(i) \in {"live", "exited", "failed"} => i = j
     /\ k(i) = "exited" => \E n \in 1 .. i : k(n) = "live"

(* Session h has come as far as status s.                                  *)
Reached(h, s) ==
  /\ s = "Live" => Known(disk.sessions, h) /\ disk.sessions[h].status # "Starting"
  /\ s \in DeadStatus => Dead(disk.sessions, h)

(* meta.json may stay behind state.json (MetaMatchesState below) but is    *)
(* never ahead of it: one that is whole says live only of a session that   *)
(* has left Starting, and exited or failed only of one that is dead,       *)
(* although it is written without the lock, by several calls at once.      *)
MetaNeverAhead ==
  \A dir \in DOMAIN meta :
     meta[dir] \notin Unfinished => Reached(dir[2], meta[dir].status)

Registry == INSTANCE SessionRegistry
              WITH sessions <- disk.sessions, next <- disk.next

(* Seen through state.json, every call is atomic: the store implements the *)
(* registry, whatever is interleaved and whoever stops where.              *)
ImplementsRegistry == Registry!Spec

(* The lock is always given back: by the call that took it, by its error   *)
(* path, or by the end of its process.                                     *)
LockIsReleased == \A p \in Proc : lock = p ~> lock # p

-----------------------------------------------------------------------------
(* What the documentation says and the code does not do.                   *)

(* docs/test-plan.md: live-name collisions are rejected.                   *)
UniqueLiveNames ==
  \A g, h \in Hash :
     /\ g # h /\ Live(disk.sessions, g) /\ Live(disk.sessions, h)
     => disk.sessions[g].current # disk.sessions[h].current

(* docs/spec.md: meta.json records the status and the current name.  When  *)
(* nobody is in a call, a meta.json that is whole agrees with state.json.  *)
MetaMatchesState ==
  (\A p \in Proc : pc[p] \notin Calling) =>
     \A h \in Hash :
        /\ Known(disk.sessions, h)
        /\ meta[DirOf(h)] \notin Unfinished
        => meta[DirOf(h)] = disk.sessions[h]
=============================================================================
