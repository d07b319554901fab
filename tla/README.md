# Verification of tmuy

tmuy runs shell sessions that outlive the terminal they were started from. A session is a
pseudo-terminal with a child process, served by a process of its own; any number of clients list,
attach, follow, rename and signal sessions through files under `~/.tmuy` and a socket per session.
There is no central daemon: the processes meet in `state.json` and its lock.

This directory holds TLA+ models of that system, the TLC configurations that check them, and proofs
that TLAPS checks. Paths are relative to the repository; `store.rs` and so on are in `src/`.

    tlc -config Store.cfg Store            # one run; PROJECT.json lists them all
    tlapm StoreProofs.tla                  # one module's proofs

## The system

| Part | Code | State it keeps | Operations |
|---|---|---|---|
| session store | `store.rs`, `model.rs` | `state.json` (sessions, `next_numeric_name`), `state.lock`, per session a directory with `meta.json`, `events.jsonl`, `pty.log` | `create_session`, `mark_live`, `mark_exited`, `mark_failed`, `rename_session`, `append_event`, resolution and listing |
| session service | `runtime/server.rs` `run_server` | the terminal, the child, the socket `live/<hash>.sock`, flag `running`, channel `fatal`, three threads | start, read output, wait for the child, accept clients, end |
| output broadcast and attach handler | `runtime/server.rs` `OutputState`, `broadcast`, `handle_attach_client` | replay history, registered clients, one channel and two threads per client | record, send, register, replay, leave |
| startup | `runtime/daemon.rs`, `cli.rs` `Commands::Serve` | deadlines of the waiting client | fork the service, poll until ready, record a failed start |
| followers | `runtime/client.rs` `tail`, `events`; `rpc.rs` subscriptions | position in a file | read, ask for the status, measure, end |
| attached client | `runtime/client.rs` `attach`, `runtime/protocol.rs`, `runtime/ui.rs` | the user's terminal, the bytes held back, one socket, two threads | set up, show, pass on what is typed, detach, put back |
| other clients | `runtime/client.rs` | none | send, signal, wait |
| input side of the service | `runtime/server.rs` accepting loop, `handle_client`, `handle_attach_client` | the listener's backlog, a thread per connection, the terminal's writer | input, resize, signal, relay |
| RPC server | `rpc.rs` | a socket | requests that call the store and the clients |
| command line | `cli.rs` | none | one function per command |
| sandbox | `store.rs` `parse_sandbox`, `sandbox.rs` | none | from flags to the mounts of `bwrap` |
| entry points, scripts | `main.rs`, `lib.rs`, `scripts/` | none | build and install |

How they interact. `new` creates the session in the store, forks the service and polls the store until
the service has marked the session live or failed. The service calls the store from two threads: main
(`mark_live`, `mark_failed`) and the one that waits for the child (`mark_exited`). Clients that attach
connect to the socket; clients that follow read only the files and the store. Every write of
`state.json` goes through `with_locked_state`: exclusive `flock`, read, closure, write of
`state.json.tmp`, rename, unlock. `meta.json` is truncated and rewritten in place, and an event
appended, inside the lock by `create_session` and after it by every other call.

What is hard to get right, and what makes each part correct:

* **Store.** Many processes, each of which may stop anywhere. Every call must be atomic as seen through
  `state.json`; a listed session must have its directory and history; the history must not run ahead of
  the status; no error path may keep the lock; explicit names must not clash; nothing brings a dead
  session back.
* **Service.** Two threads report their end or their error to a third, through a flag and a channel
  that it reads one after the other. Returning Ok must mean that everything is over and logged, an error
  must be recorded, a correct session must never be recorded as failed, a live session must have its
  socket, and the process must end.
* **Broadcast.** A client receives the replayed history through one thread and the live output through
  another; the broadcast takes the list of clients under a mutex and sends after releasing it. No chunk
  may be lost, repeated or reordered at the seam, and no handler may wait for ever for its writer.
* **Input.** Every connection has a thread of its own, and a write to the terminal may block for ever,
  with the writer locked. Texts must not mix, other requests must not wait, and what was sent
  must arrive. Connections are accepted only while the loop runs, but made as long as the listener is
  there.
* **Attached client.** Two threads share a socket that either may find full, closed or shut down. What
  is typed must be passed on although parts of it look like the detach sequence, that sequence must
  work even if the service reads nothing, and the terminal must be put back from wherever it was.
* **Startup and followers.** Both look at several things, each at a moment of its own, and conclude
  from the combination. The conclusion must be true, and must come.
* **Commands.** Most of them look the registry up more than once, and others change it in between.
* **Sandbox.** Mounts hide each other, so that their order decides what a command may write.

`PROJECT.json` lists the hazards line by line under `hazards`, with the properties that cover them.

## The modules

| Module | Models | Checked by | Proved in |
|---|---|---|---|
| `Sessions` | records, statuses, the content of `state.json` | (vocabulary) | |
| `SessionRegistry` | what the store promises: each operation one step | `commands` | `SessionRegistryProofs` |
| `Resolve` | which session a target names, over the states of `SessionRegistry` | `commands` | `CommandsProofs` |
| `Commands` | a command or request of several looks at the registry; extends `Resolve` | `commands` | `CommandsProofs` |
| `Sandbox` | from the flags of `new` to what the command may see and write | `commands` | `CommandsProofs` |
| `Store` | the store's calls as steps of concurrent processes; implements `SessionRegistry` | `store`, `store_names`, `store_meta` | `StoreProofs` |
| `Lifetime` | what a service promises those who connect to it | (through `Service`, `Input`) | |
| `Service` | one service process, its threads, its child; implements `Lifetime` | `service` | `ServiceProofs` |
| `Input` | connections and their handlers, on top of `Lifetime` | `input` | `InputProofs` |
| `Attach` | one attached client, its two threads and its terminal | `attach` | `AttachProofs` |
| `Broadcast` | history, registration, channels, writer threads | `broadcast`, `broadcast_end` | `BroadcastProofs` |
| `Startup` | extends `Service` by the client that started it | `observers` | `ObserverProofs` |
| `Follow` | extends `Service` by a client that follows a file | `observers`, `follow_drained`, `follow_failed_start` | `ObserverProofs` |

How they compose. Two pairs are a promise and its implementation: `Store` implements
`SessionRegistry`, so that `Commands` and `Resolve` are built on the registry; `Service` implements
`Lifetime`, so that `Input` is built on `Lifetime`, and need not carry the threads of the service
along. `Startup` and `Follow` need the threads, and extend `Service` itself; `MCObservers` joins the two,
with one observer at a time, which is enough because an observer changes nothing. `Attach` is one end
of a connection of which `Input` (what is typed) and `Broadcast` (what is shown) are the other.

`MCCommands` gives the texts that targets are compared with, and the flags and directories of the
sandbox, one request for a sandbox at a time; `MCInput` the clients and which of them
come to one session, `MCAttach` the detach sequence and the sizes of the terminal. The other
configurations instantiate the modules directly. A definition whose comment starts with "Mutant of"
is not part of a model: it is a plausible mistake in the definition below it, and replacing that
definition by it makes TLC find the property it is paired with in `PROJECT.json` violated. That is how
each property was shown to depend on the code. The table from definitions to source lines is
`map` in `PROJECT.json`.

### Data

A session record keeps its status, its started and current name and how the name was chosen. The last
is not stored by the program; it only lets properties speak of numbered sessions. Paths, times, the
command and the environment are left out. A name is a word or a numeral; the numeral for `n` is `n`
itself, so that an explicit name "1" and the generated name 1 are the same name, as in the program.
`sessions` is a map from hashes where the program keeps a vector: hashes are unique in it, and its order
decides only which of several live sessions of one name is found. A fresh hash is drawn from those
not in use.

### Resolve

A target is compared with hashes and names as texts. What of a text matters is which text begins which,
so `ProperPrefix` is a constant. Resolution changes nothing: it is an operator over a state of the
registry, and the invariants quantify over every target and scope in every reachable state. Each of
`resolve_hash_matches` and `resolve_name_matches` returns an error, nothing or a session; this is a set of
the results it may have, empty for an error. It has more than one member only where the vector's
order picks among live sessions of one name. `Meant` is the reference: everything a caller may mean.

### Store

`pc[p]` is where process `p` is between two system calls and `op[p]` the call it is making. A call runs

    Begin -> Apply... -> [create: TruncateMeta -> FillMeta -> AppendEvent ->]
          -> TruncateTmp -> FillTmp -> Commit -> [others: TruncateMeta -> FillMeta -> AppendEvent]

| Action | Code |
|---|---|
| `Begin` | `lock_exclusive`, `read_state_file` |
| `ApplyCreate`, `ApplyRename`, `ApplyStatus`, `Reject` | the closures, their errors |
| `TruncateTmp`, `FillTmp`, `Commit` | `write_state_file`: truncate, write, rename; the unlock |
| `TruncateMeta`, `FillMeta`, `AppendEvent` | `write_meta`, `append_event` |
| `BeginCreate`, `BeginRename`, `Spawn` | a client, or a thread of the RPC server |
| `MarkLive`, `MarkFailed`, `MarkExited`, `ReturnOk`, `ExitService` | the two threads of a service |
| `Abandon`, `CrashService` | a system call fails or a process is killed, at any step |

`Begin` is one step because a process that waits for the lock has done nothing that anybody can see,
and nobody writes the file while the lock is held. `Commit` joins the rename to the unlock: readers take
the shared lock, so nobody can look between them. `write_meta` truncates the file and
writes the record in many pieces. After the unlock two calls on one session may be at it together: the
later to finish then leaves its own record or a splice of the two, which is `Torn` (`FillMeta`). Between
the steps the content is `Begun(p)`: `p` has truncated the file, and nobody else has since. What a stopped
process leaves behind (`Leavings`) is its temporary file, which nobody reads, and a torn `meta.json`,
unless another call has written that in the meantime and it had not begun to. The power failing under unsynced writes
is not modelled: the code never calls `fsync` and promises nothing.

The main thread of a service calls `mark_failed` from any state of `run_server` here; `Service` models
when it really does. The signal event, which only grows a history, is left out.

### Service, Startup, Follow

`Service` treats a call of the store as one step, which `Store` justifies, but keeps the event that
follows a status change apart from it. `main`, `reader` and `waiter` are the program counters of the
three threads; `running` and `fatal` are the flag and the channel they share. Output is counted in
chunks: `produced = logged + batch + pty` at all times. The child and the processes it leaves behind
(`holders`) are outside the program: they write, close the terminal and exit whenever they like, or
never. Every system call of the service may fail (`MainFails`, `ReaderFails`, `WaiterFails`), and the
process may be killed. A call of somebody else may fail too (`FaultElsewhere`), which changes nothing of the
service: so fail the observers' own calls (`TryWaitFails`, `CreatorFails`, `FollowerFails`).

`Startup` adds the loop of `spawn_daemon`: look at the status, `try_wait`, sleep; after the end of the
process a second of grace, after the timeout a last quarter of a second. Time is the flag `late` of the
present loop. `Follow` adds the loop of `tail -f` and `events --follow`, which `rpc.rs` repeats for its
subscriptions. `misread` and `atDeath` are history variables: no step depends on them.

### Lifetime, Input

`Lifetime` has five variables: the stage (starting, serving, stopping, gone), the status, the socket, the
child and whether anybody has the terminal open. The mapping from `Service` is in `Stage` and
`Abstract`. It says, among other things, that a session becomes live only with its socket bound, that the
socket goes only from a dead session, that Exited comes only after the child has exited, and
that the loop accepts nobody before the threads run; and, as liveness, `LeavesItsStages`.

`Input` adds the connections. `Connect` puts a connection into the listener's backlog, which exists from
`bind` to the end of the process: also before the session is live, since a client may resolve a session
that is Starting, and whether or not the loop still accepts. `ConnectFails` is for everything else, above
all a killed service, and a session whose socket is bound and not listened to yet. A client may be
killed before it has said its mode. `Accept` gives a connection a thread, which
reads the mode and then, by mode, resizes at once, collects a whole text or signal to the end of the stream and only
then acts on it (`Collected`), or relays what an attached client types in buffers. Texts are parts; a write of a part to the terminal waits
until the terminal takes it (`WritePart`), with the writer locked, and fails when the terminal is closed.
A socket holds `SocketRoom` unread parts. The process returns without waiting for handlers.
`Groups` are the sets of clients that may come to one session. A connection is `LeftAlone` when the process is
gone, or when the loop has stopped before accepting it: a child that has closed its terminal and runs
on ends the loop, and whoever connects then waits in the backlog until the child exits.

### Attach

`main` runs through the stages of `attach`: connect and handshake, parse the detach key, raw mode, alternate screen,
scrolling region, then the loop that shows output; then the guards in the reverse order, which an error or a
panic reaches from the stage where it happened. `terminal` is the set of modes the user's
terminal is in. A write to it may fail (`broken`), and from then on taking a mode back may have no
effect, except for raw mode, which is not written but set. The input thread holds back
`pending`, a beginning of the detach sequence; a byte that breaks the match passes all of it on, byte by
byte where the code has one `write_all`. The size of the terminal is read for the handshake and again
for the bar, each time with a fallback of its own: the handshake takes at least one row (`UsableRows`), the
bar takes a terminal without rows, or without columns, for one of 24 rows (`BarRow`). So `BarIsFree` has two exceptions:
on a terminal of one row there is no room for both, and on one of more than 24 rows and no columns the program
is given the bar's row. Three restrictions keep states out that differ in nothing: keys are typed
while the input thread lives, the service stops with the client, and the size changes once, since only its
values at the two looks matter.

### Commands, Sandbox

One command runs while the registry takes its steps, which stand for every other process. `new` creates,
waits (`SpawnAnswers` allows whatever `Startup` does), reads its own record, and attaches by the name in it,
which is a second look-up; `attach` looks its target up for the detach key and again for the socket; `wait`
polls; `send` (and the RPC `write`), `signal` (and `kill`) and `inspect` look
up once and act on what they found. `rename` is a step of the registry. Whatever the record says, a connection may
fail, since the service may have been killed or have ended since the look (`Connect`, `Send`), a signal may find no
process (`Signal`), and `Connect` and `Send` may be blocked for ever, as `Input` models. So the properties say which
session a command looks up, and that it comes as far as the connection; the rest depends on the service.

`ParseSandbox` and `BuildCommand` are translated as functions from the flags to a list of mounts. `View`, what
a path shows under a list of mounts, is what `bwrap` does with it, and is the only part of that module
that is not this program's. Paths are sequences of components; ".." stays in them, as in the program. `Requests` and
`Paths` are what `new` is given and where its command may look; nothing changes, and `request` is one of them.

### Broadcast

Chunks are numbered. `stream[c]` is the copy of the history that client `c` was registered with,
followed by what was sent to its channel; `written[c]` says how much of it has reached the socket.
`MAX_HISTORY_BYTES` is a number of chunks; the program counts bytes and may cut a chunk, which the
properties do not tell apart. A handler that returns with its client still registered (a failed replay,
a failed write to the terminal) is modelled as the code has it.

## The runs

| Run | Bounds | What it shows |
|---|---|---|
| `commands` | 2 sessions; names: a word, a numeral, the text of a hash; lists of up to two grants | Names clash only through numbering, records only move forward. Resolution never guesses, a hash leads to its session or to none. What `new`, `attach` and `wait` answer is true and comes. A command sees and writes what was granted. |
| `store` | 2 clients, 1 session, 2 faults, renames of a session with one event | Every call is atomic through `state.json`; what is listed is documented; histories are in order and not ahead of the status, nor is `meta.json`; the lock comes back. |
| `service` | 2 chunks, 2 faults | What is true when the process ends, that it ends, and that it implements `Lifetime`. |
| `observers` | 1 chunk, 2 faults of the service or the observer, one observer | The verdict of `new` is true and comes. A follower has printed what was there when the session died, and ends if there is a file. |
| `broadcast` | 2 clients, 3 chunks, history of 2 | Contiguous streams, nothing withheld, delivery, no handler stuck. |
| `input` | a send of two parts of text, an attachment that types one, a resize, a signal whose name comes after its mode; two of them on a session, or the three that are no send; sockets of three parts | Texts are not mixed up; what was sent arrives; a full terminal delays no resize, signal or attachment. |
| `attach` | detach sequence of 3 keys that repeats its beginning, 4 keys typed, sizes 0x0 and 3x1, a socket of one key | What is typed arrives, the sequence detaches, the terminal is put back, the bar is free. |

Why the bounds are enough. A target is ambiguous with two sessions, and a command that looks twice
can be misled by one other. A lost update, a clash or an order violation in the store needs two calls in
flight, and the lock lets one through at a time: two clients and the two threads of a service give four
processes that compete for the lock and the temporary file. Calls on different sessions meet only
there too. The second fault strikes a store that has survived one; it leaves the same files
behind. In the service two faults suffice for the interplay of a failing thread with a failing record of it. Two
chunks let one be logged while the next is in the terminal; for an observer one is enough, since it
tells only "as long as before" from "longer". In the broadcast three
chunks through a history of two make the history overflow, and a second client makes a broadcast
unfinished for one while it is finished for the other. In the input two texts are enough to mix, and one
that the terminal does not take is enough to hold up the others or not. Which other clients there are
changes nothing of what two of them do to each other: they share only the backlog and the writer. Parts of one text
suffice for a handler that acts on half of it. In `attach` four keys
contain the detach sequence after a false beginning, `b b b d` among them, and a socket of one key fills.
A terminal without rows or columns is where the fallbacks differ; the proof
has them all. Two grants are what it takes to hide one behind the
other. `MaxEvents` limits renames of one session by the length of its history,
`MaxFaults` the faults, `MaxOutput`, `MaxChunks`, `MaxTyped` and `MaxSaid` what is written, typed and
said; each is a guard named where it stands.

Deadlock is not checked where the system may stop: a service ends, clients leave, commands are done and
chunks run out. In the store with its bounds no state is stuck.

### What the code does not do

Five runs end in a violation of something the repository says. Each is a finding in `PROJECT.json`.

| Run | Said | Done |
|---|---|---|
| `store_names` | live-name collisions are rejected | A generated number is not compared with the live names: with a live session explicitly named "1", the first unnamed session is called 1 too. |
| `store_meta` | `meta.json` records the status and the current name | It is written after the unlock. Two calls on one session may write it in the other order, and the older record stays. |
| `follow_drained` | `--follow` streams until events (the log) are drained | The status is committed before the exited event is appended, and before the reader has drained the terminal: the follower may end in between. |
| `follow_failed_start` | subscriptions finish with `done` | A follower ends only if the log exists, and a session that failed early has none: it polls for ever. |
| `broadcast_end` | output is broadcast to all attached clients | The process ends without waiting for the writer threads: what is in their channels is lost. |

What does hold in their place is checked as well: `ClashOnlyByNumbering` beside the first,
`CommittedIsDocumented`, `EventsFollowStatus` and `MetaNeverAhead` beside the second, `DrainedAtDeath` and `FollowEnds`
beside the third and fourth, `NothingIsWithheld` and `Arrives` beside the last.

### Fairness

Weak fairness only, and only of steps that are a thread's own to take.

* `Store`: each process goes on with the call it is in. A call never waits while it holds the lock, and
  a process that is stopped in it takes `Abandon` or `CrashService`. Nothing is assumed about anybody
  getting the lock: `flock` promises no order.
* `Service`: the three threads run when they can. Nothing is assumed of the child or of the terminal, so
  that `ServiceEnds` starts from "the child has exited and nobody has the terminal open".
* `MCObservers`: the observer polls, time passes, and the threads of the service run when they can;
  whatever may fail may fail, so that a service that never becomes ready is among the behaviours.
  Reader, waiter and clock take finitely many steps, and share a condition.
* `Broadcast`: a broadcast under way, a handler and a writer go on; a write to an open socket succeeds
  sooner or later. Clients that stop reading are outside `Arrives` in this sense. New clients, departures
  and the end of the output are never forced.
* `Input`: the service goes live, starts to accept, accepts, and stops as `LeavesItsStages` says, which `Service` is
  shown to do; handlers and clients go on when they can. These steps are finitely many, and share a condition. That
  the terminal takes anything is not assumed, except as the premise of `SentIsDelivered`.
* `Attach`: the main thread and the input thread run when they can. That the service reads is the premise of
  the second half of `DetachEnds`, and of nothing else.
* `Commands`: the command goes on, except where it depends on a service (`Connect`, `Send`). Timeouts and the other
  processes are not forced.

## The proofs

Theorems hold for every value of the constants that satisfies the modules' assumptions:

* `ExplicitNameAssumption`: explicit names are names;
* `ProcAssumption`: clients are not services, and `None` is not a process;
* `MaxHistoryAssumption`: the history keeps at least one chunk, as `MAX_HISTORY_BYTES` does;
* `AttachAssumption`: the detach sequence is a sequence of keys and not empty (`parse_detach_key` refuses
  an empty one), the sizes of a terminal are numbers;
* `InputAssumption`: every client has a mode and writes at least that, and the groups are groups of clients;
* `NoneAssumption`: `None` is not a hash;
* `SandboxAssumption`: ".." names no file, requests are requests, and `Paths` are paths without "..".

TLC evaluates them in the runs above.

**`SessionRegistryProofs`** — `TypeCorrect`, `ClashesAreNumbered`, `MovesForward`, `NumbersGrow`. That two
sessions of one name are one checked and one numbered is not inductive by itself: it has to be known
that every number given so far lies below the counter, which is the strengthening. With it
a new number differs from, and exceeds, every earlier one (`NumbersGrow`, which is proved and not run). The
action properties follow from the same invariant, one lemma for "one record changes" and one for "one record
is new".

**`CommandsProofs`** — `StableHash`, `Unambiguous`: for any hashes, names, targets and prefix relation. The
hash of a session in scope is an exact match, so that only a name that equals it can hide it; and it
then hides it by an error, never by another session. That resolution never guesses rests on the registry's
invariant: of several sessions of a name the live one is taken, and it is the only live one unless
a numbered session clashes with a checked one.

`TrueAnswers`, `HashLeads`, `FindsItsOwn`: for any number of other processes doing whatever the registry allows
between the looks of a command. `RegistryHolds` says that a command takes no step that is not one of the
registry or none, so that the registry's invariant and its action properties are there to be used: a
session, once known, dead or out of Starting, stays so (`StartedStays`). What is added is
`CommandInv`: at each place of each command, that what it saw was of that kind when it saw it (`PlaceInv`), and that
its answer rests on nothing else (`AnswerInv`).

`Granted`: for any flags, directories and paths. It has three parts. `ParsedGrants` and `OfModeIs` say which grants
there are, and that taking those of a mode loses and adds none; `MountsAre` puts every grant for reading before
every grant for writing, after the system's; `ViewIs` says that the last mount above a path decides. Whatever is
granted for writing is then last, and what is granted for reading can be hidden only by that. `OfMode` and
`Real` are recursive functions over a sequence. The library's induction theorems have an operator as a parameter
and cannot be used here; the induction is done on the set of the places where the claim fails, which has no
least member (`UpTo`), and `Recursion` says from it that such a function exists and is what its definition says.

**`StoreProofs`** — `TypeCorrect` and `Implements`: for any number of clients, sessions and faults, `Store`
implements `SessionRegistry` under the mapping of `sessions` and `next` to the content of `state.json`.
So what is proved of the registry holds of `state.json` as the processes change it. The invariant says

* who holds the lock: exactly the process that is between `Begin` and `Commit` (`LockInv`);
* what the holder has in memory: `state.json` itself before its closure, and afterwards `state.json` as
  one step of the registry leaves it (`MemInv`, `Changed`); at the rename the temporary file is that;
* which calls a process makes (`RoleInv`) and that they are well formed (`CallInv`);
* that a service exists only for a session in `state.json`, that its wait thread starts after the live
  event, and that until `mark_live` nobody changes the status (`ServiceInv`); and that a session about to
  get its service has one creator and no service yet (`SpawnInv`).

`Documented`, `StatusFirst` and `InOrder`: a listed session has its directory, its metadata and its history; the
history says live, exited and failed at most once each, and exited only after live; and it never runs ahead of the status. `HistoryInv` says

* `DirsInv`: every history starts with created and is in order, and only a session in `state.json` has more
  than that: a call stopped before its commit leaves a directory, but nobody finds it;
* `StoryInv`: what the places of the service's two threads say of what has been written: live is written by
  `mark_live` alone, before the wait thread starts, and exited and failed end the threads that write them;
* `WriterInv`: a call past its closure writes to the directory of its own session, which is there.

Only `AppendEvent` and `Commit` change what these say of the files; that every other step leaves it as it is
(`QuietMoves`) is proved once.

`StateKeepsPromises` carries the theorems of `SessionRegistryProofs` through the refinement: `state.json` itself, however
many calls are interleaved or cut short, forgets and revives no session, gives no number twice, and has two
live sessions of a name only by numbering.

`MetaBehind` (`MetaNeverAhead`) is what is true of `meta.json`, since `MetaMatchesState` is not. It is written after the unlock, so that an
older record may overwrite a newer one, two may be spliced, or the newer is never written; but one that is whole never says more than
`state.json`: live only of a session that has left Starting, exited or failed only of a dead one. `MetaInv` says that the
record a call carries to `write_meta` is the one it is about to commit, or one that `state.json` has had
(`RecordInv`), and what has been reached is not undone (`ReachedStays`, from `CommitForward`).

`UpdatesAreLegal` and `HoldersAdvance` are what `LockIsReleased` needs besides fairness. `update_session` fails for a session
that is not there and overwrites whatever status it finds; it is proved that the session is there, Starting for
`mark_live` and no longer Starting for `mark_exited`, so that the holder of the lock is never stuck in its closure. And
no step of anybody takes it back: it unlocks after at most seven steps of its own.

`ServiceInv` and `SpawnInv` are what makes `mark_live` a legal step of the registry. `Moves` is the frame lemma: processes that move without touching `state.json`
preserve the invariant if they preserve their own part of it. `Commit` is the one step that changes
`state.json` and has a proof of its own. The faults need no case by case argument: a process that stops
leaves the lock, and with it the part of the invariant that speaks of its memory.

**`ServiceProofs`** — `TypeCorrect`, `SocketOfLive`, `Complete`, `Accounted`, `Truthful`, `Implements`: for any
amount of output and any number of failing calls. Four invariants rest on each other:

* `ThreadsInv`: where the three threads are in relation to each other, above all which of them main has
  joined;
* `TerminalInv`: what each place says of the child, of those who have the terminal open, and of what the reader
  holds. Every chunk produced is then in the terminal, in the reader's buffer or in the log, so that
  Ok, which needs the first two empty, means that the log is complete;
* `SessionInv`: what each place says of the status, the history and the socket. `SocketOfLive` (a live
  session has its socket) is a part of it, proved and not run;
* `FaultInv`: whoever reports, records or returns an error has met one, and an error that is returned without
  being recorded has met a second. `Accounted` and `Truthful` are its two directions.

`Implements` maps every step to a step of `Lifetime` or to none, from the same invariants. The liveness part of
`ImplementsLifetime` (`LeavesItsStages`) stays with TLC.

**`ObserverProofs`** — `ExitedIsTrue`, `ReadyIsTrue`, `Drained`. An observer combines looks at different
moments. What it saw may have changed, except for what never goes back, which `Forward` collects: a session
that has left Starting, a dead session, an ended process, a started child. The invariants `CreatorInv` and
`FollowerInv` say that whatever an observer relies on is of that kind. For the creator, the last look comes
after the process has ended; for the follower, the length of the file at death is a bound of its
position only from the measurement on.

**`InputProofs`** — `Whole`: for any number of clients and texts of any length. Parts from the second to the
last that a handler is done with are on the terminal and in order (`GivenInv`); a handler that writes has
the writer (`WriterInv`), so that no other adds to the terminal meanwhile; and a send has put nothing there before
it writes, and nobody else anything after its first part until it is done (`SendInv`). The last is what makes
a send come in one piece although its parts are taken one by one. `BacklogInv` keeps a connection from
getting two threads.

**`AttachProofs`** — `TypeCorrect`, `PassedOn`, `Restored`, `FreeBar`. The threads share nothing but the socket,
hence two invariants. `InputInv`: what is held back and what is being passed on make up, with what
is passed on already, what was typed. `ScreenInv`: which modes of the terminal are changed at each stage,
and that the two sides were told the heights of one size of the terminal as long as it did not change; `RowsFit` is the
arithmetic of their fallbacks.

**`BroadcastProofs`** — `TypeCorrect`, `Contiguity`, `Completeness`. The invariant ties the end of each
registered client's stream, and the end of the history, to the number of the last recorded chunk, less
one for the clients the broadcast has not reached; appending the chunk then continues the stream.

Model-checked only is liveness, which is out of the prover's reach, as is ENABLED: `LockIsReleased`, `ServiceEnds`,
`LeavesItsStages` in `ImplementsLifetime`, `CreatorAnswered`, `FollowEnds`, `Arrives`, `LeavingEnds`,
`ServedThoughTerminalFull`, `SentIsDelivered`, `DetachEnds`, `CommandsEnd`. Every invariant and every
other action property of the passing runs is stated by a theorem.

## Not modelled

* The framing of RPC requests (one line of JSON, its limits and errors), the format of answers and listings, and
  a second RPC server that takes the socket of the first over. A request is modelled as the command it calls.
* `signal_session` beyond its look at the registry: process numbers and their reuse, the effect of a signal,
  and the signal event, which only grows a history.
* The loop that draws a new hash until it is unused: a fresh hash is drawn in one step.
* The text of the status bar, except that making it may panic.
* The rest of the command line of `bwrap`, which is constant, and the search for its executable.
* A machine that loses power: nothing is ever synced, and nothing is promised. Times, the content of event details,
  file permissions, and a full disk beyond "the call fails".
* The entry points, the build and the scripts.

Some hazards in `PROJECT.json` have no property, because nothing says what should be true of them: a killed
service leaves its session Live; a channel of a client that does not read has no bound; `new` may report a
timeout for a session that becomes live later; a failing `write_meta` reports an error for a change that is in
force; a read error of the standard input leaves an attachment without a keyboard; the detach keys are not read while the input
thread is stuck in `write_all`; and a child that has closed its terminal and runs on leaves its session Live and
listening, with nobody to serve it. In each case both outcomes
are behaviours of the models. The reuse of process numbers is not in any of them.

## Plan

Done, in this order: `Sessions`, `SessionRegistry` and its proofs; `Store` and the proof that it implements
the registry; `Service`, `Follow`, `Startup`; `Broadcast` and its proofs; `Resolve` and its proofs; `Lifetime`
and its implementation by `Service`; `Input`; `Attach` and its proofs; `Commands`; `Sandbox`; faults in
`Store`; the proofs of `Service`, its observers and `Input`, and of the histories of `Store`; the proofs of `Commands` and
`Sandbox`; what is true of `meta.json`, and of the holder of the lock.

Left, most important first:

1. For the other liveness properties, what `HoldersAdvance` is for `LockIsReleased`: a measure that no step takes back
   and every step of its own brings down (the threads of `Service` once the child has exited, `Attach` once
   detaching, a handler of `Input`).
2. `Rpc`: a second server on the socket of the first.
3. An instance of `Store` with two sessions and their services, if it can be made small enough to run.
