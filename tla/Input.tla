------------------------------- MODULE Input --------------------------------
(***************************************************************************)
(* The clients of a service: how they connect, and what the thread that    *)
(* handles each of them does with the terminal (src/runtime/server.rs:     *)
(* the accepting loop, handle_client, the input side of                    *)
(* handle_attach_client; src/runtime/client.rs: send_input).               *)
(*                                                                         *)
(* A client writes parts: the first is its mode byte, with the size of its *)
(* window where there is one; the others are text for the terminal.  A     *)
(* socket holds a limited number of parts that nobody has read, and a      *)
(* write to it waits for room.  So does a write to the terminal, for as    *)
(* long as the child does not read what is there: it may wait for ever.    *)
(***************************************************************************)
EXTENDS Lifetime, Naturals, Sequences

CONSTANTS
  Client,     \* the connections
  Groups,     \* the sets of clients that may come to one session
  Mode,       \* [Client -> "input", "attach", "resize", "signal"]
  Parts,      \* [Client -> how many parts it writes], at least 1, the mode
  SocketRoom  \* how many unread parts a socket holds

ASSUME InputAssumption ==
  /\ Groups \subseteq SUBSET Client
  /\ Mode \in [Client -> {"input", "attach", "resize", "signal"}]
  /\ Parts \in [Client -> Nat \ {0}]
  /\ "free" \notin Client    \* the writer of nobody

VARIABLES
  client,     \* [Client -> idle, open, sent, left, failed]
  wrote,      \* [Client -> the number of parts written to the socket]
  got,        \* [Client -> the number of them its handler has read]
  given,      \* [Client -> the number of them done with]
  backlog,    \* the connections the service has not accepted
  handler,    \* [Client -> none, mode, collect, relay, lock, write, done]
  writer,     \* the client whose handler has the terminal's writer, if any
  input       \* the parts the terminal has taken, <<client, part>>

clientVars == <<client, wrote, backlog>>

handlerVars == <<got, given, handler, writer, input>>

inputVars == <<lifetime, clientVars, handlerVars>>

Free == "free"

InputInit ==
  /\ LifetimeInit
  /\ \E group \in Groups :
       client = [c \in Client |-> IF c \in group THEN "idle" ELSE "failed"]
  /\ wrote = [c \in Client |-> 0]
  /\ got = [c \in Client |-> 0]
  /\ given = [c \in Client |-> 0]
  /\ backlog = << >>
  /\ handler = [c \in Client |-> "none"]
  /\ writer = Free /\ input = << >>

Alive == stage # "gone"

Move(c, from, to) == handler[c] = from /\ handler' = [handler EXCEPT ![c] = to]

-----------------------------------------------------------------------------
(* The clients.                                                            *)

(* An input, resize or signal client closes after its last part.           *)
Having(c, n) == IF n = Parts[c] /\ Mode[c] # "attach" THEN "sent" ELSE "open"

(* A client that has found the session, starting or live or not dead yet,  *)
(* connects and says its mode, if it is not killed first.  The listener is *)
(* there from bind to the end of the process, whether or not anybody       *)
(* accepts, yet or still.                                                  *)
Connect(c) ==
  /\ client[c] = "idle"
  /\ socket /\ Alive
  /\ backlog' = Append(backlog, c)
  /\ \/ /\ client' = [client EXCEPT ![c] = Having(c, 1)]
        /\ wrote' = [wrote EXCEPT ![c] = 1]
     \/ /\ client' = [client EXCEPT ![c] = "left"]
        /\ UNCHANGED wrote
  /\ UNCHANGED <<lifetime, handlerVars>>

(* There is no socket, or nobody listens: the process is gone, or has made *)
(* the socket and does not listen to it yet.                               *)
ConnectFails(c) ==
  /\ client[c] = "idle"
  /\ ~ (socket /\ Alive) \/ status = "Starting"
  /\ client' = [client EXCEPT ![c] = "failed"]
  /\ UNCHANGED <<lifetime, wrote, backlog, handlerVars>>

(* A write waits for room, and fails once the other end is closed.         *)
ClientWrite(c) ==
  /\ client[c] = "open" /\ wrote[c] < Parts[c]
  /\ IF Alive /\ handler[c] # "done"
     THEN /\ wrote[c] - got[c] < SocketRoom
          /\ wrote' = [wrote EXCEPT ![c] = @ + 1]
          /\ client' = [client EXCEPT ![c] = Having(c, wrote'[c])]
     ELSE /\ client' = [client EXCEPT ![c] = "failed"]
          /\ UNCHANGED wrote
  /\ UNCHANGED <<lifetime, backlog, handlerVars>>

(* An attached client detaches; any client may be killed as it writes.     *)
ClientLeaves(c) ==
  /\ client[c] = "open"
  /\ client' = [client EXCEPT ![c] = "left"]
  /\ UNCHANGED <<lifetime, wrote, backlog, handlerVars>>

-----------------------------------------------------------------------------
(* The service.                                                            *)

(* The accepting loop takes the first connection and gives it a thread.    *)
Accept ==
  /\ stage = "serving" /\ backlog # << >>
  /\ backlog' = Tail(backlog)
  /\ handler' = [handler EXCEPT ![Head(backlog)] = "mode"]
  /\ UNCHANGED <<lifetime, client, wrote, got, given, writer, input>>

(* run_server returns when it has joined the reader and the waiter; the    *)
(* handlers end with the process.                                          *)
Return == End /\ UNCHANGED <<clientVars, handlerVars>>

Start == StartServing /\ UNCHANGED <<clientVars, handlerVars>>

Stop == StopServing /\ UNCHANGED <<clientVars, handlerVars>>

GoLive == BecomeLive /\ UNCHANGED <<clientVars, handlerVars>>

ServiceStep ==
  /\ \/ StartChild \/ Bind \/ ChildExits \/ CloseTty \/ BecomeExited \/ BecomeFailed
     \/ RemoveSocket
  /\ UNCHANGED <<clientVars, handlerVars>>

-----------------------------------------------------------------------------
(* The thread of one client: handle_client.                                *)

Closed(c) == client[c] \in {"sent", "left", "failed"}

NoMore(c) == Closed(c) /\ got[c] = wrote[c]

(* Mutant of ReadMode: a resize takes the terminal's writer.               *)
ReadModeLocks(c) ==
  /\ got[c] < wrote[c]
  /\ Move(c, "mode", CASE Mode[c] = "attach" -> "relay"
                       [] Mode[c] = "resize" -> "done"
                       [] OTHER -> "collect")
  /\ Mode[c] # "input" => writer = Free
  /\ got' = [got EXCEPT ![c] = 1] /\ given' = [given EXCEPT ![c] = 1]
  /\ UNCHANGED <<writer, input>>

(* The mode byte, and what the mode does first.  A resize is done at once, *)
(* and so is the resize an attachment begins with.                         *)
ReadMode(c) ==
  /\ got[c] < wrote[c]
  /\ Move(c, "mode", CASE Mode[c] = "attach" -> "relay"
                       [] Mode[c] = "resize" -> "done"
                       [] OTHER -> "collect")
  /\ got' = [got EXCEPT ![c] = 1] /\ given' = [given EXCEPT ![c] = 1]
  /\ UNCHANGED <<writer, input>>

(* A client that closes before it has said its mode.                       *)
NoMode(c) ==
  /\ NoMore(c) /\ Move(c, "mode", "done")
  /\ UNCHANGED <<got, given, writer, input>>

(* read_to_end: what an input or signal client has to say is read as it    *)
(* comes, and acted on when the client has closed.                         *)
Collect(c) ==
  /\ handler[c] = "collect" /\ got[c] < wrote[c]
  /\ got' = [got EXCEPT ![c] = wrote[c]]
  /\ UNCHANGED <<given, handler, writer, input>>

(* The text of a send is for the terminal; a signal is sent.               *)
ActOn(c) ==
  /\ Move(c, "collect", IF Mode[c] = "input" /\ got[c] > 1 THEN "lock" ELSE "done")
  /\ given' = IF Mode[c] = "signal" THEN [given EXCEPT ![c] = got[c]] ELSE given
  /\ UNCHANGED <<got, writer, input>>

(* Mutant of Collected: what there is is acted on, read and not read_to_end *)
CollectedSome(c) == ActOn(c)

Collected(c) == NoMore(c) /\ ActOn(c)

(* An attached client's input is read in buffers, each relayed at once.    *)
Relay(c) ==
  /\ got[c] < wrote[c] /\ Move(c, "relay", "lock")
  /\ \E n \in got[c] + 1 .. wrote[c] : got' = [got EXCEPT ![c] = n]
  /\ UNCHANGED <<given, writer, input>>

RelayEnds(c) ==
  /\ NoMore(c) /\ Move(c, "relay", "done")
  /\ UNCHANGED <<got, given, writer, input>>

Lock(c) ==
  /\ writer = Free /\ Move(c, "lock", "write")
  /\ writer' = c
  /\ UNCHANGED <<got, given, input>>

After(c) == IF Mode[c] = "attach" THEN "relay" ELSE "done"

(* Mutant of WritePart: the writer is let go of after each part.           *)
WritePartAndUnlock(c) ==
  /\ given[c] < got[c] /\ tty
  /\ given' = [given EXCEPT ![c] = @ + 1]
  /\ input' = Append(input, <<c, given'[c]>>)
  /\ Move(c, "write", IF given'[c] = got[c] THEN After(c) ELSE "lock")
  /\ writer' = Free
  /\ UNCHANGED got

(* write_all: the terminal takes a part, while the writer is locked; after *)
(* the last part it is let go of.                                          *)
WritePart(c) ==
  /\ handler[c] = "write" /\ tty
  /\ given' = [given EXCEPT ![c] = @ + 1]
  /\ input' = Append(input, <<c, given'[c]>>)
  /\ IF given'[c] = got[c] THEN Move(c, "write", After(c)) /\ writer' = Free
                           ELSE UNCHANGED <<handler, writer>>
  /\ UNCHANGED got

(* Everybody has closed the terminal: the write fails, the handler ends.   *)
WriteFails(c) ==
  /\ ~ tty /\ Move(c, "write", "done")
  /\ writer' = Free
  /\ UNCHANGED <<got, given, input>>

HandlerStep(c) ==
  /\ Alive
  /\ \/ ReadMode(c) \/ NoMode(c) \/ Collect(c) \/ Collected(c) \/ Relay(c)
     \/ RelayEnds(c) \/ Lock(c) \/ WriteFails(c)
  /\ UNCHANGED <<lifetime, clientVars>>

TerminalTakes == \E c \in Client : Alive /\ WritePart(c) /\ UNCHANGED <<lifetime, clientVars>>

InputNext ==
  \/ ServiceStep \/ GoLive \/ Start \/ Accept \/ Stop \/ Return \/ TerminalTakes
  \/ \E c \in Client :
       \/ Connect(c) \/ ConnectFails(c) \/ ClientWrite(c) \/ ClientLeaves(c)
       \/ HandlerStep(c)

InputSpec == InputInit /\ [][InputNext]_inputVars

(* A connection waiting is accepted, the handlers and the clients that     *)
(* have text to write go on when they can, the service starts and stops    *)
(* accepting as LeavesItsStages says.  All these steps are bounded in      *)
(* number, so that one condition says as much as one for each.  Nothing is *)
(* assumed of the child, and so not that the terminal takes anything.      *)
Fairness ==
  \/ GoLive \/ Start \/ Accept
  \/ child # "none" /\ (child = "exited" \/ ~ tty) /\ Stop
  \/ \E c \in Client : HandlerStep(c) \/ ClientWrite(c)

FairInputSpec == InputSpec /\ WF_inputVars(Fairness)

-----------------------------------------------------------------------------
From(i) == input[i][1]

Part(i) == input[i][2]

(* What clients type or send at the same time is not mixed up: the text of *)
(* one client is in order with nothing missing, and the text of one send   *)
(* has nobody else's in the midst of it.                                   *)
InputWhole ==
  \A i, k \in 1 .. Len(input) : From(i) = From(k) =>
     /\ i < k => Part(i) < Part(k)
     /\ \A n \in 2 .. Part(i) : \E j \in 1 .. i : input[j] = <<From(i), n>>
     /\ Mode[From(i)] = "input" => \A j \in i .. k : From(j) = From(i)

(* Nobody will serve it: the process is gone, or it accepts no more and    *)
(* has not accepted this one.  The second may last as long as the child,   *)
(* if that has closed its terminal.                                        *)
LeftAlone(c) ==
  stage = "gone" \/ (stage = "stopping" /\ handler[c] = "none")

(* What a client must have written to be served: a signal all of it.       *)
Asks(c) == IF Mode[c] = "signal" THEN Parts[c] ELSE 1

(* A resize, a signal, the handshake of an attachment are acted on, even   *)
(* if the child never reads its terminal and a handler holds the           *)
(* terminal's writer for good, and even if they were asked for before the  *)
(* session was live, unless they are left alone.                           *)
ServedThoughTerminalFull ==
  \A c \in {c \in Client : Mode[c] # "input"} :
     wrote[c] >= Asks(c) ~> given[c] >= Asks(c) \/ LeftAlone(c)

(* What a send was told is sent reaches the terminal, if the child goes on *)
(* reading it, unless the terminal is closed or the send left alone.       *)
SentIsDelivered ==
  WF_inputVars(TerminalTakes) =>
    \A c \in {c \in Client : Mode[c] = "input"} :
       client[c] = "sent" ~> given[c] = Parts[c] \/ ~ tty \/ LeftAlone(c)
=============================================================================
