----------------------------- MODULE Broadcast ------------------------------
(***************************************************************************)
(* How the output of a session reaches the clients attached to it          *)
(* (src/runtime/server.rs: OutputState, broadcast, handle_attach_client).  *)
(*                                                                         *)
(* The reader thread records a chunk in the replay history, takes the      *)
(* clients registered at that moment, and sends the chunk to each of them  *)
(* after it has let go of the mutex.  A handler registers its client and   *)
(* copies the history under the mutex, writes the copy to the socket and   *)
(* starts a writer thread, which takes the chunks from the client's        *)
(* channel.  Chunks are numbered from 1; the history is limited in chunks, *)
(* where the program limits it in bytes and may cut a chunk.               *)
(***************************************************************************)
EXTENDS Naturals, Sequences

CONSTANTS
  Client,       \* the attachments, each by its client_id
  MaxHistory,   \* MAX_HISTORY_BYTES
  MaxChunks     \* bound: how many chunks the session produces

ASSUME MaxHistoryAssumption == MaxHistory \in Nat \ {0}

VARIABLES
  recorded,      \* the number of chunks recorded
  history,       \* OutputState.history
  broadcasters,  \* OutputState.broadcasters: the clients registered
  reader,        \* idle, sending, over, gone (the process has ended)
  pending,       \* the clients the chunk is still to be sent to
  failed,        \* the clients whose channel had no receiver
  stream,        \* [Client -> the copy of the history and the chunks sent]
  copied,        \* [Client -> the length of the copy of the history]
  written,       \* [Client -> how much of it has been written to the socket]
  handler,       \* [Client -> off, replay, serve, leave, done]
  receiving,     \* [Client -> whether the receiver of the channel exists]
  peer           \* [Client -> whether the other end of the socket is open]

output == <<recorded, history, reader, pending, failed>>

clients == <<stream, copied, written, handler, receiving, peer>>

vars == <<output, broadcasters, clients>>

Init ==
  /\ recorded = 0 /\ history = << >>
  /\ broadcasters = {}
  /\ reader = "idle" /\ pending = {} /\ failed = {}
  /\ stream = [c \in Client |-> << >>]
  /\ copied = [c \in Client |-> 0]
  /\ written = [c \in Client |-> 0]
  /\ handler = [c \in Client |-> "off"]
  /\ receiving = [c \in Client |-> FALSE]
  /\ peer = [c \in Client |-> TRUE]

-----------------------------------------------------------------------------
(* The reader thread.                                                      *)

(* Mutant of Latest: the history is cut at the wrong end.                  *)
Earliest(s, n) == IF Len(s) <= n THEN s ELSE SubSeq(s, 1, n)

(* The last n elements of a sequence.                                      *)
Latest(s, n) ==
  IF Len(s) <= n THEN s ELSE SubSeq(s, Len(s) - n + 1, Len(s))

(* record_chunk, under the mutex: the history grows and is cut, the        *)
(* clients to send to are those registered now.                            *)
RecordChunk ==
  /\ reader = "idle"
  /\ recorded < MaxChunks
  /\ recorded' = recorded + 1
  /\ history' = Latest(Append(history, recorded + 1), MaxHistory)
  /\ pending' = broadcasters
  /\ reader' = "sending"
  /\ UNCHANGED <<failed, broadcasters, clients>>

(* Outside the mutex.  A send never waits; it fails when there is nobody   *)
(* left to receive.                                                        *)
Send(c) ==
  /\ reader = "sending" /\ c \in pending
  /\ pending' = pending \ {c}
  /\ IF receiving[c]
     THEN /\ stream' = [stream EXCEPT ![c] = Append(@, recorded)]
          /\ UNCHANGED failed
     ELSE /\ failed' = failed \cup {c}
          /\ UNCHANGED stream
  /\ UNCHANGED <<recorded, history, reader, broadcasters, copied, written,
                 handler, receiving, peer>>

(* The clients that failed are forgotten, under the mutex again.           *)
Sweep ==
  /\ reader = "sending" /\ pending = {}
  /\ broadcasters' = broadcasters \ failed
  /\ failed' = {}
  /\ reader' = "idle"
  /\ UNCHANGED <<recorded, history, pending, clients>>

(* The end of the output: the thread ends, and some time later run_server  *)
(* returns and the process ends with all its other threads.                *)
EndOfOutput ==
  /\ reader = "idle"
  /\ reader' = "over"
  /\ UNCHANGED <<recorded, history, pending, failed, broadcasters, clients>>

EndOfProcess ==
  /\ reader = "over"
  /\ reader' = "gone"
  /\ UNCHANGED <<recorded, history, pending, failed, broadcasters, clients>>

-----------------------------------------------------------------------------
(* The handler of client c and its writer thread.                          *)

Alive == reader # "gone"

(* Mutant of Register: the history is copied, and a chunk later the client *)
(* registered.                                                             *)
RegisterLate(c) ==
  /\ Alive
  /\ handler[c] = "off"
  /\ handler' = [handler EXCEPT ![c] = "replay"]
  /\ stream' = [stream EXCEPT ![c] = SubSeq(history, 1, Len(history) - 1)]
  /\ copied' = [copied EXCEPT ![c] = IF history = << >> THEN 0 ELSE Len(history) - 1]
  /\ receiving' = [receiving EXCEPT ![c] = TRUE]
  /\ broadcasters' = broadcasters \cup {c}
  /\ UNCHANGED <<output, written, peer>>

(* register_client, under the mutex.                                       *)
Register(c) ==
  /\ Alive
  /\ handler[c] = "off"
  /\ handler' = [handler EXCEPT ![c] = "replay"]
  /\ stream' = [stream EXCEPT ![c] = history]
  /\ copied' = [copied EXCEPT ![c] = Len(history)]
  /\ receiving' = [receiving EXCEPT ![c] = TRUE]
  /\ broadcasters' = broadcasters \cup {c}
  /\ UNCHANGED <<output, written, peer>>

(* The copy is written to the socket and the writer thread started.        *)
Replay(c) ==
  /\ Alive
  /\ handler[c] = "replay"
  /\ peer[c] \/ copied[c] = 0
  /\ written' = [written EXCEPT ![c] = copied[c]]
  /\ handler' = [handler EXCEPT ![c] = "serve"]
  /\ UNCHANGED <<output, broadcasters, stream, copied, receiving, peer>>

(* The write fails: the handler returns, and leaves the client registered  *)
(* with nobody to receive.                                                 *)
ReplayFails(c) ==
  /\ Alive
  /\ handler[c] = "replay"
  /\ ~ peer[c] /\ copied[c] # 0
  /\ handler' = [handler EXCEPT ![c] = "done"]
  /\ receiving' = [receiving EXCEPT ![c] = FALSE]
  /\ UNCHANGED <<output, broadcasters, stream, copied, written, peer>>

WriterRuns(c) == Alive /\ handler[c] \notin {"off", "replay"} /\ receiving[c]

(* Mutant of WriteChunk: it does not wait for a chunk.                     *)
WriteAnything(c) ==
  /\ WriterRuns(c)
  /\ peer[c]
  /\ written' = [written EXCEPT ![c] = @ + 1]
  /\ UNCHANGED <<output, broadcasters, stream, copied, handler, receiving, peer>>

(* The writer thread writes the next chunk of its channel.                 *)
WriteChunk(c) ==
  /\ WriterRuns(c)
  /\ peer[c]
  /\ written[c] < Len(stream[c])
  /\ written' = [written EXCEPT ![c] = @ + 1]
  /\ UNCHANGED <<output, broadcasters, stream, copied, handler, receiving, peer>>

(* Mutant of WriterEnds: an empty channel ends it.                         *)
WriterDoesNotWait(c) ==
  /\ WriterRuns(c)
  /\ written[c] < Len(stream[c]) => ~ peer[c]
  /\ receiving' = [receiving EXCEPT ![c] = FALSE]
  /\ UNCHANGED <<output, broadcasters, stream, copied, written, handler, peer>>

(* It ends when the write fails, or when the channel is empty and the last *)
(* sender is gone: the registered one and the one of a broadcast under way *)
WriterEnds(c) ==
  /\ WriterRuns(c)
  /\ IF written[c] < Len(stream[c])
     THEN ~ peer[c]
     ELSE c \notin broadcasters /\ ~ (reader = "sending" /\ c \in pending)
  /\ receiving' = [receiving EXCEPT ![c] = FALSE]
  /\ UNCHANGED <<output, broadcasters, stream, copied, written, handler, peer>>

(* The client detaches, or is gone.                                        *)
PeerCloses(c) ==
  /\ peer[c]
  /\ peer' = [peer EXCEPT ![c] = FALSE]
  /\ UNCHANGED <<output, broadcasters, stream, copied, written, handler, receiving>>

(* Mutant of Leave: the handler joins the writer first.                    *)
LeaveRegistered(c) ==
  /\ Alive
  /\ handler[c] = "serve" /\ ~ peer[c]
  /\ handler' = [handler EXCEPT ![c] = "leave"]
  /\ UNCHANGED <<output, broadcasters, stream, copied, written, receiving, peer>>

(* The handler reads the end of the input, removes its client under the    *)
(* mutex and goes to join the writer; after a read error it does not.      *)
Leave(c) ==
  /\ Alive
  /\ handler[c] = "serve" /\ ~ peer[c]
  /\ broadcasters' = broadcasters \ {c}
  /\ \E after \in {"leave", "done"} : handler' = [handler EXCEPT ![c] = after]
  /\ UNCHANGED <<output, stream, copied, written, receiving, peer>>

JoinWriter(c) ==
  /\ Alive
  /\ handler[c] = "leave" /\ ~ receiving[c]
  /\ handler' = [handler EXCEPT ![c] = "done"]
  /\ UNCHANGED <<output, broadcasters, stream, copied, written, receiving, peer>>

(* The terminal does not take the client's input: the handler returns, the *)
(* client stays registered and its writer goes on.                         *)
InputFails(c) ==
  /\ Alive
  /\ handler[c] = "serve" /\ peer[c]
  /\ handler' = [handler EXCEPT ![c] = "done"]
  /\ UNCHANGED <<output, broadcasters, stream, copied, written, receiving, peer>>

Reader == RecordChunk \/ Sweep \/ \E c \in Client : Send(c)

Handler(c) == Register(c) \/ Replay(c) \/ ReplayFails(c) \/ Leave(c) \/ JoinWriter(c)

Writer(c) == WriteChunk(c) \/ WriterEnds(c)

Next ==
  \/ Reader \/ EndOfOutput \/ EndOfProcess
  \/ \E c \in Client : Handler(c) \/ Writer(c) \/ PeerCloses(c) \/ InputFails(c)

Spec == Init /\ [][Next]_vars

(* The threads go on when they can, a write to an open socket included;    *)
(* nothing is assumed of new clients, of their leaving, of the end.        *)
FairSpec ==
  /\ Spec
  /\ WF_vars(Sweep \/ \E c \in Client : Send(c))
  /\ \A c \in Client : WF_vars(Replay(c) \/ ReplayFails(c) \/ Leave(c) \/ JoinWriter(c))
  /\ \A c \in Client : WF_vars(Writer(c))

-----------------------------------------------------------------------------
TypeOK ==
  /\ recorded \in Nat
  /\ history \in Seq(Nat)
  /\ broadcasters \subseteq Client /\ pending \subseteq Client
  /\ failed \subseteq Client
  /\ reader \in {"idle", "sending", "over", "gone"}
  /\ stream \in [Client -> Seq(Nat)]
  /\ copied \in [Client -> Nat]
  /\ written \in [Client -> Nat]
  /\ \A c \in Client : copied[c] <= Len(stream[c]) /\ written[c] <= Len(stream[c])
  /\ handler \in [Client -> {"off", "replay", "serve", "leave", "done"}]
  /\ receiving \in [Client -> BOOLEAN]
  /\ peer \in [Client -> BOOLEAN]

(* What has reached the other end of the socket.                           *)
Received(c) == SubSeq(stream[c], 1, written[c])

Contiguous(s) == \A i \in 1 .. Len(s) - 1 : s[i + 1] = s[i] + 1

(* What a client receives is one piece of the output: no chunk missing, no *)
(* chunk twice, none out of order, although the replayed history and the   *)
(* chunks that follow it reach it through two threads.                     *)
StreamsAreContiguous == \A c \in Client : Contiguous(Received(c))

(* Every registered client with a receiver has been given all that has     *)
(* been recorded, but for the chunk that is on its way to it.              *)
NothingIsWithheld ==
  \A c \in Client :
     c \in broadcasters /\ receiving[c] /\ recorded > 0 =>
        IF c \in pending
        THEN stream[c] # << >> => stream[c][Len(stream[c])] = recorded - 1
        ELSE stream[c] # << >> /\ stream[c][Len(stream[c])] = recorded

(* A client that stays, of a service that stays, receives all that was     *)
(* recorded.                                                               *)
Arrives ==
  \A c \in Client : \A n \in 1 .. MaxChunks :
     c \in broadcasters /\ receiving[c] /\ recorded = n
       ~> ~ peer[c] \/ ~ Alive \/ \E i \in 1 .. written[c] : stream[c][i] = n

(* A handler that waits for its writer is not left waiting, whatever       *)
(* copies of the sender a broadcast still holds.                           *)
LeavingEnds ==
  \A c \in Client : handler[c] = "leave" ~> handler[c] = "done" \/ ~ Alive

-----------------------------------------------------------------------------
(* docs/spec.md: output is broadcast to all attached clients.  When the    *)
(* service is gone, a client that stayed to the end has received all.      *)
AttachedReceiveAll ==
  \A c \in Client :
     ~ Alive /\ handler[c] = "serve" /\ peer[c] /\ recorded > 0
       => \E i \in 1 .. written[c] : stream[c][i] = recorded
=============================================================================
