-------------------------- MODULE BroadcastProofs ---------------------------
(***************************************************************************)
(* For any number of clients and chunks and any limit of the history, what *)
(* each client receives is one contiguous piece of the output.             *)
(***************************************************************************)
EXTENDS Broadcast, SequenceTheorems, TLAPS

(* The history is contiguous and ends with the chunk recorded last.        *)
HistoryInv ==
  /\ Contiguous(history)
  /\ recorded > 0 => Len(history) > 0
  /\ Len(history) > 0 => history[Len(history)] = recorded

(* The stream of a client that can still be sent to ends with the chunk    *)
(* recorded last, or with the one before when the last is still to be sent *)
StreamInv(c) ==
  /\ Contiguous(stream[c])
  /\ handler[c] = "off" => c \notin pending
  /\ c \in pending /\ receiving[c] /\ Len(stream[c]) > 0
       => stream[c][Len(stream[c])] = recorded - 1
  /\ c \in broadcasters /\ c \notin pending /\ receiving[c]
       => /\ recorded > 0 => Len(stream[c]) > 0
          /\ Len(stream[c]) > 0 => stream[c][Len(stream[c])] = recorded

HandlersInv ==
  /\ \A c \in Client : StreamInv(c)
  /\ \A c \in Client : handler[c] = "off" => c \notin broadcasters /\ written[c] = 0
  /\ reader # "sending" => pending = {}

Inv == TypeOK /\ HistoryInv /\ HandlersInv

-----------------------------------------------------------------------------
(* A chunk that follows the last extends a contiguous sequence.            *)
LEMMA AppendContiguous ==
  ASSUME NEW s \in Seq(Nat), NEW n \in Nat, Contiguous(s),
         Len(s) > 0 => n = s[Len(s)] + 1
  PROVE  /\ Append(s, n) \in Seq(Nat)
         /\ Contiguous(Append(s, n))
         /\ Len(Append(s, n)) = Len(s) + 1
         /\ Append(s, n)[Len(Append(s, n))] = n
BY DEF Contiguous

(* What is kept of a sequence is contiguous if it was, and ends as it did. *)
LEMMA LatestContiguous ==
  ASSUME NEW s \in Seq(Nat), NEW n \in Nat \ {0}, Contiguous(s), Len(s) > 0
  PROVE  /\ Latest(s, n) \in Seq(Nat)
         /\ Contiguous(Latest(s, n))
         /\ Len(Latest(s, n)) > 0
         /\ Latest(s, n)[Len(Latest(s, n))] = s[Len(s)]
<1>1. CASE Len(s) <= n
  BY <1>1 DEF Latest
<1>2. CASE ~ (Len(s) <= n)
  <2> DEFINE m == Len(s) - n + 1
             t == SubSeq(s, m, Len(s))
  <2>1. m \in 1 .. Len(s) /\ Len(s) \in Nat
    BY <1>2
  <2>2. Latest(s, n) = t
    BY <1>2 DEF Latest
  <2>3. t \in Seq(Nat) /\ Len(t) = n /\ \A i \in 1 .. n : t[i] = s[m + i - 1]
    BY <2>1, SubSeqProperties
  <2> HIDE DEF t
  <2>4. Contiguous(t)
    <3> SUFFICES ASSUME NEW i \in 1 .. n - 1
                 PROVE  t[i + 1] = t[i] + 1
      BY <2>3 DEF Contiguous
    <3>1. i \in 1 .. n /\ i + 1 \in 1 .. n
      OBVIOUS
    <3>2. t[i] = s[m + i - 1] /\ t[i + 1] = s[m + (i + 1) - 1]
      BY <2>3, <3>1
    <3>3. /\ m + i - 1 \in 1 .. Len(s) - 1
          /\ m + (i + 1) - 1 = (m + i - 1) + 1
      BY <2>1
    <3> QED
      BY <3>2, <3>3 DEF Contiguous
  <2>5. t[n] = s[Len(s)]
    <3>1. n \in 1 .. n /\ m + n - 1 = Len(s)
      BY <2>1
    <3>2. t[n] = s[m + n - 1]
      BY <2>3, <3>1
    <3> QED
      BY <3>1, <3>2
  <2> QED
    BY <2>2, <2>3, <2>4, <2>5
<1> QED
  BY <1>1, <1>2

LEMMA InitInv == Init => Inv
<1> SUFFICES ASSUME Init PROVE Inv
  OBVIOUS
<1>1. TypeOK
  BY DEF Init, TypeOK
<1>2. HistoryInv
  BY DEF Init, HistoryInv, Contiguous
<1>3. HandlersInv
  BY DEF Init, HandlersInv, StreamInv, Contiguous
<1> QED
  BY <1>1, <1>2, <1>3 DEF Inv

-----------------------------------------------------------------------------
(* The steps of the reader.                                                *)

LEMMA RecordChunkInv == Inv /\ RecordChunk => Inv'
<1> SUFFICES ASSUME Inv, RecordChunk PROVE Inv'
  OBVIOUS
<1> USE DEF Inv
<1> DEFINE longer == Append(history, recorded + 1)
<1>1. recorded \in Nat /\ history \in Seq(Nat)
  BY DEF TypeOK
<1>2. Len(history) > 0 => recorded + 1 = history[Len(history)] + 1
  BY DEF HistoryInv
<1>3. /\ longer \in Seq(Nat) /\ Contiguous(longer)
      /\ Len(longer) > 0 /\ longer[Len(longer)] = recorded + 1
  BY <1>1, <1>2, AppendContiguous DEF HistoryInv
<1> HIDE DEF longer
<1>4. history' = Latest(longer, MaxHistory) /\ recorded' = recorded + 1
  BY DEF RecordChunk, longer
<1>5. /\ history' \in Seq(Nat) /\ Contiguous(history')
      /\ Len(history') > 0 /\ history'[Len(history')] = recorded'
  BY <1>3, <1>4, LatestContiguous, MaxHistoryAssumption
<1>6. TypeOK'
  BY <1>4, <1>5 DEF TypeOK, RecordChunk, clients
<1>7. HistoryInv'
  BY <1>5 DEF HistoryInv
<1>8. pending = {} /\ pending' = broadcasters /\ reader' = "sending"
  BY DEF RecordChunk, HandlersInv
<1>9. UNCHANGED <<broadcasters, stream, written, handler, receiving>>
  BY DEF RecordChunk, clients
<1>10. ASSUME NEW c \in Client PROVE StreamInv(c)'
  BY <1>1, <1>4, <1>8, <1>9 DEF HandlersInv, StreamInv
<1> QED
  BY <1>6, <1>7, <1>8, <1>9, <1>10 DEF HandlersInv

LEMMA SendInv ==
  ASSUME Inv, NEW c \in Client, Send(c)
  PROVE  Inv'
<1> USE DEF Inv
<1>1. /\ pending' = pending \ {c} /\ c \in pending
      /\ UNCHANGED <<recorded, history, broadcasters, written, handler, receiving, reader>>
      /\ reader = "sending"
  BY DEF Send
<1>2. HistoryInv'
  BY <1>1 DEF HistoryInv
<1>3. CASE receiving[c]
  <2> DEFINE s == Append(stream[c], recorded)
  <2>1. stream[c] \in Seq(Nat) /\ recorded \in Nat
    BY DEF TypeOK
  <2>2. Len(stream[c]) > 0 => recorded = stream[c][Len(stream[c])] + 1
    <3>1. StreamInv(c)
      BY DEF HandlersInv
    <3>2. Len(stream[c]) > 0 => stream[c][Len(stream[c])] = recorded - 1
      BY <1>1, <1>3, <3>1 DEF StreamInv
    <3> QED
      BY <2>1, <3>2
  <2>3. /\ s \in Seq(Nat) /\ Contiguous(s)
        /\ Len(s) = Len(stream[c]) + 1 /\ s[Len(s)] = recorded
    <3>1. Contiguous(stream[c])
      BY DEF HandlersInv, StreamInv
    <3> QED
      BY <2>1, <2>2, <3>1, AppendContiguous
  <2> HIDE DEF s
  <2>4. stream' = [stream EXCEPT ![c] = s] /\ UNCHANGED failed
    BY <1>3 DEF Send, s
  <2>5. /\ stream'[c] = s
        /\ \A d \in Client \ {c} : stream'[d] = stream[d]
    BY <2>4 DEF TypeOK
  <2>6. TypeOK'
    BY <1>1, <2>1, <2>3, <2>4, <2>5 DEF TypeOK, Send
  <2>7. StreamInv(c)'
    BY <1>1, <2>1, <2>3, <2>5 DEF HandlersInv, StreamInv
  <2>8. ASSUME NEW d \in Client \ {c} PROVE StreamInv(d)'
    BY <1>1, <2>5 DEF HandlersInv, StreamInv
  <2> QED
    BY <1>1, <1>2, <2>6, <2>7, <2>8 DEF HandlersInv
<1>4. CASE ~ receiving[c]
  <2>1. stream' = stream /\ failed' = failed \cup {c}
    BY <1>4 DEF Send
  <2>2. TypeOK'
    BY <1>1, <2>1 DEF TypeOK, Send
  <2>3. ASSUME NEW d \in Client PROVE StreamInv(d)'
    BY <1>1, <1>4, <2>1 DEF HandlersInv, StreamInv
  <2> QED
    BY <1>1, <1>2, <2>2, <2>3 DEF HandlersInv
<1> QED
  BY <1>3, <1>4

LEMMA OtherReaderInv == Inv /\ (Sweep \/ EndOfOutput \/ EndOfProcess) => Inv'
<1> SUFFICES ASSUME Inv, Sweep \/ EndOfOutput \/ EndOfProcess PROVE Inv'
  OBVIOUS
<1> USE DEF Inv
<1>1. /\ broadcasters' \subseteq broadcasters
      /\ UNCHANGED <<recorded, history, pending, stream, written, handler, receiving>>
      /\ pending = {}
  BY DEF Sweep, EndOfOutput, EndOfProcess, clients, HandlersInv
<1>2. TypeOK'
  BY <1>1 DEF TypeOK, Sweep, EndOfOutput, EndOfProcess, clients
<1>3. ASSUME NEW c \in Client PROVE StreamInv(c)'
  BY <1>1 DEF HandlersInv, StreamInv
<1> QED
  BY <1>1, <1>2, <1>3 DEF HistoryInv, HandlersInv

-----------------------------------------------------------------------------
(* The steps of the handlers and the writers.                              *)

LEMMA RegisterInv ==
  ASSUME Inv, NEW c \in Client, Register(c)
  PROVE  Inv'
<1> USE DEF Inv
<1>1. /\ handler[c] = "off" /\ c \notin pending
      /\ UNCHANGED <<recorded, history, pending, reader, failed>>
      /\ broadcasters' = broadcasters \cup {c}
      /\ stream' = [stream EXCEPT ![c] = history]
      /\ handler' = [handler EXCEPT ![c] = "replay"]
      /\ receiving' = [receiving EXCEPT ![c] = TRUE]
  BY DEF Register, output, HandlersInv, StreamInv
<1>2. TypeOK'
  <2>1. written[c] = 0 /\ history \in Seq(Nat)
    BY <1>1 DEF HandlersInv, TypeOK
  <2>2. UNCHANGED <<written, peer>> /\ copied' = [copied EXCEPT ![c] = Len(history)]
    BY DEF Register
  <2>3. /\ stream' \in [Client -> Seq(Nat)] /\ copied' \in [Client -> Nat]
        /\ stream'[c] = history /\ copied'[c] = Len(history)
        /\ \A d \in Client \ {c} : stream'[d] = stream[d] /\ copied'[d] = copied[d]
    BY <1>1, <2>1, <2>2 DEF TypeOK
  <2>4. \A d \in Client : copied'[d] <= Len(stream'[d]) /\ written'[d] <= Len(stream'[d])
    BY <2>1, <2>2, <2>3 DEF TypeOK
  <2> QED
    BY <1>1, <2>1, <2>2, <2>3, <2>4 DEF TypeOK
<1>3. /\ stream'[c] = history
      /\ \A d \in Client \ {c} : /\ stream'[d] = stream[d]
                                 /\ handler'[d] = handler[d]
                                 /\ receiving'[d] = receiving[d]
  BY <1>1 DEF TypeOK
<1>4. StreamInv(c)'
  BY <1>1, <1>3 DEF StreamInv, HistoryInv, TypeOK
<1>5. ASSUME NEW d \in Client \ {c} PROVE StreamInv(d)'
  BY <1>1, <1>3 DEF HandlersInv, StreamInv
<1>6. HistoryInv'
  BY <1>1 DEF HistoryInv
<1>7. \A d \in Client : handler'[d] = "off" => d \notin broadcasters'
  BY <1>1, <1>3 DEF HandlersInv, TypeOK
<1>8. \A d \in Client : handler'[d] = "off" => written'[d] = 0
  BY <1>1, <1>3 DEF HandlersInv, TypeOK, Register
<1> QED
  BY <1>1, <1>2, <1>4, <1>5, <1>6, <1>7, <1>8 DEF HandlersInv

(* Steps that touch no stream, register nobody, and start no receiver.     *)
LEMMA QuietInv ==
  ASSUME Inv, NEW c \in Client,
         TypeOK',
         UNCHANGED <<output, stream>>,
         broadcasters' \subseteq broadcasters,
         \A d \in Client : handler'[d] = "off"
                           => handler[d] = "off" /\ written'[d] = written[d],
         \A d \in Client : receiving'[d] => receiving[d]
  PROVE  Inv'
<1>1. ASSUME NEW d \in Client PROVE StreamInv(d)'
  BY DEF Inv, HandlersInv, StreamInv, output
<1>2. HistoryInv'
  BY DEF Inv, HistoryInv, output
<1> QED
  BY <1>1, <1>2 DEF Inv, HandlersInv, output

LEMMA HandlerInv ==
  ASSUME Inv, NEW c \in Client,
         \/ Replay(c) \/ ReplayFails(c) \/ Leave(c) \/ JoinWriter(c)
         \/ WriteChunk(c) \/ WriterEnds(c) \/ PeerCloses(c) \/ InputFails(c)
  PROVE  Inv'
<1> USE DEF Inv
<1>1. UNCHANGED <<output, stream>>
  BY DEF Replay, ReplayFails, Leave, JoinWriter, WriteChunk, WriterEnds, PeerCloses,
         InputFails
<1>2. broadcasters' \subseteq broadcasters
  BY DEF Replay, ReplayFails, Leave, JoinWriter, WriteChunk, WriterEnds, PeerCloses,
         InputFails
<1>3. \A d \in Client : receiving'[d] => receiving[d]
  BY DEF TypeOK, Replay, ReplayFails, Leave, JoinWriter, WriteChunk, WriterEnds,
         PeerCloses, InputFails
<1>4. copied' = copied
  BY DEF Replay, ReplayFails, Leave, JoinWriter, WriteChunk, WriterEnds, PeerCloses,
         InputFails
<1>5. /\ written' \in [Client -> Nat]
      /\ \A d \in Client : written'[d] <= Len(stream[d])
  <2>1. CASE Replay(c)
    <3>1. written' = [written EXCEPT ![c] = copied[c]]
      BY <2>1 DEF Replay
    <3> QED
      BY <3>1 DEF TypeOK
  <2>2. CASE WriteChunk(c)
    <3>1. written' = [written EXCEPT ![c] = @ + 1] /\ written[c] < Len(stream[c])
      BY <2>2 DEF WriteChunk
    <3>2. stream[c] \in Seq(Nat) /\ written[c] \in Nat
      BY DEF TypeOK
    <3> QED
      BY <3>1, <3>2 DEF TypeOK
  <2>3. CASE written' = written
    BY <2>3 DEF TypeOK
  <2> QED
    BY <2>1, <2>2, <2>3 DEF ReplayFails, Leave, JoinWriter, WriterEnds, PeerCloses,
                            InputFails
<1>6. /\ handler' \in [Client -> {"off", "replay", "serve", "leave", "done"}]
      /\ receiving' \in [Client -> BOOLEAN]
      /\ peer' \in [Client -> BOOLEAN]
  BY DEF TypeOK, Replay, ReplayFails, Leave, JoinWriter, WriteChunk, WriterEnds,
         PeerCloses, InputFails
<1>7. TypeOK'
  BY <1>1, <1>2, <1>4, <1>5, <1>6 DEF TypeOK, output
<1>8. \A d \in Client : handler'[d] = "off" => handler[d] = "off" /\ written'[d] = written[d]
  BY DEF TypeOK, Replay, ReplayFails, Leave, JoinWriter, WriteChunk, WriterEnds,
         WriterRuns, PeerCloses, InputFails
<1> QED
  BY <1>1, <1>2, <1>3, <1>7, <1>8, QuietInv

-----------------------------------------------------------------------------
LEMMA StepInv == Inv /\ [Next]_vars => Inv'
<1> SUFFICES ASSUME Inv, [Next]_vars PROVE Inv'
  OBVIOUS
<1>1. CASE RecordChunk
  BY <1>1, RecordChunkInv
<1>2. ASSUME NEW c \in Client, Send(c) PROVE Inv'
  BY <1>2, SendInv
<1>3. CASE Sweep \/ EndOfOutput \/ EndOfProcess
  BY <1>3, OtherReaderInv
<1>4. ASSUME NEW c \in Client, Register(c) PROVE Inv'
  BY <1>4, RegisterInv
<1>5. ASSUME NEW c \in Client,
             \/ Replay(c) \/ ReplayFails(c) \/ Leave(c) \/ JoinWriter(c)
             \/ WriteChunk(c) \/ WriterEnds(c) \/ PeerCloses(c) \/ InputFails(c)
      PROVE  Inv'
  BY <1>5, HandlerInv
<1>6. CASE UNCHANGED vars
  BY <1>6 DEF vars, output, clients, Inv, TypeOK, HistoryInv, HandlersInv,
              StreamInv, Contiguous
<1> QED
  BY <1>1, <1>2, <1>3, <1>4, <1>5, <1>6 DEF Next, Reader, Handler, Writer

LEMMA Invariance == Spec => []Inv
  BY InitInv, StepInv, PTL DEF Spec

(* Every variable has its type, and no client is written more than it was  *)
(* sent.                                                                   *)
THEOREM TypeCorrect == Spec => []TypeOK
  BY Invariance, PTL DEF Inv

(* What every client receives is one contiguous piece of the output.       *)
THEOREM Contiguity == Spec => []StreamsAreContiguous
<1>1. Inv => StreamsAreContiguous
  <2> SUFFICES ASSUME Inv, NEW c \in Client PROVE Contiguous(Received(c))
    BY DEF StreamsAreContiguous
  <2>1. /\ stream[c] \in Seq(Nat) /\ written[c] \in 0 .. Len(stream[c])
        /\ Contiguous(stream[c])
    BY DEF Inv, TypeOK, HandlersInv, StreamInv
  <2> DEFINE s == stream[c]
             r == SubSeq(s, 1, written[c])
  <2>2. Len(r) = written[c] /\ \A i \in 1 .. written[c] : r[i] = s[i]
    BY <2>1, SubSeqProperties
  <2> QED
    BY <2>1, <2>2 DEF Contiguous, Received
<1> QED
  BY <1>1, Invariance, PTL

(* A registered client has been given everything but the chunk under way.  *)
THEOREM Completeness == Spec => []NothingIsWithheld
<1>1. Inv => NothingIsWithheld
  BY DEF Inv, TypeOK, HandlersInv, StreamInv, NothingIsWithheld
<1> QED
  BY <1>1, Invariance, PTL
=============================================================================
