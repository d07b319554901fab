---------------------------- MODULE InputProofs -----------------------------
(***************************************************************************)
(* The texts of any number of clients reach the terminal whole and in      *)
(* order, however long they are and whatever the service and the terminal  *)
(* do.                                                                     *)
(***************************************************************************)
EXTENDS Input, TLAPS

Handlers == {"none", "mode", "collect", "relay", "lock", "write", "done"}

TypeInv ==
  /\ client \in [Client -> {"idle", "open", "sent", "left", "failed"}]
  /\ handler \in [Client -> Handlers]
  /\ given \in [Client -> Nat]
  /\ backlog \in Seq(Client)
  /\ input \in Seq(Client \X Nat)

(* A connection waits once, and has no thread yet.                         *)
BacklogInv ==
  /\ \A i, j \in 1 .. Len(backlog) : backlog[i] = backlog[j] => i = j
  /\ \A i \in 1 .. Len(backlog) :
       client[backlog[i]] # "idle" /\ handler[backlog[i]] = "none"
  /\ \A c \in Client : client[c] = "idle" => handler[c] = "none"

(* Who writes has the terminal's writer.                                   *)
WriterInv == \A c \in Client : handler[c] = "write" => writer = c

(* A signal writes nothing; of the others, the parts from the second to    *)
(* the last that is done with are on the terminal, in order.               *)
GivenInv ==
  /\ \A c \in Client : Mode[c] = "signal" => handler[c] \notin {"relay", "lock", "write"}
  /\ \A c \in Client : handler[c] \in {"none", "mode"} => given[c] = 0
  /\ \A c \in Client :
       handler[c] \in {"collect", "relay", "lock", "write"} => given[c] > 0
  /\ \A i \in 1 .. Len(input) :
       Part(i) >= 2 /\ Part(i) <= given[From(i)] /\ Mode[From(i)] # "signal"
  /\ \A c \in Client : Mode[c] # "signal" => \A n \in 2 .. given[c] :
       \E j \in 1 .. Len(input) : input[j] = <<c, n>>
  /\ \A i, k \in 1 .. Len(input) : From(i) = From(k) /\ i < k => Part(i) < Part(k)

(* A send has put nothing on the terminal before it writes, and while it   *)
(* writes nobody else does.                                                *)
SendInv ==
  /\ \A c \in Client : Mode[c] = "input" =>
       /\ handler[c] # "relay"
       /\ handler[c] \in {"none", "mode", "collect", "lock"} => given[c] <= 1
       /\ handler[c] = "write" /\ given[c] > 1 =>
            Len(input) > 0 /\ From(Len(input)) = c
  /\ \A i, k \in 1 .. Len(input) : From(i) = From(k) /\ Mode[From(i)] = "input" =>
       \A j \in i .. k : From(j) = From(i)

Inv == TypeInv /\ BacklogInv /\ WriterInv /\ GivenInv /\ SendInv

-----------------------------------------------------------------------------
LEMMA InvInit == InputInit => Inv
<1> SUFFICES ASSUME InputInit PROVE Inv
  OBVIOUS
<1>1. PICK group \in Groups :
         client = [c \in Client |-> IF c \in group THEN "idle" ELSE "failed"]
  BY DEF InputInit
<1> QED BY <1>1 DEF InputInit, Inv, TypeInv, BacklogInv, WriterInv, GivenInv, SendInv, Handlers

(* Steps of the service and of the clients, which do nothing to the        *)
(* handlers and the terminal.                                              *)
LEMMA HandlersSame ==
  ASSUME Inv, UNCHANGED handlerVars
  PROVE  WriterInv' /\ GivenInv' /\ SendInv'
<1>1. handler' = handler /\ given' = given /\ writer' = writer /\ input' = input
  BY DEF handlerVars
<1>2. WriterInv'
  BY <1>1 DEF Inv, WriterInv
<1>3. GivenInv'
  BY <1>1 DEF Inv, GivenInv, From, Part
<1>4. SendInv'
  BY <1>1 DEF Inv, SendInv, From
<1> QED BY <1>2, <1>3, <1>4

LEMMA Elsewhere ==
  ASSUME Inv, UNCHANGED <<clientVars, handlerVars>>
  PROVE  Inv'
<1>1. client' = client /\ backlog' = backlog /\ handler' = handler /\ given' = given
      /\ input' = input
  BY DEF clientVars, handlerVars
<1>2. TypeInv' /\ BacklogInv'
  BY <1>1 DEF Inv, TypeInv, BacklogInv
<1> QED BY <1>2, HandlersSame DEF Inv

LEMMA ClientStep ==
  ASSUME Inv, NEW c \in Client,
         Connect(c) \/ ConnectFails(c) \/ ClientWrite(c) \/ ClientLeaves(c)
  PROVE  Inv'
<1>1. UNCHANGED handlerVars
  BY DEF Connect, ConnectFails, ClientWrite, ClientLeaves
<1>2. WriterInv' /\ GivenInv' /\ SendInv'
  BY <1>1, HandlersSame
<1>3. CASE Connect(c)
  <2>1. \A i \in 1 .. Len(backlog) : backlog[i] # c
    BY <1>3 DEF Inv, TypeInv, BacklogInv, Connect
  <2>2. client[c] = "idle" /\ handler[c] = "none" /\ backlog' = Append(backlog, c)
    BY <1>3 DEF Inv, BacklogInv, Connect
  <2>3. \E v \in {"sent", "open", "left"} : client' = [client EXCEPT ![c] = v]
    BY <1>3 DEF Connect, Having
  <2>4. /\ Len(backlog') = Len(backlog) + 1 /\ backlog'[Len(backlog) + 1] = c
        /\ \A i \in 1 .. Len(backlog) : backlog'[i] = backlog[i]
        /\ \A i \in 1 .. Len(backlog) : backlog[i] \in Client
    BY <2>2 DEF Inv, TypeInv
  <2>5. TypeInv'
    BY <1>1, <2>2, <2>3 DEF Inv, TypeInv, handlerVars
  <2>6. BacklogInv'
    <3>1. handler' = handler
      BY <1>1 DEF handlerVars
    <3>2. PICK v \in {"sent", "open", "left"} : client' = [client EXCEPT ![c] = v]
      BY <2>3
    <3>3. client'[c] # "idle" /\ \A d \in Client : client'[d] = "idle" => client[d] = "idle"
      BY <3>2 DEF Inv, TypeInv
    <3>4. \A d \in Client : client[d] # "idle" => client'[d] # "idle"
      BY <3>2 DEF Inv, TypeInv
    <3>5. Len(backlog) \in Nat
      BY DEF Inv, TypeInv
    <3>6. \A i \in 1 .. Len(backlog') :
            IF i = Len(backlog) + 1 THEN backlog'[i] = c
            ELSE i \in 1 .. Len(backlog) /\ backlog'[i] = backlog[i]
      BY <2>4, <3>5
    <3> QED BY <2>1, <2>2, <2>4, <3>1, <3>3, <3>4, <3>6 DEF Inv, BacklogInv
  <2> QED BY <1>2, <2>5, <2>6 DEF Inv
<1>4. CASE ConnectFails(c) \/ ClientWrite(c) \/ ClientLeaves(c)
  <2>1. backlog' = backlog
    BY <1>4 DEF ConnectFails, ClientWrite, ClientLeaves
  <2>2. \E v \in {"sent", "open", "left", "failed"} :
          client' = client \/ client' = [client EXCEPT ![c] = v]
    BY <1>4 DEF ConnectFails, ClientWrite, ClientLeaves, Having
  <2>3. handler' = handler /\ given' = given /\ input' = input
    BY <1>1 DEF handlerVars
  <2>4. TypeInv' /\ \A d \in Client : /\ client[d] # "idle" => client'[d] # "idle"
                                      /\ client'[d] = "idle" => client[d] = "idle"
    BY <2>1, <2>2, <2>3 DEF Inv, TypeInv
  <2>5. BacklogInv'
    BY <2>1, <2>3, <2>4 DEF Inv, TypeInv, BacklogInv
  <2> QED BY <1>2, <2>4, <2>5 DEF Inv
<1> QED BY <1>3, <1>4

LEMMA AcceptStep == ASSUME Inv, Accept PROVE Inv'
<1>1. /\ backlog # << >> /\ backlog' = Tail(backlog)
      /\ handler' = [handler EXCEPT ![Head(backlog)] = "mode"]
      /\ UNCHANGED <<client, given, writer, input>>
  BY DEF Accept
<1>2. /\ Head(backlog) \in Client /\ Head(backlog) = backlog[1] /\ Len(backlog) >= 1
      /\ Len(Tail(backlog)) = Len(backlog) - 1
      /\ \A i \in 1 .. Len(Tail(backlog)) : Tail(backlog)[i] = backlog[i + 1]
      /\ Tail(backlog) \in Seq(Client)
  BY <1>1 DEF Inv, TypeInv
<1>3. handler[Head(backlog)] = "none" /\ client[Head(backlog)] # "idle"
  BY <1>2 DEF Inv, BacklogInv
<1>4. TypeInv'
  BY <1>1, <1>2 DEF Inv, TypeInv, Handlers
<1>5. BacklogInv'
  <2>1. \A i \in 1 .. Len(backlog') : i + 1 \in 1 .. Len(backlog) /\ backlog'[i] = backlog[i + 1]
                                      /\ backlog[i + 1] \in Client
    BY <1>1, <1>2 DEF Inv, TypeInv
  <2>2. \A i \in 1 .. Len(backlog') : backlog'[i] # Head(backlog)
    BY <1>2, <2>1 DEF Inv, BacklogInv
  <2> QED BY <1>1, <1>2, <1>3, <2>1, <2>2 DEF Inv, TypeInv, BacklogInv
<1>6. ASSUME NEW c \in Client
      PROVE  handler'[c] = handler[c] \/ (handler[c] = "none" /\ handler'[c] = "mode")
  <2>1. handler \in [Client -> Handlers] /\ Head(backlog) \in Client
    BY <1>2 DEF Inv, TypeInv
  <2>2. CASE c = Head(backlog)
    BY <1>1, <1>3, <2>1, <2>2
  <2>3. CASE c # Head(backlog)
    BY <1>1, <2>1, <2>3
  <2> QED BY <2>2, <2>3
<1>7. WriterInv'
  BY <1>1, <1>6 DEF Inv, WriterInv
<1>8. GivenInv'
  BY <1>1, <1>6 DEF Inv, GivenInv, From, Part
<1>9. SendInv'
  BY <1>1, <1>6 DEF Inv, SendInv, From
<1> QED BY <1>4, <1>5, <1>7, <1>8, <1>9 DEF Inv

(* A handler goes from one place to the next, having perhaps read its mode, *)
(* and puts nothing on the terminal.                                       *)
LEMMA HandlerMoves ==
  ASSUME Inv, NEW c \in Client, NEW v \in Handlers \ {"none", "mode"}, NEW g \in Nat,
         UNCHANGED <<client, backlog, input>>,
         handler' = [handler EXCEPT ![c] = v], given' = [given EXCEPT ![c] = g],
         handler[c] # "none",
         \/ handler[c] = "mode" /\ (g = 1 \/ (v = "done" /\ g = given[c]))
         \/ handler[c] # "mode" /\ g = given[c]
              /\ (v # "done" => handler[c] \in {"collect", "relay", "lock", "write"})
         \/ Mode[c] = "signal" /\ v = "done",
         Mode[c] = "signal" => v \in {"collect", "done"},
         Mode[c] = "input" =>
           /\ v # "relay"
           /\ v \in {"collect", "lock", "write"} => handler[c] \in {"mode", "collect", "lock"}
  PROVE  TypeInv' /\ BacklogInv' /\ GivenInv' /\ SendInv'
<1>1. handler \in [Client -> Handlers] /\ given \in [Client -> Nat]
  BY DEF Inv, TypeInv
<1>2. /\ handler'[c] = v /\ given'[c] = g
      /\ \A e \in Client : e # c => handler'[e] = handler[e] /\ given'[e] = given[e]
  BY <1>1
<1>3. client' = client /\ backlog' = backlog /\ input' = input
  OBVIOUS
<1>4. TypeInv'
  BY <1>1, <1>3 DEF Inv, TypeInv
<1>5. BacklogInv'
  <2>1. \A i \in 1 .. Len(backlog) : backlog[i] \in Client /\ backlog[i] # c
    BY DEF Inv, TypeInv, BacklogInv
  <2>2. client[c] # "idle"
    BY DEF Inv, BacklogInv
  <2> QED BY <1>2, <1>3, <2>1, <2>2 DEF Inv, BacklogInv
<1>6. GivenInv'
  <2>1. Mode[c] # "signal" => given[c] <= g /\ (g # given[c] => g = 1)
    BY <1>1 DEF Inv, GivenInv
  <2>2. \A e \in Client :
          /\ given[e] \in Nat /\ given'[e] \in Nat
          /\ Mode[e] # "signal" =>
               given[e] <= given'[e] /\ (given'[e] # given[e] => given'[e] = 1)
    BY <1>1, <1>2, <2>1
  <2>3. \A e \in Client :
          /\ Mode[e] = "signal" => handler'[e] \notin {"relay", "lock", "write"}
          /\ handler'[e] \in {"none", "mode"} => given'[e] = 0
          /\ handler'[e] \in {"collect", "relay", "lock", "write"} => given'[e] > 0
    BY <1>1, <1>2 DEF Inv, GivenInv
  <2>4. \A i \in 1 .. Len(input) : From(i) \in Client /\ Part(i) \in Nat
    BY DEF Inv, TypeInv, From, Part
  <2>5. \A i \in 1 .. Len(input) :
          Part(i) >= 2 /\ Part(i) <= given'[From(i)] /\ Mode[From(i)] # "signal"
    BY <2>2, <2>4 DEF Inv, GivenInv
  <2>6. ASSUME NEW e \in Client, Mode[e] # "signal", NEW n \in 2 .. given'[e]
        PROVE  \E j \in 1 .. Len(input) : input[j] = <<e, n>>
    <3>1. given'[e] = given[e]
      BY <2>2, <2>6
    <3> QED BY <2>6, <3>1 DEF Inv, GivenInv
  <2>7. \A i, k \in 1 .. Len(input) : From(i) = From(k) /\ i < k => Part(i) < Part(k)
    BY DEF Inv, GivenInv
  <2>8. \A i : From(i)' = From(i) /\ Part(i)' = Part(i)
    BY <1>3 DEF From, Part
  <2>9. \A i \in 1 .. Len(input') :
          (Part(i) >= 2 /\ Part(i) <= given[From(i)] /\ Mode[From(i)] # "signal")'
    BY <1>3, <2>5, <2>8
  <2>10. \A i, k \in 1 .. Len(input') : (From(i) = From(k) /\ i < k => Part(i) < Part(k))'
    BY <1>3, <2>7, <2>8
  <2>11. \A e \in Client : Mode[e] # "signal" => \A n \in 2 .. given'[e] :
           \E j \in 1 .. Len(input') : input'[j] = <<e, n>>
    BY <1>3, <2>6
  <2> QED BY <2>3, <2>9, <2>10, <2>11 DEF GivenInv
<1>7. SendInv'
  <2>1. \A e \in Client : Mode[e] = "input" =>
          /\ handler'[e] # "relay"
          /\ handler'[e] \in {"none", "mode", "collect", "lock"} => given'[e] <= 1
          /\ handler'[e] = "write" /\ given'[e] > 1 =>
               Len(input) > 0 /\ From(Len(input)) = e
    <3>1. ASSUME Mode[c] = "input"
          PROVE  /\ v # "relay"
                 /\ v \in {"none", "mode", "collect", "lock"} => g <= 1
                 /\ v = "write" => g <= 1
      BY <1>1, <3>1 DEF Inv, SendInv, GivenInv
    <3> QED BY <1>1, <1>2, <3>1 DEF Inv, SendInv
  <2> QED BY <1>3, <2>1 DEF Inv, SendInv, From
<1> QED BY <1>4, <1>5, <1>6, <1>7

LEMMA WriterMoves ==
  ASSUME Inv, NEW c \in Client, NEW v \in Handlers, handler' = [handler EXCEPT ![c] = v],
         \/ writer' = writer /\ v # "write"
         \/ writer = Free /\ writer' = c
         \/ handler[c] = "write" /\ writer' = Free /\ v # "write"
  PROVE  WriterInv'
<1>1. handler'[c] = v /\ \A e \in Client : e # c => handler'[e] = handler[e]
  BY DEF Inv, TypeInv
<1>2. \A e \in Client : handler[e] = "write" => writer = e
  BY DEF Inv, WriterInv
<1>3. Free \notin Client
  BY InputAssumption DEF Free
<1> QED BY <1>1, <1>2, <1>3 DEF WriterInv

LEMMA HandlerQuiet ==
  ASSUME Inv, NEW c \in Client, got[c] \in Nat, HandlerStep(c)
  PROVE  Inv'
<1>0. /\ client' = client /\ backlog' = backlog /\ input' = input
      /\ handler \in [Client -> Handlers] /\ given \in [Client -> Nat]
      /\ Mode[c] \in {"input", "attach", "resize", "signal"}
  BY InputAssumption DEF HandlerStep, ReadMode, NoMode, Collect, Collected, ActOn, Relay,
     RelayEnds, Lock, WriteFails, clientVars, Inv, TypeInv
<1>1. given[c] \in Nat /\ (given' = given => given' = [given EXCEPT ![c] = given[c]])
  BY <1>0
<1>2. CASE ReadMode(c)
  <2>1. PICK v \in {"relay", "done", "collect"} :
          /\ handler' = [handler EXCEPT ![c] = v]
          /\ Mode[c] \in {"input", "signal"} => v = "collect"
    BY <1>0, <1>2 DEF ReadMode, Move
  <2>2. handler[c] = "mode" /\ given' = [given EXCEPT ![c] = 1] /\ writer' = writer
    BY <1>2 DEF ReadMode, Move
  <2>3. v \in Handlers \ {"none", "mode"}
    BY DEF Handlers
  <2>4. TypeInv' /\ BacklogInv' /\ GivenInv' /\ SendInv'
    BY <1>0, <2>1, <2>2, <2>3, HandlerMoves
  <2>5. WriterInv'
    BY <2>1, <2>2, <2>3, WriterMoves
  <2> QED BY <2>4, <2>5 DEF Inv
<1>3. CASE Collect(c)
  <2>1. /\ handler[c] = "collect" /\ given' = given /\ writer' = writer
        /\ handler' = [handler EXCEPT ![c] = "collect"]
    BY <1>0, <1>3 DEF Collect
  <2>2. "collect" \in Handlers \ {"none", "mode"} /\ Mode[c] # "relay"
    BY <1>0 DEF Handlers
  <2>3. TypeInv' /\ BacklogInv' /\ GivenInv' /\ SendInv'
    BY <1>0, <1>1, <2>1, <2>2, HandlerMoves
  <2>4. WriterInv'
    BY <2>1, <2>2, WriterMoves
  <2> QED BY <2>3, <2>4 DEF Inv
<1>4. CASE Collected(c) /\ Mode[c] = "signal"
  <2>1. /\ handler[c] = "collect" /\ handler' = [handler EXCEPT ![c] = "done"]
        /\ given' = [given EXCEPT ![c] = got[c]] /\ writer' = writer
    BY <1>4 DEF Collected, ActOn, Move
  <2>2. "done" \in Handlers \ {"none", "mode"} /\ Mode[c] # "input"
    BY <1>4 DEF Handlers
  <2>3. TypeInv' /\ BacklogInv' /\ GivenInv' /\ SendInv'
    BY <1>0, <1>4, <2>1, <2>2, HandlerMoves
  <2>4. WriterInv'
    BY <2>1, <2>2, WriterMoves
  <2> QED BY <2>3, <2>4 DEF Inv
<1>5. CASE \/ NoMode(c) \/ RelayEnds(c) \/ WriteFails(c) \/ Relay(c) \/ Lock(c)
           \/ Collected(c) /\ Mode[c] # "signal"
  <2>1. given' = given
    BY <1>5 DEF NoMode, RelayEnds, WriteFails, Collected, ActOn, Relay, Lock
  <2>2. PICK v \in {"done", "lock", "write"} :
          /\ handler' = [handler EXCEPT ![c] = v]
          /\ handler[c] \in {"mode", "relay", "write", "collect", "lock"}
          /\ handler[c] = "mode" => v = "done"
          /\ v = "write" => handler[c] = "lock"
          /\ v = "lock" => \/ handler[c] = "relay"
                           \/ handler[c] = "collect" /\ Mode[c] # "signal"
          /\ \/ writer' = writer /\ v # "write"
             \/ writer = Free /\ writer' = c
             \/ handler[c] = "write" /\ writer' = Free /\ v # "write"
    BY <1>5 DEF NoMode, RelayEnds, WriteFails, Collected, ActOn, Relay, Lock, Move
  <2>3. v \in Handlers \ {"none", "mode"}
    BY DEF Handlers
  <2>4. /\ Mode[c] = "input" => handler[c] # "relay"
        /\ Mode[c] = "signal" => v = "done"
    BY <1>5, <2>2 DEF Inv, SendInv, GivenInv
  <2>5. TypeInv' /\ BacklogInv' /\ GivenInv' /\ SendInv'
    BY <1>0, <1>1, <2>1, <2>2, <2>3, <2>4, HandlerMoves
  <2>6. WriterInv'
    BY <2>2, <2>3, WriterMoves
  <2> QED BY <2>5, <2>6 DEF Inv
<1> QED BY <1>2, <1>3, <1>4, <1>5 DEF HandlerStep

(* The terminal takes the next part of the client that writes: the one     *)
(* step that lengthens the input.                                          *)
LEMMA PartTaken ==
  ASSUME Inv, NEW c \in Client, WritePart(c), UNCHANGED clientVars
  PROVE  Inv'
<1>0. PICK m \in Nat : m = Len(input)
  BY DEF Inv, TypeInv
<1>1. /\ handler \in [Client -> Handlers] /\ given \in [Client -> Nat]
      /\ input \in Seq(Client \X Nat)
      /\ client' = client /\ backlog' = backlog
      /\ Mode[c] \in {"input", "attach", "resize", "signal"}
  BY InputAssumption DEF Inv, TypeInv, clientVars
<1>2. /\ given' = [given EXCEPT ![c] = given[c] + 1]
      /\ input' = Append(input, <<c, given[c] + 1>>)
      /\ handler[c] = "write" /\ writer = c
  BY <1>1 DEF WritePart, Inv, WriterInv
<1>3. PICK v \in {"write", "relay", "done"} :
        /\ handler' = [handler EXCEPT ![c] = v]
        /\ v = "write" => writer' = writer
        /\ v # "write" => writer' = Free
        /\ Mode[c] = "input" => v # "relay"
  <2>1. CASE given'[c] = got[c]
    BY <1>1, <2>1 DEF WritePart, Move, After
  <2>2. CASE given'[c] # got[c]
    <3>1. handler' = [handler EXCEPT ![c] = "write"] /\ writer' = writer
      BY <1>1, <1>2, <2>2 DEF WritePart
    <3> QED BY <3>1
  <2> QED BY <2>1, <2>2
<1>4. /\ given'[c] = given[c] + 1 /\ handler'[c] = v /\ given[c] \in Nat
      /\ \A e \in Client : e # c => handler'[e] = handler[e] /\ given'[e] = given[e]
      /\ \A e \in Client : given[e] \in Nat /\ given[e] <= given'[e] /\ given'[e] \in Nat
  BY <1>1, <1>2, <1>3
<1>5. /\ Len(input') = m + 1
      /\ input'[m + 1] = <<c, given[c] + 1>>
      /\ \A i \in 1 .. m : input'[i] = input[i]
  BY <1>0, <1>1, <1>2, <1>4
<1>6. /\ From(m + 1)' = c /\ Part(m + 1)' = given[c] + 1
      /\ \A i \in 1 .. m :
           From(i)' = From(i) /\ Part(i)' = Part(i) /\ From(i) \in Client /\ Part(i) \in Nat
  BY <1>0, <1>1, <1>5 DEF From, Part
<1>7. \A i \in 1 .. Len(input') : i = m + 1 \/ i \in 1 .. m
  BY <1>0, <1>5
<1>8. \A e \in Client : handler[e] = "write" => e = c
  BY <1>2 DEF Inv, WriterInv
<1>9. TypeInv'
  <2>1. input' \in Seq(Client \X Nat)
    BY <1>1, <1>2, <1>4
  <2>2. handler' \in [Client -> Handlers] /\ given' \in [Client -> Nat]
    BY <1>1, <1>2, <1>3, <1>4 DEF Handlers
  <2> QED BY <1>1, <2>1, <2>2 DEF Inv, TypeInv
<1>10. BacklogInv'
  <2>1. \A i \in 1 .. Len(backlog) : backlog[i] \in Client /\ backlog[i] # c
    BY <1>2 DEF Inv, TypeInv, BacklogInv
  <2>2. client[c] # "idle"
    BY <1>2 DEF Inv, BacklogInv
  <2> QED BY <1>1, <1>4, <2>1, <2>2 DEF Inv, BacklogInv
<1>11. WriterInv'
  <2>1. \A e \in Client : handler'[e] = "write" => e = c /\ v = "write"
    BY <1>4, <1>8
  <2> QED BY <1>2, <1>3, <2>1 DEF WriterInv
<1>12. GivenInv'
  <2>1. given[c] > 0
    BY <1>0, <1>2 DEF Inv, GivenInv
  <2>2. \A e \in Client :
          /\ Mode[e] = "signal" => handler'[e] \notin {"relay", "lock", "write"}
          /\ handler'[e] \in {"none", "mode"} => given'[e] = 0
          /\ handler'[e] \in {"collect", "relay", "lock", "write"} => given'[e] > 0
    BY <1>0, <1>2, <1>4, <2>1 DEF Inv, GivenInv
  <2>3. \A i \in 1 .. m :
          Part(i) >= 2 /\ Part(i) <= given[From(i)] /\ Mode[From(i)] # "signal"
    BY <1>0 DEF Inv, GivenInv
  <2>4. \A i \in 1 .. Len(input') :
          Part(i)' >= 2 /\ Part(i)' <= given'[From(i)'] /\ Mode[From(i)'] # "signal"
    <3> SUFFICES ASSUME NEW i \in 1 .. Len(input')
                 PROVE  /\ Part(i)' >= 2 /\ Part(i)' <= given'[From(i)']
                        /\ Mode[From(i)'] # "signal"
      OBVIOUS
    <3>1. CASE i = m + 1
      <4>1. Mode[c] # "signal"
        BY <1>2 DEF Inv, GivenInv
      <4> QED BY <1>4, <1>6, <2>1, <3>1, <4>1
    <3>2. CASE i \in 1 .. m
      <4>1. /\ given[From(i)] <= given'[From(i)] /\ Part(i) <= given[From(i)]
            /\ Part(i) >= 2 /\ Mode[From(i)] # "signal"
        BY <1>4, <1>6, <2>3, <3>2
      <4> QED BY <1>4, <1>6, <3>2, <4>1
    <3> QED BY <1>7, <3>1, <3>2
  <2>5. ASSUME NEW e \in Client, Mode[e] # "signal", NEW n \in 2 .. given'[e]
        PROVE  \E j \in 1 .. Len(input') : input'[j] = <<e, n>>
    <3>1. CASE e = c /\ n = given[c] + 1
      BY <1>0, <1>5, <3>1
    <3>2. CASE ~ (e = c /\ n = given[c] + 1)
      <4>1. n \in 2 .. given[e]
        BY <1>4, <3>2
      <4>2. PICK j \in 1 .. m : input[j] = <<e, n>>
        BY <1>0, <2>5, <4>1 DEF Inv, GivenInv
      <4> QED BY <1>0, <1>5, <4>2
    <3> QED BY <3>1, <3>2
  <2>6. ASSUME NEW i \in 1 .. Len(input'), NEW k \in 1 .. Len(input'),
               From(i)' = From(k)', i < k
        PROVE  Part(i)' < Part(k)'
    <3>1. i \in 1 .. m
      BY <1>0, <1>5, <2>6
    <3>2. CASE k \in 1 .. m
      <4>1. From(i) = From(k) => Part(i) < Part(k)
        BY <1>0, <2>6, <3>1, <3>2 DEF Inv, GivenInv
      <4> QED BY <1>6, <2>6, <3>1, <3>2, <4>1
    <3>3. CASE k = m + 1
      BY <1>4, <1>6, <2>3, <2>6, <3>1, <3>3
    <3> QED BY <1>7, <3>2, <3>3
  <2> QED BY <1>0, <2>2, <2>4, <2>5, <2>6 DEF GivenInv
<1>13. SendInv'
  <2>1. ASSUME NEW e \in Client, Mode[e] = "input"
        PROVE  /\ handler'[e] # "relay"
               /\ handler'[e] \in {"none", "mode", "collect", "lock"} => given'[e] <= 1
               /\ handler'[e] = "write" /\ given'[e] > 1 =>
                    (Len(input) > 0 /\ From(Len(input)) = e)'
    <3>1. CASE e = c
      <4>1. (Len(input) > 0 /\ From(Len(input)) = e)'
        BY <1>0, <1>5, <3>1 DEF From
      <4> QED BY <1>3, <1>4, <2>1, <3>1, <4>1
    <3>2. CASE e # c
      BY <1>0, <1>4, <1>8, <2>1, <3>2 DEF Inv, SendInv
    <3> QED BY <3>1, <3>2
  <2>2. \A i, k \in 1 .. m : From(i) = From(k) /\ Mode[From(i)] = "input" =>
          \A j \in i .. k : From(j) = From(i)
    BY <1>0 DEF Inv, SendInv
  <2>3. Mode[c] = "input" /\ given[c] > 1 => m > 0 /\ From(m) = c
    BY <1>0, <1>2 DEF Inv, SendInv
  <2>4. ASSUME NEW i \in 1 .. m, From(i) = c
        PROVE  given[c] > 1
    <3>1. Part(i) >= 2 /\ Part(i) <= given[c]
      BY <1>0, <2>4 DEF Inv, GivenInv
    <3> QED BY <1>4, <1>6, <3>1
  <2>5. ASSUME NEW i \in 1 .. Len(input'), NEW k \in 1 .. Len(input'),
               From(i)' = From(k)', Mode[From(i)'] = "input", NEW j \in i .. k
        PROVE  From(j)' = From(i)'
    <3>1. CASE k \in 1 .. m
      <4>1. i \in 1 .. m /\ j \in 1 .. m
        BY <1>0, <1>5, <3>1
      <4> QED BY <1>6, <2>2, <2>5, <3>1, <4>1
    <3>2. CASE k = m + 1 /\ i \in 1 .. m
      <4>1. From(i) = c /\ Mode[c] = "input"
        BY <1>6, <2>5, <3>2
      <4>2. m > 0 /\ From(m) = c
        BY <2>3, <2>4, <3>2, <4>1
      <4>3. j = k \/ j \in i .. m
        BY <1>0, <1>5, <3>2
      <4>4. j \in i .. m => From(j) = c
        BY <1>0, <1>5, <2>2, <3>2, <4>1, <4>2
      <4>5. j \in i .. m => j \in 1 .. m
        BY <1>0, <1>5, <3>2
      <4> QED BY <1>6, <2>5, <3>2, <4>1, <4>3, <4>4, <4>5
    <3>3. CASE k = m + 1 /\ i = m + 1
      <4>1. j = i
        BY <1>0, <1>5, <3>3
      <4> QED BY <4>1
    <3> QED BY <1>7, <3>1, <3>2, <3>3
  <2>6. \A i, k \in 1 .. Len(input') :
          From(i)' = From(k)' /\ Mode[From(i)'] = "input" => \A j \in i .. k : From(j)' = From(i)'
    BY <2>5
  <2> QED BY <2>1, <2>6 DEF SendInv
<1> QED BY <1>9, <1>10, <1>11, <1>12, <1>13 DEF Inv

(* How much has been written and read is counted in naturals.              *)
CountInv == wrote \in [Client -> Nat] /\ got \in [Client -> Nat]

LEMMA CountStep == CountInv /\ [InputNext]_inputVars => CountInv'
<1> SUFFICES ASSUME CountInv, [InputNext]_inputVars PROVE CountInv'
  OBVIOUS
<1>1. CASE UNCHANGED <<wrote, got>>
  BY <1>1 DEF CountInv
<1>2. CASE \E c \in Client : \E n \in Nat :
        \/ wrote' = [wrote EXCEPT ![c] = n] /\ got' = got
        \/ got' = [got EXCEPT ![c] = n] /\ wrote' = wrote
  BY <1>2 DEF CountInv
<1>3. ASSUME NEW c \in Client,
             \/ Connect(c) \/ ConnectFails(c) \/ ClientWrite(c) \/ ClientLeaves(c)
      PROVE  CountInv'
  <2>1. wrote[c] + 1 \in Nat /\ 1 \in Nat
    BY DEF CountInv
  <2> QED BY <1>1, <1>2, <1>3, <2>1 DEF Connect, ConnectFails, ClientWrite, ClientLeaves, handlerVars
<1>4. ASSUME NEW c \in Client, HandlerStep(c)
      PROVE  CountInv'
  <2>1. \A n \in got[c] + 1 .. wrote[c] : n \in Nat
    BY DEF CountInv
  <2>2. wrote' = wrote /\ wrote[c] \in Nat /\ 1 \in Nat
    BY <1>4 DEF HandlerStep, clientVars, CountInv
  <2> QED BY <1>1, <1>2, <1>4, <2>1, <2>2 DEF HandlerStep, ReadMode, NoMode, Collect, Collected,
             ActOn, Relay, RelayEnds, Lock, WriteFails
<1>5. CASE TerminalTakes
  BY <1>1, <1>5 DEF TerminalTakes, WritePart, clientVars
<1>6. CASE \/ ServiceStep \/ GoLive \/ Start \/ Accept \/ Stop \/ Return \/ UNCHANGED inputVars
  BY <1>1, <1>6 DEF ServiceStep, GoLive, Start, Accept, Stop, Return, inputVars, clientVars,
     handlerVars
<1> QED BY <1>3, <1>4, <1>5, <1>6 DEF InputNext

LEMMA InvStep == Inv /\ CountInv /\ [InputNext]_inputVars => Inv'
<1> SUFFICES ASSUME Inv, CountInv, [InputNext]_inputVars PROVE Inv'
  OBVIOUS
<1>1. CASE \/ ServiceStep \/ GoLive \/ Start \/ Stop \/ Return \/ UNCHANGED inputVars
  <2>1. UNCHANGED <<clientVars, handlerVars>>
    BY <1>1 DEF ServiceStep, GoLive, Start, Stop, Return, inputVars
  <2> QED BY <2>1, Elsewhere
<1>2. CASE Accept
  BY <1>2, AcceptStep
<1>3. CASE TerminalTakes
  <2>1. PICK c \in Client : WritePart(c) /\ UNCHANGED clientVars
    BY <1>3 DEF TerminalTakes
  <2> QED BY <2>1, PartTaken
<1>4. CASE \E c \in Client : \/ Connect(c) \/ ConnectFails(c) \/ ClientWrite(c)
                             \/ ClientLeaves(c) \/ HandlerStep(c)
  <2>1. PICK c \in Client : \/ Connect(c) \/ ConnectFails(c) \/ ClientWrite(c)
                            \/ ClientLeaves(c) \/ HandlerStep(c)
    BY <1>4
  <2>2. CASE HandlerStep(c)
    <3>1. got[c] \in Nat
      BY DEF CountInv
    <3> QED BY <2>2, <3>1, HandlerQuiet
  <2>3. CASE Connect(c) \/ ConnectFails(c) \/ ClientWrite(c) \/ ClientLeaves(c)
    BY <2>3, ClientStep
  <2> QED BY <2>1, <2>2, <2>3
<1> QED BY <1>1, <1>2, <1>3, <1>4 DEF InputNext

LEMMA WholeOfInv == Inv => InputWhole
<1> SUFFICES ASSUME Inv PROVE InputWhole
  OBVIOUS
<1>1. Len(input) \in Nat /\ given \in [Client -> Nat]
      /\ \A i \in 1 .. Len(input) : /\ From(i) \in Client /\ Part(i) \in Nat
                                    /\ input[i] = <<From(i), Part(i)>>
  BY DEF Inv, TypeInv, From, Part
<1>2. ASSUME NEW i \in 1 .. Len(input), NEW n \in 2 .. Part(i)
      PROVE  \E j \in 1 .. i : input[j] = <<From(i), n>>
  <2>1. n \in 2 .. given[From(i)] /\ Mode[From(i)] # "signal"
    BY <1>1 DEF Inv, GivenInv
  <2>2. PICK j \in 1 .. Len(input) : input[j] = <<From(i), n>>
    BY <1>1, <2>1 DEF Inv, GivenInv
  <2>3. From(j) = From(i) /\ Part(j) = n
    BY <2>2 DEF From, Part
  <2>4. ~ (i < j)
    BY <1>1, <2>3 DEF Inv, GivenInv
  <2>5. j \in 1 .. i
    BY <1>1, <2>4
  <2> QED BY <2>2, <2>5
<1>3. \A i, k \in 1 .. Len(input) : From(i) = From(k) /\ i < k => Part(i) < Part(k)
  BY DEF Inv, GivenInv
<1>4. \A i, k \in 1 .. Len(input) : From(i) = From(k) /\ Mode[From(i)] = "input" =>
        \A j \in i .. k : From(j) = From(i)
  BY DEF Inv, SendInv
<1> QED BY <1>2, <1>3, <1>4 DEF InputWhole

-----------------------------------------------------------------------------
(* The text of each client is on the terminal in order with nothing        *)
(* missing, and that of one send in one piece: handle_client,              *)
(* handle_attach_client and the mutex of the terminal's writer.            *)
THEOREM Whole == InputSpec => []InputWhole
<1>1. InputInit => CountInv
  BY DEF InputInit, CountInv
<1>2. InputSpec => []Inv
  BY <1>1, InvInit, InvStep, CountStep, PTL DEF InputSpec
<1> QED BY <1>2, WholeOfInv, PTL
=============================================================================
