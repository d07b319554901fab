---------------------------- MODULE AttachProofs ----------------------------
(***************************************************************************)
(* What is true of an attached client for every detach sequence, size of   *)
(* the terminal, room of the socket and text typed.                        *)
(*                                                                         *)
(* Two invariants, one for the input thread and one for the terminal: the  *)
(* threads share nothing but the socket.                                   *)
(***************************************************************************)
EXTENDS Attach, TLAPS

Starting == {"connect", "parse", "raw", "screen", "region"}

(* The input thread holds back nothing before it is started, and has       *)
(* something to write when it writes.                                      *)
InputInv ==
  /\ TypeOK
  /\ KeysArePassedOn
  /\ main \in Starting => input = "off"
  /\ input = "off" => pending = << >>
  /\ input = "write" => pending # << >>

(* What has been changed in the terminal at each place of the main thread. *)
Changed ==
  /\ main \in {"connect", "parse", "raw"} => terminal = {}
  /\ main = "screen" => terminal = {"raw"}
  /\ main = "region" => terminal = {"raw", "screen"}
  /\ main = "drop_screen" => broken \/ terminal \subseteq {"raw", "screen"}
  /\ main = "drop_raw" => broken \/ terminal \subseteq {"raw"}
  /\ TerminalRestored

(* The heights the two sides were told, as long as nothing has moved.      *)
Heights ==
  ~ moved =>
    /\ main \in Starting \ {"connect"} => handed = UsableRows(size)
    /\ main = "serve" => handed = UsableRows(size) /\ bar = BarRow(size)

ScreenInv == TypeOK /\ Changed /\ Heights

-----------------------------------------------------------------------------
(* Every variable has its type.                                            *)

LEMMA TypeInit == Init => TypeOK
<1> SUFFICES ASSUME Init PROVE TypeOK
  OBVIOUS
<1>1. size \in Size
  BY AttachAssumption DEF Init
<1>2. typed \in Seq(Key) /\ pending \in Seq(Key) /\ written \in Seq(Key)
  BY DEF Init
<1> QED BY <1>1, <1>2 DEF Init, TypeOK

LEMMA TypeStep == TypeOK /\ (input = "write" => pending # << >>) /\ [Next]_vars => TypeOK'
<1> SUFFICES ASSUME TypeOK, input = "write" => pending # << >>, [Next]_vars
             PROVE  TypeOK'
  OBVIOUS
<1> USE DEF TypeOK, vars, screenVars, inputVars, outsideVars
<1>1. CASE Main
  <2>1. UsableRows(size) \in Nat /\ BarRow(size) \in Nat
    BY DEF UsableRows, BarRow, AtLeast, Size
  <2>2. CASE Connect \/ ParseDetachKey \/ EnableRaw \/ EnterScreen
    BY <2>1, <2>2 DEF Connect, ParseDetachKey, EnableRaw, EnterScreen, MainStep
  <2>3. CASE EnterRegion
    BY <2>1, <2>3 DEF EnterRegion
  <2>4. CASE Show
    BY <2>4 DEF Show
  <2>6. CASE EndOfStream
    BY <2>6 DEF EndOfStream, MainStep
  <2>5. CASE DropGuards
    <3>1. terminal' \subseteq {"raw", "screen", "region"}
      BY <2>5 DEF DropGuards, Drop
    <3> QED BY <2>5, <3>1 DEF DropGuards, Drop, MainStep
  <2> QED BY <1>1, <2>2, <2>3, <2>4, <2>5, <2>6 DEF Main
<1>2. CASE Failure
  <2>1. CASE ConnectFails
    BY <2>1 DEF ConnectFails, MainStep
  <2>2. CASE EnterFails
    BY <2>2 DEF EnterFails, MainStep
  <2>3. CASE ServeFails
    BY <2>3 DEF ServeFails, MainStep
  <2>4. CASE Kill \/ InputFails
    BY <2>4 DEF Kill, InputFails
  <2> QED BY <1>2, <2>1, <2>2, <2>3, <2>4 DEF Failure
<1>3. CASE InputThread
  <2>1. CASE TakeKey
    <3>1. typed[taken + 1] \in Key
      BY <2>1 DEF TakeKey
    <3> QED BY <2>1, <3>1 DEF TakeKey
  <2>2. CASE WriteKey
    BY <2>2 DEF WriteKey
  <2>3. CASE WriteRefused \/ EndOfInput
    BY <2>3 DEF WriteRefused, EndOfInput
  <2> QED BY <1>3, <2>1, <2>2, <2>3 DEF InputThread
<1>4. CASE Outside
  <2>1. CASE Resize
    <3>1. size' \in Size
      BY <2>1, AttachAssumption DEF Resize
    <3> QED BY <2>1, <3>1 DEF Resize
  <2>2. CASE Hear \/ Say
    <3>1. heard' \in Nat /\ said' \in Nat
      BY <2>2 DEF Hear, Say
    <3>2. UNCHANGED <<main, screenVars, inputVars, typed, closed, peer, shown, killed>>
      BY <2>2 DEF Hear, Say
    <3> QED BY <3>1, <3>2
  <2>3. CASE CloseInput \/ PeerCloses
    BY <2>3 DEF CloseInput, PeerCloses
  <2>4. ASSUME NEW k \in Key, Type(k) PROVE TypeOK'
    BY <2>4 DEF Type
  <2> QED BY <1>4, <2>1, <2>2, <2>3, <2>4 DEF Outside
<1>5. CASE UNCHANGED vars
  BY <1>5
<1> QED BY <1>1, <1>2, <1>3, <1>4, <1>5 DEF Next

-----------------------------------------------------------------------------
(* The input thread.                                                       *)

LEMMA InputInit == Init => InputInv
<1> SUFFICES ASSUME Init PROVE InputInv
  OBVIOUS
<1>1. TypeOK
  BY TypeInit
<1> QED BY <1>1, AttachAssumption DEF Init, InputInv, KeysArePassedOn, Begins, Starting

(* A byte more is held back, after those of an attempt or after none.      *)
LEMMA TakeKeyKeeps == InputInv /\ TakeKey => InputInv'
<1> SUFFICES ASSUME InputInv, TakeKey PROVE InputInv'
  OBVIOUS
<1>1. TypeOK /\ KeysArePassedOn /\ (main \in Starting => input = "off")
  BY DEF InputInv
<1>2. TypeOK'
  BY TypeStep DEF InputInv, Next, InputThread
<1>3. /\ taken' = taken + 1 /\ taken < Len(typed) /\ taken \in Nat
      /\ pending' = Append(pending, typed[taken + 1])
      /\ input = "read" /\ UNCHANGED <<main, written, typed, heard>>
  BY <1>1 DEF TakeKey, TypeOK, outsideVars
<1>4. input' = IF pending' = Detach THEN "detached"
               ELSE IF Begins(pending') THEN "read" ELSE "write"
  BY DEF TakeKey
<1>5. Len(written) + Len(pending) = taken /\ Len(written) \in Nat /\ Len(pending) \in Nat
  BY <1>1 DEF KeysArePassedOn, TypeOK
<1>6. Len(pending') = Len(pending) + 1 /\ pending' # << >>
  BY <1>1, <1>3 DEF TypeOK
<1>7. \A i \in 1 .. Len(pending') : pending'[i] = typed'[Len(written') + i]
  <2> SUFFICES ASSUME NEW i \in 1 .. Len(pending')
               PROVE  pending'[i] = typed[Len(written) + i]
    BY <1>3
  <2>1. CASE i \in 1 .. Len(pending)
    BY <1>1, <1>3, <2>1 DEF KeysArePassedOn, TypeOK
  <2>2. CASE i = Len(pending) + 1
    BY <1>1, <1>3, <1>5, <2>2 DEF TypeOK
  <2> QED BY <1>5, <1>6, <2>1, <2>2
<1>8. /\ input' \in {"read", "eof", "failed"} => Begins(pending)' /\ pending' # Detach
      /\ input' = "detached" => pending' = Detach
  BY <1>4 DEF Begins
<1>9. taken' <= Len(typed') /\ Len(written') + Len(pending') = taken'
  BY <1>3, <1>5, <1>6, <1>1 DEF TypeOK
<1>10. KeysArePassedOn'
  BY <1>1, <1>3, <1>7, <1>8, <1>9 DEF KeysArePassedOn
<1> QED BY <1>1, <1>2, <1>3, <1>4, <1>6, <1>10 DEF InputInv

(* The first byte held back becomes the last byte written.                 *)
LEMMA WriteKeyKeeps == InputInv /\ WriteKey => InputInv'
<1> SUFFICES ASSUME InputInv, WriteKey PROVE InputInv'
  OBVIOUS
<1>1. TypeOK /\ KeysArePassedOn /\ pending # << >> /\ (main \in Starting => input = "off")
  BY DEF InputInv, WriteKey
<1>2. TypeOK'
  BY TypeStep DEF InputInv, Next, InputThread
<1>3. /\ input = "write" /\ UNCHANGED <<main, taken, typed, heard>>
      /\ written' = Append(written, Head(pending)) /\ pending' = Tail(pending)
      /\ input' = IF pending' = << >> THEN "read" ELSE "write"
  BY DEF WriteKey, outsideVars
<1>4. /\ Len(written') = Len(written) + 1 /\ Len(pending') = Len(pending) - 1
      /\ Len(written) \in Nat /\ Len(pending) \in Nat \ {0} /\ heard \in Nat
  BY <1>1, <1>3 DEF TypeOK
<1>5. \A i \in 1 .. Len(written') : written'[i] = typed'[i]
  <2> SUFFICES ASSUME NEW i \in 1 .. Len(written') PROVE written'[i] = typed[i]
    BY <1>3
  <2>1. CASE i \in 1 .. Len(written)
    BY <1>1, <1>3, <2>1 DEF KeysArePassedOn, TypeOK
  <2>2. CASE i = Len(written) + 1
    <3>1. written'[i] = pending[1]
      BY <1>1, <1>3, <2>2 DEF TypeOK
    <3> QED BY <1>1, <1>4, <2>2, <3>1 DEF KeysArePassedOn
  <2> QED BY <1>4, <2>1, <2>2
<1>6. \A i \in 1 .. Len(pending') : pending'[i] = typed'[Len(written') + i]
  <2> SUFFICES ASSUME NEW i \in 1 .. Len(pending')
               PROVE  pending'[i] = typed[Len(written) + 1 + i]
    BY <1>3, <1>4
  <2>1. pending'[i] = pending[i + 1] /\ i + 1 \in 1 .. Len(pending)
    BY <1>1, <1>3, <1>4 DEF TypeOK
  <2>2. Len(written) + (i + 1) = Len(written) + 1 + i
    BY <1>4
  <2> QED BY <1>1, <2>1, <2>2 DEF KeysArePassedOn
<1>7. input' \in {"read", "eof", "failed"} => Begins(pending)' /\ pending' # Detach
  <2> SUFFICES ASSUME input' \in {"read", "eof", "failed"}
               PROVE  Begins(pending)' /\ pending' # Detach
    OBVIOUS
  <2>1. pending' = << >>
    BY <1>3
  <2> QED BY <2>1, AttachAssumption DEF Begins
<1>8. /\ Len(written') + Len(pending') = taken' /\ taken' <= Len(typed')
      /\ heard' <= Len(written') /\ input' # "detached"
  BY <1>1, <1>3, <1>4 DEF KeysArePassedOn
<1>9. KeysArePassedOn'
  BY <1>5, <1>6, <1>7, <1>8 DEF KeysArePassedOn
<1> QED BY <1>1, <1>2, <1>3, <1>9 DEF InputInv

(* More is typed.                                                          *)
LEMMA TypeKeeps == ASSUME NEW k \in Key, InputInv, Type(k) PROVE InputInv'
<1>1. TypeOK /\ KeysArePassedOn
  BY DEF InputInv
<1>2. TypeOK'
  BY TypeStep DEF InputInv, Next, Outside
<1>3. /\ typed' = Append(typed, k)
      /\ UNCHANGED <<main, input, taken, pending, written, heard>>
  BY DEF Type, inputVars
<1>4. \A i \in 1 .. Len(typed) : typed'[i] = typed[i]
  BY <1>1, <1>3 DEF TypeOK
<1>5. Len(typed') = Len(typed) + 1 /\ Len(typed) \in Nat
  BY <1>1, <1>3 DEF TypeOK
<1>6. Len(written) \in Nat /\ Len(pending) \in Nat /\ taken \in Nat
  BY <1>1 DEF TypeOK
<1>7. KeysArePassedOn'
  BY <1>1, <1>3, <1>4, <1>5, <1>6 DEF KeysArePassedOn, Begins
<1> QED BY <1>2, <1>3, <1>7 DEF InputInv

LEMMA InputStep == InputInv /\ [Next]_vars => InputInv'
<1> SUFFICES ASSUME InputInv, [Next]_vars PROVE InputInv'
  OBVIOUS
<1>1. TypeOK'
  BY TypeStep DEF InputInv
<1> USE <1>1 DEF InputInv, KeysArePassedOn, Begins, Starting, TypeOK,
        inputVars, outsideVars
<1>2. CASE Main
  <2>1. CASE EnterRegion
    BY <2>1, AttachAssumption DEF EnterRegion
  <2>2. CASE Main /\ ~ EnterRegion
    BY <2>2 DEF Main, Connect, ParseDetachKey, EnableRaw, EnterScreen, Show,
       EndOfStream, DropGuards, Drop, MainStep
  <2> QED BY <1>2, <2>1, <2>2
<1>3. CASE Failure
  BY <1>3 DEF Failure, ConnectFails, EnterFails, ServeFails, Kill, InputFails, MainStep
<1>4. CASE InputThread
  <2>1. CASE WriteRefused \/ EndOfInput
    BY <2>1 DEF WriteRefused, EndOfInput
  <2> QED BY <1>4, <2>1, TakeKeyKeeps, WriteKeyKeeps DEF InputThread
<1>5. CASE Outside
  <2>1. CASE CloseInput \/ Resize \/ Say \/ PeerCloses
    BY <2>1 DEF CloseInput, Resize, Say, PeerCloses
  <2>2. CASE Hear
    <3>1. heard' <= Len(written') /\ UNCHANGED <<main, inputVars, typed>>
      BY <2>2 DEF Hear
    <3> QED BY <3>1
  <2> QED BY <1>5, <2>1, <2>2, TypeKeeps DEF Outside
<1>6. CASE UNCHANGED vars
  BY <1>6 DEF vars
<1> QED BY <1>2, <1>3, <1>4, <1>5, <1>6 DEF Next

LEMMA InputInvariance == Spec => []InputInv
  BY InputInit, InputStep, PTL DEF Spec

(* Every variable has its type, for any constants.                         *)
THEOREM TypeCorrect == Spec => []TypeOK
<1>1. InputInv => TypeOK
  BY DEF InputInv
<1> QED BY <1>1, InputInvariance, PTL

(* The service is given what was typed, in order, and nothing else; what   *)
(* is held back is a beginning of the detach sequence, or the sequence.    *)
THEOREM PassedOn == Spec => []KeysArePassedOn
<1>1. InputInv => KeysArePassedOn
  BY DEF InputInv
<1> QED BY <1>1, InputInvariance, PTL

-----------------------------------------------------------------------------
(* The terminal.                                                           *)

(* On a terminal of two rows and some columns the bar has the last row,    *)
(* and the program those above it; on one without rows it is below them.   *)
LEMMA RowsFit ==
  ASSUME NEW s \in Size
  PROVE  /\ s.rows >= 2 /\ s.cols # 0
              => UsableRows(s) + 1 = BarRow(s) /\ BarRow(s) = s.rows
         /\ s.rows = 0 => UsableRows(s) < BarRow(s)
  BY DEF UsableRows, BarRow, AtLeast, Size

LEMMA ScreenInit == Init => ScreenInv
<1> SUFFICES ASSUME Init PROVE ScreenInv
  OBVIOUS
<1>1. TypeOK
  BY TypeInit
<1> QED BY <1>1 DEF Init, ScreenInv, Changed, Heights, TerminalRestored, Starting

LEMMA ChangedStep == TypeOK /\ Changed /\ [Next]_vars => Changed'
<1> SUFFICES ASSUME TypeOK, Changed, [Next]_vars PROVE Changed'
  OBVIOUS
<1> USE DEF TypeOK, Changed, TerminalRestored, vars, screenVars
<1>1. CASE Main
  <2>1. CASE DropGuards
    BY <2>1 DEF DropGuards, Drop, MainStep
  <2>2. CASE Main /\ ~ DropGuards
    BY <2>2 DEF Main, Connect, ParseDetachKey, EnableRaw, EnterScreen, EnterRegion,
       Show, EndOfStream, MainStep
  <2> QED BY <1>1, <2>1, <2>2
<1>2. CASE Failure
  BY <1>2 DEF Failure, ConnectFails, EnterFails, ServeFails, Kill, InputFails, MainStep
<1>3. CASE InputThread
  BY <1>3 DEF InputThread, TakeKey, WriteKey, WriteRefused, EndOfInput
<1>4. CASE Outside
  BY <1>4 DEF Outside, CloseInput, Resize, Hear, Say, PeerCloses, Type
<1>5. CASE UNCHANGED vars
  BY <1>5
<1> QED BY <1>1, <1>2, <1>3, <1>4, <1>5 DEF Next

LEMMA HeightsStep == Heights /\ [Next]_vars => Heights'
<1> SUFFICES ASSUME Heights, [Next]_vars PROVE Heights'
  OBVIOUS
<1> USE DEF Heights, Starting, vars, screenVars, UsableRows, BarRow
<1>1. CASE Main
  BY <1>1 DEF Main, Connect, ParseDetachKey, EnableRaw, EnterScreen, EnterRegion,
     Show, EndOfStream, DropGuards, Drop, MainStep
<1>2. CASE Failure
  BY <1>2 DEF Failure, ConnectFails, EnterFails, ServeFails, Kill, InputFails, MainStep
<1>3. CASE InputThread
  BY <1>3 DEF InputThread, TakeKey, WriteKey, WriteRefused, EndOfInput
<1>4. CASE Outside
  BY <1>4 DEF Outside, CloseInput, Resize, Hear, Say, PeerCloses, Type
<1>5. CASE UNCHANGED vars
  BY <1>5
<1> QED BY <1>1, <1>2, <1>3, <1>4, <1>5 DEF Next

LEMMA ScreenInvariance == Spec => [](Changed /\ Heights /\ TypeOK)
<1>1. Init => Changed /\ Heights
  BY ScreenInit DEF ScreenInv
<1> QED BY <1>1, TypeCorrect, ChangedStep, HeightsStep, PTL DEF Spec

(* Every end but a kill leaves the terminal as it was found, at whatever   *)
(* step of setting it up, serving or putting it back something failed.     *)
THEOREM Restored == Spec => []TerminalRestored
<1>1. Changed => TerminalRestored
  BY DEF Changed
<1> QED BY <1>1, ScreenInvariance, PTL

(* The program is given all rows but the last, and the status bar that     *)
(* one, on every terminal of two rows or more that has columns; and the    *)
(* bar is below the program on one without rows.                           *)
THEOREM FreeBar == Spec => []BarIsFree
<1>1. TypeOK /\ Heights => BarIsFree
  <2> SUFFICES ASSUME TypeOK, Heights, main = "serve", ~ moved
               PROVE  /\ size.rows >= 2 /\ size.cols # 0
                           => handed + 1 = bar /\ bar = size.rows
                      /\ size.rows = 0 => handed < bar
    BY DEF BarIsFree
  <2>1. /\ handed = UsableRows(size) /\ bar = BarRow(size)
        /\ size \in Size
    BY DEF Heights, TypeOK
  <2> QED BY <2>1, RowsFit
<1> QED BY <1>1, ScreenInvariance, PTL
=============================================================================
