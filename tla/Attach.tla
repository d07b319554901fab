------------------------------- MODULE Attach -------------------------------
(***************************************************************************)
(* A client attached to a session (src/runtime/client.rs, attach): the     *)
(* main thread sets the user's terminal up, shows what the service sends,  *)
(* and puts the terminal back; the input thread (src/runtime/protocol.rs,  *)
(* attach_input_loop) passes on what is typed, except for the detach       *)
(* sequence, which ends the client.  Both use one socket, whose other end  *)
(* is the handler of module Input.                                         *)
(*                                                                         *)
(* The terminal is put back by guards, dropped in the reverse of the order *)
(* in which they were made, also on an error or a panic                    *)
(* (src/runtime/ui.rs).                                                    *)
(***************************************************************************)
EXTENDS Naturals, Sequences

CONSTANTS
  Key,       \* what can be typed
  Detach,    \* the detach sequence
  Sizes,     \* the sizes the user's terminal may have
  Room,      \* how many unread keys the socket holds
  MaxTyped,  \* bound: how many keys are typed
  MaxSaid    \* bound: how many times the service sends output

Size == [rows : Nat, cols : Nat]

ASSUME AttachAssumption ==
  /\ Detach \in Seq(Key) /\ Detach # << >>
  /\ Sizes \subseteq Size

VARIABLES
  main,      \* connect, parse, raw, screen, region, serve; then the guards
             \* to drop: drop_region, drop_screen, drop_raw; gone
  terminal,  \* how the terminal has been changed: raw, screen, region
  broken,    \* whether a write to the terminal has failed
  size,      \* the size of the terminal
  moved,     \* whether that changed while the client was starting
  handed,    \* the height the service was told
  bar,       \* the row of the status bar
  input,     \* the input thread: off, read, write; detached, eof, refused,
             \* failed
  typed,     \* what the user has typed
  closed,    \* whether the user's end of the input is closed
  taken,     \* how much of it the input thread has read
  pending,   \* the bytes it holds back
  written,   \* the bytes it has written to the socket
  shut,      \* whether it has shut the socket down
  heard,     \* how many of them the service has read
  peer,      \* whether the service has its end open
  said,      \* how many times the service has sent output
  shown,     \* how many of them the client has shown
  killed     \* whether the process was killed

screenVars == <<terminal, broken, size, moved, handed, bar>>

inputVars == <<input, taken, pending, written, shut>>

outsideVars == <<typed, closed, heard, peer, said>>

vars == <<main, screenVars, inputVars, outsideVars, shown, killed>>

Init ==
  /\ main = "connect" /\ terminal = {} /\ broken = FALSE
  /\ size \in Sizes /\ moved = FALSE /\ handed = 0 /\ bar = 0
  /\ input = "off" /\ typed = << >> /\ closed = FALSE
  /\ taken = 0 /\ pending = << >> /\ written = << >> /\ shut = FALSE
  /\ heard = 0 /\ peer = TRUE
  /\ said = 0 /\ shown = 0 /\ killed = FALSE

-----------------------------------------------------------------------------
(* The main thread.                                                        *)

AtLeast(n, least) == IF n < least THEN least ELSE n

(* Mutant of UsableRows: no row is kept for the status bar.                *)
AllRows(s) == AtLeast(s.rows, 1)

(* attach_handshake_payload: one row is kept, u16 saturates at 0.          *)
UsableRows(s) == AtLeast(IF s.rows = 0 THEN 0 ELSE s.rows - 1, 1)

(* terminal_size takes a terminal without rows, or without columns, for    *)
(* one of 24 rows.                                                         *)
BarRow(s) == AtLeast(IF s.rows = 0 \/ s.cols = 0 THEN 24 ELSE s.rows, 2)

MainStep(from, to) ==
  /\ main = from /\ main' = to
  /\ UNCHANGED <<inputVars, outsideVars, shown, killed>>

Connect ==
  /\ peer /\ MainStep("connect", "parse")
  /\ handed' = UsableRows(size)
  /\ UNCHANGED <<terminal, broken, size, moved, bar>>

(* No session, no socket, nobody listening; then a detach key that is not  *)
(* one; then no terminal.                                                  *)
ConnectFails ==
  /\ \/ MainStep("connect", "gone") \/ MainStep("parse", "gone")
     \/ MainStep("raw", "gone")
  /\ UNCHANGED screenVars

ParseDetachKey == MainStep("parse", "raw") /\ UNCHANGED screenVars

EnableRaw ==
  /\ MainStep("raw", "screen")
  /\ terminal' = terminal \cup {"raw"}
  /\ UNCHANGED <<broken, size, moved, handed, bar>>

EnterScreen ==
  /\ MainStep("screen", "region")
  /\ terminal' = terminal \cup {"screen"}
  /\ UNCHANGED <<broken, size, moved, handed, bar>>

(* The scrolling region leaves out the row of the status bar.  The input   *)
(* thread is started, and the bar drawn.                                   *)
EnterRegion ==
  /\ main = "region" /\ main' = "serve"
  /\ terminal' = terminal \cup {"region"}
  /\ bar' = BarRow(size)
  /\ input' = "read"
  /\ UNCHANGED <<broken, size, moved, handed, taken, pending, written, shut,
                 outsideVars, shown, killed>>

(* The write that changes the terminal fails, and may have changed it; the *)
(* guards made before are dropped, this one does not exist.                *)
EnterFails ==
  /\ \/ MainStep("screen", "drop_raw") /\ terminal' \in {terminal, terminal \cup {"screen"}}
     \/ MainStep("region", "drop_screen") /\ terminal' \in {terminal, terminal \cup {"region"}}
  /\ broken' = TRUE
  /\ UNCHANGED <<size, moved, handed, bar>>

Show ==
  /\ main = "serve" /\ shown < said
  /\ shown' = shown + 1
  /\ UNCHANGED <<main, screenVars, inputVars, outsideVars, killed>>

(* The end of the stream: the service has closed the socket, or the input  *)
(* thread has shut it down.                                                *)
EndOfStream ==
  /\ (~ peer \/ shut) /\ shown = said
  /\ MainStep("serve", "drop_region")
  /\ UNCHANGED screenVars

(* Mutant of ServeFails: the process exits where it is.                    *)
ServeExits ==
  /\ MainStep("serve", "gone")
  /\ UNCHANGED screenVars

(* A write to the terminal fails, a read of the socket does, or the thread *)
(* panics as it cuts the text of the status bar inside a character.        *)
ServeFails ==
  /\ MainStep("serve", "drop_region")
  /\ broken' \in BOOLEAN /\ (broken => broken')
  /\ UNCHANGED <<terminal, size, moved, handed, bar>>

(* What is written to a broken terminal may have no effect.                *)
Drop(mode, from, to) ==
  /\ MainStep(from, to)
  /\ \/ terminal' = terminal \ {mode}
     \/ broken /\ mode # "raw" /\ UNCHANGED terminal
  /\ UNCHANGED <<broken, size, moved, handed, bar>>

DropGuards ==
  \/ Drop("region", "drop_region", "drop_screen")
  \/ Drop("screen", "drop_screen", "drop_raw")
  \/ Drop("raw", "drop_raw", "gone")

Kill ==
  /\ main # "gone" /\ main' = "gone" /\ killed' = TRUE
  /\ UNCHANGED <<screenVars, inputVars, outsideVars, shown>>

-----------------------------------------------------------------------------
(* The input thread, as long as there is a process.                        *)

Begins(bytes) ==
  /\ Len(bytes) <= Len(Detach)
  /\ \A i \in 1 .. Len(bytes) : bytes[i] = Detach[i]

(* Mutant of TakeKey: the whole sequence is held back as a beginning is.   *)
TakeKeyOnly ==
  /\ input = "read" /\ main # "gone" /\ taken < Len(typed)
  /\ taken' = taken + 1
  /\ pending' = Append(pending, typed[taken'])
  /\ input' = IF Begins(pending') THEN "read" ELSE "write"
  /\ UNCHANGED <<main, screenVars, written, shut, outsideVars, shown, killed>>

(* A byte is held back as long as it may belong to the detach sequence.    *)
TakeKey ==
  /\ input = "read" /\ main # "gone" /\ taken < Len(typed)
  /\ taken' = taken + 1
  /\ pending' = Append(pending, typed[taken'])
  /\ input' = CASE pending' = Detach -> "detached"
                [] pending' # Detach /\ Begins(pending') -> "read"
                [] OTHER -> "write"
  /\ shut' = (pending' = Detach)
  /\ UNCHANGED <<main, screenVars, written, outsideVars, shown, killed>>

(* Mutant of WriteKey: only the last byte is passed on.                    *)
WriteLastKey ==
  /\ input = "write" /\ main # "gone" /\ peer
  /\ Len(written) - heard < Room
  /\ written' = Append(written, pending[Len(pending)])
  /\ pending' = << >>
  /\ input' = "read"
  /\ UNCHANGED <<main, screenVars, taken, shut, outsideVars, shown, killed>>

(* write_all waits for room in the socket.                                 *)
WriteKey ==
  /\ input = "write" /\ main # "gone" /\ peer
  /\ Len(written) - heard < Room
  /\ written' = Append(written, Head(pending))
  /\ pending' = Tail(pending)
  /\ input' = IF pending' = << >> THEN "read" ELSE "write"
  /\ UNCHANGED <<main, screenVars, taken, shut, outsideVars, shown, killed>>

WriteRefused ==
  /\ input = "write" /\ main # "gone" /\ ~ peer
  /\ input' = "refused"
  /\ UNCHANGED <<main, screenVars, taken, pending, written, shut, outsideVars,
                 shown, killed>>

EndOfInput ==
  /\ input = "read" /\ main # "gone" /\ closed /\ taken = Len(typed)
  /\ input' = "eof" /\ shut' = TRUE
  /\ UNCHANGED <<main, screenVars, taken, pending, written, outsideVars, shown,
                 killed>>

(* A read of the input fails: the thread ends, the socket stays as it is,  *)
(* and the client shows what the service sends, without a keyboard.        *)
InputFails ==
  /\ input = "read" /\ main # "gone"
  /\ input' = "failed"
  /\ UNCHANGED <<main, screenVars, taken, pending, written, shut, outsideVars,
                 shown, killed>>

-----------------------------------------------------------------------------
(* The user and the service, as long as the client takes notice of them.   *)

Reading == input \in {"read", "write"} /\ main # "gone"

Type(k) ==
  /\ Reading /\ ~ closed /\ Len(typed) < MaxTyped
  /\ typed' = Append(typed, k)
  /\ UNCHANGED <<main, screenVars, inputVars, closed, heard, peer, said, shown,
                 killed>>

CloseInput ==
  /\ Reading /\ ~ closed /\ closed' = TRUE
  /\ UNCHANGED <<main, screenVars, inputVars, typed, heard, peer, said, shown,
                 killed>>

(* The size is looked at as the client connects and as the bar is drawn    *)
(* first; a change at any other moment is not noticed.  Once says it all.  *)
Resize ==
  /\ main \in {"parse", "raw", "screen", "region"} /\ ~ moved
  /\ size' \in Sizes /\ moved' = TRUE
  /\ UNCHANGED <<main, terminal, broken, handed, bar, inputVars, outsideVars,
                 shown, killed>>

Hear ==
  /\ peer /\ main # "gone" /\ heard < Len(written)
  /\ heard' = heard + 1
  /\ UNCHANGED <<main, screenVars, inputVars, typed, closed, peer, said, shown,
                 killed>>

Say ==
  /\ peer /\ ~ shut /\ main \notin {"connect", "gone"} /\ said < MaxSaid
  /\ said' = said + 1
  /\ UNCHANGED <<main, screenVars, inputVars, typed, closed, heard, peer, shown,
                 killed>>

PeerCloses ==
  /\ peer /\ main # "gone" /\ peer' = FALSE
  /\ UNCHANGED <<main, screenVars, inputVars, typed, closed, heard, said, shown,
                 killed>>

-----------------------------------------------------------------------------
Main ==
  \/ Connect \/ ParseDetachKey \/ EnableRaw \/ EnterScreen \/ EnterRegion
  \/ Show \/ EndOfStream \/ DropGuards

Failure == ConnectFails \/ EnterFails \/ ServeFails \/ Kill \/ InputFails

InputThread == TakeKey \/ WriteKey \/ WriteRefused \/ EndOfInput

Outside ==
  CloseInput \/ Resize \/ Hear \/ Say \/ PeerCloses \/ \E k \in Key : Type(k)

Next == Main \/ Failure \/ InputThread \/ Outside

Spec == Init /\ [][Next]_vars

(* The two threads go on when they can; nothing is assumed of the service. *)
FairSpec == Spec /\ WF_vars(Main) /\ WF_vars(InputThread)

-----------------------------------------------------------------------------
TypeOK ==
  /\ main \in {"connect", "parse", "raw", "screen", "region", "serve",
               "drop_region", "drop_screen", "drop_raw", "gone"}
  /\ terminal \subseteq {"raw", "screen", "region"}
  /\ broken \in BOOLEAN /\ moved \in BOOLEAN /\ closed \in BOOLEAN
  /\ shut \in BOOLEAN /\ peer \in BOOLEAN /\ killed \in BOOLEAN
  /\ size \in Size /\ handed \in Nat /\ bar \in Nat
  /\ input \in {"off", "read", "write", "detached", "eof", "refused", "failed"}
  /\ typed \in Seq(Key) /\ pending \in Seq(Key) /\ written \in Seq(Key)
  /\ taken \in Nat /\ heard \in Nat /\ said \in Nat /\ shown \in Nat

(* What the service is given is what was typed, in its order and with      *)
(* nothing missing, but for what the client still holds back: less than a  *)
(* detach sequence while it is read, a whole one when it has detached.     *)
KeysArePassedOn ==
  /\ Len(written) + Len(pending) = taken /\ taken <= Len(typed)
  /\ heard <= Len(written)
  /\ \A i \in 1 .. Len(written) : written[i] = typed[i]
  /\ \A i \in 1 .. Len(pending) : pending[i] = typed[Len(written) + i]
  /\ input \in {"read", "eof", "failed"} => Begins(pending) /\ pending # Detach
  /\ input = "detached" => pending = Detach

(* However the client ends but by a signal, it leaves the terminal as it   *)
(* found it; if it could not write to it any more, then at least not raw.  *)
TerminalRestored ==
  main = "gone" /\ ~ killed => "raw" \notin terminal /\ (broken \/ terminal = {})

(* The program is given the rows above the status bar, and all of them,    *)
(* although the size is looked at once for the service and once for the    *)
(* bar: on a terminal of two rows or more that has columns, if its size    *)
(* did not change in between.  The bar is below the program on one without *)
(* rows, too.  A terminal with rows but no columns is one of 24 rows for   *)
(* the bar only, and one of a single row has none to spare: there the bar  *)
(* may be in a row of the program.                                         *)
BarIsFree ==
  main = "serve" /\ ~ moved =>
    /\ size.rows >= 2 /\ size.cols # 0 => handed + 1 = bar /\ bar = size.rows
    /\ size.rows = 0 => handed < bar

NothingHeld == input = "read" /\ pending = << >>

DetachIsNext ==
  /\ taken + Len(Detach) <= Len(typed)
  /\ SubSeq(typed, taken + 1, taken + Len(Detach)) = Detach

(* The detach sequence ends the client, even if the service reads nothing  *)
(* that it is given; begun inside an attempt that failed it is just text.  *)
(* The end of the input ends the client if the service reads what is typed *)
(* before it.                                                              *)
DetachEnds ==
  /\ NothingHeld /\ DetachIsNext ~> main = "gone" \/ input = "failed"
  /\ WF_vars(Hear) => (input = "read" /\ closed ~> main = "gone" \/ input = "failed")
=============================================================================
