------------------------------ MODULE Sessions ------------------------------
(***************************************************************************)
(* The data every part of tmuy shares: session records and the contents of *)
(* ~/.tmuy/state.json (src/model.rs).  A record keeps what the behaviour   *)
(* of the program depends on; paths, timestamps, the environment and the   *)
(* command are left out.                                                   *)
(*                                                                         *)
(* A session name is a word or a numeral.  The numeral the program prints  *)
(* for the number n (n.to_string()) is represented by n itself, so a word  *)
(* is any name that is not the decimal form of a natural number.           *)
(***************************************************************************)
EXTENDS Naturals

CONSTANTS
  Hash,   \* the 7-digit hexadecimal session hashes
  Word,   \* the names that are not numerals
  ExplicitName   \* the names a caller may ask for

Name == Word \cup Nat

ASSUME ExplicitNameAssumption == ExplicitName \subseteq Name

Status == {"Starting", "Live", "Exited", "Failed"}

LiveStatus == {"Starting", "Live"}    \* SessionStatus::is_live

DeadStatus == Status \ LiveStatus

(* origin: how the started name was chosen.  The program does not store    *)
(* it; it never changes after creation and no action reads it.             *)
SessionRecord == [status : Status, started : Name, current : Name,
                  origin : {"explicit", "numbered"}]

NoSession == [status |-> "Absent"]

NewSession(name, origin) ==
  [status |-> "Starting", started |-> name, current |-> name,
   origin |-> origin]

(* The content of state.json.  The vector of sessions is a map from the    *)
(* hash: hashes are unique in it, and its order decides only which of      *)
(* several live sessions of one name is found, which Resolve leaves open.  *)
StateFile == [sessions : [Hash -> SessionRecord \cup {NoSession}], next : Nat]

EmptyState == [sessions |-> [h \in Hash |-> NoSession], next |-> 0]

Known(ss, h) == ss[h] # NoSession

Live(ss, h) == ss[h].status \in LiveStatus

Dead(ss, h) == ss[h].status \in DeadStatus

NameTaken(ss, name) == \E h \in Hash : Live(ss, h) /\ ss[h].current = name

(* The number the next unnamed session gets: next_numeric_name.max(1).     *)
NextNumber(next) == IF next = 0 THEN 1 ELSE next

Numbered(ss, h) == Known(ss, h) /\ ss[h].origin = "numbered"

(* The name was given by numbering, and is the only kind of name that no   *)
(* step compares with the names of the live sessions.                      *)
Unchecked(ss, h) == Numbered(ss, h) /\ ss[h].current = ss[h].started
=============================================================================
