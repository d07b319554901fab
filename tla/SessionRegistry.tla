-------------------------- MODULE SessionRegistry ---------------------------
(***************************************************************************)
(* What the session store promises its callers: every operation on the     *)
(* registry is atomic.  Module Store is the implementation, in which each  *)
(* operation is a series of system calls of one of several processes.      *)
(***************************************************************************)
EXTENDS Sessions

VARIABLES
  sessions,   \* Hash -> record
  next        \* next_numeric_name

vars == <<sessions, next>>

Init == /\ sessions = EmptyState.sessions
        /\ next = EmptyState.next

(* An explicit name must be free among the live sessions.                  *)
CreateNamed(h, name) ==
  /\ ~ Known(sessions, h)
  /\ ~ NameTaken(sessions, name)
  /\ sessions' = [sessions EXCEPT ![h] = NewSession(name, "explicit")]
  /\ UNCHANGED next

(* No explicit name: the number is not compared with the live names.       *)
CreateNumbered(h) ==
  /\ ~ Known(sessions, h)
  /\ sessions' = [sessions EXCEPT ![h] = NewSession(NextNumber(next), "numbered")]
  /\ next' = NextNumber(next) + 1

(* Mutant of GoLive: any known session.                                    *)
ReviveSession(h) ==
  /\ Known(sessions, h)
  /\ sessions' = [sessions EXCEPT ![h].status = "Live"]
  /\ UNCHANGED next

(* mark_live does not look at the status; its only caller is the service,  *)
(* once, before anything else it does to the status.                       *)
GoLive(h) ==
  /\ sessions[h].status = "Starting"
  /\ sessions' = [sessions EXCEPT ![h].status = "Live"]
  /\ UNCHANGED next

(* Mutant of Die: the session need not be known.                           *)
DieUnknown(h, status) ==
  /\ sessions' = [sessions EXCEPT ![h].status = status]
  /\ UNCHANGED next

(* A session may fail after it has exited, and exit after it has failed:   *)
(* the last thread of its service to report decides.                       *)
Die(h, status) ==
  /\ Known(sessions, h)
  /\ sessions' = [sessions EXCEPT ![h].status = status]
  /\ UNCHANGED next

(* Mutant of Rename: the name need not be free.                            *)
RenameUnchecked(h, name) ==
  /\ Live(sessions, h)
  /\ sessions' = [sessions EXCEPT ![h].current = name]
  /\ UNCHANGED next

Rename(h, name) ==
  /\ Live(sessions, h)
  /\ ~ NameTaken(sessions, name)
  /\ sessions' = [sessions EXCEPT ![h].current = name]
  /\ UNCHANGED next

Next == \E h \in Hash :
  \/ \E name \in ExplicitName : CreateNamed(h, name) \/ Rename(h, name)
  \/ CreateNumbered(h)
  \/ GoLive(h)
  \/ \E status \in DeadStatus : Die(h, status)

Spec == Init /\ [][Next]_vars

-----------------------------------------------------------------------------
TypeOK == /\ sessions \in [Hash -> SessionRecord \cup {NoSession}]
          /\ next \in Nat

(* Two live sessions share a current name only when exactly one of them    *)
(* holds it by numbering: every explicit name, given at creation or by a   *)
(* rename, was free at that moment, and no number is given twice.          *)
ClashOnlyByNumbering ==
  \A g, h \in Hash :
     /\ g # h
     /\ Live(sessions, g) /\ Live(sessions, h)
     /\ sessions[g].current = sessions[h].current
     => ~ (Unchecked(sessions, g) <=> Unchecked(sessions, h))

(* A record only moves forward: a known session is never forgotten, its    *)
(* started name, and with the hash its log directory, never changes, and a *)
(* session that has ended never comes back to life.                        *)
RecordsMoveForward ==
  [][\A h \in Hash : Known(sessions, h) =>
        /\ Known(sessions', h)
        /\ sessions'[h].started = sessions[h].started
        /\ sessions'[h].origin = sessions[h].origin
        /\ Dead(sessions, h) => Dead(sessions', h)]_vars

(* "Auto-generated names are globally increasing integers": a new number   *)
(* is larger than every number given before, to dead sessions too.         *)
NumbersIncrease ==
  [][\A g, h \in Hash :
        /\ Numbered(sessions, g)
        /\ ~ Known(sessions, h) /\ Numbered(sessions', h)
        => sessions'[h].started > sessions[g].started]_vars
=============================================================================
