----------------------- MODULE SessionRegistryProofs ------------------------
(***************************************************************************)
(* Proofs about the registry, for every set of hashes and of names.        *)
(***************************************************************************)
EXTENDS SessionRegistry, TLAPS

(* Every numbered session started with a number already passed by the      *)
(* counter, and no two with the same one.                                  *)
NumbersInv ==
  /\ \A h \in Hash : Numbered(sessions, h)
        => sessions[h].started \in Nat /\ sessions[h].started < next
  /\ \A g, h \in Hash :
        /\ Numbered(sessions, g)
        /\ Numbered(sessions, h)
        /\ sessions[g].started = sessions[h].started
        => g = h

Inv == TypeOK /\ NumbersInv /\ ClashOnlyByNumbering

(* A new record is well formed and distinct from the absent one.           *)
LEMMA NewSessionType ==
  ASSUME NEW name \in Name, NEW o \in {"explicit", "numbered"}
  PROVE  /\ NewSession(name, o) \in SessionRecord
         /\ NewSession(name, o) # NoSession
BY DEF NewSession, SessionRecord, NoSession, Status

(* What is known is a record, and what is live is known.                   *)
LEMMA KnownIsRecord ==
  ASSUME TypeOK, NEW h \in Hash
  PROVE  /\ Known(sessions, h) <=> sessions[h] \in SessionRecord
         /\ Live(sessions, h) => Known(sessions, h)
BY DEF TypeOK, Known, Live, NoSession, SessionRecord, LiveStatus, Status

(* The next number is a natural number the counter has not passed.         *)
LEMMA NextNumberFresh ==
  ASSUME TypeOK
  PROVE  /\ NextNumber(next) \in Nat
         /\ NextNumber(next) \in Name
         /\ NextNumber(next) >= next
BY DEF TypeOK, NextNumber, Name

(* A step that touches the record of h alone, and leaves h unlike every    *)
(* live session of its name, creates no clash.                             *)
LEMMA OneRecordClash ==
  ASSUME ClashOnlyByNumbering, NEW h \in Hash,
         \A g \in Hash \ {h} : sessions'[g] = sessions[g],
         \A g \in Hash \ {h} :
            Live(sessions, g) /\ sessions[g].current = sessions'[h].current
            => ~ (Unchecked(sessions, g) <=> Unchecked(sessions', h))
  PROVE  ClashOnlyByNumbering'
<1>1. \A g \in Hash \ {h} : /\ Live(sessions', g) <=> Live(sessions, g)
                            /\ Unchecked(sessions', g) <=> Unchecked(sessions, g)
  BY DEF Live, Unchecked, Numbered, Known
<1> SUFFICES ASSUME NEW f \in Hash, NEW g \in Hash, f # g,
                    Live(sessions', f), Live(sessions', g),
                    sessions'[f].current = sessions'[g].current
             PROVE  ~ (Unchecked(sessions', f) <=> Unchecked(sessions', g))
  BY DEF ClashOnlyByNumbering
<1>2. CASE f = h
  BY <1>1, <1>2
<1>3. CASE g = h
  BY <1>1, <1>3
<1>4. CASE f # h /\ g # h
  BY <1>1, <1>4 DEF ClashOnlyByNumbering
<1> QED
  BY <1>2, <1>3, <1>4

LEMMA InitInv == Init => Inv
<1> SUFFICES ASSUME Init PROVE Inv
  OBVIOUS
<1>1. sessions = [h \in Hash |-> NoSession] /\ next = 0
  BY DEF Init, EmptyState
<1>2. ASSUME NEW h \in Hash PROVE ~ Known(sessions, h) /\ ~ Live(sessions, h)
  BY <1>1 DEF Known, Live, NoSession, LiveStatus
<1>3. TypeOK
  BY <1>1 DEF TypeOK
<1>4. NumbersInv /\ ClashOnlyByNumbering
  BY <1>2 DEF NumbersInv, ClashOnlyByNumbering, Numbered
<1> QED
  BY <1>3, <1>4 DEF Inv

(* One lemma per action: it preserves the invariant.  Under each, TypeOK,  *)
(* the numbers and the clashes.                                            *)
LEMMA CreateNamedInv ==
  ASSUME Inv, NEW h \in Hash, NEW name \in ExplicitName, CreateNamed(h, name)
  PROVE  Inv'
<1> USE DEF Inv
<1>1. NewSession(name, "explicit") \in SessionRecord
  BY NewSessionType, ExplicitNameAssumption
<1>2. TypeOK'
  BY <1>1 DEF TypeOK, CreateNamed
<1>3. /\ \A g \in Hash \ {h} : sessions'[g] = sessions[g]
      /\ sessions'[h] = NewSession(name, "explicit")
  BY DEF TypeOK, CreateNamed
<1>4. sessions'[h].origin = "explicit" /\ sessions'[h].current = name
  BY <1>3 DEF NewSession
<1>5. NumbersInv'
  BY <1>3, <1>4 DEF NumbersInv, Known, Numbered, CreateNamed
<1>6. \A g \in Hash : ~ (Live(sessions, g) /\ sessions[g].current = name)
  BY DEF CreateNamed, NameTaken
<1>7. ClashOnlyByNumbering'
  BY <1>3, <1>4, <1>6, OneRecordClash
<1> QED
  BY <1>2, <1>5, <1>7

LEMMA CreateNumberedInv ==
  ASSUME Inv, NEW h \in Hash, CreateNumbered(h)
  PROVE  Inv'
<1> DEFINE n == NextNumber(next)
<1> USE DEF Inv
<1>1. n \in Nat /\ n \in Name /\ n >= next
  BY NextNumberFresh
<1>2. NewSession(n, "numbered") \in SessionRecord
  BY <1>1, NewSessionType
<1>3. next' = n + 1 /\ next' \in Nat /\ next \in Nat
  BY <1>1 DEF CreateNumbered, TypeOK
<1> HIDE DEF n
<1>4. sessions' = [sessions EXCEPT ![h] = NewSession(n, "numbered")]
  BY DEF CreateNumbered, n
<1>5. TypeOK'
  BY <1>2, <1>3, <1>4 DEF TypeOK
<1>6. /\ \A g \in Hash \ {h} : sessions'[g] = sessions[g]
      /\ sessions'[h] = NewSession(n, "numbered")
  BY <1>4 DEF TypeOK
<1>7. /\ sessions'[h].origin = "numbered"
      /\ sessions'[h].started = n
      /\ sessions'[h].current = n
  BY <1>6 DEF NewSession
<1>8. \A g \in Hash : Numbered(sessions, g)
         => sessions[g].started \in Nat /\ sessions[g].started < n
  BY <1>1, <1>3 DEF NumbersInv
<1>9. NumbersInv'
  <2>1. ASSUME NEW g \in Hash, Numbered(sessions', g)
        PROVE  sessions'[g].started \in Nat /\ sessions'[g].started < next'
    BY <2>1, <1>1, <1>3, <1>6, <1>7, <1>8 DEF Known, Numbered
  <2>2. ASSUME NEW f \in Hash, Numbered(sessions', f),
               NEW g \in Hash, Numbered(sessions', g),
               sessions'[f].started = sessions'[g].started
        PROVE  f = g
    BY <2>2, <1>1, <1>6, <1>7, <1>8 DEF Known, Numbered, NumbersInv
  <2> QED
    BY <2>1, <2>2 DEF NumbersInv
<1>10. \A g \in Hash : Live(sessions, g) /\ sessions[g].current = n
         => ~ Unchecked(sessions, g)
  BY <1>1, <1>8, KnownIsRecord DEF Unchecked, Numbered
<1>11. Unchecked(sessions', h)
  BY <1>6, <1>7, <1>1, NewSessionType DEF Unchecked, Numbered, Known
<1>12. ClashOnlyByNumbering'
  BY <1>6, <1>7, <1>10, <1>11, OneRecordClash
<1> QED
  BY <1>5, <1>9, <1>12

LEMMA StatusInv ==
  ASSUME Inv, NEW h \in Hash, NEW status \in Status,
         Known(sessions, h),
         status \in LiveStatus => Live(sessions, h),
         sessions' = [sessions EXCEPT ![h].status = status], UNCHANGED next
  PROVE  Inv'
<1> USE DEF Inv
<1>1. sessions[h] \in SessionRecord
  BY KnownIsRecord
<1>2. [sessions[h] EXCEPT !.status = status] \in SessionRecord
  BY <1>1 DEF SessionRecord
<1>3. TypeOK'
  BY <1>2 DEF TypeOK
<1>4. \A g \in Hash : Known(sessions', g) <=> Known(sessions, g)
  <2>1. [sessions[h] EXCEPT !.status = status] # NoSession
    BY <1>1, <1>2 DEF SessionRecord, NoSession, Status
  <2> QED
    BY <2>1 DEF TypeOK, Known
<1>5. \A g \in Hash :
        /\ sessions'[g].started = sessions[g].started
        /\ sessions'[g].current = sessions[g].current
        /\ sessions'[g].origin = sessions[g].origin
        /\ Live(sessions', g) => Live(sessions, g)
  BY <1>1 DEF TypeOK, SessionRecord, Live
<1>6. NumbersInv'
  BY <1>4, <1>5 DEF NumbersInv, Numbered
<1>7. \A g \in Hash : Unchecked(sessions', g) <=> Unchecked(sessions, g)
  BY <1>4, <1>5 DEF Unchecked, Numbered
<1>8. ClashOnlyByNumbering'
  BY <1>5, <1>7 DEF ClashOnlyByNumbering
<1> QED
  BY <1>3, <1>6, <1>8

LEMMA RenameInv ==
  ASSUME Inv, NEW h \in Hash, NEW name \in ExplicitName, Rename(h, name)
  PROVE  Inv'
<1> USE DEF Inv
<1>1. sessions[h] \in SessionRecord
  BY KnownIsRecord DEF Rename
<1>2. [sessions[h] EXCEPT !.current = name] \in SessionRecord
  BY <1>1, ExplicitNameAssumption DEF SessionRecord
<1>3. TypeOK'
  BY <1>2 DEF TypeOK, Rename
<1>4. /\ \A g \in Hash \ {h} : sessions'[g] = sessions[g]
      /\ sessions'[h] = [sessions[h] EXCEPT !.current = name]
  BY DEF TypeOK, Rename
<1>5. \A g \in Hash : /\ Numbered(sessions', g) => Numbered(sessions, g)
                     /\ sessions'[g].started = sessions[g].started
  <2>1. /\ sessions'[h].started = sessions[h].started
        /\ sessions'[h].origin = sessions[h].origin
        /\ Known(sessions, h)
    BY <1>1, <1>4, KnownIsRecord DEF SessionRecord
  <2> QED
    BY <1>4, <2>1 DEF Numbered, Known
<1>6. NumbersInv'
  BY <1>5 DEF NumbersInv, Rename
<1>7. sessions'[h].current = name
  BY <1>1, <1>4 DEF SessionRecord
<1>8. \A g \in Hash : ~ (Live(sessions, g) /\ sessions[g].current = name)
  BY DEF Rename, NameTaken
<1>9. ClashOnlyByNumbering'
  BY <1>4, <1>7, <1>8, OneRecordClash
<1> QED
  BY <1>3, <1>6, <1>9

LEMMA StepInv == Inv /\ [Next]_vars => Inv'
<1> SUFFICES ASSUME Inv, [Next]_vars PROVE Inv'
  OBVIOUS
<1>1. ASSUME NEW h \in Hash, NEW name \in ExplicitName, CreateNamed(h, name)
      PROVE  Inv'
  BY <1>1, CreateNamedInv
<1>2. ASSUME NEW h \in Hash, CreateNumbered(h)
      PROVE  Inv'
  BY <1>2, CreateNumberedInv
<1>3. ASSUME NEW h \in Hash, GoLive(h)
      PROVE  Inv'
  <2>1. Known(sessions, h) /\ Live(sessions, h)
    BY <1>3 DEF GoLive, Known, Live, LiveStatus, NoSession
  <2> QED
    BY <1>3, <2>1, StatusInv DEF GoLive, Status
<1>4. ASSUME NEW h \in Hash, NEW status \in DeadStatus, Die(h, status)
      PROVE  Inv'
  BY <1>4, StatusInv DEF Die, DeadStatus
<1>5. ASSUME NEW h \in Hash, NEW name \in ExplicitName, Rename(h, name)
      PROVE  Inv'
  BY <1>5, RenameInv
<1>6. CASE UNCHANGED vars
  BY <1>6 DEF vars, Inv, TypeOK, NumbersInv, ClashOnlyByNumbering
<1> QED
  BY <1>1, <1>2, <1>3, <1>4, <1>5, <1>6 DEF Next

LEMMA Invariance == Spec => []Inv
  BY InitInv, StepInv, PTL DEF Spec

(* Whatever the callers do, the registry is well formed.                   *)
THEOREM TypeCorrect == Spec => []TypeOK
  BY Invariance, PTL DEF Inv

(* Any two live sessions of one name are a checked and a numbered one.     *)
THEOREM ClashesAreNumbered == Spec => []ClashOnlyByNumbering
  BY Invariance, PTL DEF Inv

-----------------------------------------------------------------------------
(* The two action properties.                                              *)

Forward(h) ==
  Known(sessions, h) =>
    /\ Known(sessions', h)
    /\ sessions'[h].started = sessions[h].started
    /\ sessions'[h].origin = sessions[h].origin
    /\ Dead(sessions, h) => Dead(sessions', h)

Increase(g, h) ==
  /\ Numbered(sessions, g)
  /\ ~ Known(sessions, h) /\ Numbered(sessions', h)
  => sessions'[h].started > sessions[g].started

(* A step that changes one record, of a known session, and neither its     *)
(* names at the start nor an end it has come to.                           *)
LEMMA OneRecordForward ==
  ASSUME Inv, NEW h \in Hash, Known(sessions, h),
         \A g \in Hash \ {h} : sessions'[g] = sessions[g],
         \/ \E status \in Status :
               /\ sessions' = [sessions EXCEPT ![h].status = status]
               /\ Dead(sessions, h) => status \in DeadStatus
         \/ \E name \in Name :
               sessions' = [sessions EXCEPT ![h].current = name]
  PROVE  \A f \in Hash : Forward(f) /\ \A g \in Hash : Increase(g, f)
<1>1. sessions[h] \in SessionRecord /\ sessions \in [Hash -> SessionRecord \cup {NoSession}]
  BY KnownIsRecord DEF Inv, TypeOK
<1>2. /\ sessions'[h].started = sessions[h].started
      /\ sessions'[h].origin = sessions[h].origin
      /\ Dead(sessions, h) => Dead(sessions', h)
      /\ sessions'[h].status \in Status
  BY <1>1 DEF SessionRecord, Dead, DeadStatus, LiveStatus
<1>3. Known(sessions', h)
  BY <1>2 DEF Known, NoSession, Status
<1>4. Forward(h)
  BY <1>2, <1>3 DEF Forward
<1>5. ASSUME NEW f \in Hash \ {h} PROVE Forward(f)
  BY DEF Forward, Known, Dead
<1>6. ASSUME NEW f \in Hash, NEW g \in Hash PROVE Increase(g, f)
  BY DEF Increase, Known, Numbered
<1> QED
  BY <1>4, <1>5, <1>6

(* The same of a step that fills a record that was absent, with a number   *)
(* that the counter has not passed if it has one.                          *)
LEMMA NewRecordForward ==
  ASSUME Inv, NEW h \in Hash, ~ Known(sessions, h),
         \A g \in Hash \ {h} : sessions'[g] = sessions[g],
         sessions'[h].origin = "numbered"
           => sessions'[h].started \in Nat /\ sessions'[h].started >= next
  PROVE  \A f \in Hash : Forward(f) /\ \A g \in Hash : Increase(g, f)
<1>1. ASSUME NEW f \in Hash PROVE Forward(f)
  BY DEF Forward, Known, Dead
<1>2. ASSUME NEW f \in Hash, NEW g \in Hash PROVE Increase(g, f)
  <2> SUFFICES ASSUME Numbered(sessions, g), ~ Known(sessions, f), Numbered(sessions', f)
               PROVE  sessions'[f].started > sessions[g].started
    BY DEF Increase
  <2>1. f = h
    BY DEF Numbered, Known
  <2>2. sessions[g].started \in Nat /\ sessions[g].started < next /\ next \in Nat
    BY DEF Inv, TypeOK, NumbersInv
  <2> QED
    BY <2>1, <2>2 DEF Numbered
<1> QED
  BY <1>1, <1>2

LEMMA StepForward ==
  ASSUME Inv, [Next]_vars
  PROVE  \A f \in Hash : Forward(f) /\ \A g \in Hash : Increase(g, f)
<1>1. ASSUME NEW h \in Hash, NEW name \in ExplicitName, CreateNamed(h, name)
      PROVE  \A f \in Hash : Forward(f) /\ \A g \in Hash : Increase(g, f)
  <2>1. /\ sessions'[h].origin = "explicit"
        /\ \A g \in Hash \ {h} : sessions'[g] = sessions[g]
    BY <1>1 DEF CreateNamed, NewSession, Inv, TypeOK
  <2> QED
    BY <1>1, <2>1, NewRecordForward DEF CreateNamed
<1>2. ASSUME NEW h \in Hash, CreateNumbered(h)
      PROVE  \A f \in Hash : Forward(f) /\ \A g \in Hash : Increase(g, f)
  <2>1. /\ sessions'[h].started = NextNumber(next)
        /\ \A g \in Hash \ {h} : sessions'[g] = sessions[g]
    BY <1>2 DEF CreateNumbered, NewSession, Inv, TypeOK
  <2>2. NextNumber(next) \in Nat /\ NextNumber(next) >= next
    BY NextNumberFresh DEF Inv
  <2> QED
    BY <1>2, <2>1, <2>2, NewRecordForward DEF CreateNumbered
<1>3. ASSUME NEW h \in Hash, GoLive(h) \/ \E status \in DeadStatus : Die(h, status)
      PROVE  \A f \in Hash : Forward(f) /\ \A g \in Hash : Increase(g, f)
  <2>1. Known(sessions, h)
    BY <1>3 DEF GoLive, Die, Known, NoSession
  <2>2. \A g \in Hash \ {h} : sessions'[g] = sessions[g]
    BY <1>3 DEF GoLive, Die, Inv, TypeOK
  <2>3. \E status \in Status :
           /\ sessions' = [sessions EXCEPT ![h].status = status]
           /\ Dead(sessions, h) => status \in DeadStatus
    BY <1>3 DEF GoLive, Die, Dead, DeadStatus, LiveStatus, Status
  <2> QED
    BY <2>1, <2>2, <2>3, OneRecordForward
<1>4. ASSUME NEW h \in Hash, NEW name \in ExplicitName, Rename(h, name)
      PROVE  \A f \in Hash : Forward(f) /\ \A g \in Hash : Increase(g, f)
  <2>1. Known(sessions, h) /\ name \in Name
    BY <1>4, KnownIsRecord, ExplicitNameAssumption DEF Rename, Inv
  <2>2. \A g \in Hash \ {h} : sessions'[g] = sessions[g]
    BY <1>4 DEF Rename, Inv, TypeOK
  <2> QED
    BY <1>4, <2>1, <2>2, OneRecordForward DEF Rename
<1>5. CASE UNCHANGED vars
  BY <1>5 DEF vars, Forward, Increase, Known, Dead, Numbered
<1> QED
  BY <1>1, <1>2, <1>3, <1>4, <1>5 DEF Next

(* No session is forgotten, none changes the names it started with, and    *)
(* none that has ended comes back to life.                                 *)
THEOREM MovesForward == Spec => RecordsMoveForward
<1>1. Inv /\ [Next]_vars => [\A h \in Hash : Known(sessions, h) =>
        /\ Known(sessions', h)
        /\ sessions'[h].started = sessions[h].started
        /\ sessions'[h].origin = sessions[h].origin
        /\ Dead(sessions, h) => Dead(sessions', h)]_vars
  BY StepForward DEF Forward
<1> QED
  BY <1>1, Invariance, PTL DEF Spec, RecordsMoveForward

(* A generated number is larger than every number generated before.        *)
THEOREM NumbersGrow == Spec => NumbersIncrease
<1>1. Inv /\ [Next]_vars => [\A g, h \in Hash :
        /\ Numbered(sessions, g)
        /\ ~ Known(sessions, h) /\ Numbered(sessions', h)
        => sessions'[h].started > sessions[g].started]_vars
  BY StepForward DEF Increase
<1> QED
  BY <1>1, Invariance, PTL DEF Spec, NumbersIncrease
=============================================================================
