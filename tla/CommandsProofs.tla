--------------------------- MODULE CommandsProofs --------------------------
(***************************************************************************)
(* What a target leads to and what a command makes of it, for any hashes,  *)
(* names and targets and whatever others do to the registry; and what the  *)
(* command of new is let see and write, for any flags.                     *)
(***************************************************************************)
EXTENDS Commands, Sandbox, SessionRegistryProofs, SequenceTheorems, WellFoundedInduction

(* What both kinds of matches may return.                                  *)
LEMMA Results ==
  ASSUME NEW ms, NEW scope, NEW exact
  PROVE  /\ AtMostOne(ms) => HashResult(ms) = {ms} /\ NameResult(ms, scope, exact) = {ms}
         /\ \A m \in HashResult(ms) : m = ms
         /\ \A m \in NameResult(ms, scope, exact) :
              \/ m = ms
              \/ exact /\ scope = "all" /\ \E h \in ms : m = {h} /\ Live(sessions, h)
BY DEF HashResult, NameResult

LEMMA OneMatch ==
  ASSUME NEW hs, NEW ns, NEW scope, NEW exact, NEW h \in Hash, hs \cup ns = {h}
  PROVE  Agreed(HashResult(hs), NameResult(ns, scope, exact)) = {h}
<1>1. AtMostOne(hs) /\ AtMostOne(ns)
  BY DEF AtMostOne
<1>2. HashResult(hs) = {hs} /\ NameResult(ns, scope, exact) = {ns}
  BY <1>1, Results
<1> QED
  BY <1>2 DEF Agreed

(* The hash of a session in scope is an exact match, so that only a name   *)
(* that equals it can stand in its way.                                    *)
LEMMA HashFinds == HashIsStable
<1> SUFFICES ASSUME NEW h \in Hash, NEW scope \in Scope, InScope(h, scope)
             PROVE  /\ ResolveTarget(h, scope) \subseteq {h}
                    /\ ExactName(h, scope) \subseteq {h} => ResolveTarget(h, scope) = {h}
  BY DEF HashIsStable
<1> DEFINE hs == ExactHash(h, scope)
           ns == ExactName(h, scope)
           exact == TRUE
<1>1. hs = {h}
  BY DEF ExactHash
<1>2. ResolveTarget(h, scope) = Agreed(HashResult(hs), NameResult(ns, scope, exact))
  BY <1>1 DEF ResolveTarget
<1>3. ResolveTarget(h, scope) \subseteq {h}
  <2>1. \A m \in HashResult(hs) : m = {h}
    BY <1>1, Results
  <2> QED
    BY <1>2, <2>1 DEF Agreed
<1>4. ASSUME ns \subseteq {h} PROVE ResolveTarget(h, scope) = {h}
  <2>1. hs \cup ns = {h}
    BY <1>1, <1>4
  <2> HIDE DEF hs, ns, exact
  <2> QED
    BY <1>2, <2>1, OneMatch
<1> QED
  BY <1>3, <1>4

LEMMA NoGuess ==
  ASSUME Inv
  PROVE  NeverGuesses
<1> SUFFICES ASSUME NEW t \in Target, NEW scope \in Scope
             PROVE
               LET meant == Meant(t, scope) IN
               /\ \A h \in Hash : meant = {h} => ResolveTarget(t, scope) = {h}
               /\ \A h \in ResolveTarget(t, scope) :
                    /\ h \in meant
                    /\ \A g \in meant \ {h} :
                         /\ scope = "all" /\ Live(sessions, h)
                         /\ sessions[g].current = t /\ sessions[h].current = t
                         /\ Dead(sessions, g)
                              \/ ~ (Unchecked(sessions, g) <=> Unchecked(sessions, h))
  BY DEF NeverGuesses
<1> DEFINE exact == ExactHash(t, scope) \cup ExactName(t, scope) # {}
           hs == IF exact THEN ExactHash(t, scope) ELSE PrefixHash(t, scope)
           ns == IF exact THEN ExactName(t, scope) ELSE PrefixName(t, scope)
           meant == Meant(t, scope)
<1>1. meant = hs \cup ns
  BY DEF Meant, ExactHash, ExactName, PrefixHash, PrefixName
<1>2. ResolveTarget(t, scope) = Agreed(HashResult(hs), NameResult(ns, scope, exact))
  BY DEF ResolveTarget
<1>3. ns \subseteq Hash /\ (exact => \A g \in ns : InScope(g, scope) /\ sessions[g].current = t)
  BY DEF ExactName, PrefixName
<1> HIDE DEF exact, hs, ns, meant
<1>4. ASSUME NEW h \in Hash, meant = {h} PROVE ResolveTarget(t, scope) = {h}
  BY <1>1, <1>2, <1>4, OneMatch
<1>5. ASSUME NEW h \in ResolveTarget(t, scope)
      PROVE  /\ h \in meant
             /\ \A g \in meant \ {h} :
                  /\ scope = "all" /\ Live(sessions, h)
                  /\ sessions[g].current = t /\ sessions[h].current = t
                  /\ Dead(sessions, g)
                       \/ ~ (Unchecked(sessions, g) <=> Unchecked(sessions, h))
  <2>1. PICK m \in HashResult(hs), n \in NameResult(ns, scope, exact) : m \cup n = {h}
    BY <1>2 DEF Agreed
  <2>2. m = hs /\ h \in Hash
    BY <1>2, Results DEF Agreed
  <2>3. CASE n = ns
    BY <1>1, <2>1, <2>2, <2>3
  <2>4. CASE exact /\ scope = "all" /\ \E k \in ns : n = {k} /\ Live(sessions, k)
    <3>1. h \in ns /\ Live(sessions, h) /\ hs \subseteq {h}
      BY <2>1, <2>2, <2>4
    <3>2. ASSUME NEW g \in meant \ {h}
          PROVE  /\ sessions[g].current = t /\ sessions[h].current = t
                 /\ Dead(sessions, g)
                      \/ ~ (Unchecked(sessions, g) <=> Unchecked(sessions, h))
      <4>1. g \in ns /\ g \in Hash /\ g # h
        BY <1>1, <1>3, <3>1, <3>2
      <4>2. /\ sessions[g].current = t /\ sessions[h].current = t
            /\ Known(sessions, g)
        BY <1>3, <2>4, <3>1, <4>1 DEF InScope
      <4>3. Live(sessions, g) \/ Dead(sessions, g)
        BY <4>1, <4>2, KnownIsRecord DEF Inv, SessionRecord, Live, Dead, DeadStatus
      <4>4. Live(sessions, g) => ~ (Unchecked(sessions, g) <=> Unchecked(sessions, h))
        BY <2>2, <3>1, <4>1, <4>2 DEF Inv, ClashOnlyByNumbering
      <4> QED
        BY <4>2, <4>3, <4>4
    <3> QED
      BY <1>1, <2>4, <3>1, <3>2
  <2> QED
    BY <2>3, <2>4, Results
<1> QED
  BY <1>4, <1>5 DEF meant

(* The hash of a session reaches it for as long as nothing in scope bears  *)
(* it as a name, and never reaches another.                                *)
THEOREM StableHash == Spec => []HashIsStable
BY HashFinds, PTL

(* Whatever has been created, renamed and ended, a target that two live    *)
(* sessions could mean finds none of them, but for the clash of a number.  *)
THEOREM Unambiguous == Spec => []NeverGuesses
<1>1. Inv => NeverGuesses
  BY NoGuess
<1> QED
  BY <1>1, Invariance, PTL

-----------------------------------------------------------------------------
(* The commands.  A step of a command is one of the registry, or leaves it *)
(* as it is.                                                               *)

LEMMA RegistryStep == [CommandsNext]_allVars => [Next]_vars
<1> SUFFICES ASSUME [CommandsNext]_allVars PROVE [Next]_vars
  OBVIOUS
<1>1. CASE Others
  BY <1>1 DEF Others
<1>2. CASE CommandStep
  BY <1>2 DEF CommandStep, SpawnAnswers, ReadOwn, LookupAgain, Inspect, Signal, Poll, vars
<1>3. CASE Connect \/ Send \/ TimeIsUp
  BY <1>3 DEF Connect, Send, TimeIsUp, vars
<1>4. ASSUME NEW k \in {"new", "new_attach"}, New(k) PROVE [Next]_vars
  BY <1>4 DEF New, Next
<1>5. ASSUME NEW k \in DOMAIN LookupScope, NEW t \in Target, Lookup(k, t) PROVE [Next]_vars
  BY <1>5 DEF Lookup, vars
<1>6. CASE UNCHANGED allVars
  BY <1>6 DEF allVars, vars
<1> QED
  BY <1>1, <1>2, <1>3, <1>4, <1>5, <1>6 DEF CommandsNext

LEMMA RegistryHolds == CommandsSpec => Spec
<1>1. CommandsInit => Init
  BY DEF CommandsInit
<1> QED
  BY <1>1, RegistryStep, PTL DEF CommandsSpec, Spec

(* What is found is a session in scope.                                    *)
LEMMA FoundInScope ==
  ASSUME NEW t, NEW scope, NEW h \in ResolveTarget(t, scope)
  PROVE  h \in Hash /\ InScope(h, scope)
<1> DEFINE hs == IF ExactHash(t, scope) \cup ExactName(t, scope) # {}
                 THEN ExactHash(t, scope) ELSE PrefixHash(t, scope)
           ns == IF ExactHash(t, scope) \cup ExactName(t, scope) # {}
                 THEN ExactName(t, scope) ELSE PrefixName(t, scope)
           exact == ExactHash(t, scope) \cup ExactName(t, scope) # {}
<1>1. h \in Agreed(HashResult(hs), NameResult(ns, scope, exact))
  BY DEF ResolveTarget
<1>2. \A g \in hs \cup ns : InScope(g, scope)
  BY DEF ExactHash, ExactName, PrefixHash, PrefixName
<1> HIDE DEF hs, ns, exact
<1>3. PICK m \in HashResult(hs), n \in NameResult(ns, scope, exact) : m \cup n = {h}
  BY <1>1 DEF Agreed
<1>4. m = hs
  BY Results
<1>5. n = ns \/ \E g \in ns : n = {g}
  BY Results
<1> QED
  BY <1>1, <1>2, <1>3, <1>4, <1>5 DEF Agreed

(* A session does not come back to its start.                              *)
Started(h) == Known(sessions, h) /\ sessions[h].status # "Starting"

LEMMA StartedStays ==
  ASSUME Inv, [Next]_vars, NEW h \in Hash
  PROVE  /\ Known(sessions, h) => Known(sessions, h)'
         /\ Dead(sessions, h) => Dead(sessions, h)'
         /\ Started(h) => Started(h)'
<1>1. Known(sessions, h) => Known(sessions', h) /\ (Dead(sessions, h) => Dead(sessions', h))
  BY StepForward DEF Forward
<1>2. Dead(sessions, h) => Known(sessions, h)
  BY DEF Dead, DeadStatus, Known, NoSession, Status, LiveStatus
<1>3. ASSUME Started(h) PROVE sessions'[h].status # "Starting"
  <2> USE <1>3 DEF Started, Inv, TypeOK
  <2>1. ASSUME NEW g \in Hash, NEW name \in ExplicitName, CreateNamed(g, name)
        PROVE  sessions'[h].status # "Starting"
    BY <2>1 DEF CreateNamed
  <2>2. ASSUME NEW g \in Hash, CreateNumbered(g)
        PROVE  sessions'[h].status # "Starting"
    BY <2>2 DEF CreateNumbered
  <2>3. ASSUME NEW g \in Hash, GoLive(g) \/ \E status_ \in DeadStatus : Die(g, status_)
        PROVE  sessions'[h].status # "Starting"
    BY <2>3, KnownIsRecord DEF GoLive, Die, DeadStatus, LiveStatus, SessionRecord
  <2>4. ASSUME NEW g \in Hash, NEW name \in ExplicitName, Rename(g, name)
        PROVE  sessions'[h].status # "Starting"
    BY <2>4, KnownIsRecord DEF Rename, SessionRecord
  <2>5. CASE UNCHANGED vars
    BY <2>5 DEF vars
  <2> QED
    BY <2>1, <2>2, <2>3, <2>4, <2>5 DEF Next
<1> QED
  BY <1>1, <1>2, <1>3 DEF Started, Known, Dead

-----------------------------------------------------------------------------
(* What each place of a command knows of the sessions it has come across.  *)

PlaceInv ==
  /\ pc = "idle" => own = None /\ found = None /\ target = None
  /\ pc \in {"spawn", "read"} =>
       /\ kind \in {"new", "new_attach"}
       /\ own \in Hash /\ Known(sessions, own) /\ found = None /\ target = None
  /\ pc = "read" => Started(own)
  /\ pc = "again" =>
       \/ kind = "new_attach" /\ own \in Hash /\ Started(own) /\ found = None
       \/ kind = "attach" /\ found \in Hash /\ Known(sessions, found)
  /\ pc = "connect" => /\ kind \in {"attach", "new_attach"}
                       /\ reached \in Hash /\ status \in LiveStatus
  /\ pc = "act" => /\ kind \in {"send", "signal", "inspect"}
                   /\ found \in Hash /\ target = None
  /\ pc = "poll" => /\ kind = "wait" /\ found \in Hash
                    /\ Known(sessions, found) /\ target = None

AnswerInv ==
  /\ reached # None => pc \in {"connect", "done"} /\ reached \in Hash
  /\ AnswersAreTrue
  /\ HashLeadsOn

CommandInv == PlaceInv /\ AnswerInv

LEMMA CommandInit == CommandsInit => CommandInv
BY DEF CommandsInit, CommandInv, PlaceInv, AnswerInv, AnswersAreTrue, HashLeadsOn

(* What others do to the registry leaves it.                               *)
LEMMA OthersKeep ==
  ASSUME Inv, [Next]_vars, CommandInv, UNCHANGED commandVars
  PROVE  CommandInv'
<1>1. \A h \in Hash : /\ sessions[h] # NoSession => sessions'[h] # NoSession
                      /\ Dead(sessions, h) => Dead(sessions', h)
                      /\ sessions[h] # NoSession /\ sessions[h].status # "Starting"
                           => sessions'[h].status # "Starting"
  BY StartedStays DEF Started, Known
<1>2. /\ kind' = kind /\ target' = target /\ pc' = pc /\ own' = own
      /\ found' = found /\ reached' = reached /\ status' = status
  BY DEF commandVars
<1>3. PlaceInv'
  BY <1>1, <1>2 DEF CommandInv, PlaceInv, Known, Started
<1>4. AnswersAreTrue'
  BY <1>1, <1>2 DEF CommandInv, AnswerInv, AnswersAreTrue
<1>5. HashLeadsOn'
  BY <1>1, <1>2 DEF CommandInv, AnswerInv, HashLeadsOn
<1> QED
  BY <1>2, <1>3, <1>4, <1>5 DEF CommandInv, AnswerInv

(* Once a command has ended there is nothing more to show of its places.   *)
LEMMA Ended ==
  ASSUME NEW h, Finish(h), UNCHANGED vars, CommandInv, pc # "done",
         h = None \/ h \in Hash,
         h \in Hash =>
           /\ kind = "new" => h = own /\ Started(h)
           /\ kind = "wait" => h = found /\ Dead(sessions, h)
           /\ kind \in {"attach", "new_attach"} => Live(sessions, h)
           /\ target \in Hash /\ found = target => h = found \/ Dead(sessions, found)
  PROVE  CommandInv'
<1> USE DEF Finish, vars
<1>1. h \in Hash <=> h # None
  BY NoneAssumption
<1>2. PlaceInv'
  BY DEF PlaceInv
<1>3. AnswersAreTrue'
  BY <1>1 DEF AnswersAreTrue, Started, Live
<1>4. HashLeadsOn'
  BY <1>1 DEF HashLeadsOn
<1>5. (reached # None => pc \in {"connect", "done"} /\ reached \in Hash)'
  BY <1>1
<1> QED
  BY <1>2, <1>3, <1>4, <1>5 DEF CommandInv, AnswerInv

LEMMA NewKeeps ==
  ASSUME Inv, CommandInv, NEW k \in {"new", "new_attach"}, New(k)
  PROVE  CommandInv'
<1>1. own' \in Hash /\ Known(sessions, own)'
  <2>1. PICK h \in Hash : /\ own' = h
                          /\ CreateNumbered(h)
                               \/ \E name \in ExplicitName : CreateNamed(h, name)
    BY DEF New
  <2>2. PICK name \in Name, o \in {"explicit", "numbered"} :
           sessions' = [sessions EXCEPT ![h] = NewSession(name, o)]
    <3>1. CASE CreateNumbered(h)
      BY <3>1, NextNumberFresh DEF CreateNumbered, Inv
    <3>2. CASE \E name \in ExplicitName : CreateNamed(h, name)
      BY <3>2, ExplicitNameAssumption DEF CreateNamed
    <3> QED
      BY <2>1, <3>1, <3>2
  <2>3. sessions'[h] = NewSession(name, o)
    BY <2>2 DEF Inv, TypeOK
  <2>4. sessions'[h] # NoSession
    BY <2>3, NewSessionType
  <2> QED
    BY <2>1, <2>4 DEF Known
<1>2. PlaceInv'
  BY <1>1 DEF New, CommandInv, PlaceInv
<1>3. AnswerInv'
  BY DEF New, CommandInv, PlaceInv, AnswerInv, AnswersAreTrue, HashLeadsOn
<1> QED
  BY <1>2, <1>3 DEF CommandInv

LEMMA LookupKeeps ==
  ASSUME Inv, CommandInv, NEW k \in DOMAIN LookupScope, NEW t \in Target, Lookup(k, t)
  PROVE  CommandInv'
<1>1. reached = None /\ reached' = None /\ own = None
  BY DEF Lookup, CommandInv, AnswerInv, PlaceInv
<1>2. AnswerInv'
  BY <1>1 DEF AnswerInv, AnswersAreTrue, HashLeadsOn
<1>3. CASE pc' = "done"
  BY <1>2, <1>3 DEF CommandInv, PlaceInv
<1>4. CASE pc' # "done"
  <2>1. PICK h \in ResolveTarget(t, LookupScope[k]) : found' = h /\ pc' = AfterLookup[k]
    BY <1>4 DEF Lookup
  <2>2. h \in Hash /\ InScope(h, LookupScope[k])
    BY <2>1, FoundInScope
  <2>3. Known(sessions, h)
    BY <2>2, KnownIsRecord DEF InScope, Inv, Live, Dead, DeadStatus, Known, NoSession, Status
  <2>4. UNCHANGED vars /\ kind' = k /\ (k # "attach" => target' = None)
    BY DEF Lookup
  <2>5. PlaceInv'
    BY <2>1, <2>2, <2>3, <2>4 DEF PlaceInv, AfterLookup, LookupScope, vars
  <2> QED
    BY <1>2, <2>5 DEF CommandInv
<1> QED
  BY <1>3, <1>4

LEMMA SpawnKeeps ==
  ASSUME Inv, CommandInv, SpawnAnswers
  PROVE  CommandInv'
<1>1. CASE Finish(None) /\ UNCHANGED vars
  BY <1>1, NoneAssumption, Ended DEF SpawnAnswers
<1>2. CASE sessions[own].status \in {"Live", "Exited"} /\ pc' = "read"
           /\ UNCHANGED <<vars, kind, target, own, found, reached, status>>
  BY <1>2 DEF SpawnAnswers, CommandInv, PlaceInv, AnswerInv, AnswersAreTrue, HashLeadsOn,
     Started, vars
<1> QED
  BY <1>1, <1>2 DEF SpawnAnswers

LEMMA ReadKeeps ==
  ASSUME Inv, CommandInv, ReadOwn
  PROVE  CommandInv'
<1>1. /\ pc = "read" /\ own \in Hash /\ Started(own) /\ found = None /\ target = None
      /\ kind \in {"new", "new_attach"} /\ UNCHANGED vars
  BY DEF ReadOwn, CommandInv, PlaceInv
<1>2. CASE kind = "new_attach"
  BY <1>1, <1>2, NoneAssumption DEF ReadOwn, CommandInv, PlaceInv, AnswerInv, AnswersAreTrue,
     HashLeadsOn, Started, vars
<1>3. CASE kind = "new"
  BY <1>1, <1>3, NoneAssumption, Ended DEF ReadOwn
<1> QED
  BY <1>1, <1>2, <1>3

(* The hash of a live session leads an attachment to it again.             *)
LEMMA LookupAgainKeeps ==
  ASSUME Inv, CommandInv, LookupAgain
  PROVE  CommandInv'
<1>1. pc = "again" /\ UNCHANGED vars /\ kind \in {"attach", "new_attach"}
  BY DEF LookupAgain, CommandInv, PlaceInv
<1>2. CASE Finish(None)
  BY <1>1, <1>2, NoneAssumption, Ended
<1>3. ASSUME NEW h \in ResolveTarget(target, "live_only"), ConnectTo(h)
      PROVE  CommandInv'
  <2>1. h \in Hash /\ Live(sessions, h)
    BY FoundInScope DEF InScope
  <2>2. ASSUME target \in Hash, found = target, ~ Dead(sessions, found)
        PROVE  h = found
    <3>1. Known(sessions, found)
      BY <1>1, <2>2, NoneAssumption DEF CommandInv, PlaceInv
    <3>2. Live(sessions, found)
      BY <2>2, <3>1, KnownIsRecord DEF Inv, Live, Dead, DeadStatus, SessionRecord
    <3>3. ResolveTarget(target, "live_only") \subseteq {target}
      BY <2>2, <3>2, HashFinds DEF HashIsStable, InScope, Scope
    <3> QED
      BY <1>3, <2>2, <3>3
  <2>3. /\ reached' = h /\ status' = sessions[h].status /\ pc' = "connect"
        /\ UNCHANGED <<vars, kind, target, own, found>>
    BY <1>1, <1>3 DEF ConnectTo
  <2>4. PlaceInv'
    BY <1>1, <2>1, <2>3 DEF PlaceInv, Live
  <2>5. HashLeadsOn'
    BY <2>2, <2>3 DEF HashLeadsOn, vars
  <2>6. AnswersAreTrue'
    BY <2>3 DEF AnswersAreTrue
  <2> QED
    BY <2>1, <2>3, <2>4, <2>5, <2>6 DEF CommandInv, AnswerInv
<1> QED
  BY <1>2, <1>3 DEF LookupAgain

(* An attachment is to what was found, or fails.                           *)
LEMMA ConnectKeeps ==
  ASSUME Inv, CommandInv, Connect
  PROVE  CommandInv'
BY NoneAssumption DEF Connect, CommandInv, PlaceInv, AnswerInv, AnswersAreTrue, HashLeadsOn, vars

LEMMA LastKeeps ==
  ASSUME Inv, CommandInv, Inspect \/ Signal \/ Send \/ Poll \/ TimeIsUp
  PROVE  CommandInv'
<1>1. CASE Inspect \/ Signal \/ Send
  BY <1>1, NoneAssumption, Ended DEF Inspect, Signal, Send, CommandInv, PlaceInv
<1>2. CASE Poll
  BY <1>2, NoneAssumption, Ended DEF Poll, CommandInv, PlaceInv
<1>3. CASE TimeIsUp
  BY <1>3, NoneAssumption, Ended DEF TimeIsUp
<1> QED
  BY <1>1, <1>2, <1>3

LEMMA CommandsStep == Inv /\ CommandInv /\ [CommandsNext]_allVars => CommandInv'
<1> SUFFICES ASSUME Inv, CommandInv, [CommandsNext]_allVars PROVE CommandInv'
  OBVIOUS
<1>1. CASE Others \/ UNCHANGED allVars
  BY <1>1, OthersKeep DEF Others, allVars, commandVars, vars
<1>2. CASE CommandStep
  BY <1>2, SpawnKeeps, ReadKeeps, LookupAgainKeeps, LastKeeps DEF CommandStep
<1>3. CASE Connect \/ Send \/ TimeIsUp
  BY <1>3, ConnectKeeps, LastKeeps
<1>4. ASSUME NEW k \in {"new", "new_attach"}, New(k) PROVE CommandInv'
  BY <1>4, NewKeeps
<1>5. ASSUME NEW k \in DOMAIN LookupScope, NEW t \in Target, Lookup(k, t) PROVE CommandInv'
  BY <1>5, LookupKeeps
<1> QED
  BY <1>1, <1>2, <1>3, <1>4, <1>5 DEF CommandsNext

LEMMA CommandsInvariance == CommandsSpec => [](Inv /\ CommandInv)
BY RegistryHolds, Invariance, CommandInit, CommandsStep, PTL DEF CommandsSpec

(* Whatever others do between the looks of a command, create answers with  *)
(* its own session, wait with one that is over, and attach with one that   *)
(* was live when it was looked up.                                         *)
THEOREM TrueAnswers == CommandsSpec => []AnswersAreTrue
BY CommandsInvariance, PTL DEF CommandInv, AnswerInv

(* The two looks of attach, given the hash of a live session, are at one   *)
(* session, or at one that has died in between.                            *)
THEOREM HashLeads == CommandsSpec => []HashLeadsOn
BY CommandsInvariance, PTL DEF CommandInv, AnswerInv

-----------------------------------------------------------------------------
(* The session that new attaches to by name is its own, or the name, or    *)
(* hash, is that of another live session too and it finds none.            *)
LEMMA OwnByName ==
  ASSUME Inv, CommandInv, LookupAgain, kind = "new_attach",
         Live(sessions, own), sessions[own].current = target
  PROVE  \/ reached' = own
         \/ /\ reached' = None
            /\ \E h \in Hash \ {own} :
                 Live(sessions, h) /\ target \in {h, sessions[h].current}
<1>1. pc = "again" /\ own \in Hash /\ Started(own)
  BY NoneAssumption DEF LookupAgain, CommandInv, PlaceInv
<1> DEFINE hs == ExactHash(target, "live_only")
           ns == ExactName(target, "live_only")
           exact == TRUE
<1>2. own \in ns
  BY <1>1 DEF ExactName, InScope
<1>3. /\ \A h \in hs \cup ns : h \in Hash /\ Live(sessions, h)
                               /\ target \in {h, sessions[h].current}
      /\ ResolveTarget(target, "live_only")
           = Agreed(HashResult(hs), NameResult(ns, "live_only", exact))
  BY <1>2 DEF ExactHash, ExactName, InScope, ResolveTarget
<1> HIDE DEF hs, ns, exact
<1>4. ASSUME NEW h \in ResolveTarget(target, "live_only")
      PROVE  h = own
  <2>1. PICK m \in HashResult(hs), n \in NameResult(ns, "live_only", exact) : m \cup n = {h}
    BY <1>3 DEF Agreed
  <2>2. n = ns
    BY Results
  <2> QED
    BY <1>2, <2>1, <2>2
<1>5. ASSUME Finish(None), own \notin ResolveTarget(target, "live_only")
      PROVE  \E h \in Hash \ {own} :
                Live(sessions, h) /\ target \in {h, sessions[h].current}
  <2>1. hs \cup ns # {own}
    <3>1. ASSUME NEW h \in Hash, hs \cup ns = {h}
          PROVE  Agreed(HashResult(hs), NameResult(ns, "live_only", exact)) = {h}
      BY <3>1, OneMatch
    <3> QED
      BY <1>1, <1>3, <1>5, <3>1
  <2> QED
    BY <1>2, <1>3, <2>1
<1> QED
  BY <1>4, <1>5 DEF LookupAgain, ConnectTo, Finish

(* new looks its own session up by name as long as nobody takes the name   *)
(* from it, and nobody else's; what becomes of the connection is another   *)
(* matter.                                                                 *)
THEOREM FindsItsOwn == CommandsSpec => NewFindsItsOwn
<1>1. Inv /\ CommandInv /\ [CommandsNext]_allVars =>
        [/\ pc = "again" /\ pc' # "again" /\ kind = "new_attach"
         /\ Live(sessions, own) /\ sessions[own].current = target
         => \/ reached' = own
            \/ /\ reached' = None
               /\ \E h \in Hash \ {own} :
                    Live(sessions, h) /\ target \in {h, sessions[h].current}]_allVars
  <2> SUFFICES ASSUME Inv, CommandInv, CommandsNext, pc = "again", pc' # "again",
                      kind = "new_attach",
                      Live(sessions, own), sessions[own].current = target
               PROVE  LookupAgain
    BY OwnByName
  <2> QED
    BY DEF CommandsNext, CommandStep, Others, commandVars, SpawnAnswers, ReadOwn, Inspect,
       Signal, Send, Connect, Poll, TimeIsUp, New, Lookup
<1> QED
  BY <1>1, CommandsInvariance, PTL DEF CommandsSpec, NewFindsItsOwn

-----------------------------------------------------------------------------
(* Recursion over the places of a sequence.                                *)

(* A set of naturals with a member has a least one.                        *)
LEMMA Least ==
  ASSUME NEW T, T \subseteq Nat, T # {}
  PROVE  \E n \in T : \A m \in T : n <= m
<1>1. PICK n \in T : \A m \in T : <<m, n>> \notin OpToRel(<, Nat)
  BY NatLessThanWellFounded, WFMin
<1>2. \A m \in T : ~ (m < n)
  BY <1>1 DEF OpToRel
<1> QED
  BY <1>2

(* What holds of 0, and of n when it holds of n - 1, holds up to N.        *)
LEMMA UpTo ==
  ASSUME NEW N \in Nat, NEW P, 0 \in P, \A n \in 1 .. N : n - 1 \in P => n \in P
  PROVE  0 .. N \subseteq P
<1> DEFINE T == (0 .. N) \ P
<1> SUFFICES ASSUME T # {} PROVE FALSE
  OBVIOUS
<1>1. T \subseteq Nat
  OBVIOUS
<1>2. PICK n \in T : \A m \in T : n <= m
  <2> HIDE DEF T
  <2> QED
    BY <1>1, Least
<1>3. n \in 1 .. N /\ n - 1 \in P /\ n \notin P
  <2>1. n \in 1 .. N
    OBVIOUS
  <2>2. n - 1 \in 0 .. N /\ n - 1 < n
    BY <2>1
  <2>3. n - 1 \notin T
    BY <1>1, <1>2, <2>2
  <2> QED
    BY <2>1, <2>2, <2>3
<1> QED
  BY <1>3

(* A function that is given at 0 and, at n, by its value at n - 1.         *)
Follows(f, N, base, step) ==
  f = [n \in 0 .. N |-> IF n = 0 THEN base ELSE step[n][f[n - 1]]]

LEMMA Recursion ==
  ASSUME NEW N \in Nat, NEW S, NEW base \in S, NEW step \in [1 .. N -> [S -> S]]
  PROVE  \E f \in [0 .. N -> S] : Follows(f, N, base, step)
<1> DEFINE P == {n \in 0 .. N : \E f \in [0 .. n -> S] :
                    f[0] = base /\ \A i \in 1 .. n : f[i] = step[i][f[i - 1]]}
<1>1. 0 \in P
  <2> DEFINE f == [i \in 0 .. 0 |-> base]
  <2>1. f \in [0 .. 0 -> S] /\ f[0] = base
    OBVIOUS
  <2>2. \A i \in 1 .. 0 : FALSE
    OBVIOUS
  <2> HIDE DEF f
  <2> QED
    BY <2>1, <2>2
<1>2. ASSUME NEW n \in 1 .. N, n - 1 \in P PROVE n \in P
  <2>1. PICK f \in [0 .. n - 1 -> S] :
           f[0] = base /\ \A i \in 1 .. n - 1 : f[i] = step[i][f[i - 1]]
    BY <1>2
  <2> DEFINE g == [i \in 0 .. n |-> IF i = n THEN step[n][f[n - 1]] ELSE f[i]]
  <2>2. step[n][f[n - 1]] \in S
    OBVIOUS
  <2>3. g \in [0 .. n -> S]
    BY <2>2
  <2>4. g[0] = base
    BY <2>1
  <2>5. ASSUME NEW i \in 1 .. n PROVE g[i] = step[i][g[i - 1]]
    <3> HIDE DEF P
    <3>1. CASE i = n
      <4>1. g[n] = step[n][f[n - 1]] /\ g[n - 1] = f[n - 1]
        OBVIOUS
      <4> QED BY <3>1, <4>1
    <3>2. CASE i # n
      <4>1. i \in 1 .. n - 1 /\ g[i] = f[i] /\ g[i - 1] = f[i - 1]
        BY <3>2
      <4> QED BY <2>1, <4>1
    <3> QED BY <3>1, <3>2
  <2>6. n \in 0 .. N
    OBVIOUS
  <2> HIDE DEF g
  <2>7. \E c \in [0 .. n -> S] : c[0] = base /\ \A i \in 1 .. n : c[i] = step[i][c[i - 1]]
    BY <2>3, <2>4, <2>5
  <2> QED
    BY <2>6, <2>7
<1>3. N \in P
  <2> HIDE DEF P
  <2>1. \A n \in 1 .. N : n - 1 \in P => n \in P
    BY <1>2
  <2>2. 0 .. N \subseteq P
    BY <1>1, <2>1, UpTo
  <2> QED
    BY <2>2
<1>4. PICK f \in [0 .. N -> S] :
         f[0] = base /\ \A i \in 1 .. N : f[i] = step[i][f[i - 1]]
  BY <1>3
<1>5. \A n \in 0 .. N : f[n] = IF n = 0 THEN base ELSE step[n][f[n - 1]]
  BY <1>4
<1> QED
  BY <1>5 DEF Follows

(* OfMode keeps the grants of the mode, all of them and no others.         *)
LEMMA OfModeIs ==
  ASSUME NEW S, NEW grants \in Seq(S), NEW mode
  PROVE  LET s == OfMode(grants, mode) IN
         /\ s \in Seq(S)
         /\ \A j \in 1 .. Len(s) : \E i \in 1 .. Len(grants) :
               s[j] = grants[i] /\ grants[i].mode = mode
         /\ \A i \in 1 .. Len(grants) : grants[i].mode = mode =>
               \E j \in 1 .. Len(s) : s[j] = grants[i]
<1> DEFINE N == Len(grants)
           Body(c) == [n \in 0 .. N |->
                         IF n = 0 THEN << >>
                         ELSE IF grants[n].mode = mode THEN Append(c[n - 1], grants[n])
                         ELSE c[n - 1]]
           chosen == CHOOSE c : c = Body(c)
           step == [n \in 1 .. N |->
                      [v \in Seq(S) |->
                         IF grants[n].mode = mode THEN Append(v, grants[n]) ELSE v]]
<1>1. N \in Nat /\ \A n \in 1 .. N : grants[n] \in S
  OBVIOUS
<1>2. PICK f \in [0 .. N -> Seq(S)] : Follows(f, N, << >>, step)
  <2>1. step \in [1 .. N -> [Seq(S) -> Seq(S)]]
    BY <1>1
  <2>2. << >> \in Seq(S)
    OBVIOUS
  <2> HIDE DEF step, N
  <2> QED
    BY <1>1, <2>1, <2>2, Recursion
<1>3. f = Body(f)
  <2>1. \A n \in 0 .. N : f[n] = IF n = 0 THEN << >> ELSE step[n][f[n - 1]]
    <3> HIDE DEF step, N
    <3> QED
      BY <1>2 DEF Follows
  <2>2. \A n \in 1 .. N : n - 1 \in 0 .. N /\ f[n - 1] \in Seq(S)
    <3> HIDE DEF N, step
    <3> QED
      BY <1>1
  <2>3. \A n \in 1 .. N : step[n][f[n - 1]] =
           IF grants[n].mode = mode THEN Append(f[n - 1], grants[n]) ELSE f[n - 1]
    BY <2>2
  <2> HIDE DEF step, N
  <2>4. ASSUME NEW n \in 0 .. N
        PROVE  f[n] = IF n = 0 THEN << >>
                      ELSE IF grants[n].mode = mode THEN Append(f[n - 1], grants[n])
                      ELSE f[n - 1]
    <3>1. CASE n = 0
      BY <2>1, <3>1
    <3>2. CASE n # 0
      <4>1. n \in 1 .. N
        BY <1>1, <3>2
      <4>2. f[n] = step[n][f[n - 1]]
        BY <2>1, <3>2
      <4> QED
        BY <2>3, <3>2, <4>1, <4>2
    <3> QED
      BY <3>1, <3>2
  <2> QED
    BY <2>4
<1>4. chosen = Body(chosen)
  <2> HIDE DEF Body
  <2> QED
    BY <1>3
<1>5. OfMode(grants, mode) = chosen[N]
  BY DEF OfMode
<1> HIDE DEF chosen
<1>9. \A n \in 0 .. N : chosen[n] =
         IF n = 0 THEN << >>
         ELSE IF grants[n].mode = mode THEN Append(chosen[n - 1], grants[n])
         ELSE chosen[n - 1]
  BY <1>4
<1> DEFINE Good(n) ==
             /\ chosen[n] \in Seq(S)
             /\ \A j \in 1 .. Len(chosen[n]) : \E i \in 1 .. n :
                   chosen[n][j] = grants[i] /\ grants[i].mode = mode
             /\ \A i \in 1 .. n : grants[i].mode = mode =>
                   \E j \in 1 .. Len(chosen[n]) : chosen[n][j] = grants[i]
           P == {n \in 0 .. N : Good(n)}
<1>6. 0 \in P
  <2>1. chosen[0] = << >>
    BY <1>1, <1>9
  <2>2. Len(chosen[0]) = 0 /\ chosen[0] \in Seq(S)
    BY <2>1
  <2>3. Good(0)
    BY <2>2
  <2> QED
    BY <1>1, <2>3
<1>7. ASSUME NEW n \in 1 .. N, n - 1 \in P PROVE n \in P
  <2>1. chosen[n] = IF grants[n].mode = mode THEN Append(chosen[n - 1], grants[n])
                    ELSE chosen[n - 1]
    BY <1>1, <1>9
  <2>2. Good(n - 1) /\ n - 1 \in Nat /\ n \in 0 .. N
    BY <1>7
  <2>3. CASE grants[n].mode # mode
    <3>1. chosen[n] = chosen[n - 1] /\ \A i \in 1 .. n - 1 : i \in 1 .. n
      BY <2>1, <2>2, <2>3
    <3>2. \A i \in 1 .. n : grants[i].mode = mode => i \in 1 .. n - 1
      BY <2>2, <2>3
    <3>3. Good(n)
      BY <2>2, <3>1, <3>2
    <3> QED
      BY <2>2, <3>3
  <2>4. CASE grants[n].mode = mode
    <3>1. /\ chosen[n] \in Seq(S) /\ Len(chosen[n]) = Len(chosen[n - 1]) + 1
          /\ chosen[n][Len(chosen[n])] = grants[n]
          /\ \A j \in 1 .. Len(chosen[n - 1]) : chosen[n][j] = chosen[n - 1][j]
      <4>1. chosen[n] = Append(chosen[n - 1], grants[n]) /\ grants[n] \in S
        BY <1>1, <2>1, <2>4
      <4>2. chosen[n - 1] \in Seq(S)
        BY <2>2
      <4> QED
        BY <4>1, <4>2
    <3>2. ASSUME NEW j \in 1 .. Len(chosen[n])
          PROVE  \E i \in 1 .. n : chosen[n][j] = grants[i] /\ grants[i].mode = mode
      <4>1. CASE j = Len(chosen[n])
        BY <2>4, <3>1, <4>1
      <4>2. CASE j # Len(chosen[n])
        <5>1. j \in 1 .. Len(chosen[n - 1])
          BY <2>2, <3>1, <4>2
        <5>2. PICK i \in 1 .. n - 1 : chosen[n - 1][j] = grants[i] /\ grants[i].mode = mode
          BY <2>2, <5>1
        <5>3. i \in 1 .. n /\ chosen[n][j] = chosen[n - 1][j]
          BY <3>1, <5>1
        <5> QED
          BY <5>2, <5>3
      <4> QED
        BY <4>1, <4>2
    <3>3. ASSUME NEW i \in 1 .. n, grants[i].mode = mode
          PROVE  \E j \in 1 .. Len(chosen[n]) : chosen[n][j] = grants[i]
      <4>1. CASE i = n
        <5>1. Len(chosen[n]) \in 1 .. Len(chosen[n])
          BY <2>2, <3>1
        <5> QED
          BY <3>1, <4>1, <5>1
      <4>2. CASE i # n
        <5>1. i \in 1 .. n - 1
          BY <4>2
        <5>2. PICK j \in 1 .. Len(chosen[n - 1]) : chosen[n - 1][j] = grants[i]
          BY <2>2, <3>3, <5>1
        <5> QED
          BY <2>2, <3>1, <5>2
      <4> QED
        BY <4>1, <4>2
    <3> QED
      BY <2>2, <3>1, <3>2, <3>3
  <2> QED
    BY <2>3, <2>4
<1>8. N \in P
  <2> HIDE DEF P
  <2>1. \A n \in 1 .. N : n - 1 \in P => n \in P
    BY <1>7
  <2> HIDE DEF N
  <2>2. 0 .. N \subseteq P
    BY <1>1, <1>6, <2>1, UpTo
  <2> QED
    BY <1>1, <2>2
<1> QED
  BY <1>5, <1>8

(* A path without ".." leads where it says.                                *)
LEMMA RealOfPlain ==
  ASSUME NEW S, NEW path \in Seq(S), ".." \notin S
  PROVE  Real(path) = path
<1> DEFINE N == Len(path)
           Body(c) == [n \in 0 .. N |->
                         IF n = 0 THEN << >>
                         ELSE IF path[n] = ".." THEN SubSeq(c[n - 1], 1, Len(c[n - 1]) - 1)
                         ELSE Append(c[n - 1], path[n])]
           real == CHOOSE c : c = Body(c)
           f == [n \in 0 .. N |-> SubSeq(path, 1, n)]
<1>1. N \in Nat /\ \A n \in 1 .. N : path[n] \in S /\ path[n] # ".."
  OBVIOUS
<1>2. SubSeq(path, 1, 0) = << >> /\ SubSeq(path, 1, N) = path
  OBVIOUS
<1>3. ASSUME NEW n \in 1 .. N
      PROVE  SubSeq(path, 1, n) = Append(SubSeq(path, 1, n - 1), path[n])
  OBVIOUS
<1>4. f = Body(f)
  <2>1. ASSUME NEW n \in 0 .. N
        PROVE  f[n] = IF n = 0 THEN << >>
                      ELSE IF path[n] = ".." THEN SubSeq(f[n - 1], 1, Len(f[n - 1]) - 1)
                      ELSE Append(f[n - 1], path[n])
    <3>1. CASE n = 0
      BY <1>2, <3>1
    <3>2. CASE n # 0
      <4>1. n \in 1 .. N /\ n - 1 \in 0 .. N
        BY <1>1, <3>2
      <4>2. f[n] = SubSeq(path, 1, n) /\ f[n - 1] = SubSeq(path, 1, n - 1)
        BY <4>1
      <4> HIDE DEF f, N
      <4> QED
        BY <1>1, <1>3, <3>2, <4>1, <4>2
    <3> QED
      BY <3>1, <3>2
  <2> QED
    BY <2>1
<1>5. real = Body(real)
  <2> HIDE DEF Body, f
  <2> QED
    BY <1>4
<1>6. Real(path) = real[N]
  BY DEF Real
<1> HIDE DEF real
<1>7. \A n \in 0 .. N : real[n] =
         IF n = 0 THEN << >>
         ELSE IF path[n] = ".." THEN SubSeq(real[n - 1], 1, Len(real[n - 1]) - 1)
         ELSE Append(real[n - 1], path[n])
  BY <1>5
<1> DEFINE P == {n \in 0 .. N : real[n] = SubSeq(path, 1, n)}
<1>8. 0 \in P
  <2> HIDE DEF N
  <2>1. 0 \in 0 .. N
    BY <1>1
  <2>2. real[0] = << >>
    BY <1>7, <2>1
  <2> QED
    BY <1>2, <2>1, <2>2
<1>9. \A n \in 1 .. N : n - 1 \in P => n \in P
  <2> SUFFICES ASSUME NEW n \in 1 .. N, n - 1 \in P PROVE n \in P
    OBVIOUS
  <2>1. n \in 0 .. N /\ n # 0 /\ real[n - 1] = SubSeq(path, 1, n - 1)
    OBVIOUS
  <2> HIDE DEF N
  <2>2. real[n] = Append(SubSeq(path, 1, n - 1), path[n])
    BY <1>1, <1>7, <2>1
  <2> QED
    BY <1>3, <2>1, <2>2
<1> HIDE DEF N
<1>10. 0 .. N \subseteq P
  <2> HIDE DEF P
  <2> QED
    BY <1>1, <1>8, <1>9, UpTo
<1>11. real[N] = SubSeq(path, 1, N)
  BY <1>1, <1>10
<1> QED
  BY <1>2, <1>6, <1>11

-----------------------------------------------------------------------------
(* What is granted is what is seen.                                        *)

Parts == Part \cup {".."}

Grant == [mode : {"ro", "rw"}, path : Seq(Parts)]

(* A set of places of a sequence with a member has a last one.             *)
LEMMA Topmost ==
  ASSUME NEW N \in Nat, NEW T, T \subseteq 1 .. N, T # {}
  PROVE  \E i \in T : \A j \in T : j <= i
<1> DEFINE D == {N - i : i \in T}
<1>1. D \subseteq Nat /\ D # {}
  <2>1. ASSUME NEW i \in T PROVE N - i \in Nat
    <3>1. i \in 1 .. N
      OBVIOUS
    <3> QED
      BY <3>1
  <2>2. PICK i \in T : TRUE
    OBVIOUS
  <2> QED
    BY <2>1, <2>2
<1>2. PICK n \in D : \A m \in D : n <= m
  <2> HIDE DEF D
  <2> QED
    BY <1>1, Least
<1>3. PICK i \in T : n = N - i
  OBVIOUS
<1>4. \A j \in T : N - j \in D /\ j \in Nat /\ i \in Nat
  OBVIOUS
<1>5. \A j \in T : N - i <= N - j
  BY <1>2, <1>3, <1>4
<1> QED
  BY <1>4, <1>5

(* A path is where the last mount above it puts it.                        *)
LEMMA ViewIs ==
  ASSUME NEW S, NEW mounts \in Seq(S), NEW path
  PROVE  LET Above(i) == IsPrefix(Real(mounts[i].path), path)
             view == View(mounts, path)
         IN
         \/ (\A i \in 1 .. Len(mounts) : ~ Above(i)) /\ view = "nothing"
         \/ \E i \in 1 .. Len(mounts) :
              Above(i) /\ view = mounts[i].mode
                       /\ \A j \in 1 .. Len(mounts) : Above(j) => j <= i
<1> DEFINE Above(i) == IsPrefix(Real(mounts[i].path), path)
           N == Len(mounts)
           above == {i \in DOMAIN mounts : Above(i)}
           top == CHOOSE i \in above : \A j \in above : j <= i
<1>1. N \in Nat /\ DOMAIN mounts = 1 .. N
  OBVIOUS
<1>2. View(mounts, path) = IF above = {} THEN "nothing" ELSE mounts[top].mode
  BY DEF View
<1> HIDE DEF Above, N
<1>3. CASE above = {}
  <2>1. \A i \in 1 .. N : ~ Above(i)
    BY <1>1, <1>3
  <2> QED
    BY <1>2, <1>3, <2>1 DEF Above, N
<1>4. CASE above # {}
  <2>1. above \subseteq 1 .. N
    BY <1>1
  <2>2. \E i \in above : \A j \in above : j <= i
    <3> HIDE DEF above
    <3> QED
      BY <1>1, <1>4, <2>1, Topmost
  <2>3. top \in above /\ \A j \in above : j <= top
    <3> HIDE DEF above
    <3> QED
      BY <2>2
  <2>4. top \in 1 .. N /\ Above(top) /\ \A j \in 1 .. N : Above(j) => j <= top
    <3> HIDE DEF top
    <3> QED
      BY <1>1, <2>3
  <2>5. View(mounts, path) = mounts[top].mode
    <3> HIDE DEF top
    <3> QED
      BY <1>2, <1>4
  <2> HIDE DEF top
  <2> QED
    BY <2>4, <2>5 DEF Above, N
<1> QED
  BY <1>3, <1>4

(* What parse_sandbox makes of flags that are not full: grants.            *)
LEMMA ParsedGrants ==
  ASSUME NEW flags \in Seq(Flag), NEW net, NEW cwd \in Seq(Part),
         ParseSandbox(flags, net, cwd) # Error,
         ParseSandbox(flags, net, cwd).fs # <<Full>>
  PROVE  ParseSandbox(flags, net, cwd).fs \in Seq(Grant)
<1> DEFINE grants == [i \in DOMAIN flags |->
                   [mode |-> flags[i].mode, path |-> Absolutize(flags[i].path, cwd)]]
<1>1. /\ flags # <<Full>> => \A i \in DOMAIN flags : flags[i].mode \in {"ro", "rw"}
      /\ ParseSandbox(flags, net, cwd).fs =
           IF flags \in {<< >>, <<Full>>} THEN <<Full>> ELSE grants
  BY DEF ParseSandbox
<1>2. flags # <<Full>> /\ ParseSandbox(flags, net, cwd).fs = grants
  BY <1>1
<1>3. ASSUME NEW i \in 1 .. Len(flags)
      PROVE  [mode |-> flags[i].mode, path |-> Absolutize(flags[i].path, cwd)] \in Grant
  <2>1. flags[i] \in Flag /\ flags[i].mode \in {"ro", "rw"}
    BY <1>1, <1>2
  <2>2. flags[i].path \in Written
    BY <2>1 DEF Flag, Full, Invalid
  <2>3. flags[i].path.parts \in Seq(Parts)
    BY <2>2 DEF Written, Parts
  <2>4. cwd \in Seq(Parts)
    BY DEF Parts
  <2>5. cwd \o flags[i].path.parts \in Seq(Parts)
    BY <2>3, <2>4
  <2>6. Absolutize(flags[i].path, cwd) \in Seq(Parts)
    BY <2>3, <2>5 DEF Absolutize
  <2> QED
    BY <2>1, <2>6 DEF Grant
<1>4. grants \in Seq(Grant)
  BY <1>3
<1> QED
  BY <1>2, <1>4

(* Where the elements of two sequences are in the one that joins them.     *)
LEMMA Joined ==
  ASSUME NEW S, NEW s \in Seq(S), NEW t \in Seq(S)
  PROVE  /\ s \o t \in Seq(S)
         /\ Len(s) \in Nat /\ Len(t) \in Nat /\ Len(s \o t) = Len(s) + Len(t)
         /\ \A i \in 1 .. Len(s) : (s \o t)[i] = s[i]
         /\ \A i \in 1 .. Len(t) : (s \o t)[Len(s) + i] = t[i]
  OBVIOUS

(* The mounts before those of the grants.                                  *)
LEMMA SystemMountsAre ==
  /\ \E S : SystemMounts \in Seq(S)
  /\ Len(SystemMounts) = 11
  /\ \A k \in 1 .. 11 :
       \/ SystemMounts[k].mode \in {"proc", "dev", "tmpfs"}
       \/ /\ SystemMounts[k].mode = "ro"
          /\ \E i \in DOMAIN SystemDirs : Real(SystemMounts[k].path) = <<SystemDirs[i]>>
<1> DEFINE base == <<Mount("proc", <<"proc">>), Mount("dev", <<"dev">>),
                    Mount("tmpfs", <<"tmp">>)>>
           dirs == [i \in DOMAIN SystemDirs |-> Mount("ro", <<SystemDirs[i]>>)]
           M == {base[1], base[2], base[3]} \cup {dirs[i] : i \in 1 .. 8}
<1>1. DOMAIN SystemDirs = 1 .. 8 /\ \A i \in 1 .. 8 : SystemDirs[i] # ".."
  BY DEF SystemDirs
<1>2. ASSUME NEW T, base[1] \in T, base[2] \in T, base[3] \in T
      PROVE  base \in Seq(T)
  BY <1>2
<1>3. \A k \in 1 .. 3 : base[k].mode \in {"proc", "dev", "tmpfs"}
  BY DEF Mount
<1>4. \A i \in 1 .. 8 : dirs[i].mode = "ro" /\ dirs[i].path = <<SystemDirs[i]>>
  BY <1>1 DEF Mount
<1>5. dirs = [i \in 1 .. 8 |-> dirs[i]]
  BY <1>1
<1>6. Len(base) = 3 /\ Len(dirs) = 8
  <2>1. Len(base) = 3
    OBVIOUS
  <2> QED
    BY <1>5, <2>1
<1>7. SystemMounts = base \o dirs
  BY DEF SystemMounts
<1>8. ASSUME NEW i \in 1 .. 8 PROVE Real(dirs[i].path) = <<SystemDirs[i]>>
  <2> DEFINE S == {SystemDirs[i]}
  <2>1. <<SystemDirs[i]>> \in Seq(S) /\ ".." \notin S
    BY <1>1
  <2>2. Real(<<SystemDirs[i]>>) = <<SystemDirs[i]>>
    <3> HIDE DEF S
    <3> QED
      BY <2>1, RealOfPlain
  <2> HIDE DEF dirs
  <2> QED
    BY <1>4, <2>2
<1> HIDE DEF base, dirs
<1>9. base \in Seq(M) /\ dirs \in Seq(M)
  <2>1. base[1] \in M /\ base[2] \in M /\ base[3] \in M /\ \A i \in 1 .. 8 : dirs[i] \in M
    OBVIOUS
  <2> HIDE DEF M
  <2> QED
    BY <1>2, <1>5, <2>1
<1> HIDE DEF M
<1>10. /\ SystemMounts \in Seq(M) /\ Len(SystemMounts) = 11
       /\ \A k \in 1 .. 3 : SystemMounts[k] = base[k]
       /\ \A i \in 1 .. 8 : SystemMounts[3 + i] = dirs[i]
  <2>1. /\ SystemMounts \in Seq(M) /\ Len(SystemMounts) = Len(base) + Len(dirs)
        /\ \A k \in 1 .. Len(base) : SystemMounts[k] = base[k]
        /\ \A i \in 1 .. Len(dirs) : SystemMounts[Len(base) + i] = dirs[i]
    BY <1>7, <1>9
  <2> QED
    BY <1>6, <2>1
<1>11. ASSUME NEW k \in 1 .. 11, k > 3
       PROVE  /\ SystemMounts[k].mode = "ro"
              /\ \E i \in DOMAIN SystemDirs : Real(SystemMounts[k].path) = <<SystemDirs[i]>>
  <2>1. k - 3 \in 1 .. 8 /\ 3 + (k - 3) = k
    BY <1>11
  <2>2. SystemMounts[k] = dirs[k - 3]
    BY <1>10, <2>1
  <2> QED
    BY <1>1, <1>4, <1>8, <2>1, <2>2
<1>12. \A k \in 1 .. 11 : k \in 1 .. 3 \/ k > 3
  OBVIOUS
<1> QED
  BY <1>3, <1>10, <1>11, <1>12

(* The mounts of a restricted command: the system's, then every grant for  *)
(* reading, then every grant for writing, and no others.                   *)
InOrder(mounts, grants, last) ==
  /\ 11 <= last /\ last <= Len(mounts)
  /\ \A k \in 1 .. 11 : mounts[k] = SystemMounts[k]
  /\ \A k \in 12 .. last :
       \E i \in 1 .. Len(grants) : mounts[k] = grants[i] /\ grants[i].mode = "ro"
  /\ \A k \in last + 1 .. Len(mounts) :
       \E i \in 1 .. Len(grants) : mounts[k] = grants[i] /\ grants[i].mode = "rw"
  /\ \A i \in 1 .. Len(grants) : grants[i].mode = "ro" =>
       \E k \in 12 .. last : mounts[k] = grants[i]
  /\ \A i \in 1 .. Len(grants) : grants[i].mode = "rw" =>
       \E k \in last + 1 .. Len(mounts) : mounts[k] = grants[i]

MountsOf(grants) == SystemMounts \o GrantMounts(grants)

LEMMA MountsAre ==
  ASSUME NEW grants \in Seq(Grant), NEW mounts, mounts = MountsOf(grants)
  PROVE  /\ \E S : mounts \in Seq(S)
         /\ \E last \in Nat : InOrder(mounts, grants, last)
<1> DEFINE ro == OfMode(grants, "ro")
           rw == OfMode(grants, "rw")
           N == Len(mounts)
           last == 11 + Len(ro)
<1>1. mounts = SystemMounts \o (ro \o rw)
  BY DEF MountsOf, GrantMounts
<1>2. /\ ro \in Seq(Grant)
      /\ \A j \in 1 .. Len(ro) : \E i \in 1 .. Len(grants) :
            ro[j] = grants[i] /\ grants[i].mode = "ro"
      /\ \A i \in 1 .. Len(grants) : grants[i].mode = "ro" =>
            \E j \in 1 .. Len(ro) : ro[j] = grants[i]
  BY OfModeIs
<1>3. /\ rw \in Seq(Grant)
      /\ \A j \in 1 .. Len(rw) : \E i \in 1 .. Len(grants) :
            rw[j] = grants[i] /\ grants[i].mode = "rw"
      /\ \A i \in 1 .. Len(grants) : grants[i].mode = "rw" =>
            \E j \in 1 .. Len(rw) : rw[j] = grants[i]
  BY OfModeIs
<1>4. PICK M : SystemMounts \in Seq(M) /\ Len(SystemMounts) = 11
  BY SystemMountsAre
<1> DEFINE S == M \cup Grant
<1> HIDE DEF ro, rw
<1>5. SystemMounts \in Seq(S) /\ ro \in Seq(S) /\ rw \in Seq(S)
  BY <1>2, <1>3, <1>4
<1> HIDE DEF S
<1>6. /\ mounts \in Seq(S) /\ N \in Nat /\ N = 11 + Len(ro) + Len(rw)
      /\ Len(ro) \in Nat /\ Len(rw) \in Nat
      /\ \A k \in 1 .. 11 : mounts[k] = SystemMounts[k]
      /\ \A j \in 1 .. Len(ro) : mounts[11 + j] = ro[j]
      /\ \A j \in 1 .. Len(rw) : mounts[last + j] = rw[j]
  <2> DEFINE granted == ro \o rw
  <2>1. /\ granted \in Seq(S) /\ Len(granted) = Len(ro) + Len(rw)
        /\ Len(ro) \in Nat /\ Len(rw) \in Nat
        /\ \A j \in 1 .. Len(ro) : granted[j] = ro[j]
        /\ \A j \in 1 .. Len(rw) : granted[Len(ro) + j] = rw[j]
    BY <1>5, Joined
  <2> HIDE DEF granted
  <2>2. /\ mounts \in Seq(S) /\ Len(mounts) = 11 + Len(granted)
        /\ \A k \in 1 .. 11 : mounts[k] = SystemMounts[k]
        /\ \A j \in 1 .. Len(granted) : mounts[11 + j] = granted[j]
    <3>1. /\ mounts \in Seq(S) /\ Len(mounts) = Len(SystemMounts) + Len(granted)
          /\ \A k \in 1 .. Len(SystemMounts) : mounts[k] = SystemMounts[k]
          /\ \A j \in 1 .. Len(granted) : mounts[Len(SystemMounts) + j] = granted[j]
      BY <1>1, <1>5, <2>1, Joined DEF granted
    <3> QED
      BY <1>4, <3>1
  <2>3. ASSUME NEW j \in 1 .. Len(ro) PROVE mounts[11 + j] = ro[j]
    <3>1. j \in 1 .. Len(granted)
      BY <2>1
    <3> QED
      BY <2>1, <2>2, <3>1
  <2>4. ASSUME NEW j \in 1 .. Len(rw) PROVE mounts[last + j] = rw[j]
    <3>1. Len(ro) + j \in 1 .. Len(granted) /\ 11 + (Len(ro) + j) = last + j
      BY <2>1
    <3>2. mounts[11 + (Len(ro) + j)] = granted[Len(ro) + j]
      BY <2>2, <3>1
    <3> QED
      BY <2>1, <3>1, <3>2
  <2>5. N \in Nat /\ N = 11 + Len(ro) + Len(rw)
    <3> HIDE DEF last
    <3> QED
      BY <2>1, <2>2
  <2> HIDE DEF N, last
  <2> QED
    BY <2>1, <2>2, <2>3, <2>4, <2>5
<1> HIDE DEF N
<1>7. N \in Nat /\ N = 11 + Len(ro) + Len(rw) /\ Len(ro) \in Nat /\ Len(rw) \in Nat
  <2> HIDE DEF last
  <2> QED
    BY <1>6
<1>10. last \in Nat /\ 11 <= last /\ last <= N
  BY <1>7
<1>11. ASSUME NEW k \in 12 .. last
       PROVE  \E i \in 1 .. Len(grants) : mounts[k] = grants[i] /\ grants[i].mode = "ro"
  <2>1. k - 11 \in 1 .. Len(ro) /\ 11 + (k - 11) = k
    BY <1>7
  <2>2. mounts[k] = ro[k - 11]
    BY <1>6, <2>1
  <2> QED
    BY <1>2, <2>1, <2>2
<1>12. ASSUME NEW k \in last + 1 .. N
       PROVE  \E i \in 1 .. Len(grants) : mounts[k] = grants[i] /\ grants[i].mode = "rw"
  <2>1. k - last \in 1 .. Len(rw) /\ last + (k - last) = k
    BY <1>7
  <2>2. mounts[k] = rw[k - last]
    BY <1>6, <2>1
  <2> QED
    BY <1>3, <2>1, <2>2
<1>13. ASSUME NEW i \in 1 .. Len(grants), grants[i].mode = "ro"
       PROVE  \E k \in 12 .. last : mounts[k] = grants[i]
  <2>1. PICK j \in 1 .. Len(ro) : ro[j] = grants[i]
    BY <1>2, <1>13
  <2>2. 11 + j \in 12 .. last
    BY <1>6
  <2> QED
    BY <1>6, <2>1, <2>2
<1>14. ASSUME NEW i \in 1 .. Len(grants), grants[i].mode = "rw"
       PROVE  \E k \in last + 1 .. N : mounts[k] = grants[i]
  <2>1. PICK j \in 1 .. Len(rw) : rw[j] = grants[i]
    BY <1>3, <1>14
  <2>2. last + j \in last + 1 .. N
    BY <1>6
  <2> QED
    BY <1>6, <2>1, <2>2
<1> QED
  BY <1>6, <1>10, <1>11, <1>12, <1>13, <1>14 DEF InOrder, N

(* What a command sees that was started under grants.                      *)
LEMMA GrantedView ==
  ASSUME NEW grants \in Seq(Grant), NEW path,
         NEW mounts, mounts = MountsOf(grants)
  PROVE  /\ View(mounts, path) = "rw" <=> Covered(grants, "rw", path)
         /\ View(mounts, path) = "ro" =>
              \/ Covered(grants, "ro", path)
              \/ \E i \in DOMAIN SystemDirs : IsPrefix(<<SystemDirs[i]>>, path)
         /\ Covered(grants, "ro", path) => View(mounts, path) \in {"ro", "rw"}
<1> DEFINE Above(k) == IsPrefix(Real(mounts[k].path), path)
           N == Len(mounts)
           view == View(mounts, path)
<1>1. PICK S : mounts \in Seq(S)
  BY MountsAre
<1>2. PICK last \in Nat : InOrder(mounts, grants, last)
  BY MountsAre
<1>3. /\ 11 <= last /\ last <= N
      /\ \A k \in 1 .. 11 : mounts[k] = SystemMounts[k]
      /\ \A k \in 12 .. last :
           \E i \in 1 .. Len(grants) : mounts[k] = grants[i] /\ grants[i].mode = "ro"
      /\ \A k \in last + 1 .. N :
           \E i \in 1 .. Len(grants) : mounts[k] = grants[i] /\ grants[i].mode = "rw"
      /\ \A i \in 1 .. Len(grants) : grants[i].mode = "ro" =>
           \E k \in 12 .. last : mounts[k] = grants[i]
      /\ \A i \in 1 .. Len(grants) : grants[i].mode = "rw" =>
           \E k \in last + 1 .. N : mounts[k] = grants[i]
  BY <1>2 DEF InOrder
<1>4. \/ (\A k \in 1 .. N : ~ Above(k)) /\ view = "nothing"
      \/ \E k \in 1 .. N : Above(k) /\ view = mounts[k].mode
                             /\ \A j \in 1 .. N : Above(j) => j <= k
  BY <1>1, ViewIs
<1>5. N \in Nat /\ DOMAIN grants = 1 .. Len(grants) /\ Len(grants) \in Nat
  BY <1>1
<1> HIDE DEF N, view
<1>6. ASSUME NEW mode,
             \E i \in 1 .. Len(grants) :
               /\ grants[i].mode = mode /\ IsPrefix(Real(grants[i].path), path)
      PROVE  Covered(grants, mode, path)
  BY <1>5, <1>6 DEF Covered
<1>7. ASSUME NEW mode, Covered(grants, mode, path)
      PROVE  \E i \in 1 .. Len(grants) :
               /\ grants[i].mode = mode /\ IsPrefix(Real(grants[i].path), path)
  BY <1>5, <1>7 DEF Covered
<1>8. ASSUME NEW k \in 1 .. N, Above(k), view = mounts[k].mode
      PROVE  \/ k <= 11 /\ view \in {"proc", "dev", "tmpfs"}
             \/ /\ k <= 11 /\ view = "ro"
                /\ \E i \in DOMAIN SystemDirs : IsPrefix(<<SystemDirs[i]>>, path)
             \/ k \in 12 .. last /\ view = "ro" /\ Covered(grants, "ro", path)
             \/ k \in last + 1 .. N /\ view = "rw" /\ Covered(grants, "rw", path)
  <2>1. CASE k <= 11
    <3>1. k \in 1 .. 11 /\ mounts[k] = SystemMounts[k]
      BY <1>3, <1>5, <2>1
    <3> QED
      BY <1>8, <2>1, <3>1, SystemMountsAre
  <2>2. CASE k \in 12 .. last
    <3>1. PICK i \in 1 .. Len(grants) : mounts[k] = grants[i] /\ grants[i].mode = "ro"
      BY <1>3, <2>2
    <3>2. Covered(grants, "ro", path)
      BY <1>6, <1>8, <3>1
    <3> QED
      BY <1>8, <2>2, <3>1, <3>2
  <2>3. CASE k \in last + 1 .. N
    <3>1. PICK i \in 1 .. Len(grants) : mounts[k] = grants[i] /\ grants[i].mode = "rw"
      BY <1>3, <2>3
    <3>2. Covered(grants, "rw", path)
      BY <1>6, <1>8, <3>1
    <3> QED
      BY <1>8, <2>3, <3>1, <3>2
  <2>4. k <= 11 \/ k \in 12 .. last \/ k \in last + 1 .. N
    BY <1>3, <1>5
  <2> QED
    BY <2>1, <2>2, <2>3, <2>4
<1>9. view = "rw" => Covered(grants, "rw", path)
  BY <1>4, <1>8
<1>10. view = "ro" => \/ Covered(grants, "ro", path)
                      \/ \E i \in DOMAIN SystemDirs : IsPrefix(<<SystemDirs[i]>>, path)
  BY <1>4, <1>8
<1>11. ASSUME Covered(grants, "rw", path) PROVE view = "rw"
  <2>1. PICK i \in 1 .. Len(grants) :
           grants[i].mode = "rw" /\ IsPrefix(Real(grants[i].path), path)
    BY <1>7, <1>11
  <2>2. PICK k \in last + 1 .. N : mounts[k] = grants[i]
    BY <1>3, <2>1
  <2>3. k \in 1 .. N /\ Above(k)
    BY <1>3, <1>5, <2>1, <2>2
  <2>4. PICK top \in 1 .. N : Above(top) /\ view = mounts[top].mode /\ k <= top
    BY <1>4, <2>3
  <2>5. ~ (top <= 11) /\ top \notin 12 .. last
    BY <1>3, <1>5, <2>2, <2>4
  <2> QED
    BY <1>8, <2>4, <2>5
<1>12. ASSUME Covered(grants, "ro", path) PROVE view \in {"ro", "rw"}
  <2>1. PICK i \in 1 .. Len(grants) :
           grants[i].mode = "ro" /\ IsPrefix(Real(grants[i].path), path)
    BY <1>7, <1>12
  <2>2. PICK k \in 12 .. last : mounts[k] = grants[i]
    BY <1>3, <2>1
  <2>3. k \in 1 .. N /\ Above(k)
    BY <1>3, <1>5, <2>1, <2>2
  <2>4. PICK top \in 1 .. N : Above(top) /\ view = mounts[top].mode /\ k <= top
    BY <1>4, <2>3
  <2>5. ~ (top <= 11)
    BY <1>3, <1>5, <2>2, <2>4
  <2> QED
    BY <1>8, <2>4, <2>5
<1> QED
  BY <1>9, <1>10, <1>11, <1>12 DEF view

(* A grant that allows the directory the command is started in covers it.  *)
LEMMA CwdIsCovered ==
  ASSUME NEW grants \in Seq(Grant), NEW cwd \in Seq(Part),
         \E i \in DOMAIN grants : GrantAllowsCwd(grants[i], cwd)
  PROVE  Covered(grants, "ro", cwd) \/ Covered(grants, "rw", cwd)
<1>1. PICK i \in DOMAIN grants : GrantAllowsCwd(grants[i], cwd)
  OBVIOUS
<1>2. grants[i] \in Grant
  OBVIOUS
<1> DEFINE path == grants[i].path
<1>3. grants[i].mode \in {"ro", "rw"} /\ path \in Seq(Parts)
  BY <1>2 DEF Grant
<1>4. IsPrefix(path, cwd)
  BY <1>1, <1>3 DEF GrantAllowsCwd
<1> HIDE DEF path
<1>5. Len(path) <= Len(cwd) /\ SubSeq(path, 1, Len(path)) = SubSeq(cwd, 1, Len(path))
  BY <1>4 DEF IsPrefix
<1>6. path = SubSeq(cwd, 1, Len(path))
  BY <1>3, <1>5
<1>7. path \in Seq(Part)
  BY <1>3, <1>5, <1>6
<1>8. Real(path) = path
  BY <1>7, RealOfPlain, SandboxAssumption
<1> QED
  BY <1>3, <1>4, <1>8 DEF Covered, path

LEMMA EveryRequest ==
  ASSUME NEW flags \in Seq(Flag), NEW net, NEW cwd \in Seq(Part), NEW path
  PROVE  AsGranted(flags, net, cwd, path)
<1> DEFINE spec == ParseSandbox(flags, net, cwd)
           started == BuildCommand(spec, cwd)
           view == View(started.mounts, path)
<1> HIDE DEF spec, started, view
<1>1. SUFFICES ASSUME spec # Error, started # Error, spec.fs # <<Full>>
               PROVE  /\ view = "rw" <=> Covered(spec.fs, "rw", path)
                      /\ view = "ro" =>
                           \/ Covered(spec.fs, "ro", path)
                           \/ \E i \in DOMAIN SystemDirs : IsPrefix(<<SystemDirs[i]>>, path)
                      /\ path = cwd => view \in {"ro", "rw"}
                      /\ Covered(spec.fs, "ro", path) => view \in {"ro", "rw"}
  BY DEF AsGranted, spec, started, view
<1>2. spec.fs \in Seq(Grant)
  BY <1>1, ParsedGrants DEF spec
<1>3. /\ \E i \in DOMAIN spec.fs : GrantAllowsCwd(spec.fs[i], cwd)
      /\ started.mounts = MountsOf(spec.fs)
  BY <1>1 DEF started, BuildCommand, MountsOf
<1>4. /\ view = "rw" <=> Covered(spec.fs, "rw", path)
      /\ view = "ro" =>
           \/ Covered(spec.fs, "ro", path)
           \/ \E i \in DOMAIN SystemDirs : IsPrefix(<<SystemDirs[i]>>, path)
      /\ Covered(spec.fs, "ro", path) => view \in {"ro", "rw"}
  BY <1>2, <1>3, GrantedView DEF view
<1>5. Covered(spec.fs, "ro", cwd) \/ Covered(spec.fs, "rw", cwd)
  BY <1>2, <1>3, CwdIsCovered
<1> QED
  BY <1>4, <1>5

(* For all flags, directories and paths: what a command that is started    *)
(* under grants can write is what was granted for writing, and it sees     *)
(* what was granted and where it is.                                       *)
THEOREM Granted == SandboxIsAsGranted
<1> SUFFICES ASSUME request \in Requests, NEW path \in Paths
             PROVE  AsGranted(request.flags, request.net, request.cwd, path)
  BY DEF SandboxIsAsGranted
<1>1. request \in Request
  BY SandboxAssumption
<1>2. request.flags \in Seq(Flag) /\ request.cwd \in Seq(Part)
  BY <1>1 DEF Request
<1> QED
  BY <1>2, EveryRequest
=============================================================================
