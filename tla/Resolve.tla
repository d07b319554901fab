------------------------------ MODULE Resolve -------------------------------
(***************************************************************************)
(* Which session a target names (src/store.rs, resolve_target_in_state): a *)
(* target is compared with the hash and with the current name of every     *)
(* session in scope, as a whole and, when nothing matches as a whole, as a *)
(* prefix.  The states are those of the registry; an answer is a pure      *)
(* function of one of them.                                                *)
(***************************************************************************)
EXTENDS SessionRegistry

CONSTANTS
  Target,         \* what callers ask for: names, hashes and parts of them
  ProperPrefix    \* the pairs <<t, u>> of texts of which t begins u

StartsWith(text, t) == text = t \/ <<t, text>> \in ProperPrefix

Scope == {"live_only", "dead_only", "all"}

(* session_matches_scope.                                                  *)
InScope(h, scope) ==
  \/ scope = "live_only" /\ Live(sessions, h)
  \/ scope = "dead_only" /\ Dead(sessions, h)
  \/ scope = "all" /\ Known(sessions, h)

ExactHash(t, scope) == {h \in Hash : InScope(h, scope) /\ h = t}

ExactName(t, scope) == {h \in Hash : InScope(h, scope) /\ sessions[h].current = t}

PrefixHash(t, scope) == {h \in Hash : InScope(h, scope) /\ StartsWith(h, t)}

PrefixName(t, scope) ==
  {h \in Hash : InScope(h, scope) /\ StartsWith(sessions[h].current, t)}

AtMostOne(ms) == \A g, h \in ms : g = h

(* resolve_hash_matches and resolve_name_matches: the set of the results   *)
(* they may return, each the session that matched or none, that is, a set  *)
(* of at most one session.  The empty set of results is an error.          *)
HashResult(ms) == IF AtMostOne(ms) THEN {ms} ELSE {}

(* Mutant of NameResult: a live session is preferred in any scope, and for *)
(* prefixes too.                                                           *)
LiveResult(ms, scope, exact) ==
  IF AtMostOne(ms) THEN {ms} ELSE {{h} : h \in {m \in ms : Live(sessions, m)}}

(* Among several sessions of the name a live one is taken, the first in    *)
(* the order of the vector, which is left open here.                       *)
NameResult(ms, scope, exact) ==
  IF AtMostOne(ms) THEN {ms}
  ELSE IF exact /\ scope = "all" THEN {{h} : h \in {m \in ms : Live(sessions, m)}}
  ELSE {}

(* Mutant of Agreed: a name that matches hides the hash.                   *)
NameWins(hashes, names) ==
  {h \in Hash : {h} \in names \/ ({} \in names /\ {h} \in hashes)}

(* resolve_target_matches: the two must not name different sessions.       *)
Agreed(hashes, names) ==
  {h \in Hash : \E m \in hashes, n \in names : m \cup n = {h}}

(* The sessions resolve_target may return; none when it returns an error.  *)
ResolveTarget(t, scope) ==
  LET hashes == ExactHash(t, scope)
      names == ExactName(t, scope)
  IN
  IF hashes \cup names # {}
  THEN Agreed(HashResult(hashes), NameResult(names, scope, TRUE))
  ELSE Agreed(HashResult(PrefixHash(t, scope)),
              NameResult(PrefixName(t, scope), scope, FALSE))

-----------------------------------------------------------------------------
(* What a caller may mean: what matches as a whole, or else as a prefix.   *)
Meant(t, scope) ==
  LET exact == {h \in Hash : InScope(h, scope) /\ t \in {h, sessions[h].current}}
      prefix == {h \in Hash : /\ InScope(h, scope)
                              /\ \E text \in {h, sessions[h].current} :
                                    StartsWith(text, t)}
  IN IF exact # {} THEN exact ELSE prefix

(* The store never guesses: what only one session can be meant by finds    *)
(* it, and when others could be meant too nothing is found, but for the    *)
(* live session among dead ones of its name (or, by the clash of a         *)
(* numbered session with a checked one, one of two live ones).             *)
NeverGuesses ==
  \A t \in Target, scope \in Scope :
     LET meant == Meant(t, scope) IN
     /\ \A h \in Hash : meant = {h} => ResolveTarget(t, scope) = {h}
     /\ \A h \in ResolveTarget(t, scope) :
          /\ h \in meant
          /\ \A g \in meant \ {h} :
               /\ scope = "all" /\ Live(sessions, h)
               /\ sessions[g].current = t /\ sessions[h].current = t
               /\ Dead(sessions, g)
                    \/ ~ (Unchecked(sessions, g) <=> Unchecked(sessions, h))

(* "Programs should prefer the stable id_hash": the hash of a session in   *)
(* scope never leads to another, and leads to it unless a session in scope *)
(* bears the same seven digits as its name.                                *)
HashIsStable ==
  \A h \in Hash, scope \in Scope : InScope(h, scope) =>
     /\ ResolveTarget(h, scope) \subseteq {h}
     /\ ExactName(h, scope) \subseteq {h} => ResolveTarget(h, scope) = {h}
=============================================================================
