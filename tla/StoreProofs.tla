---------------------------- MODULE StoreProofs -----------------------------
(***************************************************************************)
(* For any number of clients, sessions and faults, the store implements    *)
(* the registry: whatever steps of whatever calls are interleaved, and     *)
(* whoever stops where, the content of state.json changes as if every call *)
(* were one step.  The second half is about the files beside state.json:   *)
(* a listed session has its directory and its history, and a history is    *)
(* in order and never ahead of the status.                                 *)
(***************************************************************************)
EXTENDS Store, TLAPS

(* The calls that hold the lock.                                           *)
Holding(p) ==
  \/ pc[p] \in {"apply", "write", "fill", "commit"}
  \/ pc[p] \in {"meta", "metafill", "event"} /\ op[p].kind = "create"

(* Which calls a process makes, and what they are about.                   *)
ClientRole(c) ==
  /\ pc[c] \in {"idle", "spawn"} \cup Calling
  /\ pc[c] \in Calling => op[c].kind \in {"create", "rename"}
  /\ pc[c] = "spawn" => op[c].kind = "create"

MainRole(h) ==
  LET p == Main(h) IN
  /\ pc[p] \in {"off", "boot", "serve", "failing", "exit", "gone"} \cup Calling
  /\ pc[p] \in Calling => op[p].kind \in {"live", "failed"} /\ op[p].hash = h

WaitRole(h) ==
  LET p == Wait(h) IN
  /\ pc[p] \in {"off", "child", "joined", "broken", "gone"} \cup Calling
  /\ pc[p] \in Calling => op[p].kind = "exited" /\ op[p].hash = h

CallInv(p) ==
  /\ pc[p] \in Calling \cup {"spawn"} => op[p] \in Call
  /\ pc[p] \in Calling /\ op[p].kind = "rename"
       => op[p].hash \in Hash /\ op[p].name \in ExplicitName
  /\ pc[p] \in (Calling \ {"apply"}) \cup {"spawn"}
       => op[p].hash \in Hash /\ result[p] \in SessionRecord

(* What the holder of the lock has in memory is state.json, and after the  *)
(* closure state.json as one step of the registry leaves it.               *)
Changed(p) ==
  LET h == op[p].hash
      kind == op[p].kind
  IN
  /\ kind = "create" =>
       /\ ~ Known(disk.sessions, h)
       /\ op[p].name # None => ~ NameTaken(disk.sessions, op[p].name)
       /\ mem = Created(disk, h, op[p].name)
  /\ kind = "rename" =>
       /\ Live(disk.sessions, h)
       /\ ~ NameTaken(disk.sessions, op[p].name)
       /\ mem = [disk EXCEPT !.sessions[h].current = op[p].name]
  /\ kind \in DOMAIN StatusAfter =>
       /\ Known(disk.sessions, h)
       /\ mem = [disk EXCEPT !.sessions[h].status = StatusAfter[kind]]

MemInv(p) ==
  Holding(p) =>
    /\ mem \in StateFile
    /\ pc[p] = "apply" => mem = disk
    /\ pc[p] # "apply" => Changed(p)
    /\ pc[p] = "commit" => tmp = mem

(* The service of a session is started once, after the session is in       *)
(* state.json, and nobody but its main thread changes the status until     *)
(* mark_live has.                                                          *)
Unborn(h) ==
  \/ pc[Main(h)] = "boot"
  \/ Holding(Main(h)) /\ op[Main(h)].kind = "live"

GoingLive(h) ==
  pc[Main(h)] = "boot" \/ (pc[Main(h)] \in Calling /\ op[Main(h)].kind = "live")

ServiceInv(h) ==
  /\ pc[Main(h)] = "off" \/ GoingLive(h) => pc[Wait(h)] = "off"
  /\ pc[Main(h)] # "off" => Known(disk.sessions, h)
  /\ Unborn(h) => disk.sessions[h].status = "Starting"

SpawnInv(c) ==
  pc[c] = "spawn" =>
    /\ pc[Main(op[c].hash)] = "off"
    /\ disk.sessions[op[c].hash].status = "Starting"
    /\ \A d \in Client : pc[d] = "spawn" /\ op[d].hash = op[c].hash => d = c

LockInv == \A p \in Proc : Holding(p) <=> lock = p

RoleInv ==
  /\ \A c \in Client : ClientRole(c)
  /\ \A h \in Hash : MainRole(h) /\ WaitRole(h)

Inv ==
  /\ TypeOK
  /\ LockInv
  /\ RoleInv
  /\ \A p \in Proc : CallInv(p) /\ MemInv(p)
  /\ \A h \in Hash : ServiceInv(h)
  /\ \A c \in Client : SpawnInv(c)

-----------------------------------------------------------------------------
(* Processes, calls and what they hold.                                    *)

LEMMA ProcFacts ==
  /\ Client \subseteq Proc
  /\ None \notin Proc
  /\ \A h \in Hash : /\ Main(h) \in Proc /\ Main(h) \notin Client
                     /\ Wait(h) \in Proc /\ Wait(h) \notin Client
  /\ \A g, h \in Hash : /\ Main(g) # Wait(h)
                        /\ Main(g) = Main(h) => g = h
                        /\ Wait(g) = Wait(h) => g = h
  /\ \A p \in Proc : p \in Client \/ \E h \in Hash : p = Main(h) \/ p = Wait(h)
BY ProcAssumption DEF Proc, Main, Wait

(* Only the processes ps move, and they touch neither state.json nor,      *)
(* unless it is theirs to touch, the lock and what it guards.              *)
LEMMA Moves ==
  ASSUME Inv, TypeOK', NEW ps \in SUBSET Proc,
         \A q \in Proc \ ps : /\ pc'[q] = pc[q] /\ op'[q] = op[q]
                              /\ result'[q] = result[q]
                              /\ lock' = q <=> lock = q,
         disk' = disk,
         lock \in ps \cup {None} \/ UNCHANGED <<mem, tmp>>,
         \A q \in ps : /\ Holding(q)' <=> lock' = q
                       /\ CallInv(q)' /\ MemInv(q)'
                       /\ q \in Client => ClientRole(q)' /\ pc'[q] # "spawn"
                       /\ \A h \in Hash : /\ q = Main(h) => MainRole(h)'
                                          /\ q = Wait(h) => WaitRole(h)',
         \A h \in Hash : Main(h) \in ps \/ Wait(h) \in ps => ServiceInv(h)',
         \A c \in Client \ ps : pc[c] = "spawn" => Main(op[c].hash) \notin ps
  PROVE  Inv'
<1>1. \A q \in Proc \ ps : Holding(q)' <=> Holding(q)
  BY DEF Holding
<1>2. LockInv'
  BY <1>1 DEF Inv, LockInv
<1>3. RoleInv'
  <2>1. ASSUME NEW c \in Client, c \notin ps PROVE ClientRole(c)'
    BY <2>1, ProcFacts DEF Inv, RoleInv, ClientRole
  <2>2. ASSUME NEW h \in Hash, Main(h) \notin ps PROVE MainRole(h)'
    BY <2>2, ProcFacts DEF Inv, RoleInv, MainRole
  <2>3. ASSUME NEW h \in Hash, Wait(h) \notin ps PROVE WaitRole(h)'
    BY <2>3, ProcFacts DEF Inv, RoleInv, WaitRole
  <2> QED
    BY <2>1, <2>2, <2>3 DEF RoleInv
<1>4. ASSUME NEW q \in Proc \ ps PROVE CallInv(q)' /\ MemInv(q)'
  <2>1. CallInv(q)'
    BY DEF Inv, CallInv
  <2>2. CASE Holding(q)
    <3>1. lock = q
      BY <2>2 DEF Inv, LockInv
    <3>2. UNCHANGED <<mem, tmp, disk>>
      BY <3>1, ProcFacts
    <3>3. MemInv(q) /\ Changed(q)' = Changed(q)
      BY <3>2 DEF Inv, Changed
    <3> QED
      BY <1>1, <2>1, <2>2, <3>2, <3>3 DEF MemInv
  <2> QED
    BY <1>1, <2>1, <2>2 DEF MemInv
<1>5. ASSUME NEW h \in Hash, Main(h) \notin ps, Wait(h) \notin ps
      PROVE  ServiceInv(h)'
  <2>1. /\ pc'[Main(h)] = pc[Main(h)] /\ op'[Main(h)] = op[Main(h)]
        /\ Holding(Main(h))' <=> Holding(Main(h))
        /\ pc'[Wait(h)] = pc[Wait(h)]
    BY <1>1, <1>5, ProcFacts
  <2>2. (GoingLive(h)' <=> GoingLive(h)) /\ (Unborn(h)' <=> Unborn(h))
    BY <2>1 DEF GoingLive, Unborn
  <2> QED
    BY <2>1, <2>2 DEF Inv, ServiceInv
<1>6. ASSUME NEW c \in Client PROVE SpawnInv(c)'
  <2> SUFFICES ASSUME pc'[c] = "spawn" PROVE SpawnInv(c)'
    BY DEF SpawnInv
  <2>1. c \notin ps /\ pc[c] = "spawn" /\ op'[c] = op[c] /\ SpawnInv(c)
    BY ProcFacts DEF Inv
  <2>2. op[c].hash \in Hash
    BY <2>1, ProcFacts DEF Inv, CallInv
  <2>3. pc'[Main(op[c].hash)] = "off"
    BY <2>1, <2>2, ProcFacts DEF SpawnInv
  <2>4. \A d \in Client : pc'[d] = "spawn" /\ op'[d].hash = op'[c].hash => d = c
    BY <2>1, ProcFacts DEF SpawnInv
  <2> QED
    BY <2>1, <2>3, <2>4 DEF SpawnInv
<1> QED
  BY <1>2, <1>3, <1>4, <1>5, <1>6 DEF Inv

(* The case of one process.                                                *)
LEMMA Move ==
  ASSUME Inv, TypeOK', NEW p \in Proc,
         \A q \in Proc \ {p} : /\ pc'[q] = pc[q] /\ op'[q] = op[q]
                               /\ result'[q] = result[q],
         disk' = disk,
         lock \in {p, None} \/ UNCHANGED <<mem, tmp>>,
         \A q \in Proc \ {p} : lock' = q <=> lock = q,
         Holding(p)' <=> lock' = p,
         CallInv(p)', MemInv(p)',
         p \in Client => ClientRole(p)' /\ pc'[p] # "spawn",
         \A h \in Hash : p = Main(h) =>
            /\ MainRole(h)'
            /\ pc[p] # "off" /\ pc'[p] # "off"
            /\ GoingLive(h)' => GoingLive(h)
            /\ Unborn(h)' => Unborn(h),
         \A h \in Hash : p = Wait(h) =>
            /\ WaitRole(h)'
            /\ pc[p] # "off" /\ pc'[p] # "off"
  PROVE  Inv'
<1>1. ASSUME NEW h \in Hash, p = Main(h) PROVE ServiceInv(h)'
  <2>1. pc'[Wait(h)] = pc[Wait(h)]
    BY <1>1, ProcFacts
  <2> QED
    BY <1>1, <2>1 DEF Inv, ServiceInv
<1>2. ASSUME NEW h \in Hash, p = Wait(h) PROVE ServiceInv(h)'
  <2>1. /\ pc'[Main(h)] = pc[Main(h)] /\ op'[Main(h)] = op[Main(h)]
        /\ Holding(Main(h))' <=> Holding(Main(h))
    BY <1>2, ProcFacts DEF Holding
  <2>2. (GoingLive(h)' <=> GoingLive(h)) /\ (Unborn(h)' <=> Unborn(h))
    BY <2>1 DEF GoingLive, Unborn
  <2> QED
    BY <1>2, <2>1, <2>2 DEF Inv, ServiceInv
<1>3. ASSUME NEW c \in Client, pc[c] = "spawn" PROVE Main(op[c].hash) # p
  <2>1. op[c].hash \in Hash /\ pc[Main(op[c].hash)] = "off"
    BY <1>3, ProcFacts DEF Inv, CallInv, SpawnInv
  <2> QED
    BY <2>1
<1>4. \A h \in Hash : Main(h) \in {p} \/ Wait(h) \in {p} => ServiceInv(h)'
  BY <1>1, <1>2
<1> HIDE DEF Inv
<1> QED
  BY <1>3, <1>4, Moves, ProcFacts

-----------------------------------------------------------------------------
(* with_locked_state.                                                      *)

LEMMA BeginType ==
  ASSUME TypeOK, NEW p \in Proc, NEW kind \in Kind, NEW h \in Hash \cup {None},
         NEW name \in ExplicitName \cup {None}, Begin(p, kind, h, name)
  PROVE  /\ TypeOK'
         /\ pc'[p] = "apply" /\ op'[p] \in Call
         /\ op'[p].kind = kind /\ op'[p].hash = h /\ op'[p].name = name
<1>1. [kind |-> kind, hash |-> h, name |-> name] \in Call
  BY DEF Call
<1> QED
  BY <1>1 DEF TypeOK, Begin, Calling

(* A call begins: its process takes the free lock and reads state.json.    *)
LEMMA BeginInv ==
  ASSUME Inv, NEW p \in Proc, NEW kind \in Kind, NEW h \in Hash \cup {None},
         NEW name \in ExplicitName \cup {None}, Begin(p, kind, h, name),
         kind = "rename" => h \in Hash /\ name \in ExplicitName,
         p \in Client => kind \in {"create", "rename"},
         \A g \in Hash : p = Main(g) =>
            /\ kind \in {"live", "failed"} /\ h = g
            /\ pc[p] # "off"
            /\ kind = "live" => pc[p] = "boot",
         \A g \in Hash : p = Wait(g) => kind = "exited" /\ h = g /\ pc[p] # "off"
  PROVE  Inv'
<1>1. /\ TypeOK' /\ pc'[p] = "apply" /\ op'[p] \in Call
      /\ op'[p].kind = kind /\ op'[p].hash = h /\ op'[p].name = name
  BY BeginType DEF Inv
<1>2. /\ lock = None /\ lock' = p /\ mem' = disk /\ UNCHANGED <<disk, tmp, result>>
      /\ \A q \in Proc \ {p} : pc'[q] = pc[q] /\ op'[q] = op[q]
  BY DEF Begin, Inv, TypeOK
<1>3. CallInv(p)' /\ MemInv(p)' /\ (Holding(p)' <=> lock' = p)
  BY <1>1, <1>2 DEF CallInv, MemInv, Holding, Inv, TypeOK
<1>4. p \in Client => ClientRole(p)' /\ pc'[p] # "spawn"
  BY <1>1 DEF ClientRole, Calling
<1>5. ASSUME NEW g \in Hash, p = Main(g)
      PROVE  /\ MainRole(g)' /\ pc[p] # "off" /\ pc'[p] # "off"
             /\ GoingLive(g)' => GoingLive(g)
             /\ Unborn(g)' => Unborn(g)
  BY <1>1, <1>5 DEF MainRole, GoingLive, Unborn, Calling
<1>6. ASSUME NEW g \in Hash, p = Wait(g)
      PROVE  WaitRole(g)' /\ pc[p] # "off" /\ pc'[p] # "off"
  BY <1>1, <1>6 DEF WaitRole, Calling
<1>7. \A q \in Proc \ {p} : lock' = q <=> lock = q
  BY <1>2, ProcFacts
<1> QED
  BY <1>1, <1>2, <1>3, <1>4, <1>5, <1>6, <1>7, Move

LEMMA BeginCallsInv ==
  ASSUME Inv,
         \/ \E c \in Client : BeginCreate(c) \/ BeginRename(c)
         \/ \E h \in Hash : MarkLive(h) \/ MarkFailed(h) \/ MarkExited(h)
  PROVE  Inv'
<1>1. ASSUME NEW c \in Client, BeginCreate(c) PROVE Inv'
  BY <1>1, ProcFacts, BeginInv DEF BeginCreate, Kind
<1>2. ASSUME NEW c \in Client, BeginRename(c) PROVE Inv'
  BY <1>2, ProcFacts, BeginInv DEF BeginRename, Kind
<1>3. ASSUME NEW h \in Hash, MarkLive(h) PROVE Inv'
  BY <1>3, ProcFacts, BeginInv DEF MarkLive, Kind
<1>4. ASSUME NEW h \in Hash, MarkFailed(h) PROVE Inv'
  BY <1>4, ProcFacts, BeginInv DEF MarkFailed, Kind
<1>5. ASSUME NEW h \in Hash, MarkExited(h) PROVE Inv'
  BY <1>5, ProcFacts, BeginInv DEF MarkExited, Kind
<1> QED
  BY <1>1, <1>2, <1>3, <1>4, <1>5

(* The states the closures leave are states, and their records records.    *)
LEMMA CreatedType ==
  ASSUME NEW s \in StateFile, NEW h \in Hash, NEW name \in ExplicitName \cup {None}
  PROVE  Created(s, h, name) \in StateFile
<1>1. NextNumber(s.next) \in Nat
  BY DEF NextNumber, StateFile
<1>2. \A n \in Name, o \in {"explicit", "numbered"} : NewSession(n, o) \in SessionRecord
  BY DEF NewSession, SessionRecord, Status
<1>3. NewSession(NextNumber(s.next), "numbered") \in SessionRecord
  BY <1>1, <1>2 DEF Name
<1>4. name # None => NewSession(name, "explicit") \in SessionRecord
  BY <1>2, ExplicitNameAssumption
<1> QED
  BY <1>1, <1>3, <1>4 DEF Created, StateFile

LEMMA CreatedRecord ==
  ASSUME NEW s \in StateFile, NEW h \in Hash, NEW name \in ExplicitName \cup {None}
  PROVE  /\ Created(s, h, name).sessions[h] \in SessionRecord
         /\ Created(s, h, name).sessions[h].status = "Starting"
         /\ \A g \in Hash \ {h} : Created(s, h, name).sessions[g] = s.sessions[g]
<1>1. NextNumber(s.next) \in Name
  BY DEF NextNumber, StateFile, Name
<1>2. \A n \in Name, o \in {"explicit", "numbered"} :
         NewSession(n, o) \in SessionRecord /\ NewSession(n, o).status = "Starting"
  BY DEF NewSession, SessionRecord, Status
<1>3. name # None => name \in Name
  BY ExplicitNameAssumption
<1> QED
  BY <1>1, <1>2, <1>3 DEF Created, StateFile

LEMMA KnownRecord ==
  ASSUME NEW s \in StateFile, NEW h \in Hash
  PROVE  /\ Known(s.sessions, h) <=> s.sessions[h] \in SessionRecord
         /\ Live(s.sessions, h) => Known(s.sessions, h)
         /\ s.sessions[h].status = "Starting" => Known(s.sessions, h)
BY DEF StateFile, Known, Live, NoSession, SessionRecord, LiveStatus, Status

LEMMA UpdatedType ==
  ASSUME NEW s \in StateFile, NEW h \in Hash, Known(s.sessions, h)
  PROVE  /\ \A status \in Status :
              /\ [s EXCEPT !.sessions[h].status = status] \in StateFile
              /\ [s EXCEPT !.sessions[h].status = status].sessions[h] \in SessionRecord
         /\ \A name \in Name :
              /\ [s EXCEPT !.sessions[h].current = name] \in StateFile
              /\ [s EXCEPT !.sessions[h].current = name].sessions[h] \in SessionRecord
<1>1. s.sessions[h] \in SessionRecord
  BY KnownRecord
<1> QED
  BY <1>1 DEF StateFile, SessionRecord

(* The closure of process p has been applied: it leaves a state, which is  *)
(* what one step of the registry makes of state.json.                      *)
LEMMA ApplyInv ==
  ASSUME Inv, NEW p \in Proc, pc[p] = "apply", NEW s \in StateFile, NEW h \in Hash,
         Apply(p, s, h), s.sessions[h] \in SessionRecord,
         op' \in [Proc -> Call \cup {NoCall}], op'[p] \in Call, op'[p].hash = h,
         op'[p].kind = op[p].kind, op'[p].name = op[p].name,
         \A q \in Proc \ {p} : op'[q] = op[q],
         p \notin Client => op[p].hash = h,
         Changed(p)'
  PROVE  Inv'
<1>1. /\ lock = p /\ lock' = lock /\ mem' = s /\ UNCHANGED <<disk, tmp>>
      /\ pc'[p] = NextAfterApply(op[p].kind)
      /\ pc' \in [Proc -> Resting \cup Calling]
      /\ result'[p] = s.sessions[h]
      /\ result' \in [Proc -> SessionRecord \cup {None}]
      /\ \A q \in Proc \ {p} : pc'[q] = pc[q] /\ result'[q] = result[q]
  BY DEF Apply, Inv, TypeOK, LockInv, Holding, NextAfterApply, Calling
<1>2. pc'[p] \in {"meta", "write"} /\ (pc'[p] = "meta" => op[p].kind = "create")
  BY <1>1 DEF NextAfterApply
<1>3. TypeOK'
  BY <1>1 DEF Apply, Inv, TypeOK
<1>4. Holding(p)' /\ CallInv(p)' /\ MemInv(p)'
  BY <1>1, <1>2 DEF Holding, CallInv, MemInv, Inv, Calling
<1>5. p \in Client => ClientRole(p)' /\ pc'[p] # "spawn"
  BY <1>2 DEF ClientRole, Calling, Inv, RoleInv
<1>6. ASSUME NEW g \in Hash, p = Main(g)
      PROVE  /\ MainRole(g)' /\ pc[p] # "off" /\ pc'[p] # "off"
             /\ GoingLive(g)' => GoingLive(g)
             /\ Unborn(g)' => Unborn(g)
  BY <1>2, <1>6, ProcFacts DEF MainRole, GoingLive, Unborn, Holding, Calling, Inv, RoleInv
<1>7. ASSUME NEW g \in Hash, p = Wait(g)
      PROVE  WaitRole(g)' /\ pc[p] # "off" /\ pc'[p] # "off"
  BY <1>2, <1>7, ProcFacts DEF WaitRole, Calling, Inv, RoleInv
<1> QED
  BY <1>1, <1>3, <1>4, <1>5, <1>6, <1>7, Move

LEMMA ApplyCreateInv ==
  ASSUME Inv, NEW p \in Proc, ApplyCreate(p)
  PROVE  Inv'
<1>1. PICK h \in Hash :
        /\ ~ Known(mem.sessions, h)
        /\ op' = [op EXCEPT ![p].hash = h]
        /\ Apply(p, Created(mem, h, op[p].name), h)
  BY DEF ApplyCreate
<1>2. /\ pc[p] = "apply" /\ op[p].kind = "create"
      /\ op[p].name # None => ~ NameTaken(mem.sessions, op[p].name)
  BY DEF ApplyCreate
<1>3. op[p] \in Call /\ mem \in StateFile /\ mem = disk
  BY <1>2 DEF Inv, CallInv, MemInv, Holding, Calling
<1> DEFINE s == Created(mem, h, op[p].name)
<1>4. s \in StateFile /\ s.sessions[h] \in SessionRecord
  BY <1>3, CreatedType, CreatedRecord DEF Call
<1>5. /\ op'[p] \in Call /\ op'[p].hash = h
      /\ op'[p].kind = op[p].kind /\ op'[p].name = op[p].name
      /\ op' \in [Proc -> Call \cup {NoCall}]
      /\ \A q \in Proc \ {p} : op'[q] = op[q]
  BY <1>1, <1>3 DEF Inv, TypeOK, Call
<1>6. p \in Client
  BY <1>2, ProcFacts DEF Inv, RoleInv, MainRole, WaitRole, Calling
<1>7. mem' = s /\ disk' = disk
  BY <1>1 DEF Apply
<1>8. Changed(p)'
  BY <1>1, <1>2, <1>3, <1>5, <1>7 DEF Changed, StatusAfter
<1> HIDE DEF s
<1> QED
  BY <1>1, <1>2, <1>4, <1>5, <1>6, <1>8, ApplyInv DEF s

LEMMA ApplyRenameInv ==
  ASSUME Inv, NEW p \in Proc, ApplyRename(p)
  PROVE  Inv'
<1> DEFINE h == op[p].hash
           s == [mem EXCEPT !.sessions[h].current = op[p].name]
<1>1. /\ pc[p] = "apply" /\ op[p].kind = "rename" /\ op' = op
      /\ ~ NameTaken(mem.sessions, op[p].name) /\ Live(mem.sessions, h)
      /\ Apply(p, s, h)
  BY DEF ApplyRename
<1>2. /\ op[p] \in Call /\ mem \in StateFile /\ mem = disk
      /\ h \in Hash /\ op[p].name \in Name
  BY <1>1, ExplicitNameAssumption DEF Inv, CallInv, MemInv, Holding, Calling
<1>3. Known(mem.sessions, h)
  BY <1>1, <1>2, KnownRecord
<1>4. s \in StateFile /\ s.sessions[h] \in SessionRecord
  BY <1>2, <1>3, UpdatedType
<1>5. mem' = s /\ disk' = disk
  BY <1>1 DEF Apply
<1>6. Changed(p)'
  BY <1>1, <1>2, <1>5 DEF Changed, StatusAfter
<1>7. op' \in [Proc -> Call \cup {NoCall}]
  BY <1>1 DEF Inv, TypeOK
<1> HIDE DEF s
<1> QED
  BY <1>1, <1>2, <1>4, <1>6, <1>7, ApplyInv

LEMMA ApplyStatusInv ==
  ASSUME Inv, NEW p \in Proc, ApplyStatus(p)
  PROVE  Inv'
<1> DEFINE h == op[p].hash
           status == StatusAfter[op[p].kind]
           s == [mem EXCEPT !.sessions[h].status = status]
<1>1. /\ pc[p] = "apply" /\ op[p].kind \in DOMAIN StatusAfter /\ op' = op
      /\ Known(mem.sessions, h)
      /\ Apply(p, s, h)
  BY DEF ApplyStatus
<1>2. op[p] \in Call /\ mem \in StateFile /\ mem = disk /\ status \in Status
  BY <1>1 DEF Inv, CallInv, MemInv, Holding, Calling, StatusAfter, Status
<1>3. h \in Hash
  <2>1. p \notin Client
    BY <1>1 DEF Inv, RoleInv, ClientRole, Calling, StatusAfter
  <2> QED
    BY <1>1, <2>1, ProcFacts DEF Inv, RoleInv, MainRole, WaitRole, Calling
<1>4. s \in StateFile /\ s.sessions[h] \in SessionRecord
  BY <1>1, <1>2, <1>3, UpdatedType
<1>5. mem' = s /\ disk' = disk
  BY <1>1 DEF Apply
<1>6. Changed(p)'
  BY <1>1, <1>2, <1>5 DEF Changed, StatusAfter
<1>7. op' \in [Proc -> Call \cup {NoCall}]
  BY <1>1 DEF Inv, TypeOK
<1> HIDE DEF s
<1> QED
  BY <1>1, <1>2, <1>3, <1>4, <1>6, <1>7, ApplyInv

-----------------------------------------------------------------------------
(* The steps that follow the closure.                                      *)

(* The process of a call past its closure goes on to another step of it.   *)
LEMMA GoOnInv ==
  ASSUME Inv, TypeOK', NEW p \in Proc, pc[p] \in Calling \ {"apply"},
         pc'[p] \in Calling \ {"apply"},
         \A q \in Proc \ {p} : pc'[q] = pc[q],
         UNCHANGED <<disk, lock, op, mem, result>>,
         Holding(p)' <=> Holding(p),
         ~ Holding(p) => UNCHANGED tmp,
         pc'[p] = "commit" => tmp' = mem
  PROVE  Inv'
<1>1. lock = p <=> Holding(p)
  BY DEF Inv, LockInv
<1>2. lock \in {p, None} \/ UNCHANGED <<mem, tmp>>
  BY <1>1
<1>3. CallInv(p)'
  BY DEF Inv, CallInv, Calling
<1>4. MemInv(p)'
  BY DEF Inv, MemInv, Changed
<1>5. p \in Client => ClientRole(p)' /\ pc'[p] # "spawn"
  BY DEF Inv, RoleInv, ClientRole, Calling
<1>6. ASSUME NEW g \in Hash, p = Main(g)
      PROVE  /\ MainRole(g)' /\ pc[p] # "off" /\ pc'[p] # "off"
             /\ GoingLive(g)' => GoingLive(g)
             /\ Unborn(g)' => Unborn(g)
  BY <1>6 DEF MainRole, GoingLive, Unborn, Calling, Inv, RoleInv
<1>7. ASSUME NEW g \in Hash, p = Wait(g)
      PROVE  WaitRole(g)' /\ pc[p] # "off" /\ pc'[p] # "off"
  BY <1>7 DEF WaitRole, Calling, Inv, RoleInv
<1> QED
  BY <1>1, <1>2, <1>3, <1>4, <1>5, <1>6, <1>7, Move

LEMMA FileInv ==
  ASSUME Inv, NEW p \in Proc, TruncateTmp(p) \/ FillTmp(p)
  PROVE  Inv'
<1>1. CASE TruncateTmp(p)
  <2>1. TypeOK'
    BY <1>1 DEF TruncateTmp, Inv, TypeOK, Calling
  <2>2. /\ pc[p] = "write" /\ pc'[p] = "fill" /\ \A q \in Proc \ {p} : pc'[q] = pc[q]
        /\ UNCHANGED <<disk, lock, op, mem, result>>
    BY <1>1 DEF TruncateTmp, Inv, TypeOK
  <2> QED
    BY <2>1, <2>2, GoOnInv DEF Holding, Calling
<1>2. CASE FillTmp(p)
  <2>1. mem \in StateFile
    BY <1>2 DEF FillTmp, Inv, MemInv, Holding
  <2>2. TypeOK'
    BY <1>2, <2>1 DEF FillTmp, Inv, TypeOK, Calling
  <2>3. /\ pc[p] = "fill" /\ pc'[p] = "commit" /\ \A q \in Proc \ {p} : pc'[q] = pc[q]
        /\ tmp' = mem /\ UNCHANGED <<disk, lock, op, mem, result>>
    BY <1>2 DEF FillTmp, Inv, TypeOK
  <2> QED
    BY <2>2, <2>3, GoOnInv DEF Holding, Calling
<1> QED
  BY <1>1, <1>2

LEMMA PutType ==
  ASSUME NEW f, NEW key \in Dirs, NEW value, NEW S, DOMAIN f \subseteq Dirs,
         \A dir \in DOMAIN f : f[dir] \in S, value \in S
  PROVE  /\ DOMAIN Put(f, key, value) \subseteq Dirs
         /\ \A dir \in DOMAIN Put(f, key, value) : Put(f, key, value)[dir] \in S
BY DEF Put

LEMMA DirType ==
  ASSUME Inv, NEW p \in Proc, pc[p] \in Calling \ {"apply"}
  PROVE  Dir(p) \in Dirs /\ result[p] \in SessionRecord
BY DEF Inv, CallInv, Dir, Dirs, SessionRecord

LEMMA WriteMetaInv ==
  ASSUME Inv, NEW p \in Proc, TruncateMeta(p) \/ FillMeta(p)
  PROVE  Inv'
<1>1. /\ \/ pc[p] = "meta" /\ pc'[p] = "metafill"
         \/ pc[p] = "metafill" /\ pc'[p] = "event"
      /\ \A q \in Proc \ {p} : pc'[q] = pc[q]
      /\ pc' \in [Proc -> Resting \cup Calling]
      /\ UNCHANGED <<disk, tmp, lock, op, mem, result, faults, events>>
  BY DEF TruncateMeta, FillMeta, Inv, TypeOK, Calling
<1>2. Dir(p) \in Dirs /\ result[p] \in SessionRecord
  BY <1>1, DirType DEF Calling
<1>3. /\ DOMAIN meta' \subseteq Dirs
      /\ \A dir \in DOMAIN meta' : meta'[dir] \in SessionRecord \cup Unfinished
  <2>1. PICK x \in SessionRecord \cup Unfinished : meta' = Put(meta, Dir(p), x)
    BY <1>2 DEF TruncateMeta, FillMeta, Unfinished
  <2> QED
    BY <1>2, <2>1, PutType DEF Inv, TypeOK
<1>4. TypeOK'
  BY <1>1, <1>3 DEF Inv, TypeOK
<1> QED
  BY <1>1, <1>4, GoOnInv DEF Holding, Calling

LEMMA EventsType ==
  ASSUME Inv, NEW p \in Proc, AppendEvent(p)
  PROVE  /\ DOMAIN events' \subseteq Dirs
         /\ \A dir \in DOMAIN events' : events'[dir] \in Seq(Events)
<1>1. pc[p] = "event" /\ Dir(p) \in Dirs /\ result[p] \in SessionRecord
  BY DirType DEF AppendEvent, Calling
<1>2. op[p] \in Call
  BY <1>1 DEF Inv, CallInv, Calling
<1>3. EventOf(p) \in Events
  BY <1>1, <1>2 DEF EventOf, Events, EventName, Call, Kind, SessionRecord
<1>4. EventsOf(Dir(p)) \in Seq(Events)
  BY DEF EventsOf, Inv, TypeOK
<1>5. Append(EventsOf(Dir(p)), EventOf(p)) \in Seq(Events)
  BY <1>3, <1>4
<1> QED
  BY <1>1, <1>5, PutType DEF AppendEvent, Inv, TypeOK

(* The created event: its call goes on to write state.json.                *)
LEMMA AppendCreatedInv ==
  ASSUME Inv, NEW p \in Proc, AppendEvent(p), op[p].kind = "create"
  PROVE  Inv'
<1>1. /\ pc[p] = "event" /\ pc'[p] = "write" /\ \A q \in Proc \ {p} : pc'[q] = pc[q]
      /\ pc' \in [Proc -> Resting \cup Calling]
      /\ UNCHANGED <<disk, tmp, lock, op, mem, result, faults, meta>>
  BY DEF AppendEvent, NextAfterEvent, Inv, TypeOK, Calling
<1>2. TypeOK'
  BY <1>1, EventsType DEF Inv, TypeOK
<1> QED
  BY <1>1, <1>2, GoOnInv DEF Holding, Calling

-----------------------------------------------------------------------------
(* The end of a call.                                                      *)

(* A process ends its call, or its wait for the other thread: it is then   *)
(* in no call, and gives back the lock if it had it.                       *)
LEMMA EndInv ==
  ASSUME Inv, TypeOK', NEW p \in Proc, pc[p] \in Calling \cup {"spawn", "serve"},
         \A q \in Proc \ {p} : /\ pc'[q] = pc[q] /\ op'[q] = op[q]
                               /\ result'[q] = result[q],
         disk' = disk,
         lock = p \/ UNCHANGED <<mem, tmp>>,
         lock' = IF lock = p THEN None ELSE lock,
         p \in Client => pc'[p] = "idle",
         \A h \in Hash : p = Main(h) => pc'[p] \in {"serve", "failing", "exit"},
         \A h \in Hash : p = Wait(h) => pc'[p] \in {"joined", "broken"}
  PROVE  Inv'
<1>1. pc'[p] \in {"idle", "serve", "failing", "exit", "joined", "broken"}
  BY ProcFacts
<1>2. ~ Holding(p)' /\ CallInv(p)' /\ MemInv(p)' /\ lock' # p
  BY <1>1, ProcFacts DEF Holding, CallInv, MemInv, Calling
<1>3. p \in Client => ClientRole(p)' /\ pc'[p] # "spawn"
  BY DEF ClientRole, Calling
<1>4. ASSUME NEW h \in Hash, p = Main(h)
      PROVE  /\ MainRole(h)' /\ pc[p] # "off" /\ pc'[p] # "off"
             /\ GoingLive(h)' => GoingLive(h)
             /\ Unborn(h)' => Unborn(h)
  BY <1>2, <1>4 DEF MainRole, GoingLive, Unborn, Calling
<1>5. ASSUME NEW h \in Hash, p = Wait(h)
      PROVE  WaitRole(h)' /\ pc[p] # "off" /\ pc'[p] # "off"
  BY <1>5 DEF WaitRole, Calling
<1>6. \A q \in Proc \ {p} : lock' = q <=> lock = q
  BY ProcFacts
<1>7. lock \in {p, None} \/ UNCHANGED <<mem, tmp>>
  OBVIOUS
<1> HIDE DEF Inv
<1> QED
  BY <1>2, <1>3, <1>4, <1>5, <1>6, <1>7, Move

(* Whose calls they are.                                                   *)
LEMMA CallRole ==
  ASSUME Inv, NEW p \in Proc, pc[p] \in Calling \cup {"spawn"}
  PROVE  /\ op[p] \in Call
         /\ p \in Client => op[p].kind \in {"create", "rename"}
         /\ \A h \in Hash : /\ p = Main(h) => op[p].kind \in {"live", "failed"}
                            /\ p = Wait(h) => op[p].kind = "exited"
         /\ \A h \in Hash : p = Main(h) \/ p = Wait(h) => op[p].hash = h
BY ProcFacts DEF Inv, CallInv, RoleInv, ClientRole, MainRole, WaitRole, Calling

LEMMA LeaveType ==
  ASSUME TypeOK, NEW ps \in SUBSET Proc, NEW next \in Resting, Leave(ps, next)
  PROVE  /\ pc' \in [Proc -> Resting \cup Calling]
         /\ op' \in [Proc -> Call \cup {NoCall}]
         /\ result' \in [Proc -> SessionRecord \cup {None}]
         /\ lock' \in Proc \cup {None}
         /\ mem' \in StateFile \cup {None}
BY DEF TypeOK, Leave

LEMMA RejectInv ==
  ASSUME Inv, NEW p \in Proc, Reject(p)
  PROVE  Inv'
<1>1. /\ pc[p] = "apply" /\ Leave({p}, Errored[op[p].kind])
      /\ UNCHANGED <<disk, tmp, faults, meta, events>>
  BY DEF Reject
<1>2. /\ op[p].kind \in Kind
      /\ p \in Client => op[p].kind \in {"create", "rename"}
      /\ \A h \in Hash : /\ p = Main(h) => op[p].kind \in {"live", "failed"}
                         /\ p = Wait(h) => op[p].kind = "exited"
  BY <1>1, CallRole DEF Calling, Call
<1>3. Errored[op[p].kind] \in Resting
  BY <1>2 DEF Errored, Resting, Kind
<1>4. TypeOK'
  BY <1>1, <1>3, LeaveType DEF Inv, TypeOK
<1>5. /\ pc'[p] = Errored[op[p].kind]
      /\ lock' = IF lock = p THEN None ELSE lock
      /\ lock = p \/ UNCHANGED <<mem, tmp>>
      /\ \A q \in Proc \ {p} : /\ pc'[q] = pc[q] /\ op'[q] = op[q]
                               /\ result'[q] = result[q]
  BY <1>1 DEF Leave
<1>6. /\ p \in Client => pc'[p] = "idle"
      /\ \A h \in Hash : p = Main(h) => pc'[p] \in {"failing", "exit"}
      /\ \A h \in Hash : p = Wait(h) => pc'[p] = "broken"
  BY <1>2, <1>5 DEF Errored
<1> QED
  BY <1>1, <1>4, <1>5, <1>6, EndInv DEF Calling

LEMMA LeavingsType ==
  ASSUME Inv, NEW ps \in SUBSET Proc, Leavings(ps)
  PROVE  /\ tmp' \in StateFile \cup {None, Torn}
         /\ DOMAIN meta' \subseteq Dirs
         /\ \A dir \in DOMAIN meta' : meta'[dir] \in SessionRecord \cup Unfinished
         /\ disk' = disk /\ events' = events
<1>1. ASSUME NEW p \in ps, pc[p] = "metafill", meta' = Put(meta, Dir(p), Torn)
      PROVE  /\ DOMAIN meta' \subseteq Dirs
             /\ \A dir \in DOMAIN meta' : meta'[dir] \in SessionRecord \cup Unfinished
  <2>1. Dir(p) \in Dirs
    BY <1>1, DirType DEF Calling
  <2>2. /\ DOMAIN meta \subseteq Dirs /\ Torn \in SessionRecord \cup Unfinished
        /\ \A dir \in DOMAIN meta : meta[dir] \in SessionRecord \cup Unfinished
    BY DEF Inv, TypeOK, Unfinished
  <2> QED
    BY <1>1, <2>1, <2>2, PutType
<1> QED
  BY <1>1 DEF Leavings, Inv, TypeOK

LEMMA AbandonInv ==
  ASSUME Inv, NEW p \in Proc, Abandon(p)
  PROVE  Inv'
<1>1. /\ pc[p] \in Calling \cup {"spawn"} /\ Leave({p}, Errored[op[p].kind])
      /\ Leavings({p}) /\ faults' = faults + 1
  BY DEF Abandon
<1>2. /\ op[p].kind \in Kind
      /\ p \in Client => op[p].kind \in {"create", "rename"}
      /\ \A h \in Hash : /\ p = Main(h) => op[p].kind \in {"live", "failed"}
                         /\ p = Wait(h) => op[p].kind = "exited"
  BY <1>1, CallRole DEF Call
<1>3. Errored[op[p].kind] \in Resting
  BY <1>2 DEF Errored, Resting, Kind
<1>4. TypeOK'
  <2>1. {p} \in SUBSET Proc /\ TypeOK /\ faults' \in Nat
    BY <1>1 DEF Inv, TypeOK
  <2> QED
    BY <1>1, <1>3, <2>1, LeaveType, LeavingsType DEF TypeOK
<1>5. /\ pc'[p] = Errored[op[p].kind]
      /\ lock' = IF lock = p THEN None ELSE lock
      /\ lock = p \/ UNCHANGED <<mem, tmp>>
      /\ \A q \in Proc \ {p} : /\ pc'[q] = pc[q] /\ op'[q] = op[q]
                               /\ result'[q] = result[q]
  BY <1>1 DEF Leave, Leavings, Inv, LockInv, Holding
<1>6. /\ p \in Client => pc'[p] = "idle"
      /\ \A h \in Hash : p = Main(h) => pc'[p] \in {"failing", "exit"}
      /\ \A h \in Hash : p = Wait(h) => pc'[p] = "broken"
  BY <1>2, <1>5 DEF Errored
<1>7. disk' = disk
  BY <1>1 DEF Leavings
<1> QED
  BY <1>1, <1>4, <1>5, <1>6, <1>7, EndInv

LEMMA ReturnOkInv ==
  ASSUME Inv, NEW h \in Hash, ReturnOk(h)
  PROVE  Inv'
<1>1. /\ pc[Main(h)] = "serve" /\ pc'[Main(h)] = "exit"
      /\ \A q \in Proc \ {Main(h)} : pc'[q] = pc[q]
      /\ UNCHANGED <<disk, tmp, lock, op, mem, result, faults, meta, events>>
      /\ pc' \in [Proc -> Resting \cup Calling]
  BY ProcFacts DEF ReturnOk, Inv, TypeOK, Resting
<1>2. TypeOK'
  BY <1>1 DEF Inv, TypeOK
<1>3. lock # Main(h)
  BY <1>1, ProcFacts DEF Inv, LockInv, Holding
<1> QED
  BY <1>1, <1>2, <1>3, ProcFacts, EndInv

(* The event of a call that has released the lock ends the call; with the  *)
(* live event the service's other thread starts.                           *)
LEMMA AppendLastInv ==
  ASSUME Inv, NEW p \in Proc, AppendEvent(p), op[p].kind # "create"
  PROVE  Inv'
<1>1. /\ pc[p] = "event" /\ op[p] \in Call /\ lock # p
      /\ pc' = [q \in Proc |->
                  IF q = p THEN Returned[op[p].kind]
                  ELSE IF op[p].kind = "live" /\ q = Wait(op[p].hash) THEN "child"
                  ELSE pc[q]]
      /\ op' = [op EXCEPT ![p] = NoCall]
      /\ result' = [result EXCEPT ![p] = None]
      /\ UNCHANGED <<disk, tmp, lock, mem, faults, meta>>
  BY DEF AppendEvent, NextAfterEvent, Inv, LockInv, Holding, CallInv, Calling
<1>2. /\ op[p].kind \in Kind \ {"create"}
      /\ p \in Client => op[p].kind = "rename"
      /\ \A h \in Hash : /\ p = Main(h) => op[p].kind \in {"live", "failed"}
                         /\ p = Wait(h) => op[p].kind = "exited"
      /\ \A h \in Hash : p = Main(h) \/ p = Wait(h) => op[p].hash = h
  BY <1>1, CallRole DEF Calling, Call
<1>3. TypeOK'
  <2>1. Returned[op[p].kind] \in Resting
    BY <1>2 DEF Returned, Resting, Kind
  <2> QED
    BY <1>1, <2>1, EventsType DEF Inv, TypeOK, Resting
<1>4. /\ pc'[p] = Returned[op[p].kind]
      /\ \A q \in Proc \ {p} : op'[q] = op[q] /\ result'[q] = result[q]
  BY <1>1 DEF Inv, TypeOK
<1>5. CASE op[p].kind # "live"
  <2>1. \A q \in Proc \ {p} : pc'[q] = pc[q]
    BY <1>1, <1>5
  <2>2. /\ p \in Client => pc'[p] = "idle"
        /\ \A h \in Hash : p = Main(h) => pc'[p] = "exit"
        /\ \A h \in Hash : p = Wait(h) => pc'[p] = "joined"
    BY <1>2, <1>4, <1>5 DEF Returned
  <2> QED
    BY <1>1, <1>3, <1>4, <2>1, <2>2, EndInv DEF Calling
<1>6. CASE op[p].kind = "live"
  <2>1. PICK h \in Hash : p = Main(h) /\ op[p].hash = h
    BY <1>2, <1>6, ProcFacts
  <2>2. /\ pc'[Main(h)] = "serve" /\ pc'[Wait(h)] = "child"
        /\ \A q \in Proc \ {Main(h), Wait(h)} : pc'[q] = pc[q]
    BY <1>1, <1>4, <1>6, <2>1, ProcFacts DEF Returned
  <2>3. pc[Wait(h)] = "off" /\ Known(disk.sessions, h)
    BY <1>1, <1>6, <2>1 DEF Inv, ServiceInv, GoingLive, Calling
  <2>4. lock # Main(h) /\ lock # Wait(h)
    BY <1>1, <2>1, <2>3, ProcFacts DEF Inv, LockInv, Holding
  <2>5. ASSUME NEW q \in {Main(h), Wait(h)}
        PROVE  ~ Holding(q)' /\ CallInv(q)' /\ MemInv(q)'
    BY <2>2 DEF Holding, CallInv, MemInv, Calling
  <2>6. MainRole(h)' /\ WaitRole(h)' /\ ServiceInv(h)'
    BY <1>1, <2>2, <2>3 DEF MainRole, WaitRole, ServiceInv, GoingLive, Unborn, Holding, Calling
  <2>7. ASSUME NEW c \in Client, pc[c] = "spawn"
        PROVE  Main(op[c].hash) \notin {Main(h), Wait(h)}
    <3>1. op[c].hash \in Hash /\ pc[Main(op[c].hash)] = "off"
      BY <2>7, ProcFacts DEF Inv, CallInv, SpawnInv
    <3> QED
      BY <1>1, <2>1, <3>1, ProcFacts
  <2>8. {Main(h), Wait(h)} \in SUBSET Proc
    BY ProcFacts
  <2>9. \A q \in Proc \ {Main(h), Wait(h)} :
           pc'[q] = pc[q] /\ op'[q] = op[q] /\ result'[q] = result[q] /\ lock' = lock
    BY <1>1, <1>4, <2>1, <2>2
  <2>10. disk' = disk /\ UNCHANGED <<mem, tmp>>
    BY <1>1
  <2>11. \A q \in {Main(h), Wait(h)} :
           /\ lock' # q /\ q \notin Client
           /\ \A g \in Hash : q = Main(g) \/ q = Wait(g) => g = h
    BY <1>1, <2>4, ProcFacts
  <2>12. \A q \in {Main(h), Wait(h)} :
           /\ Holding(q)' <=> lock' = q
           /\ CallInv(q)' /\ MemInv(q)'
           /\ q \in Client => ClientRole(q)' /\ pc'[q] # "spawn"
           /\ \A g \in Hash : /\ q = Main(g) => MainRole(g)'
                              /\ q = Wait(g) => WaitRole(g)'
    BY <2>5, <2>6, <2>11
  <2>13. \A g \in Hash : Main(g) \in {Main(h), Wait(h)} \/ Wait(g) \in {Main(h), Wait(h)}
           => ServiceInv(g)'
    BY <2>6, <2>11
  <2> HIDE DEF Inv
  <2> QED
    BY <1>3, <2>7, <2>8, <2>9, <2>10, <2>12, <2>13, Moves
<1> QED
  BY <1>5, <1>6

-----------------------------------------------------------------------------
(* Processes start and end.                                                *)

LEMMA SpawnsInv ==
  ASSUME Inv, NEW c \in Client, Spawn(c)
  PROVE  Inv'
<1>0. PICK h \in Hash : h = op[c].hash
  BY ProcFacts DEF Spawn, Inv, CallInv
<1> DEFINE ps == {c, Main(h)}
<1>1. /\ pc[c] = "spawn" /\ c \in Proc
      /\ pc[Main(h)] = "off" /\ disk.sessions[h].status = "Starting"
      /\ \A d \in Client : pc[d] = "spawn" /\ op[d].hash = h => d = c
  BY <1>0, ProcFacts DEF Spawn, Inv, SpawnInv
<1>2. /\ Main(h) \in Proc /\ Main(h) \notin Client /\ Wait(h) \notin ps
      /\ \A g \in Hash : Main(g) \in ps \/ Wait(g) \in ps => g = h
  BY <1>1, ProcFacts
<1>3. /\ pc' = [pc EXCEPT ![c] = "idle", ![Main(h)] = "boot"]
      /\ op' = [op EXCEPT ![c] = NoCall]
      /\ result' = [result EXCEPT ![c] = None]
      /\ UNCHANGED <<disk, tmp, lock, mem, faults, meta, events>>
  BY <1>0 DEF Spawn
<1>4. TypeOK'
  BY <1>1, <1>2, <1>3 DEF Inv, TypeOK, Resting
<1>5. /\ pc'[c] = "idle" /\ pc'[Main(h)] = "boot"
      /\ \A q \in Proc \ ps : pc'[q] = pc[q] /\ op'[q] = op[q] /\ result'[q] = result[q]
  BY <1>1, <1>2, <1>3 DEF Inv, TypeOK
<1>6. pc[Wait(h)] = "off" /\ Known(disk.sessions, h)
  BY <1>1, KnownRecord DEF Inv, TypeOK, ServiceInv
<1>7. lock # c /\ lock # Main(h)
  BY <1>1, <1>2 DEF Inv, LockInv, Holding
<1>8. ASSUME NEW q \in ps
      PROVE  ~ Holding(q)' /\ CallInv(q)' /\ MemInv(q)'
  BY <1>5 DEF Holding, CallInv, MemInv, Calling
<1>9. ClientRole(c)' /\ MainRole(h)' /\ ServiceInv(h)'
  <2>1. pc'[Wait(h)] = "off"
    BY <1>2, <1>5, <1>6, <1>1, ProcFacts
  <2> QED
    BY <1>1, <1>3, <1>5, <1>6, <2>1 DEF ClientRole, MainRole, ServiceInv, Calling
<1>10. \A q \in ps : /\ Holding(q)' <=> lock' = q
                     /\ CallInv(q)' /\ MemInv(q)'
                     /\ q \in Client => ClientRole(q)' /\ pc'[q] # "spawn"
                     /\ \A g \in Hash : /\ q = Main(g) => MainRole(g)'
                                        /\ q = Wait(g) => WaitRole(g)'
  BY <1>2, <1>3, <1>5, <1>7, <1>8, <1>9
<1>11. \A g \in Hash : Main(g) \in ps \/ Wait(g) \in ps => ServiceInv(g)'
  BY <1>2, <1>9
<1>12. ASSUME NEW d \in Client \ ps, pc[d] = "spawn" PROVE Main(op[d].hash) \notin ps
  <2>1. op[d].hash \in Hash
    BY <1>12, ProcFacts DEF Inv, CallInv
  <2>2. op[d].hash # h
    BY <1>1, <1>12
  <2> QED
    BY <1>2, <2>1, <2>2
<1>13. ps \in SUBSET Proc
  BY <1>1, <1>2
<1> HIDE DEF ps, Inv
<1> QED
  BY <1>3, <1>4, <1>5, <1>10, <1>11, <1>12, <1>13, Moves

LEMMA StopServiceInv ==
  ASSUME Inv, NEW h \in Hash, ExitService(h) \/ CrashService(h)
  PROVE  Inv'
<1> DEFINE ps == {Main(h), Wait(h)}
<1>1. /\ Leave(ps, "gone") /\ Leavings(ps) /\ ps \in SUBSET Proc
      /\ pc[Main(h)] # "off" /\ faults' \in Nat
  BY ProcFacts DEF ExitService, CrashService, StopService, Inv, TypeOK
<1>2. TypeOK'
  <2>1. TypeOK /\ "gone" \in Resting
    BY DEF Inv, Resting
  <2> HIDE DEF ps
  <2> QED
    BY <1>1, <2>1, LeaveType, LeavingsType DEF TypeOK
<1>3. /\ \A q \in ps : pc'[q] = "gone"
      /\ \A q \in Proc \ ps : pc'[q] = pc[q] /\ op'[q] = op[q] /\ result'[q] = result[q]
      /\ lock' = IF lock \in ps THEN None ELSE lock
      /\ lock \in ps \/ UNCHANGED mem
      /\ disk' = disk
  BY <1>1 DEF Leave, Leavings
<1>4. lock \in ps \/ UNCHANGED tmp
  BY <1>1 DEF Leavings, Inv, LockInv, Holding
<1>5. Known(disk.sessions, h)
  BY <1>1 DEF Inv, ServiceInv
<1>6. /\ \A q \in ps : q \notin Client
      /\ \A g \in Hash : Main(g) \in ps \/ Wait(g) \in ps => g = h
  BY ProcFacts
<1>7. MainRole(h)' /\ WaitRole(h)' /\ ServiceInv(h)'
  BY <1>3, <1>5 DEF MainRole, WaitRole, ServiceInv, GoingLive, Unborn, Holding, Calling
<1>8. \A q \in ps : ~ Holding(q)' /\ CallInv(q)' /\ MemInv(q)'
  BY <1>3 DEF Holding, CallInv, MemInv, Calling
<1>9. \A q \in ps : /\ Holding(q)' <=> lock' = q
                    /\ CallInv(q)' /\ MemInv(q)'
                    /\ q \in Client => ClientRole(q)' /\ pc'[q] # "spawn"
                    /\ \A g \in Hash : /\ q = Main(g) => MainRole(g)'
                                       /\ q = Wait(g) => WaitRole(g)'
  BY <1>1, <1>3, <1>6, <1>7, <1>8, ProcFacts
<1>10. \A g \in Hash : Main(g) \in ps \/ Wait(g) \in ps => ServiceInv(g)'
  BY <1>6, <1>7
<1>11. ASSUME NEW c \in Client, pc[c] = "spawn" PROVE Main(op[c].hash) \notin ps
  <2>1. op[c].hash \in Hash /\ pc[Main(op[c].hash)] = "off"
    BY <1>11, ProcFacts DEF Inv, CallInv, SpawnInv
  <2> QED
    BY <1>1, <1>6, <2>1
<1>12. /\ lock \in ps \cup {None} \/ UNCHANGED <<mem, tmp>>
       /\ \A q \in Proc \ ps : lock' = q <=> lock = q
  BY <1>3, <1>4, ProcFacts
<1> HIDE DEF ps, Inv
<1> QED
  BY <1>1, <1>2, <1>3, <1>9, <1>10, <1>11, <1>12, Moves

-----------------------------------------------------------------------------
(* The rename of the temporary file, the one step that changes state.json. *)

LEMMA Committed ==
  ASSUME Inv, NEW p \in Proc, Commit(p)
  PROVE  /\ lock = p /\ Changed(p) /\ op[p] \in Call /\ op[p].hash \in Hash
         /\ disk' = mem /\ disk \in StateFile /\ disk' \in StateFile
         /\ op[p].kind = "rename" => op[p].name \in ExplicitName
<1>1. pc[p] = "commit" /\ Holding(p)
  BY DEF Commit, Holding
<1> QED
  BY <1>1 DEF Commit, Inv, TypeOK, CallInv, MemInv, LockInv, Calling

(* No session is forgotten or started as another, and only a status update *)
(* takes one out of Starting.                                              *)
LEMMA CommitEffect ==
  ASSUME Inv, NEW p \in Proc, Commit(p), NEW g \in Hash, Known(disk.sessions, g)
  PROVE  /\ Known(disk'.sessions, g)
         /\ disk'.sessions[g].started = disk.sessions[g].started
         /\ op[p].hash # g \/ op[p].kind \notin DOMAIN StatusAfter
              => disk'.sessions[g].status = disk.sessions[g].status
<1>1. /\ Changed(p) /\ op[p] \in Call /\ op[p].hash \in Hash
      /\ disk' = mem /\ disk \in StateFile /\ disk' \in StateFile
      /\ op[p].kind = "rename" => op[p].name \in Name
      /\ disk.sessions[g] \in SessionRecord
  BY Committed, KnownRecord, ExplicitNameAssumption
<1> DEFINE h == op[p].hash
<1>2. CASE op[p].kind = "create"
  <2>1. h # g /\ mem = Created(disk, h, op[p].name)
    BY <1>1, <1>2 DEF Changed
  <2>2. disk'.sessions[g] = disk.sessions[g]
    BY <1>1, <2>1, CreatedRecord DEF Call
  <2> QED
    BY <2>2 DEF Known
<1>3. CASE op[p].kind = "rename"
  <2>1. disk' = [disk EXCEPT !.sessions[h].current = op[p].name]
    BY <1>1, <1>3 DEF Changed
  <2>2. /\ disk'.sessions[g] \in SessionRecord
        /\ disk'.sessions[g].status = disk.sessions[g].status
        /\ disk'.sessions[g].started = disk.sessions[g].started
    BY <1>1, <1>3, <2>1 DEF StateFile, SessionRecord
  <2> QED
    BY <1>1, <2>2, KnownRecord
<1>4. CASE op[p].kind \in DOMAIN StatusAfter
  <2>1. disk' = [disk EXCEPT !.sessions[h].status = StatusAfter[op[p].kind]]
    BY <1>1, <1>4 DEF Changed
  <2>2. StatusAfter[op[p].kind] \in Status
    BY <1>4 DEF StatusAfter, Status
  <2>3. /\ disk'.sessions[g] \in SessionRecord
        /\ disk'.sessions[g].started = disk.sessions[g].started
        /\ h # g => disk'.sessions[g] = disk.sessions[g]
    BY <1>1, <2>1, <2>2 DEF StateFile, SessionRecord
  <2> QED
    BY <1>1, <1>4, <2>3, KnownRecord
<1> QED
  BY <1>1, <1>2, <1>3, <1>4 DEF Call, Kind, StatusAfter

(* A status only moves forward: mark_live, which overwrites any status,     *)
(* comes before anything else that is said of its session.                 *)
LEMMA CommitForward ==
  ASSUME Inv, NEW p \in Proc, Commit(p), NEW g \in Hash, Known(disk.sessions, g)
  PROVE  /\ disk.sessions[g].status # "Starting" => disk'.sessions[g].status # "Starting"
         /\ Dead(disk.sessions, g) => Dead(disk'.sessions, g)
<1> DEFINE h == op[p].hash
           kind == op[p].kind
<1>1. /\ lock = p /\ Changed(p) /\ h \in Hash /\ op[p] \in Call
      /\ disk' = mem /\ disk \in StateFile
  BY Committed
<1>2. pc[p] = "commit"
  BY DEF Commit
<1>3. CASE h # g \/ kind \notin DOMAIN StatusAfter
  BY <1>3, CommitEffect DEF Dead
<1>4. CASE h = g /\ kind \in DOMAIN StatusAfter
  <2>1. disk' = [disk EXCEPT !.sessions[h].status = StatusAfter[kind]]
    BY <1>1, <1>4 DEF Changed
  <2>2. disk'.sessions[g].status = StatusAfter[kind]
    BY <1>1, <1>4, <2>1, KnownRecord DEF StateFile, SessionRecord
  <2>3. kind = "live" => disk.sessions[g].status = "Starting"
    <3>1. kind = "live" => p = Main(g)
      BY <1>1, <1>2, <1>4, CallRole, ProcFacts DEF Calling, Call
    <3> QED
      BY <1>2, <3>1 DEF Inv, ServiceInv, Unborn, Holding
  <2> QED
    BY <1>4, <2>2, <2>3 DEF Dead, DeadStatus, LiveStatus, Status, StatusAfter
<1> QED
  BY <1>3, <1>4

LEMMA CommitInv ==
  ASSUME Inv, NEW p \in Proc, Commit(p)
  PROVE  Inv'
<1>1. /\ lock = p /\ Changed(p) /\ op[p] \in Call /\ op[p].hash \in Hash
      /\ disk \in StateFile /\ disk' \in StateFile
  BY Committed
<1>2. /\ pc[p] = "commit" /\ pc'[p] = NextAfterCommit(op[p].kind)
      /\ \A q \in Proc \ {p} : pc'[q] = pc[q]
      /\ pc' \in [Proc -> Resting \cup Calling]
      /\ tmp' = None /\ lock' = None /\ mem' = None
      /\ UNCHANGED <<op, result, faults, meta, events>>
  <2>1. NextAfterCommit(op[p].kind) \in Resting \cup Calling
    BY DEF NextAfterCommit, Returned, Resting, Calling
  <2> QED
    BY <2>1 DEF Commit, Inv, TypeOK
<1>3. /\ op[p].kind = "create" => pc'[p] = "spawn"
      /\ op[p].kind # "create" => pc'[p] = "meta"
  BY <1>2 DEF NextAfterCommit, Returned
<1>4. TypeOK'
  BY <1>1, <1>2 DEF Inv, TypeOK
<1>5. \A q \in Proc : ~ Holding(q)' /\ lock' # q
  BY <1>1, <1>2, <1>3, ProcFacts DEF Inv, LockInv, Holding
<1>6. LockInv' /\ \A q \in Proc : MemInv(q)'
  BY <1>5 DEF LockInv, MemInv
<1>7. \A q \in Proc : CallInv(q)'
  BY <1>2, <1>3 DEF Inv, CallInv, Calling
<1>8. op[p].kind \in Kind
  BY <1>1 DEF Call
<1>9. /\ p \in Client => op[p].kind \in {"create", "rename"}
      /\ \A h \in Hash : /\ p = Main(h) => op[p].kind \in {"live", "failed"} /\ op[p].hash = h
                         /\ p = Wait(h) => op[p].kind = "exited" /\ op[p].hash = h
  BY <1>2, CallRole DEF Calling
<1>10. RoleInv'
  <2>1. ASSUME NEW c \in Client PROVE ClientRole(c)'
    BY <1>2, <1>3, <1>9, ProcFacts DEF Inv, RoleInv, ClientRole, Calling
  <2>2. ASSUME NEW h \in Hash PROVE MainRole(h)'
    BY <1>2, <1>3, <1>9, ProcFacts DEF Inv, RoleInv, MainRole, Calling
  <2>3. ASSUME NEW h \in Hash PROVE WaitRole(h)'
    BY <1>2, <1>3, <1>9, ProcFacts DEF Inv, RoleInv, WaitRole, Calling
  <2> QED
    BY <2>1, <2>2, <2>3 DEF RoleInv
(* A session whose service is not running, or is about to mark it live,    *)
(* keeps its status.                                                       *)
<1>11. ASSUME NEW h \in Hash, pc[Main(h)] \in {"off", "boot"}, Known(disk.sessions, h)
       PROVE  disk'.sessions[h].status = disk.sessions[h].status
  <2>1. pc[Wait(h)] = "off"
    BY <1>11 DEF Inv, ServiceInv, GoingLive
  <2>2. p # Main(h) /\ p # Wait(h)
    BY <1>2, <1>11, <2>1
  <2>3. op[p].hash # h \/ op[p].kind \notin DOMAIN StatusAfter
    BY <1>9, <2>2, ProcFacts DEF StatusAfter
  <2> QED
    BY <1>11, <2>3, CommitEffect
<1>12. ASSUME NEW h \in Hash PROVE ServiceInv(h)'
  <2>1. /\ pc'[Main(h)] = "off" => pc[Main(h)] = "off"
        /\ GoingLive(h)' => GoingLive(h)
        /\ pc[Wait(h)] = "off" => pc'[Wait(h)] = "off"
        /\ pc'[Main(h)] # "off" => pc[Main(h)] # "off"
    BY <1>2, <1>3, <1>9, ProcFacts DEF GoingLive, Calling
  <2>2. Known(disk.sessions, h) => Known(disk'.sessions, h)
    BY CommitEffect
  <2>3. ASSUME Unborn(h)' PROVE disk'.sessions[h].status = "Starting"
    <3>1. pc[Main(h)] = "boot" /\ Unborn(h)
      BY <1>2, <1>3, <1>5, <2>3, ProcFacts DEF Unborn
    <3>2. Known(disk.sessions, h) /\ disk.sessions[h].status = "Starting"
      BY <3>1 DEF Inv, ServiceInv
    <3> QED
      BY <1>11, <3>1, <3>2
  <2> QED
    BY <2>1, <2>2, <2>3 DEF Inv, ServiceInv
<1>13. ASSUME NEW c \in Client, pc'[c] = "spawn" PROVE SpawnInv(c)'
  <2>1. CASE c = p
    <3> DEFINE h == op[p].hash
    <3>1. op[p].kind = "create"
      BY <1>3, <1>13, <2>1
    <3>2. ~ Known(disk.sessions, h) /\ disk' = Created(disk, h, op[p].name)
      BY <1>1, <3>1, Committed DEF Changed
    <3>3. pc[Main(h)] = "off"
      BY <1>1, <3>2 DEF Inv, ServiceInv
    <3>4. pc'[Main(h)] = "off"
      BY <1>1, <1>2, <2>1, <3>3, ProcFacts
    <3>5. disk'.sessions[h].status = "Starting"
      BY <1>1, <3>2, CreatedRecord DEF Call
    <3>6. ASSUME NEW d \in Client, pc'[d] = "spawn", op[d].hash = h PROVE d = c
      <4> SUFFICES ASSUME d # c PROVE FALSE
        OBVIOUS
      <4>1. pc[d] = "spawn"
        BY <1>2, <2>1, <3>6, ProcFacts
      <4>2. disk.sessions[h].status = "Starting"
        BY <3>6, <4>1 DEF Inv, SpawnInv
      <4> QED
        BY <1>1, <3>2, <4>2, KnownRecord
    <3> QED
      BY <1>2, <2>1, <3>4, <3>5, <3>6 DEF SpawnInv
  <2>2. CASE c # p
    <3> DEFINE h == op[c].hash
    <3>1. pc[c] = "spawn" /\ h \in Hash
      BY <1>2, <1>13, <2>2, ProcFacts DEF Inv, CallInv
    <3>2. pc[Main(h)] = "off" /\ disk.sessions[h].status = "Starting"
      BY <3>1 DEF Inv, SpawnInv
    <3>3. Known(disk.sessions, h)
      BY <1>1, <3>1, <3>2, KnownRecord
    <3>4. pc'[Main(h)] = "off" /\ disk'.sessions[h].status = "Starting"
      BY <1>2, <1>11, <3>1, <3>2, <3>3, ProcFacts
    <3>5. ASSUME NEW d \in Client, pc'[d] = "spawn", op[d].hash = h PROVE d = c
      <4>1. CASE d # p
        BY <1>2, <3>1, <3>5, <4>1, ProcFacts DEF Inv, SpawnInv
      <4>2. CASE d = p
        <5>1. op[p].kind = "create"
          BY <1>3, <3>5, <4>2
        <5> QED
          BY <1>1, <3>3, <3>5, <4>2, <5>1 DEF Changed
      <4> QED
        BY <4>1, <4>2
    <3> QED
      BY <1>2, <3>4, <3>5 DEF SpawnInv
  <2> QED
    BY <2>1, <2>2
<1>14. \A c \in Client : SpawnInv(c)'
  BY <1>13 DEF SpawnInv
<1> QED
  BY <1>4, <1>6, <1>7, <1>10, <1>12, <1>14 DEF Inv

-----------------------------------------------------------------------------
(* The theorems.                                                           *)

LEMMA InitInv == Init => Inv
<1> SUFFICES ASSUME Init PROVE Inv
  OBVIOUS
<1>1. EmptyState \in StateFile
  BY DEF EmptyState, StateFile
<1>2. \A p \in Proc : pc[p] = IF p \in Client THEN "idle" ELSE "off"
  BY DEF Init
<1>3. TypeOK
  BY <1>1 DEF Init, TypeOK, Resting
<1>4. /\ LockInv
      /\ \A p \in Proc : CallInv(p) /\ MemInv(p)
  BY <1>2, ProcFacts DEF Init, LockInv, CallInv, MemInv, Holding, Calling
<1>5. /\ RoleInv
      /\ \A h \in Hash : ServiceInv(h)
      /\ \A c \in Client : SpawnInv(c)
  <2>1. /\ \A c \in Client : pc[c] = "idle"
        /\ \A h \in Hash : pc[Main(h)] = "off" /\ pc[Wait(h)] = "off"
    BY <1>2, ProcFacts
  <2> QED
    BY <2>1 DEF RoleInv, ClientRole, MainRole, WaitRole, ServiceInv, Unborn,
                GoingLive, Holding, SpawnInv, Calling
<1> QED
  BY <1>3, <1>4, <1>5 DEF Inv

LEMMA StutterInv ==
  ASSUME Inv, UNCHANGED vars
  PROVE  Inv'
<1>1. \A p \in Proc : /\ Holding(p)' <=> Holding(p)
                      /\ CallInv(p)' <=> CallInv(p)
                      /\ Changed(p)' <=> Changed(p)
  BY DEF vars, Holding, CallInv, Changed
<1>2. \A p \in Proc : MemInv(p)' <=> MemInv(p)
  BY <1>1 DEF vars, MemInv
<1>3. TypeOK' <=> TypeOK
  BY DEF vars, TypeOK
<1>4. \A h \in Hash : /\ MainRole(h)' <=> MainRole(h)
                      /\ WaitRole(h)' <=> WaitRole(h)
                      /\ ServiceInv(h)' <=> ServiceInv(h)
  BY <1>1, ProcFacts DEF vars, MainRole, WaitRole, ServiceInv, Unborn, GoingLive
<1>5. \A c \in Client : /\ ClientRole(c)' <=> ClientRole(c)
                        /\ SpawnInv(c)' <=> SpawnInv(c)
  BY DEF vars, ClientRole, SpawnInv
<1>6. LockInv'
  BY <1>1 DEF Inv, LockInv, vars
<1> QED
  BY <1>1, <1>2, <1>3, <1>4, <1>5, <1>6 DEF Inv, RoleInv

(* Every step preserves the invariant, and only the rename of the          *)
(* temporary file changes state.json.                                      *)
LEMMA NextInv ==
  ASSUME Inv, Next
  PROVE  Inv' /\ (disk' = disk \/ \E p \in Proc : Commit(p))
<1>1. ASSUME NEW p \in Proc, Step(p)
      PROVE  Inv' /\ (disk' = disk \/ Commit(p))
  <2>1. CASE ApplyCreate(p) \/ ApplyRename(p) \/ ApplyStatus(p)
    <3>1. disk' = disk
      BY <2>1 DEF ApplyCreate, ApplyRename, ApplyStatus, Apply
    <3> QED
      BY <2>1, <3>1, ApplyCreateInv, ApplyRenameInv, ApplyStatusInv
  <2>2. CASE Reject(p)
    BY <2>2, RejectInv DEF Reject
  <2>3. CASE TruncateMeta(p) \/ FillMeta(p)
    BY <2>3, WriteMetaInv DEF TruncateMeta, FillMeta
  <2>4. CASE AppendEvent(p)
    <3>1. disk' = disk
      BY <2>4 DEF AppendEvent
    <3> QED
      BY <2>4, <3>1, AppendCreatedInv, AppendLastInv
  <2>5. CASE TruncateTmp(p) \/ FillTmp(p)
    BY <2>5, FileInv DEF TruncateTmp, FillTmp
  <2>6. CASE Commit(p)
    BY <2>6, CommitInv
  <2> QED
    BY <1>1, <2>1, <2>2, <2>3, <2>4, <2>5, <2>6 DEF Step
<1>2. ASSUME NEW p \in Proc, Abandon(p)
      PROVE  Inv' /\ disk' = disk
  BY <1>2, AbandonInv DEF Abandon, Leavings
<1>3. ASSUME \/ \E c \in Client : BeginCreate(c) \/ BeginRename(c)
             \/ \E h \in Hash : MarkLive(h) \/ MarkFailed(h) \/ MarkExited(h)
      PROVE  Inv' /\ disk' = disk
  <2>1. disk' = disk
    BY <1>3 DEF BeginCreate, BeginRename, MarkLive, MarkFailed, MarkExited, Begin
  <2> QED
    BY <1>3, <2>1, BeginCallsInv
<1>4. ASSUME NEW c \in Client, Spawn(c)
      PROVE  Inv' /\ disk' = disk
  BY <1>4, SpawnsInv DEF Spawn
<1>5. ASSUME NEW h \in Hash, ReturnOk(h)
      PROVE  Inv' /\ disk' = disk
  BY <1>5, ReturnOkInv DEF ReturnOk
<1>6. ASSUME NEW h \in Hash, ExitService(h) \/ CrashService(h)
      PROVE  Inv' /\ disk' = disk
  BY <1>6, StopServiceInv DEF ExitService, CrashService, StopService, Leavings
<1> HIDE DEF Inv
<1> QED
  BY <1>1, <1>2, <1>3, <1>4, <1>5, <1>6 DEF Next

LEMMA Invariance == Spec => []Inv
<1>1. Inv /\ [Next]_vars => Inv'
  BY NextInv, StutterInv
<1> QED
  BY <1>1, InitInv, PTL DEF Spec

(* Every file of the store, wherever its writers stop, holds what its      *)
(* readers can read, an unfinished meta.json apart.                        *)
THEOREM TypeCorrect == Spec => []TypeOK
<1>1. Inv => TypeOK
  BY DEF Inv
<1> QED
  BY <1>1, Invariance, PTL

(* The rename of the temporary file is one step of the registry.           *)
LEMMA CommitIsRegistryStep ==
  ASSUME Inv, NEW p \in Proc, Commit(p)
  PROVE  Registry!Next
<1> DEFINE h == op[p].hash
<1>1. /\ Changed(p) /\ op[p] \in Call /\ h \in Hash
      /\ disk' = mem /\ disk \in StateFile
      /\ op[p].kind = "rename" => op[p].name \in ExplicitName
  BY Committed
<1>2. pc[p] = "commit" /\ Holding(p)
  BY DEF Commit, Holding
(* Both modules take their vocabulary from module Sessions.                *)
<1>v. /\ Registry!Known(disk.sessions, h) <=> Known(disk.sessions, h)
      /\ Registry!Live(disk.sessions, h) <=> Live(disk.sessions, h)
      /\ Registry!NameTaken(disk.sessions, op[p].name)
           <=> NameTaken(disk.sessions, op[p].name)
  BY DEF Registry!Known, Registry!NoSession, Registry!Live, Registry!LiveStatus,
         Registry!NameTaken, Known, NoSession, Live, LiveStatus, NameTaken
<1>w. /\ Registry!NextNumber(disk.next) = NextNumber(disk.next)
      /\ Registry!NewSession(op[p].name, "explicit") = NewSession(op[p].name, "explicit")
      /\ Registry!NewSession(NextNumber(disk.next), "numbered")
           = NewSession(NextNumber(disk.next), "numbered")
      /\ Registry!DeadStatus = DeadStatus
  BY DEF Registry!NextNumber, NextNumber, Registry!NewSession, NewSession,
         Registry!DeadStatus, Registry!Status, Registry!LiveStatus,
         DeadStatus, Status, LiveStatus
<1>3. CASE op[p].kind = "create"
  <2>1. /\ ~ Known(disk.sessions, h)
        /\ disk' = Created(disk, h, op[p].name)
        /\ op[p].name # None => ~ NameTaken(disk.sessions, op[p].name)
    BY <1>1, <1>3 DEF Changed
  <2>2. CASE op[p].name = None
    <3>1. /\ disk'.sessions = [disk.sessions EXCEPT
                                ![h] = NewSession(NextNumber(disk.next), "numbered")]
          /\ disk'.next = NextNumber(disk.next) + 1
      BY <1>1, <2>1, <2>2 DEF Created, StateFile
    <3>2. Registry!CreateNumbered(h)
      BY <1>v, <1>w, <2>1, <3>1 DEF Registry!CreateNumbered
    <3> QED
      BY <1>1, <3>2 DEF Registry!Next
  <2>3. CASE op[p].name # None
    <3>1. op[p].name \in ExplicitName
      BY <1>1, <2>3 DEF Call
    <3>2. /\ disk'.sessions = [disk.sessions EXCEPT ![h] = NewSession(op[p].name, "explicit")]
          /\ disk'.next = disk.next
      BY <1>1, <2>1, <2>3 DEF Created, StateFile
    <3>3. Registry!CreateNamed(h, op[p].name)
      BY <1>v, <1>w, <2>1, <2>3, <3>2 DEF Registry!CreateNamed
    <3> QED
      BY <1>1, <3>1, <3>3 DEF Registry!Next
  <2> QED
    BY <2>2, <2>3
<1>4. CASE op[p].kind = "rename"
  <2>1. Registry!Rename(h, op[p].name)
    BY <1>1, <1>4, <1>v DEF Registry!Rename, Changed, StateFile
  <2> QED
    BY <1>1, <1>4, <2>1 DEF Registry!Next
<1>5. CASE op[p].kind = "live"
  <2>1. p = Main(h)
    BY <1>2, <1>5, CallRole, ProcFacts DEF Calling
  <2>2. disk.sessions[h].status = "Starting"
    BY <1>1, <1>2, <1>5, <2>1 DEF Inv, ServiceInv, Unborn
  <2>3. Registry!GoLive(h)
    BY <1>1, <1>5, <2>2 DEF Registry!GoLive, Changed, StatusAfter, StateFile
  <2> QED
    BY <1>1, <2>3 DEF Registry!Next
<1>6. CASE op[p].kind \in {"exited", "failed"}
  <2>1. StatusAfter[op[p].kind] \in DeadStatus
    BY <1>6 DEF StatusAfter, DeadStatus, LiveStatus, Status
  <2>2. op[p].kind \in DOMAIN StatusAfter
    BY <1>6 DEF StatusAfter
  <2>3. /\ Known(disk.sessions, h)
        /\ disk'.sessions = [disk.sessions EXCEPT ![h].status = StatusAfter[op[p].kind]]
        /\ disk'.next = disk.next
    BY <1>1, <2>2 DEF Changed, StateFile
  <2>4. Registry!Die(h, StatusAfter[op[p].kind])
    BY <1>v, <2>3 DEF Registry!Die
  <2> QED
    BY <1>1, <1>w, <2>1, <2>4 DEF Registry!Next
<1> QED
  BY <1>1, <1>3, <1>4, <1>5, <1>6 DEF Call, Kind

(* Seen through state.json every call is atomic: for any number of         *)
(* clients, sessions and faults, the store implements the registry, and    *)
(* with it all that is proved of the registry.                             *)
THEOREM Implements == Spec => ImplementsRegistry
<1>1. Init => Registry!Init
  BY DEF Init, Registry!Init, EmptyState, NoSession,
         Registry!EmptyState, Registry!NoSession
<1>2. Inv /\ [Next]_vars => [Registry!Next]_(Registry!vars)
  BY NextInv, CommitIsRegistryStep DEF vars, Registry!vars
<1> QED
  BY <1>1, <1>2, Invariance, PTL DEF Spec, ImplementsRegistry, Registry!Spec

Proved == INSTANCE SessionRegistryProofs
            WITH sessions <- disk.sessions, next <- disk.next

LEMMA SameRegistry == Registry!Spec => Proved!Spec
<1>1. Registry!Init => Proved!Init
  BY DEF Registry!Init, Registry!EmptyState, Registry!NoSession,
         Proved!Init, Proved!EmptyState, Proved!NoSession
<1>2. [Registry!Next]_(Registry!vars) => [Proved!Next]_(Proved!vars)
  BY DEF Registry!Next, Registry!vars, Registry!CreateNamed, Registry!CreateNumbered,
         Registry!Rename, Registry!GoLive, Registry!Die, Registry!Known,
         Registry!NoSession, Registry!NameTaken, Registry!Live, Registry!LiveStatus,
         Registry!DeadStatus, Registry!Status, Registry!NewSession, Registry!NextNumber,
         Proved!Next, Proved!vars, Proved!CreateNamed, Proved!CreateNumbered,
         Proved!Rename, Proved!GoLive, Proved!Die, Proved!Known,
         Proved!NoSession, Proved!NameTaken, Proved!Live, Proved!LiveStatus,
         Proved!DeadStatus, Proved!Status, Proved!NewSession, Proved!NextNumber
<1> QED
  BY <1>1, <1>2, PTL DEF Registry!Spec, Proved!Spec

(* What the registry promises is true of state.json: whatever calls are    *)
(* interleaved and whoever stops where, a session in it is never forgotten *)
(* and never comes back to life, no number is given twice, and two live    *)
(* sessions share a name only when one has it by numbering.                *)
THEOREM StateKeepsPromises ==
  Spec => /\ Proved!RecordsMoveForward
          /\ Proved!NumbersIncrease
          /\ []Proved!ClashOnlyByNumbering
<1>1. Spec => Registry!Spec
  BY Implements DEF ImplementsRegistry
<1>2. ExplicitName \subseteq Proved!Name
  BY ExplicitNameAssumption DEF Name, Proved!Name
<1>3. Proved!Spec => Proved!RecordsMoveForward
  BY <1>2, Proved!MovesForward
<1>4. Proved!Spec => Proved!NumbersIncrease
  BY <1>2, Proved!NumbersGrow
<1>5. Proved!Spec => []Proved!ClashOnlyByNumbering
  BY <1>2, Proved!ClashesAreNumbered
<1> QED
  BY <1>1, SameRegistry, <1>3, <1>4, <1>5

-----------------------------------------------------------------------------
(* The directories: what has been written there, and by whom it will be.   *)

KindsIn(s) == {s[i].kind : i \in DOMAIN s}

Ordered(s) ==
  /\ 1 \in DOMAIN s /\ s[1].kind = "created"
  /\ \A i, j \in DOMAIN s :
       /\ s[i].kind = s[j].kind /\ s[i].kind \in {"live", "exited", "failed"} => i = j
       /\ s[i].kind = "exited" => \E n \in 1 .. i : s[n].kind = "live"

(* Only a session in state.json has more than the created events of calls  *)
(* that were stopped.                                                      *)
DirsInv ==
  \A dir \in DOMAIN events :
     /\ Ordered(events[dir])
     /\ KindsIn(events[dir]) \subseteq {"created"}
          \/ (Known(disk.sessions, dir[2]) /\ dir = DirOf(dir[2]))

(* What the places of its service's threads say of the history of a        *)
(* session: live is written by mark_live alone, before the wait thread     *)
(* starts, and the other two end the threads that write them.              *)
StoryInv(h) ==
  Known(disk.sessions, h) =>
    /\ DirOf(h) \in DOMAIN meta /\ DirOf(h) \in DOMAIN events
    /\ "live" \in Happened(h) => disk.sessions[h].status # "Starting"
    /\ Happened(h) \cap {"exited", "failed"} # {} => Dead(disk.sessions, h)
    /\ pc[Main(h)] \in {"off", "boot", "failing"} \/ GoingLive(h) => "live" \notin Happened(h)
    /\ pc[Main(h)] \notin {"exit", "gone"} => "failed" \notin Happened(h)
    /\ pc[Wait(h)] \notin {"joined", "gone"} => "exited" \notin Happened(h)
    /\ pc[Wait(h)] \in Calling \cup {"child"} => "live" \in Happened(h)

(* A call past its closure writes to the directory of its session: of the  *)
(* record in memory while it holds the lock, of that in state.json after.  *)
WriterInv(p) ==
  pc[p] \in Calling \ {"apply"} =>
    LET h == op[p].hash IN
    /\ Holding(p) => Dir(p) = <<mem.sessions[h].started, h>>
    /\ op[p].kind = "create" =>
         /\ pc[p] # "meta" => Dir(p) \in DOMAIN meta
         /\ pc[p] \notin {"meta", "metafill", "event"} => Dir(p) \in DOMAIN events
    /\ ~ Holding(p) =>
         /\ Known(disk.sessions, h) /\ Dir(p) = DirOf(h)
         /\ op[p].kind = "live" => disk.sessions[h].status # "Starting"
         /\ op[p].kind \in {"exited", "failed"} => Dead(disk.sessions, h)

HistoryInv ==
  /\ DirsInv
  /\ \A h \in Hash : StoryInv(h)
  /\ \A p \in Proc : WriterInv(p)

LEMMA HistoryInit == Init => HistoryInv
<1> SUFFICES ASSUME Init PROVE HistoryInv
  OBVIOUS
<1>1. \A h \in Hash : ~ Known(disk.sessions, h)
  BY DEF Init, EmptyState, Known
<1>2. \A p \in Proc : pc[p] \notin Calling
  BY DEF Init, Calling
<1>3. DOMAIN events = {}
  BY DEF Init
<1> QED BY <1>1, <1>2, <1>3 DEF HistoryInv, DirsInv, StoryInv, WriterInv

(* A process that does not move.                                           *)
LEMMA OthersWrite ==
  ASSUME HistoryInv, NEW q \in Proc, pc'[q] = pc[q], op'[q] = op[q], result'[q] = result[q],
         disk' = disk, DOMAIN meta \subseteq DOMAIN meta', DOMAIN events \subseteq DOMAIN events',
         Holding(q) => mem' = mem
  PROVE  WriterInv(q)'
<1>1. (Holding(q)' <=> Holding(q)) /\ Dir(q)' = Dir(q)
  BY DEF Holding, Dir
<1>2. \A h : DirOf(h)' = DirOf(h)
  BY DEF DirOf
<1> QED BY <1>1, <1>2 DEF HistoryInv, WriterInv

(* Processes move and write neither state.json nor a history.              *)
LEMMA QuietMoves ==
  ASSUME HistoryInv, UNCHANGED <<disk, events>>, DOMAIN meta \subseteq DOMAIN meta',
         NEW ps \in SUBSET Proc,
         \A q \in Proc \ ps : /\ pc'[q] = pc[q] /\ op'[q] = op[q] /\ result'[q] = result[q]
                              /\ Holding(q) => mem' = mem,
         \A q \in ps : WriterInv(q)',
         \A h \in Hash : Main(h) \in ps =>
            /\ pc'[Main(h)] \in {"off", "boot", "failing"} \/ GoingLive(h)'
                 => pc[Main(h)] \in {"off", "boot", "failing"} \/ GoingLive(h)
            /\ pc[Main(h)] \in {"exit", "gone"} => pc'[Main(h)] \in {"exit", "gone"},
         \A h \in Hash : Wait(h) \in ps =>
            /\ pc[Wait(h)] \in {"joined", "gone"} => pc'[Wait(h)] \in {"joined", "gone"}
            /\ pc'[Wait(h)] \in Calling \cup {"child"} => pc[Wait(h)] \in Calling \cup {"child"}
  PROVE  HistoryInv'
<1>1. DirsInv'
  BY DEF HistoryInv, DirsInv, DirOf
<1>2. \A q \in Proc : WriterInv(q)'
  BY OthersWrite
<1>3. ASSUME NEW h \in Hash PROVE StoryInv(h)'
  <2>1. Happened(h)' = Happened(h) /\ DirOf(h)' = DirOf(h)
    BY DEF Happened, EventsOf, DirOf
  <2>2. StoryInv(h)
    BY DEF HistoryInv
  <2>3. Main(h) \notin ps => /\ pc'[Main(h)] = pc[Main(h)] /\ (GoingLive(h)' <=> GoingLive(h))
    BY ProcFacts DEF GoingLive
  <2>4. Wait(h) \notin ps => pc'[Wait(h)] = pc[Wait(h)]
    BY ProcFacts
  <2>5. /\ pc'[Main(h)] \in {"off", "boot", "failing"} \/ GoingLive(h)'
             => pc[Main(h)] \in {"off", "boot", "failing"} \/ GoingLive(h)
        /\ pc'[Main(h)] \notin {"exit", "gone"} => pc[Main(h)] \notin {"exit", "gone"}
        /\ pc'[Wait(h)] \notin {"joined", "gone"} => pc[Wait(h)] \notin {"joined", "gone"}
        /\ pc'[Wait(h)] \in Calling \cup {"child"} => pc[Wait(h)] \in Calling \cup {"child"}
    BY <2>3, <2>4
  <2> QED BY <2>1, <2>2, <2>5 DEF StoryInv
<1> QED BY <1>1, <1>2, <1>3 DEF HistoryInv

(* One process moves.                                                      *)
LEMMA QuietMove ==
  ASSUME Inv, HistoryInv, UNCHANGED <<disk, events>>, DOMAIN meta \subseteq DOMAIN meta',
         NEW p \in Proc,
         \A q \in Proc \ {p} : pc'[q] = pc[q] /\ op'[q] = op[q] /\ result'[q] = result[q],
         lock \in {p, None} \/ mem' = mem,
         WriterInv(p)',
         \A h \in Hash : p = Main(h) =>
            /\ pc'[p] \in {"off", "boot", "failing"} \/ GoingLive(h)'
                 => pc[p] \in {"off", "boot", "failing"} \/ GoingLive(h)
            /\ pc[p] \notin {"exit", "gone"},
         \A h \in Hash : p = Wait(h) =>
            /\ pc[p] \notin {"joined", "gone"}
            /\ pc'[p] \in Calling \cup {"child"} => pc[p] \in Calling \cup {"child"}
  PROVE  HistoryInv'
<1>1. ASSUME NEW q \in Proc \ {p}, Holding(q) PROVE mem' = mem
  BY <1>1, ProcFacts DEF Inv, LockInv
<1>2. {p} \in SUBSET Proc
  OBVIOUS
<1> HIDE DEF Inv
<1> QED BY <1>1, <1>2, QuietMoves

-----------------------------------------------------------------------------
(* Steps that write no history and not state.json.                         *)

LEMMA BeginHistory ==
  ASSUME Inv, HistoryInv, NEW p \in Proc, NEW kind, NEW h, NEW name, Begin(p, kind, h, name),
         \A g \in Hash : p = Main(g) =>
            /\ pc[p] \notin {"exit", "gone"}
            /\ kind = "live" => pc[p] = "boot",
         \A g \in Hash : p = Wait(g) => pc[p] = "child"
  PROVE  HistoryInv'
<1>1. /\ pc'[p] = "apply" /\ op'[p].kind = kind /\ lock = None
      /\ \A q \in Proc \ {p} : pc'[q] = pc[q] /\ op'[q] = op[q] /\ result'[q] = result[q]
      /\ UNCHANGED <<disk, events, meta>>
  BY DEF Begin, Inv, TypeOK
<1>2. WriterInv(p)'
  BY <1>1 DEF WriterInv
<1>3. \A g \in Hash : p = Main(g) /\ GoingLive(g)' => pc[p] = "boot"
  BY <1>1 DEF GoingLive
<1> HIDE DEF Inv
<1> QED BY <1>1, <1>2, <1>3, QuietMove

LEMMA BeginCallsHistory ==
  ASSUME Inv, HistoryInv,
         \/ \E c \in Client : BeginCreate(c) \/ BeginRename(c)
         \/ \E h \in Hash : MarkLive(h) \/ MarkFailed(h) \/ MarkExited(h)
  PROVE  HistoryInv'
<1>1. ASSUME NEW c \in Client, BeginCreate(c) \/ BeginRename(c) PROVE HistoryInv'
  <2>1. PICK kind, h, name : Begin(c, kind, h, name)
    BY <1>1 DEF BeginCreate, BeginRename
  <2> QED BY <2>1, ProcFacts, BeginHistory
<1>2. ASSUME NEW h \in Hash, MarkLive(h) PROVE HistoryInv'
  BY <1>2, ProcFacts, BeginHistory DEF MarkLive
<1>3. ASSUME NEW h \in Hash, MarkFailed(h) PROVE HistoryInv'
  BY <1>3, ProcFacts, BeginHistory DEF MarkFailed
<1>4. ASSUME NEW h \in Hash, MarkExited(h) PROVE HistoryInv'
  BY <1>4, ProcFacts, BeginHistory DEF MarkExited
<1> QED BY <1>1, <1>2, <1>3, <1>4

(* The closure is applied: the record it returns is that in memory, and    *)
(* the lock is still held.                                                 *)
LEMMA Applied ==
  ASSUME Inv, NEW p \in Proc, ApplyCreate(p) \/ ApplyRename(p) \/ ApplyStatus(p)
  PROVE  /\ pc[p] = "apply" /\ lock = p /\ pc'[p] \in {"meta", "write"}
         /\ pc'[p] = "write" => op[p].kind # "create"
         /\ Holding(p)' /\ op'[p].kind = op[p].kind
         /\ result'[p] = mem'.sessions[op'[p].hash]
         /\ UNCHANGED <<disk, events, meta>>
         /\ \A q \in Proc \ {p} : pc'[q] = pc[q] /\ op'[q] = op[q] /\ result'[q] = result[q]
<1>1. /\ pc[p] = "apply" /\ lock = p
      /\ UNCHANGED <<disk, events, meta>>
  BY DEF ApplyCreate, ApplyRename, ApplyStatus, Apply, Inv, LockInv, Holding
<1>2. PICK s, h : Apply(p, s, h) /\ op'[p].hash = h /\ op'[p].kind = op[p].kind
                    /\ \A q \in Proc \ {p} : op'[q] = op[q]
  <2>1. op[p] \in Call
    BY <1>1 DEF Inv, CallInv, Calling
  <2>2. CASE ApplyCreate(p)
    <3>1. PICK h \in Hash : op' = [op EXCEPT ![p].hash = h]
                              /\ Apply(p, Created(mem, h, op[p].name), h)
      BY <2>2 DEF ApplyCreate
    <3>2. op'[p].hash = h /\ op'[p].kind = op[p].kind /\ \A q \in Proc \ {p} : op'[q] = op[q]
      BY <2>1, <3>1 DEF Inv, TypeOK, Call
    <3> QED BY <3>1, <3>2
  <2>3. CASE ApplyRename(p)
    <3>1. op' = op /\ Apply(p, [mem EXCEPT !.sessions[op[p].hash].current = op[p].name], op[p].hash)
      BY <2>3 DEF ApplyRename
    <3> QED BY <3>1
  <2>4. CASE ApplyStatus(p)
    <3>1. op' = op /\ Apply(p, [mem EXCEPT !.sessions[op[p].hash].status = StatusAfter[op[p].kind]],
                            op[p].hash)
      BY <2>4 DEF ApplyStatus
    <3> QED BY <3>1
  <2> QED BY <2>2, <2>3, <2>4
<1>3. /\ mem' = s /\ result'[p] = s.sessions[h] /\ pc'[p] = NextAfterApply(op[p].kind)
      /\ \A q \in Proc \ {p} : pc'[q] = pc[q] /\ result'[q] = result[q]
  BY <1>2 DEF Apply, Inv, TypeOK
<1>4. /\ pc'[p] \in {"meta", "write"}
      /\ pc'[p] = "write" => op[p].kind # "create"
      /\ Holding(p)'
  BY <1>2, <1>3 DEF NextAfterApply, Holding
<1> QED BY <1>1, <1>2, <1>3, <1>4

LEMMA ApplyHistory ==
  ASSUME Inv, HistoryInv, NEW p \in Proc, ApplyCreate(p) \/ ApplyRename(p) \/ ApplyStatus(p)
  PROVE  HistoryInv'
<1>1. /\ pc[p] = "apply" /\ lock = p /\ pc'[p] \in {"meta", "write"}
      /\ pc'[p] = "write" => op[p].kind # "create"
      /\ Holding(p)' /\ op'[p].kind = op[p].kind
      /\ result'[p] = mem'.sessions[op'[p].hash]
      /\ UNCHANGED <<disk, events, meta>>
      /\ \A q \in Proc \ {p} : pc'[q] = pc[q] /\ op'[q] = op[q] /\ result'[q] = result[q]
  BY Applied
<1>2. Dir(p)' = <<mem'.sessions[op'[p].hash].started, op'[p].hash>>
  BY <1>1 DEF Dir
<1>3. WriterInv(p)'
  BY <1>1, <1>2 DEF WriterInv
<1>4. ASSUME NEW g \in Hash, p = Main(g)
      PROVE  /\ pc'[p] \notin {"off", "boot", "failing"}
             /\ GoingLive(g)' => GoingLive(g)
  BY <1>1, <1>4 DEF GoingLive, Calling
<1> HIDE DEF Inv
<1> QED BY <1>1, <1>3, <1>4, QuietMove DEF Calling

(* A call past its closure goes on to another step of it.                  *)
LEMMA GoOnHistory ==
  ASSUME Inv, HistoryInv, NEW p \in Proc,
         TruncateMeta(p) \/ FillMeta(p) \/ TruncateTmp(p) \/ FillTmp(p)
  PROVE  HistoryInv'
<1>1. /\ pc[p] \in Calling \ {"apply"} /\ pc'[p] \in Calling \ {"apply"}
      /\ \A q \in Proc \ {p} : pc'[q] = pc[q]
      /\ UNCHANGED <<disk, events, lock, op, mem, result>>
      /\ pc'[p] \in {"metafill", "event", "fill", "commit"}
      /\ pc'[p] \in {"fill", "commit"} <=> pc[p] \in {"write", "fill"}
      /\ pc'[p] \in {"metafill", "event"} => Dir(p) \in DOMAIN meta'
      /\ pc[p] \notin {"event", "commit"}
  BY DEF TruncateMeta, FillMeta, TruncateTmp, FillTmp, Inv, TypeOK, Calling, Put
<1>2. DOMAIN meta \subseteq DOMAIN meta'
  BY DEF TruncateMeta, FillMeta, TruncateTmp, FillTmp, Put
<1>3. Dir(p)' = Dir(p) /\ (Holding(p)' <=> Holding(p)) /\ DirOf(op[p].hash)' = DirOf(op[p].hash)
  <2>1. Holding(p)' <=> Holding(p)
    BY <1>1 DEF Holding, Calling
  <2> QED BY <1>1, <2>1 DEF Dir, DirOf
<1>4. WriterInv(p)
  BY DEF HistoryInv
<1>5. WriterInv(p)'
  BY <1>1, <1>2, <1>3, <1>4 DEF WriterInv
<1>6. ASSUME NEW g \in Hash, p = Main(g)
      PROVE  pc'[p] \notin {"off", "boot", "failing"} /\ (GoingLive(g)' => GoingLive(g))
  BY <1>1, <1>6 DEF GoingLive, Calling
<1> HIDE DEF Inv
<1> QED BY <1>1, <1>2, <1>5, <1>6, QuietMove DEF Calling

(* A call is cut short, or refused.                                        *)
LEMMA StopHistory ==
  ASSUME Inv, HistoryInv, NEW p \in Proc, Reject(p) \/ Abandon(p)
  PROVE  HistoryInv'
<1>1. /\ pc[p] \in Calling \cup {"spawn"} /\ Leave({p}, Errored[op[p].kind])
      /\ UNCHANGED <<disk, events>> /\ DOMAIN meta \subseteq DOMAIN meta'
  BY DEF Reject, Abandon, Leavings, Put, Calling
<1>2. /\ pc'[p] = Errored[op[p].kind]
      /\ \A q \in Proc \ {p} : pc'[q] = pc[q] /\ op'[q] = op[q] /\ result'[q] = result[q]
      /\ lock \in {p, None} \/ mem' = mem
  BY <1>1 DEF Leave
<1>3. /\ op[p] \in Call /\ \A g \in Hash : /\ p = Main(g) => op[p].kind \in {"live", "failed"}
                                           /\ p = Wait(g) => op[p].kind = "exited"
  BY <1>1, CallRole
<1>4. pc'[p] \in {"idle", "failing", "exit", "broken"}
  BY <1>2, <1>3 DEF Call, Kind, Errored
<1>5. WriterInv(p)'
  BY <1>4 DEF WriterInv, Calling
<1>6. ASSUME NEW g \in Hash, p = Main(g)
      PROVE  /\ pc'[p] \in {"off", "boot", "failing"} => GoingLive(g)
             /\ ~ GoingLive(g)'
  <2>1. op[p].kind \in {"live", "failed"} /\ pc[p] \in Calling
    BY <1>1, <1>3, <1>6, ProcFacts DEF Inv, RoleInv, MainRole
  <2> QED BY <1>2, <1>4, <1>6, <2>1 DEF GoingLive, Calling, Errored
<1>7. pc[p] \notin {"exit", "gone", "joined"} /\ pc'[p] \notin Calling \cup {"child"}
  BY <1>1, <1>4 DEF Calling
<1> HIDE DEF Inv
<1> QED BY <1>1, <1>2, <1>5, <1>6, <1>7, QuietMove

(* Processes start and end.                                                *)
LEMMA LifeHistory ==
  ASSUME Inv, HistoryInv,
         \/ \E c \in Client : Spawn(c)
         \/ \E h \in Hash : ReturnOk(h) \/ ExitService(h) \/ CrashService(h)
  PROVE  HistoryInv'
<1>1. ASSUME NEW c \in Client, Spawn(c) PROVE HistoryInv'
  <2>0. PICK h \in Hash : h = op[c].hash
    BY <1>1, ProcFacts DEF Spawn, Inv, CallInv
  <2> DEFINE ps == {c, Main(h)}
  <2>1. /\ pc[c] = "spawn" /\ c \in Proc /\ pc[Main(h)] = "off" /\ Main(h) \in Proc
        /\ c # Main(h) /\ Wait(h) \notin ps
        /\ \A g \in Hash : Main(g) \in ps => g = h
        /\ \A g \in Hash : Wait(g) \notin ps
    BY <1>1, <2>0, ProcFacts DEF Spawn, Inv, SpawnInv
  <2>2. /\ pc' = [pc EXCEPT ![c] = "idle", ![Main(h)] = "boot"]
        /\ op' = [op EXCEPT ![c] = NoCall] /\ result' = [result EXCEPT ![c] = None]
        /\ UNCHANGED <<disk, mem, meta, events>>
    BY <1>1, <2>0 DEF Spawn
  <2>3. /\ pc'[c] = "idle" /\ pc'[Main(h)] = "boot"
        /\ \A q \in Proc \ ps : pc'[q] = pc[q] /\ op'[q] = op[q] /\ result'[q] = result[q]
    BY <2>1, <2>2 DEF Inv, TypeOK
  <2>4. \A q \in ps : WriterInv(q)'
    BY <2>3 DEF WriterInv, Calling
  <2>5. ps \in SUBSET Proc
    BY <2>1
  <2> HIDE DEF Inv, ps
  <2>6. \A g \in Hash : Main(g) \in ps => g = h /\ pc[Main(g)] = "off"
    BY <2>1
  <2> QED BY <2>1, <2>2, <2>3, <2>4, <2>5, <2>6, QuietMoves
<1>2. ASSUME NEW h \in Hash, ReturnOk(h) PROVE HistoryInv'
  <2>1. /\ pc[Main(h)] = "serve" /\ pc'[Main(h)] = "exit" /\ Main(h) \in Proc
        /\ \A q \in Proc \ {Main(h)} : pc'[q] = pc[q]
        /\ UNCHANGED <<disk, op, mem, result, meta, events>>
    BY <1>2, ProcFacts DEF ReturnOk, Inv, TypeOK
  <2>2. WriterInv(Main(h))' /\ \A g \in Hash : g = h => ~ GoingLive(g)'
    BY <2>1 DEF WriterInv, GoingLive, Calling
  <2>3. \A g \in Hash : (Main(h) = Main(g) => g = h) /\ Main(h) # Wait(g)
    BY ProcFacts
  <2> HIDE DEF Inv
  <2> QED BY <2>1, <2>2, <2>3, QuietMove
<1>3. ASSUME NEW h \in Hash, ExitService(h) \/ CrashService(h) PROVE HistoryInv'
  <2> DEFINE ps == {Main(h), Wait(h)}
  <2>1. /\ Leave(ps, "gone") /\ ps \in SUBSET Proc
        /\ UNCHANGED <<disk, events>> /\ DOMAIN meta \subseteq DOMAIN meta'
    BY <1>3, ProcFacts DEF ExitService, CrashService, StopService, Leavings, Put
  <2>2. /\ \A q \in ps : pc'[q] = "gone"
        /\ \A q \in Proc \ ps : pc'[q] = pc[q] /\ op'[q] = op[q] /\ result'[q] = result[q]
        /\ lock \in ps \/ mem' = mem
    BY <2>1 DEF Leave
  <2>3. \A q \in Proc \ ps : Holding(q) => mem' = mem
    BY <2>2 DEF Inv, LockInv
  <2>4. \A q \in ps : WriterInv(q)'
    BY <2>2 DEF WriterInv, Calling
  <2>5. \A g \in Hash : /\ Main(g) \in ps => pc'[Main(g)] = "gone" /\ ~ GoingLive(g)'
                        /\ Wait(g) \in ps => pc'[Wait(g)] = "gone"
    BY <2>2 DEF GoingLive, Calling
  <2>6. "gone" \notin Calling
    BY DEF Calling
  <2> HIDE DEF Inv, ps
  <2> QED BY <2>1, <2>2, <2>3, <2>4, <2>5, <2>6, QuietMoves
<1> QED BY <1>1, <1>2, <1>3

-----------------------------------------------------------------------------
(* An event is written.                                                    *)

LEMMA OrderedAppend ==
  ASSUME NEW s \in Seq(Events), NEW e \in Events,
         Ordered(s) \/ (s = << >> /\ e.kind = "created"),
         e.kind \in {"live", "exited", "failed"} => e.kind \notin KindsIn(s),
         e.kind = "exited" => "live" \in KindsIn(s)
  PROVE  /\ Ordered(Append(s, e))
         /\ KindsIn(Append(s, e)) = KindsIn(s) \cup {e.kind}
<1> DEFINE t == Append(s, e)
           n == Len(s)
<1>1. /\ n \in Nat /\ Len(t) = n + 1 /\ DOMAIN t = 1 .. n + 1 /\ DOMAIN s = 1 .. n
      /\ t[n + 1] = e /\ \A i \in 1 .. n : t[i] = s[i]
      /\ t # << >> /\ (s = << >> => n = 0)
  OBVIOUS
<1> HIDE DEF t, n
<1>2. \A i \in 1 .. n + 1 : i = n + 1 \/ i \in 1 .. n
  BY <1>1
<1>3. KindsIn(t) = KindsIn(s) \cup {e.kind}
  <2>1. ASSUME NEW k \in KindsIn(t) PROVE k \in KindsIn(s) \cup {e.kind}
    <3>1. PICK i \in 1 .. n + 1 : k = t[i].kind
      BY <1>1, <2>1 DEF KindsIn
    <3> QED BY <1>1, <1>2, <3>1 DEF KindsIn
  <2>2. ASSUME NEW k \in KindsIn(s) PROVE k \in KindsIn(t)
    <3>1. PICK i \in 1 .. n : k = s[i].kind
      BY <1>1, <2>2 DEF KindsIn
    <3>2. i \in 1 .. n + 1 /\ t[i] = s[i]
      BY <1>1, <3>1
    <3> QED BY <1>1, <3>1, <3>2 DEF KindsIn
  <2>3. e.kind \in KindsIn(t)
    <3>1. n + 1 \in 1 .. n + 1
      BY <1>1
    <3> QED BY <1>1, <3>1 DEF KindsIn
  <2> QED BY <2>1, <2>2, <2>3
<1>4. n > 0 => Ordered(s)
  BY <1>1
<1>5. t[1].kind = "created"
  <2>1. CASE n = 0
    BY <1>1, <2>1 DEF Ordered
  <2>2. CASE n > 0
    BY <1>1, <1>4, <2>2 DEF Ordered
  <2> QED BY <1>1, <2>1, <2>2
<1>6. ASSUME NEW i \in 1 .. n + 1, NEW j \in 1 .. n + 1, t[i].kind = t[j].kind,
             t[i].kind \in {"live", "exited", "failed"}
      PROVE  i = j
  <2>1. ASSUME NEW k \in 1 .. n, e.kind \in {"live", "exited", "failed"} PROVE t[k].kind # e.kind
    BY <1>1, <2>1 DEF KindsIn
  <2>2. CASE i \in 1 .. n /\ j \in 1 .. n
    BY <1>1, <1>4, <1>6, <2>2 DEF Ordered
  <2>3. CASE i = n + 1 \/ j = n + 1
    BY <1>1, <1>2, <1>6, <2>1, <2>3
  <2> QED BY <1>2, <2>2, <2>3
<1>7. ASSUME NEW i \in 1 .. n + 1, t[i].kind = "exited"
      PROVE  \E m \in 1 .. i : t[m].kind = "live"
  <2>1. CASE i \in 1 .. n
    <3>1. PICK m \in 1 .. i : s[m].kind = "live"
      BY <1>1, <1>4, <1>7, <2>1 DEF Ordered
    <3> QED BY <1>1, <2>1, <3>1
  <2>2. CASE i = n + 1
    <3>1. PICK m \in 1 .. n : s[m].kind = "live"
      BY <1>1, <1>7, <2>2 DEF KindsIn
    <3> QED BY <1>1, <2>2, <3>1
  <2> QED BY <1>2, <2>1, <2>2
<1> QED BY <1>1, <1>3, <1>5, <1>6, <1>7 DEF Ordered, t

(* What a process may write next to the history of its directory.          *)
LEMMA MayWrite ==
  ASSUME Inv, HistoryInv, NEW p \in Proc, pc[p] = "event"
  PROVE  /\ op[p].hash \in Hash /\ op[p] \in Call
         /\ EventOf(p) \in Events /\ EventOf(p).kind = EventName[op[p].kind]
         /\ op[p].kind = "create" =>
              ~ Known(disk.sessions, op[p].hash) /\ Dir(p)[2] = op[p].hash
         /\ op[p].kind # "create" =>
              /\ Known(disk.sessions, op[p].hash) /\ Dir(p) = DirOf(op[p].hash)
              /\ op[p].kind = "live" => disk.sessions[op[p].hash].status # "Starting"
              /\ op[p].kind \in {"exited", "failed"} => Dead(disk.sessions, op[p].hash)
              /\ Dir(p) \in DOMAIN events
              /\ op[p].kind \in {"live", "exited", "failed"} =>
                   op[p].kind \notin Happened(op[p].hash)
              /\ op[p].kind = "exited" => "live" \in Happened(op[p].hash)
<1>1. /\ op[p] \in Call /\ op[p].hash \in Hash /\ result[p] \in SessionRecord
      /\ WriterInv(p)
  BY DEF Inv, CallInv, HistoryInv, Calling
<1>2. EventOf(p) \in Events /\ EventOf(p).kind = EventName[op[p].kind]
  BY <1>1 DEF EventOf, Events, EventName, Call, Kind, SessionRecord
<1>3. ASSUME op[p].kind = "create"
      PROVE  ~ Known(disk.sessions, op[p].hash) /\ Dir(p)[2] = op[p].hash
  BY <1>3 DEF Inv, MemInv, Holding, Changed, Dir
<1>4. ASSUME op[p].kind # "create"
      PROVE  /\ Known(disk.sessions, op[p].hash) /\ Dir(p) = DirOf(op[p].hash)
             /\ op[p].kind = "live" => disk.sessions[op[p].hash].status # "Starting"
             /\ op[p].kind \in {"exited", "failed"} => Dead(disk.sessions, op[p].hash)
             /\ StoryInv(op[p].hash)
  BY <1>1, <1>4 DEF WriterInv, Holding, HistoryInv, Calling
<1>5. ASSUME op[p].kind \in {"live", "failed"}
      PROVE  op[p].kind \notin Happened(op[p].hash)
  <2>1. p = Main(op[p].hash)
    BY <1>5, CallRole, ProcFacts DEF Calling
  <2> QED BY <1>4, <1>5, <2>1 DEF StoryInv, GoingLive, Calling
<1>6. ASSUME op[p].kind = "exited"
      PROVE  "exited" \notin Happened(op[p].hash) /\ "live" \in Happened(op[p].hash)
  <2>1. p = Wait(op[p].hash)
    BY <1>6, CallRole, ProcFacts DEF Calling
  <2> QED BY <1>4, <1>6, <2>1 DEF StoryInv, Calling
<1>7. op[p].kind # "create" => Dir(p) \in DOMAIN events
  BY <1>4 DEF StoryInv
<1> QED BY <1>1, <1>2, <1>3, <1>4, <1>5, <1>6, <1>7

LEMMA AppendHistory ==
  ASSUME Inv, HistoryInv, NEW p \in Proc, AppendEvent(p)
  PROVE  HistoryInv'
<1>0. PICK h, kind, d : h = op[p].hash /\ kind = op[p].kind /\ d = Dir(p)
  OBVIOUS
<1>1. /\ pc[p] = "event"
      /\ events' = Put(events, d, Append(EventsOf(d), EventOf(p)))
      /\ UNCHANGED <<disk, mem, meta>>
      /\ pc'[p] = NextAfterEvent(kind)
      /\ \A q \in Proc \ {p} :
           /\ op'[q] = op[q] /\ result'[q] = result[q]
           /\ pc'[q] = IF kind = "live" /\ q = Wait(h) THEN "child" ELSE pc[q]
      /\ kind = "create" => UNCHANGED <<op, result>>
  BY <1>0 DEF AppendEvent, Inv, TypeOK
<1>2. /\ h \in Hash /\ op[p] \in Call /\ kind \in Kind
      /\ EventOf(p) \in Events /\ EventOf(p).kind = EventName[kind]
      /\ kind = "create" => ~ Known(disk.sessions, h) /\ d[2] = h
      /\ kind # "create" =>
           /\ Known(disk.sessions, h) /\ d = DirOf(h)
           /\ kind = "live" => disk.sessions[h].status # "Starting"
           /\ kind \in {"exited", "failed"} => Dead(disk.sessions, h)
           /\ d \in DOMAIN events
           /\ kind \in {"live", "exited", "failed"} => kind \notin Happened(h)
           /\ kind = "exited" => "live" \in Happened(h)
  BY <1>0, <1>1, MayWrite DEF Call
<1>3. EventsOf(d) \in Seq(Events) /\ (d \in DOMAIN events => EventsOf(d) = events[d])
      /\ (d \notin DOMAIN events => EventsOf(d) = << >>)
  BY DEF EventsOf, Inv, TypeOK
<1>4. d \in DOMAIN events => Ordered(events[d])
  BY DEF HistoryInv, DirsInv
<1> DEFINE t == Append(EventsOf(d), EventOf(p))
<1>5. Ordered(t) /\ KindsIn(t) = KindsIn(EventsOf(d)) \cup {EventName[kind]}
  <2>1. d = DirOf(h) => Happened(h) = KindsIn(EventsOf(d))
    BY DEF Happened, KindsIn
  <2>2. Ordered(EventsOf(d)) \/ (EventsOf(d) = << >> /\ EventName[kind] = "created")
    BY <1>2, <1>3, <1>4 DEF EventName
  <2>3. /\ EventName[kind] \in {"live", "exited", "failed"}
             => EventName[kind] \notin KindsIn(EventsOf(d))
        /\ EventName[kind] = "exited" => "live" \in KindsIn(EventsOf(d))
    BY <1>2, <2>1 DEF EventName, Kind
  <2> QED BY <1>2, <1>3, <2>2, <2>3, OrderedAppend
<1>6. /\ DOMAIN events' = DOMAIN events \cup {d} /\ events'[d] = t
      /\ \A dir \in DOMAIN events \ {d} : events'[dir] = events[dir]
      /\ \A g : DirOf(g)' = DirOf(g)
  BY <1>1 DEF Put, DirOf
<1> HIDE DEF t
<1>7. /\ \A g \in Hash : DirOf(g) # d => Happened(g)' = Happened(g)
      /\ \A g \in Hash : DirOf(g) = d => Happened(g)' = Happened(g) \cup {EventName[kind]}
  <2>1. ASSUME NEW g \in Hash, DirOf(g) # d PROVE Happened(g)' = Happened(g)
    BY <1>6, <2>1 DEF Happened, EventsOf
  <2>2. ASSUME NEW g \in Hash, DirOf(g) = d
        PROVE  Happened(g)' = Happened(g) \cup {EventName[kind]}
    <3>1. Happened(g) = KindsIn(EventsOf(d)) /\ Happened(g)' = KindsIn(t)
      BY <1>6, <2>2 DEF Happened, KindsIn, EventsOf
    <3> QED BY <1>5, <3>1
  <2> QED BY <2>1, <2>2
<1>8. ASSUME NEW g \in Hash, Known(disk.sessions, g), DirOf(g) = d
      PROVE  g = h /\ kind # "create"
  <2>1. d[2] = h
    BY <1>0 DEF Dir
  <2>2. g = h
    BY <1>8, <2>1 DEF DirOf
  <2> QED BY <1>2, <1>8, <2>2
<1>9. DirsInv'
  <2>1. ASSUME NEW dir \in DOMAIN events, dir # d
        PROVE  /\ Ordered(events'[dir])
               /\ KindsIn(events'[dir]) \subseteq {"created"}
                    \/ (Known(disk'.sessions, dir[2]) /\ dir = DirOf(dir[2])')
    BY <1>1, <1>6, <2>1 DEF HistoryInv, DirsInv
  <2>2. KindsIn(t) \subseteq {"created"} \/ (Known(disk.sessions, d[2]) /\ d = DirOf(d[2]))
    <3>1. CASE kind = "create"
      <4>1. KindsIn(EventsOf(d)) \subseteq {"created"}
        <5>1. CASE d \in DOMAIN events
          BY <1>2, <1>3, <3>1, <5>1 DEF HistoryInv, DirsInv
        <5>2. CASE d \notin DOMAIN events
          BY <1>3, <5>2 DEF KindsIn
        <5> QED BY <5>1, <5>2
      <4>2. EventName[kind] = "created"
        BY <3>1 DEF EventName
      <4>3. KindsIn(t) = KindsIn(EventsOf(d)) \cup {"created"}
        BY <1>5, <4>2
      <4> QED BY <4>1, <4>3
    <3>2. CASE kind # "create"
      <4>1. d[2] = h
        BY <1>0 DEF Dir
      <4> QED BY <1>2, <3>2, <4>1
    <3> QED BY <3>1, <3>2
  <2>3. \A dir \in DOMAIN events' : dir = d \/ (dir \in DOMAIN events /\ dir # d)
    BY <1>6
  <2> QED BY <1>1, <1>5, <1>6, <2>1, <2>2, <2>3 DEF DirsInv
<1>10. ASSUME NEW q \in Proc PROVE WriterInv(q)'
  <2>1. CASE q = p
    <3>1. CASE kind = "create"
      <4>1. WriterInv(p) /\ pc'[p] = "write"
        BY <1>1, <3>1 DEF HistoryInv, NextAfterEvent
      <4>2. /\ Holding(p) /\ Holding(p)' /\ Dir(p)' = d
        BY <1>0, <1>1, <3>1, <4>1 DEF Holding, Dir
      <4> QED BY <1>0, <1>1, <1>6, <2>1, <3>1, <4>1, <4>2 DEF WriterInv, Calling
    <3>2. CASE kind # "create"
      <4>1. pc'[p] \notin Calling
        BY <1>1, <1>2, <3>2 DEF NextAfterEvent, Returned, Kind, Calling
      <4> QED BY <2>1, <4>1 DEF WriterInv
    <3> QED BY <3>1, <3>2
  <2>2. CASE q # p /\ pc'[q] = pc[q]
    BY <1>1, <1>6, <2>2, OthersWrite
  <2>3. CASE q # p /\ pc'[q] # pc[q]
    BY <1>1, <2>3 DEF WriterInv, Calling
  <2> QED BY <2>1, <2>2, <2>3
<1>11. ASSUME NEW g \in Hash, Known(disk.sessions, g) PROVE StoryInv(g)'
  <2>1. StoryInv(g)
    BY DEF HistoryInv
  <2>2. DirOf(g)' \in DOMAIN meta' /\ DirOf(g)' \in DOMAIN events'
    BY <1>1, <1>6, <1>11, <2>1 DEF StoryInv
  <2>3. /\ p = Main(g) => kind \in {"live", "failed"} /\ g = h
        /\ p = Wait(g) => kind = "exited" /\ g = h
        /\ kind \in {"live", "failed"} => p = Main(h)
        /\ kind = "exited" => p = Wait(h)
    BY <1>0, <1>1, <1>2, CallRole, ProcFacts DEF Calling
  <2>4. CASE g # h \/ kind \in {"create", "rename"}
    <3>1. /\ "live" \in Happened(g)' <=> "live" \in Happened(g)
          /\ "exited" \in Happened(g)' <=> "exited" \in Happened(g)
          /\ "failed" \in Happened(g)' <=> "failed" \in Happened(g)
      BY <1>7, <1>8, <1>11, <2>4 DEF EventName
    <3>2. /\ pc'[Main(g)] = pc[Main(g)] /\ op'[Main(g)] = op[Main(g)]
          /\ pc'[Wait(g)] = pc[Wait(g)]
      <4>1. Main(g) # p /\ Wait(g) # p /\ (kind = "live" => Wait(g) # Wait(h))
        BY <1>2, <2>3, <2>4, ProcFacts
      <4> QED BY <1>1, <1>2, <4>1, ProcFacts
    <3>3. GoingLive(g)' <=> GoingLive(g)
      BY <3>2 DEF GoingLive
    <3> QED BY <1>1, <1>11, <2>1, <2>2, <3>1, <3>2, <3>3 DEF StoryInv
  <2>5. CASE g = h /\ kind \in {"live", "exited", "failed"}
    <3> USE <1>0
    <3>0. Happened(h)' = Happened(h) \cup {kind}
      BY <1>2, <1>7, <2>5 DEF EventName
    <3>1. CASE kind = "live"
      <4>1. /\ pc'[Main(h)] = "serve" /\ pc'[Wait(h)] = "child" /\ pc[Wait(h)] = "off"
            /\ ~ GoingLive(h)'
        <5>1. p = Main(h) /\ p # Wait(h) /\ Wait(h) \in Proc
          BY <1>2, <2>3, <3>1, ProcFacts
        <5>2. pc'[p] = "serve" /\ pc'[Wait(h)] = "child"
          BY <1>1, <3>1, <5>1 DEF NextAfterEvent, Returned
        <5>3. GoingLive(h)
          BY <1>1, <3>1, <5>1 DEF GoingLive, Calling
        <5> QED BY <1>2, <5>1, <5>2, <5>3 DEF Inv, ServiceInv, GoingLive, Calling
      <4>2. "exited" \notin Happened(h) /\ "failed" \notin Happened(h)
        BY <1>1, <1>11, <2>1, <2>3, <2>5, <3>1, <4>1 DEF StoryInv
      <4> QED BY <1>1, <1>2, <2>2, <2>5, <3>0, <3>1, <4>1, <4>2 DEF StoryInv
    <3>2. CASE kind = "failed"
      <4>1. /\ pc'[Main(h)] = "exit" /\ pc'[Wait(h)] = pc[Wait(h)]
            /\ ~ GoingLive(h)'
        BY <1>1, <1>2, <2>3, <3>2, ProcFacts DEF NextAfterEvent, Returned, GoingLive, Calling
      <4> QED BY <1>1, <1>2, <1>11, <2>1, <2>2, <2>5, <3>0, <3>2, <4>1 DEF StoryInv
    <3>3. CASE kind = "exited"
      <4>1. /\ pc'[Wait(h)] = "joined" /\ pc'[Main(h)] = pc[Main(h)]
            /\ op'[Main(h)] = op[Main(h)]
        BY <1>1, <1>2, <2>3, <3>3, ProcFacts DEF NextAfterEvent, Returned
      <4>2. GoingLive(h)' <=> GoingLive(h)
        BY <4>1 DEF GoingLive
      <4> QED BY <1>1, <1>2, <1>11, <2>1, <2>2, <2>5, <3>0, <3>3, <4>1, <4>2
              DEF StoryInv, Calling
    <3> QED BY <2>5, <3>1, <3>2, <3>3
  <2> QED BY <1>2, <2>4, <2>5 DEF Kind
<1>12. \A g \in Hash : StoryInv(g)'
  BY <1>1, <1>11 DEF StoryInv
<1> QED BY <1>9, <1>10, <1>12 DEF HistoryInv

-----------------------------------------------------------------------------
(* A call commits: a new session finds what its creator has written, and   *)
(* an old one its history.                                                 *)

LEMMA CommitHistory ==
  ASSUME Inv, HistoryInv, NEW p \in Proc, Commit(p)
  PROVE  HistoryInv'
<1>0. PICK h, kind : h = op[p].hash /\ kind = op[p].kind
  OBVIOUS
<1>1. /\ lock = p /\ Changed(p) /\ h \in Hash /\ kind \in Kind /\ op[p] \in Call
      /\ disk' = mem /\ disk \in StateFile /\ disk' \in StateFile
  BY <1>0, Committed DEF Call
<1>2. /\ pc[p] = "commit" /\ pc'[p] = NextAfterCommit(kind)
      /\ \A q \in Proc \ {p} : pc'[q] = pc[q]
      /\ UNCHANGED <<op, result, meta, events>>
  BY <1>0 DEF Commit, Inv, TypeOK
<1>3. /\ kind = "create" => pc'[p] = "spawn"
      /\ kind # "create" => pc'[p] = "meta"
  BY <1>2 DEF NextAfterCommit, Returned
<1>4. /\ kind \in {"live", "failed"} <=> p = Main(h)
      /\ kind = "exited" <=> p = Wait(h)
      /\ \A g \in Hash : p = Main(g) \/ p = Wait(g) => g = h
  BY <1>0, <1>1, <1>2, CallRole, ProcFacts DEF Calling, Kind
<1>5. \A g \in Hash : Known(disk.sessions, g) =>
        /\ Known(disk'.sessions, g) /\ DirOf(g)' = DirOf(g)
        /\ h # g \/ kind \notin DOMAIN StatusAfter
             => disk'.sessions[g].status = disk.sessions[g].status
  BY <1>0, CommitEffect DEF DirOf
<1>6. ASSUME kind \in DOMAIN StatusAfter
      PROVE  disk'.sessions[h].status = StatusAfter[kind] /\ Known(disk.sessions, h)
  <2>1. Known(disk.sessions, h) /\ disk' = [disk EXCEPT !.sessions[h].status = StatusAfter[kind]]
    BY <1>0, <1>1, <1>6 DEF Changed
  <2>2. disk.sessions[h] \in SessionRecord
    BY <1>1, <2>1, KnownRecord
  <2> QED BY <1>1, <2>1, <2>2 DEF StateFile, SessionRecord
<1>7. /\ Dir(p) = <<disk'.sessions[h].started, h>>
      /\ kind = "create" => Dir(p) \in DOMAIN meta /\ Dir(p) \in DOMAIN events
  BY <1>0, <1>1, <1>2 DEF HistoryInv, WriterInv, Holding, Calling
<1>8. Dir(p) = DirOf(h)'
  BY <1>7 DEF DirOf
<1>9. \A q \in Proc : q # p => ~ Holding(q) /\ ~ Holding(q)'
  BY <1>1, <1>2 DEF Inv, LockInv, Holding
<1>11. ASSUME NEW g \in Hash, Known(disk.sessions, g)
       PROVE  /\ disk.sessions[g].status # "Starting" => disk'.sessions[g].status # "Starting"
              /\ Dead(disk.sessions, g) => Dead(disk'.sessions, g)
  BY <1>11, CommitForward
<1>12. DirsInv'
  <2>1. ASSUME NEW dir \in DOMAIN events, Known(disk.sessions, dir[2]), dir = DirOf(dir[2])
        PROVE  Known(disk'.sessions, dir[2]) /\ dir = DirOf(dir[2])'
    <3>1. dir[2] \in Hash
      BY DEF Inv, TypeOK, Dirs
    <3> QED BY <1>5, <2>1, <3>1
  <2> QED BY <1>2, <2>1 DEF HistoryInv, DirsInv
<1>13. ASSUME NEW q \in Proc PROVE WriterInv(q)'
  <2>1. CASE q = p
    <3>1. CASE kind = "create"
      BY <1>3, <2>1, <3>1 DEF WriterInv, Calling
    <3>2. CASE kind # "create"
      <4>1. ~ Holding(p)' /\ pc'[p] = "meta" /\ op'[p] = op[p] /\ Dir(p)' = Dir(p)
        BY <1>0, <1>2, <1>3, <3>2 DEF Holding, Dir
      <4>2. Known(disk'.sessions, h)
        <5>1. Known(disk.sessions, h)
          BY <1>0, <1>1, <1>6, <3>2, KnownRecord DEF Changed, Kind, StatusAfter
        <5> QED BY <1>1, <1>5, <5>1
      <4>3. /\ kind = "live" => disk'.sessions[h].status # "Starting"
            /\ kind \in {"exited", "failed"} => Dead(disk'.sessions, h)
        BY <1>6 DEF StatusAfter, Dead, DeadStatus, Status, LiveStatus
      <4> QED BY <1>0, <1>8, <2>1, <3>2, <4>1, <4>2, <4>3 DEF WriterInv
    <3> QED BY <3>1, <3>2
  <2>2. CASE q # p
    <3>1. SUFFICES ASSUME pc[q] \in Calling \ {"apply"} PROVE WriterInv(q)'
      BY <1>2, <2>2 DEF WriterInv
    <3>2. ~ Holding(q) /\ ~ Holding(q)' /\ Dir(q)' = Dir(q) /\ op'[q] = op[q] /\ pc'[q] = pc[q]
      BY <1>2, <1>9, <2>2 DEF Dir
    <3>3. op[q].kind # "create" /\ op[q].hash \in Hash
      BY <3>1, <3>2, <1>1, <2>2 DEF Holding, Calling, Inv, CallInv
    <3>4. WriterInv(q)
      BY DEF HistoryInv
    <3> QED BY <1>5, <1>11, <3>1, <3>2, <3>3, <3>4 DEF WriterInv
  <2> QED BY <2>1, <2>2
<1>14. ASSUME NEW g \in Hash, Known(disk'.sessions, g) PROVE StoryInv(g)'
  <2>1. CASE Known(disk.sessions, g)
    <3>1. StoryInv(g) /\ DirOf(g)' = DirOf(g)
      BY <1>5, <2>1 DEF HistoryInv
    <3>2. Happened(g)' = Happened(g)
      BY <1>2, <3>1 DEF Happened, EventsOf
    <3>3. /\ pc'[Main(g)] \in {"off", "boot", "failing"} \/ GoingLive(g)'
               => pc[Main(g)] \in {"off", "boot", "failing"} \/ GoingLive(g)
          /\ pc'[Main(g)] \notin {"exit", "gone"} => pc[Main(g)] \notin {"exit", "gone"}
      <4>1. CASE p = Main(g)
        <5>1. pc'[p] = "meta"
          BY <1>3, <1>4, <4>1
        <5> QED BY <1>2, <4>1, <5>1 DEF GoingLive, Calling
      <4>2. CASE p # Main(g)
        BY <1>2, <4>2, ProcFacts DEF GoingLive
      <4> QED BY <4>1, <4>2
    <3>4. /\ pc'[Wait(g)] \notin {"joined", "gone"} => pc[Wait(g)] \notin {"joined", "gone"}
          /\ pc'[Wait(g)] \in Calling \cup {"child"} => pc[Wait(g)] \in Calling \cup {"child"}
      <4>1. CASE p = Wait(g)
        BY <1>2, <4>1 DEF Calling
      <4>2. CASE p # Wait(g)
        BY <1>2, <4>2, ProcFacts
      <4> QED BY <4>1, <4>2
    <3> QED BY <1>2, <1>11, <2>1, <3>1, <3>2, <3>3, <3>4 DEF StoryInv
  <2>2. CASE ~ Known(disk.sessions, g)
    <3>1. g = h /\ kind = "create"
      <4>1. CASE kind = "create"
        <5>1. disk' = Created(disk, h, op[p].name)
          BY <1>0, <1>1, <4>1 DEF Changed
        <5>2. g # h => disk'.sessions[g] = disk.sessions[g]
          BY <1>1, <5>1, CreatedRecord DEF Call
        <5> QED BY <1>14, <2>2, <4>1, <5>2 DEF Known
      <4>2. CASE kind = "rename"
        BY <1>0, <1>1, <1>14, <2>2, <4>2, KnownRecord DEF Changed, Known, StateFile
      <4>3. CASE kind \in DOMAIN StatusAfter
        BY <1>0, <1>1, <1>6, <1>14, <2>2, <4>3 DEF Changed, Known, StateFile
      <4> QED BY <1>1, <4>1, <4>2, <4>3 DEF Kind, StatusAfter
    <3>2. DirOf(g)' \in DOMAIN meta /\ DirOf(g)' \in DOMAIN events /\ DirOf(g)'[2] = g
      BY <1>7, <1>8, <3>1
    <3>3. Happened(g)' \subseteq {"created"}
      <4>1. KindsIn(events[DirOf(g)']) \subseteq {"created"}
        BY <2>2, <3>2 DEF HistoryInv, DirsInv
      <4>2. Happened(g)' = KindsIn(events[DirOf(g)'])
        BY <1>2, <3>2 DEF Happened, EventsOf, KindsIn
      <4> QED BY <4>1, <4>2
    <3>4. pc[Main(g)] = "off" /\ pc[Wait(g)] = "off"
      BY <2>2 DEF Inv, ServiceInv
    <3>5. pc'[Wait(g)] = "off"
      BY <1>2, <3>4, ProcFacts
    <3> QED BY <1>2, <3>2, <3>3, <3>5 DEF StoryInv, Calling
  <2> QED BY <2>1, <2>2
<1>15. \A g \in Hash : StoryInv(g)'
  BY <1>14 DEF StoryInv
<1> QED BY <1>12, <1>13, <1>15 DEF HistoryInv

LEMMA HistoryStep == Inv /\ HistoryInv /\ [Next]_vars => HistoryInv'
<1> SUFFICES ASSUME Inv, HistoryInv, [Next]_vars PROVE HistoryInv'
  OBVIOUS
<1>1. ASSUME NEW p \in Proc, Step(p) \/ Abandon(p) PROVE HistoryInv'
  <2>1. CASE ApplyCreate(p) \/ ApplyRename(p) \/ ApplyStatus(p)
    BY <2>1, ApplyHistory
  <2>2. CASE Reject(p) \/ Abandon(p)
    BY <2>2, StopHistory
  <2>3. CASE TruncateMeta(p) \/ FillMeta(p) \/ TruncateTmp(p) \/ FillTmp(p)
    BY <2>3, GoOnHistory
  <2>4. CASE AppendEvent(p)
    BY <2>4, AppendHistory
  <2>5. CASE Commit(p)
    BY <2>5, CommitHistory
  <2> QED BY <1>1, <2>1, <2>2, <2>3, <2>4, <2>5 DEF Step
<1>2. CASE \/ \E c \in Client : BeginCreate(c) \/ BeginRename(c)
           \/ \E h \in Hash : MarkLive(h) \/ MarkFailed(h) \/ MarkExited(h)
  BY <1>2, BeginCallsHistory
<1>3. CASE \/ \E c \in Client : Spawn(c)
           \/ \E h \in Hash : ReturnOk(h) \/ ExitService(h) \/ CrashService(h)
  BY <1>3, LifeHistory
<1>4. CASE UNCHANGED vars
  <2>1. {} \in SUBSET Proc
    OBVIOUS
  <2> HIDE DEF HistoryInv
  <2> QED BY <1>4, <2>1, QuietMoves DEF vars
<1> HIDE DEF Inv, HistoryInv
<1> QED BY <1>1, <1>2, <1>3, <1>4 DEF Next

LEMMA HistoryInvariance == Spec => [](Inv /\ HistoryInv)
<1>1. Inv /\ HistoryInv /\ [Next]_vars => HistoryInv'
  BY HistoryStep
<1> QED BY <1>1, HistoryInit, Invariance, PTL DEF Spec

(* Whoever stops where, a session in state.json has its directory, with a  *)
(* meta.json and a history that starts with its creation: create_session   *)
(* writes them first.                                                      *)
THEOREM Documented == Spec => []CommittedIsDocumented
<1>1. Inv /\ HistoryInv => CommittedIsDocumented
  <2> SUFFICES ASSUME HistoryInv, NEW h \in Hash, Known(disk.sessions, h)
               PROVE  /\ DirOf(h) \in DOMAIN meta
                      /\ EventsOf(DirOf(h)) # << >>
                      /\ EventsOf(DirOf(h))[1].kind = "created"
    BY DEF CommittedIsDocumented
  <2>1. DirOf(h) \in DOMAIN meta /\ DirOf(h) \in DOMAIN events
    BY DEF HistoryInv, StoryInv
  <2>2. EventsOf(DirOf(h)) = events[DirOf(h)] /\ Ordered(events[DirOf(h)])
    BY <2>1 DEF EventsOf, HistoryInv, DirsInv
  <2> QED BY <2>1, <2>2 DEF Ordered
<1> QED BY <1>1, HistoryInvariance, PTL

(* No event announces a status that state.json does not have yet.          *)
THEOREM StatusFirst == Spec => []EventsFollowStatus
<1>1. Inv /\ HistoryInv => EventsFollowStatus
  BY DEF HistoryInv, StoryInv, EventsFollowStatus
<1> QED BY <1>1, HistoryInvariance, PTL

(* However the threads of a service and its crashes interleave, a history  *)
(* has each of live, exited and failed at most once, and exited after      *)
(* live.                                                                   *)
THEOREM InOrder == Spec => []HistoryInOrder
<1>1. Inv /\ HistoryInv => HistoryInOrder
  BY DEF HistoryInv, DirsInv, Ordered, HistoryInOrder
<1> QED BY <1>1, HistoryInvariance, PTL
-----------------------------------------------------------------------------
(* meta.json.  Its writers have released the lock, so that an older record *)
(* may be written over a newer one: it need not agree with state.json.     *)
(* What is true of it is that it is never ahead.                           *)

(* The record a call goes on to write is the one it is about to commit, or *)
(* one that state.json has had.                                            *)
RecordInv(p) ==
  pc[p] \in Calling \ {"apply"} =>
    LET h == op[p].hash IN
    /\ Holding(p) => result[p] = mem.sessions[h]
    /\ ~ Holding(p) => Reached(h, result[p].status)

MetaInv == MetaNeverAhead /\ \A p \in Proc : RecordInv(p)

LEMMA ReachedStays ==
  ASSUME Inv, [Next]_vars, NEW h \in Hash, NEW s, Reached(h, s)
  PROVE  Reached(h, s)'
<1>1. CASE disk' = disk
  BY <1>1 DEF Reached
<1>2. ASSUME NEW p \in Proc, Commit(p) PROVE Reached(h, s)'
  <2>1. Dead(disk.sessions, h) => Known(disk.sessions, h)
    BY DEF Inv, TypeOK, StateFile, Dead, DeadStatus, LiveStatus, Status, Known, NoSession
  <2> QED BY <1>2, <2>1, CommitEffect, CommitForward DEF Reached
<1>3. disk' = disk \/ \E p \in Proc : Commit(p)
  BY NextInv DEF vars
<1> QED BY <1>1, <1>2, <1>3

(* A step that fills no meta.json, or not to its end: it is enough to look *)
(* at the processes that move.                                             *)
LEMMA MetaMoves ==
  ASSUME Inv, MetaInv, [Next]_vars,
         \A dir \in DOMAIN meta' :
            meta'[dir] \in Unfinished \/ (dir \in DOMAIN meta /\ meta'[dir] = meta[dir]),
         \A q \in Proc : \/ RecordInv(q)'
                         \/ /\ pc'[q] = pc[q] /\ op'[q] = op[q] /\ result'[q] = result[q]
                            /\ Holding(q) => mem' = mem
  PROVE  MetaInv'
<1>1. ASSUME NEW dir \in DOMAIN meta', meta'[dir] \notin Unfinished, NEW s, s = meta'[dir].status
      PROVE  Reached(dir[2], s)'
  <2>1. dir \in DOMAIN meta /\ meta'[dir] = meta[dir] /\ dir[2] \in Hash
    BY <1>1 DEF Inv, TypeOK, Dirs
  <2>2. Reached(dir[2], s)
    BY <1>1, <2>1 DEF MetaInv, MetaNeverAhead
  <2> QED BY <2>1, <2>2, ReachedStays
<1>2. ASSUME NEW q \in Proc PROVE RecordInv(q)'
  <2> SUFFICES ASSUME pc'[q] = pc[q], op'[q] = op[q], result'[q] = result[q],
                      Holding(q) => mem' = mem, pc[q] \in Calling \ {"apply"}
               PROVE  RecordInv(q)'
    BY DEF RecordInv
  <2>1. op[q].hash \in Hash /\ (Holding(q)' <=> Holding(q)) /\ RecordInv(q)
    BY DEF Inv, CallInv, Holding, MetaInv
  <2>2. CASE Holding(q)
    BY <2>1, <2>2 DEF RecordInv
  <2>3. CASE ~ Holding(q)
    <3>1. PICK h \in Hash : h = op[q].hash
      BY <2>1
    <3>2. PICK s : s = result[q].status
      OBVIOUS
    <3>3. Reached(h, s)
      BY <2>1, <2>3, <3>1, <3>2 DEF RecordInv
    <3>4. Reached(h, s)'
      BY <3>3, ReachedStays
    <3> QED BY <2>1, <2>3, <3>1, <3>2, <3>4 DEF RecordInv
  <2> QED BY <2>2, <2>3
<1>3. MetaNeverAhead'
  BY <1>1 DEF MetaNeverAhead
<1> QED BY <1>2, <1>3 DEF MetaInv
(* A call begins, or its closure is applied.                               *)
LEMMA CallMeta ==
  ASSUME Inv, MetaInv, Next, NEW p \in Proc,
         \/ \E kind, h, name : Begin(p, kind, h, name)
         \/ ApplyCreate(p) \/ ApplyRename(p) \/ ApplyStatus(p)
  PROVE  MetaInv'
<1>1. CASE \E kind, h, name : Begin(p, kind, h, name)
  <2>1. /\ pc'[p] = "apply" /\ UNCHANGED <<meta, result>> /\ lock = None
        /\ \A q \in Proc \ {p} : pc'[q] = pc[q] /\ op'[q] = op[q]
    BY <1>1 DEF Begin, Inv, TypeOK
  <2>2. RecordInv(p)'
    BY <2>1 DEF RecordInv
  <2>3. \A q \in Proc : ~ Holding(q)
    BY <2>1, ProcFacts DEF Inv, LockInv
  <2> QED BY <2>1, <2>2, <2>3, MetaMoves
<1>2. CASE ApplyCreate(p) \/ ApplyRename(p) \/ ApplyStatus(p)
  <2>1. RecordInv(p)'
    BY <1>2, Applied DEF RecordInv
  <2>2. \A q \in Proc \ {p} : ~ Holding(q)
    BY <1>2, Applied, ProcFacts DEF Inv, LockInv
  <2> HIDE DEF Inv
  <2> QED BY <1>2, <2>1, <2>2, Applied, MetaMoves
<1> QED BY <1>1, <1>2

(* A process stops, and leaves what Leavings says.                         *)
LEMMA StopMeta ==
  ASSUME Inv, MetaInv, Next, NEW ps \in SUBSET Proc, NEW next, Leave(ps, next),
         next \notin Calling, Leavings(ps) \/ meta' = meta
  PROVE  MetaInv'
<1>1. \A q \in ps : RecordInv(q)'
  BY DEF Leave, RecordInv
<1>2. \A q \in Proc \ ps : /\ pc'[q] = pc[q] /\ op'[q] = op[q] /\ result'[q] = result[q]
                           /\ Holding(q) => mem' = mem
  BY DEF Leave, Inv, LockInv
<1>3. \A dir \in DOMAIN meta' :
         meta'[dir] \in Unfinished \/ (dir \in DOMAIN meta /\ meta'[dir] = meta[dir])
  BY DEF Leavings, Put, Unfinished
<1> QED BY <1>1, <1>2, <1>3, MetaMoves
(* A call past its closure goes on to another step of it.                  *)
LEMMA GoOnMeta ==
  ASSUME Inv, MetaInv, Next, NEW p \in Proc, TruncateTmp(p) \/ FillTmp(p) \/ AppendEvent(p)
  PROVE  MetaInv'
<1>1. UNCHANGED <<mem, meta>> /\ pc[p] \in {"write", "fill", "event"}
  BY DEF TruncateTmp, FillTmp, AppendEvent
<1>2. RecordInv(p)'
  <2>1. CASE AppendEvent(p) /\ op[p].kind # "create"
    <3>1. op[p].kind \in Kind
      BY <1>1 DEF Inv, CallInv, Calling, Call
    <3>2. pc'[p] \notin Calling
      BY <2>1, <3>1 DEF AppendEvent, NextAfterEvent, Returned, Kind, Calling, Inv, TypeOK
    <3> QED BY <3>2 DEF RecordInv
  <2>2. CASE ~ (AppendEvent(p) /\ op[p].kind # "create")
    <3>1. UNCHANGED <<op, result>> /\ pc'[p] \in {"write", "fill", "commit"} /\ Holding(p)
      BY <2>2 DEF TruncateTmp, FillTmp, AppendEvent, NextAfterEvent, Holding, Inv, TypeOK
    <3> QED BY <1>1, <3>1 DEF RecordInv, MetaInv, Holding, Calling
  <2> QED BY <2>1, <2>2
<1>3. ASSUME NEW q \in Proc \ {p}
      PROVE  RecordInv(q)' \/ (pc'[q] = pc[q] /\ op'[q] = op[q] /\ result'[q] = result[q])
  <2>1. op'[q] = op[q] /\ result'[q] = result[q]
    BY DEF TruncateTmp, FillTmp, AppendEvent, Inv, TypeOK
  <2>2. pc'[q] = pc[q] \/ pc'[q] = "child"
    BY DEF TruncateTmp, FillTmp, AppendEvent, Inv, TypeOK
  <2> QED BY <2>1, <2>2 DEF RecordInv, Calling
<1> QED BY <1>1, <1>2, <1>3, MetaMoves

LEMMA TruncateMetaMeta ==
  ASSUME Inv, MetaInv, Next, NEW p \in Proc, TruncateMeta(p)
  PROVE  MetaInv'
<1>1. /\ pc[p] = "meta" /\ pc'[p] = "metafill"
      /\ \A q \in Proc \ {p} : pc'[q] = pc[q]
      /\ UNCHANGED <<disk, mem, op, result>>
  BY DEF TruncateMeta, Inv, TypeOK
<1>2. RecordInv(p)'
  BY <1>1 DEF MetaInv, RecordInv, Holding, Reached, Calling
<1>3. \A dir \in DOMAIN meta' :
         meta'[dir] \in Unfinished \/ (dir \in DOMAIN meta /\ meta'[dir] = meta[dir])
  BY DEF TruncateMeta, Put, Unfinished
<1> HIDE DEF Inv, MetaInv
<1> QED BY <1>1, <1>2, <1>3, MetaMoves

LEMMA FillMetaMeta ==
  ASSUME Inv, MetaInv, Next, NEW p \in Proc, FillMeta(p)
  PROVE  MetaInv'
<1>1. /\ pc[p] = "metafill" /\ pc'[p] = "event"
      /\ \A q \in Proc \ {p} : pc'[q] = pc[q]
      /\ UNCHANGED <<disk, mem, op, result>>
  BY DEF FillMeta, Inv, TypeOK
<1>2. \A q \in Proc : Holding(q)' <=> Holding(q)
  BY <1>1 DEF Holding
<1>3. \A q \in Proc : RecordInv(q)'
  BY <1>1, <1>2 DEF MetaInv, RecordInv, Reached, Calling
<1>4. Reached(op[p].hash, result[p].status)
  <2>1. CASE Holding(p)
    <3>1. /\ op[p].kind = "create" /\ op[p] \in Call /\ op[p].hash \in Hash
          /\ Changed(p) /\ disk \in StateFile
      BY <1>1, <2>1 DEF Inv, TypeOK, CallInv, MemInv, Holding, Calling
    <3>2. result[p].status = "Starting"
      BY <1>1, <2>1, <3>1, CreatedRecord DEF MetaInv, RecordInv, Changed, Call, Calling
    <3> QED BY <3>2 DEF Reached, DeadStatus, LiveStatus
  <2>2. CASE ~ Holding(p)
    BY <1>1, <2>2 DEF MetaInv, RecordInv, Calling
  <2> QED BY <2>1, <2>2
<1>5. ASSUME NEW dir \in DOMAIN meta', meta'[dir] \notin Unfinished
      PROVE  Reached(dir[2], meta'[dir].status)
  <2>1. CASE dir = Dir(p)
    <3>1. meta'[dir] = result[p]
      BY <1>5, <2>1 DEF FillMeta, Put, Unfinished
    <3> QED BY <1>4, <2>1, <3>1 DEF Dir
  <2>2. CASE dir # Dir(p)
    BY <1>5, <2>2 DEF FillMeta, Put, MetaInv, MetaNeverAhead
  <2> QED BY <2>1, <2>2
<1>6. MetaNeverAhead'
  BY <1>1, <1>5 DEF MetaNeverAhead, Reached
<1> QED BY <1>3, <1>6 DEF MetaInv

LEMMA CommitMeta ==
  ASSUME Inv, MetaInv, Next, NEW p \in Proc, Commit(p)
  PROVE  MetaInv'
<1>1. /\ lock = p /\ Changed(p) /\ op[p] \in Call /\ op[p].hash \in Hash
      /\ disk' = mem /\ disk' \in StateFile
  BY Committed
<1>2. /\ pc[p] = "commit" /\ pc'[p] = NextAfterCommit(op[p].kind)
      /\ \A q \in Proc \ {p} : pc'[q] = pc[q]
      /\ UNCHANGED <<op, result, meta>>
  BY DEF Commit, Inv, TypeOK
<1>3. \A q \in Proc \ {p} : ~ Holding(q)
  BY <1>1 DEF Inv, LockInv
<1>4. RecordInv(p)'
  <2>1. CASE op[p].kind = "create"
    BY <1>2, <2>1 DEF NextAfterCommit, Returned, RecordInv, Calling
  <2>2. CASE op[p].kind # "create"
    <3>1. ~ Holding(p)'
      BY <1>2, <2>2 DEF NextAfterCommit, Holding
    <3>2. result[p] = disk'.sessions[op[p].hash]
      BY <1>1, <1>2 DEF MetaInv, RecordInv, Holding, Calling
    <3>3. Live(disk'.sessions, op[p].hash) => Known(disk'.sessions, op[p].hash)
      BY <1>1, KnownRecord
    <3>4. /\ result[p].status = "Live" => /\ Known(disk'.sessions, op[p].hash)
                                          /\ disk'.sessions[op[p].hash].status # "Starting"
          /\ result[p].status \in DeadStatus => Dead(disk'.sessions, op[p].hash)
      BY <3>2, <3>3 DEF Live, LiveStatus, Dead
    <3> QED BY <1>2, <3>1, <3>4 DEF RecordInv, Reached
  <2> QED BY <2>1, <2>2
<1> HIDE DEF Inv, MetaInv
<1> QED BY <1>2, <1>3, <1>4, MetaMoves

LEMMA LifeMeta ==
  ASSUME Inv, MetaInv, Next,
         \/ \E c \in Client : Spawn(c)
         \/ \E h \in Hash : ReturnOk(h) \/ ExitService(h) \/ CrashService(h)
  PROVE  MetaInv'
<1>1. ASSUME NEW c \in Client, Spawn(c) PROVE MetaInv'
  <2>1. PICK h \in Hash : h = op[c].hash
    BY <1>1, ProcFacts DEF Spawn, Inv, CallInv
  <2>2. /\ UNCHANGED <<mem, meta>> /\ pc'[c] \notin Calling /\ pc'[Main(h)] \notin Calling
        /\ \A q \in Proc \ {c, Main(h)} :
              pc'[q] = pc[q] /\ op'[q] = op[q] /\ result'[q] = result[q]
    BY <1>1, <2>1, ProcFacts DEF Spawn, Inv, TypeOK, Calling
  <2>3. RecordInv(c)' /\ RecordInv(Main(h))'
    BY <2>2 DEF RecordInv
  <2> QED BY <2>2, <2>3, MetaMoves
<1>2. ASSUME NEW h \in Hash, ReturnOk(h) PROVE MetaInv'
  <2>1. /\ UNCHANGED <<mem, meta>> /\ pc'[Main(h)] \notin Calling
        /\ \A q \in Proc \ {Main(h)} :
              pc'[q] = pc[q] /\ op'[q] = op[q] /\ result'[q] = result[q]
    BY <1>2, ProcFacts DEF ReturnOk, Inv, TypeOK, Calling
  <2>2. RecordInv(Main(h))'
    BY <2>1 DEF RecordInv
  <2> QED BY <2>1, <2>2, MetaMoves
<1>3. ASSUME NEW h \in Hash, ExitService(h) \/ CrashService(h) PROVE MetaInv'
  <2>1. /\ {Main(h), Wait(h)} \in SUBSET Proc /\ "gone" \notin Calling
        /\ Leave({Main(h), Wait(h)}, "gone") /\ Leavings({Main(h), Wait(h)})
    BY <1>3, ProcFacts DEF ExitService, CrashService, StopService, Calling
  <2> QED BY <2>1, StopMeta
<1> QED BY <1>1, <1>2, <1>3

LEMMA MetaStep == Inv /\ MetaInv /\ [Next]_vars => MetaInv'
<1> SUFFICES ASSUME Inv, MetaInv, [Next]_vars PROVE MetaInv'
  OBVIOUS
<1>1. ASSUME Next, NEW p \in Proc, Step(p) \/ Abandon(p) PROVE MetaInv'
  <2>1. CASE ApplyCreate(p) \/ ApplyRename(p) \/ ApplyStatus(p)
    BY <1>1, <2>1, CallMeta
  <2>2. CASE Reject(p) \/ Abandon(p)
    <3>1. Errored[op[p].kind] \notin Calling
      <4>1. op[p].kind \in Kind
        BY <2>2 DEF Reject, Abandon, Inv, CallInv, Calling, Call
      <4> QED BY <4>1 DEF Errored, Kind, Calling
    <3>2. Leave({p}, Errored[op[p].kind]) /\ (Leavings({p}) \/ meta' = meta)
      BY <2>2 DEF Reject, Abandon
    <3>3. {p} \in SUBSET Proc
      OBVIOUS
    <3> HIDE DEF Inv, MetaInv
    <3> QED BY <1>1, <3>1, <3>2, <3>3, StopMeta
  <2>3. CASE TruncateMeta(p) \/ FillMeta(p)
    BY <1>1, <2>3, TruncateMetaMeta, FillMetaMeta
  <2>4. CASE TruncateTmp(p) \/ FillTmp(p) \/ AppendEvent(p)
    BY <1>1, <2>4, GoOnMeta
  <2>5. CASE Commit(p)
    BY <1>1, <2>5, CommitMeta
  <2> QED BY <1>1, <2>1, <2>2, <2>3, <2>4, <2>5 DEF Step
<1>2. ASSUME Next,
             \/ \E c \in Client : BeginCreate(c) \/ BeginRename(c)
             \/ \E h \in Hash : MarkLive(h) \/ MarkFailed(h) \/ MarkExited(h)
      PROVE  MetaInv'
  <2>1. \E p \in Proc : \E kind, h, name : Begin(p, kind, h, name)
    BY <1>2, ProcFacts DEF BeginCreate, BeginRename, MarkLive, MarkFailed, MarkExited
  <2> QED BY <1>2, <2>1, CallMeta
<1>3. ASSUME Next,
             \/ \E c \in Client : Spawn(c)
             \/ \E h \in Hash : ReturnOk(h) \/ ExitService(h) \/ CrashService(h)
      PROVE  MetaInv'
  BY <1>3, LifeMeta
<1>4. CASE UNCHANGED vars
  <2>1. \A q \in Proc : pc'[q] = pc[q] /\ op'[q] = op[q] /\ result'[q] = result[q]
    BY <1>4 DEF vars
  <2>2. UNCHANGED <<mem, meta>>
    BY <1>4 DEF vars
  <2> HIDE DEF Inv, MetaInv
  <2> QED BY <2>1, <2>2, MetaMoves
<1> HIDE DEF Inv, MetaInv
<1> QED BY <1>1, <1>2, <1>3, <1>4 DEF Next

(* Whatever is interleaved, a meta.json that is whole never says more      *)
(* than state.json: live only of a session that has left Starting, and     *)
(* exited or failed only of one that is dead.  (That the two agree, when   *)
(* nobody is in a call, is what the run store_meta refutes.)               *)
THEOREM MetaBehind == Spec => []MetaNeverAhead
<1>1. Init => Inv /\ MetaInv
  <2>1. Init => MetaInv
    BY DEF Init, MetaInv, MetaNeverAhead, RecordInv, Calling
  <2> QED BY <2>1, InitInv
<1>2. (Inv /\ MetaInv) /\ [Next]_vars => (Inv /\ MetaInv)'
  BY NextInv, StutterInv, MetaStep
<1>3. Inv /\ MetaInv => MetaNeverAhead
  BY DEF MetaInv
<1> QED BY <1>1, <1>2, <1>3, PTL DEF Spec
-----------------------------------------------------------------------------
(* What the holder of the lock finds, and that it gets on.                 *)

(* update_session would fail for a session that is not in state.json, and  *)
(* overwrites whatever status it finds.  It finds the session, mark_live   *)
(* finds it Starting, and mark_exited no longer Starting.                  *)
UpdatesFindTheirSession ==
  \A p \in Proc : pc[p] = "apply" /\ op[p].kind \in DOMAIN StatusAfter =>
     LET h == op[p].hash IN
     /\ Known(mem.sessions, h)
     /\ op[p].kind = "live" => mem.sessions[h].status = "Starting"
     /\ op[p].kind = "exited" => mem.sessions[h].status # "Starting"

(* However the threads of a service and its crashes interleave with the    *)
(* other calls, a status update finds its session where the code assumes   *)
(* it.  It is why Refused need not say what update_session does otherwise. *)
THEOREM UpdatesAreLegal == Spec => []UpdatesFindTheirSession
<1>1. Inv /\ HistoryInv => UpdatesFindTheirSession
  <2> SUFFICES ASSUME Inv, HistoryInv, NEW p \in Proc,
                      pc[p] = "apply", op[p].kind \in DOMAIN StatusAfter
               PROVE  LET h == op[p].hash IN
                      /\ Known(mem.sessions, h)
                      /\ op[p].kind = "live" => mem.sessions[h].status = "Starting"
                      /\ op[p].kind = "exited" => mem.sessions[h].status # "Starting"
    BY DEF UpdatesFindTheirSession
  <2>1. Holding(p) /\ mem = disk /\ disk \in StateFile
    BY DEF Inv, TypeOK, MemInv, Holding
  <2>2. PICK h \in Hash :
           /\ op[p].hash = h
           /\ \/ p = Main(h) /\ op[p].kind \in {"live", "failed"}
              \/ p = Wait(h) /\ op[p].kind = "exited"
    BY CallRole, ProcFacts DEF StatusAfter, Calling
  <2>3. CASE p = Main(h) /\ op[p].kind \in {"live", "failed"}
    BY <2>1, <2>2, <2>3 DEF Inv, ServiceInv, Unborn
  <2>4. CASE p = Wait(h) /\ op[p].kind = "exited"
    <3>1. pc[Main(h)] # "off" /\ Known(disk.sessions, h)
      BY <2>4 DEF Inv, ServiceInv
    <3>2. disk.sessions[h].status # "Starting"
      BY <2>4, <3>1 DEF HistoryInv, StoryInv, Calling
    <3> QED BY <2>1, <2>2, <2>4, <3>1, <3>2
  <2> QED BY <2>2, <2>3, <2>4
<1> QED BY <1>1, HistoryInvariance, PTL

(* A step of another process moves p only if it starts the wait thread.    *)
LEMMA StepsOfOthers ==
  ASSUME Inv, NEW p \in Proc, NEW q \in Proc, Step(q), q # p, pc[p] \in Calling
  PROVE  pc'[p] = pc[p]
<1>1. CASE AppendEvent(q)
  <2>1. CASE op[q].kind = "live"
    <3>1. pc[q] \in Calling /\ op[q].kind = "live"
      BY <1>1, <2>1 DEF AppendEvent, Calling
    <3>2. PICK h \in Hash : q = Main(h) /\ op[q].hash = h
      BY <3>1, CallRole, ProcFacts
    <3>3. pc[Wait(h)] = "off"
      BY <3>1, <3>2 DEF Inv, ServiceInv, GoingLive
    <3>4. p # Wait(h)
      BY <3>3 DEF Calling
    <3> QED BY <1>1, <3>2, <3>4 DEF AppendEvent, Inv, TypeOK
  <2>2. CASE op[q].kind # "live"
    BY <1>1, <2>2 DEF AppendEvent, Inv, TypeOK
  <2> QED BY <2>1, <2>2
<1>2. CASE ApplyCreate(q) \/ ApplyRename(q) \/ ApplyStatus(q)
  BY <1>2 DEF ApplyCreate, ApplyRename, ApplyStatus, Apply, Inv, TypeOK
<1>3. CASE Reject(q)
  BY <1>3 DEF Reject, Leave
<1>4. CASE TruncateMeta(q) \/ FillMeta(q) \/ TruncateTmp(q) \/ FillTmp(q) \/ Commit(q)
  BY <1>4 DEF TruncateMeta, FillMeta, TruncateTmp, FillTmp, Commit, Inv, TypeOK
<1> QED BY <1>1, <1>2, <1>3, <1>4 DEF Step

(* How many steps of its own a call still holds the lock for, at most.     *)
StepsToUnlock ==
  [apply |-> 7, meta |-> 6, metafill |-> 5, event |-> 4, write |-> 3, fill |-> 2, commit |-> 1]

Advances(p) ==
  \/ lock' # p
  \/ pc'[p] = pc[p] /\ ~ Step(p)
  \/ pc'[p] \in DOMAIN StepsToUnlock /\ StepsToUnlock[pc'[p]] < StepsToUnlock[pc[p]]

HolderAdvances == [][\A p \in Proc : lock = p => Advances(p)]_vars

(* No step of anybody takes the holder of the lock back: it unlocks after  *)
(* at most seven steps of its own.  With UpdatesAreLegal, by which it has  *)
(* always one to take, this is the part of LockIsReleased that does not    *)
(* need fairness.                                                          *)
THEOREM HoldersAdvance == Spec => HolderAdvances
<1>1. ASSUME Inv, Next, NEW p \in Proc, lock = p PROVE Advances(p)
  <2>1. Holding(p) /\ pc[p] \in Calling
    BY <1>1 DEF Inv, LockInv, Holding, Calling
  <2>2. CASE Step(p)
    <3>1. CASE ApplyCreate(p) \/ ApplyRename(p) \/ ApplyStatus(p)
      <4>1. pc[p] = "apply" /\ pc'[p] \in {"meta", "write"}
        BY <1>1, <3>1, Applied
      <4> QED BY <4>1 DEF Advances, StepsToUnlock
    <3>2. CASE Reject(p)
      BY <1>1, <3>2, ProcFacts DEF Reject, Leave, Advances
    <3>3. CASE TruncateMeta(p) \/ FillMeta(p) \/ TruncateTmp(p) \/ FillTmp(p)
      <4>1. \/ pc[p] = "meta" /\ pc'[p] = "metafill"
            \/ pc[p] = "metafill" /\ pc'[p] = "event"
            \/ pc[p] = "write" /\ pc'[p] = "fill"
            \/ pc[p] = "fill" /\ pc'[p] = "commit"
        BY <1>1, <3>3 DEF TruncateMeta, FillMeta, TruncateTmp, FillTmp, Inv, TypeOK
      <4> QED BY <4>1 DEF Advances, StepsToUnlock
    <3>4. CASE AppendEvent(p)
      <4>1. pc[p] = "event" /\ pc'[p] = "write"
        BY <1>1, <2>1, <3>4 DEF AppendEvent, NextAfterEvent, Holding, Inv, TypeOK
      <4> QED BY <4>1 DEF Advances, StepsToUnlock
    <3>5. CASE Commit(p)
      BY <1>1, <3>5, ProcFacts DEF Commit, Advances
    <3> QED BY <2>2, <3>1, <3>2, <3>3, <3>4, <3>5 DEF Step
  <2>3. CASE ~ Step(p)
    <3> SUFFICES ASSUME lock' = p PROVE pc'[p] = pc[p]
      BY <2>3 DEF Advances
    <3>1. ASSUME NEW q \in Proc, Step(q) PROVE pc'[p] = pc[p]
      <4>1. q # p
        BY <2>3, <3>1
      <4> QED BY <1>1, <2>1, <3>1, <4>1, StepsOfOthers
    <3>2. ASSUME NEW q \in Proc, Abandon(q) PROVE pc'[p] = pc[p]
      BY <1>1, <3>2, ProcFacts DEF Abandon, Leave
    <3>3. CASE \/ \E c \in Client : BeginCreate(c) \/ BeginRename(c)
               \/ \E h \in Hash : MarkLive(h) \/ MarkFailed(h) \/ MarkExited(h)
      BY <1>1, <3>3, ProcFacts DEF BeginCreate, BeginRename, MarkLive, MarkFailed, MarkExited, Begin
    <3>4. ASSUME NEW c \in Client, Spawn(c) PROVE pc'[p] = pc[p]
      <4>1. pc[c] = "spawn" /\ pc[Main(op[c].hash)] = "off"
        BY <1>1, <3>4 DEF Spawn, Inv, SpawnInv
      <4>2. p # c /\ p # Main(op[c].hash)
        BY <2>1, <4>1 DEF Calling
      <4> QED BY <1>1, <3>4, <4>2 DEF Spawn, Inv, TypeOK
    <3>5. ASSUME NEW h \in Hash, ReturnOk(h) PROVE pc'[p] = pc[p]
      <4>1. p # Main(h)
        BY <2>1, <3>5 DEF ReturnOk, Calling
      <4> QED BY <1>1, <3>5, <4>1 DEF ReturnOk, Inv, TypeOK
    <3>6. ASSUME NEW h \in Hash, ExitService(h) \/ CrashService(h) PROVE pc'[p] = pc[p]
      BY <1>1, <3>6, ProcFacts DEF ExitService, CrashService, StopService, Leave
    <3> QED BY <1>1, <3>1, <3>2, <3>3, <3>4, <3>5, <3>6 DEF Next
  <2> QED BY <2>2, <2>3
<1>2. Inv /\ [Next]_vars => [\A p \in Proc : lock = p => Advances(p)]_vars
  <2> HIDE DEF Inv
  <2> QED BY <1>1
<1> QED BY <1>2, Invariance, PTL DEF Spec, HolderAdvances
=============================================================================
