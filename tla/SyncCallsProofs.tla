-------------------------- MODULE SyncCallsProofs --------------------------
(***************************************************************************)
(* Proofs about the synchronous API, for any number of calls of any kinds: *)
(* no callback of the safe kinds touches freed memory, every block is      *)
(* freed in the end, and a success that is reported is the caller's own.   *)
(***************************************************************************)
EXTENDS SyncCalls, TLAPS

(* The kinds whose callback reaches them through a block of their own.     *)
OwnKinds == {"single", "compound", "open", "opendir", "notify", "enum"}

(* The kinds that leave their block in place when they give up.            *)
PatientKinds == {"single", "compound", "open", "enum"}

IsPending(c) == op[c] \in {"first", "later"}

BlockType == [mem : {"none", "live", "freed"}, finished : BOOLEAN,
              status : {"zero", "ok", "error", "cancelled"}]

(* A call that has not begun has nothing.                                  *)
IdleCall(c) ==
    /\ phase[c] = "idle" => /\ kind[c] = "none" /\ op[c] = "none"
                            /\ result[c] = "none" /\ block[c].mem = "none"
    /\ kind[c] = "none" => phase[c] = "idle"

(* The callbacks of a handle find a call that used the handle.             *)
HolderCall(c) ==
    kind[c] \in HandleKinds /\ op[c] # "none"
        => holder \in Calls /\ kind[holder] \in HandleKinds

(* A call in wait_for_reply has its block, and nobody has cancelled it.    *)
WaitingCall(c) ==
    phase[c] = "waiting" /\ kind[c] \notin StaticKinds
        => block[c].mem = "live" /\ block[c].status # "cancelled"

(* What a block says comes from the operation of its call, which is over.  *)
OwnCall(c) ==
    kind[c] \in OwnKinds =>
        /\ block[c].finished \/ block[c].status = "ok" => op[c] = "done"
        /\ block[c].status = "ok" \/ result[c] = "ok"
               => op[c] = "done" /\ outcome[c] = "ok"

(* The block outlives the operation that will write to it.                 *)
PatientCall(c) ==
    kind[c] \in PatientKinds /\ IsPending(c) => block[c].mem = "live"

(* Who will free a block that is still there.                              *)
FreeingCall(c) ==
    block[c].mem = "live" =>
        /\ kind[c] \in {"close", "notify"} => phase[c] = "waiting"
        /\ kind[c] \in {"single", "compound"} =>
               \/ phase[c] = "waiting" /\ (block[c].finished \/ IsPending(c))
               \/ IsPending(c) /\ block[c].status = "cancelled"
               \/ op[c] = "lost"
               \/ MarkedTooLate(c)
        /\ kind[c] \notin StaticKinds

CallSound(c) ==
    /\ IdleCall(c) /\ HolderCall(c) /\ WaitingCall(c)
    /\ OwnCall(c) /\ PatientCall(c) /\ FreeingCall(c)

ContextSound ==
    /\ ctx \in {"closing", "destroyed"} => \A c \in Calls : phase[c] # "waiting"
    /\ ctx = "destroyed" => \A c \in Calls : ~IsPending(c)

MisusedSound ==
    \A c \in misused : kind[c] \in HandleKinds \cup {"opendir", "notify"}

IInv ==
    /\ TypeOK
    /\ block[Static].mem = "live"
    /\ \A c \in Calls : CallSound(c)
    /\ ContextSound
    /\ MisusedSound

-----------------------------------------------------------------------------
(* The type of a block after a callback, a give-up and a return.           *)
LEMMA BlockSteps ==
    ASSUME NEW m \in BlockType, NEW k, NEW st
    PROVE  /\ CalledBack(m, k, st) \in BlockType
           /\ Returned(m, k) \in BlockType
           /\ k \in AllKinds => Abandoned(m, k) \in BlockType
<1>1. CalledBack(m, k, st) \in BlockType
  BY DEF CalledBack, BlockType, StoredStatus
<1>2. Returned(m, k) \in BlockType
  BY DEF Returned, BlockType
<1>3. k \in AllKinds => Abandoned(m, k) \in BlockType
  BY DEF Abandoned, AllKinds, StaticKinds, BlockType
<1> QED BY <1>1, <1>2, <1>3

(* The types a step preserves, for use without the rest of TypeOK.         *)
LEMMA Types ==
    ASSUME TypeOK
    PROVE  /\ block \in [Blocks -> BlockType]
           /\ \A c \in Calls : /\ Block(c) \in Blocks /\ c \in Blocks
                               /\ c # Static /\ c \in Int
                               /\ kind[c] \in AllKinds \cup {"none"}
                               /\ kind[c] \in StaticKinds => Block(c) = Static
                               /\ kind[c] \notin StaticKinds => Block(c) = c
           /\ Static \in Blocks
  BY SyncAssumption DEF TypeOK, BlockType, Blocks, Block, Calls, Static

(* The type of the PDUs after smb2_free_pdu.                               *)
LEMMA PduSteps ==
    ASSUME TypeOK, NEW c \in Calls
    PROVE  /\ PduFreed(c) \in [Calls -> {"none", "live", "freed", "twice"}]
           /\ PduSwept(c) \in [Calls -> {"none", "live", "freed", "twice"}]
           /\ [pdu EXCEPT ![c] = "live"]
                  \in [Calls -> {"none", "live", "freed", "twice"}]
  BY DEF TypeOK, PduFreed, PduSwept

(* The block the callback of an operation writes to is the caller's own,   *)
(* that of the last user of the handle, or smb2->connect_cb_data.          *)
LEMMA TargetBlock ==
    ASSUME IInv, NEW c \in Calls, IsPending(c)
    PROVE  /\ Target(c) \in Calls
           /\ kind[c] \in HandleKinds => kind[Target(c)] \in HandleKinds
           /\ kind[c] \notin HandleKinds => Target(c) = c
           /\ Block(Target(c)) \in Blocks
           /\ kind[c] \in StaticKinds => Block(Target(c)) = Static
           /\ kind[c] \notin StaticKinds => Block(Target(c)) = Target(c)
<1>1. HolderCall(c) /\ op[c] # "none"
  BY DEF IInv, CallSound, IsPending
<1>2. TypeOK
  BY DEF IInv
<1> QED BY <1>1, <1>2, Types DEF Target, HolderCall, HandleKinds, StaticKinds

(* What a callback does to the blocks, call by call.                       *)
LEMMA DeliverBlocks ==
    ASSUME IInv, NEW c \in Calls, IsPending(c),
           NEW st \in {"ok", "error", "shutdown"}, Deliver(c, st)
    PROVE  /\ block' \in [Blocks -> BlockType]
           /\ block'[Static].mem = "live"
           /\ \A d \in Calls :
                  \/ d = Target(c) /\ block'[d] = CalledBack(block[d], kind[d], st)
                  \/ /\ block'[d] = block[d]
                     /\ d = c => kind[c] \in StaticKinds \cup HandleKinds
<1> DEFINE t == Target(c)
<1>0. TypeOK /\ block[Static].mem = "live"
  BY DEF IInv
<1>1. block \in [Blocks -> BlockType] /\ Static \in Blocks
  BY <1>0, Types
<1>2. t \in Calls /\ Block(t) \in Blocks
  BY TargetBlock
<1>3. block' = [block EXCEPT ![Block(t)] = CalledBack(block[Block(t)], kind[t], st)]
  BY DEF Deliver
<1>4. block' \in [Blocks -> BlockType]
  <2>1. CalledBack(block[Block(t)], kind[t], st) \in BlockType
    BY <1>1, <1>2, BlockSteps
  <2> HIDE DEF t
  <2> QED BY <1>1, <1>2, <1>3, <2>1
<1>5. block'[Static].mem = "live"
  <2>1. CASE Block(t) # Static
    <3> HIDE DEF t
    <3> QED BY <1>0, <1>1, <1>3, <2>1
  <2>2. CASE Block(t) = Static
    <3>1. kind[t] \in StaticKinds
      BY <1>2, <2>2, <1>0, Types
    <3>2. block'[Static] = CalledBack(block[Static], kind[t], st)
      BY <1>1, <1>3, <2>2
    <3>3. block[Static] \in BlockType
      BY <1>1
    <3> HIDE DEF t
    <3> QED BY <1>0, <3>1, <3>2, <3>3
            DEF CalledBack, BlockType, StaticKinds, FreedByCallback
  <2> QED BY <2>1, <2>2
<1>6. ASSUME NEW d \in Calls
      PROVE  \/ d = t /\ block'[d] = CalledBack(block[d], kind[d], st)
             \/ /\ block'[d] = block[d]
                /\ d = c => kind[c] \in StaticKinds \cup HandleKinds
  <2>1. d \in Blocks /\ d # Static
    BY <1>0, Types
  <2>2. CASE d = Block(t)
    <3>1. d = t
      BY <1>2, <2>1, <2>2, <1>0, Types
    <3>2. block'[d] = CalledBack(block[d], kind[t], st)
      BY <1>1, <1>3, <2>1, <2>2
    <3> QED BY <3>1, <3>2
  <2>3. CASE d # Block(t)
    <3>1. block'[d] = block[d]
      <4> HIDE DEF t
      <4> QED BY <1>1, <1>3, <2>1, <2>3
    <3>2. d = c => kind[c] \in StaticKinds \cup HandleKinds
      BY <2>3, TargetBlock
    <3> QED BY <3>1, <3>2
  <2> QED BY <2>2, <2>3
<1> QED BY <1>4, <1>5, <1>6

(* A callback keeps the invariant of every call.                           *)
LEMMA DeliverSound ==
    ASSUME IInv, NEW c \in Calls, IsPending(c),
           NEW st \in {"ok", "error", "shutdown"}, Deliver(c, st),
           UNCHANGED <<kind, phase, result, holder>>,
           st = "shutdown" => \A d \in Calls : phase[d] # "waiting"
    PROVE  /\ \A d \in Calls : CallSound(d)'
           /\ MisusedSound'
           /\ \A d \in Calls : IsPending(d)' => IsPending(d)
           /\ op' \in [Calls -> {"none", "first", "later", "done", "lost", "cancelled"}]
           /\ outcome' \in [Calls -> {"none", "ok", "error", "shutdown"}]
           /\ handle' \in {"open", "freed"}
           /\ misused' \subseteq Calls
<1>1. TypeOK /\ block \in [Blocks -> BlockType]
  BY Types DEF IInv
<1>2. /\ op' = [op EXCEPT ![c] = "done"]
      /\ outcome' = [outcome EXCEPT ![c] = st]
  BY DEF Deliver
<1>3. /\ op' \in [Calls -> {"none", "first", "later", "done", "lost", "cancelled"}]
      /\ outcome' \in [Calls -> {"none", "ok", "error", "shutdown"}]
      /\ \A d \in Calls : op'[d] = IF d = c THEN "done" ELSE op[d]
      /\ \A d \in Calls : outcome'[d] = IF d = c THEN st ELSE outcome[d]
  BY <1>1, <1>2 DEF TypeOK
<1>4. handle' \in {"open", "freed"} /\ misused' \subseteq Calls
  BY <1>1 DEF TypeOK, Deliver
<1>5. ASSUME NEW d \in Calls
      PROVE  CallSound(d)'
  <2>0. CallSound(d) /\ CallSound(c) /\ block[d] \in BlockType
    BY <1>1, Types DEF IInv
  <2>1. \/ d = Target(c) /\ block'[d] = CalledBack(block[d], kind[d], st)
        \/ /\ block'[d] = block[d]
           /\ d = c => kind[c] \in StaticKinds \cup HandleKinds
    BY DeliverBlocks
  <2>2. CASE block'[d] = block[d] /\ (d = c => kind[c] \in StaticKinds \cup HandleKinds)
    BY <1>3, <2>0, <2>2
       DEF CallSound, IdleCall, HolderCall, WaitingCall, OwnCall, PatientCall,
           FreeingCall, MarkedTooLate, IsPending, OwnKinds, PatientKinds, HandleKinds, StaticKinds
  <2>3. CASE d = Target(c) /\ block'[d] = CalledBack(block[d], kind[d], st)
    <3>1. CASE d # c
      <4>1. kind[d] \in HandleKinds
        BY <2>3, <3>1, TargetBlock
      <4>2. \/ block'[d] = block[d]
            \/ block[d].mem # "freed" /\ block[d].status = "cancelled" /\ block'[d].mem = "freed"
            \/ /\ block'[d].mem = block[d].mem
               /\ block'[d].status \in {"ok", "error"}
        BY <2>0, <2>3, <4>1 DEF CalledBack, BlockType, StoredStatus, HandleKinds, FreedByCallback
      <4> QED BY <1>3, <2>0, <3>1, <4>1, <4>2
       DEF CallSound, IdleCall, HolderCall, WaitingCall, OwnCall, PatientCall,
           FreeingCall, MarkedTooLate, IsPending, OwnKinds, PatientKinds, HandleKinds, StaticKinds
    <3>2. CASE d = c
      <4>1. phase[c] # "idle" /\ kind[c] # "none" /\ op[c] # "done"
        BY <2>0 DEF CallSound, IdleCall, IsPending
      <4>2. CASE Ignores(kind[c], st) \/ block[c].mem = "freed"
        <5>1. block'[d] = block[d] /\ (kind[c] \in {"close", "opendir"} \/ block[c].mem = "freed")
          BY <2>3, <3>2, <4>2 DEF CalledBack, Ignores
        <5> QED BY <1>3, <2>0, <3>2, <4>1, <4>2, <5>1
         DEF CallSound, IdleCall, HolderCall, WaitingCall, OwnCall, PatientCall,
             FreeingCall, MarkedTooLate, IsPending, OwnKinds, PatientKinds, HandleKinds, StaticKinds, Ignores
      <4>3. CASE /\ ~(Ignores(kind[c], st) \/ block[c].mem = "freed")
                 /\ block[c].status = "cancelled" /\ kind[c] \notin {"open", "opendir"}
        <5>1. /\ block'[d].finished = block[d].finished
              /\ block'[d].status = block[d].status
              /\ block'[d].mem = IF kind[c] \in FreedByCallback THEN "freed" ELSE block[d].mem
          BY <2>0, <2>3, <3>2, <4>3 DEF CalledBack, BlockType
        <5> QED BY <1>3, <2>0, <3>2, <4>1, <4>3, <5>1
         DEF CallSound, IdleCall, HolderCall, WaitingCall, OwnCall, PatientCall,
             FreeingCall, MarkedTooLate, IsPending, OwnKinds, PatientKinds, HandleKinds, StaticKinds, FreedByCallback
      <4>4. CASE /\ ~(Ignores(kind[c], st) \/ block[c].mem = "freed")
                 /\ ~(block[c].status = "cancelled" /\ kind[c] \notin {"open", "opendir"})
        <5>1. /\ block'[d].finished = TRUE
              /\ block'[d].status = IF st = "ok" THEN "ok" ELSE "error"
              /\ block'[d].mem = block[d].mem
          BY <2>0, <2>3, <3>2, <4>4 DEF CalledBack, BlockType, StoredStatus
        <5> QED BY <1>3, <2>0, <3>2, <4>1, <4>4, <5>1
         DEF CallSound, IdleCall, HolderCall, WaitingCall, OwnCall, PatientCall,
             FreeingCall, MarkedTooLate, IsPending, OwnKinds, PatientKinds, HandleKinds, StaticKinds
      <4> QED BY <4>2, <4>3, <4>4
    <3> QED BY <3>1, <3>2
  <2> QED BY <2>1, <2>2, <2>3
<1>6. MisusedSound'
  <2>1. CASE Misuses(c, st) /\ kind[c] \notin HandleKinds \cup {"opendir", "notify"}
    <3>1. Target(c) = c /\ block[Block(c)].mem = "freed"
      BY <2>1, TargetBlock DEF Misuses
    <3>2. kind[c] \in PatientKinds \/ kind[c] \in StaticKinds
      <4>1. kind[c] \in AllKinds \cup {"none"} /\ kind[c] # "none"
        BY <1>1, Types DEF IInv, CallSound, IdleCall, IsPending
      <4> QED BY <2>1, <4>1 DEF AllKinds, PatientKinds, StaticKinds, HandleKinds
    <3>3. block[Block(c)].mem = "live"
      BY <1>1, <3>2, Types DEF IInv, CallSound, PatientCall, PatientKinds, StaticKinds
    <3> QED BY <3>1, <3>3
  <2>2. CASE ~(Misuses(c, st) /\ kind[c] \notin HandleKinds \cup {"opendir", "notify"})
    <3>1. misused' = misused \cup (IF Misuses(c, st) THEN {c} ELSE {})
      BY DEF Deliver
    <3> QED BY <2>2, <3>1 DEF IInv, MisusedSound
  <2> QED BY <2>1, <2>2
<1>7. \A d \in Calls : IsPending(d)' => IsPending(d)
  BY <1>3 DEF IsPending
<1> QED BY <1>3, <1>4, <1>5, <1>6, <1>7

(* A step that changes the call c and its block only.                      *)
LEMMA OneCall ==
    ASSUME IInv, NEW c \in Calls,
           \A d \in Calls : d # c =>
               /\ kind'[d] = kind[d] /\ phase'[d] = phase[d]
               /\ result'[d] = result[d] /\ op'[d] = op[d]
               /\ outcome'[d] = outcome[d] /\ block'[d] = block[d],
           holder' = holder \/ (holder' = c /\ kind'[c] \in HandleKinds),
           kind'[c] = kind[c] \/ kind[c] \notin HandleKinds,
           CallSound(c)'
    PROVE  \A d \in Calls : CallSound(d)'
<1> SUFFICES ASSUME NEW d \in Calls, d # c PROVE CallSound(d)'
  OBVIOUS
<1>1. CallSound(d)
  BY DEF IInv
<1>2. HolderCall(d)'
  <2>1. CASE kind[d] \in HandleKinds /\ op[d] # "none"
    <3>1. holder \in Calls /\ kind[holder] \in HandleKinds
      BY <1>1, <2>1 DEF CallSound, HolderCall
    <3>2. kind'[holder] \in HandleKinds
      BY <3>1
    <3> QED BY <3>1, <3>2 DEF HolderCall
  <2>2. CASE ~(kind[d] \in HandleKinds /\ op[d] # "none")
    BY <2>2 DEF HolderCall
  <2> QED BY <2>1, <2>2
<1> QED BY <1>1, <1>2
    DEF CallSound, IdleCall, WaitingCall, OwnCall, PatientCall, FreeingCall, IsPending,
        MarkedTooLate

(* A call begins.                                                          *)
LEMMA StartSound ==
    ASSUME IInv, NEW c \in Calls, NEW k \in Kinds, Start(c, k) \/ StartFails(c, k)
    PROVE  IInv'
<1>1. /\ TypeOK /\ block \in [Blocks -> BlockType] /\ c \in Blocks /\ c # Static
      /\ Static \in Blocks /\ k \in AllKinds /\ block[Static].mem = "live"
  BY Types, SyncAssumption DEF IInv
<1>2. /\ MayStart(c, k) /\ kind' = [kind EXCEPT ![c] = k]
      /\ UNCHANGED <<outcome, handle, connected, ctx, misused>>
      /\ phase[c] = "idle" /\ ctx = "active"
  BY DEF Start, StartFails, MayStart
<1>3. CallSound(c) /\ kind[c] = "none" /\ op[c] = "none" /\ result[c] = "none"
      /\ block[c].mem = "none"
  BY <1>2 DEF IInv, CallSound, IdleCall
<1>4. k \in StaticKinds \/ k \in OwnKinds \/ k \in HandleKinds
  BY <1>1 DEF AllKinds, StaticKinds, OwnKinds, HandleKinds
<1>5. /\ kind' \in [Calls -> AllKinds \cup {"none"}]
      /\ \A d \in Calls : kind'[d] = IF d = c THEN k ELSE kind[d]
  BY <1>1, <1>2 DEF TypeOK
<1>6. CASE Start(c, k)
  <2>1. /\ phase' = [phase EXCEPT ![c] = "waiting"] /\ UNCHANGED result
        /\ op' = [op EXCEPT ![c] = "first"]
        /\ holder' = IF k \in HandleKinds THEN c ELSE holder
        /\ block' = IF k \in StaticKinds THEN block ELSE [block EXCEPT ![c] = Fresh]
    BY <1>6 DEF Start, BlockAtStart
  <2>2. Fresh \in BlockType
    BY DEF Fresh, BlockType
  <2>3. /\ block' \in [Blocks -> BlockType] /\ block'[Static] = block[Static]
        /\ \A d \in Calls : d # c => block'[d] = block[d]
        /\ block'[c] = IF k \in StaticKinds THEN block[c] ELSE Fresh
    BY <1>1, <2>1, <2>2
  <2>4. TypeOK'
    <3>1. /\ pdu' \in [Calls -> {"none", "live", "freed", "twice"}]
          /\ turn' \in {"top", "sweep", "service"}
      BY <1>1, <1>6, PduSteps DEF Start, TypeOK
    <3> QED BY <1>1, <1>2, <1>5, <2>1, <2>3, <3>1 DEF TypeOK, BlockType
  <2>5. CallSound(c)'
    <3>1. /\ phase'[c] = "waiting" /\ op'[c] = "first" /\ kind'[c] = k /\ result'[c] = "none"
          /\ k # "none" /\ (k \in HandleKinds => holder' = c)
      BY <1>1, <1>2, <1>3, <2>1 DEF TypeOK, AllKinds
    <3>2. k \notin StaticKinds => /\ block'[c].mem = "live" /\ block'[c].status = "zero"
                                  /\ block'[c].finished = FALSE
      BY <2>3 DEF Fresh
    <3>3. k \in StaticKinds => block'[c].mem = "none"
      BY <1>3, <2>3
    <3> QED BY <3>1, <3>2, <3>3
        DEF CallSound, IdleCall, HolderCall, WaitingCall, OwnCall, PatientCall,
           FreeingCall, MarkedTooLate, IsPending, OwnKinds, PatientKinds, HandleKinds, StaticKinds
  <2>6. \A d \in Calls : CallSound(d)'
    <3>1. \A d \in Calls : d # c =>
               /\ kind'[d] = kind[d] /\ phase'[d] = phase[d]
               /\ result'[d] = result[d] /\ op'[d] = op[d]
               /\ outcome'[d] = outcome[d] /\ block'[d] = block[d]
      BY <1>1, <1>2, <2>1, <2>3 DEF TypeOK
    <3>2. holder' = holder \/ (holder' = c /\ kind'[c] \in HandleKinds)
      BY <1>5, <2>1
    <3>3. kind[c] \notin HandleKinds
      BY <1>3 DEF HandleKinds
    <3> QED BY <2>5, <3>1, <3>2, <3>3, OneCall
  <2>7. ContextSound'
    BY <1>2 DEF ContextSound
  <2>8. MisusedSound'
    BY <1>1, <1>2, <1>3, <1>5 DEF IInv, MisusedSound, TypeOK, HandleKinds
  <2> QED BY <1>1, <2>3, <2>4, <2>6, <2>7, <2>8 DEF IInv
<1>7. CASE StartFails(c, k)
  <2>1. /\ phase' = [phase EXCEPT ![c] = "returned"]
        /\ result' = [result EXCEPT ![c] = "error"]
        /\ UNCHANGED <<op, holder, pdu, turn>>
        /\ block' = IF k \in StaticKinds THEN block
                    ELSE [block EXCEPT ![c] = [Fresh EXCEPT !.mem = "freed"]]
    BY <1>7 DEF StartFails
  <2>2. /\ [Fresh EXCEPT !.mem = "freed"] \in BlockType
        /\ [Fresh EXCEPT !.mem = "freed"].mem = "freed"
        /\ [Fresh EXCEPT !.mem = "freed"].finished = FALSE
        /\ [Fresh EXCEPT !.mem = "freed"].status = "zero"
    BY DEF Fresh, BlockType
  <2>3. /\ block' \in [Blocks -> BlockType] /\ block'[Static] = block[Static]
        /\ \A d \in Calls : d # c => block'[d] = block[d]
        /\ k \notin StaticKinds => /\ block'[c].mem = "freed" /\ block'[c].finished = FALSE
                                   /\ block'[c].status = "zero"
        /\ k \in StaticKinds => block'[c].mem = "none"
    BY <1>1, <1>3, <2>1, <2>2
  <2>4. TypeOK'
    BY <1>1, <1>2, <1>5, <2>1, <2>3 DEF TypeOK, BlockType
  <2>5. CallSound(c)'
    <3>1. /\ phase'[c] = "returned" /\ op'[c] = "none" /\ kind'[c] = k /\ result'[c] = "error"
          /\ k # "none"
      BY <1>1, <1>2, <1>3, <2>1 DEF TypeOK, AllKinds
    <3> QED BY <2>3, <3>1
        DEF CallSound, IdleCall, HolderCall, WaitingCall, OwnCall, PatientCall,
           FreeingCall, MarkedTooLate, IsPending, OwnKinds, PatientKinds, HandleKinds, StaticKinds
  <2>6. \A d \in Calls : CallSound(d)'
    <3>1. \A d \in Calls : d # c =>
               /\ kind'[d] = kind[d] /\ phase'[d] = phase[d]
               /\ result'[d] = result[d] /\ op'[d] = op[d]
               /\ outcome'[d] = outcome[d] /\ block'[d] = block[d]
      BY <1>1, <1>2, <2>1, <2>3 DEF TypeOK
    <3>2. holder' = holder /\ kind[c] \notin HandleKinds
      BY <1>3, <2>1 DEF HandleKinds
    <3> QED BY <2>5, <3>1, <3>2, OneCall
  <2>7. ContextSound'
    BY <1>2 DEF ContextSound
  <2>8. MisusedSound'
    BY <1>1, <1>2, <1>3, <1>5 DEF IInv, MisusedSound, TypeOK, HandleKinds
  <2> QED BY <1>1, <2>3, <2>4, <2>6, <2>7, <2>8 DEF IInv
<1> QED BY <1>6, <1>7

(* A call that gives up leaves its block to the callback, or frees it.     *)
LEMMA GiveUpSound ==
    ASSUME IInv, NEW c \in Calls, GiveUp(c), ctx = "active", ctx' \in {"active", "failed"}
    PROVE  IInv'
<1>1. /\ TypeOK /\ block \in [Blocks -> BlockType] /\ c \in Blocks /\ c # Static
      /\ Static \in Blocks /\ block[Static].mem = "live" /\ Block(c) \in Blocks
      /\ kind[c] \in StaticKinds => Block(c) = Static
      /\ kind[c] \notin StaticKinds => Block(c) = c
  BY Types, SyncAssumption DEF IInv
<1>2. /\ phase[c] = "waiting"
      /\ phase' = [phase EXCEPT ![c] = "returned"]
      /\ result' = [result EXCEPT ![c] = "error"]
      /\ block' = [block EXCEPT ![Block(c)] = Abandoned(block[Block(c)], kind[c])]
      /\ op' = IF kind[c] \in {"open", "opendir"} /\ op[c] = "first"
               THEN [op EXCEPT ![c] = "cancelled"] ELSE op
      /\ pdu' = PduFreed(c)
      /\ UNCHANGED <<kind, outcome, holder, handle, connected, misused, turn>>
  BY DEF GiveUp, Waiting, OpenKinds
<1>3. CallSound(c) /\ kind[c] \in AllKinds
  BY <1>1, <1>2 DEF IInv, CallSound, IdleCall, TypeOK
<1>4. Abandoned(block[Block(c)], kind[c]) \in BlockType
  BY <1>1, <1>3, BlockSteps
<1>5. /\ block' \in [Blocks -> BlockType]
      /\ block'[Block(c)] = Abandoned(block[Block(c)], kind[c])
      /\ \A b \in Blocks : b # Block(c) => block'[b] = block[b]
  BY <1>1, <1>2, <1>4
<1>6. block'[Static].mem = "live"
  <2>1. CASE kind[c] \in StaticKinds
    <3>1. block'[Static] = [block[Static] EXCEPT !.status = "cancelled"]
      BY <1>1, <1>5, <2>1 DEF Abandoned, StaticKinds
    <3> QED BY <1>1, <3>1 DEF BlockType
  <2>2. CASE kind[c] \notin StaticKinds
    BY <1>1, <1>5, <2>2
  <2> QED BY <2>1, <2>2
<1>7. /\ op' \in [Calls -> {"none", "first", "later", "done", "lost", "cancelled"}]
      /\ \A d \in Calls : d # c => op'[d] = op[d]
      /\ op'[c] = op[c] \/ (op'[c] = "cancelled" /\ kind[c] \in {"open", "opendir"} /\ op[c] = "first")
  BY <1>1, <1>2 DEF TypeOK
<1>8. TypeOK'
  <2>1. phase' \in [Calls -> {"idle", "waiting", "returned"}]
    BY <1>1, <1>2 DEF TypeOK
  <2>2. result' \in [Calls -> {"none", "ok", "error"}]
    BY <1>1, <1>2 DEF TypeOK
  <2>3. pdu' \in [Calls -> {"none", "live", "freed", "twice"}]
    BY <1>1, <1>2, PduSteps
  <2> QED BY <1>1, <1>2, <1>5, <1>7, <2>1, <2>2, <2>3 DEF TypeOK, BlockType
<1>9. CallSound(c)'
  <2>0. phase'[c] = "returned" /\ result'[c] = "error" /\ kind'[c] = kind[c]
        /\ outcome'[c] = outcome[c] /\ block[c] \in BlockType /\ block'[c] \in BlockType
    BY <1>1, <1>2, <1>5 DEF TypeOK
  <2>1. CASE kind[c] \in StaticKinds
    <3>1. block'[c] = block[c] /\ op'[c] = op[c]
      BY <1>1, <1>5, <1>7, <2>1 DEF StaticKinds
    <3> QED BY <1>2, <1>3, <2>0, <2>1, <3>1
        DEF CallSound, IdleCall, HolderCall, WaitingCall, OwnCall, PatientCall,
           FreeingCall, MarkedTooLate, IsPending, OwnKinds, PatientKinds, HandleKinds, StaticKinds
  <2>2. CASE kind[c] \in {"single", "compound", "fsync"}
    <3>1. block'[c] = [block[c] EXCEPT !.status = "cancelled"] /\ op'[c] = op[c]
      BY <1>1, <1>2, <1>5, <1>7, <2>2 DEF Abandoned, StaticKinds
    <3>2. block'[c].mem = block[c].mem /\ block'[c].status = "cancelled"
          /\ block'[c].finished = block[c].finished
      BY <2>0, <3>1 DEF BlockType
    <3> QED BY <1>2, <1>3, <2>0, <2>2, <3>1, <3>2
        DEF CallSound, IdleCall, HolderCall, WaitingCall, OwnCall, PatientCall,
           FreeingCall, MarkedTooLate, IsPending, OwnKinds, PatientKinds, HandleKinds, StaticKinds
  <2>3. CASE kind[c] \in {"close", "notify"}
    <3>1. block'[c] = [block[c] EXCEPT !.status = "cancelled", !.mem = "freed"] /\ op'[c] = op[c]
      BY <1>1, <1>2, <1>5, <1>7, <2>3 DEF Abandoned, StaticKinds
    <3>2. block'[c].mem = "freed" /\ block'[c].status = "cancelled"
          /\ block'[c].finished = block[c].finished
      BY <2>0, <3>1 DEF BlockType
    <3> QED BY <1>2, <1>3, <2>0, <2>3, <3>1, <3>2
        DEF CallSound, IdleCall, HolderCall, WaitingCall, OwnCall, PatientCall,
           FreeingCall, MarkedTooLate, IsPending, OwnKinds, PatientKinds, HandleKinds, StaticKinds
  <2>4. CASE kind[c] = "opendir"
    <3>1. block'[c] = [block[c] EXCEPT !.mem = "freed"]
      BY <1>1, <1>2, <1>5, <1>7, <2>4 DEF Abandoned, StaticKinds
    <3>2. block'[c].mem = "freed" /\ block'[c].status = block[c].status
          /\ block'[c].finished = block[c].finished
      BY <2>0, <3>1 DEF BlockType
    <3> QED BY <1>2, <1>3, <1>7, <2>0, <2>4, <3>1, <3>2
        DEF CallSound, IdleCall, HolderCall, WaitingCall, OwnCall, PatientCall,
           FreeingCall, MarkedTooLate, IsPending, OwnKinds, PatientKinds, HandleKinds, StaticKinds
  <2>5. CASE kind[c] \in {"enum", "open"}
    <3>1. block'[c] = block[c]
      BY <1>1, <1>2, <1>5, <1>7, <2>5 DEF Abandoned, StaticKinds
    <3> QED BY <1>2, <1>3, <1>7, <2>0, <2>5, <3>1
        DEF CallSound, IdleCall, HolderCall, WaitingCall, OwnCall, PatientCall,
           FreeingCall, MarkedTooLate, IsPending, OwnKinds, PatientKinds, HandleKinds, StaticKinds
  <2> QED BY <1>3, <2>1, <2>2, <2>3, <2>4, <2>5 DEF AllKinds, StaticKinds
<1>10. \A d \in Calls : CallSound(d)'
  <2>1. \A d \in Calls : d # c => d \in Blocks /\ d # Block(c)
    BY <1>1, Types
  <2>2. \A d \in Calls : d # c =>
             /\ kind'[d] = kind[d] /\ phase'[d] = phase[d]
             /\ result'[d] = result[d] /\ op'[d] = op[d]
             /\ outcome'[d] = outcome[d] /\ block'[d] = block[d]
    BY <1>1, <1>2, <1>5, <1>7, <2>1 DEF TypeOK
  <2>3. holder' = holder /\ kind'[c] = kind[c]
    BY <1>2
  <2> QED BY <1>9, <2>2, <2>3, OneCall
<1>11. ContextSound' /\ MisusedSound'
  BY <1>2 DEF IInv, ContextSound, MisusedSound
<1> QED BY <1>6, <1>8, <1>10, <1>11 DEF IInv

(* A call whose block says so returns, and reports what the block says.    *)
LEMMA ReturnSound ==
    ASSUME IInv, NEW c \in Calls, Return(c)
    PROVE  IInv'
<1>1. /\ TypeOK /\ block \in [Blocks -> BlockType] /\ c \in Blocks /\ c # Static
      /\ Static \in Blocks /\ block[Static].mem = "live" /\ Block(c) \in Blocks
      /\ kind[c] \in StaticKinds => Block(c) = Static
      /\ kind[c] \notin StaticKinds => Block(c) = c
  BY Types, SyncAssumption DEF IInv
<1>2. /\ phase[c] = "waiting" /\ block[Block(c)].finished
      /\ phase' = [phase EXCEPT ![c] = "returned"]
      /\ result' = [result EXCEPT ![c] =
                      IF block[Block(c)].status = "ok" THEN "ok" ELSE "error"]
      /\ block' = [block EXCEPT ![Block(c)] = Returned(block[Block(c)], kind[c])]
      /\ pdu' = PduFreed(c)
      /\ UNCHANGED <<kind, op, outcome, holder, handle, connected, ctx, misused, turn>>
  BY DEF Return, Waiting, Finished
<1>3. CallSound(c) /\ kind[c] \in AllKinds
  BY <1>1, <1>2 DEF IInv, CallSound, IdleCall, TypeOK
<1>4. Returned(block[Block(c)], kind[c]) \in BlockType
  BY <1>1, BlockSteps
<1>5. /\ block' \in [Blocks -> BlockType]
      /\ block'[Block(c)] = Returned(block[Block(c)], kind[c])
      /\ \A b \in Blocks : b # Block(c) => block'[b] = block[b]
  BY <1>1, <1>2, <1>4
<1>6. block'[Static].mem = "live"
  <2>1. CASE kind[c] \in StaticKinds
    BY <1>1, <1>5, <2>1 DEF Returned
  <2>2. CASE kind[c] \notin StaticKinds
    BY <1>1, <1>5, <2>2
  <2> QED BY <2>1, <2>2
<1>8. TypeOK'
  <2>1. phase' \in [Calls -> {"idle", "waiting", "returned"}]
    BY <1>1, <1>2 DEF TypeOK
  <2>2. result' \in [Calls -> {"none", "ok", "error"}]
    BY <1>1, <1>2 DEF TypeOK
  <2>3. pdu' \in [Calls -> {"none", "live", "freed", "twice"}]
    BY <1>1, <1>2, PduSteps
  <2> QED BY <1>1, <1>2, <1>5, <2>1, <2>2, <2>3 DEF TypeOK, BlockType
<1>9. CallSound(c)'
  <2>0. phase'[c] = "returned" /\ kind'[c] = kind[c] /\ op'[c] = op[c]
        /\ result'[c] = (IF block[Block(c)].status = "ok" THEN "ok" ELSE "error")
        /\ outcome'[c] = outcome[c] /\ block[c] \in BlockType /\ block'[c] \in BlockType
    BY <1>1, <1>2, <1>5 DEF TypeOK
  <2>1. CASE kind[c] \in StaticKinds
    <3>1. block'[c] = block[c]
      BY <1>1, <1>5, <2>1
    <3> QED BY <1>2, <1>3, <2>0, <2>1, <3>1
        DEF CallSound, IdleCall, HolderCall, WaitingCall, OwnCall, PatientCall,
           FreeingCall, MarkedTooLate, IsPending, OwnKinds, PatientKinds, HandleKinds, StaticKinds
  <2>2. CASE kind[c] \notin StaticKinds
    <3>1. /\ block'[c].status = block[c].status
          /\ block'[c].finished = block[c].finished
          /\ block'[c].mem = "freed" \/ (kind[c] \in {"open", "opendir"} /\ block'[c] = block[c])
      BY <1>1, <1>5, <2>0, <2>2 DEF Returned, BlockType
    <3>2. block[c].finished
      BY <1>1, <1>2, <2>2
    <3>3. IdleCall(c)' /\ HolderCall(c)' /\ WaitingCall(c)' /\ FreeingCall(c)'
      BY <1>2, <1>3, <2>0, <2>2, <3>1
      DEF CallSound, IdleCall, HolderCall, WaitingCall, OwnCall, PatientCall,
           FreeingCall, MarkedTooLate, IsPending, OwnKinds, PatientKinds, HandleKinds, StaticKinds
    <3>4. OwnCall(c)'
      BY <1>1, <1>3, <2>0, <2>2, <3>1 DEF CallSound, OwnCall
    <3>5. PatientCall(c)'
      <4>1. kind[c] \in PatientKinds => op[c] = "done"
        BY <1>3, <3>2 DEF CallSound, OwnCall, PatientKinds, OwnKinds
      <4> QED BY <2>0, <4>1 DEF PatientCall, IsPending
    <3> QED BY <3>3, <3>4, <3>5 DEF CallSound
  <2> QED BY <2>1, <2>2
<1>10. \A d \in Calls : CallSound(d)'
  <2>1. \A d \in Calls : d # c => d \in Blocks /\ d # Block(c)
    BY <1>1, Types
  <2>2. \A d \in Calls : d # c =>
             /\ kind'[d] = kind[d] /\ phase'[d] = phase[d]
             /\ result'[d] = result[d] /\ op'[d] = op[d]
             /\ outcome'[d] = outcome[d] /\ block'[d] = block[d]
    BY <1>1, <1>2, <1>5, <2>1 DEF TypeOK
  <2>3. holder' = holder /\ kind'[c] = kind[c]
    BY <1>2
  <2> QED BY <1>9, <2>2, <2>3, OneCall
<1>11. ContextSound' /\ MisusedSound'
  <2>1. \A d \in Calls : phase'[d] = "waiting" => phase[d] = "waiting"
    BY <1>1, <1>2 DEF TypeOK
  <2> QED BY <1>2, <2>1 DEF IInv, ContextSound, MisusedSound, IsPending
<1> QED BY <1>6, <1>8, <1>10, <1>11 DEF IInv

(* An operation of c ends or goes on, with the calls as they are.          *)
LEMMA EngineSound ==
    ASSUME IInv, NEW c \in Calls,
           \/ \E st \in {"ok", "error"} : Reply(c, st)
           \/ TimesOut(c) \/ Shutdown(c)
    PROVE  IInv'
<1>1. /\ UNCHANGED <<kind, phase, result, holder, ctx>>
      /\ IsPending(c) /\ ctx \in {"active", "closing"}
      /\ connected' \in BOOLEAN
      /\ pdu' \in [Calls -> {"none", "live", "freed", "twice"}]
      /\ turn' \in {"top", "sweep", "service"}
      /\ \/ \E st \in {"ok", "error", "shutdown"} :
               Deliver(c, st) /\ (st = "shutdown" => ctx = "closing")
         \/ Dropped(c)
  <2>1. /\ TypeOK /\ connected \in BOOLEAN /\ turn \in {"top", "sweep", "service"}
        /\ pdu \in [Calls -> {"none", "live", "freed", "twice"}]
    BY DEF IInv, TypeOK
  <2>2. PduSwept(c) \in [Calls -> {"none", "live", "freed", "twice"}]
    BY <2>1, PduSteps
  <2>3. CASE \E st \in {"ok", "error"} : Reply(c, st)
    BY <2>1, <2>3 DEF Reply, Pending, IsPending
  <2>4. CASE TimesOut(c)
    BY <2>1, <2>2, <2>4 DEF TimesOut, Pending, IsPending
  <2>5. CASE Shutdown(c)
    BY <2>1, <2>2, <2>5 DEF Shutdown, Pending, IsPending
  <2> QED BY <2>3, <2>4, <2>5
<1>2. TypeOK /\ ContextSound
  BY DEF IInv
<1>3. ASSUME NEW st \in {"ok", "error", "shutdown"}, Deliver(c, st),
             st = "shutdown" => ctx = "closing"
      PROVE  IInv'
  <2>0. st = "shutdown" => \A d \in Calls : phase[d] # "waiting"
    BY <1>2, <1>3 DEF ContextSound
  <2>1. block' \in [Blocks -> BlockType] /\ block'[Static].mem = "live"
    BY <1>1, <1>3, DeliverBlocks
  <2>2. /\ \A d \in Calls : CallSound(d)'
        /\ MisusedSound'
        /\ \A d \in Calls : IsPending(d)' => IsPending(d)
        /\ op' \in [Calls -> {"none", "first", "later", "done", "lost", "cancelled"}]
        /\ outcome' \in [Calls -> {"none", "ok", "error", "shutdown"}]
        /\ handle' \in {"open", "freed"}
        /\ misused' \subseteq Calls
    BY <1>1, <1>3, <2>0, DeliverSound
  <2>3. TypeOK'
    BY <1>1, <1>2, <2>1, <2>2 DEF TypeOK, BlockType
  <2>4. ContextSound'
    BY <1>1, <1>2, <2>2 DEF ContextSound
  <2> QED BY <2>1, <2>2, <2>3, <2>4 DEF IInv
<1>4. CASE Dropped(c)
  <2>1. /\ kind[c] = "compound" /\ op' = [op EXCEPT ![c] = "lost"]
        /\ UNCHANGED <<outcome, block, misused, handle>>
    BY <1>4 DEF Dropped
  <2>2. TypeOK'
    BY <1>1, <1>2, <2>1 DEF TypeOK
  <2>3. CallSound(c)'
    <3>1. CallSound(c) /\ op'[c] = "lost" /\ op[c] # "done" /\ op[c] # "none"
      BY <1>1, <1>2, <2>1 DEF IInv, TypeOK, IsPending
    <3> QED BY <1>1, <2>1, <3>1
        DEF CallSound, IdleCall, HolderCall, WaitingCall, OwnCall, PatientCall,
           FreeingCall, MarkedTooLate, IsPending, OwnKinds, PatientKinds, HandleKinds, StaticKinds
  <2>4. \A d \in Calls : CallSound(d)'
    <3>1. \A d \in Calls : d # c => op'[d] = op[d]
      BY <1>2, <2>1 DEF TypeOK
    <3>2. \A d \in Calls : d # c =>
               /\ kind'[d] = kind[d] /\ phase'[d] = phase[d]
               /\ result'[d] = result[d] /\ op'[d] = op[d]
               /\ outcome'[d] = outcome[d] /\ block'[d] = block[d]
      BY <1>1, <2>1, <3>1
    <3>3. holder' = holder /\ kind'[c] = kind[c]
      BY <1>1
    <3> QED BY <2>3, <3>2, <3>3, OneCall
  <2>5. ContextSound' /\ MisusedSound'
    BY <1>1, <1>2, <2>1 DEF IInv, ContextSound, MisusedSound
  <2> QED BY <2>1, <2>2, <2>4, <2>5 DEF IInv
<1> QED BY <1>1, <1>3, <1>4

(* smb2_opendir sends its next request.                                    *)
LEMMA NextRequestSound ==
    ASSUME IInv, NEW c \in Calls, NextRequest(c)
    PROVE  IInv'
<1>1. /\ ctx = "active" /\ kind[c] = "opendir" /\ op[c] = "first"
      /\ op' = [op EXCEPT ![c] = "later"]
      /\ turn' = "service"
      /\ UNCHANGED <<kind, phase, result, block, outcome, holder, handle,
                     connected, ctx, misused, pdu>>
  BY DEF NextRequest
<1>2. TypeOK
  BY DEF IInv
<1>3. TypeOK'
  BY <1>1, <1>2 DEF TypeOK
<1>4. CallSound(c)'
  <2>1. CallSound(c) /\ op'[c] = "later"
    BY <1>1, <1>2 DEF IInv, TypeOK
  <2> QED BY <1>1, <2>1
      DEF CallSound, IdleCall, HolderCall, WaitingCall, OwnCall, PatientCall,
           FreeingCall, MarkedTooLate, IsPending, OwnKinds, PatientKinds, HandleKinds, StaticKinds
<1>5. \A d \in Calls : CallSound(d)'
  <2>1. \A d \in Calls : d # c => op'[d] = op[d]
    BY <1>1, <1>2 DEF TypeOK
  <2>2. \A d \in Calls : d # c =>
             /\ kind'[d] = kind[d] /\ phase'[d] = phase[d]
             /\ result'[d] = result[d] /\ op'[d] = op[d]
             /\ outcome'[d] = outcome[d] /\ block'[d] = block[d]
    BY <1>1, <2>1
  <2>3. holder' = holder /\ kind'[c] = kind[c]
    BY <1>1
  <2> QED BY <1>4, <2>2, <2>3, OneCall
<1>6. ContextSound' /\ MisusedSound'
  BY <1>1 DEF IInv, ContextSound, MisusedSound
<1> QED BY <1>1, <1>3, <1>5, <1>6 DEF IInv

(* The transport and the context change, with the calls as they are.       *)
LEMMA ContextSteps ==
    ASSUME IInv, TransportUp \/ DestroyContext \/ ContextFreed \/ UNCHANGED vars
    PROVE  IInv'
<1>1. /\ UNCHANGED <<kind, phase, result, block, op, outcome, holder, handle, misused, pdu>>
      /\ connected' \in BOOLEAN /\ turn' \in {"top", "sweep", "service"}
      /\ \/ ctx' = ctx
         \/ ctx' = "closing" /\ \A c \in Calls : phase[c] # "waiting"
         \/ /\ ctx = "closing" /\ ctx' = "destroyed"
            /\ \A c \in Calls : ~IsPending(c)
  <2>0. connected \in BOOLEAN /\ turn \in {"top", "sweep", "service"}
    BY DEF IInv, TypeOK
  <2>1. CASE TransportUp
    BY <2>0, <2>1 DEF TransportUp
  <2>2. CASE DestroyContext
    BY <2>0, <2>2 DEF DestroyContext, Waiting
  <2>3. CASE ContextFreed
    BY <2>0, <2>3 DEF ContextFreed, Pending, IsPending
  <2>4. CASE UNCHANGED vars
    BY <2>0, <2>4 DEF vars
  <2> QED BY <2>1, <2>2, <2>3, <2>4
<1>2. TypeOK'
  BY <1>1 DEF IInv, TypeOK
<1>3. \A c \in Calls : CallSound(c)'
  <2> SUFFICES ASSUME NEW c \in Calls PROVE CallSound(c)'
    OBVIOUS
  <2>1. CallSound(c)
    BY DEF IInv
  <2> QED BY <1>1, <2>1
      DEF CallSound, IdleCall, HolderCall, WaitingCall, OwnCall, PatientCall,
          FreeingCall, IsPending, MarkedTooLate
<1>4. ContextSound'
  BY <1>1 DEF IInv, ContextSound, IsPending
<1>5. MisusedSound'
  BY <1>1 DEF IInv, MisusedSound
<1> QED BY <1>1, <1>2, <1>3, <1>4, <1>5 DEF IInv

(* The first state of a context.                                           *)
LEMMA InitSound == Init => IInv
<1> SUFFICES ASSUME Init PROVE IInv
  OBVIOUS
<1>1. /\ \A b \in Blocks : block[b] = IF b = Static THEN Fresh
                                      ELSE [Fresh EXCEPT !.mem = "none"]
      /\ Static \in Blocks /\ \A c \in Calls : c \in Blocks /\ c # Static
  <2>1. block = [b \in Blocks |-> IF b = Static THEN Fresh
                                  ELSE [Fresh EXCEPT !.mem = "none"]]
    BY DEF Init
  <2>2. Static \in Blocks /\ \A c \in Calls : c \in Blocks /\ c # Static
    BY SyncAssumption DEF Blocks, Calls, Static
  <2> QED BY <2>1, <2>2, Zenon
<1>2. /\ Fresh \in BlockType /\ [Fresh EXCEPT !.mem = "none"] \in BlockType
      /\ [Fresh EXCEPT !.mem = "none"].mem = "none" /\ Fresh.mem = "live"
  BY DEF Fresh, BlockType
<1>3. TypeOK
  <2>1. block \in [Blocks -> BlockType]
    BY <1>1, <1>2 DEF Init
  <2> QED BY <2>1 DEF Init, TypeOK, BlockType
<1>4. ASSUME NEW c \in Calls PROVE CallSound(c)
  <2>1. /\ kind[c] = "none" /\ phase[c] = "idle" /\ op[c] = "none" /\ result[c] = "none"
        /\ block[c].mem = "none"
    BY <1>1, <1>2 DEF Init
  <2> QED BY <2>1
      DEF CallSound, IdleCall, HolderCall, WaitingCall, OwnCall, PatientCall,
           FreeingCall, MarkedTooLate, IsPending, OwnKinds, PatientKinds, HandleKinds, StaticKinds
<1>5. ContextSound /\ MisusedSound
  BY DEF Init, ContextSound, MisusedSound
<1> QED BY <1>1, <1>2, <1>3, <1>4, <1>5 DEF IInv

(* What the invariant is for.                                              *)
LEMMA Consequences == IInv => TypeOK /\ BlocksSafe /\ BlocksFreed /\ OwnSuccess
<1> SUFFICES ASSUME IInv PROVE TypeOK /\ BlocksSafe /\ BlocksFreed /\ OwnSuccess
  OBVIOUS
<1>1. TypeOK /\ \A c \in Calls : CallSound(c) /\ kind[c] \in AllKinds \cup {"none"}
  BY Types DEF IInv
<1>2. BlocksSafe
  <2>1. \A c \in Waiting : block[Block(c)].mem = "live"
    BY <1>1, Types DEF IInv, Waiting, CallSound, WaitingCall
  <2> QED BY <2>1 DEF IInv, BlocksSafe, MisusedSound
<1>3. BlocksFreed
  <2> SUFFICES ASSUME ctx = "destroyed", NEW c \in Calls, block[c].mem = "live",
                      kind[c] \notin {"open", "opendir", "enum", "fsync"}
               PROVE  op[c] = "lost" \/ MarkedTooLate(c)
    BY DEF BlocksFreed
  <2>1. phase[c] # "waiting" /\ ~IsPending(c)
    BY DEF IInv, ContextSound
  <2>2. kind[c] \in {"single", "compound", "close", "notify", "none"} \/ kind[c] \in StaticKinds
    BY <1>1 DEF AllKinds, StaticKinds
  <2> QED BY <1>1, <2>1, <2>2 DEF CallSound, FreeingCall, IdleCall
<1>4. OwnSuccess
  <2> SUFFICES ASSUME NEW c \in Calls, result[c] = "ok",
                      kind[c] \notin StaticKinds \cup HandleKinds
               PROVE  outcome[c] = "ok"
    BY DEF OwnSuccess
  <2>1. kind[c] \in OwnKinds \/ kind[c] = "none"
    BY <1>1 DEF AllKinds, OwnKinds, StaticKinds, HandleKinds
  <2> QED BY <1>1, <2>1 DEF CallSound, OwnCall, IdleCall
<1> QED BY <1>1, <1>2, <1>3, <1>4

(* The inductive invariant of the synchronous API.                         *)
THEOREM SyncInvariant == Spec => []IInv
<1>1. IInv /\ [Next]_vars => IInv'
  <2> SUFFICES ASSUME IInv, [Next]_vars PROVE IInv'
    OBVIOUS
  <2>1. ASSUME NEW c \in Calls, NEW k \in Kinds, Start(c, k) \/ StartFails(c, k)
        PROVE  IInv'
    BY <2>1, StartSound
  <2>2. ASSUME NEW c \in Calls, PollFails(c) \/ NoConnection(c) \/ ServiceFails(c)
        PROVE  IInv'
    BY <2>2, GiveUpSound DEF PollFails, NoConnection, ServiceFails
  <2>3. ASSUME NEW c \in Calls, Return(c)
        PROVE  IInv'
    BY <2>3, ReturnSound
  <2>4. ASSUME NEW c \in Calls,
               (\E st \in {"ok", "error"} : Reply(c, st)) \/ TimesOut(c) \/ Shutdown(c)
        PROVE  IInv'
    BY <2>4, EngineSound
  <2>5. ASSUME NEW c \in Calls, NextRequest(c)
        PROVE  IInv'
    BY <2>5, NextRequestSound
  <2>6. CASE TransportUp \/ DestroyContext \/ ContextFreed \/ UNCHANGED vars
    BY <2>6, ContextSteps
  <2> QED BY <2>1, <2>2, <2>3, <2>4, <2>5, <2>6 DEF Next
<1> QED BY <1>1, InitSound, PTL DEF Spec

(* The calls of sync.c and their blocks keep their types.                  *)
THEOREM SyncTypes == Spec => []TypeOK
  BY SyncInvariant, Consequences, PTL

(* No callback of sync.c touches a freed sync_cb_data, and no call waits   *)
(* with one, but for the kinds that free theirs when they give up.         *)
THEOREM SyncBlocksSafe == Spec => []BlocksSafe
  BY SyncInvariant, Consequences, PTL

(* After smb2_destroy_context no sync_cb_data is left, but for the kinds   *)
(* that do not free theirs, chains dropped unsent, and calls that gave up  *)
(* in the turn of the loop that had run their callback.                    *)
THEOREM SyncBlocksFreed == Spec => []BlocksFreed
  BY SyncInvariant, Consequences, PTL

(* A call of sync.c returns success for its own operation only.            *)
THEOREM SyncOwnSuccess == Spec => []OwnSuccess
  BY SyncInvariant, Consequences, PTL
=============================================================================
