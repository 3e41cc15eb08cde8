---------------------------- MODULE SwSmiProofs ----------------------------
(***************************************************************************)
(* What TLAPS proves of SwSmi, for every number of CPUs, every set of      *)
(* blocks and values, and whatever the callbacks do unless a theorem says  *)
(* otherwise.                                                              *)
(***************************************************************************)
EXTENDS SwSmi, ListLemmas

-----------------------------------------------------------------------------
(***************************************************************************)
(* The operations on the list of children                                  *)
(***************************************************************************)

LEMMA PositionProps ==
  ASSUME NEW r \in Registered
  PROVE  Position(r) \in DOMAIN db /\ db[Position(r)] = r
BY DEF Position, Registered, ToSet

\* A registration adds one child at the tail, with a value no other has.
LEMMA RegisterProps ==
  ASSUME DatabaseOK, NEW r \in Rec, Register(r)
  PROVE  /\ DatabaseOK'
         /\ r \notin Registered /\ Registered' = Registered \cup {r}
         /\ \A q \in Registered : value'[q] = value[q] /\ value[q] # value'[r]
         /\ \A a, b : InOrder(db, a, b) => InOrder(db, a, b)'
<1>1. PICK v \in Assigned : value' = [value EXCEPT ![r] = v]
  BY DEF Register
<1>2. v \in Below /\ SmiInputValueDuplicateCheck(v)
  BY SwAssumption DEF Assigned, FirstFree, Below
<1>3. /\ db' = Append(db, r) /\ r \notin Registered /\ ready' = ready
      /\ changes' = changes + 1 /\ changes < MaxChanges
  BY DEF Register, Counted
<1>4. db \in Seq(Rec) /\ Injective(db)
  BY DEF DatabaseOK, Injective, IsInjective
<1>5. db' \in Seq(Rec) /\ Registered' = Registered \cup {r} /\ Injective(db')
  BY <1>3, <1>4, AppendToList DEF Registered
<1>6. /\ value' \in [Rec -> Below] /\ value'[r] = v
      /\ \A q \in Registered : value'[q] = value[q] /\ value[q] # v
  BY <1>1, <1>2, <1>3 DEF DatabaseOK, SmiInputValueDuplicateCheck
<1>7. \A a, b : InOrder(db, a, b) => InOrder(db, a, b)'
  BY <1>3, <1>4, AppendKeepsOrder DEF InOrder
<1>8. changes' \in 0 .. MaxChanges
  BY <1>3, SwAssumption DEF DatabaseOK
<1> QED
  BY <1>3, <1>5, <1>6, <1>7, <1>8 DEF DatabaseOK, Injective, IsInjective

\* Unregistering takes one child out and leaves the others in their order.
LEMMA UnregisterProps ==
  ASSUME DatabaseOK, NEW r \in Rec, Unregister(r)
  PROVE  /\ DatabaseOK'
         /\ r \in Registered /\ Registered' = Registered \ {r}
         /\ value' = value
         /\ \A a, b : InOrder(db, a, b) /\ a # r /\ b # r => InOrder(db, a, b)'
<1>1. /\ db' = RemoveAt(db, Position(r)) /\ r \in Registered
      /\ ready' = ready /\ value' = value
      /\ changes' = changes + 1 /\ changes < MaxChanges
  BY DEF Unregister, Counted
<1>2. db \in Seq(Rec) /\ Injective(db)
  BY DEF DatabaseOK, Injective, IsInjective
<1>3. Position(r) \in DOMAIN db /\ db[Position(r)] = r
  BY <1>1, PositionProps
<1>4. db' \in Seq(Rec) /\ Registered' = Registered \ {r} /\ Injective(db')
  BY <1>1, <1>2, <1>3, RemoveFromList DEF Registered
<1>5. \A a, b : InOrder(db, a, b) /\ a # r /\ b # r => InOrder(db', a, b)
  BY <1>1, <1>2, <1>3, RemoveKeepsOrder
<1>6. changes' \in 0 .. MaxChanges
  BY <1>1, SwAssumption DEF DatabaseOK
<1> QED
  BY <1>1, <1>4, <1>5, <1>6 DEF DatabaseOK, Injective, IsInjective, InOrder

\* GetNextNode on a registered child yields the one after it or the list head.
LEMMA NextOfProps ==
  ASSUME DatabaseOK, NEW r \in Rec, NEW next \in NextOf(r)
  PROVE  /\ next \in Rec \cup {End}
         /\ r \in Registered =>
              /\ next \in Registered \cup {End}
              /\ next # End => InOrder(db, r, next)
              /\ \A b : InOrder(db, r, b) => next # End /\ (b = next \/ InOrder(db, next, b))
              /\ \A a : InOrder(db, a, r) /\ next # End => InOrder(db, a, next)
<1>1. CASE r \in Registered
  <2>1. Position(r) \in DOMAIN db /\ db[Position(r)] = r
    BY <1>1, PositionProps
  <2>2. /\ db \in Seq(Rec) /\ DOMAIN db = 1..Len(db) /\ Len(db) \in Nat /\ Injective(db)
    BY DEF DatabaseOK, Injective, IsInjective
  <2>3. CASE Position(r) = Len(db)
    <3>1. next = End
      BY <1>1, <2>3 DEF NextOf
    <3>2. \A b : InOrder(db, db[Position(r)], b) => Position(r) < Len(db)
      BY <2>1, <2>2, NextInOrder
    <3>3. ~(Position(r) < Len(db))
      BY <2>2, <2>3
    <3>4. \A b : ~InOrder(db, r, b)
      BY <2>1, <3>2, <3>3
    <3> QED
      BY <3>1, <3>4
  <2>4. CASE Position(r) # Len(db)
    <3>1. next = db[Position(r) + 1]
      BY <1>1, <2>4 DEF NextOf
    <3>2. Position(r) < Len(db) /\ Position(r) + 1 \in DOMAIN db
      BY <2>1, <2>2, <2>4
    <3>3. next \in Rec /\ next \in Registered /\ next # End
      BY <2>2, <3>1, <3>2, SwAssumption DEF Registered, ToSet
    <3>4. /\ \A b : InOrder(db, r, b) => b = next \/ InOrder(db, next, b)
          /\ \A a : InOrder(db, a, r) => InOrder(db, a, next)
          /\ InOrder(db, r, next)
      BY <2>1, <2>2, <3>1, <3>2, NextInOrder
    <3> QED
      BY <3>3, <3>4
  <2> QED
    BY <2>3, <2>4
<1>2. CASE r \notin Registered
  BY <1>2 DEF NextOf
<1> QED
  BY <1>1, <1>2

\* A walk starts at an entry before which there is none.
LEMMA FirstProps ==
  ASSUME DatabaseOK
  PROVE  /\ First \in Registered \cup {End} /\ First \in Rec \cup {End}
         /\ \A r \in Registered : First # End /\ (r = First \/ InOrder(db, First, r))
<1>1. db \in Seq(Rec) /\ DOMAIN db = 1..Len(db) /\ Len(db) \in Nat
  BY DEF DatabaseOK
<1>2. CASE db = <<>>
  BY <1>1, <1>2 DEF First, Registered, ToSet
<1>3. CASE db # <<>>
  <2>1. 1 \in DOMAIN db /\ First = db[1] /\ First \in Rec
    BY <1>1, <1>3 DEF First
  <2>2. First # End /\ First \in Registered
    BY <2>1, SwAssumption DEF Registered, ToSet
  <2>3. ASSUME NEW r \in Registered, r # First PROVE InOrder(db, First, r)
    <3>1. PICK i \in DOMAIN db : db[i] = r
      BY DEF Registered, ToSet
    <3>2. 1 < i
      BY <1>1, <2>1, <2>3, <3>1
    <3> QED
      BY <2>1, <3>1, <3>2 DEF InOrder
  <2> QED
    BY <2>1, <2>2, <2>3
<1> QED
  BY <1>2, <1>3

-----------------------------------------------------------------------------
(***************************************************************************)
(* Type correctness                                                        *)
(***************************************************************************)

\* What leaves a part of the state alone keeps that part's type.
LEMMA Unchanging ==
  /\ HardwareOK /\ UNCHANGED <<hw, io>> => HardwareOK'
  /\ SmmControlOK /\ UNCHANGED <<ctl, stale>> => SmmControlOK'
  /\ DatabaseOK /\ UNCHANGED core => DatabaseOK'
  /\ WalkOK /\ UNCHANGED <<walk, owed, called, cleared>> => WalkOK'
<1>1. HardwareOK /\ UNCHANGED <<hw, io>> => HardwareOK'
  BY DEF HardwareOK, hw
<1>2. SmmControlOK /\ UNCHANGED <<ctl, stale>> => SmmControlOK'
  BY DEF SmmControlOK, ctl
<1>3. DatabaseOK /\ UNCHANGED core => DatabaseOK'
  BY DEF DatabaseOK, core
<1>4. WalkOK /\ UNCHANGED <<walk, owed, called, cleared>> => WalkOK'
  BY DEF WalkOK, walk
<1> QED
  BY <1>1, <1>2, <1>3, <1>4

\* The PCH only drops EOS.
LEMMA SetProps ==
  ASSUME NEW en, en \subseteq SmiEnBit, smi \in BOOLEAN, Set(en)
  PROVE  /\ smiEn' \subseteq SmiEnBit /\ smi' \in BOOLEAN
         /\ smiEn' \ {"EOS"} = en \ {"EOS"}
BY DEF Set

\* A command keeps the types, by whichever way it is written.
LEMMA OutType ==
  ASSUME HardwareOK, NEW c \in Cpu, NEW v \in Command, Out(c, v)
  PROVE  HardwareOK' /\ smiEn' \ {"EOS"} = smiEn \ {"EOS"}
<1>1. apmSts' = TRUE /\ io' = [io EXCEPT ![c] = v] /\ Set(smiEn)
  BY DEF Out
<1>2. smiEn \subseteq SmiEnBit /\ smi \in BOOLEAN
  BY DEF HardwareOK
<1> QED
  BY <1>1, <1>2, SetProps DEF HardwareOK

LEMMA InitType == Init => TypeOK
<1> SUFFICES ASSUME Init PROVE TypeOK
  OBVIOUS
<1>1. HardwareOK
  BY DEF Init, HardwareOK, SmiEnBit
<1>2. SmmControlOK
  BY SwAssumption DEF Init, SmmControlOK, Command
<1>3. DatabaseOK
  <2>1. db \in Seq(Rec) /\ IsInjective(db)
    BY DEF Init, IsInjective
  <2>2. 0 \in Below /\ 0 \in 0 .. MaxChanges
    BY SwAssumption DEF Below
  <2>3. value \in [Rec -> Below]
    BY <2>2 DEF Init
  <2> QED
    BY <2>1, <2>2, <2>3 DEF Init, DatabaseOK
<1>4. WalkOK
  <2>1. 0 \in 0 .. NumberOfCpus
    BY SwAssumption
  <2> QED
    BY <2>1 DEF Init, WalkOK
<1> QED
  BY <1>1, <1>2, <1>3, <1>4 DEF TypeOK

\* The dispatcher keeps the types: CpuIndex stays below NumberOfCpus while a save state
\* is looked at.
LEMMA DispatcherType == TypeOK /\ Dispatcher => TypeOK'
<1> SUFFICES ASSUME TypeOK, Dispatcher
             PROVE  HardwareOK' /\ SmmControlOK' /\ DatabaseOK' /\ WalkOK'
  BY DEF TypeOK
<1>0. HardwareOK /\ SmmControlOK /\ DatabaseOK /\ WalkOK
  BY DEF TypeOK
<1>1. SmmControlOK' /\ DatabaseOK'
  <2>1. UNCHANGED <<ctl, stale>> /\ UNCHANGED core
    BY DEF Dispatcher, EnterSmm, StartsDispatcher, ReadSaveState, WalkOn, CallChild,
           CallbackReturns, WalkEnds, DispatcherReturns, ExitSmm, hist
  <2> QED
    BY <1>0, <2>1, Unchanging
<1>2. HardwareOK'
  BY <1>0 DEF HardwareOK, SmiEnBit, hw, Dispatcher, EnterSmm, StartsDispatcher,
     ReadSaveState, WalkOn, CallChild, CallbackReturns, WalkEnds, DispatcherReturns, ExitSmm
<1>3. WalkOK'
  <2> USE <1>0 DEF WalkOK
  <2>1. CASE EnterSmm
    BY <2>1 DEF EnterSmm, core
  <2>2. CASE StartsDispatcher
    BY <2>2, SwAssumption DEF StartsDispatcher, hist
  <2>3. CASE ReadSaveState
    BY <2>3, FirstProps, SwAssumption DEF ReadSaveState, MoreCpus, NextCpu, hist
  <2>4. CASE WalkOn
    <3>1. link \in Rec /\ link' \in NextOf(link)
      BY <2>4 DEF WalkOn
    <3>2. link' \in Rec \cup {End}
      BY <3>1, NextOfProps
    <3> QED
      BY <2>4, <3>2 DEF WalkOn, hist
  <2>5. CASE CallChild
    <3>1. cpuIndex \in Cpu
      BY <2>5, SwAssumption DEF CallChild, Cpu
    <3> QED
      BY <2>5, <3>1 DEF CallChild
  <2>6. CASE CallbackReturns
    <3>1. link' \in Rec \cup {End}
      BY <2>6, NextOfProps DEF CallbackReturns
    <3> QED
      BY <2>6, <3>1 DEF CallbackReturns, hist
  <2>7. CASE WalkEnds
    BY <2>7, SwAssumption DEF WalkEnds, NextCpu, hist
  <2>8. CASE DispatcherReturns
    BY <2>8 DEF DispatcherReturns, hist
  <2>9. CASE ExitSmm
    BY <2>9 DEF ExitSmm
  <2> QED
    BY <2>1, <2>2, <2>3, <2>4, <2>5, <2>6, <2>7, <2>8, <2>9 DEF Dispatcher
<1> QED
  BY <1>1, <1>2, <1>3

\* So does SmmControl.
LEMMA SmmControlType == TypeOK /\ (\E c \in Cpu : SmmControl(c)) => TypeOK'
<1> SUFFICES ASSUME TypeOK, NEW c \in Cpu, SmmControl(c)
             PROVE  HardwareOK' /\ SmmControlOK' /\ DatabaseOK' /\ WalkOK'
  BY DEF TypeOK
<1>0. HardwareOK /\ SmmControlOK /\ DatabaseOK /\ WalkOK
  BY DEF TypeOK
<1>1. DatabaseOK'
  BY <1>0, Unchanging DEF SmmControl, SmmClear, ReadSmiEn, WriteSmiEn, SmmTrigger
<1>2. WalkOK'
  BY <1>0 DEF WalkOK, walk, hist, SmmControl, SmmClear, ReadSmiEn, WriteSmiEn, SmmTrigger
<1>3. CASE SmmClear(c)
  BY <1>0, <1>1, <1>2, <1>3 DEF SmmClear, HardwareOK, SmmControlOK, Goto
<1>4. CASE ReadSmiEn(c)
  <2>1. HardwareOK'
    BY <1>0, <1>4, Unchanging DEF ReadSmiEn
  <2>2. data' \in [Cpu -> SUBSET SmiEnBit] /\ command' = command /\ stale' = stale
    BY <1>0, <1>4 DEF ReadSmiEn, HardwareOK, SmmControlOK, hist
  <2>3. prog' \in [Cpu -> {"idle", "clear", "readEos", "writeEos", "readEn", "writeEn", "out"}]
    BY <1>0, <1>4 DEF ReadSmiEn, SmmControlOK, Goto
  <2> QED
    BY <1>0, <1>1, <1>2, <2>1, <2>2, <2>3 DEF SmmControlOK
<1>5. CASE WriteSmiEn(c)
  <2>1. HardwareOK'
    <3>1. Written(c) \cup (smiEn \cap {"EOS"}) \subseteq SmiEnBit
      BY <1>0 DEF HardwareOK, SmmControlOK, Written, SmiEnBit
    <3>2. Set(Written(c) \cup (smiEn \cap {"EOS"}))
      BY <1>5 DEF WriteSmiEn
    <3>3. smiEn' \subseteq SmiEnBit /\ smi' \in BOOLEAN
      BY <1>0, <3>1, <3>2, SetProps DEF HardwareOK
    <3> QED
      BY <1>0, <1>5, <3>3 DEF HardwareOK, WriteSmiEn
  <2>2. data' \in [Cpu -> SUBSET SmiEnBit] /\ command' = command /\ stale' \subseteq Cpu
    BY <1>0, <1>5 DEF WriteSmiEn, SmmControlOK, Writers
  <2>3. prog' \in [Cpu -> {"idle", "clear", "readEos", "writeEos", "readEn", "writeEn", "out"}]
    BY <1>0, <1>5 DEF WriteSmiEn, SmmControlOK, Goto
  <2> QED
    BY <1>0, <1>1, <1>2, <2>1, <2>2, <2>3 DEF SmmControlOK
<1>6. CASE SmmTrigger(c)
  <2>1. Out(c, command[c]) /\ command[c] \in Command
    BY <1>0, <1>6 DEF SmmTrigger, SmmControlOK
  <2>2. HardwareOK'
    BY <1>0, <2>1, OutType
  <2>3. 0 \in Command
    BY SwAssumption DEF Command
  <2>4. SmmControlOK'
    BY <1>0, <1>6, <2>3 DEF SmmTrigger, SmmControlOK, Goto, hist
  <2> QED
    BY <1>1, <1>2, <2>2, <2>4
<1> QED
  BY <1>3, <1>4, <1>5, <1>6 DEF SmmControl

\* Registering and unregistering, by drivers and callbacks.
LEMMA ClientType ==
  TypeOK /\ (DriverChanges \/ CallbackRegisters \/ CallbackUnregisters) => TypeOK'
<1> SUFFICES ASSUME TypeOK, DriverChanges \/ CallbackRegisters \/ CallbackUnregisters
             PROVE  HardwareOK' /\ SmmControlOK' /\ DatabaseOK' /\ WalkOK'
  BY DEF TypeOK
<1>0. HardwareOK /\ SmmControlOK /\ DatabaseOK /\ WalkOK
  BY DEF TypeOK
<1>1. PICK r \in Rec : Register(r) \/ Unregister(r)
  BY DEF DriverChanges, CallbackRegisters, CallbackUnregisters
<1>2. DatabaseOK'
  BY <1>0, <1>1, RegisterProps, UnregisterProps
<1>3. HardwareOK' /\ SmmControlOK'
  BY <1>0, Unchanging DEF DriverChanges, CallbackRegisters, CallbackUnregisters
<1>4. owed' \subseteq owed
  BY <1>1 DEF Register, Unregister
<1>5. WalkOK'
  BY <1>0, <1>4 DEF WalkOK, walk, DriverChanges, CallbackRegisters, CallbackUnregisters
<1> QED
  BY <1>2, <1>3, <1>5

\* Every step keeps the types.
LEMMA NextType == TypeOK /\ [Next]_vars => TypeOK'
<1> SUFFICES ASSUME TypeOK, [Next]_vars PROVE TypeOK'
  OBVIOUS
<1>0. HardwareOK /\ SmmControlOK /\ DatabaseOK /\ WalkOK
  BY DEF TypeOK
<1>1. ASSUME NEW c \in Cpu, NEW v \in Command, WriteCommand(c, v) PROVE TypeOK'
  <2>1. HardwareOK'
    BY <1>0, <1>1, OutType DEF WriteCommand
  <2> QED
    BY <1>0, <1>1, <2>1, Unchanging DEF WriteCommand, hist, TypeOK
<1>2. ASSUME NEW c \in Cpu, OtherAccess(c) PROVE TypeOK'
  <2>1. HardwareOK'
    BY <1>0, <1>2 DEF OtherAccess, HardwareOK, hw
  <2> QED
    BY <1>0, <1>2, <2>1, Unchanging DEF OtherAccess, hist, TypeOK
<1>3. CASE OtherSmi
  <2>1. HardwareOK'
    BY <1>0, <1>3 DEF OtherSmi, HardwareOK
  <2> QED
    BY <1>0, <1>3, <2>1, Unchanging DEF OtherSmi, hist, TypeOK
<1>4. ASSUME NEW c \in Cpu, NEW v \in Command, Activate(c, v) PROVE TypeOK'
  <2>1. SmmControlOK'
    BY <1>0, <1>4 DEF Activate, Goto, SmmControlOK, hist
  <2> QED
    BY <1>0, <1>4, <2>1, Unchanging DEF Activate, hist, TypeOK
<1>5. CASE ChildToggles
  <2>1. HardwareOK'
    BY <1>0, <1>5 DEF ChildToggles, HardwareOK, SmiEnBit
  <2>2. SmmControlOK'
    BY <1>0, <1>5 DEF ChildToggles, SmmControlOK, ctl, Writers
  <2>3. DatabaseOK'
    BY <1>0, <1>5, SwAssumption DEF ChildToggles, Counted, DatabaseOK
  <2> QED
    BY <1>0, <1>5, <2>1, <2>2, <2>3, Unchanging DEF ChildToggles, TypeOK
<1>6. CASE SmmReadyToLock
  <2>1. DatabaseOK'
    BY <1>0, <1>6 DEF SmmReadyToLock, DatabaseOK
  <2> QED
    BY <1>0, <1>6, <2>1, Unchanging DEF SmmReadyToLock, hist, TypeOK
<1>7. CASE UNCHANGED vars
  BY <1>0, <1>7, Unchanging DEF vars, hist, TypeOK
<1> QED
  BY <1>1, <1>2, <1>3, <1>4, <1>5, <1>6, <1>7,
     DispatcherType, SmmControlType, ClientType DEF Next

\* Every variable keeps its type: CpuIndex never leaves the save states while one is
\* looked at (PchSmmSw.c:325-366), and the list of children holds each once.
THEOREM TypeCorrect == Spec => []TypeOK
BY InitType, NextType, PTL DEF Spec

-----------------------------------------------------------------------------
(***************************************************************************)
(* Values                                                                  *)
(***************************************************************************)

\* Only a registration adds a child, and the values of the others stay.
LEMMA ListStep ==
  ASSUME TypeOK, [Next]_vars
  PROVE  \/ UNCHANGED <<db, value>>
         \/ (pc \in {"core", "callback"}) /\ \E r \in Rec : Register(r) \/ Unregister(r)
<1>1. CASE DriverChanges
  BY <1>1 DEF DriverChanges
<1>2. CASE CallbackRegisters \/ CallbackUnregisters
  BY <1>2 DEF CallbackRegisters, CallbackUnregisters
<1>3. CASE Dispatcher
  BY <1>3 DEF Dispatcher, EnterSmm, StartsDispatcher, ReadSaveState, WalkOn, CallChild,
     CallbackReturns, WalkEnds, DispatcherReturns, ExitSmm, core
<1>4. CASE \E c \in Cpu : SmmControl(c)
  BY <1>4 DEF SmmControl, SmmClear, ReadSmiEn, WriteSmiEn, SmmTrigger, core
<1>5. CASE \E c \in Cpu : OtherAccess(c) \/ \E v \in Command : WriteCommand(c, v) \/ Activate(c, v)
  BY <1>5 DEF OtherAccess, WriteCommand, Activate, core
<1>6. CASE OtherSmi \/ ChildToggles \/ SmmReadyToLock \/ UNCHANGED vars
  BY <1>6 DEF OtherSmi, ChildToggles, SmmReadyToLock, vars, core
<1> QED
  BY <1>1, <1>2, <1>3, <1>4, <1>5, <1>6 DEF Next

LEMMA UniqueInductive == TypeOK /\ ValuesUnique /\ [Next]_vars => ValuesUnique'
<1> SUFFICES ASSUME TypeOK, ValuesUnique, [Next]_vars PROVE ValuesUnique'
  OBVIOUS
<1>0. DatabaseOK
  BY DEF TypeOK
<1>1. CASE UNCHANGED <<db, value>>
  BY <1>1 DEF ValuesUnique, Registered
<1>2. ASSUME NEW r \in Rec, Register(r) PROVE ValuesUnique'
  <2>1. /\ r \notin Registered /\ Registered' = Registered \cup {r}
        /\ \A q \in Registered : value'[q] = value[q] /\ value[q] # value'[r]
    BY <1>0, <1>2, RegisterProps
  <2> QED
    BY <2>1 DEF ValuesUnique
<1>3. ASSUME NEW r \in Rec, Unregister(r) PROVE ValuesUnique'
  <2>1. Registered' = Registered \ {r} /\ value' = value
    BY <1>0, <1>3, UnregisterProps
  <2> QED
    BY <2>1 DEF ValuesUnique
<1> QED
  BY <1>1, <1>2, <1>3, ListStep

\* No two children ever have one value (SmiInputValueDuplicateCheck and the search for a
\* free value, PchSmmSw.c:100-118, 170-197).
THEOREM UniqueValues == Spec => []ValuesUnique
<1>1. Init => ValuesUnique
  BY DEF Init, ValuesUnique, Registered, ToSet
<1> QED
  BY <1>1, TypeCorrect, UniqueInductive, PTL DEF Spec

-----------------------------------------------------------------------------
(***************************************************************************)
(* The enable bits of others                                               *)
(***************************************************************************)

\* What a CPU is about to write back is what the register has, and SW SMIs stay enabled.
DataFresh ==
  /\ "APMC" \in smiEn
  /\ \A c \in Writers : "APMC" \in data[c]
  /\ \A c \in Writers \ stale : ChildEn \in data[c] <=> ChildEn \in smiEn

LEMMA FreshUnchanged ==
  ASSUME DataFresh, UNCHANGED <<prog, data, stale>>, smiEn' \ {"EOS"} = smiEn \ {"EOS"}
  PROVE  DataFresh'
<1>1. ("APMC" \in smiEn' <=> "APMC" \in smiEn) /\ (ChildEn \in smiEn' <=> ChildEn \in smiEn)
  BY SwAssumption
<1> QED
  BY <1>1 DEF DataFresh, Writers

\* SmmTrigger and SmmClear write what they read, and what they mean to set.
LEMMA WriteFresh ==
  ASSUME TypeOK, DataFresh, NEW c \in Cpu, WriteSmiEn(c)
  PROVE  /\ DataFresh'
         /\ c \notin stale => (ChildEn \in smiEn <=> ChildEn \in smiEn')
<1>0. HardwareOK /\ SmmControlOK
  BY DEF TypeOK
<1>1. c \in Writers
  BY DEF WriteSmiEn, At, Writers
<1>2. smiEn' \ {"EOS"} = (Written(c) \cup (smiEn \cap {"EOS"})) \ {"EOS"}
  <2>1. Set(Written(c) \cup (smiEn \cap {"EOS"}))
    BY DEF WriteSmiEn
  <2>2. Written(c) \cup (smiEn \cap {"EOS"}) \subseteq SmiEnBit
    BY <1>0 DEF HardwareOK, SmmControlOK, Written, SmiEnBit
  <2> QED
    BY <1>0, <2>1, <2>2, SetProps DEF HardwareOK
<1>3. "APMC" \in smiEn'
  BY <1>1, <1>2 DEF DataFresh, Written
<1>4. ChildEn \in smiEn' <=> ChildEn \in data[c]
  BY <1>2, SwAssumption DEF Written
<1>5. /\ Writers' = Writers \ {c}
      /\ \A d \in Cpu \ {c} : data'[d] = data[d]
  <2>1. prog'[c] \notin {"writeEos", "writeEn"} /\ \A d \in Cpu \ {c} : prog'[d] = prog[d]
    BY <1>0 DEF WriteSmiEn, Goto, SmmControlOK, At
  <2>2. \A d \in Cpu \ {c} : data'[d] = data[d]
    BY <1>0 DEF WriteSmiEn, SmmControlOK
  <2> QED
    BY <2>1, <2>2 DEF Writers
<1>6. stale' = (IF c \in stale THEN Writers ELSE stale) \ {c}
  BY DEF WriteSmiEn
<1>7. CASE c \in stale
  <2>1. \A d \in Writers' : "APMC" \in data'[d]
    BY <1>5 DEF DataFresh, Writers
  <2>2. Writers' \ stale' = {}
    BY <1>5, <1>6, <1>7
  <2> QED
    BY <1>3, <1>7, <2>1, <2>2 DEF DataFresh
<1>8. CASE c \notin stale
  <2>1. ChildEn \in smiEn' <=> ChildEn \in smiEn
    BY <1>1, <1>4, <1>8 DEF DataFresh
  <2>2. \A d \in Writers' : "APMC" \in data'[d]
    BY <1>5 DEF DataFresh, Writers
  <2>3. \A d \in Writers' \ stale' : d \in Writers \ stale /\ data'[d] = data[d]
    BY <1>5, <1>6, <1>8 DEF Writers
  <2>4. \A d \in Writers' \ stale' : ChildEn \in data'[d] <=> ChildEn \in smiEn'
    BY <2>1, <2>3 DEF DataFresh
  <2> QED
    BY <1>3, <2>1, <2>2, <2>4 DEF DataFresh
<1> QED
  BY <1>7, <1>8

LEMMA ReadFresh ==
  ASSUME TypeOK, DataFresh, NEW c \in Cpu, ReadSmiEn(c)
  PROVE  DataFresh' /\ smiEn' = smiEn
<1>0. SmmControlOK
  BY DEF TypeOK
<1>1. /\ smiEn' = smiEn /\ stale' = stale
      /\ data' = [data EXCEPT ![c] = smiEn]
      /\ \E l \in {"writeEos", "writeEn"} : prog' = [prog EXCEPT ![c] = l]
  BY DEF ReadSmiEn, hw, hist, Goto
<1>2. /\ data'[c] = smiEn
      /\ \A d \in Cpu \ {c} : data'[d] = data[d] /\ prog'[d] = prog[d]
  BY <1>0, <1>1 DEF SmmControlOK
<1>3. \A d \in Writers' : d = c \/ (d \in Writers /\ data'[d] = data[d])
  BY <1>2 DEF Writers
<1> QED
  BY <1>1, <1>2, <1>3 DEF DataFresh

\* Both of what EnablesKept and NoneMissed rest on, step by step.
LEMMA FreshStep ==
  ASSUME TypeOK, DataFresh, [Next]_vars
  PROVE  /\ DataFresh'
         /\ pc = "os" /\ pc' = "os" /\ stale = {}
              => (ChildEn \in smiEn <=> ChildEn \in smiEn')
<1> DEFINE EosOnly == smiEn' \ {"EOS"} = smiEn \ {"EOS"}
<1>0. HardwareOK /\ SmmControlOK
  BY DEF TypeOK
<1>a. ASSUME EosOnly, UNCHANGED <<prog, data, stale>>
      PROVE  DataFresh' /\ (ChildEn \in smiEn <=> ChildEn \in smiEn')
  BY <1>a, FreshUnchanged, SwAssumption
<1>1. CASE \E c \in Cpu, v \in Command : WriteCommand(c, v)
  <2>1. EosOnly
    BY <1>0, <1>1, OutType DEF WriteCommand
  <2> QED
    BY <1>1, <1>a, <2>1 DEF WriteCommand, ctl, hist
<1>2. CASE \E c \in Cpu : OtherAccess(c)
  BY <1>2, <1>a DEF OtherAccess, hw, ctl, hist
<1>3. CASE OtherSmi
  BY <1>3, <1>a DEF OtherSmi, ctl, hist
<1>4. CASE \E c \in Cpu, v \in Command : Activate(c, v)
  <2>1. PICK c \in Cpu, v \in Command : Activate(c, v)
    BY <1>4
  <2>2. /\ smiEn' = smiEn /\ data' = data /\ stale' = stale
        /\ prog' = [prog EXCEPT ![c] = "clear"]
    BY <2>1 DEF Activate, hw, hist, Goto
  <2>3. Writers' \subseteq Writers
    BY <1>0, <2>2 DEF Writers, SmmControlOK
  <2> QED
    BY <2>2, <2>3 DEF DataFresh
<1>5. CASE \E c \in Cpu : SmmControl(c)
  <2>1. PICK c \in Cpu : SmmControl(c)
    BY <1>5
  <2>2. CASE SmmClear(c)
    <3>1. /\ smiEn' = smiEn /\ data' = data /\ stale' = stale
          /\ prog' = [prog EXCEPT ![c] = "readEos"]
      BY <2>2 DEF SmmClear, Goto
    <3>2. Writers' \subseteq Writers
      BY <1>0, <3>1 DEF Writers, SmmControlOK
    <3> QED
      BY <3>1, <3>2 DEF DataFresh
  <2>3. CASE ReadSmiEn(c)
    BY <2>3, ReadFresh
  <2>4. CASE WriteSmiEn(c)
    BY <2>4, WriteFresh
  <2>5. CASE SmmTrigger(c)
    <3>1. EosOnly
      BY <1>0, <2>5, OutType DEF SmmTrigger, SmmControlOK
    <3>2. /\ data' = data /\ stale' = stale /\ prog' = [prog EXCEPT ![c] = "idle"]
      BY <2>5 DEF SmmTrigger, Goto, hist
    <3>3. Writers' \subseteq Writers
      BY <1>0, <3>2 DEF Writers, SmmControlOK
    <3> QED
      BY <3>1, <3>2, <3>3, SwAssumption DEF DataFresh
  <2> QED
    BY <2>1, <2>2, <2>3, <2>4, <2>5 DEF SmmControl
<1>6. CASE ChildToggles
  <2>1. /\ "APMC" \in smiEn => "APMC" \in smiEn'
        /\ UNCHANGED <<prog, data>> /\ stale' = Writers /\ pc = "core"
    BY <1>6, SwAssumption DEF ChildToggles, ctl
  <2> QED
    BY <2>1 DEF DataFresh, Writers
<1>7. CASE DriverChanges \/ CallbackRegisters \/ CallbackUnregisters
  BY <1>7, <1>a DEF DriverChanges, CallbackRegisters, CallbackUnregisters, hw, ctl
<1>8. CASE SmmReadyToLock
  BY <1>8, <1>a DEF SmmReadyToLock, hw, ctl, hist
<1>9. CASE Dispatcher
  <2>1. EosOnly
    BY <1>9 DEF Dispatcher, EnterSmm, StartsDispatcher, ReadSaveState, WalkOn, CallChild,
       CallbackReturns, WalkEnds, DispatcherReturns, ExitSmm, hw
  <2>2. UNCHANGED <<prog, data, stale>>
    BY <1>9 DEF Dispatcher, EnterSmm, StartsDispatcher, ReadSaveState, WalkOn, CallChild,
       CallbackReturns, WalkEnds, DispatcherReturns, ExitSmm, ctl, hist
  <2> QED
    BY <1>a, <2>1, <2>2
<1>10. CASE UNCHANGED vars
  BY <1>10, <1>a DEF vars, hw, ctl, hist
<1> QED
  BY <1>1, <1>2, <1>3, <1>4, <1>5, <1>6, <1>7, <1>8, <1>9, <1>10 DEF Next

LEMMA FreshInit == Init => DataFresh
BY DEF Init, DataFresh, Writers

\* SmmTrigger and SmmClear leave the enable bits of SMM's children alone, unless SMM
\* changed them in between.
THEOREM KeepsEnables == Spec => EnablesKept
<1>1. TypeOK /\ DataFresh /\ [Next]_vars
        => [pc = "os" /\ pc' = "os" /\ stale = {}
              => (ChildEn \in smiEn <=> ChildEn \in smiEn')]_vars
  BY FreshStep
<1>2. TypeOK /\ DataFresh /\ [Next]_vars => DataFresh'
  BY FreshStep
<1> QED
  BY <1>1, <1>2, FreshInit, TypeCorrect, PTL DEF Spec, EnablesKept

-----------------------------------------------------------------------------
(***************************************************************************)
(* Every command is given to its child                                     *)
(***************************************************************************)

\* Outside a walk the status is set for a command that is not served yet.
StatusHolds ==
  /\ pc = "os" /\ ~cleared /\ (\E c \in Cpu : io[c] \in Command) => apmSts
  /\ pc = "core" /\ ~cleared /\ owed # {} => apmSts

\* A CPU to whose child the walk is still to come: it has not been looked at, or is and
\* the child is not behind the link.
Ahead(r) == r = link \/ InOrder(db, link, r)
StillToCome ==
  /\ pc = "os" => owed = {}
  /\ \A c \in owed : \E r \in Registered : value[r] = io[c]
  /\ pc \in {"cpu", "walk", "callback"} => \A c \in owed : c >= cpuIndex
  /\ pc = "callback" => cpuIndex \notin owed
  /\ pc = "walk" /\ cpuIndex \in owed =>
       link # End /\ \E r \in Registered : value[r] = io[cpuIndex] /\ Ahead(r)

MissInv == DataFresh /\ StatusHolds /\ StillToCome

\* The steps outside the dispatcher.
LEMMA OutsideMisses ==
  ASSUME TypeOK, MissInv,
         \/ \E c \in Cpu : \/ OtherAccess(c)
                            \/ SmmControl(c)
                            \/ \E v \in Command : WriteCommand(c, v) \/ Activate(c, v)
         \/ OtherSmi
  PROVE  StatusHolds' /\ StillToCome'
<1>0. HardwareOK /\ pc = "os"
  BY DEF TypeOK, OtherAccess, SmmControl, SmmClear, ReadSmiEn, WriteSmiEn, SmmTrigger,
     WriteCommand, Activate, OtherSmi, At, Out
<1>a. /\ UNCHANGED <<db, value, pc, cpuIndex, link, owed>>
      /\ cleared' = cleared \/ \E c \in Cpu : SmmClear(c)
  BY DEF OtherAccess, SmmControl, SmmClear, ReadSmiEn, WriteSmiEn, SmmTrigger,
     WriteCommand, Activate, OtherSmi, core, walk, hist
<1>b. (\E c \in Cpu : SmmClear(c)) => (cleared => cleared')
  BY DEF SmmClear
<1>1. UNCHANGED <<db, value, pc, cpuIndex, link, owed>> /\ (cleared => cleared')
  BY <1>a, <1>b
<1>2. StillToCome'
  BY <1>0, <1>1 DEF MissInv, StillToCome
<1>3. \/ apmSts'
      \/ ~apmSts' /\ (apmSts => cleared') /\
         \A c \in Cpu : io'[c] \in Command => io[c] \in Command
  <2>1. CASE \E c \in Cpu, v \in Command : WriteCommand(c, v)
    BY <2>1 DEF WriteCommand, Out
  <2>2. CASE \E c \in Cpu : OtherAccess(c)
    BY <1>0, <2>2, SwAssumption DEF OtherAccess, hw, HardwareOK
  <2>3. CASE OtherSmi
    BY <1>0, <2>3 DEF OtherSmi, HardwareOK
  <2>4. CASE \E c \in Cpu, v \in Command : Activate(c, v)
    BY <1>0, <2>4 DEF Activate, hw, HardwareOK
  <2>5. CASE \E c \in Cpu : SmmControl(c)
    BY <1>0, <2>5 DEF SmmControl, SmmClear, ReadSmiEn, WriteSmiEn, SmmTrigger, Out, hw, HardwareOK
  <2> QED
    BY <2>1, <2>2, <2>3, <2>4, <2>5
<1>4. StatusHolds'
  BY <1>0, <1>1, <1>3 DEF MissInv, StatusHolds
<1> QED
  BY <1>2, <1>4

\* Registrations and unregistrations: who is owed a call still has its child, and a child
\* ahead of the walk stays ahead.
LEMMA ClientMisses ==
  ASSUME TypeOK, MissInv, DriverChanges \/ CallbackRegisters \/ CallbackUnregisters
  PROVE  StatusHolds' /\ StillToCome'
<1>0. DatabaseOK /\ WalkOK
  BY DEF TypeOK
<1>1. /\ pc \in {"core", "callback"} /\ UNCHANGED <<apmSts, io, pc, cpuIndex, link, cleared>>
      /\ \E r \in Rec : Register(r) \/ Unregister(r)
  BY DEF DriverChanges, CallbackRegisters, CallbackUnregisters, hw, walk
<1>2. ASSUME NEW r \in Rec, Register(r) PROVE StatusHolds' /\ StillToCome'
  <2>1. owed' = owed /\ Registered' = Registered \cup {r}
        /\ \A q \in Registered : value'[q] = value[q]
    BY <1>0, <1>2, RegisterProps DEF Register
  <2> QED
    BY <1>1, <2>1 DEF MissInv, StatusHolds, StillToCome
<1>3. ASSUME NEW r \in Rec, Unregister(r) PROVE StatusHolds' /\ StillToCome'
  <2>1. /\ owed' = {c \in owed : io[c] # value[r]}
        /\ Registered' = Registered \ {r} /\ value' = value
    BY <1>0, <1>3, UnregisterProps DEF Unregister
  <2>2. \A c \in owed' : \E q \in Registered' : value'[q] = io'[c]
    BY <1>1, <2>1 DEF MissInv, StillToCome
  <2> QED
    BY <1>1, <2>1, <2>2 DEF MissInv, StatusHolds, StillToCome
<1> QED
  BY <1>1, <1>2, <1>3

\* The dispatcher: nobody is passed over.
LEMMA DispatcherMisses ==
  ASSUME TypeOK, MissInv, Dispatcher
  PROVE  StatusHolds' /\ StillToCome'
<1>0. HardwareOK /\ DatabaseOK /\ WalkOK
  BY DEF TypeOK
<1> USE DEF MissInv
<1>1. CASE EnterSmm
  <2>1. /\ pc = "os" /\ pc' = "core"
        /\ owed' = {c \in Cpu : io[c] \in Command /\ HasChild(io[c])}
        /\ UNCHANGED <<apmSts, io, db, value, cleared>>
    BY <1>1 DEF EnterSmm, core
  <2>2. StatusHolds'
    BY <2>1 DEF StatusHolds
  <2>3. Registered' = Registered
    BY <2>1 DEF Registered
  <2> QED
    BY <2>1, <2>2, <2>3 DEF StillToCome, HasChild
<1>2. CASE StartsDispatcher
  <2>1. /\ pc = "core" /\ pc' = "cpu" /\ cpuIndex' = 0
        /\ UNCHANGED <<apmSts, io, db, value, cleared, owed>>
    BY <1>2 DEF StartsDispatcher, hw, core, hist
  <2>2. \A c \in owed : c >= 0
    BY <1>0 DEF WalkOK, Cpu
  <2> QED
    BY <2>1, <2>2 DEF StatusHolds, StillToCome, Registered
<1>3. CASE ReadSaveState
  <2>1. /\ pc = "cpu" /\ UNCHANGED <<apmSts, io, db, value, cleared, owed>>
        /\ cpuIndex \in Cpu
    BY <1>0, <1>3, SwAssumption DEF ReadSaveState, MoreCpus, WalkOK, Cpu, hw, core, hist
  <2>2. CASE IsCommand(io[cpuIndex])
    <3>1. pc' = "walk" /\ link' = First /\ cpuIndex' = cpuIndex
      BY <1>3, <2>2 DEF ReadSaveState
    <3>2. \A r \in Registered : First # End /\ (r = First \/ InOrder(db, First, r))
      BY <1>0, FirstProps
    <3> QED
      BY <2>1, <3>1, <3>2 DEF StatusHolds, StillToCome, Registered, Ahead
  <2>3. CASE ~IsCommand(io[cpuIndex])
    <3>1. pc' = "cpu" /\ cpuIndex' = cpuIndex + 1
      BY <1>3, <2>1, <2>3 DEF ReadSaveState, NextCpu
    <3>2. cpuIndex \notin owed
      <4>1. \A r \in Registered : value[r] \in Command \ {MAXIMUM_SWI_VALUE}
        BY <1>0, SwAssumption DEF DatabaseOK, Registered, ToSet, Below, Command
      <4> QED
        BY <2>3, <4>1 DEF StillToCome, IsCommand
    <3>3. \A c \in owed : c >= cpuIndex + 1
      BY <1>0, <2>1, <3>2, SwAssumption DEF StillToCome, WalkOK, Cpu
    <3> QED
      BY <2>1, <3>1, <3>3 DEF StatusHolds, StillToCome, Registered
  <2> QED
    BY <2>2, <2>3
<1>4. CASE WalkOn
  <2>1. /\ pc = "walk" /\ pc' = "walk" /\ link # End /\ value[link] # io[cpuIndex]
        /\ link \in Rec /\ link' \in NextOf(link)
        /\ UNCHANGED <<apmSts, io, db, value, cleared, owed, cpuIndex>>
    BY <1>0, <1>4 DEF WalkOn, WalkOK, hw, core, hist
  <2>2. ASSUME cpuIndex \in owed
        PROVE  link' # End /\ \E r \in Registered : value[r] = io[cpuIndex] /\ Ahead(r)'
    <3>1. PICK r \in Registered : value[r] = io[cpuIndex] /\ Ahead(r)
      BY <2>1, <2>2 DEF StillToCome
    <3>2. InOrder(db, link, r)
      BY <2>1, <3>1 DEF Ahead
    <3>3. link \in Registered
      BY <3>2 DEF InOrder, Registered, ToSet
    <3>4. link' # End /\ (r = link' \/ InOrder(db, link', r))
      BY <1>0, <2>1, <3>2, <3>3, NextOfProps
    <3> QED
      BY <2>1, <3>1, <3>4 DEF Ahead
  <2> QED
    BY <2>1, <2>2 DEF StatusHolds, StillToCome, Registered
<1>5. CASE CallChild
  <2>1. /\ pc = "walk" /\ pc' = "callback" /\ owed' = owed \ {cpuIndex}
        /\ UNCHANGED <<apmSts, io, db, value, cleared, cpuIndex>>
    BY <1>5 DEF CallChild, hw, core
  <2> QED
    BY <2>1 DEF StatusHolds, StillToCome, Registered
<1>6. CASE CallbackReturns
  <2>1. /\ pc = "callback" /\ pc' = "walk"
        /\ UNCHANGED <<apmSts, io, db, value, cleared, owed, cpuIndex>>
    BY <1>6 DEF CallbackReturns, hw, core, hist
  <2> QED
    BY <2>1 DEF StatusHolds, StillToCome, Registered
<1>7. CASE WalkEnds
  <2>1. /\ pc = "walk" /\ link = End /\ pc' = "cpu" /\ cpuIndex' = cpuIndex + 1
        /\ UNCHANGED <<apmSts, io, db, value, cleared, owed>>
    BY <1>7 DEF WalkEnds, NextCpu, hw, core, hist
  <2>2. cpuIndex \notin owed
    BY <2>1 DEF StillToCome
  <2>3. \A c \in owed : c >= cpuIndex + 1
    BY <1>0, <2>1, <2>2, SwAssumption DEF StillToCome, WalkOK, Cpu
  <2> QED
    BY <2>1, <2>3 DEF StatusHolds, StillToCome, Registered
<1>8. CASE DispatcherReturns
  <2>1. /\ pc = "cpu" /\ pc' = "core" /\ ~(cpuIndex < NumberOfCpus)
        /\ UNCHANGED <<io, db, value, cleared, owed>>
    BY <1>8 DEF DispatcherReturns, MoreCpus, core, hist
  <2>2. owed = {}
    BY <1>0, <2>1, SwAssumption DEF StillToCome, WalkOK, Cpu
  <2> QED
    BY <2>1, <2>2 DEF StatusHolds, StillToCome
<1>9. CASE ExitSmm
  <2>1. /\ pc = "core" /\ ~(apmSts /\ "APMC" \in smiEn) /\ pc' = "os"
        /\ io' = [c \in Cpu |-> NoIo]
        /\ owed' = IF cleared THEN {} ELSE owed
    BY <1>9 DEF ExitSmm
  <2>2. owed' = {}
    BY <2>1 DEF DataFresh, StatusHolds
  <2>3. NoIo \notin Command
    BY SwAssumption
  <2> QED
    BY <2>1, <2>2, <2>3 DEF StatusHolds, StillToCome
<1> QED
  BY <1>1, <1>2, <1>3, <1>4, <1>5, <1>6, <1>7, <1>8, <1>9 DEF Dispatcher

LEMMA MissInductive == TypeOK /\ MissInv /\ [Next]_vars => MissInv'
<1> SUFFICES ASSUME TypeOK, MissInv, [Next]_vars PROVE StatusHolds' /\ StillToCome'
  BY FreshStep DEF MissInv
<1>1. CASE ChildToggles
  BY <1>1 DEF ChildToggles, walk, MissInv, StatusHolds, StillToCome, Registered
<1>2. CASE SmmReadyToLock
  BY <1>2 DEF SmmReadyToLock, hw, walk, hist, MissInv, StatusHolds, StillToCome, Registered
<1>3. CASE UNCHANGED vars
  BY <1>3 DEF vars, hw, core, walk, hist, MissInv, StatusHolds, StillToCome, Registered, Ahead
<1> QED
  BY <1>1, <1>2, <1>3, OutsideMisses, ClientMisses, DispatcherMisses DEF Next

\* No command is lost between the save states and the list, however the callbacks change
\* the list under the walk: when the CPUs leave SMM nobody is owed a call.
THEOREM NoCommandMissed == Spec => []NoneMissed
<1>1. Init => MissInv
  <2>1. Init => StatusHolds /\ StillToCome
    BY SwAssumption DEF Init, StatusHolds, StillToCome
  <2> QED
    BY <2>1, FreshInit DEF MissInv
<1>2. MissInv => NoneMissed
  BY DEF MissInv, StillToCome, NoneMissed
<1> QED
  BY <1>1, <1>2, TypeCorrect, MissInductive, PTL DEF Spec

-----------------------------------------------------------------------------
(***************************************************************************)
(* Nobody is called twice for a command                                    *)
(***************************************************************************)

\* A CPU that has had its call is done with, or the child called is behind the walk.
Behind(r) == link = End \/ InOrder(db, r, link)
OnceInv ==
  /\ CalledOnce
  /\ pc = "core" /\ apmSts => \A c \in Cpu : called[c] = 0
  /\ pc = "cpu" => \A c \in Cpu : c >= cpuIndex => called[c] = 0
  /\ pc \in {"walk", "callback"} => \A c \in Cpu : c > cpuIndex => called[c] = 0
  /\ pc = "walk" => link \in Registered \cup {End}
  /\ pc = "walk" /\ called[cpuIndex] # 0 =>
       \E r \in Registered : value[r] = io[cpuIndex] /\ Behind(r)
  /\ pc = "callback" => link \in Registered /\ value[link] = io[cpuIndex]

\* Outside SMM nothing of it matters.
LEMMA OutsideOnce ==
  ASSUME OnceInv, pc = "os", pc' \in {"os", "core"}, TypeOK,
         called' = called \/ called' = [c \in Cpu |-> 0],
         pc' = "core" => called' = [c \in Cpu |-> 0]
  PROVE  OnceInv'
BY DEF OnceInv, CalledOnce

LEMMA ClientOnce ==
  ASSUME "unregisterSelf" \notin CallbackOps, TypeOK, OnceInv,
         DriverChanges \/ CallbackRegisters \/ CallbackUnregisters
  PROVE  OnceInv'
<1>0. DatabaseOK /\ WalkOK
  BY DEF TypeOK
<1>1. /\ pc \in {"core", "callback"}
      /\ UNCHANGED <<apmSts, io, pc, cpuIndex, link, called>>
  BY DEF DriverChanges, CallbackRegisters, CallbackUnregisters, hw, walk
<1>2. pc = "callback" => link \in Registered' /\ value'[link] = value[link]
  <2>1. CASE pc = "core"
    BY <2>1
  <2>2. CASE pc = "callback"
    <3>1. PICK r \in Rec : Register(r) \/ (r # link /\ Unregister(r))
      BY <2>2 DEF DriverChanges, CallbackRegisters, CallbackUnregisters
    <3>2. link \in Registered
      BY <2>2 DEF OnceInv
    <3> QED
      BY <1>0, <3>1, <3>2, RegisterProps, UnregisterProps
  <2> QED
    BY <1>1, <2>1, <2>2
<1> QED
  BY <1>1, <1>2 DEF OnceInv, CalledOnce

LEMMA DispatcherOnce ==
  ASSUME "unregisterSelf" \notin CallbackOps, TypeOK, ValuesUnique, OnceInv, Dispatcher
  PROVE  OnceInv'
<1>0. HardwareOK /\ DatabaseOK /\ WalkOK
  BY DEF TypeOK
<1> USE DEF OnceInv, CalledOnce
<1>1. CASE EnterSmm
  BY <1>1, OutsideOnce DEF EnterSmm
<1>2. CASE StartsDispatcher
  BY <1>2 DEF StartsDispatcher, hw, core, hist
<1>3. CASE ReadSaveState
  <2>1. /\ pc = "cpu" /\ UNCHANGED <<apmSts, io, db, value, called>>
        /\ cpuIndex \in Cpu
        /\ \/ pc' = "walk" /\ link' = First /\ cpuIndex' = cpuIndex
           \/ pc' = "cpu" /\ cpuIndex' = cpuIndex + 1
    BY <1>0, <1>3, SwAssumption DEF ReadSaveState, MoreCpus, NextCpu, WalkOK, Cpu, hw, core, hist
  <2>2. /\ First \in Registered \cup {End} /\ Registered' = Registered
        /\ called[cpuIndex] = 0
        /\ \A c \in Cpu : c \in Int
        /\ \A c \in Cpu : (c > cpuIndex \/ c >= cpuIndex + 1) => c >= cpuIndex
    BY <1>0, <2>1, FirstProps, SwAssumption DEF Registered, Cpu
  <2> QED
    BY <2>1, <2>2
<1>4. CASE WalkOn \/ CallbackReturns
  <2>1. /\ pc \in {"walk", "callback"} /\ pc' = "walk" /\ link # End /\ link \in Rec
        /\ link' \in NextOf(link) /\ link \in Registered
        /\ UNCHANGED <<apmSts, io, db, value, cpuIndex, called>>
    BY <1>0, <1>4, SwAssumption DEF WalkOn, CallbackReturns, WalkOK, hw, core, hist
  <2>2. Registered' = Registered /\ link' \in Registered \cup {End}
    BY <1>0, <2>1, NextOfProps DEF Registered
  <2>3. ASSUME called[cpuIndex] # 0
        PROVE  \E r \in Registered : value[r] = io[cpuIndex] /\ Behind(r)'
    <3>1. CASE pc = "callback"
      <4>1. link' # End => InOrder(db, link, link')
        BY <1>0, <2>1, NextOfProps
      <4> QED
        BY <2>1, <3>1, <4>1 DEF Behind
    <3>2. CASE pc = "walk"
      <4>1. PICK r \in Registered : value[r] = io[cpuIndex] /\ Behind(r)
        BY <2>3, <3>2
      <4>2. link' # End => InOrder(db, r, link')
        BY <1>0, <2>1, <4>1, NextOfProps DEF Behind
      <4> QED
        BY <2>1, <4>1, <4>2 DEF Behind
    <3> QED
      BY <2>1, <3>1, <3>2
  <2> QED
    BY <2>1, <2>2, <2>3
<1>5. CASE CallChild
  <2>1. /\ pc = "walk" /\ pc' = "callback" /\ link # End /\ value[link] = io[cpuIndex]
        /\ called' = [called EXCEPT ![cpuIndex] = @ + 1]
        /\ UNCHANGED <<apmSts, io, db, value, cpuIndex, link>>
    BY <1>5 DEF CallChild, hw, core
  <2>2. cpuIndex \in Cpu /\ called \in [Cpu -> Nat] /\ link \in Registered
    BY <1>0, <2>1, SwAssumption DEF WalkOK, Cpu
  <2>3. called[cpuIndex] = 0
    <3>1. SUFFICES ASSUME called[cpuIndex] # 0 PROVE FALSE
      OBVIOUS
    <3>2. PICK r \in Registered : value[r] = io[cpuIndex] /\ Behind(r)
      BY <2>1, <3>1
    <3>3. r = link /\ InOrder(db, link, link)
      BY <2>1, <2>2, <3>2 DEF ValuesUnique, Behind
    <3>4. PICK i \in DOMAIN db : db[i] = link
      BY <2>2 DEF Registered, ToSet
    <3> QED
      BY <1>0, <3>3, <3>4, NextInOrder DEF DatabaseOK, Injective, IsInjective
  <2>4. /\ called'[cpuIndex] = 1
        /\ \A c \in Cpu : c # cpuIndex => called'[c] = called[c]
    BY <2>1, <2>2, <2>3
  <2>5. Registered' = Registered
    BY <2>1 DEF Registered
  <2>6. \A c \in Cpu : called'[c] <= 1
    BY <2>4
  <2>7. \A c \in Cpu : c > cpuIndex => called'[c] = 0
    BY <2>1, <2>2, <2>4 DEF Cpu
  <2> QED
    BY <2>1, <2>2, <2>5, <2>6, <2>7
<1>6. CASE WalkEnds
  <2>1. /\ pc = "walk" /\ pc' = "cpu" /\ cpuIndex' = cpuIndex + 1
        /\ UNCHANGED <<apmSts, called>>
    BY <1>6 DEF WalkEnds, NextCpu, hw, hist
  <2>2. \A c \in Cpu : c >= cpuIndex + 1 => c > cpuIndex
    BY <1>0, SwAssumption DEF WalkOK, Cpu
  <2> QED
    BY <2>1, <2>2
<1>7. CASE DispatcherReturns
  BY <1>7 DEF DispatcherReturns, hist
<1>8. CASE ExitSmm
  BY <1>8 DEF ExitSmm
<1> QED
  BY <1>1, <1>2, <1>3, <1>4, <1>5, <1>6, <1>7, <1>8 DEF Dispatcher

LEMMA OnceInductive ==
  ASSUME "unregisterSelf" \notin CallbackOps
  PROVE  TypeOK /\ ValuesUnique /\ OnceInv /\ [Next]_vars => OnceInv'
<1> SUFFICES ASSUME TypeOK, ValuesUnique, OnceInv, [Next]_vars PROVE OnceInv'
  OBVIOUS
<1>1. CASE \/ \E c \in Cpu : \/ OtherAccess(c)
                            \/ SmmControl(c)
                            \/ \E v \in Command : WriteCommand(c, v) \/ Activate(c, v)
           \/ OtherSmi
  <2>1. pc = "os" /\ pc' = "os" /\ called' = called
    BY <1>1 DEF OtherAccess, SmmControl, SmmClear, ReadSmiEn, WriteSmiEn, SmmTrigger,
       WriteCommand, Activate, OtherSmi, At, Out, walk, hist
  <2> QED
    BY <2>1, OutsideOnce
<1>2. CASE ChildToggles
  BY <1>2 DEF ChildToggles, walk, OnceInv, CalledOnce
<1>3. CASE SmmReadyToLock
  BY <1>3 DEF SmmReadyToLock, hw, walk, hist, OnceInv, CalledOnce
<1>4. CASE UNCHANGED vars
  BY <1>4 DEF vars, hw, core, walk, hist, OnceInv, CalledOnce, Registered, Behind
<1> QED
  BY <1>1, <1>2, <1>3, <1>4, ClientOnce, DispatcherOnce DEF Next

\* A command gets to one child at most, if no callback unregisters its own child: then its
\* link, which PchSmmSw.c:364 reads after the callback, is that of a freed block.
THEOREM OncePerCommand ==
  ASSUME "unregisterSelf" \notin CallbackOps
  PROVE  Spec => []CalledOnce
<1>1. Init => OnceInv
  <2>1. Init => pc = "os" /\ \A c \in Cpu : called[c] = 0
    BY DEF Init
  <2> QED
    BY <2>1 DEF OnceInv, CalledOnce
<1>2. OnceInv => CalledOnce
  BY DEF OnceInv
<1>3. TypeOK /\ ValuesUnique /\ OnceInv /\ [Next]_vars => OnceInv'
  BY OnceInductive
<1> QED
  BY <1>1, <1>2, <1>3, TypeCorrect, UniqueValues, PTL DEF Spec
=============================================================================
