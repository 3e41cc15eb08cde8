-------------------------------- MODULE SwSmi --------------------------------
(***************************************************************************)
(* Software SMIs: how they are made (SmmControl/RuntimeDxe/                *)
(* SmmControlDriver.c) and how they are served (PchSmiDispatcher/Smm/      *)
(* PchSmmSw.c).                                                            *)
(*                                                                         *)
(* A CPU asks for a service by a byte written to port 0xB2, by itself or   *)
(* by the SmmControl protocol, which first clears what is pending and      *)
(* enables the SMI in a register it shares with SMM code. The PCH has one  *)
(* status bit for all CPUs; what each wrote is in its save state.          *)
(* PchSwSmiDispatcher, a child of PchSmmCore that is always there, goes    *)
(* through the save states and for each through the whole list of          *)
(* children, and calls the one registered for the byte. Callbacks may      *)
(* register and unregister children meanwhile.                             *)
(*                                                                         *)
(* All CPUs are in SMM before a handler runs and leave together, as        *)
(* gEfiSmmCpuProtocol's provider has it.                                   *)
(***************************************************************************)
EXTENDS Integers, SequencesExt, FiniteSetsExt

CONSTANTS
  NumberOfCpus,  \* gSmst->NumberOfCpus
  Rec,           \* the pool blocks of the SW_SMI_RECORDs
  End,           \* the list head
  NoIo,          \* a save state without IO information
  OtherIo,       \* one of another port, direction or width
  MAXIMUM_SWI_VALUE,  \* 0xFF, which SmmControl uses
  Activator,     \* CPUs that use the SmmControl protocol
  ChildEn,       \* the enable bit in SMI_EN of a source SMM turns on and off
  CallbackOps,   \* what callbacks do
  MaxChanges     \* bound: registrations and unregistrations

Cpu     == 0 .. NumberOfCpus - 1
Command == 0 .. MAXIMUM_SWI_VALUE

ASSUME SwAssumption ==
  /\ NumberOfCpus \in Nat \ {0}
  /\ MAXIMUM_SWI_VALUE \in Nat \ {0}
  /\ End \notin Rec
  /\ {NoIo, OtherIo} \cap Command = {} /\ NoIo # OtherIo
  /\ Activator \subseteq Cpu
  /\ ChildEn \notin {"APMC", "GBL", "EOS"}
  /\ CallbackOps \subseteq {"register", "unregisterSelf", "unregisterOther"}
  /\ MaxChanges \in Nat

VARIABLES
  \* the PCH and the CPUs
  smiEn,    \* SMI_EN: the bits set among APMC_EN, GBL_SMI_EN, EOS and ChildEn
  apmSts,   \* SMI_STS.APM_STS
  smi,      \* an SMI no CPU has entered SMM for yet
  io,       \* the IO information of every CPU's save state
  \* SmmControl
  prog,     \* where every CPU is
  command,  \* Data
  data,     \* OutputData: SMI_EN as it was read
  \* PchSmmSw
  ready,    \* mReadyToLock
  db,       \* mSwSmiCallbackDataBase
  value,    \* SwSmiInputValue of every block
  pc,
  cpuIndex, \* CpuIndex
  link,     \* LinkInDb
  changes,  \* bound
  \* history
  owed,     \* CPUs whose command has a child that is still to be called
  called,   \* how often a child was called for a CPU in this SMI
  cleared,  \* SmmControl has cleared the status of another CPU's command
  stale     \* CPUs that read SMI_EN before it was changed, and will write it

hw   == <<smiEn, apmSts, smi>>
ctl  == <<prog, command, data>>
core == <<ready, db, value, changes>>
walk == <<pc, cpuIndex, link>>
hist == <<owed, called, cleared, stale>>
vars == <<hw, io, ctl, core, walk, hist>>

Registered == ToSet(db)

-----------------------------------------------------------------------------
(***************************************************************************)
(* The PCH and the CPUs                                                    *)
(***************************************************************************)

Counted == changes < MaxChanges /\ changes' = changes + 1

\* The PCH asserts an SMI for a command, and drops EOS. To be conjoined with the new
\* value of the status.
Set(en) ==
  IF apmSts' /\ {"APMC", "GBL", "EOS"} \subseteq en
    THEN smi' = TRUE /\ smiEn' = en \ {"EOS"}
    ELSE smiEn' = en /\ UNCHANGED smi

\* A CPU writes to port 0xB2 and stops there for the SMI. Another may do so before the
\* SMI has reached it.
Out(c, v) ==
  /\ pc = "os" /\ io[c] = NoIo
  /\ io' = [io EXCEPT ![c] = v]
  /\ apmSts' = TRUE
  /\ Set(smiEn)

WriteCommand(c, v) ==
  /\ prog[c] = "idle"
  /\ Out(c, v)
  /\ UNCHANGED <<ctl, core, walk, hist>>

\* The SMI finds a CPU at other IO, a word written to port 0xB2 among it.
OtherAccess(c) ==
  /\ pc = "os" /\ smi /\ io[c] = NoIo
  /\ io' = [io EXCEPT ![c] = OtherIo]
  /\ UNCHANGED <<hw, ctl, core, walk, hist>>

\* The source of ChildEn asserts an SMI.
OtherSmi ==
  /\ pc = "os" /\ ~smi /\ {ChildEn, "GBL", "EOS"} \subseteq smiEn
  /\ smi' = TRUE /\ smiEn' = smiEn \ {"EOS"}
  /\ UNCHANGED <<apmSts, io, ctl, core, walk, hist>>

\* All CPUs are in SMM.
HasChild(v) == \E r \in Registered : value[r] = v
EnterSmm ==
  /\ pc = "os" /\ smi
  /\ smi' = FALSE
  /\ pc' = "core"
  /\ owed' = {c \in Cpu : io[c] \in Command /\ HasChild(io[c])}
  /\ called' = [c \in Cpu |-> 0]
  /\ UNCHANGED <<smiEn, apmSts, io, ctl, core, cpuIndex, link, cleared, stale>>

\* CPUs between reading SMI_EN and writing it.
Writers == {c \in Cpu : prog[c] \in {"writeEos", "writeEn"}}

\* Some other child of PchSmmCore turns its source on or off.
ChildToggles ==
  /\ pc = "core" /\ Counted
  /\ smiEn' = IF ChildEn \in smiEn THEN smiEn \ {ChildEn} ELSE smiEn \cup {ChildEn}
  /\ stale' = Writers
  /\ UNCHANGED <<apmSts, smi, io, ctl, ready, db, value, walk, owed, called, cleared>>

\* PchSmmCoreDispatcher finds the source active, or all done.
StartsDispatcher ==
  /\ pc = "core" /\ apmSts /\ "APMC" \in smiEn
  /\ pc' = "cpu" /\ cpuIndex' = 0
  /\ UNCHANGED <<hw, io, ctl, core, link, hist>>

\* It sets EOS and the CPUs go on.
ExitSmm ==
  /\ pc = "core" /\ ~(apmSts /\ "APMC" \in smiEn)
  /\ pc' = "os"
  /\ smiEn' = smiEn \cup {"EOS"}
  /\ io' = [c \in Cpu |-> NoIo]
  /\ owed' = IF cleared THEN {} ELSE owed
  /\ cleared' = FALSE
  /\ UNCHANGED <<apmSts, smi, ctl, core, cpuIndex, link, called, stale>>

-----------------------------------------------------------------------------
(***************************************************************************)
(* SmmControl: Activate, SmmClear, SmmTrigger                              *)
(***************************************************************************)

At(c, l) == pc = "os" /\ io[c] = NoIo /\ prog[c] = l
Goto(c, l) == prog' = [prog EXCEPT ![c] = l]

Activate(c, v) ==
  /\ At(c, "idle") /\ c \in Activator
  /\ command' = [command EXCEPT ![c] = v]
  /\ Goto(c, "clear")
  /\ UNCHANGED <<hw, io, data, core, walk, hist>>

SmmClear(c) ==
  /\ At(c, "clear")
  /\ apmSts' = FALSE
  /\ cleared' = (cleared \/ apmSts)
  /\ Goto(c, "readEos")
  /\ UNCHANGED <<smiEn, smi, io, command, data, core, walk, owed, called, stale>>

ReadSmiEn(c) ==
  /\ \/ At(c, "readEos") /\ Goto(c, "writeEos")
     \/ At(c, "readEn") /\ Goto(c, "writeEn")
  /\ data' = [data EXCEPT ![c] = smiEn]
  /\ UNCHANGED <<hw, io, command, core, walk, hist>>

\* What is written, after EOS was read and ORed, or APMC_EN and GBL_SMI_EN.
MutantOverwrites(c) == IF prog[c] = "writeEos" THEN data[c] \cup {"EOS"} ELSE {"APMC", "GBL"}
Written(c) == data[c] \cup IF prog[c] = "writeEos" THEN {"EOS"} ELSE {"APMC", "GBL"}

\* EOS is not cleared by writing 0.
WriteSmiEn(c) ==
  /\ \/ At(c, "writeEos") /\ Goto(c, "readEn")
     \/ At(c, "writeEn") /\ Goto(c, "out")
  /\ UNCHANGED apmSts
  /\ Set(Written(c) \cup (smiEn \cap {"EOS"}))
  /\ data' = [data EXCEPT ![c] = {}]
  /\ stale' = (IF c \in stale THEN Writers ELSE stale) \ {c}
  /\ UNCHANGED <<io, command, core, walk, owed, called, cleared>>

SmmTrigger(c) ==
  /\ At(c, "out")
  /\ Out(c, command[c])
  /\ Goto(c, "idle")
  /\ command' = [command EXCEPT ![c] = 0]
  /\ UNCHANGED <<data, core, walk, hist>>

-----------------------------------------------------------------------------
(***************************************************************************)
(* PchSwSmiRegister, PchSwSmiUnRegister                                    *)
(***************************************************************************)

MutantNotChecked(v) == TRUE
SmiInputValueDuplicateCheck(v) == \A r \in Registered : value[r] # v

\* The value a client gets that asks for any: the first that is not taken, from 1.
FirstFree ==
  {v \in 1 .. MAXIMUM_SWI_VALUE - 1 :
     /\ SmiInputValueDuplicateCheck(v)
     /\ \A w \in 1 .. v - 1 : ~SmiInputValueDuplicateCheck(w)}

\* The value asked for, or one for a client that asks for any.
Below == 0 .. MAXIMUM_SWI_VALUE - 1
Assigned == {v \in Below : SmiInputValueDuplicateCheck(v)} \cup FirstFree

Register(r) ==
  /\ ~ready /\ r \notin Registered /\ Counted
  /\ \E v \in Assigned : value' = [value EXCEPT ![r] = v]
  /\ db' = Append(db, r)
  /\ UNCHANGED <<ready, owed>>

Position(r) == CHOOSE i \in DOMAIN db : db[i] = r

Unregister(r) ==
  /\ ~ready /\ r \in Registered /\ Counted
  /\ db' = RemoveAt(db, Position(r))
  /\ owed' = {c \in owed : io[c] # value[r]}
  /\ UNCHANGED <<ready, value>>

\* Drivers in SMM.
DriverChanges ==
  /\ pc = "core"
  /\ \E r \in Rec : Register(r) \/ Unregister(r)
  /\ UNCHANGED <<hw, io, ctl, walk, called, cleared, stale>>

SmmReadyToLock ==
  /\ pc = "core" /\ ~ready
  /\ ready' = TRUE
  /\ UNCHANGED <<hw, io, ctl, db, value, changes, walk, hist>>

-----------------------------------------------------------------------------
(***************************************************************************)
(* PchSwSmiDispatcher                                                      *)
(***************************************************************************)

\* A byte written to 0xB2, that is not SmmControl's.
IsCommand(i) == i \in Command \ {MAXIMUM_SWI_VALUE}

First == IF db = <<>> THEN End ELSE db[1]

\* The body of the loop over the CPUs, up to the walk.
MutantFirstOnly == cpuIndex < NumberOfCpus /\ (\A c \in Cpu : called[c] = 0)
MoreCpus == cpuIndex < NumberOfCpus

MutantStays == cpuIndex
NextCpu == cpuIndex + 1

ReadSaveState ==
  /\ pc = "cpu" /\ MoreCpus
  /\ IF IsCommand(io[cpuIndex]) THEN pc' = "walk" /\ link' = First /\ UNCHANGED cpuIndex
     ELSE cpuIndex' = NextCpu /\ UNCHANGED <<pc, link>>
  /\ UNCHANGED <<hw, io, ctl, core, hist>>

\* GetNextNode, which is read after the callback. The link of a freed block, zeroed and
\* given back to the pool, may be anything.
MutantFromHead(r) == {First}
NextOf(r) ==
  IF r \in Registered
    THEN {IF Position(r) = Len(db) THEN End ELSE db[Position(r) + 1]}
    ELSE Rec \cup {End}

\* The walk goes on to the end of the list, past a child that was called.
WalkOn ==
  /\ pc = "walk" /\ link # End /\ value[link] # io[cpuIndex]
  /\ link' \in NextOf(link)
  /\ UNCHANGED <<hw, io, ctl, core, pc, cpuIndex, hist>>

CallChild ==
  /\ pc = "walk" /\ link # End /\ value[link] = io[cpuIndex]
  /\ pc' = "callback"
  /\ owed' = owed \ {cpuIndex}
  /\ called' = [called EXCEPT ![cpuIndex] = @ + 1]
  /\ UNCHANGED <<hw, io, ctl, core, cpuIndex, link, cleared, stale>>

CallbackRegisters ==
  /\ pc = "callback" /\ "register" \in CallbackOps
  /\ \E r \in Rec : Register(r)
  /\ UNCHANGED <<hw, io, ctl, walk, called, cleared, stale>>

CallbackUnregisters ==
  /\ pc = "callback"
  /\ \E r \in Rec :
       /\ IF r = link THEN "unregisterSelf" \in CallbackOps
                      ELSE "unregisterOther" \in CallbackOps
       /\ Unregister(r)
  /\ UNCHANGED <<hw, io, ctl, walk, called, cleared, stale>>

CallbackReturns ==
  /\ pc = "callback"
  /\ pc' = "walk"
  /\ link' \in NextOf(link)
  /\ UNCHANGED <<hw, io, ctl, core, cpuIndex, hist>>

WalkEnds ==
  /\ pc = "walk" /\ link = End
  /\ pc' = "cpu"
  /\ cpuIndex' = NextCpu
  /\ UNCHANGED <<hw, io, ctl, core, link, hist>>

\* PchSmmCore clears the status after its child has returned.
DispatcherReturns ==
  /\ pc = "cpu" /\ ~MoreCpus
  /\ pc' = "core"
  /\ apmSts' = FALSE
  /\ UNCHANGED <<smiEn, smi, io, ctl, core, cpuIndex, link, hist>>

\* After DisablePendingSmis and PchSwDispatchInit.
Init ==
  /\ smiEn = {"APMC", "GBL", "EOS"} /\ apmSts = FALSE /\ smi = FALSE
  /\ io = [c \in Cpu |-> NoIo]
  /\ prog = [c \in Cpu |-> "idle"] /\ command = [c \in Cpu |-> 0]
  /\ data = [c \in Cpu |-> {}]
  /\ ready = FALSE /\ db = <<>> /\ value = [r \in Rec |-> 0] /\ changes = 0
  /\ pc = "os" /\ cpuIndex = 0 /\ link = End
  /\ owed = {} /\ called = [c \in Cpu |-> 0] /\ cleared = FALSE /\ stale = {}

Dispatcher ==
  \/ EnterSmm
  \/ StartsDispatcher
  \/ ReadSaveState
  \/ WalkOn
  \/ CallChild
  \/ CallbackReturns
  \/ WalkEnds
  \/ DispatcherReturns
  \/ ExitSmm

SmmControl(c) ==
  \/ SmmClear(c)
  \/ ReadSmiEn(c)
  \/ WriteSmiEn(c)
  \/ SmmTrigger(c)

Next ==
  \/ \E c \in Cpu : \/ OtherAccess(c)
                    \/ SmmControl(c)
                    \/ \E v \in Command : WriteCommand(c, v) \/ Activate(c, v)
  \/ OtherSmi
  \/ ChildToggles
  \/ DriverChanges
  \/ SmmReadyToLock
  \/ CallbackRegisters
  \/ CallbackUnregisters
  \/ Dispatcher

Spec == Init /\ [][Next]_vars

\* An SMI is taken, handlers run to their end, callbacks return. A CPU gets on, between
\* SMIs.
FairSpec == Spec /\ WF_vars(Dispatcher) /\ \A c \in Cpu : SF_vars(SmmControl(c))

-----------------------------------------------------------------------------
(***************************************************************************)
(* Properties                                                              *)
(***************************************************************************)

SmiEnBit == {"APMC", "GBL", "EOS", ChildEn}

HardwareOK ==
  /\ smiEn \subseteq SmiEnBit /\ apmSts \in BOOLEAN /\ smi \in BOOLEAN
  /\ io \in [Cpu -> Command \cup {NoIo, OtherIo}]

SmmControlOK ==
  /\ prog \in [Cpu -> {"idle", "clear", "readEos", "writeEos", "readEn", "writeEn", "out"}]
  /\ command \in [Cpu -> Command]
  /\ data \in [Cpu -> SUBSET SmiEnBit]
  /\ stale \subseteq Cpu

DatabaseOK ==
  /\ ready \in BOOLEAN
  /\ db \in Seq(Rec) /\ IsInjective(db)
  /\ value \in [Rec -> Below] /\ changes \in 0 .. MaxChanges

WalkOK ==
  /\ pc \in {"os", "core", "cpu", "walk", "callback"}
  /\ cpuIndex \in 0 .. NumberOfCpus /\ link \in Rec \cup {End}
  /\ pc \in {"walk", "callback"} => cpuIndex < NumberOfCpus
  /\ pc = "callback" => link \in Rec
  /\ owed \subseteq Cpu /\ called \in [Cpu -> Nat] /\ cleared \in BOOLEAN

TypeOK == HardwareOK /\ SmmControlOK /\ DatabaseOK /\ WalkOK

\* No two children have one value, though values are asked for, made up and freed in any
\* order, from callbacks too.
ValuesUnique == \A r, s \in Registered : value[r] = value[s] => r = s

\* A command gets to one child at most, however the list changes under the walk: children
\* appended while it is walked do not get a command a second time.
CalledOnce == \A c \in Cpu : called[c] <= 1

\* When the CPUs leave SMM, the command of every CPU that wrote one before has been given
\* to its child, unless that was unregistered first or SmmControl cleared the status on
\* another CPU in between (SmmControlDriver.c:255): nothing would bring it back.
NoneMissed == pc = "os" => owed = {}

\* Code outside SMM leaves the enable bits of SMM's children alone, as long as SMM has not
\* changed them between its read and its write of the register (SmmTrigger, SmmClear): then
\* the old bits are written back (SmmControlDriver.c:182-193, 264-275).
EnablesKept ==
  [][pc = "os" /\ pc' = "os" /\ stale = {}
     => (ChildEn \in smiEn <=> ChildEn \in smiEn')]_vars

\* An activation gets its command to SMM in the end, whatever SMIs come in between, and
\* the CPUs are let go.
Activates == \A c \in Cpu : prog[c] = "clear" ~> io[c] \in Command
Returns == \A c \in Cpu : io[c] # NoIo ~> io[c] = NoIo
=============================================================================
