------------------------------- MODULE IoTrap -------------------------------
(***************************************************************************)
(* The IO trap protocols (Pch/PchSmiDispatcher/Smm/IoTrap.c).              *)
(*                                                                         *)
(* A few trap registers each make the PCH raise an SMI when a CPU touches  *)
(* a range of IO ports. A child that names its address has a register of   *)
(* its own (MergeDisable); a child without one is given an address out of  *)
(* a range that all such children share. The dispatcher finds the child of *)
(* a trapped cycle, drivers and callbacks register, unregister, pause and  *)
(* resume children, and the PCH may trap a cycle between any two steps.    *)
(*                                                                         *)
(* Of PchSmmCore only what the traps see is here: the status bit of a      *)
(* register is served while its enable bit is set, and is cleared once the *)
(* callback has returned. SmiDispatch has the rest.                        *)
(***************************************************************************)
EXTENDS Integers, SequencesExt, FiniteSetsExt

CONSTANTS
  None,
  Child,         \* the pool blocks of the IO_TRAP_RECORDs
  NumTraps,      \* IO_TRAP_HANDLER_NUM
  PoolSize,      \* GENERIC_IOTRAP_SIZE
  PoolBases,     \* the ranges AllocateIoSpace has, in the order it gives them
  Requests,      \* what clients register
  Cycles,        \* the IO cycles CPUs make
  CallbackOps,   \* what callbacks do
  MayRunOut      \* whether allocating a record can fail

Lanes == 0 .. 3
Trap  == 0 .. NumTraps - 1
Types == {"write", "read", "readwrite"}
Bytes(a, len) == a .. a + len - 1

\* A cycle names a dword and the bytes enabled of it (R_PSTH_PCR_TRPC).
CycleBytes(cy) == {cy.address + l : l \in cy.bytes}

ASSUME TrapAssumption ==
  /\ None \notin Child \cup Nat \cup {"merged", "own", "ex"}
  /\ NumTraps \in Nat \ {0}
  /\ PoolSize \in Nat /\ PoolSize % 4 = 0 /\ PoolSize > 0
  /\ MayRunOut \in BOOLEAN
  /\ CallbackOps \subseteq {"register", "unregister", "pause", "resume"}

ASSUME RequestAssumption ==
  /\ \A q \in Requests :
       /\ q.address \in Nat /\ q.len \in Nat /\ q.type \in Types
       /\ q.ex \in BOOLEAN /\ q.be \subseteq Lanes /\ q.bem \subseteq Lanes
       /\ q.ex => q.address # 0   \* IoTrapExDispatch.h:130
       /\ ~q.ex => q.be = {} /\ q.bem = Lanes   \* IoTrapRegister, lines 877-878
  /\ \A cy \in Cycles :
       /\ cy.address \in Nat /\ cy.address % 4 = 0
       /\ cy.bytes \subseteq Lanes /\ cy.bytes # {} /\ cy.type \in {"write", "read"}

\* What GCD gives is aligned (the 8 it is called with) and does not overlap.
ASSUME PoolAssumption ==
  /\ PoolBases \in Seq(Nat \ {0})
  /\ \A i \in 1 .. Len(PoolBases) : PoolBases[i] % 4 = 0
  /\ \A i, j \in 1 .. Len(PoolBases) :
       i < j => \/ PoolBases[i] + PoolSize <= PoolBases[j]
                \/ PoolBases[j] + PoolSize <= PoolBases[i]

VARIABLES
  \* the PCH
  low,      \* R_PSTH_PCR_TRPREG0 + 8n: address, length and trap enable
  high,     \* the other dword: types trapped, byte enables and their mask
  script,   \* what the S3 boot script writes to both
  pending,  \* R_PSTH_PCR_TRPST
  cycle,    \* R_PSTH_PCR_TRPC, the cycle trapped last
  \* mIoTrapData.Entry, the GCD, mPchNvsArea
  list, used, merge, acpi,
  given,    \* how many of PoolBases are allocated
  nvs,      \* IoTrapStatus and IoTrapAddress
  \* the records
  live,     \* blocks that are records now
  rec,      \* what a record holds, and that of a callback running when it was freed
  ready,    \* mReadyToLock
  \* the running service and the dispatcher
  clear,    \* the trap whose status is still to be cleared
  serving,  \* the trap IoTrapDispatcherHelper runs for
  callee,   \* the record whose callback runs
  phase,    \* which of its calls that is
  \* history
  paused,   \* children paused and not resumed
  twins,    \* children that shared their range with another register
  spoilt    \* what excuses a wrong delivery; see Access and Unregister

regs  == <<low, high, script>>
hw    == <<pending, cycle>>
entry == <<list, used, merge, acpi, given, nvs>>
recs  == <<live, rec, paused, twins>>
disp  == <<serving, callee, phase>>
vars  == <<regs, hw, entry, recs, ready, clear, disp, spoilt>>

-----------------------------------------------------------------------------
(***************************************************************************)
(* The registers                                                           *)
(***************************************************************************)

RoundUp(len) == ((len + 3) \div 4) * 4

\* A register that is written as 0; its length still reads as 4.
Off == [base |-> 0, len |-> 4, tse |-> FALSE]
NoTypes == [types |-> {"write"}, be |-> {}, bem |-> {}]

TypesOf(type) == IF type = "readwrite" THEN {"write", "read"} ELSE {type}

LowOf(base, len) == [base |-> base - (base % 4), len |-> RoundUp(len), tse |-> TRUE]

\* Up to three bytes are told by the mask alone, which lets those bytes be anything
\* and leaves the others to be 0.
HighOf(q, len) ==
  [types |-> TypesOf(q.type),
   be    |-> IF len < 4 THEN {} ELSE q.be,
   bem   |-> IF len < 4 THEN Bytes((q.address % 4), len) ELSE q.bem]

\* HighBitSet32 and LowBitSet32 return -1 for no bit at all.
HighBitSet(S) == IF S = {} THEN -1 ELSE Max(S)
LowBitSet(S)  == IF S = {} THEN -1 ELSE Min(S)

\* The address and length a register seems to be for.
RangeOf(n) ==
  IF high[n].bem = Lanes THEN <<low[n].base, low[n].len>>
  ELSE <<low[n].base + LowBitSet(high[n].bem),
         HighBitSet(high[n].bem) - LowBitSet(high[n].bem) + 1>>

\* The PCH traps a cycle in the range of an enabled register, of a type it traps, the
\* bytes of which are those enabled wherever the mask does not cover them.
Traps(n, cy) ==
  /\ low[n].tse
  /\ cy.address \in Bytes(low[n].base, low[n].len)
  /\ cy.type \in high[n].types
  /\ \A l \in Lanes \ high[n].bem : l \in cy.bytes <=> l \in high[n].be

-----------------------------------------------------------------------------
(***************************************************************************)
(* IoTrapRegisterHelper                                                    *)
(***************************************************************************)

\* A client calls a service from its entry point or from a callback.
MayCall(op) == clear = None /\ (callee = None \/ op \in CallbackOps)

\* A power of 2, or 3.
mLengthTable == {1, 2, 3, 4, 8, 16, 32, 64, 128, 256}

Legal(q) ==
  /\ q.len \in mLengthTable /\ q.len <= PoolSize
  /\ q.len >= 4 => q.address % q.len = 0
  /\ q.len < 4  => (q.address % 4) + q.len <= 4
  /\ q.ex => q.len >= 4

\* Whether register n is in use is told by its address.
Free(n) == low[n].base = 0

HasSpace(q, n) ==
  /\ ~merge[n]
  /\ used[n] < PoolSize
  /\ low[n].len >= PoolSize
  /\ q.len < PoolSize - used[n]

\* The register the loop ends at.
Suits(q, n) == Free(n) \/ (q.address = 0 /\ HasSpace(q, n))
IsFirst(q, n) == Suits(q, n) /\ \A m \in Trap : m < n => ~Suits(q, m)

NoRecord == [address |-> 0, len |-> 0, type |-> "write", ex |-> FALSE,
             be |-> {}, bem |-> {}, trap |-> 0]

\* Another register is for the same range: that of a child, or one left on by a
\* registration that failed.
Same(address, len) == {d \in live : rec[d].address = address /\ rec[d].len = len}
LeftOn(address, len) ==
  \E n \in Trap : merge[n] /\ list[n] = <<>> /\ RangeOf(n) = <<address, len>>

\* The record is inserted, or memory runs out for it.
Record(c, q, n, address) ==
  \/ /\ live' = live \cup {c}
     /\ rec'  = [rec EXCEPT ![c] = [address |-> address, len |-> q.len, type |-> q.type,
                                    ex |-> q.ex, be |-> q.be, bem |-> q.bem, trap |-> n]]
     /\ list' = [list EXCEPT ![n] = Append(@, c)]
     /\ twins' = twins \cup Same(address, q.len) \cup
                 IF Same(address, q.len) # {} \/ LeftOn(address, q.len) THEN {c} ELSE {}
     /\ UNCHANGED paused
  \/ /\ MayRunOut
     /\ twins' = twins \cup Same(address, q.len)
     /\ UNCHANGED <<live, rec, paused, list>>

\* SetIoTrapLowDword and SetIoTrapHighDword, saved to the boot script.
SetSaved(n, lo, hi) ==
  /\ low'    = [low EXCEPT ![n] = lo]
  /\ high'   = [high EXCEPT ![n] = hi]
  /\ script' = [script EXCEPT ![n] = [low |-> lo, high |-> hi]]

\* PchInternalIoTrapSmiRegister clears the status bit of a register taken.
TakesFree(q, n, base, len) ==
  /\ pending' = pending \ {n}
  /\ SetSaved(n, LowOf(base, len), HighOf(q, len))
  /\ merge' = [merge EXCEPT ![n] = q.address # 0]

RegisterOwn(c, q, n) ==
  /\ q.address # 0 /\ Free(n)
  /\ TakesFree(q, n, q.address, q.len)
  /\ Record(c, q, n, q.address)
  /\ UNCHANGED <<used, acpi, given, nvs>>

\* The first child of a range from the GCD.
RegisterPool(c, q, n) ==
  /\ q.address = 0 /\ Free(n)
  /\ given < Len(PoolBases)
  /\ LET base == PoolBases[given + 1]
     IN  /\ used' = [used EXCEPT ![n] = q.len]
         /\ acpi' = [acpi EXCEPT ![n] = TRUE]
         /\ nvs'  = [nvs EXCEPT ![n] = [status |-> 1, address |-> base]]
         /\ TakesFree(q, n, base, PoolSize)
         /\ Record(c, q, n, base)
  /\ given' = given + 1

\* A register that traps one type is made to trap both for a child of another.
MutantTypeStays(n, q) == high[n]
Widened(n, q) ==
  IF high[n].types = TypesOf(q.type) THEN high[n]
  ELSE [high[n] EXCEPT !.types = {"write", "read"}]

RegisterMerged(c, q, n) ==
  /\ q.address = 0 /\ ~Free(n)
  /\ used'   = [used EXCEPT ![n] = @ + q.len]
  /\ high'   = [high EXCEPT ![n] = Widened(n, q)]
  /\ script' = [script EXCEPT ![n].high = Widened(n, q)]
  /\ Record(c, q, n, low[n].base + used[n])
  /\ UNCHANGED <<pending, low, merge, acpi, given, nvs>>

Register(c, q) ==
  /\ MayCall("register") /\ c \notin live /\ ~ready
  /\ Legal(q)
  /\ \E n \in Trap : /\ IsFirst(q, n)
                     /\ \/ RegisterOwn(c, q, n)
                        \/ RegisterPool(c, q, n)
                        \/ RegisterMerged(c, q, n)
  /\ UNCHANGED <<cycle, ready, clear, disp, spoilt>>

-----------------------------------------------------------------------------
(***************************************************************************)
(* IoTrapUnRegisterHelper                                                  *)
(***************************************************************************)

\* The child ends where its register's range ends.
AtTop(c) ==
  LET lo == low[rec[c].trap]
  IN  lo.base # 0 /\ lo.base + lo.len = rec[c].address + rec[c].len

MutantAnyChild(c) == TRUE
IsLastChild(c) ==
  \/ merge[rec[c].trap]
  \/ AtTop(c) /\ low[rec[c].trap].base = rec[c].address

MutantAcpiStays(n) == nvs[n]
AcpiFreed(n) == IF acpi[n] THEN [nvs[n] EXCEPT !.status = 0] ELSE nvs[n]

\* PchInternalIoTrapSmiUnRegister and all that follows it, but for the status bit.
TurnOff(n) ==
  /\ SetSaved(n, Off, NoTypes)
  /\ clear' = n
  /\ merge' = [merge EXCEPT ![n] = FALSE]
  /\ acpi'  = [acpi EXCEPT ![n] = FALSE]
  /\ nvs'   = [nvs EXCEPT ![n] = AcpiFreed(n)]

\* The range of a register is cut at its top, if what is left is a length it can have.
CutTop(c) ==
  LET n    == rec[c].trap
      left == low[n].len - rec[c].len
      lo   == IF left \in mLengthTable THEN LowOf(low[n].base, left) ELSE low[n]
  IN  /\ low'    = [low EXCEPT ![n] = lo]
      /\ script' = [script EXCEPT ![n].low = lo]
      /\ UNCHANGED <<high, clear, merge, acpi, nvs>>

Position(c) == CHOOSE i \in DOMAIN list[rec[c].trap] : list[rec[c].trap][i] = c

Unregister(c) ==
  /\ MayCall("unregister") /\ c \in live /\ ~ready
  /\ IF IsLastChild(c) THEN TurnOff(rec[c].trap)
     ELSE IF AtTop(c) THEN CutTop(c)
     ELSE UNCHANGED <<regs, clear, merge, acpi, nvs>>
  /\ list'   = [list EXCEPT ![rec[c].trap] = RemoveAt(@, Position(c))]
  /\ live'   = live \ {c}
  /\ paused' = paused \ {c}
  /\ twins'  = twins \ {c}
  /\ IF c = callee THEN spoilt' = spoilt \cup {"record"} /\ UNCHANGED rec
     ELSE rec' = [rec EXCEPT ![c] = NoRecord] /\ UNCHANGED spoilt
  /\ UNCHANGED <<hw, used, given, ready, disp>>

-----------------------------------------------------------------------------
(***************************************************************************)
(* IoTrapControlPause, IoTrapControlResume                                 *)
(***************************************************************************)

IsIoTrapExContentMatched(c, n) ==
  /\ rec[c].address = low[n].base /\ rec[c].len = low[n].len
  /\ rec[c].be = high[n].be /\ rec[c].bem = high[n].bem

\* The register is looked for by its contents.
Matches(c, n) ==
  /\ merge[n]
  /\ \/ rec[c].ex /\ IsIoTrapExContentMatched(c, n)
     \/ RangeOf(n) = <<rec[c].address, rec[c].len>>
Found(c, n) == Matches(c, n) /\ \A m \in Trap : m < n => ~Matches(c, m)

Pause(c) ==
  /\ MayCall("pause") /\ c \in live
  /\ \E n \in Trap :
       /\ Found(c, n) /\ low[n].tse
       /\ low'   = [low EXCEPT ![n].tse = FALSE]
       /\ clear' = n
  /\ paused' = paused \cup {c}
  /\ UNCHANGED <<high, script, hw, entry, live, rec, twins, ready, disp, spoilt>>

Resume(c) ==
  /\ MayCall("resume") /\ c \in live
  /\ \E n \in Trap :
       /\ Found(c, n) /\ ~low[n].tse
       /\ low' = [low EXCEPT ![n].tse = TRUE]
  /\ paused' = paused \ {c}
  /\ UNCHANGED <<high, script, hw, entry, live, rec, twins, ready, clear, disp, spoilt>>

\* The last step of a pause and of an unregistration.
MutantForgets(n) == pending
Cleared(n) == pending \ {n}

ClearPendingIoTrapStatus ==
  /\ clear # None
  /\ pending' = Cleared(clear)
  /\ clear'   = None
  /\ UNCHANGED <<regs, cycle, entry, recs, ready, disp, spoilt>>

-----------------------------------------------------------------------------
(***************************************************************************)
(* IoTrapDispatcherHelper                                                  *)
(***************************************************************************)

\* The first child of a shared register the range of which has the bytes of the cycle.
MutantEndsLate(c) ==
  /\ rec[c].address <= Min(CycleBytes(cycle))
  /\ rec[c].address + rec[c].len >= Max(CycleBytes(cycle))
MutantStrict(c) ==
  /\ rec[c].address < Min(CycleBytes(cycle))
  /\ rec[c].address + rec[c].len > Max(CycleBytes(cycle))
InRange(c) ==
  /\ rec[c].address <= Min(CycleBytes(cycle))
  /\ rec[c].address + rec[c].len > Max(CycleBytes(cycle))
Called(n) ==
  IF merge[n] THEN {list[n][1]}
  ELSE {list[n][i] : i \in {i \in DOMAIN list[n] :
          /\ InRange(list[n][i])
          /\ \A j \in 1 .. i - 1 : ~InRange(list[n][j])
          /\ cycle.type \in TypesOf(rec[list[n][i]].type)}}

Idle == clear = None /\ callee = None

\* The source is active; the child of the cycle is called.
Dispatch(n) ==
  /\ Idle /\ n \in pending /\ low[n].tse
  /\ list[n] # <<>>
  /\ \E c \in Called(n) :
       /\ callee' = c
       /\ phase'  = IF ~merge[n] THEN "merged" ELSE IF rec[c].ex THEN "ex" ELSE "own"
  /\ serving' = n
  /\ UNCHANGED <<regs, hw, entry, recs, ready, clear, spoilt>>

\* There is none: no child is left, or the cycle is in no child's range, or the child is
\* for the other type. PchSmmCore clears the status.
DispatchesNothing(n) ==
  /\ Idle /\ n \in pending /\ low[n].tse
  /\ list[n] # <<>> => Called(n) = {}
  /\ pending' = pending \ {n}
  /\ UNCHANGED <<regs, cycle, entry, recs, ready, clear, disp, spoilt>>

\* After the callback of a register of its own the record is read again, for the other
\* kind of callback, though the callback may have freed it.
CallsOther ==
  /\ clear = None /\ phase = "own" /\ rec[callee].ex
  /\ phase' = "ex"
  /\ UNCHANGED <<regs, hw, entry, recs, ready, clear, serving, callee, spoilt>>

\* PchSmmCore clears the status after the callback.
Return ==
  /\ clear = None /\ callee # None
  /\ phase = "own" => ~rec[callee].ex
  /\ pending' = pending \ {serving}
  /\ callee'  = None /\ serving' = None /\ phase' = None
  /\ spoilt'  = spoilt \ {"record"}
  /\ rec' = IF callee \in live THEN rec ELSE [rec EXCEPT ![callee] = NoRecord]
  /\ UNCHANGED <<regs, cycle, entry, live, paused, twins, ready, clear>>

-----------------------------------------------------------------------------
(***************************************************************************)
(* The rest of the system                                                  *)
(***************************************************************************)

\* A CPU's cycle is trapped. One trapped while another is served overwrites it in
\* R_PSTH_PCR_TRPC, and is cleared with it.
Access(cy) ==
  LET hit == {n \in Trap : Traps(n, cy)}
  IN  /\ hit # {}
      /\ "cycle" \in spoilt => pending = {} /\ callee = None   \* bound: no third cycle
      /\ pending' = pending \cup hit
      /\ cycle'   = cy
      /\ spoilt'  = IF pending = {} /\ callee = None THEN spoilt \ {"cycle"}
                    ELSE spoilt \cup {"cycle"}
      /\ UNCHANGED <<regs, entry, recs, ready, clear, disp>>

ReadyToLock ==
  /\ Idle /\ ~ready
  /\ ready' = TRUE
  /\ UNCHANGED <<regs, hw, entry, recs, clear, disp, spoilt>>

\* The registers are lost in S3 and written by the boot script, which has no pause.
Restored(n) == script[n]
S3Resume ==
  /\ Idle /\ ready /\ pending = {}
  /\ low'     = [n \in Trap |-> Restored(n).low]
  /\ high'    = [n \in Trap |-> Restored(n).high]
  /\ paused'  = {}
  /\ UNCHANGED <<script, hw, entry, live, rec, twins, ready, clear, disp, spoilt>>

NoCycle == [address |-> 0, bytes |-> {}, type |-> "write"]

\* InstallIoTrap
Init ==
  /\ low     = [n \in Trap |-> Off]
  /\ high    = [n \in Trap |-> NoTypes]
  /\ script  = [n \in Trap |-> [low |-> Off, high |-> NoTypes]]
  /\ pending = {}
  /\ cycle = NoCycle
  /\ list  = [n \in Trap |-> <<>>]
  /\ used  = [n \in Trap |-> 0]
  /\ merge = [n \in Trap |-> FALSE]
  /\ acpi  = [n \in Trap |-> FALSE]
  /\ given = 0
  /\ nvs   = [n \in Trap |-> [status |-> 0, address |-> 0]]
  /\ live = {} /\ rec = [c \in Child |-> NoRecord]
  /\ paused = {} /\ twins = {} /\ spoilt = {}
  /\ ready = FALSE
  /\ clear = None /\ serving = None /\ callee = None /\ phase = None

Client ==
  \/ \E c \in Child, q \in Requests : Register(c, q)
  \/ \E c \in Child : Unregister(c) \/ Pause(c) \/ Resume(c)

Handler ==
  \/ ClearPendingIoTrapStatus
  \/ \E n \in Trap : Dispatch(n) \/ DispatchesNothing(n)
  \/ CallsOther
  \/ Return

Next ==
  \/ Client
  \/ Handler
  \/ \E cy \in Cycles : Access(cy)
  \/ ReadyToLock
  \/ S3Resume

Spec == Init /\ [][Next]_vars

\* A service runs to its end. An SMI that is pending is taken between two calls of drivers,
\* and a callback makes a bounded number of calls: both are enabled again and again, with a
\* call in between.
FairSpec ==
  /\ Spec
  /\ WF_vars(ClearPendingIoTrapStatus)
  /\ SF_vars(\E n \in Trap : Dispatch(n) \/ DispatchesNothing(n))
  /\ SF_vars(CallsOther \/ Return)

-----------------------------------------------------------------------------
(***************************************************************************)
(* Properties                                                              *)
(***************************************************************************)

LowType  == [base : Nat, len : Nat, tse : BOOLEAN]
HighType == [types : SUBSET {"write", "read"}, be : SUBSET Lanes, bem : SUBSET Lanes]

RegistersOK ==
  /\ low \in [Trap -> LowType] /\ high \in [Trap -> HighType]
  /\ script \in [Trap -> [low : LowType, high : HighType]]
  /\ pending \subseteq Trap /\ cycle \in Cycles \cup {NoCycle}

EntriesOK ==
  /\ list \in [Trap -> Seq(live)]
  /\ used \in [Trap -> 0 .. PoolSize] /\ merge \in [Trap -> BOOLEAN]
  /\ acpi \in [Trap -> BOOLEAN] /\ given \in 0 .. Len(PoolBases)
  /\ nvs \in [Trap -> [status : {0, 1}, address : Nat]]

RecordsOK ==
  /\ live \subseteq Child
  /\ rec \in [Child -> [address : Nat, len : Nat, type : Types, ex : BOOLEAN,
                        be : SUBSET Lanes, bem : SUBSET Lanes, trap : Trap]]
  /\ paused \subseteq live /\ twins \subseteq live

DispatchOK ==
  /\ ready \in BOOLEAN /\ spoilt \subseteq {"cycle", "record"}
  /\ clear \in Trap \cup {None} /\ serving \in Trap \cup {None}
  /\ callee \in Child \cup {None} /\ phase \in {None, "merged", "own", "ex"}
  /\ callee = None <=> serving = None /\ phase = None

TypeOK == RegistersOK /\ EntriesOK /\ RecordsOK /\ DispatchOK

\* Addresses given out of a shared range (lines 525-550 and 609-633) do not overlap, stay
\* below what is marked used and inside the range, whoever comes and goes in between; the
\* ranges of two registers do not overlap. None ends at the top of the range but one that
\* has it all, so that a range is never cut (lines 769-791).
Shared(c) == c \in live /\ ~merge[rec[c].trap]
PoolDisjoint ==
  /\ \A c \in live : Shared(c) =>
       LET n == rec[c].trap
       IN  /\ low[n].len = PoolSize
           /\ rec[c].address >= low[n].base
           /\ rec[c].address + rec[c].len <= low[n].base + used[n]
           /\ used[n] <= PoolSize
           /\ AtTop(c) => rec[c].address = low[n].base
  /\ \A c, d \in live : Shared(c) /\ Shared(d) /\ c # d =>
       \/ rec[c].address + rec[c].len <= rec[d].address
       \/ rec[d].address + rec[d].len <= rec[c].address

\* What a child is to be called for.
Wants(c, cy) ==
  /\ cy.type \in TypesOf(rec[c].type)
  /\ IF rec[c].ex
     THEN /\ cy.address \in Bytes(rec[c].address, rec[c].len)
          /\ \A l \in Lanes \ rec[c].bem : l \in cy.bytes <=> l \in rec[c].be
     ELSE CycleBytes(cy) \subseteq Bytes(rec[c].address, rec[c].len)

\* Every cycle a child is registered for is trapped by its register as long as nobody has
\* paused it, after a resume from S3 too: others that register, unregister, share the
\* register or are paused do not take its cycles away. Pause and Resume find a register
\* by its contents, so that of two children of one range either may be hit.
Covered ==
  \A c \in live \ (paused \cup twins) :
    /\ c \in ToSet(list[rec[c].trap])
    /\ \A cy \in Cycles : Wants(c, cy) => Traps(rec[c].trap, cy)

\* A status bit is left pending only at a register that traps: at one that does not,
\* nothing would be dispatched for it and the SMI would come back for ever
\* (ClearPendingIoTrapStatus, lines 132-146).
NoStorm == clear = None => \A n \in pending : low[n].tse

\* The ranges reported to the OS as taken are those of the shared registers in use.
AcpiReportsPools ==
  \A n \in Trap :
    /\ nvs[n].status = 1 <=> ~Free(n) /\ ~merge[n]
    /\ nvs[n].status = 1 => nvs[n].address = low[n].base

\* The callback called is one registered for the cycle that was trapped, whatever was
\* registered, unregistered, paused or resumed since, unless a second cycle has been
\* trapped meanwhile or the callback running freed its own record.
RightChild ==
  [][callee' # None /\ <<callee, phase>>' # <<callee, phase>> /\ spoilt' = {}
     => callee' \in live /\ Wants(callee', cycle)]_vars

\* A pause stops the trap of the child it is called for, and not another's.
Twin(c) == \E d \in live \ {c} : rec[d].address = rec[c].address /\ rec[d].len = rec[c].len
PauseStopsOwn ==
  [][\A c \in Child : Pause(c) /\ ~Twin(c) => ~low'[rec[c].trap].tse]_vars

\* A trapped cycle gets to its child in the end, unless that is paused or unregistered or
\* a second cycle comes first.
Trapped(c) == c \in live /\ rec[c].trap \in pending /\ Wants(c, cycle) /\ spoilt = {}
Answered ==
  \A c \in Child :
    Trapped(c) ~> (callee = c \/ c \notin live \/ c \in paused \cup twins \/ spoilt # {})
=============================================================================
