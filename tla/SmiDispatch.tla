---------------------------- MODULE SmiDispatch ----------------------------
(***************************************************************************)
(* The core of the PCH SMI dispatcher (Pch/PchSmiDispatcher/Smm).          *)
(*                                                                         *)
(* SMM drivers register callbacks for PCH SMI sources. Each registration   *)
(* is a DATABASE_RECORD in the list CallbackDataBase, with a description   *)
(* of its source: the enable bits, the status bit and the top-level bit of *)
(* SMI_STS. On an SMI, PchSmmCoreDispatcher looks for the first record     *)
(* whose source is active, calls every child of that source, clears the    *)
(* status, sets EOS and, if EOS does not stick, starts over.               *)
(*                                                                         *)
(* Between any two steps of the program the hardware may raise a status.   *)
(* Callbacks are client code: here they may register, unregister, change   *)
(* SCI_EN and write ports that raise a CPU-caused SMI.                     *)
(***************************************************************************)
EXTENDS Naturals, SequencesExt

CONSTANTS
  Rec,            \* the pool blocks a DATABASE_RECORD can live in
  SwRec,          \* the block of the permanent SwType record
  End,            \* the list head, where a walk of the list ends
  Source,         \* the SMI sources of the PCH (PCH_SMM_SOURCE_DESC values), but for
                  \* the periodic timers', which SmiPeriodicTimer has
  SwSource,       \* mSwSourceDesc
  SxSource,       \* mSxSourceDesc
  Registrable,    \* the sources SMM drivers register for
  NoSource,       \* what an unused block describes
  EnBit, StsBit, TopBit,
  En,             \* enable bits of a source      (SrcDesc.En)
  Sts,            \* status bit of a source       (SrcDesc.Sts)
  Top,            \* SMI_STS bit above the status (SrcDesc.PmcSmiSts)
  SciDependent,   \* sources with PCH_SMM_SCI_EN_DEPENDENT
  Contextual,     \* sources whose children compare a hardware context
  CustomClear,    \* sources whose records carry their own ClearSource
  CpuRaised,      \* sources raised by an instruction of the CPU, not a device
  House,          \* bits ClearPendingSmiStatus clears, with its condition
  CallbackOps,    \* what callbacks do to the database
  AllocMayFail,   \* whether SmmAllocatePool can fail
  MaxRaise        \* bound: how many events the hardware raises

NoBlock == End

ASSUME RecAssumption ==
  /\ SwRec \in Rec
  /\ End \notin Rec

ASSUME SourceAssumption ==
  /\ {SwSource, SxSource} \cup Registrable \subseteq Source
  /\ NoSource \notin Source
  /\ En  \in [Source -> SUBSET EnBit]
  /\ Sts \in [Source -> StsBit]
  /\ Top \in [Source -> TopBit]
  /\ En[SxSource] # {}
  /\ \A s, t \in Source : En[s] = En[t] /\ Sts[s] = Sts[t] => s = t
  /\ SciDependent \cup Contextual \cup CustomClear \cup CpuRaised \subseteq Source

ASSUME BoundAssumption ==
  /\ CallbackOps \subseteq {"register", "unregisterSelf", "unregisterOther"}
  /\ AllocMayFail \in BOOLEAN
  /\ MaxRaise \in Nat
  /\ DOMAIN House \subseteq StsBit
  /\ \A b \in DOMAIN House : House[b] \in {"always", "noSci", "topSeen"}

VARIABLES
  \* the PCH
  enBits,         \* enable bits that are set
  stsBits,        \* status bits that are set
  sciEn,          \* PM1_CNT.SCI_EN: an ACPI OS owns the power events
  eos,            \* SMI_EN.EOS: the PCH may assert a new SMI
  smi,            \* an SMI the CPU has not entered SMM for yet
  \* PchSmmCore's globals
  mReadyToLock,
  db,             \* mPrivateData.CallbackDataBase, the blocks in list order
  desc,           \* contents of every block: the source its record describes
  \* PchSmmCoreDispatcher's locals
  pc,
  escapeCount,
  seen,           \* SmiStsValue and SciEn as read at the head of the loop
  recordInDb,     \* RecordInDb
  activeSource,   \* ActiveSource
  linkToExhaust,  \* LinkToExhaust
  recordToExhaust,\* RecordToExhaust, while its callback runs
  sxChild,        \* SxChildWasDispatched
  \* history and bound
  due,            \* children of ActiveSource the callback of which is owed
  raised          \* events raised so far

hw     == <<enBits, stsBits, sciEn, eos, smi>>
core   == <<mReadyToLock, db, desc>>
locals == <<escapeCount, seen, recordInDb, activeSource, linkToExhaust,
            recordToExhaust, sxChild, due>>
vars   == <<hw, core, pc, locals, raised>>

Registered == ToSet(db)

EscapeLimit == 3

(***************************************************************************)
(* Hardware                                                                *)
(***************************************************************************)

\* The sources that assert an SMI with the given registers.
PendingIn(en, sts, sci) ==
  {s \in Source : /\ En[s] \subseteq en
                  /\ Sts[s] \in sts
                  /\ s \in SciDependent => ~sci}

Pending == PendingIn(enBits, stsBits, sciEn)

\* The PCH asserts an SMI, and drops EOS, when a source is pending while EOS
\* is set. To be conjoined with the new values of the registers.
Arbitrate ==
  IF eos /\ PendingIn(enBits', stsBits', sciEn') # {}
    THEN eos' = FALSE /\ smi' = TRUE
    ELSE UNCHANGED <<eos, smi>>

\* An event sets its status bit. A device does so at any time; an instruction
\* only while some code that may execute it runs.
Raise(s) ==
  /\ raised < MaxRaise
  /\ pc # "off"
  /\ s \in CpuRaised => pc \in {"os", "smm", "callback"}
  /\ Sts[s] \notin stsBits
  /\ stsBits' = stsBits \cup {Sts[s]}
  /\ raised' = raised + 1
  /\ UNCHANGED <<enBits, sciEn, core, pc, locals>>
  /\ Arbitrate

\* The CPU enters SMM; PchSmmCoreDispatcher is one of the SMI handlers.
EnterSmm ==
  /\ pc = "os" /\ smi
  /\ pc' = "smm" /\ smi' = FALSE
  /\ UNCHANGED <<enBits, stsBits, sciEn, eos, core, locals, raised>>

\* No SMI is asserted: the rest of the platform runs, sleeps or is off.
Idle ==
  /\ pc \in {"os", "s1", "off"}
  /\ UNCHANGED vars

(***************************************************************************)
(* Register and unregister                                                 *)
(***************************************************************************)

\* PchSmmClearSource or ClearSource, then PchSmmEnableSource, which sets the
\* enable bits and clears the status once more.
EnableSource(s) ==
  /\ enBits'  = enBits \cup En[s]
  /\ stsBits' = stsBits \ {Sts[s]}
  /\ UNCHANGED sciEn
  /\ Arbitrate

\* Every register and unregister function starts with this test.
MayChangeDb == ~mReadyToLock

\* PchPiSmmCoreRegister and the PchSmiDispatch registrations.
RegisterRecord(r, s) ==
  /\ MayChangeDb
  /\ s \in Registrable
  /\ r \in Rec \ Registered
  /\ db'   = Append(db, r)
  /\ desc' = [desc EXCEPT ![r] = s]
  /\ UNCHANGED mReadyToLock
  /\ EnableSource(s)

\* SmmCoreInsertRecord fails; the caller's ASSERT_EFI_ERROR does nothing in a
\* release build and the source is enabled all the same.
RegisterWithoutRecord(s) ==
  /\ AllocMayFail
  /\ MayChangeDb
  /\ s \in Registrable
  /\ UNCHANGED core
  /\ EnableSource(s)

Position(r) == CHOOSE i \in DOMAIN db : db[i] = r

\* IsBitEqualToAnySourceEn over the records that are left.
StillNeeded(b, rs) == \E q \in rs : b \in En[desc[q]]

\* The enable bits once record r is gone and the records rs are left.
MutantDisablesShared(r, rs) == enBits \ En[desc[r]]
MutantFindsItself(r, rs) ==
  {b \in enBits : b \in En[desc[r]] => StillNeeded(b, Registered)}
EnBitsWithout(r, rs) ==
  {b \in enBits : b \in En[desc[r]] => StillNeeded(b, rs)}

\* The record whose handle PchSwDispatchInit keeps to itself.
MutantAll == {}
Permanent == {SwRec}

\* PchSmmCoreUnRegister. The freed block keeps what it held until it is
\* allocated again.
UnregisterRecord(r) ==
  /\ MayChangeDb
  /\ r \in Registered \ Permanent
  /\ db' = RemoveAt(db, Position(r))
  /\ enBits' = EnBitsWithout(r, ToSet(db'))
  /\ UNCHANGED <<stsBits, sciEn, eos, smi, mReadyToLock, desc>>

\* Drivers loaded into SMM, outside the dispatcher.
DriverRegister ==
  /\ pc = "smm"
  /\ \E s \in Source : \/ \E r \in Rec : RegisterRecord(r, s)
                       \/ RegisterWithoutRecord(s)
  /\ UNCHANGED <<pc, locals, raised>>

DriverUnregister ==
  /\ pc = "smm"
  /\ \E r \in Rec : UnregisterRecord(r)
  /\ UNCHANGED <<pc, locals, raised>>

\* SmmReadyToLockCallback
SmmReadyToLock ==
  /\ pc = "smm" /\ ~mReadyToLock
  /\ mReadyToLock' = TRUE
  /\ UNCHANGED <<hw, db, desc, pc, locals, raised>>

(***************************************************************************)
(* PchSmmCoreDispatcher                                                    *)
(***************************************************************************)

StartDispatch ==
  /\ pc = "smm"
  /\ pc' = IF db = <<>> THEN "exit" ELSE "search"
  /\ escapeCount' = EscapeLimit
  /\ sxChild' = FALSE
  /\ UNCHANGED <<hw, core, seen, recordInDb, activeSource, linkToExhaust,
                 recordToExhaust, due, raised>>

MutantNoCountDown == escapeCount
CountDown == escapeCount - 1

\* The head of the loop: registers are cached, the search starts at the head.
Search ==
  /\ pc = "search"
  /\ escapeCount' = CountDown
  /\ seen' = [tops |-> {Top[s] : s \in Pending}, sci |-> sciEn]
  /\ IF db = <<>>
       THEN /\ pc' = IF CountDown = 0 THEN "exit" ELSE "search"
            /\ UNCHANGED recordInDb
       ELSE /\ pc' = "scan"
            /\ recordInDb' = Head(db)
  /\ UNCHANGED <<hw, core, activeSource, linkToExhaust, recordToExhaust,
                 sxChild, due, raised>>

\* SourceIsActive: the cached top-level bit and SCI_EN, the live enable and
\* status bits.
SourceIsActive(s) ==
  /\ s \in SciDependent => ~seen.sci
  /\ Top[s] \in seen.tops
  /\ En[s] \subseteq enBits
  /\ Sts[s] \in stsBits

\* GetNextNode. Reading the link of a freed block gives anything.
MutantEndsEarly(r) ==
  LET i == Position(r)
  IN  {IF i + 1 >= Len(db) THEN End ELSE db[i + 1]}
NextOf(r) ==
  IF r \in Registered
    THEN LET i == Position(r)
         IN  {IF i = Len(db) THEN End ELSE db[i + 1]}
    ELSE Rec \cup {End}

ScanInactive ==
  /\ pc = "scan"
  /\ ~SourceIsActive(desc[recordInDb])
  /\ \E next \in NextOf(recordInDb) :
       IF next = End
         THEN pc' = "eos" /\ UNCHANGED recordInDb
         ELSE recordInDb' = next /\ UNCHANGED pc
  /\ UNCHANGED <<hw, core, escapeCount, seen, activeSource, linkToExhaust,
                 recordToExhaust, sxChild, due, raised>>

ScanActive ==
  /\ pc = "scan"
  /\ SourceIsActive(desc[recordInDb])
  /\ activeSource' = desc[recordInDb]
  /\ sxChild' = (sxChild \/ desc[recordInDb] = SxSource)
  /\ linkToExhaust' = recordInDb
  /\ due' = {r \in Registered : desc[r] = desc[recordInDb]}
  /\ pc' = "exhaust"
  /\ UNCHANGED <<hw, core, escapeCount, seen, recordInDb, recordToExhaust, raised>>

\* CompareEnables and CompareStatuses.
CompareSources(s, t) == s \in Source /\ En[s] = En[t] /\ Sts[s] = Sts[t]

\* One turn of the loop that exhausts the list. The next link is read before
\* the callback is called. The context comparison may go either way.
Exhaust ==
  /\ pc = "exhaust" /\ linkToExhaust # End
  /\ linkToExhaust' \in NextOf(linkToExhaust)
  /\ \E matches \in BOOLEAN :
       /\ desc[linkToExhaust] \notin Contextual => matches
       /\ IF CompareSources(desc[linkToExhaust], activeSource) /\ matches
            THEN /\ pc' = "callback"
                 /\ recordToExhaust' = linkToExhaust
                 /\ UNCHANGED due
            ELSE /\ due' = due \ {linkToExhaust}
                 /\ UNCHANGED <<pc, recordToExhaust>>
  /\ UNCHANGED <<hw, core, escapeCount, seen, recordInDb, activeSource, sxChild, raised>>

CallbackRegister ==
  /\ pc = "callback" /\ "register" \in CallbackOps
  /\ \E s \in Source : \/ \E r \in Rec : RegisterRecord(r, s)
                       \/ RegisterWithoutRecord(s)
  /\ UNCHANGED <<pc, locals, raised>>

CallbackUnregister ==
  /\ pc = "callback"
  /\ \E r \in Rec :
       /\ IF r = recordToExhaust THEN "unregisterSelf"  \in CallbackOps
                                 ELSE "unregisterOther" \in CallbackOps
       /\ UnregisterRecord(r)
       /\ due' = due \ {r}
  /\ UNCHANGED <<pc, escapeCount, seen, recordInDb, activeSource, linkToExhaust,
                 recordToExhaust, sxChild, raised>>

\* The software SMI by which an ACPI OS takes or returns the power events.
CallbackToggleSciEn ==
  /\ pc = "callback" /\ recordToExhaust = SwRec
  /\ sciEn' = ~sciEn
  /\ UNCHANGED <<enBits, stsBits, core, pc, locals, raised>>
  /\ Arbitrate

\* Where the walk goes on: the link saved before the callback, not the one in
\* the record that was called.
MutantReadsNextLater == NextOf(recordToExhaust)
LinkAfterCallback == {linkToExhaust}

\* Back in the dispatcher, which reads the record's type once more.
CallbackReturn ==
  /\ pc = "callback"
  /\ sxChild' = (sxChild \/ desc[recordToExhaust] = SxSource)
  /\ due' = due \ {recordToExhaust}
  /\ recordToExhaust' = NoBlock
  /\ pc' = "exhaust"
  /\ linkToExhaust' \in LinkAfterCallback
  /\ UNCHANGED <<hw, core, escapeCount, seen, recordInDb, activeSource, raised>>

\* RecordInDb->ClearSource, whatever that block holds now, on ActiveSource. A
\* special function clears its own source only.
MutantClearsNothing == {}
ClearedBits ==
  LET owner == desc[recordInDb]
  IN  IF owner \in CustomClear /\ owner # activeSource
        THEN {} ELSE {Sts[activeSource]}

ClearSource ==
  /\ pc = "exhaust" /\ linkToExhaust = End
  /\ stsBits' = stsBits \ ClearedBits
  /\ pc' = "eos"
  /\ UNCHANGED <<enBits, sciEn, eos, smi, core, locals, raised>>

\* What ClearPendingSmiStatus clears.
MutantForgetsWadt ==
  {b \in DOMAIN House :
     \/ House[b] = "always"
     \/ House[b] = "topSeen" /\ \E s \in Source : Sts[s] = b /\ Top[s] \in seen.tops}
Housekept ==
  {b \in DOMAIN House :
     \/ House[b] = "always"
     \/ House[b] = "noSci" /\ ~seen.sci
     \/ House[b] = "topSeen" /\ \E s \in Source : Sts[s] = b /\ Top[s] \in seen.tops}

\* The loop runs until EOS sticks or the count is used up.
LoopEnds(eosSet) == eosSet \/ escapeCount = 0

\* ClearPendingSmiStatus and PchSmmSetAndCheckEos. Setting EOS with a source
\* pending asserts an SMI at once, and the bit reads back as zero.
SetAndCheckEos ==
  /\ pc = "eos"
  /\ stsBits' = stsBits \ Housekept
  /\ LET quiet == PendingIn(enBits, stsBits', sciEn) = {}
     IN  /\ eos' = quiet
         /\ smi' = (smi \/ ~quiet)
         /\ pc'  = IF LoopEnds(quiet) THEN "exit" ELSE "search"
  /\ UNCHANGED <<enBits, sciEn, core, locals, raised>>

\* The dispatcher returns; its locals are gone.
ReturnTo(where) ==
  /\ pc' = where
  /\ escapeCount' = 0
  /\ seen' = [tops |-> {}, sci |-> FALSE]
  /\ recordInDb' = NoBlock /\ linkToExhaust' = End /\ recordToExhaust' = NoBlock
  /\ activeSource' = NoSource
  /\ sxChild' = FALSE
  /\ due' = {}

Exit ==
  /\ pc = "exit" /\ ~sxChild
  /\ ReturnTo("os")
  /\ UNCHANGED <<hw, core, raised>>

(***************************************************************************)
(* PchSmmSxGoToSleep                                                       *)
(***************************************************************************)

\* PchSmmDisableSource (&mSxSourceDesc)
MutantLeavesSxOn == enBits
EnBitsForSleep == enBits \ En[SxSource]

SleepArm ==
  /\ pc = "exit" /\ sxChild
  /\ stsBits' = stsBits \ {Sts[SxSource]}
  /\ enBits'  = EnBitsForSleep
  /\ ReturnTo("slpEn")
  /\ UNCHANGED <<sciEn, eos, smi, core, raised>>

\* The write of SLP_EN: trapped by the PCH while the Sx SMI is enabled.
WriteSlpEn ==
  /\ pc = "slpEn"
  /\ stsBits' = IF En[SxSource] \subseteq enBits THEN stsBits \cup {Sts[SxSource]}
                                                 ELSE stsBits
  /\ pc' \in {"s1", "off"}
  /\ UNCHANGED <<enBits, sciEn, core, locals, raised>>
  /\ Arbitrate

WakeFromS1 ==
  /\ pc = "s1"
  /\ pc' = "os"
  /\ EnableSource(SxSource)
  /\ UNCHANGED <<core, locals, raised>>

-----------------------------------------------------------------------------

\* PchSwDispatchInit has inserted the permanent record; the SW SMI has been
\* enabled by the SMM control driver.
Init ==
  /\ enBits = En[SwSource] /\ stsBits = {} /\ sciEn = FALSE
  /\ eos = TRUE /\ smi = FALSE
  /\ mReadyToLock = FALSE
  /\ db = <<SwRec>>
  /\ desc = [r \in Rec |-> IF r = SwRec THEN SwSource ELSE NoSource]
  /\ pc = "os"
  /\ escapeCount = 0
  /\ seen = [tops |-> {}, sci |-> FALSE]
  /\ recordInDb = NoBlock /\ linkToExhaust = End /\ recordToExhaust = NoBlock
  /\ activeSource = NoSource
  /\ sxChild = FALSE
  /\ due = {}
  /\ raised = 0

Dispatcher ==
  \/ StartDispatch \/ Search \/ ScanInactive \/ ScanActive
  \/ Exhaust \/ CallbackReturn \/ ClearSource \/ SetAndCheckEos
  \/ Exit \/ SleepArm \/ WriteSlpEn

Client ==
  \/ DriverRegister \/ DriverUnregister \/ SmmReadyToLock
  \/ CallbackRegister \/ CallbackUnregister \/ CallbackToggleSciEn

Platform ==
  \/ \E s \in Source : Raise(s)
  \/ EnterSmm \/ Idle \/ WakeFromS1

Next == Dispatcher \/ Client \/ Platform

Spec == Init /\ [][Next]_vars

\* SMM runs to completion on one processor and the CPU takes a latched SMI.
\* Nothing is assumed of devices, of drivers or of the wake event.
Fairness == WF_vars(Dispatcher) /\ WF_vars(EnterSmm)

FairSpec == Spec /\ Fairness

-----------------------------------------------------------------------------
(***************************************************************************)
(* Properties                                                              *)
(***************************************************************************)

\* The dispatcher is between disabling and re-enabling the Sx SMI.
Sleeping == pc \in {"slpEn", "s1", "off"}

HardwareOK ==
  /\ enBits \subseteq EnBit /\ stsBits \subseteq StsBit
  /\ sciEn \in BOOLEAN /\ eos \in BOOLEAN /\ smi \in BOOLEAN

\* The list holds a block at most once and every listed block describes a source.
DatabaseOK ==
  /\ mReadyToLock \in BOOLEAN
  /\ db \in Seq(Rec)
  /\ \A i, j \in DOMAIN db : db[i] = db[j] => i = j
  /\ desc \in [Rec -> Source \cup {NoSource}]
  /\ \A r \in Registered : desc[r] \in Source

DispatcherOK ==
  /\ pc \in {"os", "smm", "search", "scan", "exhaust", "callback", "eos",
             "exit", "slpEn", "s1", "off"}
  /\ seen \in [tops : SUBSET TopBit, sci : BOOLEAN]
  /\ recordInDb \in Rec \cup {End}
  /\ pc = "scan" => recordInDb \in Rec
  /\ linkToExhaust \in Rec \cup {End}
  /\ recordToExhaust \in Rec \cup {End}
  /\ activeSource \in Source \cup {NoSource}
  /\ sxChild \in BOOLEAN
  /\ due \subseteq Rec

\* The loop is entered with counts left, so that the counter never wraps.
CountersOK ==
  /\ escapeCount \in 0..EscapeLimit
  /\ pc = "search" => escapeCount > 0
  /\ raised \in 0..MaxRaise

\* Every variable has its type, the UINTN that counts the dispatcher's loops never
\* wraps below zero, and the list of records is a list: no record is linked twice
\* and none describes nothing.
TypeOK == HardwareOK /\ DatabaseOK /\ DispatcherOK /\ CountersOK

\* PchSmmCoreUnRegister turns off only what no other record needs, whatever
\* sources share an enable bit and whoever unregisters when: a registered child
\* never loses an enable bit, except the Sx SMI on the way to sleep and back.
EveryChildEnabled ==
  \A r \in Registered :
    En[desc[r]] \subseteq enBits \cup (IF Sleeping THEN En[SxSource] ELSE {})

\* "The SMI source has been disabled if there are no other registered child
\* dispatch functions for this SMI source" (PchSmmCore.c:559): no SMI is enabled
\* that no record serves. PchSmmSxGoToSleep re-enables the Sx SMI on wake even
\* if its last child is gone, so that bit is exempt.
NoOrphanEnable ==
  \A b \in enBits \ En[SxSource] : StillNeeded(b, Registered)

\* The dispatcher never leaves SMM with the PCH mute: EOS is set, or another
\* SMI is already latched. The loop sets EOS only while it finds the list
\* non-empty, so this rests on the permanent SwType record.
NotMute ==
  pc \in {"os", "slpEn", "s1", "off"} => eos \/ smi

\* After SmmReadyToLock no record is added, removed or changed, and of the sources
\* of this module (Source) only the Sx SMI is still turned off and on, around sleep.
\* It says nothing of the periodic timers, which are not among them: their pause and
\* resume change enable bits without a look at mReadyToLock
\* (PchSmmPeriodicTimer.c:613-666) and are actions of SmiPeriodicTimer.
LockFreezes ==
  [][mReadyToLock => /\ mReadyToLock'
                     /\ UNCHANGED <<db, desc>>
                     /\ enBits' \ En[SxSource] = enBits \ En[SxSource]]_vars

\* PchSmmSxGoToSleep's write of SLP_EN goes through: it is not trapped by the
\* very SMI that announced the sleep.
SleepNotTrapped ==
  [][pc = "slpEn" /\ pc' # "slpEn" => Sts[SxSource] \notin stsBits' \ stsBits]_vars

\* A pending event of a source that has children is cleared only after every
\* one of them was called for it (or did not match the context): whatever else
\* is raised, registered or unregistered meanwhile. Registering another child
\* of the source, and going to sleep, clear its status by design.
ServedBeforeCleared ==
  [][\A r \in Registered :
       LET s == desc[r]
       IN  s \in Pending /\ Sts[s] \notin stsBits' =>
             \/ pc = "exhaust" /\ activeSource = s /\ due = {}
             \/ Len(db') > Len(db) /\ desc'[db'[Len(db')]] = s
             \/ pc = "exit" /\ s = SxSource]_vars

\* A callback is called only while its record is registered, and for the source
\* it registered for.
CallsRegistered ==
  [][pc = "exhaust" /\ pc' = "callback" =>
       recordToExhaust' \in Registered /\ desc[recordToExhaust'] = activeSource]_vars

\* GetNextNode is called on listed records only. "RecordToExhaust->Link might be
\* removed (unregistered) by Callback function [...] To prevent the issue, we
\* need to get next record in DB here" (PchSmmCore.c:801).
NextStillListed ==
  pc = "exhaust" /\ linkToExhaust # End => linkToExhaust \in Registered

\* The dispatcher returns, although a device may raise its status again and
\* again and a source may stay pending that nobody serves: EscapeCount is "used
\* to prevent infinite loops" (PchSmmCore.c:697).
DispatcherReturns == (pc = "search") ~> (pc = "exit")

\* Once the devices are quiet, an event of a source with a child does not stay
\* pending, wherever its record stands in the list.
EventServed ==
  \A s \in Source : LET Waits == s \in Pending /\ \E r \in Registered : desc[r] = s
                   IN  Waits ~> (~Waits \/ pc \in {"s1", "off"})

\* Once the devices are quiet the SMIs end: the PCH's EOS comes back, also when
\* what was raised has no child and ClearPendingSmiStatus must know it. "Please do
\* not clear unknown pending SMI status" (PchSmmCore.c:634): those keep the SMI.
SmisEnd ==
  LET Unknown == {s \in Pending : /\ Sts[s] \notin DOMAIN House
                                  /\ \A r \in Registered : desc[r] # s}
  IN  []<>(eos \/ pc \in {"s1", "off"} \/ Unknown # {})
=============================================================================
