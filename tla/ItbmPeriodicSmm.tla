--------------------------- MODULE ItbmPeriodicSmm ---------------------------
(***************************************************************************)
(* The periodic SMI handler of Intel Turbo Boost Max Technology 3.0        *)
(* (Cpu/PowerManagement/Smm/PowerMgmtItbm.c).                              *)
(*                                                                         *)
(* Every tick the processor that runs the SMI handlers, the BSP, reads     *)
(* IA32_HWP_CAPABILITIES on itself and then has one AP after the other do  *)
(* so. BSP and AP hand a spin lock over: the BSP acquires it, starts the   *)
(* AP with a pointer to its own loop variable and waits until the AP has   *)
(* released the lock. If any core's highest performance has changed, the   *)
(* OS is sent an SCI, on which it reads the performance of all cores.      *)
(*                                                                         *)
(* SmmStartupThisAp is the non-blocking one: it returns once the AP has    *)
(* been told, or fails if that processor did not join the SMI. The         *)
(* blocking one allows a subset of these behaviours.                       *)
(***************************************************************************)
EXTENDS Naturals, FiniteSets

CONSTANTS
  NumberOfCpus,    \* gSmst->NumberOfCpus
  Perf,            \* values of the highest performance
  Pool,            \* what a byte of pool memory holds before it is written
  ApsMayBeAbsent,  \* whether SmmStartupThisAp can fail
  MaxChanges       \* bound: how often performance and SCI_EN change

Cpu == 0 .. NumberOfCpus - 1

ASSUME CpuAssumption ==
  /\ NumberOfCpus \in Nat \ {0}
  /\ ApsMayBeAbsent \in BOOLEAN
  /\ MaxChanges \in Nat

VARIABLES
  \* hardware and OS
  hwp,              \* highest performance in IA32_HWP_CAPABILITIES, per core
  sciEn,            \* PM1_CNT.SCI_EN
  gpe,              \* the software GPE is pending
  \* globals
  mHighestPerfPerCore, mPerfCheckEvent,
  spinLock,         \* mHwpCapabilitiesMsrSpinLock is acquired
  \* ItbmPeriodicSmmCallback on the BSP
  bsp,              \* where it is
  me,               \* gSmst->CurrentlyExecutingCpu
  cpuIndex,         \* CpuIndex, to which Buffer points
  \* CheckHwpCapabilities on each processor
  check,            \* where it is
  index,            \* Index
  highestPerf,      \* HighestPerf
  \* history and bound
  before,           \* mHighestPerfPerCore when the callback began
  checked,          \* processors that ran CheckHwpCapabilities in it
  known,            \* performance the OS has read
  owed,             \* a change was found that the OS has not been told yet
  dropped,          \* a change was found with SCIs disabled
  changes

platform == <<hwp, sciEn, gpe, known, changes>>
globals  == <<mHighestPerfPerCore, mPerfCheckEvent>>
locals   == <<check, index, highestPerf>>
vars     == <<platform, globals, spinLock, bsp, me, cpuIndex, locals,
              before, checked, owed, dropped>>

-----------------------------------------------------------------------------

\* Overclocking changes the highest performance at any time, SMM or not.
Overclock ==
  /\ changes < MaxChanges
  /\ \E c \in Cpu, p \in Perf :
       /\ p # hwp[c]
       /\ hwp' = [hwp EXCEPT ![c] = p]
  /\ changes' = changes + 1
  /\ UNCHANGED <<sciEn, gpe, known, globals, spinLock, bsp, me, cpuIndex,
                 locals, before, checked, owed, dropped>>

\* ACPI is disabled or enabled.
ToggleSci ==
  /\ changes < MaxChanges
  /\ bsp = "os"
  /\ sciEn' = ~sciEn
  /\ changes' = changes + 1
  /\ UNCHANGED <<hwp, gpe, known, globals, spinLock, bsp, me, cpuIndex,
                 locals, before, checked, owed, dropped>>

\* _L62: the OS is notified for every processor and reads its performance.
TakeSci ==
  /\ bsp = "os"
  /\ gpe /\ sciEn
  /\ gpe' = FALSE
  /\ known' = hwp
  /\ owed' = FALSE
  /\ UNCHANGED <<hwp, sciEn, changes, globals, spinLock, bsp, me, cpuIndex,
                 locals, before, checked, dropped>>

-----------------------------------------------------------------------------
(***************************************************************************)
(* ItbmPeriodicSmmCallback                                                 *)
(***************************************************************************)

\* The periodic timer's SMI. Any processor may run its handlers.
Begin ==
  /\ bsp = "os"
  /\ \E c \in Cpu : me' = c /\ cpuIndex' = c
  /\ mPerfCheckEvent' = 0
  /\ bsp' = "self"
  /\ before' = mHighestPerfPerCore
  /\ checked' = {}
  /\ UNCHANGED <<platform, mHighestPerfPerCore, spinLock, locals, owed, dropped>>

\* AcquireSpinLock, then CheckHwpCapabilities on the BSP.
CheckSelf ==
  /\ bsp = "self" /\ ~spinLock
  /\ spinLock' = TRUE
  /\ check' = [check EXCEPT ![me] = "index"]
  /\ bsp' = "checking"
  /\ UNCHANGED <<platform, globals, me, cpuIndex, index, highestPerf,
                 before, checked, owed, dropped>>

MutantSkipsLast == NumberOfCpus - 1
LoopEnd == NumberOfCpus

MutantStartsOver == 0
NextCpu == cpuIndex + 1

SkipSelf ==
  /\ bsp = "loop" /\ cpuIndex < LoopEnd /\ cpuIndex = me
  /\ cpuIndex' = NextCpu
  /\ UNCHANGED <<platform, globals, spinLock, bsp, me, locals,
                 before, checked, owed, dropped>>

AcquireForAp ==
  /\ bsp = "loop" /\ cpuIndex < LoopEnd /\ cpuIndex # me
  /\ ~spinLock
  /\ spinLock' = TRUE
  /\ bsp' = "startup"
  /\ UNCHANGED <<platform, globals, me, cpuIndex, locals, before, checked, owed, dropped>>

\* SmmStartupThisAp; an error is asserted on and otherwise ignored.
StartupThisAp ==
  /\ bsp = "startup"
  /\ \/ check' = [check EXCEPT ![cpuIndex] = "index"]
     \/ ApsMayBeAbsent /\ UNCHANGED check
  /\ bsp' = "wait"
  /\ UNCHANGED <<platform, globals, spinLock, me, cpuIndex, index, highestPerf,
                 before, checked, owed, dropped>>

\* AcquireSpinLockOrFail succeeds; the lock is released again.
MutantGoesOn == TRUE
ApIsDone == ~spinLock

WaitForAp ==
  /\ bsp = "wait" /\ ApIsDone
  /\ spinLock' = FALSE
  /\ cpuIndex' = NextCpu
  /\ bsp' = "loop"
  /\ UNCHANGED <<platform, globals, me, locals, before, checked, owed, dropped>>

LoopDone ==
  /\ bsp = "loop" /\ cpuIndex = LoopEnd
  /\ bsp' = "notify"
  /\ UNCHANGED <<platform, globals, spinLock, me, cpuIndex, locals,
                 before, checked, owed, dropped>>

\* PmcIsSciEnabled and PmcTriggerSwGpe. The processors leave SMM together.
MustNotify == mPerfCheckEvent = 1

Notify ==
  /\ bsp = "notify"
  /\ \A c \in Cpu : check[c] = "idle"
  /\ gpe' = (gpe \/ (MustNotify /\ sciEn))
  /\ dropped' = (dropped \/ (MustNotify /\ ~sciEn))
  /\ bsp' = "os"
  /\ UNCHANGED <<hwp, sciEn, known, changes, globals, spinLock, me, cpuIndex,
                 locals, before, checked, owed>>

-----------------------------------------------------------------------------
(***************************************************************************)
(* CheckHwpCapabilities on processor c                                     *)
(***************************************************************************)

\* Index = *(UINTN *) Buffer, the BSP's CpuIndex as it is now.
ReadIndex(c) ==
  /\ check[c] = "index"
  /\ index' = [index EXCEPT ![c] = cpuIndex]
  /\ check' = [check EXCEPT ![c] = "msr"]
  /\ UNCHANGED <<platform, globals, spinLock, bsp, me, cpuIndex, highestPerf,
                 before, checked, owed, dropped>>

ReadMsr(c) ==
  /\ check[c] = "msr"
  /\ highestPerf' = [highestPerf EXCEPT ![c] = hwp[c]]
  /\ check' = [check EXCEPT ![c] = "compare"]
  /\ UNCHANGED <<platform, globals, spinLock, bsp, me, cpuIndex, index,
                 before, checked, owed, dropped>>

\* The flag is only ever raised.
MutantLastWins(differs) == IF differs THEN 1 ELSE 0
Flag(differs) == IF differs THEN 1 ELSE mPerfCheckEvent

Compare(c) ==
  /\ check[c] = "compare"
  /\ mPerfCheckEvent' = Flag(highestPerf[c] # mHighestPerfPerCore[index[c]])
  /\ mHighestPerfPerCore' = [mHighestPerfPerCore EXCEPT ![index[c]] = highestPerf[c]]
  /\ check' = [check EXCEPT ![c] = "release"]
  /\ checked' = checked \cup {c}
  /\ owed' = (owed \/ highestPerf[c] # mHighestPerfPerCore[index[c]])
  /\ UNCHANGED <<platform, spinLock, bsp, me, cpuIndex, index, highestPerf,
                 before, dropped>>

\* ReleaseSpinLock and return: on the BSP into the callback, at the loop.
Release(c) ==
  /\ check[c] = "release"
  /\ spinLock' = FALSE
  /\ check' = [check EXCEPT ![c] = "idle"]
  /\ IF bsp = "checking" /\ c = me
       THEN bsp' = "loop" /\ cpuIndex' = 0
       ELSE UNCHANGED <<bsp, cpuIndex>>
  /\ UNCHANGED <<platform, globals, me, index, highestPerf, before, checked, owed, dropped>>

-----------------------------------------------------------------------------

\* InitPowerMgmtItbmSmm allocates mHighestPerfPerCore and does not fill it.
Init ==
  /\ hwp \in [Cpu -> Perf] /\ known = hwp
  /\ sciEn = TRUE /\ gpe = FALSE
  /\ mHighestPerfPerCore \in [Cpu -> Pool] /\ before = mHighestPerfPerCore
  /\ mPerfCheckEvent = 0
  /\ spinLock = FALSE
  /\ bsp = "os" /\ me = 0 /\ cpuIndex = 0
  /\ check = [c \in Cpu |-> "idle"]
  /\ index = [c \in Cpu |-> 0]
  /\ highestPerf = hwp
  /\ checked = {}
  /\ owed = FALSE /\ dropped = FALSE
  /\ changes = 0

Bsp ==
  \/ CheckSelf \/ SkipSelf \/ AcquireForAp \/ StartupThisAp
  \/ WaitForAp \/ LoopDone \/ Notify

CheckHwpCapabilities(c) ==
  ReadIndex(c) \/ ReadMsr(c) \/ Compare(c) \/ Release(c)

Next ==
  \/ Begin \/ Bsp \/ \E c \in Cpu : CheckHwpCapabilities(c)
  \/ Overclock \/ ToggleSci \/ TakeSci

Spec == Init /\ [][Next]_vars

\* Every processor runs, the periodic timer has been resumed and ticks, and the
\* OS takes a pending SCI between two ticks.
FairSpec ==
  /\ Spec
  /\ WF_vars(Bsp) /\ \A c \in Cpu : WF_vars(CheckHwpCapabilities(c))
  /\ WF_vars(Begin)
  /\ SF_vars(TakeSci)

-----------------------------------------------------------------------------
(***************************************************************************)
(* Properties                                                              *)
(***************************************************************************)

\* Every variable has its type; in particular the BSP starts existing processors
\* only, and no processor ever has an index beyond the array.
TypeOK ==
  /\ hwp \in [Cpu -> Perf] /\ known \in [Cpu -> Perf]
  /\ sciEn \in BOOLEAN /\ gpe \in BOOLEAN
  /\ mHighestPerfPerCore \in [Cpu -> Perf \cup Pool]
  /\ before \in [Cpu -> Perf \cup Pool]
  /\ mPerfCheckEvent \in {0, 1}
  /\ spinLock \in BOOLEAN
  /\ bsp \in {"os", "self", "checking", "loop", "startup", "wait", "notify"}
  /\ me \in Cpu
  /\ cpuIndex \in 0..NumberOfCpus
  /\ bsp = "startup" => cpuIndex \in Cpu
  /\ check \in [Cpu -> {"idle", "index", "msr", "compare", "release"}]
  /\ index \in [Cpu -> Cpu]
  /\ highestPerf \in [Cpu -> Perf]
  /\ checked \subseteq Cpu
  /\ owed \in BOOLEAN /\ dropped \in BOOLEAN
  /\ changes \in 0..MaxChanges

\* "Spin lock used to serialize the MSR read of IA32_HWP_CAPABILITIES"
\* (PowerMgmtItbm.c:58), although one processor acquires it and another releases
\* it: no two processors are in CheckHwpCapabilities, and none without the lock.
Serialized ==
  \A c \in Cpu : check[c] # "idle" =>
    spinLock /\ \A d \in Cpu \ {c} : check[d] = "idle"

\* A processor writes its own entry of mHighestPerfPerCore, with the value it has
\* read, although its index comes from a variable the BSP counts on with.
OwnEntry ==
  [][\A c \in Cpu : mHighestPerfPerCore'[c] # mHighestPerfPerCore[c] =>
       check[c] = "compare" /\ mHighestPerfPerCore'[c] = highestPerf[c]]_vars

\* When the callback decides whether to notify, every processor has been checked
\* exactly for this tick, and the flag says whether any entry has changed.
AllChecked ==
  bsp = "notify" =>
    checked = Cpu /\ (mPerfCheckEvent = 1 <=> mHighestPerfPerCore # before)

\* The handover never hangs: the callback returns.
CallbackReturns == (bsp = "self") ~> (bsp = "os")

\* A change of any core that the callback has found reaches the OS, whichever
\* cores are checked after it, unless SCIs are disabled or were at that time.
ChangeTold == owed ~> (~owed \/ ~sciEn \/ dropped)

\* "If the maximum cpu ratio changes, we must notify the OS of the change"
\* (PowerMgmtItbm.c:101): what the OS knows catches up with the processors,
\* with the same exceptions.
OsLearns ==
  \A c \in Cpu : (known[c] # hwp[c]) ~> (known[c] = hwp[c] \/ ~sciEn \/ dropped)
=============================================================================
