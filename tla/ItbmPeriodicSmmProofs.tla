----------------------- MODULE ItbmPeriodicSmmProofs -----------------------
(***************************************************************************)
(* What TLAPS proves of ItbmPeriodicSmm, for any number of processors,     *)
(* any performance values and whether or not processors may be absent.     *)
(***************************************************************************)
EXTENDS ItbmPeriodicSmm, TLAPS

\* Where a processor may be in CheckHwpCapabilities, and what it has there: the
\* lock is held, and the BSP's loop variable stands still at its number.
Handover ==
  /\ \A c \in Cpu : check[c] # "idle" =>
       /\ spinLock
       /\ bsp \in {"checking", "wait"}
       /\ c = cpuIndex
       /\ bsp = "checking" => c = me
       /\ check[c] # "index" => index[c] = c
  /\ bsp \in {"self", "checking"} => cpuIndex = me
  /\ bsp = "checking" => check[me] # "idle"
  /\ bsp = "startup" => spinLock
  /\ bsp \in {"startup", "wait"} => cpuIndex \in Cpu /\ cpuIndex # me

\* The processors that are behind the BSP.
Behind == {me} \cup {c \in Cpu : c < cpuIndex}

\* Which processors have been checked, by the BSP's place in its callback. An
\* absent AP never is, but then the lock is never released either.
Progress ==
  /\ bsp = "self" => checked = {}
  /\ bsp = "checking" => checked = IF check[me] = "release" THEN {me} ELSE {}
  /\ bsp \in {"loop", "startup"} => checked = Behind
  /\ bsp = "wait" =>
       checked = Behind \cup IF check[cpuIndex] = "release" \/ ~spinLock
                               THEN {cpuIndex} ELSE {}
  /\ bsp = "notify" => checked = Cpu

\* The flag says whether a checked processor's entry has changed; the others'
\* entries have not.
FlagRight ==
  /\ mPerfCheckEvent = 1 <=> \E c \in checked : mHighestPerfPerCore[c] # before[c]
  /\ \A c \in Cpu \ checked : mHighestPerfPerCore[c] = before[c]

IInv == TypeOK /\ Handover /\ Progress /\ FlagRight

-----------------------------------------------------------------------------

LEMMA InitInv == Init => IInv
<1> SUFFICES ASSUME Init PROVE IInv
  OBVIOUS
<1>1. 0 \in Cpu /\ NumberOfCpus \in Nat
  BY CpuAssumption DEF Cpu
<1>2. TypeOK
  <2>1. /\ hwp \in [Cpu -> Perf] /\ known \in [Cpu -> Perf]
        /\ highestPerf \in [Cpu -> Perf]
        /\ mHighestPerfPerCore \in [Cpu -> Perf \cup Pool]
        /\ before \in [Cpu -> Perf \cup Pool]
    BY DEF Init
  <2>2. /\ check \in [Cpu -> {"idle", "index", "msr", "compare", "release"}]
        /\ index \in [Cpu -> Cpu]
    BY <1>1 DEF Init
  <2>3. /\ cpuIndex \in 0..NumberOfCpus /\ me \in Cpu /\ changes \in 0..MaxChanges
        /\ bsp = "os" /\ checked = {}
    BY <1>1, CpuAssumption DEF Init
  <2> QED
    BY <2>1, <2>2, <2>3 DEF Init, TypeOK
<1>3. Handover /\ Progress /\ FlagRight
  BY <1>1 DEF Init, Handover, Progress, FlagRight
<1> QED
  BY <1>2, <1>3 DEF IInv

LEMMA TypeOKStep == IInv /\ [Next]_vars => TypeOK'
<1> SUFFICES ASSUME IInv, [Next]_vars PROVE TypeOK'
  OBVIOUS
<1> USE CpuAssumption DEF IInv, Cpu, TypeOK, Handover, vars, platform, globals, locals
<1>1. CASE Begin
  BY <1>1 DEF Begin
<1>2. CASE CheckSelf
  BY <1>2 DEF CheckSelf
<1>3. CASE SkipSelf
  BY <1>3 DEF SkipSelf, LoopEnd, NextCpu
<1>4. CASE AcquireForAp
  BY <1>4 DEF AcquireForAp, LoopEnd
<1>5. CASE StartupThisAp
  BY <1>5 DEF StartupThisAp
<1>6. CASE WaitForAp
  <2>1. cpuIndex + 1 \in 0..NumberOfCpus
    BY <1>6 DEF WaitForAp, NextCpu
  <2> QED
    BY <1>6, <2>1 DEF WaitForAp, NextCpu
<1>7. CASE LoopDone
  BY <1>7 DEF LoopDone, LoopEnd
<1>8. CASE Notify
  BY <1>8 DEF Notify, MustNotify
<1>9. CASE Overclock
  <2>1. hwp' \in [Cpu -> Perf]
    BY <1>9 DEF Overclock
  <2>2. changes' \in 0..MaxChanges
    BY <1>9 DEF Overclock
  <2> QED
    BY <1>9, <2>1, <2>2 DEF Overclock
<1>10. CASE ToggleSci
  BY <1>10 DEF ToggleSci
<1>11. CASE TakeSci
  BY <1>11 DEF TakeSci
<1>12. ASSUME NEW c \in Cpu, ReadIndex(c) PROVE TypeOK'
  BY <1>12 DEF ReadIndex
<1>13. ASSUME NEW c \in Cpu, ReadMsr(c) PROVE TypeOK'
  BY <1>13 DEF ReadMsr
<1>14. ASSUME NEW c \in Cpu, Compare(c) PROVE TypeOK'
  BY <1>14 DEF Compare, Flag
<1>15. ASSUME NEW c \in Cpu, Release(c) PROVE TypeOK'
  <2>1. check' \in [Cpu -> {"idle", "index", "msr", "compare", "release"}]
    BY <1>15 DEF Release
  <2>2. /\ bsp' \in {"os", "self", "checking", "loop", "startup", "wait", "notify"}
        /\ cpuIndex' \in 0..NumberOfCpus
        /\ bsp' = "startup" => cpuIndex' \in 0..NumberOfCpus - 1
    BY <1>15 DEF Release
  <2>3. spinLock' = FALSE /\ me' = me /\ index' = index
    BY <1>15 DEF Release
  <2> QED
    BY <1>15, <2>1, <2>2, <2>3 DEF Release
<1>16. CASE UNCHANGED vars
  BY <1>16
<1> QED
  BY <1>1, <1>2, <1>3, <1>4, <1>5, <1>6, <1>7, <1>8, <1>9, <1>10, <1>11, <1>12, <1>13, <1>14, <1>15, <1>16 DEF Next, Bsp, CheckHwpCapabilities

LEMMA HandoverStep == IInv /\ [Next]_vars => Handover'
<1> SUFFICES ASSUME IInv, [Next]_vars PROVE Handover'
  OBVIOUS
<1> USE CpuAssumption DEF IInv, Cpu, TypeOK, Handover, vars, platform, globals, locals
<1>1. CASE Begin
  BY <1>1 DEF Begin
<1>2. CASE CheckSelf
  BY <1>2 DEF CheckSelf
<1>3. CASE SkipSelf
  BY <1>3 DEF SkipSelf, LoopEnd, NextCpu
<1>4. CASE AcquireForAp
  BY <1>4 DEF AcquireForAp, LoopEnd
<1>5. CASE StartupThisAp
  BY <1>5 DEF StartupThisAp
<1>6. CASE WaitForAp
  BY <1>6 DEF WaitForAp, NextCpu, ApIsDone
<1>7. CASE LoopDone
  BY <1>7 DEF LoopDone, LoopEnd
<1>8. CASE Notify
  BY <1>8 DEF Notify, MustNotify
<1>9. CASE Overclock
  BY <1>9 DEF Overclock
<1>10. CASE ToggleSci
  BY <1>10 DEF ToggleSci
<1>11. CASE TakeSci
  BY <1>11 DEF TakeSci
<1>12. ASSUME NEW c \in Cpu, ReadIndex(c) PROVE Handover'
  BY <1>12 DEF ReadIndex
<1>13. ASSUME NEW c \in Cpu, ReadMsr(c) PROVE Handover'
  BY <1>13 DEF ReadMsr
<1>14. ASSUME NEW c \in Cpu, Compare(c) PROVE Handover'
  BY <1>14 DEF Compare, Flag
<1>15. ASSUME NEW c \in Cpu, Release(c) PROVE Handover'
  BY <1>15 DEF Release
<1>16. CASE UNCHANGED vars
  BY <1>16
<1> QED
  BY <1>1, <1>2, <1>3, <1>4, <1>5, <1>6, <1>7, <1>8, <1>9, <1>10, <1>11, <1>12, <1>13, <1>14, <1>15, <1>16 DEF Next, Bsp, CheckHwpCapabilities

LEMMA ProgressStep == IInv /\ [Next]_vars => Progress'
<1> SUFFICES ASSUME IInv, [Next]_vars PROVE Progress'
  OBVIOUS
<1> USE CpuAssumption DEF IInv, Cpu, TypeOK, Handover, Progress, Behind, vars, platform, globals, locals
<1>1. CASE Begin
  BY <1>1 DEF Begin
<1>2. CASE CheckSelf
  BY <1>2 DEF CheckSelf
<1>3. CASE SkipSelf
  BY <1>3 DEF SkipSelf, LoopEnd, NextCpu
<1>4. CASE AcquireForAp
  BY <1>4 DEF AcquireForAp, LoopEnd
<1>5. CASE StartupThisAp
  BY <1>5 DEF StartupThisAp
<1>6. CASE WaitForAp
  <2>1. checked = Behind \cup {cpuIndex}
    BY <1>6 DEF WaitForAp, NextCpu, ApIsDone
  <2>2. Behind' = Behind \cup {cpuIndex}
    <3>1. cpuIndex \in Cpu /\ cpuIndex' = cpuIndex + 1 /\ me' = me
      BY <1>6 DEF WaitForAp, NextCpu
    <3>2. \A c \in Cpu : c < cpuIndex + 1 <=> c < cpuIndex \/ c = cpuIndex
      BY <3>1
    <3>3. {c \in Cpu : c < cpuIndex + 1} = {c \in Cpu : c < cpuIndex} \cup {cpuIndex}
      BY <3>1, <3>2
    <3> QED
      BY <3>1, <3>3
  <2> QED
    BY <1>6, <2>1, <2>2 DEF WaitForAp, NextCpu
<1>7. CASE LoopDone
  <2>1. Behind = 0..NumberOfCpus - 1
    BY <1>7 DEF LoopDone, LoopEnd
  <2> QED
    BY <1>7, <2>1 DEF LoopDone
<1>8. CASE Notify
  BY <1>8 DEF Notify, MustNotify
<1>9. CASE Overclock
  BY <1>9 DEF Overclock
<1>10. CASE ToggleSci
  BY <1>10 DEF ToggleSci
<1>11. CASE TakeSci
  BY <1>11 DEF TakeSci
<1>12. ASSUME NEW c \in Cpu, ReadIndex(c) PROVE Progress'
  BY <1>12 DEF ReadIndex
<1>13. ASSUME NEW c \in Cpu, ReadMsr(c) PROVE Progress'
  BY <1>13 DEF ReadMsr
<1>14. ASSUME NEW c \in Cpu, Compare(c) PROVE Progress'
  BY <1>14 DEF Compare, Flag
<1>15. ASSUME NEW c \in Cpu, Release(c) PROVE Progress'
  <2>1. c = cpuIndex /\ check[c] = "release" /\ spinLock
    BY <1>15 DEF Release
  <2>2. CASE bsp = "checking"
    <3>1. checked' = {me'} /\ bsp' = "loop" /\ cpuIndex' = 0
      BY <1>15, <2>1, <2>2 DEF Release
    <3>2. Behind' = {me'}
      BY <3>1
    <3> QED
      BY <3>1, <3>2
  <2>3. CASE bsp = "wait"
    <3>1. checked = Behind \cup {cpuIndex}
      BY <2>1, <2>3
    <3>2. /\ bsp' = "wait" /\ ~spinLock'
          /\ checked' = checked /\ cpuIndex' = cpuIndex /\ me' = me
      BY <1>15, <2>3 DEF Release
    <3> QED
      BY <3>1, <3>2
  <2> QED
    BY <2>1, <2>2, <2>3
<1>16. CASE UNCHANGED vars
  BY <1>16
<1> QED
  BY <1>1, <1>2, <1>3, <1>4, <1>5, <1>6, <1>7, <1>8, <1>9, <1>10, <1>11, <1>12, <1>13, <1>14, <1>15, <1>16 DEF Next, Bsp, CheckHwpCapabilities

LEMMA FlagRightStep == IInv /\ [Next]_vars => FlagRight'
<1> SUFFICES ASSUME IInv, [Next]_vars PROVE FlagRight'
  OBVIOUS
<1> USE CpuAssumption DEF IInv, Cpu, TypeOK, Handover, Progress, Behind, FlagRight, vars, platform, globals, locals
<1>1. CASE Begin
  BY <1>1 DEF Begin
<1>2. CASE CheckSelf
  BY <1>2 DEF CheckSelf
<1>3. CASE SkipSelf
  BY <1>3 DEF SkipSelf, LoopEnd, NextCpu
<1>4. CASE AcquireForAp
  BY <1>4 DEF AcquireForAp, LoopEnd
<1>5. CASE StartupThisAp
  BY <1>5 DEF StartupThisAp
<1>6. CASE WaitForAp
  BY <1>6 DEF WaitForAp, NextCpu, ApIsDone
<1>7. CASE LoopDone
  BY <1>7 DEF LoopDone, LoopEnd
<1>8. CASE Notify
  BY <1>8 DEF Notify, MustNotify
<1>9. CASE Overclock
  BY <1>9 DEF Overclock
<1>10. CASE ToggleSci
  BY <1>10 DEF ToggleSci
<1>11. CASE TakeSci
  BY <1>11 DEF TakeSci
<1>12. ASSUME NEW c \in Cpu, ReadIndex(c) PROVE FlagRight'
  BY <1>12 DEF ReadIndex
<1>13. ASSUME NEW c \in Cpu, ReadMsr(c) PROVE FlagRight'
  BY <1>13 DEF ReadMsr
<1>14. ASSUME NEW c \in Cpu, Compare(c) PROVE FlagRight'
  <2>1. c \notin checked /\ index[c] = c
    <3>1. c = cpuIndex /\ spinLock /\ index[c] = c /\ bsp \in {"checking", "wait"}
      BY <1>14 DEF Compare
    <3>2. CASE bsp = "checking"
      BY <1>14, <3>1, <3>2 DEF Compare
    <3>3. CASE bsp = "wait"
      <4>1. check[cpuIndex] = "compare" /\ cpuIndex # me /\ cpuIndex \in Nat
        BY <1>14, <3>1, <3>3 DEF Compare
      <4>2. checked = Behind
        BY <3>1, <3>3, <4>1
      <4> QED
        BY <3>1, <4>1, <4>2
    <3> QED
      BY <3>1, <3>2, <3>3
  <2>2. /\ checked' = checked \cup {c} /\ before' = before
        /\ mHighestPerfPerCore' = [mHighestPerfPerCore EXCEPT ![c] = highestPerf[c]]
        /\ mPerfCheckEvent' = IF highestPerf[c] # mHighestPerfPerCore[c]
                                THEN 1 ELSE mPerfCheckEvent
    BY <1>14, <2>1 DEF Compare, Flag
  <2>3. /\ mHighestPerfPerCore[c] = before[c]
        /\ mHighestPerfPerCore'[c] = highestPerf[c]
        /\ \A d \in Cpu \ {c} : mHighestPerfPerCore'[d] = mHighestPerfPerCore[d]
    BY <2>1, <2>2
  <2> QED
    BY <2>1, <2>2, <2>3
<1>15. ASSUME NEW c \in Cpu, Release(c) PROVE FlagRight'
  BY <1>15 DEF Release
<1>16. CASE UNCHANGED vars
  BY <1>16
<1> QED
  BY <1>1, <1>2, <1>3, <1>4, <1>5, <1>6, <1>7, <1>8, <1>9, <1>10, <1>11, <1>12, <1>13, <1>14, <1>15, <1>16 DEF Next, Bsp, CheckHwpCapabilities

\* The inductive invariant holds in every reachable state.
LEMMA Invariance == Spec => []IInv
<1>1. Init => IInv
  BY InitInv
<1>2. IInv /\ [Next]_vars => IInv'
  BY TypeOKStep, HandoverStep, ProgressStep, FlagRightStep DEF IInv
<1> QED
  BY <1>1, <1>2, PTL DEF Spec

-----------------------------------------------------------------------------
(***************************************************************************)
(* The theorems                                                            *)
(***************************************************************************)

\* Every variable keeps its type: SmmStartupThisAp is called for existing
\* processors only, and none indexes the array beyond its end.
THEOREM TypeCorrect == Spec => []TypeOK
<1>1. IInv => TypeOK
  BY DEF IInv
<1> QED
  BY <1>1, Invariance, PTL

\* The spin lock serializes CheckHwpCapabilities, whoever releases it.
THEOREM MsrReadsSerialized == Spec => []Serialized
<1>1. IInv => Serialized
  BY DEF IInv, Handover, Serialized
<1> QED
  BY <1>1, Invariance, PTL

\* The callback decides to notify the OS knowing about every processor, even if
\* some cannot be started: then it does not get that far.
THEOREM NotifiesKnowingAll == Spec => []AllChecked
<1>1. IInv => AllChecked
  <2> SUFFICES ASSUME IInv, bsp = "notify"
               PROVE  checked = Cpu /\ (mPerfCheckEvent = 1 <=> mHighestPerfPerCore # before)
    BY DEF AllChecked
  <2>1. checked = Cpu
    BY DEF IInv, Progress
  <2>2. /\ mHighestPerfPerCore \in [Cpu -> Perf \cup Pool]
        /\ before \in [Cpu -> Perf \cup Pool]
    BY DEF IInv, TypeOK
  <2>3. mHighestPerfPerCore # before
          <=> \E c \in Cpu : mHighestPerfPerCore[c] # before[c]
    BY <2>2
  <2> QED
    BY <2>1, <2>3 DEF IInv, FlagRight
<1> QED
  BY <1>1, Invariance, PTL

\* Each processor writes its own entry with what it has read itself, although it
\* takes its number from the BSP's loop variable.
THEOREM OwnEntryOnly == Spec => OwnEntry
<1> DEFINE Own == \A c \in Cpu : mHighestPerfPerCore'[c] # mHighestPerfPerCore[c] =>
                    check[c] = "compare" /\ mHighestPerfPerCore'[c] = highestPerf[c]
<1>1. IInv /\ [Next]_vars => [Own]_vars
  <2> SUFFICES ASSUME IInv, Next PROVE Own
    OBVIOUS
  <2>1. ASSUME NEW c \in Cpu, Compare(c) PROVE Own
    <3>1. check[c] = "compare" /\ index[c] = c
      BY <2>1 DEF IInv, Handover, Compare
    <3>2. mHighestPerfPerCore' = [mHighestPerfPerCore EXCEPT ![c] = highestPerf[c]]
      BY <2>1, <3>1 DEF Compare
    <3>3. mHighestPerfPerCore \in [Cpu -> Perf \cup Pool]
      BY DEF IInv, TypeOK
    <3> QED
      BY <3>1, <3>2, <3>3
  <2>2. CASE mHighestPerfPerCore' = mHighestPerfPerCore
    BY <2>2
  <2> QED
    BY <2>1, <2>2 DEF Next, Bsp, CheckHwpCapabilities, Begin, CheckSelf, SkipSelf,
      AcquireForAp, StartupThisAp, WaitForAp, LoopDone, Notify, ReadIndex, ReadMsr,
      Release, Overclock, ToggleSci, TakeSci, platform, globals
<1> QED
  BY <1>1, Invariance, PTL DEF Spec, OwnEntry
=============================================================================
