-------------------------------- MODULE MpInit --------------------------------
(***************************************************************************)
(* Starting procedures on application processors (APs) in                  *)
(* Override/UefiCpuPkg/Library/MpInitLib: the services StartupAllAPs,      *)
(* StartupThisAP and EnableDisableAP of the bootstrap processor (BSP), the *)
(* timer that polls the calls made without waiting, and the loop           *)
(* ApWakeupFunction every AP runs.                                         *)
(*                                                                         *)
(* BSP and APs run concurrently and share each AP's State and ApFunction,  *)
(* the lock ApLock that SetApState takes to write State, the start-up      *)
(* signal and the counter FinishedCount, which APs raise and the BSP       *)
(* clears. A step of an AP, and of WakeUpAP's loop over the processors, is *)
(* one access to them. The BSP polls: where it checks an AP, a step is one *)
(* look at its State with what follows from it. A timeout aborts the       *)
(* procedure by resetting the AP with INIT-SIPI-SIPI, wherever it is; a    *)
(* lock it holds then stays held.                                          *)
(*                                                                         *)
(* Assumed of the callers: the notification of a WaitEvent does not call   *)
(* these services if it runs inside SignalEvent (see EndAll).              *)
(***************************************************************************)
EXTENDS Naturals, FiniteSets

CONSTANTS
  NumberOfAps,  \* CpuCount - 1; the BSP is not moved
  LoopMode,     \* values of ApLoopMode: "hlt", "mwait" (which stands for "run")
  Overlap,      \* whether callers start, disable or enable an AP in use
  Requests,     \* parameters the services are called with
  MaxCalls      \* bound: number of services called

Aps == 1 .. NumberOfAps
Calls == 0 .. MaxCalls
Services == {"startAll", "startThis"}

ASSUME MpAssumption ==
  /\ NumberOfAps \in Nat \ {0}
  /\ LoopMode \subseteq {"hlt", "mwait"}
  /\ Overlap \in BOOLEAN
  /\ Requests \subseteq [service : Services, single : BOOLEAN, event : BOOLEAN,
                         finite : BOOLEAN]
  /\ MaxCalls \in Nat

VARIABLES
  \* the APs
  ap,             \* where ApWakeupFunction is
  task,           \* Procedure it has read from ApFunction
  \* CPU_AP_DATA
  State, ApFunction,
  ApLock,         \* held, by AP or by an AP that was reset while it held it
  StartupApSignal,
  Waiting,
  this,           \* the StartupThisAP call in progress, with its timeout
  \* CPU_MP_DATA
  ApLoopMode, InitFlag, FinishedCount, RunningCount, StartCount, SingleThread,
  all,            \* the StartupAllAPs call in progress, with its timeout
  \* the BSP
  bsp,            \* where it is
  request,        \* parameters of the service the BSP is in
  apNumber,       \* ProcessorNumber given to it
  polling,        \* CheckAllAPs or CheckThisAP is called by a service that waits
  index,          \* ProcessorNumber in a loop
  targets, fn,    \* processors and Procedure given to WakeUpAP; 0 is NULL
  untold, told,   \* processors its loop has yet to make ready, and the one it is at
  back,           \* where WakeUpAP or ResetProcessorToIdleState returns to
  \* history and bound
  begun, done,    \* per AP: calls whose procedure it has begun, has returned from
  result,         \* the call that ended last
  raced,          \* a reset has returned before its AP was back in the loop
  calls

aps  == <<ap, task, StartupApSignal, ApLock, begun, done>>
mp   == <<RunningCount, StartCount, SingleThread, Waiting>>
open == <<all, this, result, calls, raced>>
local == <<request, apNumber, polling, index>>
wake == <<targets, untold, told, fn, back, InitFlag>>
vars == <<aps, State, ApFunction, FinishedCount, ApLoopMode, mp, open, bsp, local, wake>>

\* A call: its number, whether it has a WaitEvent, whether its timeout is
\* finite and has expired, and the APs it is for that sat in their loop then.
NoCall == [id |-> 0, event |-> FALSE, finite |-> FALSE, expired |-> FALSE, for |-> {}]
NewCall(S) ==
  [id |-> calls, event |-> request.event, finite |-> request.finite,
   expired |-> FALSE, for |-> {c \in S : ap[c] = "loop"}]

MutantSkipsOne(c) == c + 2
Following(c) == c + 1

First(S) == CHOOSE c \in S : \A d \in S : c <= d

NoRequest == [service |-> "caller", single |-> FALSE, event |-> FALSE, finite |-> FALSE]

\* The BSP goes on at "at", with index i; a service that returns leaves nothing.
Goto(at, i) ==
  /\ bsp' = at
  /\ index' = IF at = "caller" THEN 1 ELSE i
  /\ request' = IF at = "caller" THEN NoRequest ELSE request
  /\ apNumber' = IF at = "caller" THEN 0 ELSE apNumber
  /\ polling' = (polling /\ at # "caller")

AfterCheck == IF polling THEN "caller" ELSE "updateThis"

Engaged(c) == Waiting[c] \/ this[c].id # 0
MayUse(c) == Overlap \/ ~Engaged(c)

-----------------------------------------------------------------------------
(***************************************************************************)
(* ApWakeupFunction on AP c                                                *)
(***************************************************************************)

\* Out of the MWAIT or run loop, or after INIT-SIPI-SIPI, the only way out of HLT.
ClearSignal(c) ==
  /\ \/ ap[c] = "woken"
     \/ ap[c] = "loop" /\ StartupApSignal[c] /\ ApLoopMode = "mwait"
  /\ StartupApSignal' = [StartupApSignal EXCEPT ![c] = FALSE]
  /\ ap' = [ap EXCEPT ![c] = "check"]
  /\ UNCHANGED <<task, ApLock, begun, done, State, ApFunction, FinishedCount,
                 ApLoopMode, mp, open, bsp, local, wake>>

IsReady(c) == State[c] = "ready"

ReadState(c) ==
  /\ ap[c] = "check"
  /\ ap' = [ap EXCEPT ![c] = IF IsReady(c) THEN "fetch" ELSE "count"]
  /\ UNCHANGED <<task, StartupApSignal, ApLock, begun, done, State, ApFunction,
                 FinishedCount, ApLoopMode, mp, open, bsp, local, wake>>

ReadFunction(c) ==
  /\ ap[c] = "fetch"
  /\ task' = [task EXCEPT ![c] = ApFunction[c]]
  /\ ap' = [ap EXCEPT ![c] = IF ApFunction[c] # 0 THEN "begin" ELSE "finish"]
  /\ UNCHANGED <<StartupApSignal, ApLock, begun, done, State, ApFunction, FinishedCount,
                 ApLoopMode, mp, open, bsp, local, wake>>

\* SetApState, to busy and to finished: the AP spins until ApLock is free.
AcquireApLock(c) ==
  /\ ap[c] \in {"begin", "finish"} /\ ~ApLock[c]
  /\ ApLock' = [ApLock EXCEPT ![c] = TRUE]
  /\ ap' = [ap EXCEPT ![c] = IF @ = "begin" THEN "lockedBusy" ELSE "lockedFinished"]
  /\ UNCHANGED <<task, StartupApSignal, begun, done, State, ApFunction, FinishedCount,
                 ApLoopMode, mp, open, bsp, local, wake>>

WriteState(c) ==
  /\ \/ /\ ap[c] = "lockedBusy"
        /\ State' = [State EXCEPT ![c] = "busy"]
        /\ begun' = [begun EXCEPT ![c] = @ \cup {task[c]}]
        /\ ap' = [ap EXCEPT ![c] = "setBusy"]
     \/ /\ ap[c] = "lockedFinished"
        /\ State' = [State EXCEPT ![c] = "finished"]
        /\ ap' = [ap EXCEPT ![c] = "setFinished"]
        /\ UNCHANGED begun
  /\ UNCHANGED <<task, StartupApSignal, ApLock, done, ApFunction, FinishedCount,
                 ApLoopMode, mp, open, bsp, local, wake>>

\* It is released on the way into the procedure, and to the counter.
BeginProcedure(c) ==
  /\ ap[c] = "setBusy"
  /\ ApLock' = [ApLock EXCEPT ![c] = FALSE]
  /\ ap' = [ap EXCEPT ![c] = "procedure"]
  /\ UNCHANGED <<task, StartupApSignal, begun, done, State, ApFunction, FinishedCount,
                 ApLoopMode, mp, open, bsp, local, wake>>

\* A procedure need not return.
EndProcedure(c) ==
  /\ ap[c] = "procedure"
  /\ done' = [done EXCEPT ![c] = @ \cup {task[c]}]
  /\ ap' = [ap EXCEPT ![c] = "finish"]
  /\ UNCHANGED <<task, StartupApSignal, ApLock, begun, State, ApFunction, FinishedCount,
                 ApLoopMode, mp, open, bsp, local, wake>>

Finish(c) ==
  /\ ap[c] = "setFinished"
  /\ ApLock' = [ApLock EXCEPT ![c] = FALSE]
  /\ ap' = [ap EXCEPT ![c] = "count"]
  /\ task' = [task EXCEPT ![c] = 0]
  /\ UNCHANGED <<StartupApSignal, begun, done, State, ApFunction, FinishedCount,
                 ApLoopMode, mp, open, bsp, local, wake>>

Count(c) ==
  /\ ap[c] = "count"
  /\ FinishedCount' = FinishedCount + 1
  /\ ap' = [ap EXCEPT ![c] = "loop"]
  /\ UNCHANGED <<task, StartupApSignal, ApLock, begun, done, State, ApFunction,
                 ApLoopMode, mp, open, bsp, local, wake>>

ApLoop(c) ==
  \/ ClearSignal(c) \/ ReadState(c) \/ ReadFunction(c) \/ AcquireApLock(c) \/ WriteState(c)
  \/ BeginProcedure(c) \/ Finish(c) \/ Count(c)

\* Inside SetApState. An INIT that comes here leaves the lock held for ever.
HoldsApLock(c) == ap[c] \in {"lockedBusy", "setBusy", "lockedFinished", "setFinished"}
Abandoned == \E c \in Aps : ApLock[c] /\ ~HoldsApLock(c)

-----------------------------------------------------------------------------
(***************************************************************************)
(* WakeUpAP and ResetProcessorToIdleState on the BSP                       *)
(***************************************************************************)

\* CheckThisAP returns to the service that waits, or to CheckAndUpdateApsStatus,
\* which signals the event.
EndThis(c, status) ==
  /\ this' = [this EXCEPT ![c] = NoCall]
  /\ result' = [id |-> this[c].id, status |-> status, for |-> this[c].for]
  /\ Goto(AfterCheck, Following(c))

\* The BSP goes on in WakeUpAP for the processors S, to run procedure f.
CallWakeUpAP(S, f, return) ==
  /\ targets' = S /\ fn' = f /\ back' = return
  /\ untold' = S /\ told' = 0
  /\ bsp' = "wake"

\* A NULL procedure, given with InitFlag = ApInitReconfig.
CallReset(c, return) ==
  CallWakeUpAP({c}, 0, return) /\ InitFlag' = "reconfig"

MutantSipiInHltOnly == ApLoopMode = "hlt"
ResetVectorRequired == ApLoopMode = "hlt" \/ InitFlag # "done"

Wake ==
  /\ bsp = "wake"
  /\ FinishedCount' = 0
  /\ bsp' = "function"
  /\ UNCHANGED <<aps, State, ApFunction, ApLoopMode, mp, open, local, wake>>

GiveFunction ==
  /\ bsp = "function"
  /\ told' = First(untold)
  /\ ApFunction' = [ApFunction EXCEPT ![told'] = fn]
  /\ bsp' = "ready"
  /\ UNCHANGED <<aps, State, FinishedCount, ApLoopMode, mp, open, local, targets, untold, fn,
                 back, InitFlag>>

\* SetApState on the BSP spins until ApLock is free. Nothing resets the BSP between
\* acquiring and releasing it, so that this is one step, here and wherever else the
\* BSP sets a State that an AP may be about to set.
SetReady ==
  /\ bsp = "ready" /\ ~ApLock[told]
  /\ State' = [State EXCEPT ![told] = "ready"]
  /\ untold' = untold \ {told}
  /\ bsp' = "signal"
  /\ UNCHANGED <<aps, ApFunction, FinishedCount, ApLoopMode, mp, open, local, targets, told, fn,
                 back, InitFlag>>

Signal ==
  /\ bsp = "signal"
  /\ StartupApSignal' = [StartupApSignal EXCEPT ![told] = TRUE]
  /\ told' = 0
  /\ bsp' = IF untold # {} THEN "function"
            ELSE IF ResetVectorRequired THEN "sipi" ELSE "wakeup"
  /\ UNCHANGED <<ap, task, ApLock, begun, done, State, ApFunction, FinishedCount, ApLoopMode,
                 mp, open, local, targets, untold, fn, back, InitFlag>>

\* SendInitSipiSipi: the AP drops what it does and starts over.
SendInitSipiSipi ==
  /\ bsp = "sipi"
  /\ ap' = [c \in Aps |-> IF c \in targets THEN "woken" ELSE ap[c]]
  /\ bsp' = "wakeup"
  /\ task' = [c \in Aps |-> IF c \in targets THEN 0 ELSE task[c]]
  /\ UNCHANGED <<StartupApSignal, ApLock, begun, done, State, ApFunction, FinishedCount,
                 ApLoopMode, mp, open, local, wake>>

WaitApWakeup ==
  /\ bsp = "wakeup" /\ \A c \in targets : ~StartupApSignal[c]
  /\ IF fn = 0
       THEN bsp' = "reset" /\ UNCHANGED <<targets, fn, back>>
       ELSE bsp' = back /\ targets' = {} /\ fn' = 0 /\ back' = "caller"
  /\ UNCHANGED <<aps, State, ApFunction, FinishedCount, ApLoopMode, mp, open, local, untold,
                 told, InitFlag>>

\* Any AP may have counted. What CheckAllAPs, CheckThisAP or EnableDisableAP
\* does next concerns the BSP alone and is part of the step.
ResetDone ==
  /\ bsp = "reset" /\ FinishedCount >= 1
  /\ InitFlag' = "done"
  /\ targets' = {} /\ back' = "caller"
  /\ \E c \in targets :
       /\ ~ApLock[c]
       /\ State' = [State EXCEPT ![c] = "idle"]
       /\ raced' = (raced \/ ap[c] # "loop")
       /\ \/ /\ back = "fail"
             /\ Waiting' = [Waiting EXCEPT ![c] = FALSE]
             /\ Goto("fail", index)
             /\ UNCHANGED <<this, result>>
          \/ back = "timeout" /\ EndThis(c, "timeout") /\ UNCHANGED Waiting
          \/ back = "caller" /\ Goto("caller", 1) /\ UNCHANGED <<Waiting, this, result>>
  /\ UNCHANGED <<aps, ApFunction, FinishedCount, ApLoopMode, RunningCount, StartCount,
                 SingleThread, all, calls, untold, told, fn>>

-----------------------------------------------------------------------------
(***************************************************************************)
(* CheckAllAPs; processors it is not responsible for are passed over       *)
(***************************************************************************)

Rest == {c \in Aps : Waiting[c] /\ c >= index}

\* GetNextWaitingProcessorNumber, after the finished AP is no longer waiting.
MutantStillWaiting(c) == {d \in Aps : Waiting[d]}
NextWaiting(c) == {d \in Aps \ {c} : Waiting[d]}

ScanOne ==
  /\ bsp = "scan" /\ Rest # {}
  /\ LET c == First(Rest)
     IN /\ index' = Following(c)
        /\ IF State[c] = "finished"
             THEN /\ ~ApLock[c]
                  /\ RunningCount' = RunningCount + 1
                  /\ Waiting' = [Waiting EXCEPT ![c] = FALSE]
                  /\ State' = [State EXCEPT ![c] = "idle"]
                  /\ IF SingleThread /\ NextWaiting(c) # {}
                       THEN CallWakeUpAP({First(NextWaiting(c))}, all.id, "scan")
                       ELSE UNCHANGED <<bsp, targets, untold, told, fn, back>>
             ELSE UNCHANGED <<RunningCount, Waiting, State, bsp, targets, untold, told, fn, back>>
  /\ UNCHANGED <<aps, ApFunction, FinishedCount, ApLoopMode, StartCount, SingleThread,
                 open, request, apNumber, polling, InitFlag>>

\* SignalEvent and WaitEvent = NULL, if the call has an event, are one step. The timer
\* runs at TPL_NOTIFY, which defers the event's notification until it has returned.
\* Where a service ends another's call the notification may run inside SignalEvent;
\* the WaitEvent of a call it made there would be overwritten. The same goes for
\* EndThis.
EndAll(status) ==
  /\ all' = NoCall
  /\ result' = [id |-> all.id, status |-> status, for |-> all.for]
  /\ Goto(AfterCheck, 1)

MutantFinished == RunningCount + 1 >= StartCount
AllFinished == RunningCount = StartCount

ScanEnd ==
  /\ bsp = "scan" /\ Rest = {}
  /\ \/ AllFinished /\ EndAll("success")
     \/ ~AllFinished /\ all.expired /\ Goto("fail", 1) /\ UNCHANGED <<all, result>>
     \/ /\ ~AllFinished /\ ~all.expired
        /\ Goto(IF polling THEN "scan" ELSE "updateThis", 1) /\ UNCHANGED <<all, result>>
  /\ UNCHANGED <<aps, State, ApFunction, FinishedCount, ApLoopMode, mp, this, raced, calls, wake>>

\* The timeout: APs that still run are reset one after the other.
MutantNone == {}
Unfinished == Rest

FailOne ==
  /\ bsp = "fail" /\ Unfinished # {}
  /\ index' = Following(First(Unfinished))
  /\ CallReset(First(Unfinished), "fail")
  /\ UNCHANGED <<aps, State, ApFunction, FinishedCount, ApLoopMode, mp, open,
                 request, apNumber, polling>>

FailEnd ==
  /\ bsp = "fail" /\ Unfinished = {}
  /\ EndAll("timeout")
  /\ UNCHANGED <<aps, State, ApFunction, FinishedCount, ApLoopMode, mp, this, raced, calls, wake>>

-----------------------------------------------------------------------------
(***************************************************************************)
(* CheckThisAP(index)                                                      *)
(***************************************************************************)

ThisFinished ==
  /\ bsp = "this" /\ State[index] = "finished" /\ ~ApLock[index]
  /\ State' = [State EXCEPT ![index] = "idle"]
  /\ EndThis(index, "success")
  /\ UNCHANGED <<aps, ApFunction, FinishedCount, ApLoopMode, mp, all, raced, calls, wake>>

ThisTimeout ==
  /\ bsp = "this" /\ State[index] # "finished" /\ this[index].expired
  /\ CallReset(index, "timeout")
  /\ UNCHANGED <<aps, State, ApFunction, FinishedCount, ApLoopMode, mp, open, local>>

\* EFI_NOT_READY; a service that waits calls again.
ThisNotReady ==
  /\ bsp = "this" /\ State[index] # "finished" /\ ~this[index].expired
  /\ ~polling
  /\ Goto("updateThis", Following(index))
  /\ UNCHANGED <<aps, State, ApFunction, FinishedCount, ApLoopMode, mp, open, wake>>

-----------------------------------------------------------------------------
(***************************************************************************)
(* CheckAndUpdateApsStatus                                                 *)
(***************************************************************************)

UpdateAll ==
  /\ bsp = "update"
  /\ Goto(IF all.event THEN "scan" ELSE "updateThis", 1)
  /\ UNCHANGED <<aps, State, ApFunction, FinishedCount, ApLoopMode, mp, open, wake>>

UpdateThis ==
  /\ bsp = "updateThis"
  /\ LET pending == {c \in Aps : this[c].event /\ c >= index}
     IN IF pending # {} THEN Goto("this", First(pending)) ELSE Goto(request.service, 1)
  /\ UNCHANGED <<aps, State, ApFunction, FinishedCount, ApLoopMode, mp, open, wake>>

\* CheckApsStatus, the timer's notification. It does not interrupt a service
\* (mStopCheckAllApsStatus).
CheckApsStatus ==
  /\ bsp = "caller"
  /\ all.event \/ \E c \in Aps : this[c].event
  /\ bsp' = "update"
  /\ UNCHANGED <<aps, State, ApFunction, FinishedCount, ApLoopMode, mp, open, local, wake>>

-----------------------------------------------------------------------------
(***************************************************************************)
(* The services                                                            *)
(***************************************************************************)

Called == bsp = "caller" /\ calls < MaxCalls /\ calls' = calls + 1

Startup(service, c) ==
  /\ Called
  /\ \E r \in Requests : r.service = service /\ request' = r
  /\ apNumber' = c
  /\ bsp' = "update"
  /\ UNCHANGED <<aps, State, ApFunction, FinishedCount, ApLoopMode, mp, all, this,
                 result, raced, polling, index, wake>>

StartupAllAPs == Startup("startAll", 0)
StartupThisAP(c) == MayUse(c) /\ Startup("startThis", c)

AllIdle(S) == \A c \in S : State[c] = "idle"
Enabled == {c \in Aps : State[c] # "disabled"}

\* EFI_NOT_STARTED or EFI_NOT_READY.
RefuseAll ==
  /\ bsp = "startAll" /\ (Enabled = {} \/ ~AllIdle(Enabled))
  /\ Goto("caller", 1)
  /\ UNCHANGED <<aps, State, ApFunction, FinishedCount, ApLoopMode, mp, open, wake>>

\* A broadcast wakes every AP. The pass that looks for busy APs and the one that
\* marks idle ones are one step.
MutantWakesAll(S) == S
FirstOnly(S) == {First(S)}

StartAll ==
  /\ bsp = "startAll" /\ Enabled # {} /\ AllIdle(Enabled)
  /\ Waiting' = [c \in Aps |-> c \in Enabled]
  /\ StartCount' = Cardinality(Enabled)
  /\ RunningCount' = 0
  /\ SingleThread' = request.single
  /\ FinishedCount' = 0
  /\ all' = NewCall(Enabled)
  /\ CallWakeUpAP(IF request.single THEN FirstOnly(Enabled) ELSE Aps, calls, "started")
  /\ UNCHANGED <<aps, State, ApFunction, ApLoopMode, this, result, raced, calls, local, InitFlag>>

RefuseThis ==
  /\ bsp = "startThis" /\ State[apNumber] = "disabled"
  /\ Goto("caller", 1)
  /\ UNCHANGED <<aps, State, ApFunction, FinishedCount, ApLoopMode, mp, open, wake>>

StartThis ==
  /\ bsp = "startThis" /\ State[apNumber] # "disabled"
  /\ this' = [this EXCEPT ![apNumber] = NewCall({apNumber})]
  /\ CallWakeUpAP({apNumber}, calls, "started")
  /\ UNCHANGED <<aps, State, ApFunction, FinishedCount, ApLoopMode, mp, all, result, raced,
                 calls, local, InitFlag>>

\* With a WaitEvent the service returns, otherwise it waits.
Started ==
  /\ bsp = "started"
  /\ \/ request.event /\ Goto("caller", 1)
     \/ /\ ~request.event
        /\ polling' = TRUE
        /\ IF request.service = "startAll" THEN bsp' = "scan" /\ index' = 1
                                          ELSE bsp' = "this" /\ index' = apNumber
        /\ UNCHANGED <<request, apNumber>>
  /\ UNCHANGED <<aps, State, ApFunction, FinishedCount, ApLoopMode, mp, open, wake>>

DisableAP(c) ==
  /\ Called /\ MayUse(c) /\ ~ApLock[c]
  /\ State' = [State EXCEPT ![c] = "disabled"]
  /\ UNCHANGED <<aps, ApFunction, FinishedCount, ApLoopMode, mp, all, this, result, raced,
                 bsp, local, wake>>

EnableAP(c) ==
  /\ Called /\ MayUse(c)
  /\ CallReset(c, "caller")
  /\ UNCHANGED <<aps, State, ApFunction, FinishedCount, ApLoopMode, mp, all, this, result, raced,
                 local>>

-----------------------------------------------------------------------------
(***************************************************************************)
(* CalculateTimeout and CheckTimeout: 0 stands for no timeout              *)
(***************************************************************************)

Expires(call) == call.id # 0 /\ call.finite /\ ~call.expired

ExpireAll ==
  /\ Expires(all)
  /\ all' = [all EXCEPT !.expired = TRUE]
  /\ UNCHANGED <<aps, State, ApFunction, FinishedCount, ApLoopMode, mp, this, result, raced,
                 calls, bsp, local, wake>>

ExpireThis(c) ==
  /\ Expires(this[c])
  /\ this' = [this EXCEPT ![c].expired = TRUE]
  /\ UNCHANGED <<aps, State, ApFunction, FinishedCount, ApLoopMode, mp, all, result, raced,
                 calls, bsp, local, wake>>

Expire == ExpireAll \/ \E c \in Aps : ExpireThis(c)

-----------------------------------------------------------------------------

\* After MpInitLibInitialize: every AP has counted and sits in its loop.
Init ==
  /\ ap = [c \in Aps |-> "loop"] /\ task = [c \in Aps |-> 0]
  /\ State = [c \in Aps |-> "idle"] /\ ApFunction = [c \in Aps |-> 0]
  /\ StartupApSignal = [c \in Aps |-> FALSE] /\ ApLock = [c \in Aps |-> FALSE]
  /\ Waiting = [c \in Aps |-> FALSE]
  /\ this = [c \in Aps |-> NoCall] /\ all = NoCall
  /\ ApLoopMode \in LoopMode /\ InitFlag = "done"
  /\ FinishedCount = NumberOfAps /\ RunningCount = 0 /\ StartCount = 0
  /\ SingleThread = FALSE
  /\ bsp = "caller"
  /\ request = NoRequest /\ apNumber = 0
  /\ polling = FALSE /\ index = 1
  /\ targets = {} /\ untold = {} /\ told = 0 /\ fn = 0 /\ back = "caller"
  /\ begun = [c \in Aps |-> {}] /\ done = [c \in Aps |-> {}]
  /\ result = [id |-> 0, status |-> "success", for |-> {}]
  /\ raced = FALSE
  /\ calls = 0

Bsp ==
  \/ Wake \/ GiveFunction \/ SetReady \/ Signal
  \/ SendInitSipiSipi \/ WaitApWakeup \/ ResetDone
  \/ ScanOne \/ ScanEnd \/ FailOne \/ FailEnd
  \/ ThisFinished \/ ThisTimeout \/ ThisNotReady
  \/ UpdateAll \/ UpdateThis
  \/ RefuseAll \/ StartAll \/ RefuseThis \/ StartThis \/ Started

Next ==
  \/ Bsp \/ CheckApsStatus \/ StartupAllAPs
  \/ \E c \in Aps : StartupThisAP(c) \/ DisableAP(c) \/ EnableAP(c)
  \/ \E c \in Aps : ApLoop(c) \/ EndProcedure(c)
  \/ Expire

Spec == Init /\ [][Next]_vars

\* The BSP runs and its timer ticks, the performance counter advances, an AP
\* runs. A procedure may hang where a call watches it; one that a disabled AP
\* was woken for is watched by nobody and returns.
FairSpec ==
  /\ Spec
  /\ WF_vars(Bsp) /\ SF_vars(CheckApsStatus) /\ WF_vars(Expire)
  /\ WF_vars(\E c \in Aps : ApLoop(c))
  /\ WF_vars(\E c \in Aps : ~Engaged(c) /\ EndProcedure(c))

-----------------------------------------------------------------------------
(***************************************************************************)
(* Properties                                                              *)
(***************************************************************************)

\* In WakeUpAP or ResetProcessorToIdleState.
WakePcs == {"wake", "function", "ready", "signal", "sipi", "wakeup", "reset"}

CallType ==
  [id : Calls, event : BOOLEAN, finite : BOOLEAN, expired : BOOLEAN, for : SUBSET Aps]

\* Every variable has its type; in particular the loops over the processors end
\* at the last one, and ResetProcessorToIdleState has one target.
TypeOK ==
  /\ ap \in [Aps -> {"loop", "woken", "check", "fetch", "begin", "lockedBusy", "setBusy",
                   "procedure", "finish", "lockedFinished", "setFinished", "count"}]
  /\ ApLock \in [Aps -> BOOLEAN]
  /\ task \in [Aps -> Calls] /\ ApFunction \in [Aps -> Calls]
  /\ State \in [Aps -> {"idle", "ready", "busy", "finished", "disabled"}]
  /\ StartupApSignal \in [Aps -> BOOLEAN] /\ Waiting \in [Aps -> BOOLEAN]
  /\ this \in [Aps -> CallType] /\ all \in CallType
  /\ ApLoopMode \in {"hlt", "mwait"} /\ InitFlag \in {"done", "reconfig"}
  /\ FinishedCount \in Nat /\ RunningCount \in Nat /\ StartCount \in Nat
  /\ SingleThread \in BOOLEAN
  /\ bsp \in {"caller", "update", "updateThis", "scan", "fail", "this", "startAll",
             "startThis", "started"} \cup WakePcs
  /\ request \in Requests \cup {NoRequest} /\ apNumber \in 0 .. NumberOfAps
  /\ polling \in BOOLEAN /\ index \in 1 .. NumberOfAps + 1
  /\ targets \subseteq Aps /\ fn \in Calls
  /\ untold \subseteq targets /\ told \in 0 .. NumberOfAps
  /\ fn = 0 /\ bsp \in WakePcs => \E c \in Aps : targets = {c}
  /\ back \in {"caller", "scan", "fail", "timeout", "started"}
  /\ begun \in [Aps -> SUBSET Calls] /\ done \in [Aps -> SUBSET Calls]
  /\ result \in [id : Calls, status : {"success", "timeout"}, for : SUBSET Aps]
  /\ raced \in BOOLEAN /\ calls \in Calls

\* A call in progress was made for AP c, which sat in its loop then.
MadeFor(c, id) == \/ c \in this[c].for /\ id = this[c].id
                  \/ c \in all.for /\ id = all.id

\* An AP runs a procedure at most once for a call that was made for it, whatever
\* wakes it in between: a signal left over, the INIT-SIPI-SIPI sent to all, a reset;
\* and what it runs is never NULL. A reset that returned early (mp_reset) is exempt.
OncePerCall ==
  [][~raced => \A c \in Aps : ap[c] = "lockedBusy" /\ ap'[c] = "setBusy" =>
       task[c] # 0 /\ (MadeFor(c, task[c]) => task[c] \notin begun[c])]_vars

\* EFI_SUCCESS, or an event without a timeout, means that every AP which sat in
\* its loop when the call was made has returned from the call's procedure.
SuccessMeansDone ==
  result.status = "success" => \A c \in result.for : result.id \in done[c] \cup {0}

\* "If the timeout expires before all APs return from Procedure, then Procedure on
\* the failed APs is terminated" (DxeMpLib.c:435): an AP that a call was made for
\* runs its procedure only as long as the call is in progress.
Terminated ==
  \A c \in Aps : ap[c] = "procedure" /\ result.id = task[c] => c \notin result.for

\* "one by one, in ascending order of processor handle number" (DxeMpLib.c:412):
\* an AP begins when those before it have returned.
InOrder ==
  all.id # 0 /\ SingleThread =>
    \A c, d \in all.for : c < d /\ all.id \in begun[d] => all.id \in done[c]

\* The BSP is in a service or a notification that need not wait for procedures
\* for ever, or a call made without waiting has a timeout and has not ended.
InProgress ==
  \/ bsp # "caller" /\ (request = NoRequest \/ request.event \/ request.finite)
  \/ all.event /\ all.finite
  \/ \E c \in Aps : this[c].event /\ this[c].finite

\* Every service and every notification returns and every call with a timeout ends,
\* its event signalled: the handshake of signal, State and counter does not hang,
\* however the APs were found, and without a timeout only a procedure can hold a
\* service up. It may hang in two cases, which are exempt: an INIT has hit an AP
\* inside SetApState, and the AP or the BSP spins on the lock that stays held
\* (MpLib.c:117); a reset has returned before its AP was back in the loop, and its
\* State may not be what the BSP takes it for (mp_reset).
CallsEnd == InProgress ~> (~InProgress \/ raced \/ Abandoned)

\* "Any task being executed by the AP will be aborted and the AP will be waiting
\* for a new task" (MpLib.c:1113): the State of an AP is only set to idle when the
\* AP will not write to it any more.
IdleApWaits ==
  \A c \in Aps : State[c] = "idle" => ap[c] \in {"count", "loop"}
=============================================================================
