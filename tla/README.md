# TLA+ models of the Cannon Lake silicon package

This directory specifies parts of the firmware under `src/Intel/CannonLakeSiliconPkg` in TLA+, checks the
specifications with TLC on small instances and proves theorems about them with TLAPS. The repository is the
reference silicon code for an Intel PCH and processor: 400 000 lines of C, headers and ASL, most of which programs
registers once, in a straight line, at boot. What has behaviour worth specifying is the code that runs for as long as
the machine does, under events it does not choose: the system-management-mode (SMM) drivers. They come first.

Paths below are relative to `src/Intel/CannonLakeSiliconPkg/`. "The dispatcher" is `Pch/PchSmiDispatcher/Smm/`.

## 1. The system

### Components, their state and how they interact

| Component | State it keeps | Operations | Talks to |
|---|---|---|---|
| Dispatcher core (`PchSmmCore.c`, `PchSmmHelpers.c`, `PchxSmmHelpers.c`) | the record list `CallbackDataBase`, `mReadyToLock`; in hardware the enable and status bits, `EOS` | register, unregister, dispatch an SMI, lock | every SMM driver (callbacks), the PCH |
| Sleep (`PchSmmSx.c`) | none but the registers | go to sleep from the end of a dispatch | the core, the PM1 registers |
| Periodic timers (`PchSmmPeriodicTimer.c`) | `mTimers[]`, `ElapsedTime` of each child | program the two timers, credit ticks, pause, resume | the core's list; the PMC |
| Software SMI children (`PchSmmSw.c`) | `mSwSmiCallbackDataBase` | register a value, dispatch a value, unregister | the permanent record in the core's list |
| SmmControl (`Pch/SmmControl/RuntimeDxe`) | none but `SMI_EN`, which it shares with SMM code | make a software SMI, clear it | the PCH, from outside SMM |
| IO traps (`IoTrap.c`) | `mIoTrapData`: a list per trap register, what is used of shared ranges; the registers and their copy in the S3 boot script | register, unregister, pause, resume, dispatch a cycle | the core, the GCD, ACPI through NVS |
| GPI, eSPI, USB, TCO, ACPI, PCIe children (`PchSmmGpi.c`, `PchSmmEspi.c`, `PchSmmUsb.c`, `PchSmiDispatch.c`) | records in the core's list; their own lists for eSPI | register, unregister | the core |
| ITBM (`Cpu/PowerManagement/Smm/PowerMgmtItbm.c`) | `mHighestPerfPerCore`, `mPerfCheckEvent`, a spin lock | check every core at each tick, send an SCI | the periodic timer, all processors, the OS |
| HWP LVT and DTS (`PowerMgmtHwpLvt.c`, `PowerMgmtDts.c`) | thresholds and flags per package | handle a thermal SMI | the same |
| HECI (`Me/Library/Private/PeiDxeHeciInitLib`, `MeEntryServer`) | two circular buffers in hardware, ready and reset flags on both sides | send a command and take its answer, with retries; reset | the management engine |
| MP initialisation (`Override/UefiCpuPkg/Library/MpInitLib`) | a state and a wake-up word per AP, counters, the calls in progress with their timeouts | start a procedure on one AP or on all, waiting or not; poll from a timer; abort; enable and disable | the APs |
| SPI, SMBus, I2C, SOL, mailboxes | registers, a few flags | one transfer at a time | devices |
| boot-time code: PCH, system agent, processor and memory initialisation, ACPI tables, policies | none that evolves | program registers once | hardware |

`PROJECT.json` lists all of them with their sources, their status and, for those that are not modelled, the reason.

### What is hard

*Interrupts do not wait for one another.* While the dispatcher walks its list, devices raise further events. What it
read at the head of its loop (`SMI_STS`, `SCI_EN`) is stale a moment later; what it read from a status bit is stale
as soon as the next record is examined.

*Clients run inside the walk.* A callback may register, unregister or pause, its own record included, while the
dispatcher holds pointers into the list.

*Sources share bits.* Five TCO sources share one enable bit, one of them has a second one; PM1 sources share one top
level bit; all children of a timer share its interval.

*Somebody must always be able to interrupt again.* The PCH asserts no SMI while `EOS` is clear. Forgetting to set it,
or waiting for it when a device never rests, stops the machine.

*Processors hand a lock over.* In ITBM one processor acquires a spin lock and another releases it, and passes its
loop variable by reference.

*Processors signal each other through memory.* MP initialisation starts an AP by a word it writes, and learns of the
end by a state and a counter that the AP writes. A timeout resets the AP in the middle of whatever it does.

*The other side is a program of its own.* The management engine answers late or never, and resets the interface when
it likes. The commands carry no identifier, so that nothing tells a late answer from the right one.

*One status bit stands for several requests.* Several CPUs may write a software SMI command before the SMI gets to
them; two cycles may be trapped before either is read.

*Registers are shared with code outside SMM.* `SmmControl` reads, changes and writes `SMI_EN` while SMIs come.

### What makes the components correct

- Core: a registered child keeps its source enabled, nobody else does; every pending event reaches every child of
  its source before its status is cleared; only registered callbacks are called; the PCH is never left mute; a
  dispatch ends; the lock is final; the write that sends the machine to sleep is not itself trapped.
- Periodic timers: the hardware ticks as often as the most demanding child asked; a tick is credited with what has
  really passed; every child is called, and not early; a pause holds.
- ITBM: one processor at a time, every processor, each its own entry, an end to every tick, and the OS told.
- Software SMIs: each command reaches the child registered for its value, once, whichever CPU wrote it; no two
  children have one value; `SmmControl` leaves the children's enable bits alone, and its command comes through.
- IO traps: addresses given out of shared ranges do not overlap; a child's cycles stay trapped, whoever else comes and
  goes; a cycle reaches its child and no other; nothing is left pending where nobody looks.
- HECI: neither side overruns a buffer; commands and answers arrive whole; a call returns the answer to its own
  command or an error, in the end.
- MP: success means that the procedure has run on every AP, once; a procedure that timed out is stopped; in order
  where that is asked for; every service returns.

## 2. Plan

| Order | Module | Of | State |
|---|---|---|---|
| 1 | `SmiDispatch` | dispatcher core and sleep | done, ten theorems |
| 2 | `SmiPeriodicTimer` | periodic timers over the core's walk | done, five theorems |
| 3 | `ItbmPeriodicSmm` | ITBM over processors | done, four theorems |
| 4 | `SwSmi` | software SMI children, composed with SmmControl on several CPUs | done, five theorems |
| 5 | `IoTrap` | trap registers and shared ranges, with S3 | done, six theorems |
| 6 | `HeciService` (abstract), `HeciExchange` which implements it | HECI commands with packets, retries and resets | done, six theorems |
| 7 | `MpInit` | StartupAllAPs, StartupThisAP, EnableDisableAP with timeouts, and the APs | done, seven theorems |
| 8 | `EspiSmi`, `GpiSmi` | the second list of the eSPI master; pads, owners and enables | |
| 9 | `SpiCycle`, `SmbusTransfer` | one transfer with protection or ownership around it | |

Every safety property that a passing run checks is now stated by a theorem. Wanted next: the theorems of modules 8 and 9
when they are written.

## 3. The modules and the code

### `SmiDispatch`

The hardware is a set of enable bits, a set of status bits, `SCI_EN`, `EOS` and one latched SMI. A *source*
(`PCH_SMM_SOURCE_DESC`) is a name with three attributes given by constants: its enable bits, its status bit and the
bit of `SMI_STS` above it. The database is the sequence `db` of pool blocks; `desc` says what every block holds, a
freed one included, because the code reads freed blocks.

| Action | Code |
|---|---|
| `Raise`, `EnterSmm` | devices and the CPU; a status may rise between any two steps of the dispatcher |
| `DriverRegister`, `CallbackRegister` | `PchPiSmmCoreRegister` and the registrations of `PchSmiDispatch.c`, whole: insert, clear, enable |
| `DriverUnregister`, `CallbackUnregister` | `PchSmmCoreUnRegister`, whole: remove, disable what nobody needs, free |
| `SmmReadyToLock` | `SmmReadyToLockCallback` |
| `StartDispatch` .. `Exit` | `PchSmmCoreDispatcher`, one action per turn of each of its loops and one per access to the status registers |
| `CallbackToggleSciEn` | the ACPI enable/disable software SMI handler, which is not in this package |
| `SleepArm`, `WriteSlpEn`, `WakeFromS1` | `PchSmmSxGoToSleep` |

A registration is one step: SMM runs on one processor and is not interrupted, and an event that rises in the middle
of a registration is cleared by its end, as if it had risen before. The dispatcher is many steps, because events that
rise in it are what matters. `due` is history: the children of the source being served that are still to be called.

`MCSmiDispatch` gives the constants the values of the code's own descriptions: the TCO sources that share `TCO_EN`
(with the intruder's `INTRD_SEL`), the PM1 sources below one bit, `PRBTNOR` and `WADT`, which have no enable bit that
the dispatcher sets. Each run chooses the few that its question needs.

### `SmiPeriodicTimer`

`minReq` and `rate` are kept apart as the code keeps them apart: `mTimers[].MinReqInterval`, credited at each tick,
and the rate field of the PMC, which determines when ticks come. `Register` contains the call of
`PchSmmPeriodicTimerProgramTimers` for both timers, with the new child counted, although it is inserted later.
`real` is history: the time that has passed for a child since its last call. A dispatch is reduced to what the timers
see of the core: the walk, the context comparison that credits and compares, the callback, and `ClearSource`.

### `ItbmPeriodicSmm`

The BSP's callback and `CheckHwpCapabilities` on every processor, each a small program of its own with the spin lock
between them. `SmmStartupThisAp` is the non-blocking one, which returns when the AP has been told; the blocking one
allows fewer behaviours, and the code's wait loop shows that it does not count on it. Performance may change between
any two steps. `mHighestPerfPerCore` starts with what the pool held.

### `SwSmi`

Both ends of a software SMI. Outside SMM every CPU may write a command to port 0xB2 or be at some other IO when the SMI
comes; the CPUs of `Activator` run `Activate`, whose two read-modify-writes of `SMI_EN` are a step per access
(`ReadSmiEn`, `WriteSmiEn`), so that an SMI, with all that SMM code changes, fits in between. Inside,
`PchSwSmiDispatcher` is a step per save state and per record. `io` is what `EFI_SMM_CPU_PROTOCOL` reads from the save
states. A link that is read in a freed record is any record or the end of the list (`NextOf`).

| Action | Code |
|---|---|
| `SmmClear`, `ReadSmiEn`, `WriteSmiEn`, `SmmTrigger` | `SmmControlDriver.c`, one access to a register each |
| `Register`, `Unregister` | `PchSwSmiRegister`, `PchSwSmiUnRegister`, from drivers (`DriverChanges`) and callbacks |
| `ReadSaveState`, `WalkOn`, `CallChild`, `CallbackReturns`, `WalkEnds` | the two loops of `PchSwSmiDispatcher` |
| `StartsDispatcher`, `DispatcherReturns`, `ExitSmm` | what the core does around it; `SmiDispatch` has it in full |

`owed` and `called` are history: the CPUs whose child is still to be called, and the calls made. `cleared` and `stale`
say when the code itself loses a command or an enable bit, because a CPU outside SMM writes over what it has read too
long ago.

### `IoTrap`

A trap register is its two dwords, cut into the fields that matter, and what the boot script would write to them. The
lists, `used`, `merge` and `acpi` are `mIoTrapData.Entry`. `RegisterOwn`, `RegisterPool` and `RegisterMerged` are the
ways through `IoTrapRegisterHelper`, `TurnOff` and `CutTop` those through `IoTrapUnRegisterHelper`. Whether a register
is free is read from its address, which range it is for from its byte-enable mask, as in the code. A cycle may be
trapped between any two steps, in particular between the write that turns a trap off and the one that clears its
status. `spoilt` is history: a second cycle has overwritten the first one's register, or the callback that runs has
freed the record that is read after it. A range is never cut (`CutTop`): `PoolDisjoint` says so, and it is proved.

### `HeciExchange` and `HeciService`

`HeciService` is what the comments promise the caller of `HeciSendwAck` and `HeciSendwAckWithRetry`: the answer to his
command, which has been performed, or an error, in the end. It keeps this as long as nothing of an earlier attempt is
left (`reliable`). `HeciExchange` is the code: the registers, the two circular buffers dword by dword with their 8-bit
pointers, the packets, the waits with their timeouts, the reset by either side, and the ME, which takes a packet,
performs a command, answers or does not. The host is one thread; its step ends where it reads a register the ME may
change. A message is the number of its call, so that a dword of a wrong message is recognised wherever it turns up.
What the host takes for a header may be any dword (`AsHeader`). The refinement maps `issued` to the number of commands,
`busy` to a host that is not idle and `reliable` to an empty `spoilt`, which collects what the code lets happen to a
command: something left behind (`stale`), a reset between two packets (`torn`), the request overwritten by part of an
answer (`clobbered`), a request one byte longer than a number of full packets (`cut`). `HeciSend` sets `MessageComplete`
in the last full packet of the latter and sends the byte that is left as a message of its own (`HeciCore.c:1106`).
`Cutting`: what such an attempt leaves at the ME is not undone by a reset that comes while it lasts.

### `MpInit`

The BSP and each AP are a program each, over `CPU_AP_DATA` and `CPU_MP_DATA`. `ApLoop` is `ApWakeupFunction`, a step
per access to what the BSP may change. `SetApState` on an AP is three of them: `AcquireApLock`, `WriteState`, and the
release in `BeginProcedure` or `Finish`; an INIT between the first and the last leaves `ApLock` held for ever
(`Abandoned`). On the BSP, which nobody resets, it is one step that waits for the lock. The BSP's part is `WakeUpAP`
(`Wake`, the loop of `GiveFunction`, `SetReady` and `Signal` over the processors `untold`, `SendInitSipiSipi`,
`WaitApWakeup`), `ResetProcessorToIdleState` (`CallReset`, `ResetDone`), `CheckAllAPs` (`ScanOne` .. `FailEnd`), `CheckThisAP`
(`ThisFinished` ..), `CheckAndUpdateApsStatus` (`UpdateAll`, `UpdateThis`) and the services, which call it first. `back`,
`polling` and `request` stand for the stack. `DisableAP` on a locked `State` is a call not made yet. Two pairs of accesses
of the BSP are one step: the look at `State` in `CheckAllAPs` and `CheckThisAP` with what follows from it, up to the write
of idle (an AP that is finished does not write its `State` again), and the two passes of `StartupAllAPs`. `SignalEvent` and
`WaitEvent = NULL` (`DxeMpLib.c:171`, 172) are one step as well, which is an assumption about the callers: the notification
of a `WaitEvent` does not call these services if it runs inside `SignalEvent`. From the timer it does not run there, as
the timer is at TPL_NOTIFY; where a service polls for another call (`MpLib.c:1952`, 2111) it may. Timeouts expire at any
time. A procedure may hang. `hlt` and `mwait` are the two kinds of loop: a reset takes an INIT-SIPI-SIPI in both, which
restarts the AP wherever it is, waking an AP only in the first.

`ListLemmas` has what the proofs need of `Append` and `RemoveAt`; `SmiDispatchProofs`, `SmiPeriodicTimerProofs`,
`ItbmPeriodicSmmProofs`, `SwSmiProofs`, `IoTrapProofs`, `HeciExchangeProofs` and `MpInitProofs` have the theorems.

## 4. What the runs check

`tlc -config <cfg> <module>` in this directory; all runs together take some ten minutes.

`MCSmiDispatch`, `MCSmiPeriodicTimer`, `MCItbmPeriodicSmm`, `MCIoTrap`, `MCHeciExchange` and `MCMpInit` extend the
modules they are named after with the constants' values that a `.cfg` cannot express (sets of records, functions,
sequences); `SwSmi` needs no such values and is checked as it is.

| Run | Question | Verdict |
|---|---|---|
| `dispatch_enable` | enable bits under shared bits, failing allocations and callbacks that unregister anything; `EOS`; sleep | holds |
| `dispatch_served` | every child called before its event is cleared; no call of a removed record; no orphaned enable bit | holds for sources with a top-level bit of their own and callbacks that unregister only themselves |
| `dispatch_live` | a dispatch ends; events of registered sources are served; the SMIs end | holds |
| `timer_shared` | timers follow their children, with rate and credited interval in agreement | holds |
| `timer_calls` | no child is credited too much; every child whose timer runs is called again | holds |
| `itbm_handover` | all processors are checked, each writes its own entry, the callback returns, a change found is told | holds |
| `sw_smi` | every command gets to its child, once, from whichever CPU; unique values; `SMI_EN` kept; an activation comes through | holds |
| `io_trap` | shared ranges disjoint, cycles trapped as long as registered, delivered to the right child, in the end; no storm; ACPI told | holds |
| `heci_exchange` | buffers, commands and answers whole; the calls implement `HeciService` | holds |
| `mp_startup` | success, termination, order, once per call; services return and calls with a timeout end | holds, up to the first reset that returned early, and the last (`CallsEnd`) where no INIT hit an AP inside `SetApState`; of the safety properties only once per call needs the former (section 5) |
| `heci_ack` | no command gets the answer to an earlier one | violated, see below |
| `mp_reset` | an AP whose state is idle is in its loop | violated, see below |

Each run's properties are those that say something about the behaviours it generates. The type invariants of
`SmiDispatch`, `SmiPeriodicTimer`, `ItbmPeriodicSmm`, `IoTrap` and `SwSmi`, and `LockFreezes`, `NextStillListed`,
`FastEnough` and `Serialized`, are proved for all values of the constants (section 5) and are not checked again.

### Disagreements found while modelling

- `heci_ack`: `HeciSendwAck` tries again after a timeout without resetting the interface. The answer to the first
  attempt, come late, is returned for the second, whose own stays in the buffer for the next command, whatever it is.
- `mp_reset`: `ResetProcessorToIdleState` waits for `FinishedCount >= 1`. Another AP that finishes meanwhile counts as
  well, and so does the aborted run itself if it counts after the counter was cleared. The function then returns
  while the AP has still to write its state.

Three more were met and have no run of their own. A passing property exempts the first two by name:

- `HeciCore.c:1106`, against "of any length" (1004): a request of 4 * `H_CBD` - 3 bytes, or of that many after some full
  packets, is cut in two messages. The run `heci_exchange` has such a request, of 9 bytes; `CommandIntact` holds of it
  because it is `cut`. `SET_RULE` has 13 bytes, `READ_FILE` has 77 and `HeciSetFileMsg` sends 77 and the data; with a
  buffer of 32 dwords, data of 48 bytes make 125, which is cut.
- `MpLib.c:117`: an AP that is reset inside `SetApState` leaves its lock held. It spins in its next `SetApState`, or the
  BSP does (861, 897, 1134, 1202, 1266, 1765), and the service or the timer notification does not return. `mp_startup` goes on
  from there, and `CallsEnd` exempts it through `Abandoned`.
- `DxeMpLib.c:172`: `WaitEvent` is cleared after `SignalEvent`, and with it that of a call which the notification has
  made. Not modelled (section 3).

The following can be reproduced by changing the constants of a run, or what the second column names, and naming the one
property:

| Start from | Change | Violates | Behaviour |
|---|---|---|---|
| `SmiDispatchServed.cfg` | `Source`, `StsBit` = {"sw", "sx", "mc", "century"}, `Registrable` = {"mc", "century"}, `CallbackOps` = {}, `MaxRaise` = 2 | `ServedBeforeCleared` | `ClearPendingSmiStatus` clears NEWCENTURY "if it's not handled", but tests only that it is pending: with an earlier source pending too, the registered child loses its event |
| `SmiDispatchServed.cfg` | four blocks; `Source`, `StsBit` = {"sw", "sx", "button", "alarm"}, `Registrable` = {"button", "alarm"}, `CallbackOps` = {} | `ServedBeforeCleared` | the status of a PM1 source is read live per record; if it rises between the examination of its first child and of its second, the first is not called and the status is cleared |
| `SmiDispatchServed.cfg` | `CallbackOps` with "unregisterOther" | `NextStillListed` | a callback removes the record after its own, which the saved link points to |
| `SmiDispatchServed.cfg` | `AllocMayFail = TRUE` | `NoOrphanEnable` | a source is enabled with no record |
| `SmiDispatchLive.cfg` | four blocks, `CallbackOps` = {"register", "unregisterSelf"} | `DispatcherReturns` | two children that re-register themselves |
| `SmiTimerCalls.cfg` | `Rec` = {r1}, `Period` = {1}, `MaxReal` = 4, `MaxOps` = 3, `CallbackOps` = {"pause"}, `Spec` | `PauseHolds` | a pause inside the child's own callback is undone when the dispatcher restarts the timer |
| `SmiTimerCalls.cfg` | "register" in `CallbackOps` or "unregister" in `DriverOps` | `NeverAhead` | a child credited with a tick that began before it registered, or with a pending tick at a longer interval |
| `ItbmPeriodic.cfg` | `NumberOfCpus` = 2, `ApsMayBeAbsent = TRUE`, `MaxChanges` = 1, no deadlock check | `CallbackReturns` | if `SmmStartupThisAp` fails, nobody releases the lock the BSP waits for |
| `ItbmPeriodic.cfg` | `NumberOfCpus` = 2 | `OsLearns` | the comparison is with what SMM read last, not with what the OS was told |
| `IoTrap.cfg` | `Requests <- PauseRequests`, `CallbackOps` = {}, `MayRunOut = FALSE`, `Spec` | `PauseStopsOwn` | a register with byte-enable mask 0 reads as one byte below its address, and is paused in place of that byte's own |
| `SwSmi.cfg` | "unregisterSelf" in `CallbackOps` | `CalledOnce` | the link of a freed record leads back to it |
| `HeciExchange.cfg` | `SendAgain` without `clobbered` | `CommandIntact` | part of an answer in the shared buffer is sent in place of the command |
| `HeciExchange.cfg` | `spoilt` unchanged where `OneByteOver` changes it | `CommandIntact` | the first packet of a request of 9 bytes is taken for all of it |
| `MpStartup.cfg` | `CallsEnd` without `Abandoned` | `CallsEnd` | an AP is reset while it holds `ApLock`, and the BSP waits for it for ever |
| `MpStartup.cfg` | `Overlap = TRUE` | `SuccessMeansDone` | `StartupThisAP` gives an AP that is in use a second procedure; the end of one counts for the other |

### Bounds, and why they are enough

- Three pool blocks (four where the table above says so), one of them the permanent record: two children of one source, or one
  each of two, or one that is freed and its block used again. With fewer, nothing is shared; the race needs a third
  record before the two siblings. That more blocks change nothing is what the theorems say for what is proved.
- `MaxRaise` 2 or 3: one event that starts the dispatch, one that comes while it runs and one after it. It also makes
  devices fall silent at last, which `EventServed` and `SmisEnd` speak of; `DispatcherReturns` does not need it.
- `EscapeLimit` is the code's own `EscapeCount = 3`.
- `MaxOps` 3 or 4: what a client does per behaviour of the timers, enough for two children that share a timer, one
  that leaves and one that comes in its place. `MaxReal` 6 tells real time apart up to the largest sum that
  `ElapsedTime` reaches (`RealAssumption`), beyond which it only says "more".
- Intervals 1, 2 of the SWSMI timer and 3 of the periodic timer for the code's eight: only the order and the
  division between the timers matter. Periods of 1 and 3: a child called every tick, and one that accumulates.
- Three processors: a BSP with APs on either side of it in the loop, whichever processor it is. `MaxChanges` 3: a
  change found, one while it is being told and one back.
- `sw_smi`: two CPUs, one of which uses `SmmControl`: a command beside another CPU's, an activation beside a command
  and beside another SMI. Two records and the values 0 and 1 below `MAXIMUM_SWI_VALUE` = 2, which `SmmControl` uses as
  the code uses 0xFF: a value asked for, one made up, one taken. `MaxChanges` 3: a child comes, another, one goes.
- `io_trap`: two registers and two children of any kind, a shared range of 8 bytes for the code's 256, of which one
  child or more fills a part; requests of one byte, a dword, all of the range, a word and an Ex trap with a byte
  enable; cycles in each of them. `PoolBases` has one range, so that the second request for one runs out of them, as the
  GCD may. With a third register nothing new is shared.
- `heci_exchange`: buffers of three dwords, so that a command of 12 bytes and an answer of 12 bytes are two packets each,
  and one of 9 bytes, 4 * `Depth` - 3, is cut in two messages;
  pointers modulo 8, which wrap in the second command; two attempts for the code's three; two calls, so that what the
  first leaves meets the second; one reset that the ME starts, and any number that the host does.
- `mp_startup`: two APs, so that one finishes while the other hangs or is reset; two calls, the second made while the
  first, which has an event, is in progress. `Overlap = FALSE`: callers leave an AP alone that another call is for, as
  nothing in the code protects them if they do not. The constraint `NotRaced` stops at the first reset that returned
  early, which `mp_reset` shows: after it an AP may begin a procedure twice and a service may wait for a signal that
  nobody clears. It cuts nothing that the properties speak of: `OncePerCall` and `CallsEnd` exempt what follows in their
  formulas (`raced`), and `SuccessMeansDone`, `InOrder` and `Terminated` hold beyond it, which is proved, not run.
- Symmetry is used on the interchangeable blocks, in runs without liveness only.

### Fairness

- `SmiDispatch`: weak fairness of the dispatcher's own steps and of entering SMM on a latched SMI. SMM runs to
  completion on the processor, callbacks included: `CallbackReturn` is one of the dispatcher's steps. Nothing is
  assumed of devices, drivers or wake events.
- `SmiPeriodicTimer`: weak fairness of the dispatcher and of each timer's expiry; strong fairness of the dispatch of
  each timer, since a pass over the list takes far less than the shortest interval (1.5 ms at the least), so that
  between two ticks of one timer the other's pending tick gets its turn.
- `ItbmPeriodicSmm`: weak fairness of every processor in SMM and of the next tick, strong fairness of the OS taking an
  SCI, which the ticks interrupt again and again.
- `SwSmi`: weak fairness of the handler in SMM, strong fairness of a CPU's next step in `SmmControl`, which SMIs
  interrupt again and again but not for ever: between two of them the CPU gets on.
- `IoTrap`: weak fairness of the second write of a service, strong fairness of the dispatch of a pending status and of
  the return of a callback, since drivers may call services in between.
- `HeciExchange`: weak fairness of the host, whose timers expire. Nothing is assumed of the ME, not even that it answers.
- `MpInit`: weak fairness of the BSP, of the performance counter and of each AP in its loop; strong fairness of the timer
  notification. A procedure is only assumed to return where no call is for its AP (a disabled AP that a broadcast woke);
  under `CallsEnd` all others may hang. Spinning on a lock that is not abandoned ends because its holder runs.

Each property of a passing run has a mutant in `PROJECT.json`: a plausible slip in the definition of one operator,
under which TLC finds the property violated. The `Mutant...` operators beside the definitions are these slips; no
specification uses them.

## 5. What is proved

`tlapm <module>` checks each of `ListLemmas`, `SmiDispatchProofs`, `SmiPeriodicTimerProofs`, `ItbmPeriodicSmmProofs`,
`SwSmiProofs`, `IoTrapProofs`, `HeciExchangeProofs` and `MpInitProofs`. The theorems hold for every value of the
constants that satisfies the named assumptions of the modules, which say little more than that the constants have their types. For `SmiDispatch`: the permanent
record's block is one of the blocks; the descriptions are total; sources with equal enable and status bits are equal;
the Sx source has an enable bit. For `SmiPeriodicTimer`: intervals are positive, each belongs to a timer, each timer
has one. For `ItbmPeriodicSmm` and `SwSmi`: there is a processor. For `IoTrap`: requests and cycles are what the
protocols' headers allow, one that is not an Ex request has no byte enables and a full mask (`IoTrap.c:877`), and the
GCD's ranges are aligned and do not overlap. For `HeciExchange`: a buffer holds more than
one dword and fewer than its pointers tell apart, and requests have a length. For `MpInit`: there is an AP.

| Module | Theorem | States | Needs besides |
|---|---|---|---|
| `SmiDispatchProofs` | `TypeCorrect` | `TypeOK` | |
| | `ChildrenStayEnabled` | `EveryChildEnabled` | |
| | `NoOrphans` | `NoOrphanEnable` | `~AllocMayFail` |
| | `Locked` | `LockFreezes`: the sources of the dispatcher, but for the Sx bit | |
| | `SleepGoesThrough` | `SleepNotTrapped` | |
| | `NeverMute` | `NotMute` | |
| | `NextListed`, `OnlyRegisteredCalled` | `NextStillListed`, `CallsRegistered` | callbacks do not unregister other records |
| | `OwnSourceServed` | `ServedBeforeCleared` of sources with bits of their own | the same, `~AllocMayFail` |
| | `ServedFirst` | `ServedBeforeCleared` | the same, and drivers register for such sources only |
| `SmiPeriodicTimerProofs` | `TypeCorrect` | `TypeOK` | |
| | `TicksFastEnough`, `CreditsTheRate` | `FastEnough`, `RateAgrees` | |
| | `TimersRunForChildren` | `TimersFollowChildren` | `NoPauses` |
| | `NotCalledEarly` | `NeverAhead` | `StableWhilePending` |
| `ItbmPeriodicSmmProofs` | `TypeCorrect` | `TypeOK` | |
| | `MsrReadsSerialized` | `Serialized` | |
| | `NotifiesKnowingAll` | `AllChecked` | |
| | `OwnEntryOnly` | `OwnEntry` | |
| `SwSmiProofs` | `TypeCorrect` | `TypeOK` | |
| | `UniqueValues` | `ValuesUnique` | |
| | `KeepsEnables` | `EnablesKept` | |
| | `NoCommandMissed` | `NoneMissed` | |
| | `OncePerCommand` | `CalledOnce` | callbacks do not unregister themselves |
| `IoTrapProofs` | `TypeCorrect` | `TypeOK` | |
| | `SharedRangesDisjoint` | `PoolDisjoint` | `NoLowPorts` |
| | `AcpiAgrees` | `AcpiReportsPools` | `NoLowPorts` |
| | `NeverStorms` | `NoStorm` | |
| | `RightChildCalled` | `RightChild` | `NoLowPorts` |
| | `AlwaysCovered` | `Covered` | `NoLowPorts`, `NoLookalikes` |
| `HeciExchangeProofs` | `TypeCorrect` | `TypeOK` | |
| | `NeverOverrun` | `NoOverrun` | |
| | `RequestsIntact` | `CommandIntact` | |
| | `AnswersWhole` | `AnswerWhole` | |
| | `ServesCallers` | every step of `ImplementsService` | |
| `MpInitProofs` | `TypeCorrect` | `TypeOK` | |
| | `FailedApsTerminated` | `Terminated` | |
| | `SuccessIsDone` | `SuccessMeansDone` | `~Overlap` |
| | `OneByOne` | `InOrder` | `~Overlap` |
| | `RunOnce` | `OncePerCall` | `~Overlap` |

*Dispatcher.* `TypeOK` is inductive. It has to say that `db` holds no block twice, or removing a block would not take
it out of the list, and that every listed block describes a source. Its proof has a lemma per part of the next-state
relation with one step per action; `Unchanging` says once what an action that leaves a part of the state alone keeps.
`EveryChildEnabled` and `NoOrphanEnable` are inductive over `TypeOK`. `StepKinds` sorts the actions by what they do to
enable bits and records: most do nothing, one appends a record and enables its source, one removes a record and
computes `EnBitsWithout`, and the sleep actions touch the Sx bit only. Only the second and third kind need thought.
`NeverMute` needs two strengthenings: the permanent record is always listed, because no handle to it leaves
`PchSwDispatchInit`; therefore the loop is entered and left only through `SetAndCheckEos`, which gives `Heard`.
`SleepGoesThrough` needs that the Sx bit is off from `SleepArm` to the write of `SLP_EN`. `NextListed` needs
`WalkListed`: in the walk the saved link is a listed record *other than the one called*, which a callback that
unregisters its own record cannot remove. `OnlyRegisteredCalled` follows from it.

`ServedFirst` is about the walk as a whole. `SeenActive` says that what was active when the search began stays so, and
`NonePassed` that the search has passed no record of an active source; hence the first record found is the first of its
source. `StillDue` says that a child still owed a call is at or behind the saved link, whatever callbacks append or remove
in front of it (the order lemmas of `ListLemmas`). The source must have a status bit and a top-level bit of its own
(`OwnSource`): section 4 has the runs in which a child of a PM1 source, or of the century source, loses its event. An
allocation that fails leaves a source enabled that nobody serves.

*Timers.* The invariant is `IInv`: types, `FastEnough` and `RateAgrees` together, and `WalkOK`, that a walk is over one
timer's children and its saved link is not the record being called. The three need each other: a child that is not
due keeps an `ElapsedTime` within its type only if the tick was credited with an interval and not with the minimum over
no child, which the agreement with the rate excludes. `MinReqIntervalLeast` says that the code's loop finds the least
interval (by the well-foundedness of the natural numbers), `ProgramTimersProps` what one call of
`PchSmmPeriodicTimerProgramTimers` therefore leaves behind, whatever children it is called for.
`NotCalledEarly` needs `AheadInv`: what a child has been credited with, and what it will be credited with for a tick that
is pending or for a walk that has still to come to it, has passed. Programming a timer again does not break this while its
children are the same. Nobody may therefore join a timer from a callback, or leave one outside it (`StableWhilePending`):
section 4 has the run in which a child is called early otherwise.

*ITBM.* The invariant is `IInv`: types; `Handover`, that a processor in `CheckHwpCapabilities` implies that the lock is
held, the BSP waits for it and the loop variable stands still at its number; `Progress`, which processors have been
checked at each place of the BSP; `FlagRight`, that the flag tells whether a checked processor's entry changed. It
does not assume that every processor joins the SMI: if one is absent the lock is never released, and the BSP does
not get to the place where `AllChecked` speaks.

*Software SMIs.* `UniqueValues` is inductive over `TypeOK`, which has to say that the list holds no record twice.
`KeepsEnables` needs `DataFresh`: a CPU that is about to write `SMI_EN` and is not `stale` has read the child's bit as it
is now. `NoCommandMissed` needs besides that the status is set while a command waits (`StatusHolds`), and `StillToCome`:
a CPU that is owed a call has not been looked at, or its child is not behind the link. Its proof covers callbacks that
change the list anywhere, since an unregistered child is owed nothing and others keep their order (`ListLemmas`).
`OncePerCommand` needs the converse, that a child called is behind the link (`OnceInv`), which a link read from a freed
record does not keep; hence its hypothesis.

*IO traps.* `TypeCorrect` needs `ListInv`: each child is in the list of its own register, once. `SharedRangesDisjoint`
needs `PoolInv`: a register that looks free is nobody's, one with `MergeDisable` is one child's, a shared one has a range
of the GCD for itself, and its children lie in the part that is marked used, only one with all of the range at its end.
The first of these fails for a child at port 1, 2 or 3, whose register has the address 0 and so looks free: `NoLowPorts`.
`NeverStorms` needs that a status pending at a register that is off is the one about to be cleared.

`RightChildCalled` and `AlwaysCovered` rest on `ContentInv`: a register with `MergeDisable` is programmed for one request,
whose record its child has; a shared one is on, has no byte enables and traps the types of all its children; the boot
script has the same. `AskedIffTrapped` is the arithmetic of `SetIoTrapLowDword` and `SetIoTrapHighDword`: the dword, length,
byte enables and mask written for a request make the PCH trap just the cycles that the request names. `DeliverInv` adds that a
status is pending only at a register that the cycle fits, and `CycleBounds` that the dispatcher's comparison with the
first and the last byte of the cycle finds a child that asked for all of them. `AlwaysCovered` needs `PauseInv` besides:
children of one range are twins, and of another child only its own pause has turned the register off, so that its resume
finds that register and no other. Pause and resume look for a register by its contents, from which an Ex trap may seem to
be for a range that nobody asked it for; `NoLookalikes` excludes that such a range is another's, as it is in the run of
section 4 that violates `PauseStopsOwn`. The requests of the run `io_trap` satisfy both hypotheses.

*HECI.* `SafeInv` needs no hypothesis: types, `NoOverrun`, that what lies in the buffer to the ME is whole packets but for
the last (`WholePackets`), and that a host at work has a command and attempts left. Its core is arithmetic of the
pointers: they differ modulo `PtrMod` by what the buffer holds, before and after they wrap. `ExchangeInv` adds
`RegistersInv` (an interface that is down is empty; one that the host has not marked ready is being initialised or
reset), `HostInv` (what the host's variables mean where it is), `SendInv` (a header announces what the loop then writes,
and `MessageComplete` is in the last packet and no other, unless the request is `cut`), `CutInv` (what is left of such a
request is counted as `stale` as long as its call lasts) and `Framed`: as long as nothing of an earlier attempt is left,
what is on its way is, dword for dword, a part of this request or of its answer, and the two counts of it, the host's and
the ME's, agree at every place of `HeciSend`, `HeciReceive` and the reset. `Framed` says nothing once `stale` is in
`spoilt`, which is where the code makes no promise (`heci_ack`) or does not keep it (`HeciCore.c:1106`). No theorem
restricts the lengths of requests: those one byte longer than a number of full packets, which packed messages of this
package may have, are among them, and the invariant says in which state they leave the interface. `ServesCallers` shows
that the initial state is one of `HeciService` and each step a step of it or a stutter; that every call returns is the
fairness part of `ImplementsService` and stays with TLC.

*MP initialisation.* `SafeInv` holds whatever the callers do: `Control` says what the BSP holds where it is (which stands
for its stack), `WakeOK` how far `WakeUpAP` is in its loop (which processors are still `untold`, and that the one it is at
has its `ApFunction` before its `State` and its signal), `Accounts` that `RunningCount` and the processors still waiting
add up to `StartCount`, `Signals` who may have a start-up signal, `Numbered` and `Heard` that an AP has heard of no call
that was not made, `Stopped` that an AP which was reset has dropped its procedure and one whose state is finished has left
it, and `Legitimate`, from which `Terminated` follows: an AP may run the procedure of a call only while the call waits for
it. `Terminated` therefore needs neither `~Overlap` nor `~raced`: the early return of a reset loses track of where the AP is
on its way to the loop, but the INIT-SIPI-SIPI has already made it drop the procedure. None of the invariants is about
`ApLock`, and none excludes an abandoned one: that they hold with the writes of `State` spread over the steps of
`SetApState` shows that safety does not rest on the lock.

`SharedInv` is for callers that leave an AP alone while a call uses it (`~Overlap`). `Exclusive`: an AP is in one call at a
time. `Runners`: an AP that sat in its loop when its call was made is to run the procedure, runs it, has finished or
is being reset, at every point between the two `State` writes of either side; hence a `State` that reads finished is
this procedure's and not an earlier one's, and `Counted`: an AP that `CheckAllAPs` no longer waits for has returned.
With `Accounts` this is `SuccessMeansDone`. `Ordered`: an AP has been given the procedure, be it only in
`ApFunction`, when those before it have returned. `Fresh`: an AP that `WakeUpAP` has yet to come to has not begun the call
that is being made. `Once`: an AP has
not begun what it is about to begin, or what it has been made ready for, and in single-thread mode all APs but the first
still waiting are idle. `Once` alone is conditioned on `~raced`, as is `OncePerCall`: an AP that comes
out of a reset after its state was set to idle may be started twice.

The strengthenings were checked with TLC on the instances of the runs before they were proved.

Only model-checked is what is temporal under fairness, which is out of the prover's reach as `ENABLED` is:
`DispatcherReturns`, `EventServed`, `SmisEnd`, `ChildCalled`, `CallbackReturns`, `ChangeTold`, `Activates`, `Answered`,
`CallsEnd` and the liveness part of `ImplementsService`. No module uses `RECURSIVE`, and nothing
that is stated here needed induction over data.

## 6. What is not modelled

In `SmiDispatch`: the latch behind `SMI_STS.TCO` that stays after a TCO status is cleared; the value of `SMI_EN` as
cached at the head of the loop (the live one is used; the code passes the cached one for a part of the bits);
an operating system that writes the PM1 enable bits by itself; the restart after S3 or S5, which is a new behaviour from
`Init`; SMI handler profiling; handles used after they were unregistered; requests with invalid parameters, which
change nothing; the contexts of children beyond "it matches or not".

In `SmiPeriodicTimer`: the lock, failing allocations and the unregistration of another record by a callback
(`SmiDispatch` has them); time below one tick, in particular that a timer re-programmed in the middle of a tick
restarts; rejected intervals; `GetNextShorterInterval`, which reads a constant table.

In `ItbmPeriodicSmm`: the other handlers of the package, and the ACPI code that takes the event, which is external.

In `SwSmi`: the core's other sources, but for one that SMM turns on and off; CPUs that enter SMM late, which the
processor driver outside this package prevents; widths and directions of IO other than a byte written to 0xB2, all of
them `OtherIo`.

In `IoTrap`: requests with invalid parameters, which change nothing; the GCD, of which only the ranges it gives are here.

In `HeciExchange`: receiving without blocking (`HeciReceive` with `NON_BLOCKING`); the ME's operation modes, which
refuse a call before anything is sent; interrupts, which the code does not use; `HeciSend` and `HeciReceive` called by
themselves; the bytes of a message beyond whose they are and how many.

In `MpInit`: the first wake-up, which counts the processors; switching the BSP; the PEI variant, which has no calls
without waiting; `FailedCpuList`; the entry into the operating system; the single AP that `StartupThisAP` gets while it is
in use (see the table in section 4); services called from the notification of a `WaitEvent` inside `SignalEvent` (section 3).

Components without a module are listed in `PROJECT.json` with the reason: planned, straight-line boot code, pure I/O,
vendored or third-party protocol code, or numeric training algorithms out of a model checker's reach.

## 7. Further hazards

`PROJECT.json` lists the hazards that matter most with the properties about them. These were met besides:

- `PchSmmCore.c`: two children whose callbacks re-register themselves keep the walk going (798); an event of the source
  that is being dispatched is cleared with the first one (879); the block of a record is read after it was freed (376,
  for the handler profile, and 875, for its `ClearSource`: the model reads whatever the block holds then).
- `PchSmmHelpers.c`: registering a second child of a source clears an event the first has not been called for (303);
  `PchSmmClearSourceAndBlock` waits without a bound (378). `PchSmmSx.c:254`: after S1 the Sx SMI is enabled again although
  its last child may be gone.
- `PchSmmPeriodicTimer.c:631`: pausing one child stops all children of its timer.
- `PowerMgmtItbm.c`: a change found while `SCI_EN` is clear is never sent (174); the array is compared before it was ever
  written (248).
- `PchSmmSw.c:174`: values may run out, and 0xFF must not be given out (part of `TypeCorrect`).
  `SmmControlDriver.c:255`: the status of another CPU's command is cleared (`NoneMissed` exempts it through `cleared`).
- `IoTrap.c`: a child at port 1 to 3 makes its register look free (520); a mask of 0 reads as bit -1 (1058); two children
  of one range are confused by pause and resume (1072, exempted as `twins`); a pause is over after S3 (1089); the record is
  read after its callback (316, exempted as `spoilt`).
- `HeciCore.c`: a last packet of no bytes fails a call (902); `H_RST` that is left set makes the next reset do nothing (1493); without
  `MeHeciTimeoutsEnabled` some waits have no bound (668).
- `MpLib.c`: a broadcast wakes disabled APs too (861); `StartupThisAP` takes an AP that is in use (2117), one that a
  single-threaded `StartupAllAPs` has still to start among them (1263); `FailedCpuList` is sized by a counter that others
  change (1307); an AP may report late while processors are counted (459); `SwitchBSPWorker` returns with interrupts
  disabled (1628).
