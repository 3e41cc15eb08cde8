-------------------------- MODULE SmiPeriodicTimer --------------------------
(***************************************************************************)
(* The SMM periodic timer dispatch and control protocols                   *)
(* (Pch/PchSmiDispatcher/Smm/PchSmmPeriodicTimer.c).                       *)
(*                                                                         *)
(* Children ask for a tick interval and a period. All children of one of   *)
(* the two hardware timers share it: it ticks at the shortest interval any *)
(* of them asked for, every tick is added to every child's ElapsedTime,    *)
(* and a child is called once that reaches its period. The control         *)
(* protocol pauses and resumes by the enable bit of the shared timer.      *)
(*                                                                         *)
(* Of PchSmmCore only what the timers see is here: a registration and an   *)
(* unregistration are single steps, and one dispatch walks the list from   *)
(* the first record whose timer is pending. SmiDispatch has the rest.      *)
(***************************************************************************)
EXTENDS Integers, SequencesExt

CONSTANTS
  Rec,          \* the pool blocks of the records
  End,          \* the list head
  Timer,        \* PERIODIC_TIMER, SWSMI_TIMER
  SwsmiTimer,
  Interval,     \* mSmmPeriodicTimerIntervals
  TimerOf,      \* AssociatedTimer of an interval
  Period,       \* periods children ask for
  DriverOps,    \* what drivers do, besides registering
  CallbackOps,  \* what callbacks do
  MaxReal,      \* bound: up to where real time is told apart
  MaxOps        \* bound: how often clients register, resume and so on

ASSUME TimerAssumption ==
  /\ End \notin Rec
  /\ SwsmiTimer \in Timer
  /\ Interval \subseteq Nat \ {0}
  /\ TimerOf \in [Interval -> Timer]
  /\ \A t \in Timer : \E i \in Interval : TimerOf[i] = t
  /\ Period \subseteq Nat
  /\ CallbackOps \subseteq {"register", "unregisterSelf", "pause", "resume"}
  /\ DriverOps \subseteq {"unregister", "pause", "resume"}
  /\ MaxOps \in Nat

\* Real time is told apart beyond what ElapsedTime can reach before a call.
ASSUME RealAssumption ==
  /\ MaxReal \in Nat
  /\ \A p \in Period, i \in Interval : p + i <= MaxReal

Infinity == -1  \* ~(UINT64)0, the minimum over no child

VARIABLES
  \* the PCH
  en,        \* timers the SMI enable bit of which is set
  sts,       \* timers the SMI status bit of which is set
  rate,      \* the rate the PMC is programmed with
  \* globals
  minReq,    \* mTimers[].MinReqInterval
  db,        \* the PeriodicTimerType records of CallbackDataBase, in list order
  interval,  \* ChildContext.PeriodicTimer.SmiTickInterval
  period,    \* ChildContext.PeriodicTimer.Period
  elapsed,   \* MiscData.ElapsedTime
  \* PchSmmCoreDispatcher
  pc, timer, link, record,
  \* history and bound
  real,      \* time since a child's last call or registration
  paused,    \* children that were paused and not resumed
  ops

hw   == <<en, sts, rate>>
core == <<minReq, db, interval, period>>
vars == <<hw, core, elapsed, pc, timer, link, record, real, paused, ops>>

Registered == ToSet(db)
ChildrenIn(t, rs, int) == {r \in rs : TimerOf[int[r]] = t}
Children(t) == ChildrenIn(t, Registered, interval)

-----------------------------------------------------------------------------
(***************************************************************************)
(* PchSmmPeriodicTimerProgramTimers                                        *)
(***************************************************************************)

\* The first loop's result for timer t over the records rs.
MinReqInterval(t, rs, int) ==
  LET rq == {int[r] : r \in ChildrenIn(t, rs, int)}
  IN  IF rq = {} THEN Infinity ELSE CHOOSE i \in rq : \A j \in rq : i <= j

\* The rate a timer is set to.
MutantMissesShortest(t, req) ==
  IF \E i \in Interval : TimerOf[i] = t /\ i < req THEN req ELSE rate[t]
RateFor(t, req) == req

\* The timers with NumChildren > 0.
Used(rs, int) == {u \in Timer : ChildrenIn(u, rs, int) # {}}

\* Every timer that has children among rs is set to the shortest interval.
ProgramTimers(rs, int) ==
  LET req == [u \in Timer |-> MinReqInterval(u, rs, int)]
  IN  /\ minReq' = req
      /\ rate' = [u \in Timer |-> IF u \in Used(rs, int) THEN RateFor(u, req[u]) ELSE rate[u]]

\* A timer without children is turned off; SWSMI, to restart it when the call is
\* for it, is disabled, cleared and enabled.
MutantKeepsOn(t, rs, int) == en \cup ({t} \cap {SwsmiTimer})
EnProgrammed(t, rs, int) ==
  (en \cup ({t} \cap {SwsmiTimer})) \cap Used(rs, int)

\* PchSmmPeriodicTimerClearSource
ClearTimer(t) ==
  /\ ProgramTimers(Registered, interval)
  /\ en'  = EnProgrammed(t, Registered, interval)
  /\ sts' = IF Children(t) # {} THEN sts \ {t} ELSE sts

-----------------------------------------------------------------------------
(***************************************************************************)
(* The protocols' services                                                 *)
(***************************************************************************)

Counted == ops < MaxOps /\ ops' = ops + 1

\* PchPiSmmCoreRegister: MapPeriodicTimerToSrcDesc programs the timers before the
\* record is inserted, ClearSource after it; PchSmmEnableSource enables the timer
\* and clears its status.
Register(r, i, p) ==
  /\ Counted
  /\ r \in Rec \ Registered
  /\ db' = Append(db, r)
  /\ interval' = [interval EXCEPT ![r] = i]
  /\ period'   = [period EXCEPT ![r] = p]
  /\ elapsed'  = [elapsed EXCEPT ![r] = 0]
  /\ real'     = [real EXCEPT ![r] = 0]
  /\ ProgramTimers(ToSet(db'), interval')
  /\ en'  = EnProgrammed(TimerOf[i], ToSet(db'), interval') \cup {TimerOf[i]}
  /\ sts' = sts \ {TimerOf[i]}
  /\ UNCHANGED paused

Position(r) == CHOOSE i \in DOMAIN db : db[i] = r

\* PchSmmCoreUnRegister: the timer goes off with its last child. Its rate and
\* MinReqInterval stay until the timers are programmed again.
Unregister(r) ==
  /\ Counted
  /\ r \in Registered
  /\ db' = RemoveAt(db, Position(r))
  /\ en' = IF Children(TimerOf[interval[r]]) = {r} THEN en \ {TimerOf[interval[r]]} ELSE en
  /\ paused' = paused \ {r}
  /\ UNCHANGED <<sts, rate, minReq, interval, period, elapsed, real>>

\* PchSmmPeriodicTimerControlPause
Pause(r) ==
  /\ Counted
  /\ r \in Registered
  /\ en' = en \ {TimerOf[interval[r]]}
  /\ paused' = paused \cup {r}
  /\ UNCHANGED <<sts, rate, core, elapsed, real>>

\* PchSmmPeriodicTimerControlResume
Resume(r) ==
  /\ Counted
  /\ r \in Registered
  /\ en'  = en \cup {TimerOf[interval[r]]}
  /\ sts' = sts \ {TimerOf[interval[r]]}
  /\ paused' = paused \ {r}
  /\ UNCHANGED <<rate, core, elapsed, real>>

\* A driver or another SMI handler, outside the walk over the children.
Driver ==
  /\ pc = "os"
  /\ \E r \in Rec :
       \/ \E i \in Interval, p \in Period : Register(r, i, p)
       \/ "unregister" \in DriverOps /\ Unregister(r)
       \/ "pause" \in DriverOps /\ Pause(r)
       \/ "resume" \in DriverOps /\ Resume(r)
  /\ UNCHANGED <<pc, timer, link, record>>

-----------------------------------------------------------------------------
(***************************************************************************)
(* Ticks and their dispatch                                                *)
(***************************************************************************)

\* The interval of timer t is over, at any time. SWSMI runs only while it is
\* enabled. A tick that finds the status still set leaves no trace.
Expire(t) ==
  /\ t \notin sts
  /\ t = SwsmiTimer => t \in en
  /\ sts' = sts \cup {t}
  /\ real' = [r \in Rec |->
       IF r \in Children(t)
         THEN IF real[r] + rate[t] <= MaxReal THEN real[r] + rate[t] ELSE MaxReal
         ELSE real[r]]
  /\ UNCHANGED <<en, rate, core, elapsed, pc, timer, link, record, paused, ops>>

\* The timer of record r is enabled and pending.
SourceIsActive(r) == TimerOf[interval[r]] \in en \cap sts

\* PchSmmCoreDispatcher has found the first record whose source is active.
Dispatch(t) ==
  /\ pc = "os"
  /\ \E i \in DOMAIN db :
       /\ SourceIsActive(db[i]) /\ TimerOf[interval[db[i]]] = t
       /\ \A j \in 1..(i - 1) : ~SourceIsActive(db[j])
       /\ link' = db[i]
  /\ pc' = "walk"
  /\ timer' = {t}
  /\ UNCHANGED <<hw, core, elapsed, record, real, paused, ops>>

\* GetNextNode
NextOf(r) ==
  IF Position(r) = Len(db) THEN End ELSE db[Position(r) + 1]

\* PeriodicTimerGetContext
MutantCreditsRequest(r, t) == elapsed[r] + interval[r]
Credited(r, t) == elapsed[r] + minReq[t]

\* PeriodicTimerCmpContext leaves the ElapsedTime of a child that is not due.
MutantResets(e) == 0
NotDue(e) == e

\* A child of the timer is credited with the tick and, if due, called; only
\* PeriodicTimerGetCommBuffer resets its ElapsedTime.
Walk ==
  /\ pc = "walk" /\ link # End
  /\ link' = NextOf(link)
  /\ IF TimerOf[interval[link]] \in timer
       THEN \E t \in timer :
              LET e   == Credited(link, t)
                  due == e >= period[link]
              IN  /\ elapsed' = [elapsed EXCEPT ![link] = IF due THEN 0 ELSE NotDue(e)]
                  /\ real' = IF due THEN [real EXCEPT ![link] = 0] ELSE real
                  /\ record' = IF due THEN link ELSE record
                  /\ pc' = IF due THEN "callback" ELSE pc
       ELSE UNCHANGED <<elapsed, real, record, pc>>
  /\ UNCHANGED <<hw, core, timer, paused, ops>>

Callback ==
  /\ pc = "callback"
  /\ \/ /\ "register" \in CallbackOps
        /\ \E r \in Rec, i \in Interval, p \in Period : Register(r, i, p)
     \/ "unregisterSelf" \in CallbackOps /\ Unregister(record)
     \/ "pause"  \in CallbackOps /\ \E r \in Rec : Pause(r)
     \/ "resume" \in CallbackOps /\ \E r \in Rec : Resume(r)
  /\ UNCHANGED <<pc, timer, link, record>>

CallbackReturn ==
  /\ pc = "callback"
  /\ pc' = "walk" /\ record' = End
  /\ UNCHANGED <<hw, core, elapsed, timer, link, real, paused, ops>>

\* RecordInDb->ClearSource ends the pass.
ClearSource ==
  /\ pc = "walk" /\ link = End
  /\ \E t \in timer : ClearTimer(t)
  /\ pc' = "os" /\ timer' = {}
  /\ UNCHANGED <<db, interval, period, elapsed, link, record, real, paused, ops>>

-----------------------------------------------------------------------------

Init ==
  /\ en = {} /\ sts = {}
  /\ rate \in [Timer -> Interval] /\ \A t \in Timer : TimerOf[rate[t]] = t
  /\ minReq = [t \in Timer |-> 0]
  /\ db = <<>>
  /\ interval = [r \in Rec |-> CHOOSE i \in Interval : TRUE]
  /\ period   = [r \in Rec |-> 0]
  /\ elapsed  = [r \in Rec |-> 0]
  /\ pc = "os" /\ timer = {} /\ link = End /\ record = End
  /\ real = [r \in Rec |-> 0]
  /\ paused = {}
  /\ ops = 0

Tick == \E t \in Timer : Expire(t)

\* No timer waits for its dispatch: the processor is outside SMM.
Idle ==
  /\ pc = "os" /\ \A r \in Registered : ~SourceIsActive(r)
  /\ UNCHANGED vars

Dispatcher ==
  (\E t \in Timer : Dispatch(t)) \/ Walk \/ CallbackReturn \/ ClearSource

Next == Driver \/ Tick \/ Dispatcher \/ Callback \/ Idle

Spec == Init /\ [][Next]_vars

\* A running timer expires. SMM runs to completion, and a pass takes less than
\* the shortest interval: between the ticks of one timer, the other's pending
\* tick gets its turn.
FairSpec ==
  /\ Spec
  /\ WF_vars(Dispatcher)
  /\ \A t \in Timer : WF_vars(Expire(t)) /\ SF_vars(Dispatch(t))

-----------------------------------------------------------------------------
(***************************************************************************)
(* Properties                                                              *)
(***************************************************************************)

\* Every variable has its type; in particular the PMC is only ever programmed
\* with an interval of the timer's own, never with the minimum over no child,
\* and no ElapsedTime outruns the largest period by more than one tick.
TypeOK ==
  /\ en \subseteq Timer /\ sts \subseteq Timer
  /\ rate \in [Timer -> Interval] /\ \A t \in Timer : TimerOf[rate[t]] = t
  /\ minReq \in [Timer -> Interval \cup {0, Infinity}]
  /\ db \in Seq(Rec) /\ \A i, j \in DOMAIN db : db[i] = db[j] => i = j
  /\ interval \in [Rec -> Interval]
  /\ period \in [Rec -> Period \cup {0}]
  /\ elapsed \in [Rec -> 0..MaxReal]
  /\ pc \in {"os", "walk", "callback"}
  /\ timer \in SUBSET Timer
  /\ link \in Registered \cup {End}
  /\ record \in Rec \cup {End}
  /\ real \in [Rec -> 0..MaxReal]
  /\ paused \subseteq Registered
  /\ ops \in 0..MaxOps

\* As long as nobody pauses one, exactly the timers that have children run:
\* whichever timer the programming was called for, and whatever callbacks
\* register and unregister while a tick is being dispatched.
TimersFollowChildren == en = {t \in Timer : Children(t) # {}}

\* A timer ticks at least as often as each of its children asked for, also
\* while a registration or an unregistration has just changed who shares it.
FastEnough == \A r \in Registered : rate[TimerOf[interval[r]]] <= interval[r]

\* The interval every tick is credited with is the interval the PMC ticks at.
\* The two are set apart: the minimum on every call and for every timer, the
\* rate only for timers in use.
RateAgrees == \A t \in Timer : Children(t) # {} => minReq[t] = rate[t]

\* ElapsedTime never runs ahead of the time that has passed in whole ticks, so
\* no child is called before its period is over, however timers are shared,
\* paused and resumed. "Update the elapsed time w/ the data from our tables"
\* (PchSmmPeriodicTimer.c:300).
NeverAhead == \A r \in Registered : elapsed[r] <= real[r]

\* A child the timer of which stays enabled is called again and again, however
\* many ticks its period takes and whatever the other children do.
ChildCalled ==
  \A r \in Rec :
    LET Runs == r \in Registered /\ TimerOf[interval[r]] \in en
    IN  Runs ~> (record = r \/ ~Runs)

\* "This runtime pauses the registered periodic timer handler."
\* (PchSmmPeriodicTimerControl.h:78): a paused child is not called.
PauseHolds == [][record # record' => record' \notin paused]_vars
=============================================================================
