----------------------- MODULE SmiPeriodicTimerProofs -----------------------
(***************************************************************************)
(* What TLAPS proves of SmiPeriodicTimer, for any timers, intervals,       *)
(* periods and number of children.                                         *)
(***************************************************************************)
EXTENDS SmiPeriodicTimer, ListLemmas, WellFoundedInduction

\* The two properties of how timers are programmed that hold in every state.
Rates == FastEnough /\ RateAgrees

\* A walk is over one timer's children, the saved link is not the record that is
\* being called, and there is none outside a walk.
WalkOK ==
  /\ pc = "os" => timer = {} /\ link = End
  /\ pc # "os" => \E t \in Timer : timer = {t}
  /\ pc = "callback" => record # link

IInv == TypeOK /\ Rates /\ WalkOK

-----------------------------------------------------------------------------
(***************************************************************************)
(* Least intervals                                                         *)
(***************************************************************************)

\* A set of natural numbers that is not empty has a least element.
LEMMA LeastNatural ==
  ASSUME NEW T, T \subseteq Nat, T # {}
  PROVE  \E x \in T : \A y \in T : x <= y
<1> DEFINE R == OpToRel(<, Nat)
<1>1. IsWellFoundedOn(R, Nat)
  BY NatLessThanWellFounded
<1>2. \A x, y \in Nat : <<y, x>> \in R <=> y < x
  BY DEF OpToRel
<1> HIDE DEF R
<1>3. PICK x \in T : \A y \in T : ~(<<y, x>> \in R)
  BY <1>1, WFMin
<1>4. ASSUME NEW y \in T PROVE x <= y
  <2>1. x \in Nat /\ y \in Nat
    OBVIOUS
  <2>2. ~(y < x)
    <3>1. <<y, x>> \notin R
      BY <1>3
    <3>2. <<y, x>> \in R <=> y < x
      BY <1>2, <2>1
    <3> QED
      BY <3>1, <3>2
  <2> QED
    BY <2>1, <2>2
<1> QED
  BY <1>4

\* MinReqInterval is one of the children's intervals, and none is shorter.
LEMMA MinReqIntervalLeast ==
  ASSUME NEW rs \in SUBSET Rec, NEW int \in [Rec -> Interval], NEW t \in Timer,
         ChildrenIn(t, rs, int) # {}
  PROVE  /\ MinReqInterval(t, rs, int) \in Interval
         /\ TimerOf[MinReqInterval(t, rs, int)] = t
         /\ \A r \in ChildrenIn(t, rs, int) : MinReqInterval(t, rs, int) <= int[r]
         /\ \E r \in ChildrenIn(t, rs, int) : MinReqInterval(t, rs, int) = int[r]
<1> DEFINE rq == {int[r] : r \in ChildrenIn(t, rs, int)}
<1>1. rq # {} /\ rq \subseteq Interval /\ \A i \in rq : TimerOf[i] = t
  BY DEF ChildrenIn
<1>2. rq \subseteq Nat
  BY <1>1, TimerAssumption
<1>3. \E i \in rq : \A j \in rq : i <= j
  BY <1>1, <1>2, LeastNatural
<1>4. MinReqInterval(t, rs, int) = CHOOSE i \in rq : \A j \in rq : i <= j
  BY <1>1 DEF MinReqInterval
<1>5. /\ MinReqInterval(t, rs, int) \in rq
      /\ \A j \in rq : MinReqInterval(t, rs, int) <= j
  BY <1>3, <1>4
<1>6. \A r \in ChildrenIn(t, rs, int) : int[r] \in rq
  OBVIOUS
<1>7. \A i \in rq : \E r \in ChildrenIn(t, rs, int) : i = int[r]
  OBVIOUS
<1> HIDE DEF rq
<1> QED
  BY <1>1, <1>5, <1>6, <1>7

\* PchSmmPeriodicTimerProgramTimers leaves every timer in use at the interval of
\* its most demanding child, which is what its ticks are credited with.
LEMMA ProgramTimersProps ==
  ASSUME rate \in [Timer -> Interval], \A t \in Timer : TimerOf[rate[t]] = t,
         NEW rs \in SUBSET Rec, NEW int \in [Rec -> Interval],
         ProgramTimers(rs, int)
  PROVE  /\ rate' \in [Timer -> Interval] /\ \A t \in Timer : TimerOf[rate'[t]] = t
         /\ minReq' \in [Timer -> Interval \cup {0, Infinity}]
         /\ \A t \in Timer : ChildrenIn(t, rs, int) # {} =>
              /\ minReq'[t] = rate'[t]
              /\ \A r \in ChildrenIn(t, rs, int) : rate'[t] <= int[r]
              /\ \E r \in ChildrenIn(t, rs, int) : rate'[t] = int[r]
<1> DEFINE req == [u \in Timer |-> MinReqInterval(u, rs, int)]
<1>1. /\ minReq' = req
      /\ rate' = [u \in Timer |-> IF ChildrenIn(u, rs, int) # {} THEN req[u] ELSE rate[u]]
  BY DEF ProgramTimers, Used, RateFor
<1>2. ASSUME NEW t \in Timer, ChildrenIn(t, rs, int) = {}
      PROVE  req[t] = Infinity
  <2>1. {int[r] : r \in ChildrenIn(t, rs, int)} = {}
    BY <1>2
  <2> QED
    BY <2>1 DEF MinReqInterval
<1>3. ASSUME NEW t \in Timer, ChildrenIn(t, rs, int) # {}
      PROVE  /\ req[t] \in Interval /\ TimerOf[req[t]] = t
             /\ \A r \in ChildrenIn(t, rs, int) : req[t] <= int[r]
             /\ \E r \in ChildrenIn(t, rs, int) : req[t] = int[r]
  BY <1>3, MinReqIntervalLeast
<1> HIDE DEF req
<1>4. DOMAIN req = Timer /\ req \in [Timer -> Interval \cup {0, Infinity}]
  <2>1. req = [u \in Timer |-> req[u]]
    BY DEF req
  <2> QED
    BY <1>2, <1>3, <2>1
<1>5. /\ rate' \in [Timer -> Interval] /\ \A t \in Timer : TimerOf[rate'[t]] = t
  BY <1>1, <1>3
<1> QED
  BY <1>1, <1>3, <1>4, <1>5

-----------------------------------------------------------------------------
(***************************************************************************)
(* The list                                                                *)
(***************************************************************************)

\* The parts of TypeOK that say the list is a list of timers' children.
ListOK ==
  /\ db \in Seq(Rec) /\ Injective(db)
  /\ interval \in [Rec -> Interval]

\* Every record's timer exists.
LEMMA TimerOfType == TypeOK => ListOK /\ \A r \in Rec : TimerOf[interval[r]] \in Timer
BY TimerAssumption DEF TypeOK, ListOK, Injective

\* The records listed are blocks.
LEMMA RegisteredType == ListOK => Registered \subseteq Rec
BY DEF ListOK, Registered, ToSet

\* A record's position is a place in the list.
LEMMA PositionProps ==
  ASSUME NEW r \in Registered
  PROVE  Position(r) \in DOMAIN db /\ db[Position(r)] = r
BY DEF Position, Registered, ToSet

\* The record after a listed record is another one, or the list head.
LEMMA NextOfProps ==
  ASSUME ListOK, NEW r \in Registered
  PROVE  NextOf(r) \in (Registered \ {r}) \cup {End}
<1>1. Position(r) \in DOMAIN db /\ db[Position(r)] = r
  BY PositionProps
<1>2. db \in Seq(Rec) /\ DOMAIN db = 1..Len(db) /\ Len(db) \in Nat
  BY DEF ListOK
<1>3. CASE Position(r) = Len(db)
  BY <1>3 DEF NextOf
<1>4. CASE Position(r) # Len(db)
  <2>1. NextOf(r) = db[Position(r) + 1]
    BY <1>4 DEF NextOf
  <2>2. Position(r) + 1 \in DOMAIN db /\ Position(r) + 1 # Position(r)
    BY <1>1, <1>2, <1>4
  <2>3. NextOf(r) # r
    BY <1>1, <2>1, <2>2 DEF ListOK, Injective
  <2>4. NextOf(r) \in Registered
    BY <2>1, <2>2 DEF Registered, ToSet
  <2> QED
    BY <2>3, <2>4
<1> QED
  BY <1>3, <1>4

\* A registration adds one child and programs the timers for all of them.
LEMMA RegisterProps ==
  ASSUME TypeOK, NEW r \in Rec, NEW i \in Interval, NEW p \in Period, Register(r, i, p)
  PROVE  /\ ListOK' /\ ToSet(db') = Registered \cup {r} /\ r \notin Registered
         /\ interval'[r] = i /\ \A q \in Registered : interval'[q] = interval[q]
         /\ rate' \in [Timer -> Interval] /\ \A t \in Timer : TimerOf[rate'[t]] = t
         /\ minReq' \in [Timer -> Interval \cup {0, Infinity}]
         /\ Rates'
<1>1. /\ db' = Append(db, r) /\ r \notin Registered
      /\ interval' = [interval EXCEPT ![r] = i]
      /\ ProgramTimers(ToSet(db'), interval')
  BY DEF Register
<1>2. ListOK
  BY TimerOfType
<1>3. db' \in Seq(Rec) /\ ToSet(db') = Registered \cup {r} /\ Injective(db')
  BY <1>1, <1>2, AppendToList DEF Registered, ListOK
<1>4. /\ interval' \in [Rec -> Interval] /\ interval'[r] = i
      /\ \A q \in Registered : interval'[q] = interval[q]
  BY <1>1, <1>2 DEF ListOK
<1>5. ToSet(db') \in SUBSET Rec
  BY <1>2, <1>3, RegisteredType
<1>6. /\ rate' \in [Timer -> Interval] /\ \A t \in Timer : TimerOf[rate'[t]] = t
      /\ minReq' \in [Timer -> Interval \cup {0, Infinity}]
      /\ \A t \in Timer : ChildrenIn(t, ToSet(db'), interval') # {} =>
           /\ minReq'[t] = rate'[t]
           /\ \A q \in ChildrenIn(t, ToSet(db'), interval') : rate'[t] <= interval'[q]
  <2>1. rate \in [Timer -> Interval] /\ \A t \in Timer : TimerOf[rate[t]] = t
    BY DEF TypeOK
  <2>2. interval' \in [Rec -> Interval] /\ ProgramTimers(ToSet(db'), interval')
    BY <1>1, <1>4
  <2> QED
    BY <1>5, <2>1, <2>2, ProgramTimersProps
<1>7. FastEnough'
  <2> SUFFICES ASSUME NEW q \in ToSet(db') PROVE rate'[TimerOf[interval'[q]]] <= interval'[q]
    BY DEF FastEnough, Registered
  <2>1. TimerOf[interval'[q]] \in Timer
    BY <1>4, <1>5, TimerAssumption
  <2>2. q \in ChildrenIn(TimerOf[interval'[q]], ToSet(db'), interval')
    BY DEF ChildrenIn
  <2> QED
    BY <1>6, <2>1, <2>2
<1>8. RateAgrees'
  BY <1>6 DEF RateAgrees, Children, Registered
<1> QED
  BY <1>1, <1>3, <1>4, <1>6, <1>7, <1>8 DEF ListOK, Rates

\* An unregistration takes one child off the list and leaves the rates alone.
LEMMA UnregisterProps ==
  ASSUME TypeOK, Rates, NEW r \in Rec, Unregister(r)
  PROVE  /\ ListOK' /\ ToSet(db') = Registered \ {r} /\ Rates'
<1>1. /\ db' = RemoveAt(db, Position(r)) /\ r \in Registered
      /\ UNCHANGED <<interval, rate, minReq>>
  BY DEF Unregister
<1>2. ListOK
  BY TimerOfType
<1>3. Position(r) \in DOMAIN db /\ db[Position(r)] = r
  BY <1>1, PositionProps
<1>4. db' \in Seq(Rec) /\ ToSet(db') = Registered \ {r} /\ Injective(db')
  BY <1>1, <1>2, <1>3, RemoveFromList DEF Registered, ListOK
<1>5. Rates'
  BY <1>1, <1>4 DEF Rates, FastEnough, RateAgrees, Children, ChildrenIn, Registered
<1> QED
  BY <1>1, <1>2, <1>4, <1>5 DEF ListOK

-----------------------------------------------------------------------------
(***************************************************************************)
(* The invariant is inductive                                              *)
(***************************************************************************)

LEMMA InitInv == Init => IInv
<1> SUFFICES ASSUME Init PROVE IInv
  OBVIOUS
<1>1. Interval # {} /\ MaxReal \in Nat /\ MaxOps \in Nat
  BY TimerAssumption, RealAssumption
<1>2. Registered = {} /\ db \in Seq(Rec)
  BY DEF Init, Registered, ToSet
<1>3. /\ interval \in [Rec -> Interval] /\ period \in [Rec -> Period \cup {0}]
      /\ elapsed \in [Rec -> 0..MaxReal] /\ real \in [Rec -> 0..MaxReal]
      /\ minReq \in [Timer -> Interval \cup {0, Infinity}]
  BY <1>1 DEF Init
<1>4. TypeOK
  BY <1>1, <1>2, <1>3 DEF Init, TypeOK
<1>5. Rates /\ WalkOK
  BY <1>2 DEF Init, Rates, FastEnough, RateAgrees, Children, ChildrenIn, WalkOK
<1> QED
  BY <1>4, <1>5 DEF IInv

\* A protocol's service may be called from anywhere, except that the record being
\* called is the only one a callback unregisters.
Service(r) ==
  \/ \E i \in Interval, p \in Period : Register(r, i, p)
  \/ Unregister(r) /\ (pc = "callback" => r = record)
  \/ Pause(r)
  \/ Resume(r)

LEMMA ServiceInv ==
  ASSUME IInv, NEW r \in Rec, Service(r), UNCHANGED <<pc, timer, link, record>>,
         pc \in {"os", "callback"}
  PROVE  IInv'
<1> USE DEF IInv
<1>1. WalkOK'
  BY DEF WalkOK
<1>2. link = End \/ link \in Registered
  BY DEF TypeOK
<1>3. MaxReal \in Nat /\ MaxOps \in Nat
  BY TimerAssumption, RealAssumption
<1>4. ASSUME NEW i \in Interval, NEW p \in Period, Register(r, i, p) PROVE IInv'
  <2>1. /\ ListOK' /\ ToSet(db') = Registered \cup {r} /\ Rates'
        /\ rate' \in [Timer -> Interval] /\ \A t \in Timer : TimerOf[rate'[t]] = t
        /\ minReq' \in [Timer -> Interval \cup {0, Infinity}]
    BY <1>4, RegisterProps
  <2>2. TimerOf[i] \in Timer
    BY TimerAssumption
  <2>3. /\ period' \in [Rec -> Period \cup {0}]
        /\ elapsed' \in [Rec -> 0..MaxReal] /\ real' \in [Rec -> 0..MaxReal]
        /\ ops' \in 0..MaxOps
    BY <1>3, <1>4 DEF Register, Counted, TypeOK
  <2>4. en' \subseteq Timer /\ sts' \subseteq Timer /\ paused' = paused
    BY <1>4, <2>2 DEF Register, EnProgrammed, Used, TypeOK
  <2>5. TypeOK'
    BY <2>1, <2>3, <2>4 DEF TypeOK, ListOK, Injective, Registered
  <2> QED
    BY <1>1, <2>1, <2>5
<1>5. CASE Unregister(r) /\ (pc = "callback" => r = record)
  <2>1. ListOK' /\ ToSet(db') = Registered \ {r} /\ Rates'
    BY <1>5, UnregisterProps
  <2>2. link' \in ToSet(db') \cup {End}
    BY <1>2, <1>5, <2>1 DEF WalkOK
  <2>3. r \in Registered /\ UNCHANGED <<sts, rate, minReq, interval, period, elapsed, real>>
    BY <1>5 DEF Unregister
  <2>4. /\ en' \subseteq Timer /\ paused' \subseteq ToSet(db') /\ ops' \in 0..MaxOps
    BY <1>3, <1>5, <2>1 DEF Unregister, Counted, TypeOK
  <2>5. TypeOK'
    BY <2>1, <2>2, <2>3, <2>4 DEF TypeOK, ListOK, Injective, Registered
  <2> QED
    BY <1>1, <2>1, <2>5
<1>6. CASE Pause(r) \/ Resume(r)
  <2>1. /\ UNCHANGED <<rate, minReq, db, interval, period, elapsed, real>>
        /\ en' \subseteq en \cup {TimerOf[interval[r]]} /\ sts' \subseteq sts
        /\ paused' \subseteq Registered /\ ops' \in 0..MaxOps
    BY <1>3, <1>6 DEF Pause, Resume, Counted, core, TypeOK
  <2>2. TimerOf[interval[r]] \in Timer
    BY TimerOfType
  <2>3. TypeOK'
    BY <2>1, <2>2 DEF TypeOK, Registered
  <2>4. Rates'
    BY <2>1 DEF Rates, FastEnough, RateAgrees, Children, Registered
  <2> QED
    BY <1>1, <2>3, <2>4
<1> QED
  BY <1>4, <1>5, <1>6 DEF Service

\* What leaves the list, the rates and the credited intervals alone keeps Rates.
LEMMA SameRates == Rates /\ UNCHANGED <<rate, minReq, db, interval>> => Rates'
BY DEF Rates, FastEnough, RateAgrees, Children, Registered

LEMMA ExpireInv ==
  ASSUME IInv, NEW t \in Timer, Expire(t)
  PROVE  IInv'
<1>1. /\ UNCHANGED <<en, rate, minReq, db, interval, period, elapsed, pc, timer, link,
                     record, paused, ops>>
      /\ sts' \subseteq Timer
  BY DEF IInv, TypeOK, Expire, core
<1>2. MaxReal \in Nat /\ rate[t] \in Nat
  BY TimerAssumption, RealAssumption DEF IInv, TypeOK
<1>3. real' \in [Rec -> 0..MaxReal]
  <2>1. ASSUME NEW r \in Rec
        PROVE  (IF r \in Children(t)
                  THEN IF real[r] + rate[t] <= MaxReal THEN real[r] + rate[t] ELSE MaxReal
                  ELSE real[r]) \in 0..MaxReal
    <3>1. real[r] \in 0..MaxReal
      BY DEF IInv, TypeOK
    <3> QED
      BY <1>2, <3>1
  <2> QED
    BY <2>1 DEF Expire
<1>4. TypeOK'
  BY <1>1, <1>3 DEF IInv, TypeOK, Registered
<1> QED
  BY <1>1, <1>4, SameRates DEF IInv, WalkOK

LEMMA DispatchInv ==
  ASSUME IInv, NEW t \in Timer, Dispatch(t)
  PROVE  IInv'
<1>1. /\ UNCHANGED <<en, sts, rate, minReq, db, interval, period, elapsed, record, real,
                     paused, ops>>
      /\ pc' = "walk" /\ timer' = {t}
  BY DEF Dispatch, hw, core
<1>2. link' \in Registered
  BY DEF Dispatch, Registered, ToSet
<1>3. TypeOK'
  BY <1>1, <1>2 DEF IInv, TypeOK, Registered
<1> QED
  BY <1>1, <1>3, SameRates DEF IInv, WalkOK

\* A child that is not called has an ElapsedTime below its period: ticks are
\* credited with intervals, which the agreement with the rate guarantees.
LEMMA WalkInv ==
  ASSUME IInv, Walk
  PROVE  IInv'
<1>1. /\ UNCHANGED <<en, sts, rate, minReq, db, interval, period, timer, paused, ops>>
      /\ link # End /\ link' = NextOf(link)
  BY DEF Walk, hw, core
<1>2. link \in Registered /\ link \in Rec
  BY <1>1, TimerOfType, RegisteredType DEF IInv, TypeOK
<1>3. link' \in (Registered \ {link}) \cup {End}
  BY <1>1, <1>2, TimerOfType, NextOfProps DEF IInv
<1>4. CASE TimerOf[interval[link]] \notin timer
  <2>1. UNCHANGED <<elapsed, real, record, pc>> /\ pc = "walk"
    BY <1>4 DEF Walk
  <2>2. TypeOK'
    BY <1>1, <1>3, <2>1 DEF IInv, TypeOK, Registered
  <2> QED
    BY <1>1, <2>1, <2>2, SameRates DEF IInv, WalkOK
<1>5. CASE TimerOf[interval[link]] \in timer
  <2>0. period[link] \in Nat /\ (period[link] \in Period \/ period[link] = 0)
    <3>1. period[link] \in Period \cup {0}
      BY <1>2 DEF IInv, TypeOK
    <3>2. Period \subseteq Nat
      BY TimerAssumption
    <3>3. CASE period[link] \in Period
      BY <3>2, <3>3
    <3>4. CASE period[link] = 0
      BY <3>4
    <3> QED
      BY <3>1, <3>3, <3>4
  <2> DEFINE e   == Credited(link, TimerOf[interval[link]])
             due == e >= period[link]
  <2>1. /\ elapsed' = [elapsed EXCEPT ![link] = IF due THEN 0 ELSE e]
        /\ real' = IF due THEN [real EXCEPT ![link] = 0] ELSE real
        /\ record' = IF due THEN link ELSE record
        /\ pc' = IF due THEN "callback" ELSE pc
        /\ pc = "walk"
    <3>1. pc = "walk"
      BY DEF Walk
    <3>2. timer = {TimerOf[interval[link]]}
      BY <1>5, <3>1 DEF IInv, WalkOK
    <3> QED
      BY <1>5, <3>1, <3>2 DEF Walk, NotDue
  <2>2. e \in Nat \ {0}
    <3>1. link \in Children(TimerOf[interval[link]])
      BY <1>2 DEF Children, ChildrenIn
    <3>2. TimerOf[interval[link]] \in Timer
      BY <1>2, TimerOfType DEF IInv
    <3>3. minReq[TimerOf[interval[link]]] \in Nat \ {0}
      BY <3>1, <3>2, TimerAssumption DEF IInv, Rates, RateAgrees, TypeOK
    <3>4. elapsed[link] \in Nat
      BY <1>2, RealAssumption DEF IInv, TypeOK
    <3> QED
      BY <3>3, <3>4 DEF Credited
  <2> HIDE DEF e
  <2>3. ~due => e \in 0..MaxReal
    <3>1. PICK i \in Interval : i \in Nat
      BY TimerAssumption
    <3>2. ~due => period[link] \in Period /\ period[link] \in Nat /\ e < period[link]
      <4>1. period[link] = 0 => due
        BY <2>2
      <4>2. ~due => e < period[link]
        BY <2>2, <2>0
      <4> QED
        BY <2>0, <4>1, <4>2
    <3>3. ~due => period[link] + i <= MaxReal
      BY <3>2, RealAssumption
    <3> QED
      BY <2>2, <3>1, <3>2, <3>3, RealAssumption
  <2> HIDE DEF due
  <2>4. elapsed' \in [Rec -> 0..MaxReal] /\ real' \in [Rec -> 0..MaxReal]
    <3>1. elapsed \in [Rec -> 0..MaxReal] /\ real \in [Rec -> 0..MaxReal]
      BY DEF IInv, TypeOK
    <3>2. 0 \in 0..MaxReal /\ (IF due THEN 0 ELSE e) \in 0..MaxReal
      BY <2>3, RealAssumption
    <3> QED
      BY <2>1, <3>1, <3>2
  <2>5. /\ record' \in Rec \cup {End} /\ pc' \in {"walk", "callback"}
        /\ pc' = "callback" => record' = link
    BY <1>2, <2>1 DEF IInv, TypeOK
  <2>6. TypeOK'
    BY <1>1, <1>3, <2>4, <2>5 DEF IInv, TypeOK, Registered
  <2>7. link # End /\ link' # link
    BY <1>1, <1>2, <1>3
  <2> QED
    BY <1>1, <2>1, <2>5, <2>6, <2>7, SameRates DEF IInv, WalkOK
<1> QED
  BY <1>4, <1>5

LEMMA ClearSourceInv ==
  ASSUME IInv, ClearSource
  PROVE  IInv'
<1>1. /\ UNCHANGED <<db, interval, period, elapsed, link, record, real, paused, ops>>
      /\ pc = "walk" /\ link = End /\ pc' = "os" /\ timer' = {}
  BY DEF ClearSource
<1>2. PICK t \in Timer : ClearTimer(t)
  BY <1>1 DEF ClearSource, IInv, WalkOK
<1>3. Registered \in SUBSET Rec /\ interval \in [Rec -> Interval]
  BY TimerOfType, RegisteredType DEF IInv, ListOK
<1>4. rate \in [Timer -> Interval] /\ \A u \in Timer : TimerOf[rate[u]] = u
  BY DEF IInv, TypeOK
<1>5. /\ rate' \in [Timer -> Interval] /\ \A u \in Timer : TimerOf[rate'[u]] = u
      /\ minReq' \in [Timer -> Interval \cup {0, Infinity}]
      /\ \A u \in Timer : Children(u) # {} =>
           /\ minReq'[u] = rate'[u]
           /\ \A r \in Children(u) : rate'[u] <= interval[r]
  BY <1>2, <1>3, <1>4, ProgramTimersProps DEF ClearTimer, Children
<1>6. Rates'
  <2>1. \A r \in Registered : /\ TimerOf[interval[r]] \in Timer
                              /\ r \in Children(TimerOf[interval[r]])
    BY <1>3, TimerAssumption DEF Children, ChildrenIn
  <2>2. FastEnough'
    BY <1>1, <1>5, <2>1 DEF FastEnough, Registered
  <2>3. RateAgrees'
    BY <1>1, <1>5 DEF RateAgrees, Children, Registered
  <2> QED
    BY <2>2, <2>3 DEF Rates
<1>7. en' \subseteq Timer /\ sts' \subseteq Timer
  BY <1>2 DEF ClearTimer, EnProgrammed, Used, IInv, TypeOK
<1>8. TypeOK'
  BY <1>1, <1>5, <1>7 DEF IInv, TypeOK, Registered
<1> QED
  BY <1>1, <1>6, <1>8 DEF IInv, WalkOK

LEMMA StepInv == IInv /\ [Next]_vars => IInv'
<1> SUFFICES ASSUME IInv, [Next]_vars PROVE IInv'
  OBVIOUS
<1>1. CASE Driver
  <2>1. PICK r \in Rec : Service(r)
    BY <1>1 DEF Driver, Service
  <2> QED
    BY <1>1, <2>1, ServiceInv DEF Driver
<1>2. CASE Tick
  BY <1>2, ExpireInv DEF Tick
<1>3. ASSUME NEW t \in Timer, Dispatch(t) PROVE IInv'
  BY <1>3, DispatchInv
<1>4. CASE Walk
  BY <1>4, WalkInv
<1>5. CASE CallbackReturn
  <2>1. TypeOK'
    BY <1>5 DEF CallbackReturn, IInv, TypeOK, Registered, hw, core
  <2> QED
    BY <1>5, <2>1, SameRates DEF CallbackReturn, IInv, WalkOK, hw, core
<1>6. CASE ClearSource
  BY <1>6, ClearSourceInv
<1>7. CASE Callback
  <2>1. \E r \in Rec : Service(r)
    <3>1. Unregister(record) => record \in Rec
      BY TimerOfType, RegisteredType DEF Unregister, IInv
    <3> QED
      BY <1>7, <3>1 DEF Callback, Service
  <2> QED
    BY <1>7, <2>1, ServiceInv DEF Callback
<1>8. CASE Idle \/ UNCHANGED vars
  <2>1. UNCHANGED vars
    BY <1>8 DEF Idle
  <2> QED
    BY <2>1, SameRates DEF IInv, TypeOK, WalkOK, Registered, vars, hw, core
<1> QED
  BY <1>1, <1>2, <1>3, <1>4, <1>5, <1>6, <1>7, <1>8 DEF Next, Dispatcher

\* The inductive invariant holds in every reachable state.
LEMMA Invariance == Spec => []IInv
BY InitInv, StepInv, PTL DEF Spec

-----------------------------------------------------------------------------
(***************************************************************************)
(* The theorems                                                            *)
(***************************************************************************)

\* Every variable keeps its type; the PMC is never programmed with an interval
\* that is not the timer's own.
THEOREM TypeCorrect == Spec => []TypeOK
<1>1. IInv => TypeOK
  BY DEF IInv
<1> QED
  BY <1>1, Invariance, PTL

\* Every timer ticks as often as the most demanding of its children asked.
THEOREM TicksFastEnough == Spec => []FastEnough
<1>1. IInv => FastEnough
  BY DEF IInv, Rates
<1> QED
  BY <1>1, Invariance, PTL

\* A tick of a timer in use is credited with the interval that has elapsed.
THEOREM CreditsTheRate == Spec => []RateAgrees
<1>1. IInv => RateAgrees
  BY DEF IInv, Rates
<1> QED
  BY <1>1, Invariance, PTL

-----------------------------------------------------------------------------
(***************************************************************************)
(* Timers without pauses                                                   *)
(***************************************************************************)

NoPauses == {"pause", "resume"} \cap (DriverOps \cup CallbackOps) = {}

\* The timers in use after a registration, and after an unregistration.
LEMMA UsedByMore ==
  ASSUME TypeOK, NEW r \in Rec, NEW i \in Interval, NEW p \in Period, Register(r, i, p)
  PROVE  Used(ToSet(db'), interval') = Used(Registered, interval) \cup {TimerOf[i]}
<1>1. /\ ToSet(db') = Registered \cup {r} /\ r \notin Registered
      /\ interval'[r] = i /\ \A q \in Registered : interval'[q] = interval[q]
  BY RegisterProps
<1>2. TimerOf[i] \in Timer
  BY TimerAssumption
<1>3. ASSUME NEW u \in Timer
      PROVE  ChildrenIn(u, ToSet(db'), interval') =
               ChildrenIn(u, Registered, interval) \cup IF u = TimerOf[i] THEN {r} ELSE {}
  BY <1>1 DEF ChildrenIn
<1> QED
  BY <1>2, <1>3 DEF Used

LEMMA FollowStep ==
  ASSUME NoPauses, IInv, TimersFollowChildren, [Next]_vars
  PROVE  TimersFollowChildren'
<1>1. en = Used(Registered, interval)
  BY DEF TimersFollowChildren, Used, Children
<1>2. TimersFollowChildren' <=> en' = Used(ToSet(db'), interval')
  BY DEF TimersFollowChildren, Used, Children, Registered
<1>3. ASSUME NEW r \in Rec, NEW i \in Interval, NEW p \in Period, Register(r, i, p)
      PROVE  TimersFollowChildren'
  <2>1. Used(ToSet(db'), interval') = Used(Registered, interval) \cup {TimerOf[i]}
    BY <1>3, UsedByMore DEF IInv
  <2>2. en' = EnProgrammed(TimerOf[i], ToSet(db'), interval') \cup {TimerOf[i]}
    BY <1>3 DEF Register
  <2> QED
    BY <1>1, <1>2, <2>1, <2>2 DEF EnProgrammed
<1>4. ASSUME NEW r, Unregister(r)
      PROVE  TimersFollowChildren'
  <2>1. r \in Registered /\ interval' = interval
    BY <1>4 DEF Unregister
  <2>2. r \in Rec
    BY <2>1, TimerOfType, RegisteredType DEF IInv
  <2>3. ToSet(db') = Registered \ {r}
    BY <1>4, <2>2, UnregisterProps DEF IInv
  <2>4. en' = IF Children(TimerOf[interval[r]]) = {r} THEN en \ {TimerOf[interval[r]]} ELSE en
    BY <1>4 DEF Unregister
  <2>5. \A u \in Timer : ChildrenIn(u, ToSet(db'), interval') = Children(u) \ {r}
    BY <2>1, <2>3 DEF ChildrenIn, Children
  <2>6. \A u \in Timer : u # TimerOf[interval[r]] => r \notin Children(u)
    BY DEF ChildrenIn, Children
  <2>7. r \in Children(TimerOf[interval[r]])
    BY <2>1 DEF ChildrenIn, Children
  <2>8. Used(ToSet(db'), interval') = {u \in Timer : Children(u) \ {r} # {}}
    BY <2>5 DEF Used
  <2>9. en = {u \in Timer : Children(u) # {}}
    BY DEF TimersFollowChildren
  <2> QED
    BY <1>2, <2>4, <2>6, <2>7, <2>8, <2>9
<1>5. CASE UNCHANGED <<en, db, interval>>
  BY <1>1, <1>2, <1>5 DEF Registered
<1>6. CASE ClearSource
  <2>1. PICK t \in Timer : ClearTimer(t)
    BY <1>6 DEF ClearSource, IInv, WalkOK
  <2>2. en' = EnProgrammed(t, Registered, interval) /\ db' = db /\ interval' = interval
    BY <1>6, <2>1 DEF ClearTimer, ClearSource
  <2> QED
    BY <1>1, <1>2, <2>2 DEF EnProgrammed, Registered
<1>7. CASE Driver \/ Callback
  BY <1>3, <1>4, <1>7 DEF Driver, Callback, NoPauses
<1> QED
  BY <1>5, <1>6, <1>7 DEF Next, Tick, Expire, Dispatcher, Dispatch, Walk, CallbackReturn,
    Idle, vars, hw, core

\* If clients do not use the pause and resume services, exactly the timers with
\* children run, whoever registers or unregisters in the middle of a dispatch.
THEOREM TimersRunForChildren ==
  ASSUME NoPauses
  PROVE  Spec => []TimersFollowChildren
<1>1. Init => TimersFollowChildren
  BY DEF Init, TimersFollowChildren, Children, ChildrenIn, Registered, ToSet
<1>2. IInv /\ TimersFollowChildren /\ [Next]_vars => TimersFollowChildren'
  BY FollowStep
<1> QED
  BY <1>1, <1>2, Invariance, PTL DEF Spec

-----------------------------------------------------------------------------
(***************************************************************************)
(* Children are not called early                                           *)
(***************************************************************************)

\* While a tick is pending or being dispatched nobody registers at its timer or leaves
\* it but the child that is called. Otherwise the tick may be credited with an interval
\* other than the one it took.
StableWhilePending == "register" \notin CallbackOps /\ "unregister" \notin DriverOps

\* The tick of record r's timer is still to be credited to r.
ToCome(r) == link # End /\ (r = link \/ InOrder(db, link, r))
TickDue(r) ==
  IF TimerOf[interval[r]] \in timer THEN ToCome(r) ELSE TimerOf[interval[r]] \in sts

\* What a child has been credited with, and will be for such a tick, has passed.
CreditCovered(r) ==
  /\ elapsed[r] <= real[r]
  /\ TickDue(r) => elapsed[r] + minReq[TimerOf[interval[r]]] <= real[r]

\* A child that has not been called has not reached its period.
Bounded ==
  \A r \in Registered : period[r] \in Period /\ (elapsed[r] < period[r] \/ elapsed[r] = 0)

\* A timer that is not being dispatched is at the interval of one of its children, so
\* that programming it again changes nothing.
Programmed ==
  \A u \in Timer \ timer : Children(u) # {} => \E r \in Children(u) : interval[r] = minReq[u]

CalleeOwn == pc = "callback" => record \in Rec /\ TimerOf[interval[record]] \in timer

AheadInv == (\A r \in Registered : CreditCovered(r)) /\ Bounded /\ Programmed /\ CalleeOwn

\* A tick is credited with a natural number.
LEMMA CreditType ==
  ASSUME IInv, NEW r \in Registered
  PROVE  /\ r \in Rec /\ TimerOf[interval[r]] \in Timer /\ r \in Children(TimerOf[interval[r]])
         /\ minReq[TimerOf[interval[r]]] = rate[TimerOf[interval[r]]]
         /\ rate[TimerOf[interval[r]]] \in Interval /\ rate[TimerOf[interval[r]]] \in Nat
         /\ elapsed[r] \in Nat /\ real[r] \in Nat
<1>1. r \in Rec /\ TimerOf[interval[r]] \in Timer
  BY TimerOfType, RegisteredType DEF IInv
<1>2. r \in Children(TimerOf[interval[r]])
  BY DEF Children, ChildrenIn
<1>3. elapsed[r] \in 0..MaxReal /\ real[r] \in 0..MaxReal /\ MaxReal \in Nat
  BY <1>1, RealAssumption DEF IInv, TypeOK
<1>4. rate[TimerOf[interval[r]]] \in Interval /\ Interval \subseteq Nat
  BY <1>1, TimerAssumption DEF IInv, TypeOK
<1>5. minReq[TimerOf[interval[r]]] = rate[TimerOf[interval[r]]]
  BY <1>1, <1>2 DEF IInv, Rates, RateAgrees
<1>6. elapsed[r] \in Nat /\ real[r] \in Nat
  BY <1>3
<1>7. rate[TimerOf[interval[r]]] \in Nat
  BY <1>4
<1> QED
  BY <1>1, <1>2, <1>4, <1>5, <1>6, <1>7

\* Programming a timer whose children are the same as before does not change it.
LEMMA SameInterval ==
  ASSUME IInv, Programmed, NEW u \in Timer \ timer, Children(u) # {},
         NEW int \in [Rec -> Interval], \A r \in Children(u) : int[r] = interval[r],
         NEW i, \A r \in Children(u) : i <= int[r], \E r \in Children(u) : i = int[r]
  PROVE  i = minReq[u]
<1>1. PICK r \in Children(u) : interval[r] = minReq[u]
  BY DEF Programmed
<1>2. PICK q \in Children(u) : i = int[q]
  OBVIOUS
<1>3. r \in Registered /\ q \in Registered /\ TimerOf[interval[q]] = u
  BY DEF Children, ChildrenIn
<1>4. minReq[u] <= interval[q]
  BY <1>3 DEF IInv, Rates, FastEnough, RateAgrees
<1>5. r \in Rec /\ q \in Rec
  BY <1>3, CreditType
<1>6. interval[r] \in Nat /\ interval[q] \in Nat
  BY <1>5, TimerAssumption DEF IInv, TypeOK
<1> QED
  BY <1>1, <1>2, <1>4, <1>6

LEMMA InitAhead == Init => AheadInv
BY DEF Init, AheadInv, Bounded, Programmed, CalleeOwn, Registered, Children, ChildrenIn, ToSet

\* What changes neither the list nor the credits and sets no status.
LEMMA AheadKept ==
  ASSUME AheadInv, UNCHANGED <<db, interval, period, elapsed, real, minReq, link, record, timer>>,
         sts' \subseteq sts, pc' = "callback" => pc = "callback"
  PROVE  AheadInv'
BY DEF AheadInv, CreditCovered, TickDue, ToCome, Bounded, Programmed, CalleeOwn, Registered, Children

LEMMA RegisterAhead ==
  ASSUME IInv, AheadInv, NEW r \in Rec, NEW i \in Interval, NEW p \in Period,
         Register(r, i, p), pc = "os", UNCHANGED <<pc, timer, link, record>>
  PROVE  AheadInv'
<1>1. /\ timer = {} /\ timer' = {} /\ pc' = "os"
      /\ ToSet(db') = Registered \cup {r} /\ r \notin Registered
      /\ interval'[r] = i /\ \A q \in Registered : interval'[q] = interval[q]
      /\ interval' \in [Rec -> Interval]
  BY RegisterProps DEF IInv, WalkOK, ListOK
<1>2. /\ elapsed' = [elapsed EXCEPT ![r] = 0] /\ real' = [real EXCEPT ![r] = 0]
      /\ period' = [period EXCEPT ![r] = p] /\ sts' = sts \ {TimerOf[i]}
      /\ ProgramTimers(ToSet(db'), interval')
  BY DEF Register
<1>3. /\ elapsed'[r] = 0 /\ real'[r] = 0 /\ period'[r] = p
      /\ \A q \in Rec \ {r} : elapsed'[q] = elapsed[q] /\ real'[q] = real[q] /\ period'[q] = period[q]
  BY <1>2 DEF IInv, TypeOK
<1>4. Registered \subseteq Rec /\ ToSet(db') \in SUBSET Rec
  BY <1>1, TimerOfType, RegisteredType DEF IInv
<1>5. \A u \in Timer : ChildrenIn(u, ToSet(db'), interval') # {} =>
        /\ minReq'[u] = rate'[u]
        /\ \A q \in ChildrenIn(u, ToSet(db'), interval') : rate'[u] <= interval'[q]
        /\ \E q \in ChildrenIn(u, ToSet(db'), interval') : rate'[u] = interval'[q]
  <2>1. rate \in [Timer -> Interval] /\ \A t \in Timer : TimerOf[rate[t]] = t
    BY DEF IInv, TypeOK
  <2> QED
    BY <1>1, <1>2, <1>4, <2>1, ProgramTimersProps
<1>6. ASSUME NEW q \in ToSet(db') PROVE CreditCovered(q)'
  <2>1. CASE q = r
    BY <1>1, <1>2, <1>3, <2>1 DEF CreditCovered, TickDue
  <2>2. CASE q # r /\ TimerOf[interval[q]] = TimerOf[i]
    BY <1>1, <1>2, <1>3, <1>4, <2>2 DEF CreditCovered, TickDue, AheadInv
  <2>3. CASE q # r /\ TimerOf[interval[q]] # TimerOf[i]
    <3> DEFINE u == TimerOf[interval[q]]
    <3>1. q \in Registered /\ q \in Rec
      BY <1>1, <1>4, <2>3
    <3>2. u \in Timer /\ q \in Children(u)
      BY <3>1, CreditType
    <3>3. ChildrenIn(u, ToSet(db'), interval') = Children(u)
      BY <1>1, <2>3 DEF Children, ChildrenIn
    <3>4. \A c \in Children(u) : interval'[c] = interval[c]
      BY <1>1 DEF Children, ChildrenIn
    <3> HIDE DEF u
    <3>5. minReq'[u] = minReq[u]
      <4>1. u \in Timer \ timer /\ Children(u) # {}
        BY <1>1, <3>2
      <4>2. /\ \A c \in Children(u) : minReq'[u] <= interval'[c]
            /\ \E c \in Children(u) : minReq'[u] = interval'[c]
        BY <1>5, <3>2, <3>3
      <4>3. Programmed /\ interval' \in [Rec -> Interval]
        BY <1>1 DEF AheadInv
      <4> QED
        BY <3>4, <4>1, <4>2, <4>3, SameInterval
    <3>6. CreditCovered(q)
      BY <3>1 DEF AheadInv
    <3>7. TickDue(q)' => TickDue(q)
      BY <1>1, <1>2, <3>1 DEF TickDue
    <3>8. /\ elapsed'[q] = elapsed[q] /\ real'[q] = real[q]
          /\ minReq'[TimerOf[interval'[q]]] = minReq[TimerOf[interval[q]]]
      BY <1>1, <1>3, <2>3, <3>1, <3>5 DEF u
    <3> QED
      BY <3>6, <3>7, <3>8 DEF CreditCovered
  <2> QED
    BY <2>1, <2>2, <2>3
<1>7. Bounded'
  BY <1>1, <1>3, <1>4 DEF AheadInv, Bounded, Registered
<1>8. Programmed'
  BY <1>5 DEF Programmed, Children, Registered
<1> QED
  BY <1>1, <1>6, <1>7, <1>8 DEF AheadInv, CalleeOwn, Registered

\* A child that unregisters in its own callback takes the timer's tick from nobody.
LEMMA UnregisterAhead ==
  ASSUME IInv, AheadInv, Unregister(record), pc = "callback",
         UNCHANGED <<pc, timer, link, record>>
  PROVE  AheadInv'
<1>1. record \in Registered /\ record \in Rec
  BY CreditType DEF Unregister
<1>2. /\ ToSet(db') = Registered \ {record} /\ db' = RemoveAt(db, Position(record))
      /\ UNCHANGED <<sts, minReq, interval, period, elapsed, real>>
  BY <1>1, UnregisterProps DEF Unregister, IInv
<1>3. \A r : ToCome(r)' => ToCome(r)
  <2>1. Position(record) \in DOMAIN db /\ db \in Seq(Rec)
    BY <1>1, PositionProps DEF IInv, TypeOK
  <2>2. ASSUME NEW r, InOrder(db', link, r) PROVE InOrder(db, link, r)
    BY <1>2, <2>1, <2>2, RemoveTakesOrder
  <2> QED
    BY <2>2 DEF ToCome
<1>4. \A r \in ToSet(db') : CreditCovered(r)'
  BY <1>2, <1>3 DEF AheadInv, CreditCovered, TickDue
<1>5. Programmed'
  <2> SUFFICES ASSUME NEW u \in Timer \ timer, ChildrenIn(u, ToSet(db'), interval) # {}
               PROVE  \E r \in ChildrenIn(u, ToSet(db'), interval) : interval[r] = minReq[u]
    BY <1>2 DEF Programmed, Children, Registered
  <2>1. ChildrenIn(u, ToSet(db'), interval) = Children(u)
    BY <1>2 DEF Children, ChildrenIn, AheadInv, CalleeOwn
  <2> QED
    BY <2>1 DEF AheadInv, Programmed
<1> QED
  BY <1>2, <1>4, <1>5 DEF AheadInv, Bounded, CalleeOwn, Registered

LEMMA ExpireAhead ==
  ASSUME IInv, AheadInv, NEW t \in Timer, Expire(t)
  PROVE  AheadInv'
<1>1. /\ UNCHANGED <<minReq, db, interval, period, elapsed, pc, timer, link, record>>
      /\ sts' = sts \cup {t}
  BY DEF Expire, core
<1>2. \A r \in Rec : real'[r] = IF r \in Children(t)
        THEN IF real[r] + rate[t] <= MaxReal THEN real[r] + rate[t] ELSE MaxReal
        ELSE real[r]
  BY DEF Expire
<1>3. ASSUME NEW r \in Registered PROVE CreditCovered(r)'
  <2>1. /\ r \in Rec /\ elapsed[r] \in Nat /\ real[r] \in Nat /\ MaxReal \in Nat
        /\ minReq[TimerOf[interval[r]]] = rate[TimerOf[interval[r]]]
        /\ rate[TimerOf[interval[r]]] \in Interval /\ rate[TimerOf[interval[r]]] \in Nat
        /\ real[r] <= MaxReal
    BY CreditType, RealAssumption DEF IInv, TypeOK
  <2>2. CreditCovered(r) /\ period[r] \in Period /\ (elapsed[r] < period[r] \/ elapsed[r] = 0)
    BY DEF AheadInv, Bounded
  <2>3. CASE r \in Children(t)
    <3>1. TimerOf[interval[r]] = t /\ rate[t] \in Nat
      BY <2>1, <2>3 DEF Children, ChildrenIn
    <3>2. elapsed[r] + rate[t] <= MaxReal
      <4>1. period[r] \in Nat /\ period[r] + rate[t] <= MaxReal
        BY <2>1, <2>2, <3>1, RealAssumption, TimerAssumption
      <4> QED
        BY <2>1, <2>2, <3>1, <4>1
    <3>3. elapsed[r] <= real[r]
      BY <2>2 DEF CreditCovered
    <3>4. elapsed[r] + rate[t] <= real'[r]
      <4>1. real'[r] = IF real[r] + rate[t] <= MaxReal THEN real[r] + rate[t] ELSE MaxReal
        BY <1>2, <2>1, <2>3
      <4>2. elapsed[r] + rate[t] <= real[r] + rate[t]
        BY <2>1, <3>1, <3>3
      <4> QED
        BY <3>2, <4>1, <4>2
    <3>5. real'[r] \in Int
      BY <1>2, <2>1, <2>3, <3>1
    <3>6. elapsed[r] <= real'[r]
      BY <2>1, <3>1, <3>4, <3>5
    <3> QED
      BY <1>1, <2>1, <3>1, <3>4, <3>6 DEF CreditCovered
  <2>4. CASE r \notin Children(t)
    <3>1. TimerOf[interval[r]] # t /\ real'[r] = real[r]
      BY <1>2, <2>1, <2>4 DEF Children, ChildrenIn
    <3>2. TickDue(r)' => TickDue(r)
      BY <1>1, <3>1 DEF TickDue, ToCome
    <3> QED
      BY <1>1, <2>2, <3>1, <3>2 DEF CreditCovered
  <2> QED
    BY <2>3, <2>4
<1> QED
  BY <1>1, <1>3 DEF AheadInv, Bounded, Programmed, CalleeOwn, Registered, Children

LEMMA DispatchAhead ==
  ASSUME IInv, AheadInv, NEW t \in Timer, Dispatch(t)
  PROVE  AheadInv'
<1>1. /\ UNCHANGED <<sts, minReq, db, interval, period, elapsed, record, real>>
      /\ timer = {} /\ timer' = {t} /\ pc' = "walk" /\ t \in sts
  BY DEF Dispatch, hw, core, SourceIsActive, IInv, WalkOK
<1>2. \A r \in Registered : TickDue(r)' => TickDue(r)
  BY <1>1 DEF TickDue
<1> QED
  BY <1>1, <1>2 DEF AheadInv, CreditCovered, Bounded, Programmed, CalleeOwn, Registered, Children

\* What is still to come after the next step of the walk was to come before it.
LEMMA WalkedOn ==
  ASSUME IInv, link # End, link' = NextOf(link), UNCHANGED db, NEW r, ToCome(r)'
  PROVE  ToCome(r) /\ r # link
<1>1. link \in Registered /\ ListOK
  BY TimerOfType DEF IInv, TypeOK
<1> DEFINE i == Position(link)
<1>2. i \in DOMAIN db /\ db[i] = link
  BY <1>1, PositionProps
<1>3. db \in Seq(Rec) /\ Injective(db) /\ DOMAIN db = 1..Len(db) /\ Len(db) \in Nat
  BY <1>1 DEF ListOK
<1>4. i # Len(db) /\ link' = db[i + 1]
  BY DEF ToCome, NextOf
<1> HIDE DEF i
<1>5. i + 1 \in DOMAIN db
  BY <1>2, <1>3, <1>4
<1>6. PICK j \in DOMAIN db : db[j] = r /\ i + 1 <= j
  <2>1. CASE r = link'
    <3>1. db[i + 1] = r /\ i + 1 <= i + 1
      BY <1>2, <1>3, <1>4, <2>1
    <3> QED
      BY <1>5, <3>1
  <2>2. CASE InOrder(db, link', r)
    <3>1. PICK k \in DOMAIN db, j \in DOMAIN db : k < j /\ db[k] = link' /\ db[j] = r
      BY <2>2 DEF InOrder
    <3>2. k = i + 1
      BY <1>3, <1>4, <1>5, <3>1 DEF Injective
    <3>3. i + 1 <= j
      BY <1>3, <3>1, <3>2
    <3> QED
      BY <3>1, <3>3
  <2> QED
    BY <2>1, <2>2 DEF ToCome
<1>7. i < j
  BY <1>2, <1>3, <1>6
<1>8. InOrder(db, link, r)
  BY <1>2, <1>6, <1>7 DEF InOrder
<1>9. r # link
  BY <1>2, <1>3, <1>6, <1>7 DEF Injective
<1> QED
  BY <1>8, <1>9 DEF ToCome

LEMMA WalkAhead ==
  ASSUME IInv, AheadInv, Walk
  PROVE  AheadInv'
<1>1. /\ UNCHANGED <<sts, minReq, db, interval, period, timer>> /\ pc = "walk"
      /\ link # End /\ link' = NextOf(link)
  BY DEF Walk, hw, core
<1>2. link \in Registered /\ link \in Rec
  BY <1>1, CreditType DEF IInv, TypeOK
<1>3. \A r \in Registered : TickDue(r)' => TickDue(r) /\ (TimerOf[interval[r]] \in timer => r # link)
  BY <1>1, WalkedOn DEF TickDue
<1>4. CASE TimerOf[interval[link]] \notin timer
  <2>1. UNCHANGED <<elapsed, real, record, pc>>
    BY <1>4 DEF Walk
  <2> QED
    BY <1>1, <1>3, <2>1
       DEF AheadInv, CreditCovered, Bounded, Programmed, CalleeOwn, Registered, Children
<1>5. CASE TimerOf[interval[link]] \in timer
  <2> DEFINE e   == Credited(link, TimerOf[interval[link]])
             due == e >= period[link]
  <2>1. /\ elapsed' = [elapsed EXCEPT ![link] = IF due THEN 0 ELSE e]
        /\ real' = IF due THEN [real EXCEPT ![link] = 0] ELSE real
        /\ pc' = "callback" => record' = link
    <3>1. timer = {TimerOf[interval[link]]}
      BY <1>1, <1>5 DEF IInv, WalkOK
    <3> QED
      BY <1>1, <1>5, <3>1 DEF Walk, NotDue
  <2>2. e <= real[link]
    <3>1. TickDue(link)
      BY <1>1, <1>5 DEF TickDue, ToCome
    <3> QED
      BY <1>2, <3>1 DEF AheadInv, CreditCovered, Credited
  <2>3. /\ elapsed'[link] = IF due THEN 0 ELSE e
        /\ real'[link] = IF due THEN 0 ELSE real[link]
        /\ \A r \in Rec \ {link} : elapsed'[r] = elapsed[r] /\ real'[r] = real[r]
    BY <1>2, <2>1 DEF IInv, TypeOK
  <2>4. e \in Nat /\ period[link] \in Nat
    <3>1. elapsed[link] \in Nat /\ minReq[TimerOf[interval[link]]] \in Nat
      BY <1>2, CreditType
    <3>2. period[link] \in Period /\ Period \subseteq Nat
      BY <1>2, TimerAssumption DEF AheadInv, Bounded
    <3>3. period[link] \in Nat
      BY <3>2
    <3>4. e \in Nat
      BY <3>1 DEF Credited
    <3> QED
      BY <3>3, <3>4
  <2> HIDE DEF e
  <2>5. elapsed'[link] <= real'[link] /\ (elapsed'[link] = 0 \/ elapsed'[link] < period[link])
    BY <2>2, <2>3, <2>4
  <2> HIDE DEF due
  <2>6. ASSUME NEW r \in Registered PROVE CreditCovered(r)'
    <3>1. CASE r = link
      BY <1>1, <1>3, <1>5, <2>5, <3>1 DEF CreditCovered
    <3>2. CASE r # link
      <4>1. r \in Rec /\ CreditCovered(r)
        BY CreditType DEF AheadInv
      <4> QED
        BY <1>1, <1>3, <2>3, <3>2, <4>1 DEF CreditCovered
    <3> QED
      BY <3>1, <3>2
  <2>7. ASSUME NEW r \in Registered
        PROVE  period[r] \in Period /\ (elapsed'[r] < period[r] \/ elapsed'[r] = 0)
    <3>1. r \in Rec /\ period[r] \in Period /\ (elapsed[r] < period[r] \/ elapsed[r] = 0)
      BY CreditType DEF AheadInv, Bounded
    <3> QED
      BY <2>3, <2>5, <3>1
  <2>8. Bounded' /\ Programmed' /\ CalleeOwn'
    BY <1>1, <1>2, <1>5, <2>1, <2>7
       DEF AheadInv, Bounded, Programmed, CalleeOwn, Registered, Children
  <2> QED
    BY <1>1, <2>6, <2>8 DEF AheadInv, Registered
<1> QED
  BY <1>4, <1>5

LEMMA ClearSourceAhead ==
  ASSUME IInv, AheadInv, ClearSource
  PROVE  AheadInv'
<1>1. /\ UNCHANGED <<db, interval, period, elapsed, link, record, real>>
      /\ pc' = "os" /\ timer' = {} /\ link = End
  BY DEF ClearSource
<1>2. PICK t \in Timer : timer = {t} /\ ClearTimer(t)
  BY DEF ClearSource, IInv, WalkOK
<1>3. Registered \in SUBSET Rec /\ interval \in [Rec -> Interval]
  BY TimerOfType, RegisteredType DEF IInv, ListOK
<1>4. \A u \in Timer : Children(u) # {} =>
        /\ minReq'[u] = rate'[u]
        /\ \A r \in Children(u) : rate'[u] <= interval[r]
        /\ \E r \in Children(u) : rate'[u] = interval[r]
  <2>1. rate \in [Timer -> Interval] /\ \A u \in Timer : TimerOf[rate[u]] = u
    BY DEF IInv, TypeOK
  <2> QED
    BY <1>2, <1>3, <2>1, ProgramTimersProps DEF ClearTimer, Children
<1>5. ASSUME NEW r \in Registered PROVE CreditCovered(r)'
  <2> DEFINE u == TimerOf[interval[r]]
  <2>1. u \in Timer /\ r \in Children(u) /\ CreditCovered(r)
    BY CreditType DEF AheadInv
  <2>2. CASE u = t
    <3>1. t \notin sts'
      BY <1>2, <2>1, <2>2 DEF ClearTimer
    <3> QED
      BY <1>1, <2>1, <2>2, <3>1 DEF CreditCovered, TickDue
  <2>3. CASE u # t
    <3>1. u \in Timer \ timer /\ Children(u) # {} /\ Programmed
      BY <1>2, <2>1, <2>3 DEF AheadInv
    <3> HIDE DEF u
    <3>2. minReq'[u] = minReq[u]
      BY <1>3, <1>4, <3>1, SameInterval
    <3>3. TickDue(r)' => TickDue(r)
      BY <1>1, <1>2, <3>1 DEF TickDue, ClearTimer, u
    <3> QED
      BY <1>1, <2>1, <3>2, <3>3 DEF CreditCovered, u
  <2> QED
    BY <2>2, <2>3
<1>6. Programmed'
  BY <1>1, <1>4 DEF Programmed, Children, Registered
<1> QED
  BY <1>1, <1>5, <1>6 DEF AheadInv, Bounded, CalleeOwn, Registered

LEMMA StepAhead == StableWhilePending /\ IInv /\ AheadInv /\ [Next]_vars => AheadInv'
<1> SUFFICES ASSUME StableWhilePending, IInv, AheadInv, [Next]_vars PROVE AheadInv'
  OBVIOUS
<1>1. ASSUME NEW r, Pause(r) \/ Resume(r), UNCHANGED <<pc, timer, link, record>>
      PROVE  AheadInv'
  <2>1. UNCHANGED <<db, interval, period, elapsed, real, minReq>> /\ sts' \subseteq sts
    BY <1>1 DEF Pause, Resume, core
  <2> QED
    BY <1>1, <2>1, AheadKept
<1>2. CASE Driver
  BY <1>1, <1>2, RegisterAhead DEF Driver, StableWhilePending
<1>3. CASE Callback
  BY <1>1, <1>3, UnregisterAhead DEF Callback, StableWhilePending
<1>4. CASE Tick
  BY <1>4, ExpireAhead DEF Tick
<1>5. CASE Dispatcher
  <2>1. CASE CallbackReturn
    BY <2>1 DEF CallbackReturn, hw, core, AheadInv, CreditCovered, TickDue, ToCome, Bounded,
                Programmed, CalleeOwn, Registered, Children
  <2> QED
    BY <1>5, <2>1, DispatchAhead, WalkAhead, ClearSourceAhead DEF Dispatcher
<1>6. CASE Idle \/ UNCHANGED vars
  BY <1>6, AheadKept DEF Idle, vars, hw, core
<1> QED
  BY <1>2, <1>3, <1>4, <1>5, <1>6 DEF Next

\* No child is called before its period is over: PeriodicTimerGetContext credits ticks
\* with the interval in mTimers (PchSmmPeriodicTimer.c:300), and as long as nobody
\* registers at or leaves a timer with a tick pending, that is the time they took,
\* whichever children share the timer, pause and resume it or leave it when called.
THEOREM NotCalledEarly ==
  ASSUME StableWhilePending
  PROVE  Spec => []NeverAhead
<1>1. AheadInv => NeverAhead
  BY DEF AheadInv, CreditCovered, NeverAhead
<1> QED
  BY <1>1, InitAhead, StepAhead, Invariance, PTL DEF Spec
=============================================================================
