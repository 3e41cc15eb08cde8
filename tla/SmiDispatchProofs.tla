------------------------- MODULE SmiDispatchProofs -------------------------
(***************************************************************************)
(* What TLAPS proves of SmiDispatch, for every set of blocks and sources.  *)
(***************************************************************************)
EXTENDS SmiDispatch, ListLemmas

-----------------------------------------------------------------------------
(***************************************************************************)
(* The operations on the database                                          *)
(***************************************************************************)

\* Enabling a source stays within the bits there are, and sets its enable bits.
LEMMA EnableSourceType ==
  ASSUME HardwareOK, NEW s \in Source, EnableSource(s)
  PROVE  /\ enBits' = enBits \cup En[s] /\ enBits' \subseteq EnBit
         /\ stsBits' \subseteq StsBit
         /\ sciEn' \in BOOLEAN /\ eos' \in BOOLEAN /\ smi' \in BOOLEAN
<1>1. En[s] \in SUBSET EnBit
  BY SourceAssumption
<1> QED
  BY <1>1 DEF HardwareOK, EnableSource, Arbitrate

\* A registration adds one record at the tail, which describes its source.
LEMMA RegisterRecordProps ==
  ASSUME DatabaseOK, NEW r \in Rec, NEW s \in Source, RegisterRecord(r, s)
  PROVE  /\ DatabaseOK'
         /\ ToSet(db') = Registered \cup {r}
         /\ r \notin Registered
         /\ desc'[r] = s
         /\ \A q \in Registered : desc'[q] = desc[q]
<1>1. /\ db' = Append(db, r) /\ desc' = [desc EXCEPT ![r] = s]
      /\ r \notin Registered /\ mReadyToLock' = mReadyToLock
  BY DEF RegisterRecord
<1>2. db \in Seq(Rec) /\ Injective(db) /\ desc \in [Rec -> Source \cup {NoSource}]
  BY DEF DatabaseOK, Injective
<1>3. /\ db' \in Seq(Rec) /\ ToSet(db') = Registered \cup {r} /\ Injective(db')
  BY <1>1, <1>2, AppendToList DEF Registered
<1>4. /\ desc' \in [Rec -> Source \cup {NoSource}] /\ desc'[r] = s
      /\ \A q \in Registered : desc'[q] = desc[q]
  BY <1>1, <1>2
<1>5. \A q \in ToSet(db') : desc'[q] \in Source
  BY <1>3, <1>4 DEF DatabaseOK
<1> QED
  BY <1>1, <1>3, <1>4, <1>5 DEF DatabaseOK, Registered, Injective

\* The place of a registered record is a place in the list.
LEMMA PositionProps ==
  ASSUME NEW r \in Registered
  PROVE  Position(r) \in DOMAIN db /\ db[Position(r)] = r
BY DEF Position, Registered, ToSet

\* Unregistering takes one record off the list and leaves the others alone.
LEMMA UnregisterRecordProps ==
  ASSUME DatabaseOK, NEW r \in Rec, UnregisterRecord(r)
  PROVE  /\ DatabaseOK'
         /\ r \in Registered \ Permanent
         /\ ToSet(db') = Registered \ {r}
         /\ enBits' = EnBitsWithout(r, ToSet(db'))
<1>1. /\ db' = RemoveAt(db, Position(r)) /\ r \in Registered \ Permanent
      /\ desc' = desc /\ mReadyToLock' = mReadyToLock
      /\ enBits' = EnBitsWithout(r, ToSet(db'))
  BY DEF UnregisterRecord
<1>2. db \in Seq(Rec) /\ Injective(db)
  BY DEF DatabaseOK, Injective
<1>3. Position(r) \in DOMAIN db /\ db[Position(r)] = r
  BY <1>1, PositionProps
<1>4. db' \in Seq(Rec) /\ ToSet(db') = Registered \ {r} /\ Injective(db')
  BY <1>1, <1>2, <1>3, RemoveFromList DEF Registered
<1> QED
  BY <1>1, <1>4 DEF DatabaseOK, Registered, Injective

\* GetNextNode yields a block or the list head; on a listed record, a listed
\* record that is another one, or the list head.
LEMMA NextOfProps ==
  ASSUME DatabaseOK, NEW r \in Rec \cup {End}, NEW next \in NextOf(r)
  PROVE  /\ next \in Rec \cup {End}
         /\ r \in Registered => next \in (Registered \ {r}) \cup {End}
<1>1. CASE r \in Registered
  <2>1. Position(r) \in DOMAIN db /\ db[Position(r)] = r
    BY <1>1, PositionProps
  <2>2. db \in Seq(Rec) /\ DOMAIN db = 1..Len(db) /\ Len(db) \in Nat
    BY DEF DatabaseOK
  <2>3. CASE Position(r) = Len(db)
    BY <1>1, <2>3 DEF NextOf
  <2>4. CASE Position(r) # Len(db)
    <3>1. next = db[Position(r) + 1]
      BY <1>1, <2>4 DEF NextOf
    <3>2. Position(r) + 1 \in DOMAIN db /\ Position(r) + 1 # Position(r)
      BY <2>1, <2>2, <2>4
    <3>3. next # r
      BY <2>1, <3>1, <3>2 DEF DatabaseOK
    <3>4. next \in Registered /\ next \in Rec
      BY <2>2, <3>1, <3>2 DEF Registered, ToSet
    <3> QED
      BY <3>3, <3>4
  <2> QED
    BY <2>3, <2>4
<1>2. CASE r \notin Registered
  BY <1>2 DEF NextOf
<1> QED
  BY <1>1, <1>2

-----------------------------------------------------------------------------
(***************************************************************************)
(* Type correctness                                                        *)
(***************************************************************************)

\* Whatever leaves a part of the state alone keeps that part's type.
LEMMA Unchanging ==
  /\ HardwareOK /\ UNCHANGED hw => HardwareOK'
  /\ DatabaseOK /\ UNCHANGED core => DatabaseOK'
  /\ DispatcherOK /\ UNCHANGED <<pc, locals>> => DispatcherOK'
  /\ CountersOK /\ UNCHANGED <<pc, escapeCount, raised>> => CountersOK'
  /\ CountersOK /\ UNCHANGED <<escapeCount, raised>> /\ pc' # "search" => CountersOK'
<1>1. HardwareOK /\ UNCHANGED hw => HardwareOK'
  BY DEF HardwareOK, hw
<1>2. DatabaseOK /\ UNCHANGED core => DatabaseOK'
  BY DEF DatabaseOK, Registered, core
<1>3. DispatcherOK /\ UNCHANGED <<pc, locals>> => DispatcherOK'
  BY DEF DispatcherOK, locals
<1>4. CountersOK /\ UNCHANGED <<pc, escapeCount, raised>> => CountersOK'
  BY DEF CountersOK
<1>5. CountersOK /\ UNCHANGED <<escapeCount, raised>> /\ pc' # "search" => CountersOK'
  BY DEF CountersOK
<1> QED
  BY <1>1, <1>2, <1>3, <1>4, <1>5

\* Registering, from a driver or a callback, keeps the types.
LEMMA RegisterType ==
  ASSUME HardwareOK, DatabaseOK, NEW s \in Source,
         \/ \E r \in Rec : RegisterRecord(r, s)
         \/ RegisterWithoutRecord(s)
  PROVE  HardwareOK' /\ DatabaseOK'
<1>1. EnableSource(s)
  BY DEF RegisterRecord, RegisterWithoutRecord
<1>2. HardwareOK'
  BY <1>1, EnableSourceType DEF HardwareOK
<1>3. DatabaseOK'
  BY RegisterRecordProps, Unchanging DEF RegisterWithoutRecord
<1> QED
  BY <1>2, <1>3

\* Unregistering, from a driver or a callback, keeps the types.
LEMMA UnregisterType ==
  ASSUME HardwareOK, DatabaseOK, NEW r \in Rec, UnregisterRecord(r)
  PROVE  HardwareOK' /\ DatabaseOK'
<1>1. DatabaseOK' /\ enBits' \subseteq enBits
  BY UnregisterRecordProps DEF EnBitsWithout
<1> QED
  BY <1>1 DEF UnregisterRecord, HardwareOK

\* Changing only the status bits, with the arbiter's answer, keeps the types.
LEMMA StatusType ==
  ASSUME HardwareOK, stsBits' \subseteq StsBit, enBits' \subseteq EnBit,
         sciEn' \in BOOLEAN, Arbitrate
  PROVE  HardwareOK'
BY DEF HardwareOK, Arbitrate

\* The initial state is well typed.
LEMMA InitType == Init => TypeOK
<1> SUFFICES ASSUME Init PROVE TypeOK
  OBVIOUS
<1>1. HardwareOK
  <2>1. En[SwSource] \in SUBSET EnBit
    BY SourceAssumption
  <2> QED
    BY <2>1 DEF Init, HardwareOK
<1>2. DatabaseOK
  <2>1. db \in Seq(Rec) /\ DOMAIN db = {1} /\ db[1] = SwRec /\ Registered = {SwRec}
    BY RecAssumption DEF Init, Registered, ToSet
  <2> QED
    BY <2>1, RecAssumption, SourceAssumption DEF Init, DatabaseOK
<1>3. DispatcherOK
  BY DEF Init, DispatcherOK, NoBlock
<1>4. CountersOK
  BY BoundAssumption DEF Init, CountersOK, EscapeLimit
<1> QED
  BY <1>1, <1>2, <1>3, <1>4 DEF TypeOK

\* A step of PchSmmCoreDispatcher keeps the types.
LEMMA DispatcherType == TypeOK /\ Dispatcher => TypeOK'
<1> SUFFICES ASSUME TypeOK, Dispatcher
             PROVE  HardwareOK' /\ DatabaseOK' /\ DispatcherOK' /\ CountersOK'
  BY DEF TypeOK
<1>0. HardwareOK /\ DatabaseOK /\ DispatcherOK /\ CountersOK
  BY DEF TypeOK
<1>1. CASE StartDispatch
  <2>1. HardwareOK' /\ DatabaseOK'
    BY <1>0, <1>1, Unchanging DEF StartDispatch
  <2>2. DispatcherOK'
    BY <1>0, <1>1 DEF StartDispatch, DispatcherOK
  <2>3. CountersOK'
    BY <1>0, <1>1 DEF StartDispatch, CountersOK, EscapeLimit
  <2> QED
    BY <2>1, <2>2, <2>3
<1>2. CASE Search
  <2>1. HardwareOK' /\ DatabaseOK'
    BY <1>0, <1>2, Unchanging DEF Search
  <2>2. seen' \in [tops : SUBSET TopBit, sci : BOOLEAN]
    <3>1. {Top[s] : s \in Pending} \subseteq TopBit
      BY SourceAssumption DEF Pending, PendingIn
    <3>2. sciEn \in BOOLEAN
      BY <1>0 DEF HardwareOK
    <3> QED
      BY <1>2, <3>1, <3>2 DEF Search
  <2>3. recordInDb' \in Rec \cup {End} /\ (pc' = "scan" => recordInDb' \in Rec)
    <3>1. db # <<>> => Head(db) \in Rec
      BY <1>0 DEF DatabaseOK
    <3> QED
      BY <1>0, <1>2, <3>1 DEF Search, DispatcherOK
  <2>4. DispatcherOK'
    BY <1>0, <1>2, <2>2, <2>3 DEF Search, DispatcherOK
  <2>5. CountersOK'
    BY <1>0, <1>2 DEF Search, CountersOK, CountDown, EscapeLimit
  <2> QED
    BY <2>1, <2>4, <2>5
<1>3. CASE ScanInactive
  <2>1. HardwareOK' /\ DatabaseOK'
    BY <1>0, <1>3, Unchanging DEF ScanInactive
  <2>2. recordInDb' \in Rec \cup {End} /\ (pc' = "scan" => recordInDb' \in Rec)
    BY <1>0, <1>3, NextOfProps DEF ScanInactive, DispatcherOK
  <2>3. DispatcherOK'
    BY <1>0, <1>3, <2>2 DEF ScanInactive, DispatcherOK
  <2>4. CountersOK'
    BY <1>0, <1>3, Unchanging DEF ScanInactive
  <2> QED
    BY <2>1, <2>3, <2>4
<1>4. CASE ScanActive
  <2>1. HardwareOK' /\ DatabaseOK'
    BY <1>0, <1>4, Unchanging DEF ScanActive
  <2>2. activeSource' \in Source \cup {NoSource}
    BY <1>0, <1>4 DEF ScanActive, DispatcherOK, DatabaseOK
  <2>5. due' \subseteq Rec
    BY <1>0, <1>4 DEF ScanActive, Registered, ToSet, DatabaseOK
  <2>3. DispatcherOK'
    BY <1>0, <1>4, <2>2, <2>5 DEF ScanActive, DispatcherOK
  <2>4. CountersOK'
    BY <1>0, <1>4, Unchanging DEF ScanActive
  <2> QED
    BY <2>1, <2>3, <2>4
<1>5. CASE Exhaust
  <2>1. HardwareOK' /\ DatabaseOK'
    BY <1>0, <1>5, Unchanging DEF Exhaust
  <2>2. linkToExhaust' \in Rec \cup {End}
    BY <1>0, <1>5, NextOfProps DEF Exhaust, DispatcherOK
  <2>3. DispatcherOK'
    BY <1>0, <1>5, <2>2 DEF Exhaust, DispatcherOK
  <2>4. CountersOK'
    BY <1>0, <1>5, Unchanging DEF Exhaust
  <2> QED
    BY <2>1, <2>3, <2>4
<1>6. CASE CallbackReturn
  <2>1. HardwareOK' /\ DatabaseOK' /\ CountersOK'
    BY <1>0, <1>6, Unchanging DEF CallbackReturn
  <2>2. DispatcherOK'
    BY <1>0, <1>6 DEF CallbackReturn, DispatcherOK, NoBlock, LinkAfterCallback
  <2> QED
    BY <2>1, <2>2
<1>7. CASE ClearSource
  <2>1. HardwareOK'
    <3>1. stsBits' \subseteq stsBits /\ UNCHANGED <<enBits, sciEn, eos, smi>>
      BY <1>7 DEF ClearSource
    <3> QED
      BY <1>0, <3>1 DEF HardwareOK
  <2>2. DatabaseOK' /\ CountersOK'
    BY <1>0, <1>7, Unchanging DEF ClearSource, locals
  <2>3. DispatcherOK'
    BY <1>0, <1>7 DEF ClearSource, DispatcherOK, locals
  <2> QED
    BY <2>1, <2>2, <2>3
<1>8. CASE SetAndCheckEos
  <2>1. HardwareOK'
    BY <1>0, <1>8 DEF SetAndCheckEos, HardwareOK
  <2>2. DatabaseOK'
    BY <1>0, <1>8, Unchanging DEF SetAndCheckEos
  <2>3. DispatcherOK'
    BY <1>0, <1>8 DEF SetAndCheckEos, DispatcherOK, locals
  <2>4. CountersOK'
    BY <1>0, <1>8 DEF SetAndCheckEos, CountersOK, LoopEnds, EscapeLimit, locals
  <2> QED
    BY <2>1, <2>2, <2>3, <2>4
<1>9. CASE Exit
  <2>1. HardwareOK' /\ DatabaseOK'
    BY <1>0, <1>9, Unchanging DEF Exit
  <2>2. DispatcherOK'
    BY <1>0, <1>9 DEF Exit, ReturnTo, DispatcherOK, NoBlock
  <2>3. CountersOK'
    BY <1>0, <1>9 DEF Exit, ReturnTo, CountersOK, EscapeLimit
  <2> QED
    BY <2>1, <2>2, <2>3
<1>10. CASE SleepArm
  <2>1. HardwareOK'
    BY <1>0, <1>10 DEF SleepArm, EnBitsForSleep, HardwareOK
  <2>2. DatabaseOK'
    BY <1>0, <1>10, Unchanging DEF SleepArm
  <2>3. DispatcherOK'
    BY <1>0, <1>10 DEF SleepArm, ReturnTo, DispatcherOK, NoBlock
  <2>4. CountersOK'
    BY <1>0, <1>10 DEF SleepArm, ReturnTo, CountersOK, EscapeLimit
  <2> QED
    BY <2>1, <2>2, <2>3, <2>4
<1>11. CASE WriteSlpEn
  <2>1. stsBits' \subseteq StsBit
    BY <1>0, <1>11, SourceAssumption DEF WriteSlpEn, HardwareOK
  <2>2. HardwareOK'
    BY <1>0, <1>11, <2>1, StatusType DEF WriteSlpEn, HardwareOK
  <2>3. DatabaseOK' /\ CountersOK'
    BY <1>0, <1>11, Unchanging DEF WriteSlpEn, locals
  <2>4. DispatcherOK'
    BY <1>0, <1>11 DEF WriteSlpEn, DispatcherOK, locals
  <2> QED
    BY <2>2, <2>3, <2>4
<1> QED
  BY <1>1, <1>2, <1>3, <1>4, <1>5, <1>6, <1>7, <1>8, <1>9, <1>10, <1>11 DEF Dispatcher

\* What drivers and callbacks do keeps the types.
LEMMA ClientType == TypeOK /\ Client => TypeOK'
<1> SUFFICES ASSUME TypeOK, Client
             PROVE  HardwareOK' /\ DatabaseOK' /\ DispatcherOK' /\ CountersOK'
  BY DEF TypeOK
<1>0. HardwareOK /\ DatabaseOK /\ DispatcherOK /\ CountersOK
  BY DEF TypeOK
<1>1. CASE DriverRegister
  <2>1. HardwareOK' /\ DatabaseOK'
    BY <1>0, <1>1, RegisterType DEF DriverRegister
  <2> QED
    BY <1>0, <1>1, <2>1, Unchanging DEF DriverRegister, locals
<1>2. CASE DriverUnregister
  <2>1. HardwareOK' /\ DatabaseOK'
    BY <1>0, <1>2, UnregisterType DEF DriverUnregister
  <2> QED
    BY <1>0, <1>2, <2>1, Unchanging DEF DriverUnregister, locals
<1>3. CASE SmmReadyToLock
  <2>1. HardwareOK' /\ DispatcherOK' /\ CountersOK'
    BY <1>0, <1>3, Unchanging DEF SmmReadyToLock, locals
  <2>2. DatabaseOK'
    BY <1>0, <1>3 DEF SmmReadyToLock, DatabaseOK, Registered
  <2> QED
    BY <2>1, <2>2
<1>4. CASE CallbackRegister
  <2>1. HardwareOK' /\ DatabaseOK'
    BY <1>0, <1>4, RegisterType DEF CallbackRegister
  <2> QED
    BY <1>0, <1>4, <2>1, Unchanging DEF CallbackRegister, locals
<1>5. CASE CallbackUnregister
  <2>1. HardwareOK' /\ DatabaseOK'
    BY <1>0, <1>5, UnregisterType DEF CallbackUnregister
  <2>2. DispatcherOK' /\ CountersOK'
    BY <1>0, <1>5 DEF CallbackUnregister, DispatcherOK, CountersOK
  <2> QED
    BY <2>1, <2>2
<1>6. CASE CallbackToggleSciEn
  <2>1. sciEn' \in BOOLEAN /\ UNCHANGED <<enBits, stsBits>> /\ Arbitrate
    BY <1>6 DEF CallbackToggleSciEn
  <2>2. HardwareOK'
    BY <1>0, <2>1, StatusType DEF HardwareOK
  <2> QED
    BY <1>0, <1>6, <2>2, Unchanging DEF CallbackToggleSciEn, locals
<1> QED
  BY <1>1, <1>2, <1>3, <1>4, <1>5, <1>6 DEF Client

\* What the devices and the rest of the platform do keeps the types.
LEMMA PlatformType == TypeOK /\ Platform => TypeOK'
<1> SUFFICES ASSUME TypeOK, Platform
             PROVE  HardwareOK' /\ DatabaseOK' /\ DispatcherOK' /\ CountersOK'
  BY DEF TypeOK
<1>0. HardwareOK /\ DatabaseOK /\ DispatcherOK /\ CountersOK
  BY DEF TypeOK
<1>1. ASSUME NEW s \in Source, Raise(s)
      PROVE  HardwareOK' /\ DatabaseOK' /\ DispatcherOK' /\ CountersOK'
  <2>1. Sts[s] \in StsBit
    BY SourceAssumption
  <2>2. HardwareOK'
    BY <1>0, <1>1, <2>1, StatusType DEF Raise, HardwareOK
  <2>3. DatabaseOK' /\ DispatcherOK'
    BY <1>0, <1>1, Unchanging DEF Raise
  <2>4. CountersOK'
    BY <1>0, <1>1, BoundAssumption DEF Raise, CountersOK, locals
  <2> QED
    BY <2>2, <2>3, <2>4
<1>2. CASE EnterSmm
  <2>1. HardwareOK' /\ DatabaseOK' /\ CountersOK'
    BY <1>0, <1>2, Unchanging DEF EnterSmm, HardwareOK, locals
  <2>2. DispatcherOK'
    BY <1>0, <1>2 DEF EnterSmm, DispatcherOK, locals
  <2> QED
    BY <2>1, <2>2
<1>3. CASE Idle
  BY <1>0, <1>3, Unchanging DEF Idle, vars, locals
<1>4. CASE WakeFromS1
  <2>1. HardwareOK'
    BY <1>0, <1>4, EnableSourceType, SourceAssumption DEF WakeFromS1, HardwareOK
  <2>2. DatabaseOK' /\ CountersOK'
    BY <1>0, <1>4, Unchanging DEF WakeFromS1, locals
  <2>3. DispatcherOK'
    BY <1>0, <1>4 DEF WakeFromS1, DispatcherOK, locals
  <2> QED
    BY <2>1, <2>2, <2>3
<1> QED
  BY <1>1, <1>2, <1>3, <1>4 DEF Platform

\* Type correctness of the dispatcher, for every number of records and sources:
\* in particular the count of the loops never wraps and CallbackDataBase never
\* holds a record twice.
THEOREM TypeCorrect == Spec => []TypeOK
<1>1. Init => TypeOK
  BY InitType
<1>2. TypeOK /\ [Next]_vars => TypeOK'
  <2> SUFFICES ASSUME TypeOK, [Next]_vars PROVE TypeOK'
    OBVIOUS
  <2>1. CASE Next
    BY <2>1, DispatcherType, ClientType, PlatformType DEF Next
  <2>2. CASE UNCHANGED vars
    BY <2>2, Unchanging DEF TypeOK, vars, locals
  <2> QED
    BY <2>1, <2>2
<1> QED
  BY <1>1, <1>2, PTL DEF Spec

-----------------------------------------------------------------------------
(***************************************************************************)
(* Which steps touch the database and the enable bits                      *)
(***************************************************************************)

\* Drivers and callbacks register in SMM only, with the dispatcher awake.
Registers(s) ==
  /\ s \in Source /\ pc \in {"smm", "callback"} /\ pc' = pc
  /\ \/ \E r \in Rec : RegisterRecord(r, s)
     \/ RegisterWithoutRecord(s)

Unregisters(r) ==
  /\ r \in Rec /\ pc \in {"smm", "callback"} /\ pc' = pc
  /\ UnregisterRecord(r)

\* A step registers, unregisters, disables the Sx SMI or enables it again;
\* otherwise the records and the enable bits stay, and the dispatcher does not
\* leave or enter the sleep, but for the platform going on in it.
LEMMA StepKinds ==
  [Next]_vars =>
    \/ \E s \in Source : Registers(s)
    \/ \E r \in Rec : Unregisters(r)
    \/ SleepArm
    \/ WakeFromS1
    \/ UNCHANGED <<enBits, db, desc>> /\ (Sleeping' <=> Sleeping)
<1> DEFINE Quiet == UNCHANGED <<enBits, db, desc>> /\ (Sleeping' <=> Sleeping)
<1>1. StartDispatch \/ Search \/ ScanInactive \/ ScanActive \/ Exhaust => Quiet
  BY DEF StartDispatch, Search, ScanInactive, ScanActive, Exhaust, hw, core, Sleeping
<1>2. CallbackReturn \/ ClearSource \/ SetAndCheckEos => Quiet
  BY DEF CallbackReturn, ClearSource, SetAndCheckEos, hw, core, Sleeping
<1>3. Exit \/ WriteSlpEn => Quiet
  BY DEF Exit, ReturnTo, WriteSlpEn, hw, core, Sleeping
<1>4. SmmReadyToLock \/ CallbackToggleSciEn => Quiet
  BY DEF SmmReadyToLock, CallbackToggleSciEn, hw, core, Sleeping
<1>5. (\E s \in Source : Raise(s)) => Quiet
  BY DEF Raise, core, Sleeping
<1>6. EnterSmm \/ Idle \/ UNCHANGED vars => Quiet
  BY DEF EnterSmm, Idle, vars, hw, core, Sleeping
<1>7. DriverRegister \/ CallbackRegister => \E s \in Source : Registers(s)
  BY DEF DriverRegister, CallbackRegister, Registers
<1>8. DriverUnregister \/ CallbackUnregister => \E r \in Rec : Unregisters(r)
  BY DEF DriverUnregister, CallbackUnregister, Unregisters
<1> HIDE DEF Quiet
<1>9. ASSUME [Next]_vars
      PROVE  \/ \E s \in Source : Registers(s)
             \/ \E r \in Rec : Unregisters(r)
             \/ SleepArm \/ WakeFromS1 \/ Quiet
  <2>1. CASE Dispatcher
    BY <1>1, <1>2, <1>3, <2>1 DEF Dispatcher
  <2>2. CASE Client
    BY <1>4, <1>7, <1>8, <2>2 DEF Client
  <2>3. CASE Platform
    BY <1>5, <1>6, <2>3 DEF Platform
  <2>4. CASE UNCHANGED vars
    BY <1>6, <2>4
  <2> QED
    BY <1>9, <2>1, <2>2, <2>3, <2>4 DEF Next
<1> QED
  BY <1>9 DEF Quiet

-----------------------------------------------------------------------------
(***************************************************************************)
(* Enable bits                                                             *)
(***************************************************************************)

\* One step never takes an enable bit from a registered child.
LEMMA EveryChildEnabledStep ==
  TypeOK /\ EveryChildEnabled /\ [Next]_vars => EveryChildEnabled'
<1> SUFFICES ASSUME TypeOK, EveryChildEnabled, [Next]_vars,
                    NEW q \in Registered', NEW b \in En[desc'[q]]
             PROVE  b \in enBits' \/ (Sleeping' /\ b \in En[SxSource])
  BY DEF EveryChildEnabled
<1>0. HardwareOK /\ DatabaseOK
  BY DEF TypeOK
<1>a. ASSUME NEW r \in Registered, NEW x \in En[desc[r]]
      PROVE  x \in enBits \/ (Sleeping /\ x \in En[SxSource])
  <2>1. En[desc[r]] \subseteq enBits \cup (IF Sleeping THEN En[SxSource] ELSE {})
    BY DEF EveryChildEnabled
  <2>2. CASE Sleeping
    BY <2>1, <2>2
  <2>3. CASE ~Sleeping
    BY <2>1, <2>3
  <2> QED
    BY <2>2, <2>3
<1>1. ASSUME NEW s \in Source, Registers(s)
      PROVE  b \in enBits'
  <2>1. ~Sleeping /\ EnableSource(s)
    BY <1>1 DEF Registers, Sleeping, RegisterRecord, RegisterWithoutRecord
  <2>2. enBits' = enBits \cup En[s]
    BY <1>0, <2>1, EnableSourceType
  <2>3. (q \in Registered /\ desc'[q] = desc[q]) \/ desc'[q] = s
    BY <1>0, <1>1, RegisterRecordProps DEF Registers, RegisterWithoutRecord, Registered, core
  <2> QED
    BY <1>a, <2>1, <2>2, <2>3
<1>2. ASSUME NEW r \in Rec, Unregisters(r)
      PROVE  b \in enBits'
  <2>1. ~Sleeping /\ desc' = desc
    BY <1>2 DEF Unregisters, Sleeping, UnregisterRecord
  <2>2. /\ ToSet(db') = Registered \ {r}
        /\ enBits' = EnBitsWithout(r, ToSet(db'))
    BY <1>0, <1>2, UnregisterRecordProps DEF Unregisters
  <2>3. q \in Registered /\ b \in En[desc[q]] /\ q \in ToSet(db')
    BY <2>1, <2>2 DEF Registered
  <2>4. b \in enBits
    BY <1>a, <2>1, <2>3
  <2> QED
    BY <2>2, <2>3, <2>4 DEF EnBitsWithout, StillNeeded
<1>3. CASE SleepArm
  <2>1. ~Sleeping /\ Sleeping' /\ enBits' = enBits \ En[SxSource]
    BY <1>3 DEF SleepArm, ReturnTo, EnBitsForSleep, Sleeping
  <2>2. q \in Registered /\ b \in En[desc[q]]
    BY <1>3 DEF SleepArm, core, Registered
  <2> QED
    BY <1>a, <2>1, <2>2
<1>4. CASE WakeFromS1
  <2>1. SxSource \in Source
    BY SourceAssumption
  <2>2. enBits' = enBits \cup En[SxSource]
    BY <1>0, <1>4, <2>1, EnableSourceType DEF WakeFromS1
  <2>3. q \in Registered /\ b \in En[desc[q]]
    BY <1>4 DEF WakeFromS1, core, Registered
  <2> QED
    BY <1>a, <2>2, <2>3
<1>5. CASE UNCHANGED <<enBits, db, desc>> /\ (Sleeping' <=> Sleeping)
  <2>1. q \in Registered /\ b \in En[desc[q]]
    BY <1>5 DEF Registered
  <2> QED
    BY <1>a, <1>5, <2>1
<1>6. \/ \E s \in Source : Registers(s)
      \/ \E r \in Rec : Unregisters(r)
      \/ SleepArm \/ WakeFromS1
      \/ UNCHANGED <<enBits, db, desc>> /\ (Sleeping' <=> Sleeping)
  BY StepKinds
<1> QED
  BY <1>1, <1>2, <1>3, <1>4, <1>5, <1>6

\* A registered child keeps the enable bits of its source, whatever sources share
\* them and whoever unregisters when.
THEOREM ChildrenStayEnabled == Spec => []EveryChildEnabled
<1>1. Init => EveryChildEnabled
  <2> SUFFICES ASSUME Init PROVE EveryChildEnabled
    OBVIOUS
  <2>1. Registered = {SwRec} /\ desc[SwRec] = SwSource
    BY RecAssumption DEF Init, Registered, ToSet
  <2> QED
    BY <2>1 DEF Init, EveryChildEnabled
<1> QED
  BY <1>1, EveryChildEnabledStep, TypeCorrect, PTL DEF Spec

\* One step leaves no enable bit on that no record needs, while no allocation fails.
LEMMA NoOrphanEnableStep ==
  ASSUME ~AllocMayFail
  PROVE  TypeOK /\ NoOrphanEnable /\ [Next]_vars => NoOrphanEnable'
<1> SUFFICES ASSUME TypeOK, NoOrphanEnable, [Next]_vars,
                    NEW b \in enBits', b \notin En[SxSource]
             PROVE  \E q \in Registered' : b \in En[desc'[q]]
  BY DEF NoOrphanEnable, StillNeeded
<1>0. HardwareOK /\ DatabaseOK
  BY DEF TypeOK
<1>1. ASSUME NEW s \in Source, Registers(s)
      PROVE  \E q \in Registered' : b \in En[desc'[q]]
  <2>1. PICK r \in Rec : RegisterRecord(r, s)
    BY <1>1 DEF Registers, RegisterWithoutRecord
  <2>2. enBits' = enBits \cup En[s]
    BY <1>0, <2>1, EnableSourceType DEF RegisterRecord
  <2>3. /\ Registered' = Registered \cup {r} /\ desc'[r] = s
        /\ \A q \in Registered : desc'[q] = desc[q]
    BY <1>0, <2>1, RegisterRecordProps DEF Registered
  <2> QED
    BY <2>2, <2>3 DEF NoOrphanEnable, StillNeeded
<1>2. ASSUME NEW r \in Rec, Unregisters(r)
      PROVE  \E q \in Registered' : b \in En[desc'[q]]
  <2>1. /\ Registered' = Registered \ {r} /\ desc' = desc
        /\ b \in EnBitsWithout(r, Registered')
    BY <1>0, <1>2, UnregisterRecordProps DEF Unregisters, UnregisterRecord, Registered
  <2>2. b \in enBits /\ (b \in En[desc[r]] => StillNeeded(b, Registered'))
    BY <2>1 DEF EnBitsWithout
  <2> QED
    BY <2>1, <2>2 DEF NoOrphanEnable, StillNeeded
<1>3. CASE SleepArm
  BY <1>3 DEF SleepArm, EnBitsForSleep, NoOrphanEnable, StillNeeded, core, Registered
<1>4. CASE WakeFromS1
  <2>1. SxSource \in Source
    BY SourceAssumption
  <2>2. enBits' = enBits \cup En[SxSource]
    BY <1>0, <1>4, <2>1, EnableSourceType DEF WakeFromS1
  <2> QED
    BY <1>4, <2>2 DEF WakeFromS1, NoOrphanEnable, StillNeeded, core, Registered
<1>5. CASE UNCHANGED <<enBits, db, desc>>
  BY <1>5 DEF NoOrphanEnable, StillNeeded, Registered
<1> QED
  BY <1>1, <1>2, <1>3, <1>4, <1>5, StepKinds

\* While the pool lasts, unregistering turns off what no record needs any more: no
\* SMI is ever enabled that no record serves.
THEOREM NoOrphans ==
  ASSUME ~AllocMayFail
  PROVE  Spec => []NoOrphanEnable
<1>1. Init => NoOrphanEnable
  <2> SUFFICES ASSUME Init PROVE NoOrphanEnable
    OBVIOUS
  <2>1. Registered = {SwRec} /\ desc[SwRec] = SwSource
    BY RecAssumption DEF Init, Registered, ToSet
  <2> QED
    BY <2>1 DEF Init, NoOrphanEnable, StillNeeded
<1> QED
  BY <1>1, NoOrphanEnableStep, TypeCorrect, PTL DEF Spec

-----------------------------------------------------------------------------
(***************************************************************************)
(* The lock and the way to sleep                                           *)
(***************************************************************************)

\* After SmmReadyToLock no step adds, removes or changes a record, or turns a source of
\* SmiDispatch on or off but the Sx SMI, which the way to sleep and back does. The
\* periodic timers, which are paused and resumed without a look at the lock, are not
\* among those sources.
THEOREM Locked == Spec => LockFreezes
<1> DEFINE Frozen == mReadyToLock =>
                       /\ mReadyToLock' /\ UNCHANGED <<db, desc>>
                       /\ enBits' \ En[SxSource] = enBits \ En[SxSource]
<1>1. ASSUME TypeOK, [Next]_vars
      PROVE  Frozen
  <2> SUFFICES ASSUME mReadyToLock PROVE Frozen
    OBVIOUS
  <2>0. HardwareOK /\ DatabaseOK
    BY <1>1 DEF TypeOK
  <2>1. ASSUME NEW s \in Source, Registers(s)
        PROVE  FALSE
    BY <2>1 DEF Registers, RegisterRecord, RegisterWithoutRecord, MayChangeDb
  <2>2. ASSUME NEW r \in Rec, Unregisters(r)
        PROVE  FALSE
    BY <2>2 DEF Unregisters, UnregisterRecord, MayChangeDb
  <2>3. CASE SleepArm
    BY <2>3 DEF SleepArm, EnBitsForSleep, core
  <2>4. CASE WakeFromS1
    BY <2>0, <2>4, EnableSourceType, SourceAssumption DEF WakeFromS1, core
  <2>5. mReadyToLock'
    <3>1. CASE Dispatcher
      BY <3>1 DEF Dispatcher, StartDispatch, Search, ScanInactive, ScanActive, Exhaust,
            CallbackReturn, ClearSource, SetAndCheckEos, Exit, SleepArm, WriteSlpEn, core
    <3>2. CASE Client
      BY <3>2 DEF Client, DriverRegister, DriverUnregister, SmmReadyToLock,
            CallbackRegister, CallbackUnregister, CallbackToggleSciEn, RegisterRecord,
            RegisterWithoutRecord, UnregisterRecord, core
    <3>3. CASE Platform
      BY <3>3 DEF Platform, Raise, EnterSmm, Idle, WakeFromS1, vars, core
    <3> QED
      BY <1>1, <3>1, <3>2, <3>3 DEF Next, vars, core
  <2>6. CASE UNCHANGED <<enBits, db, desc>>
    BY <2>5, <2>6
  <2> QED
    BY <1>1, <2>1, <2>2, <2>3, <2>4, <2>6, StepKinds
<1>2. TypeOK /\ [Next]_vars => [Frozen]_vars
  BY <1>1
<1> QED
  BY <1>2, TypeCorrect, PTL DEF Spec, LockFreezes

\* When SLP_EN is about to be written, the Sx SMI is disabled.
SxDisarmed == pc = "slpEn" => ~(En[SxSource] \subseteq enBits)

\* PchSmmSxGoToSleep's write of SLP_EN is never trapped by the Sx SMI.
THEOREM SleepGoesThrough == Spec => SleepNotTrapped
<1>1. Init => SxDisarmed
  BY DEF Init, SxDisarmed
<1>2. SxDisarmed /\ [Next]_vars => SxDisarmed'
  <2> SUFFICES ASSUME SxDisarmed, [Next]_vars, pc' = "slpEn"
               PROVE  ~(En[SxSource] \subseteq enBits')
    BY DEF SxDisarmed
  <2>1. CASE pc = "slpEn"
    <3>1. UNCHANGED enBits
      BY <2>1 DEF Next, vars, hw, Dispatcher, StartDispatch, Search, ScanInactive,
           ScanActive, Exhaust, CallbackReturn, ClearSource, SetAndCheckEos, Exit,
           SleepArm, WriteSlpEn, Client, DriverRegister, DriverUnregister, SmmReadyToLock,
           CallbackRegister, CallbackUnregister, CallbackToggleSciEn, Platform, Raise,
           EnterSmm, Idle, WakeFromS1
    <3> QED
      BY <2>1, <3>1 DEF SxDisarmed
  <2>2. CASE pc # "slpEn"
    <3>1. SleepArm
      BY <2>2 DEF Next, vars, Dispatcher, StartDispatch, Search, ScanInactive,
           ScanActive, Exhaust, CallbackReturn, ClearSource, SetAndCheckEos, Exit,
           ReturnTo, WriteSlpEn, Client, DriverRegister, DriverUnregister,
           SmmReadyToLock, CallbackRegister, CallbackUnregister, CallbackToggleSciEn,
           Platform, Raise, EnterSmm, Idle, WakeFromS1
    <3> QED
      BY <3>1, SourceAssumption DEF SleepArm, EnBitsForSleep
  <2> QED
    BY <2>1, <2>2
<1>3. SxDisarmed /\ [Next]_vars =>
        [pc = "slpEn" /\ pc' # "slpEn" => Sts[SxSource] \notin stsBits' \ stsBits]_vars
  <2> SUFFICES ASSUME SxDisarmed, [Next]_vars, pc = "slpEn", pc' # "slpEn"
               PROVE  Sts[SxSource] \notin stsBits' \ stsBits
    OBVIOUS
  <2>1. WriteSlpEn
    BY DEF Next, vars, Dispatcher, StartDispatch, Search, ScanInactive, ScanActive,
         Exhaust, CallbackReturn, ClearSource, SetAndCheckEos, Exit, SleepArm, Client,
         DriverRegister, DriverUnregister, SmmReadyToLock, CallbackRegister,
         CallbackUnregister, CallbackToggleSciEn, Platform, Raise, EnterSmm, Idle,
         WakeFromS1
  <2> QED
    BY <2>1 DEF WriteSlpEn, SxDisarmed
<1> QED
  BY <1>1, <1>2, <1>3, PTL DEF Spec, SleepNotTrapped

-----------------------------------------------------------------------------
(***************************************************************************)
(* End of SMI                                                              *)
(***************************************************************************)

\* The SwType record is never unregistered, so the list is never empty.
SwListed == SwRec \in Registered

\* Between the loop's end and the next SMI the PCH is not mute.
Heard == pc \in {"exit", "os", "slpEn", "s1", "off"} => eos \/ smi

LEMMA SwListedInductive ==
  /\ Init => SwListed
  /\ TypeOK /\ SwListed /\ [Next]_vars => SwListed'
<1>1. Init => SwListed
  BY DEF Init, SwListed, Registered, ToSet
<1>2. ASSUME TypeOK, SwListed, [Next]_vars
      PROVE  SwListed'
  <2>0. DatabaseOK
    BY <1>2 DEF TypeOK
  <2>1. ASSUME NEW s \in Source, Registers(s)
        PROVE  SwListed'
    BY <1>2, <2>0, <2>1, RegisterRecordProps
       DEF Registers, RegisterWithoutRecord, SwListed, Registered, core
  <2>2. ASSUME NEW r \in Rec, Unregisters(r)
        PROVE  SwListed'
    BY <1>2, <2>0, <2>2, UnregisterRecordProps
       DEF Unregisters, SwListed, Registered, Permanent
  <2>3. CASE db' = db
    BY <1>2, <2>3 DEF SwListed, Registered
  <2> QED
    BY <1>2, <2>1, <2>2, <2>3, StepKinds DEF SleepArm, WakeFromS1, core
<1> QED
  BY <1>1, <1>2

\* A change of the registers answered by the arbiter leaves EOS set or an SMI latched.
LEMMA ArbitrateHeard ==
  ASSUME HardwareOK, Arbitrate, eos \/ smi
  PROVE  eos' \/ smi'
BY DEF Arbitrate, HardwareOK

\* The loop is left only with EOS set, or with another SMI latched.
LEMMA HeardStep ==
  ASSUME TypeOK, SwListed, Heard, [Next]_vars
  PROVE  Heard'
<1>0. HardwareOK
  BY DEF TypeOK
<1>1. db # <<>>
  BY DEF SwListed, Registered, ToSet
<1>2. CASE Dispatcher
  <2>1. CASE StartDispatch \/ Search
    BY <1>1, <2>1 DEF StartDispatch, Search, Heard
  <2>2. CASE ScanInactive \/ ScanActive \/ Exhaust \/ CallbackReturn \/ ClearSource
    BY <2>2 DEF ScanInactive, ScanActive, Exhaust, CallbackReturn, ClearSource, Heard
  <2>3. CASE SetAndCheckEos
    BY <2>3 DEF SetAndCheckEos, Heard
  <2>4. CASE Exit \/ SleepArm
    BY <2>4 DEF Exit, SleepArm, Heard, hw
  <2>5. CASE WriteSlpEn
    BY <1>0, <2>5, ArbitrateHeard DEF WriteSlpEn, Heard
  <2> QED
    BY <1>2, <2>1, <2>2, <2>3, <2>4, <2>5 DEF Dispatcher
<1>3. CASE Client
  <2>1. pc \in {"smm", "callback"} /\ pc' = pc
    BY <1>3 DEF Client, DriverRegister, DriverUnregister, SmmReadyToLock,
         CallbackRegister, CallbackUnregister, CallbackToggleSciEn
  <2> QED
    BY <2>1 DEF Heard
<1>4. CASE Platform
  <2>1. ASSUME NEW s \in Source, Raise(s)
        PROVE  Heard'
    BY <1>0, <2>1, ArbitrateHeard DEF Raise, Heard
  <2>2. CASE WakeFromS1
    BY <1>0, <2>2, ArbitrateHeard DEF WakeFromS1, EnableSource, Heard
  <2>3. CASE EnterSmm \/ Idle
    BY <2>3 DEF EnterSmm, Idle, Heard, vars, hw
  <2> QED
    BY <1>4, <2>1, <2>2, <2>3 DEF Platform
<1>5. CASE UNCHANGED vars
  BY <1>5 DEF Heard, vars, hw
<1> QED
  BY <1>2, <1>3, <1>4, <1>5 DEF Next

\* The dispatcher never leaves SMM with SMIs turned off for good: EOS is set, or
\* another SMI is already latched.
THEOREM NeverMute == Spec => []NotMute
<1>1. Init => Heard
  BY DEF Init, Heard
<1>2. Heard => NotMute
  BY DEF Heard, NotMute
<1> QED
  BY <1>1, <1>2, HeardStep, SwListedInductive, TypeCorrect, PTL DEF Spec

-----------------------------------------------------------------------------
(***************************************************************************)
(* The walk that calls the children                                        *)
(***************************************************************************)

\* PchSmmCoreDispatcher is in the loop that calls the children of ActiveSource.
InWalk == pc \in {"exhaust", "callback"}

\* The search stands on a listed record; so does the link that is to be exhausted
\* next, and it is not the record whose callback runs.
WalkListed ==
  /\ pc = "scan" => recordInDb \in Registered
  /\ InWalk => activeSource \in Source
  /\ InWalk /\ linkToExhaust # End =>
       /\ linkToExhaust \in Registered
       /\ pc = "callback" => linkToExhaust # recordToExhaust

\* No step takes the walk off the list, if callbacks unregister themselves only.
LEMMA WalkListedStep ==
  ASSUME "unregisterOther" \notin CallbackOps,
         TypeOK, SwListed, WalkListed, [Next]_vars
  PROVE  WalkListed'
<1>0. DatabaseOK /\ DispatcherOK
  BY DEF TypeOK
<1>1. CASE Search
  <2>1. db # <<>> => Head(db) \in ToSet(db)
    BY <1>0 DEF DatabaseOK, ToSet
  <2> QED
    BY <1>1, <2>1 DEF Search, WalkListed, InWalk, core, Registered
<1>2. CASE ScanInactive
  <2>1. NextOf(recordInDb) \subseteq Registered \cup {End}
    BY <1>0, <1>2, NextOfProps DEF ScanInactive, WalkListed, DispatcherOK
  <2> QED
    BY <1>2, <2>1 DEF ScanInactive, WalkListed, InWalk, core, Registered
<1>3. CASE ScanActive
  <2>1. activeSource' \in Source
    BY <1>0, <1>3 DEF ScanActive, WalkListed, DatabaseOK
  <2> QED
    BY <1>3, <2>1 DEF ScanActive, WalkListed, InWalk, core, Registered
<1>4. CASE Exhaust
  <2>1. NextOf(linkToExhaust) \subseteq (Registered \ {linkToExhaust}) \cup {End}
    BY <1>0, <1>4, NextOfProps DEF Exhaust, WalkListed, InWalk, DispatcherOK
  <2> QED
    BY <1>4, <2>1 DEF Exhaust, WalkListed, InWalk, core, Registered
<1>5. CASE CallbackReturn
  BY <1>5 DEF CallbackReturn, LinkAfterCallback, WalkListed, InWalk, core, Registered
<1>6. CASE StartDispatch \/ ClearSource \/ SetAndCheckEos \/ Exit \/ SleepArm \/ WriteSlpEn
  BY <1>6 DEF StartDispatch, ClearSource, SetAndCheckEos, Exit, SleepArm, WriteSlpEn,
       ReturnTo, WalkListed, InWalk
<1>7. CASE DriverRegister \/ DriverUnregister
  BY <1>7 DEF DriverRegister, DriverUnregister, WalkListed, InWalk
<1>8. CASE CallbackRegister
  <2>1. Registered \subseteq Registered'
    BY <1>0, <1>8, RegisterRecordProps
       DEF CallbackRegister, RegisterWithoutRecord, core, Registered
  <2> QED
    BY <1>8, <2>1 DEF CallbackRegister, WalkListed, InWalk, locals
<1>9. CASE CallbackUnregister
  <2>1. Registered' = Registered \ {recordToExhaust}
    BY <1>0, <1>9, UnregisterRecordProps DEF CallbackUnregister, Registered
  <2> QED
    BY <1>9, <2>1 DEF CallbackUnregister, WalkListed, InWalk
<1>10. CASE SmmReadyToLock \/ CallbackToggleSciEn
  BY <1>10 DEF SmmReadyToLock, CallbackToggleSciEn, WalkListed, InWalk, locals, core, Registered
<1>11. CASE Platform
  BY <1>11 DEF Platform, Raise, EnterSmm, Idle, WakeFromS1, WalkListed, InWalk,
       vars, locals, core, Registered
<1>12. CASE UNCHANGED vars
  BY <1>12 DEF WalkListed, InWalk, vars, locals, core, Registered
<1> QED
  BY <1>1, <1>2, <1>3, <1>4, <1>5, <1>6, <1>7, <1>8, <1>9, <1>10, <1>11, <1>12
     DEF Next, Dispatcher, Client

LEMMA AlwaysWalkListed ==
  ASSUME "unregisterOther" \notin CallbackOps
  PROVE  Spec => []WalkListed
<1>1. Init => WalkListed
  BY DEF Init, WalkListed, InWalk
<1>2. TypeOK /\ SwListed /\ WalkListed /\ [Next]_vars => WalkListed'
  BY WalkListedStep
<1> QED
  BY <1>1, <1>2, SwListedInductive, TypeCorrect, PTL DEF Spec

\* If callbacks unregister no record but their own, GetNextNode always stands on
\* the list, as the comment at PchSmmCore.c:801 says.
THEOREM NextListed ==
  ASSUME "unregisterOther" \notin CallbackOps
  PROVE  Spec => []NextStillListed
<1>1. WalkListed => NextStillListed
  BY DEF WalkListed, NextStillListed, InWalk
<1> QED
  BY <1>1, AlwaysWalkListed, PTL

\* If callbacks unregister no record but their own, a callback is called only while
\* its record is registered, and for the source it registered for.
THEOREM OnlyRegisteredCalled ==
  ASSUME "unregisterOther" \notin CallbackOps
  PROVE  Spec => CallsRegistered
<1> DEFINE Sound == pc = "exhaust" /\ pc' = "callback" =>
             recordToExhaust' \in Registered /\ desc[recordToExhaust'] = activeSource
<1>1. ASSUME TypeOK, WalkListed, [Next]_vars
      PROVE  Sound
  <2> SUFFICES ASSUME pc = "exhaust", pc' = "callback"
               PROVE  recordToExhaust' \in Registered /\ desc[recordToExhaust'] = activeSource
    OBVIOUS
  <2>1. Exhaust
    BY <1>1 DEF Next, vars, Dispatcher, StartDispatch, Search, ScanInactive, ScanActive,
         CallbackReturn, ClearSource, SetAndCheckEos, Exit, SleepArm, WriteSlpEn, ReturnTo,
         Client, DriverRegister, DriverUnregister, SmmReadyToLock, CallbackRegister,
         CallbackUnregister, CallbackToggleSciEn, Platform, Raise, EnterSmm, Idle,
         WakeFromS1
  <2>2. /\ recordToExhaust' = linkToExhaust /\ linkToExhaust # End
        /\ CompareSources(desc[linkToExhaust], activeSource)
    BY <2>1 DEF Exhaust
  <2>3. linkToExhaust \in Registered /\ activeSource \in Source
    BY <1>1, <2>2 DEF WalkListed, InWalk
  <2>4. desc[linkToExhaust] = activeSource
    BY <2>2, <2>3, SourceAssumption DEF CompareSources
  <2> QED
    BY <2>2, <2>3, <2>4
<1>2. TypeOK /\ WalkListed /\ [Next]_vars => [Sound]_vars
  BY <1>1
<1> QED
  BY <1>2, AlwaysWalkListed, TypeCorrect, PTL DEF Spec, CallsRegistered

-----------------------------------------------------------------------------
(***************************************************************************)
(* No event of a source with bits of its own is lost                       *)
(***************************************************************************)

\* The sources that share neither their status bit nor the bit of SMI_STS above it,
\* and which ClearPendingSmiStatus leaves alone.
OwnSource ==
  {s \in Source : /\ \A t \in Source \ {s} : Sts[t] # Sts[s] /\ Top[t] # Top[s]
                  /\ Sts[s] \notin DOMAIN House}

\* q is the record a walk stands on at r, or one it has still to come to.
AtOrBehind(r, q) == q = r \/ InOrder(db, r, q)

\* What was active at the head of the loop is so until the search has found a record.
SeenActive ==
  pc = "scan" => \A s \in OwnSource : Top[s] \in seen.tops => SourceIsActive(s)

\* The search has passed over no record of a source that was active.
NonePassed ==
  pc = "scan" => \A q \in Registered :
    desc[q] \in OwnSource /\ Top[desc[q]] \in seen.tops => AtOrBehind(recordInDb, q)

\* A child that is owed a call is the one being called, or the walk will come to it.
StillDue ==
  InWalk /\ activeSource \in OwnSource => \A q \in due :
    \/ pc = "callback" /\ q = recordToExhaust
    \/ linkToExhaust # End /\ AtOrBehind(linkToExhaust, q)

\* Until the platform has woken up, the Sx SMI is disabled.
SxOff == pc \in {"slpEn", "s1"} => ~(En[SxSource] \subseteq enBits)

ServedInv == SeenActive /\ NonePassed /\ StillDue /\ SxOff

\* A list is walked from its head, and from a record to the next.
LEMMA FromHead ==
  ASSUME DatabaseOK, NEW q \in Registered
  PROVE  db # <<>> /\ AtOrBehind(Head(db), q)
<1>1. db \in Seq(Rec) /\ DOMAIN db = 1..Len(db) /\ Len(db) \in Nat
  BY DEF DatabaseOK
<1>2. PICK i \in DOMAIN db : db[i] = q
  BY DEF Registered, ToSet
<1>3. db # <<>> /\ Head(db) = db[1] /\ 1 \in DOMAIN db
  BY <1>1, <1>2
<1>4. CASE i = 1
  BY <1>2, <1>3, <1>4 DEF AtOrBehind
<1>5. CASE i # 1
  <2>1. 1 < i
    BY <1>1, <1>2, <1>5
  <2> QED
    BY <1>2, <1>3, <2>1 DEF AtOrBehind, InOrder
<1> QED
  BY <1>3, <1>4, <1>5

LEMMA NextBehind ==
  ASSUME DatabaseOK, NEW r \in Registered, NEW q, AtOrBehind(r, q), q # r,
         NEW next \in NextOf(r)
  PROVE  next # End /\ AtOrBehind(next, q)
<1>1. db \in Seq(Rec) /\ Injective(db)
  BY DEF DatabaseOK, Injective
<1>2. Position(r) \in DOMAIN db /\ db[Position(r)] = r
  BY PositionProps
<1>3. InOrder(db, r, q)
  BY DEF AtOrBehind
<1>4. /\ Position(r) < Len(db)
      /\ q = db[Position(r) + 1] \/ InOrder(db, db[Position(r) + 1], q)
  BY <1>1, <1>2, <1>3, NextInOrder
<1>5. Position(r) # Len(db) /\ Position(r) + 1 \in DOMAIN db
  BY <1>1, <1>2, <1>4
<1>6. next = db[Position(r) + 1]
  BY <1>5 DEF NextOf
<1>7. next \in Rec
  BY <1>1, <1>5, <1>6
<1> QED
  BY <1>4, <1>6, <1>7, RecAssumption DEF AtOrBehind

\* The search: what it saw stays, and it passes over inactive records only.
LEMMA SearchServed ==
  ASSUME TypeOK, WalkListed, ServedInv, Search \/ ScanInactive \/ ScanActive
  PROVE  ServedInv'
<1>0. DatabaseOK /\ DispatcherOK
  BY DEF TypeOK
<1>1. CASE Search
  <2>1. SeenActive'
    <3> SUFFICES ASSUME pc' = "scan", NEW s \in OwnSource, Top[s] \in seen'.tops
                 PROVE  SourceIsActive(s)'
      BY DEF SeenActive
    <3>1. seen' = [tops |-> {Top[t] : t \in Pending}, sci |-> sciEn]
          /\ UNCHANGED <<enBits, stsBits>>
      BY <1>1 DEF Search, hw
    <3>2. PICK t \in Pending : Top[s] = Top[t]
      BY <3>1
    <3>3. s \in Pending
      BY <3>2 DEF OwnSource, Pending, PendingIn
    <3> QED
      BY <3>1, <3>3 DEF SourceIsActive, Pending, PendingIn
  <2>2. NonePassed'
    <3>1. UNCHANGED core /\ (pc' = "scan" => recordInDb' = Head(db))
      BY <1>1 DEF Search
    <3> QED
      BY <1>0, <3>1, FromHead DEF NonePassed, AtOrBehind, Registered, core
  <2>3. StillDue' /\ SxOff'
    BY <1>1 DEF Search, StillDue, InWalk, SxOff
  <2> QED
    BY <2>1, <2>2, <2>3 DEF ServedInv
<1>2. CASE ScanInactive
  <2>0. recordInDb \in Registered /\ pc = "scan" /\ UNCHANGED <<hw, core, seen>>
    BY <1>2 DEF ScanInactive, WalkListed
  <2>1. SeenActive'
    BY <2>0 DEF ServedInv, SeenActive, SourceIsActive, hw
  <2>2. NonePassed'
    <3> SUFFICES ASSUME pc' = "scan", NEW q \in Registered,
                        desc[q] \in OwnSource, Top[desc[q]] \in seen.tops
                 PROVE  AtOrBehind(recordInDb', q)
      BY <2>0 DEF NonePassed, AtOrBehind, Registered, core
    <3>1. AtOrBehind(recordInDb, q) /\ SourceIsActive(desc[q])
      BY <2>0 DEF ServedInv, NonePassed, SeenActive
    <3>2. q # recordInDb
      BY <1>2, <3>1 DEF ScanInactive
    <3>3. recordInDb' \in NextOf(recordInDb)
      BY <1>2, <2>0 DEF ScanInactive
    <3> QED
      BY <1>0, <2>0, <3>1, <3>2, <3>3, NextBehind
  <2>3. StillDue' /\ SxOff'
    BY <1>2 DEF ScanInactive, StillDue, InWalk, SxOff
  <2> QED
    BY <2>1, <2>2, <2>3 DEF ServedInv
<1>3. CASE ScanActive
  <2>1. SeenActive' /\ NonePassed' /\ SxOff'
    BY <1>3 DEF ScanActive, SeenActive, NonePassed, SxOff
  <2>2. StillDue'
    <3> SUFFICES ASSUME activeSource' \in OwnSource, NEW q \in due'
                 PROVE  /\ linkToExhaust' # End
                        /\ q = linkToExhaust' \/ InOrder(db', linkToExhaust', q)
      BY DEF StillDue, AtOrBehind
    <3>1. /\ pc = "scan" /\ SourceIsActive(desc[recordInDb]) /\ UNCHANGED core
          /\ activeSource' = desc[recordInDb] /\ linkToExhaust' = recordInDb
          /\ q \in Registered /\ desc[q] = desc[recordInDb]
      BY <1>3 DEF ScanActive
    <3>2. Top[desc[q]] \in seen.tops
      BY <3>1 DEF SourceIsActive
    <3>3. AtOrBehind(recordInDb, q)
      BY <3>1, <3>2 DEF ServedInv, NonePassed
    <3>4. recordInDb # End
      BY <1>0, <3>1, RecAssumption DEF DispatcherOK
    <3> QED
      BY <3>1, <3>3, <3>4 DEF AtOrBehind, core
  <2> QED
    BY <2>1, <2>2 DEF ServedInv
<1> QED
  BY <1>1, <1>2, <1>3

\* The walk: no child that is owed a call is passed over.
LEMMA WalkServed ==
  ASSUME TypeOK, WalkListed, ServedInv, Exhaust \/ CallbackReturn
  PROVE  ServedInv'
<1>0. DatabaseOK /\ DispatcherOK
  BY DEF TypeOK
<1>1. CASE Exhaust
  <2>1. SeenActive' /\ NonePassed' /\ SxOff'
    BY <1>1 DEF Exhaust, SeenActive, NonePassed, SxOff
  <2>2. StillDue'
    <3> SUFFICES ASSUME activeSource' \in OwnSource, NEW q \in due'
                 PROVE  \/ pc' = "callback" /\ q = recordToExhaust'
                        \/ /\ linkToExhaust' # End
                           /\ q = linkToExhaust' \/ InOrder(db', linkToExhaust', q)
      BY DEF StillDue, AtOrBehind
    <3>1. /\ pc = "exhaust" /\ linkToExhaust # End /\ UNCHANGED <<core, activeSource>>
          /\ linkToExhaust' \in NextOf(linkToExhaust)
      BY <1>1 DEF Exhaust
    <3>2. \/ pc' = "callback" /\ recordToExhaust' = linkToExhaust /\ due' = due
          \/ due' = due \ {linkToExhaust}
      BY <1>1 DEF Exhaust
    <3>3. linkToExhaust \in Registered /\ AtOrBehind(linkToExhaust, q)
      BY <3>1, <3>2 DEF WalkListed, InWalk, ServedInv, StillDue
    <3>4. CASE q = linkToExhaust
      BY <3>2, <3>4
    <3>5. CASE q # linkToExhaust
      <4>1. linkToExhaust' # End /\ AtOrBehind(linkToExhaust', q)
        BY <1>0, <3>1, <3>3, <3>5, NextBehind
      <4> QED
        BY <3>1, <4>1 DEF AtOrBehind, core
    <3> QED
      BY <3>4, <3>5
  <2> QED
    BY <2>1, <2>2 DEF ServedInv
<1>2. CASE CallbackReturn
  <2>1. SeenActive' /\ NonePassed' /\ SxOff'
    BY <1>2 DEF CallbackReturn, SeenActive, NonePassed, SxOff
  <2>2. StillDue'
    <3>1. /\ pc = "callback" /\ due' = due \ {recordToExhaust}
          /\ linkToExhaust' = linkToExhaust /\ UNCHANGED <<core, activeSource>>
      BY <1>2 DEF CallbackReturn, LinkAfterCallback
    <3> QED
      BY <3>1 DEF ServedInv, StillDue, InWalk, AtOrBehind, core
  <2> QED
    BY <2>1, <2>2 DEF ServedInv
<1> QED
  BY <1>1, <1>2

\* Callbacks and drivers: records that come go to the tail, the one that goes is not
\* the one that the walk continues at.
LEMMA ClientServed ==
  ASSUME "unregisterOther" \notin CallbackOps, TypeOK, WalkListed, ServedInv, Client
  PROVE  ServedInv'
<1>0. DatabaseOK
  BY DEF TypeOK
<1>a. db \in Seq(Rec)
  BY <1>0 DEF DatabaseOK
<1>1. SeenActive' /\ NonePassed' /\ SxOff'
  <2>1. pc' \in {"smm", "callback"}
    BY DEF Client, DriverRegister, DriverUnregister, SmmReadyToLock,
         CallbackRegister, CallbackUnregister, CallbackToggleSciEn
  <2> QED
    BY <2>1 DEF SeenActive, NonePassed, SxOff
<1>2. StillDue'
  <2>1. CASE DriverRegister \/ DriverUnregister \/ SmmReadyToLock
    BY <2>1 DEF DriverRegister, DriverUnregister, SmmReadyToLock, StillDue, InWalk
  <2>2. CASE CallbackRegister
    <3>1. UNCHANGED <<pc, locals>>
          /\ (db' = db \/ \E r \in Rec : db' = Append(db, r))
      BY <2>2 DEF CallbackRegister, RegisterRecord, RegisterWithoutRecord, core
    <3>2. ASSUME NEW r, NEW q, AtOrBehind(r, q) PROVE AtOrBehind(r, q)'
      BY <1>a, <3>1, <3>2, AppendKeepsOrder DEF AtOrBehind
    <3> QED
      BY <3>1, <3>2 DEF ServedInv, StillDue, InWalk, locals
  <2>3. CASE CallbackUnregister
    <3>1. /\ UnregisterRecord(recordToExhaust) /\ recordToExhaust \in Rec
          /\ due' = due \ {recordToExhaust} /\ pc = "callback"
          /\ UNCHANGED <<pc, activeSource, linkToExhaust, recordToExhaust>>
      BY <2>3 DEF CallbackUnregister
    <3>2. /\ recordToExhaust \in Registered
          /\ db' = RemoveAt(db, Position(recordToExhaust))
      BY <3>1 DEF UnregisterRecord
    <3>3. /\ Position(recordToExhaust) \in DOMAIN db
          /\ db[Position(recordToExhaust)] = recordToExhaust
      BY <3>2, PositionProps
    <3>4. ASSUME NEW r, NEW q, AtOrBehind(r, q), r # recordToExhaust, q # recordToExhaust
          PROVE  AtOrBehind(r, q)'
      BY <1>a, <3>2, <3>3, <3>4, RemoveKeepsOrder DEF AtOrBehind
    <3>5. linkToExhaust # End => linkToExhaust # recordToExhaust
      BY <3>1 DEF WalkListed, InWalk
    <3> QED
      BY <3>1, <3>4, <3>5 DEF ServedInv, StillDue, InWalk
  <2>4. CASE CallbackToggleSciEn
    BY <2>4 DEF CallbackToggleSciEn, ServedInv, StillDue, InWalk, AtOrBehind, locals, core
  <2> QED
    BY <2>1, <2>2, <2>3, <2>4 DEF Client
<1> QED
  BY <1>1, <1>2 DEF ServedInv

\* The platform: statuses only come up, and none goes while the search is on.
LEMMA PlatformServed ==
  ASSUME ServedInv, Platform \/ UNCHANGED vars
  PROVE  ServedInv'
<1>1. ASSUME NEW s \in Source, Raise(s)
      PROVE  ServedInv'
  <2>1. /\ stsBits \subseteq stsBits' /\ UNCHANGED <<enBits, core, pc, locals>>
    BY <1>1 DEF Raise
  <2>2. ASSUME NEW t, SourceIsActive(t) PROVE SourceIsActive(t)'
    BY <2>1, <2>2 DEF SourceIsActive, locals
  <2>3. SeenActive'
    BY <2>1, <2>2 DEF ServedInv, SeenActive, locals
  <2>4. NonePassed' /\ StillDue' /\ SxOff'
    BY <2>1 DEF ServedInv, NonePassed, StillDue, SxOff, InWalk, AtOrBehind, Registered,
         locals, core
  <2> QED
    BY <2>3, <2>4 DEF ServedInv
<1>2. CASE EnterSmm \/ WakeFromS1
  BY <1>2 DEF EnterSmm, WakeFromS1, ServedInv, SeenActive, NonePassed, StillDue, SxOff, InWalk
<1>3. CASE Idle \/ UNCHANGED vars
  BY <1>3 DEF Idle, vars, hw, core, locals, ServedInv, SeenActive, SourceIsActive,
       NonePassed, StillDue, SxOff, InWalk, AtOrBehind, Registered
<1> QED
  BY <1>1, <1>2, <1>3 DEF Platform

LEMMA ServedInvStep ==
  ASSUME "unregisterOther" \notin CallbackOps, TypeOK, WalkListed, ServedInv, [Next]_vars
  PROVE  ServedInv'
<1>1. CASE StartDispatch \/ ClearSource \/ SetAndCheckEos \/ Exit
  BY <1>1 DEF StartDispatch, ClearSource, SetAndCheckEos, Exit, ReturnTo, ServedInv,
       SeenActive, NonePassed, StillDue, SxOff, InWalk
<1>2. CASE SleepArm
  BY <1>2, SourceAssumption DEF SleepArm, EnBitsForSleep, ReturnTo, ServedInv,
       SeenActive, NonePassed, StillDue, SxOff, InWalk
<1>3. CASE WriteSlpEn
  BY <1>3 DEF WriteSlpEn, ServedInv, SeenActive, NonePassed, StillDue, SxOff, InWalk
<1> QED
  BY <1>1, <1>2, <1>3, SearchServed, WalkServed, ClientServed, PlatformServed
     DEF Next, Dispatcher

\* The status of a pending source s goes only when all its children have been called,
\* by another registration for s, or on the way to sleep.
ClearedLast(s) ==
  s \in Pending /\ Sts[s] \notin stsBits' =>
    \/ pc = "exhaust" /\ activeSource = s /\ due = {}
    \/ Len(db') > Len(db) /\ desc'[db'[Len(db')]] = s
    \/ pc = "exit" /\ s = SxSource

\* The steps that clear a status are five, each of which clears only what it may.
LEMMA ClearedLastStep ==
  ASSUME ~AllocMayFail, TypeOK, WalkListed, ServedInv, [Next]_vars, NEW s \in OwnSource
  PROVE  ClearedLast(s)
<1> SUFFICES ASSUME s \in Pending, Sts[s] \notin stsBits'
             PROVE  \/ pc = "exhaust" /\ activeSource = s /\ due = {}
                    \/ Len(db') > Len(db) /\ desc'[db'[Len(db')]] = s
                    \/ pc = "exit" /\ s = SxSource
  BY DEF ClearedLast
<1>0. HardwareOK /\ DatabaseOK /\ DispatcherOK
  BY DEF TypeOK
<1>1. /\ En[s] \subseteq enBits /\ Sts[s] \in stsBits /\ s \in Source
      /\ \A t \in Source : Sts[t] = Sts[s] => t = s
      /\ Sts[s] \notin DOMAIN House
  BY DEF Pending, PendingIn, OwnSource
<1>2. ASSUME NEW t \in Source, EnableSource(t)
      PROVE  t = s
  BY <1>1, <1>2 DEF EnableSource
<1>3. CASE DriverRegister \/ CallbackRegister
  <2>1. PICK t \in Source, r \in Rec : RegisterRecord(r, t)
    BY <1>3 DEF DriverRegister, CallbackRegister, RegisterWithoutRecord
  <2>2. t = s
    BY <1>2, <2>1 DEF RegisterRecord
  <2>3. db \in Seq(Rec) /\ db' = Append(db, r)
    BY <1>0, <2>1 DEF DatabaseOK, RegisterRecord
  <2>4. Len(db') > Len(db) /\ db'[Len(db')] = r
    BY <2>3
  <2>5. desc'[r] = s
    BY <1>0, <2>1, <2>2, RegisterRecordProps
  <2> QED
    BY <2>4, <2>5
<1>4. CASE WakeFromS1
  <2>1. SxSource = s /\ pc = "s1"
    BY <1>2, <1>4, SourceAssumption DEF WakeFromS1
  <2> QED
    BY <1>1, <2>1 DEF ServedInv, SxOff
<1>5. CASE SleepArm
  <2>1. pc = "exit" /\ Sts[SxSource] = Sts[s] /\ SxSource \in Source
    BY <1>1, <1>5, SourceAssumption DEF SleepArm
  <2> QED
    BY <1>1, <2>1
<1>6. CASE ClearSource
  <2>1. pc = "exhaust" /\ linkToExhaust = End /\ Sts[s] \in ClearedBits
    BY <1>1, <1>6 DEF ClearSource
  <2>2. Sts[s] = Sts[activeSource] /\ activeSource \in Source
    BY <2>1 DEF ClearedBits, WalkListed, InWalk
  <2>3. activeSource = s
    BY <1>1, <2>2
  <2> QED
    BY <2>1, <2>3 DEF ServedInv, StillDue, InWalk
<1>7. CASE SetAndCheckEos
  <2>1. Housekept \subseteq DOMAIN House
    BY DEF Housekept
  <2> QED
    BY <1>1, <1>7, <2>1 DEF SetAndCheckEos
<1>8. CASE StartDispatch \/ Search \/ ScanInactive \/ ScanActive \/ Exhaust
           \/ CallbackReturn \/ Exit
  BY <1>1, <1>8 DEF StartDispatch, Search, ScanInactive, ScanActive, Exhaust,
       CallbackReturn, Exit, hw
<1>9. CASE WriteSlpEn
  BY <1>1, <1>9 DEF WriteSlpEn
<1>10. CASE DriverUnregister \/ SmmReadyToLock \/ CallbackUnregister \/ CallbackToggleSciEn
  BY <1>1, <1>10 DEF DriverUnregister, SmmReadyToLock, CallbackUnregister,
       CallbackToggleSciEn, UnregisterRecord, hw
<1>11. CASE (\E t \in Source : Raise(t)) \/ EnterSmm \/ Idle \/ UNCHANGED vars
  BY <1>1, <1>11 DEF Raise, EnterSmm, Idle, vars, hw
<1> QED
  BY <1>3, <1>4, <1>5, <1>6, <1>7, <1>8, <1>9, <1>10, <1>11
     DEF Next, Dispatcher, Client, Platform

\* An event of a source with bits of its own is not cleared before every child of the
\* source has been called for it, whatever bits other sources share, whoever registers
\* meanwhile, and whatever is raised in between.
THEOREM OwnSourceServed ==
  ASSUME ~AllocMayFail, "unregisterOther" \notin CallbackOps
  PROVE  Spec => [][\A s \in OwnSource : ClearedLast(s)]_vars
<1>1. Init => ServedInv
  BY DEF Init, ServedInv, SeenActive, NonePassed, StillDue, SxOff, InWalk
<1>2. TypeOK /\ WalkListed /\ ServedInv /\ [Next]_vars => ServedInv'
  BY ServedInvStep
<1>3. TypeOK /\ WalkListed /\ ServedInv /\ [Next]_vars
        => [\A s \in OwnSource : ClearedLast(s)]_vars
  BY ClearedLastStep
<1> QED
  BY <1>1, <1>2, <1>3, AlwaysWalkListed, TypeCorrect, PTL DEF Spec

\* A listed record describes a source that drivers may register for, or the SW SMI.
RegistrableListed == \A r \in Registered : desc[r] \in Registrable \cup {SwSource}

LEMMA AlwaysRegistrable == Spec => []RegistrableListed
<1>1. Init => RegistrableListed
  <2> SUFFICES ASSUME Init PROVE RegistrableListed
    OBVIOUS
  <2>1. Registered = {SwRec} /\ desc[SwRec] = SwSource
    BY RecAssumption DEF Init, Registered, ToSet
  <2> QED
    BY <2>1 DEF RegistrableListed
<1>2. ASSUME TypeOK, RegistrableListed, [Next]_vars
      PROVE  RegistrableListed'
  <2>0. DatabaseOK
    BY <1>2 DEF TypeOK
  <2>1. ASSUME NEW s \in Source, NEW r \in Rec, RegisterRecord(r, s)
        PROVE  RegistrableListed'
    <3>1. s \in Registrable
      BY <2>1 DEF RegisterRecord
    <3> QED
      BY <1>2, <2>0, <2>1, <3>1, RegisterRecordProps DEF RegistrableListed, Registered
  <2>2. ASSUME NEW r \in Rec, UnregisterRecord(r)
        PROVE  RegistrableListed'
    BY <1>2, <2>0, <2>2, UnregisterRecordProps
       DEF RegistrableListed, Registered, UnregisterRecord
  <2>3. CASE UNCHANGED <<db, desc>>
    BY <1>2, <2>3 DEF RegistrableListed, Registered
  <2> QED
    BY <1>2, <2>1, <2>2, <2>3, StepKinds
       DEF Registers, RegisterWithoutRecord, Unregisters, SleepArm, WakeFromS1, core
<1> QED
  BY <1>1, <1>2, TypeCorrect, PTL DEF Spec

\* If drivers register only for such sources, this holds of every registered child.
THEOREM ServedFirst ==
  ASSUME ~AllocMayFail, "unregisterOther" \notin CallbackOps,
         Registrable \cup {SwSource} \subseteq OwnSource
  PROVE  Spec => ServedBeforeCleared
<1> DEFINE Served ==
      \A r \in Registered :
        LET s == desc[r]
        IN  s \in Pending /\ Sts[s] \notin stsBits' =>
              \/ pc = "exhaust" /\ activeSource = s /\ due = {}
              \/ Len(db') > Len(db) /\ desc'[db'[Len(db')]] = s
              \/ pc = "exit" /\ s = SxSource
<1>1. RegistrableListed /\ [\A s \in OwnSource : ClearedLast(s)]_vars => [Served]_vars
  <2> SUFFICES ASSUME RegistrableListed, \A s \in OwnSource : ClearedLast(s)
               PROVE  Served
    OBVIOUS
  <2>1. \A r \in Registered : ClearedLast(desc[r])
    BY DEF RegistrableListed
  <2> QED
    BY <2>1 DEF ClearedLast
<1> QED
  BY <1>1, AlwaysRegistrable, OwnSourceServed, PTL DEF ServedBeforeCleared
=============================================================================
