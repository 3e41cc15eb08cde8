---------------------------- MODULE IoTrapProofs ----------------------------
(***************************************************************************)
(* What TLAPS proves of IoTrap: for every number of trap registers and of  *)
(* children, every size of the shared ranges and every request.            *)
(***************************************************************************)
EXTENDS IoTrap, ListLemmas

-----------------------------------------------------------------------------
(***************************************************************************)
(* The lists of children                                                   *)
(***************************************************************************)

\* A child is in the list of its register, once, and in no other.
ListInv ==
  \A n \in Trap :
    /\ Injective(list[n])
    /\ ToSet(list[n]) = {c \in live : rec[c].trap = n}

\* The record of a registration, or none.
LEMMA RecordProps ==
  ASSUME EntriesOK, RecordsOK, ListInv,
         NEW c \in Child \ live, NEW q \in Requests, NEW n \in Trap, NEW address \in Nat,
         Record(c, q, n, address)
  PROVE  /\ RecordsOK' /\ list' \in [Trap -> Seq(live')] /\ ListInv'
         /\ \/ UNCHANGED <<live, rec>>
            \/ /\ live' = live \cup {c}
               /\ \A d \in live : rec'[d] = rec[d]
               /\ rec'[c].trap = n /\ rec'[c].address = address /\ rec'[c].len = q.len
<1> DEFINE new == [address |-> address, len |-> q.len, type |-> q.type,
                   ex |-> q.ex, be |-> q.be, bem |-> q.bem, trap |-> n]
<1>1. CASE /\ live' = live \cup {c} /\ rec' = [rec EXCEPT ![c] = new]
           /\ list' = [list EXCEPT ![n] = Append(@, c)]
           /\ twins' \subseteq live' /\ paused' = paused
  <2>1. new \in [address : Nat, len : Nat, type : Types, ex : BOOLEAN,
                 be : SUBSET Lanes, bem : SUBSET Lanes, trap : Trap]
    BY RequestAssumption
  <2>2. /\ RecordsOK' /\ rec'[c] = new
        /\ \A d \in live : rec'[d] = rec[d]
    BY <1>1, <2>1 DEF RecordsOK
  <2>3. /\ list[n] \in Seq(live') /\ \A m \in Trap : list[m] \in Seq(live')
    <3>1. \A m \in Trap : list[m] \in Seq(live)
      BY DEF EntriesOK
    <3>2. live \subseteq live'
      BY <1>1
    <3> QED
      BY <3>1, <3>2
  <2>4. /\ list'[n] = Append(list[n], c)
        /\ \A m \in Trap \ {n} : list'[m] = list[m]
    BY <1>1 DEF EntriesOK
  <2>5. c \notin ToSet(list[n]) /\ c \in live'
    BY <1>1 DEF ListInv
  <2>6. /\ list'[n] \in Seq(live') /\ Injective(list'[n])
        /\ ToSet(list'[n]) = ToSet(list[n]) \cup {c}
    BY <2>3, <2>4, <2>5, AppendToList DEF ListInv
  <2>7. list' \in [Trap -> Seq(live')]
    BY <1>1, <2>3, <2>4, <2>6 DEF EntriesOK
  <2>8. ASSUME NEW m \in Trap
        PROVE  Injective(list'[m]) /\ ToSet(list'[m]) = {d \in live' : rec'[d].trap = m}
    <3>1. CASE m = n
      BY <1>1, <2>2, <2>6, <3>1 DEF ListInv
    <3>2. CASE m # n
      BY <1>1, <2>2, <2>4, <3>2 DEF ListInv
    <3> QED
      BY <3>1, <3>2
  <2>9. ListInv'
    BY <2>8 DEF ListInv, Injective, ToSet
  <2> QED
    BY <1>1, <2>2, <2>7, <2>9
<1>2. CASE UNCHANGED <<live, rec, paused, list>> /\ twins' \subseteq live
  BY <1>2 DEF RecordsOK, EntriesOK, ListInv
<1>3. Same(address, q.len) \subseteq live /\ twins \subseteq live
  BY DEF Same, RecordsOK
<1> QED
  BY <1>1, <1>2, <1>3 DEF Record

\* Removing a child from its list.
LEMMA RemovalProps ==
  ASSUME EntriesOK, RecordsOK, ListInv, NEW c \in live,
         live' = live \ {c},
         list' = [list EXCEPT ![rec[c].trap] = RemoveAt(@, Position(c))],
         \A d \in live' : rec'[d] = rec[d]
  PROVE  list' \in [Trap -> Seq(live')] /\ ListInv'
<1> DEFINE n == rec[c].trap
<1>1. n \in Trap
  BY DEF RecordsOK
<1>2. /\ list[n] \in Seq(live) /\ Injective(list[n]) /\ c \in ToSet(list[n])
  BY <1>1 DEF EntriesOK, ListInv
<1>3. Position(c) \in DOMAIN list[n] /\ list[n][Position(c)] = c
  BY <1>2 DEF Position, ToSet
<1>4. /\ list'[n] = RemoveAt(list[n], Position(c))
      /\ \A m \in Trap \ {n} : list'[m] = list[m]
  BY <1>1 DEF EntriesOK
<1>5. /\ list'[n] \in Seq(live) /\ Injective(list'[n])
      /\ ToSet(list'[n]) = ToSet(list[n]) \ {c}
  BY <1>2, <1>3, <1>4, RemoveFromList
<1>6. ASSUME NEW m \in Trap
      PROVE  /\ list'[m] \in Seq(live) /\ Injective(list'[m])
             /\ ToSet(list'[m]) = {d \in live' : rec'[d].trap = m}
  <2>1. CASE m = n
    BY <1>1, <1>5, <2>1 DEF ListInv
  <2>2. CASE m # n
    <3>1. list'[m] = list[m]
      BY <1>4, <2>2
    <3>2. {d \in live' : rec'[d].trap = m} = {d \in live : rec[d].trap = m}
      BY <2>2
    <3>3. list[m] \in Seq(live) /\ Injective(list[m])
          /\ ToSet(list[m]) = {d \in live : rec[d].trap = m}
      BY DEF EntriesOK, ListInv
    <3> QED
      BY <3>1, <3>2, <3>3
  <2> QED
    BY <2>1, <2>2
<1>7. ASSUME NEW m \in Trap PROVE list'[m] \in Seq(live')
  <2>1. list'[m] \in Seq(live) /\ \A i \in DOMAIN list'[m] : list'[m][i] \in live'
    BY <1>6 DEF ToSet
  <2> QED
    BY <2>1
<1>8. list' \in [Trap -> Seq(live')]
  BY <1>7 DEF EntriesOK
<1>9. ListInv'
  BY <1>6 DEF ListInv, Injective, ToSet
<1> QED
  BY <1>8, <1>9

\* What is left alone.
LEMMA Unchanging ==
  /\ RegistersOK /\ UNCHANGED <<regs, hw>> => RegistersOK'
  /\ EntriesOK /\ UNCHANGED <<entry, live>> => EntriesOK'
  /\ RecordsOK /\ UNCHANGED recs => RecordsOK'
  /\ DispatchOK /\ UNCHANGED <<ready, clear, disp, spoilt>> => DispatchOK'
<1>1. RegistersOK /\ UNCHANGED <<regs, hw>> => RegistersOK'
  BY DEF RegistersOK, regs, hw
<1>2. EntriesOK /\ UNCHANGED <<entry, live>> => EntriesOK'
  BY DEF EntriesOK, entry
<1>3. RecordsOK /\ UNCHANGED recs => RecordsOK'
  BY DEF RecordsOK, recs
<1>4. DispatchOK /\ UNCHANGED <<ready, clear, disp, spoilt>> => DispatchOK'
  BY DEF DispatchOK, disp
<1> QED
  BY <1>1, <1>2, <1>3, <1>4

LEMMA ListUnchanged ==
  ASSUME ListInv, UNCHANGED <<list, live>>, \A c \in live : rec'[c] = rec[c]
  PROVE  ListInv'
BY DEF ListInv

-----------------------------------------------------------------------------
(***************************************************************************)
(* The registers                                                           *)
(***************************************************************************)

\* A register as it is programmed: the dword the range starts in, and its length.
LEMMA LowProps ==
  ASSUME NEW base \in Nat, NEW len \in Nat
  PROVE  /\ LowOf(base, len) \in LowType /\ LowOf(base, len).tse = TRUE
         /\ base >= 4 => LowOf(base, len).base # 0
         /\ base % 4 = 0 => LowOf(base, len).base = base
         /\ len % 4 = 0 => LowOf(base, len).len = len
<1>1. base - (base % 4) \in Nat
  OBVIOUS
<1>2. RoundUp(len) \in Nat
  BY DEF RoundUp
<1>3. base >= 4 => base - (base % 4) # 0
  OBVIOUS
<1>4. base % 4 = 0 => base - (base % 4) = base
  OBVIOUS
<1>5. len % 4 = 0 => RoundUp(len) = len
  BY DEF RoundUp
<1> QED
  BY <1>1, <1>2, <1>3, <1>4, <1>5 DEF LowOf, LowType

LEMMA HighProps ==
  ASSUME NEW q \in Requests, Legal(q), NEW len \in Nat, len = q.len \/ len >= 4
  PROVE  HighOf(q, len) \in HighType
<1>1. /\ TypesOf(q.type) \subseteq {"write", "read"}
      /\ q.be \subseteq Lanes /\ q.bem \subseteq Lanes /\ q.address \in Nat /\ q.len \in Nat
  BY RequestAssumption DEF TypesOf, Types
<1>2. len < 4 => Bytes((q.address % 4), len) \subseteq Lanes
  BY <1>1 DEF Legal, Bytes, Lanes, mLengthTable
<1> QED
  BY <1>1, <1>2 DEF HighOf, HighType

LEMMA WidenedProps ==
  ASSUME RegistersOK, NEW n \in Trap, NEW q \in Requests
  PROVE  Widened(n, q) \in HighType
BY DEF RegistersOK, Widened, HighType

\* TakesFree and SetSaved write both registers and the boot script.
LEMMA TakesFreeType ==
  ASSUME RegistersOK, NEW q \in Requests, Legal(q), NEW n \in Trap,
         NEW base \in Nat, NEW len \in Nat, len = q.len \/ len >= 4,
         TakesFree(q, n, base, len), cycle' = cycle
  PROVE  RegistersOK'
<1>1. LowOf(base, len) \in LowType /\ HighOf(q, len) \in HighType
  BY LowProps, HighProps
<1> QED
  BY <1>1 DEF TakesFree, SetSaved, RegistersOK

-----------------------------------------------------------------------------
(***************************************************************************)
(* Type correctness                                                        *)
(***************************************************************************)

TypeInv == TypeOK /\ ListInv

LEMMA InitType == Init => TypeInv
<1> SUFFICES ASSUME Init PROVE TypeInv
  OBVIOUS
<1>1. 0 \in Trap /\ 0 \in 0 .. PoolSize /\ 0 \in 0 .. Len(PoolBases)
  <2>1. Len(PoolBases) \in Nat
    BY PoolAssumption
  <2> QED
    BY <2>1, TrapAssumption DEF Trap
<1>2. Off \in LowType /\ NoTypes \in HighType
  BY DEF Off, NoTypes, LowType, HighType
<1>3. RegistersOK
  BY <1>2 DEF Init, RegistersOK
<1>4. EntriesOK
  <2>1. \A n \in Trap : list[n] \in Seq(live)
    BY DEF Init
  <2>2. nvs \in [Trap -> [status : {0, 1}, address : Nat]]
    BY DEF Init
  <2> QED
    BY <1>1, <2>1, <2>2 DEF Init, EntriesOK
<1>5. RecordsOK
  BY <1>1 DEF Init, RecordsOK, NoRecord, Types
<1>6. DispatchOK
  BY DEF Init, DispatchOK
<1>7. ListInv
  BY DEF Init, ListInv, Injective, ToSet
<1> QED
  BY <1>3, <1>4, <1>5, <1>6, <1>7 DEF TypeInv, TypeOK

\* Registering: what a shared range has used stays within its size.
LEMMA RegisterType ==
  ASSUME TypeInv, NEW c \in Child, NEW q \in Requests, Register(c, q)
  PROVE  TypeInv'
<1>0. RegistersOK /\ EntriesOK /\ RecordsOK /\ DispatchOK /\ ListInv
  BY DEF TypeInv, TypeOK
<1>1. PICK n \in Trap : /\ IsFirst(q, n)
                        /\ \/ RegisterOwn(c, q, n)
                           \/ RegisterPool(c, q, n)
                           \/ RegisterMerged(c, q, n)
  BY DEF Register
<1>2. /\ c \in Child \ live /\ Legal(q) /\ q.address \in Nat /\ q.len \in Nat
      /\ UNCHANGED <<cycle, ready, clear, disp, spoilt>>
  BY RequestAssumption DEF Register
<1>3. DispatchOK'
  BY <1>0, <1>2, Unchanging
<1>4. q.len \in 1 .. PoolSize /\ PoolSize \in Nat /\ PoolSize >= 4
  BY <1>2, TrapAssumption DEF Legal, mLengthTable
<1>5. CASE RegisterOwn(c, q, n)
  <2>1. TakesFree(q, n, q.address, q.len) /\ Record(c, q, n, q.address)
        /\ UNCHANGED <<used, acpi, given, nvs>>
    BY <1>5 DEF RegisterOwn
  <2>2. RecordsOK' /\ list' \in [Trap -> Seq(live')] /\ ListInv'
    BY <1>0, <1>2, <2>1, RecordProps
  <2>3. RegistersOK'
    BY <1>0, <1>2, <2>1, TakesFreeType
  <2>4. EntriesOK'
    BY <1>0, <2>1, <2>2 DEF EntriesOK, TakesFree
  <2> QED
    BY <1>3, <2>2, <2>3, <2>4 DEF TypeInv, TypeOK
<1>6. CASE RegisterPool(c, q, n)
  <2> DEFINE base == PoolBases[given + 1]
  <2>1. /\ TakesFree(q, n, base, PoolSize) /\ Record(c, q, n, base)
        /\ used' = [used EXCEPT ![n] = q.len]
        /\ acpi' = [acpi EXCEPT ![n] = TRUE]
        /\ nvs' = [nvs EXCEPT ![n] = [status |-> 1, address |-> base]]
        /\ given < Len(PoolBases) /\ given' = given + 1
    BY <1>6 DEF RegisterPool
  <2>2. /\ base \in Nat /\ given' \in 0 .. Len(PoolBases)
    BY <1>0, <2>1, PoolAssumption DEF EntriesOK
  <2> HIDE DEF base
  <2>3. RecordsOK' /\ list' \in [Trap -> Seq(live')] /\ ListInv'
    BY <1>0, <1>2, <2>1, <2>2, RecordProps
  <2>4. RegistersOK'
    BY <1>0, <1>2, <1>4, <2>1, <2>2, TakesFreeType
  <2>5. nvs' \in [Trap -> [status : {0, 1}, address : Nat]]
    BY <1>0, <2>1, <2>2 DEF EntriesOK
  <2>6. used' \in [Trap -> 0 .. PoolSize] /\ acpi' \in [Trap -> BOOLEAN]
    BY <1>0, <1>4, <2>1 DEF EntriesOK
  <2>7. merge' \in [Trap -> BOOLEAN]
    BY <1>0, <2>1 DEF EntriesOK, TakesFree
  <2> QED
    BY <1>3, <2>2, <2>3, <2>4, <2>5, <2>6, <2>7 DEF TypeInv, TypeOK, EntriesOK
<1>7. CASE RegisterMerged(c, q, n)
  <2>1. /\ Record(c, q, n, low[n].base + used[n])
        /\ used' = [used EXCEPT ![n] = used[n] + q.len]
        /\ high' = [high EXCEPT ![n] = Widened(n, q)]
        /\ script' = [script EXCEPT ![n].high = Widened(n, q)]
        /\ UNCHANGED <<pending, low, merge, acpi, given, nvs>>
    BY <1>7 DEF RegisterMerged
  <2>2. used[n] \in Nat /\ used[n] + q.len \in 0 .. PoolSize
    <3>1. HasSpace(q, n)
      BY <1>1, <1>7 DEF IsFirst, Suits, RegisterMerged
    <3> QED
      BY <1>0, <1>4, <3>1 DEF HasSpace, EntriesOK
  <2>3. low[n].base + used[n] \in Nat
    BY <1>0, <2>2 DEF RegistersOK, LowType
  <2>4. RecordsOK' /\ list' \in [Trap -> Seq(live')] /\ ListInv'
    BY <1>0, <1>2, <2>1, <2>3, RecordProps
  <2>5. RegistersOK'
    BY <1>0, <1>2, <2>1, WidenedProps DEF RegistersOK
  <2>6. EntriesOK'
    BY <1>0, <2>1, <2>2, <2>4 DEF EntriesOK
  <2> QED
    BY <1>3, <2>4, <2>5, <2>6 DEF TypeInv, TypeOK
<1> QED
  BY <1>1, <1>5, <1>6, <1>7

LEMMA UnregisterType ==
  ASSUME TypeInv, NEW c \in Child, Unregister(c)
  PROVE  TypeInv'
<1>0. RegistersOK /\ EntriesOK /\ RecordsOK /\ DispatchOK /\ ListInv
  BY DEF TypeInv, TypeOK
<1> DEFINE n == rec[c].trap
<1>1. /\ c \in live /\ n \in Trap
      /\ list' = [list EXCEPT ![n] = RemoveAt(@, Position(c))]
      /\ live' = live \ {c} /\ paused' = paused \ {c} /\ twins' = twins \ {c}
      /\ UNCHANGED <<hw, used, given, ready, disp>>
      /\ \/ spoilt' = spoilt \cup {"record"} /\ rec' = rec
         \/ rec' = [rec EXCEPT ![c] = NoRecord] /\ spoilt' = spoilt
  BY <1>0 DEF Unregister, RecordsOK
<1>2. /\ RecordsOK' /\ \A d \in live' : rec'[d] = rec[d]
  <2>1. NoRecord \in [address : Nat, len : Nat, type : Types, ex : BOOLEAN,
                      be : SUBSET Lanes, bem : SUBSET Lanes, trap : Trap]
    BY TrapAssumption DEF NoRecord, Types, Trap
  <2> QED
    BY <1>0, <1>1, <2>1 DEF RecordsOK
<1>3. list' \in [Trap -> Seq(live')] /\ ListInv'
  BY <1>0, <1>1, <1>2, RemovalProps
<1>4. /\ low' \in [Trap -> LowType] /\ high' \in [Trap -> HighType]
      /\ script' \in [Trap -> [low : LowType, high : HighType]]
      /\ clear' \in Trap \cup {None}
      /\ merge' \in [Trap -> BOOLEAN] /\ acpi' \in [Trap -> BOOLEAN]
      /\ nvs' \in [Trap -> [status : {0, 1}, address : Nat]]
  <2>1. CASE TurnOff(n)
    <3>1. Off \in LowType /\ NoTypes \in HighType
      BY DEF Off, NoTypes, LowType, HighType
    <3>2. AcpiFreed(n) \in [status : {0, 1}, address : Nat]
      BY <1>0, <1>1 DEF EntriesOK, AcpiFreed
    <3> QED
      BY <1>0, <1>1, <2>1, <3>1, <3>2 DEF TurnOff, SetSaved, RegistersOK, EntriesOK
  <2>2. CASE AtTop(c) /\ CutTop(c)
    <3> DEFINE left == low[n].len - rec[c].len
    <3>1. left \in mLengthTable => LowOf(low[n].base, left) \in LowType
      <4>1. left \in mLengthTable => left \in Nat
        BY DEF mLengthTable
      <4>2. low[n].base \in Nat
        BY <1>0, <1>1 DEF RegistersOK, LowType
      <4> QED
        BY <4>1, <4>2, LowProps
    <3> DEFINE lo == IF left \in mLengthTable THEN LowOf(low[n].base, left) ELSE low[n]
    <3>2. lo \in LowType
      BY <1>0, <1>1, <3>1 DEF RegistersOK
    <3>3. low' = [low EXCEPT ![n] = lo] /\ script' = [script EXCEPT ![n].low = lo]
      BY <1>1, <2>2 DEF CutTop
    <3>4. UNCHANGED <<high, clear, merge, acpi, nvs>>
      BY <2>2 DEF CutTop
    <3> HIDE DEF lo, left
    <3>5. low' \in [Trap -> LowType]
      BY <1>0, <3>2, <3>3 DEF RegistersOK
    <3>6. script' \in [Trap -> [low : LowType, high : HighType]]
      BY <1>0, <3>2, <3>3 DEF RegistersOK
    <3> QED
      BY <1>0, <3>4, <3>5, <3>6 DEF RegistersOK, EntriesOK, DispatchOK
  <2>3. CASE UNCHANGED <<regs, clear, merge, acpi, nvs>>
    BY <1>0, <2>3 DEF regs, RegistersOK, EntriesOK, DispatchOK
  <2> QED
    BY <2>1, <2>2, <2>3 DEF Unregister
<1>5. RegistersOK'
  BY <1>0, <1>1, <1>4 DEF RegistersOK, hw
<1>6. EntriesOK'
  BY <1>0, <1>1, <1>3, <1>4 DEF EntriesOK
<1>7. DispatchOK'
  BY <1>0, <1>1, <1>4 DEF DispatchOK, disp
<1> QED
  BY <1>2, <1>3, <1>5, <1>6, <1>7 DEF TypeInv, TypeOK

\* Pausing and resuming change a trap enable, and nothing else of the registers.
OnlyTse == /\ low' \in [Trap -> LowType]
           /\ \A n \in Trap : low'[n].base = low[n].base /\ low'[n].len = low[n].len

LEMMA PauseResumeProps ==
  ASSUME RegistersOK, NEW n \in Trap, NEW b \in BOOLEAN, low' = [low EXCEPT ![n].tse = b]
  PROVE  OnlyTse /\ low'[n].tse = b /\ \A m \in Trap \ {n} : low'[m] = low[m]
BY DEF RegistersOK, LowType, OnlyTse

LEMMA ControlType ==
  ASSUME TypeInv, NEW c \in Child, Pause(c) \/ Resume(c)
  PROVE  TypeInv' /\ OnlyTse
<1>0. RegistersOK /\ EntriesOK /\ RecordsOK /\ DispatchOK /\ ListInv
  BY DEF TypeInv, TypeOK
<1>1. CASE Pause(c)
  <2>1. PICK n \in Trap : low' = [low EXCEPT ![n].tse = FALSE] /\ clear' = n
    BY <1>1 DEF Pause
  <2>2. /\ c \in live /\ paused' = paused \cup {c}
        /\ UNCHANGED <<high, script, hw, entry, live, rec, twins, ready, disp, spoilt>>
    BY <1>1 DEF Pause
  <2>3. OnlyTse
    BY <1>0, <2>1, PauseResumeProps
  <2>4. RegistersOK' /\ RecordsOK' /\ DispatchOK'
    BY <1>0, <2>1, <2>2, <2>3 DEF RegistersOK, OnlyTse, RecordsOK, DispatchOK, hw, disp
  <2> QED
    BY <1>0, <2>2, <2>3, <2>4, Unchanging, ListUnchanged DEF TypeInv, TypeOK, entry
<1>2. CASE Resume(c)
  <2>1. PICK n \in Trap : low' = [low EXCEPT ![n].tse = TRUE]
    BY <1>2 DEF Resume
  <2>2. /\ c \in live /\ paused' = paused \ {c}
        /\ UNCHANGED <<high, script, hw, entry, live, rec, twins, ready, clear, disp, spoilt>>
    BY <1>2 DEF Resume
  <2>3. OnlyTse
    BY <1>0, <2>1, PauseResumeProps
  <2>4. RegistersOK' /\ RecordsOK' /\ DispatchOK'
    BY <1>0, <2>1, <2>2, <2>3 DEF RegistersOK, OnlyTse, RecordsOK, DispatchOK, hw, disp
  <2> QED
    BY <1>0, <2>2, <2>3, <2>4, Unchanging, ListUnchanged DEF TypeInv, TypeOK, entry
<1> QED
  BY <1>1, <1>2

\* The dispatcher changes neither registers nor lists; a record it clears is nobody's.
LEMMA HandlerType ==
  ASSUME TypeInv, Handler
  PROVE  /\ TypeInv'
         /\ UNCHANGED <<regs, entry, live>> /\ \A c \in live : rec'[c] = rec[c]
<1>0. RegistersOK /\ EntriesOK /\ RecordsOK /\ DispatchOK /\ ListInv
  BY DEF TypeInv, TypeOK
<1>1. UNCHANGED <<regs, cycle, entry, live, paused, twins, ready>>
  BY DEF Handler, ClearPendingIoTrapStatus, Dispatch, DispatchesNothing, CallsOther, Return,
     hw, recs
<1>2. pending' \subseteq pending
  BY DEF Handler, ClearPendingIoTrapStatus, Dispatch, DispatchesNothing, CallsOther, Return,
     hw, Cleared
<1>3. RegistersOK' /\ EntriesOK'
  BY <1>0, <1>1, <1>2, Unchanging DEF RegistersOK, regs, entry
<1>4. CASE ClearPendingIoTrapStatus \/ CallsOther \/ \E n \in Trap : DispatchesNothing(n)
  <2>1. UNCHANGED recs
    BY <1>4 DEF ClearPendingIoTrapStatus, CallsOther, DispatchesNothing
  <2>2. DispatchOK'
    BY <1>0, <1>4, TrapAssumption
       DEF ClearPendingIoTrapStatus, CallsOther, DispatchesNothing, disp, DispatchOK
  <2> QED
    BY <1>0, <1>1, <1>3, <2>1, <2>2, Unchanging, ListUnchanged
       DEF TypeInv, TypeOK, recs, entry
<1>5. ASSUME NEW n \in Trap, Dispatch(n)
      PROVE  TypeInv' /\ rec' = rec
  <2>1. /\ UNCHANGED recs /\ UNCHANGED <<ready, clear, spoilt>>
        /\ serving' = n /\ list[n] # <<>>
        /\ phase' \in {"merged", "own", "ex"}
        /\ callee' \in Called(n)
    BY <1>5 DEF Dispatch
  <2>2. Called(n) \subseteq Child
    <3>1. list[n] \in Seq(live) /\ live \subseteq Child
      BY <1>0 DEF EntriesOK, RecordsOK
    <3>2. list[n][1] \in live
      BY <2>1, <3>1
    <3> QED
      BY <3>1, <3>2 DEF Called
  <2>3. None \notin Child /\ None \notin Trap /\ None \notin {"merged", "own", "ex"}
    BY TrapAssumption DEF Trap
  <2>4. DispatchOK'
    BY <1>0, <2>1, <2>2, <2>3 DEF DispatchOK
  <2> QED
    BY <1>0, <1>1, <1>3, <2>1, <2>4, Unchanging, ListUnchanged
       DEF TypeInv, TypeOK, recs, entry
<1>6. CASE Return
  <2>1. /\ callee \in Child
        /\ rec' = IF callee \in live THEN rec ELSE [rec EXCEPT ![callee] = NoRecord]
        /\ callee' = None /\ serving' = None /\ phase' = None
        /\ spoilt' = spoilt \ {"record"} /\ clear' = clear
    BY <1>0, <1>6 DEF Return, DispatchOK
  <2>2. NoRecord \in [address : Nat, len : Nat, type : Types, ex : BOOLEAN,
                      be : SUBSET Lanes, bem : SUBSET Lanes, trap : Trap]
    BY TrapAssumption DEF NoRecord, Types, Trap
  <2>3. RecordsOK' /\ \A c \in live : rec'[c] = rec[c]
    BY <1>0, <1>1, <2>1, <2>2 DEF RecordsOK
  <2>4. DispatchOK'
    BY <1>0, <1>1, <2>1 DEF DispatchOK
  <2>5. ListInv'
    BY <1>0, <1>1, <2>3, ListUnchanged DEF entry
  <2> QED
    BY <1>1, <1>3, <2>3, <2>4, <2>5 DEF TypeInv, TypeOK
<1> QED
  BY <1>1, <1>4, <1>5, <1>6
     DEF Handler, ClearPendingIoTrapStatus, CallsOther, DispatchesNothing, recs

\* Cycles, the lock and S3.
LEMMA SystemType ==
  ASSUME TypeInv, (\E cy \in Cycles : Access(cy)) \/ ReadyToLock \/ S3Resume
  PROVE  TypeInv'
<1>0. RegistersOK /\ EntriesOK /\ RecordsOK /\ DispatchOK /\ ListInv
  BY DEF TypeInv, TypeOK
<1>1. CASE \E cy \in Cycles : Access(cy)
  <2>1. PICK cy \in Cycles : Access(cy)
    BY <1>1
  <2>2. /\ pending' \subseteq Trap /\ cycle' = cy /\ spoilt' \subseteq {"cycle", "record"}
        /\ UNCHANGED <<regs, entry, recs, ready, clear, disp>>
    BY <1>0, <2>1 DEF Access, RegistersOK, DispatchOK
  <2>3. RegistersOK' /\ DispatchOK'
    BY <1>0, <2>2 DEF RegistersOK, DispatchOK, regs, disp
  <2> QED
    BY <1>0, <2>2, <2>3, Unchanging, ListUnchanged DEF TypeInv, TypeOK, recs, entry
<1>2. CASE ReadyToLock
  <2>1. DispatchOK'
    BY <1>0, <1>2 DEF ReadyToLock, DispatchOK, disp
  <2> QED
    BY <1>0, <1>2, <2>1, Unchanging, ListUnchanged
       DEF ReadyToLock, TypeInv, TypeOK, recs, entry
<1>3. CASE S3Resume
  <2>1. RegistersOK'
    BY <1>0, <1>3 DEF S3Resume, RegistersOK, Restored, hw
  <2>2. RecordsOK' /\ DispatchOK'
    BY <1>0, <1>3 DEF S3Resume, RecordsOK, DispatchOK, disp
  <2> QED
    BY <1>0, <1>3, <2>1, <2>2, Unchanging, ListUnchanged
       DEF S3Resume, TypeInv, TypeOK, recs, entry
<1> QED
  BY <1>1, <1>2, <1>3

LEMMA NextType == TypeInv /\ [Next]_vars => TypeInv'
<1> SUFFICES ASSUME TypeInv, [Next]_vars PROVE TypeInv'
  OBVIOUS
<1>1. CASE UNCHANGED vars
  BY <1>1, Unchanging, ListUnchanged DEF vars, TypeInv, TypeOK, recs, entry
<1> QED
  BY <1>1, RegisterType, UnregisterType, ControlType, HandlerType, SystemType DEF Next, Client

LEMMA TypeInvariant == Spec => []TypeInv
BY InitType, NextType, PTL DEF Spec

\* Every variable keeps its type: a shared range is never given out beyond its size, a
\* list holds only children that are registered.
THEOREM TypeCorrect == Spec => []TypeOK
<1>1. TypeInv => TypeOK
  BY DEF TypeInv
<1> QED
  BY <1>1, TypeInvariant, PTL

-----------------------------------------------------------------------------
(***************************************************************************)
(* The shared ranges                                                       *)
(***************************************************************************)

\* A register is told to be free by its address, so a child at one of the first three
\* ports would have a register that looks free (line 520).
NoLowPorts == \A q \in Requests : q.address = 0 \/ q.address >= 4

Pool(n) == ~Free(n) /\ ~merge[n]

\* A register that looks free is nobody's, one with MergeDisable is one child's, and a
\* shared one has a range from GCD, which ACPI knows of and S3 brings back.
TrapInv(n) ==
  /\ Free(n) => ~merge[n] /\ \A c \in live : rec[c].trap # n
  /\ merge[n] => \A c, d \in live : rec[c].trap = n /\ rec[d].trap = n => c = d
  /\ Pool(n) => low[n].len = PoolSize /\ \E i \in 1 .. given : low[n].base = PoolBases[i]
  /\ script[n].low.base = low[n].base /\ script[n].low.len = low[n].len
  /\ acpi[n] <=> Pool(n)
  /\ nvs[n].status = 1 <=> acpi[n]
  /\ acpi[n] => nvs[n].address = low[n].base

\* A child in a shared range is in the part that is used.
ChildInv(c) ==
  /\ rec[c].len > 0
  /\ ~merge[rec[c].trap] =>
       /\ rec[c].address >= low[rec[c].trap].base
       /\ rec[c].address + rec[c].len <= low[rec[c].trap].base + used[rec[c].trap]
       /\ AtTop(c) => rec[c].address = low[rec[c].trap].base

Disjoint(c, d) ==
  \/ rec[c].address + rec[c].len <= rec[d].address
  \/ rec[d].address + rec[d].len <= rec[c].address

PoolInv ==
  /\ \A n \in Trap : TrapInv(n)
  /\ \A n, m \in Trap : Pool(n) /\ Pool(m) /\ n # m => low[n].base # low[m].base
  /\ \A c \in live : ChildInv(c)
  /\ \A c, d \in live :
       ~merge[rec[c].trap] /\ rec[d].trap = rec[c].trap /\ c # d => Disjoint(c, d)

\* What neither moves a register nor changes a child leaves all of it.
LEMMA PoolUnchanged ==
  ASSUME TypeInv, PoolInv, UNCHANGED <<used, merge, acpi, given, nvs>>, live' \subseteq live,
         \A n \in Trap : /\ low'[n].base = low[n].base /\ low'[n].len = low[n].len
                         /\ script'[n].low.base = low[n].base
                         /\ script'[n].low.len = low[n].len,
         \A c \in live' : rec'[c] = rec[c]
  PROVE  PoolInv'
<1>1. \A c \in live : rec[c].trap \in Trap
  BY DEF TypeInv, TypeOK, RecordsOK
<1>2. \A n \in Trap : TrapInv(n)'
  BY DEF PoolInv, TrapInv, Pool, Free
<1>3. \A c \in live' : ChildInv(c)'
  BY <1>1 DEF PoolInv, ChildInv, AtTop
<1>4. \A n, m \in Trap : (Pool(n) /\ Pool(m) /\ n # m => low[n].base # low[m].base)'
  BY DEF PoolInv, Pool, Free
<1>5. \A c, d \in live' :
        (~merge[rec[c].trap] /\ rec[d].trap = rec[c].trap /\ c # d => Disjoint(c, d))'
  BY DEF PoolInv, Disjoint
<1> QED
  BY <1>2, <1>3, <1>4, <1>5 DEF PoolInv

\* A register that was free is taken: what that leaves of the rest.
LEMMA OthersKept ==
  ASSUME TypeInv, PoolInv, NEW n \in Trap,
         \A m \in Trap \ {n} :
           /\ low'[m].base = low[m].base /\ low'[m].len = low[m].len
           /\ script'[m].low = script[m].low /\ merge'[m] = merge[m]
           /\ used'[m] = used[m] /\ acpi'[m] = acpi[m] /\ nvs'[m] = nvs[m],
         given' >= given, given' \in Nat,
         \A c \in live \cap live' : rec'[c] = rec[c],
         \A c \in live' \ live : rec'[c].trap = n
  PROVE  /\ \A m \in Trap \ {n} : TrapInv(m)'
         /\ \A c \in live' : rec'[c].trap # n => ChildInv(c)' /\ c \in live
         /\ \A m, k \in Trap \ {n} : (Pool(m) /\ Pool(k) /\ m # k => low[m].base # low[k].base)'
         /\ \A c, d \in live' : rec'[c].trap # n =>
              (~merge[rec[c].trap] /\ rec[d].trap = rec[c].trap /\ c # d => Disjoint(c, d))'
<1>1. \A c \in live : rec[c].trap \in Trap
  BY DEF TypeInv, TypeOK, RecordsOK
<1>0. given \in Nat /\ \A i \in 1 .. given : i \in 1 .. given'
  BY PoolAssumption DEF TypeInv, TypeOK, EntriesOK
<1>2. ASSUME NEW m \in Trap \ {n} PROVE TrapInv(m)'
  <2>1. TrapInv(m)
    BY DEF PoolInv
  <2>2. \A c \in live' : rec'[c].trap = m => c \in live /\ rec[c].trap = m
    OBVIOUS
  <2>3. Pool(m)' <=> Pool(m)
    BY DEF Pool, Free
  <2>4. (Free(m) => ~merge[m] /\ \A c \in live : rec[c].trap # m)'
    BY <2>1, <2>2 DEF TrapInv, Free
  <2>5. (merge[m] => \A c, d \in live : rec[c].trap = m /\ rec[d].trap = m => c = d)'
    BY <2>1, <2>2 DEF TrapInv
  <2>6. (Pool(m) => low[m].len = PoolSize /\ \E i \in 1 .. given : low[m].base = PoolBases[i])'
    BY <1>0, <2>1, <2>3 DEF TrapInv
  <2> QED
    BY <2>1, <2>3, <2>4, <2>5, <2>6 DEF TrapInv
<1>3. ASSUME NEW c \in live', rec'[c].trap # n PROVE ChildInv(c)' /\ c \in live
  <2>1. c \in live /\ rec'[c] = rec[c] /\ ChildInv(c) /\ rec[c].trap \in Trap \ {n}
    BY <1>1, <1>3 DEF PoolInv
  <2> QED
    BY <2>1 DEF ChildInv, AtTop
<1>4. \A m, k \in Trap \ {n} : (Pool(m) /\ Pool(k) /\ m # k => low[m].base # low[k].base)'
  BY DEF PoolInv, Pool, Free
<1>5. ASSUME NEW c \in live', NEW d \in live', rec'[c].trap # n,
             (~merge[rec[c].trap] /\ rec[d].trap = rec[c].trap /\ c # d)'
      PROVE  Disjoint(c, d)'
  <2>1. c \in live /\ d \in live /\ rec'[c] = rec[c] /\ rec'[d] = rec[d]
        /\ rec[c].trap \in Trap \ {n}
    BY <1>1, <1>3, <1>5
  <2> QED
    BY <1>5, <2>1 DEF PoolInv, Disjoint
<1> QED
  BY <1>2, <1>3, <1>4, <1>5

\* A range still to be given out is none of those given.
LEMMA Bases ==
  ASSUME PoolInv, NEW i \in 1 .. Len(PoolBases), NEW m \in Trap, Pool(m), given < i, given \in Nat
  PROVE  low[m].base # PoolBases[i]
<1>1. PICK j \in 1 .. given : low[m].base = PoolBases[j]
  BY DEF PoolInv, TrapInv
<1>2. j \in 1 .. Len(PoolBases) /\ j < i
  BY <1>1, PoolAssumption
<1>3. PoolBases[i] \in Nat /\ PoolBases[j] \in Nat
  BY <1>2, PoolAssumption
<1>4. i \in 1 .. Len(PoolBases) /\ PoolSize \in Nat /\ PoolSize > 0
  BY TrapAssumption
<1>5. \/ PoolBases[j] + PoolSize <= PoolBases[i]
      \/ PoolBases[i] + PoolSize <= PoolBases[j]
  BY <1>2, <1>4, PoolAssumption
<1>6. PoolBases[i] # PoolBases[j]
  BY <1>3, <1>4, <1>5
<1> QED
  BY <1>1, <1>6

LEMMA InitPool == Init => PoolInv
BY DEF Init, PoolInv, TrapInv, Pool, Free, Off

LEMMA OwnPool ==
  ASSUME NoLowPorts, TypeInv, TypeInv', PoolInv,
         NEW c \in Child \ live, NEW q \in Requests, Legal(q), NEW n \in Trap,
         RegisterOwn(c, q, n)
  PROVE  PoolInv'
<1>0. RegistersOK /\ EntriesOK /\ RecordsOK /\ ListInv /\ EntriesOK'
  BY DEF TypeInv, TypeOK
<1>1. /\ Free(n) /\ q.address \in Nat /\ q.address >= 4
      /\ q.len \in Nat /\ q.len > 0
  BY RequestAssumption DEF RegisterOwn, NoLowPorts, Legal, mLengthTable
<1>2. /\ low' = [low EXCEPT ![n] = LowOf(q.address, q.len)]
      /\ script' = [script EXCEPT ![n] = [low |-> LowOf(q.address, q.len),
                                          high |-> HighOf(q, q.len)]]
      /\ merge' = [merge EXCEPT ![n] = TRUE]
      /\ UNCHANGED <<used, acpi, given, nvs>>
      /\ Record(c, q, n, q.address)
  BY <1>1 DEF RegisterOwn, TakesFree, SetSaved
<1>3. /\ low'[n] = LowOf(q.address, q.len) /\ script'[n].low = low'[n] /\ merge'[n] = TRUE
      /\ \A m \in Trap \ {n} :
           /\ low'[m] = low[m] /\ script'[m] = script[m] /\ merge'[m] = merge[m]
           /\ used'[m] = used[m] /\ acpi'[m] = acpi[m] /\ nvs'[m] = nvs[m]
  BY <1>0, <1>2 DEF RegistersOK, EntriesOK
<1>4. \/ UNCHANGED <<live, rec>>
      \/ /\ live' = live \cup {c} /\ \A d \in live : rec'[d] = rec[d]
         /\ rec'[c].trap = n /\ rec'[c].address = q.address /\ rec'[c].len = q.len
  BY <1>0, <1>1, <1>2, RecordProps
<1>5. \A d \in live : rec[d].trap # n
  BY <1>1 DEF PoolInv, TrapInv
<1>6. \A d \in live' : rec'[d].trap = n => d = c /\ rec'[d].len > 0
  BY <1>1, <1>4, <1>5
<1>7. given \in Nat /\ given' = given
  BY <1>0, <1>2, PoolAssumption DEF EntriesOK
<1>8. /\ \A m \in Trap \ {n} : TrapInv(m)'
      /\ \A d \in live' : rec'[d].trap # n => ChildInv(d)' /\ d \in live
      /\ \A m, k \in Trap \ {n} : (Pool(m) /\ Pool(k) /\ m # k => low[m].base # low[k].base)'
      /\ \A e, d \in live' : rec'[e].trap # n =>
           (~merge[rec[e].trap] /\ rec[d].trap = rec[e].trap /\ e # d => Disjoint(e, d))'
  BY <1>3, <1>4, <1>7, OthersKept
<1>9. TrapInv(n)'
  <2>0. LowOf(q.address, q.len).base # 0
    BY <1>1, LowProps
  <2>1. ~Free(n)' /\ ~Pool(n)'
    BY <1>3, <2>0 DEF Free, Pool
  <2>2. acpi[n] = FALSE /\ nvs[n].status # 1
    BY <1>0, <1>1 DEF PoolInv, TrapInv, Pool, EntriesOK
  <2> QED
    BY <1>2, <1>3, <1>6, <2>1, <2>2 DEF TrapInv
<1> QED
  BY <1>3, <1>6, <1>8, <1>9 DEF PoolInv, Pool, ChildInv

LEMMA NewPool ==
  ASSUME TypeInv, TypeInv', PoolInv,
         NEW c \in Child \ live, NEW q \in Requests, Legal(q), NEW n \in Trap,
         RegisterPool(c, q, n)
  PROVE  PoolInv'
<1>0. RegistersOK /\ EntriesOK /\ RecordsOK /\ ListInv /\ EntriesOK'
  BY DEF TypeInv, TypeOK
<1> DEFINE base == PoolBases[given + 1]
<1>1. /\ Free(n) /\ q.address = 0 /\ q.len \in Nat /\ q.len > 0
      /\ PoolSize \in Nat /\ PoolSize % 4 = 0 /\ PoolSize > 0
  BY RequestAssumption, TrapAssumption DEF RegisterPool, Legal, mLengthTable
<1>2. /\ given \in Nat /\ given + 1 \in 1 .. Len(PoolBases)
      /\ base \in Nat /\ base # 0 /\ base % 4 = 0 /\ given' = given + 1
  BY <1>0, PoolAssumption DEF RegisterPool, EntriesOK
<1>3. /\ low' = [low EXCEPT ![n] = LowOf(base, PoolSize)]
      /\ script' = [script EXCEPT ![n] = [low |-> LowOf(base, PoolSize),
                                          high |-> HighOf(q, PoolSize)]]
      /\ merge' = [merge EXCEPT ![n] = FALSE]
      /\ used' = [used EXCEPT ![n] = q.len]
      /\ acpi' = [acpi EXCEPT ![n] = TRUE]
      /\ nvs' = [nvs EXCEPT ![n] = [status |-> 1, address |-> base]]
      /\ Record(c, q, n, base)
  BY <1>1 DEF RegisterPool, TakesFree, SetSaved
<1>b. \A m \in Trap : Pool(m) => low[m].base # base
  BY <1>2, Bases
<1> HIDE DEF base
<1>4. /\ low'[n] = LowOf(base, PoolSize) /\ script'[n].low = low'[n] /\ merge'[n] = FALSE
      /\ used'[n] = q.len /\ acpi'[n] = TRUE
      /\ nvs'[n] = [status |-> 1, address |-> base]
      /\ \A m \in Trap \ {n} :
           /\ low'[m] = low[m] /\ script'[m] = script[m] /\ merge'[m] = merge[m]
           /\ used'[m] = used[m] /\ acpi'[m] = acpi[m] /\ nvs'[m] = nvs[m]
  BY <1>0, <1>3 DEF RegistersOK, EntriesOK
<1>5. low'[n].base = base /\ low'[n].len = PoolSize
  <2>1. LowOf(base, PoolSize).base = base /\ LowOf(base, PoolSize).len = PoolSize
    BY <1>1, <1>2, LowProps
  <2> QED
    BY <1>4, <2>1
<1>6. \/ UNCHANGED <<live, rec>>
      \/ /\ live' = live \cup {c} /\ \A d \in live : rec'[d] = rec[d]
         /\ rec'[c].trap = n /\ rec'[c].address = base /\ rec'[c].len = q.len
  BY <1>0, <1>2, <1>3, RecordProps
<1>7. \A d \in live : rec[d].trap # n
  BY <1>1 DEF PoolInv, TrapInv
<1>8. \A d \in live' : rec'[d].trap = n =>
        d = c /\ rec'[d].address = base /\ rec'[d].len = q.len
  BY <1>6, <1>7
<1>9. /\ \A m \in Trap \ {n} : TrapInv(m)'
      /\ \A d \in live' : rec'[d].trap # n => ChildInv(d)' /\ d \in live
      /\ \A m, k \in Trap \ {n} : (Pool(m) /\ Pool(k) /\ m # k => low[m].base # low[k].base)'
      /\ \A e, d \in live' : rec'[e].trap # n =>
           (~merge[rec[e].trap] /\ rec[d].trap = rec[e].trap /\ e # d => Disjoint(e, d))'
  BY <1>2, <1>4, <1>6, OthersKept
<1>10. Pool(n)' /\ TrapInv(n)'
  <2>1. ~Free(n)' /\ Pool(n)'
    BY <1>2, <1>4, <1>5 DEF Free, Pool
  <2>2. \E i \in 1 .. given' : low'[n].base = PoolBases[i]
    BY <1>2, <1>5 DEF base
  <2> QED
    BY <1>4, <1>5, <2>1, <2>2 DEF TrapInv
<1>11. \A d \in live' : rec'[d].trap = n => ChildInv(d)'
  BY <1>1, <1>2, <1>4, <1>5, <1>8 DEF ChildInv
<1>12. \A m \in Trap \ {n} : Pool(m)' => low'[m].base # low'[n].base
  BY <1>4, <1>5, <1>b DEF Pool, Free
<1> QED
  BY <1>8, <1>9, <1>10, <1>11, <1>12 DEF PoolInv

LEMMA MergedPool ==
  ASSUME TypeInv, TypeInv', PoolInv,
         NEW c \in Child \ live, NEW q \in Requests, Legal(q), NEW n \in Trap,
         HasSpace(q, n), RegisterMerged(c, q, n)
  PROVE  PoolInv'
<1>0. RegistersOK /\ EntriesOK /\ RecordsOK /\ ListInv /\ EntriesOK'
  BY DEF TypeInv, TypeOK
<1>1. /\ Pool(n) /\ low[n].len = PoolSize /\ PoolSize \in Nat
      /\ q.len \in Nat /\ q.len > 0
      /\ used[n] \in Nat /\ low[n].base \in Nat /\ used[n] + q.len < PoolSize
  <2>1. /\ used[n] \in 0 .. PoolSize /\ low[n].base \in Nat
    BY <1>0 DEF RegistersOK, EntriesOK, LowType
  <2>2. q.len \in Nat /\ q.len > 0 /\ PoolSize \in Nat
    BY RequestAssumption, TrapAssumption DEF Legal, mLengthTable
  <2>3. Pool(n) /\ low[n].len = PoolSize
    BY DEF RegisterMerged, HasSpace, Pool, PoolInv, TrapInv
  <2> QED
    BY <2>1, <2>2, <2>3 DEF HasSpace
<1>2. /\ used' = [used EXCEPT ![n] = used[n] + q.len]
      /\ script' = [script EXCEPT ![n].high = Widened(n, q)]
      /\ UNCHANGED <<low, merge, acpi, given, nvs>>
      /\ Record(c, q, n, low[n].base + used[n])
  BY DEF RegisterMerged
<1>3. /\ used'[n] = used[n] + q.len
      /\ \A m \in Trap \ {n} : used'[m] = used[m]
      /\ \A m \in Trap : script'[m].low = script[m].low
  BY <1>0, <1>2 DEF RegistersOK, EntriesOK
<1>4. low[n].base + used[n] \in Nat
  BY <1>1
<1>5. \/ UNCHANGED <<live, rec>>
      \/ /\ live' = live \cup {c} /\ \A d \in live : rec'[d] = rec[d]
         /\ rec'[c].trap = n /\ rec'[c].address = low[n].base + used[n] /\ rec'[c].len = q.len
  BY <1>0, <1>2, <1>4, RecordProps
<1>6. given \in Nat
  BY <1>0, PoolAssumption DEF EntriesOK
<1>7. /\ \A m \in Trap \ {n} : TrapInv(m)'
      /\ \A d \in live' : rec'[d].trap # n => ChildInv(d)' /\ d \in live
      /\ \A e, d \in live' : rec'[e].trap # n =>
           (~merge[rec[e].trap] /\ rec[d].trap = rec[e].trap /\ e # d => Disjoint(e, d))'
  BY <1>2, <1>3, <1>5, <1>6, OthersKept
<1>8. TrapInv(n)'
  BY <1>1, <1>2, <1>3 DEF PoolInv, TrapInv, Pool, Free
<1>9. \A m, k \in Trap : (Pool(m) /\ Pool(k) /\ m # k => low[m].base # low[k].base)'
  BY <1>2 DEF PoolInv, Pool, Free
<1>10. ASSUME NEW d \in live', rec'[d].trap = n
       PROVE  /\ ChildInv(d)'
              /\ d # c => /\ d \in live /\ rec'[d] = rec[d]
                          /\ rec[d].address + rec[d].len <= low[n].base + used[n]
  <2>1. CASE d \in live
    <3>1. /\ rec'[d] = rec[d] /\ ChildInv(d) /\ d # c
          /\ rec[d].address \in Nat /\ rec[d].len \in Nat
      BY <1>0, <1>5, <2>1 DEF PoolInv, RecordsOK
    <3> QED
      BY <1>1, <1>2, <1>3, <1>10, <2>1, <3>1 DEF ChildInv, AtTop, Pool
  <2>2. CASE d \notin live
    <3>1. /\ d = c /\ rec'[c].trap = n /\ rec'[c].len = q.len
          /\ rec'[c].address = low[n].base + used[n]
      BY <1>5, <2>2
    <3>2. rec'[c].address + rec'[c].len # low[n].base + low[n].len
      BY <1>1, <3>1
    <3> QED
      BY <1>1, <1>2, <1>3, <3>1, <3>2 DEF ChildInv, AtTop
  <2> QED
    BY <2>1, <2>2
<1>11. ASSUME NEW e \in live', NEW d \in live', rec'[e].trap = n, rec'[d].trap = n, e # d
       PROVE  Disjoint(e, d)'
  <2>1. CASE e # c /\ d # c
    BY <1>1, <1>10, <1>11, <2>1 DEF PoolInv, Disjoint, Pool
  <2>2. CASE e = c \/ d = c
    <3>1. /\ rec'[c].address = low[n].base + used[n]
      BY <1>5, <1>11, <2>2
    <3> QED
      BY <1>10, <1>11, <2>2, <3>1 DEF Disjoint
  <2> QED
    BY <2>1, <2>2
<1> QED
  BY <1>7, <1>8, <1>9, <1>10, <1>11 DEF PoolInv

\* The last child of a register leaves none behind; no other child ends at the top.
LEMMA UnregisterPool ==
  ASSUME TypeInv, TypeInv', PoolInv, NEW c \in Child, Unregister(c)
  PROVE  PoolInv'
<1>0. RegistersOK /\ EntriesOK /\ RecordsOK
  BY DEF TypeInv, TypeOK
<1>t. PICK n \in Trap : n = rec[c].trap
  BY <1>0 DEF RecordsOK
<1>1. /\ c \in live /\ rec[c].trap = n /\ live' = live \ {c}
      /\ UNCHANGED <<used, given>> /\ \A d \in live' : rec'[d] = rec[d]
  BY <1>0, <1>t DEF Unregister, RecordsOK
<1>2. given \in Nat
  BY <1>0, PoolAssumption DEF EntriesOK
<1>3. /\ low[n].base \in Nat /\ low[n].len \in Nat
      /\ used[n] \in 0 .. PoolSize /\ PoolSize \in Nat
      /\ \A d \in live : rec[d].address \in Nat /\ rec[d].len \in Nat
  BY <1>0, <1>1, TrapAssumption DEF RegistersOK, LowType, EntriesOK, RecordsOK
<1>4. ~Free(n) /\ (~merge[n] => low[n].len = PoolSize)
  BY <1>1 DEF PoolInv, TrapInv, Pool
<1>5. CASE IsLastChild(c)
  <2>1. \A d \in live' : rec[d].trap # n
    <3> SUFFICES ASSUME NEW d \in live', rec[d].trap = n PROVE FALSE
      OBVIOUS
    <3>1. d \in live /\ d # c
      BY <1>1
    <3>2. CASE merge[n]
      BY <1>1, <3>1, <3>2 DEF PoolInv, TrapInv
    <3>3. CASE ~merge[n]
      <4>1. /\ low[n].base + low[n].len = rec[c].address + rec[c].len
            /\ low[n].base = rec[c].address
        BY <1>1, <1>5, <3>3 DEF IsLastChild, AtTop
      <4>2. Disjoint(c, d) /\ ChildInv(d)
        BY <1>1, <3>1, <3>3 DEF PoolInv
      <4>3. /\ rec[d].len > 0 /\ rec[d].address >= low[n].base
            /\ rec[d].address + rec[d].len <= low[n].base + used[n]
        BY <3>3, <4>2 DEF ChildInv
      <4>4. rec[d].address \in Nat /\ rec[d].len \in Nat /\ low[n].len = PoolSize
        BY <1>3, <1>4, <3>1, <3>3
      <4> QED
        BY <1>1, <1>3, <4>1, <4>2, <4>3, <4>4 DEF Disjoint
    <3> QED
      BY <3>2, <3>3
  <2>2. TurnOff(n)
    BY <1>1, <1>5 DEF Unregister
  <2>3. /\ low'[n] = Off /\ script'[n].low = Off /\ merge'[n] = FALSE /\ acpi'[n] = FALSE
        /\ nvs'[n] = AcpiFreed(n)
        /\ \A m \in Trap \ {n} :
             /\ low'[m] = low[m] /\ script'[m] = script[m] /\ merge'[m] = merge[m]
             /\ acpi'[m] = acpi[m] /\ nvs'[m] = nvs[m]
    BY <1>0, <1>1, <2>2 DEF TurnOff, SetSaved, RegistersOK, EntriesOK
  <2>4. nvs'[n].status # 1
    <3>1. nvs[n].status = 1 <=> acpi[n]
      BY DEF PoolInv, TrapInv
    <3>2. acpi[n] \in BOOLEAN /\ nvs[n] \in [status : {0, 1}, address : Nat]
      BY <1>0 DEF EntriesOK
    <3>3. acpi[n] => [nvs[n] EXCEPT !.status = 0].status = 0
      BY <3>2
    <3> QED
      BY <2>3, <3>1, <3>2, <3>3 DEF AcpiFreed
  <2>5. Free(n)' /\ ~Pool(n)'
    BY <2>3 DEF Free, Pool, Off
  <2>6. TrapInv(n)'
    BY <1>1, <2>1, <2>3, <2>4, <2>5 DEF TrapInv
  <2>7. given' = given /\ \A m \in Trap \ {n} : used'[m] = used[m]
    BY <1>1
  <2>8. live' \subseteq live
    BY <1>1
  <2>9. /\ \A m \in Trap \ {n} : TrapInv(m)'
        /\ \A d \in live' : rec'[d].trap # n => ChildInv(d)' /\ d \in live
        /\ \A m, k \in Trap \ {n} :
             (Pool(m) /\ Pool(k) /\ m # k => low[m].base # low[k].base)'
        /\ \A e, d \in live' : rec'[e].trap # n =>
             (~merge[rec[e].trap] /\ rec[d].trap = rec[e].trap /\ e # d => Disjoint(e, d))'
    BY <1>1, <1>2, <2>3, <2>7, <2>8, OthersKept
  <2>10. \A d \in live' : rec'[d].trap # n
    BY <1>1, <2>1
  <2> QED
    BY <2>5, <2>6, <2>9, <2>10 DEF PoolInv
<1>6. CASE ~IsLastChild(c)
  <2>1. ~AtTop(c)
    BY <1>1, <1>6 DEF IsLastChild, PoolInv, ChildInv
  <2>2. UNCHANGED <<regs, clear, merge, acpi, nvs>>
    BY <1>6, <2>1 DEF Unregister
  <2>3. live' \subseteq live
    BY <1>1
  <2>4. \A m \in Trap : /\ low'[m].base = low[m].base /\ low'[m].len = low[m].len
                       /\ script'[m].low.base = low[m].base
                       /\ script'[m].low.len = low[m].len
    BY <2>2 DEF PoolInv, TrapInv, regs
  <2> QED
    BY <1>1, <2>2, <2>3, <2>4, PoolUnchanged
<1> QED
  BY <1>5, <1>6

LEMMA NextPool ==
  ASSUME NoLowPorts, TypeInv, TypeInv', PoolInv, [Next]_vars
  PROVE  PoolInv'
<1>0. RegistersOK /\ EntriesOK /\ RecordsOK
  BY DEF TypeInv, TypeOK
<1>1. \A n \in Trap : script[n].low.base = low[n].base /\ script[n].low.len = low[n].len
  BY DEF PoolInv, TrapInv
<1>2. ASSUME NEW c \in Child, NEW q \in Requests, Register(c, q) PROVE PoolInv'
  <2>1. c \in Child \ live /\ Legal(q)
    BY <1>2 DEF Register
  <2>2. PICK n \in Trap : /\ IsFirst(q, n)
                          /\ \/ RegisterOwn(c, q, n)
                             \/ RegisterPool(c, q, n)
                             \/ RegisterMerged(c, q, n)
    BY <1>2 DEF Register
  <2>3. RegisterMerged(c, q, n) => HasSpace(q, n)
    BY <2>2 DEF RegisterMerged, IsFirst, Suits
  <2> QED
    BY <2>1, <2>2, <2>3, OwnPool, NewPool, MergedPool
<1>3. ASSUME NEW c \in Child, Unregister(c) PROVE PoolInv'
  BY <1>3, UnregisterPool
<1>4. ASSUME NEW c \in Child, Pause(c) \/ Resume(c) PROVE PoolInv'
  <2>1. OnlyTse
    BY <1>4, ControlType
  <2>2. UNCHANGED <<script, used, merge, acpi, given, nvs, live, rec>>
    BY <1>4 DEF Pause, Resume, entry
  <2> QED
    BY <1>1, <2>1, <2>2, PoolUnchanged DEF OnlyTse
<1>5. CASE Handler
  <2>1. UNCHANGED <<regs, entry, live>> /\ \A c \in live : rec'[c] = rec[c]
    BY <1>5, HandlerType
  <2> QED
    BY <1>1, <2>1, PoolUnchanged DEF regs, entry
<1>6. CASE S3Resume
  <2>1. /\ UNCHANGED <<script, used, merge, acpi, given, nvs, live, rec>>
        /\ \A n \in Trap : low'[n] = script[n].low
    BY <1>6 DEF S3Resume, entry, Restored
  <2> QED
    BY <1>1, <2>1, PoolUnchanged
<1>7. CASE (\E cy \in Cycles : Access(cy)) \/ ReadyToLock \/ UNCHANGED vars
  <2>1. UNCHANGED <<regs, entry, recs>>
    BY <1>7 DEF Access, ReadyToLock, vars
  <2> QED
    BY <1>1, <2>1, PoolUnchanged DEF regs, entry, recs
<1> QED
  BY <1>2, <1>3, <1>4, <1>5, <1>6, <1>7 DEF Next, Client

LEMMA PoolInvariant == ASSUME NoLowPorts PROVE Spec => [](TypeInv /\ PoolInv)
<1>1. Init => TypeInv /\ PoolInv
  BY InitType, InitPool
<1>2. TypeInv /\ PoolInv /\ [Next]_vars => TypeInv' /\ PoolInv'
  BY NextType, NextPool
<1> QED
  BY <1>1, <1>2, PTL DEF Spec

\* Two ranges GCD gave are a whole range apart.
LEMMA RangesApart ==
  ASSUME TypeInv, PoolInv, NEW n \in Trap, NEW m \in Trap, Pool(n), Pool(m), n # m
  PROVE  \/ low[n].base + PoolSize <= low[m].base
         \/ low[m].base + PoolSize <= low[n].base
<1>1. PICK i \in 1 .. given : low[n].base = PoolBases[i]
  BY DEF PoolInv, TrapInv
<1>2. PICK j \in 1 .. given : low[m].base = PoolBases[j]
  BY DEF PoolInv, TrapInv
<1>3. low[n].base # low[m].base
  BY DEF PoolInv
<1>4. i \in 1 .. Len(PoolBases) /\ j \in 1 .. Len(PoolBases)
  BY PoolAssumption DEF TypeInv, TypeOK, EntriesOK
<1>5. i < j \/ j < i
  BY <1>1, <1>2, <1>3, <1>4
<1> QED
  BY <1>1, <1>2, <1>4, <1>5, PoolAssumption

\* Addresses given out of shared ranges never overlap, however many ranges and children
\* there are and whatever the requests, as long as none asks for one of the first three
\* ports.
THEOREM SharedRangesDisjoint == ASSUME NoLowPorts PROVE Spec => []PoolDisjoint
<1>1. ASSUME TypeInv, PoolInv PROVE PoolDisjoint
  <2>0. RegistersOK /\ EntriesOK /\ RecordsOK
    BY <1>1 DEF TypeInv, TypeOK
  <2>1. ASSUME NEW c \in live, Shared(c)
        PROVE  LET n == rec[c].trap
               IN  /\ n \in Trap /\ Pool(n) /\ low[n].len = PoolSize
                   /\ low[n].base \in Nat /\ used[n] \in 0 .. PoolSize
                   /\ rec[c].address \in Nat /\ rec[c].len \in Nat
                   /\ rec[c].address >= low[n].base
                   /\ rec[c].address + rec[c].len <= low[n].base + used[n]
                   /\ AtTop(c) => rec[c].address = low[n].base
    <3> DEFINE n == rec[c].trap
    <3>1. /\ n \in Trap /\ rec[c].address \in Nat /\ rec[c].len \in Nat
      BY <2>0 DEF RecordsOK
    <3>2. Pool(n) /\ low[n].len = PoolSize
      BY <1>1, <2>1, <3>1 DEF PoolInv, TrapInv, Pool, Shared
    <3>3. low[n].base \in Nat /\ used[n] \in 0 .. PoolSize
      BY <2>0, <3>1 DEF RegistersOK, EntriesOK, LowType
    <3> QED
      BY <1>1, <2>1, <3>1, <3>2, <3>3 DEF PoolInv, ChildInv, Shared
  <2>2. ASSUME NEW c \in live, NEW d \in live, Shared(c), Shared(d), c # d
        PROVE  Disjoint(c, d)
    <3>1. CASE rec[c].trap = rec[d].trap
      BY <1>1, <2>2, <3>1 DEF PoolInv, Shared
    <3>2. CASE rec[c].trap # rec[d].trap
      <4> DEFINE n == rec[c].trap
                 k == rec[d].trap
      <4>1. /\ n \in Trap /\ Pool(n) /\ low[n].base \in Nat /\ used[n] \in 0 .. PoolSize
            /\ rec[c].address \in Nat /\ rec[c].len \in Nat /\ rec[c].address >= low[n].base
            /\ rec[c].address + rec[c].len <= low[n].base + used[n]
        BY <2>1, <2>2
      <4>2. /\ k \in Trap /\ Pool(k) /\ low[k].base \in Nat /\ used[k] \in 0 .. PoolSize
            /\ rec[d].address \in Nat /\ rec[d].len \in Nat /\ rec[d].address >= low[k].base
            /\ rec[d].address + rec[d].len <= low[k].base + used[k]
        BY <2>1, <2>2
      <4>3. PoolSize \in Nat
        BY TrapAssumption
      <4>4. \/ low[n].base + PoolSize <= low[k].base
            \/ low[k].base + PoolSize <= low[n].base
        BY <1>1, <3>2, <4>1, <4>2, RangesApart
      <4> HIDE DEF n, k
      <4> QED
        BY <4>1, <4>2, <4>3, <4>4 DEF Disjoint
    <3> QED
      BY <3>1, <3>2
  <2> QED
    BY <2>1, <2>2 DEF PoolDisjoint, Disjoint
<1> QED
  BY <1>1, PoolInvariant, PTL

\* ACPI is told of the shared ranges in use, with their addresses, and of nothing else.
THEOREM AcpiAgrees == ASSUME NoLowPorts PROVE Spec => []AcpiReportsPools
<1>1. TypeInv /\ PoolInv => AcpiReportsPools
  BY DEF PoolInv, TrapInv, Pool, AcpiReportsPools
<1> QED
  BY <1>1, PoolInvariant, PTL

-----------------------------------------------------------------------------
(***************************************************************************)
(* No storm                                                                *)
(***************************************************************************)

\* A status is pending at a register that is off only while a service has yet to clear it.
StormInv == \A n \in pending : low[n].tse \/ clear = n

LEMMA NextStorm ==
  ASSUME TypeInv, StormInv, [Next]_vars
  PROVE  StormInv'
<1>0. RegistersOK /\ RecordsOK /\ pending \subseteq Trap
  BY DEF TypeInv, TypeOK, RegistersOK
<1>n. None \notin Trap
  BY TrapAssumption DEF Trap
<1>1. ASSUME NEW c \in Child, NEW q \in Requests, Register(c, q) PROVE StormInv'
  <2>1. /\ clear = None /\ clear' = None
    BY <1>1 DEF Register, MayCall
  <2>2. \A m \in pending : low[m].tse
    BY <1>0, <1>n, <2>1 DEF StormInv
  <2>3. PICK n \in Trap : \/ RegisterOwn(c, q, n)
                          \/ RegisterPool(c, q, n)
                          \/ RegisterMerged(c, q, n)
    BY <1>1 DEF Register
  <2>4. \/ UNCHANGED <<low, pending>>
        \/ pending' = pending \ {n} /\ \A m \in Trap \ {n} : low'[m] = low[m]
    BY <1>0, <2>3
       DEF RegisterOwn, RegisterPool, RegisterMerged, TakesFree, SetSaved, RegistersOK
  <2> QED
    BY <1>0, <2>2, <2>4 DEF StormInv
<1>2. ASSUME NEW c \in Child, Unregister(c) PROVE StormInv'
  <2>1. /\ clear = None /\ pending' = pending /\ c \in live
    BY <1>2 DEF Unregister, MayCall, hw
  <2>2. \A m \in pending : low[m].tse
    BY <1>0, <1>n, <2>1 DEF StormInv
  <2>3. PICK n \in Trap : n = rec[c].trap
    BY <1>0, <2>1 DEF RecordsOK
  <2>4. CASE TurnOff(n)
    <3>1. clear' = n /\ \A m \in Trap \ {n} : low'[m] = low[m]
      BY <1>0, <2>4 DEF TurnOff, SetSaved, RegistersOK
    <3> QED
      BY <1>0, <2>1, <2>2, <3>1 DEF StormInv
  <2>5. CASE CutTop(c)
    <3>1. \A m \in Trap : low'[m].tse = TRUE \/ low'[m] = low[m]
      BY <1>0, <2>5 DEF CutTop, RegistersOK, LowOf
    <3> QED
      BY <1>0, <2>1, <2>2, <3>1 DEF StormInv
  <2>6. CASE UNCHANGED regs
    BY <2>1, <2>2, <2>6 DEF StormInv, regs
  <2> QED
    BY <1>2, <2>3, <2>4, <2>5, <2>6 DEF Unregister, regs
<1>3. ASSUME NEW c \in Child, Pause(c) \/ Resume(c) PROVE StormInv'
  <2>1. /\ clear = None /\ pending' = pending
    BY <1>3 DEF Pause, Resume, MayCall, hw
  <2>2. PICK n \in Trap : \/ low' = [low EXCEPT ![n].tse = FALSE] /\ clear' = n
                          \/ low' = [low EXCEPT ![n].tse = TRUE]
    BY <1>3 DEF Pause, Resume
  <2>3. /\ low'[n].tse = TRUE \/ clear' = n
        /\ \A m \in Trap \ {n} : low'[m] = low[m]
    BY <1>0, <2>2, PauseResumeProps
  <2> QED
    BY <1>0, <1>n, <2>1, <2>3 DEF StormInv
<1>4. CASE ClearPendingIoTrapStatus
  BY <1>4 DEF ClearPendingIoTrapStatus, Cleared, StormInv, regs
<1>5. CASE Handler /\ ~ClearPendingIoTrapStatus
  <2>1. /\ UNCHANGED <<low, clear>> /\ pending' \subseteq pending
    BY <1>5 DEF Handler, Dispatch, DispatchesNothing, CallsOther, Return, regs, hw
  <2> QED
    BY <2>1 DEF StormInv
<1>6. ASSUME NEW cy \in Cycles, Access(cy) PROVE StormInv'
  BY <1>6 DEF Access, Traps, StormInv, regs
<1>7. CASE S3Resume
  BY <1>7 DEF S3Resume, StormInv, hw
<1>8. CASE ReadyToLock \/ UNCHANGED vars
  BY <1>8 DEF ReadyToLock, vars, StormInv, regs, hw
<1> QED
  BY <1>1, <1>2, <1>3, <1>4, <1>5, <1>6, <1>7, <1>8 DEF Next, Client, Handler

\* No trap is left whose status keeps the SMI asserted while nothing would be dispatched
\* for it: whoever turns a register off clears its status before anything else happens.
THEOREM NeverStorms == Spec => []NoStorm
<1>1. Init => StormInv
  BY DEF Init, StormInv
<1>2. TypeInv /\ StormInv /\ [Next]_vars => StormInv'
  BY NextStorm
<1>3. TypeInv /\ StormInv => NoStorm
  BY TrapAssumption DEF TypeInv, TypeOK, RegistersOK, StormInv, NoStorm, Trap
<1> QED
  BY <1>1, <1>2, <1>3, TypeInvariant, PTL DEF Spec

-----------------------------------------------------------------------------
(***************************************************************************)
(* A request and the register programmed for it                            *)
(***************************************************************************)

LEMMA BytesBounds ==
  ASSUME NEW a \in Nat, NEW len \in Nat, len > 0
  PROVE  Min(Bytes(a, len)) = a /\ Max(Bytes(a, len)) = a + len - 1 /\ Bytes(a, len) # {}
<1>1. /\ a \in Bytes(a, len) /\ a + len - 1 \in Bytes(a, len)
      /\ \A x \in Bytes(a, len) : x \in Nat /\ a <= x /\ x <= a + len - 1
  BY DEF Bytes
<1>2. Min(Bytes(a, len)) \in Bytes(a, len)
      /\ \A y \in Bytes(a, len) : Min(Bytes(a, len)) =< y
  BY <1>1 DEF Min
<1>3. Max(Bytes(a, len)) \in Bytes(a, len)
      /\ \A y \in Bytes(a, len) : Max(Bytes(a, len)) >= y
  BY <1>1 DEF Max
<1>4. Min(Bytes(a, len)) = a
  BY <1>1, <1>2
<1>5. Max(Bytes(a, len)) = a + len - 1
  BY <1>1, <1>3
<1> QED
  BY <1>1, <1>4, <1>5

LEMMA InBytes ==
  ASSUME NEW a \in Int, NEW len \in Int, NEW x \in Int
  PROVE  x \in Bytes(a, len) <=> a <= x /\ x < a + len
BY DEF Bytes

LEMMA DwordOf ==
  ASSUME NEW a \in Nat
  PROVE  /\ a % 4 \in 0 .. 3 /\ a - (a % 4) \in Nat /\ (a - (a % 4)) % 4 = 0
         /\ a = (a - (a % 4)) + (a % 4)
<1>1. a % 4 \in 0 .. 3 /\ a - (a % 4) \in Nat
  OBVIOUS
<1>2. PICK i \in Nat : a - (a % 4) = 4 * i
  <2>1. a = 4 * (a \div 4) + (a % 4) /\ a \div 4 \in Nat
    OBVIOUS
  <2> QED
    BY <1>1, <2>1
<1>3. (4 * i) % 4 = 0
  OBVIOUS
<1> QED
  BY <1>1, <1>2, <1>3

\* Whole dwords in a range of them, and a dword that has some of the bytes of another.
LEMMA DwordFits ==
  ASSUME NEW a \in Nat, NEW len \in Nat, NEW x \in Nat, NEW l \in 0 .. 3,
         a % 4 = 0, len % 4 = 0, x % 4 = 0
  PROVE  /\ a <= x /\ x < a + len => a <= x + l /\ x + l < a + len
         /\ a <= x + l /\ x + l < a + len => a <= x /\ x < a + len
<1>1. PICK i \in Nat : a = 4 * i
  OBVIOUS
<1>2. PICK j \in Nat : len = 4 * j
  OBVIOUS
<1>3. PICK k \in Nat : x = 4 * k
  OBVIOUS
<1> QED
  BY <1>1, <1>2, <1>3

LEMMA SameDword ==
  ASSUME NEW a \in Nat, NEW x \in Nat, NEW l \in 0 .. 3, NEW at \in 0 .. 3, NEW len \in Nat,
         a % 4 = 0, x % 4 = 0, at + len <= 4,
         a + at <= x + l, x + l < a + at + len
  PROVE  x = a
<1>1. PICK i \in Nat : a = 4 * i
  OBVIOUS
<1>2. PICK k \in Nat : x = 4 * k
  OBVIOUS
<1> QED
  BY <1>1, <1>2

\* The register of a child of its own.
OwnLow(q)  == LowOf(q.address, q.len)
OwnHigh(q) == HighOf(q, q.len)
At(q) == q.address % 4

LEMMA LegalProps ==
  ASSUME NEW q \in Requests, Legal(q)
  PROVE  /\ q.address \in Nat /\ q.len \in Nat /\ q.len > 0 /\ At(q) \in 0 .. 3
         /\ OwnLow(q).base \in Nat /\ OwnLow(q).base % 4 = 0
         /\ q.address = OwnLow(q).base + At(q)
         /\ OwnHigh(q).types = TypesOf(q.type)
<1>1. q.address \in Nat /\ q.len \in mLengthTable
  BY RequestAssumption DEF Legal
<1>2. q.len \in Nat /\ q.len > 0
  BY <1>1 DEF mLengthTable
<1>3. OwnLow(q).base = q.address - At(q)
  BY DEF OwnLow, LowOf, At
<1>4. At(q) \in 0 .. 3 /\ q.address - At(q) \in Nat /\ (q.address - At(q)) % 4 = 0
      /\ q.address = (q.address - At(q)) + At(q)
  BY <1>1, DwordOf DEF At
<1>5. OwnHigh(q).types = TypesOf(q.type)
  BY DEF OwnHigh, HighOf
<1> QED
  BY <1>1, <1>2, <1>3, <1>4, <1>5

\* A short request is told by the mask.
LEMMA ShortProps ==
  ASSUME NEW q \in Requests, Legal(q), q.len < 4
  PROVE  /\ ~q.ex /\ At(q) + q.len <= 4 /\ OwnLow(q).len = 4
         /\ OwnHigh(q).be = {} /\ OwnHigh(q).bem = Bytes(At(q), q.len)
         /\ OwnHigh(q).bem # Lanes
         /\ LowBitSet(OwnHigh(q).bem) = At(q)
         /\ HighBitSet(OwnHigh(q).bem) = At(q) + q.len - 1
<1>1. /\ q.len \in Nat /\ q.len > 0 /\ At(q) \in 0 .. 3 /\ At(q) \in Nat
      /\ q.ex \in BOOLEAN
  BY LegalProps, RequestAssumption
<1>2. At(q) + q.len <= 4
  BY DEF Legal, At
<1>3. ~q.ex
  <2>1. q.ex => q.len >= 4
    BY DEF Legal
  <2> QED
    BY <1>1, <2>1
<1>4. OwnLow(q).len = 4
  <2>1. q.len \in {1, 2, 3}
    BY <1>1
  <2> QED
    BY <2>1 DEF OwnLow, LowOf, RoundUp
<1>5. OwnHigh(q).be = {} /\ OwnHigh(q).bem = Bytes(At(q), q.len)
  BY DEF OwnHigh, HighOf, At
<1>6. /\ Min(Bytes(At(q), q.len)) = At(q) /\ Max(Bytes(At(q), q.len)) = At(q) + q.len - 1
      /\ Bytes(At(q), q.len) # {}
  BY <1>1, BytesBounds
<1>7. Bytes(At(q), q.len) # Lanes
  <2>1. At(q) = 0 => 3 \notin Bytes(At(q), q.len) /\ 3 \in Lanes
    BY <1>1 DEF Bytes, Lanes
  <2>2. At(q) # 0 => 0 \notin Bytes(At(q), q.len) /\ 0 \in Lanes
    BY <1>1 DEF Bytes, Lanes
  <2> QED
    BY <2>1, <2>2
<1> QED
  BY <1>2, <1>3, <1>4, <1>5, <1>6, <1>7 DEF LowBitSet, HighBitSet

\* A longer one is aligned.
LEMMA LongProps ==
  ASSUME NEW q \in Requests, Legal(q), ~(q.len < 4)
  PROVE  /\ At(q) = 0 /\ q.len % 4 = 0
         /\ OwnLow(q).base = q.address /\ OwnLow(q).len = q.len
         /\ OwnHigh(q).be = q.be /\ OwnHigh(q).bem = q.bem
<1>1. q.address \in Nat /\ q.len \in {4, 8, 16, 32, 64, 128, 256} /\ q.address % q.len = 0
  BY RequestAssumption DEF Legal, mLengthTable
<1>2. q.len % 4 = 0 /\ RoundUp(q.len) = q.len
  BY <1>1 DEF RoundUp
<1>3. At(q) = 0
  <2>1. ASSUME NEW k \in {4, 8, 16, 32, 64, 128, 256}, q.address % k = 0
        PROVE  q.address % 4 = 0
    BY <1>1, <2>1
  <2> QED
    BY <1>1, <2>1 DEF At
<1>4. OwnLow(q).base = q.address
  BY <1>3, LegalProps
<1> QED
  BY <1>2, <1>3, <1>4 DEF OwnLow, LowOf, OwnHigh, HighOf

\* The bytes of the cycle, or its dword and enabled bytes, are what q asks for.
Asks(q, cy) ==
  IF q.ex
  THEN /\ cy.address \in Bytes(q.address, q.len)
       /\ \A l \in Lanes \ q.bem : l \in cy.bytes <=> l \in q.be
  ELSE CycleBytes(cy) \subseteq Bytes(q.address, q.len)

\* The register of a child of its own traps just what the child asks for.
LEMMA AskedIffTrapped ==
  ASSUME NEW q \in Requests, Legal(q), NEW cy \in Cycles
  PROVE  Asks(q, cy) <=>
           /\ cy.address \in Bytes(OwnLow(q).base, OwnLow(q).len)
           /\ \A l \in Lanes \ OwnHigh(q).bem : l \in cy.bytes <=> l \in OwnHigh(q).be
<1> DEFINE Near == cy.address \in Bytes(OwnLow(q).base, OwnLow(q).len)
           Lane == \A l \in Lanes \ OwnHigh(q).bem : l \in cy.bytes <=> l \in OwnHigh(q).be
           base == OwnLow(q).base
           x == cy.address
<1>1. /\ q.address \in Nat /\ q.len \in Nat /\ At(q) \in 0 .. 3
      /\ base \in Nat /\ base % 4 = 0 /\ q.address = base + At(q)
  BY LegalProps
<1>2. x \in Nat /\ x % 4 = 0
  BY RequestAssumption
<1>i. /\ x \in Int /\ q.address \in Int /\ q.len \in Int
      /\ \A l \in 0 .. 3 : x + l \in Int
  <2>1. x \in Nat /\ q.address \in Nat /\ q.len \in Nat
    BY RequestAssumption
  <2> HIDE DEF x
  <2> QED
    BY <2>1
<1>3. cy.bytes \subseteq 0 .. 3 /\ cy.bytes # {}
  BY RequestAssumption DEF Lanes
<1>4. CycleBytes(cy) \subseteq Bytes(q.address, q.len)
      <=> \A l \in cy.bytes : x + l \in Bytes(q.address, q.len)
  BY DEF CycleBytes
<1>5. \A l \in cy.bytes : x + l \in Bytes(q.address, q.len)
                          <=> q.address <= x + l /\ x + l < q.address + q.len
  <2>1. ASSUME NEW l \in cy.bytes PROVE x + l \in Int /\ q.address \in Int /\ q.len \in Int
    BY <1>3, <1>i
  <2> HIDE DEF x
  <2> QED
    BY <2>1, InBytes
<1>6. CASE q.ex
  <2>1. ~(q.len < 4)
    BY <1>1, <1>6, ShortProps
  <2>2. /\ OwnLow(q).base = q.address /\ OwnLow(q).len = q.len
        /\ OwnHigh(q).be = q.be /\ OwnHigh(q).bem = q.bem
    BY <2>1, LongProps
  <2> QED
    BY <1>6, <2>2 DEF Asks
<1>7. CASE ~q.ex /\ ~(q.len < 4)
  <2>1. /\ OwnLow(q).base = q.address /\ OwnLow(q).len = q.len /\ q.len % 4 = 0
        /\ OwnHigh(q).bem = Lanes
    BY <1>7, LongProps, RequestAssumption
  <2>2. Lane
    BY <2>1
  <2>3. Near <=> q.address <= x /\ x < q.address + q.len
    BY <1>i, <2>1, InBytes
  <2>4. q.address % 4 = 0
    BY <1>1, <2>1
  <2> HIDE DEF Near, Lane, base, x
  <2>5. ASSUME NEW l \in cy.bytes
        PROVE  q.address <= x /\ x < q.address + q.len
               <=> q.address <= x + l /\ x + l < q.address + q.len
    <3>1. l \in 0 .. 3
      BY <1>3
    <3> QED
      BY <1>1, <1>2, <2>1, <2>4, <3>1, DwordFits
  <2>6. PICK l \in cy.bytes : TRUE
    BY <1>3
  <2>7. Near <=> CycleBytes(cy) \subseteq Bytes(q.address, q.len)
    BY <1>4, <1>5, <2>3, <2>5, <2>6
  <2> QED
    BY <1>7, <2>2, <2>7 DEF Asks, Near, Lane
<1>8. CASE ~q.ex /\ q.len < 4
  <2>1. /\ At(q) + q.len <= 4 /\ OwnLow(q).len = 4
        /\ OwnHigh(q).be = {} /\ OwnHigh(q).bem = Bytes(At(q), q.len)
    BY <1>8, ShortProps
  <2>2. Near <=> base <= x /\ x < base + 4
    BY <1>1, <1>2, <2>1, InBytes
  <2>3. Lane <=> \A l \in cy.bytes : At(q) <= l /\ l < At(q) + q.len
    <3>1. Lane <=> \A l \in cy.bytes : l \in Bytes(At(q), q.len)
      BY <1>3, <2>1 DEF Lanes
    <3>2. \A l \in cy.bytes : l \in Bytes(At(q), q.len)
                              <=> At(q) <= l /\ l < At(q) + q.len
      BY <1>1, <1>3, InBytes
    <3> HIDE DEF Lane
    <3> QED
      BY <3>1, <3>2
  <2> HIDE DEF Near, Lane, base, x
  <2>4. ASSUME Near, Lane, NEW l \in cy.bytes
        PROVE  q.address <= x + l /\ x + l < q.address + q.len
    <3>1. x = base
      <4>1. base <= x /\ x < base + 4
        BY <2>2, <2>4
      <4> QED
        BY <1>1, <1>2, <4>1
    <3>2. At(q) <= l /\ l < At(q) + q.len /\ l \in 0 .. 3
      BY <1>3, <2>3, <2>4
    <3> HIDE DEF At
    <3> QED
      BY <1>1, <1>2, <3>1, <3>2
  <2>5. ASSUME \A l \in cy.bytes : q.address <= x + l /\ x + l < q.address + q.len
        PROVE  Near /\ Lane
    <3>1. x = base
      <4>1. PICK l \in cy.bytes : TRUE
        BY <1>3
      <4>2. l \in 0 .. 3 /\ base + At(q) <= x + l /\ x + l < base + At(q) + q.len
        BY <1>1, <1>3, <2>5
      <4> QED
        BY <1>1, <1>2, <2>1, <4>2, SameDword
    <3>2. ASSUME NEW l \in cy.bytes PROVE At(q) <= l /\ l < At(q) + q.len
      <4>1. l \in 0 .. 3 /\ base + At(q) <= base + l /\ base + l < base + At(q) + q.len
        BY <1>1, <1>3, <2>5, <3>1
      <4> QED
        BY <1>1, <4>1
    <3>3. base <= x /\ x < base + 4
      BY <1>1, <3>1
    <3> QED
      BY <2>2, <2>3, <3>2, <3>3
  <2>6. (Near /\ Lane) <=> CycleBytes(cy) \subseteq Bytes(q.address, q.len)
    BY <1>4, <1>5, <2>4, <2>5
  <2> QED
    BY <1>8, <2>6 DEF Asks, Near, Lane
<1>9. q.ex \in BOOLEAN
  BY RequestAssumption
<1> QED
  BY <1>6, <1>7, <1>8, <1>9

\* What a register with these contents seems to be for (RangeOf), and what it seems to
\* be for if it is programmed for q.
SeemsFor(base, len, bem) ==
  IF bem = Lanes THEN <<base, len>>
  ELSE <<base + LowBitSet(bem), HighBitSet(bem) - LowBitSet(bem) + 1>>
Seems(q) == SeemsFor(q.address, q.len, q.bem)

\* Pause and Resume look for a register by its contents, and take the byte enables of an
\* Ex trap for a range. No such range is one that somebody else asks for or is given.
NoLookalikes ==
  \A q \in Requests : q.ex /\ q.bem # Lanes =>
    /\ \A r \in Requests : Seems(q) # <<r.address, r.len>>
    /\ \A i \in 1 .. Len(PoolBases) : Seems(q)[1] \notin Bytes(PoolBases[i], PoolSize)

\* r is the record of a child with a register of its own, or of one in a shared range.
OwnRecord(r) ==
  \E p \in Requests : /\ p.address # 0 /\ Legal(p)
                      /\ r.address = p.address /\ r.len = p.len
                      /\ r.ex = p.ex /\ r.be = p.be /\ r.bem = p.bem
PoolRecord(r) ==
  ~r.ex /\ \E i \in 1 .. Len(PoolBases) : r.address \in Bytes(PoolBases[i], PoolSize)

\* Then a register that matches a child has been programmed for the child's range.
LEMMA MatchesSame ==
  ASSUME NoLookalikes, NEW q \in Requests, Legal(q), NEW r, OwnRecord(r) \/ PoolRecord(r),
         LET lo == OwnLow(q)
             hi == OwnHigh(q)
         IN  \/ r.ex /\ r.address = lo.base /\ r.len = lo.len /\ r.be = hi.be /\ r.bem = hi.bem
             \/ SeemsFor(lo.base, lo.len, hi.bem) = <<r.address, r.len>>
  PROVE  r.address = q.address /\ r.len = q.len
<1> DEFINE lo == OwnLow(q)
           hi == OwnHigh(q)
           at == At(q)
<1>1. /\ q.address \in Nat /\ q.len \in Nat /\ at \in 0 .. 3
      /\ q.address = lo.base + at /\ lo.base \in Nat
      /\ q.len < 4 => /\ lo.len = 4 /\ ~q.ex
                      /\ hi.be = {} /\ hi.bem # Lanes
                      /\ LowBitSet(hi.bem) = at
                      /\ HighBitSet(hi.bem) = at + q.len - 1
      /\ ~(q.len < 4) => lo.base = q.address /\ lo.len = q.len /\ hi.bem = q.bem
  BY LegalProps, ShortProps, LongProps
<1>2. ~q.ex => q.bem = Lanes
  BY RequestAssumption
<1>3. /\ r.ex /\ r.address = lo.base /\ r.len = lo.len /\ r.bem = hi.bem
      \/ SeemsFor(lo.base, lo.len, hi.bem) = <<r.address, r.len>>
  OBVIOUS
<1> HIDE DEF lo, hi, at
<1>4. CASE q.len < 4
  <2>1. /\ lo.base \in Int /\ at \in Int
        /\ lo.base + at = q.address /\ at + q.len - 1 - at + 1 = q.len
    BY <1>1 DEF Lanes
  <2>2. SeemsFor(lo.base, lo.len, hi.bem) = <<q.address, q.len>>
    BY <1>1, <1>4, <2>1 DEF SeemsFor
  <2>3. CASE r.ex /\ r.address = lo.base /\ r.len = lo.len /\ r.bem = hi.bem
    <3>1. PICK p \in Requests : p.address = r.address /\ p.len = r.len /\ p.ex /\ p.bem = r.bem
      BY <2>3 DEF OwnRecord, PoolRecord
    <3>2. p.bem # Lanes /\ Seems(p) = <<q.address, q.len>>
      BY <1>1, <1>4, <2>1, <2>2, <2>3, <3>1 DEF Seems, SeemsFor
    <3> QED
      BY <3>1, <3>2 DEF NoLookalikes
  <2> QED
    BY <1>3, <2>2, <2>3
<1>5. CASE ~(q.len < 4)
  <2>1. SeemsFor(lo.base, lo.len, hi.bem) = Seems(q)
    BY <1>1, <1>5 DEF Seems
  <2>2. CASE r.ex /\ r.address = lo.base /\ r.len = lo.len
    BY <1>1, <1>5, <2>2
  <2>3. CASE Seems(q) = <<r.address, r.len>>
    <3>1. CASE q.bem = Lanes
      BY <2>3, <3>1 DEF Seems, SeemsFor
    <3>2. CASE q.bem # Lanes
      <4>1. q.ex
        BY <1>2, <3>2
      <4>2. ~OwnRecord(r)
        BY <2>3, <3>2, <4>1 DEF NoLookalikes, OwnRecord
      <4>3. Seems(q)[1] = r.address
        BY <2>3
      <4>4. ~PoolRecord(r)
        BY <3>2, <4>1, <4>3 DEF NoLookalikes, PoolRecord
      <4> QED
        BY <4>2, <4>4
    <3> QED
      BY <3>1, <3>2
  <2> QED
    BY <1>3, <2>1, <2>2, <2>3
<1> QED
  BY <1>1, <1>4, <1>5

\* The register programmed for a child of its own matches it.
LEMMA MatchesItself ==
  ASSUME NEW q \in Requests, Legal(q)
  PROVE  LET lo == OwnLow(q)
             hi == OwnHigh(q)
         IN  \/ /\ q.ex /\ q.address = lo.base /\ q.len = lo.len
                /\ q.be = hi.be /\ q.bem = hi.bem
             \/ SeemsFor(lo.base, lo.len, hi.bem) = <<q.address, q.len>>
<1> DEFINE lo == OwnLow(q)
           hi == OwnHigh(q)
           at == At(q)
<1>1. /\ q.address \in Nat /\ q.len \in Nat /\ at \in 0 .. 3
      /\ q.address = lo.base + at /\ lo.base \in Nat
      /\ q.len < 4 => /\ hi.bem # Lanes
                      /\ LowBitSet(hi.bem) = at
                      /\ HighBitSet(hi.bem) = at + q.len - 1
      /\ ~(q.len < 4) => /\ lo.base = q.address /\ lo.len = q.len
                       /\ hi.be = q.be /\ hi.bem = q.bem
  BY LegalProps, ShortProps, LongProps
<1>2. ~q.ex => q.bem = Lanes
  BY RequestAssumption
<1> HIDE DEF lo, hi, at
<1>4. CASE q.len < 4
  <2>1. /\ lo.base \in Int /\ at \in Int
        /\ lo.base + at = q.address /\ at + q.len - 1 - at + 1 = q.len
    BY <1>1 DEF Lanes
  <2>2. SeemsFor(lo.base, lo.len, hi.bem) = <<q.address, q.len>>
    BY <1>1, <1>4, <2>1 DEF SeemsFor
  <2> QED
    BY <2>2 DEF lo, hi
<1>5. CASE ~(q.len < 4)
  <2>1. q.ex \/ SeemsFor(lo.base, lo.len, hi.bem) = <<q.address, q.len>>
    BY <1>1, <1>2, <1>5 DEF SeemsFor
  <2> QED
    BY <1>1, <1>5, <2>1 DEF lo, hi
<1> QED
  BY <1>1, <1>4, <1>5
-----------------------------------------------------------------------------
(***************************************************************************)
(* What registering and unregistering do to the registers                  *)
(***************************************************************************)

\* The record of a child q registered that was given an address.
RecordAt(q, n, address) ==
  [address |-> address, len |-> q.len, type |-> q.type,
   ex |-> q.ex, be |-> q.be, bem |-> q.bem, trap |-> n]

LEMMA RecordHolds ==
  ASSUME RecordsOK, NEW c \in Child \ live, NEW q \in Requests, NEW n \in Trap,
         NEW address \in Nat, Record(c, q, n, address)
  PROVE  /\ paused' = paused
         /\ twins \cup Same(address, q.len) \subseteq twins'
         /\ \/ UNCHANGED <<live, rec>>
            \/ /\ live' = live \cup {c}
               /\ \A d \in live : rec'[d] = rec[d]
               /\ rec'[c] = RecordAt(q, n, address)
               /\ Same(address, q.len) # {} => c \in twins'
<1>1. CASE /\ live' = live \cup {c}
           /\ rec'  = [rec EXCEPT ![c] = RecordAt(q, n, address)]
           /\ twins' = twins \cup Same(address, q.len) \cup
                       IF Same(address, q.len) # {} \/ LeftOn(address, q.len) THEN {c} ELSE {}
           /\ paused' = paused
  BY <1>1 DEF RecordsOK
<1>2. CASE twins' = twins \cup Same(address, q.len) /\ UNCHANGED <<live, rec, paused>>
  BY <1>2
<1> QED
  BY <1>1, <1>2 DEF Record, RecordAt

\* A register taken for a child of its own, taken for a range, or shared by one more.
TakenOwn(q, n, address) ==
  /\ q.address # 0 /\ Free(n) /\ address = q.address
  /\ low'[n] = OwnLow(q) /\ high'[n] = OwnHigh(q) /\ merge'[n] = TRUE
  /\ script'[n] = [low |-> OwnLow(q), high |-> OwnHigh(q)]
  /\ pending' = pending \ {n}
TakenPool(q, n, address) ==
  /\ q.address = 0 /\ Free(n)
  /\ low'[n] = LowOf(address, PoolSize) /\ high'[n] = HighOf(q, PoolSize) /\ merge'[n] = FALSE
  /\ script'[n] = [low |-> LowOf(address, PoolSize), high |-> HighOf(q, PoolSize)]
  /\ pending' = pending \ {n}
SharedMore(q, n) ==
  /\ q.address = 0 /\ Pool(n)
  /\ low'[n] = low[n] /\ high'[n] = Widened(n, q) /\ merge'[n] = FALSE
  /\ script'[n].low = script[n].low /\ script'[n].high = Widened(n, q)
  /\ pending' = pending

\* Register m keeps what it is programmed with.
TrapKept(m) ==
  low'[m] = low[m] /\ high'[m] = high[m] /\ script'[m] = script[m] /\ merge'[m] = merge[m]

LEMMA RegisterEffect ==
  ASSUME TypeInv, PoolInv, NEW c \in Child, NEW q \in Requests, Register(c, q)
  PROVE  /\ c \notin live /\ Legal(q)
         /\ clear = None /\ UNCHANGED <<cycle, ready, clear, disp, spoilt>>
         /\ \E n \in Trap, address \in Nat :
              /\ Record(c, q, n, address)
              /\ TakenOwn(q, n, address) \/ TakenPool(q, n, address) \/ SharedMore(q, n)
              /\ \A m \in Trap \ {n} : TrapKept(m)
<1>0. RegistersOK /\ EntriesOK
  BY DEF TypeInv, TypeOK
<1>1. PICK n \in Trap : /\ IsFirst(q, n)
                        /\ \/ RegisterOwn(c, q, n)
                           \/ RegisterPool(c, q, n)
                           \/ RegisterMerged(c, q, n)
  BY DEF Register
<1>2. q.address \in Nat
  BY RequestAssumption
<1>3. CASE RegisterOwn(c, q, n)
  <2>1. /\ q.address # 0 /\ Free(n) /\ pending' = pending \ {n}
        /\ low' = [low EXCEPT ![n] = OwnLow(q)] /\ high' = [high EXCEPT ![n] = OwnHigh(q)]
        /\ script' = [script EXCEPT ![n] = [low |-> OwnLow(q), high |-> OwnHigh(q)]]
        /\ merge' = [merge EXCEPT ![n] = TRUE]
        /\ Record(c, q, n, q.address)
    BY <1>3 DEF RegisterOwn, TakesFree, SetSaved, OwnLow, OwnHigh
  <2>2. TakenOwn(q, n, q.address) /\ \A m \in Trap \ {n} : TrapKept(m)
    BY <1>0, <2>1 DEF TakenOwn, TrapKept, RegistersOK, EntriesOK
  <2> QED
    BY <1>2, <2>1, <2>2 DEF Register, MayCall
<1>4. CASE RegisterPool(c, q, n)
  <2> DEFINE base == PoolBases[given + 1]
  <2>1. /\ q.address = 0 /\ Free(n) /\ pending' = pending \ {n}
        /\ low' = [low EXCEPT ![n] = LowOf(base, PoolSize)]
        /\ high' = [high EXCEPT ![n] = HighOf(q, PoolSize)]
        /\ script' = [script EXCEPT ![n] = [low |-> LowOf(base, PoolSize),
                                            high |-> HighOf(q, PoolSize)]]
        /\ merge' = [merge EXCEPT ![n] = FALSE]
        /\ Record(c, q, n, base)
    BY <1>4 DEF RegisterPool, TakesFree, SetSaved
  <2>2. base \in Nat
    BY <1>0, <1>4, PoolAssumption DEF EntriesOK, RegisterPool
  <2> HIDE DEF base
  <2>3. TakenPool(q, n, base) /\ \A m \in Trap \ {n} : TrapKept(m)
    BY <1>0, <2>1 DEF TakenPool, TrapKept, RegistersOK, EntriesOK
  <2> QED
    BY <2>1, <2>2, <2>3 DEF Register, MayCall
<1>5. CASE RegisterMerged(c, q, n)
  <2>1. /\ q.address = 0 /\ ~Free(n) /\ UNCHANGED <<pending, low, merge>>
        /\ high' = [high EXCEPT ![n] = Widened(n, q)]
        /\ script' = [script EXCEPT ![n].high = Widened(n, q)]
        /\ Record(c, q, n, low[n].base + used[n])
    BY <1>5 DEF RegisterMerged
  <2>2. ~merge[n]
    BY <1>1, <2>1 DEF IsFirst, Suits, HasSpace
  <2>3. low[n].base + used[n] \in Nat
    <3>1. low[n].base \in Nat /\ used[n] \in Nat
      BY <1>0 DEF RegistersOK, LowType, EntriesOK
    <3> QED
      BY <3>1
  <2>4. SharedMore(q, n) /\ \A m \in Trap \ {n} : TrapKept(m)
    BY <1>0, <2>1, <2>2 DEF SharedMore, Pool, TrapKept, RegistersOK, EntriesOK
  <2> QED
    BY <2>1, <2>3, <2>4 DEF Register, MayCall
<1> QED
  BY <1>1, <1>3, <1>4, <1>5

\* Unregistering the last child of a register turns that off, another changes none.
LEMMA UnregisterEffect ==
  ASSUME TypeInv, PoolInv, PoolInv', NEW c \in Child, Unregister(c)
  PROVE  /\ c \in live /\ rec[c].trap \in Trap /\ clear = None
         /\ live' = live \ {c} /\ paused' = paused \ {c} /\ twins' = twins \ {c}
         /\ \A d \in live' : rec'[d] = rec[d]
         /\ UNCHANGED <<pending, cycle, disp>>
         /\ c # callee => spoilt' = spoilt
         /\ c = callee => spoilt' = spoilt \cup {"record"}
         /\ \/ /\ clear' = rec[c].trap /\ low'[clear'].base = 0 /\ merge'[clear'] = FALSE
               /\ script'[clear'].high = high'[clear']
               /\ \A d \in live' : rec'[d].trap # clear'
               /\ \A m \in Trap \ {clear'} : TrapKept(m)
            \/ clear' = clear /\ \A m \in Trap : TrapKept(m)
<1>0. RegistersOK /\ EntriesOK /\ RecordsOK
  BY DEF TypeInv, TypeOK
<1>1. PICK n \in Trap : n = rec[c].trap
  BY <1>0 DEF RecordsOK, Unregister
<1>2. /\ c \in live /\ clear = None
      /\ live' = live \ {c} /\ paused' = paused \ {c} /\ twins' = twins \ {c}
      /\ UNCHANGED <<pending, cycle, disp>>
      /\ c # callee => spoilt' = spoilt
      /\ c = callee => spoilt' = spoilt \cup {"record"}
  BY DEF Unregister, MayCall, hw
<1>3. \A d \in live' : rec'[d] = rec[d]
  BY <1>0, <1>2 DEF Unregister, RecordsOK
<1>4. CASE IsLastChild(c)
  <2>1. TurnOff(n)
    BY <1>1, <1>4 DEF Unregister
  <2>2. /\ clear' = n /\ low'[n] = Off /\ high'[n] = NoTypes /\ merge'[n] = FALSE
        /\ script'[n] = [low |-> Off, high |-> NoTypes]
        /\ \A m \in Trap \ {n} : TrapKept(m)
    BY <1>0, <2>1 DEF TurnOff, SetSaved, RegistersOK, EntriesOK, TrapKept
  <2>3. low'[n].base = 0
    BY <2>2 DEF Off
  <2>4. \A d \in live' : rec'[d].trap # n
    BY <2>3 DEF PoolInv, TrapInv, Free
  <2> QED
    BY <1>1, <1>2, <1>3, <2>2, <2>3, <2>4
<1>5. CASE ~IsLastChild(c)
  <2>1. ~AtTop(c)
    BY <1>2, <1>5 DEF IsLastChild, PoolInv, ChildInv
  <2>2. UNCHANGED <<regs, clear, merge>>
    BY <1>5, <2>1 DEF Unregister
  <2> QED
    BY <1>1, <1>2, <1>3, <2>2 DEF regs, TrapKept
<1> QED
  BY <1>4, <1>5

\* Pausing and resuming find a register of a child of its own.
LEMMA ControlEffect ==
  ASSUME TypeInv, NEW c \in Child, NEW b \in BOOLEAN,
         IF b THEN Resume(c) ELSE Pause(c)
  PROVE  /\ c \in live /\ clear = None
         /\ UNCHANGED <<high, script, hw, entry, live, rec, twins, disp, spoilt>>
         /\ paused' = IF b THEN paused \ {c} ELSE paused \cup {c}
         /\ \E n \in Trap :
              /\ Found(c, n) /\ low'[n].tse = b
              /\ \A m \in Trap : low'[m].base = low[m].base /\ low'[m].len = low[m].len
              /\ \A m \in Trap \ {n} : low'[m] = low[m]
              /\ ~b => clear' = n
              /\ b => clear' = clear
<1>0. RegistersOK
  BY DEF TypeInv, TypeOK
<1>1. CASE b = TRUE
  <2>1. PICK n \in Trap : Found(c, n) /\ low' = [low EXCEPT ![n].tse = TRUE]
    BY <1>1 DEF Resume
  <2>2. OnlyTse /\ low'[n].tse = TRUE /\ \A m \in Trap \ {n} : low'[m] = low[m]
    BY <1>0, <2>1, PauseResumeProps
  <2> QED
    BY <1>1, <2>1, <2>2 DEF Resume, OnlyTse, MayCall
<1>2. CASE b = FALSE
  <2>1. PICK n \in Trap : Found(c, n) /\ low' = [low EXCEPT ![n].tse = FALSE] /\ clear' = n
    BY <1>2 DEF Pause
  <2>2. OnlyTse /\ low'[n].tse = FALSE /\ \A m \in Trap \ {n} : low'[m] = low[m]
    BY <1>0, <2>1, PauseResumeProps
  <2> QED
    BY <1>2, <2>1, <2>2 DEF Pause, OnlyTse, MayCall
<1> QED
  BY <1>1, <1>2
-----------------------------------------------------------------------------
(***************************************************************************)
(* What a register is programmed with                                      *)
(***************************************************************************)

\* A child of its own has a register programmed for a request, and its record is of that
\* request. A register that is shared is on, traps what its children are for, and has no
\* byte enables. The boot script has the same, and turns every register in use on.
ProgrammedFor(n, q) ==
  /\ Legal(q)
  /\ q.address # 0
  /\ low[n].base = OwnLow(q).base /\ low[n].len = OwnLow(q).len
  /\ high[n] = OwnHigh(q)
  /\ \A c \in live : rec[c].trap = n => rec[c] = RecordAt(q, n, q.address)

ContentInv(n) ==
  /\ merge[n] => \E q \in Requests : ProgrammedFor(n, q)
  /\ Pool(n) => high[n].bem = Lanes /\ low[n].tse
  /\ ~merge[n] => \A c \in live : rec[c].trap = n =>
                    ~rec[c].ex /\ TypesOf(rec[c].type) \subseteq high[n].types
  /\ script[n].high = high[n]
  /\ ~Free(n) => script[n].low.tse

\* What neither programs a register nor gives it a child.
LEMMA ContentKept ==
  ASSUME NEW n \in Trap, ContentInv(n),
         low'[n].base = low[n].base, low'[n].len = low[n].len, Pool(n) => low'[n].tse,
         high'[n] = high[n], script'[n] = script[n], merge'[n] = merge[n],
         \A c \in live' : rec'[c].trap = n => c \in live /\ rec'[c] = rec[c]
  PROVE  ContentInv(n)'
<1>1. Pool(n)' <=> Pool(n)
  BY DEF Pool, Free
<1>2. ASSUME merge'[n] PROVE (\E q \in Requests : ProgrammedFor(n, q))'
  <2>1. PICK q \in Requests : ProgrammedFor(n, q)
    BY <1>2 DEF ContentInv
  <2>2. ProgrammedFor(n, q)'
    BY <2>1 DEF ProgrammedFor
  <2> QED
    BY <2>2
<1>3. (~merge[n] => \A c \in live : rec[c].trap = n =>
                      ~rec[c].ex /\ TypesOf(rec[c].type) \subseteq high[n].types)'
  BY DEF ContentInv
<1>4. (~Free(n) => script[n].low.tse)'
  BY DEF ContentInv, Free
<1> QED
  BY <1>1, <1>2, <1>3, <1>4 DEF ContentInv

LEMMA RegisterContent ==
  ASSUME TypeInv, PoolInv, \A n \in Trap : ContentInv(n),
         NEW c \in Child, NEW q \in Requests, Register(c, q)
  PROVE  \A n \in Trap : ContentInv(n)'
<1>0. RecordsOK /\ RegistersOK
  BY DEF TypeInv, TypeOK
<1>1. PICK n \in Trap, address \in Nat :
        /\ Record(c, q, n, address) /\ c \in Child \ live /\ Legal(q)
        /\ TakenOwn(q, n, address) \/ TakenPool(q, n, address) \/ SharedMore(q, n)
        /\ \A m \in Trap \ {n} : TrapKept(m)
  BY RegisterEffect
<1>2. \/ UNCHANGED <<live, rec>>
      \/ /\ live' = live \cup {c} /\ \A d \in live : rec'[d] = rec[d]
         /\ rec'[c] = RecordAt(q, n, address)
  BY <1>0, <1>1, RecordHolds
<1>3. /\ rec'[c] = RecordAt(q, n, address) => rec'[c].trap = n
      /\ RecordAt(q, n, address).ex = q.ex /\ RecordAt(q, n, address).type = q.type
  BY DEF RecordAt
<1>4. ASSUME NEW m \in Trap \ {n} PROVE ContentInv(m)'
  <2>1. \A d \in live' : rec'[d].trap = m => d \in live /\ rec'[d] = rec[d]
    BY <1>2, <1>3
  <2>2. /\ low'[m] = low[m] /\ high'[m] = high[m]
        /\ script'[m] = script[m] /\ merge'[m] = merge[m]
    BY <1>1 DEF TrapKept
  <2>3. Pool(m) => low'[m].tse
    BY <2>2 DEF ContentInv
  <2> QED
    BY <2>1, <2>2, <2>3, ContentKept
<1>5. ASSUME Free(n)
      PROVE  \A d \in live' : rec'[d].trap = n => rec'[d] = RecordAt(q, n, address)
  BY <1>2, <1>5 DEF PoolInv, TrapInv
<1>6. ~q.ex => q.bem = Lanes
  BY RequestAssumption
<1>7. CASE TakenOwn(q, n, address)
  <2>1. ProgrammedFor(n, q)'
    BY <1>1, <1>5, <1>7 DEF TakenOwn, ProgrammedFor
  <2>2. OwnLow(q).tse = TRUE
    BY DEF OwnLow, LowOf
  <2> QED
    BY <1>4, <1>7, <2>1, <2>2 DEF ContentInv, TakenOwn, Pool
<1>8. CASE TakenPool(q, n, address)
  <2>1. LowOf(address, PoolSize).tse = TRUE
    BY DEF LowOf
  <2>2. PoolSize \in Nat /\ PoolSize >= 4 /\ ~q.ex
    BY <1>8, RequestAssumption, TrapAssumption DEF TakenPool
  <2>3. HighOf(q, PoolSize).bem = Lanes /\ HighOf(q, PoolSize).types = TypesOf(q.type)
    BY <1>6, <2>2 DEF HighOf
  <2>4. ContentInv(n)'
    BY <1>3, <1>5, <1>8, <2>1, <2>2, <2>3 DEF ContentInv, TakenPool
  <2> QED
    BY <1>4, <2>4
<1>9. CASE SharedMore(q, n)
  <2>1. /\ Pool(n) /\ ~merge[n] /\ ~q.ex /\ merge'[n] = FALSE
        /\ low'[n] = low[n] /\ high'[n] = Widened(n, q)
        /\ script'[n].low = script[n].low /\ script'[n].high = Widened(n, q)
    BY <1>9, RequestAssumption DEF SharedMore, Pool
  <2>2. high[n] \in HighType /\ TypesOf(q.type) \subseteq {"write", "read"}
    BY <1>0, RequestAssumption DEF RegistersOK, TypesOf, Types
  <2>3. /\ Widened(n, q).bem = high[n].bem
        /\ high[n].types \subseteq Widened(n, q).types
        /\ TypesOf(q.type) \subseteq Widened(n, q).types
    BY <2>2 DEF Widened, HighType
  <2>4. ContentInv(n)
    OBVIOUS
  <2>5. ASSUME NEW d \in live', rec'[d].trap = n
        PROVE  ~rec'[d].ex /\ TypesOf(rec'[d].type) \subseteq high'[n].types
    <3>1. CASE d \in live
      <4>1. rec'[d] = rec[d]
        BY <1>2, <3>1
      <4> QED
        BY <2>1, <2>3, <2>4, <2>5, <3>1, <4>1 DEF ContentInv
    <3>2. CASE d \notin live
      <4>1. rec'[d] = RecordAt(q, n, address)
        BY <1>2, <3>2
      <4> QED
        BY <1>3, <2>1, <2>3, <4>1
    <3> QED
      BY <3>1, <3>2
  <2>6. ContentInv(n)'
    BY <2>1, <2>3, <2>4, <2>5 DEF ContentInv, Pool, Free
  <2> QED
    BY <1>4, <2>6
<1> QED
  BY <1>1, <1>7, <1>8, <1>9

LEMMA NextContent ==
  ASSUME TypeInv, PoolInv, PoolInv', \A n \in Trap : ContentInv(n), [Next]_vars
  PROVE  \A n \in Trap : ContentInv(n)'
<1>1. ASSUME NEW c \in Child, Unregister(c) PROVE \A n \in Trap : ContentInv(n)'
  <2>1. /\ \A d \in live' : d \in live /\ rec'[d] = rec[d]
        /\ \/ /\ low'[clear'].base = 0 /\ merge'[clear'] = FALSE
              /\ script'[clear'].high = high'[clear']
              /\ \A d \in live' : rec'[d].trap # clear'
              /\ \A m \in Trap \ {clear'} : TrapKept(m)
           \/ \A m \in Trap : TrapKept(m)
    BY <1>1, UnregisterEffect
  <2>2. ASSUME NEW n \in Trap, TrapKept(n) PROVE ContentInv(n)'
    <3>1. /\ low'[n] = low[n] /\ high'[n] = high[n]
          /\ script'[n] = script[n] /\ merge'[n] = merge[n]
      BY <2>2 DEF TrapKept
    <3>2. Pool(n) => low'[n].tse
      BY <3>1 DEF ContentInv
    <3> QED
      BY <2>1, <3>1, <3>2, ContentKept
  <2>3. ASSUME NEW n \in Trap, low'[n].base = 0, merge'[n] = FALSE,
               script'[n].high = high'[n], \A d \in live' : rec'[d].trap # n
        PROVE  ContentInv(n)'
    BY <2>3 DEF ContentInv, Pool, Free
  <2> QED
    BY <2>1, <2>2, <2>3
<1>2. ASSUME NEW c \in Child, Pause(c) \/ Resume(c) PROVE \A n \in Trap : ContentInv(n)'
  <2>1. PICK b \in BOOLEAN : IF b THEN Resume(c) ELSE Pause(c)
    BY <1>2
  <2>2. PICK n \in Trap :
          /\ Found(c, n)
          /\ \A m \in Trap : low'[m].base = low[m].base /\ low'[m].len = low[m].len
          /\ \A m \in Trap \ {n} : low'[m] = low[m]
    BY <2>1, ControlEffect
  <2>3. UNCHANGED <<high, script, entry, live, rec>>
    BY <2>1, ControlEffect
  <2>4. merge[n]
    BY <2>2 DEF Found, Matches
  <2>5. \A m \in Trap : Pool(m) => low'[m].tse
    BY <2>2, <2>4 DEF ContentInv, Pool
  <2> QED
    BY <2>2, <2>3, <2>5, ContentKept DEF entry
<1>3. CASE S3Resume
  <2>1. /\ UNCHANGED <<script, merge, live, rec>>
        /\ \A n \in Trap : low'[n] = script[n].low /\ high'[n] = script[n].high
    BY <1>3 DEF S3Resume, entry, Restored
  <2>2. \A n \in Trap : script[n].low.base = low[n].base /\ script[n].low.len = low[n].len
    BY DEF PoolInv, TrapInv
  <2>3. \A n \in Trap : script[n].high = high[n] /\ (Pool(n) => low'[n].tse)
    BY <2>1 DEF ContentInv, Pool
  <2> QED
    BY <2>1, <2>2, <2>3, ContentKept
<1>4. CASE Handler \/ (\E cy \in Cycles : Access(cy)) \/ ReadyToLock \/ UNCHANGED vars
  <2>1. UNCHANGED <<regs, entry, live>> /\ \A c \in live : rec'[c] = rec[c]
    BY <1>4, HandlerType DEF Access, ReadyToLock, vars, recs
  <2>2. \A n \in Trap : Pool(n) => low'[n].tse
    BY <2>1 DEF ContentInv, regs
  <2> QED
    BY <2>1, <2>2, ContentKept DEF regs, entry
<1> QED
  BY <1>1, <1>2, <1>3, <1>4, RegisterContent DEF Next, Client

LEMMA InitContent == Init => \A n \in Trap : ContentInv(n)
BY DEF Init, ContentInv, Pool, Free, Off
-----------------------------------------------------------------------------
(***************************************************************************)
(* The child that is called                                                *)
(***************************************************************************)

\* The range, types and bytes of a register are those of the cycle.
CycleFits(n) ==
  /\ cycle.address \in Bytes(low[n].base, low[n].len)
  /\ cycle.type \in high[n].types
  /\ \A l \in Lanes \ high[n].bem : l \in cycle.bytes <=> l \in high[n].be

\* As long as no second cycle was trapped, a status pending is one of a register the
\* cycle fits, unless it is about to be cleared. A callback of a register of its own is
\* the only one its record has, unless it has freed that.
DeliverInv ==
  /\ "cycle" \notin spoilt =>
       \A n \in pending : n # clear => cycle \in Cycles /\ CycleFits(n)
  /\ phase = "own" /\ "record" \notin spoilt => callee \in live /\ ~rec[callee].ex

\* What leaves the cycle, the registers and the callback alone.
LEMMA DeliverKept ==
  ASSUME TypeInv, DeliverInv, UNCHANGED <<cycle, disp, spoilt>>, live \subseteq live',
         \A d \in live : rec'[d] = rec[d],
         \A n \in pending' : n # clear' =>
           /\ n \in pending /\ n # clear
           /\ low'[n].base = low[n].base /\ low'[n].len = low[n].len
           /\ high'[n].bem = high[n].bem /\ high'[n].be = high[n].be
           /\ high[n].types \subseteq high'[n].types
  PROVE  DeliverInv'
<1>1. ASSUME "cycle" \notin spoilt', NEW n \in pending', n # clear'
      PROVE  cycle' \in Cycles /\ CycleFits(n)'
  <2>1. cycle \in Cycles /\ CycleFits(n)
    BY <1>1 DEF DeliverInv
  <2> QED
    BY <1>1, <2>1 DEF CycleFits
<1>2. (phase = "own" /\ "record" \notin spoilt => callee \in live /\ ~rec[callee].ex)'
  BY DEF DeliverInv, disp
<1> QED
  BY <1>1, <1>2 DEF DeliverInv

LEMMA RegisterDeliver ==
  ASSUME TypeInv, PoolInv, DeliverInv, NEW c \in Child, NEW q \in Requests, Register(c, q)
  PROVE  DeliverInv'
<1>0. RecordsOK /\ RegistersOK
  BY DEF TypeInv, TypeOK
<1>1. UNCHANGED <<cycle, clear, disp, spoilt>> /\ clear = None
  BY RegisterEffect
<1>2. PICK n \in Trap, address \in Nat :
        /\ Record(c, q, n, address) /\ c \in Child \ live /\ Legal(q)
        /\ TakenOwn(q, n, address) \/ TakenPool(q, n, address) \/ SharedMore(q, n)
        /\ \A m \in Trap \ {n} : TrapKept(m)
  BY RegisterEffect
<1>3. live \subseteq live' /\ \A d \in live : rec'[d] = rec[d]
  BY <1>0, <1>2, RecordHolds
<1>4. pending \subseteq Trap /\ None \notin Trap
  BY <1>0, TrapAssumption DEF RegistersOK, Trap
<1>5. CASE TakenOwn(q, n, address) \/ TakenPool(q, n, address)
  <2>1. pending' = pending \ {n}
    BY <1>5 DEF TakenOwn, TakenPool
  <2>2. \A m \in pending' : TrapKept(m) /\ m # clear
    BY <1>1, <1>2, <1>4, <2>1
  <2> QED
    BY <1>1, <1>3, <2>1, <2>2, DeliverKept DEF TrapKept
<1>6. CASE SharedMore(q, n)
  <2>1. /\ pending' = pending /\ low'[n] = low[n] /\ high'[n] = Widened(n, q)
    BY <1>6 DEF SharedMore
  <2>2. high[n] \in HighType
    BY <1>0 DEF RegistersOK
  <2>3. /\ high'[n].bem = high[n].bem /\ high'[n].be = high[n].be
        /\ high[n].types \subseteq high'[n].types
    BY <2>1, <2>2 DEF Widened, HighType
  <2>4. \A m \in pending' : /\ m \in pending /\ m # clear
                            /\ low'[m] = low[m]
                            /\ high'[m].bem = high[m].bem /\ high'[m].be = high[m].be
                            /\ high[m].types \subseteq high'[m].types
    BY <1>1, <1>2, <1>4, <2>1, <2>3 DEF TrapKept
  <2> QED
    BY <1>1, <1>3, <2>4, DeliverKept
<1> QED
  BY <1>2, <1>5, <1>6

LEMMA UnregisterDeliver ==
  ASSUME TypeInv, PoolInv, PoolInv', DeliverInv, NEW c \in Child, Unregister(c)
  PROVE  DeliverInv'
<1>0. pending \subseteq Trap /\ None \notin Trap
  BY TrapAssumption DEF TypeInv, TypeOK, RegistersOK, Trap
<1>1. /\ c \in live /\ clear = None /\ live' = live \ {c}
      /\ \A d \in live' : rec'[d] = rec[d]
      /\ UNCHANGED <<pending, cycle, disp>>
      /\ c # callee => spoilt' = spoilt
      /\ c = callee => spoilt' = spoilt \cup {"record"}
      /\ \/ \A m \in Trap \ {clear'} : TrapKept(m)
         \/ \A m \in Trap : TrapKept(m)
  BY UnregisterEffect
<1>2. ASSUME "cycle" \notin spoilt', NEW n \in pending', n # clear'
      PROVE  cycle' \in Cycles /\ CycleFits(n)'
  <2>1. "cycle" \notin spoilt /\ n \in pending /\ n # clear /\ TrapKept(n)
    BY <1>0, <1>1, <1>2
  <2>2. cycle \in Cycles /\ CycleFits(n)
    BY <2>1 DEF DeliverInv
  <2> QED
    BY <1>1, <2>1, <2>2 DEF CycleFits, TrapKept
<1>3. (phase = "own" /\ "record" \notin spoilt => callee \in live /\ ~rec[callee].ex)'
  BY <1>1 DEF DeliverInv, disp
<1> QED
  BY <1>2, <1>3 DEF DeliverInv

LEMMA HandlerDeliver ==
  ASSUME TypeInv, PoolInv, \A n \in Trap : ContentInv(n), DeliverInv, Handler
  PROVE  DeliverInv'
<1>1. UNCHANGED <<regs, entry, live>> /\ \A c \in live : rec'[c] = rec[c]
  BY HandlerType
<1>2. /\ cycle' = cycle
      /\ \A n \in pending' : n # clear' => n \in pending /\ n # clear
      /\ "cycle" \in spoilt <=> "cycle" \in spoilt'
  <2>1. CASE ClearPendingIoTrapStatus
    BY <2>1 DEF ClearPendingIoTrapStatus, Cleared
  <2>2. CASE \E n \in Trap : Dispatch(n)
    BY <2>2 DEF Dispatch, hw
  <2>3. CASE \E n \in Trap : DispatchesNothing(n)
    BY <2>3 DEF DispatchesNothing
  <2>4. CASE CallsOther
    BY <2>4 DEF CallsOther, hw
  <2>5. CASE Return
    BY <2>5 DEF Return
  <2> QED
    BY <2>1, <2>2, <2>3, <2>4, <2>5 DEF Handler
<1>3. ASSUME "cycle" \notin spoilt', NEW n \in pending', n # clear'
      PROVE  cycle' \in Cycles /\ CycleFits(n)'
  <2>1. cycle \in Cycles /\ CycleFits(n)
    BY <1>2, <1>3 DEF DeliverInv
  <2> QED
    BY <1>1, <1>2, <2>1 DEF CycleFits, regs
<1>4. (phase = "own" /\ "record" \notin spoilt => callee \in live /\ ~rec[callee].ex)'
  <2>1. CASE UNCHANGED <<disp, spoilt>>
    BY <1>1, <2>1 DEF DeliverInv, disp
  <2>2. ASSUME NEW n \in Trap, Dispatch(n), phase' = "own"
        PROVE  callee' \in live' /\ ~rec'[callee'].ex
    <3>1. /\ list[n] # <<>> /\ callee' \in Called(n) /\ rec' = rec
          /\ merge[n] /\ ~rec[callee'].ex
      <4>1. PICK c \in Called(n) :
              /\ callee' = c
              /\ phase' = IF ~merge[n] THEN "merged" ELSE IF rec[c].ex THEN "ex" ELSE "own"
        BY <2>2 DEF Dispatch
      <4> QED
        BY <2>2, <4>1 DEF Dispatch, recs
    <3>2. list[n] \in Seq(live)
      BY DEF TypeInv, TypeOK, EntriesOK
    <3>3. list[n][1] \in live
      BY <3>1, <3>2
    <3> QED
      BY <1>1, <3>1, <3>3 DEF Called
  <2>3. CASE CallsOther \/ Return
    <3>1. phase' # "own"
      BY <2>3, TrapAssumption DEF CallsOther, Return
    <3> QED
      BY <3>1
  <2> QED
    BY <2>1, <2>2, <2>3
       DEF Handler, ClearPendingIoTrapStatus, DispatchesNothing
<1> QED
  BY <1>3, <1>4 DEF DeliverInv

LEMMA NextDeliver ==
  ASSUME TypeInv, PoolInv, PoolInv', \A n \in Trap : ContentInv(n), DeliverInv, [Next]_vars
  PROVE  DeliverInv'
<1>1. ASSUME NEW c \in Child, Pause(c) \/ Resume(c) PROVE DeliverInv'
  <2>1. PICK b \in BOOLEAN : IF b THEN Resume(c) ELSE Pause(c)
    BY <1>1
  <2>2. /\ clear = None
        /\ UNCHANGED <<high, pending, cycle, live, rec, disp, spoilt>>
        /\ \A m \in Trap : low'[m].base = low[m].base /\ low'[m].len = low[m].len
    BY <2>1, ControlEffect DEF hw
  <2>3. pending \subseteq Trap /\ None \notin Trap
    BY TrapAssumption DEF TypeInv, TypeOK, RegistersOK, Trap
  <2> QED
    BY <2>2, <2>3, DeliverKept
<1>2. ASSUME NEW cy \in Cycles, Access(cy) PROVE DeliverInv'
  <2>1. /\ pending' = pending \cup {n \in Trap : Traps(n, cy)} /\ cycle' = cy
        /\ spoilt' = IF pending = {} /\ callee = None THEN spoilt \ {"cycle"}
                     ELSE spoilt \cup {"cycle"}
        /\ UNCHANGED <<regs, live, rec, disp>>
    BY <1>2 DEF Access, recs
  <2>2. "cycle" \notin spoilt' => \A n \in pending' : CycleFits(n)'
    BY <2>1 DEF Traps, CycleFits, regs
  <2>3. (phase = "own" /\ "record" \notin spoilt => callee \in live /\ ~rec[callee].ex)'
    BY <2>1 DEF DeliverInv, disp
  <2> QED
    BY <2>1, <2>2, <2>3 DEF DeliverInv
<1>3. CASE S3Resume
  BY <1>3, DeliverKept DEF S3Resume, hw
<1>4. CASE ReadyToLock \/ UNCHANGED vars
  BY <1>4, DeliverKept DEF ReadyToLock, vars, regs, hw, recs
<1> QED
  BY <1>1, <1>2, <1>3, <1>4, RegisterDeliver, UnregisterDeliver, HandlerDeliver
     DEF Next, Client

\* A set of lanes has a first and a last.
LEMMA LaneBounds ==
  ASSUME NEW L, L \subseteq 0 .. 3, L # {}
  PROVE  \E lo \in L, hi \in L : \A l \in L : lo <= l /\ l <= hi
<1>0. \A l \in L : l = 0 \/ l = 1 \/ l = 2 \/ l = 3
  OBVIOUS
<1>1. PICK lo \in L : \A l \in L : lo <= l
  <2>1. CASE 0 \in L
    BY <1>0, <2>1
  <2>2. CASE 0 \notin L /\ 1 \in L
    BY <1>0, <2>2
  <2>3. CASE 0 \notin L /\ 1 \notin L /\ 2 \in L
    BY <1>0, <2>3
  <2>4. CASE 0 \notin L /\ 1 \notin L /\ 2 \notin L
    <3>1. 3 \in L /\ \A l \in L : l = 3
      BY <1>0, <2>4
    <3> QED
      BY <3>1
  <2> QED
    BY <2>1, <2>2, <2>3, <2>4
<1>2. PICK hi \in L : \A l \in L : l <= hi
  <2>1. CASE 3 \in L
    BY <1>0, <2>1
  <2>2. CASE 3 \notin L /\ 2 \in L
    BY <1>0, <2>2
  <2>3. CASE 3 \notin L /\ 2 \notin L /\ 1 \in L
    BY <1>0, <2>3
  <2>4. CASE 3 \notin L /\ 2 \notin L /\ 1 \notin L
    <3>1. \A l \in L : l = 0
      BY <1>0, <2>4
    <3> QED
      BY <3>1
  <2> QED
    BY <2>1, <2>2, <2>3, <2>4
<1> QED
  BY <1>1, <1>2

\* The bytes of a cycle lie between its first and its last.
LEMMA CycleBounds ==
  ASSUME NEW cy \in Cycles, NEW a \in Nat, NEW len \in Nat,
         a <= Min(CycleBytes(cy)), a + len > Max(CycleBytes(cy))
  PROVE  CycleBytes(cy) \subseteq Bytes(a, len)
<1>1. cy.address \in Nat /\ cy.bytes \subseteq 0 .. 3 /\ cy.bytes # {}
  BY RequestAssumption DEF Lanes
<1>2. PICK lo \in cy.bytes, hi \in cy.bytes : \A l \in cy.bytes : lo <= l /\ l <= hi
  BY <1>1, LaneBounds
<1>3. /\ cy.address + lo \in CycleBytes(cy) /\ cy.address + hi \in CycleBytes(cy)
      /\ \A x \in CycleBytes(cy) : x \in Int /\ cy.address + lo <= x /\ x <= cy.address + hi
  <2>1. ASSUME NEW l \in cy.bytes
        PROVE  /\ cy.address + l \in Int
               /\ cy.address + lo <= cy.address + l /\ cy.address + l <= cy.address + hi
    BY <1>1, <1>2
  <2> QED
    BY <2>1 DEF CycleBytes
<1>4. Min(CycleBytes(cy)) \in CycleBytes(cy)
      /\ \A y \in CycleBytes(cy) : Min(CycleBytes(cy)) =< y
  BY <1>3 DEF Min
<1>5. Max(CycleBytes(cy)) \in CycleBytes(cy)
      /\ \A y \in CycleBytes(cy) : Max(CycleBytes(cy)) >= y
  BY <1>3 DEF Max
<1>6. ASSUME NEW x \in CycleBytes(cy) PROVE x \in Bytes(a, len)
  <2>1. x \in Int /\ Min(CycleBytes(cy)) \in Int /\ Max(CycleBytes(cy)) \in Int
    BY <1>3, <1>4, <1>5
  <2>2. a <= x /\ x < a + len
    BY <1>4, <1>5, <2>1
  <2> QED
    BY <2>1, <2>2, InBytes
<1> QED
  BY <1>6

\* The child called of a register the cycle fits is registered for the cycle.
LEMMA CalledWants ==
  ASSUME TypeInv, NEW n \in Trap, ContentInv(n), NEW c \in Called(n), list[n] # <<>>,
         cycle \in Cycles, CycleFits(n)
  PROVE  c \in live /\ Wants(c, cycle)
<1>0. /\ EntriesOK /\ RecordsOK /\ ListInv
  BY DEF TypeInv, TypeOK
<1>1. /\ c \in ToSet(list[n])
      /\ ~merge[n] => InRange(c) /\ cycle.type \in TypesOf(rec[c].type)
  <2>1. list[n] \in Seq(live)
    BY <1>0 DEF EntriesOK
  <2>2. 1 \in DOMAIN list[n]
    BY <2>1
  <2> QED
    BY <2>2 DEF Called, ToSet
<1>2. c \in live /\ rec[c].trap = n
  BY <1>1 DEF TypeInv, ListInv
<1>3. CASE merge[n]
  <2>1. PICK q \in Requests : ProgrammedFor(n, q)
    BY <1>3 DEF ContentInv
  <2>2. rec[c] = RecordAt(q, n, q.address) /\ Legal(q)
        /\ low[n].base = OwnLow(q).base /\ low[n].len = OwnLow(q).len
        /\ high[n] = OwnHigh(q)
    BY <1>2, <2>1 DEF ProgrammedFor
  <2>3. Asks(q, cycle)
    BY <2>2, AskedIffTrapped DEF CycleFits
  <2>4. cycle.type \in TypesOf(q.type)
    BY <2>2, LegalProps DEF CycleFits
  <2> QED
    BY <1>2, <2>2, <2>3, <2>4 DEF Wants, Asks, RecordAt
<1>4. CASE ~merge[n]
  <2>1. ~rec[c].ex
    BY <1>2, <1>4 DEF ContentInv
  <2>2. rec[c].address \in Nat /\ rec[c].len \in Nat
    BY <1>0, <1>2 DEF RecordsOK
  <2>3. CycleBytes(cycle) \subseteq Bytes(rec[c].address, rec[c].len)
    BY <1>1, <1>4, <2>2, CycleBounds DEF InRange
  <2> QED
    BY <1>1, <1>2, <1>4, <2>1, <2>3 DEF Wants
<1> QED
  BY <1>3, <1>4

LEMMA DeliverInvariant ==
  ASSUME NoLowPorts
  PROVE  Spec => [](TypeInv /\ PoolInv /\ (\A n \in Trap : ContentInv(n)) /\ DeliverInv)
<1>1. Init => DeliverInv
  BY TrapAssumption DEF Init, DeliverInv
<1>2. Init => TypeInv /\ PoolInv /\ (\A n \in Trap : ContentInv(n)) /\ DeliverInv
  BY <1>1, InitType, InitPool, InitContent
<1>3. ASSUME TypeInv, PoolInv, \A n \in Trap : ContentInv(n), DeliverInv, [Next]_vars
      PROVE  TypeInv' /\ PoolInv' /\ (\A n \in Trap : ContentInv(n))' /\ DeliverInv'
  <2>1. TypeInv' /\ PoolInv'
    BY <1>3, NextType, NextPool
  <2> QED
    BY <1>3, <2>1, NextContent, NextDeliver
<1> QED
  BY <1>2, <1>3, PTL DEF Spec

\* The callback called is that of a child registered for the cycle that was trapped,
\* whoever registered, unregistered, paused or resumed before, as long as no second cycle
\* was trapped meanwhile and no callback freed its own record.
THEOREM RightChildCalled == ASSUME NoLowPorts PROVE Spec => RightChild
<1> DEFINE Right ==
      callee' # None /\ <<callee, phase>>' # <<callee, phase>> /\ spoilt' = {}
      => callee' \in live /\ Wants(callee', cycle)
<1>1. ASSUME TypeInv, PoolInv, \A n \in Trap : ContentInv(n), DeliverInv, [Next]_vars
      PROVE  Right
  <2>1. ASSUME NEW n \in Trap, Dispatch(n), spoilt' = {}
        PROVE  callee' \in live /\ Wants(callee', cycle)
    <3>1. /\ clear = None /\ n \in pending /\ spoilt = {}
          /\ callee' \in Called(n) /\ list[n] # <<>>
      BY <2>1 DEF Dispatch, Idle
    <3>2. n # clear
      BY <3>1, TrapAssumption DEF Trap
    <3>3. cycle \in Cycles /\ CycleFits(n)
      BY <1>1, <3>1, <3>2 DEF DeliverInv
    <3> QED
      BY <1>1, <3>1, <3>3, CalledWants
  <2>2. ASSUME CallsOther, spoilt' = {} PROVE FALSE
    BY <1>1, <2>2 DEF CallsOther, DeliverInv
  <2>3. CASE Return
    BY <2>3 DEF Return
  <2>4. CASE UNCHANGED <<callee, phase>>
    BY <2>4
  <2>5. \/ UNCHANGED <<callee, phase>> \/ Return \/ CallsOther
        \/ \E n \in Trap : Dispatch(n)
    BY <1>1 DEF Next, Client, Handler, Register, Unregister, Pause, Resume, Access,
                ClearPendingIoTrapStatus, DispatchesNothing, ReadyToLock, S3Resume,
                disp, vars
  <2> QED
    BY <2>1, <2>2, <2>3, <2>4, <2>5
<1>2. TypeInv /\ PoolInv /\ (\A n \in Trap : ContentInv(n)) /\ DeliverInv /\ [Next]_vars
      => [Right]_vars
  BY <1>1
<1> QED
  BY <1>2, DeliverInvariant, PTL DEF RightChild, Spec
-----------------------------------------------------------------------------
(***************************************************************************)
(* What is trapped                                                         *)
(***************************************************************************)

SameRange(c, d) == rec[c].address = rec[d].address /\ rec[c].len = rec[d].len

\* Two children of one range are twins. Of another, nobody but who paused it has turned
\* the register off, and the next to look for that register by its contents finds it.
PauseInv ==
  /\ \A c, d \in live : c # d /\ SameRange(c, d) => c \in twins
  /\ \A c \in live \ twins : merge[rec[c].trap] /\ ~low[rec[c].trap].tse =>
       c \in paused /\ \A k \in Trap : Matches(c, k) => k >= rec[c].trap

\* A register matches a child by what the two hold.
LEMMA MatchesContents ==
  ASSUME NEW c, NEW n
  PROVE  Matches(c, n) <=>
           /\ merge[n]
           /\ \/ /\ rec[c].ex /\ rec[c].address = low[n].base /\ rec[c].len = low[n].len
                 /\ rec[c].be = high[n].be /\ rec[c].bem = high[n].bem
              \/ SeemsFor(low[n].base, low[n].len, high[n].bem) = <<rec[c].address, rec[c].len>>
BY DEF Matches, IsIoTrapExContentMatched, RangeOf, SeemsFor

\* Every child has asked for its range or was given it.
LEMMA RecordKinds ==
  ASSUME TypeInv, PoolInv, \A n \in Trap : ContentInv(n), NEW c \in live
  PROVE  OwnRecord(rec[c]) \/ PoolRecord(rec[c])
<1>0. RecordsOK /\ RegistersOK /\ EntriesOK
  BY DEF TypeInv, TypeOK
<1>1. PICK n \in Trap : n = rec[c].trap
  BY <1>0 DEF RecordsOK
<1>2. CASE merge[n]
  <2>1. PICK q \in Requests : ProgrammedFor(n, q)
    BY <1>2 DEF ContentInv
  <2>2. Legal(q) /\ q.address # 0 /\ rec[c] = RecordAt(q, n, q.address)
    BY <1>1, <2>1 DEF ProgrammedFor
  <2> QED
    BY <2>2 DEF OwnRecord, RecordAt
<1>3. CASE ~merge[n]
  <2>1. ~rec[c].ex
    BY <1>1, <1>3 DEF ContentInv
  <2>2. Pool(n)
    BY <1>1, <1>3 DEF PoolInv, TrapInv, Pool
  <2>3. PICK i \in 1 .. given : low[n].base = PoolBases[i]
    BY <2>2 DEF PoolInv, TrapInv
  <2>4. /\ rec[c].len > 0 /\ rec[c].address >= low[n].base
        /\ rec[c].address + rec[c].len <= low[n].base + used[n]
    BY <1>1, <1>3 DEF PoolInv, ChildInv
  <2>5. /\ rec[c].address \in Nat /\ rec[c].len \in Nat /\ low[n].base \in Nat
        /\ used[n] \in 0 .. PoolSize /\ PoolSize \in Nat
    BY <1>0, TrapAssumption DEF RecordsOK, RegistersOK, EntriesOK, LowType
  <2>6. rec[c].address \in Bytes(low[n].base, PoolSize)
    BY <2>4, <2>5 DEF Bytes
  <2>7. i \in 1 .. Len(PoolBases)
    BY <1>0, PoolAssumption DEF EntriesOK
  <2> QED
    BY <2>1, <2>3, <2>6, <2>7 DEF PoolRecord
<1> QED
  BY <1>2, <1>3

\* A register that matches a child has been programmed for the range of that child.
LEMMA MatchedRange ==
  ASSUME NoLookalikes, TypeInv, PoolInv, \A n \in Trap : ContentInv(n),
         NEW c \in live, NEW n \in Trap, Matches(c, n), NEW d \in live, rec[d].trap = n
  PROVE  SameRange(c, d)
<1>1. merge[n]
  BY DEF Matches
<1>2. PICK q \in Requests : ProgrammedFor(n, q)
  BY <1>1 DEF ContentInv
<1>3. /\ Legal(q) /\ low[n].base = OwnLow(q).base /\ low[n].len = OwnLow(q).len
      /\ high[n] = OwnHigh(q) /\ rec[d] = RecordAt(q, n, q.address)
  BY <1>2 DEF ProgrammedFor
<1>4. \/ /\ rec[c].ex /\ rec[c].address = OwnLow(q).base /\ rec[c].len = OwnLow(q).len
         /\ rec[c].be = OwnHigh(q).be /\ rec[c].bem = OwnHigh(q).bem
      \/ SeemsFor(OwnLow(q).base, OwnLow(q).len, OwnHigh(q).bem) = <<rec[c].address, rec[c].len>>
  BY <1>3, MatchesContents
<1>5. OwnRecord(rec[c]) \/ PoolRecord(rec[c])
  BY RecordKinds
<1>6. rec[c].address = q.address /\ rec[c].len = q.len
  BY <1>3, <1>4, <1>5, MatchesSame
<1> QED
  BY <1>3, <1>6 DEF SameRange, RecordAt

\* The register of a child of its own matches it.
LEMMA OwnMatches ==
  ASSUME NEW n \in Trap, ContentInv(n), merge[n], NEW c \in live, rec[c].trap = n
  PROVE  Matches(c, n)
<1>1. PICK q \in Requests : ProgrammedFor(n, q)
  BY DEF ContentInv
<1>2. /\ Legal(q) /\ low[n].base = OwnLow(q).base /\ low[n].len = OwnLow(q).len
      /\ high[n] = OwnHigh(q) /\ rec[c] = RecordAt(q, n, q.address)
  BY <1>1 DEF ProgrammedFor
<1>3. \/ /\ q.ex /\ q.address = OwnLow(q).base /\ q.len = OwnLow(q).len
         /\ q.be = OwnHigh(q).be /\ q.bem = OwnHigh(q).bem
      \/ SeemsFor(OwnLow(q).base, OwnLow(q).len, OwnHigh(q).bem) = <<q.address, q.len>>
  BY <1>2, MatchesItself
<1>4. /\ rec[c].ex = q.ex /\ rec[c].address = q.address /\ rec[c].len = q.len
      /\ rec[c].be = q.be /\ rec[c].bem = q.bem
  BY <1>2 DEF RecordAt
<1> QED
  BY <1>2, <1>3, <1>4, MatchesContents

\* What turns no register off, programs none, and gives nobody a range.
LEMMA PauseKept ==
  ASSUME TypeInv, PauseInv, live' \subseteq live, \A d \in live' : rec'[d] = rec[d],
         \A d \in live' : d \in twins => d \in twins',
         \A d \in live' : d \in paused => d \in paused',
         \A k \in Trap : merge'[k] => merge[k] /\ low'[k].base = low[k].base
                                      /\ low'[k].len = low[k].len /\ high'[k] = high[k],
         \A d \in live' : merge'[rec[d].trap] /\ ~low'[rec[d].trap].tse
                          => ~low[rec[d].trap].tse
  PROVE  PauseInv'
<1>1. \A c, d \in live' : (c # d /\ SameRange(c, d) => c \in twins)'
  BY DEF PauseInv, SameRange
<1>2. ASSUME NEW c \in live' \ twins', merge'[rec'[c].trap] /\ ~low'[rec'[c].trap].tse
      PROVE  c \in paused' /\ \A k \in Trap : Matches(c, k)' => k >= rec'[c].trap
  <2>1. /\ c \in live \ twins /\ rec'[c] = rec[c] /\ rec[c].trap \in Trap
    BY <1>2 DEF TypeInv, TypeOK, RecordsOK
  <2>2. merge[rec[c].trap] /\ ~low[rec[c].trap].tse
    BY <1>2, <2>1
  <2>3. c \in paused /\ \A k \in Trap : Matches(c, k) => k >= rec[c].trap
    BY <2>1, <2>2 DEF PauseInv
  <2>4. \A k \in Trap : Matches(c, k)' => Matches(c, k)
    BY <2>1 DEF Matches, IsIoTrapExContentMatched, RangeOf
  <2> QED
    BY <1>2, <2>1, <2>3, <2>4
<1> QED
  BY <1>1, <1>2 DEF PauseInv

LEMMA RegisterPause ==
  ASSUME NoLookalikes, TypeInv, PoolInv, \A n \in Trap : ContentInv(n), PauseInv,
         NEW c \in Child, NEW q \in Requests, Register(c, q)
  PROVE  PauseInv'
<1>0. RecordsOK /\ RegistersOK
  BY DEF TypeInv, TypeOK
<1>1. PICK n \in Trap, address \in Nat :
        /\ Record(c, q, n, address) /\ c \in Child \ live /\ Legal(q)
        /\ TakenOwn(q, n, address) \/ TakenPool(q, n, address) \/ SharedMore(q, n)
        /\ \A m \in Trap \ {n} : TrapKept(m)
  BY RegisterEffect
<1>2. /\ paused' = paused
      /\ twins \cup Same(address, q.len) \subseteq twins'
      /\ \/ UNCHANGED <<live, rec>>
         \/ /\ live' = live \cup {c}
            /\ \A d \in live : rec'[d] = rec[d]
            /\ rec'[c] = RecordAt(q, n, address)
            /\ Same(address, q.len) # {} => c \in twins'
  BY <1>0, <1>1, RecordHolds
<1>3. \A d \in live : /\ rec'[d] = rec[d]
                      /\ rec[d].address = address /\ rec[d].len = q.len => d \in twins'
  BY <1>2 DEF Same
<1>4. \A d \in live' \ live :
        /\ d = c /\ rec'[d].trap = n /\ rec'[d].address = address /\ rec'[d].len = q.len
        /\ Same(address, q.len) # {} => d \in twins'
  BY <1>2 DEF RecordAt
<1>5. ASSUME NEW d \in live', NEW e \in live', (d # e /\ SameRange(d, e))'
      PROVE  d \in twins'
  <2>1. CASE d \in live /\ e \in live
    <3>1. d # e /\ SameRange(d, e)
      BY <1>3, <1>5, <2>1 DEF SameRange
    <3> QED
      BY <1>2, <2>1, <3>1 DEF PauseInv
  <2>2. CASE d \in live /\ e \notin live
    BY <1>3, <1>4, <1>5, <2>2 DEF SameRange
  <2>3. CASE d \notin live
    <3>1. e \in live /\ rec[e].address = address /\ rec[e].len = q.len
      BY <1>3, <1>4, <1>5, <2>3 DEF SameRange
    <3> QED
      BY <1>4, <2>3, <3>1 DEF Same
  <2> QED
    BY <2>1, <2>2, <2>3
<1>6. merge'[n] => low'[n].tse
  <2>1. OwnLow(q).tse = TRUE
    BY DEF OwnLow, LowOf
  <2> QED
    BY <1>1, <2>1 DEF TakenOwn, TakenPool, SharedMore
<1>7. ASSUME NEW d \in live' \ twins', merge'[rec'[d].trap] /\ ~low'[rec'[d].trap].tse
      PROVE  d \in paused' /\ \A k \in Trap : Matches(d, k)' => k >= rec'[d].trap
  <2>1. d \in live \ twins /\ rec'[d] = rec[d] /\ rec[d].trap \in Trap
    BY <1>0, <1>2, <1>4, <1>6, <1>7 DEF RecordsOK
  <2>2. rec[d].trap # n
    BY <1>6, <1>7, <2>1
  <2>3. merge[rec[d].trap] /\ ~low[rec[d].trap].tse
    BY <1>1, <1>7, <2>1, <2>2 DEF TrapKept
  <2>4. d \in paused /\ \A k \in Trap : Matches(d, k) => k >= rec[d].trap
    BY <2>1, <2>3 DEF PauseInv
  <2>5. ASSUME NEW k \in Trap \ {n}, Matches(d, k)' PROVE Matches(d, k)
    BY <1>1, <2>1, <2>5 DEF TrapKept, Matches, IsIoTrapExContentMatched, RangeOf
  <2>6. ASSUME Matches(d, n)' PROVE FALSE
    <3>1. TakenOwn(q, n, address)
      <4>1. merge'[n]
        BY <2>6 DEF Matches
      <4> QED
        BY <1>1, <4>1 DEF TakenPool, SharedMore
    <3>2. low'[n] = OwnLow(q) /\ high'[n] = OwnHigh(q) /\ address = q.address
      BY <3>1 DEF TakenOwn
    <3>3. \/ /\ rec[d].ex /\ rec[d].address = OwnLow(q).base /\ rec[d].len = OwnLow(q).len
             /\ rec[d].be = OwnHigh(q).be /\ rec[d].bem = OwnHigh(q).bem
          \/ SeemsFor(OwnLow(q).base, OwnLow(q).len, OwnHigh(q).bem)
             = <<rec[d].address, rec[d].len>>
      BY <2>1, <2>6, <3>2 DEF Matches, IsIoTrapExContentMatched, RangeOf, SeemsFor
    <3>4. OwnRecord(rec[d]) \/ PoolRecord(rec[d])
      BY <2>1, RecordKinds
    <3>5. rec[d].address = q.address /\ rec[d].len = q.len
      BY <1>1, <3>3, <3>4, MatchesSame
    <3> QED
      BY <1>3, <1>7, <2>1, <3>2, <3>5
  <2> QED
    BY <1>2, <2>1, <2>4, <2>5, <2>6
<1> QED
  BY <1>5, <1>7 DEF PauseInv

LEMMA PausePause ==
  ASSUME NoLookalikes, TypeInv, PoolInv, \A n \in Trap : ContentInv(n), PauseInv,
         NEW c \in Child, Pause(c)
  PROVE  PauseInv'
<1>1. /\ c \in live
      /\ UNCHANGED <<high, entry, live, rec, twins>> /\ paused' = paused \cup {c}
  BY DEF Pause
<1>2. PICK n \in Trap :
        /\ Found(c, n)
        /\ \A m \in Trap : low'[m].base = low[m].base /\ low'[m].len = low[m].len
        /\ \A m \in Trap \ {n} : low'[m] = low[m]
  <2>1. IF FALSE THEN Resume(c) ELSE Pause(c)
    OBVIOUS
  <2> QED
    BY <2>1, ControlEffect
<1>3. merge' = merge
  BY <1>1 DEF entry
<1>5. ASSUME NEW d \in live, NEW k \in Trap PROVE Matches(d, k)' <=> Matches(d, k)
  BY <1>1, <1>2, <1>3 DEF Matches, IsIoTrapExContentMatched, RangeOf
<1>6. \A d, e \in live' : (d # e /\ SameRange(d, e) => d \in twins)'
  BY <1>1 DEF PauseInv, SameRange
<1>7. ASSUME NEW d \in live' \ twins', merge'[rec'[d].trap] /\ ~low'[rec'[d].trap].tse
      PROVE  d \in paused' /\ \A k \in Trap : Matches(d, k)' => k >= rec'[d].trap
  <2>1. d \in live \ twins /\ rec'[d] = rec[d] /\ rec[d].trap \in Trap
    BY <1>1, <1>7 DEF TypeInv, TypeOK, RecordsOK
  <2>2. CASE rec[d].trap = n
    <3>1. d = c
      <4>1. SameRange(c, d)
        BY <1>1, <1>2, <2>1, <2>2, MatchedRange DEF Found
      <4> QED
        BY <1>1, <2>1, <4>1 DEF PauseInv, SameRange
    <3>2. \A k \in Trap : Matches(c, k) => ~(k < n)
      BY <1>2 DEF Found
    <3>3. \A k \in Trap : ~(k < n) => k >= n
      BY DEF Trap
    <3> QED
      BY <1>1, <1>5, <2>1, <2>2, <3>1, <3>2, <3>3
  <2>3. CASE rec[d].trap # n
    <3>1. merge[rec[d].trap] /\ ~low[rec[d].trap].tse
      BY <1>2, <1>3, <1>7, <2>1, <2>3
    <3>2. d \in paused /\ \A k \in Trap : Matches(d, k) => k >= rec[d].trap
      BY <2>1, <3>1 DEF PauseInv
    <3> QED
      BY <1>1, <1>5, <2>1, <3>2
  <2> QED
    BY <2>2, <2>3
<1> QED
  BY <1>6, <1>7 DEF PauseInv

LEMMA ResumePause ==
  ASSUME TypeInv, \A n \in Trap : ContentInv(n), PauseInv, NEW c \in Child, Resume(c)
  PROVE  PauseInv'
<1>1. /\ c \in live
      /\ UNCHANGED <<high, entry, live, rec, twins>> /\ paused' = paused \ {c}
  BY DEF Resume
<1>2. PICK n \in Trap :
        /\ Found(c, n) /\ low'[n].tse = TRUE
        /\ \A m \in Trap : low'[m].base = low[m].base /\ low'[m].len = low[m].len
        /\ \A m \in Trap \ {n} : low'[m] = low[m]
  <2>1. IF TRUE THEN Resume(c) ELSE Pause(c)
    OBVIOUS
  <2> QED
    BY <2>1, ControlEffect
<1>3. merge' = merge
  BY <1>1 DEF entry
<1>5. ASSUME NEW d \in live, NEW k \in Trap PROVE Matches(d, k)' <=> Matches(d, k)
  BY <1>1, <1>2, <1>3 DEF Matches, IsIoTrapExContentMatched, RangeOf
<1>6. \A d, e \in live' : (d # e /\ SameRange(d, e) => d \in twins)'
  BY <1>1 DEF PauseInv, SameRange
<1>7. ASSUME NEW d \in live' \ twins', merge'[rec'[d].trap] /\ ~low'[rec'[d].trap].tse
      PROVE  d \in paused' /\ \A k \in Trap : Matches(d, k)' => k >= rec'[d].trap
  <2>1. d \in live \ twins /\ rec'[d] = rec[d] /\ rec[d].trap \in Trap
    BY <1>1, <1>7 DEF TypeInv, TypeOK, RecordsOK
  <2>2. rec[d].trap # n
    BY <1>2, <1>7, <2>1
  <2>3. merge[rec[d].trap] /\ ~low[rec[d].trap].tse
    BY <1>2, <1>3, <1>7, <2>1, <2>2
  <2>4. d \in paused /\ \A k \in Trap : Matches(d, k) => k >= rec[d].trap
    BY <2>1, <2>3 DEF PauseInv
  <2>5. d # c
    <3> SUFFICES ASSUME d = c PROVE FALSE
      OBVIOUS
    <3>1. n >= rec[d].trap /\ \A m \in Trap : m < n => ~Matches(d, m)
      BY <1>2, <2>4 DEF Found
    <3>2. Matches(d, rec[d].trap)
      BY <2>1, <2>3, OwnMatches
    <3>3. rec[d].trap < n
      BY <2>1, <2>2, <3>1 DEF Trap
    <3> QED
      BY <2>1, <3>1, <3>2, <3>3
  <2> QED
    BY <1>1, <1>5, <2>1, <2>4, <2>5
<1> QED
  BY <1>6, <1>7 DEF PauseInv

LEMMA NextPause ==
  ASSUME NoLookalikes, TypeInv, PoolInv, PoolInv', \A n \in Trap : ContentInv(n), PauseInv,
         [Next]_vars
  PROVE  PauseInv'
<1>1. ASSUME NEW c \in Child, Unregister(c) PROVE PauseInv'
  <2>1. /\ live' = live \ {c} /\ paused' = paused \ {c} /\ twins' = twins \ {c}
        /\ \A d \in live' : rec'[d] = rec[d]
        /\ \/ /\ merge'[clear'] = FALSE
              /\ \A d \in live' : rec'[d].trap # clear'
              /\ \A m \in Trap \ {clear'} : TrapKept(m)
           \/ \A m \in Trap : TrapKept(m)
    BY <1>1, UnregisterEffect
  <2>2. \A m \in Trap : merge'[m] => TrapKept(m)
    BY <2>1
  <2>3. \A d \in live' : d \in live /\ rec[d].trap \in Trap
    BY <2>1 DEF TypeInv, TypeOK, RecordsOK
  <2> QED
    BY <2>1, <2>2, <2>3, PauseKept DEF TrapKept
<1>2. CASE S3Resume
  <2>1. /\ UNCHANGED <<merge, live, rec, twins>>
        /\ \A n \in Trap : low'[n] = script[n].low /\ high'[n] = script[n].high
    BY <1>2 DEF S3Resume, entry, Restored
  <2>2. \A n \in Trap : merge[n] => low'[n].tse
    BY <2>1 DEF ContentInv, PoolInv, TrapInv
  <2>3. \A d \in live : rec[d].trap \in Trap
    BY DEF TypeInv, TypeOK, RecordsOK
  <2> QED
    BY <2>1, <2>2, <2>3 DEF PauseInv, SameRange
<1>3. CASE Handler \/ (\E cy \in Cycles : Access(cy)) \/ ReadyToLock \/ UNCHANGED vars
  <2>1. UNCHANGED <<regs, entry, live>> /\ \A c \in live : rec'[c] = rec[c]
    BY <1>3, HandlerType DEF Access, ReadyToLock, vars, recs
  <2>2. UNCHANGED <<paused, twins>>
    BY <1>3 DEF Handler, ClearPendingIoTrapStatus, Dispatch, DispatchesNothing, CallsOther,
                Return, Access, ReadyToLock, vars, recs
  <2> QED
    BY <2>1, <2>2, PauseKept DEF regs, entry
<1> QED
  BY <1>1, <1>2, <1>3, RegisterPause, PausePause, ResumePause DEF Next, Client

\* All of it covers what the children want.
LEMMA Coverage ==
  ASSUME TypeInv, PoolInv, \A n \in Trap : ContentInv(n), PauseInv
  PROVE  Covered
<1>0. RecordsOK /\ RegistersOK /\ EntriesOK /\ ListInv
  BY DEF TypeInv, TypeOK
<1> SUFFICES ASSUME NEW c \in live \ (paused \cup twins)
             PROVE  /\ c \in ToSet(list[rec[c].trap])
                    /\ \A cy \in Cycles : Wants(c, cy) => Traps(rec[c].trap, cy)
  BY DEF Covered
<1>1. PICK n \in Trap : n = rec[c].trap
  BY <1>0 DEF RecordsOK
<1>2. c \in ToSet(list[n])
  BY <1>0, <1>1 DEF ListInv
<1>3. ASSUME NEW cy \in Cycles, Wants(c, cy), merge[n] PROVE Traps(n, cy)
  <2>1. PICK q \in Requests : ProgrammedFor(n, q)
    BY <1>3 DEF ContentInv
  <2>2. /\ Legal(q) /\ low[n].base = OwnLow(q).base /\ low[n].len = OwnLow(q).len
        /\ high[n] = OwnHigh(q) /\ rec[c] = RecordAt(q, n, q.address)
    BY <1>1, <2>1 DEF ProgrammedFor
  <2>3. Asks(q, cy) /\ cy.type \in TypesOf(q.type)
    BY <1>3, <2>2 DEF Wants, Asks, RecordAt
  <2>4. /\ cy.address \in Bytes(OwnLow(q).base, OwnLow(q).len)
        /\ \A l \in Lanes \ OwnHigh(q).bem : l \in cy.bytes <=> l \in OwnHigh(q).be
    BY <2>2, <2>3, AskedIffTrapped
  <2>5. cy.type \in high[n].types
    BY <2>2, <2>3, LegalProps
  <2>6. low[n].tse
    BY <1>1, <1>3 DEF PauseInv
  <2> QED
    BY <2>2, <2>4, <2>5, <2>6 DEF Traps
<1>4. ASSUME NEW cy \in Cycles, Wants(c, cy), ~merge[n] PROVE Traps(n, cy)
  <2>1. Pool(n)
    BY <1>1, <1>4 DEF PoolInv, TrapInv, Pool
  <2>2. /\ high[n].bem = Lanes /\ low[n].tse /\ ~rec[c].ex
        /\ TypesOf(rec[c].type) \subseteq high[n].types
    BY <1>1, <1>4, <2>1 DEF ContentInv
  <2>3. CycleBytes(cy) \subseteq Bytes(rec[c].address, rec[c].len) /\ cy.type \in high[n].types
    BY <1>4, <2>2 DEF Wants
  <2>4. PICK i \in 1 .. given : low[n].base = PoolBases[i]
    BY <2>1 DEF PoolInv, TrapInv
  <2>5. low[n].base \in Nat /\ low[n].base % 4 = 0 /\ low[n].len = PoolSize
    <3>1. i \in 1 .. Len(PoolBases)
      BY <1>0, PoolAssumption DEF EntriesOK
    <3> QED
      BY <2>1, <2>4, <3>1, PoolAssumption DEF PoolInv, TrapInv
  <2>6. PICK l \in cy.bytes : TRUE
    BY RequestAssumption
  <2>7. l \in 0 .. 3 /\ cy.address \in Nat /\ cy.address % 4 = 0
    BY RequestAssumption DEF Lanes
  <2>8. cy.address + l \in Bytes(rec[c].address, rec[c].len)
    BY <2>3 DEF CycleBytes
  <2>9. /\ rec[c].address \in Nat /\ rec[c].len \in Nat /\ used[n] \in 0 .. PoolSize
        /\ PoolSize \in Nat /\ PoolSize % 4 = 0
        /\ rec[c].address >= low[n].base
        /\ rec[c].address + rec[c].len <= low[n].base + used[n]
    BY <1>0, <1>1, <1>4, TrapAssumption DEF RecordsOK, EntriesOK, PoolInv, ChildInv
  <2>10. rec[c].address <= cy.address + l /\ cy.address + l < rec[c].address + rec[c].len
    <3>1. cy.address + l \in Int
      BY <2>7
    <3> QED
      BY <2>8, <2>9, <3>1, InBytes
  <2>a. /\ low[n].base \in Nat /\ PoolSize \in Nat /\ cy.address \in Nat
        /\ cy.address + l \in Nat
    BY <2>5, <2>7, <2>9
  <2>b. rec[c].address + rec[c].len <= low[n].base + PoolSize
    BY <2>9, <2>a
  <2>11. low[n].base <= cy.address + l /\ cy.address + l < low[n].base + PoolSize
    <3>1. /\ rec[c].address \in Nat /\ rec[c].len \in Nat
          /\ rec[c].address >= low[n].base
      BY <2>9
    <3> QED
      BY <2>10, <2>a, <2>b, <3>1
  <2>12. low[n].base <= cy.address /\ cy.address < low[n].base + PoolSize
    BY <2>5, <2>7, <2>9, <2>11, DwordFits
  <2>13. cy.address \in Bytes(low[n].base, low[n].len)
    <3>1. low[n].len = PoolSize
      BY <2>5
    <3> QED
      BY <2>12, <2>a, <3>1, InBytes
  <2> QED
    BY <2>2, <2>3, <2>13 DEF Traps
<1> QED
  BY <1>1, <1>2, <1>3, <1>4

\* Every cycle a child is registered for is trapped by the child's register unless it is
\* paused or shares its range, whatever the others do and over S3, provided that no
\* request is for a port that reads as a free register, nor an Ex one with byte enables
\* that read as another's range.
THEOREM AlwaysCovered == ASSUME NoLowPorts, NoLookalikes PROVE Spec => []Covered
<1> DEFINE Content == \A n \in Trap : ContentInv(n)
<1>1. Init => PauseInv
  BY DEF Init, PauseInv
<1>2. TypeInv /\ PoolInv /\ Content /\ PauseInv /\ TypeInv' /\ PoolInv' /\ [Next]_vars
      => PauseInv'
  BY NextPause
<1>3. TypeInv /\ PoolInv /\ Content /\ PauseInv => Covered
  BY Coverage
<1>4. Spec => [](TypeInv /\ PoolInv /\ Content)
  BY DeliverInvariant, PTL
<1> QED
  BY <1>1, <1>2, <1>3, <1>4, PTL DEF Spec
=============================================================================
