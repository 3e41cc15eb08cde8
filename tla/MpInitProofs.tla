--------------------------- MODULE MpInitProofs ---------------------------
(***************************************************************************)
(* What TLAPS proves of MpInit, for any number of APs, requests and calls. *)
(***************************************************************************)
EXTENDS MpInit, FiniteSetTheorems, WellFoundedInduction, TLAPS

-----------------------------------------------------------------------------
(***************************************************************************)
(* Processors                                                              *)
(***************************************************************************)

\* The first of some processors is one of them, and none comes before it.
LEMMA FirstLeast ==
  ASSUME NEW S, S \subseteq Aps, S # {}
  PROVE  First(S) \in S /\ First(S) \in Aps /\ \A d \in S : First(S) <= d
<1> DEFINE R == OpToRel(<, Nat)
<1>1. IsWellFoundedOn(R, Nat)
  BY NatLessThanWellFounded
<1>2. \A x, y \in Nat : <<y, x>> \in R <=> y < x
  BY DEF OpToRel
<1>3. S \subseteq Nat
  BY MpAssumption DEF Aps
<1> HIDE DEF R
<1>4. PICK x \in S : \A y \in S : ~(<<y, x>> \in R)
  BY <1>1, <1>3, WFMin
<1>5. ASSUME NEW y \in S PROVE x <= y
  <2>1. x \in Nat /\ y \in Nat /\ ~(<<y, x>> \in R)
    BY <1>3, <1>4
  <2>2. ~(y < x)
    BY <1>2, <2>1
  <2> QED
    BY <2>1, <2>2
<1>6. First(S) \in S /\ \A d \in S : First(S) <= d
  BY <1>5 DEF First
<1> QED
  BY <1>6

LEMMA FollowingAp == \A c \in Aps : Following(c) \in 1 .. NumberOfAps + 1 /\ Following(c) = c + 1
BY MpAssumption DEF Aps, Following

\* Sets of processors are finite, and taking one away leaves one less.
LEMMA ApsFinite ==
  ASSUME NEW S, S \subseteq Aps
  PROVE  /\ IsFiniteSet(S) /\ Cardinality(S) \in Nat
         /\ Cardinality(S) = 0 <=> S = {}
         /\ \A c \in S : Cardinality(S \ {c}) + 1 = Cardinality(S)
<1>1. IsFiniteSet(Aps)
  BY MpAssumption, FS_Interval DEF Aps
<1>2. IsFiniteSet(S)
  BY <1>1, FS_Subset
<1>3. Cardinality(S) \in Nat
  BY <1>2, FS_CardinalityType
<1>4. Cardinality(S) = 0 <=> S = {}
  BY <1>2, FS_EmptySet
<1>5. ASSUME NEW c \in S PROVE Cardinality(S \ {c}) + 1 = Cardinality(S)
  <2>1. Cardinality(S \ {c}) = Cardinality(S) - 1
    BY <1>2, FS_RemoveElement
  <2> QED
    BY <1>3, <2>1
<1> QED
  BY <1>2, <1>3, <1>4, <1>5

-----------------------------------------------------------------------------
(***************************************************************************)
(* Where the BSP is                                                        *)
(***************************************************************************)

InWakeUp == bsp \in WakePcs
Starting == InWakeUp /\ back = "started"

\* Which service the BSP is in, and for which processor.
Control ==
  /\ request # NoRequest => calls # 0
  /\ request.service = "startThis" => apNumber \in Aps
  /\ bsp = "caller" => request = NoRequest
  /\ bsp \in {"caller", "update", "updateThis", "startAll", "startThis", "started"} => ~polling
  /\ bsp \in {"startAll", "startThis"} => request.service = bsp
  /\ bsp = "started" \/ Starting => request # NoRequest /\ ~polling
  /\ bsp = "this" => index \in Aps
  /\ polling => request # NoRequest

LEMMA RequestType ==
  ASSUME TypeOK
  PROVE  /\ request.service \in Services \cup {"caller"}
         /\ request.single \in BOOLEAN /\ request.event \in BOOLEAN /\ request.finite \in BOOLEAN
         /\ request = NoRequest <=> request.service = "caller"
<1>1. CASE request = NoRequest
  BY <1>1 DEF NoRequest, Services
<1>2. CASE request \in Requests
  <2>1. request \in [service : Services, single : BOOLEAN, event : BOOLEAN, finite : BOOLEAN]
    BY <1>2, MpAssumption
  <2>2. request # NoRequest
    BY <2>1 DEF NoRequest, Services
  <2> QED
    BY <2>1, <2>2 DEF Services
<1> QED
  BY <1>1, <1>2 DEF TypeOK

LEMMA Expired == \A call \in CallType : [call EXCEPT !.expired = TRUE] \in CallType
BY Zenon DEF CallType

\* What Goto leaves for the next step is of its type, wherever it goes.
LEMMA GotoTypes ==
  ASSUME NEW at \in {"caller", "update", "updateThis", "scan", "fail", "this", "startAll",
                     "startThis", "started"},
         NEW i \in 1 .. NumberOfAps + 1, TypeOK, Goto(at, i)
  PROVE  /\ bsp' = at /\ index' \in 1 .. NumberOfAps + 1
         /\ request' \in Requests \cup {NoRequest} /\ apNumber' \in 0 .. NumberOfAps
         /\ polling' \in BOOLEAN
BY MpAssumption DEF TypeOK, Goto

\* What WakeUpAP has been called for, and by whom.
WakeOK ==
  /\ ~InWakeUp => targets = {} /\ untold = {} /\ fn = 0 /\ back = "caller"
  /\ InWakeUp => targets # {}
  /\ bsp = "wake" => untold = targets
  /\ bsp = "function" => untold # {}
  /\ bsp = "ready" => told \in untold /\ ApFunction[told] = fn
  /\ bsp = "signal" => told \in targets \ untold
  /\ bsp \in {"sipi", "wakeup", "reset"} => untold = {}
  /\ InitFlag = "reconfig" <=> InWakeUp /\ fn = 0
  /\ bsp = "reset" => fn = 0
  /\ InWakeUp /\ fn = 0 => back \in {"fail", "timeout", "caller"}
  /\ InWakeUp /\ fn # 0 => back \in {"scan", "started"}
  /\ InWakeUp /\ back = "timeout" => index \in targets
  /\ InWakeUp /\ back = "caller" => request = NoRequest
  /\ InWakeUp /\ back = "scan" => fn = all.id /\ \A c \in targets : Waiting[c]
  /\ InWakeUp /\ back = "fail" => \A c \in targets : Waiting[c]
  /\ Starting => fn = calls
  /\ Starting /\ request.service = "startAll" =>
       all.id = fn /\ \A c \in all.for : Waiting[c]
  /\ Starting /\ request.service = "startThis" =>
       targets = {apNumber} /\ this[apNumber].id = fn

\* The processor WakeUpAP is at is the first it has yet to make ready.
LEMMA Giving ==
  ASSUME TypeOK, WakeOK, GiveFunction
  PROVE  \E d \in Aps : /\ d \in untold /\ d \in targets /\ \A c \in untold : d <= c
                        /\ told' = d /\ ApFunction' = [ApFunction EXCEPT ![d] = fn]
<1>1. untold # {} /\ untold \subseteq Aps /\ untold \subseteq targets
  BY DEF GiveFunction, WakeOK, TypeOK
<1>2. told' = First(untold) /\ ApFunction' = [ApFunction EXCEPT ![told'] = fn]
  BY DEF GiveFunction
<1>3. First(untold) \in untold /\ \A c \in untold : First(untold) <= c
  BY <1>1, FirstLeast
<1> QED
  BY <1>1, <1>2, <1>3

\* A service has been called and has not made its call yet.
Preparing == request # NoRequest /\ ~polling /\ ~Starting /\ bsp # "started"

Failing == bsp = "fail" \/ (InWakeUp /\ back = "fail")
WaitSet == {c \in Aps : Waiting[c]}

\* The calls in progress are what StartupAllAPs waits for: none is forgotten,
\* none is counted twice, and a timeout passes over none.
Accounts ==
  /\ \A c \in Aps : Waiting[c] => all.id # 0
  /\ all.id # 0 /\ ~Failing => RunningCount + Cardinality(WaitSet) = StartCount
  /\ bsp = "fail" => \A c \in Aps : Waiting[c] => c >= index
  /\ Failing => \A c \in Aps : Waiting[c] => c >= index \/ c \in targets

LEMMA NextTypeOK ==
  ASSUME TypeOK, Control, WakeOK, Accounts, [Next]_vars
  PROVE  TypeOK'
<1>1. CASE Wake
  BY <1>1, MpAssumption, FollowingAp
     DEF Wake, aps, TypeOK, Control, wake, mp, open, local, Calls, CallType, NoRequest, Starting,
         InWakeUp, WakePcs
<1>2. CASE GiveFunction
  <2>1. PICK d \in Aps : told' = d /\ ApFunction' = [ApFunction EXCEPT ![d] = fn]
    BY <1>2, Giving
  <2>2. told' \in 0 .. NumberOfAps /\ ApFunction' \in [Aps -> Calls]
    BY <2>1 DEF TypeOK, WakePcs, Aps
  <2>3. bsp' \in WakePcs /\ bsp \in WakePcs
    BY <1>2 DEF GiveFunction, WakePcs
  <2> QED
    BY <1>2, <2>2, <2>3 DEF GiveFunction, TypeOK, WakePcs, aps, mp, open, local
<1>3. CASE SetReady
  <2>1. State' \in [Aps -> {"idle", "ready", "busy", "finished", "disabled"}]
    BY <1>3 DEF SetReady, TypeOK
  <2>2. untold' \subseteq targets /\ bsp' \in WakePcs /\ bsp \in WakePcs
    BY <1>3 DEF SetReady, TypeOK, WakePcs
  <2> QED
    BY <1>3, <2>1, <2>2 DEF SetReady, TypeOK, aps, mp, open, local
<1>4. CASE Signal
  <2>1. StartupApSignal' \in [Aps -> BOOLEAN]
    BY <1>4 DEF Signal, TypeOK
  <2>2. told' \in 0 .. NumberOfAps /\ bsp' \in WakePcs /\ bsp \in WakePcs
    BY <1>4, MpAssumption DEF Signal, WakePcs
  <2> QED
    BY <1>4, <2>1, <2>2 DEF Signal, TypeOK, mp, open, local
<1>5. CASE SendInitSipiSipi
  BY <1>5, MpAssumption, FollowingAp
     DEF SendInitSipiSipi, TypeOK, Control, mp, open, local, wake, Calls, CallType,
         NoRequest, Starting, InWakeUp, WakePcs
<1>6. CASE WaitApWakeup
  <2>1. CASE fn = 0
    BY <1>6, <2>1 DEF WaitApWakeup, TypeOK, WakePcs, aps, mp, open, local
  <2>2. CASE fn # 0
    BY <1>6, <2>2, MpAssumption
       DEF WaitApWakeup, TypeOK, WakeOK, aps, mp, open, local, Calls, InWakeUp, WakePcs
  <2> QED
    BY <2>1, <2>2
<1>7. CASE ResetDone
  <2>1. PICK c \in targets :
          /\ State' = [State EXCEPT ![c] = "idle"]
          /\ raced' = (raced \/ ap[c] # "loop")
          /\ \/ /\ back = "fail"
                /\ Waiting' = [Waiting EXCEPT ![c] = FALSE]
                /\ Goto("fail", index)
                /\ UNCHANGED <<this, result>>
             \/ back = "timeout" /\ EndThis(c, "timeout") /\ UNCHANGED Waiting
             \/ back = "caller" /\ Goto("caller", 1) /\ UNCHANGED <<Waiting, this, result>>
    BY <1>7 DEF ResetDone
  <2>2. c \in Aps /\ index \in 1 .. NumberOfAps + 1 /\ 1 \in 1 .. NumberOfAps + 1
    BY <2>1, MpAssumption DEF TypeOK, WakePcs
  <2>3. Following(c) \in 1 .. NumberOfAps + 1 /\ AfterCheck \in {"caller", "updateThis"}
    BY <2>2, FollowingAp DEF AfterCheck
  <2>4. /\ bsp' \in {"fail", "caller", "updateThis"} /\ index' \in 1 .. NumberOfAps + 1
        /\ request' \in Requests \cup {NoRequest} /\ apNumber' \in 0 .. NumberOfAps
        /\ polling' \in BOOLEAN
    BY <2>1, <2>2, <2>3, GotoTypes DEF EndThis
  <2>5. Waiting' \in [Aps -> BOOLEAN]
    BY <2>1, <2>2 DEF TypeOK, WakePcs
  <2>6. /\ this' \in [Aps -> CallType]
        /\ result' \in [id : Calls, status : {"success", "timeout"}, for : SUBSET Aps]
    <3>1. this[c] \in CallType /\ NoCall \in CallType
      BY <2>2, MpAssumption DEF TypeOK, WakePcs, NoCall, CallType, Calls
    <3>2. CASE UNCHANGED <<this, result>>
      BY <3>2 DEF TypeOK, WakePcs
    <3>3. CASE EndThis(c, "timeout")
      BY <2>2, <3>1, <3>3 DEF TypeOK, WakePcs, EndThis, CallType
    <3> QED
      BY <2>1, <3>2, <3>3
  <2>7. State' \in [Aps -> {"idle", "ready", "busy", "finished", "disabled"}]
       /\ raced' \in BOOLEAN
    BY <2>1, <2>2 DEF TypeOK, WakePcs
  <2>8. targets' = {} /\ fn' \in Calls /\ back' = "caller" /\ InitFlag' = "done" /\ bsp' \notin WakePcs
        /\ untold' \subseteq targets' /\ told' \in 0 .. NumberOfAps
    BY <1>7, <2>4 DEF ResetDone, TypeOK, WakePcs, WakeOK, InWakeUp
  <2> QED
    BY <1>7, <2>4, <2>5, <2>6, <2>7, <2>8 DEF ResetDone, TypeOK, aps
<1>8. CASE ScanOne
  <2> DEFINE c == First(Rest)
  <2>1. c \in Aps
    BY <1>8, FirstLeast DEF ScanOne, Rest
  <2>2. index' \in 1 .. NumberOfAps + 1
    BY <1>8, <2>1, FollowingAp DEF ScanOne
  <2>3. UNCHANGED <<bsp, targets, untold, told, fn, back>> \/
        \E d \in Aps : CallWakeUpAP({d}, all.id, "scan")
    <3>1. NextWaiting(c) # {} => First(NextWaiting(c)) \in Aps
      BY FirstLeast DEF NextWaiting
    <3> QED
      BY <1>8, <3>1 DEF ScanOne
  <2>4. /\ targets' \subseteq Aps /\ fn' \in Calls
        /\ untold' \subseteq targets' /\ told' \in 0 .. NumberOfAps
        /\ back' \in {"caller", "scan", "fail", "timeout", "started"}
        /\ bsp' \in {"scan", "wake"}
        /\ fn' = 0 /\ bsp' \in WakePcs =>
             \E d \in Aps : targets' = {d}
    <3>1. all.id \in Calls
      BY DEF TypeOK, WakePcs, CallType
    <3> QED
      BY <1>8, <2>3, <3>1, MpAssumption DEF ScanOne, TypeOK, WakePcs, CallWakeUpAP
  <2>5. /\ RunningCount' \in Nat /\ Waiting' \in [Aps -> BOOLEAN]
        /\ State' \in [Aps -> {"idle", "ready", "busy", "finished", "disabled"}]
    <3>1. CASE State[c] = "finished"
      <4>1. /\ RunningCount' = RunningCount + 1
            /\ Waiting' = [Waiting EXCEPT ![c] = FALSE] /\ State' = [State EXCEPT ![c] = "idle"]
        BY <1>8, <3>1 DEF ScanOne
      <4> HIDE DEF c
      <4> QED
        BY <2>1, <4>1 DEF TypeOK, WakePcs
    <3>2. CASE State[c] # "finished"
      <4>1. UNCHANGED <<RunningCount, Waiting, State>>
        BY <1>8, <3>2 DEF ScanOne
      <4> QED
        BY <4>1 DEF TypeOK, WakePcs
    <3> QED
      BY <3>1, <3>2
  <2> HIDE DEF c
  <2> QED
    BY <1>8, <2>2, <2>4, <2>5 DEF ScanOne, TypeOK, WakePcs, aps, open
<1>9. CASE ScanEnd
  <2>1. 1 \in 1 .. NumberOfAps + 1
    BY MpAssumption
  <2>2. AfterCheck \in {"caller", "updateThis"}
    BY DEF AfterCheck
  <2>3. CASE EndAll("success")
    <3>1. /\ all' \in CallType
          /\ result' \in [id : Calls, status : {"success", "timeout"}, for : SUBSET Aps]
      BY <2>3, MpAssumption DEF EndAll, TypeOK, WakePcs, CallType, NoCall, Calls
    <3> QED
      BY <1>9, <2>1, <2>2, <2>3, <3>1, GotoTypes DEF ScanEnd, EndAll, TypeOK, WakePcs, aps,
         mp, wake
  <2>4. CASE Goto("fail", 1) /\ UNCHANGED <<all, result>>
    BY <1>9, <2>1, <2>4, GotoTypes DEF ScanEnd, TypeOK, WakePcs, aps, mp, wake
  <2>5. CASE Goto(IF polling THEN "scan" ELSE "updateThis", 1) /\ UNCHANGED <<all, result>>
    BY <1>9, <2>1, <2>5, GotoTypes DEF ScanEnd, TypeOK, WakePcs, aps, mp, wake
  <2> QED
    BY <1>9, <2>3, <2>4, <2>5 DEF ScanEnd
<1>10. CASE FailOne
  <2> DEFINE c == First(Unfinished)
  <2>1. c \in Aps
    BY <1>10, FirstLeast DEF FailOne, Unfinished, Rest
  <2>2. index' \in 1 .. NumberOfAps + 1
    BY <1>10, <2>1, FollowingAp DEF FailOne
  <2>3. /\ targets' = {c} /\ fn' = 0 /\ back' = "fail" /\ bsp' = "wake"
        /\ untold' = {c} /\ told' = 0 /\ InitFlag' = "reconfig"
    BY <1>10 DEF FailOne, CallReset, CallWakeUpAP
  <2> HIDE DEF c
  <2>4. 0 \in Calls /\ 0 \in 0 .. NumberOfAps
    BY MpAssumption DEF Calls
  <2> QED
    BY <1>10, <2>1, <2>2, <2>3, <2>4 DEF FailOne, TypeOK, WakePcs, aps, mp, open
<1>11. CASE FailEnd
  BY <1>11, MpAssumption, FollowingAp
     DEF FailEnd, TypeOK, Control, Unfinished, EndAll, aps, mp, wake, Calls, CallType,
         NoRequest, Starting, Rest, NoCall, Goto, AfterCheck, InWakeUp, WakePcs
<1>12. CASE ThisFinished
  BY <1>12, MpAssumption, FollowingAp
     DEF ThisFinished, TypeOK, Control, EndThis, aps, mp, wake, Calls, CallType, NoRequest,
         Starting, NoCall, Goto, AfterCheck, InWakeUp, WakePcs
<1>13. CASE ThisTimeout
  BY <1>13, MpAssumption, FollowingAp
     DEF ThisTimeout, TypeOK, Control, CallReset, aps, mp, open, local, Calls, CallType,
         wake, NoRequest, Starting, CallWakeUpAP, InWakeUp, WakePcs
<1>14. CASE ThisNotReady
  BY <1>14, MpAssumption, FollowingAp
     DEF ThisNotReady, TypeOK, Control, Goto, aps, mp, open, wake, Calls, CallType,
         NoRequest, Starting, InWakeUp, WakePcs
<1>15. CASE UpdateAll
  BY <1>15, MpAssumption, FollowingAp
     DEF UpdateAll, TypeOK, Control, Goto, aps, mp, open, wake, Calls, CallType, NoRequest,
         Starting, InWakeUp, WakePcs
<1>16. CASE UpdateThis
  <2> DEFINE pending == {c \in Aps : this[c].event /\ c >= index}
  <2>1. CASE pending # {}
    <3>1. First(pending) \in 1 .. NumberOfAps + 1
      BY <2>1, FirstLeast, MpAssumption DEF Aps
    <3> HIDE DEF pending
    <3>2. Goto("this", First(pending))
      BY <1>16, <2>1 DEF UpdateThis, pending
    <3> QED
      BY <1>16, <3>1, <3>2, GotoTypes DEF UpdateThis, TypeOK, aps, mp, open, wake, InWakeUp,
         WakePcs
  <2>2. CASE pending = {}
    <3>1. Goto(request.service, 1)
      BY <1>16, <2>2 DEF UpdateThis
    <3>2. request.service \in {"caller", "startAll", "startThis"}
      BY MpAssumption DEF TypeOK, WakePcs, NoRequest, Services
    <3>3. 1 \in 1 .. NumberOfAps + 1
      BY MpAssumption
    <3> QED
      BY <1>16, <3>1, <3>2, <3>3, GotoTypes DEF UpdateThis, TypeOK, WakePcs, aps, mp, open, wake
  <2> QED
    BY <2>1, <2>2
<1>17. CASE RefuseAll
  BY <1>17, MpAssumption, FollowingAp
     DEF RefuseAll, TypeOK, Control, Enabled, Goto, aps, mp, open, wake, Calls, CallType,
         NoRequest, Starting, InWakeUp, WakePcs
<1>18. CASE StartAll
  <2>1. /\ targets' \subseteq Aps /\ fn' = calls /\ back' = "started" /\ bsp' = "wake"
        /\ untold' = targets' /\ told' = 0 /\ 0 \in 0 .. NumberOfAps
    BY <1>18, FirstLeast, MpAssumption DEF StartAll, CallWakeUpAP, FirstOnly, Enabled, Aps
  <2>2. calls # 0 /\ calls \in Calls
    BY <1>18, MpAssumption DEF StartAll, Control, TypeOK, WakePcs, NoRequest, Services
  <2>3. StartCount' \in Nat /\ SingleThread' \in BOOLEAN /\ Waiting' \in [Aps -> BOOLEAN]
    <3>1. Enabled \subseteq Aps /\ request.single \in BOOLEAN
      BY RequestType DEF Enabled
    <3> QED
      BY <1>18, <3>1, ApsFinite DEF StartAll
  <2>4. all' \in CallType
    <3>1. /\ calls \in Calls /\ request.event \in BOOLEAN /\ request.finite \in BOOLEAN
          /\ {c \in Enabled : ap[c] = "loop"} \subseteq Aps
      BY <2>2, RequestType DEF Enabled
    <3> QED
      BY <1>18, <3>1 DEF StartAll, NewCall, CallType
  <2> QED
    BY <1>18, <2>1, <2>2, <2>3, <2>4, MpAssumption DEF StartAll, TypeOK, WakePcs, aps, local
<1>19. CASE RefuseThis
  BY <1>19, MpAssumption, FollowingAp
     DEF RefuseThis, TypeOK, Control, Goto, aps, mp, open, wake, Calls, CallType, NoRequest,
         Starting, InWakeUp, WakePcs
<1>20. CASE StartThis
  BY <1>20, MpAssumption, FollowingAp
     DEF StartThis, TypeOK, Control, NewCall, CallWakeUpAP, aps, mp, local, Calls, CallType,
         wake, NoRequest, Starting, InWakeUp, WakePcs
<1>21. CASE Started
  <2>1. 1 \in 1 .. NumberOfAps + 1 /\ apNumber \in 0 .. NumberOfAps
    BY MpAssumption DEF TypeOK, WakePcs
  <2>2. CASE request.event /\ Goto("caller", 1)
    BY <1>21, <2>1, <2>2, GotoTypes DEF Started, TypeOK, WakePcs, aps, mp, open, wake
  <2>3. CASE ~request.event
    <3>1. /\ polling' = TRUE /\ UNCHANGED <<request, apNumber>>
          /\ \/ bsp' = "scan" /\ index' = 1
             \/ bsp' = "this" /\ index' = apNumber /\ request.service # "startAll"
      BY <1>21, <2>3 DEF Started
    <3>2. index' \in 1 .. NumberOfAps + 1
      <4>1. request \in Requests
        BY <1>21 DEF Control, Started, TypeOK, WakePcs
      <4>2. request.service # "startAll" => request.service = "startThis"
        BY <4>1, MpAssumption DEF Services
      <4> QED
        BY <2>1, <3>1, <4>2, MpAssumption DEF Control, Aps
    <3> QED
      BY <1>21, <3>1, <3>2 DEF Started, TypeOK, WakePcs, aps, mp, open, wake
  <2> QED
    BY <1>21, <2>2, <2>3 DEF Started
<1>22. CASE CheckApsStatus
  BY <1>22, MpAssumption, FollowingAp
     DEF CheckApsStatus, TypeOK, Control, aps, mp, open, local, wake, Calls, CallType,
         NoRequest, Starting, InWakeUp, WakePcs
<1>23. CASE StartupAllAPs
  BY <1>23, MpAssumption, FollowingAp
     DEF StartupAllAPs, TypeOK, Control, Startup, Calls, CallType, wake, NoRequest,
         Starting, Called, aps, mp, InWakeUp, WakePcs
<1>24. CASE ExpireAll
  <2>1. all' \in CallType
    BY <1>24, Expired DEF ExpireAll, TypeOK, WakePcs
  <2> QED
    BY <1>24, <2>1 DEF ExpireAll, TypeOK, WakePcs, aps, mp, local, wake
<1>25. ASSUME NEW c \in Aps, StartupThisAP(c) PROVE TypeOK'
  <2>1. request' \in Requests /\ apNumber' = c /\ c \in 0 .. NumberOfAps
    BY <1>25 DEF StartupThisAP, Startup, Aps
  <2>2. calls' \in Calls
    BY <1>25, MpAssumption DEF StartupThisAP, Startup, Called, TypeOK, WakePcs, Calls
  <2> QED
    BY <1>25, <2>1, <2>2, MpAssumption
       DEF StartupThisAP, Startup, Called, TypeOK, WakePcs, aps, mp, wake, Calls
<1>26. ASSUME NEW c \in Aps, DisableAP(c) PROVE TypeOK'
  BY <1>26, MpAssumption, FollowingAp
     DEF DisableAP, TypeOK, Control, Called, aps, mp, local, wake, Calls, CallType,
         NoRequest, Starting, InWakeUp, WakePcs
<1>27. ASSUME NEW c \in Aps, EnableAP(c) PROVE TypeOK'
  BY <1>27, MpAssumption, FollowingAp
     DEF EnableAP, TypeOK, Control, Called, CallReset, aps, mp, local, Calls, CallType,
         wake, NoRequest, Starting, CallWakeUpAP, InWakeUp, WakePcs
<1>28. ASSUME NEW c \in Aps, ClearSignal(c) PROVE TypeOK'
  BY <1>28, MpAssumption, FollowingAp
     DEF ClearSignal, TypeOK, Control, mp, open, local, wake, Calls, CallType, NoRequest,
         Starting, InWakeUp, WakePcs
<1>29. ASSUME NEW c \in Aps, ReadState(c) PROVE TypeOK'
  BY <1>29, MpAssumption, FollowingAp
     DEF ReadState, TypeOK, Control, mp, open, local, wake, Calls, CallType, NoRequest,
         Starting, InWakeUp, WakePcs
<1>30. ASSUME NEW c \in Aps, ReadFunction(c) PROVE TypeOK'
  BY <1>30, MpAssumption, FollowingAp
     DEF ReadFunction, TypeOK, Control, mp, open, local, wake, Calls, CallType, NoRequest,
         Starting, InWakeUp, WakePcs
<1>31. ASSUME NEW c \in Aps, AcquireApLock(c) PROVE TypeOK'
  BY <1>31, MpAssumption, FollowingAp
     DEF AcquireApLock, TypeOK, Control, mp, open, local, wake, Calls, CallType, NoRequest,
         Starting, InWakeUp, WakePcs
<1>32. ASSUME NEW c \in Aps, WriteState(c) PROVE TypeOK'
  <2>1. State' \in [Aps -> {"idle", "ready", "busy", "finished", "disabled"}]
    BY <1>32 DEF WriteState, TypeOK
  <2>2. begun' \in [Aps -> SUBSET Calls]
    BY <1>32 DEF WriteState, TypeOK
  <2>3. ap' \in [Aps -> {"loop", "woken", "check", "fetch", "begin", "lockedBusy", "setBusy",
                   "procedure", "finish", "lockedFinished", "setFinished", "count"}]
    BY <1>32 DEF WriteState, TypeOK
  <2> QED
    BY <1>32, <2>1, <2>2, <2>3 DEF WriteState, TypeOK, mp, open, local, wake
<1>33. ASSUME NEW c \in Aps, BeginProcedure(c) PROVE TypeOK'
  BY <1>33, MpAssumption, FollowingAp
     DEF BeginProcedure, TypeOK, Control, mp, open, local, wake, Calls, CallType, NoRequest,
         Starting, InWakeUp, WakePcs
<1>34. ASSUME NEW c \in Aps, EndProcedure(c) PROVE TypeOK'
  BY <1>34, MpAssumption, FollowingAp
     DEF EndProcedure, TypeOK, Control, mp, open, local, wake, Calls, CallType, NoRequest,
         Starting, InWakeUp, WakePcs
<1>35. ASSUME NEW c \in Aps, Finish(c) PROVE TypeOK'
  BY <1>35, MpAssumption, FollowingAp
     DEF Finish, TypeOK, Control, mp, open, local, wake, Calls, CallType, NoRequest,
         Starting, InWakeUp, WakePcs
<1>36. ASSUME NEW c \in Aps, Count(c) PROVE TypeOK'
  BY <1>36, MpAssumption, FollowingAp
     DEF Count, TypeOK, Control, mp, open, local, wake, Calls, CallType, NoRequest,
         Starting, InWakeUp, WakePcs
<1>37. ASSUME NEW c \in Aps, ExpireThis(c) PROVE TypeOK'
  <2>1. [this[c] EXCEPT !.expired = TRUE] \in CallType
    BY Expired DEF TypeOK, WakePcs
  <2>2. this' = [this EXCEPT ![c] = [this[c] EXCEPT !.expired = TRUE]]
    BY <1>37 DEF ExpireThis
  <2>3. this' \in [Aps -> CallType]
    BY <2>1, <2>2 DEF TypeOK, WakePcs
  <2> QED
    BY <1>37, <2>3 DEF ExpireThis, TypeOK, WakePcs, aps, mp, local, wake
<1>38. CASE UNCHANGED vars
  BY <1>38, MpAssumption, FollowingAp
     DEF vars, TypeOK, Control, aps, mp, open, local, wake, Calls, CallType, NoRequest,
         Starting, InWakeUp, WakePcs
<1> QED
  BY <1>1, <1>2, <1>3, <1>4, <1>5, <1>6, <1>7, <1>8, <1>9, <1>10, <1>11, <1>12, <1>13,
     <1>14, <1>15, <1>16, <1>17, <1>18, <1>19, <1>20, <1>21, <1>22, <1>23, <1>24, <1>25,
     <1>26, <1>27, <1>28, <1>29, <1>30, <1>31, <1>32, <1>33, <1>34, <1>35, <1>36, <1>37,
     <1>38
     DEF Next, Bsp, ApLoop, Expire

LEMMA NextControl ==
  ASSUME TypeOK, Control, WakeOK, Accounts, [Next]_vars
  PROVE  Control'
<1>1. CASE Wake
  BY <1>1, MpAssumption
     DEF Wake, aps, Control, TypeOK, wake, Aps, mp, open, local, NoRequest, Starting, InWakeUp,
         WakePcs
<1>2. CASE GiveFunction
  BY <1>2, MpAssumption
     DEF GiveFunction, aps, Control, TypeOK, Aps, mp, open, local, wake, NoRequest, Starting,
         InWakeUp, WakePcs
<1>3. CASE SetReady
  BY <1>3, MpAssumption
     DEF SetReady, aps, Control, TypeOK, Aps, mp, open, local, wake, NoRequest, Starting,
         InWakeUp, WakePcs
<1>4. CASE Signal
  BY <1>4, MpAssumption
     DEF Signal, aps, Control, TypeOK, Aps, mp, open, local, wake, NoRequest, Starting,
         InWakeUp, WakePcs
<1>5. CASE SendInitSipiSipi
  BY <1>5, MpAssumption
     DEF SendInitSipiSipi, Control, TypeOK, Aps, mp, open, local, wake, NoRequest, Starting,
         InWakeUp, WakePcs
<1>6. CASE WaitApWakeup
  BY <1>6, MpAssumption
     DEF WaitApWakeup, Control, TypeOK, WakeOK, aps, mp, open, local, NoRequest, Aps,
         Starting, wake, InWakeUp, WakePcs
<1>7. CASE ResetDone
  <2>1. PICK c \in targets :
          \/ back = "fail" /\ Goto("fail", index)
          \/ back = "timeout" /\ EndThis(c, "timeout")
          \/ back = "caller" /\ Goto("caller", 1)
    BY <1>7 DEF ResetDone
  <2>2. InWakeUp /\ calls' = calls /\ back' = "caller"
    BY <1>7 DEF ResetDone, InWakeUp, WakePcs
  <2>3. CASE back = "fail" /\ Goto("fail", index)
    BY <2>2, <2>3 DEF Control, Goto, InWakeUp, Starting, WakePcs
  <2>4. CASE back = "timeout" /\ Goto(AfterCheck, Following(c))
    BY <2>2, <2>4 DEF Control, TypeOK, Goto, AfterCheck, NoRequest, InWakeUp, Starting, WakePcs
  <2>5. CASE back = "caller" /\ Goto("caller", 1)
    BY <2>2, <2>5 DEF Control, TypeOK, Goto, NoRequest, InWakeUp, Starting, WakePcs
  <2> QED
    BY <2>1, <2>3, <2>4, <2>5 DEF EndThis
<1>8. CASE ScanOne
  BY <1>8, MpAssumption
     DEF ScanOne, Control, TypeOK, Rest, NextWaiting, CallWakeUpAP, aps, open, NoRequest,
         Aps, Starting, wake, InWakeUp, WakePcs
<1>9. CASE ScanEnd
  <2>1. bsp = "scan" /\ calls' = calls /\ back' = back
    BY <1>9 DEF ScanEnd, wake
  <2>2. \/ Goto(AfterCheck, 1)
        \/ Goto("fail", 1)
        \/ Goto("scan", 1)
        \/ Goto("updateThis", 1) /\ ~polling
    BY <1>9 DEF ScanEnd, EndAll
  <2>3. CASE Goto(AfterCheck, 1)
    BY <2>1, <2>3 DEF Control, TypeOK, Goto, AfterCheck, NoRequest, InWakeUp, Starting, WakePcs
  <2>4. CASE Goto("fail", 1)
    BY <2>1, <2>4 DEF Control, TypeOK, Goto, InWakeUp, Starting, WakePcs
  <2>5. CASE Goto("scan", 1)
    BY <2>1, <2>5 DEF Control, TypeOK, Goto, InWakeUp, Starting, WakePcs
  <2>6. CASE Goto("updateThis", 1) /\ ~polling
    BY <2>1, <2>6 DEF Control, TypeOK, Goto, InWakeUp, Starting, WakePcs
  <2> QED
    BY <2>2, <2>3, <2>4, <2>5, <2>6
<1>10. CASE FailOne
  BY <1>10, MpAssumption
     DEF FailOne, Control, TypeOK, Unfinished, CallReset, aps, mp, open, NoRequest, Aps,
         Starting, wake, Rest, CallWakeUpAP, InWakeUp, WakePcs
<1>11. CASE FailEnd
  BY <1>11, MpAssumption
     DEF FailEnd, Control, TypeOK, Unfinished, EndAll, aps, mp, wake, NoRequest, Aps,
         Starting, Rest, NoCall, Goto, AfterCheck, InWakeUp, WakePcs
<1>12. CASE ThisFinished
  BY <1>12, MpAssumption
     DEF ThisFinished, Control, TypeOK, EndThis, aps, mp, wake, NoRequest, Aps, Starting,
         NoCall, Goto, AfterCheck, InWakeUp, WakePcs
<1>13. CASE ThisTimeout
  BY <1>13, MpAssumption
     DEF ThisTimeout, Control, TypeOK, CallReset, aps, mp, open, local, NoRequest, Aps,
         Starting, wake, CallWakeUpAP, InWakeUp, WakePcs
<1>14. CASE ThisNotReady
  BY <1>14, MpAssumption
     DEF ThisNotReady, Control, TypeOK, Goto, aps, mp, open, wake, NoRequest, Aps, Starting,
         InWakeUp, WakePcs
<1>15. CASE UpdateAll
  BY <1>15, MpAssumption
     DEF UpdateAll, Control, TypeOK, Goto, aps, mp, open, wake, NoRequest, Aps, Starting,
         InWakeUp, WakePcs
<1>16. CASE UpdateThis
  <2> DEFINE pending == {c \in Aps : this[c].event /\ c >= index}
  <2>1. bsp = "updateThis" /\ calls' = calls /\ back' = back
    BY <1>16 DEF UpdateThis, open, wake
  <2>2. CASE pending # {} /\ Goto("this", First(pending))
    <3>1. First(pending) \in Aps
      BY <2>2, FirstLeast
    <3> HIDE DEF pending
    <3> QED
      BY <2>1, <2>2, <3>1 DEF Control, Goto, InWakeUp, Starting, WakePcs
  <2>3. CASE Goto(request.service, 1)
    <3>1. /\ request.service \in {"caller", "startAll", "startThis"}
          /\ request.service = "caller" => request = NoRequest
      BY MpAssumption DEF TypeOK, NoRequest, Services
    <3>2. NoRequest.service = "caller"
      BY DEF NoRequest
    <3> QED
      BY <2>1, <2>3, <3>1, <3>2 DEF Control, TypeOK, Goto, InWakeUp, Starting, WakePcs
  <2> QED
    BY <1>16, <2>2, <2>3 DEF UpdateThis
<1>17. CASE RefuseAll
  BY <1>17, MpAssumption
     DEF RefuseAll, Control, TypeOK, Enabled, Goto, aps, mp, open, wake, NoRequest, Aps,
         Starting, InWakeUp, WakePcs
<1>18. CASE StartAll
  BY <1>18, MpAssumption
     DEF StartAll, Control, TypeOK, Enabled, Aps, NewCall, CallWakeUpAP, FirstOnly, aps,
         local, NoRequest, Starting, wake, InWakeUp, WakePcs
<1>19. CASE RefuseThis
  BY <1>19, MpAssumption
     DEF RefuseThis, Control, TypeOK, Goto, aps, mp, open, wake, NoRequest, Aps, Starting,
         InWakeUp, WakePcs
<1>20. CASE StartThis
  BY <1>20, MpAssumption
     DEF StartThis, Control, TypeOK, NewCall, CallWakeUpAP, aps, mp, local, NoRequest, Aps,
         Starting, wake, InWakeUp, WakePcs
<1>21. CASE Started
  BY <1>21, MpAssumption, RequestType
     DEF Started, Control, TypeOK, Services, Goto, aps, mp, open, wake, NoRequest, Aps,
         Starting, InWakeUp, WakePcs
<1>22. CASE CheckApsStatus
  BY <1>22, MpAssumption
     DEF CheckApsStatus, Control, TypeOK, Aps, aps, mp, open, local, wake, NoRequest,
         Starting, InWakeUp, WakePcs
<1>23. CASE StartupAllAPs
  <2>1. /\ request'.service = "startAll" /\ bsp' = "update" /\ calls' = calls + 1
        /\ bsp = "caller" /\ UNCHANGED <<polling, back>>
    BY <1>23 DEF StartupAllAPs, Startup, Called, wake
  <2> QED
    BY <2>1 DEF Control, TypeOK, Calls, InWakeUp, Starting, WakePcs
<1>24. CASE ExpireAll
  BY <1>24, MpAssumption
     DEF ExpireAll, Control, TypeOK, aps, mp, local, wake, NoRequest, Aps, Starting,
         InWakeUp, WakePcs
<1>25. ASSUME NEW c \in Aps, StartupThisAP(c) PROVE Control'
  <2>1. /\ apNumber' = c /\ bsp' = "update" /\ calls' = calls + 1
        /\ bsp = "caller" /\ UNCHANGED <<polling, back>>
    BY <1>25 DEF StartupThisAP, Startup, Called, wake
  <2> QED
    BY <2>1 DEF Control, TypeOK, Calls, InWakeUp, Starting, WakePcs
<1>26. ASSUME NEW c \in Aps, DisableAP(c) PROVE Control'
  BY <1>26, MpAssumption
     DEF DisableAP, Control, TypeOK, Called, aps, mp, local, wake, NoRequest, Aps, Starting,
         InWakeUp, WakePcs
<1>27. ASSUME NEW c \in Aps, EnableAP(c) PROVE Control'
  BY <1>27, MpAssumption
     DEF EnableAP, Control, TypeOK, Called, CallReset, aps, mp, local, NoRequest, Aps,
         Starting, wake, CallWakeUpAP, InWakeUp, WakePcs
<1>28. ASSUME NEW c \in Aps, ClearSignal(c) PROVE Control'
  BY <1>28, MpAssumption
     DEF ClearSignal, Control, TypeOK, mp, open, local, wake, NoRequest, Aps, Starting,
         InWakeUp, WakePcs
<1>29. ASSUME NEW c \in Aps, ReadState(c) PROVE Control'
  BY <1>29, MpAssumption
     DEF ReadState, Control, TypeOK, mp, open, local, wake, NoRequest, Aps, Starting,
         InWakeUp, WakePcs
<1>30. ASSUME NEW c \in Aps, ReadFunction(c) PROVE Control'
  BY <1>30, MpAssumption
     DEF ReadFunction, Control, TypeOK, mp, open, local, wake, NoRequest, Aps, Starting,
         InWakeUp, WakePcs
<1>31. ASSUME NEW c \in Aps, AcquireApLock(c) PROVE Control'
  BY <1>31, MpAssumption
     DEF AcquireApLock, Control, TypeOK, mp, open, local, wake, NoRequest, Aps, Starting,
         InWakeUp, WakePcs
<1>32. ASSUME NEW c \in Aps, WriteState(c) PROVE Control'
  BY <1>32, MpAssumption
     DEF WriteState, Control, TypeOK, mp, open, local, wake, NoRequest, Aps, Starting,
         InWakeUp, WakePcs
<1>33. ASSUME NEW c \in Aps, BeginProcedure(c) PROVE Control'
  BY <1>33, MpAssumption
     DEF BeginProcedure, Control, TypeOK, mp, open, local, wake, NoRequest, Aps, Starting,
         InWakeUp, WakePcs
<1>34. ASSUME NEW c \in Aps, EndProcedure(c) PROVE Control'
  BY <1>34, MpAssumption
     DEF EndProcedure, Control, TypeOK, mp, open, local, wake, NoRequest, Aps, Starting,
         InWakeUp, WakePcs
<1>35. ASSUME NEW c \in Aps, Finish(c) PROVE Control'
  BY <1>35, MpAssumption
     DEF Finish, Control, TypeOK, mp, open, local, wake, NoRequest, Aps, Starting, InWakeUp,
         WakePcs
<1>36. ASSUME NEW c \in Aps, Count(c) PROVE Control'
  BY <1>36, MpAssumption
     DEF Count, Control, TypeOK, mp, open, local, wake, NoRequest, Aps, Starting, InWakeUp,
         WakePcs
<1>37. ASSUME NEW c \in Aps, ExpireThis(c) PROVE Control'
  BY <1>37, MpAssumption
     DEF ExpireThis, Control, TypeOK, aps, mp, local, wake, NoRequest, Aps, Starting,
         InWakeUp, WakePcs
<1>38. CASE UNCHANGED vars
  BY <1>38, MpAssumption
     DEF vars, Control, TypeOK, aps, mp, open, local, wake, NoRequest, Aps, Starting,
         InWakeUp, WakePcs
<1> QED
  BY <1>1, <1>2, <1>3, <1>4, <1>5, <1>6, <1>7, <1>8, <1>9, <1>10, <1>11, <1>12, <1>13,
     <1>14, <1>15, <1>16, <1>17, <1>18, <1>19, <1>20, <1>21, <1>22, <1>23, <1>24, <1>25,
     <1>26, <1>27, <1>28, <1>29, <1>30, <1>31, <1>32, <1>33, <1>34, <1>35, <1>36, <1>37,
     <1>38
     DEF Next, Bsp, ApLoop, Expire

LEMMA NextWakeOK ==
  ASSUME TypeOK, Control, WakeOK, Accounts, [Next]_vars
  PROVE  WakeOK'
<1>1. CASE Wake
  BY <1>1, MpAssumption
     DEF Wake, aps, WakeOK, TypeOK, Control, wake, mp, open, local, InWakeUp, NoRequest,
         Starting, WakePcs
<1>2. CASE GiveFunction
  <2>1. PICK d \in Aps : /\ d \in untold /\ told' = d
                         /\ ApFunction' = [ApFunction EXCEPT ![d] = fn]
    BY <1>2, Giving
  <2>2. told' \in untold /\ ApFunction'[d] = fn
    BY <2>1 DEF TypeOK
  <2>3. ApFunction'[told'] = fn
    BY <2>1, <2>2
  <2>4. /\ bsp = "function" /\ bsp' = "ready"
        /\ UNCHANGED <<targets, untold, fn, back, InitFlag, all, this, Waiting, index, request,
                       apNumber, calls>>
    BY <1>2 DEF GiveFunction, mp, open, local
  <2> QED
    BY <2>2, <2>3, <2>4 DEF WakeOK, InWakeUp, Starting, WakePcs
<1>3. CASE SetReady
  BY <1>3, MpAssumption
     DEF SetReady, aps, WakeOK, TypeOK, Control, mp, open, local, wake, InWakeUp,
         NoRequest, Starting, WakePcs
<1>4. CASE Signal
  BY <1>4, MpAssumption
     DEF Signal, aps, WakeOK, TypeOK, Control, mp, open, local, wake, InWakeUp,
         NoRequest, Starting, WakePcs
<1>5. CASE SendInitSipiSipi
  BY <1>5, MpAssumption
     DEF SendInitSipiSipi, WakeOK, TypeOK, Control, mp, open, local, wake, InWakeUp,
         NoRequest, Starting, WakePcs
<1>6. CASE WaitApWakeup
  BY <1>6, MpAssumption
     DEF WaitApWakeup, WakeOK, TypeOK, Control, aps, mp, open, local, InWakeUp, NoRequest,
         Starting, wake, WakePcs
<1>7. CASE ResetDone
  BY <1>7, MpAssumption
     DEF ResetDone, WakeOK, TypeOK, Control, Goto, EndThis, aps, InWakeUp, NoRequest,
         Starting, wake, NoCall, AfterCheck, WakePcs
<1>8. CASE ScanOne
  <2> DEFINE c == First(Rest)
  <2>1. \/ UNCHANGED <<bsp, targets, untold, told, fn, back>>
        \/ \E d \in NextWaiting(c) :
             CallWakeUpAP({d}, all.id, "scan") /\ Waiting' = [Waiting EXCEPT ![c] = FALSE]
    <3>1. NextWaiting(c) # {} => First(NextWaiting(c)) \in NextWaiting(c)
      BY FirstLeast DEF NextWaiting
    <3> QED
      BY <1>8, <3>1 DEF ScanOne
  <2>2. bsp = "scan" /\ UNCHANGED <<InitFlag, all>>
    BY <1>8 DEF ScanOne, open
  <2> HIDE DEF c
  <2>3. CASE UNCHANGED <<bsp, targets, untold, told, fn, back>>
    BY <2>2, <2>3 DEF WakeOK, InWakeUp, WakePcs, Starting
  <2>4. ASSUME NEW d \in NextWaiting(c), CallWakeUpAP({d}, all.id, "scan"),
               Waiting' = [Waiting EXCEPT ![c] = FALSE]
        PROVE  WakeOK'
    <3>1. Waiting'[d] /\ all.id # 0
      BY <2>4 DEF NextWaiting, TypeOK, Accounts
    <3> QED
      BY <2>2, <2>4, <3>1 DEF WakeOK, CallWakeUpAP, InWakeUp, WakePcs, Starting
  <2> QED
    BY <2>1, <2>3, <2>4
<1>9. CASE ScanEnd
  BY <1>9, MpAssumption
     DEF ScanEnd, WakeOK, TypeOK, Control, Rest, EndAll, Goto, aps, mp, wake, InWakeUp,
         NoRequest, Starting, NoCall, AfterCheck, WakePcs
<1>10. CASE FailOne
  <2>1. First(Unfinished) \in Rest
    BY <1>10, FirstLeast DEF FailOne, Unfinished, Rest
  <2>2. /\ targets' = {First(Unfinished)} /\ fn' = 0 /\ back' = "fail" /\ bsp' = "wake"
        /\ untold' = targets' /\ InitFlag' = "reconfig" /\ UNCHANGED Waiting
    BY <1>10 DEF FailOne, CallReset, CallWakeUpAP, mp
  <2> QED
    BY <2>1, <2>2 DEF WakeOK, Rest, InWakeUp, WakePcs, Starting
<1>11. CASE FailEnd
  BY <1>11, MpAssumption
     DEF FailEnd, WakeOK, TypeOK, Control, Unfinished, EndAll, aps, mp, wake, InWakeUp,
         NoRequest, Starting, Rest, NoCall, Goto, AfterCheck, WakePcs
<1>12. CASE ThisFinished
  BY <1>12, MpAssumption
     DEF ThisFinished, WakeOK, TypeOK, Control, EndThis, aps, mp, wake, InWakeUp, NoRequest,
         Starting, NoCall, Goto, AfterCheck, WakePcs
<1>13. CASE ThisTimeout
  BY <1>13, MpAssumption
     DEF ThisTimeout, WakeOK, TypeOK, Control, CallReset, aps, mp, open, local, InWakeUp,
         NoRequest, Starting, wake, CallWakeUpAP, WakePcs
<1>14. CASE ThisNotReady
  BY <1>14, MpAssumption
     DEF ThisNotReady, WakeOK, TypeOK, Control, Goto, aps, mp, open, wake, InWakeUp,
         NoRequest, Starting, WakePcs
<1>15. CASE UpdateAll
  BY <1>15, MpAssumption
     DEF UpdateAll, WakeOK, TypeOK, Control, Goto, aps, mp, open, wake, InWakeUp, NoRequest,
         Starting, WakePcs
<1>16. CASE UpdateThis
  BY <1>16, MpAssumption, RequestType
     DEF UpdateThis, WakeOK, TypeOK, Control, Services, Goto, aps, mp, open, wake, InWakeUp,
         NoRequest, Starting, WakePcs
<1>17. CASE RefuseAll
  BY <1>17, MpAssumption
     DEF RefuseAll, WakeOK, TypeOK, Control, Enabled, Goto, aps, mp, open, wake, InWakeUp,
         NoRequest, Starting, WakePcs
<1>18. CASE StartAll
  <2>1. /\ fn' = calls /\ back' = "started" /\ bsp' = "wake" /\ calls' = calls
        /\ request' = request /\ InitFlag' = InitFlag /\ bsp = "startAll"
    BY <1>18 DEF StartAll, CallWakeUpAP, local
  <2>2. calls # 0 /\ request'.service = "startAll"
    BY <2>1 DEF Control, NoRequest
  <2>3. all'.id = calls /\ \A c \in all'.for : Waiting'[c]
    BY <1>18 DEF StartAll, NewCall, Enabled
  <2>4. untold' = targets' /\ targets' # {}
    BY <1>18, FirstLeast, MpAssumption DEF StartAll, CallWakeUpAP, FirstOnly, Enabled, Aps
  <2> QED
    BY <2>1, <2>2, <2>3, <2>4 DEF WakeOK, InWakeUp, WakePcs, Starting
<1>19. CASE RefuseThis
  BY <1>19, MpAssumption
     DEF RefuseThis, WakeOK, TypeOK, Control, Goto, aps, mp, open, wake, InWakeUp,
         NoRequest, Starting, WakePcs
<1>20. CASE StartThis
  BY <1>20, MpAssumption
     DEF StartThis, WakeOK, TypeOK, Control, NewCall, CallWakeUpAP, aps, mp, local,
         InWakeUp, NoRequest, Starting, wake, WakePcs
<1>21. CASE Started
  BY <1>21, MpAssumption
     DEF Started, WakeOK, TypeOK, Control, Goto, aps, mp, open, wake, InWakeUp, NoRequest,
         Starting, WakePcs
<1>22. CASE CheckApsStatus
  BY <1>22, MpAssumption
     DEF CheckApsStatus, WakeOK, TypeOK, Control, aps, mp, open, local, wake, InWakeUp,
         NoRequest, Starting, WakePcs
<1>23. CASE StartupAllAPs
  BY <1>23, MpAssumption
     DEF StartupAllAPs, WakeOK, TypeOK, Control, Startup, InWakeUp, NoRequest, Starting,
         wake, Called, aps, mp, WakePcs
<1>24. CASE ExpireAll
  BY <1>24, MpAssumption
     DEF ExpireAll, WakeOK, TypeOK, Control, aps, mp, local, wake, InWakeUp, NoRequest,
         Starting, WakePcs
<1>25. ASSUME NEW c \in Aps, StartupThisAP(c) PROVE WakeOK'
  BY <1>25, MpAssumption
     DEF StartupThisAP, WakeOK, TypeOK, Control, Startup, InWakeUp, NoRequest, Starting,
         wake, Called, aps, mp, WakePcs
<1>26. ASSUME NEW c \in Aps, DisableAP(c) PROVE WakeOK'
  BY <1>26, MpAssumption
     DEF DisableAP, WakeOK, TypeOK, Control, Called, aps, mp, local, wake, InWakeUp,
         NoRequest, Starting, WakePcs
<1>27. ASSUME NEW c \in Aps, EnableAP(c) PROVE WakeOK'
  BY <1>27, MpAssumption
     DEF EnableAP, WakeOK, TypeOK, Control, Called, CallReset, aps, mp, local, InWakeUp,
         NoRequest, Starting, wake, CallWakeUpAP, WakePcs
<1>28. ASSUME NEW c \in Aps, ClearSignal(c) PROVE WakeOK'
  BY <1>28, MpAssumption
     DEF ClearSignal, WakeOK, TypeOK, Control, mp, open, local, wake, InWakeUp, NoRequest,
         Starting, WakePcs
<1>29. ASSUME NEW c \in Aps, ReadState(c) PROVE WakeOK'
  BY <1>29, MpAssumption
     DEF ReadState, WakeOK, TypeOK, Control, mp, open, local, wake, InWakeUp, NoRequest,
         Starting, WakePcs
<1>30. ASSUME NEW c \in Aps, ReadFunction(c) PROVE WakeOK'
  BY <1>30, MpAssumption
     DEF ReadFunction, WakeOK, TypeOK, Control, mp, open, local, wake, InWakeUp,
         NoRequest, Starting, WakePcs
<1>31. ASSUME NEW c \in Aps, AcquireApLock(c) PROVE WakeOK'
  BY <1>31, MpAssumption
     DEF AcquireApLock, WakeOK, TypeOK, Control, mp, open, local, wake, InWakeUp,
         NoRequest, Starting, WakePcs
<1>32. ASSUME NEW c \in Aps, WriteState(c) PROVE WakeOK'
  BY <1>32, MpAssumption
     DEF WriteState, WakeOK, TypeOK, Control, mp, open, local, wake, InWakeUp,
         NoRequest, Starting, WakePcs
<1>33. ASSUME NEW c \in Aps, BeginProcedure(c) PROVE WakeOK'
  BY <1>33, MpAssumption
     DEF BeginProcedure, WakeOK, TypeOK, Control, mp, open, local, wake, InWakeUp,
         NoRequest, Starting, WakePcs
<1>34. ASSUME NEW c \in Aps, EndProcedure(c) PROVE WakeOK'
  BY <1>34, MpAssumption
     DEF EndProcedure, WakeOK, TypeOK, Control, mp, open, local, wake, InWakeUp, NoRequest,
         Starting, WakePcs
<1>35. ASSUME NEW c \in Aps, Finish(c) PROVE WakeOK'
  BY <1>35, MpAssumption
     DEF Finish, WakeOK, TypeOK, Control, mp, open, local, wake, InWakeUp, NoRequest,
         Starting, WakePcs
<1>36. ASSUME NEW c \in Aps, Count(c) PROVE WakeOK'
  BY <1>36, MpAssumption
     DEF Count, WakeOK, TypeOK, Control, mp, open, local, wake, InWakeUp, NoRequest,
         Starting, WakePcs
<1>37. ASSUME NEW c \in Aps, ExpireThis(c) PROVE WakeOK'
  BY <1>37, MpAssumption
     DEF ExpireThis, WakeOK, TypeOK, Control, aps, mp, local, wake, InWakeUp, NoRequest,
         Starting, WakePcs
<1>38. CASE UNCHANGED vars
  BY <1>38, MpAssumption
     DEF vars, WakeOK, TypeOK, Control, aps, mp, open, local, wake, InWakeUp, NoRequest,
         Starting, WakePcs
<1> QED
  BY <1>1, <1>2, <1>3, <1>4, <1>5, <1>6, <1>7, <1>8, <1>9, <1>10, <1>11, <1>12, <1>13,
     <1>14, <1>15, <1>16, <1>17, <1>18, <1>19, <1>20, <1>21, <1>22, <1>23, <1>24, <1>25,
     <1>26, <1>27, <1>28, <1>29, <1>30, <1>31, <1>32, <1>33, <1>34, <1>35, <1>36, <1>37,
     <1>38
     DEF Next, Bsp, ApLoop, Expire

\* An AP's start-up signal is only set after WakeUpAP has made it ready, and as long
\* as it waits for the AP to clear it.
Signals ==
  \A c \in Aps : StartupApSignal[c] => c \in targets \ untold /\ bsp # "reset"

\* The number that the last call made has.
LastCall == IF Preparing THEN calls - 1 ELSE calls

\* A call that has been made is not taken back.
Later ==
  /\ calls' = calls \/ calls' = calls + 1
  /\ Preparing' => Preparing \/ calls' = calls + 1

\* Calls are told apart by their numbers.
Numbered ==
  /\ all.id <= LastCall /\ result.id <= LastCall
  /\ \A c \in Aps : this[c].id <= LastCall
  /\ all.id # 0 => all.id # result.id /\ \A c \in Aps : all.id # this[c].id
  /\ all.id = 0 => all = NoCall
  /\ \A c \in Aps : this[c].for \subseteq {c} /\ (this[c].id = 0 => this[c] = NoCall)

\* No AP has heard of a call before it is made.
Heard ==
  \A c \in Aps : /\ ApFunction[c] <= LastCall /\ task[c] <= LastCall
                 /\ \A i \in begun[c] : i <= LastCall

Resetting(c) == InWakeUp /\ fn = 0 /\ c \in targets

\* Where an AP is that is about to begin the procedure it has read; where it is in a
\* procedure or about to; where it has something to do with one.
Begins == {"begin", "lockedBusy", "setBusy"}
Executes == Begins \cup {"procedure"}
Works == Executes \cup {"fetch", "finish", "lockedFinished"}

\* A reset AP has lost its procedure, one that has finished runs none, and one
\* that runs a procedure was given one.
Stopped ==
  \A c \in Aps :
    /\ Resetting(c) /\ c \notin untold => ApFunction[c] = 0
    /\ Resetting(c) /\ bsp \in {"wakeup", "reset"} => ap[c] \notin Executes
    /\ State[c] = "finished" => ap[c] \notin Works
    /\ ap[c] \in Executes => task[c] # 0

\* AP c may run the procedure of call t: a call that was made for c and has ended
\* is not run, and one in progress is still waited for.
Legit(c, t) ==
  t # 0 => /\ t = result.id => c \notin result.for
           /\ t = all.id /\ c \in all.for => Waiting[c]

\* AP c will read ApFunction, or is about to.
Reading(c) == State[c] = "ready" \/ ap[c] = "fetch"

Legitimate ==
  /\ \A c \in Aps : Reading(c) => Legit(c, ApFunction[c])
  /\ \A c \in Aps : ap[c] \in Executes => Legit(c, task[c])
  /\ \A c \in untold : Legit(c, fn)

LEMMA NextSignals ==
  ASSUME TypeOK, WakeOK, Signals, [Next]_vars
  PROVE  Signals'
<1>1. CASE Wake
  BY <1>1, MpAssumption DEF Wake, aps, Signals, TypeOK, wake, mp, open, local, NoRequest
<1>2. CASE GiveFunction
  BY <1>2, MpAssumption
     DEF GiveFunction, aps, Signals, TypeOK, mp, open, local, wake, NoRequest
<1>3. CASE SetReady
  BY <1>3, MpAssumption
     DEF SetReady, aps, Signals, TypeOK, mp, open, local, wake, NoRequest
<1>4. CASE Signal
  BY <1>4, MpAssumption
     DEF Signal, aps, Signals, TypeOK, WakeOK, InWakeUp, WakePcs, mp, open, local, wake, NoRequest
<1>5. CASE SendInitSipiSipi
  BY <1>5, MpAssumption
     DEF SendInitSipiSipi, Signals, TypeOK, mp, open, local, wake, NoRequest
<1>6. CASE WaitApWakeup
  BY <1>6, MpAssumption
     DEF WaitApWakeup, Signals, TypeOK, aps, mp, open, local, wake, NoRequest
<1>7. CASE ResetDone
  <2>1. UNCHANGED <<ap, StartupApSignal, untold>> /\ bsp' \notin WakePcs
    BY <1>7 DEF ResetDone, aps, Goto, EndThis, AfterCheck, WakePcs
  <2> QED
    BY <1>7, <2>1 DEF ResetDone, Signals, InWakeUp, WakePcs
<1>8. CASE ScanOne
  BY <1>8 DEF ScanOne, aps, Signals, WakeOK, InWakeUp, WakePcs
<1>9. CASE ScanEnd
  BY <1>9 DEF ScanEnd, aps, Signals, WakeOK, InWakeUp, WakePcs
<1>10. CASE FailOne
  BY <1>10 DEF FailOne, aps, Signals, WakeOK, InWakeUp, WakePcs
<1>11. CASE FailEnd
  BY <1>11 DEF FailEnd, aps, Signals, WakeOK, InWakeUp, WakePcs
<1>12. CASE ThisFinished
  BY <1>12 DEF ThisFinished, aps, Signals, WakeOK, InWakeUp, WakePcs
<1>13. CASE ThisTimeout
  BY <1>13 DEF ThisTimeout, aps, Signals, WakeOK, InWakeUp, WakePcs
<1>14. CASE ThisNotReady
  BY <1>14 DEF ThisNotReady, aps, Signals, WakeOK, InWakeUp, WakePcs
<1>15. CASE UpdateAll
  BY <1>15 DEF UpdateAll, aps, Signals, WakeOK, InWakeUp, WakePcs
<1>16. CASE UpdateThis
  BY <1>16 DEF UpdateThis, aps, Signals, WakeOK, InWakeUp, WakePcs
<1>17. CASE RefuseAll
  BY <1>17 DEF RefuseAll, aps, Signals, WakeOK, InWakeUp, WakePcs
<1>18. CASE StartAll
  BY <1>18 DEF StartAll, aps, Signals, WakeOK, InWakeUp, WakePcs
<1>19. CASE RefuseThis
  BY <1>19 DEF RefuseThis, aps, Signals, WakeOK, InWakeUp, WakePcs
<1>20. CASE StartThis
  BY <1>20 DEF StartThis, aps, Signals, WakeOK, InWakeUp, WakePcs
<1>21. CASE Started
  BY <1>21 DEF Started, aps, Signals, WakeOK, InWakeUp, WakePcs
<1>22. CASE CheckApsStatus
  BY <1>22, MpAssumption
     DEF CheckApsStatus, Signals, TypeOK, aps, mp, open, local, wake, NoRequest
<1>23. CASE StartupAllAPs
  BY <1>23 DEF StartupAllAPs, Startup, Called, aps, Signals, WakeOK, InWakeUp, WakePcs
<1>24. CASE ExpireAll
  BY <1>24, MpAssumption DEF ExpireAll, Signals, TypeOK, aps, mp, local, wake, NoRequest
<1>25. ASSUME NEW c \in Aps, StartupThisAP(c) PROVE Signals'
  BY <1>25, MpAssumption
     DEF StartupThisAP, Signals, TypeOK, Startup, wake, NoRequest, Called, aps, mp
<1>26. ASSUME NEW c \in Aps, DisableAP(c) PROVE Signals'
  BY <1>26, MpAssumption
     DEF DisableAP, Signals, TypeOK, Called, aps, mp, local, wake, NoRequest
<1>27. ASSUME NEW c \in Aps, EnableAP(c) PROVE Signals'
  BY <1>27, MpAssumption
     DEF EnableAP, Signals, TypeOK, WakeOK, InWakeUp, WakePcs, Called, CallReset, aps, mp,
         local, wake, NoRequest,
         CallWakeUpAP
<1>28. ASSUME NEW c \in Aps, ClearSignal(c) PROVE Signals'
  BY <1>28, MpAssumption DEF ClearSignal, Signals, TypeOK, mp, open, local, wake, NoRequest
<1>29. ASSUME NEW c \in Aps, ReadState(c) PROVE Signals'
  BY <1>29, MpAssumption
     DEF ReadState, Signals, TypeOK, IsReady, mp, open, local, wake, NoRequest
<1>30. ASSUME NEW c \in Aps, ReadFunction(c) PROVE Signals'
  BY <1>30, MpAssumption
     DEF ReadFunction, Signals, TypeOK, mp, open, local, wake, NoRequest
<1>31. ASSUME NEW c \in Aps, AcquireApLock(c) PROVE Signals'
  BY <1>31, MpAssumption
     DEF AcquireApLock, Signals, TypeOK, mp, open, local, wake, NoRequest
<1>32. ASSUME NEW c \in Aps, WriteState(c) PROVE Signals'
  BY <1>32, MpAssumption
     DEF WriteState, Signals, TypeOK, mp, open, local, wake, NoRequest
<1>33. ASSUME NEW c \in Aps, BeginProcedure(c) PROVE Signals'
  BY <1>33, MpAssumption
     DEF BeginProcedure, Signals, TypeOK, mp, open, local, wake, NoRequest
<1>34. ASSUME NEW c \in Aps, EndProcedure(c) PROVE Signals'
  BY <1>34, MpAssumption DEF EndProcedure, Signals, TypeOK, mp, open, local, wake, NoRequest
<1>35. ASSUME NEW c \in Aps, Finish(c) PROVE Signals'
  BY <1>35, MpAssumption DEF Finish, Signals, TypeOK, mp, open, local, wake, NoRequest
<1>36. ASSUME NEW c \in Aps, Count(c) PROVE Signals'
  BY <1>36, MpAssumption DEF Count, Signals, TypeOK, mp, open, local, wake, NoRequest
<1>37. ASSUME NEW c \in Aps, ExpireThis(c) PROVE Signals'
  BY <1>37, MpAssumption DEF ExpireThis, Signals, TypeOK, aps, mp, local, wake, NoRequest
<1>38. CASE UNCHANGED vars
  BY <1>38, MpAssumption DEF vars, Signals, TypeOK, aps, mp, open, local, wake, NoRequest
<1> QED
  BY <1>1, <1>2, <1>3, <1>4, <1>5, <1>6, <1>7, <1>8, <1>9, <1>10, <1>11, <1>12, <1>13,
     <1>14, <1>15, <1>16, <1>17, <1>18, <1>19, <1>20, <1>21, <1>22, <1>23, <1>24, <1>25,
     <1>26, <1>27, <1>28, <1>29, <1>30, <1>31, <1>32, <1>33, <1>34, <1>35, <1>36, <1>37,
     <1>38
     DEF Next, Bsp, ApLoop, Expire

LEMMA NextAccounts ==
  ASSUME TypeOK, Control, WakeOK, Accounts, [Next]_vars
  PROVE  Accounts'
<1>1. CASE Wake
  BY <1>1, MpAssumption
     DEF Wake, aps, Accounts, TypeOK, Control, WakeOK, wake, Aps, mp, open, local, Failing,
         WaitSet, NoRequest, Starting, InWakeUp, WakePcs
<1>2. CASE GiveFunction
  BY <1>2, MpAssumption
     DEF GiveFunction, aps, Accounts, TypeOK, Control, WakeOK, Aps, mp, open, local, wake,
         Failing, WaitSet, NoRequest, Starting, InWakeUp, WakePcs
<1>3. CASE SetReady
  BY <1>3, MpAssumption
     DEF SetReady, aps, Accounts, TypeOK, Control, WakeOK, Aps, mp, open, local, wake,
         Failing, WaitSet, NoRequest, Starting, InWakeUp, WakePcs
<1>4. CASE Signal
  BY <1>4, MpAssumption
     DEF Signal, aps, Accounts, TypeOK, Control, WakeOK, Aps, mp, open, local, wake,
         Failing, WaitSet, NoRequest, Starting, InWakeUp, WakePcs
<1>5. CASE SendInitSipiSipi
  BY <1>5, MpAssumption
     DEF SendInitSipiSipi, Accounts, TypeOK, Control, WakeOK, Aps, mp, open, local, wake,
         Failing, WaitSet, NoRequest, Starting, InWakeUp, WakePcs
<1>6. CASE WaitApWakeup
  BY <1>6, MpAssumption
     DEF WaitApWakeup, Accounts, TypeOK, Control, WakeOK, aps, mp, open, local, Aps,
         Failing, WaitSet, wake, NoRequest, Starting, InWakeUp, WakePcs
<1>7. CASE ResetDone
  <2>1. /\ InWakeUp /\ all' = all /\ UNCHANGED <<RunningCount, StartCount>>
        /\ targets' = {} /\ fn = 0
    BY <1>7 DEF ResetDone, InWakeUp, WakePcs, WakeOK
  <2>2. PICK c \in targets :
          \/ /\ back = "fail" /\ Goto("fail", index)
             /\ Waiting' = [Waiting EXCEPT ![c] = FALSE]
          \/ back = "timeout" /\ Goto(AfterCheck, Following(c)) /\ UNCHANGED Waiting
          \/ back = "caller" /\ Goto("caller", 1) /\ UNCHANGED Waiting
    BY <1>7 DEF ResetDone, EndThis
  <2>3. CASE back = "fail" /\ Goto("fail", index) /\ Waiting' = [Waiting EXCEPT ![c] = FALSE]
    <3>1. targets = {c}
      BY <1>7, <2>1 DEF TypeOK, ResetDone
    <3>2. Failing /\ Failing' /\ index' = index /\ bsp' = "fail"
      BY <2>1, <2>3 DEF Failing, Goto
    <3> QED
      BY <2>1, <2>3, <3>1, <3>2 DEF Accounts, TypeOK
  <2>4. CASE UNCHANGED Waiting /\ back # "fail" /\ bsp' \in {"caller", "updateThis"}
    <3>1. ~Failing /\ ~Failing' /\ WaitSet' = WaitSet
      BY <2>1, <2>4 DEF Failing, InWakeUp, WakePcs, WaitSet
    <3> QED
      BY <2>1, <2>4, <3>1 DEF Accounts, Failing
  <2> QED
    BY <2>2, <2>3, <2>4 DEF Goto, AfterCheck
<1>8. CASE ScanOne
  <2> DEFINE c == First(Rest)
  <2>1. c \in Aps /\ Waiting[c]
    BY <1>8, FirstLeast DEF ScanOne, Rest
  <2>2. ~Failing /\ ~Failing'
    BY <1>8 DEF ScanOne, Failing, InWakeUp, WakePcs, CallWakeUpAP, WakeOK
  <2>3. all' = all /\ StartCount' = StartCount
    BY <1>8 DEF ScanOne, open
  <2>4. \/ RunningCount' = RunningCount + 1 /\ Waiting' = [Waiting EXCEPT ![c] = FALSE]
        \/ UNCHANGED <<RunningCount, Waiting>>
    BY <1>8 DEF ScanOne
  <2> HIDE DEF c
  <2>5. CASE UNCHANGED <<RunningCount, Waiting>>
    BY <2>2, <2>3, <2>5 DEF Accounts, WaitSet, Failing
  <2>6. CASE RunningCount' = RunningCount + 1 /\ Waiting' = [Waiting EXCEPT ![c] = FALSE]
    <3>1. WaitSet' = WaitSet \ {c} /\ c \in WaitSet /\ WaitSet \subseteq Aps
      BY <2>1, <2>6 DEF WaitSet, TypeOK
    <3>2. /\ Cardinality(WaitSet') + 1 = Cardinality(WaitSet)
          /\ Cardinality(WaitSet) \in Nat /\ Cardinality(WaitSet') \in Nat
      <4>1. WaitSet' \subseteq Aps
        BY <3>1
      <4> QED
        BY <3>1, <4>1, ApsFinite
    <3>3. all.id # 0 => RunningCount' + Cardinality(WaitSet') = StartCount
      BY <2>2, <2>6, <3>2 DEF Accounts, TypeOK
    <3>4. \A d \in Aps : Waiting'[d] => all.id # 0
      BY <2>6 DEF Accounts, TypeOK
    <3> QED
      BY <2>2, <2>3, <3>3, <3>4 DEF Accounts, Failing
  <2> QED
    BY <2>4, <2>5, <2>6
<1>9. CASE ScanEnd
  <2>1. ~Failing /\ WaitSet' = WaitSet /\ UNCHANGED <<Waiting, RunningCount, StartCount>>
    BY <1>9 DEF ScanEnd, Failing, InWakeUp, WakePcs, WaitSet, mp
  <2>2. CASE AllFinished /\ EndAll("success")
    <3>1. all.id # 0 => WaitSet = {}
      <4>1. WaitSet \subseteq Aps
        BY DEF WaitSet
      <4> QED
        BY <2>1, <2>2, <4>1, ApsFinite DEF Accounts, AllFinished, TypeOK
    <3>2. \A c \in Aps : ~Waiting[c]
      BY <3>1 DEF Accounts, WaitSet
    <3>3. all'.id = 0
      BY <2>2 DEF EndAll, NoCall
    <3> QED
      BY <2>1, <3>2, <3>3 DEF Accounts
  <2>3. CASE Goto("fail", 1) /\ UNCHANGED all
    <3>1. \A c \in Aps : c >= 1
      BY DEF Aps
    <3>2. Failing' /\ index' = 1
      BY <2>3 DEF Goto, Failing
    <3> QED
      BY <2>1, <2>3, <3>1, <3>2 DEF Accounts
  <2>4. CASE Goto(IF polling THEN "scan" ELSE "updateThis", 1) /\ UNCHANGED all
    <3>1. ~Failing' /\ bsp' # "fail"
      BY <2>4 DEF Goto, Failing, InWakeUp, WakePcs
    <3> QED
      BY <2>1, <2>4, <3>1 DEF Accounts
  <2> QED
    BY <1>9, <2>2, <2>3, <2>4 DEF ScanEnd
<1>10. CASE FailOne
  <2>1. /\ First(Rest) \in Aps
        /\ \A c \in Aps : Waiting[c] => c >= First(Rest)
    <3>1. Rest \subseteq Aps /\ Rest # {} /\ \A c \in Aps : Waiting[c] => c \in Rest
      BY <1>10 DEF FailOne, Unfinished, Rest, Accounts
    <3>2. First(Rest) \in Aps /\ \A c \in Rest : First(Rest) <= c
      BY <3>1, FirstLeast
    <3> QED
      BY <3>1, <3>2, MpAssumption DEF Aps
  <2>2. /\ index' = First(Rest) + 1 /\ targets' = {First(Rest)} /\ back' = "fail" /\ bsp' = "wake"
        /\ UNCHANGED <<Waiting, all>>
    BY <1>10, <2>1, FollowingAp DEF FailOne, Unfinished, CallReset, CallWakeUpAP, mp, open
  <2>3. Failing'
    BY <2>2 DEF Failing, InWakeUp, WakePcs
  <2>4. \A c \in Aps : Waiting'[c] => c >= index' \/ c \in targets'
    BY <2>1, <2>2, MpAssumption DEF Aps
  <2> QED
    BY <2>2, <2>3, <2>4 DEF Accounts
<1>11. CASE FailEnd
  BY <1>11, MpAssumption
     DEF FailEnd, Accounts, TypeOK, Control, WakeOK, Unfinished, EndAll, aps, mp, wake, Aps,
         Failing, WaitSet, NoRequest, Starting, InWakeUp, Rest, NoCall, Goto, AfterCheck,
         WakePcs
<1>12. CASE ThisFinished
  BY <1>12, MpAssumption
     DEF ThisFinished, Accounts, TypeOK, Control, WakeOK, EndThis, aps, mp, wake, Aps,
         Failing, WaitSet, NoRequest, Starting, InWakeUp, NoCall, Goto, AfterCheck, WakePcs
<1>13. CASE ThisTimeout
  BY <1>13, MpAssumption
     DEF ThisTimeout, Accounts, TypeOK, Control, WakeOK, CallReset, aps, mp, open, local,
         Aps, Failing, WaitSet, wake, NoRequest, Starting, InWakeUp, CallWakeUpAP, WakePcs
<1>14. CASE ThisNotReady
  BY <1>14, MpAssumption
     DEF ThisNotReady, Accounts, TypeOK, Control, WakeOK, Goto, aps, mp, open, wake, Aps,
         Failing, WaitSet, NoRequest, Starting, InWakeUp, WakePcs
<1>15. CASE UpdateAll
  BY <1>15, MpAssumption
     DEF UpdateAll, Accounts, TypeOK, Control, WakeOK, Goto, aps, mp, open, wake, Aps,
         Failing, WaitSet, NoRequest, Starting, InWakeUp, WakePcs
<1>16. CASE UpdateThis
  BY <1>16, MpAssumption
     DEF UpdateThis, Accounts, TypeOK, Control, WakeOK, Aps, Goto, aps, mp, open, wake,
         Failing, WaitSet, NoRequest, Starting, InWakeUp, WakePcs
<1>17. CASE RefuseAll
  BY <1>17, MpAssumption
     DEF RefuseAll, Accounts, TypeOK, Control, WakeOK, Enabled, Goto, aps, mp, open, wake,
         Aps, Failing, WaitSet, NoRequest, Starting, InWakeUp, WakePcs
<1>18. CASE StartAll
  <2>1. /\ Waiting' = [c \in Aps |-> c \in Enabled] /\ RunningCount' = 0
        /\ StartCount' = Cardinality(Enabled) /\ all'.id = calls /\ bsp' = "wake" /\ back' = "started"
    BY <1>18 DEF StartAll, NewCall, CallWakeUpAP
  <2>2. WaitSet' = Enabled /\ Enabled \subseteq Aps
    BY <2>1 DEF WaitSet, Enabled
  <2>3. calls # 0
    BY <1>18 DEF StartAll, Control, NoRequest
  <2>4. ~Failing'
    BY <2>1 DEF Failing, InWakeUp, WakePcs
  <2>5. RunningCount' + Cardinality(WaitSet') = StartCount'
    BY <2>1, <2>2, ApsFinite
  <2> QED
    BY <2>1, <2>3, <2>4, <2>5 DEF Accounts, Failing
<1>19. CASE RefuseThis
  BY <1>19, MpAssumption
     DEF RefuseThis, Accounts, TypeOK, Control, WakeOK, Goto, aps, mp, open, wake, Aps,
         Failing, WaitSet, NoRequest, Starting, InWakeUp, WakePcs
<1>20. CASE StartThis
  BY <1>20, MpAssumption
     DEF StartThis, Accounts, TypeOK, Control, WakeOK, NewCall, CallWakeUpAP, aps, mp,
         local, Aps, Failing, WaitSet, wake, NoRequest, Starting, InWakeUp, WakePcs
<1>21. CASE Started
  BY <1>21, MpAssumption
     DEF Started, Accounts, TypeOK, Control, WakeOK, Goto, aps, mp, open, wake, Aps,
         Failing, WaitSet, NoRequest, Starting, InWakeUp, WakePcs
<1>22. CASE CheckApsStatus
  BY <1>22, MpAssumption
     DEF CheckApsStatus, Accounts, TypeOK, Control, WakeOK, Aps, aps, mp, open, local, wake,
         Failing, WaitSet, NoRequest, Starting, InWakeUp, WakePcs
<1>23. CASE StartupAllAPs
  BY <1>23, MpAssumption
     DEF StartupAllAPs, Accounts, TypeOK, Control, WakeOK, Startup, Aps, Failing, WaitSet,
         wake, NoRequest, Starting, InWakeUp, Called, aps, mp, WakePcs
<1>24. CASE ExpireAll
  BY <1>24, MpAssumption
     DEF ExpireAll, Accounts, TypeOK, Control, WakeOK, aps, mp, local, wake, Aps, Failing,
         WaitSet, NoRequest, Starting, InWakeUp, WakePcs
<1>25. ASSUME NEW c \in Aps, StartupThisAP(c) PROVE Accounts'
  BY <1>25, MpAssumption
     DEF StartupThisAP, Accounts, TypeOK, Control, WakeOK, Startup, Aps, Failing, WaitSet,
         wake, NoRequest, Starting, InWakeUp, Called, aps, mp, WakePcs
<1>26. ASSUME NEW c \in Aps, DisableAP(c) PROVE Accounts'
  BY <1>26, MpAssumption
     DEF DisableAP, Accounts, TypeOK, Control, WakeOK, Called, aps, mp, local, wake, Aps,
         Failing, WaitSet, NoRequest, Starting, InWakeUp, WakePcs
<1>27. ASSUME NEW c \in Aps, EnableAP(c) PROVE Accounts'
  BY <1>27, MpAssumption
     DEF EnableAP, Accounts, TypeOK, Control, WakeOK, Called, CallReset, aps, mp, local,
         Aps, Failing, WaitSet, wake, NoRequest, Starting, InWakeUp, CallWakeUpAP, WakePcs
<1>28. ASSUME NEW c \in Aps, ClearSignal(c) PROVE Accounts'
  BY <1>28, MpAssumption
     DEF ClearSignal, Accounts, TypeOK, Control, WakeOK, mp, open, local, wake, Aps,
         Failing, WaitSet, NoRequest, Starting, InWakeUp, WakePcs
<1>29. ASSUME NEW c \in Aps, ReadState(c) PROVE Accounts'
  BY <1>29, MpAssumption
     DEF ReadState, Accounts, TypeOK, Control, WakeOK, mp, open, local, wake, Aps, Failing,
         WaitSet, NoRequest, Starting, InWakeUp, WakePcs
<1>30. ASSUME NEW c \in Aps, ReadFunction(c) PROVE Accounts'
  BY <1>30, MpAssumption
     DEF ReadFunction, Accounts, TypeOK, Control, WakeOK, mp, open, local, wake, Aps,
         Failing, WaitSet, NoRequest, Starting, InWakeUp, WakePcs
<1>31. ASSUME NEW c \in Aps, AcquireApLock(c) PROVE Accounts'
  BY <1>31, MpAssumption
     DEF AcquireApLock, Accounts, TypeOK, Control, WakeOK, mp, open, local, wake, Aps,
         Failing, WaitSet, NoRequest, Starting, InWakeUp, WakePcs
<1>32. ASSUME NEW c \in Aps, WriteState(c) PROVE Accounts'
  BY <1>32, MpAssumption
     DEF WriteState, Accounts, TypeOK, Control, WakeOK, mp, open, local, wake, Aps,
         Failing, WaitSet, NoRequest, Starting, InWakeUp, WakePcs
<1>33. ASSUME NEW c \in Aps, BeginProcedure(c) PROVE Accounts'
  BY <1>33, MpAssumption
     DEF BeginProcedure, Accounts, TypeOK, Control, WakeOK, mp, open, local, wake, Aps,
         Failing, WaitSet, NoRequest, Starting, InWakeUp, WakePcs
<1>34. ASSUME NEW c \in Aps, EndProcedure(c) PROVE Accounts'
  BY <1>34, MpAssumption
     DEF EndProcedure, Accounts, TypeOK, Control, WakeOK, mp, open, local, wake, Aps,
         Failing, WaitSet, NoRequest, Starting, InWakeUp, WakePcs
<1>35. ASSUME NEW c \in Aps, Finish(c) PROVE Accounts'
  BY <1>35, MpAssumption
     DEF Finish, Accounts, TypeOK, Control, WakeOK, mp, open, local, wake, Aps, Failing,
         WaitSet, NoRequest, Starting, InWakeUp, WakePcs
<1>36. ASSUME NEW c \in Aps, Count(c) PROVE Accounts'
  BY <1>36, MpAssumption
     DEF Count, Accounts, TypeOK, Control, WakeOK, mp, open, local, wake, Aps, Failing,
         WaitSet, NoRequest, Starting, InWakeUp, WakePcs
<1>37. ASSUME NEW c \in Aps, ExpireThis(c) PROVE Accounts'
  BY <1>37, MpAssumption
     DEF ExpireThis, Accounts, TypeOK, Control, WakeOK, aps, mp, local, wake, Aps, Failing,
         WaitSet, NoRequest, Starting, InWakeUp, WakePcs
<1>38. CASE UNCHANGED vars
  BY <1>38, MpAssumption
     DEF vars, Accounts, TypeOK, Control, WakeOK, aps, mp, open, local, wake, Aps, Failing,
         WaitSet, NoRequest, Starting, InWakeUp, WakePcs
<1> QED
  BY <1>1, <1>2, <1>3, <1>4, <1>5, <1>6, <1>7, <1>8, <1>9, <1>10, <1>11, <1>12, <1>13,
     <1>14, <1>15, <1>16, <1>17, <1>18, <1>19, <1>20, <1>21, <1>22, <1>23, <1>24, <1>25,
     <1>26, <1>27, <1>28, <1>29, <1>30, <1>31, <1>32, <1>33, <1>34, <1>35, <1>36, <1>37,
     <1>38
     DEF Next, Bsp, ApLoop, Expire

LEMMA NextLater ==
  ASSUME TypeOK, Control, WakeOK, Accounts, [Next]_vars
  PROVE  Later
<1>1. CASE Wake
  BY <1>1, MpAssumption
     DEF Wake, aps, Later, Preparing, TypeOK, Control, WakeOK, wake, mp, open, local,
         Starting, NoRequest, Calls, InWakeUp, WakePcs
<1>2. CASE GiveFunction
  BY <1>2, MpAssumption
     DEF GiveFunction, aps, Later, Preparing, TypeOK, Control, WakeOK, mp, open,
         local, wake, Starting, NoRequest, Calls, InWakeUp, WakePcs
<1>3. CASE SetReady
  BY <1>3, MpAssumption
     DEF SetReady, aps, Later, Preparing, TypeOK, Control, WakeOK, mp, open,
         local, wake, Starting, NoRequest, Calls, InWakeUp, WakePcs
<1>4. CASE Signal
  BY <1>4, MpAssumption
     DEF Signal, aps, Later, Preparing, TypeOK, Control, WakeOK, mp, open,
         local, wake, Starting, NoRequest, Calls, InWakeUp, WakePcs
<1>5. CASE SendInitSipiSipi
  BY <1>5, MpAssumption
     DEF SendInitSipiSipi, Later, Preparing, TypeOK, Control, WakeOK, mp, open,
         local, wake, Starting, NoRequest, Calls, InWakeUp, WakePcs
<1>6. CASE WaitApWakeup
  BY <1>6, MpAssumption
     DEF WaitApWakeup, Later, Preparing, TypeOK, Control, WakeOK, aps, mp, open,
         local, Starting, wake, NoRequest, Calls, InWakeUp, WakePcs
<1>7. CASE ResetDone
  BY <1>7, MpAssumption
     DEF ResetDone, Later, Preparing, TypeOK, Control, WakeOK, Goto, EndThis, aps,
         Starting, wake, NoRequest, Calls, InWakeUp, NoCall, AfterCheck, WakePcs
<1>8. CASE ScanOne
  BY <1>8, MpAssumption
     DEF ScanOne, Later, Preparing, TypeOK, Control, WakeOK, Rest, NextWaiting,
         CallWakeUpAP, aps, open, Starting, wake, NoRequest, Calls, InWakeUp, WakePcs
<1>9. CASE ScanEnd
  BY <1>9, MpAssumption
     DEF ScanEnd, Later, Preparing, TypeOK, Control, WakeOK, Rest, EndAll, Goto,
         aps, mp, wake, Starting, NoRequest, Calls, InWakeUp, NoCall, AfterCheck, WakePcs
<1>10. CASE FailOne
  BY <1>10, MpAssumption
     DEF FailOne, Later, Preparing, TypeOK, Control, WakeOK, Unfinished, CallReset,
         aps, mp, open, Starting, wake, NoRequest, Calls, InWakeUp, Rest, CallWakeUpAP,
         WakePcs
<1>11. CASE FailEnd
  BY <1>11, MpAssumption
     DEF FailEnd, Later, Preparing, TypeOK, Control, WakeOK, Unfinished, EndAll,
         aps, mp, wake, Starting, NoRequest, Calls, InWakeUp, Rest, NoCall, Goto,
         AfterCheck, WakePcs
<1>12. CASE ThisFinished
  BY <1>12, MpAssumption
     DEF ThisFinished, Later, Preparing, TypeOK, Control, WakeOK, EndThis, aps, mp,
         wake, Starting, NoRequest, Calls, InWakeUp, NoCall, Goto, AfterCheck, WakePcs
<1>13. CASE ThisTimeout
  BY <1>13, MpAssumption
     DEF ThisTimeout, Later, Preparing, TypeOK, Control, WakeOK, CallReset, aps,
         mp, open, local, Starting, wake, NoRequest, Calls, InWakeUp, CallWakeUpAP, WakePcs
<1>14. CASE ThisNotReady
  BY <1>14, MpAssumption
     DEF ThisNotReady, Later, Preparing, TypeOK, Control, WakeOK, Goto, aps, mp,
         open, wake, Starting, NoRequest, Calls, InWakeUp, WakePcs
<1>15. CASE UpdateAll
  BY <1>15, MpAssumption
     DEF UpdateAll, Later, Preparing, TypeOK, Control, WakeOK, Goto, aps, mp, open,
         wake, Starting, NoRequest, Calls, InWakeUp, WakePcs
<1>16. CASE UpdateThis
  BY <1>16, MpAssumption, RequestType
     DEF UpdateThis, Later, Preparing, TypeOK, Control, WakeOK, Goto, aps, mp,
         open, wake, Starting, NoRequest, Calls, InWakeUp, WakePcs
<1>17. CASE RefuseAll
  BY <1>17, MpAssumption
     DEF RefuseAll, Later, Preparing, TypeOK, Control, WakeOK, Enabled, Goto, aps,
         mp, open, wake, Starting, NoRequest, Calls, InWakeUp, WakePcs
<1>18. CASE StartAll
  BY <1>18, MpAssumption
     DEF StartAll, Later, Preparing, TypeOK, Control, WakeOK, Enabled, NewCall,
         CallWakeUpAP, FirstOnly, aps, local, Starting, wake, NoRequest, Calls, InWakeUp,
         WakePcs
<1>19. CASE RefuseThis
  BY <1>19, MpAssumption
     DEF RefuseThis, Later, Preparing, TypeOK, Control, WakeOK, Goto, aps, mp,
         open, wake, Starting, NoRequest, Calls, InWakeUp, WakePcs
<1>20. CASE StartThis
  BY <1>20, MpAssumption
     DEF StartThis, Later, Preparing, TypeOK, Control, WakeOK, NewCall,
         CallWakeUpAP, aps, mp, local, Starting, wake, NoRequest, Calls, InWakeUp, WakePcs
<1>21. CASE Started
  BY <1>21, MpAssumption, RequestType
     DEF Started, Later, Preparing, TypeOK, Control, WakeOK, Goto, aps, mp, open,
         wake, Starting, NoRequest, Calls, InWakeUp, WakePcs
<1>22. CASE CheckApsStatus
  BY <1>22, MpAssumption
     DEF CheckApsStatus, Later, Preparing, TypeOK, Control, WakeOK, aps, mp, open,
         local, wake, Starting, NoRequest, Calls, InWakeUp, WakePcs
<1>23. CASE StartupAllAPs
  BY <1>23, MpAssumption
     DEF StartupAllAPs, Later, Preparing, TypeOK, Control, WakeOK, Startup,
         Starting, wake, NoRequest, Calls, InWakeUp, Called, aps, mp, WakePcs
<1>24. CASE ExpireAll
  BY <1>24, MpAssumption
     DEF ExpireAll, Later, Preparing, TypeOK, Control, WakeOK, aps, mp, local,
         wake, Starting, NoRequest, Calls, InWakeUp, WakePcs
<1>25. ASSUME NEW c \in Aps, StartupThisAP(c) PROVE Later
  BY <1>25, MpAssumption
     DEF StartupThisAP, Later, Preparing, TypeOK, Control, WakeOK, Startup,
         Starting, wake, NoRequest, Calls, InWakeUp, Called, aps, mp, WakePcs
<1>26. ASSUME NEW c \in Aps, DisableAP(c) PROVE Later
  BY <1>26, MpAssumption
     DEF DisableAP, Later, Preparing, TypeOK, Control, WakeOK, Called, aps, mp,
         local, wake, Starting, NoRequest, Calls, InWakeUp, WakePcs
<1>27. ASSUME NEW c \in Aps, EnableAP(c) PROVE Later
  BY <1>27, MpAssumption
     DEF EnableAP, Later, Preparing, TypeOK, Control, WakeOK, Called, CallReset,
         aps, mp, local, Starting, wake, NoRequest, Calls, InWakeUp, CallWakeUpAP, WakePcs
<1>28. ASSUME NEW c \in Aps, ClearSignal(c) PROVE Later
  BY <1>28, MpAssumption
     DEF ClearSignal, Later, Preparing, TypeOK, Control, WakeOK, mp, open, local,
         wake, Starting, NoRequest, Calls, InWakeUp, WakePcs
<1>29. ASSUME NEW c \in Aps, ReadState(c) PROVE Later
  BY <1>29, MpAssumption
     DEF ReadState, Later, Preparing, TypeOK, Control, WakeOK, mp, open, local,
         wake, Starting, NoRequest, Calls, InWakeUp, WakePcs
<1>30. ASSUME NEW c \in Aps, ReadFunction(c) PROVE Later
  BY <1>30, MpAssumption
     DEF ReadFunction, Later, Preparing, TypeOK, Control, WakeOK, mp, open,
         local, wake, Starting, NoRequest, Calls, InWakeUp, WakePcs
<1>31. ASSUME NEW c \in Aps, AcquireApLock(c) PROVE Later
  BY <1>31, MpAssumption
     DEF AcquireApLock, Later, Preparing, TypeOK, Control, WakeOK, mp, open,
         local, wake, Starting, NoRequest, Calls, InWakeUp, WakePcs
<1>32. ASSUME NEW c \in Aps, WriteState(c) PROVE Later
  BY <1>32, MpAssumption
     DEF WriteState, Later, Preparing, TypeOK, Control, WakeOK, mp, open,
         local, wake, Starting, NoRequest, Calls, InWakeUp, WakePcs
<1>33. ASSUME NEW c \in Aps, BeginProcedure(c) PROVE Later
  BY <1>33, MpAssumption
     DEF BeginProcedure, Later, Preparing, TypeOK, Control, WakeOK, mp, open,
         local, wake, Starting, NoRequest, Calls, InWakeUp, WakePcs
<1>34. ASSUME NEW c \in Aps, EndProcedure(c) PROVE Later
  BY <1>34, MpAssumption
     DEF EndProcedure, Later, Preparing, TypeOK, Control, WakeOK, mp, open, local,
         wake, Starting, NoRequest, Calls, InWakeUp, WakePcs
<1>35. ASSUME NEW c \in Aps, Finish(c) PROVE Later
  BY <1>35, MpAssumption
     DEF Finish, Later, Preparing, TypeOK, Control, WakeOK, mp, open, local, wake,
         Starting, NoRequest, Calls, InWakeUp, WakePcs
<1>36. ASSUME NEW c \in Aps, Count(c) PROVE Later
  BY <1>36, MpAssumption
     DEF Count, Later, Preparing, TypeOK, Control, WakeOK, mp, open, local, wake,
         Starting, NoRequest, Calls, InWakeUp, WakePcs
<1>37. ASSUME NEW c \in Aps, ExpireThis(c) PROVE Later
  BY <1>37, MpAssumption
     DEF ExpireThis, Later, Preparing, TypeOK, Control, WakeOK, aps, mp, local,
         wake, Starting, NoRequest, Calls, InWakeUp, WakePcs
<1>38. CASE UNCHANGED vars
  BY <1>38, MpAssumption
     DEF vars, Later, Preparing, TypeOK, Control, WakeOK, aps, mp, open, local,
         wake, Starting, NoRequest, Calls, InWakeUp, WakePcs
<1> QED
  BY <1>1, <1>2, <1>3, <1>4, <1>5, <1>6, <1>7, <1>8, <1>9, <1>10, <1>11, <1>12, <1>13,
     <1>14, <1>15, <1>16, <1>17, <1>18, <1>19, <1>20, <1>21, <1>22, <1>23, <1>24, <1>25,
     <1>26, <1>27, <1>28, <1>29, <1>30, <1>31, <1>32, <1>33, <1>34, <1>35, <1>36, <1>37,
     <1>38
     DEF Next, Bsp, ApLoop, Expire

LEMMA NextLast ==
  ASSUME TypeOK, Control, WakeOK, Accounts, [Next]_vars
  PROVE  LastCall \in Int /\ LastCall' \in Int /\ LastCall <= LastCall'
         /\ LastCall <= calls /\ LastCall \in Nat
<1>1. Later /\ calls \in Nat
  BY NextLater, MpAssumption DEF TypeOK, Calls
<1> QED
  BY <1>1 DEF Later, LastCall, Preparing, Control

\* The numbers keep their bound when the last one grows.
LEMMA NumberedKept ==
  ASSUME TypeOK, Numbered, LastCall \in Int, LastCall' \in Int, LastCall <= LastCall',
         UNCHANGED <<all, result, this>>
  PROVE  Numbered'
<1>1. all'.id <= LastCall' /\ result'.id <= LastCall' /\ \A c \in Aps : this'[c].id <= LastCall'
  <2>1. /\ all.id \in Int /\ result.id \in Int /\ \A c \in Aps : this[c].id \in Int
        /\ all.id <= LastCall /\ result.id <= LastCall
        /\ \A c \in Aps : this[c].id <= LastCall
    BY DEF TypeOK, CallType, Calls, Numbered
  <2>2. \A i \in Int : i <= LastCall => i <= LastCall'
    OBVIOUS
  <2> QED
    BY <2>1, <2>2
<1> QED
  BY <1>1 DEF Numbered, NoCall

\* A call is ended: its number is the result's.
LEMMA EndAllNumbered ==
  ASSUME NEW status, TypeOK, Numbered, LastCall \in Int, LastCall' \in Int,
         LastCall <= LastCall', LastCall \in Nat, EndAll(status), UNCHANGED this
  PROVE  Numbered'
<1>1. /\ all.id \in Int /\ \A c \in Aps : this[c].id \in Int
      /\ all.id <= LastCall /\ \A c \in Aps : this[c].id <= LastCall
  BY DEF TypeOK, CallType, Calls, Numbered
<1>2. all' = NoCall /\ all'.id = 0 /\ result'.id = all.id
  BY DEF EndAll, NoCall
<1>3. all'.id <= LastCall' /\ result'.id <= LastCall' /\ \A c \in Aps : this'[c].id <= LastCall'
  <2>1. \A i \in Int : i <= LastCall => i <= LastCall'
    OBVIOUS
  <2> QED
    BY <1>1, <1>2, <2>1
<1> QED
  BY <1>2, <1>3 DEF Numbered, NoCall

LEMMA EndThisNumbered ==
  ASSUME NEW a \in Aps, NEW status, TypeOK, Numbered, LastCall \in Int, LastCall' \in Int,
         LastCall <= LastCall', LastCall \in Nat, EndThis(a, status), UNCHANGED all
  PROVE  Numbered'
<1>1. /\ all.id \in Int /\ \A c \in Aps : this[c].id \in Int
      /\ all.id <= LastCall /\ \A c \in Aps : this[c].id <= LastCall
  BY DEF TypeOK, CallType, Calls, Numbered
<1>2. /\ this'[a] = NoCall /\ this'[a].id = 0 /\ this'[a].for = {} /\ result'.id = this[a].id
      /\ \A c \in Aps \ {a} : this'[c] = this[c]
  BY DEF EndThis, NoCall, TypeOK
<1>3. all'.id <= LastCall' /\ result'.id <= LastCall' /\ \A c \in Aps : this'[c].id <= LastCall'
  <2>1. \A i \in Int : i <= LastCall => i <= LastCall'
    OBVIOUS
  <2>2. 0 <= LastCall'
    OBVIOUS
  <2>3. \A c \in Aps : this'[c].id <= LastCall'
    BY <1>1, <1>2, <2>1, <2>2
  <2> QED
    BY <1>1, <1>2, <2>1, <2>3
<1>4. all'.id # 0 => all'.id # result'.id /\ \A c \in Aps : all'.id # this'[c].id
  BY <1>2 DEF Numbered
<1>5. all'.id = 0 => all' = NoCall'
  BY DEF Numbered, NoCall
<1>6. \A c \in Aps : this'[c].for \subseteq {c} /\ (this'[c].id = 0 => this'[c] = NoCall')
  BY <1>2 DEF Numbered, NoCall
<1> QED
  BY <1>3, <1>4, <1>5, <1>6 DEF Numbered

LEMMA NextNumbered ==
  ASSUME TypeOK, Control, WakeOK, Accounts, Numbered, [Next]_vars
  PROVE  Numbered'
<1>0. /\ LastCall \in Nat
      /\ LastCall \in Int /\ LastCall' \in Int /\ LastCall <= LastCall'
  BY NextLast
<1>1. CASE Wake
  BY <1>1, <1>0, NumberedKept DEF Wake, aps, open
<1>2. CASE GiveFunction
  BY <1>2, <1>0, NumberedKept DEF GiveFunction, aps, open
<1>3. CASE SetReady
  BY <1>3, <1>0, NumberedKept DEF SetReady, aps, open
<1>4. CASE Signal
  BY <1>4, <1>0, NumberedKept DEF Signal, aps, open
<1>5. CASE SendInitSipiSipi
  BY <1>5, <1>0, NumberedKept DEF SendInitSipiSipi, open
<1>6. CASE WaitApWakeup
  BY <1>6, <1>0, NumberedKept DEF WaitApWakeup, open
<1>7. CASE ResetDone
  <2>1. PICK c \in targets : UNCHANGED <<this, result>> \/ EndThis(c, "timeout")
    BY <1>7 DEF ResetDone
  <2>2. c \in Aps /\ UNCHANGED all
    BY <1>7 DEF ResetDone, TypeOK
  <2> QED
    BY <1>0, <2>1, <2>2, NumberedKept, EndThisNumbered
<1>8. CASE ScanOne
  BY <1>8, <1>0, NumberedKept DEF ScanOne, open
<1>9. CASE ScanEnd
  <2>1. UNCHANGED this
    BY <1>9 DEF ScanEnd
  <2> QED
    BY <1>0, <1>9, <2>1, NumberedKept, EndAllNumbered DEF ScanEnd
<1>10. CASE FailOne
  BY <1>10, <1>0, NumberedKept DEF FailOne, open
<1>11. CASE FailEnd
  BY <1>0, <1>11, EndAllNumbered DEF FailEnd
<1>12. CASE ThisFinished
  BY <1>0, <1>12, EndThisNumbered DEF ThisFinished, Control
<1>13. CASE ThisTimeout
  BY <1>13, <1>0, NumberedKept DEF ThisTimeout, open
<1>14. CASE ThisNotReady
  BY <1>14, <1>0, NumberedKept DEF ThisNotReady, open
<1>15. CASE UpdateAll
  BY <1>15, <1>0, NumberedKept DEF UpdateAll, open
<1>16. CASE UpdateThis
  BY <1>16, <1>0, NumberedKept DEF UpdateThis, open
<1>17. CASE RefuseAll
  BY <1>17, <1>0, NumberedKept DEF RefuseAll, open
<1>18. CASE StartAll
  <2>1. Preparing /\ ~Preparing' /\ calls' = calls /\ calls # 0
    BY <1>18 DEF StartAll, CallWakeUpAP, Control, NoRequest, Preparing, Starting, InWakeUp,
       WakePcs
  <2>2. LastCall = calls - 1 /\ LastCall' = calls
    BY <2>1 DEF LastCall
  <2>3. all'.id = calls /\ UNCHANGED <<this, result>>
    BY <1>18 DEF StartAll, NewCall
  <2>4. /\ calls \in Nat /\ result.id \in Int /\ \A c \in Aps : this[c].id \in Int
        /\ result.id <= calls - 1 /\ \A c \in Aps : this[c].id <= calls - 1
    BY <2>2 DEF TypeOK, CallType, Calls, Numbered
  <2>5. \A i \in Int : i <= calls - 1 => i <= calls /\ i # calls
    BY <2>4
  <2>6. /\ result.id <= calls /\ result.id # calls
        /\ \A c \in Aps : this[c].id <= calls /\ this[c].id # calls
    BY <2>4, <2>5
  <2>7. calls <= calls
    BY <2>4
  <2>8. \A c \in Aps : this'[c].for \subseteq {c} /\ (this'[c].id = 0 => this'[c] = NoCall')
    BY <2>3 DEF Numbered, NoCall
  <2> QED
    BY <2>1, <2>2, <2>3, <2>6, <2>7, <2>8 DEF Numbered
<1>19. CASE RefuseThis
  BY <1>19, <1>0, NumberedKept DEF RefuseThis, open
<1>20. CASE StartThis
  <2>1. Preparing /\ ~Preparing' /\ calls' = calls /\ calls # 0
    BY <1>20 DEF StartThis, CallWakeUpAP, Control, NoRequest, Preparing, Starting, InWakeUp,
       WakePcs
  <2>2. LastCall = calls - 1 /\ LastCall' = calls /\ apNumber \in Aps
    BY <1>20, <2>1 DEF LastCall, StartThis, Control
  <2>3. UNCHANGED <<all, result>> /\ this' = [this EXCEPT ![apNumber] = NewCall({apNumber})]
    BY <1>20 DEF StartThis
  <2>4. /\ calls \in Nat /\ result.id \in Int /\ all.id \in Int /\ \A c \in Aps : this[c].id \in Int
        /\ result.id <= calls - 1 /\ all.id <= calls - 1 /\ \A c \in Aps : this[c].id <= calls - 1
    BY <2>2 DEF TypeOK, CallType, Calls, Numbered
  <2>5. \A i \in Int : i <= calls - 1 => i <= calls /\ i # calls
    BY <2>4
  <2>6. /\ result'.id <= calls /\ all'.id <= calls /\ all'.id # calls
        /\ \A c \in Aps : this[c].id <= calls /\ this[c].id # calls
    BY <2>3, <2>4, <2>5
  <2>7. /\ this'[apNumber].id = calls /\ this'[apNumber].for \subseteq {apNumber}
        /\ \A c \in Aps \ {apNumber} : this'[c] = this[c]
    BY <2>2, <2>3 DEF NewCall, TypeOK
  <2>8. \A c \in Aps : this'[c].for \subseteq {c} /\ (this'[c].id = 0 => this'[c] = NoCall')
    BY <2>1, <2>7 DEF Numbered, NoCall
  <2>9. \A c \in Aps : this'[c].id <= calls
    BY <2>4, <2>6, <2>7
  <2>10. all'.id # 0 => all'.id # result'.id /\ \A c \in Aps : all'.id # this'[c].id
    BY <2>3, <2>6, <2>7 DEF Numbered
  <2>11. all'.id = 0 => all' = NoCall'
    BY <2>3 DEF Numbered, NoCall
  <2> QED
    BY <2>2, <2>6, <2>8, <2>9, <2>10, <2>11 DEF Numbered
<1>21. CASE Started
  BY <1>21, <1>0, NumberedKept DEF Started, open
<1>22. CASE CheckApsStatus
  BY <1>22, <1>0, NumberedKept DEF CheckApsStatus, open
<1>23. CASE StartupAllAPs
  BY <1>23, <1>0, NumberedKept DEF StartupAllAPs, Startup
<1>24. CASE ExpireAll
  <2>1. /\ all.id # 0 /\ all'.id = all.id /\ UNCHANGED <<this, result>>
    BY <1>24 DEF ExpireAll, Expires, TypeOK, CallType
  <2>2. /\ all.id \in Int /\ result.id \in Int /\ \A c \in Aps : this[c].id \in Int
        /\ all.id <= LastCall /\ result.id <= LastCall /\ \A c \in Aps : this[c].id <= LastCall
    BY DEF TypeOK, CallType, Calls, Numbered
  <2>3. \A i \in Int : i <= LastCall => i <= LastCall'
    BY <1>0
  <2>4. all'.id <= LastCall' /\ result'.id <= LastCall' /\ \A c \in Aps : this'[c].id <= LastCall'
    BY <2>1, <2>2, <2>3
  <2> QED
    BY <2>1, <2>4 DEF Numbered, NoCall
<1>25. ASSUME NEW c \in Aps, StartupThisAP(c) PROVE Numbered'
  BY <1>25, <1>0, NumberedKept DEF StartupThisAP, Startup
<1>26. ASSUME NEW c \in Aps, DisableAP(c) PROVE Numbered'
  BY <1>26, <1>0, NumberedKept DEF DisableAP
<1>27. ASSUME NEW c \in Aps, EnableAP(c) PROVE Numbered'
  BY <1>27, <1>0, NumberedKept DEF EnableAP
<1>28. ASSUME NEW c \in Aps, ClearSignal(c) PROVE Numbered'
  BY <1>28, <1>0, NumberedKept DEF ClearSignal, open
<1>29. ASSUME NEW c \in Aps, ReadState(c) PROVE Numbered'
  BY <1>29, <1>0, NumberedKept DEF ReadState, open
<1>30. ASSUME NEW c \in Aps, ReadFunction(c) PROVE Numbered'
  BY <1>30, <1>0, NumberedKept DEF ReadFunction, open
<1>31. ASSUME NEW c \in Aps, AcquireApLock(c) PROVE Numbered'
  BY <1>31, <1>0, NumberedKept DEF AcquireApLock, open
<1>32. ASSUME NEW c \in Aps, WriteState(c) PROVE Numbered'
  BY <1>32, <1>0, NumberedKept DEF WriteState, open
<1>33. ASSUME NEW c \in Aps, BeginProcedure(c) PROVE Numbered'
  BY <1>33, <1>0, NumberedKept DEF BeginProcedure, open
<1>34. ASSUME NEW c \in Aps, EndProcedure(c) PROVE Numbered'
  BY <1>34, <1>0, NumberedKept DEF EndProcedure, open
<1>35. ASSUME NEW c \in Aps, Finish(c) PROVE Numbered'
  BY <1>35, <1>0, NumberedKept DEF Finish, open
<1>36. ASSUME NEW c \in Aps, Count(c) PROVE Numbered'
  BY <1>36, <1>0, NumberedKept DEF Count, open
<1>37. ASSUME NEW c \in Aps, ExpireThis(c) PROVE Numbered'
  <2>1. /\ this[c].id # 0 /\ UNCHANGED <<all, result>>
        /\ \A d \in Aps : this'[d].id = this[d].id /\ this'[d].for = this[d].for
        /\ \A d \in Aps \ {c} : this'[d] = this[d]
    BY <1>37 DEF ExpireThis, Expires, TypeOK, CallType
  <2>2. /\ all.id \in Int /\ result.id \in Int /\ \A d \in Aps : this[d].id \in Int
        /\ all.id <= LastCall /\ result.id <= LastCall /\ \A d \in Aps : this[d].id <= LastCall
    BY DEF TypeOK, CallType, Calls, Numbered
  <2>3. \A i \in Int : i <= LastCall => i <= LastCall'
    BY <1>0
  <2>4. all'.id <= LastCall' /\ result'.id <= LastCall' /\ \A d \in Aps : this'[d].id <= LastCall'
    BY <2>1, <2>2, <2>3
  <2>5. \A d \in Aps : this'[d].for \subseteq {d} /\ (this'[d].id = 0 => this'[d] = NoCall')
    BY <2>1 DEF Numbered, NoCall
  <2> QED
    BY <2>1, <2>4, <2>5 DEF Numbered, NoCall
<1>38. CASE UNCHANGED vars
  BY <1>38, <1>0, NumberedKept DEF vars, open
<1> QED
  BY <1>1, <1>2, <1>3, <1>4, <1>5, <1>6, <1>7, <1>8, <1>9, <1>10, <1>11, <1>12, <1>13,
     <1>14, <1>15, <1>16, <1>17, <1>18, <1>19, <1>20, <1>21, <1>22, <1>23, <1>24, <1>25,
     <1>26, <1>27, <1>28, <1>29, <1>30, <1>31, <1>32, <1>33, <1>34, <1>35, <1>36, <1>37,
     <1>38
     DEF Next, Bsp, ApLoop, Expire

LEMMA NextHeard ==
  ASSUME TypeOK, Control, WakeOK, Accounts, Numbered, Heard, [Next]_vars
  PROVE  Heard'
<1>0. LastCall \in Int /\ LastCall' \in Int /\ LastCall <= LastCall' /\ LastCall \in Nat
  BY NextLast
<1>1. CASE Wake
  BY <1>1, <1>0 DEF Wake, aps, Heard, TypeOK, mp, open, local, Calls, NoRequest
<1>2. CASE GiveFunction
  <2>1. /\ \A c \in Aps : ApFunction'[c] \in {ApFunction[c], fn}
        /\ UNCHANGED <<task, begun>>
    BY <1>2, Giving DEF GiveFunction, aps, TypeOK
  <2>2. fn \in Int /\ fn <= LastCall
    <3>1. CASE fn = 0
      BY <1>0, <3>1
    <3>2. CASE back = "scan" /\ fn # 0
      BY <1>2, <3>2 DEF GiveFunction, InWakeUp, WakePcs, WakeOK, Numbered, TypeOK, CallType, Calls
    <3>3. CASE back = "started" /\ fn # 0
      <4>1. InWakeUp /\ Starting
        BY <1>2, <3>3 DEF GiveFunction, InWakeUp, Starting, WakePcs
      <4>2. fn = calls /\ LastCall = calls /\ calls \in Int
        BY <4>1 DEF WakeOK, LastCall, Preparing, TypeOK, Calls
      <4> QED
        BY <4>2
    <3> QED
      BY <1>2, <3>1, <3>2, <3>3 DEF GiveFunction, InWakeUp, WakePcs, WakeOK
  <2>3. \A i \in Int : i <= LastCall => i <= LastCall'
    BY <1>0
  <2>4. \A c \in Aps : /\ ApFunction[c] \in Int /\ task[c] \in Int /\ begun[c] \subseteq Int
                       /\ ApFunction[c] <= LastCall /\ task[c] <= LastCall
                       /\ \A i \in begun[c] : i <= LastCall
    BY DEF TypeOK, Calls, Heard
  <2>5. ASSUME NEW c \in Aps
        PROVE  /\ ApFunction'[c] <= LastCall' /\ task'[c] <= LastCall'
               /\ \A i \in begun'[c] : i <= LastCall'
    BY <2>1, <2>2, <2>3, <2>4
  <2> QED
    BY <2>5 DEF Heard
<1>3. CASE SetReady
  BY <1>3, <1>0 DEF SetReady, aps, Heard, TypeOK, mp, open, local, wake, Calls, NoRequest
<1>4. CASE Signal
  BY <1>4, <1>0 DEF Signal, aps, Heard, TypeOK, mp, open, local, wake, Calls, NoRequest
<1>5. CASE SendInitSipiSipi
  BY <1>5, <1>0 DEF SendInitSipiSipi, Heard, TypeOK, mp, open, local, wake, Calls, NoRequest
<1>6. CASE WaitApWakeup
  BY <1>6, <1>0
     DEF WaitApWakeup, Heard, TypeOK, aps, mp, open, local, Calls, wake, NoRequest
<1>7. CASE ResetDone
  BY <1>7, <1>0
     DEF ResetDone, Heard, TypeOK, Goto, EndThis, aps, Calls, wake, NoRequest, NoCall,
         AfterCheck
<1>8. CASE ScanOne
  BY <1>8, <1>0
     DEF ScanOne, Heard, TypeOK, Rest, NextWaiting, CallWakeUpAP, aps, open, Calls, wake,
         NoRequest
<1>9. CASE ScanEnd
  BY <1>9, <1>0
     DEF ScanEnd, Heard, TypeOK, Rest, EndAll, Goto, aps, mp, wake, Calls, NoRequest,
         NoCall, AfterCheck
<1>10. CASE FailOne
  BY <1>10, <1>0
     DEF FailOne, Heard, TypeOK, Unfinished, CallReset, aps, mp, open, Calls, wake,
         NoRequest, Rest, CallWakeUpAP
<1>11. CASE FailEnd
  BY <1>11, <1>0
     DEF FailEnd, Heard, TypeOK, Unfinished, EndAll, aps, mp, wake, Calls, NoRequest, Rest,
         NoCall, Goto, AfterCheck
<1>12. CASE ThisFinished
  BY <1>12, <1>0
     DEF ThisFinished, Heard, TypeOK, EndThis, aps, mp, wake, Calls, NoRequest, NoCall,
         Goto, AfterCheck
<1>13. CASE ThisTimeout
  BY <1>13, <1>0
     DEF ThisTimeout, Heard, TypeOK, CallReset, aps, mp, open, local, Calls, wake,
         NoRequest, CallWakeUpAP
<1>14. CASE ThisNotReady
  BY <1>14, <1>0
     DEF ThisNotReady, Heard, TypeOK, Goto, aps, mp, open, wake, Calls, NoRequest
<1>15. CASE UpdateAll
  BY <1>15, <1>0 DEF UpdateAll, Heard, TypeOK, Goto, aps, mp, open, wake, Calls, NoRequest
<1>16. CASE UpdateThis
  BY <1>16, <1>0 DEF UpdateThis, Heard, TypeOK, Goto, aps, mp, open, wake, Calls, NoRequest
<1>17. CASE RefuseAll
  BY <1>17, <1>0
     DEF RefuseAll, Heard, TypeOK, Enabled, Goto, aps, mp, open, wake, Calls, NoRequest
<1>18. CASE StartAll
  BY <1>18, <1>0
     DEF StartAll, Heard, TypeOK, Enabled, NewCall, CallWakeUpAP, FirstOnly, aps, local,
         Calls, wake, NoRequest
<1>19. CASE RefuseThis
  BY <1>19, <1>0 DEF RefuseThis, Heard, TypeOK, Goto, aps, mp, open, wake, Calls, NoRequest
<1>20. CASE StartThis
  BY <1>20, <1>0
     DEF StartThis, Heard, TypeOK, NewCall, CallWakeUpAP, aps, mp, local, Calls, wake,
         NoRequest
<1>21. CASE Started
  BY <1>21, <1>0 DEF Started, Heard, TypeOK, Goto, aps, mp, open, wake, Calls, NoRequest
<1>22. CASE CheckApsStatus
  BY <1>22, <1>0
     DEF CheckApsStatus, Heard, TypeOK, aps, mp, open, local, wake, Calls, NoRequest
<1>23. CASE StartupAllAPs
  BY <1>23, <1>0
     DEF StartupAllAPs, Heard, TypeOK, Startup, Calls, wake, NoRequest, Called, aps, mp
<1>24. CASE ExpireAll
  BY <1>24, <1>0 DEF ExpireAll, Heard, TypeOK, aps, mp, local, wake, Calls, NoRequest
<1>25. ASSUME NEW c \in Aps, StartupThisAP(c) PROVE Heard'
  BY <1>25, <1>0
     DEF StartupThisAP, Heard, TypeOK, Startup, Calls, wake, NoRequest, Called, aps, mp
<1>26. ASSUME NEW c \in Aps, DisableAP(c) PROVE Heard'
  BY <1>26, <1>0
     DEF DisableAP, Heard, TypeOK, Called, aps, mp, local, wake, Calls, NoRequest
<1>27. ASSUME NEW c \in Aps, EnableAP(c) PROVE Heard'
  BY <1>27, <1>0
     DEF EnableAP, Heard, TypeOK, Called, CallReset, aps, mp, local, Calls, wake, NoRequest,
         CallWakeUpAP
<1>28. ASSUME NEW c \in Aps, ClearSignal(c) PROVE Heard'
  BY <1>28, <1>0 DEF ClearSignal, Heard, TypeOK, mp, open, local, wake, Calls, NoRequest
<1>29. ASSUME NEW c \in Aps, ReadState(c) PROVE Heard'
  BY <1>29, <1>0
     DEF ReadState, Heard, TypeOK, IsReady, mp, open, local, wake, Calls, NoRequest
<1>30. ASSUME NEW c \in Aps, ReadFunction(c) PROVE Heard'
  BY <1>30, <1>0 DEF ReadFunction, Heard, TypeOK, mp, open, local, wake, Calls, NoRequest
<1>31. ASSUME NEW c \in Aps, AcquireApLock(c) PROVE Heard'
  BY <1>31, <1>0 DEF AcquireApLock, Heard, TypeOK, mp, open, local, wake, Calls, NoRequest
<1>32. ASSUME NEW c \in Aps, WriteState(c) PROVE Heard'
  BY <1>32, <1>0 DEF WriteState, Heard, TypeOK, mp, open, local, wake, Calls, NoRequest
<1>33. ASSUME NEW c \in Aps, BeginProcedure(c) PROVE Heard'
  BY <1>33, <1>0 DEF BeginProcedure, Heard, TypeOK, mp, open, local, wake, Calls, NoRequest
<1>34. ASSUME NEW c \in Aps, EndProcedure(c) PROVE Heard'
  BY <1>34, <1>0 DEF EndProcedure, Heard, TypeOK, mp, open, local, wake, Calls, NoRequest
<1>35. ASSUME NEW c \in Aps, Finish(c) PROVE Heard'
  BY <1>35, <1>0 DEF Finish, Heard, TypeOK, mp, open, local, wake, Calls, NoRequest
<1>36. ASSUME NEW c \in Aps, Count(c) PROVE Heard'
  BY <1>36, <1>0 DEF Count, Heard, TypeOK, mp, open, local, wake, Calls, NoRequest
<1>37. ASSUME NEW c \in Aps, ExpireThis(c) PROVE Heard'
  BY <1>37, <1>0 DEF ExpireThis, Heard, TypeOK, aps, mp, local, wake, Calls, NoRequest
<1>38. CASE UNCHANGED vars
  BY <1>38, <1>0 DEF vars, Heard, TypeOK, aps, mp, open, local, wake, Calls, NoRequest
<1> QED
  BY <1>1, <1>2, <1>3, <1>4, <1>5, <1>6, <1>7, <1>8, <1>9, <1>10, <1>11, <1>12, <1>13,
     <1>14, <1>15, <1>16, <1>17, <1>18, <1>19, <1>20, <1>21, <1>22, <1>23, <1>24, <1>25,
     <1>26, <1>27, <1>28, <1>29, <1>30, <1>31, <1>32, <1>33, <1>34, <1>35, <1>36, <1>37,
     <1>38
     DEF Next, Bsp, ApLoop, Expire

LEMMA NextStopped ==
  ASSUME TypeOK, WakeOK, Stopped, [Next]_vars
  PROVE  Stopped'
<1>1. CASE Wake
  <2>1. /\ bsp = "wake" /\ bsp' = "function" /\ untold = targets
        /\ UNCHANGED <<ap, task, State, ApFunction, targets, untold, fn>>
    BY <1>1 DEF Wake, aps, wake, WakeOK
  <2> QED
    BY <2>1 DEF Stopped, Resetting, Executes, Begins
<1>2. CASE GiveFunction
  BY <1>2, MpAssumption
     DEF GiveFunction, aps, Stopped, Resetting, TypeOK, WakeOK, mp, open, local, wake,
         InWakeUp, NoRequest, Starting, WakePcs, Begins, Executes, Works
<1>3. CASE SetReady
  BY <1>3, MpAssumption
     DEF SetReady, aps, Stopped, Resetting, TypeOK, WakeOK, mp, open, local, wake, InWakeUp,
         NoRequest, Starting, WakePcs, Begins, Executes, Works
<1>4. CASE Signal
  <2>1. /\ bsp = "signal" /\ bsp' \in {"function", "sipi", "wakeup"}
        /\ UNCHANGED <<ap, task, State, ApFunction, targets, untold, fn>>
    BY <1>4 DEF Signal
  <2>2. InWakeUp /\ (fn = 0 => bsp' # "wakeup")
    BY <1>4, <2>1 DEF Signal, WakeOK, ResetVectorRequired, InWakeUp, WakePcs
  <2> QED
    BY <2>1, <2>2 DEF Stopped, Resetting
<1>5. CASE SendInitSipiSipi
  BY <1>5, MpAssumption
     DEF SendInitSipiSipi, Stopped, Resetting, TypeOK, WakeOK, mp, open, local, wake, InWakeUp,
         NoRequest, Starting, WakePcs, Begins, Executes, Works
<1>6. CASE WaitApWakeup
  BY <1>6, MpAssumption
     DEF WaitApWakeup, Stopped, Resetting, TypeOK, WakeOK, aps, mp, open, local, wake,
         InWakeUp, NoRequest, Starting, WakePcs, Begins, Executes, Works
<1>7. CASE ResetDone
  BY <1>7, MpAssumption
     DEF ResetDone, Stopped, Resetting, TypeOK, WakeOK, Goto, EndThis, aps, wake, InWakeUp,
         NoRequest, Starting, NoCall, AfterCheck, WakePcs, Begins, Executes, Works
<1>8. CASE ScanOne
  BY <1>8, MpAssumption
     DEF ScanOne, Stopped, Resetting, TypeOK, WakeOK, Rest, NextWaiting, CallWakeUpAP, aps,
         open, wake, InWakeUp, NoRequest, Starting, WakePcs, Begins, Executes, Works
<1>9. CASE ScanEnd
  BY <1>9, MpAssumption
     DEF ScanEnd, Stopped, Resetting, TypeOK, WakeOK, Rest, EndAll, Goto, aps, mp, wake,
         InWakeUp, NoRequest, Starting, NoCall, AfterCheck, WakePcs, Begins, Executes, Works
<1>10. CASE FailOne
  BY <1>10, MpAssumption
     DEF FailOne, Stopped, Resetting, TypeOK, WakeOK, Unfinished, CallReset, aps, mp, open,
         wake, InWakeUp, NoRequest, Starting, Rest, CallWakeUpAP, WakePcs, Begins, Executes,
         Works
<1>11. CASE FailEnd
  BY <1>11, MpAssumption
     DEF FailEnd, Stopped, Resetting, TypeOK, WakeOK, Unfinished, EndAll, aps, mp, wake,
         InWakeUp, NoRequest, Starting, Rest, NoCall, Goto, AfterCheck, WakePcs, Begins,
         Executes, Works
<1>12. CASE ThisFinished
  BY <1>12, MpAssumption
     DEF ThisFinished, Stopped, Resetting, TypeOK, WakeOK, EndThis, aps, mp, wake, InWakeUp,
         NoRequest, Starting, NoCall, Goto, AfterCheck, WakePcs, Begins, Executes, Works
<1>13. CASE ThisTimeout
  BY <1>13, MpAssumption
     DEF ThisTimeout, Stopped, Resetting, TypeOK, WakeOK, CallReset, aps, mp, open, local,
         wake, InWakeUp, NoRequest, Starting, CallWakeUpAP, WakePcs, Begins, Executes, Works
<1>14. CASE ThisNotReady
  BY <1>14, MpAssumption
     DEF ThisNotReady, Stopped, Resetting, TypeOK, WakeOK, Goto, aps, mp, open, wake, InWakeUp,
         NoRequest, Starting, WakePcs, Begins, Executes, Works
<1>15. CASE UpdateAll
  BY <1>15, MpAssumption
     DEF UpdateAll, Stopped, Resetting, TypeOK, WakeOK, Goto, aps, mp, open, wake, InWakeUp,
         NoRequest, Starting, WakePcs, Begins, Executes, Works
<1>16. CASE UpdateThis
  BY <1>16, MpAssumption
     DEF UpdateThis, Stopped, Resetting, TypeOK, WakeOK, Goto, aps, mp, open, wake, InWakeUp,
         NoRequest, Starting, WakePcs, Begins, Executes, Works
<1>17. CASE RefuseAll
  BY <1>17, MpAssumption
     DEF RefuseAll, Stopped, Resetting, TypeOK, WakeOK, Enabled, Goto, aps, mp, open, wake,
         InWakeUp, NoRequest, Starting, WakePcs, Begins, Executes, Works
<1>18. CASE StartAll
  BY <1>18, MpAssumption
     DEF StartAll, Stopped, Resetting, TypeOK, WakeOK, Enabled, NewCall, CallWakeUpAP,
         FirstOnly, aps, local, wake, InWakeUp, NoRequest, Starting, WakePcs, Begins, Executes,
         Works
<1>19. CASE RefuseThis
  BY <1>19, MpAssumption
     DEF RefuseThis, Stopped, Resetting, TypeOK, WakeOK, Goto, aps, mp, open, wake, InWakeUp,
         NoRequest, Starting, WakePcs, Begins, Executes, Works
<1>20. CASE StartThis
  BY <1>20, MpAssumption
     DEF StartThis, Stopped, Resetting, TypeOK, WakeOK, NewCall, CallWakeUpAP, aps, mp, local,
         wake, InWakeUp, NoRequest, Starting, WakePcs, Begins, Executes, Works
<1>21. CASE Started
  BY <1>21, MpAssumption
     DEF Started, Stopped, Resetting, TypeOK, WakeOK, Goto, aps, mp, open, wake, InWakeUp,
         NoRequest, Starting, WakePcs, Begins, Executes, Works
<1>22. CASE CheckApsStatus
  BY <1>22, MpAssumption
     DEF CheckApsStatus, Stopped, Resetting, TypeOK, WakeOK, aps, mp, open, local, wake,
         InWakeUp, NoRequest, Starting, WakePcs, Begins, Executes, Works
<1>23. CASE StartupAllAPs
  BY <1>23, MpAssumption
     DEF StartupAllAPs, Stopped, Resetting, TypeOK, WakeOK, Startup, wake, InWakeUp, NoRequest,
         Starting, Called, aps, mp, WakePcs, Begins, Executes, Works
<1>24. CASE ExpireAll
  BY <1>24, MpAssumption
     DEF ExpireAll, Stopped, Resetting, TypeOK, WakeOK, aps, mp, local, wake, InWakeUp,
         NoRequest, Starting, WakePcs, Begins, Executes, Works
<1>25. ASSUME NEW c \in Aps, StartupThisAP(c) PROVE Stopped'
  BY <1>25, MpAssumption
     DEF StartupThisAP, Stopped, Resetting, TypeOK, WakeOK, Startup, wake, InWakeUp, NoRequest,
         Starting, Called, aps, mp, WakePcs, Begins, Executes, Works
<1>26. ASSUME NEW c \in Aps, DisableAP(c) PROVE Stopped'
  BY <1>26, MpAssumption
     DEF DisableAP, Stopped, Resetting, TypeOK, WakeOK, Called, aps, mp, local, wake, InWakeUp,
         NoRequest, Starting, WakePcs, Begins, Executes, Works
<1>27. ASSUME NEW c \in Aps, EnableAP(c) PROVE Stopped'
  BY <1>27, MpAssumption
     DEF EnableAP, Stopped, Resetting, TypeOK, WakeOK, Called, CallReset, aps, mp, local, wake,
         InWakeUp, NoRequest, Starting, CallWakeUpAP, WakePcs, Begins, Executes, Works
<1>28. ASSUME NEW c \in Aps, ClearSignal(c) PROVE Stopped'
  BY <1>28, MpAssumption
     DEF ClearSignal, Stopped, Resetting, TypeOK, WakeOK, mp, open, local, wake, InWakeUp,
         NoRequest, Starting, WakePcs, Begins, Executes, Works
<1>29. ASSUME NEW c \in Aps, ReadState(c) PROVE Stopped'
  BY <1>29, MpAssumption
     DEF ReadState, Stopped, Resetting, TypeOK, WakeOK, IsReady, mp, open, local, wake,
         InWakeUp, NoRequest, Starting, WakePcs, Begins, Executes, Works
<1>30. ASSUME NEW c \in Aps, ReadFunction(c) PROVE Stopped'
  BY <1>30, MpAssumption
     DEF ReadFunction, Stopped, Resetting, TypeOK, WakeOK, mp, open, local, wake, InWakeUp,
         NoRequest, Starting, WakePcs, Begins, Executes, Works
<1>31. ASSUME NEW c \in Aps, AcquireApLock(c) PROVE Stopped'
  BY <1>31, MpAssumption
     DEF AcquireApLock, Stopped, Resetting, TypeOK, WakeOK, mp, open, local, wake, InWakeUp,
         NoRequest, Starting, WakePcs, Begins, Executes, Works
<1>32. ASSUME NEW c \in Aps, WriteState(c) PROVE Stopped'
  BY <1>32, MpAssumption
     DEF WriteState, Stopped, Resetting, TypeOK, WakeOK, mp, open, local, wake, InWakeUp,
         NoRequest, Starting, WakePcs, Begins, Executes, Works
<1>33. ASSUME NEW c \in Aps, BeginProcedure(c) PROVE Stopped'
  BY <1>33, MpAssumption
     DEF BeginProcedure, Stopped, Resetting, TypeOK, WakeOK, mp, open, local, wake, InWakeUp,
         NoRequest, Starting, WakePcs, Begins, Executes, Works
<1>34. ASSUME NEW c \in Aps, EndProcedure(c) PROVE Stopped'
  BY <1>34, MpAssumption
     DEF EndProcedure, Stopped, Resetting, TypeOK, WakeOK, mp, open, local, wake, InWakeUp,
         NoRequest, Starting, WakePcs, Begins, Executes, Works
<1>35. ASSUME NEW c \in Aps, Finish(c) PROVE Stopped'
  BY <1>35, MpAssumption
     DEF Finish, Stopped, Resetting, TypeOK, WakeOK, mp, open, local, wake, InWakeUp,
         NoRequest, Starting, WakePcs, Begins, Executes, Works
<1>36. ASSUME NEW c \in Aps, Count(c) PROVE Stopped'
  BY <1>36, MpAssumption
     DEF Count, Stopped, Resetting, TypeOK, WakeOK, mp, open, local, wake, InWakeUp, NoRequest,
         Starting, WakePcs, Begins, Executes, Works
<1>37. ASSUME NEW c \in Aps, ExpireThis(c) PROVE Stopped'
  BY <1>37, MpAssumption
     DEF ExpireThis, Stopped, Resetting, TypeOK, WakeOK, aps, mp, local, wake, InWakeUp,
         NoRequest, Starting, WakePcs, Begins, Executes, Works
<1>38. CASE UNCHANGED vars
  BY <1>38, MpAssumption
     DEF vars, Stopped, Resetting, TypeOK, WakeOK, aps, mp, open, local, wake, InWakeUp,
         NoRequest, Starting, WakePcs, Begins, Executes, Works
<1> QED
  BY <1>1, <1>2, <1>3, <1>4, <1>5, <1>6, <1>7, <1>8, <1>9, <1>10, <1>11, <1>12, <1>13,
     <1>14, <1>15, <1>16, <1>17, <1>18, <1>19, <1>20, <1>21, <1>22, <1>23, <1>24, <1>25,
     <1>26, <1>27, <1>28, <1>29, <1>30, <1>31, <1>32, <1>33, <1>34, <1>35, <1>36, <1>37,
     <1>38
     DEF Next, Bsp, ApLoop, Expire

\* When StartupAllAPs has counted every AP, it waits for none.
LEMMA NoneWaiting ==
  ASSUME TypeOK, WakeOK, Accounts, bsp = "scan", AllFinished
  PROVE  \A c \in Aps : ~Waiting[c]
<1>1. ~Failing /\ WaitSet \subseteq Aps
  BY DEF Failing, InWakeUp, WakePcs, WaitSet
<1>2. all.id # 0 => WaitSet = {}
  BY <1>1, ApsFinite DEF Accounts, AllFinished, TypeOK
<1> QED
  BY <1>2 DEF Accounts, WaitSet

\* After the loop that resets them, StartupAllAPs waits for none either.
LEMMA NoneLeft ==
  ASSUME Accounts, bsp = "fail", Unfinished = {}
  PROVE  \A c \in Aps : ~Waiting[c]
BY DEF Accounts, Unfinished, Rest

LEMMA LegitimateAfterThis ==
  ASSUME TypeOK, Legitimate, NEW a \in Aps, NEW status, Numbered, EndThis(a, status),
         State' = [State EXCEPT ![a] = "idle"], untold' = {},
         ap[a] \notin Executes, ap[a] = "fetch" => ApFunction[a] = 0,
         UNCHANGED <<ap, task, ApFunction, all, Waiting>>
  PROVE  Legitimate'
<1>1. result'.for \subseteq {a}
  BY DEF EndThis, Numbered
<1>2. ASSUME NEW c \in Aps, c # a, NEW t, Legit(c, t)
      PROVE  t # 0 => /\ t = result'.id => c \notin result'.for
                      /\ t = all'.id /\ c \in all'.for => Waiting'[c]
  BY <1>1, <1>2 DEF Legit
<1>3. ASSUME NEW c \in Aps, c # a
      PROVE  /\ Reading(c)' => Legit(c, ApFunction[c])'
             /\ ap'[c] \in Executes => Legit(c, task[c])'
  <2>1. State'[c] = State[c]
    BY <1>3 DEF TypeOK
  <2> QED
    BY <1>2, <1>3, <2>1 DEF Legitimate, Legit, Reading
<1>4. (Reading(a)' => ApFunction'[a] = 0) /\ ap'[a] \notin Executes
  BY DEF TypeOK, Reading
<1>5. Reading(a)' => Legit(a, ApFunction[a])'
  BY <1>4 DEF Legit
<1> QED
  BY <1>3, <1>4, <1>5 DEF Legitimate

LEMMA LegitimateAfterAll ==
  ASSUME Legitimate, NEW status, EndAll(status), \A c \in Aps : ~Waiting[c],
         untold' = {}, UNCHANGED <<ap, task, State, ApFunction>>
  PROVE  Legitimate'
<1>1. /\ result'.id = all.id /\ result'.for = all.for /\ all'.id = 0
  BY DEF EndAll, NoCall
<1>2. ASSUME NEW c \in Aps, NEW t, Legit(c, t)
      PROVE  t # 0 => /\ t = result'.id => c \notin result'.for
                      /\ t = all'.id /\ c \in all'.for => Waiting'[c]
  BY <1>1, <1>2 DEF Legit
<1>3. ASSUME NEW c \in Aps
      PROVE  /\ Reading(c)' => Legit(c, ApFunction[c])'
             /\ ap'[c] \in Executes => Legit(c, task[c])'
  BY <1>2 DEF Legitimate, Legit, Reading, Begins, Executes
<1> QED
  BY <1>3 DEF Legitimate

LEMMA NextLegitimate ==
  ASSUME TypeOK, Control, WakeOK, Accounts, Numbered, Heard, Stopped, Legitimate, [Next]_vars
  PROVE  Legitimate'
<1>1. CASE Wake
  <2>1. UNCHANGED <<ap, task, State, ApFunction, result, all, Waiting, untold, fn>>
    BY <1>1 DEF Wake, aps, wake, open, mp
  <2> QED
    BY <2>1 DEF Legitimate, Legit, Reading
<1>2. CASE GiveFunction
  <2>1. PICK d \in Aps : d \in untold /\ ApFunction' = [ApFunction EXCEPT ![d] = fn]
    BY <1>2, Giving
  <2>2. UNCHANGED <<ap, task, State, result, all, Waiting, untold, fn>>
    BY <1>2 DEF GiveFunction, aps, open, mp
  <2>3. ApFunction'[d] = fn /\ \A c \in Aps \ {d} : ApFunction'[c] = ApFunction[c]
    BY <2>1 DEF TypeOK
  <2>4. ASSUME NEW c \in Aps, Reading(c) PROVE Legit(c, ApFunction'[c])
    <3>1. CASE c = d
      BY <2>1, <2>3, <3>1 DEF Legitimate
    <3>2. CASE c # d
      BY <2>3, <2>4, <3>2 DEF Legitimate
    <3> QED
      BY <3>1, <3>2
  <2> QED
    BY <2>2, <2>4 DEF Legitimate, Legit, Reading
<1>3. CASE SetReady
  <2>1. /\ State' = [State EXCEPT ![told] = "ready"] /\ untold' = untold \ {told}
        /\ told \in untold /\ told \in Aps /\ ApFunction[told] = fn
    BY <1>3 DEF SetReady, WakeOK, TypeOK
  <2>2. UNCHANGED <<ap, task, ApFunction, result, all, Waiting, fn>>
    BY <1>3 DEF SetReady, aps, open, mp
  <2>3. \A c \in Aps \ {told} : State'[c] = State[c]
    BY <2>1 DEF TypeOK
  <2>4. ASSUME NEW c \in Aps, Reading(c)' PROVE Legit(c, ApFunction[c])
    <3>1. CASE c = told
      BY <2>1, <3>1 DEF Legitimate
    <3>2. CASE c # told
      BY <2>2, <2>3, <2>4, <3>2 DEF Legitimate, Reading
    <3> QED
      BY <3>1, <3>2
  <2> QED
    BY <2>1, <2>2, <2>4 DEF Legitimate, Legit
<1>4. CASE Signal
  BY <1>4, MpAssumption
     DEF Signal, aps, Legitimate, Legit, TypeOK, mp, open, local, wake, NoRequest, Reading,
         Begins, Executes
<1>5. CASE SendInitSipiSipi
  BY <1>5, MpAssumption
     DEF SendInitSipiSipi, Legitimate, Legit, TypeOK, mp, open, local, wake, NoRequest,
         Reading, Begins, Executes
<1>6. CASE WaitApWakeup
  BY <1>6, MpAssumption
     DEF WaitApWakeup, Legitimate, Legit, TypeOK, aps, mp, open, local, wake, NoRequest,
         Reading, Begins, Executes
<1>7. CASE ResetDone
  <2>1. PICK c \in targets :
          /\ State' = [State EXCEPT ![c] = "idle"]
          /\ \/ /\ back = "fail" /\ Goto("fail", index)
                /\ Waiting' = [Waiting EXCEPT ![c] = FALSE]
                /\ UNCHANGED <<this, result>>
             \/ back = "timeout" /\ EndThis(c, "timeout") /\ UNCHANGED Waiting
             \/ back = "caller" /\ Goto("caller", 1) /\ UNCHANGED <<Waiting, this, result>>
    BY <1>7 DEF ResetDone
  <2>2. c \in Aps /\ untold' = {} /\ UNCHANGED <<ap, task, ApFunction, all>>
    BY <1>7 DEF ResetDone, aps, TypeOK, WakeOK
  <2>3. ap[c] \notin Executes /\ ApFunction[c] = 0
    BY <1>7, <2>2 DEF ResetDone, WakeOK, Stopped, Resetting, InWakeUp, WakePcs
  <2>4. CASE EndThis(c, "timeout") /\ UNCHANGED Waiting
    BY <2>1, <2>2, <2>3, <2>4, LegitimateAfterThis
  <2>5. CASE /\ UNCHANGED result
             /\ (Waiting' = [Waiting EXCEPT ![c] = FALSE] \/ UNCHANGED Waiting)
    <3>1. ap'[c] \notin Executes /\ Legit(c, ApFunction[c])'
      BY <2>1, <2>2, <2>3 DEF Legit
    <3>2. ASSUME NEW d \in Aps, d # c
          PROVE  /\ Reading(d)' => Legit(d, ApFunction[d])'
                 /\ ap'[d] \in Executes => Legit(d, task[d])'
      <4>1. State'[d] = State[d] /\ (Waiting'[d] <=> Waiting[d])
        BY <2>1, <2>2, <2>5, <3>2 DEF TypeOK
      <4> QED
        BY <2>2, <2>5, <4>1 DEF Legitimate, Legit, Reading
    <3> QED
      BY <2>2, <3>1, <3>2 DEF Legitimate
  <2> QED
    BY <2>1, <2>4, <2>5 DEF Goto
<1>8. CASE ScanOne
  <2>0. PICK c \in Aps : c = First(Rest)
    BY <1>8, FirstLeast DEF ScanOne, Rest
  <2>1. UNCHANGED <<ap, task, ApFunction, all, result>> /\ untold = {}
    BY <1>8 DEF ScanOne, aps, open, WakeOK, InWakeUp, WakePcs
  <2>2. CASE UNCHANGED <<Waiting, State, untold>>
    BY <2>1, <2>2 DEF Legitimate, Legit, Reading
  <2>3. CASE /\ State[c] = "finished"
             /\ Waiting' = [Waiting EXCEPT ![c] = FALSE] /\ State' = [State EXCEPT ![c] = "idle"]
             /\ \/ UNCHANGED untold
                \/ \E d \in NextWaiting(c) : CallWakeUpAP({d}, all.id, "scan")
    <3>1. ~Reading(c)' /\ ap'[c] \notin Executes
      <4>1. ap[c] \notin Works /\ ap'[c] = ap[c]
        BY <2>1, <2>3 DEF Stopped
      <4>2. State'[c] = "idle"
        BY <2>1, <2>3 DEF TypeOK
      <4> QED
        BY <4>1, <4>2 DEF Works, Executes, Reading
    <3>2. ASSUME NEW d \in Aps, d # c
          PROVE  /\ Reading(d)' => Legit(d, ApFunction[d])'
                 /\ ap'[d] \in Executes => Legit(d, task[d])'
      <4>1. State'[d] = State[d] /\ (Waiting'[d] <=> Waiting[d])
        BY <2>1, <2>3, <3>2 DEF TypeOK
      <4> QED
        BY <2>1, <4>1 DEF Legitimate, Legit, Reading
    <3>3. \A d \in untold' : Legit(d, fn)'
      <4>1. CASE UNCHANGED untold
        BY <2>1, <4>1
      <4>2. ASSUME NEW d \in NextWaiting(c), CallWakeUpAP({d}, all.id, "scan")
            PROVE  \A e \in untold' : Legit(e, fn)'
        <5>1. untold' = {d} /\ fn' = all.id /\ d \in Aps /\ d # c /\ Waiting[d]
          BY <4>2 DEF CallWakeUpAP, NextWaiting
        <5>2. Waiting'[d]
          BY <2>3, <5>1 DEF TypeOK
        <5> QED
          BY <2>1, <5>1, <5>2 DEF Legit, Numbered
      <4> QED
        BY <2>3, <4>1, <4>2
    <3>4. ASSUME NEW d \in Aps
          PROVE  /\ Reading(d)' => Legit(d, ApFunction[d])'
                 /\ ap'[d] \in Executes => Legit(d, task[d])'
      <4> QED
        BY <3>1, <3>2
    <3> QED
      BY <3>3, <3>4 DEF Legitimate
  <2>4. NextWaiting(c) # {} => First(NextWaiting(c)) \in NextWaiting(c)
    BY FirstLeast DEF NextWaiting
  <2> QED
    BY <1>8, <2>0, <2>2, <2>3, <2>4 DEF ScanOne
<1>9. CASE ScanEnd
  <2>1. untold' = {}
    BY <1>9 DEF ScanEnd, WakeOK, InWakeUp, WakePcs, wake
  <2>2. CASE AllFinished /\ EndAll("success")
    BY <1>9, <2>1, <2>2, NoneWaiting, LegitimateAfterAll DEF ScanEnd, aps
  <2>3. CASE UNCHANGED <<all, result>>
    BY <1>9, <2>1, <2>3 DEF ScanEnd, aps, mp, Legitimate, Legit, Reading
  <2> QED
    BY <1>9, <2>2, <2>3 DEF ScanEnd
<1>10. CASE FailOne
  BY <1>10, MpAssumption
     DEF FailOne, Legitimate, Legit, TypeOK, Unfinished, CallReset, aps, mp, open, wake,
         NoRequest, Rest, CallWakeUpAP, Reading, Begins, Executes
<1>11. CASE FailEnd
  <2>1. untold' = {}
    BY <1>11 DEF FailEnd, WakeOK, InWakeUp, WakePcs, wake
  <2> QED
    BY <1>11, <2>1, NoneLeft, LegitimateAfterAll DEF FailEnd, aps
<1>12. CASE ThisFinished
  <2>1. index \in Aps /\ ap[index] \notin Works
    BY <1>12 DEF ThisFinished, Control, Stopped
  <2>2. untold' = {}
    BY <1>12 DEF ThisFinished, WakeOK, InWakeUp, WakePcs, wake
  <2> QED
    BY <1>12, <2>1, <2>2, LegitimateAfterThis DEF ThisFinished, aps, mp, Works
<1>13. CASE ThisTimeout
  BY <1>13, MpAssumption
     DEF ThisTimeout, Legitimate, Legit, TypeOK, CallReset, aps, mp, open, local, wake,
         NoRequest, CallWakeUpAP, Reading, Begins, Executes
<1>14. CASE ThisNotReady
  BY <1>14, MpAssumption
     DEF ThisNotReady, Legitimate, Legit, TypeOK, Goto, aps, mp, open, wake, NoRequest,
         Reading, Begins, Executes
<1>15. CASE UpdateAll
  BY <1>15, MpAssumption
     DEF UpdateAll, Legitimate, Legit, TypeOK, Goto, aps, mp, open, wake, NoRequest, Reading,
         Begins, Executes
<1>16. CASE UpdateThis
  BY <1>16 DEF UpdateThis, aps, mp, open, wake, Legitimate, Legit, Reading
<1>17. CASE RefuseAll
  BY <1>17, MpAssumption
     DEF RefuseAll, Legitimate, Legit, TypeOK, Enabled, Goto, aps, mp, open, wake, NoRequest,
         Reading, Begins, Executes
<1>18. CASE StartAll
  <2>1. /\ UNCHANGED <<ap, task, State, ApFunction, result, calls>> /\ all'.id = calls /\ fn' = calls
        /\ targets' \subseteq Aps
        /\ \A c \in all'.for : Waiting'[c]
    BY <1>18, FirstLeast DEF StartAll, aps, CallWakeUpAP, NewCall, FirstOnly, Enabled
  <2>2. Preparing
    BY <1>18 DEF StartAll, Preparing, Control, NoRequest, Starting, InWakeUp, WakePcs
  <2>3. /\ calls \in Nat /\ result.id \in Int /\ result.id <= calls - 1
        /\ \A c \in Aps : /\ ApFunction[c] \in Int /\ task[c] \in Int
                          /\ ApFunction[c] <= calls - 1 /\ task[c] <= calls - 1
    BY <2>2 DEF TypeOK, Calls, Numbered, Heard, LastCall
  <2>4. result.id # calls /\ \A c \in Aps : ApFunction[c] # calls /\ task[c] # calls
    BY <2>3
  <2> QED
    BY <2>1, <2>4 DEF Legitimate, Legit, Reading, Begins, Executes
<1>19. CASE RefuseThis
  BY <1>19, MpAssumption
     DEF RefuseThis, Legitimate, Legit, TypeOK, Goto, aps, mp, open, wake, NoRequest, Reading,
         Begins, Executes
<1>20. CASE StartThis
  <2>1. /\ UNCHANGED <<ap, task, State, ApFunction, result, all, Waiting, calls>> /\ fn' = calls
    BY <1>20 DEF StartThis, aps, mp, CallWakeUpAP
  <2>2. Preparing
    BY <1>20 DEF StartThis, Preparing, Control, NoRequest, Starting, InWakeUp, WakePcs
  <2>3. /\ calls \in Nat /\ result.id \in Int /\ result.id <= calls - 1
        /\ all.id \in Int /\ all.id <= calls - 1
    BY <2>2 DEF TypeOK, CallType, Calls, Numbered, LastCall
  <2>4. result.id # calls /\ all.id # calls
    BY <2>3
  <2> QED
    BY <2>1, <2>4 DEF Legitimate, Legit, Reading, Begins, Executes
<1>21. CASE Started
  BY <1>21, MpAssumption
     DEF Started, Legitimate, Legit, TypeOK, Goto, aps, mp, open, wake, NoRequest, Reading,
         Begins, Executes
<1>22. CASE CheckApsStatus
  BY <1>22, MpAssumption
     DEF CheckApsStatus, Legitimate, Legit, TypeOK, aps, mp, open, local, wake, NoRequest,
         Reading, Begins, Executes
<1>23. CASE StartupAllAPs
  BY <1>23, MpAssumption
     DEF StartupAllAPs, Legitimate, Legit, TypeOK, Startup, wake, NoRequest, Called, aps, mp,
         Reading, Begins, Executes
<1>24. CASE ExpireAll
  BY <1>24, MpAssumption
     DEF ExpireAll, Legitimate, Legit, TypeOK, aps, mp, local, wake, NoRequest, Reading,
         Begins, Executes
<1>25. ASSUME NEW c \in Aps, StartupThisAP(c) PROVE Legitimate'
  BY <1>25, MpAssumption
     DEF StartupThisAP, Legitimate, Legit, TypeOK, Startup, wake, NoRequest, Called, aps, mp,
         Reading, Begins, Executes
<1>26. ASSUME NEW c \in Aps, DisableAP(c) PROVE Legitimate'
  BY <1>26, MpAssumption
     DEF DisableAP, Legitimate, Legit, TypeOK, Called, aps, mp, local, wake, NoRequest,
         Reading, Begins, Executes
<1>27. ASSUME NEW c \in Aps, EnableAP(c) PROVE Legitimate'
  BY <1>27, MpAssumption
     DEF EnableAP, Legitimate, Legit, TypeOK, Called, CallReset, aps, mp, local, wake,
         NoRequest, CallWakeUpAP, Reading, Begins, Executes
<1>28. ASSUME NEW c \in Aps, ClearSignal(c) PROVE Legitimate'
  BY <1>28, MpAssumption
     DEF ClearSignal, Legitimate, Legit, TypeOK, mp, open, local, wake, NoRequest, Reading,
         Begins, Executes
<1>29. ASSUME NEW c \in Aps, ReadState(c) PROVE Legitimate'
  BY <1>29, MpAssumption
     DEF ReadState, Legitimate, Legit, TypeOK, IsReady, mp, open, local, wake, NoRequest,
         Reading, Begins, Executes
<1>30. ASSUME NEW c \in Aps, ReadFunction(c) PROVE Legitimate'
  BY <1>30, MpAssumption
     DEF ReadFunction, Legitimate, Legit, TypeOK, mp, open, local, wake, NoRequest, Reading,
         Begins, Executes
<1>31. ASSUME NEW c \in Aps, AcquireApLock(c) PROVE Legitimate'
  BY <1>31, MpAssumption
     DEF AcquireApLock, Legitimate, Legit, TypeOK, mp, open, local, wake, NoRequest, Reading,
         Begins, Executes
<1>32. ASSUME NEW c \in Aps, WriteState(c) PROVE Legitimate'
  BY <1>32, MpAssumption
     DEF WriteState, Legitimate, Legit, TypeOK, mp, open, local, wake, NoRequest, Reading,
         Begins, Executes
<1>33. ASSUME NEW c \in Aps, BeginProcedure(c) PROVE Legitimate'
  BY <1>33, MpAssumption
     DEF BeginProcedure, Legitimate, Legit, TypeOK, mp, open, local, wake, NoRequest, Reading,
         Begins, Executes
<1>34. ASSUME NEW c \in Aps, EndProcedure(c) PROVE Legitimate'
  BY <1>34, MpAssumption
     DEF EndProcedure, Legitimate, Legit, TypeOK, mp, open, local, wake, NoRequest, Reading,
         Begins, Executes
<1>35. ASSUME NEW c \in Aps, Finish(c) PROVE Legitimate'
  BY <1>35, MpAssumption
     DEF Finish, Legitimate, Legit, TypeOK, mp, open, local, wake, NoRequest, Reading, Begins,
         Executes
<1>36. ASSUME NEW c \in Aps, Count(c) PROVE Legitimate'
  BY <1>36, MpAssumption
     DEF Count, Legitimate, Legit, TypeOK, mp, open, local, wake, NoRequest, Reading, Begins,
         Executes
<1>37. ASSUME NEW c \in Aps, ExpireThis(c) PROVE Legitimate'
  BY <1>37, MpAssumption
     DEF ExpireThis, Legitimate, Legit, TypeOK, aps, mp, local, wake, NoRequest, Reading,
         Begins, Executes
<1>38. CASE UNCHANGED vars
  BY <1>38, MpAssumption
     DEF vars, Legitimate, Legit, TypeOK, aps, mp, open, local, wake, NoRequest, Reading,
         Begins, Executes
<1> QED
  BY <1>1, <1>2, <1>3, <1>4, <1>5, <1>6, <1>7, <1>8, <1>9, <1>10, <1>11, <1>12, <1>13,
     <1>14, <1>15, <1>16, <1>17, <1>18, <1>19, <1>20, <1>21, <1>22, <1>23, <1>24, <1>25,
     <1>26, <1>27, <1>28, <1>29, <1>30, <1>31, <1>32, <1>33, <1>34, <1>35, <1>36, <1>37,
     <1>38
     DEF Next, Bsp, ApLoop, Expire

-----------------------------------------------------------------------------
(***************************************************************************)
(* The invariant of every use of the services                              *)
(***************************************************************************)

SafeInv ==
  /\ TypeOK /\ Control /\ WakeOK /\ Accounts
  /\ Signals /\ Numbered /\ Heard
  /\ Stopped /\ Legitimate

LEMMA InitSafe == Init => SafeInv
<1> SUFFICES ASSUME Init PROVE SafeInv
  OBVIOUS
<1>1. 0 \in Calls /\ 1 \in 1 .. NumberOfAps + 1 /\ 0 \in 0 .. NumberOfAps /\ NumberOfAps \in Nat
  BY MpAssumption DEF Calls
<1>2. TypeOK
  <2>1. NoCall \in CallType
    BY <1>1 DEF NoCall, CallType
  <2>2. ApLoopMode \in {"hlt", "mwait"}
    BY MpAssumption DEF Init
  <2> QED
    BY <1>1, <2>1, <2>2 DEF Init, TypeOK, WakePcs
<1>3. Control /\ WakeOK
  BY DEF Init, Control, WakeOK, NoRequest, InWakeUp, WakePcs, Starting
<1>4. Accounts
  BY DEF Init, Accounts, Failing, InWakeUp, WakePcs, NoCall
<1>5. Signals /\ Numbered /\ Heard
  BY <1>1 DEF Init, Signals, Numbered, Heard, LastCall, Preparing, Starting, InWakeUp, WakePcs,
              NoCall, NoRequest
<1>6. Stopped /\ Legitimate
  BY DEF Init, Stopped, Resetting, Legitimate, InWakeUp, WakePcs, Begins, Executes, Works,
         Reading
<1> QED
  BY <1>2, <1>3, <1>4, <1>5, <1>6 DEF SafeInv

LEMMA NextSafe == SafeInv /\ [Next]_vars => SafeInv'
<1> SUFFICES ASSUME SafeInv, [Next]_vars PROVE SafeInv'
  OBVIOUS
<1>1. TypeOK /\ Control /\ WakeOK /\ Accounts /\ Signals /\ Numbered /\ Heard /\ Stopped /\ Legitimate
  BY DEF SafeInv
<1>2. TypeOK' /\ Control' /\ WakeOK' /\ Accounts'
  BY <1>1, NextTypeOK, NextControl, NextWakeOK, NextAccounts
<1>3. Signals' /\ Numbered' /\ Heard' /\ Stopped' /\ Legitimate'
  BY <1>1, NextSignals, NextNumbered, NextHeard, NextStopped, NextLegitimate
<1> QED
  BY <1>2, <1>3 DEF SafeInv

\* The invariant holds whatever the callers do, those included that start, disable
\* or enable an AP which another call is using.
THEOREM AlwaysSafe == Spec => []SafeInv
BY InitSafe, NextSafe, PTL DEF Spec

\* The types, for any number of processors and of calls: the loops over the
\* processors (CheckAllAPs, CheckAndUpdateApsStatus) end at the last one, and
\* ResetProcessorToIdleState is always given exactly one.
THEOREM TypeCorrect == Spec => []TypeOK
<1>1. SafeInv => TypeOK
  BY DEF SafeInv
<1> QED
  BY <1>1, AlwaysSafe, PTL

\* "If the timeout expires before all APs return from Procedure, then Procedure on
\* the failed APs is terminated" (DxeMpLib.c:435): once a call has ended, no AP it
\* was made for runs its procedure. It holds for every use of the services, and
\* also where a reset returns before its AP is back in the loop.
THEOREM FailedApsTerminated == Spec => []Terminated
<1>1. SafeInv => Terminated
  <2> SUFFICES ASSUME SafeInv, NEW c \in Aps, ap[c] = "procedure", result.id = task[c]
               PROVE  c \notin result.for
    BY DEF Terminated
  <2> QED
    BY DEF SafeInv, Legitimate, Legit, Stopped, Reading, Begins, Executes, Works
<1> QED
  BY <1>1, AlwaysSafe, PTL

-----------------------------------------------------------------------------
(***************************************************************************)
(* Callers that leave an AP alone while a call uses it                     *)
(***************************************************************************)

\* An AP is in one call at a time. Until the call has ended it is not disabled, and
\* not idle either once StartupThisAP has woken it.
Exclusive ==
  /\ \A c \in Aps : Engaged(c) => State[c] # "disabled"
  /\ \A c \in Aps : this[c].id # 0 =>
       ~Waiting[c] /\ (State[c] # "idle" \/ c \in untold)
  /\ Preparing /\ request.service = "startThis" => ~Engaged(apNumber)
  /\ InWakeUp /\ back = "caller" => \A c \in targets : ~Engaged(c)
  /\ InWakeUp /\ back = "timeout" => this[index].id # 0
  /\ Starting /\ request.service = "startAll" => \A c \in Aps : this[c].id = 0

LEMMA NextExclusive ==
  ASSUME ~Overlap, TypeOK, Control, WakeOK, Accounts, Signals, Numbered, Heard, Stopped,
         Exclusive, [Next]_vars
  PROVE  Exclusive'
<1>1. CASE Wake
  BY <1>1, MpAssumption
     DEF Wake, aps, Exclusive, TypeOK, Control, WakeOK, wake, mp, open, local, Engaged,
         Preparing, InWakeUp, Starting, NoRequest, WakePcs
<1>2. CASE GiveFunction
  BY <1>2, MpAssumption
     DEF GiveFunction, aps, Exclusive, TypeOK, Control, WakeOK, mp, open, local, wake,
         Engaged, Preparing, InWakeUp, Starting, NoRequest, WakePcs
<1>3. CASE SetReady
  BY <1>3, MpAssumption
     DEF SetReady, aps, Exclusive, TypeOK, Control, WakeOK, mp, open, local, wake,
         Engaged, Preparing, InWakeUp, Starting, NoRequest, WakePcs
<1>4. CASE Signal
  BY <1>4, MpAssumption
     DEF Signal, aps, Exclusive, TypeOK, Control, WakeOK, mp, open, local, wake,
         Engaged, Preparing, InWakeUp, Starting, NoRequest, WakePcs
<1>5. CASE SendInitSipiSipi
  BY <1>5, MpAssumption
     DEF SendInitSipiSipi, Exclusive, TypeOK, Control, WakeOK, mp, open, local, wake,
         Engaged, Preparing, InWakeUp, Starting, NoRequest, WakePcs
<1>6. CASE WaitApWakeup
  BY <1>6, MpAssumption
     DEF WaitApWakeup, Exclusive, TypeOK, Control, WakeOK, aps, mp, open, local, Engaged,
         wake, Preparing, InWakeUp, Starting, NoRequest, WakePcs
<1>7. CASE ResetDone
  BY <1>7, MpAssumption
     DEF ResetDone, Exclusive, TypeOK, Control, WakeOK, Goto, EndThis, aps, Engaged, wake,
         Preparing, InWakeUp, Starting, NoRequest, NoCall, AfterCheck, WakePcs
<1>8. CASE ScanOne
  <2> DEFINE c == First(Rest)
  <2>1. c \in Aps /\ Waiting[c] /\ UNCHANGED <<this, request, apNumber, polling>>
    BY <1>8, FirstLeast DEF ScanOne, Rest, open
  <2>2. /\ \/ UNCHANGED <<Waiting, State>>
           \/ Waiting' = [Waiting EXCEPT ![c] = FALSE] /\ State' = [State EXCEPT ![c] = "idle"]
        /\ bsp = "scan" /\ bsp' \in {"scan", "wake"} /\ (bsp' = "wake" => back' = "scan")
        /\ untold = {}
    BY <1>8 DEF ScanOne, CallWakeUpAP, WakeOK, InWakeUp, WakePcs
  <2> HIDE DEF c
  <2>3. \A d \in Aps : /\ Waiting'[d] => Waiting[d]
                       /\ State'[d] = State[d] \/ (d = c /\ State'[d] = "idle")
    BY <2>1, <2>2 DEF TypeOK
  <2>4. this[c].id = 0
    BY <2>1 DEF Exclusive
  <2>5. Preparing' => Preparing
    BY <2>1, <2>2 DEF Preparing, Starting, InWakeUp, WakePcs
  <2>6. \A d \in Aps : Engaged(d)' => Engaged(d)
    BY <2>1, <2>3 DEF Engaged
  <2>7. \A d \in Aps : this[d].id # 0 => ~Waiting'[d] /\ State'[d] # "idle"
    BY <2>2, <2>3, <2>4 DEF Exclusive
  <2>8. \A d \in Aps : Engaged(d)' => State'[d] # "disabled"
    BY <2>3, <2>6 DEF Exclusive
  <2>9. Preparing' /\ request'.service = "startThis" => ~Engaged(apNumber)'
    <3>1. request.service = "startThis" => apNumber \in Aps
      BY DEF Control
    <3> QED
      BY <2>1, <2>5, <2>6, <3>1 DEF Exclusive, Engaged
  <2> QED
    BY <2>1, <2>2, <2>7, <2>8, <2>9 DEF Exclusive, InWakeUp, WakePcs, Starting
<1>9. CASE ScanEnd
  BY <1>9, MpAssumption
     DEF ScanEnd, Exclusive, TypeOK, Control, WakeOK, Rest, EndAll, Goto, aps, mp, wake,
         Engaged, Preparing, InWakeUp, Starting, NoRequest, NoCall, AfterCheck, WakePcs
<1>10. CASE FailOne
  BY <1>10, MpAssumption
     DEF FailOne, Exclusive, TypeOK, Control, WakeOK, Unfinished, CallReset, aps, mp, open,
         Engaged, wake, Preparing, InWakeUp, Starting, NoRequest, Rest, CallWakeUpAP,
         WakePcs
<1>11. CASE FailEnd
  BY <1>11, MpAssumption
     DEF FailEnd, Exclusive, TypeOK, Control, WakeOK, Unfinished, EndAll, aps, mp, wake,
         Engaged, Preparing, InWakeUp, Starting, NoRequest, Rest, NoCall, Goto, AfterCheck,
         WakePcs
<1>12. CASE ThisFinished
  BY <1>12, MpAssumption
     DEF ThisFinished, Exclusive, TypeOK, Control, WakeOK, EndThis, aps, mp, wake, Engaged,
         Preparing, InWakeUp, Starting, NoRequest, NoCall, Goto, AfterCheck, WakePcs
<1>13. CASE ThisTimeout
  BY <1>13, MpAssumption
     DEF ThisTimeout, Exclusive, TypeOK, Control, WakeOK, Numbered, NoCall, CallReset, aps,
         mp, open, local, Engaged, wake, Preparing, InWakeUp, Starting, NoRequest,
         CallWakeUpAP, WakePcs
<1>14. CASE ThisNotReady
  BY <1>14, MpAssumption
     DEF ThisNotReady, Exclusive, TypeOK, Control, WakeOK, Goto, aps, mp, open, wake,
         Engaged, Preparing, InWakeUp, Starting, NoRequest, WakePcs
<1>15. CASE UpdateAll
  BY <1>15, MpAssumption
     DEF UpdateAll, Exclusive, TypeOK, Control, WakeOK, Goto, aps, mp, open, wake, Engaged,
         Preparing, InWakeUp, Starting, NoRequest, WakePcs
<1>16. CASE UpdateThis
  BY <1>16, MpAssumption, RequestType
     DEF UpdateThis, Exclusive, TypeOK, Control, WakeOK, Services, Goto, aps, mp, open,
         wake, Engaged, Preparing, InWakeUp, Starting, NoRequest, WakePcs
<1>17. CASE RefuseAll
  BY <1>17, MpAssumption
     DEF RefuseAll, Exclusive, TypeOK, Control, WakeOK, Enabled, Goto, aps, mp, open, wake,
         Engaged, Preparing, InWakeUp, Starting, NoRequest, WakePcs
<1>18. CASE StartAll
  <2>0. untold = {}
    BY <1>18 DEF StartAll, WakeOK, InWakeUp, WakePcs
  <2>1. /\ bsp = "startAll" /\ bsp' = "wake" /\ back' = "started" /\ AllIdle(Enabled)
        /\ Waiting' = [c \in Aps |-> c \in Enabled] /\ UNCHANGED <<this, State>>
    BY <1>18 DEF StartAll, CallWakeUpAP
  <2>2. \A c \in Aps : this[c].id = 0
    BY <2>0, <2>1 DEF Exclusive, Engaged, AllIdle, Enabled
  <2>3. \A c \in Aps : Engaged(c)' => State'[c] # "disabled"
    BY <2>1, <2>2 DEF Engaged, Enabled
  <2> QED
    BY <2>1, <2>2, <2>3 DEF Exclusive, Preparing, Starting, InWakeUp, WakePcs
<1>19. CASE RefuseThis
  BY <1>19, MpAssumption
     DEF RefuseThis, Exclusive, TypeOK, Control, WakeOK, Goto, aps, mp, open, wake, Engaged,
         Preparing, InWakeUp, Starting, NoRequest, WakePcs
<1>20. CASE StartThis
  BY <1>20, MpAssumption
     DEF StartThis, Exclusive, TypeOK, Control, WakeOK, NewCall, CallWakeUpAP, aps, mp,
         local, Engaged, wake, Preparing, InWakeUp, Starting, NoRequest, WakePcs
<1>21. CASE Started
  BY <1>21, MpAssumption
     DEF Started, Exclusive, TypeOK, Control, WakeOK, Goto, aps, mp, open, wake, Engaged,
         Preparing, InWakeUp, Starting, NoRequest, WakePcs
<1>22. CASE CheckApsStatus
  BY <1>22, MpAssumption
     DEF CheckApsStatus, Exclusive, TypeOK, Control, WakeOK, aps, mp, open, local, wake,
         Engaged, Preparing, InWakeUp, Starting, NoRequest, WakePcs
<1>23. CASE StartupAllAPs
  BY <1>23, MpAssumption
     DEF StartupAllAPs, Exclusive, TypeOK, Control, WakeOK, Startup, Engaged, wake,
         Preparing, InWakeUp, Starting, NoRequest, Called, aps, mp, WakePcs
<1>24. CASE ExpireAll
  BY <1>24, MpAssumption
     DEF ExpireAll, Exclusive, TypeOK, Control, WakeOK, aps, mp, local, wake, Engaged,
         Preparing, InWakeUp, Starting, NoRequest, WakePcs
<1>25. ASSUME NEW c \in Aps, StartupThisAP(c) PROVE Exclusive'
  BY <1>25, MpAssumption
     DEF StartupThisAP, Exclusive, TypeOK, Control, WakeOK, MayUse, Startup, Engaged, wake,
         Preparing, InWakeUp, Starting, NoRequest, Called, aps, mp, WakePcs
<1>26. ASSUME NEW c \in Aps, DisableAP(c) PROVE Exclusive'
  BY <1>26, MpAssumption
     DEF DisableAP, Exclusive, TypeOK, Control, WakeOK, Called, MayUse, aps, mp, local,
         wake, Engaged, Preparing, InWakeUp, Starting, NoRequest, WakePcs
<1>27. ASSUME NEW c \in Aps, EnableAP(c) PROVE Exclusive'
  BY <1>27, MpAssumption
     DEF EnableAP, Exclusive, TypeOK, Control, WakeOK, Called, MayUse, CallReset, aps, mp,
         local, Engaged, wake, Preparing, InWakeUp, Starting, NoRequest, CallWakeUpAP,
         WakePcs
<1>28. ASSUME NEW c \in Aps, ClearSignal(c) PROVE Exclusive'
  BY <1>28, MpAssumption
     DEF ClearSignal, Exclusive, TypeOK, Control, WakeOK, mp, open, local, wake, Engaged,
         Preparing, InWakeUp, Starting, NoRequest, WakePcs
<1>29. ASSUME NEW c \in Aps, ReadState(c) PROVE Exclusive'
  BY <1>29, MpAssumption
     DEF ReadState, Exclusive, TypeOK, Control, WakeOK, IsReady, mp, open, local, wake,
         Engaged, Preparing, InWakeUp, Starting, NoRequest, WakePcs
<1>30. ASSUME NEW c \in Aps, ReadFunction(c) PROVE Exclusive'
  BY <1>30, MpAssumption
     DEF ReadFunction, Exclusive, TypeOK, Control, WakeOK, mp, open, local, wake, Engaged,
         Preparing, InWakeUp, Starting, NoRequest, WakePcs
<1>31. ASSUME NEW c \in Aps, AcquireApLock(c) PROVE Exclusive'
  BY <1>31, MpAssumption
     DEF AcquireApLock, Exclusive, TypeOK, Control, WakeOK, mp, open, local, wake, Engaged,
         Preparing, InWakeUp, Starting, NoRequest, WakePcs
<1>32. ASSUME NEW c \in Aps, WriteState(c) PROVE Exclusive'
  BY <1>32, MpAssumption
     DEF WriteState, Exclusive, TypeOK, Control, WakeOK, mp, open, local, wake, Engaged,
         Preparing, InWakeUp, Starting, NoRequest, WakePcs
<1>33. ASSUME NEW c \in Aps, BeginProcedure(c) PROVE Exclusive'
  BY <1>33, MpAssumption
     DEF BeginProcedure, Exclusive, TypeOK, Control, WakeOK, mp, open, local, wake, Engaged,
         Preparing, InWakeUp, Starting, NoRequest, WakePcs
<1>34. ASSUME NEW c \in Aps, EndProcedure(c) PROVE Exclusive'
  BY <1>34, MpAssumption
     DEF EndProcedure, Exclusive, TypeOK, Control, WakeOK, mp, open, local, wake, Engaged,
         Preparing, InWakeUp, Starting, NoRequest, WakePcs
<1>35. ASSUME NEW c \in Aps, Finish(c) PROVE Exclusive'
  BY <1>35, MpAssumption
     DEF Finish, Exclusive, TypeOK, Control, WakeOK, mp, open, local, wake, Engaged,
         Preparing, InWakeUp, Starting, NoRequest, WakePcs
<1>36. ASSUME NEW c \in Aps, Count(c) PROVE Exclusive'
  BY <1>36, MpAssumption
     DEF Count, Exclusive, TypeOK, Control, WakeOK, mp, open, local, wake, Engaged,
         Preparing, InWakeUp, Starting, NoRequest, WakePcs
<1>37. ASSUME NEW c \in Aps, ExpireThis(c) PROVE Exclusive'
  BY <1>37, MpAssumption
     DEF ExpireThis, Exclusive, TypeOK, Control, WakeOK, aps, mp, local, wake, Engaged,
         Preparing, InWakeUp, Starting, NoRequest, WakePcs
<1>38. CASE UNCHANGED vars
  BY <1>38, MpAssumption
     DEF vars, Exclusive, TypeOK, Control, WakeOK, aps, mp, open, local, wake, Engaged,
         Preparing, InWakeUp, Starting, NoRequest, WakePcs
<1> QED
  BY <1>1, <1>2, <1>3, <1>4, <1>5, <1>6, <1>7, <1>8, <1>9, <1>10, <1>11, <1>12, <1>13,
     <1>14, <1>15, <1>16, <1>17, <1>18, <1>19, <1>20, <1>21, <1>22, <1>23, <1>24, <1>25,
     <1>26, <1>27, <1>28, <1>29, <1>30, <1>31, <1>32, <1>33, <1>34, <1>35, <1>36, <1>37,
     <1>38
     DEF Next, Bsp, ApLoop, Expire

\* AP c runs the procedure of call k: it has it, will read it, or has returned.
Answers(c, k) ==
  /\ State[c] = "finished" => k \in done[c]
  /\ Reading(c) => ApFunction[c] = k
  /\ ap[c] \in Executes => task[c] = k
  /\ ap[c] \in {"finish", "lockedFinished"} => k \in done[c]

\* It sits in its loop and is about to be told.
Untold(c, k) == c \in untold /\ fn = k /\ ap[c] = "loop"

Runs(c, k) == Resetting(c) \/ Answers(c, k) \/ Untold(c, k)

\* Call k is in progress and was made for c, which sat in its loop.
Owed(c, k) ==
  \/ c \in this[c].for /\ k = this[c].id
  \/ c \in all.for /\ Waiting[c] /\ k = all.id

\* An AP that a call in progress was made for runs its procedure or is reset.
Runners == \A c \in Aps : \A k \in Calls : Owed(c, k) => Runs(c, k)

\* An AP that StartupAllAPs has counted has returned from the procedure.
Counted == ~Failing => \A c \in all.for : ~Waiting[c] => all.id \in done[c]

LEMMA OwedEngaged ==
  ASSUME Numbered, Accounts, Exclusive, NEW c \in Aps, NEW k, Owed(c, k)
  PROVE  /\ Engaged(c) /\ k # 0
         /\ Waiting[c] => k = all.id
         /\ this[c].id # 0 => k = this[c].id
BY DEF Owed, Engaged, Numbered, Accounts, Exclusive, NoCall

\* Procedures are given to the APs that the call in progress was made for.
LEMMA ToldOwn ==
  ASSUME TypeOK, Control, WakeOK, Numbered, Accounts, Exclusive, NEW c \in Aps, NEW k,
         Owed(c, k), InWakeUp, fn # 0, c \in targets
  PROVE  fn = k
<1>1. CASE back = "scan"
  BY <1>1, OwedEngaged DEF WakeOK
<1>2. CASE back = "started" /\ request.service = "startAll"
  <2>1. this[c].id = 0 /\ fn = all.id
    BY <1>2 DEF WakeOK, Exclusive, Starting
  <2> QED
    BY <2>1, OwedEngaged DEF Owed, Numbered, NoCall
<1>3. CASE back = "started" /\ request.service = "startThis"
  <2>1. this[c].id = fn
    BY <1>3 DEF WakeOK, Starting
  <2> QED
    BY <2>1, OwedEngaged
<1>4. request.service \in {"startAll", "startThis"} \/ back # "started"
  BY RequestType DEF Control, Services, Starting
<1> QED
  BY <1>1, <1>2, <1>3, <1>4 DEF WakeOK

LEMMA NextOwed ==
  ASSUME ~Overlap, TypeOK, Control, WakeOK, Accounts, Signals, Numbered, Heard, Stopped,
         Exclusive,
         NEW c \in Aps, NEW k \in Calls, Owed(c, k)', [Next]_vars
  PROVE  Owed(c, k) \/ Runs(c, k)'
<1>1. CASE Wake
  BY <1>1, MpAssumption DEF Wake, aps, Owed, TypeOK, wake, mp, open, local, NoRequest
<1>2. CASE GiveFunction
  BY <1>2, MpAssumption DEF GiveFunction, aps, Owed, TypeOK, mp, open, local, wake, NoRequest
<1>3. CASE SetReady
  BY <1>3, MpAssumption DEF SetReady, aps, Owed, TypeOK, mp, open, local, wake, NoRequest
<1>4. CASE Signal
  BY <1>4, MpAssumption DEF Signal, aps, Owed, TypeOK, mp, open, local, wake, NoRequest
<1>5. CASE SendInitSipiSipi
  BY <1>5, MpAssumption DEF SendInitSipiSipi, Owed, TypeOK, mp, open, local, wake, NoRequest
<1>6. CASE WaitApWakeup
  BY <1>6, MpAssumption
     DEF WaitApWakeup, Owed, TypeOK, aps, mp, open, local, wake, NoRequest
<1>7. CASE ResetDone
  BY <1>7, MpAssumption
     DEF ResetDone, Owed, TypeOK, Goto, EndThis, aps, wake, NoRequest, NoCall, AfterCheck
<1>8. CASE ScanOne
  BY <1>8, MpAssumption
     DEF ScanOne, Owed, TypeOK, Rest, NextWaiting, CallWakeUpAP, aps, open, wake, NoRequest
<1>9. CASE ScanEnd
  BY <1>9, MpAssumption
     DEF ScanEnd, Owed, TypeOK, Rest, EndAll, Goto, aps, mp, wake, NoRequest, NoCall,
         AfterCheck
<1>10. CASE FailOne
  BY <1>10, MpAssumption
     DEF FailOne, Owed, TypeOK, Unfinished, CallReset, aps, mp, open, wake, NoRequest, Rest,
         CallWakeUpAP
<1>11. CASE FailEnd
  BY <1>11, MpAssumption
     DEF FailEnd, Owed, TypeOK, Unfinished, EndAll, aps, mp, wake, NoRequest, Rest, NoCall,
         Goto, AfterCheck
<1>12. CASE ThisFinished
  BY <1>12, MpAssumption
     DEF ThisFinished, Owed, TypeOK, EndThis, aps, mp, wake, NoRequest, NoCall, Goto,
         AfterCheck
<1>13. CASE ThisTimeout
  BY <1>13, MpAssumption
     DEF ThisTimeout, Owed, TypeOK, CallReset, aps, mp, open, local, wake, NoRequest,
         CallWakeUpAP
<1>14. CASE ThisNotReady
  BY <1>14, MpAssumption
     DEF ThisNotReady, Owed, TypeOK, Goto, aps, mp, open, wake, NoRequest
<1>15. CASE UpdateAll
  BY <1>15, MpAssumption DEF UpdateAll, Owed, TypeOK, Goto, aps, mp, open, wake, NoRequest
<1>16. CASE UpdateThis
  BY <1>16, MpAssumption DEF UpdateThis, Owed, TypeOK, Goto, aps, mp, open, wake, NoRequest
<1>17. CASE RefuseAll
  BY <1>17, MpAssumption
     DEF RefuseAll, Owed, TypeOK, Enabled, Goto, aps, mp, open, wake, NoRequest
<1>18. CASE StartAll
  <2>0. untold = {}
    BY <1>18 DEF StartAll, WakeOK, InWakeUp, WakePcs
  <2>1. /\ bsp = "startAll" /\ AllIdle(Enabled) /\ UNCHANGED <<ap, task, State, ApFunction, done, this>>
        /\ all'.for = {d \in Enabled : ap[d] = "loop"}
    BY <1>18 DEF StartAll, aps, NewCall
  <2>2. \A d \in Aps : this[d].for = {}
    BY <2>0, <2>1 DEF Exclusive, Engaged, AllIdle, Enabled, Numbered, NoCall
  <2>3. c \in all'.for
    BY <2>1, <2>2 DEF Owed
  <2>4. State'[c] = "idle" /\ ap'[c] = "loop"
    BY <2>1, <2>3 DEF AllIdle
  <2> QED
    BY <2>4 DEF Runs, Answers, Reading, Begins, Executes
<1>19. CASE RefuseThis
  BY <1>19, MpAssumption DEF RefuseThis, Owed, TypeOK, Goto, aps, mp, open, wake, NoRequest
<1>20. CASE StartThis
  <2>1. /\ UNCHANGED <<ap, all, Waiting>> /\ bsp' = "wake" /\ untold' = {apNumber} /\ fn' = calls
        /\ this' = [this EXCEPT ![apNumber] = NewCall({apNumber})] /\ apNumber \in Aps
    BY <1>20 DEF StartThis, aps, mp, CallWakeUpAP, Control
  <2>2. CASE c \in this'[c].for /\ k = this'[c].id
    <3>1. CASE c = apNumber
      <4>1. k = calls /\ ap[c] = "loop"
        BY <2>1, <2>2, <3>1 DEF NewCall, TypeOK
      <4> QED
        BY <2>1, <3>1, <4>1 DEF Runs, Untold
    <3>2. CASE c # apNumber
      BY <2>1, <2>2, <3>2 DEF Owed, TypeOK
    <3> QED
      BY <3>1, <3>2
  <2> QED
    BY <2>1, <2>2 DEF Owed
<1>21. CASE Started
  BY <1>21, MpAssumption DEF Started, Owed, TypeOK, Goto, aps, mp, open, wake, NoRequest
<1>22. CASE CheckApsStatus
  BY <1>22, MpAssumption
     DEF CheckApsStatus, Owed, TypeOK, aps, mp, open, local, wake, NoRequest
<1>23. CASE StartupAllAPs
  BY <1>23, MpAssumption
     DEF StartupAllAPs, Owed, TypeOK, Startup, wake, NoRequest, Called, aps, mp
<1>24. CASE ExpireAll
  BY <1>24, MpAssumption DEF ExpireAll, Owed, TypeOK, aps, mp, local, wake, NoRequest
<1>25. ASSUME NEW a \in Aps, StartupThisAP(a) PROVE Owed(c, k) \/ Runs(c, k)'
  BY <1>25, MpAssumption
     DEF StartupThisAP, Owed, TypeOK, Startup, wake, NoRequest, Called, aps, mp
<1>26. ASSUME NEW a \in Aps, DisableAP(a) PROVE Owed(c, k) \/ Runs(c, k)'
  BY <1>26, MpAssumption
     DEF DisableAP, Owed, TypeOK, Called, aps, mp, local, wake, NoRequest
<1>27. ASSUME NEW a \in Aps, EnableAP(a) PROVE Owed(c, k) \/ Runs(c, k)'
  BY <1>27, MpAssumption
     DEF EnableAP, Owed, TypeOK, Called, CallReset, aps, mp, local, wake, NoRequest,
         CallWakeUpAP
<1>28. ASSUME NEW a \in Aps, ClearSignal(a) PROVE Owed(c, k) \/ Runs(c, k)'
  BY <1>28, MpAssumption DEF ClearSignal, Owed, TypeOK, mp, open, local, wake, NoRequest
<1>29. ASSUME NEW a \in Aps, ReadState(a) PROVE Owed(c, k) \/ Runs(c, k)'
  BY <1>29, MpAssumption
     DEF ReadState, Owed, TypeOK, IsReady, mp, open, local, wake, NoRequest
<1>30. ASSUME NEW a \in Aps, ReadFunction(a) PROVE Owed(c, k) \/ Runs(c, k)'
  BY <1>30, MpAssumption DEF ReadFunction, Owed, TypeOK, mp, open, local, wake, NoRequest
<1>31. ASSUME NEW a \in Aps, AcquireApLock(a) PROVE Owed(c, k) \/ Runs(c, k)'
  BY <1>31, MpAssumption DEF AcquireApLock, Owed, TypeOK, mp, open, local, wake, NoRequest
<1>32. ASSUME NEW a \in Aps, WriteState(a) PROVE Owed(c, k) \/ Runs(c, k)'
  BY <1>32, MpAssumption DEF WriteState, Owed, TypeOK, mp, open, local, wake, NoRequest
<1>33. ASSUME NEW a \in Aps, BeginProcedure(a) PROVE Owed(c, k) \/ Runs(c, k)'
  BY <1>33, MpAssumption DEF BeginProcedure, Owed, TypeOK, mp, open, local, wake, NoRequest
<1>34. ASSUME NEW a \in Aps, EndProcedure(a) PROVE Owed(c, k) \/ Runs(c, k)'
  BY <1>34, MpAssumption DEF EndProcedure, Owed, TypeOK, mp, open, local, wake, NoRequest
<1>35. ASSUME NEW a \in Aps, Finish(a) PROVE Owed(c, k) \/ Runs(c, k)'
  BY <1>35, MpAssumption DEF Finish, Owed, TypeOK, mp, open, local, wake, NoRequest
<1>36. ASSUME NEW a \in Aps, Count(a) PROVE Owed(c, k) \/ Runs(c, k)'
  BY <1>36, MpAssumption DEF Count, Owed, TypeOK, mp, open, local, wake, NoRequest
<1>37. ASSUME NEW a \in Aps, ExpireThis(a) PROVE Owed(c, k) \/ Runs(c, k)'
  BY <1>37, MpAssumption DEF ExpireThis, Owed, TypeOK, aps, mp, local, wake, NoRequest
<1>38. CASE UNCHANGED vars
  BY <1>38, MpAssumption DEF vars, Owed, TypeOK, aps, mp, open, local, wake, NoRequest
<1> QED
  BY <1>1, <1>2, <1>3, <1>4, <1>5, <1>6, <1>7, <1>8, <1>9, <1>10, <1>11, <1>12, <1>13,
     <1>14, <1>15, <1>16, <1>17, <1>18, <1>19, <1>20, <1>21, <1>22, <1>23, <1>24, <1>25,
     <1>26, <1>27, <1>28, <1>29, <1>30, <1>31, <1>32, <1>33, <1>34, <1>35, <1>36, <1>37,
     <1>38
     DEF Next, Bsp, ApLoop, Expire

LEMMA NextRuns ==
  ASSUME TypeOK, Control, WakeOK, Accounts, Signals, Numbered, Heard, Stopped, Exclusive,
         NEW c \in Aps, NEW k \in Calls, Owed(c, k), Owed(c, k)', Runs(c, k), [Next]_vars
  PROVE  Runs(c, k)'
<1>1. CASE Wake
  <2>1. UNCHANGED <<ap, task, done, State, ApFunction, targets, untold, fn>>
    BY <1>1 DEF Wake, aps, wake
  <2>2. InWakeUp'
    BY <1>1 DEF Wake, InWakeUp, WakePcs
  <2> QED
    BY <2>1, <2>2 DEF Runs, Resetting, Answers, Untold, Reading
<1>2. CASE GiveFunction
  <2>1. PICK d \in Aps : d \in targets /\ ApFunction' = [ApFunction EXCEPT ![d] = fn]
    BY <1>2, Giving
  <2>2. /\ InWakeUp /\ InWakeUp'
        /\ UNCHANGED <<ap, task, done, State, targets, untold, fn>>
    BY <1>2 DEF GiveFunction, aps, InWakeUp, WakePcs
  <2>3. CASE fn = 0 /\ c \in targets
    BY <2>2, <2>3 DEF Runs, Resetting
  <2>4. CASE ~(fn = 0 /\ c \in targets)
    <3>1. ApFunction'[c] = ApFunction[c] \/ (fn # 0 /\ c \in targets /\ ApFunction'[c] = fn)
      BY <2>1, <2>4 DEF TypeOK
    <3>2. ApFunction'[c] = ApFunction[c] \/ ApFunction'[c] = k
      BY <2>2, <3>1, ToldOwn
    <3> QED
      BY <2>2, <2>4, <3>2 DEF Runs, Resetting, Answers, Untold, Reading
  <2> QED
    BY <2>3, <2>4
<1>3. CASE SetReady
  <2>1. /\ State' = [State EXCEPT ![told] = "ready"] /\ untold' = untold \ {told}
        /\ told \in targets /\ told \in Aps /\ ApFunction[told] = fn
    BY <1>3 DEF SetReady, WakeOK, TypeOK
  <2>2. InWakeUp /\ InWakeUp' /\ UNCHANGED <<ap, task, done, ApFunction, targets, fn>>
    BY <1>3 DEF SetReady, aps, InWakeUp, WakePcs
  <2>3. CASE fn = 0 /\ c \in targets
    BY <2>2, <2>3 DEF Runs, Resetting
  <2>4. CASE fn # 0 /\ c = told
    <3>1. ApFunction'[c] = k /\ State'[c] = "ready"
      BY <2>1, <2>2, <2>4, ToldOwn DEF TypeOK
    <3>2. Answers(c, k) \/ ap[c] = "loop"
      BY <2>4 DEF Runs, Resetting, Untold
    <3> QED
      BY <2>2, <3>1, <3>2 DEF Runs, Answers, Executes, Begins
  <2>5. CASE c # told /\ ~(fn = 0 /\ c \in targets)
    <3>1. State'[c] = State[c] /\ (c \in untold => c \in untold')
      BY <2>1, <2>5 DEF TypeOK
    <3> QED
      BY <2>2, <2>5, <3>1 DEF Runs, Resetting, Answers, Untold, Reading
  <2> QED
    BY <2>1, <2>3, <2>4, <2>5
<1>4. CASE Signal
  BY <1>4, MpAssumption
     DEF Signal, aps, Runs, Resetting, Answers, Untold, TypeOK, mp, open, local, wake,
         InWakeUp, NoRequest, WakePcs, Reading, Begins, Executes
<1>5. CASE SendInitSipiSipi
  <2>1. /\ bsp = "sipi" /\ bsp' = "wakeup" /\ untold = {}
        /\ UNCHANGED <<done, State, ApFunction, targets, untold, fn>>
        /\ ap'[c] = "woken" \/ (ap'[c] = ap[c] /\ task'[c] = task[c])
    BY <1>5 DEF SendInitSipiSipi, wake, WakeOK
  <2> QED
    BY <2>1 DEF Runs, Resetting, Answers, Untold, Reading, InWakeUp, WakePcs, Executes, Begins
<1>6. CASE WaitApWakeup
  <2>1. /\ bsp = "wakeup" /\ untold = {} /\ UNCHANGED <<ap, task, done, State, ApFunction>>
        /\ fn = 0 => bsp' = "reset" /\ UNCHANGED <<targets, fn>>
    BY <1>6 DEF WaitApWakeup, WakeOK, aps
  <2> QED
    BY <2>1 DEF Runs, Resetting, Answers, Untold, Reading, InWakeUp, WakePcs
<1>7. CASE ResetDone
  <2>1. PICK d \in targets :
          /\ State' = [State EXCEPT ![d] = "idle"]
          /\ \/ back = "fail" /\ Waiting' = [Waiting EXCEPT ![d] = FALSE] /\ UNCHANGED this
             \/ back = "timeout" /\ this' = [this EXCEPT ![d] = NoCall] /\ UNCHANGED Waiting
             \/ back = "caller" /\ UNCHANGED <<Waiting, this>>
    BY <1>7 DEF ResetDone, EndThis
  <2>2. bsp = "reset" /\ fn = 0 /\ targets = {d} /\ UNCHANGED <<ap, task, done, ApFunction>> /\ InWakeUp
    BY <1>7, <2>1 DEF ResetDone, WakeOK, TypeOK, aps, InWakeUp, WakePcs
  <2>3. c # d
    <3>1. SUFFICES ASSUME c = d PROVE FALSE
      OBVIOUS
    <3>2. Engaged(c) /\ (this[c].id = 0 \/ ~Waiting[c])
      BY OwedEngaged DEF Exclusive
    <3>3. CASE back = "fail"
      <4>1. Waiting[c] /\ ~Waiting'[c]
        BY <2>1, <2>2, <3>1, <3>3 DEF WakeOK, TypeOK
      <4>2. this[c].id = 0 /\ this' = this
        BY <2>1, <3>2, <3>3, <4>1
      <4> QED
        BY <4>1, <4>2 DEF Owed, Numbered, NoCall
    <3>4. CASE back = "timeout"
      <4>1. this[c].id # 0 /\ this'[c] = NoCall
        BY <2>1, <2>2, <3>1, <3>4 DEF WakeOK, Exclusive, TypeOK
      <4>2. ~Waiting'[c]
        BY <2>1, <3>2, <3>4, <4>1
      <4> QED
        BY <4>1, <4>2 DEF Owed, NoCall
    <3>5. CASE back = "caller"
      BY <2>2, <3>1, <3>2, <3>5 DEF Exclusive
    <3> QED
      BY <2>1, <3>3, <3>4, <3>5
  <2>4. Answers(c, k) /\ State'[c] = State[c]
    BY <2>1, <2>2, <2>3 DEF Runs, Resetting, Untold, TypeOK
  <2> QED
    BY <2>2, <2>4 DEF Runs, Answers, Reading, Begins, Executes
<1>8. CASE ScanOne
  <2> DEFINE a == First(Rest)
  <2>1. /\ a \in Aps /\ Waiting[a] /\ untold = {} /\ bsp = "scan"
        /\ UNCHANGED <<ap, task, done, ApFunction, this, all>>
    BY <1>8, FirstLeast DEF ScanOne, Rest, aps, open, WakeOK, InWakeUp, WakePcs
  <2>2. \/ UNCHANGED State
        \/ State' = [State EXCEPT ![a] = "idle"] /\ Waiting' = [Waiting EXCEPT ![a] = FALSE]
    BY <1>8 DEF ScanOne
  <2> HIDE DEF a
  <2>3. State'[c] = State[c]
    <3>1. CASE c = a /\ ~Waiting'[c]
      BY <2>1, <3>1 DEF Owed, Exclusive, Numbered, NoCall
    <3> QED
      BY <2>1, <2>2, <3>1 DEF TypeOK
  <2>4. Answers(c, k)
    BY <2>1 DEF Runs, Resetting, Untold, InWakeUp, WakePcs
  <2> QED
    BY <2>1, <2>3, <2>4 DEF Runs, Answers, Reading
<1>9. CASE ScanEnd
  BY <1>9, MpAssumption
     DEF ScanEnd, Runs, Resetting, Answers, Untold, TypeOK, Rest, EndAll, Goto, aps, mp, wake,
         InWakeUp, NoRequest, NoCall, AfterCheck, WakePcs, Reading, Begins, Executes
<1>10. CASE FailOne
  <2>1. /\ untold = {} /\ ~InWakeUp /\ UNCHANGED <<ap, task, done, State, ApFunction>>
    BY <1>10 DEF FailOne, aps, WakeOK, InWakeUp, WakePcs
  <2> QED
    BY <2>1 DEF Runs, Resetting, Answers, Untold, Reading
<1>11. CASE FailEnd
  BY <1>11, MpAssumption
     DEF FailEnd, Runs, Resetting, Answers, Untold, TypeOK, Unfinished, EndAll, aps, mp, wake,
         InWakeUp, NoRequest, Rest, NoCall, Goto, AfterCheck, WakePcs, Reading, Begins,
         Executes
<1>12. CASE ThisFinished
  BY <1>12, MpAssumption
     DEF ThisFinished, Runs, Resetting, Answers, Untold, TypeOK, EndThis, aps, mp, wake,
         InWakeUp, NoRequest, NoCall, Goto, AfterCheck, WakePcs, Reading, Begins, Executes
<1>13. CASE ThisTimeout
  <2>1. /\ untold = {} /\ ~InWakeUp /\ UNCHANGED <<ap, task, done, State, ApFunction>>
    BY <1>13 DEF ThisTimeout, aps, WakeOK, InWakeUp, WakePcs
  <2> QED
    BY <2>1 DEF Runs, Resetting, Answers, Untold, Reading
<1>14. CASE ThisNotReady
  BY <1>14, MpAssumption
     DEF ThisNotReady, Runs, Resetting, Answers, Untold, TypeOK, Goto, aps, mp, open, wake,
         InWakeUp, NoRequest, WakePcs, Reading, Begins, Executes
<1>15. CASE UpdateAll
  BY <1>15, MpAssumption
     DEF UpdateAll, Runs, Resetting, Answers, Untold, TypeOK, Goto, aps, mp, open, wake,
         InWakeUp, NoRequest, WakePcs, Reading, Begins, Executes
<1>16. CASE UpdateThis
  BY <1>16, MpAssumption
     DEF UpdateThis, Runs, Resetting, Answers, Untold, TypeOK, Goto, aps, mp, open, wake,
         InWakeUp, NoRequest, WakePcs, Reading, Begins, Executes
<1>17. CASE RefuseAll
  BY <1>17, MpAssumption
     DEF RefuseAll, Runs, Resetting, Answers, Untold, TypeOK, Enabled, Goto, aps, mp, open,
         wake, InWakeUp, NoRequest, WakePcs, Reading, Begins, Executes
<1>18. CASE StartAll
  <2>1. /\ untold = {} /\ ~InWakeUp /\ UNCHANGED <<ap, task, done, State, ApFunction>>
    BY <1>18 DEF StartAll, aps, WakeOK, InWakeUp, WakePcs
  <2> QED
    BY <2>1 DEF Runs, Resetting, Answers, Untold, Reading
<1>19. CASE RefuseThis
  BY <1>19, MpAssumption
     DEF RefuseThis, Runs, Resetting, Answers, Untold, TypeOK, Goto, aps, mp, open, wake,
         InWakeUp, NoRequest, WakePcs, Reading, Begins, Executes
<1>20. CASE StartThis
  <2>1. /\ untold = {} /\ ~InWakeUp /\ UNCHANGED <<ap, task, done, State, ApFunction>>
    BY <1>20 DEF StartThis, aps, WakeOK, InWakeUp, WakePcs
  <2> QED
    BY <2>1 DEF Runs, Resetting, Answers, Untold, Reading
<1>21. CASE Started
  BY <1>21, MpAssumption
     DEF Started, Runs, Resetting, Answers, Untold, TypeOK, Goto, aps, mp, open, wake,
         InWakeUp, NoRequest, WakePcs, Reading, Begins, Executes
<1>22. CASE CheckApsStatus
  BY <1>22, MpAssumption
     DEF CheckApsStatus, Runs, Resetting, Answers, Untold, TypeOK, aps, mp, open, local, wake,
         InWakeUp, NoRequest, WakePcs, Reading, Begins, Executes
<1>23. CASE StartupAllAPs
  BY <1>23, MpAssumption
     DEF StartupAllAPs, Runs, Resetting, Answers, Untold, TypeOK, Startup, InWakeUp, wake,
         NoRequest, Called, aps, mp, WakePcs, Reading, Begins, Executes
<1>24. CASE ExpireAll
  BY <1>24, MpAssumption
     DEF ExpireAll, Runs, Resetting, Answers, Untold, TypeOK, aps, mp, local, wake, InWakeUp,
         NoRequest, WakePcs, Reading, Begins, Executes
<1>25. ASSUME NEW a \in Aps, StartupThisAP(a) PROVE Runs(c, k)'
  BY <1>25, MpAssumption
     DEF StartupThisAP, Runs, Resetting, Answers, Untold, TypeOK, Startup, InWakeUp, wake,
         NoRequest, Called, aps, mp, WakePcs, Reading, Begins, Executes
<1>26. ASSUME NEW a \in Aps, DisableAP(a) PROVE Runs(c, k)'
  BY <1>26, MpAssumption
     DEF DisableAP, Runs, Resetting, Answers, Untold, TypeOK, Called, aps, mp, local, wake,
         InWakeUp, NoRequest, WakePcs, Reading, Begins, Executes
<1>27. ASSUME NEW a \in Aps, EnableAP(a) PROVE Runs(c, k)'
  <2>1. /\ untold = {} /\ ~InWakeUp /\ UNCHANGED <<ap, task, done, State, ApFunction>>
    BY <1>27 DEF EnableAP, Called, aps, WakeOK, InWakeUp, WakePcs
  <2> QED
    BY <2>1 DEF Runs, Resetting, Answers, Untold, Reading
<1>28. ASSUME NEW a \in Aps, ClearSignal(a) PROVE Runs(c, k)'
  BY <1>28, MpAssumption
     DEF ClearSignal, Runs, Resetting, Answers, Untold, TypeOK, Signals, mp, open, local, wake,
         InWakeUp, NoRequest, WakePcs, Reading, Begins, Executes
<1>29. ASSUME NEW a \in Aps, ReadState(a) PROVE Runs(c, k)'
  <2>1. k # 0
    BY OwedEngaged
  <2> QED
    BY <1>29, <2>1 DEF ReadState, IsReady, Runs, Resetting, Answers, Untold, TypeOK, wake,
                       InWakeUp, Reading, Begins, Executes
<1>30. ASSUME NEW a \in Aps, ReadFunction(a) PROVE Runs(c, k)'
  <2>1. k # 0
    BY OwedEngaged
  <2> QED
    BY <1>30, <2>1 DEF ReadFunction, Runs, Resetting, Answers, Untold, TypeOK, wake, InWakeUp,
                       Reading, Begins, Executes
<1>31. ASSUME NEW a \in Aps, AcquireApLock(a) PROVE Runs(c, k)'
  BY <1>31, MpAssumption
     DEF AcquireApLock, Runs, Resetting, Answers, Untold, TypeOK, mp, open, local, wake,
         InWakeUp, NoRequest, WakePcs, Reading, Begins, Executes
<1>32. ASSUME NEW a \in Aps, WriteState(a) PROVE Runs(c, k)'
  BY <1>32, MpAssumption
     DEF WriteState, Runs, Resetting, Answers, Untold, TypeOK, mp, open, local, wake, InWakeUp,
         NoRequest, WakePcs, Reading, Begins, Executes
<1>33. ASSUME NEW a \in Aps, BeginProcedure(a) PROVE Runs(c, k)'
  BY <1>33, MpAssumption
     DEF BeginProcedure, Runs, Resetting, Answers, Untold, TypeOK, mp, open, local, wake,
         InWakeUp, NoRequest, WakePcs, Reading, Begins, Executes
<1>34. ASSUME NEW a \in Aps, EndProcedure(a) PROVE Runs(c, k)'
  BY <1>34, MpAssumption
     DEF EndProcedure, Runs, Resetting, Answers, Untold, TypeOK, mp, open, local, wake,
         InWakeUp, NoRequest, WakePcs, Reading, Begins, Executes
<1>35. ASSUME NEW a \in Aps, Finish(a) PROVE Runs(c, k)'
  BY <1>35, MpAssumption
     DEF Finish, Runs, Resetting, Answers, Untold, TypeOK, mp, open, local, wake, InWakeUp,
         NoRequest, WakePcs, Reading, Begins, Executes
<1>36. ASSUME NEW a \in Aps, Count(a) PROVE Runs(c, k)'
  BY <1>36, MpAssumption
     DEF Count, Runs, Resetting, Answers, Untold, TypeOK, mp, open, local, wake, InWakeUp,
         NoRequest, WakePcs, Reading, Begins, Executes
<1>37. ASSUME NEW a \in Aps, ExpireThis(a) PROVE Runs(c, k)'
  BY <1>37, MpAssumption
     DEF ExpireThis, Runs, Resetting, Answers, Untold, TypeOK, aps, mp, local, wake, InWakeUp,
         NoRequest, WakePcs, Reading, Begins, Executes
<1>38. CASE UNCHANGED vars
  BY <1>38, MpAssumption
     DEF vars, Runs, Resetting, Answers, Untold, TypeOK, aps, mp, open, local, wake, InWakeUp,
         NoRequest, WakePcs, Reading, Begins, Executes
<1> QED
  BY <1>1, <1>2, <1>3, <1>4, <1>5, <1>6, <1>7, <1>8, <1>9, <1>10, <1>11, <1>12, <1>13,
     <1>14, <1>15, <1>16, <1>17, <1>18, <1>19, <1>20, <1>21, <1>22, <1>23, <1>24, <1>25,
     <1>26, <1>27, <1>28, <1>29, <1>30, <1>31, <1>32, <1>33, <1>34, <1>35, <1>36, <1>37,
     <1>38
     DEF Next, Bsp, ApLoop, Expire

LEMMA NextCounted ==
  ASSUME TypeOK, Control, WakeOK, Accounts, Signals, Numbered, Heard, Stopped, Exclusive,
         Runners, Counted, [Next]_vars
  PROVE  Counted'
<1>1. CASE Wake
  BY <1>1 DEF Wake, aps, Counted, Failing, mp, open, wake, InWakeUp, WakePcs
<1>2. CASE GiveFunction
  BY <1>2, MpAssumption
     DEF GiveFunction, aps, Counted, Failing, TypeOK, mp, open, local, wake, InWakeUp,
         NoRequest, WakePcs
<1>3. CASE SetReady
  BY <1>3, MpAssumption
     DEF SetReady, aps, Counted, Failing, TypeOK, mp, open, local, wake, InWakeUp,
         NoRequest, WakePcs
<1>4. CASE Signal
  BY <1>4, MpAssumption
     DEF Signal, aps, Counted, Failing, TypeOK, mp, open, local, wake, InWakeUp,
         NoRequest, WakePcs
<1>5. CASE SendInitSipiSipi
  BY <1>5, MpAssumption
     DEF SendInitSipiSipi, Counted, Failing, TypeOK, mp, open, local, wake, InWakeUp,
         NoRequest, WakePcs
<1>6. CASE WaitApWakeup
  BY <1>6, MpAssumption
     DEF WaitApWakeup, Counted, Failing, TypeOK, aps, mp, open, local, InWakeUp, wake,
         NoRequest, WakePcs
<1>7. CASE ResetDone
  BY <1>7, MpAssumption
     DEF ResetDone, Counted, Failing, TypeOK, Goto, EndThis, aps, InWakeUp, wake, NoRequest,
         NoCall, AfterCheck, WakePcs
<1>8. CASE ScanOne
  <2> DEFINE c == First(Rest)
  <2>1. /\ c \in Aps /\ Waiting[c] /\ UNCHANGED <<all, done>> /\ bsp = "scan" /\ ~Failing
        /\ untold = {}
    BY <1>8, FirstLeast DEF ScanOne, Rest, open, aps, Failing, WakeOK, InWakeUp, WakePcs
  <2>2. \/ UNCHANGED Waiting
        \/ State[c] = "finished" /\ Waiting' = [Waiting EXCEPT ![c] = FALSE]
    BY <1>8 DEF ScanOne
  <2> HIDE DEF c
  <2>3. c \in all.for /\ State[c] = "finished" => all.id \in done[c]
    <3>1. c \in all.for => Runs(c, all.id)
      BY <2>1 DEF Runners, Owed, TypeOK, CallType
    <3> QED
      BY <2>1, <3>1 DEF Runs, Resetting, Untold, Answers, InWakeUp, WakePcs
  <2>4. ASSUME NEW d \in all.for, ~Waiting'[d] PROVE all.id \in done[d]
    <3>1. CASE d = c /\ State[c] = "finished"
      BY <2>3, <3>1, <2>4
    <3>2. CASE ~Waiting[d]
      BY <2>1, <3>2 DEF Counted
    <3> QED
      BY <2>1, <2>2, <2>4, <3>1, <3>2 DEF TypeOK, CallType
  <2> QED
    BY <2>1, <2>4 DEF Counted
<1>9. CASE ScanEnd
  BY <1>9, MpAssumption
     DEF ScanEnd, Counted, Failing, TypeOK, Rest, EndAll, Goto, aps, mp, wake, InWakeUp,
         NoRequest, NoCall, AfterCheck, WakePcs
<1>10. CASE FailOne
  BY <1>10, MpAssumption
     DEF FailOne, Counted, Failing, TypeOK, Unfinished, CallReset, aps, mp, open, InWakeUp,
         wake, NoRequest, Rest, CallWakeUpAP, WakePcs
<1>11. CASE FailEnd
  BY <1>11, MpAssumption
     DEF FailEnd, Counted, Failing, TypeOK, Unfinished, EndAll, aps, mp, wake, InWakeUp,
         NoRequest, Rest, NoCall, Goto, AfterCheck, WakePcs
<1>12. CASE ThisFinished
  BY <1>12, MpAssumption
     DEF ThisFinished, Counted, Failing, TypeOK, EndThis, aps, mp, wake, InWakeUp,
         NoRequest, NoCall, Goto, AfterCheck, WakePcs
<1>13. CASE ThisTimeout
  BY <1>13, MpAssumption
     DEF ThisTimeout, Counted, Failing, TypeOK, CallReset, aps, mp, open, local, InWakeUp,
         wake, NoRequest, CallWakeUpAP, WakePcs
<1>14. CASE ThisNotReady
  BY <1>14, MpAssumption
     DEF ThisNotReady, Counted, Failing, TypeOK, Goto, aps, mp, open, wake, InWakeUp,
         NoRequest, WakePcs
<1>15. CASE UpdateAll
  BY <1>15, MpAssumption
     DEF UpdateAll, Counted, Failing, TypeOK, Goto, aps, mp, open, wake, InWakeUp,
         NoRequest, WakePcs
<1>16. CASE UpdateThis
  BY <1>16, MpAssumption
     DEF UpdateThis, Counted, Failing, TypeOK, Goto, aps, mp, open, wake, InWakeUp,
         NoRequest, WakePcs
<1>17. CASE RefuseAll
  BY <1>17, MpAssumption
     DEF RefuseAll, Counted, Failing, TypeOK, Enabled, Goto, aps, mp, open, wake, InWakeUp,
         NoRequest, WakePcs
<1>18. CASE StartAll
  BY <1>18, MpAssumption
     DEF StartAll, Counted, Failing, TypeOK, Enabled, NewCall, CallWakeUpAP, FirstOnly, aps,
         local, InWakeUp, wake, NoRequest, WakePcs
<1>19. CASE RefuseThis
  BY <1>19, MpAssumption
     DEF RefuseThis, Counted, Failing, TypeOK, Goto, aps, mp, open, wake, InWakeUp,
         NoRequest, WakePcs
<1>20. CASE StartThis
  BY <1>20, MpAssumption
     DEF StartThis, Counted, Failing, TypeOK, NewCall, CallWakeUpAP, aps, mp, local,
         InWakeUp, wake, NoRequest, WakePcs
<1>21. CASE Started
  BY <1>21, MpAssumption
     DEF Started, Counted, Failing, TypeOK, Goto, aps, mp, open, wake, InWakeUp, NoRequest,
         WakePcs
<1>22. CASE CheckApsStatus
  BY <1>22, MpAssumption
     DEF CheckApsStatus, Counted, Failing, TypeOK, aps, mp, open, local, wake, InWakeUp,
         NoRequest, WakePcs
<1>23. CASE StartupAllAPs
  BY <1>23, MpAssumption
     DEF StartupAllAPs, Counted, Failing, TypeOK, Startup, InWakeUp, wake, NoRequest,
         Called, aps, mp, WakePcs
<1>24. CASE ExpireAll
  BY <1>24, MpAssumption
     DEF ExpireAll, Counted, Failing, TypeOK, aps, mp, local, wake, InWakeUp, NoRequest,
         WakePcs
<1>25. ASSUME NEW c \in Aps, StartupThisAP(c) PROVE Counted'
  BY <1>25, MpAssumption
     DEF StartupThisAP, Counted, Failing, TypeOK, Startup, InWakeUp, wake, NoRequest,
         Called, aps, mp, WakePcs
<1>26. ASSUME NEW c \in Aps, DisableAP(c) PROVE Counted'
  BY <1>26, MpAssumption
     DEF DisableAP, Counted, Failing, TypeOK, Called, aps, mp, local, wake, InWakeUp,
         NoRequest, WakePcs
<1>27. ASSUME NEW c \in Aps, EnableAP(c) PROVE Counted'
  BY <1>27, MpAssumption
     DEF EnableAP, Counted, Failing, TypeOK, Called, CallReset, aps, mp, local, InWakeUp,
         wake, NoRequest, CallWakeUpAP, WakePcs
<1>28. ASSUME NEW c \in Aps, ClearSignal(c) PROVE Counted'
  BY <1>28, MpAssumption
     DEF ClearSignal, Counted, Failing, TypeOK, mp, open, local, wake, InWakeUp, NoRequest,
         WakePcs
<1>29. ASSUME NEW c \in Aps, ReadState(c) PROVE Counted'
  BY <1>29, MpAssumption
     DEF ReadState, Counted, Failing, TypeOK, IsReady, mp, open, local, wake, InWakeUp,
         NoRequest, WakePcs
<1>30. ASSUME NEW c \in Aps, ReadFunction(c) PROVE Counted'
  BY <1>30, MpAssumption
     DEF ReadFunction, Counted, Failing, TypeOK, mp, open, local, wake, InWakeUp,
         NoRequest, WakePcs
<1>31. ASSUME NEW c \in Aps, AcquireApLock(c) PROVE Counted'
  BY <1>31, MpAssumption
     DEF AcquireApLock, Counted, Failing, TypeOK, mp, open, local, wake, InWakeUp,
         NoRequest, WakePcs
<1>32. ASSUME NEW c \in Aps, WriteState(c) PROVE Counted'
  BY <1>32, MpAssumption
     DEF WriteState, Counted, Failing, TypeOK, mp, open, local, wake, InWakeUp,
         NoRequest, WakePcs
<1>33. ASSUME NEW c \in Aps, BeginProcedure(c) PROVE Counted'
  BY <1>33, MpAssumption
     DEF BeginProcedure, Counted, Failing, TypeOK, mp, open, local, wake, InWakeUp,
         NoRequest, WakePcs
<1>34. ASSUME NEW c \in Aps, EndProcedure(c) PROVE Counted'
  BY <1>34, MpAssumption
     DEF EndProcedure, Counted, Failing, TypeOK, mp, open, local, wake, InWakeUp, NoRequest,
         WakePcs
<1>35. ASSUME NEW c \in Aps, Finish(c) PROVE Counted'
  BY <1>35, MpAssumption
     DEF Finish, Counted, Failing, TypeOK, mp, open, local, wake, InWakeUp, NoRequest,
         WakePcs
<1>36. ASSUME NEW c \in Aps, Count(c) PROVE Counted'
  BY <1>36, MpAssumption
     DEF Count, Counted, Failing, TypeOK, mp, open, local, wake, InWakeUp, NoRequest,
         WakePcs
<1>37. ASSUME NEW c \in Aps, ExpireThis(c) PROVE Counted'
  BY <1>37, MpAssumption
     DEF ExpireThis, Counted, Failing, TypeOK, aps, mp, local, wake, InWakeUp, NoRequest,
         WakePcs
<1>38. CASE UNCHANGED vars
  BY <1>38, MpAssumption
     DEF vars, Counted, Failing, TypeOK, aps, mp, open, local, wake, InWakeUp, NoRequest,
         WakePcs
<1> QED
  BY <1>1, <1>2, <1>3, <1>4, <1>5, <1>6, <1>7, <1>8, <1>9, <1>10, <1>11, <1>12, <1>13,
     <1>14, <1>15, <1>16, <1>17, <1>18, <1>19, <1>20, <1>21, <1>22, <1>23, <1>24, <1>25,
     <1>26, <1>27, <1>28, <1>29, <1>30, <1>31, <1>32, <1>33, <1>34, <1>35, <1>36, <1>37,
     <1>38
     DEF Next, Bsp, ApLoop, Expire

LEMMA NextRunners ==
  ASSUME ~Overlap, TypeOK, Control, WakeOK, Accounts, Signals, Numbered, Heard, Stopped,
         Exclusive, Runners, [Next]_vars
  PROVE  Runners'
<1> SUFFICES ASSUME NEW c \in Aps, NEW k \in Calls, Owed(c, k)' PROVE Runs(c, k)'
  BY DEF Runners
<1>1. CASE Owed(c, k)
  <2>1. Runs(c, k)
    BY <1>1 DEF Runners
  <2> QED
    BY <1>1, <2>1, NextRuns
<1> QED
  BY <1>1, NextOwed

\* AP d has been given the procedure of call k.
GivenTo(d, k) ==
  \/ k \in begun[d]
  \/ ap[d] \in Begins /\ task[d] = k
  \/ Reading(d) /\ ApFunction[d] = k
  \/ fn = k /\ d \in untold

\* One by one: an AP is given the procedure when those before it have returned.
Ordered ==
  all.id # 0 /\ SingleThread =>
    \A c, d \in all.for : c < d /\ GivenTo(d, all.id) => all.id \in done[c]

LEMMA OrderedKept ==
  ASSUME TypeOK, Ordered, UNCHANGED <<all, SingleThread>>,
         \A c \in Aps : done[c] \subseteq done'[c],
         all.id # 0 => \A d \in Aps : GivenTo(d, all.id)' => GivenTo(d, all.id)
  PROVE  Ordered'
<1>1. all.for \subseteq Aps
  BY DEF TypeOK, CallType
<1> QED
  BY <1>1 DEF Ordered

LEMMA NextOrdered ==
  ASSUME TypeOK, Control, WakeOK, Accounts, Signals, Numbered, Heard, Stopped, Ordered,
         Counted', [Next]_vars
  PROVE  Ordered'
<1>1. CASE Wake
  <2>1. \A d \in Aps : GivenTo(d, all.id)' => GivenTo(d, all.id)
    BY <1>1 DEF Wake, aps, GivenTo, open, wake, Reading
  <2> QED
    BY <1>1, <2>1, OrderedKept DEF Wake, aps, open, mp
<1>2. CASE GiveFunction
  <2>1. PICK a \in Aps : a \in untold /\ ApFunction' = [ApFunction EXCEPT ![a] = fn]
    BY <1>2, Giving
  <2>2. UNCHANGED <<ap, task, begun, done, State, untold, fn, all, SingleThread>>
    BY <1>2 DEF GiveFunction, aps, open, mp
  <2>3. ASSUME NEW d \in Aps, GivenTo(d, all.id)' PROVE GivenTo(d, all.id)
    <3>1. ApFunction'[d] = ApFunction[d] \/ (d \in untold /\ ApFunction'[d] = fn)
      BY <2>1 DEF TypeOK
    <3> QED
      BY <2>2, <2>3, <3>1 DEF GivenTo, Reading
  <2> QED
    BY <2>2, <2>3, OrderedKept
<1>3. CASE SetReady
  <2>1. /\ State' = [State EXCEPT ![told] = "ready"] /\ untold' = untold \ {told}
        /\ told \in untold /\ told \in Aps /\ ApFunction[told] = fn
    BY <1>3 DEF SetReady, WakeOK, TypeOK
  <2>2. UNCHANGED <<ap, task, begun, done, ApFunction, fn, all, SingleThread>>
    BY <1>3 DEF SetReady, aps, open, mp
  <2>3. ASSUME NEW d \in Aps, GivenTo(d, all.id)' PROVE GivenTo(d, all.id)
    <3>1. State'[d] = State[d] \/ (d \in untold /\ ApFunction[d] = fn)
      BY <2>1 DEF TypeOK
    <3> QED
      BY <2>1, <2>2, <2>3, <3>1 DEF GivenTo, Reading
  <2> QED
    BY <2>2, <2>3, OrderedKept
<1>4. CASE Signal
  <2>1. \A d \in Aps : GivenTo(d, all.id)' => GivenTo(d, all.id)
    BY <1>4 DEF Signal, aps, GivenTo, open, wake, Reading, Begins
  <2> QED
    BY <1>4, <2>1, OrderedKept DEF Signal, aps, open, mp
<1>5. CASE SendInitSipiSipi
  <2>1. \A d \in Aps : GivenTo(d, all.id)' => GivenTo(d, all.id)
    BY <1>5 DEF SendInitSipiSipi, GivenTo, open, wake, Reading, Begins
  <2> QED
    BY <1>5, <2>1, OrderedKept DEF SendInitSipiSipi, open, mp
<1>6. CASE WaitApWakeup
  BY <1>6, MpAssumption
     DEF WaitApWakeup, Ordered, GivenTo, TypeOK, aps, mp, open, local, wake, NoRequest,
         Reading, Begins
<1>7. CASE ResetDone
  BY <1>7, MpAssumption
     DEF ResetDone, Ordered, GivenTo, TypeOK, Goto, EndThis, aps, wake, NoRequest, NoCall,
         AfterCheck, Reading, Begins
<1>8. CASE ScanOne
  <2> DEFINE c == First(Rest)
  <2>1. /\ c \in Aps /\ UNCHANGED <<ap, task, ApFunction, begun, done, all, SingleThread>> /\ fn = 0
        /\ State' \in {State, [State EXCEPT ![c] = "idle"]}
    BY <1>8, FirstLeast DEF ScanOne, Rest, aps, open, WakeOK, InWakeUp, WakePcs
  <2>2. \A d \in Aps : State'[d] = "ready" => State[d] = "ready"
    BY <2>1 DEF TypeOK
  <2>3. CASE UNCHANGED <<untold, fn>>
    <3>1. \A d \in Aps : GivenTo(d, all.id)' => GivenTo(d, all.id)
      BY <2>1, <2>2, <2>3 DEF GivenTo, Reading, Begins
    <3> QED
      BY <2>1, <3>1, OrderedKept
  <2>4. CASE /\ CallWakeUpAP({First(NextWaiting(c))}, all.id, "scan") /\ NextWaiting(c) # {}
             /\ Waiting' = [Waiting EXCEPT ![c] = FALSE]
    <3> DEFINE n == First(NextWaiting(c))
    <3>1. n \in Aps /\ \A d \in NextWaiting(c) : n <= d
      BY <2>4, FirstLeast DEF NextWaiting
    <3>2. ~Failing' /\ untold' = {n}
      BY <2>4 DEF Failing, CallWakeUpAP, InWakeUp, WakePcs
    <3>3. \A d \in Aps : d < n => ~Waiting'[d]
      <4>1. \A d \in Aps : Waiting'[d] => d \in NextWaiting(c)
        BY <2>1, <2>4 DEF NextWaiting, TypeOK
      <4>2. \A d \in Aps : d \in Int
        BY MpAssumption DEF Aps
      <4> HIDE DEF n
      <4> QED
        BY <3>1, <4>1, <4>2
    <3> HIDE DEF n
    <3>4. ASSUME all.id # 0, SingleThread, NEW b \in all.for, NEW d \in all.for, b < d,
                 GivenTo(d, all.id)'
          PROVE  all.id \in done[b]
      <4>1. b \in Aps /\ d \in Aps
        BY DEF TypeOK, CallType
      <4>2. CASE d = n
        BY <2>1, <3>2, <3>3, <3>4, <4>1, <4>2 DEF Counted
      <4>3. CASE d # n
        <5>1. GivenTo(d, all.id)
          BY <2>1, <2>2, <3>2, <3>4, <4>1, <4>3 DEF GivenTo, Reading, Begins
        <5> QED
          BY <3>4, <5>1 DEF Ordered
      <4> QED
        BY <4>2, <4>3
    <3> QED
      BY <2>1, <3>4 DEF Ordered
  <2> QED
    BY <1>8, <2>3, <2>4 DEF ScanOne
<1>9. CASE ScanEnd
  BY <1>9, MpAssumption
     DEF ScanEnd, Ordered, GivenTo, TypeOK, Rest, EndAll, Goto, aps, mp, wake, NoRequest,
         NoCall, AfterCheck, Reading, Begins
<1>10. CASE FailOne
  BY <1>10, MpAssumption
     DEF FailOne, Ordered, GivenTo, TypeOK, Unfinished, CallReset, aps, mp, open, wake,
         NoRequest, Rest, CallWakeUpAP, Reading, Begins
<1>11. CASE FailEnd
  BY <1>11, MpAssumption
     DEF FailEnd, Ordered, GivenTo, TypeOK, Unfinished, EndAll, aps, mp, wake, NoRequest, Rest,
         NoCall, Goto, AfterCheck, Reading, Begins
<1>12. CASE ThisFinished
  BY <1>12, MpAssumption
     DEF ThisFinished, Ordered, GivenTo, TypeOK, EndThis, aps, mp, wake, NoRequest, NoCall,
         Goto, AfterCheck, Reading, Begins
<1>13. CASE ThisTimeout
  BY <1>13, MpAssumption
     DEF ThisTimeout, Ordered, GivenTo, TypeOK, CallReset, aps, mp, open, local, wake,
         NoRequest, CallWakeUpAP, Reading, Begins
<1>14. CASE ThisNotReady
  BY <1>14, MpAssumption
     DEF ThisNotReady, Ordered, GivenTo, TypeOK, Goto, aps, mp, open, wake, NoRequest, Reading,
         Begins
<1>15. CASE UpdateAll
  BY <1>15, MpAssumption
     DEF UpdateAll, Ordered, GivenTo, TypeOK, Goto, aps, mp, open, wake, NoRequest, Reading,
         Begins
<1>16. CASE UpdateThis
  BY <1>16, OrderedKept DEF UpdateThis, aps, mp, open, wake, GivenTo, Reading
<1>17. CASE RefuseAll
  BY <1>17, MpAssumption
     DEF RefuseAll, Ordered, GivenTo, TypeOK, Enabled, Goto, aps, mp, open, wake, NoRequest,
         Reading, Begins
<1>18. CASE StartAll
  <2>1. /\ UNCHANGED <<ap, task, State, ApFunction, begun, done>> /\ untold' = targets'
        /\ all'.id = calls /\ all'.for \subseteq Enabled /\ fn' = calls /\ SingleThread' = request.single
        /\ targets' = IF request.single THEN FirstOnly(Enabled) ELSE Aps
        /\ Enabled # {} /\ Enabled \subseteq Aps
    BY <1>18 DEF StartAll, aps, CallWakeUpAP, NewCall, Enabled
  <2>2. Preparing
    BY <1>18 DEF StartAll, Preparing, Control, NoRequest, Starting, InWakeUp, WakePcs
  <2>3. /\ calls \in Nat
        /\ \A d \in Aps : /\ ApFunction[d] \in Int /\ task[d] \in Int /\ begun[d] \subseteq Int
                          /\ ApFunction[d] <= calls - 1 /\ task[d] <= calls - 1
                          /\ \A i \in begun[d] : i <= calls - 1
    BY <2>2 DEF TypeOK, Calls, Heard, LastCall
  <2>4. \A d \in Aps : ApFunction[d] # calls /\ task[d] # calls /\ calls \notin begun[d]
    BY <2>3
  <2>5. ASSUME SingleThread', NEW c \in all'.for, NEW d \in all'.for, c < d, GivenTo(d, all.id)'
        PROVE  FALSE
    <3>1. d \in targets'
      BY <2>1, <2>4, <2>5 DEF GivenTo, Reading, Begins
    <3>2. d = First(Enabled) /\ First(Enabled) <= c /\ c \in Aps /\ d \in Aps
      BY <2>1, <2>5, <3>1, FirstLeast DEF FirstOnly
    <3>3. c \in Int /\ d \in Int
      BY <3>2, MpAssumption DEF Aps
    <3> QED
      BY <2>5, <3>2, <3>3
  <2> QED
    BY <2>5 DEF Ordered
<1>19. CASE RefuseThis
  BY <1>19, MpAssumption
     DEF RefuseThis, Ordered, GivenTo, TypeOK, Goto, aps, mp, open, wake, NoRequest, Reading,
         Begins
<1>20. CASE StartThis
  <2>1. Preparing
    BY <1>20 DEF StartThis, Preparing, Control, NoRequest, Starting, InWakeUp, WakePcs
  <2>2. calls \in Nat /\ all.id \in Int /\ all.id <= calls - 1
    BY <2>1 DEF TypeOK, CallType, Calls, Numbered, LastCall
  <2>3. all.id # calls
    BY <2>2
  <2>4. fn' = calls /\ UNCHANGED all
    BY <1>20 DEF StartThis, CallWakeUpAP
  <2>5. \A d \in Aps : GivenTo(d, all.id)' => GivenTo(d, all.id)
    BY <1>20, <2>3, <2>4 DEF StartThis, GivenTo, aps, Reading, Begins
  <2> QED
    BY <1>20, <2>5, OrderedKept DEF StartThis, aps, mp
<1>21. CASE Started
  BY <1>21, MpAssumption
     DEF Started, Ordered, GivenTo, TypeOK, Goto, aps, mp, open, wake, NoRequest, Reading,
         Begins
<1>22. CASE CheckApsStatus
  BY <1>22, MpAssumption
     DEF CheckApsStatus, Ordered, GivenTo, TypeOK, aps, mp, open, local, wake, NoRequest,
         Reading, Begins
<1>23. CASE StartupAllAPs
  BY <1>23, MpAssumption
     DEF StartupAllAPs, Ordered, GivenTo, TypeOK, Startup, wake, NoRequest, Called, aps, mp,
         Reading, Begins
<1>24. CASE ExpireAll
  BY <1>24, MpAssumption
     DEF ExpireAll, Ordered, GivenTo, TypeOK, aps, mp, local, wake, NoRequest, Reading, Begins
<1>25. ASSUME NEW c \in Aps, StartupThisAP(c) PROVE Ordered'
  BY <1>25, MpAssumption
     DEF StartupThisAP, Ordered, GivenTo, TypeOK, Startup, wake, NoRequest, Called, aps, mp,
         Reading, Begins
<1>26. ASSUME NEW c \in Aps, DisableAP(c) PROVE Ordered'
  BY <1>26, MpAssumption
     DEF DisableAP, Ordered, GivenTo, TypeOK, Called, aps, mp, local, wake, NoRequest, Reading,
         Begins
<1>27. ASSUME NEW c \in Aps, EnableAP(c) PROVE Ordered'
  BY <1>27, MpAssumption
     DEF EnableAP, Ordered, GivenTo, TypeOK, Called, CallReset, aps, mp, local, wake,
         NoRequest, CallWakeUpAP, Reading, Begins
<1>28. ASSUME NEW c \in Aps, ClearSignal(c) PROVE Ordered'
  BY <1>28, MpAssumption
     DEF ClearSignal, Ordered, GivenTo, TypeOK, mp, open, local, wake, NoRequest, Reading,
         Begins
<1>29. ASSUME NEW c \in Aps, ReadState(c) PROVE Ordered'
  BY <1>29, MpAssumption
     DEF ReadState, Ordered, GivenTo, TypeOK, IsReady, mp, open, local, wake, NoRequest,
         Reading, Begins
<1>30. ASSUME NEW c \in Aps, ReadFunction(c) PROVE Ordered'
  BY <1>30, MpAssumption
     DEF ReadFunction, Ordered, GivenTo, TypeOK, mp, open, local, wake, NoRequest, Reading,
         Begins
<1>31. ASSUME NEW c \in Aps, AcquireApLock(c) PROVE Ordered'
  BY <1>31, MpAssumption
     DEF AcquireApLock, Ordered, GivenTo, TypeOK, mp, open, local, wake, NoRequest, Reading,
         Begins
<1>32. ASSUME NEW c \in Aps, WriteState(c) PROVE Ordered'
  <2>1. UNCHANGED <<task, done, ApFunction, untold, fn, all, SingleThread>>
    BY <1>32 DEF WriteState, open, mp, wake
  <2>2. ASSUME NEW d \in Aps, d # c
        PROVE  /\ ap'[d] = ap[d] /\ begun'[d] = begun[d] /\ State'[d] = State[d]
    BY <1>32, <2>2 DEF WriteState, TypeOK
  <2>3. \/ /\ ap[c] = "lockedBusy" /\ begun'[c] = begun[c] \cup {task[c]}
           /\ State'[c] = "busy" /\ ap'[c] = "setBusy"
        \/ begun'[c] = begun[c] /\ State'[c] = "finished" /\ ap'[c] = "setFinished"
    BY <1>32 DEF WriteState, TypeOK
  <2>4. ASSUME NEW d \in Aps, GivenTo(d, all.id)' PROVE GivenTo(d, all.id)
    <3>1. CASE d = c
      BY <2>1, <2>3, <2>4, <3>1 DEF GivenTo, Reading, Begins
    <3>2. CASE d # c
      BY <2>1, <2>2, <2>4, <3>2 DEF GivenTo, Reading
    <3> QED
      BY <3>1, <3>2
  <2> QED
    BY <2>1, <2>4, OrderedKept
<1>33. ASSUME NEW c \in Aps, BeginProcedure(c) PROVE Ordered'
  BY <1>33, MpAssumption
     DEF BeginProcedure, Ordered, GivenTo, TypeOK, mp, open, local, wake, NoRequest, Reading,
         Begins
<1>34. ASSUME NEW c \in Aps, EndProcedure(c) PROVE Ordered'
  BY <1>34, MpAssumption
     DEF EndProcedure, Ordered, GivenTo, TypeOK, mp, open, local, wake, NoRequest, Reading,
         Begins
<1>35. ASSUME NEW c \in Aps, Finish(c) PROVE Ordered'
  BY <1>35, MpAssumption
     DEF Finish, Ordered, GivenTo, TypeOK, mp, open, local, wake, NoRequest, Reading, Begins
<1>36. ASSUME NEW c \in Aps, Count(c) PROVE Ordered'
  BY <1>36, MpAssumption
     DEF Count, Ordered, GivenTo, TypeOK, mp, open, local, wake, NoRequest, Reading, Begins
<1>37. ASSUME NEW c \in Aps, ExpireThis(c) PROVE Ordered'
  BY <1>37, MpAssumption
     DEF ExpireThis, Ordered, GivenTo, TypeOK, aps, mp, local, wake, NoRequest, Reading, Begins
<1>38. CASE UNCHANGED vars
  BY <1>38, MpAssumption
     DEF vars, Ordered, GivenTo, TypeOK, aps, mp, open, local, wake, NoRequest, Reading, Begins
<1> QED
  BY <1>1, <1>2, <1>3, <1>4, <1>5, <1>6, <1>7, <1>8, <1>9, <1>10, <1>11, <1>12, <1>13,
     <1>14, <1>15, <1>16, <1>17, <1>18, <1>19, <1>20, <1>21, <1>22, <1>23, <1>24, <1>25,
     <1>26, <1>27, <1>28, <1>29, <1>30, <1>31, <1>32, <1>33, <1>34, <1>35, <1>36, <1>37,
     <1>38
     DEF Next, Bsp, ApLoop, Expire

LEMMA NextSuccessMeansDone ==
  ASSUME TypeOK, Control, WakeOK, Accounts, Signals, Numbered, Heard, Stopped, Exclusive,
         Runners, Counted, SuccessMeansDone, [Next]_vars
  PROVE  SuccessMeansDone'
<1>1. CASE Wake
  BY <1>1 DEF Wake, aps, SuccessMeansDone, open
<1>2. CASE GiveFunction
  BY <1>2, MpAssumption
     DEF GiveFunction, aps, SuccessMeansDone, TypeOK, mp, open, local, wake, NoRequest
<1>3. CASE SetReady
  BY <1>3, MpAssumption
     DEF SetReady, aps, SuccessMeansDone, TypeOK, mp, open, local, wake, NoRequest
<1>4. CASE Signal
  BY <1>4, MpAssumption
     DEF Signal, aps, SuccessMeansDone, TypeOK, mp, open, local, wake, NoRequest
<1>5. CASE SendInitSipiSipi
  BY <1>5, MpAssumption
     DEF SendInitSipiSipi, SuccessMeansDone, TypeOK, mp, open, local, wake, NoRequest
<1>6. CASE WaitApWakeup
  BY <1>6, MpAssumption
     DEF WaitApWakeup, SuccessMeansDone, TypeOK, aps, mp, open, local, wake, NoRequest
<1>7. CASE ResetDone
  BY <1>7, MpAssumption
     DEF ResetDone, SuccessMeansDone, TypeOK, Goto, EndThis, aps, wake, NoRequest, NoCall,
         AfterCheck
<1>8. CASE ScanOne
  BY <1>8, MpAssumption
     DEF ScanOne, SuccessMeansDone, TypeOK, Rest, NextWaiting, CallWakeUpAP, aps, open,
         wake, NoRequest
<1>9. CASE ScanEnd
  <2>1. bsp = "scan" /\ UNCHANGED done /\ ~Failing
    BY <1>9 DEF ScanEnd, aps, Failing, InWakeUp, WakePcs
  <2>2. CASE AllFinished /\ EndAll("success")
    <3>1. \A c \in all.for : all.id \in done[c]
      BY <2>1, <2>2, NoneWaiting DEF Counted, TypeOK, CallType
    <3> QED
      BY <2>1, <2>2, <3>1 DEF EndAll, SuccessMeansDone
  <2>3. CASE UNCHANGED result
    BY <2>1, <2>3 DEF SuccessMeansDone
  <2> QED
    BY <1>9, <2>2, <2>3 DEF ScanEnd
<1>10. CASE FailOne
  BY <1>10, MpAssumption
     DEF FailOne, SuccessMeansDone, TypeOK, Unfinished, CallReset, aps, mp, open, wake,
         NoRequest, Rest, CallWakeUpAP
<1>11. CASE FailEnd
  BY <1>11, MpAssumption
     DEF FailEnd, SuccessMeansDone, TypeOK, Unfinished, EndAll, aps, mp, wake, NoRequest,
         Rest, NoCall, Goto, AfterCheck
<1>12. CASE ThisFinished
  <2>1. /\ index \in Aps /\ State[index] = "finished" /\ UNCHANGED done
        /\ bsp = "this" /\ untold = {}
    BY <1>12 DEF ThisFinished, Control, aps, WakeOK, InWakeUp, WakePcs
  <2>2. result'.id = this[index].id /\ result'.for = this[index].for /\ this[index].for \subseteq {index}
    BY <1>12, <2>1 DEF ThisFinished, EndThis, Numbered
  <2>3. ASSUME NEW c \in result'.for PROVE result'.id \in done[c]
    <3>1. c = index /\ Owed(c, result'.id) /\ result'.id \in Calls
      BY <2>1, <2>2 DEF Owed, TypeOK, CallType
    <3>2. Runs(c, result'.id)
      BY <2>1, <3>1 DEF Runners
    <3> QED
      BY <2>1, <3>1, <3>2 DEF Runs, Resetting, Untold, Answers, InWakeUp, WakePcs
  <2> QED
    BY <2>1, <2>3 DEF SuccessMeansDone
<1>13. CASE ThisTimeout
  BY <1>13, MpAssumption
     DEF ThisTimeout, SuccessMeansDone, TypeOK, CallReset, aps, mp, open, local, wake,
         NoRequest, CallWakeUpAP
<1>14. CASE ThisNotReady
  BY <1>14, MpAssumption
     DEF ThisNotReady, SuccessMeansDone, TypeOK, Goto, aps, mp, open, wake, NoRequest
<1>15. CASE UpdateAll
  BY <1>15, MpAssumption
     DEF UpdateAll, SuccessMeansDone, TypeOK, Goto, aps, mp, open, wake, NoRequest
<1>16. CASE UpdateThis
  BY <1>16, MpAssumption
     DEF UpdateThis, SuccessMeansDone, TypeOK, Goto, aps, mp, open, wake, NoRequest
<1>17. CASE RefuseAll
  BY <1>17, MpAssumption
     DEF RefuseAll, SuccessMeansDone, TypeOK, Enabled, Goto, aps, mp, open, wake, NoRequest
<1>18. CASE StartAll
  BY <1>18, MpAssumption
     DEF StartAll, SuccessMeansDone, TypeOK, Enabled, NewCall, CallWakeUpAP, FirstOnly, aps,
         local, wake, NoRequest
<1>19. CASE RefuseThis
  BY <1>19, MpAssumption
     DEF RefuseThis, SuccessMeansDone, TypeOK, Goto, aps, mp, open, wake, NoRequest
<1>20. CASE StartThis
  BY <1>20, MpAssumption
     DEF StartThis, SuccessMeansDone, TypeOK, NewCall, CallWakeUpAP, aps, mp, local, wake,
         NoRequest
<1>21. CASE Started
  BY <1>21, MpAssumption
     DEF Started, SuccessMeansDone, TypeOK, Goto, aps, mp, open, wake, NoRequest
<1>22. CASE CheckApsStatus
  BY <1>22, MpAssumption
     DEF CheckApsStatus, SuccessMeansDone, TypeOK, aps, mp, open, local, wake, NoRequest
<1>23. CASE StartupAllAPs
  BY <1>23, MpAssumption
     DEF StartupAllAPs, SuccessMeansDone, TypeOK, Startup, wake, NoRequest, Called, aps, mp
<1>24. CASE ExpireAll
  BY <1>24, MpAssumption
     DEF ExpireAll, SuccessMeansDone, TypeOK, aps, mp, local, wake, NoRequest
<1>25. ASSUME NEW c \in Aps, StartupThisAP(c) PROVE SuccessMeansDone'
  BY <1>25, MpAssumption
     DEF StartupThisAP, SuccessMeansDone, TypeOK, Startup, wake, NoRequest, Called, aps, mp
<1>26. ASSUME NEW c \in Aps, DisableAP(c) PROVE SuccessMeansDone'
  BY <1>26, MpAssumption
     DEF DisableAP, SuccessMeansDone, TypeOK, Called, aps, mp, local, wake, NoRequest
<1>27. ASSUME NEW c \in Aps, EnableAP(c) PROVE SuccessMeansDone'
  BY <1>27, MpAssumption
     DEF EnableAP, SuccessMeansDone, TypeOK, Called, CallReset, aps, mp, local, wake,
         NoRequest, CallWakeUpAP
<1>28. ASSUME NEW c \in Aps, ClearSignal(c) PROVE SuccessMeansDone'
  BY <1>28, MpAssumption
     DEF ClearSignal, SuccessMeansDone, TypeOK, mp, open, local, wake, NoRequest
<1>29. ASSUME NEW c \in Aps, ReadState(c) PROVE SuccessMeansDone'
  BY <1>29, MpAssumption
     DEF ReadState, SuccessMeansDone, TypeOK, IsReady, mp, open, local, wake, NoRequest
<1>30. ASSUME NEW c \in Aps, ReadFunction(c) PROVE SuccessMeansDone'
  BY <1>30, MpAssumption
     DEF ReadFunction, SuccessMeansDone, TypeOK, mp, open, local, wake, NoRequest
<1>31. ASSUME NEW c \in Aps, AcquireApLock(c) PROVE SuccessMeansDone'
  BY <1>31, MpAssumption
     DEF AcquireApLock, SuccessMeansDone, TypeOK, mp, open, local, wake, NoRequest
<1>32. ASSUME NEW c \in Aps, WriteState(c) PROVE SuccessMeansDone'
  BY <1>32, MpAssumption
     DEF WriteState, SuccessMeansDone, TypeOK, mp, open, local, wake, NoRequest
<1>33. ASSUME NEW c \in Aps, BeginProcedure(c) PROVE SuccessMeansDone'
  BY <1>33, MpAssumption
     DEF BeginProcedure, SuccessMeansDone, TypeOK, mp, open, local, wake, NoRequest
<1>34. ASSUME NEW c \in Aps, EndProcedure(c) PROVE SuccessMeansDone'
  BY <1>34, MpAssumption
     DEF EndProcedure, SuccessMeansDone, TypeOK, mp, open, local, wake, NoRequest
<1>35. ASSUME NEW c \in Aps, Finish(c) PROVE SuccessMeansDone'
  BY <1>35, MpAssumption
     DEF Finish, SuccessMeansDone, TypeOK, mp, open, local, wake, NoRequest
<1>36. ASSUME NEW c \in Aps, Count(c) PROVE SuccessMeansDone'
  BY <1>36, MpAssumption
     DEF Count, SuccessMeansDone, TypeOK, mp, open, local, wake, NoRequest
<1>37. ASSUME NEW c \in Aps, ExpireThis(c) PROVE SuccessMeansDone'
  BY <1>37, MpAssumption
     DEF ExpireThis, SuccessMeansDone, TypeOK, aps, mp, local, wake, NoRequest
<1>38. CASE UNCHANGED vars
  BY <1>38, MpAssumption
     DEF vars, SuccessMeansDone, TypeOK, aps, mp, open, local, wake, NoRequest
<1> QED
  BY <1>1, <1>2, <1>3, <1>4, <1>5, <1>6, <1>7, <1>8, <1>9, <1>10, <1>11, <1>12, <1>13,
     <1>14, <1>15, <1>16, <1>17, <1>18, <1>19, <1>20, <1>21, <1>22, <1>23, <1>24, <1>25,
     <1>26, <1>27, <1>28, <1>29, <1>30, <1>31, <1>32, <1>33, <1>34, <1>35, <1>36, <1>37,
     <1>38
     DEF Next, Bsp, ApLoop, Expire

\* CheckThisAP is called for an AP with a call.
Attended ==
  /\ bsp = "this" => this[index].id # 0
  /\ bsp = "started" /\ request.service = "startThis" => this[apNumber].id # 0

LEMMA NextAttended ==
  ASSUME TypeOK, Control, WakeOK, Accounts, Signals, Numbered, Heard, Stopped, Exclusive,
         Attended, [Next]_vars
  PROVE  Attended'
<1>1. CASE Wake
  BY <1>1, MpAssumption
     DEF Wake, aps, Attended, TypeOK, Control, WakeOK, wake, mp, open, local, NoRequest,
         Starting, InWakeUp, WakePcs
<1>2. CASE GiveFunction
  BY <1>2, MpAssumption
     DEF GiveFunction, aps, Attended, TypeOK, Control, WakeOK, mp, open, local, wake,
         NoRequest, Starting, InWakeUp, WakePcs
<1>3. CASE SetReady
  BY <1>3, MpAssumption
     DEF SetReady, aps, Attended, TypeOK, Control, WakeOK, mp, open, local, wake,
         NoRequest, Starting, InWakeUp, WakePcs
<1>4. CASE Signal
  BY <1>4, MpAssumption
     DEF Signal, aps, Attended, TypeOK, Control, WakeOK, mp, open, local, wake,
         NoRequest, Starting, InWakeUp, WakePcs
<1>5. CASE SendInitSipiSipi
  BY <1>5, MpAssumption
     DEF SendInitSipiSipi, Attended, TypeOK, Control, WakeOK, mp, open, local, wake,
         NoRequest, Starting, InWakeUp, WakePcs
<1>6. CASE WaitApWakeup
  BY <1>6, MpAssumption
     DEF WaitApWakeup, Attended, TypeOK, Control, WakeOK, aps, mp, open, local, wake,
         NoRequest, Starting, InWakeUp, WakePcs
<1>7. CASE ResetDone
  BY <1>7, MpAssumption
     DEF ResetDone, Attended, TypeOK, Control, WakeOK, Goto, EndThis, aps, wake, NoRequest,
         Starting, InWakeUp, NoCall, AfterCheck, WakePcs
<1>8. CASE ScanOne
  BY <1>8, MpAssumption
     DEF ScanOne, Attended, TypeOK, Control, WakeOK, Rest, NextWaiting, CallWakeUpAP, aps,
         open, wake, NoRequest, Starting, InWakeUp, WakePcs
<1>9. CASE ScanEnd
  BY <1>9, MpAssumption
     DEF ScanEnd, Attended, TypeOK, Control, WakeOK, Rest, EndAll, Goto, aps, mp, wake,
         NoRequest, Starting, InWakeUp, NoCall, AfterCheck, WakePcs
<1>10. CASE FailOne
  BY <1>10, MpAssumption
     DEF FailOne, Attended, TypeOK, Control, WakeOK, Unfinished, CallReset, aps, mp, open,
         wake, NoRequest, Starting, InWakeUp, Rest, CallWakeUpAP, WakePcs
<1>11. CASE FailEnd
  BY <1>11, MpAssumption
     DEF FailEnd, Attended, TypeOK, Control, WakeOK, Unfinished, EndAll, aps, mp, wake,
         NoRequest, Starting, InWakeUp, Rest, NoCall, Goto, AfterCheck, WakePcs
<1>12. CASE ThisFinished
  BY <1>12, MpAssumption
     DEF ThisFinished, Attended, TypeOK, Control, WakeOK, EndThis, aps, mp, wake, NoRequest,
         Starting, InWakeUp, NoCall, Goto, AfterCheck, WakePcs
<1>13. CASE ThisTimeout
  BY <1>13, MpAssumption
     DEF ThisTimeout, Attended, TypeOK, Control, WakeOK, CallReset, aps, mp, open, local,
         wake, NoRequest, Starting, InWakeUp, CallWakeUpAP, WakePcs
<1>14. CASE ThisNotReady
  BY <1>14, MpAssumption
     DEF ThisNotReady, Attended, TypeOK, Control, WakeOK, Goto, aps, mp, open, wake,
         NoRequest, Starting, InWakeUp, WakePcs
<1>15. CASE UpdateAll
  BY <1>15, MpAssumption
     DEF UpdateAll, Attended, TypeOK, Control, WakeOK, Goto, aps, mp, open, wake, NoRequest,
         Starting, InWakeUp, WakePcs
<1>16. CASE UpdateThis
  <2> DEFINE pending == {c \in Aps : this[c].event /\ c >= index}
  <2>1. UNCHANGED this
    BY <1>16 DEF UpdateThis, open
  <2>2. CASE pending # {} /\ Goto("this", First(pending))
    <3>1. First(pending) \in pending
      BY <2>2, FirstLeast
    <3>2. this[First(pending)].id # 0
      BY <3>1 DEF Numbered, NoCall
    <3> HIDE DEF pending
    <3> QED
      BY <2>1, <2>2, <3>2 DEF Attended, Goto
  <2>3. CASE Goto(request.service, 1)
    <3>1. bsp' \notin {"this", "started"}
      BY <2>3, RequestType DEF Goto, Services
    <3> QED
      BY <3>1 DEF Attended
  <2> QED
    BY <1>16, <2>2, <2>3 DEF UpdateThis
<1>17. CASE RefuseAll
  BY <1>17, MpAssumption
     DEF RefuseAll, Attended, TypeOK, Control, WakeOK, Enabled, Goto, aps, mp, open, wake,
         NoRequest, Starting, InWakeUp, WakePcs
<1>18. CASE StartAll
  BY <1>18, MpAssumption
     DEF StartAll, Attended, TypeOK, Control, WakeOK, Enabled, NewCall, CallWakeUpAP,
         FirstOnly, aps, local, wake, NoRequest, Starting, InWakeUp, WakePcs
<1>19. CASE RefuseThis
  BY <1>19, MpAssumption
     DEF RefuseThis, Attended, TypeOK, Control, WakeOK, Goto, aps, mp, open, wake,
         NoRequest, Starting, InWakeUp, WakePcs
<1>20. CASE StartThis
  BY <1>20, MpAssumption
     DEF StartThis, Attended, TypeOK, Control, WakeOK, NewCall, CallWakeUpAP, aps, mp,
         local, wake, NoRequest, Starting, InWakeUp, WakePcs
<1>21. CASE Started
  <2>1. CASE bsp' = "this"
    <3>1. request.service # "startAll" /\ index' = apNumber /\ bsp = "started" /\ UNCHANGED this
      BY <1>21, <2>1 DEF Started, Goto, open
    <3>2. request.service = "startThis"
      BY <3>1, RequestType DEF Control, Services
    <3> QED
      BY <2>1, <3>1, <3>2 DEF Attended
  <2>2. CASE bsp' \in {"caller", "scan"}
    BY <2>2 DEF Attended
  <2> QED
    BY <1>21, <2>1, <2>2 DEF Started, Goto
<1>22. CASE CheckApsStatus
  BY <1>22, MpAssumption
     DEF CheckApsStatus, Attended, TypeOK, Control, WakeOK, aps, mp, open, local, wake,
         NoRequest, Starting, InWakeUp, WakePcs
<1>23. CASE StartupAllAPs
  BY <1>23, MpAssumption
     DEF StartupAllAPs, Attended, TypeOK, Control, WakeOK, Startup, wake, NoRequest,
         Starting, InWakeUp, Called, aps, mp, WakePcs
<1>24. CASE ExpireAll
  BY <1>24, MpAssumption
     DEF ExpireAll, Attended, TypeOK, Control, WakeOK, aps, mp, local, wake, NoRequest,
         Starting, InWakeUp, WakePcs
<1>25. ASSUME NEW c \in Aps, StartupThisAP(c) PROVE Attended'
  BY <1>25, MpAssumption
     DEF StartupThisAP, Attended, TypeOK, Control, WakeOK, Startup, wake, NoRequest,
         Starting, InWakeUp, Called, aps, mp, WakePcs
<1>26. ASSUME NEW c \in Aps, DisableAP(c) PROVE Attended'
  BY <1>26, MpAssumption
     DEF DisableAP, Attended, TypeOK, Control, WakeOK, Called, aps, mp, local, wake,
         NoRequest, Starting, InWakeUp, WakePcs
<1>27. ASSUME NEW c \in Aps, EnableAP(c) PROVE Attended'
  BY <1>27, MpAssumption
     DEF EnableAP, Attended, TypeOK, Control, WakeOK, Called, CallReset, aps, mp, local,
         wake, NoRequest, Starting, InWakeUp, CallWakeUpAP, WakePcs
<1>28. ASSUME NEW c \in Aps, ClearSignal(c) PROVE Attended'
  BY <1>28, MpAssumption
     DEF ClearSignal, Attended, TypeOK, Control, WakeOK, mp, open, local, wake, NoRequest,
         Starting, InWakeUp, WakePcs
<1>29. ASSUME NEW c \in Aps, ReadState(c) PROVE Attended'
  BY <1>29, MpAssumption
     DEF ReadState, Attended, TypeOK, Control, WakeOK, mp, open, local, wake, NoRequest,
         Starting, InWakeUp, WakePcs
<1>30. ASSUME NEW c \in Aps, ReadFunction(c) PROVE Attended'
  BY <1>30, MpAssumption
     DEF ReadFunction, Attended, TypeOK, Control, WakeOK, mp, open, local, wake,
         NoRequest, Starting, InWakeUp, WakePcs
<1>31. ASSUME NEW c \in Aps, AcquireApLock(c) PROVE Attended'
  BY <1>31, MpAssumption
     DEF AcquireApLock, Attended, TypeOK, Control, WakeOK, mp, open, local, wake,
         NoRequest, Starting, InWakeUp, WakePcs
<1>32. ASSUME NEW c \in Aps, WriteState(c) PROVE Attended'
  BY <1>32, MpAssumption
     DEF WriteState, Attended, TypeOK, Control, WakeOK, mp, open, local, wake,
         NoRequest, Starting, InWakeUp, WakePcs
<1>33. ASSUME NEW c \in Aps, BeginProcedure(c) PROVE Attended'
  BY <1>33, MpAssumption
     DEF BeginProcedure, Attended, TypeOK, Control, WakeOK, mp, open, local, wake,
         NoRequest, Starting, InWakeUp, WakePcs
<1>34. ASSUME NEW c \in Aps, EndProcedure(c) PROVE Attended'
  BY <1>34, MpAssumption
     DEF EndProcedure, Attended, TypeOK, Control, WakeOK, mp, open, local, wake, NoRequest,
         Starting, InWakeUp, WakePcs
<1>35. ASSUME NEW c \in Aps, Finish(c) PROVE Attended'
  BY <1>35, MpAssumption
     DEF Finish, Attended, TypeOK, Control, WakeOK, mp, open, local, wake, NoRequest,
         Starting, InWakeUp, WakePcs
<1>36. ASSUME NEW c \in Aps, Count(c) PROVE Attended'
  BY <1>36, MpAssumption
     DEF Count, Attended, TypeOK, Control, WakeOK, mp, open, local, wake, NoRequest,
         Starting, InWakeUp, WakePcs
<1>37. ASSUME NEW c \in Aps, ExpireThis(c) PROVE Attended'
  BY <1>37, MpAssumption
     DEF ExpireThis, Attended, TypeOK, Control, WakeOK, aps, mp, local, wake, NoRequest,
         Starting, InWakeUp, WakePcs
<1>38. CASE UNCHANGED vars
  BY <1>38, MpAssumption
     DEF vars, Attended, TypeOK, Control, WakeOK, aps, mp, open, local, wake, NoRequest,
         Starting, InWakeUp, WakePcs
<1> QED
  BY <1>1, <1>2, <1>3, <1>4, <1>5, <1>6, <1>7, <1>8, <1>9, <1>10, <1>11, <1>12, <1>13,
     <1>14, <1>15, <1>16, <1>17, <1>18, <1>19, <1>20, <1>21, <1>22, <1>23, <1>24, <1>25,
     <1>26, <1>27, <1>28, <1>29, <1>30, <1>31, <1>32, <1>33, <1>34, <1>35, <1>36, <1>37,
     <1>38
     DEF Next, Bsp, ApLoop, Expire

\* AP c has not begun the procedure of call k yet, if it is a call made for c.
New(c, k) == k # 0 /\ MadeFor(c, k) => k \notin begun[c]

\* What WakeUpAP gives an AP that a call has just been made for is new to it.
Fresh == Starting => \A c \in untold : MadeFor(c, fn) => ap[c] = "loop" /\ fn \notin begun[c]

\* As long as no reset has returned early, an AP begins a procedure that it has not
\* begun before: an AP that is idle is doing nothing, and of those a call one by
\* one waits for only the first is not idle.
Once ==
  ~raced =>
    /\ \A c \in Aps : State[c] = "idle" => ap[c] \notin Works
    /\ \A c \in Aps : ap[c] \in {"begin", "lockedBusy"} => New(c, task[c])
    /\ \A c \in Aps : Reading(c) => New(c, ApFunction[c])
    /\ SingleThread =>
         /\ \A c \in Aps : Waiting[c] /\ State[c] = "idle" => all.id \notin begun[c]
         /\ \A c, d \in Aps : Waiting[c] /\ Waiting[d] /\ c < d => State[d] = "idle"
         /\ \A c \in untold, d \in Aps : Waiting[c] /\ Waiting[d] => c <= d
    /\ back = "scan" => SingleThread /\ \A c \in untold : State[c] = "idle"

\* No call is made; one may end.
NoNewCall ==
  \A c \in Aps : /\ c \in this'[c].for => c \in this[c].for /\ this'[c].id = this[c].id
                 /\ c \in all'.for => c \in all.for /\ all'.id = all.id

LEMMA FreshKept ==
  ASSUME TypeOK, Fresh, NoNewCall, Starting' => Starting, fn' = fn, untold' \subseteq untold,
         \A c \in untold : ap[c] = "loop" => ap'[c] = "loop" /\ begun'[c] = begun[c]
  PROVE  Fresh'
<1>1. untold \subseteq Aps
  BY DEF TypeOK
<1>2. \A c \in untold' : MadeFor(c, fn)' => MadeFor(c, fn)
  BY <1>1 DEF NoNewCall, MadeFor
<1> QED
  BY <1>2 DEF Fresh

LEMMA NextFresh ==
  ASSUME TypeOK, Control, WakeOK, Signals, Numbered, Heard, Fresh, [Next]_vars
  PROVE  Fresh'
<1>1. CASE Wake
  BY <1>1, FreshKept DEF Wake, aps, mp, open, wake, NoNewCall, Starting, InWakeUp, WakePcs
<1>2. CASE GiveFunction
  BY <1>2, FreshKept DEF GiveFunction, aps, mp, open, NoNewCall, Starting, InWakeUp, WakePcs
<1>3. CASE SetReady
  BY <1>3, FreshKept DEF SetReady, aps, mp, open, NoNewCall, Starting, InWakeUp, WakePcs
<1>4. CASE Signal
  BY <1>4, FreshKept DEF Signal, mp, open, NoNewCall, Starting, InWakeUp, WakePcs
<1>5. CASE SendInitSipiSipi
  BY <1>5 DEF SendInitSipiSipi, wake, Fresh, WakeOK
<1>6. CASE WaitApWakeup
  BY <1>6 DEF WaitApWakeup, Fresh, WakeOK, Starting, InWakeUp, WakePcs
<1>7. CASE ResetDone
  BY <1>7 DEF ResetDone, Fresh, WakeOK, Starting
<1>8. CASE ScanOne
  BY <1>8 DEF ScanOne, CallWakeUpAP, Fresh, WakeOK, Starting, InWakeUp, WakePcs
<1>9. CASE ScanEnd
  BY <1>9 DEF ScanEnd, wake, Fresh, WakeOK, Starting, InWakeUp, WakePcs
<1>10. CASE FailOne
  BY <1>10 DEF FailOne, CallReset, CallWakeUpAP, Fresh, WakeOK, Starting, InWakeUp, WakePcs
<1>11. CASE FailEnd
  BY <1>11 DEF FailEnd, wake, Fresh, WakeOK, Starting, InWakeUp, WakePcs
<1>12. CASE ThisFinished
  BY <1>12 DEF ThisFinished, wake, Fresh, WakeOK, Starting, InWakeUp, WakePcs
<1>13. CASE ThisTimeout
  BY <1>13 DEF ThisTimeout, CallReset, CallWakeUpAP, Fresh, WakeOK, Starting, InWakeUp, WakePcs
<1>14. CASE ThisNotReady
  BY <1>14 DEF ThisNotReady, wake, Fresh, WakeOK, Starting, InWakeUp, WakePcs
<1>15. CASE UpdateAll
  BY <1>15 DEF UpdateAll, wake, Fresh, WakeOK, Starting, InWakeUp, WakePcs
<1>16. CASE UpdateThis
  BY <1>16 DEF UpdateThis, wake, Fresh, WakeOK, Starting, InWakeUp, WakePcs
<1>17. CASE RefuseAll
  BY <1>17 DEF RefuseAll, wake, Fresh, WakeOK, Starting, InWakeUp, WakePcs
<1>18. CASE StartAll
  <2>1. /\ UNCHANGED <<ap, begun, this>> /\ fn' = calls /\ untold' \subseteq Aps
        /\ all'.id = calls /\ \A c \in all'.for : ap[c] = "loop"
    BY <1>18, FirstLeast DEF StartAll, aps, CallWakeUpAP, NewCall, FirstOnly, Enabled
  <2>2. Preparing
    BY <1>18 DEF StartAll, Preparing, Control, NoRequest, Starting, InWakeUp, WakePcs
  <2>3. /\ calls \in Nat /\ all.id \in Int /\ all.id <= calls - 1
        /\ \A c \in Aps : /\ this[c].id \in Int /\ this[c].id <= calls - 1
                          /\ begun[c] \subseteq Int /\ \A i \in begun[c] : i <= calls - 1
    BY <2>2 DEF TypeOK, Calls, CallType, Heard, Numbered, LastCall
  <2>4. all.id # calls /\ \A c \in Aps : this[c].id # calls /\ calls \notin begun[c]
    BY <2>3
  <2> QED
    BY <2>1, <2>4 DEF Fresh, MadeFor
<1>19. CASE RefuseThis
  BY <1>19 DEF RefuseThis, wake, Fresh, WakeOK, Starting, InWakeUp, WakePcs
<1>20. CASE StartThis
  <2>1. /\ UNCHANGED <<ap, begun, all>> /\ fn' = calls /\ untold' = {apNumber} /\ apNumber \in Aps
        /\ this'[apNumber] = NewCall({apNumber})
    BY <1>20 DEF StartThis, aps, CallWakeUpAP, Control, TypeOK
  <2>2. Preparing
    BY <1>20 DEF StartThis, Preparing, Control, NoRequest, Starting, InWakeUp, WakePcs
  <2>3. /\ calls \in Nat /\ all.id \in Int /\ all.id <= calls - 1
        /\ \A c \in Aps : /\ this[c].id \in Int /\ this[c].id <= calls - 1
                          /\ begun[c] \subseteq Int /\ \A i \in begun[c] : i <= calls - 1
    BY <2>2 DEF TypeOK, Calls, CallType, Heard, Numbered, LastCall
  <2>4. all.id # calls /\ \A c \in Aps : this[c].id # calls /\ calls \notin begun[c]
    BY <2>3
  <2> QED
    BY <2>1, <2>4 DEF Fresh, MadeFor, NewCall
<1>21. CASE Started
  BY <1>21 DEF Started, wake, Fresh, WakeOK, Starting, InWakeUp, WakePcs
<1>22. CASE CheckApsStatus
  BY <1>22 DEF CheckApsStatus, wake, Fresh, WakeOK, Starting, InWakeUp, WakePcs
<1>23. CASE StartupAllAPs
  BY <1>23 DEF StartupAllAPs, Startup, Called, wake, Fresh, WakeOK, Starting, InWakeUp, WakePcs
<1>24. CASE ExpireAll
  BY <1>24, FreshKept DEF ExpireAll, aps, wake, NoNewCall, Starting, InWakeUp, TypeOK, CallType
<1>25. ASSUME NEW c \in Aps, StartupThisAP(c) PROVE Fresh'
  BY <1>25 DEF StartupThisAP, Startup, Called, wake, Fresh, WakeOK, Starting, InWakeUp, WakePcs
<1>26. ASSUME NEW c \in Aps, DisableAP(c) PROVE Fresh'
  BY <1>26 DEF DisableAP, Called, wake, Fresh, WakeOK, Starting, InWakeUp, WakePcs
<1>27. ASSUME NEW c \in Aps, EnableAP(c) PROVE Fresh'
  BY <1>27 DEF EnableAP, Called, CallReset, CallWakeUpAP, Fresh, WakeOK, Starting, InWakeUp,
     WakePcs
<1>28. ASSUME NEW c \in Aps, ClearSignal(c) PROVE Fresh'
  <2>1. ap[c] = "loop" => c \notin untold
    BY <1>28 DEF ClearSignal, Signals
  <2>2. \A d \in Aps : d # c => ap'[d] = ap[d]
    BY <1>28 DEF ClearSignal, TypeOK
  <2>3. \A d \in untold : ap[d] = "loop" => ap'[d] = "loop" /\ begun'[d] = begun[d]
    BY <1>28, <2>1, <2>2 DEF ClearSignal, TypeOK
  <2> QED
    BY <1>28, <2>3, FreshKept DEF ClearSignal, open, wake, NoNewCall, Starting, InWakeUp
<1>29. ASSUME NEW c \in Aps, ReadState(c) PROVE Fresh'
  <2>1. \A d \in untold : ap[d] = "loop" => ap'[d] = "loop" /\ begun'[d] = begun[d]
    BY <1>29 DEF ReadState, TypeOK
  <2> QED
    BY <1>29, <2>1, FreshKept DEF ReadState, open, wake, NoNewCall, Starting, InWakeUp
<1>30. ASSUME NEW c \in Aps, ReadFunction(c) PROVE Fresh'
  <2>1. \A d \in untold : ap[d] = "loop" => ap'[d] = "loop" /\ begun'[d] = begun[d]
    BY <1>30 DEF ReadFunction, TypeOK
  <2> QED
    BY <1>30, <2>1, FreshKept DEF ReadFunction, open, wake, NoNewCall, Starting, InWakeUp
<1>31. ASSUME NEW c \in Aps, AcquireApLock(c) PROVE Fresh'
  <2>1. \A d \in untold : ap[d] = "loop" => ap'[d] = "loop" /\ begun'[d] = begun[d]
    BY <1>31 DEF AcquireApLock, TypeOK
  <2> QED
    BY <1>31, <2>1, FreshKept DEF AcquireApLock, open, wake, NoNewCall, Starting, InWakeUp
<1>32. ASSUME NEW c \in Aps, WriteState(c) PROVE Fresh'
  <2>1. \A d \in untold : ap[d] = "loop" => ap'[d] = "loop" /\ begun'[d] = begun[d]
    BY <1>32 DEF WriteState, TypeOK
  <2> QED
    BY <1>32, <2>1, FreshKept DEF WriteState, open, wake, NoNewCall, Starting, InWakeUp
<1>33. ASSUME NEW c \in Aps, BeginProcedure(c) PROVE Fresh'
  <2>1. \A d \in untold : ap[d] = "loop" => ap'[d] = "loop" /\ begun'[d] = begun[d]
    BY <1>33 DEF BeginProcedure, TypeOK
  <2> QED
    BY <1>33, <2>1, FreshKept DEF BeginProcedure, open, wake, NoNewCall, Starting, InWakeUp
<1>34. ASSUME NEW c \in Aps, EndProcedure(c) PROVE Fresh'
  <2>1. \A d \in untold : ap[d] = "loop" => ap'[d] = "loop" /\ begun'[d] = begun[d]
    BY <1>34 DEF EndProcedure, TypeOK
  <2> QED
    BY <1>34, <2>1, FreshKept DEF EndProcedure, open, wake, NoNewCall, Starting, InWakeUp
<1>35. ASSUME NEW c \in Aps, Finish(c) PROVE Fresh'
  <2>1. \A d \in untold : ap[d] = "loop" => ap'[d] = "loop" /\ begun'[d] = begun[d]
    BY <1>35 DEF Finish, TypeOK
  <2> QED
    BY <1>35, <2>1, FreshKept DEF Finish, open, wake, NoNewCall, Starting, InWakeUp
<1>36. ASSUME NEW c \in Aps, Count(c) PROVE Fresh'
  <2>1. \A d \in untold : ap[d] = "loop" => ap'[d] = "loop" /\ begun'[d] = begun[d]
    BY <1>36 DEF Count, TypeOK
  <2> QED
    BY <1>36, <2>1, FreshKept DEF Count, open, wake, NoNewCall, Starting, InWakeUp
<1>37. ASSUME NEW c \in Aps, ExpireThis(c) PROVE Fresh'
  <2>1. NoNewCall /\ UNCHANGED <<ap, begun, bsp, untold, fn, back>>
    BY <1>37 DEF ExpireThis, NoNewCall, aps, wake, TypeOK, CallType
  <2> QED
    BY <2>1, FreshKept DEF Starting, InWakeUp
<1>38. CASE UNCHANGED vars
  BY <1>38, FreshKept DEF vars, aps, open, wake, NoNewCall, Starting, InWakeUp
<1> QED
  BY <1>1, <1>2, <1>3, <1>4, <1>5, <1>6, <1>7, <1>8, <1>9, <1>10, <1>11, <1>12, <1>13, <1>14,
     <1>15, <1>16, <1>17, <1>18, <1>19, <1>20, <1>21, <1>22, <1>23, <1>24, <1>25, <1>26,
     <1>27, <1>28, <1>29, <1>30, <1>31, <1>32, <1>33, <1>34, <1>35, <1>36, <1>37, <1>38
     DEF Next, Bsp, ApLoop, Expire

LEMMA OnceKept ==
  ASSUME Once, NoNewCall, all'.id = all.id, back' = "scan" => back = "scan",
         untold' \in {untold, {}},
         UNCHANGED <<ap, task, begun, State, ApFunction, Waiting, SingleThread, raced>>
  PROVE  Once'
<1>1. untold' \subseteq untold
  OBVIOUS
<1>2. \A c \in Aps : New(c, task[c]) => New(c, task[c])'
  BY DEF NoNewCall, New, MadeFor
<1>3. \A c \in Aps : New(c, ApFunction[c]) => New(c, ApFunction[c])'
  BY DEF NoNewCall, New, MadeFor
<1> QED
  BY <1>1, <1>2, <1>3 DEF Once, Reading

LEMMA OnceAfterAll ==
  ASSUME Once, NoNewCall, untold' = {}, back' # "scan", \A c \in Aps : ~Waiting[c],
         UNCHANGED <<ap, task, begun, State, ApFunction, Waiting, SingleThread, raced>>
  PROVE  Once'
<1>1. \A c \in Aps : New(c, task[c]) => New(c, task[c])'
  BY DEF NoNewCall, New, MadeFor
<1>2. \A c \in Aps : New(c, ApFunction[c]) => New(c, ApFunction[c])'
  BY DEF NoNewCall, New, MadeFor
<1> QED
  BY <1>1, <1>2 DEF Once, Reading

\* An AP that does nothing any more is made idle, and no call one by one waits for it.
LEMMA OnceIdle ==
  ASSUME TypeOK, Once, NoNewCall, untold' = {}, back' # "scan", NEW a \in Aps,
         ap[a] \notin Works, ~Waiting'[a],
         State' = [State EXCEPT ![a] = "idle"],
         \A c \in Aps : Waiting'[c] => Waiting[c], ~raced' => ~raced,
         UNCHANGED <<ap, task, begun, ApFunction, SingleThread>>, all'.id = all.id
  PROVE  Once'
<1>1. State'[a] = "idle" /\ \A c \in Aps \ {a} : State'[c] = State[c]
  BY DEF TypeOK
<1> SUFFICES ASSUME ~raced' PROVE ~raced => Once'
  BY DEF Once
<1>2. ASSUME ~raced, NEW c \in Aps, State'[c] = "idle" PROVE ap'[c] \notin Works
  BY <1>1, <1>2 DEF Once
<1>3. ASSUME ~raced, NEW c \in Aps, ap'[c] \in {"begin", "lockedBusy"} PROVE New(c, task[c])'
  BY <1>3 DEF Once, NoNewCall, New, MadeFor
<1>4. ASSUME ~raced, NEW c \in Aps, Reading(c)' PROVE New(c, ApFunction[c])'
  BY <1>1, <1>4 DEF Once, NoNewCall, New, MadeFor, Reading
<1>5. ~raced /\ SingleThread =>
        /\ \A c \in Aps : Waiting'[c] /\ State'[c] = "idle" => all.id \notin begun[c]
        /\ \A c, d \in Aps : Waiting'[c] /\ Waiting'[d] /\ c < d => State'[d] = "idle"
  BY <1>1 DEF Once
<1> QED
  BY <1>2, <1>3, <1>4, <1>5 DEF Once

\* WakeUpAP is called for processors that no call one by one waits for.
LEMMA OnceWoken ==
  ASSUME Once, back' # "scan", \A c \in untold' : ~Waiting[c], all'.id = all.id, NoNewCall,
         UNCHANGED <<ap, task, begun, State, ApFunction, Waiting, SingleThread, raced>>
  PROVE  Once'
<1>1. \A c \in Aps : New(c, task[c]) => New(c, task[c])'
  BY DEF NoNewCall, New, MadeFor
<1>2. \A c \in Aps : New(c, ApFunction[c]) => New(c, ApFunction[c])'
  BY DEF NoNewCall, New, MadeFor
<1> QED
  BY <1>1, <1>2 DEF Once, Reading

LEMMA NextOnce ==
  ASSUME ~Overlap, TypeOK, Control, WakeOK, Accounts, Signals, Numbered, Heard, Stopped,
         Exclusive, Attended, Fresh, Once, [Next]_vars
  PROVE  Once'
<1>1. CASE Wake
  BY <1>1, OnceKept DEF Wake, aps, mp, open, wake, NoNewCall
<1>2. CASE GiveFunction
  <2>1. PICK d \in Aps : d \in untold /\ ApFunction' = [ApFunction EXCEPT ![d] = fn]
    BY <1>2, Giving
  <2>2. /\ InWakeUp
        /\ UNCHANGED <<ap, task, begun, State, Waiting, SingleThread, raced, all, this,
                       untold, back>>
    BY <1>2 DEF GiveFunction, aps, mp, open, InWakeUp, WakePcs
  <2> SUFFICES ASSUME ~raced PROVE Once'
    BY <2>2 DEF Once
  <2>3. Reading(d) => New(d, fn)
    <3>1. CASE fn = 0
      BY <3>1 DEF New
    <3>2. CASE back = "scan"
      <4>1. State[d] = "idle" /\ ap[d] \notin Works
        BY <2>1, <3>2 DEF Once
      <4> QED
        BY <4>1 DEF Reading, Works
    <3>3. CASE back = "started"
      BY <2>1, <2>2, <3>3 DEF Fresh, Starting, New
    <3> QED
      BY <2>2, <3>1, <3>2, <3>3 DEF WakeOK
  <2>4. ASSUME NEW c \in Aps, Reading(c)' PROVE New(c, ApFunction[c])'
    <3>1. Reading(c) /\ ((c = d /\ ApFunction'[c] = fn) \/ ApFunction'[c] = ApFunction[c])
      BY <2>1, <2>2, <2>4 DEF TypeOK, Reading
    <3>2. CASE c = d /\ ApFunction'[c] = fn
      BY <2>2, <2>3, <3>1, <3>2 DEF New, MadeFor
    <3>3. CASE ApFunction'[c] = ApFunction[c]
      BY <2>2, <3>1, <3>3 DEF Once, New, MadeFor
    <3> QED
      BY <3>1, <3>2, <3>3
  <2>5. ASSUME NEW c \in Aps, ap'[c] \in {"begin", "lockedBusy"} PROVE New(c, task[c])'
    BY <2>2, <2>5 DEF Once, New, MadeFor
  <2> QED
    BY <2>2, <2>4, <2>5 DEF Once
<1>3. CASE SetReady
  <2> DEFINE d == told
  <2>1. /\ State' = [State EXCEPT ![d] = "ready"] /\ untold' = untold \ {d}
        /\ d \in untold /\ d \in targets /\ d \in Aps /\ ApFunction[d] = fn
    BY <1>3 DEF SetReady, WakeOK, TypeOK
  <2>2. /\ InWakeUp
        /\ UNCHANGED <<ap, task, begun, ApFunction, Waiting, SingleThread, raced, all, this,
                       back>>
    BY <1>3 DEF SetReady, aps, mp, open, InWakeUp, WakePcs
  <2>3. State'[d] = "ready" /\ \A c \in Aps \ {d} : State'[c] = State[c]
    BY <2>1 DEF TypeOK
  <2> HIDE DEF d
  <2> SUFFICES ASSUME ~raced PROVE Once'
    BY <2>2 DEF Once
  <2>4. New(d, fn)
    <3>1. CASE fn = 0
      BY <3>1 DEF New
    <3>2. CASE back = "scan"
      <4>1. State[d] = "idle" /\ SingleThread /\ Waiting[d] /\ fn = all.id
        BY <2>1, <2>2, <3>2 DEF Once, WakeOK
      <4> QED
        BY <2>1, <4>1 DEF Once, New
    <3>3. CASE back = "started"
      BY <2>1, <2>2, <3>3 DEF Fresh, Starting, New
    <3> QED
      BY <2>2, <3>1, <3>2, <3>3 DEF WakeOK
  <2>5. ASSUME NEW c \in Aps, Reading(c)' PROVE New(c, ApFunction[c])'
    <3>1. CASE c = d
      BY <2>1, <2>2, <2>4, <3>1 DEF New, MadeFor
    <3>2. CASE c # d
      BY <2>2, <2>3, <2>5, <3>2 DEF Once, New, MadeFor, Reading
    <3> QED
      BY <3>1, <3>2
  <2>6. ASSUME NEW c \in Aps, ap'[c] \in {"begin", "lockedBusy"} PROVE New(c, task[c])'
    BY <2>2, <2>6 DEF Once, New, MadeFor
  <2>7. \A c \in Aps : State'[c] = "idle" => State[c] = "idle"
    BY <2>3
  <2>8. ASSUME SingleThread, NEW c \in Aps, NEW e \in Aps, Waiting[c], Waiting[e], c < e
        PROVE  State'[e] = "idle"
    <3>1. e # d
      <4>1. c \in Int /\ e \in Int
        BY MpAssumption DEF Aps
      <4>2. e = d => e <= c
        BY <2>1, <2>8 DEF Once
      <4> QED
        BY <2>8, <4>1, <4>2
    <3> QED
      BY <2>3, <2>8, <3>1 DEF Once
  <2>9. \A c \in untold' : c \in untold /\ (State[c] = "idle" => State'[c] = "idle")
    BY <2>1, <2>3 DEF TypeOK
  <2> QED
    BY <2>2, <2>5, <2>6, <2>7, <2>8, <2>9 DEF Once
<1>4. CASE Signal
  BY <1>4, OnceKept DEF Signal, mp, open, NoNewCall
<1>5. CASE SendInitSipiSipi
  BY <1>5, MpAssumption DEF SendInitSipiSipi, Once, TypeOK, mp, open, local, wake, NoRequest,
                            New, MadeFor, Reading, Begins, Executes, Works
<1>6. CASE WaitApWakeup
  BY <1>6, OnceKept DEF WaitApWakeup, aps, mp, open, NoNewCall
<1>7. CASE ResetDone
  <2>1. PICK c \in targets :
          /\ State' = [State EXCEPT ![c] = "idle"] /\ raced' = (raced \/ ap[c] # "loop")
          /\ \/ back = "fail" /\ Waiting' = [Waiting EXCEPT ![c] = FALSE] /\ UNCHANGED this
             \/ /\ back = "timeout" /\ UNCHANGED Waiting
                /\ this' = [this EXCEPT ![c] = NoCall]
             \/ back = "caller" /\ UNCHANGED <<Waiting, this>>
    BY <1>7 DEF ResetDone, EndThis
  <2>2. /\ c \in Aps /\ targets = {c} /\ InWakeUp /\ untold' = {} /\ back' = "caller"
        /\ UNCHANGED <<ap, task, begun, ApFunction, SingleThread, all>>
    BY <1>7, <2>1 DEF ResetDone, aps, TypeOK, WakeOK, InWakeUp, WakePcs
  <2>3. ~Waiting'[c] /\ \A d \in Aps : Waiting'[d] => Waiting[d]
    <3>1. CASE back = "fail"
      BY <2>1, <2>2, <3>1 DEF TypeOK
    <3>2. CASE back = "timeout"
      BY <2>1, <2>2, <3>2 DEF WakeOK, Exclusive
    <3>3. CASE back = "caller"
      BY <2>1, <2>2, <3>3 DEF Exclusive, Engaged
    <3> QED
      BY <2>1, <3>1, <3>2, <3>3
  <2>4. CASE raced'
    BY <2>4 DEF Once
  <2>5. CASE ap[c] = "loop" /\ ~raced
    <3>1. NoNewCall
      BY <2>1, <2>2 DEF NoNewCall, NoCall, TypeOK
    <3>2. ap[c] \notin Works
      BY <2>5 DEF Works, Executes, Begins
    <3>3. all'.id = all.id /\ back' # "scan"
      BY <2>2
    <3> QED
      BY <2>1, <2>2, <2>3, <2>5, <3>1, <3>2, <3>3, OnceIdle
  <2> QED
    BY <2>1, <2>4, <2>5
<1>8. CASE ScanOne
  <2> DEFINE c == First(Rest)
  <2>1. /\ c \in Aps /\ Waiting[c] /\ bsp = "scan"
        /\ UNCHANGED <<ap, task, ApFunction, begun, all, this, SingleThread, raced>>
    BY <1>8, FirstLeast DEF ScanOne, Rest, aps, open
  <2>2. untold = {} /\ back = "caller" /\ NoNewCall
    BY <2>1 DEF WakeOK, InWakeUp, WakePcs, NoNewCall
  <2> SUFFICES ASSUME ~raced PROVE Once'
    BY <2>1 DEF Once
  <2>3. CASE UNCHANGED <<Waiting, State, untold, back>>
    BY <2>1, <2>2, <2>3, OnceKept
  <2>4. CASE /\ State[c] = "finished"
             /\ Waiting' = [Waiting EXCEPT ![c] = FALSE] /\ State' = [State EXCEPT ![c] = "idle"]
    <3>1. ap[c] \notin Works /\ ~Waiting'[c]
          /\ \A d \in Aps : Waiting'[d] => Waiting[d] /\ d # c
      BY <2>1, <2>4 DEF Stopped, TypeOK
    <3>2. CASE UNCHANGED <<untold, back>>
      <4>1. untold' = {} /\ back' # "scan" /\ all'.id = all.id
        BY <2>1, <2>2, <3>2
      <4> QED
        BY <2>1, <2>2, <2>4, <3>1, <4>1, OnceIdle
    <3>3. CASE SingleThread /\ NextWaiting(c) # {}
               /\ CallWakeUpAP({First(NextWaiting(c))}, all.id, "scan")
      <4> DEFINE n == First(NextWaiting(c))
      <4>1. n \in Aps /\ n # c /\ Waiting[n] /\ \A d \in NextWaiting(c) : n <= d
        <5>1. n \in NextWaiting(c) /\ \A d \in NextWaiting(c) : n <= d
          BY <3>3, FirstLeast DEF NextWaiting
        <5> HIDE DEF c, n
        <5> QED
          BY <5>1 DEF NextWaiting
      <4>2. untold' = {n} /\ back' = "scan"
        BY <3>3 DEF CallWakeUpAP
      <4>3. \A d \in Aps : Waiting'[d] => d \in NextWaiting(c)
        BY <3>1 DEF NextWaiting
      <4> HIDE DEF c, n
      <4>4. State[n] = "idle"
        <5>1. c < n
          <6>1. c \in Int /\ n \in Int
            BY <2>1, <4>1, MpAssumption DEF Aps
          <6>2. ~(n < c)
            BY <2>1, <2>4, <3>3, <4>1 DEF Once
          <6> QED
            BY <4>1, <6>1, <6>2
        <5> QED
          BY <2>1, <3>3, <4>1, <5>1 DEF Once
      <4>5. State'[c] = "idle" /\ \A d \in Aps \ {c} : State'[d] = State[d]
        BY <2>1, <2>4 DEF TypeOK
      <4>6. \A d \in Aps : State'[d] = "idle" => ap[d] \notin Works
        BY <3>1, <4>5 DEF Once
      <4>7. ASSUME NEW d \in Aps, Reading(d)' PROVE New(d, ApFunction[d])'
        BY <2>1, <4>5, <4>7 DEF Once, New, MadeFor, Reading
      <4>8. ASSUME NEW d \in Aps, ap'[d] \in {"begin", "lockedBusy"} PROVE New(d, task[d])'
        BY <2>1, <4>8 DEF Once, New, MadeFor
      <4>9. /\ \A d \in Aps : Waiting'[d] /\ State'[d] = "idle" => all.id \notin begun[d]
            /\ \A d, e \in Aps : Waiting'[d] /\ Waiting'[e] /\ d < e => State'[e] = "idle"
        BY <3>1, <3>3, <4>5 DEF Once
      <4>10. \A d \in untold', e \in Aps : Waiting'[d] /\ Waiting'[e] => d <= e
        BY <4>1, <4>2, <4>3
      <4>11. \A d \in untold' : State'[d] = "idle"
        BY <4>1, <4>2, <4>4, <4>5
      <4> QED
        BY <2>1, <3>3, <4>6, <4>7, <4>8, <4>9, <4>10, <4>11 DEF Once
    <3> QED
      BY <1>8, <2>4, <3>2, <3>3 DEF ScanOne
  <2> QED
    BY <1>8, <2>3, <2>4 DEF ScanOne
<1>9. CASE ScanEnd
  <2>1. untold' = {} /\ back' = "caller" /\ bsp = "scan"
    BY <1>9 DEF ScanEnd, WakeOK, InWakeUp, WakePcs, wake
  <2>2. NoNewCall
    BY <1>9 DEF ScanEnd, EndAll, NoNewCall, NoCall
  <2>3. CASE AllFinished
    BY <1>9, <2>1, <2>2, <2>3, NoneWaiting, OnceAfterAll DEF ScanEnd, aps, mp
  <2>4. CASE UNCHANGED all
    BY <1>9, <2>1, <2>2, <2>4, OnceKept DEF ScanEnd, aps, mp
  <2> QED
    BY <1>9, <2>3, <2>4 DEF ScanEnd
<1>10. CASE FailOne
  <2> DEFINE c == First(Unfinished)
  <2>1. c \in Aps /\ \A d \in Unfinished : c <= d
    BY <1>10, FirstLeast DEF FailOne, Unfinished, Rest
  <2>2. /\ untold' = {c} /\ back' = "fail" /\ bsp = "fail"
        /\ UNCHANGED <<ap, task, begun, State, ApFunction, Waiting, SingleThread, raced, all,
                       this>>
    BY <1>10 DEF FailOne, CallReset, CallWakeUpAP, aps, mp, open
  <2>3. \A d \in Aps : Waiting[d] => d \in Unfinished
    BY <2>2 DEF Accounts, Unfinished, Rest
  <2> HIDE DEF c
  <2>4. \A a \in untold', d \in Aps : Waiting'[a] /\ Waiting'[d] => a <= d
    BY <2>1, <2>2, <2>3
  <2> QED
    BY <2>2, <2>4 DEF Once, New, MadeFor, Reading
<1>11. CASE FailEnd
  <2>1. untold' = {} /\ back' = "caller"
    BY <1>11 DEF FailEnd, WakeOK, InWakeUp, WakePcs, wake
  <2>2. NoNewCall
    BY <1>11 DEF FailEnd, EndAll, NoNewCall, NoCall
  <2> QED
    BY <1>11, <2>1, <2>2, NoneLeft, OnceAfterAll DEF FailEnd, aps, mp
<1>12. CASE ThisFinished
  <2>1. index \in Aps /\ ap[index] \notin Works /\ ~Waiting[index]
    BY <1>12 DEF ThisFinished, Control, Stopped, Attended, Exclusive
  <2>2. untold' = {} /\ back' = "caller"
    BY <1>12 DEF ThisFinished, WakeOK, InWakeUp, WakePcs, wake
  <2>3. NoNewCall
    BY <1>12 DEF ThisFinished, EndThis, NoNewCall, NoCall, TypeOK
  <2> QED
    BY <1>12, <2>1, <2>2, <2>3, OnceIdle DEF ThisFinished, aps, mp
<1>13. CASE ThisTimeout
  <2>1. ~Waiting[index] /\ untold' = {index} /\ back' = "timeout"
    BY <1>13 DEF ThisTimeout, Attended, Exclusive, Control, CallReset, CallWakeUpAP
  <2> QED
    BY <1>13, <2>1, OnceWoken DEF ThisTimeout, aps, mp, open, NoNewCall
<1>14. CASE ThisNotReady
  BY <1>14, MpAssumption
     DEF ThisNotReady, Once, TypeOK, Goto, aps, mp, open, wake, NoRequest, New, MadeFor,
         Reading, Begins, Executes, Works
<1>15. CASE UpdateAll
  BY <1>15, MpAssumption DEF UpdateAll, Once, TypeOK, Goto, aps, mp, open, wake, NoRequest,
                             New, MadeFor, Reading, Begins, Executes, Works
<1>16. CASE UpdateThis
  BY <1>16, OnceKept DEF UpdateThis, aps, mp, open, wake, NoNewCall
<1>17. CASE RefuseAll
  BY <1>17, MpAssumption
     DEF RefuseAll, Once, TypeOK, Enabled, Goto, aps, mp, open, wake, NoRequest, New, MadeFor,
         Reading, Begins, Executes, Works
<1>18. CASE StartAll
  <2>1. /\ UNCHANGED <<ap, task, State, ApFunction, begun, raced, this>>
        /\ all'.id = calls /\ SingleThread' = request.single /\ back' = "started"
        /\ untold' = IF request.single THEN FirstOnly(Enabled) ELSE Aps
        /\ Waiting' = [c \in Aps |-> c \in Enabled]
        /\ Enabled # {} /\ Enabled \subseteq Aps /\ AllIdle(Enabled)
    BY <1>18 DEF StartAll, aps, CallWakeUpAP, NewCall, Enabled
  <2>2. Preparing
    BY <1>18 DEF StartAll, Preparing, Control, NoRequest, Starting, InWakeUp, WakePcs
  <2>3. /\ calls \in Nat
        /\ \A d \in Aps : /\ ApFunction[d] \in Int /\ task[d] \in Int /\ begun[d] \subseteq Int
                          /\ ApFunction[d] <= calls - 1 /\ task[d] <= calls - 1
                          /\ \A i \in begun[d] : i <= calls - 1
    BY <2>2 DEF TypeOK, Calls, Heard, LastCall
  <2>4. \A d \in Aps : ApFunction[d] # calls /\ task[d] # calls /\ calls \notin begun[d]
    BY <2>3
  <2>5. \A c \in Aps : Waiting'[c] => c \in Enabled /\ State[c] = "idle"
    BY <2>1 DEF AllIdle
  <2>6. SingleThread' => \A c \in untold', d \in Aps : Waiting'[d] => c <= d
    BY <2>1, <2>5, FirstLeast DEF FirstOnly
  <2>7. \A c \in Aps : New(c, task[c]) => New(c, task[c])'
    BY <2>1, <2>4 DEF New, MadeFor
  <2>8. \A c \in Aps : New(c, ApFunction[c]) => New(c, ApFunction[c])'
    BY <2>1, <2>4 DEF New, MadeFor
  <2> QED
    BY <2>1, <2>4, <2>5, <2>6, <2>7, <2>8 DEF Once, Reading
<1>19. CASE RefuseThis
  BY <1>19, MpAssumption DEF RefuseThis, Once, TypeOK, Goto, aps, mp, open, wake, NoRequest,
                             New, MadeFor, Reading, Begins, Executes, Works
<1>20. CASE StartThis
  <2>1. Preparing /\ request.service = "startThis" /\ apNumber \in Aps
    BY <1>20 DEF StartThis, Preparing, Control, NoRequest, Starting, InWakeUp, WakePcs
  <2>2. ~Waiting[apNumber] /\ untold' = {apNumber} /\ back' = "started"
    BY <1>20, <2>1 DEF StartThis, Exclusive, Engaged, CallWakeUpAP
  <2>3. /\ UNCHANGED <<ap, task, begun, State, ApFunction, Waiting, SingleThread, raced, all>>
        /\ this' = [this EXCEPT ![apNumber] = NewCall({apNumber})]
    BY <1>20 DEF StartThis, aps, mp
  <2>4. /\ calls \in Nat
        /\ \A d \in Aps : /\ ApFunction[d] \in Int /\ task[d] \in Int
                          /\ ApFunction[d] <= calls - 1 /\ task[d] <= calls - 1
    BY <2>1 DEF TypeOK, Calls, Heard, LastCall
  <2>5. \A d \in Aps : ApFunction[d] # calls /\ task[d] # calls
    BY <2>4
  <2>6. \A d \in Aps : this'[d] = this[d] \/ this'[d].id = calls
    BY <2>1, <2>3 DEF TypeOK, NewCall
  <2>7. \A c \in Aps : New(c, task[c]) => New(c, task[c])'
    BY <2>3, <2>5, <2>6 DEF New, MadeFor
  <2>8. \A c \in Aps : New(c, ApFunction[c]) => New(c, ApFunction[c])'
    BY <2>3, <2>5, <2>6 DEF New, MadeFor
  <2> QED
    BY <2>2, <2>3, <2>7, <2>8 DEF Once, Reading
<1>21. CASE Started
  BY <1>21, MpAssumption DEF Started, Once, TypeOK, Goto, aps, mp, open, wake, NoRequest, New,
                             MadeFor, Reading, Begins, Executes, Works
<1>22. CASE CheckApsStatus
  BY <1>22, MpAssumption
     DEF CheckApsStatus, Once, TypeOK, aps, mp, open, local, wake, NoRequest, New, MadeFor,
         Reading, Begins, Executes, Works
<1>23. CASE StartupAllAPs
  BY <1>23, MpAssumption
     DEF StartupAllAPs, Once, TypeOK, Startup, wake, NoRequest, Called, aps, mp, New, MadeFor,
         Reading, Begins, Executes, Works
<1>24. CASE ExpireAll
  BY <1>24, MpAssumption DEF ExpireAll, Once, TypeOK, aps, mp, local, wake, NoRequest, New,
                             MadeFor, Reading, Begins, Executes, Works
<1>25. ASSUME NEW c \in Aps, StartupThisAP(c) PROVE Once'
  BY <1>25, MpAssumption
     DEF StartupThisAP, Once, TypeOK, Startup, wake, NoRequest, Called, aps, mp, New, MadeFor,
         Reading, Begins, Executes, Works
<1>26. ASSUME NEW c \in Aps, DisableAP(c) PROVE Once'
  <2>1. /\ ~Waiting[c] /\ State' = [State EXCEPT ![c] = "disabled"]
        /\ untold = {} /\ back = "caller" /\ UNCHANGED <<untold, back>>
        /\ UNCHANGED <<ap, task, begun, ApFunction, Waiting, SingleThread, raced, all, this>>
    BY <1>26 DEF DisableAP, MayUse, Engaged, Called, aps, mp, wake, WakeOK, InWakeUp, WakePcs
  <2>2. State'[c] = "disabled" /\ \A d \in Aps \ {c} : State'[d] = State[d]
    BY <2>1 DEF TypeOK
  <2>3. ASSUME NEW d \in Aps, Reading(d)' PROVE Reading(d)
    BY <2>1, <2>2, <2>3 DEF Reading
  <2>4. \A d \in Aps : New(d, task[d]) => New(d, task[d])'
    BY <2>1 DEF New, MadeFor
  <2>5. \A d \in Aps : New(d, ApFunction[d]) => New(d, ApFunction[d])'
    BY <2>1 DEF New, MadeFor
  <2> QED
    BY <2>1, <2>2, <2>3, <2>4, <2>5 DEF Once
<1>27. ASSUME NEW c \in Aps, EnableAP(c) PROVE Once'
  <2>1. ~Waiting[c] /\ untold' = {c} /\ back' = "caller"
    BY <1>27 DEF EnableAP, MayUse, Engaged, CallReset, CallWakeUpAP
  <2> QED
    BY <1>27, <2>1, OnceWoken DEF EnableAP, aps, mp, NoNewCall
<1>28. ASSUME NEW c \in Aps, ClearSignal(c) PROVE Once'
  BY <1>28, MpAssumption DEF ClearSignal, Once, TypeOK, mp, open, local, wake, NoRequest, New,
                             MadeFor, Reading, Begins, Executes, Works
<1>29. ASSUME NEW c \in Aps, ReadState(c) PROVE Once'
  BY <1>29, MpAssumption
     DEF ReadState, Once, TypeOK, IsReady, mp, open, local, wake, NoRequest, New, MadeFor,
         Reading, Begins, Executes, Works
<1>30. ASSUME NEW c \in Aps, ReadFunction(c) PROVE Once'
  BY <1>30, MpAssumption DEF ReadFunction, Once, TypeOK, mp, open, local, wake, NoRequest, New,
                             MadeFor, Reading, Begins, Executes, Works
<1>31. ASSUME NEW c \in Aps, AcquireApLock(c) PROVE Once'
  BY <1>31, MpAssumption DEF AcquireApLock, Once, TypeOK, mp, open, local, wake, NoRequest,
                             New, MadeFor, Reading, Begins, Executes, Works
<1>32. ASSUME NEW c \in Aps, WriteState(c) PROVE Once'
  BY <1>32, MpAssumption DEF WriteState, Once, TypeOK, mp, open, local, wake, NoRequest, New,
                             MadeFor, Reading, Begins, Executes, Works
<1>33. ASSUME NEW c \in Aps, BeginProcedure(c) PROVE Once'
  BY <1>33, MpAssumption DEF BeginProcedure, Once, TypeOK, mp, open, local, wake, NoRequest,
                             New, MadeFor, Reading, Begins, Executes, Works
<1>34. ASSUME NEW c \in Aps, EndProcedure(c) PROVE Once'
  BY <1>34, MpAssumption DEF EndProcedure, Once, TypeOK, mp, open, local, wake, NoRequest, New,
                             MadeFor, Reading, Begins, Executes, Works
<1>35. ASSUME NEW c \in Aps, Finish(c) PROVE Once'
  BY <1>35, MpAssumption DEF Finish, Once, TypeOK, mp, open, local, wake, NoRequest, New,
                             MadeFor, Reading, Begins, Executes, Works
<1>36. ASSUME NEW c \in Aps, Count(c) PROVE Once'
  BY <1>36, MpAssumption DEF Count, Once, TypeOK, mp, open, local, wake, NoRequest, New,
                             MadeFor, Reading, Begins, Executes, Works
<1>37. ASSUME NEW c \in Aps, ExpireThis(c) PROVE Once'
  BY <1>37, MpAssumption DEF ExpireThis, Once, TypeOK, aps, mp, local, wake, NoRequest, New,
                             MadeFor, Reading, Begins, Executes, Works
<1>38. CASE UNCHANGED vars
  BY <1>38, MpAssumption DEF vars, Once, TypeOK, aps, mp, open, local, wake, NoRequest, New,
                             MadeFor, Reading, Begins, Executes, Works
<1> QED
  BY <1>1, <1>2, <1>3, <1>4, <1>5, <1>6, <1>7, <1>8, <1>9, <1>10, <1>11, <1>12, <1>13,
     <1>14, <1>15, <1>16, <1>17, <1>18, <1>19, <1>20, <1>21, <1>22, <1>23, <1>24, <1>25,
     <1>26, <1>27, <1>28, <1>29, <1>30, <1>31, <1>32, <1>33, <1>34, <1>35, <1>36, <1>37,
     <1>38
     DEF Next, Bsp, ApLoop, Expire

\* What holds in every state where the callers leave an AP alone while a call uses it.
SharedInv ==
  /\ SafeInv /\ Exclusive /\ Attended
  /\ Runners /\ Counted /\ Ordered
  /\ SuccessMeansDone /\ Fresh /\ Once

LEMMA InitShared == Init => SharedInv
<1> SUFFICES ASSUME Init PROVE SharedInv
  OBVIOUS
<1>1. SafeInv
  BY InitSafe
<1>2. Exclusive /\ Attended
  BY DEF Init, Exclusive, Attended, Engaged, Preparing, Starting, InWakeUp, WakePcs, NoCall,
     NoRequest
<1>3. Runners /\ Counted
  BY DEF Init, Runners, Owed, Counted, NoCall
<1>4. Ordered /\ SuccessMeansDone
  BY DEF Init, Ordered, SuccessMeansDone, NoCall
<1>5. Fresh /\ Once
  BY DEF Init, Fresh, Once, New, Reading, Begins, Executes, Works
<1> QED
  BY <1>1, <1>2, <1>3, <1>4, <1>5 DEF SharedInv

LEMMA NextShared == ~Overlap /\ SharedInv /\ [Next]_vars => SharedInv'
<1> SUFFICES ASSUME ~Overlap, SharedInv, [Next]_vars PROVE SharedInv'
  OBVIOUS
<1>1. /\ SafeInv /\ Exclusive /\ Attended /\ Runners /\ Counted /\ Ordered
      /\ SuccessMeansDone /\ Fresh /\ Once
  BY DEF SharedInv
<1>2. /\ TypeOK /\ Control /\ WakeOK /\ Accounts
      /\ Signals /\ Numbered /\ Heard /\ Stopped
  BY <1>1 DEF SafeInv
<1>3. SafeInv'
  BY <1>1, NextSafe
<1>4. Exclusive' /\ Attended'
  BY <1>1, <1>2, NextExclusive, NextAttended
<1>5. Runners' /\ Counted'
  BY <1>1, <1>2, NextRunners, NextCounted
<1>6. Ordered'
  BY <1>1, <1>2, <1>5, NextOrdered
<1>7. SuccessMeansDone' /\ Fresh' /\ Once'
  BY <1>1, <1>2, NextSuccessMeansDone, NextFresh, NextOnce
<1> QED
  BY <1>3, <1>4, <1>5, <1>6, <1>7 DEF SharedInv

\* The invariant of StartupAllAPs, StartupThisAP and EnableDisableAP, for callers
\* that do not start, disable or enable an AP which another call is using.
THEOREM AlwaysShared ==
  ASSUME ~Overlap
  PROVE  Spec => []SharedInv
BY InitShared, NextShared, PTL DEF Spec

\* A call that ends with EFI_SUCCESS, or signals its event before its timeout, has
\* been carried out: every AP that sat in its loop when the call was made has
\* returned from the procedure, whatever resets other APs went through.
THEOREM SuccessIsDone ==
  ASSUME ~Overlap
  PROVE  Spec => []SuccessMeansDone
<1>1. SharedInv => SuccessMeansDone
  BY DEF SharedInv
<1> QED
  BY <1>1, AlwaysShared, PTL

\* SingleThread: of any two APs of the StartupAllAPs call in progress, the second
\* begins the procedure when the first has returned (DxeMpLib.c:412).
THEOREM OneByOne ==
  ASSUME ~Overlap
  PROVE  Spec => []InOrder
<1>1. SharedInv => InOrder
  BY DEF SharedInv, Ordered, GivenTo, InOrder, Reading, Begins
<1> QED
  BY <1>1, AlwaysShared, PTL

\* As long as no reset has returned before its AP was back in the loop, an AP begins
\* the procedure of a call that was made for it once: neither a start-up signal left
\* over, nor the INIT-SIPI-SIPI broadcast, nor a reset makes it begin again.
THEOREM RunOnce ==
  ASSUME ~Overlap
  PROVE  Spec => OncePerCall
<1>1. SharedInv => [~raced => \A c \in Aps : ap[c] = "lockedBusy" /\ ap'[c] = "setBusy" =>
        task[c] # 0 /\ (MadeFor(c, task[c]) => task[c] \notin begun[c])]_vars
  BY DEF SharedInv, SafeInv, Stopped, Once, Begins, Executes, New
<1> QED
  BY <1>1, AlwaysShared, PTL DEF OncePerCall

=============================================================================
