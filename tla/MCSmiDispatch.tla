--------------------------- MODULE MCSmiDispatch ---------------------------
(***************************************************************************)
(* Values of SmiDispatch's constants for TLC: the source descriptions of   *)
(* the code, by the names of their bits.                                   *)
(***************************************************************************)
EXTENDS SmiDispatch

AllEn ==
  [sw       |-> {"APMC"},              \* mSwSourceDesc
   sx       |-> {"ON_SLP_EN"},         \* mSxSourceDesc
   mc       |-> {"MCSMI"},             \* mSrcDescMcSmi
   dmi      |-> {"TCO"},               \* mSrcDescMch
   timeout  |-> {"TCO"},               \* mSrcDescTcoTimeout
   intruder |-> {"TCO", "INTRD_SEL"},  \* mSrcDescIntruderDet
   century  |-> {"TCO"},               \* mSrcDescNewCentury
   button   |-> {"PWRBTN"},            \* mPowerButtonSourceDesc
   alarm    |-> {"RTC"},               \* mSrcDescRtcAlarm
   override |-> {},                    \* PRBTNOR, which has no enable bit
   wadt     |-> {}]                    \* the wake-alarm timer, enabled elsewhere

AllTop ==
  [sw |-> "APM", sx |-> "ON_SLP_EN", mc |-> "MCSMI",
   dmi |-> "TCO", timeout |-> "TCO", intruder |-> "TCO", century |-> "TCO",
   button |-> "PM1", alarm |-> "PM1", override |-> "PM1", wadt |-> "GPE0"]

MCEn  == [s \in Source |-> AllEn[s]]
MCTop == [s \in Source |-> AllTop[s]]
MCSts == [s \in Source |-> s]
MCEnBit  == UNION {AllEn[s] : s \in Source}
MCTopBit == {AllTop[s] : s \in Source}

MCSciDependent == Source \cap {"button", "alarm", "override", "wadt"}
MCContextual   == Source \cap {"sx", "button"}
MCCustomClear  == Source \cap {"dmi", "timeout", "intruder", "century"}
MCCpuRaised    == Source \cap {"sw", "sx"}

\* ClearPendingSmiStatus: NEWCENTURY if SMI_STS showed TCO, PRBTNOR always,
\* WADT unless SCI_EN.
AllHouse == [century |-> "topSeen", override |-> "always", wadt |-> "noSci"]
MCHouse  == [b \in Source \cap DOMAIN AllHouse |-> AllHouse[b]]

Symmetry == Permutations(Rec \ {SwRec})
=============================================================================
