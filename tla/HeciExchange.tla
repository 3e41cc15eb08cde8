------------------------------ MODULE HeciExchange -----------------------------
(***************************************************************************)
(* Commands to the management engine (ME) over the host embedded           *)
(* controller interface, Me/Library/Private/PeiDxeHeciInitLib/HeciCore.c:  *)
(* HeciSendwAckWithRetry and HeciSendwAck with everything they call, and   *)
(* the ME, which is external.                                              *)
(*                                                                         *)
(* Each direction has a circular buffer of dwords whose 8-bit pointers     *)
(* both sides see. A message is cut into packets, each with a header       *)
(* dword. The ME answers when it likes or not at all, and may reset the    *)
(* interface; the host polls with timeouts, resets and tries again.        *)
(* A step of the host ends at a register the ME may change.                *)
(***************************************************************************)
EXTENDS Naturals, Sequences, FiniteSets

CONSTANTS
  Commands,                \* kinds of messages
  ReqLength, AckLength,    \* bytes of a command's request and of its answer
  RecLengths,              \* RecLength, the sizes of the buffers for its answer
  Services,                \* which of "retry" (HeciSendwAckWithRetry), "plain"
  RetryEnabled,            \* MeHeciRetryEnabled
  TimeoutsEnabled,         \* MeHeciTimeoutsEnabled
  HECI_MAX_RETRY,
  Depth,                   \* H_CBD and ME_CBD, the dwords of a buffer
  PtrMod,                  \* the pointers count modulo 2^8
  MaxCalls, MaxResets      \* bounds: calls, resets that the ME starts

ASSUME HeciAssumption ==
  /\ ReqLength \in [Commands -> Nat \ {0}]
  /\ AckLength \in [Commands -> Nat]
  /\ RecLengths \in [Commands -> SUBSET Nat]
  /\ Services \subseteq {"retry", "plain"}
  /\ RetryEnabled \in BOOLEAN /\ TimeoutsEnabled \in BOOLEAN
  /\ HECI_MAX_RETRY \in Nat \ {0}
  /\ Depth \in Nat /\ Depth > 1
  /\ PtrMod \in Nat /\ PtrMod > Depth
  /\ MaxCalls \in Nat /\ MaxResets \in Nat

VARIABLES
  \* the registers
  hRdy, hRst, hIs,         \* H_CSR
  meRdy, meRst,            \* ME_CSR_HA
  resetSeen,               \* the ME has acted on H_RST
  toMe, toHost,            \* contents of the circular buffers
  hWp, hRp, meWp, meRp,    \* H_CBWP, H_CBRP, ME_CBWP_HRA, ME_CBRP_HRA
  \* the host
  pc,                      \* where it is
  fn,                      \* whether in HeciSend or in HeciReceive
  waitRet,                 \* where WaitForMEReady returns to
  resetRet,                \* where ResetHeciInterface returns to
  call,                    \* the call in progress: service, RecLength
  retries,                 \* RetryCount, counted down
  current,                 \* CurrentLength in HeciSend, TotalLength in HeciReceive
  header,                  \* MessageHeader, PacketHeader
  status,
  answer,                  \* whose dwords HeciReceive has read
  message,                 \* whose dwords the caller's Message buffer holds
  \* the ME
  partial,                 \* packets it has of a message: whose dwords, bytes
  job,                     \* request it performs
  out,                     \* dwords of an answer it has still to write
  \* history and bounds
  command,                 \* the commands called so far; a message is named
                           \* after the number of its call
  performed,               \* how often the ME has performed the last of them
  spoilt,                  \* what may spoil the command in progress
  result, resets

registers == <<hRdy, hRst, hIs, meRdy, meRst, resetSeen>>
pointers == <<hWp, hRp, meWp, meRp>>
buffers == <<toMe, toHost, pointers>>
me == <<partial, job, out>>
history == <<command, performed, spoilt, result, resets>>
host == <<pc, fn, waitRet, resetRet, call, retries, current, header, status,
          answer, message>>
vars == <<registers, buffers, host, me, history>>

Least(a, b) == IF a < b THEN a ELSE b
Garbage == 0
NoJob == [id |-> Garbage, live |-> FALSE]
NoCall == [service |-> "none", recLength |-> 0]
Nothing == [ids |-> {}, bytes |-> 0]
Ids == 0 .. MaxCalls
This == Len(command)     \* the call in progress

\* A dword of a buffer: a packet header, or four bytes of the message id.
Header(id, n, last) == [header |-> TRUE, id |-> id, length |-> n, complete |-> last]
Body(id) == [header |-> FALSE, id |-> id, length |-> 0, complete |-> FALSE]
NoHeader == Header(Garbage, 0, FALSE)

Dwords(bytes) == (bytes + 3) \div 4
Packet(h) == <<h>> \o [i \in 1 .. Dwords(h.length) |-> Body(h.id)]

Most == (Depth - 1) * 4   \* bytes of a packet that fills the buffer

FilledSlots(rp, wp) == (wp + PtrMod - rp) % PtrMod

\* The host takes the dword it reads for a header: it is one, or four bytes
\* of a message, which may look like any header.
AsHeader(slot) ==
  IF slot.header THEN {slot}
  ELSE {Header(Garbage, n, last) : n \in {0, 4, 4 * Depth}, last \in BOOLEAN}

-------------------------------------------------------------------------------
(* Control of the host.                                                      *)

Goto(l) == pc' = l

\* A timeout may expire at any time, if there is one.
Expires == TimeoutsEnabled

\* A call of HeciSend or HeciReceive has failed, or the last one succeeded.
AttemptEnds(s) == status' = s /\ pc' = "attempt"

\* WaitForMEReady returns, with or without an error.
AfterWait(ok) ==
  IF waitRet = "init"
  THEN IF ok THEN Goto("setRdy") /\ UNCHANGED status ELSE AttemptEnds("deviceError")
  ELSE IF ok
       THEN /\ Goto(IF waitRet = "write" THEN "room" ELSE IF fn = "send" THEN "packet" ELSE "read")
            /\ UNCHANGED status
       ELSE AttemptEnds("timeout")

WaitFrom(l) == pc' = "waitMe" /\ waitRet' = l

MutantOneMore(service) == HECI_MAX_RETRY + 1

RetryCount(service) ==
  IF service = "retry" /\ ~RetryEnabled THEN 1 ELSE HECI_MAX_RETRY

\* A client calls HeciSendwAckWithRetry or HeciSendwAck, and HeciSend is begun.
Call ==
  /\ pc = "idle"
  /\ Len(command) < MaxCalls
  /\ \E c \in Commands, s \in Services :
       /\ command' = Append(command, c)
       /\ \E n \in RecLengths[c] : call' = [service |-> s, recLength |-> n]
       /\ retries' = RetryCount(s)
  /\ message' = Len(command')
  /\ Goto("begin")
  /\ fn' = "send"
  /\ current' = 0
  /\ answer' = {}
  /\ performed' = 0
  /\ spoilt' = spoilt \cap {"stale"}
  /\ UNCHANGED <<registers, buffers, me, waitRet, resetRet, header, status, result,
                 resets>>

\* CheckForHeciReset at the head of HeciSend and HeciReceive.
CheckForHeciReset ==
  /\ pc = "begin"
  /\ IF ~meRdy \/ ~hRdy
     THEN Goto("initialize") /\ UNCHANGED waitRet
     ELSE WaitFrom("call")
  /\ UNCHANGED <<registers, buffers, me, history, fn, resetRet, call, retries,
                 current, header, status, answer, message>>

\* HeciInitialize does nothing to an interface the host has marked ready.
HeciInitialize ==
  /\ pc = "initialize"
  /\ WaitFrom(IF hRdy THEN "call" ELSE "init")
  /\ UNCHANGED <<registers, buffers, me, history, fn, resetRet, call, retries,
                 current, header, status, answer, message>>

SetHostReady ==
  /\ pc = "setRdy"
  /\ hRdy' = TRUE
  /\ hRst' = (hRst /\ hRdy)
  /\ resetSeen' = (resetSeen /\ hRst')
  /\ WaitFrom("call")
  /\ UNCHANGED <<hIs, meRdy, meRst, buffers, me, history, fn, resetRet, call, retries,
                 current, header, status, answer, message>>

\* WaitForMEReady, one round of its loop.
WaitForMEReady ==
  /\ pc = "waitMe"
  /\ \/ /\ meRst
        /\ Goto("assertReset")
        /\ resetRet' = "wait"
        /\ UNCHANGED status
     \/ /\ ~meRst /\ meRdy
        /\ AfterWait(TRUE)
        /\ UNCHANGED resetRet
     \/ /\ ~meRst /\ ~meRdy     \* 15 seconds, with or without MeHeciTimeoutsEnabled
        /\ AfterWait(FALSE)
        /\ UNCHANGED resetRet
  /\ UNCHANGED <<registers, buffers, me, history, fn, waitRet, call, retries,
                 current, header, answer, message>>

-------------------------------------------------------------------------------
(* HeciSend                                                                  *)

\* MessageComplete is decided once more for every packet and never taken back.
MutantForgetsHeader(rest) == Dwords(rest) <= Depth

LastPacket(rest) ==
  \/ Dwords(rest) < Depth
  \/ Dwords(rest) = Depth /\ (rest + 3) % 4 = 0

SendLength(rest) == IF Depth <= Dwords(rest) THEN Most ELSE rest

Rest == ReqLength[command[This]] - current

\* One byte more than a packet holds: LastPacket's second disjunct takes the packet
\* before the last for the last, so that the ME gets two messages for one and the
\* second is left over.
OneByteOver == Rest = Most + 1

NextPacket ==
  /\ pc = "packet"
  /\ IF Rest > 0
     THEN /\ header' = Header(message, SendLength(Rest),
                              (current > 0 /\ header.complete) \/ LastPacket(Rest))
          /\ WaitFrom("write")
          /\ spoilt' = spoilt \cup (IF OneByteOver THEN {"cut", "stale"} ELSE {})
          /\ UNCHANGED <<fn, current, answer>>
     ELSE /\ fn' = "receive"
          /\ current' = 0
          /\ answer' = {}
          /\ Goto("begin")
          /\ UNCHANGED <<header, waitRet, spoilt>>
  /\ UNCHANGED <<registers, buffers, me, resetRet, call, retries, status, message, command,
                 performed, result, resets>>

\* HeciPacketWrite waits for room for the header and the body.
MutantEmptyBuffer(h) == Dwords(h.length) + 1 <= Depth

HasRoom(h) == Dwords(h.length) + 1 <= Depth - FilledSlots(hRp, hWp)

HeciPacketWrite ==
  /\ pc = "room"
  /\ \/ /\ HasRoom(header)
        /\ toMe' = toMe \o Packet(header)
        /\ hWp' = (hWp + Len(Packet(header))) % PtrMod
        /\ Goto("written")
        /\ UNCHANGED status
     \/ /\ ~HasRoom(header) /\ Expires
        /\ AttemptEnds("timeout")
        /\ UNCHANGED <<toMe, hWp>>
  /\ UNCHANGED <<registers, toHost, hRp, meWp, meRp, me, history, fn, waitRet, resetRet,
                 call, retries, current, header, answer, message>>

\* An ME that is not ready by now has been reset while the packet was written.
PacketWritten ==
  /\ pc = "written"
  /\ IF meRdy
     THEN /\ current' = current + header.length
          /\ Goto("packet")
          /\ UNCHANGED status
     ELSE AttemptEnds("deviceError") /\ UNCHANGED current
  /\ UNCHANGED <<registers, buffers, me, history, fn, waitRet, resetRet, call, retries,
                 header, answer, message>>

-------------------------------------------------------------------------------
(* HeciReceive                                                               *)

\* PacketBuffer: the space left in the caller's buffer.
Space == IF current < call.recLength THEN call.recLength - current ELSE 0

\* HeciPacketRead up to the header. A packet of no bytes is returned at once:
\* a message of no bytes if it is the first and the last, else an error.
ReadHeader ==
  /\ pc = "read"
  /\ \/ /\ FilledSlots(meRp, meWp) > 0
        /\ \E h \in AsHeader(Head(toHost)) :
             /\ header' = h
             /\ CASE h.length = 0 ->
                       /\ AttemptEnds(IF current = 0 /\ h.complete THEN "success" ELSE "noResponse")
                       /\ answer' = answer \cup {h.id}
                  [] h.length + 4 > Depth * 4 ->
                       AttemptEnds("deviceError") /\ UNCHANGED answer
                  [] OTHER -> Goto("body") /\ UNCHANGED <<status, answer>>
        /\ toHost' = Tail(toHost)
        /\ meRp' = (meRp + 1) % PtrMod
     \/ /\ Expires
        /\ AttemptEnds("timeout")
        /\ UNCHANGED <<toHost, meRp, header, answer>>
  /\ UNCHANGED <<registers, toMe, hWp, hRp, meWp, me, history, fn, waitRet, resetRet,
                 call, retries, current, message>>

MutantAnyDword(h) == FilledSlots(meRp, meWp) > 0

\* The inner loop waits for the whole packet.
HasBody(h) == Dwords(h.length) <= FilledSlots(meRp, meWp)

WaitForBody ==
  /\ pc = "body"
  /\ \/ /\ HasBody(header)
        /\ Goto("copy")
        /\ UNCHANGED status
     \/ /\ ~HasBody(header) /\ Expires
        /\ AttemptEnds("timeout")
  /\ UNCHANGED <<registers, buffers, me, history, fn, waitRet, resetRet, call, retries,
                 current, header, answer, message>>

\* The dwords are read and copied, over the request, as far as there is space.
\* After a reset the registers return something else.
CopyBody ==
  /\ pc = "copy"
  /\ LET n == Least(Dwords(header.length), Len(toHost))
     IN /\ answer' = answer \cup {toHost[i].id : i \in 1 .. n}
                            \cup (IF n < Dwords(header.length) THEN {Garbage} ELSE {})
        /\ toHost' = SubSeq(toHost, n + 1, Len(toHost))
        /\ meRp' = (meRp + n) % PtrMod
  /\ message' = IF Space > 0 THEN Garbage ELSE message
  /\ Goto("copied")
  /\ UNCHANGED <<registers, toMe, hWp, hRp, meWp, me, history, fn, waitRet, resetRet,
                 call, retries, current, header, status>>

\* An ME that is not ready by now has been reset while the packet was read. To
\* a caller without a buffer a message in one packet is one of no bytes.
PacketRead ==
  /\ pc = "copied"
  /\ IF ~meRdy
     THEN AttemptEnds("deviceError") /\ UNCHANGED current
     ELSE IF header.complete /\ current = 0 /\ Space = 0
     THEN AttemptEnds("success") /\ UNCHANGED current
     ELSE /\ current' = current + header.length
          /\ IF header.complete
             THEN AttemptEnds(IF header.length <= Space THEN "success" ELSE "tooSmall")
             ELSE Goto("read") /\ UNCHANGED status
  /\ UNCHANGED <<registers, buffers, me, history, fn, waitRet, resetRet, call, retries,
                 header, answer, message>>

-------------------------------------------------------------------------------
(* Retries.                                                                  *)

\* A call that returns an error, and HeciSendwAck when it tries again, may leave
\* a request, an answer or part of one behind.
Leftover == spoilt \cup (IF status \in {"success", "tooSmall"} THEN {} ELSE {"stale"})

Return(s) ==
  /\ Goto("idle")
  /\ result' = [status |-> s, answer |-> answer]
  /\ UNCHANGED <<fn, current, answer>>

\* HeciSend is called once more with the caller's buffer as it is.
SendAgain(before) ==
  /\ Goto("begin")
  /\ fn' = "send"
  /\ current' = 0
  /\ answer' = {}
  /\ spoilt' = before \cup (IF message = This THEN {} ELSE {"clobbered"})
  /\ UNCHANGED result

Final ==
  \/ status = "success"
  \/ call.service = "retry" /\ status \in {"tooSmall", "deviceError"}
  \/ call.service = "plain" /\ fn = "send"

\* HeciSendwAckWithRetry resets the interface before it tries again.
MutantNoReset(service) == FALSE

ResetsBetween(service) == service = "retry"

EndAttempt ==
  /\ pc = "attempt"
  /\ IF Final
     THEN /\ Return(status)
          /\ spoilt' = Leftover
          /\ UNCHANGED <<retries, resetRet>>
     ELSE /\ retries' = retries - 1
          /\ \/ /\ retries' = 0
                /\ Return(status)
                /\ spoilt' = Leftover
                /\ UNCHANGED resetRet
             \/ /\ retries' > 0 /\ ResetsBetween(call.service)
                /\ Goto("assertReset")
                /\ resetRet' = "retry"
                /\ UNCHANGED <<fn, current, answer, result, spoilt>>
             \/ /\ retries' > 0 /\ ~ResetsBetween(call.service)
                /\ SendAgain(IF call.service = "plain" THEN Leftover ELSE spoilt)
                /\ UNCHANGED resetRet
  /\ UNCHANGED <<registers, buffers, me, waitRet, call, header, status, message,
                 command, performed, resets>>

-------------------------------------------------------------------------------
(* ResetHeciInterface                                                        *)

\* If a reset that has timed out has left H_RST set, nothing is reset now.
AssertReset ==
  /\ pc = "assertReset"
  /\ hRst' = TRUE
  /\ spoilt' = spoilt \cup (IF hRst THEN {"stale"} ELSE {})
  /\ Goto("resetStarted")
  /\ UNCHANGED <<hRdy, hIs, meRdy, meRst, resetSeen, buffers, me, fn, waitRet,
                 resetRet, call, retries, current, header, status, answer, message, command,
                 performed, result, resets>>

\* Each of the three waits has a timeout that MeHeciTimeoutsEnabled has no say in.
ResetTimesOut ==
  /\ pc \in {"resetStarted", "meReady", "isSignalled"}
  /\ IF resetRet = "wait"
     THEN AfterWait(FALSE) /\ UNCHANGED <<fn, current, answer, result, spoilt>>
     ELSE /\ Return("timeout")
          /\ spoilt' = spoilt \cup {"stale"}
          /\ UNCHANGED status
  /\ UNCHANGED <<registers, buffers, me, waitRet, resetRet, call, retries, header,
                 message, command, performed, resets>>

ResetAdvances ==
  /\ \/ pc = "resetStarted" /\ ~hRdy /\ Goto("meReady")
     \/ pc = "meReady" /\ meRdy /\ Goto("isSignalled")
     \/ pc = "isSignalled" /\ hIs /\ Goto("enableHost")
  /\ UNCHANGED <<registers, buffers, me, history, fn, waitRet, resetRet, call, retries,
                 current, header, status, answer, message>>

ResetEnds ==
  /\ pc = "enableHost"
  /\ hRdy' = TRUE /\ hRst' = FALSE /\ hIs' = FALSE /\ resetSeen' = FALSE
  /\ IF resetRet = "wait"
     THEN AfterWait(TRUE) /\ UNCHANGED <<fn, current, answer, result, spoilt>>
     ELSE SendAgain(spoilt) /\ UNCHANGED status
  /\ UNCHANGED <<meRdy, meRst, buffers, me, waitRet, resetRet, call, retries, header,
                 message, command, performed, resets>>

-------------------------------------------------------------------------------
(* The ME and the interface (external).                                      *)

Clear ==
  /\ toMe' = <<>> /\ toHost' = <<>>
  /\ hWp' = 0 /\ hRp' = 0 /\ meWp' = 0 /\ meRp' = 0

\* A request of which packets have been sent and packets have still to be sent.
Torn ==
  /\ fn = "send" /\ pc # "idle" /\ pc # "attempt"
  /\ ~(pc \in {"assertReset", "resetStarted", "meReady", "isSignalled", "enableHost"}
       /\ resetRet = "retry")
  /\ current > 0 \/ pc = "written"
  /\ Rest > 0

\* An answer of which something has been read already.
Begun == fn = "receive" /\ (answer # {} \/ pc \in {"body", "copy"})

\* A request in two messages, of which the host still sends what it has not sent.
Cutting == "cut" \in spoilt /\ pc # "idle"

\* Whatever was on its way is lost.
Flush ==
  /\ Clear
  /\ partial' = Nothing /\ job' = NoJob /\ out' = <<>>
  /\ spoilt' = (IF Begun \/ Cutting THEN spoilt ELSE spoilt \ {"stale"})
               \cup (IF Torn THEN {"torn"} ELSE {})
  /\ meRdy' = FALSE /\ hRdy' = FALSE

\* The ME resets the interface and asks the host to do so.
MeResets ==
  /\ meRdy
  /\ resets < MaxResets
  /\ resets' = resets + 1
  /\ Flush
  /\ meRst' = TRUE
  /\ UNCHANGED <<hRst, hIs, resetSeen, host, command, performed, result>>

\* The ME acts on H_RST.
MeSeesReset ==
  /\ hRst /\ ~resetSeen
  /\ resetSeen' = TRUE
  /\ Flush
  /\ meRst' = FALSE
  /\ UNCHANGED <<hRst, hIs, host, command, performed, result, resets>>

\* It is ready at power-on and after a reset, which takes longer than the host
\* takes from a packet to the look at ME_RDY after it.
MeReady ==
  /\ ~meRdy /\ ~meRst
  /\ hRst => resetSeen
  /\ pc \notin {"copy", "copied", "written"}
  /\ meRdy' = TRUE /\ hIs' = TRUE
  /\ Clear
  /\ UNCHANGED <<hRdy, hRst, meRst, resetSeen, me, host, history>>

\* It takes a packet, and has a request with the last packet of a message.
MeTakes ==
  /\ meRdy /\ hRdy
  /\ ~job.live /\ out = <<>>
  /\ toMe # <<>>
  /\ LET h == Head(toMe)
         n == Dwords(h.length)
         got == [ids |-> partial.ids \cup {toMe[i].id : i \in 1 .. n + 1},
                 bytes |-> partial.bytes + h.length]
         intact(i) == got.ids = {i} /\ got.bytes = ReqLength[command[i]]
     IN /\ toMe' = SubSeq(toMe, n + 2, Len(toMe))
        /\ hRp' = (hRp + n + 1) % PtrMod
        /\ IF h.complete
           THEN /\ job' = [id |-> IF \E i \in 1 .. This : intact(i)
                                  THEN CHOOSE i \in got.ids : TRUE ELSE Garbage,
                           live |-> TRUE]
                /\ partial' = Nothing
           ELSE partial' = got /\ UNCHANGED job
  /\ UNCHANGED <<registers, toHost, hWp, meWp, meRp, out, host, history>>

\* A message of n bytes in packets that fill the buffer, but for the last; what
\* is left of it before packet k, counted from 0.
Left(n, k) == IF k * Most < n THEN n - k * Most ELSE 0
Packets(n) == IF n = 0 THEN 1 ELSE (n + Most - 1) \div Most
Stream(id, n) ==
  [i \in 1 .. Dwords(n) + Packets(n) |->
     LET left == Left(n, (i - 1) \div Depth)
     IN IF (i - 1) % Depth = 0 THEN Header(id, Least(left, Most), left <= Most)
                               ELSE Body(id)]

AnswerTo(id) == Stream(id, IF id = Garbage THEN 4 ELSE AckLength[command[id]])

\* It performs the request and has an answer to write; one it does not know is
\* answered with an error.
MePerforms ==
  /\ job.live
  /\ out' = AnswerTo(job.id)
  /\ performed' = IF job.id = This THEN performed + 1 ELSE performed
  /\ job' = NoJob
  /\ UNCHANGED <<registers, buffers, partial, host, command, spoilt, result, resets>>

\* It never answers.
MeIgnores ==
  /\ job.live
  /\ job' = NoJob
  /\ UNCHANGED <<registers, buffers, partial, out, host, history>>

MeWrites ==
  /\ meRdy /\ hRdy
  /\ out # <<>> /\ Len(toHost) < Depth
  /\ toHost' = Append(toHost, Head(out))
  /\ meWp' = (meWp + 1) % PtrMod
  /\ out' = Tail(out)
  /\ UNCHANGED <<registers, toMe, hWp, hRp, meRp, partial, job, host, history>>

-------------------------------------------------------------------------------
Init ==
  /\ hRdy = FALSE /\ hRst = FALSE /\ hIs = FALSE
  /\ meRdy = FALSE /\ meRst = FALSE /\ resetSeen = FALSE
  /\ toMe = <<>> /\ toHost = <<>>
  /\ hWp = 0 /\ hRp = 0 /\ meWp = 0 /\ meRp = 0
  /\ pc = "idle" /\ fn = "send" /\ waitRet = "call" /\ resetRet = "wait"
  /\ call = NoCall
  /\ retries = 0 /\ current = 0 /\ header = NoHeader
  /\ status = "success" /\ answer = {} /\ message = Garbage
  /\ partial = Nothing /\ job = NoJob /\ out = <<>>
  /\ command = <<>> /\ performed = 0 /\ spoilt = {} /\ resets = 0
  /\ result = [status |-> "none", answer |-> {}]

HostStep ==
  \/ CheckForHeciReset \/ HeciInitialize \/ SetHostReady \/ WaitForMEReady
  \/ NextPacket \/ HeciPacketWrite \/ PacketWritten
  \/ ReadHeader \/ WaitForBody \/ CopyBody \/ PacketRead
  \/ EndAttempt
  \/ AssertReset \/ ResetTimesOut \/ ResetAdvances \/ ResetEnds

MeStep ==
  \/ MeResets \/ MeSeesReset \/ MeReady
  \/ MeTakes \/ MePerforms \/ MeIgnores \/ MeWrites

Next == Call \/ HostStep \/ MeStep

Spec == Init /\ [][Next]_vars

\* The host is one thread that runs on, and its timers expire. The ME is not
\* relied on for anything.
FairSpec == Spec /\ WF_vars(HostStep)
-------------------------------------------------------------------------------
(* Properties.                                                               *)

Pcs == {"idle", "begin", "initialize", "setRdy", "waitMe", "packet", "room", "written",
        "read", "body", "copy", "copied", "attempt",
        "assertReset", "resetStarted", "meReady", "isSignalled", "enableHost"}
Slots == [header : BOOLEAN, id : Ids, length : Nat, complete : BOOLEAN]
Statuses == {"success", "tooSmall", "timeout", "deviceError", "noResponse"}

\* The types; a retry is counted down to zero and no further.
TypeOK ==
  /\ hRdy \in BOOLEAN /\ hRst \in BOOLEAN /\ hIs \in BOOLEAN
  /\ meRdy \in BOOLEAN /\ meRst \in BOOLEAN /\ resetSeen \in BOOLEAN
  /\ toMe \in Seq(Slots) /\ toHost \in Seq(Slots) /\ out \in Seq(Slots)
  /\ hWp \in 0 .. PtrMod - 1 /\ hRp \in 0 .. PtrMod - 1
  /\ meWp \in 0 .. PtrMod - 1 /\ meRp \in 0 .. PtrMod - 1
  /\ pc \in Pcs /\ fn \in {"send", "receive"}
  /\ waitRet \in {"init", "call", "write"} /\ resetRet \in {"wait", "retry"}
  /\ call \in [service : Services \cup {"none"}, recLength : Nat]
  /\ retries \in 0 .. HECI_MAX_RETRY
  /\ current \in Nat /\ header \in Slots /\ header.header
  /\ status \in Statuses /\ answer \subseteq Ids /\ message \in Ids
  /\ partial \in [ids : SUBSET Ids, bytes : Nat]
  /\ job \in [id : Ids, live : BOOLEAN]
  /\ command \in Seq(Commands) /\ Len(command) <= MaxCalls
  /\ performed \in Nat
  /\ spoilt \subseteq {"stale", "torn", "clobbered", "cut"}
  /\ result \in [status : Statuses \cup {"none"}, answer : SUBSET Ids]
  /\ resets \in 0 .. MaxResets

\* The difference of the pointers modulo 2^8 is what a buffer holds, also after
\* they have wrapped, and neither side writes over what the other has not read.
NoOverrun ==
  /\ FilledSlots(hRp, hWp) = Len(toMe) /\ Len(toMe) <= Depth
  /\ FilledSlots(meRp, meWp) = Len(toHost) /\ Len(toHost) <= Depth

\* The ME gets a request whole and as the caller wrote it, in however many packets,
\* also after retries, resets and the retries of earlier commands. HeciSend breaks
\* this promise ("of any length", HeciCore.c:1004) in four cases, which spoilt names
\* and the property exempts: the request is one byte longer than a number of full
\* packets ("cut", HeciCore.c:1106); a reset came between two of its packets
\* ("torn"); the buffer had been overwritten with part of an answer before it was
\* sent again ("clobbered"); something of an earlier attempt is left ("stale").
CommandIntact == job.live /\ job.id = Garbage => spoilt # {}

\* An answer returned with EFI_SUCCESS has arrived whole, however many packets
\* it came in.
AnswerWhole ==
  pc = "attempt" /\ fn = "receive" /\ status = "success" /\ spoilt = {} =>
    answer = {This} /\ (call.recLength > 0 => current = AckLength[command[This]])

\* No command is answered with the answer to an earlier one, whatever went
\* before ("the corresponding ACK message"). It is: HeciSendwAck sends again
\* after a timeout without a reset, the late answer to the first attempt is
\* taken for that to the second, whose own is left for the next command.
CorrespondingAck ==
  result.status = "success" /\ pc = "idle" => result.answer \cap (1 .. This - 1) = {}

\* The calls do what their comments promise: an answer is that of the command,
\* which has been performed, and every call returns.
Service == INSTANCE HeciService WITH
  issued <- Len(command), busy <- pc # "idle", performed <- performed > 0,
  reliable <- spoilt = {}
ImplementsService == Service!Spec
===============================================================================
