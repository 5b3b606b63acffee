------------------------------ MODULE P25Calls ------------------------------
(***************************************************************************)
(* The call state of a P25 host that repeats voice (src/host/p25/          *)
(* Control.cpp, packet/Voice.cpp, packet/Data.cpp): local radios (RF) and  *)
(* the network compete for one transmitter, hang timers keep a talkgroup   *)
(* its place between two transmissions, watchdogs end what has no end.     *)
(*                                                                         *)
(* A step is one frame that Voice::process, Data::process or               *)
(* Voice::processNetwork handles, one expiry in Control::clock, one end of *)
(* voice, or one permission by REST.  Any frame may be lost, and the       *)
(* frames of several radios and several network calls arrive in any order. *)
(*                                                                         *)
(* A voice channel or a conventional host: no control channel on it        *)
(* (m_enableControl, m_dedicatedControl, m_voiceOnControl and m_controlOnly *)
(* false), duplex, group calls.  Timers run or do not; when they run they  *)
(* may expire at any pass of the clock.                                    *)
(***************************************************************************)
EXTENDS Naturals

CONSTANTS
    Talkgroups,
    NoId,               \* the ID 0
    FrameLossThreshold, \* m_frameLossThreshold
    Configurations      \* the hosts that are looked at

ASSUME P25CallsAssumption ==
    /\ NoId \notin Talkgroups
    /\ FrameLossThreshold \in Nat \ {0}
    /\ Configurations \subseteq
          [authoritative : BOOLEAN, dataPackets : BOOLEAN, timeouts : BOOLEAN,
           heard : SUBSET Talkgroups, netHeard : SUBSET Talkgroups]

VARIABLES
    config,             \* m_authoritative, whether data packets are sent at all, whether
                        \* the time-out timers are set, and whose voice is heard
                        \* from local radios and from the network
    permittedDstId,     \* m_permittedDstId
    rf,                 \* what is received from local radios
    net,                \* what is received from the network
    hadVoice,           \* m_hadVoice
    tailOnIdle,         \* m_tailOnIdle
    brokenOff,          \* history: a local call was broken off by a refusal that says
                        \* nothing to writeRF_VoiceEnd
    air                 \* history: whose voice the transmitter is in the middle of

configVars == <<config, permittedDstId>>
tailVars == <<hadVoice, tailOnIdle, brokenOff>>
vars == <<configVars, rf, net, tailVars, air>>

Init ==
    /\ config \in Configurations
    /\ permittedDstId = NoId
    /\ rf = [state |-> "LISTENING", prevState |-> "LISTENING", lc |-> NoId,
             lastHDU |-> NoId, lastLDU1 |-> NoId, lastLDU2 |-> NoId, lastDUID |-> "TDU",
             lastDstId |-> NoId, tgHang |-> FALSE, lossWatchdog |-> FALSE,
             frameLossCnt |-> 0, timeout |-> "stopped"]
    /\ net = [state |-> "IDLE", lc |-> NoId, dfsiLC |-> NoId, lastDstId |-> NoId,
              unflushed |-> FALSE, tgHang |-> FALSE, watchdog |-> FALSE, timeout |-> "stopped"]
    /\ hadVoice = FALSE
    /\ tailOnIdle = FALSE
    /\ brokenOff = FALSE
    /\ air = "none"

-----------------------------------------------------------------------------
(* Parts of the handlers.                                                   *)

resetRF(r) == [r EXCEPT !.lc = NoId, !.lastLDU1 = NoId, !.lastLDU2 = NoId]
resetNet(n) == [n EXCEPT !.lc = NoId, !.watchdog = FALSE]

\* A faulty terminator that leaves the call in progress.
NetEndedStays(n) == [resetNet(n) EXCEPT !.timeout = "stopped", !.unflushed = FALSE]

\* Voice::writeNet_TDU.
NetEnded(n) ==
    [resetNet(n) EXCEPT !.state = "IDLE", !.timeout = "stopped", !.unflushed = FALSE]

NotPermitted(dstId) == ~config.authoritative /\ permittedDstId # dstId

\* Any frame restarts the hang timer of a transmission in progress.
Heard(r, duid) ==
    [r EXCEPT !.lastDUID = duid, !.tgHang = @ \/ r.state # "LISTENING"]

\* RF traffic that is refused: nothing is sent, neither on the air nor to the network.
Refused(r) == [resetRF(r) EXCEPT !.state = "LISTENING"]

\* A refusal in the middle of a local call.  A network call that goes on has an end of
\* its own.
BreaksOff == brokenOff' = (brokenOff \/ (rf.state = "AUDIO" /\ net.state = "IDLE"))

\* New RF traffic gives way to a network call on the same talkgroup.
IsCollision(dstId) == net.state # "IDLE" /\ dstId = net.lastDstId

\* A network call on another talkgroup is cut off: its frames are dropped, and its
\* terminator put on the air.
Preempted(n) == IF n.state = "IDLE" THEN n ELSE resetNet(n)

\* The air after a frame of a voice (a header, LDU1 or LDU2), or a terminator.
Voice(who, before) == IF before \in {"none", who} THEN who ELSE "mixed"
Terminator(t) == IF t.timeout = "expired" THEN air ELSE "none"
AirVoice(who, t) == IF t.timeout = "expired" THEN air ELSE Voice(who, air)
AirPreempted == IF net.state = "IDLE" THEN air ELSE Terminator(rf)

-----------------------------------------------------------------------------
(* Frames of local radios.  While RS_RF_REJECTED no frame is read: the      *)
(* clock runs between two frames and resets the state.                      *)

HDUUndecodable ==
    /\ rf.state \in {"LISTENING", "AUDIO"}
    /\ rf.lastDUID # "HDU"
    /\ rf' = resetRF(Heard(rf, "HDU"))
    /\ UNCHANGED <<configVars, net, tailVars, air>>

HDURefused(dstId) ==
    /\ rf.state \in {"LISTENING", "AUDIO"}
    /\ rf.lastDUID # "HDU"
    /\ NotPermitted(dstId) \/ IsCollision(dstId)
    /\ rf' = Refused(Heard(rf, "HDU"))
    /\ BreaksOff
    /\ UNCHANGED <<configVars, net, hadVoice, tailOnIdle, air>>

\* A header announces a call and makes room for it; the call begins with its first LDU1.
HDU(dstId) ==
    /\ rf.state \in {"LISTENING", "AUDIO"}
    /\ rf.lastDUID # "HDU"
    /\ ~NotPermitted(dstId) /\ ~IsCollision(dstId)
    /\ rf' = [resetRF(Heard(rf, "HDU")) EXCEPT
                  !.tgHang = TRUE, !.lastDstId = dstId, !.lastHDU = dstId]
    /\ net' = [Preempted(net) EXCEPT !.tgHang = FALSE]
    /\ air' = IF rf.state = "LISTENING" THEN "none" ELSE AirPreempted
    /\ UNCHANGED <<configVars, tailVars>>

\* An HDU after an HDU is taken for an LDU1.  LDU1s do not follow each other.
IsLDU1 == rf.lastDUID # "LDU1"

LDU1Undecodable ==
    /\ IsLDU1
    /\ rf.state = "LISTENING"
    /\ rf' = Heard(rf, "LDU1")
    /\ UNCHANGED <<configVars, net, tailVars, air>>

LDU1Refused(dstId) ==
    /\ IsLDU1
    /\ rf.state = "LISTENING"
    /\ NotPermitted(dstId) \/ IsCollision(dstId)
    /\ rf' = Refused(Heard(rf, "LDU1"))
    /\ UNCHANGED <<configVars, net, tailVars, air>>

\* Without a header this is a late entry: what is queued is dropped.
LateEntry == rf.lastHDU = NoId
RfAtEntry == IF LateEntry THEN resetRF(rf) ELSE rf
NetAtEntry == IF net.state = "IDLE" THEN net ELSE [resetNet(net) EXCEPT !.tgHang = FALSE]

\* The radio or the talkgroup is not valid.
LDU1Rejected(dstId) ==
    /\ IsLDU1
    /\ rf.state = "LISTENING"
    /\ ~NotPermitted(dstId) /\ ~IsCollision(dstId)
    /\ rf' = [Heard(RfAtEntry, "LDU1") EXCEPT
                  !.state = "REJECTED", !.lastDstId = NoId, !.tgHang = FALSE]
    /\ net' = NetAtEntry
    /\ air' = IF LateEntry THEN "none" ELSE AirPreempted
    /\ UNCHANGED <<configVars, tailVars>>

\* The call begins.  The destination of the header counts.
Started(dstId) ==
    [Heard(RfAtEntry, "HDU") EXCEPT
        !.state = "AUDIO", !.tgHang = TRUE, !.lastDstId = dstId, !.lastLDU1 = dstId,
        !.lc = IF LateEntry THEN dstId ELSE rf.lastHDU,
        !.lastHDU = NoId, !.timeout = "running"]

LDU1Starts(dstId) ==
    /\ IsLDU1
    /\ rf.state = "LISTENING"
    /\ ~NotPermitted(dstId) /\ ~IsCollision(dstId)
    /\ hadVoice' = TRUE
    /\ net' = [NetAtEntry EXCEPT !.tgHang = FALSE]
    /\ LET r == Started(dstId) IN
          IF NotPermitted(r.lc)
          THEN /\ rf' = Refused(r)
               /\ air' = IF LateEntry THEN "none" ELSE AirPreempted
               /\ brokenOff' = (brokenOff \/ net.state = "IDLE")
          ELSE /\ rf' = r
               /\ brokenOff' = FALSE
               /\ air' = Voice("rf", IF LateEntry THEN "none" ELSE AirPreempted)
    /\ UNCHANGED <<configVars, tailOnIdle>>

\* Sources are not told apart: the one in a link control may be that in another,
\* unless one of them is empty; two empty ones agree.
SameSource(same) ==
    IF same THEN (net.lc = NoId) = (rf.lc = NoId) ELSE {net.lc, rf.lc} # {NoId}

\* The call is broken off without a terminator.
LDU1Stops ==
    /\ IsLDU1
    /\ rf.state = "AUDIO"
    /\ NotPermitted(rf.lc) \/ (IsCollision(rf.lc) /\ SameSource(TRUE))
    /\ rf' = Refused(Heard(rf, "LDU1"))
    /\ BreaksOff
    /\ UNCHANGED <<configVars, net, hadVoice, tailOnIdle, air>>

\* An undecodable LDU1 goes on with the link control of the last.
LDU1(dstId) ==
    /\ IsLDU1
    /\ rf.state = "AUDIO"
    /\ ~NotPermitted(rf.lc)
    /\ ~IsCollision(rf.lc) \/ SameSource(FALSE)
    /\ dstId \in Talkgroups \cup {rf.lastLDU1}
    /\ LET r == [Heard(rf, "LDU1") EXCEPT !.lc = dstId, !.lastLDU1 = dstId] IN
          /\ rf' = r
          /\ air' = AirVoice("rf", r)
    /\ UNCHANGED <<configVars, net, tailVars>>

\* LDU2s do not follow each other, and do not begin a call.
LDU2Ignored ==
    /\ rf.lastDUID # "LDU2"
    /\ rf.state = "LISTENING"
    /\ rf' = Heard(rf, "LDU2")
    /\ UNCHANGED <<configVars, net, tailVars, air>>

LDU2 ==
    /\ rf.lastDUID # "LDU2"
    /\ rf.state = "AUDIO"
    /\ \E decoded \in BOOLEAN :
          LET r == IF decoded THEN [Heard(rf, "LDU2") EXCEPT !.lastLDU2 = rf.lc]
                   ELSE [Heard(rf, "LDU2") EXCEPT !.lc = rf.lastLDU2]
          IN  /\ rf' = r
              /\ air' = AirVoice("rf", r)
    /\ UNCHANGED <<configVars, net, tailVars>>

\* Voice in the middle of a data packet, and a repeated LDU of a call.
LDUIgnored(duid) ==
    /\ \/ rf.state = "DATA"
       \/ rf.state = "AUDIO" /\ rf.lastDUID = duid /\ duid # "HDU"
    /\ rf' = Heard(rf, duid)
    /\ UNCHANGED <<configVars, net, tailVars, air>>

\* A faulty end that stops the watchdog and keeps the count.
EndedUnwatched(r) == [r EXCEPT !.state = "LISTENING", !.lossWatchdog = FALSE]

\* Control::processFrame clears the count of lost frames, Voice::process ends the call.
Ended(r) == [r EXCEPT !.state = "LISTENING", !.frameLossCnt = 0]

\* A faulty end that forgets the tail of a call whose time is out.
TailInTime == tailOnIdle \/ (rf.state = "AUDIO" /\ rf.timeout = "running")

TailAfterEnd == tailOnIdle \/ rf.state = "AUDIO"

\* A TDU, of whatever radio and in whatever state.
TDU ==
    /\ rf.state # "REJECTED"
    /\ rf' = [Ended(Heard(rf, "TDU")) EXCEPT !.timeout = "stopped"]
    /\ air' = Terminator(rf)
    /\ tailOnIdle' = TailAfterEnd
    /\ UNCHANGED <<configVars, net, hadVoice, brokenOff>>

\* A TDULC ends the call too, but the network is sent a TSDU.  An undecodable one is
\* not repeated.
TDULC ==
    /\ rf.state # "REJECTED"
    /\ \E decoded \in BOOLEAN :
          /\ rf' = [Ended(Heard(rf, rf.lastDUID)) EXCEPT
                        !.timeout = IF decoded THEN "stopped" ELSE @]
          /\ air' = IF decoded THEN "none" ELSE air
    /\ tailOnIdle' = TailAfterEnd
    /\ UNCHANGED <<configVars, net, hadVoice, brokenOff>>

\* A part of a data packet: the last one, or one that does not decode, restores the
\* state noted at the first.
RfPDU ==
    /\ config.dataPackets
    /\ rf.state # "REJECTED"
    /\ LET prev == IF rf.prevState # "DATA" THEN rf.state ELSE rf.prevState IN
          \E state \in {"DATA", prev} :
              rf' = [rf EXCEPT !.prevState = prev, !.state = state]
    /\ UNCHANGED <<configVars, net, tailVars, air>>

Forgotten(r) == [r EXCEPT !.frameLossCnt = 0]

\* A faulty loss that ends voice only.
DroppedVoice(r) ==
    [resetRF(r) EXCEPT !.state = IF @ = "DATA" THEN @ ELSE "LISTENING", !.lastDstId = NoId,
                       !.tgHang = FALSE, !.timeout = "stopped"]

Dropped(r) ==
    [resetRF(r) EXCEPT !.state = "LISTENING", !.lastDstId = NoId, !.tgHang = FALSE,
                       !.timeout = "stopped"]

\* Control::processFrameLoss: what was received is dropped.  For a lost voice the
\* terminator is written by Voice::writeNet_TDU, which ends a network call as well; the
\* queue it waits in is cleared at once, so that the air stays as it was.
FrameLoss(r) ==
    \/ /\ r.state = "AUDIO"
       /\ rf' = [Dropped(r) EXCEPT !.lastDUID = "TDU"]
       /\ net' = NetEnded(net)
       /\ tailOnIdle' = TRUE
       /\ UNCHANGED air
    \/ /\ r.state = "DATA"
       /\ rf' = Dropped(r)
       /\ tailOnIdle' = TRUE
       /\ UNCHANGED <<net, air>>
    \/ /\ r.state \notin {"AUDIO", "DATA"}
       /\ rf' = resetRF(r)
       /\ UNCHANGED <<net, air, tailOnIdle>>

\* A faulty threshold, one too high.
TooManyLostLater == rf.frameLossCnt > FrameLossThreshold + 1

TooManyLost == rf.frameLossCnt > FrameLossThreshold

\* The modem reports a lost frame (TAG_LOST).  What is in the buffer is handled as a
\* frame afterwards: a step of its own.
LostFrame ==
    /\ rf.state # "REJECTED"
    /\ \/ /\ TooManyLost
          /\ FrameLoss(Forgotten(rf))
       \/ /\ ~TooManyLost
          /\ rf' = IF rf.state \in {"AUDIO", "DATA"}
                   THEN [rf EXCEPT !.lossWatchdog = TRUE, !.frameLossCnt = @ + 1]
                   ELSE Forgotten(resetRF(rf))
          /\ UNCHANGED <<net, tailOnIdle, air>>
    /\ UNCHANGED <<configVars, hadVoice, brokenOff>>

-----------------------------------------------------------------------------
(* Frames of the network.  Each starts the watchdog.                        *)

NetHeard == [net EXCEPT !.watchdog = TRUE]
NetRead == rf.state = "LISTENING" \/ net.state # "IDLE"

\* The hang time of another talkgroup of local radios.
RfHangs(dstId) == rf.lastDstId \notin {NoId, dstId} /\ rf.tgHang

\* The hang time of another talkgroup of the network.
NetHangs(dstId) == config.authoritative /\ net.lastDstId \notin {NoId, dstId} /\ net.tgHang

\* Voice that loses against local radios, or is not permitted.
LosesToRf(dstId) ==
    \/ RfHangs(dstId)
    \/ config.authoritative /\ rf.state # "LISTENING"
    \/ NotPermitted(dstId)

NetLDUDropped(dstId) ==
    /\ NetRead
    /\ \/ /\ ~RfHangs(dstId) /\ NetHangs(dstId)
          /\ net' = NetHeard
       \/ /\ RfHangs(dstId) \/ (~NetHangs(dstId) /\ LosesToRf(dstId))
          /\ net' = resetNet(NetHeard)
    /\ UNCHANGED <<configVars, rf, tailVars, air>>

Taken(dstId) == NetRead /\ ~NetHangs(dstId) /\ ~LosesToRf(dstId)

\* Voice::writeNet_LDU1 for a new call, and in a call: both link controls are set.
Begun(n) ==
    [n EXCEPT !.lc = n.dfsiLC, !.state = "AUDIO", !.lastDstId = n.dfsiLC,
              !.tgHang = TRUE, !.timeout = "running", !.unflushed = FALSE]
GoesOn(n) ==
    [n EXCEPT !.lc = n.dfsiLC, !.tgHang = TRUE, !.unflushed = FALSE,
              !.lastDstId = IF n.tgHang /\ @ = NoId THEN n.dfsiLC ELSE @]

\* Voice::writeNet_LDU2 writes nothing of a call that is not permitted.
Checked(n) == IF NotPermitted(n.dfsiLC) THEN resetNet(n) ELSE n

\* The first LDU1 of a call is kept, the others are repeated.
NetLDU1(dstId) ==
    /\ Taken(dstId)
    /\ LET n == [NetHeard EXCEPT !.dfsiLC = dstId, !.unflushed = TRUE, !.tgHang = @ \/ net.state # "IDLE"] IN
          IF net.state = "IDLE"
          THEN net' = n /\ UNCHANGED <<rf, air>>
          ELSE /\ net' = GoesOn(n)
               /\ rf' = [rf EXCEPT !.lc = dstId]
               /\ air' = AirVoice("net", n)
    /\ UNCHANGED <<configVars, tailVars>>

\* An LDU2 begins the call, with the link control of whatever LDU1 came last, if
\* the radio and the talkgroup in it are valid.
NetLDU2Begins(dstId) ==
    /\ Taken(dstId)
    /\ net.state = "IDLE"
    /\ net.dfsiLC # NoId
    /\ net' = Checked(Begun(resetNet(net)))
    /\ rf' = [resetRF(rf) EXCEPT !.lc = net.dfsiLC]
    /\ air' = "net"
    /\ hadVoice' = TRUE
    /\ brokenOff' = FALSE
    /\ UNCHANGED <<configVars, tailOnIdle>>

NetLDU2Invalid(dstId) ==
    /\ Taken(dstId)
    /\ net.state = "IDLE"
    /\ net' = [resetNet(net) EXCEPT !.lc = net.dfsiLC]
    /\ rf' = [resetRF(rf) EXCEPT !.lc = net.dfsiLC]
    /\ air' = "none"
    /\ UNCHANGED <<configVars, tailVars>>

\* An LDU1 that is still kept goes before.
NetLDU2(dstId) ==
    /\ Taken(dstId)
    /\ net.state # "IDLE"
    /\ LET n == IF net.unflushed THEN GoesOn(NetHeard) ELSE [NetHeard EXCEPT !.tgHang = TRUE] IN
          /\ net' = Checked(n)
          /\ air' = IF NotPermitted(n.dfsiLC) /\ ~net.unflushed THEN air
                    ELSE AirVoice("net", n)
          /\ rf' = IF net.unflushed THEN [rf EXCEPT !.lc = n.lc] ELSE rf
    /\ UNCHANGED <<configVars, tailVars>>

NetTDUIgnored(dstId) ==
    /\ NetRead
    /\ \/ /\ LosesToRf(dstId)
          /\ net' = resetNet(NetHeard)
       \/ /\ ~LosesToRf(dstId)
          /\ dstId # net.lastDstId
          /\ net' = NetHeard
       \/ /\ ~LosesToRf(dstId)
          /\ dstId = net.lastDstId
          /\ rf.state # "LISTENING"
          /\ net' = resetNet(NetHeard)
       \/ /\ ~LosesToRf(dstId)
          /\ dstId = net.lastDstId
          /\ rf.state = "LISTENING"
          /\ net.state = "IDLE"
          /\ net' = NetHeard
    /\ UNCHANGED <<configVars, rf, tailVars, air>>

NetTDU(dstId) ==
    /\ ~LosesToRf(dstId)
    /\ dstId = net.lastDstId
    /\ rf.state = "LISTENING"
    /\ net.state # "IDLE"
    /\ net' = NetEnded(net)
    /\ air' = Terminator(net)
    /\ tailOnIdle' = TRUE
    /\ UNCHANGED <<configVars, rf, hadVoice, brokenOff>>

\* A TDULC of the network stops the watchdog and ends nothing.
NetTDULC(dstId) ==
    /\ ~LosesToRf(dstId)
    /\ dstId = net.lastDstId
    /\ rf.state = "LISTENING"
    /\ net.state # "IDLE"
    /\ net' = resetNet(net)
    /\ UNCHANGED <<configVars, rf, tailVars, air>>

\* A part of a data packet.  It does not start the watchdog.
NetPDU ==
    /\ config.dataPackets
    /\ NetRead
    /\ \E state \in {"DATA", "IDLE"} : net' = [net EXCEPT !.state = state]
    /\ UNCHANGED <<configVars, rf, tailVars, air>>

-----------------------------------------------------------------------------
(* Control::clock.  Timers that expire in one pass expire one after the      *)
(* other; the end of a pass, where lost frames are counted, is a step too,  *)
(* but one that comes before the next frame where it forgets losses.        *)

RfTGHangExpires ==
    /\ rf.tgHang
    /\ rf' = [rf EXCEPT !.tgHang = FALSE, !.lastDstId = NoId]
    /\ permittedDstId' = IF config.authoritative THEN permittedDstId ELSE NoId
    /\ UNCHANGED <<config, net, tailVars, air>>

RfLossWatchdogExpires ==
    /\ rf.state \in {"AUDIO", "DATA"}
    /\ rf.lossWatchdog
    /\ FrameLoss(Forgotten([rf EXCEPT !.lossWatchdog = FALSE]))
    /\ UNCHANGED <<configVars, hadVoice, brokenOff>>

\* Only an authoritative host has a hang time for the network.
NetTGHangExpires ==
    /\ net.tgHang
    /\ net' = [net EXCEPT !.tgHang = FALSE,
                          !.lastDstId = IF config.authoritative THEN NoId ELSE @]
    /\ UNCHANGED <<configVars, rf, tailVars, air>>

NetworkWatchdogExpires ==
    /\ net.state # "IDLE"
    /\ net.watchdog
    /\ net' = [resetNet(net) EXCEPT !.state = "IDLE", !.timeout = "stopped"]
    /\ tailOnIdle' = TRUE
    /\ UNCHANGED <<configVars, rf, hadVoice, brokenOff, air>>

RejectedReset ==
    /\ rf.state = "REJECTED"
    /\ rf' = Forgotten(Refused(rf))
    /\ net' = resetNet(net)
    /\ UNCHANGED <<configVars, tailVars, air>>

FrameLossCounted ==
    /\ \/ /\ rf.frameLossCnt > 0
          /\ rf.state = "LISTENING"
          /\ rf' = Forgotten(rf)
          /\ UNCHANGED <<net, tailOnIdle, air>>
       \/ /\ rf.frameLossCnt >= FrameLossThreshold
          /\ rf.state \in {"AUDIO", "DATA"}
          /\ FrameLoss(rf)
    /\ UNCHANGED <<configVars, hadVoice, brokenOff>>

TimeoutExpires ==
    /\ config.timeouts
    /\ \/ /\ rf.timeout = "running"
          /\ rf' = [rf EXCEPT !.timeout = "expired"]
          /\ UNCHANGED net
       \/ /\ net.timeout = "running"
          /\ net' = [net EXCEPT !.timeout = "expired"]
          /\ UNCHANGED rf
    /\ UNCHANGED <<configVars, tailVars, air>>

\* Control::writeRF_VoiceEnd, when the main loop finds nothing to send.
VoiceEnd ==
    /\ net.state = "IDLE"
    /\ rf.state = "LISTENING"
    /\ tailOnIdle
    /\ IF hadVoice
       THEN /\ rf' = [resetRF(rf) EXCEPT !.timeout = "stopped"]
            /\ net' = resetNet(net)
            /\ air' = "none"
       ELSE UNCHANGED <<rf, net, air>>
    /\ hadVoice' = FALSE
    /\ tailOnIdle' = FALSE
    /\ brokenOff' = FALSE
    /\ UNCHANGED configVars

\* PUT_PERMIT_TG.
permittedTG(dstId) ==
    /\ ~config.authoritative
    /\ permittedDstId' = dstId
    /\ UNCHANGED <<config, rf, net, tailVars, air>>

RfFrame ==
    \/ HDUUndecodable \/ LDU1Undecodable \/ LDU1Stops \/ LDU2Ignored \/ LDU2
    \/ TDU \/ TDULC \/ RfPDU
    \/ \E g \in config.heard : HDURefused(g) \/ HDU(g) \/ LDU1Refused(g) \/ LDU1Rejected(g)
                             \/ LDU1Starts(g)
    \/ \E g \in config.heard \cup {NoId} : LDU1(g)
    \/ \E duid \in {"HDU", "LDU1", "LDU2"} : LDUIgnored(duid)

NetFrame ==
    \/ \E g \in config.netHeard : NetLDUDropped(g) \/ NetLDU1(g) \/ NetLDU2Begins(g)
                                \/ NetLDU2Invalid(g) \/ NetLDU2(g) \/ NetTDUIgnored(g)
                                \/ NetTDU(g) \/ NetTDULC(g)
    \/ NetPDU

Clock ==
    \/ RfTGHangExpires \/ RfLossWatchdogExpires \/ NetTGHangExpires
    \/ NetworkWatchdogExpires \/ RejectedReset \/ FrameLossCounted \/ TimeoutExpires

Next ==
    \/ RfFrame
    \/ LostFrame
    \/ NetFrame
    \/ Clock
    \/ VoiceEnd
    \/ \E g \in config.heard : permittedTG(g)

Spec == Init /\ [][Next]_vars

\* The main loop calls clock on every turn, and a timer that runs and is not restarted
\* expires.  It ends the voice whenever it finds nothing to send.
FairSpec ==
    /\ Spec
    /\ WF_vars(RfLossWatchdogExpires)
    /\ WF_vars(NetworkWatchdogExpires)
    /\ WF_vars(RejectedReset)
    /\ WF_vars(FrameLossCounted)
    /\ WF_vars(VoiceEnd)

-----------------------------------------------------------------------------
(* Properties.                                                              *)

States == {"LISTENING", "AUDIO", "DATA", "REJECTED"}
TimerStates == {"stopped", "running", "expired"}
IDs == Talkgroups \cup {NoId}

RfTypes ==
    [state : States, prevState : States, lc : IDs, lastHDU : IDs, lastLDU1 : IDs,
     lastLDU2 : IDs, lastDUID : {"TDU", "HDU", "LDU1", "LDU2"}, lastDstId : IDs,
     tgHang : BOOLEAN, lossWatchdog : BOOLEAN,
     frameLossCnt : 0..(FrameLossThreshold + 1), timeout : TimerStates]

NetTypes ==
    [state : {"IDLE", "AUDIO", "DATA"}, lc : IDs, dfsiLC : IDs, lastDstId : IDs,
     unflushed : BOOLEAN, tgHang : BOOLEAN, watchdog : BOOLEAN, timeout : TimerStates]

\* The variables hold what the code can put there: lost frames are counted up to one more
\* than the threshold.
TypeOK ==
    /\ config \in Configurations
    /\ permittedDstId \in IDs
    /\ rf \in RfTypes
    /\ net \in NetTypes
    /\ hadVoice \in BOOLEAN
    /\ tailOnIdle \in BOOLEAN
    /\ brokenOff \in BOOLEAN
    /\ air \in {"none", "rf", "net", "mixed"}

Idle == rf.state = "LISTENING" /\ net.state = "IDLE"

\* On a host that is sent no data packets: when both sides are idle, the voice end is
\* still to come or the transmitter is not left in the middle of a voice, unless a local
\* call was broken off by a refusal, which happens on a host that is not authoritative
\* only.  writeRF_VoiceEnd releases the channel only when m_tailOnIdle was set by
\* whatever ended the call, and Voice::process sets it for none of its refusals.
CallsClosed ==
    ~config.dataPackets =>
        /\ Idle /\ ~tailOnIdle /\ ~brokenOff => ~hadVoice /\ air = "none"
        /\ brokenOff => ~config.authoritative

\* A lost frame counted in a call starts the watchdog, and nothing stops it while the
\* count stands: losses too few for processFrameLoss are not forgotten.
LossIsWatched ==
    rf.state \in {"AUDIO", "DATA"} /\ rf.frameLossCnt > 0 => rf.lossWatchdog

\* On a host that is sent no data packets: every call in progress has its time-out timer
\* set, whatever call ended before on either side.
CallsAreTimed ==
    ~config.dataPackets =>
        /\ rf.state = "AUDIO" => rf.timeout # "stopped"
        /\ net.state = "AUDIO" => net.timeout # "stopped"

\* A call of local radios that falls silent after a lost frame ends, be it voice or data.
RfCallEnds ==
    \/ []<><<RfFrame>>_vars
    \/ rf.state \in {"AUDIO", "DATA"} /\ rf.lossWatchdog ~> rf.state = "LISTENING"

=============================================================================
