------------------------------ MODULE DMRCalls ------------------------------
(***************************************************************************)
(* The call state of one DMR slot (src/host/dmr/Slot.cpp,                  *)
(* packet/Voice.cpp, packet/Data.cpp): local radios (RF) and the network   *)
(* share the slot, each with voice calls, late entry and data packets.     *)
(*                                                                         *)
(* A step is one frame that Slot::processFrame or Slot::processNetwork     *)
(* handles, or one expiry in Slot::clock.  Any frame may be lost.          *)
(*                                                                         *)
(* A conventional slot: duplex, no TSCC on the host (m_enableTSCC false).  *)
(* Timers run or do not; when they run they may expire at any pass of the  *)
(* clock.                                                                  *)
(***************************************************************************)
EXTENDS Naturals

CONSTANTS
    Talkgroups,
    NoId,               \* the ID 0, and a link control that is nullptr
    MaxBlocks,          \* bound: data blocks that follow a header
    FrameLossThreshold, \* m_frameLossThreshold
    Configurations      \* the slots that are looked at

ASSUME DMRCallsAssumption ==
    /\ NoId \notin Talkgroups
    /\ MaxBlocks \in Nat
    /\ FrameLossThreshold \in Nat \ {0}
    /\ Configurations \subseteq
          [authoritative : BOOLEAN, timeouts : BOOLEAN, data : SUBSET Talkgroups,
           heard : SUBSET Talkgroups]

VARIABLES
    config,             \* m_authoritative, whether the time-out timers are set, who sends
                        \* data packets and who talks
    permittedDstId,     \* m_permittedDstId
    rf,                 \* what is received from local radios
    net,                \* what is received from the network
    air,                \* history: whose voice the transmitter is in the middle of
    leftOpen            \* history: the last network call ended, or gave way to a packet,
                        \* without a terminator, and no call began since

configVars == <<config, permittedDstId>>
airVars == <<air, leftOpen>>
vars == <<configVars, rf, net, airVars>>

Init ==
    /\ config \in Configurations
    /\ permittedDstId = NoId
    /\ rf = [state |-> "LISTENING", lc |-> NoId, frames |-> 0, lastDstId |-> NoId,
             tgHang |-> FALSE, lossWatchdog |-> FALSE, frameLossCnt |-> 0,
             timeout |-> "stopped"]
    /\ net = [state |-> "IDLE", lc |-> NoId, frames |-> 0, lastDstId |-> NoId,
              tgHang |-> FALSE, watchdog |-> FALSE, packetTimer |-> FALSE,
              timeout |-> "stopped"]
    /\ air = "none"
    /\ leftOpen = FALSE

-----------------------------------------------------------------------------
(* Parts of the handlers.                                                   *)

NotPermitted(dstId) == ~config.authoritative /\ permittedDstId # dstId

\* CHECK_AUTHORITATIVE and CHECK_TRAFFIC_COLLISION.
Refused(dstId) == NotPermitted(dstId) \/ (net.state # "IDLE" /\ dstId = net.lastDstId)

\* A burst with a sync restarts the hang timer of a transmission in progress.
Heard(r) == [r EXCEPT !.tgHang = @ \/ r.state # "LISTENING"]

\* Slot::addFrame puts no burst of local radios on the air during a network call.
AirOf(who, before) == IF before \in {"none", who} THEN who ELSE "mixed"
AirRf(before) == IF net.state = "IDLE" THEN AirOf("rf", before) ELSE before

\* A faulty end that leaves the call in progress.
EndRFKeepsState(r) == [r EXCEPT !.timeout = "stopped", !.frames = 0, !.lc = NoId]

\* Slot::writeEndRF and Slot::writeEndNet.
EndRF(r) ==
    [r EXCEPT !.state = "LISTENING", !.timeout = "stopped", !.frames = 0, !.lc = NoId]

EndNet(n) ==
    [n EXCEPT !.state = "IDLE", !.watchdog = FALSE, !.timeout = "stopped",
              !.packetTimer = FALSE, !.frames = 0, !.lc = NoId]

Forgotten(r) == [r EXCEPT !.frameLossCnt = 0]

-----------------------------------------------------------------------------
(* Frames of local radios: voice.  While RS_RF_REJECTED no frame is read:   *)
(* the clock runs between two frames and resets the state.                  *)

\* A call begins: what is queued is dropped and the modem told to abort, then the
\* header is sent, to the network too.
Opened(r, dstId) == [r EXCEPT !.lc = dstId, !.timeout = "running", !.frames = 0]

\* A header, or the burst that completes a late entry: a burst is not a sync.
VoiceRefused(dstId) ==
    /\ rf.state \in {"LISTENING", "LATE_ENTRY", "DATA"}
    /\ Refused(dstId)
    /\ \E r \in {Heard(rf)} \cup (IF rf.state = "LATE_ENTRY" THEN {rf} ELSE {}) :
          rf' = [r EXCEPT !.state = "LISTENING"]
    /\ UNCHANGED <<configVars, net, airVars>>

\* The radio or the talkgroup is not valid.
VoiceRejected(dstId) ==
    /\ ~Refused(dstId)
    /\ \/ /\ rf.state \in {"LISTENING", "LATE_ENTRY", "DATA"}
          /\ rf' = [rf EXCEPT !.state = "REJECTED", !.lastDstId = NoId, !.tgHang = FALSE]
       \/ /\ rf.state = "LATE_ENTRY"
          /\ rf' = [rf EXCEPT !.state = "REJECTED"]
    /\ UNCHANGED <<configVars, net, airVars>>

VoiceHeader(dstId) ==
    /\ rf.state \in {"LISTENING", "LATE_ENTRY", "DATA"}
    /\ ~Refused(dstId)
    /\ rf' = [Opened(Heard(rf), dstId) EXCEPT !.state = "AUDIO", !.lastDstId = dstId]
    /\ air' = AirRf("none")
    /\ leftOpen' = FALSE
    /\ UNCHANGED <<configVars, net>>

\* A voice sync without a header before it.
LateEntry ==
    /\ rf.state = "LISTENING"
    /\ rf' = [rf EXCEPT !.state = "LATE_ENTRY"]
    /\ UNCHANGED <<configVars, net, airVars>>

\* A voice burst completes the embedded link control.
VoiceLateEntry(dstId) ==
    /\ rf.state = "LATE_ENTRY"
    /\ ~Refused(dstId)
    /\ rf' = [Opened(rf, dstId) EXCEPT !.state = "AUDIO", !.lastDstId = dstId,
                                       !.tgHang = TRUE]
    /\ net' = [net EXCEPT !.tgHang = FALSE]
    /\ air' = AirRf("none")
    /\ leftOpen' = FALSE
    /\ UNCHANGED configVars

\* The header is sent, but the burst has the number of the last one of an earlier
\* call and is not taken: the call does not begin yet.
VoiceAnnounced(dstId) ==
    /\ rf.state = "LATE_ENTRY"
    /\ ~Refused(dstId)
    /\ rf' = Opened(rf, dstId)
    /\ air' = AirRf("none")
    /\ leftOpen' = FALSE
    /\ UNCHANGED <<configVars, net>>

\* A voice sync, a voice burst in order or a privacy header in a call.
Voice ==
    /\ rf.state = "AUDIO"
    /\ \/ /\ rf' = [rf EXCEPT !.tgHang = TRUE, !.lastDstId = rf.lc]
          /\ net' = [net EXCEPT !.tgHang = FALSE]
          /\ air' = IF rf.timeout = "expired" THEN air ELSE AirRf(air)
       \/ /\ rf' = Heard(rf)
          /\ air' = AirRf(air)
          /\ UNCHANGED net
    /\ UNCHANGED <<configVars, leftOpen>>

\* A sync that is of no use: of voice in the middle of a packet or of a late entry, of
\* something that does not decode, or of a CSBK that is repeated.
SyncIgnored ==
    /\ rf.state \in {"LATE_ENTRY", "DATA", "AUDIO"}
    /\ rf' = Heard(rf)
    /\ UNCHANGED <<configVars, net, airVars>>

\* A CSBK of a radio or for a talkgroup that is not valid, without a look at the
\* permission, and in the middle of a call too.  The others are repeated and change
\* nothing but the hang timer.
CsbkRejected(dstId) ==
    /\ rf.state # "REJECTED"
    /\ net.state # "IDLE" => dstId # net.lastDstId
    /\ rf' = [Heard(rf) EXCEPT !.state = "REJECTED"]
    /\ UNCHANGED <<configVars, net, airVars>>

VoiceTerminator ==
    /\ rf.state # "REJECTED"
    /\ \/ /\ rf.state = "AUDIO"
          /\ rf' = EndRF(Forgotten(Heard(rf)))
          /\ air' = IF rf.timeout = "expired" \/ net.state # "IDLE" THEN air ELSE "none"
          /\ UNCHANGED leftOpen
       \/ /\ rf.state # "AUDIO"
          /\ rf' = Forgotten(Heard(rf))
          /\ UNCHANGED airVars
    /\ UNCHANGED <<configVars, net>>

-----------------------------------------------------------------------------
(* Frames of local radios: data, and the loss of frames.                    *)

DataRefused(dstId) ==
    /\ rf.state \in {"LISTENING", "LATE_ENTRY", "AUDIO"}
    /\ \/ /\ Refused(dstId)
          /\ rf' = [Heard(rf) EXCEPT !.state = "LISTENING"]
       \/ /\ ~Refused(dstId)
          /\ rf' = [Heard(rf) EXCEPT !.state = "REJECTED"]
    /\ UNCHANGED <<configVars, net, airVars>>

\* A header of a packet with so many blocks, in the middle of a voice call too.
DataHeader(dstId, blocks) ==
    /\ rf.state \in {"LISTENING", "LATE_ENTRY", "AUDIO"}
    /\ ~Refused(dstId)
    /\ LET r == [Heard(rf) EXCEPT !.frames = blocks, !.lc = dstId, !.state = "DATA",
                                  !.lastDstId = dstId]
       IN  rf' = IF blocks = 0 THEN EndRF(r) ELSE r
    /\ UNCHANGED <<configVars, net, airVars>>

DataBlock ==
    /\ rf.state = "DATA"
    /\ rf.frames > 0
    /\ rf' = IF rf.frames = 1 THEN EndRF(Heard(rf)) ELSE [Heard(rf) EXCEPT !.frames = @ - 1]
    /\ UNCHANGED <<configVars, net, airVars>>

\* A faulty loss that ends voice only.
DroppedVoice(r) ==
    [IF r.state = "AUDIO" THEN EndRF(r) ELSE r EXCEPT !.lastDstId = NoId, !.tgHang = FALSE]

Dropped(r) ==
    [IF r.state \in {"AUDIO", "DATA"} THEN EndRF(r) ELSE r EXCEPT
        !.state = "LISTENING", !.lastDstId = NoId, !.tgHang = FALSE]

\* Slot::processFrameLoss.
FrameLoss(r) ==
    /\ rf' = Dropped(r)
    /\ air' = IF r.state = "AUDIO" /\ r.timeout # "expired" /\ net.state = "IDLE"
              THEN "none" ELSE air
    /\ UNCHANGED leftOpen

\* A faulty threshold, one too high.
TooManyLostLater == rf.frameLossCnt > FrameLossThreshold + 1

TooManyLost == rf.frameLossCnt > FrameLossThreshold

\* The modem reports a lost frame (TAG_LOST).  In a call what is in the buffer is
\* handled as a frame afterwards: a step of its own.
LostFrame ==
    /\ rf.state # "REJECTED"
    /\ \/ /\ TooManyLost
          /\ FrameLoss(Forgotten(rf))
       \/ /\ ~TooManyLost
          /\ rf.state \in {"AUDIO", "DATA"}
          /\ rf' = [rf EXCEPT !.lossWatchdog = TRUE, !.frameLossCnt = @ + 1]
          /\ UNCHANGED airVars
       \/ /\ ~TooManyLost
          /\ rf.state \notin {"AUDIO", "DATA"}
          /\ rf' = [Forgotten(rf) EXCEPT !.state = "LISTENING", !.lastDstId = NoId,
                                         !.tgHang = FALSE]
          /\ UNCHANGED airVars
    /\ UNCHANGED <<configVars, net>>

-----------------------------------------------------------------------------
(* Frames of the network.  Each one that is read starts the watchdog.       *)

\* The hang time of another talkgroup.
RfHangs(dstId) == rf.lastDstId \notin {NoId, dstId} /\ rf.tgHang
NetHangs(dstId) == net.lastDstId \notin {NoId, dstId} /\ net.tgHang

NetRead(dstId) ==
    /\ rf.state = "LISTENING"
    /\ ~RfHangs(dstId)
    /\ config.authoritative /\ net.state # "IDLE" => ~NetHangs(dstId)
    /\ ~NotPermitted(dstId)

\* A faulty reader that forgets the watchdog of a call that begins with a frame.
NetHeardInCall == [net EXCEPT !.watchdog = @ \/ net.state # "IDLE"]

NetHeard == [net EXCEPT !.watchdog = TRUE]

\* Nothing but the watchdog changes: a header in a call, one that does not decode, a
\* late entry into a packet, a terminator without a call, a CSBK, or the hang time of
\* another network talkgroup.
NetIgnored(dstId) ==
    /\ NetRead(dstId)
    /\ net' = NetHeard
    /\ UNCHANGED <<configVars, rf, airVars>>

\* A call begins: what is queued is dropped and the modem told to abort.
NetOpened(dstId) ==
    [NetHeard EXCEPT !.state = "AUDIO", !.lc = dstId, !.lastDstId = dstId, !.tgHang = TRUE,
                     !.timeout = "running", !.frames = 0]

\* With a voice header or a privacy header.
NetVoiceHeader(dstId) ==
    /\ NetRead(dstId)
    /\ net.state # "AUDIO"
    /\ ~NetHangs(dstId)
    /\ net' = NetOpened(dstId)
    /\ air' = "net"
    /\ leftOpen' = FALSE
    /\ UNCHANGED <<configVars, rf>>

\* With a voice sync.
NetLateEntry(dstId) ==
    /\ NetRead(dstId)
    /\ net.state = "IDLE"
    /\ net' = [NetOpened(dstId) EXCEPT !.packetTimer = TRUE]
    /\ air' = "net"
    /\ leftOpen' = FALSE
    /\ UNCHANGED <<configVars, rf>>

\* A voice sync, a voice burst or a privacy header in a call.  A repeated burst, and voice
\* after the time-out, is not sent; silence for lost bursts is, after the time-out too.
NetVoice(dstId) ==
    /\ NetRead(dstId)
    /\ net.state = "AUDIO"
    /\ \E hang \in {net.tgHang, TRUE}, late \in {net.packetTimer, TRUE} :
          net' = [NetHeard EXCEPT !.tgHang = hang, !.packetTimer = late]
    /\ air' \in {air, AirOf("net", air)}
    /\ UNCHANGED <<configVars, rf, leftOpen>>

NetTerminator(dstId) ==
    /\ NetRead(dstId)
    /\ net.state = "AUDIO"
    /\ net' = EndNet(net)
    /\ air' = IF net.timeout = "expired" THEN air ELSE "none"
    /\ leftOpen' = (net.timeout = "expired")
    /\ UNCHANGED <<configVars, rf>>

\* Voice of the network that a packet takes the place of.
GivesWay == leftOpen' = (leftOpen \/ net.state = "AUDIO")

\* A packet begins, in the middle of a voice call too.
NetDataHeader(dstId, blocks) ==
    /\ NetRead(dstId)
    /\ net.state # "DATA"
    /\ LET n == [NetHeard EXCEPT !.frames = blocks, !.lc = dstId, !.state = "DATA",
                                 !.lastDstId = dstId]
       IN  net' = IF blocks = 0 THEN EndNet(n) ELSE n
    /\ GivesWay
    /\ UNCHANGED <<configVars, rf, air>>

\* A block that belongs to no packet ends whatever the network was sending.
NetDataBlock(dstId) ==
    /\ NetRead(dstId)
    /\ net' = IF net.state = "DATA" /\ net.frames > 1
              THEN [NetHeard EXCEPT !.frames = @ - 1] ELSE EndNet(net)
    /\ GivesWay
    /\ UNCHANGED <<configVars, rf, air>>

-----------------------------------------------------------------------------
(* Slot::clock.  Timers that expire in one pass expire one after the other; *)
(* the end of a pass, where lost frames are counted, is a step too, but one *)
(* that comes before the next frame where it forgets losses.                *)

TimeoutExpires ==
    /\ config.timeouts
    /\ \/ /\ rf.timeout = "running"
          /\ rf' = [rf EXCEPT !.timeout = "expired"]
          /\ UNCHANGED net
       \/ /\ net.timeout = "running"
          /\ net' = [net EXCEPT !.timeout = "expired"]
          /\ UNCHANGED rf
    /\ UNCHANGED <<configVars, airVars>>

RfLossWatchdogExpires ==
    /\ rf.state \in {"AUDIO", "DATA"}
    /\ rf.lossWatchdog
    /\ FrameLoss(Forgotten([rf EXCEPT !.lossWatchdog = FALSE]))
    /\ UNCHANGED <<configVars, net>>

RfTGHangExpires ==
    /\ rf.tgHang
    /\ rf' = [rf EXCEPT !.tgHang = FALSE, !.lastDstId = NoId]
    /\ permittedDstId' = IF config.authoritative THEN permittedDstId ELSE NoId
    /\ UNCHANGED <<config, net, airVars>>

\* Only an authoritative host has a hang time for the network.
NetTGHangExpires ==
    /\ net.tgHang
    /\ net' = [net EXCEPT !.tgHang = FALSE,
                          !.lastDstId = IF config.authoritative THEN NoId ELSE @]
    /\ UNCHANGED <<configVars, rf, airVars>>

\* A faulty watchdog that ends a silent call without a terminator.
EndOfSilence == air

AirAfterSilence == IF net.state = "AUDIO" /\ net.timeout # "expired" THEN "none" ELSE air

NetworkWatchdogExpires ==
    /\ net.state # "IDLE"
    /\ net.watchdog
    /\ net' = EndNet(net)
    /\ air' = AirAfterSilence
    /\ leftOpen' = IF net.state = "AUDIO" THEN net.timeout = "expired" ELSE leftOpen
    /\ UNCHANGED <<configVars, rf>>

\* Silence is sent for bursts that are late.
PacketTimerExpires ==
    /\ net.state = "AUDIO"
    /\ net.packetTimer
    /\ air' = AirOf("net", air)
    /\ UNCHANGED <<configVars, rf, net, leftOpen>>

RejectedReset ==
    /\ rf.state = "REJECTED"
    /\ rf' = Forgotten([rf EXCEPT !.state = "LISTENING", !.frames = 0])
    /\ net' = [net EXCEPT !.frames = 0]
    /\ UNCHANGED <<configVars, airVars>>

FrameLossCounted ==
    /\ \/ /\ rf.frameLossCnt > 0
          /\ rf.state = "LISTENING"
          /\ rf' = Forgotten(rf)
          /\ UNCHANGED airVars
       \/ /\ rf.frameLossCnt >= FrameLossThreshold
          /\ rf.state \in {"AUDIO", "DATA"}
          /\ FrameLoss(rf)
    /\ UNCHANGED <<configVars, net>>

\* PUT_PERMIT_TG.
permittedTG(dstId) ==
    /\ ~config.authoritative
    /\ permittedDstId' = dstId
    /\ UNCHANGED <<config, rf, net, airVars>>

-----------------------------------------------------------------------------

RfFrame ==
    \/ \E g \in config.heard : VoiceRefused(g) \/ VoiceRejected(g) \/ VoiceHeader(g)
                               \/ VoiceLateEntry(g) \/ VoiceAnnounced(g)
                               \/ CsbkRejected(g)
    \/ LateEntry \/ Voice \/ SyncIgnored \/ VoiceTerminator
    \/ \E g \in config.data : \/ DataRefused(g)
                              \/ \E blocks \in 0..MaxBlocks : DataHeader(g, blocks)
    \/ DataBlock

NetFrame ==
    \/ \E g \in config.heard : NetIgnored(g) \/ NetVoiceHeader(g) \/ NetLateEntry(g)
                               \/ NetVoice(g) \/ NetTerminator(g)
    \/ \E g \in config.data : \/ NetDataBlock(g)
                              \/ \E blocks \in 0..MaxBlocks : NetDataHeader(g, blocks)

Clock ==
    \/ TimeoutExpires \/ RfLossWatchdogExpires \/ RfTGHangExpires \/ NetTGHangExpires
    \/ NetworkWatchdogExpires \/ PacketTimerExpires \/ RejectedReset \/ FrameLossCounted

Next ==
    \/ RfFrame
    \/ LostFrame
    \/ NetFrame
    \/ Clock
    \/ \E g \in config.heard : permittedTG(g)

Spec == Init /\ [][Next]_vars

\* The main loop calls clock on every turn, and a timer that runs and is not restarted
\* expires.
FairSpec ==
    /\ Spec
    /\ WF_vars(RfLossWatchdogExpires)
    /\ WF_vars(NetworkWatchdogExpires)
    /\ WF_vars(RejectedReset)
    /\ WF_vars(FrameLossCounted)

-----------------------------------------------------------------------------
(* Properties.                                                              *)

IDs == Talkgroups \cup {NoId}
TimerStates == {"stopped", "running", "expired"}

RfTypes ==
    [state : {"LISTENING", "LATE_ENTRY", "AUDIO", "DATA", "REJECTED"}, lc : IDs,
     frames : 0..MaxBlocks, lastDstId : IDs, tgHang : BOOLEAN, lossWatchdog : BOOLEAN,
     frameLossCnt : 0..(FrameLossThreshold + 1), timeout : TimerStates]

NetTypes ==
    [state : {"IDLE", "AUDIO", "DATA"}, lc : IDs, frames : 0..MaxBlocks, lastDstId : IDs,
     tgHang : BOOLEAN, watchdog : BOOLEAN, packetTimer : BOOLEAN, timeout : TimerStates]

\* The variables hold what the code can put there: lost frames are counted up to one more
\* than the threshold, and blocks to come never fall below none.
TypeOK ==
    /\ config \in Configurations
    /\ permittedDstId \in IDs
    /\ rf \in RfTypes
    /\ net \in NetTypes
    /\ air \in {"none", "rf", "net", "mixed"}
    /\ leftOpen \in BOOLEAN

\* A call or packet in progress has its link control: m_rfLC and m_netLC, which the ends
\* of calls set to nullptr, are followed without a check for every burst, for silence
\* and for terminators.
LinkControlKept ==
    /\ rf.state \in {"AUDIO", "DATA"} => rf.lc # NoId
    /\ net.state \in {"AUDIO", "DATA"} => net.lc # NoId

\* The voice on the air is of one side, from its header to a terminator or an abort: local
\* radios are not repeated during a network call, the network is not read during theirs,
\* and where one takes over in the middle the other was closed.  Voices mix only after a
\* network call that ended without a terminator, because its time was out or because a
\* packet took its place: on a slot without time-outs and packets they never do.
OneVoice ==
    /\ air = "mixed" => leftOpen
    /\ leftOpen => config.timeouts \/ config.data # {}

\* A network call or packet that falls silent ends, also when local radios took the slot.
NetCallEnds ==
    \/ []<><<NetFrame>>_vars
    \/ net.state # "IDLE" ~> net.state = "IDLE"

\* A call or packet of local radios that falls silent after a lost frame ends.
RfCallEnds ==
    \/ []<><<RfFrame>>_vars
    \/ rf.state \in {"AUDIO", "DATA"} /\ rf.lossWatchdog ~> rf.state = "LISTENING"

=============================================================================
