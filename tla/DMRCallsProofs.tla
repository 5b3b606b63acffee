--------------------------- MODULE DMRCallsProofs ---------------------------
(***************************************************************************)
(* Proofs about the call state of a DMR slot, for any talkgroups, any      *)
(* length of packets and any threshold of lost frames.                     *)
(***************************************************************************)
EXTENDS DMRCalls, TLAPS

-----------------------------------------------------------------------------
(* What the parts of the handlers keep.                                     *)

LEMMA ConfigTypes ==
    ASSUME TypeOK
    PROVE  config.heard \subseteq Talkgroups /\ config.data \subseteq Talkgroups
  BY DMRCallsAssumption DEF TypeOK

LEMMA Values ==
    /\ NoId \in IDs
    /\ Talkgroups \subseteq IDs
    /\ 0 \in 0..MaxBlocks
    /\ 0 \in 0..(FrameLossThreshold + 1)
    /\ {"stopped", "running", "expired"} = TimerStates
  BY DMRCallsAssumption DEF IDs, TimerStates

LEMMA HeardTypes ==
    ASSUME NEW r \in RfTypes
    PROVE  /\ Heard(r) \in RfTypes
           /\ Heard(r).state = r.state
           /\ Heard(r).lc = r.lc
           /\ Heard(r).frames = r.frames
           /\ Heard(r).timeout = r.timeout
  BY DEF RfTypes, Heard

LEMMA ForgottenTypes ==
    ASSUME NEW r \in RfTypes
    PROVE  /\ Forgotten(r) \in RfTypes
           /\ Forgotten(r).state = r.state
           /\ Forgotten(r).lc = r.lc
           /\ Forgotten(r).timeout = r.timeout
  BY Values DEF RfTypes, Forgotten

LEMMA EndRFTypes ==
    ASSUME NEW r \in RfTypes
    PROVE  /\ EndRF(r) \in RfTypes
           /\ EndRF(r).state = "LISTENING"
           /\ EndRF(r).timeout = "stopped"
  BY Values DEF RfTypes, EndRF

LEMMA DroppedTypes ==
    ASSUME NEW r \in RfTypes
    PROVE  /\ Dropped(r) \in RfTypes
           /\ Dropped(r).state = "LISTENING"
           /\ Dropped(r).timeout \in {r.timeout, "stopped"}
  BY Values DEF RfTypes, Dropped, EndRF

LEMMA OpenedTypes ==
    ASSUME NEW r \in RfTypes, NEW g \in Talkgroups
    PROVE  /\ Opened(r, g) \in RfTypes
           /\ Opened(r, g).state = r.state
           /\ Opened(r, g).lc = g
           /\ Opened(r, g).timeout = "running"
  BY Values DEF RfTypes, Opened

LEMMA EndNetTypes ==
    ASSUME NEW n \in NetTypes
    PROVE  /\ EndNet(n) \in NetTypes
           /\ EndNet(n).state = "IDLE"
           /\ EndNet(n).timeout = "stopped"
  BY Values DEF NetTypes, EndNet

LEMMA NetHeardTypes ==
    ASSUME net \in NetTypes
    PROVE  /\ NetHeard \in NetTypes
           /\ NetHeard.state = net.state
           /\ NetHeard.lc = net.lc
           /\ NetHeard.frames = net.frames
           /\ NetHeard.timeout = net.timeout
  BY DEF NetTypes, NetHeard

LEMMA NetOpenedTypes ==
    ASSUME net \in NetTypes, NEW g \in Talkgroups
    PROVE  /\ NetOpened(g) \in NetTypes
           /\ NetOpened(g).state = "AUDIO"
           /\ NetOpened(g).lc = g
           /\ NetOpened(g).timeout = "running"
  BY Values DEF NetTypes, NetOpened, NetHeard

-----------------------------------------------------------------------------
(* Types.                                                                   *)

Sides == {"none", "rf", "net", "mixed"}

LEMMA AirTypes ==
    ASSUME air \in Sides
    PROVE  /\ AirOf("rf", air) \in Sides /\ AirOf("net", air) \in Sides
           /\ AirRf(air) \in Sides /\ AirRf("none") \in Sides
           /\ AirAfterSilence \in Sides
  BY DEF Sides, AirOf, AirRf, AirAfterSilence

LEMMA InitTypes == Init => TypeOK
<1> SUFFICES ASSUME Init PROVE TypeOK
  OBVIOUS
<1>1. rf \in RfTypes /\ net \in NetTypes
  BY Values, DMRCallsAssumption DEF Init, RfTypes, NetTypes
<1>2. QED BY <1>1, Values DEF Init, TypeOK

LEMMA FrameLossTypes ==
    ASSUME TypeOK, NEW r \in RfTypes, FrameLoss(r)
    PROVE  rf' \in RfTypes /\ air' \in Sides /\ leftOpen' \in BOOLEAN
  BY DroppedTypes DEF FrameLoss, TypeOK, Sides

LEMMA RfFrameTypes == ASSUME TypeOK, RfFrame PROVE TypeOK'
<1> USE DEF TypeOK, Sides
<1>1. /\ Heard(rf) \in RfTypes /\ Forgotten(Heard(rf)) \in RfTypes
      /\ EndRF(Heard(rf)) \in RfTypes /\ EndRF(Forgotten(Heard(rf))) \in RfTypes
  BY HeardTypes, ForgottenTypes, EndRFTypes
<1>2. ASSUME NEW g \in config.heard, VoiceRefused(g) PROVE TypeOK'
  BY <1>1, <1>2 DEF VoiceRefused, configVars, airVars, RfTypes
<1>3. ASSUME NEW g \in config.heard, VoiceRejected(g) PROVE TypeOK'
  BY Values, <1>3 DEF VoiceRejected, configVars, airVars, RfTypes
<1>4. ASSUME NEW g \in config.heard, VoiceHeader(g) PROVE TypeOK'
  <2>1. Opened(Heard(rf), g) \in RfTypes /\ g \in IDs
    BY <1>1, OpenedTypes, ConfigTypes, Values
  <2>2. QED BY <2>1, <1>4, AirTypes DEF VoiceHeader, configVars, airVars, RfTypes
<1>5. ASSUME NEW g \in config.heard, VoiceLateEntry(g) PROVE TypeOK'
  <2>1. Opened(rf, g) \in RfTypes /\ g \in IDs
    BY OpenedTypes, ConfigTypes, Values
  <2>2. QED BY <2>1, <1>5, AirTypes DEF VoiceLateEntry, configVars, airVars, RfTypes, NetTypes
<1>6. ASSUME NEW g \in config.heard, VoiceAnnounced(g) PROVE TypeOK'
  BY <1>6, OpenedTypes, ConfigTypes, AirTypes DEF VoiceAnnounced, configVars, airVars
<1>7. CASE LateEntry
  BY <1>7 DEF LateEntry, configVars, airVars, RfTypes
<1>8. CASE Voice
  BY <1>1, <1>8, AirTypes, ZenonT(40) DEF Voice, configVars, airVars, RfTypes, NetTypes
<1>9. CASE SyncIgnored
  BY <1>1, <1>9 DEF SyncIgnored, configVars, airVars
<1>10. CASE VoiceTerminator
  BY <1>1, <1>10 DEF VoiceTerminator, configVars, airVars
<1>11. ASSUME NEW g \in config.data, DataRefused(g) PROVE TypeOK'
  BY <1>1, <1>11 DEF DataRefused, configVars, airVars, RfTypes
<1>12. ASSUME NEW g \in config.data, NEW blocks \in 0..MaxBlocks, DataHeader(g, blocks)
       PROVE  TypeOK'
  <2> DEFINE r == [Heard(rf) EXCEPT !.frames = blocks, !.lc = g, !.state = "DATA",
                                    !.lastDstId = g]
  <2>1. r \in RfTypes
    BY <1>1, ConfigTypes, Values DEF RfTypes
  <2>2. rf' \in {r, EndRF(r)}
    BY <1>12 DEF DataHeader
  <2>3. rf' \in RfTypes
    BY <2>1, <2>2, EndRFTypes
  <2>4. QED BY <2>3, <1>12 DEF DataHeader, configVars, airVars
<1>13. CASE DataBlock
  <2>1. rf' \in RfTypes
    BY <1>1, <1>13, HeardTypes, DMRCallsAssumption DEF DataBlock, RfTypes
  <2>2. QED BY <2>1, <1>13 DEF DataBlock, configVars, airVars
<1>14. ASSUME NEW g \in config.heard, CsbkRejected(g) PROVE TypeOK'
  BY <1>1, <1>14 DEF CsbkRejected, configVars, airVars, RfTypes
<1>15. QED
  BY <1>2, <1>3, <1>4, <1>5, <1>6, <1>7, <1>8, <1>9, <1>10, <1>11, <1>12, <1>13, <1>14
  DEF RfFrame

LEMMA LostFrameTypes == ASSUME TypeOK, LostFrame PROVE TypeOK'
<1> USE DEF TypeOK, Sides
<1>1. CASE TooManyLost
  BY <1>1, ForgottenTypes, FrameLossTypes DEF LostFrame, configVars, airVars
<1>2. CASE ~TooManyLost
  <2>1. rf.frameLossCnt + 1 \in 0..(FrameLossThreshold + 1)
    BY <1>2, DMRCallsAssumption DEF TooManyLost, RfTypes
  <2>2. Forgotten(rf) \in RfTypes
    BY ForgottenTypes
  <2>3. QED BY <1>2, <2>1, <2>2, Values DEF LostFrame, configVars, airVars, RfTypes
<1>3. QED BY <1>1, <1>2

LEMMA NetFrameTypes == ASSUME TypeOK, NetFrame PROVE TypeOK'
<1> USE DEF TypeOK, Sides
<1>1. NetHeard \in NetTypes /\ EndNet(net) \in NetTypes
  BY NetHeardTypes, EndNetTypes
<1>2. ASSUME NEW g \in config.heard, NetIgnored(g) PROVE TypeOK'
  BY <1>1, <1>2 DEF NetIgnored, configVars, airVars
<1>3. ASSUME NEW g \in config.heard, NetVoiceHeader(g) PROVE TypeOK'
  BY <1>3, NetOpenedTypes, ConfigTypes DEF NetVoiceHeader, configVars, airVars
<1>4. ASSUME NEW g \in config.heard, NetLateEntry(g) PROVE TypeOK'
  BY <1>4, NetOpenedTypes, ConfigTypes DEF NetLateEntry, configVars, airVars, NetTypes
<1>5. ASSUME NEW g \in config.heard, NetVoice(g) PROVE TypeOK'
  BY <1>1, <1>5, AirTypes DEF NetVoice, configVars, airVars, NetTypes
<1>6. ASSUME NEW g \in config.heard, NetTerminator(g) PROVE TypeOK'
  BY <1>1, <1>6 DEF NetTerminator, configVars, airVars
<1>7. ASSUME NEW g \in config.data, NetDataBlock(g) PROVE TypeOK'
  <2>1. net' \in NetTypes
    BY <1>1, <1>7, NetHeardTypes, DMRCallsAssumption DEF NetDataBlock, NetTypes
  <2>2. leftOpen' \in BOOLEAN
    BY <1>7 DEF NetDataBlock, GivesWay
  <2>3. QED BY <2>1, <2>2, <1>7 DEF NetDataBlock, configVars
<1>8. ASSUME NEW g \in config.data, NEW blocks \in 0..MaxBlocks, NetDataHeader(g, blocks)
      PROVE  TypeOK'
  <2> DEFINE n == [NetHeard EXCEPT !.frames = blocks, !.lc = g, !.state = "DATA",
                                   !.lastDstId = g]
  <2>1. n \in NetTypes
    BY <1>1, ConfigTypes, Values DEF NetTypes
  <2>2. net' \in {n, EndNet(n)}
    BY <1>8 DEF NetDataHeader
  <2>3. net' \in NetTypes
    BY <2>1, <2>2, EndNetTypes
  <2>4. leftOpen' \in BOOLEAN
    BY <1>8 DEF NetDataHeader, GivesWay
  <2>5. QED BY <2>3, <2>4, <1>8 DEF NetDataHeader, configVars
<1>9. QED
  BY <1>2, <1>3, <1>4, <1>5, <1>6, <1>7, <1>8 DEF NetFrame

LEMMA ClockTypes == ASSUME TypeOK, Clock PROVE TypeOK'
<1> USE DEF TypeOK, Sides
<1>1. CASE TimeoutExpires
  BY <1>1, Values DEF TimeoutExpires, configVars, airVars, RfTypes, NetTypes
<1>2. CASE RfLossWatchdogExpires
  <2>1. [rf EXCEPT !.lossWatchdog = FALSE] \in RfTypes
    BY DEF RfTypes
  <2>2. QED
    BY <1>2, <2>1, ForgottenTypes, FrameLossTypes DEF RfLossWatchdogExpires, configVars
<1>3. CASE RfTGHangExpires
  BY <1>3, Values DEF RfTGHangExpires, airVars, RfTypes
<1>4. CASE NetTGHangExpires
  BY <1>4, Values DEF NetTGHangExpires, configVars, airVars, NetTypes
<1>5. CASE NetworkWatchdogExpires
  BY <1>5, EndNetTypes, AirTypes DEF NetworkWatchdogExpires, configVars, airVars
<1>6. CASE PacketTimerExpires
  BY <1>6, AirTypes DEF PacketTimerExpires, configVars, airVars
<1>7. CASE RejectedReset
  <2>1. [rf EXCEPT !.state = "LISTENING", !.frames = 0] \in RfTypes
    BY Values DEF RfTypes
  <2>2. [net EXCEPT !.frames = 0] \in NetTypes
    BY Values DEF NetTypes
  <2>3. QED BY <1>7, <2>1, <2>2, ForgottenTypes DEF RejectedReset, configVars, airVars
<1>8. CASE FrameLossCounted
  BY <1>8, ForgottenTypes, FrameLossTypes DEF FrameLossCounted, configVars, airVars
<1>9. QED
  BY <1>1, <1>2, <1>3, <1>4, <1>5, <1>6, <1>7, <1>8 DEF Clock

LEMMA NextTypes == TypeOK /\ [Next]_vars => TypeOK'
<1> SUFFICES ASSUME TypeOK, [Next]_vars PROVE TypeOK'
  OBVIOUS
<1>1. ASSUME NEW g \in config.heard, permittedTG(g) PROVE TypeOK'
  BY <1>1, ConfigTypes, Values DEF permittedTG, airVars, TypeOK
<1>2. CASE UNCHANGED vars
  BY <1>2 DEF TypeOK, vars, configVars, airVars
<1>3. QED
  BY <1>1, <1>2, RfFrameTypes, LostFrameTypes, NetFrameTypes, ClockTypes DEF Next

\* Every variable keeps its type: in particular the count of lost frames stays within one
\* more than the threshold, and no packet counts its blocks below zero.
THEOREM TypeCorrect == Spec => []TypeOK
  BY InitTypes, NextTypes, PTL DEF Spec

-----------------------------------------------------------------------------
(* Link controls.                                                           *)

\* What a handler writes of a call or a packet has its link control.
HasLC(r) == r.state \in {"AUDIO", "DATA"} => r.lc # NoId

LEMMA NoIdNoTalkgroup ==
    ASSUME TypeOK, NEW g \in config.heard \cup config.data
    PROVE  g # NoId
  BY ConfigTypes, DMRCallsAssumption

LEMMA FrameLossKeepsLC == ASSUME NEW r \in RfTypes, FrameLoss(r) PROVE HasLC(rf')
  BY DroppedTypes DEF FrameLoss, HasLC

LEMMA RfFrameKeepsLC == ASSUME TypeOK, LinkControlKept, RfFrame PROVE HasLC(rf')
<1> USE DEF HasLC
<1>1. rf \in RfTypes /\ HasLC(rf)
  BY DEF TypeOK, LinkControlKept
<1>2. /\ Heard(rf).state = rf.state /\ Heard(rf).lc = rf.lc /\ Heard(rf) \in RfTypes
      /\ EndRF(Heard(rf)).state = "LISTENING"
      /\ EndRF(Forgotten(Heard(rf))).state = "LISTENING"
      /\ Forgotten(Heard(rf)).state = rf.state /\ Forgotten(Heard(rf)).lc = rf.lc
  BY <1>1, HeardTypes, ForgottenTypes, EndRFTypes
<1>3. ASSUME NEW g \in config.heard,
             VoiceRefused(g) \/ VoiceRejected(g) \/ VoiceHeader(g) \/ VoiceLateEntry(g)
             \/ VoiceAnnounced(g) \/ CsbkRejected(g)
      PROVE  HasLC(rf')
  <2>1. g \in Talkgroups /\ g # NoId
    BY ConfigTypes, NoIdNoTalkgroup
  <2>2. /\ Opened(rf, g) \in RfTypes /\ Opened(rf, g).lc = g
        /\ Opened(Heard(rf), g) \in RfTypes /\ Opened(Heard(rf), g).lc = g
    BY <1>1, <1>2, <2>1, OpenedTypes
  <2>3. CASE VoiceRefused(g)
    BY <1>1, <1>2, <2>3 DEF VoiceRefused, RfTypes
  <2>4. CASE VoiceRejected(g)
    BY <1>1, <2>4 DEF VoiceRejected, RfTypes
  <2>5. CASE VoiceHeader(g)
    BY <2>1, <2>2, <2>5 DEF VoiceHeader, RfTypes
  <2>6. CASE VoiceLateEntry(g)
    BY <2>1, <2>2, <2>6 DEF VoiceLateEntry, RfTypes
  <2>7. CASE VoiceAnnounced(g)
    BY <2>1, <2>2, <2>7 DEF VoiceAnnounced
  <2>8. CASE CsbkRejected(g)
    BY <1>2, <2>8 DEF CsbkRejected, RfTypes
  <2>9. QED BY <1>3, <2>3, <2>4, <2>5, <2>6, <2>7, <2>8
<1>4. CASE LateEntry
  BY <1>1, <1>4 DEF LateEntry, RfTypes
<1>5. CASE Voice
  BY <1>1, <1>2, <1>5 DEF Voice, RfTypes
<1>6. CASE SyncIgnored
  BY <1>1, <1>2, <1>6 DEF SyncIgnored
<1>7. CASE VoiceTerminator
  BY <1>1, <1>2, <1>7 DEF VoiceTerminator
<1>8. ASSUME NEW g \in config.data, DataRefused(g) PROVE HasLC(rf')
  BY <1>2, <1>8 DEF DataRefused, RfTypes
<1>9. ASSUME NEW g \in config.data, NEW blocks \in 0..MaxBlocks, DataHeader(g, blocks)
      PROVE  HasLC(rf')
  <2> DEFINE r == [Heard(rf) EXCEPT !.frames = blocks, !.lc = g, !.state = "DATA",
                                    !.lastDstId = g]
  <2>1. r \in RfTypes /\ r.lc = g /\ g # NoId
    BY <1>2, ConfigTypes, NoIdNoTalkgroup, Values DEF RfTypes
  <2>2. rf' \in {r, EndRF(r)}
    BY <1>9 DEF DataHeader
  <2>3. QED BY <2>1, <2>2, EndRFTypes
<1>10. CASE DataBlock
  BY <1>1, <1>2, <1>10 DEF DataBlock, RfTypes
<1>11. QED
  BY <1>3, <1>4, <1>5, <1>6, <1>7, <1>8, <1>9, <1>10 DEF RfFrame

LEMMA NetFrameKeepsLC == ASSUME TypeOK, LinkControlKept, NetFrame PROVE HasLC(net')
<1> USE DEF HasLC
<1>1. net \in NetTypes /\ HasLC(net)
  BY DEF TypeOK, LinkControlKept
<1>2. /\ NetHeard \in NetTypes /\ NetHeard.state = net.state /\ NetHeard.lc = net.lc
      /\ EndNet(net).state = "IDLE"
  BY <1>1, NetHeardTypes, EndNetTypes
<1>3. ASSUME NEW g \in config.heard,
             NetIgnored(g) \/ NetVoiceHeader(g) \/ NetLateEntry(g) \/ NetVoice(g)
             \/ NetTerminator(g)
      PROVE  HasLC(net')
  <2>1. NetOpened(g) \in NetTypes /\ NetOpened(g).lc = g /\ g # NoId
    BY <1>1, ConfigTypes, NoIdNoTalkgroup, NetOpenedTypes
  <2>2. QED
    BY <1>1, <1>2, <1>3, <2>1
    DEF NetIgnored, NetVoiceHeader, NetLateEntry, NetVoice, NetTerminator, NetTypes
<1>4. ASSUME NEW g \in config.data, NetDataBlock(g) PROVE HasLC(net')
  BY <1>1, <1>2, <1>4 DEF NetDataBlock, NetTypes
<1>5. ASSUME NEW g \in config.data, NEW blocks \in 0..MaxBlocks, NetDataHeader(g, blocks)
      PROVE  HasLC(net')
  <2> DEFINE n == [NetHeard EXCEPT !.frames = blocks, !.lc = g, !.state = "DATA",
                                   !.lastDstId = g]
  <2>1. n \in NetTypes /\ n.lc = g /\ g # NoId
    BY <1>2, ConfigTypes, NoIdNoTalkgroup, Values DEF NetTypes
  <2>2. net' \in {n, EndNet(n)}
    BY <1>5 DEF NetDataHeader
  <2>3. QED BY <2>1, <2>2, EndNetTypes
<1>6. QED
  BY <1>3, <1>4, <1>5 DEF NetFrame

LEMMA ClockKeepsLC == ASSUME TypeOK, LinkControlKept, Clock PROVE HasLC(rf') /\ HasLC(net')
<1> USE DEF HasLC
<1>1. rf \in RfTypes /\ HasLC(rf) /\ net \in NetTypes /\ HasLC(net)
  BY DEF TypeOK, LinkControlKept
<1>2. Forgotten(rf).state = rf.state /\ Forgotten(rf).lc = rf.lc
  BY <1>1, ForgottenTypes
<1>3. CASE TimeoutExpires
  BY <1>1, <1>3 DEF TimeoutExpires, RfTypes, NetTypes
<1>4. CASE RfLossWatchdogExpires
  <2>1. [rf EXCEPT !.lossWatchdog = FALSE] \in RfTypes
    BY <1>1 DEF RfTypes
  <2>2. HasLC(rf')
    BY <1>4, <2>1, ForgottenTypes, FrameLossKeepsLC DEF RfLossWatchdogExpires
  <2>3. QED BY <1>1, <1>4, <2>2 DEF RfLossWatchdogExpires
<1>5. CASE RfTGHangExpires
  BY <1>1, <1>5 DEF RfTGHangExpires, RfTypes
<1>6. CASE NetTGHangExpires
  BY <1>1, <1>6 DEF NetTGHangExpires, NetTypes
<1>7. CASE NetworkWatchdogExpires
  BY <1>1, <1>7, EndNetTypes DEF NetworkWatchdogExpires
<1>8. CASE PacketTimerExpires
  BY <1>1, <1>8 DEF PacketTimerExpires
<1>9. CASE RejectedReset
  <2>1. /\ [rf EXCEPT !.state = "LISTENING", !.frames = 0] \in RfTypes
        /\ [rf EXCEPT !.state = "LISTENING", !.frames = 0].state = "LISTENING"
    BY <1>1, Values DEF RfTypes
  <2>2. HasLC(rf')
    BY <1>9, <2>1, ForgottenTypes DEF RejectedReset
  <2>3. HasLC(net')
    BY <1>1, <1>9 DEF RejectedReset, NetTypes
  <2>4. QED BY <2>2, <2>3
<1>10. CASE FrameLossCounted
  BY <1>1, <1>2, <1>10, FrameLossKeepsLC DEF FrameLossCounted
<1>11. QED
  BY <1>3, <1>4, <1>5, <1>6, <1>7, <1>8, <1>9, <1>10 DEF Clock

LEMMA NextKeepsLC ==
    TypeOK /\ LinkControlKept /\ [Next]_vars => LinkControlKept'
<1> SUFFICES ASSUME TypeOK, LinkControlKept, [Next]_vars PROVE HasLC(rf') /\ HasLC(net')
  BY DEF LinkControlKept, HasLC
<1>1. rf \in RfTypes /\ HasLC(rf) /\ net \in NetTypes /\ HasLC(net)
  BY DEF TypeOK, LinkControlKept, HasLC
<1>2. CASE RfFrame
  <2>1. net'.state = net.state /\ net'.lc = net.lc
    BY <1>1, <1>2 DEF RfFrame, VoiceRefused, VoiceRejected, VoiceHeader, VoiceLateEntry,
       VoiceAnnounced, CsbkRejected, LateEntry, Voice, SyncIgnored, VoiceTerminator, DataRefused,
       DataHeader, DataBlock, NetTypes
  <2>2. QED BY <1>1, <1>2, <2>1, RfFrameKeepsLC DEF HasLC
<1>3. CASE LostFrame
  <2>1. HasLC(rf')
    BY <1>1, <1>3, ForgottenTypes, FrameLossKeepsLC DEF LostFrame, HasLC, RfTypes
  <2>2. QED BY <1>1, <1>3, <2>1 DEF LostFrame
<1>4. CASE NetFrame
  <2>1. rf' = rf
    BY <1>4 DEF NetFrame, NetIgnored, NetVoiceHeader, NetLateEntry, NetVoice, NetTerminator,
       NetDataBlock, NetDataHeader
  <2>2. QED BY <1>1, <1>4, <2>1, NetFrameKeepsLC
<1>5. CASE Clock
  BY <1>5, ClockKeepsLC
<1>6. ASSUME NEW g \in config.heard, permittedTG(g) PROVE HasLC(rf') /\ HasLC(net')
  BY <1>1, <1>6 DEF permittedTG
<1>7. CASE UNCHANGED vars
  BY <1>1, <1>7 DEF vars
<1>8. QED
  BY <1>2, <1>3, <1>4, <1>5, <1>6, <1>7 DEF Next

\* The link control of a call or packet in progress is never nullptr: whatever ended,
\* refused, rejected or replaced what came before, on either side.
THEOREM LinkControlsKept == Spec => []LinkControlKept
<1>1. Init => LinkControlKept
  BY DEF Init, LinkControlKept
<1>2. QED BY <1>1, TypeCorrect, NextKeepsLC, PTL DEF Spec

-----------------------------------------------------------------------------
(* One voice at a time.                                                     *)

\* Voice of the network is on the air during its call only, or was left open; voice of
\* local radios never during a call of the network.  A call is left open by a time-out or
\* a packet.
SideOfAir ==
    /\ air = "net" => net.state = "AUDIO" \/ leftOpen
    /\ air = "rf" => net.state # "AUDIO"
    /\ air = "mixed" => leftOpen
    /\ net.timeout = "expired" => config.timeouts
    /\ leftOpen => config.timeouts \/ config.data # {}

\* A step that leaves the network call alone, and closes the air or leaves it as it is.
LEMMA AirKeepsSide ==
    ASSUME SideOfAir, air' \in {air, "none"}, leftOpen' = leftOpen, config' = config,
           net'.state = net.state, net'.timeout = net.timeout
    PROVE  SideOfAir'
  BY DEF SideOfAir

LEMMA FrameLossKeepsSide ==
    ASSUME SideOfAir, NEW r, FrameLoss(r), UNCHANGED <<config, net>>
    PROVE  SideOfAir'
  BY DEF FrameLoss, SideOfAir

LEMMA RfFrameKeepsSide == ASSUME TypeOK, SideOfAir, RfFrame PROVE SideOfAir'
<1> USE DEF configVars, airVars
<1>1. net \in NetTypes /\ air \in Sides
  BY DEF TypeOK, Sides
<1>2. ASSUME NEW g \in config.heard,
             VoiceHeader(g) \/ VoiceLateEntry(g) \/ VoiceAnnounced(g)
      PROVE  SideOfAir'
  <2>1. /\ air' = AirRf("none") /\ leftOpen' = FALSE /\ config' = config
        /\ net'.state = net.state /\ net'.timeout = net.timeout
    BY <1>1, <1>2 DEF VoiceHeader, VoiceLateEntry, VoiceAnnounced, NetTypes
  <2>2. air' = "none" \/ (air' = "rf" /\ net.state = "IDLE")
    BY <2>1 DEF AirRf, AirOf
  <2>3. QED BY <2>1, <2>2 DEF SideOfAir
<1>3. ASSUME NEW g \in config.heard, VoiceRefused(g) \/ VoiceRejected(g) \/ CsbkRejected(g)
      PROVE  SideOfAir'
  BY <1>3, AirKeepsSide DEF VoiceRefused, VoiceRejected, CsbkRejected
<1>4. CASE Voice
  <2>1. /\ air' \in {air, AirRf(air)} /\ leftOpen' = leftOpen /\ config' = config
        /\ net'.state = net.state /\ net'.timeout = net.timeout
    BY <1>1, <1>4 DEF Voice, NetTypes
  <2>2. QED BY <1>1, <2>1 DEF AirRf, AirOf, SideOfAir, Sides
<1>5. CASE LateEntry \/ SyncIgnored \/ DataBlock
  BY <1>5, AirKeepsSide DEF LateEntry, SyncIgnored, DataBlock
<1>6. CASE VoiceTerminator
  BY <1>6, AirKeepsSide DEF VoiceTerminator
<1>7. ASSUME NEW g \in config.data, NEW blocks \in 0..MaxBlocks,
             DataRefused(g) \/ DataHeader(g, blocks)
      PROVE  SideOfAir'
  BY <1>7, AirKeepsSide DEF DataRefused, DataHeader
<1>8. 0 \in 0..MaxBlocks
  BY Values
<1>9. QED
  BY <1>2, <1>3, <1>4, <1>5, <1>6, <1>7, <1>8 DEF RfFrame

LEMMA LostFrameKeepsSide == ASSUME SideOfAir, LostFrame PROVE SideOfAir'
  BY FrameLossKeepsSide, AirKeepsSide DEF LostFrame, configVars, airVars

LEMMA NetFrameKeepsSide == ASSUME TypeOK, SideOfAir, NetFrame PROVE SideOfAir'
<1> USE DEF configVars, airVars
<1>1. /\ net \in NetTypes /\ air \in Sides
      /\ NetHeard \in NetTypes
      /\ NetHeard.state = net.state /\ NetHeard.timeout = net.timeout
      /\ EndNet(net).state = "IDLE" /\ EndNet(net).timeout = "stopped"
  BY NetHeardTypes, EndNetTypes DEF TypeOK, Sides
<1>2. ASSUME NEW g \in config.heard, NetIgnored(g) PROVE SideOfAir'
  BY <1>1, <1>2, AirKeepsSide DEF NetIgnored
<1>3. ASSUME NEW g \in config.heard, NetVoiceHeader(g) \/ NetLateEntry(g) PROVE SideOfAir'
  <2>1. /\ NetOpened(g) \in NetTypes /\ NetOpened(g).state = "AUDIO"
        /\ NetOpened(g).timeout = "running"
    BY <1>1, ConfigTypes, NetOpenedTypes
  <2>2. /\ net'.state = "AUDIO" /\ net'.timeout = "running"
        /\ air' = "net" /\ leftOpen' = FALSE /\ config' = config
    BY <1>3, <2>1 DEF NetVoiceHeader, NetLateEntry, NetTypes
  <2>3. QED BY <2>2 DEF SideOfAir
<1>4. ASSUME NEW g \in config.heard, NetVoice(g) PROVE SideOfAir'
  <2>1. /\ air' \in {air, AirOf("net", air)} /\ leftOpen' = leftOpen /\ config' = config
        /\ net.state = "AUDIO" /\ net'.state = net.state /\ net'.timeout = net.timeout
    BY <1>1, <1>4 DEF NetVoice, NetTypes
  <2>2. QED BY <1>1, <2>1 DEF AirOf, SideOfAir, Sides
<1>5. ASSUME NEW g \in config.heard, NetTerminator(g) PROVE SideOfAir'
  BY <1>1, <1>5 DEF NetTerminator, SideOfAir, Sides
<1>6. ASSUME NEW g \in config.data,
             NetDataBlock(g) \/ (\E blocks \in 0..MaxBlocks : NetDataHeader(g, blocks))
      PROVE  SideOfAir'
  <2>1. leftOpen' = (leftOpen \/ net.state = "AUDIO") /\ UNCHANGED <<config, air>>
    BY <1>6 DEF NetDataBlock, NetDataHeader, GivesWay
  <2>2. net'.state # "AUDIO" /\ net'.timeout \in {net.timeout, "stopped"}
    <3>1. CASE NetDataBlock(g)
      BY <1>1, <3>1 DEF NetDataBlock, NetTypes
    <3>2. ASSUME NEW blocks \in 0..MaxBlocks, NetDataHeader(g, blocks)
          PROVE  net'.state # "AUDIO" /\ net'.timeout \in {net.timeout, "stopped"}
      <4> DEFINE n == [NetHeard EXCEPT !.frames = blocks, !.lc = g, !.state = "DATA",
                                       !.lastDstId = g]
      <4>1. n \in NetTypes /\ n.state = "DATA" /\ n.timeout = net.timeout
        BY <1>1, ConfigTypes, Values DEF NetTypes
      <4>2. net' \in {n, EndNet(n)}
        BY <3>2 DEF NetDataHeader
      <4> HIDE DEF n
      <4>3. QED BY <4>1, <4>2, EndNetTypes
    <3>3. QED BY <1>6, <3>1, <3>2
  <2>3. QED BY <2>1, <2>2 DEF SideOfAir
<1>7. QED
  BY <1>2, <1>3, <1>4, <1>5, <1>6 DEF NetFrame

LEMMA ClockKeepsSide == ASSUME TypeOK, SideOfAir, Clock PROVE SideOfAir'
<1> USE DEF configVars, airVars
<1>1. net \in NetTypes /\ air \in Sides
  BY DEF TypeOK, Sides
<1>2. CASE TimeoutExpires
  <2>1. config.timeouts /\ UNCHANGED <<config, air, leftOpen>>
    BY <1>2 DEF TimeoutExpires
  <2>2. net'.state = net.state
    BY <1>1, <1>2 DEF TimeoutExpires, NetTypes
  <2>3. QED BY <2>1, <2>2 DEF SideOfAir
<1>3. CASE RfLossWatchdogExpires
  BY <1>3, FrameLossKeepsSide DEF RfLossWatchdogExpires
<1>4. CASE RfTGHangExpires
  BY <1>4, AirKeepsSide DEF RfTGHangExpires
<1>5. CASE NetTGHangExpires
  <2>1. net'.state = net.state /\ net'.timeout = net.timeout
    BY <1>1, <1>5 DEF NetTGHangExpires, NetTypes
  <2>2. QED BY <1>5, <2>1, AirKeepsSide DEF NetTGHangExpires
<1>6. CASE NetworkWatchdogExpires
  <2>1. net'.state = "IDLE" /\ net'.timeout = "stopped"
    BY <1>1, <1>6, EndNetTypes DEF NetworkWatchdogExpires
  <2>2. /\ air' = AirAfterSilence /\ config' = config
        /\ leftOpen' = IF net.state = "AUDIO" THEN net.timeout = "expired" ELSE leftOpen
    BY <1>6 DEF NetworkWatchdogExpires
  <2>3. CASE net.state = "AUDIO" /\ net.timeout = "expired"
    BY <2>1, <2>2, <2>3 DEF AirAfterSilence, SideOfAir
  <2>4. CASE net.state = "AUDIO" /\ net.timeout # "expired"
    BY <2>1, <2>2, <2>4 DEF AirAfterSilence, SideOfAir
  <2>5. CASE net.state # "AUDIO"
    BY <2>1, <2>2, <2>5 DEF AirAfterSilence, SideOfAir
  <2>6. QED BY <2>3, <2>4, <2>5
<1>7. CASE PacketTimerExpires
  BY <1>1, <1>7 DEF PacketTimerExpires, AirOf, SideOfAir, Sides
<1>8. CASE RejectedReset
  <2>1. net'.state = net.state /\ net'.timeout = net.timeout
    BY <1>1, <1>8 DEF RejectedReset, NetTypes
  <2>2. QED BY <1>8, <2>1, AirKeepsSide DEF RejectedReset
<1>9. CASE FrameLossCounted
  BY <1>9, FrameLossKeepsSide, AirKeepsSide DEF FrameLossCounted
<1>10. QED
  BY <1>2, <1>3, <1>4, <1>5, <1>6, <1>7, <1>8, <1>9 DEF Clock

LEMMA NextKeepsSide == TypeOK /\ SideOfAir /\ [Next]_vars => SideOfAir'
<1> SUFFICES ASSUME TypeOK, SideOfAir, [Next]_vars PROVE SideOfAir'
  OBVIOUS
<1>1. ASSUME NEW g \in config.heard, permittedTG(g) PROVE SideOfAir'
  BY <1>1, AirKeepsSide DEF permittedTG, airVars
<1>2. CASE UNCHANGED vars
  BY <1>2, AirKeepsSide DEF vars, configVars, airVars
<1>3. QED
  BY <1>1, <1>2, RfFrameKeepsSide, LostFrameKeepsSide, NetFrameKeepsSide, ClockKeepsSide
  DEF Next

\* On every slot, with time-outs and packets too: no voice is put on the air in the middle
\* of the voice of the other side unless a network call was left open, and on a slot
\* without time-outs and packets none ever is.
THEOREM OneVoiceAtATime == Spec => []OneVoice
<1>1. Init => SideOfAir
  BY DEF Init, SideOfAir
<1>2. SideOfAir => OneVoice
  BY DEF SideOfAir, OneVoice
<1>3. QED BY <1>1, <1>2, TypeCorrect, NextKeepsSide, PTL DEF Spec

=============================================================================
