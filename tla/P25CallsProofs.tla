--------------------------- MODULE P25CallsProofs ---------------------------
(***************************************************************************)
(* Proofs about the call state of a P25 host, for any talkgroups and any   *)
(* threshold of lost frames.                                               *)
(***************************************************************************)
EXTENDS P25Calls, TLAPS

-----------------------------------------------------------------------------
(* What the parts of the handlers keep.                                     *)

LEMMA Values ==
    /\ NoId \in IDs
    /\ Talkgroups \subseteq IDs
    /\ 0 \in 0..(FrameLossThreshold + 1)
    /\ {"stopped", "running", "expired"} = TimerStates
    /\ {"LISTENING", "AUDIO", "DATA", "REJECTED"} = States
  BY P25CallsAssumption DEF IDs, TimerStates, States

LEMMA ConfigTypes ==
    ASSUME TypeOK
    PROVE  config.heard \subseteq Talkgroups /\ config.netHeard \subseteq Talkgroups
  BY P25CallsAssumption DEF TypeOK

Duids == {"TDU", "HDU", "LDU1", "LDU2"}

\* What the helpers leave of a reception: its state, its count and its timers.
Same(r, s) ==
    /\ s \in RfTypes
    /\ s.state = r.state
    /\ s.frameLossCnt = r.frameLossCnt
    /\ s.lossWatchdog = r.lossWatchdog
    /\ s.timeout = r.timeout

LEMMA HeardSame ==
    ASSUME NEW r \in RfTypes, NEW duid \in Duids
    PROVE  Same(r, Heard(r, duid))
  BY DEF Heard, Same, RfTypes, Duids

LEMMA resetRFSame == ASSUME NEW r \in RfTypes PROVE Same(r, resetRF(r))
  BY Values DEF resetRF, Same, RfTypes

LEMMA RefusedParts ==
    ASSUME NEW r \in RfTypes
    PROVE  /\ Refused(r) \in RfTypes
           /\ Refused(r).state = "LISTENING"
           /\ Refused(r).frameLossCnt = r.frameLossCnt
           /\ Refused(r).lossWatchdog = r.lossWatchdog
           /\ Refused(r).timeout = r.timeout
  BY Values DEF Refused, resetRF, RfTypes

LEMMA EndedParts ==
    ASSUME NEW r \in RfTypes
    PROVE  /\ Ended(r) \in RfTypes
           /\ Ended(r).state = "LISTENING"
           /\ Ended(r).frameLossCnt = 0
  BY Values DEF Ended, RfTypes

LEMMA ForgottenParts ==
    ASSUME NEW r \in RfTypes
    PROVE  /\ Forgotten(r) \in RfTypes
           /\ Forgotten(r).state = r.state
           /\ Forgotten(r).frameLossCnt = 0
           /\ Forgotten(r).lossWatchdog = r.lossWatchdog
           /\ Forgotten(r).timeout = r.timeout
  BY Values DEF Forgotten, RfTypes

LEMMA DroppedParts ==
    ASSUME NEW r \in RfTypes
    PROVE  /\ Dropped(r) \in RfTypes
           /\ Dropped(r).state = "LISTENING"
           /\ Dropped(r).frameLossCnt = r.frameLossCnt
           /\ Dropped(r).lossWatchdog = r.lossWatchdog
  BY Values DEF Dropped, resetRF, RfTypes

LEMMA RfAtEntrySame == ASSUME rf \in RfTypes PROVE Same(rf, RfAtEntry)
  BY resetRFSame DEF RfAtEntry, Same

\* What the helpers leave of a network call.
SameNet(n, m) == m \in NetTypes /\ m.state = n.state /\ m.timeout = n.timeout

LEMMA resetNetSame == ASSUME NEW n \in NetTypes PROVE SameNet(n, resetNet(n))
  BY Values DEF resetNet, SameNet, NetTypes

LEMMA PreemptedSame == ASSUME NEW n \in NetTypes PROVE SameNet(n, Preempted(n))
  BY resetNetSame DEF Preempted, SameNet

LEMMA NetAtEntrySame == ASSUME net \in NetTypes PROVE SameNet(net, NetAtEntry)
  BY Values DEF NetAtEntry, resetNet, SameNet, NetTypes

LEMMA NetHeardSame == ASSUME net \in NetTypes PROVE SameNet(net, NetHeard)
  BY DEF NetHeard, SameNet, NetTypes

LEMMA GoesOnSame == ASSUME NEW n \in NetTypes PROVE SameNet(n, GoesOn(n))
  BY DEF GoesOn, SameNet, NetTypes

LEMMA CheckedSame == ASSUME NEW n \in NetTypes PROVE SameNet(n, Checked(n))
  BY resetNetSame DEF Checked, SameNet

LEMMA NetEndedParts ==
    ASSUME NEW n \in NetTypes
    PROVE  /\ NetEnded(n) \in NetTypes
           /\ NetEnded(n).state = "IDLE"
           /\ NetEnded(n).timeout = "stopped"
  BY Values DEF NetEnded, resetNet, NetTypes

LEMMA BegunParts ==
    ASSUME NEW n \in NetTypes
    PROVE  /\ Begun(n) \in NetTypes
           /\ Begun(n).state = "AUDIO"
           /\ Begun(n).timeout = "running"
  BY Values DEF Begun, NetTypes

-----------------------------------------------------------------------------
(* The inductive invariant.                                                 *)

Sides == {"none", "rf", "net", "mixed"}

\* Lost frames that are counted are watched, also between two calls.
Watched == rf.frameLossCnt > 0 => rf.lossWatchdog

\* Without data packets nothing is in the DATA state, and voice is timed.
Timed ==
    ~config.dataPackets =>
        /\ rf.state # "DATA" /\ net.state # "DATA"
        /\ rf.state = "AUDIO" => rf.timeout # "stopped"
        /\ net.state = "AUDIO" => net.timeout # "stopped"

\* Voice that is received or sent has set m_hadVoice; where none is received m_tailOnIdle
\* is set, or there was none to end, or a refusal broke it off.
Closed ==
    ~config.dataPackets =>
        /\ rf.state = "AUDIO" \/ net.state = "AUDIO" \/ air # "none" => hadVoice
        /\ rf.state \in {"LISTENING", "REJECTED"} /\ net.state = "IDLE" /\ ~tailOnIdle
           /\ ~brokenOff => ~hadVoice
        /\ brokenOff => ~config.authoritative

IInv == TypeOK /\ Watched /\ Timed /\ Closed

LEMMA AirTypes ==
    ASSUME air \in Sides
    PROVE  /\ \A t \in RfTypes : AirVoice("rf", t) \in Sides /\ Terminator(t) \in {air, "none"}
           /\ \A t \in NetTypes : AirVoice("net", t) \in Sides /\ Terminator(t) \in {air, "none"}
           /\ AirPreempted \in {air, "none"}
  BY DEF AirVoice, Terminator, AirPreempted, Voice, Sides

LEMMA InitIInv == Init => IInv
<1> SUFFICES ASSUME Init PROVE IInv
  OBVIOUS
<1>1. TypeOK
  BY Values DEF Init, TypeOK, RfTypes, NetTypes
<1>2. QED BY <1>1 DEF Init, IInv, Watched, Timed, Closed

-----------------------------------------------------------------------------
(* Frames of local radios.                                                  *)

LEMMA UndecodableKeeps == ASSUME IInv, HDUUndecodable \/ LDU1Undecodable PROVE IInv'
<1>1. /\ Same(rf, resetRF(Heard(rf, "HDU"))) /\ Same(rf, Heard(rf, "LDU1"))
  BY HeardSame, resetRFSame DEF IInv, TypeOK, Same, Duids
<1>2. QED
  BY <1>1 DEF HDUUndecodable, LDU1Undecodable, configVars, tailVars, IInv, TypeOK, Same,
     Watched, Timed, Closed

LEMMA HeaderKeeps ==
    ASSUME IInv, NEW g \in config.heard, HDURefused(g) \/ HDU(g)
    PROVE  IInv'
<1> USE DEF IInv, TypeOK, Sides
<1>1. Same(rf, Heard(rf, "HDU")) /\ Same(rf, resetRF(Heard(rf, "HDU")))
  BY HeardSame, resetRFSame DEF Same, Duids
<1>3. CASE HDURefused(g)
  <2>1. /\ rf' \in RfTypes /\ rf'.state = "LISTENING"
        /\ rf'.frameLossCnt = rf.frameLossCnt /\ rf'.lossWatchdog = rf.lossWatchdog
    BY <1>1, <1>3, RefusedParts DEF HDURefused, Same
  <2>2. config.authoritative => net.state # "IDLE"
    BY <1>3 DEF HDURefused, NotPermitted, IsCollision
  <2>3. brokenOff' = (brokenOff \/ (rf.state = "AUDIO" /\ net.state = "IDLE"))
    BY <1>3 DEF HDURefused, BreaksOff
  <2>4. brokenOff' \in BOOLEAN
    BY <2>3
  <2>5. QED
    BY <1>3, <2>1, <2>2, <2>3, <2>4
    DEF HDURefused, configVars, Watched, Timed, Closed
<1>4. CASE HDU(g)
  <2>1. Same(rf, rf')
    BY <1>1, <1>4, ConfigTypes, Values DEF HDU, Same, RfTypes
  <2>2. SameNet(net, net')
    BY <1>4, PreemptedSame DEF HDU, SameNet, NetTypes
  <2>3. air' \in {air, "none"}
    BY <1>4, AirTypes DEF HDU
  <2>4. QED
    BY <1>4, <2>1, <2>2, <2>3 DEF HDU, configVars, tailVars, Same, SameNet, Watched, Timed,
       Closed
<1>5. QED BY <1>3, <1>4

LEMMA EntryKeeps ==
    ASSUME IInv, NEW g \in config.heard,
           LDU1Refused(g) \/ LDU1Rejected(g) \/ LDU1Starts(g)
    PROVE  IInv'
<1> USE DEF IInv, TypeOK, Sides
<1>1. Same(rf, Heard(rf, "LDU1")) /\ g \in IDs
  BY HeardSame, ConfigTypes, Values DEF Duids
<1>2. Same(rf, RfAtEntry) /\ SameNet(net, NetAtEntry)
  BY RfAtEntrySame, NetAtEntrySame
<1>3. Same(rf, Heard(RfAtEntry, "LDU1")) /\ Same(rf, Heard(RfAtEntry, "HDU"))
  BY <1>2, HeardSame DEF Same, Duids
<1>4. AirPreempted \in {air, "none"}
  BY AirTypes
<1>6. CASE LDU1Refused(g)
  <2>1. /\ rf' \in RfTypes /\ rf'.state = "LISTENING"
        /\ rf'.frameLossCnt = rf.frameLossCnt /\ rf'.lossWatchdog = rf.lossWatchdog
    BY <1>1, <1>6, RefusedParts DEF LDU1Refused, Same
  <2>2. QED
    BY <1>6, <2>1 DEF LDU1Refused, configVars, tailVars, Watched, Timed, Closed
<1>7. CASE LDU1Rejected(g)
  <2>1. /\ rf' \in RfTypes /\ rf'.state = "REJECTED"
        /\ rf'.frameLossCnt = rf.frameLossCnt /\ rf'.lossWatchdog = rf.lossWatchdog
    <3> DEFINE r == Heard(RfAtEntry, "LDU1")
    <3>1. rf' = [r EXCEPT !.state = "REJECTED", !.lastDstId = NoId, !.tgHang = FALSE]
      BY <1>7 DEF LDU1Rejected
    <3>2. Same(rf, r) /\ "REJECTED" \in States /\ NoId \in IDs
      BY <1>3, Values
    <3> HIDE DEF r
    <3>3. QED BY <3>1, <3>2 DEF Same, RfTypes
  <2>2. QED
    BY <1>2, <1>4, <1>7, <2>1
    DEF LDU1Rejected, configVars, tailVars, SameNet, Watched, Timed, Closed
<1>8. CASE LDU1Starts(g)
  <2>1. /\ Started(g) \in RfTypes /\ Started(g).state = "AUDIO"
        /\ Started(g).timeout = "running"
        /\ Started(g).frameLossCnt = rf.frameLossCnt
        /\ Started(g).lossWatchdog = rf.lossWatchdog
    <3> DEFINE r == Heard(RfAtEntry, "HDU")
               lc == IF LateEntry THEN g ELSE rf.lastHDU
    <3>1. lc \in IDs /\ g \in IDs /\ Same(rf, r)
      BY <1>1, <1>3 DEF RfTypes
    <3>2. Started(g) = [r EXCEPT
             !.state = "AUDIO", !.tgHang = TRUE, !.lastDstId = g, !.lastLDU1 = g,
             !.lc = lc, !.lastHDU = NoId, !.timeout = "running"]
      BY DEF Started
    <3>3. HIDE DEF r, lc
    <3>4. QED BY <3>1, <3>2, Values, ZenonT(30) DEF Same, RfTypes
  <2>2. /\ rf' \in RfTypes
        /\ rf'.frameLossCnt = rf.frameLossCnt /\ rf'.lossWatchdog = rf.lossWatchdog
        /\ rf'.state \in {"AUDIO", "LISTENING"}
        /\ rf'.timeout = "running"
    BY <1>8, <2>1, RefusedParts DEF LDU1Starts
  <2>3. SameNet(net, net')
    BY <1>2, <1>8 DEF LDU1Starts, SameNet, NetTypes
  <2>4. air' \in Sides
    BY <1>4, <1>8 DEF LDU1Starts, Voice
  <2>5. CASE NotPermitted(Started(g).lc)
    <3>1. /\ brokenOff' = (brokenOff \/ net.state = "IDLE")
          /\ ~config.authoritative
          /\ rf'.state = "LISTENING"
      BY <1>8, <2>1, <2>5, RefusedParts DEF LDU1Starts, NotPermitted
    <3>2. brokenOff' \in BOOLEAN
      BY <3>1
    <3>3. QED
      BY <1>8, <2>2, <2>3, <2>4, <3>1, <3>2
      DEF LDU1Starts, configVars, SameNet, Watched, Timed, Closed
  <2>6. CASE ~NotPermitted(Started(g).lc)
    <3>1. ~brokenOff' /\ brokenOff' \in BOOLEAN /\ rf'.state = "AUDIO"
      BY <1>8, <2>1, <2>6 DEF LDU1Starts
    <3>2. QED
      BY <1>8, <2>2, <2>3, <2>4, <3>1
      DEF LDU1Starts, configVars, SameNet, Watched, Timed, Closed
  <2>7. QED BY <2>5, <2>6
<1>9. QED BY <1>6, <1>7, <1>8

LEMMA VoiceKeeps ==
    ASSUME IInv, NEW g \in config.heard \cup {NoId}, NEW duid \in {"HDU", "LDU1", "LDU2"},
           LDU1Stops \/ LDU1(g) \/ LDU2Ignored \/ LDU2 \/ LDUIgnored(duid)
    PROVE  IInv'
<1> USE DEF IInv, TypeOK, Sides
<1>1. /\ Same(rf, Heard(rf, "LDU1")) /\ Same(rf, Heard(rf, "LDU2"))
      /\ Same(rf, Heard(rf, duid))
  BY HeardSame DEF Duids
<1>2. g \in IDs
  BY ConfigTypes, Values
<1>3. CASE LDU1Stops
  <2>1. /\ rf' \in RfTypes /\ rf'.state = "LISTENING"
        /\ rf'.frameLossCnt = rf.frameLossCnt /\ rf'.lossWatchdog = rf.lossWatchdog
    BY <1>1, <1>3, RefusedParts DEF LDU1Stops, Same
  <2>2. config.authoritative => net.state # "IDLE"
    BY <1>3 DEF LDU1Stops, NotPermitted, IsCollision
  <2>3. brokenOff' = (brokenOff \/ (rf.state = "AUDIO" /\ net.state = "IDLE"))
    BY <1>3 DEF LDU1Stops, BreaksOff
  <2>4. brokenOff' \in BOOLEAN
    BY <2>3
  <2>5. QED
    BY <1>3, <2>1, <2>2, <2>3, <2>4
    DEF LDU1Stops, configVars, Watched, Timed, Closed
<1>4. CASE LDU1(g)
  <2>1. Same(rf, rf') /\ rf.state = "AUDIO"
    BY <1>1, <1>2, <1>4 DEF LDU1, Same, RfTypes
  <2>2. air' \in Sides
    BY <1>4, <2>1, AirTypes DEF LDU1, Same
  <2>3. QED
    BY <1>4, <2>1, <2>2 DEF LDU1, configVars, tailVars, Same, Watched, Timed, Closed
<1>5. CASE LDU2Ignored
  BY <1>1, <1>5 DEF LDU2Ignored, configVars, tailVars, Same, Watched, Timed, Closed
<1>6. CASE LDU2
  <2>1. Same(rf, rf') /\ rf.state = "AUDIO"
    BY <1>1, <1>6 DEF LDU2, Same, RfTypes
  <2>2. air' \in Sides
    BY <1>6, <2>1, AirTypes DEF LDU2, Same
  <2>3. QED
    BY <1>6, <2>1, <2>2 DEF LDU2, configVars, tailVars, Same, Watched, Timed, Closed
<1>7. CASE LDUIgnored(duid)
  BY <1>1, <1>7 DEF LDUIgnored, configVars, tailVars, Same, Watched, Timed, Closed
<1>8. QED BY <1>3, <1>4, <1>5, <1>6, <1>7

LEMMA EndKeeps == ASSUME IInv, TDU \/ TDULC \/ RfPDU PROVE IInv'
<1> USE DEF IInv, TypeOK, Sides
<1>1. Same(rf, Heard(rf, "TDU")) /\ Same(rf, Heard(rf, rf.lastDUID))
  BY HeardSame DEF Duids, RfTypes
<1>2. ASSUME TDU \/ TDULC
      PROVE  rf' \in RfTypes /\ rf'.state = "LISTENING" /\ rf'.frameLossCnt = 0
  <2>1. /\ Ended(Heard(rf, "TDU")) \in RfTypes
        /\ Ended(Heard(rf, "TDU")).state = "LISTENING"
        /\ Ended(Heard(rf, "TDU")).frameLossCnt = 0
        /\ Ended(Heard(rf, rf.lastDUID)) \in RfTypes
        /\ Ended(Heard(rf, rf.lastDUID)).state = "LISTENING"
        /\ Ended(Heard(rf, rf.lastDUID)).frameLossCnt = 0
    BY <1>1, EndedParts DEF Same
  <2>2. QED BY <1>2, <2>1, Values DEF TDU, TDULC, RfTypes
<1>3. ASSUME TDU \/ TDULC
      PROVE  /\ air' \in {air, "none"}
             /\ tailOnIdle' = (tailOnIdle \/ rf.state = "AUDIO")
             /\ rf.state # "REJECTED"
             /\ UNCHANGED <<config, permittedDstId, net, hadVoice, brokenOff>>
  BY <1>3, AirTypes DEF TDU, TDULC, TailAfterEnd, configVars
<1>4. CASE TDU \/ TDULC
  <2>1. tailOnIdle' \in BOOLEAN
    BY <1>3, <1>4
  <2>2. rf.state \in {"LISTENING", "AUDIO", "DATA"}
    BY <1>3, <1>4, Values DEF RfTypes
  <2>3. QED BY <1>2, <1>3, <1>4, <2>1, <2>2 DEF Watched, Timed, Closed
<1>5. CASE RfPDU
  <2>1. /\ rf' \in RfTypes
        /\ rf'.frameLossCnt = rf.frameLossCnt /\ rf'.lossWatchdog = rf.lossWatchdog
    <3> DEFINE prev == IF rf.prevState # "DATA" THEN rf.state ELSE rf.prevState
    <3>1. prev \in States /\ "DATA" \in States
      BY DEF RfTypes, States
    <3>2. PICK state \in {"DATA", prev} : rf' = [rf EXCEPT !.prevState = prev, !.state = state]
      BY <1>5 DEF RfPDU
    <3>3. HIDE DEF prev
    <3>4. state \in States
      BY <3>1, <3>2
    <3>5. QED BY <3>1, <3>2, <3>4 DEF RfTypes
  <2>2. QED BY <1>5, <2>1 DEF RfPDU, configVars, tailVars, Watched, Timed, Closed
<1>6. QED BY <1>4, <1>5

LEMMA FrameLossKeeps ==
    ASSUME IInv, NEW r \in RfTypes, r.frameLossCnt > 0 => r.lossWatchdog,
           r.state = rf.state, FrameLoss(r), UNCHANGED <<configVars, hadVoice, brokenOff>>
    PROVE  IInv'
<1> USE DEF IInv, TypeOK, Sides
<1>1. CASE r.state = "AUDIO"
  <2>1. /\ rf' \in RfTypes /\ rf'.state = "LISTENING"
        /\ rf'.frameLossCnt = r.frameLossCnt /\ rf'.lossWatchdog = r.lossWatchdog
    BY <1>1, DroppedParts DEF FrameLoss, RfTypes
  <2>2. net' \in NetTypes /\ net'.state = "IDLE"
    BY <1>1, NetEndedParts DEF FrameLoss
  <2>3. QED
    BY <1>1, <2>1, <2>2 DEF FrameLoss, configVars, Watched, Timed, Closed
<1>2. CASE r.state = "DATA"
  <2>1. /\ rf' \in RfTypes /\ rf'.state = "LISTENING"
        /\ rf'.frameLossCnt = r.frameLossCnt /\ rf'.lossWatchdog = r.lossWatchdog
    BY <1>2, DroppedParts DEF FrameLoss
  <2>2. QED
    BY <1>2, <2>1 DEF FrameLoss, configVars, Watched, Timed, Closed
<1>3. CASE r.state \notin {"AUDIO", "DATA"}
  <2>1. Same(r, rf')
    BY <1>3, resetRFSame DEF FrameLoss
  <2>2. QED
    BY <1>3, <2>1 DEF FrameLoss, configVars, Same, Watched, Timed, Closed
<1>4. QED BY <1>1, <1>2, <1>3

LEMMA LostFrameKeeps == ASSUME IInv, LostFrame PROVE IInv'
<1>1. rf \in RfTypes
  BY DEF IInv, TypeOK
<1>2. CASE TooManyLost
  BY <1>1, <1>2, ForgottenParts, FrameLossKeeps DEF LostFrame
<1>3. CASE ~TooManyLost /\ rf.state \in {"AUDIO", "DATA"}
  <2>1. rf.frameLossCnt + 1 \in 0..(FrameLossThreshold + 1)
    BY <1>1, <1>3, P25CallsAssumption DEF TooManyLost, RfTypes
  <2>2. /\ rf' \in RfTypes /\ rf'.lossWatchdog
        /\ rf'.state = rf.state /\ rf'.timeout = rf.timeout
    BY <1>1, <1>3, <2>1 DEF LostFrame, RfTypes
  <2>3. QED
    BY <1>3, <2>2
    DEF LostFrame, IInv, TypeOK, configVars, Watched, Timed, Closed
<1>4. CASE ~TooManyLost /\ rf.state \notin {"AUDIO", "DATA"}
  <2>1. /\ rf' \in RfTypes /\ rf'.frameLossCnt = 0
        /\ rf'.state = rf.state /\ rf'.timeout = rf.timeout
    BY <1>1, <1>4, resetRFSame, ForgottenParts DEF LostFrame, Same
  <2>2. QED
    BY <1>4, <2>1
    DEF LostFrame, IInv, TypeOK, configVars, Watched, Timed, Closed
<1>5. QED BY <1>2, <1>3, <1>4

-----------------------------------------------------------------------------
(* Frames of the network.                                                   *)

\* A frame that leaves the state, the timers and the voice as they are.
LEMMA UnchangedKeeps ==
    ASSUME IInv, Same(rf, rf'), SameNet(net, net'), air' \in {air, "none"},
           permittedDstId' \in IDs, UNCHANGED <<config, tailVars>>
    PROVE  IInv'
  BY DEF tailVars, IInv, TypeOK, Same, SameNet, Watched, Timed, Closed

LEMMA NoFrameSame == ASSUME IInv PROVE Same(rf, rf) /\ SameNet(net, net)
  BY DEF IInv, TypeOK, Same, SameNet

LEMMA NetLDUKeeps ==
    ASSUME IInv, NEW g \in config.netHeard,
           NetLDUDropped(g) \/ NetLDU1(g) \/ NetLDU2Begins(g) \/ NetLDU2Invalid(g)
           \/ NetLDU2(g)
    PROVE  IInv'
<1> USE DEF IInv, TypeOK, Sides
<1>1. SameNet(net, NetHeard) /\ SameNet(net, resetNet(NetHeard)) /\ SameNet(net, resetNet(net))
  BY NetHeardSame, resetNetSame DEF SameNet
<1>2. g \in IDs /\ net.dfsiLC \in IDs
  BY ConfigTypes, Values DEF NetTypes
<1>3. CASE NetLDUDropped(g)
  BY <1>1, <1>3, NoFrameSame, UnchangedKeeps DEF NetLDUDropped, configVars, tailVars
<1>4. CASE NetLDU1(g)
  <2> DEFINE n == [NetHeard EXCEPT !.dfsiLC = g, !.unflushed = TRUE,
                                   !.tgHang = @ \/ net.state # "IDLE"]
  <2>1. SameNet(net, n)
    BY <1>1, <1>2 DEF SameNet, NetTypes
  <2>2. net.state = "IDLE" => net' = n /\ UNCHANGED <<rf, air>>
    BY <1>4 DEF NetLDU1
  <2>3. net.state # "IDLE" =>
           /\ net' = GoesOn(n)
           /\ rf' = [rf EXCEPT !.lc = g]
           /\ air' = AirVoice("net", n)
    BY <1>4 DEF NetLDU1
  <2>4. UNCHANGED <<config, permittedDstId, hadVoice, tailOnIdle, brokenOff>>
    BY <1>4 DEF NetLDU1, configVars, tailVars
  <2> HIDE DEF n
  <2>5. CASE net.state = "IDLE"
    BY <2>1, <2>2, <2>4, <2>5, NoFrameSame, UnchangedKeeps DEF tailVars
  <2>6. CASE net.state # "IDLE"
    <3>1. SameNet(net, net')
      BY <2>1, <2>3, <2>6, GoesOnSame DEF SameNet
    <3>2. Same(rf, rf')
      BY <1>2, <2>3, <2>6 DEF Same, RfTypes
    <3>3. air' \in Sides
      BY <2>1, <2>3, <2>6, AirTypes DEF SameNet
    <3>4. ~config.dataPackets => hadVoice
      BY <2>6 DEF Timed, Closed, NetTypes
    <3>5. QED
      BY <2>4, <2>6, <3>1, <3>2, <3>3, <3>4 DEF Same, SameNet, Watched, Timed, Closed
  <2>7. QED BY <2>5, <2>6
<1>5. CASE NetLDU2Begins(g)
  <2>1. net' \in NetTypes /\ net'.state = "AUDIO" /\ net'.timeout = "running"
    BY <1>1, <1>5, BegunParts, CheckedSame DEF NetLDU2Begins, SameNet
  <2>2. Same(rf, rf')
    BY <1>2, <1>5, resetRFSame DEF NetLDU2Begins, Same, RfTypes
  <2>3. QED
    BY <1>5, <2>1, <2>2 DEF NetLDU2Begins, configVars, Same, Watched, Timed, Closed
<1>6. CASE NetLDU2Invalid(g)
  <2>1. SameNet(net, net')
    BY <1>1, <1>2, <1>6 DEF NetLDU2Invalid, SameNet, NetTypes
  <2>2. Same(rf, rf')
    BY <1>2, <1>6, resetRFSame DEF NetLDU2Invalid, Same, RfTypes
  <2>3. QED BY <1>6, <2>1, <2>2, UnchangedKeeps DEF NetLDU2Invalid, configVars, tailVars
<1>7. CASE NetLDU2(g)
  <2> DEFINE n == IF net.unflushed THEN GoesOn(NetHeard) ELSE [NetHeard EXCEPT !.tgHang = TRUE]
  <2>1. SameNet(net, n)
    BY <1>1, GoesOnSame DEF SameNet, NetTypes
  <2>2. /\ net.state # "IDLE"
        /\ net' = Checked(n)
        /\ air' \in {air, AirVoice("net", n)}
        /\ rf' \in {rf, [rf EXCEPT !.lc = n.lc]}
        /\ UNCHANGED <<config, permittedDstId, hadVoice, tailOnIdle, brokenOff>>
    BY <1>7 DEF NetLDU2, configVars, tailVars
  <2> HIDE DEF n
  <2>3. SameNet(net, net')
    BY <2>1, <2>2, CheckedSame DEF SameNet
  <2>4. Same(rf, rf')
    BY <2>1, <2>2 DEF Same, SameNet, RfTypes, NetTypes
  <2>5. air' \in Sides
    BY <2>1, <2>2, AirTypes DEF SameNet
  <2>6. ~config.dataPackets => hadVoice
    BY <2>2 DEF Timed, Closed, NetTypes
  <2>7. QED
    BY <2>2, <2>3, <2>4, <2>5, <2>6 DEF Same, SameNet, Watched, Timed, Closed
<1>8. QED BY <1>3, <1>4, <1>5, <1>6, <1>7

LEMMA NetFrameKeeps == ASSUME IInv, NetFrame PROVE IInv'
<1> USE DEF IInv, TypeOK, Sides
<1>1. SameNet(net, NetHeard) /\ SameNet(net, resetNet(NetHeard))
  BY NetHeardSame, resetNetSame DEF SameNet
<1>2. ASSUME NEW g \in config.netHeard, NetTDUIgnored(g) PROVE IInv'
  BY <1>1, <1>2, NoFrameSame, UnchangedKeeps DEF NetTDUIgnored, configVars, tailVars
<1>3. ASSUME NEW g \in config.netHeard, NetTDU(g) PROVE IInv'
  BY <1>3, NetEndedParts, AirTypes DEF NetTDU, configVars, Watched, Timed, Closed
<1>4. ASSUME NEW g \in config.netHeard, NetTDULC(g) PROVE IInv'
  <2>1. SameNet(net, resetNet(net))
    BY resetNetSame
  <2>2. QED BY <1>4, <2>1, NoFrameSame, UnchangedKeeps DEF NetTDULC, configVars, tailVars
<1>5. CASE NetPDU
  <2>1. net' \in NetTypes
    BY <1>5 DEF NetPDU, NetTypes
  <2>2. QED BY <1>5, <2>1 DEF NetPDU, configVars, tailVars, Watched, Timed, Closed
<1>6. QED BY <1>2, <1>3, <1>4, <1>5, NetLDUKeeps DEF NetFrame

-----------------------------------------------------------------------------
(* The clock, and the end of voice.                                         *)

LEMMA ClockKeeps == ASSUME IInv, Clock PROVE IInv'
<1> USE DEF IInv, TypeOK, Sides
<1>1. CASE RfTGHangExpires
  <2>1. Same(rf, rf') /\ permittedDstId' \in IDs
    BY <1>1, Values DEF RfTGHangExpires, Same, RfTypes
  <2>2. QED BY <1>1, <2>1, NoFrameSame, UnchangedKeeps DEF RfTGHangExpires, tailVars
<1>2. CASE RfLossWatchdogExpires
  <2> DEFINE r == [rf EXCEPT !.lossWatchdog = FALSE]
  <2>1. r \in RfTypes /\ r.state = rf.state
    BY DEF RfTypes
  <2>2. FrameLoss(Forgotten(r)) /\ UNCHANGED <<configVars, hadVoice, brokenOff>>
    BY <1>2 DEF RfLossWatchdogExpires
  <2> HIDE DEF r
  <2>3. /\ Forgotten(r) \in RfTypes /\ Forgotten(r).state = rf.state
        /\ Forgotten(r).frameLossCnt = 0
    BY <2>1, ForgottenParts
  <2>4. QED BY <2>2, <2>3, FrameLossKeeps
<1>3. CASE NetTGHangExpires
  <2>1. SameNet(net, net')
    BY <1>3, Values DEF NetTGHangExpires, SameNet, NetTypes
  <2>2. QED
    BY <1>3, <2>1, NoFrameSame, UnchangedKeeps DEF NetTGHangExpires, configVars, tailVars
<1>4. CASE NetworkWatchdogExpires
  <2>1. net' \in NetTypes /\ net'.state = "IDLE"
    BY <1>4, Values DEF NetworkWatchdogExpires, resetNet, NetTypes
  <2>2. QED BY <1>4, <2>1 DEF NetworkWatchdogExpires, configVars, Watched, Timed, Closed
<1>5. CASE RejectedReset
  <2>1. /\ rf' \in RfTypes /\ rf'.state = "LISTENING" /\ rf'.frameLossCnt = 0
    BY <1>5, RefusedParts, ForgottenParts DEF RejectedReset
  <2>2. SameNet(net, net')
    BY <1>5, resetNetSame DEF RejectedReset
  <2>3. QED
    BY <1>5, <2>1, <2>2 DEF RejectedReset, configVars, tailVars, SameNet, Watched, Timed,
       Closed
<1>6. CASE FrameLossCounted
  <2>1. CASE rf.state = "LISTENING"
    <3>1. Forgotten(rf) \in RfTypes /\ Forgotten(rf).state = "LISTENING"
          /\ Forgotten(rf).frameLossCnt = 0 /\ rf' = Forgotten(rf)
      BY <1>6, <2>1, ForgottenParts DEF FrameLossCounted
    <3>2. QED
      BY <1>6, <2>1, <3>1 DEF FrameLossCounted, configVars, Watched, Timed, Closed
  <2>2. CASE rf.state # "LISTENING"
    BY <1>6, <2>2, FrameLossKeeps DEF FrameLossCounted, Watched
  <2>3. QED BY <2>1, <2>2
<1>7. CASE TimeoutExpires
  <2>1. /\ rf' \in RfTypes /\ rf'.state = rf.state
        /\ rf'.timeout \in {rf.timeout, "expired"}
        /\ rf'.frameLossCnt = rf.frameLossCnt /\ rf'.lossWatchdog = rf.lossWatchdog
    BY <1>7, Values DEF TimeoutExpires, RfTypes
  <2>2. net' \in NetTypes /\ net'.state = net.state /\ net'.timeout \in {net.timeout, "expired"}
    BY <1>7, Values DEF TimeoutExpires, NetTypes
  <2>3. QED
    BY <1>7, <2>1, <2>2 DEF TimeoutExpires, configVars, tailVars, Watched, Timed, Closed
<1>8. QED
  BY <1>1, <1>2, <1>3, <1>4, <1>5, <1>6, <1>7 DEF Clock

LEMMA VoiceEndKeeps == ASSUME IInv, VoiceEnd PROVE IInv'
<1> USE DEF IInv, TypeOK, Sides
<1>1. /\ rf' \in RfTypes /\ rf'.state = "LISTENING"
      /\ rf'.frameLossCnt = rf.frameLossCnt /\ rf'.lossWatchdog = rf.lossWatchdog
  <2> DEFINE r == resetRF(rf)
  <2>1. rf' \in {rf, [r EXCEPT !.timeout = "stopped"]} /\ rf.state = "LISTENING"
    BY DEF VoiceEnd
  <2>2. Same(rf, r)
    BY resetRFSame
  <2>3. "stopped" \in TimerStates
    BY Values
  <2> HIDE DEF r
  <2>4. QED BY <2>1, <2>2, <2>3 DEF Same, RfTypes
<1>2. net' \in NetTypes /\ net'.state = "IDLE"
  BY Values DEF VoiceEnd, resetNet, NetTypes
<1>3. air' \in {air, "none"} /\ (hadVoice => air' = "none")
  BY DEF VoiceEnd
<1>4. QED BY <1>1, <1>2, <1>3 DEF VoiceEnd, configVars, Watched, Timed, Closed

LEMMA NextIInv == IInv /\ [Next]_vars => IInv'
<1> SUFFICES ASSUME IInv, [Next]_vars PROVE IInv'
  OBVIOUS
<1>1. CASE RfFrame
  <2>1. "HDU" \in {"HDU", "LDU1", "LDU2"} /\ NoId \in config.heard \cup {NoId}
    OBVIOUS
  <2>2. QED
    BY <1>1, <2>1, HeaderKeeps, EntryKeeps, VoiceKeeps, EndKeeps, UndecodableKeeps DEF RfFrame
<1>2. ASSUME NEW g \in config.heard, permittedTG(g) PROVE IInv'
  BY <1>2, NoFrameSame, UnchangedKeeps, ConfigTypes, Values
  DEF permittedTG, IInv, tailVars
<1>3. CASE UNCHANGED vars
  BY <1>3, NoFrameSame, UnchangedKeeps DEF IInv, TypeOK, vars, configVars, tailVars
<1>4. QED
  BY <1>1, <1>2, <1>3, LostFrameKeeps, NetFrameKeeps, ClockKeeps, VoiceEndKeeps DEF Next

\* The inductive invariant: types, watched losses, timed voice, closed calls.
THEOREM Invariant == Spec => []IInv
  BY InitIInv, NextIInv, PTL DEF Spec

\* Every variable keeps its type: lost frames are counted to one more than the threshold.
THEOREM TypeCorrect == Spec => []TypeOK
<1>1. IInv => TypeOK
  BY DEF IInv
<1>2. QED BY <1>1, Invariant, PTL

\* On a host that is sent no data packets: an idle host has told writeRF_VoiceEnd of the
\* end (m_tailOnIdle), or its air is closed, or a refusal broke a local call off; the last
\* never happens on an authoritative host.
THEOREM CallsAreClosed == Spec => []CallsClosed
<1>1. IInv => CallsClosed
  BY DEF IInv, TypeOK, Closed, CallsClosed, Idle
<1>2. QED BY <1>1, Invariant, PTL

\* Losses counted in a call are watched.
THEOREM LossesAreWatched == Spec => []LossIsWatched
<1>1. IInv => LossIsWatched
  BY DEF IInv, Watched, LossIsWatched
<1>2. QED BY <1>1, Invariant, PTL

\* On a host that is sent no data packets: voice in progress has its time-out timer set,
\* on either side.
THEOREM VoiceIsTimed == Spec => []CallsAreTimed
<1>1. IInv => CallsAreTimed
  BY DEF IInv, Timed, CallsAreTimed
<1>2. QED BY <1>1, Invariant, PTL

=============================================================================
