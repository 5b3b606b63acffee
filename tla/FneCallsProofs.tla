---------------------------- MODULE FneCallsProofs ----------------------------
(***************************************************************************)
(* Proofs about the routing of calls in the FNE, for any number of peers,  *)
(* talkgroups and sources and every rule of access.                        *)
(***************************************************************************)
EXTENDS FneCalls, TLAPS

Frames == [voice : BOOLEAN, srcId : Radios]

-----------------------------------------------------------------------------
(* The recording.                                                           *)

LEMMA AppendedFrame ==
    ASSUME NEW s \in Seq(Frames), NEW f \in Frames
    PROVE  /\ Append(s, f) \in Seq(Frames)
           /\ Append(s, f) # << >>
           /\ \A i \in DOMAIN Append(s, f) :
                 Append(s, f)[i] = f \/ (i \in DOMAIN s /\ Append(s, f)[i] = s[i])
  OBVIOUS

LEMMA RemainingFrames ==
    ASSUME NEW s \in Seq(Frames), s # << >>
    PROVE  /\ Tail(s) \in Seq(Frames)
           /\ 1 \in DOMAIN s
           /\ \A i \in DOMAIN Tail(s) : i + 1 \in DOMAIN s /\ Tail(s)[i] = s[i + 1]
  OBVIOUS

LEMMA NoFrames == << >> \in Seq(Frames) /\ DOMAIN << >> = {}
  OBVIOUS

\* What every step makes of the frames it finds.
LEMMA RecordedFrames ==
    ASSUME NEW s \in Seq(Frames), NEW g, NEW f \in Frames, Recorded(s, g, f)
    PROVE  /\ parrotFrames' \in Seq(Frames)
           /\ g \notin Parrots => parrotFrames' = s
           /\ \A i \in DOMAIN parrotFrames' :
                 (g \in Parrots /\ parrotFrames'[i] = f)
                 \/ (i \in DOMAIN s /\ parrotFrames'[i] = s[i])
  BY AppendedFrame DEF Recorded

-----------------------------------------------------------------------------
(* Types.                                                                   *)

LEMMA InitTypes == Init => TypeOK
<1> SUFFICES ASSUME Init PROVE TypeOK
  OBVIOUS
<1>1. parrotFrames \in Seq([voice : BOOLEAN, srcId : Radios])
  BY NoFrames DEF Init, Frames
<1>2. status \in [Talkgroups -> Radios \cup {NoSrc}]
      /\ hears \in [Peers \X Talkgroups -> Radios \cup {NoSrc}]
  BY DEF Init
<1>3. /\ callInProgress \in BOOLEAN
      /\ parrotFramesReady \in BOOLEAN
      /\ parrotFirstFrame \in BOOLEAN
      /\ unannounced \in BOOLEAN
  BY Zenon DEF Init
<1>4. /\ peers \subseteq Peers
      /\ disabled \subseteq Radios
      /\ live \subseteq peers \X peers \X Talkgroups
      /\ rtpStart \in 0..1
  BY DEF Init
<1>5. QED
  BY <1>1, <1>2, <1>3, <1>4 DEF TypeOK

LEMMA FrameTypes ==
    ASSUME TypeOK, NEW s \in Radios, NEW voice \in BOOLEAN
    PROVE  parrotFrames \in Seq(Frames) /\ Frame(voice, s) \in Frames
  BY DEF TypeOK, Frame, Frames

LEMMA NextTypes == TypeOK /\ [Next]_vars => TypeOK'
<1> SUFFICES ASSUME TypeOK, [Next]_vars PROVE TypeOK'
  OBVIOUS
<1> USE DEF TypeOK
<1>1. ASSUME NEW p \in Peers, NEW s \in Radios, NEW g \in Talkgroups, VoiceStarts(p, s, g)
      PROVE  TypeOK'
  <2>1. parrotFrames' \in Seq(Frames) /\ parrotFramesReady' \in BOOLEAN /\ unannounced' \in BOOLEAN
    BY <1>1, FrameTypes, RecordedFrames, NoFrames DEF VoiceStarts, NewRecording
  <2>2. hears' \in [Peers \X Talkgroups -> Radios \cup {NoSrc}]
        /\ live' \subseteq peers \X peers \X Talkgroups
    BY <1>1 DEF VoiceStarts, VoiceHeard, VoiceValid, Valid, VoiceRepeated, Others
  <2>3. QED BY <1>1, <2>1, <2>2 DEF VoiceStarts, Frames
<1>2. ASSUME NEW p \in Peers, NEW s \in Radios, NEW g \in Talkgroups, VoiceGoesOn(p, s, g)
      PROVE  TypeOK'
  <2>1. parrotFrames' \in Seq(Frames)
    BY <1>2, FrameTypes, RecordedFrames DEF VoiceGoesOn
  <2>2. hears' \in [Peers \X Talkgroups -> Radios \cup {NoSrc}]
        /\ live' \subseteq peers \X peers \X Talkgroups
    BY <1>2 DEF VoiceGoesOn, VoiceHeard, VoiceValid, Valid, VoiceRepeated, Others
  <2>3. QED BY <1>2, <2>1, <2>2 DEF VoiceGoesOn, Frames
<1>3. ASSUME NEW p \in Peers, NEW s \in Radios, NEW g \in Talkgroups, Terminator(p, s, g)
      PROVE  TypeOK'
  <2>1. parrotFrames' \in Seq(Frames)
    BY <1>3, FrameTypes, RecordedFrames DEF Terminator
  <2>2. QED BY <1>3, <2>1 DEF Terminator, FlagAfterEnd, PlaybackStarts, Frames
<1>4. ASSUME NEW p \in Peers, NEW s \in Radios, NEW g \in Talkgroups, Tsdu(p, s, g)
      PROVE  TypeOK'
  <2>1. parrotFrames' \in Seq(Frames)
    BY <1>4, FrameTypes, RecordedFrames DEF Tsdu
  <2>2. QED BY <1>4, <2>1 DEF Tsdu, Frames, historyVars
<1>5. ASSUME playbackParrot PROVE TypeOK'
  <2>1. parrotFrames' \in Seq(Frames)
    BY <1>5, RemainingFrames DEF playbackParrot, Played, Frames
  <2>2. QED BY <1>5, <2>1 DEF playbackParrot, statusVars, Frames
<1>6. ASSUME RollTimestamps PROVE TypeOK'
  BY <1>6 DEF RollTimestamps, statusVars, parrotVars, historyVars
<1>7. ASSUME NEW p \in Peers, PeerJoins(p) PROVE TypeOK'
  BY <1>7 DEF PeerJoins, statusVars, parrotVars, historyVars
<1>8. ASSUME NEW p \in Peers, PeerLeaves(p) PROVE TypeOK'
  BY <1>8 DEF PeerLeaves, statusVars, parrotVars
<1>9. ASSUME NEW s \in Radios, RadioIdsChange(s) PROVE TypeOK'
  BY <1>9 DEF RadioIdsChange, statusVars, parrotVars, historyVars
<1>10. CASE UNCHANGED vars
  BY <1>10 DEF vars, statusVars, parrotVars, historyVars
<1>11. QED
  BY <1>1, <1>2, <1>3, <1>4, <1>5, <1>6, <1>7, <1>8, <1>9, <1>10 DEF Next

\* Every variable keeps its type: what is repeated goes to connected peers, and
\* what is recorded has a source.
THEOREM TypeCorrect == Spec => []TypeOK
  BY InitTypes, NextTypes, PTL DEF Spec

-----------------------------------------------------------------------------
(* Who hears whom.                                                          *)

\* A listener hears the source that holds the talkgroup, is connected and may take
\* part: so the terminator that frees the talkgroup is repeated to it.
HearsHolder ==
    \A x \in Peers \X Talkgroups : hears[x] # NoSrc =>
        /\ hears[x] = status[x[2]]
        /\ x[1] \in peers
        /\ isPeerPermitted(x[1], x[2])

Unmixed ==
    \A x \in Peers \X Talkgroups :
        hears'[x] # hears[x] => hears[x] = NoSrc \/ hears'[x] = NoSrc

\* Voice of s on g: s holds the talkgroup afterwards, and held it before or no one
\* did.
LEMMA VoiceKeepsHolder ==
    ASSUME TypeOK, HearsHolder, NEW p \in Peers, NEW s \in Radios, NEW g \in Talkgroups,
           status[g] \in {NoSrc, s},
           status' = [status EXCEPT ![g] = s], UNCHANGED peers, VoiceHeard(p, s, g)
    PROVE  HearsHolder' /\ Unmixed
<1>1. ASSUME NEW x \in Peers \X Talkgroups
      PROVE  /\ hears'[x] # NoSrc =>
                    /\ hears'[x] = status'[x[2]]
                    /\ x[1] \in peers'
                    /\ isPeerPermitted(x[1], x[2])
             /\ hears'[x] # hears[x] => hears[x] = NoSrc \/ hears'[x] = NoSrc
  <2>1. CASE x[2] = g /\ x[1] \in VoiceRepeated(p, g)
    <3>1. hears'[x] = s /\ status'[x[2]] = s
      BY <2>1 DEF VoiceHeard, TypeOK
    <3>2. x[1] \in peers' /\ isPeerPermitted(x[1], x[2])
      BY <2>1 DEF VoiceRepeated, Others
    <3>3. hears[x] \in {NoSrc, s}
      BY <2>1 DEF HearsHolder
    <3>4. QED BY <3>1, <3>2, <3>3
  <2>2. CASE ~(x[2] = g /\ x[1] \in VoiceRepeated(p, g))
    <3>1. hears'[x] = hears[x]
      BY <2>2 DEF VoiceHeard, TypeOK
    <3>2. hears[x] # NoSrc => hears[x] = status'[x[2]]
      <4>1. x[2] \in Talkgroups
        OBVIOUS
      <4>2. CASE x[2] = g
        BY <4>2 DEF HearsHolder, TypeOK
      <4>3. CASE x[2] # g
        BY <4>1, <4>3 DEF HearsHolder, TypeOK
      <4>4. QED BY <4>2, <4>3
    <3>3. QED BY <3>1, <3>2 DEF HearsHolder
  <2>3. QED BY <2>1, <2>2
<1>2. QED
  BY <1>1 DEF HearsHolder, Unmixed, isPeerPermitted

LEMMA NextKeepsHolder ==
    ASSUME TypeOK, HearsHolder, [Next]_vars
    PROVE  HearsHolder' /\ Unmixed
<1>1. ASSUME NEW p \in Peers, NEW s \in Radios, NEW g \in Talkgroups, VoiceStarts(p, s, g)
      PROVE  HearsHolder' /\ Unmixed
  BY <1>1, VoiceKeepsHolder DEF VoiceStarts
<1>2. ASSUME NEW p \in Peers, NEW s \in Radios, NEW g \in Talkgroups, VoiceGoesOn(p, s, g)
      PROVE  HearsHolder' /\ Unmixed
  <2>1. status[g] = s /\ status' = [status EXCEPT ![g] = s]
    BY <1>2 DEF VoiceGoesOn, IsCollision, TypeOK
  <2>2. QED BY <1>2, <2>1, VoiceKeepsHolder DEF VoiceGoesOn
<1>3. ASSUME NEW p \in Peers, NEW s \in Radios, NEW g \in Talkgroups, Terminator(p, s, g)
      PROVE  HearsHolder' /\ Unmixed
  <2>1. ASSUME NEW x \in Peers \X Talkgroups
        PROVE  /\ hears'[x] # NoSrc => /\ hears'[x] = hears[x]
                                       /\ x[2] # g
               /\ hears'[x] \in {NoSrc, hears[x]}
    <3>1. x[2] = g /\ hears[x] # NoSrc => x[1] \in EndRepeated(p, g) \cup {p}
      BY DEF HearsHolder, EndRepeated, Others, isPeerPermittedEnd
    <3>2. hears'[x] = IF x[2] = g /\ x[1] \in EndRepeated(p, g) \cup {p}
                      THEN NoSrc ELSE hears[x]
      BY <1>3 DEF Terminator, TypeOK
    <3>3. QED BY <3>1, <3>2
  <2>2. /\ UNCHANGED peers
        /\ \A h \in Talkgroups : h # g => status'[h] = status[h]
    BY <1>3 DEF Terminator, TypeOK
  <2>3. QED BY <2>1, <2>2 DEF HearsHolder, Unmixed, isPeerPermitted
<1>4. ASSUME NEW p \in Peers, PeerLeaves(p)
      PROVE  HearsHolder' /\ Unmixed
  <2>1. ASSUME NEW x \in Peers \X Talkgroups
        PROVE  hears'[x] = IF x[1] = p THEN NoSrc ELSE hears[x]
    BY <1>4 DEF PeerLeaves, TypeOK
  <2>2. peers' = peers \ {p} /\ UNCHANGED status
    BY <1>4 DEF PeerLeaves, statusVars
  <2>3. QED BY <2>1, <2>2 DEF HearsHolder, Unmixed, isPeerPermitted
<1>5. ASSUME UNCHANGED <<hears, status>>, peers \subseteq peers'
      PROVE  HearsHolder' /\ Unmixed
  BY <1>5 DEF HearsHolder, Unmixed, isPeerPermitted
<1>6. /\ \A p \in Peers, s \in Radios, g \in Talkgroups :
            Tsdu(p, s, g) => UNCHANGED <<hears, status, peers>>
      /\ playbackParrot \/ RollTimestamps => UNCHANGED <<hears, status, peers>>
      /\ \A s \in Radios : RadioIdsChange(s) => UNCHANGED <<hears, status, peers>>
      /\ \A p \in Peers : PeerJoins(p) => UNCHANGED <<hears, status>> /\ peers \subseteq peers'
      /\ UNCHANGED vars => UNCHANGED <<hears, status, peers>>
  BY DEF Tsdu, playbackParrot, RollTimestamps, RadioIdsChange, PeerJoins, vars, statusVars,
         historyVars
<1>7. QED
  BY <1>1, <1>2, <1>3, <1>4, <1>5, <1>6 DEF Next

\* A listener hears the source that holds the talkgroup, throughout.
THEOREM ListenersHearTheHolder == Spec => []HearsHolder
<1>1. Init => HearsHolder
  BY DEF Init, HearsHolder
<1>2. QED
  BY <1>1, NextKeepsHolder, TypeCorrect, PTL DEF Spec

\* Whatever the access rules, the protocols and the order of frames, a terminator
\* separates two sources at every listener.
THEOREM VoiceIsNotMixed == Spec => NoMixedVoice
<1>1. ASSUME TypeOK, HearsHolder, [Next]_vars
      PROVE  [\A x \in DOMAIN hears :
                hears'[x] # hears[x] => hears[x] = NoSrc \/ hears'[x] = NoSrc]_vars
  <2>1. DOMAIN hears = Peers \X Talkgroups
    BY <1>1 DEF TypeOK
  <2>2. QED BY <1>1, <2>1, NextKeepsHolder DEF Unmixed
<1>2. QED
  BY <1>1, ListenersHearTheHolder, TypeCorrect, PTL DEF Spec, NoMixedVoice

-----------------------------------------------------------------------------
(* The call flag.                                                           *)

\* A call that is repeated keeps the flag set, and is between two connected peers:
\* whoever ends another call, one of the two is there to repeat its terminator to.
LiveFlagged ==
    /\ live # {} => callInProgress
    /\ \A c \in live : c[1] # c[2]

LEMMA NextKeepsFlag ==
    ASSUME TypeOK, LiveFlagged, [Next]_vars,
           \A p \in Peers, g \in NxdnTalkgroups : isPeerPermitted(p, g)
    PROVE  LiveFlagged' /\ (rtpStart' # rtpStart => live = {})
<1> DEFINE Goal == LiveFlagged' /\ (rtpStart' # rtpStart => live = {})
<1>1. ASSUME NEW p \in Peers, NEW s \in Radios, NEW g \in Talkgroups,
             VoiceStarts(p, s, g) \/ VoiceGoesOn(p, s, g)
      PROVE  Goal
  <2>1. /\ UNCHANGED <<peers, rtpStart>>
        /\ p \in peers
        /\ live' = live \cup ({p} \X VoiceRepeated(p, g) \X {g})
        /\ callInProgress \/ VoiceRepeated(p, g) # {} => callInProgress'
    BY <1>1 DEF VoiceStarts, VoiceGoesOn, VoiceHeard, VoiceValid, Valid
  <2>2. VoiceRepeated(p, g) \subseteq peers \ {p}
    BY DEF VoiceRepeated, Others
  <2>3. \A c \in live' : c \in live \/ (c[1] = p /\ c[2] \in VoiceRepeated(p, g))
    BY <2>1
  <2>4. QED BY <2>1, <2>2, <2>3 DEF LiveFlagged
<1>2. ASSUME NEW p \in Peers, NEW s \in Radios, NEW g \in Talkgroups, Terminator(p, s, g)
      PROVE  Goal
  <2>1. /\ UNCHANGED <<peers, rtpStart>>
        /\ live' \subseteq live
        /\ EndRepeated(p, g) # {} => callInProgress'
    BY <1>2 DEF Terminator, FlagAfterEnd
  <2>2. EndRepeated(p, g) = peers \ {p}
    <3>1. \A q \in peers : isPeerPermittedEnd(q, g)
      BY DEF isPeerPermittedEnd, TypeOK
    <3>2. QED BY <3>1 DEF EndRepeated, Others
  <2>3. \A c \in live : c[1] \in peers /\ c[2] \in peers
    BY DEF TypeOK
  <2>4. QED BY <2>1, <2>2, <2>3 DEF LiveFlagged
<1>3. ASSUME NEW p \in Peers, NEW s \in Radios, NEW g \in Talkgroups, Tsdu(p, s, g)
      PROVE  Goal
  BY <1>3 DEF Tsdu, LiveFlagged, historyVars
<1>4. ASSUME NEW p \in Peers, PeerJoins(p) PROVE Goal
  BY <1>4 DEF PeerJoins, LiveFlagged, statusVars, historyVars
<1>5. ASSUME NEW p \in Peers, PeerLeaves(p) PROVE Goal
  <2>1. /\ UNCHANGED <<callInProgress, rtpStart>>
        /\ peers' = peers \ {p}
        /\ live' = {c \in live : p \notin {c[1], c[2]}}
    BY <1>5 DEF PeerLeaves, statusVars
  <2>2. QED BY <2>1 DEF LiveFlagged
<1>6. QED
  BY <1>1, <1>2, <1>3, <1>4, <1>5 DEF Next, playbackParrot, RollTimestamps, RadioIdsChange, vars,
     LiveFlagged, statusVars, parrotVars, historyVars

\* On an FNE whose NXDN talkgroups, if it has any, are open to all peers, the RTP
\* timestamps never restart in the middle of a repeated call, however many calls end
\* meanwhile and whoever may use the P25 talkgroups.
THEOREM RtpIsKeptDuringCalls ==
    ASSUME \A p \in Peers, g \in NxdnTalkgroups : isPeerPermitted(p, g)
    PROVE  Spec => RtpKeptDuringCalls
<1>1. Init => LiveFlagged
  BY DEF Init, LiveFlagged
<1>2. ASSUME TypeOK, LiveFlagged, [Next]_vars
      PROVE  LiveFlagged' /\ [rtpStart' # rtpStart => live = {}]_vars
  BY <1>2, NextKeepsFlag
<1>3. QED
  BY <1>1, <1>2, TypeCorrect, PTL DEF Spec, RtpKeptDuringCalls

-----------------------------------------------------------------------------
(* The parrot.                                                              *)

\* The recording, its readiness and its announcement depend on each other.
Announced ==
    (ParrotGrantDemand /\ unannounced /\ parrotFramesReady
        /\ \E i \in DOMAIN parrotFrames : parrotFrames[i].voice) => parrotFirstFrame

ParrotInv == ParrotOneSource /\ ParrotWaits /\ Announced

\* Only a frame on a parrot talkgroup and the playback touch the recording.
LEMMA OtherFramesKeepParrot ==
    ASSUME ParrotInv, UNCHANGED parrotVars, UNCHANGED unannounced,
           \A g \in Parrots : status'[g] \in {NoSrc, status[g]}
    PROVE  ParrotInv'
  BY DEF ParrotInv, ParrotOneSource, ParrotWaits, Announced, parrotVars

LEMMA StartKeepsParrot ==
    ASSUME TypeOK, ParrotInv, \A g, h \in Parrots : g = h,
           NEW p \in Peers, NEW s \in Radios, NEW g \in Talkgroups, VoiceStarts(p, s, g)
    PROVE  ParrotInv'
<1>1. CASE g \notin Parrots
  <2>1. UNCHANGED parrotVars /\ UNCHANGED unannounced
    BY <1>1 DEF VoiceStarts, NewRecording, Recorded, parrotVars, TypeOK
  <2>2. \A h \in Parrots : status'[h] \in {NoSrc, status[h]}
    BY <1>1, CallsAssumption DEF VoiceStarts, TypeOK
  <2>3. QED BY <2>1, <2>2, OtherFramesKeepParrot
<1>2. CASE g \in Parrots
  <2>1. \A i \in DOMAIN parrotFrames' : parrotFrames'[i] = Frame(TRUE, s)
    BY <1>2, NoFrames, FrameTypes, RecordedFrames DEF VoiceStarts, NewRecording
  <2>2. parrotFramesReady' = FALSE
    BY <1>2 DEF VoiceStarts, NewRecording
  <2>3. \A h \in Parrots : status'[h] = s
    BY <1>2 DEF VoiceStarts, TypeOK
  <2>4. QED BY <2>1, <2>2, <2>3 DEF ParrotInv, ParrotOneSource, ParrotWaits, Announced, Frame
<1>3. QED BY <1>1, <1>2

LEMMA VoiceKeepsParrot ==
    ASSUME TypeOK, ParrotInv, \A g, h \in Parrots : g = h,
           NEW p \in Peers, NEW s \in Radios, NEW g \in Talkgroups, VoiceGoesOn(p, s, g)
    PROVE  ParrotInv'
<1>1. UNCHANGED <<status, parrotFramesReady, parrotFirstFrame, unannounced>> /\ status[g] = s
  BY DEF VoiceGoesOn, IsCollision
<1>2. CASE g \notin Parrots
  BY <1>1, <1>2, OtherFramesKeepParrot DEF VoiceGoesOn, Recorded, parrotVars
<1>3. CASE g \in Parrots
  <2>1. ~parrotFramesReady
    BY <1>1, <1>3, CallsAssumption DEF ParrotInv, ParrotWaits
  <2>2. \A i \in DOMAIN parrotFrames' :
            parrotFrames'[i] = Frame(TRUE, s)
            \/ (i \in DOMAIN parrotFrames /\ parrotFrames'[i] = parrotFrames[i])
    BY FrameTypes, RecordedFrames, ZenonT(30) DEF VoiceGoesOn
  <2>3. \A i \in DOMAIN parrotFrames : parrotFrames[i].voice => parrotFrames[i].srcId = s
    BY <1>1, <1>3, CallsAssumption DEF ParrotInv, ParrotOneSource
  <2>4. \A i \in DOMAIN parrotFrames' : parrotFrames'[i].voice => parrotFrames'[i].srcId = s
    BY <2>2, <2>3 DEF Frame
  <2>5. ParrotOneSource'
    BY <1>1, <1>3, <2>4 DEF ParrotOneSource
  <2>6. QED BY <1>1, <2>1, <2>5 DEF ParrotInv, ParrotWaits, Announced
<1>4. QED BY <1>2, <1>3

\* A frame that is not voice adds nothing spoken.
LEMMA UnspokenFrame ==
    ASSUME TypeOK, ParrotInv, NEW s \in Radios, NEW g,
           Recorded(parrotFrames, g, Frame(FALSE, s)),
           \A h \in Parrots : status'[h] \in {NoSrc, status[h]}
    PROVE  /\ ParrotOneSource'
           /\ \A i \in DOMAIN parrotFrames' :
                 parrotFrames'[i].voice => i \in DOMAIN parrotFrames /\ parrotFrames[i].voice
<1>1. \A i \in DOMAIN parrotFrames' :
          parrotFrames'[i] = Frame(FALSE, s)
          \/ (i \in DOMAIN parrotFrames /\ parrotFrames'[i] = parrotFrames[i])
  BY FrameTypes, RecordedFrames
<1>2. \A i \in DOMAIN parrotFrames' :
          parrotFrames'[i].voice =>
              i \in DOMAIN parrotFrames /\ parrotFrames'[i] = parrotFrames[i]
  BY <1>1 DEF Frame
<1>3. QED BY <1>2 DEF ParrotInv, ParrotOneSource

LEMMA EndKeepsParrot ==
    ASSUME TypeOK, ParrotInv, \A g, h \in Parrots : g = h,
           NEW p \in Peers, NEW s \in Radios, NEW g \in Talkgroups, Terminator(p, s, g)
    PROVE  ParrotInv'
<1>1. /\ \A h \in Parrots : status'[h] \in {NoSrc, status[h]}
      /\ g \in Parrots => \A h \in Parrots : status'[h] = NoSrc
  BY CallsAssumption DEF Terminator, TypeOK
<1>2. /\ ParrotOneSource'
      /\ \A i \in DOMAIN parrotFrames' :
            parrotFrames'[i].voice => i \in DOMAIN parrotFrames /\ parrotFrames[i].voice
  BY <1>1, UnspokenFrame DEF Terminator
<1>3. CASE g \in Parrots
  <2>1. ParrotWaits'
    BY <1>1, <1>3 DEF ParrotWaits
  <2>2. CASE parrotFrames = << >>
    <3>1. \A i \in DOMAIN parrotFrames' : ~parrotFrames'[i].voice
      BY <1>2, <2>2, NoFrames
    <3>2. QED BY <1>2, <2>1, <3>1 DEF ParrotInv, Announced
  <2>3. CASE parrotFrames # << >>
    <3>1. parrotFirstFrame'
      BY <1>3, <2>3 DEF Terminator, PlaybackStarts
    <3>2. QED BY <1>2, <2>1, <3>1 DEF ParrotInv, Announced
  <2>4. QED BY <2>2, <2>3
<1>4. CASE g \notin Parrots
  <2>1. parrotFramesReady' = parrotFramesReady /\ parrotFirstFrame' = parrotFirstFrame
    BY <1>4 DEF Terminator, PlaybackStarts, TypeOK
  <2>2. UNCHANGED parrotVars /\ UNCHANGED unannounced
    BY <1>4, <2>1 DEF Terminator, Recorded, parrotVars
  <2>3. QED BY <1>1, <2>2, OtherFramesKeepParrot
<1>5. QED BY <1>3, <1>4

LEMMA TsduKeepsParrot ==
    ASSUME TypeOK, ParrotInv,
           NEW p \in Peers, NEW s \in Radios, NEW g \in Talkgroups, Tsdu(p, s, g)
    PROVE  ParrotInv'
<1>1. UNCHANGED <<status, parrotFramesReady, parrotFirstFrame, unannounced>>
  BY DEF Tsdu, historyVars
<1>2. /\ ParrotOneSource'
      /\ \A i \in DOMAIN parrotFrames' :
            parrotFrames'[i].voice => i \in DOMAIN parrotFrames /\ parrotFrames[i].voice
  BY <1>1, UnspokenFrame DEF Tsdu
<1>3. QED BY <1>1, <1>2 DEF ParrotInv, ParrotWaits, Announced

LEMMA PlaybackKeepsParrot ==
    ASSUME TypeOK, ParrotInv, playbackParrot
    PROVE  /\ ParrotInv'
           /\ parrotFrames[1].voice /\ ParrotGrantDemand => ~unannounced'
<1>1. /\ UNCHANGED <<status, parrotFramesReady>>
      /\ parrotFramesReady
      /\ parrotFrames # << >>
      /\ parrotFrames' = Tail(parrotFrames)
      /\ unannounced' => unannounced
      /\ unannounced' /\ ParrotGrantDemand => ~parrotFirstFrame
  BY DEF playbackParrot, Played, statusVars
<1>2. /\ 1 \in DOMAIN parrotFrames
      /\ \A i \in DOMAIN parrotFrames' :
            i + 1 \in DOMAIN parrotFrames /\ parrotFrames'[i] = parrotFrames[i + 1]
  BY <1>1, RemainingFrames DEF TypeOK, Frames
<1>3. ParrotOneSource'
  BY <1>1, <1>2 DEF ParrotInv, ParrotOneSource
<1>4. ParrotGrantDemand /\ (\E i \in DOMAIN parrotFrames : parrotFrames[i].voice)
          => ~unannounced'
  BY <1>1 DEF ParrotInv, Announced
<1>5. Announced'
  BY <1>2, <1>4 DEF Announced
<1>6. QED BY <1>1, <1>2, <1>3, <1>4, <1>5 DEF ParrotInv, ParrotWaits

LEMMA NextKeepsParrot ==
    ASSUME TypeOK, ParrotInv, \A g, h \in Parrots : g = h, [Next]_vars
    PROVE  ParrotInv'
<1>1. ASSUME NEW p \in Peers, NEW s \in Radios, NEW g \in Talkgroups,
             VoiceStarts(p, s, g) \/ VoiceGoesOn(p, s, g) \/ Terminator(p, s, g) \/ Tsdu(p, s, g)
      PROVE  ParrotInv'
  BY <1>1, StartKeepsParrot, VoiceKeepsParrot, EndKeepsParrot, TsduKeepsParrot
<1>2. CASE playbackParrot
  BY <1>2, PlaybackKeepsParrot
<1>3. ASSUME UNCHANGED <<status, parrotVars, unannounced>>
      PROVE  ParrotInv'
  BY <1>3, OtherFramesKeepParrot
<1>4. /\ RollTimestamps => UNCHANGED <<status, parrotVars, unannounced>>
      /\ \A p \in Peers : PeerJoins(p) \/ PeerLeaves(p)
                              => UNCHANGED <<status, parrotVars, unannounced>>
      /\ \A s \in Radios : RadioIdsChange(s) => UNCHANGED <<status, parrotVars, unannounced>>
      /\ UNCHANGED vars => UNCHANGED <<status, parrotVars, unannounced>>
  BY DEF RollTimestamps, PeerJoins, PeerLeaves, RadioIdsChange, vars, statusVars, historyVars
<1>5. QED
  BY <1>1, <1>2, <1>3, <1>4 DEF Next

LEMMA ParrotIsOrderly ==
    ASSUME \A g, h \in Parrots : g = h
    PROVE  Spec => []ParrotInv
<1>1. Init => ParrotInv
  BY NoFrames DEF Init, ParrotInv, ParrotOneSource, ParrotWaits, Announced
<1>2. TypeOK /\ ParrotInv /\ [Next]_vars => ParrotInv'
  BY NextKeepsParrot
<1>3. QED
  BY <1>1, <1>2, TypeCorrect, PTL DEF Spec

\* With one parrot talkgroup, its recording is of one source, that of the call in
\* progress if there is one: playbackParrot names one talker.
THEOREM ParrotHasOneSource ==
    ASSUME \A g, h \in Parrots : g = h
    PROVE  Spec => []ParrotOneSource
<1>1. ParrotInv => ParrotOneSource
  BY DEF ParrotInv
<1>2. QED
  BY <1>1, ParrotIsOrderly, PTL

\* With one parrot talkgroup, nothing is played into its calls: m_parrotFramesReady is
\* set by the frame that ends a call and reset by the one that begins the next.
THEOREM ParrotIsSilentInCalls ==
    ASSUME \A g, h \in Parrots : g = h
    PROVE  Spec => []ParrotWaits
<1>1. ParrotInv => ParrotWaits
  BY DEF ParrotInv
<1>2. QED
  BY <1>1, ParrotIsOrderly, PTL

\* With one parrot talkgroup, a grant demand goes out before anything spoken is
\* played.
THEOREM DemandComesFirst ==
    ASSUME \A g, h \in Parrots : g = h
    PROVE  Spec => DemandLeads
<1>1. ASSUME TypeOK, ParrotInv, [Next]_vars
      PROVE  [playbackParrot /\ parrotFrames[1].voice /\ ParrotGrantDemand
                => ~unannounced']_vars
  BY <1>1, PlaybackKeepsParrot
<1>2. QED
  BY <1>1, ParrotIsOrderly, TypeCorrect, PTL DEF Spec, DemandLeads

=============================================================================
