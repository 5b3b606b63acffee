------------------------------ MODULE FneCalls ------------------------------
(***************************************************************************)
(* Routing of P25 and NXDN group calls in the FNE (src/fne/network/fne/    *)
(* TagP25Data.cpp, TagNXDNData.cpp): the status of each talkgroup's call,  *)
(* who is repeated to whom, the recording and playback of the P25 parrot,  *)
(* and the flag by which FNENetwork decides whether it may restart the RTP *)
(* clock.                                                                  *)
(*                                                                         *)
(* A step is one frame that processFrame handles, one playbackParrot, or   *)
(* one change of what both read.  Frames arrive over UDP from repeaters    *)
(* that do not wait for each other: any connected peer may send any frame  *)
(* at any time, which covers lost terminators, late voice, and calls that  *)
(* start at two repeaters at once.                                         *)
(*                                                                         *)
(* A stream belongs to one source for its whole life, so a frame of        *)
(* another stream and another source is a frame of another source: stream  *)
(* numbers are left out.                                                   *)
(***************************************************************************)
EXTENDS Integers, Sequences

CONSTANTS
    Peers,              \* the repeaters
    Talkgroups,
    NxdnTalkgroups,     \* those used for NXDN calls, the others for P25
    Parrots,            \* the P25 talkgroups whose rule has the parrot flag
    Radios,             \* the sources
    NoSrc,              \* no source: the talkgroup has no status
    Excluded,           \* <<peer, talkgroup>>: the rule does not let the peer take part
    ParrotGrantDemand,  \* configuration: m_parrotGrantDemand
    MaxFrames           \* bound: frames the parrot records

ASSUME CallsAssumption ==
    /\ NxdnTalkgroups \subseteq Talkgroups
    /\ Parrots \subseteq Talkgroups \ NxdnTalkgroups
    /\ NoSrc \notin Radios
    /\ Excluded \subseteq Peers \X Talkgroups
    /\ ParrotGrantDemand \in BOOLEAN
    /\ MaxFrames \in Nat

VARIABLES
    peers,              \* m_peers: the connected repeaters
    disabled,           \* the sources the radio ID table disables
    status,             \* m_status: talkgroup -> the source of its call
    callInProgress,     \* m_callInProgress
    parrotFrames,       \* the recording: what each frame is, and its source
    parrotFramesReady,
    parrotFirstFrame,
    rtpStart,           \* flips when the RTP start time is reset
    hears,              \* history: <<peer, talkgroup>> -> the source repeated to it
    live,               \* history: <<t, p, g>>: p hears t's repeater on g
    unannounced         \* history: a recording nothing of which has been announced

statusVars == <<status, callInProgress>>
parrotVars == <<parrotFrames, parrotFramesReady, parrotFirstFrame>>
historyVars == <<hears, live, unannounced>>
vars == <<peers, disabled, statusVars, parrotVars, rtpStart, historyVars>>

Init ==
    /\ peers = {}
    /\ disabled \in SUBSET Radios
    /\ status = [g \in Talkgroups |-> NoSrc]
    /\ callInProgress = FALSE
    /\ parrotFrames = << >>
    /\ parrotFramesReady = FALSE
    /\ parrotFirstFrame = TRUE
    /\ rtpStart = 0
    /\ hears = [x \in Peers \X Talkgroups |-> NoSrc]
    /\ live = {}
    /\ unannounced = FALSE

-----------------------------------------------------------------------------
(* Where a frame goes.                                                      *)

isPeerPermitted(p, g) == <<p, g>> \notin Excluded

\* P25 permits every peer a terminator, a TSDU or a PDU; NXDN asks the rule.
isPeerPermittedEnd(p, g) == g \in NxdnTalkgroups => isPeerPermitted(p, g)

\* The peers a frame of p may be repeated to.  The faulty ones include peers that
\* are gone.
OthersEver(p) == Peers \ {p}
Others(p) == peers \ {p}
VoiceRepeated(p, g) == {q \in Others(p) : isPeerPermitted(q, g)}
EndRepeated(p, g)   == {q \in Others(p) : isPeerPermittedEnd(q, g)}

\* A frame is handled if its source is not disabled and its peer is permitted.
Valid(p, s) == p \in peers /\ s \notin disabled
VoiceValid(p, s, g) == Valid(p, s) /\ isPeerPermitted(p, g)
EndValid(p, s, g)   == Valid(p, s) /\ isPeerPermittedEnd(p, g)

\* A faulty check that is left out.
IsCollisionNever(s, g) == FALSE

\* Another source holds the talkgroup.
IsCollision(s, g) == status[g] \notin {NoSrc, s}

\* The frame as it is kept for the playback.
Frame(voice, s) == [voice |-> voice, srcId |-> s]

Recorded(frames, g, f) ==
    /\ g \in Parrots => Len(frames) < MaxFrames
    /\ parrotFrames' = IF g \in Parrots THEN Append(frames, f) ELSE frames

\* What the listeners of p hear of a voice frame.
VoiceHeard(p, s, g) ==
    /\ hears' = [x \in DOMAIN hears |->
                    IF x[2] = g /\ x[1] \in VoiceRepeated(p, g) THEN s ELSE hears[x]]
    /\ live' = live \cup ({p} \X VoiceRepeated(p, g) \X {g})

\* A faulty start of a call that keeps what the parrot recorded before.
NewRecordingKept(p, s, g) ==
    /\ Recorded(parrotFrames, g, Frame(TRUE, s))
    /\ parrotFramesReady' = (g \notin Parrots /\ parrotFramesReady)
    /\ unannounced' = (g \in Parrots \/ unannounced)

\* A faulty start of a call that leaves the playback of the last one running.
NewRecordingPlaying(p, s, g) ==
    /\ Recorded(IF g \in Parrots THEN << >> ELSE parrotFrames, g, Frame(TRUE, s))
    /\ UNCHANGED parrotFramesReady
    /\ unannounced' = (g \in Parrots \/ unannounced)

\* The first frame of a call on a parrot talkgroup clears the last recording.
NewRecording(p, s, g) ==
    /\ Recorded(IF g \in Parrots THEN << >> ELSE parrotFrames, g, Frame(TRUE, s))
    /\ parrotFramesReady' = (g \notin Parrots /\ parrotFramesReady)
    /\ unannounced' = (g \in Parrots \/ unannounced)

-----------------------------------------------------------------------------
(* processFrame.                                                            *)

\* Voice on a talkgroup without a call.
VoiceStarts(p, s, g) ==
    /\ VoiceValid(p, s, g)
    /\ status[g] = NoSrc
    /\ status' = [status EXCEPT ![g] = s]
    /\ callInProgress' = TRUE
    /\ NewRecording(p, s, g)
    /\ VoiceHeard(p, s, g)
    /\ UNCHANGED <<peers, disabled, parrotFirstFrame, rtpStart>>

\* Voice of the source that holds the talkgroup, of whatever stream; that of
\* another source is dropped.
VoiceGoesOn(p, s, g) ==
    /\ VoiceValid(p, s, g)
    /\ status[g] # NoSrc
    /\ ~IsCollision(s, g)
    /\ callInProgress' = (callInProgress \/ VoiceRepeated(p, g) # {})
    /\ Recorded(parrotFrames, g, Frame(TRUE, s))
    /\ VoiceHeard(p, s, g)
    /\ UNCHANGED <<peers, disabled, status, parrotFramesReady, parrotFirstFrame, rtpStart,
                   unannounced>>

\* The call flag after a terminator: cleared, and set again when the terminator is
\* repeated to another peer.  The faulty one stays cleared.
FlagClearedOnly(p, g) == FALSE
FlagAfterEnd(p, g) == EndRepeated(p, g) # {}

\* A faulty end that starts the playback without its first frame.
PlaybackContinues(g) ==
    LET starts == g \in Parrots /\ parrotFrames # << >> IN
    /\ parrotFramesReady' = (starts \/ parrotFramesReady)
    /\ UNCHANGED parrotFirstFrame

PlaybackStarts(g) ==
    LET starts == g \in Parrots /\ parrotFrames # << >> IN
    /\ parrotFramesReady' = (starts \/ parrotFramesReady)
    /\ parrotFirstFrame' = (starts \/ parrotFirstFrame)

\* The end of whatever call the talkgroup has: neither the stream nor the source
\* of the terminator is compared with it.
Terminator(p, s, g) ==
    /\ EndValid(p, s, g)
    /\ status' = [status EXCEPT ![g] = NoSrc]
    /\ callInProgress' = FlagAfterEnd(p, g)
    /\ PlaybackStarts(g)
    /\ Recorded(parrotFrames, g, Frame(FALSE, s))
    /\ hears' = [x \in DOMAIN hears |->
                    IF x[2] = g /\ x[1] \in EndRepeated(p, g) \cup {p} THEN NoSrc ELSE hears[x]]
    /\ live' = {c \in live : c[3] # g}
    /\ UNCHANGED <<peers, disabled, rtpStart, unannounced>>

\* A TSDU or PDU, or an NXDN message that is neither voice, data nor release, is
\* repeated, and recorded, but is no part of a call.
Tsdu(p, s, g) ==
    /\ EndValid(p, s, g)
    /\ callInProgress' = (callInProgress \/ EndRepeated(p, g) # {})
    /\ Recorded(parrotFrames, g, Frame(FALSE, s))
    /\ UNCHANGED <<peers, disabled, status, parrotFramesReady, parrotFirstFrame, rtpStart,
                   historyVars>>

-----------------------------------------------------------------------------
(* The rest of FNENetwork::clock.                                           *)

\* A faulty playback that sends its first frame for ever.
PlayedStuck == parrotFrames
Played == Tail(parrotFrames)

\* With nothing to read from the network, the next frame of a finished recording
\* is sent to every peer, the first one after a grant demand.
playbackParrot ==
    /\ parrotFramesReady
    /\ parrotFrames # << >>
    /\ parrotFrames' = Played
    /\ parrotFirstFrame' = FALSE
    /\ unannounced' = (unannounced /\ ~(parrotFirstFrame /\ ParrotGrantDemand))
    /\ UNCHANGED <<peers, disabled, statusVars, parrotFramesReady, rtpStart, hears, live>>

\* The maintenance timer: "roll the RTP timestamp if no call is in progress".
RollTimestamps ==
    /\ ~callInProgress
    /\ rtpStart' = 1 - rtpStart
    /\ UNCHANGED <<peers, disabled, statusVars, parrotVars, historyVars>>

PeerJoins(p) ==
    /\ p \notin peers
    /\ peers' = peers \cup {p}
    /\ UNCHANGED <<disabled, statusVars, parrotVars, rtpStart, historyVars>>

\* A peer closes or times out: the calls it is part of keep their status.
PeerLeaves(p) ==
    /\ p \in peers
    /\ peers' = peers \ {p}
    /\ hears' = [x \in DOMAIN hears |-> IF x[1] = p THEN NoSrc ELSE hears[x]]
    /\ live' = {c \in live : p \notin {c[1], c[2]}}
    /\ UNCHANGED <<disabled, statusVars, parrotVars, rtpStart, unannounced>>

\* The radio ID table is read again, or changed through the REST interface.
RadioIdsChange(s) ==
    /\ disabled' = IF s \in disabled THEN disabled \ {s} ELSE disabled \cup {s}
    /\ UNCHANGED <<peers, statusVars, parrotVars, rtpStart, historyVars>>

Next ==
    \/ \E p \in Peers, s \in Radios, g \in Talkgroups :
          VoiceStarts(p, s, g) \/ VoiceGoesOn(p, s, g) \/ Terminator(p, s, g) \/ Tsdu(p, s, g)
    \/ playbackParrot
    \/ RollTimestamps
    \/ \E p \in Peers : PeerJoins(p) \/ PeerLeaves(p)
    \/ \E s \in Radios : RadioIdsChange(s)

Spec == Init /\ [][Next]_vars

\* The master finds its socket empty again and again.
FairSpec == Spec /\ WF_vars(playbackParrot)

-----------------------------------------------------------------------------
(* Properties.                                                              *)

TypeOK ==
    /\ peers \subseteq Peers
    /\ disabled \subseteq Radios
    /\ status \in [Talkgroups -> Radios \cup {NoSrc}]
    /\ callInProgress \in BOOLEAN
    /\ parrotFrames \in Seq([voice : BOOLEAN, srcId : Radios])
    /\ parrotFramesReady \in BOOLEAN
    /\ parrotFirstFrame \in BOOLEAN
    /\ rtpStart \in 0..1
    /\ hears \in [Peers \X Talkgroups -> Radios \cup {NoSrc}]
    /\ live \subseteq peers \X peers \X Talkgroups
    /\ unannounced \in BOOLEAN

\* A listener of repeated calls never hears one source become another: whatever
\* terminators, late frames, list changes and sessions come in between, a terminator
\* of the talkgroup separates the two (the collision check of processFrame, and the
\* repetition of terminators to whoever hears the talkgroup).
NoMixedVoice ==
    [][\A x \in DOMAIN hears :
          hears'[x] # hears[x] => hears[x] = NoSrc \/ hears'[x] = NoSrc]_vars

\* While one repeater is repeated to another, the RTP start time stays: a
\* terminator of another talkgroup clears m_callInProgress, but must not let
\* FNENetwork::clock restart the timestamps in the middle of a call.
RtpKeptDuringCalls == [][rtpStart' # rtpStart => live = {}]_vars

\* The parrot never records two sources: everything spoken in the buffer comes
\* from one, which is that of the talkgroup's call while it lasts.
ParrotOneSource ==
    \A i, j \in DOMAIN parrotFrames :
        parrotFrames[i].voice /\ parrotFrames[j].voice =>
            /\ parrotFrames[i].srcId = parrotFrames[j].srcId
            /\ \A g \in Parrots : status[g] \in {NoSrc, parrotFrames[i].srcId}

\* The parrot does not talk into a call: frames are ready to play only between
\* the calls of the parrot talkgroup.
ParrotWaits == parrotFramesReady => \A g \in Parrots : status[g] = NoSrc

\* No speech is played back to trunked repeaters that were not asked for a
\* channel: a grant demand goes out before the first spoken frame of a recording
\* (m_parrotFirstFrame).
DemandLeads ==
    [][playbackParrot /\ parrotFrames[1].voice /\ ParrotGrantDemand => ~unannounced']_vars

\* A recording that is ready is played to its last spoken frame, unless a new call
\* takes its place.
ParrotPlays ==
    parrotFramesReady ~>
        (~parrotFramesReady \/ \A i \in DOMAIN parrotFrames : ~parrotFrames[i].voice)

=============================================================================
