------------------------------ MODULE P25Grants ------------------------------
(***************************************************************************)
(* A dedicated P25 control channel: the requests that reach it over the    *)
(* air, from the network and through its REST interface, and what they do  *)
(* to the lookup tables (src/host/p25/Control.cpp,                         *)
(* src/host/p25/packet/ControlSignaling.cpp,                               *)
(* src/host/p25/lookups/P25AffiliationLookup.cpp).                         *)
(*                                                                         *)
(* Every request is one step here: the handlers of one host seen as if the *)
(* main loop and the REST thread took turns.                               *)
(***************************************************************************)
EXTENDS AffiliationLookup

CONSTANTS
    VerifyReg,      \* verifyReg: only registered subscribers are served
    VerifyAff,      \* verifyAff: only affiliated subscribers are granted a group
    CheckGrantSrcId \* not disableGrantSourceIdCheck

ASSUME P25Assumption ==
    /\ VerifyReg \in BOOLEAN
    /\ VerifyAff \in BOOLEAN
    /\ CheckGrantSrcId \in BOOLEAN

VARIABLES
    authoritative,  \* m_authoritative, as configured: does this host decide on grants
    rfState,        \* m_rfState between two frames: "listening" or "rejected"
    siteChCnt       \* the channel count the site broadcasts

vars == <<lookupVars, authoritative, rfState, siteChCnt>>

Init ==
    /\ LookupInit
    /\ authoritative \in BOOLEAN
    /\ rfState = "listening"
    /\ siteChCnt = Cardinality(Channels)

\* A faulty recount, made before the count of granted channels is updated.
RecountTooEarly == siteChCnt' = Len(rfChTable)' + rfGrantChCnt

\* setChCnt(getRFChCnt() + getGrantedRFChCnt()), after the tables have changed.
RecountChannels == siteChCnt' = Len(rfChTable)' + rfGrantChCnt'

-----------------------------------------------------------------------------
(* writeRF_TSDU_Grant: what becomes of a request for destination d.         *)

\* The source check of a repeated request: only the subscriber that holds the
\* grant may repeat it over the air; network requests are not checked.
IsCollision(s, d, net) == CheckGrantSrcId /\ ~net /\ grantSrcIdTable[d] # s

\* A faulty grant that does not look whether the destination holds one.
NewGrantUnguarded(s, d, grp, net) ==
    /\ grantCh(d, s, grp, net)
    /\ UNCHANGED affVars
    /\ RecountChannels

NewGrant(s, d, grp, net) ==
    /\ ~isGranted(d)
    /\ grantCh(d, s, grp, net)
    /\ UNCHANGED affVars
    /\ RecountChannels

GrantRetry(s, d, net) ==
    /\ isGranted(d)
    /\ ~IsCollision(s, d, net)
    /\ touchGrant(d)
    /\ UNCHANGED <<affVars, siteChCnt>>

GrantQueued(d) ==
    /\ ~isGranted(d)
    /\ ~isRFChAvailable
    /\ UNCHANGED <<lookupVars, siteChCnt>>

GrantCollision(s, d, net) ==
    /\ isGranted(d)
    /\ IsCollision(s, d, net)
    /\ UNCHANGED <<lookupVars, siteChCnt>>

\* A faulty refusal that forgets to release the channel it was handed.
NewGrantNotReleased(d) ==
    /\ authoritative
    /\ ~isGranted(d)
    /\ isRFChAvailable
    /\ rfChTable' = Tail(rfChTable)
    /\ UNCHANGED <<rfGrantChCnt, grantVars, affVars, siteChCnt>>

\* The voice channel host, which only an authoritative host asks, did not accept
\* the permit: the grant just recorded is released at once, so that its channel
\* goes to the back of the pool.
NewGrantNotPermitted(d) ==
    /\ authoritative
    /\ ~isGranted(d)
    /\ isRFChAvailable
    /\ rfChTable' = Append(Tail(rfChTable), Head(rfChTable))
    /\ UNCHANGED <<rfGrantChCnt, grantVars, affVars>>
    /\ RecountChannels

\* The same for a repeated request: the running grant is lost.
GrantRetryNotPermitted(s, d, net) ==
    /\ authoritative
    /\ ~IsCollision(s, d, net)
    /\ releaseGrant(d)
    /\ UNCHANGED affVars
    /\ RecountChannels

GrantServed(s, d, grp, net) ==
    \/ NewGrant(s, d, grp, net)
    \/ GrantRetry(s, d, net)

GrantRefused(s, d, net) ==
    \/ GrantQueued(d)
    \/ GrantCollision(s, d, net)
    \/ NewGrantNotPermitted(d)
    \/ GrantRetryNotPermitted(s, d, net)

-----------------------------------------------------------------------------
(* Requests over the air.  While a TSDU is processed the state is           *)
(* RS_RF_DATA and on return the state before it is restored, whatever the   *)
(* grant logic stored; only the VERIFY_ checks return before that.          *)

SourceVerified(s, d, grp) ==
    IF grp THEN VerifyAff => isGroupAff(s, d) ELSE VerifyReg => isUnitReg(s)

\* A host that is not authoritative passes the request on to the network.
RfGrantReq(s, d, grp) ==
    /\ authoritative
    /\ SourceVerified(s, d, grp)
    /\ GrantServed(s, d, grp, FALSE) \/ GrantRefused(s, d, FALSE)
    /\ UNCHANGED <<authoritative, rfState>>

\* A subscriber that answers a unit-to-unit call is not verified.
RfUnitAnswer(s, d) ==
    /\ authoritative
    /\ GrantServed(s, d, FALSE, FALSE) \/ GrantRefused(s, d, FALSE)
    /\ UNCHANGED <<authoritative, rfState>>

RfGrantReqNotVerified(s, d, grp) ==
    /\ ~SourceVerified(s, d, grp)
    /\ rfState' = "rejected"
    /\ UNCHANGED <<lookupVars, authoritative, siteChCnt>>

\* A request of, or for, somebody the access lists do not know.
RfRejected ==
    /\ rfState' = "rejected"
    /\ UNCHANGED <<lookupVars, authoritative, siteChCnt>>

\* A grant demand of the network, which is heard only while the repeater is
\* listening.  (A network TSBK asks the same, of a destination without a grant.)
NetGrantReq(s, d, grp) ==
    /\ rfState = "listening"
    /\ GrantServed(s, d, grp, TRUE) \/ GrantRefused(s, d, TRUE)
    /\ UNCHANGED <<authoritative, rfState>>

NetCallTerm(d) ==
    /\ rfState = "listening"
    /\ releaseGrant(d)
    /\ RecountChannels
    /\ UNCHANGED <<affVars, authoritative, rfState>>

(* Requests through the REST interface, from a voice channel host or an     *)
(* operator.                                                                *)

\* "Host is authoritative, cannot grant TG": only another host's grants are taken.
RestGrantTG(s, d, grp) ==
    /\ ~authoritative
    /\ UNCHANGED authoritative
    /\ \/ /\ rfState = "listening"
          /\ GrantServed(s, d, grp, FALSE)
          /\ UNCHANGED rfState
       \/ /\ rfState = "listening"
          /\ GrantRefused(s, d, FALSE)
          /\ rfState' = "rejected"
       \/ /\ rfState # "listening"
          /\ UNCHANGED <<lookupVars, rfState, siteChCnt>>

RestTouchGrantTG(d) ==
    /\ touchGrant(d)
    /\ UNCHANGED <<affVars, authoritative, rfState, siteChCnt>>

RestReleaseGrantTG(d) ==
    /\ releaseGrant(d)
    /\ RecountChannels
    /\ UNCHANGED <<affVars, authoritative, rfState>>

\* releaseGrant(0, true), on a copy: p25::Control::affiliations() returns the lookup
\* by value.  The grants stay; the copy's counts, whose sum is that of the lookup,
\* are broadcast.
RestReleaseGrants ==
    /\ UNCHANGED <<lookupVars, authoritative, rfState>>
    /\ RecountChannels

\* P25AffiliationLookup::clearGroupAff(0, true): every affiliated subscriber is
\* deregistered.  This too runs on a copy, but each deregistration is made by the real
\* control, with writeRF_TSDU_U_Dereg_Ack.
RestReleaseAffs ==
    /\ UnitDeregs(Affiliated)
    /\ UNCHANGED <<poolVars, grantVars, authoritative, rfState, siteChCnt>>

-----------------------------------------------------------------------------
(* Registration and affiliation over the air.                               *)

UnitReg(s) ==
    /\ unitReg(s)
    /\ UNCHANGED <<poolVars, grantVars, authoritative, rfState, siteChCnt>>

UnitDereg(s) ==
    /\ unitDereg(s)
    /\ UNCHANGED <<poolVars, grantVars, authoritative, rfState, siteChCnt>>

GroupAff(s, d) ==
    /\ VerifyReg => isUnitReg(s)
    /\ groupAff(s, d)
    /\ UNCHANGED <<poolVars, grantVars, authoritative, rfState, siteChCnt>>

-----------------------------------------------------------------------------

\* One pass of the main loop: leave the rejected state, clock the grant timers.
Clock ==
    /\ rfState' = "listening"
    /\ lookupClock
    /\ IF Expired # {} THEN RecountChannels ELSE UNCHANGED siteChCnt
    /\ UNCHANGED <<affVars, authoritative>>

GrantReq(s, d, grp) ==
    \/ RfGrantReq(s, d, grp)
    \/ RfGrantReqNotVerified(s, d, grp)
    \/ NetGrantReq(s, d, grp)
    \/ RestGrantTG(s, d, grp)

Next ==
    \/ \E s \in Radios :
        \/ \E d \in Talkgroups : GrantReq(s, d, TRUE) \/ GroupAff(s, d)
        \/ \E d \in Radios : GrantReq(s, d, FALSE) \/ RfUnitAnswer(s, d)
        \/ UnitReg(s)
        \/ UnitDereg(s)
    \/ \E d \in Dsts : NetCallTerm(d) \/ RestTouchGrantTG(d) \/ RestReleaseGrantTG(d)
    \/ RestReleaseGrants
    \/ RestReleaseAffs
    \/ RfRejected
    \/ Clock

Spec == Init /\ [][Next]_vars

\* The main loop keeps clocking its timers whatever else happens.
FairSpec == Spec /\ WF_vars(Clock)

-----------------------------------------------------------------------------
(* Properties.                                                              *)

TypeOK ==
    /\ rfChTable \in Seq(Channels)
    /\ rfGrantChCnt \in Nat
    /\ grantChTable \in [Dsts -> Channels \cup {NoCh}]
    /\ grantSrcIdTable \in [Dsts -> Radios \cup {NoSrc}]
    /\ uuGrantedTable \in [Dsts -> BOOLEAN]
    /\ netGrantedTable \in [Dsts -> BOOLEAN]
    /\ grantTimers \in [Dsts -> 0..GrantTimeout]
    /\ unitRegTable \subseteq Radios
    /\ grpAffTable \in [Radios -> Talkgroups \cup {NoDst}]
    /\ authoritative \in BOOLEAN
    /\ rfState \in {"listening", "rejected"}
    /\ siteChCnt \in Nat

\* No channel is listed twice in the pool.
PoolDistinct ==
    \A i, j \in DOMAIN rfChTable : rfChTable[i] = rfChTable[j] => i = j

\* No channel carries two grants.
GrantsDistinct ==
    \A d, e \in Granted : grantChTable[d] = grantChTable[e] => d = e

\* Whatever sequence of grants, repeats, refused permits, releases and timeouts
\* the site goes through, each configured channel is at any time either free,
\* once, or granted, to one destination: none is leaked, none is handed out
\* twice (grantCh, releaseGrant and the guards of writeRF_TSDU_Grant).
ChannelsConserved ==
    /\ PoolDistinct
    /\ GrantsDistinct
    /\ FreeChannels \cap GrantedChannels = {}
    /\ FreeChannels \cup GrantedChannels = Channels

\* The parallel grant tables agree: a live grant has a holder and a running
\* timer, and nothing outlives its grant (the erasures of releaseGrant).
TablesInStep ==
    \A d \in Dsts :
        /\ isGranted(d) <=> grantSrcIdTable[d] # NoSrc
        /\ isGranted(d) <=> grantTimers[d] > 0
        /\ uuGrantedTable[d] \/ netGrantedTable[d] => isGranted(d)

\* m_rfGrantChCnt, kept by hand next to the grant table, is its exact size, and
\* the channel count that the site broadcasts never drifts from the number of
\* channels it was configured with.
CountsExact ==
    /\ rfGrantChCnt = Cardinality(Granted)
    /\ siteChCnt = Cardinality(Channels)

\* With verifyReg, the affiliation table never names a subscriber that is not
\* registered, in whatever order registrations, affiliations, deregistrations
\* and forced releases arrive.
AffiliatedAreRegistered ==
    VerifyReg => Affiliated \subseteq unitRegTable

\* Seen through its pool and its grant table, the control channel is a plain pool
\* of channels: every request, refusal, release and timeout takes one free channel
\* for a destination without one, gives back what some destinations hold, or does
\* neither.
Pool == INSTANCE ChannelPool WITH free <- FreeChannels, held <- grantChTable
ImplementsPool == Pool!Spec

\* A live grant is never moved to another channel or another holder under the
\* call that uses it, whoever repeats the request: the only way to change it is
\* to release it first.
GrantsStable ==
    [][\A d \in Dsts : isGranted(d) /\ isGranted(d)' =>
           /\ grantChTable'[d] = grantChTable[d]
           /\ grantSrcIdTable'[d] = grantSrcIdTable[d]
           /\ uuGrantedTable'[d] = uuGrantedTable[d]
           /\ netGrantedTable'[d] = netGrantedTable[d]]_vars

\* A grant that stays for ever is one that is touched again and again: a call
\* nobody keeps alive gives its channel back, though every report of its end may
\* have been lost (the grant timers of AffiliationLookup::clock).
UntouchedGrantExpires ==
    \A d \in Dsts :
        <>[]isGranted(d) => []<><<grantTimers[d] > 1 /\ grantTimers'[d] = 1>>_vars

=============================================================================
