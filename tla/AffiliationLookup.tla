-------------------------- MODULE AffiliationLookup --------------------------
(***************************************************************************)
(* The subscriber and channel tables of a site                             *)
(* (src/common/lookups/AffiliationLookup.{h,cpp}), used as they are by the *)
(* NXDN and, with a small override, by the P25 control channel.            *)
(*                                                                         *)
(* This module holds the tables and one operator per member function that  *)
(* changes them; the component that owns the lookup decides when they are  *)
(* called.  A table entry that the C++ code erases reads as a "No" value   *)
(* here, which is what the code's getters return for a missing entry.      *)
(***************************************************************************)
EXTENDS Integers, Sequences, FiniteSets

CONSTANTS
    Channels,       \* the voice channel numbers of the site
    Talkgroups,     \* group destination IDs
    Radios,         \* subscriber IDs: sources, and unit-to-unit destinations
    NoCh,           \* channel number 0: no channel
    NoDst,          \* destination ID 0: no talkgroup
    NoSrc,          \* source ID 0: no subscriber
    GrantTimeout    \* the grant timeout, in clock ticks

\* Talkgroup and subscriber numbers share one key space: every grant table is
\* keyed by a bare 32-bit destination ID.
Dsts == Talkgroups \cup Radios

ASSUME LookupAssumption ==
    /\ IsFiniteSet(Channels)
    /\ IsFiniteSet(Dsts)
    /\ NoCh \notin Channels
    /\ NoDst \notin Talkgroups
    /\ NoSrc \notin Radios
    /\ GrantTimeout \in Nat \ {0}

VARIABLES
    rfChTable,          \* the free channels, in the order they are handed out
    rfGrantChCnt,       \* the code's own count of granted channels
    grantChTable,       \* destination -> granted channel
    grantSrcIdTable,    \* destination -> the subscriber that was granted
    uuGrantedTable,     \* destination -> is it a unit-to-unit grant
    netGrantedTable,    \* destination -> was it granted for network traffic
    grantTimers,        \* destination -> elapsed ticks, 0 when stopped
    unitRegTable,       \* the registered subscribers
    grpAffTable         \* subscriber -> affiliated talkgroup

poolVars  == <<rfChTable, rfGrantChCnt>>
grantVars == <<grantChTable, grantSrcIdTable, uuGrantedTable, netGrantedTable, grantTimers>>
affVars   == <<unitRegTable, grpAffTable>>
lookupVars == <<poolVars, grantVars, affVars>>

-----------------------------------------------------------------------------

isGranted(d)      == grantChTable[d] # NoCh
isRFChAvailable   == rfChTable # << >>
isUnitReg(s)      == s \in unitRegTable
isGroupAff(s, d)  == grpAffTable[s] = d

Granted         == {d \in Dsts : isGranted(d)}
GrantedChannels == {grantChTable[d] : d \in Granted}
FreeChannels    == {rfChTable[i] : i \in DOMAIN rfChTable}

\* The constructor, followed by one addRFCh for every configured channel.
LookupInit ==
    /\ rfChTable \in [1..Cardinality(Channels) -> Channels]
    /\ \A ch \in Channels : \E i \in DOMAIN rfChTable : rfChTable[i] = ch
    /\ rfGrantChCnt = 0
    /\ grantChTable = [d \in Dsts |-> NoCh]
    /\ grantSrcIdTable = [d \in Dsts |-> NoSrc]
    /\ uuGrantedTable = [d \in Dsts |-> FALSE]
    /\ netGrantedTable = [d \in Dsts |-> FALSE]
    /\ grantTimers = [d \in Dsts |-> 0]
    /\ unitRegTable = {}
    /\ grpAffTable = [s \in Radios |-> NoDst]

-----------------------------------------------------------------------------
(* Channel grants.                                                          *)

\* Hand out the channel at the head of the pool.  grantCh does not look
\* whether the destination already holds one: its callers must.
grantCh(d, s, grp, net) ==
    /\ isRFChAvailable
    /\ rfChTable' = Tail(rfChTable)
    /\ rfGrantChCnt' = rfGrantChCnt + 1
    /\ grantChTable' = [grantChTable EXCEPT ![d] = Head(rfChTable)]
    /\ grantSrcIdTable' = [grantSrcIdTable EXCEPT ![d] = s]
    /\ uuGrantedTable' = [uuGrantedTable EXCEPT ![d] = ~grp]
    /\ netGrantedTable' = [netGrantedTable EXCEPT ![d] = net]
    /\ grantTimers' = [grantTimers EXCEPT ![d] = 1]

\* A faulty touchGrant, without the check that the grant still lives.
touchGrantUnchecked(d) ==
    /\ grantTimers' = [grantTimers EXCEPT ![d] = 1]
    /\ UNCHANGED <<poolVars, grantChTable, grantSrcIdTable, uuGrantedTable, netGrantedTable>>

\* Restart the timer of a live grant.
touchGrant(d) ==
    /\ grantTimers' = IF isGranted(d) THEN [grantTimers EXCEPT ![d] = 1] ELSE grantTimers
    /\ UNCHANGED <<poolVars, grantChTable, grantSrcIdTable, uuGrantedTable, netGrantedTable>>

\* An order in which a loop over the (unordered) grant table visits ds.
Orders(ds) ==
    {o \in [1..Cardinality(ds) -> ds] : \A d \in ds : \E i \in DOMAIN o : o[i] = d}

\* releaseGrant for every destination of ds, one after the other: each channel
\* goes to the back of the pool and its entries are erased.  timers is what the
\* caller has made of the grant timers before the releases.
ReleaseGrants(ds, timers) ==
    \E order \in Orders(ds) :
        /\ rfChTable' = rfChTable \o [i \in 1..Cardinality(ds) |-> grantChTable[order[i]]]
        /\ rfGrantChCnt' = IF rfGrantChCnt > Cardinality(ds)
                           THEN rfGrantChCnt - Cardinality(ds) ELSE 0
        /\ grantChTable' = [d \in Dsts |-> IF d \in ds THEN NoCh ELSE grantChTable[d]]
        /\ grantSrcIdTable' = [d \in Dsts |-> IF d \in ds THEN NoSrc ELSE grantSrcIdTable[d]]
        /\ uuGrantedTable' = [d \in Dsts |-> IF d \in ds THEN FALSE ELSE uuGrantedTable[d]]
        /\ netGrantedTable' = [d \in Dsts |-> IF d \in ds THEN FALSE ELSE netGrantedTable[d]]
        /\ grantTimers' = [d \in Dsts |-> IF d \in ds THEN 0 ELSE timers[d]]

releaseGrant(d) == isGranted(d) /\ ReleaseGrants({d}, grantTimers)

\* Faulty clocks: network grants never age; a grant is released one tick late.
AdvancedLocal == [d \in Dsts |-> IF isGranted(d) /\ ~netGrantedTable[d]
                                 THEN grantTimers[d] + 1 ELSE grantTimers[d]]
ExpiredLate == {d \in Granted : grantTimers[d] > GrantTimeout}

\* One tick: advance the timers of the live grants, then release those that ran
\* out.
Advanced == [d \in Dsts |-> IF isGranted(d) /\ grantTimers[d] > 0
                            THEN grantTimers[d] + 1 ELSE grantTimers[d]]
Expired == {d \in Granted : Advanced[d] > GrantTimeout}
lookupClock == ReleaseGrants(Expired, Advanced)

-----------------------------------------------------------------------------
(* Registrations and affiliations.                                          *)

unitReg(s) ==
    /\ unitRegTable' = unitRegTable \cup {s}
    /\ UNCHANGED grpAffTable

\* A faulty deregistration that leaves the affiliation behind.
UnitDeregsOnly(ss) ==
    /\ unitRegTable' = unitRegTable \ ss
    /\ UNCHANGED grpAffTable

\* unitDereg for every subscriber of ss: only a registered one is removed, and
\* only then is its affiliation dropped too.
UnitDeregs(ss) ==
    /\ unitRegTable' = unitRegTable \ ss
    /\ grpAffTable' = [s \in Radios |-> IF s \in ss /\ isUnitReg(s) THEN NoDst ELSE grpAffTable[s]]

unitDereg(s) == UnitDeregs({s})

groupAff(s, d) ==
    /\ grpAffTable' = [grpAffTable EXCEPT ![s] = d]
    /\ UNCHANGED unitRegTable

\* The subscribers clearGroupAff(0, true) selects.
Affiliated == {s \in Radios : grpAffTable[s] # NoDst}

=============================================================================
