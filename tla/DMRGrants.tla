------------------------------ MODULE DMRGrants ------------------------------
(***************************************************************************)
(* A dedicated DMR Tier III control slot (TSCC): requests for a time slot  *)
(* of a voice channel, and what they do to the lookup tables               *)
(* (src/host/dmr/lookups/DMRAffiliationLookup.cpp,                         *)
(* src/host/dmr/packet/ControlSignaling.cpp, src/host/dmr/Slot.cpp,        *)
(* src/host/dmr/Control.cpp).                                              *)
(*                                                                         *)
(* Every DMR channel has two time slots.  The TSCC takes one slot of its   *)
(* own channel; the other one is the payload slot of the same host.        *)
(***************************************************************************)
EXTENDS AffiliationLookup, SequencesExt

CONSTANTS
    TsccCh,         \* m_tsccChNo: the channel of the TSCC
    VerifyReg,      \* verifyReg: only registered subscribers call a subscriber
    CheckGrantSrcId \* not disableGrantSourceIdCheck

ASSUME DMRAssumption ==
    /\ TsccCh # NoCh
    /\ NoDst \notin Dsts
    /\ VerifyReg \in BOOLEAN
    /\ CheckGrantSrcId \in BOOLEAN

Slots == {1, 2}
NoSlot == <<NoCh, 0>>
Opposite(slot) == 3 - slot

VARIABLES
    tsccSlot,         \* m_tsccSlot, as configured
    authoritative,    \* m_authoritative, as configured: does this host decide on grants
    grantChSlotTable, \* destination -> channel and slot granted
    payloadDst,       \* m_tsccPayloadDstId of the two slots of this host
    rfState           \* m_rfState of the TSCC slot: "listening" or "rejected"

config == <<tsccSlot, authoritative>>
vars   == <<lookupVars, config, grantChSlotTable, payloadDst, rfState>>

Init ==
    /\ LookupInit
    /\ tsccSlot \in Slots
    /\ authoritative \in BOOLEAN
    /\ grantChSlotTable = [d \in Dsts |-> NoSlot]
    /\ payloadDst = [slot \in Slots |-> NoDst]
    /\ rfState = "listening"

-----------------------------------------------------------------------------
(* The slot of a channel that is handed out next.                           *)

Entries(ch) == {d \in Dsts : grantChSlotTable[d][1] = ch}

\* The loop of getAvailableSlotForChannel: start from slot 1 and change to the
\* other slot at every entry that holds the present one.
Scan(order) ==
    LET Step(at, d) == IF grantChSlotTable[d][2] = at.slot
                       THEN [slot |-> Opposite(at.slot), count |-> at.count + 1]
                       ELSE at
    IN  FoldLeft(Step, [slot |-> 1, count |-> 0], order)

\* What it returns when the hash table is visited in this order; 0 is no slot.
SlotFound(ch, order) ==
    LET found == Scan(order) IN
    IF found.count = 2 THEN 0
    ELSE IF ch = TsccCh /\ found.slot = tsccSlot
         THEN IF found.count = 0 THEN Opposite(tsccSlot) ELSE 0
         ELSE found.slot

\* The order in which the entries are visited is the hash table's.
AvailableSlots(ch) == {SlotFound(ch, order) : order \in Orders(Entries(ch))}

-----------------------------------------------------------------------------
(* DMRAffiliationLookup: grantCh and releaseGrant.                          *)

\* A faulty pool that keeps the channel of the TSCC after its free slot is gone.
LeavesPoolNever(ch) == FALSE

\* The channel at the head of the pool leaves it if it is the TSCC's, which has
\* one slot to give.  The code also means to take out a channel without a free
\* slot, but asks before the grant is entered, when the slot it is about to give
\* is itself still free: the channel stays.
LeavesPool(ch) == ch = TsccCh

grantChSlot(d, s, slot, grp, net) ==
    LET chNo == Head(rfChTable) IN
    /\ ~(chNo = TsccCh /\ slot = tsccSlot)
    /\ rfChTable' = IF LeavesPool(chNo) THEN Tail(rfChTable) ELSE rfChTable
    /\ rfGrantChCnt' = rfGrantChCnt + 1
    /\ grantChTable' = [grantChTable EXCEPT ![d] = chNo]
    /\ grantSrcIdTable' = [grantSrcIdTable EXCEPT ![d] = s]
    /\ grantChSlotTable' = [grantChSlotTable EXCEPT ![d] = <<chNo, slot>>]
    /\ uuGrantedTable' = [uuGrantedTable EXCEPT ![d] = ~grp]
    /\ netGrantedTable' = [netGrantedTable EXCEPT ![d] = net]
    /\ grantTimers' = [grantTimers EXCEPT ![d] = 1]

\* A faulty release that puts a channel back whether it is in the pool or not.
ReturnedAlways(ds) == {grantChTable[d] : d \in ds}

\* The channels of the destinations ds that go back to the pool: those not in it.
Returned(ds) == {grantChTable[d] : d \in ds} \ FreeChannels

\* releaseGrant for every destination of ds: all entries are erased but the
\* unit-to-unit flag.
ReleaseSlots(ds, timers) ==
    /\ \E order \in Orders(Returned(ds)) : rfChTable' = rfChTable \o order
    /\ rfGrantChCnt' = IF rfGrantChCnt > Cardinality(ds)
                       THEN rfGrantChCnt - Cardinality(ds) ELSE 0
    /\ grantChTable' = [d \in Dsts |-> IF d \in ds THEN NoCh ELSE grantChTable[d]]
    /\ grantSrcIdTable' = [d \in Dsts |-> IF d \in ds THEN NoSrc ELSE grantSrcIdTable[d]]
    /\ grantChSlotTable' = [d \in Dsts |-> IF d \in ds THEN NoSlot ELSE grantChSlotTable[d]]
    /\ netGrantedTable' = [d \in Dsts |-> IF d \in ds THEN FALSE ELSE netGrantedTable[d]]
    /\ grantTimers' = [d \in Dsts |-> IF d \in ds THEN 0 ELSE timers[d]]
    /\ UNCHANGED uuGrantedTable

\* A faulty callback that clears nothing.
PayloadKept(ds) == payloadDst

\* The release callback, for the grants on the TSCC's own channel:
\* tsccClearActivatedSlot.
PayloadCleared(ds) ==
    [slot \in Slots |-> IF \E d \in ds : grantChSlotTable[d] = <<TsccCh, slot>>
                        THEN NoDst ELSE payloadDst[slot]]

Release(ds, timers) ==
    /\ ReleaseSlots(ds, timers)
    /\ payloadDst' = PayloadCleared(ds)

-----------------------------------------------------------------------------
(* writeRF_CSBK_Grant, and writeRF_CSBK_Data_Grant without the steps that   *)
(* only a voice call takes.                                                 *)

\* tsccActivateSlot for a grant on the TSCC's own channel; the TSCC itself is
\* never activated.
PayloadActivated(ch, slot, d) ==
    IF ch = TsccCh /\ slot # tsccSlot THEN [payloadDst EXCEPT ![slot] = d] ELSE payloadDst

\* The source check of a repeated voice request over the air.
IsCollision(s, d, voice, net) ==
    CheckGrantSrcId /\ voice /\ ~net /\ grantSrcIdTable[d] # s

NewGrant(s, d, grp, net) ==
    /\ ~isGranted(d)
    /\ isRFChAvailable
    /\ \E slot \in Slots \cap AvailableSlots(Head(rfChTable)) :
        /\ grantChSlot(d, s, slot, grp, net)
        /\ payloadDst' = PayloadActivated(Head(rfChTable), slot, d)
    /\ UNCHANGED affVars

\* grantCh finds no slot on the first channel of the pool, and no other channel
\* is tried: the grant is announced all the same, for channel 0.
NewGrantWithoutSlot(d) ==
    /\ ~isGranted(d)
    /\ isRFChAvailable
    /\ 0 \in AvailableSlots(Head(rfChTable))
    /\ UNCHANGED <<lookupVars, grantChSlotTable, payloadDst>>

GrantRetry(s, d, voice, net) ==
    /\ isGranted(d)
    /\ ~IsCollision(s, d, voice, net)
    /\ touchGrant(d)
    /\ payloadDst' = PayloadActivated(grantChTable[d], grantChSlotTable[d][2], d)
    /\ UNCHANGED <<affVars, grantChSlotTable>>

GrantQueued(d) ==
    /\ ~isGranted(d)
    /\ ~isRFChAvailable
    /\ UNCHANGED <<lookupVars, grantChSlotTable, payloadDst>>

GrantCollision(s, d, voice, net) ==
    /\ isGranted(d)
    /\ IsCollision(s, d, voice, net)
    /\ UNCHANGED <<lookupVars, grantChSlotTable, payloadDst>>

\* The host of another channel, which only an authoritative host asks, did not
\* accept the permit for a voice call: the grant just entered is released, after
\* which only the unit-to-unit flag differs.
NewGrantNotPermitted(d, grp, voice) ==
    /\ authoritative
    /\ voice
    /\ ~isGranted(d)
    /\ isRFChAvailable
    /\ Head(rfChTable) # TsccCh
    /\ AvailableSlots(Head(rfChTable)) \ {0} # {}
    /\ uuGrantedTable' = [uuGrantedTable EXCEPT ![d] = ~grp]
    /\ UNCHANGED <<poolVars, grantChTable, grantSrcIdTable, netGrantedTable, grantTimers,
                   affVars, grantChSlotTable, payloadDst>>

\* The same for a repeated request: the running grant is lost.
GrantRetryNotPermitted(s, d, voice, net) ==
    /\ authoritative
    /\ voice
    /\ ~IsCollision(s, d, voice, net)
    /\ grantChTable[d] # TsccCh
    /\ isGranted(d)
    /\ Release({d}, grantTimers)
    /\ UNCHANGED affVars

GrantServed(s, d, grp, voice, net) ==
    \/ NewGrant(s, d, grp, net)
    \/ NewGrantWithoutSlot(d)
    \/ GrantRetry(s, d, voice, net)

GrantRefused(s, d, grp, voice, net) ==
    \/ GrantQueued(d)
    \/ GrantCollision(s, d, voice, net)
    \/ NewGrantNotPermitted(d, grp, voice)
    \/ GrantRetryNotPermitted(s, d, voice, net)

-----------------------------------------------------------------------------
(* The requests.                                                            *)

\* Over the air, or by grantTG of the REST interface, which verifies nothing: a
\* refusal leaves the slot rejected until the next clock, and whatever is asked
\* of a rejected slot is refused too.
GrantReq(s, d, grp, voice) ==
    /\ rfState = "listening"
    /\ \/ GrantServed(s, d, grp, voice, FALSE) /\ UNCHANGED rfState
       \/ GrantRefused(s, d, grp, voice, FALSE) /\ rfState' = "rejected"
    /\ UNCHANGED config

\* A host that is not authoritative passes requests for a voice call on to the
\* network, and takes grants through its REST interface.
RfGrantReq(s, d, grp, voice) ==
    /\ voice => authoritative
    /\ VerifyReg /\ ~grp => isUnitReg(s)
    /\ GrantReq(s, d, grp, voice)

RestGrantTG(s, d, grp) == ~authoritative /\ GrantReq(s, d, grp, TRUE)

\* A subscriber or a talkgroup that the access lists do not know.
RfRejected ==
    /\ rfState' = "rejected"
    /\ UNCHANGED <<lookupVars, config, grantChSlotTable, payloadDst>>

\* From the network: heard only while the slot is listening, and only for a
\* destination that holds no grant.
NetGrantReq(s, d, grp, voice) ==
    /\ voice => authoritative
    /\ rfState = "listening"
    /\ ~isGranted(d)
    /\ \/ NewGrant(s, d, grp, TRUE)
       \/ NewGrantWithoutSlot(d)
       \/ GrantQueued(d)
       \/ NewGrantNotPermitted(d, grp, voice)
    /\ UNCHANGED <<rfState, config>>

RestTouchGrantTG(d) ==
    /\ touchGrant(d)
    /\ UNCHANGED <<affVars, config, grantChSlotTable, payloadDst, rfState>>

\* (The release of all grants through the REST interface changes nothing here: it
\* acts on a lookup that Control::affiliations() makes afresh from a pointer.)
RestReleaseGrantTG(d) ==
    /\ isGranted(d)
    /\ Release({d}, grantTimers)
    /\ UNCHANGED <<affVars, config, rfState>>

\* A call to d on the payload slot of this host ends, with a terminator or by
\* the loss of its frames: d's grant, if any, is released and the payload slot
\* cleared, whatever destination it was activated for.
PayloadCallEnds(d) ==
    /\ ReleaseSlots({d} \cap Granted, grantTimers)
    /\ payloadDst' = [payloadDst EXCEPT ![Opposite(tsccSlot)] = NoDst]
    /\ UNCHANGED <<affVars, config, rfState>>

UnitReg(s) ==
    /\ unitReg(s)
    /\ UNCHANGED <<poolVars, grantVars, config, grantChSlotTable, payloadDst, rfState>>

UnitDereg(s) ==
    /\ unitDereg(s)
    /\ UNCHANGED <<poolVars, grantVars, config, grantChSlotTable, payloadDst, rfState>>

\* Slot::clock of the TSCC slot: clock the grant timers, then leave the rejected
\* state.
Clock ==
    /\ Release(Expired, Advanced)
    /\ rfState' = "listening"
    /\ UNCHANGED <<affVars, config>>

-----------------------------------------------------------------------------

Next ==
    \/ \E s \in Radios, d \in Dsts, voice \in BOOLEAN :
        \/ RfGrantReq(s, d, d \in Talkgroups, voice)
        \/ NetGrantReq(s, d, d \in Talkgroups, voice)
    \/ \E s \in Radios, d \in Dsts : RestGrantTG(s, d, d \in Talkgroups)
    \/ \E d \in Dsts : RestTouchGrantTG(d) \/ RestReleaseGrantTG(d) \/ PayloadCallEnds(d)
    \/ \E s \in Radios : UnitReg(s) \/ UnitDereg(s)
    \/ RfRejected
    \/ Clock

Spec == Init /\ [][Next]_vars

-----------------------------------------------------------------------------
(* Properties.                                                              *)

TypeOK ==
    /\ rfChTable \in Seq(Channels)
    /\ rfGrantChCnt \in Nat
    /\ grantChTable \in [Dsts -> Channels \cup {NoCh}]
    /\ grantSrcIdTable \in [Dsts -> Radios \cup {NoSrc}]
    /\ uuGrantedTable \in [Dsts -> BOOLEAN]
    /\ netGrantedTable \in [Dsts -> BOOLEAN]
    /\ grantTimers \in [Dsts -> 0..GrantTimeout]
    /\ unitRegTable \subseteq Radios
    /\ grpAffTable = [s \in Radios |-> NoDst]
    /\ tsccSlot \in Slots
    /\ authoritative \in BOOLEAN
    /\ grantChSlotTable \in [Dsts -> (Channels \X Slots) \cup {NoSlot}]
    /\ payloadDst \in [Slots -> Dsts \cup {NoDst}]
    /\ rfState \in {"listening", "rejected"}

\* The control slot is never granted to a call, and the other slot of its channel
\* carries one grant at most, though getAvailableSlotForChannel on its own would
\* offer that slot twice: the channel is out of the pool while it is granted.
TsccKept ==
    \A d, e \in Dsts :
        /\ grantChSlotTable[d] # <<TsccCh, tsccSlot>>
        /\ grantChTable[d] = TsccCh /\ grantChTable[e] = TsccCh => d = e

\* However grants and releases of its two slots follow one another, a channel is
\* in the pool once, and it is missing only while it is the TSCC's and granted:
\* the release of one slot neither loses nor doubles the channel of the other.
PoolComplete ==
    /\ \A i, j \in DOMAIN rfChTable : rfChTable[i] = rfChTable[j] => i = j
    /\ \A ch \in Channels \ FreeChannels : ch = TsccCh /\ ch \in GrantedChannels

\* A payload slot is activated on this host only for a destination that holds it,
\* so that it does not keep sending for a call that is over.
PayloadIsGranted ==
    \A slot \in Slots : payloadDst[slot] # NoDst =>
        grantChSlotTable[payloadDst[slot]] = <<TsccCh, slot>>

\* "Helper to determine the first available slot for given the channel number":
\* no slot of a channel carries two grants.
SlotsExclusive ==
    \A d, e \in Granted : grantChSlotTable[d] = grantChSlotTable[e] => d = e

=============================================================================
