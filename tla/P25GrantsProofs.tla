--------------------------- MODULE P25GrantsProofs ---------------------------
(***************************************************************************)
(* Proofs about the P25 control channel, for every number of channels,     *)
(* talkgroups and subscribers and every setting.                           *)
(***************************************************************************)
EXTENDS P25Grants, AffiliationLookupProofs

LEMMA ConservedMeansConserved ==
    ASSUME TypeOK
    PROVE  ChannelsConserved <=> Conserved(rfChTable, grantChTable)
<1>1. \A i \in DOMAIN rfChTable : rfChTable[i] \in Channels
  BY DEF TypeOK
<1>2. \A d \in Granted : grantChTable[d] \in Channels
  BY DEF TypeOK, Granted, isGranted
<1>3. QED
  BY <1>1, <1>2 DEF ChannelsConserved, PoolDistinct, GrantsDistinct, FreeChannels,
     GrantedChannels, Granted, isGranted, Conserved, GrantedIn

-----------------------------------------------------------------------------
(* Every step of the site does one of five things to the tables.            *)

\* Timers that the releases of ds leave running exactly where they ran.
Settled(ds, timers) ==
    \A d \in Dsts \ ds : /\ timers[d] \in 0..GrantTimeout
                         /\ timers[d] > 0 <=> grantTimers[d] > 0

GrantStep(d, s, grp, net) ==
    ~isGranted(d) /\ grantCh(d, s, grp, net) /\ RecountChannels

TouchStep(d) == touchGrant(d) /\ UNCHANGED siteChCnt

RotateStep ==
    /\ isRFChAvailable
    /\ rfChTable' = Append(Tail(rfChTable), Head(rfChTable))
    /\ UNCHANGED <<rfGrantChCnt, grantVars>>
    /\ RecountChannels

ReleaseStep(ds, timers) ==
    /\ Settled(ds, timers)
    /\ ReleaseGrants(ds, timers)
    /\ RecountChannels \/ (ds = {} /\ UNCHANGED siteChCnt)

TableStep ==
    \/ \E d \in Dsts, s \in Radios, grp, net \in BOOLEAN : GrantStep(d, s, grp, net)
    \/ \E d \in Dsts : TouchStep(d)
    \/ RotateStep
    \/ \E ds \in SUBSET Granted, timers \in [Dsts -> Nat] : ReleaseStep(ds, timers)
    \/ UNCHANGED <<poolVars, grantVars>> /\ (RecountChannels \/ UNCHANGED siteChCnt)

\* What writeRF_TSDU_Grant does, for any caller.
LEMMA GrantRequestIsTableStep ==
    ASSUME TypeOK, NEW s \in Radios, NEW d \in Dsts, NEW grp \in BOOLEAN, NEW net \in BOOLEAN,
           GrantServed(s, d, grp, net) \/ GrantRefused(s, d, net)
    PROVE  TableStep /\ UNCHANGED affVars
<1>1. CASE NewGrant(s, d, grp, net)
  BY <1>1 DEF NewGrant, TableStep, GrantStep
<1>2. CASE GrantRetry(s, d, net)
  BY <1>2 DEF GrantRetry, TableStep, TouchStep
<1>3. CASE GrantQueued(d)
  BY <1>3 DEF GrantQueued, TableStep, lookupVars
<1>4. CASE GrantCollision(s, d, net)
  BY <1>4 DEF GrantCollision, TableStep, lookupVars
<1>5. CASE NewGrantNotPermitted(d)
  BY <1>5 DEF NewGrantNotPermitted, TableStep, RotateStep
<1>6. CASE GrantRetryNotPermitted(s, d, net)
  <2>1. {d} \in SUBSET Granted /\ grantTimers \in [Dsts -> Nat]
    BY <1>6 DEF GrantRetryNotPermitted, releaseGrant, Granted, TypeOK
  <2>2. Settled({d}, grantTimers)
    BY DEF Settled, TypeOK
  <2>3. ReleaseStep({d}, grantTimers)
    BY <1>6, <2>2 DEF GrantRetryNotPermitted, releaseGrant, ReleaseStep
  <2>4. QED BY <1>6, <2>1, <2>3 DEF TableStep, GrantRetryNotPermitted
<1>7. QED
  BY <1>1, <1>2, <1>3, <1>4, <1>5, <1>6 DEF GrantServed, GrantRefused

\* Any explicit release.
LEMMA ReleaseIsTableStep ==
    ASSUME TypeOK, NEW ds \in SUBSET Granted, ReleaseGrants(ds, grantTimers), RecountChannels
    PROVE  TableStep
<1>1. Settled(ds, grantTimers) /\ grantTimers \in [Dsts -> Nat]
  BY DEF Settled, TypeOK
<1>2. ReleaseStep(ds, grantTimers)
  BY <1>1 DEF ReleaseStep
<1>3. QED BY <1>1, <1>2 DEF TableStep

LEMMA ClockIsTableStep ==
    ASSUME TypeOK, Clock
    PROVE  TableStep
<1>1. Expired \in SUBSET Granted /\ Advanced \in [Dsts -> Nat]
  BY DEF Expired, Advanced, TypeOK
<1>2. Settled(Expired, Advanced)
  <2> SUFFICES ASSUME NEW d \in Dsts \ Expired
               PROVE  /\ Advanced[d] \in 0..GrantTimeout
                      /\ Advanced[d] > 0 <=> grantTimers[d] > 0
    BY DEF Settled
  <2>1. grantTimers[d] \in 0..GrantTimeout /\ GrantTimeout \in Nat
    BY LookupAssumption DEF TypeOK
  <2>2. Advanced[d] = IF isGranted(d) /\ grantTimers[d] > 0
                      THEN grantTimers[d] + 1 ELSE grantTimers[d]
    BY DEF Advanced
  <2>3. isGranted(d) => ~(Advanced[d] > GrantTimeout)
    BY DEF Expired, Granted
  <2>4. QED BY <2>1, <2>2, <2>3
<1>3. ReleaseStep(Expired, Advanced)
  BY <1>2 DEF Clock, lookupClock, ReleaseStep
<1>4. QED BY <1>1, <1>3 DEF TableStep

LEMMA NextIsTableStep ==
    ASSUME TypeOK, [Next]_vars
    PROVE  TableStep
<1> USE DEF TableStep, poolVars, grantVars, vars, lookupVars
<1>1. CASE UNCHANGED vars
  BY <1>1
<1>2. ASSUME NEW s \in Radios, NEW d \in Dsts, NEW grp \in BOOLEAN, GrantReq(s, d, grp)
      PROVE  TableStep
  <2>1. CASE RfGrantReq(s, d, grp)
    BY <2>1, GrantRequestIsTableStep DEF RfGrantReq
  <2>2. CASE RfGrantReqNotVerified(s, d, grp)
    BY <2>2 DEF RfGrantReqNotVerified
  <2>3. CASE NetGrantReq(s, d, grp)
    BY <2>3, GrantRequestIsTableStep DEF NetGrantReq
  <2>4. CASE RestGrantTG(s, d, grp)
    BY <2>4, GrantRequestIsTableStep DEF RestGrantTG
  <2>5. QED BY <1>2, <2>1, <2>2, <2>3, <2>4 DEF GrantReq
<1>3. ASSUME NEW s \in Radios, (\E d \in Talkgroups : GroupAff(s, d)) \/ UnitReg(s) \/ UnitDereg(s)
      PROVE  TableStep
  BY <1>3 DEF GroupAff, UnitReg, UnitDereg
<1>4. ASSUME NEW d \in Dsts, NetCallTerm(d) \/ RestReleaseGrantTG(d)
      PROVE  TableStep
  <2>1. {d} \in SUBSET Granted /\ ReleaseGrants({d}, grantTimers) /\ RecountChannels
    BY <1>4 DEF NetCallTerm, RestReleaseGrantTG, releaseGrant, Granted
  <2>2. QED BY <2>1, ReleaseIsTableStep
<1>5. ASSUME NEW d \in Dsts, RestTouchGrantTG(d)
      PROVE  TableStep
  BY <1>5 DEF RestTouchGrantTG, TouchStep
<1>6. CASE RestReleaseGrants
  BY <1>6 DEF RestReleaseGrants
<1>7. CASE RestReleaseAffs
  BY <1>7 DEF RestReleaseAffs
<1>8. CASE Clock
  BY <1>8, ClockIsTableStep
<1>9. ASSUME NEW s \in Radios, NEW d \in Radios, RfUnitAnswer(s, d)
      PROVE  TableStep
  BY <1>9, GrantRequestIsTableStep DEF RfUnitAnswer, Dsts
<1>10. CASE RfRejected
  BY <1>10 DEF RfRejected
<1>11. QED
  BY <1>1, <1>2, <1>3, <1>4, <1>5, <1>6, <1>7, <1>8, <1>9, <1>10 DEF Next, Dsts

-----------------------------------------------------------------------------
(* Types.                                                                   *)

LEMMA InitTypes ==
    ASSUME Init
    PROVE  TypeOK
<1>1. Cardinality(Channels) \in Nat /\ 0 \in 0..GrantTimeout
  BY LookupAssumption, FS_CardinalityType
<1>2. rfChTable \in Seq(Channels)
  BY <1>1 DEF Init, LookupInit
<1>3. QED
  BY <1>1, <1>2 DEF Init, LookupInit, TypeOK

\* The types of the variables a step on the tables writes.
TableTypes ==
    /\ rfChTable \in Seq(Channels)
    /\ rfGrantChCnt \in Nat
    /\ grantChTable \in [Dsts -> Channels \cup {NoCh}]
    /\ grantSrcIdTable \in [Dsts -> Radios \cup {NoSrc}]
    /\ uuGrantedTable \in [Dsts -> BOOLEAN]
    /\ netGrantedTable \in [Dsts -> BOOLEAN]
    /\ grantTimers \in [Dsts -> 0..GrantTimeout]
    /\ siteChCnt \in Nat

LEMMA ReleaseStepTypes ==
    ASSUME TypeOK, NEW ds \in SUBSET Granted, NEW timers \in [Dsts -> Nat],
           ReleaseStep(ds, timers)
    PROVE  TableTypes'
<1>1. PICK o \in Orders(ds) :
        /\ rfChTable' = rfChTable \o [i \in 1..Cardinality(ds) |-> grantChTable[o[i]]]
        /\ rfGrantChCnt' = IF rfGrantChCnt > Cardinality(ds)
                           THEN rfGrantChCnt - Cardinality(ds) ELSE 0
        /\ grantChTable' = [d \in Dsts |-> IF d \in ds THEN NoCh ELSE grantChTable[d]]
        /\ grantSrcIdTable' = [d \in Dsts |-> IF d \in ds THEN NoSrc ELSE grantSrcIdTable[d]]
        /\ uuGrantedTable' = [d \in Dsts |-> IF d \in ds THEN FALSE ELSE uuGrantedTable[d]]
        /\ netGrantedTable' = [d \in Dsts |-> IF d \in ds THEN FALSE ELSE netGrantedTable[d]]
        /\ grantTimers' = [d \in Dsts |-> IF d \in ds THEN 0 ELSE timers[d]]
  BY DEF ReleaseStep, ReleaseGrants
<1>2. ds \in SUBSET Dsts /\ \A d \in ds : grantChTable[d] \in Channels
  BY DEF Granted, isGranted, TypeOK
<1>3. Cardinality(ds) \in Nat /\ o \in [1..Cardinality(ds) -> ds]
  BY <1>2, OrderIsOneToOne
<1>4. [i \in 1..Cardinality(ds) |-> grantChTable[o[i]]] \in Seq(Channels)
  BY <1>2, <1>3
<1>5. rfChTable' \in Seq(Channels)
  BY <1>1, <1>4 DEF TypeOK
<1>6. rfGrantChCnt' \in Nat
  BY <1>1, <1>3 DEF TypeOK
<1>7. grantTimers' \in [Dsts -> 0..GrantTimeout]
  BY <1>1, LookupAssumption DEF ReleaseStep, Settled
<1>8. siteChCnt' \in Nat
  BY <1>5, <1>6 DEF ReleaseStep, RecountChannels, TypeOK
<1>9. QED
  BY <1>1, <1>5, <1>6, <1>7, <1>8 DEF TypeOK, TableTypes

LEMMA TableStepTypes ==
    ASSUME TypeOK, TableStep
    PROVE  TableTypes'
<1>0. /\ GrantTimeout \in Nat \ {0}
      /\ rfChTable # << >> => /\ Head(rfChTable) \in Channels
                             /\ Tail(rfChTable) \in Seq(Channels)
                             /\ Append(Tail(rfChTable), Head(rfChTable)) \in Seq(Channels)
  BY LookupAssumption DEF TypeOK
<1>1. ASSUME NEW d \in Dsts, NEW s \in Radios, NEW grp \in BOOLEAN, NEW net \in BOOLEAN,
             GrantStep(d, s, grp, net)
      PROVE  TableTypes'
  <2>1. rfChTable' \in Seq(Channels) /\ rfGrantChCnt' \in Nat
    BY <1>0, <1>1 DEF TypeOK, GrantStep, grantCh, isRFChAvailable
  <2>2. siteChCnt' \in Nat
    BY <2>1, <1>1 DEF GrantStep, RecountChannels
  <2>3. QED
    BY <1>0, <1>1, <2>1, <2>2 DEF TypeOK, TableTypes, GrantStep, grantCh, isRFChAvailable
<1>2. ASSUME NEW d \in Dsts, TouchStep(d)
      PROVE  TableTypes'
  BY <1>0, <1>2 DEF TypeOK, TableTypes, TouchStep, touchGrant, poolVars
<1>3. CASE RotateStep
  <2>1. rfChTable' \in Seq(Channels) /\ rfGrantChCnt' \in Nat
    BY <1>0, <1>3 DEF TypeOK, RotateStep, isRFChAvailable
  <2>2. siteChCnt' \in Nat
    BY <2>1, <1>3 DEF RotateStep, RecountChannels
  <2>3. QED BY <1>3, <2>1, <2>2 DEF TypeOK, TableTypes, RotateStep, grantVars
<1>4. CASE UNCHANGED <<poolVars, grantVars>> /\ (RecountChannels \/ UNCHANGED siteChCnt)
  BY <1>4 DEF TypeOK, TableTypes, RecountChannels, poolVars, grantVars
<1>5. QED
  BY <1>1, <1>2, <1>3, <1>4, ReleaseStepTypes DEF TableStep

\* What a step of the site does to the registrations.
LEMMA AffSteps ==
    ASSUME TypeOK, [Next]_vars
    PROVE  \/ UNCHANGED affVars
           \/ \E s \in Radios, d \in Talkgroups : GroupAff(s, d)
           \/ \E s \in Radios : UnitReg(s)
           \/ \E ss \in SUBSET Radios : UnitDeregs(ss)
<1>1. CASE UNCHANGED vars
  BY <1>1 DEF vars, lookupVars
<1>2. ASSUME NEW s \in Radios, NEW d \in Dsts, NEW grp \in BOOLEAN, GrantReq(s, d, grp)
      PROVE  UNCHANGED affVars
  <2>1. \A net \in BOOLEAN : GrantServed(s, d, grp, net) \/ GrantRefused(s, d, net)
                             => UNCHANGED affVars
    BY GrantRequestIsTableStep
  <2>2. QED
    BY <1>2, <2>1 DEF GrantReq, RfGrantReq, RfGrantReqNotVerified, NetGrantReq, RestGrantTG,
       lookupVars
<1>3. ASSUME NEW s \in Radios, UnitDereg(s)
      PROVE  UnitDeregs({s}) /\ {s} \in SUBSET Radios
  BY <1>3 DEF UnitDereg, unitDereg
<1>4. ASSUME NEW d \in Dsts, NetCallTerm(d) \/ RestTouchGrantTG(d) \/ RestReleaseGrantTG(d)
      PROVE  UNCHANGED affVars
  BY <1>4 DEF NetCallTerm, RestTouchGrantTG, RestReleaseGrantTG
<1>5. CASE RestReleaseGrants
  BY <1>5 DEF RestReleaseGrants, lookupVars
<1>6. CASE RestReleaseAffs
  BY <1>6 DEF RestReleaseAffs, Affiliated
<1>7. CASE Clock
  BY <1>7 DEF Clock
<1>8. ASSUME NEW s \in Radios, NEW d \in Radios, RfUnitAnswer(s, d)
      PROVE  UNCHANGED affVars
  BY <1>8, GrantRequestIsTableStep DEF RfUnitAnswer, Dsts
<1>9. CASE RfRejected
  BY <1>9 DEF RfRejected, lookupVars
<1>10. QED
  BY <1>1, <1>2, <1>3, <1>4, <1>5, <1>6, <1>7, <1>8, <1>9 DEF Next, Dsts

LEMMA AffStepTypes ==
    ASSUME TypeOK, [Next]_vars
    PROVE  /\ unitRegTable' \subseteq Radios
           /\ grpAffTable' \in [Radios -> Talkgroups \cup {NoDst}]
<1> USE DEF affVars
<1> DEFINE Goal == /\ unitRegTable' \subseteq Radios
                   /\ grpAffTable' \in [Radios -> Talkgroups \cup {NoDst}]
<1>1. UNCHANGED affVars => Goal
  BY DEF TypeOK
<1>2. ASSUME NEW s \in Radios, NEW d \in Talkgroups, GroupAff(s, d)
      PROVE  Goal
  BY <1>2 DEF GroupAff, groupAff, TypeOK
<1>3. ASSUME NEW s \in Radios, UnitReg(s)
      PROVE  Goal
  BY <1>3 DEF UnitReg, unitReg, TypeOK
<1>4. ASSUME NEW ss \in SUBSET Radios, UnitDeregs(ss)
      PROVE  Goal
  BY <1>4 DEF UnitDeregs, TypeOK
<1>5. QED
  BY <1>1, <1>2, <1>3, <1>4, AffSteps

LEMMA StateStepTypes ==
    ASSUME TypeOK, [Next]_vars
    PROVE  authoritative' \in BOOLEAN /\ rfState' \in {"listening", "rejected"}
<1>1. UNCHANGED authoritative
  BY DEF TypeOK, Next, vars, GrantReq, RfGrantReq, RfGrantReqNotVerified, NetGrantReq, RestGrantTG,
     RfUnitAnswer, RfRejected, GroupAff, UnitReg, UnitDereg, NetCallTerm, RestTouchGrantTG,
     RestReleaseGrantTG, RestReleaseGrants, RestReleaseAffs, Clock
<1>2. rfState' \in {"listening", "rejected"}
  BY DEF TypeOK, Next, vars, GrantReq, RfGrantReq, RfGrantReqNotVerified, NetGrantReq, RestGrantTG,
     RfUnitAnswer, RfRejected, GroupAff, UnitReg, UnitDereg, NetCallTerm, RestTouchGrantTG,
     RestReleaseGrantTG, RestReleaseGrants, RestReleaseAffs, Clock
<1>3. QED BY <1>1, <1>2 DEF TypeOK

\* Every reachable state has its variables' types.
THEOREM TypeCorrect == Spec => []TypeOK
<1>1. Init => TypeOK
  BY InitTypes
<1>2. TypeOK /\ [Next]_vars => TypeOK'
  <2> SUFFICES ASSUME TypeOK, [Next]_vars PROVE TypeOK'
    OBVIOUS
  <2>1. TableTypes'
    BY NextIsTableStep, TableStepTypes
  <2>2. unitRegTable' \subseteq Radios /\ grpAffTable' \in [Radios -> Talkgroups \cup {NoDst}]
    BY AffStepTypes
  <2>3. authoritative' \in BOOLEAN /\ rfState' \in {"listening", "rejected"}
    BY StateStepTypes
  <2>4. QED BY <2>1, <2>2, <2>3 DEF TypeOK, TableTypes
<1>3. QED
  BY <1>1, <1>2, PTL DEF Spec

-----------------------------------------------------------------------------
(* The inductive invariant: the pool and the grant table share the channels *)
(* out between them, the tables agree and the counts follow.                *)

Shared == Conserved(rfChTable, grantChTable)

IInv == TypeOK /\ Shared /\ TablesInStep /\ CountsExact

LEMMA InitShared ==
    ASSUME Init
    PROVE  Shared /\ TablesInStep /\ CountsExact
<1> DEFINE n == Cardinality(Channels)
<1>1. n \in Nat /\ IsFiniteSet(Channels)
  BY LookupAssumption, FS_CardinalityType
<1> HIDE DEF n
<1>2. /\ rfChTable \in [1..n -> Channels]
      /\ \A ch \in Channels : \E i \in 1..n : rfChTable[i] = ch
      /\ DOMAIN rfChTable = 1..n
  BY DEF Init, LookupInit, n
<1>3. \A i, j \in 1..n : rfChTable[i] = rfChTable[j] => i = j
  <2>1. IsFiniteSet(1..n) /\ Cardinality(1..n) = n
    BY <1>1, FS_Interval
  <2>2. rfChTable \in Surjection(1..n, Channels)
    BY <1>2 DEF Surjection
  <2>3. rfChTable \in Injection(1..n, Channels)
    BY <2>1, <2>2, FS_SurjSameCardinalityImpliesInj DEF n
  <2>4. QED BY <2>3 DEF Injection, IsInjective
<1>4. GrantedIn(grantChTable) = {} /\ Granted = {}
  BY DEF Init, LookupInit, GrantedIn, Granted, isGranted
<1>5. Shared
  BY <1>2, <1>3, <1>4 DEF Shared, Conserved
<1>6. TablesInStep
  BY DEF Init, LookupInit, TablesInStep, isGranted
<1>7. CountsExact
  BY <1>1, <1>4, FS_EmptySet DEF Init, LookupInit, CountsExact
<1>8. QED BY <1>5, <1>6, <1>7

\* The counts follow from the shape of the step and the conservation of channels
\* after it.
LEMMA CountsFollow ==
    ASSUME TypeOK, TypeOK', Shared, Shared', CountsExact, NEW k \in Int,
           Len(rfChTable') = Len(rfChTable) + k,
           rfGrantChCnt' = IF rfGrantChCnt > k THEN rfGrantChCnt - k ELSE 0,
           RecountChannels \/ UNCHANGED siteChCnt
    PROVE  CountsExact'
<1>1. /\ rfChTable \in Pools /\ grantChTable \in Tables
      /\ rfChTable' \in Pools /\ grantChTable' \in Tables
  BY DEF TypeOK, Pools, Tables
<1>2. /\ Granted = GrantedIn(grantChTable)
      /\ Granted' = GrantedIn(grantChTable')
  BY DEF Granted, isGranted, GrantedIn
<1>3. /\ Len(rfChTable) \in Nat /\ Cardinality(Granted) \in Nat
      /\ Len(rfChTable) + Cardinality(Granted) = Cardinality(Channels)
  BY <1>1, <1>2, ConservedCount DEF Shared
<1>4. /\ Len(rfChTable') \in Nat /\ Cardinality(Granted') \in Nat
      /\ Len(rfChTable') + Cardinality(Granted') = Cardinality(Channels)
  BY <1>1, <1>2, ConservedCount DEF Shared
<1>5. rfGrantChCnt' = Cardinality(Granted')
  BY <1>3, <1>4 DEF CountsExact
<1>6. siteChCnt' = Cardinality(Channels)
  BY <1>4, <1>5 DEF CountsExact, RecountChannels
<1>7. QED BY <1>5, <1>6 DEF CountsExact

LEMMA TableStepKeepsShared ==
    ASSUME IInv, TypeOK', TableStep
    PROVE  Shared' /\ TablesInStep' /\ CountsExact'
<1> DEFINE Goal == Shared' /\ TablesInStep' /\ CountsExact'
<1>0. rfChTable \in Pools /\ grantChTable \in Tables /\ Len(rfChTable) \in Nat
  BY DEF IInv, TypeOK, Pools, Tables
<1>1. ASSUME NEW d \in Dsts, NEW s \in Radios, NEW grp \in BOOLEAN, NEW net \in BOOLEAN,
             GrantStep(d, s, grp, net)
      PROVE  Goal
  <2>1. /\ rfChTable # << >> /\ grantChTable[d] = NoCh
        /\ rfChTable' = Tail(rfChTable)
        /\ rfGrantChCnt' = rfGrantChCnt + 1
        /\ grantChTable' = [grantChTable EXCEPT ![d] = Head(rfChTable)]
    BY <1>1 DEF GrantStep, grantCh, isGranted, isRFChAvailable
  <2>2. Shared'
    BY <1>0, <2>1, GrantConserves DEF IInv, Shared
  <2>3. TablesInStep'
    <3>1. Head(rfChTable) \in Channels
      BY <2>1 DEF IInv, TypeOK
    <3>2. QED
      BY <1>1, <2>1, <3>1, LookupAssumption
      DEF IInv, TypeOK, TablesInStep, GrantStep, grantCh, isGranted
  <2>4. Len(rfChTable') = Len(rfChTable) - 1
    BY <2>1 DEF IInv, TypeOK
  <2>5. rfGrantChCnt' = IF rfGrantChCnt > -1 THEN rfGrantChCnt - (-1) ELSE 0
    BY <2>1 DEF IInv, TypeOK
  <2>6. CountsExact'
    BY <1>0, <1>1, <2>2, <2>4, <2>5, CountsFollow DEF IInv, GrantStep
  <2>7. QED BY <2>2, <2>3, <2>6
<1>2. ASSUME NEW d \in Dsts, TouchStep(d)
      PROVE  Goal
  <2>1. UNCHANGED <<rfChTable, rfGrantChCnt, grantChTable, siteChCnt>>
    BY <1>2 DEF TouchStep, touchGrant, poolVars
  <2>2. Shared' /\ CountsExact'
    BY <2>1 DEF IInv, Shared, CountsExact, Granted, isGranted
  <2>3. TablesInStep'
    BY <1>2 DEF IInv, TypeOK, TouchStep, touchGrant, TablesInStep, isGranted
  <2>4. QED BY <2>2, <2>3
<1>3. CASE RotateStep
  <2>1. /\ rfChTable # << >>
        /\ rfChTable' = Append(Tail(rfChTable), Head(rfChTable))
        /\ UNCHANGED <<rfGrantChCnt, grantChTable, grantSrcIdTable, uuGrantedTable,
                       netGrantedTable, grantTimers>>
        /\ RecountChannels
    BY <1>3 DEF RotateStep, isRFChAvailable, grantVars
  <2>2. Shared'
    BY <1>0, <2>1, RotateConserves DEF IInv, Shared
  <2>3. TablesInStep'
    BY <2>1 DEF IInv, TablesInStep, isGranted
  <2>4. PICK k \in Int : k = 0
    OBVIOUS
  <2>5. Len(rfChTable') = Len(rfChTable) + k
    BY <2>1, <2>4 DEF IInv, TypeOK
  <2>6. rfGrantChCnt' = IF rfGrantChCnt > k THEN rfGrantChCnt - k ELSE 0
    BY <2>1, <2>4 DEF IInv, TypeOK
  <2>7. CountsExact'
    BY <2>1, <2>2, <2>5, <2>6, CountsFollow DEF IInv
  <2>8. QED BY <2>2, <2>3, <2>7
<1>4. ASSUME NEW ds \in SUBSET Granted, NEW timers \in [Dsts -> Nat], ReleaseStep(ds, timers)
      PROVE  Goal
  <2>1. PICK o \in Orders(ds) :
          rfChTable' = rfChTable \o [i \in 1..Cardinality(ds) |-> grantChTable[o[i]]]
    BY <1>4 DEF ReleaseStep, ReleaseGrants
  <2>2. /\ rfGrantChCnt' = IF rfGrantChCnt > Cardinality(ds)
                           THEN rfGrantChCnt - Cardinality(ds) ELSE 0
        /\ grantChTable' = Erased(grantChTable, ds, NoCh)
        /\ grantSrcIdTable' = Erased(grantSrcIdTable, ds, NoSrc)
        /\ uuGrantedTable' = Erased(uuGrantedTable, ds, FALSE)
        /\ netGrantedTable' = Erased(netGrantedTable, ds, FALSE)
        /\ grantTimers' = Erased(timers, ds, 0)
    BY <1>4 DEF ReleaseStep, ReleaseGrants, Erased
  <2>3. /\ ds \in SUBSET GrantedIn(grantChTable) /\ ds \in SUBSET Dsts
        /\ Cardinality(ds) \in Nat
        /\ o \in [1..Cardinality(ds) -> ds]
    BY OrderIsOneToOne DEF Granted, GrantedIn, isGranted
  <2>4. Shared'
    BY <1>0, <2>1, <2>2, <2>3, ReleaseConserves DEF IInv, Shared
  <2>5. TablesInStep'
    BY <1>4, <2>2 DEF IInv, TypeOK, TablesInStep, isGranted, Erased, ReleaseStep, Settled
  <2>6. Len(rfChTable') = Len(rfChTable) + Cardinality(ds)
    <3>0. \A S : \A a, b \in Seq(S) : Len(a \o b) = Len(a) + Len(b)
      OBVIOUS
    <3> DEFINE q == [i \in 1..Cardinality(ds) |-> grantChTable[o[i]]]
    <3>1. \A d \in ds : grantChTable[d] \in Channels
      BY <1>0, <2>3 DEF Tables, GrantedIn
    <3>2. q \in Seq(Channels) /\ Len(q) = Cardinality(ds)
      BY <2>3, <3>1
    <3>3. rfChTable \in Seq(Channels) /\ rfChTable' = rfChTable \o q
      BY <1>0, <2>1 DEF Pools
    <3> HIDE DEF q
    <3>4. Len(rfChTable \o q) = Len(rfChTable) + Len(q)
      BY <3>0, <3>2, <3>3, Zenon
    <3>5. QED BY <3>2, <3>3, <3>4
  <2>7. CountsExact'
    BY <1>4, <2>2, <2>3, <2>4, <2>6, CountsFollow DEF IInv, ReleaseStep
  <2>8. QED BY <2>4, <2>5, <2>7
<1>5. CASE UNCHANGED <<poolVars, grantVars>> /\ (RecountChannels \/ UNCHANGED siteChCnt)
  <2>1. UNCHANGED <<rfChTable, rfGrantChCnt, grantChTable, grantSrcIdTable, uuGrantedTable,
                    netGrantedTable, grantTimers>>
    BY <1>5 DEF poolVars, grantVars
  <2>2. Shared' /\ TablesInStep'
    BY <2>1 DEF IInv, Shared, TablesInStep, isGranted
  <2>3. PICK k \in Int : k = 0
    OBVIOUS
  <2>4. Len(rfChTable') = Len(rfChTable) + k
    BY <1>0, <2>1, <2>3
  <2>5. rfGrantChCnt' = IF rfGrantChCnt > k THEN rfGrantChCnt - k ELSE 0
    BY <2>1, <2>3 DEF IInv, TypeOK
  <2>6. CountsExact'
    BY <1>5, <2>2, <2>4, <2>5, CountsFollow DEF IInv
  <2>7. QED BY <2>2, <2>6
<1>6. QED
  BY <1>1, <1>2, <1>3, <1>4, <1>5 DEF TableStep

THEOREM Invariant == Spec => []IInv
<1>1. Init => IInv
  BY InitTypes, InitShared DEF IInv
<1>2. IInv /\ TypeOK' /\ [Next]_vars => IInv'
  BY NextIsTableStep, TableStepKeepsShared DEF IInv
<1>3. QED
  BY <1>1, <1>2, TypeCorrect, PTL DEF Spec

\* Each configured channel is either free, once, or granted to one destination.
THEOREM ChannelsAreConserved == Spec => []ChannelsConserved
<1>1. IInv => ChannelsConserved
  BY ConservedMeansConserved DEF IInv, Shared
<1>2. QED
  BY <1>1, Invariant, PTL

\* The parallel grant tables agree.
THEOREM TablesAreInStep == Spec => []TablesInStep
<1>1. IInv => TablesInStep
  BY DEF IInv
<1>2. QED
  BY <1>1, Invariant, PTL

\* The count kept by hand is exact and the count broadcast never drifts.
THEOREM CountsAreExact == Spec => []CountsExact
<1>1. IInv => CountsExact
  BY DEF IInv
<1>2. QED
  BY <1>1, Invariant, PTL

-----------------------------------------------------------------------------
(* Registrations, and what a step may not do to a grant.                    *)

\* With verifyReg, no affiliation outlives or precedes a registration.
THEOREM OnlyRegisteredAffiliate == Spec => []AffiliatedAreRegistered
<1>1. Init => AffiliatedAreRegistered
  BY DEF Init, LookupInit, AffiliatedAreRegistered, Affiliated
<1>2. TypeOK /\ AffiliatedAreRegistered /\ [Next]_vars => AffiliatedAreRegistered'
  <2> SUFFICES ASSUME TypeOK, AffiliatedAreRegistered, [Next]_vars
               PROVE  AffiliatedAreRegistered'
    OBVIOUS
  <2> USE DEF AffiliatedAreRegistered, Affiliated, TypeOK
  <2>1. CASE UNCHANGED affVars
    BY <2>1 DEF affVars
  <2>2. ASSUME NEW s \in Radios, NEW d \in Talkgroups, GroupAff(s, d)
        PROVE  AffiliatedAreRegistered'
    BY <2>2 DEF GroupAff, groupAff, isUnitReg
  <2>3. ASSUME NEW s \in Radios, UnitReg(s)
        PROVE  AffiliatedAreRegistered'
    BY <2>3 DEF UnitReg, unitReg
  <2>4. ASSUME NEW ss \in SUBSET Radios, UnitDeregs(ss)
        PROVE  AffiliatedAreRegistered'
    BY <2>4 DEF UnitDeregs, isUnitReg
  <2>5. QED
    BY <2>1, <2>2, <2>3, <2>4, AffSteps
<1>3. QED
  BY <1>1, <1>2, TypeCorrect, PTL DEF Spec

GrantKept ==
    \A d \in Dsts : isGranted(d) /\ isGranted(d)' =>
        /\ grantChTable'[d] = grantChTable[d]
        /\ grantSrcIdTable'[d] = grantSrcIdTable[d]
        /\ uuGrantedTable'[d] = uuGrantedTable[d]
        /\ netGrantedTable'[d] = netGrantedTable[d]

LEMMA TableStepKeepsGrants ==
    ASSUME TypeOK, TableStep
    PROVE  GrantKept
<1> USE DEF GrantKept, isGranted, TypeOK
<1>1. ASSUME NEW d \in Dsts, NEW s \in Radios, NEW grp \in BOOLEAN, NEW net \in BOOLEAN,
             GrantStep(d, s, grp, net)
      PROVE  GrantKept
  BY <1>1 DEF GrantStep, grantCh
<1>2. ASSUME NEW d \in Dsts, TouchStep(d)
      PROVE  GrantKept
  BY <1>2 DEF TouchStep, touchGrant
<1>3. CASE RotateStep
  BY <1>3 DEF RotateStep, grantVars
<1>4. ASSUME NEW ds \in SUBSET Granted, NEW timers \in [Dsts -> Nat], ReleaseStep(ds, timers)
      PROVE  GrantKept
  <2>1. /\ grantChTable' = Erased(grantChTable, ds, NoCh)
        /\ grantSrcIdTable' = Erased(grantSrcIdTable, ds, NoSrc)
        /\ uuGrantedTable' = Erased(uuGrantedTable, ds, FALSE)
        /\ netGrantedTable' = Erased(netGrantedTable, ds, FALSE)
    BY <1>4 DEF ReleaseStep, ReleaseGrants, Erased
  <2>2. QED BY <2>1 DEF Erased
<1>5. CASE UNCHANGED <<poolVars, grantVars>> /\ (RecountChannels \/ UNCHANGED siteChCnt)
  BY <1>5 DEF grantVars
<1>6. QED
  BY <1>1, <1>2, <1>3, <1>4, <1>5 DEF TableStep

\* A grant is only ever changed by releasing it first.
THEOREM GrantsAreStable == Spec => GrantsStable
<1>1. TypeOK /\ [Next]_vars => [GrantKept]_vars
  BY NextIsTableStep, TableStepKeepsGrants
<1>2. QED
  BY <1>1, TypeCorrect, PTL DEF Spec, GrantsStable, GrantKept

-----------------------------------------------------------------------------
(* Refinement: the control channel implements the plain pool of channels.   *)

LEMMA InitIsPoolInit ==
    ASSUME Init, Shared, TypeOK
    PROVE  Pool!Init
<1>1. grantChTable = [d \in Dsts |-> NoCh]
  BY DEF Init, LookupInit
<1>2. FreeChannels = Channels
  <2>1. FreeChannels = Channels \ HeldIn(grantChTable)
    BY FreeAreTheRest DEF TypeOK, Shared, FreeChannels, Pools, Tables
  <2>2. HeldIn(grantChTable) = {}
    BY <1>1 DEF HeldIn, GrantedIn
  <2>3. QED BY <2>1, <2>2
<1>3. QED
  BY <1>1, <1>2 DEF Pool!Init

LEMMA TableStepIsPoolStep ==
    ASSUME TypeOK, TypeOK', Shared, Shared', TableStep
    PROVE  [Pool!Next]_(Pool!poolStateVars)
<1> DEFINE Goal == Pool!Next \/ UNCHANGED <<FreeChannels, grantChTable>>
<1>0. /\ FreeChannels = Channels \ HeldIn(grantChTable)
      /\ FreeChannels' = Channels \ HeldIn(grantChTable')
  <2>1. FreeChannels = Channels \ HeldIn(grantChTable)
    BY FreeAreTheRest DEF TypeOK, Shared, FreeChannels, Pools, Tables
  <2>2. /\ rfChTable' \in Pools
        /\ grantChTable' \in Tables
        /\ Conserved(rfChTable', grantChTable')
    BY DEF TypeOK, Shared, Pools, Tables
  <2>3. FreeChannels' = Channels \ HeldIn(grantChTable')
    BY <2>2, FreeAreTheRest DEF FreeChannels
  <2>4. QED BY <2>1, <2>3
<1>1. ASSUME NEW d \in Dsts, NEW s \in Radios, NEW grp \in BOOLEAN, NEW net \in BOOLEAN,
             GrantStep(d, s, grp, net)
      PROVE  Goal
  <2> DEFINE ch == Head(rfChTable)
  <2>1. /\ rfChTable # << >> /\ grantChTable[d] = NoCh
        /\ grantChTable' = [grantChTable EXCEPT ![d] = ch]
    BY <1>1 DEF GrantStep, grantCh, isGranted, isRFChAvailable
  <2>2. ch \in Channels /\ ch \in FreeChannels
    BY <2>1 DEF TypeOK, FreeChannels
  <2>3. HeldIn(grantChTable') = HeldIn(grantChTable) \cup {ch}
    BY <2>1, <2>2, HeldAfterGrant DEF TypeOK, Tables
  <2>4. FreeChannels' = FreeChannels \ {ch}
    BY <1>0, <2>3
  <2>5. Pool!Take(d)
    BY <2>1, <2>2, <2>4 DEF Pool!Take
  <2>6. QED BY <2>5 DEF Pool!Next
<1>2. ASSUME grantChTable' = grantChTable
      PROVE  Goal
  <2>1. FreeChannels' = FreeChannels
    BY <1>0, <1>2
  <2>2. QED BY <1>2, <2>1
<1>3. /\ \A d \in Dsts : TouchStep(d) => grantChTable' = grantChTable
      /\ RotateStep => grantChTable' = grantChTable
      /\ UNCHANGED <<poolVars, grantVars>> => grantChTable' = grantChTable
  BY DEF TouchStep, touchGrant, RotateStep, grantVars
<1>4. ASSUME NEW ds \in SUBSET Granted, NEW timers \in [Dsts -> Nat], ReleaseStep(ds, timers)
      PROVE  Goal
  <2>1. grantChTable' = [d \in Dsts |-> IF d \in ds THEN NoCh ELSE grantChTable[d]]
    BY <1>4 DEF ReleaseStep, ReleaseGrants
  <2>2. ds \in SUBSET GrantedIn(grantChTable) /\ ds \in SUBSET Pool!Holders
    BY DEF Granted, GrantedIn, isGranted, Pool!Holders
  <2>3. HeldIn(grantChTable') = HeldIn(grantChTable) \ {grantChTable[d] : d \in ds}
    BY <2>1, <2>2, HeldAfterRelease DEF TypeOK, Shared, Pools, Tables, Erased
  <2>4. \A d \in ds : grantChTable[d] \in Channels
    BY <2>2 DEF TypeOK, GrantedIn
  <2>5. ds \subseteq GrantedIn(grantChTable)
    BY <2>2
  <2>6. FreeChannels' = FreeChannels \cup {grantChTable[d] : d \in ds}
    BY <1>0, <2>3, <2>4, <2>5 DEF HeldIn
  <2>7. Pool!GiveBack(ds)
    BY <2>1, <2>6 DEF Pool!GiveBack
  <2>8. QED BY <2>2, <2>7 DEF Pool!Next
<1>5. Goal
  <2> HIDE DEF Goal
  <2> QED BY <1>1, <1>2, <1>3, <1>4 DEF TableStep
<1>6. QED
  BY <1>5 DEF Pool!poolStateVars

\* Every behaviour of the control channel, seen through its pool and its grant
\* table, is a behaviour of the plain pool of channels.
THEOREM PoolIsImplemented == Spec => ImplementsPool
<1>1. Init => Pool!Init
  BY InitTypes, InitShared, InitIsPoolInit
<1>2. IInv /\ IInv' /\ [Next]_vars => [Pool!Next]_(Pool!poolStateVars)
  BY NextIsTableStep, TableStepIsPoolStep DEF IInv
<1>3. QED
  BY <1>1, <1>2, Invariant, PTL DEF Spec, ImplementsPool, Pool!Spec

=============================================================================
