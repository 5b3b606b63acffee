--------------------------- MODULE DMRGrantsProofs ---------------------------
(***************************************************************************)
(* Proofs about the DMR control slot, for every number of channels,        *)
(* talkgroups and subscribers and every setting.                           *)
(*                                                                         *)
(* Nothing here depends on which slot getAvailableSlotForChannel finds: it *)
(* is enough that grantChSlot refuses the slot of the TSCC.                *)
(***************************************************************************)
EXTENDS DMRGrants, AffiliationLookupProofs

-----------------------------------------------------------------------------
(* The invariant.                                                           *)

InPool(pool, ch) == \E i \in DOMAIN pool : pool[i] = ch

\* Every channel but the TSCC's is in the pool, once; the TSCC's is in the pool or
\* granted, to one destination.
PoolKept(pool, tbl) ==
    /\ \A i, j \in DOMAIN pool : pool[i] = pool[j] => i = j
    /\ \A ch \in Channels \ {TsccCh} : InPool(pool, ch)
    /\ InPool(pool, TsccCh) => \A d \in Dsts : tbl[d] # TsccCh
    /\ TsccCh \in Channels => InPool(pool, TsccCh) \/ \E d \in Dsts : tbl[d] = TsccCh
    /\ \A d, e \in Dsts : tbl[d] = TsccCh /\ tbl[e] = TsccCh => d = e

\* The two tables name the same channel, and no entry names the control slot.
SlotsAgree ==
    \A d \in Dsts : /\ grantChSlotTable[d][1] = grantChTable[d]
                    /\ grantChSlotTable[d] # <<TsccCh, tsccSlot>>

\* The code's count of grants is that of the table.
CountExact == rfGrantChCnt = Cardinality(Granted)

TablesInv ==
    /\ tsccSlot \in Slots
    /\ rfChTable \in Pools
    /\ rfGrantChCnt \in Nat
    /\ grantChTable \in Tables
    /\ grantSrcIdTable \in [Dsts -> Radios \cup {NoSrc}]
    /\ uuGrantedTable \in [Dsts -> BOOLEAN]
    /\ netGrantedTable \in [Dsts -> BOOLEAN]
    /\ grantTimers \in [Dsts -> 0..GrantTimeout]
    /\ grantChSlotTable \in [Dsts -> (Channels \X Slots) \cup {NoSlot}]
    /\ PoolKept(rfChTable, grantChTable)
    /\ SlotsAgree
    /\ CountExact

\* An active payload slot of this host belongs to a grant.
PayloadInv ==
    /\ payloadDst \in [Slots -> Dsts \cup {NoDst}]
    /\ PayloadIsGranted

SiteInv ==
    /\ unitRegTable \subseteq Radios
    /\ grpAffTable = [s \in Radios |-> NoDst]
    /\ authoritative \in BOOLEAN
    /\ rfState \in {"listening", "rejected"}

IInv == TablesInv /\ PayloadInv /\ SiteInv

\* A destination that stays granted keeps its channel, its slot and its source.
GrantKept ==
    \A d \in Dsts : isGranted(d) /\ isGranted(d)' =>
        /\ grantChSlotTable'[d] = grantChSlotTable[d]
        /\ grantSrcIdTable'[d] = grantSrcIdTable[d]

-----------------------------------------------------------------------------
(* The pool.                                                                *)

LEMMA InitialPool ==
    ASSUME NEW pool \in [1..Cardinality(Channels) -> Channels],
           \A ch \in Channels : InPool(pool, ch)
    PROVE  /\ pool \in Pools
           /\ PoolKept(pool, [d \in Dsts |-> NoCh])
<1> DEFINE n == Cardinality(Channels)
<1>1. IsFiniteSet(Channels) /\ n \in Nat
  BY LookupAssumption, FS_CardinalityType
<1> HIDE DEF n
<1>2. pool \in [1..n -> Channels]
  BY DEF n
<1>3. IsFiniteSet(1..n) /\ Cardinality(1..n) = n
  BY <1>1, FS_Interval
<1>4. pool \in Surjection(1..n, Channels)
  BY <1>2 DEF Surjection, InPool
<1>5. pool \in Injection(1..n, Channels)
  BY <1>1, <1>3, <1>4, FS_SurjSameCardinalityImpliesInj DEF n
<1>6. \A i, j \in DOMAIN pool : pool[i] = pool[j] => i = j
  BY <1>2, <1>5 DEF Injection, IsInjective
<1>7. pool \in Pools
  BY <1>1, <1>2 DEF Pools
<1>8. QED
  BY <1>6, <1>7, DMRAssumption DEF PoolKept

\* A grant of a channel that stays in the pool.
LEMMA GrantKeepsPool ==
    ASSUME NEW pool \in Pools, NEW tbl \in Tables, PoolKept(pool, tbl),
           pool # << >>, NEW d \in Dsts, tbl[d] = NoCh
    PROVE  LET p == IF LeavesPool(Head(pool)) THEN Tail(pool) ELSE pool
               t == [tbl EXCEPT ![d] = Head(pool)]
           IN  p \in Pools /\ t \in Tables /\ PoolKept(p, t)
<1> DEFINE t == [tbl EXCEPT ![d] = Head(pool)]
           q == Tail(pool)
<1>1. /\ Head(pool) \in Channels
      /\ Head(pool) = pool[1]
      /\ q \in Pools
      /\ Len(pool) \in Nat \ {0}
      /\ DOMAIN pool = 1..Len(pool)
      /\ DOMAIN q = 1..(Len(pool) - 1)
      /\ \A i \in DOMAIN q : q[i] = pool[i + 1]
  BY DEF Pools
<1>2. t \in Tables /\ t[d] = pool[1] /\ \A e \in Dsts \ {d} : t[e] = tbl[e]
  BY <1>1 DEF Tables
<1>3. tbl[d] # TsccCh
  BY DMRAssumption
<1> HIDE DEF t, q
<1>4. CASE pool[1] # TsccCh
  <2>1. \A e \in Dsts : t[e] = TsccCh <=> tbl[e] = TsccCh
    BY <1>2, <1>3, <1>4
  <2>2. PoolKept(pool, t)
    BY <2>1 DEF PoolKept
  <2>3. QED BY <1>1, <1>2, <1>4, <2>2 DEF LeavesPool, t, q
<1>5. CASE pool[1] = TsccCh
  <2>1. \A e \in Dsts : tbl[e] # TsccCh
    BY <1>1, <1>5 DEF PoolKept, InPool
  <2>2. \A i, j \in DOMAIN q : q[i] = q[j] => i = j
    BY <1>1 DEF PoolKept
  <2>3. ~InPool(q, TsccCh)
    BY <1>1, <1>5 DEF PoolKept, InPool
  <2>4. ASSUME NEW ch \in Channels \ {TsccCh} PROVE InPool(q, ch)
    <3>1. PICK i \in DOMAIN pool : pool[i] = ch
      BY DEF PoolKept, InPool
    <3>2. i - 1 \in DOMAIN q /\ q[i - 1] = pool[i]
      BY <3>1, <1>1, <1>5
    <3>3. QED BY <3>1, <3>2 DEF InPool
  <2>5. PoolKept(q, t)
    BY <1>2, <1>5, <2>1, <2>2, <2>3, <2>4 DEF PoolKept
  <2>6. QED BY <1>1, <1>2, <1>5, <2>5 DEF LeavesPool, t, q
<1>6. QED BY <1>4, <1>5

LEMMA OneMore ==
    ASSUME NEW S, NEW s \in Seq(S), NEW x \in Seq(S), Len(x) = 1
    PROVE  /\ s \o x \in Seq(S)
           /\ Len(s) \in Nat
           /\ DOMAIN s = 1..Len(s)
           /\ DOMAIN (s \o x) = 1..(Len(s) + 1)
           /\ \A i \in 1..Len(s) : (s \o x)[i] = s[i]
           /\ (s \o x)[Len(s) + 1] = x[1]
<1>1. /\ s \o x \in Seq(S)
      /\ Len(s) \in Nat
      /\ Len(s \o x) = Len(s) + 1
      /\ \A i \in 1..(Len(s) + 1) :
            (s \o x)[i] = IF i <= Len(s) THEN s[i] ELSE x[i - Len(s)]
  <2>1. Len(s) \in Nat
    BY LenProperties
  <2>2. /\ s \o x \in Seq(S)
        /\ Len(s \o x) = Len(s) + Len(x)
        /\ \A i \in 1..(Len(s) + Len(x)) :
              (s \o x)[i] = IF i <= Len(s) THEN s[i] ELSE x[i - Len(s)]
    BY ConcatProperties, Zenon
  <2>3. QED BY <2>1, <2>2
<1>2. DOMAIN s = 1..Len(s) /\ DOMAIN (s \o x) = 1..Len(s \o x)
  BY <1>1
<1>3. QED BY <1>1, <1>2

\* Of the channels that are released only the TSCC's can be missing from the pool, so
\* one channel is returned at most.
LEMMA ReleaseKeepsPool ==
    ASSUME NEW pool \in Pools, NEW tbl \in Tables, PoolKept(pool, tbl),
           NEW ds \in SUBSET GrantedIn(tbl),
           NEW o \in Orders({tbl[d] : d \in ds} \ {pool[i] : i \in DOMAIN pool})
    PROVE  /\ pool \o o \in Pools
           /\ Erased(tbl, ds, NoCh) \in Tables
           /\ PoolKept(pool \o o, Erased(tbl, ds, NoCh))
<1> DEFINE R == {tbl[d] : d \in ds} \ {pool[i] : i \in DOMAIN pool}
           t == Erased(tbl, ds, NoCh)
<1>1. /\ t \in Tables
      /\ \A d \in ds : t[d] = NoCh /\ tbl[d] \in Channels /\ d \in Dsts
      /\ \A d \in Dsts \ ds : t[d] = tbl[d]
  BY DEF Tables, GrantedIn, Erased
<1>2. R \subseteq {TsccCh}
  BY <1>1 DEF PoolKept, InPool
<1> HIDE DEF t
<1>3. \A d \in ds : tbl[d] = TsccCh => TsccCh \in R
  BY <1>1 DEF PoolKept, InPool
<1>4. CASE R = {}
  <2>1. o \in [1..0 -> R]
    BY <1>4, FS_EmptySet DEF Orders
  <2>2. pool \o o = pool
    BY <2>1 DEF Pools
  <2>3. \A d \in Dsts : t[d] = TsccCh <=> tbl[d] = TsccCh
    BY <1>1, <1>3, <1>4, DMRAssumption
  <2>4. PoolKept(pool, t)
    BY <2>3 DEF PoolKept
  <2>5. QED BY <1>1, <2>2, <2>4 DEF t
<1>5. CASE R = {TsccCh}
  <2>1. PICK d0 \in ds : tbl[d0] = TsccCh
    BY <1>5
  <2>2. TsccCh \in Channels /\ ~InPool(pool, TsccCh)
    BY <1>1, <1>5, <2>1 DEF InPool
  <2>3. o \in [1..1 -> R]
    BY <1>5, FS_Singleton DEF Orders
  <2>4. o \in Seq(Channels) /\ Len(o) = 1 /\ o[1] = TsccCh
    <3>1. o \in [1..1 -> {TsccCh}]
      BY <2>3, <1>5
    <3>2. o = [i \in 1..1 |-> TsccCh]
      BY <3>1
    <3>3. QED BY <3>2, <2>2
  <2> DEFINE n == Len(pool)
             p == pool \o o
  <2>5. /\ p \in Pools
        /\ n \in Nat
        /\ DOMAIN pool = 1..n
        /\ DOMAIN p = 1..(n + 1)
        /\ \A i \in 1..n : p[i] = pool[i]
        /\ p[n + 1] = TsccCh
    BY <2>4, OneMore DEF Pools
  <2> HIDE DEF p, n
  <2>6. \A i, j \in DOMAIN p : p[i] = p[j] => i = j
    <3> SUFFICES ASSUME NEW i \in 1..(n + 1), NEW j \in 1..(n + 1), p[i] = p[j]
                 PROVE  i = j
      BY <2>5
    <3>1. CASE i \in 1..n /\ j \in 1..n
      BY <3>1, <2>5 DEF PoolKept
    <3>2. \A k \in 1..n : p[k] # TsccCh
      BY <2>2, <2>5 DEF InPool
    <3>3. QED BY <3>1, <3>2, <2>5
  <2>7. \A ch \in Channels : InPool(p, ch)
    <3>1. \A ch \in Channels \ {TsccCh} : InPool(p, ch)
      BY <2>5 DEF PoolKept, InPool
    <3>2. InPool(p, TsccCh)
      BY <2>5 DEF InPool
    <3>3. QED BY <3>1, <3>2
  <2>8. \A d \in Dsts : t[d] # TsccCh
    BY <1>1, <2>1, DMRAssumption DEF PoolKept
  <2>9. PoolKept(p, t)
    BY <2>6, <2>7, <2>8 DEF PoolKept
  <2>10. QED BY <1>1, <2>5, <2>9 DEF p, t
<1>6. QED BY <1>2, <1>4, <1>5

-----------------------------------------------------------------------------
(* The tables: grants, touches and releases.                                *)

LEMMA GrantKeepsTables ==
    ASSUME TablesInv, UNCHANGED tsccSlot, NEW d \in Dsts, NEW s \in Radios, NEW slot \in Slots,
           NEW grp \in BOOLEAN, NEW netw \in BOOLEAN, ~isGranted(d), isRFChAvailable,
           grantChSlot(d, s, slot, grp, netw)
    PROVE  TablesInv' /\ GrantKept
<1> DEFINE ch == Head(rfChTable)
<1>1. ch \in Channels /\ ch # NoCh
  BY LookupAssumption DEF TablesInv, Pools, isRFChAvailable
<1>2. /\ rfChTable' \in Pools
      /\ grantChTable' \in Tables
      /\ PoolKept(rfChTable, grantChTable)'
  BY GrantKeepsPool DEF TablesInv, isGranted, isRFChAvailable, grantChSlot
<1>3. /\ rfGrantChCnt' \in Nat
      /\ grantSrcIdTable' \in [Dsts -> Radios \cup {NoSrc}]
      /\ uuGrantedTable' \in [Dsts -> BOOLEAN]
      /\ netGrantedTable' \in [Dsts -> BOOLEAN]
      /\ grantTimers' \in [Dsts -> 0..GrantTimeout]
      /\ grantChSlotTable' \in [Dsts -> (Channels \X Slots) \cup {NoSlot}]
  BY <1>1, LookupAssumption DEF TablesInv, grantChSlot
<1>4. SlotsAgree'
  BY <1>1 DEF TablesInv, SlotsAgree, grantChSlot, Tables
<1>5. Granted' = Granted \cup {d} /\ d \notin Granted
  BY <1>1 DEF TablesInv, Tables, Granted, isGranted, grantChSlot
<1>6. IsFiniteSet(Granted)
  BY LookupAssumption, FS_Subset DEF Granted
<1>7. CountExact'
  BY <1>5, <1>6, FS_AddElement DEF CountExact, TablesInv, grantChSlot
<1>8. GrantKept
  BY DEF GrantKept, TablesInv, Tables, isGranted, grantChSlot
<1>9. QED
  BY <1>2, <1>3, <1>4, <1>7, <1>8 DEF TablesInv

LEMMA TouchKeepsTables ==
    ASSUME TablesInv, UNCHANGED <<tsccSlot, grantChSlotTable>>, NEW d \in Dsts, touchGrant(d)
    PROVE  TablesInv' /\ GrantKept
<1>1. grantTimers' \in [Dsts -> 0..GrantTimeout]
  BY LookupAssumption DEF TablesInv, touchGrant
<1>2. QED
  BY <1>1 DEF TablesInv, touchGrant, poolVars, SlotsAgree, CountExact, Granted, isGranted, GrantKept

LEMMA ReleaseKeepsTables ==
    ASSUME TablesInv, UNCHANGED tsccSlot, NEW ds \in SUBSET Granted, NEW timers,
           \A d \in Dsts \ ds : timers[d] \in 0..GrantTimeout,
           ReleaseSlots(ds, timers)
    PROVE  TablesInv' /\ GrantKept
<1>1. ds \in SUBSET GrantedIn(grantChTable) /\ Granted = GrantedIn(grantChTable)
  BY DEF Granted, isGranted, GrantedIn
<1>2. /\ rfChTable' \in Pools
      /\ grantChTable' \in Tables
      /\ PoolKept(rfChTable, grantChTable)'
  <2>1. PICK o \in Orders(Returned(ds)) : rfChTable' = rfChTable \o o
    BY DEF ReleaseSlots
  <2>2. grantChTable' = Erased(grantChTable, ds, NoCh)
    BY DEF ReleaseSlots, Erased
  <2>3. QED
    BY <1>1, <2>1, <2>2, ReleaseKeepsPool DEF TablesInv, Returned, FreeChannels
<1>3. /\ grantSrcIdTable' \in [Dsts -> Radios \cup {NoSrc}]
      /\ uuGrantedTable' \in [Dsts -> BOOLEAN]
      /\ netGrantedTable' \in [Dsts -> BOOLEAN]
      /\ grantTimers' \in [Dsts -> 0..GrantTimeout]
      /\ grantChSlotTable' \in [Dsts -> (Channels \X Slots) \cup {NoSlot}]
  <2>1. grantTimers' \in [Dsts -> 0..GrantTimeout]
    BY LookupAssumption DEF TablesInv, ReleaseSlots
  <2>2. /\ grantSrcIdTable' \in [Dsts -> Radios \cup {NoSrc}]
        /\ uuGrantedTable' \in [Dsts -> BOOLEAN]
        /\ netGrantedTable' \in [Dsts -> BOOLEAN]
    BY DEF TablesInv, ReleaseSlots
  <2>3. grantChSlotTable' \in [Dsts -> (Channels \X Slots) \cup {NoSlot}]
    <3> DEFINE X == (Channels \X Slots) \cup {NoSlot}
    <3>1. grantChSlotTable \in [Dsts -> X] /\ NoSlot \in X
      BY DEF TablesInv
    <3> HIDE DEF X
    <3>2. grantChSlotTable' \in [Dsts -> X]
      BY <3>1 DEF ReleaseSlots
    <3>3. QED BY <3>2 DEF X
  <2>4. QED BY <2>1, <2>2, <2>3
<1>4. SlotsAgree'
  <2> SUFFICES ASSUME NEW d \in Dsts
               PROVE  /\ grantChSlotTable'[d][1] = grantChTable'[d]
                      /\ grantChSlotTable'[d] # <<TsccCh, tsccSlot'>>
    BY DEF SlotsAgree
  <2>1. CASE d \in ds
    BY <2>1, DMRAssumption DEF ReleaseSlots, NoSlot
  <2>2. CASE d \notin ds
    BY <2>2 DEF ReleaseSlots, TablesInv, SlotsAgree
  <2>3. QED BY <2>1, <2>2
<1>5. IsFiniteSet(Granted) /\ IsFiniteSet(ds)
  BY LookupAssumption, FS_Subset DEF Granted
<1>6. Granted' = Granted \ ds
  BY <1>1 DEF Granted, isGranted, ReleaseSlots
<1>7. /\ Cardinality(ds) \in Nat /\ Cardinality(Granted) \in Nat
      /\ Cardinality(ds) <= Cardinality(Granted)
      /\ Cardinality(Granted \ ds) = Cardinality(Granted) - Cardinality(ds)
  <2>1. Cardinality(ds) \in Nat /\ Cardinality(Granted) \in Nat
    BY <1>5, FS_CardinalityType
  <2>2. Cardinality(ds) <= Cardinality(Granted)
    BY <1>5, FS_Subset
  <2>3. Granted \cap ds = ds
    OBVIOUS
  <2>4. Cardinality(Granted \ ds) = Cardinality(Granted) - Cardinality(ds)
    BY <1>5, <2>3, FS_Difference
  <2>5. QED BY <2>1, <2>2, <2>4
<1>8. rfGrantChCnt' \in Nat /\ CountExact'
  BY <1>6, <1>7 DEF TablesInv, CountExact, ReleaseSlots
<1>9. GrantKept
  BY <1>1 DEF GrantKept, isGranted, ReleaseSlots
<1>10. QED
  BY <1>2, <1>3, <1>4, <1>8, <1>9 DEF TablesInv

LEMMA SameTables ==
    ASSUME TablesInv, uuGrantedTable' \in [Dsts -> BOOLEAN],
           UNCHANGED <<tsccSlot, poolVars, grantChTable, grantSrcIdTable, netGrantedTable,
                       grantTimers, grantChSlotTable>>
    PROVE  TablesInv' /\ GrantKept
  BY DEF TablesInv, SlotsAgree, CountExact, Granted, isGranted, GrantKept, poolVars

-----------------------------------------------------------------------------
(* The payload slot.                                                        *)

Kept == TablesInv' /\ PayloadInv' /\ GrantKept

\* An active payload slot is not the TSCC's, and its destination is granted.
LEMMA ActivePayload ==
    ASSUME TablesInv, PayloadInv, NEW slot \in Slots, payloadDst[slot] # NoDst
    PROVE  /\ slot = Opposite(tsccSlot)
           /\ payloadDst[slot] \in Granted
<1> DEFINE d == payloadDst[slot]
<1>1. d \in Dsts /\ grantChSlotTable[d] = <<TsccCh, slot>>
  BY DEF PayloadInv, PayloadIsGranted
<1>2. grantChTable[d] = TsccCh /\ slot # tsccSlot
  BY <1>1 DEF TablesInv, SlotsAgree
<1>3. QED
  BY <1>1, <1>2, DMRAssumption DEF TablesInv, Slots, Opposite, Granted, isGranted

LEMMA NewGrantKeeps ==
    ASSUME TablesInv, PayloadInv, UNCHANGED tsccSlot, NEW s \in Radios, NEW d \in Dsts,
           NEW grp \in BOOLEAN, NEW netw \in BOOLEAN, NewGrant(s, d, grp, netw)
    PROVE  Kept /\ UNCHANGED affVars
<1> DEFINE ch == Head(rfChTable)
<1>1. PICK slot \in Slots : /\ grantChSlot(d, s, slot, grp, netw)
                            /\ payloadDst' = PayloadActivated(ch, slot, d)
  BY DEF NewGrant
<1>2. TablesInv' /\ GrantKept
  BY <1>1, GrantKeepsTables DEF NewGrant
<1>3. payloadDst' \in [Slots -> Dsts \cup {NoDst}]
  BY <1>1 DEF PayloadInv, PayloadActivated
<1>4. /\ grantChSlotTable'[d] = <<ch, slot>>
      /\ \A e \in Dsts \ {d} : grantChSlotTable'[e] = grantChSlotTable[e]
  BY <1>1 DEF grantChSlot, TablesInv
<1>5. \A sl \in Slots : payloadDst[sl] # d
  BY ActivePayload, DMRAssumption DEF NewGrant, Granted
<1>6. PayloadIsGranted'
  <2> SUFFICES ASSUME NEW sl \in Slots, payloadDst'[sl] # NoDst
               PROVE  grantChSlotTable'[payloadDst'[sl]] = <<TsccCh, sl>>
    BY DEF PayloadIsGranted
  <2>1. CASE payloadDst'[sl] = payloadDst[sl]
    BY <2>1, <1>4, <1>5 DEF PayloadInv, PayloadIsGranted
  <2>2. CASE payloadDst'[sl] # payloadDst[sl]
    BY <2>2, <1>1, <1>4 DEF PayloadActivated, PayloadInv
  <2>3. QED BY <2>1, <2>2
<1>7. QED
  BY <1>2, <1>3, <1>6 DEF PayloadInv, Kept, NewGrant

LEMMA GrantRetryKeeps ==
    ASSUME TablesInv, PayloadInv, UNCHANGED tsccSlot, NEW s \in Radios, NEW d \in Dsts,
           NEW voice \in BOOLEAN, NEW netw \in BOOLEAN, GrantRetry(s, d, voice, netw)
    PROVE  Kept /\ UNCHANGED affVars
<1> DEFINE slot == grantChSlotTable[d][2]
<1>1. TablesInv' /\ GrantKept
  BY TouchKeepsTables DEF GrantRetry
<1>2. grantChSlotTable[d] \in Channels \X Slots
  <2>1. grantChSlotTable[d] # NoSlot
    BY DEF GrantRetry, isGranted, TablesInv, SlotsAgree, NoSlot
  <2>2. QED BY <2>1 DEF TablesInv
<1>3. slot \in Slots /\ grantChSlotTable[d] = <<grantChTable[d], slot>>
  BY <1>2 DEF TablesInv, SlotsAgree
<1> HIDE DEF slot
<1>4. payloadDst' = PayloadActivated(grantChTable[d], slot, d) /\ UNCHANGED grantChSlotTable
  BY DEF GrantRetry, slot
<1>5. PayloadInv'
  <2>1. payloadDst' \in [Slots -> Dsts \cup {NoDst}]
    BY <1>3, <1>4 DEF PayloadInv, PayloadActivated
  <2> SUFFICES ASSUME NEW sl \in Slots, payloadDst'[sl] # NoDst
               PROVE  grantChSlotTable[payloadDst'[sl]] = <<TsccCh, sl>>
    BY <1>4, <2>1 DEF PayloadInv, PayloadIsGranted
  <2>2. CASE payloadDst'[sl] = payloadDst[sl]
    BY <2>2 DEF PayloadInv, PayloadIsGranted
  <2>3. CASE payloadDst'[sl] # payloadDst[sl]
    BY <2>3, <1>3, <1>4 DEF PayloadActivated, PayloadInv
  <2>4. QED BY <2>2, <2>3
<1>6. QED
  BY <1>1, <1>5 DEF Kept, GrantRetry

\* A release clears the payload slot of every destination it erases.
LEMMA ReleaseKeeps ==
    ASSUME TablesInv, PayloadInv, UNCHANGED tsccSlot, NEW ds \in SUBSET Granted, NEW timers,
           \A d \in Dsts \ ds : timers[d] \in 0..GrantTimeout,
           Release(ds, timers)
    PROVE  Kept
<1>1. TablesInv' /\ GrantKept
  BY ReleaseKeepsTables DEF Release
<1>2. payloadDst' \in [Slots -> Dsts \cup {NoDst}]
  BY DEF Release, PayloadCleared, PayloadInv
<1>3. ASSUME NEW slot \in Slots, payloadDst'[slot] # NoDst
      PROVE  grantChSlotTable'[payloadDst'[slot]] = <<TsccCh, slot>>
  <2>1. /\ payloadDst'[slot] = payloadDst[slot]
        /\ \A d \in ds : grantChSlotTable[d] # <<TsccCh, slot>>
    BY <1>3 DEF Release, PayloadCleared
  <2>2. grantChSlotTable[payloadDst[slot]] = <<TsccCh, slot>> /\ payloadDst[slot] \in Dsts
    BY <1>3, <2>1 DEF PayloadInv, PayloadIsGranted
  <2>3. payloadDst[slot] \notin ds
    BY <2>1, <2>2
  <2>4. QED
    BY <2>1, <2>2, <2>3 DEF Release, ReleaseSlots
<1>4. QED
  BY <1>1, <1>2, <1>3 DEF Kept, PayloadInv, PayloadIsGranted

\* The end of a call on the payload slot clears it, whatever it releases.
LEMMA CallEndKeeps ==
    ASSUME TablesInv, PayloadInv, NEW d \in Dsts, PayloadCallEnds(d)
    PROVE  Kept
<1>1. UNCHANGED tsccSlot
  BY DEF PayloadCallEnds, config
<1>2. \A e \in Dsts : grantTimers[e] \in 0..GrantTimeout
  BY DEF TablesInv
<1>3. TablesInv' /\ GrantKept
  BY <1>1, <1>2, ReleaseKeepsTables DEF PayloadCallEnds
<1>4. \A slot \in Slots : payloadDst'[slot] = NoDst
  <2> SUFFICES ASSUME NEW slot \in Slots PROVE payloadDst'[slot] = NoDst
    OBVIOUS
  <2>1. CASE slot = Opposite(tsccSlot)
    BY <2>1 DEF PayloadCallEnds, PayloadInv
  <2>2. CASE slot # Opposite(tsccSlot)
    BY <2>2, ActivePayload DEF PayloadCallEnds, PayloadInv
  <2>3. QED BY <2>1, <2>2
<1>5. payloadDst' \in [Slots -> Dsts \cup {NoDst}]
  BY DEF PayloadCallEnds, PayloadInv
<1>6. QED
  BY <1>3, <1>4, <1>5 DEF Kept, PayloadInv, PayloadIsGranted

LEMMA SameKeeps ==
    ASSUME TablesInv, PayloadInv, uuGrantedTable' \in [Dsts -> BOOLEAN],
           UNCHANGED <<tsccSlot, poolVars, grantChTable, grantSrcIdTable, netGrantedTable,
                       grantTimers, grantChSlotTable, payloadDst>>
    PROVE  Kept
  BY SameTables DEF Kept, PayloadInv, PayloadIsGranted

-----------------------------------------------------------------------------
(* The requests: each is served or refused.                                 *)

LEMMA GrantServedKeeps ==
    ASSUME TablesInv, PayloadInv, UNCHANGED tsccSlot, NEW s \in Radios, NEW d \in Dsts,
           NEW grp \in BOOLEAN, NEW voice \in BOOLEAN, NEW netw \in BOOLEAN,
           GrantServed(s, d, grp, voice, netw)
    PROVE  Kept /\ UNCHANGED affVars
<1>1. CASE NewGrant(s, d, grp, netw)
  BY <1>1, NewGrantKeeps
<1>2. CASE NewGrantWithoutSlot(d)
  <2>1. UNCHANGED <<lookupVars, grantChSlotTable, payloadDst>>
    BY <1>2 DEF NewGrantWithoutSlot
  <2>2. QED BY <2>1, SameKeeps DEF TablesInv, lookupVars, grantVars
<1>3. CASE GrantRetry(s, d, voice, netw)
  BY <1>3, GrantRetryKeeps
<1>4. QED
  BY <1>1, <1>2, <1>3 DEF GrantServed

LEMMA NotPermittedKeeps ==
    ASSUME TablesInv, PayloadInv, UNCHANGED tsccSlot, NEW d \in Dsts,
           NEW grp \in BOOLEAN, NEW voice \in BOOLEAN, NewGrantNotPermitted(d, grp, voice)
    PROVE  Kept /\ UNCHANGED affVars
<1>1. uuGrantedTable' \in [Dsts -> BOOLEAN]
  BY DEF TablesInv, NewGrantNotPermitted
<1>2. QED
  BY <1>1, SameKeeps DEF NewGrantNotPermitted

LEMMA GrantRefusedKeeps ==
    ASSUME TablesInv, PayloadInv, UNCHANGED tsccSlot, NEW s \in Radios, NEW d \in Dsts,
           NEW grp \in BOOLEAN, NEW voice \in BOOLEAN, NEW netw \in BOOLEAN,
           GrantRefused(s, d, grp, voice, netw)
    PROVE  Kept /\ UNCHANGED affVars
<1>1. CASE GrantQueued(d) \/ GrantCollision(s, d, voice, netw)
  <2>1. UNCHANGED <<lookupVars, grantChSlotTable, payloadDst>>
    BY <1>1 DEF GrantQueued, GrantCollision
  <2>2. QED BY <2>1, SameKeeps DEF TablesInv, lookupVars, grantVars
<1>2. CASE NewGrantNotPermitted(d, grp, voice)
  BY <1>2, NotPermittedKeeps
<1>3. CASE GrantRetryNotPermitted(s, d, voice, netw)
  <2>1. {d} \in SUBSET Granted /\ \A e \in Dsts : grantTimers[e] \in 0..GrantTimeout
    BY <1>3 DEF GrantRetryNotPermitted, Granted, TablesInv
  <2>2. QED BY <1>3, <2>1, ReleaseKeeps DEF GrantRetryNotPermitted
<1>4. QED
  BY <1>1, <1>2, <1>3 DEF GrantRefused

LEMMA GrantReqKeeps ==
    ASSUME IInv, NEW s \in Radios, NEW d \in Dsts, NEW grp \in BOOLEAN, NEW voice \in BOOLEAN,
           GrantReq(s, d, grp, voice)
    PROVE  Kept /\ SiteInv'
<1>1. UNCHANGED config /\ rfState' \in {"listening", "rejected"}
  BY DEF GrantReq, IInv, SiteInv
<1>2. Kept /\ UNCHANGED affVars
  BY <1>1, GrantServedKeeps, GrantRefusedKeeps DEF GrantReq, IInv, config
<1>3. QED
  BY <1>1, <1>2 DEF IInv, SiteInv, config, affVars

LEMMA NetGrantReqKeeps ==
    ASSUME IInv, NEW s \in Radios, NEW d \in Dsts, NEW grp \in BOOLEAN, NEW voice \in BOOLEAN,
           NetGrantReq(s, d, grp, voice)
    PROVE  Kept /\ SiteInv'
<1>1. UNCHANGED <<rfState, config>>
  BY DEF NetGrantReq
<1>2. Kept /\ UNCHANGED affVars
  <2>1. CASE NewGrant(s, d, grp, TRUE)
    BY <1>1, <2>1, NewGrantKeeps DEF IInv, config
  <2>2. CASE NewGrantWithoutSlot(d) \/ GrantQueued(d)
    <3>1. UNCHANGED <<lookupVars, grantChSlotTable, payloadDst>>
      BY <2>2 DEF NewGrantWithoutSlot, GrantQueued
    <3>2. QED BY <1>1, <3>1, SameKeeps DEF IInv, TablesInv, lookupVars, grantVars, config
  <2>3. CASE NewGrantNotPermitted(d, grp, voice)
    BY <1>1, <2>3, NotPermittedKeeps DEF IInv, config
  <2>4. QED BY <2>1, <2>2, <2>3 DEF NetGrantReq
<1>3. QED
  BY <1>1, <1>2 DEF IInv, SiteInv, config, affVars

LEMMA RegistrationKeeps ==
    ASSUME IInv, NEW s \in Radios, UnitReg(s) \/ UnitDereg(s)
    PROVE  Kept /\ SiteInv'
<1>1. UNCHANGED <<poolVars, grantVars, config, grantChSlotTable, payloadDst, rfState>>
  BY DEF UnitReg, UnitDereg
<1>2. Kept
  BY <1>1, SameKeeps DEF IInv, TablesInv, grantVars, config
<1>3. unitRegTable' \subseteq Radios
  BY DEF IInv, SiteInv, UnitReg, UnitDereg, unitReg, unitDereg, UnitDeregs
<1>4. grpAffTable' = [r \in Radios |-> NoDst]
  BY DEF IInv, SiteInv, UnitReg, UnitDereg, unitReg, unitDereg, UnitDeregs
<1>5. QED
  BY <1>1, <1>2, <1>3, <1>4 DEF IInv, SiteInv, config

\* A timer that does not run out is still within the timeout after the tick.
LEMMA ClockKeeps ==
    ASSUME IInv, Clock
    PROVE  Kept /\ SiteInv'
<1>1. Expired \in SUBSET Granted
  BY DEF Expired
<1>2. ASSUME NEW d \in Dsts \ Expired PROVE Advanced[d] \in 0..GrantTimeout
  <2>1. grantTimers[d] \in 0..GrantTimeout
    BY DEF IInv, TablesInv
  <2>2. CASE isGranted(d)
    <3>1. ~(Advanced[d] > GrantTimeout)
      BY <2>2 DEF Expired, Granted
    <3>2. QED BY <2>1, <3>1, LookupAssumption DEF Advanced
  <2>3. CASE ~isGranted(d)
    BY <2>1, <2>3 DEF Advanced
  <2>4. QED BY <2>2, <2>3
<1>3. Kept
  BY <1>1, <1>2, ReleaseKeeps DEF Clock, IInv, config
<1>4. QED
  BY <1>3 DEF Clock, IInv, SiteInv, affVars, config

-----------------------------------------------------------------------------
(* The invariant.                                                           *)

LEMMA InitIInv == Init => IInv
<1> SUFFICES ASSUME Init PROVE IInv
  OBVIOUS
<1>1. rfChTable \in Pools /\ PoolKept(rfChTable, grantChTable)
  BY InitialPool DEF Init, LookupInit, InPool
<1>2. /\ grantChTable \in Tables
      /\ grantSrcIdTable \in [Dsts -> Radios \cup {NoSrc}]
      /\ uuGrantedTable \in [Dsts -> BOOLEAN]
      /\ netGrantedTable \in [Dsts -> BOOLEAN]
      /\ grantTimers \in [Dsts -> 0..GrantTimeout]
  BY LookupAssumption DEF Init, LookupInit, Tables
<1>3. grantChSlotTable \in [Dsts -> (Channels \X Slots) \cup {NoSlot}]
  <2> DEFINE X == Channels \X Slots
  <2> HIDE DEF X
  <2>1. grantChSlotTable \in [Dsts -> X \cup {NoSlot}]
    BY DEF Init
  <2>2. QED BY <2>1 DEF X
<1>4. SlotsAgree
  BY DMRAssumption DEF Init, LookupInit, SlotsAgree, NoSlot
<1>5. rfGrantChCnt \in Nat /\ CountExact
  <2>1. Granted = {}
    BY DEF Init, LookupInit, Granted, isGranted
  <2>2. QED BY <2>1, FS_EmptySet DEF Init, LookupInit, CountExact
<1>6. TablesInv
  BY <1>1, <1>2, <1>3, <1>4, <1>5 DEF Init, TablesInv
<1>7. PayloadInv
  BY DEF Init, PayloadInv, PayloadIsGranted
<1>8. SiteInv
  BY DEF Init, LookupInit, SiteInv
<1>9. QED
  BY <1>6, <1>7, <1>8 DEF IInv

LEMMA NextKeeps == IInv /\ [Next]_vars => Kept /\ SiteInv'
<1> SUFFICES ASSUME IInv, [Next]_vars PROVE Kept /\ SiteInv'
  OBVIOUS
<1>0. \A d \in Dsts : grantTimers[d] \in 0..GrantTimeout
  BY DEF IInv, TablesInv
<1>1. ASSUME NEW s \in Radios, NEW d \in Dsts, NEW voice \in BOOLEAN,
             RfGrantReq(s, d, d \in Talkgroups, voice)
      PROVE  Kept /\ SiteInv'
  <2>1. GrantReq(s, d, d \in Talkgroups, voice)
    BY <1>1 DEF RfGrantReq
  <2>2. (d \in Talkgroups) \in BOOLEAN
    OBVIOUS
  <2>3. QED BY <2>1, <2>2, GrantReqKeeps, Zenon
<1>2. ASSUME NEW s \in Radios, NEW d \in Dsts, NEW voice \in BOOLEAN,
             NetGrantReq(s, d, d \in Talkgroups, voice)
      PROVE  Kept /\ SiteInv'
  <2>1. (d \in Talkgroups) \in BOOLEAN
    OBVIOUS
  <2>2. QED BY <1>2, <2>1, NetGrantReqKeeps, Zenon
<1>3. ASSUME NEW s \in Radios, NEW d \in Dsts, RestGrantTG(s, d, d \in Talkgroups)
      PROVE  Kept /\ SiteInv'
  <2>1. GrantReq(s, d, d \in Talkgroups, TRUE)
    BY <1>3 DEF RestGrantTG
  <2>2. (d \in Talkgroups) \in BOOLEAN /\ TRUE \in BOOLEAN
    OBVIOUS
  <2>3. QED BY <2>1, <2>2, GrantReqKeeps, Zenon
<1>4. ASSUME NEW d \in Dsts, RestTouchGrantTG(d)
      PROVE  Kept /\ SiteInv'
  <2>1. UNCHANGED <<affVars, config, grantChSlotTable, payloadDst, rfState>> /\ touchGrant(d)
    BY <1>4 DEF RestTouchGrantTG
  <2>2. TablesInv' /\ GrantKept
    BY <2>1, TouchKeepsTables DEF IInv, config
  <2>3. QED
    BY <2>1, <2>2 DEF Kept, IInv, PayloadInv, PayloadIsGranted, SiteInv, affVars, config
<1>5. ASSUME NEW d \in Dsts, RestReleaseGrantTG(d)
      PROVE  Kept /\ SiteInv'
  <2>1. {d} \in SUBSET Granted
    BY <1>5 DEF RestReleaseGrantTG, Granted
  <2>2. Kept
    BY <1>0, <1>5, <2>1, ReleaseKeeps DEF RestReleaseGrantTG, IInv, config
  <2>3. QED
    BY <1>5, <2>2 DEF RestReleaseGrantTG, IInv, SiteInv, affVars, config
<1>6. ASSUME NEW d \in Dsts, PayloadCallEnds(d)
      PROVE  Kept /\ SiteInv'
  BY <1>6, CallEndKeeps DEF PayloadCallEnds, IInv, SiteInv, affVars, config
<1>7. ASSUME NEW s \in Radios, UnitReg(s) \/ UnitDereg(s)
      PROVE  Kept /\ SiteInv'
  BY <1>7, RegistrationKeeps
<1>8. CASE RfRejected \/ UNCHANGED vars
  <2>1. /\ UNCHANGED <<lookupVars, config, grantChSlotTable, payloadDst>>
        /\ rfState' \in {"listening", "rejected"}
    BY <1>8 DEF RfRejected, vars, IInv, SiteInv
  <2>2. Kept
    BY <2>1, SameKeeps DEF IInv, TablesInv, lookupVars, grantVars, config
  <2>3. QED
    BY <2>1, <2>2 DEF IInv, SiteInv, lookupVars, affVars, config
<1>9. CASE Clock
  BY <1>9, ClockKeeps
<1>10. QED
  BY <1>1, <1>2, <1>3, <1>4, <1>5, <1>6, <1>7, <1>8, <1>9 DEF Next

\* The inductive invariant: the pool and the two grant tables agree, the count is
\* that of the table, and an active payload slot belongs to a grant.
THEOREM Invariant == Spec => []IInv
<1>1. IInv /\ [Next]_vars => IInv'
  BY NextKeeps DEF IInv, Kept
<1>2. QED
  BY <1>1, InitIInv, PTL DEF Spec

\* Every table of the lookup holds values of its own kind, and no grant timer runs
\* past the timeout: the clock releases the grant in the tick in which it would.
THEOREM TypeCorrect == Spec => []TypeOK
<1>1. IInv => TypeOK
  BY DEF IInv, TablesInv, PayloadInv, SiteInv, TypeOK, Tables, Pools
<1>2. QED
  BY <1>1, Invariant, PTL

\* grantChSlot and the pool: the control slot is never granted, and the other slot
\* of its channel carries one grant at most.
THEOREM TsccIsKept == Spec => []TsccKept
<1>1. IInv => TsccKept
  BY DEF IInv, TablesInv, PoolKept, SlotsAgree, TsccKept
<1>2. QED
  BY <1>1, Invariant, PTL

\* releaseGrant, which returns a channel only when the pool lacks it: no channel is
\* in the pool twice, and only the TSCC's is ever missing from it, while granted.
THEOREM PoolIsComplete == Spec => []PoolComplete
<1>1. IInv => PoolComplete
  <2> SUFFICES ASSUME IInv PROVE PoolComplete
    OBVIOUS
  <2>1. \A i, j \in DOMAIN rfChTable : rfChTable[i] = rfChTable[j] => i = j
    BY DEF IInv, TablesInv, PoolKept
  <2>2. ASSUME NEW ch \in Channels \ FreeChannels
        PROVE  ch = TsccCh /\ ch \in GrantedChannels
    <3>1. ~InPool(rfChTable, ch)
      BY DEF InPool, FreeChannels
    <3>2. ch = TsccCh
      BY <3>1 DEF IInv, TablesInv, PoolKept
    <3>3. PICK d \in Dsts : grantChTable[d] = ch
      BY <3>1, <3>2 DEF IInv, TablesInv, PoolKept
    <3>4. d \in Granted
      BY <3>2, <3>3, DMRAssumption DEF Granted, isGranted
    <3>5. QED BY <3>2, <3>3, <3>4 DEF GrantedChannels
  <2>3. QED BY <2>1, <2>2 DEF PoolComplete
<1>2. QED
  BY <1>1, Invariant, PTL

\* tsccActivateSlot and tsccClearActivatedSlot: the payload slot of this host is
\* active only for a destination that holds that slot.
THEOREM PayloadsAreGranted == Spec => []PayloadIsGranted
<1>1. IInv => PayloadIsGranted
  BY DEF IInv, PayloadInv
<1>2. QED
  BY <1>1, Invariant, PTL

\* m_rfGrantChCnt never drifts from the grant table: no release is counted twice,
\* and its floor at zero is never needed.
THEOREM GrantsAreCounted == Spec => []CountExact
<1>1. IInv => CountExact
  BY DEF IInv, TablesInv
<1>2. QED
  BY <1>1, Invariant, PTL

\* No request, of whatever subscriber, moves a running call to another channel or
\* slot or gives it another owner: a grant is released before it changes.
THEOREM GrantsKeepTheirSlots == Spec => [][GrantKept]_vars
<1>1. IInv /\ [Next]_vars => [GrantKept]_vars
  BY NextKeeps DEF Kept
<1>2. QED
  BY <1>1, Invariant, PTL DEF Spec

=============================================================================
