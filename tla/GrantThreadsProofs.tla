-------------------------- MODULE GrantThreadsProofs --------------------------
(***************************************************************************)
(* Proofs about the grant tables under two threads, for every number of    *)
(* channels, talkgroups and subscribers: nothing is lost or doubled unless *)
(* two operations on one destination overlap, and what is left when they   *)
(* did.                                                                    *)
(***************************************************************************)
EXTENDS GrantThreads, AffiliationLookupProofs

\* A thread that waits for an answer knows the destination, and in the release
\* callback the channel, it asked about.
InFlight ==
    \A t \in Threads :
        /\ op[t] \in {"permit", "callback"} => dstId[t] \in Dsts
        /\ op[t] = "callback" => chNo[t] \in Channels

Copying == "rest" \in Threads /\ op["rest"] = "copy"

\* A copy of the lookup has a grant to release, and its counts add up to the
\* channels of the site at least.
CopyCounted ==
    Copying => copy.granted >= 1 /\ copy.free + copy.count >= Cardinality(Channels)

\* The channel count the site computes never falls, and the count of grants never
\* overtakes the table: a release that finds the grant gone adds a channel to the
\* pool, and takes one from the count at most.
Counted ==
    /\ Len(rfChTable) + rfGrantChCnt >= Cardinality(Channels)
    /\ rfGrantChCnt <= Cardinality(Granted)
    /\ siteChCnt >= Cardinality(Channels)

IInv == TypeOK /\ InFlight /\ CopyCounted /\ Counted

LEMMA Finite ==
    /\ IsFiniteSet(Granted) /\ Cardinality(Granted) \in Nat
    /\ Cardinality(Channels) \in Nat
  BY LookupAssumption, FS_Subset, FS_CardinalityType DEF Granted

LEMMA InitIInv == Init => IInv
<1> SUFFICES ASSUME Init PROVE IInv
  OBVIOUS
<1>1. Cardinality(Channels) \in Nat
  BY Finite
<1>2. rfChTable \in Seq(Channels) /\ Len(rfChTable) = Cardinality(Channels)
  BY <1>1 DEF Init, LookupInit
<1>3. Granted = {}
  BY DEF Init, LookupInit, Granted, isGranted
<1>4. TypeOK
  BY <1>1, <1>2 DEF Init, LookupInit, TypeOK, NoCopy
<1>5. InFlight /\ CopyCounted
  BY DEF Init, InFlight, CopyCounted, Copying
<1>6. Counted
  BY <1>1, <1>2, <1>3, FS_EmptySet DEF Init, LookupInit, Counted
<1>7. QED BY <1>4, <1>5, <1>6 DEF IInv

-----------------------------------------------------------------------------
(* The steps of a thread between the tables.                                *)

\* The tables stay; a thread asks, goes on to its next release, or is done.
LEMMA WaitingKeeps ==
    ASSUME IInv, NEW t \in Threads,
           NEW what \in {"idle", "permit", "callback", "releasing"},
           NEW d \in Dsts \cup {NoDst}, NEW ch \in Channels \cup {NoCh},
           what \in {"permit", "callback"} => d \in Dsts,
           what = "callback" => ch \in Channels,
           Waits(t, what, d, ch), UNCHANGED copy
    PROVE  /\ op' \in [Threads -> {"idle", "permit", "callback", "releasing", "copy"}]
           /\ dstId' \in [Threads -> Dsts \cup {NoDst}]
           /\ chNo' \in [Threads -> Channels \cup {NoCh}]
           /\ InFlight' /\ CopyCounted'
<1>1. /\ op' = [op EXCEPT ![t] = what]
      /\ dstId' = [dstId EXCEPT ![t] = d]
      /\ chNo' = [chNo EXCEPT ![t] = ch]
  BY DEF Waits
<1>2. /\ op \in [Threads -> {"idle", "permit", "callback", "releasing", "copy"}]
      /\ dstId \in [Threads -> Dsts \cup {NoDst}]
      /\ chNo \in [Threads -> Channels \cup {NoCh}]
  BY DEF IInv, TypeOK
<1>3. ASSUME NEW u \in Threads
      PROVE  /\ op'[u] \in {"permit", "callback"} => dstId'[u] \in Dsts
             /\ op'[u] = "callback" => chNo'[u] \in Channels
  BY <1>1, <1>2 DEF IInv, InFlight
<1>4. CopyCounted'
  BY <1>1, <1>2 DEF IInv, CopyCounted, Copying
<1>5. QED
  BY <1>1, <1>2, <1>3, <1>4 DEF InFlight

LEMMA AskingKeeps ==
    ASSUME IInv, NEW t \in Threads, NEW d \in Dsts, CallbackAsks(t, d),
           gntsToRel' \in [Threads -> SUBSET Dsts], UNCHANGED <<lookupVars, copy, siteChCnt>>
    PROVE  IInv'
<1>1. grantChTable[d] \in Channels
  BY DEF CallbackAsks, isGranted, IInv, TypeOK
<1>2. /\ op' \in [Threads -> {"idle", "permit", "callback", "releasing", "copy"}]
      /\ dstId' \in [Threads -> Dsts \cup {NoDst}]
      /\ chNo' \in [Threads -> Channels \cup {NoCh}]
      /\ InFlight' /\ CopyCounted'
  BY <1>1, WaitingKeeps DEF CallbackAsks
<1>3. overlapped' \in BOOLEAN
  BY DEF CallbackAsks, IInv, TypeOK
<1>4. QED
  BY <1>2, <1>3 DEF IInv, TypeOK, Counted, Granted, isGranted, lookupVars, poolVars, grantVars, affVars

LEMMA GoingKeeps ==
    ASSUME IInv, NEW t \in Threads, NEW where \in {"idle", "releasing"}, Goes(t, where),
           UNCHANGED <<lookupVars, gntsToRel, copy, siteChCnt, overlapped>>
    PROVE  IInv'
<1>1. /\ op' \in [Threads -> {"idle", "permit", "callback", "releasing", "copy"}]
      /\ dstId' \in [Threads -> Dsts \cup {NoDst}]
      /\ chNo' \in [Threads -> Channels \cup {NoCh}]
      /\ InFlight' /\ CopyCounted'
  BY WaitingKeeps DEF Goes
<1>2. QED
  BY <1>1 DEF IInv, TypeOK, Counted, Granted, isGranted, lookupVars, poolVars, grantVars, affVars

LEMMA SettingOutKeeps ==
    ASSUME IInv, NEW t \in Threads, NEW ds \in SUBSET Dsts, Release(t, ds),
           grantTimers' \in [Dsts -> Nat],
           UNCHANGED <<poolVars, grantChTable, grantSrcIdTable, uuGrantedTable, netGrantedTable,
                       affVars, siteChCnt>>
    PROVE  IInv'
<1>1. /\ op' = [op EXCEPT ![t] = "releasing"]
      /\ gntsToRel' = [gntsToRel EXCEPT ![t] = ds]
      /\ UNCHANGED <<dstId, chNo, copy, overlapped>>
  BY DEF Release
<1>2. InFlight' /\ CopyCounted'
  BY <1>1 DEF IInv, InFlight, CopyCounted, Copying, TypeOK
<1>3. TypeOK'
  BY <1>1 DEF IInv, TypeOK, poolVars, affVars
<1>4. Counted'
  BY DEF IInv, Counted, Granted, isGranted, poolVars
<1>5. QED BY <1>2, <1>3, <1>4 DEF IInv

-----------------------------------------------------------------------------
(* The steps that change the tables.                                        *)

LEMMA NewGrantCounts ==
    ASSUME IInv, NEW s \in Radios, NEW d \in Dsts, NEW grp \in BOOLEAN, NEW net \in BOOLEAN,
           ~isGranted(d), grantCh(d, s, grp, net), siteChCnt' = Len(rfChTable)' + rfGrantChCnt'
    PROVE  /\ Counted'
           /\ siteChCnt' \in Nat
           /\ Head(rfChTable) \in Channels
           /\ rfChTable' \in Seq(Channels) /\ rfGrantChCnt' \in Nat
           /\ grantChTable' \in [Dsts -> Channels \cup {NoCh}]
<1>1. /\ rfChTable \in Seq(Channels) /\ rfChTable # << >>
      /\ rfChTable' = Tail(rfChTable)
      /\ rfGrantChCnt \in Nat /\ rfGrantChCnt' = rfGrantChCnt + 1
      /\ grantChTable \in [Dsts -> Channels \cup {NoCh}]
      /\ grantChTable' = [grantChTable EXCEPT ![d] = Head(rfChTable)]
  BY DEF grantCh, isRFChAvailable, IInv, TypeOK
<1>2. /\ Head(rfChTable) \in Channels
      /\ rfChTable' \in Seq(Channels)
      /\ Len(rfChTable)' = Len(rfChTable) - 1
      /\ Len(rfChTable) \in Nat /\ Len(rfChTable)' \in Nat
  BY <1>1
<1>3. Granted' = Granted \cup {d} /\ d \notin Granted
  BY <1>1, <1>2, LookupAssumption DEF Granted, isGranted
<1>4. Cardinality(Granted') = Cardinality(Granted) + 1
  BY <1>3, Finite, FS_AddElement
<1>5. Counted'
  BY <1>1, <1>2, <1>4, Finite DEF IInv, Counted
<1>6. QED BY <1>1, <1>2, <1>5

LEMMA GrantAsksKeeps ==
    ASSUME IInv, "main" \in Threads, NEW s \in Radios, NEW d \in Dsts, NEW net \in BOOLEAN,
           GrantAsks(s, d, net)
    PROVE  IInv'
<1>1. CASE ~isGranted(d)
  <2>1. /\ grantCh(d, s, d \in Talkgroups, net)
        /\ Waits("main", "permit", d, Head(rfChTable))
        /\ siteChCnt' = Len(rfChTable)' + rfGrantChCnt'
        /\ UNCHANGED <<affVars, gntsToRel, copy, overlapped>>
    BY <1>1 DEF GrantAsks
  <2>2. (d \in Talkgroups) \in BOOLEAN
    OBVIOUS
  <2>3. /\ Counted'
        /\ siteChCnt' \in Nat
        /\ Head(rfChTable) \in Channels
        /\ rfChTable' \in Seq(Channels) /\ rfGrantChCnt' \in Nat
        /\ grantChTable' \in [Dsts -> Channels \cup {NoCh}]
    BY <1>1, <2>1, <2>2, NewGrantCounts
  <2>4. /\ op' \in [Threads -> {"idle", "permit", "callback", "releasing", "copy"}]
        /\ dstId' \in [Threads -> Dsts \cup {NoDst}]
        /\ chNo' \in [Threads -> Channels \cup {NoCh}]
        /\ InFlight' /\ CopyCounted'
    BY <2>1, <2>3, WaitingKeeps
  <2>5. /\ grantSrcIdTable' \in [Dsts -> Radios \cup {NoSrc}]
        /\ uuGrantedTable' \in [Dsts -> BOOLEAN]
        /\ netGrantedTable' \in [Dsts -> BOOLEAN]
        /\ grantTimers' \in [Dsts -> Nat]
    BY <2>1 DEF grantCh, IInv, TypeOK
  <2>6. QED BY <2>1, <2>3, <2>4, <2>5 DEF IInv, TypeOK, affVars
<1>2. CASE isGranted(d)
  <2>1. /\ touchGrant(d)
        /\ Waits("main", "permit", d, grantChTable[d])
        /\ UNCHANGED <<siteChCnt, affVars, gntsToRel, copy, overlapped>>
    BY <1>2 DEF GrantAsks
  <2>2. grantChTable[d] \in Channels \cup {NoCh}
    BY DEF IInv, TypeOK
  <2>3. /\ op' \in [Threads -> {"idle", "permit", "callback", "releasing", "copy"}]
        /\ dstId' \in [Threads -> Dsts \cup {NoDst}]
        /\ chNo' \in [Threads -> Channels \cup {NoCh}]
        /\ InFlight' /\ CopyCounted'
    BY <2>1, <2>2, WaitingKeeps
  <2>4. QED
    BY <2>1, <2>3 DEF touchGrant, IInv, TypeOK, Counted, Granted, isGranted, poolVars, affVars
<1>3. QED BY <1>1, <1>2

\* Whatever the destination holds when the callback returns: one channel is added
\* to the pool, at most one grant is erased.
LEMMA AnswerKeeps ==
    ASSUME IInv, NEW t \in Threads, CallbackAnswered(t)
    PROVE  IInv'
<1> DEFINE d == dstId[t]
<1>1. /\ d \in Dsts /\ chNo[t] \in Channels
      /\ rfChTable \in Seq(Channels) /\ rfGrantChCnt \in Nat
      /\ grantChTable \in [Dsts -> Channels \cup {NoCh}]
  BY DEF CallbackAnswered, IInv, InFlight, TypeOK
<1>2. /\ rfChTable' = Append(rfChTable, chNo[t])
      /\ rfGrantChCnt' = IF rfGrantChCnt > 0 THEN rfGrantChCnt - 1 ELSE 0
      /\ siteChCnt' = Len(rfChTable)' + rfGrantChCnt'
      /\ grantChTable' = [grantChTable EXCEPT ![d] = NoCh]
  BY DEF CallbackAnswered, Returned
<1>3. /\ rfChTable' \in Seq(Channels)
      /\ Len(rfChTable) \in Nat /\ Len(rfChTable)' = Len(rfChTable) + 1
      /\ rfGrantChCnt' \in Nat /\ rfGrantChCnt' >= rfGrantChCnt - 1
      /\ siteChCnt' \in Nat
      /\ grantChTable' \in [Dsts -> Channels \cup {NoCh}]
  BY <1>1, <1>2
<1>4. Granted' = Granted \ {d}
  BY <1>1, <1>2 DEF Granted, isGranted
<1>5. Cardinality(Granted') \in Nat /\ Cardinality(Granted') >= Cardinality(Granted) - 1
  <2>1. /\ IsFiniteSet(Granted')
        /\ Cardinality(Granted') = IF d \in Granted THEN Cardinality(Granted) - 1
                                                    ELSE Cardinality(Granted)
    BY <1>4, Finite, FS_RemoveElement
  <2>2. Cardinality(Granted') \in Nat /\ Cardinality(Granted) \in Nat
    BY <2>1, Finite, FS_CardinalityType
  <2>3. QED BY <2>1, <2>2
<1>6. Counted'
  BY <1>1, <1>2, <1>3, <1>5, Finite DEF IInv, Counted
<1>7. /\ op' \in [Threads -> {"idle", "permit", "callback", "releasing", "copy"}]
      /\ dstId' \in [Threads -> Dsts \cup {NoDst}]
      /\ chNo' \in [Threads -> Channels \cup {NoCh}]
      /\ InFlight' /\ CopyCounted'
  BY WaitingKeeps DEF CallbackAnswered, Goes
<1>8. /\ grantSrcIdTable' \in [Dsts -> Radios \cup {NoSrc}]
      /\ uuGrantedTable' \in [Dsts -> BOOLEAN]
      /\ netGrantedTable' \in [Dsts -> BOOLEAN]
      /\ grantTimers' \in [Dsts -> Nat]
      /\ UNCHANGED <<affVars, gntsToRel, copy, overlapped>>
  BY DEF CallbackAnswered, IInv, TypeOK
<1>9. QED
  BY <1>3, <1>6, <1>7, <1>8 DEF IInv, TypeOK, affVars

\* The steps on the copy leave the tables alone.
LEMMA CopyingKeeps ==
    ASSUME IInv, "rest" \in Threads, RestReleaseGrants
    PROVE  IInv'
<1>1. /\ op \in [Threads -> {"idle", "permit", "callback", "releasing", "copy"}]
      /\ Len(rfChTable) \in Nat /\ rfGrantChCnt \in Nat
      /\ UNCHANGED <<lookupVars, dstId, chNo, gntsToRel, overlapped>>
  BY DEF IInv, TypeOK, RestReleaseGrants
<1>2. CASE Granted = {}
  <2>1. siteChCnt' = Len(rfChTable) + rfGrantChCnt /\ UNCHANGED <<op, copy>>
    BY <1>2 DEF RestReleaseGrants
  <2>2. siteChCnt' \in Nat /\ siteChCnt' >= Cardinality(Channels)
    BY <1>1, <2>1 DEF IInv, Counted
  <2>3. QED
    BY <1>1, <2>1, <2>2 DEF IInv, TypeOK, InFlight, CopyCounted, Copying, Counted, Granted,
       isGranted, lookupVars, poolVars, grantVars, affVars
<1>3. CASE Granted # {}
  <2>1. /\ op' = [op EXCEPT !["rest"] = "copy"]
        /\ copy' = [free |-> Len(rfChTable), count |-> rfGrantChCnt,
                    granted |-> Cardinality(Granted)]
        /\ UNCHANGED siteChCnt
    BY <1>3 DEF RestReleaseGrants
  <2>2. Cardinality(Granted) \in Nat /\ Cardinality(Granted) >= 1
    BY <1>3, Finite, FS_EmptySet
  <2>3. /\ op' \in [Threads -> {"idle", "permit", "callback", "releasing", "copy"}]
        /\ copy' \in [free : Nat, count : Nat, granted : Nat]
        /\ CopyCounted'
    BY <1>1, <2>1, <2>2 DEF IInv, Counted, CopyCounted
  <2>4. InFlight'
    BY <1>1, <2>1 DEF IInv, InFlight
  <2>5. QED
    BY <1>1, <2>1, <2>3, <2>4 DEF IInv, TypeOK, Counted, Granted, isGranted, lookupVars, poolVars,
       grantVars, affVars
<1>4. QED BY <1>2, <1>3

LEMMA CopyReleasesKeeps ==
    ASSUME IInv, "rest" \in Threads, CopyReleases
    PROVE  IInv'
<1> DEFINE free  == copy.free + 1
           count == IF copy.count > 0 THEN copy.count - 1 ELSE 0
<1>1. /\ Copying
      /\ copy \in [free : Nat, count : Nat, granted : Nat]
      /\ copy.granted >= 1 /\ copy.free + copy.count >= Cardinality(Channels)
      /\ op \in [Threads -> {"idle", "permit", "callback", "releasing", "copy"}]
  BY DEF CopyReleases, IInv, TypeOK, CopyCounted, Copying
<1>2. free \in Nat /\ count \in Nat /\ free + count >= Cardinality(Channels)
  BY <1>1, Finite
<1>3. /\ siteChCnt' = free + count
      /\ UNCHANGED <<lookupVars, dstId, chNo, gntsToRel, overlapped>>
  BY DEF CopyReleases
<1>4. \/ op' = [op EXCEPT !["rest"] = "idle"] /\ copy' = NoCopy
      \/ /\ copy.granted > 1 /\ op' = op
         /\ copy' = [free |-> free, count |-> count, granted |-> copy.granted - 1]
  BY <1>1 DEF CopyReleases
<1> HIDE DEF free, count
<1>5. /\ op' \in [Threads -> {"idle", "permit", "callback", "releasing", "copy"}]
      /\ copy' \in [free : Nat, count : Nat, granted : Nat]
  BY <1>1, <1>2, <1>4 DEF NoCopy
<1>6. CopyCounted'
  BY <1>1, <1>2, <1>4, Finite DEF CopyCounted, Copying
<1>7. InFlight'
  BY <1>1, <1>3, <1>4 DEF IInv, InFlight
<1>8. siteChCnt' \in Nat /\ siteChCnt' >= Cardinality(Channels)
  BY <1>2, <1>3
<1>9. QED
  BY <1>3, <1>5, <1>6, <1>7, <1>8 DEF IInv, TypeOK, Counted, Granted, isGranted, lookupVars, poolVars,
     grantVars, affVars

-----------------------------------------------------------------------------
(* The invariant.                                                           *)

LEMMA GoesOnKeeps ==
    ASSUME IInv, NEW t \in Threads, GoesOn(t)
    PROVE  IInv'
<1>0. gntsToRel \in [Threads -> SUBSET Dsts] /\ dstId \in [Threads -> Dsts \cup {NoDst}]
  BY DEF IInv, TypeOK
<1>1. ASSUME NextRelease(t) PROVE IInv'
  <2>1. CASE Goes(t, "idle") /\ UNCHANGED <<gntsToRel, overlapped>>
    BY <1>1, <2>1, GoingKeeps DEF NextRelease
  <2>2. ASSUME NEW d \in gntsToRel[t], CallbackAsks(t, d),
               gntsToRel' = [gntsToRel EXCEPT ![t] = @ \ {d}]
        PROVE  IInv'
    BY <1>0, <1>1, <2>2, AskingKeeps DEF NextRelease
  <2>3. ASSUME NEW d \in gntsToRel[t], SkipsReleased(t, d)
        PROVE  IInv'
    BY <1>0, <1>1, <2>3 DEF NextRelease, SkipsReleased, IInv, TypeOK, InFlight, CopyCounted,
       Copying, Counted, Granted, isGranted, lookupVars, poolVars, grantVars, affVars
  <2>4. QED BY <1>1, <2>1, <2>2, <2>3 DEF NextRelease
<1>2. ASSUME CallbackAnswered(t) PROVE IInv'
  BY <1>2, AnswerKeeps
<1>3. ASSUME t = "main", PermitAnswered PROVE IInv'
  BY <1>3, GoingKeeps DEF PermitAnswered
<1>4. ASSUME t = "main", PermitRefused PROVE IInv'
  <2>1. dstId["main"] \in Dsts
    BY <1>4 DEF PermitRefused, IInv, InFlight
  <2>2. CASE isGranted(dstId["main"])
    BY <1>0, <1>4, <2>1, <2>2, AskingKeeps DEF PermitRefused
  <2>3. CASE ~isGranted(dstId["main"])
    BY <1>4, <2>3, GoingKeeps DEF PermitRefused
  <2>4. QED BY <2>2, <2>3
<1>5. ASSUME t = "rest", CopyReleases PROVE IInv'
  BY <1>5, CopyReleasesKeeps
<1>6. QED
  BY <1>1, <1>2, <1>3, <1>4, <1>5 DEF GoesOn

LEMMA MainKeeps ==
    ASSUME IInv, "main" \in Threads, MainStarts
    PROVE  IInv'
<1>1. ASSUME NEW s \in Radios, NEW d \in Dsts, NEW net \in BOOLEAN, GrantAsks(s, d, net)
      PROVE  IInv'
  BY <1>1, GrantAsksKeeps
<1>2. ASSUME NEW d \in Dsts, NetCallTerm(d) PROVE IInv'
  BY <1>2, SettingOutKeeps DEF NetCallTerm, lookupVars, grantVars, IInv, TypeOK
<1>3. ASSUME Clock PROVE IInv'
  <2>1. grantTimers' \in [Dsts -> Nat]
    BY <1>3 DEF Clock, Advanced, IInv, TypeOK
  <2>2. Expired \in SUBSET Dsts
    BY DEF Expired, Granted
  <2>3. QED BY <1>3, <2>1, <2>2, SettingOutKeeps DEF Clock
<1>4. QED
  BY <1>1, <1>2, <1>3 DEF MainStarts

LEMMA RestKeeps ==
    ASSUME IInv, "rest" \in Threads, RestStarts
    PROVE  IInv'
<1>1. ASSUME NEW d \in Dsts, RestTouchGrantTG(d) PROVE IInv'
  BY <1>1 DEF RestTouchGrantTG, touchGrant, IInv, TypeOK, InFlight, CopyCounted, Copying,
     Counted, Granted, isGranted, poolVars, affVars, threadVars
<1>2. ASSUME NEW d \in Dsts, RestReleaseGrantTG(d) PROVE IInv'
  BY <1>2, SettingOutKeeps DEF RestReleaseGrantTG, lookupVars, grantVars, IInv, TypeOK
<1>3. ASSUME RestReleaseGrants PROVE IInv'
  BY <1>3, CopyingKeeps
<1>4. QED
  BY <1>1, <1>2, <1>3 DEF RestStarts

\* The inductive invariant of the two threads, whatever their operations do to each
\* other's grants.
THEOREM Invariant == Spec => []IInv
<1>1. IInv /\ UNCHANGED vars => IInv'
  BY DEF IInv, TypeOK, InFlight, CopyCounted, Copying, Counted, Granted, isGranted, vars, lookupVars,
         poolVars, grantVars, affVars, threadVars
<1>2. IInv /\ [Next]_vars => IInv'
  BY <1>1, MainKeeps, RestKeeps, GoesOnKeeps DEF Next
<1>3. QED
  BY <1>2, InitIInv, PTL DEF Spec

\* The tables of the two threads keep their types.
THEOREM TypeCorrect == Spec => []TypeOK
<1>1. IInv => TypeOK
  BY DEF IInv
<1>2. QED
  BY <1>1, Invariant, PTL

\* The count of grants never exceeds the table, and the broadcast channel count
\* never falls below the site's.
THEOREM CountsErrToOneSide == Spec => []CountsErrOneWay
<1>1. IInv => CountsErrOneWay
  BY DEF IInv, Counted, CountsErrOneWay
<1>2. QED
  BY <1>1, Invariant, PTL

-----------------------------------------------------------------------------
(* What holds as long as no two threads have been releasing one destination *)
(* at a time.                                                               *)

Pool == INSTANCE ChannelPool WITH free <- FreeChannels, held <- grantChTable

\* A grant whose release waits for its callback still holds what the thread will
\* return, and no two threads release the same one.
StillHeld ==
    /\ \A t \in Threads :
         op[t] = "callback" => isGranted(dstId[t]) /\ chNo[t] = grantChTable[dstId[t]]
    /\ \A t, u \in Threads :
         op[t] = "callback" /\ op[u] = "callback" /\ dstId[t] = dstId[u] => t = u

\* The counts of the copy are exact as well.
CopyExact ==
    Copying => copy.count = copy.granted /\ copy.free + copy.count = Cardinality(Channels)

Undisturbed ==
    /\ Conserved(rfChTable, grantChTable)
    /\ rfGrantChCnt = Cardinality(Granted)
    /\ siteChCnt = Cardinality(Channels)
    /\ StillHeld
    /\ CopyExact

ApartInv == ~overlapped => Undisturbed

\* What a step does to the tables then: it takes the head of the pool for a
\* destination without a grant, gives the channel of one back, or neither.
TakeMove(d) ==
    /\ ~isGranted(d)
    /\ isRFChAvailable
    /\ rfChTable' = Tail(rfChTable)
    /\ rfGrantChCnt' = rfGrantChCnt + 1
    /\ grantChTable' = [grantChTable EXCEPT ![d] = Head(rfChTable)]
    /\ siteChCnt' = Len(rfChTable)' + rfGrantChCnt'

ReturnMove(d) ==
    /\ isGranted(d)
    /\ Returned(grantChTable[d])
    /\ grantChTable' = [grantChTable EXCEPT ![d] = NoCh]
    /\ siteChCnt' = Len(rfChTable)' + rfGrantChCnt'

StayMove ==
    /\ UNCHANGED <<poolVars, grantChTable>>
    /\ UNCHANGED siteChCnt \/ siteChCnt' = Cardinality(Channels)

Move == (\E d \in Dsts : TakeMove(d) \/ ReturnMove(d)) \/ StayMove

\* The releases of the other threads, which keep their destinations.
OthersHold(t) ==
    \A u \in Threads \ {t} : op[u] = "callback" => grantChTable'[dstId[u]] = grantChTable[dstId[u]]

LEMMA WaitingStillHeld ==
    ASSUME IInv, StillHeld, NEW t \in Threads, OthersHold(t),
           NEW what, NEW d, NEW ch, Waits(t, what, d, ch),
           what = "callback" =>
               /\ grantChTable'[d] # NoCh /\ ch = grantChTable'[d]
               /\ \A u \in Threads \ {t} : op[u] = "callback" => dstId[u] # d
    PROVE  StillHeld'
<1>1. op'[t] = what /\ dstId'[t] = d /\ chNo'[t] = ch
  BY DEF Waits, IInv, TypeOK
<1>2. \A u \in Threads \ {t} : op'[u] = op[u] /\ dstId'[u] = dstId[u] /\ chNo'[u] = chNo[u]
  BY DEF Waits, IInv, TypeOK
<1>3. ASSUME NEW u \in Threads, op'[u] = "callback"
      PROVE  grantChTable'[dstId'[u]] # NoCh /\ chNo'[u] = grantChTable'[dstId'[u]]
  <2>1. CASE u = t
    BY <1>1, <1>3, <2>1
  <2>2. CASE u # t
    BY <1>2, <1>3, <2>2 DEF StillHeld, OthersHold, isGranted
  <2>3. QED BY <2>1, <2>2
<1>4. ASSUME NEW u \in Threads, NEW v \in Threads,
             op'[u] = "callback", op'[v] = "callback", dstId'[u] = dstId'[v]
      PROVE  u = v
  <2>1. CASE u # t /\ v # t
    BY <1>2, <1>4, <2>1 DEF StillHeld
  <2>2. CASE u = t /\ v # t
    BY <1>1, <1>2, <1>4, <2>2
  <2>3. CASE u # t /\ v = t
    BY <1>1, <1>2, <1>4, <2>3
  <2>4. QED BY <2>1, <2>2, <2>3
<1>5. QED
  BY <1>3, <1>4 DEF StillHeld, isGranted

\* A thread that is not waiting for a callback any more, with the table as it was.
LEMMA LeavingStillHeld ==
    ASSUME IInv, StillHeld, NEW t \in Threads, NEW what, what # "callback",
           op' = [op EXCEPT ![t] = what], UNCHANGED <<dstId, chNo, grantChTable>>
    PROVE  StillHeld'
<1>1. op'[t] = what /\ \A u \in Threads \ {t} : op'[u] = op[u]
  BY DEF IInv, TypeOK
<1>2. \A u \in Threads : op'[u] = "callback" => op[u] = "callback"
  BY <1>1
<1>3. QED
  BY <1>2 DEF StillHeld, isGranted

LEMMA CopyStaysExact ==
    ASSUME CopyExact, UNCHANGED copy, Copying' => Copying
    PROVE  CopyExact'
  BY DEF CopyExact

\* No step but that of the REST thread begins a copy.
LEMMA WaitingCopies ==
    ASSUME IInv, NEW t \in Threads, NEW what, what # "copy", op' = [op EXCEPT ![t] = what]
    PROVE  Copying' => Copying
  BY DEF Copying, IInv, TypeOK

-----------------------------------------------------------------------------
(* Every step is a move.                                                    *)

LEMMA GrantAsksMoves ==
    ASSUME IInv, Undisturbed, "main" \in Threads,
           NEW s \in Radios, NEW d \in Dsts, NEW net \in BOOLEAN, GrantAsks(s, d, net)
    PROVE  Move /\ StillHeld' /\ CopyExact'
<1>1. /\ UNCHANGED copy
      /\ \E ch : Waits("main", "permit", d, ch)
  BY DEF GrantAsks
<1>2. CopyExact'
  BY <1>1, WaitingCopies, CopyStaysExact DEF Waits, Undisturbed
<1>3. CASE ~isGranted(d)
  <2>1. /\ grantCh(d, s, d \in Talkgroups, net)
        /\ Waits("main", "permit", d, Head(rfChTable))
        /\ siteChCnt' = Len(rfChTable)' + rfGrantChCnt'
    BY <1>3 DEF GrantAsks
  <2>2. TakeMove(d)
    BY <1>3, <2>1 DEF grantCh, TakeMove
  <2>3. OthersHold("main")
    BY <1>3, <2>2 DEF TakeMove, OthersHold, Undisturbed, StillHeld, IInv, TypeOK, isGranted
  <2>4. StillHeld'
    BY <2>1, <2>3, WaitingStillHeld DEF Undisturbed
  <2>5. QED BY <1>2, <2>2, <2>4 DEF Move
<1>4. CASE isGranted(d)
  <2>1. /\ touchGrant(d)
        /\ Waits("main", "permit", d, grantChTable[d])
        /\ UNCHANGED siteChCnt
    BY <1>4 DEF GrantAsks
  <2>2. StayMove
    BY <2>1 DEF touchGrant, StayMove
  <2>3. OthersHold("main")
    BY <2>2 DEF StayMove, OthersHold
  <2>4. StillHeld'
    BY <2>1, <2>3, WaitingStillHeld DEF Undisturbed
  <2>5. QED BY <1>2, <2>2, <2>4 DEF Move
<1>5. QED BY <1>3, <1>4

LEMMA SettingOutMoves ==
    ASSUME IInv, Undisturbed, NEW t \in Threads, NEW ds, Release(t, ds),
           UNCHANGED <<poolVars, grantChTable, siteChCnt>>
    PROVE  Move /\ StillHeld' /\ CopyExact'
<1>1. op' = [op EXCEPT ![t] = "releasing"] /\ UNCHANGED <<dstId, chNo, copy>>
  BY DEF Release
<1>2. StillHeld'
  BY <1>1, LeavingStillHeld DEF Undisturbed
<1>3. CopyExact'
  BY <1>1, WaitingCopies, CopyStaysExact DEF Undisturbed
<1>4. QED
  BY <1>2, <1>3 DEF Move, StayMove

LEMMA MainMoves ==
    ASSUME IInv, Undisturbed, "main" \in Threads, MainStarts
    PROVE  Move /\ StillHeld' /\ CopyExact'
<1>1. ASSUME NEW d \in Dsts, NetCallTerm(d) PROVE Move /\ StillHeld' /\ CopyExact'
  BY <1>1, SettingOutMoves DEF NetCallTerm, lookupVars, grantVars
<1>2. ASSUME Clock PROVE Move /\ StillHeld' /\ CopyExact'
  BY <1>2, SettingOutMoves DEF Clock
<1>3. QED
  BY <1>1, <1>2, GrantAsksMoves DEF MainStarts

LEMMA PoolCounts ==
    ASSUME IInv, Undisturbed
    PROVE  Len(rfChTable) + rfGrantChCnt = Cardinality(Channels)
<1>1. /\ rfChTable \in Pools /\ grantChTable \in Tables
      /\ Granted = GrantedIn(grantChTable)
  BY DEF IInv, TypeOK, Pools, Tables, Granted, isGranted, GrantedIn
<1>2. QED
  BY <1>1, ConservedCount DEF Undisturbed

LEMMA RestMoves ==
    ASSUME IInv, Undisturbed, "rest" \in Threads, RestStarts
    PROVE  Move /\ StillHeld' /\ CopyExact'
<1>1. ASSUME NEW d \in Dsts, RestTouchGrantTG(d) PROVE Move /\ StillHeld' /\ CopyExact'
  <2>1. StayMove /\ UNCHANGED <<op, dstId, chNo, copy, grantChTable>>
    BY <1>1 DEF RestTouchGrantTG, touchGrant, StayMove, threadVars
  <2>2. StillHeld' /\ CopyExact'
    BY <2>1 DEF Undisturbed, StillHeld, CopyExact, Copying, isGranted
  <2>3. QED BY <2>1, <2>2 DEF Move
<1>2. ASSUME NEW d \in Dsts, RestReleaseGrantTG(d) PROVE Move /\ StillHeld' /\ CopyExact'
  BY <1>2, SettingOutMoves DEF RestReleaseGrantTG, lookupVars, grantVars
<1>3. ASSUME RestReleaseGrants PROVE Move /\ StillHeld' /\ CopyExact'
  <2>1. /\ UNCHANGED <<poolVars, grantChTable, dstId, chNo>>
        /\ Len(rfChTable) + rfGrantChCnt = Cardinality(Channels)
    BY <1>3, PoolCounts DEF RestReleaseGrants, lookupVars, grantVars
  <2>2. CASE Granted = {}
    <3>1. siteChCnt' = Cardinality(Channels) /\ UNCHANGED <<op, copy>>
      BY <1>3, <2>1, <2>2 DEF RestReleaseGrants
    <3>2. StillHeld' /\ CopyExact'
      BY <2>1, <3>1 DEF Undisturbed, StillHeld, CopyExact, Copying, isGranted
    <3>3. QED BY <2>1, <3>1, <3>2 DEF Move, StayMove
  <2>3. CASE Granted # {}
    <3>1. /\ op' = [op EXCEPT !["rest"] = "copy"]
          /\ copy' = [free |-> Len(rfChTable), count |-> rfGrantChCnt,
                      granted |-> Cardinality(Granted)]
          /\ UNCHANGED siteChCnt
      BY <1>3, <2>3 DEF RestReleaseGrants
    <3>2. StillHeld'
      BY <2>1, <3>1, LeavingStillHeld DEF Undisturbed
    <3>3. CopyExact'
      BY <2>1, <3>1 DEF Undisturbed, CopyExact
    <3>4. QED BY <2>1, <3>1, <3>2, <3>3 DEF Move, StayMove
  <2>4. QED BY <2>2, <2>3
<1>4. QED
  BY <1>1, <1>2, <1>3 DEF RestStarts

LEMMA AskingMoves ==
    ASSUME IInv, Undisturbed, ~overlapped', NEW t \in Threads, NEW d, CallbackAsks(t, d),
           UNCHANGED <<lookupVars, copy, siteChCnt>>
    PROVE  Move /\ StillHeld' /\ CopyExact'
<1>1. /\ Waits(t, "callback", d, grantChTable[d])
      /\ grantChTable'[d] = grantChTable[d] /\ grantChTable[d] # NoCh
      /\ \A u \in Threads \ {t} : op[u] = "callback" => dstId[u] # d
  BY DEF CallbackAsks, isGranted, lookupVars, grantVars
<1>2. OthersHold(t)
  BY DEF OthersHold, lookupVars, grantVars
<1>3. StillHeld'
  BY <1>1, <1>2, WaitingStillHeld DEF Undisturbed
<1>4. CopyExact'
  BY <1>1, WaitingCopies, CopyStaysExact DEF Waits, Undisturbed
<1>5. QED
  BY <1>3, <1>4 DEF Move, StayMove, lookupVars, grantVars

LEMMA GoingMoves ==
    ASSUME IInv, Undisturbed, NEW t \in Threads, NEW where, where \notin {"callback", "copy"},
           Goes(t, where), UNCHANGED <<lookupVars, copy, siteChCnt>>
    PROVE  Move /\ StillHeld' /\ CopyExact'
<1>1. OthersHold(t)
  BY DEF OthersHold, lookupVars, grantVars
<1>2. StillHeld'
  BY <1>1, WaitingStillHeld DEF Goes, Undisturbed
<1>3. CopyExact'
  BY WaitingCopies, CopyStaysExact DEF Goes, Waits, Undisturbed
<1>4. QED
  BY <1>2, <1>3 DEF Move, StayMove, lookupVars, grantVars

LEMMA AnswerMoves ==
    ASSUME IInv, Undisturbed, NEW t \in Threads, CallbackAnswered(t)
    PROVE  Move /\ StillHeld' /\ CopyExact'
<1>1. dstId[t] \in Dsts /\ isGranted(dstId[t]) /\ chNo[t] = grantChTable[dstId[t]]
  BY DEF CallbackAnswered, Undisturbed, StillHeld, IInv, InFlight
<1>2. ReturnMove(dstId[t])
  BY <1>1 DEF CallbackAnswered, ReturnMove
<1>3. Goes(t, "releasing") /\ op[t] = "callback" /\ UNCHANGED copy
  BY DEF CallbackAnswered
<1>4. OthersHold(t)
  <2>1. \A u \in Threads \ {t} : op[u] = "callback" => dstId[u] # dstId[t]
    BY <1>3 DEF Undisturbed, StillHeld
  <2>2. grantChTable' = [grantChTable EXCEPT ![dstId[t]] = NoCh]
    BY <1>2 DEF ReturnMove
  <2>3. QED BY <2>1, <2>2 DEF OthersHold, IInv, TypeOK
<1>5. StillHeld'
  BY <1>3, <1>4, WaitingStillHeld DEF Goes, Undisturbed
<1>6. CopyExact'
  BY <1>3, WaitingCopies, CopyStaysExact DEF Goes, Waits, Undisturbed
<1>7. QED
  BY <1>1, <1>2, <1>5, <1>6 DEF Move

LEMMA CopyMoves ==
    ASSUME IInv, Undisturbed, "rest" \in Threads, CopyReleases
    PROVE  Move /\ StillHeld' /\ CopyExact'
<1>1. /\ copy \in [free : Nat, count : Nat, granted : Nat]
      /\ copy.granted >= 1 /\ copy.count = copy.granted
      /\ copy.free + copy.count = Cardinality(Channels)
  BY DEF CopyReleases, IInv, TypeOK, CopyCounted, Copying, Undisturbed, CopyExact
<1>2. /\ siteChCnt' = copy.free + 1 + (copy.count - 1)
      /\ UNCHANGED <<lookupVars, dstId, chNo>>
  BY <1>1 DEF CopyReleases
<1>3. StayMove
  BY <1>1, <1>2 DEF StayMove, lookupVars, grantVars
<1>4. CASE copy.granted <= 1
  <2>1. op' = [op EXCEPT !["rest"] = "idle"]
    BY <1>4 DEF CopyReleases
  <2>2. StillHeld'
    BY <1>2, <2>1, LeavingStillHeld DEF Undisturbed, lookupVars, grantVars
  <2>3. CopyExact'
    BY <2>1 DEF CopyExact, Copying, IInv, TypeOK
  <2>4. QED BY <1>3, <2>2, <2>3 DEF Move
<1>5. CASE copy.granted > 1
  <2>1. /\ copy' = [free |-> copy.free + 1, count |-> copy.count - 1,
                    granted |-> copy.granted - 1]
        /\ op' = op
    BY <1>1, <1>5 DEF CopyReleases
  <2>2. StillHeld'
    BY <1>2, <2>1 DEF Undisturbed, StillHeld, isGranted, lookupVars, grantVars
  <2>3. CopyExact'
    BY <1>1, <2>1 DEF CopyExact
  <2>4. QED BY <1>3, <2>2, <2>3 DEF Move
<1>6. QED BY <1>1, <1>4, <1>5

LEMMA GoesOnMoves ==
    ASSUME IInv, Undisturbed, ~overlapped', NEW t \in Threads, GoesOn(t)
    PROVE  Move /\ StillHeld' /\ CopyExact'
<1> DEFINE Goal == Move /\ StillHeld' /\ CopyExact'
<1>1. ASSUME NextRelease(t) PROVE Goal
  <2>1. op[t] = "releasing" /\ UNCHANGED <<lookupVars, copy, siteChCnt>>
    BY <1>1 DEF NextRelease
  <2>2. ASSUME NEW d \in gntsToRel[t], SkipsReleased(t, d) PROVE Goal
    <3>1. UNCHANGED <<op, dstId, chNo>>
      BY <2>2 DEF SkipsReleased
    <3>2. QED
      BY <2>1, <3>1 DEF Undisturbed, StillHeld, CopyExact, Copying, isGranted, Move, StayMove,
         lookupVars, grantVars
  <2>3. ASSUME NEW d, CallbackAsks(t, d) PROVE Goal
    BY <2>1, <2>3, AskingMoves
  <2>4. ASSUME Goes(t, "idle") PROVE Goal
    BY <2>1, <2>4, GoingMoves
  <2>5. QED BY <1>1, <2>2, <2>3, <2>4 DEF NextRelease
<1>2. ASSUME t = "main", PermitAnswered \/ PermitRefused PROVE Goal
  <2>1. UNCHANGED <<lookupVars, copy, siteChCnt>>
    BY <1>2 DEF PermitAnswered, PermitRefused
  <2>2. Goes("main", "idle") \/ CallbackAsks("main", dstId["main"])
    BY <1>2 DEF PermitAnswered, PermitRefused
  <2>3. QED BY <1>2, <2>1, <2>2, AskingMoves, GoingMoves
<1>3. QED
  BY <1>1, <1>2, AnswerMoves, CopyMoves DEF GoesOn

-----------------------------------------------------------------------------
(* What the moves keep.                                                     *)

LEMMA TakeKeeps ==
    ASSUME IInv, Undisturbed, NEW d \in Dsts, TakeMove(d)
    PROVE  /\ Conserved(rfChTable', grantChTable')
           /\ Cardinality(Granted)' = Cardinality(Granted) + 1
<1>1. rfChTable \in Pools /\ grantChTable \in Tables /\ grantChTable[d] = NoCh
  BY DEF IInv, TypeOK, Pools, Tables, TakeMove, isGranted
<1>2. Conserved(rfChTable', grantChTable')
  BY <1>1, GrantConserves DEF Undisturbed, TakeMove, isRFChAvailable
<1>3. Head(rfChTable) \in Channels
  BY DEF IInv, TypeOK, TakeMove, isRFChAvailable
<1>4. Granted' = Granted \cup {d} /\ d \notin Granted
  BY <1>1, <1>3, LookupAssumption DEF Tables, TakeMove, Granted, isGranted
<1>5. Cardinality(Granted') = Cardinality(Granted) + 1
  BY <1>4, Finite, FS_AddElement
<1>6. QED BY <1>2, <1>5

\* One release is the release of a set of one, in its only order.
LEMMA ReturnKeeps ==
    ASSUME IInv, Undisturbed, NEW d \in Dsts, ReturnMove(d)
    PROVE  /\ Conserved(rfChTable', grantChTable')
           /\ Cardinality(Granted)' = Cardinality(Granted) - 1
<1> DEFINE o == [i \in 1..1 |-> d]
<1>1. rfChTable \in Pools /\ grantChTable \in Tables /\ grantChTable[d] \in Channels
  BY DEF IInv, TypeOK, Pools, Tables, ReturnMove, isGranted
<1>2. Cardinality({d}) = 1 /\ {d} \in SUBSET GrantedIn(grantChTable)
  BY FS_Singleton DEF ReturnMove, isGranted, GrantedIn
<1>3. o \in Orders({d})
  <2>1. o \in [1..1 -> {d}] /\ DOMAIN o = 1..1 /\ 1 \in 1..1 /\ o[1] = d
    OBVIOUS
  <2> HIDE DEF o
  <2>2. QED BY <1>2, <2>1 DEF Orders
<1>4. rfChTable' = rfChTable \o [i \in 1..Cardinality({d}) |-> grantChTable[o[i]]]
  <2>1. rfChTable' = Append(rfChTable, grantChTable[d])
    BY DEF ReturnMove, Returned
  <2>2. [i \in 1..1 |-> grantChTable[o[i]]] = <<grantChTable[d]>>
    OBVIOUS
  <2>3. Append(rfChTable, grantChTable[d]) = rfChTable \o <<grantChTable[d]>>
    BY <1>1, AppendProperties, ConcatProperties DEF Pools
  <2>4. QED BY <1>2, <2>1, <2>2, <2>3
<1>5. grantChTable' = Erased(grantChTable, {d}, NoCh)
  BY <1>1 DEF ReturnMove, Erased, Tables
<1> HIDE DEF o
<1>6. Conserved(rfChTable', grantChTable')
  BY <1>1, <1>2, <1>3, <1>4, <1>5, ReleaseConserves DEF Undisturbed
<1>7. Granted' = Granted \ {d} /\ d \in Granted
  BY <1>1 DEF ReturnMove, Granted, isGranted, Tables
<1>8. Cardinality(Granted') = Cardinality(Granted) - 1
  BY <1>7, Finite, FS_RemoveElement
<1>9. QED BY <1>6, <1>8

LEMMA MoveKeeps ==
    ASSUME IInv, IInv', Undisturbed, Move, StillHeld', CopyExact'
    PROVE  Undisturbed'
<1>1. rfChTable' \in Pools /\ grantChTable' \in Tables
  BY DEF IInv, TypeOK, Pools, Tables
<1>2. /\ Cardinality(Granted) \in Nat
      /\ Granted' = GrantedIn(grantChTable')
  BY Finite DEF Granted, isGranted, GrantedIn
<1>3. ASSUME Conserved(rfChTable', grantChTable'), rfGrantChCnt' = Cardinality(Granted'),
             siteChCnt' = Len(rfChTable)' + rfGrantChCnt'
      PROVE  Undisturbed'
  BY <1>1, <1>2, <1>3, ConservedCount DEF Undisturbed
<1>4. ASSUME NEW d \in Dsts, TakeMove(d) PROVE Undisturbed'
  BY <1>2, <1>3, <1>4, TakeKeeps DEF TakeMove, Undisturbed
<1>5. ASSUME NEW d \in Dsts, ReturnMove(d) PROVE Undisturbed'
  <2>1. /\ Conserved(rfChTable', grantChTable')
        /\ Cardinality(Granted') = Cardinality(Granted) - 1
    BY <1>5, ReturnKeeps
  <2>2. Cardinality(Granted') \in Nat
    <3>1. IsFiniteSet(Granted')
      BY LookupAssumption, FS_Subset DEF Granted
    <3>2. QED BY <3>1, FS_CardinalityType
  <2>3. rfGrantChCnt' = Cardinality(Granted')
    BY <1>2, <1>5, <2>1, <2>2 DEF ReturnMove, Returned, Undisturbed
  <2>4. QED BY <1>3, <1>5, <2>1, <2>3 DEF ReturnMove
<1>6. CASE StayMove
  BY <1>6 DEF StayMove, Undisturbed, Granted, isGranted, poolVars
<1>7. QED
  BY <1>4, <1>5, <1>6 DEF Move

LEMMA MoveIsPoolStep ==
    ASSUME IInv, IInv', Undisturbed, Undisturbed', Move
    PROVE  [Pool!Next]_(Pool!poolStateVars)
<1> DEFINE Goal == Pool!Next \/ UNCHANGED <<FreeChannels, grantChTable>>
<1>1. /\ rfChTable \in Pools /\ grantChTable \in Tables
      /\ rfChTable' \in Pools /\ grantChTable' \in Tables
  BY DEF IInv, TypeOK, Pools, Tables
<1>2. /\ FreeChannels = Channels \ HeldIn(grantChTable)
      /\ FreeChannels' = Channels \ HeldIn(grantChTable')
  BY <1>1, FreeAreTheRest DEF Undisturbed, FreeChannels
<1>3. ASSUME NEW d \in Dsts, TakeMove(d) PROVE Goal
  <2> DEFINE ch == Head(rfChTable)
  <2>1. /\ grantChTable[d] = NoCh
        /\ grantChTable' = [grantChTable EXCEPT ![d] = ch]
    BY <1>3 DEF TakeMove, isGranted
  <2>2. ch \in Channels /\ ch \in FreeChannels
    BY <1>3 DEF TakeMove, isRFChAvailable, FreeChannels, IInv, TypeOK
  <2>3. HeldIn(grantChTable') = HeldIn(grantChTable) \cup {ch}
    BY <1>1, <2>1, <2>2, HeldAfterGrant
  <2>4. FreeChannels' = FreeChannels \ {ch}
    BY <1>2, <2>3
  <2>5. Pool!Take(d)
    BY <2>1, <2>2, <2>4 DEF Pool!Take
  <2>6. QED BY <2>5 DEF Pool!Next
<1>4. ASSUME NEW d \in Dsts, ReturnMove(d) PROVE Goal
  <2>1. {d} \in SUBSET GrantedIn(grantChTable) /\ {d} \in SUBSET Pool!Holders
    BY <1>4 DEF ReturnMove, isGranted, GrantedIn, Pool!Holders
  <2>2. grantChTable' = Erased(grantChTable, {d}, NoCh)
    BY <1>1, <1>4 DEF ReturnMove, Erased, Tables
  <2>3. HeldIn(grantChTable') = HeldIn(grantChTable) \ {grantChTable[e] : e \in {d}}
    BY <1>1, <2>1, <2>2, HeldAfterRelease DEF Undisturbed
  <2>4. grantChTable[d] \in Channels /\ {d} \subseteq GrantedIn(grantChTable)
    BY <1>1, <2>1 DEF Tables, GrantedIn
  <2>5. FreeChannels' = FreeChannels \cup {grantChTable[e] : e \in {d}}
    BY <1>2, <2>3, <2>4 DEF HeldIn
  <2>6. Pool!GiveBack({d})
    BY <2>2, <2>5 DEF Pool!GiveBack, Erased
  <2>7. QED BY <2>1, <2>6 DEF Pool!Next
<1>5. ASSUME StayMove PROVE Goal
  BY <1>5 DEF StayMove, FreeChannels, poolVars
<1>6. Goal
  <2> HIDE DEF Goal
  <2>1. QED BY <1>3, <1>4, <1>5 DEF Move
<1>7. QED
  BY <1>6 DEF Pool!poolStateVars

-----------------------------------------------------------------------------
(* The theorems about releases that do not overlap.                         *)

LEMMA InitApart ==
    ASSUME Init
    PROVE  ApartInv /\ Pool!Init
<1>1. IInv
  BY InitIInv
<1>2. /\ rfChTable \in [1..Cardinality(Channels) -> Channels]
      /\ \A ch \in Channels : \E i \in DOMAIN rfChTable : rfChTable[i] = ch
      /\ grantChTable = [d \in Dsts |-> NoCh]
      /\ rfGrantChCnt = 0 /\ siteChCnt = Cardinality(Channels)
      /\ op = [t \in Threads |-> "idle"]
  BY DEF Init, LookupInit
<1>3. GrantedIn(grantChTable) = {} /\ Granted = {}
  BY <1>2 DEF GrantedIn, Granted, isGranted
<1>4. \A i, j \in DOMAIN rfChTable : rfChTable[i] = rfChTable[j] => i = j
  <2> DEFINE n == Cardinality(Channels)
  <2>1. n \in Nat
    BY Finite
  <2>2. IsFiniteSet(1..n) /\ Cardinality(1..n) = n
    BY <2>1, FS_Interval
  <2>3. DOMAIN rfChTable = 1..n
    BY <1>2
  <2>4. rfChTable \in Surjection(1..n, Channels)
    BY <1>2, <2>3 DEF Surjection
  <2>5. rfChTable \in Injection(1..n, Channels)
    BY <2>2, <2>4, LookupAssumption, FS_SurjSameCardinalityImpliesInj
  <2>6. QED BY <2>3, <2>5 DEF Injection, IsInjective
<1>5. Conserved(rfChTable, grantChTable)
  BY <1>2, <1>3, <1>4 DEF Conserved
<1>6. ApartInv
  BY <1>2, <1>3, <1>5, FS_EmptySet DEF ApartInv, Undisturbed, StillHeld, CopyExact, Copying
<1>7. FreeChannels = Channels
  <2>1. FreeChannels = Channels \ HeldIn(grantChTable)
    BY <1>1, <1>5, FreeAreTheRest DEF FreeChannels, IInv, TypeOK, Pools, Tables
  <2>2. QED BY <1>3, <2>1 DEF HeldIn
<1>8. QED
  BY <1>2, <1>6, <1>7 DEF Pool!Init

\* An overlap is never forgotten.
LEMMA OverlapsRemain ==
    ASSUME [Next]_vars, overlapped
    PROVE  overlapped'
<1>1. ASSUME NEW t, NEW d, CallbackAsks(t, d) PROVE overlapped'
  BY <1>1 DEF CallbackAsks
<1>2. ASSUME MainStarts PROVE overlapped'
  BY <1>2 DEF MainStarts, GrantAsks, NetCallTerm, Clock, Release
<1>3. ASSUME RestStarts PROVE overlapped'
  BY <1>3 DEF RestStarts, RestTouchGrantTG, RestReleaseGrantTG, RestReleaseGrants, Release
<1>4. ASSUME NEW t \in Threads, GoesOn(t) PROVE overlapped'
  BY <1>1, <1>4 DEF GoesOn, NextRelease, SkipsReleased, CallbackAnswered, PermitAnswered,
     PermitRefused, CopyReleases
<1>5. CASE UNCHANGED vars
  BY <1>5 DEF vars
<1>6. QED BY <1>2, <1>3, <1>4, <1>5 DEF Next

LEMMA StepKeepsApart ==
    ASSUME IInv, IInv', ApartInv, [Next]_vars
    PROVE  ApartInv' /\ (~overlapped' => [Pool!Next]_(Pool!poolStateVars))
<1> SUFFICES ASSUME ~overlapped'
             PROVE  Undisturbed' /\ [Pool!Next]_(Pool!poolStateVars)
  BY DEF ApartInv
<1>1. Undisturbed
  BY OverlapsRemain DEF ApartInv
<1>2. CASE Next
  <2>1. Move /\ StillHeld' /\ CopyExact'
    BY <1>1, <1>2, MainMoves, RestMoves, GoesOnMoves DEF Next
  <2>2. Undisturbed'
    BY <1>1, <2>1, MoveKeeps
  <2>3. QED BY <1>1, <2>1, <2>2, MoveIsPoolStep
<1>3. CASE UNCHANGED vars
  BY <1>1, <1>3 DEF vars, lookupVars, poolVars, grantVars, threadVars, Undisturbed, StillHeld,
     CopyExact, Copying, Granted, isGranted, FreeChannels, Pool!poolStateVars
<1>4. QED BY <1>2, <1>3

\* The inductive invariant behind OnlyOverlapsHarm.
THEOREM ApartInvariant == Spec => []ApartInv
<1>1. IInv /\ IInv' /\ ApartInv /\ [Next]_vars => ApartInv'
  BY StepKeepsApart
<1>2. QED
  BY <1>1, InitApart, Invariant, PTL DEF Spec

\* However the threads interleave, as long as no two of them release one
\* destination at a time, no channel is lost or handed out twice and both counts
\* are exact.
THEOREM OnlyOverlapsDoHarm == Spec => []OnlyOverlapsHarm
<1>1. IInv /\ ApartInv => OnlyOverlapsHarm
  <2> SUFFICES ASSUME IInv, ApartInv, ~overlapped PROVE OnlyOverlapsHarm
    BY DEF OnlyOverlapsHarm
  <2>1. /\ Conserved(rfChTable, grantChTable)
        /\ rfGrantChCnt = Cardinality(Granted) /\ siteChCnt = Cardinality(Channels)
    BY DEF ApartInv, Undisturbed
  <2>2. /\ \A i \in DOMAIN rfChTable : rfChTable[i] \in Channels
        /\ \A d \in Granted : grantChTable[d] \in Channels
    BY DEF IInv, TypeOK, Granted, isGranted
  <2>3. QED
    BY <2>1, <2>2 DEF OnlyOverlapsHarm, FreeChannels, GrantedChannels, Granted, isGranted,
       Conserved, GrantedIn
<1>2. QED
  BY <1>1, ApartInvariant, Invariant, PTL

-----------------------------------------------------------------------------
(* One thread.  A host whose REST interface is disabled has the main loop   *)
(* only: nobody else releases anything.                                     *)

LEMMA OneThreadNeverOverlaps ==
    ASSUME \A t, u \in Threads : t = u
    PROVE  Spec => []~overlapped
<1>1. Init => ~overlapped
  BY DEF Init
<1>2. ~overlapped /\ [Next]_vars => ~overlapped'
  <2> SUFFICES ASSUME ~overlapped, [Next]_vars PROVE ~overlapped'
    OBVIOUS
  <2>1. ASSUME NEW t \in Threads, NEW d, CallbackAsks(t, d) PROVE ~overlapped'
    BY <2>1 DEF CallbackAsks
  <2>2. ASSUME "main" \in Threads, MainStarts PROVE ~overlapped'
    BY <2>2 DEF MainStarts, GrantAsks, NetCallTerm, Clock, Release
  <2>3. ASSUME "rest" \in Threads, RestStarts PROVE ~overlapped'
    BY <2>3 DEF RestStarts, RestTouchGrantTG, RestReleaseGrantTG, RestReleaseGrants, Release
  <2>4. ASSUME NEW t \in Threads, GoesOn(t) PROVE ~overlapped'
    BY <2>1, <2>4 DEF GoesOn, NextRelease, SkipsReleased, CallbackAnswered, PermitAnswered,
       PermitRefused, CopyReleases
  <2>5. CASE UNCHANGED vars
    BY <2>5 DEF vars
  <2>6. QED BY <2>2, <2>3, <2>4, <2>5 DEF Next
<1>3. QED
  BY <1>1, <1>2, PTL DEF Spec

\* With one thread the count of grants is that of the table, as the comment on
\* getGrantedRFChCnt says: it takes two threads to refute it.
THEOREM OneThreadCountsExactly ==
    ASSUME \A t, u \in Threads : t = u
    PROVE  Spec => []CountExactAtRest
<1>1. ~overlapped /\ ApartInv => CountExactAtRest
  BY DEF ApartInv, Undisturbed, CountExactAtRest
<1>2. QED
  BY <1>1, OneThreadNeverOverlaps, ApartInvariant, PTL

\* With one thread the tables implement the plain pool of channels, although a
\* release takes two steps with a wait between them.
THEOREM OneThreadImplementsPool ==
    ASSUME \A t, u \in Threads : t = u
    PROVE  Spec => Pool!Spec
<1>1. Init => Pool!Init
  BY InitApart
<1>2. IInv /\ IInv' /\ ApartInv /\ [Next]_vars /\ ~overlapped'
      => [Pool!Next]_(Pool!poolStateVars)
  BY StepKeepsApart
<1>3. QED
  BY <1>1, <1>2, OneThreadNeverOverlaps, ApartInvariant, Invariant, PTL DEF Spec, Pool!Spec

=============================================================================
