----------------------------- MODULE GrantThreads -----------------------------
(***************************************************************************)
(* The grant tables of an authoritative P25 control channel that           *)
(* supervises its voice channels, under the two threads that change them:  *)
(* the main loop (src/host/p25/Control.cpp, packet/ControlSignaling.cpp)   *)
(* and the REST interface (src/host/network/RESTAPI.cpp).                  *)
(*                                                                         *)
(* No mutex guards the tables.  A step runs from one blocking REST call of *)
(* a thread to its next: while a thread waits for a voice channel host the *)
(* other one goes on.  That threads may also be switched within a step, in *)
(* the middle of a change to a hash table, is not modelled.                *)
(***************************************************************************)
EXTENDS AffiliationLookup

CONSTANTS
    Threads,    \* "main", and "rest" when the REST interface is enabled
    MaxExtra    \* bound: entries too many in the pool before releases stop

ASSUME ThreadsAssumption ==
    /\ Threads \subseteq {"main", "rest"}
    /\ MaxExtra \in Nat

VARIABLES
    op,         \* thread -> "idle", "releasing", or the answer it waits for
    dstId,      \* thread -> its local dstId
    chNo,       \* thread -> its local chNo
    gntsToRel,  \* thread -> the destinations it has still to release
    copy,       \* the counts of the lookup that the REST thread has copied
    siteChCnt,  \* the channel count the site broadcasts
    overlapped  \* history: two threads were once releasing one destination

threadVars == <<op, dstId, chNo, gntsToRel, copy>>
vars == <<lookupVars, threadVars, siteChCnt, overlapped>>

NoCopy == [free |-> 0, count |-> 0, granted |-> 0]

Init ==
    /\ LookupInit
    /\ op = [t \in Threads |-> "idle"]
    /\ dstId = [t \in Threads |-> NoDst]
    /\ chNo = [t \in Threads |-> NoCh]
    /\ gntsToRel = [t \in Threads |-> {}]
    /\ copy = NoCopy
    /\ siteChCnt = Cardinality(Channels)
    /\ overlapped = FALSE

Waits(t, what, d, ch) ==
    /\ op' = [op EXCEPT ![t] = what]
    /\ dstId' = [dstId EXCEPT ![t] = d]
    /\ chNo' = [chNo EXCEPT ![t] = ch]

\* The locals of a thread go out of scope.
Goes(t, where) == Waits(t, where, NoDst, NoCh)

-----------------------------------------------------------------------------
(* releaseGrant.                                                            *)

\* The locals are set, and the release callback asks the voice channel host to
\* drop its permit.  The grant stays in the tables until that is answered.
CallbackAsks(t, d) ==
    /\ isGranted(d)
    /\ Waits(t, "callback", d, grantChTable[d])
    /\ overlapped' = (overlapped \/ \E u \in Threads \ {t} : op[u] = "callback" /\ dstId[u] = d)

SkipsReleased(t, d) ==
    /\ ~isGranted(d)
    /\ gntsToRel' = [gntsToRel EXCEPT ![t] = @ \ {d}]
    /\ UNCHANGED <<op, dstId, chNo, overlapped>>

\* The next turn of the loop over gntsToRel.
NextRelease(t) ==
    /\ op[t] = "releasing"
    /\ \/ /\ gntsToRel[t] = {}
          /\ Goes(t, "idle")
          /\ UNCHANGED <<gntsToRel, overlapped>>
       \/ \E d \in gntsToRel[t] :
            \/ /\ CallbackAsks(t, d)
               /\ gntsToRel' = [gntsToRel EXCEPT ![t] = @ \ {d}]
            \/ SkipsReleased(t, d)
    /\ UNCHANGED <<lookupVars, copy, siteChCnt>>

\* Faulty returns: without the count; with a count that is not held at zero.
ReturnedUncounted(ch) ==
    /\ rfChTable' = Append(rfChTable, ch)
    /\ UNCHANGED rfGrantChCnt

ReturnedUnclamped(ch) ==
    /\ rfChTable' = Append(rfChTable, ch)
    /\ rfGrantChCnt' = rfGrantChCnt - 1

Returned(ch) ==
    /\ rfChTable' = Append(rfChTable, ch)
    /\ rfGrantChCnt' = IF rfGrantChCnt > 0 THEN rfGrantChCnt - 1 ELSE 0

\* The callback has been answered, or not: whatever the destination holds by now
\* is erased, and the channel it held then goes to the pool.
CallbackAnswered(t) ==
    LET d == dstId[t] IN
    /\ op[t] = "callback"
    /\ Returned(chNo[t])
    /\ siteChCnt' = Len(rfChTable)' + rfGrantChCnt'
    /\ grantChTable' = [grantChTable EXCEPT ![d] = NoCh]
    /\ grantSrcIdTable' = [grantSrcIdTable EXCEPT ![d] = NoSrc]
    /\ uuGrantedTable' = [uuGrantedTable EXCEPT ![d] = FALSE]
    /\ netGrantedTable' = [netGrantedTable EXCEPT ![d] = FALSE]
    /\ grantTimers' = [grantTimers EXCEPT ![d] = 0]
    /\ Goes(t, "releasing")
    /\ UNCHANGED <<affVars, gntsToRel, copy, overlapped>>

Bounded == Len(rfChTable) + Cardinality(Granted) <= Cardinality(Channels) + MaxExtra

\* A thread sets out to release the destinations ds.
Release(t, ds) ==
    /\ Bounded
    /\ op' = [op EXCEPT ![t] = "releasing"]
    /\ gntsToRel' = [gntsToRel EXCEPT ![t] = ds]
    /\ UNCHANGED <<dstId, chNo, copy, overlapped>>

-----------------------------------------------------------------------------
(* The main loop: writeRF_TSDU_Grant, the end of a call reported by the     *)
(* network, and the clock.                                                  *)

\* A new grant is entered, or the running one of the same subscriber touched,
\* and the voice channel host is asked to permit the destination.
GrantAsks(s, d, net) ==
    /\ op["main"] = "idle"
    /\ \/ /\ ~isGranted(d)
          /\ grantCh(d, s, d \in Talkgroups, net)
          /\ Waits("main", "permit", d, Head(rfChTable))
          /\ siteChCnt' = Len(rfChTable)' + rfGrantChCnt'
       \/ /\ isGranted(d)
          /\ net \/ grantSrcIdTable[d] = s
          /\ touchGrant(d)
          /\ Waits("main", "permit", d, grantChTable[d])
          /\ UNCHANGED siteChCnt
    /\ UNCHANGED <<affVars, gntsToRel, copy, overlapped>>

\* Permitted: the grant is announced.
PermitAnswered ==
    /\ op["main"] = "permit"
    /\ Goes("main", "idle")
    /\ UNCHANGED <<lookupVars, gntsToRel, copy, siteChCnt, overlapped>>

\* A faulty refusal that releases the channel of the request without asking whether
\* the destination still holds a grant.
PermitRefusedUnchecked ==
    /\ op["main"] = "permit"
    /\ op' = [op EXCEPT !["main"] = "callback"]
    /\ UNCHANGED <<lookupVars, dstId, chNo, gntsToRel, copy, siteChCnt, overlapped>>

\* Not permitted, or not answered in time: what the destination holds by now is
\* released.
PermitRefused ==
    /\ op["main"] = "permit"
    /\ IF isGranted(dstId["main"]) THEN CallbackAsks("main", dstId["main"])
                                   ELSE Goes("main", "idle") /\ UNCHANGED overlapped
    /\ UNCHANGED <<lookupVars, gntsToRel, copy, siteChCnt>>

NetCallTerm(d) ==
    /\ op["main"] = "idle"
    /\ isGranted(d)
    /\ Release("main", {d})
    /\ UNCHANGED <<lookupVars, siteChCnt>>

Clock ==
    /\ op["main"] = "idle"
    /\ grantTimers' = Advanced
    /\ Release("main", Expired)
    /\ UNCHANGED <<poolVars, grantChTable, grantSrcIdTable, uuGrantedTable, netGrantedTable,
                   affVars, siteChCnt>>

-----------------------------------------------------------------------------
(* The REST interface serves one request at a time.                         *)

RestTouchGrantTG(d) ==
    /\ op["rest"] = "idle"
    /\ touchGrant(d)
    /\ UNCHANGED <<affVars, threadVars, siteChCnt, overlapped>>

RestReleaseGrantTG(d) ==
    /\ op["rest"] = "idle"
    /\ isGranted(d)
    /\ Release("rest", {d})
    /\ UNCHANGED <<lookupVars, siteChCnt>>

\* releaseGrant(0, true), on the copy of the lookup that Control::affiliations()
\* returns.  Only the channel count of the site is written through to the real one:
\* at once when there is nothing to release, else after the callback of each grant.
RestReleaseGrants ==
    /\ op["rest"] = "idle"
    /\ IF Granted = {}
       THEN siteChCnt' = Len(rfChTable) + rfGrantChCnt /\ UNCHANGED <<op, copy>>
       ELSE /\ op' = [op EXCEPT !["rest"] = "copy"]
            /\ copy' = [free |-> Len(rfChTable), count |-> rfGrantChCnt,
                        granted |-> Cardinality(Granted)]
            /\ UNCHANGED siteChCnt
    /\ UNCHANGED <<lookupVars, dstId, chNo, gntsToRel, overlapped>>

\* The callback of one more grant of the copy has been answered, or not.
CopyReleases ==
    LET free  == copy.free + 1
        count == IF copy.count > 0 THEN copy.count - 1 ELSE 0
        done  == copy.granted <= 1 IN
    /\ op["rest"] = "copy"
    /\ siteChCnt' = free + count
    /\ copy' = IF done THEN NoCopy
               ELSE [free |-> free, count |-> count, granted |-> copy.granted - 1]
    /\ op' = IF done THEN [op EXCEPT !["rest"] = "idle"] ELSE op
    /\ UNCHANGED <<lookupVars, dstId, chNo, gntsToRel, overlapped>>

-----------------------------------------------------------------------------

MainStarts ==
    \/ \E s \in Radios, d \in Dsts, net \in BOOLEAN : GrantAsks(s, d, net)
    \/ \E d \in Dsts : NetCallTerm(d)
    \/ Clock

RestStarts ==
    \/ \E d \in Dsts : RestTouchGrantTG(d) \/ RestReleaseGrantTG(d)
    \/ RestReleaseGrants

\* A thread in the middle of an operation goes on: every REST call it waits for
\* ends, at the latest by its timeout.
GoesOn(t) ==
    \/ NextRelease(t)
    \/ CallbackAnswered(t)
    \/ t = "main" /\ (PermitAnswered \/ PermitRefused)
    \/ t = "rest" /\ CopyReleases

Next ==
    \/ "main" \in Threads /\ MainStarts
    \/ "rest" \in Threads /\ RestStarts
    \/ \E t \in Threads : GoesOn(t)

Spec == Init /\ [][Next]_vars

-----------------------------------------------------------------------------
(* Properties.                                                              *)

TypeOK ==
    /\ rfChTable \in Seq(Channels)
    /\ rfGrantChCnt \in Nat
    /\ grantChTable \in [Dsts -> Channels \cup {NoCh}]
    /\ grantSrcIdTable \in [Dsts -> Radios \cup {NoSrc}]
    /\ uuGrantedTable \in [Dsts -> BOOLEAN]
    /\ netGrantedTable \in [Dsts -> BOOLEAN]
    /\ grantTimers \in [Dsts -> Nat]
    /\ unitRegTable = {} /\ grpAffTable = [s \in Radios |-> NoDst]
    /\ op \in [Threads -> {"idle", "permit", "callback", "releasing", "copy"}]
    /\ dstId \in [Threads -> Dsts \cup {NoDst}]
    /\ chNo \in [Threads -> Channels \cup {NoCh}]
    /\ gntsToRel \in [Threads -> SUBSET Dsts]
    /\ copy \in [free : Nat, count : Nat, granted : Nat]
    /\ siteChCnt \in Nat
    /\ overlapped \in BOOLEAN

\* Without a lock the two threads harm each other in one way only: by releasing one
\* destination at the same time (the callback of releaseGrant, waited for before the
\* erasures).  As long as that has not happened, whatever else overlaps, requests
\* whose permit is awaited, answered late or refused, grants that expire or are
\* released meanwhile, and copies of the lookup, every channel is free, once, or
\* granted, to one destination, and both counts are exact.
OnlyOverlapsHarm ==
    ~overlapped =>
        /\ \A i, j \in DOMAIN rfChTable : rfChTable[i] = rfChTable[j] => i = j
        /\ \A d, e \in Granted : grantChTable[d] = grantChTable[e] => d = e
        /\ FreeChannels \cap GrantedChannels = {}
        /\ FreeChannels \cup GrantedChannels = Channels
        /\ rfGrantChCnt = Cardinality(Granted)
        /\ siteChCnt = Cardinality(Channels)

\* The two counts err to one side only: m_rfGrantChCnt may fall behind the grants
\* but never exceeds them, and the broadcast channel count is never too low (the
\* clamp at zero in releaseGrant).
CountsErrOneWay ==
    /\ rfGrantChCnt <= Cardinality(Granted)
    /\ siteChCnt >= Cardinality(Channels)

\* "Gets the count of granted RF channels.": with both threads at rest, the count
\* is that of the table.
CountExactAtRest ==
    (\A t \in Threads : op[t] = "idle") => rfGrantChCnt = Cardinality(Granted)

=============================================================================
