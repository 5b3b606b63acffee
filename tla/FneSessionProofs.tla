--------------------------- MODULE FneSessionProofs ---------------------------
(***************************************************************************)
(* Proofs about the session between a host and its master, for every set   *)
(* of challenges, every timeout and every budget of faults.                *)
(***************************************************************************)
EXTENDS FneSession, TLAPS

-----------------------------------------------------------------------------
(* Messages and bags of messages.                                           *)

Messages == [type : ToMaster \cup ToPeer, salt : Salts \cup {NoSalt}]

NetOK(b) == IsABag(b) /\ BagToSet(b) \subseteq Messages

\* What a step sends: at most one message.
Outs == {EmptyBag} \cup {One(m) : m \in Messages}

LEMMA SetOfOne ==
    ASSUME NEW m
    PROVE  /\ BagToSet(One(m)) = {m}
           /\ One(m)[m] = 1
           /\ BagToSet(EmptyBag) = {}
  BY DEF BagToSet, One, SetToBag, EmptyBag

LEMMA Removed ==
    ASSUME NEW b, IsABag(b), NEW m
    PROVE  LET r == b (-) One(m) IN
           /\ IsABag(r)
           /\ BagToSet(r) \subseteq BagToSet(b)
           /\ \A y \in BagToSet(r) : r[y] <= b[y] /\ (y = m => b[y] > 1)
<1> DEFINE r == b (-) One(m)
<1>1. DOMAIN One(m) = {m} /\ One(m)[m] = 1
  BY DEF One, SetToBag
<1>2. \A y \in DOMAIN b : b[y] \in Nat /\ b[y] > 0
  BY DEF IsABag
<1> DEFINE left(y) == IF y = m THEN b[y] - 1 ELSE b[y]
<1>3. r = [y \in {d \in DOMAIN b : left(d) > 0} |-> left(y)]
  BY <1>1, <1>2 DEF (-)
<1>4. \A y \in DOMAIN r : y \in DOMAIN b /\ r[y] = left(y) /\ left(y) > 0
  BY <1>3
<1>5. \A y \in DOMAIN r : r[y] \in {n \in Nat : n > 0}
  BY <1>2, <1>4
<1>6. IsABag(r)
  BY <1>3, <1>5 DEF IsABag
<1>7. QED
  BY <1>2, <1>4, <1>6 DEF BagToSet

LEMMA Added ==
    ASSUME NEW b, IsABag(b), NEW m
    PROVE  LET a == b (+) One(m) IN
           /\ IsABag(a)
           /\ BagToSet(a) = BagToSet(b) \cup {m}
           /\ \A y \in BagToSet(b) \ {m} : a[y] = b[y]
           /\ m \notin BagToSet(b) => a[m] = 1
<1> DEFINE a == b (+) One(m)
<1>1. DOMAIN One(m) = {m} /\ One(m)[m] = 1
  BY DEF One, SetToBag
<1>2. \A y \in DOMAIN b : b[y] \in Nat /\ b[y] > 0
  BY DEF IsABag
<1>3. a = [y \in (DOMAIN b) \cup {m} |-> (IF y \in DOMAIN b THEN b[y] ELSE 0)
                                       + (IF y \in {m} THEN One(m)[y] ELSE 0)]
  BY <1>1 DEF (+)
<1>4. /\ DOMAIN a = (DOMAIN b) \cup {m}
      /\ \A y \in DOMAIN a : a[y] \in {n \in Nat : n > 0}
      /\ \A y \in DOMAIN b \ {m} : a[y] = b[y]
      /\ m \notin DOMAIN b => a[m] = 1
  BY <1>1, <1>2, <1>3
<1>5. IsABag(a)
  BY <1>3, <1>4 DEF IsABag
<1>6. QED
  BY <1>4, <1>5 DEF BagToSet

LEMMA NothingAdded ==
    ASSUME NEW b, IsABag(b)
    PROVE  b (+) EmptyBag = b
<1>1. DOMAIN EmptyBag = {}
  BY DEF EmptyBag, SetToBag
<1>2. \A y \in DOMAIN b : b[y] \in Nat
  BY DEF IsABag
<1>3. b (+) EmptyBag = [y \in DOMAIN b |-> b[y]]
  BY <1>1, <1>2 DEF (+)
<1>4. QED
  BY <1>3 DEF IsABag

LEMMA SendBag ==
    ASSUME NEW b, NetOK(b), NEW out \in Outs
    PROVE  /\ NetOK(b (+) out)
           /\ BagToSet(b (+) out) \subseteq BagToSet(b) \cup BagToSet(out)
<1>1. CASE out = EmptyBag
  BY <1>1, NothingAdded DEF NetOK
<1>2. ASSUME NEW m \in Messages, out = One(m)
      PROVE  /\ NetOK(b (+) out)
             /\ BagToSet(b (+) out) \subseteq BagToSet(b) \cup BagToSet(out)
  BY <1>2, Added, SetOfOne DEF NetOK
<1>3. QED
  BY <1>1, <1>2 DEF Outs

LEMMA ExchangeBag ==
    ASSUME NetOK(net), NEW m, NEW out \in Outs, Exchange(m, out)
    PROVE  /\ NetOK(net')
           /\ BagToSet(net') \subseteq InFlight \cup BagToSet(out)
<1>1. NetOK(net (-) One(m)) /\ BagToSet(net (-) One(m)) \subseteq InFlight
  BY Removed DEF NetOK, InFlight
<1>2. QED
  BY <1>1, SendBag DEF Exchange

LEMMA OutTypes ==
    /\ EmptyBag \in Outs
    /\ \A t \in ToMaster \cup ToPeer : Plain(t) \in Messages /\ One(Plain(t)) \in Outs
    /\ \A t \in ToMaster \cup ToPeer, s \in Salts \cup {NoSalt} :
          Msg(t, s) \in Messages /\ One(Msg(t, s)) \in Outs
  BY DEF Outs, Plain, Msg, Messages

LEMMA PeerSends ==
    ASSUME TypeOK
    PROVE  Closing \in Outs /\ Retried \in Outs
<1>1. Closing \in Outs
  BY OutTypes DEF Closing, ToMaster
<1>2. Retried \in Outs
  <2>1. CASE status = "WAITING_AUTHORISATION"
    BY <2>1, OutTypes DEF Retried, ToMaster, TypeOK
  <2>2. CASE status # "WAITING_AUTHORISATION"
    BY <2>2, OutTypes DEF Retried, ToMaster, TypeOK
  <2>3. QED BY <2>1, <2>2
<1>3. QED
  BY <1>1, <1>2

-----------------------------------------------------------------------------
(* Types.                                                                   *)

States == {"WAITING_CONNECT", "WAITING_LOGIN", "WAITING_AUTHORISATION", "WAITING_CONFIG",
           "RUNNING"}

PeerTypes ==
    /\ status \in States
    /\ salt \in Salts \cup {NoSalt}
    /\ enabled \in BOOLEAN /\ hasStream \in BOOLEAN
    /\ retryOn \in BOOLEAN /\ timeoutOn \in BOOLEAN
    /\ missed \in 0..TimeoutRetries

ConnTypes ==
    conn \in [state : {"none", "WAITING_AUTHORISATION", "WAITING_CONFIG", "RUNNING"},
              salt : Salts \cup {NoSalt}, quiet : 0..QuietLimit]

RestTypes == due \in {"peer", "master"} /\ faults \in [Faults -> Nat]

LEMMA TypeParts == TypeOK <=> PeerTypes /\ ConnTypes /\ NetOK(net) /\ RestTypes
  BY DEF TypeOK, PeerTypes, ConnTypes, RestTypes, NetOK, Messages, States, InFlight

LEMMA NextTypeParts == TypeOK' <=> PeerTypes' /\ ConnTypes' /\ NetOK(net') /\ RestTypes'
  BY DEF TypeOK, PeerTypes, ConnTypes, RestTypes, NetOK, Messages, States, InFlight

LEMMA FreshCounts == 0 \in 0..TimeoutRetries /\ 0 \in 0..QuietLimit
  BY SessionAssumption

LEMMA FaultTypes ==
    ASSUME faults \in [Faults -> Nat], NEW f \in Faults, Fault(f)
    PROVE  /\ faults' \in [Faults -> Nat]
           /\ \A g \in Faults : faults'[g] <= faults[g]
           /\ faults'[f] < faults[f]
  BY DEF Fault

LEMMA ReopenTypes ==
    ASSUME PeerTypes, faults \in [Faults -> Nat], CloseAndOpen
    PROVE  PeerTypes' /\ faults' \in [Faults -> Nat]
<1>1. faults' \in [Faults -> Nat]
  BY FaultTypes DEF CloseAndOpen, Faults
<1>2. QED
  BY <1>1, FreshCounts DEF CloseAndOpen, PeerTypes, States

\* A message read by the peer changes the peer's state and the network only.
LEMMA PeerReadTypes ==
    ASSUME TypeOK, NEW m \in InFlight, PeerRead(m)
    PROVE  TypeOK'
<1>0. /\ PeerTypes /\ ConnTypes /\ NetOK(net) /\ RestTypes
      /\ m \in Messages /\ m.salt \in Salts \cup {NoSalt}
  BY TypeParts DEF NetOK, Messages, InFlight
<1>1. PICK out \in Outs : Exchange(m, out)
  <2>1. /\ IF hasStream THEN One(Msg("RPTK", m.salt)) \in Outs ELSE EmptyBag \in Outs
        /\ One(Plain("RPTC")) \in Outs
        /\ EmptyBag \in Outs
        /\ Closing \in Outs
    BY <1>0, OutTypes, PeerSends DEF ToMaster
  <2>2. QED
    BY <2>1 DEF PeerRead, PeerDeaf, PeerAckLogin, PeerAckAuthorisation, PeerAckConfig,
                PeerIgnores, PeerNakRunning, PeerNakOtherwise, PeerMasterClosing, PeerPong
<1>2. NetOK(net')
  BY <1>0, <1>1, ExchangeBag
<1>3. PeerTypes' /\ faults' \in [Faults -> Nat]
  <2>1. CASE PeerAckLogin(m) \/ PeerAckAuthorisation(m) \/ PeerAckConfig(m) \/ PeerNakRunning(m)
    BY <1>0, <2>1, FreshCounts
       DEF PeerAckLogin, PeerAckAuthorisation, PeerAckConfig, PeerNakRunning, StartTimers,
           PeerTypes, States, RestTypes
  <2>2. CASE PeerNakOtherwise(m) \/ PeerMasterClosing(m)
    BY <1>0, <2>2, ReopenTypes DEF PeerNakOtherwise, PeerMasterClosing, RestTypes
  <2>3. CASE PeerDeaf(m) \/ PeerIgnores(m) \/ PeerPong(m)
    BY <1>0, <2>3, FreshCounts
       DEF PeerDeaf, PeerIgnores, PeerPong, peerVars, PeerTypes, RestTypes
  <2>4. QED BY <2>1, <2>2, <2>3 DEF PeerRead
<1>4. UNCHANGED <<conn, due>>
  BY DEF PeerRead
<1>5. QED
  BY <1>0, <1>2, <1>3, <1>4, TypeParts, NextTypeParts DEF ConnTypes, RestTypes

LEMMA MasterReadTypes ==
    ASSUME TypeOK, NEW m \in InFlight, MasterRead(m)
    PROVE  TypeOK'
<1>0. /\ PeerTypes /\ ConnTypes /\ NetOK(net) /\ RestTypes
      /\ UNCHANGED <<peerVars, due, faults>>
  BY TypeParts DEF MasterRead
<1>1. ConnTypes' /\ \E out \in Outs : Exchange(m, out)
  <2>1. /\ \A s \in Salts : One(Msg("ACK", s)) \in Outs
        /\ One(Plain("ACK")) \in Outs
        /\ One(Plain("NAK")) \in Outs
        /\ One(Plain("PONG")) \in Outs
        /\ EmptyBag \in Outs
    BY OutTypes DEF ToPeer
  <2>2. NoConn \in [state : {"none", "WAITING_AUTHORISATION", "WAITING_CONFIG", "RUNNING"},
                    salt : Salts \cup {NoSalt}, quiet : 0..QuietLimit]
    BY FreshCounts DEF NoConn
  <2>3. CASE MasterLogin(m)
    BY <2>1, <2>3, FreshCounts DEF MasterLogin, ConnTypes
  <2>4. CASE MasterLoginAgain(m)
    BY <1>0, <2>1, <2>2, <2>4, FreshCounts DEF MasterLoginAgain, ConnTypes, Forgotten
  <2>5. CASE MasterAnswerRight(m) \/ MasterAnswerWrong(m) \/ MasterConfig(m)
    BY <1>0, <2>1, <2>5, FreshCounts
       DEF MasterAnswerRight, MasterAnswerWrong, MasterConfig, ConnTypes
  <2>6. CASE MasterOutOfTurn(m) \/ MasterPeerClosing(m)
    BY <1>0, <2>1, <2>2, <2>6 DEF MasterOutOfTurn, MasterPeerClosing, Forgotten, ConnTypes
  <2>7. CASE MasterPing(m)
    BY <1>0, <2>1, <2>7, FreshCounts DEF MasterPing, ConnTypes
  <2>8. QED BY <2>3, <2>4, <2>5, <2>6, <2>7 DEF MasterRead
<1>2. NetOK(net')
  BY <1>0, <1>1, ExchangeBag
<1>3. QED
  BY <1>0, <1>1, <1>2, TypeParts, NextTypeParts DEF peerVars, PeerTypes, RestTypes

LEMMA PeerPeriodTypes ==
    ASSUME TypeOK, PeerPeriod
    PROVE  TypeOK'
<1>0. /\ PeerTypes /\ ConnTypes /\ NetOK(net) /\ RestTypes
      /\ UNCHANGED <<conn, faults>> /\ due' = "master"
  BY TypeParts DEF PeerPeriod
<1>1. PeerTypes' /\ NetOK(net')
  <2>1. CASE PeerConnects
    <3>1. NetOK(net')
      BY <1>0, <2>1, OutTypes, SendBag DEF PeerConnects, ToMaster
    <3>2. QED BY <1>0, <2>1, <3>1, FreshCounts DEF PeerConnects, PeerTypes, States
  <2>2. CASE PeerRetries
    <3>1. NetOK(net')
      BY <1>0, <2>2, PeerSends, SendBag DEF PeerRetries
    <3>2. QED BY <1>0, <2>2, <3>1, SessionAssumption DEF PeerRetries, PeerTypes
  <2>3. CASE PeerIdles
    BY <1>0, <2>3 DEF PeerIdles, peerVars, PeerTypes
  <2>4. QED BY <2>1, <2>2, <2>3 DEF PeerPeriod
<1>2. QED
  BY <1>0, <1>1, TypeParts, NextTypeParts DEF ConnTypes, RestTypes

\* The ends of a peer's life: a timeout, a lockout, a restart.
LEMMA PeerEndTypes ==
    ASSUME TypeOK, PeerTimesOut \/ PeerLockedOut \/ PeerUnlocked \/ PeerStops \/ PeerCrashes
    PROVE  TypeOK'
<1>0. PeerTypes /\ ConnTypes /\ NetOK(net) /\ RestTypes
  BY TypeParts
<1>1. CASE PeerTimesOut
  <2>1. PeerTypes' /\ faults' \in [Faults -> Nat]
    BY <1>0, <1>1, ReopenTypes DEF PeerTimesOut, RestTypes
  <2>2. NetOK(net')
    BY <1>0, <1>1, PeerSends, SendBag DEF PeerTimesOut
  <2>3. QED BY <1>0, <1>1, <2>1, <2>2, NextTypeParts DEF PeerTimesOut, ConnTypes, RestTypes
<1>2. CASE PeerLockedOut \/ PeerUnlocked
  <2>1. faults' \in [Faults -> Nat]
    BY <1>0, <1>2, FaultTypes DEF PeerLockedOut, PeerUnlocked, Faults, RestTypes
  <2>2. QED
    BY <1>0, <1>2, <2>1, NextTypeParts
       DEF PeerLockedOut, PeerUnlocked, PeerTypes, ConnTypes, RestTypes
<1>3. ASSUME NEW out \in Outs, NEW f \in Faults, Fault(f), PeerRestarts(out)
      PROVE  TypeOK'
  <2>1. NetOK(net') /\ faults' \in [Faults -> Nat]
    BY <1>0, <1>3, SendBag, FaultTypes DEF PeerRestarts, RestTypes
  <2>2. PeerTypes'
    BY <1>3, FreshCounts DEF PeerRestarts, PeerTypes, States
  <2>3. QED BY <1>0, <1>3, <2>1, <2>2, NextTypeParts DEF PeerRestarts, ConnTypes, RestTypes
<1>4. QED
  BY <1>1, <1>2, <1>3, PeerSends, OutTypes DEF PeerStops, PeerCrashes, Faults

LEMMA MasterPeriodTypes ==
    ASSUME TypeOK, MasterPeriod
    PROVE  TypeOK'
<1>0. PeerTypes /\ ConnTypes /\ NetOK(net) /\ RestTypes
  BY TypeParts
<1>1. ConnTypes'
  BY <1>0, SessionAssumption DEF MasterPeriod, ConnTypes, NoConn
<1>2. QED
  BY <1>0, <1>1, NextTypeParts DEF MasterPeriod, peerVars, PeerTypes, RestTypes

LEMMA MasterEndTypes ==
    ASSUME TypeOK, MasterStops \/ MasterCrashes
    PROVE  TypeOK'
<1>0. PeerTypes /\ ConnTypes /\ NetOK(net) /\ RestTypes
  BY TypeParts
<1>1. PICK out \in Outs : MasterRestarts(out)
  BY OutTypes DEF MasterStops, MasterCrashes, ToPeer
<1>2. NetOK(net') /\ ConnTypes'
  BY <1>0, <1>1, SendBag, FreshCounts DEF MasterRestarts, ConnTypes, NoConn
<1>3. faults' \in [Faults -> Nat]
  BY <1>0, FaultTypes DEF MasterStops, MasterCrashes, Faults, RestTypes
<1>4. QED
  BY <1>0, <1>1, <1>2, <1>3, NextTypeParts DEF MasterRestarts, peerVars, PeerTypes, RestTypes

LEMMA NetworkTypes ==
    ASSUME TypeOK, NEW m \in InFlight, Lose(m) \/ Duplicate(m)
    PROVE  TypeOK'
<1>0. /\ PeerTypes /\ ConnTypes /\ NetOK(net) /\ RestTypes
      /\ m \in Messages
  BY TypeParts DEF NetOK, InFlight
<1>1. NetOK(net')
  <2>1. CASE Lose(m)
    BY <1>0, <2>1, OutTypes, ExchangeBag DEF Lose
  <2>2. CASE Duplicate(m)
    BY <1>0, <2>2, SendBag DEF Duplicate, Outs
  <2>3. QED BY <2>1, <2>2
<1>2. faults' \in [Faults -> Nat]
  BY <1>0, FaultTypes DEF Lose, Duplicate, Faults, RestTypes
<1>3. QED
  BY <1>0, <1>1, <1>2, NextTypeParts DEF Lose, Duplicate, peerVars, PeerTypes, ConnTypes, RestTypes

LEMMA InitTypes == Init => TypeOK
<1> SUFFICES ASSUME Init PROVE TypeOK
  OBVIOUS
<1>1. PeerTypes
  BY FreshCounts DEF Init, PeerTypes, States
<1>2. ConnTypes
  BY SessionAssumption DEF Init, ConnTypes, NoConn
<1>3. NetOK(net)
  BY DEF Init, NetOK, EmptyBag, SetToBag, IsABag, BagToSet
<1>4. RestTypes
  BY SessionAssumption DEF Init, RestTypes
<1>5. QED
  BY <1>1, <1>2, <1>3, <1>4, TypeParts

LEMMA NextTypes == TypeOK /\ [Next]_vars => TypeOK'
<1> SUFFICES ASSUME TypeOK, [Next]_vars PROVE TypeOK'
  OBVIOUS
<1>1. CASE UNCHANGED vars
  BY <1>1 DEF vars, peerVars, TypeOK, InFlight
<1>2. QED
  BY <1>1, PeerReadTypes, MasterReadTypes, PeerPeriodTypes, PeerEndTypes, MasterPeriodTypes,
     MasterEndTypes, NetworkTypes DEF Next

\* Every variable keeps its type: what is in flight is a message of the protocol with
\* a challenge of the master, and neither count of periods passes its limit.
THEOREM TypeCorrect == Spec => []TypeOK
  BY InitTypes, NextTypes, PTL DEF Spec

-----------------------------------------------------------------------------
(* The timers of the peer.                                                  *)

LEMMA NextTimed == WaitsAreTimed /\ [Next]_vars => WaitsAreTimed'
<1> SUFFICES ASSUME WaitsAreTimed, [Next]_vars PROVE WaitsAreTimed'
  OBVIOUS
<1> USE DEF WaitsAreTimed
<1>1. ASSUME NEW m, PeerRead(m) PROVE WaitsAreTimed'
  <2>1. CASE PeerAckLogin(m) \/ PeerAckAuthorisation(m) \/ PeerAckConfig(m) \/ PeerNakRunning(m)
    BY <2>1
       DEF PeerAckLogin, PeerAckAuthorisation, PeerAckConfig, PeerNakRunning, StartTimers
  <2>2. CASE PeerNakOtherwise(m) \/ PeerMasterClosing(m)
    BY <2>2 DEF PeerNakOtherwise, PeerMasterClosing, CloseAndOpen
  <2>3. CASE PeerDeaf(m) \/ PeerIgnores(m) \/ PeerPong(m)
    BY <2>3 DEF PeerDeaf, PeerIgnores, PeerPong, peerVars
  <2>4. QED BY <1>1, <2>1, <2>2, <2>3 DEF PeerRead
<1>2. CASE PeerPeriod
  BY <1>2 DEF PeerPeriod, PeerConnects, PeerRetries, PeerIdles, peerVars
<1>3. CASE PeerTimesOut \/ PeerLockedOut \/ PeerUnlocked \/ PeerStops \/ PeerCrashes
  BY <1>3 DEF PeerTimesOut, CloseAndOpen, PeerLockedOut, PeerUnlocked, PeerStops, PeerCrashes,
              PeerRestarts
<1>4. CASE UNCHANGED peerVars
  BY <1>4 DEF peerVars
<1>5. /\ \A m : MasterRead(m) \/ Lose(m) \/ Duplicate(m) => UNCHANGED peerVars
      /\ MasterPeriod \/ MasterStops \/ MasterCrashes \/ UNCHANGED vars => UNCHANGED peerVars
  BY DEF MasterRead, Lose, Duplicate, MasterPeriod, MasterStops, MasterCrashes, MasterRestarts,
         vars
<1>6. QED
  BY <1>1, <1>2, <1>3, <1>4, <1>5 DEF Next

\* Network::clock starts both timers whenever the peer begins to wait: it never waits
\* for the master without being able to repeat itself and to give up.
THEOREM WaitsHaveTimers == Spec => []WaitsAreTimed
<1>1. Init => WaitsAreTimed
  BY DEF Init, WaitsAreTimed
<1>2. QED
  BY <1>1, NextTimed, PTL DEF Spec

-----------------------------------------------------------------------------
(* Challenges and their answers.                                            *)

\* The answers in flight are to challenges that the peer has answered.
AnswersInv ==
    /\ ChallengeAnswered
    /\ \A m \in InFlight : m.type = "RPTK" => m.salt \in answered

\* A step that sends no new answer, or records it, and lets no new challenge pass.
LEMMA AnswersFrame ==
    ASSUME AnswersInv, answered \subseteq answered', NEW out,
           InFlight' \subseteq InFlight \cup BagToSet(out),
           \A m \in BagToSet(out) : m.type = "RPTK" => m.salt \in answered',
           conn'.state \in {"WAITING_CONFIG", "RUNNING"} => conn'.salt \in answered'
    PROVE  AnswersInv'
  BY DEF AnswersInv, ChallengeAnswered

LEMMA OutTexts ==
    /\ \A t, s : BagToSet(One(Msg(t, s))) = {Msg(t, s)}
    /\ \A t : BagToSet(One(Plain(t))) = {Plain(t)}
    /\ BagToSet(EmptyBag) = {}
    /\ \A t, s : Msg(t, s).type = t /\ Msg(t, s).salt = s
    /\ \A t : Plain(t).type = t
    /\ \A m \in BagToSet(Closing) : m.type = "RPT_CLOSING"
  BY SetOfOne DEF Plain, Msg, Closing

LEMMA PeerReadAnswers ==
    ASSUME TypeOK, AnswersInv, NEW m \in InFlight, PeerRead(m)
    PROVE  AnswersInv'
<1>0. NetOK(net) /\ m \in Messages /\ m.salt \in Salts \cup {NoSalt} /\ UNCHANGED conn
  BY TypeParts DEF NetOK, Messages, InFlight, PeerRead
<1>1. ASSUME NEW out \in Outs, Exchange(m, out), answered \subseteq answered',
             \A x \in BagToSet(out) : x.type = "RPTK" => x.salt \in answered'
      PROVE  AnswersInv'
  <2>1. InFlight' \subseteq InFlight \cup BagToSet(out)
    BY <1>0, <1>1, ExchangeBag DEF InFlight
  <2>2. QED
    BY <1>0, <1>1, <2>1, AnswersFrame DEF AnswersInv, ChallengeAnswered
<1>2. CASE PeerAckLogin(m)
  <2>1. CASE hasStream
    <3>1. Exchange(m, One(Msg("RPTK", m.salt))) /\ answered' = answered \cup {m.salt}
      BY <1>2, <2>1 DEF PeerAckLogin
    <3>2. One(Msg("RPTK", m.salt)) \in Outs
      BY <1>0, OutTypes DEF ToMaster
    <3>3. QED BY <1>1, <3>1, <3>2, OutTexts
  <2>2. CASE ~hasStream
    <3>1. Exchange(m, EmptyBag) /\ answered' = answered
      BY <1>2, <2>2 DEF PeerAckLogin
    <3>2. QED BY <1>1, <3>1, OutTypes, OutTexts
  <2>3. QED BY <2>1, <2>2
<1>3. CASE PeerAckAuthorisation(m)
  <2>1. (Exchange(m, One(Plain("RPTC"))) \/ Exchange(m, EmptyBag)) /\ answered' = answered
    BY <1>3 DEF PeerAckAuthorisation
  <2>2. One(Plain("RPTC")) \in Outs /\ EmptyBag \in Outs
    BY OutTypes DEF ToMaster
  <2>3. QED BY <1>1, <2>1, <2>2, OutTexts
<1>4. CASE PeerMasterClosing(m)
  <2>1. Exchange(m, Closing) /\ answered' = answered
    BY <1>4 DEF PeerMasterClosing, CloseAndOpen
  <2>2. QED BY <1>1, <2>1, PeerSends, OutTexts
<1>5. CASE \/ PeerAckConfig(m) \/ PeerNakRunning(m) \/ PeerNakOtherwise(m)
           \/ PeerDeaf(m) \/ PeerIgnores(m) \/ PeerPong(m)
  <2>1. Exchange(m, EmptyBag) /\ answered' = answered
    BY <1>5 DEF PeerAckConfig, PeerNakRunning, PeerNakOtherwise, CloseAndOpen, PeerDeaf,
                PeerIgnores, PeerPong, history
  <2>2. QED BY <1>1, <2>1, OutTypes, OutTexts
<1>6. QED
  BY <1>2, <1>3, <1>4, <1>5 DEF PeerRead

\* The master sends no answers, and goes past a challenge only on an answer to it.
LEMMA MasterReadAnswers ==
    ASSUME TypeOK, AnswersInv, NEW m \in InFlight, MasterRead(m)
    PROVE  AnswersInv'
<1>0. ConnTypes /\ NetOK(net)
  BY TypeParts
<1>1. PICK out \in Outs : Exchange(m, out) /\ \A x \in BagToSet(out) : x.type # "RPTK"
  <2>1. /\ \A s \in Salts : One(Msg("ACK", s)) \in Outs
        /\ One(Plain("ACK")) \in Outs /\ One(Plain("NAK")) \in Outs /\ One(Plain("PONG")) \in Outs
        /\ EmptyBag \in Outs
    BY OutTypes DEF ToPeer
  <2>2. QED
    BY <2>1, OutTexts
       DEF MasterRead, MasterLogin, MasterLoginAgain, MasterAnswerRight, MasterAnswerWrong,
           MasterConfig, MasterOutOfTurn, MasterPeerClosing, MasterPing
<1>2. answered' = answered
  BY DEF MasterRead, MasterLogin, MasterLoginAgain, MasterAnswerRight, MasterAnswerWrong,
         MasterConfig, MasterOutOfTurn, MasterPeerClosing, MasterPing, history
<1>3. conn'.state \in {"WAITING_CONFIG", "RUNNING"} => conn'.salt \in answered
  <2>1. CASE MasterAnswerRight(m)
    BY <1>0, <2>1 DEF MasterAnswerRight, ConnTypes, AnswersInv
  <2>2. CASE MasterLogin(m) \/ MasterOutOfTurn(m)
    BY <2>2 DEF MasterLogin, MasterOutOfTurn, Forgotten, NoConn
  <2>3. CASE MasterLoginAgain(m) \/ MasterPeerClosing(m)
    BY <1>0, <2>3
       DEF MasterLoginAgain, MasterPeerClosing, Forgotten, NoConn, ConnTypes, AnswersInv,
           ChallengeAnswered
  <2>4. CASE MasterAnswerWrong(m) \/ MasterConfig(m) \/ MasterPing(m)
    BY <1>0, <2>4
       DEF MasterAnswerWrong, MasterConfig, MasterPing, ConnTypes, AnswersInv, ChallengeAnswered
  <2>5. QED BY <2>1, <2>2, <2>3, <2>4 DEF MasterRead
<1>4. InFlight' \subseteq InFlight \cup BagToSet(out)
  BY <1>0, <1>1, ExchangeBag DEF InFlight
<1>5. QED
  BY <1>1, <1>2, <1>3, <1>4, AnswersFrame

LEMMA OtherAnswers ==
    ASSUME TypeOK, AnswersInv, [Next]_vars,
           ~\E m \in InFlight : PeerRead(m) \/ MasterRead(m)
    PROVE  AnswersInv'
<1>0. NetOK(net) /\ ConnTypes /\ PeerTypes
  BY TypeParts
<1>1. ASSUME NEW out \in Outs, answered \subseteq answered',
             net' = net (+) out \/ \E m \in InFlight : Exchange(m, out),
             \A x \in BagToSet(out) : x.type = "RPTK" => x.salt \in answered',
             conn' = conn \/ conn' = NoConn \/ MasterPeriod
      PROVE  AnswersInv'
  <2>1. InFlight' \subseteq InFlight \cup BagToSet(out)
    BY <1>0, <1>1, SendBag, ExchangeBag DEF InFlight
  <2>2. conn'.state \in {"WAITING_CONFIG", "RUNNING"} => conn'.salt \in answered'
    BY <1>0, <1>1 DEF AnswersInv, ChallengeAnswered, NoConn, MasterPeriod, ConnTypes
  <2>3. QED
    BY <1>1, <2>1, <2>2, AnswersFrame
<1>2. EmptyBag \in Outs /\ BagToSet(EmptyBag) = {} /\ net (+) EmptyBag = net
  BY <1>0, OutTypes, OutTexts, NothingAdded DEF NetOK
<1>3. CASE PeerPeriod
  <2>1. CASE PeerConnects
    <3>1. net' = net (+) One(Plain("RPTL")) /\ One(Plain("RPTL")) \in Outs
      BY <2>1, OutTypes DEF PeerConnects, ToMaster
    <3>2. QED BY <1>1, <1>3, <2>1, <3>1, OutTexts DEF PeerPeriod, PeerConnects
  <2>2. CASE PeerRetries
    <3>1. net' = net (+) Retried /\ Retried \in Outs /\ answered \subseteq answered'
      BY <2>2, PeerSends DEF PeerRetries
    <3>2. \A x \in BagToSet(Retried) : x.type = "RPTK" => x.salt \in answered'
      <4>1. CASE status = "WAITING_AUTHORISATION" /\ hasStream
        BY <2>2, <4>1, OutTexts DEF PeerRetries, Retried
      <4>2. CASE ~(status = "WAITING_AUTHORISATION" /\ hasStream)
        BY <1>0, <4>2, OutTexts DEF Retried, PeerTypes, States
      <4>3. QED BY <4>1, <4>2
    <3>3. QED BY <1>1, <1>3, <3>1, <3>2 DEF PeerPeriod
  <2>3. CASE PeerIdles
    BY <1>1, <1>2, <1>3, <2>3 DEF PeerPeriod, PeerIdles, history
  <2>4. QED BY <1>3, <2>1, <2>2, <2>3 DEF PeerPeriod
<1>4. CASE PeerTimesOut \/ PeerStops
  <2>1. net' = net (+) Closing /\ answered' = answered /\ conn' = conn
    BY <1>4 DEF PeerTimesOut, CloseAndOpen, PeerStops, PeerRestarts, history
  <2>2. QED BY <1>1, <2>1, PeerSends, OutTexts
<1>5. CASE \/ PeerLockedOut \/ PeerUnlocked \/ PeerCrashes \/ MasterPeriod \/ MasterCrashes
           \/ UNCHANGED vars
  <2>1. /\ net' = net (+) EmptyBag /\ answered' = answered
        /\ conn' = conn \/ conn' = NoConn \/ MasterPeriod
    BY <1>2, <1>5 DEF PeerLockedOut, PeerUnlocked, PeerCrashes, PeerRestarts, MasterPeriod,
                      MasterCrashes, MasterRestarts, vars, history
  <2>2. QED BY <1>1, <1>2, <2>1
<1>6. CASE MasterStops
  <2>1. PICK out \in {One(Plain("MST_CLOSING")), EmptyBag} : net' = net (+) out
    BY <1>6 DEF MasterStops, MasterRestarts
  <2>2. answered' = answered /\ conn' = NoConn
    BY <1>6 DEF MasterStops, MasterRestarts, history
  <2>3. One(Plain("MST_CLOSING")) \in Outs
    BY OutTypes DEF ToPeer
  <2>4. QED BY <1>1, <1>2, <2>1, <2>2, <2>3, OutTexts
<1>7. ASSUME NEW m \in InFlight, Lose(m) PROVE AnswersInv'
  BY <1>1, <1>2, <1>7 DEF Lose, history
<1>8. ASSUME NEW m \in InFlight, Duplicate(m) PROVE AnswersInv'
  <2>1. One(m) \in Outs /\ BagToSet(One(m)) = {m}
    BY <1>0, SetOfOne DEF NetOK, InFlight, Outs
  <2>2. QED BY <1>1, <1>8, <2>1 DEF Duplicate, history, AnswersInv
<1>9. QED
  BY <1>3, <1>4, <1>5, <1>6, <1>7, <1>8 DEF Next

\* Whatever is lost, duplicated, delayed or restarted, the master goes past a challenge
\* only if its peer has answered that very challenge: the salt of FNEPeerConnection.
THEOREM ChallengesAreAnswered == Spec => []ChallengeAnswered
<1>1. Init => TypeOK /\ AnswersInv
  BY InitTypes, SetOfOne DEF Init, AnswersInv, ChallengeAnswered, NoConn, InFlight
<1>2. TypeOK /\ AnswersInv /\ [Next]_vars => TypeOK' /\ AnswersInv'
  BY NextTypes, PeerReadAnswers, MasterReadAnswers, OtherAnswers
<1>3. TypeOK /\ AnswersInv => ChallengeAnswered
  BY DEF AnswersInv
<1>4. QED
  BY <1>1, <1>2, <1>3, PTL DEF Spec

-----------------------------------------------------------------------------
(* The login on a prompt network that duplicates nothing.  The protocol has *)
(* no sequence numbers, and an ACK does not say what it acknowledges: what  *)
(* keeps the two ends together is that they take turns.                     *)

Talk == {"RPTL", "RPTK", "RPTC", "PING", "ACK", "NAK", "PONG"}
Quiet(b) == \A m \in BagToSet(b) : m.type \notin Talk

\* One message of the exchange is in flight at most, and once.
AloneIn(b) == \A m, n \in BagToSet(b) : m.type \in Talk /\ n.type \in Talk => m = n /\ b[m] = 1

\* What a message in flight says of its sender's or its receiver's state.
InTurn(m) ==
    /\ m.type = "RPTL" => status \in {"WAITING_LOGIN", "WAITING_CONNECT"}
    /\ m.type = "RPTK" => status \in {"WAITING_AUTHORISATION", "WAITING_CONNECT"}
    /\ m.type = "RPTC" => status \in {"WAITING_CONFIG", "WAITING_CONNECT"}
    /\ m.type = "ACK" /\ status = "WAITING_CONFIG" => accepted
    /\ m.type \in {"RPTL", "ACK"} /\ status = "WAITING_LOGIN" => hasStream

LoginInv ==
    /\ AloneIn(net)
    /\ \A m \in InFlight : InTurn(m)
    /\ LoginHasStream
    /\ LoggedInMeansAccepted

LEMMA AloneSends ==
    ASSUME NEW b, IsABag(b), NEW out \in Outs, AloneIn(b), Quiet(b) \/ Quiet(out)
    PROVE  AloneIn(b (+) out)
<1>1. CASE out = EmptyBag
  BY <1>1, NothingAdded
<1>2. ASSUME NEW x \in Messages, out = One(x)
      PROVE  AloneIn(b (+) out)
  <2>1. /\ BagToSet(out) = {x}
        /\ BagToSet(b (+) out) = BagToSet(b) \cup {x}
        /\ \A y \in BagToSet(b) \ {x} : (b (+) out)[y] = b[y]
        /\ x \notin BagToSet(b) => (b (+) out)[x] = 1
    BY <1>2, Added, SetOfOne
  <2>2. QED
    BY <2>1 DEF AloneIn, Quiet
<1>3. QED
  BY <1>1, <1>2 DEF Outs

\* Taking a message of the exchange leaves none.
LEMMA AloneExchanges ==
    ASSUME NetOK(net), AloneIn(net), NEW m \in InFlight, NEW out \in Outs, Exchange(m, out),
           m.type \in Talk \/ Quiet(out)
    PROVE  /\ AloneIn(net')
           /\ \A y \in BagToSet(net') : y.type \in Talk =>
                 y \in BagToSet(out) \/ (y \in InFlight /\ m.type \notin Talk)
<1> DEFINE r == net (-) One(m)
<1>1. /\ IsABag(r) /\ NetOK(r)
      /\ BagToSet(r) \subseteq InFlight
      /\ \A y \in BagToSet(r) : r[y] <= net[y] /\ (y = m => net[y] > 1)
  BY Removed DEF NetOK, InFlight
<1>2. net' = r (+) out
  BY DEF Exchange
<1>3. \A y \in BagToSet(r) : r[y] \in Nat /\ r[y] > 0
  BY <1>1 DEF IsABag, BagToSet
<1> HIDE DEF r
<1>4. AloneIn(r)
  BY <1>1, <1>3 DEF AloneIn, InFlight
<1>5. m.type \in Talk => Quiet(r)
  BY <1>1 DEF AloneIn, Quiet, InFlight
<1>6. AloneIn(net')
  BY <1>1, <1>2, <1>4, <1>5, AloneSends
<1>7. BagToSet(net') \subseteq BagToSet(r) \cup BagToSet(out)
  BY <1>1, <1>2, SendBag
<1>8. QED
  BY <1>1, <1>5, <1>6, <1>7 DEF Quiet

\* A message outside the exchange says nothing of its ends.
LEMMA InTurnOnlyTalk ==
    ASSUME NEW m, m.type \notin Talk
    PROVE  InTurn(m) /\ InTurn(m)'
  BY DEF InTurn, Talk

LEMMA PeerReadLogin ==
    ASSUME TypeOK, LoginInv, NEW m \in InFlight, PeerRead(m)
    PROVE  LoginInv'
<1>0. NetOK(net) /\ m \in Messages /\ m.type \in ToPeer /\ m.salt \in Salts \cup {NoSalt}
  BY TypeParts DEF NetOK, Messages, InFlight, PeerRead
<1>1. ASSUME NEW out \in Outs, Exchange(m, out), m.type \in Talk \/ Quiet(out),
             \A y \in BagToSet(out) : InTurn(y)',
             m.type \in Talk \/ \A y \in InFlight : InTurn(y)',
             LoginHasStream', LoggedInMeansAccepted'
      PROVE  LoginInv'
  <2>1. /\ AloneIn(net')
        /\ \A y \in InFlight' : y.type \in Talk =>
              y \in BagToSet(out) \/ (y \in InFlight /\ m.type \notin Talk)
    BY <1>0, <1>1, AloneExchanges DEF LoginInv, InFlight
  <2>2. ASSUME NEW y \in InFlight' PROVE InTurn(y)'
    BY <1>1, <2>1, <2>2, InTurnOnlyTalk
  <2>3. QED
    BY <1>1, <2>1, <2>2 DEF LoginInv
<1>2. CASE PeerAckLogin(m)
  <2>1. hasStream /\ m.type \in Talk
    BY <1>2 DEF LoginInv, InTurn, PeerAckLogin, Talk
  <2>2. Exchange(m, One(Msg("RPTK", m.salt))) /\ One(Msg("RPTK", m.salt)) \in Outs
    BY <1>0, <1>2, <2>1, OutTypes DEF PeerAckLogin, ToMaster
  <2>3. InTurn(Msg("RPTK", m.salt))'
    BY <1>2, OutTexts DEF PeerAckLogin, InTurn
  <2>4. LoginHasStream' /\ LoggedInMeansAccepted'
    BY <1>2, <2>1 DEF PeerAckLogin, LoginHasStream, LoggedInMeansAccepted
  <2>5. QED BY <1>1, <2>1, <2>2, <2>3, <2>4, OutTexts
<1>3. CASE PeerAckAuthorisation(m)
  <2>1. hasStream /\ m.type \in Talk
    BY <1>3 DEF LoginInv, LoginHasStream, PeerAckAuthorisation, Talk
  <2>2. Exchange(m, One(Plain("RPTC"))) /\ One(Plain("RPTC")) \in Outs
    BY <1>3, <2>1, OutTypes DEF PeerAckAuthorisation, ToMaster
  <2>3. InTurn(Plain("RPTC"))'
    BY <1>3, OutTexts DEF PeerAckAuthorisation, InTurn
  <2>4. LoginHasStream' /\ LoggedInMeansAccepted'
    BY <1>3, <2>1 DEF PeerAckAuthorisation, LoginHasStream, LoggedInMeansAccepted
  <2>5. QED BY <1>1, <2>1, <2>2, <2>3, <2>4, OutTexts
<1>4. CASE PeerAckConfig(m) \/ PeerNakRunning(m) \/ PeerIgnores(m) \/ PeerPong(m)
  <2>1. m.type \in Talk /\ Exchange(m, EmptyBag)
    BY <1>4 DEF PeerAckConfig, PeerNakRunning, PeerIgnores, PeerPong, Talk
  <2>2. LoginHasStream' /\ LoggedInMeansAccepted'
    BY <1>4 DEF LoginInv, InTurn, PeerAckConfig, PeerNakRunning, PeerIgnores, PeerPong, peerVars,
                history, LoginHasStream, LoggedInMeansAccepted
  <2>3. QED BY <1>1, <2>1, <2>2, OutTypes, OutTexts
<1>5. CASE PeerNakOtherwise(m) \/ PeerMasterClosing(m)
  <2>1. PICK out \in {EmptyBag, Closing} : Exchange(m, out)
    BY <1>5 DEF PeerNakOtherwise, PeerMasterClosing
  <2>2. out \in Outs /\ Quiet(out)
    BY <2>1, OutTypes, PeerSends, OutTexts DEF Quiet, Talk
  <2>3. status' = "WAITING_CONNECT"
    BY <1>5 DEF PeerNakOtherwise, PeerMasterClosing, CloseAndOpen
  <2>4. (\A y : InTurn(y)') /\ LoginHasStream' /\ LoggedInMeansAccepted'
    BY <2>3 DEF InTurn, LoginHasStream, LoggedInMeansAccepted
  <2>5. QED BY <1>1, <2>1, <2>2, <2>4
<1>6. CASE PeerDeaf(m)
  <2>1. /\ Exchange(m, EmptyBag) /\ Quiet(EmptyBag)
        /\ UNCHANGED <<status, hasStream, accepted>>
    BY <1>6, OutTexts DEF PeerDeaf, peerVars, history, Quiet
  <2>2. (\A y \in InFlight : InTurn(y)') /\ LoginHasStream' /\ LoggedInMeansAccepted'
    BY <2>1 DEF LoginInv, InTurn, LoginHasStream, LoggedInMeansAccepted
  <2>3. QED BY <1>1, <2>1, <2>2, OutTypes, OutTexts
<1>7. QED
  BY <1>2, <1>3, <1>4, <1>5, <1>6 DEF PeerRead

LEMMA MasterReadLogin ==
    ASSUME TypeOK, LoginInv, NEW m \in InFlight, MasterRead(m)
    PROVE  LoginInv'
<1>0. NetOK(net) /\ m.type \in ToMaster /\ UNCHANGED <<status, hasStream>> /\ InTurn(m)
  BY TypeParts DEF MasterRead, peerVars, LoginInv
<1>1. ASSUME NEW out \in Outs, Exchange(m, out), m.type \in Talk \/ Quiet(out),
             \A y \in BagToSet(out) : InTurn(y)',
             accepted => accepted'
      PROVE  LoginInv'
  <2>1. /\ AloneIn(net')
        /\ \A y \in InFlight' : y.type \in Talk =>
              y \in BagToSet(out) \/ (y \in InFlight /\ m.type \notin Talk)
    BY <1>0, <1>1, AloneExchanges DEF LoginInv, InFlight
  <2>2. \A y \in InFlight : InTurn(y)'
    BY <1>0, <1>1 DEF LoginInv, InTurn
  <2>3. ASSUME NEW y \in InFlight' PROVE InTurn(y)'
    BY <1>1, <2>1, <2>2, <2>3, InTurnOnlyTalk
  <2>4. LoginHasStream' /\ LoggedInMeansAccepted'
    BY <1>0, <1>1 DEF LoginInv, LoginHasStream, LoggedInMeansAccepted
  <2>5. QED
    BY <2>1, <2>3, <2>4 DEF LoginInv
<1>2. CASE MasterLogin(m) \/ MasterAnswerRight(m) \/ MasterConfig(m)
  <2>1. PICK s \in Salts \cup {NoSalt} : Exchange(m, One(Msg("ACK", s)))
    BY <1>2 DEF MasterLogin, MasterAnswerRight, MasterConfig, Plain
  <2>2. One(Msg("ACK", s)) \in Outs
    BY OutTypes DEF ToPeer
  <2>3. m.type \in {"RPTL", "RPTK", "RPTC"} /\ (accepted => accepted')
    BY <1>2 DEF MasterLogin, MasterAnswerRight, MasterConfig, history
  <2>4. InTurn(Msg("ACK", s))'
    BY <1>0, <1>2, OutTexts DEF MasterLogin, MasterAnswerRight, MasterConfig, InTurn
  <2>5. QED BY <1>1, <2>1, <2>2, <2>3, <2>4, OutTexts DEF Talk
<1>3. CASE MasterLoginAgain(m) \/ MasterAnswerWrong(m) \/ MasterOutOfTurn(m) \/ MasterPing(m)
  <2>1. /\ m.type \in Talk /\ accepted' = accepted
        /\ \/ Exchange(m, One(Plain("NAK")))
           \/ Exchange(m, One(Plain("PONG")))
           \/ Exchange(m, EmptyBag)
    BY <1>3 DEF MasterLoginAgain, MasterAnswerWrong, MasterOutOfTurn, MasterPing, Talk, history
  <2>2. /\ One(Plain("NAK")) \in Outs /\ One(Plain("PONG")) \in Outs /\ EmptyBag \in Outs
        /\ InTurn(Plain("NAK"))' /\ InTurn(Plain("PONG"))'
    BY OutTypes, OutTexts DEF ToPeer, InTurn
  <2>3. QED BY <1>1, <2>1, <2>2, OutTexts
<1>4. CASE MasterPeerClosing(m)
  <2>1. Exchange(m, EmptyBag) /\ accepted' = accepted
    BY <1>4 DEF MasterPeerClosing, history
  <2>2. QED BY <1>1, <2>1, OutTypes, OutTexts DEF Quiet
<1>5. QED
  BY <1>2, <1>3, <1>4 DEF MasterRead

LEMMA PeerPeriodLogin ==
    ASSUME Prompt, TypeOK, LoginInv, PeerPeriod
    PROVE  LoginInv'
<1>0. NetOK(net)
  BY TypeParts
<1>1. ASSUME enabled, NEW out \in Outs, net' = net (+) out, \A y \in BagToSet(out) : InTurn(y)'
      PROVE  AloneIn(net') /\ \A y \in InFlight' : InTurn(y)'
  <2>1. BagToSet(net) = {} /\ Quiet(net)
    BY <1>1, OutTexts DEF PeerPeriod, Quiet
  <2>2. AloneIn(net')
    BY <1>0, <1>1, <2>1, AloneSends DEF LoginInv, NetOK
  <2>3. InFlight' \subseteq BagToSet(out)
    BY <1>0, <1>1, <2>1, SendBag DEF InFlight
  <2>4. QED BY <1>1, <2>2, <2>3
<1>2. CASE PeerConnects
  <2>1. InTurn(Plain("RPTL"))' /\ One(Plain("RPTL")) \in Outs
    BY <1>2, OutTypes, OutTexts DEF PeerConnects, InTurn, ToMaster
  <2>2. AloneIn(net') /\ \A y \in InFlight' : InTurn(y)'
    BY <1>1, <1>2, <2>1, OutTexts DEF PeerConnects
  <2>3. LoginHasStream' /\ LoggedInMeansAccepted'
    BY <1>2 DEF PeerConnects, LoginHasStream, LoggedInMeansAccepted
  <2>4. QED BY <2>2, <2>3 DEF LoginInv
<1>3. CASE PeerRetries
  <2>1. ASSUME NEW y \in BagToSet(Retried) PROVE InTurn(y)'
    <3>0. status' = status /\ (status = "WAITING_LOGIN" => hasStream')
      BY <1>3 DEF PeerRetries
    <3>1. CASE status = "WAITING_LOGIN"
      <4>1. y.type = "RPTL"
        BY <2>1, <3>1, OutTexts DEF Retried
      <4>2. QED BY <3>0, <3>1, <4>1 DEF InTurn
    <3>2. CASE status = "WAITING_AUTHORISATION"
      <4>1. y.type = "RPTK"
        BY <2>1, <3>2, OutTexts DEF Retried
      <4>2. QED BY <3>0, <3>2, <4>1 DEF InTurn
    <3>3. CASE status = "WAITING_CONFIG"
      <4>1. y.type = "RPTC"
        BY <2>1, <3>3, OutTexts DEF Retried
      <4>2. QED BY <3>0, <3>3, <4>1 DEF InTurn
    <3>4. CASE status \in {"WAITING_CONNECT", "RUNNING"}
      <4>1. y.type = "PING"
        BY <2>1, <3>4, OutTexts DEF Retried
      <4>2. QED BY <4>1 DEF InTurn
    <3>5. QED BY <3>1, <3>2, <3>3, <3>4, TypeParts DEF PeerTypes, States
  <2>2. AloneIn(net') /\ \A y \in InFlight' : InTurn(y)'
    BY <1>1, <1>3, <2>1, PeerSends DEF PeerRetries
  <2>3. LoginHasStream' /\ LoggedInMeansAccepted'
    BY <1>3 DEF LoginInv, PeerRetries, LoginHasStream, LoggedInMeansAccepted
  <2>4. QED BY <2>2, <2>3 DEF LoginInv
<1>4. CASE PeerIdles
  BY <1>4 DEF LoginInv, PeerIdles, peerVars, history, InFlight, InTurn, LoginHasStream,
              LoggedInMeansAccepted
<1>5. QED
  BY <1>2, <1>3, <1>4 DEF PeerPeriod

\* Farewells are not messages of the exchange, and a peer that has said one is out of it.
LEMMA EndLogin ==
    ASSUME TypeOK, LoginInv, PeerTimesOut \/ PeerStops \/ PeerCrashes \/ MasterStops \/ MasterCrashes
    PROVE  LoginInv'
<1>0. NetOK(net)
  BY TypeParts
<1>1. ASSUME NEW out \in Outs, net' = net (+) out, Quiet(out),
             status' = "WAITING_CONNECT" \/ UNCHANGED <<status, hasStream, accepted>>
      PROVE  LoginInv'
  <2>1. AloneIn(net')
    BY <1>0, <1>1, AloneSends DEF LoginInv, NetOK
  <2>2. InFlight' \subseteq InFlight \cup BagToSet(out)
    BY <1>0, <1>1, SendBag DEF InFlight
  <2>3. \A y \in InFlight : InTurn(y)'
    BY <1>1 DEF LoginInv, InTurn
  <2>4. ASSUME NEW y \in InFlight' PROVE InTurn(y)'
    BY <1>1, <2>2, <2>3, <2>4, InTurnOnlyTalk DEF Quiet
  <2>5. LoginHasStream' /\ LoggedInMeansAccepted'
    BY <1>1 DEF LoginInv, LoginHasStream, LoggedInMeansAccepted
  <2>6. QED BY <2>1, <2>4, <2>5 DEF LoginInv
<1>2. /\ EmptyBag \in Outs /\ Quiet(EmptyBag)
      /\ Closing \in Outs /\ Quiet(Closing)
      /\ One(Plain("MST_CLOSING")) \in Outs /\ Quiet(One(Plain("MST_CLOSING")))
  BY OutTypes, OutTexts, PeerSends DEF ToPeer, Quiet, Talk
<1>3. CASE PeerTimesOut \/ PeerStops \/ PeerCrashes
  <2>1. /\ net' = net (+) Closing \/ net' = net (+) EmptyBag
        /\ status' = "WAITING_CONNECT"
    BY <1>3 DEF PeerTimesOut, CloseAndOpen, PeerStops, PeerCrashes, PeerRestarts
  <2>2. QED BY <1>1, <1>2, <2>1
<1>4. CASE MasterStops \/ MasterCrashes
  <2>1. /\ net' = net (+) One(Plain("MST_CLOSING")) \/ net' = net (+) EmptyBag
        /\ UNCHANGED <<status, hasStream, accepted>>
    BY <1>4 DEF MasterStops, MasterCrashes, MasterRestarts, peerVars, history
  <2>2. QED BY <1>1, <1>2, <2>1
<1>5. QED
  BY <1>3, <1>4

LEMMA LoseLogin ==
    ASSUME TypeOK, LoginInv, NEW m \in InFlight, Lose(m)
    PROVE  LoginInv'
<1>0. NetOK(net) /\ Exchange(m, EmptyBag) /\ UNCHANGED <<status, hasStream, accepted>>
  BY TypeParts DEF Lose, peerVars, history
<1>1. AloneIn(net')
  BY <1>0, OutTypes, OutTexts, AloneExchanges DEF LoginInv, Quiet
<1>2. InFlight' \subseteq InFlight
  BY <1>0, OutTypes, OutTexts, ExchangeBag DEF InFlight
<1>3. QED
  BY <1>0, <1>1, <1>2 DEF LoginInv, InTurn, LoginHasStream, LoggedInMeansAccepted

\* The network never duplicates a message if it is not allowed to.
NoDuplicates == faults["dup"] = 0

LEMMA NextLogin ==
    ASSUME Prompt, TypeOK, LoginInv, NoDuplicates, [Next]_vars
    PROVE  LoginInv' /\ NoDuplicates'
<1>0. faults \in [Faults -> Nat] /\ faults' \in [Faults -> Nat] /\ "dup" \in Faults
  BY NextTypes, TypeParts, NextTypeParts DEF RestTypes, Faults
<1>1. (\E f \in Faults : Fault(f)) \/ UNCHANGED faults
  BY DEF Next, PeerRead, PeerDeaf, PeerAckLogin, PeerAckAuthorisation, PeerAckConfig, PeerIgnores,
         PeerNakRunning, PeerNakOtherwise, PeerMasterClosing, PeerPong, CloseAndOpen, MasterRead,
         Lose, Duplicate, PeerPeriod, PeerTimesOut, PeerLockedOut, PeerUnlocked, PeerStops,
         PeerCrashes, MasterPeriod, MasterStops, MasterCrashes, vars, Faults
<1>2. NoDuplicates'
  BY <1>0, <1>1, FaultTypes DEF NoDuplicates
<1>3. \A m \in InFlight : ~Duplicate(m)
  BY DEF Duplicate, Fault, NoDuplicates
<1>4. CASE PeerLockedOut \/ PeerUnlocked \/ MasterPeriod \/ UNCHANGED vars
  <2>1. UNCHANGED <<net, status, hasStream, accepted>>
    BY <1>4 DEF PeerLockedOut, PeerUnlocked, MasterPeriod, vars, peerVars, history
  <2>2. QED
    BY <1>2, <2>1 DEF LoginInv, InFlight, InTurn, LoginHasStream, LoggedInMeansAccepted
<1>5. QED
  BY <1>2, <1>3, <1>4, PeerReadLogin, MasterReadLogin, PeerPeriodLogin, EndLogin, LoseLogin
     DEF Next

\* Why the run on a prompt network holds, for every bound of it.  The lemmas below assume
\* that each message is read before the next timer expires and that none is duplicated
\* (Prompt, MayFail["dup"] = 0).  UDP promises neither, and FNENetwork.cpp and Network.cpp
\* do nothing to get it: on a network that delays or duplicates an ACK all three are
\* false.  On a prompt network the two ends take turns, whatever is lost, restarted,
\* locked out or not found: one message of the exchange is in flight at most, and it
\* fits the state of the peer.
LEMMA TheyTakeTurns ==
    ASSUME Prompt, MayFail["dup"] = 0
    PROVE  Spec => []LoginInv
<1>1. Init => TypeOK /\ LoginInv /\ NoDuplicates
  BY InitTypes, OutTexts
     DEF Init, LoginInv, AloneIn, InFlight, LoginHasStream, LoggedInMeansAccepted, NoDuplicates
<1>2. TypeOK /\ LoginInv /\ NoDuplicates /\ [Next]_vars => TypeOK' /\ LoginInv' /\ NoDuplicates'
  BY NextTypes, NextLogin
<1>3. QED
  BY <1>1, <1>2, PTL DEF Spec

\* On such a network only: the ACK that makes the peer run ("Logged into the master
\* successfully") is that of its configuration, though nothing in it says so.
LEMMA RunningIsAccepted ==
    ASSUME Prompt, MayFail["dup"] = 0
    PROVE  Spec => []LoggedInMeansAccepted
<1>1. LoginInv => LoggedInMeansAccepted
  BY DEF LoginInv
<1>2. QED
  BY <1>1, TheyTakeTurns, PTL

\* On such a network only: "BUGBUG: tried to write network authorisation with no stream
\* ID?" is never logged, as a login begun after a NAK has its stream before it can be
\* acknowledged.
LEMMA LoginsHaveStreams ==
    ASSUME Prompt, MayFail["dup"] = 0
    PROVE  Spec => []LoginHasStream
<1>1. LoginInv => LoginHasStream
  BY DEF LoginInv
<1>2. QED
  BY <1>1, TheyTakeTurns, PTL

=============================================================================
