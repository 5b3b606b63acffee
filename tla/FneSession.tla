------------------------------ MODULE FneSession ------------------------------
(***************************************************************************)
(* The session between a host and its master, the FNE, over UDP: the login *)
(* exchange, the keep-alive and what ends a session                        *)
(* (src/host/network/Network.cpp, src/fne/network/FNENetwork.cpp).         *)
(*                                                                         *)
(* The master keeps one connection per peer and never relates two of them, *)
(* so the module follows one peer.  Time passes in retry periods of the    *)
(* peer (10 s); the clocks of the two programs run at the same rate, out   *)
(* of phase: their periods end in turn.                                    *)
(***************************************************************************)
EXTENDS Integers, Bags

CONSTANTS
    Salts,           \* the challenges the master may draw
    TimeoutRetries,  \* retry periods after which the peer gives up (60 s / 10 s)
    QuietLimit,      \* retry periods of silence the master tolerates
    Prompt,          \* are messages delivered well within a retry period
    MayFail,         \* faults of the environment: see Faults
    MaxInFlight      \* bound: messages in the network

\* The faults that may happen, and how often: messages lost or duplicated,
\* programs restarted in good order or killed, the radio host locked out, and
\* the master's address not found in the name service.
Faults == {"loss", "dup", "peerStop", "peerCrash", "mstStop", "mstCrash", "lockout", "lookup"}

NoSalt == 0

ASSUME SessionAssumption ==
    /\ Salts \subseteq Nat \ {NoSalt} /\ Salts # {}
    /\ TimeoutRetries \in Nat \ {0}
    /\ QuietLimit \in Nat \ {0}
    /\ Prompt \in BOOLEAN
    /\ MayFail \in [Faults -> Nat]
    /\ MaxInFlight \in Nat \ {0}

VARIABLES
    \* the peer
    status,      \* m_status
    enabled,     \* m_enabled: cleared while the host is locked out
    salt,        \* m_salt
    hasStream,   \* is m_loginStreamId set
    retryOn,     \* is m_retryTimer running
    timeoutOn,   \* is m_timeoutTimer running
    missed,      \* retry periods since m_timeoutTimer was started
    \* the master
    conn,        \* the peer's entry in m_peers
    \* between them
    net,         \* the messages in flight, a bag: UDP keeps no order
    due,         \* whose period ends next
    faults,      \* the faults still to come
    \* history
    answered,    \* the challenges the peer has ever answered
    accepted     \* has the master accepted a configuration since the last login

peerVars == <<status, enabled, salt, hasStream, retryOn, timeoutOn, missed>>
history  == <<answered, accepted>>
vars     == <<peerVars, conn, net, due, faults, history>>

NoConn  == [state |-> "none", salt |-> NoSalt, quiet |-> 0]
ToMaster == {"RPTL", "RPTK", "RPTC", "PING", "RPT_CLOSING"}
ToPeer   == {"ACK", "NAK", "PONG", "MST_CLOSING"}
Msg(t, s) == [type |-> t, salt |-> s]
Plain(t)  == Msg(t, NoSalt)
One(m)    == SetToBag({m})

Init ==
    /\ status = "WAITING_CONNECT"
    /\ enabled = TRUE
    /\ salt = NoSalt
    /\ hasStream = FALSE
    /\ retryOn = TRUE
    /\ timeoutOn = FALSE
    /\ missed = 0
    /\ conn = NoConn
    /\ net = EmptyBag
    /\ due \in {"peer", "master"}
    /\ faults = MayFail
    /\ answered = {}
    /\ accepted = FALSE

-----------------------------------------------------------------------------
(* What both ends do with the network.                                      *)

InFlight == BagToSet(net)

Room == BagCardinality(net) < MaxInFlight

\* Message m is taken from the network and the bag out is sent.
Exchange(m, out) == net' = (net (-) One(m)) (+) out

Fault(f) ==
    /\ faults[f] > 0
    /\ faults' = [faults EXCEPT ![f] = @ - 1]

-----------------------------------------------------------------------------
(* The peer: Network::clock.                                                *)

\* Both timers are started.
StartTimers ==
    /\ retryOn' = TRUE
    /\ timeoutOn' = TRUE
    /\ missed' = 0

\* close() tells the master only of a running session.
Closing == IF status = "RUNNING" THEN One(Plain("RPT_CLOSING")) ELSE EmptyBag

\* close() and open(): with the name service failing, open() returns before it
\* starts the retry timer.
CloseAndOpen ==
    /\ status' = "WAITING_CONNECT"
    /\ timeoutOn' = FALSE
    /\ missed' = 0
    /\ UNCHANGED <<enabled, salt, hasStream, answered, accepted>>
    /\ \/ retryOn' = TRUE /\ UNCHANGED faults
       \/ retryOn' = FALSE /\ Fault("lookup")

\* A faulty reading of an ACK that ends the login stream with the login.
PeerAckEndsStream(m) ==
    /\ m.type = "ACK"
    /\ status = "WAITING_LOGIN"
    /\ status' = "WAITING_AUTHORISATION"
    /\ salt' = m.salt
    /\ Exchange(m, One(Msg("RPTK", m.salt)))
    /\ answered' = answered \cup {m.salt}
    /\ hasStream' = FALSE
    /\ StartTimers
    /\ UNCHANGED <<enabled, accepted, faults>>

\* An acknowledged login: the four bytes that follow are the challenge, and it
\* is answered on the stream of the login.
PeerAckLogin(m) ==
    /\ m.type = "ACK"
    /\ status = "WAITING_LOGIN"
    /\ status' = "WAITING_AUTHORISATION"
    /\ salt' = m.salt
    /\ Exchange(m, IF hasStream THEN One(Msg("RPTK", m.salt)) ELSE EmptyBag)
    /\ answered' = IF hasStream THEN answered \cup {m.salt} ELSE answered
    /\ StartTimers
    /\ UNCHANGED <<enabled, hasStream, accepted, faults>>

\* A faulty reading of an ACK that takes the answer for the whole login.
PeerAckTooSoon(m) ==
    /\ m.type = "ACK"
    /\ status = "WAITING_AUTHORISATION"
    /\ status' = "RUNNING"
    /\ Exchange(m, EmptyBag)
    /\ StartTimers
    /\ UNCHANGED <<enabled, salt, hasStream, answered, accepted, faults>>

\* An acknowledged answer: the configuration follows.
PeerAckAuthorisation(m) ==
    /\ m.type = "ACK"
    /\ status = "WAITING_AUTHORISATION"
    /\ status' = "WAITING_CONFIG"
    /\ Exchange(m, IF hasStream THEN One(Plain("RPTC")) ELSE EmptyBag)
    /\ StartTimers
    /\ UNCHANGED <<enabled, salt, hasStream, answered, accepted, faults>>

\* An acknowledged configuration: "Logged into the master successfully".
PeerAckConfig(m) ==
    /\ m.type = "ACK"
    /\ status = "WAITING_CONFIG"
    /\ status' = "RUNNING"
    /\ hasStream' = FALSE
    /\ Exchange(m, EmptyBag)
    /\ StartTimers
    /\ UNCHANGED <<enabled, salt, answered, accepted, faults>>

\* A NAK to a running session: log in again, without a login stream as yet.
PeerNakRunning(m) ==
    /\ m.type = "NAK"
    /\ status = "RUNNING"
    /\ status' = "WAITING_LOGIN"
    /\ Exchange(m, EmptyBag)
    /\ StartTimers
    /\ UNCHANGED <<enabled, salt, hasStream, answered, accepted, faults>>

PeerNakOtherwise(m) ==
    /\ m.type = "NAK"
    /\ status # "RUNNING"
    /\ Exchange(m, EmptyBag)
    /\ CloseAndOpen

PeerMasterClosing(m) ==
    /\ m.type = "MST_CLOSING"
    /\ Exchange(m, Closing)
    /\ CloseAndOpen

PeerPong(m) ==
    /\ m.type = "PONG"
    /\ Exchange(m, EmptyBag)
    /\ timeoutOn' = TRUE
    /\ missed' = 0
    /\ UNCHANGED <<status, enabled, salt, hasStream, retryOn, faults, history>>

\* An ACK to a running session is not acted upon.
PeerIgnores(m) ==
    /\ m.type = "ACK"
    /\ status = "RUNNING"
    /\ Exchange(m, EmptyBag)
    /\ UNCHANGED <<peerVars, faults, history>>

\* The socket is closed until the next login: what arrives is gone.
PeerDeaf(m) ==
    /\ status = "WAITING_CONNECT"
    /\ Exchange(m, EmptyBag)
    /\ UNCHANGED <<peerVars, faults, history>>

PeerRead(m) ==
    /\ m.type \in ToPeer
    /\ \/ PeerDeaf(m)
       \/ /\ status # "WAITING_CONNECT"
          /\ enabled
          /\ \/ PeerAckLogin(m)
             \/ PeerAckAuthorisation(m)
             \/ PeerAckConfig(m)
             \/ PeerIgnores(m)
             \/ PeerNakRunning(m)
             \/ PeerNakOtherwise(m)
             \/ PeerMasterClosing(m)
             \/ PeerPong(m)
    /\ UNCHANGED <<conn, due>>

\* What the peer repeats when its retry timer expires; without a login stream
\* the answer and the configuration are not sent ("BUGBUG: tried to write
\* network authorisation with no stream ID?").
Retried ==
    CASE status = "WAITING_LOGIN" -> One(Plain("RPTL"))
      [] status = "WAITING_AUTHORISATION" /\ hasStream -> One(Msg("RPTK", salt))
      [] status = "WAITING_CONFIG" /\ hasStream -> One(Plain("RPTC"))
      [] status = "RUNNING" -> One(Plain("PING"))
      [] OTHER -> EmptyBag

\* A faulty first login that does not start the timeout.
PeerConnectsUntimed ==
    /\ enabled
    /\ status = "WAITING_CONNECT"
    /\ retryOn
    /\ status' = "WAITING_LOGIN"
    /\ hasStream' = TRUE
    /\ net' = net (+) One(Plain("RPTL"))
    /\ accepted' = FALSE
    /\ UNCHANGED <<enabled, salt, retryOn, timeoutOn, missed, answered>>

\* The retry timer expires while the peer waits to connect: first login.
PeerConnects ==
    /\ enabled
    /\ status = "WAITING_CONNECT"
    /\ retryOn
    /\ status' = "WAITING_LOGIN"
    /\ hasStream' = TRUE
    /\ timeoutOn' = TRUE
    /\ missed' = 0
    /\ net' = net (+) One(Plain("RPTL"))
    /\ accepted' = FALSE
    /\ UNCHANGED <<enabled, salt, retryOn, answered>>

PeerRetries ==
    /\ enabled
    /\ status # "WAITING_CONNECT"
    /\ retryOn
    /\ missed < TimeoutRetries
    /\ missed' = missed + 1
    /\ net' = net (+) Retried
    /\ hasStream' = (hasStream \/ status = "WAITING_LOGIN")
    /\ accepted' = (accepted /\ status # "WAITING_LOGIN")
    /\ answered' = IF status = "WAITING_AUTHORISATION" /\ hasStream
                   THEN answered \cup {salt} ELSE answered
    /\ UNCHANGED <<status, enabled, salt, retryOn, timeoutOn>>

\* A retry period passes in which no timer of the peer runs.
PeerIdles ==
    /\ ~retryOn \/ ~enabled
    /\ UNCHANGED <<peerVars, net, history>>

\* A retry period passes at the peer.  On a prompt network everything sent in
\* the period before has been answered or lost by now.
PeerPeriod ==
    /\ due = "peer"
    /\ due' = "master"
    /\ Room
    /\ Prompt /\ enabled => net = EmptyBag
    /\ PeerConnects \/ PeerRetries \/ PeerIdles
    /\ UNCHANGED <<conn, faults>>

\* The timeout timer expires, at the last retry or up to a period before.
PeerTimesOut ==
    /\ enabled
    /\ timeoutOn
    /\ missed >= TimeoutRetries - 1
    /\ Prompt => net = EmptyBag
    /\ Room
    /\ net' = net (+) Closing
    /\ CloseAndOpen
    /\ UNCHANGED <<conn, due>>

\* Host::setState in and out of HOST_STATE_LOCKOUT or HOST_STATE_ERROR.
PeerLockedOut ==
    /\ enabled
    /\ Fault("lockout")
    /\ enabled' = FALSE
    /\ UNCHANGED <<status, salt, hasStream, retryOn, timeoutOn, missed, conn, net, due, history>>

PeerUnlocked ==
    /\ ~enabled
    /\ enabled' = TRUE
    /\ UNCHANGED <<status, salt, hasStream, retryOn, timeoutOn, missed, conn, net, due, faults,
                   history>>

\* The host is stopped, or dies, and is started again.
PeerRestarts(out) ==
    /\ Room
    /\ net' = net (+) out
    /\ status' = "WAITING_CONNECT"
    /\ enabled' = TRUE
    /\ salt' = NoSalt
    /\ hasStream' = FALSE
    /\ retryOn' = TRUE
    /\ timeoutOn' = FALSE
    /\ missed' = 0
    /\ UNCHANGED <<conn, due, history>>

PeerStops   == Fault("peerStop") /\ PeerRestarts(Closing)
PeerCrashes == Fault("peerCrash") /\ PeerRestarts(EmptyBag)

-----------------------------------------------------------------------------
(* The master: FNENetwork::clock.                                           *)

Forgotten == conn' = NoConn

MasterLogin(m) ==
    /\ m.type = "RPTL"
    /\ conn = NoConn
    /\ \E s \in Salts :
        /\ conn' = [state |-> "WAITING_AUTHORISATION", salt |-> s, quiet |-> 0]
        /\ Exchange(m, One(Msg("ACK", s)))
    /\ UNCHANGED history

\* A faulty login handler that keeps an unfinished login.
MasterLoginAgainKept(m) ==
    /\ m.type = "RPTL"
    /\ conn # NoConn
    /\ Exchange(m, One(Plain("NAK")))
    /\ conn' = [conn EXCEPT !.quiet = 0]
    /\ UNCHANGED history

\* The login of a peer that the master knows is refused, and counts as a sign of
\* life; an unfinished login is forgotten, a running session is kept.
MasterLoginAgain(m) ==
    /\ m.type = "RPTL"
    /\ conn # NoConn
    /\ Exchange(m, One(Plain("NAK")))
    /\ IF conn.state = "RUNNING" THEN conn' = [conn EXCEPT !.quiet = 0] ELSE Forgotten
    /\ UNCHANGED history

\* A faulty check of the answer that compares no hash.
MasterAnswerUnchecked(m) ==
    /\ m.type = "RPTK"
    /\ conn.state = "WAITING_AUTHORISATION"
    /\ conn' = [conn EXCEPT !.state = "WAITING_CONFIG", !.quiet = 0]
    /\ Exchange(m, One(Plain("ACK")))
    /\ UNCHANGED history

MasterAnswerRight(m) ==
    /\ m.type = "RPTK"
    /\ conn.state = "WAITING_AUTHORISATION"
    /\ m.salt = conn.salt
    /\ conn' = [conn EXCEPT !.state = "WAITING_CONFIG", !.quiet = 0]
    /\ Exchange(m, One(Plain("ACK")))
    /\ UNCHANGED history

\* A wrong answer is refused; the entry is erased but put back at once.
MasterAnswerWrong(m) ==
    /\ m.type = "RPTK"
    /\ conn.state = "WAITING_AUTHORISATION"
    /\ m.salt # conn.salt
    /\ conn' = [conn EXCEPT !.quiet = 0]
    /\ Exchange(m, One(Plain("NAK")))
    /\ UNCHANGED history

MasterConfig(m) ==
    /\ m.type = "RPTC"
    /\ conn.state = "WAITING_CONFIG"
    /\ conn' = [conn EXCEPT !.state = "RUNNING", !.quiet = 0]
    /\ Exchange(m, One(Plain("ACK")))
    /\ accepted' = TRUE
    /\ UNCHANGED answered

\* An answer or a configuration out of turn: refused, and whatever the master
\* knew of the peer is forgotten, a running session included.
MasterOutOfTurn(m) ==
    /\ \/ m.type = "RPTK" /\ conn.state # "WAITING_AUTHORISATION"
       \/ m.type = "RPTC" /\ conn.state # "WAITING_CONFIG"
    /\ Forgotten
    /\ Exchange(m, One(Plain("NAK")))
    /\ UNCHANGED history

MasterPeerClosing(m) ==
    /\ m.type = "RPT_CLOSING"
    /\ IF conn.state = "RUNNING" THEN Forgotten ELSE UNCHANGED conn
    /\ Exchange(m, EmptyBag)
    /\ UNCHANGED history

\* A ping of a running session is answered, one of an unfinished login refused,
\* and one of an unknown peer ignored.
MasterPing(m) ==
    /\ m.type = "PING"
    /\ \/ /\ conn.state = "RUNNING"
          /\ conn' = [conn EXCEPT !.quiet = 0]
          /\ Exchange(m, One(Plain("PONG")))
       \/ /\ conn.state \notin {"RUNNING", "none"}
          /\ Exchange(m, One(Plain("NAK")))
          /\ UNCHANGED conn
       \/ /\ conn = NoConn
          /\ Exchange(m, EmptyBag)
          /\ UNCHANGED conn
    /\ UNCHANGED history

\* On a prompt network a restart takes longer than the delivery of the message
\* that announces it.
MasterUp == Prompt => Plain("MST_CLOSING") \notin InFlight

MasterRead(m) ==
    /\ m.type \in ToMaster
    /\ MasterUp
    /\ \/ MasterLogin(m)
       \/ MasterLoginAgain(m)
       \/ MasterAnswerRight(m)
       \/ MasterAnswerWrong(m)
       \/ MasterConfig(m)
       \/ MasterOutOfTurn(m)
       \/ MasterPeerClosing(m)
       \/ MasterPing(m)
    /\ UNCHANGED <<peerVars, due, faults>>

\* A faulty maintenance that removes nobody.
MasterPeriodKeeps ==
    /\ due = "master"
    /\ due' = "peer"
    /\ conn' = IF conn.state = "RUNNING" THEN [conn EXCEPT !.quiet = @ + 1] ELSE conn
    /\ UNCHANGED <<peerVars, net, faults, history>>

\* A retry period passes at the master: a running session that has been quiet
\* for too long is removed; an unfinished login is not looked at.
MasterPeriod ==
    /\ due = "master"
    /\ due' = "peer"
    /\ conn' = IF conn.state # "RUNNING" THEN conn
               ELSE IF conn.quiet < QuietLimit THEN [conn EXCEPT !.quiet = @ + 1]
               ELSE NoConn
    /\ UNCHANGED <<peerVars, net, faults, history>>

MasterRestarts(out) ==
    /\ Room
    /\ net' = net (+) out
    /\ conn' = NoConn
    /\ UNCHANGED <<peerVars, due, history>>

\* close() tells every peer in the table, then the program is started again.
MasterStops ==
    /\ Fault("mstStop")
    /\ MasterRestarts(IF conn # NoConn THEN One(Plain("MST_CLOSING")) ELSE EmptyBag)
MasterCrashes == Fault("mstCrash") /\ MasterRestarts(EmptyBag)

-----------------------------------------------------------------------------
(* The network.                                                             *)

Lose(m) ==
    /\ Fault("loss")
    /\ Exchange(m, EmptyBag)
    /\ UNCHANGED <<peerVars, conn, due, history>>

Duplicate(m) ==
    /\ Room
    /\ Fault("dup")
    /\ net' = net (+) One(m)
    /\ UNCHANGED <<peerVars, conn, due, history>>

-----------------------------------------------------------------------------

Next ==
    \/ \E m \in InFlight : PeerRead(m) \/ MasterRead(m) \/ Lose(m) \/ Duplicate(m)
    \/ PeerPeriod \/ PeerTimesOut \/ PeerLockedOut \/ PeerUnlocked \/ PeerStops \/ PeerCrashes
    \/ MasterPeriod \/ MasterStops \/ MasterCrashes

Spec == Init /\ [][Next]_vars

\* Both programs run their main loop, which reads the socket and clocks the
\* timers, for as long as they live, and a lockout does not last for ever.
FairSpec ==
    /\ Spec
    /\ WF_vars(\E m \in InFlight : PeerRead(m))
    /\ WF_vars(\E m \in InFlight : MasterRead(m))
    /\ WF_vars(PeerPeriod \/ PeerTimesOut)
    /\ WF_vars(MasterPeriod)
    /\ WF_vars(PeerUnlocked)

-----------------------------------------------------------------------------
(* Properties.                                                              *)

TypeOK ==
    /\ status \in {"WAITING_CONNECT", "WAITING_LOGIN", "WAITING_AUTHORISATION",
                   "WAITING_CONFIG", "RUNNING"}
    /\ salt \in Salts \cup {NoSalt}
    /\ enabled \in BOOLEAN /\ hasStream \in BOOLEAN
    /\ retryOn \in BOOLEAN /\ timeoutOn \in BOOLEAN
    /\ missed \in 0..TimeoutRetries
    /\ conn \in [state : {"none", "WAITING_AUTHORISATION", "WAITING_CONFIG", "RUNNING"},
                 salt : Salts \cup {NoSalt}, quiet : 0..QuietLimit]
    /\ IsABag(net)
    /\ InFlight \subseteq [type : ToMaster \cup ToPeer, salt : Salts \cup {NoSalt}]
    /\ due \in {"peer", "master"}
    /\ faults \in [Faults -> Nat]

\* Wherever the exchange is interrupted, the peer never waits for the master
\* with a timer stopped: it can always repeat itself and always give up (the
\* timer starts of the ACK and NAK cases of Network::clock).
WaitsAreTimed == status # "WAITING_CONNECT" => retryOn /\ timeoutOn

\* Whatever is lost, repeated or reordered, the master goes past a challenge
\* only if its peer answered that very challenge at some time: no answer to an
\* earlier one carries over (the salt kept in FNEPeerConnection).
ChallengeAnswered == conn.state \in {"WAITING_CONFIG", "RUNNING"} => conn.salt \in answered

\* "Logged into the master successfully": a peer that runs has had its
\* configuration accepted by the master since it asked to log in.
LoggedInMeansAccepted == status = "RUNNING" => accepted

\* "BUGBUG: tried to write network authorisation with no stream ID?": the login
\* stream outlives the exchange it belongs to.
LoginHasStream == status \in {"WAITING_AUTHORISATION", "WAITING_CONFIG"} => hasStream

\* Once the faults are over, the peer and the master come to agree on a running
\* session and keep it.
Reconnects == <>[](status = "RUNNING" /\ conn.state = "RUNNING")

\* "Maximum number of missable pings before a peer is considered disconnected":
\* the master does not hold a running session for ever with a peer that is not
\* running, and so does not ping.
QuietPeerRemoved == []<>~(conn.state = "RUNNING" /\ status # "RUNNING")

\* "retrying connection": a peer that lost its master tries again.
TriesAgain == []<>(enabled => status # "WAITING_CONNECT")

=============================================================================
