----------------------------- MODULE MCFneSession -----------------------------
(***************************************************************************)
(* FneSession with small fault budgets.                                    *)
(***************************************************************************)
EXTENDS FneSession, TLC

NoFaults == [f \in Faults |-> 0]

\* A network that delays, reorders and duplicates, a host that is stopped or
\* dies, a failing lookup.
Unreliable == [NoFaults EXCEPT !["dup"] = 1, !["peerStop"] = 1, !["peerCrash"] = 1,
                               !["lookup"] = 1]

\* Faults a session recovers from: fewer messages lost than would make the peer
\* give up, a master that comes and goes, a lockout.
Recoverable == [NoFaults EXCEPT !["loss"] = 2, !["mstStop"] = 1, !["mstCrash"] = 1,
                                !["lockout"] = 1]

Crash    == [NoFaults EXCEPT !["peerCrash"] = 1]
NoLookup == [NoFaults EXCEPT !["lookup"] = 1, !["mstStop"] = 1]

=============================================================================
