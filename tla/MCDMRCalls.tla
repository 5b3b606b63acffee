----------------------------- MODULE MCDMRCalls -----------------------------
(***************************************************************************)
(* The slots DMRCalls is checked for.  Two talkgroups compete in voice,    *)
(* without and with time-outs, and in voice and data packets; with both    *)
(* time-outs and packets one talks and the other sends.  A host that is    *)
(* not authoritative has two talkgroups, one of which sends packets too.   *)
(***************************************************************************)
EXTENDS DMRCalls

CONSTANTS g1, g2

Slot(authoritative, timeouts, data, heard) ==
    [authoritative |-> authoritative, timeouts |-> timeouts, data |-> data,
     heard |-> heard]

MCConfigurations ==
    {Slot(TRUE, FALSE, {}, {g1, g2}), Slot(TRUE, TRUE, {}, {g1, g2}),
     Slot(TRUE, FALSE, {g1, g2}, {g1, g2}), Slot(TRUE, TRUE, {g2}, {g1}),
     Slot(FALSE, FALSE, {g2}, {g1, g2})}

=============================================================================
