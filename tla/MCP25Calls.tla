----------------------------- MODULE MCP25Calls -----------------------------
(***************************************************************************)
(* The hosts P25Calls is checked for.  Two talkgroups compete on an        *)
(* authoritative host; with time-outs or permissions one is enough, and    *)
(* where data packets are sent the network sends no voice.                 *)
(***************************************************************************)
EXTENDS P25Calls

CONSTANTS g1, g2

Host(authoritative, dataPackets, timeouts, heard, netHeard) ==
    [authoritative |-> authoritative, dataPackets |-> dataPackets,
     timeouts |-> timeouts, heard |-> heard, netHeard |-> netHeard]

MCConfigurations ==
    {Host(TRUE, FALSE, FALSE, {g1, g2}, {g1, g2}), Host(TRUE, TRUE, FALSE, {g1}, {}),
     Host(TRUE, FALSE, TRUE, {g1}, {g1}), Host(FALSE, FALSE, FALSE, {g1}, {g1})}

=============================================================================
