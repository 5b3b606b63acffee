----------------------------- MODULE ChannelPool -----------------------------
(***************************************************************************)
(* What a trunked site promises of its voice channels, whatever tables it  *)
(* keeps and however requests reach it: a channel is free or held by one   *)
(* destination, it is taken only while free, and it comes back when its    *)
(* holder lets it go.                                                      *)
(***************************************************************************)
CONSTANTS
    Channels,   \* the voice channels of the site
    Dsts,       \* the destinations that may hold one
    NoCh        \* no channel

VARIABLES
    free,   \* the channels nobody holds
    held    \* destination -> its channel

poolStateVars == <<free, held>>

Holders == {d \in Dsts : held[d] # NoCh}

Init ==
    /\ free = Channels
    /\ held = [d \in Dsts |-> NoCh]

\* Destination d, which holds none, takes a free channel.
Take(d) ==
    /\ held[d] = NoCh
    /\ \E ch \in free :
        /\ held' = [held EXCEPT ![d] = ch]
        /\ free' = free \ {ch}

\* The destinations ds give their channels back.
GiveBack(ds) ==
    /\ held' = [d \in Dsts |-> IF d \in ds THEN NoCh ELSE held[d]]
    /\ free' = free \cup {held[d] : d \in ds}

Next ==
    \/ \E d \in Dsts : Take(d)
    \/ \E ds \in SUBSET Holders : GiveBack(ds)

Spec == Init /\ [][Next]_poolStateVars

=============================================================================
