# A TLA+ model of dvmhost

dvmhost is the software of a digital voice repeater (DMR, P25, NXDN) and of the
network core, the FNE, that joins repeaters. This directory holds TLA+ modules of
the parts whose correctness depends on the order of events, the TLC
configurations that check them, and proofs for TLAPS. Paths below are relative
to the root of the repository.

## The system

**Host** (`src/host`). One process per repeater. The main loop
(`Host.cpp`) reads the modem, the network and the timers in turn and calls the
protocol controllers:

| part | state it keeps | operations |
|---|---|---|
| `common/lookups/AffiliationLookup` | registered units, affiliations, free channels, the grant tables (channel, source, unit-to-unit, network, timer) and a count | register, affiliate, grant, touch, release, clock |
| `host/p25/Control` with `packet/ControlSignaling` | RF and network state, hang timers, the lookup, the site data | grant requests from RF, network, REST; registration; releases; clock |
| `host/p25/packet/Voice`, `Data` | the call in progress | frames from RF and network, preemption, loss |
| `host/dmr/Slot` (two), `Control`, `lookups/DMRAffiliationLookup` | state of each slot, the control slot (TSCC), the lookup with time slots | slot grants, payload activation, calls, clock |
| `host/nxdn/Control` | as P25 | as P25 |
| `host/network/Network` | session status, salt, login stream, retry and timeout timers | login, answers, pings, closing |
| `host/network/RESTAPI` | authentication tokens | a thread of its own; mode, grants, permits, releases |
| `remote/RESTClient` | one static response and flag | blocking calls to the REST interface of a voice channel host |
| `host/modem`, `Host` | mode, modem queues | switching modes, writer threads, lockout |

**FNE** (`src/fne`). `FNENetwork` keeps one connection per peer and answers the
login exchange; `TagDMRData`, `TagP25Data`, `TagNXDNData` route traffic
between peers and keep the status of each talkgroup's stream.

**Interactions.** A control channel host grants a channel, asks the voice channel
host over REST to permit the talkgroup (`PUT_PERMIT_TG`), and is told over REST
that the call goes on (`PUT_TOUCH_TG`) or ended (`PUT_RELEASE_TG`). All of these
may be lost; the grant timer is the last resort. Host and FNE exchange UDP
datagrams. Inside a host the main loop and the REST thread share the lookup
tables without a lock, and a release callback makes a blocking REST call in the
middle of an operation.

**What is hard.** Parallel tables and counts that must change together; requests
for the same talkgroup from three sides at once; refusals after a grant was
entered; lost ends of calls; timers that each of a dozen branches must start;
acknowledgements that do not say what they acknowledge; restarts of either end;
hash table order; two threads. `PROJECT.json` lists these hazards by line.

## The modules

| module | models | by |
|---|---|---|
| `AffiliationLookup` | the tables and one operator per member function | variables and operators; no behaviour of its own |
| `AffiliationLookupProofs` | lemmas on grants and releases, shared by the next proof modules | TLAPS |
| `P25Grants` | a dedicated P25 control channel | one action per request, refusal and release, `Clock` for a pass of the main loop |
| `ChannelPool` | what a trunked site promises: channels are taken while free and given back | abstract specification, refined by `P25Grants`, and by `GrantThreads` when there is one thread |
| `P25GrantsProofs` | theorems on `P25Grants` | TLAPS |
| `GrantThreads` | the tables of an authoritative P25 control channel under the main loop and the REST thread | one action per stretch between two blocking REST calls of a thread |
| `GrantThreadsProofs` | theorems on `GrantThreads` | TLAPS |
| `DMRGrants` | a DMR Tier III control slot | as `P25Grants`, with time slots and payload slots |
| `DMRGrantsProofs` | theorems on `DMRGrants` | TLAPS |
| `FneSession` | host and FNE session | `Network::clock` and `FNENetwork::clock`, one action per message and state, timers, restarts, the network as a bag |
| `MCFneSession` | fault budgets for `FneSession` | constants only |
| `FneSessionProofs` | theorems on `FneSession` | TLAPS |
| `P25Calls` | the call in progress of a P25 host that repeats voice | one action per outcome of a frame from RF or network, per timer, voice end and permission |
| `MCP25Calls` | the hosts `P25Calls` is checked for | constants only |
| `P25CallsProofs` | theorems on `P25Calls` | TLAPS |
| `DMRCalls` | the call in progress of one DMR slot | as `P25Calls`, with late entry and data packets |
| `MCDMRCalls` | the slots `DMRCalls` is checked for | constants only |
| `DMRCallsProofs` | theorems on `DMRCalls` | TLAPS |
| `FneCalls` | routing of P25 and NXDN group calls in the FNE, the P25 parrot, the RTP clock | one action per kind of frame, playback, maintenance |
| `MCFneCalls` | an instance of `FneCalls` | constants only |
| `FneCallsProofs` | theorems on `FneCalls` | TLAPS |

Some definitions are there for comparison: an operator whose comment begins with
"A faulty" is the code with one plausible mistake, listed under `mutants` in
`PROJECT.json` with the property that finds it.

### AffiliationLookup and P25Grants

A missing map entry reads as `NoCh`, `NoSrc`, `NoDst` or `FALSE`, as the getters
return it. `rfChTable` is the sequence `m_rfChTable`: `grantCh` takes its head,
`releaseGrant` appends. `grantTimers` counts clock ticks since the timer was
started (`Timer::start` sets 1), 0 when stopped. `Dsts` is the union of talkgroups
and radio IDs because the tables are keyed by a bare number.

`writeRF_TSDU_Grant` is split by outcome: `NewGrant`, `GrantRetry`,
`GrantQueued`, `GrantCollision`, and the two outcomes after the voice channel
host was asked and did not agree, `NewGrantNotPermitted` and
`GrantRetryNotPermitted`. Whether it agrees is nondeterministic; only an
authoritative host asks, and only a host that is not authoritative takes grants
by REST, so `authoritative` is chosen once, initially. `rfState` tells between
frames only whether the last request was rejected: a TSDU restores the state it
found unless a `VERIFY_` or `VALID_` macro returned early. In that state the
network is not heard (`Control::processNetwork`) until `Clock` resets it.

Assumed: a dedicated control channel (no call traffic on it, `m_dedicatedControl`),
and network grants not disabled (`m_disableNetworkGrant` false). Data grants
(SNDCP) are left out.

### GrantThreads

The same tables, seen by two threads. A release calls back into
`RESTClient::send`, which blocks, before it erases anything; a grant asks the
voice channel host after it has entered the tables. `op` says which answer a
thread waits for, `dstId`, `chNo` and `gntsToRel` are the locals that survive the
wait. The host is authoritative and supervises voice channels that are reached
over REST; on others no operation blocks and `P25Grants` is the model.

`RestReleaseGrants` ("release-grants" of the REST interface) works on a copy of the
lookup, which `Control::affiliations()` returns by value: its callbacks are made, one
per grant of the copy, and only the channel count it broadcasts reaches the site.
`copy` holds the counts of that copy. `overlapped` is a history variable: at some time
one thread began to release a destination that the other was releasing.

Assumed: threads are switched only where they block. A switch in the middle of
a change to a hash table is undefined behaviour, of which nothing can be said.
Once two releases overlap the pool holds one entry more each time; `MaxExtra`
stops releases when that many are too many.

### DMRGrants

`getAvailableSlotForChannel` is modelled as it is written, a fold over the
entries of the channel in the hash table's order, which is nondeterministic.
`config` holds the TSCC's slot and `authoritative`. `payloadDst` is
`m_tsccPayloadDstId` of the two slots of the TSCC's host. The REST commands that
release all grants or affiliations are not actions here: `dmr::Control::affiliations()`
returns a new, empty table, and they change nothing.

### P25Calls

`Voice::process`, `Data::process` and `Voice::processNetwork` with the part of
`Control` they lean on. `rf` and `net` are the fields of `Control` and `Voice` that
belong to either side: state, link control (reduced to its destination), last
destination, the timers and, for RF, the last frame and the count of lost frames.
Each outcome of a handler is an action: for an LDU1, say, `LDU1Undecodable`,
`LDU1Refused` (not permitted, or a network call on the same talkgroup),
`LDU1Rejected` (not in the rules), `LDU1Starts`, `LDU1Stops` and `LDU1`.
`LostFrame` is a modem frame that is lost, with `processFrameLoss` once too many
are; `VoiceEnd` is `writeRF_VoiceEnd`. A timer runs or does not, and may expire at
any pass of the clock: the model holds for every setting of them. `air` and
`brokenOff` are history variables: whose voice was sent last without a terminator, and
whether the last local call ended by a refusal, which arranges for no end of voice.

Assumed: no control channel on the host (a voice channel host or a conventional
repeater), duplex, group calls. `config` says what kind of host, and is chosen once.

Local radios preempt a network call with `resetNetP25`, which stops its watchdog
and leaves `m_netState`: the model does so too (`Preempted`). So does a network
terminator with link control (`NetTDULC`), unlike one without (`NetTDU`).

### DMRCalls

The same for `Slot`: `rf` and `net` are its two sides. A link control is `NoId`
where the code holds `nullptr`. `frames` counts the data blocks to come, at most
`MaxBlocks`. `AirRf` is `Slot::addFrame`, which sends nothing of local radios
while the network has the slot; a network call that falls silent is closed by its
watchdog (`AirAfterSilence`), unless its time is out. `leftOpen` is a history variable:
the last network call ended without a terminator, or gave way to a data packet. Of the
CSBKs only those of local radios with an invalid source or talkgroup do anything to a
call: they set `RS_RF_REJECTED`, in mid-call too (`CsbkRejected`). Valid ones are repeated;
those of the network are too, and restart its watchdog, which is left out: a network that
sends them is not silent.

Assumed: a conventional slot, duplex, no TSCC on the host (`m_enableTSCC`), group
calls. Whether the radio and talkgroup tables accept a call is nondeterministic
(`VoiceRejected`). Embedded signalling is reduced to the burst that completes it
(`VoiceLateEntry`).

### FneSession

Both `clock` functions, one action per message type and state. Time passes in
periods of the peer's retry timer (10 s); `due` makes the periods of the two ends
alternate. `Prompt` says whether everything sent within a period is delivered or
lost within it. Faults are drawn from the budget `MayFail`: loss, duplication,
orderly and disorderly restarts of both ends, lockout, a failing name lookup.
`answered` and `accepted` are history variables.

### FneCalls

`processFrame` of `TagP25Data` and `TagNXDNData`, with the branches a group call
takes. `status` is the source of `m_status[dstId]`, `callInProgress` the flag
`FNENetwork::clock` asks before it resets the RTP start time. The parrot records
one call (`parrotFrames`) and `playbackParrot` plays a frame per pass of the loop
in which the socket is empty. Any connected peer may send any frame at any time:
repeaters do not wait for each other, and datagrams are lost and late. A stream
belongs to one source, so streams are told apart by their sources.

`hears` is who is being repeated to each listener on each talkgroup, `live` which
repeater each listener hears, `unannounced` a recording that is to open with a
grant demand and has not yet: history variables that no action reads.

Left out: DMR (`TagDMRData`), private calls, rewritten talkgroups, peers upstream,
the parrot of NXDN, inactive talkgroups.

## The runs

| run | configuration | shows |
|---|---|---|
| `p25_grants` | 2 channels, 2 talkgroups, 2 radios, timeout of 2 ticks, verification on | types, `ChannelsConserved`, `TablesInStep`, `CountsExact`, `AffiliatedAreRegistered`, `GrantsStable`, refinement of `ChannelPool`, and `UntouchedGrantExpires` |
| `grant_threads` | 2 threads, 2 channels, 2 radios, a timeout of 2 ticks | `OnlyOverlapsHarm`, `CountsErrOneWay` |
| `grant_threads_count` | the same | `CountExactAtRest` fails |
| `dmr_grants` | 2 channels (one the TSCC's), 1 talkgroup, 2 radios | `TsccKept`, `PoolComplete`, `PayloadIsGranted` |
| `dmr_slots` | 3 talkgroups, 1 radio | `SlotsExclusive` fails |
| `fne_session` | 2 challenges, 3 messages in flight, duplication, restarts of the peer, failing lookups, no promptness | `WaitsAreTimed`, `ChallengeAnswered` |
| `fne_session_live` | two losses, the master stopped and crashed, a lockout, prompt network | `LoggedInMeansAccepted`, `LoginHasStream`, `Reconnects` |
| `fne_quiet_peer` | one crash of the peer | `QuietPeerRemoved` fails |
| `fne_failed_lookup` | a failing lookup after the master stopped | `TriesAgain` fails |
| `fne_calls` | 3 peers, an NXDN talkgroup open to all, a P25 parrot talkgroup closed to one, 2 radios | `NoMixedVoice`, `RtpKeptDuringCalls`, `ParrotOneSource`, `ParrotWaits`, `DemandLeads`, `ParrotPlays` |
| `p25_calls` | 4 hosts: two talkgroups; data packets; time-outs; not authoritative | `CallsClosed` and `CallsAreTimed` (hosts that are sent no data packets), `LossIsWatched`, `RfCallEnds` |
| `dmr_calls` | 5 slots: voice alone; with time-outs; with packets; with both; not authoritative | `LinkControlKept`, `OneVoice` (voices mix only after a network call left open, and only with time-outs or packets), `NetCallEnds`, `RfCallEnds` |

**Bounds.** Two channels and four destinations let the pool run empty, let two
grants compete and let one destination be granted while another waits; two radios
are a holder and a contender. A timeout of two ticks separates a touched grant
(1), an old one (2) and an expired one. The DMR instance has one talkgroup and
two radios as destinations, three in all, for three assignable slots. Three
messages in flight are a message, a copy and an answer that cross. Two threads
are all there are, and one entry too many in the pool (`MaxExtra`) is an overlap
and its consequences; the theorems hold for any `MaxExtra`. In `fne_calls` one
repeater talks, one listens, and a third, which may not use the parrot talkgroup,
ends calls on it; three recorded frames are a first, a spoken and a last one (`MaxFrames`
stops every frame on the parrot talkgroup that would be recorded, voice, terminators and
other TSDUs alike, while the recording is full; a new call empties it). In the call models
two talkgroups are the one in progress and the one that competes, a threshold of one
lost frame tells a loss that is counted from one that ends the call, and two blocks
are a first and a last (`MaxBlocks`). Their configurations are combined only where
two of them interact, for the sake of the number of states; the theorems hold for
any set of them.

**Fairness.** `P25Grants` assumes weak fairness of `Clock` only: the main loop
runs. `GrantThreads` assumes none. `FneCalls` assumes it of
`playbackParrot`: the master finds its socket empty again and again. `P25Calls`
and `DMRCalls` assume it of the watchdogs, of the reset after a rejection and of the
evaluation of lost frames: the main loop calls `clock` on every turn, and a timer
that is not restarted runs out. `P25Calls` assumes it of `VoiceEnd` too, which the
main loop calls whenever it finds nothing to send. Their liveness properties speak of
sides that have fallen silent: either frames of that side keep coming, or its call ends.
`FneSession` assumes that each program, while it lives, reads its socket and
clocks its timers, and that a lockout ends. No fairness is put on requests,
touches, releases or the network's kindness; the fault budgets end, as `Reconnects`
needs them to, and a network that is prompt is an assumption of that run only.
Without it duplicated and late acknowledgements break the login (below).

## What the checks found

Shown by a run that expects a violation:

1. *A host that died* and comes back within the ping limit is refused for ever:
   its login attempts refresh the old session (`fne_quiet_peer`).
2. *A failed name lookup* on reconnecting leaves the peer without a timer
   (`fne_failed_lookup`).
3. *DMR slots*: one slot of a channel is granted twice (`dmr_slots`).
4. *Overlapping releases* of one destination by the two threads of a host return
   its channel twice and leave the count of grants below the table for good
   (`grant_threads_count`). They may also lose a channel: the REST thread begins to
   release t1, which holds c1, and waits; the main loop releases t1 and grants it again,
   on c2; the REST thread goes on, erases that grant and returns c1. The pool is then
   c1, c1, and c2 is nowhere. `OnlyOverlapsHarm` says that nothing but such an overlap
   does harm.

Met while modelling, and outside the runs:

- Acknowledgements in the login exchange do not name their stage: a duplicate takes
  the peer to `RUNNING` while the master has accepted nothing
  (`host/network/Network.cpp`). `LoggedInMeansAccepted` is checked on a network that
  does not duplicate.
- The end of an NXDN call that no other peer may hear clears the one call flag of the
  master, and its RTP timestamps may be reset in the middle of a P25 call
  (`TagNXDNData.cpp`). `RtpKeptDuringCalls` is checked and proved with NXDN
  talkgroups open to all.
- The REST commands that release all grants release none
  (`host/network/RESTAPI.cpp:1102-1120`). On P25, `affiliations()` returns a copy
  (`p25/Control.h:128`): the voice channel hosts lose their permits one by one while
  every grant stays. On DMR it is a new, empty table (`dmr/Control.cpp:496-509`). Releasing
  the affiliations does work on P25, as the copy deregisters the subscribers through the
  real `Control`.
- A P25 call of local radios that is refused in its middle
  (`p25/packet/Voice.cpp:589-594`) sends no terminator and does not set `m_tailOnIdle`:
  the transmitter stays in the voice until a later call ends. This takes a host that is
  not authoritative and a permission that changed or ran out, or no more than a first
  LDU2 that cannot be decoded, which empties `m_rfLC`: the next LDU1 is refused. A data
  packet in the middle of the voice leaves it open likewise: its terminator finds
  `RS_RF_DATA`. `CallsClosed` excludes both, by `brokenOff` and `~config.dataPackets`,
  and shows that an authoritative host never breaks a call off.
- A P25 network call that local radios preempt keeps `RS_NET_AUDIO` with its watchdog
  stopped (`p25/packet/Voice.cpp:181`); only a later frame of the network ends it. So
  does one that ends with a TDULC (`p25/packet/Voice.cpp:1165-1170`). For this reason
  `P25Calls` has no counterpart of DMR's `NetCallEnds`.
- A DMR network call whose time is out goes on with silence (`insertSilence` does not
  look at `m_netTimeout`) but ends without a terminator (`writeEndNet`,
  `dmr/Slot.cpp:1284`): voice of local radios may follow directly. So it may after a data
  packet of the network in the middle of its own call. `OneVoice` shows that voices of the
  two sides mix in no other way.
- An invalid CSBK ends a DMR call of local radios without a terminator and without a
  report to the network (`dmr/packet/ControlSignaling.cpp:182-195`).
- A DMR late entry that falls silent has no watchdog (`RS_RF_LATE_ENTRY`): its state
  lasts until local radios are heard again. `RfCallEnds` speaks of calls and packets only.
- P25 late entry from the network takes its destination from `m_dfsiLC`, which may be
  that of an earlier call (`p25/packet/Voice.cpp:1132`).
- `TagDMRData` keeps the status of a call per destination and looks it up per slot, and
  compares the data type of a burst, not its FLCO, with `FLCO_GROUP` (0) and
  `FLCO_PRIVATE` (3) in `isPeerPermitted` and `validate`
  (`fne/network/fne/TagDMRData.cpp:418`, `:424`). The lists of peers, the slot and the
  active flag of a rule, of which `configs/talkgroup_rules.example.yml:21` says "peers
  listed here will be ignored for traffic", are thus asked for privacy headers only.
- DMR late entry from the network on a voice sync (`dmr/packet/Voice.cpp:868`) does
  not look at the hang timer, as a header does.

## What is proved

Every safety invariant and action property of the passing runs is stated by a
theorem, but for two that hold on a prompt network only (`LoggedInMeansAccepted`,
`LoginHasStream`). A hypothesis, where a theorem has one, is named below.

`AffiliationLookupProofs` holds what the proofs on the grant tables share. The pool
and the grant table are *conserved* when every channel is either in the pool, once, or
granted, to one destination. Handing out the head of the pool, moving it to
the back, and releasing a set of destinations in any order keep them so; conserved
channels are counted by pool and table together; and the free channels are those
nobody holds, before and after.

`P25GrantsProofs` proves, for every finite set of channels, talkgroups and radios
and every timeout:

- `TypeCorrect`, `ChannelsAreConserved`, `TablesAreInStep`, `CountsAreExact`,
  `OnlyRegisteredAffiliate`: the safety invariants of `p25_grants`;
- `GrantsAreStable`: the action property;
- `PoolIsImplemented`: the refinement of `ChannelPool`.

From `LookupAssumption` (finite sets, "no" values outside them, a positive
timeout) and `P25Assumption` (Boolean options). The inductive invariant `IInv` is
the conjunction of `TypeOK`, the sharing of channels between the pool and the
grant table, `TablesInStep` and `CountsExact`. None of these is inductive alone:
conservation needs to know that a destination without a grant has no channel, and
the count stays exact under the clamp at zero only because it is exact before.
Every action does one of five things to the tables (a grant, a touch, a rotation of
the pool, the release of a set of destinations, nothing); lemmas show that each keeps
`IInv`, and the action cases reduce to them. The refinement uses that the free
channels are exactly those no grant names.

`DMRGrantsProofs` proves, from `LookupAssumption` and `DMRAssumption`, for every site:

- `TypeCorrect`, `TsccIsKept`, `PoolIsComplete`, `PayloadsAreGranted`: the invariants
  of `dmr_grants`;
- `GrantsAreCounted`: the count kept by hand is that of the table (in this protocol
  a channel is granted without leaving the pool, and it returns at most once however
  many of its slots are released, so the two could part);
- `GrantsKeepTheirSlots`: no step moves a live grant to another channel, slot or
  subscriber.

The inductive invariant has three parts. `TablesInv` holds the types, that the pool
keeps every channel but the TSCC's, once (`PoolKept`), that the two tables of channels
name the same one and never the control slot (`SlotsAgree`), and the count.
`PayloadInv` is about the payload slots, `SiteInv` about the rest. `TsccKept` alone is
not inductive: that its channel has one holder needs that the channel is in the pool
or granted, and never both. Nothing depends on which slot
`getAvailableSlotForChannel` finds: it is enough that `grantCh` refuses the slot of
the TSCC. That the scan may offer a slot that is taken is why `SlotsExclusive` fails
while all of these hold.

`GrantThreadsProofs` proves, from the same assumptions and for either thread
alone or both:

- `TypeCorrect`;
- `CountsErrToOneSide` (`CountsErrOneWay`), from an invariant that is an inequality:
  the count of grants is at most the table's, pool and count together are at least
  the channels. The clamp at zero and the unconditional append keep the second when a
  release finds nothing left to erase;
- `OnlyOverlapsDoHarm` (`OnlyOverlapsHarm`), from `ApartInv`: until two releases of one
  destination overlap, channels are conserved, both counts are exact (those of a copy add
  up to the same sum), the two threads release different destinations, and a grant that a
  thread waits for is still the one it asked about. Every step is then a move of the
  tables: it takes the head of the pool, gives one channel back, or leaves them alone.

One thread, which is a host whose REST interface is disabled, never overlaps with
itself. So `OneThreadCountsExactly` (`CountExactAtRest`, which two threads refute in
`grant_threads_count`) and `OneThreadImplementsPool`, the refinement of `ChannelPool` by
a release that takes two steps, follow.

`FneSessionProofs` proves, from `SessionAssumption`, for any challenges, timeouts and
budgets of faults:

- `TypeCorrect`, which needs that the network stays a bag of messages of the two
  ends;
- `WaitsHaveTimers` (`WaitsAreTimed`);
- `ChallengesAreAnswered` (`ChallengeAnswered`), from `AnswersInv`: the answers in
  flight, too, are to challenges the peer has answered.

Three lemmas that follow are conditional: on a prompt network (`Prompt`) that does not
duplicate (`MayFail["dup"] = 0`), `LoggedInMeansAccepted` and `LoginHasStream` hold, by
`TheyTakeTurns`. UDP promises neither condition and nothing in the code makes up for it;
without them both properties are false, since an acknowledgement does not say what it
acknowledges. They say only that the exchange itself, and the losses, restarts, crashes,
lockouts and failing lookups that are allowed in any number, are not to blame. The
exchange is then a conversation in turns (`AloneIn`: at most one of its messages is in
flight, and once), and a message in flight tells the state of the end it came from or
goes to (`InTurn`).

`FneCallsProofs` proves, for any peers, talkgroups, sources and access rules:

- `VoiceIsNotMixed` (`NoMixedVoice`), from `ListenersHearTheHolder`: whoever
  hears a source on a talkgroup hears the one that holds it, and is connected and
  permitted, so the terminator that ends the call reaches it;
- `RtpIsKeptDuringCalls`, when every NXDN talkgroup is open to every peer, as in the
  run: while anyone is repeated to anyone the flag is set, because a terminator, which
  P25 repeats to every peer anyway, then reaches a peer and sets the flag again;
- `ParrotHasOneSource` (`ParrotOneSource`), `ParrotIsSilentInCalls` (`ParrotWaits`) and
  `DemandComesFirst` (`DemandLeads`), with one parrot talkgroup. All parrot talkgroups
  share one recording, so with two of them none of these is promised. They follow from
  the invariant `ParrotInv`, which adds that a recording that is not announced still
  has its first frame flag set once it is ready.

`P25CallsProofs` proves, for any talkgroups, threshold of lost frames and set of
hosts, from `P25CallsAssumption`:

- `TypeCorrect`, where the work is the bound of the count of lost frames;
- `CallsAreClosed` (`CallsClosed`), from `Closed`: on a host that is sent no data
  packets, whatever voice is in progress or on the air has set `m_hadVoice`, and once none
  is in progress `m_tailOnIdle` is set, nothing is left to end, or the call was broken
  off; an authoritative host does not look at the permission, and breaks none off;
- `LossesAreWatched` (`LossIsWatched`) for every host and `VoiceIsTimed`
  (`CallsAreTimed`) for those that are sent no data packets, from `Watched` and `Timed`,
  which extend the properties to the states between calls.

The inductive invariant `IInv` is their conjunction. A lemma per helper says which
fields it leaves alone, and the lemmas per action cite those.

`DMRCallsProofs` proves, from `DMRCallsAssumption`: `TypeCorrect`;
`LinkControlsKept` (`LinkControlKept`), inductive given the types; and
`OneVoiceAtATime` (`OneVoice`), from `SideOfAir`: a voice of the network is open on
the air during a network call only, or after one that was left open; only after such a
one are voices mixed; and one is left open only by a time-out that has expired or a
packet. No kind of slot is excluded.

Only model-checked: liveness (`UntouchedGrantExpires`, `Reconnects`, `ParrotPlays`,
`NetCallEnds`, `RfCallEnds`), which needs fairness and is out of reach of the prover;
`LoggedInMeansAccepted` and `LoginHasStream`, but for the conditional lemmas above. What
the fold of `getAvailableSlotForChannel` computes for every table would need induction
over the table; no proof depends on it.

## Not modelled, and the plan

In this order:

1. the NXDN control channel, on `AffiliationLookup` as P25;
2. `TagDMRData` in `FneCalls`. None of the properties of `FneCalls` but
   `RtpKeptDuringCalls` would hold of it as it is written (see above): voice without a
   header is repeated whatever the status;
3. NXDN calls of a host, as `P25Calls`;
4. `RESTClient`'s one response and flag, which the threads of a host share;
5. Host modes and the modem's writer threads; the reload threads of the talkgroup
   and radio tables;
6. proofs: that the P25 calls implement an abstract floor that one side holds at a
   time, as the grants implement `ChannelPool`; the variants on which the liveness
   properties rest (a timer only ages).

Left out for good: the over-the-air codecs (bit manipulation over large domains,
partly covered by `src/tests`), calibration and setup screens, logging.
