# Verification of the kpppoe discovery engine, the HYSDN CAPI glue and hostapd's madwifi event handler

This directory holds TLA+ models of three independent components of the repository:

- the PPPoE discovery client, `src/progs.gpl/pppd.alpha/kpppoe/discovery.c`
  (`PPPoEDiscovery`, with the abstract service it implements, `PPPoEDiscoveryAbstract`);
- the CAPI glue of the HYSDN ISDN driver, `src/kernels/ar231x/drivers/isdn/hysdn/hycapi.c`
  (`HyCapi`, with the transmit queue its ring implements, `HyCapiQueue`);
- the routing-netlink wireless-event handler and station handling of hostapd's madwifi
  driver, `src/progs.gpl/hostapd-0.3.7/driver_madwifi.c` (`MadwifiEvents`).

For each there are TLC runs on a small instance, and TLAPS proofs, valid for every
value of the constants, of the safety invariants of all three and of the refinement of
each abstract specification. The violation runs record disagreements
between the code and what the spec, a comment or the code's own intent requires.

## The system

`kpppoe_discovery()` obtains a PPPoE session id and the Access Concentrator's (AC's)
MAC address through a four-step exchange: PADI, PADO, PADR, PADS. It runs
single-threaded, and its only suspension point is a `select()` with a timeout. It has
three parts:

| Part | Code | Modelled by |
|---|---|---|
| Discovery state machine | `kpppoe_discovery` 507-581, `sendPADI` 175-229, `waitForPADO` 231-366, `sendPADR` 368-433, `waitForPADS` 437-505, `parsePADOTags` 45-145, `parsePADSTags` 147-173 | `PPPoEDiscovery`: every action |
| Packet filter | `packetIsForMe` and `parseForHostUniq` 20-43; the length, `NOT_UNICAST` and peer checks at 273-299 and 468-482 | `packetIsForMe`, `DropsPADO`, `DropsPADS` |
| TLV codec | `kpppoe_parsePacket`, `CHECK_ROOM` (not in `src/`) | partly: frames are already decoded; the encoder is modelled by the sizes that `sendPADR` adds up, see `PADRLen` |

How the parts interact:

- The state machine sends a PADI, then reads frames until a timeout.
- Each frame passes through the filter. The state machine then walks the frame's tags
  with callbacks that set the scan flags and copy the cookie and the relay id into the
  connection.
- If a PADO is accepted, the state machine sends a unicast PADR that replays the cookie
  and the relay id.
- It then waits for a PADS from that peer, whose header carries the session id.
- Each phase retries up to `MAX_PADI_ATTEMPTS` times, and its timeout doubles after
  each attempt.

The HYSDN and madwifi components are described in their own sections below; the
remaining files under `src/` are listed at the end.

## Module `PPPoEDiscovery`

**State.** The variables come from `PPPoEConnection` and from the locals of
`kpppoe_discovery`:

- `conf`: the configuration flags and filters;
- `discoveryState`, `padiAttempts`, `padrAttempts`, `timeout`;
- `scan`: the `PacketCriteria` of the current `waitForPADO`;
- `cookie`, `relayId`, `peerEth`, `session`, `numPADOs`.

**Control and time.**

- `pc` is the program counter: which loop or wait the code is in, or how it ended.
  `Done` means it returned with SESSION, `TimedOut` that an attempt budget ran out,
  `Exited` an `exit(0)`, and `Aborted` an `exit(1)` on an error tag.
- `remaining` is the time left in the current `select()`.

**History variables.** These are not in the code; the properties use them:

- `padr`: the last PADR sent, or `Overflow` when `CHECK_ROOM` refused it;
- `accepted`: the last PADO accepted;
- `pads`: the PADS that ended discovery;
- `elapsed`: the time spent in the current wait.

**Frames.** A frame is a record holding:

- the destination and source addresses and the code;
- `lenOK`, the result of the declared-length check;
- one optional value per tag, with `NoTag` for an absent tag;
- `hostUniq`, which is `MyPid`, `OtherPid` or `NoTag`;
- `err`, true when the frame carries an error tag;
- the header's session id.

The network is the environment. At any step, any frame of the constant set `Frames` may
be read. This covers loss (no frame arrives), duplication and reordering (the same
frame arrives again, in any order), forgery and misaddressing.

**Actions.**

| Action | Code |
|---|---|
| `Start` | the skip-discovery exits, 513-535 |
| `SendPADI` | one turn of the PADI loop, 537-547: the budget test, then `sendPADI` and entering SENT_PADI |
| `Tick` | one time unit of a `select()` |
| `PADOWaitEnds` | the `select()` timeout or failure in `waitForPADO`, 254-266, followed by `EndPADIAttempt` (the rest of the loop turn, 549-563) |
| `ReceivePADO(f)` | one frame read by `waitForPADO`, 268-365; see below |
| `SendPADR` | one turn of the PADR loop, 564-574, building the PADR the way `sendPADR` does |
| `PADSWaitEnds` | the PADS wait ends, 445-463 and 575 |
| `ReceivePADS(f)` | one frame read by `waitForPADS`, 465-504, which on a PADS ends discovery |

`ReceivePADO(f)` covers every branch of the loop body:

- the filters drop the frame;
- an error tag exits the process;
- the scan flags are updated and the cookie and relay id are copied;
- the frame is ignored because a tag was never seen;
- the PADO is counted, and `peerEth` is set if it is accepted;
- on acceptance outside probe mode, the state becomes RECEIVED_PADO and the loop turn
  finishes.

Each frame that does not end the wait goes round the loop, whose first statement resets
`tv` (line 248). The model therefore resets `remaining` to `timeout` for it.

A `select()` failure other than EINTR is modelled as a wait that ends early (the
`remaining > 0` disjunct).

The variable `fatal` is a history variable: the frame whose error tag caused the
`exit(1)`, or `NoFrame`.

## Runs of the discovery engine

The runs use `MC_PPPoEDiscovery` (and `MC_PPPoEDiscovery_IInv`, which adds the
inductive invariant of the proofs to it). Its addresses are `Me`, two ACs `a1` and `a2`, a
broadcast address, and one other host. Its frames are:

- PADOs from a1, a2 and the broadcast address, with every combination of present or
  absent AC-Name, Service-Name, cookie and relay tags, of our own or another Host-Uniq,
  and with or without an error tag;
- PADSs from a1 and a2, with session id 0 and with 0x1234;
- a frame addressed to someone else, a frame with a bogus length, and a PADT.

a1 offers a 1000-byte cookie and a2 a 600-byte relay id. Together they exceed the
1494-byte payload, so the `CHECK_ROOM` path is reached. There are 20 configurations:
with and without Host-Uniq, probing or not, with and without each filter, plus the
skip-discovery paths. The bounds are as follows:

- `MaxAttempts = 3` gives the first attempt, a retry after a doubled timeout, and
  running out of the budget.
- `BaseTimeout = 1` keeps the timers small while still doubling them (1, 2, 4).
- `MaxPADOs = 2` lets two ACs' offers combine in one wait.

| Run | Expect | What it shows |
|---|---|---|
| `discovery` | pass, 804,516 states | `TypeOK`; `RequestGoesToOfferer` (a PADR goes only to the source of a PADO that passed every filter); `SessionFromPeer` (the session id is set exactly by a PADS from the chosen peer, addressed to us); `BackoffSchedule` (the timeout of each wait is the base timeout doubled once per earlier attempt of the phase, reset for PADR, never doubled in probe mode); `AbortedByVettedFrame` (the process exits on an error tag only for a frame that passed every filter of its phase, and never for a PADO in probe mode); the proofs' `IInv`; the action properties `PhaseNeverRegresses` (`discoveryState` never moves back) and `PeerWrittenOnce` (a written `peerEth` changes only while probing, in the PADI phase, with no PADR sent); and `AbstractSpec`, the refinement below. |
| `discovery_liveness` | pass | `DiscoveryEnds`: under `FairSpec`, if from some point on no frame is read, discovery ends in `Done`, `TimedOut`, `Exited` or `Aborted`. |
| `cookie_echo` | violation of `CookieEchoed` | A PADR can replay the cookie of a PADO that was rejected (lines 85, 100). |
| `accepted_offer` | violation of `AcceptedOfferWellFormed` | The scan flags accumulate across PADOs (lines 239-244), so an offer without an AC-Name tag can be accepted. |
| `wait_deadline` | violation of `WaitWithinDeadline` | Every unwanted frame restarts the wait (lines 248, 447), so a wait can outlast its timeout. |

Each property of a passing run has a mutant in `PROJECT.json` that it catches: the
budget test one attempt late; the unicast check dropped (caught by
`RequestGoesToOfferer`, `AbortedByVettedFrame` and `AbstractSpec`); the PADS peer check
dropped; the timeout not reset between the phases; the PADI loop condition tested
against SESSION instead of SENT_PADI (caught by `PhaseNeverRegresses` and
`PeerWrittenOnce`); and a `select()` whose timer never counts down (caught by
`DiscoveryEnds`).

**Fairness.** `FairSpec` assumes weak fairness of `Start`, `SendPADI`, `SendPADR` and
`Tick`, and of `TimerExpires`, the timeout disjunct of the two wait-end actions
(`remaining = 0`). The engine is a single process that never blocks except in
`select()`, so its own steps are taken; time passes, and `select()` returns when its
timer expires. Fairness is not put on a `select()` failure (the code cannot rely on
one) nor on frame arrival. The network is assumed to go quiet eventually
(`<>[][~FrameRead]_vars`) because the code restarts its deadline on every frame (the
`wait_deadline` finding): without that assumption a sender of unwanted frames keeps the
engine waiting forever, and `DiscoveryEnds` would fail for that reason only.

## The abstract discovery service (`PPPoEDiscoveryAbstract`)

What `kpppoe_discovery()` promises its caller, without frames, timers or attempt
counters. Its state is `state`, `peer`, `session`, `probe` and `outcome`, and its
actions are `Skip` (discovery skipped), `Solicit` (a PADI is (re)sent), `Offer(p)`
(an offer from unicast host `p` is taken; in probe mode the state stays SENT_PADI),
`Request` (a PADR is (re)sent to the peer, never in probe mode), `Confirm(s)` (the
peer's session id) and `GiveUp` (timeout, end of a probe, or an error tag).

`PPPoEDiscovery` implements it under the mapping `state <- discoveryState`,
`peer <- peerEth`, `session <- session`, `probe <- conf.printACNames` and
`outcome <- Outcome`, where `Outcome` reads the outcome off `pc`. Every step of the
engine is a step of the abstract service or a stutter: ticks, dropped frames, scanned
tags and counted but unaccepted offers change nothing the caller sees.

## Proofs (`PPPoEDiscovery_proofs`)

The constants carry named assumptions in `PPPoEDiscovery`:

- `MacsAssumption`, `PayloadsAssumption`, `SessionsAssumption`: the sets of addresses,
  tag values and session ids;
- `FramesAssumption`, `ConfigsAssumption`: frames and configurations are well-typed
  records;
- `BoundsAssumption`: the budget and the base timeout are positive naturals;
- `MarkersAssumption`: the marker values are distinct from real frames and PADRs.

TLC evaluates them on every run.

The theorems, in `PPPoEDiscovery_proofs`:

| Theorem | Statement |
|---|---|
| `IInvHolds` | `Spec => []IInv` |
| `TypeCorrect` | `Spec => []TypeOK` |
| `RequestGoesToOffererHolds` | `Spec => []RequestGoesToOfferer` |
| `SessionFromPeerHolds` | `Spec => []SessionFromPeer` |
| `AbortedByVettedFrameHolds` | `Spec => []AbortedByVettedFrame` |
| `PeerWrittenOnceHolds` | `Spec => PeerWrittenOnce` |
| `PhaseNeverRegressesHolds` | `Spec => PhaseNeverRegresses` |
| `Refinement` | `Spec => AbstractSpec` |
| `BackoffInvHolds` | `Spec => []BackoffInv` |
| `BackoffScheduleHolds` | `Spec => []BackoffSchedule` |

None of these properties is inductive on its own. For example, `RequestGoesToOfferer`
needs to know that `peerEth` and `accepted` are not touched during the PADR phase, and
that no PADR exists before a PADO was accepted. `IInv` is `CoreInv /\ ExtInv`.
`CoreInv` is `TypeOK` with four named parts:

- `PhaseInv`: which counters and which history exist in each `pc`;
- `PeerInv`: `accepted` passed `DropsPADO` and set `peerEth`;
- `PADRInv`: a PADR was sent to `peerEth` after an acceptance;
- `PADSInv`: the PADS passed `DropsPADS`, set `session`, and only in `Done`.

`ExtInv` adds what the later theorems need:

- `StateInv`: which `discoveryState` and attempt counts go with each `pc` (a PADR loop
  is entered only from RECEIVED_PADO, and retried only from SENT_PADR);
- `ProbeInv`: probe mode never reaches the PADR phase, and a `peerEth` written during
  the PADI phase means probe mode;
- `FatalInv`: `fatal` is set exactly in `Aborted`, to a frame that passed the filters of
  the phase it was read in.

The proof has these parts:

- `InitCore` and `InitExt` prove that the initial states satisfy `IInv`.
- There is one lemma per action for each layer (`StartExt`, `SendPADIExt`, ...), each a
  case split on the action's branches, with one step per part that the branch can
  disturb; frame lemmas (`StateInvFrame`, ...) dispose of the parts a branch leaves
  alone. `NextCore` and `NextIInv` combine them.
- The safety theorems follow by PTL. `PeerWrittenOnceHolds` uses the lemma
  `PeerChangeStep`: from `IInv`, a step that changes a written `peerEth` is a probe-mode
  `ReceivePADO` in the PADI phase. `PhaseNeverRegressesHolds` uses `RankStep`: from
  `StateInv` and `PhaseInv`, each loop turn sends from the state its loop runs in
  (`SendPADI` from INIT or SENT_PADI, `SendPADR` from RECEIVED_PADO or SENT_PADR), and
  a PADO is accepted only in SENT_PADI.
- `Refinement`: `InitRefines` maps an initial state to an abstract initial state; one
  lemma per action (`ReceivePADORefines`, ...) shows that each step, from a state
  satisfying `IInv`, is an abstract step or leaves the abstract variables unchanged;
  `NextRefines` combines them and PTL concludes.
- `BackoffInvHolds` and `BackoffScheduleHolds`. The factor 2^k of the schedule is the recursive function
  `Pow2` of `PPPoEDiscovery`, not `^`: the provers have no axioms for `^` (not even
  `2^(n+1) = 2 * 2^n`), while `NatInductiveDef` gives the defining equation of a
  recursive function (`Pow2Def`, `Pow2Facts`: `Pow2[0] = 1`, `Pow2[k+1] = 2 * Pow2[k]`).
  The two forms agree, so the runs check the same schedule as before. The inductive
  invariant is `BackoffInv`: besides the schedule at each wait, it fixes the timeout
  at the head of each loop (the base in `Start`; the base times `Pow2[padiAttempts]`
  at the PADI head outside probe mode; the base times `Pow2[padrAttempts]` at the PADR
  head). `BackoffSchedule` alone is not inductive: a wait that ends doubles whatever
  the timeout was, and only the loop-head fact says what that was. TLC checked
  `BackoffInv` on the discovery instance before it was proved. That `Pow2[k]` is a positive natural needs induction over
  `Nat`, which the provers cannot instantiate, so it is carried along the run:
  `Pow2Upto` says it for every k up to the number of attempts so far, and
  `Pow2UptoStep` extends it by one index when an attempt is counted (`Pow2Extend`).
  `BackoffStep` has one case per action and uses `DoubleTimeout` for the two doubling
  steps. `BackoffInvHolds` is proved from these facts, and `BackoffScheduleHolds`
  follows from it. TLC checked `Pow2Upto` on the discovery instance as well.

Only TLC checks the following:

- `DiscoveryEnds`: liveness and `ENABLED` are beyond the prover's reach;
- the violations.

## Module `HyCapi`

**The component.** Three kinds of caller drive `hycapi.c`: kernel CAPI (kcapi) calls
`register_appl`, `release_appl`, `send_message` and `reset_ctr` from process context,
one at a time; the card's interrupts call `tx_capiget`/`tx_capiack` (the transmit
ring's head) and `rx_capipkt`; the board code calls `capi_create`, `capi_stop` and
`capi_release`. One card with one controller is modelled.

**State.** `cinfo` (the card's `hyctrlinfo` exists), `ctrl` (the controller: none,
ready, stopped), `appl` (per application: the ctrl_mask bit, the clamped register
params, whether a LISTEN_REQ copy is stored), `kreg` (what kcapi believes
registered), `suspended` (kcapi's output suspension), the ring `skbs`, `inIdx`,
`outIdx`, `skCount`, `drv` (a kcapi call or a restart between two enqueues),
`restarts`, and the history variables `lastSent`, `lost` and `rxFault`.

**Actions.** `RegisterAppl` (register_appl with the parameter clamping `ClampRp`),
`ReleaseAppl` (release_appl and release_internal), `SendMessage` and `SendRest` (the
two halves of send_message: the on-the-fly registration, then the command switch and the
enqueue), `ResetCtr`, `CapiCreate` (first creation, or ready again after a reboot,
starting `restart_internal`), `RestartStep` (one enqueue of restart_internal),
`CapiStop`, `CapiRelease` (capi_release with remove_ctr), `CardTx` (tx_capiget then
tx_capiack) and `RxCapiPkt`. Every GFP_ATOMIC allocation may fail (`AllocResults`).
Message bytes are abstracted to an application and a command.

**Runs** (`MC_HyCapi`: two applications, a three-slot ring, `MaxDataWindow = 8`, two
B channels, one reboot, failing allocations, and six packets from the card: DATA_B3_INDs
with MsgLen 30, 22 and 26 (with len above and below it) and two connection messages). Three slots are the fewest in which a full
ring, a wrap of both indices and an overwrite can all happen; one reboot is enough for
`restart_internal` to replay the table into a non-empty ring.

| Run | Expect | What it shows |
|---|---|---|
| `hycapi` | pass, 1,846,459 states (module `MC_HyCapi_IInv`) | `TypeOK`; `SuspendedIffFull` (while the card's cinfo exists, kcapi's output is suspended exactly when the ring holds `HYSDN_MAX_CAPI_SKB` entries or more, through enqueues, acks, reboots and releases); `MaskMeansRegisterQueued` (a set ctrl_mask bit always has a REGISTER queued after the application's last RELEASE); the action property `ReleaseOnlyAfterRegister` (a step that queues a RELEASE for an application does so only when the last REGISTER/RELEASE queued for it was a REGISTER, so the card never sees a RELEASE of an unknown application or two in a row); the proofs' `RingInv`; `QueueSpec` (the refinement below: the ring read from `out_idx` is the first-in first-out queue of `HyCapiQueue`). |
| `hycapi_lost` | violation of `NoLostMessage` | One `send_message` for an unregistered application enqueues twice, and the second enqueue overwrites an unsent entry of a full ring. |
| `hycapi_drains` | violation of `QueueDrains` | Under `FairSpec` (the card's transmit interrupt and a kcapi call in progress are not postponed forever), a failed `skb_copy` in `restart_internal` queues NULL and the ring never drains. |
| `hycapi_mask` | violation of `KcapiAgreesWithMask` | A release whose allocation fails leaves the ctrl_mask bit set for an application kcapi has released. |
| `hycapi_rx` | violation of `RxWithinBounds` | `rx_capipkt` copies past its buffer when MsgLen > len, and when MsgLen is 23 to 29 whatever len is (the buffer leaves 30 - MsgLen bytes for the 8-byte pad). It also indexes the table with the card's ApplId unchecked. |

### The transmit queue (`HyCapiQueue`)

`HyCapiQueue` states what the ring promises the card, without slots or indices: a
sequence `queue` of at most `Capacity` entries and a history flag `lost`. `Put(e)`
appends to a queue with room. `Overfill` is an enqueue on a full queue: the queue is
emptied and `lost` set, after which nothing more is promised. `Take` removes the head
when it is not the NULL entry (the card does not acknowledge a NULL that `tx_capiget`
returns). `Clear` empties the queue.

`HyCapi` instantiates it as `Queue` with the refinement mapping `RingQueue`: the
`sk_count` entries read from `out_idx` on (`Pos(k)` is the slot `k` places after
`out_idx`, wrapped once), or the empty queue once `lost` is set. `QueueSpec` is
`Queue!Spec`, a PROPERTY of the `hycapi` run. The mutant of `tx_capiack` that advances
`out_idx` without setting the slot to NULL (`CardTxNoClear`) violates it, and so does a
card that acknowledges a NULL head as if it had sent an entry (`CardTxNullHead`, the
mutant the run is checked against). `RingInv` does not catch the second: the ring keeps
its shape, and only the queue view sees that an entry nobody queued was taken.

`lost` is a history variable. `SendMsgInternal` sets it when the entry lands on a slot
that still holds an unsent entry, and also when `sk_count` has already reached
`HYSDN_MAX_CAPI_SKB`. The second case is needed because the head of a full ring may be a
queued NULL (a failed `skb_copy` in `restart_internal`): the overwrite of a NULL head
destroys a queued entry that the first test does not see.

### Proofs (`HyCapi_proofs`)

`HyCapi` names two assumptions: `HyCapiAssumption` (positive application and ring
bounds, a natural reboot budget) and `NoSkbAssumption` (NULL is no message). TLC
evaluates both on every HyCapi run.

| Theorem | Statement |
|---|---|
| `IInvHolds` | `Spec => []IInv` |
| `TypeCorrect` | `Spec => []TypeOK` |
| `SuspendedIffFullHolds` | `Spec => []SuspendedIffFull` |
| `MaskMeansRegisterQueuedHolds` | `Spec => []MaskMeansRegisterQueued` |
| `ReleaseOnlyAfterRegisterHolds` | `Spec => ReleaseOnlyAfterRegister` |
| `RingInvHolds` | `Spec => []RingInv` |
| `QueueRefinement` | `Spec => QueueSpec` |
| `RxOverflowsExactly` | for a DATA_B3_IND with a word len and MsgLen < 30: `RxOverflows(p) <=> len < MsgLen \/ MsgLen > 22 \/ len + 30 - MsgLen >= 65536` |

`IInv` is `TypeOK /\ DrvOK /\ SuspendedIffFull /\ MaskMeansRegisterQueued`. `TypeOK`
alone is not inductive. `SendRest` queues `drv.m` and `RestartStep` indexes the table
with `drv.i`, so a step keeps the ring and the table typed only when `drv` is idle,
a kcapi message of a registered-range application, or a restart position in
`1..MaxAppl+1`. `DrvOK` states that. TLC checked `IInv` in the `hycapi` run before it
was proved.

The proof has these parts:

- Operator lemmas:
  - `EnqueueStep`: what `SendMsgInternal` does to the ring, the count, the suspension
    flag and `lastSent`;
  - `RegisterStep`: what `RegisterInternal` does to the mask bits, for either
    allocation outcome;
  - `SuspendAfterEnqueue`: an enqueue preserves `SuspendedIffFull`.
- One lemma per action (`ReleaseApplStep`, `SendRestStep`, `RestartStepStep`,
  `CardTxStep`, ...). `CardTxStep` splits on `skCount` below, at and above `MaxSkb`,
  which are the cases of `resume_output`.
- `NextIInv` combines the action lemmas, and PTL gives the theorems.
- `ReleaseOnlyAfterRegisterHolds` uses `ReleaseStep`. That lemma shows that under
  `IInv` each step which puts a RELEASE on the ring (`Enqueues`: the count goes up by
  one and the entry at `in_idx` is that RELEASE) is a `ReleaseAppl` that passed the
  `chk == 1` test. The mask bit of that application is therefore set, and
  `MaskMeansRegisterQueued` gives the REGISTER. Every other enqueue carries a REGISTER,
  a kcapi command (`DrvOK`) or a NULL copy (`NoReleaseEnqueued`, via `EnqueueAt`). The
  remaining steps keep or lower the count (`NoEnqueue`). This is why the property needs
  the invariant: without `MaskMeansRegisterQueued`, a set bit says nothing about
  `lastSent`. The mutant that sets the bit before the allocation is checked
  (`RegisterInternalMaskFirst`) violates it.

`QueueRefinement` shows that `HyCapi` implements `HyCapiQueue`. `RingQueue` is a
sequence only if the slots agree with the indices. This agreement is `RingInv`: before
any loss, `sk_count <= HYSDN_MAX_CAPI_SKB`, `in_idx = Pos(sk_count)`, and every slot
from `Pos(sk_count)` to the end of the ring is NULL. TLC checked `RingInv` in the
`hycapi` run before it was proved. The proof has these parts:

- `Pos` lemmas:
  - `PosFacts`: positions are slots, distinct below the ring size, and `Pos(0)` and
    `Pos(MaxSkb)` are `out_idx`;
  - `PosAdvance`: after `tx_capiack`'s wrap, position `k` is the old position `k + 1`;
  - `PosNext`: `sendmsg_internal`'s wrap of `in_idx` is the next position.
- `RingQueueSeq`: before a loss, `RingQueue` is a sequence of `sk_count` entries.
- One lemma per kind of ring step:
  - `RingEnqueue`: `SendMsgInternal` is a `Put` when the count is below the ring size
    and no loss has occurred (the entry lands in the first free slot, so the new
    `RingQueue` is the old one with the entry appended, by `AppendProperties` and
    `SeqEqual`), an `Overfill` on a full ring, and a stutter after a loss;
  - `RingTake`: `CardTx` is a `Take` (the head `skbs[out_idx]` is not NULL; the new
    `RingQueue` is the `Tail`, by `HeadTailProperties`);
  - `RingCreate`: a new cinfo is a `Clear`;
  - `RingKeep`: every other step is a stutter.
- `RingStep` follows `Next` action by action, using `IInv` for the messages that
  `SendRest` and `RestartStep` queue. `RingInit` maps `Init` to `Queue!Init`, and PTL
  gives both theorems.

`RxOverflowsExactly` gives the exact condition under which `rx_capipkt`'s conversion
to the 64-bit layout overruns its buffer. The copies total `len + 8` bytes and the
buffer holds `(len + 30 - MsgLen) % 2^16` bytes. Besides MsgLen > len (the copy length
wraps) and a wrapped size, every MsgLen from 23 to 29 overruns the buffer. The
`hycapi_rx` finding cites this. The statement bounds len by 65535 with `<=`: tlapm
times out on the literal interval `0..65535`.

`QueueDrains` (liveness) stays with TLC.

## Module `MadwifiEvents`

**The component.** hostapd runs one thread in an event loop; when the routing-netlink
socket is readable, `madwifi_wireless_event_receive` reads one datagram into a 256-byte
stack buffer and walks it with three nested loops: netlink messages, the attributes of
an RTM_NEWLINK for our interface (`_rtm_newlink`), and the wireless events of an
IFLA_WIRELESS attribute (`_wireless`), which call `madwifi_new_sta` and
`madwifi_del_sta`.

**State.** `buf` (the datagram: a map from byte offsets to the headers the kernel wrote
there), the loop variables `left`, `o`, `cur`, `ao`, `alen`, `rlen`, `ipos`, `iend`, the
program counter `pc`, the configuration `conf` hostapd was started with (`wpa`, and
`js_p1` of a JUMPSTART build, chosen in `Init` from `Confs` and never changed), the station table `sta` (present, WLAN_STA_ASSOC, wpa_ie), and the
history variables `overread` and `handled`. A header read where nothing was written, or
past the received bytes, yields any value of a `Stale` set (zeroes or a header an
earlier datagram left in the buffer); an nlmsghdr read as an rtattr is converted as on
the big-endian target.

**Actions.** `Receive` (recvfrom), `NlStep`, `AttrStep` and `IweStep`, one turn of each
loop, including every early return; the station operations are the operators `NewSta`
(with `WpaIe` for process_wpa_ie and its five outcomes), `NewStaFull` and `DelSta`,
applied inside `IweStep`. `NewSta` has one disjunct per branch of lines 629-642: WPA on
in a JUMPSTART build's P1 mode (`SkipWpaIe`: no IE is processed, the station is
associated with whatever IE it had, as the comment at line 631 says), WPA on otherwise
(process_wpa_ie, and a failure returns before WLAN_STA_ASSOC), and WPA off (the IE is
dropped). The constant `Jumpstart` says whether the build defines JUMPSTART; no build
file in `src/` does, so both values are meaningful.

**Runs** (`MC_MadwifiEvents`: four datagrams as rtnetlink writes them, covering a
message for another interface, a non-NEWLINK message before and after, a non-wireless
attribute, a custom event, and an EXPIRED/REGISTERED pair; two stations, a one-entry
table, a JUMPSTART build started with WPA off, with WPA on, or with WPA on in P1 mode;
every branch of `NewSta` runs).

| Run | Expect | What it shows |
|---|---|---|
| `madwifi` | pass, 1,306 states | `TypeOK`; `EventsFromKernel` (every event acted on is one the kernel wrote in an IFLA_WIRELESS of an RTM_NEWLINK for our interface, at that offset); `AssocNeedsValidIe` (an action property: with WPA on, outside P1 mode, a station gains WLAN_STA_ASSOC only in a step whose IE process_wpa_ie fetched, validated and stored; in P1 mode the code associates without an IE on purpose, and the property says so); `WalkTerminates` (under weak fairness of the three loop steps: the handler runs to its end once called) every walk ends whatever lengths it reads. |
| `madwifi_overread` | violation of `NoOverread` | `attrlen` (line 753) omits the nlmsghdr, so the attribute walk of the last message reads past the received bytes. |

### Proofs (`MadwifiEvents_proofs`)

`DatagramAssumption` in `MadwifiEvents` types the constants with the C types of the
header fields:

- `nlmsg_len` and `nlmsg_type` are unsigned, and so are `rta_len` and `rta_type`;
- an iw_event's `len` and data length are `__u16`, and its address is a station;
- `ifi_index` is an `int`;
- the `Stale` sets hold headers of the same shapes;
- some datagram exists, which `Init`'s choice of `buf` needs.

A `nlmsg_len` above 2^31 that turns negative in `int len` is rejected by `plen < 0`.
The model rejects it the same way, through `len > left`. TLC evaluates the assumption
on every Madwifi run.

| Theorem | Statement |
|---|---|
| `IInvHolds` | `Spec => []IInv` |
| `TypeCorrect` | `Spec => []TypeOK` |
| `AssocNeedsValidIeHolds` | `Spec => AssocNeedsValidIe` |

`IInv` is `TypeOK /\ cur \in Nat /\ rlen \in Nat`. Leaving rtm_newlink advances the
receive offset by `NLMSG_ALIGN(cur)`, and leaving the wireless loop advances the
attribute offset by `RTA_ALIGN(rlen)`. The offsets stay natural numbers only if those
saved lengths do.

The proof has these parts:

- `ReadsTyped`: every header a walk reads has its kind's shape, including an nlmsghdr
  converted to an rtattr.
- `StaUpdateTyped`: `NewSta` and `DelSta` keep the station entries typed; `WpaIeTyped`
  does the same for `WpaIe`. This is the part the `WpaIeDangling` mutant, a freed
  wpa_ie, breaks.
- One lemma per loop step.
- `AssocNeedsValidIeHolds`:
  - `StaChange`: only a wireless event changes the table, through `NewSta` or `DelSta`
    on the address the event carries;
  - `NewStaAssoc`: with WPA on outside P1 mode, `NewSta` sets the flag only on the
    `ok` outcome of `WpaIe`, which stores a validated IE. The theorem holds for every
    `Jumpstart` and every set of configurations; for a P1-mode configuration it
    promises nothing, because the code promises nothing there.

Only TLC checks the following:

- `EventsFromKernel`: the walk stays aligned with the kernel's headers only for the
  datagrams of the instance, each checked offset by offset. A proof for every datagram
  would need induction over the nesting of the datagram's messages and attributes.
- `WalkTerminates`: liveness.

## Not modelled

- `kpppoe_parsePacket` and `CHECK_ROOM` are not in `src/`. Frames are modelled already
  decoded.
- `openInterface`, `sendPacket`, `receivePacket` and `kpppoe_sendPADT` are external I/O.
  They appear only as the environment's frames and as the `Exited` outcome.
- In `hycapi.c`: `hycapi_init` and `hycapi_cleanup` (taken as done), a failing kmalloc of
  cinfo or `attach_ctr` in `capi_create`, the proc and firmware hooks (output only), the
  DATA_B3_REQ header rewrite, `free_ncci` and the REGISTER payload (`MessageBufferSize`
  overflows its `__u16`, which only changes what the card is told).
- In `driver_madwifi.c`: the custom-event text parser, the ioctl wrappers (one system
  call each, no state of this file), driver init/deinit, and the WPA and 802.1X modules
  the station operations notify. `wpa_ie_len` is not modelled.
- `config.h`, the mathopd server, the libupnp header, the ISDN and PHY headers, the
  RADIUS plugin and `mem_helper.h` are independent systems or pure declarations.

## Plan for later work

1. A TLV codec module for the PPPoE tags, checked against a reference definition.
