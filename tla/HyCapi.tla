------------------------------- MODULE HyCapi -------------------------------
(***************************************************************************)
(* The CAPI glue of the HYSDN driver, hycapi.c: the table of registered    *)
(* applications, the transmit ring the driver fills and the card drains,  *)
(* and the controller life cycle (create, stop, restart, release).         *)
(*                                                                         *)
(* One card with one controller (cnr = 1), so a ctrl_mask is one bit.      *)
(* Three kinds of caller interleave:                                       *)
(*  - kernel CAPI (kcapi) calls register_appl, release_appl and            *)
(*    send_message from process context, one call at a time (2.4 kernel,  *)
(*    no preemption); `drv` is where such a call is between two enqueues; *)
(*  - the card's transmit interrupt fetches and acknowledges the ring head *)
(*    (tx_capiget then tx_capiack, one interrupt), and its receive         *)
(*    interrupt hands a message up (rx_capipkt);                           *)
(*  - the board code creates, stops and releases the controller.           *)
(* The DATA_B3_REQ header rewrite and the message bytes are abstracted: a  *)
(* message is its application and command.                                 *)
(***************************************************************************)
EXTENDS Integers, FiniteSets

CONSTANTS
    MaxAppl,        \* CAPI_MAXAPPL: application ids are 1..MaxAppl
    MaxSkb,         \* HYSDN_MAX_CAPI_SKB: slots of the transmit ring
    MaxDataWindow,  \* CAPI_MAXDATAWINDOW
    BChans,         \* card->bchans
    Params,         \* the capi_register_params applications ask for
    RxPackets,      \* what the card may deliver to rx_capipkt
    CardEnabled,    \* the card's bit of hycapi_enable
    AllocMayFail,   \* alloc_skb / skb_copy with GFP_ATOMIC may return NULL
    MaxRestarts,    \* bound on restarts of a stopped controller
    NoSkb,          \* a NULL struct sk_buff pointer
    NoParams        \* the zeroed rp of a slot never registered

ASSUME HyCapiAssumption ==
    /\ MaxAppl \in Nat \ {0} /\ MaxSkb \in Nat \ {0}
    /\ MaxDataWindow \in Nat /\ BChans \in Nat \ {0}
    /\ CardEnabled \in BOOLEAN /\ AllocMayFail \in BOOLEAN
    /\ MaxRestarts \in Nat

Appls == 1..MaxAppl
Slots == 0..(MaxSkb - 1)

\* The commands the driver tells apart; REGISTER (0xa0) and RELEASE (0xa1)
\* are the driver's own, the others come from applications.
\* DISCONNECT_B3_RESP (free_ncci) and the DATA_B3_REQ rewrite act outside
\* the state modelled here, so DATA_B3_REQ stands for every such command.
KernelCmds == {"LISTEN_REQ", "DATA_B3_REQ"}
Cmds == KernelCmds \cup {"REGISTER", "RELEASE"}
Msgs == [appl : Appls, cmd : Cmds]
Msg(a, c) == [appl |-> a, cmd |-> c]

\* A NULL skb is no message.
ASSUME NoSkbAssumption == NoSkb \notin Msgs

\* The result of one GFP_ATOMIC allocation.
AllocResults == IF AllocMayFail THEN {TRUE, FALSE} ELSE {TRUE}

VARIABLES
    cinfo,      \* card->hyctrlinfo is allocated
    ctrl,       \* cinfo->capi_ctrl: "none", or its kcapi state
    appl,       \* hycapi_applications[]: ctrl_mask bit, rp, listen_req
    kreg,       \* applications kcapi believes registered at this controller
    suspended,  \* kcapi's output to this controller is suspended
    skbs, inIdx, outIdx, skCount,   \* the ring of cinfo
    drv,        \* the kcapi call in progress
    restarts,   \* reboots so far (bounded by MaxRestarts)
    lastSent,   \* history: last REGISTER/RELEASE queued per application
    lost,       \* history: an entry was queued over an unsent one
    rxFault     \* history: rx_capipkt wrote or read out of bounds

vars == <<cinfo, ctrl, appl, kreg, suspended, skbs, inIdx, outIdx,
          skCount, drv, restarts, lastSent, lost, rxFault>>
ring == <<skbs, inIdx, outIdx, skCount, lost, lastSent>>

Idle == [op |-> "idle"]
EmptyAppl == [mask |-> FALSE, rp |-> NoParams, listen |-> FALSE]
EmptyRing == [i \in Slots |-> NoSkb]

\* _hycapi_appCheck for a valid id and cnr: is the ctrl_mask bit set?
AppCheck(a) == appl[a].mask

\* Mutant: the wrap test of in_idx one slot late.
SendMsgInternalLateWrap(m) ==
    /\ skbs' = [skbs EXCEPT ![inIdx] = m]
    /\ inIdx' = IF inIdx + 1 > MaxSkb THEN 0 ELSE inIdx + 1
    /\ skCount' = skCount + 1 /\ UNCHANGED outIdx
    /\ suspended' = (suspended \/ skCount + 1 >= MaxSkb)
    /\ lost' = (lost \/ skbs[inIdx] # NoSkb)
    /\ lastSent' = lastSent

\* hycapi_sendmsg_internal: the entry goes to in_idx, which wraps; the
\* count is raised and output is suspended once the ring is full. Nothing
\* stops an entry from landing on a slot still waiting to be sent: a slot
\* that holds one, or the head of a full ring (which may be a queued NULL).
SendMsgInternal(m) ==
    /\ skbs' = [skbs EXCEPT ![inIdx] = m]
    /\ inIdx' = IF inIdx + 1 >= MaxSkb THEN 0 ELSE inIdx + 1
    /\ skCount' = skCount + 1 /\ UNCHANGED outIdx
    /\ suspended' = (suspended \/ skCount + 1 >= MaxSkb)
    /\ lost' = (lost \/ skbs[inIdx] # NoSkb \/ skCount >= MaxSkb)
    /\ lastSent' = IF m # NoSkb /\ m.cmd \in {"REGISTER", "RELEASE"}
                   THEN [lastSent EXCEPT ![m.appl] = m.cmd] ELSE lastSent

\* Mutant: the mask bit set before the allocation is checked.
RegisterInternalMaskFirst(a, ok) ==
    /\ appl' = [appl EXCEPT ![a].mask = TRUE]
    /\ IF ok THEN SendMsgInternal(Msg(a, "REGISTER"))
          ELSE UNCHANGED <<suspended>> /\ UNCHANGED ring

\* hycapi_register_internal: when alloc_skb succeeds, set the mask bit and
\* queue the REGISTER through hycapi_send_message, where the bit is now set.
RegisterInternal(a, ok) ==
    IF ok THEN /\ appl' = [appl EXCEPT ![a].mask = TRUE]
               /\ SendMsgInternal(Msg(a, "REGISTER"))
          ELSE UNCHANGED <<appl, suspended>> /\ UNCHANGED ring

\* The register_params kcapi passes, clamped as hycapi_register_appl does.
ClampRp(rp) ==
    LET l3 == IF rp.level3cnt < 0 THEN BChans * (0 - rp.level3cnt)
              ELSE rp.level3cnt
    IN [level3cnt |-> IF l3 = 0 THEN BChans ELSE l3,
        datablkcnt |-> IF rp.datablkcnt > MaxDataWindow THEN MaxDataWindow
                       ELSE rp.datablkcnt,
        datablklen |-> IF rp.datablklen < 1024 THEN 1024 ELSE rp.datablklen]

\* After hycapi_init: attached to kcapi, the application table zeroed.
Init ==
    /\ cinfo = FALSE /\ ctrl = "none"
    /\ appl = [a \in Appls |-> EmptyAppl]
    /\ kreg = {} /\ suspended = FALSE
    /\ skbs = EmptyRing /\ inIdx = 0 /\ outIdx = 0 /\ skCount = 0
    /\ drv = Idle /\ restarts = 0
    /\ lastSent = [a \in Appls |-> "none"]
    /\ lost = FALSE /\ rxFault = FALSE

(***************************************************************************)
(* kcapi entry points.                                                     *)
(***************************************************************************)

\* hycapi_register_appl: an already registered id is refused without the
\* appl_registered callback; otherwise the clamped rp is stored.
RegisterAppl(a, rp) ==
    /\ drv = Idle /\ ctrl # "none" /\ a \notin kreg
    /\ IF AppCheck(a)
       THEN UNCHANGED <<appl, kreg>>
       ELSE /\ appl' = [appl EXCEPT ![a].rp = ClampRp(rp)]
            /\ kreg' = kreg \cup {a}
    /\ UNCHANGED <<cinfo, ctrl, suspended, drv, restarts, rxFault>>
    /\ UNCHANGED ring

\* hycapi_release_appl with hycapi_release_internal: the stored LISTEN_REQ is
\* freed; if registered, a RELEASE is queued and only then the bit cleared,
\* and an allocation failure returns with the bit still set. kcapi is told
\* appl_released in every case.
ReleaseAppl(a) ==
    /\ drv = Idle /\ ctrl # "none" /\ a \in kreg
    /\ \E ok \in AllocResults :
         LET relOk == AppCheck(a) /\ ok
         IN /\ appl' = [appl EXCEPT ![a].listen = FALSE,
                                    ![a].mask = IF relOk THEN FALSE ELSE @]
            /\ IF relOk THEN SendMsgInternal(Msg(a, "RELEASE"))
                        ELSE UNCHANGED <<suspended>> /\ UNCHANGED ring
    /\ kreg' = kreg \ {a}
    /\ UNCHANGED <<cinfo, ctrl, drv, restarts, rxFault>>

\* hycapi_send_message, first half: kcapi only sends on a running controller
\* whose output is not suspended. An application without its mask bit is
\* registered first (one enqueue); the message itself is left to SendRest.
SendMessage(a, c) ==
    /\ drv = Idle /\ ctrl = "ready" /\ ~suspended /\ a \in kreg
    /\ IF AppCheck(a)
       THEN UNCHANGED <<appl, suspended>> /\ UNCHANGED ring
       ELSE \E ok \in AllocResults : RegisterInternal(a, ok)
    /\ drv' = [op |-> "send", m |-> Msg(a, c)]
    /\ UNCHANGED <<cinfo, ctrl, kreg, restarts, rxFault>>

\* hycapi_send_message, second half: the command switch (a LISTEN_REQ
\* replaces the stored copy, which skb_copy may fail to make), then the
\* message is queued whatever became of the registration.
SendRest ==
    /\ drv.op = "send"
    /\ LET m == drv.m IN
       /\ IF m.cmd = "LISTEN_REQ"
          THEN \E ok \in AllocResults : appl' = [appl EXCEPT ![m.appl].listen = ok]
          ELSE UNCHANGED appl
       /\ SendMsgInternal(m)
    /\ drv' = Idle
    /\ UNCHANGED <<cinfo, ctrl, kreg, restarts, rxFault>>

\* hycapi_reset_ctr: kcapi resets the controller (ctrl->reseted).
ResetCtr ==
    /\ drv = Idle /\ ctrl = "ready"
    /\ ctrl' = "stopped"
    /\ UNCHANGED <<cinfo, appl, kreg, suspended, drv, restarts, rxFault>>
    /\ UNCHANGED ring

(***************************************************************************)
(* Board entry points.                                                     *)
(***************************************************************************)

\* hycapi_capi_create on a card without cinfo: a zeroed cinfo (empty ring),
\* a new controller attached to kcapi and made ready. With cinfo and a
\* controller (after a reboot): ready again, then hycapi_restart_internal.
CapiCreate ==
    /\ drv = Idle /\ CardEnabled /\ ctrl # "ready"
    /\ \/ /\ ~cinfo
          /\ cinfo' = TRUE /\ ctrl' = "ready" /\ kreg' = {}
          /\ skbs' = EmptyRing /\ inIdx' = 0 /\ outIdx' = 0 /\ skCount' = 0
          /\ suspended' = FALSE
          /\ UNCHANGED <<drv, restarts, lost, lastSent>>
       \/ /\ cinfo /\ ctrl = "stopped" /\ restarts < MaxRestarts
          /\ ctrl' = "ready" /\ restarts' = restarts + 1
          /\ drv' = [op |-> "restart", i |-> 1, stage |-> "reg"]
          /\ UNCHANGED <<cinfo, kreg, suspended, skbs, inIdx, outIdx, skCount,
                         lost, lastSent>>
    /\ UNCHANGED <<appl, rxFault>>

\* hycapi_restart_internal, one enqueue per step: for each id with its bit
\* set, REGISTER again with the stored rp, then queue a copy of the stored
\* LISTEN_REQ. The copy is not checked: a failed skb_copy queues NULL.
RestartStep ==
    /\ drv.op = "restart"
    /\ LET i == drv.i IN
       IF i > MaxAppl THEN drv' = Idle /\ UNCHANGED <<appl, suspended>>
                                      /\ UNCHANGED ring
       ELSE IF drv.stage = "reg" /\ AppCheck(i)
       THEN /\ \E ok \in AllocResults : RegisterInternal(i, ok)
            /\ drv' = [drv EXCEPT !.stage = "listen"]
       ELSE IF drv.stage = "listen" /\ appl[i].listen
       THEN /\ \E ok \in AllocResults :
                 SendMsgInternal(IF ok THEN Msg(i, "LISTEN_REQ") ELSE NoSkb)
            /\ drv' = [op |-> "restart", i |-> i + 1, stage |-> "reg"]
            /\ UNCHANGED appl
       ELSE /\ drv' = [op |-> "restart", i |-> i + 1, stage |-> "reg"]
            /\ UNCHANGED <<appl, suspended>> /\ UNCHANGED ring
    /\ UNCHANGED <<cinfo, ctrl, kreg, restarts, rxFault>>

\* hycapi_capi_stop (the card reboots): kcapi is told reseted; output is not
\* suspended and the ring is kept.
CapiStop ==
    /\ drv = Idle /\ cinfo /\ ctrl # "none"
    /\ ctrl' = "stopped"
    /\ UNCHANGED <<cinfo, appl, kreg, suspended, drv, restarts, rxFault>>
    /\ UNCHANGED ring

\* hycapi_capi_release and hycapi_remove_ctr: output suspended, every stored
\* LISTEN_REQ freed, the controller detached and cinfo freed with its ring.
\* The ctrl_mask bits are left as they are.
CapiRelease ==
    /\ drv = Idle /\ cinfo
    /\ suspended' = TRUE
    /\ appl' = [a \in Appls |-> [appl[a] EXCEPT !.listen = FALSE]]
    /\ ctrl' = "none" /\ cinfo' = FALSE /\ kreg' = {}
    /\ UNCHANGED <<drv, restarts, rxFault>>
    /\ UNCHANGED ring

(***************************************************************************)
(* Card interrupts.                                                        *)
(***************************************************************************)

\* Mutant: resume_output tested after the decrement (--sk_count == MAX).
CardTxPreDec ==
    /\ cinfo /\ skCount > 0 /\ skbs[outIdx] # NoSkb
    /\ skbs' = [skbs EXCEPT ![outIdx] = NoSkb]
    /\ outIdx' = IF outIdx + 1 >= MaxSkb THEN 0 ELSE outIdx + 1
    /\ skCount' = skCount - 1
    /\ suspended' = IF skCount - 1 = MaxSkb THEN FALSE ELSE suspended
    /\ UNCHANGED <<cinfo, ctrl, appl, kreg, inIdx, drv, restarts,
                   lastSent, lost, rxFault>>

\* Mutant: tx_capiack advances out_idx without setting the slot to NULL.
CardTxNoClear ==
    /\ cinfo /\ skCount > 0 /\ skbs[outIdx] # NoSkb
    /\ outIdx' = IF outIdx + 1 >= MaxSkb THEN 0 ELSE outIdx + 1
    /\ skCount' = skCount - 1
    /\ suspended' = IF skCount = MaxSkb THEN FALSE ELSE suspended
    /\ UNCHANGED <<cinfo, ctrl, appl, kreg, skbs, inIdx, drv, restarts,
                   lastSent, lost, rxFault>>

\* Mutant: the card acknowledges a NULL head as if it had sent an entry.
CardTxNullHead ==
    /\ cinfo /\ skCount > 0
    /\ skbs' = [skbs EXCEPT ![outIdx] = NoSkb]
    /\ outIdx' = IF outIdx + 1 >= MaxSkb THEN 0 ELSE outIdx + 1
    /\ skCount' = skCount - 1
    /\ suspended' = IF skCount = MaxSkb THEN FALSE ELSE suspended
    /\ UNCHANGED <<cinfo, ctrl, appl, kreg, inIdx, drv, restarts,
                   lastSent, lost, rxFault>>

\* hycapi_tx_capiget returns the head entry when sk_count > 0; the card
\* sends it and calls hycapi_tx_capiack, which frees the head, advances
\* out_idx and resumes output when the count falls from a full ring. A NULL
\* head reads as "nothing to send".
CardTx ==
    /\ cinfo /\ skCount > 0 /\ skbs[outIdx] # NoSkb
    /\ skbs' = [skbs EXCEPT ![outIdx] = NoSkb]
    /\ outIdx' = IF outIdx + 1 >= MaxSkb THEN 0 ELSE outIdx + 1
    /\ skCount' = skCount - 1
    /\ suspended' = IF skCount = MaxSkb THEN FALSE ELSE suspended
    /\ UNCHANGED <<cinfo, ctrl, appl, kreg, inIdx, drv, restarts,
                   lastSent, lost, rxFault>>

\* rx_capipkt's buffer: a DATA_B3_IND shorter than the 64-bit layout gets
\* len + (30 - MsgLen) bytes (a __u16), and MsgLen, 8 and len - MsgLen bytes
\* are put into it; anything else is copied as is. The last length is an
\* unsigned int: when MsgLen > len it is above 2^31, past any __u16 buffer.
RxConverts(p) == p.cmd = "DATA_B3_IND" /\ p.msgLen < 30
RxAlloc(p) == IF RxConverts(p) THEN (p.len + 30 - p.msgLen) % 65536 ELSE p.len
RxOverflows(p) == RxConverts(p) /\ (p.len < p.msgLen \/ p.len + 8 > RxAlloc(p))

\* hycapi_rx_capipkt: drops a message shorter than CAPI_MSG_BASELEN; a
\* successful CONNECT_B3_CONF or a CONNECT_B3_IND reads the rp of
\* hycapi_applications[ApplId-1] for the new NCCI's window.
RxCapiPkt(p) ==
    /\ cinfo /\ ctrl # "none" /\ p.len >= 8
    /\ rxFault' = (rxFault \/ RxOverflows(p)
                   \/ ((p.cmd = "CONNECT_B3_IND" \/ (p.cmd = "CONNECT_B3_CONF" /\ p.info = 0))
                       /\ p.appl \notin Appls))
    /\ UNCHANGED <<cinfo, ctrl, appl, kreg, suspended, drv, restarts>>
    /\ UNCHANGED ring

Next ==
    \/ \E a \in Appls, rp \in Params : RegisterAppl(a, rp)
    \/ \E a \in Appls : ReleaseAppl(a)
    \/ \E a \in Appls, c \in KernelCmds : SendMessage(a, c)
    \/ SendRest \/ RestartStep
    \/ ResetCtr \/ CapiCreate \/ CapiStop \/ CapiRelease
    \/ CardTx
    \/ \E p \in RxPackets : RxCapiPkt(p)

Spec == Init /\ [][Next]_vars

\* The card's transmit interrupt and the rest of a kcapi call in progress
\* are not postponed forever.
FairSpec == Spec /\ WF_vars(CardTx) /\ WF_vars(SendRest) /\ WF_vars(RestartStep)

-----------------------------------------------------------------------------
(***************************************************************************)
(* Properties.                                                             *)
(***************************************************************************)

TypeOK ==
    /\ cinfo \in BOOLEAN /\ ctrl \in {"none", "ready", "stopped"}
    /\ appl \in [Appls -> [mask : BOOLEAN, listen : BOOLEAN,
                           rp : {ClampRp(p) : p \in Params} \cup {NoParams}]]
    /\ kreg \subseteq Appls /\ suspended \in BOOLEAN
    /\ skbs \in [Slots -> Msgs \cup {NoSkb}]
    /\ inIdx \in Slots /\ outIdx \in Slots /\ skCount \in Nat
    /\ restarts \in 0..MaxRestarts
    /\ lastSent \in [Appls -> {"none", "REGISTER", "RELEASE"}]
    /\ lost \in BOOLEAN /\ rxFault \in BOOLEAN

\* Flow control of the transmit ring (sendmsg_internal and tx_capiack):
\* while the controller exists, kcapi's output is suspended exactly when the
\* ring holds at least HYSDN_MAX_CAPI_SKB entries, so kcapi is never blocked
\* by an emptying ring and never let in while it is full.
SuspendedIffFull ==
    cinfo => (suspended <=> skCount >= MaxSkb)

\* register_internal, release_internal and restart_internal: a ctrl_mask bit
\* is set only while the last REGISTER/RELEASE the driver queued for that
\* application is a REGISTER, whatever allocation failed on the way.
MaskMeansRegisterQueued ==
    \A a \in Appls : appl[a].mask => lastSent[a] = "REGISTER"

\* The step puts m on the transmit ring (sendmsg_internal at in_idx).
Enqueues(m) == skCount' = skCount + 1 /\ skbs'[inIdx] = m

\* release_appl calls release_internal only for chk == 1: the card is sent
\* a RELEASE for an application only when the last REGISTER/RELEASE the
\* driver queued for it was a REGISTER, so it never sees a RELEASE of an
\* application it was not told of, nor two RELEASEs in a row.
ReleaseOnlyAfterRegister ==
    [][\A a \in Appls : Enqueues(Msg(a, "RELEASE")) => lastSent[a] = "REGISTER"]_vars

\* The slot k places after out_idx, for k in 0..HYSDN_MAX_CAPI_SKB.
Pos(k) == IF outIdx + k < MaxSkb THEN outIdx + k ELSE outIdx + k - MaxSkb

\* The ring read as a queue: the sk_count entries from out_idx on, until an
\* entry was queued over an unsent one.
RingQueue == IF lost THEN <<>> ELSE [k \in 1..skCount |-> skbs[Pos(k - 1)]]

Queue == INSTANCE HyCapiQueue
           WITH queue <- RingQueue, Entries <- Msgs \cup {NoSkb},
                NoEntry <- NoSkb, Capacity <- MaxSkb

\* sendmsg_internal, tx_capiget/tx_capiack and capi_create: the ring is a
\* first-in first-out queue of HYSDN_MAX_CAPI_SKB entries; the card takes
\* entries in the order the driver queued them, a NULL head is never taken,
\* and only an enqueue on a full ring overwrites an entry not yet sent.
QueueSpec == Queue!Spec

\* register_appl ("the application is recorded in the internal list") and
\* release_appl ("release the application from the internal list"): on a
\* controller kcapi can call, an application's ctrl_mask bit is set only
\* while kcapi holds it registered, so a new registration of the id is
\* accepted.
KcapiAgreesWithMask ==
    ctrl # "none" => \A a \in Appls : appl[a].mask => a \in kreg

\* The comment of sendmsg_internal ("inform upper layers we're full"): no
\* entry is ever queued on a slot whose entry the card has not yet taken.
NoLostMessage == ~lost

\* tx_capiget/tx_capiack ("remove the msg from the internal queue"): under a
\* card that keeps polling, every queued entry of a running controller is
\* eventually taken off the ring.
QueueDrains ==
    \A i \in Slots :
        (skbs[i] # NoSkb /\ ctrl = "ready") ~> (skbs[i] = NoSkb \/ ctrl # "ready")

\* rx_capipkt: what the card delivers is copied within the skb allocated for
\* it, and the application table is indexed within bounds.
RxWithinBounds == ~rxFault

=============================================================================
