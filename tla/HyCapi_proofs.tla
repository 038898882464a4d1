---------------------------- MODULE HyCapi_proofs ----------------------------
(***************************************************************************)
(* Proofs about HyCapi, for every value of the constants that satisfies    *)
(* HyCapiAssumption: the type invariant, the flow control of the transmit  *)
(* ring (SuspendedIffFull) and the ctrl_mask bookkeeping of                *)
(* register_internal and release_internal (MaskMeansRegisterQueued).       *)
(*                                                                         *)
(* TypeOK is not inductive by itself: SendRest enqueues drv.m and          *)
(* RestartStep indexes the table with drv.i, so the call in progress must  *)
(* name an application of the table, and a message it carries must be one *)
(* kcapi sends (never a REGISTER or RELEASE, which would move lastSent).   *)
(***************************************************************************)
EXTENDS HyCapi, SequenceTheorems, TLAPS

(* The kcapi call or restart in progress: a send_message between its       *)
(* registration and its enqueue, or restart_internal at table entry i      *)
(* (i = MaxAppl + 1 once the loop is over).                                *)
DrvOK ==
    drv \in {Idle}
            \cup [op : {"send"}, m : [appl : Appls, cmd : KernelCmds]]
            \cup [op : {"restart"}, i : 1..(MaxAppl + 1), stage : {"reg", "listen"}]

IInv == TypeOK /\ DrvOK /\ SuspendedIffFull /\ MaskMeansRegisterQueued

(* The ring before any loss: at most HYSDN_MAX_CAPI_SKB entries, in_idx    *)
(* sk_count slots past out_idx, and every slot past the queued entries     *)
(* NULL, as tx_capiack leaves it.                                          *)
RingInv ==
    ~lost =>
        /\ skCount <= MaxSkb
        /\ inIdx = Pos(skCount)
        /\ \A k \in skCount..(MaxSkb - 1) : skbs[Pos(k)] = NoSkb

-----------------------------------------------------------------------------
(* The facts the steps keep needing about the constants and the messages.  *)
LEMMA ConstFacts ==
    /\ MaxAppl \in Nat \ {0} /\ MaxSkb \in Nat \ {0} /\ MaxRestarts \in Nat
    /\ Appls \subseteq Nat /\ 0 \in Slots
    /\ \A a \in Appls, c \in Cmds : Msg(a, c) \in Msgs
BY HyCapiAssumption DEF Appls, Slots, Msg, Msgs

(* The ring's count is a natural number under TypeOK.                      *)
LEMMA CountNat == TypeOK => skCount \in Nat
BY DEF TypeOK

(* An enqueue keeps output suspended exactly when the ring is full: the    *)
(* count goes up by one and sendmsg_internal suspends at the ring size.    *)
LEMMA SuspendAfterEnqueue ==
    ASSUME SuspendedIffFull, skCount \in Nat, suspended \in BOOLEAN,
           MaxSkb \in Nat, cinfo' = cinfo, skCount' = skCount + 1,
           suspended' = (suspended \/ skCount' >= MaxSkb)
    PROVE  SuspendedIffFull'
<1> SUFFICES ASSUME cinfo PROVE suspended' <=> skCount' >= MaxSkb
    BY DEF SuspendedIffFull
<1>1. suspended <=> skCount >= MaxSkb
    BY DEF SuspendedIffFull
<1>2. CASE skCount + 1 >= MaxSkb
    <2>1. skCount' >= MaxSkb
        BY <1>2
    <2>2. QED
        BY <2>1, Zenon
<1>3. CASE ~(skCount + 1 >= MaxSkb)
    <2>1. ~(skCount >= MaxSkb) /\ ~(skCount' >= MaxSkb)
        BY <1>3
    <2>2. QED
        BY <1>1, <2>1, Zenon
<1>4. QED
    BY <1>2, <1>3

(* hycapi_sendmsg_internal, for any entry the callers pass (a message of   *)
(* the table or a NULL skb): the ring keeps its type, the count goes up by *)
(* one, output is suspended once the count reaches the ring size, and      *)
(* only a REGISTER or RELEASE moves lastSent, for its own application.     *)
LEMMA EnqueueStep ==
    ASSUME TypeOK, NEW m \in Msgs \cup {NoSkb}, SendMsgInternal(m)
    PROVE  /\ skbs' \in [Slots -> Msgs \cup {NoSkb}]
           /\ inIdx' \in Slots /\ outIdx' = outIdx
           /\ skCount' = skCount + 1 /\ skCount' \in Nat
           /\ suspended' = (suspended \/ skCount' >= MaxSkb)
           /\ lost' \in BOOLEAN
           /\ lastSent' \in [Appls -> {"none", "REGISTER", "RELEASE"}]
           /\ m = NoSkb \/ m.cmd \in KernelCmds => lastSent' = lastSent
           /\ \A a \in Appls :
                 m # NoSkb /\ m.cmd \in {"REGISTER", "RELEASE"} /\ m.appl = a
                 => lastSent'[a] = m.cmd
           /\ \A a \in Appls :
                 ~(m # NoSkb /\ m.appl = a) => lastSent'[a] = lastSent[a]
<1>1. m \in Msgs => m.appl \in Appls /\ m.cmd \in Cmds
    BY DEF Msgs
<1>2. QED
    BY <1>1, ConstFacts DEF SendMsgInternal, TypeOK, Slots, Cmds, KernelCmds

(* The REGISTER that register_internal queues when its allocation works.   *)
LEMMA RegisterStep ==
    ASSUME TypeOK, NEW a \in Appls, NEW ok \in BOOLEAN, RegisterInternal(a, ok)
    PROVE  /\ appl' \in [Appls -> [mask : BOOLEAN, listen : BOOLEAN,
                           rp : {ClampRp(p) : p \in Params} \cup {NoParams}]]
           /\ \A b \in Appls : appl'[b].mask => appl[b].mask \/ lastSent'[b] = "REGISTER"
           /\ \A b \in Appls : appl[b].mask => appl'[b].mask
           /\ \A b \in Appls : lastSent'[b] # lastSent[b] => lastSent'[b] = "REGISTER"
           /\ \/ UNCHANGED <<suspended, skbs, inIdx, outIdx, skCount, lost, lastSent>>
              \/ /\ skbs' \in [Slots -> Msgs \cup {NoSkb}]
                 /\ inIdx' \in Slots /\ outIdx' = outIdx
                 /\ skCount' = skCount + 1 /\ skCount' \in Nat
                 /\ suspended' = (suspended \/ skCount' >= MaxSkb)
                 /\ lost' \in BOOLEAN
                 /\ lastSent' \in [Appls -> {"none", "REGISTER", "RELEASE"}]
<1>1. CASE ok
    <2>1. /\ appl' = [appl EXCEPT ![a].mask = TRUE]
          /\ SendMsgInternal(Msg(a, "REGISTER"))
        BY <1>1 DEF RegisterInternal
    <2>2. Msg(a, "REGISTER") \in Msgs
        BY ConstFacts DEF Cmds
    <2>3. Msg(a, "REGISTER") # NoSkb /\ Msg(a, "REGISTER").appl = a
          /\ Msg(a, "REGISTER").cmd = "REGISTER"
        BY <2>2, NoSkbAssumption DEF Msg
    <2> DEFINE r == Msg(a, "REGISTER")
    <2>4. /\ skbs' \in [Slots -> Msgs \cup {NoSkb}]
          /\ inIdx' \in Slots /\ outIdx' = outIdx
          /\ skCount' = skCount + 1 /\ skCount' \in Nat
          /\ suspended' = (suspended \/ skCount' >= MaxSkb)
          /\ lost' \in BOOLEAN
          /\ lastSent' \in [Appls -> {"none", "REGISTER", "RELEASE"}]
          /\ \A b \in Appls :
                r # NoSkb /\ r.cmd \in {"REGISTER", "RELEASE"} /\ r.appl = b
                => lastSent'[b] = r.cmd
          /\ \A b \in Appls : ~(r # NoSkb /\ r.appl = b) => lastSent'[b] = lastSent[b]
        BY <2>1, <2>2, EnqueueStep
    <2>5. \A b \in Appls : lastSent'[b] # lastSent[b] => b = a /\ lastSent'[b] = "REGISTER"
        BY <2>3, <2>4
    <2>6. appl' \in [Appls -> [mask : BOOLEAN, listen : BOOLEAN,
                           rp : {ClampRp(p) : p \in Params} \cup {NoParams}]]
        BY <2>1 DEF TypeOK
    <2>7. \A b \in Appls : appl'[b].mask = (IF b = a THEN TRUE ELSE appl[b].mask)
        BY <2>1 DEF TypeOK
    <2>8. lastSent'[a] = "REGISTER"
        BY <2>3, <2>4
    <2>9. QED
        BY <2>4, <2>5, <2>6, <2>7, <2>8
<1>2. CASE ~ok
    BY <1>2 DEF RegisterInternal, TypeOK, ring
<1>3. QED
    BY <1>1, <1>2

(* The parts of IInv that a step leaving the controller, the table, the    *)
(* ring and the call in progress alone cannot disturb.                     *)
LEMMA QuietStep ==
    ASSUME IInv, UNCHANGED <<cinfo, appl, suspended, drv, restarts>>,
           UNCHANGED ring,
           ctrl' \in {"none", "ready", "stopped"}, kreg' \subseteq Appls,
           rxFault' \in BOOLEAN
    PROVE  IInv'
BY DEF IInv, TypeOK, DrvOK, SuspendedIffFull, MaskMeansRegisterQueued, ring

-----------------------------------------------------------------------------
(* The initial state after hycapi_init satisfies IInv.                      *)
LEMMA InitIInv == Init => IInv
<1> SUFFICES ASSUME Init PROVE IInv
    OBVIOUS
<1>1. appl \in [Appls -> [mask : BOOLEAN, listen : BOOLEAN,
                  rp : {ClampRp(p) : p \in Params} \cup {NoParams}]]
      /\ \A a \in Appls : ~appl[a].mask
    BY DEF Init, EmptyAppl
<1>2. skbs \in [Slots -> Msgs \cup {NoSkb}] /\ inIdx \in Slots /\ outIdx \in Slots
    BY ConstFacts DEF Init, EmptyRing
<1>3. /\ restarts \in 0..MaxRestarts /\ skCount \in Nat /\ kreg \subseteq Appls
      /\ lastSent \in [Appls -> {"none", "REGISTER", "RELEASE"}]
    BY ConstFacts DEF Init
<1>4. /\ cinfo = FALSE /\ ctrl = "none" /\ suspended = FALSE
      /\ lost = FALSE /\ rxFault = FALSE
    BY DEF Init
<1>5. TypeOK
    BY <1>1, <1>2, <1>3, <1>4, Zenon DEF TypeOK
<1>6. QED
    BY <1>1, <1>5 DEF Init, IInv, DrvOK, SuspendedIffFull, MaskMeansRegisterQueued

(* hycapi_register_appl stores the clamped rp and leaves the mask alone.   *)
LEMMA RegisterApplStep ==
    ASSUME IInv, NEW a \in Appls, NEW rp \in Params, RegisterAppl(a, rp)
    PROVE  IInv'
<1>1. /\ UNCHANGED <<cinfo, ctrl, suspended, drv, restarts, rxFault>>
      /\ UNCHANGED ring
      /\ kreg' \subseteq Appls
      /\ appl' \in [Appls -> [mask : BOOLEAN, listen : BOOLEAN,
                      rp : {ClampRp(p) : p \in Params} \cup {NoParams}]]
      /\ \A b \in Appls : appl'[b].mask = appl[b].mask
    BY DEF RegisterAppl, IInv, TypeOK
<1>2. QED
    BY <1>1 DEF IInv, TypeOK, DrvOK, SuspendedIffFull, MaskMeansRegisterQueued, ring

(* hycapi_release_appl: the bit is cleared only together with the RELEASE  *)
(* it queues; a failed allocation leaves both alone.                       *)
LEMMA ReleaseApplStep ==
    ASSUME IInv, NEW a \in Appls, ReleaseAppl(a)
    PROVE  IInv'
<1>1. PICK ok \in AllocResults :
         /\ appl' = [appl EXCEPT ![a].listen = FALSE,
                                 ![a].mask = IF AppCheck(a) /\ ok THEN FALSE ELSE @]
         /\ IF AppCheck(a) /\ ok THEN SendMsgInternal(Msg(a, "RELEASE"))
            ELSE UNCHANGED <<suspended>> /\ UNCHANGED ring
    BY DEF ReleaseAppl
<1>2. /\ UNCHANGED <<cinfo, ctrl, drv, restarts, rxFault>>
      /\ kreg' \subseteq Appls
    BY DEF ReleaseAppl, IInv, TypeOK
<1>3. appl' \in [Appls -> [mask : BOOLEAN, listen : BOOLEAN,
                  rp : {ClampRp(p) : p \in Params} \cup {NoParams}]]
    BY <1>1 DEF IInv, TypeOK
<1>4. CASE AppCheck(a) /\ ok
    <2> DEFINE r == Msg(a, "RELEASE")
    <2>1. r \in Msgs /\ r # NoSkb /\ r.appl = a /\ r.cmd = "RELEASE"
        BY ConstFacts, NoSkbAssumption DEF Cmds, Msg
    <2>2. /\ skbs' \in [Slots -> Msgs \cup {NoSkb}]
          /\ inIdx' \in Slots /\ outIdx' = outIdx
          /\ skCount' = skCount + 1 /\ skCount' \in Nat
          /\ suspended' = (suspended \/ skCount' >= MaxSkb)
          /\ lost' \in BOOLEAN
          /\ lastSent' \in [Appls -> {"none", "REGISTER", "RELEASE"}]
          /\ \A b \in Appls : ~(r # NoSkb /\ r.appl = b) => lastSent'[b] = lastSent[b]
        BY <1>1, <1>4, <2>1, EnqueueStep DEF IInv
    <2>3. \A b \in Appls : appl'[b].mask = (IF b = a THEN FALSE ELSE appl[b].mask)
        BY <1>1, <1>4 DEF IInv, TypeOK
    <2>4. MaskMeansRegisterQueued'
        BY <2>1, <2>2, <2>3 DEF IInv, MaskMeansRegisterQueued
    <2>5. TypeOK'
        BY <1>2, <1>3, <2>2, Zenon DEF IInv, TypeOK
    <2>6. SuspendedIffFull'
        BY <1>2, <2>2, SuspendAfterEnqueue, ConstFacts DEF IInv, TypeOK
    <2>7. QED
        BY <1>2, <2>4, <2>5, <2>6 DEF IInv, DrvOK
<1>5. CASE ~(AppCheck(a) /\ ok)
    <2>1. UNCHANGED <<suspended, skbs, inIdx, outIdx, skCount, lost, lastSent>>
        BY <1>1, <1>5 DEF ring
    <2>2. \A b \in Appls : appl'[b].mask = appl[b].mask
        BY <1>1, <1>5 DEF IInv, TypeOK
    <2>3. QED
        BY <1>2, <1>3, <2>1, <2>2
        DEF IInv, TypeOK, DrvOK, SuspendedIffFull, MaskMeansRegisterQueued
<1>6. QED
    BY <1>4, <1>5

(* hycapi_send_message, first half: the on-the-fly registration.          *)
LEMMA SendMessageStep ==
    ASSUME IInv, NEW a \in Appls, NEW c \in KernelCmds, SendMessage(a, c)
    PROVE  IInv'
<1>1. /\ UNCHANGED <<cinfo, ctrl, kreg, restarts, rxFault>>
      /\ drv' = [op |-> "send", m |-> Msg(a, c)]
    BY DEF SendMessage
<1>2. DrvOK'
    BY <1>1 DEF DrvOK, Msg
<1>3. CASE AppCheck(a)
    <2>1. UNCHANGED <<appl, suspended>> /\ UNCHANGED ring
        BY <1>3 DEF SendMessage
    <2>2. QED
        BY <1>1, <1>2, <2>1
        DEF IInv, TypeOK, SuspendedIffFull, MaskMeansRegisterQueued, ring
<1>4. CASE ~AppCheck(a)
    <2>1. PICK ok \in AllocResults : RegisterInternal(a, ok)
        BY <1>4 DEF SendMessage
    <2>2. ok \in BOOLEAN
        BY DEF AllocResults
    <2>3. /\ appl' \in [Appls -> [mask : BOOLEAN, listen : BOOLEAN,
                           rp : {ClampRp(p) : p \in Params} \cup {NoParams}]]
          /\ \A b \in Appls : appl'[b].mask => appl[b].mask \/ lastSent'[b] = "REGISTER"
          /\ \A b \in Appls : appl[b].mask => appl'[b].mask
          /\ \A b \in Appls : lastSent'[b] # lastSent[b] => lastSent'[b] = "REGISTER"
          /\ \/ UNCHANGED <<suspended, skbs, inIdx, outIdx, skCount, lost, lastSent>>
             \/ /\ skbs' \in [Slots -> Msgs \cup {NoSkb}]
                /\ inIdx' \in Slots /\ outIdx' = outIdx
                /\ skCount' = skCount + 1 /\ skCount' \in Nat
                /\ suspended' = (suspended \/ skCount' >= MaxSkb)
                /\ lost' \in BOOLEAN
                /\ lastSent' \in [Appls -> {"none", "REGISTER", "RELEASE"}]
        BY <2>1, <2>2, RegisterStep DEF IInv
    <2>4. MaskMeansRegisterQueued'
        BY <2>3 DEF IInv, MaskMeansRegisterQueued, TypeOK
    <2>5. TypeOK'
        BY <1>1, <2>3, Zenon DEF IInv, TypeOK
    <2>6. SuspendedIffFull'
        <3>1. CASE UNCHANGED <<suspended, skCount>>
            BY <1>1, <3>1, Zenon DEF IInv, SuspendedIffFull
        <3>2. CASE skCount' = skCount + 1 /\ suspended' = (suspended \/ skCount' >= MaxSkb)
            BY <1>1, <3>2, SuspendAfterEnqueue, ConstFacts DEF IInv, TypeOK
        <3>3. QED
            BY <2>3, <3>1, <3>2
    <2>7. QED
        BY <1>2, <2>4, <2>5, <2>6 DEF IInv
<1>5. QED
    BY <1>3, <1>4

(* hycapi_send_message, second half: the message kcapi passed is queued;   *)
(* being a kcapi command, it leaves lastSent alone.                        *)
LEMMA SendRestStep == IInv /\ SendRest => IInv'
<1> SUFFICES ASSUME IInv, SendRest PROVE IInv'
    OBVIOUS
<1> DEFINE m == drv.m
<1>1. drv.op = "send" /\ m \in [appl : Appls, cmd : KernelCmds]
    BY DEF SendRest, IInv, DrvOK, Idle
<1>2. m \in Msgs /\ m.appl \in Appls /\ m.cmd \in KernelCmds
    BY <1>1 DEF Msgs, Cmds
<1>3. /\ UNCHANGED <<cinfo, ctrl, kreg, restarts, rxFault>>
      /\ drv' = Idle
      /\ SendMsgInternal(m)
      /\ \/ \E ok \in AllocResults : appl' = [appl EXCEPT ![m.appl].listen = ok]
         \/ UNCHANGED appl
    BY DEF SendRest
<1>4. /\ skbs' \in [Slots -> Msgs \cup {NoSkb}]
      /\ inIdx' \in Slots /\ outIdx' = outIdx
      /\ skCount' = skCount + 1 /\ skCount' \in Nat
      /\ suspended' = (suspended \/ skCount' >= MaxSkb)
      /\ lost' \in BOOLEAN
      /\ lastSent' = lastSent
    BY <1>2, <1>3, EnqueueStep DEF IInv
<1>5. /\ appl' \in [Appls -> [mask : BOOLEAN, listen : BOOLEAN,
                      rp : {ClampRp(p) : p \in Params} \cup {NoParams}]]
      /\ \A b \in Appls : appl'[b].mask = appl[b].mask
    <2>1. CASE UNCHANGED appl
        BY <2>1 DEF IInv, TypeOK
    <2>2. CASE \E ok \in AllocResults : appl' = [appl EXCEPT ![m.appl].listen = ok]
        <3>1. PICK ok \in BOOLEAN : appl' = [appl EXCEPT ![m.appl].listen = ok]
            BY <2>2 DEF AllocResults
        <3>2. QED
            BY <1>2, <3>1 DEF IInv, TypeOK
    <2>3. QED
        BY <1>3, <2>1, <2>2
<1>6. TypeOK'
    BY <1>3, <1>4, <1>5, Zenon DEF IInv, TypeOK
<1>7. SuspendedIffFull'
    BY <1>3, <1>4, SuspendAfterEnqueue, ConstFacts DEF IInv, TypeOK
<1>8. MaskMeansRegisterQueued'
    BY <1>4, <1>5 DEF IInv, MaskMeansRegisterQueued
<1>9. QED
    BY <1>3, <1>6, <1>7, <1>8 DEF IInv, DrvOK

(* hycapi_capi_create: a new cinfo starts with an empty ring and output    *)
(* resumed; on a stopped controller it starts restart_internal at entry 1. *)
LEMMA CapiCreateStep == IInv /\ CapiCreate => IInv'
<1> SUFFICES ASSUME IInv, CapiCreate PROVE IInv'
    OBVIOUS
<1>1. UNCHANGED <<appl, rxFault>>
    BY DEF CapiCreate
<1>2. CASE ~cinfo /\ cinfo' = TRUE /\ ctrl' = "ready" /\ kreg' = {}
           /\ skbs' = EmptyRing /\ inIdx' = 0 /\ outIdx' = 0 /\ skCount' = 0
           /\ suspended' = FALSE
           /\ UNCHANGED <<drv, restarts, lost, lastSent>>
    <2>1. skbs' \in [Slots -> Msgs \cup {NoSkb}] /\ 0 \in Slots
        BY <1>2, ConstFacts DEF EmptyRing
    <2>2. TypeOK'
        BY <1>1, <1>2, <2>1, Zenon DEF IInv, TypeOK
    <2>3. SuspendedIffFull'
        <3>1. ~(0 >= MaxSkb)
            BY ConstFacts
        <3>2. QED
            BY <1>2, <3>1, Zenon DEF SuspendedIffFull
    <2>4. QED
        BY <1>1, <1>2, <2>2, <2>3 DEF IInv, DrvOK, MaskMeansRegisterQueued
<1>3. CASE /\ cinfo /\ ctrl = "stopped" /\ restarts < MaxRestarts
           /\ ctrl' = "ready" /\ restarts' = restarts + 1
           /\ drv' = [op |-> "restart", i |-> 1, stage |-> "reg"]
           /\ UNCHANGED <<cinfo, kreg, suspended, skbs, inIdx, outIdx, skCount,
                          lost, lastSent>>
    <2>1. restarts' \in 0..MaxRestarts
        BY <1>3, ConstFacts DEF IInv, TypeOK
    <2>2. 1 \in 1..(MaxAppl + 1)
        BY ConstFacts
    <2>3. TypeOK'
        BY <1>1, <1>3, <2>1, Zenon DEF IInv, TypeOK
    <2>4. DrvOK'
        BY <1>3, <2>2 DEF DrvOK
    <2>5. QED
        BY <1>1, <1>3, <2>3, <2>4 DEF IInv, SuspendedIffFull, MaskMeansRegisterQueued
<1>4. QED
    BY <1>2, <1>3 DEF CapiCreate

(* One enqueue of hycapi_restart_internal: a REGISTER for an entry whose  *)
(* bit is set, then a copy of its stored LISTEN_REQ, which may be NULL.    *)
LEMMA RestartStepStep == IInv /\ RestartStep => IInv'
<1> SUFFICES ASSUME IInv, RestartStep PROVE IInv'
    OBVIOUS
<1> DEFINE i == drv.i
<1>1. drv.op = "restart" /\ i \in 1..(MaxAppl + 1) /\ drv.stage \in {"reg", "listen"}
    BY DEF RestartStep, IInv, DrvOK, Idle
<1>2. UNCHANGED <<cinfo, ctrl, kreg, restarts, rxFault>>
    BY DEF RestartStep
<1>3. CASE i > MaxAppl
    <2>1. drv' = Idle /\ UNCHANGED <<appl, suspended>> /\ UNCHANGED ring
        BY <1>3 DEF RestartStep
    <2>2. QED
        BY <1>2, <2>1, Zenon
        DEF IInv, TypeOK, DrvOK, SuspendedIffFull, MaskMeansRegisterQueued, ring
<1>4. CASE ~(i > MaxAppl)
    <2>1. i \in Appls /\ i + 1 \in 1..(MaxAppl + 1)
        BY <1>1, <1>4, ConstFacts DEF Appls
    <2>2. CASE drv.stage = "reg" /\ AppCheck(i)
        <3>1. PICK ok \in AllocResults : RegisterInternal(i, ok)
            BY <1>4, <2>2 DEF RestartStep
        <3>2. drv' = [drv EXCEPT !.stage = "listen"]
            BY <1>4, <2>2 DEF RestartStep
        <3>3. /\ appl' \in [Appls -> [mask : BOOLEAN, listen : BOOLEAN,
                               rp : {ClampRp(p) : p \in Params} \cup {NoParams}]]
              /\ \A b \in Appls : appl'[b].mask => appl[b].mask \/ lastSent'[b] = "REGISTER"
              /\ \A b \in Appls : appl[b].mask => appl'[b].mask
              /\ \A b \in Appls : lastSent'[b] # lastSent[b] => lastSent'[b] = "REGISTER"
              /\ \/ UNCHANGED <<suspended, skbs, inIdx, outIdx, skCount, lost, lastSent>>
                 \/ /\ skbs' \in [Slots -> Msgs \cup {NoSkb}]
                    /\ inIdx' \in Slots /\ outIdx' = outIdx
                    /\ skCount' = skCount + 1 /\ skCount' \in Nat
                    /\ suspended' = (suspended \/ skCount' >= MaxSkb)
                    /\ lost' \in BOOLEAN
                    /\ lastSent' \in [Appls -> {"none", "REGISTER", "RELEASE"}]
            BY <2>1, <3>1, RegisterStep DEF IInv, AllocResults
        <3>4. DrvOK'
            <4>1. drv \in [op : {"restart"}, i : 1..(MaxAppl + 1), stage : {"reg", "listen"}]
                BY <1>1 DEF IInv, DrvOK, Idle
            <4>2. QED
                BY <4>1, <3>2 DEF DrvOK
        <3>5. MaskMeansRegisterQueued'
            BY <3>3 DEF IInv, MaskMeansRegisterQueued, TypeOK
        <3>6. TypeOK'
            BY <1>2, <3>3, Zenon DEF IInv, TypeOK
        <3>7. SuspendedIffFull'
            <4>1. CASE UNCHANGED <<suspended, skCount>>
                BY <1>2, <4>1, Zenon DEF IInv, SuspendedIffFull
            <4>2. CASE skCount' = skCount + 1 /\ suspended' = (suspended \/ skCount' >= MaxSkb)
                BY <1>2, <4>2, SuspendAfterEnqueue, ConstFacts DEF IInv, TypeOK
            <4>3. QED
                BY <3>3, <4>1, <4>2
        <3>8. QED
            BY <3>4, <3>5, <3>6, <3>7 DEF IInv
    <2>3. CASE ~(drv.stage = "reg" /\ AppCheck(i)) /\ drv.stage = "listen" /\ appl[i].listen
        <3>1. PICK ok \in AllocResults :
                 SendMsgInternal(IF ok THEN Msg(i, "LISTEN_REQ") ELSE NoSkb)
            BY <1>4, <2>3 DEF RestartStep
        <3> DEFINE e == IF ok THEN Msg(i, "LISTEN_REQ") ELSE NoSkb
        <3>2. e \in Msgs \cup {NoSkb} /\ (e = NoSkb \/ e.cmd \in KernelCmds)
            BY <2>1, ConstFacts DEF Cmds, KernelCmds, Msg
        <3>3. /\ skbs' \in [Slots -> Msgs \cup {NoSkb}]
              /\ inIdx' \in Slots /\ outIdx' = outIdx
              /\ skCount' = skCount + 1 /\ skCount' \in Nat
              /\ suspended' = (suspended \/ skCount' >= MaxSkb)
              /\ lost' \in BOOLEAN
              /\ lastSent' = lastSent
            BY <3>1, <3>2, EnqueueStep DEF IInv
        <3>4. drv' = [op |-> "restart", i |-> i + 1, stage |-> "reg"] /\ UNCHANGED appl
            BY <1>4, <2>3 DEF RestartStep
        <3>5. TypeOK'
            BY <1>2, <3>3, <3>4, Zenon DEF IInv, TypeOK
        <3>6. SuspendedIffFull'
            BY <1>2, <3>3, SuspendAfterEnqueue, ConstFacts DEF IInv, TypeOK
        <3>7. QED
            BY <2>1, <3>3, <3>4, <3>5, <3>6 DEF IInv, DrvOK, MaskMeansRegisterQueued
    <2>4. CASE ~(drv.stage = "reg" /\ AppCheck(i)) /\ ~(drv.stage = "listen" /\ appl[i].listen)
        <3>1. drv' = [op |-> "restart", i |-> i + 1, stage |-> "reg"]
              /\ UNCHANGED <<appl, suspended>> /\ UNCHANGED ring
            BY <1>4, <2>4 DEF RestartStep
        <3>2. QED
            BY <1>2, <2>1, <3>1, Zenon
            DEF IInv, TypeOK, DrvOK, SuspendedIffFull, MaskMeansRegisterQueued, ring
    <2>5. QED
        BY <2>2, <2>3, <2>4
<1>5. QED
    BY <1>3, <1>4

(* hycapi_capi_release: cinfo goes, the bits stay.                         *)
LEMMA CapiReleaseStep == IInv /\ CapiRelease => IInv'
<1> SUFFICES ASSUME IInv, CapiRelease PROVE IInv'
    OBVIOUS
<1>1. /\ suspended' = TRUE /\ ctrl' = "none" /\ cinfo' = FALSE /\ kreg' = {}
      /\ UNCHANGED <<drv, restarts, rxFault>> /\ UNCHANGED ring
      /\ appl' = [a \in Appls |-> [appl[a] EXCEPT !.listen = FALSE]]
    BY DEF CapiRelease
<1>2. /\ appl' \in [Appls -> [mask : BOOLEAN, listen : BOOLEAN,
                      rp : {ClampRp(p) : p \in Params} \cup {NoParams}]]
      /\ \A b \in Appls : appl'[b].mask = appl[b].mask
    BY <1>1 DEF IInv, TypeOK
<1>3. TypeOK'
    BY <1>1, <1>2, Zenon DEF IInv, TypeOK, ring
<1>4. QED
    BY <1>1, <1>2, <1>3, Zenon
    DEF IInv, DrvOK, SuspendedIffFull, MaskMeansRegisterQueued, ring

(* hycapi_tx_capiget and hycapi_tx_capiack: the count falls by one and     *)
(* output resumes when it falls from the ring size.                        *)
LEMMA CardTxStep == IInv /\ CardTx => IInv'
<1> SUFFICES ASSUME IInv, CardTx PROVE IInv'
    OBVIOUS
<1>1. /\ cinfo /\ skCount > 0 /\ skCount \in Nat /\ outIdx \in Slots
      /\ skbs' = [skbs EXCEPT ![outIdx] = NoSkb]
      /\ outIdx' = IF outIdx + 1 >= MaxSkb THEN 0 ELSE outIdx + 1
      /\ skCount' = skCount - 1
      /\ suspended' = IF skCount = MaxSkb THEN FALSE ELSE suspended
      /\ UNCHANGED <<cinfo, ctrl, appl, kreg, inIdx, drv, restarts,
                     lastSent, lost, rxFault>>
    BY DEF CardTx, IInv, TypeOK
<1>2. skbs' \in [Slots -> Msgs \cup {NoSkb}] /\ outIdx' \in Slots /\ skCount' \in Nat
    BY <1>1, ConstFacts DEF IInv, TypeOK, Slots
<1>3. suspended \in BOOLEAN
    BY DEF IInv, TypeOK
<1>4. suspended' \in BOOLEAN
    BY <1>1, <1>3
<1>5. TypeOK'
    BY <1>1, <1>2, <1>4, Zenon DEF IInv, TypeOK
<1>6. SuspendedIffFull'
    <2>1. suspended <=> skCount >= MaxSkb
        BY <1>1 DEF IInv, SuspendedIffFull
    <2>2. CASE skCount = MaxSkb
        <3>1. ~(skCount - 1 >= MaxSkb)
            BY <1>1, <2>2, ConstFacts
        <3>2. QED
            BY <1>1, <2>2, <3>1, Zenon DEF SuspendedIffFull
    <2>3. CASE skCount > MaxSkb
        <3>1. skCount - 1 >= MaxSkb /\ skCount >= MaxSkb /\ skCount # MaxSkb
            BY <1>1, <2>3, ConstFacts
        <3>2. QED
            BY <1>1, <2>1, <3>1, Zenon DEF SuspendedIffFull
    <2>4. CASE skCount < MaxSkb
        <3>1. ~(skCount - 1 >= MaxSkb) /\ ~(skCount >= MaxSkb) /\ skCount # MaxSkb
            BY <1>1, <2>4, ConstFacts
        <3>2. QED
            BY <1>1, <2>1, <3>1, Zenon DEF SuspendedIffFull
    <2>5. QED
        BY <1>1, <2>2, <2>3, <2>4, ConstFacts
<1>7. QED
    BY <1>1, <1>5, <1>6 DEF IInv, DrvOK, MaskMeansRegisterQueued

(* hycapi_rx_capipkt changes only the fault history.                       *)
LEMMA RxCapiPktStep ==
    ASSUME IInv, NEW p \in RxPackets, RxCapiPkt(p)
    PROVE  IInv'
<1>1. UNCHANGED <<cinfo, ctrl, appl, kreg, suspended, drv, restarts>> /\ UNCHANGED ring
      /\ rxFault' \in BOOLEAN
    BY DEF RxCapiPkt
<1>2. QED
    BY <1>1, QuietStep DEF IInv, TypeOK

(* rx_capipkt's conversion of a DATA_B3_IND to the 64-bit layout, for any  *)
(* word len and any MsgLen below 30: the MsgLen + 8 + (len - MsgLen) bytes *)
(* it copies overrun the len + (30 - MsgLen) byte buffer exactly when      *)
(* MsgLen exceeds len, when MsgLen is 23 to 29 (the 8-byte pad is longer   *)
(* than the 30 - MsgLen bytes allowed for it), or when the __u16 size     *)
(* wraps.                                                                  *)
LEMMA RxOverflowsExactly ==
    ASSUME NEW p, p.cmd = "DATA_B3_IND", p.len \in Nat, p.len <= 65535,
           p.msgLen \in Nat, p.msgLen < 30
    PROVE  RxOverflows(p) <=> \/ p.len < p.msgLen
                              \/ p.msgLen > 22
                              \/ p.len + 30 - p.msgLen >= 65536
<1> DEFINE len == p.len  msgLen == p.msgLen  size == len + 30 - msgLen
<1>1. RxConverts(p)
    BY DEF RxConverts
<1>2. size \in Nat /\ size <= 65535 + 30
    OBVIOUS
<1>3. RxAlloc(p) = size % 65536
    BY <1>1 DEF RxAlloc
<1>4. size % 65536 = IF size >= 65536 THEN size - 65536 ELSE size
    BY <1>2
<1>5. RxOverflows(p) <=> len < msgLen \/ len + 8 > size % 65536
    BY <1>1, <1>3 DEF RxOverflows
<1>6. (len < msgLen \/ len + 8 > size % 65536)
        <=> (len < msgLen \/ msgLen > 22 \/ size >= 65536)
    BY <1>2, <1>4
<1>7. QED
    BY <1>5, <1>6

-----------------------------------------------------------------------------
(* Every step of the driver and of the card, and every stutter, keeps IInv. *)
LEMMA NextIInv == IInv /\ [Next]_vars => IInv'
<1> SUFFICES ASSUME IInv, [Next]_vars PROVE IInv'
    OBVIOUS
<1>1. CASE \E a \in Appls, rp \in Params : RegisterAppl(a, rp)
    BY <1>1, RegisterApplStep
<1>2. CASE \E a \in Appls : ReleaseAppl(a)
    BY <1>2, ReleaseApplStep
<1>3. CASE \E a \in Appls, c \in KernelCmds : SendMessage(a, c)
    BY <1>3, SendMessageStep
<1>4. CASE SendRest
    BY <1>4, SendRestStep
<1>5. CASE RestartStep
    BY <1>5, RestartStepStep
<1>6. CASE ResetCtr
    <2>1. /\ UNCHANGED <<cinfo, appl, suspended, drv, restarts>> /\ UNCHANGED ring
          /\ ctrl' = "stopped" /\ kreg' = kreg /\ rxFault' = rxFault
        BY <1>6 DEF ResetCtr
    <2>2. kreg \subseteq Appls /\ rxFault \in BOOLEAN
        BY DEF IInv, TypeOK
    <2>3. QED
        BY <2>1, <2>2, QuietStep
<1>7. CASE CapiCreate
    BY <1>7, CapiCreateStep
<1>8. CASE CapiStop
    <2>1. /\ UNCHANGED <<cinfo, appl, suspended, drv, restarts>> /\ UNCHANGED ring
          /\ ctrl' = "stopped" /\ kreg' = kreg /\ rxFault' = rxFault
        BY <1>8 DEF CapiStop
    <2>2. kreg \subseteq Appls /\ rxFault \in BOOLEAN
        BY DEF IInv, TypeOK
    <2>3. QED
        BY <2>1, <2>2, QuietStep
<1>9. CASE CapiRelease
    BY <1>9, CapiReleaseStep
<1>10. CASE CardTx
    BY <1>10, CardTxStep
<1>11. CASE \E p \in RxPackets : RxCapiPkt(p)
    BY <1>11, RxCapiPktStep
<1>12. CASE UNCHANGED vars
    BY <1>12 DEF vars, IInv, TypeOK, DrvOK, SuspendedIffFull,
                 MaskMeansRegisterQueued
<1>13. QED
    BY <1>1, <1>2, <1>3, <1>4, <1>5, <1>6, <1>7, <1>8, <1>9, <1>10, <1>11,
       <1>12 DEF Next

(* IInv holds in every reachable state of the driver and the card.         *)
THEOREM IInvHolds == Spec => []IInv
BY InitIInv, NextIInv, PTL DEF Spec

(* Every variable of the driver keeps its type: the ring holds messages or *)
(* NULL, the indices stay in the ring and the count is a natural number.   *)
THEOREM TypeCorrect == Spec => []TypeOK
BY IInvHolds, PTL DEF IInv

(* While cinfo exists, hycapi_send_message's suspend_output and           *)
(* hycapi_tx_capiack's resume_output keep output suspended exactly when    *)
(* sk_count has reached the ring size, across registrations, restarts and *)
(* card acknowledgements.                                                  *)
THEOREM SuspendedIffFullHolds == Spec => []SuspendedIffFull
BY IInvHolds, PTL DEF IInv

(* A ctrl_mask bit is set only after a REGISTER for that application was   *)
(* the last REGISTER or RELEASE queued for it: hycapi_register_internal   *)
(* sets the bit after the enqueue, hycapi_release_internal clears it.     *)
THEOREM MaskMeansRegisterQueuedHolds == Spec => []MaskMeansRegisterQueued
BY IInvHolds, PTL DEF IInv


-----------------------------------------------------------------------------
(* hycapi_sendmsg_internal puts its entry at in_idx.                       *)
LEMMA EnqueueAt ==
    ASSUME TypeOK, NEW m, SendMsgInternal(m)
    PROVE  skbs'[inIdx] = m
BY DEF SendMsgInternal, TypeOK

(* An enqueue of anything but a RELEASE does not enqueue a RELEASE.        *)
LEMMA NoReleaseEnqueued ==
    ASSUME TypeOK, NEW m, m = NoSkb \/ m.cmd # "RELEASE", SendMsgInternal(m),
           NEW a \in Appls
    PROVE  ~Enqueues(Msg(a, "RELEASE"))
<1>1. skbs'[inIdx] = m
    BY EnqueueAt
<1>2. Msg(a, "RELEASE") # NoSkb /\ Msg(a, "RELEASE").cmd = "RELEASE"
    BY ConstFacts, NoSkbAssumption DEF Msg, Cmds
<1>3. QED
    BY <1>1, <1>2 DEF Enqueues

(* A step that leaves the count alone or lowers it enqueues nothing.       *)
LEMMA NoEnqueue ==
    ASSUME TypeOK, skCount' \in {skCount, skCount - 1, 0}, NEW m
    PROVE  ~Enqueues(m)
BY DEF TypeOK, Enqueues

(* Every step that queues a RELEASE for a does so from a state where the   *)
(* ctrl_mask bit of a is set, hence after a REGISTER.                      *)
LEMMA ReleaseStep ==
    IInv /\ [Next]_vars =>
        \A a \in Appls : Enqueues(Msg(a, "RELEASE")) => lastSent[a] = "REGISTER"
<1> SUFFICES ASSUME IInv, [Next]_vars, NEW a \in Appls, Enqueues(Msg(a, "RELEASE"))
             PROVE  lastSent[a] = "REGISTER"
    OBVIOUS
<1>0. TypeOK
    BY DEF IInv
<1> USE <1>0
<1>1. CASE \E b \in Appls : ReleaseAppl(b)
    <2>1. PICK b \in Appls : ReleaseAppl(b)
        BY <1>1
    <2>2. PICK ok \in AllocResults :
             IF AppCheck(b) /\ ok THEN SendMsgInternal(Msg(b, "RELEASE"))
             ELSE UNCHANGED <<suspended>> /\ UNCHANGED ring
        BY <2>1 DEF ReleaseAppl
    <2>3. CASE AppCheck(b) /\ ok
        <3>1. skbs'[inIdx] = Msg(b, "RELEASE") /\ skbs'[inIdx] = Msg(a, "RELEASE")
            BY <2>2, <2>3, EnqueueAt DEF Enqueues
        <3>2. a = b
            BY <3>1 DEF Msg
        <3>3. QED
            BY <2>3, <3>2 DEF AppCheck, IInv, MaskMeansRegisterQueued
    <2>4. CASE ~(AppCheck(b) /\ ok)
        BY <2>2, <2>4, NoEnqueue DEF ring
    <2>5. QED
        BY <2>3, <2>4
<1>2. CASE \E b \in Appls, c \in KernelCmds : SendMessage(b, c)
    <2>1. PICK b \in Appls, c \in KernelCmds : SendMessage(b, c)
        BY <1>2
    <2>2. CASE AppCheck(b)
        BY <2>1, <2>2, NoEnqueue DEF SendMessage, ring
    <2>3. CASE ~AppCheck(b)
        <3>1. PICK ok \in AllocResults : RegisterInternal(b, ok)
            BY <2>1, <2>3 DEF SendMessage
        <3>2. CASE ok
            <4>1. SendMsgInternal(Msg(b, "REGISTER"))
                BY <3>1, <3>2 DEF RegisterInternal
            <4>2. Msg(b, "REGISTER").cmd # "RELEASE"
                BY DEF Msg
            <4>3. QED
                BY <4>1, <4>2, NoReleaseEnqueued
        <3>3. CASE ~ok
            BY <3>1, <3>3, NoEnqueue DEF RegisterInternal, ring
        <3>4. QED
            BY <3>2, <3>3
    <2>4. QED
        BY <2>2, <2>3
<1>3. CASE SendRest
    <2>1. drv.m \in [appl : Appls, cmd : KernelCmds] /\ SendMsgInternal(drv.m)
        BY <1>3 DEF SendRest, IInv, DrvOK, Idle
    <2>2. drv.m.cmd # "RELEASE"
        BY <2>1 DEF KernelCmds
    <2>3. QED
        BY <2>1, <2>2, NoReleaseEnqueued
<1>4. CASE RestartStep
    <2> DEFINE i == drv.i
    <2>1. CASE i > MaxAppl
        BY <1>4, <2>1, NoEnqueue DEF RestartStep, ring
    <2>2. CASE ~(i > MaxAppl) /\ drv.stage = "reg" /\ AppCheck(i)
        <3>1. PICK ok \in AllocResults : RegisterInternal(i, ok)
            BY <1>4, <2>2 DEF RestartStep
        <3>2. CASE ok
            <4>1. SendMsgInternal(Msg(i, "REGISTER"))
                BY <3>1, <3>2 DEF RegisterInternal
            <4>2. Msg(i, "REGISTER").cmd # "RELEASE"
                BY DEF Msg
            <4>3. QED
                BY <4>1, <4>2, NoReleaseEnqueued
        <3>3. CASE ~ok
            BY <3>1, <3>3, NoEnqueue DEF RegisterInternal, ring
        <3>4. QED
            BY <3>2, <3>3
    <2>3. CASE ~(i > MaxAppl) /\ ~(drv.stage = "reg" /\ AppCheck(i))
               /\ drv.stage = "listen" /\ appl[i].listen
        <3>1. PICK ok \in AllocResults :
                 SendMsgInternal(IF ok THEN Msg(i, "LISTEN_REQ") ELSE NoSkb)
            BY <1>4, <2>3 DEF RestartStep
        <3> DEFINE e == IF ok THEN Msg(i, "LISTEN_REQ") ELSE NoSkb
        <3>2. e = NoSkb \/ e.cmd # "RELEASE"
            BY DEF Msg
        <3>3. QED
            BY <3>1, <3>2, NoReleaseEnqueued
    <2>4. CASE ~(i > MaxAppl) /\ ~(drv.stage = "reg" /\ AppCheck(i))
               /\ ~(drv.stage = "listen" /\ appl[i].listen)
        BY <1>4, <2>4, NoEnqueue DEF RestartStep, ring
    <2>5. QED
        BY <2>1, <2>2, <2>3, <2>4
<1>5. CASE \/ \E b \in Appls, rp \in Params : RegisterAppl(b, rp)
           \/ ResetCtr \/ CapiCreate \/ CapiStop \/ CapiRelease \/ CardTx
           \/ \E p \in RxPackets : RxCapiPkt(p)
           \/ UNCHANGED vars
    <2>1. skCount' \in {skCount, skCount - 1, 0}
        <3>1. CASE \E b \in Appls, rp \in Params : RegisterAppl(b, rp)
            BY <3>1 DEF RegisterAppl, ring
        <3>2. CASE ResetCtr \/ CapiStop \/ CapiRelease
            BY <3>2 DEF ResetCtr, CapiStop, CapiRelease, ring
        <3>3. CASE CapiCreate
            BY <3>3 DEF CapiCreate
        <3>4. CASE CardTx
            BY <3>4 DEF CardTx
        <3>5. CASE \E p \in RxPackets : RxCapiPkt(p)
            BY <3>5 DEF RxCapiPkt, ring
        <3>6. CASE UNCHANGED vars
            BY <3>6 DEF vars
        <3>7. QED
            BY <1>5, <3>1, <3>2, <3>3, <3>4, <3>5, <3>6
    <2>2. QED
        BY <2>1, NoEnqueue
<1>6. QED
    BY <1>1, <1>2, <1>3, <1>4, <1>5 DEF Next

(* release_appl queues a RELEASE only for chk == 1, and a set ctrl_mask    *)
(* bit means a REGISTER was the last such message queued: in every run,   *)
(* the card never receives a RELEASE for an application it was not told   *)
(* of, nor two RELEASEs in a row, for every table and ring size.          *)
THEOREM ReleaseOnlyAfterRegisterHolds == Spec => ReleaseOnlyAfterRegister
<1>1. IInv /\ [Next]_vars
        => [\A a \in Appls : Enqueues(Msg(a, "RELEASE")) => lastSent[a] = "REGISTER"]_vars
    BY ReleaseStep
<1>2. QED
    BY <1>1, IInvHolds, PTL DEF Spec, ReleaseOnlyAfterRegister


-----------------------------------------------------------------------------
(* The transmit ring as a queue.  Pos counts slots from out_idx and wraps  *)
(* once; these are the facts about it that the ring operations need.      *)
LEMMA PosFacts ==
    ASSUME outIdx \in Slots
    PROVE  /\ \A k \in 0..MaxSkb : Pos(k) \in Slots
           /\ \A j, k \in 0..(MaxSkb - 1) : j # k => Pos(j) # Pos(k)
           /\ Pos(0) = outIdx /\ Pos(MaxSkb) = outIdx
BY ConstFacts DEF Pos, Slots

(* tx_capiack advances out_idx by one slot, wrapping at the ring size.     *)
LEMMA PosAdvance ==
    ASSUME outIdx \in Slots,
           outIdx' = IF outIdx + 1 >= MaxSkb THEN 0 ELSE outIdx + 1
    PROVE  \A k \in 0..(MaxSkb - 1) : Pos(k)' = Pos(k + 1)
BY ConstFacts DEF Pos, Slots

(* sendmsg_internal's in_idx + 1 with its wrap is the next position.       *)
LEMMA PosNext ==
    ASSUME outIdx \in Slots, NEW c \in 0..(MaxSkb - 1)
    PROVE  (IF Pos(c) + 1 >= MaxSkb THEN 0 ELSE Pos(c) + 1) = Pos(c + 1)
BY ConstFacts DEF Pos, Slots


(* Before any loss, the ring read from out_idx is a sequence of sk_count   *)
(* entries.                                                                *)
LEMMA RingQueueSeq ==
    ASSUME TypeOK, ~lost, RingInv
    PROVE  /\ RingQueue = [k \in 1..skCount |-> skbs[Pos(k - 1)]]
           /\ RingQueue \in Seq(Msgs \cup {NoSkb})
           /\ Len(RingQueue) = skCount
           /\ \A k \in 1..skCount : RingQueue[k] \in Msgs \cup {NoSkb}
<1>1. skCount \in 0..MaxSkb /\ outIdx \in Slots /\ MaxSkb \in Nat
      /\ skbs \in [Slots -> Msgs \cup {NoSkb}]
    BY ConstFacts DEF TypeOK, RingInv
<1>2. \A k \in 1..skCount : k - 1 \in 0..MaxSkb
    BY <1>1
<1>3. \A k \in 1..skCount : skbs[Pos(k - 1)] \in Msgs \cup {NoSkb}
    BY <1>1, <1>2, PosFacts
<1>4. RingQueue = [k \in 1..skCount |-> skbs[Pos(k - 1)]]
    BY DEF RingQueue
<1>5. QED
    BY <1>1, <1>3, <1>4

(* hycapi_sendmsg_internal on the queue: an entry put on a ring with room  *)
(* lands in the first free slot, one put on a full ring is a loss, and     *)
(* after a loss the queue promises nothing more.                           *)
LEMMA RingEnqueue ==
    ASSUME TypeOK, RingInv, NEW m \in Msgs \cup {NoSkb}, SendMsgInternal(m)
    PROVE  /\ RingInv'
           /\ \/ Queue!Put(m) \/ Queue!Overfill
              \/ UNCHANGED <<RingQueue, lost>>
<1>0. /\ skbs' = [skbs EXCEPT ![inIdx] = m]
      /\ inIdx' = IF inIdx + 1 >= MaxSkb THEN 0 ELSE inIdx + 1
      /\ skCount' = skCount + 1 /\ outIdx' = outIdx
      /\ lost' = (lost \/ skbs[inIdx] # NoSkb \/ skCount >= MaxSkb)
      /\ outIdx \in Slots /\ inIdx \in Slots /\ skCount \in Nat
      /\ skbs \in [Slots -> Msgs \cup {NoSkb}] /\ lost \in BOOLEAN
      /\ MaxSkb \in Nat \ {0}
    BY ConstFacts DEF SendMsgInternal, TypeOK
<1>1. CASE lost \/ skCount >= MaxSkb
    <2>1. lost' = TRUE
        BY <1>0, <1>1, Zenon
    <2>2. RingInv' /\ RingQueue' = <<>>
        BY <2>1 DEF RingInv, RingQueue
    <2>3. CASE lost
        <3>1. RingQueue = <<>>
            BY <2>3 DEF RingQueue
        <3>2. QED
            BY <2>1, <2>2, <2>3, <3>1
    <2>4. CASE ~lost
        <3>1. Len(RingQueue) = skCount
            BY <2>4, RingQueueSeq
        <3>2. Len(RingQueue) >= MaxSkb
            BY <1>0, <1>1, <2>4, <3>1
        <3>3. Queue!Overfill
            BY <2>1, <2>2, <2>4, <3>2 DEF Queue!Overfill
        <3>4. QED
            BY <2>2, <3>3
    <2>5. QED
        BY <2>3, <2>4
<1>2. CASE ~lost /\ skCount < MaxSkb
    <2>1. skCount \in 0..(MaxSkb - 1) /\ ~(skCount >= MaxSkb)
        BY <1>0, <1>2
    <2>2. inIdx = Pos(skCount) /\ skbs[inIdx] = NoSkb
        BY <1>2, <2>1 DEF RingInv
    <2>3. lost' = FALSE
        BY <1>0, <1>2, <2>1, <2>2, Zenon
    <2>5. inIdx' = Pos(skCount + 1)
        BY <1>0, <2>1, <2>2, PosNext
    <2>6. \A k \in 0..(MaxSkb - 1) : k # skCount => skbs'[Pos(k)] = skbs[Pos(k)]
        BY <1>0, <2>1, <2>2, PosFacts
    <2>7. skbs'[Pos(skCount)] = m
        BY <1>0, <2>2
    <2>8. RingInv'
        <3>2. inIdx' = (Pos(skCount))'
            BY <1>0, <2>5 DEF Pos
        <3>3. \A k \in (skCount + 1)..(MaxSkb - 1) : skbs'[Pos(k)] = NoSkb
            <4> SUFFICES ASSUME NEW k \in (skCount + 1)..(MaxSkb - 1)
                         PROVE  skbs'[Pos(k)] = NoSkb
                OBVIOUS
            <4>1. k \in skCount..(MaxSkb - 1) /\ k \in 0..(MaxSkb - 1) /\ k # skCount
                BY <2>1
            <4>2. skbs[Pos(k)] = NoSkb
                BY <1>2, <4>1 DEF RingInv
            <4>3. QED
                BY <2>6, <4>1, <4>2
        <3>4. \A k \in skCount'..(MaxSkb - 1) : skbs'[(Pos(k))'] = NoSkb
            <4>1. \A k \in skCount'..(MaxSkb - 1) : (Pos(k))' = Pos(k)
                BY <1>0 DEF Pos
            <4>2. QED
                BY <1>0, <3>3, <4>1
        <3>5. skCount' <= MaxSkb
            BY <1>0, <2>1
        <3>6. QED
            BY <2>3, <3>2, <3>4, <3>5 DEF RingInv
    <2>9. Queue!Put(m)
        <3>1. /\ RingQueue = [k \in 1..skCount |-> skbs[Pos(k - 1)]]
              /\ RingQueue \in Seq(Msgs \cup {NoSkb}) /\ Len(RingQueue) = skCount
            BY <1>2, RingQueueSeq
        <3>2. RingQueue' = [k \in 1..(skCount + 1) |-> skbs'[(Pos(k - 1))']]
            BY <1>0, <2>3 DEF RingQueue
        <3>3. \A k \in 1..(skCount + 1) : (Pos(k - 1))' = Pos(k - 1)
            BY <1>0 DEF Pos
        <3>4. \A k \in 1..skCount : skbs'[Pos(k - 1)] = RingQueue[k]
            <4> SUFFICES ASSUME NEW k \in 1..skCount PROVE skbs'[Pos(k - 1)] = RingQueue[k]
                OBVIOUS
            <4>1. k - 1 \in 0..(MaxSkb - 1) /\ k - 1 # skCount
                BY <1>0, <2>1
            <4>2. QED
                BY <2>6, <3>1, <4>1
        <3>5. \A k \in 1..(skCount + 1) :
                 skbs'[(Pos(k - 1))'] = IF k <= skCount THEN RingQueue[k] ELSE m
            <4> SUFFICES ASSUME NEW k \in 1..(skCount + 1)
                         PROVE  skbs'[(Pos(k - 1))'] = IF k <= skCount THEN RingQueue[k] ELSE m
                OBVIOUS
            <4>1. CASE k <= skCount
                BY <1>0, <3>3, <3>4, <4>1
            <4>2. CASE ~(k <= skCount)
                <5>1. k - 1 = skCount
                    BY <1>0, <4>2
                <5>2. QED
                    BY <2>7, <3>3, <4>2, <5>1
            <4>3. QED
                BY <4>1, <4>2
        <3>6. RingQueue' = Append(RingQueue, m)
            <4>1. /\ Append(RingQueue, m) \in Seq(Msgs \cup {NoSkb})
                  /\ Len(Append(RingQueue, m)) = skCount + 1
                  /\ Append(RingQueue, m)[skCount + 1] = m
                  /\ \A i \in 1..skCount : Append(RingQueue, m)[i] = RingQueue[i]
                <5>1. RingQueue \in Seq(Msgs \cup {NoSkb}) /\ m \in Msgs \cup {NoSkb}
                    BY <3>1
                <5>2. /\ Append(RingQueue, m) \in Seq(Msgs \cup {NoSkb})
                      /\ Len(Append(RingQueue, m)) = Len(RingQueue) + 1
                      /\ Append(RingQueue, m)[Len(RingQueue) + 1] = m
                      /\ \A i \in 1..Len(RingQueue) : Append(RingQueue, m)[i] = RingQueue[i]
                    BY <5>1, AppendProperties
                <5>3. Len(RingQueue) = skCount
                    BY <3>1, Zenon
                <5>4. QED
                    BY <5>2, <5>3, Zenon
            <4>2. \A k \in 1..(skCount + 1) : skbs'[(Pos(k - 1))'] \in Msgs \cup {NoSkb}
                <5>1. \A k \in 1..skCount : RingQueue[k] \in Msgs \cup {NoSkb}
                    BY <1>2, RingQueueSeq
                <5>2. QED
                    BY <3>5, <5>1
            <4>3. RingQueue' \in Seq(Msgs \cup {NoSkb}) /\ Len(RingQueue') = skCount + 1
                <5>1. skCount + 1 \in Nat
                    BY <1>0
                <5>2. [k \in 1..(skCount + 1) |-> skbs'[(Pos(k - 1))']] \in [1..(skCount + 1) -> Msgs \cup {NoSkb}]
                    BY <4>2
                <5>3. QED
                    BY <3>2, <5>1, <5>2
            <4>4. \A i \in 1..(skCount + 1) : RingQueue'[i] = Append(RingQueue, m)[i]
                BY <1>0, <3>2, <3>5, <4>1
            <4>5. QED
                BY <4>1, <4>3, <4>4, SeqEqual
        <3>7. Len(RingQueue) < MaxSkb
            BY <1>0, <2>1, <3>1
        <3>8. QED
            BY <1>0, <1>2, <2>3, <3>6, <3>7, Zenon DEF Queue!Put
    <2>10. QED
        BY <2>8, <2>9
<1>3. QED
    <2>1. (lost \/ skCount >= MaxSkb) \/ (~lost /\ skCount < MaxSkb)
        BY <1>0
    <2>2. QED
        BY <1>1, <1>2, <2>1


(* hycapi_tx_capiget/tx_capiack on the queue: the card takes the head at   *)
(* out_idx, which is not NULL, and the slot after it becomes the head.     *)
LEMMA RingTake ==
    ASSUME TypeOK, RingInv, CardTx
    PROVE  /\ RingInv'
           /\ Queue!Take \/ UNCHANGED <<RingQueue, lost>>
<1>0. /\ skCount > 0 /\ skbs[outIdx] # NoSkb
      /\ skbs' = [skbs EXCEPT ![outIdx] = NoSkb]
      /\ outIdx' = IF outIdx + 1 >= MaxSkb THEN 0 ELSE outIdx + 1
      /\ skCount' = skCount - 1 /\ inIdx' = inIdx /\ lost' = lost
      /\ outIdx \in Slots /\ inIdx \in Slots /\ skCount \in Nat
      /\ skbs \in [Slots -> Msgs \cup {NoSkb}] /\ lost \in BOOLEAN
      /\ MaxSkb \in Nat \ {0}
    BY ConstFacts DEF CardTx, TypeOK
<1>1. CASE lost
    <2>1. lost' /\ RingQueue = <<>> /\ RingQueue' = <<>>
        BY <1>0, <1>1, Zenon DEF RingQueue
    <2>2. QED
        BY <1>0, <2>1, Zenon DEF RingInv
<1>2. CASE ~lost
    <2>1. skCount <= MaxSkb /\ inIdx = Pos(skCount)
          /\ \A k \in skCount..(MaxSkb - 1) : skbs[Pos(k)] = NoSkb
        BY <1>2 DEF RingInv
    <2>2. ~lost'
        BY <1>0, <1>2, Zenon
    <2>3. \A k \in 0..(MaxSkb - 1) : (Pos(k))' = Pos(k + 1)
        BY <1>0, PosAdvance
    <2>4. \A k \in 1..(MaxSkb - 1) : skbs'[Pos(k)] = skbs[Pos(k)]
        <3> SUFFICES ASSUME NEW k \in 1..(MaxSkb - 1) PROVE skbs'[Pos(k)] = skbs[Pos(k)]
            OBVIOUS
        <3>1. Pos(k) \in Slots /\ Pos(k) # Pos(0) /\ Pos(0) = outIdx
            BY <1>0, PosFacts
        <3>2. QED
            BY <1>0, <3>1
    <2>5. RingInv'
        <3>1. skCount' <= MaxSkb
            BY <1>0, <2>1
        <3>2. (inIdx = Pos(skCount))'
            <4>1. skCount \in 1..MaxSkb /\ outIdx \in 0..(MaxSkb - 1)
                  /\ inIdx = IF outIdx + skCount < MaxSkb THEN outIdx + skCount
                             ELSE outIdx + skCount - MaxSkb
                BY <1>0, <2>1 DEF Pos, Slots
            <4>2. CASE outIdx + 1 >= MaxSkb
                <5>1. outIdx' = 0 /\ outIdx = MaxSkb - 1
                    BY <1>0, <4>1, <4>2
                <5>2. QED
                    BY <1>0, <4>1, <5>1 DEF Pos
            <4>3. CASE ~(outIdx + 1 >= MaxSkb)
                <5>1. outIdx' = outIdx + 1
                    BY <1>0, <4>3
                <5>2. QED
                    BY <1>0, <4>1, <5>1 DEF Pos
            <4>4. QED
                BY <4>2, <4>3
        <3>3. \A k \in skCount'..(MaxSkb - 1) : skbs'[(Pos(k))'] = NoSkb
            <4> SUFFICES ASSUME NEW k \in skCount'..(MaxSkb - 1)
                         PROVE  skbs'[(Pos(k))'] = NoSkb
                OBVIOUS
            <4>1. (Pos(k))' = Pos(k + 1)
                BY <1>0, <2>3
            <4>2. CASE k + 1 = MaxSkb
                <5>1. Pos(k + 1) = outIdx
                    BY <1>0, <4>2, PosFacts
                <5>2. QED
                    BY <1>0, <4>1, <5>1
            <4>3. CASE k + 1 # MaxSkb
                <5>1. k + 1 \in 1..(MaxSkb - 1) /\ k + 1 \in skCount..(MaxSkb - 1)
                    BY <1>0, <4>3
                <5>2. QED
                    BY <2>1, <2>4, <4>1, <5>1
            <4>4. QED
                BY <4>2, <4>3
        <3>4. QED
            BY <2>2, <3>1, <3>2, <3>3, Zenon DEF RingInv
    <2>6. Queue!Take
        <3>1. /\ RingQueue = [k \in 1..skCount |-> skbs[Pos(k - 1)]]
              /\ RingQueue \in Seq(Msgs \cup {NoSkb}) /\ Len(RingQueue) = skCount
            BY <1>0, <1>2, RingQueueSeq
        <3>2. RingQueue # <<>> /\ Head(RingQueue) = skbs[outIdx]
            <4>1. Len(RingQueue) # 0 /\ RingQueue[1] = skbs[Pos(0)]
                BY <1>0, <3>1
            <4>2. Pos(0) = outIdx
                BY <1>0, PosFacts
            <4>3. QED
                BY <4>1, <4>2
        <3>3. RingQueue' = [k \in 1..(skCount - 1) |-> skbs'[(Pos(k - 1))']]
            BY <1>0, <2>2 DEF RingQueue
        <3>4. /\ Tail(RingQueue) \in Seq(Msgs \cup {NoSkb})
              /\ Len(Tail(RingQueue)) = skCount - 1
              /\ \A i \in 1..(skCount - 1) : Tail(RingQueue)[i] = RingQueue[i + 1]
            <4>1. /\ Tail(RingQueue) \in Seq(Msgs \cup {NoSkb})
                  /\ Len(Tail(RingQueue)) = Len(RingQueue) - 1
                  /\ \A i \in 1..Len(Tail(RingQueue)) : Tail(RingQueue)[i] = RingQueue[i + 1]
                <5>1. RingQueue \in Seq(Msgs \cup {NoSkb}) /\ RingQueue # <<>>
                    BY <3>1, <3>2
                <5>2. QED
                    BY <5>1, HeadTailProperties
            <4>2. QED
                BY <3>1, <4>1, Zenon
        <3>5. \A i \in 1..(skCount - 1) : skbs'[(Pos(i - 1))'] = RingQueue[i + 1]
            <4> SUFFICES ASSUME NEW i \in 1..(skCount - 1)
                         PROVE  skbs'[(Pos(i - 1))'] = RingQueue[i + 1]
                OBVIOUS
            <4>1. i - 1 \in 0..(MaxSkb - 1) /\ i \in 1..(MaxSkb - 1) /\ i + 1 \in 1..skCount
                BY <1>0, <2>1
            <4>2. (Pos(i - 1))' = Pos(i)
                BY <2>3, <4>1
            <4>3. RingQueue[i + 1] = skbs[Pos(i)]
                BY <3>1, <4>1
            <4>4. QED
                BY <2>4, <4>1, <4>2, <4>3
        <3>6. RingQueue' \in Seq(Msgs \cup {NoSkb}) /\ Len(RingQueue') = skCount - 1
            <4>1. \A i \in 1..(skCount - 1) : RingQueue[i + 1] \in Msgs \cup {NoSkb}
                BY <1>0, <1>2, RingQueueSeq
            <4>2. skCount - 1 \in Nat
                BY <1>0
            <4>3. [k \in 1..(skCount - 1) |-> skbs'[(Pos(k - 1))']] \in [1..(skCount - 1) -> Msgs \cup {NoSkb}]
                BY <3>5, <4>1
            <4>4. QED
                BY <3>3, <4>2, <4>3
        <3>7. RingQueue' = Tail(RingQueue)
            <4>1. \A i \in 1..(skCount - 1) : RingQueue'[i] = Tail(RingQueue)[i]
                BY <3>3, <3>4, <3>5
            <4>2. QED
                BY <3>4, <3>6, <4>1, SeqEqual
        <3>8. QED
            BY <1>0, <1>2, <3>2, <3>7, Zenon DEF Queue!Take
    <2>7. QED
        BY <2>5, <2>6
<1>3. QED
    BY <1>0, <1>1, <1>2


(* A step of the driver or the card seen on the queue: a step of the       *)
(* abstract queue or a stutter.                                            *)
AbsStep == [Queue!Next]_<<RingQueue, lost>>

(* hycapi_capi_create on the queue: a fresh cinfo is an empty ring (a      *)
(* Clear), a restart keeps the ring as it is.                             *)
LEMMA RingCreate ==
    ASSUME TypeOK, RingInv, CapiCreate
    PROVE  RingInv' /\ AbsStep
<1>1. CASE ~cinfo /\ skbs' = EmptyRing /\ inIdx' = 0 /\ outIdx' = 0 /\ skCount' = 0
           /\ lost' = lost
    <2>1. MaxSkb \in Nat \ {0} /\ outIdx' \in Slots
        BY <1>1, ConstFacts
    <2>2. RingQueue' = <<>>
        BY <1>1 DEF RingQueue
    <2>3. (inIdx = Pos(skCount))'
        BY <1>1, <2>1 DEF Pos
    <2>4. \A k \in 0..(MaxSkb - 1) : skbs'[(Pos(k))'] = NoSkb
        <3> SUFFICES ASSUME NEW k \in 0..(MaxSkb - 1) PROVE skbs'[(Pos(k))'] = NoSkb
            OBVIOUS
        <3>1. (Pos(k))' \in Slots
            BY <1>1, <2>1 DEF Pos, Slots
        <3>2. QED
            BY <1>1, <3>1 DEF EmptyRing
    <2>5. RingInv'
        BY <1>1, <2>1, <2>3, <2>4 DEF RingInv
    <2>6. Queue!Clear
        BY <1>1, <2>2 DEF Queue!Clear
    <2>7. QED
        BY <2>5, <2>6 DEF AbsStep, Queue!Next
<1>2. CASE UNCHANGED <<skbs, inIdx, outIdx, skCount, lost>>
    BY <1>2 DEF RingInv, RingQueue, Pos, AbsStep
<1>3. QED
    BY <1>1, <1>2 DEF CapiCreate

(* A step that leaves the ring alone is a stutter of the queue.            *)
LEMMA RingKeep ==
    ASSUME RingInv, UNCHANGED ring
    PROVE  RingInv' /\ AbsStep
BY DEF ring, RingInv, RingQueue, Pos, AbsStep

(* Every call of hycapi_sendmsg_internal is a step of the queue.           *)
LEMMA RingSend ==
    ASSUME TypeOK, RingInv, NEW m \in Msgs \cup {NoSkb}, SendMsgInternal(m)
    PROVE  RingInv' /\ AbsStep
<1>1. /\ RingInv'
      /\ \/ Queue!Put(m) \/ Queue!Overfill
         \/ UNCHANGED <<RingQueue, lost>>
    BY RingEnqueue
<1>2. QED
    BY <1>1 DEF AbsStep, Queue!Next

(* hycapi_register_internal queues a REGISTER or, when alloc_skb fails,    *)
(* leaves the ring alone.                                                  *)
LEMMA RingRegister ==
    ASSUME TypeOK, RingInv, NEW a \in Appls, NEW ok, RegisterInternal(a, ok)
    PROVE  RingInv' /\ AbsStep
<1>1. CASE ok
    <2>1. SendMsgInternal(Msg(a, "REGISTER")) /\ Msg(a, "REGISTER") \in Msgs
        BY <1>1, ConstFacts DEF RegisterInternal, Cmds
    <2>2. QED
        BY <2>1, RingSend
<1>2. CASE ~ok
    BY <1>2, RingKeep DEF RegisterInternal
<1>3. QED
    BY <1>1, <1>2


(* Every step of the driver and the card keeps RingInv and is a step of    *)
(* the queue or a stutter: the enqueues of release_appl, send_message and  *)
(* restart_internal are Puts or an Overfill, tx_capiack is a Take and     *)
(* capi_create a Clear.                                                    *)
LEMMA RingStep == IInv /\ RingInv /\ [Next]_vars => RingInv' /\ AbsStep
<1> SUFFICES ASSUME IInv, RingInv, [Next]_vars PROVE RingInv' /\ AbsStep
    OBVIOUS
<1>0. TypeOK
    BY DEF IInv
<1>1. CASE \E a \in Appls, rp \in Params : RegisterAppl(a, rp)
    BY <1>1, RingKeep DEF RegisterAppl
<1>2. CASE \E a \in Appls : ReleaseAppl(a)
    <2>1. PICK a \in Appls, ok \in AllocResults :
             IF AppCheck(a) /\ ok THEN SendMsgInternal(Msg(a, "RELEASE"))
                                  ELSE UNCHANGED <<suspended>> /\ UNCHANGED ring
        BY <1>2 DEF ReleaseAppl
    <2>2. CASE AppCheck(a) /\ ok
        <3>1. SendMsgInternal(Msg(a, "RELEASE")) /\ Msg(a, "RELEASE") \in Msgs
            BY <2>1, <2>2, ConstFacts DEF Cmds
        <3>2. QED
            BY <1>0, <3>1, RingSend
    <2>3. CASE ~(AppCheck(a) /\ ok)
        BY <2>1, <2>3, RingKeep
    <2>4. QED
        BY <2>2, <2>3
<1>3. CASE \E a \in Appls, c \in KernelCmds : SendMessage(a, c)
    <2>1. PICK a \in Appls, c \in KernelCmds : SendMessage(a, c)
        BY <1>3
    <2>2. CASE AppCheck(a)
        BY <2>1, <2>2, RingKeep DEF SendMessage
    <2>3. CASE ~AppCheck(a)
        <3>1. PICK ok \in AllocResults : RegisterInternal(a, ok)
            BY <2>1, <2>3 DEF SendMessage
        <3>2. QED
            BY <1>0, <3>1, RingRegister
    <2>4. QED
        BY <2>2, <2>3
<1>4. CASE SendRest
    <2>1. drv.m \in Msgs /\ SendMsgInternal(drv.m)
        BY <1>4 DEF SendRest, IInv, DrvOK, Idle, Msgs, Cmds
    <2>2. QED
        BY <1>0, <2>1, RingSend
<1>5. CASE RestartStep
    <2> DEFINE i == drv.i
    <2>1. drv.op = "restart" /\ i \in 1..(MaxAppl + 1)
        BY <1>5 DEF RestartStep, IInv, DrvOK, Idle
    <2>2. CASE i > MaxAppl
        BY <1>5, <2>2, RingKeep DEF RestartStep
    <2>3. CASE ~(i > MaxAppl) /\ drv.stage = "reg" /\ AppCheck(i)
        <3>1. i \in Appls
            BY <2>1, <2>3, ConstFacts DEF Appls
        <3>2. PICK ok \in AllocResults : RegisterInternal(i, ok)
            BY <1>5, <2>3 DEF RestartStep
        <3>3. QED
            BY <1>0, <3>1, <3>2, RingRegister
    <2>4. CASE ~(i > MaxAppl) /\ ~(drv.stage = "reg" /\ AppCheck(i))
               /\ drv.stage = "listen" /\ appl[i].listen
        <3>1. i \in Appls
            BY <2>1, <2>4, ConstFacts DEF Appls
        <3>2. PICK ok \in AllocResults :
                 SendMsgInternal(IF ok THEN Msg(i, "LISTEN_REQ") ELSE NoSkb)
            BY <1>5, <2>4 DEF RestartStep
        <3>3. (IF ok THEN Msg(i, "LISTEN_REQ") ELSE NoSkb) \in Msgs \cup {NoSkb}
            <4>1. "LISTEN_REQ" \in Cmds
                BY DEF Cmds, KernelCmds
            <4>2. Msg(i, "LISTEN_REQ") \in Msgs
                BY <3>1, <4>1, ConstFacts, Zenon
            <4>3. QED
                BY <4>2
        <3>4. QED
            BY <1>0, <3>2, <3>3, RingSend
    <2>5. CASE ~(i > MaxAppl) /\ ~(drv.stage = "reg" /\ AppCheck(i))
               /\ ~(drv.stage = "listen" /\ appl[i].listen)
        BY <1>5, <2>5, RingKeep DEF RestartStep
    <2>6. QED
        BY <2>2, <2>3, <2>4, <2>5
<1>6. CASE ResetCtr
    BY <1>6, RingKeep DEF ResetCtr
<1>7. CASE CapiCreate
    BY <1>0, <1>7, RingCreate
<1>8. CASE CapiStop
    BY <1>8, RingKeep DEF CapiStop
<1>9. CASE CapiRelease
    BY <1>9, RingKeep DEF CapiRelease
<1>10. CASE CardTx
    <2>1. RingInv' /\ (Queue!Take \/ UNCHANGED <<RingQueue, lost>>)
        BY <1>0, <1>10, RingTake
    <2>2. QED
        BY <2>1 DEF AbsStep, Queue!Next
<1>11. CASE \E p \in RxPackets : RxCapiPkt(p)
    BY <1>11, RingKeep DEF RxCapiPkt
<1>12. CASE UNCHANGED vars
    BY <1>12, RingKeep DEF vars, ring
<1>13. QED
    BY <1>1, <1>2, <1>3, <1>4, <1>5, <1>6, <1>7, <1>8, <1>9, <1>10, <1>11,
       <1>12 DEF Next

(* The driver starts with an empty ring and no loss: the queue's Init.     *)
LEMMA RingInit == Init => RingInv /\ Queue!Init
<1> SUFFICES ASSUME Init PROVE RingInv /\ Queue!Init
    OBVIOUS
<1>1. skbs = EmptyRing /\ inIdx = 0 /\ outIdx = 0 /\ skCount = 0 /\ lost = FALSE
    BY DEF Init
<1>2. MaxSkb \in Nat \ {0}
    BY ConstFacts
<1>3. \A k \in 0..(MaxSkb - 1) : Pos(k) \in Slots
    BY <1>1, <1>2 DEF Pos, Slots
<1>4. RingInv
    BY <1>1, <1>2, <1>3 DEF RingInv, Pos, EmptyRing
<1>5. RingQueue = <<>>
    BY <1>1 DEF RingQueue
<1>6. QED
    BY <1>1, <1>4, <1>5 DEF Queue!Init

(* Until sendmsg_internal first queues an entry over an unsent one, the   *)
(* ring never holds more than HYSDN_MAX_CAPI_SKB entries, in_idx stays     *)
(* sk_count slots past out_idx, and tx_capiack leaves every slot past the  *)
(* queued entries NULL.                                                    *)
THEOREM RingInvHolds == Spec => []RingInv
<1>1. IInv /\ RingInv /\ [Next]_vars => RingInv'
    BY RingStep
<1>2. QED
    BY RingInit, IInvHolds, <1>1, PTL DEF Spec

(* sendmsg_internal, tx_capiget/tx_capiack and capi_create implement a     *)
(* first-in first-out queue of HYSDN_MAX_CAPI_SKB entries: read from       *)
(* out_idx, the ring's sk_count entries are the abstract queue, every      *)
(* enqueue is a Put (or, on a full ring or a slot still in use, the loss), *)
(* every card acknowledgement takes the head, and capi_create clears it.   *)
THEOREM QueueRefinement == Spec => QueueSpec
<1>1. IInv /\ RingInv /\ [Next]_vars => [Queue!Next]_<<RingQueue, lost>>
    BY RingStep DEF AbsStep
<1>2. Init => Queue!Init
    BY RingInit
<1>3. QED
    BY <1>1, <1>2, IInvHolds, RingInvHolds, PTL DEF Spec, QueueSpec, Queue!Spec, Queue!vars


=============================================================================
