--------------------------- MODULE PPPoEDiscovery ---------------------------
(***************************************************************************)
(* The client side of PPPoE discovery, kpppoe_discovery() and the static   *)
(* functions it calls in src/progs.gpl/pppd.alpha/kpppoe/discovery.c.      *)
(*                                                                         *)
(* One process drives the handshake: it broadcasts PADI, waits for a PADO, *)
(* unicasts PADR to the accepted Access Concentrator and waits for PADS.   *)
(* The network is the environment: in every wait it may deliver any frame *)
(* of the set Frames (a lost, duplicated, forged or malformed frame is     *)
(* just another choice), the wait may time out, and select() may fail.     *)
(*                                                                         *)
(* Data is abstracted: a MAC address is a model value, a tag payload is a  *)
(* record [id, len] whose len is its byte length, a frame carries at most  *)
(* one tag of each type.  Sizes are kept where CHECK_ROOM depends on them. *)
(***************************************************************************)
EXTENDS Naturals

CONSTANTS
    Me,           \* conn->myEth
    Macs,         \* every Ethernet address a frame may carry
    Unicast,      \* the addresses whose multicast bit is clear
    Payloads,     \* tag payloads: AC names, service names, cookies, relay ids
    Sessions,     \* session ids a PADS may carry
    Frames,       \* the frames the network may deliver
    Configs,      \* the connection configurations a run starts from
    MaxAttempts,  \* MAX_PADI_ATTEMPTS
    BaseTimeout,  \* PADI_TIMEOUT, in ticks of the model's clock
    MaxPayload,   \* MAX_PPPOE_PAYLOAD, the room CHECK_ROOM allows
    MaxPADOs,     \* bound on conn->numPADOs for the model checker
    NoTag, NoFilter, NoMac, NoFrame, NoSession, Overflow, MyPid, OtherPid

(* The PPPoE discovery codes, and the states of conn->discoveryState.      *)
PADI == "PADI"
PADO == "PADO"
PADR == "PADR"
PADS == "PADS"
PADT == "PADT"
Codes == {PADI, PADO, PADR, PADS, PADT}
INIT == "INIT"
SENT_PADI == "SENT_PADI"
RECEIVED_PADO == "RECEIVED_PADO"
SENT_PADR == "SENT_PADR"
SESSION == "SESSION"
States == {INIT, SENT_PADI, RECEIVED_PADO, SENT_PADR, SESSION}

(* TAG_HDR_SIZE and sizeof(pid_t), the Host-Uniq payload length.           *)
TagHdrSize == 4
PidSize == 4

OptPayload == Payloads \cup {NoTag}

(* A frame as receivePacket() leaves it: the Ethernet addresses, the code, *)
(* whether the PPPoE length field fits the bytes received, the tags the    *)
(* parser yields, and the session field of the PPPoE header.               *)
FrameType ==
    [dst : Macs, src : Macs, code : Codes, lenOK : BOOLEAN,
     acName : OptPayload, svcName : OptPayload, cookie : OptPayload,
     relay : OptPayload, hostUniq : {NoTag, MyPid, OtherPid},
     err : BOOLEAN, session : Sessions]

(* The fields of the PPPoEConnection that configure the handshake.         *)
ConfigType ==
    [useHostUniq : BOOLEAN, printACNames : BOOLEAN, skipDiscovery : BOOLEAN,
     noDiscoverySocket : BOOLEAN, killSession : BOOLEAN,
     acName : Payloads \cup {NoFilter}, serviceName : Payloads \cup {NoFilter}]

(* A PADR as sendPADR() builds it.                                         *)
PADRType ==
    [dst : Macs, hostUniq : BOOLEAN, cookie : OptPayload, relay : OptPayload,
     size : Nat]

(* struct PacketCriteria, the PADO scan accumulator.                        *)
ScanType == [seenACName : BOOLEAN, seenServiceName : BOOLEAN,
             acNameOK : BOOLEAN, serviceNameOK : BOOLEAN]

Pcs == {"Start", "PADI", "WaitPADO", "PADR", "WaitPADS",
        "Done", "TimedOut", "Exited", "Aborted"}

(* What the code and the wire format guarantee of the parameters.         *)
ASSUME MacsAssumption == Me \in Unicast /\ Unicast \subseteq Macs /\ NoMac \notin Macs
ASSUME PayloadsAssumption ==
    /\ \A p \in Payloads : p.len \in Nat
    /\ NoTag \notin Payloads
    /\ NoFilter \notin Payloads
ASSUME SessionsAssumption == Sessions \subseteq 0..65535 /\ NoSession \notin Sessions
ASSUME FramesAssumption == Frames \subseteq FrameType
ASSUME ConfigsAssumption == Configs \subseteq ConfigType
ASSUME BoundsAssumption ==
    /\ MaxAttempts \in Nat \ {0}
    /\ BaseTimeout \in Nat \ {0}
    /\ MaxPayload \in Nat
    /\ MaxPADOs \in Nat
ASSUME MarkersAssumption ==
    /\ NoFrame \notin PADRType \cup FrameType
    /\ Overflow \notin PADRType

VARIABLES
    conf,          \* the configuration fields of *conn
    pc,            \* where kpppoe_discovery() is
    discoveryState,\* conn->discoveryState
    padiAttempts,  \* local padiAttempts
    padrAttempts,  \* local padrAttempts
    timeout,       \* local timeout of kpppoe_discovery()
    remaining,     \* what is left of tv in the current select()
    scan,          \* pc, the PacketCriteria of waitForPADO()
    cookie,        \* conn->cookie
    relayId,       \* conn->relayId
    peerEth,       \* conn->peerEth
    session,       \* conn->session
    numPADOs,      \* conn->numPADOs
    padr,          \* the last PADR handed to sendPacket(), or Overflow
    accepted,      \* history: the PADO that set peerEth
    pads,          \* history: the PADS that ended discovery
    elapsed,       \* history: ticks since the current wait began
    fatal          \* history: the frame whose error tag made it exit(1)

vars == <<conf, pc, discoveryState, padiAttempts, padrAttempts, timeout,
          remaining, scan, cookie, relayId, peerEth, session, numPADOs,
          padr, accepted, pads, elapsed, fatal>>

-----------------------------------------------------------------------------
(* packetIsForMe() and parseForHostUniq(): the frame is addressed to our   *)
(* MAC and, when Host-Uniq is used, carries our pid as a Host-Uniq tag.    *)
packetIsForMe(f) ==
    /\ f.dst = Me
    /\ conf.useHostUniq => f.hostUniq = MyPid

NOT_UNICAST(mac) == mac \notin Unicast

(* Length of an optional name or tag payload, 0 for a NULL name.           *)
PayloadLen(p) == IF p \in Payloads THEN p.len ELSE 0

(* The bytes a tag occupies when it is copied into a frame.                *)
TagLen(t) == IF t = NoTag THEN 0 ELSE TagHdrSize + t.len

HostUniqLen == IF conf.useHostUniq THEN TagHdrSize + PidSize ELSE 0

(* The payload length plen of sendPADI(): Service-Name and Host-Uniq.      *)
PADILen == TagHdrSize + PayloadLen(conf.serviceName) + HostUniqLen

(* The payload length of sendPADR(): PADI's tags, the cookie and relay id. *)
PADRLen == PADILen + TagLen(cookie) + TagLen(relayId)

(* waitForPADO() lines 240-244: a filter that is not configured matches.   *)
InitScan == [seenACName |-> FALSE, seenServiceName |-> FALSE,
             acNameOK |-> conf.acName = NoFilter,
             serviceNameOK |-> conf.serviceName = NoFilter]

(* parsePADOTags() folded over the tags of f, starting from scan s.        *)
ScanPADO(s, f) ==
    [seenACName |-> s.seenACName \/ f.acName # NoTag,
     seenServiceName |-> s.seenServiceName \/ f.svcName # NoTag,
     acNameOK |-> s.acNameOK \/ (f.acName # NoTag /\ f.acName = conf.acName),
     serviceNameOK |-> s.serviceNameOK
                       \/ (f.svcName # NoTag /\ f.svcName = conf.serviceName)]

(* A captured tag is replaced by one the frame carries.                    *)
Capture(old, new) == IF new # NoTag THEN new ELSE old

(* A mutant of DropsPADO: the non-unicast source check is missing.        *)
DropsPADONoUnicastCheck(f) ==
    ~f.lenOK \/ ~packetIsForMe(f) \/ f.code # PADO

(* waitForPADO() lines 273-299: the checks that send a frame round the    *)
(* loop before its tags are parsed.                                       *)
DropsPADO(f) ==
    ~f.lenOK \/ ~packetIsForMe(f) \/ f.code # PADO \/ NOT_UNICAST(f.src)

(* A mutant of DropsPADS: frames from any source are taken.               *)
DropsPADSAnySource(f) ==
    ~f.lenOK \/ ~packetIsForMe(f) \/ f.code # PADS

(* waitForPADS() lines 468-482: the checks that send a frame round the    *)
(* loop.                                                                  *)
DropsPADS(f) ==
    ~f.lenOK \/ f.src # peerEth \/ ~packetIsForMe(f) \/ f.code # PADS

(* A mutant of OverBudget: the attempt counter is compared one too late.  *)
OverBudgetLate(n) == n > MaxAttempts + 1

(* The attempt budget test of both loops of kpppoe_discovery().           *)
OverBudget(n) == n > MaxAttempts

-----------------------------------------------------------------------------
Init ==
    /\ conf \in Configs
    /\ pc = "Start"
    /\ discoveryState = INIT
    /\ padiAttempts = 0
    /\ padrAttempts = 0
    /\ timeout = BaseTimeout
    /\ remaining = 0
    /\ scan = [seenACName |-> FALSE, seenServiceName |-> FALSE,
               acNameOK |-> FALSE, serviceNameOK |-> FALSE]
    /\ cookie = NoTag
    /\ relayId = NoTag
    /\ peerEth = NoMac
    /\ session = NoSession
    /\ numPADOs = 0
    /\ padr = NoFrame
    /\ accepted = NoFrame
    /\ pads = NoFrame
    /\ elapsed = 0
    /\ fatal = NoFrame

(* kpppoe_discovery() up to the PADI loop: the skip-discovery exits.       *)
Start ==
    /\ pc = "Start"
    /\ IF conf.skipDiscovery
         THEN /\ discoveryState' = SESSION
              /\ pc' = IF ~conf.noDiscoverySocket /\ conf.killSession
                         THEN "Exited" ELSE "Done"
         ELSE /\ pc' = "PADI"
              /\ UNCHANGED discoveryState
    /\ UNCHANGED <<conf, padiAttempts, padrAttempts, timeout, remaining, scan,
                   cookie, relayId, peerEth, session, numPADOs, padr,
                   accepted, pads, elapsed, fatal>>

(* One turn of the PADI loop: count the attempt, give up past the budget, *)
(* else sendPADI() (CHECK_ROOM returns before sending when the payload    *)
(* would not fit), enter SENT_PADI and begin waitForPADO().               *)
SendPADI ==
    /\ pc = "PADI"
    /\ padiAttempts' = padiAttempts + 1
    /\ IF OverBudget(padiAttempts')
         THEN /\ pc' = "TimedOut"
              /\ UNCHANGED <<discoveryState, remaining, scan, elapsed>>
         ELSE /\ discoveryState' = SENT_PADI
              /\ pc' = "WaitPADO"
              /\ remaining' = timeout
              /\ scan' = InitScan
              /\ elapsed' = 0
    /\ UNCHANGED <<conf, padrAttempts, timeout, cookie, relayId, peerEth,
                   session, numPADOs, padr, accepted, pads, fatal>>

(* A mutant of EndPADIAttempt: the timeout is not reset for the PADR      *)
(* loop (line 563 missing).                                               *)
EndPADIAttemptNoReset(ds, nPADOs) ==
    \/ /\ conf.printACNames /\ nPADOs > 0
       /\ pc' = "Exited"
       /\ timeout' = timeout
    \/ /\ ~(conf.printACNames /\ nPADOs > 0)
       /\ ds = SENT_PADI
       /\ pc' = "PADI"
       /\ timeout' = IF conf.printACNames THEN timeout ELSE 2 * timeout
    \/ /\ ~(conf.printACNames /\ nPADOs > 0)
       /\ ds # SENT_PADI
       /\ pc' = "PADR"
       /\ timeout' = 2 * timeout

(* A mutant of EndPADIAttempt: the PADI loop runs while the state is not  *)
(* SESSION instead of while it is SENT_PADI.                              *)
EndPADIAttemptWrongLoop(ds, nPADOs) ==
    \/ /\ conf.printACNames /\ nPADOs > 0
       /\ pc' = "Exited"
       /\ timeout' = timeout
    \/ /\ ~(conf.printACNames /\ nPADOs > 0)
       /\ ds # SESSION
       /\ pc' = "PADI"
       /\ timeout' = IF conf.printACNames THEN timeout ELSE 2 * timeout
    \/ /\ ~(conf.printACNames /\ nPADOs > 0)
       /\ ds = SESSION
       /\ pc' = "PADR"
       /\ timeout' = BaseTimeout

(* The rest of a PADI loop turn once waitForPADO() has returned with the  *)
(* state ds: back off unless probing, stop a probe that saw a PADO, loop  *)
(* while still SENT_PADI, else reset the timeout for the PADR loop.       *)
EndPADIAttempt(ds, nPADOs) ==
    \/ /\ conf.printACNames /\ nPADOs > 0
       /\ pc' = "Exited"
       /\ timeout' = timeout
    \/ /\ ~(conf.printACNames /\ nPADOs > 0)
       /\ ds = SENT_PADI
       /\ pc' = "PADI"
       /\ timeout' = IF conf.printACNames THEN timeout ELSE 2 * timeout
    \/ /\ ~(conf.printACNames /\ nPADOs > 0)
       /\ ds # SENT_PADI
       /\ pc' = "PADR"
       /\ timeout' = BaseTimeout

(* A mutant of Tick: a time unit passes without tv counting down.        *)
TickNoCountdown ==
    /\ pc \in {"WaitPADO", "WaitPADS"}
    /\ remaining > 0
    /\ remaining' = remaining
    /\ elapsed' = IF elapsed > timeout THEN elapsed ELSE elapsed + 1
    /\ UNCHANGED <<conf, pc, discoveryState, padiAttempts, padrAttempts,
                   timeout, scan, cookie, relayId, peerEth, session,
                   numPADOs, padr, accepted, pads, fatal>>

(* One clock tick of a select() in progress.                              *)
Tick ==
    /\ pc \in {"WaitPADO", "WaitPADS"}
    /\ remaining > 0
    /\ remaining' = remaining - 1
    /\ elapsed' = IF elapsed > timeout THEN elapsed ELSE elapsed + 1
    /\ UNCHANGED <<conf, pc, discoveryState, padiAttempts, padrAttempts,
                   timeout, scan, cookie, relayId, peerEth, session,
                   numPADOs, padr, accepted, pads, fatal>>

(* select() returns 0 (timeout) or fails: waitForPADO() returns with the  *)
(* state still SENT_PADI and the PADI loop carries on.                    *)
PADOWaitEnds ==
    /\ pc = "WaitPADO"
    /\ \/ remaining = 0
       \/ remaining > 0       \* select() fails with an error other than EINTR
    /\ EndPADIAttempt(discoveryState, numPADOs)
    /\ UNCHANGED <<conf, discoveryState, padiAttempts, padrAttempts,
                   remaining, scan, cookie, relayId, peerEth, session,
                   numPADOs, padr, accepted, pads, elapsed, fatal>>

(* One frame read by waitForPADO(), lines 268-364.  Every frame that does *)
(* not end the wait goes round the loop, whose first statement sets tv    *)
(* back to the whole timeout.                                             *)
ReceivePADO(f) ==
    /\ pc = "WaitPADO"
    /\ remaining > 0
    /\ IF DropsPADO(f)
         THEN /\ remaining' = timeout
              /\ UNCHANGED <<pc, discoveryState, timeout, scan, cookie,
                             relayId, peerEth, numPADOs, accepted, fatal>>
         ELSE IF f.err /\ ~conf.printACNames
         THEN /\ pc' = "Aborted"                    \* exit(1)
              /\ fatal' = f
              /\ UNCHANGED <<discoveryState, timeout, remaining, scan, cookie,
                             relayId, peerEth, numPADOs, accepted>>
         ELSE LET s == ScanPADO(scan, f) IN
              /\ UNCHANGED fatal
              /\ scan' = s
              /\ cookie' = Capture(cookie, f.cookie)
              /\ relayId' = Capture(relayId, f.relay)
              /\ IF ~s.seenACName \/ ~s.seenServiceName
                   THEN /\ remaining' = timeout
                        /\ UNCHANGED <<pc, discoveryState, timeout, peerEth,
                                       numPADOs, accepted>>
                   ELSE /\ numPADOs' = numPADOs + 1
                        /\ numPADOs' <= MaxPADOs
                        /\ IF s.acNameOK /\ s.serviceNameOK
                             THEN /\ peerEth' = f.src
                                  /\ accepted' = f
                             ELSE UNCHANGED <<peerEth, accepted>>
                        /\ IF s.acNameOK /\ s.serviceNameOK
                                /\ ~conf.printACNames
                             THEN /\ discoveryState' = RECEIVED_PADO
                                  /\ EndPADIAttempt(RECEIVED_PADO, numPADOs')
                                  /\ UNCHANGED remaining
                             ELSE /\ remaining' = timeout
                                  /\ UNCHANGED <<pc, discoveryState, timeout>>
    /\ UNCHANGED <<conf, padiAttempts, padrAttempts, session, padr, pads,
                   elapsed>>

(* One turn of the PADR loop: count the attempt, give up past the budget, *)
(* else sendPADR() replaying conn->cookie and conn->relayId (nothing is   *)
(* sent when CHECK_ROOM finds no room), enter SENT_PADR and wait.         *)
SendPADR ==
    /\ pc = "PADR"
    /\ padrAttempts' = padrAttempts + 1
    /\ IF OverBudget(padrAttempts')
         THEN /\ pc' = "TimedOut"
              /\ UNCHANGED <<discoveryState, remaining, padr, elapsed>>
         ELSE /\ padr' = IF PADRLen > MaxPayload THEN Overflow
                         ELSE [dst |-> peerEth, hostUniq |-> conf.useHostUniq,
                               cookie |-> cookie, relay |-> relayId,
                               size |-> PADRLen]
              /\ discoveryState' = SENT_PADR
              /\ pc' = "WaitPADS"
              /\ remaining' = timeout
              /\ elapsed' = 0
    /\ UNCHANGED <<conf, padiAttempts, timeout, scan, cookie, relayId,
                   peerEth, session, numPADOs, accepted, pads, fatal>>

(* select() returns 0 or fails: waitForPADS() returns before touching     *)
(* conn->session, the timeout doubles and the PADR loop carries on.       *)
PADSWaitEnds ==
    /\ pc = "WaitPADS"
    /\ \/ remaining = 0
       \/ remaining > 0       \* select() fails with an error other than EINTR
    /\ pc' = "PADR"
    /\ timeout' = 2 * timeout
    /\ UNCHANGED <<conf, discoveryState, padiAttempts, padrAttempts,
                   remaining, scan, cookie, relayId, peerEth, session,
                   numPADOs, padr, accepted, pads, elapsed, fatal>>

(* One frame read by waitForPADS(), lines 465-504, and on a PADS the end  *)
(* of kpppoe_discovery(): the session id comes from the PPPoE header.     *)
ReceivePADS(f) ==
    /\ pc = "WaitPADS"
    /\ remaining > 0
    /\ IF DropsPADS(f)
         THEN /\ remaining' = timeout
              /\ UNCHANGED <<pc, discoveryState, timeout, relayId, session,
                             pads, fatal>>
         ELSE IF f.err
         THEN /\ pc' = "Aborted"                    \* exit(1)
              /\ fatal' = f
              /\ UNCHANGED <<discoveryState, timeout, remaining, relayId,
                             session, pads>>
         ELSE /\ relayId' = Capture(relayId, f.relay)
              /\ discoveryState' = SESSION
              /\ session' = f.session
              /\ pads' = f
              /\ timeout' = 2 * timeout
              /\ pc' = "Done"
              /\ UNCHANGED <<remaining, fatal>>
    /\ UNCHANGED <<conf, padiAttempts, padrAttempts, scan, cookie, peerEth,
                   numPADOs, padr, accepted, elapsed>>

(* The process has returned or exited: nothing changes any more.          *)
Terminated ==
    /\ pc \in {"Done", "TimedOut", "Exited", "Aborted"}
    /\ UNCHANGED vars

Next ==
    \/ Start
    \/ SendPADI
    \/ Tick
    \/ PADOWaitEnds
    \/ \E f \in Frames : ReceivePADO(f)
    \/ SendPADR
    \/ PADSWaitEnds
    \/ \E f \in Frames : ReceivePADS(f)
    \/ Terminated

Spec == Init /\ [][Next]_vars

(* The select() of a wait in progress returns 0 once its timer has run   *)
(* out (a failure of select() is not something a run can count on).      *)
TimerExpires ==
    /\ remaining = 0
    /\ PADOWaitEnds \/ PADSWaitEnds

(* The process runs on its own: its loop steps are taken once enabled,   *)
(* time passes while it waits, and an expired timer ends the wait.       *)
FairSpec ==
    /\ Spec
    /\ WF_vars(Start) /\ WF_vars(SendPADI) /\ WF_vars(SendPADR)
    /\ WF_vars(Tick) /\ WF_vars(TimerExpires)

-----------------------------------------------------------------------------
(* Every variable has the type the code gives it.                         *)
TypeOK ==
    /\ conf \in ConfigType
    /\ pc \in Pcs
    /\ discoveryState \in States
    /\ padiAttempts \in 0..(MaxAttempts + 1)
    /\ padrAttempts \in 0..(MaxAttempts + 1)
    /\ timeout \in Nat \ {0}
    /\ remaining \in Nat
    /\ scan \in ScanType
    /\ cookie \in OptPayload
    /\ relayId \in OptPayload
    /\ peerEth \in Macs \cup {NoMac}
    /\ session \in Sessions \cup {NoSession}
    /\ numPADOs \in 0..MaxPADOs
    /\ padr \in PADRType \cup {NoFrame, Overflow}
    /\ accepted \in FrameType \cup {NoFrame}
    /\ pads \in FrameType \cup {NoFrame}
    /\ elapsed \in Nat
    /\ fatal \in FrameType \cup {NoFrame}

(* A PADR is only ever sent to the Access Concentrator whose PADO set     *)
(* peerEth, and that PADO passed every check of waitForPADO(): right      *)
(* length, addressed to us (with our Host-Uniq when used), a PADO, from a *)
(* unicast source.  Breaks if any filter of waitForPADO() is dropped.     *)
RequestGoesToOfferer ==
    padr \in PADRType =>
        /\ accepted \in FrameType
        /\ padr.dst = peerEth
        /\ peerEth = accepted.src
        /\ accepted.code = PADO
        /\ accepted.lenOK
        /\ packetIsForMe(accepted)
        /\ ~NOT_UNICAST(accepted.src)

(* conn->session holds a value exactly when a PADS ended discovery, and   *)
(* that PADS came from the peer chosen in the PADI phase, was addressed   *)
(* to us and supplied the session id (waitForPADS(), lines 469-493).      *)
SessionFromPeer ==
    /\ (session # NoSession) <=> (pads # NoFrame)
    /\ pads # NoFrame =>
        /\ discoveryState = SESSION
        /\ pads.code = PADS
        /\ pads.lenOK
        /\ pads.src = peerEth
        /\ peerEth = accepted.src
        /\ packetIsForMe(pads)
        /\ session = pads.session

(* 2^k, the factor k doublings give, as a function defined by recursion.  *)
Pow2[k \in Nat] == IF k = 0 THEN 1 ELSE 2 * Pow2[k - 1]

(* The timeout of the wait in progress is the base timeout doubled once   *)
(* per earlier attempt of the same phase, never doubled when probing, and *)
(* the PADR phase starts again from the base (kpppoe_discovery() lines    *)
(* 511, 552, 563, 575); the attempt is within the budget.                 *)
BackoffSchedule ==
    /\ pc = "WaitPADO" =>
        /\ padiAttempts \in 1..MaxAttempts
        /\ timeout = IF conf.printACNames THEN BaseTimeout
                     ELSE BaseTimeout * Pow2[padiAttempts - 1]
    /\ pc = "WaitPADS" =>
        /\ padrAttempts \in 1..MaxAttempts
        /\ timeout = BaseTimeout * Pow2[padrAttempts - 1]

(* Position of a discovery state along INIT -> ... -> SESSION.            *)
Rank(s) == CASE s = INIT -> 0 [] s = SENT_PADI -> 1 [] s = RECEIVED_PADO -> 2
                [] s = SENT_PADR -> 3 [] s = SESSION -> 4

(* conn->discoveryState never moves back: a retry stays in its phase.     *)
PhaseNeverRegresses ==
    [][Rank(discoveryState') >= Rank(discoveryState)]_vars

(* Spec section 3: the PADR replays the cookie and relay id of the PADO   *)
(* that was accepted, and no other.                                        *)
CookieEchoed ==
    padr \in PADRType =>
        /\ padr.cookie = accepted.cookie
        /\ padr.relay = accepted.relay

(* Spec section 4.3: a PADO is accepted only if it carries an AC-Name and *)
(* a Service-Name tag and each configured filter matches its tag.          *)
AcceptedOfferWellFormed ==
    accepted # NoFrame =>
        /\ accepted.acName # NoTag
        /\ accepted.svcName # NoTag
        /\ conf.acName # NoFilter => accepted.acName = conf.acName
        /\ conf.serviceName # NoFilter => accepted.svcName = conf.serviceName

(* Spec section 4.3: a wait for PADO or PADS lasts no longer than the     *)
(* phase's current timeout.                                                *)
WaitWithinDeadline ==
    pc \in {"WaitPADO", "WaitPADS"} => elapsed <= timeout


(* Spec section 3: the process stops only on an error tag of a frame the  *)
(* current wait has vetted: a PADO that passed waitForPADO()'s length,    *)
(* address, Host-Uniq and unicast checks outside probe mode (line 114),   *)
(* or a PADS from the chosen peer (line 157); a forged or misaddressed    *)
(* frame with an error tag cannot end discovery.                          *)
AbortedByVettedFrame ==
    /\ (pc = "Aborted") <=> (fatal # NoFrame)
    /\ fatal # NoFrame =>
        /\ fatal.err /\ fatal.lenOK /\ packetIsForMe(fatal)
        /\ \/ /\ fatal.code = PADO /\ ~NOT_UNICAST(fatal.src)
              /\ ~conf.printACNames /\ discoveryState = SENT_PADI
           \/ /\ fatal.code = PADS /\ fatal.src = peerEth
              /\ discoveryState = SENT_PADR

(* conn->peerEth, once written, changes only in probe mode (line 326),    *)
(* where discovery stays in SENT_PADI and never sends a PADR: the peer a  *)
(* PADR goes to is never overwritten by a later PADO.                     *)
PeerWrittenOnce ==
    [][peerEth # NoMac /\ peerEth' # peerEth =>
         /\ conf.printACNames
         /\ discoveryState' = SENT_PADI
         /\ padr' = NoFrame]_vars

(* kpppoe_discovery() has returned or exited.                              *)
Ended == pc \in {"Done", "TimedOut", "Exited", "Aborted"}

(* A frame is read by one of the waits.                                    *)
FrameRead == \E f \in Frames : ReceivePADO(f) \/ ReceivePADS(f)

(* Once the network falls quiet, discovery ends: every wait times out,     *)
(* the attempt budgets of both loops run out, the timeouts are finite.     *)
(* (While frames keep coming, a wait can last for ever: wait_deadline.)    *)
DiscoveryEnds == <>[][~FrameRead]_vars => <>Ended

(* The refinement mapping: how the call has ended, from the program       *)
(* counter; the other abstract variables are the connection's fields.     *)
Outcome ==
    CASE pc = "Done" -> "done" [] pc = "TimedOut" -> "timedout"
      [] pc = "Exited" -> "exited" [] pc = "Aborted" -> "aborted"
      [] OTHER -> "running"

Abstract == INSTANCE PPPoEDiscoveryAbstract
              WITH state <- discoveryState, peer <- peerEth,
                   probe <- conf.printACNames, outcome <- Outcome

(* kpppoe_discovery() implements the abstract discovery: the states move  *)
(* forward only, the peer is a unicast offerer fixed once a PADR is due,  *)
(* a session id comes only in answer to a PADR, a probe never requests.   *)
AbstractSpec == Abstract!Spec

=============================================================================
