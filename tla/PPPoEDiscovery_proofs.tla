------------------------ MODULE PPPoEDiscovery_proofs ------------------------
(***************************************************************************)
(* Proofs about PPPoEDiscovery, for every value of the constants that      *)
(* satisfies ConstantsAssumption.                                          *)
(*                                                                         *)
(* TypeOK, RequestGoesToOfferer and SessionFromPeer are not inductive by   *)
(* themselves: a step of SendPADI keeps padiAttempts within its bound only *)
(* if the loop is entered below the budget, and a PADS step keeps the      *)
(* session tied to the peer only if peerEth can no longer change once a    *)
(* PADR has been sent.  CoreInv adds those facts.                             *)
(***************************************************************************)
EXTENDS PPPoEDiscovery, NaturalsInduction, TLAPS

USE DEF INIT, SENT_PADI, RECEIVED_PADO, SENT_PADR, SESSION,
        PADI, PADO, PADR, PADS, PADT

(* The phases before any PADR exists.                                     *)
PADIPhase == {"Start", "PADI", "WaitPADO"}

(* Where the driver is bounds its counters and what it has done so far.   *)
PhaseInv ==
    /\ pc \in PADIPhase =>
           /\ padiAttempts <= MaxAttempts
           /\ padrAttempts = 0
           /\ padr = NoFrame
    /\ pc \in {"PADR", "WaitPADS"} =>
           /\ padrAttempts <= MaxAttempts
           /\ accepted # NoFrame
    /\ pc = "WaitPADO" => discoveryState = SENT_PADI

(* peerEth is the source of the accepted PADO, which passed the filters.  *)
PeerInv ==
    /\ accepted = NoFrame => peerEth = NoMac
    /\ accepted # NoFrame =>
           /\ accepted \in Frames
           /\ ~DropsPADO(accepted)
           /\ peerEth = accepted.src

(* A PADR is built only from an accepted PADO and sent to peerEth.        *)
PADRInv == padr \in PADRType => padr.dst = peerEth /\ accepted # NoFrame

(* A PADS ends discovery and fixes the session.                           *)
PADSInv ==
    /\ pads = NoFrame => session = NoSession
    /\ pads # NoFrame =>
           /\ pads \in Frames
           /\ ~DropsPADS(pads)
           /\ session = pads.session
           /\ pc = "Done"
           /\ discoveryState = SESSION
           /\ accepted # NoFrame

(* Which discovery state each loop of kpppoe_discovery() runs in: a loop  *)
(* turn that has not yet sent leaves the state of the previous phase.     *)
StateInv ==
    /\ pc = "Start" => discoveryState = INIT /\ padiAttempts = 0
    /\ pc = "WaitPADO" => padiAttempts > 0
    /\ pc = "PADI" =>
           \/ padiAttempts = 0 /\ discoveryState = INIT
           \/ padiAttempts > 0 /\ discoveryState = SENT_PADI
    /\ pc = "PADR" =>
           \/ padrAttempts = 0 /\ discoveryState = RECEIVED_PADO
           \/ padrAttempts > 0 /\ discoveryState = SENT_PADR
    /\ pc = "WaitPADS" => discoveryState = SENT_PADR /\ padrAttempts > 0

(* A probe never reaches the PADR loop, and outside a probe an offer that *)
(* sets peerEth also ends the PADI phase.                                  *)
ProbeInv ==
    /\ conf.printACNames => pc \notin {"PADR", "WaitPADS"}
    /\ peerEth # NoMac /\ pc \in PADIPhase => conf.printACNames

(* exit(1) happened exactly on an error tag of a frame the wait vetted.   *)
FatalInv ==
    /\ (pc = "Aborted") <=> (fatal # NoFrame)
    /\ fatal # NoFrame =>
           /\ fatal \in Frames
           /\ fatal.err
           /\ \/ /\ ~DropsPADO(fatal) /\ ~conf.printACNames
                 /\ discoveryState = SENT_PADI
              \/ /\ ~DropsPADS(fatal) /\ discoveryState = SENT_PADR

(* The invariant the sitting-one proofs rest on, and the inductive        *)
(* invariant with the state, probe and exit parts added.                   *)
CoreInv == TypeOK /\ PhaseInv /\ PeerInv /\ PADRInv /\ PADSInv
ExtInv == StateInv /\ ProbeInv /\ FatalInv
IInv == CoreInv /\ ExtInv

(* The head of each loop of kpppoe_discovery() holds the timeout its next  *)
(* wait will use: the base doubled once per PADI attempt so far (never    *)
(* when probing), and once per PADR attempt since the reset at line 563.  *)
BackoffInv ==
    /\ pc = "Start" => timeout = BaseTimeout
    /\ pc = "PADI" =>
           timeout = IF conf.printACNames THEN BaseTimeout
                     ELSE BaseTimeout * Pow2[padiAttempts]
    /\ pc = "PADR" => timeout = BaseTimeout * Pow2[padrAttempts]
    /\ BackoffSchedule

-----------------------------------------------------------------------------
LEMMA InitCore == Init => CoreInv
<1> SUFFICES ASSUME Init PROVE CoreInv
    OBVIOUS
<1>1. conf \in ConfigType
    BY ConfigsAssumption DEF Init
<1>2. /\ pc \in Pcs
      /\ discoveryState \in States
      /\ scan \in ScanType
    BY DEF Init, Pcs, States, ScanType
<1>3. /\ padiAttempts \in 0..(MaxAttempts + 1)
      /\ padrAttempts \in 0..(MaxAttempts + 1)
      /\ timeout \in Nat \ {0}
      /\ remaining \in Nat
      /\ numPADOs \in 0..MaxPADOs
      /\ elapsed \in Nat
    BY BoundsAssumption DEF Init
<1>4. /\ cookie \in OptPayload
      /\ relayId \in OptPayload
      /\ peerEth \in Macs \cup {NoMac}
      /\ session \in Sessions \cup {NoSession}
      /\ padr \in PADRType \cup {NoFrame, Overflow}
      /\ accepted \in FrameType \cup {NoFrame}
      /\ pads \in FrameType \cup {NoFrame}
      /\ fatal \in FrameType \cup {NoFrame}
    BY DEF Init, OptPayload
<1>5. TypeOK
    BY <1>1, <1>2, <1>3, <1>4 DEF TypeOK
<1>6. PhaseInv
    BY BoundsAssumption DEF Init, PhaseInv, PADIPhase
<1>7. PeerInv /\ PADSInv
    BY DEF Init, PeerInv, PADSInv
<1>8. PADRInv
    BY MarkersAssumption DEF Init, PADRInv
<1>9. QED
    BY <1>5, <1>6, <1>7, <1>8 DEF CoreInv

(* The facts about a received frame that every frame step uses.            *)
LEMMA FrameFacts ==
    ASSUME NEW f \in Frames
    PROVE  /\ f \in FrameType
           /\ f.src \in Macs
           /\ f.session \in Sessions
           /\ f.cookie \in OptPayload
           /\ f.relay \in OptPayload
           /\ f # NoFrame
BY FramesAssumption, MarkersAssumption DEF FrameType, OptPayload

(* The parts of CoreInv that a step leaving their variables alone preserves. *)
LEMMA PeerInvFrame ==
    ASSUME PeerInv, UNCHANGED <<conf, peerEth, accepted>>
    PROVE  PeerInv'
BY DEF PeerInv, DropsPADO, packetIsForMe, NOT_UNICAST

LEMMA PADRInvFrame ==
    ASSUME PADRInv, UNCHANGED <<padr, peerEth, accepted>>
    PROVE  PADRInv'
BY DEF PADRInv

LEMMA PADSInvFrame ==
    ASSUME PADSInv,
           UNCHANGED <<conf, pc, discoveryState, session, peerEth, accepted,
                       pads>>
    PROVE  PADSInv'
BY DEF PADSInv, DropsPADS, packetIsForMe

(* Before the PADR loop no PADS has been taken.                            *)
LEMMA NoPADSBeforeDone ==
    ASSUME PADSInv, pc # "Done"
    PROVE  pads = NoFrame /\ session = NoSession
BY DEF PADSInv

LEMMA StartStep == CoreInv /\ Start => CoreInv'
<1> SUFFICES ASSUME CoreInv, Start PROVE CoreInv'
    OBVIOUS
<1>1. /\ pc = "Start"
      /\ padiAttempts <= MaxAttempts
      /\ padrAttempts = 0
      /\ padr = NoFrame
      /\ pads = NoFrame
      /\ session = NoSession
    BY NoPADSBeforeDone DEF CoreInv, PhaseInv, PADIPhase, Start
<1>2. /\ pc' \in {"Done", "Exited", "PADI"}
      /\ discoveryState' \in {SESSION, discoveryState}
      /\ UNCHANGED <<conf, padiAttempts, padrAttempts, timeout, remaining,
                     scan, cookie, relayId, peerEth, session, numPADOs, padr,
                     accepted, pads, elapsed, fatal>>
    BY DEF Start
<1>3. TypeOK'
    BY <1>2 DEF CoreInv, TypeOK, Pcs, States
<1>4. PhaseInv'
    BY <1>1, <1>2 DEF PhaseInv, PADIPhase
<1>5. PeerInv' /\ PADRInv'
    BY <1>2, PeerInvFrame, PADRInvFrame DEF CoreInv
<1>6. PADSInv'
    BY <1>1, <1>2 DEF PADSInv
<1>7. QED
    BY <1>3, <1>4, <1>5, <1>6 DEF CoreInv

LEMMA SendPADIStep == CoreInv /\ SendPADI => CoreInv'
<1> SUFFICES ASSUME CoreInv, SendPADI PROVE CoreInv'
    OBVIOUS
<1>1. /\ pc = "PADI"
      /\ padiAttempts <= MaxAttempts
      /\ padrAttempts = 0
      /\ padr = NoFrame
      /\ pads = NoFrame
      /\ session = NoSession
    BY NoPADSBeforeDone DEF CoreInv, PhaseInv, PADIPhase, SendPADI
<1>2. /\ padiAttempts' = padiAttempts + 1
      /\ UNCHANGED <<conf, padrAttempts, timeout, cookie, relayId, peerEth,
                     session, numPADOs, padr, accepted, pads, fatal>>
    BY DEF SendPADI
<1>3. InitScan \in ScanType
    BY DEF CoreInv, TypeOK, InitScan, ScanType
<1>4. CASE OverBudget(padiAttempts')
    <2>1. /\ pc' = "TimedOut"
          /\ UNCHANGED <<discoveryState, remaining, scan, elapsed>>
        BY <1>4 DEF SendPADI
    <2>2. TypeOK'
        BY <1>1, <1>2, <2>1, BoundsAssumption DEF CoreInv, TypeOK, Pcs
    <2>3. PhaseInv' /\ PADSInv'
        BY <1>1, <1>2, <2>1 DEF PhaseInv, PADSInv, PADIPhase
    <2>4. QED
        BY <1>2, <2>2, <2>3, PeerInvFrame, PADRInvFrame DEF CoreInv
<1>5. CASE ~OverBudget(padiAttempts')
    <2>1. /\ pc' = "WaitPADO"
          /\ discoveryState' = SENT_PADI
          /\ remaining' = timeout
          /\ scan' = InitScan
          /\ elapsed' = 0
        BY <1>5 DEF SendPADI
    <2>2. padiAttempts' <= MaxAttempts
        BY <1>5, <1>2, BoundsAssumption DEF OverBudget, CoreInv, TypeOK
    <2>3. TypeOK'
        BY <1>1, <1>2, <1>3, <2>1, <2>2, BoundsAssumption
        DEF CoreInv, TypeOK, Pcs, States
    <2>4. PhaseInv' /\ PADSInv'
        BY <1>1, <1>2, <2>1, <2>2 DEF PhaseInv, PADSInv, PADIPhase
    <2>5. QED
        BY <1>2, <2>3, <2>4, PeerInvFrame, PADRInvFrame DEF CoreInv
<1>6. QED
    BY <1>4, <1>5

LEMMA TickStep == CoreInv /\ Tick => CoreInv'
<1> SUFFICES ASSUME CoreInv, Tick PROVE CoreInv'
    OBVIOUS
<1>1. /\ remaining' \in Nat
      /\ elapsed' \in Nat
      /\ UNCHANGED <<conf, pc, discoveryState, padiAttempts, padrAttempts,
                     timeout, scan, cookie, relayId, peerEth, session,
                     numPADOs, padr, accepted, pads, fatal>>
    BY DEF Tick, CoreInv, TypeOK
<1>2. TypeOK'
    BY <1>1 DEF CoreInv, TypeOK
<1>3. PhaseInv'
    BY <1>1 DEF CoreInv, PhaseInv
<1>4. QED
    BY <1>1, <1>2, <1>3, PeerInvFrame, PADRInvFrame, PADSInvFrame DEF CoreInv

LEMMA PADOWaitEndsStep == CoreInv /\ PADOWaitEnds => CoreInv'
<1> SUFFICES ASSUME CoreInv, PADOWaitEnds PROVE CoreInv'
    OBVIOUS
<1>1. /\ pc = "WaitPADO"
      /\ discoveryState = SENT_PADI
      /\ padiAttempts <= MaxAttempts
      /\ padrAttempts = 0
      /\ padr = NoFrame
      /\ pads = NoFrame
      /\ session = NoSession
    BY NoPADSBeforeDone DEF CoreInv, PhaseInv, PADIPhase, PADOWaitEnds
<1>2. UNCHANGED <<conf, discoveryState, padiAttempts, padrAttempts,
                  remaining, scan, cookie, relayId, peerEth, session,
                  numPADOs, padr, accepted, pads, elapsed, fatal>>
    BY DEF PADOWaitEnds
<1>3. /\ pc' \in {"Exited", "PADI"}
      /\ timeout' \in Nat \ {0}
    BY <1>1 DEF CoreInv, TypeOK, PADOWaitEnds, EndPADIAttempt
<1>4. TypeOK'
    BY <1>2, <1>3 DEF CoreInv, TypeOK, Pcs
<1>5. PhaseInv' /\ PADSInv'
    BY <1>1, <1>2, <1>3 DEF PhaseInv, PADSInv, PADIPhase
<1>6. QED
    BY <1>2, <1>4, <1>5, PeerInvFrame, PADRInvFrame DEF CoreInv

LEMMA ReceivePADOStep ==
    ASSUME NEW f \in Frames
    PROVE  CoreInv /\ ReceivePADO(f) => CoreInv'
<1> SUFFICES ASSUME CoreInv, ReceivePADO(f) PROVE CoreInv'
    OBVIOUS
<1>0. /\ f \in FrameType
      /\ f # NoFrame
      /\ f.src \in Macs
      /\ f.cookie \in OptPayload
      /\ f.relay \in OptPayload
      /\ pc = "WaitPADO"
      /\ padiAttempts <= MaxAttempts
      /\ padrAttempts = 0
      /\ padr = NoFrame
      /\ pads = NoFrame
      /\ session = NoSession
    BY FrameFacts, NoPADSBeforeDone DEF CoreInv, PhaseInv, PADIPhase, ReceivePADO
<1>1. UNCHANGED <<conf, padiAttempts, padrAttempts, session, padr, pads,
                  elapsed>>
    BY DEF ReceivePADO
<1>2. CASE DropsPADO(f)
    <2>1. /\ remaining' = timeout
          /\ UNCHANGED <<pc, discoveryState, timeout, scan, cookie, relayId,
                         peerEth, numPADOs, accepted, fatal>>
        BY <1>2 DEF ReceivePADO
    <2>2. TypeOK'
        BY <1>1, <2>1 DEF CoreInv, TypeOK
    <2>3. PhaseInv' /\ PADSInv'
        BY <1>0, <1>1, <2>1 DEF CoreInv, PhaseInv, PADSInv
    <2>4. QED
        BY <1>1, <2>1, <2>2, <2>3, PeerInvFrame, PADRInvFrame DEF CoreInv
<1>3. CASE ~DropsPADO(f) /\ f.err /\ ~conf.printACNames
    <2>1. /\ pc' = "Aborted"
          /\ fatal' = f
          /\ UNCHANGED <<discoveryState, timeout, remaining, scan, cookie,
                         relayId, peerEth, numPADOs, accepted>>
        BY <1>3 DEF ReceivePADO
    <2>2. TypeOK'
        BY <1>0, <1>1, <2>1 DEF CoreInv, TypeOK, Pcs
    <2>3. PhaseInv' /\ PADSInv'
        BY <1>0, <1>1, <2>1 DEF PhaseInv, PADSInv, PADIPhase
    <2>4. QED
        BY <1>1, <2>1, <2>2, <2>3, PeerInvFrame, PADRInvFrame DEF CoreInv
<1>4. CASE ~DropsPADO(f) /\ ~(f.err /\ ~conf.printACNames)
    <2> DEFINE s == ScanPADO(scan, f)
    <2>1. /\ scan' = s
          /\ fatal' = fatal
          /\ cookie' = Capture(cookie, f.cookie)
          /\ relayId' = Capture(relayId, f.relay)
        BY <1>4 DEF ReceivePADO
    <2>2. /\ s \in ScanType
          /\ Capture(cookie, f.cookie) \in OptPayload
          /\ Capture(relayId, f.relay) \in OptPayload
        BY <1>0 DEF CoreInv, TypeOK, ScanPADO, ScanType, Capture
    <2>3. CASE ~s.seenACName \/ ~s.seenServiceName
        <3>1. /\ remaining' = timeout
              /\ UNCHANGED <<pc, discoveryState, timeout, peerEth, numPADOs,
                             accepted>>
            BY <1>4, <2>3 DEF ReceivePADO
        <3>2. TypeOK'
            BY <1>1, <2>1, <2>2, <3>1 DEF CoreInv, TypeOK
        <3>3. PhaseInv' /\ PADSInv'
            BY <1>0, <1>1, <3>1 DEF CoreInv, PhaseInv, PADSInv
        <3>4. QED
            BY <1>1, <3>1, <3>2, <3>3, PeerInvFrame, PADRInvFrame DEF CoreInv
    <2>4. CASE s.seenACName /\ s.seenServiceName
        <3>1. /\ numPADOs' = numPADOs + 1
              /\ numPADOs' <= MaxPADOs
            BY <1>4, <2>4 DEF ReceivePADO
        <3>2. numPADOs' \in 0..MaxPADOs
            BY <3>1, BoundsAssumption DEF CoreInv, TypeOK
        <3>3. CASE s.acNameOK /\ s.serviceNameOK /\ ~conf.printACNames
            <4>1. /\ discoveryState' = RECEIVED_PADO
                  /\ EndPADIAttempt(RECEIVED_PADO, numPADOs')
                  /\ peerEth' = f.src
                  /\ accepted' = f
                  /\ remaining' = remaining
                BY <1>4, <2>4, <3>3 DEF ReceivePADO
            <4>2. pc' = "PADR" /\ timeout' = BaseTimeout
                BY <3>3, <4>1 DEF EndPADIAttempt
            <4>3. TypeOK'
                BY <1>0, <1>1, <2>1, <2>2, <3>2, <4>1, <4>2, BoundsAssumption
                DEF CoreInv, TypeOK, Pcs, States
            <4>4. PhaseInv'
                BY <1>0, <1>1, <4>1, <4>2, BoundsAssumption DEF PhaseInv, PADIPhase
            <4>5. PeerInv'
                BY <1>1, <1>4, <4>1, FrameFacts, MarkersAssumption
                DEF PeerInv, DropsPADO, packetIsForMe, NOT_UNICAST
            <4>6. PADRInv' /\ PADSInv'
                BY <1>0, <1>1, <4>2, MarkersAssumption DEF PADRInv, PADSInv
            <4>7. QED
                BY <4>3, <4>4, <4>5, <4>6 DEF CoreInv
        <3>4. CASE ~(s.acNameOK /\ s.serviceNameOK /\ ~conf.printACNames)
            <4>1. /\ remaining' = timeout
                  /\ UNCHANGED <<pc, discoveryState, timeout>>
                  /\ \/ peerEth' = f.src /\ accepted' = f
                     \/ UNCHANGED <<peerEth, accepted>>
                BY <1>4, <2>4, <3>4 DEF ReceivePADO
            <4>2. TypeOK'
                BY <1>0, <1>1, <2>1, <2>2, <3>2, <4>1 DEF CoreInv, TypeOK
            <4>3. PhaseInv'
                BY <1>0, <1>1, <4>1 DEF CoreInv, PhaseInv, PADIPhase
            <4>4. PeerInv'
                <5>1. CASE peerEth' = f.src /\ accepted' = f
                    BY <1>1, <1>4, <5>1, FrameFacts
                    DEF PeerInv, DropsPADO, packetIsForMe, NOT_UNICAST
                <5>2. CASE UNCHANGED <<peerEth, accepted>>
                    BY <1>1, <5>2, PeerInvFrame DEF CoreInv
                <5>3. QED
                    BY <4>1, <5>1, <5>2
            <4>5. PADRInv' /\ PADSInv'
                BY <1>0, <1>1, <4>1, MarkersAssumption DEF PADRInv, PADSInv
            <4>6. QED
                BY <4>2, <4>3, <4>4, <4>5 DEF CoreInv
        <3>5. QED
            BY <3>3, <3>4
    <2>5. QED
        BY <2>3, <2>4
<1>5. QED
    BY <1>2, <1>3, <1>4

LEMMA SendPADRStep == CoreInv /\ SendPADR => CoreInv'
<1> SUFFICES ASSUME CoreInv, SendPADR PROVE CoreInv'
    OBVIOUS
<1>1. /\ pc = "PADR"
      /\ padrAttempts <= MaxAttempts
      /\ accepted # NoFrame
      /\ pads = NoFrame
      /\ session = NoSession
    BY NoPADSBeforeDone DEF CoreInv, PhaseInv, SendPADR
<1>2. peerEth \in Macs
    BY <1>1, FrameFacts DEF CoreInv, PeerInv
<1>3. /\ padrAttempts' = padrAttempts + 1
      /\ UNCHANGED <<conf, padiAttempts, timeout, scan, cookie, relayId,
                     peerEth, session, numPADOs, accepted, pads, fatal>>
    BY DEF SendPADR
<1>4. CASE OverBudget(padrAttempts')
    <2>1. /\ pc' = "TimedOut"
          /\ UNCHANGED <<discoveryState, remaining, padr, elapsed>>
        BY <1>4 DEF SendPADR
    <2>2. TypeOK'
        BY <1>1, <1>3, <2>1, BoundsAssumption DEF CoreInv, TypeOK, Pcs
    <2>3. PhaseInv' /\ PADSInv'
        BY <1>1, <1>3, <2>1 DEF PhaseInv, PADSInv, PADIPhase
    <2>4. QED
        BY <1>3, <2>1, <2>2, <2>3, PeerInvFrame, PADRInvFrame DEF CoreInv
<1>5. CASE ~OverBudget(padrAttempts')
    <2>1. /\ padr' = IF PADRLen > MaxPayload THEN Overflow
                     ELSE [dst |-> peerEth, hostUniq |-> conf.useHostUniq,
                           cookie |-> cookie, relay |-> relayId,
                           size |-> PADRLen]
          /\ discoveryState' = SENT_PADR
          /\ pc' = "WaitPADS"
          /\ remaining' = timeout
          /\ elapsed' = 0
        BY <1>5 DEF SendPADR
    <2>2. PADRLen \in Nat
        BY PayloadsAssumption DEF CoreInv, TypeOK, PADRLen, PADILen, HostUniqLen,
           PayloadLen, TagLen, TagHdrSize, PidSize, OptPayload
    <2>3. conf.useHostUniq \in BOOLEAN
        BY DEF CoreInv, TypeOK, ConfigType
    <2>4. /\ padr' \in PADRType \cup {Overflow}
          /\ padr' \in PADRType => padr'.dst = peerEth
        <3>1. CASE PADRLen > MaxPayload
            BY <2>1, <3>1, MarkersAssumption
        <3>2. CASE ~(PADRLen > MaxPayload)
            <4>1. padr' = [dst |-> peerEth, hostUniq |-> conf.useHostUniq,
                           cookie |-> cookie, relay |-> relayId,
                           size |-> PADRLen]
                BY <2>1, <3>2
            <4>2. cookie \in OptPayload /\ relayId \in OptPayload
                BY DEF CoreInv, TypeOK
            <4>3. QED
                BY <1>2, <2>2, <2>3, <4>1, <4>2 DEF PADRType
        <3>3. QED
            BY <3>1, <3>2
    <2>5. padrAttempts' <= MaxAttempts
        BY <1>3, <1>5, BoundsAssumption DEF OverBudget, CoreInv, TypeOK
    <2>6. TypeOK'
        BY <1>3, <2>1, <2>4, <2>5, BoundsAssumption
        DEF CoreInv, TypeOK, Pcs, States
    <2>7. PhaseInv' /\ PADSInv'
        BY <1>1, <1>3, <2>1, <2>5 DEF PhaseInv, PADSInv, PADIPhase
    <2>8. PADRInv'
        BY <1>1, <1>3, <2>4 DEF PADRInv
    <2>9. QED
        BY <1>3, <2>6, <2>7, <2>8, PeerInvFrame DEF CoreInv
<1>6. QED
    BY <1>4, <1>5

LEMMA PADSWaitEndsStep == CoreInv /\ PADSWaitEnds => CoreInv'
<1> SUFFICES ASSUME CoreInv, PADSWaitEnds PROVE CoreInv'
    OBVIOUS
<1>1. /\ pc = "WaitPADS"
      /\ padrAttempts <= MaxAttempts
      /\ accepted # NoFrame
      /\ pads = NoFrame
      /\ session = NoSession
    BY NoPADSBeforeDone DEF CoreInv, PhaseInv, PADSWaitEnds
<1>2. /\ pc' = "PADR"
      /\ timeout' = 2 * timeout
      /\ UNCHANGED <<conf, discoveryState, padiAttempts, padrAttempts,
                     remaining, scan, cookie, relayId, peerEth, session,
                     numPADOs, padr, accepted, pads, elapsed, fatal>>
    BY DEF PADSWaitEnds
<1>3. TypeOK'
    BY <1>2 DEF CoreInv, TypeOK, Pcs
<1>4. PhaseInv' /\ PADSInv'
    BY <1>1, <1>2 DEF PhaseInv, PADSInv, PADIPhase
<1>5. QED
    BY <1>2, <1>3, <1>4, PeerInvFrame, PADRInvFrame DEF CoreInv

LEMMA ReceivePADSStep ==
    ASSUME NEW f \in Frames
    PROVE  CoreInv /\ ReceivePADS(f) => CoreInv'
<1> SUFFICES ASSUME CoreInv, ReceivePADS(f) PROVE CoreInv'
    OBVIOUS
<1>0. /\ f \in FrameType
      /\ f # NoFrame
      /\ f.session \in Sessions
      /\ f.relay \in OptPayload
      /\ pc = "WaitPADS"
      /\ padrAttempts <= MaxAttempts
      /\ accepted # NoFrame
      /\ pads = NoFrame
      /\ session = NoSession
    BY FrameFacts, NoPADSBeforeDone DEF CoreInv, PhaseInv, ReceivePADS
<1>1. UNCHANGED <<conf, padiAttempts, padrAttempts, scan, cookie, peerEth,
                  numPADOs, padr, accepted, elapsed>>
    BY DEF ReceivePADS
<1>2. CASE DropsPADS(f)
    <2>1. /\ remaining' = timeout
          /\ UNCHANGED <<pc, discoveryState, timeout, relayId, session, pads,
                         fatal>>
        BY <1>2 DEF ReceivePADS
    <2>2. TypeOK'
        BY <1>1, <2>1 DEF CoreInv, TypeOK
    <2>3. PhaseInv' /\ PADSInv'
        BY <1>0, <1>1, <2>1 DEF CoreInv, PhaseInv, PADSInv
    <2>4. QED
        BY <1>1, <2>2, <2>3, PeerInvFrame, PADRInvFrame DEF CoreInv
<1>3. CASE ~DropsPADS(f) /\ f.err
    <2>1. /\ pc' = "Aborted"
          /\ fatal' = f
          /\ UNCHANGED <<discoveryState, timeout, remaining, relayId,
                         session, pads>>
        BY <1>3 DEF ReceivePADS
    <2>2. TypeOK'
        BY <1>0, <1>1, <2>1 DEF CoreInv, TypeOK, Pcs
    <2>3. PhaseInv' /\ PADSInv'
        BY <1>0, <1>1, <2>1 DEF PhaseInv, PADSInv, PADIPhase
    <2>4. QED
        BY <1>1, <2>2, <2>3, PeerInvFrame, PADRInvFrame DEF CoreInv
<1>4. CASE ~DropsPADS(f) /\ ~f.err
    <2>1. /\ relayId' = Capture(relayId, f.relay)
          /\ discoveryState' = SESSION
          /\ session' = f.session
          /\ pads' = f
          /\ timeout' = 2 * timeout
          /\ pc' = "Done"
          /\ remaining' = remaining
          /\ fatal' = fatal
        BY <1>4 DEF ReceivePADS
    <2>2. Capture(relayId, f.relay) \in OptPayload
        BY <1>0 DEF CoreInv, TypeOK, Capture
    <2>3. TypeOK'
        BY <1>0, <1>1, <2>1, <2>2 DEF CoreInv, TypeOK, Pcs, States
    <2>4. PhaseInv'
        BY <2>1 DEF PhaseInv, PADIPhase
    <2>5. PADSInv'
        <3>1. (~DropsPADS(f))'
            BY <1>1, <1>4 DEF DropsPADS, packetIsForMe
        <3>2. QED
            BY <1>0, <1>1, <2>1, <3>1 DEF PADSInv
    <2>6. QED
        BY <1>1, <2>3, <2>4, <2>5, PeerInvFrame, PADRInvFrame DEF CoreInv
<1>5. QED
    BY <1>2, <1>3, <1>4

LEMMA StutterStep == CoreInv /\ (Terminated \/ UNCHANGED vars) => CoreInv'
<1> SUFFICES ASSUME CoreInv, UNCHANGED vars PROVE CoreInv'
    BY DEF Terminated
<1>1. TypeOK' /\ PhaseInv'
    BY DEF vars, CoreInv, TypeOK, PhaseInv
<1>2. QED
    BY <1>1, PeerInvFrame, PADRInvFrame, PADSInvFrame DEF vars, CoreInv

LEMMA NextCore == CoreInv /\ [Next]_vars => CoreInv'
<1> SUFFICES ASSUME CoreInv, [Next]_vars PROVE CoreInv'
    OBVIOUS
<1>1. CASE \E f \in Frames : ReceivePADO(f)
    BY <1>1, ReceivePADOStep
<1>2. CASE \E f \in Frames : ReceivePADS(f)
    BY <1>2, ReceivePADSStep
<1>3. QED
    BY <1>1, <1>2, StartStep, SendPADIStep, TickStep, PADOWaitEndsStep,
       SendPADRStep, PADSWaitEndsStep, StutterStep DEF Next

-----------------------------------------------------------------------------
(* The state, probe and exit parts, preserved by every step of CoreInv's   *)
(* behaviours.                                                             *)
LEMMA InitExt == Init => ExtInv
BY DEF Init, ExtInv, StateInv, ProbeInv, FatalInv, PADIPhase

LEMMA StateInvFrame ==
    ASSUME StateInv, UNCHANGED <<pc, discoveryState, padiAttempts, padrAttempts>>
    PROVE  StateInv'
BY DEF StateInv

LEMMA ProbeInvFrame ==
    ASSUME ProbeInv, UNCHANGED <<conf, pc, peerEth>>
    PROVE  ProbeInv'
BY DEF ProbeInv, PADIPhase

LEMMA FatalInvFrame ==
    ASSUME FatalInv, UNCHANGED <<conf, pc, discoveryState, peerEth, fatal>>
    PROVE  FatalInv'
BY DEF FatalInv, DropsPADO, DropsPADS, packetIsForMe, NOT_UNICAST

(* Outside Aborted there is no fatal frame.                               *)
LEMMA NoFatalBeforeAbort ==
    ASSUME FatalInv, pc # "Aborted"
    PROVE  fatal = NoFrame
BY DEF FatalInv

LEMMA StartExt == IInv /\ Start => ExtInv'
<1> SUFFICES ASSUME IInv, Start PROVE ExtInv'
    OBVIOUS
<1>1. /\ pc = "Start" /\ discoveryState = INIT /\ padiAttempts = 0
      /\ fatal = NoFrame
      /\ UNCHANGED <<conf, padiAttempts, padrAttempts, peerEth, fatal>>
    BY NoFatalBeforeAbort DEF IInv, ExtInv, StateInv, Start
<1>2. CASE conf.skipDiscovery
    <2>1. pc' \in {"Exited", "Done"}
        BY <1>2 DEF Start
    <2>2. QED
        BY <1>1, <2>1 DEF ExtInv, StateInv, ProbeInv, FatalInv, PADIPhase
<1>3. CASE ~conf.skipDiscovery
    <2>1. pc' = "PADI" /\ UNCHANGED discoveryState
        BY <1>3 DEF Start
    <2>2. QED
        BY <1>1, <2>1 DEF IInv, ExtInv, StateInv, ProbeInv, FatalInv, PADIPhase
<1>4. QED
    BY <1>2, <1>3

LEMMA SendPADIExt == IInv /\ SendPADI => ExtInv'
<1> SUFFICES ASSUME IInv, SendPADI PROVE ExtInv'
    OBVIOUS
<1>1. /\ pc = "PADI" /\ fatal = NoFrame
      /\ padiAttempts' = padiAttempts + 1
      /\ padiAttempts \in Nat
      /\ UNCHANGED <<conf, padrAttempts, peerEth, fatal>>
    BY NoFatalBeforeAbort DEF IInv, ExtInv, CoreInv, TypeOK, SendPADI
<1>2. CASE OverBudget(padiAttempts')
    <2>1. pc' = "TimedOut"
        BY <1>2 DEF SendPADI
    <2>2. QED
        BY <1>1, <2>1 DEF ExtInv, StateInv, ProbeInv, FatalInv, PADIPhase
<1>3. CASE ~OverBudget(padiAttempts')
    <2>1. pc' = "WaitPADO" /\ discoveryState' = SENT_PADI
        BY <1>3 DEF SendPADI
    <2>2. StateInv'
        BY <1>1, <2>1 DEF StateInv
    <2>3. ProbeInv' /\ FatalInv'
        BY <1>1, <2>1 DEF IInv, ExtInv, ProbeInv, FatalInv, PADIPhase
    <2>4. QED
        BY <2>2, <2>3 DEF ExtInv
<1>4. QED
    BY <1>2, <1>3

LEMMA TickExt == IInv /\ Tick => ExtInv'
<1>1. ASSUME Tick
      PROVE  UNCHANGED <<conf, pc, discoveryState, padiAttempts, padrAttempts,
                         peerEth, fatal>>
    BY <1>1 DEF Tick
<1>2. QED
    BY <1>1, StateInvFrame, ProbeInvFrame, FatalInvFrame DEF IInv, ExtInv

LEMMA PADOWaitEndsExt == IInv /\ PADOWaitEnds => ExtInv'
<1> SUFFICES ASSUME IInv, PADOWaitEnds PROVE ExtInv'
    OBVIOUS
<1>1. /\ pc = "WaitPADO" /\ discoveryState = SENT_PADI /\ padiAttempts > 0
      /\ fatal = NoFrame
      /\ UNCHANGED <<conf, discoveryState, padiAttempts, padrAttempts,
                     peerEth, fatal>>
    BY NoFatalBeforeAbort DEF IInv, ExtInv, CoreInv, PhaseInv, StateInv,
       PADOWaitEnds
<1>2. pc' \in {"Exited", "PADI"}
    BY <1>1 DEF PADOWaitEnds, EndPADIAttempt
<1>3. QED
    BY <1>1, <1>2 DEF IInv, ExtInv, StateInv, ProbeInv, FatalInv, PADIPhase

LEMMA ReceivePADOExt ==
    ASSUME NEW f \in Frames
    PROVE  IInv /\ ReceivePADO(f) => ExtInv'
<1> SUFFICES ASSUME IInv, ReceivePADO(f) PROVE ExtInv'
    OBVIOUS
<1>0. /\ pc = "WaitPADO" /\ discoveryState = SENT_PADI /\ padiAttempts > 0
      /\ padrAttempts = 0 /\ fatal = NoFrame
      /\ peerEth # NoMac => conf.printACNames
      /\ UNCHANGED <<conf, padiAttempts, padrAttempts>>
    BY NoFatalBeforeAbort
    DEF IInv, ExtInv, CoreInv, PhaseInv, StateInv, ProbeInv, PADIPhase,
        ReceivePADO
<1>1. CASE DropsPADO(f)
    <2>1. UNCHANGED <<pc, discoveryState, peerEth, fatal>>
        BY <1>1 DEF ReceivePADO
    <2>2. QED
        BY <1>0, <2>1, StateInvFrame, ProbeInvFrame, FatalInvFrame
        DEF IInv, ExtInv
<1>2. CASE ~DropsPADO(f) /\ f.err /\ ~conf.printACNames
    <2>1. /\ pc' = "Aborted" /\ fatal' = f
          /\ UNCHANGED <<discoveryState, peerEth>>
        BY <1>2 DEF ReceivePADO
    <2>2. FatalInv'
        BY <1>0, <1>2, <2>1, FrameFacts
        DEF FatalInv, DropsPADO, packetIsForMe, NOT_UNICAST
    <2>3. QED
        BY <2>1, <2>2 DEF ExtInv, StateInv, ProbeInv, PADIPhase
<1>3. CASE ~DropsPADO(f) /\ ~(f.err /\ ~conf.printACNames)
    <2> DEFINE s == ScanPADO(scan, f)
    <2>1. fatal' = fatal
        BY <1>3 DEF ReceivePADO
    <2>2. CASE ~s.seenACName \/ ~s.seenServiceName
        <3>1. UNCHANGED <<pc, discoveryState, peerEth>>
            BY <1>3, <2>2 DEF ReceivePADO
        <3>2. QED
            BY <1>0, <2>1, <3>1, StateInvFrame, ProbeInvFrame, FatalInvFrame
            DEF IInv, ExtInv
    <2>3. CASE /\ s.seenACName /\ s.seenServiceName
               /\ s.acNameOK /\ s.serviceNameOK /\ ~conf.printACNames
        <3>1. /\ discoveryState' = RECEIVED_PADO
              /\ EndPADIAttempt(RECEIVED_PADO, numPADOs')
            BY <1>3, <2>3 DEF ReceivePADO
        <3>2. pc' = "PADR"
            BY <2>3, <3>1 DEF EndPADIAttempt
        <3>3. QED
            BY <1>0, <2>1, <2>3, <3>1, <3>2
            DEF ExtInv, StateInv, ProbeInv, FatalInv, PADIPhase
    <2>4. CASE /\ s.seenACName /\ s.seenServiceName
               /\ ~(s.acNameOK /\ s.serviceNameOK /\ ~conf.printACNames)
        <3>1. UNCHANGED <<pc, discoveryState>>
            BY <1>3, <2>4 DEF ReceivePADO
        <3>2. StateInv' /\ FatalInv'
            BY <1>0, <2>1, <3>1, StateInvFrame DEF IInv, ExtInv, FatalInv
        <3>3. ProbeInv'
            <4>1. CASE s.acNameOK /\ s.serviceNameOK
                BY <1>0, <2>4, <3>1, <4>1 DEF ProbeInv, PADIPhase
            <4>2. CASE ~(s.acNameOK /\ s.serviceNameOK)
                <5>1. UNCHANGED peerEth
                    BY <1>3, <2>4, <4>2 DEF ReceivePADO
                <5>2. QED
                    BY <1>0, <3>1, <5>1, ProbeInvFrame DEF IInv, ExtInv
            <4>3. QED
                BY <4>1, <4>2
        <3>4. QED
            BY <3>2, <3>3 DEF ExtInv
    <2>5. QED
        BY <2>2, <2>3, <2>4
<1>4. QED
    BY <1>1, <1>2, <1>3

LEMMA SendPADRExt == IInv /\ SendPADR => ExtInv'
<1> SUFFICES ASSUME IInv, SendPADR PROVE ExtInv'
    OBVIOUS
<1>1. /\ pc = "PADR" /\ ~conf.printACNames /\ fatal = NoFrame
      /\ padrAttempts' = padrAttempts + 1
      /\ padrAttempts \in Nat
      /\ UNCHANGED <<conf, padiAttempts, peerEth, fatal>>
    <2>1. /\ pc = "PADR" /\ padrAttempts' = padrAttempts + 1
          /\ UNCHANGED <<conf, padiAttempts, peerEth, fatal>>
        BY DEF SendPADR
    <2>2. padrAttempts \in Nat
        BY DEF IInv, CoreInv, TypeOK
    <2>3. ~conf.printACNames
        BY <2>1 DEF IInv, ExtInv, ProbeInv
    <2>4. fatal = NoFrame
        BY <2>1, NoFatalBeforeAbort DEF IInv, ExtInv
    <2>5. QED
        BY <2>1, <2>2, <2>3, <2>4
<1>2. CASE OverBudget(padrAttempts')
    <2>1. pc' = "TimedOut"
        BY <1>2 DEF SendPADR
    <2>2. QED
        BY <1>1, <2>1 DEF ExtInv, StateInv, ProbeInv, FatalInv, PADIPhase
<1>3. CASE ~OverBudget(padrAttempts')
    <2>1. pc' = "WaitPADS" /\ discoveryState' = SENT_PADR
        BY <1>3 DEF SendPADR
    <2>2. QED
        BY <1>1, <2>1 DEF ExtInv, StateInv, ProbeInv, FatalInv, PADIPhase
<1>4. QED
    BY <1>2, <1>3

LEMMA PADSWaitEndsExt == IInv /\ PADSWaitEnds => ExtInv'
<1> SUFFICES ASSUME IInv, PADSWaitEnds PROVE ExtInv'
    OBVIOUS
<1>1. /\ pc = "WaitPADS" /\ discoveryState = SENT_PADR /\ padrAttempts > 0
      /\ ~conf.printACNames /\ fatal = NoFrame
      /\ pc' = "PADR"
      /\ UNCHANGED <<conf, discoveryState, padiAttempts, padrAttempts,
                     peerEth, fatal>>
    BY NoFatalBeforeAbort
    DEF IInv, ExtInv, StateInv, ProbeInv, PADSWaitEnds
<1>2. QED
    BY <1>1 DEF ExtInv, StateInv, ProbeInv, FatalInv, PADIPhase

LEMMA ReceivePADSExt ==
    ASSUME NEW f \in Frames
    PROVE  IInv /\ ReceivePADS(f) => ExtInv'
<1> SUFFICES ASSUME IInv, ReceivePADS(f) PROVE ExtInv'
    OBVIOUS
<1>0. /\ pc = "WaitPADS" /\ discoveryState = SENT_PADR /\ padrAttempts > 0
      /\ ~conf.printACNames /\ fatal = NoFrame
      /\ UNCHANGED <<conf, padiAttempts, padrAttempts, peerEth>>
    BY NoFatalBeforeAbort
    DEF IInv, ExtInv, StateInv, ProbeInv, ReceivePADS
<1>1. CASE DropsPADS(f)
    <2>1. UNCHANGED <<pc, discoveryState, fatal>>
        BY <1>1 DEF ReceivePADS
    <2>2. QED
        BY <1>0, <2>1, StateInvFrame, ProbeInvFrame, FatalInvFrame
        DEF IInv, ExtInv
<1>2. CASE ~DropsPADS(f) /\ f.err
    <2>1. /\ pc' = "Aborted" /\ fatal' = f
          /\ UNCHANGED discoveryState
        BY <1>2 DEF ReceivePADS
    <2>2. FatalInv'
        BY <1>0, <1>2, <2>1, FrameFacts DEF FatalInv, DropsPADS, packetIsForMe
    <2>3. QED
        BY <2>1, <2>2 DEF ExtInv, StateInv, ProbeInv, PADIPhase
<1>3. CASE ~DropsPADS(f) /\ ~f.err
    <2>1. pc' = "Done" /\ fatal' = fatal
        BY <1>3 DEF ReceivePADS
    <2>2. QED
        BY <1>0, <2>1 DEF ExtInv, StateInv, ProbeInv, FatalInv, PADIPhase
<1>4. QED
    BY <1>1, <1>2, <1>3

LEMMA StutterExt == IInv /\ (Terminated \/ UNCHANGED vars) => ExtInv'
<1> SUFFICES ASSUME IInv, UNCHANGED vars PROVE ExtInv'
    BY DEF Terminated
<1>1. UNCHANGED <<conf, pc, discoveryState, padiAttempts, padrAttempts,
                  peerEth, fatal>>
    BY DEF vars
<1>2. QED
    BY <1>1, StateInvFrame, ProbeInvFrame, FatalInvFrame DEF IInv, ExtInv

LEMMA NextIInv == IInv /\ [Next]_vars => IInv'
<1> SUFFICES ASSUME IInv, [Next]_vars PROVE IInv'
    OBVIOUS
<1>1. CoreInv'
    BY NextCore DEF IInv
<1>2. ExtInv'
    <2>1. CASE \E f \in Frames : ReceivePADO(f)
        BY <2>1, ReceivePADOExt
    <2>2. CASE \E f \in Frames : ReceivePADS(f)
        BY <2>2, ReceivePADSExt
    <2>3. QED
        BY <2>1, <2>2, StartExt, SendPADIExt, TickExt, PADOWaitEndsExt,
           SendPADRExt, PADSWaitEndsExt, StutterExt DEF Next
<1>3. QED
    BY <1>1, <1>2 DEF IInv

THEOREM IInvHolds == Spec => []IInv
<1>1. Init => IInv
    BY InitCore, InitExt DEF IInv
<1>2. QED
    BY <1>1, NextIInv, PTL DEF Spec

-----------------------------------------------------------------------------
(* Type correctness: in every reachable state of kpppoe_discovery() every  *)
(* variable has the type the code gives it, for every value of the         *)
(* constants.                                                               *)
THEOREM TypeCorrect == Spec => []TypeOK
<1>1. IInv => TypeOK
    BY DEF IInv, CoreInv
<1>2. QED
    BY <1>1, IInvHolds, PTL

(* A PADR is only ever sent to the Access Concentrator whose PADO, having  *)
(* passed every check of waitForPADO(), set conn->peerEth.                 *)
THEOREM RequestGoesToOffererHolds == Spec => []RequestGoesToOfferer
<1>1. IInv => RequestGoesToOfferer
    <2> SUFFICES ASSUME IInv, padr \in PADRType
                 PROVE  RequestGoesToOfferer
        BY DEF RequestGoesToOfferer
    <2>1. accepted # NoFrame /\ padr.dst = peerEth
        BY DEF IInv, CoreInv, PADRInv
    <2>2. accepted \in Frames /\ ~DropsPADO(accepted) /\ peerEth = accepted.src
        BY <2>1 DEF IInv, CoreInv, PeerInv
    <2>3. QED
        BY <2>1, <2>2, FramesAssumption
        DEF RequestGoesToOfferer, DropsPADO, NOT_UNICAST
<1>2. QED
    BY <1>1, IInvHolds, PTL

(* conn->session is set exactly by a PADS from the chosen peer addressed   *)
(* to us, and carries that PADS's session id.                              *)
THEOREM SessionFromPeerHolds == Spec => []SessionFromPeer
<1>1. IInv => SessionFromPeer
    <2> SUFFICES ASSUME IInv PROVE SessionFromPeer
        OBVIOUS
    <2>1. (session # NoSession) <=> (pads # NoFrame)
        <3>1. CASE pads = NoFrame
            BY <3>1 DEF IInv, CoreInv, PADSInv
        <3>2. CASE pads # NoFrame
            <4>1. pads \in Frames /\ session = pads.session
                BY <3>2 DEF IInv, CoreInv, PADSInv
            <4>2. session \in Sessions
                BY <4>1, FrameFacts
            <4>3. QED
                BY <3>2, <4>2, SessionsAssumption
        <3>3. QED
            BY <3>1, <3>2
    <2>2. ASSUME pads # NoFrame
          PROVE  /\ discoveryState = SESSION
                 /\ pads.code = PADS
                 /\ pads.lenOK
                 /\ pads.src = peerEth
                 /\ peerEth = accepted.src
                 /\ packetIsForMe(pads)
                 /\ session = pads.session
        BY <2>2 DEF IInv, CoreInv, PADSInv, PeerInv, DropsPADS
    <2>3. QED
        BY <2>1, <2>2 DEF SessionFromPeer
<1>2. QED
    BY <1>1, IInvHolds, PTL

(* The process exits on an error tag only when the frame carrying it was  *)
(* vetted by the wait in progress: a PADO outside probe mode that passed  *)
(* waitForPADO()'s filters, or a PADS from the chosen peer.               *)
THEOREM AbortedByVettedFrameHolds == Spec => []AbortedByVettedFrame
<1>1. IInv => AbortedByVettedFrame
    <2> SUFFICES ASSUME IInv PROVE AbortedByVettedFrame
        OBVIOUS
    <2>1. (pc = "Aborted") <=> (fatal # NoFrame)
        BY DEF IInv, ExtInv, FatalInv
    <2>2. ASSUME fatal # NoFrame
          PROVE  /\ fatal.err /\ fatal.lenOK /\ packetIsForMe(fatal)
                 /\ \/ /\ fatal.code = PADO /\ ~NOT_UNICAST(fatal.src)
                       /\ ~conf.printACNames /\ discoveryState = SENT_PADI
                    \/ /\ fatal.code = PADS /\ fatal.src = peerEth
                       /\ discoveryState = SENT_PADR
        BY <2>2 DEF IInv, ExtInv, FatalInv, DropsPADO, DropsPADS
    <2>3. QED
        BY <2>1, <2>2 DEF AbortedByVettedFrame
<1>2. QED
    BY <1>1, IInvHolds, PTL

-----------------------------------------------------------------------------
(* A step that rewrites a peerEth already set is a probe's PADO wait, which *)
(* is in SENT_PADI and has sent no PADR.                                    *)
LEMMA PeerChangeStep ==
    ASSUME IInv, [Next]_vars, peerEth # NoMac, peerEth' # peerEth
    PROVE  /\ conf.printACNames
           /\ discoveryState' = SENT_PADI
           /\ padr' = NoFrame
<1>1. CASE \E f \in Frames : ReceivePADO(f)
    <2>1. PICK f \in Frames : ReceivePADO(f)
        BY <1>1
    <2>2. /\ pc = "WaitPADO" /\ discoveryState = SENT_PADI /\ padr = NoFrame
          /\ conf.printACNames
        BY <2>1 DEF IInv, CoreInv, ExtInv, PhaseInv, ProbeInv, PADIPhase,
           ReceivePADO
    <2>3. UNCHANGED <<conf, discoveryState, padr>>
        BY <2>1, <2>2 DEF ReceivePADO
    <2>4. QED
        BY <2>2, <2>3
<1>2. CASE ~\E f \in Frames : ReceivePADO(f)
    <2>1. peerEth' = peerEth
        BY <1>2 DEF Next, Start, SendPADI, Tick, PADOWaitEnds, SendPADR,
           PADSWaitEnds, ReceivePADS, Terminated, vars
    <2>2. QED
        BY <2>1
<1>3. QED
    BY <1>1, <1>2

(* Once conn->peerEth is set it is overwritten only while probing, where  *)
(* discovery stays in SENT_PADI and no PADR is ever sent.                  *)
THEOREM PeerWrittenOnceHolds == Spec => PeerWrittenOnce
<1>1. IInv /\ [Next]_vars
        => [peerEth # NoMac /\ peerEth' # peerEth =>
              /\ conf.printACNames
              /\ discoveryState' = SENT_PADI
              /\ padr' = NoFrame]_vars
    BY PeerChangeStep
<1>2. QED
    BY <1>1, IInvHolds, PTL DEF Spec, PeerWrittenOnce

-----------------------------------------------------------------------------
(* Every step keeps conn->discoveryState or moves it forward along         *)
(* INIT -> SENT_PADI -> RECEIVED_PADO -> SENT_PADR -> SESSION: a loop turn *)
(* sends from the state its loop runs in, and only an accepted PADO or a   *)
(* vetted PADS moves discovery to the next phase.                          *)
LEMMA RankStep ==
    ASSUME IInv, [Next]_vars
    PROVE  Rank(discoveryState') >= Rank(discoveryState)
<1>0. discoveryState \in States
    BY DEF IInv, CoreInv, TypeOK
<1>1. CASE Start
    <2>1. discoveryState' \in {discoveryState, SESSION}
        BY <1>1 DEF Start
    <2>2. QED
        BY <1>0, <2>1 DEF Rank, States
<1>2. CASE SendPADI
    <2>1. discoveryState \in {INIT, SENT_PADI}
        BY <1>2 DEF SendPADI, IInv, ExtInv, StateInv
    <2>2. discoveryState' \in {discoveryState, SENT_PADI}
        BY <1>2 DEF SendPADI
    <2>3. QED
        BY <2>1, <2>2 DEF Rank
<1>3. CASE \E f \in Frames : ReceivePADO(f)
    <2>1. PICK f \in Frames : ReceivePADO(f)
        BY <1>3
    <2>2. discoveryState = SENT_PADI
        BY <2>1 DEF ReceivePADO, IInv, CoreInv, PhaseInv
    <2>3. discoveryState' \in {discoveryState, RECEIVED_PADO}
        BY <2>1 DEF ReceivePADO
    <2>4. QED
        BY <2>2, <2>3 DEF Rank
<1>4. CASE SendPADR
    <2>1. discoveryState \in {RECEIVED_PADO, SENT_PADR}
        BY <1>4 DEF SendPADR, IInv, ExtInv, StateInv
    <2>2. discoveryState' \in {discoveryState, SENT_PADR}
        BY <1>4 DEF SendPADR
    <2>3. QED
        BY <2>1, <2>2 DEF Rank
<1>5. CASE \E f \in Frames : ReceivePADS(f)
    <2>1. discoveryState' \in {discoveryState, SESSION}
        BY <1>5 DEF ReceivePADS
    <2>2. QED
        BY <1>0, <2>1 DEF Rank, States
<1>6. CASE Tick \/ PADOWaitEnds \/ PADSWaitEnds \/ Terminated \/ UNCHANGED vars
    <2>1. discoveryState' = discoveryState
        BY <1>6 DEF Tick, PADOWaitEnds, PADSWaitEnds, Terminated, vars
    <2>2. QED
        BY <1>0, <2>1 DEF Rank, States
<1>7. QED
    BY <1>1, <1>2, <1>3, <1>4, <1>5, <1>6 DEF Next

(* conn->discoveryState never moves back in any run of kpppoe_discovery(): *)
(* a retry of either loop stays in its phase.                              *)
THEOREM PhaseNeverRegressesHolds == Spec => PhaseNeverRegresses
<1>1. IInv /\ [Next]_vars
        => [Rank(discoveryState') >= Rank(discoveryState)]_vars
    BY RankStep
<1>2. QED
    BY <1>1, IInvHolds, PTL DEF Spec, PhaseNeverRegresses

-----------------------------------------------------------------------------
(* Refinement: every step of kpppoe_discovery() is a step of the abstract  *)
(* discovery or leaves its state, peer, session, probe flag and outcome    *)
(* alone.                                                                  *)
USE DEF Abstract!INIT, Abstract!SENT_PADI, Abstract!RECEIVED_PADO,
        Abstract!SENT_PADR, Abstract!SESSION

AbsVars == <<discoveryState, peerEth, session, conf.printACNames, Outcome>>

(* While the process runs, the abstract outcome is "running".             *)
LEMMA RunningOutcome ==
    ASSUME pc \in {"Start", "PADI", "WaitPADO", "PADR", "WaitPADS"}
    PROVE  Outcome = "running"
BY DEF Outcome

LEMMA InitRefines == Init => Abstract!Init
BY ConfigsAssumption DEF Init, Abstract!Init, Outcome, ConfigType

LEMMA StartRefines == IInv /\ Start => [Abstract!Next]_AbsVars
<1> SUFFICES ASSUME IInv, Start PROVE [Abstract!Next]_AbsVars
    OBVIOUS
<1>1. /\ pc = "Start" /\ discoveryState = INIT /\ Outcome = "running"
      /\ UNCHANGED <<conf, peerEth, session>>
    BY RunningOutcome DEF IInv, ExtInv, StateInv, Start
<1>2. CASE conf.skipDiscovery
    <2>1. discoveryState' = SESSION /\ pc' \in {"Exited", "Done"}
        BY <1>2 DEF Start
    <2>2. Outcome' \in {"done", "exited"}
        BY <2>1 DEF Outcome
    <2>3. Abstract!Skip
        BY <1>1, <2>1, <2>2 DEF Abstract!Skip, Abstract!Running
    <2>4. QED
        BY <2>3 DEF Abstract!Next
<1>3. CASE ~conf.skipDiscovery
    <2>1. pc' = "PADI" /\ UNCHANGED discoveryState
        BY <1>3 DEF Start
    <2>2. Outcome' = "running"
        BY <2>1 DEF Outcome
    <2>3. QED
        BY <1>1, <2>1, <2>2 DEF AbsVars
<1>4. QED
    BY <1>2, <1>3

LEMMA SendPADIRefines == IInv /\ SendPADI => [Abstract!Next]_AbsVars
<1> SUFFICES ASSUME IInv, SendPADI PROVE [Abstract!Next]_AbsVars
    OBVIOUS
<1>1. /\ pc = "PADI" /\ Outcome = "running"
      /\ padiAttempts' = padiAttempts + 1
      /\ padiAttempts \in Nat
      /\ \/ padiAttempts = 0 /\ discoveryState = INIT
         \/ padiAttempts > 0 /\ discoveryState = SENT_PADI
      /\ UNCHANGED <<conf, peerEth, session>>
    BY RunningOutcome DEF IInv, CoreInv, TypeOK, ExtInv, StateInv, SendPADI
<1>2. CASE OverBudget(padiAttempts')
    <2>1. pc' = "TimedOut" /\ UNCHANGED discoveryState
        BY <1>2 DEF SendPADI
    <2>2. discoveryState = SENT_PADI
        BY <1>1, <1>2, BoundsAssumption DEF OverBudget
    <2>3. Outcome' = "timedout"
        BY <2>1 DEF Outcome
    <2>4. Abstract!GiveUp
        BY <1>1, <2>1, <2>2, <2>3 DEF Abstract!GiveUp, Abstract!Running
    <2>5. QED
        BY <2>4 DEF Abstract!Next
<1>3. CASE ~OverBudget(padiAttempts')
    <2>1. pc' = "WaitPADO" /\ discoveryState' = SENT_PADI
        BY <1>3 DEF SendPADI
    <2>2. Outcome' = "running"
        BY <2>1 DEF Outcome
    <2>3. Abstract!Solicit
        BY <1>1, <2>1, <2>2 DEF Abstract!Solicit, Abstract!Running
    <2>4. QED
        BY <2>3 DEF Abstract!Next
<1>4. QED
    BY <1>2, <1>3

LEMMA TickRefines == Tick => [Abstract!Next]_AbsVars
BY DEF Tick, AbsVars, Outcome

LEMMA PADOWaitEndsRefines == IInv /\ PADOWaitEnds => [Abstract!Next]_AbsVars
<1> SUFFICES ASSUME IInv, PADOWaitEnds PROVE [Abstract!Next]_AbsVars
    OBVIOUS
<1>1. /\ pc = "WaitPADO" /\ discoveryState = SENT_PADI /\ Outcome = "running"
      /\ UNCHANGED <<conf, discoveryState, peerEth, session>>
    BY RunningOutcome DEF IInv, CoreInv, PhaseInv, PADOWaitEnds
<1>2. CASE conf.printACNames /\ numPADOs > 0
    <2>1. pc' = "Exited"
        BY <1>1, <1>2 DEF PADOWaitEnds, EndPADIAttempt
    <2>2. Outcome' = "exited"
        BY <2>1 DEF Outcome
    <2>3. Abstract!GiveUp
        BY <1>1, <1>2, <2>2 DEF Abstract!GiveUp, Abstract!Running
    <2>4. QED
        BY <2>3 DEF Abstract!Next
<1>3. CASE ~(conf.printACNames /\ numPADOs > 0)
    <2>1. pc' = "PADI"
        BY <1>1, <1>3 DEF PADOWaitEnds, EndPADIAttempt
    <2>2. Outcome' = "running"
        BY <2>1 DEF Outcome
    <2>3. QED
        BY <1>1, <2>2 DEF AbsVars
<1>4. QED
    BY <1>2, <1>3

LEMMA ReceivePADORefines ==
    ASSUME NEW f \in Frames
    PROVE  IInv /\ ReceivePADO(f) => [Abstract!Next]_AbsVars
<1> SUFFICES ASSUME IInv, ReceivePADO(f) PROVE [Abstract!Next]_AbsVars
    OBVIOUS
<1>0. /\ pc = "WaitPADO" /\ discoveryState = SENT_PADI /\ Outcome = "running"
      /\ UNCHANGED <<conf, session>>
    BY RunningOutcome DEF IInv, CoreInv, PhaseInv, ReceivePADO
<1>1. CASE DropsPADO(f)
    <2>1. UNCHANGED <<pc, discoveryState, peerEth>>
        BY <1>1 DEF ReceivePADO
    <2>2. QED
        BY <1>0, <2>1 DEF AbsVars, Outcome
<1>2. CASE ~DropsPADO(f) /\ f.err /\ ~conf.printACNames
    <2>1. pc' = "Aborted" /\ UNCHANGED <<discoveryState, peerEth>>
        BY <1>2 DEF ReceivePADO
    <2>2. Outcome' = "aborted"
        BY <2>1 DEF Outcome
    <2>3. Abstract!GiveUp
        BY <1>0, <1>2, <2>1, <2>2 DEF Abstract!GiveUp, Abstract!Running
    <2>4. QED
        BY <2>3 DEF Abstract!Next
<1>3. CASE ~DropsPADO(f) /\ ~(f.err /\ ~conf.printACNames)
    <2> DEFINE s == ScanPADO(scan, f)
    <2>0. f.src \in Unicast
        BY <1>3 DEF DropsPADO, NOT_UNICAST
    <2>1. CASE ~s.seenACName \/ ~s.seenServiceName
        <3>1. UNCHANGED <<pc, discoveryState, peerEth>>
            BY <1>3, <2>1 DEF ReceivePADO
        <3>2. QED
            BY <1>0, <3>1 DEF AbsVars, Outcome
    <2>2. CASE /\ s.seenACName /\ s.seenServiceName
               /\ s.acNameOK /\ s.serviceNameOK /\ ~conf.printACNames
        <3>1. /\ discoveryState' = RECEIVED_PADO
              /\ EndPADIAttempt(RECEIVED_PADO, numPADOs')
              /\ peerEth' = f.src
            BY <1>3, <2>2 DEF ReceivePADO
        <3>2. pc' = "PADR"
            BY <2>2, <3>1 DEF EndPADIAttempt
        <3>3. Outcome' = "running"
            BY <3>2 DEF Outcome
        <3>4. Abstract!Offer(f.src)
            BY <1>0, <2>2, <3>1, <3>3 DEF Abstract!Offer, Abstract!Running
        <3>5. QED
            BY <2>0, <3>4 DEF Abstract!Next
    <2>3. CASE /\ s.seenACName /\ s.seenServiceName
               /\ ~(s.acNameOK /\ s.serviceNameOK /\ ~conf.printACNames)
        <3>1. UNCHANGED <<pc, discoveryState>>
            BY <1>3, <2>3 DEF ReceivePADO
        <3>2. Outcome' = "running"
            BY <1>0, <3>1 DEF Outcome
        <3>3. CASE s.acNameOK /\ s.serviceNameOK
            <4>1. peerEth' = f.src /\ conf.printACNames
                BY <1>3, <2>3, <3>3 DEF ReceivePADO
            <4>2. Abstract!Offer(f.src)
                BY <1>0, <3>1, <3>2, <4>1 DEF Abstract!Offer, Abstract!Running
            <4>3. QED
                BY <2>0, <4>2 DEF Abstract!Next
        <3>4. CASE ~(s.acNameOK /\ s.serviceNameOK)
            <4>1. UNCHANGED peerEth
                BY <1>3, <2>3, <3>4 DEF ReceivePADO
            <4>2. QED
                BY <1>0, <3>1, <3>2, <4>1 DEF AbsVars
        <3>5. QED
            BY <3>3, <3>4
    <2>4. QED
        BY <2>1, <2>2, <2>3
<1>4. QED
    BY <1>1, <1>2, <1>3

LEMMA SendPADRRefines == IInv /\ SendPADR => [Abstract!Next]_AbsVars
<1> SUFFICES ASSUME IInv, SendPADR PROVE [Abstract!Next]_AbsVars
    OBVIOUS
<1>1. /\ pc = "PADR" /\ ~conf.printACNames /\ Outcome = "running"
      /\ padrAttempts' = padrAttempts + 1
      /\ padrAttempts \in Nat
      /\ \/ padrAttempts = 0 /\ discoveryState = RECEIVED_PADO
         \/ padrAttempts > 0 /\ discoveryState = SENT_PADR
      /\ accepted # NoFrame
      /\ UNCHANGED <<conf, peerEth, session>>
    BY RunningOutcome
    DEF IInv, CoreInv, TypeOK, PhaseInv, ExtInv, StateInv, ProbeInv, SendPADR
<1>2. CASE OverBudget(padrAttempts')
    <2>1. pc' = "TimedOut" /\ UNCHANGED discoveryState
        BY <1>2 DEF SendPADR
    <2>2. discoveryState = SENT_PADR
        BY <1>1, <1>2, BoundsAssumption DEF OverBudget
    <2>3. Outcome' = "timedout"
        BY <2>1 DEF Outcome
    <2>4. Abstract!GiveUp
        BY <1>1, <2>1, <2>2, <2>3 DEF Abstract!GiveUp, Abstract!Running
    <2>5. QED
        BY <2>4 DEF Abstract!Next
<1>3. CASE ~OverBudget(padrAttempts')
    <2>1. pc' = "WaitPADS" /\ discoveryState' = SENT_PADR
        BY <1>3 DEF SendPADR
    <2>2. Outcome' = "running"
        BY <2>1 DEF Outcome
    <2>3. peerEth # NoMac
        <3>1. accepted \in Frames /\ peerEth = accepted.src
            BY <1>1 DEF IInv, CoreInv, PeerInv
        <3>2. QED
            BY <3>1, FrameFacts, MacsAssumption
    <2>4. Abstract!Request
        BY <1>1, <2>1, <2>2, <2>3 DEF Abstract!Request, Abstract!Running
    <2>5. QED
        BY <2>4 DEF Abstract!Next
<1>4. QED
    BY <1>2, <1>3

LEMMA PADSWaitEndsRefines == PADSWaitEnds => [Abstract!Next]_AbsVars
BY DEF PADSWaitEnds, AbsVars, Outcome

LEMMA ReceivePADSRefines ==
    ASSUME NEW f \in Frames
    PROVE  IInv /\ ReceivePADS(f) => [Abstract!Next]_AbsVars
<1> SUFFICES ASSUME IInv, ReceivePADS(f) PROVE [Abstract!Next]_AbsVars
    OBVIOUS
<1>0. /\ pc = "WaitPADS" /\ discoveryState = SENT_PADR /\ Outcome = "running"
      /\ UNCHANGED <<conf, peerEth>>
    BY RunningOutcome DEF IInv, ExtInv, StateInv, ReceivePADS
<1>1. CASE DropsPADS(f)
    <2>1. UNCHANGED <<pc, discoveryState, session>>
        BY <1>1 DEF ReceivePADS
    <2>2. QED
        BY <1>0, <2>1 DEF AbsVars, Outcome
<1>2. CASE ~DropsPADS(f) /\ f.err
    <2>1. pc' = "Aborted" /\ UNCHANGED <<discoveryState, session>>
        BY <1>2 DEF ReceivePADS
    <2>2. Outcome' = "aborted"
        BY <2>1 DEF Outcome
    <2>3. Abstract!GiveUp
        BY <1>0, <2>1, <2>2 DEF Abstract!GiveUp, Abstract!Running
    <2>4. QED
        BY <2>3 DEF Abstract!Next
<1>3. CASE ~DropsPADS(f) /\ ~f.err
    <2>1. /\ pc' = "Done" /\ discoveryState' = SESSION
          /\ session' = f.session
        BY <1>3 DEF ReceivePADS
    <2>2. Outcome' = "done"
        BY <2>1 DEF Outcome
    <2>3. Abstract!Confirm(f.session)
        BY <1>0, <2>1, <2>2 DEF Abstract!Confirm, Abstract!Running
    <2>4. QED
        BY <2>3, FrameFacts DEF Abstract!Next
<1>4. QED
    BY <1>1, <1>2, <1>3

LEMMA NextRefines == IInv /\ [Next]_vars => [Abstract!Next]_AbsVars
<1> SUFFICES ASSUME IInv, [Next]_vars PROVE [Abstract!Next]_AbsVars
    OBVIOUS
<1>1. CASE \E f \in Frames : ReceivePADO(f)
    BY <1>1, ReceivePADORefines
<1>2. CASE \E f \in Frames : ReceivePADS(f)
    BY <1>2, ReceivePADSRefines
<1>3. CASE Terminated \/ UNCHANGED vars
    BY <1>3 DEF Terminated, vars, AbsVars, Outcome
<1>4. QED
    BY <1>1, <1>2, <1>3, StartRefines, SendPADIRefines, TickRefines,
       PADOWaitEndsRefines, SendPADRRefines, PADSWaitEndsRefines DEF Next

(* kpppoe_discovery() implements the abstract discovery of               *)
(* PPPoEDiscoveryAbstract under the mapping of Abstract, for every value  *)
(* of the constants.                                                       *)
THEOREM Refinement == Spec => AbstractSpec
<1>1. [Abstract!Next]_AbsVars <=> [Abstract!Next]_Abstract!vars
    BY DEF AbsVars, Abstract!vars
<1>2. QED
    BY <1>1, InitRefines, NextRefines, IInvHolds, PTL
    DEF Spec, AbstractSpec, Abstract!Spec


-----------------------------------------------------------------------------
(* The doubling schedule.  Pow2 is defined by primitive recursion; its    *)
(* defining equation follows from NatInductiveDef.                        *)
Pow2Step(v, k) == 2 * v

LEMMA Pow2Def == NatInductiveDefConclusion(Pow2, 1, Pow2Step)
<1>1. NatInductiveDefHypothesis(Pow2, 1, Pow2Step)
    BY DEF Pow2, NatInductiveDefHypothesis, Pow2Step
<1>2. QED
    BY <1>1, NatInductiveDef

(* Pow2 starts at 1 and doubles at each step.                            *)
LEMMA Pow2Facts ==
    /\ Pow2[0] = 1
    /\ \A k \in Nat : Pow2[k + 1] = 2 * Pow2[k]
<1>1. Pow2 = [i \in Nat |-> IF i = 0 THEN 1 ELSE Pow2Step(Pow2[i - 1], i)]
    BY Pow2Def DEF NatInductiveDefConclusion
<1>2. \A k \in Nat : Pow2[k + 1] = 2 * Pow2[k]
    BY <1>1 DEF Pow2Step
<1>3. QED
    BY <1>1, <1>2

(* That Pow2 is a positive natural needs induction over Nat, which the    *)
(* provers cannot instantiate; it is carried along the run instead: the   *)
(* factors of every attempt made so far are positive naturals.            *)
Pow2Upto == \A k \in 0..(padiAttempts + padrAttempts) : Pow2[k] \in Nat \ {0}

(* One index more: the next factor is twice the last one.                *)
LEMMA Pow2Extend ==
    ASSUME NEW n \in Nat, \A k \in 0..n : Pow2[k] \in Nat \ {0}
    PROVE  \A k \in 0..(n + 1) : Pow2[k] \in Nat \ {0}
<1>1. Pow2[n + 1] = 2 * Pow2[n] /\ Pow2[n] \in Nat \ {0}
    BY Pow2Facts
<1>2. Pow2[n + 1] \in Nat \ {0}
    BY <1>1
<1>3. QED
    BY <1>2

(* Each step counts at most one attempt.                                 *)
LEMMA Pow2UptoStep == IInv /\ Pow2Upto /\ [Next]_vars => Pow2Upto'
<1> SUFFICES ASSUME IInv, Pow2Upto, [Next]_vars PROVE Pow2Upto'
    OBVIOUS
<1>0. padiAttempts \in Nat /\ padrAttempts \in Nat
    BY BoundsAssumption DEF IInv, CoreInv, TypeOK
<1>1. \/ UNCHANGED <<padiAttempts, padrAttempts>>
      \/ padiAttempts' = padiAttempts + 1 /\ padrAttempts' = padrAttempts
      \/ padrAttempts' = padrAttempts + 1 /\ padiAttempts' = padiAttempts
    BY DEF Next, Start, SendPADI, Tick, PADOWaitEnds, ReceivePADO, SendPADR,
           PADSWaitEnds, ReceivePADS, Terminated, vars
<1>2. CASE UNCHANGED <<padiAttempts, padrAttempts>>
    BY <1>2 DEF Pow2Upto
<1>3. CASE padiAttempts' + padrAttempts' = (padiAttempts + padrAttempts) + 1
    <2>1. \A k \in 0..((padiAttempts + padrAttempts) + 1) : Pow2[k] \in Nat \ {0}
        BY <1>0, Pow2Extend DEF Pow2Upto
    <2>2. QED
        BY <1>3, <2>1 DEF Pow2Upto
<1>4. QED
    BY <1>0, <1>1, <1>2, <1>3

(* One more attempt doubles the factor: the form the steps below use.     *)
LEMMA DoubleTimeout ==
    ASSUME NEW n \in Nat \ {0}, NEW t \in Int, t = BaseTimeout * Pow2[n - 1],
           Pow2[n - 1] \in Nat
    PROVE  2 * t = BaseTimeout * Pow2[n]
<1>1. Pow2[n] = 2 * Pow2[n - 1]
    <2>1. n - 1 \in Nat /\ (n - 1) + 1 = n
        OBVIOUS
    <2>2. QED
        BY <2>1, Pow2Facts
<1>2. BaseTimeout \in Nat
    BY BoundsAssumption
<1>3. QED
    BY <1>1, <1>2

(* Where the backoff part of the state cannot change, neither can         *)
(* BackoffInv; where the program has left both loops, it holds trivially. *)
LEMMA BackoffFrame ==
    ASSUME BackoffInv,
           \/ UNCHANGED <<pc, conf, timeout, padiAttempts, padrAttempts>>
           \/ pc' \in {"Done", "TimedOut", "Exited", "Aborted"}
    PROVE  BackoffInv'
BY DEF BackoffInv, BackoffSchedule

(* Every step keeps the schedule of both loops.                           *)
LEMMA BackoffStep == IInv /\ Pow2Upto /\ BackoffInv /\ [Next]_vars => BackoffInv'
<1> SUFFICES ASSUME IInv, Pow2Upto, BackoffInv, [Next]_vars PROVE BackoffInv'
    OBVIOUS
<1>0. /\ timeout \in Nat \ {0} /\ BaseTimeout \in Nat \ {0}
      /\ padiAttempts \in 0..(MaxAttempts + 1) /\ padrAttempts \in 0..(MaxAttempts + 1)
    BY BoundsAssumption DEF IInv, CoreInv, TypeOK
<1>1. CASE Start
    <2>1. CASE pc' = "PADI"
        <3>1. timeout' = BaseTimeout /\ padiAttempts' = 0 /\ conf' = conf
            BY <1>1, <2>1 DEF Start, BackoffInv, IInv, ExtInv, StateInv
        <3>2. BaseTimeout * Pow2[0] = BaseTimeout
            BY <1>0, Pow2Facts
        <3>3. QED
            BY <2>1, <3>1, <3>2 DEF BackoffInv, BackoffSchedule
    <2>2. CASE pc' # "PADI"
        BY <1>1, <2>2, BackoffFrame DEF Start
    <2>3. QED
        BY <2>1, <2>2
<1>2. CASE SendPADI
    <2>1. CASE OverBudget(padiAttempts')
        BY <1>2, <2>1, BackoffFrame DEF SendPADI
    <2>2. CASE ~OverBudget(padiAttempts')
        <3>0. /\ pc = "PADI" /\ pc' = "WaitPADO"
              /\ padiAttempts' = padiAttempts + 1
              /\ UNCHANGED <<conf, timeout, padrAttempts>>
            BY <1>2, <2>2 DEF SendPADI
        <3>1. padiAttempts' \in 1..MaxAttempts
            BY <1>0, <2>2, <3>0, BoundsAssumption DEF OverBudget
        <3>2. Pow2[padiAttempts' - 1] = Pow2[padiAttempts]
            BY <1>0, <3>0
        <3>3. QED
            BY <3>0, <3>1, <3>2 DEF BackoffInv, BackoffSchedule
    <2>3. QED
        BY <2>1, <2>2
<1>3. CASE PADOWaitEnds
    <2>1. /\ pc = "WaitPADO" /\ discoveryState = SENT_PADI
          /\ UNCHANGED <<conf, padiAttempts, padrAttempts>>
        BY <1>3 DEF PADOWaitEnds, IInv, CoreInv, PhaseInv
    <2>2. padiAttempts \in 1..MaxAttempts
          /\ timeout = IF conf.printACNames THEN BaseTimeout
                       ELSE BaseTimeout * Pow2[padiAttempts - 1]
        BY <2>1 DEF BackoffInv, BackoffSchedule
    <2>3. CASE pc' = "PADI"
        <3>1. timeout' = IF conf.printACNames THEN timeout ELSE 2 * timeout
            BY <1>3, <2>1, <2>3 DEF PADOWaitEnds, EndPADIAttempt
        <3>2. CASE conf.printACNames
            BY <2>1, <2>2, <2>3, <3>1, <3>2 DEF BackoffInv, BackoffSchedule
        <3>3. CASE ~conf.printACNames
            <4>0. Pow2[padiAttempts - 1] \in Nat
                BY <1>0, <2>2 DEF Pow2Upto
            <4>1. 2 * timeout = BaseTimeout * Pow2[padiAttempts]
                BY <1>0, <2>2, <3>3, <4>0, DoubleTimeout
            <4>2. QED
                BY <2>1, <2>3, <3>1, <3>3, <4>1 DEF BackoffInv, BackoffSchedule
        <3>4. QED
            BY <3>2, <3>3
    <2>4. CASE pc' # "PADI"
        <3>1. pc' = "Exited"
            BY <1>3, <2>1, <2>4 DEF PADOWaitEnds, EndPADIAttempt
        <3>2. QED
            BY <3>1, BackoffFrame
    <2>5. QED
        BY <2>3, <2>4
<1>4. CASE \E f \in Frames : ReceivePADO(f)
    <2>1. PICK f \in Frames : ReceivePADO(f)
        BY <1>4
    <2>2. /\ pc = "WaitPADO" /\ padrAttempts = 0
          /\ UNCHANGED <<conf, padiAttempts, padrAttempts>>
        BY <2>1 DEF ReceivePADO, IInv, CoreInv, PhaseInv, PADIPhase
    <2>3. CASE UNCHANGED <<pc, timeout>>
        BY <2>2, <2>3, BackoffFrame
    <2>4. CASE pc' = "PADR"
        <3>1. timeout' = BaseTimeout
            BY <2>1, <2>2, <2>4 DEF ReceivePADO, EndPADIAttempt
        <3>2. BaseTimeout * Pow2[0] = BaseTimeout
            BY <1>0, Pow2Facts
        <3>3. QED
            BY <2>2, <2>4, <3>1, <3>2 DEF BackoffInv, BackoffSchedule
    <2>5. CASE ~UNCHANGED <<pc, timeout>> /\ pc' # "PADR"
        <3>1. pc' \in {"Exited", "Aborted"}
            BY <2>1, <2>2, <2>5 DEF ReceivePADO, EndPADIAttempt, SENT_PADI
        <3>2. QED
            BY <3>1, BackoffFrame
    <2>6. QED
        BY <2>3, <2>4, <2>5
<1>5. CASE SendPADR
    <2>1. CASE OverBudget(padrAttempts')
        BY <1>5, <2>1, BackoffFrame DEF SendPADR
    <2>2. CASE ~OverBudget(padrAttempts')
        <3>0. /\ pc = "PADR" /\ pc' = "WaitPADS"
              /\ padrAttempts' = padrAttempts + 1
              /\ UNCHANGED <<conf, timeout, padiAttempts>>
            BY <1>5, <2>2 DEF SendPADR
        <3>1. padrAttempts' \in 1..MaxAttempts
            BY <1>0, <2>2, <3>0, BoundsAssumption DEF OverBudget
        <3>2. Pow2[padrAttempts' - 1] = Pow2[padrAttempts]
            BY <1>0, <3>0
        <3>3. QED
            BY <3>0, <3>1, <3>2 DEF BackoffInv, BackoffSchedule
    <2>3. QED
        BY <2>1, <2>2
<1>6. CASE PADSWaitEnds
    <2>1. /\ pc = "WaitPADS" /\ pc' = "PADR" /\ timeout' = 2 * timeout
          /\ UNCHANGED <<conf, padiAttempts, padrAttempts>>
        BY <1>6 DEF PADSWaitEnds
    <2>2. padrAttempts \in 1..MaxAttempts /\ timeout = BaseTimeout * Pow2[padrAttempts - 1]
        BY <2>1 DEF BackoffInv, BackoffSchedule
    <2>3. 2 * timeout = BaseTimeout * Pow2[padrAttempts]
        <3>1. Pow2[padrAttempts - 1] \in Nat
            BY <1>0, <2>2 DEF Pow2Upto
        <3>2. QED
            BY <1>0, <2>2, <3>1, DoubleTimeout
    <2>4. QED
        BY <2>1, <2>3 DEF BackoffInv, BackoffSchedule
<1>7. CASE \E f \in Frames : ReceivePADS(f)
    <2>1. PICK f \in Frames : ReceivePADS(f)
        BY <1>7
    <2>2. \/ UNCHANGED <<pc, conf, timeout, padiAttempts, padrAttempts>>
          \/ pc' \in {"Done", "TimedOut", "Exited", "Aborted"}
        BY <2>1 DEF ReceivePADS
    <2>3. QED
        BY <2>2, BackoffFrame
<1>8. CASE Tick \/ Terminated \/ UNCHANGED vars
    <2>1. UNCHANGED <<pc, conf, timeout, padiAttempts, padrAttempts>>
        BY <1>8 DEF Tick, Terminated, vars
    <2>2. QED
        BY <2>1, BackoffFrame
<1>9. QED
    BY <1>1, <1>2, <1>3, <1>4, <1>5, <1>6, <1>7, <1>8 DEF Next

(* At the head of each retry loop of kpppoe_discovery() the timeout is the *)
(* base doubled once per earlier attempt of that phase (never when         *)
(* probing, and counted from the reset of line 563 for PADR), for every    *)
(* budget and base timeout.                                                *)
THEOREM BackoffInvHolds == Spec => []BackoffInv
<1>1. Init => IInv /\ Pow2Upto /\ BackoffInv
    <2> SUFFICES ASSUME Init PROVE IInv /\ Pow2Upto /\ BackoffInv
        OBVIOUS
    <2>1. IInv
        BY InitCore, InitExt DEF IInv
    <2>2. Pow2Upto
        BY Pow2Facts DEF Init, Pow2Upto
    <2>3. BackoffInv
        BY DEF Init, BackoffInv, BackoffSchedule
    <2>4. QED
        BY <2>1, <2>2, <2>3
<1>2. IInv /\ Pow2Upto /\ BackoffInv /\ [Next]_vars
        => (IInv /\ Pow2Upto /\ BackoffInv)'
    BY NextIInv, Pow2UptoStep, BackoffStep
<1>3. QED
    BY <1>1, <1>2, PTL DEF Spec

(* Every wait of kpppoe_discovery() uses the base timeout doubled once per *)
(* earlier attempt of its phase, never doubled when probing, and the PADR  *)
(* phase starts again from the base, for every budget and base timeout.    *)
THEOREM BackoffScheduleHolds == Spec => []BackoffSchedule
BY BackoffInvHolds, PTL DEF BackoffInv

=============================================================================
