----------------------- MODULE PPPoEDiscoveryAbstract -----------------------
(***************************************************************************)
(* What kpppoe_discovery() promises its caller, without frames, timers or  *)
(* attempt counters: the discovery state only moves forward along          *)
(* INIT -> SENT_PADI -> RECEIVED_PADO -> SENT_PADR -> SESSION (a retry     *)
(* stays where it is), the peer is a unicast host chosen by an offer and   *)
(* is fixed once a request is under way, a session id arrives only in     *)
(* answer to a request, and a probe never requests.  The process ends     *)
(* with a session, a timeout, an exit(0) or an exit(1).                    *)
(***************************************************************************)
CONSTANTS
    Unicast,    \* the hosts an offer may come from
    Sessions,   \* session ids
    NoMac, NoSession

INIT == "INIT"
SENT_PADI == "SENT_PADI"
RECEIVED_PADO == "RECEIVED_PADO"
SENT_PADR == "SENT_PADR"
SESSION == "SESSION"

VARIABLES
    state,      \* conn->discoveryState
    peer,       \* conn->peerEth
    session,    \* conn->session
    probe,      \* conn->printACNames: only listing the concentrators
    outcome     \* "running", or how the call ended

vars == <<state, peer, session, probe, outcome>>

Init ==
    /\ state = INIT /\ peer = NoMac /\ session = NoSession
    /\ probe \in BOOLEAN /\ outcome = "running"

Running == outcome = "running"

(* Discovery is skipped: the state is SESSION at once, with no session id *)
(* from a PADS; killing the session exits.                                 *)
Skip ==
    /\ Running /\ state = INIT
    /\ state' = SESSION /\ outcome' \in {"done", "exited"}
    /\ UNCHANGED <<peer, session, probe>>

(* A PADI is (re)sent.                                                     *)
Solicit ==
    /\ Running /\ state \in {INIT, SENT_PADI}
    /\ state' = SENT_PADI
    /\ UNCHANGED <<peer, session, probe, outcome>>

(* An offer from host p is taken: it ends the PADI phase, except when      *)
(* probing, where later offers may replace it.                             *)
Offer(p) ==
    /\ Running /\ state = SENT_PADI
    /\ peer' = p
    /\ state' = IF probe THEN SENT_PADI ELSE RECEIVED_PADO
    /\ UNCHANGED <<session, probe, outcome>>

(* A PADR is (re)sent to the peer.                                         *)
Request ==
    /\ Running /\ ~probe /\ state \in {RECEIVED_PADO, SENT_PADR}
    /\ peer # NoMac
    /\ state' = SENT_PADR
    /\ UNCHANGED <<peer, session, probe, outcome>>

(* The peer confirms with session id s.                                    *)
Confirm(s) ==
    /\ Running /\ state = SENT_PADR
    /\ state' = SESSION /\ session' = s /\ outcome' = "done"
    /\ UNCHANGED <<peer, probe>>

(* The call ends without a session: a phase ran out of attempts, a probe  *)
(* is over, or an error tag from the concentrator stopped the process.    *)
GiveUp ==
    /\ Running /\ state \in {SENT_PADI, SENT_PADR}
    /\ \/ outcome' = "timedout"
       \/ outcome' = "exited" /\ probe /\ state = SENT_PADI
       \/ outcome' = "aborted" /\ (state = SENT_PADI => ~probe)
    /\ UNCHANGED <<state, peer, session, probe>>

Next ==
    \/ Skip \/ Solicit \/ Request \/ GiveUp
    \/ \E p \in Unicast : Offer(p)
    \/ \E s \in Sessions : Confirm(s)

Spec == Init /\ [][Next]_vars

=============================================================================
