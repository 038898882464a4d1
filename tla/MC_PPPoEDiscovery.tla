------------------------- MODULE MC_PPPoEDiscovery -------------------------
(* A small instance of PPPoEDiscovery for TLC: two Access Concentrators    *)
(* a1 and a2 and a broadcast address on the segment, one AC name each, one *)
(* service name, a large cookie offered by a1 and a large relay id by a2.  *)
EXTENDS PPPoEDiscovery

CONSTANTS a1, a2, bcast, other

MCMacs == {Me, a1, a2, bcast, other}
MCUnicast == {Me, a1, a2, other}

n1 == [id |-> "n1", len |-> 3]
n2 == [id |-> "n2", len |-> 3]
isp == [id |-> "isp", len |-> 3]
c1 == [id |-> "c1", len |-> 1000]
r2 == [id |-> "r2", len |-> 600]
MCPayloads == {n1, n2, isp, c1, r2}

MCSessions == {0, 4660}

(* What each source puts in its PADOs when it puts the tag in at all.      *)
NameOf(m) == IF m = a2 THEN n2 ELSE n1
CookieOf(m) == IF m = a1 THEN c1 ELSE NoTag
RelayOf(m) == IF m = a2 THEN r2 ELSE NoTag

Frame(d, s, c, ok, an, sn, ck, rl, hu, e, id) ==
    [dst |-> d, src |-> s, code |-> c, lenOK |-> ok, acName |-> an,
     svcName |-> sn, cookie |-> ck, relay |-> rl, hostUniq |-> hu,
     err |-> e, session |-> id]

(* Offers from a1, a2 and the broadcast address, with and without each tag. *)
MCOffers ==
    UNION {{Frame(Me, s, PADO, TRUE, an, sn, ck, rl, hu, e, 0) :
               an \in {NoTag, NameOf(s)}, sn \in {NoTag, isp},
               ck \in {NoTag, CookieOf(s)}, rl \in {NoTag, RelayOf(s)},
               hu \in {MyPid, OtherPid}, e \in BOOLEAN} : s \in {a1, a2, bcast}}

(* Confirmations from a1 and a2, including the RFC-violating session id 0. *)
MCConfirms ==
    UNION {{Frame(Me, s, PADS, TRUE, NoTag, isp, NoTag, rl, hu, e, id) :
               rl \in {NoTag, RelayOf(s)}, hu \in {MyPid, OtherPid},
               e \in BOOLEAN, id \in MCSessions} : s \in {a1, a2}}

(* Frames for someone else, with a bogus length field, and a PADT.         *)
MCJunk ==
    { Frame(other, a1, PADO, TRUE, n1, isp, NoTag, NoTag, MyPid, FALSE, 0),
      Frame(Me, a1, PADO, FALSE, n1, isp, NoTag, NoTag, MyPid, FALSE, 0),
      Frame(Me, a1, PADT, TRUE, NoTag, NoTag, NoTag, NoTag, MyPid, FALSE, 0) }

MCFrames == MCOffers \cup MCConfirms \cup MCJunk

Conf(hu, pr, sk, ns, ks, an, sn) ==
    [useHostUniq |-> hu, printACNames |-> pr, skipDiscovery |-> sk,
     noDiscoverySocket |-> ns, killSession |-> ks, acName |-> an,
     serviceName |-> sn]

(* Discovery with and without Host-Uniq, probing or not, with and without  *)
(* each filter; and the three skip-discovery paths.                        *)
MCConfigs ==
    {Conf(hu, pr, FALSE, FALSE, FALSE, an, sn) :
        hu \in BOOLEAN, pr \in BOOLEAN, an \in {NoFilter, n2},
        sn \in {NoFilter, isp}}
    \cup {Conf(FALSE, FALSE, TRUE, ns, ks, NoFilter, NoFilter) :
            ns \in BOOLEAN, ks \in BOOLEAN}

=============================================================================
