--------------------------- MODULE MadwifiEvents ---------------------------
(***************************************************************************)
(* hostapd's madwifi driver glue, driver_madwifi.c: the routing-netlink    *)
(* handler that walks a received datagram (netlink messages, then the      *)
(* attributes of an RTM_NEWLINK, then the wireless events of an            *)
(* IFLA_WIRELESS attribute) and the station table the events drive.        *)
(*                                                                         *)
(* hostapd is one thread in an event loop, so a datagram is handled to the *)
(* end before the next is read; each step here is one turn of one of the  *)
(* three loops. The received datagram is a map from byte offsets to the    *)
(* headers the kernel wrote there. A header read where the kernel wrote    *)
(* none, or past the received bytes (stale bytes of the 256-byte stack     *)
(* buffer), yields any value of the matching Stale set; a routing header   *)
(* read as an attribute header is converted as a big-endian MIPS does.     *)
(***************************************************************************)
EXTENDS Integers, FiniteSets

CONSTANTS
    Stations,       \* station MAC addresses
    OwnIndex,       \* drv->ifindex
    Datagrams,      \* what recvfrom may return: [len, at, events]
    StaleNlh, StaleIfi, StaleRta, StaleIwe,  \* values of unwritten bytes
    Confs,          \* configurations read at start: wpa, js_p1 (P1 mode)
    Jumpstart,      \* the build defines JUMPSTART
    MaxSta          \* hostapd's station table limit (ap_sta_add)

ASSUME MadwifiAssumption ==
    /\ MaxSta \in Nat
    /\ Confs # {} /\ Confs \subseteq [wpa : BOOLEAN, jsP1 : BOOLEAN]
    /\ Jumpstart \in BOOLEAN
    /\ \A d \in Datagrams : d.len \in 0..256

\* Sizes on the 32-bit target, and the alignment macros.
NLMSGHDR == 16
IFINFOMSG == 16
RTATTR == 4
IW_EV_LCP_LEN == 4
IW_EV_POINT_LEN == 12
Align4(n) == ((n + 3) \div 4) * 4
RTM_NEWLINK == 16
IFLA_WIRELESS == 11

\* The headers the kernel writes, with their fields' C types: nlmsghdr and
\* rtattr lengths and types are unsigned, ifi_index is an int, an
\* iw_event's len and data length are __u16 and its address one of the
\* stations. The Stale sets hold headers of the same shapes.
NlhHeaders == [kind : {"nlh"}, nlmsg_len : Nat, nlmsg_type : Nat]
IfiHeaders == [kind : {"ifi"}, ifi_index : Int]
RtaHeaders == [kind : {"rta"}, rta_len : Nat, rta_type : Nat]
IweHeaders == [kind : {"iwe"}, cmd : {"EXPIRED", "REGISTERED", "CUSTOM", "OTHER"},
               addr : Stations, dlen : Nat, len : Nat]
Headers == NlhHeaders \cup IfiHeaders \cup RtaHeaders \cup IweHeaders

ASSUME DatagramAssumption ==
    /\ Datagrams # {}
    /\ \A d \in Datagrams :
         /\ DOMAIN d.at \subseteq Nat
         /\ \A p \in DOMAIN d.at : d.at[p] \in Headers
    /\ StaleNlh \subseteq NlhHeaders /\ StaleIfi \subseteq IfiHeaders
    /\ StaleRta \subseteq RtaHeaders /\ StaleIwe \subseteq IweHeaders

\* Bytes a read of each header touches from its offset (ifi_index ends at
\* byte 8 of the ifinfomsg; sa_data's MAC ends at byte 12 of an iw_event).
ReadSize == [nlh |-> NLMSGHDR, ifi |-> 8, rta |-> RTATTR, iwe |-> IW_EV_LCP_LEN,
             addr |-> 12]
Stale == [nlh |-> StaleNlh, ifi |-> StaleIfi, rta |-> StaleRta, iwe |-> StaleIwe]

\* The outcomes of process_wpa_ie: the GETWPAIE ioctl fails, the station has
\* no IE, wpa_validate_wpa_ie rejects it, malloc of the copy fails, success.
IeOutcomes == {"ioctl", "noie", "rejected", "nomem", "ok"}

VARIABLES
    conf,       \* hapd->conf: the configuration hostapd was started with
    pc,         \* "idle", or the loop of wireless_event_receive running
    buf,        \* the datagram being walked
    left, o, cur,       \* receive loop: bytes left, header offset, its len
    ao, alen, rlen,     \* rtm_newlink loop: attr offset, attrlen, rta_len
    ipos, iend,         \* wireless loop: pos and end
    sta,        \* the station table: present, WLAN_STA_ASSOC, wpa_ie
    overread,   \* history: a read past the received bytes
    handled     \* history: offsets of the events acted on in this datagram

vars == <<conf, pc, buf, left, o, cur, ao, alen, rlen, ipos, iend, sta, overread,
          handled>>
walk == <<left, o, cur, ao, alen, rlen, ipos, iend>>

NoSta == [present |-> FALSE, assoc |-> FALSE, ie |-> "none"]

\* The values a read of header kind k at offset p can give, and whether it
\* reaches past the received bytes.
Reads(k, p) ==
    IF p + ReadSize[k] <= buf.len /\ p \in DOMAIN buf.at /\ buf.at[p].kind = k
    THEN {buf.at[p]}
    ELSE IF p + ReadSize[k] <= buf.len /\ k = "rta" /\ p \in DOMAIN buf.at
            /\ buf.at[p].kind = "nlh"
    THEN {[kind |-> "rta", rta_len |-> buf.at[p].nlmsg_len \div 65536,
           rta_type |-> buf.at[p].nlmsg_len % 65536]}
    ELSE Stale[k]
Past(k, p) == p + ReadSize[k] > buf.len

\* Mutant: no interface test.
ForMeAny(i) == TRUE

\* rtm_newlink's test of the interface index (line 748).
ForMe(i) == i.ifi_index = OwnIndex

\* Mutant: RTA_OK without its lower bound on rta_len.
RtaOkNoMin(r, l) == r.rta_len <= l

\* RTA_OK once attrlen >= sizeof(struct rtattr): the attribute's length is
\* at least its header and within attrlen.
RtaOk(r, l) == r.rta_len >= RTATTR /\ r.rta_len <= l

Init ==
    /\ conf \in Confs
    /\ pc = "idle" /\ buf = CHOOSE d \in Datagrams : TRUE
    /\ left = 0 /\ o = 0 /\ cur = 0 /\ ao = 0 /\ alen = 0 /\ rlen = 0
    /\ ipos = 0 /\ iend = 0
    /\ sta = [s \in Stations |-> NoSta]
    /\ overread = FALSE /\ handled = {}

(***************************************************************************)
(* Station handling.                                                       *)
(***************************************************************************)

\* madwifi_del_sta: a known station loses WLAN_STA_ASSOC, the WPA machine
\* and the 802.1X port are told, and the entry is freed.
DelSta(s) == sta' = [sta EXCEPT ![s] = NoSta]

\* Mutant: the old IE is freed but the pointer is not replaced when the
\* malloc fails, so the station keeps a dangling wpa_ie.
WpaIeDangling(e, outcome) ==
    CASE outcome = "ok" -> [e EXCEPT !.ie = "valid"]
      [] outcome = "nomem" -> [e EXCEPT !.ie = "freed"]
      [] OTHER -> e

\* madwifi_process_wpa_ie: each failure returns -1; the old IE is freed
\* only after validation, and a failed malloc leaves wpa_ie NULL.
WpaIe(e, outcome) ==
    CASE outcome = "ok" -> [e EXCEPT !.ie = "valid"]
      [] outcome = "nomem" -> [e EXCEPT !.ie = "none"]
      [] OTHER -> e

\* hapd->conf->wpa; a JUMPSTART build in P1 mode keeps WPA on but
\* processes no IE.
WpaEnabled == conf.wpa
SkipWpaIe == Jumpstart /\ conf.jsP1

\* Mutant: madwifi_new_sta ignores the result of process_wpa_ie and marks
\* the station associated whatever became of its IE.
NewStaAssocAlways(s) ==
    /\ sta[s].present \/ Cardinality({t \in Stations : sta[t].present}) < MaxSta
    /\ LET e == [sta[s] EXCEPT !.present = TRUE] IN
       \/ /\ WpaEnabled /\ SkipWpaIe
          /\ sta' = [sta EXCEPT ![s] = [e EXCEPT !.assoc = TRUE]]
       \/ /\ WpaEnabled /\ ~SkipWpaIe
          /\ \E out \in IeOutcomes :
               sta' = [sta EXCEPT ![s] = [WpaIe(e, out) EXCEPT !.assoc = TRUE]]
       \/ /\ ~WpaEnabled
          /\ sta' = [sta EXCEPT ![s] = [e EXCEPT !.ie = "none", !.assoc = TRUE]]

\* madwifi_new_sta: find or add the station (ap_sta_add fails on a full
\* table); with WPA the IE is fetched and a failure returns before the
\* station is marked associated, except in a JUMPSTART build's P1 mode,
\* which associates the station without touching its IE; without WPA any
\* IE is dropped.
NewSta(s) ==
    /\ sta[s].present \/ Cardinality({t \in Stations : sta[t].present}) < MaxSta
    /\ LET e == [sta[s] EXCEPT !.present = TRUE] IN
       \/ /\ WpaEnabled /\ SkipWpaIe
          /\ sta' = [sta EXCEPT ![s] = [e EXCEPT !.assoc = TRUE]]
       \/ /\ WpaEnabled /\ ~SkipWpaIe
          /\ \E out \in IeOutcomes :
               sta' = [sta EXCEPT ![s] = IF out = "ok"
                                         THEN [WpaIe(e, out) EXCEPT !.assoc = TRUE]
                                         ELSE WpaIe(e, out)]
       \/ /\ ~WpaEnabled
          /\ sta' = [sta EXCEPT ![s] = [e EXCEPT !.ie = "none", !.assoc = TRUE]]

\* ap_sta_add failing: new_sta returns -1 and nothing changes.
NewStaFull(s) ==
    ~sta[s].present /\ Cardinality({t \in Stations : sta[t].present}) >= MaxSta

(***************************************************************************)
(* The three loops of the netlink handler.                                 *)
(***************************************************************************)

\* recvfrom into the 256-byte buffer; an error returns at once.
Receive ==
    /\ pc = "idle"
    /\ \E d \in Datagrams :
         /\ buf' = d /\ left' = d.len /\ o' = 0
    /\ pc' = "nl" /\ handled' = {}
    /\ UNCHANGED <<conf, cur, ao, alen, rlen, ipos, iend, sta, overread>>

\* One turn of wireless_event_receive's loop. `left >= sizeof(*h)` compares
\* an int with a size_t, so a negative left passes. A header whose length
\* exceeds what is left ends the walk; an RTM_NEWLINK for our interface
\* enters rtm_newlink's attribute loop with attrlen = nlmsg_len minus the
\* aligned ifinfomsg; anything else is stepped over by NLMSG_ALIGN(len).
NlStep ==
    /\ pc = "nl"
    /\ IF ~(left < 0 \/ left >= NLMSGHDR)
       THEN pc' = "idle" /\ UNCHANGED <<walk, overread>>
       ELSE \E h \in Reads("nlh", o), i \in Reads("ifi", o + NLMSGHDR) :
         LET newlink == h.nlmsg_type = RTM_NEWLINK
                        /\ h.nlmsg_len - NLMSGHDR >= IFINFOMSG
         IN
         /\ overread' = (overread \/ Past("nlh", o)
                         \/ (newlink /\ Past("ifi", o + NLMSGHDR)))
         /\ IF h.nlmsg_len > left \/ h.nlmsg_len - NLMSGHDR < 0
            THEN pc' = "idle" /\ UNCHANGED walk
            ELSE IF newlink /\ ForMe(i)
            THEN /\ pc' = "attr" /\ cur' = h.nlmsg_len
                 /\ ao' = o + NLMSGHDR + Align4(IFINFOMSG)
                 /\ alen' = h.nlmsg_len - Align4(IFINFOMSG)
                 /\ UNCHANGED <<left, o, rlen, ipos, iend>>
            ELSE /\ left' = left - Align4(h.nlmsg_len)
                 /\ o' = o + Align4(h.nlmsg_len)
                 /\ UNCHANGED <<pc, cur, ao, alen, rlen, ipos, iend>>
    /\ UNCHANGED <<conf, buf, sta, handled>>

\* Leaving rtm_newlink: the receive loop steps over the message.
EndNewlink ==
    /\ pc' = "nl" /\ left' = left - Align4(cur) /\ o' = o + Align4(cur)
    /\ UNCHANGED <<cur, ao, alen, rlen, ipos, iend>>

\* One turn of rtm_newlink's loop: RTA_OK, then an IFLA_WIRELESS attribute
\* enters the wireless loop over its payload; RTA_NEXT otherwise.
AttrStep ==
    /\ pc = "attr"
    /\ IF alen < RTATTR
       THEN EndNewlink /\ UNCHANGED overread
       ELSE \E r \in Reads("rta", ao) :
         /\ overread' = (overread \/ Past("rta", ao))
         /\ IF ~RtaOk(r, alen)
            THEN EndNewlink
            ELSE IF r.rta_type = IFLA_WIRELESS
            THEN /\ pc' = "iw" /\ rlen' = r.rta_len
                 /\ ipos' = ao + RTATTR /\ iend' = ao + r.rta_len
                 /\ UNCHANGED <<left, o, cur, ao, alen>>
            ELSE /\ alen' = alen - Align4(r.rta_len) /\ ao' = ao + Align4(r.rta_len)
                 /\ UNCHANGED <<pc, left, o, cur, rlen, ipos, iend>>
    /\ UNCHANGED <<conf, buf, sta, handled>>

\* Leaving madwifi_wireless_event_wireless: RTA_NEXT past the attribute.
EndWireless ==
    /\ pc' = "attr" /\ alen' = alen - Align4(rlen) /\ ao' = ao + Align4(rlen)
    /\ UNCHANGED <<left, o, cur, rlen, ipos, iend>>

\* One turn of madwifi_wireless_event_wireless's loop: an event no longer
\* than its header, a custom event overrunning `end` and a failed malloc
\* of the custom text all return; IWEVEXPIRED and IWEVREGISTERED call
\* del_sta and new_sta with the address in the event; then pos += len.
IweStep ==
    /\ pc = "iw"
    /\ IF ipos + IW_EV_LCP_LEN > iend
       THEN EndWireless /\ UNCHANGED <<sta, overread, handled>>
       ELSE \E w \in Reads("iwe", ipos) :
         LET next == /\ ipos' = ipos + w.len
                     /\ UNCHANGED <<pc, left, o, cur, ao, alen, rlen, iend>>
             seen == handled' = handled \cup {ipos}
         IN
         /\ overread' = (overread \/ Past("iwe", ipos)
                         \/ (w.cmd \in {"EXPIRED", "REGISTERED"} /\ Past("addr", ipos))
                         \/ (w.cmd = "CUSTOM"
                             /\ ipos + IW_EV_POINT_LEN + w.dlen > buf.len))
         /\ \/ /\ w.len <= IW_EV_LCP_LEN
               /\ EndWireless /\ UNCHANGED <<sta, handled>>
            \/ /\ w.len > IW_EV_LCP_LEN /\ w.cmd = "EXPIRED"
               /\ IF sta[w.addr].present THEN DelSta(w.addr) ELSE UNCHANGED sta
               /\ seen /\ next
            \/ /\ w.len > IW_EV_LCP_LEN /\ w.cmd = "REGISTERED"
               /\ IF NewStaFull(w.addr) THEN UNCHANGED sta ELSE NewSta(w.addr)
               /\ seen /\ next
            \/ /\ w.len > IW_EV_LCP_LEN /\ w.cmd = "CUSTOM"
               /\ \/ /\ ipos + IW_EV_POINT_LEN + w.dlen > iend
                     /\ EndWireless /\ UNCHANGED handled
                  \/ /\ ipos + IW_EV_POINT_LEN + w.dlen <= iend
                     /\ EndWireless /\ UNCHANGED handled     \* malloc failed
                  \/ /\ ipos + IW_EV_POINT_LEN + w.dlen <= iend
                     /\ seen /\ next
               /\ UNCHANGED sta
            \/ /\ w.len > IW_EV_LCP_LEN /\ w.cmd = "OTHER"
               /\ next /\ UNCHANGED <<sta, handled>>
    /\ UNCHANGED <<conf, buf>>

Next ==
    \/ Receive \/ NlStep \/ AttrStep \/ IweStep

Spec == Init /\ [][Next]_vars

\* hostapd's loop runs a handler to its end: each of its steps, once
\* enabled, is taken.
FairSpec == Spec /\ WF_vars(NlStep) /\ WF_vars(AttrStep) /\ WF_vars(IweStep)

-----------------------------------------------------------------------------
(***************************************************************************)
(* Properties.                                                             *)
(***************************************************************************)

\* Every variable holds a value of its type; a station's wpa_ie is either
\* NULL or a copy that process_wpa_ie validated (never a freed pointer).
TypeOK ==
    /\ conf \in Confs
    /\ pc \in {"idle", "nl", "attr", "iw"} /\ buf \in Datagrams
    /\ left \in Int /\ o \in Nat /\ ao \in Nat /\ alen \in Int
    /\ ipos \in Nat /\ iend \in Nat
    /\ sta \in [Stations -> [present : BOOLEAN, assoc : BOOLEAN,
                             ie : {"none", "valid"}]]
    /\ overread \in BOOLEAN /\ handled \subseteq Nat

\* The three nested walks stay in step with what the kernel wrote: every
\* wireless event hostapd acts on is an event of an IFLA_WIRELESS attribute
\* of an RTM_NEWLINK for its own interface, at that offset of the datagram,
\* never stale bytes or a header of another layer read as one.
EventsFromKernel == handled \subseteq buf.events

\* With WPA on, a station gains WLAN_STA_ASSOC only in a step whose
\* madwifi_process_wpa_ie fetched, validated and stored its IE:
\* madwifi_new_sta returns before setting the flag on each of the four
\* failures, so no station is associated on an IE hostapd never checked.
\* The one exception is the one the code states (line 631): a JUMPSTART
\* build in P1 mode processes no IE, and associates with whatever IE the
\* station had.
AssocNeedsValidIe ==
    [][\A s \in Stations :
         ~sta[s].assoc /\ sta'[s].assoc =>
            (WpaEnabled /\ ~SkipWpaIe => sta'[s].ie = "valid")]_vars

\* Every walk over a datagram ends, whatever the lengths it reads: each
\* loop advances by at least its header or returns.
WalkTerminates == pc # "idle" ~> pc = "idle"

\* The length checks of the three loops (line 791, RTA_OK, line 703) keep
\* every read inside the bytes recvfrom returned.
NoOverread == ~overread

=============================================================================
