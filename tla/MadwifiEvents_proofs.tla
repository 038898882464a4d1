------------------------ MODULE MadwifiEvents_proofs ------------------------
(***************************************************************************)
(* Proofs about MadwifiEvents, for every set of stations and datagrams     *)
(* that satisfies DatagramAssumption.                                      *)
(*                                                                         *)
(* TypeOK is not inductive by itself: leaving rtm_newlink steps the        *)
(* receive offset by NLMSG_ALIGN(cur), and leaving the wireless loop steps *)
(* the attribute offset by RTA_ALIGN(rlen), so both saved lengths must be  *)
(* natural numbers for the offsets to stay natural numbers. IInv adds them.*)
(***************************************************************************)
EXTENDS MadwifiEvents, TLAPS

IInv == TypeOK /\ cur \in Nat /\ rlen \in Nat

StaEntries == [present : BOOLEAN, assoc : BOOLEAN, ie : {"none", "valid"}]

-----------------------------------------------------------------------------
(* NLMSG_ALIGN and RTA_ALIGN of a length are natural numbers.             *)
LEMMA AlignNat == \A n \in Nat : Align4(n) \in Nat
BY DEF Align4

(* Every header a walk reads has the shape of its kind: the kernel's      *)
(* header at that offset, a routing header converted to an attribute     *)
(* header, or stale bytes.                                                 *)
LEMMA ReadsTyped ==
    ASSUME buf \in Datagrams, NEW p \in Nat
    PROVE  /\ Reads("nlh", p) \subseteq NlhHeaders
           /\ Reads("ifi", p) \subseteq IfiHeaders
           /\ Reads("rta", p) \subseteq RtaHeaders
           /\ Reads("iwe", p) \subseteq IweHeaders
<1>1. p \in DOMAIN buf.at => buf.at[p] \in Headers
    BY DatagramAssumption
<1>2. ASSUME NEW k \in {"nlh", "ifi", "rta", "iwe"}, p \in DOMAIN buf.at,
             buf.at[p].kind = k
      PROVE  buf.at[p] \in CASE k = "nlh" -> NlhHeaders [] k = "ifi" -> IfiHeaders
                             [] k = "rta" -> RtaHeaders [] k = "iwe" -> IweHeaders
    BY <1>1, <1>2 DEF Headers, NlhHeaders, IfiHeaders, RtaHeaders, IweHeaders
<1>3. ASSUME p \in DOMAIN buf.at, buf.at[p].kind = "nlh"
      PROVE  [kind |-> "rta", rta_len |-> buf.at[p].nlmsg_len \div 65536,
              rta_type |-> buf.at[p].nlmsg_len % 65536] \in RtaHeaders
    <2>1. buf.at[p].nlmsg_len \in Nat
        BY <1>2, <1>3 DEF NlhHeaders
    <2>2. QED
        BY <2>1 DEF RtaHeaders
<1>4. QED
    BY <1>2, <1>3, DatagramAssumption DEF Reads, Stale
(* process_wpa_ie leaves a station's wpa_ie NULL or a validated copy.     *)
LEMMA WpaIeTyped ==
    ASSUME NEW e \in StaEntries, NEW out \in IeOutcomes
    PROVE  WpaIe(e, out) \in StaEntries
BY DEF WpaIe, StaEntries, IeOutcomes

(* madwifi_new_sta and madwifi_del_sta keep every station entry typed.    *)
LEMMA StaUpdateTyped ==
    ASSUME sta \in [Stations -> StaEntries], NEW s \in Stations,
           NewSta(s) \/ DelSta(s) \/ UNCHANGED sta
    PROVE  sta' \in [Stations -> StaEntries]
<1> DEFINE e == [sta[s] EXCEPT !.present = TRUE]
<1>1. e \in StaEntries
    BY DEF StaEntries
<1>2. CASE NewSta(s) /\ WpaEnabled /\ ~SkipWpaIe
    <2>1. PICK out \in IeOutcomes :
             sta' = [sta EXCEPT ![s] = IF out = "ok"
                                       THEN [WpaIe(e, out) EXCEPT !.assoc = TRUE]
                                       ELSE WpaIe(e, out)]
        BY <1>2 DEF NewSta
    <2>2. WpaIe(e, out) \in StaEntries
        BY <1>1, WpaIeTyped
    <2>3. [WpaIe(e, out) EXCEPT !.assoc = TRUE] \in StaEntries
        BY <2>2 DEF StaEntries
    <2>4. QED
        BY <2>1, <2>2, <2>3
<1>3. CASE NewSta(s) /\ ~WpaEnabled
    <2>1. sta' = [sta EXCEPT ![s] = [e EXCEPT !.ie = "none", !.assoc = TRUE]]
        BY <1>3 DEF NewSta
    <2>2. QED
        BY <1>1, <2>1 DEF StaEntries
<1>4. CASE NewSta(s) /\ WpaEnabled /\ SkipWpaIe
    <2>1. sta' = [sta EXCEPT ![s] = [e EXCEPT !.assoc = TRUE]]
        BY <1>4, Zenon DEF NewSta
    <2>2. QED
        BY <1>1, <2>1 DEF StaEntries
<1>5. CASE DelSta(s)
    BY <1>5 DEF DelSta, NoSta, StaEntries
<1>6. QED
    BY <1>2, <1>3, <1>4, <1>5

-----------------------------------------------------------------------------
(* The state before the first recvfrom satisfies IInv.                     *)
LEMMA InitIInv == Init => IInv
<1> SUFFICES ASSUME Init PROVE IInv
    OBVIOUS
<1>0. conf \in Confs
    BY DEF Init
<1>1. buf \in Datagrams
    BY DatagramAssumption DEF Init
<1>2. sta \in [Stations -> StaEntries]
    BY DEF Init, NoSta, StaEntries
<1>3. /\ pc = "idle" /\ left = 0 /\ o = 0 /\ cur = 0 /\ ao = 0 /\ alen = 0
      /\ rlen = 0 /\ ipos = 0 /\ iend = 0 /\ overread = FALSE /\ handled = {}
    BY Zenon DEF Init
<1>4. /\ pc \in {"idle", "nl", "attr", "iw"}
      /\ left \in Int /\ o \in Nat /\ ao \in Nat /\ alen \in Int
      /\ ipos \in Nat /\ iend \in Nat /\ cur \in Nat /\ rlen \in Nat
      /\ handled \subseteq Nat
    BY <1>3
<1>5. overread \in BOOLEAN
    BY <1>3, Zenon
<1>6. QED
    BY <1>0, <1>1, <1>2, <1>4, <1>5, Zenon DEF IInv, TypeOK, StaEntries

(* recvfrom starts the walk of a new datagram at offset 0.                 *)
LEMMA ReceiveStep == IInv /\ Receive => IInv'
<1> SUFFICES ASSUME IInv, Receive PROVE IInv'
    OBVIOUS
<1>1. PICK d \in Datagrams : buf' = d /\ left' = d.len /\ o' = 0
    BY DEF Receive
<1>2. d.len \in Int
    BY MadwifiAssumption
<1>3. QED
    BY <1>1, <1>2 DEF Receive, IInv, TypeOK
(* IInv from its parts, with the unchanged buffer, station table and      *)
(* history: the form every step lemma below ends in.                      *)
LEMMA WalkStep ==
    ASSUME IInv, UNCHANGED <<conf, buf, sta, handled>>,
           pc' \in {"idle", "nl", "attr", "iw"},
           left' \in Int, o' \in Nat, ao' \in Nat, alen' \in Int,
           ipos' \in Nat, iend' \in Nat, cur' \in Nat, rlen' \in Nat,
           overread' \in BOOLEAN
    PROVE  IInv'
BY Zenon DEF IInv, TypeOK

(* One turn of the receive loop of wireless_event_receive.                *)
LEMMA NlStepStep == IInv /\ NlStep => IInv'
<1> SUFFICES ASSUME IInv, NlStep PROVE IInv'
    OBVIOUS
<1>0. /\ left \in Int /\ o \in Nat /\ ao \in Nat /\ alen \in Int
      /\ ipos \in Nat /\ iend \in Nat /\ cur \in Nat /\ rlen \in Nat
      /\ buf \in Datagrams /\ overread \in BOOLEAN
    BY DEF IInv, TypeOK
<1>1. UNCHANGED <<conf, buf, sta, handled>>
    BY DEF NlStep
<1>2. CASE ~(left < 0 \/ left >= NLMSGHDR)
    <2>1. pc' = "idle" /\ UNCHANGED <<left, o, cur, ao, alen, rlen, ipos, iend, overread>>
        BY <1>2 DEF NlStep, walk
    <2>2. QED
        BY <1>0, <1>1, <2>1, WalkStep
<1>3. CASE left < 0 \/ left >= NLMSGHDR
    <2>1. PICK h \in Reads("nlh", o), i \in Reads("ifi", o + NLMSGHDR) :
            LET newlink == h.nlmsg_type = RTM_NEWLINK
                           /\ h.nlmsg_len - NLMSGHDR >= IFINFOMSG
            IN
            /\ overread' = (overread \/ Past("nlh", o)
                            \/ (newlink /\ Past("ifi", o + NLMSGHDR)))
            /\ IF h.nlmsg_len > left \/ h.nlmsg_len - NLMSGHDR < 0
               THEN pc' = "idle" /\ UNCHANGED walk
               ELSE IF newlink /\ ForMe(i)
               THEN /\ pc' = "attr" /\ cur' = h.nlmsg_len
                    /\ ao' = o + NLMSGHDR + Align4(IFINFOMSG)
                    /\ alen' = h.nlmsg_len - Align4(IFINFOMSG)
                    /\ UNCHANGED <<left, o, rlen, ipos, iend>>
               ELSE /\ left' = left - Align4(h.nlmsg_len)
                    /\ o' = o + Align4(h.nlmsg_len)
                    /\ UNCHANGED <<pc, cur, ao, alen, rlen, ipos, iend>>
        BY <1>3 DEF NlStep
    <2>2. h.nlmsg_len \in Nat
        BY <1>0, ReadsTyped DEF NlhHeaders
    <2>3. overread' \in BOOLEAN
        BY <1>0, <2>1, Zenon
    <2>4. pc = "nl"
        BY DEF NlStep
    <2>5. /\ pc' \in {"idle", "nl", "attr", "iw"}
          /\ left' \in Int /\ o' \in Nat /\ ao' \in Nat /\ alen' \in Int
          /\ ipos' \in Nat /\ iend' \in Nat /\ cur' \in Nat /\ rlen' \in Nat
        <3>1. CASE h.nlmsg_len > left \/ h.nlmsg_len - NLMSGHDR < 0
            BY <1>0, <2>1, <3>1 DEF walk
        <3>2. CASE ~(h.nlmsg_len > left \/ h.nlmsg_len - NLMSGHDR < 0)
                   /\ h.nlmsg_type = RTM_NEWLINK /\ h.nlmsg_len - NLMSGHDR >= IFINFOMSG
                   /\ ForMe(i)
            <4>1. /\ pc' = "attr" /\ cur' = h.nlmsg_len
                  /\ ao' = o + NLMSGHDR + Align4(IFINFOMSG)
                  /\ alen' = h.nlmsg_len - Align4(IFINFOMSG)
                  /\ UNCHANGED <<left, o, rlen, ipos, iend>>
                BY <2>1, <3>2
            <4>2. Align4(IFINFOMSG) \in Nat
                BY AlignNat DEF IFINFOMSG
            <4>3. QED
                BY <1>0, <2>2, <4>1, <4>2 DEF NLMSGHDR
        <3>3. CASE ~(h.nlmsg_len > left \/ h.nlmsg_len - NLMSGHDR < 0)
                   /\ ~(h.nlmsg_type = RTM_NEWLINK /\ h.nlmsg_len - NLMSGHDR >= IFINFOMSG
                         /\ ForMe(i))
            <4>1. /\ left' = left - Align4(h.nlmsg_len)
                  /\ o' = o + Align4(h.nlmsg_len)
                  /\ UNCHANGED <<pc, cur, ao, alen, rlen, ipos, iend>>
                BY <2>1, <3>3
            <4>2. Align4(h.nlmsg_len) \in Nat
                BY <2>2, AlignNat
            <4>3. QED
                BY <1>0, <2>4, <4>1, <4>2
        <3>4. QED
            BY <3>1, <3>2, <3>3
    <2>6. QED
        BY <1>0, <1>1, <2>3, <2>5, WalkStep
<1>4. QED
    BY <1>2, <1>3
(* Leaving rtm_newlink keeps the receive offset natural.                   *)
LEMMA EndNewlinkTyped ==
    ASSUME left \in Int, o \in Nat, cur \in Nat, EndNewlink
    PROVE  /\ pc' = "nl" /\ left' \in Int /\ o' \in Nat
           /\ UNCHANGED <<cur, ao, alen, rlen, ipos, iend>>
<1>1. Align4(cur) \in Nat
    BY AlignNat
<1>2. QED
    BY <1>1 DEF EndNewlink

(* One turn of rtm_newlink's attribute loop.                               *)
LEMMA AttrStepStep == IInv /\ AttrStep => IInv'
<1> SUFFICES ASSUME IInv, AttrStep PROVE IInv'
    OBVIOUS
<1>0. /\ left \in Int /\ o \in Nat /\ ao \in Nat /\ alen \in Int
      /\ ipos \in Nat /\ iend \in Nat /\ cur \in Nat /\ rlen \in Nat
      /\ buf \in Datagrams /\ overread \in BOOLEAN
    BY DEF IInv, TypeOK
<1>1. UNCHANGED <<conf, buf, sta, handled>>
    BY DEF AttrStep
<1>2. CASE alen < RTATTR
    <2>1. EndNewlink /\ UNCHANGED overread
        BY <1>2 DEF AttrStep
    <2>2. QED
        BY <1>0, <1>1, <2>1, EndNewlinkTyped, WalkStep
<1>3. CASE ~(alen < RTATTR)
    <2>1. PICK r \in Reads("rta", ao) :
            /\ overread' = (overread \/ Past("rta", ao))
            /\ IF ~RtaOk(r, alen)
               THEN EndNewlink
               ELSE IF r.rta_type = IFLA_WIRELESS
               THEN /\ pc' = "iw" /\ rlen' = r.rta_len
                    /\ ipos' = ao + RTATTR /\ iend' = ao + r.rta_len
                    /\ UNCHANGED <<left, o, cur, ao, alen>>
               ELSE /\ alen' = alen - Align4(r.rta_len) /\ ao' = ao + Align4(r.rta_len)
                    /\ UNCHANGED <<pc, left, o, cur, rlen, ipos, iend>>
        BY <1>3 DEF AttrStep
    <2>2. r.rta_len \in Nat /\ Align4(r.rta_len) \in Nat
        BY <1>0, ReadsTyped, AlignNat DEF RtaHeaders
    <2>3. overread' \in BOOLEAN
        BY <1>0, <2>1, Zenon
    <2>4. pc = "attr"
        BY DEF AttrStep
    <2>5. CASE ~RtaOk(r, alen)
        BY <1>0, <1>1, <2>1, <2>3, <2>5, EndNewlinkTyped, WalkStep
    <2>6. CASE RtaOk(r, alen) /\ r.rta_type = IFLA_WIRELESS
        <3>1. /\ pc' = "iw" /\ rlen' = r.rta_len
              /\ ipos' = ao + RTATTR /\ iend' = ao + r.rta_len
              /\ UNCHANGED <<left, o, cur, ao, alen>>
            BY <2>1, <2>6
        <3>2. QED
            BY <1>0, <1>1, <2>2, <2>3, <3>1, WalkStep DEF RTATTR
    <2>7. CASE RtaOk(r, alen) /\ r.rta_type # IFLA_WIRELESS
        <3>1. /\ alen' = alen - Align4(r.rta_len) /\ ao' = ao + Align4(r.rta_len)
              /\ UNCHANGED <<pc, left, o, cur, rlen, ipos, iend>>
            BY <2>1, <2>7
        <3>2. QED
            BY <1>0, <1>1, <2>2, <2>3, <2>4, <3>1, WalkStep
    <2>8. QED
        BY <2>5, <2>6, <2>7
<1>4. QED
    BY <1>2, <1>3
(* IInv from its parts when a step may also change the station table and  *)
(* the history of handled events.                                          *)
LEMMA EventStep ==
    ASSUME IInv, conf' = conf, buf' = buf, sta' \in [Stations -> StaEntries],
           handled' \subseteq Nat,
           pc' \in {"idle", "nl", "attr", "iw"},
           left' \in Int, o' \in Nat, ao' \in Nat, alen' \in Int,
           ipos' \in Nat, iend' \in Nat, cur' \in Nat, rlen' \in Nat,
           overread' \in BOOLEAN
    PROVE  IInv'
BY Zenon DEF IInv, TypeOK, StaEntries

(* Leaving the wireless loop keeps the attribute offset natural.           *)
LEMMA EndWirelessTyped ==
    ASSUME ao \in Nat, alen \in Int, rlen \in Nat, EndWireless
    PROVE  /\ pc' = "attr" /\ ao' \in Nat /\ alen' \in Int
           /\ UNCHANGED <<left, o, cur, rlen, ipos, iend>>
<1>1. Align4(rlen) \in Nat
    BY AlignNat
<1>2. QED
    BY <1>1 DEF EndWireless

(* One turn of madwifi_wireless_event_wireless's loop, with the station    *)
(* handler it calls.                                                       *)
LEMMA IweStepStep == IInv /\ IweStep => IInv'
<1> SUFFICES ASSUME IInv, IweStep PROVE IInv'
    OBVIOUS
<1>0. /\ left \in Int /\ o \in Nat /\ ao \in Nat /\ alen \in Int
      /\ ipos \in Nat /\ iend \in Nat /\ cur \in Nat /\ rlen \in Nat
      /\ buf \in Datagrams /\ overread \in BOOLEAN
      /\ sta \in [Stations -> StaEntries] /\ handled \subseteq Nat
    BY DEF IInv, TypeOK, StaEntries
<1>1. conf' = conf /\ buf' = buf
    BY DEF IweStep
<1>2. CASE ipos + IW_EV_LCP_LEN > iend
    <2>1. EndWireless /\ UNCHANGED <<sta, overread, handled>>
        BY <1>2 DEF IweStep
    <2>2. QED
        BY <1>0, <1>1, <2>1, EndWirelessTyped, EventStep
<1>3. CASE ~(ipos + IW_EV_LCP_LEN > iend)
    <2> DEFINE next(x) == /\ ipos' = ipos + x.len
                          /\ UNCHANGED <<pc, left, o, cur, ao, alen, rlen, iend>>
               seen == handled' = handled \cup {ipos}
    <2>1. PICK w \in Reads("iwe", ipos) :
            /\ overread' = (overread \/ Past("iwe", ipos)
                            \/ (w.cmd \in {"EXPIRED", "REGISTERED"} /\ Past("addr", ipos))
                            \/ (w.cmd = "CUSTOM"
                                /\ ipos + IW_EV_POINT_LEN + w.dlen > buf.len))
            /\ \/ /\ w.len <= IW_EV_LCP_LEN
                  /\ EndWireless /\ UNCHANGED <<sta, handled>>
               \/ /\ w.len > IW_EV_LCP_LEN /\ w.cmd = "EXPIRED"
                  /\ IF sta[w.addr].present THEN DelSta(w.addr) ELSE UNCHANGED sta
                  /\ seen /\ next(w)
               \/ /\ w.len > IW_EV_LCP_LEN /\ w.cmd = "REGISTERED"
                  /\ IF NewStaFull(w.addr) THEN UNCHANGED sta ELSE NewSta(w.addr)
                  /\ seen /\ next(w)
               \/ /\ w.len > IW_EV_LCP_LEN /\ w.cmd = "CUSTOM"
                  /\ \/ EndWireless /\ UNCHANGED handled
                     \/ seen /\ next(w)
                  /\ UNCHANGED sta
               \/ /\ w.len > IW_EV_LCP_LEN /\ w.cmd = "OTHER"
                  /\ next(w) /\ UNCHANGED <<sta, handled>>
        BY <1>3 DEF IweStep
    <2>2. w.len \in Nat /\ w.addr \in Stations
        BY <1>0, ReadsTyped DEF IweHeaders
    <2>3. overread' \in BOOLEAN
        BY <1>0, <2>1, Zenon
    <2>4. pc = "iw"
        BY DEF IweStep
    <2>5. ASSUME next(w)
          PROVE  /\ pc' \in {"idle", "nl", "attr", "iw"}
                 /\ left' \in Int /\ o' \in Nat /\ ao' \in Nat /\ alen' \in Int
                 /\ ipos' \in Nat /\ iend' \in Nat /\ cur' \in Nat /\ rlen' \in Nat
        BY <1>0, <2>2, <2>4, <2>5
    <2>6. ASSUME EndWireless
          PROVE  /\ pc' \in {"idle", "nl", "attr", "iw"}
                 /\ left' \in Int /\ o' \in Nat /\ ao' \in Nat /\ alen' \in Int
                 /\ ipos' \in Nat /\ iend' \in Nat /\ cur' \in Nat /\ rlen' \in Nat
        BY <1>0, <2>6, EndWirelessTyped
    <2>7. seen => handled' \subseteq Nat
        BY <1>0
    <2>8. (IF sta[w.addr].present THEN DelSta(w.addr) ELSE UNCHANGED sta)
            => sta' \in [Stations -> StaEntries]
        BY <1>0, <2>2, StaUpdateTyped
    <2>9. (IF NewStaFull(w.addr) THEN UNCHANGED sta ELSE NewSta(w.addr))
            => sta' \in [Stations -> StaEntries]
        BY <1>0, <2>2, StaUpdateTyped
    <2>10. QED
        BY <1>0, <1>1, <2>1, <2>3, <2>5, <2>6, <2>7, <2>8, <2>9, EventStep
<1>4. QED
    BY <1>2, <1>3
-----------------------------------------------------------------------------
(* Every turn of the three loops, every recvfrom and every stutter keeps   *)
(* IInv.                                                                   *)
LEMMA NextIInv == IInv /\ [Next]_vars => IInv'
<1> SUFFICES ASSUME IInv, [Next]_vars PROVE IInv'
    OBVIOUS
<1>1. CASE Receive
    BY <1>1, ReceiveStep
<1>2. CASE NlStep
    BY <1>2, NlStepStep
<1>3. CASE AttrStep
    BY <1>3, AttrStepStep
<1>4. CASE IweStep
    BY <1>4, IweStepStep
<1>5. CASE UNCHANGED vars
    BY <1>5, Zenon DEF vars, IInv, TypeOK
<1>6. QED
    BY <1>1, <1>2, <1>3, <1>4, <1>5 DEF Next

(* IInv holds in every state hostapd's handler reaches.                    *)
THEOREM IInvHolds == Spec => []IInv
BY InitIInv, NextIInv, PTL DEF Spec

(* Whatever datagrams the kernel sends and whatever stale bytes the walks  *)
(* read, every variable keeps its type; in particular a station's wpa_ie   *)
(* is NULL or a copy madwifi_process_wpa_ie validated, never the freed     *)
(* old IE left behind when the malloc of the new copy fails.               *)
THEOREM TypeCorrect == Spec => []TypeOK
BY IInvHolds, PTL DEF IInv
-----------------------------------------------------------------------------
(* The condition AssocNeedsValidIe puts on one step.                       *)
AssocStepOK ==
    \A s \in Stations :
        ~sta[s].assoc /\ sta'[s].assoc =>
           (WpaEnabled /\ ~SkipWpaIe => sta'[s].ie = "valid")

(* madwifi_new_sta sets WLAN_STA_ASSOC with WPA on, outside P1 mode, only  *)
(* after process_wpa_ie succeeded, which leaves a validated IE.            *)
LEMMA NewStaAssoc ==
    ASSUME sta \in [Stations -> StaEntries], NEW a \in Stations, NewSta(a)
    PROVE  AssocStepOK
<1> SUFFICES ASSUME NEW s \in Stations, ~sta[s].assoc, sta'[s].assoc, WpaEnabled,
                    ~SkipWpaIe
             PROVE  sta'[s].ie = "valid"
    BY DEF AssocStepOK
<1> DEFINE e == [sta[a] EXCEPT !.present = TRUE]
<1>1. PICK out \in IeOutcomes :
         sta' = [sta EXCEPT ![a] = IF out = "ok"
                                   THEN [WpaIe(e, out) EXCEPT !.assoc = TRUE]
                                   ELSE WpaIe(e, out)]
    BY DEF NewSta
<1>2. CASE s # a
    BY <1>1, <1>2
<1>3. CASE s = a /\ out = "ok"
    BY <1>1, <1>3 DEF WpaIe, StaEntries
<1>4. CASE s = a /\ out # "ok"
    <2>1. WpaIe(e, out).assoc = sta[a].assoc
        BY <1>4 DEF WpaIe, StaEntries
    <2>2. QED
        BY <1>1, <1>4, <2>1
<1>5. QED
    BY <1>2, <1>3, <1>4

(* Only a wireless event changes the station table, through new_sta or     *)
(* del_sta on the address it carries.                                      *)
LEMMA StaChange ==
    ASSUME IInv, [Next]_vars
    PROVE  \/ sta' = sta
           \/ \E a \in Stations : NewSta(a) \/ DelSta(a)
<1>1. CASE IweStep
    <2>1. CASE ipos + IW_EV_LCP_LEN > iend
        BY <1>1, <2>1 DEF IweStep
    <2>2. CASE ~(ipos + IW_EV_LCP_LEN > iend)
        <3>1. PICK w \in Reads("iwe", ipos) :
                \/ UNCHANGED sta
                \/ IF sta[w.addr].present THEN DelSta(w.addr) ELSE UNCHANGED sta
                \/ IF NewStaFull(w.addr) THEN UNCHANGED sta ELSE NewSta(w.addr)
            BY <1>1, <2>2 DEF IweStep
        <3>2. w.addr \in Stations
            BY ReadsTyped DEF IInv, TypeOK, IweHeaders
        <3>3. QED
            BY <3>1, <3>2
    <2>3. QED
        BY <2>1, <2>2
<1>2. CASE ~IweStep
    BY <1>2 DEF Next, Receive, NlStep, AttrStep, vars
<1>3. QED
    BY <1>1, <1>2

(* Every step keeps AssocStepOK.                                           *)
LEMMA AssocStep == IInv /\ [Next]_vars => AssocStepOK
<1> SUFFICES ASSUME IInv, [Next]_vars PROVE AssocStepOK
    OBVIOUS
<1>1. sta \in [Stations -> StaEntries]
    BY DEF IInv, TypeOK, StaEntries
<1>2. CASE sta' = sta
    BY <1>2 DEF AssocStepOK
<1>3. CASE \E a \in Stations : NewSta(a)
    BY <1>1, <1>3, NewStaAssoc
<1>4. CASE \E a \in Stations : DelSta(a)
    BY <1>4 DEF DelSta, NoSta, AssocStepOK
<1>5. QED
    BY <1>2, <1>3, <1>4, StaChange

(* With WPA on and outside a JUMPSTART build's P1 mode, madwifi_new_sta    *)
(* marks a station associated only after madwifi_process_wpa_ie has        *)
(* fetched, validated and stored its IE, in every run over any datagrams.  *)
THEOREM AssocNeedsValidIeHolds == Spec => AssocNeedsValidIe
<1>1. IInv /\ [Next]_vars => [AssocStepOK]_vars
    BY AssocStep
<1>2. QED
    BY <1>1, IInvHolds, PTL DEF Spec, AssocNeedsValidIe, AssocStepOK
=============================================================================
