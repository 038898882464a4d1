-------------------------- MODULE MC_MadwifiEvents --------------------------
(* Datagrams built as the kernel's rtnetlink writes them, on a 32-bit       *)
(* big-endian target; two stations, one table slot; a JUMPSTART build.      *)
EXTENDS MadwifiEvents, TLC

CONSTANTS s1, s2

MCStations == {s1, s2}
MCOwn == 3
MCOther == 4

\* The headers rtnetlink writes: nlmsghdr, ifinfomsg, rtattr, and an
\* iw_event (20 bytes for an address event, IW_EV_POINT_LEN plus the text
\* for a custom one).
Nlh(l, t) == [kind |-> "nlh", nlmsg_len |-> l, nlmsg_type |-> t]
Ifi(i) == [kind |-> "ifi", ifi_index |-> i]
Rta(l, t) == [kind |-> "rta", rta_len |-> l, rta_type |-> t]
Iwe(c, s, d) == [kind |-> "iwe", cmd |-> c, addr |-> s, dlen |-> d,
                 len |-> IF c = "CUSTOM" THEN IW_EV_POINT_LEN + d ELSE 20]
IfName == 3
NewAddr == 20

\* Four datagrams, laid out at their byte offsets (messages and attributes
\* padded to 4 bytes): "events" are the offsets of the wireless events of
\* RTM_NEWLINKs for our own interface.
\*  1. NEWLINK(us) { IFNAME(5 bytes), WIRELESS { REGISTERED s1 } }
\*  2. NEWADDR, NEWLINK(us) { WIRELESS { EXPIRED s1, REGISTERED s1 } }
\*  3. NEWLINK(us) { WIRELESS { REGISTERED s2, CUSTOM(8 bytes) } }, NEWADDR
\*  4. NEWLINK(other) { WIRELESS { EXPIRED s2 } },
\*     NEWLINK(us) { WIRELESS { EXPIRED s2 } }
MCDatagrams ==
    { [len |-> 68, events |-> {48},
       at |-> 0 :> Nlh(68, RTM_NEWLINK) @@ 16 :> Ifi(MCOwn)
              @@ 32 :> Rta(9, IfName) @@ 44 :> Rta(24, IFLA_WIRELESS)
              @@ 48 :> Iwe("REGISTERED", s1, 0)],
      [len |-> 100, events |-> {60, 80},
       at |-> 0 :> Nlh(24, NewAddr) @@ 24 :> Nlh(76, RTM_NEWLINK)
              @@ 40 :> Ifi(MCOwn) @@ 56 :> Rta(44, IFLA_WIRELESS)
              @@ 60 :> Iwe("EXPIRED", s1, 0) @@ 80 :> Iwe("REGISTERED", s1, 0)],
      [len |-> 100, events |-> {36, 56},
       at |-> 0 :> Nlh(76, RTM_NEWLINK) @@ 16 :> Ifi(MCOwn)
              @@ 32 :> Rta(44, IFLA_WIRELESS) @@ 36 :> Iwe("REGISTERED", s2, 0)
              @@ 56 :> Iwe("CUSTOM", s1, 8) @@ 76 :> Nlh(24, NewAddr)],
      [len |-> 112, events |-> {92},
       at |-> 0 :> Nlh(56, RTM_NEWLINK) @@ 16 :> Ifi(MCOther)
              @@ 32 :> Rta(24, IFLA_WIRELESS) @@ 36 :> Iwe("EXPIRED", s2, 0)
              @@ 56 :> Nlh(56, RTM_NEWLINK) @@ 72 :> Ifi(MCOwn)
              @@ 88 :> Rta(24, IFLA_WIRELESS) @@ 92 :> Iwe("EXPIRED", s2, 0)] }

\* WPA off, WPA on, and WPA on in a JUMPSTART build's P1 mode.
MCConfs == {[wpa |-> FALSE, jsP1 |-> FALSE], [wpa |-> TRUE, jsP1 |-> FALSE],
            [wpa |-> TRUE, jsP1 |-> TRUE]}

\* Unwritten bytes: zeroes, or a header some datagram left in the buffer.
Left(k) == UNION {{d.at[p] : p \in {q \in DOMAIN d.at : d.at[q].kind = k}} : d \in MCDatagrams}
MCStaleNlh == {[kind |-> "nlh", nlmsg_len |-> 0, nlmsg_type |-> 0]} \cup Left("nlh")
MCStaleIfi == {[kind |-> "ifi", ifi_index |-> 0]} \cup Left("ifi")
MCStaleRta == {[kind |-> "rta", rta_len |-> 0, rta_type |-> 0]} \cup Left("rta")
MCStaleIwe == {[kind |-> "iwe", len |-> 0, cmd |-> "OTHER", addr |-> s1, dlen |-> 0]}
              \cup Left("iwe")
=============================================================================
