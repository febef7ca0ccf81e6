------------------------------- MODULE Packets -------------------------------
(***************************************************************************)
(* What is on the wire (src/user/sm.cpp): the frames that the program      *)
(* builds, rewrites and accepts, with their lengths, byte order and        *)
(* checksums, followed on two journeys:                                    *)
(*                                                                         *)
(*   an advert of node "peer"; a probe that node "self" sends to a server  *)
(*   it read from the advert, itself or through the peer; its reply        *)
(*   a ping of the peer to a server and the server's answer                *)
(*                                                                         *)
(* Octets are numbers below 256; a field of two octets is a pair and an    *)
(* address a quadruple, in network order, and a little-endian host loads   *)
(* them without ntohs in the other order.  A written address is the        *)
(* sequence of its parts, Empty where nothing stands between two dots.     *)
(* What the tables make of an advert is the subject of RouteTable; what    *)
(* happens to a reply that another branch of processFrame takes, and which *)
(* ports are given twice, that of ProbeRelay.                              *)
(***************************************************************************)
EXTENDS Integers, Sequences, FiniteSets

CONSTANTS
  Addrs,      \* the addresses of the interfaces
  Servers,    \* the addresses of the servers
  Measured,   \* the measurements [rtt, sent, received] of a server
  MaxRows,    \* bound: the servers of the peer
  Ports,      \* the values of src_port, an int, when a probe is sent or relayed
  SeqIds,     \* the sequence numbers of pings
  Noise       \* the octets that the network may put in the place of others

Octets == 0 .. 255
Quads == Octets \X Octets \X Octets \X Octets
W == 65536
INF == W - 1
Empty == -1

ASSUME PacketAssumption ==
  /\ Addrs \subseteq Quads /\ Servers \subseteq Quads
  /\ Measured \subseteq [rtt : 0 .. INF, sent : 1 .. INF, received : 0 .. INF]
  /\ MaxRows \in 0 .. 5000
  /\ Ports \subseteq Nat /\ \A port \in Ports : port >= 8000
  /\ SeqIds \subseteq 0 .. W - 1 /\ Noise \subseteq Octets

VARIABLES
  iface,   \* the addresses of interfaces 0 and 1 of the two nodes
  rows,    \* the own servers of the peer
  at,      \* where the journey is: what is on the wire, or what was reached
  frame,   \* the last frame
  table,   \* the servers that self reads from the advert
  src_port, \* src_port of the two nodes
  target,  \* history: the server that a probe or ping is meant for
  left,    \* history: the address and port that the probe left from
  nat,     \* the relay's entry: its own port, the address and port of the probe
  carried, \* history: the sum of a header that was built carries twice
  hurt     \* history: where the network changed an octet of the frame

vars == <<iface, rows, at, frame, table, src_port, target, left, nat, carried,
          hurt>>
config == <<iface, rows>>

\* Lengths: of the headers of Ethernet, IP, UDP and ICMP, an advert's entry
\* and its padding, the payload of a probe.
EtherSize == 14
IpSize == 20
UdpHeader == 8
UDP_SIZE == EtherSize + IpSize + UdpHeader
ICMP_SIZE == EtherSize + IpSize + 12
EntrySize == 12
Padding == 4
UDP == 17
ICMP == 1

htons(n) == <<(n \div 256) % 256, n % 256>>
ntohs(b) == b[1] * 256 + b[2]
Raw(b)   == b[1] + b[2] * 256

-----------------------------------------------------------------------------
(* Checksums.                                                              *)

\* The ten words of a header: version and length, ip_len, ip_id, ip_off, ttl
\* and protocol, ip_sum, the addresses.
Sum(h) == 69 + Raw(h.len) + Raw(<<64, h.p>>) + Raw(h.sum)
          + Raw(<<h.src[1], h.src[2]>>) + Raw(<<h.src[3], h.src[4]>>)
          + Raw(<<h.dst[1], h.dst[2]>>) + Raw(<<h.dst[3], h.dst[4]>>)

\* The carry of a sum is added once; the result may be W or more.
FoldOnce(n) == (n \div W) + (n % W)

\* (q + reminder) ^ 0xFFFF, returned as a uint16_t.
Complement(n) == W - 1 - (n % W)

\* Mutant: the carry is dropped.
CheckSumNoCarry(h) == Complement(Sum(h))

check_sum_ip(h) == Complement(FoldOnce(Sum(h)))

\* Mutant: the carries are not added.
IcmpUnfolded(n) == Complement(n)

\* check_sum_icmp, of the sum of its six words: both carries are added.
IcmpFold(n) == Complement(FoldOnce(n) + (FoldOnce(n) \div W))

\* RFC 1071, as the servers check it: the sum, checksum included, is a multiple
\* of 2^16 - 1.
Right(n) == n > 0 /\ n % (W - 1) = 0

\* The stored bytes of a checksum, which is computed and stored without htons.
Store(n) == <<n % 256, n \div 256>>
Signed(h) == [h EXCEPT !.sum = Store(check_sum_ip([h EXCEPT !.sum = <<0, 0>>]))]
CarriesTwice(h) == FoldOnce(Sum([h EXCEPT !.sum = <<0, 0>>])) >= W

-----------------------------------------------------------------------------
(* Addresses.                                                              *)

\* Mutant: the octets come out in the order they are taken off.
StrBackwards(u) == [i \in 1 .. 4 |-> u[5 - i]]

\* The loop ends when what is left of the address is 0.
ipUint_into_str(u) ==
  [i \in 1 .. 4 |-> IF \A j \in 1 .. i : u[j] = 0 THEN Empty ELSE u[i]]

\* Each dot shifts the sum by an octet; an empty part adds nothing.
ip_into_uint(str) ==
  <<IF str[1] = Empty THEN 0 ELSE str[1], IF str[2] = Empty THEN 0 ELSE str[2],
    IF str[3] = Empty THEN 0 ELSE str[3], IF str[4] = Empty THEN 0 ELSE str[4]>>

is_server_valid(str) == \E k \in 1 .. Len(table) : table[k].str = str

-----------------------------------------------------------------------------
(* Frames.                                                                 *)

\* set_ip_header, with the bytes behind the header.
set_ip_header(src, dst, p, size) ==
  Signed([len |-> htons(IpSize + size), p |-> p, sum |-> <<0, 0>>,
          src |-> src, dst |-> dst])

NoUdp == [src |-> <<0, 0>>, dst |-> <<0, 0>>, len |-> <<0, 0>>]
NoIcmp == [type |-> 0, seq |-> <<0, 0>>, sum |-> 0]

UdpFrame(ip, sport, dport, size, data) ==
  [ip |-> ip, length |-> UDP_SIZE + size, data |-> data, icmp |-> NoIcmp,
   udp |-> [src |-> htons(sport), dst |-> htons(dport),
            len |-> htons(UdpHeader + size)]]

\* advertise_data and send_advertise_packet: the servers that are reachable, in
\* the order of their rows.  Rank is the loop's offset behind row k, in entries.
Up == {k \in DOMAIN rows : rows[k].rtt # INF}
Rank(k) == Cardinality({j \in Up : j <= k})
AdvertEntry(r) ==
  [ip |-> r.ip, rtt |-> <<0, 0, htons(r.rtt)[1], htons(r.rtt)[2]>>,
   sent |-> htons(r.sent), received |-> htons(r.received)]
Entries == [i \in 1 .. Cardinality(Up) |->
              AdvertEntry(rows[CHOOSE k \in Up : Rank(k) = i])]
Broadcast == <<255, 255, 255, 255>>
AdvertFrame ==
  LET size == EntrySize * Len(Entries) + Padding
  IN UdpFrame(set_ip_header(iface["peer"][0], Broadcast, UDP, UdpHeader + size),
              5000, 5000, size, Entries)

\* send_udp_packet: interface 1 leads to the gateway, interface 0 to the peers.
ProbeFrame(i, dst, sport, dport) ==
  UdpFrame(set_ip_header(iface["self"][i], dst, UDP, UdpHeader + 4),
           sport, dport, 4, <<>>)

\* set_icmp_header_in_ping_packet and send_icmp_packet: type 8, a sequence
\* number, the payload 0x12345678.
IcmpSum(type, seq, sum) == Raw(<<type, 0>>) + sum + Raw(seq) + Raw(<<18, 52>>)
                           + Raw(<<86, 120>>)
PingFrame(dst, seq) ==
  [ip |-> set_ip_header(iface["peer"][1], dst, ICMP, 12), length |-> ICMP_SIZE,
   data |-> <<>>, udp |-> NoUdp,
   icmp |-> [type |-> 8, seq |-> htons(seq),
             sum |-> IcmpFold(IcmpSum(8, htons(seq), 0))]]

\* Mutant: the checksum of the header is not looked at.
AnyHeader(f) == TRUE

HeaderAccepted(f) == check_sum_ip(f.ip) = 0

is_valid_packet(f) ==
  /\ f.length = ntohs(f.ip.len) + EtherSize
  /\ HeaderAccepted(f) /\ f.ip.p \in {UDP, ICMP}
  /\ f.ip.p = UDP => /\ f.length >= UDP_SIZE
                     /\ ntohs(f.udp.len) = ntohs(f.ip.len) - IpSize
  /\ f.ip.p = ICMP => f.length >= ICMP_SIZE /\ f.icmp.type = 0

\* Mutants: the loop reads up to the end; only one counter is converted.
TurnsToEnd(size) == {k \in 1 .. size : EntrySize * (k - 1) < size}
RateHalfConverted(e) == <<Raw(e.received), ntohs(e.sent)>>

\* receive_advertise_data: the turns of its loop, which ends at the padding,
\* and the rate, from the two counters as they lie in the frame.
Turns(size) == {k \in 1 .. size : EntrySize * (k - 1) < size - Padding}
RateOf(e) == <<Raw(e.received), Raw(e.sent)>>

\* What is read behind the entries is nobody's address.
Garbage == [ip |-> <<0, 0, 0, 0>>, rtt |-> <<0, 0, 0, 0>>, sent |-> <<0, 0>>,
            received |-> <<0, 0>>]
receive_advertise_data(f) ==
  [k \in Turns(f.length - UDP_SIZE) |->
     LET e == IF k \in DOMAIN f.data THEN f.data[k] ELSE Garbage
     IN [ip |-> e.ip, str |-> ipUint_into_str(e.ip),
         rtt |-> ntohs(<<e.rtt[3], e.rtt[4]>>), rate |-> RateOf(e)]]

-----------------------------------------------------------------------------
(* The branches of processFrame.                                           *)

DstPort(f) == ntohs(f.udp.dst)
IsEcho(f)   == f.ip.p = ICMP
IsAdvert(f) == f.ip.p = UDP /\ DstPort(f) = 5000
IsProbe(f)  == f.ip.p = UDP /\ DstPort(f) \in {1000, 2000}

\* Mutant: src_port is compared as the 16 bits that are on the wire.
ForPortShort(n, f) ==
  /\ f.ip.p = UDP
  /\ DstPort(f) >= 8000 /\ DstPort(f) < src_port[n] % W

\* A port that node n may have given to a probe.
ForPort(n, f) ==
  /\ f.ip.p = UDP
  /\ DstPort(f) >= 8000 /\ DstPort(f) < src_port[n]

\* The branch that a frame is meant for where it arrives.  The relay has the
\* entry of this probe, self has none.
Awaited(place, f) ==
  \/ place = "advert" /\ IsAdvert(f)
  \/ place = "probe" /\ IsProbe(f)
  \/ place = "reply" /\ ForPort("peer", f) /\ DstPort(f) = nat.port
  \/ place = "back" /\ ForPort("self", f)
  \/ place = "echo" /\ IsEcho(f)

-----------------------------------------------------------------------------
(* The journeys.                                                           *)

NoFrame == [ip |-> [len |-> <<0, 0>>, p |-> 0, sum |-> <<0, 0>>,
                    src |-> Broadcast, dst |-> Broadcast],
            length |-> 0, data |-> <<>>, udp |-> NoUdp, icmp |-> NoIcmp]

Row == {[ip |-> s, rtt |-> m.rtt, sent |-> m.sent, received |-> m.received] :
          s \in Servers, m \in Measured}

NoPort == -1

Init ==
  /\ iface \in [{"self", "peer"} -> [0 .. 1 -> Addrs]]
  /\ rows \in UNION {[1 .. k -> Row] : k \in 0 .. MaxRows}
  /\ at = "start" /\ frame = NoFrame /\ table = <<>> /\ target = Broadcast
  /\ src_port = [n \in {"self", "peer"} |-> 8000]
  /\ left = <<Broadcast, NoPort>>
  /\ nat = [port |-> NoPort, ip |-> Broadcast, src |-> <<0, 0>>]
  /\ carried = FALSE /\ hurt = "no"

\* A frame built or rewritten here goes out.
Sent(f, to) ==
  /\ frame' = f /\ at' = to /\ carried' = (carried \/ CarriesTwice(f.ip))
  /\ UNCHANGED <<config, hurt>>

\* A frame arrives: is_valid_packet drops it, the branch it is meant for takes
\* it, or another branch, or none, does.
Arrives(from) ==
  at = from /\ is_valid_packet(frame) /\ Awaited(from, frame)

Drop ==
  /\ at \in {"advert", "probe", "reply", "back", "echo"}
  /\ ~is_valid_packet(frame)
  /\ at' = "dropped"
  /\ UNCHANGED <<config, frame, table, src_port, target, left, nat, carried,
                 hurt>>

Stray ==
  /\ at \in {"advert", "probe", "reply", "back", "echo"}
  /\ is_valid_packet(frame) /\ ~Awaited(at, frame)
  /\ at' = "strayed"
  /\ UNCHANGED <<config, frame, table, src_port, target, left, nat, carried,
                 hurt>>

SendAdvert ==
  /\ at = "start"
  /\ Sent(AdvertFrame, "advert")
  /\ UNCHANGED <<table, src_port, target, left, nat>>

ReceiveAdvert ==
  /\ Arrives("advert")
  /\ table' = receive_advertise_data(frame) /\ at' = "learned"
  /\ UNCHANGED <<config, frame, src_port, target, left, nat, carried, hurt>>

\* dsa and lsa with an address as the tables show it, under the port that the
\* probes so far have raised src_port to.
TypeProbe(k, i, port, dport) ==
  /\ at = "learned" /\ k \in DOMAIN table
  /\ is_server_valid(table[k].str)
  /\ Sent(ProbeFrame(i, ip_into_uint(table[k].str), port, dport),
          IF i = 0 THEN "probe" ELSE "direct")
  /\ src_port' = [src_port EXCEPT !["self"] = port + 1]
  /\ target' = table[k].ip /\ left' = <<iface["self"][i], port % W>>
  /\ UNCHANGED <<table, nat>>

\* processFrame: a probe under a port of the relay, with its address 1.
RelayProbe(port) ==
  /\ Arrives("probe")
  /\ nat' = [port |-> port % W, ip |-> frame.ip.src, src |-> frame.udp.src]
  /\ src_port' = [src_port EXCEPT !["peer"] = port + 1]
  /\ Sent([frame EXCEPT !.udp.src = htons(port),
                        !.ip = Signed([@ EXCEPT !.src = iface["peer"][1]])],
          "relayed")
  /\ UNCHANGED <<table, target, left>>

\* processFrame: a reply to a relayed probe, for the address and port it had.
RelayReply ==
  /\ Arrives("reply")
  /\ Sent([frame EXCEPT !.udp.dst = htons(ntohs(nat.src)),
                        !.ip = Signed([@ EXCEPT !.dst = nat.ip])], "back")
  /\ UNCHANGED <<table, src_port, target, left, nat>>

ShowReply ==
  /\ Arrives("back")
  /\ at' = "shown"
  /\ UNCHANGED <<config, frame, table, src_port, target, left, nat, carried,
                 hurt>>

SendPing(k, seq) ==
  /\ at = "start" /\ k \in DOMAIN rows
  /\ Sent(PingFrame(rows[k].ip, seq), "ping")
  /\ target' = rows[k].ip
  /\ UNCHANGED <<table, src_port, left, nat>>

ReceivePing ==
  /\ Arrives("echo")
  /\ at' = "measured"
  /\ UNCHANGED <<config, frame, table, src_port, target, left, nat, carried,
                 hurt>>

\* A server answers a frame whose header is right, and a ping whose ICMP
\* checksum is, with right ones; the sum of a header stays right with the
\* addresses exchanged.
Back(h) == [h EXCEPT !.src = h.dst, !.dst = h.src]
Answer(from, to, asked, f) ==
  /\ at = from
  /\ \/ asked /\ frame' = f /\ at' = to
     \/ ~asked /\ at' = "dropped" /\ UNCHANGED frame
  /\ UNCHANGED <<config, table, src_port, target, left, nat, carried, hurt>>

ServerReplies(from, to) ==
  Answer(from, to, Right(Sum(frame.ip)),
         [frame EXCEPT !.ip = Back(@), !.udp.src = frame.udp.dst,
                       !.udp.dst = frame.udp.src])
IcmpRightIn(c) == Right(IcmpSum(c.type, c.seq, c.sum))
ServerEchoes ==
  Answer("ping", "echo", Right(Sum(frame.ip)) /\ IcmpRightIn(frame.icmp),
         [frame EXCEPT !.ip = Back(@), !.icmp.type = 0])

\* The frames that a header, an entry of an advert, or what is behind the IP
\* header becomes when the network puts octet o in the place of another.
HeaderChanges(h, o) ==
  {[h EXCEPT !.p = o]}
  \cup {[h EXCEPT !.len[i] = o] : i \in 1 .. 2}
  \cup {[h EXCEPT !.sum[i] = o] : i \in 1 .. 2}
  \cup {[h EXCEPT !.src[i] = o] : i \in 1 .. 4}
  \cup {[h EXCEPT !.dst[i] = o] : i \in 1 .. 4}
EntryChanges(e, o) ==
  {[e EXCEPT !.ip[i] = o] : i \in 1 .. 4}
  \cup {[e EXCEPT !.rtt[i] = o] : i \in 1 .. 4}
  \cup {[e EXCEPT !.sent[i] = o] : i \in 1 .. 2}
  \cup {[e EXCEPT !.received[i] = o] : i \in 1 .. 2}
UdpChanges(u, o) ==
  {[u EXCEPT !.src[i] = o] : i \in 1 .. 2}
  \cup {[u EXCEPT !.dst[i] = o] : i \in 1 .. 2}
  \cup {[u EXCEPT !.len[i] = o] : i \in 1 .. 2}
IcmpChanges(c, o) ==
  {[c EXCEPT !.type = o]} \cup {[c EXCEPT !.seq[i] = o] : i \in 1 .. 2}

\* The network changes an octet of a field that the frames have here.
Corrupt(o) ==
  /\ at \in {"advert", "probe", "direct", "relayed", "reply", "back", "ping",
            "echo"}
  /\ hurt = "no"
  /\ \/ /\ \E h \in HeaderChanges(frame.ip, o) \ {frame.ip} :
               frame' = [frame EXCEPT !.ip = h]
        /\ hurt' = "header"
     \/ /\ \/ /\ at \notin {"ping", "echo"}
              /\ \E u \in UdpChanges(frame.udp, o) \ {frame.udp} :
                   frame' = [frame EXCEPT !.udp = u]
           \/ /\ at \in {"ping", "echo"}
              /\ \E c \in IcmpChanges(frame.icmp, o) \ {frame.icmp} :
                   frame' = [frame EXCEPT !.icmp = c]
           \/ \E k \in DOMAIN frame.data :
                \E e \in EntryChanges(frame.data[k], o) \ {frame.data[k]} :
                  frame' = [frame EXCEPT !.data[k] = e]
        /\ hurt' = "body"
  /\ UNCHANGED <<config, at, table, src_port, target, left, nat, carried>>

Next ==
  \/ SendAdvert \/ ReceiveAdvert \/ Drop \/ Stray \/ ShowReply \/ RelayReply
  \/ \E k \in 1 .. MaxRows, i \in 0 .. 1, p \in Ports, d \in {1000, 2000} :
       TypeProbe(k, i, p, d)
  \/ \E p \in Ports : RelayProbe(p)
  \/ \E k \in 1 .. MaxRows, q \in SeqIds : SendPing(k, q)
  \/ ReceivePing \/ ServerEchoes
  \/ ServerReplies("direct", "back") \/ ServerReplies("relayed", "reply")
  \/ \E o \in Noise : Corrupt(o)

Spec == Init /\ [][Next]_vars

-----------------------------------------------------------------------------
(* Properties.                                                             *)

\* A frame is dropped by is_valid_packet, or by a server, only if an octet of it
\* changed or its sender's check_sum_ip ran into a second carry; and the branch
\* of processFrame that it is meant for takes it, unless it is a reply to a port
\* that wrapped below 8000: the lengths, protocols, ports and checksums that one
\* handler writes are those the next one asks for, src_port being an int.
DroppedOnlyAtCarry ==
  hurt = "no" =>
    /\ at = "dropped" => carried
    /\ at = "strayed" =>
         DstPort(frame) < 8000 /\ DstPort(frame) \in {left[2], nat.port}

\* A frame with a changed octet in its IP header gets past is_valid_packet on no
\* node, whichever field it is in.  What is behind that header may change
\* unnoticed: no checksum of UDP or ICMP is looked at.
ChangeNoticed ==
  hurt = "header" /\ ~carried =>
    at \notin {"learned", "shown", "measured", "strayed"}

\* An advert brings every reachable server of its sender, in order, with its
\* address and delay, and nothing else: the loop of receive_advertise_data ends
\* at the padding.
AdvertArrives ==
  at = "learned" /\ hurt = "no" =>
    /\ DOMAIN table = 1 .. Cardinality(Up)
    /\ \A k \in Up : /\ table[Rank(k)].ip = rows[k].ip
                     /\ table[Rank(k)].rtt = rows[k].rtt

\* A probe for an address as dtable shows it goes to the server that was
\* advertised, through ipUint_into_str, ip_into_uint and the relay's rewriting,
\* and the reply comes back to the interface and port the probe left from.
ProbeKeepsAddress ==
  hurt = "no" =>
    /\ at \in {"probe", "direct", "relayed"} => frame.ip.dst = target
    /\ at = "reply" => frame.ip.src = target
    /\ at = "shown" => /\ frame.ip.src = target /\ frame.ip.dst = left[1]
                       /\ DstPort(frame) = left[2]

\* A ping leaves with the ICMP checksum that a server asks for.
PingChecksumRight ==
  at = "ping" /\ hurt # "body" => IcmpRightIn(frame.icmp)

SameRate(k) == LET rate == table[Rank(k)].rate
               IN rate[1] * rows[k].sent = rows[k].received * rate[2]

\* The loss rate that self computes for a server is the peer's own, as long as
\* both counters are below 256.
SmallRateArrives ==
  at = "learned" /\ hurt = "no" =>
    \A k \in Up : rows[k].sent < 256 /\ rows[k].received < 256 => SameRate(k)

\* "this method receive advertise data from another node and updates itself
\* information!" (sm.cpp:451): the loss rate of an advert is its sender's.
RateArrives == at = "learned" /\ hurt = "no" => \A k \in Up : SameRate(k)
=============================================================================
