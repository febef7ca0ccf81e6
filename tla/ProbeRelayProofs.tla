-------------------------- MODULE ProbeRelayProofs ---------------------------
(* Proofs about ProbeRelay, for any number of nodes and probes and any range  *)
(* of ports, also when the ports come round and are given again.              *)
(*                                                                            *)
(* The owner history names the probe a port was last given to.  What a packet *)
(* or an entry of nat or sent_times says of a port stays true until the port  *)
(* is given again (PortsStay), and then both probes are `shared`: so for a    *)
(* probe that is not, each of them can be read at any later step as belonging *)
(* to it (OwnerInv, NetInv, TimeInv).  That gives the sender of a reply and   *)
(* the time of a probe.  For the crash, the argument goes through the adverts:*)
(* a node uses a hop only after it has announced itself to every peer, so a   *)
(* relay that does not know where to send the answer has an advert that is    *)
(* still under way, for ever perhaps, or is just being read (HopInv,          *)
(* RelayInv).                                                                 *)
EXTENDS ProbeRelay, TLAPS

\* A port that has not been given yet is free in every map.
FreshInv ==
  \A n \in Nodes, p \in Ports :
    owner[n][p] = None => nat[n][p] = None /\ sent_times[n][p] = None

\* A port without an entry in nat was taken for an own probe; one with a node
\* in its entry was taken for the probe that this node sent from the port there.
OwnerOK(n, p) ==
  owner[n][p] # None /\ owner[n][p] \notin shared =>
    /\ nat[n][p] = None => owner[n][p][1] = n
    /\ nat[n][p] # None /\ nat[n][p][1] \in Nodes =>
         owner[nat[n][p][1]][nat[n][p][2]] = owner[n][p]
OwnerInv == \A n \in Nodes, p \in Ports : OwnerOK(n, p)

\* A packet carries the port that its probe has at the node it comes from, or
\* at the node it is a reply to.
AdvertOK(p) == /\ p.from \in Nodes /\ p.to \in Nodes \ {p.from}
               /\ p = Advert(p.from, p.to)
ProbeOK(p) == /\ p.from \in Nodes /\ p.tag \in Tags
              /\ p.tag \notin shared => owner[p.from][p.port] = p.tag
ReplyOK(p) == /\ p.from = Server /\ p.tag \in Tags
              /\ p.tag \notin shared /\ p.to \in Nodes =>
                   owner[p.to][p.port] = p.tag
PacketOK(p) == /\ p.kind = "advert" => AdvertOK(p)
               /\ p.kind = "probe" => ProbeOK(p)
               /\ p.kind = "reply" => ReplyOK(p)

(* Every packet under way.                                                    *)
NetInv == \A p \in net : PacketOK(p)

\* During a command the run thread holds a port of its own.  It is the last one
\* given, unless a relayed probe has taken another one meanwhile.
Busy(n) == rpc[n] \in {"send", "time"}
Command(n) == <<n, probes[n]>>
RunOK(n) ==
  Busy(n) =>
    /\ Command(n) \in Tags /\ owner[n][TimePort(n)] # None
    /\ owner[n][rport[n]] # Command(n) =>
         Command(n) \in shared /\ owner[n][rport[n]] \in shared
    /\ nat[n][rport[n]] # None => Command(n) \in shared
    /\ rport[n] # TimePort(n) =>
         Command(n) \in raced /\ nat[n][TimePort(n)] # None
RunInv == \A n \in Nodes : RunOK(n)

\* The time of an own probe is its own or missing: because it was overtaken, or
\* because its command is not at its end.
TimeOK(n, p) ==
  owner[n][p] # None /\ owner[n][p] \notin shared /\ nat[n][p] = None =>
    \/ sent_times[n][p] = owner[n][p]
    \/ /\ sent_times[n][p] = None
       /\ owner[n][p] \in raced \/ (rpc[n] # "idle" /\ p = rport[n])
TimeInv == \A n \in Nodes, p \in Ports : TimeOK(n, p)

\* The adverts of m have arrived at n or are under way.
BeingRead(m, n) == mpc[n] # "idle" /\ msrc[n] = m
Known(m, n) == m \in ip_to_mac[n] \/ BeingRead(m, n)
Told(m, n) == Known(m, n) \/ Advert(m, n) \in net
Announced(m) == \A n \in Nodes \ {m} : Told(m, n)

\* Whoever uses a peer as a hop has announced itself to everybody before, and
\* has the peer's MAC address, or is just reading its advert.
HopOK(n) ==
  /\ ~Known(n, n)
  /\ \A m \in learning[n] \cup forward[n] : Known(m, n)
  /\ rhop[n] \in Nodes => Known(rhop[n], n) /\ Announced(n)
  /\ forward[n] # {} => Announced(n)
HopInv == \A n \in Nodes : HopOK(n)

\* So whoever has a probe relayed can be told of the answer, or an advert is
\* late.
PacketRelays(p) ==
  p.kind = "probe" /\ p.to \in Nodes \ {p.from} => Announced(p.from)
NatRelay(n, e) == e # None /\ e[1] \in Nodes \ {n} => Announced(e[1])
NatRelays == \A n \in Nodes, p \in Ports : NatRelay(n, nat[n][p])
RelayInv == (\A p \in net : PacketRelays(p)) /\ NatRelays

(* The two properties of what has been shown or stored.                       *)
ShownInv == RepliesReachSender /\ TimeIsOwn

(* The inductive invariant.                                                   *)
RInv == /\ TypeOK /\ FreshInv /\ OwnerInv /\ NetInv /\ RunInv /\ TimeInv
        /\ HopInv /\ RelayInv /\ ShownInv /\ CrashNeedsMissingAdvert

(* Every number of the counter goes on the wire as a port.                    *)
LEMMA PortType ==
  ASSUME NEW i \in Int
  PROVE Wire(i) \in Ports
BY RelayAssumption DEF Wire, Ports

(* The probes of a node are numbered up to its bound.                         *)
LEMMA TagType ==
  ASSUME NEW n \in Nodes, NEW k \in Nat
  PROVE <<n, k>> \in Tags <=> k \in 1 .. MaxProbes[n]
BY RelayAssumption DEF Tags

(* The absence of a probe or of an entry is none of them.                     *)
LEMMA TagNone ==
  None \notin Tags /\ None \notin (Nodes \cup {Server}) \X Ports
BY RelayAssumption

(* The packets that the type invariant allows in the network.                 *)
PacketSet == [kind : {"advert", "probe", "reply"}, from : Nodes \cup {Server},
              to : Nodes \cup {Server}, port : Ports, tag : Tags \cup {None}]

(* What the handlers send are such packets.                                   *)
LEMMA PacketType ==
  ASSUME NEW n \in Nodes, NEW m \in Nodes \cup {Server}, NEW q \in Ports
  PROVE /\ Advert(n, m) \in PacketSet
        /\ \A t \in Tags : /\ Probe(n, m, q, t) \in PacketSet
                           /\ Reply(m, q, t) \in PacketSet
BY RelayAssumption DEF Advert, Probe, Reply, Ports, PacketSet

(* Whatever is handled as a probe belongs to one.                             *)
LEMMA ProbeTag ==
  ASSUME TypeOK, NetInv, NEW p \in net, p.kind # "advert"
  PROVE /\ p.tag \in Tags /\ p.port \in Ports
        /\ p.from \in Nodes \cup {Server} /\ p.to \in Nodes \cup {Server}
BY DEF TypeOK, NetInv, PacketOK, ProbeOK, ReplyOK

(* The state of the ports, and the steps that change it.                      *)
PortState == <<src_port, nat, sent_times, run, probes, owner, shared, raced>>
LEMMA PortSteps ==
  ASSUME [Next]_vars
  PROVE \/ \E n \in Nodes, h \in Nodes \cup {Server} : TakePort(n, h)
        \/ \E n \in Nodes : SendProbe(n) \/ StoreTime(n)
        \/ \E n \in Nodes, p \in net : RelayProbe(n, p) \/ RelayReply(n, p)
                                       \/ ShowReply(n, p)
        \/ UNCHANGED PortState
<1>1. ASSUME NEW n \in Nodes,
             Advertise(n) \/ AdvertEntry(n) \/ LockForever(n) \/ StoreMac(n)
      PROVE UNCHANGED PortState
  BY <1>1
  DEF PortState, Advertise, AdvertEntry, LockForever, StoreMac, run, history
<1>2. ASSUME NEW n \in Nodes, NEW p \in net,
             ReceiveAdvert(n, p) \/ IgnoreReply(n, p)
      PROVE UNCHANGED PortState
  BY <1>2 DEF PortState, ReceiveAdvert, IgnoreReply, run, history
<1>3. ASSUME NEW p \in net, ServerReplies(p) \/ Lose(p)
      PROVE UNCHANGED PortState
  BY <1>3 DEF PortState, ServerReplies, Lose, run, history
<1>4. CASE UNCHANGED vars BY <1>4 DEF PortState, vars, run, history
<1> QED BY <1>1, <1>2, <1>3, <1>4 DEF Next, RunNext, ReadAdvert, HandleFrame

(* Giving a port to a probe keeps the types of the histories.                 *)
LEMMA OwnType ==
  ASSUME TypeOK, NEW n \in Nodes, NEW t \in Tags, Own(n, t)
  PROVE /\ owner' \in [Nodes -> [Ports -> Tags \cup {None}]]
        /\ shared' \subseteq Tags
<1>1. Wire(src_port[n]) \in Ports BY PortType DEF TypeOK
<1> QED BY <1>1 DEF TypeOK, Own

(* The counter only grows.                                                    *)
LEMMA CounterType ==
  ASSUME TypeOK, NEW n \in Nodes, NextPort(n)
  PROVE /\ src_port' \in [Nodes -> Nat]
        /\ \A k \in Nodes : FirstPort <= src_port'[k]
        /\ src_port'[n] = src_port[n] + 1
        /\ \A k \in Nodes \ {n} : src_port'[k] = src_port[k]
BY RelayAssumption DEF TypeOK, NextPort

(* Every step leaves each variable in its type.                               *)
LEMMA TypeStep ==
  ASSUME RInv, [Next]_vars
  PROVE TypeOK'
<1> USE RelayAssumption
<1>0. TypeOK /\ NetInv /\ RunInv BY DEF RInv
<1>a. net \subseteq PacketSet BY <1>0 DEF TypeOK, PacketSet
<1>b. ASSUME NEW n \in Nodes, Alive(n), Overtakes(n) PROVE raced' \subseteq Tags
  BY <1>0, <1>b DEF TypeOK, Overtakes, Alive, RunInv, RunOK, Busy, Command
<1>1. ASSUME NEW n \in Nodes, Advertise(n) PROVE TypeOK'
  <2>1. net' \subseteq net \cup {Advert(n, m) : m \in Nodes}
    BY <1>1 DEF Advertise, AdvertsOf
  <2>2. net' \subseteq PacketSet
    BY <1>a, <2>1 DEF PacketSet, Advert, Ports
  <2> QED
    BY <1>0, <1>1, <2>2 DEF TypeOK, Advertise, run, main, history, PacketSet
<1>2. ASSUME NEW n \in Nodes, NEW h \in Nodes \cup {Server}, TakePort(n, h)
      PROVE TypeOK'
  <2>1. Wire(src_port[n]) \in Ports BY <1>0, PortType DEF TypeOK
  <2>2. /\ probes'[n] = probes[n] + 1 /\ <<n, probes'[n]>> \in Tags
        /\ probes' \in [Nodes -> Nat]
        /\ \A k \in Nodes : probes'[k] <= MaxProbes[k]
    BY <1>0, <1>2, TagType DEF TypeOK, TakePort
  <2>3. /\ src_port' \in [Nodes -> Nat]
        /\ \A k \in Nodes : FirstPort <= src_port'[k]
    BY <1>0, <1>2, CounterType DEF TakePort
  <2>4. /\ owner' \in [Nodes -> [Ports -> Tags \cup {None}]]
        /\ shared' \subseteq Tags
    BY <1>0, <1>2, <2>2, OwnType DEF TakePort
  <2> QED
    BY <1>0, <1>2, <2>1, <2>2, <2>3, <2>4 DEF TypeOK, TakePort, maps, main
<1>3. ASSUME NEW n \in Nodes, SendProbe(n) PROVE TypeOK'
  <2>1. rport[n] \in Ports /\ rhop[n] \in Nodes \cup {Server}
    BY <1>0 DEF TypeOK
  <2>2. <<n, probes[n]>> \in Tags
    BY <1>0, <1>3 DEF RunInv, RunOK, Busy, Command, SendProbe
  <2>3. net' \subseteq net \cup {Probe(n, rhop[n], rport[n], <<n, probes[n]>>)}
    BY <1>3 DEF SendProbe
  <2>4. net' \subseteq PacketSet BY <1>a, <2>1, <2>2, <2>3, PacketType
  <2>5. rpc' \in [Nodes -> {"idle", "send", "time", "crashed"}]
    <3>1. \E s \in {"time", "crashed"} : rpc' = [rpc EXCEPT ![n] = s]
      BY <1>3 DEF SendProbe
    <3> QED BY <1>0, <3>1 DEF TypeOK
  <2> QED
    BY <1>0, <1>3, <2>4, <2>5
    DEF TypeOK, SendProbe, maps, main, history, PacketSet
<1>4. ASSUME NEW n \in Nodes, StoreTime(n) PROVE TypeOK'
  <2>1. TimePort(n) \in Ports BY <1>0, PortType DEF TypeOK, TimePort
  <2>2. <<n, probes[n]>> \in Tags
    BY <1>0, <1>4 DEF RunInv, RunOK, Busy, Command, StoreTime
  <2>3. sent_times' \in [Nodes -> [Ports -> Tags \cup {None}]]
    BY <1>0, <1>4, <2>1, <2>2 DEF TypeOK, StoreTime
  <2>4. rport' \in [Nodes -> Ports] BY <1>0, <1>4 DEF TypeOK, StoreTime, Ports
  <2> QED
    BY <1>0, <1>4, <2>3, <2>4 DEF TypeOK, StoreTime, maps, main, history
<1>5. ASSUME NEW n \in Nodes, AdvertEntry(n) \/ LockForever(n) \/ StoreMac(n)
      PROVE TypeOK'
  <2>1. /\ UNCHANGED <<src_port, nat, sent_times, forward, run, history>>
        /\ net' = net
    BY <1>5 DEF AdvertEntry, LockForever, StoreMac, maps
  <2>2. msrc[n] \in Nodes \cup {Server} BY <1>0 DEF TypeOK
  <2>3. /\ learning' \in [Nodes -> SUBSET Nodes]
        /\ ip_to_mac' \in [Nodes -> SUBSET (Nodes \cup {Server})]
        /\ mpc' \in [Nodes -> {"idle", "advert", "hung"}]
        /\ msrc' \in [Nodes -> Nodes \cup {Server}]
    <3>1. CASE AdvertEntry(n) BY <1>0, <3>1 DEF TypeOK, AdvertEntry, main
    <3>2. CASE LockForever(n) BY <1>0, <3>2 DEF TypeOK, LockForever, maps
    <3>3. CASE StoreMac(n) BY <1>0, <2>2, <3>3 DEF TypeOK, StoreMac
    <3> QED BY <1>5, <3>1, <3>2, <3>3
  <2> QED BY <1>0, <2>1, <2>3 DEF TypeOK, run, history
<1>6. ASSUME NEW p \in net, NEW n \in Nodes, ReceiveAdvert(n, p) PROVE TypeOK'
  <2>1. p.from \in Nodes \cup {Server} BY <1>0 DEF TypeOK
  <2> QED BY <1>0, <1>6, <2>1 DEF TypeOK, ReceiveAdvert, maps, run, history
<1>7. ASSUME NEW p \in net, NEW n \in Nodes, RelayProbe(n, p) PROVE TypeOK'
  <2>1. Wire(src_port[n]) \in Ports BY <1>0, PortType DEF TypeOK
  <2>2. p.tag \in Tags /\ p.port \in Ports /\ p.from \in Nodes \cup {Server}
    <3>1. p.kind # "advert" BY <1>7 DEF RelayProbe, IsProbe, ToPort
    <3> QED BY <1>0, <3>1, ProbeTag
  <2>3. Onward(n, p) \in Nodes \cup {Server} BY DEF Onward
  <2>4. net' \subseteq
          net \cup {Probe(n, Onward(n, p), Wire(src_port[n]), p.tag)}
    BY <1>7 DEF RelayProbe
  <2>5. net' \subseteq PacketSet BY <1>a, <2>1, <2>2, <2>3, <2>4, PacketType
  <2>6. raced' \subseteq Tags BY <1>b, <1>7 DEF RelayProbe, Handled
  <2>7. nat' \in
          [Nodes -> [Ports -> ((Nodes \cup {Server}) \X Ports) \cup {None}]]
    <3>1. SourcePorts(p) \subseteq Ports BY <2>2 DEF SourcePorts, Ports
    <3>2. PICK q \in SourcePorts(p) :
            nat' = [nat EXCEPT ![n][Wire(src_port[n])] = <<p.from, q>>]
      BY <1>7 DEF RelayProbe, Record
    <3>3. <<p.from, q>> \in (Nodes \cup {Server}) \X Ports BY <2>2, <3>1
    <3> QED BY <1>0, <2>1, <3>2, <3>3 DEF TypeOK
  <2>8. /\ owner' \in [Nodes -> [Ports -> Tags \cup {None}]]
        /\ shared' \subseteq Tags
    BY <1>0, <1>7, <2>2, OwnType DEF RelayProbe
  <2>9. /\ src_port' \in [Nodes -> Nat]
        /\ \A k \in Nodes : FirstPort <= src_port'[k]
    BY <1>0, <1>7, CounterType DEF RelayProbe
  <2> QED
    BY <1>0, <1>7, <2>5, <2>6, <2>7, <2>8, <2>9
    DEF TypeOK, RelayProbe, maps, run, main, PacketSet
<1>8. ASSUME NEW p \in net, NEW n \in Nodes, RelayReply(n, p) PROVE TypeOK'
  <2>1. p.tag \in Tags /\ p.port \in Ports
    BY <1>0, <1>8, ProbeTag DEF RelayReply, ForPort
  <2>2. nat[n][p.port] \in (Nodes \cup {Server}) \X Ports
    BY <1>0, <1>8, <2>1 DEF TypeOK, RelayReply
  <2>3. /\ net' \subseteq
             net \cup {Reply(nat[n][p.port][1], nat[n][p.port][2], p.tag)}
        /\ rpc' \in [Nodes -> {"idle", "send", "time", "crashed"}]
    BY <1>0, <1>8 DEF TypeOK, RelayReply
  <2>4. net' \subseteq PacketSet BY <1>a, <2>1, <2>2, <2>3, PacketType
  <2> QED
    BY <1>0, <1>8, <2>3, <2>4
    DEF TypeOK, RelayReply, maps, main, history, PacketSet
<1>9. ASSUME NEW p \in net, NEW n \in Nodes, ShowReply(n, p) PROVE TypeOK'
  <2>1. p.tag \in Tags /\ p.port \in Ports
    BY <1>0, <1>9, ProbeTag DEF ShowReply, ForPort
  <2>2. raced' \subseteq Tags BY <1>b, <1>9 DEF ShowReply, Handled
  <2>3. sent_times[n][p.port] \in Tags \cup {None} BY <1>0, <2>1 DEF TypeOK
  <2> QED
    BY <1>0, <1>9, <2>1, <2>2, <2>3 DEF TypeOK, ShowReply, maps, run, main
<1>10. ASSUME NEW p \in net, NEW n \in Nodes, IgnoreReply(n, p) PROVE TypeOK'
  BY <1>0, <1>10 DEF TypeOK, IgnoreReply, maps, run, main, history
<1>11. ASSUME NEW p \in net, ServerReplies(p) PROVE TypeOK'
  <2>1. p.from \in Nodes \cup {Server} /\ p.tag \in Tags /\ p.port \in Ports
    BY <1>0, <1>11, ProbeTag DEF ServerReplies
  <2>2. p.from \in Nodes
    BY <1>0, <1>11 DEF NetInv, PacketOK, ProbeOK, ServerReplies
  <2>3. net' \subseteq net \cup {Reply(p.from, p.port, p.tag)}
    BY <1>11 DEF ServerReplies
  <2>4. net' \subseteq PacketSet BY <1>a, <2>1, <2>2, <2>3, PacketType
  <2> QED
    BY <1>0, <1>11, <2>4
    DEF TypeOK, ServerReplies, maps, run, main, history, PacketSet
<1>12. ASSUME NEW p \in net, Lose(p) PROVE TypeOK'
  <2>1. p.tag \in Tags BY <1>0, <1>12, ProbeTag DEF Lose
  <2>2. lost' \subseteq Tags BY <1>0, <1>12, <2>1 DEF TypeOK, Lose
  <2> QED BY <1>0, <1>12, <2>2 DEF TypeOK, Lose, maps, run, main
<1>13. CASE UNCHANGED vars
  BY <1>0, <1>13 DEF TypeOK, vars, maps, run, main, history
<1> QED
  BY <1>1, <1>2, <1>3, <1>4, <1>5, <1>6, <1>7, <1>8, <1>9, <1>10, <1>11, <1>12,
     <1>13
  DEF Next, RunNext, ReadAdvert, HandleFrame

(* A port keeps its owner and its entry in nat, until it is given again: then *)
(* the owner that it had is one of the probes that share a port.  An owner or *)
(* an entry never disappears.                                                 *)
PortStays(k, q) ==
  /\ owner[k][q] # None =>
       /\ owner'[k][q] # None
       /\ \/ owner'[k][q] = owner[k][q] /\ nat'[k][q] = nat[k][q]
          \/ owner[k][q] \in shared' /\ owner'[k][q] \in shared'
  /\ nat[k][q] # None => nat'[k][q] # None
PortsStay == /\ shared \subseteq shared'
             /\ \A k \in Nodes, q \in Ports : PortStays(k, q)

(* A port is given to t, and its entry kept or written.                       *)
LEMMA GivenPort ==
  ASSUME RInv, NEW n \in Nodes, NEW t \in Tags, Own(n, t),
         \/ nat' = nat
         \/ \E e \in (Nodes \cup {Server}) \X Ports :
              nat' = [nat EXCEPT ![n][Wire(src_port[n])] = e]
  PROVE /\ PortsStay
        /\ Wire(src_port[n]) \in Ports /\ owner'[n][Wire(src_port[n])] = t
        /\ owner[n][Wire(src_port[n])] # None =>
             {t, owner[n][Wire(src_port[n])]} \subseteq shared'
        /\ \A k \in Nodes, q \in Ports : ~(k = n /\ q = Wire(src_port[n])) =>
             owner'[k][q] = owner[k][q] /\ nat'[k][q] = nat[k][q]
<1>0. TypeOK BY DEF RInv
<1>1. Wire(src_port[n]) \in Ports BY <1>0, PortType DEF TypeOK
<1>2. owner'[n][Wire(src_port[n])] = t /\ shared \subseteq shared'
  BY <1>0, <1>1 DEF TypeOK, Own
<1>3. owner[n][Wire(src_port[n])] # None =>
        {t, owner[n][Wire(src_port[n])]} \subseteq shared'
  BY DEF Own
<1>4. \A k \in Nodes, q \in Ports : ~(k = n /\ q = Wire(src_port[n])) =>
        owner'[k][q] = owner[k][q] /\ nat'[k][q] = nat[k][q]
  BY <1>0, <1>1 DEF TypeOK, Own
<1>5. nat[n][Wire(src_port[n])] # None => nat'[n][Wire(src_port[n])] # None
  BY <1>0, <1>1, TagNone DEF TypeOK
<1>6. ASSUME NEW k \in Nodes, NEW q \in Ports PROVE PortStays(k, q)
  <2>1. CASE k = n /\ q = Wire(src_port[n])
    BY <1>2, <1>3, <1>5, <2>1, TagNone DEF PortStays
  <2>2. CASE ~(k = n /\ q = Wire(src_port[n]))
    BY <1>4, <2>2 DEF PortStays
  <2> QED BY <2>1, <2>2
<1> QED BY <1>1, <1>2, <1>3, <1>4, <1>6 DEF PortsStay

(* What a relayed probe leaves in nat.                                        *)
LEMMA Recorded ==
  ASSUME RInv, NEW n \in Nodes, NEW p \in net, RelayProbe(n, p)
  PROVE /\ p.tag \in Tags /\ p.kind \in {"probe", "reply"}
        /\ \E e \in (Nodes \cup {Server}) \X Ports :
             /\ nat' = [nat EXCEPT ![n][Wire(src_port[n])] = e]
             /\ nat'[n][Wire(src_port[n])] = e /\ e # None
             /\ e[1] = p.from /\ (p.kind = "probe" => e[2] = p.port)
<1> USE RelayAssumption
<1>0. TypeOK /\ NetInv BY DEF RInv
<1>1. p.kind \in {"probe", "reply"} BY DEF RelayProbe, IsProbe, ToPort
<1>2. p.tag \in Tags /\ p.port \in Ports /\ p.from \in Nodes \cup {Server}
  BY <1>0, <1>1, ProbeTag
<1>3. PICK q \in SourcePorts(p) :
        nat' = [nat EXCEPT ![n][Wire(src_port[n])] = <<p.from, q>>]
  BY DEF RelayProbe, Record
<1>4. q \in Ports /\ (p.kind = "probe" => q = p.port)
  BY <1>2, <1>3 DEF SourcePorts, Ports
<1>5. PICK e \in (Nodes \cup {Server}) \X Ports : e = <<p.from, q>>
  BY <1>2, <1>4
<1>6. Wire(src_port[n]) \in Ports BY <1>0, PortType DEF TypeOK
<1>7. nat'[n][Wire(src_port[n])] = e BY <1>0, <1>3, <1>5, <1>6 DEF TypeOK
<1>8. e # None /\ e[1] = p.from /\ (p.kind = "probe" => e[2] = p.port)
  BY <1>4, <1>5, TagNone
<1> QED BY <1>1, <1>2, <1>3, <1>5, <1>7, <1>8

(* Only TakePort and RelayProbe give ports.                                   *)
LEMMA GivenPortsStay ==
  ASSUME RInv, [Next]_vars
  PROVE PortsStay
<1>0. TypeOK BY DEF RInv
<1>a. ASSUME UNCHANGED <<nat, owner, shared>> PROVE PortsStay
  BY <1>a DEF PortsStay, PortStays
<1>1. ASSUME NEW n \in Nodes, NEW h \in Nodes \cup {Server}, TakePort(n, h)
      PROVE PortsStay
  <2>1. /\ probes[n] \in Nat /\ MaxProbes[n] \in Nat
        /\ probes'[n] = probes[n] + 1 /\ probes[n] < MaxProbes[n]
    BY <1>0, <1>1, RelayAssumption DEF TypeOK, TakePort
  <2>2. <<n, probes'[n]>> \in Tags BY <2>1, TagType
  <2> QED BY <1>1, <2>2, GivenPort DEF TakePort
<1>2. ASSUME NEW n \in Nodes, SendProbe(n) \/ StoreTime(n) PROVE PortsStay
  BY <1>a, <1>2 DEF SendProbe, StoreTime, history
<1>3. ASSUME NEW n \in Nodes, NEW p \in net, RelayProbe(n, p) PROVE PortsStay
  BY <1>3, Recorded, GivenPort DEF RelayProbe
<1>4. ASSUME NEW n \in Nodes, NEW p \in net, RelayReply(n, p) \/ ShowReply(n, p)
      PROVE PortsStay
  BY <1>a, <1>4 DEF RelayReply, ShowReply, history
<1>5. CASE UNCHANGED PortState BY <1>a, <1>5 DEF PortState
<1> QED BY <1>1, <1>2, <1>3, <1>4, <1>5, PortSteps

(* A time or an entry is stored only for a port that was given.               *)
LEMMA FreshStep ==
  ASSUME RInv, [Next]_vars
  PROVE FreshInv'
<1>0. TypeOK /\ FreshInv /\ RunInv BY DEF RInv
<1>a. PortsStay BY GivenPortsStay
<1> SUFFICES ASSUME NEW k \in Nodes, NEW q \in Ports, owner'[k][q] = None
             PROVE  nat'[k][q] = None /\ sent_times'[k][q] = None
  BY DEF FreshInv
<1>b. owner[k][q] = None /\ nat[k][q] = None /\ sent_times[k][q] = None
  BY <1>0, <1>a DEF FreshInv, PortsStay, PortStays
<1>1. ASSUME NEW n \in Nodes, NEW h \in Nodes \cup {Server}, TakePort(n, h)
      PROVE nat'[k][q] = None /\ sent_times'[k][q] = None
  BY <1>b, <1>1 DEF TakePort
<1>2. ASSUME NEW n \in Nodes, SendProbe(n)
      PROVE nat'[k][q] = None /\ sent_times'[k][q] = None
  BY <1>b, <1>2 DEF SendProbe
<1>3. ASSUME NEW n \in Nodes, StoreTime(n)
      PROVE nat'[k][q] = None /\ sent_times'[k][q] = None
  <2>1. owner[n][TimePort(n)] # None /\ owner' = owner
    BY <1>0, <1>3 DEF RunInv, RunOK, Busy, StoreTime, history
  <2>2. ~(k = n /\ q = TimePort(n)) BY <1>b, <2>1
  <2>3. sent_times'[k][q] = sent_times[k][q]
    BY <1>0, <1>3, <2>2 DEF TypeOK, StoreTime
  <2> QED BY <1>b, <1>3, <2>3 DEF StoreTime
<1>4. ASSUME NEW n \in Nodes, NEW p \in net, RelayProbe(n, p)
      PROVE nat'[k][q] = None /\ sent_times'[k][q] = None
  <2>1. p.tag \in Tags BY <1>4, Recorded
  <2>2. owner'[n][Wire(src_port[n])] = p.tag
        /\ (~(k = n /\ q = Wire(src_port[n])) => nat'[k][q] = nat[k][q])
    BY <1>4, <2>1, Recorded, GivenPort DEF RelayProbe
  <2>3. p.tag # None BY <2>1, TagNone
  <2> QED BY <1>b, <1>4, <2>2, <2>3 DEF RelayProbe
<1>5. ASSUME NEW n \in Nodes, NEW p \in net, RelayReply(n, p) \/ ShowReply(n, p)
      PROVE nat'[k][q] = None /\ sent_times'[k][q] = None
  BY <1>b, <1>5 DEF RelayReply, ShowReply
<1>6. CASE UNCHANGED PortState BY <1>b, <1>6 DEF PortState
<1> QED BY <1>1, <1>2, <1>3, <1>4, <1>5, <1>6, PortSteps

(* A port is given to an own probe or, with an entry, to a relayed one.       *)
LEMMA OwnerStep ==
  ASSUME RInv, [Next]_vars
  PROVE OwnerInv'
<1> USE RelayAssumption
<1>0. TypeOK /\ FreshInv /\ OwnerInv /\ NetInv BY DEF RInv
<1>a. PortsStay BY GivenPortsStay
<1>b. ASSUME NEW k \in Nodes, NEW q \in Ports, owner'[k][q] = owner[k][q],
             nat'[k][q] = nat[k][q]
      PROVE OwnerOK(k, q)'
  <2> SUFFICES ASSUME owner[k][q] # None, owner[k][q] \notin shared'
               PROVE  /\ nat[k][q] = None => owner[k][q][1] = k
                      /\ nat[k][q] # None /\ nat[k][q][1] \in Nodes =>
                           owner'[nat[k][q][1]][nat[k][q][2]] = owner[k][q]
    BY <1>b DEF OwnerOK
  <2>1. OwnerOK(k, q) /\ owner[k][q] \notin shared
    BY <1>0, <1>a DEF OwnerInv, PortsStay
  <2>2. nat[k][q] # None => nat[k][q][2] \in Ports BY <1>0 DEF TypeOK
  <2> QED BY <1>a, <2>1, <2>2 DEF OwnerOK, PortsStay, PortStays
<1>c. ASSUME nat' = nat, owner' = owner PROVE OwnerInv'
  BY <1>b, <1>c DEF OwnerInv
<1>1. ASSUME NEW n \in Nodes, NEW h \in Nodes \cup {Server}, TakePort(n, h)
      PROVE OwnerInv'
  <2> SUFFICES ASSUME NEW k \in Nodes, NEW q \in Ports PROVE OwnerOK(k, q)'
    BY DEF OwnerInv
  <2>1. <<n, probes'[n]>> \in Tags
    BY <1>0, <1>1, TagType DEF TypeOK, TakePort
  <2>2. CASE k = n /\ q = Wire(src_port[n])
    <3>1. owner'[k][q] = <<n, probes'[n]>> /\ nat' = nat
          /\ (owner[k][q] # None => owner'[k][q] \in shared')
      BY <1>1, <2>1, <2>2, GivenPort DEF TakePort
    <3>2. owner[k][q] = None => nat[k][q] = None BY <1>0 DEF FreshInv
    <3> QED BY <2>2, <3>1, <3>2 DEF OwnerOK
  <2>3. CASE ~(k = n /\ q = Wire(src_port[n]))
    BY <1>1, <1>b, <2>1, <2>3, GivenPort DEF TakePort
  <2> QED BY <2>2, <2>3
<1>2. ASSUME NEW n \in Nodes, SendProbe(n) \/ StoreTime(n) PROVE OwnerInv'
  BY <1>c, <1>2 DEF SendProbe, StoreTime, history
<1>3. ASSUME NEW n \in Nodes, NEW p \in net, RelayProbe(n, p) PROVE OwnerInv'
  <2> SUFFICES ASSUME NEW k \in Nodes, NEW q \in Ports PROVE OwnerOK(k, q)'
    BY DEF OwnerInv
  <2>1. p.tag \in Tags /\ Own(n, p.tag) BY <1>3, Recorded DEF RelayProbe
  <2>2. CASE k = n /\ q = Wire(src_port[n])
    <3>1. PICK e \in (Nodes \cup {Server}) \X Ports :
            /\ nat' = [nat EXCEPT ![n][Wire(src_port[n])] = e]
            /\ nat'[k][q] = e /\ e # None
            /\ e[1] = p.from /\ (p.kind = "probe" => e[2] = p.port)
      BY <1>3, <2>2, Recorded
    <3>2. owner'[k][q] = p.tag BY <2>1, <2>2, <3>1, GivenPort
    <3>3. ASSUME p.tag \notin shared', e[1] \in Nodes
          PROVE owner'[e[1]][e[2]] = p.tag
      <4>1. p.kind = "probe"
        BY <1>0, <1>3, <3>1, <3>3, Recorded DEF NetInv, PacketOK, ReplyOK
      <4>2. p.tag \notin shared BY <1>a, <3>3 DEF PortsStay
      <4>3. e[2] \in Ports /\ owner[e[1]][e[2]] = p.tag
        BY <1>0, <3>1, <4>1, <4>2 DEF NetInv, PacketOK, ProbeOK
      <4> QED
        BY <1>a, <2>1, <3>3, <4>3, TagNone DEF PortsStay, PortStays
    <3> QED BY <3>1, <3>2, <3>3 DEF OwnerOK
  <2>3. CASE ~(k = n /\ q = Wire(src_port[n]))
    BY <1>3, <1>b, <2>1, <2>3, Recorded, GivenPort
  <2> QED BY <2>2, <2>3
<1>4. ASSUME NEW n \in Nodes, NEW p \in net, RelayReply(n, p) \/ ShowReply(n, p)
      PROVE OwnerInv'
  BY <1>c, <1>4 DEF RelayReply, ShowReply, history
<1>5. CASE UNCHANGED PortState BY <1>c, <1>5 DEF PortState
<1> QED BY <1>1, <1>2, <1>3, <1>4, <1>5, PortSteps

(* A packet is sent under a port of its probe, and its port stays that.       *)
LEMMA NetStep ==
  ASSUME RInv, [Next]_vars
  PROVE NetInv'
<1> USE RelayAssumption
<1>0. TypeOK /\ OwnerInv /\ NetInv /\ RunInv BY DEF RInv
<1>a. PortsStay BY GivenPortsStay
<1>b. ASSUME NEW x \in net PROVE PacketOK(x)'
  <2>1. PacketOK(x) /\ x.port \in Ports BY <1>0 DEF NetInv, TypeOK
  <2>2. ASSUME x.kind = "probe" PROVE ProbeOK(x)'
    BY <1>a, <2>1, <2>2, TagNone DEF PacketOK, ProbeOK, PortsStay, PortStays
  <2>3. ASSUME x.kind = "reply" PROVE ReplyOK(x)'
    BY <1>a, <2>1, <2>3, TagNone DEF PacketOK, ReplyOK, PortsStay, PortStays
  <2> QED BY <2>1, <2>2, <2>3 DEF PacketOK, AdvertOK
<1>c. ASSUME net' \subseteq net PROVE NetInv' BY <1>b, <1>c DEF NetInv
<1>d. ASSUME NEW new, net' \subseteq net \cup {new}, PacketOK(new)'
      PROVE NetInv'
  BY <1>b, <1>d DEF NetInv
<1>1. ASSUME NEW n \in Nodes, Advertise(n) PROVE NetInv'
  <2>1. \A k \in Nodes \ {n} : PacketOK(Advert(n, k))'
    BY DEF PacketOK, AdvertOK, Advert
  <2> QED BY <1>b, <1>1, <2>1 DEF NetInv, Advertise, AdvertsOf
<1>2. ASSUME NEW n \in Nodes, NEW h \in Nodes \cup {Server},
             TakePort(n, h) \/ StoreTime(n) \/ ReadAdvert(n)
      PROVE NetInv'
  BY <1>2, <1>c
  DEF TakePort, StoreTime, ReadAdvert, AdvertEntry, LockForever, StoreMac
<1>3. ASSUME NEW n \in Nodes, SendProbe(n) PROVE NetInv'
  <2>0. PICK new : new = Probe(n, rhop[n], rport[n], <<n, probes[n]>>) OBVIOUS
  <2>1. /\ <<n, probes[n]>> \in Tags /\ owner' = owner /\ shared' = shared
        /\ <<n, probes[n]>> \notin shared =>
             owner[n][rport[n]] = <<n, probes[n]>>
    BY <1>0, <1>3 DEF RunInv, RunOK, Busy, Command, SendProbe, history
  <2>2. PacketOK(new)' BY <2>0, <2>1 DEF PacketOK, ProbeOK, Probe
  <2>3. net' \subseteq net \cup {new} BY <2>0, <1>3 DEF SendProbe
  <2> QED BY <1>d, <2>2, <2>3
<1>4. ASSUME NEW p \in net, NEW n \in Nodes,
             ReceiveAdvert(n, p) \/ ShowReply(n, p) \/ IgnoreReply(n, p)
      PROVE NetInv'
  BY <1>4, <1>c DEF ReceiveAdvert, ShowReply, IgnoreReply
<1>5. ASSUME NEW p \in net, NEW n \in Nodes, RelayProbe(n, p) PROVE NetInv'
  <2>0. PICK new : new = Probe(n, Onward(n, p), Wire(src_port[n]), p.tag)
    OBVIOUS
  <2>1. p.tag \in Tags /\ owner'[n][Wire(src_port[n])] = p.tag
    BY <1>5, Recorded, GivenPort DEF RelayProbe
  <2>2. PacketOK(new)' BY <2>0, <2>1 DEF PacketOK, ProbeOK, Probe
  <2>3. net' \subseteq net \cup {new} BY <2>0, <1>5 DEF RelayProbe
  <2> QED BY <1>d, <2>2, <2>3
<1>6. ASSUME NEW p \in net, NEW n \in Nodes, RelayReply(n, p) PROVE NetInv'
  <2> DEFINE peer == nat[n][p.port][1]
             port == nat[n][p.port][2]
  <2>0. PICK new : new = Reply(peer, port, p.tag) OBVIOUS
  <2>1. p.port \in Ports /\ p.tag \in Tags /\ owner' = owner /\ shared' = shared
    BY <1>0, <1>6, ProbeTag DEF RelayReply, ForPort, history
  <2>2. ASSUME p.tag \notin shared, peer \in Nodes
        PROVE owner[peer][port] = p.tag
    <3>1. owner[n][p.port] = p.tag /\ nat[n][p.port] # None
      BY <1>0, <1>6, <2>2
      DEF NetInv, PacketOK, ReplyOK, RelayReply, ForPort, Handled
    <3> QED BY <1>0, <2>1, <2>2, <3>1, TagNone DEF OwnerInv, OwnerOK
  <2>3. PacketOK(new)' BY <2>0, <2>1, <2>2 DEF PacketOK, ReplyOK, Reply
  <2>4. net' \subseteq net \cup {new} BY <2>0, <1>6 DEF RelayReply
  <2> QED BY <1>d, <2>3, <2>4
<1>7. ASSUME NEW p \in net, ServerReplies(p) PROVE NetInv'
  <2>0. PICK new : new = Reply(p.from, p.port, p.tag) OBVIOUS
  <2>1. ProbeOK(p) /\ owner' = owner /\ shared' = shared
    BY <1>0, <1>7 DEF NetInv, PacketOK, ServerReplies, history
  <2>2. PacketOK(new)' BY <2>0, <2>1 DEF PacketOK, ProbeOK, ReplyOK, Reply
  <2>3. net' \subseteq net \cup {new} BY <2>0, <1>7 DEF ServerReplies
  <2> QED BY <1>d, <2>2, <2>3
<1>8. ASSUME NEW p \in net, Lose(p) PROVE NetInv' BY <1>8, <1>c DEF Lose
<1>9. CASE UNCHANGED vars BY <1>9, <1>c DEF vars
<1> QED BY <1>1, <1>2, <1>3, <1>4, <1>5, <1>6, <1>7, <1>8, <1>9
  DEF Next, RunNext, HandleFrame

(* A command keeps its port, and knows when another one was taken after it.   *)
LEMMA RunStep ==
  ASSUME RInv, [Next]_vars
  PROVE RunInv'
<1> USE RelayAssumption
<1>0. TypeOK /\ FreshInv /\ OwnerInv /\ RunInv BY DEF RInv
<1>a. PortsStay BY GivenPortsStay
<1>b. ASSUME NEW k \in Nodes, Busy(k)', Busy(k), rport'[k] = rport[k],
             probes'[k] = probes[k]
      PROVE /\ Command(k)' = Command(k) /\ Command(k) \in Tags
            /\ owner'[k][rport[k]] # Command(k) =>
                 Command(k) \in shared' /\ owner'[k][rport[k]] \in shared'
            /\ nat'[k][rport[k]] # None => Command(k) \in shared'
  <2>1. RunOK(k) /\ rport[k] \in Ports /\ shared \subseteq Tags
    BY <1>0, <1>b DEF RunInv, TypeOK
  <2>2. Command(k) \in Tags BY <1>b, <2>1 DEF RunOK
  <2>3. PortStays(k, rport[k]) /\ shared \subseteq shared'
    BY <1>a, <2>1 DEF PortsStay
  <2>4. CASE owner[k][rport[k]] = Command(k)
    BY <1>b, <2>1, <2>2, <2>3, <2>4, TagNone DEF RunOK, PortStays, Command
  <2>5. CASE owner[k][rport[k]] # Command(k)
    BY <1>b, <2>1, <2>2, <2>3, <2>5, TagNone DEF RunOK, PortStays, Command
  <2> QED BY <2>4, <2>5
<1>c. ASSUME NEW k \in Nodes, src_port'[k] = src_port[k],
             Busy(k)' => Busy(k) /\ rport'[k] = rport[k],
             probes'[k] = probes[k], raced \subseteq raced'
      PROVE RunOK(k)'
  <2> SUFFICES ASSUME Busy(k)' PROVE RunOK(k)' BY DEF RunOK
  <2>1. RunOK(k) /\ Busy(k) BY <1>0, <1>c DEF RunInv
  <2>2. TimePort(k) \in Ports /\ TimePort(k)' = TimePort(k)
    BY <1>0, <1>c, PortType DEF TypeOK, TimePort
  <2>3. PortStays(k, TimePort(k)) BY <1>a, <2>2 DEF PortsStay
  <2>4. owner'[k][TimePort(k)] # None
        /\ (nat[k][TimePort(k)] # None => nat'[k][TimePort(k)] # None)
    BY <2>1, <2>3 DEF RunOK, PortStays
  <2>5. rport[k] # TimePort(k) =>
          Command(k) \in raced' /\ nat'[k][TimePort(k)] # None
    BY <1>c, <2>1, <2>4 DEF RunOK
  <2>6. rport'[k] = rport[k] BY <1>c
  <2> QED BY <1>b, <1>c, <2>1, <2>2, <2>4, <2>5, <2>6 DEF RunOK
<1>1. ASSUME NEW n \in Nodes, NEW h \in Nodes \cup {Server}, TakePort(n, h)
      PROVE RunInv'
  <2>1. ASSUME NEW k \in Nodes \ {n} PROVE RunOK(k)'
    BY <1>0, <1>c, <1>1 DEF TypeOK, Busy, TakePort, NextPort
  <2>2. RunOK(n)'
    <3>1. /\ src_port'[n] = src_port[n] + 1 /\ src_port[n] \in Nat
          /\ rport'[n] = Wire(src_port[n])
      BY <1>0, <1>1 DEF TypeOK, TakePort, NextPort
    <3>2. Command(n)' = <<n, probes'[n]>> /\ <<n, probes'[n]>> \in Tags
      BY <1>0, <1>1, TagType DEF TypeOK, TakePort, Command
    <3>3. /\ owner'[n][rport'[n]] = <<n, probes'[n]>> /\ rport'[n] \in Ports
          /\ owner[n][rport'[n]] # None => <<n, probes'[n]>> \in shared'
      BY <1>1, <3>1, <3>2, GivenPort DEF TakePort
    <3>4. nat'[n][rport'[n]] # None => <<n, probes'[n]>> \in shared'
      BY <1>0, <1>1, <3>3 DEF FreshInv, TakePort
    <3>5. rport'[n] = TimePort(n)' BY <3>1 DEF TimePort
    <3> QED BY <3>2, <3>3, <3>4, <3>5, TagNone DEF RunOK
  <2> QED BY <2>1, <2>2 DEF RunInv
<1>2. ASSUME NEW n \in Nodes, SendProbe(n) PROVE RunInv'
  <2> SUFFICES ASSUME NEW k \in Nodes PROVE RunOK(k)' BY DEF RunInv
  <2> QED BY <1>0, <1>c, <1>2 DEF TypeOK, Busy, SendProbe, history
<1>3. ASSUME NEW n \in Nodes, StoreTime(n) PROVE RunInv'
  <2> SUFFICES ASSUME NEW k \in Nodes PROVE RunOK(k)' BY DEF RunInv
  <2> QED BY <1>0, <1>c, <1>3 DEF TypeOK, Busy, StoreTime, history
<1>4. ASSUME NEW n \in Nodes, NEW p \in net, RelayProbe(n, p) PROVE RunInv'
  <2>0. rpc' = rpc /\ rport' = rport /\ probes' = probes
    BY <1>4 DEF RelayProbe, run
  <2>1. ASSUME NEW k \in Nodes \ {n} PROVE RunOK(k)'
    BY <1>0, <1>c, <1>4, <2>0
    DEF TypeOK, Busy, RelayProbe, NextPort, Overtakes
  <2>2. RunOK(n)'
    <3> SUFFICES ASSUME Busy(n)' PROVE RunOK(n)' BY DEF RunOK
    <3>1. src_port[n] \in Nat /\ src_port'[n] = src_port[n] + 1
      BY <1>0, <1>4 DEF TypeOK, RelayProbe, NextPort
    <3>2. TimePort(n)' = Wire(src_port[n]) BY <3>1 DEF TimePort
    <3>3. owner'[n][TimePort(n)'] # None /\ nat'[n][TimePort(n)'] # None
      BY <1>4, <3>2, Recorded, GivenPort, TagNone DEF RelayProbe
    <3>4. Busy(n) BY <2>0 DEF Busy
    <3>5. Command(n) \in raced'
      BY <1>4, <3>4 DEF Busy, Command, RelayProbe, Overtakes
    <3> QED BY <1>b, <2>0, <3>3, <3>4, <3>5 DEF RunOK
  <2> QED BY <2>1, <2>2 DEF RunInv
<1>5. ASSUME NEW n \in Nodes, NEW p \in net, RelayReply(n, p) PROVE RunInv'
  <2> SUFFICES ASSUME NEW k \in Nodes PROVE RunOK(k)' BY DEF RunInv
  <2> QED BY <1>0, <1>c, <1>5 DEF TypeOK, Busy, RelayReply, history
<1>6. ASSUME NEW n \in Nodes, NEW p \in net, ShowReply(n, p) PROVE RunInv'
  <2> SUFFICES ASSUME NEW k \in Nodes PROVE RunOK(k)' BY DEF RunInv
  <2> QED BY <1>0, <1>c, <1>6 DEF TypeOK, Busy, ShowReply, Overtakes, run
<1>7. CASE UNCHANGED PortState
  <2> SUFFICES ASSUME NEW k \in Nodes PROVE RunOK(k)' BY DEF RunInv
  <2> QED BY <1>c, <1>7 DEF Busy, PortState, run
<1> QED BY <1>1, <1>2, <1>3, <1>4, <1>5, <1>6, <1>7, PortSteps

(* Only the time of the port last given is written: that of the command, or   *)
(* of a relayed probe that overtook it.                                       *)
LEMMA TimeStep ==
  ASSUME RInv, [Next]_vars
  PROVE TimeInv'
<1> USE RelayAssumption
<1>0. TypeOK /\ FreshInv /\ RunInv /\ TimeInv BY DEF RInv
<1>a. shared \subseteq shared' BY GivenPortsStay DEF PortsStay
<1>b. ASSUME NEW k \in Nodes, NEW q \in Ports, owner'[k][q] = owner[k][q],
             nat'[k][q] = nat[k][q], sent_times'[k][q] = sent_times[k][q],
             raced \subseteq raced',
             rpc[k] # "idle" => rpc'[k] # "idle" /\ rport'[k] = rport[k]
      PROVE TimeOK(k, q)'
  <2>1. TimeOK(k, q) BY <1>0 DEF TimeInv
  <2> QED BY <1>a, <1>b, <2>1 DEF TimeOK
<1> SUFFICES ASSUME NEW k \in Nodes, NEW q \in Ports PROVE TimeOK(k, q)'
  BY DEF TimeInv
<1>1. ASSUME NEW n \in Nodes, NEW h \in Nodes \cup {Server}, TakePort(n, h)
      PROVE TimeOK(k, q)'
  <2>1. <<n, probes'[n]>> \in Tags
    BY <1>0, <1>1, TagType DEF TypeOK, TakePort
  <2>2. CASE k = n /\ q = Wire(src_port[n])
    <3>1. owner[k][q] = None \/ owner'[k][q] \in shared'
      BY <1>1, <2>1, <2>2, GivenPort DEF TakePort
    <3>2. owner[k][q] = None => sent_times'[k][q] = None
      BY <1>0, <1>1 DEF FreshInv, TakePort
    <3>3. rpc'[n] # "idle" /\ q = rport'[n]
      BY <1>0, <1>1, <2>2 DEF TypeOK, TakePort
    <3> QED BY <2>2, <3>1, <3>2, <3>3 DEF TimeOK
  <2>3. CASE ~(k = n /\ q = Wire(src_port[n]))
    <3>1. owner'[k][q] = owner[k][q]
      BY <1>1, <2>1, <2>3, GivenPort DEF TakePort
    <3> QED BY <1>0, <1>b, <1>1, <3>1 DEF TypeOK, TakePort
  <2> QED BY <2>2, <2>3
<1>2. ASSUME NEW n \in Nodes, SendProbe(n) PROVE TimeOK(k, q)'
  BY <1>0, <1>b, <1>2 DEF TypeOK, SendProbe, history
<1>3. ASSUME NEW n \in Nodes, StoreTime(n) PROVE TimeOK(k, q)'
  <2>0. /\ owner' = owner /\ nat' = nat /\ raced' = raced /\ shared' = shared
        /\ sent_times' =
             [sent_times EXCEPT ![n][TimePort(n)] = <<n, probes[n]>>]
    BY <1>3 DEF StoreTime, history
  <2>1. CASE k # n
    BY <1>0, <1>b, <1>3, <2>0, <2>1 DEF TypeOK, StoreTime
  <2>2. CASE k = n
    <3>1. RunOK(n) /\ Busy(n) /\ TimePort(n) \in Ports
      BY <1>0, <1>3, PortType DEF TypeOK, RunInv, Busy, StoreTime, TimePort
    <3>2. CASE q = TimePort(n)
      <4>1. sent_times'[k][q] = Command(n)
        BY <1>0, <2>0, <2>2, <3>2 DEF TypeOK, Command
      <4>2. nat[k][q] = None => rport[n] = q
        BY <2>2, <3>1, <3>2 DEF RunOK
      <4>3. rport[n] = q /\ owner[k][q] \notin shared =>
              owner[k][q] = Command(n)
        BY <2>2, <3>1 DEF RunOK
      <4> QED BY <2>0, <4>1, <4>2, <4>3 DEF TimeOK
    <3>3. CASE q # TimePort(n)
      <4>1. sent_times'[k][q] = sent_times[k][q]
        BY <1>0, <2>0, <2>2, <3>3 DEF TypeOK
      <4>2. q = rport[n] /\ owner[k][q] \notin shared => owner[k][q] \in raced
        BY <2>2, <3>1, <3>3 DEF RunOK
      <4>3. TimeOK(k, q) BY <1>0 DEF TimeInv
      <4> QED BY <2>0, <2>2, <4>1, <4>2, <4>3 DEF TimeOK
    <3> QED BY <3>2, <3>3
  <2> QED BY <2>1, <2>2
<1>4. ASSUME NEW n \in Nodes, NEW p \in net, RelayProbe(n, p)
      PROVE TimeOK(k, q)'
  <2>1. p.tag \in Tags /\ Own(n, p.tag) BY <1>4, Recorded DEF RelayProbe
  <2>2. CASE k = n /\ q = Wire(src_port[n])
    <3>1. nat'[k][q] # None BY <1>4, <2>2, Recorded
    <3> QED BY <3>1 DEF TimeOK
  <2>3. CASE ~(k = n /\ q = Wire(src_port[n]))
    <3>1. owner'[k][q] = owner[k][q] /\ nat'[k][q] = nat[k][q]
      BY <1>4, <2>1, <2>3, Recorded, GivenPort
    <3> QED BY <1>b, <1>4, <3>1 DEF RelayProbe, Overtakes, run
  <2> QED BY <2>2, <2>3
<1>5. ASSUME NEW n \in Nodes, NEW p \in net, RelayReply(n, p)
      PROVE TimeOK(k, q)'
  BY <1>0, <1>b, <1>5 DEF TypeOK, RelayReply, history
<1>6. ASSUME NEW n \in Nodes, NEW p \in net, ShowReply(n, p)
      PROVE TimeOK(k, q)'
  BY <1>b, <1>6 DEF ShowReply, Overtakes, run
<1>7. CASE UNCHANGED PortState BY <1>b, <1>7 DEF PortState, run
<1> QED BY <1>1, <1>2, <1>3, <1>4, <1>5, <1>6, <1>7, PortSteps

(* What is shown is the port's own probe and time.                            *)
LEMMA ShownStep ==
  ASSUME RInv, [Next]_vars
  PROVE ShownInv'
<1>0. TypeOK /\ OwnerInv /\ NetInv /\ RunInv /\ TimeInv /\ ShownInv
  BY DEF RInv
<1>a. shared \subseteq shared' BY GivenPortsStay DEF PortsStay
<1>b. ASSUME NEW s \in shown, raced \subseteq raced'
      PROVE s.tag \notin shared' =>
              /\ s.tag[1] = s.at
              /\ s.timed = s.tag \/ (s.timed = None /\ s.tag \in raced')
  BY <1>0, <1>a, <1>b DEF ShownInv, RepliesReachSender, TimeIsOwn
<1>c. ASSUME shown' = shown, raced \subseteq raced' PROVE ShownInv'
  BY <1>b, <1>c DEF ShownInv, RepliesReachSender, TimeIsOwn
<1>1. ASSUME NEW n \in Nodes, RunNext(n) PROVE ShownInv'
  BY <1>1, <1>c
  DEF RunNext, Advertise, TakePort, SendProbe, StoreTime, history
<1>2. ASSUME NEW n \in Nodes, ReadAdvert(n) PROVE ShownInv'
  BY <1>2, <1>c DEF ReadAdvert, AdvertEntry, LockForever, StoreMac, history
<1>3. ASSUME NEW n \in Nodes, NEW p \in net,
             \/ ReceiveAdvert(n, p) \/ RelayProbe(n, p) \/ RelayReply(n, p)
             \/ IgnoreReply(n, p)
      PROVE ShownInv'
  BY <1>3, <1>c
  DEF ReceiveAdvert, RelayProbe, RelayReply, IgnoreReply, Overtakes, history
<1>4. ASSUME NEW n \in Nodes, NEW p \in net, ShowReply(n, p) PROVE ShownInv'
  <2>0. /\ p.kind = "reply" /\ p.to = n /\ Alive(n) /\ nat[n][p.port] = None
        /\ shared' = shared /\ Overtakes(n) /\ p.port \in Ports
        /\ p.tag \in Tags
    BY <1>0, <1>4, ProbeTag DEF ShowReply, ForPort, Handled
  <2>1. PICK new :
          new = [at |-> n, tag |-> p.tag, timed |-> sent_times[n][p.port]]
    OBVIOUS
  <2>2. shown' = shown \cup {new} BY <1>4, <2>1 DEF ShowReply
  <2>3. raced \subseteq raced' BY <2>0 DEF Overtakes
  <2>4. ASSUME p.tag \notin shared
        PROVE /\ p.tag[1] = n
              /\ \/ sent_times[n][p.port] = p.tag
                 \/ sent_times[n][p.port] = None /\ p.tag \in raced'
    <3>1. owner[n][p.port] = p.tag
      BY <1>0, <2>0, <2>4 DEF NetInv, PacketOK, ReplyOK
    <3>2. p.tag[1] = n /\ TimeOK(n, p.port)
      BY <1>0, <2>0, <2>4, <3>1, TagNone DEF OwnerInv, OwnerOK, TimeInv
    <3>3. rpc[n] # "idle" /\ p.port = rport[n] => p.tag \in raced'
      <4>1. rpc[n] # "idle" => Busy(n) /\ RunOK(n)
        BY <1>0, <2>0 DEF TypeOK, Alive, Busy, RunInv
      <4>2. rpc[n] # "idle" => Command(n) \in raced'
        BY <2>0 DEF Overtakes, Command
      <4> QED BY <2>4, <3>1, <4>1, <4>2 DEF RunOK
    <3> QED BY <2>0, <2>3, <2>4, <3>1, <3>2, <3>3, TagNone DEF TimeOK
  <2>5. ASSUME NEW s \in shown', s.tag \notin shared'
        PROVE /\ s.tag[1] = s.at
              /\ s.timed = s.tag \/ (s.timed = None /\ s.tag \in raced')
    <3>1. CASE s = new BY <2>0, <2>1, <2>4, <2>5, <3>1
    <3>2. CASE s \in shown BY <1>b, <2>3, <2>5, <3>2
    <3> QED BY <2>2, <3>1, <3>2
  <2> QED BY <2>5 DEF ShownInv, RepliesReachSender, TimeIsOwn
<1>5. ASSUME NEW p \in net, ServerReplies(p) \/ Lose(p) PROVE ShownInv'
  BY <1>5, <1>c DEF ServerReplies, Lose, history
<1>6. CASE UNCHANGED vars BY <1>6, <1>c DEF vars, history
<1> QED BY <1>1, <1>2, <1>3, <1>4, <1>5, <1>6 DEF Next, HandleFrame

(* The steps that change what a node has learned, and how.                    *)
LearnState == <<maps, main>>
LEMMA LearnSteps ==
  ASSUME [Next]_vars
  PROVE \/ \E n \in Nodes : Advertise(n) \/ ReadAdvert(n)
        \/ \E n \in Nodes, p \in net : ReceiveAdvert(n, p)
        \/ UNCHANGED LearnState
<1>1. ASSUME NEW n \in Nodes, NEW h \in Nodes \cup {Server},
             TakePort(n, h) \/ SendProbe(n) \/ StoreTime(n)
      PROVE UNCHANGED LearnState
  BY <1>1 DEF LearnState, TakePort, SendProbe, StoreTime
<1>2. ASSUME NEW n \in Nodes, NEW p \in net,
             \/ RelayProbe(n, p) \/ RelayReply(n, p) \/ ShowReply(n, p)
             \/ IgnoreReply(n, p)
      PROVE UNCHANGED LearnState
  BY <1>2 DEF LearnState, RelayProbe, RelayReply, ShowReply, IgnoreReply
<1>3. ASSUME NEW p \in net, ServerReplies(p) \/ Lose(p)
      PROVE UNCHANGED LearnState
  BY <1>3 DEF LearnState, ServerReplies, Lose
<1>4. CASE UNCHANGED vars BY <1>4 DEF LearnState, vars
<1> QED BY <1>1, <1>2, <1>3, <1>4 DEF Next, RunNext, HandleFrame

(* An advert that is being read is stored in the end, or read for ever.       *)
LEMMA KnownStays ==
  ASSUME RInv, [Next]_vars
  PROVE \A k \in Nodes : \A j : Known(j, k) => Known(j, k)'
<1>0. TypeOK BY DEF RInv
<1> SUFFICES ASSUME NEW k \in Nodes, NEW j, Known(j, k) PROVE Known(j, k)'
  OBVIOUS
<1>1. ASSUME NEW n \in Nodes, Advertise(n) PROVE Known(j, k)'
  BY <1>1 DEF Known, BeingRead, Advertise, main
<1>2. ASSUME NEW n \in Nodes, ReadAdvert(n) PROVE Known(j, k)'
  <2>1. CASE AdvertEntry(n)
    BY <2>1 DEF Known, BeingRead, AdvertEntry, main
  <2>2. CASE LockForever(n)
    BY <1>0, <2>2 DEF TypeOK, Known, BeingRead, LockForever, maps
  <2>3. CASE StoreMac(n)
    BY <1>0, <2>3 DEF TypeOK, Known, BeingRead, StoreMac
  <2> QED BY <1>2, <2>1, <2>2, <2>3 DEF ReadAdvert
<1>3. ASSUME NEW n \in Nodes, NEW p \in net, ReceiveAdvert(n, p)
      PROVE Known(j, k)'
  BY <1>0, <1>3 DEF TypeOK, Known, BeingRead, ReceiveAdvert, Handled, maps
<1>4. CASE UNCHANGED LearnState
  BY <1>4 DEF Known, BeingRead, LearnState, maps, main
<1> QED BY <1>1, <1>2, <1>3, <1>4, LearnSteps

(* What was told stays told: an advert is read, or stays under way.           *)
Stays == \A j, k \in Nodes : Told(j, k) => Told(j, k)'
LEMMA ToldStays ==
  ASSUME RInv, [Next]_vars
  PROVE Stays
<1>0. TypeOK /\ NetInv BY DEF RInv
<1>a. ASSUME \A x \in net : x.kind = "advert" => x \in net'
      PROVE Stays
  BY <1>a, KnownStays DEF Stays, Told, Advert
<1>1. ASSUME NEW n \in Nodes, NEW h \in Nodes \cup {Server},
             \/ Advertise(n) \/ TakePort(n, h) \/ SendProbe(n) \/ StoreTime(n)
             \/ ReadAdvert(n)
      PROVE Stays
  <2>1. net \subseteq net'
    BY <1>1
    DEF Advertise, TakePort, SendProbe, StoreTime, ReadAdvert, AdvertEntry,
        LockForever, StoreMac
  <2> QED BY <1>a, <2>1
<1>2. ASSUME NEW n \in Nodes, NEW p \in net, ReceiveAdvert(n, p) PROVE Stays
  <2>1. net' = net \ {p} /\ BeingRead(p.from, n)' /\ p.to = n
    BY <1>0, <1>2 DEF TypeOK, ReceiveAdvert, Handled, BeingRead
  <2>2. \A j, k \in Nodes : Advert(j, k) = p => j = p.from /\ k = p.to
    BY DEF Advert
  <2> QED BY <2>1, <2>2, KnownStays DEF Stays, Told, Known
<1>3. ASSUME NEW n \in Nodes, NEW p \in net,
             \/ RelayProbe(n, p) \/ RelayReply(n, p) \/ ShowReply(n, p)
             \/ IgnoreReply(n, p)
      PROVE Stays
  <2>1. p.kind # "advert" /\ net \ {p} \subseteq net'
    BY <1>3
    DEF RelayProbe, RelayReply, ShowReply, IgnoreReply, IsAdvert, IsProbe,
        ToPort, ForPort
  <2> QED BY <1>a, <2>1
<1>4. ASSUME NEW p \in net, ServerReplies(p) \/ Lose(p) PROVE Stays
  <2>1. p.kind # "advert" /\ net \ {p} \subseteq net'
    BY <1>4 DEF ServerReplies, Lose
  <2> QED BY <1>a, <2>1
<1>5. CASE UNCHANGED vars BY <1>a, <1>5 DEF vars
<1> QED BY <1>1, <1>2, <1>3, <1>4, <1>5 DEF Next, RunNext, HandleFrame

(* So who has announced itself has done so for good.                          *)
LEMMA AnnouncedStays ==
  ASSUME RInv, [Next]_vars, NEW k \in Nodes, Announced(k)
  PROVE Announced(k)'
BY ToldStays DEF Announced, Stays

(* A hop is learnt from an advert, by a node that has sent its own.           *)
LEMMA HopStep ==
  ASSUME RInv, [Next]_vars
  PROVE HopInv'
<1> USE RelayAssumption
<1>0. TypeOK /\ NetInv /\ HopInv BY DEF RInv
<1> SUFFICES ASSUME NEW k \in Nodes PROVE HopOK(k)' BY DEF HopInv
<1>a. HopOK(k) BY <1>0 DEF HopInv
<1>b. ASSUME ~Known(k, k)', rhop'[k] \in Nodes => rhop'[k] = rhop[k],
             \A m \in learning'[k] \cup forward'[k] : Known(m, k)',
             forward'[k] # {} => forward[k] # {}
      PROVE HopOK(k)'
  BY <1>a, <1>b, AnnouncedStays, KnownStays DEF HopOK
<1>c. ASSUME UNCHANGED LearnState, rhop'[k] \in Nodes => rhop'[k] = rhop[k]
      PROVE HopOK(k)'
  BY <1>a, <1>b, <1>c DEF HopOK, Known, BeingRead, LearnState, maps, main
<1>1. ASSUME NEW n \in Nodes, Advertise(n) PROVE HopOK(k)'
  <2>1. rhop' = rhop /\ ip_to_mac' = ip_to_mac /\ mpc' = mpc /\ msrc' = msrc
    BY <1>1 DEF Advertise, run, main
  <2>2. /\ ~Known(k, k)' /\ learning'[k] \subseteq learning[k]
        /\ forward'[k] \subseteq learning[k] \cup forward[k]
    BY <1>0, <1>1, <1>a, <2>1 DEF TypeOK, Advertise, HopOK, Known, BeingRead
  <2>3. \A m \in learning'[k] \cup forward'[k] : Known(m, k)'
    BY <1>a, <2>2, KnownStays DEF HopOK
  <2>4. CASE k = n
    <3>1. Announced(n)' BY <1>1 DEF Advertise, AdvertsOf, Announced, Told
    <3> QED BY <1>a, <2>1, <2>2, <2>3, <2>4, <3>1, KnownStays DEF HopOK
  <2>5. CASE k # n
    <3>1. forward'[k] = forward[k] BY <1>0, <1>1, <2>5 DEF TypeOK, Advertise
    <3> QED BY <1>b, <2>1, <2>2, <2>3, <3>1
  <2> QED BY <2>4, <2>5
<1>2. ASSUME NEW n \in Nodes, NEW h \in Nodes \cup {Server}, TakePort(n, h)
      PROVE HopOK(k)'
  <2>1. UNCHANGED LearnState BY <1>2 DEF TakePort, LearnState
  <2>2. CASE k # n BY <1>0, <1>2, <1>c, <2>1, <2>2 DEF TypeOK, TakePort
  <2>3. CASE k = n
    <3>1. rhop'[n] = h /\ h \in forward[n] \cup {Server}
      BY <1>0, <1>2 DEF TypeOK, TakePort
    <3>2. h \in Nodes => Known(h, k)' /\ Announced(k)'
      BY <1>a, <2>3, <3>1, KnownStays, AnnouncedStays DEF HopOK
    <3>3. /\ ~Known(k, k)' /\ forward' = forward /\ learning' = learning
      BY <1>a, <2>1 DEF HopOK, Known, BeingRead, LearnState, maps, main
    <3> QED
      BY <1>a, <2>3, <3>1, <3>2, <3>3, KnownStays, AnnouncedStays DEF HopOK
  <2> QED BY <2>2, <2>3
<1>3. ASSUME NEW n \in Nodes, SendProbe(n) PROVE HopOK(k)'
  BY <1>3, <1>c DEF SendProbe, LearnState
<1>4. ASSUME NEW n \in Nodes, StoreTime(n) PROVE HopOK(k)'
  BY <1>0, <1>4, <1>c DEF TypeOK, StoreTime, LearnState
<1>5. ASSUME NEW n \in Nodes, ReadAdvert(n) PROVE HopOK(k)'
  <2>1. rhop' = rhop /\ forward' = forward
    BY <1>5 DEF ReadAdvert, AdvertEntry, LockForever, StoreMac, run, maps
  <2>2. CASE AdvertEntry(n)
    <3>1. UNCHANGED <<ip_to_mac, mpc, msrc>> BY <2>2 DEF AdvertEntry, main
    <3>2. \A m \in learning'[k] : m \in learning[k] \/ BeingRead(m, k)
      BY <1>0, <2>2 DEF TypeOK, AdvertEntry, Reading, BeingRead
    <3>3. \A m \in learning'[k] \cup forward'[k] : Known(m, k)'
      BY <1>a, <2>1, <3>2, KnownStays DEF HopOK, Known
    <3>4. ~Known(k, k)' BY <1>a, <3>1 DEF HopOK, Known, BeingRead
    <3> QED BY <1>b, <2>1, <3>3, <3>4
  <2>3. CASE LockForever(n) \/ StoreMac(n)
    <3>1. learning' = learning BY <2>3 DEF LockForever, StoreMac, maps
    <3>2. Known(k, k)' => Known(k, k)
      <4>1. CASE LockForever(n)
        BY <1>0, <4>1
        DEF TypeOK, LockForever, Reading, Known, BeingRead, maps
      <4>2. CASE StoreMac(n)
        BY <1>0, <4>2 DEF TypeOK, StoreMac, Reading, Known, BeingRead
      <4> QED BY <2>3, <4>1, <4>2
    <3>3. \A m \in learning'[k] \cup forward'[k] : Known(m, k)'
      BY <1>a, <2>1, <3>1, KnownStays DEF HopOK
    <3> QED BY <1>a, <1>b, <2>1, <3>2, <3>3 DEF HopOK
  <2> QED BY <1>5, <2>2, <2>3 DEF ReadAdvert
<1>6. ASSUME NEW n \in Nodes, NEW p \in net, ReceiveAdvert(n, p)
      PROVE HopOK(k)'
  <2>1. rhop' = rhop /\ UNCHANGED maps BY <1>6 DEF ReceiveAdvert, run
  <2>2. p.from # n
    BY <1>0, <1>6, ProbeTag
    DEF NetInv, PacketOK, AdvertOK, ReplyOK, ReceiveAdvert, IsAdvert, ToPort,
        Handled
  <2>3. ~Known(k, k)'
    BY <1>0, <1>6, <1>a, <2>1, <2>2
    DEF TypeOK, HopOK, Known, BeingRead, ReceiveAdvert, maps
  <2>4. \A m \in learning'[k] \cup forward'[k] : Known(m, k)'
    BY <1>a, <2>1, KnownStays DEF HopOK, maps
  <2> QED BY <1>b, <2>1, <2>3, <2>4 DEF maps
<1>7. ASSUME NEW n \in Nodes, NEW p \in net,
             \/ RelayProbe(n, p) \/ RelayReply(n, p) \/ ShowReply(n, p)
             \/ IgnoreReply(n, p)
      PROVE HopOK(k)'
  BY <1>7, <1>c
  DEF RelayProbe, RelayReply, ShowReply, IgnoreReply, LearnState, run
<1>8. ASSUME NEW p \in net, ServerReplies(p) \/ Lose(p) PROVE HopOK(k)'
  BY <1>8, <1>c DEF ServerReplies, Lose, LearnState, run
<1>9. CASE UNCHANGED vars BY <1>9, <1>c DEF vars, LearnState, run
<1> QED BY <1>1, <1>2, <1>3, <1>4, <1>5, <1>6, <1>7, <1>8, <1>9
  DEF Next, RunNext, HandleFrame

(* A probe to a hop comes from a node that has announced itself.              *)
LEMMA RelayStep ==
  ASSUME RInv, [Next]_vars
  PROVE RelayInv'
<1> USE RelayAssumption
<1>0. TypeOK /\ NetInv /\ HopInv /\ RelayInv BY DEF RInv
<1>a. ASSUME NEW k \in Nodes, NEW e, NatRelay(k, e) PROVE NatRelay(k, e)'
  BY <1>a, AnnouncedStays DEF NatRelay
<1>b. ASSUME NEW x \in net PROVE PacketRelays(x)'
  BY <1>0, AnnouncedStays DEF RelayInv, PacketRelays, NetInv, PacketOK, ProbeOK
<1>c. ASSUME nat' = nat PROVE NatRelays'
  BY <1>0, <1>a, <1>c DEF RelayInv, NatRelays, NatRelay
<1>d. ASSUME nat' = nat, \A x \in net' \ net : x.kind # "probe"
      PROVE RelayInv'
  BY <1>b, <1>c, <1>d DEF RelayInv, PacketRelays
<1>1. ASSUME NEW n \in Nodes, NEW h \in Nodes \cup {Server},
             \/ Advertise(n) \/ TakePort(n, h) \/ StoreTime(n) \/ ReadAdvert(n)
      PROVE RelayInv'
  BY <1>d, <1>1
  DEF Advertise, AdvertsOf, Advert, TakePort, StoreTime, ReadAdvert,
      AdvertEntry, LockForever, StoreMac
<1>2. ASSUME NEW n \in Nodes, SendProbe(n) PROVE RelayInv'
  <2>1. PICK new : new = Probe(n, rhop[n], rport[n], <<n, probes[n]>>) OBVIOUS
  <2>2. net' \subseteq net \cup {new} /\ nat' = nat BY <1>2, <2>1 DEF SendProbe
  <2>3. PacketRelays(new)'
    <3>1. rhop[n] \in Nodes => Announced(n)'
      BY <1>0, AnnouncedStays DEF HopInv, HopOK
    <3> QED BY <2>1, <3>1 DEF PacketRelays, Probe
  <2> QED BY <1>b, <1>c, <2>2, <2>3 DEF RelayInv
<1>3. ASSUME NEW n \in Nodes, NEW p \in net,
             \/ ReceiveAdvert(n, p) \/ RelayReply(n, p) \/ ShowReply(n, p)
             \/ IgnoreReply(n, p)
      PROVE RelayInv'
  BY <1>d, <1>3 DEF ReceiveAdvert, RelayReply, Reply, ShowReply, IgnoreReply
<1>4. ASSUME NEW n \in Nodes, NEW p \in net, RelayProbe(n, p) PROVE RelayInv'
  <2>1. PICK e \in (Nodes \cup {Server}) \X Ports :
          /\ nat' = [nat EXCEPT ![n][Wire(src_port[n])] = e]
          /\ nat'[n][Wire(src_port[n])] = e
          /\ e[1] = p.from
    BY <1>4, Recorded
  <2>2. NatRelay(n, e)'
    <3>1. p.to = n /\ (p.kind = "probe" \/ p.from = Server)
      BY <1>0, <1>4, Recorded
      DEF NetInv, PacketOK, ReplyOK, RelayProbe, Handled
    <3>2. e[1] \in Nodes \ {n} => Announced(e[1])
      BY <1>0, <2>1, <3>1 DEF RelayInv, PacketRelays
    <3> QED BY <3>2, AnnouncedStays DEF NatRelay
  <2>3. ASSUME NEW k \in Nodes, NEW q \in Ports PROVE NatRelay(k, nat[k][q])'
    <3>1. CASE k = n /\ q = Wire(src_port[n])
      BY <2>1, <2>2, <3>1 DEF NatRelay
    <3>2. CASE ~(k = n /\ q = Wire(src_port[n]))
      <4>1. nat'[k][q] = nat[k][q] BY <1>0, <2>1, <3>2 DEF TypeOK
      <4>2. NatRelay(k, nat[k][q]) BY <1>0 DEF RelayInv, NatRelays
      <4>3. PICK f : f = nat[k][q] OBVIOUS
      <4>4. NatRelay(k, f)' BY <1>a, <4>2, <4>3
      <4> QED BY <4>1, <4>3, <4>4 DEF NatRelay
    <3> QED BY <3>1, <3>2
  <2>4. \A x \in net' \ net : x.kind = "probe" /\ x.from = n
                              /\ x.to \in {Server, n}
    BY <1>4 DEF RelayProbe, Probe, Onward
  <2> QED BY <1>b, <2>3, <2>4 DEF RelayInv, NatRelays, PacketRelays
<1>5. ASSUME NEW p \in net, ServerReplies(p) \/ Lose(p) PROVE RelayInv'
  BY <1>d, <1>5 DEF ServerReplies, Reply, Lose
<1>6. CASE UNCHANGED vars BY <1>d, <1>6 DEF vars
<1> QED BY <1>1, <1>2, <1>3, <1>4, <1>5, <1>6 DEF Next, RunNext, HandleFrame

(* Why a process died, as CrashNeedsMissingAdvert states it.                  *)
Late(k) == \E j \in Nodes \ {k} :
             /\ j \notin ip_to_mac[k]
             /\ Advert(j, k) \in net \/ (mpc[k] # "idle" /\ msrc[k] = j)
Cause(k) == TookReplyForProbe(k) \/ Late(k)

(* A process dies only at a peer whose advert it has not read to its end.     *)
LEMMA CrashStep ==
  ASSUME RInv, [Next]_vars
  PROVE CrashNeedsMissingAdvert'
<1> USE RelayAssumption
<1>0. TypeOK /\ NetInv /\ HopInv /\ RelayInv BY DEF RInv
<1>a. \A k \in Nodes : ~Alive(k) => Cause(k)
  BY DEF RInv, CrashNeedsMissingAdvert, Cause, Late
<1> SUFFICES ASSUME NEW k \in Nodes, ~Alive(k)' PROVE Cause(k)'
  BY DEF CrashNeedsMissingAdvert, Cause, Late
<1>b. ASSUME ~Alive(k), nat'[k] = nat[k], ip_to_mac'[k] = ip_to_mac[k]
      PROVE Cause(k)'
  <2>1. CASE TookReplyForProbe(k) BY <1>b, <2>1 DEF Cause, TookReplyForProbe
  <2>2. CASE Late(k)
    <3>1. PICK j \in Nodes \ {k} : j \notin ip_to_mac[k] /\ Told(j, k)
      BY <2>2 DEF Late, Told, Known, BeingRead
    <3>2. Told(j, k)' /\ j \notin ip_to_mac'[k]
      BY <1>b, <3>1, ToldStays DEF Stays
    <3> QED BY <3>2 DEF Cause, Late, Told, Known, BeingRead
  <2> QED BY <1>a, <1>b, <2>1, <2>2 DEF Cause
<1>1. ASSUME NEW n \in Nodes, NEW h \in Nodes \cup {Server},
             Advertise(n) \/ TakePort(n, h) \/ StoreTime(n)
      PROVE Cause(k)'
  <2>1. UNCHANGED <<nat, ip_to_mac>>
    BY <1>1 DEF Advertise, TakePort, StoreTime, maps
  <2>2. ~Alive(k)
    <3>1. CASE Advertise(n) BY <3>1 DEF Alive, Advertise, run
    <3>2. CASE TakePort(n, h) BY <1>0, <3>2 DEF TypeOK, Alive, TakePort
    <3>3. CASE StoreTime(n) BY <1>0, <3>3 DEF TypeOK, Alive, StoreTime
    <3> QED BY <1>1, <3>1, <3>2, <3>3
  <2> QED BY <1>b, <2>1, <2>2
<1>2. ASSUME NEW n \in Nodes, SendProbe(n) PROVE Cause(k)'
  <2>0. UNCHANGED <<nat, ip_to_mac, mpc, msrc>>
    BY <1>2 DEF SendProbe, maps, main
  <2>1. CASE ~Alive(k) BY <1>b, <2>0, <2>1
  <2>2. CASE Alive(k)
    <3>1. k = n /\ rhop[n] \in Nodes /\ rhop[n] \notin ip_to_mac[n]
      BY <1>0, <1>2, <2>2 DEF TypeOK, Alive, SendProbe
    <3>2. BeingRead(rhop[n], n) /\ rhop[n] # n
      BY <1>0, <3>1 DEF HopInv, HopOK, Known
    <3> QED BY <2>0, <3>1, <3>2 DEF Cause, Late, BeingRead
  <2> QED BY <2>1, <2>2
<1>3. ASSUME NEW n \in Nodes, ReadAdvert(n) PROVE Cause(k)'
  <2>1. rpc' = rpc /\ nat' = nat /\ Alive(n)
    BY <1>3
    DEF ReadAdvert, Reading, AdvertEntry, LockForever, StoreMac, run
  <2>2. ~Alive(k) /\ k # n BY <2>1 DEF Alive
  <2>3. ip_to_mac'[k] = ip_to_mac[k]
    BY <1>0, <1>3, <2>2
    DEF TypeOK, ReadAdvert, AdvertEntry, LockForever, StoreMac, maps
  <2> QED BY <1>b, <2>1, <2>2, <2>3
<1>4. ASSUME NEW n \in Nodes, NEW p \in net,
             ReceiveAdvert(n, p) \/ ShowReply(n, p) \/ IgnoreReply(n, p)
      PROVE Cause(k)'
  <2>1. rpc' = rpc /\ UNCHANGED <<nat, ip_to_mac>>
    BY <1>4 DEF ReceiveAdvert, ShowReply, IgnoreReply, maps, run
  <2> QED BY <1>b, <2>1 DEF Alive
<1>5. ASSUME NEW n \in Nodes, NEW p \in net, RelayProbe(n, p) PROVE Cause(k)'
  <2>1. rpc' = rpc /\ ip_to_mac' = ip_to_mac /\ Alive(n)
    BY <1>5 DEF RelayProbe, Handled, maps, run
  <2>2. ~Alive(k) /\ k # n BY <2>1 DEF Alive
  <2>3. nat'[k] = nat[k] BY <1>0, <1>5, <2>2, Recorded DEF TypeOK
  <2> QED BY <1>b, <2>1, <2>2, <2>3
<1>6. ASSUME NEW n \in Nodes, NEW p \in net, RelayReply(n, p) PROVE Cause(k)'
  <2>0. /\ UNCHANGED <<nat, ip_to_mac, mpc, msrc>>
        /\ p.kind = "reply" /\ nat[n][p.port] # None /\ p.port \in Ports
    BY <1>0, <1>6 DEF TypeOK, RelayReply, ForPort, maps, main
  <2>1. CASE ~Alive(k) BY <1>b, <2>0, <2>1
  <2>2. CASE Alive(k)
    <3> DEFINE peer == nat[n][p.port][1]
    <3>1. k = n /\ peer \notin ip_to_mac[n]
      BY <1>0, <1>6, <2>2 DEF TypeOK, Alive, RelayReply
    <3>2. peer \in Nodes \cup {Server} BY <1>0, <2>0 DEF TypeOK
    <3>3. CASE peer \in {n, Server}
      BY <2>0, <3>1, <3>3 DEF Cause, TookReplyForProbe
    <3>4. CASE peer \in Nodes \ {n}
      <4>1. Told(peer, n)
        BY <1>0, <2>0, <3>4 DEF RelayInv, NatRelays, NatRelay, Announced
      <4>2. PICK j \in Nodes \ {n} : j = peer BY <3>4
      <4>3. Told(j, n)' BY <4>1, <4>2, ToldStays DEF Stays
      <4> QED
        BY <2>0, <3>1, <4>2, <4>3 DEF Cause, Late, Told, Known, BeingRead
    <3> QED BY <3>2, <3>3, <3>4
  <2> QED BY <2>1, <2>2
<1>7. ASSUME NEW p \in net, ServerReplies(p) \/ Lose(p) PROVE Cause(k)'
  <2>1. rpc' = rpc /\ UNCHANGED <<nat, ip_to_mac>>
    BY <1>7 DEF ServerReplies, Lose, maps, run
  <2> QED BY <1>b, <2>1 DEF Alive
<1>8. CASE UNCHANGED vars BY <1>b, <1>8 DEF Alive, vars, maps, run
<1> QED BY <1>1, <1>2, <1>3, <1>4, <1>5, <1>6, <1>7, <1>8
  DEF Next, RunNext, HandleFrame

(* The invariant holds at the start.                                          *)
LEMMA InitRInv == Init => RInv
<1> SUFFICES ASSUME Init PROVE RInv OBVIOUS
<1> USE RelayAssumption DEF Init
<1>1. TypeOK BY DEF TypeOK, Ports
<1>2. FreshInv /\ OwnerInv /\ NetInv BY DEF FreshInv, OwnerInv, OwnerOK, NetInv
<1>3. RunInv /\ TimeInv BY DEF RunInv, RunOK, Busy, TimeInv, TimeOK
<1>4. HopInv BY DEF HopInv, HopOK, Known, BeingRead
<1>5. RelayInv BY DEF RelayInv, NatRelays, NatRelay
<1>6. ShownInv /\ CrashNeedsMissingAdvert
  BY
  DEF ShownInv, RepliesReachSender, TimeIsOwn, CrashNeedsMissingAdvert, Alive
<1> QED BY <1>1, <1>2, <1>3, <1>4, <1>5, <1>6 DEF RInv

(* The strengthening holds in every reachable state.                          *)
THEOREM Inductive == Spec => []RInv
<1>1. RInv /\ [Next]_vars => RInv'
  BY TypeStep, FreshStep, OwnerStep, NetStep, RunStep, TimeStep, HopStep,
     RelayStep, ShownStep, CrashStep
  DEF RInv
<1> QED BY InitRInv, <1>1, PTL DEF Spec

(* Ports, entries, times and packets keep their types.                        *)
THEOREM TypeCorrect == Spec => []TypeOK
<1>1. RInv => TypeOK BY DEF RInv
<1> QED BY Inductive, <1>1, PTL

(* A reply that is shown belongs to a probe of the node that shows it,        *)
(* through any number of relays and with the ports running over their width,  *)
(* unless a port of the probe was also given to another one: port_to_ip is    *)
(* never erased, so of two probes that share a port one may get the other's   *)
(* reply.                                                                     *)
THEOREM SenderReached == Spec => []RepliesReachSender
<1>1. RInv => RepliesReachSender BY DEF RInv, ShownInv
<1> QED BY Inductive, <1>1, PTL

(* A probe is never measured from the time of another one, unless they share  *)
(* a port: the time under its port is its own, or missing because a frame was *)
(* handled during its command.                                                *)
THEOREM OwnTime == Spec => []TimeIsOwn
<1>1. RInv => TimeIsOwn BY DEF RInv, ShownInv
<1> QED BY Inductive, <1>1, PTL

(* A missing MAC address is dereferenced, by either thread, only if an advert *)
(* of the peer is late or is being read, or if a reply under a low port was   *)
(* taken for a probe.                                                         *)
THEOREM CrashCause == Spec => []CrashNeedsMissingAdvert
<1>1. RInv => CrashNeedsMissingAdvert BY DEF RInv
<1> QED BY Inductive, <1>1, PTL

===============================================================================
