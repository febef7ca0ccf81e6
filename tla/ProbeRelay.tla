------------------------------ MODULE ProbeRelay ------------------------------
(***************************************************************************)
(* The probes dsa and lsa across the overlay (src/user/sm.cpp): a node     *)
(* sends a probe to a server through its gateway or through a peer; the    *)
(* peer relays it under a port of its own and relays the reply back.       *)
(* Every node runs this program, with two threads:                         *)
(*                                                                         *)
(*   main   processFrame: adverts, probes to relay, replies                *)
(*   run    the commands advertise, dsa and lsa                            *)
(*                                                                         *)
(* Both take ports from src_port, under port_for_nat_mutex; sent_times is  *)
(* written by one thread and read by the other with no lock.  A probe or   *)
(* reply is handled in one step, because its handler enters the lock once  *)
(* or reads the shared maps once; an advert is read entry by entry, and a  *)
(* probe command is three steps, because the other thread may be between   *)
(* them.  Ports run over their 16 bits: a reply under a low port is taken  *)
(* for something else, and used ports come again.  Which peer the tables   *)
(* choose is the subject of RouteTable: here it is any peer that was read  *)
(* from an advert between the last two advertise commands.                 *)
(***************************************************************************)
EXTENDS Integers, FiniteSets

CONSTANTS
  Nodes,       \* the overlay nodes, by the address of their interface 0
  Server,      \* the destination of the probes, behind every gateway
  FirstPort,   \* 8000, the first source port of a probe
  ProbePorts,  \* 1000 and 2000, the destination ports of dsa and lsa
  AdvertPort,  \* 5000, the destination port of an advert
  Word,        \* 2^16: ports are uint16_t on the wire and in the maps
  PortLimit,   \* bound: from here on no packet that comes back is relayed again
  MaxProbes,   \* bound: how often the user types dsa or lsa at a node
  MaxFailures, \* bound: of the packets lost and the nodes that hang
  None         \* no entry in a map

Ports == 0 .. Word - 1
Tags == UNION {{n} \X (1 .. MaxProbes[n]) : n \in Nodes}

ASSUME RelayAssumption ==
  /\ Server \notin Nodes
  /\ None \notin ((Nodes \cup {Server}) \X Ports) \cup Tags
  /\ FirstPort \in Nat /\ Word \in Nat /\ FirstPort < Word
  /\ ProbePorts \subseteq 0 .. FirstPort - 1 /\ ProbePorts # {}
  /\ AdvertPort \in (0 .. FirstPort - 1) \ ProbePorts
  /\ PortLimit \in Nat /\ MaxProbes \in [Nodes -> Nat]

VARIABLES
  src_port,    \* an int, counts on past 2^16
  nat,         \* port_to_ip and my_port_to_src_port: an address and its port
  sent_times,  \* the probe whose sending time a port holds, None the epoch
  ip_to_mac,   \* the addresses whose MAC address is stored
  learning,    \* the peers that may be next hops in the learning table
  forward,     \* the peers that may be next hops in the forwarding table
  rpc,         \* run: "idle", "send", "time" or "crashed"
  rport, rhop, \* run: the port of the probe, its next hop
  mpc, msrc,   \* main: "idle", "advert" or "hung"; the sender of the advert
  net,         \* the packets under way
  probes,      \* history: the number of probes of a node
  owner,       \* history: the probe that a node's port was last given to
  shared,      \* history: the probes that had to share a port
  shown,       \* history: the replies shown, with the probe timed
  raced,       \* history: the probes overtaken during their command
  lost         \* history: the probes that the network has lost

maps    == <<ip_to_mac, learning, forward>>
run     == <<rpc, rport, rhop>>
main    == <<mpc, msrc>>
history == <<probes, owner, shared, shown, raced, lost>>
vars    == <<src_port, nat, sent_times, maps, run, main, net, history>>

Advert(n, m) == [kind |-> "advert", from |-> n, to |-> m, port |-> 0,
                 tag |-> None]
Probe(n, m, p, t) == [kind |-> "probe", from |-> n, to |-> m, port |-> p,
                      tag |-> t]
Reply(n, p, t) == [kind |-> "reply", from |-> Server, to |-> n, port |-> p,
                   tag |-> t]

Init ==
  /\ src_port = [n \in Nodes |-> FirstPort]
  /\ nat = [n \in Nodes |-> [p \in Ports |-> None]]
  /\ sent_times = [n \in Nodes |-> [p \in Ports |-> None]]
  /\ ip_to_mac = [n \in Nodes |-> {}]
  /\ learning = [n \in Nodes |-> {}] /\ forward = [n \in Nodes |-> {}]
  /\ rpc = [n \in Nodes |-> "idle"] /\ rport = [n \in Nodes |-> 0]
  /\ rhop = [n \in Nodes |-> Server]
  /\ mpc = [n \in Nodes |-> "idle"] /\ msrc = [n \in Nodes |-> Server]
  /\ net = {}
  /\ probes = [n \in Nodes |-> 0]
  /\ owner = [n \in Nodes |-> [p \in Ports |-> None]]
  /\ shared = {} /\ shown = {} /\ raced = {} /\ lost = {}

Alive(n) == rpc[n] # "crashed"

Failures == Cardinality(lost) + Cardinality({n \in Nodes : mpc[n] = "hung"})

\* The lock section: src_port names the port, truncated, and moves on.
Wire(port) == port % Word

\* Mutant: src_port is a uint16_t too.
NextPortShort(n) == src_port' = [src_port EXCEPT ![n] = Wire(@ + 1)]

NextPort(n) == src_port' = [src_port EXCEPT ![n] = @ + 1]
Own(n, t) ==
  LET port == Wire(src_port[n])
  IN /\ owner' = [owner EXCEPT ![n][port] = t]
     /\ shared' = IF owner[n][port] = None THEN shared
                  ELSE shared \cup {t, owner[n][port]}

-----------------------------------------------------------------------------
(* The run thread.                                                         *)

\* Mutant: a node that knows its peers says nothing.
AdvertiseOnce(n) ==
  {Advert(n, m) : m \in {k \in Nodes \ {n} : ip_to_mac[n] = {}}}

AdvertsOf(n) == {Advert(n, m) : m \in Nodes \ {n}}

\* "advertise": advertise_data, fill_forwarding_table, reset_learning_table.
Advertise(n) ==
  /\ rpc[n] = "idle"
  /\ net' = net \cup AdvertsOf(n)
  /\ forward' = [forward EXCEPT ![n] = learning[n]]
  /\ learning' = [learning EXCEPT ![n] = {}]
  /\ UNCHANGED <<src_port, nat, sent_times, ip_to_mac, run, main, history>>

\* "dsa" and "lsa", send_udp_packet up to the unlock.
TakePort(n, h) ==
  /\ rpc[n] = "idle" /\ probes[n] < MaxProbes[n]
  /\ h \in forward[n] \cup {Server}
  /\ probes' = [probes EXCEPT ![n] = @ + 1]
  /\ rport' = [rport EXCEPT ![n] = Wire(src_port[n])]
  /\ rhop' = [rhop EXCEPT ![n] = h]
  /\ NextPort(n) /\ Own(n, <<n, probes'[n]>>)
  /\ rpc' = [rpc EXCEPT ![n] = "send"]
  /\ UNCHANGED <<nat, sent_times, maps, main, net, shown, raced, lost>>

\* The frame goes to the gateway, or to the MAC address of the peer.
SendProbe(n) ==
  /\ rpc[n] = "send"
  /\ IF rhop[n] = Server \/ rhop[n] \in ip_to_mac[n]
     THEN /\ net' = net \cup {Probe(n, rhop[n], rport[n], <<n, probes[n]>>)}
          /\ rpc' = [rpc EXCEPT ![n] = "time"]
     ELSE rpc' = [rpc EXCEPT ![n] = "crashed"] /\ UNCHANGED net
  /\ UNCHANGED <<src_port, nat, sent_times, maps, rport, rhop, main, history>>

\* Mutant: the time is stored one port on.
TimePortNext(n) == Wire(src_port[n])

\* sent_times[src_port - 1], whatever port that is by now.
TimePort(n) == Wire(src_port[n] - 1)

StoreTime(n) ==
  /\ rpc[n] = "time"
  /\ sent_times' = [sent_times EXCEPT ![n][TimePort(n)] = <<n, probes[n]>>]
  /\ rpc' = [rpc EXCEPT ![n] = "idle"] /\ rport' = [rport EXCEPT ![n] = 0]
  /\ rhop' = [rhop EXCEPT ![n] = Server]
  /\ UNCHANGED <<src_port, nat, maps, main, net, history>>

-----------------------------------------------------------------------------
(* The main thread: processFrame.                                          *)

Handled(n, p) == p \in net /\ p.to = n /\ Alive(n) /\ mpc[n] = "idle"

\* A probe command may be under way.
Overtakes(n) ==
  raced' = IF rpc[n] = "idle" THEN raced ELSE raced \cup {<<n, probes[n]>>}

\* The destination port tells packets apart, that of a reply too.
ToPort(p, ports) == p.kind = "reply" /\ p.port \in ports
IsAdvert(p) == p.kind = "advert" \/ ToPort(p, {AdvertPort})
IsProbe(p) == p.kind = "probe" \/ ToPort(p, ProbePorts)

ReceiveAdvert(n, p) ==
  /\ Handled(n, p) /\ IsAdvert(p)
  /\ mpc' = [mpc EXCEPT ![n] = "advert"] /\ msrc' = [msrc EXCEPT ![n] = p.from]
  /\ net' = net \ {p}
  /\ UNCHANGED <<src_port, nat, sent_times, maps, run, history>>

\* update_learning_table for an entry that makes its sender a next hop.  What a
\* server sends is too short for an entry.
Reading(n) == mpc[n] = "advert" /\ Alive(n)
AdvertEntry(n) ==
  /\ Reading(n) /\ msrc[n] \in Nodes
  /\ learning' = [learning EXCEPT ![n] = @ \cup {msrc[n]}]
  /\ UNCHANGED <<src_port, nat, sent_times, ip_to_mac, forward, run, main, net,
                 history>>

\* The mutex of an entry is an uninitialised local: its lock may never return.
LockForever(n) ==
  /\ Reading(n) /\ msrc[n] \in Nodes
  /\ mpc' = [mpc EXCEPT ![n] = "hung"] /\ Failures < MaxFailures
  /\ UNCHANGED <<src_port, nat, sent_times, maps, run, msrc, net, history>>

StoreMac(n) ==
  /\ Reading(n)
  /\ ip_to_mac' = [ip_to_mac EXCEPT ![n] = @ \cup {msrc[n]}]
  /\ mpc' = [mpc EXCEPT ![n] = "idle"] /\ msrc' = [msrc EXCEPT ![n] = Server]
  /\ UNCHANGED <<src_port, nat, sent_times, learning, forward, run, net,
                 history>>

\* The source port; a server replies from the port the probe went to.
SourcePorts(p) == IF p.kind = "probe" THEN {p.port} ELSE ProbePorts

\* Mutant: the address is recorded after src_port++.
RecordNext(n, p) ==
  \E q \in SourcePorts(p) :
    nat' = [nat EXCEPT ![n][Wire(src_port[n] + 1)] = <<p.from, q>>]

Record(n, p) ==
  \E q \in SourcePorts(p) :
    nat' = [nat EXCEPT ![n][Wire(src_port[n])] = <<p.from, q>>]

\* A packet goes on to the gateway under a port of this node.  Its destination
\* stays what it was: a server, or this node if it is a reply.  What is sent to
\* this node through the gateway comes back.
Onward(n, p) == IF p.kind = "probe" /\ p.from # n THEN Server ELSE n

RelayProbe(n, p) ==
  /\ Handled(n, p) /\ IsProbe(p)
  /\ Onward(n, p) = n => src_port[n] < PortLimit
  /\ net' = (net \ {p})
            \cup {Probe(n, Onward(n, p), Wire(src_port[n]), p.tag)}
  /\ Record(n, p) /\ NextPort(n) /\ Own(n, p.tag) /\ Overtakes(n)
  /\ UNCHANGED <<sent_times, maps, run, main, probes, shown, lost>>

\* Mutant: the first port is taken for one of another service.
ForPortAfter(n, p) == p.kind = "reply" /\ FirstPort < p.port
                      /\ p.port < src_port[n]

\* A reply is for a port in use; to a peer with no MAC address the process dies.
ForPort(n, p) == p.kind = "reply" /\ FirstPort <= p.port /\ p.port < src_port[n]

RelayReply(n, p) ==
  /\ Handled(n, p) /\ ForPort(n, p)
  /\ nat[n][p.port] # None
  /\ LET peer == nat[n][p.port][1]
         port == nat[n][p.port][2]
     IN IF peer \in ip_to_mac[n]
        THEN net' = (net \ {p}) \cup {Reply(peer, port, p.tag)} /\ UNCHANGED rpc
        ELSE net' = net \ {p} /\ rpc' = [rpc EXCEPT ![n] = "crashed"]
  /\ UNCHANGED <<src_port, nat, sent_times, maps, rport, rhop, main, history>>

ShowReply(n, p) ==
  /\ Handled(n, p) /\ ForPort(n, p)
  /\ nat[n][p.port] = None
  /\ shown' = shown \cup
       {[at |-> n, tag |-> p.tag, timed |-> sent_times[n][p.port]]}
  /\ net' = net \ {p} /\ Overtakes(n)
  /\ UNCHANGED <<src_port, nat, sent_times, maps, run, main, probes, owner,
                 shared, lost>>

IgnoreReply(n, p) ==
  /\ Handled(n, p) /\ ~IsAdvert(p) /\ ~IsProbe(p) /\ ~ForPort(n, p)
  /\ net' = net \ {p}
  /\ UNCHANGED <<src_port, nat, sent_times, maps, run, main, history>>

-----------------------------------------------------------------------------
(* The servers and the network.                                            *)

ServerReplies(p) ==
  /\ p \in net /\ p.kind = "probe" /\ p.to = Server
  /\ net' = (net \ {p}) \cup {Reply(p.from, p.port, p.tag)}
  /\ UNCHANGED <<src_port, nat, sent_times, maps, run, main, history>>

\* An advert is lost if it is late for ever.
Lose(p) ==
  /\ p \in net /\ p.kind # "advert"
  /\ net' = net \ {p}
  /\ lost' = lost \cup {p.tag}
  /\ Failures < MaxFailures
  /\ UNCHANGED <<src_port, nat, sent_times, maps, run, main, probes, owner,
                 shared, shown, raced>>

RunNext(n) == Advertise(n) \/ (\E h \in Nodes \cup {Server} : TakePort(n, h))
              \/ SendProbe(n) \/ StoreTime(n)

ReadAdvert(n) == AdvertEntry(n) \/ LockForever(n) \/ StoreMac(n)

HandleFrame(n, p) == ReceiveAdvert(n, p) \/ RelayProbe(n, p)
                     \/ RelayReply(n, p) \/ ShowReply(n, p) \/ IgnoreReply(n, p)

Next ==
  \/ \E n \in Nodes : RunNext(n) \/ ReadAdvert(n)
  \/ \E p \in net : (\E n \in Nodes : HandleFrame(n, p)) \/ ServerReplies(p)
                    \/ Lose(p)

Spec == Init /\ [][Next]_vars

\* A command that has begun ends, and so does reading an advert, unless a mutex
\* blocks it.  Some packet of a probe that can be handled again and again is
\* handled, after the frames before it; as a probe is carried a finite number of
\* times, that holds for each of them.  Nobody has to type a command, and
\* adverts may be late for ever.
Carried == \E p \in net : /\ p.tag # None
                          /\ ServerReplies(p) \/ \E n \in Nodes : HandleFrame(n, p)

FairSpec ==
  /\ Spec
  /\ WF_vars(\E n \in Nodes : SendProbe(n) \/ StoreTime(n))
  /\ \A n \in Nodes : WF_vars(StoreMac(n) \/ LockForever(n))
  /\ SF_vars(Carried)

-----------------------------------------------------------------------------
(* Properties.                                                             *)

\* Every variable holds a value of its kind; ports fit in 16 bits.
TypeOK ==
  /\ src_port \in [Nodes -> Nat] /\ \A n \in Nodes : FirstPort <= src_port[n]
  /\ nat \in [Nodes -> [Ports -> ((Nodes \cup {Server}) \X Ports) \cup {None}]]
  /\ sent_times \in [Nodes -> [Ports -> Tags \cup {None}]]
  /\ ip_to_mac \in [Nodes -> SUBSET (Nodes \cup {Server})]
  /\ learning \in [Nodes -> SUBSET Nodes] /\ forward \in [Nodes -> SUBSET Nodes]
  /\ rpc \in [Nodes -> {"idle", "send", "time", "crashed"}]
  /\ rport \in [Nodes -> Ports] /\ rhop \in [Nodes -> Nodes \cup {Server}]
  /\ mpc \in [Nodes -> {"idle", "advert", "hung"}]
  /\ msrc \in [Nodes -> Nodes \cup {Server}]
  /\ net \subseteq
       [kind : {"advert", "probe", "reply"}, from : Nodes \cup {Server},
        to : Nodes \cup {Server}, port : Ports, tag : Tags \cup {None}]
  /\ probes \in [Nodes -> Nat] /\ \A n \in Nodes : probes[n] <= MaxProbes[n]
  /\ owner \in [Nodes -> [Ports -> Tags \cup {None}]]
  /\ shown \subseteq [at : Nodes, tag : Tags, timed : Tags \cup {None}]
  /\ shared \subseteq Tags /\ raced \subseteq Tags /\ lost \subseteq Tags

\* A reply is shown by the node that sent the probe, however the ports of the
\* relays and of the two threads interleave: no reply to an own probe is relayed
\* to a peer, and none that was relayed comes back to another node.  It takes a
\* port that comes a second time to break this: port_to_ip is never erased, so a
\* probe that shares a port with an earlier or later one may lose its reply to
\* the other's sender.
RepliesReachSender == \A s \in shown : s.tag \notin shared => s.tag[1] = s.at

\* The time shown is the one of the very probe.  Only when a frame was handled
\* during the probe's command it may be missing (the reply came first, or a
\* relayed probe took the port that the time is stored under), and it is never
\* the time of another probe, though sent_times is written after the lock is
\* released and read with none; unless, again, the two share a port.
TimeIsOwn ==
  \A s \in shown : s.tag \notin shared =>
    s.timed = s.tag \/ (s.timed = None /\ s.tag \in raced)

\* A reply under a wrapped port was taken for a probe, and recorded as one.
TookReplyForProbe(n) ==
  \E q \in Ports : nat[n][q] # None /\ nat[n][q][1] \in {n, Server}

\* A process dies of a missing MAC address, in either thread, only when an
\* advert of the peer is late, for ever perhaps, or is just being read: a node has
\* advertised before it uses what it has learned.  The one other way is the
\* entry of a reply that was taken for a probe.
CrashNeedsMissingAdvert ==
  \A n \in Nodes : ~Alive(n) =>
    \/ TookReplyForProbe(n)
    \/ \E m \in Nodes \ {n} :
         /\ m \notin ip_to_mac[n]
         /\ Advert(m, n) \in net \/ (mpc[n] # "idle" /\ msrc[n] = m)

\* What may keep a probe from its answer: a packet is lost, a process has died
\* or hangs in an advert, the probe shares a port, or a port it got wrapped
\* below 8000.
Unlucky(t) ==
  \/ t \in lost \cup shared
  \/ \E n \in Nodes : \/ ~Alive(n) \/ mpc[n] = "hung"
                      \/ \E p \in 0 .. FirstPort - 1 : owner[n][p] = t

\* Every probe that was sent is answered in the end, through relays too, unless
\* it is unlucky: no handler drops a packet for any other reason.
ProbesAnswered ==
  []<>(\A n \in Nodes : \A k \in 1 .. probes[n] :
         Unlucky(<<n, k>>) \/ \E s \in shown : s.tag = <<n, k>>)
=============================================================================
