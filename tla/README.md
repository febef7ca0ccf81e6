# A TLA+ model of the resilient overlay node

The program is one node of a resilient overlay network, run as a client of the
Partov network simulator.  It measures the direct paths to a few servers with
ICMP pings, exchanges its measurements with other nodes, and sends probe packets
to a server either directly or through the peer whose path is better, by delay
or by loss.  `src/base` is the client framework (session with the simulation
server, threads, frames); `src/user` is the node.

This directory holds the TLA+ modules of the node and of the framework, the
configurations that check small instances with TLC, and proofs for TLAPS.
`PROJECT.json` maps each definition to the lines it models.  Line numbers below
are those of `src/user/sm.cpp` (sm) and `src/base/cf.cpp` (cf).

## 1. Inventory

| Component | State | Operations | Where |
|---|---|---|---|
| Session and threads of the client framework | socket, mutex, condition, `initialized`, session with the server, main and helper thread | connect, negotiate, receive frames, `sendFrame`, notifications, recover, SIGINT | cf 45-848, 976; `ClientFramework` |
| Command line of the framework | arguments; `needNewMap` | parse, print | cf 67-174, 850-921, `main.cpp`; only `needNewMap`, in `ClientFramework` |
| `Machine`, `Interface`, `Frame` | custom information, interfaces, frame buffer | set once while negotiating | `machine.cpp`, `interface.cpp`, `frame.cpp`; not modelled |
| Routing tables | `server_infoes[]`: address, own delay and loss, learning table, forwarding table; `ip_to_id`, `ip_to_mac` | receive a reply, receive an advert, ping, advertise, dsa, lsa | sm 79-97, 361-382, 387-528, 714-807; `RouteTable` |
| Measurement of a server | sequence number, counters, delay, loss rate, answered flag | check the connection, send a ping, receive a reply | sm 429-448, 531-581, 659-712; `ServerProbe` |
| Relay and probe packets | `src_port`, `port_to_ip`, `my_port_to_src_port`, `sent_times` | relay to a server, relay back, measure a probe | sm 151-219, 745-807; `ProbeRelay`, next hop in `RouteTable` |
| Packets | none | build, validate, rewrite, checksum, convert addresses | sm 151-197, 285-319, 397-484, 591-847; `Packets` |
| Command loop | standard input | ping, advertise, dsa, lsa; stats, dtable, ltable print | sm 228-268 |

**Threads and how they meet.**  Two threads run.  The *main* thread receives a
frame from the server and calls `processFrame` in it, so frames are handled one
after the other.  The *run* thread reads commands from the standard input.  They
share every row of `server_infoes` and all maps.  The only lock the node takes is
in `update_learning_table` (sm:510), on the mutex of a `server_info` passed by
value: nobody else has that mutex, and in an advert it was never initialised.
So every field is shared without exclusion.  The framework does better: `sendFrame`
and the notifications take `ClientFramework::mutex`, and `recoverSimulation`
holds it from closing the broken connection to the resumed session.

**What is hard.**

* Interleaving: adverts and replies update rows that a command is filling,
  resetting or pinging; a row's next hop and its value are separate statements;
  `ping_sent++` is executed by both threads.
* Order: a peer's MAC address is stored after its entries have become next hops;
  replies arrive late, out of order or never.
* Staleness: the answered flag and the fault counter are tested and used while
  a reply changes them; a server declared down stays in the learning table;
  `ip_to_id` does not know the rows inserted later.
* Limits: the table has 1000 rows and no bound test; the fields of a row are
  16 bits wide and `sequence_id + 1` is not; `src_port` is an int that is cut to
  16 bits on the wire; checksums carry once or twice; counters change their byte
  order on the way.
* Distribution: a reply finds its way back through a relay by a port that two
  threads take from one counter, and no entry for a port is ever erased; adverts,
  probes and replies are lost or late.
* Failures: a connection closed or reset at any point of a frame, of the
  negotiation or of a recovery; SIGINT at any point.

**What makes each component correct.**

* Framework: commands go out only inside a session, whole, one thread's at a
  time; no frame is processed before `initialize` has returned; startup and
  `sendFrame` complete; a lost connection is noticed.
* Routing tables: one row per server, never more rows than the array has; a next
  hop is a peer that advertised that server and whose MAC address is known; a
  value shown was measured on the path shown, and is current; probes use the
  table of their own server.
* Measurement: a server is down exactly after the faults that mean it; every
  ping is counted once; loss rate and delay agree with what was measured.
* Relay: a reply is shown by the node that sent the probe, with that probe's own
  time, unless two probes had to share a port; a probe that meets no accident is
  answered; a process dies of a missing MAC address only if an advert is missing.
* Packets: what one handler builds, the next one (here, on a peer or on a server)
  accepts, dispatches and reads as it was meant; a frame whose IP header changed on
  the way is refused.

`PROJECT.json` lists under "hazards" each of these at its line, with the property
that covers it, or the reason none does yet.

## 2. Modules

| Module | What it is |
|---|---|
| `FrameChannel` | abstract: what the server may see on one connection, for a set of threads |
| `ClientFramework` | detailed: threads, mutex, condition, socket; implements `FrameChannel` |
| `RouteTable` | the rows of `server_infoes`, two threads, statement by statement |
| `BestPath` | abstract: what a learning table promises, by delay or by loss; `RouteTable` implements it twice |
| `ServerProbe` | the measurement fields of one row, two threads, statement by statement |
| `ProbeRelay` | several nodes, a server and the network between them: ports, relaying, times of probes |
| `Packets` | the frames on the wire: lengths, byte order, checksums, addresses |
| `ClientFrameworkProofs`, `RouteTableProofs`, `RouteSerialProofs`, `ServerProbeProofs`, `ServerSerialProofs`, `ProbeRelayProofs`, `PacketsProofs` | theorems |
| `DivisionTheorems` | lemmas on quotient and remainder, used by the proofs about `ServerProbe` and `Packets` |
| `MCClientFramework`, `MCRouteTable`, `MCServerProbe`, `MCProbeRelay`, `MCPackets` | model values and bounds for TLC |

`RouteTable` and `ServerProbe` model the same handlers from two sides.
`ServerProbe` has the counters from which a row's own delay and loss rate are
computed; `RouteTable` takes those two results as nondeterministic and has what
the tables make of them.  Nothing of `RouteTable` feeds back into `ServerProbe`:
receive_ping_packet and the two statements of update_server_information that
touch the learning table only read the own measurement.  `ProbeRelay` and
`Packets` model the same probes from two sides: `ProbeRelay` which node and port a
packet goes to, under interleaving and loss, `Packets` what its bytes say, on one
journey with nothing else going on.  `ProbeRelay` takes the choice of next hops as
nondeterministic among the peers that `RouteTable` could have chosen.

Definitions marked *Mutant* in a comment are used by no action.  They are
plausible errors; each is listed in `PROJECT.json` with the property that fails
when it replaces the definition it varies.

### ClientFramework

`mpc` is the statement of the main thread, from `connectToServer` to the exit;
`stage` the request of the negotiation; `rpc` the statement of `st_run`; `spc[t]`
the statement of thread `t` in `sendFrame`.  `conn` is the socket as the next
call will find it:

* `up`;
* `eof`: the server has closed, `recv` returns 0, and a first `send` succeeds;
* `reset`: the next call, of whichever thread, gets the error;
* `dead`: after that error, `recv` returns 0 and `send` raises SIGPIPE;
* `closed`: no usable descriptor.

`sendOrReceive` (cf 786-808) loops while fewer bytes than asked for were
transferred and stops only on a negative result.  At `eof` and `dead` a receive
therefore never ends, and the model has no step for it.

| Action | Code |
|---|---|
| `Connect`, `SendRequest`, `RejectRequest`, `NextRequest`, `AnswerAccepted`, `AnswerRefused`, `NoNodeName`, `NegotiationFailed` | cf 176-522, 829-848 |
| `CreateThread`, `LockInit`, `TestInit`, `SpuriousWakeup`, `Relock`, `UnlockInit` | cf 545-611 |
| `ReceiveMessage`, `ReceivePayload`, `FrameProcessed` | cf 615-663 |
| `LockRecover`, `UnlockRecover` | cf 810-825 |
| `Destroy`, `Leave`, `Interrupt`, `InterruptAgain`, `Exit`, `UseDeletedMachine` | cf 56-65, 583-594, 976 |
| `InitializeMachine` ... `Signal` | cf 666-680 |
| `CallSend` ... `SendUnlocks` | cf 682-780 |
| `ServerCloses`, `ServerResets` | external |

`wire` is the last item put on the present connection.  One item is enough for
`FrameChannel`, whose steps depend on the previous item only.  `processFrame`
may send any number of frames and so may `run`.  The contents of requests and
frames are not modelled, nor a partial item: an item that fails part-way leaves
`wire` as it was, and the connection is not used again.  `needNewMap` is the
option `--new`, `--id` or `--free` of the command line (cf 93-104), which every
map negotiation sends (cf:283) and a recovery sets to 0 (cf:817); `newMaps` counts
the requests for a new map.

### RouteTable

One array per field of a row, indexed by `Rows`.  `mpc`, `msrc`, `mupd`, `mrow`
are the statement and locals of the main thread (`mupd` is the by-value
`server_info` of `update_learning_table`, `msrc` the peer whose advert is read);
`rpc`, `rrow` those of the run thread.  History: `heard` the pairs advertised,
`fresh` the last delay each peer advertised for each server since a reset,
`rttVia` and `lostVia` the path that the learned value was measured on.

| Action | Code |
|---|---|
| `ReceivePing`, `SetOwnLost`, `CopyLost`, `CopyRtt` | sm 429-444 |
| `ReceiveAdvert`, `AdvertEntry`, `StoreMac` | sm 142-150, 387-392, 453-484 |
| `LockUninitialisedMutex` | sm 509-510 |
| `FindRow`, `insert_into_server_infoes` | sm 486-516 |
| `CompareRtt` ... `SetLost` | sm 517-528 |
| `PingCommand`, `CheckAlive`, `CheckDown`, `SetDown` | sm 233-238, 533-543 |
| `CountPing`, `PingUnreachable`, `SyncTest`, `SyncLost` | sm 672-682 |
| `AdvertiseCommand`, `FillLost`, `FillRtt` | sm 361-368, 397-423 |
| `ResetHopLost` ... `ResetLost` | sm 373-382 |
| `SendProbe` | sm 745-807 |

Abstractions: delays are `0 .. INF`; loss rates are ordinals, since only their
order matters here; whether a check finds a server down, and which delay and rate
a reply or ping gives, is nondeterministic.  A comparison in
`update_learning_table` reads two fields in one step (no proof uses its outcome).
Inserting a row is one step: the run thread reads only rows below
`number_of_all_servers`, which the code increments last.  The textual copies of
addresses kept beside the numbers are left out.  The loops of a command read the
number of rows again on each turn, as in the code.

`BestPath` states what remains when the statements are hidden: the path of a
server changes to a strictly better one, or back to the gateway; the cost shown is
that path's.  Its `via` is `rttVia` (`lostVia`), the path that the value was
measured on, which the code writes in one statement with the value; that the next
hop printed beside it agrees is `ValueBelongsToHop`.

### ServerProbe

The measurement fields of one row; rows do not influence each other.  Pings are
numbered; ping `n` carries the sequence number `(n - 1) % Word`.  `replies` are
the pings whose reply is under way: the network may lose, delay and reorder, not
duplicate them.  `ping_sent++` is a load and a store because both threads execute
it; `ping_received++` and `ping_lost_numbers++` each have one writer that is not
the other's (the first is one step, the second a load and store, because the main
thread resets it).  `early` says that the run thread overwrote `ping_send_time`
after the main thread took `ping_received_time`: the difference is then negative
and stored in 16 bits.  `ping_lost_rate` is the pair of counters it was computed
from.  History: `answered`, `due`, and the bounds `lo`, `hi` of the delays
measured since the server came up.

| Action | Code |
|---|---|
| `PingCommand`, `CheckReceived`, `CheckThree`, `DownLoss`, `DownRtt`, `LoadLost`, `StoreLost` | sm 233-238, 533-543 |
| `BuildPacket`, `NextSequence`, `SetSendTime`, `LoadSent`, `StoreSent`, `LossSent`, `ClearReceived`, `SendPing` | sm 659-712 |
| `ReceiveReply`, `Match`, `Measure`, `IsFirst` | sm 122-141, 429-433 |
| `First`, `LoadFirst`, `StoreFirst`, `Average` | sm 434-439 |
| `CountReceived` ... `LossReceived` | sm 440-448 |

### ProbeRelay

For each node: `src_port`; `nat` (`port_to_ip` and `my_port_to_src_port`, written
together under the lock); `sent_times`; `ip_to_mac`; `learning` and `forward`, the
peers that the two tables may name as next hops; `rpc`, `rport`, `rhop`, the
statement and locals of a probe command; `mpc`, `msrc`, whether the main thread is
reading an advert, and whose.  `net` is the set of packets under way: they arrive in
any order, late or never.  A packet carries, as history, the `tag` of its probe (who
sent it, the how manyth); `owner` is the probe a port was last given to, `shared`
the probes that got a port another one had, `shown` the replies shown with the
probe whose time they show, `raced` the probes during whose command a frame was
handled, `lost` the probes of which the network lost a packet.  An advert is not lost
but late for ever.

| Action | Code |
|---|---|
| `Advertise` | sm 244-248, 361-382, 397-423 |
| `TakePort`, `SendProbe`, `StoreTime` | sm 745-807, split at the unlock and after `sendFrame` |
| `ReceiveAdvert`, `AdvertEntry`, `LockForever`, `StoreMac` | sm 142-150, 453-484, 509-528 |
| `RelayProbe` | sm 151-179 |
| `RelayReply`, `ShowReply`, `IgnoreReply` | sm 180-222 |
| `ServerReplies`, `Lose` | external |

A probe or reply is handled in one step: its handler enters the lock once, or reads
each shared map once.  An advert is read entry by entry, so that a command may use a
next hop before its MAC address is stored (sm:483), and an entry may block for ever
on its uninitialised mutex (`LockForever`).

`src_port` counts on without bound, as the int of the code does, and `Wire` truncates
it to the 16 bits of packets and maps.  So a port below 8000 occurs, and a port that
was given before occurs again, with whatever `nat` and `sent_times` still hold for it.
`IsAdvert`, `IsProbe` and `ForPort` are the tests on the destination port in the order
of `processFrame`: a reply under a wrapped port may be taken for a probe or an advert,
or ignored.  A reply taken for a probe is sent on to the gateway with this node as its
destination; that the gateway returns it is an assumption about the network
(`Onward`), and `PortLimit` ends the circle, and nothing else.  `MaxFailures` bounds
the lost packets and the hanging nodes together.

### Packets

`frame` is the frame under way and `at` says between whom.  Octets are numbers
below 256; a two-octet field is a pair in network order.  `htons` and `ntohs`
convert; `Raw` is what a little-endian host loads without converting, and the
checksums are computed on raw words, as in the code.  A written address is the
sequence of its four parts; `ipUint_into_str` leaves leading zero octets empty, as
its loop does (sm:836).  `src_port` is the int that the two nodes compare reply
ports with, `nat` the entry of the relay.  `carried` says that a header built on the
way had a sum that carries twice, `hurt` where the network changed an octet: in the
IP header or behind it.

A frame that arrives takes one of three steps.  `is_valid_packet` refuses it
(`Drop`); or it passes the tests of protocol and destination port by which
`processFrame` finds the branch it is meant for (`Awaited`: `IsEcho`, `IsAdvert`,
`IsProbe`, `ForPort` and the entry of the relay); or another branch takes it, or none
(`Stray`), which ends the journey here.  What then happens is in `ProbeRelay`.
`Corrupt` may change any octet of any field that a frame has in the model.

| Definition | Code |
|---|---|
| `check_sum_ip`, `IcmpFold`, `IcmpSum`, `Signed`, `set_ip_header` | sm 591-654 |
| `ip_into_uint`, `ipUint_into_str`, `is_server_valid` | sm 277-283, 812-847 |
| `Up`, `Rank`, `Entries`, `AdvertFrame`, `SendAdvert` | sm 397-423, 714-743 |
| `is_valid_packet`, `Drop` | sm 127-129, 285-319 |
| `IsEcho`, `IsAdvert`, `IsProbe`, `ForPort`, `Awaited`, `Stray` | sm 137-222 |
| `receive_advertise_data`, `Turns`, `RateOf`, `ReceiveAdvert` | sm 142-150, 453-484 |
| `TypeProbe`, `ProbeFrame`, `RelayProbe`, `RelayReply`, `ShowReply` | sm 151-219, 255-266, 745-805 |
| `SendPing`, `PingFrame`, `ReceivePing` | sm 137-141, 659-704 |
| `ServerReplies`, `ServerEchoes`, `Right`, `Corrupt` | external |

Fields that every frame of the program holds constant (version, header length,
type of service, time to live, MAC addresses, payload of a probe) are constants of
the sums or left out.

## 3. Runs

| Run | Question | Answer |
|---|---|---|
| `client` | Is every frame inside a session and whole, whatever happens to the connection? Is a new map asked for once? Do startup and every `sendFrame` complete? | yes; and the framework implements `FrameChannel` |
| `client_eof` | Is a lost connection noticed (cf:618, cf:812)? | no: after an orderly close `sendOrReceive` receives 0 bytes for ever |
| `route_rows` | Rows, next hops and MAC addresses under every interleaving. | `OneRowPerServer`, `HopsWereHeard`, `MacBehindHop`, `CrashOnlyDuringAdvert` hold |
| `route_serial` | What the learned values mean when no command overlaps a frame. | they belong to their hop, are the latest, the gateway's are the own ones; the table implements `BestPath` by delay and by loss |
| `route_race` | Does `ValueBelongsToHop` survive overlap? | no: a reset between the hop and the value of an update |
| `route_probe` | Do dsa and lsa use what dtable and ltable print (sm:333)? | no: for a learned server they use row 0 |
| `probe_serial` | What counters, loss rate, delay and "down" mean without overlap; replies lost, late, reordered; counters that wrap. | all four properties hold |
| `probe_overlap` | What is left under overlap. | fields in range; each accepted ping received once; the reply to the last ping is dropped only when the sequence number has just wrapped |
| `probe_race` | Does `ThreeFaultsMeanDown` survive overlap when no measured delay is negative? | no: a reply processed during the check of the third ping command leaves an answering server down (sm:537-538) |
| `relay` | Do replies reach the sender of the probe, with its time, through relays, losses, late adverts, dead or hung processes and wrapped ports? What does a process die of? Is every probe answered? | yes, but a time may be missing when a frame overtook the command; of an advert that is late or being read, or of a reply taken for a probe; yes, but for the accidents that `Unlucky` lists |
| `wire` | Does the next handler accept, dispatch and understand what this one sends? Is a changed octet noticed? | yes, but for headers whose sum carries twice and replies to ports that wrapped below 8000; loss rates arrive while the counters are below 256; a change is noticed in the IP header, what is behind it is not checked |
| `wire_loss` | Does the loss rate of an advert arrive (sm:451)? | no: 255 of 300 is read as 65280 of 11265 |

Deadlock is not checked in any run: the process may exit, an advert may block in
the uninitialised mutex, a probe may crash, the number of pings and probes is
bounded, and a journey of `Packets` ends.

**Bounds.**

* `client`: two helpers plus Main, three rivals for the mutex; any number of
  frames, messages, lost connections and recoveries.  Nothing is bounded but the
  threads (`newMaps` counts up to 2).
* `route_rows`: two servers, the own one and one that is learned, a table of two
  rows, so the table is full when the second is inserted; one peer; delays 0 and
  INF, one loss rate.  Hops, rows and MAC addresses depend on values only through
  the outcome of the comparisons, and the proofs of the same properties do not
  use it.  A second loss rate takes the run past 20 million states.
* `route_serial`: two peers competing for one server, three delays, two loss
  rates: enough for a peer to be better, equal and worse by each measure.
* `route_race`, `route_probe`: the smallest instance with the trace.
* `probe_serial`: ten pings and `Word` 6, so that a server comes up, goes down
  after the fourth unanswered ping and comes up again, and the sequence number and
  the counters wrap; two delays.  `probe_overlap`: five pings and `Word` 4, one
  past the wrap.  The program's `Word` is 65536; the arithmetic is the same.
* `probe_race`: the smallest instance with the trace.  The delays are 2 and 3, so
  that a command that overtakes a reply leaves a delay of 1 or 2 and not one that
  reads as "down": the server is declared down at sm:537-538, by the third ping
  command.
* `relay`: two nodes, which is enough for a relay and for two relays of each other
  at once, and one probe each.  `Word` is 4, `FirstPort` 3, a probe goes to port 0
  and an advert to port 1: the first port a node gives is the first one of the
  program, the second one has wrapped to the port of a probe, and a node that
  relays and probes gives both.  The reply to the second is taken for a probe and
  sent on under the third, which is the port of an advert; `PortLimit` 6 admits
  that.  `MaxFailures` is one: a packet of a probe is lost, or a node hangs.
  No node gives its first port a second time: two probes of one node and one of the
  other are beyond two million states.  The theorems about ports have no such
  bound, and `shared`, which stays empty here, is of use in them.
* `wire`: lengths and octets are the program's.  The addresses are chosen so that
  the header of an advert, a probe, a relayed probe and a ping each carries twice
  for one of them; one server address begins with zeros.  Up to two servers, one
  of them down or not; counters below and above 255.  `src_port` is 8000, the last
  number that fits a port, and one that is 1000 on the wire.  One octet of a frame,
  any one, may become 0.
* `Overlap = FALSE` means that no command starts while a frame is processed and
  the reverse.  It separates the meaning of the tables from the effect of the
  missing lock.

**Fairness.**  `ClientFramework`: a thread whose next statement can
run, runs (weak fairness): the threads are the kernel's.  A thread waiting for
the mutex gets it if it is free again and again (strong fairness on each lock
action).  POSIX promises less than that, so it is an assumption: it leaves out a
thread that loses the race for the mutex for ever, which needs other threads that
retake it without a pause.
`processFrame` returns, which its bounded loops justify; the blocking mutex of an
advert, modelled in `RouteTable`, is excluded here.  The server answers each
request, which is an assumption about the environment.  A receive has fairness
only when the connection is not `up`, since no message need come.  Nothing makes a
thread send, a spurious wakeup happen, SIGINT arrive or a connection break.
`client_eof` violates its property although all this fairness is assumed.

`send()` itself is assumed not to block: a server that stops reading would keep the
mutex with a sender.

`ProbeRelay`: some probe command that has begun goes on (weak fairness), and reading an
advert ends (weak fairness for each node), unless an entry blocks on the uninitialised
mutex of sm:510: the fairness does not choose between `StoreMac` and `LockForever`,
and a node that hangs is one of the accidents (`Unlucky`) which `ProbesAnswered`
names.  Some packet of a probe that can be handled again and again is handled where it
is, after the adverts before it (`Carried`, strong fairness, since a node that reads
an advert does not take it just then), unless the network loses it.  One condition for
all commands and one for all packets is weaker than one for each, and enough: a
command has two steps after the first, and a probe is carried a finite number of
times.  Nobody has to type a command, and an advert may be late for ever.

**Behaviours seen in the model that no run is spent on.**

* The one error of a reset connection may be reported to a sending thread, which
  prints it and returns; the event loop then receives 0 bytes for ever
  (`ServerResets`, `SendHeader`).
* A recovery that fails unlocks the mutex before the process exits (cf 822-824),
  so that a waiting sender may send on a socket with no session.
  `CommandsNeedSession` and `FrameChannel` name this exception (`mpc = "leave"`,
  `givenUp`).
* `destroy` (cf:976) leaves its pointer: a second SIGINT deletes twice
  (`InterruptAgain`), and the run thread may use the deleted machine
  (`UseDeletedMachine`).
* A server declared down keeps its last delay through the gateway in the learning
  table (sm:538 takes back the own delay only), so that dtable goes on printing it
  and a worse path that works is not taken; `GatewayDelayIsOwn` speaks of servers
  that are up.
* The reply to the ping numbered 65535 is never accepted (sm:431 compares 65536
  with 0): `ReplyDroppedOnlyAtWrap`.
* The time of a probe is stored under the port of a probe relayed meanwhile
  (sm:806): its reply then shows the time since the epoch; `TimeIsOwn` says that
  it never shows another probe's.
* A probe that gets a wrapped port below 8000 is relayed and answered, and the
  answer ignored (sm:180), or, if the port is 1000, 2000 or 5000, relayed as a probe
  or read as an advert of the server (sm:148-151).
* A port that comes again, 65536 probes later, finds the entry of an earlier relayed
  probe: the reply to an own probe then goes to that peer (`port_to_ip` is never
  erased), or is shown with the time of another probe.  `RepliesReachSender` and
  `TimeIsOwn` name this exception (`shared`).  `src_port` itself overflows after 2^31
  probes, which is not modelled.
* A dsa or lsa to a peer whose advert is just being read copies its MAC address from
  a null pointer (`SendProbe`).
* A ping command that overtakes an accepted reply makes the measured delay negative
  (sm:431-432 against 674).  It is stored in 16 bits, and -1 ms is 65535, which reads
  as "down" (sm:433-434): with delays of 1 ms, two ping commands are enough to leave a
  server down that has answered the first.
* A changed octet behind the IP header is not noticed: the node then learns another
  delay or server, or a reply strays (`ChangeNoticed` speaks of the header only).
* A header whose sum carries twice is refused by every receiver, its own kind
  included: a server with an unlucky address cannot be pinged at all.
* The learned delay need not be the minimum of what the peers last advertised:
  the table follows its current hop to a worse value and forgets other offers.
* A server is declared down by the fourth command after the last reply: the
  faults are counted before the next ping is sent.

## 4. Theorems

TLAPS proves the following for all values of the constants that satisfy the named
assumptions, in every reachable state; except for `RouteSerialProofs` and
`ServerSerialProofs`, with commands and frames overlapping or not.  Every invariant
that a passing run checks is the statement of one of them.

`RouteTableProofs`, from `AddressAssumption` (gateway, 0 and peers are distinct
addresses; there are finitely many servers), `TableAssumption` (the own servers
are distinct; **all servers that peers may name fit into the table**) and
`MetricAssumption`:

* `TypeCorrect`, in particular that the table never outgrows `server_infoes[]`,
  though `insert_into_server_infoes` tests no bound;
* `OneRow`, `HopsHeard`, `MacKnown`, `CrashWindow`: the properties of
  `route_rows`.

The invariant `IInv` adds to these `RowsInv` (rows in use have a server's
address, other rows no hop, own rows always a hop), `MainInv` (the index and the
copy that the main thread carries from statement to statement still name the
same server) and `RunInv` (the loop index is a row in use).  `RoomForNewServer`
is the counting argument: a full table with one row per server already holds
every server, so that the search cannot fail.

`RouteSerialProofs` proves the properties of `route_serial`, from the same
assumptions and `~Overlap`: `ValuesBelong`, `LatestLearned`, `GatewayLoss`,
`GatewayDelay`, and the refinements `DelayIsBestPath` and `LossIsBestPath`.  None of
them is inductive: hop and value of a row disagree in the middle of an update or a
reset.  `SInv` says at each statement of either thread which rows are complete,
which one is being written and what has been written of it; that only one thread is
inside a handler (`~Overlap`) is its first part, and the rest is about the one that
is.  The refinements then map each statement that writes a value to an `Offer`, a
`Reset` or a `Measure`, and every other one to a stutter.

`ServerProbeProofs`, from `ProbeAssumption`, for every word length, any number of
pings and every interleaving of the two threads: `TypeCorrect`, `ReceivedOnce`
and `ReplyDropped`.  The fields of a row survive the race where one thread alone
writes them.  `SeqInv` says that `sequence_id` is the number of packets built,
modulo the word length; `CountInv` that `ping_received` is the number of answered
pings, one behind between the match and its increment; `OnceInv` that a reply is on
its way, in the handler or answered, so that no ping is answered twice.  The
arithmetic is in `ModNext`: a counter that wraps at every step agrees with a sum
that wraps once, which rests on the uniqueness of the remainder (`DivUnique`).
`ReplyDropped` then compares `sequence_id + 1`, which is an `int` and does not wrap,
with the field, which does.

`ServerSerialProofs` proves the properties of `probe_serial` from `ProbeAssumption`
and `Serial`: `~Overlap`, `Word > 3` (the fields can count to three) and delays
below `INF` (a delay of 65535 ms reads as "down").  `FaultsMeanDown`,
`PingsCounted`, `LossMatches` and `AverageMeasured` speak of the program at rest;
`SInv` says what holds at each statement in between.  `LastInv` is the heart of it:
a reply under way is less than `Word` pings old and sequence numbers repeat only
after `Word` pings, so a reply that matches answers the last ping (`MatchIsLast`).
`DueInv` says which pings `ping_sent` counts, and that the ping which brings a
server back is counted by its answer; `FaultInv` how `ping_lost_numbers` and the
number of unanswered pings differ at each statement (by one before the fault is
counted, not at all after it); `LossInv` where the loss rate is out of date.

`ProbeRelayProofs`, from `RelayAssumption` (the destination ports of probes and adverts
are below the first source port; nothing about how often a port is given), for any
number of nodes and probes, any word length and any losses: `TypeCorrect`,
`SenderReached`, `OwnTime` and `CrashCause`.  Ports wrap and come again without bound.
What the first two say of a reply is qualified by `shared`: its probe never held, on
any node, a port that another probe was given before or after.  This exception is one
of the code (`port_to_ip` is not erased), and the theorems show that it is the only
one.  `FreshInv` says that a port not yet given is free in every map; a port of a probe
that shares none keeps its owner and its entry in `nat` (`GivenPortsStay`), and
`OwnerInv`, `NetInv`, `RunInv` and `TimeInv` say of every entry, packet, command and
time which probe it belongs to.  `CrashCause` needs a second argument: a node uses a
hop only after its own adverts went out to everybody (`HopInv`), so whoever has a probe
relayed is known to the relay, or its advert is under way or being read (`RelayInv`).

`PacketsProofs`, from `PacketAssumption` (octets, 16-bit fields, any source port from
8000 up, at most 5000 servers, so that the length of an advert fits its field), for all
addresses, ports, sequence numbers, counters, delays and changed octets:
`DropsExplained`, `ChangesNoticed`, `AdvertsArrive`, `ProbesKeepAddress`,
`PingsRight` and `SmallRatesArrive`.  The arithmetic is in lemmas on operators:
folding the carry once accepts exactly the multiples of 2^16 - 1 (`AcceptedIsRight`),
a header signed without a second carry is one (`SignedRight`), one changed octet makes
it none, whichever field it is in (`HeaderChanged`), both checksums hold at the carry
(`IcmpRight`), a port is on the wire what it is modulo 2^16 (`PortOnWire`), addresses
survive the string (`StringRoundTrip`).  `RankOnto` is a counting argument: as many
offsets as reachable rows, no two rows at one offset, so the advert has no gap.  The
invariant `PInv` gives the lengths and protocol of the frame at each stage
(`ShapeInv`) and its ports and addresses, with the node that compares them
(`TripInv`); from the two follows that the branch a frame is meant for takes it
(`BranchFound`).  `CheckInv`, that the checksum in flight is right exactly if nothing
in the header was changed, is `DroppedOnlyAtCarry` and `ChangeNoticed` made inductive.

`ClientFrameworkProofs`, from `ThreadAssumption` (Run is a helper, Main is not),
for any number of sending threads:

* `TypeCorrect`, `SessionForCommands`, `InitializeFirst`, `NoWakeupLost`,
  `OneNewMap`: the invariants of `client`;
* `Exclusion`: no two threads inside `sendFrame`, nor one with a recovery;
* `ImplementsChannel`: `Spec => ChannelSpec`, the refinement that the run checks
  as a property.

`CommandsNeedSession` is not inductive: a sender with the mutex may rely on the
session because Main holds the mutex through a recovery (`LockInv`) and the
session is down only there (`SessionInv`).  `InitInv` says how far the
initialization is, and that Main sleeps only while the signal is still to come: the
mutex alone does not keep Main out.  `WireInv` gives the
last item of the connection at each statement; the refinement needs it, because
`FrameChannel` constrains each item by the one before.  `MapInv` ties the count of
requests for a new map to the stage of the first negotiation, which is the only one
that may ask for it.

Only model-checked: `StartupCompletes`, `SendersReturn` and `ProbesAnswered`.  They
are liveness properties under fairness, which is outside the prover's reach.  The
violations are counterexamples and need no proof.

## 5. Not modelled

* Parsing and printing, of the framework's command line and of the node's tables.
  Of the arguments only `needNewMap` changes after the start.
* `Machine`, `Interface`, `Frame`: data set before the run thread exists.  The node
  never calls the setters of `Interface`.
* MAC addresses as such: `mac_into_byte` (sm:584) scans each octet into an
  `unsigned int` that overlaps the next ones, and the last one writes behind the
  array; what lies there is up to the compiler.
* The end of the standard input: `cin >> command` (sm:232) then leaves the last
  command in place and repeats it for ever.  The models allow any number of
  commands in any order.
* What a process does after undefined behaviour (a null MAC address, a deleted
  machine): it stops.
* A big-endian host, on which `Raw` would be `ntohs` and loss rates would arrive.
* Duplicated replies, replies older than `Word` pings, and delays of 65535 ms.
* The byte counts of a partly sent item.

## 6. Plan

Done: the modules above; the proofs of every invariant that a passing run checks and
of the three refinements.  Next:

1. Proofs about the exceptions, which now are bounds in a property: which headers
   carry twice (`CarriesTwice`), and that a relayed probe of such a header is lost
   at the next node.
2. The safety part of `ProbesAnswered`: a probe that is not answered yet has exactly
   one packet, one command or one of the accidents of `Unlucky`, so that an answer
   is missing only where fairness has still to act.
3. In the same way the safety part of `SendersReturn`: whoever waits for the mutex
   waits for a thread that is not waiting itself.
