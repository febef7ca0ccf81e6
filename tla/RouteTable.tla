------------------------------ MODULE RouteTable ------------------------------
(***************************************************************************)
(* The routing tables of one overlay node (src/user/sm.cpp).               *)
(*                                                                         *)
(* server_infoes[] holds one row per known server.  A row has the node's   *)
(* own measurement of the direct path through the gateway, a learning      *)
(* table (the best next hop heard so far, by delay and by loss) and a      *)
(* forwarding table (the next hops in use).  Two threads share the rows    *)
(* and nothing excludes one from the other: update_learning_table locks    *)
(* the mutex of its by-value copy of the row.                              *)
(*                                                                         *)
(*   main   processFrame: adverts of peers and replies to own pings        *)
(*   run    the commands ping, advertise, dsa and lsa                      *)
(*                                                                         *)
(* A step is one C++ statement on shared fields.  Addresses are members of *)
(* small sets, delays are 0..INF with INF the 65535 of an unreachable      *)
(* server, loss rates are ordinals: only their order matters here, and     *)
(* FullLoss is the rate 1 of a dead path.  The counters from which the     *)
(* node computes its own delay and loss are the subject of ServerProbe.    *)
(***************************************************************************)
EXTENDS Integers, FiniteSets

CONSTANTS
  ServerIps,    \* every server address that the node or a peer may know
  Peers,        \* the other overlay nodes, by address
  Gateway,      \* ip_gateway
  Zero,         \* the address 0 of zeroed static storage: no hop, no server
  NumOwn,       \* number_of_servers, the servers of the custom information
  OwnIp,        \* their addresses, in order
  MaxServers,   \* MAX_SERVER_NUMBERS
  INF,          \* numeric_limits<uint16_t>::max(): not reachable
  LossRates,    \* the loss rates, as ordinals
  FullLoss,     \* the rate 1
  Overlap       \* may a command run while a frame is being processed?

Rows == 0 .. MaxServers - 1
Hops == Peers \cup {Gateway, Zero}
Delays == 0 .. INF

ASSUME AddressAssumption ==
  /\ IsFiniteSet(ServerIps)
  /\ Gateway \notin Peers /\ Zero \notin Peers /\ Gateway # Zero
  /\ Zero \notin ServerIps

ASSUME TableAssumption ==
  /\ NumOwn \in Nat /\ MaxServers \in Nat \ {0}
  /\ OwnIp \in [0 .. NumOwn - 1 -> ServerIps]
  /\ \A i, j \in 0 .. NumOwn - 1 : OwnIp[i] = OwnIp[j] => i = j
  /\ Cardinality(ServerIps) <= MaxServers

ASSUME MetricAssumption ==
  /\ INF \in Nat
  /\ LossRates \subseteq Int /\ FullLoss \in LossRates
  /\ Overlap \in BOOLEAN

VARIABLES
  number_of_all_servers,  \* rows in use
  ip,                     \* server_infoes[r].ip.uint
  rtt_time,               \* server_infoes[r].rtt_time: own delay
  ping_lost_rate,         \* server_infoes[r].ping_lost_rate: own loss
  learnHopRtt,            \* learning_table.ip_next_hop_rtt.uint
  learnRtt,               \* learning_table.rtt_time
  learnHopLost,           \* learning_table.ip_next_hop_lost.uint
  learnLost,              \* learning_table.lost_rate
  fwdHopRtt,              \* forwarding_table.ip_next_hop_rtt.uint
  fwdHopLost,             \* forwarding_table.ip_next_hop_lost.uint
  ip_to_mac,              \* the addresses with an entry in ip_to_mac
  mpc, msrc, mupd, mrow,  \* main: statement, advertiser, server_info, server_id
  rpc, rrow,              \* run: statement, loop index
  heard,                  \* history: <<peer, server>> advertised so far
  fresh,                  \* history: last delay advertised since the reset
  rttVia, lostVia         \* history: the path the learned value measures

own     == <<ip, rtt_time, ping_lost_rate>>
learned == <<learnHopRtt, learnRtt, learnHopLost, learnLost, rttVia, lostVia>>
fwd     == <<fwdHopRtt, fwdHopLost>>
main    == <<mpc, msrc, mupd, mrow>>
run     == <<rpc, rrow>>
history == <<heard, fresh>>
vars    == <<number_of_all_servers, own, learned, fwd, ip_to_mac, main, run,
             history>>

MainPcs == {"idle", "ownLost", "copy", "copyRtt", "advert", "find", "cmpRtt",
            "setHopRtt", "setRtt", "cmpLost", "setHopLost", "setLost", "hung"}
RunPcs == {"idle", "check", "down", "send", "syncTest", "sync", "fillLost",
           "fillRtt", "resetHopLost", "resetRtt", "resetHopRtt", "resetLost",
           "crashed"}

Known == {r \in Rows : r < number_of_all_servers}
Update == [ip : ServerIps \cup {Zero}, rtt : Delays, lost : LossRates,
           hop : Hops]
NoUpdate == [ip |-> Zero, rtt |-> INF, lost |-> FullLoss, hop |-> Zero]

(***************************************************************************)
(* initialize and initialize_server_information: the rows of the custom    *)
(* information start on the gateway; every other row is static storage.    *)
(* A row not in use holds 0, which learning fields take as INF/FullLoss    *)
(* when the row is inserted.                                               *)
(***************************************************************************)
Init ==
  LET hop == [r \in Rows |-> IF r < NumOwn THEN Gateway ELSE Zero]
  IN /\ number_of_all_servers = NumOwn
     /\ ip = [r \in Rows |-> IF r < NumOwn THEN OwnIp[r] ELSE Zero]
     /\ rtt_time = [r \in Rows |-> INF]
     /\ ping_lost_rate = [r \in Rows |-> FullLoss]
     /\ learnHopRtt = hop /\ learnHopLost = hop
     /\ fwdHopRtt = hop /\ fwdHopLost = hop
     /\ rttVia = hop /\ lostVia = hop
     /\ learnRtt = [r \in Rows |-> INF]
     /\ learnLost = [r \in Rows |-> FullLoss]
     /\ ip_to_mac = {}
     /\ mpc = "idle" /\ msrc = Zero /\ mupd = NoUpdate /\ mrow = 0
     /\ rpc = "idle" /\ rrow = 0
     /\ heard = {}
     /\ fresh = [p \in Peers |-> [s \in ServerIps |-> INF]]

-----------------------------------------------------------------------------
(* The main thread.                                                        *)

Running == rpc # "crashed"
MainMayStart == mpc = "idle" /\ Running /\ (Overlap \/ rpc = "idle")
MainAt(l) == mpc = l /\ Running

\* receive_ping_packet on own row i: the new delay, then the new loss rate,
\* then update_learning_table on a copy of the row with the gateway as hop.
ReceivePing(i, r) ==
  /\ MainMayStart
  /\ rtt_time' = [rtt_time EXCEPT ![i] = r]
  /\ mpc' = "ownLost" /\ mrow' = i /\ msrc' = Gateway
  /\ UNCHANGED <<number_of_all_servers, ip, ping_lost_rate, learned, fwd,
                 ip_to_mac, mupd, run, history>>

SetOwnLost(l) ==
  /\ MainAt("ownLost")
  /\ ping_lost_rate' = [ping_lost_rate EXCEPT ![mrow] = l]
  /\ mpc' = "copy"
  /\ UNCHANGED <<number_of_all_servers, ip, rtt_time, learned, fwd, ip_to_mac,
                 msrc, mupd, mrow, run, history>>

\* The members of the row are copied in the order of their declaration.
CopyLost ==
  /\ MainAt("copy")
  /\ mupd' = [mupd EXCEPT !.ip = ip[mrow], !.lost = ping_lost_rate[mrow],
                          !.hop = Gateway]
  /\ mpc' = "copyRtt"
  /\ UNCHANGED <<number_of_all_servers, own, learned, fwd, ip_to_mac, msrc,
                 mrow, run, history>>

CopyRtt ==
  /\ MainAt("copyRtt")
  /\ mupd' = [mupd EXCEPT !.rtt = rtt_time[mrow]]
  /\ mpc' = "find"
  /\ UNCHANGED <<number_of_all_servers, own, learned, fwd, ip_to_mac, msrc,
                 mrow, run, history>>

\* receive_advertise_data: any number of entries from peer p, one
\* update_learning_table per entry, and then store_mac_addr_to_map.
ReceiveAdvert(p) ==
  /\ MainMayStart
  /\ mpc' = "advert" /\ msrc' = p
  /\ UNCHANGED <<number_of_all_servers, own, learned, fwd, ip_to_mac, mupd,
                 mrow, run, history>>

AdvertEntry(s, r, l) ==
  /\ MainAt("advert")
  /\ mupd' = [ip |-> s, rtt |-> r, lost |-> l, hop |-> msrc]
  /\ mpc' = "find"
  /\ heard' = heard \cup {<<msrc, s>>}
  /\ fresh' = [fresh EXCEPT ![msrc][s] = r]
  /\ UNCHANGED <<number_of_all_servers, own, learned, fwd, ip_to_mac, msrc,
                 mrow, run>>

\* Mutant: the address is copied and never entered in the map.
StoreNoMac(p) == ip_to_mac

StoreMacOf(p) == ip_to_mac \cup {p}

StoreMac ==
  /\ MainAt("advert")
  /\ ip_to_mac' = StoreMacOf(msrc)
  /\ mpc' = "idle" /\ msrc' = Zero
  /\ UNCHANGED <<number_of_all_servers, own, learned, fwd, mupd, mrow, run,
                 history>>

\* The server_info of an advert entry is a local whose mutex was never
\* initialised, so locking it may block for ever.  A ping's copy comes from a
\* row whose mutex is initialised and never held.
LockUninitialisedMutex ==
  /\ MainAt("find")
  /\ mupd.hop # Gateway
  /\ mpc' = "hung"
  /\ UNCHANGED <<number_of_all_servers, own, learned, fwd, ip_to_mac, msrc,
                 mupd, mrow, run, history>>

\* Mutants: a search over number_of_servers rows, one that starts behind them,
\* and one that answers 0, as ip_to_id does, for an unknown address.
IndexInOwnRows(a) ==
  IF \E r \in 0 .. NumOwn - 1 : ip[r] = a
  THEN CHOOSE r \in 0 .. NumOwn - 1 : ip[r] = a ELSE -1
IndexBehindOwnRows(a) ==
  IF \E r \in Known : r >= NumOwn /\ ip[r] = a
  THEN CHOOSE r \in Known : r >= NumOwn /\ ip[r] = a ELSE -1
IndexOrZero(a) ==
  IF \E r \in Known : ip[r] = a THEN CHOOSE r \in Known : ip[r] = a ELSE 0

\* get_index_by_ip: the first row with the address, -1 when there is none.
get_index_by_ip(a) ==
  LET rows == {r \in Known : ip[r] = a}
  IN IF rows = {} THEN -1 ELSE CHOOSE r \in rows : \A q \in rows : r <= q

\* update_learning_table, first part: the row of the address, or a new row
\* from insert_into_server_infoes, which leaves the row's next hops at 0.
FindRow ==
  LET r == get_index_by_ip(mupd.ip)
  IN /\ MainAt("find")
     /\ r # -1
     /\ mrow' = r /\ mpc' = "cmpRtt"
     /\ UNCHANGED <<number_of_all_servers, own, learned, fwd, ip_to_mac, msrc,
                    mupd, run, history>>

insert_into_server_infoes ==
  LET r == number_of_all_servers
  IN /\ MainAt("find")
     /\ get_index_by_ip(mupd.ip) = -1
     /\ ip' = [ip EXCEPT ![r] = mupd.ip]
     /\ ping_lost_rate' = [ping_lost_rate EXCEPT ![r] = FullLoss]
     /\ learnLost' = [learnLost EXCEPT ![r] = FullLoss]
     /\ rtt_time' = [rtt_time EXCEPT ![r] = INF]
     /\ learnRtt' = [learnRtt EXCEPT ![r] = INF]
     /\ number_of_all_servers' = r + 1
     /\ mrow' = r /\ mpc' = "cmpRtt"
     /\ UNCHANGED <<learnHopRtt, learnHopLost, rttVia, lostVia, fwd, ip_to_mac,
                    msrc, mupd, run, history>>

\* Mutants: only a better path is taken, or only peers' news of their own path;
\* a path as good is taken too.
TakesBetterDelay(r, u) == learnRtt[r] > u.rtt
TakesPeersDelay(r, u) == (u.hop = learnHopRtt[r] /\ u.hop # Gateway)
                         \/ learnRtt[r] > u.rtt
TakesEqualDelay(r, u) == u.hop = learnHopRtt[r] \/ learnRtt[r] >= u.rtt
TakesEqualLoss(r, u) == u.hop = learnHopLost[r] \/ learnLost[r] >= u.lost

\* The learning table follows its own next hop up and down, and any other
\* path only when that path is better.
TakesDelay(r, u) == u.hop = learnHopRtt[r] \/ learnRtt[r] > u.rtt
TakesLoss(r, u) == u.hop = learnHopLost[r] \/ learnLost[r] > u.lost

CompareRtt ==
  /\ MainAt("cmpRtt")
  /\ mpc' = IF TakesDelay(mrow, mupd) THEN "setHopRtt" ELSE "cmpLost"
  /\ UNCHANGED <<number_of_all_servers, own, learned, fwd, ip_to_mac, msrc,
                 mupd, mrow, run, history>>

SetHopRtt ==
  /\ MainAt("setHopRtt")
  /\ learnHopRtt' = [learnHopRtt EXCEPT ![mrow] = mupd.hop]
  /\ mpc' = "setRtt"
  /\ UNCHANGED <<number_of_all_servers, own, learnRtt, learnHopLost, learnLost,
                 rttVia, lostVia, fwd, ip_to_mac, msrc, mupd, mrow, run,
                 history>>

SetRtt ==
  /\ MainAt("setRtt")
  /\ learnRtt' = [learnRtt EXCEPT ![mrow] = mupd.rtt]
  /\ rttVia' = [rttVia EXCEPT ![mrow] = mupd.hop]
  /\ mpc' = "cmpLost"
  /\ UNCHANGED <<number_of_all_servers, own, learnHopRtt, learnHopLost,
                 learnLost, lostVia, fwd, ip_to_mac, msrc, mupd, mrow, run,
                 history>>

\* Back to the advert's next entry, or out of receive_ping_packet; the locals
\* of update_learning_table end with it.
LeaveUpdate ==
  /\ mpc' = IF mupd.hop = Gateway THEN "idle" ELSE "advert"
  /\ msrc' = IF mupd.hop = Gateway THEN Zero ELSE msrc
  /\ mupd' = NoUpdate /\ mrow' = 0

CompareLost ==
  /\ MainAt("cmpLost")
  /\ IF TakesLoss(mrow, mupd)
     THEN mpc' = "setHopLost" /\ UNCHANGED <<msrc, mupd, mrow>>
     ELSE LeaveUpdate
  /\ UNCHANGED <<number_of_all_servers, own, learned, fwd, ip_to_mac, run,
                 history>>

SetHopLost ==
  /\ MainAt("setHopLost")
  /\ learnHopLost' = [learnHopLost EXCEPT ![mrow] = mupd.hop]
  /\ mpc' = "setLost"
  /\ UNCHANGED <<number_of_all_servers, own, learnHopRtt, learnRtt, learnLost,
                 rttVia, lostVia, fwd, ip_to_mac, msrc, mupd, mrow, run,
                 history>>

SetLost ==
  /\ MainAt("setLost")
  /\ learnLost' = [learnLost EXCEPT ![mrow] = mupd.lost]
  /\ lostVia' = [lostVia EXCEPT ![mrow] = mupd.hop]
  /\ LeaveUpdate
  /\ UNCHANGED <<number_of_all_servers, own, learnHopRtt, learnRtt,
                 learnHopLost, rttVia, fwd, ip_to_mac, run, history>>

MainNext ==
  \/ \E i \in 0 .. NumOwn - 1, r \in Delays : ReceivePing(i, r)
  \/ \E l \in LossRates : SetOwnLost(l)
  \/ CopyLost \/ CopyRtt
  \/ \E p \in Peers : ReceiveAdvert(p)
  \/ \E s \in ServerIps, r \in Delays \ {INF}, l \in LossRates :
       AdvertEntry(s, r, l)
  \/ StoreMac
  \/ LockUninitialisedMutex
  \/ FindRow \/ insert_into_server_infoes
  \/ CompareRtt \/ SetHopRtt \/ SetRtt
  \/ CompareLost \/ SetHopLost \/ SetLost

-----------------------------------------------------------------------------
(* The run thread.                                                         *)

RunMayStart == rpc = "idle" /\ (Overlap \/ mpc \in {"idle", "hung"})

\* The loops over the rows: the next row of the same loop, or the first
\* statement of the next loop on row 0.  The bound of the loops over all
\* servers is read again on every turn.
Step(pc, row) == rpc' = pc /\ rrow' = row
NextRow(bound, again, after) ==
  IF rrow + 1 < bound THEN Step(again, rrow + 1) ELSE Step(after, 0)

\* "ping": check_connections_is_alive on every own row and then
\* send_icmp_packet on every own row.
PingCommand ==
  /\ RunMayStart
  /\ NumOwn > 0
  /\ Step("check", 0)
  /\ UNCHANGED <<number_of_all_servers, own, learned, fwd, ip_to_mac, main,
                 history>>

CheckAlive ==
  /\ rpc = "check"
  /\ NextRow(NumOwn, "check", "send")
  /\ UNCHANGED <<number_of_all_servers, own, learned, fwd, ip_to_mac, main,
                 history>>

CheckDown ==
  /\ rpc = "check"
  /\ ping_lost_rate' = [ping_lost_rate EXCEPT ![rrow] = FullLoss]
  /\ Step("down", rrow)
  /\ UNCHANGED <<number_of_all_servers, ip, rtt_time, learned, fwd, ip_to_mac,
                 main, history>>

SetDown ==
  /\ rpc = "down"
  /\ rtt_time' = [rtt_time EXCEPT ![rrow] = INF]
  /\ NextRow(NumOwn, "check", "send")
  /\ UNCHANGED <<number_of_all_servers, ip, ping_lost_rate, learned, fwd,
                 ip_to_mac, main, history>>

\* update_server_information: one more ping sent to a reachable server raises
\* its loss rate, and the learning table follows when its hop is the gateway.
CountPing(l) ==
  /\ rpc = "send"
  /\ rtt_time[rrow] # INF
  /\ ping_lost_rate' = [ping_lost_rate EXCEPT ![rrow] = l]
  /\ Step("syncTest", rrow)
  /\ UNCHANGED <<number_of_all_servers, ip, rtt_time, learned, fwd, ip_to_mac,
                 main, history>>

PingUnreachable ==
  /\ rpc = "send"
  /\ rtt_time[rrow] = INF
  /\ Step("syncTest", rrow)
  /\ UNCHANGED <<number_of_all_servers, own, learned, fwd, ip_to_mac, main,
                 history>>

\* Mutant: the learning table waits for the next answer.
FollowsNoLoss(r) == FALSE

FollowsOwnLoss(r) == learnHopLost[r] = Gateway

SyncTest ==
  /\ rpc = "syncTest"
  /\ IF FollowsOwnLoss(rrow) THEN Step("sync", rrow)
                             ELSE NextRow(NumOwn, "send", "idle")
  /\ UNCHANGED <<number_of_all_servers, own, learned, fwd, ip_to_mac, main,
                 history>>

SyncLost ==
  /\ rpc = "sync"
  /\ learnLost' = [learnLost EXCEPT ![rrow] = ping_lost_rate[rrow]]
  /\ lostVia' = [lostVia EXCEPT ![rrow] = Gateway]
  /\ NextRow(NumOwn, "send", "idle")
  /\ UNCHANGED <<number_of_all_servers, own, learnHopRtt, learnRtt,
                 learnHopLost, rttVia, fwd, ip_to_mac, main, history>>

\* "advertise": advertise_data broadcasts the reachable own rows and changes
\* no row; fill_forwarding_table and reset_learning_table follow.
AdvertiseCommand ==
  /\ RunMayStart
  /\ number_of_all_servers > 0
  /\ Step("fillLost", 0)
  /\ UNCHANGED <<number_of_all_servers, own, learned, fwd, ip_to_mac, main,
                 history>>

FillLost ==
  /\ rpc = "fillLost"
  /\ fwdHopLost' = [fwdHopLost EXCEPT ![rrow] = learnHopLost[rrow]]
  /\ Step("fillRtt", rrow)
  /\ UNCHANGED <<number_of_all_servers, own, learned, fwdHopRtt, ip_to_mac,
                 main, history>>

FillRtt ==
  /\ rpc = "fillRtt"
  /\ fwdHopRtt' = [fwdHopRtt EXCEPT ![rrow] = learnHopRtt[rrow]]
  /\ NextRow(number_of_all_servers, "fillLost", "resetHopLost")
  /\ UNCHANGED <<number_of_all_servers, own, learned, fwdHopLost, ip_to_mac,
                 main, history>>

ResetHopLost ==
  /\ rpc = "resetHopLost"
  /\ learnHopLost' = [learnHopLost EXCEPT ![rrow] = Gateway]
  /\ Step("resetRtt", rrow)
  /\ UNCHANGED <<number_of_all_servers, own, learnHopRtt, learnRtt, learnLost,
                 rttVia, lostVia, fwd, ip_to_mac, main, history>>

ResetRtt ==
  /\ rpc = "resetRtt"
  /\ learnRtt' = [learnRtt EXCEPT ![rrow] = rtt_time[rrow]]
  /\ rttVia' = [rttVia EXCEPT ![rrow] = Gateway]
  /\ fresh' = [p \in Peers |-> [fresh[p] EXCEPT ![ip[rrow]] = INF]]
  /\ Step("resetHopRtt", rrow)
  /\ UNCHANGED <<number_of_all_servers, own, learnHopRtt, learnHopLost,
                 learnLost, lostVia, fwd, ip_to_mac, main, heard>>

\* Mutant: the delay is reset and its next hop is not.
ResetHopRttForgotten ==
  /\ rpc = "resetHopRtt"
  /\ Step("resetLost", rrow)
  /\ UNCHANGED <<number_of_all_servers, own, learned, fwd, ip_to_mac, main,
                 history>>

ResetHopRtt ==
  /\ rpc = "resetHopRtt"
  /\ learnHopRtt' = [learnHopRtt EXCEPT ![rrow] = Gateway]
  /\ Step("resetLost", rrow)
  /\ UNCHANGED <<number_of_all_servers, own, learnRtt, learnHopLost, learnLost,
                 rttVia, lostVia, fwd, ip_to_mac, main, history>>

ResetLost ==
  /\ rpc = "resetLost"
  /\ learnLost' = [learnLost EXCEPT ![rrow] = ping_lost_rate[rrow]]
  /\ lostVia' = [lostVia EXCEPT ![rrow] = Gateway]
  /\ NextRow(number_of_all_servers, "resetHopLost", "idle")
  /\ UNCHANGED <<number_of_all_servers, own, learnHopRtt, learnRtt,
                 learnHopLost, rttVia, fwd, ip_to_mac, main, history>>

\* "dsa" and "lsa": is_server_valid accepts every row, but ip_to_id knows own
\* servers only and default-inserts 0 for the others.  send_udp_packet sends
\* to the gateway, or copies the MAC address of the hop: with no entry in
\* ip_to_mac it copies from a null pointer and the process dies.
ip_to_id(d) == IF \E i \in 0 .. NumOwn - 1 : OwnIp[i] = d
               THEN CHOOSE i \in 0 .. NumOwn - 1 : OwnIp[i] = d
               ELSE 0
HopsOf(r) == {fwdHopRtt[r], fwdHopLost[r]}
\* Mutant: the gateway is looked up among the peers.
ReachableAsPeer(h) == h \in ip_to_mac

Reachable(h) == h = Gateway \/ h \in ip_to_mac

SendProbe(d, h) ==
  /\ RunMayStart
  /\ \E r \in Known : ip[r] = d
  /\ h \in HopsOf(ip_to_id(d))
  /\ rpc' = IF Reachable(h) THEN "idle" ELSE "crashed"
  /\ UNCHANGED <<number_of_all_servers, own, learned, fwd, ip_to_mac, main,
                 rrow, history>>

RunNext ==
  \/ PingCommand \/ CheckAlive \/ CheckDown \/ SetDown
  \/ \E l \in LossRates : CountPing(l)
  \/ PingUnreachable \/ SyncTest \/ SyncLost
  \/ AdvertiseCommand \/ FillLost \/ FillRtt
  \/ ResetHopLost \/ ResetRtt \/ ResetHopRtt \/ ResetLost
  \/ \E d \in ServerIps, h \in Hops : SendProbe(d, h)

Next == MainNext \/ RunNext

Spec == Init /\ [][Next]_vars

-----------------------------------------------------------------------------
(* Properties.                                                             *)

\* Every variable holds a value of its kind and the table never outgrows
\* server_infoes[], whose size no insertion tests.
TypeOK ==
  /\ number_of_all_servers \in NumOwn .. MaxServers
  /\ ip \in [Rows -> ServerIps \cup {Zero}]
  /\ rtt_time \in [Rows -> Delays]
  /\ ping_lost_rate \in [Rows -> LossRates]
  /\ learnHopRtt \in [Rows -> Hops] /\ learnHopLost \in [Rows -> Hops]
  /\ learnRtt \in [Rows -> Delays] /\ learnLost \in [Rows -> LossRates]
  /\ fwdHopRtt \in [Rows -> Hops] /\ fwdHopLost \in [Rows -> Hops]
  /\ rttVia \in [Rows -> Hops] /\ lostVia \in [Rows -> Hops]
  /\ ip_to_mac \subseteq Peers
  /\ mpc \in MainPcs /\ msrc \in Hops /\ mupd \in Update /\ mrow \in Rows
  /\ rpc \in RunPcs /\ rrow \in Rows
  /\ heard \subseteq Peers \X ServerIps
  /\ fresh \in [Peers -> [ServerIps -> Delays]]

\* A server has one row: an address that two adverts, or an advert and the
\* custom information, name is never inserted twice (get_index_by_ip before
\* insert_into_server_infoes), whatever the run thread does meanwhile.
OneRowPerServer ==
  \A r, q \in Known : ip[r] = ip[q] => r = q

\* A peer is the next hop of a server, in either table, only if that peer
\* advertised that very server: no interleaving of fill_forwarding_table and
\* reset_learning_table with update_learning_table moves a hop to another row.
HopsWereHeard ==
  \A r \in Known :
    \A p \in {learnHopRtt[r], learnHopLost[r], fwdHopRtt[r], fwdHopLost[r]} :
      p \in Peers => <<p, ip[r]>> \in heard

\* A peer in use as a next hop has its MAC address in ip_to_mac, except while
\* its first advert is being read: store_mac_addr_to_map comes last.
MacBehindHop ==
  \A r \in Known :
    \A p \in {learnHopRtt[r], learnHopLost[r], fwdHopRtt[r], fwdHopLost[r]} :
      p \in Peers => p \in ip_to_mac \/ (mpc # "idle" /\ msrc = p)

\* With an own server configured, dsa and lsa can only run into a missing MAC
\* address while the advert that named the hop is still being read.
CrashOnlyDuringAdvert ==
  rpc = "crashed" /\ NumOwn > 0 => mpc # "idle" /\ msrc \in Peers \ ip_to_mac

AtRest == mpc = "idle" /\ rpc = "idle"

\* When neither thread is inside a handler, a learned delay or loss rate was
\* measured on the path through the learned next hop (update_learning_table
\* and reset_learning_table write hop and value in separate statements).
ValueBelongsToHop ==
  AtRest => \A r \in Known : rttVia[r] = learnHopRtt[r]
                             /\ lostVia[r] = learnHopLost[r]

\* A delay learned from a peer is the last one this peer advertised for the
\* server: update_learning_table takes a worse value from its current hop.
LearnedIsLatest ==
  AtRest => \A r \in Known :
    learnHopRtt[r] \in Peers => learnRtt[r] = fresh[learnHopRtt[r]][ip[r]]

\* While the gateway is the loss-based next hop of a server, the learned loss
\* rate is the node's own current one, through every ping sent, answered or
\* lost and every connection declared down.
GatewayLossIsOwn ==
  AtRest => \A r \in Known :
    learnHopLost[r] = Gateway => learnLost[r] = ping_lost_rate[r]

\* While the gateway is the delay-based next hop of a server that is up, the
\* learned delay is the node's own average, as the last ping left it.  (A server
\* declared down keeps its last delay in the learning table.)
GatewayDelayIsOwn ==
  AtRest => \A r \in Known :
    learnHopRtt[r] = Gateway /\ rtt_time[r] # INF => learnRtt[r] = rtt_time[r]

\* The learning tables are best paths: with no command during a frame, the path
\* by delay and the path by loss of every server change as BestPath allows.
DelayPath == INSTANCE BestPath WITH via <- rttVia, cost <- learnRtt,
                                    own <- rtt_time, Costs <- Delays
LossPath == INSTANCE BestPath WITH via <- lostVia, cost <- learnLost,
                                   own <- ping_lost_rate, Costs <- LossRates
BestDelay == DelayPath!Spec
BestLoss == LossPath!Spec

\* "print routing information based on minimum delay(RTT)!" (sm.cpp:333): once
\* fill_forwarding_table has filled a row, dsa and lsa send to a next hop that
\* dtable and ltable print for the server.
ProbeFollowsTable ==
  AtRest => \A r \in Known :
    Zero \notin HopsOf(r) => HopsOf(ip_to_id(ip[r])) \subseteq HopsOf(r)
=============================================================================
