-------------------------- MODULE RouteSerialProofs --------------------------
(***************************************************************************)
(* What the routing tables keep when no command runs while a frame is      *)
(* being processed (~Overlap), for every number of peers, servers and rows.*)
(* The races that MCRouteRace.cfg shows are then impossible, and a learned *)
(* value always belongs to its hop.                                        *)
(*                                                                         *)
(* The properties speak of states in which both threads are at rest.  The  *)
(* invariant says in addition which row is out of step in which statement, *)
(* and that the copy the main thread works on is still what the shared     *)
(* fields hold: the comparison made in one statement is good for the       *)
(* writes in the next ones.                                                *)
(***************************************************************************)
EXTENDS RouteTableProofs

\* One thread at a time.
Serial == rpc \in {"idle", "crashed"} \/ mpc \in {"idle", "hung"}

\* A row not in use is as insert_into_server_infoes will leave it.
Unused ==
  \A r \in Rows \ Known :
    /\ rtt_time[r] = INF /\ learnRtt[r] = INF
    /\ ping_lost_rate[r] = FullLoss /\ learnLost[r] = FullLoss

ResetPcs == {"resetRtt", "resetHopRtt", "resetLost"}

\* Hop and value are of one path, but between the two writes.
DelayPathOK(r) ==
  \/ rttVia[r] = learnHopRtt[r]
  \/ mpc = "setRtt" /\ mrow = r
  \/ rpc = "resetHopRtt" /\ rrow = r
LossPathOK(r) ==
  \/ lostVia[r] = learnHopLost[r]
  \/ mpc = "setLost" /\ mrow = r
  \/ rpc \in ResetPcs /\ rrow = r
PathInv == \A r \in Rows : DelayPathOK(r) /\ LossPathOK(r)

\* The first of the two writes is still there at the second.
HalfInv ==
  /\ mpc = "setRtt" => learnHopRtt[mrow] = mupd.hop
  /\ mpc = "setLost" => learnHopLost[mrow] = mupd.hop
  /\ rpc = "resetHopRtt" => rttVia[rrow] = Gateway
  /\ rpc \in ResetPcs \cup {"sync"} => learnHopLost[rrow] = Gateway

\* The comparison still holds at the writes.
ChoiceInv ==
  /\ mpc \in {"setHopRtt", "setRtt"} =>
       mupd.hop = rttVia[mrow] \/ learnRtt[mrow] > mupd.rtt
  /\ mpc \in {"setHopLost", "setLost"} =>
       mupd.hop = lostVia[mrow] \/ learnLost[mrow] > mupd.lost

\* The copy of an own row is still equal to the row.
OwnInv ==
  /\ mpc \in {"copyRtt", "find"} /\ msrc = Gateway =>
       mrow \in Known /\ mupd.ip = ip[mrow]
  /\ mpc \in UpdatePcs \cup {"copyRtt", "find"} /\ msrc = Gateway =>
       mupd.lost = ping_lost_rate[mrow]
  /\ mpc \in UpdatePcs \cup {"find"} /\ msrc = Gateway =>
       mupd.rtt = rtt_time[mrow]

DelayPcs == {"find", "cmpRtt", "setHopRtt", "setRtt"}

\* A peer's last advert is the learned delay, or is about to be.
LatestOK(r) ==
  learnHopRtt[r] \in Peers =>
    \/ learnRtt[r] = fresh[learnHopRtt[r]][ip[r]]
    \/ mpc \in DelayPcs /\ mupd.ip = ip[r] /\ learnHopRtt[r] = msrc
    \/ rpc = "resetHopRtt" /\ rrow = r
LatestInv ==
  /\ mpc \in DelayPcs /\ msrc \in Peers => mupd.rtt = fresh[msrc][mupd.ip]
  /\ mpc # "hung" => \A r \in Known : LatestOK(r)

\* The own loss is the learned one, or is about to be.
OwnLossOK(r) ==
  learnHopLost[r] = Gateway =>
    \/ learnLost[r] = ping_lost_rate[r]
    \/ mpc \in {"copy", "copyRtt"} /\ mrow = r
    \/ mpc \in UpdatePcs \cup {"find"} /\ msrc = Gateway /\ mupd.ip = ip[r]
    \/ rpc \in {"check", "down"} /\ r < NumOwn
    \/ rpc \in {"send", "syncTest", "sync"} /\ rrow <= r /\ r < NumOwn
    \/ rpc \in ResetPcs /\ rrow = r
LossInv == \A r \in Known : OwnLossOK(r)

\* The own delay of a server that is up is the learned one, or is about to be.
OwnDelayOK(r) ==
  learnHopRtt[r] = Gateway /\ rtt_time[r] # INF =>
    \/ learnRtt[r] = rtt_time[r]
    \/ mpc \in {"ownLost", "copy", "copyRtt"} /\ mrow = r
    \/ mpc \in DelayPcs /\ msrc = Gateway /\ mupd.ip = ip[r]
DelayInv ==
  /\ rpc = "resetHopRtt" => learnRtt[rrow] = rtt_time[rrow]
  /\ \A r \in Known : OwnDelayOK(r)

SInv == IInv /\ Serial /\ Unused /\ PathInv /\ HalfInv /\ ChoiceInv
        /\ OwnInv /\ LatestInv /\ LossInv /\ DelayInv

-----------------------------------------------------------------------------
LEMMA InitSInv == Init => SInv
<1> SUFFICES ASSUME Init PROVE SInv OBVIOUS
<1> USE DEF Init
<1>1. IInv BY InitIInv
<1>2. Serial /\ HalfInv /\ ChoiceInv /\ OwnInv
  BY DEF Serial, HalfInv, ResetPcs, ChoiceInv, OwnInv, UpdatePcs
<1>3. Unused /\ PathInv BY DEF Unused, PathInv, DelayPathOK, LossPathOK, Known
<1>4. LatestInv /\ DelayInv
  BY AddressAssumption
  DEF LatestInv, LatestOK, DelayInv, OwnDelayOK, DelayPcs, Known
<1>5. LossInv BY DEF LossInv, OwnLossOK, Known
<1> QED BY <1>1, <1>2, <1>3, <1>4, <1>5 DEF SInv

-----------------------------------------------------------------------------
(* The threads take turns.                                                 *)

\* A step of the main thread finds the run thread between commands,
LEMMA MainAlone ==
  ASSUME ~Overlap, Serial, MainNext, [Next]_vars
  PROVE  rpc = "idle" /\ UNCHANGED run
<1>1. rpc = "idle"
  BY DEF Serial, MainNext, MainAt, Running, MainMayStart,
     ReceivePing, SetOwnLost, CopyLost, CopyRtt, ReceiveAdvert, AdvertEntry,
     StoreMac, LockUninitialisedMutex, FindRow, insert_into_server_infoes,
     CompareRtt, SetHopRtt, SetRtt, CompareLost, SetHopLost, SetLost
<1> QED
  BY <1>1 DEF MainNext, run,
     ReceivePing, SetOwnLost, CopyLost, CopyRtt, ReceiveAdvert, AdvertEntry,
     StoreMac, LockUninitialisedMutex, FindRow, insert_into_server_infoes,
     CompareRtt, SetHopRtt, SetRtt, CompareLost, SetHopLost, SetLost

\* and a step of the run thread finds the main thread between frames.
LEMMA RunAlone ==
  ASSUME ~Overlap, Serial, RunNext
  PROVE  /\ mpc \in {"idle", "hung"}
         /\ UNCHANGED <<number_of_all_servers, ip, main>>
BY DEF Serial, RunNext, RunMayStart, own, PingCommand, CheckAlive, CheckDown,
   SetDown, CountPing, PingUnreachable, SyncTest, SyncLost, AdvertiseCommand,
   FillLost, FillRtt, ResetHopLost, ResetRtt, ResetHopRtt, ResetLost, SendProbe

LEMMA SerialStep == ~Overlap /\ Serial /\ [Next]_vars => Serial'
<1> SUFFICES ASSUME ~Overlap, Serial, [Next]_vars PROVE Serial' OBVIOUS
<1>1. CASE MainNext BY <1>1, MainAlone DEF Serial, run
<1>2. CASE RunNext BY <1>2, RunAlone DEF Serial, main
<1>3. CASE UNCHANGED vars BY <1>3 DEF Serial, vars, main, run
<1> QED BY <1>1, <1>2, <1>3 DEF Next

-----------------------------------------------------------------------------
(* Who writes what.                                                        *)

LEMMA LearnedFrame ==
  [Next]_vars =>
    /\ SetHopRtt \/ ResetHopRtt \/ UNCHANGED learnHopRtt
    /\ SetRtt \/ ResetRtt \/ UNCHANGED rttVia
    /\ SetRtt \/ ResetRtt \/ insert_into_server_infoes \/ UNCHANGED learnRtt
    /\ SetHopLost \/ ResetHopLost \/ UNCHANGED learnHopLost
    /\ SetLost \/ SyncLost \/ ResetLost \/ UNCHANGED lostVia
    /\ SetLost \/ SyncLost \/ ResetLost \/ insert_into_server_infoes
       \/ UNCHANGED learnLost
BY DEF Next, MainNext, RunNext, vars, own, learned, fwd, main, run, history,
  ReceivePing, SetOwnLost, CopyLost, CopyRtt, ReceiveAdvert, AdvertEntry,
  StoreMac, LockUninitialisedMutex, FindRow, insert_into_server_infoes,
  CompareRtt, SetHopRtt, SetRtt,
  CompareLost, SetHopLost, SetLost, PingCommand, CheckAlive, CheckDown, SetDown,
  CountPing, PingUnreachable, SyncTest, SyncLost, AdvertiseCommand, FillLost,
  FillRtt, ResetHopLost, ResetRtt, ResetHopRtt, ResetLost, SendProbe

\* A statement that writes leaves its place by that write only.
LEMMA DelayWriters ==
  [Next]_vars =>
    /\ mpc = "setRtt" => SetRtt \/ UNCHANGED main
    /\ rpc = "resetHopRtt" => ResetHopRtt \/ UNCHANGED run
BY DEF Next, MainNext, RunNext, vars, main, run, MainAt, MainMayStart,
  RunMayStart,
  ReceivePing, SetOwnLost, CopyLost, CopyRtt, ReceiveAdvert, AdvertEntry,
  StoreMac, LockUninitialisedMutex, FindRow, insert_into_server_infoes,
  CompareRtt, SetHopRtt, SetRtt,
  CompareLost, SetHopLost, SetLost, PingCommand, CheckAlive, CheckDown, SetDown,
  CountPing, PingUnreachable, SyncTest, SyncLost, AdvertiseCommand, FillLost,
  FillRtt, ResetHopLost, ResetRtt, ResetHopRtt, ResetLost, SendProbe

LEMMA LossWriters ==
  [Next]_vars =>
    /\ mpc = "setLost" => SetLost \/ UNCHANGED main
    /\ rpc \in ResetPcs => \/ ResetLost \/ UNCHANGED run
                           \/ rpc' \in ResetPcs /\ UNCHANGED rrow
BY DEF Next, MainNext, RunNext, vars, main, run, MainAt, MainMayStart,
  RunMayStart, ResetPcs, Step,
  ReceivePing, SetOwnLost, CopyLost, CopyRtt, ReceiveAdvert, AdvertEntry,
  StoreMac, LockUninitialisedMutex, FindRow, insert_into_server_infoes,
  CompareRtt, SetHopRtt, SetRtt,
  CompareLost, SetHopLost, SetLost, PingCommand, CheckAlive, CheckDown, SetDown,
  CountPing, PingUnreachable, SyncTest, SyncLost, AdvertiseCommand, FillLost,
  FillRtt, ResetHopLost, ResetRtt, ResetHopRtt, ResetLost, SendProbe

\* The own measurements are written by the main thread for a reply and by the
\* run thread for the command ping.
OwnDelayWrite ==
  SetDown \/ \E i \in 0 .. NumOwn - 1, c \in Delays : ReceivePing(i, c)
OwnLossWrite ==
  CheckDown \/ (\E l \in LossRates : SetOwnLost(l))
            \/ (\E l \in LossRates : CountPing(l))

LEMMA OwnFrame ==
  [Next]_vars =>
    /\ OwnDelayWrite \/ insert_into_server_infoes \/ UNCHANGED rtt_time
    /\ OwnLossWrite \/ insert_into_server_infoes \/ UNCHANGED ping_lost_rate
<1> SUFFICES ASSUME [Next]_vars
    PROVE /\ OwnDelayWrite \/ insert_into_server_infoes \/ UNCHANGED rtt_time
          /\ OwnLossWrite \/ insert_into_server_infoes
             \/ UNCHANGED ping_lost_rate
  OBVIOUS
<1>1. OwnDelayWrite \/ UNCHANGED rtt_time \/ insert_into_server_infoes
  BY DEF OwnDelayWrite, Next, MainNext, RunNext,
  vars, own, learned, fwd, main, run, history,
  SetOwnLost, CopyLost, CopyRtt, ReceiveAdvert, AdvertEntry,
  StoreMac, LockUninitialisedMutex, FindRow,
  CompareRtt, SetHopRtt, SetRtt,
  CompareLost, SetHopLost, SetLost, PingCommand, CheckAlive, CheckDown,
  CountPing, PingUnreachable, SyncTest, SyncLost, AdvertiseCommand, FillLost,
  FillRtt, ResetHopLost, ResetRtt, ResetHopRtt, ResetLost, SendProbe
<1>2. OwnLossWrite \/ UNCHANGED ping_lost_rate \/ insert_into_server_infoes
  BY DEF OwnLossWrite, Next, MainNext, RunNext,
  vars, own, learned, fwd, main, run, history,
  ReceivePing, CopyLost, CopyRtt, ReceiveAdvert, AdvertEntry,
  StoreMac, LockUninitialisedMutex, FindRow,
  CompareRtt, SetHopRtt, SetRtt,
  CompareLost, SetHopLost, SetLost, PingCommand, CheckAlive, SetDown,
  PingUnreachable, SyncTest, SyncLost, AdvertiseCommand, FillLost,
  FillRtt, ResetHopLost, ResetRtt, ResetHopRtt, ResetLost, SendProbe
<1> QED BY <1>1, <1>2

\* An update is of the row of its address.
LEMMA UpdateRow ==
  ASSUME IInv, mpc \in UpdatePcs
  PROVE  mrow \in Known /\ ip[mrow] = mupd.ip /\ mupd.hop = msrc
BY DEF IInv, MainInv, TypeOK, Known

\* An insertion fills the next row, which held the very same values.
LEMMA InsertFrame ==
  ASSUME IInv, Unused, OwnInv, insert_into_server_infoes
  PROVE  /\ number_of_all_servers \in Rows
         /\ number_of_all_servers' = number_of_all_servers + 1
         /\ Known' = Known \cup {number_of_all_servers}
         /\ \A r \in Known : ip'[r] = ip[r]
         /\ UNCHANGED <<rtt_time, ping_lost_rate, learned, msrc, mupd, fresh>>
         /\ msrc \in Peers /\ LearnHops(number_of_all_servers) = {Zero}
<1>0. TypeOK /\ OneRowPerServer /\ RowsInv /\ MainInv BY DEF IInv
<1>1. mupd.ip \in ServerIps /\ mpc = "find"
  BY <1>0 DEF insert_into_server_infoes, MainAt, MainInv
<1>2. number_of_all_servers \in Rows
  BY <1>0, <1>1, RoomForNewServer DEF insert_into_server_infoes
<1>3. number_of_all_servers \notin Known BY <1>0 DEF Known, TypeOK
<1>4. \A r \in Known : ip[r] # mupd.ip
  BY <1>0, <1>1, RoomForNewServer DEF insert_into_server_infoes
<1>5. msrc \in Peers BY <1>0, <1>1, <1>4 DEF MainInv, OwnInv
<1>6. /\ rtt_time' = rtt_time /\ ping_lost_rate' = ping_lost_rate
      /\ learnRtt' = learnRtt /\ learnLost' = learnLost
  BY <1>0, <1>2, <1>3 DEF Unused, TypeOK, insert_into_server_infoes
<1>7. Known' = Known \cup {number_of_all_servers}
  <2>1. number_of_all_servers' = number_of_all_servers + 1
    BY DEF insert_into_server_infoes
  <2>2. \A r \in Rows : r < number_of_all_servers + 1
                       <=> r < number_of_all_servers \/ r = number_of_all_servers
    BY <1>2, TableAssumption DEF Rows
  <2> QED BY <1>2, <2>1, <2>2 DEF Known
<1>8. \A r \in Known : ip'[r] = ip[r]
  BY <1>0, <1>3 DEF insert_into_server_infoes, Known, TypeOK
<1>9. LearnHops(number_of_all_servers) = {Zero}
  BY <1>0, <1>2, <1>3 DEF RowsInv
<1> QED
  BY <1>2, <1>5, <1>6, <1>7, <1>8, <1>9
  DEF insert_into_server_infoes, learned, history

-----------------------------------------------------------------------------
(* Every step preserves the invariant.                                     *)

LEMMA UnusedStep == SInv /\ [Next]_vars => Unused'
<1> SUFFICES ASSUME SInv, [Next]_vars PROVE Unused' OBVIOUS
<1>0. IInv /\ TypeOK /\ MainInv /\ RunInv /\ Unused /\ OwnInv BY DEF SInv, IInv
<1>1. CASE insert_into_server_infoes
  BY <1>0, <1>1, InsertFrame DEF Unused, learned
<1>2. CASE ~insert_into_server_infoes
  <2>1. Known' = Known BY <1>2, AddressFrame DEF Known
  <2> SUFFICES ASSUME NEW r \in Rows \ Known
               PROVE  /\ rtt_time'[r] = rtt_time[r] /\ learnRtt'[r] = learnRtt[r]
                      /\ ping_lost_rate'[r] = ping_lost_rate[r]
                      /\ learnLost'[r] = learnLost[r]
    BY <1>0, <2>1 DEF Unused
  <2>2. ~(r < NumOwn) /\ \A i \in 0 .. NumOwn - 1 : r # i
    BY <1>0, TableAssumption DEF TypeOK, Known, Rows
  <2>3. rtt_time'[r] = rtt_time[r]
    BY <1>0, <1>2, <2>2, OwnFrame
    DEF OwnDelayWrite, ReceivePing, SetDown, RunInv, TypeOK
  <2>4. ping_lost_rate'[r] = ping_lost_rate[r]
    BY <1>0, <1>2, <2>2, OwnFrame
    DEF OwnLossWrite, SetOwnLost, CheckDown, CountPing, RunInv, MainInv, MainAt,
        TypeOK
  <2>5. learnRtt'[r] = learnRtt[r]
    BY <1>0, <1>2, LearnedFrame
    DEF SetRtt, ResetRtt, RunInv, MainInv, UpdatePcs, MainAt, TypeOK, Known
  <2>6. learnLost'[r] = learnLost[r]
    BY <1>0, <1>2, <2>2, LearnedFrame
    DEF SetLost, SyncLost, ResetLost, RunInv, MainInv, UpdatePcs, MainAt, TypeOK,
        Known
  <2> QED BY <2>3, <2>4, <2>5, <2>6
<1> QED BY <1>1, <1>2

LEMMA DelayPathStep ==
  ASSUME ~Overlap, SInv, [Next]_vars, NEW r \in Rows PROVE DelayPathOK(r)'
<1>0. TypeOK /\ Serial /\ HalfInv /\ DelayPathOK(r) BY DEF SInv, IInv, PathInv
<1>1. CASE SetHopRtt
  BY <1>0, <1>1 DEF DelayPathOK, SetHopRtt, MainAt, TypeOK, run, Serial, HalfInv
<1>2. CASE SetRtt
  BY <1>0, <1>2 DEF DelayPathOK, SetRtt, MainAt, TypeOK, run, Serial, HalfInv
<1>3. CASE ResetRtt
  BY <1>0, <1>3 DEF DelayPathOK, ResetRtt, TypeOK, main, Step, Serial, HalfInv
<1>4. CASE ResetHopRtt
  BY <1>0, <1>4 DEF DelayPathOK, ResetHopRtt, TypeOK, main, Step, Serial, HalfInv
<1>5. CASE ~(SetHopRtt \/ SetRtt \/ ResetRtt \/ ResetHopRtt)
  <2>1. UNCHANGED <<learnHopRtt, rttVia>> BY <1>5, LearnedFrame
  <2>2. mpc = "setRtt" => UNCHANGED <<mpc, mrow, mupd>>
    BY <1>5, DelayWriters DEF main, run
  <2>3. rpc = "resetHopRtt" => UNCHANGED <<rpc, rrow>>
    BY <1>5, DelayWriters DEF main, run
  <2> QED BY <1>0, <2>1, <2>2, <2>3 DEF DelayPathOK
<1> QED BY <1>1, <1>2, <1>3, <1>4, <1>5

LEMMA LossPathStep ==
  ASSUME ~Overlap, SInv, [Next]_vars, NEW r \in Rows PROVE LossPathOK(r)'
<1>0. TypeOK /\ Serial /\ HalfInv /\ LossPathOK(r) BY DEF SInv, IInv, PathInv
<1> USE DEF ResetPcs
<1>1. CASE SetHopLost
  BY <1>0, <1>1 DEF LossPathOK, SetHopLost, MainAt, TypeOK, run, Serial, HalfInv
<1>2. CASE SetLost
  BY <1>0, <1>2 DEF LossPathOK, SetLost, MainAt, TypeOK, run, Serial, HalfInv
<1>3. CASE ResetHopLost
  BY <1>0, <1>3 DEF LossPathOK, ResetHopLost, TypeOK, main, Step, Serial, HalfInv
<1>4. CASE ResetLost
  BY <1>0, <1>4 DEF LossPathOK, ResetLost, TypeOK, main, Step, Serial, HalfInv
<1>5. CASE SyncLost
  BY <1>0, <1>5 DEF LossPathOK, SyncLost, TypeOK, main, Step, Serial, HalfInv
<1>6. CASE ~(SetHopLost \/ SetLost \/ ResetHopLost \/ ResetLost \/ SyncLost)
  <2>1. UNCHANGED <<learnHopLost, lostVia>> BY <1>6, LearnedFrame
  <2>2. mpc = "setLost" => UNCHANGED <<mpc, mrow, mupd>>
    BY <1>6, LossWriters DEF main, run
  <2>3. rpc \in ResetPcs => rpc' \in ResetPcs /\ UNCHANGED rrow
    BY <1>6, LossWriters DEF main, run
  <2> QED BY <1>0, <2>1, <2>2, <2>3 DEF LossPathOK
<1> QED BY <1>1, <1>2, <1>3, <1>4, <1>5, <1>6

LEMMA HalfStep == ~Overlap /\ SInv /\ [Next]_vars => HalfInv'
<1> SUFFICES ASSUME ~Overlap, SInv, [Next]_vars PROVE HalfInv' OBVIOUS
<1>0. TypeOK /\ Serial /\ HalfInv BY DEF SInv, IInv
<1> USE DEF HalfInv, ResetPcs
<1>1. CASE MainNext
  <2>0. rpc = "idle" /\ UNCHANGED run BY <1>0, <1>1, MainAlone
  <2>1. CASE SetHopRtt BY <1>0, <2>0, <2>1 DEF SetHopRtt, TypeOK, run
  <2>2. CASE SetHopLost BY <1>0, <2>0, <2>2 DEF SetHopLost, TypeOK, run
  <2>3. CASE ~(SetHopRtt \/ SetHopLost)
    <3>1. mpc' \notin {"setRtt", "setLost"}
      BY <1>1, <2>3 DEF MainNext, LeaveUpdate, ReceivePing, SetOwnLost, CopyLost,
         CopyRtt, ReceiveAdvert, AdvertEntry, StoreMac, LockUninitialisedMutex,
         FindRow, insert_into_server_infoes, CompareRtt, SetRtt, CompareLost,
         SetLost
    <3> QED BY <2>0, <3>1 DEF run
  <2> QED BY <2>1, <2>2, <2>3
<1>2. CASE RunNext
  <2>0. mpc \in {"idle", "hung"} /\ UNCHANGED main BY <1>0, <1>2, RunAlone
  <2>1. CASE ResetHopLost BY <1>0, <2>0, <2>1 DEF ResetHopLost, TypeOK, Step, main
  <2>2. CASE ResetRtt BY <1>0, <2>0, <2>2 DEF ResetRtt, TypeOK, Step, main
  <2>3. CASE ResetHopRtt BY <1>0, <2>0, <2>3 DEF ResetHopRtt, TypeOK, Step, main
  <2>4. CASE SyncTest
    BY <1>0, <2>0, <2>4
    DEF SyncTest, FollowsOwnLoss, NextRow, TypeOK, Step, main, learned
  <2>5. CASE ~(ResetHopLost \/ ResetRtt \/ ResetHopRtt \/ SyncTest)
    <3>1. rpc' \notin ResetPcs \cup {"sync"}
      BY <1>2, <2>5 DEF RunNext, Step, NextRow, PingCommand, CheckAlive,
         CheckDown, SetDown, CountPing, PingUnreachable, SyncLost,
         AdvertiseCommand, FillLost, FillRtt, ResetLost, SendProbe
    <3> QED BY <2>0, <3>1 DEF main
  <2> QED BY <2>1, <2>2, <2>3, <2>4, <2>5
<1>3. CASE UNCHANGED vars BY <1>0, <1>3 DEF vars, main, run, learned
<1> QED BY <1>1, <1>2, <1>3 DEF Next

LEMMA ChoiceStep == ~Overlap /\ SInv /\ [Next]_vars => ChoiceInv'
<1> SUFFICES ASSUME ~Overlap, SInv, [Next]_vars PROVE ChoiceInv' OBVIOUS
<1>0. TypeOK /\ Serial /\ PathInv /\ ChoiceInv BY DEF SInv, IInv
<1> USE DEF ChoiceInv
<1>1. CASE MainNext
  <2>0. rpc = "idle" /\ UNCHANGED run BY <1>0, <1>1, MainAlone
  <2>1. CASE CompareRtt
    <3>1. rttVia[mrow] = learnHopRtt[mrow]
      BY <1>0, <2>0, <2>1 DEF CompareRtt, MainAt, PathInv, DelayPathOK, TypeOK
    <3> QED BY <2>1, <3>1 DEF CompareRtt, TakesDelay, learned
  <2>2. CASE CompareLost
    <3>1. lostVia[mrow] = learnHopLost[mrow]
      BY <1>0, <2>0, <2>2
      DEF CompareLost, MainAt, PathInv, LossPathOK, ResetPcs, TypeOK
    <3> QED BY <2>2, <3>1 DEF CompareLost, TakesLoss, LeaveUpdate, learned
  <2>3. CASE SetHopRtt BY <1>0, <2>3 DEF SetHopRtt, MainAt
  <2>4. CASE SetHopLost BY <1>0, <2>4 DEF SetHopLost, MainAt
  <2>5. CASE ~(CompareRtt \/ CompareLost \/ SetHopRtt \/ SetHopLost)
    <3>1. mpc' \notin {"setHopRtt", "setRtt", "setHopLost", "setLost"}
      BY <1>1, <2>5 DEF MainNext, LeaveUpdate, ReceivePing, SetOwnLost, CopyLost,
         CopyRtt, ReceiveAdvert, AdvertEntry, StoreMac, LockUninitialisedMutex,
         FindRow, insert_into_server_infoes, SetRtt, SetLost
    <3> QED BY <3>1
  <2> QED BY <2>1, <2>2, <2>3, <2>4, <2>5
<1>2. CASE RunNext BY <1>0, <1>2, RunAlone DEF main
<1>3. CASE UNCHANGED vars BY <1>0, <1>3 DEF vars, main, learned
<1> QED BY <1>1, <1>2, <1>3 DEF Next

LEMMA OwnStep == ~Overlap /\ SInv /\ [Next]_vars => OwnInv'
<1> SUFFICES ASSUME ~Overlap, SInv, [Next]_vars PROVE OwnInv' OBVIOUS
<1>0. /\ IInv /\ TypeOK /\ OneRowPerServer /\ RowsInv /\ MainInv /\ Serial
      /\ Unused /\ OwnInv
  BY DEF SInv, IInv
<1> USE AddressAssumption DEF OwnInv, UpdatePcs
<1>1. CASE CopyLost
  <2>1. mrow \in Known
    BY <1>0, <1>1, TableAssumption DEF CopyLost, MainAt, MainInv, Known, TypeOK, Rows
  <2> QED BY <1>0, <1>1, <2>1 DEF CopyLost, TypeOK, Update, own, Known
<1>2. CASE CopyRtt
  BY <1>0, <1>2 DEF CopyRtt, MainAt, TypeOK, Update, own, Known
<1>3. CASE FindRow
  <2>1. mpc = "find" /\ mrow' = get_index_by_ip(mupd.ip)
    BY <1>3 DEF FindRow, MainAt
  <2>2. get_index_by_ip(mupd.ip) \in Known
        /\ ip[get_index_by_ip(mupd.ip)] = mupd.ip
    BY <1>0, <1>3, SearchFinds DEF FindRow
  <2>3. msrc = Gateway => mrow' = mrow
    BY <1>0, <2>1, <2>2 DEF OneRowPerServer
  <2> QED BY <1>0, <1>3, <2>1, <2>3 DEF FindRow, own
<1>4. CASE insert_into_server_infoes
  BY <1>0, <1>4, InsertFrame
<1>5. ASSUME NEW s \in ServerIps, NEW c \in Delays \ {INF}, NEW l \in LossRates,
             AdvertEntry(s, c, l)
      PROVE  OwnInv'
  BY <1>0, <1>5 DEF AdvertEntry, MainAt, MainInv
<1>6. CASE CompareRtt \/ SetHopRtt \/ SetRtt \/ SetHopLost
  BY <1>0, <1>6 DEF CompareRtt, SetHopRtt, SetRtt, SetHopLost, MainAt, own
<1>7. CASE CompareLost
  BY <1>0, <1>7 DEF CompareLost, LeaveUpdate, MainAt, own
<1>8. CASE SetLost BY <1>0, <1>8 DEF SetLost, LeaveUpdate
<1>9. ASSUME \/ \E i \in 0 .. NumOwn - 1, c \in Delays : ReceivePing(i, c)
             \/ \E l \in LossRates : SetOwnLost(l)
             \/ \E p \in Peers : ReceiveAdvert(p)
             \/ StoreMac \/ LockUninitialisedMutex
      PROVE  OwnInv'
  BY <1>9
  DEF ReceivePing, SetOwnLost, ReceiveAdvert, StoreMac, LockUninitialisedMutex
<1>10. CASE RunNext BY <1>0, <1>10, RunAlone DEF main
<1>11. CASE UNCHANGED vars BY <1>0, <1>11 DEF vars, main, own, Known
<1> QED BY <1>1, <1>2, <1>3, <1>4, <1>5, <1>6, <1>7, <1>8, <1>9, <1>10, <1>11
        DEF Next, MainNext

LEMMA LatestStep == ~Overlap /\ SInv /\ [Next]_vars => LatestInv'
<1> SUFFICES ASSUME ~Overlap, SInv, [Next]_vars PROVE LatestInv' OBVIOUS
<1>0. /\ IInv /\ TypeOK /\ OneRowPerServer /\ RowsInv /\ MainInv /\ RunInv
      /\ Serial /\ Unused /\ HalfInv /\ OwnInv /\ LatestInv
  BY DEF SInv, IInv
<1>a. \A r, q \in Known : ip[r] = ip[q] => r = q BY <1>0 DEF OneRowPerServer
<1>b. \A r \in Known : r \in Rows /\ ip[r] \in ServerIps
  BY <1>0 DEF RowsInv, Known
<1> USE AddressAssumption DEF DelayPcs
<1>1. ASSUME NEW s \in ServerIps, NEW c \in Delays \ {INF}, NEW l \in LossRates,
             AdvertEntry(s, c, l)
      PROVE  LatestInv'
  <2>1. msrc \in Peers /\ rpc = "idle" /\ mpc = "advert"
    BY <1>0, <1>1, MainAlone DEF AdvertEntry, MainAt, MainInv, MainNext
  <2>2. \A p \in Peers, a \in ServerIps :
          fresh'[p][a] = IF p = msrc /\ a = s THEN c ELSE fresh[p][a]
    BY <1>0, <1>1, <2>1 DEF AdvertEntry, TypeOK
  <2>3. Known' = Known BY <1>1 DEF AdvertEntry, Known
  <2>4. \A r \in Known : LatestOK(r)'
    BY <1>0, <1>b, <1>1, <2>1, <2>2
    DEF LatestInv, LatestOK, AdvertEntry, own, learned, run
  <2> QED BY <1>1, <2>1, <2>2, <2>3, <2>4 DEF LatestInv, AdvertEntry
<1>2. CASE FindRow
  BY <1>0, <1>2 DEF LatestInv, LatestOK, FindRow, MainAt, Known, own, learned, run,
     history
<1>3. CASE insert_into_server_infoes
  <2>1. learnHopRtt[number_of_all_servers] = Zero
    BY <1>0, <1>3, InsertFrame DEF LearnHops
  <2>2. \A r \in Known : LatestOK(r)'
    BY <1>0, <1>3, InsertFrame
    DEF LatestInv, LatestOK, insert_into_server_infoes, MainAt, learned, run
  <2>3. \A r \in {number_of_all_servers} : LatestOK(r)'
    BY <1>0, <1>3, <2>1, InsertFrame
    DEF LatestOK, insert_into_server_infoes, learned
  <2>4. mpc = "find" BY <1>3 DEF insert_into_server_infoes, MainAt
  <2> QED BY <1>0, <1>3, <2>2, <2>3, <2>4, InsertFrame DEF LatestInv
<1>4. CASE CompareRtt
  <2>1. mrow \in Known /\ ip[mrow] = mupd.ip /\ mupd.hop = msrc /\ mpc = "cmpRtt"
    BY <1>0, <1>4, UpdateRow DEF CompareRtt, MainAt, UpdatePcs
  <2>2. Known' = Known /\ UNCHANGED <<ip, learned, msrc, mupd, fresh, run>>
    BY <1>4 DEF CompareRtt, Known, own, history
  <2>3. CASE mpc' = "setHopRtt"
    BY <1>0, <2>1, <2>2, <2>3 DEF LatestInv, LatestOK, learned, run
  <2>4. CASE mpc' = "cmpLost"
    <3>1. learnHopRtt[mrow] # msrc
      BY <1>4, <2>1, <2>4 DEF CompareRtt, TakesDelay
    <3> QED BY <1>0, <1>a, <2>1, <2>2, <2>4, <3>1 DEF LatestInv, LatestOK, learned, run
  <2> QED BY <1>4, <2>3, <2>4 DEF CompareRtt
<1>5. CASE SetHopRtt
  <2>1. mrow \in Known /\ ip[mrow] = mupd.ip /\ mupd.hop = msrc /\ mpc = "setHopRtt"
    BY <1>0, <1>5, UpdateRow DEF SetHopRtt, MainAt, UpdatePcs
  <2>2. Known' = Known BY <1>5 DEF SetHopRtt, Known
  <2> QED BY <1>0, <1>b, <1>5, <2>1, <2>2
      DEF LatestInv, LatestOK, SetHopRtt, TypeOK, own, run, history
<1>6. CASE SetRtt
  <2>1. /\ mrow \in Known /\ ip[mrow] = mupd.ip /\ mupd.hop = msrc
        /\ mpc = "setRtt" /\ learnHopRtt[mrow] = msrc
    BY <1>0, <1>6, UpdateRow DEF SetRtt, MainAt, UpdatePcs, HalfInv
  <2>2. Known' = Known BY <1>6 DEF SetRtt, Known
  <2> QED BY <1>0, <1>a, <1>b, <1>6, <2>1, <2>2
      DEF LatestInv, LatestOK, SetRtt, TypeOK, own, run, history
<1>7. CASE LockUninitialisedMutex
  BY <1>7 DEF LatestInv, LockUninitialisedMutex
<1>8. ASSUME \/ \E i \in 0 .. NumOwn - 1, c \in Delays : ReceivePing(i, c)
             \/ \E l \in LossRates : SetOwnLost(l)
             \/ \E p \in Peers : ReceiveAdvert(p)
             \/ CopyLost \/ CopyRtt \/ StoreMac \/ CompareLost \/ SetHopLost
             \/ SetLost
      PROVE  LatestInv'
  <2>1. mpc \notin DelayPcs \cup {"hung"}
        /\ UNCHANGED <<number_of_all_servers, ip, learnHopRtt, learnRtt, fresh, run>>
    BY <1>8 DEF ReceivePing, SetOwnLost, ReceiveAdvert, CopyLost, CopyRtt,
       StoreMac, CompareLost, SetHopLost, SetLost, MainAt, MainMayStart, own,
       learned, history
  <2>2. mpc' \notin DelayPcs \/ (msrc' = Gateway)
    BY <1>0, <1>8 DEF ReceivePing, SetOwnLost, ReceiveAdvert, CopyLost, CopyRtt,
       StoreMac, CompareLost, SetHopLost, SetLost, LeaveUpdate, MainAt, MainInv
  <2>3. \A r \in Known : LatestOK(r)'
    BY <1>0, <2>1 DEF LatestInv, LatestOK, run
  <2> QED BY <2>1, <2>2, <2>3 DEF LatestInv, Known
<1>9. CASE RunNext
  <2>0. mpc \in {"idle", "hung"} /\ Known' = Known /\ UNCHANGED <<ip, main>>
    BY <1>0, <1>9, RunAlone DEF Known
  <2> SUFFICES ASSUME mpc # "hung", NEW r \in Known PROVE LatestOK(r)'
    BY <2>0 DEF LatestInv, main
  <2>1. LatestOK(r) BY <1>0 DEF LatestInv
  <2>2. CASE ResetRtt
    <3>1. rrow \in Known BY <1>0, <2>2 DEF ResetRtt, RunInv, Known, TypeOK
    <3>2. r # rrow => \A p \in Peers : fresh'[p][ip[r]] = fresh[p][ip[r]]
      BY <1>0, <1>a, <1>b, <2>2, <3>1 DEF ResetRtt, TypeOK
    <3> QED BY <1>0, <1>b, <2>0, <2>1, <2>2, <3>2
        DEF LatestOK, ResetRtt, Step, TypeOK, main
  <2>3. CASE ResetHopRtt
    BY <1>0, <1>b, <2>0, <2>1, <2>3
    DEF LatestOK, ResetHopRtt, TypeOK, main, history, Step
  <2>4. CASE ~(ResetRtt \/ ResetHopRtt)
    <3>1. rpc # "resetHopRtt" /\ UNCHANGED <<learnHopRtt, learnRtt, fresh>>
      BY <1>9, <2>4 DEF RunNext, RunMayStart, PingCommand, CheckAlive, CheckDown,
         SetDown, CountPing, PingUnreachable, SyncTest, SyncLost,
         AdvertiseCommand, FillLost, FillRtt, ResetHopLost, ResetLost, SendProbe,
         learned, history
    <3> QED BY <2>0, <2>1, <3>1 DEF LatestOK, main
  <2> QED BY <2>2, <2>3, <2>4
<1>10. CASE UNCHANGED vars
  BY <1>0, <1>10
  DEF LatestInv, LatestOK, vars, own, learned, main, run, history, Known
<1> QED BY <1>1, <1>2, <1>3, <1>4, <1>5, <1>6, <1>7, <1>8, <1>9, <1>10
        DEF Next, MainNext

LEMMA LossStep == ~Overlap /\ SInv /\ [Next]_vars => LossInv'
<1> SUFFICES ASSUME ~Overlap, SInv, [Next]_vars PROVE LossInv' OBVIOUS
<1>0. /\ IInv /\ TypeOK /\ OneRowPerServer /\ MainInv /\ RunInv
      /\ Serial /\ Unused /\ HalfInv /\ OwnInv /\ LossInv
  BY DEF SInv, IInv
<1>a. \A r, q \in Known : ip[r] = ip[q] => r = q BY <1>0 DEF OneRowPerServer
<1>b. \A r \in Known : r \in Rows BY DEF Known
<1> USE AddressAssumption DEF UpdatePcs, ResetPcs
<1>1. CASE insert_into_server_infoes
  <2>1. \A r \in Known : OwnLossOK(r)'
    BY <1>0, <1>1, InsertFrame
    DEF LossInv, OwnLossOK, insert_into_server_infoes, MainAt, learned, run
  <2>2. \A r \in {number_of_all_servers} : OwnLossOK(r)'
    BY <1>0, <1>1, InsertFrame DEF OwnLossOK, LearnHops, learned
  <2> QED BY <1>0, <1>1, <2>1, <2>2, InsertFrame DEF LossInv
<1>2. CASE ~insert_into_server_infoes
  <2>0. Known' = Known /\ ip' = ip BY <1>2, AddressFrame DEF Known
  <2> SUFFICES ASSUME NEW r \in Known PROVE OwnLossOK(r)'
    BY <2>0 DEF LossInv
  <2>a. OwnLossOK(r) BY <1>0 DEF LossInv
  <2>1. CASE MainNext
    <3>0. rpc = "idle" /\ UNCHANGED run BY <1>0, <2>1, MainAlone
    <3> USE <1>0, <1>b, <2>0, <2>a, <3>0 DEF OwnLossOK, MainAt
    <3>1. ASSUME NEW l \in LossRates, SetOwnLost(l) PROVE OwnLossOK(r)'
      BY <3>1 DEF SetOwnLost, TypeOK, learned
    <3>2. CASE CopyLost
      BY <3>2 DEF CopyLost, own, learned
    <3>3. CASE CopyRtt
      BY <3>3 DEF CopyRtt, own, learned, OwnInv, TypeOK, Update, MainInv
    <3>4. CASE CompareLost
      <4>1. mrow \in Known /\ ip[mrow] = mupd.ip /\ mupd.hop = msrc
        BY <3>4, UpdateRow DEF CompareLost
      <4>2. CASE TakesLoss(mrow, mupd)
        BY <3>4, <4>2 DEF CompareLost, own, learned
      <4>3. CASE ~TakesLoss(mrow, mupd)
        <5>1. learnHopLost[mrow] # msrc BY <4>1, <4>3 DEF TakesLoss
        <5> QED BY <1>a, <3>4, <4>1, <5>1 DEF CompareLost, own, learned
      <4> QED BY <4>2, <4>3
    <3>5. CASE SetHopLost
      <4>1. mrow \in Known /\ ip[mrow] = mupd.ip /\ mupd.hop = msrc
        BY <3>5, UpdateRow DEF SetHopLost
      <4> QED BY <3>5, <4>1 DEF SetHopLost, own, TypeOK
    <3>6. CASE SetLost
      <4>1. mrow \in Known /\ ip[mrow] = mupd.ip /\ mupd.hop = msrc
        BY <3>6, UpdateRow DEF SetLost
      <4>2. learnHopLost[mrow] = msrc
        BY <3>6, <4>1 DEF SetLost, HalfInv
      <4>3. msrc = Gateway => mupd.lost = ping_lost_rate[mrow]
        BY <3>6 DEF SetLost, OwnInv
      <4> QED BY <1>a, <3>6, <4>1, <4>2, <4>3 DEF SetLost, own, TypeOK
    <3>7. CASE FindRow \/ CompareRtt \/ SetHopRtt \/ SetRtt
      BY <3>7 DEF FindRow, CompareRtt, SetHopRtt, SetRtt, own, learned
    <3>8. CASE LockUninitialisedMutex
      BY <3>8 DEF LockUninitialisedMutex, MainInv, own, learned
    <3>9. ASSUME \/ \E i \in 0 .. NumOwn - 1, c \in Delays : ReceivePing(i, c)
                 \/ \E p \in Peers : ReceiveAdvert(p)
                 \/ \E s \in ServerIps, c \in Delays \ {INF}, l \in LossRates :
                      AdvertEntry(s, c, l)
                 \/ StoreMac
          PROVE  OwnLossOK(r)'
      <4>1. /\ mpc \in {"idle", "advert"}
            /\ UNCHANGED <<ping_lost_rate, learnHopLost, learnLost>>
        BY <3>9 DEF ReceivePing, ReceiveAdvert, AdvertEntry, StoreMac,
           MainMayStart, own, learned
      <4> QED BY <4>1
    <3> QED BY <1>2, <2>1, <3>1, <3>2, <3>3, <3>4, <3>5, <3>6, <3>7, <3>8, <3>9
            DEF MainNext
  <2>2. CASE RunNext
    <3>0. mpc \in {"idle", "hung"} /\ UNCHANGED main BY <1>0, <2>2, RunAlone
    <3>a. r \in Int /\ rrow \in Int /\ NumOwn \in Int
      BY <1>0, <1>b, TableAssumption DEF TypeOK, Rows
    <3> USE <1>0, <1>b, <2>0, <2>a, <3>0, <3>a
    <3> USE DEF OwnLossOK, Step, NextRow, main
    <3>1. CASE PingCommand BY <3>1 DEF PingCommand, RunMayStart, own, learned
    <3>2. CASE CheckAlive BY <3>2 DEF CheckAlive, own, learned, TypeOK, Rows
    <3>3. CASE CheckDown BY <3>3 DEF CheckDown, learned, RunInv, TypeOK
    <3>4. CASE SetDown BY <3>4 DEF SetDown, learned, TypeOK, Rows
    <3>5. ASSUME NEW l \in LossRates, CountPing(l) PROVE OwnLossOK(r)'
      BY <3>5 DEF CountPing, learned, RunInv, TypeOK
    <3>6. CASE PingUnreachable BY <3>6 DEF PingUnreachable, own, learned
    <3>7. CASE SyncTest
      BY <3>7 DEF SyncTest, FollowsOwnLoss, own, learned
    <3>8. CASE SyncLost BY <3>8 DEF SyncLost, own, TypeOK
    <3>9. CASE AdvertiseCommand
      BY <3>9 DEF AdvertiseCommand, RunMayStart, own, learned
    <3>10. CASE FillLost \/ FillRtt BY <3>10 DEF FillLost, FillRtt, own, learned
    <3>11. CASE ResetHopLost BY <3>11 DEF ResetHopLost, own, TypeOK
    <3>12. CASE ResetRtt \/ ResetHopRtt
      BY <3>12 DEF ResetRtt, ResetHopRtt, own, learned
    <3>13. CASE ResetLost BY <3>13 DEF ResetLost, own, TypeOK
    <3>14. ASSUME NEW d \in ServerIps, NEW h \in Hops, SendProbe(d, h)
           PROVE  OwnLossOK(r)'
      BY <3>14 DEF SendProbe, RunMayStart, own, learned
    <3> QED BY <2>2, <3>1, <3>2, <3>3, <3>4, <3>5, <3>6, <3>7, <3>8, <3>9, <3>10,
               <3>11, <3>12, <3>13, <3>14 DEF RunNext
  <2>3. CASE UNCHANGED vars
    BY <2>a, <2>3 DEF OwnLossOK, vars, own, learned, main, run
  <2> QED BY <2>1, <2>2, <2>3 DEF Next
<1> QED BY <1>1, <1>2

LEMMA DelayStep == ~Overlap /\ SInv /\ [Next]_vars => DelayInv'
<1> SUFFICES ASSUME ~Overlap, SInv, [Next]_vars PROVE DelayInv' OBVIOUS
<1>0. /\ IInv /\ TypeOK /\ OneRowPerServer /\ MainInv /\ RunInv
      /\ Serial /\ Unused /\ HalfInv /\ OwnInv /\ DelayInv
  BY DEF SInv, IInv
<1>a. \A r, q \in Known : ip[r] = ip[q] => r = q BY <1>0 DEF OneRowPerServer
<1>b. \A r \in Known : r \in Rows BY DEF Known
<1> USE AddressAssumption DEF UpdatePcs, DelayPcs
<1>1. CASE insert_into_server_infoes
  <2>1. \A r \in Known : OwnDelayOK(r)'
    BY <1>0, <1>1, InsertFrame
    DEF DelayInv, OwnDelayOK, insert_into_server_infoes, MainAt, learned, run
  <2>2. \A r \in {number_of_all_servers} : OwnDelayOK(r)'
    BY <1>0, <1>1, InsertFrame DEF OwnDelayOK, LearnHops, learned
  <2>3. rpc' = rpc /\ rrow' = rrow BY <1>1 DEF insert_into_server_infoes, run
  <2> QED BY <1>0, <1>1, <2>1, <2>2, <2>3, InsertFrame DEF DelayInv, learned
<1>2. CASE ~insert_into_server_infoes
  <2>0. Known' = Known /\ ip' = ip BY <1>2, AddressFrame DEF Known
  <2>1. CASE MainNext
    <3>0. rpc = "idle" /\ UNCHANGED run BY <1>0, <2>1, MainAlone
    <3> SUFFICES ASSUME NEW r \in Known PROVE OwnDelayOK(r)'
      BY <2>0, <3>0 DEF DelayInv, run
    <3>a. OwnDelayOK(r) BY <1>0 DEF DelayInv
    <3> USE <1>0, <1>b, <2>0, <3>0, <3>a DEF OwnDelayOK, MainAt
    <3>1. ASSUME NEW i \in 0 .. NumOwn - 1, NEW c \in Delays, ReceivePing(i, c)
          PROVE  OwnDelayOK(r)'
      BY <3>1 DEF ReceivePing, MainMayStart, TypeOK, learned
    <3>2. ASSUME NEW l \in LossRates, SetOwnLost(l) PROVE OwnDelayOK(r)'
      BY <3>2 DEF SetOwnLost, learned
    <3>3. CASE CopyLost BY <3>3 DEF CopyLost, own, learned
    <3>4. CASE CopyRtt
      BY <3>4 DEF CopyRtt, own, learned, OwnInv, TypeOK, Update, MainInv
    <3>5. CASE FindRow BY <3>5 DEF FindRow, own, learned
    <3>6. CASE CompareRtt
      <4>1. mrow \in Known /\ ip[mrow] = mupd.ip /\ mupd.hop = msrc
        BY <3>6, UpdateRow DEF CompareRtt
      <4>2. CASE TakesDelay(mrow, mupd)
        BY <3>6, <4>2 DEF CompareRtt, own, learned
      <4>3. CASE ~TakesDelay(mrow, mupd)
        <5>1. learnHopRtt[mrow] # msrc BY <4>1, <4>3 DEF TakesDelay
        <5> QED BY <1>a, <3>6, <4>1, <5>1 DEF CompareRtt, own, learned
      <4> QED BY <4>2, <4>3
    <3>7. CASE SetHopRtt
      <4>1. mrow \in Known /\ ip[mrow] = mupd.ip /\ mupd.hop = msrc
        BY <3>7, UpdateRow DEF SetHopRtt
      <4> QED BY <3>7, <4>1 DEF SetHopRtt, own, TypeOK
    <3>8. CASE SetRtt
      <4>1. mrow \in Known /\ ip[mrow] = mupd.ip /\ mupd.hop = msrc
        BY <3>8, UpdateRow DEF SetRtt
      <4>2. learnHopRtt[mrow] = msrc BY <3>8, <4>1 DEF SetRtt, HalfInv
      <4>3. msrc = Gateway => mupd.rtt = rtt_time[mrow]
        BY <3>8 DEF SetRtt, OwnInv
      <4> QED BY <1>a, <3>8, <4>1, <4>2, <4>3 DEF SetRtt, own, TypeOK
    <3>9. CASE LockUninitialisedMutex
      BY <3>9 DEF LockUninitialisedMutex, MainInv, own, learned
    <3>10. ASSUME \/ \E p \in Peers : ReceiveAdvert(p)
                  \/ \E s \in ServerIps, c \in Delays \ {INF}, l \in LossRates :
                       AdvertEntry(s, c, l)
                  \/ StoreMac \/ CompareLost \/ SetHopLost \/ SetLost
           PROVE  OwnDelayOK(r)'
      <4>1. /\ mpc \in {"idle", "advert", "cmpLost", "setHopLost", "setLost"}
            /\ UNCHANGED <<rtt_time, learnHopRtt, learnRtt>>
        BY <3>10 DEF ReceiveAdvert, AdvertEntry, StoreMac, CompareLost,
           SetHopLost, SetLost, MainMayStart, own, learned
      <4> QED BY <4>1
    <3> QED BY <1>2, <2>1, <3>1, <3>2, <3>3, <3>4, <3>5, <3>6, <3>7, <3>8, <3>9,
               <3>10 DEF MainNext
  <2>2. CASE RunNext
    <3>0. mpc \in {"idle", "hung"} /\ UNCHANGED main BY <1>0, <2>2, RunAlone
    <3> USE <1>0, <1>b, <2>0, <3>0 DEF DelayInv, OwnDelayOK, Step, main
    <3>1. CASE ResetRtt BY <3>1 DEF ResetRtt, own, TypeOK
    <3>2. CASE ResetHopRtt BY <3>2 DEF ResetHopRtt, own, TypeOK
    <3>3. CASE SetDown BY <3>3 DEF SetDown, NextRow, learned, TypeOK
    <3>4. CASE ~(ResetRtt \/ ResetHopRtt \/ SetDown)
      <4>1. /\ rpc' # "resetHopRtt"
            /\ UNCHANGED <<rtt_time, learnHopRtt, learnRtt>>
        BY <2>2, <3>4 DEF RunNext, NextRow, PingCommand, CheckAlive, CheckDown,
           CountPing, PingUnreachable, SyncTest, SyncLost, AdvertiseCommand,
           FillLost, FillRtt, ResetHopLost, ResetLost, SendProbe, own, learned
      <4> QED BY <4>1
    <3> QED BY <3>1, <3>2, <3>3, <3>4
  <2>3. CASE UNCHANGED vars
    BY <1>0, <2>0, <2>3 DEF DelayInv, OwnDelayOK, vars, own, learned, main, run
  <2> QED BY <2>1, <2>2, <2>3 DEF Next
<1> QED BY <1>1, <1>2

-----------------------------------------------------------------------------
(* The theorems.                                                           *)

LEMMA IInvStep == IInv /\ [Next]_vars => IInv'
BY TypeOKStep, OneRowStep, RowsStep, MainStep, RunStep, HeardStep, MacStep,
   CrashStep DEF IInv

\* The invariant of the threads that take turns (see the head of the module).
THEOREM SerialInductive == ASSUME ~Overlap PROVE Spec => []SInv
<1>1. SInv /\ [Next]_vars => SInv'
  <2> SUFFICES ASSUME SInv, [Next]_vars PROVE SInv' OBVIOUS
  <2>1. PathInv' BY DelayPathStep, LossPathStep DEF PathInv
  <2> QED
    BY <2>1, IInvStep, SerialStep, UnusedStep, HalfStep, ChoiceStep, OwnStep,
       LatestStep, LossStep, DelayStep
    DEF SInv
<1> QED BY InitSInv, <1>1, PTL DEF Spec

\* At rest a learned delay or loss rate was measured on the learned hop, though
\* hop and value are written by separate statements.
THEOREM ValuesBelong == ASSUME ~Overlap PROVE Spec => []ValueBelongsToHop
<1>1. SInv => ValueBelongsToHop
  BY DEF SInv, PathInv, DelayPathOK, LossPathOK, ResetPcs, ValueBelongsToHop,
     AtRest, Known
<1> QED BY SerialInductive, <1>1, PTL

\* At rest a delay learned from a peer is the last one it advertised.
THEOREM LatestLearned == ASSUME ~Overlap PROVE Spec => []LearnedIsLatest
<1>1. SInv => LearnedIsLatest
  BY DEF SInv, LatestInv, LatestOK, DelayPcs, LearnedIsLatest, AtRest
<1> QED BY SerialInductive, <1>1, PTL

\* At rest the learned loss of the own path is the measured one.
THEOREM GatewayLoss == ASSUME ~Overlap PROVE Spec => []GatewayLossIsOwn
<1>1. SInv => GatewayLossIsOwn
  BY DEF SInv, LossInv, OwnLossOK, UpdatePcs, ResetPcs, GatewayLossIsOwn, AtRest
<1> QED BY SerialInductive, <1>1, PTL

\* At rest the learned delay of the own path of a server that is up is the
\* measured one.
THEOREM GatewayDelay == ASSUME ~Overlap PROVE Spec => []GatewayDelayIsOwn
<1>1. SInv => GatewayDelayIsOwn
  BY DEF SInv, DelayInv, OwnDelayOK, DelayPcs, GatewayDelayIsOwn, AtRest
<1> QED BY SerialInductive, <1>1, PTL

-----------------------------------------------------------------------------
(* The learning tables implement BestPath: a comparison and the write that *)
(* follows it are one Offer, the two writes of a reset one Reset.          *)

LEMMA DelayRefines ==
  ASSUME ~Overlap, SInv, [Next]_vars
  PROVE  [DelayPath!Next]_(DelayPath!vars)
<1>0. /\ IInv /\ TypeOK /\ MainInv /\ RunInv /\ Serial /\ Unused /\ ChoiceInv
      /\ OwnInv
  BY DEF SInv, IInv
<1> USE OwnRowsFit DEF DelayPath!Next
<1>1. CASE SetRtt
  <2>1. mrow \in Rows /\ mupd.hop = msrc /\ mupd.hop \in Peers \cup {Gateway}
        /\ mupd.rtt \in Delays
    BY <1>0, <1>1 DEF SetRtt, MainAt, MainInv, UpdatePcs, TypeOK, Update
  <2>2. mupd.hop = Gateway => mupd.rtt = rtt_time[mrow]
    BY <1>0, <1>1, <2>1 DEF SetRtt, MainAt, OwnInv, UpdatePcs
  <2>3. mupd.hop = rttVia[mrow] \/ mupd.rtt < learnRtt[mrow]
    BY <1>0, <1>1, <2>1, MetricAssumption
    DEF SetRtt, MainAt, ChoiceInv, TypeOK, Delays
  <2>4. DelayPath!Offer(mrow, mupd.hop, mupd.rtt)
    BY <1>1, <2>2, <2>3 DEF SetRtt, DelayPath!Offer, own
  <2> QED BY <2>1, <2>4
<1>2. CASE ResetRtt
  <2>1. DelayPath!Reset(rrow) BY <1>2 DEF ResetRtt, DelayPath!Reset, own
  <2> QED BY <1>0, <2>1 DEF TypeOK
<1>3. CASE SetDown
  <2>1. DelayPath!Measure(rrow, INF)
    BY <1>3 DEF SetDown, DelayPath!Measure, learned
  <2> QED BY <1>0, <2>1, MetricAssumption DEF TypeOK, Delays
<1>4. ASSUME NEW i \in 0 .. NumOwn - 1, NEW c \in Delays, ReceivePing(i, c)
      PROVE  [DelayPath!Next]_(DelayPath!vars)
  <2>1. DelayPath!Measure(i, c)
    BY <1>4 DEF ReceivePing, DelayPath!Measure, learned
  <2> QED BY <2>1
<1>5. CASE insert_into_server_infoes
  BY <1>0, <1>5, InsertFrame DEF DelayPath!vars, learned
<1>6. CASE UNCHANGED <<rtt_time, rttVia, learnRtt>> BY <1>6 DEF DelayPath!vars
<1> QED BY <1>1, <1>2, <1>3, <1>4, <1>5, <1>6, LearnedFrame, OwnFrame
        DEF OwnDelayWrite, SetRtt, ResetRtt, SetDown, ReceivePing, learned, own

LEMMA LossRefines ==
  ASSUME ~Overlap, SInv, [Next]_vars
  PROVE  [LossPath!Next]_(LossPath!vars)
<1>0. /\ IInv /\ TypeOK /\ MainInv /\ RunInv /\ Serial /\ Unused /\ ChoiceInv
      /\ OwnInv
  BY DEF SInv, IInv
<1> USE OwnRowsFit DEF LossPath!Next
<1>1. CASE SetLost
  <2>1. mrow \in Rows /\ mupd.hop = msrc /\ mupd.hop \in Peers \cup {Gateway}
        /\ mupd.lost \in LossRates
    BY <1>0, <1>1 DEF SetLost, MainAt, MainInv, UpdatePcs, TypeOK, Update
  <2>2. mupd.hop = Gateway => mupd.lost = ping_lost_rate[mrow]
    BY <1>0, <1>1, <2>1 DEF SetLost, MainAt, OwnInv, UpdatePcs
  <2>3. mupd.hop = lostVia[mrow] \/ mupd.lost < learnLost[mrow]
    BY <1>0, <1>1, <2>1, MetricAssumption DEF SetLost, MainAt, ChoiceInv, TypeOK
  <2>4. LossPath!Offer(mrow, mupd.hop, mupd.lost)
    BY <1>1, <2>2, <2>3 DEF SetLost, LossPath!Offer, own
  <2> QED BY <2>1, <2>4
<1>2. CASE ResetLost
  <2>1. LossPath!Reset(rrow) BY <1>2 DEF ResetLost, LossPath!Reset, own
  <2> QED BY <1>0, <2>1 DEF TypeOK
<1>3. CASE SyncLost
  <2>1. LossPath!Reset(rrow) BY <1>3 DEF SyncLost, LossPath!Reset, own
  <2> QED BY <1>0, <2>1 DEF TypeOK
<1>4. CASE CheckDown
  <2>1. LossPath!Measure(rrow, FullLoss)
    BY <1>4 DEF CheckDown, LossPath!Measure, learned
  <2> QED BY <1>0, <2>1, MetricAssumption DEF TypeOK
<1>5. ASSUME NEW l \in LossRates, SetOwnLost(l)
      PROVE  [LossPath!Next]_(LossPath!vars)
  <2>1. LossPath!Measure(mrow, l)
    BY <1>5 DEF SetOwnLost, LossPath!Measure, learned
  <2> QED BY <1>0, <2>1 DEF TypeOK
<1>6. ASSUME NEW l \in LossRates, CountPing(l)
      PROVE  [LossPath!Next]_(LossPath!vars)
  <2>1. LossPath!Measure(rrow, l)
    BY <1>6 DEF CountPing, LossPath!Measure, learned
  <2> QED BY <1>0, <2>1 DEF TypeOK
<1>7. CASE insert_into_server_infoes
  BY <1>0, <1>7, InsertFrame DEF LossPath!vars, learned
<1>8. CASE UNCHANGED <<ping_lost_rate, lostVia, learnLost>>
  BY <1>8 DEF LossPath!vars
<1> QED BY <1>1, <1>2, <1>3, <1>4, <1>5, <1>6, <1>7, <1>8, LearnedFrame, OwnFrame
        DEF OwnLossWrite

\* The path by delay of every server is a best path: left only for a better one
\* or for the gateway in a reset, and shown at its own cost.
THEOREM DelayIsBestPath == ASSUME ~Overlap PROVE Spec => BestDelay
<1>1. SInv /\ [Next]_vars => [DelayPath!Next]_(DelayPath!vars) BY DelayRefines
<1> QED BY SerialInductive, <1>1, PTL DEF Spec, BestDelay, DelayPath!Spec

\* And so is the path by loss.
THEOREM LossIsBestPath == ASSUME ~Overlap PROVE Spec => BestLoss
<1>1. SInv /\ [Next]_vars => [LossPath!Next]_(LossPath!vars) BY LossRefines
<1> QED BY SerialInductive, <1>1, PTL DEF Spec, BestLoss, LossPath!Spec
=============================================================================
