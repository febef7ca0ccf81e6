--------------------------- MODULE RouteTableProofs ---------------------------
(***************************************************************************)
(* What the routing tables keep for every number of peers, servers, rows   *)
(* and for every interleaving of the two threads.                          *)
(*                                                                         *)
(* None of the properties is inductive alone.  The table holds one row per *)
(* server only because a row's address is in ServerIps and the main        *)
(* thread's local copy names the address it searches for; the table stays  *)
(* within MaxServers rows because one row per server bounds it; a hop was  *)
(* heard only because the main thread's local row index and update still   *)
(* agree when the run thread has written the row in between.               *)
(***************************************************************************)
EXTENDS RouteTable, FiniteSetTheorems, TLAPS

LearnHops(r) == {learnHopRtt[r], learnHopLost[r]}
FwdHops(r)   == {fwdHopRtt[r], fwdHopLost[r]}

UpdatePcs == {"cmpRtt", "setHopRtt", "setRtt", "cmpLost", "setHopLost",
              "setLost"}

\* Rows in use have addresses; rows not in use have no hop; own rows have one.
RowsInv ==
  /\ \A r \in Known : ip[r] \in ServerIps
  /\ \A r \in Rows \ Known : LearnHops(r) = {Zero} /\ FwdHops(r) = {Zero}
  /\ \A r \in 0 .. NumOwn - 1 : Zero \notin LearnHops(r) \cup FwdHops(r)

\* The locals of the main thread.
MainInv ==
  /\ mpc \in {"ownLost", "copy", "copyRtt"} => mrow < NumOwn /\ msrc = Gateway
  /\ mpc = "copyRtt" => mupd.ip \in ServerIps /\ mupd.hop = Gateway
  /\ mpc = "advert" => msrc \in Peers
  /\ mpc \in UpdatePcs \cup {"find", "hung"} =>
       /\ mupd.ip \in ServerIps
       /\ mupd.hop = msrc /\ msrc \in Peers \cup {Gateway}
       /\ msrc \in Peers => <<msrc, mupd.ip>> \in heard
  /\ mpc \in UpdatePcs => mrow < number_of_all_servers /\ ip[mrow] = mupd.ip

\* The loop index of the run thread.
RunInv ==
  /\ rpc \in {"check", "down", "send", "syncTest", "sync"} => rrow < NumOwn
  /\ rpc \in {"fillLost", "fillRtt", "resetHopLost", "resetRtt", "resetHopRtt",
              "resetLost"} => rrow < number_of_all_servers

IInv == TypeOK /\ OneRowPerServer /\ RowsInv /\ MainInv /\ RunInv
        /\ HopsWereHeard /\ MacBehindHop /\ CrashOnlyDuringAdvert
-----------------------------------------------------------------------------
(* The table has room.                                                     *)

\* The own servers have distinct addresses, so they fit into the table.
LEMMA OwnRowsFit == NumOwn <= MaxServers /\ 0 .. NumOwn - 1 \subseteq Rows
<1>1. IsFiniteSet(0 .. NumOwn - 1) /\ Cardinality(0 .. NumOwn - 1) = NumOwn
  <2>1. NumOwn \in Nat /\ 0 \in Int /\ NumOwn - 1 \in Int BY TableAssumption
  <2> QED BY <2>1, FS_Interval
<1>2. OwnIp \in Injection(0 .. NumOwn - 1, ServerIps)
  BY TableAssumption DEF Injection, IsInjective
<1>3. NumOwn <= Cardinality(ServerIps)
  BY <1>1, <1>2, FS_Injection, AddressAssumption
<1>4. Cardinality(ServerIps) \in Nat BY FS_CardinalityType, AddressAssumption
<1> QED BY <1>3, <1>4, TableAssumption DEF Rows

\* A search for an address finds the row that has it, and there is at most one.
LEMMA SearchFinds ==
  ASSUME TypeOK, OneRowPerServer, NEW a, get_index_by_ip(a) # -1
  PROVE  get_index_by_ip(a) \in Known /\ ip[get_index_by_ip(a)] = a
<1> DEFINE rows == {r \in Known : ip[r] = a}
<1>1. PICK r \in rows : TRUE BY DEF get_index_by_ip
<1>2. \A q \in rows : r <= q
  BY <1>1, TableAssumption DEF OneRowPerServer, Known, Rows
<1>3. get_index_by_ip(a) = CHOOSE q \in rows : \A t \in rows : q <= t
  BY <1>1 DEF get_index_by_ip
<1> QED BY <1>1, <1>2, <1>3

\* insert_into_server_infoes has room for an address that no row holds, though
\* it does not look: a full table holds every address there is.
LEMMA RoomForNewServer ==
  ASSUME TypeOK, OneRowPerServer, RowsInv, NEW a \in ServerIps,
         get_index_by_ip(a) = -1
  PROVE  /\ number_of_all_servers \in Rows
         /\ \A r \in Known : ip[r] # a
<1> USE TableAssumption, AddressAssumption
<1>1. \A r \in Known : ip[r] # a
  <2> SUFFICES ASSUME NEW r \in Known, ip[r] = a PROVE FALSE OBVIOUS
  <2> DEFINE rows == {q \in Known : ip[q] = a}
  <2>1. \A q \in rows : r <= q BY DEF OneRowPerServer, Known, Rows
  <2>2. get_index_by_ip(a) = CHOOSE q \in rows : \A t \in rows : q <= t
    BY DEF get_index_by_ip
  <2>3. get_index_by_ip(a) \in rows BY <2>1, <2>2
  <2> QED BY <2>3 DEF Known, Rows
<1>2. ASSUME number_of_all_servers = MaxServers PROVE FALSE
  <2> DEFINE S == 0 .. MaxServers - 1
             T == ServerIps \ {a}
             f == [r \in S |-> ip[r]]
  <2>1. \A r \in S : r \in Known BY <1>2 DEF Known, Rows
  <2>2. f \in Injection(S, T)
    BY <1>1, <2>1 DEF Injection, IsInjective, RowsInv, OneRowPerServer
  <2>3. IsFiniteSet(S) /\ Cardinality(S) = MaxServers
    <3>1. MaxServers \in Nat \ {0} /\ 0 \in Int /\ MaxServers - 1 \in Int
      OBVIOUS
    <3>2. Cardinality(S) = IF 0 > MaxServers - 1 THEN 0
                           ELSE (MaxServers - 1) - 0 + 1
      BY <3>1, FS_Interval, Zenon
    <3>3. IsFiniteSet(S) BY <3>1, FS_Interval, Zenon
    <3> QED BY <3>1, <3>2, <3>3
  <2>4. IsFiniteSet(T) /\ Cardinality(T) = Cardinality(ServerIps) - 1
    BY FS_RemoveElement
  <2>5. Cardinality(S) <= Cardinality(T) BY <2>2, <2>4, FS_Injection
  <2>6. Cardinality(ServerIps) \in Nat BY FS_CardinalityType
  <2> QED BY <2>3, <2>4, <2>5, <2>6
<1> QED BY <1>1, <1>2 DEF TypeOK, Rows

-----------------------------------------------------------------------------
(* The initial states.                                                     *)

LEMMA InitIInv == Init => IInv
<1> SUFFICES ASSUME Init PROVE IInv OBVIOUS
<1> USE TableAssumption, AddressAssumption, MetricAssumption, OwnRowsFit
<1>1. 0 \in Rows BY DEF Rows
<1>2. TypeOK
  <2>1. NoUpdate \in Update BY DEF NoUpdate, Update, Delays, Hops
  <2> QED BY <1>1, <2>1 DEF Init, TypeOK, Hops, Delays, MainPcs, RunPcs, Rows
<1>3. OneRowPerServer BY DEF Init, OneRowPerServer, Known, Rows
<1>4. RowsInv BY DEF Init, RowsInv, LearnHops, FwdHops, Known, Rows
<1>5. MainInv /\ RunInv BY DEF Init, MainInv, RunInv, UpdatePcs
<1>6. HopsWereHeard /\ MacBehindHop
  BY DEF Init, HopsWereHeard, MacBehindHop, Known, Rows
<1>7. CrashOnlyDuringAdvert BY DEF Init, CrashOnlyDuringAdvert
<1> QED BY <1>2, <1>3, <1>4, <1>5, <1>6, <1>7 DEF IInv
-----------------------------------------------------------------------------
(* Type correctness: one step per action.                                  *)

\* A loop over rows stays within the table.
LEMMA NextRowType ==
  ASSUME TypeOK, NEW bound \in {NumOwn, number_of_all_servers},
         NEW again \in RunPcs, NEW after \in RunPcs,
         NextRow(bound, again, after)
  PROVE  rrow' \in Rows /\ rpc' \in RunPcs
BY TableAssumption, OwnRowsFit DEF TypeOK, NextRow, Step, Rows

LEMMA TypeOKStep == IInv /\ [Next]_vars => TypeOK'
<1> SUFFICES ASSUME IInv, [Next]_vars PROVE TypeOK' OBVIOUS
<1> USE TableAssumption, AddressAssumption, MetricAssumption, OwnRowsFit
<1> USE DEF own, learned, fwd, main, run, history, Hops, MainPcs, RunPcs
<1>0. TypeOK /\ OneRowPerServer /\ RowsInv /\ MainInv /\ RunInv BY DEF IInv
<1>a. /\ 0 \in Rows /\ NoUpdate \in Update /\ number_of_all_servers \in Nat
      /\ \A r \in Nat : r < number_of_all_servers => r \in Rows
      /\ \A r \in Nat : r < NumOwn => r \in Rows
      /\ INF \in Delays
  BY <1>0 DEF TypeOK, Rows, NoUpdate, Update, Delays
<1>1. ASSUME NEW i \in 0 .. NumOwn - 1, NEW r \in Delays, ReceivePing(i, r)
      PROVE  TypeOK'
  BY <1>0, <1>1 DEF TypeOK, ReceivePing
<1>2. ASSUME NEW l \in LossRates, SetOwnLost(l) PROVE TypeOK'
  BY <1>0, <1>2 DEF TypeOK, SetOwnLost
<1>3. CASE CopyLost BY <1>0, <1>3 DEF TypeOK, CopyLost, Update
<1>4. CASE CopyRtt BY <1>0, <1>4 DEF TypeOK, CopyRtt, Update
<1>5. ASSUME NEW p \in Peers, ReceiveAdvert(p) PROVE TypeOK'
  BY <1>0, <1>5 DEF TypeOK, ReceiveAdvert
<1>6. ASSUME NEW s \in ServerIps, NEW r \in Delays \ {INF}, NEW l \in LossRates,
             AdvertEntry(s, r, l)
      PROVE  TypeOK'
  <2>1. msrc \in Peers BY <1>0, <1>6 DEF MainInv, AdvertEntry, MainAt
  <2>2. mupd' \in Update BY <1>6, <2>1 DEF AdvertEntry, Update
  <2>3. fresh' \in [Peers -> [ServerIps -> Delays]]
    BY <1>0, <1>6, <2>1 DEF AdvertEntry, TypeOK
  <2>4. heard' \subseteq Peers \X ServerIps
    BY <1>0, <1>6, <2>1 DEF AdvertEntry, TypeOK
  <2>5. mpc' = "find" /\ UNCHANGED <<number_of_all_servers, own, learned, fwd,
                                     ip_to_mac, msrc, mrow, run>>
    BY <1>6 DEF AdvertEntry
  <2> QED BY <1>0, <2>2, <2>3, <2>4, <2>5 DEF TypeOK
<1>7. CASE StoreMac
  BY <1>0, <1>7 DEF TypeOK, StoreMac, StoreMacOf, MainInv, MainAt
<1>8. CASE LockUninitialisedMutex
  BY <1>0, <1>8 DEF TypeOK, LockUninitialisedMutex
<1>9. CASE FindRow
  <2>1. get_index_by_ip(mupd.ip) \in Rows
    BY <1>0, <1>9, SearchFinds DEF FindRow, Known
  <2> QED BY <1>0, <1>9, <2>1 DEF TypeOK, FindRow
<1>10. CASE insert_into_server_infoes
  <2>1. number_of_all_servers \in Rows
    BY <1>0, <1>10, RoomForNewServer DEF insert_into_server_infoes, MainInv,
       MainAt
  <2>2. number_of_all_servers + 1 \in NumOwn .. MaxServers
    BY <1>0, <2>1 DEF TypeOK, Rows
  <2>3. mupd.ip \in ServerIps \cup {Zero} BY <1>0 DEF TypeOK, Update
  <2>4. ip' \in [Rows -> ServerIps \cup {Zero}]
    BY <1>0, <1>10, <2>3 DEF TypeOK, insert_into_server_infoes
  <2>5. /\ ping_lost_rate' \in [Rows -> LossRates]
        /\ learnLost' \in [Rows -> LossRates]
    BY <1>0, <1>a, <1>10 DEF TypeOK, insert_into_server_infoes
  <2>6. rtt_time' \in [Rows -> Delays] /\ learnRtt' \in [Rows -> Delays]
    BY <1>0, <1>a, <1>10 DEF TypeOK, insert_into_server_infoes
  <2>7. /\ number_of_all_servers' = number_of_all_servers + 1
        /\ mrow' = number_of_all_servers /\ mpc' = "cmpRtt"
        /\ UNCHANGED <<learnHopRtt, learnHopLost, rttVia, lostVia, fwd,
                       ip_to_mac, msrc, mupd, run, history>>
    BY <1>10 DEF insert_into_server_infoes
  <2> QED BY <1>0, <2>1, <2>2, <2>4, <2>5, <2>6, <2>7 DEF TypeOK
<1>11. CASE CompareRtt BY <1>0, <1>11 DEF TypeOK, CompareRtt
<1>12. CASE SetHopRtt BY <1>0, <1>12 DEF TypeOK, SetHopRtt, Update
<1>13. CASE SetRtt BY <1>0, <1>13 DEF TypeOK, SetRtt, Update
<1>14. CASE CompareLost
  BY <1>0, <1>a, <1>14 DEF TypeOK, CompareLost, LeaveUpdate
<1>15. CASE SetHopLost BY <1>0, <1>15 DEF TypeOK, SetHopLost, Update
<1>16. CASE SetLost BY <1>0, <1>a, <1>16 DEF TypeOK, SetLost, LeaveUpdate, Update
<1>17. CASE PingCommand BY <1>0, <1>a, <1>17 DEF TypeOK, PingCommand, Step
<1>18. CASE CheckAlive
  <2>1. rrow' \in Rows /\ rpc' \in RunPcs BY <1>0, <1>18, NextRowType DEF CheckAlive
  <2> QED BY <1>0, <1>18, <2>1 DEF TypeOK, CheckAlive
<1>19. CASE CheckDown BY <1>0, <1>19 DEF TypeOK, CheckDown, Step
<1>20. CASE SetDown
  <2>1. rrow' \in Rows /\ rpc' \in RunPcs BY <1>0, <1>20, NextRowType DEF SetDown
  <2>2. rtt_time' \in [Rows -> Delays] BY <1>0, <1>a, <1>20 DEF TypeOK, SetDown
  <2>3. UNCHANGED <<number_of_all_servers, ip, ping_lost_rate, learned, fwd,
                    ip_to_mac, main, history>>
    BY <1>20 DEF SetDown
  <2> QED BY <1>0, <2>1, <2>2, <2>3 DEF TypeOK
<1>21. ASSUME NEW l \in LossRates, CountPing(l) PROVE TypeOK'
  BY <1>0, <1>21 DEF TypeOK, CountPing, Step
<1>22. CASE PingUnreachable BY <1>0, <1>22 DEF TypeOK, PingUnreachable, Step
<1>23. CASE SyncTest
  <2>1. rrow' \in Rows /\ rpc' \in RunPcs
    <3>1. CASE FollowsOwnLoss(rrow)
      BY <1>0, <1>23, <3>1 DEF SyncTest, Step, TypeOK
    <3>2. CASE ~ FollowsOwnLoss(rrow)
      BY <1>0, <1>23, <3>2, NextRowType DEF SyncTest
    <3> QED BY <3>1, <3>2
  <2> QED BY <1>0, <1>23, <2>1 DEF TypeOK, SyncTest
<1>24. CASE SyncLost
  <2>1. rrow' \in Rows /\ rpc' \in RunPcs BY <1>0, <1>24, NextRowType DEF SyncLost
  <2> QED BY <1>0, <1>24, <2>1 DEF TypeOK, SyncLost
<1>25. CASE AdvertiseCommand
  BY <1>0, <1>a, <1>25 DEF TypeOK, AdvertiseCommand, Step
<1>26. CASE FillLost BY <1>0, <1>26 DEF TypeOK, FillLost, Step
<1>27. CASE FillRtt
  <2>1. rrow' \in Rows /\ rpc' \in RunPcs BY <1>0, <1>27, NextRowType DEF FillRtt
  <2> QED BY <1>0, <1>27, <2>1 DEF TypeOK, FillRtt
<1>28. CASE ResetHopLost BY <1>0, <1>28 DEF TypeOK, ResetHopLost, Step
<1>29. CASE ResetRtt
  <2>1. learnRtt' \in [Rows -> Delays] /\ rttVia' \in [Rows -> Hops]
    BY <1>0, <1>a, <1>29 DEF TypeOK, ResetRtt
  <2>2. fresh' \in [Peers -> [ServerIps -> Delays]]
    BY <1>0, <1>a, <1>29 DEF TypeOK, ResetRtt
  <2>3. /\ rpc' = "resetHopRtt" /\ rrow' = rrow
        /\ UNCHANGED <<number_of_all_servers, own, learnHopRtt, learnHopLost,
                       learnLost, lostVia, fwd, ip_to_mac, main, heard>>
    BY <1>29 DEF ResetRtt, Step
  <2> QED BY <1>0, <2>1, <2>2, <2>3 DEF TypeOK
<1>30. CASE ResetHopRtt BY <1>0, <1>30 DEF TypeOK, ResetHopRtt, Step
<1>31. CASE ResetLost
  <2>1. rrow' \in Rows /\ rpc' \in RunPcs BY <1>0, <1>31, NextRowType DEF ResetLost
  <2> QED BY <1>0, <1>31, <2>1 DEF TypeOK, ResetLost
<1>32. ASSUME NEW d \in ServerIps, NEW h \in Hops, SendProbe(d, h) PROVE TypeOK'
  BY <1>0, <1>32 DEF TypeOK, SendProbe
<1>33. CASE UNCHANGED vars BY <1>0, <1>33 DEF TypeOK, vars
<1> QED BY <1>1, <1>2, <1>3, <1>4, <1>5, <1>6, <1>7, <1>8, <1>9, <1>10, <1>11,
          <1>12, <1>13, <1>14, <1>15, <1>16, <1>17, <1>18, <1>19, <1>20, <1>21,
          <1>22, <1>23, <1>24, <1>25, <1>26, <1>27, <1>28, <1>29, <1>30, <1>31,
          <1>32, <1>33 DEF Next, MainNext, RunNext
-----------------------------------------------------------------------------
(* What a step leaves alone.                                               *)

\* Only insert_into_server_infoes changes the addresses and the row count.
LEMMA AddressFrame ==
  [Next]_vars => insert_into_server_infoes
                 \/ UNCHANGED <<number_of_all_servers, ip>>
BY DEF Next, MainNext, RunNext, vars, own, learned, fwd, main, run, history,
  ReceivePing, SetOwnLost, CopyLost, CopyRtt, ReceiveAdvert, AdvertEntry,
  StoreMac, LockUninitialisedMutex, FindRow, CompareRtt, SetHopRtt, SetRtt,
  CompareLost, SetHopLost, SetLost, PingCommand, CheckAlive, CheckDown, SetDown,
  CountPing, PingUnreachable, SyncTest, SyncLost, AdvertiseCommand, FillLost,
  FillRtt, ResetHopLost, ResetRtt, ResetHopRtt, ResetLost, SendProbe

\* Six statements write next hops.
HopWrite == SetHopRtt \/ SetHopLost \/ FillLost \/ FillRtt \/ ResetHopLost
            \/ ResetHopRtt

LEMMA HopFrame ==
  [Next]_vars => HopWrite \/ UNCHANGED <<learnHopRtt, learnHopLost, fwd>>
BY DEF Next, MainNext, RunNext, HopWrite, vars, own, learned, fwd, main, run,
  history, ReceivePing, SetOwnLost, CopyLost, CopyRtt, ReceiveAdvert,
  AdvertEntry, StoreMac, LockUninitialisedMutex, FindRow,
  insert_into_server_infoes, CompareRtt, SetRtt, CompareLost, SetLost,
  PingCommand, CheckAlive, CheckDown, SetDown, CountPing, PingUnreachable,
  SyncTest, SyncLost, AdvertiseCommand, ResetRtt, ResetLost, SendProbe

\* A step of one thread leaves the locals of the other.
LEMMA ThreadFrame ==
  [Next]_vars => \/ MainNext /\ UNCHANGED run
                 \/ RunNext /\ UNCHANGED <<number_of_all_servers, ip, main, heard,
                                           ip_to_mac>>
                 \/ UNCHANGED vars
BY DEF Next, MainNext, RunNext, vars, own, learned, fwd, main, run, history,
  ReceivePing, SetOwnLost, CopyLost, CopyRtt, ReceiveAdvert, AdvertEntry,
  StoreMac, LockUninitialisedMutex, FindRow, insert_into_server_infoes,
  CompareRtt, SetHopRtt, SetRtt,
  CompareLost, SetHopLost, SetLost, PingCommand, CheckAlive, CheckDown, SetDown,
  CountPing, PingUnreachable, SyncTest, SyncLost, AdvertiseCommand, FillLost,
  FillRtt, ResetHopLost, ResetRtt, ResetHopRtt, ResetLost, SendProbe

\* Nothing heard is forgotten.
LEMMA HeardGrows == [Next]_vars => heard \subseteq heard'
BY DEF Next, MainNext, RunNext, vars, own, learned, fwd, main, run, history,
  ReceivePing, SetOwnLost, CopyLost, CopyRtt, ReceiveAdvert, AdvertEntry,
  StoreMac, LockUninitialisedMutex, FindRow, insert_into_server_infoes,
  CompareRtt, SetHopRtt, SetRtt,
  CompareLost, SetHopLost, SetLost, PingCommand, CheckAlive, CheckDown, SetDown,
  CountPing, PingUnreachable, SyncTest, SyncLost, AdvertiseCommand, FillLost,
  FillRtt, ResetHopLost, ResetRtt, ResetHopRtt, ResetLost, SendProbe

-----------------------------------------------------------------------------
(* The rows.                                                               *)

LEMMA OneRowStep == IInv /\ [Next]_vars => OneRowPerServer'
<1> SUFFICES ASSUME IInv, [Next]_vars PROVE OneRowPerServer' OBVIOUS
<1>0. TypeOK /\ OneRowPerServer /\ RowsInv /\ MainInv BY DEF IInv
<1>1. CASE insert_into_server_infoes
  <2>1. mupd.ip \in ServerIps /\ get_index_by_ip(mupd.ip) = -1
    BY <1>0, <1>1 DEF insert_into_server_infoes, MainInv, MainAt
  <2>2. number_of_all_servers \in Rows /\ \A r \in Known : ip[r] # mupd.ip
    BY <1>0, <2>1, RoomForNewServer
  <2>3. ip' = [ip EXCEPT ![number_of_all_servers] = mupd.ip]
        /\ number_of_all_servers' = number_of_all_servers + 1
    BY <1>1 DEF insert_into_server_infoes
  <2>4. \A r \in Rows : r < number_of_all_servers + 1 =>
          r \in Known \/ r = number_of_all_servers
    BY <1>0, <2>2, TableAssumption DEF Known, Rows, TypeOK
  <2>5. \A r \in Known : r # number_of_all_servers /\ r \in Rows
    BY <2>2, TableAssumption DEF Known, Rows
  <2>6. /\ ip'[number_of_all_servers] = mupd.ip
        /\ \A r \in Known : ip'[r] = ip[r]
    BY <1>0, <2>2, <2>3, <2>5 DEF TypeOK
  <2> QED BY <1>0, <2>2, <2>3, <2>4, <2>6 DEF OneRowPerServer, Known
<1>2. CASE UNCHANGED <<number_of_all_servers, ip>>
  BY <1>0, <1>2 DEF OneRowPerServer, Known
<1> QED BY <1>1, <1>2, AddressFrame

LEMMA RowsStep == IInv /\ [Next]_vars => RowsInv'
<1> SUFFICES ASSUME IInv, [Next]_vars PROVE RowsInv' OBVIOUS
<1>0. TypeOK /\ OneRowPerServer /\ RowsInv /\ MainInv /\ RunInv BY DEF IInv
<1> USE TableAssumption, AddressAssumption, OwnRowsFit
<1>1. CASE insert_into_server_infoes
  <2>1. mupd.ip \in ServerIps /\ get_index_by_ip(mupd.ip) = -1
    BY <1>0, <1>1 DEF insert_into_server_infoes, MainInv, MainAt
  <2>2. number_of_all_servers \in Rows /\ NumOwn <= number_of_all_servers
    BY <1>0, <2>1, RoomForNewServer DEF TypeOK
  <2>3. /\ ip' = [ip EXCEPT ![number_of_all_servers] = mupd.ip]
        /\ number_of_all_servers' = number_of_all_servers + 1
        /\ UNCHANGED <<learnHopRtt, learnHopLost, fwdHopRtt, fwdHopLost>>
    BY <1>1 DEF insert_into_server_infoes, fwd
  <2>4. \A r \in Known' : ip'[r] \in ServerIps
    BY <1>0, <2>1, <2>2, <2>3 DEF RowsInv, Known, TypeOK, Rows
  <2>5. \A r \in Rows \ Known' : r \in Rows \ Known
    BY <1>0, <2>2, <2>3 DEF Known, TypeOK, Rows
  <2> QED BY <1>0, <2>3, <2>4, <2>5 DEF RowsInv, LearnHops, FwdHops
<1>2. CASE UNCHANGED <<number_of_all_servers, ip>>
  <2>1. Known' = Known BY <1>2 DEF Known
  <2>2. \A r \in Known' : ip'[r] \in ServerIps BY <1>0, <1>2, <2>1 DEF RowsInv
  <2>3. 0 .. NumOwn - 1 \subseteq Known BY <1>0 DEF Known, TypeOK
  <2>4. CASE UNCHANGED <<learnHopRtt, learnHopLost, fwd>>
    BY <1>0, <2>1, <2>2, <2>4 DEF RowsInv, LearnHops, FwdHops, fwd
  <2>5. CASE SetHopRtt \/ SetHopLost
    <3>1. mrow \in Known /\ mupd.hop \in Peers \cup {Gateway}
      BY <1>0, <2>5 DEF MainInv, UpdatePcs, SetHopRtt, SetHopLost, MainAt, Known,
         TypeOK
    <3>2. /\ mupd.hop # Zero
          /\ \/ learnHopRtt' = [learnHopRtt EXCEPT ![mrow] = mupd.hop]
                /\ UNCHANGED <<learnHopLost, fwdHopRtt, fwdHopLost>>
             \/ learnHopLost' = [learnHopLost EXCEPT ![mrow] = mupd.hop]
                /\ UNCHANGED <<learnHopRtt, fwdHopRtt, fwdHopLost>>
      BY <2>5, <3>1 DEF SetHopRtt, SetHopLost, fwd
    <3> QED
      BY <1>0, <2>1, <2>2, <2>3, <3>1, <3>2 DEF RowsInv, LearnHops, FwdHops, TypeOK
  <2>6. CASE ResetHopLost
    <3>1. rrow \in Known BY <1>0, <2>6 DEF RunInv, ResetHopLost, Known, TypeOK
    <3>2. /\ learnHopLost' = [learnHopLost EXCEPT ![rrow] = Gateway]
          /\ UNCHANGED <<learnHopRtt, fwdHopRtt, fwdHopLost>>
      BY <2>6 DEF ResetHopLost, fwd
    <3>3. learnHopLost'[rrow] = Gateway /\ \A r \in Rows \ {rrow} : learnHopLost'[r] = learnHopLost[r]
      BY <1>0, <3>1, <3>2 DEF TypeOK, Known
    <3> QED
      BY <1>0, <2>1, <2>2, <2>3, <3>1, <3>2, <3>3 DEF RowsInv, LearnHops, FwdHops, Known
  <2>7. CASE ResetHopRtt
    <3>1. rrow \in Known BY <1>0, <2>7 DEF RunInv, ResetHopRtt, Known, TypeOK
    <3>2. /\ learnHopRtt' = [learnHopRtt EXCEPT ![rrow] = Gateway]
          /\ UNCHANGED <<learnHopLost, fwdHopRtt, fwdHopLost>>
      BY <2>7 DEF ResetHopRtt, fwd
    <3>3. learnHopRtt'[rrow] = Gateway /\ \A r \in Rows \ {rrow} : learnHopRtt'[r] = learnHopRtt[r]
      BY <1>0, <3>1, <3>2 DEF TypeOK, Known
    <3> QED
      BY <1>0, <2>1, <2>2, <2>3, <3>1, <3>2, <3>3 DEF RowsInv, LearnHops, FwdHops, Known
  <2>8. CASE FillLost
    <3>1. rrow \in Known BY <1>0, <2>8 DEF RunInv, FillLost, Known, TypeOK
    <3>2. /\ fwdHopLost' = [fwdHopLost EXCEPT ![rrow] = learnHopLost[rrow]]
          /\ UNCHANGED <<learnHopRtt, learnHopLost, fwdHopRtt>>
      BY <2>8 DEF FillLost, learned
    <3>3. fwdHopLost'[rrow] = learnHopLost[rrow] /\ \A r \in Rows \ {rrow} : fwdHopLost'[r] = fwdHopLost[r]
      BY <1>0, <3>1, <3>2 DEF TypeOK, Known
    <3> QED
      BY <1>0, <2>1, <2>2, <2>3, <3>1, <3>2, <3>3 DEF RowsInv, LearnHops, FwdHops, Known
  <2>9. CASE FillRtt
    <3>1. rrow \in Known BY <1>0, <2>9 DEF RunInv, FillRtt, Known, TypeOK
    <3>2. /\ fwdHopRtt' = [fwdHopRtt EXCEPT ![rrow] = learnHopRtt[rrow]]
          /\ UNCHANGED <<learnHopRtt, learnHopLost, fwdHopLost>>
      BY <2>9 DEF FillRtt, learned
    <3>3. fwdHopRtt'[rrow] = learnHopRtt[rrow] /\ \A r \in Rows \ {rrow} : fwdHopRtt'[r] = fwdHopRtt[r]
      BY <1>0, <3>1, <3>2 DEF TypeOK, Known
    <3> QED
      BY <1>0, <2>1, <2>2, <2>3, <3>1, <3>2, <3>3 DEF RowsInv, LearnHops, FwdHops, Known
  <2> QED BY <2>4, <2>5, <2>6, <2>7, <2>8, <2>9, HopFrame DEF HopWrite
<1> QED BY <1>1, <1>2, AddressFrame
-----------------------------------------------------------------------------
(* The locals of the two threads.                                          *)

LEMMA RunStep == IInv /\ [Next]_vars => RunInv'
<1> SUFFICES ASSUME IInv, [Next]_vars PROVE RunInv' OBVIOUS
<1>0. TypeOK /\ RunInv BY DEF IInv
<1>1. number_of_all_servers <= number_of_all_servers'
  BY <1>0, AddressFrame, TableAssumption DEF insert_into_server_infoes, TypeOK
<1>2. CASE UNCHANGED run
  BY <1>0, <1>1, <1>2, TypeOKStep DEF IInv, RunInv, TypeOK, Rows, run
<1>3. CASE RunNext /\ UNCHANGED number_of_all_servers
  <2>1. /\ rrow \in Nat /\ number_of_all_servers \in Nat
        /\ NumOwn <= number_of_all_servers
        /\ NumOwn \in Nat
    BY <1>0, TableAssumption DEF TypeOK, Rows
  <2> USE <1>0, <1>3, <2>1 DEF RunInv, Step, NextRow
  <2>2. CASE PingCommand BY <2>2 DEF PingCommand
  <2>3. CASE CheckAlive BY <2>3 DEF CheckAlive
  <2>4. CASE CheckDown BY <2>4 DEF CheckDown
  <2>5. CASE SetDown BY <2>5 DEF SetDown
  <2>6. ASSUME NEW l \in LossRates, CountPing(l) PROVE RunInv'
    BY <2>6 DEF CountPing
  <2>7. CASE PingUnreachable BY <2>7 DEF PingUnreachable
  <2>8. CASE SyncTest BY <2>8 DEF SyncTest
  <2>9. CASE SyncLost BY <2>9 DEF SyncLost
  <2>10. CASE AdvertiseCommand BY <2>10 DEF AdvertiseCommand
  <2>11. CASE FillLost BY <2>11 DEF FillLost
  <2>12. CASE FillRtt BY <2>12 DEF FillRtt
  <2>13. CASE ResetHopLost BY <2>13 DEF ResetHopLost
  <2>14. CASE ResetRtt BY <2>14 DEF ResetRtt
  <2>15. CASE ResetHopRtt BY <2>15 DEF ResetHopRtt
  <2>16. CASE ResetLost BY <2>16 DEF ResetLost
  <2>17. ASSUME NEW d \in ServerIps, NEW h \in Hops, SendProbe(d, h) PROVE RunInv'
    BY <2>17 DEF SendProbe
  <2> QED BY <2>2, <2>3, <2>4, <2>5, <2>6, <2>7, <2>8, <2>9, <2>10, <2>11, <2>12,
             <2>13, <2>14, <2>15, <2>16, <2>17 DEF RunNext
<1> QED BY <1>2, <1>3, ThreadFrame DEF vars

LEMMA MainStep == IInv /\ [Next]_vars => MainInv'
<1> SUFFICES ASSUME IInv, [Next]_vars PROVE MainInv' OBVIOUS
<1> USE TableAssumption, AddressAssumption, OwnRowsFit
<1> USE DEF MainInv, UpdatePcs, MainAt
<1>0. TypeOK /\ OneRowPerServer /\ RowsInv /\ MainInv BY DEF IInv
<1>1. ASSUME NEW i \in 0 .. NumOwn - 1, NEW r \in Delays, ReceivePing(i, r)
      PROVE  MainInv'
  BY <1>0, <1>1 DEF ReceivePing
<1>2. ASSUME NEW l \in LossRates, SetOwnLost(l) PROVE MainInv'
  BY <1>0, <1>2 DEF SetOwnLost
<1>3. CASE CopyLost
  <2>1. mrow \in Known BY <1>0, <1>3 DEF CopyLost, Known, TypeOK, Rows
  <2>2. ip[mrow] \in ServerIps BY <1>0, <2>1 DEF RowsInv
  <2> QED BY <1>0, <1>3, <2>2 DEF CopyLost, TypeOK, Update
<1>4. CASE CopyRtt BY <1>0, <1>4 DEF CopyRtt, TypeOK, Update
<1>5. ASSUME NEW p \in Peers, ReceiveAdvert(p) PROVE MainInv'
  BY <1>5 DEF ReceiveAdvert
<1>6. ASSUME NEW s \in ServerIps, NEW r \in Delays \ {INF}, NEW l \in LossRates,
             AdvertEntry(s, r, l)
      PROVE  MainInv'
  BY <1>0, <1>6 DEF AdvertEntry
<1>7. CASE StoreMac BY <1>7 DEF StoreMac
<1>8. CASE LockUninitialisedMutex
  BY <1>0, <1>8 DEF LockUninitialisedMutex, history
<1>9. CASE FindRow
  <2>1. /\ get_index_by_ip(mupd.ip) \in Known
        /\ ip[get_index_by_ip(mupd.ip)] = mupd.ip
    BY <1>0, <1>9, SearchFinds DEF FindRow
  <2> QED BY <1>0, <1>9, <2>1 DEF FindRow, Known, own, history
<1>10. CASE insert_into_server_infoes
  <2>1. number_of_all_servers \in Rows
    BY <1>0, <1>10, RoomForNewServer DEF insert_into_server_infoes
  <2>2. /\ mrow' = number_of_all_servers /\ mpc' = "cmpRtt"
        /\ number_of_all_servers' = number_of_all_servers + 1
        /\ ip'[mrow'] = mupd.ip
    BY <1>0, <1>10, <2>1 DEF insert_into_server_infoes, TypeOK
  <2> QED
    BY <1>0, <1>10, <2>1, <2>2 DEF insert_into_server_infoes, history, Rows
<1>11. CASE CompareRtt BY <1>0, <1>11 DEF CompareRtt, own, history
<1>12. CASE SetHopRtt BY <1>0, <1>12 DEF SetHopRtt, own, history
<1>13. CASE SetRtt BY <1>0, <1>13 DEF SetRtt, own, history
<1>14. CASE CompareLost
  BY <1>0, <1>14 DEF CompareLost, LeaveUpdate, own, history
<1>15. CASE SetHopLost BY <1>0, <1>15 DEF SetHopLost, own, history
<1>16. CASE SetLost BY <1>0, <1>16 DEF SetLost, LeaveUpdate, own, history
<1>17. CASE UNCHANGED <<number_of_all_servers, ip, main, heard>>
  BY <1>0, <1>17 DEF main
<1> QED BY <1>1, <1>2, <1>3, <1>4, <1>5, <1>6, <1>7, <1>8, <1>9, <1>10, <1>11,
          <1>12, <1>13, <1>14, <1>15, <1>16, <1>17, ThreadFrame
       DEF MainNext, vars, own, history
-----------------------------------------------------------------------------
(* The next hops.                                                          *)

\* A MAC address stays, and only its storing ends the reading of an advert.
LEMMA AdvertFrame ==
  ASSUME MainInv, [Next]_vars
  PROVE  /\ ip_to_mac \subseteq ip_to_mac'
         /\ \A p \in Peers : mpc # "idle" /\ msrc = p =>
              p \in ip_to_mac' \/ (mpc' # "idle" /\ msrc' = p)
<1> USE AddressAssumption DEF MainInv, UpdatePcs, MainAt
<1>1. CASE RunNext /\ UNCHANGED <<main, ip_to_mac>> BY <1>1 DEF main
<1>2. CASE UNCHANGED vars BY <1>2 DEF vars, main
<1>3. CASE MainNext
  BY <1>3 DEF MainNext, main, ReceivePing, MainMayStart, SetOwnLost, CopyLost,
     CopyRtt, ReceiveAdvert, AdvertEntry, StoreMac, StoreMacOf,
     LockUninitialisedMutex, FindRow, insert_into_server_infoes, CompareRtt,
     SetHopRtt, SetRtt, CompareLost, SetHopLost, SetLost, LeaveUpdate
<1> QED BY <1>1, <1>2, <1>3, ThreadFrame

\* A crash is the end, and a probe is what brings it.
LEMMA CrashFrame ==
  ASSUME [Next]_vars, rpc' = "crashed"
  PROVE  \/ rpc = "crashed" /\ UNCHANGED <<main, ip_to_mac>>
         \/ \E d \in ServerIps, h \in Hops : SendProbe(d, h)
BY DEF Next, MainNext, RunNext, vars, main, run, Running, MainMayStart, MainAt,
  RunMayStart, Step, NextRow,
  ReceivePing, SetOwnLost, CopyLost, CopyRtt, ReceiveAdvert, AdvertEntry,
  StoreMac, LockUninitialisedMutex, FindRow, insert_into_server_infoes,
  CompareRtt, SetHopRtt, SetRtt,
  CompareLost, SetHopLost, SetLost, PingCommand, CheckAlive, CheckDown, SetDown,
  CountPing, PingUnreachable, SyncTest, SyncLost, AdvertiseCommand, FillLost,
  FillRtt, ResetHopLost, ResetRtt, ResetHopRtt, ResetLost, SendProbe

\* What a step may make of the next hops of a row: the row of a hop written by
\* update_learning_table is the row of the update, and the other writes copy a
\* hop within a row or take the gateway.
LEMMA HopSource ==
  ASSUME IInv, [Next]_vars, NEW r \in Rows,
         NEW p \in LearnHops(r)' \cup FwdHops(r)', p \in Peers
  PROVE  \/ p \in LearnHops(r) \cup FwdHops(r)
         \/ r = mrow /\ mpc \in {"setHopRtt", "setHopLost"} /\ mpc' # "idle"
            /\ p = mupd.hop /\ UNCHANGED <<number_of_all_servers, ip, msrc, heard,
                                        ip_to_mac>>
<1> USE AddressAssumption DEF LearnHops, FwdHops
<1>0. TypeOK BY DEF IInv
<1>1. CASE UNCHANGED <<learnHopRtt, learnHopLost, fwd>> BY <1>1 DEF fwd
<1>2. CASE SetHopRtt BY <1>0, <1>2 DEF SetHopRtt, MainAt, TypeOK, fwd, own, history
<1>3. CASE SetHopLost
  BY <1>0, <1>3 DEF SetHopLost, MainAt, TypeOK, fwd, own, history
<1>4. CASE FillLost BY <1>0, <1>4 DEF FillLost, TypeOK, learned
<1>5. CASE FillRtt BY <1>0, <1>5 DEF FillRtt, TypeOK, learned
<1>6. CASE ResetHopLost BY <1>0, <1>6 DEF ResetHopLost, TypeOK, fwd
<1>7. CASE ResetHopRtt BY <1>0, <1>7 DEF ResetHopRtt, TypeOK, fwd
<1> QED BY <1>1, <1>2, <1>3, <1>4, <1>5, <1>6, <1>7, HopFrame DEF HopWrite

LEMMA HeardStep == IInv /\ [Next]_vars => HopsWereHeard'
<1> SUFFICES ASSUME IInv, [Next]_vars,
                    NEW r \in Known', NEW p \in LearnHops(r)' \cup FwdHops(r)',
                    p \in Peers
             PROVE  <<p, ip'[r]>> \in heard'
  BY DEF HopsWereHeard, LearnHops, FwdHops
<1>0. TypeOK /\ RowsInv /\ MainInv /\ HopsWereHeard /\ r \in Rows
  BY DEF IInv, Known
<1>1. CASE p \in LearnHops(r) \cup FwdHops(r)
  <2>1. r \in Known BY <1>0, <1>1, AddressAssumption DEF RowsInv
  <2>2. <<p, ip[r]>> \in heard
    BY <1>0, <1>1, <2>1 DEF HopsWereHeard, LearnHops, FwdHops
  <2>3. ip'[r] = ip[r]
    <3>1. CASE insert_into_server_infoes
      BY <1>0, <2>1, <3>1, TableAssumption
      DEF insert_into_server_infoes, TypeOK, Known, Rows
    <3> QED BY <3>1, AddressFrame
  <2> QED BY <2>2, <2>3, HeardGrows
<1>2. CASE /\ r = mrow /\ mpc \in {"setHopRtt", "setHopLost"} /\ p = mupd.hop
           /\ UNCHANGED <<ip, heard>>
  BY <1>0, <1>2 DEF MainInv, UpdatePcs
<1> QED BY <1>0, <1>1, <1>2, HopSource

LEMMA MacStep == IInv /\ [Next]_vars => MacBehindHop'
<1> SUFFICES ASSUME IInv, [Next]_vars,
                    NEW r \in Known', NEW p \in LearnHops(r)' \cup FwdHops(r)',
                    p \in Peers
             PROVE  (p \in ip_to_mac \/ (mpc # "idle" /\ msrc = p))'
  BY DEF MacBehindHop, LearnHops, FwdHops
<1>0. TypeOK /\ RowsInv /\ MainInv /\ MacBehindHop /\ r \in Rows
  BY DEF IInv, Known
<1>1. CASE p \in LearnHops(r) \cup FwdHops(r)
  <2>1. r \in Known BY <1>0, <1>1, AddressAssumption DEF RowsInv
  <2>2. p \in ip_to_mac \/ (mpc # "idle" /\ msrc = p)
    BY <1>0, <1>1, <2>1 DEF MacBehindHop, LearnHops, FwdHops
  <2> QED BY <1>0, <2>2, AdvertFrame
<1>2. CASE /\ mpc \in {"setHopRtt", "setHopLost"} /\ mpc' # "idle"
           /\ p = mupd.hop /\ UNCHANGED msrc
  BY <1>0, <1>2 DEF MainInv, UpdatePcs
<1> QED BY <1>0, <1>1, <1>2, HopSource

LEMMA CrashStep == IInv /\ [Next]_vars => CrashOnlyDuringAdvert'
<1> SUFFICES ASSUME IInv, [Next]_vars, rpc' = "crashed", NumOwn > 0
             PROVE  mpc' # "idle" /\ msrc' \in Peers \ ip_to_mac'
  BY DEF CrashOnlyDuringAdvert
<1>0. TypeOK /\ RowsInv /\ MacBehindHop /\ CrashOnlyDuringAdvert BY DEF IInv
<1>1. CASE rpc = "crashed" /\ UNCHANGED <<main, ip_to_mac>>
  BY <1>0, <1>1 DEF CrashOnlyDuringAdvert, main
<1>2. ASSUME NEW d \in ServerIps, NEW h \in Hops, SendProbe(d, h)
      PROVE  mpc' # "idle" /\ msrc' \in Peers \ ip_to_mac'
  <2>1. h \in HopsOf(ip_to_id(d)) /\ ~ Reachable(h) /\ UNCHANGED <<main, ip_to_mac>>
    BY <1>2 DEF SendProbe
  <2>2. ip_to_id(d) \in 0 .. NumOwn - 1 BY TableAssumption DEF ip_to_id
  <2>3. ip_to_id(d) \in Known /\ h \in FwdHops(ip_to_id(d))
    BY <1>0, <2>1, <2>2, OwnRowsFit, TableAssumption
    DEF HopsOf, FwdHops, Known, TypeOK
  <2>4. h \in Peers
    BY <1>0, <2>1, <2>2, <2>3 DEF RowsInv, Reachable, Hops
  <2> QED BY <1>0, <2>1, <2>3, <2>4 DEF MacBehindHop, FwdHops, Reachable, main
<1> QED BY <1>1, <1>2, CrashFrame

-----------------------------------------------------------------------------
(* The theorems.                                                           *)

THEOREM Inductive == Spec => []IInv
<1>1. IInv /\ [Next]_vars => IInv'
  BY TypeOKStep, OneRowStep, RowsStep, MainStep, RunStep, HeardStep, MacStep,
     CrashStep DEF IInv
<1> QED BY InitIInv, <1>1, PTL DEF Spec

\* Every variable keeps its type and the table its bound, though no insertion
\* compares number_of_all_servers with MAX_SERVER_NUMBERS.
THEOREM TypeCorrect == Spec => []TypeOK
<1>1. IInv => TypeOK BY DEF IInv
<1> QED BY Inductive, <1>1, PTL

\* No server ever has two rows, with any number of peers advertising it.
THEOREM OneRow == Spec => []OneRowPerServer
<1>1. IInv => OneRowPerServer BY DEF IInv
<1> QED BY Inductive, <1>1, PTL

\* A peer is a next hop only of servers it advertised, in every interleaving of
\* update_learning_table with the run thread's loops over the rows.
THEOREM HopsHeard == Spec => []HopsWereHeard
<1>1. IInv => HopsWereHeard BY DEF IInv
<1> QED BY Inductive, <1>1, PTL

\* A next hop has a MAC address unless its first advert is still being read.
THEOREM MacKnown == Spec => []MacBehindHop
<1>1. IInv => MacBehindHop BY DEF IInv
<1> QED BY Inductive, <1>1, PTL

\* dsa and lsa miss a MAC address only while that advert is being read.
THEOREM CrashWindow == Spec => []CrashOnlyDuringAdvert
<1>1. IInv => CrashOnlyDuringAdvert BY DEF IInv
<1> QED BY Inductive, <1>1, PTL
=============================================================================
