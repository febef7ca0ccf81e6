------------------------- MODULE ServerSerialProofs --------------------------
(* Proofs about ServerProbe when the two threads take turns: no ping command  *)
(* runs during an answer (the instance of MCProbeSerial).  The properties     *)
(* that fail once they overlap hold then, for every word length above three   *)
(* and any number of pings: three faults in a row and nothing less mean that  *)
(* a server is down, each ping is counted once, the loss rate belongs to the  *)
(* counters, and the average lies between the delays measured.                *)
(*                                                                            *)
(* None of them is inductive.  SInv says, statement by statement, what is     *)
(* due: which ping is counted in ping_sent and which not yet (DueInv), how    *)
(* ping_lost_numbers relates to the pings without an answer (FaultInv), when  *)
(* the loss rate is out of date (LossInv).  LastInv says why the counters     *)
(* stay in step at all: sequence numbers wrap, but a reply under way is less  *)
(* than one word length old, so a reply that matches answers the last ping.   *)
EXTENDS ServerProbeProofs

\* Nothing overlaps, no round trip takes as long as the sentinel INF says, and
\* the fields can count to three.
Serial == ~Overlap /\ Word > 3 /\ Delays \subseteq 0 .. INF - 1

\* One thread at a time, with its register loaded from what it will store.
OneThread ==
  /\ rpc = "idle" \/ mpc = "idle"
  /\ early = FALSE
  /\ rpc = "storeLost" => rreg = ping_lost_numbers
  /\ rpc = "storeSent" => rreg = ping_sent
  /\ mpc \in {"isFirst", "first", "average"} => mreg = mdelay
  /\ mpc = "storeSent" => mreg = ping_sent

\* A reply under way is less than Word pings old; the one being taken is the
\* reply to the last ping.
LastInv ==
  /\ \A n \in replies : n > pings - Word
  /\ mpc # "idle" => mping > pings - Word
  /\ mpc \notin {"idle", "match"} => mping = pings /\ pings \in answered

\* The pings counted: the last one is, exactly if the server is up, when the
\* run thread rests; the next one as soon as it has been counted.
NotDue == {"first", "loadSent", "storeSent"}
Known == {"average", "received", "answered", "reset", "loss"}
DueInv ==
  /\ ping_sent = Cardinality(due) % Word
  /\ rpc \notin {"loss", "clear", "send"} => pings + 1 \notin due
  /\ rpc \in {"storeSent", "loss"} => Up
  /\ rpc = "loss" => pings + 1 \in due
  /\ rpc \in {"clear", "send"} => (Up <=> pings + 1 \in due)
  /\ rpc = "idle" /\ mpc \notin NotDue => (Up <=> pings \in due)
  /\ mpc \in NotDue => pings \notin due
  /\ mpc \in Known \cup {"loadSent", "storeSent"} => Up
  /\ mpc = "first" => ~Up
  /\ \A n \in answered :
       n \in due \/ (n = pings /\ mpc \in {"measure", "isFirst"} \cup NotDue)

\* The loss rate, but for the statements that are about to write it.
LossInv ==
  /\ rpc \notin {"downLoss", "downRtt", "storeSent", "loss"}
     /\ mpc \in {"idle", "match"} =>
       ping_lost_rate = IF Up THEN <<ping_received, ping_sent>> ELSE Full
  /\ rpc = "downRtt" => ping_lost_rate = Full

\* The faults counted, and the pings that are not answered, at each statement.
Before == {"idle", "check", "three"}
Counting == {"loadLost", "storeLost"}
After == {"build", "sequence", "time", "loadSent", "storeSent", "loss",
  "clear",
          "send"}
FaultInv ==
  /\ answered = {} => ~Up /\ ~is_received_last_ping
  /\ rpc \in Before /\ mpc \in {"idle", "match"} /\ answered # {} =>
       /\ is_received_last_ping <=> Unanswered = 0
       /\ Unanswered = 0 => ping_lost_numbers = 0
       /\ Up => Unanswered = 0 \/ Unanswered = ping_lost_numbers + 1
       /\ Up <=> Unanswered <= 3
  /\ rpc \in {"three", "downLoss", "downRtt", "send"} \cup Counting =>
       ~is_received_last_ping
  /\ rpc \in {"downLoss", "downRtt"} /\ answered # {} => Unanswered >= 3
  /\ rpc \in Counting /\ answered # {} =>
       /\ Unanswered >= 1
       /\ Up => Unanswered = ping_lost_numbers + 1 /\ Unanswered <= 2
       /\ ~Up => Unanswered >= 3
  /\ rpc \in After /\ answered # {} =>
       /\ Up => Unanswered = ping_lost_numbers /\ Unanswered <= 2
       /\ ~Up => Unanswered >= 3
  /\ mpc \notin {"idle", "match"} => Unanswered = 0
  /\ mpc \in {"reset", "loss"} => is_received_last_ping
  /\ mpc = "loss" => ping_lost_numbers = 0

\* The average is between the bounds whenever the server is up.
AverageInv == Up => lo <= rtt_time /\ rtt_time <= hi

(* The inductive invariant, next to IInv of ServerProbeProofs.                *)
SInv == OneThread /\ LastInv /\ DueInv /\ LossInv /\ FaultInv /\ AverageInv

(* A delay is stored as it is and never reads as INF.                         *)
LEMMA UpDelay ==
  ASSUME Serial, NEW d \in Delays \cup {0}
  PROVE d \in Nat /\ d < INF /\ d % Word = d
BY ProbeAssumption DEF Serial, INF

(* No statement starts a thread while the other one is at work.               *)
LEMMA OneThreadStep ==
  ASSUME Serial, IInv, SInv, [Next]_vars
  PROVE OneThread'
<1> USE ProbeAssumption
<1>0. TypeOK /\ OneThread /\ ~Overlap BY DEF IInv, SInv, Serial
<1>1. CASE PingCommand
  BY <1>0, <1>1
  DEF OneThread, PingCommand, Run, counters, state, main, history
<1>2. CASE CheckReceived
  BY <1>0, <1>2
  DEF OneThread, CheckReceived, counters, state, main, history
<1>3. CASE CheckThree
  BY <1>0, <1>3
  DEF OneThread, CheckThree, counters, state, main, history
<1>4. CASE DownLoss
  BY <1>0, <1>4 DEF OneThread, DownLoss, Run, counters, main, history
<1>5. CASE DownRtt
  BY <1>0, <1>5 DEF OneThread, DownRtt, Run, counters, main, history
<1>6. CASE LoadLost
  BY <1>0, <1>6
  DEF OneThread, LoadLost, Run, counters, state, main, history
<1>7. CASE StoreLost
  BY <1>0, <1>7 DEF OneThread, StoreLost, Run, state, main, history
<1>8. CASE BuildPacket
  BY <1>0, <1>8
  DEF OneThread, BuildPacket, Run, counters, state, main, history
<1>9. CASE NextSequence
  BY <1>0, <1>9
  DEF OneThread, NextSequence, Run, counters, state, main, history
<1>10. CASE SetSendTime
  BY <1>0, <1>10
  DEF OneThread, SetSendTime, Run, counters, state, main, history
<1>11. CASE LoadSent
  BY <1>0, <1>11
  DEF OneThread, LoadSent, counters, state, main, history
<1>12. CASE StoreSent
  BY <1>0, <1>12 DEF OneThread, StoreSent, Run, state, main
<1>13. CASE LossSent
  BY <1>0, <1>13 DEF OneThread, LossSent, Run, counters, main, history
<1>14. CASE ClearReceived
  BY <1>0, <1>14
  DEF OneThread, ClearReceived, Run, counters, main, history
<1>15. CASE SendPing
  BY <1>0, <1>15 DEF OneThread, SendPing, Run, counters, state, main
<1>16. CASE \E n \in replies : LoseReply(n)
  BY <1>0, <1>16
  DEF OneThread, LoseReply, counters, state, main, run, history
<1>17. CASE \E n \in replies, d \in Delays : ReceiveReply(n, d)
  BY <1>0, <1>17
  DEF OneThread, ReceiveReply, Main, counters, state, run, history
<1>18. CASE Match
  BY <1>0, <1>18
  DEF OneThread, Match, LeaveReceive, counters, state, run
<1>19. CASE Measure
  <2>1. mreg' = mdelay % Word /\ mdelay \in Delays \cup {0}
    BY <1>0, <1>19 DEF TypeOK, OneThread, Measure
  <2>2. mreg' = mdelay BY <2>1, UpDelay
  <2> QED BY <1>0, <1>19, <2>2 DEF OneThread, Measure, Main, run, counters
<1>20. CASE IsFirst
  BY <1>0, <1>20 DEF OneThread, IsFirst, counters, state, run, history
<1>21. CASE First
  BY <1>0, <1>21 DEF OneThread, First, Main, counters, run
<1>22. CASE LoadFirst
  BY <1>0, <1>22
  DEF OneThread, LoadFirst, Main, counters, state, run, history
<1>23. CASE StoreFirst
  BY <1>0, <1>23 DEF OneThread, StoreFirst, Main, state, run
<1>24. CASE Average
  BY <1>0, <1>24 DEF OneThread, Average, Main, counters, run
<1>25. CASE CountReceived
  BY <1>0, <1>25
  DEF OneThread, CountReceived, Main, state, run, history
<1>26. CASE SetReceived
  BY <1>0, <1>26
  DEF OneThread, SetReceived, Main, counters, run, history
<1>27. CASE ResetLostNumbers
  BY <1>0, <1>27
  DEF OneThread, ResetLostNumbers, Main, state, run, history
<1>28. CASE LossReceived
  BY <1>0, <1>28
  DEF OneThread, LossReceived, LeaveReceive, counters, run, history
<1>29. CASE UNCHANGED vars
  BY <1>0, <1>29 DEF OneThread, vars, counters, state, main, run, history
<1> QED BY <1>1, <1>2, <1>3, <1>4, <1>5, <1>6, <1>7, <1>8, <1>9, <1>10, <1>11,
    <1>12, <1>13, <1>14, <1>15, <1>16, <1>17, <1>18, <1>19, <1>20, <1>21,
    <1>22, <1>23, <1>24, <1>25, <1>26, <1>27, <1>28, <1>29
  DEF Next, RunNext, MainNext

(* A reply less than Word pings old whose sequence number is the last one     *)
(* answers the last ping: the remainder of a division is unique.              *)
LEMMA MatchIsLast ==
  ASSUME IInv, SInv, mpc = "match", MatchesLast(mping)
  PROVE mping = pings
<1> USE ProbeAssumption
<1>1. /\ mping \in 1 .. pings /\ mping > pings - Word /\ pings \in Nat
      /\ ((mping - 1) % Word) + 1 = pings % Word
  BY DEF IInv, TypeOK, MainInv, SeqInv, SeqPcs, SInv, OneThread, LastInv,
         MatchesLast, Seq
<1> DEFINE a == (mping - 1) \div Word
           r == (mping - 1) % Word
           b == pings \div Word
           d == pings - mping
<1>2. mping - 1 \in Int /\ pings \in Int BY <1>1
<1>3. a \in Int /\ r \in 0 .. Word - 1 /\ mping - 1 = Word * a + r
  BY <1>2, Division
<1>4. b \in Int /\ pings = Word * b + (pings % Word) BY <1>2, Division
<1>5. d \in 0 .. Word - 1 /\ 0 \in 0 .. Word - 1 BY <1>1
<1>6. Word * a + d = Word * b + 0
  <2>1. pings = Word * b + (r + 1) BY <1>1, <1>4
  <2>2. Word * a \in Int /\ Word * b \in Int BY <1>3, <1>4
  <2> HIDE DEF a, b, r
  <2>3. mping = Word * a + r + 1 BY <1>1, <1>3, <2>2
  <2> QED BY <1>1, <1>3, <2>1, <2>2, <2>3
<1> HIDE DEF a, b, d
<1>7. a = b /\ d = 0 BY <1>3, <1>4, <1>5, <1>6, DivUnique
<1> QED BY <1>1, <1>7 DEF d

(* A reply under way stays less than Word pings old, and the one taken        *)
(* answers the last ping.                                                     *)
LEMMA LastStep ==
  ASSUME Serial, IInv, SInv, [Next]_vars
  PROVE LastInv'
<1> USE ProbeAssumption
<1>0. TypeOK /\ OneThread /\ LastInv BY DEF IInv, SInv
<1>1. CASE PingCommand
  BY <1>0, <1>1
  DEF OneThread, LastInv, PingCommand, Run, counters, state, main, history
<1>2. CASE CheckReceived
  BY <1>0, <1>2
  DEF OneThread, LastInv, CheckReceived, counters, state, main, history
<1>3. CASE CheckThree
  BY <1>0, <1>3
  DEF OneThread, LastInv, CheckThree, counters, state, main, history
<1>4. CASE DownLoss
  BY <1>0, <1>4
  DEF OneThread, LastInv, DownLoss, Run, counters, main, history
<1>5. CASE DownRtt
  BY <1>0, <1>5
  DEF OneThread, LastInv, DownRtt, Run, counters, main, history
<1>6. CASE LoadLost
  BY <1>0, <1>6
  DEF OneThread, LastInv, LoadLost, Run, counters, state, main, history
<1>7. CASE StoreLost
  BY <1>0, <1>7
  DEF OneThread, LastInv, StoreLost, Run, state, main, history
<1>8. CASE BuildPacket
  BY <1>0, <1>8
  DEF OneThread, LastInv, BuildPacket, Run, counters, state, main, history
<1>9. CASE NextSequence
  BY <1>0, <1>9
  DEF OneThread, LastInv, NextSequence, Run, counters, state, main, history
<1>10. CASE SetSendTime
  BY <1>0, <1>10
  DEF OneThread, LastInv, SetSendTime, Run, counters, state, main, history
<1>11. CASE LoadSent
  BY <1>0, <1>11
  DEF OneThread, LastInv, LoadSent, counters, state, main, history
<1>12. CASE StoreSent
  BY <1>0, <1>12 DEF OneThread, LastInv, StoreSent, Run, state, main
<1>13. CASE LossSent
  BY <1>0, <1>13
  DEF OneThread, LastInv, LossSent, Run, counters, main, history
<1>14. CASE ClearReceived
  BY <1>0, <1>14
  DEF OneThread, LastInv, ClearReceived, Run, counters, main, history
<1>15. CASE SendPing
  BY <1>0, <1>15
  DEF OneThread, LastInv, SendPing, Run, counters, state, main
<1>16. CASE \E n \in replies : LoseReply(n)
  BY <1>0, <1>16
  DEF OneThread, LastInv, LoseReply, counters, state, main, run, history
<1>17. CASE \E n \in replies, d \in Delays : ReceiveReply(n, d)
  BY <1>0, <1>17
  DEF OneThread, LastInv, ReceiveReply, Main, counters, state, run, history
<1>18. CASE Match
  <2>1. CASE MatchesLast(mping)
    <3>1. mping = pings BY <1>18, <2>1, MatchIsLast DEF Match
    <3> QED BY <1>0, <1>18, <2>1, <3>1 DEF LastInv, Match
  <2>2. CASE ~MatchesLast(mping)
    BY <1>0, <1>18, <2>2 DEF LastInv, Match, LeaveReceive
  <2> QED BY <2>1, <2>2
<1>19. CASE Measure
  BY <1>0, <1>19
  DEF OneThread, LastInv, Measure, Main, counters, state, run, history
<1>20. CASE IsFirst
  BY <1>0, <1>20
  DEF OneThread, LastInv, IsFirst, counters, state, run, history
<1>21. CASE First
  BY <1>0, <1>21 DEF OneThread, LastInv, First, Main, counters, run
<1>22. CASE LoadFirst
  BY <1>0, <1>22
  DEF OneThread, LastInv, LoadFirst, Main, counters, state, run, history
<1>23. CASE StoreFirst
  BY <1>0, <1>23 DEF OneThread, LastInv, StoreFirst, Main, state, run
<1>24. CASE Average
  BY <1>0, <1>24 DEF OneThread, LastInv, Average, Main, counters, run
<1>25. CASE CountReceived
  BY <1>0, <1>25
  DEF OneThread, LastInv, CountReceived, Main, state, run, history
<1>26. CASE SetReceived
  BY <1>0, <1>26
  DEF OneThread, LastInv, SetReceived, Main, counters, run, history
<1>27. CASE ResetLostNumbers
  BY <1>0, <1>27
  DEF OneThread, LastInv, ResetLostNumbers, Main, state, run, history
<1>28. CASE LossReceived
  BY <1>0, <1>28
  DEF OneThread, LastInv, LossReceived, LeaveReceive, counters, run, history
<1>29. CASE UNCHANGED vars
  BY <1>0, <1>29 DEF OneThread, LastInv, vars, counters, state, main, run,
      history
<1> QED BY <1>1, <1>2, <1>3, <1>4, <1>5, <1>6, <1>7, <1>8, <1>9, <1>10, <1>11,
    <1>12, <1>13, <1>14, <1>15, <1>16, <1>17, <1>18, <1>19, <1>20, <1>21,
    <1>22, <1>23, <1>24, <1>25, <1>26, <1>27, <1>28, <1>29
  DEF Next, RunNext, MainNext

(* Every statement leaves the pings counted as DueInv says.                   *)
LEMMA DueStep ==
  ASSUME Serial, IInv, SInv, [Next]_vars
  PROVE DueInv'
<1> USE ProbeAssumption
<1>0. TypeOK /\ OneThread /\ LastInv /\ DueInv /\ Word > 3
  BY DEF IInv, SInv, Serial
<1>a. pings \in Nat /\ answered \subseteq 1 .. pings
      /\ due \subseteq 1 .. pings + 1
  BY <1>0 DEF TypeOK
<1>b. IsFiniteSet(due) /\ Cardinality(due) \in Nat
  <2>1. IsFiniteSet(1 .. pings + 1) BY <1>a, FS_Interval
  <2> QED BY <1>a, <2>1, FS_Subset, FS_CardinalityType
<1>1. CASE PingCommand
  BY <1>0, <1>1, <1>a
  DEF OneThread, LastInv, DueInv, NotDue, Known, Up, PingCommand, Run,
      counters, state, main, history
<1>2. CASE CheckReceived
  BY <1>0, <1>2, <1>a
  DEF OneThread, LastInv, DueInv, NotDue, Known, Up, CheckReceived, counters,
      state, main, history
<1>3. CASE CheckThree
  BY <1>0, <1>3, <1>a
  DEF OneThread, LastInv, DueInv, NotDue, Known, Up, CheckThree, counters,
      state, main, history
<1>4. CASE DownLoss
  BY <1>0, <1>4, <1>a
  DEF OneThread, LastInv, DueInv, NotDue, Known, Up, DownLoss, Run, counters,
      main, history
<1>5. CASE DownRtt
  BY <1>0, <1>5, <1>a
  DEF OneThread, LastInv, DueInv, NotDue, Known, Up, DownRtt, Run, counters,
      main, history
<1>6. CASE LoadLost
  BY <1>0, <1>6, <1>a
  DEF OneThread, LastInv, DueInv, NotDue, Known, Up, LoadLost, Run, counters,
      state, main, history
<1>7. CASE StoreLost
  BY <1>0, <1>7, <1>a
  DEF OneThread, LastInv, DueInv, NotDue, Known, Up, StoreLost, Run, state,
      main, history
<1>8. CASE BuildPacket
  BY <1>0, <1>8, <1>a
  DEF OneThread, LastInv, DueInv, NotDue, Known, Up, BuildPacket, Run,
      counters, state, main, history
<1>9. CASE NextSequence
  BY <1>0, <1>9, <1>a
  DEF OneThread, LastInv, DueInv, NotDue, Known, Up, NextSequence, Run,
      counters, state, main, history
<1>10. CASE SetSendTime
  BY <1>0, <1>10, <1>a
  DEF OneThread, LastInv, DueInv, NotDue, Known, Up, SetSendTime, Run,
      counters, state, main, history
<1>11. CASE LoadSent
  BY <1>0, <1>11, <1>a
  DEF OneThread, LastInv, DueInv, NotDue, Known, Up, LoadSent, counters,
      state, main, history
<1>12. CASE StoreSent
  <2>1. /\ due' = due \cup {pings + 1} /\ pings + 1 \notin due
        /\ ping_sent' = Inc(ping_sent)
    BY <1>0, <1>a, <1>12 DEF OneThread, LastInv, DueInv, NotDue, StoreSent, Run
  <2>2. Cardinality(due') = Cardinality(due) + 1
    BY <1>b, <2>1, FS_AddElement
  <2>3. ping_sent' = Cardinality(due') % Word
    BY <1>0, <1>b, <2>1, <2>2, ModNext DEF DueInv, Inc
  <2>4. mpc' = "idle" /\ rpc' = "loss" /\ mpc = "idle" /\ rpc = "storeSent"
    BY <1>0, <1>12 DEF OneThread, StoreSent, Run, main, run
  <2>5. rtt_time' = rtt_time /\ pings' = pings /\ answered' = answered
    BY <1>12 DEF StoreSent, state
  <2> QED
    BY <1>0, <1>a, <2>1, <2>3, <2>4, <2>5
    DEF LastInv, DueInv, NotDue, Known, Up
<1>13. CASE LossSent
  BY <1>0, <1>13, <1>a
  DEF OneThread, LastInv, DueInv, NotDue, Known, Up, LossSent, Run, counters,
      main, history
<1>14. CASE ClearReceived
  BY <1>0, <1>14, <1>a
  DEF OneThread, LastInv, DueInv, NotDue, Known, Up, ClearReceived, Run,
      counters, main, history
<1>15. CASE SendPing
  BY <1>0, <1>15, <1>a
  DEF OneThread, LastInv, DueInv, NotDue, Known, Up, SendPing, Run, counters,
      state, main
<1>16. CASE \E n \in replies : LoseReply(n)
  BY <1>0, <1>16
  DEF OneThread, LastInv, DueInv, NotDue, Known, Up, LoseReply, counters,
      state, main, run, history
<1>17. CASE \E n \in replies, d \in Delays : ReceiveReply(n, d)
  BY <1>0, <1>17
  DEF OneThread, LastInv, DueInv, NotDue, Known, Up, ReceiveReply, Main,
      counters, state, run, history
<1>18. CASE Match
  <2>1. CASE MatchesLast(mping)
    <3>1. mping = pings BY <1>18, <2>1, MatchIsLast DEF Match
    <3> QED
      BY <1>0, <1>a, <1>18, <2>1, <3>1
      DEF OneThread, DueInv, NotDue, Known, Up, Match, counters, state, run
  <2>2. CASE ~MatchesLast(mping)
    BY <1>0, <1>a, <1>18, <2>2
    DEF OneThread, DueInv, NotDue, Known, Up, Match, LeaveReceive, counters,
        state,
        run
  <2> QED BY <2>1, <2>2
<1>19. CASE Measure
  BY <1>0, <1>19, <1>a
  DEF OneThread, LastInv, DueInv, NotDue, Known, Up, Measure, Main, counters,
      state, run, history
<1>20. CASE IsFirst
  BY <1>0, <1>20, <1>a
  DEF OneThread, LastInv, DueInv, NotDue, Known, Up, IsFirst, counters, state,
      run, history
<1>21. CASE First
  <2>1. mreg = mdelay /\ mdelay < INF /\ mdelay \in Nat
    BY <1>0, <1>21, UpDelay DEF TypeOK, OneThread, First, Main
  <2> QED
    BY <1>0, <1>a, <1>21, <2>1
    DEF OneThread, LastInv, DueInv, NotDue, Known, Up,
      First, Main, counters, run, INF
<1>22. CASE LoadFirst
  BY <1>0, <1>22, <1>a
  DEF OneThread, LastInv, DueInv, NotDue, Known, Up, LoadFirst, Main,
      counters, state, run, history
<1>23. CASE StoreFirst
  <2>1. /\ due' = due \cup {mping} /\ mping \notin due
        /\ ping_sent' = Inc(ping_sent)
    BY <1>0, <1>a, <1>23
    DEF OneThread, LastInv, DueInv, NotDue, StoreFirst, Main
  <2>2. Cardinality(due') = Cardinality(due) + 1
    BY <1>b, <2>1, FS_AddElement
  <2>3. ping_sent' = Cardinality(due') % Word
    BY <1>0, <1>b, <2>1, <2>2, ModNext DEF DueInv, Inc
  <2>4. mpc' = "received" /\ rpc' = "idle" /\ mpc = "storeSent" /\ rpc = "idle"
    BY <1>0, <1>23 DEF OneThread, StoreFirst, Main, main, run
  <2>5. rtt_time' = rtt_time /\ pings' = pings /\ answered' = answered
    BY <1>23 DEF StoreFirst, state
  <2> QED
    BY <1>0, <1>a, <2>1, <2>3, <2>4, <2>5
    DEF LastInv, DueInv, NotDue, Known, Up
<1>24. CASE Average
  <2>1. mreg = mdelay /\ mdelay < INF /\ mdelay \in Nat
    BY <1>0, <1>24, UpDelay DEF TypeOK, OneThread, Average, Main
  <2>2. rtt_time < INF /\ rtt_time \in Nat
    BY <1>0, <1>24 DEF TypeOK, DueInv, Known, Up, Average, Main, Words, INF
  <2>3. Mean(rtt_time, mreg) # INF BY <2>1, <2>2 DEF Mean, INF
  <2>4. rtt_time' # INF BY <1>24, <2>3 DEF Average
  <2> QED
    BY <1>0, <1>a, <1>24, <2>4
    DEF OneThread, LastInv, DueInv, NotDue, Known, Up,
      Average, Main, counters, run
<1>25. CASE CountReceived
  BY <1>0, <1>25, <1>a
  DEF OneThread, LastInv, DueInv, NotDue, Known, Up, CountReceived, Main,
      state, run, history
<1>26. CASE SetReceived
  BY <1>0, <1>26, <1>a
  DEF OneThread, LastInv, DueInv, NotDue, Known, Up, SetReceived, Main,
      counters, run, history
<1>27. CASE ResetLostNumbers
  BY <1>0, <1>27, <1>a
  DEF OneThread, LastInv, DueInv, NotDue, Known, Up, ResetLostNumbers, Main,
      state, run, history
<1>28. CASE LossReceived
  BY <1>0, <1>28, <1>a
  DEF OneThread, LastInv, DueInv, NotDue, Known, Up, LossReceived,
      LeaveReceive, counters, run, history
<1>29. CASE UNCHANGED vars
  BY <1>0, <1>29 DEF OneThread, LastInv, DueInv, NotDue, Known, Up, vars,
      counters, state, main, run, history
<1> QED BY <1>1, <1>2, <1>3, <1>4, <1>5, <1>6, <1>7, <1>8, <1>9, <1>10, <1>11,
    <1>12, <1>13, <1>14, <1>15, <1>16, <1>17, <1>18, <1>19, <1>20, <1>21,
    <1>22, <1>23, <1>24, <1>25, <1>26, <1>27, <1>28, <1>29
  DEF Next, RunNext, MainNext

(* Every statement leaves the loss rate that of the counters, or on its way.  *)
LEMMA LossStep ==
  ASSUME Serial, IInv, SInv, [Next]_vars
  PROVE LossInv'
<1> USE ProbeAssumption
<1>0. TypeOK /\ OneThread /\ DueInv /\ LossInv BY DEF IInv, SInv
<1>1. CASE PingCommand
  BY <1>0, <1>1
  DEF OneThread, DueInv, LossInv, Known, NotDue, Up, PingCommand, Run,
      counters, state, main, history
<1>2. CASE CheckReceived
  BY <1>0, <1>2
  DEF OneThread, DueInv, LossInv, Known, NotDue, Up, CheckReceived, counters,
      state, main, history
<1>3. CASE CheckThree
  BY <1>0, <1>3
  DEF OneThread, DueInv, LossInv, Known, NotDue, Up, CheckThree, counters,
      state, main, history
<1>4. CASE DownLoss
  BY <1>0, <1>4
  DEF OneThread, DueInv, LossInv, Known, NotDue, Up, DownLoss, Run, counters,
      main, history
<1>5. CASE DownRtt
  BY <1>0, <1>5
  DEF OneThread, DueInv, LossInv, Known, NotDue, Up, DownRtt, Run, counters,
      main, history
<1>6. CASE LoadLost
  BY <1>0, <1>6
  DEF OneThread, DueInv, LossInv, Known, NotDue, Up, LoadLost, Run, counters,
      state, main, history
<1>7. CASE StoreLost
  BY <1>0, <1>7
  DEF OneThread, DueInv, LossInv, Known, NotDue, Up, StoreLost, Run, state,
      main, history
<1>8. CASE BuildPacket
  BY <1>0, <1>8
  DEF OneThread, DueInv, LossInv, Known, NotDue, Up, BuildPacket, Run,
      counters, state, main, history
<1>9. CASE NextSequence
  BY <1>0, <1>9
  DEF OneThread, DueInv, LossInv, Known, NotDue, Up, NextSequence, Run,
      counters, state, main, history
<1>10. CASE SetSendTime
  BY <1>0, <1>10
  DEF OneThread, DueInv, LossInv, Known, NotDue, Up, SetSendTime, Run,
      counters, state, main, history
<1>11. CASE LoadSent
  BY <1>0, <1>11
  DEF OneThread, DueInv, LossInv, Known, NotDue, Up, LoadSent, counters,
      state, main, history
<1>12. CASE StoreSent
  BY <1>0, <1>12
  DEF OneThread, DueInv, LossInv, Known, NotDue, Up, StoreSent, Run, state,
      main
<1>13. CASE LossSent
  BY <1>0, <1>13
  DEF OneThread, DueInv, LossInv, Known, NotDue, Up, LossSent, Run, counters,
      main, history
<1>14. CASE ClearReceived
  BY <1>0, <1>14
  DEF OneThread, DueInv, LossInv, Known, NotDue, Up, ClearReceived, Run,
      counters, main, history
<1>15. CASE SendPing
  BY <1>0, <1>15
  DEF OneThread, DueInv, LossInv, Known, NotDue, Up, SendPing, Run, counters,
      state, main
<1>16. CASE \E n \in replies : LoseReply(n)
  BY <1>0, <1>16
  DEF OneThread, DueInv, LossInv, Known, NotDue, Up, LoseReply, counters,
      state, main, run, history
<1>17. CASE \E n \in replies, d \in Delays : ReceiveReply(n, d)
  BY <1>0, <1>17
  DEF OneThread, DueInv, LossInv, Known, NotDue, Up, ReceiveReply, Main,
      counters, state, run, history
<1>18. CASE Match
  BY <1>0, <1>18
  DEF OneThread, DueInv, LossInv, Known, NotDue, Up, Match, LeaveReceive,
      counters, state, run
<1>19. CASE Measure
  BY <1>0, <1>19
  DEF OneThread, DueInv, LossInv, Known, NotDue, Up, Measure, Main, counters,
      state, run, history
<1>20. CASE IsFirst
  BY <1>0, <1>20
  DEF OneThread, DueInv, LossInv, Known, NotDue, Up, IsFirst, counters, state,
      run, history
<1>21. CASE First
  BY <1>0, <1>21
  DEF OneThread, DueInv, LossInv, Known, NotDue, Up, First, Main, counters,
      run
<1>22. CASE LoadFirst
  BY <1>0, <1>22
  DEF OneThread, DueInv, LossInv, Known, NotDue, Up, LoadFirst, Main,
      counters, state, run, history
<1>23. CASE StoreFirst
  BY <1>0, <1>23
  DEF OneThread, DueInv, LossInv, Known, NotDue, Up, StoreFirst, Main, state,
      run
<1>24. CASE Average
  BY <1>0, <1>24
  DEF OneThread, DueInv, LossInv, Known, NotDue, Up, Average, Main, counters,
      run
<1>25. CASE CountReceived
  BY <1>0, <1>25
  DEF OneThread, DueInv, LossInv, Known, NotDue, Up, CountReceived, Main,
      state, run, history
<1>26. CASE SetReceived
  BY <1>0, <1>26
  DEF OneThread, DueInv, LossInv, Known, NotDue, Up, SetReceived, Main,
      counters, run, history
<1>27. CASE ResetLostNumbers
  BY <1>0, <1>27
  DEF OneThread, DueInv, LossInv, Known, NotDue, Up, ResetLostNumbers, Main,
      state, run, history
<1>28. CASE LossReceived
  BY <1>0, <1>28
  DEF OneThread, DueInv, LossInv, Known, NotDue, Up, LossReceived,
      LeaveReceive, counters, run, history
<1>29. CASE UNCHANGED vars
  BY <1>0, <1>29 DEF OneThread, DueInv, LossInv, Known, NotDue, Up, vars,
      counters, state, main, run, history
<1> QED BY <1>1, <1>2, <1>3, <1>4, <1>5, <1>6, <1>7, <1>8, <1>9, <1>10, <1>11,
    <1>12, <1>13, <1>14, <1>15, <1>16, <1>17, <1>18, <1>19, <1>20, <1>21,
    <1>22, <1>23, <1>24, <1>25, <1>26, <1>27, <1>28, <1>29
  DEF Next, RunNext, MainNext

(* The mean of two numbers between the bounds is between them.                *)
LEMMA AverageStep ==
  ASSUME Serial, IInv, SInv, [Next]_vars
  PROVE AverageInv'
<1> USE ProbeAssumption
<1>0. TypeOK /\ OneThread /\ DueInv /\ AverageInv BY DEF IInv, SInv
<1>1. CASE PingCommand
  BY <1>0, <1>1
  DEF AverageInv, Up, PingCommand, Run, counters, state, main, history
<1>2. CASE CheckReceived
  BY <1>0, <1>2
  DEF AverageInv, Up, CheckReceived, counters, state, main, history
<1>3. CASE CheckThree
  BY <1>0, <1>3
  DEF AverageInv, Up, CheckThree, counters, state, main, history
<1>4. CASE DownLoss
  BY <1>0, <1>4
  DEF AverageInv, Up, DownLoss, Run, counters, main, history
<1>5. CASE DownRtt
  BY <1>0, <1>5
  DEF AverageInv, Up, DownRtt, Run, counters, main, history
<1>6. CASE LoadLost
  BY <1>0, <1>6
  DEF AverageInv, Up, LoadLost, Run, counters, state, main, history
<1>7. CASE StoreLost
  BY <1>0, <1>7
  DEF AverageInv, Up, StoreLost, Run, state, main, history
<1>8. CASE BuildPacket
  BY <1>0, <1>8
  DEF AverageInv, Up, BuildPacket, Run, counters, state, main, history
<1>9. CASE NextSequence
  BY <1>0, <1>9
  DEF AverageInv, Up, NextSequence, Run, counters, state, main, history
<1>10. CASE SetSendTime
  BY <1>0, <1>10
  DEF AverageInv, Up, SetSendTime, Run, counters, state, main, history
<1>11. CASE LoadSent
  BY <1>0, <1>11
  DEF AverageInv, Up, LoadSent, counters, state, main, history
<1>12. CASE StoreSent
  BY <1>0, <1>12 DEF AverageInv, Up, StoreSent, Run, state, main
<1>13. CASE LossSent
  BY <1>0, <1>13
  DEF AverageInv, Up, LossSent, Run, counters, main, history
<1>14. CASE ClearReceived
  BY <1>0, <1>14
  DEF AverageInv, Up, ClearReceived, Run, counters, main, history
<1>15. CASE SendPing
  BY <1>0, <1>15
  DEF AverageInv, Up, SendPing, Run, counters, state, main
<1>16. CASE \E n \in replies : LoseReply(n)
  BY <1>0, <1>16
  DEF AverageInv, Up, LoseReply, counters, state, main, run, history
<1>17. CASE \E n \in replies, d \in Delays : ReceiveReply(n, d)
  BY <1>0, <1>17
  DEF AverageInv, Up, ReceiveReply, Main, counters, state, run, history
<1>18. CASE Match
  BY <1>0, <1>18
  DEF AverageInv, Up, Match, LeaveReceive, counters, state, run
<1>19. CASE Measure
  BY <1>0, <1>19
  DEF AverageInv, Up, Measure, Main, counters, state, run, history
<1>20. CASE IsFirst
  BY <1>0, <1>20
  DEF AverageInv, Up, IsFirst, counters, state, run, history
<1>21. CASE First
  <2>1. mreg = mdelay /\ mdelay \in Nat
    BY <1>0, <1>21, UpDelay DEF TypeOK, OneThread, First, Main
  <2> QED BY <1>21, <2>1 DEF AverageInv, First
<1>22. CASE LoadFirst
  BY <1>0, <1>22
  DEF AverageInv, Up, LoadFirst, Main, counters, state, run, history
<1>23. CASE StoreFirst
  BY <1>0, <1>23 DEF AverageInv, Up, StoreFirst, Main, state, run
<1>24. CASE Average
  <2>1. mreg = mdelay /\ mdelay \in Nat
    BY <1>0, <1>24, UpDelay DEF TypeOK, OneThread, Average, Main
  <2>2. lo <= rtt_time /\ rtt_time <= hi
    BY <1>0, <1>24 DEF DueInv, Known, AverageInv, Average, Main
  <2>3. lo \in Nat /\ hi \in Nat /\ rtt_time \in Nat
    BY <1>0 DEF TypeOK, Words
  <2> QED
    BY <1>24, <2>1, <2>2, <2>3 DEF AverageInv, Average, Mean
<1>25. CASE CountReceived
  BY <1>0, <1>25
  DEF AverageInv, Up, CountReceived, Main, state, run, history
<1>26. CASE SetReceived
  BY <1>0, <1>26
  DEF AverageInv, Up, SetReceived, Main, counters, run, history
<1>27. CASE ResetLostNumbers
  BY <1>0, <1>27
  DEF AverageInv, Up, ResetLostNumbers, Main, state, run, history
<1>28. CASE LossReceived
  BY <1>0, <1>28
  DEF AverageInv, Up, LossReceived, LeaveReceive, counters, run, history
<1>29. CASE UNCHANGED vars
  BY <1>0, <1>29 DEF AverageInv, Up, vars, counters, state, main, run, history
<1> QED BY <1>1, <1>2, <1>3, <1>4, <1>5, <1>6, <1>7, <1>8, <1>9, <1>10, <1>11,
    <1>12, <1>13, <1>14, <1>15, <1>16, <1>17, <1>18, <1>19, <1>20, <1>21,
    <1>22, <1>23, <1>24, <1>25, <1>26, <1>27, <1>28, <1>29
  DEF Next, RunNext, MainNext

(* The pings without an answer are a number.                                  *)
LEMMA UnansweredType ==
  ASSUME pings \in Nat
  PROVE Unanswered \in Nat
<1>1. IsFiniteSet(1 .. pings) BY FS_Interval
<1> QED BY <1>1, FS_Subset, FS_CardinalityType DEF Unanswered

(* None is without an answer once the last one is answered.                   *)
LEMMA LastAnswered ==
  ASSUME pings \in Nat, pings \in answered
  PROVE Unanswered = 0
<1>1. {n \in 1 .. pings : \A m \in answered : n > m} = {} OBVIOUS
<1> QED BY <1>1, FS_EmptySet DEF Unanswered

(* A ping sent is one more without an answer.                                 *)
LEMMA OneMoreUnanswered ==
  ASSUME pings \in Nat, answered \subseteq 1 .. pings, pings' = pings + 1,
         answered' = answered
  PROVE Unanswered' = Unanswered + 1
<1> DEFINE U == {n \in 1 .. pings : \A m \in answered : n > m}
<1>1. IsFiniteSet(U)
  <2>1. IsFiniteSet(1 .. pings) BY FS_Interval
  <2> QED BY <2>1, FS_Subset
<1>2. pings + 1 \notin U OBVIOUS
<1>3. {n \in 1 .. pings' : \A m \in answered' : n > m} = U \cup {pings + 1}
  OBVIOUS
<1>4. Cardinality(U \cup {pings + 1}) = Cardinality(U) + 1
  BY <1>1, <1>2, FS_AddElement
<1> QED BY <1>3, <1>4 DEF Unanswered

(* Every statement leaves the faults counted as FaultInv says.                *)
LEMMA FaultStep ==
  ASSUME Serial, IInv, SInv, [Next]_vars
  PROVE FaultInv'
<1> USE ProbeAssumption
<1>0. TypeOK /\ OneThread /\ LastInv /\ DueInv /\ FaultInv /\ Word > 3
  BY DEF IInv, SInv, Serial
<1>a. /\ pings \in Nat /\ answered \subseteq 1 .. pings
      /\ is_received_last_ping \in BOOLEAN /\ ping_lost_numbers \in Words
  BY <1>0 DEF TypeOK
<1>b. Unanswered \in Nat BY <1>a, UnansweredType
<1>c. ASSUME pings' = pings,
  answered' = answered PROVE Unanswered' = Unanswered
  BY <1>c DEF Unanswered
<1>1. CASE PingCommand
  BY <1>0, <1>1, <1>a, <1>b, <1>c
  DEF OneThread, FaultInv, Before, Counting, After, Up, PingCommand, Run,
      counters, state, main, history
<1>2. CASE CheckReceived
  BY <1>0, <1>2, <1>a, <1>b, <1>c
  DEF OneThread, FaultInv, Before, Counting, After, Up, CheckReceived,
      counters, state, main, history
<1>3. CASE CheckThree
  <2>1. Unanswered' = Unanswered BY <1>c, <1>3 DEF CheckThree, history
  <2> QED
    BY <1>0, <1>a, <1>b, <1>3, <2>1
    DEF OneThread, FaultInv, Before, Counting, After, Up, CheckThree, counters,
        state, main, history, Words
<1>4. CASE DownLoss
  BY <1>0, <1>4, <1>a, <1>b, <1>c
  DEF OneThread, FaultInv, Before, Counting, After, Up, DownLoss, Run,
      counters, main, history
<1>5. CASE DownRtt
  BY <1>0, <1>5, <1>a, <1>b, <1>c
  DEF OneThread, FaultInv, Before, Counting, After, Up, DownRtt, Run,
      counters, main, history
<1>6. CASE LoadLost
  BY <1>0, <1>6, <1>a, <1>b, <1>c
  DEF OneThread, FaultInv, Before, Counting, After, Up, LoadLost, Run,
      counters, state, main, history
<1>7. CASE StoreLost
  <2>1. Unanswered' = Unanswered BY <1>c, <1>7 DEF StoreLost, history
  <2>2. rreg = ping_lost_numbers BY <1>0, <1>7 DEF OneThread, StoreLost, Run
  <2>3. ping_lost_numbers <= 2 => ping_lost_numbers' = ping_lost_numbers + 1
    BY <1>0, <1>a, <1>7, <2>2 DEF StoreLost, Inc, Words
  <2> QED
    BY <1>0, <1>a, <1>b, <1>7, <2>1, <2>3
    DEF OneThread, FaultInv, Before, Counting, After, Up, StoreLost, Run,
        state,
        main, history, Words
<1>8. CASE BuildPacket
  BY <1>0, <1>8, <1>a, <1>b, <1>c
  DEF OneThread, FaultInv, Before, Counting, After, Up, BuildPacket, Run,
      counters, state, main, history
<1>9. CASE NextSequence
  BY <1>0, <1>9, <1>a, <1>b, <1>c
  DEF OneThread, FaultInv, Before, Counting, After, Up, NextSequence, Run,
      counters, state, main, history
<1>10. CASE SetSendTime
  BY <1>0, <1>10, <1>a, <1>b, <1>c
  DEF OneThread, FaultInv, Before, Counting, After, Up, SetSendTime, Run,
      counters, state, main, history
<1>11. CASE LoadSent
  BY <1>0, <1>11, <1>a, <1>b, <1>c
  DEF OneThread, FaultInv, Before, Counting, After, Up, LoadSent, counters,
      state, main, history
<1>12. CASE StoreSent
  BY <1>0, <1>12, <1>a, <1>b, <1>c
  DEF OneThread, FaultInv, Before, Counting, After, Up, StoreSent, Run, state,
      main
<1>13. CASE LossSent
  BY <1>0, <1>13, <1>a, <1>b, <1>c
  DEF OneThread, FaultInv, Before, Counting, After, Up, LossSent, Run,
      counters, main, history
<1>14. CASE ClearReceived
  BY <1>0, <1>14, <1>a, <1>b, <1>c
  DEF OneThread, FaultInv, Before, Counting, After, Up, ClearReceived, Run,
      counters, main, history
<1>15. CASE SendPing
  <2>1. Unanswered' = Unanswered + 1
    BY <1>a, <1>15, OneMoreUnanswered DEF SendPing
  <2> QED
    BY <1>0, <1>a, <1>b, <1>15, <2>1
    DEF OneThread, FaultInv, Before, Counting, After, Up, SendPing, Run,
        counters,
        state, main
<1>16. CASE \E n \in replies : LoseReply(n)
  BY <1>0, <1>16, <1>a, <1>b, <1>c
  DEF OneThread, FaultInv, Before, Counting, After, Up, LoseReply, counters,
      state, main, run, history
<1>17. CASE \E n \in replies, d \in Delays : ReceiveReply(n, d)
  BY <1>0, <1>17, <1>a, <1>b, <1>c
  DEF OneThread, FaultInv, Before, Counting, After, Up, ReceiveReply, Main,
      counters, state, run, history
<1>18. CASE Match
  <2>1. CASE MatchesLast(mping)
    <3>1. mping = pings BY <1>18, <2>1, MatchIsLast DEF Match
    <3>2. /\ pings' = pings /\ pings \in answered' /\ mpc' = "measure"
          /\ rpc' = "idle"
      BY <1>0, <1>18, <2>1, <3>1 DEF OneThread, Match, run
    <3>3. Unanswered' = 0
      <4>1. pings' \in Nat /\ pings' \in answered' BY <1>a, <3>2
      <4>2. {n \in 1 .. pings' : \A m \in answered' : n > m} = {} BY <4>1
      <4> QED BY <4>2, FS_EmptySet DEF Unanswered
    <3> QED BY <3>2, <3>3 DEF FaultInv, Before, Counting, After
  <2>2. CASE ~MatchesLast(mping)
    <3>1. Unanswered' = Unanswered BY <1>c, <1>18, <2>2 DEF Match
    <3> QED
      BY <1>0, <1>a, <1>18, <2>2, <3>1
      DEF OneThread, FaultInv, Before, Counting, After, Up, Match,
          LeaveReceive,
          counters, state, run
  <2> QED BY <2>1, <2>2
<1>19. CASE Measure
  BY <1>0, <1>19, <1>a, <1>b, <1>c
  DEF OneThread, FaultInv, Before, Counting, After, Up, Measure, Main,
      counters, state, run, history
<1>20. CASE IsFirst
  BY <1>0, <1>20, <1>a, <1>b, <1>c
  DEF OneThread, FaultInv, Before, Counting, After, Up, IsFirst, counters,
      state, run, history
<1>21. CASE First
  <2>1. /\ rpc' = "idle" /\ mpc' = "loadSent" /\ pings \in answered
        /\ answered' = answered /\ pings' = pings
    BY <1>0, <1>21 DEF OneThread, LastInv, First, Main, run
  <2>2. Unanswered' = 0 BY <1>a, <1>c, <2>1, LastAnswered
  <2> QED BY <2>1, <2>2 DEF FaultInv, Before, Counting, After
<1>22. CASE LoadFirst
  BY <1>0, <1>22, <1>a, <1>b, <1>c
  DEF OneThread, FaultInv, Before, Counting, After, Up, LoadFirst, Main,
      counters, state, run, history
<1>23. CASE StoreFirst
  BY <1>0, <1>23, <1>a, <1>b, <1>c
  DEF OneThread, FaultInv, Before, Counting, After, Up, StoreFirst, Main,
      state, run
<1>24. CASE Average
  <2>1. /\ rpc' = "idle" /\ mpc' = "received" /\ pings \in answered
        /\ answered' = answered /\ pings' = pings
    BY <1>0, <1>24 DEF OneThread, LastInv, Average, Main, run
  <2>2. Unanswered' = 0 BY <1>a, <1>c, <2>1, LastAnswered
  <2> QED BY <2>1, <2>2 DEF FaultInv, Before, Counting, After
<1>25. CASE CountReceived
  BY <1>0, <1>25, <1>a, <1>b, <1>c
  DEF OneThread, FaultInv, Before, Counting, After, Up, CountReceived, Main,
      state, run, history
<1>26. CASE SetReceived
  <2>1. /\ rpc' = "idle" /\ mpc' = "reset" /\ Unanswered' = 0
        /\ pings \in answered /\ answered' = answered /\ is_received_last_ping'
    BY <1>0, <1>a, <1>c, <1>26, LastAnswered
    DEF OneThread, LastInv, SetReceived, Main, run, history
  <2> QED BY <2>1 DEF FaultInv, Before, Counting, After
<1>27. CASE ResetLostNumbers
  BY <1>0, <1>27, <1>a, <1>b, <1>c
  DEF OneThread, FaultInv, Before, Counting, After, Up, ResetLostNumbers,
      Main, state, run, history
<1>28. CASE LossReceived
  <2>1. /\ rpc' = "idle" /\ mpc' = "idle" /\ Unanswered' = 0
        /\ pings \in answered /\ answered' = answered
        /\ ping_lost_numbers' = 0 /\ is_received_last_ping'
        /\ rtt_time' = rtt_time /\ Up
    BY <1>0, <1>a, <1>c, <1>28, LastAnswered
    DEF OneThread, LastInv, DueInv, Known, FaultInv, LossReceived,
        LeaveReceive,
        run, history, counters
  <2> QED BY <2>1 DEF FaultInv, Before, Counting, After, Up
<1>29. CASE UNCHANGED vars
  BY <1>0, <1>c, <1>29
  DEF OneThread, FaultInv, Before, Counting, After, Up, vars,
      counters, state, main, run, history
<1> QED BY <1>1, <1>2, <1>3, <1>4, <1>5, <1>6, <1>7, <1>8, <1>9, <1>10, <1>11,
    <1>12, <1>13, <1>14, <1>15, <1>16, <1>17, <1>18, <1>19, <1>20, <1>21,
    <1>22, <1>23, <1>24, <1>25, <1>26, <1>27, <1>28, <1>29
  DEF Next, RunNext, MainNext

(* The invariant holds before the first ping.                                 *)
LEMMA InitSInv == ASSUME Serial PROVE Init => SInv
<1> SUFFICES ASSUME Init PROVE SInv OBVIOUS
<1> USE ProbeAssumption DEF Init
<1>1. OneThread /\ LastInv BY DEF OneThread, LastInv
<1>2. ~Up BY DEF Up
<1>3. DueInv
  <2>1. Cardinality(due) % Word = 0 BY FS_EmptySet
  <2> QED BY <1>2, <2>1 DEF DueInv, NotDue, Known
<1>4. LossInv /\ AverageInv BY <1>2 DEF LossInv, AverageInv
<1>5. FaultInv BY <1>2 DEF FaultInv, Before, Counting, After
<1> QED BY <1>1, <1>3, <1>4, <1>5 DEF SInv

(* The strengthening holds in every state of the serial program.              *)
THEOREM SerialInductive == ASSUME Serial PROVE Spec => []SInv
<1>1. ASSUME IInv, SInv, [Next]_vars PROVE SInv'
  BY <1>1, OneThreadStep, LastStep, DueStep, LossStep, FaultStep, AverageStep
  DEF SInv
<1> QED BY Inductive, InitSInv, <1>1, PTL DEF Spec

(* add_server_ping takes a server down after three pings in a row without an  *)
(* answer and keeps it up before: ping_lost_numbers is never behind or ahead. *)
THEOREM FaultsMeanDown == ASSUME Serial PROVE Spec => []ThreeFaultsMeanDown
<1>1. SInv => ThreeFaultsMeanDown
  BY DEF SInv, FaultInv, Before, ThreeFaultsMeanDown, AtRest
<1> QED BY SerialInductive, <1>1, PTL

(* ping_sent counts every ping to a server that is up exactly once, whether   *)
(* add_server_ping or the first answer counts it.                             *)
THEOREM PingsCounted == ASSUME Serial PROVE Spec => []EachPingCountedOnce
<1>1. IInv /\ SInv => EachPingCountedOnce
  BY DEF IInv, CountInv, Uncounted, SInv, DueInv, NotDue, EachPingCountedOnce,
         AtRest
<1> QED BY Inductive, SerialInductive, <1>1, PTL

(* Between two commands the loss rate on show is the one of the counters.     *)
THEOREM LossMatches == ASSUME Serial PROVE Spec => []LossMatchesCounters
<1>1. SInv => LossMatchesCounters
  BY DEF SInv, LossInv, LossMatchesCounters, AtRest
<1> QED BY SerialInductive, <1>1, PTL

(* rtt_time lies between the shortest and the longest delay measured since    *)
(* the server came up: the running average never mixes in the sentinel INF.   *)
THEOREM AverageMeasured == ASSUME Serial PROVE Spec => []AverageWithinMeasured
<1>1. SInv => AverageWithinMeasured
  BY DEF SInv, AverageInv, AverageWithinMeasured
<1> QED BY SerialInductive, <1>1, PTL

===============================================================================
