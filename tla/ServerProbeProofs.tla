-------------------------- MODULE ServerProbeProofs --------------------------
(* Proofs about ServerProbe, for every word length, any number of pings and   *)
(* every set of delays, with or without a ping command during an answer.      *)
(*                                                                            *)
(* Four of its properties survive the race of the two threads: the types, the *)
(* count of received replies (only Main writes ping_received), the meaning of *)
(* the sequence number (only Run writes sequence_id), and that a prompt reply *)
(* to the last ping is refused only when the sequence number is back at zero. *)
(* The inductive invariant IInv adds to the types what each counter is at     *)
(* each statement of the thread that owns it, as a number of pings or replies *)
(* modulo the word length.                                                    *)
EXTENDS ServerProbe, DivisionTheorems, FiniteSetTheorems, TLAPS

(* Run holds a ping only while another one may be sent.                       *)
RunInv == rpc # "idle" => pings < MaxPings
(* The reply Main handles answers a ping that was sent.                       *)
MainInv == mpc # "idle" => mping \in 1 .. pings

(* A number brought back to the word length is a word.                        *)
LEMMA WordType ==
  ASSUME NEW n \in Int
  PROVE n % Word \in Words
BY ProbeAssumption, Division DEF Words

(* ping_sent++, ping_received++, sequence_id++ keep the width of the field.   *)
LEMMA IncType ==
  ASSUME NEW n \in Words
  PROVE Inc(n) \in Words
BY WordType, ProbeAssumption DEF Inc, Words

(* The average of two delays fits the field they are stored in.               *)
LEMMA MeanType ==
  ASSUME NEW x \in Words, NEW y \in Words
  PROVE Mean(x, y) \in Words
BY ProbeAssumption DEF Mean, Words

(* Every statement of either thread leaves each field in its type.            *)
LEMMA TypeStep ==
  ASSUME TypeOK, RunInv, MainInv, [Next]_vars
  PROVE TypeOK'
<1> USE ProbeAssumption
<1>0. TypeOK /\ RunInv /\ MainInv OBVIOUS
<1>1. CASE PingCommand
  BY <1>0, <1>1
  DEF TypeOK, RunInv, MainInv, Words, RunPcs, MainPcs, PingCommand, Run,
      counters, state, main, history
<1>2. CASE CheckReceived
  BY <1>0, <1>2
  DEF TypeOK, RunInv, MainInv, Words, RunPcs, MainPcs, CheckReceived,
      counters, state, main, history
<1>3. CASE CheckThree
  BY <1>0, <1>3
  DEF TypeOK, RunInv, MainInv, Words, RunPcs, MainPcs, CheckThree, counters,
      state, main, history
<1>4. CASE DownLoss
  BY <1>0, <1>4
  DEF TypeOK, RunInv, MainInv, Words, RunPcs, MainPcs, DownLoss, Run,
      counters, main, history
<1>5. CASE DownRtt
  BY <1>0, <1>5
  DEF TypeOK, RunInv, MainInv, Words, RunPcs, MainPcs, DownRtt, Run, counters,
      main, history, INF
<1>6. CASE LoadLost
  BY <1>0, <1>6
  DEF TypeOK, RunInv, MainInv, Words, RunPcs, MainPcs, LoadLost, Run,
      counters, state, main, history
<1>7. CASE StoreLost
  BY <1>0, <1>7, IncType
  DEF TypeOK, RunInv, MainInv, Words, RunPcs, MainPcs, StoreLost, Run, state,
      main, history
<1>8. CASE BuildPacket
  BY <1>0, <1>8
  DEF TypeOK, RunInv, MainInv, Words, RunPcs, MainPcs, BuildPacket, Run,
      counters, state, main, history
<1>9. CASE NextSequence
  BY <1>0, <1>9, IncType
  DEF TypeOK, RunInv, MainInv, Words, RunPcs, MainPcs, NextSequence, Run,
      counters, state, main, history
<1>10. CASE SetSendTime
  BY <1>0, <1>10
  DEF TypeOK, RunInv, MainInv, Words, RunPcs, MainPcs, SetSendTime, Run,
      counters, state, main, history
<1>11. CASE LoadSent
  BY <1>0, <1>11
  DEF TypeOK, RunInv, MainInv, Words, RunPcs, MainPcs, LoadSent, counters,
      state, main, history
<1>12. CASE StoreSent
  BY <1>0, <1>12, IncType
  DEF TypeOK, RunInv, MainInv, Words, RunPcs, MainPcs, StoreSent, Run, state,
      main
<1>13. CASE LossSent
  BY <1>0, <1>13
  DEF TypeOK, RunInv, MainInv, Words, RunPcs, MainPcs, LossSent, Run,
      counters, main, history
<1>14. CASE ClearReceived
  BY <1>0, <1>14
  DEF TypeOK, RunInv, MainInv, Words, RunPcs, MainPcs, ClearReceived, Run,
      counters, main, history
<1>15. CASE SendPing
  <2>1. pings' \in 0 .. MaxPings /\ pings' = pings + 1
    BY <1>0, <1>15 DEF TypeOK, RunInv, SendPing, Run
  <2>2. replies' \subseteq 1 .. pings' /\ mping' \in 0 .. pings'
    <3>1. replies' \subseteq replies \cup {pings'} BY <1>15 DEF SendPing
    <3>2. /\ replies \subseteq 1 .. pings /\ mping' = mping
          /\ mping \in 0 .. pings /\ pings \in Nat
      BY <1>0, <1>15 DEF TypeOK, SendPing, main
    <3> QED BY <2>1, <3>1, <3>2
  <2>3. answered' \subseteq 1 .. pings' /\ due' \subseteq 1 .. pings' + 1
    BY <1>0, <1>15, <2>1 DEF TypeOK, SendPing
  <2>4. rseq' \in Words /\ rpc' \in RunPcs
    BY <1>15 DEF SendPing, Run, Words, RunPcs
  <2> QED
    BY <1>0, <1>15, <2>1, <2>2, <2>3, <2>4
    DEF TypeOK, SendPing, counters, state, main
<1>16. CASE \E n \in replies : LoseReply(n)
  BY <1>0, <1>16
  DEF TypeOK, RunInv, MainInv, Words, RunPcs, MainPcs, LoseReply, counters,
      state, main, run, history
<1>17. CASE \E n \in replies, d \in Delays : ReceiveReply(n, d)
  <2>1. early' \in BOOLEAN BY <1>17 DEF ReceiveReply
  <2>2. mping' \in 0 .. pings' /\ replies' \subseteq 1 .. pings'
    BY <1>0, <1>17 DEF TypeOK, ReceiveReply, history
  <2>3. mpc' \in MainPcs /\ mdelay' \in Delays \cup {0}
    BY <1>17 DEF ReceiveReply, Main, MainPcs
  <2> QED
    BY <1>0, <1>17, <2>1, <2>2, <2>3
    DEF TypeOK, ReceiveReply, counters, state, run, history
<1>18. CASE Match
  <2>1. early' \in BOOLEAN
    BY <1>0, <1>18 DEF TypeOK, Match, LeaveReceive
  <2>2. answered' \subseteq 1 .. pings
    BY <1>0, <1>18 DEF TypeOK, MainInv, Match
  <2>3. /\ mpc' \in MainPcs /\ mping' \in 0 .. pings
        /\ mdelay' \in Delays \cup {0} /\ mreg' \in Words
    BY <1>0, <1>18 DEF TypeOK, Match, LeaveReceive, MainPcs, Words
  <2> QED
    BY <1>0, <1>18, <2>1, <2>2, <2>3 DEF TypeOK, Match, counters, state, run
<1>19. CASE Measure
  BY <1>0, <1>19, WordType
  DEF TypeOK, RunInv, MainInv, Words, RunPcs, MainPcs, Measure, Main,
      counters, state, run, history
<1>20. CASE IsFirst
  BY <1>0, <1>20
  DEF TypeOK, RunInv, MainInv, Words, RunPcs, MainPcs, IsFirst, counters,
      state, run, history
<1>21. CASE First
  BY <1>0, <1>21
  DEF TypeOK, RunInv, MainInv, Words, RunPcs, MainPcs, First, Main, counters,
      run
<1>22. CASE LoadFirst
  BY <1>0, <1>22
  DEF TypeOK, RunInv, MainInv, Words, RunPcs, MainPcs, LoadFirst, Main,
      counters, state, run, history
<1>23. CASE StoreFirst
  BY <1>0, <1>23, IncType
  DEF TypeOK, RunInv, MainInv, Words, RunPcs, MainPcs, StoreFirst, Main,
      state, run
<1>24. CASE Average
  <2>1. rtt_time' \in Words
    BY <1>0, <1>24, MeanType DEF TypeOK, Average
  <2>2. lo' \in Delays \cup {0} /\ hi' \in Delays \cup {0}
    BY <1>0, <1>24 DEF TypeOK, Average
  <2>3. mpc' \in MainPcs BY <1>24 DEF Average, Main, MainPcs
  <2> QED
    BY <1>0, <1>24, <2>1, <2>2, <2>3 DEF TypeOK, Average, counters, run
<1>25. CASE CountReceived
  BY <1>0, <1>25, IncType
  DEF TypeOK, RunInv, MainInv, Words, RunPcs, MainPcs, CountReceived, Main,
      state, run, history
<1>26. CASE SetReceived
  BY <1>0, <1>26
  DEF TypeOK, RunInv, MainInv, Words, RunPcs, MainPcs, SetReceived, Main,
      counters, run, history
<1>27. CASE ResetLostNumbers
  BY <1>0, <1>27
  DEF TypeOK, RunInv, MainInv, Words, RunPcs, MainPcs, ResetLostNumbers, Main,
      state, run, history
<1>28. CASE LossReceived
  <2>1. early' \in BOOLEAN BY <1>28 DEF LossReceived, LeaveReceive
  <2>2. ping_lost_rate' \in Words \X Words
    BY <1>0, <1>28 DEF TypeOK, LossReceived
  <2>3. /\ mpc' \in MainPcs /\ mping' \in 0 .. pings
        /\ mdelay' \in Delays \cup {0} /\ mreg' \in Words
    BY <1>0, <1>28 DEF TypeOK, LossReceived, LeaveReceive, MainPcs, Words
  <2> QED
    BY <1>0, <1>28, <2>1, <2>2, <2>3
    DEF TypeOK, LossReceived, counters, run, history
<1>29. CASE UNCHANGED vars
  BY <1>0, <1>29 DEF TypeOK, RunInv, MainInv, Words, RunPcs, MainPcs, vars,
      counters, state, main, run, history
<1> QED BY <1>1, <1>2, <1>3, <1>4, <1>5, <1>6, <1>7, <1>8, <1>9, <1>10, <1>11,
    <1>12, <1>13, <1>14, <1>15, <1>16, <1>17, <1>18, <1>19, <1>20, <1>21,
    <1>22, <1>23, <1>24, <1>25, <1>26, <1>27, <1>28, <1>29
  DEF Next, RunNext, MainNext

(* The statements of Run after sequence_id++ and before the packet is sent.   *)
SeqPcs == {"time", "loadSent", "storeSent", "loss", "clear", "send"}
(* sequence_id counts the packets built, modulo the word length.              *)
SeqInv == sequence_id = (IF rpc \in SeqPcs THEN pings + 1 ELSE pings) % Word

(* A reply is in the network, in the hands of Main, or answered: never two of *)
(* them.                                                                      *)
OnceInv ==
  /\ replies \cap answered = {}
  /\ mpc # "idle" => mping \notin replies
  /\ mpc = "match" => mping \notin answered

(* The statements of Main between the match and ping_received++.              *)
Uncounted == {"measure", "isFirst", "first", "loadSent", "storeSent",
              "average", "received"}
(* ping_received lags one behind the answered pings between the match and     *)
(* its increment, and agrees with them everywhere else.                       *)
CountInv ==
  /\ mpc \in Uncounted =>
       /\ Cardinality(answered) > 0
       /\ ping_received = (Cardinality(answered) - 1) % Word
  /\ mpc \notin Uncounted => ping_received = Cardinality(answered) % Word

(* The inductive invariant.                                                   *)
IInv == TypeOK /\ RunInv /\ MainInv /\ SeqInv /\ OnceInv /\ CountInv

(* No statement hands Main an unsent ping or the same reply a second time.    *)
LEMMA ThreadStep ==
  ASSUME IInv, [Next]_vars
  PROVE RunInv' /\ MainInv' /\ OnceInv'
<1> USE ProbeAssumption
<1>0. TypeOK /\ RunInv /\ MainInv /\ OnceInv BY DEF IInv
<1>1. CASE PingCommand
  BY <1>0, <1>1
  DEF TypeOK, RunInv, MainInv, OnceInv, PingCommand, Run, counters, state,
      main, history
<1>2. CASE CheckReceived
  BY <1>0, <1>2
  DEF TypeOK, RunInv, MainInv, OnceInv, CheckReceived, counters, state, main,
      history
<1>3. CASE CheckThree
  BY <1>0, <1>3
  DEF TypeOK, RunInv, MainInv, OnceInv, CheckThree, counters, state, main,
      history
<1>4. CASE DownLoss
  BY <1>0, <1>4
  DEF TypeOK, RunInv, MainInv, OnceInv, DownLoss, Run, counters, main, history
<1>5. CASE DownRtt
  BY <1>0, <1>5
  DEF TypeOK, RunInv, MainInv, OnceInv, DownRtt, Run, counters, main, history
<1>6. CASE LoadLost
  BY <1>0, <1>6
  DEF TypeOK, RunInv, MainInv, OnceInv, LoadLost, Run, counters, state, main,
      history
<1>7. CASE StoreLost
  BY <1>0, <1>7
  DEF TypeOK, RunInv, MainInv, OnceInv, StoreLost, Run, state, main, history
<1>8. CASE BuildPacket
  BY <1>0, <1>8
  DEF TypeOK, RunInv, MainInv, OnceInv, BuildPacket, Run, counters, state,
      main, history
<1>9. CASE NextSequence
  BY <1>0, <1>9
  DEF TypeOK, RunInv, MainInv, OnceInv, NextSequence, Run, counters, state,
      main, history
<1>10. CASE SetSendTime
  BY <1>0, <1>10
  DEF TypeOK, RunInv, MainInv, OnceInv, SetSendTime, Run, counters, state,
      main, history
<1>11. CASE LoadSent
  BY <1>0, <1>11
  DEF TypeOK, RunInv, MainInv, OnceInv, LoadSent, counters, state, main,
      history
<1>12. CASE StoreSent
  BY <1>0, <1>12
  DEF TypeOK, RunInv, MainInv, OnceInv, StoreSent, Run, state, main
<1>13. CASE LossSent
  BY <1>0, <1>13
  DEF TypeOK, RunInv, MainInv, OnceInv, LossSent, Run, counters, main, history
<1>14. CASE ClearReceived
  BY <1>0, <1>14
  DEF TypeOK, RunInv, MainInv, OnceInv, ClearReceived, Run, counters, main,
      history
<1>15. CASE SendPing
  <2>1. pings' = pings + 1 /\ rpc' = "idle" /\ pings \in Nat
    BY <1>0, <1>15 DEF TypeOK, SendPing, Run
  <2>2. replies' \subseteq replies \cup {pings'} BY <1>15 DEF SendPing
  <2>3. mpc' = mpc /\ mping' = mping /\ answered' = answered
    BY <1>15 DEF SendPing, main
  <2> QED
    BY <1>0, <2>1, <2>2, <2>3 DEF TypeOK, RunInv, MainInv, OnceInv
<1>16. CASE \E n \in replies : LoseReply(n)
  BY <1>0, <1>16
  DEF TypeOK, RunInv, MainInv, OnceInv, LoseReply, counters, state, main, run,
      history
<1>17. CASE \E n \in replies, d \in Delays : ReceiveReply(n, d)
  BY <1>0, <1>17
  DEF TypeOK, RunInv, MainInv, OnceInv, ReceiveReply, Main, counters, state,
      run, history
<1>18. CASE Match
  BY <1>0, <1>18
  DEF TypeOK, RunInv, MainInv, OnceInv, Match, LeaveReceive, counters, state,
      run
<1>19. CASE Measure
  BY <1>0, <1>19
  DEF TypeOK, RunInv, MainInv, OnceInv, Measure, Main, counters, state, run,
      history
<1>20. CASE IsFirst
  BY <1>0, <1>20
  DEF TypeOK, RunInv, MainInv, OnceInv, IsFirst, counters, state, run, history
<1>21. CASE First
  BY <1>0, <1>21
  DEF TypeOK, RunInv, MainInv, OnceInv, First, Main, counters, run
<1>22. CASE LoadFirst
  BY <1>0, <1>22
  DEF TypeOK, RunInv, MainInv, OnceInv, LoadFirst, Main, counters, state, run,
      history
<1>23. CASE StoreFirst
  BY <1>0, <1>23
  DEF TypeOK, RunInv, MainInv, OnceInv, StoreFirst, Main, state, run
<1>24. CASE Average
  BY <1>0, <1>24
  DEF TypeOK, RunInv, MainInv, OnceInv, Average, Main, counters, run
<1>25. CASE CountReceived
  BY <1>0, <1>25
  DEF TypeOK, RunInv, MainInv, OnceInv, CountReceived, Main, state, run,
      history
<1>26. CASE SetReceived
  BY <1>0, <1>26
  DEF TypeOK, RunInv, MainInv, OnceInv, SetReceived, Main, counters, run,
      history
<1>27. CASE ResetLostNumbers
  BY <1>0, <1>27
  DEF TypeOK, RunInv, MainInv, OnceInv, ResetLostNumbers, Main, state, run,
      history
<1>28. CASE LossReceived
  BY <1>0, <1>28
  DEF TypeOK, RunInv, MainInv, OnceInv, LossReceived, LeaveReceive, counters,
      run, history
<1>29. CASE UNCHANGED vars
  BY <1>0, <1>29 DEF TypeOK, RunInv, MainInv, OnceInv, vars, counters, state,
      main, run, history
<1> QED BY <1>1, <1>2, <1>3, <1>4, <1>5, <1>6, <1>7, <1>8, <1>9, <1>10, <1>11,
    <1>12, <1>13, <1>14, <1>15, <1>16, <1>17, <1>18, <1>19, <1>20, <1>21,
    <1>22, <1>23, <1>24, <1>25, <1>26, <1>27, <1>28, <1>29
  DEF Next, RunNext, MainNext

(* Only NextSequence and SendPing move the two sides of SeqInv, both by one.  *)
LEMMA SeqStep ==
  ASSUME IInv, [Next]_vars
  PROVE SeqInv'
<1> USE ProbeAssumption
<1>0. TypeOK /\ SeqInv BY DEF IInv
<1>1. CASE PingCommand
  BY <1>0, <1>1
  DEF SeqInv, SeqPcs, PingCommand, Run, counters, state, main, history
<1>2. CASE CheckReceived
  BY <1>0, <1>2
  DEF SeqInv, SeqPcs, CheckReceived, counters, state, main, history
<1>3. CASE CheckThree
  BY <1>0, <1>3
  DEF SeqInv, SeqPcs, CheckThree, counters, state, main, history
<1>4. CASE DownLoss
  BY <1>0, <1>4
  DEF SeqInv, SeqPcs, DownLoss, Run, counters, main, history
<1>5. CASE DownRtt
  BY <1>0, <1>5
  DEF SeqInv, SeqPcs, DownRtt, Run, counters, main, history
<1>6. CASE LoadLost
  BY <1>0, <1>6
  DEF SeqInv, SeqPcs, LoadLost, Run, counters, state, main, history
<1>7. CASE StoreLost
  BY <1>0, <1>7
  DEF SeqInv, SeqPcs, StoreLost, Run, state, main, history
<1>8. CASE BuildPacket
  BY <1>0, <1>8
  DEF SeqInv, SeqPcs, BuildPacket, Run, counters, state, main, history
<1>9. CASE NextSequence
  <2>1. pings \in Nat /\ sequence_id = pings % Word
    BY <1>0, <1>9 DEF TypeOK, SeqInv, SeqPcs, NextSequence, Run
  <2>2. sequence_id' = (pings + 1) % Word
    BY <1>9, <2>1, ModNext DEF NextSequence, Inc
  <2> QED BY <1>9, <2>2 DEF SeqInv, SeqPcs, NextSequence, Run, history
<1>10. CASE SetSendTime
  BY <1>0, <1>10
  DEF SeqInv, SeqPcs, SetSendTime, Run, counters, state, main, history
<1>11. CASE LoadSent
  BY <1>0, <1>11
  DEF SeqInv, SeqPcs, LoadSent, counters, state, main, history
<1>12. CASE StoreSent
  BY <1>0, <1>12 DEF SeqInv, SeqPcs, StoreSent, Run, state, main
<1>13. CASE LossSent
  BY <1>0, <1>13
  DEF SeqInv, SeqPcs, LossSent, Run, counters, main, history
<1>14. CASE ClearReceived
  BY <1>0, <1>14
  DEF SeqInv, SeqPcs, ClearReceived, Run, counters, main, history
<1>15. CASE SendPing
  BY <1>0, <1>15
  DEF SeqInv, SeqPcs, SendPing, Run, counters, state, main
<1>16. CASE \E n \in replies : LoseReply(n)
  BY <1>0, <1>16
  DEF SeqInv, SeqPcs, LoseReply, counters, state, main, run, history
<1>17. CASE \E n \in replies, d \in Delays : ReceiveReply(n, d)
  BY <1>0, <1>17
  DEF SeqInv, SeqPcs, ReceiveReply, Main, counters, state, run, history
<1>18. CASE Match
  BY <1>0, <1>18
  DEF SeqInv, SeqPcs, Match, LeaveReceive, counters, state, run
<1>19. CASE Measure
  BY <1>0, <1>19
  DEF SeqInv, SeqPcs, Measure, Main, counters, state, run, history
<1>20. CASE IsFirst
  BY <1>0, <1>20
  DEF SeqInv, SeqPcs, IsFirst, counters, state, run, history
<1>21. CASE First
  BY <1>0, <1>21 DEF SeqInv, SeqPcs, First, Main, counters, run
<1>22. CASE LoadFirst
  BY <1>0, <1>22
  DEF SeqInv, SeqPcs, LoadFirst, Main, counters, state, run, history
<1>23. CASE StoreFirst
  BY <1>0, <1>23 DEF SeqInv, SeqPcs, StoreFirst, Main, state, run
<1>24. CASE Average
  BY <1>0, <1>24 DEF SeqInv, SeqPcs, Average, Main, counters, run
<1>25. CASE CountReceived
  BY <1>0, <1>25
  DEF SeqInv, SeqPcs, CountReceived, Main, state, run, history
<1>26. CASE SetReceived
  BY <1>0, <1>26
  DEF SeqInv, SeqPcs, SetReceived, Main, counters, run, history
<1>27. CASE ResetLostNumbers
  BY <1>0, <1>27
  DEF SeqInv, SeqPcs, ResetLostNumbers, Main, state, run, history
<1>28. CASE LossReceived
  BY <1>0, <1>28
  DEF SeqInv, SeqPcs, LossReceived, LeaveReceive, counters, run, history
<1>29. CASE UNCHANGED vars
  BY <1>0, <1>29 DEF SeqInv, SeqPcs, vars, counters, state, main, run, history
<1> QED BY <1>1, <1>2, <1>3, <1>4, <1>5, <1>6, <1>7, <1>8, <1>9, <1>10, <1>11,
    <1>12, <1>13, <1>14, <1>15, <1>16, <1>17, <1>18, <1>19, <1>20, <1>21,
    <1>22, <1>23, <1>24, <1>25, <1>26, <1>27, <1>28, <1>29
  DEF Next, RunNext, MainNext

(* Only Match and CountReceived move the two sides of CountInv; Match adds a  *)
(* ping that was not answered before, by OnceInv.                             *)
LEMMA CountStep ==
  ASSUME IInv, [Next]_vars
  PROVE CountInv'
<1> USE ProbeAssumption
<1>0. TypeOK /\ MainInv /\ OnceInv /\ CountInv BY DEF IInv
<1>a. IsFiniteSet(answered) /\ Cardinality(answered) \in Nat
  <2>1. IsFiniteSet(1 .. pings) BY <1>0, FS_Interval DEF TypeOK
  <2> QED BY <1>0, <2>1, FS_Subset, FS_CardinalityType DEF TypeOK
<1>1. CASE PingCommand
  BY <1>0, <1>1
  DEF CountInv, Uncounted, PingCommand, Run, counters, state, main, history
<1>2. CASE CheckReceived
  BY <1>0, <1>2
  DEF CountInv, Uncounted, CheckReceived, counters, state, main, history
<1>3. CASE CheckThree
  BY <1>0, <1>3
  DEF CountInv, Uncounted, CheckThree, counters, state, main, history
<1>4. CASE DownLoss
  BY <1>0, <1>4
  DEF CountInv, Uncounted, DownLoss, Run, counters, main, history
<1>5. CASE DownRtt
  BY <1>0, <1>5
  DEF CountInv, Uncounted, DownRtt, Run, counters, main, history
<1>6. CASE LoadLost
  BY <1>0, <1>6
  DEF CountInv, Uncounted, LoadLost, Run, counters, state, main, history
<1>7. CASE StoreLost
  BY <1>0, <1>7
  DEF CountInv, Uncounted, StoreLost, Run, state, main, history
<1>8. CASE BuildPacket
  BY <1>0, <1>8
  DEF CountInv, Uncounted, BuildPacket, Run, counters, state, main, history
<1>9. CASE NextSequence
  BY <1>0, <1>9
  DEF CountInv, Uncounted, NextSequence, Run, counters, state, main, history
<1>10. CASE SetSendTime
  BY <1>0, <1>10
  DEF CountInv, Uncounted, SetSendTime, Run, counters, state, main, history
<1>11. CASE LoadSent
  BY <1>0, <1>11
  DEF CountInv, Uncounted, LoadSent, counters, state, main, history
<1>12. CASE StoreSent
  BY <1>0, <1>12 DEF CountInv, Uncounted, StoreSent, Run, state, main
<1>13. CASE LossSent
  BY <1>0, <1>13
  DEF CountInv, Uncounted, LossSent, Run, counters, main, history
<1>14. CASE ClearReceived
  BY <1>0, <1>14
  DEF CountInv, Uncounted, ClearReceived, Run, counters, main, history
<1>15. CASE SendPing
  BY <1>0, <1>15
  DEF CountInv, Uncounted, SendPing, Run, counters, state, main
<1>16. CASE \E n \in replies : LoseReply(n)
  BY <1>0, <1>16
  DEF CountInv, Uncounted, LoseReply, counters, state, main, run, history
<1>17. CASE \E n \in replies, d \in Delays : ReceiveReply(n, d)
  BY <1>0, <1>17
  DEF CountInv, Uncounted, ReceiveReply, Main, counters, state, run, history
<1>18. CASE Match
  <2>1. CASE MatchesLast(mping)
    <3>1. answered' = answered \cup {mping} /\ mping \notin answered
      BY <1>0, <1>18, <2>1 DEF OnceInv, Match
    <3>2. Cardinality(answered') = Cardinality(answered) + 1
      BY <1>a, <3>1, FS_AddElement
    <3>3. mpc = "match" /\ mpc' = "measure" /\ ping_received' = ping_received
      BY <1>18, <2>1 DEF Match, counters
    <3> QED BY <1>0, <1>a, <3>2, <3>3 DEF CountInv, Uncounted
  <2>2. CASE ~MatchesLast(mping)
    BY <1>0, <1>18, <2>2 DEF CountInv, Uncounted, Match, LeaveReceive, counters
  <2> QED BY <2>1, <2>2
<1>19. CASE Measure
  BY <1>0, <1>19
  DEF CountInv, Uncounted, Measure, Main, counters, state, run, history
<1>20. CASE IsFirst
  BY <1>0, <1>20
  DEF CountInv, Uncounted, IsFirst, counters, state, run, history
<1>21. CASE First
  BY <1>0, <1>21 DEF CountInv, Uncounted, First, Main, counters, run
<1>22. CASE LoadFirst
  BY <1>0, <1>22
  DEF CountInv, Uncounted, LoadFirst, Main, counters, state, run, history
<1>23. CASE StoreFirst
  BY <1>0, <1>23 DEF CountInv, Uncounted, StoreFirst, Main, state, run
<1>24. CASE Average
  BY <1>0, <1>24 DEF CountInv, Uncounted, Average, Main, counters, run
<1>25. CASE CountReceived
  <2>1. /\ mpc = "received" /\ mpc' = "answered" /\ answered' = answered
        /\ ping_received' = Inc(ping_received)
    BY <1>25 DEF CountReceived, Main, history
  <2>2. /\ Cardinality(answered) - 1 \in Nat
        /\ ping_received = (Cardinality(answered) - 1) % Word
    BY <1>0, <1>a, <2>1 DEF CountInv, Uncounted
  <2>3. Inc(ping_received) = ((Cardinality(answered) - 1) + 1) % Word
    BY <2>2, ModNext DEF Inc
  <2>4. (Cardinality(answered) - 1) + 1 = Cardinality(answered) BY <1>a
  <2> QED BY <2>1, <2>3, <2>4 DEF CountInv, Uncounted
<1>26. CASE SetReceived
  BY <1>0, <1>26
  DEF CountInv, Uncounted, SetReceived, Main, counters, run, history
<1>27. CASE ResetLostNumbers
  BY <1>0, <1>27
  DEF CountInv, Uncounted, ResetLostNumbers, Main, state, run, history
<1>28. CASE LossReceived
  BY <1>0, <1>28
  DEF CountInv, Uncounted, LossReceived, LeaveReceive, counters, run, history
<1>29. CASE UNCHANGED vars
  BY <1>0, <1>29 DEF CountInv, Uncounted, vars, counters, state, main, run,
      history
<1> QED BY <1>1, <1>2, <1>3, <1>4, <1>5, <1>6, <1>7, <1>8, <1>9, <1>10, <1>11,
    <1>12, <1>13, <1>14, <1>15, <1>16, <1>17, <1>18, <1>19, <1>20, <1>21,
    <1>22, <1>23, <1>24, <1>25, <1>26, <1>27, <1>28, <1>29
  DEF Next, RunNext, MainNext

(* The row of a server as it is inserted satisfies the invariant.             *)
LEMMA InitIInv == Init => IInv
<1> SUFFICES ASSUME Init PROVE IInv OBVIOUS
<1> USE ProbeAssumption DEF Init
<1>1. 0 \in Words /\ INF \in Words /\ 0 % Word = 0 BY DEF Words, INF
<1>2. TypeOK
  <2>1. is_received_last_ping \in BOOLEAN /\ early \in BOOLEAN OBVIOUS
  <2>2. ping_lost_rate \in (Words \X Words) \cup {Full} OBVIOUS
  <2>3. rpc \in RunPcs /\ mpc \in MainPcs BY DEF RunPcs, MainPcs
  <2> QED BY <1>1, <2>1, <2>2, <2>3 DEF TypeOK
<1>3. RunInv /\ MainInv /\ OnceInv BY DEF RunInv, MainInv, OnceInv
<1>4. SeqInv BY <1>1 DEF SeqInv, SeqPcs
<1>5. CountInv BY <1>1, FS_EmptySet DEF CountInv, Uncounted
<1> QED BY <1>2, <1>3, <1>4, <1>5 DEF IInv

(* The inductive invariant holds in every reachable state.                    *)
THEOREM Inductive == Spec => []IInv
<1>1. ASSUME IInv, [Next]_vars PROVE IInv'
  <2>1. TypeOK' BY <1>1, TypeStep DEF IInv
  <2> QED BY <1>1, <2>1, ThreadStep, SeqStep, CountStep DEF IInv
<1> QED BY InitIInv, <1>1, PTL DEF Spec

(* Type correctness: no counter, delay or rate leaves its field, whatever the *)
(* two threads do to it.                                                      *)
THEOREM TypeCorrect == Spec => []TypeOK
<1>1. IInv => TypeOK BY DEF IInv
<1> QED BY Inductive, <1>1, PTL

(* receive_ping_packet counts an accepted reply once in ping_received, modulo *)
(* the word length, even while Run changes the other fields of the row.       *)
THEOREM ReceivedOnce == Spec => []ReceivedCountedOnce
<1>1. IInv => ReceivedCountedOnce
  BY DEF IInv, CountInv, Uncounted, ReceivedCountedOnce
<1> QED BY Inductive, <1>1, PTL

(* receive_ping_packet refuses a reply to the last ping exactly when the      *)
(* row's sequence_id has wrapped to zero: its own sequence_id + 1 is an int.  *)
THEOREM ReplyDropped == Spec => []ReplyDroppedOnlyAtWrap
<1>1. ASSUME IInv PROVE ReplyDroppedOnlyAtWrap
  <2> SUFFICES ASSUME mpc = "match", rpc = "idle", mping = pings
               PROVE  MatchesLast(mping) <=> sequence_id # 0
    BY DEF ReplyDroppedOnlyAtWrap
  <2> USE ProbeAssumption
  <2>1. pings - 1 \in Nat /\ sequence_id = ((pings - 1) + 1) % Word
    BY <1>1 DEF IInv, TypeOK, MainInv, SeqInv, SeqPcs
  <2> DEFINE r == (pings - 1) % Word
  <2>2. r \in 0 .. Word - 1
    <3>1. pings - 1 \in Int BY <2>1
    <3> QED BY <3>1, Division
  <2>3. sequence_id = (r + 1) % Word BY <2>1, ModNext
  <2>4. r + 1 < Word => (r + 1) % Word = r + 1 BY <2>2
  <2>5. r + 1 = Word => (r + 1) % Word = 0 BY <2>2, ModSelf
  <2>6. MatchesLast(mping) <=> r + 1 = sequence_id BY DEF MatchesLast, Seq
  <2> QED BY <2>2, <2>3, <2>4, <2>5, <2>6
<1> QED BY Inductive, <1>1, PTL
====
