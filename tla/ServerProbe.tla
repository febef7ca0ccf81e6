------------------------------ MODULE ServerProbe ------------------------------
(***************************************************************************)
(* The node's own measurement of one server (src/user/sm.cpp): the pings   *)
(* of the run thread, the replies the main thread is handed, and the       *)
(* fields of the server's row that both of them write with no lock.        *)
(*                                                                         *)
(*   run    "ping": check_connections_is_alive, send_icmp_packet           *)
(*   main   receive_ping_packet                                            *)
(*                                                                         *)
(* A step is one statement on shared fields, and ++ on a field that both   *)
(* threads write is a load and a store.  Pings are numbered 1, 2, ... here *)
(* and ping n carries the sequence number (n - 1) % Word.  The network may *)
(* lose, delay and reorder replies.  What the row's learning table makes   *)
(* of the measurement is the subject of RouteTable.                        *)
(***************************************************************************)
EXTENDS Integers, FiniteSets

CONSTANTS
  Word,      \* 2^16: the fields are uint16_t
  Delays,    \* the round trip times of replies, in milliseconds
  MaxPings,  \* bound: the user types "ping" this often
  Overlap    \* may a command run while a reply is being processed?

ASSUME ProbeAssumption ==
  /\ Word \in Nat \ {0} /\ MaxPings \in Nat
  /\ Delays \subseteq Nat /\ Overlap \in BOOLEAN

INF == Word - 1   \* numeric_limits<uint16_t>::max(): not reachable

VARIABLES
  sequence_id, ping_sent, ping_received, ping_lost_numbers, rtt_time,
  is_received_last_ping,
  ping_lost_rate,   \* <<received, sent>>, standing for 1 - received / sent
  rpc, rreg, rseq,  \* run: statement, register, sequence number in the packet
  mpc, mreg,        \* main: statement, register or ping_time
  mping, mdelay,    \* main: the ping that is answered, its round trip time
  early,            \* main took ping_received_time before ping_send_time
  replies,          \* the pings whose reply is under way
  pings,            \* history: how many were sent
  answered, due,    \* history: the pings accepted, those that ping_sent counts
  lo, hi            \* history: bounds of the delays since the server is up

counters == <<ping_sent, ping_received, ping_lost_numbers>>
state    == <<rtt_time, ping_lost_rate, is_received_last_ping>>
main     == <<mpc, mreg, mping, mdelay>>
run      == <<rpc, rreg, rseq>>
history  == <<pings, answered, due, lo, hi>>
vars     == <<sequence_id, counters, state, main, early, run, replies, history>>

RunPcs == {"idle", "check", "three", "downLoss", "downRtt", "loadLost",
           "storeLost", "build", "sequence", "time", "loadSent", "storeSent",
           "loss", "clear", "send"}
MainPcs == {"idle", "match", "measure", "isFirst", "first", "loadSent",
            "storeSent", "average", "received", "answered", "reset", "loss"}

Inc(n) == (n + 1) % Word
Seq(n) == (n - 1) % Word
Full == <<0, 1>>

\* initialize_server_information; is_received_last_ping is static storage.
Init ==
  /\ sequence_id = 0
  /\ ping_sent = 0 /\ ping_received = 0 /\ ping_lost_numbers = 0
  /\ rtt_time = INF /\ ping_lost_rate = Full /\ is_received_last_ping = FALSE
  /\ rpc = "idle" /\ rreg = 0 /\ rseq = 0
  /\ mpc = "idle" /\ mreg = 0 /\ mping = 0 /\ mdelay = 0 /\ early = FALSE
  /\ replies = {}
  /\ pings = 0 /\ answered = {} /\ due = {} /\ lo = 0 /\ hi = 0

-----------------------------------------------------------------------------
(* Run: check_connections_is_alive.                                        *)

Run(from, to) == rpc = from /\ rpc' = to

PingCommand ==
  /\ Run("idle", "check")
  /\ Overlap \/ mpc = "idle"
  /\ pings < MaxPings
  /\ UNCHANGED <<sequence_id, counters, state, main, early, rreg, rseq,
                 replies, history>>

CheckReceived ==
  /\ rpc = "check"
  /\ rpc' = IF is_received_last_ping THEN "build" ELSE "three"
  /\ UNCHANGED <<sequence_id, counters, state, main, early, rreg, rseq,
                 replies, history>>

\* Mutant: the third fault is the one after three are counted.
CheckFour ==
  /\ rpc = "three"
  /\ rpc' = IF ping_lost_numbers = 3 THEN "downLoss" ELSE "loadLost"
  /\ UNCHANGED <<sequence_id, counters, state, main, early, rreg, rseq,
                 replies, history>>

CheckThree ==
  /\ rpc = "three"
  /\ rpc' = IF ping_lost_numbers = 2 THEN "downLoss" ELSE "loadLost"
  /\ UNCHANGED <<sequence_id, counters, state, main, early, rreg, rseq,
                 replies, history>>

DownLoss ==
  /\ Run("downLoss", "downRtt")
  /\ ping_lost_rate' = Full
  /\ UNCHANGED <<sequence_id, counters, rtt_time, is_received_last_ping, main,
                 early, rreg, rseq, replies, history>>

DownRtt ==
  /\ Run("downRtt", "loadLost")
  /\ rtt_time' = INF
  /\ UNCHANGED <<sequence_id, counters, ping_lost_rate, is_received_last_ping,
                 main, early, rreg, rseq, replies, history>>

LoadLost ==
  /\ Run("loadLost", "storeLost")
  /\ rreg' = ping_lost_numbers
  /\ UNCHANGED <<sequence_id, counters, state, main, early, rseq, replies,
                 history>>

StoreLost ==
  /\ Run("storeLost", "build")
  /\ ping_lost_numbers' = Inc(rreg)
  /\ rreg' = 0
  /\ UNCHANGED <<sequence_id, ping_sent, ping_received, state, main, early,
                 rseq, replies, history>>

-----------------------------------------------------------------------------
(* Run: send_icmp_packet and update_server_information.                    *)

BuildPacket ==
  /\ Run("build", "sequence")
  /\ rseq' = sequence_id
  /\ UNCHANGED <<sequence_id, counters, state, main, early, rreg, replies,
                 history>>

NextSequence ==
  /\ Run("sequence", "time")
  /\ sequence_id' = Inc(sequence_id)
  /\ UNCHANGED <<counters, state, main, early, rreg, rseq, replies, history>>

SetSendTime ==
  /\ Run("time", "loadSent")
  /\ early' = (mpc # "idle")
  /\ UNCHANGED <<sequence_id, counters, state, main, rreg, rseq, replies,
                 history>>

\* Only pings to a reachable server count as sent.
LoadSent ==
  /\ rpc = "loadSent"
  /\ IF rtt_time # INF THEN rpc' = "storeSent" /\ rreg' = ping_sent
                       ELSE rpc' = "clear" /\ UNCHANGED rreg
  /\ UNCHANGED <<sequence_id, counters, state, main, early, rseq, replies,
                 history>>

StoreSent ==
  /\ Run("storeSent", "loss")
  /\ ping_sent' = Inc(rreg)
  /\ rreg' = 0
  /\ due' = due \cup {pings + 1}
  /\ UNCHANGED <<sequence_id, ping_received, ping_lost_numbers, state, main,
                 early, rseq, replies, pings, answered, lo, hi>>

\* Mutant: the loss rate waits for the answer.
LossLater ==
  /\ Run("loss", "clear")
  /\ UNCHANGED <<sequence_id, counters, state, main, early, rreg, rseq,
                 replies, history>>

LossSent ==
  /\ Run("loss", "clear")
  /\ ping_lost_rate' = <<ping_received, ping_sent>>
  /\ UNCHANGED <<sequence_id, counters, rtt_time, is_received_last_ping, main,
                 early, rreg, rseq, replies, history>>

ClearReceived ==
  /\ Run("clear", "send")
  /\ is_received_last_ping' = FALSE
  /\ UNCHANGED <<sequence_id, counters, rtt_time, ping_lost_rate, main, early,
                 rreg, rseq, replies, history>>

\* sendFrame.  Bound: a reply does not arrive Word pings later.
SendPing ==
  /\ Run("send", "idle")
  /\ pings' = pings + 1
  /\ replies' = {n \in replies \cup {pings'} : n > pings' - Word}
  /\ rseq' = 0
  /\ UNCHANGED <<sequence_id, counters, state, main, early, rreg, answered,
                 due, lo, hi>>

RunNext == PingCommand \/ CheckReceived \/ CheckThree \/ DownLoss \/ DownRtt
           \/ LoadLost \/ StoreLost \/ BuildPacket \/ NextSequence
           \/ SetSendTime \/ LoadSent \/ StoreSent \/ LossSent
           \/ ClearReceived \/ SendPing

-----------------------------------------------------------------------------
(* Main: receive_ping_packet.                                              *)

Main(from, to) == mpc = from /\ mpc' = to

LoseReply(n) ==
  /\ n \in replies
  /\ replies' = replies \ {n}
  /\ UNCHANGED <<sequence_id, counters, state, main, early, run, history>>

ReceiveReply(n, d) ==
  /\ Main("idle", "match")
  /\ Overlap \/ rpc = "idle"
  /\ n \in replies
  /\ replies' = replies \ {n}
  /\ mping' = n /\ mdelay' = d /\ early' = FALSE
  /\ UNCHANGED <<sequence_id, counters, state, mreg, run, history>>

LeaveReceive ==
  mpc' = "idle" /\ mreg' = 0 /\ mping' = 0 /\ mdelay' = 0 /\ early' = FALSE

\* Mutant: the row holds the last number and not the next.
MatchesHeld(n) == Seq(n) = sequence_id

\* sequence_id + 1 == server_infoes[i].sequence_id, an int and a uint16_t.
MatchesLast(n) == Seq(n) + 1 = sequence_id

Match ==
  /\ mpc = "match"
  /\ IF MatchesLast(mping)
     THEN /\ mpc' = "measure" /\ answered' = answered \cup {mping}
          /\ UNCHANGED <<mreg, mping, mdelay, early>>
     ELSE LeaveReceive /\ UNCHANGED answered
  /\ UNCHANGED <<sequence_id, counters, state, run, replies, pings, due, lo,
                 hi>>

\* Mutant: the difference keeps its sign.
MeasureSigned ==
  /\ Main("measure", "isFirst")
  /\ IF early THEN \E gap \in Delays : mreg' = -gap
              ELSE mreg' = mdelay
  /\ UNCHANGED <<sequence_id, counters, state, mping, mdelay, early, run,
                 replies, history>>

\* The difference of two times as a uint16_t.  A ping_send_time that was
\* overwritten meanwhile is later than ping_received_time.
Measure ==
  /\ Main("measure", "isFirst")
  /\ IF early THEN \E gap \in Delays : mreg' = (-gap) % Word
              ELSE mreg' = mdelay % Word
  /\ UNCHANGED <<sequence_id, counters, state, mping, mdelay, early, run,
                 replies, history>>

IsFirst ==
  /\ mpc = "isFirst"
  /\ mpc' = IF rtt_time = INF THEN "first" ELSE "average"
  /\ UNCHANGED <<sequence_id, counters, state, mreg, mping, mdelay, early, run,
                 replies, history>>

\* The first reply since the server is reachable: its ping was not counted.
First ==
  /\ Main("first", "loadSent")
  /\ rtt_time' = mreg
  /\ lo' = mdelay /\ hi' = mdelay
  /\ UNCHANGED <<sequence_id, counters, ping_lost_rate, is_received_last_ping,
                 mreg, mping, mdelay, early, run, replies, pings, answered,
                 due>>

LoadFirst ==
  /\ Main("loadSent", "storeSent")
  /\ mreg' = ping_sent
  /\ UNCHANGED <<sequence_id, counters, state, mping, mdelay, early, run,
                 replies, history>>

\* Mutants: the first ping counts as received here too, or stays uncounted.
StoreFirstBoth ==
  /\ Main("storeSent", "received")
  /\ ping_sent' = Inc(mreg) /\ ping_received' = Inc(ping_received)
  /\ due' = due \cup {mping}
  /\ UNCHANGED <<sequence_id, ping_lost_numbers, state, mreg, mping, mdelay,
                 early, run, replies, pings, answered, lo, hi>>
StoreNothing ==
  /\ Main("storeSent", "received")
  /\ due' = due \cup {mping}
  /\ UNCHANGED <<sequence_id, counters, state, mreg, mping, mdelay, early, run,
                 replies, pings, answered, lo, hi>>

StoreFirst ==
  /\ Main("storeSent", "received")
  /\ ping_sent' = Inc(mreg)
  /\ due' = due \cup {mping}
  /\ UNCHANGED <<sequence_id, ping_received, ping_lost_numbers, state, mreg,
                 mping, mdelay, early, run, replies, pings, answered, lo, hi>>

\* Mutant: the sum is not halved.
SumOf(x, y) == x + y

Mean(x, y) == (x + y) \div 2

Average ==
  /\ Main("average", "received")
  /\ rtt_time' = Mean(rtt_time, mreg)
  /\ lo' = (IF mdelay < lo THEN mdelay ELSE lo)
  /\ hi' = (IF mdelay > hi THEN mdelay ELSE hi)
  /\ UNCHANGED <<sequence_id, counters, ping_lost_rate, is_received_last_ping,
                 mreg, mping, mdelay, early, run, replies, pings, answered,
                 due>>

CountReceived ==
  /\ Main("received", "answered")
  /\ ping_received' = Inc(ping_received)
  /\ UNCHANGED <<sequence_id, ping_sent, ping_lost_numbers, state, mreg, mping,
                 mdelay, early, run, replies, history>>

SetReceived ==
  /\ Main("answered", "reset")
  /\ is_received_last_ping' = TRUE
  /\ UNCHANGED <<sequence_id, counters, rtt_time, ping_lost_rate, mreg, mping,
                 mdelay, early, run, replies, history>>

ResetLostNumbers ==
  /\ Main("reset", "loss")
  /\ ping_lost_numbers' = 0
  /\ UNCHANGED <<sequence_id, ping_sent, ping_received, state, mreg, mping,
                 mdelay, early, run, replies, history>>

LossReceived ==
  /\ mpc = "loss"
  /\ ping_lost_rate' = <<ping_received, ping_sent>>
  /\ LeaveReceive
  /\ UNCHANGED <<sequence_id, counters, rtt_time, is_received_last_ping, run,
                 replies, history>>

MainNext ==
  \/ \E n \in replies : LoseReply(n) \/ \E d \in Delays : ReceiveReply(n, d)
  \/ Match \/ Measure \/ IsFirst \/ First \/ LoadFirst \/ StoreFirst
  \/ Average \/ CountReceived \/ SetReceived \/ ResetLostNumbers \/ LossReceived

Next == RunNext \/ MainNext

Spec == Init /\ [][Next]_vars

-----------------------------------------------------------------------------
(* Properties.                                                             *)

Words == 0 .. Word - 1

\* Every field holds a value of its C++ type: every uint16_t stays in range.
TypeOK ==
  /\ {sequence_id, ping_sent, ping_received, ping_lost_numbers, rtt_time,
      rreg, rseq, mreg} \subseteq Words
  /\ is_received_last_ping \in BOOLEAN /\ early \in BOOLEAN
  /\ ping_lost_rate \in (Words \X Words) \cup {Full}
  /\ rpc \in RunPcs /\ mpc \in MainPcs
  /\ pings \in 0 .. MaxPings
  /\ replies \subseteq 1 .. pings /\ mping \in 0 .. pings
  /\ answered \subseteq 1 .. pings /\ due \subseteq 1 .. pings + 1
  /\ mdelay \in Delays \cup {0}
  /\ lo \in Delays \cup {0} /\ hi \in Delays \cup {0}

AtRest == rpc = "idle" /\ mpc = "idle"

Up == rtt_time # INF

\* How many pings were sent since the last one that was answered.
Unanswered == Cardinality({n \in 1 .. pings : \A m \in answered : n > m})

\* "when three consecutive ping is fault, it means the conncetion to the server
\* has been down" (sm.cpp:531), and nothing else means it.  The faults are
\* counted before the next ping is sent, which makes four pings with no answer.
ThreeFaultsMeanDown ==
  AtRest => (Up <=> answered # {} /\ Unanswered <= 3)

\* ping_sent and ping_received count every ping once, modulo their width: each
\* one answered, and those sent while the server was up.  A ping that brings the
\* server back is counted when its answer is, by the other thread; so no more
\* are received than sent, until ping_sent wraps.
EachPingCountedOnce ==
  AtRest => /\ ping_sent = Cardinality(due) % Word
            /\ ping_received = Cardinality(answered) % Word
            /\ answered \subseteq due

\* ping_received counts every accepted ping once even while commands and replies
\* overlap: only receive_ping_packet writes it, and a ping that the run thread
\* supersedes in the middle of the handler is not taken a second time.
ReceivedCountedOnce ==
  mpc = "idle" => ping_received = Cardinality(answered) % Word

\* At rest the loss rate is the one of the counters as they are, though each
\* of four statements computes it from counters that change at other times.
LossMatchesCounters ==
  AtRest => ping_lost_rate = IF Up THEN <<ping_received, ping_sent>> ELSE Full

\* The delay of a server is between the delays measured since it came up:
\* neither an earlier life of the connection nor the sentinel INF gets into
\* the running average of receive_ping_packet.
AverageWithinMeasured ==
  AtRest /\ Up => lo <= rtt_time /\ rtt_time <= hi

\* The reply to the last ping is taken, however old the connection and however
\* often the counters have wrapped, with one exception: sequence_id + 1 is an
\* int, so the ping after which the sequence number is 0 again is never
\* answered.
ReplyDroppedOnlyAtWrap ==
  mpc = "match" /\ rpc = "idle" /\ mping = pings =>
    (MatchesLast(mping) <=> sequence_id # 0)
=============================================================================
