------------------------ MODULE ClientFrameworkProofs ------------------------
(***************************************************************************)
(* The mutex of the client framework, for any number of threads that send, *)
(* any number of lost connections and every moment they are lost at.       *)
(*                                                                         *)
(* CommandsNeedSession is not inductive: a sender that has just taken the  *)
(* mutex may rely on the session only because Main holds the mutex through *)
(* every statement of a recovery (LockInv) and because the session is down *)
(* only in those statements (SessionInv).  The refinement of FrameChannel  *)
(* needs in addition what the last item of the connection is at each       *)
(* statement of the negotiation and of sendFrame (WireInv).                *)
(***************************************************************************)
EXTENDS ClientFramework, TLAPS

NegotiatePcs == {"connect", "request", "answer", "failed"}
MainHolds == mpc \in {"testInit", "unlockInit", "unlockRecover"}
             \/ (resuming /\ mpc \in NegotiatePcs)
Sending(t) == spc[t] \in {"command", "data", "unlock"}

\* Who holds the mutex, and which threads there are at all.
LockInv ==
  /\ MainHolds => mutex = Main
  /\ rpc \in {"set", "unlock"} => mutex = Run
  /\ \A t \in Threads : Sending(t) => mutex = t
  /\ \A t \in Helpers : spc[t] # "idle" => rpc = "run"
  /\ spc[Main] # "idle" => mpc \in {"process", "destroyed"}
  /\ mpc = "create" \/ (~resuming /\ mpc \in NegotiatePcs) => rpc = "none"

\* When there is a session.
SessionInv ==
  session <=> mpc \notin NegotiatePcs \cup {"leave", "destroyed"}

\* How far the initialization is.
InitInv ==
  /\ rpc \in {"unlock", "signal", "run"} <=> initialized
  /\ mpc \in {"unlockInit", "message", "payload", "process", "lockRecover",
              "unlockRecover", "leave"} => initialized
  /\ resuming => mpc = "destroyed" \/ initialized
  /\ WakeupNotLost

\* The last item on the wire.
WireInv ==
  /\ mpc = "connect" => wire = Nothing
  /\ mpc = "request" => wire \in Channel!MayFollow(stage)
  /\ mpc = "answer" => wire = Asked(stage)
  /\ \A t \in Threads :
       /\ spc[t] = "data" /\ mpc # "destroyed" => wire = Header(t)
       /\ wire = Header(t) /\ conn \notin {"dead", "closed"} => spc[t] = "data"

\* What is asked of the server about the map: a new one at most once, and if so
\* by the first negotiation, which is then past that request.
MapInv ==
  /\ newMaps <= 1
  /\ resuming => needNewMap = 0
  /\ newMaps = 1 /\ ~resuming =>
       /\ mpc # "connect"
       /\ mpc \in {"request", "answer"} => stage # "signIn"
       /\ mpc = "request" => stage # "map"

IInv == TypeOK /\ LockInv /\ SessionInv /\ InitInv /\ WireInv /\ MapInv

-----------------------------------------------------------------------------
(* The initial states.                                                     *)

LEMMA InitIInv == Init => IInv
<1> SUFFICES ASSUME Init PROVE IInv OBVIOUS
<1> USE ThreadAssumption DEF Init
<1>1. TypeOK
  <2>1. needNewMap \in {-1, 0, 1} /\ newMaps \in 0 .. 2
    BY DEF ParsedNewMap
  <2>2. wire \in Wires BY DEF Wires
  <2>3. conn \in Conns /\ mpc \in MainPcs /\ stage \in Requests /\ rpc \in RunPcs
    BY DEF Conns, MainPcs, Requests, RunPcs
  <2>4. spc \in [Threads -> SendPcs] BY DEF SendPcs
  <2> QED BY <2>1, <2>2, <2>3, <2>4 DEF TypeOK
<1>2. LockInv
  BY DEF LockInv, MainHolds, NegotiatePcs, Sending, Threads
<1>3. SessionInv /\ InitInv
  BY DEF SessionInv, InitInv, WakeupNotLost, NegotiatePcs
<1>4. WireInv
  BY DEF WireInv, Threads, Nothing, Header
<1>5. MapInv BY DEF MapInv
<1> QED BY <1>1, <1>2, <1>3, <1>4, <1>5 DEF IInv

-----------------------------------------------------------------------------
(* Every action preserves the invariant.                                   *)

\* What sendOrReceive leaves behind is a state of the socket,
LEMMA OutcomeType ==
  /\ \A c \in Conns : \A o \in SendOutcomes(c) : o[2] \in Conns
  /\ \A c \in Conns : \A o \in ReceiveOutcomes(c) : o[2] \in Conns
BY DEF Conns, SendOutcomes, ReceiveOutcomes

\* and what is sent is an item of the wire.
LEMMA ItemType ==
  /\ Nothing \in Wires
  /\ \A r \in Requests : Asked(r) \in Wires
  /\ \A t \in Threads : {Header(t), Data(t), Notice(t)} \subseteq Wires
BY DEF Wires, Nothing, Asked, Header, Data, Notice

\* The request after the one accepted.
LEMMA NextRequestType ==
  TypeOK /\ stage # "start" => NextRequest[stage] \in Requests
<1> SUFFICES ASSUME TypeOK, stage # "start"
             PROVE  NextRequest[stage] \in Requests
  OBVIOUS
<1>1. stage \in Requests BY DEF TypeOK
<1>2. CASE stage = "signIn" BY <1>2 DEF NextRequest, Requests
<1>3. CASE stage = "map" BY <1>3 DEF NextRequest, Requests
<1>4. CASE stage = "node" BY <1>4 DEF NextRequest, Requests
<1>5. CASE stage = "interfaces" BY <1>5 DEF NextRequest, Requests
<1>6. CASE stage = "custom" BY <1>6 DEF NextRequest, Requests
<1> QED BY <1>1, <1>2, <1>3, <1>4, <1>5, <1>6 DEF Requests

LEMMA TypeStep == IInv /\ [Next]_vars => TypeOK'
<1> SUFFICES ASSUME IInv, [Next]_vars PROVE TypeOK' OBVIOUS
<1> USE DEF asks
<1>0. TypeOK BY DEF IInv
<1>1. CASE Connect
  BY <1>0, <1>1 DEF TypeOK, Connect, MainAt, Conns, MainPcs, Requests
<1>2. CASE SendRequest
  <2>1. PICK o \in SendOutcomes(conn) :
          /\ conn' = o[2]
          /\ process' = IF o[1] = "killed" THEN "killed" ELSE process
          /\ wire' = IF o[1] = "sent" THEN Asked(stage) ELSE wire
          /\ IF o[1] = "sent"
             THEN mpc' = "answer"
             ELSE mpc' = "failed"
    BY <1>2 DEF SendRequest, SendItem
  <2>2. conn' \in Conns /\ wire' \in Wires
    BY <1>0, <2>1, OutcomeType, ItemType DEF TypeOK
  <2>3. process' \in {"running", "exited", "killed"} BY <1>0, <2>1 DEF TypeOK
  <2>4. mpc' \in MainPcs /\ spc' \in [Threads -> SendPcs]
    BY <1>0, <1>2, <2>1 DEF TypeOK, SendRequest, MainPcs, SendPcs
  <2> QED BY <1>0, <1>2, <2>2, <2>3, <2>4 DEF TypeOK, SendRequest
<1>3. CASE RejectRequest
  BY <1>0, <1>3 DEF TypeOK, RejectRequest, MainAt, MainPcs
<1>4. CASE AnswerAccepted
  <2>1. stage' \in Requests
    BY <1>0, <1>4, NextRequestType DEF TypeOK, AnswerAccepted
  <2> QED BY <1>0, <1>4, <2>1 DEF TypeOK, AnswerAccepted, MainPcs
<1>5. CASE AnswerRefused
  BY <1>0, <1>5, OutcomeType DEF TypeOK, AnswerRefused, MainPcs
<1>6. CASE NoNodeName BY <1>0, <1>6 DEF TypeOK, NoNodeName, MainAt, MainPcs
<1>7. CASE NegotiationFailed
  BY <1>0, <1>7 DEF TypeOK, NegotiationFailed, MainAt, MainPcs
<1>8. CASE CreateThread
  BY <1>0, <1>8 DEF TypeOK, CreateThread, MainAt, RunPcs, MainPcs
<1>9. CASE LockInit
  BY <1>0, <1>9 DEF TypeOK, LockInit, MainLocks, MainAt, MainPcs, Threads
<1>10. CASE TestInit BY <1>0, <1>10 DEF TypeOK, TestInit, MainAt, MainPcs
<1>11. CASE SpuriousWakeup
  BY <1>0, <1>11 DEF TypeOK, SpuriousWakeup, MainAt, MainPcs
<1>12. CASE Relock
  BY <1>0, <1>12 DEF TypeOK, Relock, MainLocks, MainAt, MainPcs, Threads
<1>13. CASE UnlockInit BY <1>0, <1>13 DEF TypeOK, UnlockInit, MainAt, MainPcs
<1>14. CASE ReceiveMessage
  BY <1>0, <1>14, OutcomeType DEF TypeOK, ReceiveMessage, MainPcs
<1>15. CASE ReceivePayload
  BY <1>0, <1>15, OutcomeType DEF TypeOK, ReceivePayload, MainPcs
<1>16. CASE FrameProcessed
  BY <1>0, <1>16 DEF TypeOK, FrameProcessed, MainAt, MainPcs
<1>17. CASE LockRecover
  BY <1>0, <1>17, ItemType DEF TypeOK, LockRecover, Conns, MainPcs, Threads
<1>18. CASE UnlockRecover
  BY <1>0, <1>18 DEF TypeOK, UnlockRecover, MainAt, MainPcs
<1>19. CASE Leave
  BY <1>0, <1>19, ItemType DEF TypeOK, Leave, Destroy, Conns, MainPcs
<1>20. CASE Interrupt
  BY <1>0, <1>20, ItemType DEF TypeOK, Interrupt, Destroy, Conns, MainPcs
<1>21. CASE InterruptAgain
  BY <1>0, <1>21 DEF TypeOK, InterruptAgain, MainAt, MainPcs
<1>22. CASE Exit BY <1>0, <1>22 DEF TypeOK, Exit, MainAt, MainPcs
<1>23. CASE UseDeletedMachine
  BY <1>0, <1>23 DEF TypeOK, UseDeletedMachine, MainAt, MainPcs
<1>24. CASE InitializeMachine
  BY <1>0, <1>24 DEF TypeOK, InitializeMachine, RunStep, Alive, RunPcs
<1>25. CASE RunLocks
  BY <1>0, <1>25, ThreadAssumption
  DEF TypeOK, RunLocks, RunStep, RunPcs, Threads
<1>26. CASE SetInitialized
  BY <1>0, <1>26 DEF TypeOK, SetInitialized, RunStep, Alive, RunPcs
<1>27. CASE RunUnlocks
  BY <1>0, <1>27 DEF TypeOK, RunUnlocks, RunStep, Alive, RunPcs
<1>28. CASE Signal
  BY <1>0, <1>28 DEF TypeOK, Signal, RunStep, Alive, RunPcs, MainPcs
<1>29. ASSUME NEW t \in Threads, CallSend(t) PROVE TypeOK'
  BY <1>0, <1>29 DEF TypeOK, CallSend, MaySend, SendAt, Alive, SendPcs
<1>30. ASSUME NEW t \in Threads, SendLocks(t) PROVE TypeOK'
  BY <1>0, <1>30 DEF TypeOK, SendLocks, SendAt, Alive, SendPcs
<1>31. ASSUME NEW t \in Threads, RejectFrame(t) PROVE TypeOK'
  BY <1>0, <1>31 DEF TypeOK, RejectFrame, SendAt, Alive, SendPcs
<1>32. ASSUME NEW t \in Threads, SendHeader(t) PROVE TypeOK'
  <2>1. PICK o \in SendOutcomes(conn) :
          /\ conn' = o[2]
          /\ process' = IF o[1] = "killed" THEN "killed" ELSE process
          /\ wire' = IF o[1] = "sent" THEN Header(t) ELSE wire
          /\ IF o[1] = "sent"
             THEN spc' = [spc EXCEPT ![t] = "data"]
             ELSE spc' = [spc EXCEPT ![t] = "unlock"]
    BY <1>32 DEF SendHeader, SendItem
  <2>2. conn' \in Conns /\ wire' \in Wires
    BY <1>0, <2>1, OutcomeType, ItemType DEF TypeOK
  <2>3. process' \in {"running", "exited", "killed"} BY <1>0, <2>1 DEF TypeOK
  <2>4. mpc' \in MainPcs /\ spc' \in [Threads -> SendPcs]
    BY <1>0, <1>32, <2>1 DEF TypeOK, SendHeader, MainPcs, SendPcs
  <2> QED BY <1>0, <1>32, <2>2, <2>3, <2>4 DEF TypeOK, SendHeader
<1>33. ASSUME NEW t \in Threads, SendData(t) PROVE TypeOK'
  <2>1. PICK o \in SendOutcomes(conn) :
          /\ conn' = o[2]
          /\ process' = IF o[1] = "killed" THEN "killed" ELSE process
          /\ wire' = IF o[1] = "sent" THEN Data(t) ELSE wire
          /\ IF o[1] = "sent"
             THEN spc' = [spc EXCEPT ![t] = "unlock"]
             ELSE spc' = [spc EXCEPT ![t] = "unlock"]
    BY <1>33 DEF SendData, SendItem
  <2>2. conn' \in Conns /\ wire' \in Wires
    BY <1>0, <2>1, OutcomeType, ItemType DEF TypeOK
  <2>3. process' \in {"running", "exited", "killed"} BY <1>0, <2>1 DEF TypeOK
  <2>4. mpc' \in MainPcs /\ spc' \in [Threads -> SendPcs]
    BY <1>0, <1>33, <2>1 DEF TypeOK, SendData, MainPcs, SendPcs
  <2> QED BY <1>0, <1>33, <2>2, <2>3, <2>4 DEF TypeOK, SendData
<1>34. ASSUME NEW t \in Threads, SendNotice(t) PROVE TypeOK'
  <2>1. PICK o \in SendOutcomes(conn) :
          /\ conn' = o[2]
          /\ process' = IF o[1] = "killed" THEN "killed" ELSE process
          /\ wire' = IF o[1] = "sent" THEN Notice(t) ELSE wire
          /\ IF o[1] = "sent"
             THEN spc' = [spc EXCEPT ![t] = "unlock"]
             ELSE spc' = [spc EXCEPT ![t] = "unlock"]
    BY <1>34 DEF SendNotice, SendItem
  <2>2. conn' \in Conns /\ wire' \in Wires
    BY <1>0, <2>1, OutcomeType, ItemType DEF TypeOK
  <2>3. process' \in {"running", "exited", "killed"} BY <1>0, <2>1 DEF TypeOK
  <2>4. mpc' \in MainPcs /\ spc' \in [Threads -> SendPcs]
    BY <1>0, <1>34, <2>1 DEF TypeOK, SendNotice, MainPcs, SendPcs
  <2> QED BY <1>0, <1>34, <2>2, <2>3, <2>4 DEF TypeOK, SendNotice
<1>35. ASSUME NEW t \in Threads, SendUnlocks(t) PROVE TypeOK'
  BY <1>0, <1>35 DEF TypeOK, SendUnlocks, SendAt, Alive, SendPcs
<1>36. CASE ServerCloses BY <1>0, <1>36 DEF TypeOK, ServerCloses, Conns
<1>37. CASE ServerResets BY <1>0, <1>37 DEF TypeOK, ServerResets, Conns
<1>38. CASE UNCHANGED vars
  BY <1>0, <1>38 DEF vars, TypeOK
<1> QED BY <1>1, <1>2, <1>3, <1>4, <1>5, <1>6, <1>7, <1>8, <1>9, <1>10, <1>11,
          <1>12, <1>13, <1>14, <1>15, <1>16, <1>17, <1>18, <1>19, <1>20, <1>21,
          <1>22, <1>23, <1>24, <1>25, <1>26, <1>27, <1>28, <1>29, <1>30, <1>31,
          <1>32, <1>33, <1>34, <1>35, <1>36, <1>37, <1>38
       DEF Next, MainNext, Negotiate, RunNext, SendNext

LEMMA LockStep == IInv /\ [Next]_vars => LockInv'
<1> SUFFICES ASSUME IInv, [Next]_vars PROVE LockInv' OBVIOUS
<1> USE ThreadAssumption DEF Threads, MainHolds, NegotiatePcs, Sending
<1>0. TypeOK /\ LockInv BY DEF IInv
<1>1. CASE Connect BY <1>0, <1>1 DEF LockInv, TypeOK, Connect, MainAt
<1>2. CASE SendRequest
  BY <1>0, <1>2 DEF LockInv, TypeOK, SendRequest, SendItem, SendOutcomes,
     MainAt
<1>3. CASE RejectRequest
  BY <1>0, <1>3 DEF LockInv, TypeOK, RejectRequest, MainAt
<1>4. CASE AnswerAccepted
  BY <1>0, <1>4 DEF LockInv, TypeOK, AnswerAccepted, NextRequest, MainAt
<1>5. CASE AnswerRefused
  BY <1>0, <1>5 DEF LockInv, TypeOK, AnswerRefused, ReceiveOutcomes, MainAt
<1>6. CASE NoNodeName BY <1>0, <1>6 DEF LockInv, TypeOK, NoNodeName, MainAt
<1>7. CASE NegotiationFailed
  BY <1>0, <1>7 DEF LockInv, TypeOK, NegotiationFailed, MainAt
<1>8. CASE CreateThread BY <1>0, <1>8 DEF LockInv, TypeOK, CreateThread, MainAt
<1>9. CASE LockInit
  BY <1>0, <1>9 DEF LockInv, TypeOK, LockInit, MainLocks, MainAt
<1>10. CASE TestInit BY <1>0, <1>10 DEF LockInv, TypeOK, TestInit, MainAt
<1>11. CASE SpuriousWakeup
  BY <1>0, <1>11 DEF LockInv, TypeOK, SpuriousWakeup, MainAt
<1>12. CASE Relock
  BY <1>0, <1>12 DEF LockInv, TypeOK, Relock, MainLocks, MainAt
<1>13. CASE UnlockInit BY <1>0, <1>13 DEF LockInv, TypeOK, UnlockInit, MainAt
<1>14. CASE ReceiveMessage
  BY <1>0, <1>14 DEF LockInv, TypeOK, ReceiveMessage, ReceiveOutcomes, MainAt
<1>15. CASE ReceivePayload
  BY <1>0, <1>15 DEF LockInv, TypeOK, ReceivePayload, ReceiveOutcomes, MainAt
<1>16. CASE FrameProcessed
  BY <1>0, <1>16 DEF LockInv, TypeOK, FrameProcessed, MainAt
<1>17. CASE LockRecover BY <1>0, <1>17 DEF LockInv, TypeOK, LockRecover, MainAt
<1>18. CASE UnlockRecover
  BY <1>0, <1>18 DEF LockInv, TypeOK, UnlockRecover, MainAt
<1>19. CASE Leave BY <1>0, <1>19 DEF LockInv, TypeOK, Leave, Destroy
<1>20. CASE Interrupt BY <1>0, <1>20 DEF LockInv, TypeOK, Interrupt, Destroy
<1>21. CASE InterruptAgain
  BY <1>0, <1>21 DEF LockInv, TypeOK, InterruptAgain, MainAt
<1>22. CASE Exit BY <1>0, <1>22 DEF LockInv, TypeOK, Exit, MainAt
<1>23. CASE UseDeletedMachine
  BY <1>0, <1>23 DEF LockInv, TypeOK, UseDeletedMachine, MainAt
<1>24. CASE InitializeMachine
  BY <1>0, <1>24 DEF LockInv, TypeOK, InitializeMachine, RunStep, Alive
<1>25. CASE RunLocks
  BY <1>0, <1>25 DEF LockInv, TypeOK, RunLocks, RunStep, Alive
<1>26. CASE SetInitialized
  BY <1>0, <1>26 DEF LockInv, TypeOK, SetInitialized, RunStep, Alive
<1>27. CASE RunUnlocks
  BY <1>0, <1>27 DEF LockInv, TypeOK, RunUnlocks, RunStep, Alive
<1>28. CASE Signal BY <1>0, <1>28 DEF LockInv, TypeOK, Signal, RunStep, Alive
<1>29. ASSUME NEW t \in Threads, CallSend(t) PROVE LockInv'
  BY <1>0, <1>29 DEF LockInv, TypeOK, CallSend, MaySend, SendAt, Alive
<1>30. ASSUME NEW t \in Threads, SendLocks(t) PROVE LockInv'
  BY <1>0, <1>30 DEF LockInv, TypeOK, SendLocks, SendAt, Alive
<1>31. ASSUME NEW t \in Threads, RejectFrame(t) PROVE LockInv'
  BY <1>0, <1>31 DEF LockInv, TypeOK, RejectFrame, SendAt, Alive
<1>32. ASSUME NEW t \in Threads, SendHeader(t) PROVE LockInv'
  BY <1>0, <1>32 DEF LockInv, TypeOK, SendHeader, SendItem, SendOutcomes,
     SendAt, Alive
<1>33. ASSUME NEW t \in Threads, SendData(t) PROVE LockInv'
  BY <1>0, <1>33 DEF LockInv, TypeOK, SendData, SendItem, SendOutcomes, SendAt,
     Alive
<1>34. ASSUME NEW t \in Threads, SendNotice(t) PROVE LockInv'
  BY <1>0, <1>34 DEF LockInv, TypeOK, SendNotice, SendItem, SendOutcomes,
     SendAt, Alive
<1>35. ASSUME NEW t \in Threads, SendUnlocks(t) PROVE LockInv'
  BY <1>0, <1>35 DEF LockInv, TypeOK, SendUnlocks, SendAt, Alive
<1>36. CASE ServerCloses BY <1>0, <1>36 DEF LockInv, TypeOK, ServerCloses
<1>37. CASE ServerResets BY <1>0, <1>37 DEF LockInv, TypeOK, ServerResets
<1>38. CASE UNCHANGED vars
  BY <1>0, <1>38 DEF vars, LockInv, TypeOK
<1> QED BY <1>1, <1>2, <1>3, <1>4, <1>5, <1>6, <1>7, <1>8, <1>9, <1>10, <1>11,
          <1>12, <1>13, <1>14, <1>15, <1>16, <1>17, <1>18, <1>19, <1>20, <1>21,
          <1>22, <1>23, <1>24, <1>25, <1>26, <1>27, <1>28, <1>29, <1>30, <1>31,
          <1>32, <1>33, <1>34, <1>35, <1>36, <1>37, <1>38
       DEF Next, MainNext, Negotiate, RunNext, SendNext

LEMMA SessionStep == IInv /\ [Next]_vars => SessionInv'
<1> SUFFICES ASSUME IInv, [Next]_vars PROVE SessionInv' OBVIOUS
<1> USE DEF NegotiatePcs
<1>0. TypeOK /\ LockInv /\ SessionInv BY DEF IInv
<1>1. CASE Connect BY <1>0, <1>1 DEF SessionInv, TypeOK, Connect, MainAt
<1>2. CASE SendRequest
  BY <1>0, <1>2 DEF SessionInv, TypeOK, SendRequest, SendItem, SendOutcomes,
     MainAt
<1>3. CASE RejectRequest
  BY <1>0, <1>3 DEF SessionInv, TypeOK, RejectRequest, MainAt
<1>4. CASE AnswerAccepted
  BY <1>0, <1>4 DEF SessionInv, TypeOK, AnswerAccepted, NextRequest, MainAt
<1>5. CASE AnswerRefused
  BY <1>0, <1>5 DEF SessionInv, TypeOK, AnswerRefused, ReceiveOutcomes, MainAt
<1>6. CASE NoNodeName BY <1>0, <1>6 DEF SessionInv, TypeOK, NoNodeName, MainAt
<1>7. CASE NegotiationFailed
  BY <1>0, <1>7 DEF SessionInv, TypeOK, NegotiationFailed, MainAt
<1>8. CASE CreateThread
  BY <1>0, <1>8 DEF SessionInv, TypeOK, CreateThread, MainAt
<1>9. CASE LockInit
  BY <1>0, <1>9 DEF SessionInv, TypeOK, LockInit, MainLocks, MainAt
<1>10. CASE TestInit BY <1>0, <1>10 DEF SessionInv, TypeOK, TestInit, MainAt
<1>11. CASE SpuriousWakeup
  BY <1>0, <1>11 DEF SessionInv, TypeOK, SpuriousWakeup, MainAt
<1>12. CASE Relock
  BY <1>0, <1>12 DEF SessionInv, TypeOK, Relock, MainLocks, MainAt
<1>13. CASE UnlockInit
  BY <1>0, <1>13 DEF SessionInv, TypeOK, UnlockInit, MainAt
<1>14. CASE ReceiveMessage
  BY <1>0, <1>14 DEF SessionInv, TypeOK, ReceiveMessage, ReceiveOutcomes,
     MainAt
<1>15. CASE ReceivePayload
  BY <1>0, <1>15 DEF SessionInv, TypeOK, ReceivePayload, ReceiveOutcomes,
     MainAt
<1>16. CASE FrameProcessed
  BY <1>0, <1>16 DEF SessionInv, TypeOK, FrameProcessed, MainAt
<1>17. CASE LockRecover
  BY <1>0, <1>17 DEF SessionInv, TypeOK, LockRecover, MainAt
<1>18. CASE UnlockRecover
  BY <1>0, <1>18 DEF SessionInv, TypeOK, UnlockRecover, MainAt
<1>19. CASE Leave BY <1>0, <1>19 DEF SessionInv, TypeOK, Leave, Destroy
<1>20. CASE Interrupt BY <1>0, <1>20 DEF SessionInv, TypeOK, Interrupt, Destroy
<1>21. CASE InterruptAgain
  BY <1>0, <1>21 DEF SessionInv, TypeOK, InterruptAgain, MainAt
<1>22. CASE Exit BY <1>0, <1>22 DEF SessionInv, TypeOK, Exit, MainAt
<1>23. CASE UseDeletedMachine
  BY <1>0, <1>23 DEF SessionInv, TypeOK, UseDeletedMachine, MainAt
<1>24. CASE InitializeMachine
  BY <1>0, <1>24 DEF SessionInv, TypeOK, InitializeMachine, RunStep, Alive
<1>25. CASE RunLocks
  BY <1>0, <1>25 DEF SessionInv, TypeOK, RunLocks, RunStep, Alive
<1>26. CASE SetInitialized
  BY <1>0, <1>26 DEF SessionInv, TypeOK, SetInitialized, RunStep, Alive
<1>27. CASE RunUnlocks
  BY <1>0, <1>27 DEF SessionInv, TypeOK, RunUnlocks, RunStep, Alive
<1>28. CASE Signal
  BY <1>0, <1>28 DEF SessionInv, TypeOK, Signal, RunStep, Alive
<1>29. ASSUME NEW t \in Threads, CallSend(t) PROVE SessionInv'
  BY <1>0, <1>29 DEF SessionInv, TypeOK, CallSend, MaySend, SendAt, Alive
<1>30. ASSUME NEW t \in Threads, SendLocks(t) PROVE SessionInv'
  BY <1>0, <1>30 DEF SessionInv, TypeOK, SendLocks, SendAt, Alive
<1>31. ASSUME NEW t \in Threads, RejectFrame(t) PROVE SessionInv'
  BY <1>0, <1>31 DEF SessionInv, TypeOK, RejectFrame, SendAt, Alive
<1>32. ASSUME NEW t \in Threads, SendHeader(t) PROVE SessionInv'
  BY <1>0, <1>32 DEF SessionInv, TypeOK, SendHeader, SendItem, SendOutcomes,
     SendAt, Alive
<1>33. ASSUME NEW t \in Threads, SendData(t) PROVE SessionInv'
  BY <1>0, <1>33 DEF SessionInv, TypeOK, SendData, SendItem, SendOutcomes,
     SendAt, Alive
<1>34. ASSUME NEW t \in Threads, SendNotice(t) PROVE SessionInv'
  BY <1>0, <1>34 DEF SessionInv, TypeOK, SendNotice, SendItem, SendOutcomes,
     SendAt, Alive
<1>35. ASSUME NEW t \in Threads, SendUnlocks(t) PROVE SessionInv'
  BY <1>0, <1>35 DEF SessionInv, TypeOK, SendUnlocks, SendAt, Alive
<1>36. CASE ServerCloses BY <1>0, <1>36 DEF SessionInv, TypeOK, ServerCloses
<1>37. CASE ServerResets BY <1>0, <1>37 DEF SessionInv, TypeOK, ServerResets
<1>38. CASE UNCHANGED vars
  BY <1>0, <1>38 DEF vars, SessionInv, TypeOK
<1> QED BY <1>1, <1>2, <1>3, <1>4, <1>5, <1>6, <1>7, <1>8, <1>9, <1>10, <1>11,
          <1>12, <1>13, <1>14, <1>15, <1>16, <1>17, <1>18, <1>19, <1>20, <1>21,
          <1>22, <1>23, <1>24, <1>25, <1>26, <1>27, <1>28, <1>29, <1>30, <1>31,
          <1>32, <1>33, <1>34, <1>35, <1>36, <1>37, <1>38
       DEF Next, MainNext, Negotiate, RunNext, SendNext

LEMMA InitStep == IInv /\ [Next]_vars => InitInv'
<1> SUFFICES ASSUME IInv, [Next]_vars PROVE InitInv' OBVIOUS
<1> USE DEF WakeupNotLost
<1>0. TypeOK /\ LockInv /\ InitInv BY DEF IInv
<1>1. CASE Connect
  BY <1>0, <1>1 DEF InitInv, LockInv, NegotiatePcs, Connect, MainAt
<1>2. CASE SendRequest
  BY <1>0, <1>2 DEF InitInv, LockInv, NegotiatePcs, SendRequest, SendItem,
     SendOutcomes, MainAt
<1>3. CASE RejectRequest
  BY <1>0, <1>3 DEF InitInv, LockInv, NegotiatePcs, RejectRequest, MainAt
<1>4. CASE AnswerAccepted
  BY <1>0, <1>4 DEF InitInv, LockInv, NegotiatePcs, AnswerAccepted,
     NextRequest, MainAt
<1>5. CASE AnswerRefused
  BY <1>0, <1>5 DEF InitInv, LockInv, NegotiatePcs, AnswerRefused,
     ReceiveOutcomes, MainAt
<1>6. CASE NoNodeName
  BY <1>0, <1>6 DEF InitInv, LockInv, NegotiatePcs, NoNodeName, MainAt
<1>7. CASE NegotiationFailed
  BY <1>0, <1>7 DEF InitInv, LockInv, NegotiatePcs, NegotiationFailed, MainAt
<1>8. CASE CreateThread
  BY <1>0, <1>8 DEF InitInv, LockInv, NegotiatePcs, CreateThread, MainAt
<1>9. CASE LockInit
  BY <1>0, <1>9 DEF InitInv, LockInv, NegotiatePcs, LockInit, MainLocks, MainAt
<1>10. CASE TestInit
  BY <1>0, <1>10 DEF InitInv, LockInv, NegotiatePcs, TestInit, MainAt
<1>11. CASE SpuriousWakeup
  BY <1>0, <1>11 DEF InitInv, LockInv, NegotiatePcs, SpuriousWakeup, MainAt
<1>12. CASE Relock
  BY <1>0, <1>12 DEF InitInv, LockInv, NegotiatePcs, Relock, MainLocks, MainAt
<1>13. CASE UnlockInit
  BY <1>0, <1>13 DEF InitInv, LockInv, NegotiatePcs, UnlockInit, MainAt
<1>14. CASE ReceiveMessage
  BY <1>0, <1>14 DEF InitInv, LockInv, NegotiatePcs, ReceiveMessage,
     ReceiveOutcomes, MainAt
<1>15. CASE ReceivePayload
  BY <1>0, <1>15 DEF InitInv, LockInv, NegotiatePcs, ReceivePayload,
     ReceiveOutcomes, MainAt
<1>16. CASE FrameProcessed
  BY <1>0, <1>16 DEF InitInv, LockInv, NegotiatePcs, FrameProcessed, MainAt
<1>17. CASE LockRecover
  BY <1>0, <1>17 DEF InitInv, LockInv, NegotiatePcs, LockRecover, MainAt
<1>18. CASE UnlockRecover
  BY <1>0, <1>18 DEF InitInv, LockInv, NegotiatePcs, UnlockRecover, MainAt
<1>19. CASE Leave
  BY <1>0, <1>19 DEF InitInv, LockInv, NegotiatePcs, Leave, Destroy
<1>20. CASE Interrupt
  BY <1>0, <1>20 DEF InitInv, LockInv, NegotiatePcs, Interrupt, Destroy
<1>21. CASE InterruptAgain
  BY <1>0, <1>21 DEF InitInv, LockInv, NegotiatePcs, InterruptAgain, MainAt
<1>22. CASE Exit
  BY <1>0, <1>22 DEF InitInv, LockInv, NegotiatePcs, Exit, MainAt
<1>23. CASE UseDeletedMachine
  BY <1>0, <1>23 DEF InitInv, LockInv, NegotiatePcs, UseDeletedMachine, MainAt
<1>24. CASE InitializeMachine
  BY <1>0, <1>24 DEF InitInv, LockInv, NegotiatePcs, InitializeMachine,
     RunStep, Alive
<1>25. CASE RunLocks
  BY <1>0, <1>25 DEF InitInv, LockInv, NegotiatePcs, RunLocks, RunStep, Alive
<1>26. CASE SetInitialized
  BY <1>0, <1>26 DEF InitInv, LockInv, NegotiatePcs, SetInitialized, RunStep,
     Alive
<1>27. CASE RunUnlocks
  BY <1>0, <1>27 DEF InitInv, LockInv, NegotiatePcs, RunUnlocks, RunStep, Alive
<1>28. CASE Signal
  BY <1>0, <1>28 DEF InitInv, LockInv, NegotiatePcs, Signal, RunStep, Alive
<1>29. ASSUME NEW t \in Threads, CallSend(t) PROVE InitInv'
  BY <1>0, <1>29 DEF InitInv, LockInv, NegotiatePcs, CallSend, MaySend, SendAt,
     Alive
<1>30. ASSUME NEW t \in Threads, SendLocks(t) PROVE InitInv'
  BY <1>0, <1>30 DEF InitInv, LockInv, NegotiatePcs, SendLocks, SendAt, Alive
<1>31. ASSUME NEW t \in Threads, RejectFrame(t) PROVE InitInv'
  BY <1>0, <1>31 DEF InitInv, LockInv, NegotiatePcs, RejectFrame, SendAt, Alive
<1>32. ASSUME NEW t \in Threads, SendHeader(t) PROVE InitInv'
  BY <1>0, <1>32 DEF InitInv, LockInv, NegotiatePcs, SendHeader, SendItem,
     SendOutcomes, SendAt, Alive
<1>33. ASSUME NEW t \in Threads, SendData(t) PROVE InitInv'
  BY <1>0, <1>33 DEF InitInv, LockInv, NegotiatePcs, SendData, SendItem,
     SendOutcomes, SendAt, Alive
<1>34. ASSUME NEW t \in Threads, SendNotice(t) PROVE InitInv'
  BY <1>0, <1>34 DEF InitInv, LockInv, NegotiatePcs, SendNotice, SendItem,
     SendOutcomes, SendAt, Alive
<1>35. ASSUME NEW t \in Threads, SendUnlocks(t) PROVE InitInv'
  BY <1>0, <1>35 DEF InitInv, LockInv, NegotiatePcs, SendUnlocks, SendAt, Alive
<1>36. CASE ServerCloses
  BY <1>0, <1>36 DEF InitInv, LockInv, NegotiatePcs, ServerCloses
<1>37. CASE ServerResets
  BY <1>0, <1>37 DEF InitInv, LockInv, NegotiatePcs, ServerResets
<1>38. CASE UNCHANGED vars
  BY <1>0, <1>38 DEF vars, InitInv, LockInv, NegotiatePcs
<1> QED BY <1>1, <1>2, <1>3, <1>4, <1>5, <1>6, <1>7, <1>8, <1>9, <1>10, <1>11,
          <1>12, <1>13, <1>14, <1>15, <1>16, <1>17, <1>18, <1>19, <1>20, <1>21,
          <1>22, <1>23, <1>24, <1>25, <1>26, <1>27, <1>28, <1>29, <1>30, <1>31,
          <1>32, <1>33, <1>34, <1>35, <1>36, <1>37, <1>38
       DEF Next, MainNext, Negotiate, RunNext, SendNext

\* Nobody is in sendFrame past its lock while Main negotiates.
LEMMA NegotiatesAlone ==
  ASSUME TypeOK, LockInv, mpc \in NegotiatePcs, NEW t \in Threads
  PROVE  ~Sending(t)
BY ThreadAssumption
   DEF TypeOK, LockInv, NegotiatePcs, MainHolds, Sending, Threads

\* The items that are compared on the wire are different ones.
LEMMA ItemsDiffer ==
  /\ \A t \in Threads, u \in Threads :
       /\ Header(t) = Header(u) => t = u
       /\ Header(t) # Data(u) /\ Header(t) # Notice(u)
  /\ \A t \in Threads : Header(t) # Nothing
  /\ \A t \in Threads, r \in Requests : Header(t) # Asked(r)
BY DEF Header, Data, Notice, Nothing, Asked

\* The request that is sent next may follow the one accepted.
LEMMA NextMayFollow ==
  ASSUME TypeOK, stage # "start"
  PROVE  Asked(stage) \in Channel!MayFollow(NextRequest[stage])
<1> USE DEF Channel!MayFollow, Channel!Asked, Asked
<1>1. stage \in Requests BY DEF TypeOK
<1>2. CASE stage = "signIn" BY <1>2 DEF NextRequest
<1>3. CASE stage = "map" BY <1>3 DEF NextRequest
<1>4. CASE stage = "node" BY <1>4 DEF NextRequest
<1>5. CASE stage = "interfaces" BY <1>5 DEF NextRequest
<1>6. CASE stage = "custom" BY <1>6 DEF NextRequest
<1> QED BY <1>1, <1>2, <1>3, <1>4, <1>5, <1>6 DEF Requests

\* What sendOrReceive does to the connection: nothing more goes out on it once
\* it has failed.
LEMMA SendOutcome ==
  ASSUME NEW o \in SendOutcomes(conn), conn \in Conns
  PROVE  /\ o[1] = "sent" => conn \in {"up", "eof"}
         /\ o[1] # "sent" => o[2] \in {"dead", "closed"}
BY DEF SendOutcomes, Conns
LEMMA ReceiveOutcome ==
  ASSUME NEW o \in ReceiveOutcomes(conn), conn \in Conns
  PROVE  o[2] = conn \/ o[2] \in {"dead", "closed"}
BY DEF ReceiveOutcomes, Conns

LEMMA WireStep == IInv /\ [Next]_vars => WireInv'
<1> SUFFICES ASSUME IInv, [Next]_vars PROVE WireInv' OBVIOUS
<1>0. TypeOK /\ LockInv /\ SessionInv /\ WireInv BY DEF IInv
<1>1. CASE Connect
  <2>1. wire' = Nothing /\ UNCHANGED spc
    BY <1>0, <1>1 DEF WireInv, Connect, MainAt
  <2>2. mpc' = "request" => wire' \in Channel!MayFollow(stage')
    BY <1>1, <2>1 DEF Connect, Channel!MayFollow, Channel!Nothing, Nothing
  <2>3. \A t \in Threads : spc[t] # "data"
    BY <1>0, <1>1, NegotiatesAlone DEF Connect, MainAt, NegotiatePcs, Sending
  <2> QED BY <1>1, <2>1, <2>2, <2>3, ItemsDiffer DEF WireInv, Connect
<1>2. CASE SendRequest
  <2>1. PICK o \in SendOutcomes(conn) :
          /\ conn' = o[2]
          /\ wire' = IF o[1] = "sent" THEN Asked(stage) ELSE wire
          /\ IF o[1] = "sent"
             THEN mpc' = "answer"
             ELSE mpc' = "failed"
    BY <1>2 DEF SendRequest, SendItem
  <2>2. (o[1] = "sent" => conn \in {"up", "eof"})
        /\ (o[1] # "sent" => conn' \in {"dead", "closed"})
    BY <1>0, <2>1, SendOutcome DEF TypeOK
  <2>3. \A t \in Threads : spc[t] # "data"
    BY <1>0, <1>2, NegotiatesAlone DEF SendRequest, MainAt, NegotiatePcs, Sending
  <2>4. \A t \in Threads : Header(t) # Asked(stage)
    BY <1>0, ItemsDiffer DEF TypeOK
  <2> QED BY <1>0, <1>2, <2>1, <2>2, <2>3, <2>4 DEF WireInv, SendRequest, MainAt
<1>3. CASE RejectRequest BY <1>0, <1>3 DEF WireInv, RejectRequest, MainAt
<1>4. CASE AnswerAccepted
  <2>1. mpc' = "request" => wire' \in Channel!MayFollow(stage')
    BY <1>0, <1>4, NextMayFollow DEF AnswerAccepted, MainAt, WireInv
  <2> QED BY <1>0, <1>4, <2>1 DEF AnswerAccepted, MainAt, WireInv
<1>5. CASE AnswerRefused
  <2>1. conn' = conn \/ conn' \in {"dead", "closed"}
    BY <1>0, <1>5, ReceiveOutcome DEF AnswerRefused, TypeOK
  <2> QED BY <1>0, <1>5, <2>1 DEF WireInv, AnswerRefused, MainAt
<1>6. CASE NoNodeName BY <1>0, <1>6 DEF WireInv, NoNodeName, MainAt
<1>7. CASE NegotiationFailed
  BY <1>0, <1>7 DEF WireInv, NegotiationFailed, MainAt
<1>8. CASE CreateThread BY <1>0, <1>8 DEF WireInv, CreateThread, MainAt
<1>9. CASE LockInit BY <1>0, <1>9 DEF WireInv, LockInit, MainLocks, MainAt
<1>10. CASE TestInit BY <1>0, <1>10 DEF WireInv, TestInit, MainAt
<1>11. CASE SpuriousWakeup BY <1>0, <1>11 DEF WireInv, SpuriousWakeup, MainAt
<1>12. CASE Relock BY <1>0, <1>12 DEF WireInv, Relock, MainLocks, MainAt
<1>13. CASE UnlockInit BY <1>0, <1>13 DEF WireInv, UnlockInit, MainAt
<1>14. CASE ReceiveMessage
  <2>1. conn' = conn \/ conn' \in {"dead", "closed"}
    BY <1>0, <1>14, ReceiveOutcome DEF ReceiveMessage, TypeOK
  <2> QED BY <1>0, <1>14, <2>1 DEF WireInv, ReceiveMessage, MainAt
<1>15. CASE ReceivePayload
  <2>1. conn' = conn \/ conn' \in {"dead", "closed"}
    BY <1>0, <1>15, ReceiveOutcome DEF ReceivePayload, TypeOK
  <2> QED BY <1>0, <1>15, <2>1 DEF WireInv, ReceivePayload, MainAt
<1>16. CASE FrameProcessed BY <1>0, <1>16 DEF WireInv, FrameProcessed, MainAt
<1>17. CASE LockRecover
  <2>1. \A t \in Threads : spc[t] # "data"
    BY <1>0, <1>17, ThreadAssumption DEF LockInv, LockRecover, Sending
  <2> QED BY <1>17, <2>1, ItemsDiffer DEF WireInv, LockRecover
<1>18. CASE UnlockRecover BY <1>0, <1>18 DEF WireInv, UnlockRecover, MainAt
<1>19. CASE Leave
  BY <1>0, <1>19, ItemsDiffer DEF WireInv, Leave, Destroy
<1>20. CASE Interrupt
  BY <1>0, <1>20, ItemsDiffer DEF WireInv, Interrupt, Destroy
<1>21. CASE InterruptAgain BY <1>0, <1>21 DEF WireInv, InterruptAgain, MainAt
<1>22. CASE Exit BY <1>0, <1>22 DEF WireInv, Exit, MainAt
<1>23. CASE UseDeletedMachine
  BY <1>0, <1>23 DEF WireInv, UseDeletedMachine, MainAt
<1>24. CASE InitializeMachine
  BY <1>0, <1>24 DEF WireInv, InitializeMachine, RunStep, Alive
<1>25. CASE RunLocks BY <1>0, <1>25 DEF WireInv, RunLocks, RunStep, Alive
<1>26. CASE SetInitialized
  BY <1>0, <1>26 DEF WireInv, SetInitialized, RunStep, Alive
<1>27. CASE RunUnlocks BY <1>0, <1>27 DEF WireInv, RunUnlocks, RunStep, Alive
<1>28. CASE Signal BY <1>0, <1>28 DEF WireInv, Signal, RunStep, Alive
<1>29. ASSUME NEW t \in Threads, CallSend(t) PROVE WireInv'
  BY <1>0, <1>29 DEF WireInv, TypeOK, CallSend, SendAt
<1>30. ASSUME NEW t \in Threads, SendLocks(t) PROVE WireInv'
  BY <1>0, <1>30 DEF WireInv, TypeOK, SendLocks, SendAt
<1>31. ASSUME NEW t \in Threads, RejectFrame(t) PROVE WireInv'
  BY <1>0, <1>31 DEF WireInv, TypeOK, RejectFrame, SendAt
<1>32. ASSUME NEW t \in Threads, SendHeader(t) PROVE WireInv'
  <2>1. PICK o \in SendOutcomes(conn) :
          /\ conn' = o[2]
          /\ wire' = IF o[1] = "sent" THEN Header(t) ELSE wire
          /\ IF o[1] = "sent"
             THEN spc' = [spc EXCEPT ![t] = "data"]
             ELSE spc' = [spc EXCEPT ![t] = "unlock"]
    BY <1>32 DEF SendHeader, SendItem
  <2>2. (o[1] = "sent" => conn \in {"up", "eof"})
        /\ (o[1] # "sent" => conn' \in {"dead", "closed"})
    BY <1>0, <2>1, SendOutcome DEF TypeOK
  <2>3. mutex = t /\ mpc \notin NegotiatePcs /\ mpc' = mpc
    BY <1>0, <1>32, NegotiatesAlone DEF SendHeader, SendAt, LockInv, Sending
  <2>4. \A u \in Threads : u # t => spc[u] # "data" /\ spc'[u] = spc[u]
    BY <1>0, <1>32, <2>1, <2>3 DEF LockInv, Sending, TypeOK
  <2>5. spc'[t] = IF o[1] = "sent" THEN "data" ELSE "unlock"
    BY <1>0, <2>1 DEF TypeOK
  <2> QED
    BY <1>0, <1>32, <2>1, <2>2, <2>3, <2>4, <2>5, ItemsDiffer
    DEF WireInv, NegotiatePcs, SendHeader, SendAt
<1>33. ASSUME NEW t \in Threads, SendData(t) PROVE WireInv'
  <2>1. PICK o \in SendOutcomes(conn) :
          /\ conn' = o[2]
          /\ wire' = IF o[1] = "sent" THEN Data(t) ELSE wire
          /\ IF o[1] = "sent"
             THEN spc' = [spc EXCEPT ![t] = "unlock"]
             ELSE spc' = [spc EXCEPT ![t] = "unlock"]
    BY <1>33 DEF SendData, SendItem
  <2>2. (o[1] = "sent" => conn \in {"up", "eof"})
        /\ (o[1] # "sent" => conn' \in {"dead", "closed"})
    BY <1>0, <2>1, SendOutcome DEF TypeOK
  <2>3. mutex = t /\ mpc \notin NegotiatePcs /\ mpc' = mpc
    BY <1>0, <1>33, NegotiatesAlone DEF SendData, SendAt, LockInv, Sending
  <2>4. \A u \in Threads : u # t => spc[u] # "data" /\ spc'[u] = spc[u]
    BY <1>0, <1>33, <2>1, <2>3 DEF LockInv, Sending, TypeOK
  <2>5. spc'[t] = IF o[1] = "sent" THEN "unlock" ELSE "unlock"
    BY <1>0, <2>1 DEF TypeOK
  <2> QED
    BY <1>0, <1>33, <2>1, <2>2, <2>3, <2>4, <2>5, ItemsDiffer
    DEF WireInv, NegotiatePcs, SendData, SendAt
<1>34. ASSUME NEW t \in Threads, SendNotice(t) PROVE WireInv'
  <2>1. PICK o \in SendOutcomes(conn) :
          /\ conn' = o[2]
          /\ wire' = IF o[1] = "sent" THEN Notice(t) ELSE wire
          /\ IF o[1] = "sent"
             THEN spc' = [spc EXCEPT ![t] = "unlock"]
             ELSE spc' = [spc EXCEPT ![t] = "unlock"]
    BY <1>34 DEF SendNotice, SendItem
  <2>2. (o[1] = "sent" => conn \in {"up", "eof"})
        /\ (o[1] # "sent" => conn' \in {"dead", "closed"})
    BY <1>0, <2>1, SendOutcome DEF TypeOK
  <2>3. mutex = t /\ mpc \notin NegotiatePcs /\ mpc' = mpc
    BY <1>0, <1>34, NegotiatesAlone DEF SendNotice, SendAt, LockInv, Sending
  <2>4. \A u \in Threads : u # t => spc[u] # "data" /\ spc'[u] = spc[u]
    BY <1>0, <1>34, <2>1, <2>3 DEF LockInv, Sending, TypeOK
  <2>5. spc'[t] = IF o[1] = "sent" THEN "unlock" ELSE "unlock"
    BY <1>0, <2>1 DEF TypeOK
  <2> QED
    BY <1>0, <1>34, <2>1, <2>2, <2>3, <2>4, <2>5, ItemsDiffer
    DEF WireInv, NegotiatePcs, SendNotice, SendAt
<1>35. ASSUME NEW t \in Threads, SendUnlocks(t) PROVE WireInv'
  BY <1>0, <1>35 DEF WireInv, TypeOK, SendUnlocks, SendAt
<1>36. CASE ServerCloses BY <1>0, <1>36 DEF WireInv, ServerCloses
<1>37. CASE ServerResets BY <1>0, <1>37 DEF WireInv, ServerResets
<1>38. CASE UNCHANGED vars
  BY <1>0, <1>38 DEF vars, WireInv
<1> QED BY <1>1, <1>2, <1>3, <1>4, <1>5, <1>6, <1>7, <1>8, <1>9, <1>10, <1>11,
          <1>12, <1>13, <1>14, <1>15, <1>16, <1>17, <1>18, <1>19, <1>20, <1>21,
          <1>22, <1>23, <1>24, <1>25, <1>26, <1>27, <1>28, <1>29, <1>30, <1>31,
          <1>32, <1>33, <1>34, <1>35, <1>36, <1>37, <1>38
       DEF Next, MainNext, Negotiate, RunNext, SendNext

LEMMA MapStep == IInv /\ [Next]_vars => MapInv'
<1> SUFFICES ASSUME IInv, [Next]_vars PROVE MapInv' OBVIOUS
<1>0. TypeOK /\ MapInv BY DEF IInv
<1>1. CASE Connect BY <1>0, <1>1 DEF MapInv, TypeOK, asks, Connect, MainAt
<1>2. CASE SendRequest
  <2>1. mpc = "request" /\ mpc' \in {"answer", "failed"}
    BY <1>2 DEF SendRequest, SendItem, MainAt
  <2> QED BY <1>0, <1>2, <2>1 DEF MapInv, TypeOK, SendRequest
<1>3. CASE AnswerAccepted
  <2>1. stage # "start" => NextRequest[stage] # "signIn"
                           /\ (stage # "signIn" => NextRequest[stage] # "map")
    BY <1>0 DEF TypeOK, Requests, NextRequest
  <2> QED BY <1>0, <1>3, <2>1 DEF MapInv, asks, AnswerAccepted, MainAt
<1>4. CASE LockRecover BY <1>0, <1>4 DEF MapInv, LockRecover
<1>5. CASE \/ RejectRequest \/ AnswerRefused \/ NoNodeName
            \/ NegotiationFailed \/ CreateThread
  BY <1>0, <1>5
  DEF MapInv, asks, RejectRequest, AnswerRefused, NoNodeName,
      NegotiationFailed, CreateThread
<1>6. CASE LockInit \/ TestInit \/ SpuriousWakeup \/ Relock \/ UnlockInit
  BY <1>0, <1>6
  DEF MapInv, asks, LockInit, TestInit, SpuriousWakeup, Relock, UnlockInit,
      MainLocks
<1>7. CASE ReceiveMessage \/ ReceivePayload \/ FrameProcessed \/ UnlockRecover
  BY <1>0, <1>7
  DEF MapInv, asks, ReceiveMessage, ReceivePayload, FrameProcessed,
      UnlockRecover
<1>8. CASE Leave \/ Interrupt \/ InterruptAgain \/ Exit \/ UseDeletedMachine
  BY <1>0, <1>8
  DEF MapInv, asks, Leave, Interrupt, Destroy, InterruptAgain, Exit,
      UseDeletedMachine
<1>9. CASE RunNext
  BY <1>0, <1>9
  DEF MapInv, asks, RunNext, RunStep, InitializeMachine, RunLocks,
      SetInitialized, RunUnlocks, Signal
<1>10. ASSUME NEW t \in Threads, SendNext(t) PROVE MapInv'
  BY <1>0, <1>10
  DEF MapInv, asks, SendNext, CallSend, SendLocks, RejectFrame, SendHeader,
      SendData, SendNotice, SendUnlocks
<1>11. CASE ServerCloses \/ ServerResets
  BY <1>0, <1>11 DEF MapInv, asks, ServerCloses, ServerResets
<1>12. CASE UNCHANGED vars BY <1>0, <1>12 DEF MapInv, asks, vars
<1> QED BY <1>1, <1>2, <1>3, <1>4, <1>5, <1>6, <1>7, <1>8, <1>9, <1>10, <1>11,
          <1>12 DEF Next, MainNext, Negotiate

\* The invariant that every result below rests on: the owner of the mutex, the
\* statements without a session, and what is on the wire (see the head).
THEOREM Inductive == Spec => []IInv
<1>1. IInv /\ [Next]_vars => IInv'
  BY TypeStep, LockStep, SessionStep, InitStep, WireStep, MapStep DEF IInv
<1> QED BY InitIInv, <1>1, PTL DEF Spec

-----------------------------------------------------------------------------
(* The results.                                                            *)

\* The variables keep their kinds, whatever sends and receives lead to.
THEOREM TypeCorrect == Spec => []TypeOK
<1>1. IInv => TypeOK BY DEF IInv
<1> QED BY Inductive, <1>1, PTL

\* The mutex of cf.cpp excludes: two threads are never both between the lock
\* and the unlock of sendFrame, nor is one there while Main recovers.
MutualExclusion ==
  /\ \A t, u \in Threads : Sending(t) /\ Sending(u) => t = u
  /\ \A t \in Threads : Sending(t) => ~(resuming /\ mpc \in NegotiatePcs)

THEOREM Exclusion == Spec => []MutualExclusion
<1>1. IInv => MutualExclusion
  BY NegotiatesAlone DEF IInv, LockInv, MutualExclusion
<1> QED BY Inductive, <1>1, PTL

\* Commands go out in a session, but for the window after giving up.
THEOREM SessionForCommands == Spec => []CommandsNeedSession
<1>1. IInv => CommandsNeedSession
  BY NegotiatesAlone
  DEF IInv, SessionInv, CommandsNeedSession, Sending, Ended
<1> QED BY Inductive, <1>1, PTL

\* No frame is processed before initialize() is over.
THEOREM InitializeFirst == Spec => []InitializedFirst
<1>1. IInv => InitializedFirst BY DEF IInv, InitInv, InitializedFirst
<1> QED BY Inductive, <1>1, PTL

\* Main is never left waiting for a signal that st_run has already given.
THEOREM NoWakeupLost == Spec => []WakeupNotLost
<1>1. IInv => WakeupNotLost BY DEF IInv, InitInv
<1> QED BY Inductive, <1>1, PTL

\* A new map instance is asked for once, by whichever negotiation.
THEOREM OneNewMap == Spec => []NewMapOnce
<1>1. IInv => NewMapOnce BY DEF IInv, MapInv, NewMapOnce
<1> QED BY Inductive, <1>1, PTL

\* Every step of the client is a step of FrameChannel, or none: SendRequest is
\* Request, the acceptance of the start is Start, SendHeader and SendNotice are
\* Command, SendData is FrameData, LockRecover is Reconnect, and a negotiation
\* or an exit that gives up is GiveUp.
LEMMA StepRefines == IInv /\ [Next]_vars => [Channel!Next]_(Channel!vars)
<1> SUFFICES ASSUME IInv, [Next]_vars PROVE [Channel!Next]_(Channel!vars) OBVIOUS
<1>0. TypeOK /\ LockInv /\ SessionInv /\ WireInv BY DEF IInv
<1>1. CASE Connect BY <1>0, <1>1 DEF Channel!vars, Connect, MainAt
<1>2. CASE SendRequest
  <2>1. PICK o \in SendOutcomes(conn) :
          wire' = IF o[1] = "sent" THEN Asked(stage) ELSE wire
    BY <1>2 DEF SendRequest, SendItem
  <2>2. o[1] = "sent" => conn \in {"up", "eof"}
    BY <1>0, SendOutcome DEF TypeOK
  <2>3. ~session /\ wire \in Channel!MayFollow(stage) /\ stage \in Requests
    BY <1>0, <1>2
    DEF SendRequest, MainAt, SessionInv, NegotiatePcs, WireInv, TypeOK
  <2>4. mpc' \in {"answer", "failed"} /\ mpc = "request"
    BY <1>2 DEF SendRequest, SendItem, MainAt
  <2>5. o[1] = "sent" => Channel!Request(stage)
    BY <1>2, <2>1, <2>3, <2>4
    DEF Channel!Request, Channel!Asked, Asked, SendRequest
  <2>6. Requests = Channel!Requests BY DEF Requests, Channel!Requests
  <2> QED BY <1>2, <2>1, <2>3, <2>4, <2>5, <2>6
          DEF Channel!Next, Channel!vars, SendRequest
<1>3. CASE RejectRequest BY <1>0, <1>3 DEF Channel!vars, RejectRequest, MainAt
<1>4. CASE AnswerAccepted
  <2>1. CASE stage = "start"
    <3>1. Channel!Start
      BY <1>0, <1>4, <2>1
      DEF Channel!Start, Channel!Asked, Asked, AnswerAccepted, MainAt, WireInv,
          SessionInv, NegotiatePcs
    <3> QED BY <3>1 DEF Channel!Next
  <2>2. CASE stage # "start"
    BY <1>4, <2>2 DEF Channel!vars, AnswerAccepted, MainAt
  <2> QED BY <2>1, <2>2
<1>5. CASE AnswerRefused BY <1>5 DEF Channel!vars, AnswerRefused, MainAt
<1>6. CASE NoNodeName BY <1>0, <1>6 DEF Channel!vars, NoNodeName, MainAt
<1>7. CASE NegotiationFailed
  <2>1. CASE resuming
    <3>1. Channel!GiveUp
      BY <1>0, <1>7, <2>1
      DEF Channel!GiveUp, NegotiationFailed, MainAt, SessionInv, NegotiatePcs
    <3> QED BY <3>1 DEF Channel!Next
  <2>2. CASE ~resuming
    BY <1>7, <2>2 DEF Channel!vars, NegotiationFailed
  <2> QED BY <2>1, <2>2
<1>8. CASE CreateThread BY <1>0, <1>8 DEF Channel!vars, CreateThread, MainAt
<1>9. CASE LockInit BY <1>0, <1>9 DEF Channel!vars, LockInit, MainLocks, MainAt
<1>10. CASE TestInit BY <1>0, <1>10 DEF Channel!vars, TestInit, MainAt
<1>11. CASE SpuriousWakeup
  BY <1>0, <1>11 DEF Channel!vars, SpuriousWakeup, MainAt
<1>12. CASE Relock BY <1>0, <1>12 DEF Channel!vars, Relock, MainLocks, MainAt
<1>13. CASE UnlockInit BY <1>0, <1>13 DEF Channel!vars, UnlockInit, MainAt
<1>14. CASE ReceiveMessage BY <1>14 DEF Channel!vars, ReceiveMessage, MainAt
<1>15. CASE ReceivePayload BY <1>15 DEF Channel!vars, ReceivePayload, MainAt
<1>16. CASE FrameProcessed
  BY <1>0, <1>16 DEF Channel!vars, FrameProcessed, MainAt
<1>17. CASE LockRecover
  <2>1. Channel!Reconnect
    BY <1>17 DEF Channel!Reconnect, Channel!Nothing, Nothing, LockRecover, MainAt
  <2> QED BY <2>1 DEF Channel!Next
<1>18. CASE UnlockRecover
  BY <1>0, <1>18 DEF Channel!vars, UnlockRecover, MainAt
<1>19. CASE Leave
  <2>1. Channel!GiveUp
    BY <1>19 DEF Channel!GiveUp, Channel!Nothing, Nothing, Leave, Destroy
  <2> QED BY <2>1 DEF Channel!Next
<1>20. CASE Interrupt
  <2>1. Channel!GiveUp
    BY <1>20 DEF Channel!GiveUp, Channel!Nothing, Nothing, Interrupt, Destroy
  <2> QED BY <2>1 DEF Channel!Next
<1>21. CASE InterruptAgain
  BY <1>0, <1>21 DEF Channel!vars, InterruptAgain, MainAt
<1>22. CASE Exit BY <1>0, <1>22 DEF Channel!vars, Exit, MainAt
<1>23. CASE UseDeletedMachine
  BY <1>0, <1>23 DEF Channel!vars, UseDeletedMachine, MainAt
<1>24. CASE InitializeMachine
  BY <1>0, <1>24 DEF Channel!vars, InitializeMachine, RunStep, Alive
<1>25. CASE RunLocks BY <1>0, <1>25 DEF Channel!vars, RunLocks, RunStep, Alive
<1>26. CASE SetInitialized
  BY <1>0, <1>26 DEF Channel!vars, SetInitialized, RunStep, Alive
<1>27. CASE RunUnlocks
  BY <1>0, <1>27 DEF Channel!vars, RunUnlocks, RunStep, Alive
<1>28. CASE Signal BY <1>0, <1>28 DEF Channel!vars, Signal, RunStep, Alive
<1>29. ASSUME NEW t \in Threads, CallSend(t) PROVE [Channel!Next]_(Channel!vars)
  BY <1>0, <1>29 DEF Channel!vars, CallSend, MaySend, SendAt, Alive
<1>30. ASSUME NEW t \in Threads, SendLocks(t) PROVE [Channel!Next]_(Channel!vars)
  BY <1>0, <1>30 DEF Channel!vars, SendLocks, SendAt, Alive
<1>31. ASSUME NEW t \in Threads, RejectFrame(t) PROVE [Channel!Next]_(Channel!vars)
  BY <1>0, <1>31 DEF Channel!vars, RejectFrame, SendAt, Alive
<1>32. ASSUME NEW t \in Threads, SendHeader(t) PROVE [Channel!Next]_(Channel!vars)
  <2>1. PICK o \in SendOutcomes(conn) :
          wire' = IF o[1] = "sent" THEN Header(t) ELSE wire
    BY <1>32 DEF SendHeader, SendItem
  <2>2. o[1] = "sent" => conn \in {"up", "eof"}
    BY <1>0, SendOutcome DEF TypeOK
  <2>3. mutex = t /\ mpc \notin NegotiatePcs \cup {"destroyed"}
    BY <1>0, <1>32, NegotiatesAlone DEF SendHeader, SendAt, Alive, LockInv, Sending
  <2>4. session \/ mpc = "leave" BY <1>0, <2>3 DEF SessionInv
  <2>5. o[1] = "sent" => Channel!Complete
    BY <1>0, <1>32, <2>2, <2>3
    DEF Channel!Complete, Channel!Header, Header, WireInv, LockInv, Sending,
        SendHeader, SendAt
  <2>6. o[1] = "sent" => Channel!Command(t)
    BY <1>32, <2>1, <2>4, <2>5
    DEF Channel!Command, Channel!Header, Channel!Notice, Header, Notice, SendHeader
  <2> QED BY <1>32, <2>1, <2>6 DEF Channel!Next, Channel!vars, SendHeader
<1>33. ASSUME NEW t \in Threads, SendData(t) PROVE [Channel!Next]_(Channel!vars)
  <2>1. PICK o \in SendOutcomes(conn) :
          wire' = IF o[1] = "sent" THEN Data(t) ELSE wire
    BY <1>33 DEF SendData, SendItem
  <2>2. o[1] = "sent" => conn \in {"up", "eof"}
    BY <1>0, SendOutcome DEF TypeOK
  <2>3. wire = Header(t)
    BY <1>0, <1>33 DEF SendData, SendAt, Alive, WireInv
  <2>4. o[1] = "sent" => Channel!FrameData(t)
    BY <1>33, <2>1, <2>3
    DEF Channel!FrameData, Channel!Header, Channel!Data, Header, Data, SendData
  <2> QED BY <1>33, <2>1, <2>4 DEF Channel!Next, Channel!vars, SendData
<1>34. ASSUME NEW t \in Threads, SendNotice(t) PROVE [Channel!Next]_(Channel!vars)
  <2>1. PICK o \in SendOutcomes(conn) :
          wire' = IF o[1] = "sent" THEN Notice(t) ELSE wire
    BY <1>34 DEF SendNotice, SendItem
  <2>2. o[1] = "sent" => conn \in {"up", "eof"}
    BY <1>0, SendOutcome DEF TypeOK
  <2>3. mutex = t /\ mpc \notin NegotiatePcs \cup {"destroyed"}
    BY <1>0, <1>34, NegotiatesAlone DEF SendNotice, SendAt, Alive, LockInv, Sending
  <2>4. session \/ mpc = "leave" BY <1>0, <2>3 DEF SessionInv
  <2>5. o[1] = "sent" => Channel!Complete
    BY <1>0, <1>34, <2>2, <2>3
    DEF Channel!Complete, Channel!Header, Header, WireInv, LockInv, Sending,
        SendNotice, SendAt
  <2>6. o[1] = "sent" => Channel!Command(t)
    BY <1>34, <2>1, <2>4, <2>5
    DEF Channel!Command, Channel!Header, Channel!Notice, Header, Notice, SendNotice
  <2> QED BY <1>34, <2>1, <2>6 DEF Channel!Next, Channel!vars, SendNotice
<1>35. ASSUME NEW t \in Threads, SendUnlocks(t) PROVE [Channel!Next]_(Channel!vars)
  BY <1>0, <1>35 DEF Channel!vars, SendUnlocks, SendAt, Alive
<1>36. CASE ServerCloses BY <1>0, <1>36 DEF Channel!vars, ServerCloses
<1>37. CASE ServerResets BY <1>0, <1>37 DEF Channel!vars, ServerResets
<1>38. CASE UNCHANGED vars
  BY <1>0, <1>38 DEF vars, Channel!vars
<1> QED BY <1>1, <1>2, <1>3, <1>4, <1>5, <1>6, <1>7, <1>8, <1>9, <1>10, <1>11,
          <1>12, <1>13, <1>14, <1>15, <1>16, <1>17, <1>18, <1>19, <1>20, <1>21,
          <1>22, <1>23, <1>24, <1>25, <1>26, <1>27, <1>28, <1>29, <1>30, <1>31,
          <1>32, <1>33, <1>34, <1>35, <1>36, <1>37, <1>38
       DEF Next, MainNext, Negotiate, RunNext, SendNext

\* ClientFramework implements FrameChannel: on every connection requests come in
\* order, commands after them, and each header before its own data.
THEOREM ImplementsChannel == Spec => ChannelSpec
<1>1. Init => Channel!Init
  BY DEF Init, Channel!Init, Channel!Nothing, Nothing
<1> QED BY <1>1, Inductive, StepRefines, PTL DEF Spec, ChannelSpec, Channel!Spec
=============================================================================
