--------------------------- MODULE ClientFramework ---------------------------
(***************************************************************************)
(* The client framework (src/base/cf.cpp): the threads, the mutex and the  *)
(* TCP connection of one client of the simulation server.                  *)
(*                                                                         *)
(*   Main      connects, negotiates, receives frames and hands them to     *)
(*             processFrame, recovers a broken session                     *)
(*   Run       st_run: initialize() and then run()                         *)
(*   Helpers   Run and whatever threads the user program starts there      *)
(*                                                                         *)
(* Every thread sends frames with sendFrame, under the one mutex; a frame  *)
(* is two send() calls, its header and its data.  The mutex also guards    *)
(* initialized, and Main holds it from closing the broken connection until *)
(* the session is resumed or given up.                                     *)
(*                                                                         *)
(* The kernel's socket and the server are outside src/: sends and receives *)
(* have the outcomes sendOrReceive tells apart, and the server answers,    *)
(* refuses, sends messages, closes the connection or resets it.            *)
(***************************************************************************)
EXTENDS Integers

CONSTANTS
  Main, Run,
  Helpers,   \* the threads that run() may send from, Run among them
  Free,      \* the mutex has no owner
  Faults     \* what the server may do to the connection: "close", "reset"

Threads == Helpers \cup {Main}

ASSUME ThreadAssumption ==
  /\ Run \in Helpers /\ Main \notin Helpers /\ Free \notin Threads
  /\ Faults \subseteq {"close", "reset"}

VARIABLES
  process,      \* "running", "exited" or "killed"
  conn,         \* the socket sfd, as send and recv will find it
  wire,         \* the last item put on the present connection
  session,      \* the server has started or resumed the simulation on it
  mutex,        \* the owner of ClientFramework::mutex
  initialized,  \* ClientFramework::initialized
  resuming,     \* in recoverSimulation rather than the first negotiation
  needNewMap,   \* from the command line: 1 --new, 0 --id, -1 --free
  newMaps,      \* history: the requests for a new map, counted up to 2
  mpc,          \* Main: statement
  stage,        \* Main: the request being negotiated
  rpc,          \* Run: statement of st_run
  spc           \* every thread: statement of sendFrame

asks == <<needNewMap, newMaps>>
vars == <<process, conn, wire, session, mutex, initialized, resuming, asks, mpc,
          stage, rpc, spc>>

Requests == {"signIn", "map", "node", "interfaces", "custom", "start"}
MainPcs == {"connect", "request", "answer", "failed", "create", "lockInit",
            "testInit", "asleep", "relock", "unlockInit", "message", "payload",
            "process", "lockRecover", "unlockRecover", "leave", "destroyed"}
RunPcs == {"none", "initialize", "lock", "set", "unlock", "signal", "run"}
SendPcs == {"idle", "lock", "command", "data", "unlock"}

\* The items of the wire: a request of the negotiation, a command of a thread.
Nothing == <<>>
Asked(r) == <<r>>
Header(t) == <<"header", t>>
Data(t)   == <<"data", t>>
Notice(t) == <<"notice", t>>
Wires == {Nothing} \cup {Asked(r) : r \in Requests} \cup
         ({"header", "data", "notice"} \X Threads)

\* parseArguments asks for exactly one of --new, --id and --free.
ParsedNewMap == {1, 0, -1}

Init ==
  /\ process = "running"
  /\ conn = "closed" /\ wire = Nothing /\ session = FALSE
  /\ mutex = Free /\ initialized = FALSE /\ resuming = FALSE
  /\ needNewMap \in ParsedNewMap /\ newMaps = 0
  /\ mpc = "connect" /\ stage = "signIn"
  /\ rpc = "none"
  /\ spc = [t \in Threads |-> "idle"]

Alive == process = "running" /\ mpc # "destroyed"

-----------------------------------------------------------------------------
(* The socket.                                                             *)
(*   up       connected                                                    *)
(*   eof      the server has closed: recv returns 0, send still succeeds   *)
(*   reset    the next call reports an error, to whichever thread calls    *)
(*   dead     recv returns 0, send raises SIGPIPE, which nobody handles    *)
(*   closed   no open socket: every call fails                             *)

Conns == {"up", "eof", "reset", "dead", "closed"}

\* send: result and next state of the socket.
SendOutcomes(c) ==
  CASE c = "up"     -> {<<"sent", "up">>}
    [] c = "eof"    -> {<<"sent", "eof">>, <<"sent", "dead">>}
    [] c = "reset"  -> {<<"failed", "dead">>}
    [] c = "dead"   -> {<<"killed", "dead">>}
    [] c = "closed" -> {<<"failed", "closed">>}

\* recv: sendOrReceive goes on receiving after a 0, so that at the end of the
\* stream it has no outcome at all.
ReceiveOutcomes(c) ==
  CASE c = "up"              -> {<<"received", "up">>}
    [] c = "reset"           -> {<<"failed", "dead">>}
    [] c = "closed"          -> {<<"failed", "closed">>}
    [] c \in {"eof", "dead"} -> {}

\* sendOrReceive (true, ...) of one item: what it leads to when it succeeds and
\* when it fails.
SendItem(item, Sent, Failed) ==
  \E o \in SendOutcomes(conn) :
    /\ conn' = o[2]
    /\ process' = IF o[1] = "killed" THEN "killed" ELSE process
    /\ wire' = IF o[1] = "sent" THEN item ELSE wire
    /\ IF o[1] = "sent" THEN Sent ELSE Failed

ServerCloses ==
  /\ process = "running" /\ conn = "up" /\ "close" \in Faults
  /\ conn' = "eof"
  /\ UNCHANGED <<process, wire, session, mutex, initialized, resuming, asks,
                 mpc, stage, rpc, spc>>

ServerResets ==
  /\ process = "running" /\ conn = "up" /\ "reset" \in Faults
  /\ conn' = "reset"
  /\ UNCHANGED <<process, wire, session, mutex, initialized, resuming, asks,
                 mpc, stage, rpc, spc>>

-----------------------------------------------------------------------------
(* Main: connecting and negotiating.                                       *)

MainAt(pc) == process = "running" /\ mpc = pc

\* connectToServer.  After a failed connect the socket is there and not
\* connected; after a failed socket there is none.
Connect ==
  /\ MainAt("connect")
  /\ \/ conn' = "up" /\ mpc' = "request" /\ stage' = "signIn"
     \/ conn' \in {"dead", "closed"} /\ mpc' = "failed" /\ UNCHANGED stage
  /\ UNCHANGED <<process, wire, session, mutex, initialized, resuming, asks,
                 rpc, spc>>

\* doSigningInNegotiations, doMapSelectingNegotiations, ... send a request,
SendRequest ==
  /\ MainAt("request")
  /\ SendItem(Asked(stage), mpc' = "answer", mpc' = "failed")
  /\ newMaps' = IF stage = "map" /\ needNewMap = 1 /\ newMaps < 2
                THEN newMaps + 1 ELSE newMaps
  /\ UNCHANGED <<session, mutex, initialized, resuming, needNewMap, stage, rpc,
                 spc>>

\* give up before it when a name is too long for its field or the buffer, which
\* the first negotiation has then found out,
RejectRequest ==
  /\ MainAt("request") /\ stage \in {"signIn", "map", "node"} /\ ~resuming
  /\ mpc' = "failed"
  /\ UNCHANGED <<process, conn, wire, session, mutex, initialized, resuming,
                 asks, stage, rpc, spc>>

\* and receive the answer.
\* Mutant: a recovery goes on with a request of its own.
NextRequestResume ==
  [signIn |-> "map", map |-> "node",
   node |-> IF resuming THEN "resume" ELSE "interfaces",
   interfaces |-> "custom", custom |-> "start"]

NextRequest ==
  [signIn |-> "map", map |-> "node",
   node |-> IF resuming THEN "start" ELSE "interfaces",
   interfaces |-> "custom", custom |-> "start"]

AnswerAccepted ==
  /\ MainAt("answer") /\ conn = "up"
  /\ IF stage = "start"
     THEN /\ session' = TRUE
          /\ mpc' = IF resuming THEN "unlockRecover" ELSE "create"
          /\ UNCHANGED stage
     ELSE stage' = NextRequest[stage] /\ mpc' = "request" /\ UNCHANGED session
  /\ UNCHANGED <<process, conn, wire, mutex, initialized, resuming, asks, rpc,
                 spc>>

AnswerRefused ==
  /\ MainAt("answer")
  /\ \E o \in ReceiveOutcomes(conn) : conn' = o[2]
  /\ mpc' = "failed"
  /\ UNCHANGED <<process, wire, session, mutex, initialized, resuming, asks,
                 stage, rpc, spc>>

\* Without a node name there is nothing to simulate: destroy and exit.
NoNodeName ==
  /\ MainAt("request") /\ stage = "node" /\ ~resuming
  /\ process' = "exited"
  /\ UNCHANGED <<conn, wire, session, mutex, initialized, resuming, asks, mpc,
                 stage, rpc, spc>>

\* The first negotiation failed: main destroys the framework and returns.  A
\* recovery that failed lets the other threads in again and ends the loop of
\* recoverSimulation.
NegotiationFailed ==
  /\ MainAt("failed")
  /\ IF resuming
     THEN mutex' = Free /\ mpc' = "leave" /\ UNCHANGED process
     ELSE process' = "exited" /\ UNCHANGED <<mutex, mpc>>
  /\ UNCHANGED <<conn, wire, session, initialized, resuming, asks, stage, rpc,
                 spc>>

-----------------------------------------------------------------------------
(* Main: startSimulation and simulateMachine.                              *)

\* sigaction and pthread_create; without either the program ends.
CreateThread ==
  /\ MainAt("create")
  /\ \/ rpc' = "initialize" /\ mpc' = "lockInit" /\ UNCHANGED process
     \/ process' = "exited" /\ UNCHANGED <<rpc, mpc>>
  /\ UNCHANGED <<conn, wire, session, mutex, initialized, resuming, asks,
                 stage, spc>>

MainLocks(from, to) ==
  /\ MainAt(from) /\ mutex = Free
  /\ mutex' = Main /\ mpc' = to
  /\ UNCHANGED <<process, conn, wire, session, initialized, resuming, asks,
                 stage, rpc, spc>>

LockInit == MainLocks("lockInit", "testInit")

\* Mutant: Main waits before it looks.
TestInitLate ==
  /\ MainAt("testInit")
  /\ mpc' = "asleep" /\ mutex' = Free
  /\ UNCHANGED <<process, conn, wire, session, initialized, resuming, asks,
                 stage, rpc, spc>>

\* while (!initialized) pthread_cond_wait (...)
TestInit ==
  /\ MainAt("testInit")
  /\ IF initialized THEN mpc' = "unlockInit" /\ UNCHANGED mutex
                    ELSE mpc' = "asleep" /\ mutex' = Free
  /\ UNCHANGED <<process, conn, wire, session, initialized, resuming, asks,
                 stage, rpc, spc>>

SpuriousWakeup ==
  /\ MainAt("asleep")
  /\ mpc' = "relock"
  /\ UNCHANGED <<process, conn, wire, session, mutex, initialized, resuming,
                 asks, stage, rpc, spc>>

\* Mutant: initialized is not tested again after the wait.
RelockAndLeave == MainLocks("relock", "unlockInit")

Relock == MainLocks("relock", "testInit")

UnlockInit ==
  /\ MainAt("unlockInit")
  /\ mutex' = Free /\ mpc' = "message"
  /\ UNCHANGED <<process, conn, wire, session, initialized, resuming, asks,
                 stage, rpc, spc>>

-----------------------------------------------------------------------------
(* Main: simulationEventLoop and recoverSimulation.                        *)

\* The head of the server's next message: of a frame or of the description of
\* an invalid interface index, or of neither, which ends the loop.
ReceiveMessage ==
  /\ MainAt("message")
  /\ \E o \in ReceiveOutcomes(conn) :
       /\ conn' = o[2]
       /\ mpc' \in IF o[1] = "received" THEN {"payload", "lockRecover"}
                                        ELSE {"lockRecover"}
  /\ UNCHANGED <<process, wire, session, mutex, initialized, resuming, asks,
                 stage, rpc, spc>>

\* The rest of it: a frame for processFrame, a description that is printed, or
\* a frame of an interface that does not exist.
ReceivePayload ==
  /\ MainAt("payload")
  /\ \E o \in ReceiveOutcomes(conn) :
       /\ conn' = o[2]
       /\ mpc' \in IF o[1] = "received"
                   THEN {"process", "message", "lockRecover"}
                   ELSE {"lockRecover"}
  /\ UNCHANGED <<process, wire, session, mutex, initialized, resuming, asks,
                 stage, rpc, spc>>

\* processFrame returns.  Until then it may call sendFrame, any number of times.
FrameProcessed ==
  /\ MainAt("process") /\ spc[Main] = "idle"
  /\ mpc' = "message"
  /\ UNCHANGED <<process, conn, wire, session, mutex, initialized, resuming,
                 asks, stage, rpc, spc>>

\* Mutants: the recovery goes without the mutex, or negotiates like the start.
RecoverUnlocked ==
  /\ MainAt("lockRecover")
  /\ conn' = "closed" /\ wire' = Nothing /\ session' = FALSE
  /\ resuming' = TRUE /\ needNewMap' = 0 /\ mpc' = "connect"
  /\ UNCHANGED <<process, mutex, initialized, newMaps, stage, rpc, spc>>
RecoverAnew ==
  /\ MainAt("lockRecover") /\ mutex = Free
  /\ mutex' = Main
  /\ conn' = "closed" /\ wire' = Nothing /\ session' = FALSE
  /\ resuming' = TRUE /\ mpc' = "connect"
  /\ UNCHANGED <<process, initialized, asks, stage, rpc, spc>>

\* recoverSimulation: lock and close the socket, connect and negotiate again.
LockRecover ==
  /\ MainAt("lockRecover") /\ mutex = Free
  /\ mutex' = Main
  /\ conn' = "closed" /\ wire' = Nothing /\ session' = FALSE
  /\ resuming' = TRUE /\ needNewMap' = 0 /\ mpc' = "connect"
  /\ UNCHANGED <<process, initialized, newMaps, stage, rpc, spc>>

\* The session is resumed.
UnlockRecover ==
  /\ MainAt("unlockRecover")
  /\ mutex' = Free /\ mpc' = "message"
  /\ UNCHANGED <<process, conn, wire, session, initialized, resuming, asks,
                 stage, rpc, spc>>

\* systemInterrupt, called after simulateMachine or by the signal SIGINT, which
\* the kernel hands to the main thread: destroy closes the socket and deletes
\* the machine, then exit ends the other threads.
Destroy(from) ==
  /\ process = "running" /\ mpc \in from
  /\ mpc' = "destroyed"
  /\ conn' = "closed" /\ wire' = Nothing /\ session' = FALSE
  /\ UNCHANGED <<process, mutex, initialized, resuming, asks, stage, rpc, spc>>

Leave == Destroy({"leave"})

Interrupt ==
  (rpc # "none" \/ mpc = "create") /\ Destroy(MainPcs \ {"destroyed"})

\* destroy leaves the pointer behind, so that a second SIGINT deletes twice.
InterruptAgain ==
  /\ MainAt("destroyed")
  /\ process' = "killed"
  /\ UNCHANGED <<conn, wire, session, mutex, initialized, resuming, asks, mpc,
                 stage, rpc, spc>>

Exit ==
  /\ MainAt("destroyed")
  /\ process' = "exited"
  /\ UNCHANGED <<conn, wire, session, mutex, initialized, resuming, asks, mpc,
                 stage, rpc, spc>>

\* Another thread uses the deleted machine or framework before the exit.
UseDeletedMachine ==
  /\ MainAt("destroyed") /\ rpc # "none"
  /\ process' = "killed"
  /\ UNCHANGED <<conn, wire, session, mutex, initialized, resuming, asks, mpc,
                 stage, rpc, spc>>

-----------------------------------------------------------------------------
(* Run: st_run.                                                            *)

RunStep(from, to) ==
  /\ Alive /\ rpc = from
  /\ rpc' = to
  /\ UNCHANGED <<process, conn, wire, session, resuming, asks, stage, spc>>

InitializeMachine ==
  RunStep("initialize", "lock") /\ UNCHANGED <<mutex, initialized, mpc>>

RunLocks ==
  /\ RunStep("lock", "set")
  /\ mutex = Free /\ mutex' = Run
  /\ UNCHANGED <<initialized, mpc>>

SetInitialized ==
  /\ RunStep("set", "unlock")
  /\ initialized' = TRUE
  /\ UNCHANGED <<mutex, mpc>>

RunUnlocks ==
  /\ RunStep("unlock", "signal")
  /\ mutex' = Free
  /\ UNCHANGED <<initialized, mpc>>

\* pthread_cond_signal wakes Main if it sleeps and does nothing if not.
Signal ==
  /\ RunStep("signal", "run")
  /\ mpc' = IF mpc = "asleep" THEN "relock" ELSE mpc
  /\ UNCHANGED <<mutex, initialized>>

-----------------------------------------------------------------------------
(* Every thread: sendFrame.                                                *)

SendAt(t, pc) == Alive /\ spc[t] = pc

MaySend(t) == IF t = Main THEN mpc = "process" ELSE rpc = "run"

CallSend(t) ==
  /\ SendAt(t, "idle") /\ MaySend(t)
  /\ spc' = [spc EXCEPT ![t] = "lock"]
  /\ UNCHANGED <<process, conn, wire, session, mutex, initialized, resuming,
                 asks, mpc, stage, rpc>>

\* Mutant: sendFrame is not synchronized.
SendUnlocked(t) ==
  /\ SendAt(t, "lock")
  /\ spc' = [spc EXCEPT ![t] = "command"]
  /\ UNCHANGED <<process, conn, wire, session, mutex, initialized, resuming,
                 asks, mpc, stage, rpc>>

SendLocks(t) ==
  /\ SendAt(t, "lock") /\ mutex = Free
  /\ mutex' = t
  /\ spc' = [spc EXCEPT ![t] = "command"]
  /\ UNCHANGED <<process, conn, wire, session, initialized, resuming, asks,
                 mpc, stage, rpc>>

\* A frame shorter or longer than a frame can be is not sent.
RejectFrame(t) ==
  /\ SendAt(t, "command")
  /\ spc' = [spc EXCEPT ![t] = "unlock"]
  /\ UNCHANGED <<process, conn, wire, session, mutex, initialized, resuming,
                 asks, mpc, stage, rpc>>

\* Mutant: sendFrame returns on the error without unlocking.
SendHeaderReturns(t) ==
  /\ SendAt(t, "command")
  /\ SendItem(Header(t), spc' = [spc EXCEPT ![t] = "data"],
                         spc' = [spc EXCEPT ![t] = "idle"])
  /\ UNCHANGED <<session, mutex, initialized, resuming, asks, mpc, stage, rpc>>

SendHeader(t) ==
  /\ SendAt(t, "command")
  /\ SendItem(Header(t), spc' = [spc EXCEPT ![t] = "data"],
                         spc' = [spc EXCEPT ![t] = "unlock"])
  /\ UNCHANGED <<session, mutex, initialized, resuming, asks, mpc, stage, rpc>>

SendData(t) ==
  /\ SendAt(t, "data")
  /\ SendItem(Data(t), spc' = [spc EXCEPT ![t] = "unlock"],
                       spc' = [spc EXCEPT ![t] = "unlock"])
  /\ UNCHANGED <<session, mutex, initialized, resuming, asks, mpc, stage, rpc>>

\* notifyChangeOfIPAddress and notifyChangeOfNetmask, under the same mutex.
SendNotice(t) ==
  /\ SendAt(t, "command")
  /\ SendItem(Notice(t), spc' = [spc EXCEPT ![t] = "unlock"],
                         spc' = [spc EXCEPT ![t] = "unlock"])
  /\ UNCHANGED <<session, mutex, initialized, resuming, asks, mpc, stage, rpc>>

SendUnlocks(t) ==
  /\ SendAt(t, "unlock")
  /\ mutex' = Free
  /\ spc' = [spc EXCEPT ![t] = "idle"]
  /\ UNCHANGED <<process, conn, wire, session, initialized, resuming, asks,
                 mpc, stage, rpc>>

-----------------------------------------------------------------------------
Negotiate == Connect \/ SendRequest \/ RejectRequest \/ AnswerAccepted
             \/ AnswerRefused \/ NoNodeName \/ NegotiationFailed

MainNext ==
  \/ Negotiate
  \/ CreateThread
  \/ LockInit \/ TestInit \/ SpuriousWakeup \/ Relock \/ UnlockInit
  \/ ReceiveMessage \/ ReceivePayload \/ FrameProcessed
  \/ LockRecover \/ UnlockRecover
  \/ Leave \/ Interrupt \/ InterruptAgain \/ Exit \/ UseDeletedMachine

RunNext ==
  InitializeMachine \/ RunLocks \/ SetInitialized \/ RunUnlocks \/ Signal

SendNext(t) == CallSend(t) \/ SendLocks(t) \/ RejectFrame(t) \/ SendHeader(t)
               \/ SendData(t) \/ SendNotice(t) \/ SendUnlocks(t)

Next == MainNext \/ RunNext \/ (\E t \in Threads : SendNext(t))
        \/ ServerCloses \/ ServerResets

Spec == Init /\ [][Next]_vars

-----------------------------------------------------------------------------
(* Fairness.  A thread that can go on does, and one that waits for the     *)
(* mutex gets it if it is free again and again.  processFrame returns.     *)
(* The server answers requests; nobody has to send, to wake up spuriously, *)
(* to interrupt, or to keep the connection.                                *)

MainFairness ==
  /\ WF_vars(Connect \/ SendRequest \/ AnswerAccepted \/ AnswerRefused
             \/ NegotiationFailed \/ CreateThread)
  /\ WF_vars(TestInit \/ UnlockInit \/ UnlockRecover \/ Leave \/ Exit)
  /\ WF_vars(conn # "up" /\ (ReceiveMessage \/ ReceivePayload))
  /\ SF_vars(FrameProcessed)
  /\ SF_vars(LockInit) /\ SF_vars(Relock) /\ SF_vars(LockRecover)

RunFairness == WF_vars(RunNext) /\ SF_vars(RunLocks)

SendFairness(t) ==
  /\ SF_vars(SendLocks(t))
  /\ WF_vars(SendHeader(t) \/ RejectFrame(t) \/ SendNotice(t) \/ SendData(t)
             \/ SendUnlocks(t))

FairSpec == Spec /\ MainFairness /\ RunFairness
            /\ \A t \in Threads : SendFairness(t)

-----------------------------------------------------------------------------
(* Properties.                                                             *)

\* Every variable holds a value of its kind.
TypeOK ==
  /\ process \in {"running", "exited", "killed"}
  /\ conn \in Conns /\ wire \in Wires /\ session \in BOOLEAN
  /\ mutex \in Threads \cup {Free}
  /\ initialized \in BOOLEAN /\ resuming \in BOOLEAN
  /\ needNewMap \in {-1, 0, 1} /\ newMaps \in 0 .. 2
  /\ mpc \in MainPcs /\ stage \in Requests
  /\ rpc \in RunPcs /\ spc \in [Threads -> SendPcs]

Ended == process # "running" \/ mpc = "destroyed"

\* A thread that is about to put a command on the wire does so on a connection
\* on which the server has started or resumed the simulation, however often the
\* connection was lost while it waited for the mutex of sendFrame.  Only after
\* recoverSimulation has given up, and before the exit, is there no session.
CommandsNeedSession ==
  \A t \in Threads :
    spc[t] \in {"command", "data"} => session \/ mpc = "leave" \/ Ended

\* processFrame never runs before initialize() has returned in the other thread
\* ("after complete initialization", README.md:11), whatever wakes Main up.
InitializedFirst ==
  /\ mpc \in {"message", "payload", "process"} =>
       rpc \in {"unlock", "signal", "run"}
  /\ rpc = "run" => initialized

\* No wakeup is lost, though st_run signals after it has released the mutex
\* (cf.cpp:675): as long as Main sleeps, the signal has still to come.
WakeupNotLost ==
  mpc = "asleep" /\ initialized => rpc \in {"unlock", "signal"}

\* One client creates one map instance: however often the connection is lost and
\* the map selected again, --new is asked for once (needNewMap = 0 in
\* recoverSimulation), and a recovery releases nothing.
NewMapOnce == newMaps <= 1 /\ (resuming => needNewMap = 0)

\* The bytes of each connection: requests in order, then whole frames of one
\* thread at a time (realSendFrame sends header and data separately), nothing
\* between a broken connection and the resumed session.
Channel == INSTANCE FrameChannel WITH
  Threads <- Threads, wire <- wire, session <- session,
  givenUp <- mpc \in {"leave", "destroyed"}

ChannelSpec == Channel!Spec

\* Main gets through the condition wait: no wakeup by st_run is lost, although
\* it signals after it has unlocked the mutex.
StartupCompletes == mpc = "lockInit" ~> (mpc = "message" \/ Ended)

\* Main waits in a recovery, with the mutex, for an answer that will never come.
Deaf == mpc = "answer" /\ conn \in {"eof", "dead"}

\* sendFrame returns, through every recovery, unless the server closes the
\* connection of a recovery before it has answered.
SendersReturn ==
  \A t \in Threads : spc[t] = "lock" ~> (spc[t] = "idle" \/ Ended \/ Deaf)

\* "An IO exception occurred ... Aborting simulation" (cf.cpp:618) and then
\* "Trying to recover the simulation" (cf.cpp:812): a lost connection is noticed
\* by the event loop.
RecoveryStarts ==
  (mpc = "message" /\ conn \in {"eof", "reset", "dead"})
    ~> (mpc = "lockRecover" \/ Ended)
=============================================================================
