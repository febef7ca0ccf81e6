----------------------------- MODULE FrameChannel -----------------------------
(***************************************************************************)
(* What ClientFramework promises to the server about one TCP connection:   *)
(* the requests of the session come first and in order, commands follow    *)
(* only once the server has started the simulation, and the header of a    *)
(* frame is followed by the data of that very frame.  The exception is the *)
(* client that has given up recovering and is about to exit: it may still  *)
(* put frames on a connection that was never resumed.                      *)
(***************************************************************************)
CONSTANT Threads

VARIABLES
  wire,      \* the last item the client put on the connection
  session,   \* has the server confirmed the start on this connection?
  givenUp    \* has the client given the recovery up?

vars == <<wire, session, givenUp>>

Requests == {"signIn", "map", "node", "interfaces", "custom", "start"}
Nothing == <<>>
Asked(r) == <<r>>
Header(t) == <<"header", t>>
Data(t)   == <<"data", t>>
Notice(t) == <<"notice", t>>
Commands  == {Header(t) : t \in Threads} \cup {Data(t) : t \in Threads}
             \cup {Notice(t) : t \in Threads}

\* A command may follow when no frame is half sent.
Complete == wire \notin {Header(t) : t \in Threads}

Init == wire = Nothing /\ ~session /\ ~givenUp

\* The items that a request may come after; a recovery asks for the
\* interfaces and the custom information no more.
MayFollow(request) ==
  CASE request = "signIn" -> {Nothing}
    [] request = "map" -> {Asked("signIn")}
    [] request = "node" -> {Asked("map")}
    [] request = "interfaces" -> {Asked("node")}
    [] request = "custom" -> {Asked("interfaces")}
    [] request = "start" -> {Asked("node"), Asked("custom")}

Request(r) ==
  /\ ~session /\ ~givenUp /\ wire \in MayFollow(r)
  /\ wire' = Asked(r)
  /\ UNCHANGED <<session, givenUp>>

Start ==
  /\ wire = Asked("start") /\ ~session
  /\ session' = TRUE
  /\ UNCHANGED <<wire, givenUp>>

Command(t) ==
  /\ session \/ givenUp
  /\ Complete
  /\ wire' \in {Header(t), Notice(t)}
  /\ UNCHANGED <<session, givenUp>>

FrameData(t) ==
  /\ wire = Header(t)
  /\ wire' = Data(t)
  /\ UNCHANGED <<session, givenUp>>

\* A new connection, or none.
Reconnect ==
  /\ wire' = Nothing /\ session' = FALSE
  /\ UNCHANGED givenUp

\* The client ends: it closes the connection, or has not resumed it.
GiveUp ==
  /\ givenUp' = TRUE /\ session' = FALSE
  /\ wire' = Nothing \/ (~session /\ wire' = wire)

Next ==
  \/ \E r \in Requests : Request(r)
  \/ Start \/ Reconnect \/ GiveUp
  \/ \E t \in Threads : Command(t) \/ FrameData(t)

Spec == Init /\ [][Next]_vars
=============================================================================
