----------------------------- MODULE CliClient -----------------------------
(***************************************************************************)
(* The tunnel client (crates/cli/src/tunnel.rs, and run_tunnel_loop in     *)
(* main.rs): one process that keeps one tunnel.  An attempt opens a        *)
(* control connection, registers and awaits the verdict; a session reads   *)
(* NewConn frames and spawns a data connection for each, which outlives    *)
(* the session.  The server is seen from its connection to the client;     *)
(* ControlPlane models what it does.                                       *)
(***************************************************************************)
EXTENDS Naturals, Sequences

CONSTANTS Ports,       \* public ports of the server
          Visitors,    \* conn_ids
          MaxSignals,  \* bound: times the user presses Ctrl+C
          None         \* no port, no visitor

ASSUME ClientAssumption == None \notin Ports /\ None \notin Visitors /\ MaxSignals \in Nat

\* The failures run_tunnel_loop forgives.
Retries == 3

VARIABLES
  \* the control connection, and the server behind it
  link,      \* none, open, or eof: closed by the server
  inbox,     \* frames written and not read yet
  srvPort,   \* the port acquired for this connection, or None
  holds,     \* ports the server holds for connections of this client
  \* the process
  mode,      \* foreground, or the background worker
  asked,     \* the --remote-port of the command, or None
  pc,        \* the await of run_tunnel_loop and run, or how they ended
  attempts,  \* failures so far
  assigned,  \* the port of the session, or None
  ready,     \* the oneshot ready_tx, which only the first attempt is given
  reported,  \* the port sent through it, or None
  handler,   \* Ctrl+C no longer kills the process
  sigint,    \* the ctrl_c() future of the select has seen one
  signals,   \* number of Ctrl+C pressed
  conn       \* the data connection of each visitor

serverVars == <<link, inbox, srvPort, holds>>
loopVars == <<pc, attempts, assigned, ready, reported>>
signalVars == <<handler, sigint, signals>>
argVars == <<mode, asked>>
clientVars == <<serverVars, loopVars, signalVars, argVars, conn>>

LoopPC == {"idle", "connect", "verdict", "serve", "backoff", "ok", "err", "killed"}
Running == {"connect", "verdict", "serve", "backoff"}
ConnPC == {"none", "notified", "dial", "frame", "local", "spliced", "closed"}
InTask == {"dial", "frame", "local", "spliced"}

Frame == [type : {"registered"}, port : Ports] \cup [type : {"error"}]
           \cup [type : {"new_conn"}, visitor : Visitors]

ClientInit == /\ link = "none"
              /\ inbox = <<>>
              /\ srvPort = None
              /\ holds = {}
              /\ mode \in {"foreground", "worker"}
              /\ asked \in Ports \cup {None}
              /\ pc = IF mode = "foreground" THEN "connect" ELSE "idle"
              /\ attempts = 0
              /\ assigned = None
              /\ ready = IF mode = "worker" THEN "held" ELSE "none"
              /\ reported = None
              /\ handler = FALSE
              /\ sigint = FALSE
              /\ signals = 0
              /\ conn = [v \in Visitors |-> "none"]

-----------------------------------------------------------------------------
(* The server, as handle_cli shows itself to its client *)

Send(frame) == inbox' = Append(inbox, frame)

\* A port that is still held, also by a lost session of this client, is refused.
Accept(p) == /\ link = "open" /\ srvPort = None
             /\ p \notin holds /\ asked \in {p, None}
             /\ srvPort' = p
             /\ holds' = holds \cup {p}
             /\ Send([type |-> "registered", port |-> p])
             /\ UNCHANGED <<link, loopVars, signalVars, argVars, conn>>

Refuse == /\ link = "open" /\ srvPort = None
          /\ link' = "eof"
          /\ Send([type |-> "error"])
          /\ UNCHANGED <<srvPort, holds, loopVars, signalVars, argVars, conn>>

\* The writer of forward_visitor is not that of handle_cli: the first NewConn may
\* come before the verdict.
Notify(v) == /\ link = "open" /\ conn[v] = "none"
             /\ conn' = [conn EXCEPT ![v] = "notified"]
             /\ Send([type |-> "new_conn", visitor |-> v])
             /\ UNCHANGED <<link, srvPort, holds, loopVars, signalVars, argVars>>

\* A DELETE, a restart, a network that breaks: the client cannot tell them apart.
ServerCloses == /\ link = "open"
                /\ link' = "eof"
                /\ UNCHANGED <<inbox, srvPort, holds, loopVars, signalVars, argVars, conn>>

\* The cleanup of a connection that is over, sooner or later.
ReleasePort(p) == /\ p \in holds
                  /\ link # "open" \/ p # srvPort
                  /\ holds' = holds \ {p}
                  /\ UNCHANGED <<link, inbox, srvPort, loopVars, signalVars, argVars, conn>>

Server == \/ Refuse \/ ServerCloses
          \/ \E p \in Ports : Accept(p) \/ ReleasePort(p)
          \/ \E v \in Visitors : Notify(v)

-----------------------------------------------------------------------------
(* run_tunnel_loop and run *)

\* The connection is dropped with what was not read of it.
Disconnect == /\ link' = "none"
              /\ inbox' = <<>>
              /\ srvPort' = None
              /\ assigned' = None
              /\ sigint' = FALSE
              /\ UNCHANGED <<holds, handler, signals, argVars>>

\* The process ends and takes every task with it.
Exit(how) == /\ Disconnect
             /\ pc' = how
             /\ conn' = [v \in Visitors |-> "closed"]
             /\ UNCHANGED <<attempts, reported>>

\* A sender that run was given and did not use is dropped with it.
DropReady == ready' = IF ready = "held" THEN "dropped" ELSE ready

\* Fault for the mutation runs: one retry too many.
AttemptFails_OffByOne ==
  /\ DropReady
  /\ IF attempts <= Retries
     THEN /\ Disconnect
          /\ pc' = "backoff"
          /\ conn' = [v \in Visitors |-> IF conn[v] = "notified" THEN "closed" ELSE conn[v]]
          /\ UNCHANGED <<attempts, reported>>
     ELSE Exit("err")

\* run returns an error: 3 s of sleep and another attempt, or the error is final.
AttemptFails ==
  /\ DropReady
  /\ IF attempts < Retries
     THEN /\ Disconnect
          /\ pc' = "backoff"
          /\ conn' = [v \in Visitors |-> IF conn[v] = "notified" THEN "closed" ELSE conn[v]]
          /\ UNCHANGED <<attempts, reported>>
     ELSE Exit("err")

\* No configuration, no server, no handshake.
ConnectFails == pc = "connect" /\ AttemptFails

\* Connected, and Register sent.
Connect == /\ pc = "connect"
           /\ pc' = "verdict"
           /\ link' = "open"
           /\ UNCHANGED <<inbox, srvPort, holds, attempts, assigned, ready, reported, signalVars, argVars, conn>>

IsNext(type) == inbox # <<>> /\ Head(inbox).type = type

\* Any other first frame than Registered, or none, fails the attempt.
Rejected == /\ pc = "verdict"
            /\ IsNext("error") \/ IsNext("new_conn") \/ (inbox = <<>> /\ link = "eof")
            /\ AttemptFails

\* The port is reported through ready_tx, and the select starts to listen for Ctrl+C.
Registered == /\ pc = "verdict" /\ IsNext("registered")
              /\ pc' = "serve"
              /\ assigned' = Head(inbox).port
              /\ inbox' = Tail(inbox)
              /\ ready' = IF ready = "held" THEN "sent" ELSE ready
              /\ reported' = IF ready = "held" THEN Head(inbox).port ELSE reported
              /\ handler' = TRUE
              /\ UNCHANGED <<link, srvPort, holds, attempts, sigint, signals, argVars, conn>>

\* Every turn of the select makes a new ctrl_c() future: one that has seen the
\* signal and loses the race to a frame is dropped with it.
ServeFrame == /\ pc = "serve" /\ IsNext("new_conn")
              /\ conn' = [conn EXCEPT ![Head(inbox).visitor] = "dial"]
              /\ inbox' = Tail(inbox)
              /\ sigint' = FALSE
              /\ UNCHANGED <<link, srvPort, holds, loopVars, handler, signals, argVars>>

\* Fault: a data connection is awaited in the loop.
ConnectionLost_Inline == /\ pc = "serve" /\ inbox = <<>> /\ link = "eof"
                         /\ \A v \in Visitors : conn[v] \notin InTask
                         /\ AttemptFails

ConnectionLost == /\ pc = "serve" /\ inbox = <<>> /\ link = "eof"
                  /\ AttemptFails

CloseTunnel == pc = "serve" /\ sigint /\ Exit("ok") /\ UNCHANGED ready

Retry == /\ pc = "backoff"
         /\ pc' = "connect"
         /\ attempts' = attempts + 1
         /\ UNCHANGED <<serverVars, assigned, ready, reported, signalVars, argVars, conn>>

Loop == \/ ConnectFails \/ Connect \/ Rejected \/ Registered
        \/ ServeFrame \/ ConnectionLost \/ CloseTunnel \/ Retry

-----------------------------------------------------------------------------
(* handle_data_conn, one task per visitor *)

Step(v, from, to) == /\ conn[v] = from
                     /\ conn' = [conn EXCEPT ![v] = to]
                     /\ UNCHANGED <<serverVars, loopVars, signalVars, argVars>>

\* Dial the data endpoint, announce the conn_id, dial the local service, splice;
\* whichever fails closes the sockets there are.
DataConn(v) == \/ Step(v, "dial", "frame") \/ Step(v, "dial", "closed")
               \/ Step(v, "frame", "local") \/ Step(v, "frame", "closed")
               \/ Step(v, "local", "spliced") \/ Step(v, "local", "closed")

EndSplice(v) == Step(v, "spliced", "closed")

-----------------------------------------------------------------------------
(* The user *)

\* Before the first session Ctrl+C kills the process.  Later the runtime takes it,
\* and only a ctrl_c() future that exists then hears of it.
PressCtrlC ==
  /\ mode = "foreground" /\ pc \in Running /\ signals < MaxSignals
  /\ \/ /\ ~handler
        /\ link' = "none" /\ inbox' = <<>> /\ srvPort' = None
        /\ pc' = "killed" /\ assigned' = None
        /\ conn' = [v \in Visitors |-> "closed"]
        /\ UNCHANGED <<sigint, attempts, ready, reported>>
     \/ /\ handler
        /\ sigint' = (pc = "serve")
        /\ UNCHANGED <<link, inbox, srvPort, loopVars, conn>>
  /\ signals' = signals + 1
  /\ UNCHANGED <<holds, handler, argVars>>

ClientNext == \/ Server \/ Loop \/ PressCtrlC
              \/ \E v \in Visitors : DataConn(v) \/ EndSplice(v)

-----------------------------------------------------------------------------
(* Properties *)

ClientTypeOK == /\ link \in {"none", "open", "eof"}
                /\ inbox \in Seq(Frame)
                /\ srvPort \in Ports \cup {None}
                /\ holds \subseteq Ports
                /\ mode \in {"foreground", "worker"}
                /\ asked \in Ports \cup {None}
                /\ pc \in LoopPC
                /\ attempts \in 0 .. Retries
                /\ assigned \in Ports \cup {None}
                /\ ready \in {"none", "held", "sent", "dropped"}
                /\ reported \in Ports \cup {None}
                /\ handler \in BOOLEAN
                /\ sigint \in BOOLEAN
                /\ signals \in 0 .. MaxSignals
                /\ conn \in [Visitors -> ConnPC]

\* A session the server has ended is noticed, whatever the data connections do: a
\* local service that never answers does not keep the control loop.
LossNoticed == pc = "serve" /\ link = "eof" ~> pc # "serve"

\* run_tunnel_loop implements TunnelCommand.
Command == INSTANCE TunnelCommand WITH
  phase <- CASE pc \in {"idle", "connect", "verdict"} -> "trying"
             [] pc = "serve" -> "up"
             [] pc = "backoff" -> "waiting"
             [] pc = "ok" -> "closed"
             [] pc = "err" -> "error"
             [] pc = "killed" -> "killed"

ImplementsTunnelCommand == Command!Spec

=============================================================================
