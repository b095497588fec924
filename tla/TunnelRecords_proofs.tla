------------------------ MODULE TunnelRecords_proofs ------------------------
(***************************************************************************)
(* Proofs about the tunnel client and the record of a background tunnel,   *)
(* for any number of ports, visitors and `stop` commands.                  *)
(*                                                                         *)
(* The file has no lock: RecordInv says which command or task has left it  *)
(* as it is, and LoopInv what run_tunnel_loop needs to be TunnelCommand.   *)
(***************************************************************************)
EXTENDS TunnelRecords, TLAPS

\* The tunnel loop runs in the worker from the first poll of its select on.
NotArmed == {"none", "load", "create", "write", "arm"}

LoopInv == /\ mode = "foreground" => worker = "none" /\ detach = "failed"
           /\ mode = "worker" /\ worker \in NotArmed => pc = "idle"
           /\ pc = "backoff" => attempts < Retries

\* What a save that is under way writes has been loaded.
SaveInv == /\ worker \in {"create", "write"} => loaded \in Record
           /\ readyTask \in {"create", "write"} => copy \in Record

\* The worker is spawned after the record was written, and its task after its own save.
OrderInv == /\ worker # "none" => detach = "done"
            /\ worker \in NotArmed => readyTask = "none"
            /\ crashed => worker = "over"

\* A stop has read the record before the worker's pid was in it.
EarlyStop == \E s \in Stops : stop[s] # "idle" /\ seen[s] = NoPid
Removing == \E s \in Stops : stop[s] \in {"exists", "unlink"}

FileInv ==
  /\ file = Torn => detach = "write" \/ worker = "write" \/ readyTask = "write" \/ crashed
  /\ IsWhole /\ file.record.pid = WorkerPid => worker # "none"
  /\ file = Absent => \/ detach = "create" \/ mode = "foreground"
                      \/ worker \in {"exists", "unlink", "over"}
                      \/ term \/ EarlyStop

\* A stop that removes the record has signalled the worker, or found no pid.
StopInv ==
  /\ \A s \in Stops : stop[s] \in {"exists", "unlink", "done"} => seen[s] = NoPid \/ term
  /\ term \/ (\E s \in Stops : stop[s] = "kill") => detach = "done"
  /\ term => file = Absent \/ revived \/ Removing

OverInv == worker = "over" => file = Absent \/ crashed \/ revived \/ Removing

RecordInv == SaveInv /\ OrderInv /\ FileInv /\ StopInv /\ OverInv

IndInv == TypeOK /\ LoopInv /\ RecordInv

-----------------------------------------------------------------------------
(* Types *)

\* A connection that is dropped leaves the types of the others.
LEMMA DisconnectTypes ==
  ASSUME ClientTypeOK, Disconnect, pc' \in LoopPC, conn' \in [Visitors -> ConnPC],
         attempts' = attempts, reported' = reported,
         ready' \in {"none", "held", "sent", "dropped"}
  PROVE  ClientTypeOK'
<1>1. link' \in {"none", "open", "eof"} /\ inbox' \in Seq(Frame)
  BY DEF Disconnect
<1>2. srvPort' \in Ports \cup {None} /\ assigned' \in Ports \cup {None} /\ sigint' \in BOOLEAN
  BY DEF Disconnect
<1>3. /\ holds' \subseteq Ports /\ signals' \in 0 .. MaxSignals
      /\ mode' \in {"foreground", "worker"} /\ asked' \in Ports \cup {None}
  BY DEF Disconnect, ClientTypeOK, argVars
<1>4. handler' \in BOOLEAN
  BY DEF Disconnect, ClientTypeOK
<1>5. attempts' \in 0 .. Retries /\ reported' \in Ports \cup {None}
  BY DEF ClientTypeOK
<1> QED BY <1>1, <1>2, <1>3, <1>4, <1>5 DEF ClientTypeOK

\* What Disconnect, Exit and AttemptFails do to the types.
LEMMA AttemptTypes ==
  ASSUME ClientTypeOK, AttemptFails
  PROVE  /\ ClientTypeOK'
         /\ pc' \in {"backoff", "err"} /\ UNCHANGED <<mode, attempts>>
         /\ pc' = IF attempts < Retries THEN "backoff" ELSE "err"
<1>1. /\ Disconnect /\ pc' = IF attempts < Retries THEN "backoff" ELSE "err"
      /\ attempts' = attempts /\ reported' = reported
  BY DEF AttemptFails, Exit
<1>2. ready' \in {"none", "held", "sent", "dropped"}
  BY DEF AttemptFails, DropReady, ClientTypeOK
<1>3. conn' \in [Visitors -> ConnPC]
  BY DEF AttemptFails, Exit, ClientTypeOK, ConnPC
<1>4. pc' \in LoopPC /\ pc' \in {"backoff", "err"}
  BY <1>1 DEF LoopPC
<1>5. ClientTypeOK'
  BY <1>1, <1>2, <1>3, <1>4, DisconnectTypes
<1> QED BY <1>1, <1>4, <1>5 DEF Disconnect, argVars

\* A frame of the server.
LEMMA FrameTypes ==
  ASSUME inbox \in Seq(Frame), inbox # <<>>
  PROVE  /\ Tail(inbox) \in Seq(Frame) /\ Head(inbox) \in Frame
         /\ Head(inbox).type = "registered" => Head(inbox).port \in Ports
         /\ Head(inbox).type = "new_conn" => Head(inbox).visitor \in Visitors
<1>1. Tail(inbox) \in Seq(Frame) /\ Head(inbox) \in Frame
  OBVIOUS
<1> QED BY <1>1 DEF Frame

\* Every variable of the client keeps its type.
LEMMA ClientTypes ==
  ASSUME ClientTypeOK, pc = "backoff" => attempts < Retries, ClientNext
  PROVE  ClientTypeOK'
<1> USE DEF clientVars, serverVars, loopVars, signalVars, argVars
<1>1. ASSUME NEW p \in Ports, Accept(p) PROVE ClientTypeOK'
  BY <1>1 DEF Accept, Send, ClientTypeOK, Frame
<1>2. CASE Refuse
  BY <1>2 DEF Refuse, Send, ClientTypeOK, Frame
<1>3. ASSUME NEW v \in Visitors, Notify(v) PROVE ClientTypeOK'
  BY <1>3 DEF Notify, Send, ClientTypeOK, Frame, ConnPC
<1>4. CASE ServerCloses
  BY <1>4 DEF ServerCloses, ClientTypeOK
<1>5. ASSUME NEW p \in Ports, ReleasePort(p) PROVE ClientTypeOK'
  BY <1>5 DEF ReleasePort, ClientTypeOK
<1>6. CASE ConnectFails \/ Rejected \/ ConnectionLost
  BY <1>6, AttemptTypes DEF ConnectFails, Rejected, ConnectionLost
<1>7. CASE Connect
  BY <1>7 DEF Connect, ClientTypeOK, LoopPC
<1>8. CASE Registered
  <2>1. Tail(inbox) \in Seq(Frame) /\ Head(inbox).port \in Ports
    BY <1>8, FrameTypes DEF Registered, IsNext, ClientTypeOK
  <2> QED BY <1>8, <2>1 DEF Registered, ClientTypeOK, LoopPC
<1>9. CASE ServeFrame
  <2>1. Tail(inbox) \in Seq(Frame) /\ Head(inbox).visitor \in Visitors
    BY <1>9, FrameTypes DEF ServeFrame, IsNext, ClientTypeOK
  <2> QED BY <1>9, <2>1 DEF ServeFrame, ClientTypeOK, ConnPC
<1>10. CASE CloseTunnel
  <2>1. Disconnect /\ UNCHANGED <<attempts, reported, ready>> /\ pc' = "ok"
    BY <1>10 DEF CloseTunnel, Exit
  <2>2. conn' \in [Visitors -> ConnPC]
    BY <1>10 DEF CloseTunnel, Exit, ConnPC
  <2> QED BY <2>1, <2>2, DisconnectTypes DEF ClientTypeOK, LoopPC
<1>11. CASE Retry
  BY <1>11 DEF Retry, ClientTypeOK, LoopPC, Retries
<1>12. CASE PressCtrlC
  <2>1. /\ signals' \in 0 .. MaxSignals
        /\ UNCHANGED <<holds, handler, mode, asked, attempts, ready, reported>>
    BY <1>12, ClientAssumption DEF PressCtrlC, ClientTypeOK
  <2>2. /\ link' \in {"none", "open", "eof"} /\ inbox' \in Seq(Frame)
        /\ srvPort' \in Ports \cup {None} /\ assigned' \in Ports \cup {None}
        /\ pc' \in LoopPC
    <3>1. CASE UNCHANGED <<link, inbox, srvPort, assigned, pc>>
      BY <3>1 DEF ClientTypeOK
    <3>2. CASE /\ link' = "none" /\ inbox' = <<>> /\ srvPort' = None
               /\ assigned' = None /\ pc' = "killed"
      BY <3>2 DEF LoopPC
    <3> QED BY <1>12, <3>1, <3>2, Zenon DEF PressCtrlC
  <2>3. conn' \in [Visitors -> ConnPC]
    BY <1>12 DEF PressCtrlC, ClientTypeOK, ConnPC
  <2>4. sigint' \in BOOLEAN
    <3>1. sigint' = sigint \/ sigint' = (pc = "serve")
      BY <1>12, Zenon DEF PressCtrlC
    <3> QED BY <3>1 DEF ClientTypeOK
  <2>5. handler' \in BOOLEAN
    BY <2>1 DEF ClientTypeOK
  <2> QED BY <2>1, <2>2, <2>3, <2>4, <2>5 DEF ClientTypeOK
<1>13. ASSUME NEW v \in Visitors, DataConn(v) \/ EndSplice(v) PROVE ClientTypeOK'
  BY <1>13 DEF DataConn, EndSplice, Step, ClientTypeOK, ConnPC
<1> QED BY <1>1, <1>2, <1>3, <1>4, <1>5, <1>6, <1>7, <1>8, <1>9, <1>10, <1>11, <1>12, <1>13
        DEF ClientNext, Server, Loop

\* The end of the process, whoever brings it.
LEMMA CancelledTypes ==
  ASSUME ClientTypeOK, Cancelled
  PROVE  ClientTypeOK'
<1>1. Disconnect /\ UNCHANGED <<attempts, reported, ready>>
  BY DEF Cancelled
<1>2. pc' \in LoopPC /\ conn' \in [Visitors -> ConnPC]
  BY DEF Cancelled, ClientTypeOK, LoopPC, ConnPC
<1> QED BY <1>1, <1>2, DisconnectTypes DEF ClientTypeOK

\* A write of a record leaves a record, or no file.
LEMMA WriteTypes ==
  ASSUME NEW record \in Record, Write(record)
  PROVE  /\ file' \in {Absent} \cup {Whole(r) : r \in Record}
         /\ revived' = revived
  BY DEF Write

\* The part of TypeOK that the client does not have.
RecordTypeOK ==
  /\ file \in {Absent, Torn} \cup {Whole(r) : r \in Record} /\ revived \in BOOLEAN
  /\ detach \in {"create", "write", "spawn", "done", "failed"}
  /\ worker \in WorkerPC /\ loaded \in Record \cup {None}
  /\ readyTask \in {"none", "await", "create", "write", "over"} /\ copy \in Record \cup {None}
  /\ term \in BOOLEAN /\ crashed \in BOOLEAN
  /\ stop \in [Stops -> {"idle", "kill", "exists", "unlink", "done", "error"}]
  /\ seen \in [Stops -> {NoPid, WorkerPid, None}]

\* The variables of the client keep their types in every step.
LEMMA ClientTypesKept ==
  ASSUME TypeOK, LoopInv, [Next]_vars
  PROVE  ClientTypeOK'
<1>1. CASE ClientNext
  BY <1>1, ClientTypes DEF TypeOK, LoopInv
<1>2. CASE UNCHANGED clientVars
  BY <1>2 DEF TypeOK, ClientTypeOK, clientVars, serverVars, loopVars, signalVars, argVars
<1>3. CASE Cancelled
  <2>1. UNCHANGED argVars
    BY <1>3 DEF Cancelled, Disconnect
  <2> QED BY <1>3, <2>1, CancelledTypes DEF TypeOK
<1>4. CASE Arm
  BY <1>4 DEF Arm, TypeOK, ClientTypeOK, LoopPC, serverVars, signalVars, argVars
<1>5. Detach => UNCHANGED clientVars
  BY DEF Detach, DetachCreates, DetachWrites, Spawn, DetachStep
<1>6. ReadyTask => UNCHANGED clientVars
  BY DEF ReadyTask, ReadyDropped, ReadyLoads, ReadyCreates, ReadyWrites, ReadyStep
<1>7. \A s \in Stops : StopLoads(s) \/ Stop(s) => UNCHANGED clientVars
  BY DEF StopLoads, Stop, Kill, StopRemoves, StopStep
<1>8. Worker => UNCHANGED clientVars \/ Cancelled \/ Arm
  BY DEF Worker, WorkerLoads, WorkerCreates, WorkerWrites, Shutdown, LoopEnds, WorkerRemoves,
         TermKills
<1> QED BY <1>1, <1>2, <1>3, <1>4, <1>5, <1>6, <1>7, <1>8 DEF Next, Crash, vars

\* So do those of the record, the worker and the commands.
LEMMA RecordTypesKept ==
  ASSUME TypeOK, SaveInv, [Next]_vars
  PROVE  RecordTypeOK'
<1> USE DEF recordVars, workerVars, stopVars, readyVars, RecordTypeOK, WorkerPC
<1>1. RecordTypeOK /\ ClientTypeOK
  BY DEF TypeOK
<1> DEFINE FileTypes == {Absent, Torn} \cup {Whole(r) : r \in Record}
<1>2. SaveAgain => file' \in FileTypes /\ revived' \in BOOLEAN
  <2>1. SaveAgain => revived' = (revived \/ file = Absent)
    BY DEF SaveAgain
  <2>2. SaveAgain => file' = Torn
    BY DEF SaveAgain, Truncate
  <2> QED BY <2>1, <2>2, <1>1
<1>3. Unlink => file' \in FileTypes /\ revived' \in BOOLEAN
  BY <1>1 DEF Unlink
<1>4. \A r \in Record : Write(r) => file' \in FileTypes /\ revived' \in BOOLEAN
  BY <1>1, WriteTypes
<1>5. IsWhole => file.record \in Record
  BY <1>1 DEF IsWhole, Absent, Torn, Whole
<1>6. CASE UNCHANGED <<recordVars, detach, workerVars, readyVars, stopVars>>
  BY <1>1, <1>6
<1>7. CASE DetachCreates
  BY <1>1, <1>7 DEF DetachCreates, DetachStep, Truncate
<1>8. CASE DetachWrites
  <2>1. [pid |-> NoPid, state |-> "starting", remote_port |-> asked] \in Record
    BY <1>1 DEF Record, ClientTypeOK
  <2>2. file' \in FileTypes /\ revived' \in BOOLEAN
    BY <1>8, <2>1, <1>4 DEF DetachWrites
  <2> QED BY <1>1, <1>8, <2>2 DEF DetachWrites, DetachStep
<1>9. CASE Spawn
  BY <1>1, <1>9 DEF Spawn, DetachStep
<1>10. CASE WorkerLoads
  BY <1>1, <1>5, <1>10 DEF WorkerLoads, WorkerStep
<1>11. CASE WorkerCreates
  BY <1>1, <1>2, <1>11 DEF WorkerCreates, WorkerStep
<1>12. CASE WorkerWrites
  <2>1. [loaded EXCEPT !.pid = WorkerPid, !.state = "starting"] \in Record
    BY <1>12 DEF SaveInv, WorkerWrites, WorkerStep, Record
  <2>2. file' \in FileTypes /\ revived' \in BOOLEAN
    BY <1>12, <2>1, <1>4 DEF WorkerWrites
  <2> QED BY <1>1, <1>12, <2>2 DEF WorkerWrites, WorkerStep
<1>13. CASE Arm
  BY <1>1, <1>13 DEF Arm, WorkerStep
<1>14. CASE Shutdown \/ LoopEnds \/ TermKills
  BY <1>1, <1>14 DEF Shutdown, LoopEnds, TermKills, WorkerStep
<1>15. CASE WorkerRemoves
  BY <1>1, <1>3, <1>15 DEF WorkerRemoves, WorkerStep, Ends
<1>16. CASE Crash
  BY <1>1, <1>16 DEF Crash
<1>17. CASE ReadyDropped
  BY <1>1, <1>17 DEF ReadyDropped, ReadyStep
<1>18. CASE ReadyLoads
  BY <1>1, <1>5, <1>18 DEF ReadyLoads, ReadyStep
<1>19. CASE ReadyCreates
  BY <1>1, <1>2, <1>19 DEF ReadyCreates, ReadyStep
<1>20. CASE ReadyWrites
  <2>1. [copy EXCEPT !.state = "active", !.remote_port = reported] \in Record
    BY <1>1, <1>20 DEF SaveInv, ReadyWrites, ReadyStep, Record, ClientTypeOK
  <2>2. file' \in FileTypes /\ revived' \in BOOLEAN
    BY <1>20, <2>1, <1>4 DEF ReadyWrites
  <2> QED BY <1>1, <1>20, <2>2 DEF ReadyWrites, ReadyStep
<1>21. ASSUME NEW s \in Stops, StopLoads(s) PROVE RecordTypeOK'
  <2>1. IsWhole => file.record.pid \in {NoPid, WorkerPid}
    BY <1>5 DEF Record
  <2> QED BY <1>1, <1>21, <2>1 DEF StopLoads, StopStep
<1>22. ASSUME NEW s \in Stops, Kill(s) PROVE RecordTypeOK'
  BY <1>1, <1>22 DEF Kill, StopStep
<1>23. ASSUME NEW s \in Stops, StopRemoves(s) PROVE RecordTypeOK'
  BY <1>1, <1>3, <1>23 DEF StopRemoves, StopStep
<1> QED BY <1>6, <1>7, <1>8, <1>9, <1>10, <1>11, <1>12, <1>13, <1>14, <1>15, <1>16, <1>17, <1>18,
           <1>19, <1>20, <1>21, <1>22, <1>23
        DEF Next, vars, Detach, Worker, ReadyTask, Stop

-----------------------------------------------------------------------------
(* The tunnel loop *)

\* The loop of a background tunnel begins when the worker is armed, and an attempt is
\* forgiven three times.
LEMMA LoopKept ==
  ASSUME TypeOK, LoopInv, OrderInv, [Next]_vars
  PROVE  LoopInv'
<1>1. CASE ClientNext /\ UNCHANGED <<detach, workerVars>>
  <2>1. UNCHANGED argVars /\ (pc = "idle" /\ mode = "worker" => pc' = "idle")
    BY <1>1 DEF ClientNext, Server, Accept, Refuse, Notify, ServerCloses, ReleasePort, Loop,
       ConnectFails, Connect, Rejected, Registered, ServeFrame, ConnectionLost, CloseTunnel, Retry,
       AttemptFails, Exit, Disconnect, PressCtrlC, DataConn, EndSplice, Step, loopVars, argVars
  <2>2. pc' = "backoff" => attempts' < Retries
    BY <1>1 DEF LoopInv, ClientNext, Server, Accept, Refuse, Notify, ServerCloses, ReleasePort,
       Loop, ConnectFails, Connect, Rejected, Registered, ServeFrame, ConnectionLost, CloseTunnel,
       Retry, AttemptFails, Exit, Disconnect, PressCtrlC, DataConn, EndSplice, Step, loopVars
  <2> QED BY <1>1, <2>1, <2>2 DEF LoopInv, workerVars, argVars
<1>2. CASE UNCHANGED clientVars
  <2>1. mode = "foreground" => worker' = "none" /\ detach' = "failed"
    BY <1>2 DEF LoopInv, Next, Detach, DetachCreates, DetachWrites, Spawn, DetachStep, Worker,
       WorkerLoads, WorkerCreates, WorkerWrites, Arm, Shutdown, LoopEnds, WorkerRemoves, TermKills,
       WorkerStep, Crash, ReadyTask, ReadyDropped, ReadyLoads, ReadyCreates, ReadyWrites, ReadyStep,
       StopLoads, Stop, Kill, StopRemoves, StopStep, vars, workerVars
  <2>2. worker' \in NotArmed => worker \in NotArmed
    <3>1. Worker \/ Crash => (worker' \in NotArmed => worker \in NotArmed)
      BY DEF Worker, WorkerLoads, WorkerCreates, WorkerWrites, Arm, Shutdown, LoopEnds,
             WorkerRemoves, TermKills, WorkerStep, Crash, NotArmed
    <3>2. Detach => worker' = worker \/ worker = "none"
      BY <1>2 DEF Detach, DetachCreates, DetachWrites, Spawn, DetachStep, OrderInv
    <3>3. ReadyTask => worker' = worker
      BY DEF ReadyTask, ReadyDropped, ReadyLoads, ReadyCreates, ReadyWrites, ReadyStep, workerVars
    <3>4. \A s \in Stops : StopLoads(s) \/ Stop(s) => worker' = worker
      BY DEF StopLoads, Stop, Kill, StopRemoves, StopStep
    <3> QED BY <3>1, <3>2, <3>3, <3>4 DEF Next, vars, workerVars, NotArmed
  <2> QED BY <1>2, <2>1, <2>2 DEF LoopInv, clientVars, argVars, loopVars
<1>3. CASE Arm \/ Shutdown \/ Crash
  <2>1. /\ worker # "none" /\ worker' \notin NotArmed /\ UNCHANGED <<mode, detach>>
        /\ pc' # "backoff"
    BY <1>3 DEF Arm, Shutdown, Crash, WorkerStep, Cancelled, Disconnect, NotArmed, argVars
  <2> QED BY <2>1 DEF LoopInv, TypeOK, ClientTypeOK
<1>4. Detach \/ ReadyTask => UNCHANGED clientVars
  BY DEF Detach, DetachCreates, DetachWrites, Spawn, DetachStep,
         ReadyTask, ReadyDropped, ReadyLoads, ReadyCreates, ReadyWrites, ReadyStep
<1>5. \A s \in Stops : StopLoads(s) \/ Stop(s) => UNCHANGED clientVars
  BY DEF StopLoads, Stop, Kill, StopRemoves, StopStep
<1>6. Worker => UNCHANGED clientVars \/ Arm \/ Shutdown
  BY DEF Worker, WorkerLoads, WorkerCreates, WorkerWrites, LoopEnds, WorkerRemoves, TermKills
<1> QED BY <1>1, <1>2, <1>3, <1>4, <1>5, <1>6 DEF Next, vars

-----------------------------------------------------------------------------
(* The record *)

\* Who may be writing the file, and what it has read before.
LEMMA OrderKept ==
  ASSUME TypeOK, LoopInv, SaveInv, OrderInv, [Next]_vars
  PROVE  SaveInv' /\ OrderInv'
<1> USE DEF recordVars, workerVars, stopVars, readyVars
<1>1. CASE UNCHANGED <<detach, workerVars, readyVars>>
  BY <1>1 DEF SaveInv, OrderInv
<1>2. CASE Detach
  BY <1>2 DEF Detach, DetachCreates, DetachWrites, Spawn, DetachStep, SaveInv, OrderInv, NotArmed
<1>3. CASE WorkerLoads
  <2>1. IsWhole => file.record \in Record
    BY DEF TypeOK, IsWhole, Absent, Torn, Whole
  <2> QED BY <1>3, <2>1 DEF WorkerLoads, WorkerStep, SaveInv, OrderInv, NotArmed
<1>4. CASE WorkerCreates \/ WorkerWrites
  BY <1>4 DEF WorkerCreates, WorkerWrites, WorkerStep, SaveInv, OrderInv, NotArmed
<1>5. CASE Arm
  BY <1>5 DEF Arm, WorkerStep, SaveInv, OrderInv, NotArmed
<1>6. CASE Shutdown \/ LoopEnds \/ TermKills
  BY <1>6 DEF Shutdown, LoopEnds, TermKills, WorkerStep, SaveInv, OrderInv, NotArmed
<1>7. CASE WorkerRemoves
  BY <1>7 DEF WorkerRemoves, WorkerStep, Ends, SaveInv, OrderInv, NotArmed
<1>8. CASE Crash
  BY <1>8 DEF Crash, SaveInv, OrderInv, NotArmed
<1>9. CASE ReadyTask
  <2>1. IsWhole => file.record \in Record
    BY DEF TypeOK, IsWhole, Absent, Torn, Whole
  <2> QED BY <1>9, <2>1 DEF ReadyTask, ReadyDropped, ReadyLoads, ReadyCreates, ReadyWrites,
             ReadyStep, SaveInv, OrderInv, NotArmed
<1>10. \A s \in Stops : StopLoads(s) \/ Stop(s)
                        => UNCHANGED <<detach, worker, crashed, loaded, readyVars>>
  BY DEF StopLoads, Stop, Kill, StopRemoves, StopStep
<1>11. CASE \E s \in Stops : StopLoads(s) \/ Stop(s)
  BY <1>10, <1>11 DEF SaveInv, OrderInv
<1> QED BY <1>1, <1>2, <1>3, <1>4, <1>5, <1>6, <1>7, <1>8, <1>9, <1>11 DEF Next, vars, Worker

\* A save leaves a record, or no file; its pid is the one that was written.
LEMMA WriteLeaves ==
  ASSUME NEW record, Write(record)
  PROVE  /\ revived' = revived
         /\ file = Absent => file' = Absent
         /\ file # Absent => IsWhole' /\ file'.record = record
         /\ file' # Torn
         /\ file' = Absent => file = Absent
  BY DEF Write, Absent, Torn, Whole, IsWhole

\* The file is explained by what the commands and the worker have done: a step of the
\* detaching command, of the worker and its task.
LEMMA RecordKeptByWorker ==
  ASSUME TypeOK, LoopInv, RecordInv, Detach \/ Worker \/ Crash \/ ReadyTask
  PROVE  FileInv' /\ StopInv' /\ OverInv'
<1> USE DEF RecordInv, recordVars, workerVars, stopVars, readyVars, EarlyStop, Removing
<1>1. CASE DetachCreates
  BY <1>1 DEF DetachCreates, DetachStep, Truncate, OrderInv, FileInv, StopInv, OverInv, IsWhole,
              Absent, Torn
<1>2. CASE DetachWrites
  <2>1. /\ UNCHANGED <<clientVars, worker, workerVars, readyVars, stopVars>>
        /\ detach = "write" /\ detach' = "spawn"
    BY <1>2 DEF DetachWrites, DetachStep
  <2>2. /\ revived' = revived /\ (file = Absent => file' = Absent) /\ file' # Torn
        /\ file # Absent => IsWhole' /\ file'.record.pid = NoPid
        /\ file' = Absent => file = Absent
    BY <1>2, WriteLeaves DEF DetachWrites
  <2> QED BY <2>1, <2>2 DEF OrderInv, FileInv, StopInv, OverInv, clientVars, argVars, IsWhole,
             Absent, NoPid, WorkerPid
<1>3. CASE Spawn
  BY <1>3 DEF Spawn, DetachStep, OrderInv, LoopInv, FileInv, StopInv, OverInv, clientVars, argVars,
              IsWhole
<1>4. CASE WorkerLoads
  BY <1>4 DEF WorkerLoads, WorkerStep, OrderInv, FileInv, StopInv, OverInv, clientVars, argVars,
              IsWhole, TypeOK, NotArmed, Absent, Torn, Whole
<1>5. CASE WorkerCreates
  BY <1>5 DEF WorkerCreates, WorkerStep, SaveAgain, Truncate, OrderInv, FileInv, StopInv, OverInv,
              clientVars, argVars, IsWhole, Absent, Torn
<1>6. CASE WorkerWrites
  <2>1. /\ UNCHANGED <<clientVars, detach, term, crashed, readyVars, stopVars>>
        /\ worker = "write" /\ worker' = "arm"
    BY <1>6 DEF WorkerWrites, WorkerStep
  <2>2. /\ revived' = revived /\ (file = Absent => file' = Absent) /\ file' # Torn
        /\ file' = Absent => file = Absent
    BY <1>6, WriteLeaves DEF WorkerWrites
  <2> QED BY <2>1, <2>2 DEF OrderInv, FileInv, StopInv, OverInv, clientVars, argVars
<1>7. CASE Arm
  BY <1>7 DEF Arm, WorkerStep, OrderInv, FileInv, StopInv, OverInv, argVars, IsWhole, NotArmed
<1>8. CASE Shutdown \/ LoopEnds
  <2>1. /\ UNCHANGED <<mode, recordVars, detach, term, crashed, readyVars, stopVars>>
        /\ worker = "run" /\ worker' = "exists"
    BY <1>8 DEF Shutdown, LoopEnds, WorkerStep, Cancelled, Disconnect, argVars, clientVars
  <2> QED BY <2>1 DEF FileInv, StopInv, OverInv, IsWhole
<1>9. CASE TermKills
  BY <1>9 DEF TermKills, WorkerStep, FileInv, StopInv, OverInv, IsWhole, clientVars, argVars
<1>10. CASE WorkerRemoves
  <2>1. CASE UNCHANGED recordVars
    BY <1>10, <2>1 DEF WorkerRemoves, WorkerStep, Ends, FileInv, StopInv, OverInv, IsWhole,
          clientVars, argVars, Unlink
  <2>2. CASE Unlink /\ worker' = "over"
    BY <1>10, <2>2 DEF WorkerRemoves, WorkerStep, Ends, FileInv, StopInv, OverInv, IsWhole,
          clientVars, argVars, Unlink, Absent, Torn, OrderInv
  <2> QED BY <1>10, <2>1, <2>2 DEF WorkerRemoves, WorkerStep
<1>11. CASE Crash
  <2>1. UNCHANGED <<mode, recordVars, detach, term, stopVars>> /\ worker' = "over" /\ crashed'
    BY <1>11 DEF Crash, Cancelled, Disconnect, argVars
  <2> QED BY <2>1 DEF FileInv, StopInv, OverInv, IsWhole
<1>12. CASE ReadyDropped \/ ReadyLoads
  BY <1>12 DEF ReadyDropped, ReadyLoads, ReadyStep, FileInv, StopInv, OverInv, IsWhole, clientVars,
          argVars
<1>13. CASE ReadyCreates
  BY <1>13 DEF ReadyCreates, ReadyStep, SaveAgain, Truncate, FileInv, StopInv, OverInv, IsWhole,
          clientVars, argVars, Absent, Torn
<1>14. CASE ReadyWrites
  <2>1. /\ UNCHANGED <<clientVars, detach, workerVars, stopVars>>
        /\ readyTask = "write" /\ readyTask' = "over"
    BY <1>14 DEF ReadyWrites, ReadyStep
  <2>2. /\ revived' = revived /\ (file = Absent => file' = Absent) /\ file' # Torn
        /\ file' = Absent => file = Absent
    BY <1>14, WriteLeaves DEF ReadyWrites
  <2>3. worker # "none"
    BY <2>1 DEF OrderInv, NotArmed
  <2> QED BY <2>1, <2>2, <2>3 DEF FileInv, StopInv, OverInv, clientVars, argVars
<1> QED BY <1>1, <1>2, <1>3, <1>4, <1>5, <1>6, <1>7, <1>8, <1>9, <1>10, <1>11, <1>12, <1>13, <1>14
        DEF Detach, Worker, ReadyTask

\* ... and a step of a stop.
LEMMA RecordKeptByStops ==
  ASSUME TypeOK, LoopInv, RecordInv, NEW s \in Stops, StopLoads(s) \/ Stop(s)
  PROVE  FileInv' /\ StopInv' /\ OverInv'
<1> USE DEF RecordInv, recordVars, workerVars, stopVars, readyVars
<1>1. /\ UNCHANGED <<mode, detach, worker, loaded, crashed, readyVars>>
      /\ stop'[s] # "idle"
      /\ \A u \in Stops : u # s => stop'[u] = stop[u] /\ seen'[u] = seen[u]
      /\ stop[s] # "idle" => seen'[s] = seen[s]
  BY DEF StopLoads, Stop, Kill, StopRemoves, StopStep, TypeOK, clientVars, argVars
<1>2. EarlyStop => EarlyStop'
  BY <1>1 DEF EarlyStop
<1>3. \A u \in Stops : u # s /\ stop[u] \in {"exists", "unlink"} => Removing'
  BY <1>1 DEF Removing
<1>4. CASE StopLoads(s)
  <2>1. /\ UNCHANGED <<recordVars, term>>
        /\ stop'[s] \in {"kill", "exists"} => seen'[s] = file.record.pid
        /\ stop'[s] = "kill" => IsWhole /\ file.record.pid # NoPid
        /\ stop'[s] = "exists" => file.record.pid = NoPid
        /\ stop[s] = "idle" /\ stop'[s] \in {"kill", "exists", "error"}
    BY <1>4 DEF StopLoads, StopStep, TypeOK
  <2>2. stop'[s] = "kill" => detach = "done"
    <3>1. IsWhole => file.record.pid \in {NoPid, WorkerPid}
      BY DEF TypeOK, Record, IsWhole, Absent, Torn, Whole
    <3> QED BY <2>1, <3>1 DEF FileInv, OrderInv
  <2>3. Removing => Removing'
    BY <1>3, <2>1 DEF Removing
  <2>4. FileInv'
    BY <1>1, <1>2, <2>1 DEF FileInv, IsWhole
  <2>5. StopInv'
    BY <1>1, <2>1, <2>2, <2>3 DEF StopInv
  <2> QED BY <1>1, <2>1, <2>3, <2>4, <2>5 DEF OverInv
<1>5. CASE Kill(s)
  <2>1. /\ UNCHANGED <<recordVars, seen>> /\ term' = TRUE
        /\ stop[s] = "kill" /\ stop'[s] = "exists"
    BY <1>5 DEF Kill, StopStep, TypeOK
  <2>2. Removing'
    BY <2>1 DEF Removing
  <2>3. FileInv'
    BY <1>1, <1>2, <2>1 DEF FileInv, IsWhole
  <2>4. StopInv'
    BY <1>1, <2>1, <2>2 DEF StopInv
  <2> QED BY <1>1, <2>1, <2>2, <2>3, <2>4 DEF OverInv
<1>6. CASE StopRemoves(s)
  <2>1. /\ UNCHANGED <<term, seen, revived>> /\ (file' = file \/ file' = Absent)
        /\ stop[s] \in {"exists", "unlink"} /\ stop'[s] \in {"unlink", "done", "error"}
        /\ stop[s] = "unlink" \/ file' = file
        /\ stop'[s] = "error" => file' = file /\ stop[s] = "unlink"
        /\ stop'[s] = "unlink" \/ file' = Absent
    BY <1>6 DEF StopRemoves, StopStep, TypeOK, Unlink
  <2>2. Removing => Removing' \/ file' = Absent
    BY <1>3, <2>1 DEF Removing
  <2>3. term \/ EarlyStop
    BY <2>1 DEF StopInv, EarlyStop
  <2>4. FileInv'
    BY <1>1, <1>2, <2>1, <2>3 DEF FileInv, IsWhole, Absent, Torn
  <2>5. StopInv'
    BY <1>1, <2>1, <2>2 DEF StopInv
  <2> QED BY <1>1, <2>1, <2>2, <2>4, <2>5 DEF OverInv
<1> QED BY <1>4, <1>5, <1>6 DEF Stop

-----------------------------------------------------------------------------
(* The theorems *)

\* Every state of the client, the worker, its task, the stops and the file is explained.
THEOREM Invariance == Spec => []IndInv
<1>1. ASSUME Init PROVE IndInv
  <2>1. ClientTypeOK
    <3>1. inbox \in Seq(Frame) /\ conn \in [Visitors -> ConnPC] /\ holds \subseteq Ports
      BY <1>1 DEF Init, ClientInit, ConnPC
    <3>2. signals \in 0 .. MaxSignals /\ attempts \in 0 .. Retries
      BY <1>1, ClientAssumption DEF Init, ClientInit, Retries
    <3>3. pc \in LoopPC /\ ready \in {"none", "held", "sent", "dropped"}
      BY <1>1 DEF Init, ClientInit, LoopPC
    <3> QED BY <1>1, <3>1, <3>2, <3>3 DEF Init, ClientInit, ClientTypeOK
  <2>2. TypeOK
    BY <1>1, <2>1 DEF Init, TypeOK, WorkerPC
  <2>3. LoopInv
    BY <1>1 DEF Init, ClientInit, LoopInv, NotArmed
  <2>4. RecordInv
    BY <1>1 DEF Init, RecordInv, SaveInv, OrderInv, FileInv, StopInv, OverInv, Absent, Torn,
                IsWhole, ClientInit
  <2> QED BY <2>2, <2>3, <2>4 DEF IndInv
<1>2. ASSUME IndInv, [Next]_vars PROVE IndInv'
  <2>1. TypeOK /\ LoopInv /\ RecordInv /\ SaveInv /\ OrderInv
    BY <1>2 DEF IndInv, RecordInv
  <2>2. TypeOK'
    BY <1>2, <2>1, ClientTypesKept, RecordTypesKept DEF TypeOK, RecordTypeOK
  <2>3. LoopInv' /\ SaveInv' /\ OrderInv'
    BY <1>2, <2>1, LoopKept, OrderKept
  <2>4. FileInv' /\ StopInv' /\ OverInv'
    <3>1. CASE ClientNext /\ UNCHANGED <<recordVars, detach, workerVars, readyVars, stopVars>>
      <4>1. UNCHANGED mode
        BY <3>1 DEF ClientNext, Server, Accept, Refuse, Notify, ServerCloses, ReleasePort, Loop,
           ConnectFails, Connect, Rejected, Registered, ServeFrame, ConnectionLost, CloseTunnel,
           Retry, AttemptFails, Exit, Disconnect, PressCtrlC, DataConn, EndSplice, Step, argVars
      <4> QED BY <2>1, <3>1, <4>1 DEF RecordInv, FileInv, StopInv, OverInv, EarlyStop, Removing,
              IsWhole, recordVars, workerVars, readyVars, stopVars
    <3>2. CASE UNCHANGED vars
      BY <2>1, <3>2 DEF RecordInv, FileInv, StopInv, OverInv, EarlyStop, Removing, IsWhole,
         vars, clientVars, argVars, recordVars, workerVars, readyVars, stopVars
    <3> QED BY <1>2, <2>1, <3>1, <3>2, RecordKeptByWorker, RecordKeptByStops DEF Next
  <2> QED BY <2>2, <2>3, <2>4 DEF IndInv, RecordInv
<1> QED BY <1>1, <1>2, PTL DEF Spec

\* What a step does to the await the loop is at, and to the attempts it has counted.
Trying == {"idle", "connect", "verdict"}
LoopMove == \/ attempts' = attempts /\ (pc' = pc \/ {pc, pc'} \subseteq Trying)
            \/ attempts' = attempts /\ pc = "verdict" /\ pc' = "serve"
            \/ /\ attempts' = attempts /\ pc \in {"connect", "verdict", "serve"}
               /\ pc' = IF attempts < Retries THEN "backoff" ELSE "err"
            \/ attempts' = attempts + 1 /\ pc = "backoff" /\ pc' = "connect"
            \/ attempts' = attempts /\ pc = "serve" /\ pc' = "ok"
            \/ attempts' = attempts /\ pc \in Running \cup {"idle"} /\ pc' = "killed"

LEMMA LoopMoves ==
  ASSUME TypeOK, LoopInv, OrderInv, [Next]_vars
  PROVE  LoopMove
<1> USE DEF LoopMove, Trying, loopVars, serverVars, signalVars, argVars
<1>1. CASE UNCHANGED clientVars
  BY <1>1 DEF clientVars
<1>2. CASE Server
  BY <1>2 DEF Server, Accept, Refuse, Notify, ServerCloses, ReleasePort
<1>3. AttemptFails => /\ attempts' = attempts
                      /\ pc' = IF attempts < Retries THEN "backoff" ELSE "err"
  BY DEF AttemptFails, Exit
<1>4. CASE ConnectFails \/ Rejected \/ ConnectionLost
  BY <1>3, <1>4 DEF ConnectFails, Rejected, ConnectionLost
<1>5. CASE Connect \/ Registered \/ ServeFrame \/ Retry
  BY <1>5 DEF Connect, Registered, ServeFrame, Retry
<1>6. CASE CloseTunnel
  BY <1>6 DEF CloseTunnel, Exit
<1>7. CASE PressCtrlC
  BY <1>7 DEF PressCtrlC
<1>8. CASE \E v \in Visitors : DataConn(v) \/ EndSplice(v)
  BY <1>8 DEF DataConn, EndSplice, Step
<1>9. CASE Arm
  <2>1. pc = "idle"
    BY <1>9 DEF Arm, WorkerStep, LoopInv, NotArmed, TypeOK, ClientTypeOK
  <2> QED BY <1>9, <2>1 DEF Arm
<1>10. CASE Shutdown \/ Crash
  BY <1>10 DEF Shutdown, Crash, Cancelled, Running, TypeOK, ClientTypeOK, LoopPC
<1>11. Detach \/ ReadyTask => UNCHANGED clientVars
  BY DEF Detach, DetachCreates, DetachWrites, Spawn, DetachStep,
         ReadyTask, ReadyDropped, ReadyLoads, ReadyCreates, ReadyWrites, ReadyStep
<1>12. \A s \in Stops : StopLoads(s) \/ Stop(s) => UNCHANGED clientVars
  BY DEF StopLoads, Stop, Kill, StopRemoves, StopStep
<1>13. Worker => UNCHANGED clientVars \/ Arm \/ Shutdown
  BY DEF Worker, WorkerLoads, WorkerCreates, WorkerWrites, LoopEnds, WorkerRemoves, TermKills
<1> QED BY <1>1, <1>2, <1>4, <1>5, <1>6, <1>7, <1>8, <1>9, <1>10, <1>11, <1>12, <1>13
        DEF Next, vars, ClientNext, Loop

\* Every move of the loop is a step of TunnelCommand, or none.
LEMMA CommandStep ==
  ASSUME LoopMove, pc \in LoopPC, attempts \in 0 .. Retries
  PROVE  [Command!Next]_(Command!vars)
<1>1. CASE attempts' = attempts /\ (pc' = pc \/ {pc, pc'} \subseteq Trying)
  <2>1. UNCHANGED Command!vars
    BY <1>1 DEF Command!vars, Trying
  <2> QED BY <2>1
<1>2. CASE attempts' = attempts /\ pc = "verdict" /\ pc' = "serve"
  <2>1. Command!Open
    BY <1>2 DEF Command!Open
  <2> QED BY <2>1 DEF Command!Next
<1>3. CASE /\ attempts' = attempts /\ pc \in {"connect", "verdict", "serve"}
           /\ pc' = IF attempts < Retries THEN "backoff" ELSE "err"
  <2>1. Command!Lose
    BY <1>3 DEF Command!Lose
  <2> QED BY <2>1 DEF Command!Next
<1>4. CASE attempts' = attempts + 1 /\ pc = "backoff" /\ pc' = "connect"
  <2>1. Command!TryAgain
    BY <1>4 DEF Command!TryAgain
  <2> QED BY <2>1 DEF Command!Next
<1>5. CASE attempts' = attempts /\ pc = "serve" /\ pc' = "ok"
  <2>1. Command!Close
    BY <1>5 DEF Command!Close
  <2> QED BY <2>1 DEF Command!Next
<1>6. CASE attempts' = attempts /\ pc \in Running \cup {"idle"} /\ pc' = "killed"
  <2>1. Command!Close
    BY <1>6 DEF Command!Close, Running
  <2> QED BY <2>1 DEF Command!Next
<1> QED BY <1>1, <1>2, <1>3, <1>4, <1>5, <1>6 DEF LoopMove

\* run_tunnel_loop is TunnelCommand: a lost tunnel is tried for again, three times over the
\* life of the command, whatever the server, the user, the worker and the stops do.
THEOREM Implementation == Spec => ImplementsTunnelCommand
<1>1. Init => Command!Init
  BY DEF Init, ClientInit, Command!Init
<1>2. IndInv /\ [Next]_vars => [Command!Next]_(Command!vars)
  BY LoopMoves, CommandStep DEF IndInv, RecordInv, TypeOK, ClientTypeOK
<1> QED BY <1>1, <1>2, Invariance, PTL DEF Spec, ImplementsTunnelCommand, Command!Spec

\* Every variable has its type.
THEOREM TypeCorrect == Spec => []TypeOK
<1>1. IndInv => TypeOK
  BY DEF IndInv
<1> QED BY <1>1, Invariance, PTL

\* A running worker without a record was missed by a stop that read the record before its
\* pid was there, or has been signalled (run_stop, run_worker).
THEOREM OrphanSafe == Spec => []OrphanOnlyByEarlyStop
<1>1. IndInv => OrphanOnlyByEarlyStop
  BY DEF IndInv, RecordInv, FileInv, OrderInv, LoopInv, EarlyStop, OrphanOnlyByEarlyStop
<1> QED BY <1>1, Invariance, PTL

\* A record without a worker was left by a crash, brought back by a save, or is about to
\* be removed by a stop.
THEOREM LeftoverSafe == Spec => []LeftoverExplained
<1>1. IndInv => LeftoverExplained
  BY DEF IndInv, RecordInv, OverInv, Removing, LeftoverExplained, Listed, IsWhole, Absent
<1> QED BY <1>1, Invariance, PTL
=============================================================================
