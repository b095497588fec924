--------------------------- MODULE TunnelRecords ---------------------------
(***************************************************************************)
(* A background tunnel and the file ~/.borehole/tunnels/<id>.json that     *)
(* stands for it (crates/cli/src/tunnels.rs, and detach_tunnel, run_worker,*)
(* run_list and run_stop in main.rs).  The command that detaches, the      *)
(* worker, the task in the worker that awaits the port, and any number of  *)
(* `stop` commands read, write and remove the file, with no lock.          *)
(***************************************************************************)
EXTENDS CliClient

CONSTANT Stops  \* `borehole stop` commands given for this tunnel

VARIABLES
  file,       \* the record file
  detach,     \* detach_tunnel: create, write, spawn, then done or failed
  worker,     \* run_worker
  loaded,     \* the record the worker has loaded, or None
  readyTask,  \* the task that awaits ready_rx
  copy,       \* the record it has loaded, or None
  term,       \* SIGTERM was sent to the worker
  stop,       \* run_stop of each command
  seen,       \* the pid it read, or None
  crashed,    \* the worker was killed by something else than SIGTERM
  revived     \* a save has created the file anew after it was removed

recordVars == <<file, revived>>
workerVars == <<worker, loaded, term, crashed>>
stopVars == <<stop, seen>>
readyVars == <<readyTask, copy>>
vars == <<clientVars, recordVars, detach, workerVars, readyVars, stopVars>>

\* The pid of a record whose worker has not started, and that of the worker.
NoPid == 0
WorkerPid == 1

Record == [pid : {NoPid, WorkerPid}, state : {"starting", "active"},
           remote_port : Ports \cup {None}]

\* What a reader finds: no file, one that is truncated and not written yet, a record.
Absent == [status |-> "absent"]
Torn == [status |-> "torn"]
Whole(record) == [status |-> "whole", record |-> record]
IsWhole == file.status = "whole"

WorkerPC == {"none", "load", "create", "write", "arm", "run", "exists", "unlink", "over"}

Init == /\ ClientInit
        /\ file = Absent
        /\ detach = IF mode = "worker" THEN "create" ELSE "failed"
        /\ worker = "none"
        /\ loaded = None
        /\ readyTask = "none"
        /\ copy = None
        /\ term = FALSE
        /\ stop = [s \in Stops |-> "idle"]
        /\ seen = [s \in Stops |-> None]
        /\ crashed = FALSE
        /\ revived = FALSE

-----------------------------------------------------------------------------
(* TunnelRecord: save is fs::write, which truncates and then writes; remove looks *)
(* before it deletes.                                                             *)

Truncate == file' = Torn

\* A file that is removed while it is written stays removed.
Write(record) == file' = (IF file = Absent THEN Absent ELSE Whole(record)) /\ UNCHANGED revived

\* A file that was removed since it was loaded comes back.
SaveAgain == Truncate /\ revived' = (revived \/ file = Absent)

Unlink == file' = Absent /\ UNCHANGED revived

-----------------------------------------------------------------------------
(* detach_tunnel *)

DetachStep(from, to) == /\ detach = from /\ detach' = to
                        /\ UNCHANGED <<clientVars, loaded, term, crashed, readyVars, stopVars>>

DetachCreates == DetachStep("create", "write") /\ Truncate /\ UNCHANGED <<revived, worker>>

DetachWrites == /\ DetachStep("write", "spawn")
                /\ Write([pid |-> NoPid, state |-> "starting", remote_port |-> asked])
                /\ UNCHANGED worker

\* Without a worker the record stays.
Spawn == /\ \/ DetachStep("spawn", "done") /\ worker' = "load"
            \/ DetachStep("spawn", "failed") /\ UNCHANGED worker
         /\ UNCHANGED recordVars

Detach == DetachCreates \/ DetachWrites \/ Spawn

-----------------------------------------------------------------------------
(* run_worker *)

WorkerStep(from, to) == /\ worker = from /\ worker' = to
                        /\ UNCHANGED <<detach, term, stopVars, crashed>>

\* A record that is gone or unreadable ends the worker.
WorkerLoads == \/ /\ IsWhole
                  /\ WorkerStep("load", "create")
                  /\ loaded' = file.record
                  /\ UNCHANGED <<clientVars, recordVars, readyVars>>
               \/ /\ ~IsWhole
                  /\ WorkerStep("load", "over")
                  /\ UNCHANGED <<clientVars, recordVars, loaded, readyVars>>

WorkerCreates == /\ WorkerStep("create", "write")
                 /\ SaveAgain
                 /\ UNCHANGED <<clientVars, loaded, readyVars>>

WorkerWrites == /\ WorkerStep("write", "arm")
                /\ Write([loaded EXCEPT !.pid = WorkerPid, !.state = "starting"])
                /\ UNCHANGED <<clientVars, loaded, readyVars>>

\* The first poll of the select: the handlers of shutdown_signal are installed, and
\* run_tunnel_loop begins.
Arm == /\ ~term
       /\ WorkerStep("arm", "run")
       /\ pc' = "connect"
       /\ readyTask' = "await"
       /\ UNCHANGED <<serverVars, attempts, assigned, ready, reported, signalVars, argVars,
                      conn, recordVars, loaded, copy>>

\* The tunnel loop is dropped at its await.
Cancelled == /\ pc' = IF pc \in {"ok", "err"} THEN pc ELSE "killed"
             /\ Disconnect
             /\ conn' = [v \in Visitors |-> "closed"]
             /\ UNCHANGED <<attempts, ready, reported>>

\* Fault: the signal is looked at between two attempts only.
Shutdown_BetweenAttempts ==
  /\ term /\ pc = "backoff"
  /\ WorkerStep("run", "exists")
  /\ Cancelled
  /\ UNCHANGED <<recordVars, loaded, readyVars>>

\* Either branch of the select: a signal, or the end of the loop.
Shutdown == /\ term
            /\ WorkerStep("run", "exists")
            /\ Cancelled
            /\ UNCHANGED <<recordVars, loaded, readyVars>>

\* Fault: the record is removed by the signal only.
LoopEnds_Leaves ==
  /\ pc \in {"ok", "err"}
  /\ WorkerStep("run", "over")
  /\ UNCHANGED <<clientVars, recordVars, loaded, readyVars>>

LoopEnds == /\ pc \in {"ok", "err"}
            /\ WorkerStep("run", "exists")
            /\ UNCHANGED <<clientVars, recordVars, loaded, readyVars>>

\* The task that awaits the port dies with the process, unless it is in its one poll.
Ends == /\ readyTask' = IF readyTask = "await" THEN "over" ELSE readyTask
        /\ UNCHANGED copy

\* remove, errors ignored: somebody else may have been faster.
WorkerRemoves == \/ /\ file # Absent
                    /\ WorkerStep("exists", "unlink")
                    /\ UNCHANGED <<clientVars, recordVars, loaded, readyVars>>
                 \/ /\ file = Absent
                    /\ WorkerStep("exists", "over") /\ Ends
                    /\ UNCHANGED <<clientVars, recordVars, loaded>>
                 \/ /\ WorkerStep("unlink", "over") /\ Ends
                    /\ Unlink
                    /\ UNCHANGED <<clientVars, loaded>>

\* SIGTERM before the handlers: its default action.
TermKills == /\ term
             /\ WorkerStep("arm", "over")
             /\ UNCHANGED <<clientVars, recordVars, loaded, readyVars>>

\* A power cut, the out-of-memory killer, taskkill /F: no cleanup of any kind.
Crash == /\ worker \notin {"none", "over"}
         /\ worker' = "over"
         /\ crashed' = TRUE
         /\ readyTask' = "over"
         /\ Cancelled
         /\ UNCHANGED <<recordVars, detach, loaded, term, copy, stopVars>>

Worker == \/ WorkerLoads \/ WorkerCreates \/ WorkerWrites \/ Arm
          \/ Shutdown \/ LoopEnds \/ WorkerRemoves \/ TermKills

-----------------------------------------------------------------------------
(* The task that flips the record to active *)

ReadyStep(from, to) == /\ readyTask = from /\ readyTask' = to
                       /\ UNCHANGED <<clientVars, detach, workerVars, stopVars>>

\* The first attempt has ended without a port.
ReadyDropped == ready = "dropped" /\ ReadyStep("await", "over") /\ UNCHANGED <<recordVars, copy>>

ReadyLoads == /\ ready = "sent"
              /\ \/ IsWhole /\ ReadyStep("await", "create") /\ copy' = file.record
                 \/ ~IsWhole /\ ReadyStep("await", "over") /\ UNCHANGED copy
              /\ UNCHANGED recordVars

ReadyCreates == ReadyStep("create", "write") /\ SaveAgain /\ UNCHANGED copy

ReadyWrites == /\ ReadyStep("write", "over")
               /\ Write([copy EXCEPT !.state = "active", !.remote_port = reported])
               /\ UNCHANGED copy

ReadyTask == ReadyDropped \/ ReadyLoads \/ ReadyCreates \/ ReadyWrites

-----------------------------------------------------------------------------
(* run_stop.  The id is known from `list`, or from the command that detached. *)

StopStep(s, from, to) == /\ stop[s] = from
                         /\ stop' = [stop EXCEPT ![s] = to]
                         /\ UNCHANGED <<clientVars, detach, worker, loaded, crashed, readyVars>>

StopLoads(s) == \/ /\ IsWhole
                   /\ StopStep(s, "idle", IF file.record.pid = NoPid THEN "exists" ELSE "kill")
                   /\ seen' = [seen EXCEPT ![s] = file.record.pid]
                   /\ UNCHANGED <<recordVars, term>>
                \/ /\ ~IsWhole
                   /\ StopStep(s, "idle", "error")
                   /\ UNCHANGED <<recordVars, term, seen>>

\* Fault: the worker is not signalled.
Kill_Omitted(s) == StopStep(s, "kill", "exists") /\ UNCHANGED <<recordVars, term, seen>>

\* kill_process, whose exit status is not looked at.
Kill(s) == /\ StopStep(s, "kill", "exists")
           /\ term' = TRUE
           /\ UNCHANGED <<recordVars, seen>>

StopRemoves(s) == /\ \/ file # Absent /\ StopStep(s, "exists", "unlink") /\ UNCHANGED recordVars
                     \/ file = Absent /\ StopStep(s, "exists", "done") /\ UNCHANGED recordVars
                     \/ file # Absent /\ StopStep(s, "unlink", "done") /\ Unlink
                     \/ file = Absent /\ StopStep(s, "unlink", "error") /\ UNCHANGED recordVars
                  /\ UNCHANGED <<term, seen>>

Stop(s) == Kill(s) \/ StopRemoves(s)

-----------------------------------------------------------------------------
(* The specification *)

Next == \/ ClientNext /\ UNCHANGED <<recordVars, detach, workerVars, readyVars, stopVars>>
        \/ Detach \/ Worker \/ ReadyTask \/ Crash
        \/ \E s \in Stops : StopLoads(s) \/ Stop(s)

Spec == Init /\ [][Next]_vars

\* Every process of the machine goes on, until it waits for a user or for the server.
FairSpec == /\ Spec
            /\ WF_vars(Loop /\ UNCHANGED <<recordVars, detach, workerVars, readyVars, stopVars>>)
            /\ WF_vars(Detach) /\ WF_vars(Worker) /\ WF_vars(ReadyTask)
            /\ \A s \in Stops : WF_vars(Stop(s))

-----------------------------------------------------------------------------
(* Properties *)

\* run_list shows the record, which is skipped while it is unreadable.
Listed == IsWhole

TypeOK == /\ ClientTypeOK
          /\ file \in {Absent, Torn} \cup {Whole(r) : r \in Record}
          /\ detach \in {"create", "write", "spawn", "done", "failed"}
          /\ worker \in WorkerPC
          /\ loaded \in Record \cup {None}
          /\ readyTask \in {"none", "await", "create", "write", "over"}
          /\ copy \in Record \cup {None}
          /\ term \in BOOLEAN
          /\ stop \in [Stops -> {"idle", "kill", "exists", "unlink", "done", "error"}]
          /\ seen \in [Stops -> {NoPid, WorkerPid, None}]
          /\ crashed \in BOOLEAN
          /\ revived \in BOOLEAN

\* A worker is out of the reach of `list` and `stop` only if a stop came before it had
\* filled in its pid: that stop removes the record and signals nobody.
OrphanOnlyByEarlyStop ==
  worker = "run" /\ file = Absent => term \/ \E s \in Stops : seen[s] = NoPid

\* A record outlives its worker only if the worker could not clean up, if a save that
\* was under way brought it back after its removal, or until a stop removes it.
LeftoverExplained ==
  worker = "over" /\ Listed
    => crashed \/ revived \/ \E s \in Stops : stop[s] \in {"exists", "unlink"}

\* A stop that found the worker's pid ends the worker, in whatever state it is.
StopEndsWorker == \A s \in Stops : stop[s] = "done" /\ seen[s] = WorkerPid ~> worker = "over"

-----------------------------------------------------------------------------
(* What the documentation says, and the code does not do *)

\* main.rs of run_stop: "Stops a background tunnel: signals its worker and removes the
\* record".  A worker that was spawned and has not saved its pid is not signalled, and
\* goes on without a record.
StopSignals == \A s \in Stops : stop[s] = "done" => term \/ worker # "run"
=============================================================================
