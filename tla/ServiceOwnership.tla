-------------------------- MODULE ServiceOwnership --------------------------
(***************************************************************************)
(* Who owns the primary service.  Incarnations of run_edgewarn.py are      *)
(* started, killed and restarted; each takes an advisory file lock before  *)
(* it does any work, publishes a heartbeat from a thread of its own, forks *)
(* a multiprocessing manager and one worker per cycle, and on the way out  *)
(* stops the thread, removes the heartbeat and releases the lock.          *)
(*                                                                         *)
(* A flock belongs to the open file description, and a forked child shares *)
(* its parent's descriptions.  The lock therefore goes away when its owner *)
(* releases it, or when the last process sharing the description is gone.  *)
(***************************************************************************)
EXTENDS Naturals

CONSTANTS
    MaxRuns,     \* incarnations of the service that may be started
    JoinTimeout, \* ticks the main thread waits for the heartbeat thread
    MaxAge       \* ages are counted up to this many ticks

ASSUME OwnershipConstants ==
    /\ MaxRuns \in Nat \ {0}
    /\ JoinTimeout \in Nat
    /\ MaxAge \in Nat /\ MaxAge > JoinTimeout

Runs == 1 .. MaxRuns
Free == 0
NoBeat == [run |-> Free, age |-> 0]

VARIABLES
    main,      \* where the main thread of each incarnation is
    thread,    \* where its heartbeat thread is
    stamp,     \* age of the updated_at the thread is about to publish
    waited,    \* how long the main thread has been joining the thread
    server,    \* whether its multiprocessing manager is alive
    worker,    \* whether a cycle worker it forked is alive
    lock,      \* the incarnation whose open file holds the flock, or Free
    heartbeat, \* the heartbeat file: its run and the age of its updated_at
    idle       \* how long ago an incarnation was last serving

ownershipVars ==
    <<main, thread, stamp, waited, server, worker, lock, heartbeat, idle>>

Owning == {"serving", "stopping", "joined", "removed"}

Older(age) == IF age < MaxAge THEN age + 1 ELSE age

\* The main thread set heartbeat_stop, or the process is gone.
Stopped(r) == main[r] # "serving"

\* A process that still shares the description r locked.
Alive(r) == main[r] \in Owning

OwnershipInit ==
    /\ main = [r \in Runs |-> "new"]
    /\ thread = [r \in Runs |-> "none"]
    /\ stamp = [r \in Runs |-> 0]
    /\ waited = [r \in Runs |-> 0]
    /\ server = [r \in Runs |-> FALSE]
    /\ worker = [r \in Runs |-> FALSE]
    /\ lock = Free
    /\ heartbeat = NoBeat
    /\ idle = MaxAge

-----------------------------------------------------------------------------
\* Fault variant: the server and the worker are forked without the lock's description.
FreeIfLastOfWithoutFork(r, alive, serving, working) ==
    IF lock = r /\ ~alive THEN Free ELSE lock

-----------------------------------------------------------------------------
\* The owner of the flock once the processes of r are as given.
FreeIfLastOf(r, alive, serving, working) ==
    IF lock = r /\ ~alive /\ ~serving /\ ~working THEN Free ELSE lock

\* Incarnations are started one after the other, by hand or by a launcher,
\* whatever became of the earlier ones.
MayStart(r) == main[r] = "new" /\ \A q \in Runs : q < r => main[q] # "new"

Acquire(r) ==
    /\ MayStart(r)
    /\ lock = Free
    /\ lock' = r
    /\ main' = [main EXCEPT ![r] = "serving"]
    /\ thread' = [thread EXCEPT ![r] = "waiting"]
    /\ idle' = 0
    /\ UNCHANGED <<stamp, waited, server, worker, heartbeat>>

Refuse(r) ==
    /\ MayStart(r)
    /\ lock # Free
    /\ main' = [main EXCEPT ![r] = "refused"]
    /\ UNCHANGED <<thread, stamp, waited, server, worker, lock, heartbeat, idle>>

StartServer(r) ==
    /\ main[r] = "serving" /\ ~server[r]
    /\ server' = [server EXCEPT ![r] = TRUE]
    /\ UNCHANGED <<main, thread, stamp, waited, worker, lock, heartbeat, idle>>

StartWorker(r) ==
    /\ main[r] = "serving" /\ server[r] /\ ~worker[r]
    /\ worker' = [worker EXCEPT ![r] = TRUE]
    /\ UNCHANGED <<main, thread, stamp, waited, server, lock, heartbeat, idle>>

\* A worker ends: its cycle is over, or the registry stopped it, or it runs
\* out after its parent was killed.
WorkerEnds(r) ==
    /\ worker[r]
    /\ worker' = [worker EXCEPT ![r] = FALSE]
    /\ lock' = FreeIfLastOf(r, Alive(r), server[r], FALSE)
    /\ UNCHANGED <<main, thread, stamp, waited, server, heartbeat, idle>>

\* The cycle loop is left (stop event or an exception): the worker was reaped
\* with its cycle, the manager is shut down, heartbeat_stop is set.
Stop(r) ==
    /\ main[r] = "serving" /\ ~worker[r]
    /\ main' = [main EXCEPT ![r] = "stopping"]
    /\ server' = [server EXCEPT ![r] = FALSE]
    /\ UNCHANGED <<thread, stamp, waited, worker, lock, heartbeat, idle>>

\* heartbeat_thread.join returns: the thread ended, or the timeout passed.
Join(r) ==
    /\ main[r] = "stopping"
    /\ thread[r] = "done" \/ waited[r] >= JoinTimeout
    /\ main' = [main EXCEPT ![r] = "joined"]
    /\ UNCHANGED <<thread, stamp, waited, server, worker, lock, heartbeat, idle>>

RemoveHeartbeat(r) ==
    /\ main[r] = "joined"
    /\ main' = [main EXCEPT ![r] = "removed"]
    /\ heartbeat' = NoBeat
    /\ UNCHANGED <<thread, stamp, waited, server, worker, lock, idle>>

\* LOCK_UN takes the lock from every process that shares the description.
Release(r) ==
    /\ main[r] = "removed"
    /\ main' = [main EXCEPT ![r] = "exited"]
    /\ lock' = IF lock = r THEN Free ELSE lock
    /\ UNCHANGED <<thread, stamp, waited, server, worker, heartbeat, idle>>

\* SIGKILL, an out-of-memory kill: no finally runs, the children live on.
\* After exit, the interpreter still waits for the heartbeat thread.
Kill(r) ==
    /\ Alive(r) \/ (main[r] = "exited" /\ thread[r] # "done")
    /\ main' = [main EXCEPT ![r] = "crashed"]
    /\ thread' = [thread EXCEPT ![r] = "done"]
    /\ lock' = FreeIfLastOf(r, FALSE, server[r], worker[r])
    /\ UNCHANGED <<stamp, waited, server, worker, heartbeat, idle>>

\* An operator finds the manager of a killed incarnation and kills it.
KillServer(r) ==
    /\ main[r] = "crashed" /\ server[r]
    /\ server' = [server EXCEPT ![r] = FALSE]
    /\ lock' = FreeIfLastOf(r, FALSE, FALSE, worker[r])
    /\ UNCHANGED <<main, thread, stamp, waited, worker, heartbeat, idle>>

-----------------------------------------------------------------------------
\* The heartbeat loop: test the stop event, stamp, publish, wait.
Stamp(r) ==
    /\ thread[r] = "waiting" /\ ~Stopped(r)
    /\ thread' = [thread EXCEPT ![r] = "stamped"]
    /\ stamp' = [stamp EXCEPT ![r] = 0]
    /\ UNCHANGED <<main, waited, server, worker, lock, heartbeat, idle>>

Publish(r) ==
    /\ thread[r] = "stamped"
    /\ heartbeat' = [run |-> r, age |-> stamp[r]]
    /\ thread' = [thread EXCEPT ![r] = "waiting"]
    /\ UNCHANGED <<main, stamp, waited, server, worker, lock, idle>>

\* The file system refuses: the error is printed, the loop goes on.
PublishFails(r) ==
    /\ thread[r] = "stamped"
    /\ thread' = [thread EXCEPT ![r] = "waiting"]
    /\ UNCHANGED <<main, stamp, waited, server, worker, lock, heartbeat, idle>>

LeaveLoop(r) ==
    /\ thread[r] = "waiting" /\ Stopped(r)
    /\ thread' = [thread EXCEPT ![r] = "done"]
    /\ UNCHANGED <<main, stamp, waited, server, worker, lock, heartbeat, idle>>

\* One tick of the clock; every age stops at MaxAge.
AgeAll ==
    /\ stamp' = [r \in Runs |->
                    IF thread[r] = "stamped" THEN Older(stamp[r]) ELSE stamp[r]]
    /\ waited' = [r \in Runs |->
                    IF main[r] = "stopping" /\ waited[r] < JoinTimeout
                    THEN waited[r] + 1 ELSE waited[r]]
    /\ heartbeat' = IF heartbeat = NoBeat THEN NoBeat
                    ELSE [heartbeat EXCEPT !.age = Older(@)]
    /\ idle' = IF \E r \in Runs : main[r] = "serving" THEN 0 ELSE Older(idle)
    /\ UNCHANGED <<main, thread, server, worker, lock>>

RunStep(r) ==
    \/ Acquire(r) \/ Refuse(r)
    \/ StartServer(r) \/ StartWorker(r) \/ WorkerEnds(r)
    \/ Stop(r) \/ Join(r) \/ RemoveHeartbeat(r) \/ Release(r)
    \/ Kill(r) \/ KillServer(r)
    \/ Stamp(r) \/ Publish(r) \/ PublishFails(r) \/ LeaveLoop(r)

OwnershipNext == AgeAll \/ \E r \in Runs : RunStep(r)

OwnershipSpec == OwnershipInit /\ [][OwnershipNext]_ownershipVars

\* The threads of a process run; a worker ends; a file system that keeps
\* being tried does not refuse for ever; time passes.  Nobody has to stop,
\* kill or start anything.
OwnershipFairness ==
    /\ WF_ownershipVars(AgeAll)
    /\ \A r \in Runs :
        /\ WF_ownershipVars(Stamp(r)) /\ SF_ownershipVars(Publish(r))
        /\ WF_ownershipVars(Publish(r) \/ PublishFails(r))
        /\ WF_ownershipVars(LeaveLoop(r)) /\ WF_ownershipVars(WorkerEnds(r))
        /\ WF_ownershipVars(Join(r)) /\ WF_ownershipVars(RemoveHeartbeat(r))
        /\ WF_ownershipVars(Release(r))

OwnershipLiveSpec == OwnershipSpec /\ OwnershipFairness

-----------------------------------------------------------------------------
OwnershipTypeOK ==
    /\ main \in [Runs -> {"new", "refused", "crashed", "exited"} \cup Owning]
    /\ thread \in [Runs -> {"none", "waiting", "stamped", "done"}]
    /\ stamp \in [Runs -> 0 .. MaxAge]
    /\ waited \in [Runs -> 0 .. JoinTimeout]
    /\ server \in [Runs -> BOOLEAN]
    /\ worker \in [Runs -> BOOLEAN]
    /\ lock \in Runs \cup {Free}
    /\ heartbeat \in [run : Runs \cup {Free}, age : 0 .. MaxAge]
    /\ idle \in 0 .. MaxAge

\* Two incarnations of the primary never own the service at the same time,
\* whatever order of starts, stops and kills, and neither do cycle workers of
\* two incarnations run together: a second detection process over the same
\* data directory would interleave its writes with the first one's, also when
\* the first one is the orphan of a killed service.
OneCycleAtATime ==
    \A q, r \in Runs :
        Alive(q) \/ worker[q] => q = r \/ ~(Alive(r) \/ worker[r])

\* Removing the heartbeat at shutdown never removes the heartbeat of a
\* successor that is serving already: it would show as disabled, and the API
\* would refuse its routes, until its next publication.
NoSuccessorUnlinked ==
    [][(heartbeat # NoBeat /\ heartbeat' = NoBeat)
        => \A r \in Runs : main[r] # "serving"]_ownershipVars

\* "a crashed owner releases it automatically" (handoff.py, ServiceLock): once
\* an owner was killed, the lock is free of it sooner or later.
CrashReleasesLock ==
    \A r \in Runs : main[r] = "crashed" ~> lock # r

=============================================================================
