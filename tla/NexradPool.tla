----------------------------- MODULE NexradPool -----------------------------
(***************************************************************************)
(* The shared pool of NEXRAD parse workers                                 *)
(* (src/src/common/ingest/nexrad/worker_pool.py) and the threads that wait *)
(* for a parse (NexradIngestService._run_worker_parse in service.py).      *)
(*                                                                         *)
(* A pool is a numbered generation; 0 is "no pool".  The event loop itself *)
(* recycles the pool after enough volumes, waiting for its workers while   *)
(* it holds the lock every other operation of the pool needs.              *)
(***************************************************************************)
EXTENDS Integers, FiniteSets

CONSTANTS
    Threads,         \* threads that run _run_worker_parse
    RecycleInterval, \* worker_recycle_interval
    MaxGeneration,   \* pools of one behaviour (bounds the model)
    MaxHangs,        \* workers that hang (bounds the model)
    MaxBreaks        \* workers that die (bounds the model)

ASSUME PoolAssumption == RecycleInterval \in Nat /\ MaxGeneration \in Nat

VARIABLES
    generation, \* the last pool created
    pool,       \* the current pool, or 0
    open,       \* pools that still take work
    broken,     \* pools one of whose workers died
    volumes,    \* volumes since the pool was created
    lockedBy,   \* who holds the lifecycle lock: "loop" or nobody
    thread,     \* thread[t]: [pc, pool]
    worker,     \* worker[t]: the work of t in the pool
    losses     \* history: [hangs, breaks]

poolVars == <<generation, pool, open, broken, volumes, lockedBy, thread,
              worker, losses>>

NoPool == 0

PoolInit ==
    /\ generation = 0 /\ pool = NoPool /\ open = {} /\ broken = {} /\ volumes = 0
    /\ lockedBy = "nobody"
    /\ thread = [t \in Threads |-> [pc |-> "idle", pool |-> NoPool]]
    /\ worker = [t \in Threads |-> "none"]
    /\ losses = [hangs |-> 0, breaks |-> 0]

Busy(g) == {t \in Threads : thread[t].pool = g /\ worker[t] \in {"running", "hung"}}
Unlocked == lockedBy = "nobody"

\* get_nexrad_pool: the current pool, or a new one.  A thread that gave up on a
\* parse asks again only when that parse has ended (bounds the model).
GetPool(t) ==
    /\ thread[t].pc = "idle"
    /\ worker[t] = "none"
    /\ Unlocked
    /\ IF pool # NoPool
       THEN /\ thread' = [thread EXCEPT ![t] = [pc |-> "chosen", pool |-> pool]]
            /\ UNCHANGED <<generation, pool, open, volumes>>
       ELSE /\ generation < MaxGeneration
            /\ generation' = generation + 1
            /\ pool' = generation + 1
            /\ open' = open \cup {generation + 1}
            /\ volumes' = 0
            /\ thread' = [thread EXCEPT ![t] = [pc |-> "chosen", pool |-> generation + 1]]
    /\ UNCHANGED <<broken, lockedBy, worker, losses>>

\* The lock is not held here: the pool may have been shut down meanwhile, and
\* the executor then refuses the work.
SubmitParse(t) ==
    /\ thread[t].pc = "chosen"
    /\ LET g == thread[t].pool
           next == IF g \in broken THEN "broken" ELSE IF g \in open THEN "waiting" ELSE "idle"
       IN  /\ thread' = [thread EXCEPT ![t].pc = next]
           /\ worker' = [worker EXCEPT ![t] = IF next = "waiting" THEN "running" ELSE "none"]
    /\ UNCHANGED <<generation, pool, open, broken, volumes, lockedBy, losses>>

TakeResult(t) ==
    /\ thread[t].pc = "waiting"
    /\ worker[t] = "finished"
    /\ thread' = [thread EXCEPT ![t].pc = "idle"]
    /\ worker' = [worker EXCEPT ![t] = "none"]
    /\ UNCHANGED <<generation, pool, open, broken, volumes, lockedBy, losses>>

\* worker_timeout_seconds: cancelling a running future does nothing.
ParseExpires(t) ==
    /\ thread[t].pc = "waiting"
    /\ worker[t] \in {"running", "hung"}
    /\ thread' = [thread EXCEPT ![t].pc = "expired"]
    /\ UNCHANGED <<generation, pool, open, broken, volumes, lockedBy, worker, losses>>

SeesBrokenPool(t) ==
    /\ thread[t].pc = "waiting"
    /\ worker[t] = "failed"
    /\ thread' = [thread EXCEPT ![t].pc = "broken"]
    /\ worker' = [worker EXCEPT ![t] = "none"]
    /\ UNCHANGED <<generation, pool, open, broken, volumes, lockedBy, losses>>

\* Fault variant: shutdown(wait=True).
RetirePoolWaiting(t) ==
    /\ thread[t].pc \in {"expired", "broken"}
    /\ Unlocked
    /\ Busy(pool) = {}
    /\ open' = open \ {pool}
    /\ pool' = NoPool
    /\ volumes' = 0
    /\ thread' = [thread EXCEPT ![t].pc = "idle"]
    /\ UNCHANGED <<generation, broken, lockedBy, worker, losses>>

\* shutdown_nexrad_pool(wait=False): whichever pool is current is retired.
RetirePool(t) ==
    /\ thread[t].pc \in {"expired", "broken"}
    /\ Unlocked
    /\ open' = open \ {pool}
    /\ pool' = NoPool
    /\ volumes' = 0
    /\ thread' = [thread EXCEPT ![t].pc = "idle"]
    /\ UNCHANGED <<generation, broken, lockedBy, worker, losses>>

\* record_volume_and_maybe_recycle, called by the event loop after an ingest:
\* shutdown(wait=True) keeps the lock until the last worker is done.
RecordVolume ==
    /\ RecycleInterval > 0
    /\ Unlocked
    /\ volumes < RecycleInterval   \* a count beyond it, with no pool, is not told apart
    /\ volumes' = volumes + 1
    /\ IF pool = NoPool \/ volumes' < RecycleInterval
       THEN UNCHANGED <<open, lockedBy>>
       ELSE lockedBy' = "loop" /\ open' = open \ {pool}
    /\ UNCHANGED <<generation, pool, broken, thread, worker, losses>>
FinishRecycle ==
    /\ lockedBy = "loop"
    /\ Busy(pool) = {}
    /\ lockedBy' = "nobody"
    /\ pool' = NoPool
    /\ volumes' = 0
    /\ UNCHANGED <<generation, open, broken, thread, worker, losses>>

\* A parse ends; its thread may have given up on it.
WorkerEnds(t) ==
    /\ worker[t] = "running"
    /\ worker' = [worker EXCEPT ![t] = IF thread[t].pc = "waiting" THEN "finished" ELSE "none"]
    /\ UNCHANGED <<generation, pool, open, broken, volumes, lockedBy, thread, losses>>

WorkerHangs(t) ==
    /\ worker[t] = "running"
    /\ losses.hangs < MaxHangs
    /\ worker' = [worker EXCEPT ![t] = "hung"]
    /\ losses' = [losses EXCEPT !.hangs = @ + 1]
    /\ UNCHANGED <<generation, pool, open, broken, volumes, lockedBy, thread>>

\* One worker dies and the executor fails everything it was given.
WorkerDies(g) ==
    /\ Busy(g) # {}
    /\ losses.breaks < MaxBreaks
    /\ worker' = [t \in Threads |->
                    IF t \notin Busy(g) THEN worker[t]
                    ELSE IF thread[t].pc = "waiting" THEN "failed" ELSE "none"]
    /\ open' = open \ {g}
    /\ broken' = broken \cup {g}
    /\ losses' = [losses EXCEPT !.breaks = @ + 1]
    /\ UNCHANGED <<generation, pool, volumes, lockedBy, thread>>

\* The event loop writes no heartbeat while it waits: the supervisor kills the
\* ingest process, and its workers with it.
IngestKilled ==
    /\ lockedBy = "loop"
    /\ pool' = NoPool
    /\ open' = {}
    /\ volumes' = 0
    /\ lockedBy' = "nobody"
    /\ thread' = [t \in Threads |-> [pc |-> "idle", pool |-> NoPool]]
    /\ worker' = [t \in Threads |-> "none"]
    /\ UNCHANGED <<generation, broken, losses>>

ThreadStep(t) ==
    GetPool(t) \/ SubmitParse(t) \/ TakeResult(t) \/ ParseExpires(t)
    \/ SeesBrokenPool(t) \/ RetirePool(t)

PoolNext ==
    \/ \E t \in Threads : ThreadStep(t) \/ WorkerEnds(t) \/ WorkerHangs(t)
    \/ \E g \in 1..generation : WorkerDies(g)
    \/ RecordVolume \/ FinishRecycle \/ IngestKilled

\* Threads run, parses that do not hang end, and the loop goes on.
PoolFairness ==
    /\ \A t \in Threads : WF_poolVars(ThreadStep(t)) /\ WF_poolVars(WorkerEnds(t))
    /\ WF_poolVars(FinishRecycle)
    /\ WF_poolVars(IngestKilled)

PoolSpec == PoolInit /\ [][PoolNext]_poolVars /\ PoolFairness

-----------------------------------------------------------------------------
\* A thread that gave up on its parse comes back to its ingest: the lock it needs
\* to retire the pool is not kept for ever by a recycle that waits for that very
\* parse.
ExpiredThreadReturns ==
    \A t \in Threads : thread[t].pc \in {"expired", "broken"} ~> thread[t].pc = "idle"

=============================================================================
