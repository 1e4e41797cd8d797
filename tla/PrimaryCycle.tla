---------------------------- MODULE PrimaryCycle ----------------------------
(***************************************************************************)
(* The primary EdgeWARN service: the polling loop that selects an MRMS     *)
(* scan, runs one cycle for it, retries a failed one and finally abandons  *)
(* it (src/src/util/runtime/primary_service.py, run_primary_cycle_loop),   *)
(* together with the file that lets the loop survive a restart             *)
(* (src/src/util/runtime/cycle.py, CycleStateStore).                       *)
(*                                                                         *)
(* A scan is its timestamp, a positive natural number; 0 is Python's None. *)
(* The cycle itself (ingest, detection, integration) is one step here with *)
(* a nondeterministic outcome.                                             *)
(***************************************************************************)
EXTENDS Integers

CONSTANTS
    MaxScan,      \* newest scan the source ever publishes (bounds the model)
    MaxAttempts,  \* cycle.retry.max_attempts
    MaxCrashes    \* how often the service may die (bounds the model)

ASSUME PrimaryAssumption ==
    /\ MaxScan \in Nat \ {0}
    /\ MaxAttempts \in Nat \ {0}   \* CycleRetryPolicy.__post_init__ rejects less
    /\ MaxCrashes \in Nat

VARIABLES
    store,     \* cycle_state.json: what a restart can see
    watermark, \* newest stormcells_*.json found at startup, 0 when none
    newest,    \* newest scan the MRMS source has published
    mode,      \* "down", "poll" (between cycles) or "cycle" (one is running)
    mem,       \* the loop's local variables
    tries,     \* history: attempts begun per scan
    done,      \* history: scans whose cycle completed
    dropped,   \* history: scans explicitly abandoned
    crashes    \* history: deaths of the service

vars == <<store, watermark, newest, mode, mem, tries, done, dropped, crashes>>

Scans == 1..MaxScan
ScanOrNone == 0..MaxScan
None == 0

Later(a, b) == IF a >= b THEN a ELSE b

(***************************************************************************)
(* The persisted state.  outcome is kept only as outcome["retryable"]: an  *)
(* empty outcome reads as not retryable.  completed and retryable exclude  *)
(* each other (run_primary_cycle_once), so one Boolean is enough.          *)
(***************************************************************************)
Store == [attempted: ScanOrNone, successful: ScanOrNone, abandoned: ScanOrNone,
          count: Nat, retryable: BOOLEAN]

EmptyStore == [attempted |-> None, successful |-> None, abandoned |-> None,
               count |-> 0, retryable |-> FALSE]

(* Fault variant: the cursor forgets abandoned scans. *)
SelectionCursorIgnoresAbandoned(s) == s.successful

SelectionCursor(s) == Later(s.successful, s.abandoned)

RetryTimestamp(s) ==
    IF /\ s.attempted # s.successful
       /\ s.attempted # s.abandoned
       /\ s.retryable
    THEN s.attempted
    ELSE None

\* Any recorded progress; a recorded outcome implies a recorded attempt.
Authoritative(s) ==
    \/ s.attempted # None
    \/ s.successful # None
    \/ s.abandoned # None

SeedLastSuccessful(s, t) ==
    IF t = None \/ Authoritative(s)
    THEN s
    ELSE [s EXCEPT !.attempted = t, !.successful = t]

(* Fault variant: an attempt clears the outcome a retry is recognised by. *)
RecordAttemptClearsOutcome(s, t, n) ==
    [s EXCEPT !.attempted = t, !.count = n, !.retryable = FALSE]

\* The previous outcome is carried over: the attempt has none of its own yet.
RecordAttempt(s, t, n) == [s EXCEPT !.attempted = t, !.count = n]

RecordOutcome(s, t, n, completed, abandon) ==
    [attempted  |-> t,
     successful |-> IF completed THEN t ELSE s.successful,
     abandoned  |-> IF abandon THEN t ELSE s.abandoned,
     count      |-> n,
     retryable  |-> ~completed]

(***************************************************************************)
(* The loop's locals; backoff is monotonic() < retry_not_before.           *)
(***************************************************************************)
Memory == [pending: ScanOrNone, attempts: Nat, successful: ScanOrNone,
           abandoned: ScanOrNone, cursor: ScanOrNone, backoff: BOOLEAN]

NoMemory == [pending |-> None, attempts |-> 0, successful |-> None,
             abandoned |-> None, cursor |-> None, backoff |-> FALSE]

(* Fault variant: the attempt count is not carried over.                   *)
RecoverForgetsCount(s) ==
    [NoMemory EXCEPT !.pending = RetryTimestamp(s), !.successful = s.successful,
                     !.abandoned = s.abandoned, !.cursor = SelectionCursor(s)]

Recover(s) ==
    [pending    |-> RetryTimestamp(s),
     attempts   |-> IF RetryTimestamp(s) # None THEN s.count ELSE 0,
     successful |-> s.successful,
     abandoned  |-> s.abandoned,
     cursor     |-> SelectionCursor(s),
     backoff    |-> FALSE]

Init ==
    /\ store = EmptyStore
    /\ watermark \in ScanOrNone
    /\ newest = watermark
    /\ mode = "down"
    /\ mem = NoMemory
    /\ tries = [t \in Scans |-> 0]
    /\ done = {}
    /\ dropped = {}
    /\ crashes = 0

(***************************************************************************)
(* Startup: load the store, migrate the stormcell watermark into an empty  *)
(* one, and rebuild the locals from what is on disk.                       *)
(***************************************************************************)
Start ==
    /\ mode = "down"
    /\ store' = SeedLastSuccessful(store, watermark)
    /\ mem' = Recover(store')
    /\ mode' = "poll"
    /\ UNCHANGED <<watermark, newest, tries, done, dropped, crashes>>

\* The external MRMS source publishes a newer scan.
PublishScan ==
    /\ newest < MaxScan
    /\ newest' = newest + 1
    /\ UNCHANGED <<store, watermark, mode, mem, tries, done, dropped, crashes>>

(* Fault variant: the candidate is not compared with the cursor. *)
SelectAnyScan(t) ==
    /\ mode = "poll"
    /\ mem.pending = None
    /\ t <= newest
    /\ mem' = [mem EXCEPT !.pending = t, !.attempts = 0]
    /\ UNCHANGED <<store, watermark, newest, mode, tries, done, dropped, crashes>>

\* latest_common_minute_1h, or the HTTPS fallback, reports t.  A product that
\* lags or a listing that fails can make t older than the newest scan.
SelectScan(t) ==
    /\ mode = "poll"
    /\ mem.pending = None
    /\ t <= newest
    /\ t > mem.cursor
    /\ mem' = [mem EXCEPT !.pending = t, !.attempts = 0]
    /\ UNCHANGED <<store, watermark, newest, mode, tries, done, dropped, crashes>>

BeginAttempt ==
    /\ mode = "poll"
    /\ mem.pending # None
    /\ ~mem.backoff
    /\ mem' = [mem EXCEPT !.attempts = @ + 1]
    /\ store' = RecordAttempt(store, mem.pending, mem.attempts + 1)
    /\ tries' = [tries EXCEPT ![mem.pending] = @ + 1]
    /\ mode' = "cycle"
    /\ UNCHANGED <<watermark, newest, done, dropped, crashes>>

CompleteCycle ==
    /\ mode = "cycle"
    /\ store' = RecordOutcome(store, mem.pending, mem.attempts, TRUE, FALSE)
    /\ mem' = [mem EXCEPT !.pending = None, !.attempts = 0, !.backoff = FALSE,
                          !.successful = mem.pending,
                          !.cursor = Later(mem.pending, mem.abandoned)]
    /\ done' = done \cup {mem.pending}
    /\ mode' = "poll"
    /\ UNCHANGED <<watermark, newest, tries, dropped, crashes>>

RetryLater ==
    /\ mode = "cycle"
    /\ mem.attempts < MaxAttempts
    /\ store' = RecordOutcome(store, mem.pending, mem.attempts, FALSE, FALSE)
    /\ mem' = [mem EXCEPT !.backoff = TRUE]
    /\ mode' = "poll"
    /\ UNCHANGED <<watermark, newest, tries, done, dropped, crashes>>

AbandonScan ==
    /\ mode = "cycle"
    /\ mem.attempts >= MaxAttempts
    /\ store' = RecordOutcome(store, mem.pending, mem.attempts, FALSE, TRUE)
    /\ mem' = [mem EXCEPT !.pending = None, !.attempts = 0, !.backoff = FALSE,
                          !.abandoned = mem.pending,
                          !.cursor = Later(mem.successful, mem.pending)]
    /\ dropped' = dropped \cup {mem.pending}
    /\ mode' = "poll"
    /\ UNCHANGED <<watermark, newest, tries, done, crashes>>

BackoffElapses ==
    /\ mode = "poll"
    /\ mem.backoff
    /\ mem' = [mem EXCEPT !.backoff = FALSE]
    /\ UNCHANGED <<store, watermark, newest, mode, tries, done, dropped, crashes>>

\* Death at any point: a kill, an exception that leaves the loop, or a stop.
Crash ==
    /\ mode # "down"
    /\ crashes < MaxCrashes
    /\ crashes' = crashes + 1
    /\ mode' = "down"
    /\ mem' = NoMemory
    /\ UNCHANGED <<store, watermark, newest, tries, done, dropped>>

FinishCycle == CompleteCycle \/ RetryLater \/ AbandonScan

Next ==
    \/ Start
    \/ PublishScan
    \/ \E t \in Scans : SelectScan(t)
    \/ BeginAttempt
    \/ FinishCycle
    \/ BackoffElapses
    \/ Crash

(***************************************************************************)
(* The service is restarted by its supervisor, a cycle ends (every worker  *)
(* wait is released and joined), and a backoff is a finite delay.  Nothing *)
(* is assumed of the source or of which way a cycle ends.                  *)
(***************************************************************************)
Fairness ==
    /\ WF_vars(Start)
    /\ WF_vars(BeginAttempt)
    /\ WF_vars(FinishCycle)
    /\ WF_vars(BackoffElapses)

Spec == Init /\ [][Next]_vars
FairSpec == Spec /\ Fairness

-----------------------------------------------------------------------------

\* Types of the variables.
TypeOK ==
    /\ store \in Store
    /\ watermark \in ScanOrNone
    /\ newest \in ScanOrNone
    /\ mode \in {"down", "poll", "cycle"}
    /\ mem \in Memory
    /\ tries \in [Scans -> Nat]
    /\ done \in SUBSET Scans
    /\ dropped \in SUBSET Scans
    /\ crashes \in 0..MaxCrashes

Settled == done \cup dropped

\* The cursor a poll selects by is the one a restart would read back: no
\* completion or abandonment is known to the loop but not to the disk.
CursorIsDurable ==
    mode # "down" => /\ mem.cursor = SelectionCursor(store)
                     /\ mem.successful = store.successful
                     /\ mem.abandoned = store.abandoned

\* cycle_state.json tells the truth: last_successful really completed (or is
\* the migrated watermark), last_abandoned really was abandoned, and no scan
\* is ever both.
StoreIsTruthful ==
    /\ store.successful \in done \cup {None, watermark}
    /\ store.abandoned \in dropped \cup {None}
    /\ done \cap dropped = {}

\* A scan is attempted at most MaxAttempts times plus once per crash: only an
\* attempt cut short by a death of the service escapes the retry policy.
AttemptBudget == \A t \in Scans : tries[t] <= MaxAttempts + crashes

\* The scan the service, or its next incarnation, is committed to retry.
Owned(t) ==
    IF mode = "down" THEN t = RetryTimestamp(store) ELSE t = mem.pending

\* A scan is only ever lost, neither settled nor about to be retried, when each
\* of its attempts was cut short by a death of the service.
LossNeedsCrash ==
    \A t \in Scans : tries[t] > crashes => t \in Settled \/ Owned(t)

\* A scan that completed or was abandoned is never attempted again, whatever
\* crashes and restarts come between.
SettledNeverReattempted ==
    [][\A t \in Scans : tries'[t] # tries[t] => t \notin Settled]_vars

\* Scans are settled in timestamp order: each settlement is of a scan newer
\* than every one settled before it, and nothing is ever unsettled.
SettledInOrder ==
    [][/\ Settled \subseteq Settled'
       /\ \A t \in Settled' \ Settled : \A s \in Settled : s < t]_vars

\* A scan whose failure was recorded as retryable and is not yet abandoned is
\* eventually settled, although the service may die and restart meanwhile.
RetryReachesAnEnd ==
    \A t \in Scans :
        (RetryTimestamp(store) = t) ~> (t \in Settled)

\* The service implements the ledger of scans: seen through the durable cursor,
\* every step settles one newer scan, migrates an empty store, or stutters.
Ledger == INSTANCE ScanLedger WITH cursor <- SelectionCursor(store)
ImplementsLedger == Ledger!Spec

-----------------------------------------------------------------------------
(***************************************************************************)
(* The inductive invariant behind the safety properties.                   *)
(***************************************************************************)

\* A scan still to be run lies ahead of everything settled.
PendingAhead ==
    /\ mode = "down" => mem = NoMemory
    /\ mem.pending # None => mem.pending > SelectionCursor(store)
    /\ mode = "cycle" => mem.pending # None
    /\ RetryTimestamp(store) # None => RetryTimestamp(store) > SelectionCursor(store)
    /\ Settled \subseteq 1..SelectionCursor(store)

\* Loop and store agree on which scan is being retried, and how often so far.
RetryAgrees ==
    /\ mode = "poll" => \/ /\ RetryTimestamp(store) = mem.pending
                           /\ mem.pending # None => store.count = mem.attempts
                        \/ /\ RetryTimestamp(store) = None
                           /\ mem.attempts = 0
    /\ mode = "cycle" => /\ store.attempted = mem.pending
                         /\ store.count = mem.attempts
                         /\ ~store.retryable => mem.attempts = 1

\* Every attempt is one the retry count knows of or one that a crash cut short.
TriesAccounted ==
    \A t \in Scans :
        /\ tries[t] <= MaxAttempts + crashes
        /\ t \notin Settled =>
            /\ ~(mode = "cycle" /\ mem.pending = t) => tries[t] < MaxAttempts + crashes
            /\ ~Owned(t) => tries[t] <= crashes
            /\ Owned(t) =>
                 tries[t] <= crashes + (IF mode = "down" THEN store.count ELSE mem.attempts)

\* The loop, cycle_state.json and the history of the attempts agree in every
\* reachable state: the cursor in memory is the one on disk, the file tells the
\* truth, what is still to be run lies ahead of what is settled, loop and file
\* know the same retry and its count, and each attempt is accounted for.
IInv ==
    /\ TypeOK
    /\ CursorIsDurable
    /\ StoreIsTruthful
    /\ PendingAhead
    /\ RetryAgrees
    /\ TriesAccounted

=============================================================================
