------------------------- MODULE PrimaryCycleProofs -------------------------
(***************************************************************************)
(* Proofs about the primary cycle: the attempts at a scan and what is kept *)
(* of them across crashes, for every MaxScan, MaxAttempts and MaxCrashes   *)
(* (PrimaryCycle), and the inside of one attempt (CycleRun).               *)
(***************************************************************************)
EXTENDS PrimaryCycle, CycleRun, TLAPS

(***************************************************************************)
(* Facts about the operators on the persisted state.                       *)
(***************************************************************************)

\* The selection cursor is the newer of the two settled timestamps.
LEMMA CursorFacts ==
    ASSUME NEW s \in Store
    PROVE  /\ SelectionCursor(s) \in ScanOrNone
           /\ s.successful <= SelectionCursor(s)
           /\ s.abandoned <= SelectionCursor(s)
           /\ SelectionCursor(s) \in {s.successful, s.abandoned}
  BY PrimaryAssumption DEF Store, SelectionCursor, Later, ScanOrNone, None

\* A retry timestamp is the last attempted scan, and its failure is on record.
LEMMA RetryFacts ==
    ASSUME NEW s \in Store
    PROVE  /\ RetryTimestamp(s) \in ScanOrNone
           /\ RetryTimestamp(s) # None =>
                /\ RetryTimestamp(s) = s.attempted
                /\ s.retryable
           /\ s.attempted > SelectionCursor(s) /\ s.retryable =>
                RetryTimestamp(s) = s.attempted
           /\ ~s.retryable => RetryTimestamp(s) = None
  BY PrimaryAssumption, CursorFacts DEF Store, RetryTimestamp, ScanOrNone, None

\* The migration of the stormcell watermark only fills an empty store, and
\* leaves no retry behind.
LEMMA SeedFacts ==
    ASSUME NEW s \in Store, NEW t \in ScanOrNone
    PROVE  LET n == SeedLastSuccessful(s, t) IN
           /\ n \in Store
           /\ RetryTimestamp(n) = RetryTimestamp(s)
           /\ n.count = s.count
           /\ n.successful \in {s.successful, t}
           /\ n.abandoned = s.abandoned
           /\ SelectionCursor(s) <= SelectionCursor(n)
           /\ SelectionCursor(n) # SelectionCursor(s) =>
                /\ SelectionCursor(s) = None
                /\ SelectionCursor(n) = t
                /\ RetryTimestamp(s) = None
  <1> DEFINE n == SeedLastSuccessful(s, t)
  <1>1. CASE t = None \/ Authoritative(s)
    <2>1. n = s
      BY <1>1 DEF SeedLastSuccessful
    <2> QED
      BY <2>1, CursorFacts, PrimaryAssumption DEF Store, ScanOrNone
  <1>2. CASE ~(t = None \/ Authoritative(s))
    <2>1. n = [s EXCEPT !.attempted = t, !.successful = t]
      BY <1>2 DEF SeedLastSuccessful
    <2>2. s.attempted = None /\ s.successful = None /\ s.abandoned = None
      BY <1>2 DEF Authoritative
    <2>3. /\ n \in Store
          /\ n.attempted = t /\ n.successful = t
          /\ n.abandoned = None /\ n.count = s.count
      BY <2>1, <2>2 DEF Store
    <2>4. RetryTimestamp(n) = None /\ RetryTimestamp(s) = None
      BY <2>2, <2>3 DEF RetryTimestamp
    <2>5. SelectionCursor(n) = t /\ SelectionCursor(s) = None /\ None <= t
      BY <2>2, <2>3, PrimaryAssumption
      DEF SelectionCursor, Later, ScanOrNone, None
    <2> QED
      BY <2>2, <2>3, <2>4, <2>5
  <1> QED
    BY <1>1, <1>2

\* The store after an attempt at scan t, which leaves the cursor alone.
LEMMA AttemptFacts ==
    ASSUME NEW s \in Store, NEW t \in Scans, NEW n \in Nat
    PROVE  LET u == RecordAttempt(s, t, n) IN
           /\ u \in Store
           /\ u = [s EXCEPT !.attempted = t, !.count = n]
           /\ SelectionCursor(u) = SelectionCursor(s)
  <1> DEFINE u == RecordAttempt(s, t, n)
  <1>1. t \in ScanOrNone
    BY PrimaryAssumption DEF Scans, ScanOrNone
  <1>2. u \in Store /\ u.successful = s.successful /\ u.abandoned = s.abandoned
    BY <1>1 DEF Store, RecordAttempt
  <1> QED
    BY <1>2 DEF SelectionCursor, RecordAttempt

\* The store after an outcome of scan t, newer than everything settled: the
\* cursor moves to t exactly when t was settled, and otherwise t is retried.
LEMMA OutcomeFacts ==
    ASSUME NEW s \in Store, NEW t \in Scans, NEW n \in Nat,
           NEW c \in BOOLEAN, NEW a \in BOOLEAN,
           t > SelectionCursor(s)
    PROVE  LET o == RecordOutcome(s, t, n, c, a) IN
           /\ o \in Store
           /\ o.attempted = t /\ o.retryable = ~c /\ o.count = n
           /\ o.successful = (IF c THEN t ELSE s.successful)
           /\ o.abandoned = (IF a THEN t ELSE s.abandoned)
           /\ SelectionCursor(o) = IF c \/ a THEN t ELSE SelectionCursor(s)
           /\ RetryTimestamp(o) = IF c \/ a THEN None ELSE t
  <1> DEFINE o == RecordOutcome(s, t, n, c, a)
  <1>1. s.successful < t /\ s.abandoned < t /\ t \in ScanOrNone /\ t # None
    BY CursorFacts, PrimaryAssumption DEF Store, Scans, ScanOrNone, None
  <1>2. /\ o \in Store
        /\ o.attempted = t /\ o.retryable = ~c /\ o.count = n
        /\ o.successful = (IF c THEN t ELSE s.successful)
        /\ o.abandoned = (IF a THEN t ELSE s.abandoned)
    BY <1>1 DEF Store, RecordOutcome
  <1>3. SelectionCursor(o) = IF c \/ a THEN t ELSE SelectionCursor(s)
    BY <1>1, <1>2, PrimaryAssumption DEF SelectionCursor, Later, Store, ScanOrNone, Scans
  <1>4. RetryTimestamp(o) = IF c \/ a THEN None ELSE t
    BY <1>1, <1>2, PrimaryAssumption DEF RetryTimestamp, Store, ScanOrNone, Scans
  <1> QED
    BY <1>2, <1>3, <1>4

(***************************************************************************)
(* The inductive invariant.                                                *)
(***************************************************************************)
\* The loop starts within the invariant.
LEMMA InitInv == Init => IInv
  BY PrimaryAssumption
  DEF Init, IInv, TypeOK, CursorIsDurable, StoreIsTruthful, PendingAhead,
      RetryAgrees, TriesAccounted, Owned, EmptyStore, Store, NoMemory, Memory,
      SelectionCursor, RetryTimestamp, Later, Settled, Scans, ScanOrNone, None

\* A start keeps it: the locals are rebuilt from the store they must agree with.
LEMMA StartInv == IInv /\ Start => IInv'
  <1> SUFFICES ASSUME IInv, Start PROVE IInv'
    OBVIOUS
  <1> USE DEF IInv
  <1>1. /\ store \in Store /\ watermark \in ScanOrNone
        /\ store' \in Store /\ mode = "down" /\ mode' = "poll"
    BY SeedFacts DEF TypeOK, Start
  <1>2. /\ RetryTimestamp(store') = RetryTimestamp(store)
        /\ store'.count = store.count
        /\ SelectionCursor(store) <= SelectionCursor(store')
        /\ SelectionCursor(store') # SelectionCursor(store) =>
             /\ SelectionCursor(store) = None
             /\ RetryTimestamp(store) = None
    BY <1>1, SeedFacts DEF Start
  <1>3. /\ mem'.pending = RetryTimestamp(store)
        /\ mem'.attempts = IF RetryTimestamp(store) # None THEN store.count ELSE 0
        /\ mem'.cursor = SelectionCursor(store')
        /\ mem'.successful = store'.successful
        /\ mem'.abandoned = store'.abandoned
    BY <1>2 DEF Start, Recover
  <1>4. TypeOK'
    BY <1>1, <1>2, CursorFacts, RetryFacts, PrimaryAssumption
    DEF TypeOK, Start, Recover, Memory, Store
  <1>5. CursorIsDurable'
    BY <1>3 DEF CursorIsDurable
  <1>6. StoreIsTruthful'
    BY <1>1, SeedFacts DEF StoreIsTruthful, Start
  <1>7. PendingAhead'
    <2>1. SelectionCursor(store) \in Nat /\ SelectionCursor(store') \in Nat
      BY <1>1, CursorFacts, PrimaryAssumption DEF ScanOrNone
    <2>2. Settled \subseteq 1..SelectionCursor(store')
      BY <1>2, <2>1 DEF PendingAhead
    <2>3. Settled' = Settled
      BY DEF Start, Settled
    <2> QED
      BY <1>1, <1>2, <1>3, <2>1, <2>2, <2>3, RetryFacts, PrimaryAssumption
      DEF PendingAhead, ScanOrNone, None
  <1>8. RetryAgrees'
    BY <1>1, <1>2, <1>3 DEF RetryAgrees
  <1>9. TriesAccounted'
    BY <1>1, <1>2, <1>3, PrimaryAssumption
    DEF TriesAccounted, Start, Settled, Owned, TypeOK, Store, Scans, None
  <1> QED
    BY <1>4, <1>5, <1>6, <1>7, <1>8, <1>9

\* PublishScan and BackoffElapses touch nothing the invariant speaks of.
LEMMA QuietInv == IInv /\ (PublishScan \/ BackoffElapses) => IInv'
  <1> SUFFICES ASSUME IInv, PublishScan \/ BackoffElapses PROVE IInv'
    OBVIOUS
  <1>1. TypeOK'
    <2>1. CASE PublishScan
      BY <2>1, PrimaryAssumption DEF IInv, TypeOK, PublishScan, ScanOrNone
    <2>2. CASE BackoffElapses
      BY <2>2 DEF IInv, TypeOK, BackoffElapses, Memory
    <2> QED
      BY <2>1, <2>2
  <1>2. /\ UNCHANGED <<store, watermark, mode, tries, done, dropped, crashes>>
        /\ mem'.pending = mem.pending /\ mem'.attempts = mem.attempts
        /\ mem'.successful = mem.successful /\ mem'.abandoned = mem.abandoned
        /\ mem'.cursor = mem.cursor
        /\ mode = "down" => mem' = mem
    BY DEF IInv, TypeOK, PublishScan, BackoffElapses, Memory
  <1> QED
    BY <1>1, <1>2
    DEF IInv, CursorIsDurable, StoreIsTruthful, PendingAhead, RetryAgrees,
        TriesAccounted, Owned, Settled

\* A newly selected scan lies ahead of the cursor, with no retry outstanding.
LEMMA SelectInv == ASSUME IInv, NEW t \in Scans, SelectScan(t) PROVE IInv'
  <1> USE DEF IInv
  <1>1. /\ mode = "poll" /\ mem.pending = None /\ t > SelectionCursor(store)
        /\ mem'.pending = t /\ mem'.attempts = 0
        /\ mem'.successful = mem.successful /\ mem'.abandoned = mem.abandoned
        /\ mem'.cursor = mem.cursor
        /\ UNCHANGED <<store, watermark, mode, tries, done, dropped, crashes>>
    BY DEF SelectScan, TypeOK, Memory, CursorIsDurable
  <1>2. TypeOK'
    <2>1. t \in ScanOrNone
      BY PrimaryAssumption DEF Scans, ScanOrNone
    <2> QED
      BY <2>1 DEF TypeOK, SelectScan, Memory
  <1>3. CursorIsDurable' /\ StoreIsTruthful'
    BY <1>1 DEF CursorIsDurable, StoreIsTruthful
  <1>4. RetryTimestamp(store) = None
    BY <1>1 DEF RetryAgrees
  <1>5. PendingAhead'
    BY <1>1, <1>4 DEF PendingAhead, Settled
  <1>6. RetryAgrees'
    BY <1>1, <1>4 DEF RetryAgrees
  <1>7. TriesAccounted'
    BY <1>1, PrimaryAssumption
    DEF TriesAccounted, Settled, Owned, Scans, None, TypeOK
  <1> QED
    BY <1>2, <1>3, <1>5, <1>6, <1>7

\* An attempt is counted in the store, in memory and in the history at once.
LEMMA BeginInv == ASSUME IInv, BeginAttempt PROVE IInv'
  <1> USE DEF IInv
  <1> DEFINE p == mem.pending
  <1>1. /\ mode = "poll" /\ mode' = "cycle" /\ p \in Scans /\ p # None
        /\ p > SelectionCursor(store)
        /\ mem.attempts \in Nat /\ mem.attempts + 1 \in Nat
        /\ store \in Store /\ store' = RecordAttempt(store, p, mem.attempts + 1)
    BY PrimaryAssumption
    DEF BeginAttempt, TypeOK, Memory, PendingAhead, ScanOrNone, Scans, None
  <1>2. /\ mem'.pending = p /\ mem'.attempts = mem.attempts + 1
        /\ mem'.cursor = mem.cursor
        /\ mem'.successful = mem.successful /\ mem'.abandoned = mem.abandoned
    BY DEF BeginAttempt, TypeOK, Memory
  <1>3. /\ store' \in Store
        /\ SelectionCursor(store') = SelectionCursor(store)
    BY <1>1, AttemptFacts
  <1>4. /\ store'.attempted = p /\ store'.count = mem.attempts + 1
        /\ store'.successful = store.successful
        /\ store'.abandoned = store.abandoned
        /\ store'.retryable = store.retryable
    BY <1>1 DEF RecordAttempt, Store
  <1>5. p \notin Settled
    BY <1>1, CursorFacts, PrimaryAssumption DEF PendingAhead, ScanOrNone, Scans
  <1>6. TypeOK'
    BY <1>1, <1>3 DEF TypeOK, BeginAttempt, Memory
  <1>7. CursorIsDurable' /\ StoreIsTruthful'
    BY <1>1, <1>2, <1>3, <1>4 DEF CursorIsDurable, StoreIsTruthful, BeginAttempt
  <1>8. PendingAhead'
    <2>1. RetryTimestamp(store') \in {None, p}
      BY <1>4 DEF RetryTimestamp
    <2>2. RetryTimestamp(store') # None => RetryTimestamp(store') > SelectionCursor(store')
      BY <1>1, <1>3, <2>1
    <2>3. Settled' = Settled
      BY DEF Settled, BeginAttempt
    <2> QED
      BY <1>1, <1>2, <1>3, <2>2, <2>3 DEF PendingAhead
  <1>9. RetryAgrees'
    <2>1. ~store.retryable => mem.attempts = 0
      BY <1>1, RetryFacts DEF RetryAgrees
    <2> QED
      BY <1>1, <1>2, <1>4, <2>1 DEF RetryAgrees
  <1>10. TriesAccounted'
    <2> SUFFICES ASSUME NEW t \in Scans
                 PROVE  /\ tries'[t] <= MaxAttempts + crashes
                        /\ t \notin Settled =>
                             /\ t # p => tries'[t] < MaxAttempts + crashes
                             /\ t # p => tries'[t] <= crashes
                             /\ t = p => tries'[t] <= crashes + mem.attempts + 1
      BY <1>1, <1>2, PrimaryAssumption, SMTT(30)
      DEF TriesAccounted, Owned, Settled, BeginAttempt, TypeOK, Scans
    <2>1. tries[t] \in Nat /\ crashes \in Nat /\ MaxAttempts \in Nat
      BY PrimaryAssumption DEF TypeOK
    <2>2. CASE t = p
      <3>1. tries'[t] = tries[t] + 1
        BY <2>2 DEF BeginAttempt, TypeOK
      <3>2. tries[t] < MaxAttempts + crashes /\ tries[t] <= crashes + mem.attempts
        BY <1>1, <1>5, <2>2 DEF TriesAccounted, Owned
      <3> QED
        BY <2>1, <2>2, <3>1, <3>2, <1>1
    <2>3. CASE t # p
      <3>1. tries'[t] = tries[t]
        BY <2>3 DEF BeginAttempt, TypeOK
      <3> QED
        BY <1>1, <2>3, <3>1 DEF TriesAccounted, Owned
    <2> QED
      BY <2>2, <2>3
  <1> QED
    BY <1>6, <1>7, <1>8, <1>9, <1>10

\* What the three ways a cycle may end have in common.
LEMMA EndFacts ==
    ASSUME IInv, mode = "cycle", NEW c \in BOOLEAN, NEW a \in BOOLEAN,
           store' = RecordOutcome(store, mem.pending, mem.attempts, c, a)
    PROVE  /\ mem.pending \in Scans /\ mem.pending # None
           /\ mem.pending > SelectionCursor(store)
           /\ mem.pending \notin Settled
           /\ mem.attempts \in Nat
           /\ store' \in Store
           /\ store'.attempted = mem.pending /\ store'.retryable = ~c
           /\ store'.count = mem.attempts
           /\ store'.successful = (IF c THEN mem.pending ELSE mem.successful)
           /\ store'.abandoned = (IF a THEN mem.pending ELSE mem.abandoned)
           /\ SelectionCursor(store') =
                IF c \/ a THEN mem.pending ELSE SelectionCursor(store)
           /\ RetryTimestamp(store') = IF c \/ a THEN None ELSE mem.pending
           /\ Settled \subseteq 1..SelectionCursor(store)
           /\ SelectionCursor(store) \in Nat
           /\ mem.successful \in ScanOrNone /\ mem.abandoned \in ScanOrNone
           /\ mem.successful < mem.pending /\ mem.abandoned < mem.pending
  <1> USE DEF IInv
  <1>1. /\ mem.pending \in Scans /\ mem.pending # None /\ mem.attempts \in Nat
        /\ mem.pending > SelectionCursor(store)
        /\ Settled \subseteq 1..SelectionCursor(store)
        /\ store \in Store
        /\ mem.successful = store.successful /\ mem.abandoned = store.abandoned
        /\ mem.successful \in ScanOrNone /\ mem.abandoned \in ScanOrNone
    BY PrimaryAssumption
    DEF PendingAhead, CursorIsDurable, TypeOK, Memory, Scans, ScanOrNone, None
  <1>2. SelectionCursor(store) \in Nat
    BY <1>1, CursorFacts, PrimaryAssumption DEF ScanOrNone
  <1>3. mem.pending \notin Settled
    BY <1>1, <1>2, PrimaryAssumption DEF Scans
  <1>4. mem.successful < mem.pending /\ mem.abandoned < mem.pending
    BY <1>1, <1>2, CursorFacts, PrimaryAssumption DEF Scans, ScanOrNone
  <1> QED
    BY <1>1, <1>2, <1>3, <1>4, OutcomeFacts

\* A recorded retryable failure leaves the same scan pending on both sides.
LEMMA RetryLaterInv == ASSUME IInv, RetryLater PROVE IInv'
  <1> USE DEF IInv
  <1> DEFINE p == mem.pending
  <1>1. /\ mode = "cycle" /\ mode' = "poll" /\ mem.attempts < MaxAttempts
        /\ UNCHANGED <<watermark, newest, tries, done, dropped, crashes>>
        /\ store' = RecordOutcome(store, p, mem.attempts, FALSE, FALSE)
        /\ mem'.pending = p /\ mem'.attempts = mem.attempts
        /\ mem'.successful = mem.successful /\ mem'.abandoned = mem.abandoned
        /\ mem'.cursor = mem.cursor
    BY DEF RetryLater, TypeOK, Memory
  <1>2. /\ p \in Scans /\ p # None /\ p > SelectionCursor(store)
        /\ mem.attempts \in Nat /\ store' \in Store
        /\ SelectionCursor(store') = SelectionCursor(store)
        /\ RetryTimestamp(store') = p
        /\ store'.count = mem.attempts
        /\ store'.successful = mem.successful
        /\ store'.abandoned = mem.abandoned
    BY <1>1, EndFacts
  <1>3. TypeOK'
    BY <1>1, <1>2 DEF TypeOK, RetryLater, Memory
  <1>4. CursorIsDurable' /\ StoreIsTruthful'
    BY <1>1, <1>2 DEF CursorIsDurable, StoreIsTruthful
  <1>5. PendingAhead'
    BY <1>1, <1>2 DEF PendingAhead, Settled
  <1>6. RetryAgrees'
    BY <1>1, <1>2 DEF RetryAgrees
  <1>7. TriesAccounted'
    BY <1>1, <1>2, PrimaryAssumption
    DEF TriesAccounted, Owned, Settled, TypeOK
  <1> QED
    BY <1>3, <1>4, <1>5, <1>6, <1>7

\* Completing a cycle and abandoning a scan both settle the pending scan.
LEMMA SettleInv == ASSUME IInv, CompleteCycle \/ AbandonScan PROVE IInv'
  <1> USE DEF IInv
  <1> DEFINE p == mem.pending
  <1>1. PICK c \in BOOLEAN, a \in BOOLEAN :
          /\ a # c
          /\ mode = "cycle"
          /\ store' = RecordOutcome(store, p, mem.attempts, c, a)
          /\ mem' = [mem EXCEPT !.pending = None, !.attempts = 0, !.backoff = FALSE,
                       !.successful = IF c THEN p ELSE mem.successful,
                       !.abandoned = IF c THEN mem.abandoned ELSE p,
                       !.cursor = IF c THEN Later(p, mem.abandoned)
                                       ELSE Later(mem.successful, p)]
          /\ done' = (IF c THEN done \cup {p} ELSE done)
          /\ dropped' = (IF c THEN dropped ELSE dropped \cup {p})
          /\ mode' = "poll"
          /\ UNCHANGED <<watermark, newest, tries, crashes>>
    <2>1. CASE CompleteCycle
      <3>1. mem' = [mem EXCEPT !.pending = None, !.attempts = 0, !.backoff = FALSE,
                       !.successful = p, !.abandoned = mem.abandoned,
                       !.cursor = Later(p, mem.abandoned)]
        BY <2>1 DEF CompleteCycle, TypeOK, Memory
      <3> QED
        BY <2>1, <3>1 DEF CompleteCycle
    <2>2. CASE AbandonScan
      <3>1. mem' = [mem EXCEPT !.pending = None, !.attempts = 0, !.backoff = FALSE,
                       !.successful = mem.successful, !.abandoned = p,
                       !.cursor = Later(mem.successful, p)]
        BY <2>2 DEF AbandonScan, TypeOK, Memory
      <3> QED
        BY <2>2, <3>1 DEF AbandonScan
    <2> QED
      BY <2>1, <2>2
  <1>2. /\ p \in Scans /\ p # None /\ p \in ScanOrNone /\ p \notin Settled
        /\ p > SelectionCursor(store) /\ SelectionCursor(store) \in Nat
        /\ store' \in Store
        /\ SelectionCursor(store') = p
        /\ RetryTimestamp(store') = None
        /\ store'.successful = (IF c THEN p ELSE mem.successful)
        /\ store'.abandoned = (IF c THEN mem.abandoned ELSE p)
        /\ Settled \subseteq 1..SelectionCursor(store)
        /\ Later(p, mem.abandoned) = p /\ Later(mem.successful, p) = p
    <2>1. (c \/ a) /\ (a <=> ~c)
      BY <1>1
    <2>2. /\ p \in Scans /\ p # None /\ p \notin Settled
          /\ p > SelectionCursor(store) /\ SelectionCursor(store) \in Nat
          /\ store' \in Store
          /\ SelectionCursor(store') = IF c \/ a THEN p ELSE SelectionCursor(store)
          /\ RetryTimestamp(store') = IF c \/ a THEN None ELSE p
          /\ store'.successful = (IF c THEN p ELSE mem.successful)
          /\ store'.abandoned = (IF a THEN p ELSE mem.abandoned)
          /\ Settled \subseteq 1..SelectionCursor(store)
          /\ mem.successful \in ScanOrNone /\ mem.abandoned \in ScanOrNone
          /\ mem.successful < p /\ mem.abandoned < p
      BY <1>1, EndFacts
    <2>3. Later(p, mem.abandoned) = p /\ Later(mem.successful, p) = p
      BY <2>2, PrimaryAssumption DEF Scans, ScanOrNone, Later
    <2>4. p \in ScanOrNone
      BY <2>2, PrimaryAssumption DEF Scans, ScanOrNone
    <2> QED
      BY <2>1, <2>2, <2>3, <2>4
  <1>3. Settled' = Settled \cup {p}
    BY <1>1 DEF Settled
  <1>4. TypeOK'
    <2>1. None \in ScanOrNone
      BY PrimaryAssumption DEF None, ScanOrNone
    <2>2. mem' \in Memory
      BY <1>1, <1>2, <2>1 DEF TypeOK, Memory
    <2> QED
      BY <1>1, <1>2, <2>2 DEF TypeOK
  <1>5. CursorIsDurable'
    BY <1>1, <1>2 DEF CursorIsDurable, TypeOK, Memory
  <1>6. StoreIsTruthful'
    BY <1>1, <1>2 DEF StoreIsTruthful, CursorIsDurable, Settled
  <1>7. PendingAhead'
    <2>1. Settled' \subseteq 1..p
      <3>1. p \in Nat /\ p >= 1
        BY <1>2, PrimaryAssumption DEF Scans
      <3>2. \A t \in Settled : t \in 1..p
        BY <1>2, <3>1
      <3> QED
        BY <1>3, <3>1, <3>2
    <2>2. mem'.pending = None
      BY <1>1 DEF TypeOK, Memory
    <2> QED
      BY <1>1, <1>2, <2>1, <2>2 DEF PendingAhead
  <1>8. RetryAgrees'
    BY <1>1, <1>2 DEF RetryAgrees, TypeOK, Memory
  <1>9. TriesAccounted'
    <2>1. mem'.pending = None /\ mem'.attempts = 0
      BY <1>1 DEF TypeOK, Memory
    <2> QED
      BY <1>1, <1>2, <1>3, <2>1, PrimaryAssumption
      DEF TriesAccounted, Owned, TypeOK, Scans, None
  <1> QED
    BY <1>4, <1>5, <1>6, <1>7, <1>8, <1>9

\* A death turns the attempt under way into one only the crash accounts for.
LEMMA CrashInv == ASSUME IInv, Crash PROVE IInv'
  <1> USE DEF IInv
  <1>1. /\ mode # "down" /\ mode' = "down" /\ mem' = NoMemory
        /\ crashes' = crashes + 1 /\ crashes \in Nat
        /\ UNCHANGED <<store, watermark, newest, tries, done, dropped>>
    BY PrimaryAssumption DEF Crash, TypeOK
  <1>2. TypeOK'
    BY PrimaryAssumption DEF TypeOK, Crash, NoMemory, Memory, ScanOrNone, None
  <1>3. CursorIsDurable' /\ StoreIsTruthful' /\ RetryAgrees'
    BY <1>1 DEF CursorIsDurable, StoreIsTruthful, RetryAgrees
  <1>4. PendingAhead'
    BY <1>1 DEF PendingAhead, Settled, NoMemory
  <1>5. TriesAccounted'
    <2> SUFFICES ASSUME NEW t \in Scans
                 PROVE  /\ tries[t] <= MaxAttempts + crashes + 1
                        /\ t \notin Settled =>
                             /\ tries[t] < MaxAttempts + crashes + 1
                             /\ t # RetryTimestamp(store) => tries[t] <= crashes + 1
                             /\ t = RetryTimestamp(store) =>
                                  tries[t] <= crashes + 1 + store.count
      BY <1>1, PrimaryAssumption
      DEF TriesAccounted, Owned, Settled, TypeOK
    <2>1. /\ tries[t] \in Nat /\ MaxAttempts \in Nat /\ mem.attempts \in Nat
          /\ store.count \in Nat /\ store \in Store
      BY PrimaryAssumption DEF TypeOK, Memory, Store
    <2>2. tries[t] <= MaxAttempts + crashes
      BY DEF TriesAccounted
    <2>3. CASE t \in Settled
      BY <1>1, <2>1, <2>2, <2>3
    <2>4. CASE t \notin Settled /\ t # mem.pending
      BY <1>1, <2>1, <2>2, <2>4 DEF TriesAccounted, Owned
    <2>5. CASE t \notin Settled /\ t = mem.pending
      <3>1. tries[t] <= crashes + mem.attempts
        BY <1>1, <2>5 DEF TriesAccounted, Owned
      <3>2. CASE mode = "cycle"
        <4>1. store.attempted = t /\ store.count = mem.attempts
              /\ t > SelectionCursor(store)
          BY <2>5, <3>2 DEF RetryAgrees, PendingAhead
        <4>2. t # RetryTimestamp(store) => mem.attempts = 1
          BY <2>1, <3>2, <4>1, RetryFacts DEF RetryAgrees
        <4> QED
          BY <1>1, <2>1, <2>2, <3>1, <4>1, <4>2
      <3>3. CASE mode = "poll"
        <4>1. t # None
          BY PrimaryAssumption DEF Scans, None
        <4>2. \/ RetryTimestamp(store) = t /\ store.count = mem.attempts
              \/ RetryTimestamp(store) = None /\ mem.attempts = 0
          BY <2>5, <3>3, <4>1 DEF RetryAgrees
        <4> QED
          BY <1>1, <2>1, <2>2, <3>1, <4>1, <4>2
      <3> QED
        BY <1>1, <3>2, <3>3 DEF TypeOK
    <2> QED
      BY <2>3, <2>4, <2>5
  <1> QED
    BY <1>2, <1>3, <1>4, <1>5

\* Every step keeps the invariant.
LEMMA NextInv == IInv /\ [Next]_vars => IInv'
  <1> SUFFICES ASSUME IInv, [Next]_vars PROVE IInv'
    OBVIOUS
  <1>1. CASE Next
    BY <1>1, StartInv, QuietInv, SelectInv, BeginInv, RetryLaterInv, SettleInv, CrashInv
    DEF Next, FinishCycle
  <1>2. CASE UNCHANGED vars
    BY <1>2
    DEF vars, IInv, TypeOK, CursorIsDurable, StoreIsTruthful, PendingAhead,
        RetryAgrees, TriesAccounted, Owned, Settled
  <1> QED
    BY <1>1, <1>2

\* IInv is inductive, so it holds in every reachable state.
THEOREM SpecInv == Spec => []IInv
  BY InitInv, NextInv, PTL DEF Spec

(***************************************************************************)
(* The theorems.                                                           *)
(***************************************************************************)

\* The variables keep their types; in particular the store only ever holds
\* timestamps of scans.
THEOREM TypeCorrect == Spec => []TypeOK
  <1>1. IInv => TypeOK
    BY DEF IInv
  <1> QED
    BY <1>1, SpecInv, PTL

\* The loop's cursor never runs ahead of cycle_state.json, so a restart selects
\* by the cursor the service died with.
THEOREM CursorDurable == Spec => []CursorIsDurable
  <1>1. IInv => CursorIsDurable
    BY DEF IInv
  <1> QED
    BY <1>1, SpecInv, PTL

\* cycle_state.json never reports a scan as completed or abandoned that was not,
\* and no scan ends up both.
THEOREM StoreTruthful == Spec => []StoreIsTruthful
  <1>1. IInv => StoreIsTruthful
    BY DEF IInv
  <1> QED
    BY <1>1, SpecInv, PTL

\* Every scan is attempted at most max_attempts times, plus once per crash.
THEOREM BudgetKept == Spec => []AttemptBudget
  <1>1. IInv => AttemptBudget
    BY DEF IInv, TriesAccounted, AttemptBudget
  <1> QED
    BY <1>1, SpecInv, PTL

\* A scan is lost only when a crash cut short every one of its attempts.
THEOREM LossOnlyByCrash == Spec => []LossNeedsCrash
  <1>1. IInv => LossNeedsCrash
    BY PrimaryAssumption
    DEF IInv, TypeOK, TriesAccounted, LossNeedsCrash
  <1> QED
    BY <1>1, SpecInv, PTL

\* A completed or abandoned scan is never attempted again.
THEOREM NeverReattempted == Spec => SettledNeverReattempted
  <1> DEFINE A == \A t \in Scans : tries'[t] # tries[t] => t \notin Settled
  <1>1. IInv /\ [Next]_vars => [A]_vars
    <2> SUFFICES ASSUME IInv, Next, NEW t \in Scans, tries'[t] # tries[t]
                 PROVE  t \notin Settled
      BY DEF vars
    <2>1. BeginAttempt
      BY DEF Next, Start, PublishScan, SelectScan, FinishCycle, CompleteCycle,
             RetryLater, AbandonScan, BackoffElapses, Crash
    <2>2. t = mem.pending
      BY <2>1 DEF BeginAttempt, IInv, TypeOK
    <2>3. t > SelectionCursor(store) /\ t # None
      BY <2>1, <2>2 DEF BeginAttempt, IInv, PendingAhead
    <2>4. SelectionCursor(store) \in Nat
      BY CursorFacts, PrimaryAssumption DEF IInv, TypeOK, ScanOrNone
    <2> QED
      BY <2>3, <2>4, PrimaryAssumption DEF IInv, PendingAhead, Scans
  <1> QED
    BY <1>1, SpecInv, PTL DEF Spec, SettledNeverReattempted

\* Scans are settled in timestamp order and stay settled.
THEOREM InOrder == Spec => SettledInOrder
  <1> DEFINE A == /\ Settled \subseteq Settled'
                  /\ \A t \in Settled' \ Settled : \A s \in Settled : s < t
  <1>1. IInv /\ [Next]_vars => [A]_vars
    <2> SUFFICES ASSUME IInv, Next PROVE A
      BY DEF vars
    <2>1. CASE CompleteCycle \/ AbandonScan
      <3>1. Settled' = Settled \cup {mem.pending}
        BY <2>1 DEF CompleteCycle, AbandonScan, Settled
      <3>2. /\ mem.pending > SelectionCursor(store) /\ mem.pending \in ScanOrNone
            /\ Settled \subseteq 1..SelectionCursor(store)
        BY <2>1
        DEF IInv, PendingAhead, TypeOK, Memory, CompleteCycle, AbandonScan
      <3>3. SelectionCursor(store) \in Nat
        BY CursorFacts, PrimaryAssumption DEF IInv, TypeOK, ScanOrNone
      <3> QED
        BY <3>1, <3>2, <3>3, PrimaryAssumption DEF ScanOrNone
    <2>2. CASE UNCHANGED <<done, dropped>>
      BY <2>2 DEF Settled
    <2> QED
      BY <2>1, <2>2
      DEF Next, Start, PublishScan, SelectScan, BeginAttempt, FinishCycle,
          RetryLater, BackoffElapses, Crash
  <1> QED
    BY <1>1, SpecInv, PTL DEF Spec, SettledInOrder

\* The service implements ScanLedger through its durable cursor: Start maps to a
\* migration or a stutter, the end of a cycle to a settlement or a stutter.
THEOREM Refinement == Spec => ImplementsLedger
  <1>1. Init => Ledger!Init
    BY DEF Init, Ledger!Init, EmptyStore, SelectionCursor, Later, None
  <1>2. IInv /\ [Next]_vars => [Ledger!Next]_Ledger!vars
    <2> SUFFICES ASSUME IInv, [Next]_vars PROVE [Ledger!Next]_Ledger!vars
      OBVIOUS
    <2> USE DEF Ledger!vars
    <2>0. store \in Store /\ watermark \in ScanOrNone
      BY DEF IInv, TypeOK
    <2>1. CASE Start
      <3>1. store' = SeedLastSuccessful(store, watermark)
            /\ UNCHANGED <<done, dropped>>
        BY <2>1 DEF Start
      <3>2. CASE SelectionCursor(store') = SelectionCursor(store)
        BY <3>1, <3>2
      <3>3. CASE SelectionCursor(store') # SelectionCursor(store)
        <4>1. SelectionCursor(store) = None /\ SelectionCursor(store') = watermark
          BY <2>0, <3>1, <3>3, SeedFacts
        <4>2. watermark \in Scans
          BY <2>0, <3>3, <4>1, PrimaryAssumption DEF Scans, ScanOrNone, None
        <4> QED
          BY <3>1, <4>1, <4>2 DEF Ledger!Next, Ledger!Migrate, None
      <3> QED
        BY <3>2, <3>3
    <2>2. CASE BeginAttempt
      <3>1. mem.pending \in Scans /\ mem.attempts + 1 \in Nat
        BY <2>2, PrimaryAssumption
        DEF BeginAttempt, IInv, TypeOK, Memory, Scans, ScanOrNone, None
      <3> QED
        BY <2>0, <2>2, <3>1, AttemptFacts DEF BeginAttempt
    <2>3. CASE CompleteCycle
      <3>1. /\ mem.pending \in Scans /\ mem.pending > SelectionCursor(store)
            /\ SelectionCursor(store') = mem.pending
        BY <2>3, EndFacts DEF CompleteCycle
      <3> QED
        BY <2>3, <3>1 DEF CompleteCycle, Ledger!Next, Ledger!Complete
    <2>4. CASE AbandonScan
      <3>1. /\ mem.pending \in Scans /\ mem.pending > SelectionCursor(store)
            /\ SelectionCursor(store') = mem.pending
        BY <2>4, EndFacts DEF AbandonScan
      <3> QED
        BY <2>4, <3>1 DEF AbandonScan, Ledger!Next, Ledger!Abandon
    <2>5. CASE RetryLater
      BY <2>5, EndFacts DEF RetryLater
    <2>6. CASE UNCHANGED <<store, done, dropped>>
      BY <2>6
    <2> QED
      BY <2>1, <2>2, <2>3, <2>4, <2>5, <2>6
      DEF Next, FinishCycle, PublishScan, SelectScan, BackoffElapses, Crash, vars
  <1> QED
    BY <1>1, <1>2, SpecInv, PTL DEF Spec, ImplementsLedger, Ledger!Spec

-----------------------------------------------------------------------------
(***************************************************************************)
(* One attempt (CycleRun): in whatever order GLM and the base inputs       *)
(* arrive, and wherever the ingest or the worker fails, integration runs   *)
(* on a manifest that pins all its inputs and only such a run is reported  *)
(* as completed.                                                           *)
(***************************************************************************)
\* The dictionary of the manager, and the worker, as RunTypeOK has them.
Dictionary == [detection: BOOLEAN, integration: BOOLEAN, manifest: SUBSET {"base", "glm"},
               stage: {"pending", "completed", "unavailable", "failed"}]
Process == [pc: {"new", "waitDetection", "pinDetection", "detecting", "waitIntegration",
                 "pinIntegration", "integrating", "leaving", "exited"},
            code: {Unset, "ok", "error"}, killed: BOOLEAN]

\* All that integration needs is staged, aligned and in the manifest.
Whole == {"base"} \cup GlmPart
Pinned == base /\ GlmReady /\ loop # "merge" /\ shared.manifest = Whole

\* The callback that publishes the base inputs is the last one that writes the
\* manifest of the staged ingest; GLM arrives once, and only where it is enabled.
IngestOrder ==
    /\ base => BaseInputsReady /\ coord \in {"finish", "returned", "raised"}
    /\ coord \in {"finish", "returned"} => base = BaseInputsReady
    /\ ~cfg.goes => glmState = "off"
    /\ parent = "start" => glmState = "off" /\ loop = "idle" /\ coord = "fetch"
                          /\ worker.pc = "new"
    /\ parent \notin {"start", "ingest"} => loop = "idle" /\ glmState # "downloading"
    /\ loop = "detectionWritten" => coord = "detection"
    /\ loop = "merged" => base /\ GlmReady

\* Once both have arrived and the callback is over the manifest is whole, and the
\* go-ahead for integration is never given without that.
GoAhead ==
    /\ shared.manifest \subseteq Whole
    /\ base => "base" \in shared.manifest
    /\ base /\ GlmReady /\ loop # "merge" => shared.manifest = Whole
    /\ shared.integration => Pinned
    /\ worker.pc \in {"pinIntegration", "integrating"} => Pinned

\* What the integration read is what it was given, and its verdict is its own.
Verdict ==
    /\ used # {} => Pinned /\ used = Whole
    /\ used # {} => worker.pc \in {"integrating", "leaving", "exited"}
    /\ worker.pc = "integrating" => used = Whole
    /\ shared.stage = "completed" =>
          used = Whole /\ worker.pc \in {"leaving", "exited"}
          /\ (worker.code = "ok" \/ worker.killed)
    /\ worker.killed => worker.pc = "exited" /\ worker.code = "error"
    /\ worker.pc \notin {"leaving", "exited"} => shared.stage = "pending"

\* A report is made once, on the worker's last word.
Reported ==
    /\ parent # "reported" => outcome = NoOutcome
    /\ parent = "reported" =>
          /\ worker.pc = "exited"
          /\ outcome.ingest \in {"completed", "unavailable"}
          /\ outcome.edgewarn \in {"completed", "unavailable", "failed"}
    /\ outcome.edgewarn = "completed" =>
          used = Whole /\ worker.code = "ok" /\ ~worker.killed

RunInv == RunTypeOK /\ IngestOrder /\ GoAhead /\ Verdict /\ Reported

-----------------------------------------------------------------------------
\* An attempt starts within the invariant.
LEMMA InitRunInv == RunInit => RunInv
  <1> SUFFICES ASSUME RunInit PROVE RunInv
    OBVIOUS
  <1> USE DEF RunInit
  <1>1. RunTypeOK
    BY DEF RunTypeOK, Unset, NoOutcome
  <1>2. IngestOrder
    BY DEF IngestOrder
  <1>3. GoAhead
    BY DEF GoAhead
  <1>4. Verdict /\ Reported
    BY DEF Verdict, Reported, NoOutcome, Unset
  <1> QED
    BY <1>1, <1>2, <1>3, <1>4 DEF RunInv

-----------------------------------------------------------------------------
\* What the publications write into the dictionary.
LEMMA Publishes ==
    ASSUME shared \in Dictionary, NEW d \in BOOLEAN, NEW i \in BOOLEAN,
           NEW m \in SUBSET {"base", "glm"}
    PROVE  /\ [shared EXCEPT !.detection = d, !.manifest = m] \in Dictionary
           /\ [shared EXCEPT !.manifest = m, !.integration = i] \in Dictionary
           /\ [shared EXCEPT !.integration = i] \in Dictionary
           /\ [shared EXCEPT !.manifest = m] \in Dictionary
  BY DEF Dictionary

\* What a worker leaves behind.
LEMMA Leaves ==
    ASSUME shared \in Dictionary, worker \in Process,
           NEW stage \in {"completed", "unavailable", "failed"},
           NEW code \in {"ok", "error"}, Leave(stage, code)
    PROVE  shared' \in Dictionary /\ worker' \in Process
  BY DEF Dictionary, Process, Leave

\* The worker goes on.
LEMMA Moves ==
    ASSUME worker \in Process, NEW pc \in {"pinDetection", "detecting", "waitIntegration",
           "pinIntegration", "integrating", "exited"}, Goto(pc)
    PROVE  worker' \in Process
  BY DEF Process, Goto

\* Every step keeps the types.
LEMMA NextRunType == RunTypeOK /\ RunNext => RunTypeOK'
  <1> SUFFICES ASSUME RunTypeOK, RunNext PROVE RunTypeOK'
    OBVIOUS
  <1>0. shared \in Dictionary /\ worker \in Process
    BY DEF RunTypeOK, Dictionary, Process
  <1>1. CASE StartWorker
    BY <1>1 DEF StartWorker, RunTypeOK, workerVars, ingestVars
  <1>2. CASE StartFails
    BY <1>2 DEF StartFails, RunTypeOK, workerVars, ingestVars
  <1>3. CASE Gather
    BY <1>3 DEF Gather, RunTypeOK, workerVars, ingestVars
  <1>4. CASE IngestRaises
    BY <1>4 DEF IngestRaises, RunTypeOK, workerVars, ingestVars
  <1>5. CASE PublishDetection
    <2>1. shared' \in Dictionary
      BY <1>0, <1>5, Publishes DEF PublishDetection, RunTypeOK
    <2> QED
      BY <1>5, <2>1 DEF PublishDetection, RunTypeOK, Dictionary, workerVars, ingestVars
  <1>6. CASE ReleaseDetection
    BY <1>6 DEF ReleaseDetection, RunTypeOK, workerVars, ingestVars
  <1>7. CASE PublishRender
    <2>1. shared' \in Dictionary
      BY <1>0, <1>7, Publishes DEF PublishRender, RunTypeOK
    <2> QED
      BY <1>7, <2>1 DEF PublishRender, RunTypeOK, Dictionary, workerVars, ingestVars
  <1>8. CASE PublishBase
    <2>1. shared' \in Dictionary
      BY <1>0, <1>8, Publishes DEF PublishBase, RunTypeOK
    <2>2. base' \in BOOLEAN
      BY <1>8 DEF PublishBase, RunTypeOK, BaseInputsReady
    <2> QED
      BY <1>8, <2>1, <2>2 DEF PublishBase, RunTypeOK, Dictionary, workerVars, ingestVars
  <1>9. CASE CoordinatorReturns
    BY <1>9 DEF CoordinatorReturns, RunTypeOK, workerVars, ingestVars
  <1>10. CASE GlmArrives
    BY <1>10 DEF GlmArrives, RunTypeOK, workerVars, ingestVars
  <1>11. CASE MergeInputs
    <2>1. shared' \in Dictionary
      BY <1>0, <1>11, Publishes DEF MergeInputs, RunTypeOK, GlmPart, Dictionary
    <2> QED
      BY <1>11, <2>1 DEF MergeInputs, RunTypeOK, Dictionary, workerVars, ingestVars
  <1>12. CASE ReleaseIntegration
    BY <1>12 DEF ReleaseIntegration, RunTypeOK, workerVars, ingestVars
  <1>13. CASE IngestOver
    BY <1>13 DEF IngestOver, RunTypeOK, workerVars, ingestVars
  <1>14. CASE TerminalWrite
    <2>1. shared' \in Dictionary
      BY <1>0, <1>14, Publishes DEF TerminalWrite, RunTypeOK, IngestReady, BaseInputsReady, GlmReady
    <2> QED
      BY <1>14, <2>1 DEF TerminalWrite, RunTypeOK, Dictionary, workerVars, ingestVars
  <1>15. CASE TerminalRelease
    BY <1>15 DEF TerminalRelease, RunTypeOK, workerVars, ingestVars
  <1>16. CASE Report
    BY <1>16 DEF Report, RunTypeOK, workerVars, ingestVars, StageResult, Unset
  <1>17. CASE WakeDetection
    <2>1. shared' \in Dictionary /\ worker' \in Process
      BY <1>0, <1>17, Moves, Leaves DEF WakeDetection
    <2> QED
      BY <1>17, <2>1 DEF WakeDetection, RunTypeOK, Dictionary, Process, ingestVars
  <1>18. CASE PinDetection
    <2>1. shared' \in Dictionary /\ worker' \in Process
      BY <1>0, <1>18, Moves, Leaves DEF PinDetection
    <2> QED
      BY <1>18, <2>1 DEF PinDetection, RunTypeOK, Dictionary, Process, ingestVars
  <1>19. CASE Detect
    <2>1. shared' \in Dictionary /\ worker' \in Process
      BY <1>0, <1>19, Moves, Leaves DEF Detect
    <2> QED
      BY <1>19, <2>1 DEF Detect, RunTypeOK, Dictionary, Process, ingestVars
  <1>20. CASE WakeIntegration
    <2>1. shared' \in Dictionary /\ worker' \in Process
      BY <1>0, <1>20, Moves, Leaves DEF WakeIntegration
    <2> QED
      BY <1>20, <2>1 DEF WakeIntegration, RunTypeOK, Dictionary, Process, ingestVars
  <1>21. CASE PinIntegration
    <2>1. shared' \in Dictionary /\ worker' \in Process
      BY <1>0, <1>21, Moves, Leaves DEF PinIntegration
    <2>2. used' \subseteq {"base", "glm"}
      BY <1>0, <1>21 DEF PinIntegration, RunTypeOK, Dictionary
    <2> QED
      BY <1>21, <2>1, <2>2 DEF PinIntegration, RunTypeOK, Dictionary, Process, ingestVars
  <1>22. CASE Integrate
    <2>1. shared' \in Dictionary /\ worker' \in Process
      BY <1>0, <1>22, Moves, Leaves DEF Integrate
    <2> QED
      BY <1>22, <2>1 DEF Integrate, RunTypeOK, Dictionary, Process, ingestVars
  <1>23. CASE Exit
    BY <1>23 DEF Exit, RunTypeOK, workerVars, ingestVars, Goto, At
  <1>24. CASE Killed
    BY <1>24 DEF Killed, RunTypeOK, workerVars, ingestVars, Unset
  <1> QED
    BY <1>1, <1>2, <1>3, <1>4, <1>5, <1>6, <1>7, <1>8, <1>9, <1>10, <1>11, <1>12,
       <1>13, <1>14, <1>15, <1>16, <1>17, <1>18, <1>19, <1>20, <1>21, <1>22, <1>23, <1>24
    DEF RunNext, Parent, Worker

\* The order of the callbacks is kept.
LEMMA NextIngestOrder == RunInv /\ RunNext => IngestOrder'
  <1> SUFFICES ASSUME RunInv, RunNext PROVE IngestOrder'
    OBVIOUS
  <1> USE DEF RunInv, RunTypeOK, IngestOrder, workerVars, ingestVars, IngestReady,
          BaseInputsReady, GlmReady, At, Goto, Leave
  <1>1. CASE StartWorker
    BY <1>1 DEF StartWorker
  <1>2. CASE StartFails
    BY <1>2 DEF StartFails
  <1>3. CASE Gather
    BY <1>3 DEF Gather
  <1>4. CASE IngestRaises
    BY <1>4 DEF IngestRaises
  <1>5. CASE PublishDetection
    BY <1>5 DEF PublishDetection
  <1>6. CASE ReleaseDetection
    BY <1>6 DEF ReleaseDetection
  <1>7. CASE PublishRender
    BY <1>7 DEF PublishRender
  <1>8. CASE PublishBase
    BY <1>8 DEF PublishBase
  <1>9. CASE CoordinatorReturns
    BY <1>9 DEF CoordinatorReturns
  <1>10. CASE GlmArrives
    BY <1>10 DEF GlmArrives
  <1>11. CASE MergeInputs
    BY <1>11 DEF MergeInputs
  <1>12. CASE ReleaseIntegration
    BY <1>12 DEF ReleaseIntegration
  <1>13. CASE IngestOver
    BY <1>13 DEF IngestOver
  <1>14. CASE TerminalWrite
    BY <1>14 DEF TerminalWrite
  <1>15. CASE TerminalRelease
    BY <1>15 DEF TerminalRelease
  <1>16. CASE Report
    BY <1>16 DEF Report, StageResult
  <1>17. CASE WakeDetection
    BY <1>17 DEF WakeDetection
  <1>18. CASE PinDetection
    BY <1>18 DEF PinDetection
  <1>19. CASE Detect
    BY <1>19 DEF Detect
  <1>20. CASE WakeIntegration
    BY <1>20 DEF WakeIntegration
  <1>21. CASE PinIntegration
    BY <1>21 DEF PinIntegration
  <1>22. CASE Integrate
    BY <1>22 DEF Integrate
  <1>23. CASE Exit
    BY <1>23 DEF Exit
  <1>24. CASE Killed
    BY <1>24 DEF Killed
  <1> QED
    BY <1>1, <1>2, <1>3, <1>4, <1>5, <1>6, <1>7, <1>8, <1>9, <1>10, <1>11, <1>12,
       <1>13, <1>14, <1>15, <1>16, <1>17, <1>18, <1>19, <1>20, <1>21, <1>22, <1>23, <1>24
    DEF RunNext, Parent, Worker

\* Integration is never let go without a whole manifest.
LEMMA NextGoAhead == RunInv /\ RunNext => GoAhead'
  <1> SUFFICES ASSUME RunInv, RunNext PROVE GoAhead'
    OBVIOUS
  <1> USE DEF RunInv, RunTypeOK, IngestOrder, GoAhead, Pinned, Whole, GlmPart,
          workerVars, ingestVars, IngestReady, BaseInputsReady, GlmReady, At, Goto, Leave
  <1>1. CASE StartWorker
    BY <1>1 DEF StartWorker
  <1>2. CASE StartFails
    BY <1>2 DEF StartFails
  <1>3. CASE Gather
    BY <1>3 DEF Gather
  <1>4. CASE IngestRaises
    BY <1>4 DEF IngestRaises
  <1>5. CASE PublishDetection
    BY <1>5 DEF PublishDetection
  <1>6. CASE ReleaseDetection
    BY <1>6 DEF ReleaseDetection
  <1>7. CASE PublishRender
    BY <1>7 DEF PublishRender
  <1>8. CASE PublishBase
    BY <1>8 DEF PublishBase
  <1>9. CASE CoordinatorReturns
    BY <1>9 DEF CoordinatorReturns
  <1>10. CASE GlmArrives
    BY <1>10 DEF GlmArrives
  <1>11. CASE MergeInputs
    <2>1. CASE base /\ GlmReady
      <3>1. shared'.manifest = shared.manifest \cup GlmPart
        BY <1>11, <2>1 DEF MergeInputs
      <3>2. "base" \in shared.manifest
        BY <1>11, <2>1 DEF MergeInputs
      <3>3. shared'.manifest = Whole
        BY <3>1, <3>2
      <3>4. UNCHANGED <<cfg, inputs, coord, base, glmState, worker>> /\ loop' = "merged"
        BY <1>11, <2>1 DEF MergeInputs
      <3> QED
        BY <2>1, <3>3, <3>4
    <2>2. CASE ~(base /\ GlmReady)
      BY <1>11, <2>2 DEF MergeInputs
    <2> QED
      BY <2>1, <2>2
  <1>12. CASE ReleaseIntegration
    BY <1>12 DEF ReleaseIntegration
  <1>13. CASE IngestOver
    BY <1>13 DEF IngestOver
  <1>14. CASE TerminalWrite
    BY <1>14 DEF TerminalWrite
  <1>15. CASE TerminalRelease
    BY <1>15 DEF TerminalRelease
  <1>16. CASE Report
    BY <1>16 DEF Report, StageResult
  <1>17. CASE WakeDetection
    BY <1>17 DEF WakeDetection
  <1>18. CASE PinDetection
    BY <1>18 DEF PinDetection
  <1>19. CASE Detect
    BY <1>19 DEF Detect
  <1>20. CASE WakeIntegration
    BY <1>20 DEF WakeIntegration
  <1>21. CASE PinIntegration
    BY <1>21 DEF PinIntegration
  <1>22. CASE Integrate
    BY <1>22 DEF Integrate
  <1>23. CASE Exit
    BY <1>23 DEF Exit
  <1>24. CASE Killed
    BY <1>24 DEF Killed
  <1> QED
    BY <1>1, <1>2, <1>3, <1>4, <1>5, <1>6, <1>7, <1>8, <1>9, <1>10, <1>11, <1>12,
       <1>13, <1>14, <1>15, <1>16, <1>17, <1>18, <1>19, <1>20, <1>21, <1>22, <1>23, <1>24
    DEF RunNext, Parent, Worker

\* A stage is completed only by the integration of that manifest.
LEMMA NextVerdict == RunInv /\ RunNext => Verdict'
  <1> SUFFICES ASSUME RunInv, RunNext PROVE Verdict'
    OBVIOUS
  <1> USE DEF RunInv, RunTypeOK, IngestOrder, GoAhead, Verdict, Pinned, Whole,
          GlmPart, Unset, workerVars, ingestVars, BaseInputsReady, GlmReady, At, Goto, Leave
  <1>1. CASE StartWorker
    BY <1>1 DEF StartWorker
  <1>2. CASE StartFails
    BY <1>2 DEF StartFails
  <1>3. CASE Gather
    BY <1>3 DEF Gather
  <1>4. CASE IngestRaises
    BY <1>4 DEF IngestRaises
  <1>5. CASE PublishDetection
    BY <1>5 DEF PublishDetection
  <1>6. CASE ReleaseDetection
    BY <1>6 DEF ReleaseDetection
  <1>7. CASE PublishRender
    BY <1>7 DEF PublishRender
  <1>8. CASE PublishBase
    BY <1>8 DEF PublishBase
  <1>9. CASE CoordinatorReturns
    BY <1>9 DEF CoordinatorReturns
  <1>10. CASE GlmArrives
    BY <1>10 DEF GlmArrives
  <1>11. CASE MergeInputs
    BY <1>11 DEF MergeInputs
  <1>12. CASE ReleaseIntegration
    BY <1>12 DEF ReleaseIntegration
  <1>13. CASE IngestOver
    BY <1>13 DEF IngestOver
  <1>14. CASE TerminalWrite
    BY <1>14 DEF TerminalWrite
  <1>15. CASE TerminalRelease
    BY <1>15 DEF TerminalRelease
  <1>16. CASE Report
    BY <1>16 DEF Report, StageResult
  <1>17. CASE WakeDetection
    BY <1>17 DEF WakeDetection
  <1>18. CASE PinDetection
    BY <1>18 DEF PinDetection
  <1>19. CASE Detect
    BY <1>19 DEF Detect
  <1>20. CASE WakeIntegration
    BY <1>20 DEF WakeIntegration
  <1>21. CASE PinIntegration
    BY <1>21 DEF PinIntegration
  <1>22. CASE Integrate
    <2>1. worker.pc = "integrating" /\ used' = used
      BY <1>22 DEF Integrate
    <2>2. \/ Leave("completed", "ok")
          \/ \E code \in {"ok", "error"} : Leave("failed", code)
      BY <1>22 DEF Integrate
    <2>3. CASE Leave("completed", "ok")
      BY <1>22, <2>1, <2>3 DEF Integrate
    <2>4. CASE \E code \in {"ok", "error"} : Leave("failed", code)
      BY <1>22, <2>1, <2>4 DEF Integrate
    <2> QED BY <2>2, <2>3, <2>4
  <1>23. CASE Exit
    BY <1>23 DEF Exit
  <1>24. CASE Killed
    BY <1>24 DEF Killed
  <1> QED
    BY <1>1, <1>2, <1>3, <1>4, <1>5, <1>6, <1>7, <1>8, <1>9, <1>10, <1>11, <1>12,
       <1>13, <1>14, <1>15, <1>16, <1>17, <1>18, <1>19, <1>20, <1>21, <1>22, <1>23, <1>24
    DEF RunNext, Parent, Worker

\* The report repeats the worker's last word.
LEMMA NextReported == RunInv /\ RunNext => Reported'
  <1> SUFFICES ASSUME RunInv, RunNext PROVE Reported'
    OBVIOUS
  <1> USE DEF RunInv, RunTypeOK, Verdict, Reported, NoOutcome, Whole, GlmPart, Unset,
          workerVars, ingestVars, At, Goto, Leave
  <1>1. CASE StartWorker
    BY <1>1 DEF StartWorker
  <1>2. CASE StartFails
    BY <1>2 DEF StartFails
  <1>3. CASE Gather
    BY <1>3 DEF Gather
  <1>4. CASE IngestRaises
    BY <1>4 DEF IngestRaises
  <1>5. CASE PublishDetection
    BY <1>5 DEF PublishDetection
  <1>6. CASE ReleaseDetection
    BY <1>6 DEF ReleaseDetection
  <1>7. CASE PublishRender
    BY <1>7 DEF PublishRender
  <1>8. CASE PublishBase
    BY <1>8 DEF PublishBase
  <1>9. CASE CoordinatorReturns
    BY <1>9 DEF CoordinatorReturns
  <1>10. CASE GlmArrives
    BY <1>10 DEF GlmArrives
  <1>11. CASE MergeInputs
    BY <1>11 DEF MergeInputs
  <1>12. CASE ReleaseIntegration
    BY <1>12 DEF ReleaseIntegration
  <1>13. CASE IngestOver
    BY <1>13 DEF IngestOver
  <1>14. CASE TerminalWrite
    BY <1>14 DEF TerminalWrite
  <1>15. CASE TerminalRelease
    BY <1>15 DEF TerminalRelease
  <1>16. CASE Report
    BY <1>16 DEF Report, StageResult
  <1>17. CASE WakeDetection
    BY <1>17 DEF WakeDetection
  <1>18. CASE PinDetection
    BY <1>18 DEF PinDetection
  <1>19. CASE Detect
    BY <1>19 DEF Detect
  <1>20. CASE WakeIntegration
    BY <1>20 DEF WakeIntegration
  <1>21. CASE PinIntegration
    BY <1>21 DEF PinIntegration
  <1>22. CASE Integrate
    BY <1>22 DEF Integrate
  <1>23. CASE Exit
    BY <1>23 DEF Exit
  <1>24. CASE Killed
    BY <1>24 DEF Killed
  <1> QED
    BY <1>1, <1>2, <1>3, <1>4, <1>5, <1>6, <1>7, <1>8, <1>9, <1>10, <1>11, <1>12,
       <1>13, <1>14, <1>15, <1>16, <1>17, <1>18, <1>19, <1>20, <1>21, <1>22, <1>23, <1>24
    DEF RunNext, Parent, Worker

\* Every step keeps the invariant.
LEMMA NextRunInv == RunInv /\ [RunNext]_runVars => RunInv'
  <1> SUFFICES ASSUME RunInv, [RunNext]_runVars PROVE RunInv'
    OBVIOUS
  <1>1. CASE RunNext
    BY <1>1, NextRunType, NextIngestOrder, NextGoAhead, NextVerdict, NextReported DEF RunInv
  <1>2. CASE UNCHANGED runVars
    BY <1>2
    DEF runVars, RunInv, RunTypeOK, IngestOrder, GoAhead, Verdict, Reported, Pinned, Whole,
        GlmPart, GlmReady, BaseInputsReady, NoOutcome
  <1> QED
    BY <1>1, <1>2

-----------------------------------------------------------------------------
\* The inductive invariant holds in every behaviour of an attempt.
THEOREM RunInvariant == RunSpec => []RunInv
  BY InitRunInv, NextRunInv, PTL DEF RunSpec

\* Integration reads only a manifest that pins every required input, the GLM files
\* included, in whatever order they came; and only an attempt that integrated such a
\* manifest and ended well is reported as completed or as in no need of a retry
\* (publish_integration_if_ready, run_primary_cycle_once).
THEOREM AttemptSound == RunSpec => []AttemptIsSound
  <1>1. RunInv => IntegrationFullyPinned
    BY DEF RunInv, IngestOrder, Verdict, Pinned, Whole, IntegrationFullyPinned
  <1>2. RunInv => CompletedIsEarned
    BY DEF RunInv, Reported, CompletedIsEarned, Completed, Retryable, NoOutcome, Unset, Whole
  <1> QED
    BY <1>1, <1>2, RunInvariant, PTL DEF AttemptIsSound

=============================================================================
