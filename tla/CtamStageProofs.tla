--------------------------- MODULE CtamStageProofs ---------------------------
(***************************************************************************)
(* Proofs about the external CTAM modules of a cycle, for any modules,     *)
(* cells and timing: a module's transaction counts whole or not at all.    *)
(* A commit copies and assigns cell by cell; what makes it atomic is that  *)
(* no two commits are under way at once, and that a sealed transaction     *)
(* never changes again.                                                    *)
(*                                                                         *)
(* The second section is about discovery, for any module root: its fixed   *)
(* point and Kahn's pass admit what can run and nothing else.  Both are    *)
(* recursive; what they compute is proved from the steps they take.        *)
(*                                                                         *)
(* The last section is about what is published.  That a commit which came  *)
(* too late is of a module that failed rests on discovery: no module is in *)
(* its list twice, so no result is overwritten.                            *)
(***************************************************************************)
EXTENDS CtamStage, NaturalsInduction, WellFoundedInduction, FiniteSetTheorems,
        SequenceTheorems, TLAPS

Failures == {"skipped_missing_requirements", "failed", "timed_out"}
Results == {"none", "completed"} \cup Failures
Phases == {"discovering", "choosing", "communicating", "terminating", "killing",
           "collecting", "published", "dropped"}
Transaction == [state: {"open", "abandoned", "sealed"}, cells: SUBSET Cells, route: BOOLEAN]
Outcome == [cells: [Cells -> SUBSET Ids], routes: SUBSET Ids, left: SUBSET Cells,
            sealed: SUBSET Ids]

\* What a handler may be doing.
IdleRequest == [at: {"idle"}]
AskedRequest == [at: {"asked"}, what: Commands]
AssigningRequest == [at: {"assigning"}, todo: SUBSET Cells]
CopiedRequest == [at: {"copied"}, todo: SUBSET Cells, cell: Cells, copy: SUBSET Ids]
Request == IdleRequest \cup AskedRequest \cup AssigningRequest \cup CopiedRequest

StageType ==
    /\ phase \in Phases
    /\ result \in [Ids -> Results]
    /\ tx \in [Ids -> Transaction]
    /\ request \in [Ids -> Request]
    /\ work \in [Cells -> SUBSET Ids]
    /\ out \in Outcome

Committing(m) == request[m].at \in {"assigning", "copied"}

\* The cells a commit under way has not assigned yet.
Missing(m) ==
    IF request[m].at = "assigning" THEN request[m].todo
    ELSE IF request[m].at = "copied" THEN request[m].todo \cup {request[m].cell}
    ELSE {}

\* The lock is held exactly by the module whose commit is under way.
LockHeld == \A m \in Ids : Committing(m) <=> lock = m

\* What the working set holds of each module: all it sealed, or what its commit
\* has assigned so far, or nothing.
WorkKnown ==
    \A m \in Ids : \A c \in Cells :
        m \in work[c] <=> /\ c \in tx[m].cells \ Missing(m)
                          /\ tx[m].state = "sealed" \/ Committing(m)

\* A commit is of an unsealed transaction and assigns what that staged, each cell
\* once; and the copy it made of a cell is still that cell with the module's
\* own output.
CommitOwn ==
    \A m \in Ids :
        /\ Committing(m) => tx[m].state # "sealed"
        /\ Missing(m) \subseteq tx[m].cells
        /\ request[m].at = "copied" =>
              /\ request[m].cell \notin request[m].todo
              /\ request[m].copy = work[request[m].cell] \cup {m}

\* A completed module has sealed, and the runner's phase tells what is collected.
ResultsKnown ==
    /\ \A m \in Ids : result[m] = "completed" => tx[m].state = "sealed"
    /\ phase \in {"collecting", "published"} => ~RequiredFailed
    /\ phase \notin {"collecting", "published"} =>
          (\A c \in Cells : out.cells[c] = {}) /\ out.left = Cells /\ out.sealed = {}
    /\ phase # "published" => out.routes = {}
    /\ phase = "published" => out.left = {}
    /\ phase \in {"collecting", "published"} =>
          \A m \in Ids : result[m] = "completed" => m \in out.sealed

\* What is collected of a module that had sealed is what it sealed; of another one
\* it is some of what it committed since, or has begun to.
CollectedKnown ==
    /\ \A m \in out.sealed :
          /\ tx[m].state = "sealed"
          /\ \A c \in Cells \ out.left : m \in out.cells[c] <=> c \in tx[m].cells
          /\ phase = "published" => (m \in out.routes <=> tx[m].route)
    /\ \A m \in Ids, c \in Cells : m \in out.cells[c] =>
          /\ tx[m].state = "sealed" \/ Committing(m)
          /\ c \in tx[m].cells
    /\ \A m \in out.routes : tx[m].state = "sealed" /\ tx[m].route

StageInv ==
    StageType /\ LockHeld /\ WorkKnown /\ CommitOwn /\ ResultsKnown /\ CollectedKnown

-----------------------------------------------------------------------------
\* The stage starts within the invariant.
LEMMA InitStageInv == Init => StageInv
  <1> SUFFICES ASSUME Init PROVE StageInv
    OBVIOUS
  <1> USE DEF Init
  <1>1. StageType
    BY DEF StageType, Phases, Results, Transaction, Open, Request, IdleRequest, Idle, Outcome
  <1>2. \A m \in Ids : request[m].at = "idle" /\ tx[m].state = "open" /\ tx[m].cells = {}
    BY DEF Idle, Open
  <1>3. LockHeld
    BY <1>2, DiscoveryAssumption DEF LockHeld, Committing, Nobody
  <1>4. WorkKnown /\ CommitOwn
    BY <1>2 DEF WorkKnown, CommitOwn, Committing, Missing
  <1>5. ResultsKnown
    BY <1>2 DEF ResultsKnown
  <1>6. CollectedKnown
    BY DEF CollectedKnown
  <1> QED
    BY <1>1, <1>3, <1>4, <1>5, <1>6 DEF StageInv

-----------------------------------------------------------------------------
\* A step that leaves transactions, handlers and working set alone, and only moves
\* the runner on or records a result that the transactions bear out.
LEMMA RunnerMoves ==
    ASSUME StageInv, UNCHANGED <<tx, request, lock, work, out>>,
           phase \notin {"collecting", "published"},
           phase' \in Phases \ {"collecting", "published"},
           result' \in [Ids -> Results],
           \A m \in Ids : result'[m] = "completed" => result[m] = "completed" \/ tx[m].state = "sealed"
    PROVE  StageInv'
  <1>1. StageType' /\ LockHeld' /\ WorkKnown' /\ CommitOwn'
    BY DEF StageInv, StageType, LockHeld, WorkKnown, CommitOwn, Committing, Missing
  <1>2. ResultsKnown'
    BY DEF StageInv, StageType, ResultsKnown
  <1>3. CollectedKnown'
    BY DEF StageInv, StageType, Outcome, ResultsKnown, CollectedKnown, Committing
  <1> QED
    BY <1>1, <1>2, <1>3 DEF StageInv

\* The end of a module, as r.
LEMMA ConcludeStep ==
    ASSUME StageInv, NEW r \in Results, Conclude(r), phase \in Serving,
           r = "completed" => tx[Current].state = "sealed"
    PROVE  StageInv'
  <1>1. result' \in [Ids -> Results]
    BY DEF Conclude, StageInv, StageType
  <1>2. ASSUME NEW m \in Ids, result'[m] = "completed"
        PROVE  result[m] = "completed" \/ tx[m].state = "sealed"
    <2>1. result \in [Ids -> Results] /\ result' = [result EXCEPT ![Current] = r]
      BY DEF Conclude, StageInv, StageType
    <2> QED
      BY <1>2, <2>1
  <1>3. /\ phase' \in Phases \ {"collecting", "published"}
        /\ phase \notin {"collecting", "published"}
        /\ UNCHANGED <<tx, request, lock, work, out>>
    BY DEF Conclude, Phases, Serving
  <1> QED
    BY <1>1, <1>2, <1>3, RunnerMoves

\* The steps of the runner while modules may run.
LEMMA RunStep ==
    ASSUME StageInv, Discover \/ SkipUnready \/ FailToLaunch \/ Launch \/ Collect
                     \/ TimeOut \/ Kill \/ CollectTimedOut
    PROVE  StageInv'
  <1>1. CASE SkipUnready
    BY <1>1, ConcludeStep DEF SkipUnready, Serving, Results, Failures
  <1>2. CASE FailToLaunch
    BY <1>2, ConcludeStep DEF FailToLaunch, Serving, Results, Failures
  <1>3. CASE Collect
    <2> DEFINE r == IF proc = "zero" /\ tx[Current].state = "sealed"
                    THEN "completed" ELSE "failed"
    <2>1. r \in Results /\ (r = "completed" => tx[Current].state = "sealed")
      BY DEF Results, Failures
    <2>2. Conclude(r) /\ phase \in Serving
      BY <1>3 DEF Collect, Serving
    <2> HIDE DEF r
    <2> QED
      BY <2>1, <2>2, ConcludeStep
  <1>4. CASE CollectTimedOut
    BY <1>4, ConcludeStep DEF CollectTimedOut, Serving, Results, Failures
  <1>5. CASE Discover \/ Launch \/ TimeOut \/ Kill
    <2>1. /\ UNCHANGED <<result, tx, request, lock, work, out>>
          /\ phase \notin {"collecting", "published"}
          /\ phase' \in Phases \ {"collecting", "published"}
      BY <1>5 DEF Discover, Launch, TimeOut, Kill, Phases
    <2>2. result' \in [Ids -> Results]
      BY <2>1 DEF StageInv, StageType
    <2> QED
      BY <2>1, <2>2, RunnerMoves
  <1> QED
    BY <1>1, <1>2, <1>3, <1>4, <1>5

\* The server is closed: all is dropped, or no required module has failed and what
\* is sealed now is noted.
LEMMA CloseStep == ASSUME StageInv, Close PROVE StageInv'
  <1>1. CASE phase' = "dropped" /\ UNCHANGED out
    <2>1. UNCHANGED <<result, tx, request, lock, work, out>> /\ phase = "choosing"
      BY <1>1 DEF Close
    <2>2. phase' \in Phases \ {"collecting", "published"} /\ result' \in [Ids -> Results]
      BY <1>1, <2>1 DEF Phases, StageInv, StageType
    <2> QED
      BY <2>1, <2>2, RunnerMoves
  <1>2. ASSUME phase' = "collecting", ~RequiredFailed,
               out' = [out EXCEPT !.sealed = {m \in Ids : tx[m].state = "sealed"}]
        PROVE  StageInv'
    <2>1. UNCHANGED <<result, tx, request, lock, work>> /\ phase = "choosing"
      BY <1>2 DEF Close
    <2>2. /\ out' \in Outcome /\ out'.cells = out.cells /\ out'.routes = out.routes
          /\ out'.left = out.left /\ out'.sealed = {m \in Ids : tx[m].state = "sealed"}
      BY <1>2 DEF StageInv, StageType, Outcome
    <2>3. StageType' /\ LockHeld' /\ WorkKnown' /\ CommitOwn'
      BY <1>2, <2>1, <2>2
      DEF StageInv, StageType, Phases, LockHeld, WorkKnown, CommitOwn, Committing, Missing
    <2>4. ResultsKnown'
      BY <1>2, <2>1, <2>2 DEF StageInv, ResultsKnown, RequiredFailed
    <2>5. CollectedKnown'
      BY <1>2, <2>1, <2>2 DEF StageInv, ResultsKnown, CollectedKnown, Committing
    <2> QED
      BY <2>3, <2>4, <2>5 DEF StageInv
  <1> QED
    BY <1>1, <1>2 DEF Close

\* A cell is collected: the working set holds of it what was sealed, and what a late
\* commit has assigned so far.
LEMMA CollectCellStep == ASSUME StageInv, NEW c \in Cells, CollectCell(c) PROVE StageInv'
  <1>1. /\ UNCHANGED <<phase, result, tx, request, lock, work>>
        /\ phase = "collecting" /\ c \in out.left
        /\ out' = [out EXCEPT !.cells[c] = work[c], !.left = @ \ {c}]
    BY DEF CollectCell
  <1>2. /\ out'.left = out.left \ {c} /\ out'.routes = out.routes
        /\ out'.sealed = out.sealed
        /\ out'.cells = [out.cells EXCEPT ![c] = work[c]]
        /\ out' \in Outcome
    BY <1>1 DEF StageInv, StageType, Outcome
  <1>3. out'.cells[c] = work[c] /\ \A d \in Cells \ {c} : out'.cells[d] = out.cells[d]
    BY <1>2 DEF StageInv, StageType, Outcome
  <1>4. StageType' /\ LockHeld' /\ WorkKnown' /\ CommitOwn'
    BY <1>1, <1>2 DEF StageInv, StageType, LockHeld, WorkKnown, CommitOwn, Committing, Missing
  <1>5. ASSUME NEW m \in out.sealed PROVE m \in work[c] <=> c \in tx[m].cells
    <2>1. m \in Ids /\ tx[m].state = "sealed"
      BY DEF StageInv, StageType, Outcome, CollectedKnown
    <2>2. Missing(m) = {}
      BY <2>1 DEF StageInv, CommitOwn, Committing, Missing
    <2> QED
      BY <2>1, <2>2 DEF StageInv, WorkKnown
  <1>6. \A m \in Ids : m \in work[c] => /\ tx[m].state = "sealed" \/ Committing(m)
                                        /\ c \in tx[m].cells
    BY DEF StageInv, WorkKnown
  <1>7. ResultsKnown'
    BY <1>1, <1>2, <1>3 DEF StageInv, ResultsKnown, RequiredFailed
  <1>8. CollectedKnown'
    BY <1>1, <1>2, <1>3, <1>5, <1>6 DEF StageInv, CollectedKnown, Committing
  <1> QED
    BY <1>4, <1>7, <1>8 DEF StageInv

\* The routes are collected last.
LEMMA CollectRoutesStep == ASSUME StageInv, CollectRoutes PROVE StageInv'
  <1>1. /\ UNCHANGED <<result, tx, request, lock, work>>
        /\ phase = "collecting" /\ phase' = "published" /\ out.left = {}
        /\ out' = [out EXCEPT !.routes = {m \in Ids : tx[m].state = "sealed" /\ tx[m].route}]
    BY DEF CollectRoutes
  <1>2. /\ out'.left = out.left /\ out'.cells = out.cells /\ out' \in Outcome
        /\ out'.sealed = out.sealed
        /\ out'.routes = {m \in Ids : tx[m].state = "sealed" /\ tx[m].route}
    BY <1>1 DEF StageInv, StageType, Outcome
  <1>3. StageType' /\ LockHeld' /\ WorkKnown' /\ CommitOwn'
    BY <1>1, <1>2
    DEF StageInv, StageType, Phases, LockHeld, WorkKnown, CommitOwn, Committing, Missing
  <1>4. ResultsKnown'
    BY <1>1, <1>2 DEF StageInv, ResultsKnown, RequiredFailed
  <1>5. out.sealed \subseteq Ids
    BY DEF StageInv, StageType, Outcome
  <1>6. CollectedKnown'
    BY <1>1, <1>2, <1>5 DEF StageInv, CollectedKnown, Committing
  <1> QED
    BY <1>3, <1>4, <1>6 DEF StageInv

-----------------------------------------------------------------------------
\* A handler at rest answers: the transaction it leaves is the old one, or one that
\* was open and is not sealed now.
LEMMA AnswerStep ==
    ASSUME StageInv, NEW m \in Ids, NEW t \in Transaction, request[m].at = "asked",
           t = tx[m] \/ (tx[m].state = "open" /\ t.state # "sealed"),
           Answer(m, t)
    PROVE  StageInv'
  <1>1. /\ tx' = [tx EXCEPT ![m] = t] /\ request' = [request EXCEPT ![m] = Idle]
        /\ UNCHANGED <<phase, result, lock, work, out>>
    BY DEF Answer, running
  <1>2. /\ tx'[m] = t /\ request'[m].at = "idle"
        /\ \A n \in Ids \ {m} : tx'[n] = tx[n] /\ request'[n] = request[n]
    BY <1>1 DEF StageInv, StageType, Idle
  <1>3. StageType'
    BY <1>1 DEF StageInv, StageType, Request, IdleRequest, Idle
  <1>4. \A n \in Ids : (Committing(n)' <=> Committing(n)) /\ Missing(n)' = Missing(n)
    BY <1>2 DEF Committing, Missing
  <1>5. \A c \in Cells : m \in work[c] <=> c \in t.cells /\ t.state = "sealed"
    <2>1. Missing(m) = {} /\ ~Committing(m)
      BY DEF Missing, Committing
    <2> QED
      BY <2>1 DEF StageInv, WorkKnown
  <1>6. LockHeld' /\ CommitOwn'
    <2>1. Missing(m) = {} /\ ~Committing(m)
      BY DEF Missing, Committing
    <2>2. LockHeld'
      BY <1>1, <1>4 DEF StageInv, LockHeld
    <2>3. CommitOwn'
      BY <1>1, <1>2, <1>4, <2>1 DEF StageInv, CommitOwn
    <2> QED
      BY <2>2, <2>3
  <1>7. WorkKnown'
    <2> SUFFICES ASSUME NEW n \in Ids, NEW c \in Cells
                 PROVE  n \in work[c] <=> /\ c \in tx'[n].cells \ Missing(n)'
                                          /\ tx'[n].state = "sealed" \/ Committing(n)'
      BY <1>1 DEF WorkKnown
    <2>1. CASE n = m
      <3>1. Missing(m)' = {} /\ ~Committing(m)'
        BY <1>2 DEF Missing, Committing
      <3> QED
        BY <1>2, <1>5, <2>1, <3>1
    <2>2. CASE n # m
      BY <1>2, <1>4, <2>2 DEF StageInv, WorkKnown
    <2> QED
      BY <2>1, <2>2
  <1>8. ResultsKnown'
    <2>1. result[m] = "completed" => t = tx[m]
      BY DEF StageInv, ResultsKnown
    <2>2. \A n \in Ids : result[n] = "completed" => tx'[n] = tx[n]
      BY <1>2, <2>1
    <2> QED
      BY <1>1, <2>2 DEF StageInv, ResultsKnown, RequiredFailed
  <1>9. CollectedKnown'
    <2>1. ~Committing(m)
      BY DEF Committing
    <2>2. CASE t = tx[m]
      <3>1. tx' = tx
        BY <1>1, <2>2 DEF StageInv, StageType
      <3> QED
        BY <1>1, <1>4, <3>1 DEF StageInv, CollectedKnown
    <2>3. CASE tx[m].state = "open"
      <3>1. /\ m \notin out.sealed /\ m \notin out.routes
            /\ \A c \in Cells : m \notin out.cells[c]
        BY <2>1, <2>3 DEF StageInv, CollectedKnown
      <3>2. out.sealed \subseteq Ids /\ out.routes \subseteq Ids
        BY DEF StageInv, StageType, Outcome
      <3> QED
        BY <1>1, <1>2, <1>4, <3>1, <3>2 DEF StageInv, CollectedKnown
    <2> QED
      BY <2>2, <2>3
  <1> QED
    BY <1>3, <1>6, <1>7, <1>8, <1>9 DEF StageInv

\* The requests that are a single step.
LEMMA ShortStep ==
    ASSUME StageInv, NEW m \in Ids,
           \/ \E what \in Commands : Refuse(m, what)
           \/ \E c \in Cells : StagePatch(m, c)
           \/ StageRoute(m) \/ Abandon(m)
    PROVE  StageInv'
  <1>0. tx[m] \in Transaction
    BY DEF StageInv, StageType
  <1>1. ASSUME NEW what \in Commands, Refuse(m, what) PROVE StageInv'
    <2>1. request[m].at = "asked"
      BY <1>1 DEF Refuse, Handles, Asked
    <2> QED
      BY <1>0, <1>1, <2>1, AnswerStep DEF Refuse
  <1>2. ASSUME NEW c \in Cells, StagePatch(m, c) PROVE StageInv'
    <2>1. request[m].at = "asked" /\ tx[m].state = "open"
      BY <1>2 DEF StagePatch, Handles, Asked
    <2>2. /\ [tx[m] EXCEPT !.cells = @ \cup {c}] \in Transaction
          /\ [tx[m] EXCEPT !.cells = @ \cup {c}].state = "open"
      BY <1>0, <2>1 DEF Transaction
    <2> QED
      BY <1>2, <2>1, <2>2, AnswerStep DEF StagePatch
  <1>3. CASE StageRoute(m)
    <2>1. request[m].at = "asked" /\ tx[m].state = "open"
      BY <1>3 DEF StageRoute, Handles, Asked
    <2>2. /\ [tx[m] EXCEPT !.route = TRUE] \in Transaction
          /\ [tx[m] EXCEPT !.route = TRUE].state = "open"
      BY <1>0, <2>1 DEF Transaction
    <2> QED
      BY <1>3, <2>1, <2>2, AnswerStep DEF StageRoute
  <1>4. CASE Abandon(m)
    <2>1. request[m].at = "asked" /\ tx[m].state = "open"
      BY <1>4 DEF Abandon, Handles, Asked
    <2>2. /\ [Open EXCEPT !.state = "abandoned"] \in Transaction
          /\ [Open EXCEPT !.state = "abandoned"].state = "abandoned"
      BY DEF Open, Transaction
    <2> QED
      BY <1>4, <2>1, <2>2, AnswerStep DEF Abandon
  <1> QED
    BY <1>1, <1>2, <1>3, <1>4

\* A commit begins: it has assigned nothing yet.
LEMMA BeginCommitStep == ASSUME StageInv, NEW m \in Ids, BeginCommit(m) PROVE StageInv'
  <1>1. /\ request[m].at = "asked" /\ lock = Nobody /\ tx[m].state # "sealed"
        /\ lock' = m /\ request' = [request EXCEPT ![m] = Assigning(tx[m].cells)]
        /\ UNCHANGED <<phase, result, tx, work, out>>
    BY DEF BeginCommit, Handles, Asked, running
  <1>2. /\ request'[m].at = "assigning" /\ request'[m].todo = tx[m].cells
        /\ \A n \in Ids \ {m} : request'[n] = request[n]
    BY <1>1 DEF StageInv, StageType, Assigning
  <1>3. StageType'
    <2>1. Assigning(tx[m].cells) \in Request
      BY DEF StageInv, StageType, Transaction, Assigning, Request, AssigningRequest
    <2> QED
      BY <1>1, <2>1 DEF StageInv, StageType
  <1>4. \A n \in Ids : ~Committing(n)
    BY <1>1, DiscoveryAssumption DEF StageInv, LockHeld, Nobody
  <1>5. LockHeld'
    BY <1>1, <1>2, <1>4 DEF LockHeld, Committing
  <1>6. CommitOwn'
    <2>1. Missing(m)' = tx[m].cells
      BY <1>2 DEF Missing
    <2>2. \A n \in Ids \ {m} : Missing(n)' = Missing(n) /\ (Committing(n)' <=> Committing(n))
      BY <1>2 DEF Missing, Committing
    <2> QED
      BY <1>1, <1>2, <1>4, <2>1, <2>2 DEF StageInv, CommitOwn
  <1>7. WorkKnown'
    <2> SUFFICES ASSUME NEW n \in Ids, NEW c \in Cells
                 PROVE  n \in work[c] <=> /\ c \in tx[n].cells \ Missing(n)'
                                          /\ tx[n].state = "sealed" \/ Committing(n)'
      BY <1>1 DEF WorkKnown
    <2>1. CASE n = m
      <3>1. Missing(m)' = tx[m].cells
        BY <1>2 DEF Missing
      <3>2. m \notin work[c]
        BY <1>1, <1>4 DEF StageInv, WorkKnown
      <3> QED
        BY <2>1, <3>1, <3>2
    <2>2. CASE n # m
      <3>1. Missing(n)' = Missing(n) /\ (Committing(n)' <=> Committing(n))
        BY <1>2, <2>2 DEF Missing, Committing
      <3> QED
        BY <3>1 DEF StageInv, WorkKnown
    <2> QED
      BY <2>1, <2>2
  <1>8. ResultsKnown'
    BY <1>1 DEF StageInv, ResultsKnown, RequiredFailed
  <1>9. CollectedKnown'
    BY <1>1, <1>4 DEF StageInv, CollectedKnown
  <1> QED
    BY <1>3, <1>5, <1>6, <1>7, <1>8, <1>9 DEF StageInv

\* A cell is copied and the copy patched; the working set is as it was.
LEMMA CopyCellStep ==
    ASSUME StageInv, NEW m \in Ids, NEW c \in Cells, CopyCell(m, c)
    PROVE  StageInv'
  <1>1. /\ request[m].at = "assigning" /\ c \in request[m].todo
        /\ request' = [request EXCEPT ![m] = Copied(request[m].todo \ {c}, c, work[c] \cup {m})]
        /\ UNCHANGED <<phase, result, tx, lock, work, out>>
    BY DEF CopyCell, running
  <1>2. /\ request'[m].at = "copied" /\ request'[m].todo = request[m].todo \ {c}
        /\ request'[m].cell = c /\ request'[m].copy = work[c] \cup {m}
        /\ \A n \in Ids \ {m} : request'[n] = request[n]
    BY <1>1 DEF StageInv, StageType, Copied
  <1>3. StageType'
    <2>1. request[m].todo \in SUBSET Cells
      BY <1>1 DEF StageInv, StageType, Request, IdleRequest, AskedRequest, AssigningRequest,
                  CopiedRequest
    <2>2. Copied(request[m].todo \ {c}, c, work[c] \cup {m}) \in Request
      BY <2>1 DEF StageInv, StageType, Copied, Request, CopiedRequest
    <2> QED
      BY <1>1, <2>2 DEF StageInv, StageType
  <1>4. \A n \in Ids : (Committing(n)' <=> Committing(n)) /\ Missing(n)' = Missing(n)
    <2>1. Missing(m)' = (request[m].todo \ {c}) \cup {c} /\ Missing(m) = request[m].todo
      BY <1>1, <1>2 DEF Missing
    <2>2. Missing(m)' = Missing(m) /\ (Committing(m)' <=> Committing(m))
      BY <1>1, <1>2, <2>1 DEF Committing
    <2>3. \A n \in Ids \ {m} : (Committing(n)' <=> Committing(n)) /\ Missing(n)' = Missing(n)
      BY <1>2 DEF Committing, Missing
    <2> QED
      BY <2>2, <2>3
  <1>5. LockHeld' /\ WorkKnown'
    BY <1>1, <1>4 DEF StageInv, LockHeld, WorkKnown
  <1>6. CommitOwn'
    <2> SUFFICES ASSUME NEW n \in Ids
                 PROVE  /\ Committing(n)' => tx[n].state # "sealed"
                        /\ Missing(n)' \subseteq tx[n].cells
                        /\ request'[n].at = "copied" =>
                              /\ request'[n].cell \notin request'[n].todo
                              /\ request'[n].copy = work[request'[n].cell] \cup {n}
      BY <1>1 DEF CommitOwn
    <2>1. /\ Committing(n) => tx[n].state # "sealed"
          /\ Missing(n) \subseteq tx[n].cells
          /\ request[n].at = "copied" =>
                /\ request[n].cell \notin request[n].todo
                /\ request[n].copy = work[request[n].cell] \cup {n}
      BY DEF StageInv, CommitOwn
    <2>2. CASE n = m
      <3>1. /\ request'[n].cell = c /\ c \notin request'[n].todo
            /\ request'[n].copy = work[c] \cup {n}
        BY <1>2, <2>2
      <3> QED
        BY <1>4, <2>1, <3>1
    <2>3. CASE n # m
      <3>1. request'[n] = request[n]
        BY <1>2, <2>3
      <3> QED
        BY <1>4, <2>1, <3>1
    <2> QED
      BY <2>2, <2>3
  <1>7. ResultsKnown'
    BY <1>1 DEF StageInv, ResultsKnown, RequiredFailed
  <1>8. CollectedKnown'
    BY <1>1, <1>4 DEF StageInv, CollectedKnown
  <1> QED
    BY <1>3, <1>5, <1>6, <1>7, <1>8 DEF StageInv

\* The copy is assigned: nobody else has touched the cell, since nobody else commits.
LEMMA AssignCellStep == ASSUME StageInv, NEW m \in Ids, AssignCell(m) PROVE StageInv'
  <1> DEFINE c == request[m].cell
  <1>1. /\ request[m].at = "copied"
        /\ work' = [work EXCEPT ![c] = request[m].copy]
        /\ request' = [request EXCEPT ![m] = Assigning(request[m].todo)]
        /\ UNCHANGED <<phase, result, tx, lock, out>>
    BY DEF AssignCell, running
  <1>2. c \in Cells /\ request[m].todo \in SUBSET Cells /\ request[m].copy \in SUBSET Ids
    BY <1>1 DEF StageInv, StageType, Request, IdleRequest, AskedRequest, AssigningRequest,
                CopiedRequest
  <1>3. /\ request'[m].at = "assigning" /\ request'[m].todo = request[m].todo
        /\ \A n \in Ids \ {m} : request'[n] = request[n]
    BY <1>1 DEF StageInv, StageType, Assigning
  <1>4. /\ work'[c] = work[c] \cup {m}
        /\ \A d \in Cells \ {c} : work'[d] = work[d]
    BY <1>1, <1>2 DEF StageInv, StageType, CommitOwn
  <1>5. StageType'
    <2>1. Assigning(request[m].todo) \in Request
      BY <1>2 DEF Assigning, Request, AssigningRequest
    <2> QED
      BY <1>1, <1>2, <2>1 DEF StageInv, StageType
  <1>6. /\ \A n \in Ids : Committing(n)' <=> Committing(n)
        /\ Missing(m)' = request[m].todo /\ Missing(m) = request[m].todo \cup {c}
        /\ \A n \in Ids \ {m} : Missing(n)' = Missing(n) /\ ~Committing(n)
    <2>1. Committing(m) /\ Committing(m)'
      BY <1>1, <1>3 DEF Committing
    <2>2. \A n \in Ids \ {m} : ~Committing(n)
      BY <2>1 DEF StageInv, LockHeld
    <2> QED
      BY <1>1, <1>3, <2>1, <2>2 DEF Committing, Missing
  <1>7. c \in tx[m].cells /\ tx[m].state # "sealed" /\ Committing(m)
    BY <1>1, <1>6 DEF StageInv, CommitOwn, Committing
  <1>8. LockHeld'
    BY <1>1, <1>6 DEF StageInv, LockHeld
  <1>9. CommitOwn'
    BY <1>1, <1>3, <1>6 DEF StageInv, CommitOwn, Committing
  <1>10. WorkKnown'
    <2> SUFFICES ASSUME NEW n \in Ids, NEW d \in Cells
                 PROVE  n \in work'[d] <=> /\ d \in tx[n].cells \ Missing(n)'
                                           /\ tx[n].state = "sealed" \/ Committing(n)'
      BY <1>1 DEF WorkKnown
    <2>1. n \in work[d] <=> /\ d \in tx[n].cells \ Missing(n)
                            /\ tx[n].state = "sealed" \/ Committing(n)
      BY DEF StageInv, WorkKnown
    <2>2. CASE n = m /\ d = c
      <3>1. c \notin request[m].todo
        BY <1>1 DEF StageInv, CommitOwn
      <3> QED
        BY <1>4, <1>6, <1>7, <2>2, <3>1
    <2>3. CASE n = m /\ d # c
      BY <1>4, <1>6, <2>1, <2>3
    <2>4. CASE n # m
      BY <1>4, <1>6, <2>1, <2>4
    <2> QED
      BY <2>2, <2>3, <2>4
  <1>11. ResultsKnown'
    BY <1>1 DEF StageInv, ResultsKnown, RequiredFailed
  <1>12. CollectedKnown'
    BY <1>1, <1>6 DEF StageInv, CollectedKnown
  <1> QED
    BY <1>5, <1>8, <1>9, <1>10, <1>11, <1>12 DEF StageInv

\* The commit is over: everything staged is in the working set.
LEMMA SealStep == ASSUME StageInv, NEW m \in Ids, Seal(m) PROVE StageInv'
  <1>1. /\ request[m].at = "assigning" /\ request[m].todo = {} /\ lock' = Nobody
        /\ tx' = [tx EXCEPT ![m].state = "sealed"]
        /\ request' = [request EXCEPT ![m] = Idle]
        /\ UNCHANGED <<phase, result, work, out>>
    BY DEF Seal, running
  <1>2. /\ request'[m].at = "idle"
        /\ \A n \in Ids \ {m} : request'[n] = request[n] /\ tx'[n] = tx[n]
    BY <1>1 DEF StageInv, StageType, Idle
  <1>3. /\ tx'[m].state = "sealed" /\ tx'[m].cells = tx[m].cells /\ tx'[m].route = tx[m].route
        /\ tx' \in [Ids -> Transaction]
    BY <1>1 DEF StageInv, StageType, Transaction
  <1>4. StageType'
    BY <1>1, <1>3 DEF StageInv, StageType, Idle, Request, IdleRequest
  <1>5. /\ Committing(m) /\ Missing(m) = {} /\ ~Committing(m)' /\ Missing(m)' = {}
        /\ \A n \in Ids \ {m} :
              ~Committing(n) /\ ~Committing(n)' /\ Missing(n)' = Missing(n)
    <2>1. Committing(m)
      BY <1>1 DEF Committing
    <2>2. \A n \in Ids \ {m} : ~Committing(n)
      BY <2>1 DEF StageInv, LockHeld
    <2> QED
      BY <1>1, <1>2, <2>1, <2>2 DEF Committing, Missing
  <1>6. LockHeld'
    BY <1>1, <1>5, DiscoveryAssumption DEF LockHeld, Nobody
  <1>7. CommitOwn'
    BY <1>1, <1>2, <1>5 DEF StageInv, CommitOwn, Committing
  <1>8. WorkKnown'
    BY <1>1, <1>2, <1>3, <1>5 DEF StageInv, WorkKnown
  <1>9. ResultsKnown'
    <2>1. \A n \in Ids : tx'[n].cells = tx[n].cells /\ tx'[n].route = tx[n].route
      BY <1>2, <1>3
    <2>2. \A n \in Ids : tx[n].state = "sealed" => tx'[n].state = "sealed"
      BY <1>2, <1>3
    <2> QED
      BY <1>1, <2>1, <2>2 DEF StageInv, ResultsKnown, RequiredFailed
  <1>10. CollectedKnown'
    <2>1. \A n \in Ids : tx'[n].cells = tx[n].cells /\ tx'[n].route = tx[n].route
      BY <1>2, <1>3
    <2>2. \A n \in Ids : tx[n].state = "sealed" \/ Committing(n) => tx'[n].state = "sealed"
      BY <1>2, <1>3, <1>5
    <2>3. out.sealed \subseteq Ids /\ out.routes \subseteq Ids
      BY DEF StageInv, StageType, Outcome
    <2> QED
      BY <1>1, <2>1, <2>2, <2>3 DEF StageInv, CollectedKnown
  <1> QED
    BY <1>4, <1>6, <1>7, <1>8, <1>9, <1>10 DEF StageInv

\* What a module and its descendants do by themselves.
LEMMA ModuleStep ==
    ASSUME StageInv, Exit \/ \E m \in Ids : Module(m)
    PROVE  StageInv'
  <1>1. CASE Exit \/ \E m \in Ids : Descend(m)
    <2>1. UNCHANGED <<phase, result, tx, request, lock, work, out>>
      BY <1>1 DEF Exit, Descend, running
    <2> QED
      BY <2>1 DEF StageInv, StageType, LockHeld, WorkKnown, CommitOwn, ResultsKnown,
                  CollectedKnown, RequiredFailed, Committing, Missing
  <1>2. ASSUME NEW m \in Ids, NEW what \in Commands, Send(m, what) PROVE StageInv'
    <2>1. /\ request[m].at = "idle" /\ request' = [request EXCEPT ![m] = Asked(what)]
          /\ UNCHANGED <<phase, result, tx, lock, work, out>>
      BY <1>2 DEF Send, Idle, running
    <2>2. /\ request'[m].at = "asked" /\ Asked(what) \in Request
          /\ \A n \in Ids \ {m} : request'[n] = request[n]
      BY <2>1 DEF StageInv, StageType, Asked, Request, AskedRequest
    <2>3. StageType'
      BY <2>1, <2>2 DEF StageInv, StageType
    <2>4. \A n \in Ids : (Committing(n)' <=> Committing(n)) /\ Missing(n)' = Missing(n)
      BY <2>1, <2>2 DEF Committing, Missing
    <2>5. LockHeld' /\ WorkKnown'
      BY <2>1, <2>4 DEF StageInv, LockHeld, WorkKnown
    <2>6. CommitOwn' /\ ResultsKnown'
      BY <2>1, <2>2, <2>4 DEF StageInv, CommitOwn, ResultsKnown, RequiredFailed
    <2>7. CollectedKnown'
      BY <2>1, <2>4 DEF StageInv, CollectedKnown
    <2> QED
      BY <2>3, <2>5, <2>6, <2>7 DEF StageInv
  <1> QED
    BY <1>1, <1>2 DEF Module

\* Every step keeps the invariant.
LEMMA NextStageInv == StageInv /\ [Next]_vars => StageInv'
  <1> SUFFICES ASSUME StageInv, [Next]_vars PROVE StageInv'
    OBVIOUS
  <1>1. CASE Runner
    BY <1>1, RunStep, CloseStep, CollectCellStep, CollectRoutesStep DEF Runner
  <1>2. CASE Exit \/ \E m \in Ids : Module(m)
    BY <1>2, ModuleStep
  <1>3. ASSUME NEW m \in Ids, Handler(m) PROVE StageInv'
    BY <1>3, ShortStep, BeginCommitStep, CopyCellStep, AssignCellStep, SealStep DEF Handler
  <1>4. CASE UNCHANGED vars
    BY <1>4 DEF vars, StageInv, StageType, LockHeld, WorkKnown, CommitOwn, ResultsKnown,
                CollectedKnown, RequiredFailed, Committing, Missing
  <1> QED
    BY <1>1, <1>2, <1>3, <1>4 DEF Next

-----------------------------------------------------------------------------
\* The inductive invariant holds in every behaviour of the stage.
THEOREM StageInvariant == Spec => []StageInv
  BY InitStageInv, NextStageInv, PTL DEF Spec

-----------------------------------------------------------------------------
(***************************************************************************)
(* Discovery.                                                              *)
(***************************************************************************)
\* Every set of natural numbers has a least element.
LEMMA LeastNumber ==
    ASSUME NEW T, T \subseteq Nat, T # {}
    PROVE  \E n \in T : \A m \in T : n <= m
  <1>1. PICK n \in T : \A m \in T : ~ (<<m, n>> \in OpToRel(<, Nat))
    BY NatLessThanWellFounded, WFMin
  <1>2. ASSUME NEW m \in T, m < n PROVE FALSE
    <2>1. <<m, n>> \in OpToRel(<, Nat)
      BY <1>2 DEF OpToRel
    <2> QED BY <1>1, <2>1
  <1> QED BY <1>2

\* Induction, for a set of numbers.
LEMMA SetInduction ==
    ASSUME NEW S, 0 \in S, \A n \in Nat : n \in S => n + 1 \in S
    PROVE  Nat \subseteq S
  <1> DEFINE T == Nat \ S
  <1> SUFFICES ASSUME T # {} PROVE FALSE
    OBVIOUS
  <1>1. PICK n \in T : \A m \in T : n <= m
    BY LeastNumber
  <1>2. n - 1 \in Nat /\ n - 1 \in S
    BY <1>1
  <1> QED BY <1>2

\* The least of some ids is one of them.
LEMMA LeastReady ==
    ASSUME NEW T \in SUBSET Ids, T # {}
    PROVE  Min(T) \in T /\ \A m \in T : Min(T) <= m
  <1>1. T \subseteq Nat
    BY DiscoveryAssumption
  <1>2. \E n \in T : \A m \in T : n <= m
    BY <1>1, LeastNumber
  <1> QED BY <1>2 DEF Min

\* A function on a set can be iterated.
Iterates(f, X, x0, step) ==
    f \in [Nat -> X] /\ f[0] = x0 /\ \A n \in Nat : f[n + 1] = step[f[n]]

LEMMA Iteration ==
    ASSUME NEW X, NEW x0 \in X, NEW step \in [X -> X]
    PROVE  \E f : Iterates(f, X, x0, step)
  <1> DEFINE Paths(n) == {g \in [0 .. n -> X] :
                            /\ g[0] = x0
                            /\ \A i \in 0 .. n : i + 1 \in 0 .. n => g[i + 1] = step[g[i]]}
             Reached == {n \in Nat : \E g : g \in Paths(n)}
             Agreed == {i \in Nat : \A n, m \in Nat : i <= n /\ i <= m =>
                          \A g \in Paths(n), h \in Paths(m) : g[i] = h[i]}
  <1>1. Nat \subseteq Reached
    <2>1. 0 \in Reached
      <3>1. [i \in 0 .. 0 |-> x0] \in Paths(0)
        OBVIOUS
      <3> QED BY <3>1
    <2>2. ASSUME NEW n \in Nat, n \in Reached PROVE n + 1 \in Reached
      <3>1. PICK g : g \in Paths(n)
        BY <2>2
      <3> DEFINE h == [i \in 0 .. n + 1 |-> IF i <= n THEN g[i] ELSE step[g[n]]]
      <3>2. h \in [0 .. n + 1 -> X] /\ h[0] = x0
        BY <3>1
      <3>3. ASSUME NEW i \in 0 .. n + 1, i + 1 \in 0 .. n + 1 PROVE h[i + 1] = step[h[i]]
        BY <3>1, <3>3
      <3>4. h \in Paths(n + 1)
        BY <3>2, <3>3
      <3> QED BY <3>4
    <2> HIDE DEF Reached
    <2> QED BY <2>1, <2>2, SetInduction
  <1>2. Nat \subseteq Agreed
    <2>1. 0 \in Agreed
      OBVIOUS
    <2>2. ASSUME NEW i \in Nat, i \in Agreed PROVE i + 1 \in Agreed
      <3> SUFFICES ASSUME NEW n \in Nat, NEW m \in Nat, i + 1 <= n, i + 1 <= m,
                          NEW g \in Paths(n), NEW h \in Paths(m)
                   PROVE  g[i + 1] = h[i + 1]
        OBVIOUS
      <3>1. g[i] = h[i]
        <4>1. i <= n /\ i <= m
          OBVIOUS
        <4> HIDE DEF Paths
        <4> QED BY <2>2, <4>1
      <3>2. g[i + 1] = step[g[i]] /\ h[i + 1] = step[h[i]]
        OBVIOUS
      <3> QED BY <3>1, <3>2
    <2> HIDE DEF Agreed
    <2> QED BY <2>1, <2>2, SetInduction
  <1> DEFINE path(n) == CHOOSE g : g \in Paths(n)
             f == [n \in Nat |-> path(n)[n]]
  <1>3. \A n \in Nat : path(n) \in Paths(n)
    BY <1>1
  <1> HIDE DEF path
  <1>4. ASSUME NEW n \in Nat PROVE f[n + 1] = step[f[n]]
    <2>1. path(n + 1)[n + 1] = step[path(n + 1)[n]]
      BY <1>3
    <2>2. path(n + 1)[n] = path(n)[n]
      <3>1. n \in Agreed /\ n <= n /\ n <= n + 1 /\ n + 1 \in Nat
        BY <1>2, SMTT(30)
      <3>2. path(n) \in Paths(n) /\ path(n + 1) \in Paths(n + 1)
        BY <1>3
      <3> HIDE DEF Paths
      <3> QED BY <3>1, <3>2
    <2> QED BY <2>1, <2>2
  <1>5. f \in [Nat -> X] /\ f[0] = x0
    BY <1>3
  <1> HIDE DEF f
  <1> QED BY <1>4, <1>5 DEF Iterates

\* The fixed point of the invalidation, as the steps that reach it.
LEMMA SpoiledSteps ==
    ASSUME NEW rt \in Roots
    PROVE  \E f \in [Nat -> SUBSET Discovered(rt)] :
             /\ f[0] = {}
             /\ \A n \in Nat : f[n + 1] = {m \in Discovered(rt) :
                                             ~ (rt[m].after \subseteq Discovered(rt) \ f[n])}
             /\ Spoiled(rt) = f[Cardinality(Ids)]
  <1> DEFINE X == SUBSET Discovered(rt)
             Spoil(S) == {m \in Discovered(rt) :
                            ~ (rt[m].after \subseteq Discovered(rt) \ S)}
             step == [S \in X |-> Spoil(S)]
             Def(g) == [n \in Nat |-> IF n = 0 THEN {} ELSE Spoil(g[n - 1])]
             f == CHOOSE g : g = Def(g)
  <1>1. PICK h \in [Nat -> X] : h[0] = {} /\ \A n \in Nat : h[n + 1] = step[h[n]]
    <2>1. step \in [X -> X] /\ {} \in X
      OBVIOUS
    <2> HIDE DEF X, step
    <2>2. \E h : Iterates(h, X, {}, step)
      BY <2>1, Iteration
    <2> QED BY <2>2 DEF Iterates
  <1>2. h = Def(h)
    <2>1. ASSUME NEW n \in Nat PROVE h[n] = Def(h)[n]
      <3>1. CASE n = 0
        BY <1>1, <3>1
      <3>2. CASE n # 0
        <4>1. n - 1 \in Nat /\ (n - 1) + 1 = n
          BY <3>2
        <4>2. h[n] = step[h[n - 1]] /\ h[n - 1] \in X
          BY <1>1, <4>1
        <4> HIDE DEF Spoil
        <4> QED BY <3>2, <4>2
      <3> QED BY <3>1, <3>2
    <2> HIDE DEF Spoil
    <2> QED BY <2>1
  <1>3. f = Def(f)
    BY <1>2
  <1>4. Spoiled(rt) = f[Cardinality(Ids)]
    BY DEF Spoiled
  <1> HIDE DEF f
  <1>5. /\ f[0] = {}
        /\ \A n \in Nat : f[n + 1] = Spoil(f[n])
    <2> HIDE DEF Spoil
    <2>1. \A n \in Nat : f[n] = IF n = 0 THEN {} ELSE Spoil(f[n - 1])
      BY <1>3
    <2>2. ASSUME NEW n \in Nat PROVE f[n + 1] = Spoil(f[n])
      <3>1. n + 1 \in Nat /\ n + 1 # 0 /\ (n + 1) - 1 = n
        OBVIOUS
      <3> QED BY <2>1, <3>1
    <2> QED BY <2>1, <2>2
  <1>6. f \in [Nat -> X]
    <2>1. \A n \in Nat : f[n] \in X
      BY <1>3
    <2>2. f = [n \in Nat |-> f[n]]
      <3> HIDE DEF Spoil
      <3>1. f = [n \in Nat |-> IF n = 0 THEN {} ELSE Spoil(f[n - 1])]
        BY <1>3
      <3> QED BY <3>1
    <2> QED BY <2>1, <2>2
  <1> QED BY <1>4, <1>5, <1>6

\* What is left when the invalidation has settled: the largest set of sound
\* candidates that lacks no dependency.
LEMMA RunnableIsLargest ==
    ASSUME NEW rt \in Roots
    PROVE  /\ Runnable(rt) \subseteq Discovered(rt)
           /\ \A m \in Runnable(rt) : rt[m].after \subseteq Runnable(rt)
           /\ \A S \in SUBSET Discovered(rt) :
                (\A m \in S : rt[m].after \subseteq S) => S \subseteq Runnable(rt)
  <1> DEFINE D == Discovered(rt)
             N == Cardinality(Ids)
             Spoil(S) == {m \in D : ~ (rt[m].after \subseteq D \ S)}
  <1>1. PICK f \in [Nat -> SUBSET D] :
               /\ f[0] = {}
               /\ \A n \in Nat : f[n + 1] = Spoil(f[n])
               /\ Spoiled(rt) = f[N]
    BY SpoiledSteps
  <1>2. IsFiniteSet(Ids) /\ N \in Nat /\ D \subseteq Ids
    BY DiscoveryAssumption, FS_CardinalityType DEF Discovered
  <1>3. \A S \in SUBSET D : IsFiniteSet(S) /\ Cardinality(S) \in Nat /\ Cardinality(S) <= N
    BY <1>2, FS_Subset, FS_CardinalityType
  <1> HIDE DEF D, N
  <1>4. \A n \in Nat : f[n] \in SUBSET D
    BY <1>1
  <1>5. \A n \in Nat : f[n] \subseteq f[n + 1]
    <2> DEFINE Grows == {n \in Nat : f[n] \subseteq f[n + 1]}
    <2>1. 0 \in Grows
      BY <1>1
    <2>2. ASSUME NEW n \in Nat, n \in Grows PROVE n + 1 \in Grows
      <3>1. n + 1 \in Nat /\ f[n + 1] = Spoil(f[n]) /\ f[(n + 1) + 1] = Spoil(f[n + 1])
        BY <1>1
      <3>2. f[n] \subseteq f[n + 1]
        BY <2>2
      <3> QED BY <3>1, <3>2
    <2> HIDE DEF Grows
    <2>3. Nat \subseteq Grows
      BY <2>1, <2>2, SetInduction
    <2> QED BY <2>3 DEF Grows
  \* As long as it has not settled, each round adds a module.
  <1>6. \A n \in Nat : f[n + 1] = f[n] \/ Cardinality(f[n + 1]) >= n + 1
    <2> DEFINE Counted == {n \in Nat : f[n + 1] = f[n] \/ Cardinality(f[n + 1]) >= n + 1}
    <2>1. \A n \in Nat : f[n + 1] # f[n] => Cardinality(f[n + 1]) >= Cardinality(f[n]) + 1
      <3> SUFFICES ASSUME NEW n \in Nat, f[n + 1] # f[n]
                   PROVE  Cardinality(f[n + 1]) >= Cardinality(f[n]) + 1
        OBVIOUS
      <3>1. n + 1 \in Nat /\ f[n] \in SUBSET f[n + 1]
        BY <1>5
      <3>2. IsFiniteSet(f[n + 1]) /\ Cardinality(f[n + 1]) \in Nat /\ Cardinality(f[n]) \in Nat
        BY <1>3, <1>4, <3>1
      <3>3. Cardinality(f[n]) <= Cardinality(f[n + 1])
        BY <3>1, <3>2, FS_Subset
      <3>4. Cardinality(f[n]) # Cardinality(f[n + 1])
        BY <3>1, <3>2, FS_Subset
      <3> QED BY <3>2, <3>3, <3>4
    <2>2. 0 \in Counted
      <3>1. Cardinality(f[0]) \in Nat /\ Cardinality(f[0 + 1]) \in Nat
        BY <1>3, <1>4
      <3> QED BY <2>1, <3>1
    <2>3. ASSUME NEW n \in Nat, n \in Counted PROVE n + 1 \in Counted
      <3>1. n + 1 \in Nat /\ (n + 1) + 1 \in Nat
        OBVIOUS
      <3>2. Cardinality(f[n + 1]) \in Nat /\ Cardinality(f[(n + 1) + 1]) \in Nat
        BY <1>3, <1>4, <3>1
      <3>3. CASE f[n + 1] = f[n]
        <4>1. f[(n + 1) + 1] = Spoil(f[n + 1]) /\ f[n + 1] = Spoil(f[n])
          BY <1>1, <3>1
        <4>2. f[(n + 1) + 1] = f[n + 1]
          BY <3>3, <4>1
        <4> QED BY <3>1, <4>2
      <3>4. CASE Cardinality(f[n + 1]) >= n + 1
        BY <2>1, <3>1, <3>2, <3>4
      <3> QED BY <2>3, <3>3, <3>4
    <2> HIDE DEF Counted
    <2>4. Nat \subseteq Counted
      BY <2>2, <2>3, SetInduction
    <2> QED BY <2>4 DEF Counted
  <1>7. f[N + 1] = f[N]
    <2>1. N + 1 \in Nat /\ Cardinality(f[N + 1]) <= N /\ Cardinality(f[N + 1]) \in Nat
      BY <1>2, <1>3, <1>4
    <2> QED BY <1>2, <1>6, <2>1
  <1>8. Runnable(rt) = D \ f[N] /\ f[N] = Spoil(f[N])
    BY <1>1, <1>2, <1>7 DEF Runnable, D
  <1>9. ASSUME NEW S \in SUBSET D, \A m \in S : rt[m].after \subseteq S
        PROVE  S \subseteq D \ f[N]
    <2> DEFINE Apart == {n \in Nat : S \cap f[n] = {}}
    <2>1. 0 \in Apart
      BY <1>1
    <2>2. ASSUME NEW n \in Nat, n \in Apart PROVE n + 1 \in Apart
      <3>1. f[n + 1] = Spoil(f[n]) /\ S \cap f[n] = {} /\ n + 1 \in Nat
        BY <1>1, <2>2
      <3> QED BY <1>9, <3>1
    <2> HIDE DEF Apart
    <2>3. N \in Apart
      BY <1>2, <2>1, <2>2, SetInduction
    <2> QED BY <2>3 DEF Apart
  <1> QED BY <1>8, <1>9 DEF D

\* Kahn's pass, as the steps it takes.
LEMMA OrderedSteps ==
    ASSUME NEW rt \in Roots
    PROVE  \E f \in [Nat -> Seq(Ids)] :
             /\ f[0] = <<>>
             /\ \A n \in Nat :
                  f[n + 1] = IF ReadyAfter(rt, f[n]) = {} THEN f[n]
                             ELSE Append(f[n], Min(ReadyAfter(rt, f[n])))
             /\ Ordered(rt) = f[Cardinality(Ids)]
  <1> DEFINE X == Seq(Ids)
             After(s) == IF ReadyAfter(rt, s) = {} THEN s
                         ELSE Append(s, Min(ReadyAfter(rt, s)))
             step == [s \in X |-> After(s)]
             Def(g) == [n \in Nat |-> IF n = 0 THEN <<>> ELSE After(g[n - 1])]
             f == CHOOSE g : g = Def(g)
  <1>1. PICK h \in [Nat -> X] : h[0] = <<>> /\ \A n \in Nat : h[n + 1] = step[h[n]]
    <2>1. \A s \in X : After(s) \in X
      <3> SUFFICES ASSUME NEW s \in X, ReadyAfter(rt, s) # {} PROVE Min(ReadyAfter(rt, s)) \in Ids
        OBVIOUS
      <3>1. ReadyAfter(rt, s) \subseteq Ids
        BY DEF ReadyAfter, Runnable, Discovered
      <3> QED BY <3>1, LeastReady
    <2>2. step \in [X -> X] /\ <<>> \in X
      <3> HIDE DEF After
      <3> QED BY <2>1
    <2> HIDE DEF X, step
    <2>3. \E h : Iterates(h, X, <<>>, step)
      BY <2>2, Iteration
    <2> QED BY <2>3 DEF Iterates
  <1>2. h = Def(h)
    <2>1. ASSUME NEW n \in Nat PROVE h[n] = Def(h)[n]
      <3>1. CASE n = 0
        BY <1>1, <3>1
      <3>2. CASE n # 0
        <4>1. n - 1 \in Nat /\ (n - 1) + 1 = n
          BY <3>2
        <4>2. h[n] = step[h[n - 1]] /\ h[n - 1] \in X
          BY <1>1, <4>1
        <4> HIDE DEF After
        <4> QED BY <3>2, <4>2
      <3> QED BY <3>1, <3>2
    <2> HIDE DEF After
    <2> QED BY <2>1
  <1>3. f = Def(f)
    BY <1>2
  <1>4. Ordered(rt) = f[Cardinality(Ids)]
    BY DEF Ordered
  <1> HIDE DEF f
  <1>5. f[0] = <<>> /\ \A n \in Nat : f[n + 1] = After(f[n])
    <2> HIDE DEF After
    <2>1. \A n \in Nat : f[n] = IF n = 0 THEN <<>> ELSE After(f[n - 1])
      BY <1>3
    <2>2. ASSUME NEW n \in Nat PROVE f[n + 1] = After(f[n])
      <3>1. n + 1 \in Nat /\ n + 1 # 0 /\ (n + 1) - 1 = n
        OBVIOUS
      <3> QED BY <2>1, <3>1
    <2> QED BY <2>1, <2>2
  <1>6. f = h
    <2> DEFINE Same == {n \in Nat : f[n] = h[n]}
    <2> HIDE DEF After
    <2>1. 0 \in Same
      BY <1>1, <1>5
    <2>2. ASSUME NEW n \in Nat, n \in Same PROVE n + 1 \in Same
      <3>1. h[n] \in X /\ f[n] = h[n] /\ h[n + 1] = step[h[n]] /\ f[n + 1] = After(f[n])
        BY <1>1, <1>5, <2>2
      <3>2. step[h[n]] = After(h[n])
        BY <3>1
      <3> QED BY <3>1, <3>2
    <2>3. Nat \subseteq Same
      <3> HIDE DEF Same
      <3> QED BY <2>1, <2>2, SetInduction
    <2>4. \A n \in Nat : f[n] = h[n]
      BY <2>3
    <2>5. f = [n \in Nat |-> IF n = 0 THEN <<>> ELSE After(f[n - 1])]
      BY <1>3
    <2> QED BY <2>4, <2>5
  <1> QED BY <1>1, <1>4, <1>5, <1>6

\* The members of a sequence before its j-th; and a sequence built as Kahn's pass
\* builds one: each member is the least that is left of those that wait for none.
Prior(o, j) == {o[i] : i \in 1 .. j - 1}

Greedy(rt, o) ==
    \A j \in 1 .. Len(o) :
        /\ o[j] \in Runnable(rt) \ Prior(o, j)
        /\ rt[o[j]].after \subseteq Prior(o, j)
        /\ \A d \in Runnable(rt) \ Prior(o, j) :
              rt[d].after \subseteq Prior(o, j) => o[j] <= d

\* A sequence that is longer by one is built so if its last member is the least.
LEMMA GreedyGrows ==
    ASSUME NEW rt \in Roots, NEW o \in Seq(Ids), Greedy(rt, o),
           NEW x \in ReadyAfter(rt, o), \A d \in ReadyAfter(rt, o) : x <= d
    PROVE  Append(o, x) \in Seq(Ids) /\ Greedy(rt, Append(o, x))
  <1> DEFINE p == Append(o, x)
  <1>1. x \in Ids /\ x \in Runnable(rt) \ Range(o)
    BY DEF ReadyAfter, Runnable, Discovered
  <1>2. /\ p \in Seq(Ids) /\ Len(p) = Len(o) + 1 /\ Len(o) \in Nat
        /\ p[Len(o) + 1] = x /\ \A i \in 1 .. Len(o) : p[i] = o[i]
    BY <1>1
  <1>3. Range(o) = Prior(p, Len(o) + 1)
    BY <1>2 DEF Range, Prior
  <1> HIDE DEF p
  <1>4. \A j \in 1 .. Len(o) : Prior(p, j) = Prior(o, j) /\ p[j] = o[j]
    BY <1>2 DEF Prior
  <1>5. \A d \in Runnable(rt) : rt[d].after \subseteq Runnable(rt)
    BY RunnableIsLargest
  <1>6. \A d \in Runnable(rt) \ Range(o) :
          rt[d].after \subseteq Range(o) => d \in ReadyAfter(rt, o)
    BY DEF ReadyAfter
  <1>7. rt[x].after \subseteq Range(o)
    BY <1>1, <1>5 DEF ReadyAfter
  <1>8. ASSUME NEW j \in 1 .. Len(p)
        PROVE  /\ p[j] \in Runnable(rt) \ Prior(p, j)
               /\ rt[p[j]].after \subseteq Prior(p, j)
               /\ \A d \in Runnable(rt) \ Prior(p, j) :
                     rt[d].after \subseteq Prior(p, j) => p[j] <= d
    <2>1. CASE j \in 1 .. Len(o)
      BY <1>4, <2>1 DEF Greedy
    <2>2. CASE j = Len(o) + 1
      BY <1>1, <1>2, <1>3, <1>6, <1>7, <2>2
    <2> QED BY <1>2, <2>1, <2>2
  <1> QED BY <1>2, <1>8 DEF Greedy, p

\* Such a sequence repeats nothing.
LEMMA GreedyIsInjective ==
    ASSUME NEW rt \in Roots, NEW o \in Seq(Ids), Greedy(rt, o)
    PROVE  /\ o \in Injection(1 .. Len(o), Range(o))
           /\ IsFiniteSet(Range(o)) /\ Cardinality(Range(o)) = Len(o)
           /\ Range(o) \subseteq Runnable(rt)
  <1>1. Len(o) \in Nat /\ o \in [1 .. Len(o) -> Ids] /\ DOMAIN o = 1 .. Len(o)
    OBVIOUS
  <1>2. \A i, j \in 1 .. Len(o) : i < j => o[i] # o[j]
    BY <1>1 DEF Greedy, Prior
  <1>3. o \in Injection(1 .. Len(o), Range(o))
    <2>1. o \in [1 .. Len(o) -> Range(o)]
      BY <1>1 DEF Range
    <2>2. ASSUME NEW i \in 1 .. Len(o), NEW j \in 1 .. Len(o), o[i] = o[j] PROVE i = j
      BY <1>1, <1>2, <2>2
    <2> QED BY <2>1, <2>2 DEF Injection, IsInjective
  <1>4. o \in Surjection(1 .. Len(o), Range(o))
    BY <1>1, <1>3 DEF Surjection, Injection, Range
  <1>5. IsFiniteSet(1 .. Len(o)) /\ Cardinality(1 .. Len(o)) = Len(o)
    BY <1>1, FS_Interval
  <1>6. IsFiniteSet(Range(o)) /\ Cardinality(Range(o)) = Len(o)
    BY <1>3, <1>4, <1>5, FS_Surjection
  <1>7. Range(o) \subseteq Runnable(rt)
    BY <1>1 DEF Greedy, Range
  <1> QED BY <1>3, <1>6, <1>7

\* What Kahn's pass returns, and that nothing more was ready.
LEMMA OrderedIsGreedy ==
    ASSUME NEW rt \in Roots
    PROVE  /\ Ordered(rt) \in Seq(Ids)
           /\ Greedy(rt, Ordered(rt))
           /\ ReadyAfter(rt, Ordered(rt)) = {}
  <1> DEFINE N == Cardinality(Ids)
  <1>1. PICK f \in [Nat -> Seq(Ids)] :
               /\ f[0] = <<>>
               /\ \A n \in Nat :
                    f[n + 1] = IF ReadyAfter(rt, f[n]) = {} THEN f[n]
                               ELSE Append(f[n], Min(ReadyAfter(rt, f[n])))
               /\ Ordered(rt) = f[N]
    BY OrderedSteps
  <1>2. IsFiniteSet(Ids) /\ N \in Nat
    BY DiscoveryAssumption, FS_CardinalityType
  <1> HIDE DEF N
  <1> DEFINE Kept == {n \in Nat : /\ Greedy(rt, f[n])
                                  /\ Len(f[n]) = n \/ ReadyAfter(rt, f[n]) = {}}
  <1>3. 0 \in Kept
    <2>1. Len(f[0]) = 0
      BY <1>1
    <2> QED BY <2>1 DEF Greedy
  <1>4. ASSUME NEW n \in Nat, n \in Kept PROVE n + 1 \in Kept
    <2>1. CASE ReadyAfter(rt, f[n]) = {}
      <3>1. f[n + 1] = f[n]
        BY <1>1, <2>1
      <3> QED BY <1>4, <2>1, <3>1
    <2>2. CASE ReadyAfter(rt, f[n]) # {}
      <3> DEFINE x == Min(ReadyAfter(rt, f[n]))
      <3>1. x \in ReadyAfter(rt, f[n]) /\ \A d \in ReadyAfter(rt, f[n]) : x <= d
        <4>1. ReadyAfter(rt, f[n]) \in SUBSET Ids
          BY DEF ReadyAfter, Runnable, Discovered
        <4> QED BY <2>2, <4>1, LeastReady
      <3>2. f[n + 1] = Append(f[n], x) /\ f[n] \in Seq(Ids)
        BY <1>1, <2>2
      <3>3. Greedy(rt, f[n]) /\ Len(f[n]) = n
        BY <1>4, <2>2
      <3> HIDE DEF x
      <3>4. Greedy(rt, f[n + 1])
        BY <3>1, <3>2, <3>3, GreedyGrows
      <3>5. Len(f[n + 1]) = n + 1
        BY <3>2, <3>3
      <3> QED BY <3>4, <3>5
    <2> QED BY <2>1, <2>2
  <1>5. N \in Kept
    <2> HIDE DEF Kept
    <2>1. Nat \subseteq Kept
      BY <1>3, <1>4, SetInduction
    <2> QED BY <1>2, <2>1
  <1> DEFINE o == Ordered(rt)
  <1>6. o \in Seq(Ids) /\ Greedy(rt, o) /\ (Len(o) = N \/ ReadyAfter(rt, o) = {})
    BY <1>1, <1>2, <1>5
  <1> HIDE DEF o
  <1>7. ASSUME Len(o) = N PROVE ReadyAfter(rt, o) = {}
    <2>1. /\ Cardinality(Range(o)) = N /\ Range(o) \in SUBSET Ids
      BY <1>6, <1>7, GreedyIsInjective DEF Runnable, Discovered
    <2>2. Range(o) = Ids
      BY <1>2, <2>1, FS_Subset DEF N
    <2> QED BY <2>2 DEF ReadyAfter, Runnable, Discovered
  <1> QED BY <1>6, <1>7 DEF o

\* The modules that Kahn's pass orders are those that can run.
LEMMA OrderedIsViable ==
    ASSUME NEW rt \in Roots
    PROVE  Range(Ordered(rt)) = Viable(rt)
  <1> DEFINE o == Ordered(rt)
  <1>1. o \in Seq(Ids) /\ Greedy(rt, o) /\ ReadyAfter(rt, o) = {}
    BY OrderedIsGreedy
  <1>2. Range(o) \subseteq Runnable(rt) /\ Runnable(rt) \subseteq Discovered(rt)
    BY <1>1, GreedyIsInjective, RunnableIsLargest
  <1> HIDE DEF o
  <1>3. Len(o) \in Nat /\ DOMAIN o = 1 .. Len(o)
    BY <1>1
  <1>4. \A m \in Range(o) : rt[m].after \subseteq Range(o)
    BY <1>1, <1>3 DEF Greedy, Prior, Range
  <1>5. Acyclic(rt, Range(o))
    <2> SUFFICES ASSUME NEW T, T \subseteq Range(o), T # {}
                 PROVE  \E m \in T : rt[m].after \cap T = {}
      BY DEF Acyclic
    <2> DEFINE Places == {j \in 1 .. Len(o) : o[j] \in T}
    <2>1. Places \subseteq Nat /\ Places # {}
      BY <1>3 DEF Range
    <2>2. PICK j \in Places : \A i \in Places : j <= i
      <3> HIDE DEF Places
      <3> QED BY <2>1, LeastNumber
    <2>3. rt[o[j]].after \subseteq Prior(o, j)
      BY <1>1 DEF Greedy
    <2>4. Prior(o, j) \cap T = {}
      <3> SUFFICES ASSUME NEW i \in 1 .. j - 1, o[i] \in T PROVE FALSE
        BY DEF Prior
      <3>1. i \in Places
        BY <1>3
      <3> QED BY <2>2, <3>1
    <2> QED BY <2>3, <2>4
  <1>6. Range(o) \subseteq Viable(rt)
    <2>1. Range(o) \in {S \in SUBSET Discovered(rt) :
                          (\A m \in S : rt[m].after \subseteq S) /\ Acyclic(rt, S)}
      BY <1>2, <1>4, <1>5
    <2> QED BY <2>1 DEF Viable
  <1>7. ASSUME NEW S \in SUBSET Discovered(rt), \A m \in S : rt[m].after \subseteq S,
               Acyclic(rt, S)
        PROVE  S \subseteq Range(o)
    <2>1. S \subseteq Runnable(rt)
      BY <1>7, RunnableIsLargest
    <2> DEFINE T == S \ Range(o)
    <2> SUFFICES ASSUME T # {} PROVE FALSE
      OBVIOUS
    <2>2. PICK m \in T : rt[m].after \cap T = {}
      BY <1>7 DEF Acyclic
    <2>3. rt[m].after \subseteq Range(o)
      BY <1>7, <2>2
    <2>4. m \in ReadyAfter(rt, o)
      BY <2>1, <2>3 DEF ReadyAfter
    <2> QED BY <1>1, <2>4
  <1> QED BY <1>6, <1>7 DEF Viable, o

\* What a cycle admits, for any contents of the module root.
LEMMA AdmittedIsExact ==
    ASSUME NEW rt \in Roots, NEW q, q = Admitted(rt)
    PROVE  IsExact(rt, q) /\ q \in Seq(Ids) /\ Greedy(rt, q)
  <1> DEFINE o == Ordered(rt)
  <1>1. o \in Seq(Ids) /\ Greedy(rt, o) /\ Range(o) = Viable(rt)
    BY OrderedIsGreedy, OrderedIsViable
  <1>2. Len(o) = Cardinality(Viable(rt)) /\ Len(o) \in Nat /\ Range(o) \subseteq Runnable(rt)
    BY <1>1, GreedyIsInjective
  <1>3. PICK n \in Nat : /\ n <= Len(o)
                         /\ n = Min({Capacity, Cardinality(Viable(rt))})
                         /\ q = SubSeq(o, 1, n)
    <2> DEFINE M == {Capacity, Len(o)}
    <2>1. M \subseteq Nat
      BY <1>2, DiscoveryAssumption
    <2>2. \E x \in M : \A y \in M : x <= y
      BY <2>1
    <2>3. Min(M) \in M /\ \A y \in M : Min(M) <= y
      <3> HIDE DEF M
      <3> QED BY <2>2 DEF Min
    <2>4. Min(M) \in Nat /\ Min(M) <= Len(o)
      BY <2>1, <2>3
    <2>5. q = SubSeq(o, 1, Min(M)) /\ M = {Capacity, Cardinality(Viable(rt))}
      BY <1>2 DEF Admitted
    <2> HIDE DEF M
    <2> QED BY <2>4, <2>5
  <1> HIDE DEF o
  <1>4. q \in Seq(Ids) /\ Len(q) = n /\ DOMAIN q = 1 .. n /\ \A i \in 1 .. n : q[i] = o[i]
    <2>1. \A i \in 1 .. n : o[i] \in Ids
      BY <1>1, <1>2, <1>3
    <2>2. SubSeq(o, 1, n) = [i \in 1 .. n |-> o[i]]
      BY <1>1, <1>2, <1>3
    <2>3. q \in Seq(Ids) /\ Len(q) = n
      <3>1. /\ SubSeq(o, 1, n) \in Seq(Ids)
            /\ Len(SubSeq(o, 1, n)) = IF 1 <= n THEN n - 1 + 1 ELSE 0
        BY <2>1, SubSeqProperties
      <3>2. Len(SubSeq(o, 1, n)) = n
        BY <3>1
      <3>3. q = SubSeq(o, 1, n)
        BY <1>3
      <3> QED BY <3>1, <3>2, <3>3, Zenon
    <2> QED BY <1>3, <2>2, <2>3
  <1>5. \A j \in 1 .. n : Prior(q, j) = Prior(o, j) /\ q[j] = o[j] /\ j \in 1 .. Len(o)
    <2> SUFFICES ASSUME NEW j \in 1 .. n
                 PROVE  Prior(q, j) = Prior(o, j) /\ q[j] = o[j] /\ j \in 1 .. Len(o)
      OBVIOUS
    <2>1. \A i \in 1 .. j - 1 : i \in 1 .. n /\ q[i] = o[i]
      BY <1>3, <1>4
    <2> QED BY <1>2, <1>3, <1>4, <2>1 DEF Prior
  <1>6. Greedy(rt, q)
    BY <1>1, <1>4, <1>5 DEF Greedy
  <1>7. Cardinality(Range(q)) = n /\ Range(q) \subseteq Range(o)
    <2>1. Cardinality(Range(q)) = n
      BY <1>4, <1>6, GreedyIsInjective
    <2>2. \A i \in 1 .. n : q[i] = o[i] /\ i \in DOMAIN o
      <3>1. DOMAIN o = 1 .. Len(o)
        BY <1>1
      <3>2. Len(o) \in Nat /\ n <= Len(o)
        BY <1>2, <1>3
      <3> QED BY <1>4, <3>1, <3>2
    <2> QED BY <1>4, <2>1, <2>2 DEF Range
  <1>8. Runnable(rt) \subseteq Nat /\ \A d \in Runnable(rt) : rt[d].after \subseteq Runnable(rt)
    BY RunnableIsLargest, DiscoveryAssumption DEF Runnable, Discovered
  <1>9. ASSUME NEW j \in DOMAIN q PROVE \A d \in rt[q[j]].after : \E i \in 1 .. (j - 1) : q[i] = d
    BY <1>4, <1>6, <1>9 DEF Greedy, Prior
  <1>10. ASSUME NEW j \in DOMAIN q, NEW i \in 1 .. (j - 1), q[j] < q[i]
         PROVE  \E k \in i .. (j - 1) : q[k] \in rt[q[j]].after
    <2>1. i \in 1 .. n /\ j \in 1 .. n /\ i < j /\ j \in Nat /\ i \in Nat
      BY <1>3, <1>4
    <2>2. q[j] \in Runnable(rt) \ Prior(q, j) /\ q[i] \in Runnable(rt)
      BY <1>4, <1>6, <2>1 DEF Greedy
    <2>3. q[j] \notin Prior(q, i)
      BY <2>1, <2>2 DEF Prior
    <2>4. ~ (rt[q[j]].after \subseteq Prior(q, i))
      <3>1. ~ (q[i] <= q[j])
        BY <1>8, <1>10, <2>2
      <3> QED BY <1>4, <1>6, <2>1, <2>2, <2>3, <3>1 DEF Greedy
    <2>5. PICK d \in rt[q[j]].after : d \notin Prior(q, i)
      BY <2>4
    <2>6. PICK k \in 1 .. (j - 1) : q[k] = d
      BY <1>9
    <2>7. ~ (k \in 1 .. i - 1)
      BY <2>5, <2>6 DEF Prior
    <2> QED BY <2>1, <2>5, <2>6, <2>7
  <1>11. ASSUME NEW d \in Viable(rt) \ Range(q), NEW j \in DOMAIN q,
                rt[d].after \subseteq {q[i] : i \in 1 .. (j - 1)}
         PROVE  q[j] < d
    <2>1. d \in Runnable(rt) /\ d \notin Prior(q, j) /\ rt[d].after \subseteq Prior(q, j)
      <3>1. \A i \in 1 .. (j - 1) : i \in DOMAIN q
        BY <1>3, <1>4
      <3> QED BY <1>1, <1>2, <1>11, <3>1 DEF Range, Prior
    <2>2. q[j] <= d /\ q[j] # d /\ q[j] \in Runnable(rt)
      BY <1>4, <1>6, <1>11, <2>1 DEF Greedy, Range
    <2> QED BY <1>8, <2>1, <2>2
  <1>12. IsOrderOf(rt, q, Range(q))
    BY <1>4, <1>7, <1>9, <1>10 DEF IsOrderOf
  <1>13. IsExact(rt, q)
    BY <1>1, <1>3, <1>7, <1>11, <1>12 DEF IsExact
  <1> QED BY <1>4, <1>6, <1>13

\* Only discovery touches the module root.
RootInv == root \in Roots

LEMMA RootKept == RootInv /\ [Next]_vars => RootInv'
  <1> SUFFICES ASSUME root \in Roots, [Next]_vars PROVE root' \in Roots
    BY DEF RootInv
  <1>1. CASE Discover
    <2>1. NoModules \in Roots
      BY DEF NoModules, Roots, Candidates, Flaws
    <2> QED
      BY <1>1, <2>1 DEF Discover
  <1>2. CASE UNCHANGED root
    BY <1>2
  <1>3. Discover \/ UNCHANGED root
    BY DEF Next, vars, Runner, SkipUnready, FailToLaunch, Launch, Collect, Conclude, TimeOut,
           Kill, CollectTimedOut, Close, CollectCell, CollectRoutes, Exit, Module, Descend,
           Send, Handler, Refuse, StagePatch, StageRoute, Abandon, Answer, BeginCommit,
           CopyCell, AssignCell, Seal, running
  <1> QED
    BY <1>1, <1>2, <1>3

\* Only Discover leads from discovery to the first module.
LEMMA OnlyDiscoverAdmits ==
    ASSUME [Next]_vars, phase = "discovering", phase' = "choosing"
    PROVE  queue' = Admitted(root)
  <1>1. CASE Discover
    BY <1>1 DEF Discover
  <1>2. CASE phase # "discovering" \/ UNCHANGED phase
    BY <1>2
  <1>3. Discover \/ phase # "discovering" \/ UNCHANGED phase
    BY DEF Next, vars, Runner, SkipUnready, FailToLaunch, Launch, Collect, Conclude, TimeOut,
           Kill, CollectTimedOut, Close, CollectCell, CollectRoutes, Exit, Module, Descend,
           Send, Handler, Refuse, StagePatch, StageRoute, Abandon, Answer, BeginCommit,
           CopyCell, AssignCell, Seal, running
  <1> QED
    BY <1>1, <1>2, <1>3

\* Whatever directories, flaws and dependencies a module root holds, cycles of
\* dependencies included, discovery admits the modules that can run and no other, or
\* the first MAX_EXTERNAL_MODULES of them, dependencies first and then by id
\* (discover_modules).
THEOREM DiscoveryAdmitsWhatCanRun == Spec => DiscoveryIsExact
  <1>1. RootInv /\ [Next]_vars =>
          [phase = "discovering" /\ phase' = "choosing" => IsExact(root, queue')]_vars
    BY OnlyDiscoverAdmits, AdmittedIsExact DEF RootInv
  <1>2. Init => RootInv
    BY DEF Init, RootInv
  <1> QED
    BY <1>1, <1>2, RootKept, PTL DEF Spec, DiscoveryIsExact

-----------------------------------------------------------------------------
(***************************************************************************)
(* What is published.                                                      *)
(***************************************************************************)
\* The phases in which the current module has been launched.
Running == {"communicating", "terminating", "killing"}

Distinct(q) == \A i, j \in 1 .. Len(q) : i # j => q[i] # q[j]

\* The module, a descendant or a handler of it has done something.
Touched(m) == kin[m] # "none" \/ request[m] # Idle \/ tx[m].state # "open"

\* Each module is up once; one that was launched has ended or is the current one.
QueueInv ==
    /\ kin \in [Ids -> {"none", "piped", "quiet"}]
    /\ queue \in Seq(Ids) /\ Distinct(queue)
    /\ \A i \in 1 .. Len(queue) : result[queue[i]] = "none"
    /\ phase = "discovering" => \A m \in Ids : result[m] = "none"
    /\ phase \in Running => queue # <<>>
    /\ proc = "up" => phase \in Running
    /\ \A m \in Ids : Touched(m) =>
          \/ result[m] \in {"completed", "failed", "timed_out"}
          \/ phase \in Running /\ m = Current

LEMMA InitQueueInv == Init => QueueInv
  <1> SUFFICES ASSUME Init PROVE QueueInv
    OBVIOUS
  <1>1. /\ queue = <<>> /\ phase = "discovering" /\ proc = "none"
        /\ kin \in [Ids -> {"none", "piped", "quiet"}]
    BY DEF Init
  <1>2. \A m \in Ids : ~Touched(m) /\ result[m] = "none"
    BY DEF Init, Touched, Open
  <1> QED
    BY <1>1, <1>2 DEF QueueInv, Distinct, Running

\* The current module ends as r: it had no result, and no other one's is touched.
LEMMA ConcludeQueue ==
    ASSUME StageInv, QueueInv, NEW r \in Results, Conclude(r), queue # <<>>,
           phase \in Running => r \in {"completed", "failed", "timed_out"}
    PROVE  QueueInv'
  <1>1. /\ result' = [result EXCEPT ![Current] = r] /\ queue' = Tail(queue)
        /\ phase' = "choosing" /\ proc' = "none" /\ UNCHANGED <<kin, tx, request>>
    BY DEF Conclude
  <1>2. /\ queue \in Seq(Ids) /\ Len(queue) \in Nat \ {0} /\ Current = queue[1]
        /\ Tail(queue) \in Seq(Ids) /\ Len(Tail(queue)) = Len(queue) - 1
        /\ \A i \in 1 .. Len(queue) - 1 : Tail(queue)[i] = queue[i + 1]
    BY DEF QueueInv, Current
  <1>3. result \in [Ids -> Results] /\ Current \in Ids /\ result[Current] = "none"
    BY <1>2 DEF StageInv, StageType, QueueInv
  <1>4. \A m \in Ids \ {Current} : result'[m] = result[m]
    BY <1>1, <1>3
  <1>5. \A i \in 1 .. Len(Tail(queue)) :
            /\ Tail(queue)[i] = queue[i + 1] /\ i + 1 \in 1 .. Len(queue)
            /\ queue[i + 1] # Current /\ queue[i + 1] \in Ids
    <2> SUFFICES ASSUME NEW i \in 1 .. Len(queue) - 1
                 PROVE  queue[i + 1] # queue[1] /\ i + 1 \in 1 .. Len(queue)
                        /\ queue[i + 1] \in Ids
      BY <1>2
    <2>1. i + 1 \in 1 .. Len(queue) /\ 1 \in 1 .. Len(queue) /\ i + 1 # 1
      BY <1>2
    <2> QED
      BY <1>2, <2>1 DEF QueueInv, Distinct
  <1>6. Distinct(queue')
    <2> SUFFICES ASSUME NEW i \in 1 .. Len(Tail(queue)), NEW j \in 1 .. Len(Tail(queue)), i # j
                 PROVE  Tail(queue)[i] # Tail(queue)[j]
      BY <1>1 DEF Distinct
    <2>1. i + 1 # j + 1
      BY <1>2
    <2> QED
      BY <1>5, <2>1 DEF QueueInv, Distinct
  <1>7. \A i \in 1 .. Len(queue') : result'[queue'[i]] = "none"
    BY <1>1, <1>4, <1>5 DEF QueueInv
  <1>8. ASSUME NEW m \in Ids, Touched(m)' PROVE result'[m] \in {"completed", "failed", "timed_out"}
    <2>1. Touched(m)
      BY <1>1, <1>8 DEF Touched
    <2>2. \/ result[m] \in {"completed", "failed", "timed_out"}
          \/ phase \in Running /\ m = Current
      BY <2>1 DEF QueueInv
    <2>3. CASE m = Current
      BY <1>1, <1>3, <2>2, <2>3
    <2>4. CASE m # Current
      BY <1>4, <2>2, <2>4
    <2> QED
      BY <2>3, <2>4
  <1>9. /\ queue' \in Seq(Ids) /\ kin' \in [Ids -> {"none", "piped", "quiet"}]
        /\ phase' \notin Running /\ phase' # "discovering" /\ proc' # "up"
    BY <1>1, <1>2 DEF QueueInv, Running
  <1>10. \A m \in Ids : Touched(m)' => result'[m] \in {"completed", "failed", "timed_out"}
    BY <1>8
  <1>11. Distinct(queue)' /\ \A m \in Ids : Touched(m)' =>
            \/ result'[m] \in {"completed", "failed", "timed_out"}
            \/ phase' \in Running /\ m = Current'
    BY <1>6, <1>10 DEF Distinct
  <1> QED
    BY <1>7, <1>9, <1>11 DEF QueueInv

\* A step that leaves the queue and the results alone, and after which nothing has
\* been done by a module that was untouched and is not the current one.
LEMMA SameQueue ==
    ASSUME QueueInv, UNCHANGED <<queue, result>>, phase # "discovering",
           phase' # "discovering", kin' \in [Ids -> {"none", "piped", "quiet"}],
           phase' \in Running => queue # <<>>,
           proc' = "up" => phase' \in Running,
           phase \in Running => phase' \in Running,
           \A m \in Ids : Touched(m)' => Touched(m) \/ (phase' \in Running /\ m = Current)
    PROVE  QueueInv'
  <1>1. Current' = Current
    BY DEF Current
  <1> QED
    BY <1>1 DEF QueueInv, Distinct

LEMMA NextQueueInv == StageInv /\ RootInv /\ QueueInv /\ [Next]_vars => QueueInv'
  <1> SUFFICES ASSUME StageInv, RootInv, QueueInv, [Next]_vars PROVE QueueInv'
    OBVIOUS
  <1>1. CASE Discover
    <2>1. /\ UNCHANGED <<kin, result, tx, request, proc>> /\ phase = "discovering"
          /\ phase' \in {"choosing", "dropped"}
      BY <1>1 DEF Discover
    <2>2. queue' \in Seq(Ids) /\ Distinct(queue')
      <3>1. CASE queue' = Admitted(root)
        <4>1. queue' \in Seq(Ids) /\ Greedy(root, queue')
          BY <3>1, AdmittedIsExact DEF RootInv
        <4>2. \A i, j \in 1 .. Len(queue') : i < j => queue'[i] # queue'[j]
          BY <4>1 DEF Greedy, Prior
        <4>3. \A i, j \in 1 .. Len(queue') : i # j => i < j \/ j < i
          BY <4>1
        <4> QED
          BY <4>1, <4>2, <4>3 DEF Distinct
      <3>2. CASE queue' = <<>>
        BY <3>2 DEF Distinct
      <3> QED
        BY <1>1, <3>1, <3>2 DEF Discover
    <2>3. \A i \in 1 .. Len(queue') : queue'[i] \in Ids
      BY <2>2
    <2>4. \A m \in Ids : Touched(m)' <=> Touched(m)
      BY <2>1 DEF Touched
    <2> QED
      BY <2>1, <2>2, <2>3, <2>4 DEF QueueInv, Running
  <1>2. CASE SkipUnready \/ FailToLaunch
    BY <1>2, ConcludeQueue DEF SkipUnready, FailToLaunch, Results, Failures, Running
  <1>3. CASE Collect
    <2> DEFINE r == IF proc = "zero" /\ tx[Current].state = "sealed"
                    THEN "completed" ELSE "failed"
    <2>1. r \in Results /\ r \in {"completed", "failed", "timed_out"}
      BY DEF Results, Failures
    <2>2. Conclude(r) /\ queue # <<>>
      BY <1>3 DEF Collect, QueueInv, Running
    <2> HIDE DEF r
    <2> QED
      BY <2>1, <2>2, ConcludeQueue
  <1>4. CASE CollectTimedOut
    BY <1>4, ConcludeQueue DEF CollectTimedOut, Results, Failures, Running, QueueInv
  <1>5. CASE Launch \/ TimeOut \/ Kill
    <2>1. /\ UNCHANGED <<queue, kin, result, tx, request>> /\ phase # "discovering"
          /\ phase' \in Running /\ queue # <<>>
      BY <1>5 DEF Launch, TimeOut, Kill, Running, QueueInv
    <2> QED
      BY <2>1, SameQueue DEF Touched, Running, QueueInv
  <1>6. CASE Close \/ (\E c \in Cells : CollectCell(c)) \/ CollectRoutes
    <2>1. /\ UNCHANGED <<queue, proc, kin, result, tx, request>>
          /\ phase \in {"choosing", "collecting"}
          /\ phase' \in {"collecting", "dropped", "published"}
      BY <1>6 DEF Close, CollectCell, CollectRoutes
    <2>2. proc # "up"
      BY <2>1 DEF QueueInv, Running
    <2> QED
      BY <2>1, <2>2, SameQueue DEF Touched, Running, QueueInv
  <1>7. CASE Exit
    <2>1. UNCHANGED <<queue, phase, kin, result, tx, request>> /\ phase \in Running
      BY <1>7 DEF Exit, running, QueueInv
    <2> QED
      BY <2>1, SameQueue DEF Touched, Running, QueueInv
  <1>8. ASSUME NEW m \in Ids, Module(m) PROVE QueueInv'
    <2>1. /\ UNCHANGED <<queue, phase, proc, result, tx>>
          /\ (Runs(m) /\ phase \in Running) \/ kin[m] # "none"
      BY <1>8 DEF Module, Descend, Send, running, Runs, QueueInv
    <2>2. Touched(m) \/ (phase \in Running /\ m = Current)
      BY <2>1 DEF Touched, Runs
    <2>3. phase # "discovering"
      BY <2>2 DEF QueueInv, Running
    <2>4. \A n \in Ids \ {m} : Touched(n)' => Touched(n)
      <3>1. kin' = kin \/ \E v \in {"none", "piped", "quiet"} : kin' = [kin EXCEPT ![m] = v]
        BY <1>8 DEF Module, Descend, Send, running
      <3>2. request' = request \/ \E v \in {Asked(w) : w \in Commands} : request' = [request EXCEPT ![m] = v]
        BY <1>8 DEF Module, Descend, Send, running
      <3>3. \A n \in Ids \ {m} : kin'[n] = kin[n]
        BY <3>1 DEF QueueInv
      <3>4. \A n \in Ids \ {m} : request'[n] = request[n]
        BY <3>2 DEF StageInv, StageType
      <3> QED
        BY <2>1, <3>3, <3>4 DEF Touched
    <2>5. kin' \in [Ids -> {"none", "piped", "quiet"}]
      BY <1>8 DEF Module, Descend, Send, running, QueueInv
    <2> QED
      BY <2>1, <2>2, <2>3, <2>4, <2>5, SameQueue DEF QueueInv
  <1>9. ASSUME NEW m \in Ids, Handler(m) PROVE QueueInv'
    <2>1. UNCHANGED <<queue, phase, proc, kin, result>> /\ request[m] # Idle
      <3>1. UNCHANGED <<queue, phase, proc, kin, result>>
        BY <1>9 DEF Handler, Refuse, StagePatch, StageRoute, Abandon, Answer, BeginCommit,
                    CopyCell, AssignCell, Seal, running
      <3>2. request[m].at \in {"asked", "assigning", "copied"}
        <4>1. CASE (\E w \in Commands : Refuse(m, w)) \/ (\E c \in Cells : StagePatch(m, c))
                   \/ StageRoute(m) \/ Abandon(m) \/ BeginCommit(m)
          <5>1. PICK w \in Commands : request[m] = Asked(w)
            BY <4>1 DEF Refuse, StagePatch, StageRoute, Abandon, BeginCommit, Handles, Commands
          <5> QED
            BY <5>1 DEF Asked
        <4>2. CASE (\E c \in Cells : CopyCell(m, c)) \/ AssignCell(m) \/ Seal(m)
          BY <4>2 DEF CopyCell, AssignCell, Seal
        <4> QED
          BY <1>9, <4>1, <4>2 DEF Handler
      <3> QED
        BY <3>1, <3>2 DEF Idle
    <2>2. \A n \in Ids \ {m} : tx'[n] = tx[n] /\ request'[n] = request[n]
      <3>1. tx' = tx \/ \E t : tx' = [tx EXCEPT ![m] = t]
        <4>1. CASE Seal(m)
          <5>1. tx' = [tx EXCEPT ![m] = [tx[m] EXCEPT !.state = "sealed"]]
            BY <4>1 DEF Seal
          <5> QED
            BY <5>1
        <4>2. CASE (\E w \in Commands : Refuse(m, w)) \/ (\E c \in Cells : StagePatch(m, c))
                   \/ StageRoute(m) \/ Abandon(m)
          BY <4>2 DEF Refuse, StagePatch, StageRoute, Abandon, Answer
        <4>3. CASE BeginCommit(m) \/ AssignCell(m) \/ \E c \in Cells : CopyCell(m, c)
          BY <4>3 DEF BeginCommit, CopyCell, AssignCell
        <4> QED
          BY <1>9, <4>1, <4>2, <4>3 DEF Handler
      <3>2. \E r : request' = [request EXCEPT ![m] = r]
        <4>1. CASE (\E w \in Commands : Refuse(m, w)) \/ (\E c \in Cells : StagePatch(m, c))
                   \/ StageRoute(m) \/ Abandon(m) \/ Seal(m)
          BY <4>1 DEF Refuse, StagePatch, StageRoute, Abandon, Answer, Seal
        <4>2. CASE BeginCommit(m)
          BY <4>2 DEF BeginCommit
        <4>3. CASE AssignCell(m)
          <5>1. request' = [request EXCEPT ![m] = Assigning(request[m].todo)]
            BY <4>3 DEF AssignCell
          <5> QED
            BY <5>1
        <4>4. ASSUME NEW c \in Cells, CopyCell(m, c) PROVE \E r : request' = [request EXCEPT ![m] = r]
          <5>1. request' = [request EXCEPT ![m] = Copied(request[m].todo \ {c}, c, work[c] \cup {m})]
            BY <4>4 DEF CopyCell
          <5> QED
            BY <5>1
        <4> QED
          BY <1>9, <4>1, <4>2, <4>3, <4>4 DEF Handler
      <3>3. tx \in [Ids -> Transaction] /\ request \in [Ids -> Request]
        BY DEF StageInv, StageType
      <3>4. \A n \in Ids \ {m} : tx'[n] = tx[n]
        BY <3>1, <3>3
      <3>5. \A n \in Ids \ {m} : request'[n] = request[n]
        BY <3>2, <3>3
      <3> QED
        BY <3>4, <3>5
    <2>3. Touched(m) /\ \A n \in Ids : Touched(n)' => Touched(n)
      BY <2>1, <2>2 DEF Touched
    <2>4. phase # "discovering"
      BY <2>3 DEF QueueInv, Running
    <2> QED
      BY <2>1, <2>3, <2>4, SameQueue DEF QueueInv
  <1>10. CASE UNCHANGED vars
    BY <1>10 DEF vars, QueueInv, Distinct, Touched, Current
  <1> QED
    BY <1>1, <1>2, <1>3, <1>4, <1>5, <1>6, <1>7, <1>8, <1>9, <1>10 DEF Next, Runner

\* However the modules, their descendants and the handler threads interleave, and
\* whatever fails or runs out of time: in the working set each module's transaction
\* counts whole or not at all; what had been sealed when the server was closed is
\* published whole, what was not is published, in part or whole, only of modules that
\* failed or ran out of time, and nothing is if a required module did not complete
\* (CTAMTransactionService.commit, _run_external_modules).
THEOREM TransactionsAreAtomic == Spec => []StageIsAtomic
  <1>1. StageInv => WorkingSetIsCommitted
    <2> SUFFICES ASSUME StageInv, NEW m \in Ids, request[m].at \in {"idle", "asked"},
                        NEW c \in Cells
                 PROVE  m \in work[c] <=> tx[m].state = "sealed" /\ c \in tx[m].cells
      BY DEF WorkingSetIsCommitted
    <2>1. Missing(m) = {} /\ ~Committing(m)
      BY DEF Missing, Committing
    <2> QED
      BY <2>1 DEF StageInv, WorkKnown
  <1>2. StageInv => SealedIsPublishedWhole
    BY DEF StageInv, ResultsKnown, CollectedKnown, SealedIsPublishedWhole
  <1>3. StageInv /\ QueueInv => OnlyLateCommitsArePart
    <2> SUFFICES ASSUME StageInv, QueueInv, NEW m \in Ids \ out.sealed,
                        m \in out.routes \/ \E c \in Cells : m \in out.cells[c]
                 PROVE  result[m] \in {"failed", "timed_out"}
      BY DEF OnlyLateCommitsArePart, StageInv, CollectedKnown
    <2>1. phase \in {"collecting", "published"}
      BY DEF StageInv, ResultsKnown
    <2>2. tx[m].state = "sealed" \/ Committing(m)
      BY DEF StageInv, CollectedKnown
    <2>3. Touched(m)
      BY <2>2 DEF Touched, Committing, Idle
    <2>4. result[m] # "completed"
      BY <2>1 DEF StageInv, ResultsKnown
    <2> QED
      BY <2>1, <2>3, <2>4 DEF QueueInv, Running
  <1>4. StageInv => RequiredOrNothing
    <2> SUFFICES ASSUME StageInv, NEW m \in Required, result[m] \in Failures
                 PROVE  (\A c \in Cells : out.cells[c] = {}) /\ out.routes = {}
      BY DEF RequiredOrNothing, Failures
    <2>1. RequiredFailed
      BY DEF RequiredFailed, Failures
    <2> QED
      BY <2>1 DEF StageInv, ResultsKnown
  <1>5. Init => RootInv
    BY DEF Init, RootInv
  <1>6. Spec => []QueueInv
    BY InitStageInv, NextStageInv, <1>5, RootKept, InitQueueInv, NextQueueInv, PTL DEF Spec
  <1> QED
    BY <1>1, <1>2, <1>3, <1>4, <1>6, StageInvariant, PTL DEF StageIsAtomic

=============================================================================
