------------------------------ MODULE CtamStage ------------------------------
(***************************************************************************)
(* One cycle of the external CTAM modules.  run.py discovers them, the     *)
(* runner (runner.py) launches each admitted module in turn as a process   *)
(* of its own, and the module works on the cycle's storm cells through a   *)
(* loopback HTTP server whose handler threads stage and commit one         *)
(* transaction per module in a shared working set (transaction.py).  The   *)
(* committed result is then read back for publication.                     *)
(*                                                                         *)
(* A handler thread answers one request.  It outlives the client that sent *)
(* the request, and the server, which does not wait for its threads.       *)
(***************************************************************************)
EXTENDS CtamDiscovery

CONSTANTS
    Cells,    \* storm cells of the cycle
    Required, \* modules whose manifest says required
    Supplied, \* modules whose required inputs are in the cycle's catalogue
    Stubborn  \* modules that do not stop at SIGTERM

ASSUME StageAssumption ==
    Required \subseteq Ids /\ Supplied \subseteq Ids /\ Stubborn \subseteq Ids

VARIABLES
    root,     \* contents of the module root, until it is read
    queue,    \* admitted modules that have not ended, the current one first
    phase,    \* the runner, and then the caller that collects its results
    proc,     \* the current module's process
    kin,      \* kin[m]: a descendant of module m, and whether it holds the pipes
    result,   \* state of each module's ModuleRunResult
    tx,       \* tx[m]: the transaction of module m
    request,  \* request[m]: what a handler thread is doing for module m
    lock,     \* the thread that holds the transaction service's lock
    work,     \* the working set: which modules' output each cell holds
    out       \* what is published: cells, routes, and the cells not yet collected;
              \* history: what had been sealed when the server was closed

vars == <<root, queue, phase, proc, kin, result, tx, request, lock, work, out>>
running == <<root, queue, phase, kin, result, out>>

Nobody == 0
NoModules == [m \in Ids |-> [flaw |-> "absent", after |-> {}]]

Open == [state |-> "open", cells |-> {}, route |-> FALSE]

\* A handler at rest, asked to do something, or in the middle of a commit: the
\* cells still to be assigned, and the copy made of one of them.
Idle == [at |-> "idle"]
Asked(what) == [at |-> "asked", what |-> what]
Assigning(todo) == [at |-> "assigning", todo |-> todo]
Copied(todo, c, copy) == [at |-> "copied", todo |-> todo, cell |-> c, copy |-> copy]

Commands == {"patch", "route", "commit", "abandon"}

\* The phases in which the loopback server accepts connections.
Serving == {"choosing", "communicating", "terminating", "killing"}

Init ==
    /\ root \in Roots
    /\ queue = <<>>
    /\ phase = "discovering"
    /\ proc = "none"
    /\ kin = [m \in Ids |-> "none"]
    /\ result = [m \in Ids |-> "none"]
    /\ tx = [m \in Ids |-> Open]
    /\ request = [m \in Ids |-> Idle]
    /\ lock = Nobody
    /\ work = [c \in Cells |-> {}]
    /\ out = [cells |-> [c \in Cells |-> {}], routes |-> {}, left |-> Cells, sealed |-> {}]

-----------------------------------------------------------------------------
(***************************************************************************)
(* The runner.                                                             *)
(***************************************************************************)
\* With --disable-ctam-modules, or if discovery raises, nothing runs.
Discover ==
    /\ phase = "discovering"
    /\ \/ queue' = Admitted(root) /\ phase' = "choosing"
       \/ queue' = <<>> /\ phase' = "dropped"
    /\ root' = NoModules
    /\ UNCHANGED <<proc, kin, result, tx, request, lock, work, out>>

Current == Head(queue)

\* The current module ends as r, and the next one is up.
Conclude(r) ==
    /\ result' = [result EXCEPT ![Current] = r]
    /\ queue' = Tail(queue)
    /\ phase' = "choosing"
    /\ proc' = "none"
    /\ UNCHANGED <<root, kin, tx, request, lock, work, out>>

\* The requirements are evaluated against the frozen catalogue and the clock,
\* which may have passed an age limit even of an input that is there.
SkipUnready ==
    /\ phase = "choosing" /\ queue # <<>>
    /\ Conclude("skipped_missing_requirements")

\* Popen may raise.
FailToLaunch ==
    /\ phase = "choosing" /\ queue # <<>>
    /\ Current \in Supplied
    /\ Conclude("failed")

Launch ==
    /\ phase = "choosing" /\ queue # <<>>
    /\ Current \in Supplied
    /\ proc' = "up"
    /\ phase' = "communicating"
    /\ UNCHANGED <<root, queue, kin, result, tx, request, lock, work, out>>

\* communicate() returns when the process has ended and its pipes are closed.
Ended == proc \in {"zero", "nonzero"} /\ kin[Current] # "piped"

Collect ==
    /\ phase = "communicating" /\ Ended
    /\ Conclude(IF proc = "zero" /\ tx[Current].state = "sealed"
                THEN "completed" ELSE "failed")

\* The manifest's timeout: terminate, two seconds, kill, and then no limit.
TimeOut ==
    /\ phase = "communicating" /\ ~Ended
    /\ phase' = "terminating"
    /\ proc' = IF proc = "up" /\ Current \notin Stubborn THEN "nonzero" ELSE proc
    /\ UNCHANGED <<root, queue, kin, result, tx, request, lock, work, out>>

\* Fault variant: the process is terminated a second time.
KillPolitely ==
    /\ phase = "terminating" /\ ~Ended
    /\ phase' = "killing"
    /\ proc' = IF proc = "up" /\ Current \notin Stubborn THEN "nonzero" ELSE proc
    /\ UNCHANGED <<root, queue, kin, result, tx, request, lock, work, out>>

Kill ==
    /\ phase = "terminating" /\ ~Ended
    /\ phase' = "killing"
    /\ proc' = IF proc = "up" THEN "nonzero" ELSE proc
    /\ UNCHANGED <<root, queue, kin, result, tx, request, lock, work, out>>

CollectTimedOut ==
    /\ phase \in {"terminating", "killing"} /\ Ended
    /\ Conclude("timed_out")

-----------------------------------------------------------------------------
(***************************************************************************)
(* The module's process, while it runs.                                    *)
(***************************************************************************)
Runs(m) == queue # <<>> /\ m = Current /\ proc = "up"

Exit ==
    /\ proc = "up"
    /\ proc' \in {"zero", "nonzero"}
    /\ UNCHANGED <<running, tx, request, lock, work>>

\* A descendant of the module inherits its pipes and its token, may close the
\* pipes, and may outlive the module.
Descend(m) ==
    /\ \/ Runs(m) /\ kin[m] = "none" /\ kin' = [kin EXCEPT ![m] = "piped"]
       \/ kin[m] = "piped" /\ kin' = [kin EXCEPT ![m] = "quiet"]
       \/ kin[m] # "none" /\ kin' = [kin EXCEPT ![m] = "none"]
    /\ UNCHANGED <<root, queue, phase, proc, result, tx, request, lock, work, out>>

Send(m, what) ==
    /\ Runs(m) \/ (kin[m] # "none" /\ phase \in Serving)
    /\ request[m] = Idle
    /\ request' = [request EXCEPT ![m] = Asked(what)]
    /\ UNCHANGED <<running, proc, tx, lock, work>>

-----------------------------------------------------------------------------
(***************************************************************************)
(* The handlers.  All but the commit are a single step under the lock.     *)
(***************************************************************************)
\* Fault variant: the transaction service has no lock.
HandlesUnlocked(m, what) == request[m] = Asked(what)

Handles(m, what) == request[m] = Asked(what) /\ lock = Nobody

Answer(m, t) ==
    /\ tx' = [tx EXCEPT ![m] = t]
    /\ request' = [request EXCEPT ![m] = Idle]
    /\ UNCHANGED <<running, proc, lock, work>>

\* Any request may be one that is answered with an error: malformed, of a
\* path that is not the module's own, at a stale revision, out of turn.  So is
\* a commit whose validation finds a failed test or an impossible replace: it
\* works on copies, and the transaction stays as it was.
Refuse(m, what) == Handles(m, what) /\ Answer(m, tx[m])

\* Only an open transaction takes a patch, and only of a cell whose current
\* revision the patch cites; the check is not repeated at the commit.  A patch
\* whose later operations are refused has staged the earlier ones: it differs
\* from an accepted one in the answer alone.
StagePatch(m, c) ==
    /\ Handles(m, "patch")
    /\ tx[m].state = "open"
    /\ Answer(m, [tx[m] EXCEPT !.cells = @ \cup {c}])

StageRoute(m) ==
    /\ Handles(m, "route")
    /\ tx[m].state = "open"
    /\ Answer(m, [tx[m] EXCEPT !.route = TRUE])

Abandon(m) ==
    /\ Handles(m, "abandon")
    /\ tx[m].state = "open"
    /\ Answer(m, [Open EXCEPT !.state = "abandoned"])

\* Everything staged is known to apply.  An abandoned transaction is empty, and
\* commits.
BeginCommit(m) ==
    /\ Handles(m, "commit")
    /\ tx[m].state # "sealed"
    /\ lock' = m
    /\ request' = [request EXCEPT ![m] = Assigning(tx[m].cells)]
    /\ UNCHANGED <<running, proc, tx, work>>

\* self.cells[c] = self._apply(self.cells[c], operations), cell by cell: a copy
\* is patched, then assigned.
CopyCell(m, c) ==
    /\ request[m].at = "assigning"
    /\ c \in request[m].todo
    /\ request' = [request EXCEPT ![m] = Copied(@.todo \ {c}, c, work[c] \cup {m})]
    /\ UNCHANGED <<running, proc, tx, lock, work>>

AssignCell(m) ==
    /\ request[m].at = "copied"
    /\ work' = [work EXCEPT ![request[m].cell] = request[m].copy]
    /\ request' = [request EXCEPT ![m] = Assigning(@.todo)]
    /\ UNCHANGED <<running, proc, tx, lock>>

Seal(m) ==
    /\ request[m].at = "assigning"
    /\ request[m].todo = {}
    /\ tx' = [tx EXCEPT ![m].state = "sealed"]
    /\ request' = [request EXCEPT ![m] = Idle]
    /\ lock' = Nobody
    /\ UNCHANGED <<running, proc, work>>

Handler(m) ==
    \/ \E what \in Commands : Refuse(m, what)
    \/ \E c \in Cells : StagePatch(m, c) \/ CopyCell(m, c)
    \/ StageRoute(m) \/ Abandon(m) \/ BeginCommit(m) \/ AssignCell(m) \/ Seal(m)

-----------------------------------------------------------------------------
(***************************************************************************)
(* After the last module: the server is closed and run.py collects.        *)
(***************************************************************************)
\* Whatever kept a required module from completing, a missing input included.
RequiredFailed == \E m \in Required : result[m] \notin {"none", "completed"}

\* A required module that did not complete raises, and so may the write of the cycle's
\* status: all external changes are dropped, and the cycle goes on with the cells it had.
Close ==
    /\ phase = "choosing" /\ queue = <<>>
    /\ \/ phase' = "dropped" /\ UNCHANGED out
       \/ /\ phase' = "collecting" /\ ~RequiredFailed
          /\ out' = [out EXCEPT !.sealed = {m \in Ids : tx[m].state = "sealed"}]
    /\ UNCHANGED <<root, queue, proc, kin, result, tx, request, lock, work>>

\* [by_id.get(str(cell.get("id")), cell) for cell in cells], without the lock.
CollectCell(c) ==
    /\ phase = "collecting"
    /\ c \in out.left
    /\ out' = [out EXCEPT !.cells[c] = work[c], !.left = @ \ {c}]
    /\ UNCHANGED <<root, queue, phase, proc, kin, result, tx, request, lock, work>>

\* committed_routes(), with the lock.
CollectRoutes ==
    /\ phase = "collecting"
    /\ out.left = {}
    /\ lock = Nobody
    /\ out' = [out EXCEPT !.routes = {m \in Ids : tx[m].state = "sealed" /\ tx[m].route}]
    /\ phase' = "published"
    /\ UNCHANGED <<root, queue, proc, kin, result, tx, request, lock, work>>

Runner ==
    \/ Discover \/ SkipUnready \/ FailToLaunch \/ Launch \/ Collect
    \/ TimeOut \/ Kill \/ CollectTimedOut \/ Close
    \/ \E c \in Cells : CollectCell(c)
    \/ CollectRoutes

Module(m) ==
    \/ Descend(m)
    \/ \E what \in Commands : Send(m, what)

Next ==
    \/ Runner
    \/ Exit
    \/ \E m \in Ids : Module(m) \/ Handler(m)

\* The runner goes on (its waits have time limits), and so do the handler
\* threads.  Nothing is assumed of the modules.
Spec == Init /\ [][Next]_vars
FairSpec == Spec /\ WF_vars(Runner) /\ \A m \in Ids : WF_vars(Handler(m))

-----------------------------------------------------------------------------

\* Discovery admits, in the promised order ("stable dependency-then-id"), the
\* modules that can run and no other, or the first Capacity of them.
DiscoveryIsExact ==
    [][phase = "discovering" /\ phase' = "choosing" => IsExact(root, queue')]_vars

\* "without it, commit()'s validate -> deepcopy -> assign sequence can drop a
\* concurrent module's committed namespace" (transaction.py): whenever no
\* commit of a module is under way, the working set holds all of what the
\* module sealed and nothing else of it.
WorkingSetIsCommitted ==
    \A m \in Ids :
        request[m].at \in {"idle", "asked"} =>
            \A c \in Cells :
                m \in work[c] <=> tx[m].state = "sealed" /\ c \in tx[m].cells

\* What was sealed when the server was closed is published exactly, cells and
\* routes, by whatever end its module came to; a module that completed had sealed.
SealedIsPublishedWhole ==
    /\ phase = "published" =>
          \A m \in out.sealed :
              /\ \A c \in Cells : m \in out.cells[c] <=> c \in tx[m].cells
              /\ m \in out.routes <=> tx[m].route
    /\ phase \in {"collecting", "published"} =>
          \A m \in Ids : result[m] = "completed" => m \in out.sealed

\* The exception: the handler of a module that failed or ran out of time may commit
\* while the cells are read one by one, without the lock, and any part of what the
\* module staged may be published, cells without the routes or routes without the
\* cells.  Nobody else's output is published in part, and nothing that was not staged.
OnlyLateCommitsArePart ==
    \A m \in Ids \ out.sealed :
        /\ \A c \in Cells : m \in out.cells[c] =>
              result[m] \in {"failed", "timed_out"} /\ c \in tx[m].cells
        /\ m \in out.routes =>
              result[m] \in {"failed", "timed_out"} /\ tx[m].route /\ tx[m].state = "sealed"

\* Once a required module was skipped, failed or ran out of time, nothing is
\* published, committed or not, however late a handler finishes.  Of the skipped one
\* docs/ctam/module-operations.md says that it "does not count as a required
\* failure": so it is in the status record, but run.py raises for it all the same.
RequiredOrNothing ==
    (\E m \in Required : result[m] \in {"skipped_missing_requirements", "failed", "timed_out"})
        => /\ \A c \in Cells : out.cells[c] = {}
           /\ out.routes = {}

\* In the working set a transaction counts whole or not at all; in what is published
\* too, unless it was committed after the server was closed.
StageIsAtomic ==
    WorkingSetIsCommitted /\ SealedIsPublishedWhole /\ OnlyLateCommitsArePart /\ RequiredOrNothing

\* The stage ends whatever the modules do, provided their descendants do not
\* hold the output pipes for ever: the join after the kill has no limit.
StageEnds ==
    (\A m \in Ids : <>[](kin[m] # "piped")) => <>(phase \in {"published", "dropped"})

\* docs/ctam/module-development.md: "a failed, abandoned, timed-out, or
\* uncommitted run publishes none of it".
FailedPublishesNothing ==
    \A m \in Ids : result[m] \in {"failed", "timed_out"} => m \notin out.routes

=============================================================================
