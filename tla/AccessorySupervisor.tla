------------------------ MODULE AccessorySupervisor ------------------------
(***************************************************************************)
(* The accessory supervisor of the EWMRS and NEXRAD services               *)
(* (src/src/util/runtime/processes.py): it starts child processes, detects *)
(* a dead one or one whose heartbeat went stale, restarts it after a       *)
(* backoff and disables it when it crash-loops.  The children of interest  *)
(* are the GOES renderer, which raises a shared flag while it renders, and *)
(* the GOES ingest, which waits for that flag                              *)
(* (src/src/util/runtime/background.py).                                   *)
(*                                                                         *)
(* Time is kept as ages and remaining delays, so the model needs no clock. *)
(***************************************************************************)
EXTENDS Integers, FiniteSets

CONSTANTS
    Children,      \* names of the supervised children
    Renderer,      \* the child that raises the flag and is cleaned up after
    Ingest,        \* the child that waits for the flag
    WithHeartbeat, \* children registered with a heartbeat file
    MaxRestarts,   \* supervisor.max_restarts
    Window,        \* restart_window_seconds, in ticks
    BaseBackoff,   \* base_backoff_seconds, in ticks
    MaxBackoff,    \* max_backoff_seconds, in ticks
    StaleAfter,    \* heartbeat_stale_seconds, in ticks
    Grace,         \* heartbeat_startup_grace_seconds, in ticks
    StopTime,      \* ticks a pass of check() may have spent in stop_process
    MaxDeaths      \* deaths and hangs per child (bounds the model)

ASSUME SupervisorAssumption ==
    /\ WithHeartbeat \subseteq Children
    /\ Renderer # Ingest
    /\ MaxRestarts \in Nat /\ Window \in Nat \ {0}
    /\ BaseBackoff \in Nat \ {0} /\ MaxBackoff \in Nat \ {0}
    /\ StaleAfter \in Nat /\ Grace \in Nat /\ StopTime \in Nat
    /\ MaxDeaths \in Nat

\* services register the GOES renderer without a heartbeat file
\* (src/src/util/runtime/ewmrs_service.py).
ASSUME RendererHasNoHeartbeat == Renderer \notin WithHeartbeat

VARIABLES
    mode,      \* "running", "stopping" (request_stop) or "stopped" (shut down)
    proc,      \* proc[c]: "up", "hung", "doomed" (killed, not gone) or "dead"
    enabled,   \* children the supervisor still restarts
    wait,      \* wait[c]: ticks until restart_not_before, NoWait when it is None
    deaths,    \* deaths[c]: ages of the recorded deaths that may still count
    beat,      \* beat[c]: age of the running process's heartbeat, NoBeat if none
    uptime,    \* uptime[c]: ticks since the process was started
    starting,  \* the child check() is about to start, or Nobody
    flag,      \* the renderer's cleanup_event
    rendering, \* the renderer is inside its critical section
    fetching,  \* the ingest is downloading
    restarted, \* history: ages, below Window, of the restarts of a child
    failures   \* failures[c]: deaths and hangs so far (bounds the model)

vars == <<mode, proc, enabled, wait, deaths, beat, uptime, starting, flag,
          rendering, fetching, restarted, failures>>
timing == <<wait, deaths, beat, uptime, restarted>>
work == <<flag, rendering, fetching>>

NoWait == -1
NoBeat == -1
Nobody == "nobody"
Ages == 0..(Window + StopTime - 1)

Smaller(a, b) == IF a <= b THEN a ELSE b
Larger(a, b) == IF a >= b THEN a ELSE b

\* base_backoff * 2^(attempt - 1), capped.
Backoff(attempt) == Smaller(MaxBackoff, BaseBackoff * 2 ^ (attempt - 1))

Alive(c) == proc[c] # "dead"

\* Ages beyond this one are all stale, and are not told apart.
Oldest == Larger(StaleAfter, Grace) + 1

Init ==
    /\ mode = "running"
    /\ proc = [c \in Children |-> "up"]
    /\ enabled = Children
    /\ wait = [c \in Children |-> NoWait]
    /\ deaths = [c \in Children |-> {}]
    /\ beat = [c \in Children |-> NoBeat]
    /\ uptime = [c \in Children |-> 0]
    /\ starting = Nobody
    /\ flag = FALSE
    /\ rendering = FALSE
    /\ fetching = FALSE
    /\ restarted = [c \in Children |-> {}]
    /\ failures = [c \in Children |-> 0]

(***************************************************************************)
(* The children.                                                           *)
(***************************************************************************)
Up(c) == c \in Children /\ proc[c] = "up"

BeginRender ==
    /\ Up(Renderer)
    /\ ~rendering
    /\ flag' = TRUE
    /\ rendering' = TRUE
    /\ UNCHANGED <<mode, proc, enabled, timing, starting, fetching, failures>>

EndRender ==
    /\ Up(Renderer)
    /\ rendering
    /\ flag' = FALSE
    /\ rendering' = FALSE
    /\ UNCHANGED <<mode, proc, enabled, timing, starting, fetching, failures>>

\* The ingest looks at the flag before a download, never during one.
BeginFetch ==
    /\ Up(Ingest)
    /\ ~fetching
    /\ ~flag
    /\ fetching' = TRUE
    /\ UNCHANGED <<mode, proc, enabled, timing, starting, flag, rendering, failures>>

EndFetch ==
    /\ Up(Ingest)
    /\ fetching
    /\ fetching' = FALSE
    /\ UNCHANGED <<mode, proc, enabled, timing, starting, flag, rendering, failures>>

Beat(c) ==
    /\ c \in WithHeartbeat
    /\ proc[c] = "up"
    /\ beat' = [beat EXCEPT ![c] = 0]
    /\ UNCHANGED <<mode, proc, enabled, wait, deaths, restarted, uptime, starting,
                   work, failures>>

\* The work of the processes D goes with them; a raised flag stays raised.
Lost(D) ==
    /\ rendering' = (rendering /\ Renderer \notin D)
    /\ fetching' = (fetching /\ Ingest \notin D)

Die(c) ==
    /\ Alive(c)
    /\ proc[c] = "doomed" \/ failures[c] < MaxDeaths
    /\ proc' = [proc EXCEPT ![c] = "dead"]
    /\ failures' = [failures EXCEPT ![c] = IF proc[c] = "up" THEN @ + 1 ELSE @]
    /\ Lost({c})
    /\ UNCHANGED <<mode, enabled, timing, starting, flag>>

Hang(c) ==
    /\ c \in WithHeartbeat
    /\ proc[c] = "up"
    /\ failures[c] < MaxDeaths
    /\ proc' = [proc EXCEPT ![c] = "hung"]
    /\ failures' = [failures EXCEPT ![c] = @ + 1]
    /\ UNCHANGED <<mode, enabled, timing, starting, work>>

(***************************************************************************)
(* The supervisor.  A pass of check() reads the clock once, and stopping a *)
(* child may take a while: s is how old that reading is.                   *)
(***************************************************************************)

\* Fault variant: only a process that has written a heartbeat can be stale.
StaleNeedsBeat(c) ==
    /\ c \in WithHeartbeat
    /\ beat[c] # NoBeat /\ beat[c] > StaleAfter

\* A heartbeat of another pid counts as none: then the uptime is the age.
Stale(c) ==
    /\ c \in WithHeartbeat
    /\ IF beat[c] # NoBeat THEN beat[c] > StaleAfter
                           ELSE uptime[c] > Larger(StaleAfter, Grace)

Checking(c) ==
    /\ mode = "running"
    /\ starting = Nobody
    /\ c \in enabled

\* This pass began after the start and the previous death of the child.
Reading(c, s) ==
    /\ s <= uptime[c]
    /\ \A a \in deaths[c] : s < a

Recorded(c, s) == {a \in deaths[c] : a - s < Window} \cup {s}

Sentence(c, s, attempt) ==
    \/ /\ attempt > MaxRestarts
       /\ enabled' = enabled \ {c}
       /\ UNCHANGED wait
    \/ /\ attempt <= MaxRestarts
       /\ wait' = [wait EXCEPT ![c] = Larger(0, Backoff(attempt) - s)]
       /\ UNCHANGED enabled

\* Fault variant: the flag is cleared at the death of any child.
HandleDeathClearsAny(c, s) ==
    /\ deaths' = [deaths EXCEPT ![c] = Recorded(c, s)]
    /\ flag' = FALSE
    /\ Sentence(c, s, Cardinality(Recorded(c, s)))

HandleDeath(c, s) ==
    /\ deaths' = [deaths EXCEPT ![c] = Recorded(c, s)]
    /\ flag' = (flag /\ c # Renderer)
    /\ Sentence(c, s, Cardinality(Recorded(c, s)))

NoticeDeath(c) ==
    /\ Checking(c)
    /\ proc[c] = "dead"
    /\ wait[c] = NoWait
    /\ \E s \in 0..StopTime : Reading(c, s) /\ HandleDeath(c, s)
    /\ UNCHANGED <<mode, proc, beat, uptime, restarted, starting, rendering,
                   fetching, failures>>

\* stop_process terminates, then kills, and waits for neither for ever: the
\* death is handled even if the process is not gone yet.
StopStale(c) ==
    /\ Checking(c)
    /\ Alive(c)
    /\ Stale(c)
    /\ failures[c] < MaxDeaths \/ proc[c] # "up"
    /\ failures' = [failures EXCEPT ![c] = IF proc[c] = "up" THEN @ + 1 ELSE @]
    /\ \E s \in 0..StopTime : Reading(c, s) /\ HandleDeath(c, s)
    /\ \/ proc' = [proc EXCEPT ![c] = "dead"] /\ Lost({c})
       \/ proc' = [proc EXCEPT ![c] = "doomed"] /\ Lost({})
    /\ UNCHANGED <<mode, beat, uptime, restarted, starting>>

\* _restart looks at the stop flag here; a signal may set it before the start.
AdmitRestart(c) ==
    /\ Checking(c)
    /\ proc[c] = "dead"
    /\ wait[c] = 0
    /\ starting' = c
    /\ UNCHANGED <<mode, proc, enabled, timing, work, failures>>

\* Fault variant: restart_not_before survives the restart.
StartChildKeepsDeadline ==
    /\ starting # Nobody
    /\ proc' = [proc EXCEPT ![starting] = "up"]
    /\ beat' = [beat EXCEPT ![starting] = NoBeat]
    /\ uptime' = [uptime EXCEPT ![starting] = 0]
    /\ restarted' = [restarted EXCEPT ![starting] = @ \cup {0}]
    /\ starting' = Nobody
    /\ UNCHANGED <<mode, enabled, wait, deaths, work, failures>>

StartChild ==
    /\ starting # Nobody
    /\ proc' = [proc EXCEPT ![starting] = "up"]
    /\ wait' = [wait EXCEPT ![starting] = NoWait]
    /\ beat' = [beat EXCEPT ![starting] = NoBeat]
    /\ uptime' = [uptime EXCEPT ![starting] = 0]
    /\ restarted' = [restarted EXCEPT ![starting] = @ \cup {0}]
    /\ starting' = Nobody
    /\ UNCHANGED <<mode, enabled, deaths, work, failures>>

\* SIGTERM or SIGINT: the handler only sets the two stop events.
RequestStop ==
    /\ mode = "running"
    /\ mode' = "stopping"
    /\ UNCHANGED <<proc, enabled, timing, starting, work, failures>>

\* What stop_process leaves of the children T.
Stopped(T) ==
    \E slow \in SUBSET {c \in T : Alive(c)} :
        /\ proc' = [c \in Children |-> CASE c \in slow -> "doomed"
                                         [] c \in T \ slow -> "dead"
                                         [] OTHER -> proc[c]]
        /\ Lost(T \ slow)

\* Fault variant: only the processes start_all created are stopped.
ShutdownInitialOnly ==
    /\ mode = "stopping"
    /\ starting = Nobody
    /\ mode' = "stopped"
    /\ Stopped({c \in Children : deaths[c] = {}})
    /\ UNCHANGED <<enabled, timing, starting, flag, failures>>

Shutdown ==
    /\ mode = "stopping"
    /\ starting = Nobody
    /\ mode' = "stopped"
    /\ Stopped(Children)
    /\ UNCHANGED <<enabled, timing, starting, flag, failures>>

\* One tick: ages grow (those at the edge are forgotten), delays run.
Tick ==
    /\ mode # "stopped"
    /\ wait' = [c \in Children |-> IF wait[c] > 0 THEN wait[c] - 1 ELSE wait[c]]
    /\ deaths' = [c \in Children |-> {a \in Ages : a - 1 \in deaths[c]}]
    /\ restarted' = [c \in Children |-> {a \in 0..(Window - 1) : a - 1 \in restarted[c]}]
    /\ beat' = [c \in Children |->
                  IF beat[c] = NoBeat THEN NoBeat ELSE Smaller(beat[c] + 1, Oldest)]
    /\ uptime' = [c \in Children |-> Smaller(uptime[c] + 1, Oldest)]
    /\ UNCHANGED <<mode, proc, enabled, starting, work, failures>>

Check(c) == NoticeDeath(c) \/ StopStale(c) \/ AdmitRestart(c)

Next ==
    \/ BeginRender \/ EndRender \/ BeginFetch \/ EndFetch
    \/ \E c \in Children : Beat(c) \/ Die(c) \/ Hang(c) \/ Check(c)
    \/ StartChild \/ RequestStop \/ Shutdown \/ Tick

(***************************************************************************)
(* The service's main loop calls check() on every tick and ends once a     *)
(* stop is requested; time passes; a render ends; a killed process goes.   *)
(***************************************************************************)
Fairness ==
    /\ \A c \in Children : WF_vars(Check(c))
    /\ \A c \in Children : WF_vars(proc[c] = "doomed" /\ Die(c))
    /\ WF_vars(StartChild)
    /\ WF_vars(Shutdown)
    /\ WF_vars(Tick)
    /\ WF_vars(EndRender)

Spec == Init /\ [][Next]_vars
FairSpec == Spec /\ Fairness

-----------------------------------------------------------------------------

\* Types of the variables.
TypeOK ==
    /\ mode \in {"running", "stopping", "stopped"}
    /\ proc \in [Children -> {"up", "hung", "doomed", "dead"}]
    /\ enabled \subseteq Children
    /\ wait \in [Children -> NoWait..MaxBackoff]
    /\ deaths \in [Children -> SUBSET Ages]
    /\ beat \in [Children -> NoBeat..Oldest]
    /\ uptime \in [Children -> 0..Oldest]
    /\ starting \in Children \cup {Nobody}
    /\ flag \in BOOLEAN /\ rendering \in BOOLEAN /\ fetching \in BOOLEAN
    /\ restarted \in [Children -> SUBSET (0..(Window - 1))]
    /\ failures \in [Children -> 0..MaxDeaths]

\* Crash-loop protection (_handle_death): within one restart window a child is
\* started again at most max_restarts + 1 times, however it dies, hangs, outlives
\* its kill or races the passes of check().  (max_restarts itself is exceeded by
\* one when a restart is admitted late, after its death left the window.)
RestartRateBounded ==
    \A c \in Children : Cardinality(restarted[c]) <= MaxRestarts + 1

\* The flag speaks for a renderer inside its critical section: the clean-up
\* after the death of one process never lowers it under the next, or under a
\* living one.
RenderingHoldsFlag == rendering => flag

\* Once shut down the service leaves no child running, even if the stop
\* arrived between a restart's admission and its start.
NoChildOutlivesService ==
    mode = "stopped" => \A c \in Children : proc[c] \in {"doomed", "dead"}

\* A child does not stay out of work: dead, it is restarted, given up, or the
\* service stops; hung, even before its first heartbeat, it is stopped.  And the
\* ingest is never stuck behind a renderer that died with the flag raised, whether
\* or not that one is restarted.
ChildIsSeenTo ==
    /\ flag ~> (~flag \/ mode # "running")
    /\ \A c \in Children :
        /\ (proc[c] = "dead" /\ c \in enabled)
              ~> (Alive(c) \/ c \notin enabled \/ mode # "running")
        /\ proc[c] = "hung" ~> (proc[c] # "hung" \/ c \notin enabled \/ mode # "running")

=============================================================================
