----------------------------- MODULE ServiceGate -----------------------------
(***************************************************************************)
(* What the Node API makes of the heartbeat.  A request to a gated route   *)
(* asks the service registry for the state of its service.  The registry   *)
(* answers from a cache entry younger than CacheTtl, or reads the          *)
(* heartbeat files again: the clock is read when the read starts, the      *)
(* files are read across awaits, and the entry it then caches carries the  *)
(* time of the start.                                                      *)
(***************************************************************************)
EXTENDS ServiceOwnership

CONSTANTS
    StaleAfter, \* ticks after which a heartbeat is stale
    CacheTtl,   \* ticks a cache entry may be used
    MaxDelay,   \* bound: ticks a read of the heartbeat files may take
    Requests    \* concurrent requests to the gated route

ASSUME GateConstants ==
    /\ StaleAfter \in Nat /\ CacheTtl \in Nat /\ MaxDelay \in Nat
    /\ StaleAfter + MaxDelay < MaxAge /\ StaleAfter + CacheTtl < MaxAge

VARIABLES
    request, \* where each request is
    since,   \* ticks since its read of the files looked at the clock
    seen,    \* the service state its read came to
    cache    \* whether there is an entry, its state and its age

gateVars == <<request, since, seen, cache>>
serviceVars == <<ownershipVars, gateVars>>

GateInit ==
    /\ request = [q \in Requests |-> "idle"]
    /\ since = [q \in Requests |-> 0]
    /\ seen = [q \in Requests |-> "disabled"]
    /\ cache = [held |-> FALSE, state |-> "disabled", age |-> 0]

ServiceInit == OwnershipInit /\ GateInit

-----------------------------------------------------------------------------
\* Fault variant: the cache entry carries the time the read ended.
CacheEntryAtEnd(q) == [held |-> TRUE, state |-> seen[q], age |-> 0]

-----------------------------------------------------------------------------
\* The state of a heartbeat file of the given age, by a clock reading that is
\* itself delay ticks old.  The primary reports no degraded children.
Classify(beat, delay) ==
    IF beat = NoBeat THEN "disabled"
    ELSE IF beat.age > StaleAfter + delay \/ beat.age + StaleAfter < delay
         THEN "stale" ELSE "active"

CacheEntry(q) == [held |-> TRUE, state |-> seen[q], age |-> since[q]]

CacheUsable == cache.held /\ cache.age < CacheTtl

\* createServiceGate: next() for a running service, 503 for any other state.
Verdict(state) == IF state = "active" THEN "served" ELSE "refused"

AnswerFromCache(q) ==
    /\ request[q] = "idle" /\ CacheUsable
    /\ request' = [request EXCEPT ![q] = Verdict(cache.state)]
    /\ UNCHANGED <<ownershipVars, since, seen, cache>>

StartRead(q) ==
    /\ request[q] = "idle" /\ ~CacheUsable
    /\ request' = [request EXCEPT ![q] = "reading"]
    /\ since' = [since EXCEPT ![q] = 0]
    /\ UNCHANGED <<ownershipVars, seen, cache>>

\* fs.readFile of this service's heartbeat resolves.
ReadBeat(q) ==
    /\ request[q] = "reading"
    /\ seen' = [seen EXCEPT ![q] = Classify(heartbeat, since[q])]
    /\ request' = [request EXCEPT ![q] = "read"]
    /\ UNCHANGED <<ownershipVars, since, cache>>

\* The files of the other services were read too.
AnswerFromRead(q) ==
    /\ request[q] = "read"
    /\ cache' = CacheEntry(q)
    /\ request' = [request EXCEPT ![q] = Verdict(seen[q])]
    /\ UNCHANGED <<ownershipVars, since, seen>>

NextRequest(q) ==
    /\ request[q] \in {"served", "refused"}
    /\ request' = [request EXCEPT ![q] = "idle"]
    /\ since' = [since EXCEPT ![q] = 0]
    /\ seen' = [seen EXCEPT ![q] = "disabled"]
    /\ UNCHANGED <<ownershipVars, cache>>

Reading(q) == request[q] \in {"reading", "read"}

GateAges ==
    /\ \A q \in Requests : Reading(q) => since[q] < MaxDelay
    /\ since' = [q \in Requests |->
                    IF Reading(q) THEN since[q] + 1 ELSE since[q]]
    /\ cache' = IF cache.held /\ cache.age < CacheTtl
                THEN [cache EXCEPT !.age = @ + 1] ELSE cache
    /\ UNCHANGED <<request, seen>>

RequestStep(q) ==
    \/ AnswerFromCache(q) \/ StartRead(q) \/ ReadBeat(q)
    \/ AnswerFromRead(q) \/ NextRequest(q)

ServiceNext ==
    \/ AgeAll /\ GateAges
    \/ \E r \in Runs : RunStep(r) /\ UNCHANGED gateVars
    \/ \E q \in Requests : RequestStep(q)

ServiceSpec == ServiceInit /\ [][ServiceNext]_serviceVars

-----------------------------------------------------------------------------
\* A request is served only if the service was serving recently: at most
\* StaleAfter ticks before its own look at the clock, or CacheTtl ticks more
\* when the answer is a cached one.  Neither a heartbeat a stopped service
\* left or published after its removal, nor a cache entry filled by a slow
\* read, makes a dead service look alive for longer.
ServedIsRecent ==
    [][\A q \in Requests :
        request[q] # "served" /\ request'[q] = "served"
        => idle <= StaleAfter
                   + IF request[q] = "idle" THEN CacheTtl ELSE since[q]]_serviceVars

=============================================================================
