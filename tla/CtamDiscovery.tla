--------------------------- MODULE CtamDiscovery ---------------------------
(***************************************************************************)
(* Discovery of the installed CTAM modules                                 *)
(* (src/src/EdgeWARN/ctam/discovery.py): which candidate directories are   *)
(* admitted to the cycle, and in which order they run.  Nothing is         *)
(* executed here: discovery is a function of the module root's contents.   *)
(*                                                                         *)
(* A module id is a number, ordered as the ids sort.                       *)
(***************************************************************************)
EXTENDS Integers, Sequences, FiniteSets, FiniteSetsExt, Functions

CONSTANTS
    Ids,     \* ids a directory of the module root may have
    Capacity \* MAX_EXTERNAL_MODULES

ASSUME DiscoveryAssumption ==
    /\ Ids \subseteq Nat \ {0} /\ IsFiniteSet(Ids)
    /\ Capacity \in Nat \ {0}

\* A root: for every id, what is wrong with its directory, and the modules its
\* manifest runs after (the built-in StormProb, always first, is left out).
Flaws == {"none", "absent", "malformed", "collides", "disabled"}
Candidates == [flaw: Flaws, after: SUBSET Ids]
Roots == {root \in [Ids -> Candidates] :
            \A m \in Ids : /\ m \notin root[m].after
                           /\ root[m].flaw \in {"absent", "malformed"}
                                => root[m].after = {}}

\* _scan, _reject_case_collisions, _reject_disabled.
Discovered(root) == {m \in Ids : root[m].flaw = "none"}

\* Fault variant: the invalidation is not carried on to the dependents of what
\* it invalidates.
SpoiledOnce(root) == {m \in Discovered(root) : ~(root[m].after \subseteq Discovered(root))}

\* The fixed point: a module that depends on one that is missing, disabled,
\* invalid or itself spoiled is spoiled.
Spoiled(root) ==
    LET spoiled[n \in Nat] ==
            IF n = 0 THEN {}
            ELSE {m \in Discovered(root) :
                    ~(root[m].after \subseteq Discovered(root) \ spoiled[n - 1])}
    IN  spoiled[Cardinality(Ids)]

Runnable(root) == Discovered(root) \ Spoiled(root)

\* The modules that wait for none but the ordered ones: only a dependency on a
\* runnable module is an edge.
ReadyAfter(root, ordered) ==
    {m \in Runnable(root) \ Range(ordered) :
        root[m].after \cap Runnable(root) \subseteq Range(ordered)}

\* Kahn's pass over a sorted ready set; what is in a cycle never becomes ready.
Ordered(root) ==
    LET ordered[n \in Nat] ==
            IF n = 0 THEN <<>>
            ELSE LET ready == ReadyAfter(root, ordered[n - 1])
                 IN  IF ready = {} THEN ordered[n - 1]
                     ELSE Append(ordered[n - 1], Min(ready))
    IN  ordered[Cardinality(Ids)]

\* _apply_capacity demotes the tail, after the order is known.
Admitted(root) ==
    LET order == Ordered(root)
    IN  SubSeq(order, 1, Min({Capacity, Len(order)}))

-----------------------------------------------------------------------------
\* What discovery is for, stated without its algorithm.

Acyclic(root, S) ==
    \A T \in (SUBSET S) \ {{}} : \E m \in T : root[m].after \cap T = {}

\* The modules that can run at all: the largest set of sound candidates that
\* lacks no dependency and has no cycle.
Viable(root) ==
    UNION {S \in SUBSET Discovered(root) :
             (\A m \in S : root[m].after \subseteq S) /\ Acyclic(root, S)}

\* order lists S, dependencies first, and otherwise by id: a module runs
\* before one with a smaller id only if the latter waits for a module between.
IsOrderOf(root, order, S) ==
    /\ Range(order) = S
    /\ Len(order) = Cardinality(S)
    /\ \A j \in DOMAIN order :
         /\ \A d \in root[order[j]].after : \E i \in 1..(j - 1) : order[i] = d
         /\ \A i \in 1..(j - 1) :
              order[j] < order[i] =>
                \E k \in i..(j - 1) : order[k] \in root[order[j]].after

\* order lists the modules of the root that can run and no other, or the first
\* Capacity of them: a module is left out although its dependencies are in only
\* if it would come later.
IsExact(root, order) ==
    LET S == Viable(root)
        kept == Range(order)
    IN  /\ kept \subseteq S
        /\ Cardinality(kept) = Min({Capacity, Cardinality(S)})
        /\ IsOrderOf(root, order, kept)
        /\ \A d \in S \ kept, j \in DOMAIN order :
             root[d].after \subseteq {order[i] : i \in 1..(j - 1)} => order[j] < d

=============================================================================
