---------------------------- MODULE CellDetection ----------------------------
(***************************************************************************)
(* How the cells of a scan are found (detect.py, tools/gatemapper.py,      *)
(* tools/save.py): the ProbSevere polygons are drawn on the radar grid,    *)
(* each one with a sufficient share of strong gates seeds a flood over the *)
(* gates above the lowest threshold of all, the floods compete, and what   *)
(* they reached is cut back to each cell's own threshold.  The watershed's *)
(* order of flooding is left open.                                         *)
(***************************************************************************)
EXTENDS Integers, FiniteSets, FiniteSetsExt

CONSTANTS
    Gates,      \* gates of the radar grid
    Adjacent,   \* pairs of gates that share an edge
    Polygons,   \* ids of ProbSevere polygons
    Levels,     \* reflectivities, in steps of 2.5 dBZ; 0 is a missing value (bounds the model)
    Crop,       \* Crop[strong]: the rectangle about the strong gates, with its margin
    MinGates,   \* reject_clusters_at_or_below_gates
    SeedShare   \* one strong gate in so many seeds a polygon: 1 / min_seed_percentage

ASSUME DetectionAssumption ==
    /\ IsFiniteSet(Gates) /\ Polygons \subseteq Nat \ {0}
    /\ Levels \subseteq Nat /\ MinGates \in Nat /\ SeedShare \in Nat \ {0}
    /\ \A strong \in SUBSET Gates : strong \subseteq Crop[strong]

\* config/detection.yaml, in the same steps.
BaselineFloor == 15
SwitchRefl == 18
LowThreshold == 15
HighThreshold == 16
Clamp == 21
DropOffset == 4

VARIABLES
    radar,     \* the reflectivity of each gate
    drawn,     \* the polygon drawn on each gate, 0 for none
    expansion, \* whether polygons are expanded (disable_polygon_expansion is off)
    found,     \* the cell of each gate once detected, 0 for none
    detected   \* whether the scan was detected

detectionVars == <<radar, drawn, expansion, found, detected>>

NoCells == [g \in Gates |-> 0]

\* map_gates_to_polygons: a gate two polygons touch has the later one.
DetectionInit ==
    /\ radar \in [Gates -> Levels] /\ drawn \in [Gates -> Polygons \cup {0}]
    /\ expansion \in BOOLEAN /\ found = NoCells /\ detected = FALSE

MaxOf(set) == Max(set \cup {0})
Inside(id) == {g \in Gates : drawn[g] = id}

\* Only the gates of the crop count, so that a polygon may lack the share as a whole and
\* have it there.
StrongGates == {g \in Gates : radar[g] >= BaselineFloor}
Cropped(id) == Inside(id) \cap Crop[StrongGates]
Valid ==
    {id \in Polygons :
        /\ Cropped(id) # {}
        /\ Cardinality(Cropped(id) \cap StrongGates) * SeedShare >= Cardinality(Cropped(id))}

StrongestIn(id) == MaxOf({radar[g] : g \in Inside(id)})
SmallerOf(a, b) == IF a < b THEN a ELSE b

\* Fault variant: the switch itself still counts as low.
ThresholdOffByOne(id) ==
    MaxOf({IF StrongestIn(id) <= SwitchRefl THEN LowThreshold ELSE HighThreshold,
           SmallerOf(StrongestIn(id), Clamp) - DropOffset})

\* A stronger cell is held to a higher threshold.
Threshold(id) ==
    MaxOf({IF StrongestIn(id) < SwitchRefl THEN LowThreshold ELSE HighThreshold,
           SmallerOf(StrongestIn(id), Clamp) - DropOffset})

\* The gates a flood may enter: above the lowest threshold of any cell.
Floodable == {g \in Gates : \E id \in Valid : radar[g] >= Threshold(id)}

Markers == {g \in Gates : drawn[g] \in Valid /\ radar[g] >= Threshold(drawn[g])}

\* The gates that can be reached from some gates within a set: the smallest set that
\* holds them and every neighbour of its own within.
Touching(gates, within) ==
    {g \in within : \E h \in gates : <<g, h>> \in Adjacent \/ <<h, g>> \in Adjacent}
Reach(from, within) ==
    {g \in from \cup within :
        \A S \in SUBSET (from \cup within) :
            from \subseteq S /\ Touching(S, within) \subseteq S => g \in S}

\* watershed, one component at a time: a marker keeps its polygon, every other gate goes
\* to a flood that reached it.
Floods ==
    LET markers == Markers \cap Floodable
        reached == Reach(markers, Floodable)
        Own(f, id) == {g \in reached : f[g] = id}
    IN  {f \in [reached -> {drawn[g] : g \in markers}] :
            /\ \A g \in markers : f[g] = drawn[g]
            /\ \A id \in {drawn[g] : g \in markers} :
                Own(f, id) \subseteq Reach({g \in markers : drawn[g] = id}, Own(f, id))}

\* Cut back to the threshold of the cell, then cells too small are rejected.
CutBack(f) ==
    [g \in Gates |-> IF g \in DOMAIN f /\ radar[g] >= Threshold(f[g]) THEN f[g] ELSE 0]

GatesOf(f, id) == {g \in Gates : f[g] = id}

Sized(f) ==
    [g \in Gates |-> IF f[g] # 0 /\ Cardinality(GatesOf(f, f[g])) > MinGates THEN f[g] ELSE 0]

\* expand_gates; without a valid polygon or a marker no cell is left.
ExpandGates ==
    /\ ~detected /\ expansion
    /\ \E f \in Floods : found' = Sized(CutBack(f))
    /\ detected' = TRUE /\ UNCHANGED <<radar, drawn, expansion>>

\* With expansion disabled a cell is its polygon, whatever the radar shows.
UsePolygons ==
    /\ ~detected /\ ~expansion
    /\ found' = drawn
    /\ detected' = TRUE /\ UNCHANGED <<radar, drawn, expansion>>

DetectionNext == ExpandGates \/ UsePolygons

\* create_entry: one entry for every id that has a gate.
Entries == {id \in Polygons : GatesOf(found, id) # {}}

DetectionSpec == DetectionInit /\ [][DetectionNext]_detectionVars

(***************************************************************************)
(* Properties.                                                             *)
(***************************************************************************)
\* What the configuration says: a gate joins a storm at 37.5 dBZ and, from a strongest
\* gate of 45 dBZ on, at 40 dBZ and no more than 10 dBZ below that gate or below 52.
Seeded(id) ==
    \E g \in Inside(id) :
        /\ radar[g] >= BaselineFloor
        /\ Cardinality({h \in Inside(id) : radar[h] >= BaselineFloor}) * SeedShare
             >= Cardinality(Inside(id) \cap Crop[StrongGates])
Joins(g, id) ==
    /\ Seeded(id) /\ radar[g] >= LowThreshold
    /\ \E strongest \in Inside(id) :
        /\ \A h \in Inside(id) : radar[h] <= radar[strongest]
        /\ radar[strongest] >= SwitchRefl =>
            /\ radar[g] >= HighThreshold
            /\ radar[g] + DropOffset >= radar[strongest] \/ radar[g] + DropOffset >= Clamp

\* The gates of its polygon that join a storm, and those rain leads to from there, rain
\* that joins some storm of the scan.
Core(id) == {g \in Inside(id) : Joins(g, id)}
Rain == {g \in Gates : \E id \in Polygons : Joins(g, id)}
LedTo(g, id) == g \in Reach(Core(id), Rain)

\* What a storm may take, and what nothing disputes.
May(id) ==
    {g \in Gates : Joins(g, id) /\ LedTo(g, id) /\ \A other \in Polygons \ {id} : g \notin Core(other)}
Sure(id) ==
    Core(id) \cup
    {g \in Gates : Joins(g, id) /\ LedTo(g, id) /\ \A other \in Polygons \ {id} : ~LedTo(g, other)}

\* A cell takes nothing but what joins its storm and rain leads to, and nothing of another
\* storm's core: weak rain beside a storm of 45 dBZ stays out of its cell, whichever
\* neighbour flooded first.  It takes its own core and all it may take that no other
\* storm's rain leads to, and a storm is a cell if that is more than the size filter
\* rejects and its polygon has the share of strong gates that seeds it (expand_gates).
CellsAreTheirStorms ==
    detected /\ expansion =>
        \A id \in Polygons :
            LET cell == GatesOf(found, id)
            IN  IF cell = {} THEN Cardinality(Sure(id)) <= MinGates
                ELSE Cardinality(cell) > MinGates /\ Sure(id) \subseteq cell /\ cell \subseteq May(id)
=============================================================================
