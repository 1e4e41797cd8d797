----------------------------- MODULE ScanLedger -----------------------------
(***************************************************************************)
(* What the primary service promises about scans, whatever its retries,    *)
(* crashes and restarts: a durable cursor that only advances, and every    *)
(* scan settled at most once, either completed or explicitly abandoned,    *)
(* always ahead of the cursor.                                             *)
(***************************************************************************)
EXTENDS Integers

CONSTANT Scans      \* scan timestamps, positive integers

VARIABLES
    cursor,         \* durable selection cursor, 0 before any progress
    done,           \* completed scans
    dropped         \* abandoned scans

vars == <<cursor, done, dropped>>

Init ==
    /\ cursor = 0
    /\ done = {}
    /\ dropped = {}

\* The cursor is taken over, once, from data an older release left behind.
Migrate(t) ==
    /\ cursor = 0
    /\ cursor' = t
    /\ UNCHANGED <<done, dropped>>

Complete(t) ==
    /\ t > cursor
    /\ cursor' = t
    /\ done' = done \cup {t}
    /\ UNCHANGED dropped

Abandon(t) ==
    /\ t > cursor
    /\ cursor' = t
    /\ dropped' = dropped \cup {t}
    /\ UNCHANGED done

Next == \E t \in Scans : Migrate(t) \/ Complete(t) \/ Abandon(t)

Spec == Init /\ [][Next]_vars

=============================================================================
