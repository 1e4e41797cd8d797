------------------------------ MODULE Selection ------------------------------
(***************************************************************************)
(* Filtering a list as the ingests do: the pending volumes that stay, the  *)
(* chunks still to fetch, the records that are written back, the files of  *)
(* a directory that are left.                                              *)
(***************************************************************************)
EXTENDS Integers, Sequences

\* The entries at some of the positions, in their order.
Selected(t, positions) ==
    LET upTo[n \in 0..Len(t)] ==
            IF n = 0 THEN <<>>
            ELSE IF n \in positions THEN Append(upTo[n - 1], t[n]) ELSE upTo[n - 1]
    IN  upTo[Len(t)]

=============================================================================
