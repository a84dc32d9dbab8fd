--------------------------- MODULE MCJobRegistry ---------------------------
(* Model-checking instance of JobRegistry, with the reference definition of *)
(* what subscribe_events replays.                                           *)
EXTENDS JobRegistry

\* On rings of consecutive seqs, full, partial and empty, and cursors before,
\* inside and beyond them, ReplayAfter is the filter that the code applies.
ASSUME ReplayIsFilter ==
    \A first \in 1..3, length \in 0..3, after \in 0..7 :
        LET events == [i \in 1..length |->
                         [job |-> 1, seq |-> first + i - 1, terminal |-> FALSE]]
        IN  ReplayAfter(events, after)
              = SelectSeq(events, LAMBDA e : e.seq > after)

============================================================================
