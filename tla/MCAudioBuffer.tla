--------------------------- MODULE MCAudioBuffer ---------------------------
(* Model-checking instance of AudioBuffer.  Readers never touch each        *)
(* other's state, so one is enough; it combines what the engine does at its *)
(* slowest cadence (a hop larger than the window it peeks) with what the    *)
(* encoder does (pause and resume).                                         *)
EXTENDS AudioBuffer

MCWindow == [r \in Readers |-> 4]
MCHop == [r \in Readers |-> 5]
MCBacklog == [r \in Readers |-> 4]

============================================================================
