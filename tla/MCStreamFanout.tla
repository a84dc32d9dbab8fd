--------------------------- MODULE MCStreamFanout ---------------------------
(* Model-checking instance of StreamFanout.  One client comes over TCP and  *)
(* one over the UNIX socket; the shared count is capped at one for TCP.     *)
EXTENDS StreamFanout

MCMaxConn == [l \in {"tcp", "uds"} |-> IF l = "tcp" THEN 1 ELSE 2]

============================================================================
