--------------------------- MODULE MCMonitorSync ----------------------------
(***************************************************************************)
(* Monitors that watch all rows, or one row each.                          *)
(***************************************************************************)
EXTENDS MonitorSync

CONSTANTS m1, m2, r1, r2

watchAll == [m \in Cookie |-> Row]
watchOne == [m \in Cookie |-> IF m = m1 THEN {r1} ELSE {r2}]

\* A current server, and all kinds of servers.
modernServer == {{Since, Cond, Plain}}
condServer == {{Cond, Plain}}
allServers == {{Since, Cond, Plain}, {Cond, Plain}, {Plain}}

=============================================================================
