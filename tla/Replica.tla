------------------------------ MODULE Replica -------------------------------
(***************************************************************************)
(* What a monitored cache promises: its rows are, at every moment, those   *)
(* of one committed state of the server, and it never goes back to an      *)
(* earlier one, whatever happens to the connection.  Only a cache that     *)
(* nobody monitors any more may be emptied.                                *)
(***************************************************************************)
EXTENDS Naturals, Sequences

CONSTANTS
  States,     \* the states the server may commit
  Empty       \* the state of a cache that has not been filled yet

VARIABLES
  history,    \* the committed states
  followed,   \* there is a monitor
  view,       \* the rows of the cache
  at          \* the position of view in the history; 0 if it is not filled

vars == <<history, followed, view, at>>

Init ==
  /\ history \in [1..1 -> States]
  /\ followed = FALSE
  /\ view = Empty
  /\ at = 0

Commit(state) ==
  /\ history' = Append(history, state)
  /\ UNCHANGED <<followed, view, at>>

\* The cache moves on to a state that is not older than its own; the first time
\* it does, it is because there is a monitor now.
Advance(n) ==
  /\ n >= at
  /\ view' = history[n]
  /\ at' = n
  /\ followed' = TRUE
  /\ UNCHANGED history

\* The monitor is given up.
Leave ==
  /\ followed' = FALSE
  /\ UNCHANGED <<history, view, at>>

Drop ==
  /\ ~followed
  /\ view' = Empty
  /\ at' = 0
  /\ UNCHANGED <<history, followed>>

Next ==
  \/ \E state \in States : Commit(state)
  \/ \E n \in DOMAIN history : Advance(n)
  \/ Leave
  \/ Drop

Spec == Init /\ [][Next]_vars

=============================================================================
