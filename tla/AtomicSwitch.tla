----------------------------- MODULE AtomicSwitch -----------------------------
(***************************************************************************)
(* What a prediction patch transaction promises the running game: its      *)
(* threads see all sites original or all sites patched, each switch is one *)
(* step, and a transaction that could not be undone is final: no later one *)
(* changes a game it does not recognise (bunnyhopfix/src).                 *)
(***************************************************************************)
VARIABLES
  seen,   \* what the game's threads run: "off", "on" or "mixed"
  on      \* what the controller believes

vars == <<seen, on>>

Init == seen = "off" /\ on = FALSE

\* A transaction commits.
Switch ==
  /\ seen \in {"off", "on"}
  /\ seen' = IF seen = "off" THEN "on" ELSE "off"
  /\ UNCHANGED on

\* A transaction fails and so does its rollback, it ends with its controller,
\* or other code rewrites a site.
Break ==
  /\ seen \in {"off", "on"}
  /\ seen' = "mixed"
  /\ UNCHANGED on

\* The controller learns that its transaction committed: it answered Ok
\* while nothing had broken.
Learn ==
  /\ on' = ~on
  /\ seen = (IF on' THEN "on" ELSE "off") \/ seen = "mixed"
  /\ UNCHANGED seen

Next == Switch \/ Break \/ Learn

Spec == Init /\ [][Next]_vars
=============================================================================
