------------------------------ MODULE PvService ------------------------------
(***************************************************************************)
(* What an adapter promises to the engine about one alarm channel (class   *)
(* PvService, qtalh/core/engine.h): observations of the control system are *)
(* told in their order, none after it was stopped, and none twice across a *)
(* gap.  Whatever was observed before a gap stays behind it.               *)
(***************************************************************************)
EXTENDS Naturals

VARIABLES
  posted,    \* observations made so far; they are numbered
  watching,  \* between monitor and cancel
  seen,      \* the newest observation told
  gap,       \* observations up to this one are not told any more
  told       \* what the engine was told last

vars == <<posted, watching, seen, gap, told>>

Nothing  == [kind |-> "nothing"]
Outage   == [kind |-> "outage"]
Denied   == [kind |-> "denied"]        \* readable, but not writable
Value(n) == [kind |-> "value", number |-> n]

Init == posted = 0 /\ watching \in BOOLEAN /\ seen = 0 /\ gap = 0 /\ told = Nothing

Observe == posted' = posted + 1 /\ UNCHANGED <<watching, seen, gap, told>>

Start == watching' = TRUE /\ UNCHANGED <<posted, seen, gap, told>>

(* Observations that are on their way are not told after a new start.      *)
Stop ==
  /\ watching' = FALSE /\ told' = Nothing /\ gap' = posted
  /\ UNCHANGED <<posted, seen>>

Tell(n) ==
  /\ watching
  /\ n > gap /\ n >= seen /\ n <= posted
  /\ told' = Value(n) /\ seen' = n
  /\ UNCHANGED <<posted, watching, gap>>

(* The source is lost: what was told before is not repeated.               *)
Lose ==
  /\ watching
  /\ told' = Outage
  /\ gap' = IF seen > gap THEN seen ELSE gap
  /\ UNCHANGED <<posted, watching, seen>>

Deny ==
  /\ watching
  /\ told' = Denied
  /\ UNCHANGED <<posted, watching, seen, gap>>

Next ==
  \/ Observe \/ Start \/ Stop \/ Lose \/ Deny
  \/ \E n \in 1..posted : Tell(n)

Spec == Init /\ [][Next]_vars
=============================================================================
