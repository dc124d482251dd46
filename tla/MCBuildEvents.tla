--------------------------- MODULE MCBuildEvents ---------------------------
(* The way of a build's events, in two parts: from the child's file to the   *)
(* application's ring, and from the ring to the screen.  A behaviour moves   *)
(* one of them.                                                              *)
EXTENDS EventTailer, BuildScreen

(* An undecodable line, one that may or may not pass the limit, a short one. *)
MCLines == <<1, 2, 1>>

VARIABLE part   \* which of the two this behaviour moves

EventsInit == BuildInit /\ ScreenInit /\ part \in {"tail", "screen"} /\ (part = "screen" => events = "yes")

EventsNext ==
  \/ part = "tail" /\ BuildNext /\ UNCHANGED <<svars, part>>
  \/ part = "screen" /\ ScreenNext /\ UNCHANGED <<bvars, part>>

EventsSpec == EventsInit /\ [][EventsNext]_<<bvars, svars, part>> /\ BuildFairness /\ ScreenFairness
=============================================================================
