----------------------------- MODULE MCRollout -----------------------------
(* A ramp of two stages, then a manual rollout of the next release, which  *)
(* starts at no camera; c1 takes up both, c2 already runs the first.       *)
EXTENDS Rollout

CONSTANTS c1, c2

MCCameras == {c1, c2}
MCInstalled == [c \in Cameras |-> IF c = c1 THEN 0 ELSE 1]
MCTicket == [r \in Rollouts |-> [c \in Cameras |-> IF c = c1 THEN 10 ELSE 15]]
MCRelease == [r \in Rollouts |-> r]
MCStages ==
  [r \in Rollouts |->
     IF r = 1 THEN << [percent |-> 50, attempted |-> 1, ceiling |-> None],
                      [percent |-> 90, attempted |-> 0, ceiling |-> 50] >>
     ELSE <<>>]

(* Two PATCHes that may overlap a stop, a creation, a raise and each other.*)
MCChanges ==
  { [percent |-> 60, limit |-> None, state |-> "paused"],
    [percent |-> 100, limit |-> 50, state |-> "active"] }
=============================================================================
