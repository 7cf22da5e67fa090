---------------------------- MODULE UpdatePromise ----------------------------
(***************************************************************************)
(* What A/B updating promises, with no flash in it: the camera has one     *)
(* kept release.  A release not older than it may arrive and be tried, a   *)
(* bounded number of times, each time paid for before it runs; it becomes  *)
(* the kept one only while it is running.  Whatever is tried or lost, the  *)
(* camera always has the kept release to run.                              *)
(***************************************************************************)
EXTENDS Integers

CONSTANTS
  Releases,      \* the releases that may be offered
  Rank,          \* Rank[r]: the order the camera puts them in, a natural number
  First,         \* the release it leaves the factory with
  MaxTries,      \* tries a release gets to prove itself, at least one
  None           \* no release

VARIABLES
  keptRelease,   \* the release kept last
  trial,         \* the release on trial, or None
  paid, ran,     \* tries paid for, and taken
  on             \* what runs: "off", "kept" or "trial"

pvars == <<keptRelease, trial, paid, ran, on>>

Init ==
  /\ keptRelease = First /\ trial = None /\ paid = 0 /\ ran = 0 /\ on = "off"

Stays == on' \in {on, "off"}      \* a reset may come with any of these

Arrive(i) ==
  /\ on # "trial" /\ Rank[i] >= Rank[keptRelease]
  /\ trial' = i /\ paid' = 0 /\ ran' = 0
  /\ Stays /\ UNCHANGED keptRelease

Lose ==
  /\ on # "trial" /\ trial' = None /\ paid' = 0 /\ ran' = 0
  /\ Stays /\ UNCHANGED keptRelease

Pay ==
  /\ on = "off" /\ trial # None /\ paid < MaxTries
  /\ paid' = paid + 1
  /\ UNCHANGED <<keptRelease, trial, ran, on>>

Try ==
  /\ on = "off" /\ trial # None /\ ran < paid
  /\ ran' = ran + 1 /\ on' = "trial"
  /\ UNCHANGED <<keptRelease, trial, paid>>

RunKept ==
  /\ on = "off" /\ on' = "kept"
  /\ UNCHANGED <<keptRelease, trial, paid, ran>>

Keep ==
  /\ on = "trial"
  /\ keptRelease' = trial /\ trial' = None /\ paid' = 0 /\ ran' = 0 /\ on' = "kept"

Off ==
  /\ on' = "off"
  /\ UNCHANGED <<keptRelease, trial, paid, ran>>

Next == \/ \E i \in Releases : Arrive(i)
        \/ Lose \/ Pay \/ Try \/ RunKept \/ Keep \/ Off

Spec == Init /\ [][Next]_pvars
=============================================================================
