------------------------------ MODULE PollLoop ------------------------------
(***************************************************************************)
(* The camera's check-in loop, openmv_ota.run: when it installs an offered *)
(* release where it is, when it reboots first so that the boot check-in    *)
(* can install it from a fresh heap, and how it gets a wedged or exhausted *)
(* network back.  A cycle of the loop does not yield, and is one action;   *)
(* between cycles the app confirms, the server changes its offer, and the  *)
(* network fails.  What the boot does with a slot is SlotUpdate's.         *)
(*                                                                         *)
(* A definition named M_... is a mutant: a plausible bug in the definition *)
(* below it.                                                               *)
(***************************************************************************)
EXTENDS Integers, FiniteSetsExt

CONSTANTS
  Releases,      \* by version; a camera leaves the factory with 0
  InplaceTries, RebootGap, RecoverAfter, ExhaustedRebuilds,
  Steady,        \* is a release that is offered once offered at every answer?
  MaxOffers,     \* bound on the changes of the server's offer
  MaxFaults,     \* bound on what fails: the network, installs, the loop
  None

ASSUME PollAssumption ==
  /\ Releases \subseteq Nat \ {0} /\ None \notin Nat /\ Steady \in BOOLEAN
  /\ {InplaceTries, RecoverAfter, ExhaustedRebuilds} \subseteq Nat \ {0}
  /\ {RebootGap, MaxOffers, MaxFaults} \subseteq Nat

VARIABLES
  camera,    \* fixed: ab, has it two slots?  hook, can it rebuild its transport?
             \* tight, is the heap of a camera that has run too small to install?
  bad,       \* fixed: the releases that no camera can install
  offer,     \* the release rolled out to this camera, or None
  running, kept, trial,   \* the image that runs, the last one confirmed
  net,
  gate,      \* _InstallGate, of this boot
  loop,      \* _poll_forever's counters
  uptime,    \* counted up to RebootGap
  asked,     \* history: the release it last rebooted for, of this offer
  offers, faults

fixed == <<camera, bad>>
image == <<running, kept, trial>>
vars == <<fixed, offer, image, net, gate, loop, uptime, asked, offers, faults>>

NewGate == [answered |-> FALSE, bootKey |-> None, key |-> None, fails |-> 0]
NewLoop == [fails |-> 0, starved |-> 0, rebuilds |-> 0, everOk |-> FALSE]

Init ==
  /\ camera \in [ab : BOOLEAN, hook : BOOLEAN, tight : BOOLEAN]
  /\ bad \in SUBSET Releases
  /\ offer = None /\ running = 0 /\ kept = 0 /\ trial = FALSE
  /\ net = "ok" /\ gate = NewGate /\ loop = NewLoop /\ uptime = 0
  /\ asked = None /\ offers = 0 /\ faults = 0

(* What an answer offers: only what is newer than what runs.               *)
Offered == IF offer # None /\ offer > running THEN offer ELSE None

(* Saturated: a count is only ever compared with its limit.                *)
UpTo(n, limit) == Min({n, limit})

-----------------------------------------------------------------------------
(* A reset brings the network up anew; a trial may fall back.              *)
Boot ==
  /\ gate' = NewGate /\ loop' = NewLoop /\ uptime' = 0
  /\ net' = IF net \in {"wedged", "exhausted"} THEN "ok" ELSE net

BootAgain ==
  /\ Boot
  /\ UNCHANGED kept
  /\ \/ UNCHANGED <<running, trial>>
     \/ camera.ab /\ trial /\ running' = kept /\ trial' = FALSE

-----------------------------------------------------------------------------
(* A check-in that fails.                                                  *)
M_ExhaustedStepAfterRebuilds(streak) ==
  IF streak = 1 /\ camera.hook /\ (loop.rebuilds < ExhaustedRebuilds \/ ~loop.everOk)
  THEN "recover"
  ELSE IF loop.everOk /\ streak >= 2 /\ loop.rebuilds >= ExhaustedRebuilds
  THEN "reboot" ELSE "retry"

(* Out of memory after every optional connection was closed: the streak's  *)
(* first rebuilds the transport; a second reboots, or a rebuild too many.  *)
ExhaustedStep(streak) ==
  IF streak = 1 /\ camera.hook /\ (loop.rebuilds < ExhaustedRebuilds \/ ~loop.everOk)
  THEN "recover"
  ELSE IF streak >= 1 /\ loop.everOk /\ (streak >= 2 \/ loop.rebuilds >= ExhaustedRebuilds)
  THEN "reboot" ELSE "retry"

(* The app's hook makes the transport anew: a wedge goes; an exhausted     *)
(* stack may not be cured.                                                 *)
Recovered ==
  CASE net = "wedged"    -> {"ok"}
    [] net = "exhausted" -> {"ok", "exhausted"}
    [] OTHER             -> {net}

Fail ==
  /\ net # "ok"
  /\ LET streak == IF net = "exhausted" THEN UpTo(loop.starved + 1, 2) ELSE 0
         step == ExhaustedStep(streak)
         fails == UpTo(loop.fails + 1, RecoverAfter)
         recover == step = "recover" \/ (camera.hook /\ fails >= RecoverAfter)
     IN  \/ step = "reboot" /\ BootAgain
         \/ /\ step # "reboot"
            /\ loop' = [loop EXCEPT !.fails = IF recover THEN 0 ELSE fails, !.starved = streak,
                 !.rebuilds = IF step = "recover" THEN UpTo(@ + 1, ExhaustedRebuilds) ELSE @]
            /\ net' \in IF recover THEN Recovered ELSE {net}
            /\ UNCHANGED <<image, gate, uptime>>
  /\ UNCHANGED <<fixed, offer, asked, offers, faults>>

-----------------------------------------------------------------------------
(* A check-in that is answered.                                            *)
CheckedIn == [loop EXCEPT !.fails = 0, !.starved = 0, !.everOk = TRUE]

Answered == [gate EXCEPT !.answered = TRUE]

M_ThrottledCounts ==
  /\ net = "ok"
  /\ loop' = CheckedIn /\ gate' = Answered
  /\ UNCHANGED <<fixed, offer, image, net, uptime, asked, offers, faults>>

(* Not an answer, for the gate: the boot check-in is still to come.        *)
Throttled ==
  /\ net = "ok"
  /\ loop' = CheckedIn
  /\ UNCHANGED <<fixed, offer, image, net, gate, uptime, asked, offers, faults>>

NoOffer ==
  /\ net = "ok" /\ (Offered = None \/ ~Steady)
  /\ loop' = CheckedIn /\ gate' = Answered
  /\ UNCHANGED <<fixed, offer, image, net, uptime, asked, offers, faults>>

(* On two slots, a trial would give up the fallback.                       *)
Deferred == camera.ab /\ trial

Defer ==
  /\ net = "ok" /\ Offered # None /\ Deferred
  /\ loop' = CheckedIn /\ gate' = Answered
  /\ UNCHANGED <<fixed, offer, image, net, uptime, asked, offers, faults>>

M_PlanOnce(k) ==
  IF ~gate.answered THEN "install"
  ELSE IF k # gate.bootKey THEN "reboot" ELSE "install"

(* The boot check-in installs.  A release offered since then reboots; one  *)
(* the boot check-in has tried does only after as many tries in place, and *)
(* an hour.                                                                *)
Plan(k) ==
  IF ~gate.answered THEN "install"
  ELSE IF \/ k # gate.bootKey
          \/ gate.key = k /\ gate.fails >= InplaceTries /\ uptime >= RebootGap
  THEN "reboot" ELSE "install"

Planned(k) == [gate EXCEPT !.answered = TRUE, !.bootKey = IF gate.answered THEN @ ELSE k]

Failed(g, k) ==
  [g EXCEPT !.key = k, !.fails = UpTo(IF g.key = k THEN @ + 1 ELSE 1, InplaceTries)]

Taking(plan) ==
  /\ net = "ok" /\ Offered # None /\ ~Deferred
  /\ Plan(Offered) = plan

RebootForInstall ==
  /\ Taking("reboot")
  /\ BootAgain
  /\ asked' = offer
  /\ UNCHANGED <<fixed, offer, offers, faults>>

(* Installed, and rebooted into.                                           *)
Install ==
  /\ Taking("install") /\ offer \notin bad /\ ~(gate.answered /\ camera.tight)
  /\ Boot
  /\ running' = offer /\ trial' = TRUE
  /\ kept' = IF trial THEN kept ELSE running
  /\ UNCHANGED <<fixed, offer, asked, offers, faults>>

(* It fails before the erase: always, for a release that is bad or on a    *)
(* tight heap; as often as not, on a heap that is not the boot's; or       *)
(* because of the network.                                                 *)
InstallFails ==
  /\ Taking("install")
  /\ \/ (offer \in bad \/ gate.answered) /\ UNCHANGED faults
     \/ faults < MaxFaults /\ faults' = faults + 1
  /\ loop' = CheckedIn /\ gate' = Failed(Planned(offer), offer)
  /\ UNCHANGED <<fixed, offer, image, net, uptime, asked, offers>>

(* After the erase it reboots, into the other slot.                        *)
InstallCut ==
  /\ Taking("install") /\ camera.ab /\ faults < MaxFaults
  /\ BootAgain
  /\ faults' = faults + 1
  /\ UNCHANGED <<fixed, offer, asked, offers>>

-----------------------------------------------------------------------------
(* Between cycles.                                                         *)
(* An error outside a cycle's own handlers: run starts the loop anew, and  *)
(* the gate, the module's, is kept.                                        *)
Die ==
  /\ faults < MaxFaults
  /\ loop' = NewLoop
  /\ faults' = faults + 1
  /\ UNCHANGED <<fixed, offer, image, net, gate, uptime, asked, offers>>

Confirm ==
  /\ trial /\ trial' = FALSE /\ kept' = running
  /\ UNCHANGED <<fixed, offer, running, net, gate, loop, uptime, asked, offers, faults>>

Wait ==
  /\ uptime < RebootGap /\ uptime' = uptime + 1
  /\ UNCHANGED <<fixed, offer, image, net, gate, loop, asked, offers, faults>>

NetFails ==
  /\ net = "ok" /\ faults < MaxFaults
  /\ net' \in {"down", "wedged", "exhausted"}
  /\ faults' = faults + 1
  /\ UNCHANGED <<fixed, offer, image, gate, loop, uptime, asked, offers>>

NetHeals ==
  /\ net = "down" /\ net' = "ok"
  /\ UNCHANGED <<fixed, offer, image, gate, loop, uptime, asked, offers, faults>>

ChangeOffer ==
  /\ offers < MaxOffers
  /\ offer' \in (Releases \cup {None}) \ {offer}
  /\ asked' = None /\ offers' = offers + 1
  /\ UNCHANGED <<fixed, image, net, gate, loop, uptime, faults>>

-----------------------------------------------------------------------------
Answer == NoOffer \/ Defer \/ RebootForInstall \/ Install \/ InstallFails \/ InstallCut

Next ==
  \/ Fail \/ Throttled \/ Answer
  \/ Die \/ Confirm \/ Wait \/ NetFails \/ NetHeals \/ ChangeOffer

Spec == Init /\ [][Next]_vars

(* The loop goes on for ever, and is not throttled for ever; the app       *)
(* confirms, and an outage ends.                                           *)
Fairness ==
  /\ WF_vars(Fail) /\ WF_vars(Answer)
  /\ WF_vars(Confirm) /\ WF_vars(Wait) /\ WF_vars(NetHeals)

FairSpec == Spec /\ Fairness

-----------------------------------------------------------------------------
(* "at most one such reboot per hour, so a release that cannot install     *)
(* from any heap never turns into a reboot loop": the loop reboots for the *)
(* release it last rebooted for only when the camera has been up for the   *)
(* hour, whatever else failed, restarted or throttled it in between.       *)
OneRebootAnHour ==
  [][RebootForInstall /\ asked = offer => uptime >= RebootGap]_vars

(* The point of the reboots and the retries: a release that goes on being  *)
(* offered, and can be installed from a fresh heap, is installed in the    *)
(* end, although every try in place may fail and the boot check-in's may   *)
(* be lost.                                                                *)
InstallsAtLast ==
  \A k \in Releases :
    <>[](offer = k /\ k \notin bad /\ net = "ok") => <>[](running >= k)

(* An exhausted stack "failed every check-in ... for as long as it ran": a *)
(* camera that has checked in since it booted gets out of it, although a   *)
(* rebuild may not cure it and there may be no hook to rebuild with.       *)
ExhaustionEnds ==
  (net = "exhausted" /\ loop.everOk) ~> (net # "exhausted" \/ ~loop.everOk)
=============================================================================
