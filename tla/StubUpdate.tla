----------------------------- MODULE StubUpdate -----------------------------
(***************************************************************************)
(* The same lifecycle on a board with a boot stub.  A release carries the  *)
(* firmware its app was built with; the stub picks a slot by the slots'    *)
(* marks, installs that slot's firmware into the firmware area if it is    *)
(* not there already, and leaves an install record from which boot.py      *)
(* learns which slot to mount.  Confirm, install and the adversary are     *)
(* those of SlotUpdate.                                                    *)
(***************************************************************************)
EXTENDS SlotUpdate

CONSTANTS
  Firmware,         \* Firmware[i]: the components release i carries
  StubMaxAttempts   \* STUB_MAX_ATTEMPTS: the stub is updated independently

ASSUME StubAssumption ==
  /\ ~Single
  /\ Blank \notin {Firmware[i] : i \in Images} /\ Torn \notin {Firmware[i] : i \in Images}
  /\ StubMaxAttempts \in 1 .. AttemptsMax

VARIABLES
  area,   \* what the firmware area holds
  rec,    \* the install record on flash, or None when no valid one is there
  seen,   \* the stub's copy of it in RAM
  pick    \* the slot the stub is working on

stubVars == <<area, rec, seen, pick>>
allVars == <<flash, pc, running, cand, inst, kept, runs, installs, faults,
             area, rec, seen, pick>>

Firmwares == {Firmware[i] : i \in Images}
Record == [slot : Slots, firmware : Firmwares]

StubInstallSteps == {"eraseRecord", "writeArea", "writeRecord", "verifyArea"}
StubSteps == {"stubPick", "stubCheck", "handover", "halt"} \cup StubInstallSteps

(* The desk flashes the factory release's firmware beside the stub, and    *)
(* no record.                                                              *)
StubInit ==
  /\ Init
  /\ area = Firmware[Factory] /\ rec = None /\ seen = None /\ pick = None

-----------------------------------------------------------------------------
M_StubTrialsForever(f, s) ==
  /\ f[s].trailer \in Images /\ Meta[f[s].trailer].trusted
  /\ Meta[f[s].trailer].epoch >= EpochFloor(f)
  /\ f[s].confirmed \/ f[s].pending

(* The stub checks signatures, identity and marks, but not the body.       *)
StubOk(f, s) ==
  /\ f[s].trailer \in Images
  /\ Meta[f[s].trailer].trusted
  /\ Meta[f[s].trailer].epoch >= EpochFloor(f)
  /\ ProductId # 0 => Meta[f[s].trailer].product = ProductId
  /\ \/ f[s].confirmed
     \/ /\ Key(f[s].trailer) >= Floor(f)
        /\ f[s].pending /\ f[s].attempts < StubMaxAttempts

(* newer: the higher counter, ties to slot A.                              *)
StubNewer(f, s, t) ==
  f[s].counter > f[t].counter \/ (f[s].counter = f[t].counter /\ s = "A")

Newest(f, c) == CHOOSE s \in c : \A t \in c \ {s} : StubNewer(f, s, t)

Carries(s) == Firmware[flash[s].trailer]

(* record_matches: the record names this slot and exactly its components.  *)
Recorded(r, s) == r # None /\ r.slot = s /\ r.firmware = Carries(s)

StubSurvey ==
  /\ pc = "boot"
  /\ cand' = {s \in Slots : StubOk(flash, s)}
  /\ seen' = rec
  /\ pc' = "stubPick"
  /\ UNCHANGED <<flash, running, inst, kept, runs, installs, faults, area, rec, pick>>

StubTake ==
  LET s == Newest(flash, cand) IN
  /\ pc = "stubPick" /\ cand # {} /\ ~Trial(flash, s)
  /\ pick' = s /\ pc' = "stubCheck"
  /\ UNCHANGED <<flash, running, cand, inst, kept, runs, installs, faults, area, rec, seen>>

(* Pay for the trial before it runs.                                       *)
StubBurn ==
  LET s == Newest(flash, cand) IN
  /\ pc = "stubPick" /\ cand # {} /\ Trial(flash, s)
  /\ flash[s].attempts < AttemptsMax
  /\ flash' = Burned(flash, s)
  /\ pick' = s /\ pc' = "stubCheck"
  /\ UNCHANGED <<running, cand, inst, kept, runs, installs, faults, area, rec, seen>>

StubBurnFails ==
  LET s == Newest(flash, cand) IN
  /\ pc = "stubPick" /\ cand # {} /\ Trial(flash, s) /\ faults < MaxFaults
  /\ flash' \in {flash} \cup (IF flash[s].attempts < AttemptsMax
                              THEN {Burned(flash, s)} ELSE {})
  /\ cand' = cand \ {s}
  /\ faults' = faults + 1
  /\ UNCHANGED <<pc, running, inst, kept, runs, installs, area, rec, seen, pick>>

InPlace == Recorded(seen, pick) /\ area = seen.firmware

HandOver ==
  /\ pc' = "handover" /\ cand' = {} /\ seen' = None /\ pick' = None

StubJump ==
  /\ pc = "stubCheck" /\ InPlace
  /\ HandOver
  /\ UNCHANGED <<flash, running, inst, kept, runs, installs, faults, area, rec>>

M_TriesSameSlot == cand' = cand /\ pick' = None /\ pc' = "stubPick"

StubTryNext == cand' = cand \ {pick} /\ pick' = None /\ pc' = "stubPick"

(* verify_blob: the firmware is hashed where it lies in the slot.  In a    *)
(* torn body it may or may not be whole.                                   *)
StubBegin ==
  /\ pc = "stubCheck" /\ ~InPlace
  /\ flash[pick].body \in {flash[pick].trailer, Torn}
  /\ pc' = "eraseRecord"
  /\ UNCHANGED <<flash, running, cand, inst, kept, runs, installs, faults,
                 area, rec, seen, pick>>

StubRefuse ==
  /\ pc = "stubCheck" /\ ~InPlace
  /\ flash[pick].body # flash[pick].trailer
  /\ StubTryNext
  /\ UNCHANGED <<flash, running, inst, kept, runs, installs, faults, area, rec, seen>>

M_RecordFirst ==
  /\ pc \in StubInstallSteps \ {"verifyArea"}
  /\ rec' = IF pc = "eraseRecord" THEN [slot |-> pick, firmware |-> Carries(pick)] ELSE rec
  /\ area' = IF pc = "writeArea" THEN Carries(pick) ELSE area
  /\ pc' = CASE pc = "eraseRecord" -> "writeArea"
             [] pc = "writeArea"   -> "writeRecord"
             [] pc = "writeRecord" -> "verifyArea"
  /\ UNCHANGED <<flash, running, cand, inst, kept, runs, installs, faults, seen, pick>>

(* install_slot: the record is erased first and written last.              *)
StubInstall ==
  /\ pc \in StubInstallSteps \ {"verifyArea"}
  /\ rec' = CASE pc = "eraseRecord" -> None
              [] pc = "writeArea"   -> rec
              [] pc = "writeRecord" -> [slot |-> pick, firmware |-> Carries(pick)]
  /\ area' = IF pc = "writeArea" THEN Carries(pick) ELSE area
  /\ pc' = CASE pc = "eraseRecord" -> "writeArea"
             [] pc = "writeArea"   -> "writeRecord"
             [] pc = "writeRecord" -> "verifyArea"
  /\ UNCHANGED <<flash, running, cand, inst, kept, runs, installs, faults, seen, pick>>

(* What an install step cut short, or reported as failed, may leave.  A    *)
(* block that already holds the right bytes is not touched.                *)
StubLeaves(r, a) ==
  CASE pc = "eraseRecord" -> r \in {rec, None} /\ a = area
    [] pc = "writeArea"   -> /\ r = rec
                             /\ a \in {area, Carries(pick), Torn}
                             /\ area = Carries(pick) => a = area
    [] pc = "writeRecord" -> a = area /\ r \in {rec, [slot |-> pick, firmware |-> Carries(pick)]}
    [] pc = "verifyArea"  -> r = rec /\ a = area

(* The record is read back and the area hashed as the firmware will see it. *)
StubVerify ==
  /\ pc = "verifyArea"
  /\ Recorded(rec, pick) /\ area = rec.firmware
  /\ HandOver
  /\ UNCHANGED <<flash, running, inst, kept, runs, installs, faults, area, rec>>

(* On to the next slot, with the record the stub read before it began.     *)
StubInstallFails ==
  /\ pc \in StubInstallSteps /\ faults < MaxFaults
  /\ rec' \in Record \cup {None} /\ area' \in Firmwares \cup {Torn}
  /\ StubLeaves(rec', area')
  /\ seen' = IF pc = "verifyArea" THEN rec ELSE seen
  /\ StubTryNext
  /\ faults' = faults + 1
  /\ UNCHANGED <<flash, running, inst, kept, runs, installs>>

(* No slot left to try: run what the record vouches for, or else whatever  *)
(* looks like firmware, or stop.  A torn area may look like firmware too;  *)
(* it gets no further than one that does not.                              *)
StubNoSlot ==
  /\ pc = "stubPick" /\ cand = {}
  /\ area # Torn
  /\ HandOver
  /\ UNCHANGED <<flash, running, inst, kept, runs, installs, faults, area, rec>>

StubHalt ==
  /\ pc = "stubPick" /\ cand = {}
  /\ area = Torn
  /\ pc' = "halt" /\ seen' = None
  /\ UNCHANGED <<flash, running, cand, inst, kept, runs, installs, faults, area, rec, pick>>

-----------------------------------------------------------------------------
(* boot.py under a stub.                                                   *)

M_FollowsOnlyBootable == rec # None /\ Bootable(flash, rec.slot) /\ Recorded(rec, rec.slot)

(* The record is followed when the slot it names verifies and carries      *)
(* those components, whatever the firmware's own mark policy says.         *)
Follows == rec # None /\ Authentic(flash, rec.slot) /\ Recorded(rec, rec.slot)

FollowRecord ==
  /\ pc = "handover" /\ Follows
  /\ cand' = {rec.slot} /\ pc' = "mount"
  /\ UNCHANGED <<flash, running, inst, kept, runs, installs, faults, area, rec, seen, pick>>

PySurvey ==
  /\ pc = "handover" /\ ~Follows
  /\ cand' = {s \in Slots : Bootable(flash, s)}
  /\ pc' = "pick"
  /\ UNCHANGED <<flash, running, inst, kept, runs, installs, faults, area, rec, seen, pick>>

-----------------------------------------------------------------------------
StubTornCut ==
  /\ pc \in StubInstallSteps /\ faults < MaxFaults
  /\ rec' \in Record \cup {None} /\ area' \in Firmwares \cup {Torn}
  /\ StubLeaves(rec', area')
  /\ faults' = faults + 1
  /\ Reset /\ seen' = None /\ pick' = None
  /\ UNCHANGED <<flash, kept, runs, installs>>

StubCut == PowerCut /\ seen' = None /\ pick' = None /\ UNCHANGED <<area, rec>>

StubBoot ==
  \/ StubSurvey \/ StubTake \/ StubBurn \/ StubBurnFails \/ StubJump
  \/ StubBegin \/ StubRefuse \/ StubInstall \/ StubVerify \/ StubInstallFails
  \/ StubNoSlot \/ StubHalt

PyBoot == ChooseKept \/ BurnAttempt \/ ArmFails \/ Mount \/ NoSlot

StubNext ==
  \/ StubBoot \/ StubTornCut \/ StubCut
  \/ FollowRecord \/ PySurvey
  \/ (PyBoot \/ Confirm \/ Update \/ TornCut) /\ UNCHANGED stubVars

StubSpec == StubInit /\ [][StubNext]_allVars

(* What the camera does by itself it goes on doing; a trial that does not  *)
(* become healthy is reset, and so, by a person, is a stub that stopped.   *)
Own ==
  \/ StubBoot \/ FollowRecord \/ PySurvey
  \/ /\ PyBoot \/ Confirm \/ InstallStep \/ HashMismatch \/ InstallDone
        \/ \E i \in Images : RecoveryOffer(i)
     /\ UNCHANGED stubVars

StubFairness ==
  /\ WF_allVars(Own)
  /\ WF_allVars(pc = "halt" /\ StubCut)
  /\ WF_allVars(pc = "app" /\ Trial(flash, running) /\ StubCut)

StubFairSpec == StubSpec /\ StubFairness

-----------------------------------------------------------------------------
(* The types of the slots, of the firmware area and of the stub's memory.  *)
StubTypeOK ==
  /\ flash \in [Slots -> Slot]
  /\ pc \in BootSteps \cup {"app", "recovery"} \cup ConfirmSteps
            \cup InstallSteps \cup StubSteps
  /\ area \in Firmwares \cup {Torn}
  /\ rec \in Record \cup {None} /\ seen \in Record \cup {None}
  /\ pick \in Slots \cup {None}
  /\ cand \in SUBSET Slots

(* A record on flash is never a lie: whatever is cut or fails, the area    *)
(* holds what it names.                                                    *)
RecordHonest == rec # None => area = rec.firmware

(* Where a record is on flash, boot.py mounts the slot the stub installed: *)
(* the app never runs on a firmware it was not built with, even when the   *)
(* firmware's own budget or floors would refuse that slot.                 *)
RecordedPair ==
  pc = "app" /\ rec # None => running = rec.slot /\ area = Carries(running)

(* A trial is paid for once by whoever starts it: the stub's budget, or    *)
(* the firmware's, bounds its runs; a run more takes a failing flash.      *)
StubTrialBounded ==
  \A s \in Slots : ~flash[s].confirmed =>
    runs[s] <= Larger(StubMaxAttempts, MaxAttempts) + faults

(* There is always a kept release to fall back to: confirmed, whole, and   *)
(* accepted by the stub's marks as well as by the firmware's.              *)
StubFallback ==
  \E s \in Slots : /\ flash[s].confirmed /\ StubOk(flash, s)
                  /\ Bootable(flash, s)

(* docs/design/firmware-updates.md: "boot.py on a stub board never burns    *)
(* an attempt itself; it reads the install record to learn the running     *)
(* slot" -- so what boot.py does between its survey and the mount leaves   *)
(* the slots alone.                                                        *)
StubPaysForTrials == [][pc = "pick" => flash' = flash]_allVars

(* Whatever is tried, the camera gets back to running a kept release,      *)
(* provided power in the end lasts through a boot or an install.           *)
CutShort == pc \notin {"app", "halt"} /\ StubCut
StubReturnsToKept ==
  []<>(pc = "app" /\ flash[running].confirmed) \/ []<><<CutShort>>_allVars
=============================================================================
