----------------------------- MODULE SlotUpdate -----------------------------
(***************************************************************************)
(* The life of a camera's update slots: boot.py picks one, the app it      *)
(* mounts may confirm it, the check-in loop (or, with nothing bootable,    *)
(* recovery) installs a release into another.  One processor runs all of   *)
(* it; the adversary is power, which can fail at any flash operation and   *)
(* leave it half done, and flash operations that report failure.           *)
(***************************************************************************)
EXTENDS SlotFlash

CONSTANTS
  Factory,       \* the release the factory wrote
  Retries,       \* INSTALL_RETRIES: downloads tried once the erase committed
  MaxInstalls,   \* bound: offers a running app takes in a behaviour
  MaxFaults      \* bound: flash operations torn or failed in a behaviour

ASSUME LifecycleAssumption ==
  /\ Factory \in Images
  /\ Meta[Factory].trusted
  /\ ProductId # 0 => Meta[Factory].product = ProductId
  /\ Retries \in Nat \ {0} /\ MaxInstalls \in Nat /\ MaxFaults \in Nat

VARIABLES
  flash,      \* flash[s]: the slot s
  pc,         \* where the one thread of the camera is
  running,    \* the slot boot.py mounted this boot (cfg.last_slot), or None
  cand,       \* boot.py's candidates: slots that verified and were not rejected
  inst,       \* the installer's RAM: what it surveyed before the erase
  kept,       \* history: the slot confirmed last
  runs,       \* history: boots of the slot's image since it was installed
  installs,   \* offers taken by a running app
  faults      \* flash operations torn or failed

vars == <<flash, pc, running, cand, inst, kept, runs, installs, faults>>

ConfirmSteps == {"raiseFloor", "raiseEpoch", "mark"}
InstallSteps == {"eraseBody", "eraseStatus", "eraseTrailer", "carryFloor",
                 "carryEpoch", "stream", "trailer", "counter", "arm", "flush"}
BootSteps == {"boot", "pick", "mount"}

Install == [image : Images, target : Slots, counter : 0 .. CounterMod - 1,
            floor : Nat, epoch : Nat, attempt : 0 .. Retries - 1]

TypeOK ==
  /\ flash \in [Slots -> Slot]
  /\ pc \in BootSteps \cup {"app", "recovery"} \cup ConfirmSteps \cup InstallSteps
  /\ running \in Slots \cup {None}
  /\ cand \in SUBSET Slots
  /\ inst \in Install \cup {None}
  /\ kept \in Slots
  /\ runs \in [Slots -> Nat]
  /\ installs \in 0 .. MaxInstalls
  /\ faults \in 0 .. MaxFaults

(* Provisioning writes the same confirmed image into every slot, A with    *)
(* the higher counter, and seeds both floors from it.                      *)
FactorySlot(counter) ==
  [body |-> Factory, trailer |-> Factory, pending |-> FALSE, confirmed |-> TRUE,
   counter |-> counter, attempts |-> 0,
   floors |-> Append(BlankRegion, Key(Factory)),
   epochs |-> Append(BlankRegion, Meta[Factory].epoch)]

Init ==
  /\ flash = [s \in Slots |-> FactorySlot(IF Single \/ s = "B" THEN 1 ELSE 2)]
  /\ pc = "boot" /\ running = None /\ cand = {} /\ inst = None
  /\ kept = "A" /\ runs = [s \in Slots |-> 0] /\ installs = 0 /\ faults = 0

-----------------------------------------------------------------------------
(* boot.py                                                                 *)

Survey ==
  /\ pc = "boot"
  /\ cand' = {s \in Slots : Bootable(flash, s)}
  /\ pc' = "pick"
  /\ UNCHANGED <<flash, running, inst, kept, runs, installs, faults>>

Burned(f, s) == [f EXCEPT ![s].attempts = @ + 1]

(* _mount of a confirmed slot consumes nothing.                            *)
ChooseKept ==
  /\ pc = "pick" /\ cand # {}
  /\ flash[Winner(flash, cand)].confirmed
  /\ pc' = "mount"
  /\ UNCHANGED <<flash, running, cand, inst, kept, runs, installs, faults>>

M_BurnNothing ==
  /\ pc = "pick" /\ cand # {} /\ ~flash[Winner(flash, cand)].confirmed
  /\ pc' = "mount"
  /\ UNCHANGED <<flash, running, cand, inst, kept, runs, installs, faults>>

(* _mount of a trial burns one attempt before the image can run.           *)
BurnAttempt ==
  LET s == Winner(flash, cand) IN
  /\ pc = "pick" /\ cand # {}
  /\ ~flash[s].confirmed /\ flash[s].attempts < AttemptsMax
  /\ flash' = Burned(flash, s)
  /\ pc' = "mount"
  /\ UNCHANGED <<running, cand, inst, kept, runs, installs, faults>>

(* The attempt cannot be recorded (trial-arm, or the region is full): the  *)
(* slot is dropped and the next newest one tried.                          *)
ArmFails ==
  LET s == Winner(flash, cand) IN
  /\ pc = "pick" /\ cand # {} /\ faults < MaxFaults
  /\ ~flash[s].confirmed
  /\ flash' \in {flash} \cup (IF flash[s].attempts < AttemptsMax
                              THEN {Burned(flash, s)} ELSE {})
  /\ cand' = cand \ {s}
  /\ faults' = faults + 1
  /\ UNCHANGED <<pc, running, inst, kept, runs, installs>>

Mount ==
  LET s == Winner(flash, cand) IN
  /\ pc = "mount"
  /\ running' = s /\ cand' = {} /\ pc' = "app"
  /\ runs' = [runs EXCEPT ![s] = @ + (IF flash[s].confirmed THEN 0 ELSE 1)]
  /\ UNCHANGED <<flash, inst, kept, installs, faults>>

M_NoSlotResets ==
  /\ pc = "pick" /\ cand = {}
  /\ pc' = "boot"
  /\ UNCHANGED <<flash, running, cand, inst, kept, runs, installs, faults>>

(* OtaReject("no-slot"): hand over to the firmware-resident recovery.      *)
NoSlot ==
  /\ pc = "pick" /\ cand = {}
  /\ pc' = "recovery"
  /\ UNCHANGED <<flash, running, cand, inst, kept, runs, installs, faults>>

-----------------------------------------------------------------------------
(* confirm(): the floor, then the epoch floor, then CONFIRMED, each        *)
(* written into the running slot and read back.                            *)

Image == flash[running].trailer

ConfirmBegin ==
  /\ pc = "app" /\ Trial(flash, running) /\ Meta[Image].healthy
  /\ pc' = "raiseFloor"
  /\ UNCHANGED <<flash, running, cand, inst, kept, runs, installs, faults>>

(* _advance_rollback: nothing to do when the region covers the key or is   *)
(* full.                                                                   *)
Raised(r, key) == IF r.floor >= key \/ Full(r) THEN r ELSE Append(r, key)
TornRaise(r, key) == IF r.floor >= key \/ Full(r) THEN r ELSE Smudge(r)

ConfirmWrite(f) ==
  CASE pc = "raiseFloor" -> [f EXCEPT ![running].floors = Raised(@, Key(Image))]
    [] pc = "raiseEpoch" -> [f EXCEPT ![running].epochs = Raised(@, Meta[Image].epoch)]
    [] pc = "mark"       -> [f EXCEPT ![running].confirmed = TRUE]

ConfirmTorn(f) ==
  CASE pc = "raiseFloor" -> [f EXCEPT ![running].floors = TornRaise(@, Key(Image))]
    [] pc = "raiseEpoch" -> [f EXCEPT ![running].epochs = TornRaise(@, Meta[Image].epoch)]
    [] pc = "mark"       -> f

AfterConfirm ==
  CASE pc = "raiseFloor" -> "raiseEpoch"
    [] pc = "raiseEpoch" -> "mark"
    [] pc = "mark"       -> "app"

(* The slot confirmed last, once flash reads as f.                         *)
KeptIn(f) ==
  IF pc = "mark" /\ f[running].confirmed THEN running ELSE kept

ConfirmStep ==
  /\ pc \in ConfirmSteps
  /\ flash' = ConfirmWrite(flash)
  /\ kept' = KeptIn(flash')
  /\ pc' = AfterConfirm
  /\ UNCHANGED <<running, cand, inst, runs, installs, faults>>

M_ConfirmUnverified ==
  /\ pc \in ConfirmSteps /\ faults < MaxFaults
  /\ flash' \in {flash, ConfirmTorn(flash), ConfirmWrite(flash)}
  /\ kept' = KeptIn(flash')
  /\ pc' = AfterConfirm /\ faults' = faults + 1
  /\ UNCHANGED <<running, cand, inst, runs, installs>>

(* _write_verified raises: the entry may be torn, or whole and only the    *)
(* read-back wrong.  confirm() raises to the app, which may call it again. *)
ConfirmFault ==
  /\ pc \in ConfirmSteps /\ faults < MaxFaults
  /\ flash' \in {flash, ConfirmTorn(flash), ConfirmWrite(flash)}
  /\ kept' = KeptIn(flash')
  /\ pc' = "app" /\ faults' = faults + 1
  /\ UNCHANGED <<running, cand, inst, runs, installs>>

-----------------------------------------------------------------------------
(* The installer.  Everything it needs is surveyed before the erase.       *)

Begin(i) ==
  /\ inst' = [image |-> i, target |-> InstallTarget(flash, running),
              counter |-> InstallCounter(flash), floor |-> Floor(flash),
              epoch |-> EpochFloor(flash), attempt |-> 0]
  /\ pc' = "eraseBody"
  /\ UNCHANGED <<flash, running, cand, kept, runs, faults>>

(* The check-in loop takes an offer: under A/B not while the running image *)
(* is an unconfirmed trial.                                                *)
Offer(i) ==
  /\ pc = "app"
  /\ Single \/ ~Trial(flash, running)
  /\ Vetted(i, Meta[Image].epoch, Floor(flash))
  /\ installs < MaxInstalls /\ installs' = installs + 1
  /\ Begin(i)

(* Recovery runs the same installer; nothing was mounted, so the epoch the *)
(* manifest is held to is the default, 0.                                  *)
RecoveryOffer(i) ==
  /\ pc = "recovery"
  /\ Vetted(i, 0, Floor(flash))
  /\ Begin(i) /\ UNCHANGED installs

BlankStatus(d) ==
  [body |-> d.body, trailer |-> d.trailer, pending |-> FALSE, confirmed |-> FALSE,
   counter |-> NoCounter, attempts |-> 0,
   floors |-> BlankRegion, epochs |-> BlankRegion]

M_CarryNothing(r, key) == r

(* A floor of 0 is not carried.                                            *)
Carried(r, key) == IF key = 0 THEN r ELSE Append(r, key)

(* What one step leaves in the target slot: the erase walks the slot from  *)
(* its start, so the body goes before the marks and the marks before the   *)
(* trailer; the image stream ends with the trailer; PENDING goes last.     *)
Programmed(d) ==
  CASE pc = "eraseBody"    -> [d EXCEPT !.body = Blank]
    [] pc = "eraseStatus"  -> BlankStatus(d)
    [] pc = "eraseTrailer" -> [d EXCEPT !.trailer = Blank]
    [] pc = "carryFloor"   -> [d EXCEPT !.floors = Carried(@, inst.floor)]
    [] pc = "carryEpoch"   -> [d EXCEPT !.epochs = Carried(@, inst.epoch)]
    [] pc = "stream"       -> [d EXCEPT !.body = inst.image]
    [] pc = "trailer"      -> [d EXCEPT !.trailer = inst.image]
    [] pc = "counter"      -> [d EXCEPT !.counter = inst.counter]
    [] pc = "arm"          -> [d EXCEPT !.pending = TRUE]
    [] pc = "flush"        -> d

(* The same step cut short.  A half-erased status sector reads as blank,   *)
(* its regions as used up; a torn counter or mark reads as absent.         *)
HalfProgrammed(d) ==
  CASE pc \in {"eraseBody", "stream"}     -> [d EXCEPT !.body = Torn]
    [] pc = "eraseStatus"                 -> [BlankStatus(d) EXCEPT
                                                !.attempts = AttemptsMax,
                                                !.floors.used = FloorEntries,
                                                !.epochs.used = FloorEntries]
    [] pc \in {"eraseTrailer", "trailer"} -> [d EXCEPT !.trailer = Torn]
    [] pc = "carryFloor"                  -> [d EXCEPT !.floors = Smudge(@)]
    [] pc = "carryEpoch"                  -> [d EXCEPT !.epochs = Smudge(@)]
    [] pc \in {"counter", "arm", "flush"} -> d

AfterInstall ==
  CASE pc = "eraseBody"    -> "eraseStatus"
    [] pc = "eraseStatus"  -> "eraseTrailer"
    [] pc = "eraseTrailer" -> "carryFloor"
    [] pc = "carryFloor"   -> "carryEpoch"
    [] pc = "carryEpoch"   -> "stream"
    [] pc = "stream"       -> "trailer"
    [] pc = "trailer"      -> "counter"
    [] pc = "counter"      -> "arm"
    [] pc = "arm"          -> "flush"
    [] pc = "flush"        -> "boot"

InstallWrite(f) == [f EXCEPT ![inst.target] = Programmed(@)]
InstallTorn(f) == [f EXCEPT ![inst.target] = HalfProgrammed(@)]

(* A slot whose body changed holds no image that has run.                  *)
RunsIn(f) == [s \in Slots |-> IF f[s].body = flash[s].body THEN runs[s] ELSE 0]

M_HashUnchecked == inst.image \in Images

(* The whole image is hashed as it streams; nothing marks the slot as      *)
(* installed until the hash is the manifest's.                             *)
HashMatches == flash[inst.target].body = inst.image

InstallStep ==
  /\ pc \in InstallSteps \ {"flush"}
  /\ pc = "counter" => HashMatches
  /\ flash' = InstallWrite(flash)
  /\ runs' = RunsIn(flash')
  /\ pc' = AfterInstall
  /\ UNCHANGED <<running, cand, inst, kept, installs, faults>>

(* The stream ran to its length with wrong bytes in it: a corrupt artifact *)
(* or a delta applied to another base.                                     *)
StreamWrong ==
  /\ pc = "stream" /\ faults < MaxFaults
  /\ flash' = InstallTorn(flash)
  /\ runs' = RunsIn(flash')
  /\ pc' = AfterInstall /\ faults' = faults + 1
  /\ UNCHANGED <<running, cand, inst, kept, installs>>

(* RAM does not survive a reset.                                           *)
Reset ==
  /\ pc' = "boot" /\ running' = None /\ cand' = {} /\ inst' = None

(* Flushed, armed, and reset into the trial.                               *)
InstallDone ==
  /\ pc = "flush"
  /\ Reset
  /\ UNCHANGED <<flash, kept, runs, installs, faults>>

M_RetryOnceMore ==
  IF inst.attempt < Retries
  THEN /\ inst' = [inst EXCEPT !.attempt = @ + 1]
       /\ pc' = "eraseBody"
       /\ UNCHANGED <<running, cand>>
  ELSE Reset

(* Any exception after the erase committed: erase and download again, or,  *)
(* the tries spent, reset into whatever slot still verifies.               *)
Retry ==
  IF inst.attempt + 1 < Retries
  THEN /\ inst' = [inst EXCEPT !.attempt = @ + 1]
       /\ pc' = "eraseBody"
       /\ UNCHANGED <<running, cand>>
  ELSE Reset

HashMismatch ==
  /\ pc = "counter" /\ ~HashMatches
  /\ Retry
  /\ UNCHANGED <<flash, kept, runs, installs, faults>>

(* A dropped download, or a write or read-back that failed.                *)
InstallFails ==
  /\ pc \in InstallSteps \ {"flush"} /\ faults < MaxFaults
  /\ flash' \in {flash, InstallTorn(flash), InstallWrite(flash)}
  /\ runs' = RunsIn(flash')
  /\ faults' = faults + 1
  /\ Retry
  /\ UNCHANGED <<kept, installs>>

-----------------------------------------------------------------------------
(* Power fails or something resets the camera: a hang the watchdog ends,   *)
(* the app's own reset.                                                    *)
PowerCut ==
  /\ pc # "boot"
  /\ Reset
  /\ UNCHANGED <<flash, kept, runs, installs, faults>>

(* ... in the middle of a flash operation, which is left half done.        *)
TornCut ==
  /\ pc \in ConfirmSteps \cup InstallSteps /\ faults < MaxFaults
  /\ flash' = IF pc \in ConfirmSteps THEN ConfirmTorn(flash) ELSE InstallTorn(flash)
  /\ runs' = RunsIn(flash')
  /\ faults' = faults + 1
  /\ Reset
  /\ UNCHANGED <<kept, installs>>

Boot == Survey \/ ChooseKept \/ BurnAttempt \/ ArmFails \/ Mount \/ NoSlot
Confirm == ConfirmBegin \/ ConfirmStep \/ ConfirmFault
Update == \/ \E i \in Images : Offer(i) \/ RecoveryOffer(i)
          \/ InstallStep \/ StreamWrong \/ HashMismatch \/ InstallDone \/ InstallFails

Next == Boot \/ Confirm \/ Update \/ PowerCut \/ TornCut

Spec == Init /\ [][Next]_vars

(* Power stays on for long enough, now and again, to get through a boot;   *)
(* what the camera does by itself it goes on doing (a stalled download is  *)
(* ended by its own timeout, recovery checks in until it is offered a      *)
(* release it may install); a trial whose app never becomes healthy is   *)
(* reset, by its watchdog or by a person.                                  *)
Fairness ==
  /\ WF_vars(Survey)
  /\ SF_vars(ChooseKept) /\ SF_vars(BurnAttempt) /\ SF_vars(Mount) /\ SF_vars(NoSlot)
  /\ WF_vars(ConfirmBegin) /\ WF_vars(ConfirmStep)
  /\ WF_vars(InstallStep) /\ WF_vars(HashMismatch) /\ WF_vars(InstallDone)
  /\ SF_vars(\E i \in Images : RecoveryOffer(i))
  /\ WF_vars(pc = "app" /\ Trial(flash, running) /\ PowerCut)

FairSpec == Spec /\ Fairness

-----------------------------------------------------------------------------
(* No signing key is retired while the camera lives.                       *)
OneEpoch == \A i, j \in Images : Meta[i].epoch = Meta[j].epoch

(* A/B: the release kept last is never lost.  Its slot verifies, would be  *)
(* mounted, and is CONFIRMED, at every instant: an install never erases    *)
(* it, whatever fails, and no floor locks it out (given OneEpoch).         *)
FallbackIntact == flash[kept].confirmed /\ Bootable(flash, kept)

(* A release no app ever confirmed gets at most MaxAttempts boots, however *)
(* power fails around the mark that counts them.                           *)
TrialRunsBounded ==
  \A s \in Slots : ~flash[s].confirmed => runs[s] <= MaxAttempts

(* An armed trial with attempts left boots: it is whole, no floor rejects  *)
(* it, and it outranks every other bootable slot; and the installer never  *)
(* finishes with anything less.                                            *)
ArmedWins ==
  /\ pc = "flush" => flash[inst.target].body = inst.image
  /\ \A s \in Slots :
       Trial(flash, s) /\ flash[s].attempts < MaxAttempts /\ flash[s].body \in Images
         => /\ Bootable(flash, s)
            /\ Winner(flash, {t \in Slots : Bootable(flash, t)}) = s

(* The floor is never below the release the camera keeps, across crashes   *)
(* between the raise and CONFIRMED and torn floor entries.                 *)
FloorCoversKept == Floor(flash) >= Key(flash[kept].trailer)

(* The camera never keeps a release it orders before the one it kept last. *)
KeptNeverOlder ==
  [][kept' # kept => Key(flash'[kept'].trailer) >= Key(flash[kept].trailer)]_vars

(* ... and on hardware whose PRODUCT_ID is 0, moved between product lines  *)
(* whose versions do not compare, never one published before it.           *)
KeptNeverRepublished ==
  [][kept' # kept => Meta[flash'[kept'].trailer].seq >= Meta[flash[kept].trailer].seq]_vars

(* Whatever it tries, the camera gets back to running a kept release.      *)
ReturnsToKept == []<>(pc = "app" /\ flash[running].confirmed)

(* Once the image streams in, both floors are back on flash, as high as    *)
(* they were before the erase, through every retry: a cut from here on     *)
(* cannot lower them.                                                      *)
FloorsCarried ==
  pc \in {"stream", "trailer", "counter", "arm", "flush"} =>
    Floor(flash) >= inst.floor /\ EpochFloor(flash) >= inst.epoch

(* Single-image mode has no fallback, so an install or a trial that goes   *)
(* wrong leaves nothing to boot: recovery brings the camera back, provided *)
(* power in the end lasts through an install.                              *)
CutInstall == pc \in InstallSteps /\ PowerCut
Recovers == []<>(pc = "app") \/ []<><<CutInstall>>_vars

(* docs/tutorial/11-boot-and-rollback.md: a confirmed slot is always a     *)
(* legal fallback.  So recovery, which has nothing to run, is only for a   *)
(* camera with no whole confirmed slot.                                    *)
ConfirmedIsLegalFallback ==
  pc = "recovery" =>
    \A s \in Slots : ~(flash[s].confirmed /\ flash[s].body = flash[s].trailer)

-----------------------------------------------------------------------------
(* The promise this keeps: the mapping reads the trial out of the slot     *)
(* that is not the kept one.                                               *)
OnTrial == {s \in Slots \ {kept} : Trial(flash, s) /\ flash[s].body \in Images}
TrialOr(f, other) == IF OnTrial = {} THEN other ELSE f[CHOOSE s \in OnTrial : TRUE]

Promise == INSTANCE UpdatePromise WITH
  Releases    <- Images,
  Rank        <- [i \in Images |-> Key(i)],
  First       <- Factory,
  MaxTries    <- MaxAttempts,
  keptRelease <- flash[kept].trailer,
  trial       <- TrialOr([s \in Slots |-> flash[s].trailer], None),
  paid        <- TrialOr([s \in Slots |-> flash[s].attempts], 0),
  ran         <- TrialOr(runs, 0),
  on          <- IF running = None THEN "off"
                 ELSE IF running = kept THEN "kept" ELSE "trial"

KeepsPromise == Promise!Spec
=============================================================================
