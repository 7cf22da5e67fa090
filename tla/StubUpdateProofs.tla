--------------------------- MODULE StubUpdateProofs ---------------------------
(***************************************************************************)
(* Theorems about StubUpdate, for every value of its constants: types, and *)
(* that the install record never lies about the firmware area; that, with  *)
(* one signing epoch and at most two torn or failed flash operations, a    *)
(* kept release is always there to fall back to, trials are paid for, an   *)
(* armed trial boots, no older release is ever kept, and, with at most     *)
(* one, the app runs from the slot the record names; and that the promise  *)
(* of UpdatePromise is kept until the first fault, and for good where none *)
(* of the stub's own firmware installs is reported as failed.              *)
(***************************************************************************)
EXTENDS StubUpdate, PromiseProofs

-----------------------------------------------------------------------------
(* Away from the stub the camera is typed as SlotUpdate has it; while the  *)
(* stub runs, its slots and its own memory are.                            *)
Picked == {"stubCheck"} \cup StubInstallSteps

StubInv ==
  /\ StubTypeOK
  /\ pc \notin StubSteps => TypeInv
  /\ pc \in StubSteps =>
       /\ running \in Slots \cup {None} /\ inst \in Install \cup {None} /\ kept \in Slots
       /\ runs \in [Slots -> Nat] /\ installs \in 0 .. MaxInstalls /\ faults \in 0 .. MaxFaults
  /\ pc \in {"stubPick"} \cup Picked => \A s \in cand : flash[s].trailer \in Images
  /\ pc \in Picked => pick \in Slots /\ flash[pick].trailer \in Images

(* A record is on flash only while the area holds what it names: the       *)
(* record goes before the area changes and comes back after.               *)
RecordInv ==
  /\ RecordHonest
  /\ pc = "writeArea" => rec = None
  /\ pc \in {"writeRecord", "verifyArea"} => area = Carries(pick)

LEMMA StepNames ==
  /\ StubSteps \cap (BootSteps \cup {"app", "recovery"} \cup ConfirmSteps \cup InstallSteps) = {}
  /\ StubInstallSteps \subseteq StubSteps
BY DEF StubSteps, StubInstallSteps, BootSteps, ConfirmSteps, InstallSteps

LEMMA StubStart == StubInit => StubInv /\ RecordInv
<1>. SUFFICES ASSUME StubInit  PROVE StubInv /\ RecordInv
  OBVIOUS
<1>1. TypeInv  BY TypeInit DEF StubInit
<1>2. /\ pc = "boot" /\ area \in Firmwares /\ rec = None /\ seen = None /\ pick = None
  BY LifecycleAssumption DEF StubInit, Init, Firmwares
<1>. QED  BY <1>1, <1>2
          DEF StubInv, RecordInv, RecordHonest, StubTypeOK, TypeInv, TypeOK, StubSteps,
              StubInstallSteps, Picked

LEMMA SlotFacts ==
  ASSUME NEW f \in Flash, NEW s \in Slots
  PROVE  /\ f[s] \in Slot /\ f[s].counter \in Int /\ f[s].attempts \in Nat
         /\ f[s].confirmed \in BOOLEAN /\ f[s].pending \in BOOLEAN
         /\ f[s].floors \in Region /\ f[s].epochs \in Region
         /\ f[s].floors.floor \in Nat /\ f[s].epochs.floor \in Nat
<1>1. f[s] \in Slot  BY DEF Flash
<1>2. f[s].floors \in Region /\ f[s].epochs \in Region  BY <1>1 DEF Slot
<1>. QED  BY <1>1, <1>2, BoundsAssumption DEF Slot, Region, NoCounter

(* The slot the stub picks is newer than any other it could.               *)
LEMMA NewestWins ==
  ASSUME NEW f \in Flash, NEW c \in SUBSET Slots, c # {}
  PROVE  /\ Newest(f, c) \in c
         /\ \A t \in c \ {Newest(f, c)} : StubNewer(f, Newest(f, c), t)
<1>1. \E s \in c : \A t \in c \ {s} : StubNewer(f, s, t)
  <2>1. CASE c = {"A", "B"}
    <3>1. "A" \in Slots /\ "B" \in Slots  BY <2>1
    <3>2. StubNewer(f, "A", "B") \/ StubNewer(f, "B", "A")
      BY <3>1, SlotFacts DEF StubNewer
    <3>. QED  BY <2>1, <3>2
  <2>2. CASE c # {"A", "B"}
    <3>1. PICK s \in c : c = {s}  BY <2>2, SlotNames
    <3>. QED  BY <3>1
  <2>. QED  BY <2>1, <2>2
<1>. QED  BY <1>1 DEF Newest

(* None of SlotUpdate's steps happens while the stub runs.                 *)
LEMMA OwnPlace ==
  ASSUME PyBoot \/ Confirm \/ Update \/ TornCut
  PROVE  Next /\ pc \notin StubSteps
<1>1. Next  BY DEF PyBoot, Next, Boot
<1>2. pc \notin StubSteps
  BY StepNames
     DEF PyBoot, Confirm, Update, TornCut, ChooseKept, BurnAttempt, ArmFails, Mount, NoSlot,
         ConfirmBegin, ConfirmStep, ConfirmFault, Offer, RecoveryOffer, InstallStep,
         StreamWrong, HashMismatch, InstallDone, InstallFails, BootSteps, InstallSteps,
         ConfirmSteps, StubSteps, StubInstallSteps
<1>. QED  BY <1>1, <1>2

(* SlotUpdate's own steps: the record and the area are left alone.         *)
LEMMA OwnSteps ==
  ASSUME StubInv, pc \notin StubSteps, [Next]_vars, UNCHANGED stubVars
  PROVE  StubInv'
<1>1. TypeInv'  BY TypeStep DEF StubInv
<1>2. pc' \notin StubSteps /\ flash' \in [Slots -> Slot] /\ cand' \in SUBSET Slots
  BY <1>1, StepNames DEF TypeInv, TypeOK
<1>3. pc' \in BootSteps \cup {"app", "recovery"} \cup ConfirmSteps \cup InstallSteps
  BY <1>1 DEF TypeInv, TypeOK
<1>. QED  BY <1>1, <1>2, <1>3
          DEF StubInv, StubTypeOK, stubVars, StubSteps, StubInstallSteps, Picked

(* What is typed wherever the camera is.                                   *)
Typed ==
  /\ flash \in Flash /\ area \in Firmwares \cup {Torn} /\ cand \in SUBSET Slots
  /\ rec \in Record \cup {None} /\ seen \in Record \cup {None} /\ pick \in Slots \cup {None}
  /\ running \in Slots \cup {None} /\ inst \in Install \cup {None} /\ kept \in Slots
  /\ runs \in [Slots -> Nat] /\ installs \in 0 .. MaxInstalls /\ faults \in 0 .. MaxFaults

LEMMA AlwaysTyped == StubInv => Typed
BY DEF StubInv, StubTypeOK, Typed, TypeInv, TypeOK, Flash

LEMMA IntoStub ==
  ASSUME Typed', pc' \in StubSteps,
         pc' \in {"stubPick"} \cup Picked => \A s \in cand' : flash'[s].trailer \in Images,
         pc' \in Picked => pick' \in Slots /\ flash'[pick'].trailer \in Images
  PROVE  StubInv'
BY DEF StubInv, StubTypeOK, Typed, Flash

LEMMA OutOfStub ==
  ASSUME Typed', pc' \in {"boot", "pick", "mount"},
         pc' # "boot" => \A s \in cand' : flash'[s].trailer \in Images,
         pc' = "mount" => cand' # {}
  PROVE  StubInv'
<1>1. TypeInv'
  BY DEF Typed, TypeInv, TypeOK, Flash, BootSteps, Running, ConfirmSteps, InstallSteps
<1>2. pc' \notin StubSteps /\ pc' \notin {"stubPick"} \cup Picked
  BY DEF StubSteps, StubInstallSteps, Picked
<1>3. StubTypeOK'  BY DEF StubTypeOK, Typed, Flash, BootSteps
<1>. QED  BY <1>1, <1>2, <1>3 DEF StubInv

(* A mark paid for a trial leaves its image.                               *)
LEMMA BurnedTypes ==
  ASSUME NEW f \in Flash, NEW s \in Slots, f[s].attempts < AttemptsMax
  PROVE  /\ Burned(f, s) \in Flash
         /\ \A t \in Slots : Burned(f, s)[t].trailer = f[t].trailer
<1>1. f[s].attempts + 1 \in 0 .. AttemptsMax
  BY BoundsAssumption DEF Flash, Slot
<1>2. [f[s] EXCEPT !.attempts = @ + 1] \in Slot
  BY <1>1 DEF Flash, Slot
<1>3. [f[s] EXCEPT !.attempts = @ + 1].trailer = f[s].trailer
  BY DEF Flash, Slot
<1>4. \A t \in Slots : Burned(f, s)[t] = IF t = s THEN [f[s] EXCEPT !.attempts = @ + 1] ELSE f[t]
  BY DEF Burned, Flash
<1>5. Burned(f, s) \in Flash  BY <1>2 DEF Burned, Flash
<1>. QED  BY <1>3, <1>4, <1>5

LEMMA StubPicks ==
  ASSUME StubInv, StubSurvey \/ StubTake \/ StubBurn \/ StubBurnFails
  PROVE  StubInv'
<1>0. Typed  BY AlwaysTyped
<1>1. CASE StubSurvey
  <2>1. Typed' /\ pc' = "stubPick"  BY <1>0, <1>1 DEF StubSurvey, Typed
  <2>2. \A s \in cand' : flash'[s].trailer \in Images  BY <1>1 DEF StubSurvey, StubOk
  <2>. QED  BY <2>1, <2>2, IntoStub DEF StubSteps, StubInstallSteps, Picked
<1>2. CASE StubTake \/ StubBurn \/ StubBurnFails
  <2>. DEFINE s == Newest(flash, cand)
  <2>1. s \in cand /\ s \in Slots /\ flash \in Flash /\ pc = "stubPick"
    BY <1>0, <1>2, NewestWins DEF Typed, StubTake, StubBurn, StubBurnFails
  <2>. HIDE DEF s
  <2>2. flash' \in Flash /\ \A t \in Slots : flash'[t].trailer = flash[t].trailer
    BY <1>2, <2>1, BurnedTypes DEF StubTake, StubBurn, StubBurnFails, s
  <2>3. faults' \in 0 .. MaxFaults /\ cand' \in SUBSET cand
    BY <1>0, <1>2, LifecycleAssumption DEF StubTake, StubBurn, StubBurnFails, Typed
  <2>4. pc' = "stubPick" \/ (pc' = "stubCheck" /\ pick' = s)
    BY <1>2, <2>1 DEF StubTake, StubBurn, StubBurnFails, s
  <2>5. Typed'
    BY <1>0, <1>2, <2>1, <2>2, <2>3, <2>4 DEF StubTake, StubBurn, StubBurnFails, Typed
  <2>6. \A t \in cand : t \in Slots /\ flash'[t].trailer \in Images
    BY <1>0, <2>1, <2>2 DEF StubInv, Typed, Picked
  <2>. QED  BY <2>1, <2>3, <2>4, <2>5, <2>6, IntoStub DEF StubSteps, StubInstallSteps, Picked
<1>. QED  BY <1>1, <1>2

(* Handing over, going on to the next slot, or stopping.                   *)
LEMMA StubLeavesSlot ==
  ASSUME StubInv, StubJump \/ StubVerify \/ StubNoSlot \/ StubHalt \/ StubRefuse
  PROVE  StubInv'
<1>0. Typed  BY AlwaysTyped
<1>1. CASE StubJump \/ StubVerify \/ StubNoSlot \/ StubHalt
  <2>1. Typed' /\ pc' \in {"handover", "halt"}
    BY <1>0, <1>1 DEF StubJump, StubVerify, StubNoSlot, StubHalt, HandOver, Typed
  <2>. QED  BY <2>1, IntoStub DEF StubSteps, StubInstallSteps, Picked
<1>2. CASE StubRefuse
  <2>1. Typed' /\ pc' = "stubPick" /\ flash' = flash /\ cand' \subseteq cand
    BY <1>0, <1>2 DEF StubRefuse, StubTryNext, Typed
  <2>2. \A s \in cand' : flash'[s].trailer \in Images
    BY <1>2, <2>1 DEF StubRefuse, StubInv, Picked
  <2>. QED  BY <2>1, <2>2, IntoStub DEF StubSteps, StubInstallSteps, Picked
<1>. QED  BY <1>1, <1>2

(* Putting the slot's firmware into the area, done or failed.              *)
LEMMA StubInstalls ==
  ASSUME StubInv, StubBegin \/ StubInstall \/ StubInstallFails
  PROVE  StubInv'
<1>0. Typed  BY AlwaysTyped
<1>1. /\ pc \in Picked /\ pick \in Slots /\ flash[pick].trailer \in Images
      /\ \A s \in cand : flash[s].trailer \in Images
  BY DEF StubBegin, StubInstall, StubInstallFails, StubInv, Picked
<1>2. Carries(pick) \in Firmwares
  BY <1>1 DEF Carries, Firmwares
<1>3. [slot |-> pick, firmware |-> Carries(pick)] \in Record
  BY <1>1, <1>2 DEF Record
<1>4. CASE StubBegin \/ StubInstall
  <2>1. rec' \in Record \cup {None} /\ area' \in Firmwares \cup {Torn}
    BY <1>0, <1>2, <1>3, <1>4 DEF StubBegin, StubInstall, StubInstallSteps, Typed
  <2>2. Typed' /\ flash' = flash /\ cand' = cand /\ pick' = pick
    BY <1>0, <1>4, <2>1 DEF StubBegin, StubInstall, Typed
  <2>3. pc' \in StubInstallSteps
    BY <1>4 DEF StubBegin, StubInstall, StubInstallSteps
  <2>. QED  BY <1>1, <2>2, <2>3, IntoStub DEF StubSteps, Picked
<1>5. CASE StubInstallFails
  <2>1. faults' \in 0 .. MaxFaults /\ seen' \in Record \cup {None}
    BY <1>0, <1>5, LifecycleAssumption DEF StubInstallFails, Typed
  <2>2. Typed' /\ pc' = "stubPick" /\ flash' = flash /\ cand' \subseteq cand
    BY <1>0, <1>5, <2>1 DEF StubInstallFails, StubTryNext, Typed
  <2>. QED  BY <1>1, <2>2, IntoStub DEF StubSteps, StubInstallSteps, Picked
<1>. QED  BY <1>4, <1>5

(* From the stub to boot.py, and resets.                                   *)
LEMMA StubHandsOver ==
  ASSUME StubInv, FollowRecord \/ PySurvey \/ StubTornCut \/ StubCut
  PROVE  StubInv'
<1>0. Typed  BY AlwaysTyped
<1>1. CASE FollowRecord
  <2>1. rec \in Record /\ rec.slot \in Slots /\ flash[rec.slot].trailer \in Images
    BY <1>0, <1>1 DEF FollowRecord, Follows, Authentic, Typed, Record
  <2>2. Typed' /\ pc' = "mount" /\ cand' = {rec.slot} /\ flash' = flash
    BY <1>0, <1>1, <2>1 DEF FollowRecord, Typed
  <2>. QED  BY <2>1, <2>2, OutOfStub
<1>2. CASE PySurvey
  <2>1. Typed' /\ pc' = "pick" /\ flash' = flash
        /\ \A s \in cand' : flash[s].trailer \in Images
    BY <1>0, <1>2 DEF PySurvey, Typed, Bootable, Authentic
  <2>. QED  BY <2>1, OutOfStub
<1>3. CASE StubTornCut \/ StubCut
  <2>1. faults' \in 0 .. MaxFaults
    BY <1>0, <1>3, LifecycleAssumption DEF StubTornCut, StubCut, PowerCut, Typed
  <2>2. Typed' /\ pc' = "boot"
    BY <1>0, <1>3, <2>1 DEF StubTornCut, StubCut, PowerCut, Reset, Typed
  <2>. QED  BY <2>2, OutOfStub
<1>. QED  BY <1>1, <1>2, <1>3

LEMMA StubTypeStep == StubInv /\ [StubNext]_allVars => StubInv'
<1>. SUFFICES ASSUME StubInv, [StubNext]_allVars  PROVE StubInv'
  OBVIOUS
<1>1. CASE StubBoot
  BY <1>1, StubPicks, StubLeavesSlot, StubInstalls DEF StubBoot
<1>2. CASE StubTornCut \/ StubCut \/ FollowRecord \/ PySurvey
  BY <1>2, StubHandsOver
<1>3. CASE (PyBoot \/ Confirm \/ Update \/ TornCut) /\ UNCHANGED stubVars
  BY <1>3, OwnPlace, OwnSteps
<1>4. CASE UNCHANGED allVars
  BY <1>4 DEF allVars, StubInv, StubTypeOK, TypeInv, TypeOK
<1>. QED  BY <1>1, <1>2, <1>3, <1>4 DEF StubNext

(* The slots, the firmware area, the record and the stub's memory keep     *)
(* their types through the stub, boot.py and every cut between them.       *)
THEOREM StubTypes == StubSpec => []StubTypeOK
<1>1. StubInv => StubTypeOK  BY DEF StubInv
<1>. QED  BY <1>1, StubStart, StubTypeStep, PTL DEF StubSpec

-----------------------------------------------------------------------------
LEMMA RecordStep == StubInv /\ RecordInv /\ [StubNext]_allVars => RecordInv'
<1>. SUFFICES ASSUME StubInv, RecordInv, [StubNext]_allVars  PROVE RecordInv'
  OBVIOUS
<1>1. CASE StubInstall
  <2>1. flash' = flash /\ pick' = pick  BY <1>1 DEF StubInstall
  <2>2. CASE pc = "eraseRecord"
    BY <1>1, <2>2 DEF StubInstall, RecordInv, RecordHonest
  <2>3. CASE pc = "writeArea"
    BY <1>1, <2>1, <2>3 DEF StubInstall, RecordInv, RecordHonest, Carries
  <2>4. CASE pc = "writeRecord"
    BY <1>1, <2>1, <2>4 DEF StubInstall, RecordInv, RecordHonest, Carries
  <2>. QED  BY <1>1, <2>2, <2>3, <2>4 DEF StubInstall, StubInstallSteps
<1>2. CASE StubInstallFails \/ StubTornCut
  <2>1. StubLeaves(rec', area') /\ pc \in StubInstallSteps /\ pc' \in {"stubPick", "boot"}
    BY <1>2 DEF StubInstallFails, StubTornCut, StubTryNext, Reset
  <2>2. rec' # None => area' = rec'.firmware
    <3>1. CASE pc = "eraseRecord"
      BY <2>1, <3>1 DEF StubLeaves, RecordInv, RecordHonest
    <3>2. CASE pc = "writeArea"
      BY <2>1, <3>2 DEF StubLeaves, RecordInv
    <3>3. CASE pc = "writeRecord"
      BY <2>1, <3>3 DEF StubLeaves, RecordInv, RecordHonest
    <3>4. CASE pc = "verifyArea"
      BY <2>1, <3>4 DEF StubLeaves, RecordInv, RecordHonest
    <3>. QED  BY <2>1, <3>1, <3>2, <3>3, <3>4 DEF StubInstallSteps
  <2>. QED  BY <2>1, <2>2 DEF RecordInv, RecordHonest
<1>3. CASE \/ StubSurvey \/ StubTake \/ StubBurn \/ StubBurnFails \/ StubJump \/ StubBegin
           \/ StubRefuse \/ StubVerify \/ StubNoSlot \/ StubHalt \/ StubCut
           \/ FollowRecord \/ PySurvey
  <2>1. /\ rec' = rec /\ area' = area
        /\ pc' \notin {"writeArea", "writeRecord", "verifyArea"}
    BY <1>3
       DEF StubSurvey, StubTake, StubBurn, StubBurnFails, StubJump, StubBegin, StubRefuse,
           StubVerify, StubNoSlot, StubHalt, StubCut, FollowRecord, PySurvey, HandOver,
           StubTryNext, PowerCut, Reset
  <2>. QED  BY <2>1 DEF RecordInv, RecordHonest
<1>4. CASE (PyBoot \/ Confirm \/ Update \/ TornCut) /\ UNCHANGED stubVars
  <2>1. pc' \notin StubSteps
    BY <1>4, OwnPlace, TypeStep, StepNames DEF StubInv, TypeInv, TypeOK
  <2>. QED  BY <1>4, <2>1 DEF RecordInv, RecordHonest, stubVars, StubSteps, StubInstallSteps
<1>5. CASE UNCHANGED allVars
  BY <1>5 DEF allVars, RecordInv, RecordHonest, Carries
<1>. QED  BY <1>1, <1>2, <1>3, <1>4, <1>5 DEF StubNext, StubBoot

(* Whatever is cut or fails while the stub installs firmware, a record on  *)
(* flash names what the firmware area holds: boot.py is never told to      *)
(* mount an app beside a firmware that is not there.                       *)
THEOREM RecordTrue == StubSpec => []RecordHonest
<1>1. RecordInv => RecordHonest  BY DEF RecordInv
<1>. QED  BY <1>1, StubStart, StubTypeStep, RecordStep, PTL DEF StubSpec

-----------------------------------------------------------------------------
(* What the camera is never without while at most two flash operations     *)
(* were torn or failed.  A slot a stub may pick without its body being the *)
(* image of its trailer is one an erase was cut on: one fault for the body *)
(* to be cut at all, another for the slot to be newer than the kept one.   *)

(* What the slots and an install under way hold, whatever fails.           *)
Genuine ==
  \A s \in Slots : /\ flash[s].trailer \in Images => ForThisHardware(flash[s].trailer)
                   /\ flash[s].epochs.floor <= Meta[Factory].epoch
                   /\ flash[s].body \notin Images => runs[s] = 0

Ground ==
  /\ Genuine
  /\ pc \in {"pick", "mount"} => \A s \in cand : flash[s].body \in Images
  /\ pc \in InstallSteps => ForThisHardware(inst.image) /\ inst.epoch <= Meta[Factory].epoch
  /\ pc \in Unarmed => LET d == flash[inst.target] IN
       ~d.pending /\ ~d.confirmed /\ d.attempts = 0
  /\ pc \in {"counter", "arm", "flush"} => flash[inst.target].trailer = inst.image
  /\ pc \in {"arm", "flush"} => flash[inst.target].body = inst.image
  /\ pc = "eraseStatus" => flash[inst.target].body = Blank
  /\ pc \in InstallSteps \ {"eraseBody"} => runs[inst.target] = 0

Marked(s) == flash[s].confirmed \/ flash[s].pending
Safe(s) == flash[s].confirmed /\ Whole(s)

(* The next run of the slot is paid for, by a mark or by a fault.          *)
PaidFor(s) == flash[s].confirmed \/ runs[s] + 1 <= flash[s].attempts + faults
Good(s) == Marked(s) /\ PaidFor(s)

Outranks(t, o) == StubOk(flash, t) /\ StubNewer(flash, t, o)
Unrivalled(s) == \A t \in Slots \ {s} : ~Outranks(t, s)

Highest == Larger(StubMaxAttempts, MaxAttempts)

(* A record names a whole slot, and what it carries.                       *)
RecordBacked ==
  rec # None /\ faults <= 1 =>
    Whole(rec.slot) /\ Marked(rec.slot) /\ rec.firmware = Carries(rec.slot)

(* Wherever the camera is.                                                 *)
AtRest ==
  /\ \E s \in Slots : Safe(s)
  /\ \A t \in Slots : flash[t].body = Torn => faults >= 1
  /\ \A t, o \in Slots : t # o /\ Outranks(t, o) /\ ~Whole(t) =>
       faults >= 1 /\ (flash[t].body = Torn => faults >= 2)
  /\ \A s \in Slots : /\ Marked(s) => flash[s].attempts <= Highest
                      /\ ~flash[s].confirmed => runs[s] <= flash[s].attempts + faults
                      /\ ~Marked(s) => runs[s] = 0
  /\ RecordBacked

Trying == {"stubPick"} \cup Picked

(* While the stub tries one slot after another.  The record it will hand   *)
(* over names a good slot, or else it is the one the stub began with and a *)
(* kept slot is still to be tried.                                         *)
InLoop ==
  /\ \A s \in cand \ (IF pc = "stubPick" THEN {} ELSE {pick}) : StubOk(flash, s)
  /\ pc \in Picked => pick \in cand /\ Good(pick) /\ (flash[pick].body = Torn => faults >= 2)
  /\ pc \in StubInstallSteps => flash[pick].body \in {flash[pick].trailer, Torn}
  /\ \A t, o \in Slots : Safe(o) /\ o \notin cand /\ flash[t].body = Torn => faults >= 2
  /\ rec # None => Good(rec.slot) \/ (rec = seen /\ \E s \in cand : Safe(s))
  /\ faults = 0 =>
       /\ pc = "stubPick" => \A s \in Slots : StubOk(flash, s) => s \in cand
       /\ pc \in Picked => Unrivalled(pick) /\ Whole(pick)
       /\ pc \in {"stubPick", "stubCheck"} => rec = seen

AtHandover ==
  /\ rec # None => Good(rec.slot)
  /\ faults = 0 => rec # None /\ Unrivalled(rec.slot)

AtPick ==
  /\ \E s \in cand : Safe(s)
  /\ \A s \in cand : /\ Whole(s) /\ Marked(s)
                     /\ flash[s].confirmed \/ flash[s].attempts < MaxAttempts
  /\ faults <= 1 => rec = None
  /\ faults # 0

AtMount ==
  /\ cand # {} /\ \A s \in cand : Whole(s) /\ Marked(s)
  /\ PaidFor(Winner(flash, cand))
  /\ rec # None /\ faults <= 1 => cand = {rec.slot}
  /\ faults = 0 => \A s \in cand : Unrivalled(s)

(* What runs is the slot the record names.                                 *)
Runs ==
  /\ running \in Slots
  /\ rec # None /\ faults <= 1 => running = rec.slot

InApp ==
  /\ Runs /\ Whole(running) /\ Marked(running)
  /\ pc \in ConfirmSteps => Trial(flash, running)
  /\ faults = 0 => Unrivalled(running)

InInstall ==
  /\ Runs /\ Safe(running) /\ running # inst.target
  /\ pc = "eraseBody" /\ faults = 0 => Unrivalled(running)

Held ==
  faults <= 2 =>
    /\ AtRest
    /\ pc \in Trying => InLoop
    /\ pc = "handover" => AtHandover
    /\ pc = "pick" => AtPick
    /\ pc = "mount" => AtMount
    /\ pc \in Running => InApp
    /\ pc \in InstallSteps => InInstall
    /\ pc # "recovery"

-----------------------------------------------------------------------------
LEMMA TwoSlots == Slots = {"A", "B"} /\ \A s \in Slots : \E o \in Slots : o # s
<1>1. Slots = {"A", "B"}  BY StubAssumption DEF Slots
<1>. QED  BY <1>1

(* Of two slots one is newer, and never each than the other.               *)
LEMMA NewerOrder ==
  ASSUME NEW f \in Flash, NEW s \in Slots, NEW t \in Slots, s # t
  PROVE  StubNewer(f, s, t) <=> ~StubNewer(f, t, s)
<1>1. s \in {"A", "B"} /\ t \in {"A", "B"}  BY TwoSlots
<1>2. f[s].counter \in Int /\ f[t].counter \in Int  BY SlotFacts
<1>. QED  BY <1>1, <1>2 DEF StubNewer

(* Floors that rise and attempts that are spent make no slot acceptable.   *)
LEMMA OkFalls ==
  ASSUME NEW f \in Flash, NEW g \in Flash, NEW t \in Slots, StubOk(g, t),
         g[t].trailer = f[t].trailer, g[t].pending = f[t].pending,
         g[t].confirmed => f[t].confirmed, g[t].attempts >= f[t].attempts,
         \A s \in Slots : /\ g[s].floors.floor >= f[s].floors.floor
                          /\ g[s].epochs.floor >= f[s].epochs.floor
  PROVE  StubOk(f, t)
<1>1. Floor(g) >= Floor(f) /\ EpochFloor(g) >= EpochFloor(f)
  BY SlotFacts, TwoSlots, StubAssumption DEF Floor, EpochFloor, Larger
<1>2. Floor(g) \in Nat /\ Floor(f) \in Nat /\ EpochFloor(g) \in Nat /\ EpochFloor(f) \in Nat
  BY SurveyTypes
<1>3. f[t].trailer \in Images /\ Key(f[t].trailer) \in Nat /\ Meta[f[t].trailer].epoch \in Nat
  BY KeyType DEF StubOk
<1>4. StubMaxAttempts \in Int  BY StubAssumption, BoundsAssumption
<1>5. f[t].attempts \in Nat /\ g[t].attempts \in Nat  BY SlotFacts
<1>6. Meta[f[t].trailer].epoch >= EpochFloor(f)
  BY <1>1, <1>2, <1>3 DEF StubOk
<1>7. ~f[t].confirmed => Key(f[t].trailer) >= Floor(f) /\ f[t].attempts < StubMaxAttempts
  BY <1>1, <1>2, <1>3, <1>4, <1>5 DEF StubOk
<1>. QED  BY <1>3, <1>6, <1>7 DEF StubOk

(* With one signing epoch, a whole slot is authentic, and a kept one is    *)
(* accepted by the stub and by boot.py alike.                              *)
LEMMA KeptAccepted ==
  ASSUME OneEpoch, Typed, Ground, NEW s \in Slots
  PROVE  /\ Whole(s) <=> Authentic(flash, s)
         /\ Whole(s) <=> flash[s].trailer \in Images /\ flash[s].body = flash[s].trailer
         /\ Safe(s) => StubOk(flash, s) /\ Bootable(flash, s)
<1>1. EpochFloor(flash) <= Meta[Factory].epoch
  BY TwoSlots, StubAssumption DEF Ground, Genuine, EpochFloor, Larger
<1>2. flash[s].trailer \in Images => Meta[flash[s].trailer].epoch = Meta[Factory].epoch
  BY LifecycleAssumption DEF OneEpoch
<1>3. EpochFloor(flash) \in Nat /\ Meta[Factory].epoch \in Nat
  BY SurveyTypes, KeyType, LifecycleAssumption DEF Typed
<1>4. flash[s].trailer \in Images => /\ ForThisHardware(flash[s].trailer)
                                     /\ Meta[flash[s].trailer].epoch >= EpochFloor(flash)
  BY <1>1, <1>2, <1>3 DEF Ground, Genuine
<1>. QED  BY <1>4 DEF Whole, Authentic, Safe, StubOk, Bootable, MayTry, ForThisHardware

-----------------------------------------------------------------------------
(* What a step may do to a slot.                                           *)
LEMMA BurnedSlot ==
  ASSUME NEW f \in Flash, NEW s \in Slots, NEW t \in Slots
  PROVE  LET g == Burned(f, s) IN
         /\ g[t].body = f[t].body /\ g[t].trailer = f[t].trailer
         /\ g[t].pending = f[t].pending /\ g[t].confirmed = f[t].confirmed
         /\ g[t].counter = f[t].counter
         /\ g[t].floors = f[t].floors /\ g[t].epochs = f[t].epochs
         /\ g[t].attempts = f[t].attempts + (IF t = s THEN 1 ELSE 0)
<1>1. f[t] \in Slot /\ f[t].attempts \in Nat  BY SlotFacts
<1>. QED  BY <1>1 DEF Burned, Flash, Slot

LEMMA ConfirmSlot ==
  ASSUME TypeInv, pc \in ConfirmSteps, NEW f \in {flash, ConfirmTorn(flash), ConfirmWrite(flash)},
         NEW t \in Slots
  PROVE  /\ t # running => f[t] = flash[t]
         /\ f[t].body = flash[t].body /\ f[t].trailer = flash[t].trailer
         /\ f[t].pending = flash[t].pending /\ f[t].counter = flash[t].counter
         /\ f[t].attempts = flash[t].attempts
         /\ f[t].confirmed = flash[t].confirmed \/ (pc = "mark" /\ f[t].confirmed)
         /\ f[t].floors.floor >= flash[t].floors.floor
         /\ f[t].epochs.floor >= flash[t].epochs.floor
         /\ f[t].epochs.floor <= Larger(flash[t].epochs.floor, Meta[Image].epoch)
<1>1. /\ flash \in Flash /\ running \in Slots /\ Image \in Images
      /\ Key(Image) \in Nat /\ Meta[Image].epoch \in Nat
  BY KeyType DEF TypeInv, TypeOK, Flash, Running, Image
<1>2. \A s \in Slots : /\ flash[s] \in Slot
                       /\ flash[s].floors \in Region /\ flash[s].epochs \in Region
                       /\ flash[s].floors.floor \in Nat /\ flash[s].epochs.floor \in Nat
  BY <1>1, SlotFacts
<1>3. \A r \in Region, key \in Nat :
        /\ Raised(r, key).floor >= r.floor /\ TornRaise(r, key).floor = r.floor
        /\ Raised(r, key).floor <= Larger(r.floor, key)
  <2>. TAKE r \in Region, key \in Nat
  <2>1. r.floor \in Nat  BY DEF Region
  <2>2. TornRaise(r, key).floor = r.floor  BY DEF TornRaise, Smudge, Region
  <2>3. Append(r, key).floor = Larger(r.floor, key)  BY DEF Append
  <2>. QED  BY <2>1, <2>2, <2>3 DEF Raised, Larger
<1>4. CASE f = flash
  BY <1>1, <1>2, <1>4 DEF Larger
<1>5. CASE f = ConfirmWrite(flash) /\ pc = "raiseFloor"
  <2>1. f = [flash EXCEPT ![running].floors = Raised(@, Key(Image))]
    BY <1>5 DEF ConfirmWrite
  <2>2. t # running => f[t] = flash[t]  BY <1>1, <2>1 DEF Flash
  <2>3. f[running] = [flash[running] EXCEPT !.floors = Raised(@, Key(Image))]
    BY <1>1, <2>1 DEF Flash
  <2>. QED  BY <1>1, <1>2, <1>3, <2>2, <2>3 DEF Slot, Larger
<1>6. CASE f = ConfirmWrite(flash) /\ pc = "raiseEpoch"
  <2>1. f = [flash EXCEPT ![running].epochs = Raised(@, Meta[Image].epoch)]
    BY <1>6 DEF ConfirmWrite
  <2>2. t # running => f[t] = flash[t]  BY <1>1, <2>1 DEF Flash
  <2>3. f[running] = [flash[running] EXCEPT !.epochs = Raised(@, Meta[Image].epoch)]
    BY <1>1, <2>1 DEF Flash
  <2>4. /\ Raised(flash[running].epochs, Meta[Image].epoch).floor >= flash[running].epochs.floor
        /\ Raised(flash[running].epochs, Meta[Image].epoch).floor
             <= Larger(flash[running].epochs.floor, Meta[Image].epoch)
    BY <1>1, <1>2, <1>3
  <2>5. CASE t = running
    BY <1>1, <1>2, <2>3, <2>4, <2>5 DEF Slot
  <2>6. CASE t # running
    BY <1>1, <1>2, <2>2, <2>6 DEF Larger
  <2>. QED  BY <2>5, <2>6
<1>7. CASE f = ConfirmWrite(flash) /\ pc = "mark"
  <2>1. f = [flash EXCEPT ![running].confirmed = TRUE]
    BY <1>7 DEF ConfirmWrite
  <2>2. t # running => f[t] = flash[t]  BY <1>1, <2>1 DEF Flash
  <2>3. f[running] = [flash[running] EXCEPT !.confirmed = TRUE]
    BY <1>1, <2>1 DEF Flash
  <2>. QED  BY <1>1, <1>2, <1>7, <2>2, <2>3 DEF Slot, Larger
<1>8. CASE f = ConfirmTorn(flash) /\ pc = "raiseFloor"
  <2>1. f = [flash EXCEPT ![running].floors = TornRaise(@, Key(Image))]
    BY <1>8 DEF ConfirmTorn
  <2>2. t # running => f[t] = flash[t]  BY <1>1, <2>1 DEF Flash
  <2>3. f[running] = [flash[running] EXCEPT !.floors = TornRaise(@, Key(Image))]
    BY <1>1, <2>1 DEF Flash
  <2>. QED  BY <1>1, <1>2, <1>3, <2>2, <2>3 DEF Slot, Larger
<1>9. CASE f = ConfirmTorn(flash) /\ pc = "raiseEpoch"
  <2>1. f = [flash EXCEPT ![running].epochs = TornRaise(@, Meta[Image].epoch)]
    BY <1>9 DEF ConfirmTorn
  <2>2. t # running => f[t] = flash[t]  BY <1>1, <2>1 DEF Flash
  <2>3. f[running] = [flash[running] EXCEPT !.epochs = TornRaise(@, Meta[Image].epoch)]
    BY <1>1, <2>1 DEF Flash
  <2>. QED  BY <1>1, <1>2, <1>3, <2>2, <2>3 DEF Slot, Larger
<1>10. CASE f = ConfirmTorn(flash) /\ pc = "mark"
  BY <1>1, <1>2, <1>10 DEF ConfirmTorn, Larger
<1>. QED  BY <1>4, <1>5, <1>6, <1>7, <1>8, <1>9, <1>10 DEF ConfirmSteps

(* An install writes its target and nothing else.  Until its last step but *)
(* one the target carries no mark, from the erase of its status on.        *)
LEMMA InstallSlot ==
  ASSUME TypeInv, Ground, pc \in InstallSteps,
         NEW f \in {flash, InstallTorn(flash), InstallWrite(flash)}
  PROVE  LET d == flash[inst.target]
             e == f[inst.target]
         IN
         /\ inst.target \in Slots
         /\ \A t \in Slots \ {inst.target} : f[t] = flash[t]
         /\ e.trailer \in {d.trailer, inst.image, Blank, Torn}
         /\ e.body \in {d.body, inst.image, Blank, Torn}
         /\ e.epochs.floor <= Larger(d.epochs.floor, inst.epoch)
         /\ e.body = Torn /\ f \in {flash, InstallWrite(flash)} => d.body = Torn
         /\ pc = "eraseBody" => e = [d EXCEPT !.body = e.body]
         /\ pc = "eraseStatus" => f = flash \/ (e.body = d.body /\ ~e.pending /\ ~e.confirmed)
         /\ pc \in Unarmed \ {"arm"} => ~e.pending /\ ~e.confirmed /\ e.attempts = 0
         /\ pc \in {"arm", "flush"} =>
              e.trailer = d.trailer /\ e.body = d.body /\ e.attempts = d.attempts
         /\ pc = "flush" => e = d
<1> DEFINE d == flash[inst.target]
           e == f[inst.target]
<1>1. /\ flash \in Flash /\ inst.target \in Slots /\ d \in Slot /\ inst.epoch \in Nat
      /\ f \in Flash /\ e \in Slot
  <2>1. flash \in Flash /\ inst.target \in Slots /\ inst.epoch \in Nat
    BY DEF TypeInv, TypeOK, Install, Flash
  <2>2. f \in Flash  BY <2>1, ProgramTypes
  <2>. QED  BY <2>1, <2>2 DEF Flash
<1>2. /\ d.epochs \in Region /\ d.epochs.floor \in Nat /\ d.epochs.used \in Nat
      /\ d.confirmed \in BOOLEAN /\ d.pending \in BOOLEAN
  BY <1>1, SlotFacts, BoundsAssumption DEF Region
<1>3. \A t \in Slots \ {inst.target} : f[t] = flash[t]
  BY <1>1 DEF InstallTorn, InstallWrite, Flash
<1>4. e = d \/ (f = InstallWrite(flash) /\ e = Programmed(d))
            \/ (f = InstallTorn(flash) /\ e = HalfProgrammed(d))
  BY <1>1 DEF InstallTorn, InstallWrite, Flash
<1>5. pc \in Unarmed => ~d.pending /\ ~d.confirmed /\ d.attempts = 0
  BY DEF Ground
<1>. DEFINE b == BlankStatus(d)
<1>blank. /\ b.body = d.body /\ b.trailer = d.trailer /\ ~b.pending /\ ~b.confirmed
          /\ b.epochs = BlankRegion /\ b \in Slot
  <2>1. BlankRegion \in Region  BY BoundsAssumption DEF BlankRegion, Region
  <2>. QED  BY <1>1, <2>1, BoundsAssumption DEF BlankStatus, Slot
<1>half. pc = "eraseStatus" => \/ f = flash
                               \/ /\ e.body = d.body /\ e.trailer = d.trailer
                                  /\ ~e.pending /\ ~e.confirmed /\ e.epochs.floor = 0
  <2>1. CASE f = InstallWrite(flash) /\ pc = "eraseStatus"
    <3>1. e = b  BY <1>1, <2>1 DEF InstallWrite, Programmed, Flash
    <3>2. BlankRegion.floor = 0  BY DEF BlankRegion
    <3>. QED  BY <1>blank, <3>1, <3>2
  <2>2. CASE f = InstallTorn(flash) /\ pc = "eraseStatus"
    <3>1. e = [b EXCEPT !.attempts = AttemptsMax, !.floors.used = FloorEntries,
                        !.epochs.used = FloorEntries]
      BY <1>1, <2>2 DEF InstallTorn, HalfProgrammed, Flash
    <3>2. e.epochs = [b.epochs EXCEPT !.used = FloorEntries]
      BY <1>blank, <3>1 DEF Slot
    <3>3. e.epochs.floor = 0  BY <1>blank, <3>2 DEF BlankRegion
    <3>4. /\ e.body = b.body /\ e.trailer = b.trailer
          /\ e.pending = b.pending /\ e.confirmed = b.confirmed
      BY <1>blank, <3>1 DEF Slot
    <3>. QED  BY <1>blank, <3>3, <3>4
  <2>. QED  BY <2>1, <2>2
<1>. HIDE DEF b
<1>6. e.epochs.floor <= Larger(d.epochs.floor, inst.epoch)
  <2>1. CASE pc = "carryEpoch"
    <3>1. \/ e.epochs = d.epochs \/ e.epochs = Carried(d.epochs, inst.epoch)
          \/ e.epochs = Smudge(d.epochs)
      BY <1>1, <1>4, <2>1 DEF Programmed, HalfProgrammed, Slot
    <3>. QED  BY <1>1, <1>2, <3>1 DEF Carried, Append, Smudge, Larger, Region
  <2>2. CASE pc = "eraseStatus"
    <3>1. e.epochs = d.epochs \/ e.epochs.floor = 0
      BY <1>half, <2>2
    <3>. QED  BY <1>1, <1>2, <3>1 DEF Larger
  <2>3. CASE pc \notin {"carryEpoch", "eraseStatus"}
    <3>1. e.epochs = d.epochs
      BY <1>1, <1>4, <2>3 DEF Programmed, HalfProgrammed, InstallSteps, Slot
    <3>. QED  BY <1>1, <1>2, <3>1 DEF Larger
  <2>. QED  BY <2>1, <2>2, <2>3
<1>7. /\ e.trailer \in {d.trailer, inst.image, Blank, Torn}
      /\ e.body \in {d.body, inst.image, Blank, Torn}
      /\ e.body = Torn /\ f \in {flash, InstallWrite(flash)} => d.body = Torn
  <2>0. /\ f = flash => e = d
        /\ f = InstallWrite(flash) => e = Programmed(d)
    BY <1>1 DEF InstallWrite, Flash
  <2>1. CASE e = d  BY <2>1
  <2>2. CASE f = InstallWrite(flash) /\ e = Programmed(d)
    <3>1. inst.image # Torn
      BY ImagesAssumption DEF TypeInv, TypeOK, Install
    <3>2. /\ e.trailer \in {d.trailer, inst.image, Blank} /\ e.body \in {d.body, inst.image, Blank}
      <4>1. CASE pc = "eraseStatus"  BY <1>half, <4>1
      <4>2. CASE pc # "eraseStatus"
        BY <1>1, <2>2, <4>2 DEF Programmed, InstallSteps, Slot
      <4>. QED  BY <4>1, <4>2
    <3>. QED  BY <3>1, <3>2, ImagesAssumption
  <2>3. CASE f = InstallTorn(flash) /\ e = HalfProgrammed(d)
    <3>1. /\ e.trailer \in {d.trailer, inst.image, Blank, Torn}
          /\ e.body \in {d.body, inst.image, Blank, Torn}
      <4>1. CASE pc = "eraseStatus"  BY <1>half, <2>3, <4>1
      <4>2. CASE pc # "eraseStatus"
        BY <1>1, <2>3, <4>2 DEF HalfProgrammed, InstallSteps, Slot
      <4>. QED  BY <4>1, <4>2
    <3>. QED  BY <2>0, <2>1, <2>2, <3>1
  <2>. QED  BY <1>4, <2>1, <2>2, <2>3
<1>8. pc = "eraseBody" => e = [d EXCEPT !.body = e.body]
  BY <1>1, <1>4 DEF Programmed, HalfProgrammed, Slot
<1>9. pc = "eraseStatus" => f = flash \/ (e.body = d.body /\ ~e.pending /\ ~e.confirmed)
  BY <1>half
<1>10. pc \in Unarmed \ {"arm"} => ~e.pending /\ ~e.confirmed /\ e.attempts = 0
  BY <1>1, <1>4, <1>5 DEF Programmed, HalfProgrammed, Unarmed, Slot
<1>11. /\ pc \in {"arm", "flush"} =>
            e.trailer = d.trailer /\ e.body = d.body /\ e.attempts = d.attempts
       /\ pc = "flush" => e = d
  BY <1>1, <1>4 DEF Programmed, HalfProgrammed, Slot
<1>. QED
  <2>. HIDE DEF d, e
  <2>1. /\ inst.target \in Slots
        /\ \A t \in Slots \ {inst.target} : f[t] = flash[t]
        /\ e.trailer \in {d.trailer, inst.image, Blank, Torn}
        /\ e.body \in {d.body, inst.image, Blank, Torn}
        /\ e.epochs.floor <= Larger(d.epochs.floor, inst.epoch)
        /\ e.body = Torn /\ f \in {flash, InstallWrite(flash)} => d.body = Torn
    BY <1>1, <1>3, <1>6, <1>7
  <2>. QED  BY <1>8, <1>9, <1>10, <1>11, <2>1 DEF d, e

-----------------------------------------------------------------------------
LEMMA GroundStart == StubInit => Ground
<1>. SUFFICES ASSUME StubInit  PROVE Ground
  OBVIOUS
<1>1. \A s \in Slots : /\ flash[s].body = Factory /\ flash[s].trailer = Factory
                       /\ flash[s].epochs = Append(BlankRegion, Meta[Factory].epoch)
  BY DEF StubInit, Init, FactorySlot
<1>2. Append(BlankRegion, Meta[Factory].epoch).floor = Meta[Factory].epoch
      /\ Meta[Factory].epoch \in Nat
  BY KeyType, LifecycleAssumption DEF Append, BlankRegion, Larger
<1>3. pc = "boot"  BY DEF StubInit, Init
<1>. QED  BY <1>1, <1>2, <1>3, LifecycleAssumption
          DEF Ground, Genuine, ForThisHardware, InstallSteps, Unarmed

(* Steps that at most pay for a trial.                                     *)
LEMMA GroundPaid ==
  ASSUME Ground, flash \in Flash, runs' = runs, pc' \notin InstallSteps,
         flash' = flash \/ \E s \in Slots : flash' = Burned(flash, s),
         pc' \in {"pick", "mount"} => \A s \in cand' : s \in Slots /\ flash[s].body \in Images
  PROVE  Ground'
<1>1. \A t \in Slots : /\ flash'[t].body = flash[t].body /\ flash'[t].trailer = flash[t].trailer
                       /\ flash'[t].epochs = flash[t].epochs
  BY BurnedSlot
<1>2. Genuine'  BY <1>1 DEF Ground, Genuine
<1>3. pc' \notin Unarmed  BY DEF Unarmed, InstallSteps
<1>. QED  BY <1>1, <1>2, <1>3 DEF Ground, InstallSteps

(* Whatever an install step leaves in the target.                          *)
LEMMA GroundInstall ==
  ASSUME TypeInv, Ground, pc \in InstallSteps,
         flash' \in {flash, InstallTorn(flash), InstallWrite(flash)}, runs' = RunsIn(flash')
  PROVE  /\ Genuine'
         /\ pc # "eraseBody" => runs'[inst.target] = 0
<1>. DEFINE d == flash[inst.target]
            e == flash'[inst.target]
<1>0. /\ inst.image \in Images /\ ForThisHardware(inst.image) /\ inst.epoch <= Meta[Factory].epoch
      /\ flash \in Flash /\ inst.target \in Slots /\ runs \in [Slots -> Nat]
      /\ inst.epoch \in Nat /\ Meta[Factory].epoch \in Nat
  BY KeyType, LifecycleAssumption DEF TypeInv, TypeOK, Install, Ground, Flash
<1>1. /\ \A t \in Slots \ {inst.target} : flash'[t] = flash[t]
      /\ e.trailer \in {d.trailer, inst.image, Blank, Torn}
      /\ e.epochs.floor <= Larger(d.epochs.floor, inst.epoch)
  BY InstallSlot
<1>2. \A t \in Slots : runs'[t] = IF flash'[t].body = flash[t].body THEN runs[t] ELSE 0
  BY DEF RunsIn
<1>3. /\ e.trailer \in Images => ForThisHardware(e.trailer)
      /\ e.epochs.floor <= Meta[Factory].epoch
  <2>1. /\ d.epochs.floor <= Meta[Factory].epoch
        /\ d.trailer \in Images => ForThisHardware(d.trailer)
    BY <1>0 DEF Ground, Genuine
  <2>2. d.epochs.floor \in Nat  BY <1>0, SlotFacts
  <2>3. flash' \in Flash  BY <1>0, ProgramTypes
  <2>4. e.epochs.floor \in Nat  BY <1>0, <2>3, SlotFacts
  <2>. HIDE DEF d, e
  <2>5. e.epochs.floor <= Meta[Factory].epoch
    BY <1>0, <1>1, <2>1, <2>2, <2>4 DEF Larger
  <2>. QED  BY <1>0, <1>1, <2>1, <2>5, ImagesAssumption
<1>. HIDE DEF e
<1>4. Genuine'
  <2>1. \A t \in Slots : flash'[t].body \notin Images => runs'[t] = 0
    BY <1>0, <1>2 DEF Ground, Genuine
  <2>2. \A t \in Slots : flash'[t] = flash[t] \/ flash'[t] = e
    BY <1>1 DEF e
  <2>. QED  BY <1>3, <2>1, <2>2 DEF Ground, Genuine
<1>5. pc # "eraseBody" => runs'[inst.target] = 0
  BY <1>0, <1>2 DEF Ground
<1>. QED  BY <1>4, <1>5

LEMMA GroundReset == ASSUME Genuine', Reset  PROVE Ground'
BY DEF Reset, Ground, InstallSteps, Unarmed

LEMMA GroundRetry ==
  ASSUME TypeInv, Ground, pc \in InstallSteps, Genuine', Retry  PROVE Ground'
<1>1. CASE Reset  BY <1>1, GroundReset
<1>2. CASE ~Reset
  <2>1. pc' = "eraseBody" /\ inst' = [inst EXCEPT !.attempt = @ + 1] /\ inst \in Install
    BY <1>2 DEF Retry, TypeInv
  <2>2. inst'.image = inst.image /\ inst'.epoch = inst.epoch  BY <2>1 DEF Install
  <2>. QED  BY <2>1, <2>2 DEF Ground, Unarmed, InstallSteps
<1>. QED  BY <1>1, <1>2

LEMMA GroundGoesOn ==
  ASSUME TypeInv, Ground, InstallStep \/ StreamWrong
  PROVE  Ground'
<1>. DEFINE d == flash[inst.target]
            e == flash'[inst.target]
<1>1. /\ pc \in InstallSteps \ {"flush"} /\ pc' = AfterInstall /\ inst' = inst
      /\ flash' \in {flash, InstallTorn(flash), InstallWrite(flash)} /\ runs' = RunsIn(flash')
      /\ pc # "stream" => flash' = InstallWrite(flash)
      /\ pc = "counter" => HashMatches
  BY DEF InstallStep, StreamWrong, InstallSteps
<1>2. /\ inst.target \in Slots /\ flash \in Flash /\ d \in Slot /\ runs \in [Slots -> Nat]
  BY <1>1 DEF TypeInv, TypeOK, Install, Flash
<1>3. /\ Genuine' /\ (pc # "eraseBody" => runs'[inst.target] = 0)
  BY <1>1, GroundInstall
<1>4. pc # "stream" => e = Programmed(d)
  BY <1>1, <1>2 DEF InstallWrite, Flash
<1>5. /\ pc' \in InstallSteps \ {"eraseBody"}
      /\ pc' \in Unarmed <=> pc \in {"eraseStatus"} \cup (Unarmed \ {"arm"})
      /\ pc' = "eraseStatus" <=> pc = "eraseBody"
      /\ pc' \in {"counter", "arm", "flush"} <=> pc \in {"trailer", "counter", "arm"}
      /\ pc' \in {"arm", "flush"} <=> pc \in {"counter", "arm"}
  BY <1>1 DEF AfterInstall, InstallSteps, Unarmed
<1>6. pc' \in Unarmed => ~e.pending /\ ~e.confirmed /\ e.attempts = 0
  <2>1. CASE pc = "eraseStatus"
    BY <1>2, <1>4, <2>1 DEF Programmed, BlankStatus
  <2>2. CASE pc \in Unarmed \ {"arm"}
    BY <1>1, <2>2, InstallSlot
  <2>. QED  BY <1>5, <2>1, <2>2
<1>7. pc' = "eraseStatus" => e.body = Blank /\ runs'[inst.target] = 0
  <2>1. CASE pc = "eraseBody"
    <3>1. e.body = Blank  BY <1>2, <1>4, <2>1 DEF Programmed, Slot
    <3>. QED  BY <1>2, <1>3, <3>1, ImagesAssumption DEF Genuine
  <2>. QED  BY <1>5, <2>1
<1>8. pc' \in {"counter", "arm", "flush"} => e.trailer = inst.image
  <2>1. CASE pc = "trailer"
    BY <1>2, <1>4, <2>1 DEF Programmed, Slot
  <2>2. CASE pc \in {"counter", "arm"}
    BY <1>2, <1>4, <2>2 DEF Programmed, Slot, Ground
  <2>. QED  BY <1>5, <2>1, <2>2
<1>9. pc' \in {"arm", "flush"} => e.body = inst.image
  <2>1. CASE pc = "counter"
    BY <1>1, <1>2, <1>4, <2>1 DEF Programmed, Slot, HashMatches
  <2>2. CASE pc = "arm"
    BY <1>2, <1>4, <2>2 DEF Programmed, Slot, Ground
  <2>. QED  BY <1>5, <2>1, <2>2
<1>10. ForThisHardware(inst.image) /\ inst.epoch <= Meta[Factory].epoch
  BY <1>1 DEF Ground
<1>11. runs'[inst.target] = 0  BY <1>3, <1>5, <1>7
<1>12. pc' \notin {"pick", "mount"}  BY <1>5 DEF InstallSteps
<1>. HIDE DEF e
<1>13. /\ pc' \in Unarmed => LET g == flash'[inst'.target] IN
            ~g.pending /\ ~g.confirmed /\ g.attempts = 0
       /\ pc' \in {"counter", "arm", "flush"} => flash'[inst'.target].trailer = inst'.image
       /\ pc' \in {"arm", "flush"} => flash'[inst'.target].body = inst'.image
       /\ pc' = "eraseStatus" => flash'[inst'.target].body = Blank
       /\ runs'[inst'.target] = 0
  BY <1>1, <1>6, <1>7, <1>8, <1>9, <1>11 DEF e
<1>14. ForThisHardware(inst'.image) /\ inst'.epoch <= Meta[Factory].epoch
  BY <1>1, <1>10
<1>. QED  BY <1>3, <1>12, <1>13, <1>14 DEF Ground

LEMMA GroundBegin ==
  ASSUME TypeInv, Ground, NEW i \in Images, Offer(i) \/ RecoveryOffer(i)
  PROVE  Ground'
<1>1. /\ flash' = flash /\ runs' = runs /\ pc' = "eraseBody"
      /\ inst'.image = i /\ inst'.epoch = EpochFloor(flash) /\ ForThisHardware(i)
  BY DEF Offer, RecoveryOffer, Begin, Vetted, ForThisHardware
<1>2. EpochFloor(flash) <= Meta[Factory].epoch
  BY TwoSlots, StubAssumption DEF Ground, Genuine, EpochFloor, Larger
<1>. QED  BY <1>1, <1>2 DEF Ground, Genuine, Unarmed

LEMMA GroundConfirm ==
  ASSUME OneEpoch, TypeInv, Ground, pc \in ConfirmSteps,
         flash' \in {flash, ConfirmTorn(flash), ConfirmWrite(flash)}, runs' = runs
  PROVE  Genuine'
<1>1. Image \in Images /\ flash \in Flash /\ Meta[Image].epoch = Meta[Factory].epoch
      /\ Meta[Factory].epoch \in Nat
  BY KeyType, LifecycleAssumption DEF TypeInv, TypeOK, Running, Image, Flash, OneEpoch
<1>2. ASSUME NEW t \in Slots
      PROVE  /\ flash'[t].trailer = flash[t].trailer /\ flash'[t].body = flash[t].body
             /\ flash'[t].epochs.floor <= Meta[Factory].epoch
  <2>1. /\ flash'[t].trailer = flash[t].trailer /\ flash'[t].body = flash[t].body
        /\ flash'[t].epochs.floor <= Larger(flash[t].epochs.floor, Meta[Factory].epoch)
    BY <1>1, ConfirmSlot
  <2>2. flash[t].epochs.floor \in Nat /\ flash[t].epochs.floor <= Meta[Factory].epoch
    BY <1>1, SlotFacts DEF Ground, Genuine
  <2>. QED  BY <1>1, <2>1, <2>2 DEF Larger
<1>. QED  BY <1>2 DEF Ground, Genuine

LEMMA GroundMount == ASSUME TypeInv, Ground, Mount  PROVE Ground'
<1>. DEFINE s == Winner(flash, cand)
<1>1. s \in cand /\ s \in Slots /\ flash \in Flash /\ flash[s].body \in Images
  BY WinnerWins DEF Mount, TypeInv, TypeOK, Flash, Ground
<1>2. flash' = flash /\ pc' = "app" /\ \A t \in Slots : t # s => runs'[t] = runs[t]
  BY DEF Mount, TypeInv, TypeOK
<1>. HIDE DEF s
<1>3. Genuine'  BY <1>1, <1>2 DEF Ground, Genuine
<1>. QED  BY <1>2, <1>3 DEF Ground, InstallSteps, Unarmed

LEMMA GroundStep ==
  ASSUME OneEpoch
  PROVE  StubInv /\ Ground /\ [StubNext]_allVars => Ground'
<1>. SUFFICES ASSUME StubInv, Ground, [StubNext]_allVars  PROVE Ground'
  OBVIOUS
<1>0. Typed  BY AlwaysTyped
<1>1. CASE StubBoot \/ StubTornCut \/ StubCut \/ FollowRecord \/ PySurvey
  <2>1. runs' = runs
    BY <1>1
       DEF StubBoot, StubSurvey, StubTake, StubBurn, StubBurnFails, StubJump, StubBegin,
           StubRefuse, StubInstall, StubVerify, StubInstallFails, StubNoSlot, StubHalt,
           StubTornCut, StubCut, PowerCut, FollowRecord, PySurvey, HandOver, StubTryNext
  <2>2. pc' \in StubSteps \cup {"boot", "pick", "mount"}
    BY <1>1
       DEF StubBoot, StubSurvey, StubTake, StubBurn, StubBurnFails, StubJump, StubBegin,
           StubRefuse, StubInstall, StubVerify, StubInstallFails, StubNoSlot, StubHalt,
           StubTornCut, StubCut, PowerCut, FollowRecord, PySurvey, HandOver, StubTryNext, Reset,
           StubSteps, StubInstallSteps
  <2>3. flash' = flash \/ \E s \in Slots : flash' = Burned(flash, s)
    <3>1. CASE StubBurn \/ StubBurnFails
      <4>1. Newest(flash, cand) \in Slots
        BY <1>0, <3>1, NewestWins DEF StubBurn, StubBurnFails, Typed
      <4>. QED  BY <3>1, <4>1 DEF StubBurn, StubBurnFails
    <3>2. CASE ~(StubBurn \/ StubBurnFails)
      BY <1>1, <3>2
         DEF StubBoot, StubSurvey, StubTake, StubJump, StubBegin, StubRefuse, StubInstall,
             StubVerify, StubInstallFails, StubNoSlot, StubHalt, StubTornCut, StubCut, PowerCut,
             FollowRecord, PySurvey
    <3>. QED  BY <3>1, <3>2
  <2>4. pc' \in {"pick", "mount"} => \A s \in cand' : s \in Slots /\ flash[s].body \in Images
    <3>1. CASE FollowRecord
      BY <1>0, <3>1 DEF FollowRecord, Follows, Authentic, Typed, Record
    <3>2. CASE PySurvey
      BY <3>2 DEF PySurvey, Bootable, Authentic
    <3>3. CASE ~(FollowRecord \/ PySurvey)
      <4>1. pc' \notin {"pick", "mount"}
        BY <1>1, <3>3
           DEF StubBoot, StubSurvey, StubTake, StubBurn, StubBurnFails, StubJump, StubBegin,
               StubRefuse, StubInstall, StubVerify, StubInstallFails, StubNoSlot, StubHalt,
               StubTornCut, StubCut, PowerCut, HandOver, StubTryNext, Reset, StubInstallSteps
      <4>. QED  BY <4>1
    <3>. QED  BY <3>1, <3>2, <3>3
  <2>5. pc' \notin InstallSteps
    BY <2>2, StepNames DEF InstallSteps
  <2>. QED  BY <1>0, <2>1, <2>3, <2>4, <2>5, GroundPaid DEF Typed
<1>2. CASE (PyBoot \/ Confirm \/ Update \/ TornCut) /\ UNCHANGED stubVars
  <2>0. TypeInv /\ flash \in Flash /\ cand \in SUBSET Slots
    BY <1>0, <1>2, OwnPlace DEF StubInv, Typed
  <2>1. CASE ChooseKept \/ BurnAttempt \/ ArmFails \/ NoSlot
    <3>1. runs' = runs /\ pc' \notin InstallSteps /\ cand' \in SUBSET cand /\ pc = "pick"
      BY <2>1 DEF ChooseKept, BurnAttempt, ArmFails, NoSlot, InstallSteps
    <3>2. flash' = flash \/ \E s \in Slots : flash' = Burned(flash, s)
      <4>1. cand # {} => Winner(flash, cand) \in Slots  BY <2>0, WinnerWins
      <4>. QED  BY <2>1, <4>1 DEF ChooseKept, BurnAttempt, ArmFails, NoSlot
    <3>3. \A s \in cand' : s \in Slots /\ flash[s].body \in Images
      BY <2>0, <3>1 DEF Ground
    <3>. QED  BY <2>0, <3>1, <3>2, <3>3, GroundPaid
  <2>2. CASE Mount
    BY <2>0, <2>2, GroundMount
  <2>3. CASE ConfirmBegin
    BY <2>3 DEF ConfirmBegin, Ground, Genuine, InstallSteps, Unarmed
  <2>4. CASE ConfirmStep \/ ConfirmFault
    <3>1. Genuine'
      BY <2>0, <2>4, GroundConfirm DEF ConfirmStep, ConfirmFault
    <3>2. pc' \in Running
      BY <2>4 DEF ConfirmStep, ConfirmFault, AfterConfirm, ConfirmSteps, Running
    <3>. QED  BY <3>1, <3>2 DEF Ground, Running, ConfirmSteps, InstallSteps, Unarmed
  <2>5. ASSUME NEW i \in Images, Offer(i) \/ RecoveryOffer(i)
        PROVE  Ground'
    BY <2>0, <2>5, GroundBegin
  <2>6. CASE InstallStep \/ StreamWrong
    BY <2>0, <2>6, GroundGoesOn
  <2>7. CASE HashMismatch
    <3>1. Genuine' /\ pc \in InstallSteps
      BY <2>7 DEF HashMismatch, Ground, Genuine, InstallSteps
    <3>. QED  BY <2>0, <2>7, <3>1, GroundRetry DEF HashMismatch
  <2>8. CASE InstallFails
    <3>1. Genuine' /\ pc \in InstallSteps
      BY <2>0, <2>8, GroundInstall DEF InstallFails
    <3>. QED  BY <2>0, <2>8, <3>1, GroundRetry DEF InstallFails
  <2>9. CASE InstallDone
    BY <2>9, GroundReset DEF InstallDone, Ground, Genuine
  <2>10. CASE TornCut
    <3>1. CASE pc \in ConfirmSteps
      <4>1. flash' = ConfirmTorn(flash) /\ runs' = RunsIn(flash')  BY <2>10, <3>1 DEF TornCut
      <4>2. runs' = runs
        <5>1. \A t \in Slots : flash'[t].body = flash[t].body
          BY <2>0, <3>1, <4>1, ConfirmSlot
        <5>. QED  BY <1>0, <4>1, <5>1 DEF RunsIn, Typed
      <4>3. Genuine'  BY <2>0, <3>1, <4>1, <4>2, GroundConfirm
      <4>. QED  BY <2>10, <4>3, GroundReset DEF TornCut
    <3>2. CASE pc \in InstallSteps
      <4>1. flash' = InstallTorn(flash) /\ runs' = RunsIn(flash')
        BY <2>10, <3>2 DEF TornCut, ConfirmSteps, InstallSteps
      <4>2. Genuine'  BY <2>0, <3>2, <4>1, GroundInstall
      <4>. QED  BY <2>10, <4>2, GroundReset DEF TornCut
    <3>. QED  BY <2>10, <3>1, <3>2 DEF TornCut
  <2>. QED  BY <1>2, <2>1, <2>2, <2>3, <2>4, <2>5, <2>6, <2>7, <2>8, <2>9, <2>10
            DEF PyBoot, Confirm, Update
<1>3. CASE UNCHANGED allVars
  BY <1>3 DEF allVars, Ground, Genuine
<1>. QED  BY <1>1, <1>2, <1>3 DEF StubNext

-----------------------------------------------------------------------------
LEMMA HighestBounds ==
  /\ Highest \in Nat /\ StubMaxAttempts \in Nat /\ MaxAttempts \in Nat
  /\ StubMaxAttempts <= Highest /\ MaxAttempts <= Highest
BY StubAssumption, BoundsAssumption DEF Highest, Larger

LEMMA RestSame ==
  ASSUME Typed, AtRest, flash' = flash, runs' = runs, faults' \in {faults, faults + 1},
         rec' # None /\ faults' <= 1 =>
           Whole(rec'.slot) /\ Marked(rec'.slot) /\ rec'.firmware = Carries(rec'.slot)
  PROVE  AtRest'
<1>1. /\ \A s \in Slots : /\ Whole(s)' <=> Whole(s)
                          /\ Marked(s)' <=> Marked(s)
                          /\ Safe(s)' <=> Safe(s)
      /\ \A s, t \in Slots : Outranks(s, t)' <=> Outranks(s, t)
  BY DEF Whole, Marked, Safe, Outranks
<1>2. /\ faults \in Nat /\ faults' \in Nat /\ faults' >= faults
      /\ \A s \in Slots : runs[s] \in Nat /\ flash[s].attempts \in Nat
  BY SlotFacts DEF Typed
<1>3. RecordBacked'
  BY DEF RecordBacked, Whole, Marked, Carries
<1>. QED  BY <1>1, <1>2, <1>3 DEF AtRest

(* Paying for a trial changes nothing but what it counts.                  *)
LEMMA BurnedKeeps ==
  ASSUME Typed, NEW s \in Slots, flash' = Burned(flash, s), Typed'
  PROVE  /\ \A t \in Slots : /\ flash'[t].body = flash[t].body
                             /\ flash'[t].trailer = flash[t].trailer
                             /\ flash'[t].confirmed = flash[t].confirmed
                             /\ flash'[t].pending = flash[t].pending
                             /\ flash'[t].counter = flash[t].counter
                             /\ flash'[t].attempts = flash[t].attempts + (IF t = s THEN 1 ELSE 0)
                             /\ Whole(t)' <=> Whole(t)
                             /\ Marked(t)' <=> Marked(t)
                             /\ Safe(t)' <=> Safe(t)
                             /\ StubOk(flash', t) => StubOk(flash, t)
                             /\ t # s /\ StubOk(flash, t) => StubOk(flash', t)
         /\ \A t, o \in Slots : /\ StubNewer(flash', t, o) <=> StubNewer(flash, t, o)
                                /\ Outranks(t, o)' => Outranks(t, o)
<1>0. flash \in Flash /\ flash' \in Flash  BY DEF Typed
<1>1. ASSUME NEW t \in Slots
      PROVE  /\ flash'[t].body = flash[t].body /\ flash'[t].trailer = flash[t].trailer
             /\ flash'[t].confirmed = flash[t].confirmed
             /\ flash'[t].pending = flash[t].pending
             /\ flash'[t].counter = flash[t].counter
             /\ flash'[t].floors = flash[t].floors /\ flash'[t].epochs = flash[t].epochs
             /\ flash'[t].attempts = flash[t].attempts + (IF t = s THEN 1 ELSE 0)
             /\ flash'[t].attempts >= flash[t].attempts
             /\ flash[t].floors.floor \in Nat /\ flash[t].epochs.floor \in Nat
  BY <1>0, BurnedSlot, SlotFacts
<1>2. ASSUME NEW t \in Slots
      PROVE  /\ Whole(t)' <=> Whole(t)
             /\ Marked(t)' <=> Marked(t)
             /\ Safe(t)' <=> Safe(t)
  BY <1>1 DEF Whole, Marked, Safe
<1>3. ASSUME NEW t \in Slots, StubOk(flash', t)  PROVE StubOk(flash, t)
  BY <1>0, <1>1, <1>3, OkFalls
<1>4. ASSUME NEW t \in Slots, t # s, StubOk(flash, t)  PROVE StubOk(flash', t)
  <2>1. flash'[t].attempts = flash[t].attempts /\ flash[t].attempts \in Nat
    BY <1>0, <1>1, <1>4, SlotFacts
  <2>. QED  BY <1>0, <1>1, <1>4, <2>1, OkFalls
<1>5. ASSUME NEW t \in Slots, NEW o \in Slots
      PROVE  StubNewer(flash', t, o) <=> StubNewer(flash, t, o)
  BY <1>1 DEF StubNewer
<1>6. ASSUME NEW t \in Slots, NEW o \in Slots, Outranks(t, o)'  PROVE Outranks(t, o)
  BY <1>3, <1>5, <1>6 DEF Outranks
<1>. QED  BY <1>1, <1>2, <1>3, <1>4, <1>5, <1>6

LEMMA RestBurned ==
  ASSUME Typed, Typed', AtRest, NEW s \in Slots, flash[s].attempts < Highest,
         flash' = Burned(flash, s), runs' = runs, faults' \in {faults, faults + 1}, rec' = rec
  PROVE  AtRest'
<1>1. /\ faults \in Nat /\ faults' \in Nat /\ faults' >= faults /\ Highest \in Nat
      /\ \A t \in Slots : runs[t] \in Nat /\ flash[t].attempts \in Nat
  BY SlotFacts, HighestBounds DEF Typed
<1>2. \A t \in Slots : /\ Marked(t)' => flash'[t].attempts <= Highest
                       /\ ~flash'[t].confirmed => runs'[t] <= flash'[t].attempts + faults'
                       /\ ~Marked(t)' => runs'[t] = 0
  BY <1>1, BurnedKeeps DEF AtRest
<1>3. \A t \in Slots : flash'[t].body = Torn => faults' >= 1
  BY <1>1, BurnedKeeps DEF AtRest
<1>4. \A t, o \in Slots : t # o /\ Outranks(t, o)' /\ ~Whole(t)' =>
        faults' >= 1 /\ (flash'[t].body = Torn => faults' >= 2)
  BY <1>1, BurnedKeeps DEF AtRest
<1>5. \E t \in Slots : Safe(t)'
  BY BurnedKeeps DEF AtRest
<1>6. RecordBacked'
  <2>1. rec # None => rec.slot \in Slots  BY DEF Typed, Record
  <2>2. rec' # None /\ faults' <= 1 => /\ rec'.slot = rec.slot /\ rec.slot \in Slots
                                     /\ rec'.firmware = rec.firmware
                                     /\ Whole(rec.slot) /\ Marked(rec.slot)
                                     /\ rec.firmware = Carries(rec.slot)
    BY <1>1, <2>1 DEF AtRest, RecordBacked
  <2>. QED  BY <2>2, BurnedKeeps DEF RecordBacked, Carries, Whole, Marked
<1>. QED  BY <1>2, <1>3, <1>4, <1>5, <1>6 DEF AtRest

LEMMA ConfirmKeeps ==
  ASSUME TypeInv, Typed, pc \in ConfirmSteps, Typed',
         flash' \in {flash, ConfirmTorn(flash), ConfirmWrite(flash)}
  PROVE  /\ running \in Slots
         /\ \A t \in Slots : /\ flash'[t].body = flash[t].body
                             /\ flash'[t].trailer = flash[t].trailer
                             /\ flash'[t].attempts = flash[t].attempts
                             /\ flash[t].confirmed => flash'[t].confirmed
                             /\ Whole(t)' <=> Whole(t)
                             /\ Marked(t) => Marked(t)'
                             /\ Safe(t) => Safe(t)'
                             /\ t # running => flash'[t] = flash[t]
         /\ \A t, o \in Slots : t # running /\ Outranks(t, o)' => Outranks(t, o)
<1>0. flash \in Flash /\ flash' \in Flash /\ running \in Slots
  BY DEF Typed, TypeInv, Running
<1>1. ASSUME NEW t \in Slots
      PROVE  /\ t # running => flash'[t] = flash[t]
             /\ flash'[t].body = flash[t].body /\ flash'[t].trailer = flash[t].trailer
             /\ flash'[t].pending = flash[t].pending /\ flash'[t].counter = flash[t].counter
             /\ flash'[t].attempts = flash[t].attempts /\ flash'[t].attempts >= flash[t].attempts
             /\ flash[t].confirmed => flash'[t].confirmed
             /\ flash'[t].floors.floor >= flash[t].floors.floor
             /\ flash'[t].epochs.floor >= flash[t].epochs.floor
  BY <1>0, ConfirmSlot, SlotFacts
<1>2. ASSUME NEW t \in Slots
      PROVE  /\ Whole(t)' <=> Whole(t)
             /\ Marked(t) => Marked(t)'
             /\ Safe(t) => Safe(t)'
  BY <1>1 DEF Whole, Marked, Safe
<1>3. ASSUME NEW t \in Slots, NEW o \in Slots, t # running, Outranks(t, o)'
      PROVE  Outranks(t, o)
  <2>1. StubOk(flash, t)  BY <1>0, <1>1, <1>3, OkFalls DEF Outranks
  <2>2. StubNewer(flash, t, o)  BY <1>1, <1>3 DEF StubNewer, Outranks
  <2>. QED  BY <2>1, <2>2 DEF Outranks
<1>. QED  BY <1>0, <1>1, <1>2, <1>3

LEMMA RestConfirm ==
  ASSUME TypeInv, Typed, Typed', AtRest, Whole(running), Marked(running), pc \in ConfirmSteps,
         flash' \in {flash, ConfirmTorn(flash), ConfirmWrite(flash)},
         runs' = runs, faults' \in {faults, faults + 1}, rec' = rec
  PROVE  AtRest'
<1>1. /\ faults \in Nat /\ faults' \in Nat /\ faults' >= faults
      /\ \A t \in Slots : runs[t] \in Nat /\ flash[t].attempts \in Nat
  BY SlotFacts DEF Typed
<1>2. \A t \in Slots : /\ Marked(t)' => flash'[t].attempts <= Highest
                       /\ ~flash'[t].confirmed => runs'[t] <= flash'[t].attempts + faults'
                       /\ ~Marked(t)' => runs'[t] = 0
  <2>. TAKE t \in Slots
  <2>1. Marked(t)' => Marked(t)
    <3>1. CASE t = running  BY <3>1
    <3>2. CASE t # running  BY <3>2, ConfirmKeeps DEF Marked
    <3>. QED  BY <3>1, <3>2
  <2>. QED  BY <1>1, <2>1, ConfirmKeeps DEF AtRest
<1>3. \A t \in Slots : flash'[t].body = Torn => faults' >= 1
  BY <1>1, ConfirmKeeps DEF AtRest
<1>4. \A t, o \in Slots : t # o /\ Outranks(t, o)' /\ ~Whole(t)' =>
        faults' >= 1 /\ (flash'[t].body = Torn => faults' >= 2)
  BY <1>1, ConfirmKeeps DEF AtRest
<1>5. \E t \in Slots : Safe(t)'
  BY ConfirmKeeps DEF AtRest
<1>6. RecordBacked'
  <2>1. rec # None => rec.slot \in Slots  BY DEF Typed, Record
  <2>2. rec' # None /\ faults' <= 1 => /\ rec'.slot = rec.slot /\ rec.slot \in Slots
                                     /\ rec'.firmware = rec.firmware
                                     /\ Whole(rec.slot) /\ Marked(rec.slot)
                                     /\ rec.firmware = Carries(rec.slot)
    BY <1>1, <2>1 DEF AtRest, RecordBacked
  <2>. QED  BY <2>2, ConfirmKeeps DEF RecordBacked, Carries, Whole, Marked
<1>. QED  BY <1>2, <1>3, <1>4, <1>5, <1>6 DEF AtRest

LEMMA RestMount ==
  ASSUME Typed, AtRest, NEW s \in Slots, Good(s), flash' = flash, rec' = rec, faults' = faults,
         runs' = [runs EXCEPT ![s] = @ + (IF flash[s].confirmed THEN 0 ELSE 1)]
  PROVE  AtRest'
<1>1. /\ \A t \in Slots : /\ Whole(t)' <=> Whole(t)
                          /\ Marked(t)' <=> Marked(t)
                          /\ Safe(t)' <=> Safe(t)
      /\ \A t, o \in Slots : Outranks(t, o)' <=> Outranks(t, o)
      /\ RecordBacked' <=> RecordBacked
  BY DEF Whole, Marked, Safe, Outranks, RecordBacked, Carries
<1>2. /\ runs \in [Slots -> Nat] /\ faults \in Nat
      /\ \A t \in Slots : flash[t].attempts \in Nat
  BY SlotFacts DEF Typed
<1>3. ASSUME NEW t \in Slots
      PROVE  /\ ~flash[t].confirmed => runs'[t] <= flash[t].attempts + faults
             /\ ~Marked(t) => runs'[t] = 0
  <2>1. CASE t = s
    BY <1>2, <2>1 DEF Good, PaidFor, Marked
  <2>2. CASE t # s
    BY <1>2, <2>2 DEF AtRest
  <2>. QED  BY <2>1, <2>2
<1>. QED  BY <1>1, <1>3 DEF AtRest

(* The other slot of two.                                                  *)
LEMMA Other ==
  ASSUME NEW s \in Slots, NEW r \in Slots, r # s
  PROVE  \A t \in Slots : t = s \/ t = r
BY TwoSlots

LEMMA InstallKeeps ==
  ASSUME TypeInv, Typed, Typed', Ground, InInstall, pc \in InstallSteps,
         flash' \in {flash, InstallTorn(flash), InstallWrite(flash)}, NEW r, r = running
  PROVE  /\ r \in Slots /\ inst.target \in Slots /\ inst.target # r
         /\ flash'[r] = flash[r] /\ Safe(r)' /\ Whole(r)'
BY InstallSlot DEF InInstall, Runs, Safe, Whole

LEMMA RestInstall ==
  ASSUME TypeInv, Typed, Typed', Ground, Ground', AtRest, InInstall, pc \in InstallSteps,
         flash' \in {flash, InstallTorn(flash), InstallWrite(flash)}, runs' = RunsIn(flash'),
         \/ faults' = faults /\ flash' \in {flash, InstallWrite(flash)}
         \/ faults' = faults + 1,
         rec' = rec
  PROVE  AtRest'
<1>x. PICK x \in Slots : x = inst.target  BY DEF TypeInv, Install
<1>r. PICK r \in Slots : r = running  BY DEF InInstall, Runs
<1>. DEFINE d == flash[x]
            e == flash'[x]
<1>0. /\ faults \in Nat /\ faults' \in Nat /\ faults' >= faults /\ Highest \in Nat
      /\ \A t \in Slots : /\ runs[t] \in Nat /\ runs'[t] \in Nat
                          /\ flash[t].attempts \in Nat /\ flash'[t].attempts \in Nat
      /\ flash \in Flash /\ flash' \in Flash
  BY SlotFacts, HighestBounds DEF Typed
<1>1. /\ r \in Slots /\ x \in Slots /\ x # r /\ flash'[r] = flash[r] /\ Safe(r)' /\ Whole(r)'
      /\ \A t \in Slots : t = x \/ t = r
  BY <1>x, <1>r, InstallKeeps, Other
<1>2. /\ e.body = Torn /\ flash' \in {flash, InstallWrite(flash)} => d.body = Torn
      /\ pc = "eraseBody" => e = [d EXCEPT !.body = e.body]
      /\ pc = "eraseStatus" => flash' = flash \/ (e.body = d.body /\ ~e.pending /\ ~e.confirmed)
      /\ pc \in Unarmed \ {"arm"} => ~e.pending /\ ~e.confirmed /\ e.attempts = 0
      /\ pc \in {"arm", "flush"} =>
           e.trailer = d.trailer /\ e.body = d.body /\ e.attempts = d.attempts
      /\ pc = "flush" => e = d
      /\ d \in Slot
  BY <1>0, <1>x, InstallSlot DEF Flash
<1>3. pc # "eraseBody" => runs'[x] = 0  BY <1>x, GroundInstall
<1>4. runs'[r] = runs[r] /\ runs'[x] \in {runs[x], 0}
  BY <1>1 DEF RunsIn
<1>5. pc = "eraseBody" => /\ e.trailer = d.trailer /\ e.pending = d.pending
                          /\ e.confirmed = d.confirmed /\ e.counter = d.counter
                          /\ e.attempts = d.attempts /\ e.floors = d.floors
                          /\ e.epochs = d.epochs
  BY <1>2 DEF Slot
<1>6. flash'[x].body = Torn => flash[x].body = Torn \/ faults' = faults + 1
  BY <1>2
<1>7. /\ Marked(x)' => flash'[x].attempts <= Highest
      /\ ~flash'[x].confirmed => runs'[x] <= flash'[x].attempts + faults'
      /\ ~Marked(x)' => runs'[x] = 0
  <2>1. CASE pc = "eraseBody"
    BY <1>0, <1>1, <1>4, <1>5, <2>1 DEF AtRest, Marked
  <2>2. CASE pc \in Unarmed \ {"arm"}
    BY <1>0, <1>1, <1>2, <1>3, <2>2 DEF Marked, Unarmed
  <2>3. CASE pc = "eraseStatus"
    BY <1>0, <1>1, <1>2, <1>3, <2>3 DEF Marked, AtRest
  <2>4. CASE pc = "arm"
    <3>1. flash[x].attempts = 0  BY <1>x, <2>4 DEF Ground, Unarmed
    <3>. QED  BY <1>0, <1>1, <1>2, <1>3, <2>4, <3>1
  <2>5. CASE pc = "flush"
    BY <1>0, <1>1, <1>2, <1>3, <2>5 DEF Marked, AtRest
  <2>. QED  BY <2>1, <2>2, <2>3, <2>4, <2>5 DEF InstallSteps, Unarmed
<1>8. Outranks(x, r)' /\ ~Whole(x)' =>
        faults' >= 1 /\ (flash'[x].body = Torn => faults' >= 2)
  <2>. SUFFICES ASSUME Outranks(x, r)', ~Whole(x)'
                PROVE  faults' >= 1 /\ (flash'[x].body = Torn => faults' >= 2)
    OBVIOUS
  <2>0. StubOk(flash', x) /\ (flash'[x].confirmed \/ flash'[x].pending)
    BY DEF Outranks, StubOk
  <2>1. CASE pc = "eraseBody"
    <3>1. \A t \in Slots : /\ flash'[t].floors.floor >= flash[t].floors.floor
                           /\ flash'[t].epochs.floor >= flash[t].epochs.floor
                           /\ flash'[t].attempts >= flash[t].attempts
      BY <1>0, <1>1, <1>5, <2>1, SlotFacts
    <3>2. StubOk(flash, x)
      BY <1>0, <1>1, <1>5, <2>0, <2>1, <3>1, OkFalls
    <3>3. Outranks(x, r)
      BY <1>1, <1>5, <2>1, <3>2 DEF Outranks, StubNewer
    <3>4. faults # 0
      BY <1>1, <1>r, <2>1, <3>3 DEF InInstall, Unrivalled
    <3>5. flash'[x].body = Torn => faults' >= 2
      <4>1. CASE flash[x].body = Torn /\ faults' = faults
        <5>1. ~Whole(x)  BY <4>1, ImagesAssumption DEF Whole
        <5>. QED  BY <1>0, <1>1, <3>3, <4>1, <5>1 DEF AtRest
      <4>2. CASE faults' = faults + 1
        BY <1>0, <3>4, <4>2
      <4>. QED  BY <1>6, <4>1, <4>2
    <3>. QED  BY <1>0, <3>4, <3>5
  <2>2. CASE pc = "eraseStatus"
    <3>1. flash' = flash  BY <1>2, <2>0, <2>2
    <3>2. Outranks(x, r) /\ ~Whole(x)  BY <3>1 DEF Outranks, Whole
    <3>. QED  BY <1>0, <1>1, <3>1, <3>2 DEF AtRest
  <2>3. CASE pc \in Unarmed \ {"arm"}
    BY <1>2, <2>0, <2>3
  <2>4. CASE pc \in {"arm", "flush"}
    <3>1. flash[x].trailer = inst.image /\ flash[x].body = inst.image
          /\ inst.image \in Images /\ ForThisHardware(inst.image)
      BY <1>x, <2>4 DEF Ground, InstallSteps, TypeInv, Install
    <3>2. flash'[x].trailer = inst.image /\ flash'[x].body = inst.image
      BY <1>2, <2>4, <3>1
    <3>3. Whole(x)'  BY <3>1, <3>2 DEF Whole, ForThisHardware
    <3>. QED  BY <3>3
  <2>. QED  BY <2>1, <2>2, <2>3, <2>4 DEF InstallSteps, Unarmed
<1>9. /\ Marked(r)' => flash'[r].attempts <= Highest
      /\ ~flash'[r].confirmed => runs'[r] <= flash'[r].attempts + faults'
      /\ ~Marked(r)' => runs'[r] = 0
  BY <1>0, <1>1, <1>4 DEF AtRest, Marked
<1>10. \A t \in Slots : flash'[t].body = Torn => faults' >= 1
  BY <1>0, <1>1, <1>6 DEF AtRest
<1>11. RecordBacked'
  <2>. SUFFICES ASSUME rec' # None, faults' <= 1  PROVE RecordBacked'
    BY DEF RecordBacked
  <2>1. faults <= 1 /\ rec # None /\ rec'.slot = r
    BY <1>0, <1>r DEF InInstall, Runs
  <2>2. Whole(rec.slot) /\ Marked(rec.slot) /\ rec.firmware = Carries(rec.slot)
    BY <2>1 DEF AtRest, RecordBacked
  <2>. QED  BY <1>1, <2>1, <2>2 DEF RecordBacked, Whole, Marked, Carries
<1>12. \E t \in Slots : Safe(t)'  BY <1>1
<1>13. \A t, o \in Slots : t # o /\ Outranks(t, o)' /\ ~Whole(t)' =>
         faults' >= 1 /\ (flash'[t].body = Torn => faults' >= 2)
  BY <1>1, <1>8
<1>14. \A t \in Slots : /\ Marked(t)' => flash'[t].attempts <= Highest
                        /\ ~flash'[t].confirmed => runs'[t] <= flash'[t].attempts + faults'
                        /\ ~Marked(t)' => runs'[t] = 0
  BY <1>1, <1>7, <1>9
<1>. QED  BY <1>10, <1>11, <1>12, <1>13, <1>14 DEF AtRest

-----------------------------------------------------------------------------
LEMMA HeldStart == OneEpoch /\ StubInit => Held
<1>. SUFFICES ASSUME StubInit  PROVE Held
  OBVIOUS
<1>0. Ground /\ Typed  BY GroundStart, StubStart, AlwaysTyped
<1>1. \A s \in Slots : /\ flash[s].body = Factory /\ flash[s].trailer = Factory
                       /\ flash[s].confirmed /\ flash[s].attempts = 0 /\ ~flash[s].pending
                       /\ runs[s] = 0
  BY DEF StubInit, Init, FactorySlot
<1>2. pc = "boot" /\ rec = None /\ faults = 0  BY DEF StubInit, Init
<1>3. \A s \in Slots : Whole(s) /\ Safe(s) /\ Marked(s)
  BY <1>1, LifecycleAssumption DEF Whole, Safe, Marked
<1>4. AtRest
  BY <1>1, <1>2, <1>3, SlotNames, HighestBounds, ImagesAssumption, LifecycleAssumption
     DEF AtRest, RecordBacked
<1>. QED  BY <1>2, <1>4
          DEF Held, Trying, Picked, StubInstallSteps, Running, ConfirmSteps, InstallSteps

LEMMA HeldIdle == ASSUME AtRest', pc' \in {"boot", "halt"}  PROVE Held'
BY DEF Held, Trying, Picked, StubInstallSteps, Running, ConfirmSteps, InstallSteps

LEMMA HeldLoop == ASSUME AtRest', InLoop', pc' \in Trying  PROVE Held'
BY DEF Held, Trying, Picked, StubInstallSteps, Running, ConfirmSteps, InstallSteps

LEMMA HeldHandover == ASSUME AtRest', AtHandover', pc' = "handover"  PROVE Held'
BY DEF Held, Trying, Picked, StubInstallSteps, Running, ConfirmSteps, InstallSteps

LEMMA HeldPick == ASSUME AtRest', AtPick', pc' = "pick"  PROVE Held'
BY DEF Held, Trying, Picked, StubInstallSteps, Running, ConfirmSteps, InstallSteps

LEMMA HeldMount == ASSUME AtRest', AtMount', pc' = "mount"  PROVE Held'
BY DEF Held, Trying, Picked, StubInstallSteps, Running, ConfirmSteps, InstallSteps

LEMMA HeldApp == ASSUME AtRest', InApp', pc' \in Running  PROVE Held'
BY DEF Held, Trying, Picked, StubInstallSteps, Running, ConfirmSteps, InstallSteps

LEMMA HeldInstall == ASSUME AtRest', InInstall', pc' \in InstallSteps  PROVE Held'
BY DEF Held, Trying, Picked, StubInstallSteps, Running, ConfirmSteps, InstallSteps

(* A step that leaves the slots alone leaves what is said of them.         *)
LEMMA SameSlots ==
  ASSUME Typed, Typed', flash' = flash, runs' = runs, faults' >= faults
  PROVE  /\ \A t \in Slots : /\ Whole(t)' <=> Whole(t)
                             /\ Marked(t)' <=> Marked(t)
                             /\ Safe(t)' <=> Safe(t)
                             /\ Good(t) => Good(t)'
                             /\ Unrivalled(t)' <=> Unrivalled(t)
                             /\ StubOk(flash', t) <=> StubOk(flash, t)
         /\ \A t, o \in Slots : Outranks(t, o)' <=> Outranks(t, o)
<1>1. \A t \in Slots : /\ Whole(t)' <=> Whole(t)
                       /\ Marked(t)' <=> Marked(t)
                       /\ Safe(t)' <=> Safe(t)
                       /\ StubOk(flash', t) <=> StubOk(flash, t)
  BY DEF Whole, Marked, Safe
<1>2. \A t, o \in Slots : Outranks(t, o)' <=> Outranks(t, o)
  BY DEF Outranks
<1>3. \A t \in Slots : Unrivalled(t)' <=> Unrivalled(t)
  BY <1>2 DEF Unrivalled
<1>4. /\ faults \in Nat /\ faults' \in Nat
      /\ \A t \in Slots : runs[t] \in Nat /\ flash[t].attempts \in Nat
  BY SlotFacts DEF Typed
<1>5. ASSUME NEW t \in Slots, PaidFor(t)  PROVE PaidFor(t)'
  BY <1>4, <1>5 DEF PaidFor
<1>. QED  BY <1>1, <1>2, <1>3, <1>5 DEF Good

LEMMA HeldSurvey ==
  ASSUME OneEpoch, Typed, Typed', Ground, Held, faults' <= 2, StubSurvey
  PROVE  Held'
<1>1. /\ pc' = "stubPick" /\ seen' = rec /\ rec' = rec /\ flash' = flash
      /\ runs' = runs /\ faults' = faults /\ cand' = {s \in Slots : StubOk(flash, s)}
  BY DEF StubSurvey
<1>2. AtRest /\ RecordBacked  BY <1>1 DEF Held, AtRest
<1>3. faults \in Nat /\ faults' >= faults  BY <1>1 DEF Typed
<1>4. AtRest'  BY <1>1, <1>2, <1>3, RestSame DEF RecordBacked
<1>5. \A s \in Slots : Safe(s) => s \in cand'
  BY <1>1, KeptAccepted
<1>6. \A s \in Slots : /\ Safe(s)' <=> Safe(s)
                       /\ StubOk(flash', s) <=> StubOk(flash, s)
  BY <1>1, <1>3, SameSlots
<1>7. \E s \in cand' : Safe(s)'
  BY <1>1, <1>2, <1>5, <1>6 DEF AtRest
<1>8. pc' \notin Picked /\ pc' \notin StubInstallSteps /\ pc' \in Trying
  BY <1>1 DEF Picked, StubInstallSteps, Trying
<1>9. InLoop'
  BY <1>1, <1>5, <1>6, <1>7, <1>8 DEF InLoop
<1>. QED  BY <1>4, <1>8, <1>9, HeldLoop

(* The slot the stub picks: accepted, and torn only after two faults.      *)
LEMMA PickSound ==
  ASSUME OneEpoch, Typed, Ground, AtRest, InLoop, pc = "stubPick", cand # {},
         NEW s, s = Newest(flash, cand)
  PROVE  /\ s \in cand /\ s \in Slots /\ StubOk(flash, s) /\ Marked(s)
         /\ flash[s].body = Torn => faults >= 2
         /\ faults = 0 => Unrivalled(s) /\ Whole(s)
<1>0. flash \in Flash /\ cand \in SUBSET Slots /\ faults \in Nat  BY DEF Typed
<1>1. s \in cand /\ s \in Slots /\ \A t \in cand \ {s} : StubNewer(flash, s, t)
  BY <1>0, NewestWins
<1>2. StubOk(flash, s)  BY <1>1 DEF InLoop
<1>3. Marked(s)  BY <1>2 DEF StubOk, Marked
<1>4. PICK o \in Slots : Safe(o)  BY DEF AtRest
<1>5. ~Whole(s) /\ o \in cand => o # s /\ Outranks(s, o)
  BY <1>1, <1>2, <1>4 DEF Safe, Outranks
<1>6. flash[s].body = Torn => faults >= 2
  <2>. SUFFICES ASSUME flash[s].body = Torn  PROVE faults >= 2
    OBVIOUS
  <2>1. ~Whole(s)  BY ImagesAssumption DEF Whole
  <2>2. CASE o \in cand
    BY <1>1, <1>5, <2>1, <2>2 DEF AtRest
  <2>3. CASE o \notin cand
    BY <1>1, <1>4, <2>3 DEF InLoop
  <2>. QED  BY <2>2, <2>3
<1>7. ASSUME faults = 0  PROVE Unrivalled(s) /\ Whole(s)
  <2>1. \A t \in Slots : StubOk(flash, t) => t \in cand
    BY <1>7 DEF InLoop
  <2>2. Unrivalled(s)
    BY <1>0, <1>1, <2>1, NewerOrder DEF Unrivalled, Outranks
  <2>3. o \in cand  BY <1>4, <2>1, KeptAccepted
  <2>4. Whole(s)  BY <1>1, <1>5, <1>7, <2>3 DEF AtRest
  <2>. QED  BY <2>2, <2>4
<1>. QED  BY <1>1, <1>2, <1>3, <1>6, <1>7

LEMMA HeldTake ==
  ASSUME OneEpoch, Typed, Typed', Ground, Held, faults' <= 2, StubTake
  PROVE  Held'
<1>s. PICK s \in Slots : s = Newest(flash, cand)
  BY NewestWins DEF StubTake, Typed
<1>1. /\ pc = "stubPick" /\ cand # {} /\ ~Trial(flash, s) /\ pick' = s /\ pc' = "stubCheck"
      /\ seen' = seen /\ rec' = rec /\ flash' = flash
      /\ runs' = runs /\ faults' = faults /\ cand' = cand
  BY <1>s DEF StubTake
<1>2. AtRest /\ RecordBacked /\ InLoop  BY <1>1 DEF Held, AtRest, Trying
<1>3. faults \in Nat /\ faults' >= faults  BY <1>1 DEF Typed
<1>4. AtRest'  BY <1>1, <1>2, <1>3, RestSame DEF RecordBacked
<1>5. /\ s \in cand /\ StubOk(flash, s) /\ Marked(s) /\ (flash[s].body = Torn => faults >= 2)
      /\ faults = 0 => Unrivalled(s) /\ Whole(s)
  BY <1>1, <1>2, <1>s, PickSound
<1>6. Good(s)
  <2>1. flash[s].confirmed  BY <1>1, <1>5 DEF Trial, Marked
  <2>. QED  BY <1>5, <2>1 DEF Good, PaidFor
<1>7. pc' \in Picked /\ pc' \in Trying /\ pc' \notin StubInstallSteps
      /\ pc' # "stubPick"
  BY <1>1 DEF Picked, StubInstallSteps, Trying
<1>8. \A t \in Slots : /\ Safe(t)' <=> Safe(t)
                       /\ Whole(t)' <=> Whole(t)
                       /\ Good(t) => Good(t)'
                       /\ Unrivalled(t)' <=> Unrivalled(t)
                       /\ StubOk(flash', t) <=> StubOk(flash, t)
  BY <1>1, <1>3, SameSlots
<1>9. cand \in SUBSET Slots /\ (rec # None => rec.slot \in Slots)  BY DEF Typed, Record
<1>10. \A t \in cand \ {s} : StubOk(flash, t)
  BY <1>1, <1>2 DEF InLoop
<1>11. /\ \A t, o \in Slots : Safe(o) /\ o \notin cand /\ flash[t].body = Torn => faults >= 2
       /\ rec # None => Good(rec.slot) \/ (rec = seen /\ \E t \in cand : Safe(t))
       /\ faults = 0 => rec = seen
  BY <1>1, <1>2 DEF InLoop
<1>12. InLoop'
  BY <1>1, <1>5, <1>6, <1>7, <1>8, <1>9, <1>10, <1>11 DEF InLoop
<1>. QED  BY <1>4, <1>7, <1>12, HeldLoop

(* A trial the stub accepts has an attempt left.                           *)
LEMMA TrialHasAttempt ==
  ASSUME Typed, NEW s \in Slots, StubOk(flash, s), Trial(flash, s)
  PROVE  flash[s].attempts < StubMaxAttempts /\ flash[s].attempts < Highest
<1>1. flash[s].attempts \in Nat  BY SlotFacts DEF Typed
<1>2. flash[s].attempts < StubMaxAttempts  BY DEF StubOk, Trial
<1>. QED  BY <1>1, <1>2, HighestBounds

LEMMA HeldBurn ==
  ASSUME OneEpoch, Typed, Typed', Ground, Held, faults' <= 2, StubBurn
  PROVE  Held'
<1>s. PICK s \in Slots : s = Newest(flash, cand)
  BY NewestWins DEF StubBurn, Typed
<1>1. /\ pc = "stubPick" /\ cand # {} /\ Trial(flash, s) /\ pick' = s /\ pc' = "stubCheck"
      /\ seen' = seen /\ rec' = rec /\ flash' = Burned(flash, s)
      /\ runs' = runs /\ faults' = faults /\ cand' = cand
  BY <1>s DEF StubBurn
<1>2. AtRest /\ RecordBacked /\ InLoop  BY <1>1 DEF Held, AtRest, Trying
<1>3. /\ faults \in Nat /\ faults' >= faults
      /\ \A t \in Slots : flash[t].attempts \in Nat /\ runs[t] \in Nat
  BY <1>1, SlotFacts DEF Typed
<1>5. /\ s \in cand /\ StubOk(flash, s) /\ Marked(s) /\ (flash[s].body = Torn => faults >= 2)
      /\ faults = 0 => Unrivalled(s) /\ Whole(s)
  BY <1>1, <1>2, <1>s, PickSound
<1>4. AtRest'
  BY <1>1, <1>2, <1>5, TrialHasAttempt, RestBurned
<1>6. \A t \in Slots : /\ flash'[t].body = flash[t].body
                       /\ flash'[t].trailer = flash[t].trailer
                       /\ flash'[t].confirmed = flash[t].confirmed
                       /\ flash'[t].attempts = flash[t].attempts + (IF t = s THEN 1 ELSE 0)
                       /\ Whole(t)' <=> Whole(t)
                       /\ Marked(t)' <=> Marked(t)
                       /\ Safe(t)' <=> Safe(t)
                       /\ t # s /\ StubOk(flash, t) => StubOk(flash', t)
  BY <1>1, BurnedKeeps
<1>7. pc' \in Picked /\ pc' \in Trying /\ pc' \notin StubInstallSteps
      /\ pc' # "stubPick"
  BY <1>1 DEF Picked, StubInstallSteps, Trying
<1>8. Good(s)'
  <2>1. runs[s] <= flash[s].attempts + faults
    BY <1>1, <1>2 DEF AtRest, Trial
  <2>2. flash'[s].attempts = flash[s].attempts + 1  BY <1>6
  <2>3. PaidFor(s)'  BY <1>1, <1>3, <2>1, <2>2 DEF PaidFor
  <2>. QED  BY <1>5, <1>6, <2>3 DEF Good
<1>9. \A t \in Slots : Good(t) => Good(t)'
  BY <1>1, <1>3, <1>6 DEF Good, PaidFor
<1>10. Unrivalled(s) => Unrivalled(s)'
  BY <1>1, BurnedKeeps DEF Unrivalled
<1>11. /\ cand \in SUBSET Slots /\ (rec # None => rec.slot \in Slots)  BY DEF Typed, Record
<1>12. /\ \A t \in cand \ {s} : StubOk(flash', t)
       /\ \A t, o \in Slots : Safe(o)' /\ o \notin cand /\ flash'[t].body = Torn => faults >= 2
  BY <1>1, <1>2, <1>6, <1>11 DEF InLoop
<1>13. rec # None => Good(rec.slot)' \/ (rec = seen /\ \E t \in cand : Safe(t)')
  <2>1. rec # None => Good(rec.slot) \/ (rec = seen /\ \E t \in cand : Safe(t))
    BY <1>2 DEF InLoop
  <2>2. ASSUME NEW r \in Slots, r = rec.slot, Good(r)  PROVE Good(rec.slot)'
    BY <1>1, <1>9, <2>2
  <2>. QED  BY <1>6, <1>11, <2>1, <2>2
<1>14. faults = 0 => rec = seen  BY <1>1, <1>2 DEF InLoop
<1>15. Good(pick)' /\ (faults = 0 => Unrivalled(pick)' /\ Whole(pick)')
  BY <1>1, <1>5, <1>6, <1>8, <1>10
<1>16. InLoop'
  BY <1>1, <1>5, <1>6, <1>7, <1>12, <1>13, <1>14, <1>15 DEF InLoop
<1>. QED  BY <1>4, <1>7, <1>16, HeldLoop

LEMMA HeldBurnFails ==
  ASSUME OneEpoch, Typed, Typed', Ground, Held, faults' <= 2, StubBurnFails
  PROVE  Held'
<1>s. PICK s \in Slots : s = Newest(flash, cand)
  BY NewestWins DEF StubBurnFails, Typed
<1>1. /\ pc = "stubPick" /\ cand # {} /\ Trial(flash, s) /\ pc' = "stubPick"
      /\ seen' = seen /\ rec' = rec /\ flash' \in {flash, Burned(flash, s)}
      /\ runs' = runs /\ faults' = faults + 1 /\ cand' = cand \ {s}
  BY <1>s DEF StubBurnFails
<1>3. /\ faults \in Nat /\ faults' >= faults /\ faults <= 2
      /\ \A t \in Slots : flash[t].attempts \in Nat /\ runs[t] \in Nat
  BY <1>1, SlotFacts DEF Typed
<1>2. AtRest /\ RecordBacked /\ InLoop  BY <1>1, <1>3 DEF Held, AtRest, Trying
<1>5. StubOk(flash, s) /\ s \in cand
  BY <1>1, <1>2, <1>s, PickSound
<1>4. AtRest'
  <2>1. CASE flash' = flash
    BY <1>1, <1>2, <1>3, <2>1, RestSame DEF RecordBacked
  <2>2. CASE flash' = Burned(flash, s)
    BY <1>1, <1>2, <1>5, <2>2, TrialHasAttempt, RestBurned
  <2>. QED  BY <1>1, <2>1, <2>2
<1>6. \A t \in Slots : /\ flash'[t].body = flash[t].body
                       /\ flash'[t].confirmed = flash[t].confirmed
                       /\ flash'[t].attempts >= flash[t].attempts
                       /\ flash'[t].attempts \in Nat
                       /\ Marked(t)' <=> Marked(t)
                       /\ Safe(t)' <=> Safe(t)
                       /\ t # s /\ StubOk(flash, t) => StubOk(flash', t)
  <2>1. CASE flash' = flash
    BY <1>1, <1>3, <2>1, SameSlots
  <2>2. CASE flash' = Burned(flash, s)
    BY <1>3, <2>2, BurnedKeeps
  <2>. QED  BY <1>1, <2>1, <2>2
<1>7. pc' \in Trying /\ pc' \notin Picked /\ pc' \notin StubInstallSteps
      /\ pc' = "stubPick" /\ faults' # 0
  BY <1>1, <1>3 DEF Picked, StubInstallSteps, Trying
<1>9. \A t \in Slots : Good(t) => Good(t)'
  BY <1>1, <1>3, <1>6 DEF Good, PaidFor
<1>10. cand \in SUBSET Slots /\ (rec # None => rec.slot \in Slots)  BY DEF Typed, Record
<1>11. /\ \A t \in cand' : StubOk(flash', t)
       /\ \A t, o \in Slots : Safe(o)' /\ o \notin cand' /\ flash'[t].body = Torn => faults' >= 2
  <2>1. \A t \in cand : StubOk(flash, t)  BY <1>1, <1>2 DEF InLoop
  <2>2. ~Safe(s)  BY <1>1 DEF Safe, Trial
  <2>3. \A t, o \in Slots : Safe(o) /\ o \notin cand /\ flash[t].body = Torn => faults >= 2
    BY <1>2 DEF InLoop
  <2>. QED  BY <1>1, <1>3, <1>6, <1>10, <2>1, <2>2, <2>3
<1>13. rec # None => Good(rec.slot)' \/ (rec = seen /\ \E t \in cand' : Safe(t)')
  <2>1. rec # None => Good(rec.slot) \/ (rec = seen /\ \E t \in cand : Safe(t))
    BY <1>2 DEF InLoop
  <2>2. ASSUME NEW r \in Slots, r = rec.slot, Good(r)  PROVE Good(rec.slot)'
    BY <1>1, <1>9, <2>2
  <2>3. ~Safe(s)  BY <1>1 DEF Safe, Trial
  <2>. QED  BY <1>1, <1>6, <1>10, <2>1, <2>2, <2>3
<1>16. InLoop'
  BY <1>1, <1>7, <1>11, <1>13 DEF InLoop
<1>. QED  BY <1>4, <1>7, <1>16, HeldLoop

(* The slot's firmware is in place already.                                *)
LEMMA HeldJump ==
  ASSUME OneEpoch, Typed, Typed', Ground, Held, faults' <= 2, StubJump
  PROVE  Held'
<1>1. /\ pc = "stubCheck" /\ pc' = "handover" /\ rec' = rec /\ flash' = flash
      /\ runs' = runs /\ faults' = faults /\ Recorded(seen, pick)
  BY DEF StubJump, HandOver, InPlace
<1>2. AtRest /\ RecordBacked /\ InLoop  BY <1>1 DEF Held, AtRest, Trying, Picked
<1>3. faults \in Nat /\ faults' >= faults  BY <1>1 DEF Typed
<1>4. AtRest'  BY <1>1, <1>2, <1>3, RestSame DEF RecordBacked
<1>5. /\ Good(pick) /\ pick \in Slots
      /\ faults = 0 => Unrivalled(pick) /\ rec = seen
      /\ rec # None => Good(rec.slot) \/ rec = seen
  BY <1>1, <1>2 DEF InLoop, Picked, Typed
<1>6. /\ rec # None => Good(rec.slot) /\ rec.slot \in Slots
      /\ faults = 0 => rec # None /\ Unrivalled(rec.slot)
  BY <1>1, <1>5 DEF Recorded, Typed, Record
<1>7. \A t \in Slots : /\ Good(t) => Good(t)'
                       /\ Unrivalled(t)' <=> Unrivalled(t)
  BY <1>1, <1>3, SameSlots
<1>8. AtHandover'
  BY <1>1, <1>6, <1>7 DEF AtHandover
<1>. QED  BY <1>1, <1>4, <1>8, HeldHandover

(* The record written in the end is the slot's.                            *)
LEMMA HeldVerify ==
  ASSUME OneEpoch, Typed, Typed', Ground, Held, faults' <= 2, StubVerify
  PROVE  Held'
<1>1. /\ pc = "verifyArea" /\ pc' = "handover" /\ rec' = rec /\ flash' = flash
      /\ runs' = runs /\ faults' = faults /\ rec # None /\ rec.slot = pick
  BY DEF StubVerify, HandOver, Recorded
<1>2. AtRest /\ RecordBacked /\ InLoop
  BY <1>1 DEF Held, AtRest, Trying, Picked, StubInstallSteps
<1>3. faults \in Nat /\ faults' >= faults  BY <1>1 DEF Typed
<1>4. AtRest'  BY <1>1, <1>2, <1>3, RestSame DEF RecordBacked
<1>5. /\ Good(pick) /\ pick \in Slots
      /\ faults = 0 => Unrivalled(pick)
  BY <1>1, <1>2 DEF InLoop, Picked, StubInstallSteps, Typed
<1>7. \A t \in Slots : /\ Good(t) => Good(t)'
                       /\ Unrivalled(t)' <=> Unrivalled(t)
  BY <1>1, <1>3, SameSlots
<1>8. AtHandover'
  BY <1>1, <1>5, <1>7 DEF AtHandover
<1>. QED  BY <1>1, <1>4, <1>8, HeldHandover

(* No slot is left: the record, if there is one, is of a good slot.        *)
LEMMA HeldNoSlotLeft ==
  ASSUME OneEpoch, Typed, Typed', Ground, Held, faults' <= 2, StubNoSlot \/ StubHalt
  PROVE  Held'
<1>1. /\ pc = "stubPick" /\ cand = {} /\ pc' \in {"handover", "halt"} /\ rec' = rec
      /\ flash' = flash /\ runs' = runs /\ faults' = faults
  BY DEF StubNoSlot, StubHalt, HandOver
<1>2. AtRest /\ RecordBacked /\ InLoop  BY <1>1 DEF Held, AtRest, Trying
<1>3. faults \in Nat /\ faults' >= faults  BY <1>1 DEF Typed
<1>4. AtRest'  BY <1>1, <1>2, <1>3, RestSame DEF RecordBacked
<1>5. faults # 0
  <2>1. PICK o \in Slots : Safe(o)  BY <1>2 DEF AtRest
  <2>2. StubOk(flash, o)  BY <2>1, KeptAccepted
  <2>. QED  BY <1>1, <1>2, <2>2 DEF InLoop
<1>6. rec # None => Good(rec.slot) /\ rec.slot \in Slots
  BY <1>1, <1>2 DEF InLoop, Typed, Record
<1>7. \A t \in Slots : Good(t) => Good(t)'
  BY <1>1, <1>3, SameSlots
<1>8. AtHandover'
  BY <1>1, <1>5, <1>6, <1>7 DEF AtHandover
<1>. QED  BY <1>1, <1>4, <1>8, HeldHandover, HeldIdle

LEMMA HeldBegin ==
  ASSUME OneEpoch, Typed, Typed', Ground, Held, faults' <= 2, StubBegin
  PROVE  Held'
<1>1. /\ pc = "stubCheck" /\ pc' = "eraseRecord" /\ rec' = rec /\ seen' = seen /\ pick' = pick
      /\ flash' = flash /\ runs' = runs /\ faults' = faults /\ cand' = cand
      /\ flash[pick].body \in {flash[pick].trailer, Torn}
  BY DEF StubBegin
<1>2. AtRest /\ RecordBacked /\ InLoop  BY <1>1 DEF Held, AtRest, Trying, Picked
<1>3. faults \in Nat /\ faults' >= faults  BY <1>1 DEF Typed
<1>4. AtRest'  BY <1>1, <1>2, <1>3, RestSame DEF RecordBacked
<1>5. pc \in Picked /\ pc' \in Picked /\ pc' \in Trying /\ pc' # "stubPick"
  BY <1>1 DEF Picked, StubInstallSteps, Trying
<1>6. pick \in Slots /\ cand \in SUBSET Slots /\ (rec # None => rec.slot \in Slots)
  BY <1>2, <1>5 DEF InLoop, Typed, Record
<1>7. \A t \in Slots : /\ Safe(t)' <=> Safe(t)
                       /\ Whole(t)' <=> Whole(t)
                       /\ Good(t) => Good(t)'
                       /\ Unrivalled(t)' <=> Unrivalled(t)
                       /\ StubOk(flash', t) <=> StubOk(flash, t)
  BY <1>1, <1>3, SameSlots
<1>8. /\ \A t \in cand \ {pick} : StubOk(flash, t)
      /\ pick \in cand /\ Good(pick) /\ (flash[pick].body = Torn => faults >= 2)
      /\ \A t, o \in Slots : Safe(o) /\ o \notin cand /\ flash[t].body = Torn => faults >= 2
      /\ rec # None => Good(rec.slot) \/ (rec = seen /\ \E t \in cand : Safe(t))
      /\ faults = 0 => Unrivalled(pick) /\ Whole(pick)
  BY <1>1, <1>2, <1>5 DEF InLoop
<1>9. InLoop'
  BY <1>1, <1>5, <1>6, <1>7, <1>8 DEF InLoop
<1>. QED  BY <1>4, <1>5, <1>9, HeldLoop

(* The stub goes on to the next slot only from one that is not whole.      *)
LEMMA HeldRefuse ==
  ASSUME OneEpoch, Typed, Typed', Ground, Held, faults' <= 2, StubRefuse
  PROVE  Held'
<1>1. /\ pc = "stubCheck" /\ pc' = "stubPick" /\ rec' = rec /\ seen' = seen
      /\ flash' = flash /\ runs' = runs /\ faults' = faults /\ cand' = cand \ {pick}
      /\ flash[pick].body # flash[pick].trailer
  BY DEF StubRefuse, StubTryNext
<1>2. AtRest /\ RecordBacked /\ InLoop  BY <1>1 DEF Held, AtRest, Trying, Picked
<1>3. faults \in Nat /\ faults' >= faults  BY <1>1 DEF Typed
<1>4. AtRest'  BY <1>1, <1>2, <1>3, RestSame DEF RecordBacked
<1>5. /\ pc \in Picked /\ pc' \in Trying /\ pc' = "stubPick"
      /\ pc' \notin Picked /\ pc' \notin StubInstallSteps
  BY <1>1 DEF Picked, StubInstallSteps, Trying
<1>6. pick \in Slots /\ cand \in SUBSET Slots /\ (rec # None => rec.slot \in Slots)
  BY <1>2, <1>5 DEF InLoop, Typed, Record
<1>7. \A t \in Slots : /\ Safe(t)' <=> Safe(t)
                       /\ Good(t) => Good(t)'
                       /\ StubOk(flash', t) <=> StubOk(flash, t)
  BY <1>1, <1>3, SameSlots
<1>8. /\ \A t \in cand \ {pick} : StubOk(flash, t)
      /\ \A t, o \in Slots : Safe(o) /\ o \notin cand /\ flash[t].body = Torn => faults >= 2
      /\ rec # None => Good(rec.slot) \/ (rec = seen /\ \E t \in cand : Safe(t))
      /\ faults = 0 => Whole(pick)
  BY <1>1, <1>2, <1>5 DEF InLoop
<1>9. ~Whole(pick) /\ ~Safe(pick) /\ faults # 0
  BY <1>1, <1>8 DEF Whole, Safe
<1>10. InLoop'
  BY <1>1, <1>5, <1>6, <1>7, <1>8, <1>9 DEF InLoop
<1>. QED  BY <1>4, <1>5, <1>10, HeldLoop

(* Whatever an install of firmware leaves, cut or failed, the record is    *)
(* the one before, none, or that of the slot it took the firmware from.    *)
LEMMA RecordLeft ==
  ASSUME OneEpoch, StubInv, Typed, Ground, AtRest, InLoop, pc \in StubInstallSteps,
         flash' = flash, faults' \in {faults, faults + 1}
  PROVE  LET new == [slot |-> pick, firmware |-> Carries(pick)] IN
         /\ StubInstall => rec' \in {rec, None, new}
         /\ StubLeaves(rec', area') => rec' \in {rec, None, new}
         /\ rec' \in {rec, None, new} =>
              (rec' # None /\ faults' <= 1 =>
                 Whole(rec'.slot) /\ Marked(rec'.slot) /\ rec'.firmware = Carries(rec'.slot))
<1>. DEFINE new == [slot |-> pick, firmware |-> Carries(pick)]
<1>1. faults \in Nat /\ faults' >= faults  BY DEF Typed
<1>2. /\ pick \in Slots /\ flash[pick].trailer \in Images /\ Marked(pick)
      /\ flash[pick].body \in {flash[pick].trailer, Torn}
      /\ flash[pick].body = Torn => faults >= 2
  BY DEF StubInv, Picked, InLoop, Good
<1>3. faults' <= 1 => Whole(pick)
  BY <1>1, <1>2, KeptAccepted DEF Typed
<1>4. RecordBacked  BY DEF AtRest
<1>5. (StubInstall \/ StubLeaves(rec', area')) => rec' \in {rec, None, new}
  BY DEF StubInstall, StubLeaves, StubInstallSteps
<1>6. ASSUME rec' \in {rec, None, new}, rec' # None, faults' <= 1
      PROVE  Whole(rec'.slot) /\ Marked(rec'.slot) /\ rec'.firmware = Carries(rec'.slot)
  <2>1. CASE rec' = rec
    BY <1>1, <1>4, <1>6, <2>1 DEF RecordBacked, Typed
  <2>2. CASE rec' = new
    BY <1>2, <1>3, <1>6, <2>2
  <2>. QED  BY <1>6, <2>1, <2>2
<1>. QED  BY <1>5, <1>6

LEMMA HeldInstalls ==
  ASSUME OneEpoch, StubInv, Typed, Typed', Ground, Held, faults' <= 2, StubInstall
  PROVE  Held'
<1>1. /\ pc \in StubInstallSteps /\ pc' \in StubInstallSteps /\ seen' = seen /\ pick' = pick
      /\ flash' = flash /\ runs' = runs /\ faults' = faults /\ cand' = cand
  BY DEF StubInstall, StubInstallSteps
<1>2. AtRest /\ RecordBacked /\ InLoop  BY <1>1 DEF Held, AtRest, Trying, Picked
<1>3. faults \in Nat /\ faults' >= faults  BY <1>1 DEF Typed
<1>. DEFINE new == [slot |-> pick, firmware |-> Carries(pick)]
<1>left. /\ rec' \in {rec, None, new}
         /\ rec' # None /\ faults' <= 1 =>
              Whole(rec'.slot) /\ Marked(rec'.slot) /\ rec'.firmware = Carries(rec'.slot)
  BY <1>1, <1>2, RecordLeft
<1>4. AtRest'  BY <1>1, <1>2, <1>3, <1>left, RestSame
<1>5. /\ pc \in Picked /\ pc' \in Picked /\ pc' \in Trying
      /\ pc' # "stubPick" /\ pc' # "stubCheck"
  BY <1>1 DEF Picked, StubInstallSteps, Trying
<1>6. pick \in Slots /\ cand \in SUBSET Slots /\ (rec # None => rec.slot \in Slots)
  BY <1>2, <1>5 DEF InLoop, Typed, Record
<1>7. \A t \in Slots : /\ Safe(t)' <=> Safe(t)
                       /\ Whole(t)' <=> Whole(t)
                       /\ Good(t) => Good(t)'
                       /\ Unrivalled(t)' <=> Unrivalled(t)
                       /\ StubOk(flash', t) <=> StubOk(flash, t)
  BY <1>1, <1>3, SameSlots
<1>8. /\ \A t \in cand \ {pick} : StubOk(flash, t)
      /\ pick \in cand /\ Good(pick) /\ (flash[pick].body = Torn => faults >= 2)
      /\ flash[pick].body \in {flash[pick].trailer, Torn}
      /\ \A t, o \in Slots : Safe(o) /\ o \notin cand /\ flash[t].body = Torn => faults >= 2
      /\ rec # None => Good(rec.slot) \/ (rec = seen /\ \E t \in cand : Safe(t))
      /\ faults = 0 => Unrivalled(pick) /\ Whole(pick)
  BY <1>1, <1>2, <1>5 DEF InLoop
<1>9. rec' # None => Good(rec.slot)' \/ rec' = new \/ (rec' = seen' /\ \E t \in cand' : Safe(t)')
  <2>2. ASSUME NEW r \in Slots, r = rec'.slot, Good(r)  PROVE Good(rec.slot)'
    BY <1>7, <2>2
  <2>. QED  BY <1>1, <1>6, <1>7, <1>8, <1>left, <2>2
<1>10. rec' = new => Good(rec.slot)'
  <2>1. ASSUME NEW r \in Slots, r = rec'.slot, Good(r)  PROVE Good(rec.slot)'
    BY <1>7, <2>1
  <2>. QED  BY <1>6, <1>8, <2>1
<1>11. InLoop'
  BY <1>1, <1>5, <1>6, <1>7, <1>8, <1>9, <1>10 DEF InLoop
<1>. QED  BY <1>4, <1>5, <1>11, HeldLoop

LEMMA HeldInstallFails ==
  ASSUME OneEpoch, StubInv, Typed, Typed', Ground, Held, faults' <= 2, StubInstallFails
  PROVE  Held'
<1>1. /\ pc \in StubInstallSteps /\ pc' = "stubPick" /\ StubLeaves(rec', area')
      /\ seen' = (IF pc = "verifyArea" THEN rec ELSE seen)
      /\ flash' = flash /\ runs' = runs /\ faults' = faults + 1 /\ cand' = cand \ {pick}
  BY DEF StubInstallFails, StubTryNext
<1>3. faults \in Nat /\ faults' >= faults /\ faults <= 1  BY <1>1 DEF Typed
<1>2. AtRest /\ RecordBacked /\ InLoop  BY <1>1, <1>3 DEF Held, AtRest, Trying, Picked
<1>. DEFINE new == [slot |-> pick, firmware |-> Carries(pick)]
<1>4. /\ rec' \in {rec, None, new}
      /\ rec' # None /\ faults' <= 1 =>
           Whole(rec'.slot) /\ Marked(rec'.slot) /\ rec'.firmware = Carries(rec'.slot)
  BY <1>1, <1>2, RecordLeft
<1>5. AtRest'  BY <1>1, <1>2, <1>3, <1>4, RestSame
<1>6. /\ pc \in Picked /\ pc' \in Trying /\ pc' \notin Picked /\ pc' \notin StubInstallSteps
      /\ faults' # 0
  BY <1>1, <1>3 DEF Picked, StubInstallSteps, Trying
<1>7. pick \in Slots /\ cand \in SUBSET Slots /\ (rec # None => rec.slot \in Slots)
  BY <1>2, <1>6 DEF InLoop, Typed, Record
<1>8. \A t \in Slots : /\ Safe(t)' <=> Safe(t)
                       /\ Good(t) => Good(t)'
                       /\ StubOk(flash', t) <=> StubOk(flash, t)
  BY <1>1, <1>3, SameSlots
<1>9. /\ \A t \in cand \ {pick} : StubOk(flash, t)
      /\ Good(pick)
      /\ \A t, o \in Slots : Safe(o) /\ o \notin cand /\ flash[t].body = Torn => faults >= 2
  BY <1>1, <1>2, <1>6 DEF InLoop
<1>10. \A t, o \in Slots : Safe(o)' /\ o \notin cand' /\ flash'[t].body = Torn => faults' >= 2
  <2>1. \A t \in Slots : flash[t].body = Torn => faults >= 1
    BY <1>2 DEF AtRest
  <2>. QED  BY <1>1, <1>3, <2>1
(* The fault makes up for an attempt the slot may be short of.             *)
<1>12. \A t \in Slots : Marked(t) => Good(t)'
  <2>. SUFFICES ASSUME NEW t \in Slots, Marked(t)  PROVE Good(t)'
    OBVIOUS
  <2>1. runs[t] \in Nat /\ flash[t].attempts \in Nat  BY SlotFacts DEF Typed
  <2>2. ~flash[t].confirmed => runs[t] <= flash[t].attempts + faults
    BY <1>2 DEF AtRest
  <2>3. PaidFor(t)'  BY <1>1, <1>3, <2>1, <2>2 DEF PaidFor
  <2>. QED  BY <1>1, <2>3 DEF Good, Marked
<1>13. rec' # None => Good(rec.slot)'
  <2>1. rec' # None => rec'.slot \in Slots /\ Marked(rec'.slot)
    <3>1. CASE rec' = rec
      BY <1>2, <1>3, <1>7, <3>1 DEF RecordBacked
    <3>2. CASE rec' = new
      BY <1>7, <1>9, <3>2 DEF Good
    <3>. QED  BY <1>4, <3>1, <3>2
  <2>2. ASSUME NEW r \in Slots, r = rec'.slot, Marked(r)  PROVE Good(rec.slot)'
    BY <1>12, <2>2
  <2>. QED  BY <2>1, <2>2
<1>14. InLoop'
  BY <1>1, <1>6, <1>7, <1>8, <1>9, <1>10, <1>13 DEF InLoop
<1>. QED  BY <1>5, <1>6, <1>14, HeldLoop

(* Power fails while the stub installs, or anywhere between operations.    *)
LEMMA HeldStubTorn ==
  ASSUME OneEpoch, StubInv, Typed, Typed', Ground, Held, faults' <= 2, StubTornCut
  PROVE  Held'
<1>1. /\ pc \in StubInstallSteps /\ pc' = "boot" /\ StubLeaves(rec', area')
      /\ flash' = flash /\ runs' = runs /\ faults' = faults + 1
  BY DEF StubTornCut, Reset
<1>2. faults \in Nat /\ faults <= 1  BY <1>1 DEF Typed
<1>3. AtRest /\ InLoop  BY <1>1, <1>2 DEF Held, Trying, Picked
<1>4. rec' # None /\ faults' <= 1 =>
        Whole(rec'.slot) /\ Marked(rec'.slot) /\ rec'.firmware = Carries(rec'.slot)
  BY <1>1, <1>3, RecordLeft
<1>5. AtRest'  BY <1>1, <1>3, <1>4, RestSame
<1>. QED  BY <1>1, <1>5, HeldIdle

LEMMA HeldCut ==
  ASSUME Typed, Held, faults' <= 2, StubCut
  PROVE  Held'
<1>1. /\ pc' = "boot" /\ flash' = flash /\ runs' = runs /\ faults' = faults /\ rec' = rec
  BY DEF StubCut, PowerCut, Reset
<1>2. AtRest /\ RecordBacked  BY <1>1 DEF Held, AtRest
<1>3. AtRest'  BY <1>1, <1>2, RestSame DEF RecordBacked
<1>. QED  BY <1>1, <1>3, HeldIdle

-----------------------------------------------------------------------------
(* boot.py follows the record to the slot the stub paid for ...            *)
LEMMA HeldFollow ==
  ASSUME OneEpoch, Typed, Typed', Ground, Held, faults' <= 2, FollowRecord
  PROVE  Held'
<1>s. PICK s \in Slots : s = rec.slot
  BY DEF FollowRecord, Follows, Typed, Record
<1>1. /\ pc = "handover" /\ pc' = "mount" /\ rec # None /\ Authentic(flash, s)
      /\ cand' = {s} /\ rec' = rec /\ flash' = flash /\ runs' = runs /\ faults' = faults
  BY <1>s DEF FollowRecord, Follows
<1>2. AtRest /\ RecordBacked /\ AtHandover  BY <1>1 DEF Held, AtRest
<1>3. faults \in Nat /\ faults' >= faults  BY <1>1 DEF Typed
<1>4. AtRest'  BY <1>1, <1>2, <1>3, RestSame DEF RecordBacked
<1>5. Good(s) /\ Whole(s) /\ (faults = 0 => Unrivalled(s))
  BY <1>s, <1>1, <1>2, KeptAccepted DEF AtHandover
<1>6. Good(s)' /\ Whole(s)' /\ (Unrivalled(s)' <=> Unrivalled(s))
  BY <1>1, <1>3, <1>5, SameSlots
<1>7. Winner(flash', cand') = s
  BY <1>1, WinnerWins DEF Typed
<1>8. AtMount'
  BY <1>s, <1>1, <1>5, <1>6, <1>7 DEF AtMount, Good
<1>. QED  BY <1>1, <1>4, <1>8, HeldMount

(* ... and looks for a slot itself only if no record vouches for one.      *)
LEMMA HeldPySurvey ==
  ASSUME OneEpoch, Typed, Typed', Ground, Held, faults' <= 2, PySurvey
  PROVE  Held'
<1>1. /\ pc = "handover" /\ pc' = "pick" /\ ~Follows
      /\ cand' = {s \in Slots : Bootable(flash, s)}
      /\ rec' = rec /\ flash' = flash /\ runs' = runs /\ faults' = faults
  BY DEF PySurvey
<1>2. AtRest /\ RecordBacked /\ AtHandover  BY <1>1 DEF Held, AtRest
<1>3. faults \in Nat /\ faults' >= faults  BY <1>1 DEF Typed
<1>4. AtRest'  BY <1>1, <1>2, <1>3, RestSame DEF RecordBacked
<1>5. faults <= 1 => rec = None
  <2>. SUFFICES ASSUME faults <= 1, rec # None  PROVE FALSE
    OBVIOUS
  <2>1. rec.slot \in Slots  BY DEF Typed, Record
  <2>2. Whole(rec.slot) /\ rec.firmware = Carries(rec.slot)
    BY <1>2 DEF RecordBacked
  <2>3. Authentic(flash, rec.slot)  BY <2>1, <2>2, KeptAccepted
  <2>. QED  BY <1>1, <2>2, <2>3 DEF Follows, Recorded
<1>6. faults # 0
  BY <1>2, <1>5 DEF AtHandover
<1>7. \A s \in Slots : /\ Safe(s)' <=> Safe(s)
                       /\ Whole(s)' <=> Whole(s)
                       /\ Marked(s)' <=> Marked(s)
  BY <1>1, <1>3, SameSlots
<1>8. \E s \in cand' : Safe(s)'
  BY <1>1, <1>2, <1>7, KeptAccepted DEF AtRest
<1>9. \A s \in cand' : /\ s \in Slots /\ Whole(s) /\ Marked(s)
                       /\ flash[s].confirmed \/ flash[s].attempts < MaxAttempts
  BY <1>1, KeptAccepted DEF Bootable, MayTry, Marked
<1>10. AtPick'
  BY <1>1, <1>5, <1>6, <1>7, <1>8, <1>9 DEF AtPick
<1>. QED  BY <1>1, <1>4, <1>10, HeldPick

LEMMA HeldChooseKept ==
  ASSUME Typed, Typed', Held, faults' <= 2, ChooseKept, rec' = rec
  PROVE  Held'
<1>s. PICK s \in Slots : s = Winner(flash, cand)
  BY WinnerWins DEF ChooseKept, Typed
<1>1. /\ pc = "pick" /\ pc' = "mount" /\ cand # {} /\ cand' = cand /\ flash[s].confirmed
      /\ flash' = flash /\ runs' = runs /\ faults' = faults
  BY <1>s DEF ChooseKept
<1>2. AtRest /\ RecordBacked /\ AtPick  BY <1>1 DEF Held, AtRest
<1>3. faults \in Nat /\ faults' >= faults  BY <1>1 DEF Typed
<1>4. AtRest'  BY <1>1, <1>2, <1>3, RestSame DEF RecordBacked
<1>5. /\ \A t \in cand : t \in Slots /\ Whole(t) /\ Marked(t)
      /\ faults <= 1 => rec = None
      /\ faults # 0
  BY <1>2 DEF AtPick, Typed
<1>6. \A t \in cand' : Whole(t)' /\ Marked(t)'
  BY <1>1, <1>3, <1>5, SameSlots
<1>7. Winner(flash', cand') = s /\ PaidFor(s)'
  BY <1>s, <1>1 DEF PaidFor
<1>8. AtMount'
  BY <1>1, <1>5, <1>6, <1>7 DEF AtMount
<1>. QED  BY <1>1, <1>4, <1>8, HeldMount

(* boot.py pays for a trial the stub did not.                              *)
LEMMA HeldBurnAttempt ==
  ASSUME Typed, Typed', Held, faults' <= 2, BurnAttempt, rec' = rec
  PROVE  Held'
<1>s. PICK s \in Slots : s = Winner(flash, cand)
  BY WinnerWins DEF BurnAttempt, Typed
<1>1. /\ pc = "pick" /\ pc' = "mount" /\ cand # {} /\ cand' = cand /\ ~flash[s].confirmed
      /\ flash' = Burned(flash, s) /\ runs' = runs /\ faults' = faults
  BY <1>s DEF BurnAttempt
<1>2. AtRest /\ RecordBacked /\ AtPick  BY <1>1 DEF Held, AtRest
<1>3. /\ faults \in Nat /\ flash \in Flash /\ flash' \in Flash /\ cand \in SUBSET Slots
      /\ flash[s].attempts \in Nat /\ runs[s] \in Nat
  BY SlotFacts DEF Typed
<1>4. s \in cand  BY <1>s, <1>1, <1>3, WinnerWins
<1>5. /\ \A t \in cand : t \in Slots /\ Whole(t) /\ Marked(t)
      /\ flash[s].attempts < MaxAttempts
      /\ faults <= 1 => rec = None
      /\ faults # 0
  BY <1>1, <1>2, <1>4 DEF AtPick, Typed
<1>6. flash[s].attempts < Highest  BY <1>3, <1>5, HighestBounds
<1>7. AtRest'  BY <1>1, <1>2, <1>6, RestBurned
<1>8. /\ \A t \in cand' : Whole(t)' /\ Marked(t)'
      /\ \A t \in Slots : /\ flash'[t].counter = flash[t].counter
                          /\ flash'[t].confirmed = flash[t].confirmed
      /\ flash'[s].attempts = flash[s].attempts + 1
  BY <1>1, <1>5, BurnedKeeps
<1>9. Winner(flash', cand') = s
  BY <1>s, <1>1, <1>3, <1>8, WinnerStays
<1>10. PaidFor(s)'
  <2>1. runs[s] <= flash[s].attempts + faults  BY <1>1, <1>2 DEF AtRest
  <2>. QED  BY <1>1, <1>3, <1>8, <2>1 DEF PaidFor
<1>11. AtMount'
  BY <1>1, <1>5, <1>8, <1>9, <1>10 DEF AtMount
<1>. QED  BY <1>1, <1>7, <1>11, HeldMount

LEMMA HeldArmFails ==
  ASSUME Typed, Typed', Held, faults' <= 2, ArmFails, rec' = rec
  PROVE  Held'
<1>s. PICK s \in Slots : s = Winner(flash, cand)
  BY WinnerWins DEF ArmFails, Typed
<1>1. /\ pc = "pick" /\ pc' = "pick" /\ cand # {} /\ cand' = cand \ {s} /\ ~flash[s].confirmed
      /\ flash' \in {flash, Burned(flash, s)} /\ runs' = runs /\ faults' = faults + 1
  BY <1>s DEF ArmFails
<1>2. faults \in Nat /\ faults <= 1  BY <1>1 DEF Typed
<1>3. AtRest /\ RecordBacked /\ AtPick  BY <1>1, <1>2 DEF Held, AtRest
<1>4. /\ flash \in Flash /\ cand \in SUBSET Slots
      /\ \A t \in Slots : flash[t].attempts \in Nat
  BY SlotFacts DEF Typed
<1>5. s \in cand  BY <1>s, <1>1, <1>4, WinnerWins
<1>6. /\ \A t \in cand : /\ t \in Slots /\ Whole(t) /\ Marked(t)
                         /\ flash[t].confirmed \/ flash[t].attempts < MaxAttempts
      /\ \E t \in cand : Safe(t)
      /\ rec = None /\ faults # 0
  BY <1>2, <1>3 DEF AtPick, Typed
<1>7. flash[s].attempts < Highest  BY <1>1, <1>4, <1>5, <1>6, HighestBounds
<1>8. AtRest'
  <2>1. CASE flash' = flash
    BY <1>1, <1>2, <1>3, <2>1, RestSame DEF RecordBacked
  <2>2. CASE flash' = Burned(flash, s)
    BY <1>1, <1>3, <1>7, <2>2, RestBurned
  <2>. QED  BY <1>1, <2>1, <2>2
<1>9. \A t \in Slots : /\ Safe(t)' <=> Safe(t)
                       /\ Whole(t)' <=> Whole(t)
                       /\ Marked(t)' <=> Marked(t)
                       /\ flash'[t].confirmed = flash[t].confirmed
                       /\ t # s => flash'[t].attempts = flash[t].attempts
  <2>1. CASE flash' = flash
    BY <1>1, <1>2, <2>1, SameSlots
  <2>2. CASE flash' = Burned(flash, s)
    BY <1>4, <2>2, BurnedKeeps
  <2>. QED  BY <1>1, <2>1, <2>2
<1>10. ~Safe(s)  BY <1>1 DEF Safe
<1>11. AtPick'
  BY <1>1, <1>2, <1>6, <1>9, <1>10 DEF AtPick
<1>. QED  BY <1>1, <1>8, <1>11, HeldPick

LEMMA HeldMounts ==
  ASSUME Typed, Typed', Held, faults' <= 2, Mount, rec' = rec
  PROVE  Held'
<1>1. /\ pc = "mount" /\ pc' = "app" /\ running' = Winner(flash, cand)
      /\ flash' = flash /\ faults' = faults
      /\ runs' = [runs EXCEPT ![Winner(flash, cand)] =
                    @ + (IF flash[Winner(flash, cand)].confirmed THEN 0 ELSE 1)]
  BY DEF Mount
<1>2. AtRest /\ RecordBacked /\ AtMount  BY <1>1 DEF Held, AtRest
<1>3. Winner(flash, cand) \in cand /\ Winner(flash, cand) \in Slots
  BY <1>2, WinnerWins DEF AtMount, Typed
<1>s. PICK s \in Slots : s = Winner(flash, cand)
  BY <1>3
<1>4. /\ s \in cand /\ Whole(s) /\ Marked(s) /\ Good(s)
      /\ rec # None /\ faults <= 1 => s = rec.slot
      /\ faults = 0 => Unrivalled(s)
  BY <1>s, <1>2, <1>3 DEF AtMount, Good
<1>5. AtRest'  BY <1>s, <1>1, <1>2, <1>4, RestMount
<1>6. Whole(s)' /\ Marked(s)' /\ (Unrivalled(s)' <=> Unrivalled(s))
  BY <1>1, <1>4 DEF Whole, Marked, Unrivalled, Outranks
<1>7. pc' \notin ConfirmSteps /\ pc' \in Running
  BY <1>1 DEF ConfirmSteps, Running
<1>8. Runs'  BY <1>s, <1>1, <1>4 DEF Runs
<1>9. InApp'
  BY <1>s, <1>1, <1>4, <1>6, <1>7, <1>8 DEF InApp
<1>. QED  BY <1>5, <1>7, <1>9, HeldApp

-----------------------------------------------------------------------------
LEMMA HeldConfirmBegin ==
  ASSUME Typed, Typed', Held, faults' <= 2, ConfirmBegin, rec' = rec
  PROVE  Held'
<1>1. /\ pc = "app" /\ pc' = "raiseFloor" /\ Trial(flash, running) /\ running' = running
      /\ flash' = flash /\ runs' = runs /\ faults' = faults
  BY DEF ConfirmBegin
<1>2. AtRest /\ RecordBacked /\ InApp  BY <1>1 DEF Held, AtRest, Running
<1>3. AtRest'  BY <1>1, <1>2, RestSame DEF RecordBacked
<1>4. pc' \in Running  BY <1>1 DEF Running, ConfirmSteps
<1>5. InApp'
  BY <1>1, <1>2 DEF InApp, Runs, Whole, Marked, Trial, Unrivalled, Outranks
<1>. QED  BY <1>3, <1>4, <1>5, HeldApp

LEMMA HeldConfirms ==
  ASSUME Typed, Typed', TypeInv, Held, faults' <= 2, ConfirmStep \/ ConfirmFault, rec' = rec
  PROVE  Held'
<1>r. PICK r \in Slots : r = running
  BY DEF ConfirmStep, ConfirmFault, TypeInv, Running
<1>1. /\ pc \in ConfirmSteps /\ running' = running
      /\ pc' \in Running /\ (pc' \in ConfirmSteps => pc # "mark")
      /\ flash' \in {flash, ConfirmTorn(flash), ConfirmWrite(flash)}
      /\ runs' = runs /\ faults' \in {faults, faults + 1}
  BY DEF ConfirmStep, ConfirmFault, AfterConfirm, ConfirmSteps, Running
<1>2. faults \in Nat /\ faults' >= faults /\ faults <= 2  BY <1>1 DEF Typed
<1>3. AtRest /\ InApp  BY <1>1, <1>2 DEF Held, Running
<1>4. Whole(r) /\ Marked(r) /\ Trial(flash, r) /\ Runs
  BY <1>r, <1>1, <1>3 DEF InApp
<1>5. AtRest'  BY <1>1, <1>3, RestConfirm DEF InApp
<1>6. Whole(r)' /\ Marked(r)'  BY <1>1, <1>4, ConfirmKeeps
<1>7. pc' \in ConfirmSteps => Trial(flash', r)
  <2>1. /\ flash'[r].pending = flash[r].pending
        /\ flash'[r].confirmed = flash[r].confirmed \/ pc = "mark"
    BY <1>1, ConfirmSlot
  <2>. QED  BY <1>1, <1>4, <2>1 DEF Trial
<1>8. faults' = 0 => Unrivalled(r)'
  <2>1. faults' = 0 => Unrivalled(r)  BY <1>r, <1>1, <1>2, <1>3 DEF InApp
  <2>2. \A t \in Slots \ {r} : Outranks(t, r)' => Outranks(t, r)
    BY <1>r, <1>1, ConfirmKeeps
  <2>. QED  BY <2>1, <2>2 DEF Unrivalled
<1>9. Runs'  BY <1>1, <1>2, <1>4 DEF Runs
<1>10. InApp'
  BY <1>r, <1>1, <1>6, <1>7, <1>8, <1>9 DEF InApp
<1>. QED  BY <1>1, <1>5, <1>10, HeldApp

-----------------------------------------------------------------------------
(* An install begins from a kept slot, and into the other.                 *)
LEMMA HeldOffer ==
  ASSUME Typed, Typed', TypeInv, Held, faults' <= 2, NEW i \in Images,
         Offer(i) \/ RecoveryOffer(i), rec' = rec
  PROVE  Held'
<1>r. PICK r \in Slots : r = running
  <2>1. faults' = faults  BY DEF Offer, RecoveryOffer, Begin
  <2>2. pc = "app"  BY <2>1 DEF Held, Offer, RecoveryOffer
  <2>. QED  BY <2>2 DEF TypeInv, Running
<1>1. /\ pc' = "eraseBody" /\ running' = running /\ inst'.target = InstallTarget(flash, r)
      /\ flash' = flash /\ runs' = runs /\ faults' = faults
  BY <1>r DEF Offer, RecoveryOffer, Begin
<1>2. pc = "app" /\ ~Trial(flash, r)
  BY <1>r, <1>1, StubAssumption DEF Held, Offer, RecoveryOffer
<1>3. AtRest /\ RecordBacked /\ InApp  BY <1>1, <1>2 DEF Held, AtRest, Running
<1>4. AtRest'  BY <1>1, <1>3, RestSame DEF RecordBacked
<1>5. Safe(r)  BY <1>r, <1>2, <1>3 DEF InApp, Safe, Marked, Trial
<1>6. InstallTarget(flash, r) # r
  <2>1. InstallTarget(flash, r) \in Writable(r)
    BY TargetWritable DEF Typed
  <2>2. Slots \ {r} # {}  BY TwoSlots
  <2>. QED  BY <2>1, <2>2 DEF Writable
<1>7. Safe(r)' /\ (Unrivalled(r)' <=> Unrivalled(r))
  BY <1>1, <1>5 DEF Safe, Whole, Unrivalled, Outranks
<1>8. Runs'  BY <1>1, <1>3 DEF InApp, Runs
<1>9. InInstall'
  BY <1>r, <1>1, <1>3, <1>6, <1>7, <1>8 DEF InApp, InInstall
<1>. QED  BY <1>1, <1>4, <1>9, HeldInstall DEF InstallSteps

LEMMA HeldGoesOn ==
  ASSUME Typed, Typed', TypeInv, Ground, Ground', Held, faults' <= 2,
         InstallStep \/ StreamWrong, rec' = rec
  PROVE  Held'
<1>1. /\ pc \in InstallSteps \ {"flush"} /\ pc' \in InstallSteps \ {"eraseBody"}
      /\ running' = running /\ inst' = inst
      /\ flash' \in {flash, InstallTorn(flash), InstallWrite(flash)} /\ runs' = RunsIn(flash')
      /\ \/ faults' = faults /\ flash' \in {flash, InstallWrite(flash)}
         \/ faults' = faults + 1
  BY DEF InstallStep, StreamWrong, AfterInstall, InstallSteps
<1>2. faults \in Nat /\ faults' >= faults /\ faults <= 2  BY <1>1 DEF Typed
<1>3. AtRest /\ InInstall  BY <1>1, <1>2 DEF Held
<1>r. PICK r \in Slots : r = running  BY <1>3 DEF InInstall, Runs
<1>4. AtRest'  BY <1>1, <1>3, RestInstall
<1>5. Safe(r)' /\ inst.target # r
  BY <1>r, <1>1, <1>3, InstallKeeps
<1>6. Runs'  BY <1>1, <1>2, <1>3 DEF InInstall, Runs
<1>7. InInstall'
  BY <1>r, <1>1, <1>5, <1>6 DEF InInstall
<1>. QED  BY <1>1, <1>4, <1>7, HeldInstall

(* A retry erases the target again.  If no flash operation failed, it held *)
(* a release whose hash was wrong, and no mark.                            *)
LEMMA HeldRetry ==
  ASSUME Typed, Typed', TypeInv, Ground, Ground', Held, faults' <= 2,
         HashMismatch \/ InstallFails, rec' = rec
  PROVE  Held'
<1>1. /\ pc \in InstallSteps /\ Retry
      /\ flash' \in {flash, InstallTorn(flash), InstallWrite(flash)}
      /\ \/ faults' = faults /\ flash' = flash /\ pc = "counter"
         \/ faults' = faults + 1
  BY DEF HashMismatch, InstallFails, InstallSteps
<1>2. faults \in Nat /\ faults' >= faults /\ faults <= 2  BY <1>1 DEF Typed
<1>3. AtRest /\ InInstall  BY <1>1, <1>2 DEF Held
<1>r. PICK r \in Slots : r = running  BY <1>3 DEF InInstall, Runs
<1>x. PICK x \in Slots : x = inst.target  BY <1>1 DEF TypeInv, Install
<1>4. runs' = RunsIn(flash')
  <2>1. CASE HashMismatch
    BY <2>1 DEF HashMismatch, RunsIn, Typed
  <2>2. CASE InstallFails
    BY <2>2 DEF InstallFails
  <2>. QED  BY <2>1, <2>2
<1>5. AtRest'  BY <1>1, <1>3, <1>4, RestInstall
<1>6. CASE pc' = "boot"
  BY <1>5, <1>6, HeldIdle
<1>7. CASE pc' # "boot"
  <2>1. pc' = "eraseBody" /\ inst' = [inst EXCEPT !.attempt = @ + 1] /\ running' = running
        /\ inst \in Install
    BY <1>1, <1>7 DEF Retry, Reset, TypeInv
  <2>2. inst'.target = x  BY <1>x, <2>1 DEF Install
  <2>3. /\ Safe(r)' /\ x # r /\ \A t \in Slots : t = x \/ t = r
    BY <1>r, <1>x, <1>1, <1>3, InstallKeeps, Other
  <2>4. Runs'
    <3>1. running' = running  BY <2>1
    <3>2. Runs  BY <1>3 DEF InInstall
    <3>3. faults' <= 1 => faults <= 1  BY <1>2 DEF Typed
    <3>. QED  BY <3>1, <3>2, <3>3 DEF Runs
  <2>5. faults' = 0 => Unrivalled(r)'
    <3>. SUFFICES ASSUME faults' = 0  PROVE Unrivalled(r)'
      OBVIOUS
    <3>1. flash' = flash /\ pc = "counter"  BY <1>1, <1>2
    <3>2. ~flash[x].pending /\ ~flash[x].confirmed
      BY <1>x, <3>1 DEF Ground, Unarmed
    <3>3. ~Outranks(x, r)'  BY <3>1, <3>2 DEF Outranks, StubOk
    <3>. QED  BY <2>3, <3>3 DEF Unrivalled
  <2>6. InInstall'
    BY <1>r, <2>1, <2>2, <2>3, <2>4, <2>5 DEF InInstall
  <2>. QED  BY <1>5, <2>1, <2>6, HeldInstall DEF InstallSteps
<1>. QED  BY <1>6, <1>7

(* Power fails in the middle of a confirm or an install.                   *)
LEMMA HeldTorn ==
  ASSUME Typed, Typed', TypeInv, Ground, Ground', Held, faults' <= 2, TornCut, rec' = rec
  PROVE  Held'
<1>1. pc' = "boot" /\ faults' = faults + 1 /\ runs' = RunsIn(flash')
  BY DEF TornCut, Reset
<1>2. faults \in Nat /\ faults <= 1  BY <1>1 DEF Typed
<1>3. CASE pc \in ConfirmSteps
  <2>1. flash' = ConfirmTorn(flash)  BY <1>3 DEF TornCut
  <2>2. AtRest /\ InApp  BY <1>2, <1>3 DEF Held, Running
  <2>3. runs' = runs
    <3>1. \A t \in Slots : flash'[t].body = flash[t].body
      BY <1>3, <2>1, ConfirmSlot
    <3>. QED  BY <1>1, <3>1 DEF RunsIn, Typed
  <2>4. AtRest'  BY <1>1, <1>3, <2>1, <2>2, <2>3, RestConfirm DEF InApp
  <2>. QED  BY <1>1, <2>4, HeldIdle
<1>4. CASE pc \in InstallSteps
  <2>1. flash' = InstallTorn(flash)
    BY <1>4 DEF TornCut, ConfirmSteps, InstallSteps
  <2>2. AtRest /\ InInstall  BY <1>2, <1>4 DEF Held
  <2>3. AtRest'  BY <1>1, <1>4, <2>1, <2>2, RestInstall
  <2>. QED  BY <1>1, <2>3, HeldIdle
<1>. QED  BY <1>3, <1>4 DEF TornCut

LEMMA HeldDone ==
  ASSUME Typed, Held, faults' <= 2, InstallDone, rec' = rec
  PROVE  Held'
<1>1. /\ pc' = "boot" /\ flash' = flash /\ runs' = runs /\ faults' = faults
  BY DEF InstallDone, Reset
<1>2. AtRest /\ RecordBacked  BY <1>1 DEF Held, AtRest
<1>3. AtRest'  BY <1>1, <1>2, RestSame DEF RecordBacked
<1>. QED  BY <1>1, <1>3, HeldIdle

(* boot.py always has a candidate, for a kept slot is one.                 *)
LEMMA NeverNoSlot == ASSUME Held, faults <= 2  PROVE ~NoSlot
BY DEF Held, AtPick, NoSlot

LEMMA HeldStep ==
  ASSUME OneEpoch
  PROVE  StubInv /\ Ground /\ Held /\ [StubNext]_allVars => Held'
<1>. SUFFICES ASSUME StubInv, Ground, Held, [StubNext]_allVars  PROVE Held'
  OBVIOUS
<1>0. Typed /\ Typed' /\ Ground'
  BY AlwaysTyped, StubTypeStep, GroundStep DEF StubInv, Typed, StubTypeOK, TypeInv, TypeOK, Flash
<1>. SUFFICES ASSUME faults' <= 2  PROVE Held'
  BY DEF Held
<1>1. CASE StubBoot
  BY <1>0, <1>1, HeldSurvey, HeldTake, HeldBurn, HeldBurnFails, HeldJump, HeldBegin, HeldRefuse,
     HeldInstalls, HeldVerify, HeldInstallFails, HeldNoSlotLeft DEF StubBoot
<1>2. CASE StubTornCut \/ StubCut \/ FollowRecord \/ PySurvey
  BY <1>0, <1>2, HeldStubTorn, HeldCut, HeldFollow, HeldPySurvey
<1>3. CASE (PyBoot \/ Confirm \/ Update \/ TornCut) /\ UNCHANGED stubVars
  <2>0. TypeInv /\ rec' = rec  BY <1>3, OwnPlace DEF StubInv, stubVars
  <2>1. CASE PyBoot
    <3>1. NoSlot => FALSE
      <4>1. NoSlot => faults' = faults  BY DEF NoSlot
      <4>. QED  BY <4>1, NeverNoSlot
    <3>. QED  BY <1>0, <2>0, <2>1, <3>1, HeldChooseKept, HeldBurnAttempt, HeldArmFails, HeldMounts
              DEF PyBoot
  <2>2. CASE Confirm
    BY <1>0, <2>0, <2>2, HeldConfirmBegin, HeldConfirms DEF Confirm
  <2>3. CASE Update
    BY <1>0, <2>0, <2>3, HeldOffer, HeldGoesOn, HeldRetry, HeldDone DEF Update
  <2>4. CASE TornCut
    BY <1>0, <2>0, <2>4, HeldTorn
  <2>. QED  BY <1>3, <2>1, <2>2, <2>3, <2>4
<1>4. CASE UNCHANGED allVars
  BY <1>4
     DEF allVars, Held, AtRest, RecordBacked, InLoop, AtHandover, AtPick, AtMount, InApp,
         InInstall, Runs, Safe, Good, PaidFor, Marked, Whole, Unrivalled, Outranks, Trial, Carries,
         Trying
<1>. QED  BY <1>1, <1>2, <1>3, <1>4 DEF StubNext

LEMMA HeldAlways ==
  ASSUME OneEpoch
  PROVE  StubSpec => [](StubInv /\ RecordInv /\ Ground /\ Held)
<1>. DEFINE I == StubInv /\ RecordInv /\ Ground /\ Held
<1>1. StubInit => I  BY StubStart, GroundStart, HeldStart
<1>2. I /\ [StubNext]_allVars => I'
  BY StubTypeStep, RecordStep, GroundStep, HeldStep
<1>. HIDE DEF I
<1>3. StubSpec => []I  BY <1>1, <1>2, PTL DEF StubSpec
<1>. QED  BY <1>3 DEF I

(* A kept release to fall back to is never lost while at most two flash    *)
(* operations of a behaviour are torn or failed: some slot is confirmed,   *)
(* whole, and accepted by the stub's marks and by boot.py alike.  With one *)
(* signing epoch, for a retired key locks old slots out by design.         *)
THEOREM StubFallbackHeld ==
  ASSUME OneEpoch
  PROVE  StubSpec => [](faults <= 2 => StubFallback)
<1>1. ASSUME StubInv, Ground, Held, faults <= 2  PROVE StubFallback
  <2>1. PICK s \in Slots : Safe(s)  BY <1>1 DEF Held, AtRest
  <2>2. StubOk(flash, s) /\ Bootable(flash, s)
    BY <1>1, <2>1, KeptAccepted, AlwaysTyped
  <2>. QED  BY <2>1, <2>2 DEF StubFallback, Safe
<1>2. StubInv /\ RecordInv /\ Ground /\ Held => (faults <= 2 => StubFallback)
  BY <1>1
<1>. QED  BY <1>2, HeldAlways, PTL

(* A trial is paid for before it runs, by the stub or by boot.py and never *)
(* by neither: its runs stay within the larger of the two budgets and one  *)
(* more for each torn or failed flash operation, up to two of them.        *)
THEOREM StubTrialsPaid ==
  ASSUME OneEpoch
  PROVE  StubSpec => [](faults <= 2 => StubTrialBounded)
<1>1. ASSUME StubInv, Held, faults <= 2  PROVE StubTrialBounded
  <2>. SUFFICES ASSUME NEW s \in Slots, ~flash[s].confirmed
                PROVE  runs[s] <= Highest + faults
    BY DEF StubTrialBounded, Highest
  <2>0. /\ Typed /\ AtRest /\ Highest \in Nat  BY <1>1, AlwaysTyped, HighestBounds DEF Held
  <2>1. /\ runs[s] \in Nat /\ flash[s].attempts \in Nat /\ faults \in Nat
    BY <2>0, SlotFacts DEF Typed
  <2>. QED  BY <2>0, <2>1 DEF AtRest
<1>2. StubInv /\ RecordInv /\ Ground /\ Held => (faults <= 2 => StubTrialBounded)
  BY <1>1
<1>. QED  BY <1>2, HeldAlways, PTL

(* While at most one flash operation was torn or failed, an app that runs  *)
(* beside an install record runs from the slot the record names, on the    *)
(* firmware it was built with.                                             *)
THEOREM PairRecorded ==
  ASSUME OneEpoch
  PROVE  StubSpec => [](faults <= 1 => RecordedPair)
<1>1. ASSUME StubInv, RecordInv, Held, faults <= 1, pc = "app", rec # None
      PROVE  running = rec.slot /\ area = Carries(running)
  <2>0. faults \in Nat  BY <1>1, AlwaysTyped DEF Typed
  <2>1. AtRest /\ InApp  BY <1>1, <2>0 DEF Held, Running
  <2>2. running = rec.slot  BY <1>1, <2>1 DEF InApp, Runs
  <2>3. area = rec.firmware  BY <1>1 DEF RecordInv, RecordHonest
  <2>4. rec.firmware = Carries(rec.slot)  BY <1>1, <2>1 DEF AtRest, RecordBacked
  <2>. QED  BY <2>2, <2>3, <2>4
<1>2. StubInv /\ RecordInv /\ Ground /\ Held => (faults <= 1 => RecordedPair)
  BY <1>1 DEF RecordedPair
<1>. QED  BY <1>2, HeldAlways, PTL

-----------------------------------------------------------------------------
(* Stub steps are no installer's steps, and no step leads from one to the  *)
(* installer's.                                                            *)
LEMMA StubElsewhere ==
  ASSUME StubBoot \/ StubTornCut \/ StubCut \/ FollowRecord \/ PySurvey
  PROVE  /\ pc' \in {"boot", "pick", "mount"} \cup StubSteps
         /\ pc' \notin Carrying \cup {"flush"}
<1>1. pc' \in {"boot", "pick", "mount"} \cup StubSteps
  BY DEF StubBoot, StubTornCut, StubCut, FollowRecord, PySurvey, StubSurvey, StubTake, StubBurn,
         StubBurnFails, StubJump, StubBegin, StubRefuse, StubInstall, StubVerify,
         StubInstallFails, StubNoSlot, StubHalt, HandOver, StubTryNext, PowerCut, Reset,
         StubSteps, StubInstallSteps
<1>. QED  BY <1>1 DEF Carrying, StubSteps, StubInstallSteps

(* What the stub and boot.py write: the marks that pay for trials.         *)
Booting ==
  \/ StubBoot \/ StubTornCut \/ StubCut \/ FollowRecord \/ PySurvey
  \/ PyBoot \/ ConfirmBegin

LEMMA BootWrites ==
  ASSUME Typed, Booting
  PROVE  /\ kept' = kept /\ installs' = installs /\ faults' \in {faults, faults + 1}
         /\ pc' \notin InstallSteps \cup {"raiseEpoch", "mark"}
         /\ flash' = flash \/ \E s \in Slots : flash' = Burned(flash, s)
<1>1. CASE StubBoot \/ StubTornCut \/ StubCut \/ FollowRecord \/ PySurvey
  <2>1. kept' = kept /\ installs' = installs /\ faults' \in {faults, faults + 1}
    BY <1>1
       DEF StubBoot, StubSurvey, StubTake, StubBurn, StubBurnFails, StubJump, StubBegin,
           StubRefuse, StubInstall, StubVerify, StubInstallFails, StubNoSlot, StubHalt,
           StubTornCut, StubCut, PowerCut, FollowRecord, PySurvey
  <2>2. pc' \notin InstallSteps \cup {"raiseEpoch", "mark"}
    BY <1>1, StubElsewhere, StepNames DEF InstallSteps, ConfirmSteps
  <2>3. flash' = flash \/ \E s \in Slots : flash' = Burned(flash, s)
    <3>1. CASE StubBurn \/ StubBurnFails
      <4>1. Newest(flash, cand) \in Slots
        BY <3>1, NewestWins DEF StubBurn, StubBurnFails, Typed
      <4>. QED  BY <3>1, <4>1 DEF StubBurn, StubBurnFails
    <3>. QED
      BY <1>1, <3>1
         DEF StubBoot, StubSurvey, StubTake, StubJump, StubBegin, StubRefuse, StubInstall,
             StubVerify, StubInstallFails, StubNoSlot, StubHalt, StubTornCut, StubCut, PowerCut,
             FollowRecord, PySurvey
  <2>. QED  BY <2>1, <2>2, <2>3
<1>2. CASE PyBoot \/ ConfirmBegin
  <2>1. /\ kept' = kept /\ installs' = installs /\ faults' \in {faults, faults + 1}
        /\ pc' \notin InstallSteps \cup {"raiseEpoch", "mark"}
    BY <1>2 DEF PyBoot, ChooseKept, BurnAttempt, ArmFails, Mount, NoSlot, ConfirmBegin,
                InstallSteps
  <2>2. flash' = flash \/ \E s \in Slots : flash' = Burned(flash, s)
    <3>1. CASE BurnAttempt \/ ArmFails
      <4>1. Winner(flash, cand) \in Slots
        BY <3>1, WinnerWins DEF BurnAttempt, ArmFails, Typed
      <4>. QED  BY <3>1, <4>1 DEF BurnAttempt, ArmFails
    <3>. QED  BY <1>2, <3>1 DEF PyBoot, ChooseKept, Mount, NoSlot, ConfirmBegin
  <2>. QED  BY <2>1, <2>2
<1>. QED  BY <1>1, <1>2 DEF Booting

(* What is not a boot is a step of confirm() or of the installer.          *)
LEMMA NotBooting ==
  ASSUME StubInv, StubNext
  PROVE  \/ Booting
         \/ /\ TypeInv
            /\ \/ ConfirmStep \/ ConfirmFault
               \/ \E i \in Images : Offer(i) \/ RecoveryOffer(i)
               \/ InstallStep \/ StreamWrong \/ HashMismatch \/ InstallDone \/ InstallFails
               \/ TornCut
<1>1. PyBoot \/ Confirm \/ Update \/ TornCut => TypeInv
  BY OwnPlace DEF StubInv
<1>. QED  BY <1>1 DEF StubNext, Booting, Confirm, Update

LEMMA StubCarriedStep == StubInv /\ CarriedInv /\ [StubNext]_allVars => CarriedInv'
<1>. SUFFICES ASSUME StubInv, CarriedInv, [StubNext]_allVars  PROVE CarriedInv'
  OBVIOUS
<1>1. CASE StubBoot \/ StubTornCut \/ StubCut \/ FollowRecord \/ PySurvey
  BY <1>1, StubElsewhere DEF CarriedInv, Carrying
<1>2. CASE PyBoot \/ Confirm \/ Update \/ TornCut
  BY <1>2, OwnPlace, CarriedStep DEF StubInv
<1>3. CASE UNCHANGED allVars
  BY <1>3 DEF allVars, CarriedInv
<1>. QED  BY <1>1, <1>2, <1>3 DEF StubNext

(* On a stub board too, and whatever fails: once an image streams in, the  *)
(* floors the erase took away are back on flash.                           *)
THEOREM StubFloorsRestored == StubSpec => []FloorsCarried
<1>1. StubInit => CarriedInv  BY DEF StubInit, Init, CarriedInv, Carrying
<1>2. StubInv /\ CarriedInv => FloorsCarried
  <2>. SUFFICES ASSUME StubInv, CarriedInv,
                       pc \in {"stream", "trailer", "counter", "arm", "flush"}
                PROVE  FloorsCarried
    BY DEF FloorsCarried
  <2>1. TypeInv  BY DEF StubInv, StubSteps, StubInstallSteps
  <2>. QED  BY <2>1, CarriedCovers
<1>. QED  BY <1>1, <1>2, StubCarriedStep, StubStart, StubTypeStep, PTL DEF StubSpec

(* A camera on a stub board always has something to boot while at most two *)
(* flash operations are torn or failed: boot.py never hands over to        *)
(* recovery, and NoSlot never happens.                                     *)
THEOREM NeverStranded ==
  ASSUME OneEpoch
  PROVE  StubSpec => [](faults <= 2 => pc # "recovery")
<1>1. StubInv /\ RecordInv /\ Ground /\ Held => (faults <= 2 => pc # "recovery")
  BY DEF Held
<1>. QED  BY <1>1, HeldAlways, PTL

-----------------------------------------------------------------------------
(* As long as no firmware install of the stub's own is reported as failed, *)
(* the slot confirmed last is the newest kept one, and what the camera     *)
(* boots is that slot or a trial newer than it; an install begins from it, *)
(* and into the other slot.  Cuts do not disturb this, nor do the faults   *)
(* of confirm(), of the installer, or of the marks that pay for trials;    *)
(* but one install that fails sends the stub on to an older kept slot,     *)
(* which takes an offer and installs over the newest.                      *)
Leads(s) == s = kept \/ (Trial(flash, s) /\ StubNewer(flash, s, kept))
Settled(s) == flash[s].confirmed \/ runs[s] < flash[s].attempts

KeptLeads ==
  /\ Safe(kept)
  /\ \A s \in Slots \ {kept} : flash[s].confirmed => StubNewer(flash, kept, s)
  /\ \A s \in Slots : ~flash[s].confirmed => runs[s] <= flash[s].attempts

KeptInLoop ==
  /\ kept \in cand
  /\ \A s \in cand \ (IF pc = "stubPick" THEN {} ELSE {pick}) : StubOk(flash, s)
  /\ pc \in Picked => pick \in Slots /\ Leads(pick) /\ Settled(pick)
  /\ pc \in {"stubPick", "stubCheck"} => rec = seen

KeptAtPick ==
  /\ kept \in cand
  /\ \A s \in cand : /\ Whole(s) /\ Marked(s)
                     /\ flash[s].confirmed \/ flash[s].attempts < MaxAttempts

KeptAtMount ==
  \E s \in Slots : s = Winner(flash, cand) /\ Whole(s) /\ Leads(s) /\ Settled(s)

KeptInApp ==
  /\ Whole(running) /\ Leads(running)
  /\ pc \in ConfirmSteps => Trial(flash, running)

Straight ==
  /\ KeptLeads
  /\ pc \in Trying => KeptInLoop
  /\ pc = "handover" => rec # None /\ Leads(rec.slot) /\ Settled(rec.slot)
  /\ pc = "pick" => KeptAtPick
  /\ pc = "mount" => KeptAtMount
  /\ pc \in Running => KeptInApp
  /\ pc \in InstallSteps => running = kept /\ inst.target # kept
  /\ pc # "recovery"

LEMMA StraightStart == StubInit => Straight
<1>. SUFFICES ASSUME StubInit  PROVE Straight
  OBVIOUS
<1>1. pc = "boot" /\ kept = "A" /\ kept \in Slots
  BY TwoSlots DEF StubInit, Init
<1>2. flash = [s \in Slots |-> FactorySlot(IF s = "B" THEN 1 ELSE 2)]
  BY StubAssumption DEF StubInit, Init
<1>3. Safe(kept)
  <2>1. flash[kept] = FactorySlot(2)  BY <1>1, <1>2
  <2>. QED  BY <2>1, LifecycleAssumption DEF FactorySlot, Safe, Whole
<1>4. \A s \in Slots \ {kept} : StubNewer(flash, kept, s)
  <2>1. \A s \in Slots \ {kept} : s = "B"  BY <1>1, TwoSlots
  <2>2. "B" \in Slots => flash["B"].counter = 1  BY <1>2 DEF FactorySlot
  <2>3. flash[kept].counter = 2  BY <1>1, <1>2 DEF FactorySlot
  <2>. QED  BY <2>1, <2>2, <2>3 DEF StubNewer
<1>5. \A s \in Slots : flash[s].confirmed  BY <1>2 DEF FactorySlot
<1>. QED  BY <1>1, <1>3, <1>4, <1>5
          DEF Straight, KeptLeads, Trying, Picked, StubInstallSteps, Running, ConfirmSteps,
              InstallSteps

(* While the two boot programs run, the slots change by marks only.        *)
LEMMA MarksOnly ==
  ASSUME Typed, Typed', KeptLeads, kept' = kept, runs' = runs,
         flash' = flash \/ \E s \in Slots : flash' = Burned(flash, s)
  PROVE  /\ KeptLeads' /\ kept \in Slots
         /\ \A t \in Slots : /\ Leads(t)' <=> Leads(t)
                             /\ Settled(t) => Settled(t)'
                             /\ Whole(t)' <=> Whole(t)
                             /\ Marked(t)' <=> Marked(t)
                             /\ Trial(flash', t) <=> Trial(flash, t)
                             /\ flash'[t].confirmed = flash[t].confirmed
                             /\ flash'[t].counter = flash[t].counter
<1>1. \A t \in Slots :
        /\ flash'[t].body = flash[t].body /\ flash'[t].trailer = flash[t].trailer
        /\ flash'[t].pending = flash[t].pending /\ flash'[t].confirmed = flash[t].confirmed
        /\ flash'[t].counter = flash[t].counter
        /\ flash'[t].attempts >= flash[t].attempts
        /\ flash[t].attempts \in Nat /\ flash'[t].attempts \in Nat /\ runs[t] \in Nat
  BY BurnedSlot, SlotFacts DEF Typed
<1>2. PICK k \in Slots : k = kept  BY DEF Typed
<1>3. \A t \in Slots : /\ Leads(t)' <=> Leads(t)
                       /\ Whole(t)' <=> Whole(t)
                       /\ Marked(t)' <=> Marked(t)
                       /\ Trial(flash', t) <=> Trial(flash, t)
  BY <1>1, <1>2 DEF Leads, Trial, StubNewer, Whole, Marked
<1>4. \A t \in Slots : Settled(t) => Settled(t)'  BY <1>1 DEF Settled
<1>5. Safe(kept)'  BY <1>1, <1>2, <1>3 DEF KeptLeads, Safe
<1>6. \A s \in Slots \ {kept} : flash'[s].confirmed => StubNewer(flash', kept, s)
  BY <1>1, <1>2 DEF KeptLeads, StubNewer
<1>7. \A s \in Slots : ~flash'[s].confirmed => runs'[s] <= flash'[s].attempts
  BY <1>1 DEF KeptLeads
<1>. QED  BY <1>1, <1>2, <1>3, <1>4, <1>5, <1>6, <1>7 DEF KeptLeads

(* Wherever the camera goes from a step, the part of Straight it must show. *)
LEMMA StraightIdle ==
  ASSUME KeptLeads', pc' \in {"boot", "halt"}
  PROVE  Straight'
BY DEF Straight, Trying, Picked, StubInstallSteps, Running, ConfirmSteps, InstallSteps

LEMMA StraightLoop ==
  ASSUME KeptLeads', KeptInLoop', pc' \in Trying
  PROVE  Straight'
BY DEF Straight, Trying, Picked, StubInstallSteps, Running, ConfirmSteps, InstallSteps

LEMMA StraightHandover ==
  ASSUME KeptLeads', pc' = "handover", rec' # None, Leads(rec.slot)', Settled(rec.slot)'
  PROVE  Straight'
BY DEF Straight, Trying, Picked, StubInstallSteps, Running, ConfirmSteps, InstallSteps

LEMMA StraightPick ==
  ASSUME KeptLeads', KeptAtPick', pc' = "pick"
  PROVE  Straight'
BY DEF Straight, Trying, Picked, StubInstallSteps, Running, ConfirmSteps, InstallSteps

LEMMA StraightMount ==
  ASSUME KeptLeads', KeptAtMount', pc' = "mount"
  PROVE  Straight'
BY DEF Straight, Trying, Picked, StubInstallSteps, Running, ConfirmSteps, InstallSteps

LEMMA StraightApp ==
  ASSUME KeptLeads', KeptInApp', pc' \in Running
  PROVE  Straight'
BY DEF Straight, Trying, Picked, StubInstallSteps, Running, ConfirmSteps, InstallSteps

LEMMA StraightInstall ==
  ASSUME KeptLeads', pc' \in InstallSteps, running' = kept', inst'.target # kept'
  PROVE  Straight'
BY DEF Straight, Trying, Picked, StubInstallSteps, Running, ConfirmSteps, InstallSteps

-----------------------------------------------------------------------------
(* The newest of the stub's candidates, the kept slot among them, leads.   *)
LEMMA NewestLeads ==
  ASSUME Typed, KeptLeads, KeptInLoop, pc = "stubPick", NEW s, s = Newest(flash, cand)
  PROVE  s \in cand /\ s \in Slots /\ Leads(s) /\ StubOk(flash, s)
<1>1. s \in cand /\ s \in Slots /\ \A t \in cand \ {s} : StubNewer(flash, s, t)
  BY NewestWins DEF Typed, KeptInLoop
<1>2. StubOk(flash, s)  BY <1>1 DEF KeptInLoop
<1>3. CASE s = kept  BY <1>1, <1>2, <1>3 DEF Leads
<1>4. CASE s # kept
  <2>1. PICK k \in Slots : k = kept  BY DEF Typed
  <2>2. StubNewer(flash, s, k)  BY <1>1, <1>4, <2>1 DEF KeptInLoop
  <2>3. ~flash[s].confirmed
    BY <1>1, <1>4, <2>1, <2>2, NewerOrder DEF KeptLeads, Typed
  <2>. QED  BY <1>1, <1>2, <2>1, <2>2, <2>3 DEF Leads, Trial, StubOk
<1>. QED  BY <1>3, <1>4

(* ... and so does boot.py's choice.                                       *)
LEMMA WinnerLeads ==
  ASSUME Typed, KeptLeads, KeptAtPick, NEW s, s = Winner(flash, cand)
  PROVE  s \in cand /\ s \in Slots /\ Leads(s) /\ (flash[s].confirmed => s = kept)
<1>1. s \in cand /\ s \in Slots /\ \A t \in cand \ {s} : Preferred(flash, s, t)
  BY WinnerWins DEF Typed, KeptAtPick
<1>2. CASE s = kept  BY <1>1, <1>2 DEF Leads
<1>3. CASE s # kept
  <2>1. PICK k \in Slots : k = kept /\ flash[k].confirmed
    BY DEF Typed, KeptLeads, Safe
  <2>2. Preferred(flash, s, k)  BY <1>1, <1>3, <2>1 DEF KeptAtPick
  <2>3. /\ flash[s].counter \in Int /\ flash[k].counter \in Int
        /\ flash[s].confirmed \in BOOLEAN
    BY <1>1, <2>1, SlotFacts DEF Typed
  <2>4. StubNewer(flash, s, k)
    BY <2>1, <2>2, <2>3 DEF Preferred, StubNewer
  <2>5. ~flash[s].confirmed
    BY <1>1, <1>3, <2>1, <2>4, NewerOrder DEF KeptLeads, Typed
  <2>6. Marked(s)  BY <1>1 DEF KeptAtPick
  <2>. QED  BY <1>1, <2>1, <2>4, <2>5, <2>6 DEF Leads, Trial, Marked
<1>. QED  BY <1>2, <1>3

LEMMA StraightSurvey ==
  ASSUME OneEpoch, Typed, Typed', Ground, Straight, StubSurvey
  PROVE  Straight'
<1>1. /\ pc' = "stubPick" /\ cand' = {s \in Slots : StubOk(flash, s)}
      /\ seen' = rec /\ rec' = rec /\ flash' = flash /\ kept' = kept /\ runs' = runs
  BY DEF StubSurvey
<1>2. KeptLeads' /\ kept \in Slots  BY <1>1, MarksOnly DEF Straight
<1>3. StubOk(flash, kept)
  <2>1. PICK k \in Slots : k = kept  BY <1>2
  <2>. QED  BY <2>1, KeptAccepted DEF Straight, KeptLeads
<1>4. KeptInLoop'
  BY <1>1, <1>2, <1>3 DEF KeptInLoop, Picked, StubInstallSteps
<1>. QED  BY <1>1, <1>2, <1>4, StraightLoop DEF Trying

LEMMA StraightTake ==
  ASSUME Typed, Typed', Straight, StubTake \/ StubBurn
  PROVE  Straight'
<1>s. PICK s : s = Newest(flash, cand)  OBVIOUS
<1>1. /\ pc = "stubPick" /\ pc' = "stubCheck" /\ pick' = s /\ cand' = cand
      /\ seen' = seen /\ rec' = rec /\ kept' = kept /\ runs' = runs
      /\ \/ flash' = flash /\ ~Trial(flash, s)
         \/ flash' = Burned(flash, s) /\ Trial(flash, s)
  BY <1>s DEF StubTake, StubBurn
<1>2. KeptLeads /\ KeptInLoop  BY <1>1 DEF Straight, Trying
<1>3. s \in cand /\ s \in Slots /\ Leads(s) /\ StubOk(flash, s)
  BY <1>s, <1>1, <1>2, NewestLeads
<1>4. /\ KeptLeads'
      /\ Leads(s)'
      /\ flash'[s].confirmed = flash[s].confirmed
  BY <1>1, <1>2, <1>3, MarksOnly
<1>5. \A t \in cand \ {s} : StubOk(flash', t)
  <2>1. \A t \in cand : StubOk(flash, t) /\ t \in Slots
    BY <1>1, <1>2 DEF KeptInLoop, Typed
  <2>. QED  BY <1>1, <1>3, <2>1, BurnedKeeps
<1>6. Settled(s)'
  <2>1. CASE flash' = flash /\ ~Trial(flash, s)
    <3>1. s = kept  BY <1>3, <2>1 DEF Leads
    <3>. QED  BY <1>4, <1>2, <3>1 DEF Settled, KeptLeads, Safe
  <2>2. CASE flash' = Burned(flash, s) /\ Trial(flash, s)
    <3>1. runs[s] <= flash[s].attempts  BY <1>2, <1>3, <2>2 DEF KeptLeads, Trial
    <3>2. flash'[s].attempts = flash[s].attempts + 1  BY <1>3, <2>2, BurnedSlot DEF Typed
    <3>3. runs[s] \in Nat /\ flash[s].attempts \in Nat  BY <1>3, SlotFacts DEF Typed
    <3>. QED  BY <1>1, <3>1, <3>2, <3>3 DEF Settled
  <2>. QED  BY <1>1, <2>1, <2>2
<1>7. KeptInLoop'
  BY <1>1, <1>2, <1>3, <1>4, <1>5, <1>6 DEF KeptInLoop
<1>. QED  BY <1>1, <1>4, <1>7, StraightLoop DEF Trying, Picked

(* A mark that fails drops a trial, never the kept slot.                   *)
LEMMA StraightBurnFails ==
  ASSUME Typed, Typed', Straight, StubBurnFails
  PROVE  Straight'
<1>s. PICK s : s = Newest(flash, cand)  OBVIOUS
<1>1. /\ pc = "stubPick" /\ pc' = "stubPick" /\ cand' = cand \ {s} /\ Trial(flash, s)
      /\ seen' = seen /\ rec' = rec /\ kept' = kept /\ runs' = runs
      /\ flash' \in {flash, Burned(flash, s)}
  BY <1>s DEF StubBurnFails
<1>2. KeptLeads /\ KeptInLoop  BY <1>1 DEF Straight, Trying
<1>3. s \in cand /\ s \in Slots  BY <1>s, <1>1, <1>2, NewestLeads
<1>4. KeptLeads'  BY <1>1, <1>2, <1>3, MarksOnly
<1>5. s # kept  BY <1>1, <1>2 DEF KeptLeads, Safe, Trial
<1>6. \A t \in cand \ {s} : StubOk(flash', t)
  <2>1. \A t \in cand : StubOk(flash, t) /\ t \in Slots
    BY <1>1, <1>2 DEF KeptInLoop, Typed
  <2>. QED  BY <1>1, <1>3, <2>1, BurnedKeeps
<1>7. KeptInLoop'
  BY <1>1, <1>2, <1>5, <1>6 DEF KeptInLoop, Picked, StubInstallSteps
<1>. QED  BY <1>1, <1>4, <1>7, StraightLoop DEF Trying

(* Into the firmware area, or on to the next slot: the kept one is whole,  *)
(* so it is never the one refused.                                         *)
LEMMA StraightPicked ==
  ASSUME Typed, Typed', Straight, StubBegin \/ StubInstall \/ StubRefuse
  PROVE  Straight'
<1>1. /\ pc \in Picked /\ kept' = kept /\ runs' = runs /\ flash' = flash
      /\ \/ pc' \in StubInstallSteps /\ cand' = cand /\ pick' = pick
         \/ /\ pc = "stubCheck" /\ pc' = "stubPick" /\ cand' = cand \ {pick}
            /\ flash[pick].body # flash[pick].trailer /\ seen' = seen /\ rec' = rec
  BY DEF StubBegin, StubInstall, StubRefuse, StubTryNext, Picked, StubInstallSteps
<1>2. KeptLeads /\ KeptInLoop  BY <1>1 DEF Straight, Trying
<1>3. pick \in Slots /\ Leads(pick) /\ Settled(pick) /\ pc # "stubPick"
  BY <1>1, <1>2 DEF KeptInLoop, Picked, StubInstallSteps
<1>4. /\ KeptLeads'
      /\ \A t \in Slots : (Leads(t)' <=> Leads(t)) /\ (Settled(t) => Settled(t)')
  BY <1>1, <1>2, MarksOnly
<1>5. CASE pc' \in StubInstallSteps /\ cand' = cand /\ pick' = pick
  <2>1. pc' \in Picked /\ pc' \in Trying /\ pc' \notin {"stubPick", "stubCheck"}
    BY <1>5 DEF Picked, Trying, StubInstallSteps
  <2>2. Leads(pick)' /\ Settled(pick)'
    <3>1. PICK p \in Slots : p = pick  BY <1>3
    <3>. QED  BY <1>3, <1>4, <1>5, <3>1
  <2>3. KeptInLoop'
    BY <1>1, <1>2, <1>3, <1>5, <2>1, <2>2 DEF KeptInLoop
  <2>. QED  BY <1>4, <2>1, <2>3, StraightLoop
<1>6. CASE pc' = "stubPick" /\ cand' = cand \ {pick}
  <2>1. pick # kept  BY <1>1, <1>2, <1>6 DEF KeptLeads, Safe, Whole, StubInstallSteps
  <2>2. KeptInLoop'
    BY <1>1, <1>2, <1>3, <1>6, <2>1 DEF KeptInLoop, Picked, StubInstallSteps
  <2>. QED  BY <1>4, <1>6, <2>2, StraightLoop DEF Trying
<1>. QED  BY <1>1, <1>5, <1>6

(* The record handed over names the slot picked.                           *)
LEMMA StraightHands ==
  ASSUME Typed, Typed', Straight, StubJump \/ StubVerify \/ StubNoSlot \/ StubHalt
  PROVE  Straight'
<1>1. /\ pc \in Trying /\ kept' = kept /\ runs' = runs /\ flash' = flash /\ rec' = rec
      /\ pc \in Picked \/ cand = {}
  BY DEF StubJump, StubVerify, StubNoSlot, StubHalt, Trying, Picked, StubInstallSteps
<1>2. KeptLeads /\ KeptInLoop  BY <1>1 DEF Straight
<1>3. StubJump \/ StubVerify  BY <1>2 DEF StubNoSlot, StubHalt, KeptInLoop
<1>4. pc' = "handover" /\ rec # None /\ rec.slot = pick
  BY <1>2, <1>3 DEF StubJump, StubVerify, InPlace, Recorded, HandOver, KeptInLoop
<1>5. pick \in Slots /\ Leads(pick) /\ Settled(pick)
  BY <1>1, <1>2 DEF KeptInLoop
<1>6. PICK p \in Slots : p = pick  BY <1>5
<1>7. KeptLeads' /\ Leads(p)' /\ Settled(p)'
  BY <1>1, <1>2, <1>5, <1>6, MarksOnly
<1>. QED  BY <1>1, <1>4, <1>6, <1>7, StraightHandover

-----------------------------------------------------------------------------
LEMMA StraightFollow ==
  ASSUME OneEpoch, Typed, Typed', Ground, Straight, FollowRecord
  PROVE  Straight'
<1>s. PICK s \in Slots : s = rec.slot
  BY DEF FollowRecord, Follows, Typed, Record
<1>1. /\ pc = "handover" /\ pc' = "mount" /\ Authentic(flash, s)
      /\ cand' = {s} /\ kept' = kept /\ flash' = flash /\ runs' = runs
  BY <1>s DEF FollowRecord, Follows
<1>2. Leads(s) /\ Settled(s) /\ Whole(s)
  BY <1>s, <1>1, KeptAccepted DEF Straight
<1>3. KeptLeads' /\ Leads(s)' /\ Settled(s)' /\ Whole(s)'
  BY <1>1, <1>2, MarksOnly DEF Straight
<1>4. Winner(flash', cand') = s  BY <1>1, WinnerWins DEF Typed
<1>5. KeptAtMount'  BY <1>3, <1>4 DEF KeptAtMount
<1>. QED  BY <1>1, <1>3, <1>5, StraightMount

LEMMA StraightPySurvey ==
  ASSUME OneEpoch, Typed, Typed', Ground, Straight, PySurvey
  PROVE  Straight'
<1>1. /\ pc' = "pick" /\ cand' = {s \in Slots : Bootable(flash, s)}
      /\ kept' = kept /\ flash' = flash /\ runs' = runs
  BY DEF PySurvey
<1>2. KeptLeads' /\ kept \in Slots  BY <1>1, MarksOnly DEF Straight
<1>3. Bootable(flash, kept)
  <2>1. PICK k \in Slots : k = kept  BY <1>2
  <2>. QED  BY <2>1, KeptAccepted DEF Straight, KeptLeads
<1>4. \A s \in cand' : /\ Whole(s) /\ Marked(s)
                       /\ flash[s].confirmed \/ flash[s].attempts < MaxAttempts
  BY <1>1, KeptAccepted DEF Bootable, MayTry, Marked
<1>5. KeptAtPick'
  BY <1>1, <1>2, <1>3, <1>4 DEF KeptAtPick, Whole, Marked
<1>. QED  BY <1>1, <1>2, <1>5, StraightPick

LEMMA StraightChooses ==
  ASSUME Typed, Typed', Straight, ChooseKept \/ BurnAttempt
  PROVE  Straight'
<1>s. PICK s : s = Winner(flash, cand)  OBVIOUS
<1>1. /\ pc = "pick" /\ pc' = "mount" /\ cand # {} /\ cand' = cand
      /\ kept' = kept /\ runs' = runs
      /\ \/ flash' = flash /\ flash[s].confirmed
         \/ flash' = Burned(flash, s) /\ ~flash[s].confirmed
  BY <1>s DEF ChooseKept, BurnAttempt
<1>2. KeptLeads /\ KeptAtPick  BY <1>1 DEF Straight
<1>3. s \in cand /\ s \in Slots /\ Leads(s) /\ Whole(s)
  BY <1>s, <1>2, WinnerLeads DEF KeptAtPick
<1>4. /\ KeptLeads' /\ Leads(s)' /\ Whole(s)'
      /\ \A t \in Slots : /\ flash'[t].confirmed = flash[t].confirmed
                          /\ flash'[t].counter = flash[t].counter
  BY <1>1, <1>2, <1>3, MarksOnly
<1>5. Winner(flash', cand') = s
  BY <1>s, <1>1, <1>4, WinnerStays DEF Typed
<1>6. Settled(s)'
  <2>1. CASE flash[s].confirmed  BY <1>3, <1>4, <2>1 DEF Settled
  <2>2. CASE flash' = Burned(flash, s) /\ ~flash[s].confirmed
    <3>1. runs[s] <= flash[s].attempts  BY <1>2, <1>3, <2>2 DEF KeptLeads
    <3>2. flash'[s].attempts = flash[s].attempts + 1  BY <1>3, <2>2, BurnedSlot DEF Typed
    <3>3. runs[s] \in Nat /\ flash[s].attempts \in Nat  BY <1>3, SlotFacts DEF Typed
    <3>. QED  BY <1>1, <3>1, <3>2, <3>3 DEF Settled
  <2>. QED  BY <1>1, <2>1, <2>2
<1>7. KeptAtMount'  BY <1>3, <1>4, <1>5, <1>6 DEF KeptAtMount
<1>. QED  BY <1>1, <1>4, <1>7, StraightMount

LEMMA StraightArmFails ==
  ASSUME Typed, Typed', Straight, ArmFails
  PROVE  Straight'
<1>s. PICK s : s = Winner(flash, cand)  OBVIOUS
<1>1. /\ pc = "pick" /\ pc' = "pick" /\ cand # {} /\ cand' = cand \ {s}
      /\ kept' = kept /\ runs' = runs /\ ~flash[s].confirmed
      /\ flash' \in {flash, Burned(flash, s)}
  BY <1>s DEF ArmFails
<1>2. KeptLeads /\ KeptAtPick  BY <1>1 DEF Straight
<1>3. s \in cand /\ s \in Slots  BY <1>s, <1>2, WinnerLeads
<1>4. /\ KeptLeads'
      /\ \A t \in Slots : /\ Whole(t)' <=> Whole(t)
                          /\ Marked(t)' <=> Marked(t)
                          /\ flash'[t].confirmed = flash[t].confirmed
  BY <1>1, <1>2, <1>3, MarksOnly
<1>5. s # kept  BY <1>1, <1>2 DEF KeptLeads, Safe
<1>6. \A t \in Slots \ {s} : flash'[t].attempts = flash[t].attempts
  <2>1. \A t \in Slots \ {s} : flash[t].attempts + 0 = flash[t].attempts
    BY SlotFacts DEF Typed
  <2>. QED  BY <1>1, <1>3, <2>1, BurnedSlot DEF Typed
<1>7. KeptAtPick'
  BY <1>1, <1>2, <1>4, <1>5, <1>6 DEF KeptAtPick, Typed
<1>. QED  BY <1>1, <1>4, <1>7, StraightPick

LEMMA StraightMounts ==
  ASSUME Typed, Typed', Straight, Mount
  PROVE  Straight'
<1>1. /\ pc = "mount" /\ pc' = "app" /\ running' = Winner(flash, cand)
      /\ flash' = flash /\ kept' = kept
      /\ runs' = [runs EXCEPT ![Winner(flash, cand)] =
                    @ + (IF flash[Winner(flash, cand)].confirmed THEN 0 ELSE 1)]
  BY DEF Mount
<1>2. KeptLeads /\ kept \in Slots  BY DEF Straight, Typed
<1>s. PICK s \in Slots : s = Winner(flash, cand) /\ Whole(s) /\ Leads(s) /\ Settled(s)
  BY <1>1 DEF Straight, KeptAtMount
<1>3. \A t \in Slots : ~flash[t].confirmed => runs'[t] <= flash[t].attempts
  <2>. SUFFICES ASSUME NEW t \in Slots, ~flash[t].confirmed
                PROVE  runs'[t] <= flash[t].attempts
    OBVIOUS
  <2>1. runs[t] \in Nat /\ flash[t].attempts \in Nat /\ runs[t] <= flash[t].attempts
    BY <1>2, SlotFacts DEF Typed, KeptLeads
  <2>2. CASE t = s
    BY <1>s, <1>1, <2>1, <2>2 DEF Settled, Typed
  <2>3. CASE t # s
    BY <1>s, <1>1, <2>1, <2>3 DEF Typed
  <2>. QED  BY <2>2, <2>3
<1>4. KeptLeads'
  BY <1>1, <1>2, <1>3 DEF KeptLeads, Safe, Whole
<1>5. KeptInApp'
  BY <1>s, <1>1 DEF KeptInApp, Whole, Leads, ConfirmSteps
<1>. QED  BY <1>1, <1>4, <1>5, StraightApp DEF Running

-----------------------------------------------------------------------------
LEMMA StraightConfirmBegin ==
  ASSUME Typed, Typed', TypeInv, Straight, ConfirmBegin
  PROVE  Straight'
<1>1. /\ pc = "app" /\ pc' = "raiseFloor" /\ Trial(flash, running) /\ running' = running
      /\ kept' = kept /\ flash' = flash /\ runs' = runs
  BY DEF ConfirmBegin
<1>2. KeptLeads'  BY <1>1, MarksOnly DEF Straight
<1>3. KeptInApp'
  BY <1>1 DEF Straight, Running, KeptInApp, Whole, Leads
<1>. QED  BY <1>1, <1>2, <1>3, StraightApp DEF Running, ConfirmSteps

(* Whatever confirm() writes, or half writes: the trial that runs goes on  *)
(* leading, as a trial or as the slot now kept.                            *)
LEMMA ConfirmedLeads ==
  ASSUME Typed, Typed', TypeInv, Straight, pc \in ConfirmSteps, NEW r \in Slots, r = running,
         flash' \in {flash, ConfirmTorn(flash), ConfirmWrite(flash)},
         kept' = KeptIn(flash'), runs' = runs
  PROVE  KeptLeads' /\ Whole(r)' /\ Leads(r)' /\ (pc # "mark" => Trial(flash', r))
<1>1. \A t \in Slots : /\ flash'[t].body = flash[t].body /\ flash'[t].trailer = flash[t].trailer
                       /\ flash'[t].pending = flash[t].pending
                       /\ flash'[t].counter = flash[t].counter
                       /\ flash'[t].attempts = flash[t].attempts
                       /\ t # r => flash'[t] = flash[t]
                       /\ \/ flash'[t].confirmed = flash[t].confirmed
                          \/ pc = "mark" /\ flash'[t].confirmed
  BY ConfirmSlot
<1>2. KeptLeads /\ Whole(r) /\ Leads(r) /\ Trial(flash, r)
  BY DEF Straight, Running, KeptInApp
<1>k. PICK k \in Slots : k = kept  BY DEF Typed
<1>3. r # k /\ StubNewer(flash, r, k)
  BY <1>k, <1>2 DEF Leads, KeptLeads, Safe, Trial
<1>4. Whole(r)' /\ (pc # "mark" => Trial(flash', r))
  BY <1>1, <1>2 DEF Whole, Trial
<1>5. \A s \in Slots : ~flash'[s].confirmed => runs'[s] <= flash'[s].attempts
  <2>. SUFFICES ASSUME NEW s \in Slots, ~flash'[s].confirmed
                PROVE  runs'[s] <= flash'[s].attempts
    OBVIOUS
  <2>1. ~flash[s].confirmed /\ flash'[s].attempts = flash[s].attempts
    BY <1>1
  <2>. QED  BY <1>2, <2>1 DEF KeptLeads
<1>6. \A s \in Slots : s = k \/ s = r  BY <1>k, <1>3, Other
<1>7. CASE flash'[r].confirmed
  <2>1. kept' = r  BY <1>1, <1>2, <1>7 DEF KeptIn, Trial
  <2>2. StubNewer(flash', r, k)  BY <1>1, <1>k, <1>3 DEF StubNewer
  <2>3. KeptLeads'
    BY <1>4, <1>5, <1>6, <1>7, <2>1, <2>2 DEF KeptLeads, Safe
  <2>. QED  BY <1>4, <2>1, <2>3 DEF Leads
<1>8. CASE ~flash'[r].confirmed
  <2>1. kept' = k /\ flash'[k] = flash[k]  BY <1>1, <1>k, <1>3, <1>8 DEF KeptIn
  <2>2. Safe(k)'  BY <1>k, <1>2, <2>1 DEF KeptLeads, Safe, Whole
  <2>3. KeptLeads'  BY <1>5, <1>6, <1>8, <2>1, <2>2 DEF KeptLeads
  <2>4. Trial(flash', r) /\ StubNewer(flash', r, k)
    BY <1>1, <1>k, <1>2, <1>3, <1>8 DEF Trial, StubNewer
  <2>. QED  BY <1>4, <2>1, <2>3, <2>4 DEF Leads
<1>. QED  BY <1>7, <1>8

LEMMA StraightConfirms ==
  ASSUME Typed, Typed', TypeInv, Straight, ConfirmStep \/ ConfirmFault
  PROVE  Straight'
<1>r. PICK r \in Slots : r = running
  BY DEF ConfirmStep, ConfirmFault, TypeInv, Running
<1>1. /\ pc \in ConfirmSteps /\ running' = running /\ kept' = KeptIn(flash') /\ runs' = runs
      /\ flash' \in {flash, ConfirmTorn(flash), ConfirmWrite(flash)}
      /\ pc' \in Running /\ (pc' \in ConfirmSteps => pc # "mark")
  BY DEF ConfirmStep, ConfirmFault, AfterConfirm, ConfirmSteps, Running
<1>2. KeptLeads' /\ Whole(r)' /\ Leads(r)' /\ (pc # "mark" => Trial(flash', r))
  BY <1>r, <1>1, ConfirmedLeads
<1>3. KeptInApp'  BY <1>r, <1>1, <1>2 DEF KeptInApp
<1>. QED  BY <1>1, <1>2, <1>3, StraightApp

LEMMA StraightOffer ==
  ASSUME Typed, Typed', TypeInv, Straight, NEW i \in Images, Offer(i) \/ RecoveryOffer(i)
  PROVE  Straight' /\ Offer(i)
<1>0. Offer(i)  BY DEF Straight, RecoveryOffer
<1>1. /\ pc = "app" /\ ~Trial(flash, running) /\ pc' = "eraseBody" /\ running' = running
      /\ inst'.target = InstallTarget(flash, running)
      /\ kept' = kept /\ flash' = flash /\ runs' = runs
  BY <1>0, StubAssumption DEF Offer, Begin
<1>2. running = kept /\ running \in Slots
  BY <1>1 DEF Straight, Running, KeptInApp, Leads, Typed
<1>3. InstallTarget(flash, running) # running
  <2>1. InstallTarget(flash, running) \in Writable(running)
    BY <1>2, TargetWritable DEF Typed
  <2>2. Slots \ {running} # {}  BY <1>2, TwoSlots
  <2>. QED  BY <2>1, <2>2 DEF Writable
<1>4. KeptLeads'  BY <1>1, MarksOnly DEF Straight
<1>. QED  BY <1>0, <1>1, <1>2, <1>3, <1>4, StraightInstall DEF InstallSteps

(* An install leaves the kept slot alone, and the other one as it was, or  *)
(* without an image, or without its mark.                                  *)
LEMMA InstalledKeeps ==
  ASSUME Typed, Typed', TypeInv, Ground, Ground', Straight, pc \in InstallSteps,
         flash' \in {flash, InstallTorn(flash), InstallWrite(flash)},
         kept' = kept, runs' = RunsIn(flash')
  PROVE  KeptLeads'
<1>t. PICK t \in Slots : t = inst.target  BY InstallSlot
<1>k. PICK k \in Slots : k = kept /\ k # t  BY <1>t DEF Straight, Typed
<1>. DEFINE d == flash[t]
            e == flash'[t]
<1>0. KeptLeads  BY DEF Straight
<1>1. /\ flash'[k] = flash[k] /\ d \in Slot /\ e \in Slot
      /\ pc = "eraseBody" => e = [d EXCEPT !.body = e.body]
      /\ pc = "eraseStatus" => e = d \/ ~e.confirmed
      /\ pc \in Unarmed \ {"arm"} => ~e.confirmed
      /\ pc = "arm" => e = d \/ e = [d EXCEPT !.pending = TRUE]
      /\ pc = "flush" => e = d
      /\ pc \in Unarmed => ~d.confirmed
  BY <1>t, <1>k, InstallSlot, Written DEF Ground, Typed, Flash
<1>2. /\ e.confirmed => d.confirmed /\ e.counter = d.counter
      /\ pc \notin {"eraseBody", "arm", "flush"} => e = d \/ ~e.confirmed
  BY <1>1 DEF InstallSteps, Unarmed, Slot
<1>3. Safe(k)'  BY <1>k, <1>0, <1>1 DEF KeptLeads, Safe, Whole
<1>4. e.confirmed => StubNewer(flash', k, t)
  <2>1. d.confirmed => StubNewer(flash, k, t)  BY <1>k, <1>0 DEF KeptLeads
  <2>. QED  BY <1>1, <1>2, <2>1 DEF StubNewer
<1>5. ~e.confirmed => runs'[t] <= e.attempts
  <2>0. e.attempts \in Nat /\ d.attempts \in Nat /\ runs[t] \in Nat
        /\ runs'[t] = IF e.body = d.body THEN runs[t] ELSE 0
    BY SlotFacts DEF Typed, RunsIn
  <2>1. CASE pc = "eraseBody"
    <3>1. e.confirmed = d.confirmed /\ e.attempts = d.attempts  BY <1>1, <2>1 DEF Slot
    <3>. QED  BY <1>0, <2>0, <3>1 DEF KeptLeads
  <2>2. CASE pc # "eraseBody"
    <3>1. runs[t] = 0  BY <1>t, <2>2 DEF Ground
    <3>. QED  BY <2>0, <3>1
  <2>. QED  BY <2>1, <2>2
<1>6. ~flash'[k].confirmed => runs'[k] <= flash'[k].attempts
  BY <1>3 DEF Safe
<1>7. \A s \in Slots : s = k \/ s = t  BY <1>k, Other
<1>. HIDE DEF d, e
<1>8. \A s \in Slots \ {k} : flash'[s].confirmed => StubNewer(flash', k, s)
  BY <1>4, <1>7 DEF e
<1>9. \A s \in Slots : ~flash'[s].confirmed => runs'[s] <= flash'[s].attempts
  BY <1>5, <1>6, <1>7 DEF e
<1>. QED  BY <1>k, <1>3, <1>8, <1>9 DEF KeptLeads

LEMMA StraightInstalls ==
  ASSUME Typed, Typed', TypeInv, Ground, Ground', Straight,
         InstallStep \/ StreamWrong \/ HashMismatch \/ InstallDone \/ InstallFails
  PROVE  Straight'
<1>1. /\ pc \in InstallSteps /\ kept' = kept
      /\ flash' \in {flash, InstallTorn(flash), InstallWrite(flash)}
      /\ \/ runs' = RunsIn(flash') \/ (flash' = flash /\ runs' = runs)
      /\ \/ pc' \in InstallSteps /\ running' = running /\ inst' = inst
         \/ Retry \/ Reset
  BY DEF InstallStep, StreamWrong, HashMismatch, InstallDone, InstallFails, AfterInstall,
         InstallSteps
<1>2. KeptLeads'
  <2>1. CASE runs' = RunsIn(flash')  BY <1>1, <2>1, InstalledKeeps
  <2>2. CASE flash' = flash /\ runs' = runs  BY <1>1, <2>2, MarksOnly DEF Straight
  <2>. QED  BY <1>1, <2>1, <2>2
<1>3. running = kept /\ inst.target # kept  BY <1>1 DEF Straight
<1>4. CASE pc' \in InstallSteps /\ running' = running /\ inst' = inst
  BY <1>1, <1>2, <1>3, <1>4, StraightInstall
<1>5. CASE Reset  BY <1>2, <1>5, StraightIdle DEF Reset
<1>6. CASE Retry /\ ~Reset
  <2>1. /\ pc' = "eraseBody" /\ running' = running /\ inst \in Install
        /\ inst' = [inst EXCEPT !.attempt = @ + 1]
    BY <1>1, <1>6 DEF Retry, TypeInv
  <2>2. inst'.target = inst.target  BY <2>1 DEF Install
  <2>. QED  BY <1>1, <1>2, <1>3, <2>1, <2>2, StraightInstall DEF InstallSteps
<1>. QED  BY <1>1, <1>4, <1>5, <1>6

(* Power fails: whatever was under way is forgotten.                       *)
LEMMA StraightTorn ==
  ASSUME Typed, Typed', TypeInv, Ground, Ground', Straight, TornCut
  PROVE  Straight'
<1>1. /\ pc \in ConfirmSteps \cup InstallSteps /\ kept' = kept /\ pc' = "boot"
      /\ flash' = (IF pc \in ConfirmSteps THEN ConfirmTorn(flash) ELSE InstallTorn(flash))
      /\ runs' = RunsIn(flash')
  BY DEF TornCut, Reset
<1>2. CASE pc \in ConfirmSteps
  <2>r. PICK r \in Slots : r = running  BY <1>2 DEF TypeInv, Running
  <2>1. flash' = ConfirmTorn(flash)  BY <1>1, <1>2
  <2>2. runs' = runs
    <3>1. \A t \in Slots : flash'[t].body = flash[t].body  BY <1>2, <2>1, ConfirmSlot
    <3>. QED  BY <1>1, <3>1 DEF RunsIn, Typed
  <2>3. kept' = KeptIn(flash')
    <3>1. pc = "mark" => flash' = flash  BY <2>1 DEF ConfirmTorn
    <3>2. ~flash[running].confirmed
      BY <1>2 DEF Straight, Running, KeptInApp, Trial
    <3>. QED  BY <1>1, <3>1, <3>2 DEF KeptIn
  <2>. QED  BY <1>1, <1>2, <2>r, <2>1, <2>2, <2>3, ConfirmedLeads, StraightIdle
<1>3. CASE pc \in InstallSteps
  <2>1. flash' = InstallTorn(flash)
    BY <1>1, <1>3, StepNames DEF InstallSteps, ConfirmSteps
  <2>. QED  BY <1>1, <1>3, <2>1, InstalledKeeps, StraightIdle
<1>. QED  BY <1>1, <1>2, <1>3

LEMMA StraightStep ==
  ASSUME OneEpoch
  PROVE  StubInv /\ StubInv' /\ Ground /\ Ground' /\ Straight
           /\ [StubNext /\ ~StubInstallFails]_allVars => Straight'
<1>. SUFFICES ASSUME StubInv, StubInv', Ground, Ground', Straight,
                     [StubNext /\ ~StubInstallFails]_allVars
              PROVE  Straight'
  OBVIOUS
<1>0. Typed /\ Typed'
  <2>1. Typed  BY AlwaysTyped
  <2>2. Typed'
    BY DEF StubInv, StubTypeOK, Typed, TypeInv, TypeOK, Flash
  <2>. QED  BY <2>1, <2>2
<1>1. CASE StubBoot /\ ~StubInstallFails
  BY <1>0, <1>1, StraightSurvey, StraightTake, StraightBurnFails, StraightPicked, StraightHands
     DEF StubBoot
<1>2. CASE StubTornCut \/ StubCut
  <2>1. pc' = "boot" /\ kept' = kept /\ runs' = runs /\ flash' = flash
    BY <1>2 DEF StubTornCut, StubCut, PowerCut, Reset
  <2>. QED  BY <1>0, <2>1, MarksOnly, StraightIdle DEF Straight
<1>3. CASE FollowRecord \/ PySurvey
  BY <1>0, <1>3, StraightFollow, StraightPySurvey
<1>4. CASE PyBoot
  <2>1. ~NoSlot  BY DEF NoSlot, Straight, KeptAtPick
  <2>. QED  BY <1>0, <1>4, <2>1, StraightChooses, StraightArmFails, StraightMounts DEF PyBoot
<1>5. CASE Confirm \/ Update \/ TornCut
  <2>1. TypeInv  BY <1>5, OwnPlace DEF StubInv
  <2>. QED
    BY <1>0, <1>5, <2>1, StraightConfirmBegin, StraightConfirms, StraightOffer,
       StraightInstalls, StraightTorn DEF Confirm, Update
<1>6. CASE UNCHANGED allVars
  BY <1>6 DEF allVars, Straight, KeptLeads, KeptInLoop, KeptAtPick, KeptAtMount, KeptInApp,
         Leads, Settled, Safe, Whole, Marked
<1>. QED  BY <1>1, <1>2, <1>3, <1>4, <1>5, <1>6 DEF StubNext

(* Two ways for it to hold: until the first fault, and for good where the  *)
(* stub's own installs do not fail.                                        *)
UntilFault == faults = 0 => Straight
InstallsHold == [][~StubInstallFails]_allVars

LEMMA FaultsGrow ==
  ASSUME StubInv, [StubNext]_allVars
  PROVE  /\ faults' \in {faults, faults + 1}
         /\ faults' = 0 => faults = 0 /\ [StubNext /\ ~StubInstallFails]_allVars
<1>1. Typed /\ faults \in Nat  BY AlwaysTyped DEF Typed
<1>2. Booting => faults' \in {faults, faults + 1}  BY <1>1, BootWrites
<1>3. StubNext /\ ~Booting => faults' \in {faults, faults + 1}
  BY NotBooting DEF ConfirmStep, ConfirmFault, Offer, RecoveryOffer, Begin, InstallStep,
     StreamWrong, HashMismatch, InstallDone, InstallFails, TornCut
<1>4. StubInstallFails => faults' = faults + 1  BY DEF StubInstallFails
<1>. QED  BY <1>1, <1>2, <1>3, <1>4 DEF allVars

LEMMA UntilFaultStep ==
  ASSUME OneEpoch
  PROVE  StubInv /\ StubInv' /\ Ground /\ Ground' /\ UntilFault /\ [StubNext]_allVars
           => UntilFault'
BY StraightStep, FaultsGrow DEF UntilFault

LEMMA StraightSafe ==
  ASSUME OneEpoch, StubInv, Ground, Straight
  PROVE  FallbackIntact
<1>1. Safe(kept) /\ kept \in Slots /\ Typed
  BY AlwaysTyped DEF Straight, KeptLeads, Typed
<1>. QED  BY <1>1, KeptAccepted DEF FallbackIntact, Safe

(* On a stub board whose flash operations all succeed, the release kept    *)
(* last is never lost, wherever power is cut between two of them: its slot *)
(* verifies, would be mounted, and is CONFIRMED.                           *)
THEOREM StubKeptSafe ==
  ASSUME OneEpoch
  PROVE  StubSpec => [](faults = 0 => FallbackIntact)
<1>. DEFINE I == StubInv /\ RecordInv /\ Ground /\ Held
<1>1. I /\ I' /\ UntilFault /\ [StubNext]_allVars => UntilFault'
  BY UntilFaultStep
<1>2. I /\ UntilFault => (faults = 0 => FallbackIntact)
  BY StraightSafe DEF UntilFault
<1>3. StubSpec => []I  BY HeldAlways
<1>4. StubInit => UntilFault  BY StraightStart DEF UntilFault
<1>. HIDE DEF I
<1>. QED  BY <1>1, <1>2, <1>3, <1>4, PTL DEF StubSpec

LEMMA StraightAlways ==
  ASSUME OneEpoch
  PROVE  StubSpec /\ InstallsHold => []Straight
<1>. DEFINE I == StubInv /\ RecordInv /\ Ground /\ Held
<1>1. I /\ I' /\ Straight /\ [StubNext]_allVars /\ [~StubInstallFails]_allVars => Straight'
  BY StraightStep
<1>2. StubSpec => []I  BY HeldAlways
<1>. HIDE DEF I
<1>. QED  BY <1>1, <1>2, StraightStart, PTL DEF StubSpec, InstallsHold

(* However many flash operations are torn, and however many of boot.py's,  *)
(* of confirm()'s and of the installer's fail: as long as the stub's own   *)
(* firmware installs are at most cut short, and none of them is reported   *)
(* as failed, the release kept last is never lost.                         *)
THEOREM StubKeptThroughFaults ==
  ASSUME OneEpoch
  PROVE  StubSpec /\ InstallsHold => []FallbackIntact
<1>. DEFINE I == StubInv /\ RecordInv /\ Ground /\ Held
<1>1. I /\ Straight => FallbackIntact  BY StraightSafe
<1>2. StubSpec => []I  BY HeldAlways
<1>. HIDE DEF I
<1>. QED  BY <1>1, <1>2, StraightAlways, PTL

-----------------------------------------------------------------------------
(* A kept slot's own floor covers its release, so what is vetted against   *)
(* the floor of a kept slot that runs is not older.  A trial can still     *)
(* raise its floor, and beside the kept slot it is not older than that.    *)
CoveredSlot(s) ==
  /\ flash[s].confirmed =>
       flash[s].trailer \in Images /\ flash[s].floors.floor >= Key(flash[s].trailer)
  /\ Trial(flash, s) /\ flash[s].body \in Images =>
       /\ flash[s].floors.floor >= Key(flash[s].trailer) \/ flash[s].floors.used <= 1 + faults
       /\ s # kept => Key(flash[s].trailer) >= Key(flash[kept].trailer)

CoveredInstall ==
  /\ pc \in InstallSteps /\ kept # inst.target => Key(inst.image) >= Key(flash[kept].trailer)
  /\ pc \in Carrying => flash[inst.target].floors.used <= 1

Covered ==
  /\ \A s \in Slots : CoveredSlot(s)
  /\ CoveredInstall
  /\ pc \in {"raiseEpoch", "mark"} => flash[running].floors.floor >= Key(Image)

(* What the writes of confirm() and of an install rest on, whether it is   *)
(* for want of a third fault or of a failed firmware install.              *)
Upright ==
  /\ \E s \in Slots : Safe(s)
  /\ pc \in Running => Whole(running) /\ Marked(running)
  /\ pc \in ConfirmSteps => Trial(flash, running)
  /\ pc \in InstallSteps => running \in Slots /\ Safe(running) /\ running # inst.target
  /\ pc # "recovery"

LEMMA HeldUpright == ASSUME Held, faults <= 2  PROVE Upright
BY DEF Held, AtRest, InApp, InInstall, Runs, Upright, Running

LEMMA StraightUpright == ASSUME Typed, Straight  PROVE Upright
<1>1. Safe(kept) /\ kept \in Slots  BY DEF Straight, KeptLeads, Typed
<1>2. pc \in Running => Whole(running) /\ Marked(running)
  BY <1>1 DEF Straight, KeptInApp, Leads, Marked, Safe, Trial
<1>. QED  BY <1>1, <1>2 DEF Straight, KeptInApp, Running, Upright

LEMMA CoveredStart == StubInit => Covered
<1>. SUFFICES ASSUME StubInit PROVE Covered  OBVIOUS
<1>1. \A s \in Slots : /\ flash[s].trailer = Factory /\ ~flash[s].pending
                       /\ flash[s].floors = Append(BlankRegion, Key(Factory))
  BY DEF StubInit, Init, FactorySlot
<1>2. Append(BlankRegion, Key(Factory)).floor >= Key(Factory)
  BY KeyType, LifecycleAssumption DEF Append, BlankRegion, Larger
<1>3. pc = "boot"  BY DEF StubInit, Init
<1>. QED  BY <1>1, <1>2, <1>3, LifecycleAssumption
          DEF Covered, CoveredSlot, CoveredInstall, Trial, InstallSteps, Carrying

(* A slot that keeps its content and its marks, beside a kept one that     *)
(* keeps its release.                                                      *)
LEMMA CoveredStays ==
  ASSUME Typed, NEW s \in Slots, CoveredSlot(s), kept' = kept, faults' \in Nat, faults' >= faults,
         flash'[s].body = flash[s].body, flash'[s].trailer = flash[s].trailer,
         flash'[s].pending = flash[s].pending, flash'[s].confirmed = flash[s].confirmed,
         flash'[s].floors = flash[s].floors,
         s # kept => flash'[kept].trailer = flash[kept].trailer
  PROVE  CoveredSlot(s)'
<1>1. flash[s].floors.used \in Nat /\ faults \in Nat
  BY SlotFacts, BoundsAssumption DEF Typed, Region
<1>2. flash[s].floors.used <= 1 + faults => flash[s].floors.used <= 1 + faults'
  BY <1>1
<1>. QED  BY <1>2 DEF CoveredSlot, Trial, Key

LEMMA CoveredIdle ==
  ASSUME Typed, Covered, kept' = kept, faults' \in Nat, faults' >= faults,
         pc' \notin InstallSteps \cup {"raiseEpoch", "mark"},
         flash' = flash \/ \E s \in Slots : flash' = Burned(flash, s)
  PROVE  Covered'
<1>1. \A t \in Slots :
        /\ flash'[t].body = flash[t].body /\ flash'[t].trailer = flash[t].trailer
        /\ flash'[t].pending = flash[t].pending /\ flash'[t].confirmed = flash[t].confirmed
        /\ flash'[t].floors = flash[t].floors
  BY BurnedSlot DEF Typed
<1>2. \A s \in Slots : CoveredSlot(s)'
  BY <1>1, CoveredStays DEF Covered, Typed
<1>. QED  BY <1>2 DEF Covered, CoveredInstall, Carrying, InstallSteps

LEMMA CoveredOffer ==
  ASSUME Typed, TypeInv, Upright, Covered, NEW i \in Images, Offer(i)
  PROVE  Covered'
<1>1. /\ pc = "app" /\ ~Trial(flash, running) /\ pc' = "eraseBody"
      /\ flash' = flash /\ kept' = kept /\ faults' = faults
      /\ inst'.image = i /\ inst'.target = InstallTarget(flash, running)
      /\ Key(i) >= Floor(flash)
  BY StubAssumption DEF Offer, Begin, Vetted
<1>2. running \in Slots /\ Marked(running)  BY <1>1 DEF TypeInv, Upright, Running
<1>3. flash[running].confirmed  BY <1>1, <1>2 DEF Marked, Trial
<1>4. kept # InstallTarget(flash, running) => kept = running
  <2>1. InstallTarget(flash, running) \in Writable(running)
    BY <1>2, TargetWritable DEF Typed
  <2>2. Slots \ {running} # {}  BY <1>2, TwoSlots
  <2>. QED  BY <1>2, <2>1, <2>2, TwoSlots DEF Writable, Typed
<1>5. ASSUME kept = running  PROVE Key(i) >= Key(flash[kept].trailer)
  <2>1. /\ flash[kept].trailer \in Images
        /\ flash[kept].floors.floor >= Key(flash[kept].trailer)
    BY <1>2, <1>3, <1>5 DEF Covered, CoveredSlot
  <2>2. Floor(flash) >= flash[kept].floors.floor
    BY <1>2, <1>5, TwoSlots, SlotFacts, StubAssumption DEF Floor, Larger, Typed
  <2>3. Key(i) \in Nat /\ Key(flash[kept].trailer) \in Nat /\ Floor(flash) \in Nat
        /\ flash[kept].floors.floor \in Nat
    BY <2>1, KeyType, SurveyTypes, SlotFacts DEF Typed
  <2>. QED  BY <1>1, <2>1, <2>2, <2>3
<1>6. \A s \in Slots : CoveredSlot(s)'
  BY <1>1, CoveredStays DEF Covered, Typed
<1>7. CoveredInstall'
  BY <1>1, <1>4, <1>5 DEF CoveredInstall, Carrying, Key
<1>. QED  BY <1>1, <1>6, <1>7 DEF Covered

(* What an install writes.                                                 *)
LEMMA CoveredWritten ==
  ASSUME Typed, TypeInv, Ground, Upright, Covered, pc \in InstallSteps,
         kept' = kept, faults' \in Nat, faults' >= faults,
         flash' \in {flash, InstallTorn(flash), InstallWrite(flash)}
  PROVE  /\ \A s \in Slots : CoveredSlot(s)'
         /\ kept # inst.target => flash'[kept] = flash[kept]
<1>t. PICK t \in Slots : t = inst.target  BY InstallSlot
<1>r. PICK r \in Slots : r = running  BY DEF Upright
<1>. DEFINE d == flash[t]
            e == flash'[t]
<1>1. Safe(r) /\ r # t  BY <1>t, <1>r DEF Upright
<1>2. /\ \A s \in Slots \ {t} : flash'[s] = flash[s]
      /\ pc = "eraseBody" => e = [d EXCEPT !.body = e.body]
      /\ pc = "eraseBody" => e = d \/ e.body \in {Blank, Torn}
      /\ pc = "eraseStatus" => e = d \/ (~e.pending /\ ~e.confirmed)
      /\ pc \in Unarmed \ {"arm"} => ~e.pending /\ ~e.confirmed
      /\ pc = "arm" => e = d \/ e = [d EXCEPT !.pending = TRUE]
      /\ pc = "flush" => e = d
      /\ d \in Slot
  BY <1>t, InstallSlot, Written DEF Flash, Typed
<1>3. kept # t => kept = r /\ flash'[kept] = flash[kept]
  BY <1>1, <1>2, TwoSlots DEF Typed
<1>4. CoveredSlot(r)'
  <2>1. flash'[r] = flash[r] /\ flash[r].confirmed  BY <1>1, <1>2 DEF Safe
  <2>. QED  BY <2>1 DEF Covered, CoveredSlot, Trial, Key
<1>5. CoveredSlot(t)'
  <2>1. CASE e = d
    BY <1>3, <2>1, CoveredStays DEF Covered
  <2>. HIDE DEF d, e
  <2>2. CASE e # d /\ pc = "eraseBody"
    <3>1. /\ e.confirmed = d.confirmed /\ e.trailer = d.trailer /\ e.floors = d.floors
          /\ e.body \notin Images
      BY <1>2, <2>2, ImagesAssumption DEF Slot
    <3>. QED  BY <3>1 DEF Covered, CoveredSlot, Key, d, e
  <2>3. CASE ~e.pending /\ ~e.confirmed
    BY <2>3 DEF CoveredSlot, Trial, e
  <2>4. CASE e # d /\ pc = "arm"
    <3>1. /\ ~d.confirmed /\ d.trailer = inst.image /\ d.body = inst.image
          /\ d.floors.used <= 1
          /\ kept # t => Key(inst.image) >= Key(flash[kept].trailer)
      BY <1>t, <2>4 DEF Ground, Unarmed, Covered, CoveredInstall, Carrying, InstallSteps, d
    <3>2. /\ ~e.confirmed /\ e.trailer = inst.image /\ e.floors = d.floors
      BY <1>2, <2>4, <3>1 DEF Slot
    <3>3. d.floors.used \in Nat
      BY <1>2, BoundsAssumption DEF Slot, Region
    <3>4. e.floors.used <= 1 + faults'  BY <3>1, <3>2, <3>3
    <3>. QED  BY <1>3, <3>1, <3>2, <3>4 DEF CoveredSlot, Key, e
  <2>. QED  BY <1>2, <2>1, <2>2, <2>3, <2>4 DEF InstallSteps, Unarmed
<1>6. \A s \in Slots : CoveredSlot(s)'
  BY <1>1, <1>4, <1>5, Other
<1>. QED  BY <1>t, <1>3, <1>6

LEMMA CoveredInstalls ==
  ASSUME Typed, TypeInv, Ground, Upright, Covered, faults' \in Nat,
         InstallStep \/ StreamWrong
  PROVE  Covered'
<1>t. PICK t \in Slots : t = inst.target
  BY InstallSlot DEF InstallStep, StreamWrong, InstallSteps
<1>1. /\ pc \in InstallSteps \ {"flush"} /\ pc' = AfterInstall
      /\ kept' = kept /\ inst' = inst /\ faults' >= faults
      /\ flash' \in {InstallTorn(flash), InstallWrite(flash)}
      /\ pc # "stream" => flash' = InstallWrite(flash)
  BY DEF InstallStep, StreamWrong, InstallSteps, Typed
<1>. DEFINE d == flash[t]
            e == flash'[t]
<1>2. /\ \A s \in Slots : CoveredSlot(s)'
      /\ kept # t => flash'[kept] = flash[kept]
  BY <1>t, <1>1, CoveredWritten
<1>3. /\ flash \in Flash /\ d \in Slot
      /\ pc # "stream" => e = Programmed(d)
      /\ pc = "stream" => e = Programmed(d) \/ e = HalfProgrammed(d)
  BY <1>t, <1>1 DEF InstallWrite, InstallTorn, Typed, Flash
<1>4. pc' \in InstallSteps \ {"eraseBody"}  BY <1>1 DEF AfterInstall, InstallSteps
<1>5. pc' \in Carrying => e.floors.used <= 1
  <2>. HIDE DEF d, e
  <2>1. CASE pc = "carryFloor"
    <3>1. d.floors.used = 0  BY <1>t, <2>1 DEF TypeInv, d
    <3>2. e.floors = Carried(d.floors, inst.floor)
      BY <1>3, <2>1 DEF Programmed, Slot
    <3>. QED  BY <3>1, <3>2 DEF Carried, Append
  <2>2. CASE pc \in Carrying \ {"arm"}
    <3>1. e.floors = d.floors
      BY <1>3, <2>2 DEF Programmed, HalfProgrammed, Carrying, Slot
    <3>. QED  BY <1>t, <2>2, <3>1 DEF Covered, CoveredInstall, d
  <2>. QED  BY <1>1, <2>1, <2>2 DEF AfterInstall, InstallSteps, Carrying
<1>6. CoveredInstall'
  BY <1>t, <1>1, <1>2, <1>4, <1>5 DEF Covered, CoveredInstall, Key
<1>. QED  BY <1>2, <1>4, <1>6 DEF Covered, InstallSteps

(* An install that begins again, ends, or is cut.                          *)
LEMMA CoveredLeaves ==
  ASSUME Typed, TypeInv, Ground, Upright, Covered, pc \in InstallSteps,
         kept' = kept, faults' \in Nat, faults' >= faults,
         flash' \in {flash, InstallTorn(flash), InstallWrite(flash)},
         Retry \/ Reset
  PROVE  Covered'
<1>1. /\ \A s \in Slots : CoveredSlot(s)'
      /\ kept # inst.target => flash'[kept] = flash[kept]
  BY CoveredWritten
<1>2. CASE Reset
  BY <1>1, <1>2 DEF Reset, Covered, CoveredInstall, InstallSteps, Carrying
<1>3. CASE ~Reset
  <2>1. /\ pc' = "eraseBody" /\ inst' = [inst EXCEPT !.attempt = @ + 1] /\ inst \in Install
    BY <1>3 DEF Retry, TypeInv
  <2>2. inst'.image = inst.image /\ inst'.target = inst.target  BY <2>1 DEF Install
  <2>. QED  BY <1>1, <2>1, <2>2 DEF Covered, CoveredInstall, Carrying, InstallSteps, Key
<1>. QED  BY <1>2, <1>3

(* A region with room for the faults to come still raises its floor.       *)
LEMMA RoomLeft ==
  ASSUME Room, NEW r \in Region, NEW key \in Nat, NEW n \in 0 .. MaxFaults,
         r.floor >= key \/ r.used <= 1 + n
  PROVE  /\ Raised(r, key).floor >= key
         /\ Smudge(r).floor = r.floor /\ Smudge(r).used = r.used + 1
         /\ TornRaise(r, key) \in {r, Smudge(r)}
         /\ TornRaise(r, key).floor >= key \/ TornRaise(r, key).used <= 1 + (n + 1)
<1>1. /\ r.floor \in Nat /\ r.used \in Nat /\ n \in Nat /\ n <= MaxFaults /\ MaxFaults \in Nat
      /\ FloorEntries \in Nat
  BY LifecycleAssumption, BoundsAssumption DEF Region
<1>2. ~(r.floor >= key) => ~Full(r)  BY <1>1 DEF Full, Room
<1>3. Raised(r, key).floor >= key  BY <1>1, <1>2 DEF Raised, Append, Larger
<1>4. Smudge(r).floor = r.floor /\ Smudge(r).used = r.used + 1  BY DEF Smudge, Region
<1>5. TornRaise(r, key) \in {r, Smudge(r)}  BY DEF TornRaise
<1>. QED  BY <1>1, <1>3, <1>4, <1>5

(* What a step of confirm() makes of the running slot's floor.             *)
LEMMA ConfirmFloors ==
  ASSUME Typed, pc \in ConfirmSteps, running \in Slots,
         flash' \in {flash, ConfirmTorn(flash), ConfirmWrite(flash)}
  PROVE  LET d == flash[running]
             e == flash'[running]
         IN  /\ pc # "raiseFloor" => e.floors = d.floors
             /\ pc = "raiseFloor" =>
                  \/ flash' = flash
                  \/ flash' = ConfirmTorn(flash) /\ e.floors = TornRaise(d.floors, Key(Image))
                  \/ flash' = ConfirmWrite(flash) /\ e.floors = Raised(d.floors, Key(Image))
             /\ pc = "raiseFloor" /\ flash' = ConfirmWrite(flash) =>
                  e.floors = Raised(d.floors, Key(Image))
<1>. DEFINE d == flash[running]
            e == flash'[running]
<1>1. d \in Slot /\ flash \in Flash  BY DEF Typed, Flash
<1>2. flash' = ConfirmTorn(flash) /\ pc = "raiseFloor" =>
        e.floors = TornRaise(d.floors, Key(Image))
  BY <1>1 DEF ConfirmTorn, Flash, Slot
<1>3. flash' = ConfirmWrite(flash) /\ pc = "raiseFloor" =>
        e.floors = Raised(d.floors, Key(Image))
  BY <1>1 DEF ConfirmWrite, Flash, Slot
<1>4. pc # "raiseFloor" => e.floors = d.floors
  BY <1>1 DEF ConfirmTorn, ConfirmWrite, ConfirmSteps, Flash, Slot
<1>. QED  BY <1>2, <1>3, <1>4

LEMMA CoveredConfirmed ==
  ASSUME Room, Typed, TypeInv, Upright, Covered, pc \in ConfirmSteps,
         flash' \in {flash, ConfirmTorn(flash), ConfirmWrite(flash)},
         kept' = KeptIn(flash'),
         \/ faults' = faults /\ flash' = ConfirmWrite(flash)
         \/ faults' = faults + 1
  PROVE  \A s \in Slots : CoveredSlot(s)'
<1>r. PICK r \in Slots : r = running  BY DEF TypeInv, Running
<1>. DEFINE d == flash[r]
            e == flash'[r]
<1>1. Whole(r) /\ Trial(flash, r) /\ (\E s \in Slots : Safe(s))
  BY <1>r DEF Upright, Running
<1>2. PICK o \in Slots : o # r /\ Safe(o)
  BY <1>1 DEF Safe, Trial
<1>3. /\ e.body = d.body /\ e.trailer = d.trailer /\ flash'[o] = flash[o]
      /\ e.confirmed => pc = "mark" /\ kept' = r
      /\ ~e.confirmed => kept' = kept
      /\ kept # r => kept = o
  <2>1. /\ \A t \in Slots : flash'[t].body = flash[t].body /\ flash'[t].trailer = flash[t].trailer
        /\ flash'[o] = flash[o]
        /\ e.confirmed = d.confirmed \/ (pc = "mark" /\ e.confirmed)
    BY <1>r, <1>2, ConfirmSlot
  <2>2. ~d.confirmed  BY <1>1 DEF Trial
  <2>. QED  BY <1>r, <1>2, <2>1, <2>2, Other DEF KeptIn, Typed
<1>4. /\ d.trailer \in Images /\ d.trailer = Image /\ d.body \in Images
      /\ Key(Image) \in Nat /\ d.floors \in Region /\ faults \in 0 .. MaxFaults /\ faults \in Nat
  BY <1>r, <1>1, KeyType, SlotFacts, LifecycleAssumption DEF Whole, Image, Typed
<1>5. /\ d.floors.floor >= Key(Image) \/ d.floors.used <= 1 + faults
      /\ r # kept => Key(Image) >= Key(flash[kept].trailer)
  BY <1>1, <1>4 DEF Covered, CoveredSlot
<1>6. e.floors.floor >= Key(Image) \/ e.floors.used <= 1 + faults'
  <2>. HIDE DEF d, e
  <2>0. d.floors.used \in Nat  BY <1>4, BoundsAssumption DEF Region
  <2>1. CASE e.floors = d.floors  BY <1>4, <1>5, <2>0, <2>1
  <2>2. CASE e.floors = Raised(d.floors, Key(Image))
    BY <1>4, <1>5, <2>2, RoomLeft
  <2>3. CASE e.floors = TornRaise(d.floors, Key(Image)) /\ faults' = faults + 1
    BY <1>4, <1>5, <2>3, RoomLeft
  <2>4. \/ e.floors = d.floors
        \/ e.floors = Raised(d.floors, Key(Image))
        \/ e.floors = TornRaise(d.floors, Key(Image)) /\ faults' = faults + 1
    BY <1>r, ConfirmFloors DEF d, e
  <2>. QED  BY <2>1, <2>2, <2>3, <2>4
<1>7. e.confirmed => e.floors.floor >= Key(Image)
  <2>1. pc = "mark" => d.floors.floor >= Key(Image) /\ e.floors = d.floors
    BY <1>r, ConfirmFloors DEF Covered
  <2>. QED  BY <1>3, <2>1
<1>8. CoveredSlot(r)'
  <2>1. ~e.confirmed /\ r # kept => flash'[kept].trailer = flash[kept].trailer
    BY <1>2, <1>3
  <2>. QED  BY <1>3, <1>4, <1>5, <1>6, <1>7, <2>1 DEF CoveredSlot, Trial, Key
<1>9. CoveredSlot(o)'
  <2>1. flash[o].confirmed  BY <1>2 DEF Safe
  <2>. QED  BY <1>3, <2>1 DEF Covered, CoveredSlot, Trial, Key
<1>. QED  BY <1>2, <1>8, <1>9, Other

LEMMA CoveredConfirms ==
  ASSUME Room, Typed, TypeInv, Upright, Covered, ConfirmStep \/ ConfirmFault
  PROVE  Covered'
<1>r. PICK r \in Slots : r = running
  BY DEF ConfirmStep, ConfirmFault, TypeInv, Running
<1>1. /\ pc \in ConfirmSteps /\ kept' = KeptIn(flash') /\ running' = running
      /\ flash' \in {flash, ConfirmTorn(flash), ConfirmWrite(flash)}
      /\ \/ faults' = faults /\ flash' = ConfirmWrite(flash) /\ pc' = AfterConfirm
         \/ faults' = faults + 1 /\ pc' = "app"
  BY DEF ConfirmStep, ConfirmFault
<1>2. \A s \in Slots : CoveredSlot(s)'  BY <1>1, CoveredConfirmed
<1>3. pc' \notin InstallSteps  BY <1>1 DEF AfterConfirm, ConfirmSteps, InstallSteps
<1>4. ASSUME pc' \in {"raiseEpoch", "mark"}
      PROVE  flash'[r].floors.floor >= Key(Image)'
  <2>1. /\ pc \in {"raiseFloor", "raiseEpoch"} /\ flash' = ConfirmWrite(flash)
        /\ pc' = "raiseEpoch" <=> pc = "raiseFloor"
    BY <1>1, <1>4 DEF AfterConfirm, ConfirmSteps
  <2>2. Image' = Image
    BY <1>r, <1>1, ConfirmSlot DEF Image
  <2>3. CASE pc = "raiseEpoch"
    <3>1. flash[r].floors.floor >= Key(Image)  BY <1>r, <2>3 DEF Covered
    <3>. QED  BY <1>r, <1>1, <2>2, <2>3, <3>1, ConfirmFloors DEF Key
  <2>4. CASE pc = "raiseFloor"
    <3>1. Whole(r) /\ Trial(flash, r)
      BY <1>r, <2>4 DEF Upright, Running, ConfirmSteps
    <3>2. /\ Image \in Images /\ Key(Image) \in Nat /\ flash[r].floors \in Region
          /\ faults \in 0 .. MaxFaults
          /\ flash[r].floors.floor >= Key(Image) \/ flash[r].floors.used <= 1 + faults
      BY <1>r, <3>1, KeyType, SlotFacts DEF Whole, Image, Typed, Covered, CoveredSlot
    <3>3. Raised(flash[r].floors, Key(Image)).floor >= Key(Image)
      BY <3>2, RoomLeft
    <3>4. flash'[r].floors = Raised(flash[r].floors, Key(Image))
      BY <1>r, <1>1, <2>1, <2>4, ConfirmFloors
    <3>. QED  BY <2>2, <3>3, <3>4 DEF Key
  <2>. QED  BY <2>1, <2>3, <2>4
<1>. QED  BY <1>r, <1>1, <1>2, <1>3, <1>4 DEF Covered, CoveredInstall, Carrying, InstallSteps

LEMMA CoveredTorn ==
  ASSUME Room, Typed, TypeInv, Ground, Upright, Covered, TornCut
  PROVE  Covered'
<1>1. /\ pc \in ConfirmSteps \cup InstallSteps /\ faults' = faults + 1 /\ faults \in Nat
      /\ kept' = kept /\ Reset /\ faults' \in Nat /\ faults' >= faults
      /\ flash' = IF pc \in ConfirmSteps THEN ConfirmTorn(flash) ELSE InstallTorn(flash)
  BY DEF TornCut, Typed
<1>2. CASE pc \in ConfirmSteps
  <2>1. flash' = ConfirmTorn(flash) /\ running \in Slots
    BY <1>1, <1>2 DEF TypeInv, Running
  <2>2. kept' = KeptIn(flash')
    <3>1. pc = "mark" => flash' = flash  BY <2>1 DEF ConfirmTorn
    <3>2. ~flash[running].confirmed
      BY <1>1, <1>2 DEF Upright, Trial
    <3>. QED  BY <1>1, <3>1, <3>2 DEF KeptIn
  <2>3. \A s \in Slots : CoveredSlot(s)'
    BY <1>1, <1>2, <2>1, <2>2, CoveredConfirmed
  <2>. QED  BY <1>1, <2>3 DEF Reset, Covered, CoveredInstall, Carrying, InstallSteps
<1>3. CASE pc \in InstallSteps
  <2>1. flash' = InstallTorn(flash)
    BY <1>1, <1>3, StepNames DEF InstallSteps, ConfirmSteps
  <2>. QED  BY <1>1, <1>3, <2>1, CoveredLeaves
<1>. QED  BY <1>1, <1>2, <1>3

LEMMA CoveredStep ==
  ASSUME Room
  PROVE  StubInv /\ Ground /\ Upright /\ Covered /\ [StubNext]_allVars => Covered'
<1>. SUFFICES ASSUME StubInv, Ground, Upright, Covered, [StubNext]_allVars  PROVE Covered'
  OBVIOUS
<1>0. Typed /\ faults \in Nat  BY AlwaysTyped DEF Typed
<1>1. CASE Booting
  BY <1>0, <1>1, BootWrites, CoveredIdle
<1>2. CASE TypeInv /\ (ConfirmStep \/ ConfirmFault)
  BY <1>0, <1>2, CoveredConfirms
<1>3. CASE TypeInv /\ \E i \in Images : Offer(i) \/ RecoveryOffer(i)
  BY <1>0, <1>3, CoveredOffer DEF Upright, RecoveryOffer
<1>4. CASE TypeInv /\ (InstallStep \/ StreamWrong)
  <2>1. faults' \in Nat  BY <1>0, <1>4 DEF InstallStep, StreamWrong
  <2>. QED  BY <1>0, <1>4, <2>1, CoveredInstalls
<1>5. CASE TypeInv /\ (HashMismatch \/ InstallDone \/ InstallFails)
  <2>1. /\ pc \in InstallSteps /\ kept' = kept /\ installs' = installs
        /\ faults' \in {faults, faults + 1}
        /\ flash' \in {flash, InstallTorn(flash), InstallWrite(flash)}
        /\ Retry \/ Reset
    BY <1>5 DEF HashMismatch, InstallDone, InstallFails, InstallSteps
  <2>. QED  BY <1>0, <1>5, <2>1, CoveredLeaves
<1>6. CASE TypeInv /\ TornCut
  BY <1>0, <1>6, CoveredTorn
<1>7. CASE UNCHANGED allVars
  BY <1>7 DEF allVars, Covered, CoveredSlot, CoveredInstall, Trial, Image
<1>. QED  BY <1>1, <1>2, <1>3, <1>4, <1>5, <1>6, <1>7, NotBooting

(* While Held says something, it says enough.                              *)
CoveredInv == faults <= 2 => Covered

LEMMA CoveredInvStep ==
  ASSUME Room
  PROVE  StubInv /\ Ground /\ Held /\ CoveredInv /\ [StubNext]_allVars => CoveredInv'
<1>. SUFFICES ASSUME StubInv, Ground, Held, CoveredInv, [StubNext]_allVars, faults' <= 2
              PROVE  Covered'
  BY DEF CoveredInv
<1>1. faults \in Nat /\ faults' \in {faults, faults + 1}
  BY FaultsGrow, AlwaysTyped DEF Typed
<1>2. faults <= 2  BY <1>1
<1>. QED  BY <1>2, HeldUpright, CoveredStep DEF CoveredInv

(* Only marking the trial that runs CONFIRMED changes the kept release.    *)
LEMMA StubKeptChanges ==
  ASSUME StubInv, Upright, Covered, [StubNext]_allVars, kept' # kept
  PROVE  /\ kept' = running /\ flash'[running].trailer = flash[running].trailer
         /\ Key(flash[running].trailer) >= Key(flash[kept].trailer)
<1>1. (ConfirmStep \/ ConfirmFault) /\ TypeInv
  <2>1. ConfirmStep \/ ConfirmFault
    BY DEF allVars, StubNext, StubBoot, StubSurvey, StubTake, StubBurn, StubBurnFails, StubJump,
           StubBegin, StubRefuse, StubInstall, StubVerify, StubInstallFails, StubNoSlot, StubHalt,
           StubTornCut, StubCut, PowerCut, FollowRecord, PySurvey, PyBoot, ChooseKept,
           BurnAttempt, ArmFails, Mount, NoSlot, Confirm, ConfirmBegin, Update, Offer,
           RecoveryOffer, Begin, InstallStep, StreamWrong, HashMismatch, InstallDone,
           InstallFails, TornCut
  <2>. QED  BY <2>1, OwnPlace DEF Confirm, StubInv
<1>r. PICK r \in Slots : r = running
  BY <1>1 DEF ConfirmStep, ConfirmFault, TypeInv, Running
<1>2. /\ pc \in ConfirmSteps /\ kept' = r /\ pc = "mark"
      /\ flash' \in {flash, ConfirmTorn(flash), ConfirmWrite(flash)}
  BY <1>r, <1>1 DEF ConfirmStep, ConfirmFault, KeptIn
<1>3. Trial(flash, r) /\ Whole(r)
  BY <1>r, <1>2 DEF Upright, Running
<1>4. Key(flash[r].trailer) >= Key(flash[kept].trailer)
  BY <1>2, <1>3 DEF Covered, CoveredSlot, Whole
<1>5. flash'[r].trailer = flash[r].trailer  BY <1>1, <1>2, ConfirmSlot
<1>. QED  BY <1>r, <1>2, <1>4, <1>5

(* A camera on a stub board never keeps a release it orders before the one *)
(* it kept last, with up to two torn or failed flash operations: not even  *)
(* when one of them makes it install over the slot it kept last.           *)
THEOREM StubNeverOlder ==
  ASSUME OneEpoch, Room, MaxFaults <= 2
  PROVE  StubSpec => KeptNeverOlder
<1>. DEFINE I == StubInv /\ RecordInv /\ Ground /\ Held
<1>1. I /\ CoveredInv /\ [StubNext]_allVars => CoveredInv'  BY CoveredInvStep
<1>2. I /\ CoveredInv /\ [StubNext]_allVars =>
        [kept' # kept => Key(flash'[kept'].trailer) >= Key(flash[kept].trailer)]_vars
  <2>. SUFFICES ASSUME I, CoveredInv, [StubNext]_allVars, kept' # kept
                PROVE  Key(flash'[kept'].trailer) >= Key(flash[kept].trailer)
    OBVIOUS
  <2>1. faults <= 2  BY AlwaysTyped, LifecycleAssumption DEF Typed
  <2>. QED  BY <2>1, HeldUpright, StubKeptChanges DEF CoveredInv, Key
<1>3. StubInit => CoveredInv  BY CoveredStart DEF CoveredInv
<1>4. StubSpec => []I  BY HeldAlways
<1>. HIDE DEF I
<1>. QED  BY <1>1, <1>2, <1>3, <1>4, PTL DEF StubSpec, KeptNeverOlder

(* The slot kept last has its own floor.                                   *)
LEMMA StraightCovers ==
  ASSUME StubInv, Straight, Covered
  PROVE  FloorCoversKept
<1>1. kept \in Slots /\ flash[kept].confirmed /\ Typed
  BY AlwaysTyped DEF Straight, KeptLeads, Safe, Typed
<1>2. /\ flash[kept].trailer \in Images
      /\ flash[kept].floors.floor >= Key(flash[kept].trailer)
  BY <1>1 DEF Covered, CoveredSlot
<1>3. \A s \in Slots : flash[s].floors.floor \in Nat  BY <1>1, SlotFacts DEF Typed
<1>4. Key(flash[kept].trailer) \in Nat  BY <1>2, KeyType
<1>. QED  BY <1>1, <1>2, <1>3, <1>4, TwoSlots, StubAssumption
          DEF FloorCoversKept, Floor, Larger

(* As long as no flash operation is torn or fails, the floor is never      *)
(* below the release the camera kept last.                                 *)
THEOREM StubFloorCovered ==
  ASSUME OneEpoch, Room
  PROVE  StubSpec => [](faults = 0 => FloorCoversKept)
<1>. DEFINE I == StubInv /\ RecordInv /\ Ground /\ Held
<1>1. I /\ CoveredInv /\ [StubNext]_allVars => CoveredInv'  BY CoveredInvStep
<1>2. I /\ I' /\ UntilFault /\ [StubNext]_allVars => UntilFault'
  BY UntilFaultStep
<1>3. I /\ CoveredInv /\ UntilFault => (faults = 0 => FloorCoversKept)
  BY StraightCovers DEF UntilFault, CoveredInv
<1>4. StubInit => CoveredInv /\ UntilFault
  BY CoveredStart, StraightStart DEF CoveredInv, UntilFault
<1>5. StubSpec => []I  BY HeldAlways
<1>. HIDE DEF I
<1>. QED  BY <1>1, <1>2, <1>3, <1>4, <1>5, PTL DEF StubSpec

LEMMA CoveredAlways ==
  ASSUME OneEpoch, Room
  PROVE  StubSpec /\ InstallsHold => []Covered
<1>. DEFINE I == StubInv /\ RecordInv /\ Ground /\ Held
<1>1. I /\ Straight /\ Covered /\ [StubNext]_allVars => Covered'
  BY AlwaysTyped, StraightUpright, CoveredStep
<1>2. StubSpec => []I  BY HeldAlways
<1>. HIDE DEF I
<1>. QED  BY <1>1, <1>2, StraightAlways, CoveredStart, PTL DEF StubSpec

(* Nor is it where whatever else fails but the stub's own firmware         *)
(* installs, cuts in the middle of one included; and there no release is   *)
(* ever kept after a newer one, however many faults there are.             *)
THEOREM StubFloorThroughFaults ==
  ASSUME OneEpoch, Room
  PROVE  StubSpec /\ InstallsHold => []FloorCoversKept /\ KeptNeverOlder
<1>. DEFINE I == StubInv /\ RecordInv /\ Ground /\ Held
<1>1. I /\ Straight /\ Covered => FloorCoversKept  BY StraightCovers
<1>2. I /\ Straight /\ Covered /\ [StubNext]_allVars =>
        [kept' # kept => Key(flash'[kept'].trailer) >= Key(flash[kept].trailer)]_vars
  <2>. SUFFICES ASSUME I, Straight, Covered, [StubNext]_allVars, kept' # kept
                PROVE  Key(flash'[kept'].trailer) >= Key(flash[kept].trailer)
    OBVIOUS
  <2>. QED  BY AlwaysTyped, StraightUpright, StubKeptChanges DEF Key
<1>3. StubSpec => []I  BY HeldAlways
<1>. HIDE DEF I
<1>. QED  BY <1>1, <1>2, <1>3, StraightAlways, CoveredAlways, PTL DEF StubSpec, KeptNeverOlder

-----------------------------------------------------------------------------
(* An armed trial is whole, no floor locks it out, and it outranks the     *)
(* other slot; an install has what will make it so.  The other slot is the *)
(* one that runs, and it need not be the one kept last.                    *)
RankedSlots ==
  /\ \A s \in Slots : OnTrialAt(s) =>
       /\ Whole(s) /\ NotUnderAnyFloor(flash[s].trailer)
       /\ \A t \in Slots \ {s} : flash[s].counter > flash[t].counter
  /\ \A s \in Slots : flash[s].counter <= 2 + installs

RankedInstall ==
  /\ pc \in InstallSteps =>
       /\ NotUnderAnyFloor(inst.image) /\ inst.floor <= Key(inst.image)
       /\ inst.counter <= 2 + installs /\ inst.counter > flash[running].counter
  /\ pc \in {"arm", "flush"} => flash[inst.target].counter = inst.counter

Ranked == RankedSlots /\ RankedInstall
RankedInv == faults <= 2 => Ranked

LEMMA RankedStart == StubInit => Ranked
<1>. SUFFICES ASSUME StubInit  PROVE Ranked
  OBVIOUS
<1>1. /\ pc = "boot" /\ installs = 0
      /\ \A s \in Slots : flash[s].confirmed /\ flash[s].counter \in {1, 2}
  BY DEF StubInit, Init, FactorySlot
<1>. QED  BY <1>1 DEF Ranked, RankedSlots, RankedInstall, OnTrialAt, Trial, InstallSteps

LEMMA RankedIdle ==
  ASSUME Typed, Ranked, installs' = installs, pc' \notin InstallSteps,
         flash' = flash \/ \E s \in Slots : flash' = Burned(flash, s)
  PROVE  Ranked'
<1>1. \A t \in Slots :
        /\ flash'[t].body = flash[t].body /\ flash'[t].trailer = flash[t].trailer
        /\ flash'[t].pending = flash[t].pending /\ flash'[t].confirmed = flash[t].confirmed
        /\ flash'[t].floors = flash[t].floors /\ flash'[t].counter = flash[t].counter
  BY BurnedSlot DEF Typed
<1>2. \A s \in Slots : OnTrialAt(s)' <=> OnTrialAt(s)  BY <1>1 DEF OnTrialAt, Trial
<1>3. RankedSlots'
  BY <1>1, <1>2 DEF Ranked, RankedSlots, Whole, NotUnderAnyFloor, Key
<1>. QED  BY <1>3 DEF Ranked, RankedInstall, InstallSteps

LEMMA RankedOffer ==
  ASSUME NoWrap, Typed, TypeInv, Held, Ranked, faults <= 2, NEW i \in Images, Offer(i)
  PROVE  Ranked'
<1>1. /\ flash' = flash /\ pc' = "eraseBody" /\ installs' = installs + 1 /\ running' = running
      /\ installs < MaxInstalls /\ installs \in Nat /\ MaxInstalls \in Nat /\ running \in Slots
      /\ inst'.image = i /\ inst'.floor = Floor(flash) /\ inst'.counter = InstallCounter(flash)
      /\ Key(i) >= Floor(flash)
  BY LifecycleAssumption DEF Offer, Begin, Vetted, TypeInv, TypeOK, Running
<1>3. \A s \in Slots : /\ flash[s].floors.floor \in Nat /\ flash[s].counter \in Int
                       /\ flash[s].counter <= 2 + installs
  BY SlotFacts DEF Typed, Ranked, RankedSlots
<1>2. RankedSlots'
  <2>1. \A s \in Slots : flash'[s].counter <= 2 + installs'  BY <1>1, <1>3
  <2>2. \A s \in Slots : OnTrialAt(s)' <=> OnTrialAt(s)  BY <1>1 DEF OnTrialAt, Trial
  <2>. QED  BY <1>1, <2>1, <2>2 DEF Ranked, RankedSlots, Whole, NotUnderAnyFloor, Key
<1>4. /\ Floor(flash) \in Nat /\ \A s \in Slots : flash[s].floors.floor <= Floor(flash)
  BY <1>3, TwoSlots, StubAssumption DEF Floor, Larger
<1>5. Key(i) \in Nat  BY KeyType
<1>6. NotUnderAnyFloor(i) /\ Floor(flash) <= Key(i)
  BY <1>1, <1>3, <1>4, <1>5 DEF NotUnderAnyFloor
<1>7. PICK h \in Nat : /\ h = Larger(0, Larger(flash["A"].counter, flash["B"].counter))
                       /\ h <= 2 + installs /\ \A s \in Slots : flash[s].counter <= h
  BY <1>1, <1>3, TwoSlots DEF Larger
<1>8. h + 1 < CounterMod /\ CounterMod \in Nat
  BY <1>1, <1>7, BoundsAssumption DEF NoWrap
<1>9. InstallCounter(flash) = h + 1
  <2>1. InstallCounter(flash) = (h + 1) % CounterMod  BY <1>7, StubAssumption DEF InstallCounter
  <2>2. (h + 1) % CounterMod = h + 1  BY <1>8
  <2>. QED  BY <2>1, <2>2
<1>10. inst'.counter <= 2 + installs' /\ inst'.counter > flash'[running'].counter
  BY <1>1, <1>3, <1>7, <1>9
<1>. QED  BY <1>1, <1>2, <1>6, <1>10
          DEF Ranked, RankedInstall, NotUnderAnyFloor, Key

LEMMA RankedWritten ==
  ASSUME Typed, TypeInv, Ground, Held, Ranked, faults <= 2, pc \in InstallSteps,
         flash' \in {flash, InstallTorn(flash), InstallWrite(flash)}, installs' = installs
  PROVE  /\ RankedSlots'
         /\ \A s \in Slots : flash'[s].floors.floor <= Key(inst.image)
         /\ flash'[running] = flash[running]
<1>t. PICK t \in Slots : t = inst.target  BY InstallSlot
<1>r. PICK r \in Slots : r = running  BY DEF Held, InInstall, Runs
<1>. DEFINE d == flash[t]
            e == flash'[t]
<1>1. Safe(r) /\ r # t /\ inst.image \in Images
  BY <1>t, <1>r DEF Held, InInstall, TypeInv, Install
<1>2. /\ flash'[r] = flash[r] /\ flash' \in Flash
      /\ pc = "eraseBody" => e = d \/ e.body \in {Blank, Torn}
      /\ pc = "eraseStatus" => e = d \/ ~e.pending
      /\ pc \in Unarmed \ {"arm"} => ~e.pending
      /\ pc = "arm" => e = d \/ e = [d EXCEPT !.pending = TRUE]
      /\ pc = "flush" => e = d
      /\ d \in Slot
  BY <1>t, <1>1, InstallSlot, Written DEF Flash, Typed
<1>3. /\ inst.floor \in Nat /\ inst.counter \in Nat
      /\ e.floors.floor <= d.floors.floor \/ e.floors.floor <= inst.floor
      /\ e.counter \in {d.counter, NoCounter, inst.counter}
      /\ pc \in {"arm", "flush"} => e.counter = d.counter
  BY <1>t, WrittenRanks
<1>4. /\ \A s \in Slots : flash[s].floors.floor <= Key(inst.image)
      /\ inst.floor <= Key(inst.image)
      /\ inst.counter <= 2 + installs /\ inst.counter > flash[r].counter
      /\ \A s \in Slots : flash[s].counter <= 2 + installs
  BY <1>r DEF Ranked, RankedSlots, RankedInstall, NotUnderAnyFloor
<1>5. /\ Key(inst.image) \in Nat /\ d.floors.floor \in Nat /\ e.floors.floor \in Nat
      /\ flash[r].counter \in Int /\ d.counter \in Int /\ installs \in Nat
  BY <1>1, <1>2, KeyType, SlotFacts, LifecycleAssumption DEF Typed
<1>6. e.floors.floor <= Key(inst.image) /\ e.counter <= 2 + installs
  BY <1>3, <1>4, <1>5 DEF NoCounter
<1>7. \A s \in Slots : /\ flash'[s].floors.floor <= Key(inst.image)
                       /\ flash'[s].counter <= 2 + installs
  BY <1>1, <1>2, <1>4, <1>6, Other
<1>8. ~OnTrialAt(r)'  BY <1>1, <1>2 DEF OnTrialAt, Trial, Safe
<1>9. ASSUME OnTrialAt(t)'
      PROVE  /\ Whole(t)' /\ NotUnderAnyFloor(flash[t].trailer)'
             /\ flash'[t].counter > flash'[r].counter
  <2>1. CASE e = d
    <3>1. OnTrialAt(t)  BY <1>9, <2>1 DEF OnTrialAt, Trial
    <3>2. Whole(t) /\ NotUnderAnyFloor(d.trailer) /\ d.counter > flash[r].counter
      BY <1>1, <3>1 DEF Ranked, RankedSlots
    <3>3. \A s \in Slots : flash'[s] = flash[s]  BY <1>1, <1>2, <2>1, Other
    <3>. QED  BY <1>2, <2>1, <3>2, <3>3 DEF Whole, NotUnderAnyFloor, Key
  <2>2. CASE e # d
    <3>1. pc = "arm"
      BY <1>2, <1>9, <2>2, ImagesAssumption DEF InstallSteps, Unarmed, OnTrialAt, Trial
    <3>2. d.body = inst.image /\ d.trailer = inst.image /\ ForThisHardware(inst.image)
      BY <1>t, <3>1 DEF Ground, InstallSteps
    <3>3. e.body = inst.image /\ e.trailer = inst.image /\ e.counter = d.counter
      BY <1>2, <2>2, <3>1, <3>2 DEF Slot
    <3>4. d.counter = inst.counter  BY <1>t, <3>1 DEF Ranked, RankedInstall
    <3>. QED  BY <1>1, <1>2, <1>4, <1>7, <3>2, <3>3, <3>4
              DEF Whole, ForThisHardware, NotUnderAnyFloor, Key
  <2>. QED  BY <2>1, <2>2
<1>10. \A s \in Slots \ {t} : s = r  BY <1>1, Other
<1>11. RankedSlots'
  BY <1>7, <1>8, <1>9, <1>10 DEF RankedSlots
<1>. QED  BY <1>r, <1>2, <1>7, <1>11

LEMMA RankedInstalls ==
  ASSUME Typed, TypeInv, Ground, Held, Ranked, faults <= 2, InstallStep \/ StreamWrong
  PROVE  Ranked'
<1>1. /\ pc \in InstallSteps \ {"flush"} /\ pc' = AfterInstall /\ installs' = installs
      /\ inst' = inst /\ running' = running
      /\ flash' \in {InstallTorn(flash), InstallWrite(flash)}
      /\ pc # "stream" => flash' = InstallWrite(flash)
  BY DEF InstallStep, StreamWrong, InstallSteps
<1>2. /\ RankedSlots' /\ flash'[running] = flash[running]
      /\ \A s \in Slots : flash'[s].floors.floor <= Key(inst.image)
  BY <1>1, RankedWritten
<1>3. pc' \in {"arm", "flush"} => flash'[inst.target].counter = inst.counter
  <2>1. /\ pc = "counter" /\ flash' = InstallWrite(flash) =>
             flash'[inst.target].counter = inst.counter
        /\ pc = "arm" => flash'[inst.target].counter = flash[inst.target].counter
    BY <1>1, WrittenRanks
  <2>2. CASE pc = "counter"  BY <1>1, <2>1, <2>2
  <2>3. CASE pc = "arm"  BY <2>1, <2>3 DEF Ranked, RankedInstall
  <2>. QED  BY <1>1, <2>2, <2>3 DEF AfterInstall, InstallSteps
<1>. QED  BY <1>1, <1>2, <1>3 DEF Ranked, RankedInstall, NotUnderAnyFloor, Key

LEMMA RankedLeaves ==
  ASSUME Typed, TypeInv, Ground, Held, Ranked, faults <= 2, pc \in InstallSteps,
         flash' \in {flash, InstallTorn(flash), InstallWrite(flash)}, installs' = installs,
         Retry \/ Reset
  PROVE  Ranked'
<1>1. /\ RankedSlots' /\ flash'[running] = flash[running]
      /\ \A s \in Slots : flash'[s].floors.floor <= Key(inst.image)
  BY RankedWritten
<1>2. CASE Reset  BY <1>1, <1>2 DEF Reset, Ranked, RankedInstall, InstallSteps
<1>3. CASE ~Reset
  <2>1. /\ pc' = "eraseBody" /\ inst' = [inst EXCEPT !.attempt = @ + 1] /\ inst \in Install
        /\ running' = running
    BY <1>3 DEF Retry, TypeInv
  <2>2. inst'.image = inst.image /\ inst'.counter = inst.counter /\ inst'.floor = inst.floor
    BY <2>1 DEF Install
  <2>. QED  BY <1>1, <2>1, <2>2 DEF Ranked, RankedInstall, NotUnderAnyFloor, InstallSteps, Key
<1>. QED  BY <1>2, <1>3

LEMMA RankedConfirmed ==
  ASSUME Typed, TypeInv, Held, Ranked, faults <= 2, pc \in ConfirmSteps,
         flash' \in {flash, ConfirmTorn(flash), ConfirmWrite(flash)},
         installs' = installs, pc' \notin InstallSteps
  PROVE  Ranked'
<1>r. PICK r \in Slots : r = running  BY DEF TypeInv, Running
<1>. DEFINE d == flash[r]
            e == flash'[r]
<1>1. Whole(r) /\ Trial(flash, r) /\ (\E s \in Slots : Safe(s))
  BY <1>r DEF Held, InApp, Running, AtRest
<1>2. PICK o \in Slots : o # r /\ Safe(o)
  BY <1>1 DEF Safe, Trial
<1>3. /\ e.body = d.body /\ e.trailer = d.trailer /\ e.counter = d.counter
      /\ flash'[o] = flash[o]
  BY <1>r, <1>2, ConfirmSlot
<1>4. /\ \A t \in Slots : flash[t].floors.floor <= Key(d.trailer)
      /\ d.counter > flash[o].counter
      /\ \A s \in Slots : flash[s].counter <= 2 + installs
  BY <1>1, <1>2 DEF Ranked, RankedSlots, OnTrialAt, Whole, NotUnderAnyFloor
<1>5. Image = d.trailer /\ Key(Image) \in Nat /\ d.floors \in Region /\ d.floors.floor \in Nat
  BY <1>r, <1>1, KeyType, SlotFacts DEF Image, Whole, Typed
<1>6. e.floors.floor <= Key(d.trailer)
  <2>. HIDE DEF d, e
  <2>1. /\ Raised(d.floors, Key(Image)).floor <= Key(d.trailer)
        /\ TornRaise(d.floors, Key(Image)).floor <= Key(d.trailer)
        /\ d.floors.floor <= Key(d.trailer)
    BY <1>4, <1>5 DEF Raised, TornRaise, Append, Smudge, Larger, Region, d
  <2>2. e.floors \in {d.floors, Raised(d.floors, Key(Image)), TornRaise(d.floors, Key(Image))}
    BY <1>r, ConfirmFloors DEF d, e
  <2>. QED  BY <2>1, <2>2
<1>7. ~OnTrialAt(o)'  BY <1>2, <1>3 DEF OnTrialAt, Trial, Safe
<1>8. \A s \in Slots \ {r} : s = o  BY <1>2, Other
<1>9. \A t \in Slots : /\ flash'[t].floors.floor <= Key(d.trailer)
                       /\ flash'[t].counter <= 2 + installs'
  BY <1>2, <1>3, <1>4, <1>6, <1>8
<1>10. RankedSlots'
  <2>1. Whole(r)'  BY <1>1, <1>3 DEF Whole
  <2>2. NotUnderAnyFloor(flash[r].trailer)'  BY <1>3, <1>9 DEF NotUnderAnyFloor, Key
  <2>3. \A t \in Slots \ {r} : flash'[r].counter > flash'[t].counter
    BY <1>3, <1>4, <1>8
  <2>. QED  BY <1>7, <1>8, <1>9, <2>1, <2>2, <2>3 DEF RankedSlots
<1>. QED  BY <1>10 DEF Ranked, RankedInstall, InstallSteps

LEMMA RankedStep ==
  ASSUME NoWrap
  PROVE  StubInv /\ Ground /\ Held /\ RankedInv /\ [StubNext]_allVars => RankedInv'
<1>. SUFFICES ASSUME StubInv, Ground, Held, RankedInv, [StubNext]_allVars, faults' <= 2
              PROVE  Ranked'
  BY DEF RankedInv
<1>0. Typed /\ faults \in Nat  BY AlwaysTyped DEF Typed
<1>1. CASE Booting
  BY <1>0, <1>1, BootWrites, RankedIdle DEF RankedInv
<1>2. CASE TypeInv /\ (ConfirmStep \/ ConfirmFault)
  <2>1. /\ faults <= 2 /\ pc \in ConfirmSteps /\ installs' = installs
        /\ flash' \in {flash, ConfirmTorn(flash), ConfirmWrite(flash)}
        /\ pc' \notin InstallSteps
    BY <1>0, <1>2 DEF ConfirmStep, ConfirmFault, AfterConfirm, ConfirmSteps, InstallSteps
  <2>. QED  BY <1>0, <1>2, <2>1, RankedConfirmed DEF RankedInv
<1>3. CASE TypeInv /\ \E i \in Images : Offer(i) \/ RecoveryOffer(i)
  <2>1. PICK i \in Images : Offer(i) \/ RecoveryOffer(i)  BY <1>3
  <2>2. faults <= 2  BY <2>1 DEF Offer, RecoveryOffer, Begin
  <2>3. ~RecoveryOffer(i)  BY <2>2 DEF RecoveryOffer, Held
  <2>. QED  BY <1>0, <1>3, <2>1, <2>2, <2>3, RankedOffer DEF RankedInv
<1>4. CASE TypeInv /\ (InstallStep \/ StreamWrong)
  <2>1. faults <= 2 /\ faults' \in Nat  BY <1>0, <1>4 DEF InstallStep, StreamWrong
  <2>. QED  BY <1>0, <1>4, <2>1, RankedInstalls DEF RankedInv
<1>5. CASE TypeInv /\ (HashMismatch \/ InstallDone \/ InstallFails)
  <2>1. /\ pc \in InstallSteps /\ kept' = kept /\ installs' = installs
        /\ faults' \in {faults, faults + 1}
        /\ flash' \in {flash, InstallTorn(flash), InstallWrite(flash)}
        /\ Retry \/ Reset
    BY <1>5 DEF HashMismatch, InstallDone, InstallFails, InstallSteps
  <2>. QED  BY <1>0, <1>5, <2>1, RankedLeaves DEF RankedInv
<1>6. CASE TypeInv /\ TornCut
  <2>1. /\ faults <= 2 /\ installs' = installs /\ Reset
        /\ pc \in ConfirmSteps \cup InstallSteps
        /\ flash' = IF pc \in ConfirmSteps THEN ConfirmTorn(flash) ELSE InstallTorn(flash)
    BY <1>0, <1>6 DEF TornCut
  <2>2. CASE pc \in ConfirmSteps
    BY <1>0, <1>6, <2>1, <2>2, RankedConfirmed DEF RankedInv, Reset, InstallSteps
  <2>3. CASE pc \notin ConfirmSteps
    BY <1>0, <1>6, <2>1, <2>3, RankedLeaves DEF RankedInv
  <2>. QED  BY <2>2, <2>3
<1>7. CASE UNCHANGED allVars
  BY <1>7 DEF allVars, RankedInv, Ranked, RankedSlots, RankedInstall, OnTrialAt, Trial,
              Whole, NotUnderAnyFloor
<1>. QED  BY <1>1, <1>2, <1>3, <1>4, <1>5, <1>6, <1>7, NotBooting

(* The stub picks an armed trial while its own budget has an attempt left. *)
StubPicksArmed ==
  \A s \in Slots : OnTrialAt(s) /\ flash[s].attempts < StubMaxAttempts =>
    StubOk(flash, s) /\ Newest(flash, {t \in Slots : StubOk(flash, t)}) = s

LEMMA RankedHolds ==
  ASSUME OneEpoch, Typed, Ground, Held, Ranked, faults <= 2
  PROVE  ArmedWins /\ StubPicksArmed
<1>1. pc = "flush" => flash[inst.target].body = inst.image
  BY DEF Ground, InstallSteps
<1>2. ASSUME NEW s \in Slots, OnTrialAt(s)
      PROVE  /\ flash[s].attempts < MaxAttempts =>
                  Bootable(flash, s) /\ Winner(flash, {t \in Slots : Bootable(flash, t)}) = s
             /\ flash[s].attempts < StubMaxAttempts =>
                  StubOk(flash, s) /\ Newest(flash, {t \in Slots : StubOk(flash, t)}) = s
  <2>1. /\ Whole(s) /\ NotUnderAnyFloor(flash[s].trailer)
        /\ \A t \in Slots \ {s} : flash[s].counter > flash[t].counter
    BY <1>2 DEF Ranked, RankedSlots
  <2>2. \A t \in Slots : flash[t].counter \in Int /\ flash[t].floors.floor \in Nat
    BY SlotFacts DEF Typed
  <2>3. Authentic(flash, s) /\ flash[s].trailer \in Images /\ Key(flash[s].trailer) \in Nat
    BY <2>1, KeyType, KeptAccepted DEF Whole
  <2>4. Key(flash[s].trailer) >= Floor(flash)
    BY <2>1, <2>2, <2>3, TwoSlots, StubAssumption DEF Floor, Larger, NotUnderAnyFloor
  <2>5. ASSUME flash[s].attempts < MaxAttempts
        PROVE  Bootable(flash, s) /\ Winner(flash, {t \in Slots : Bootable(flash, t)}) = s
    <3>. DEFINE c == {t \in Slots : Bootable(flash, t)}
    <3>1. Bootable(flash, s)
      BY <1>2, <2>3, <2>4, <2>5 DEF Bootable, MayTry, OnTrialAt, Trial
    <3>2. s \in c /\ c \in SUBSET Slots  BY <3>1
    <3>. HIDE DEF c
    <3>3. /\ Winner(flash, c) \in c
          /\ \A t \in c \ {Winner(flash, c)} : Preferred(flash, Winner(flash, c), t)
      BY <3>2, WinnerWins DEF Typed
    <3>4. \A t \in Slots \ {s} : ~Preferred(flash, t, s)
      BY <2>1, <2>2 DEF Preferred
    <3>5. Winner(flash, c) = s  BY <3>2, <3>3, <3>4
    <3>. QED  BY <3>1, <3>5 DEF c
  <2>6. ASSUME flash[s].attempts < StubMaxAttempts
        PROVE  StubOk(flash, s) /\ Newest(flash, {t \in Slots : StubOk(flash, t)}) = s
    <3>. DEFINE c == {t \in Slots : StubOk(flash, t)}
    <3>1. StubOk(flash, s)
      BY <1>2, <2>3, <2>4, <2>6 DEF StubOk, Authentic, OnTrialAt, Trial
    <3>2. s \in c /\ c \in SUBSET Slots  BY <3>1
    <3>. HIDE DEF c
    <3>3. /\ Newest(flash, c) \in c
          /\ \A t \in c \ {Newest(flash, c)} : StubNewer(flash, Newest(flash, c), t)
      BY <3>2, NewestWins DEF Typed
    <3>4. \A t \in Slots \ {s} : ~StubNewer(flash, t, s)
      BY <2>1, <2>2 DEF StubNewer
    <3>5. Newest(flash, c) = s  BY <3>2, <3>3, <3>4
    <3>. QED  BY <3>1, <3>5 DEF c
  <2>. QED  BY <2>5, <2>6
<1>. QED  BY <1>1, <1>2 DEF ArmedWins, StubPicksArmed, OnTrialAt

(* With up to two torn or failed flash operations, an installed trial with *)
(* an attempt left is what boots: it outranks the other slot for boot.py   *)
(* and for the stub, and no floor locks it out of either.                  *)
THEOREM StubArmedBoots ==
  ASSUME OneEpoch, NoWrap
  PROVE  StubSpec => [](faults <= 2 => ArmedWins /\ StubPicksArmed)
<1>. DEFINE I == StubInv /\ RecordInv /\ Ground /\ Held
<1>1. I /\ RankedInv /\ [StubNext]_allVars => RankedInv'  BY RankedStep
<1>2. I /\ RankedInv => (faults <= 2 => ArmedWins /\ StubPicksArmed)
  BY AlwaysTyped, RankedHolds DEF RankedInv
<1>3. StubInit => RankedInv  BY RankedStart DEF RankedInv
<1>4. StubSpec => []I  BY HeldAlways
<1>. HIDE DEF I
<1>. QED  BY <1>1, <1>2, <1>3, <1>4, PTL DEF StubSpec

-----------------------------------------------------------------------------
(* The promise of UpdatePromise, with the trials the two boot programs     *)
(* grant between them.  One fault of the stub ends it: a firmware install  *)
(* that is reported as failed sends the stub on to the older of two        *)
(* confirmed slots, and what is installed from there goes over the newer   *)
(* one.  A torn or failed write of any other kind does not disturb it.     *)
StubPromise == INSTANCE UpdatePromise WITH
  Releases    <- Images,
  Rank        <- [i \in Images |-> Key(i)],
  First       <- Factory,
  MaxTries    <- Highest,
  keptRelease <- KeptRelease,
  trial       <- TrialRelease,
  paid        <- Paid,
  ran         <- Ran,
  on          <- On

StubMaps == [StubPromise!Next]_(StubPromise!pvars)
KeepsStubPromise == StubPromise!Spec
PromiseUntilFault == StubPromise!Init /\ [][faults = 0 => StubMaps]_allVars

(* Nothing runs while the boot programs do.                                *)
OffInv == pc \in StubSteps \cup BootSteps => running = None

LEMMA OffStep == StubInv /\ OffInv /\ [StubNext]_allVars => OffInv'
<1>. SUFFICES ASSUME StubInv, OffInv, [StubNext]_allVars  PROVE OffInv'
  OBVIOUS
<1>1. CASE StubBoot \/ FollowRecord \/ PySurvey
  BY <1>1 DEF StubBoot, FollowRecord, PySurvey, StubSurvey, StubTake, StubBurn, StubBurnFails,
         StubJump, StubBegin, StubRefuse, StubInstall, StubVerify, StubInstallFails, StubNoSlot,
         StubHalt, OffInv, StubSteps, StubInstallSteps, BootSteps
<1>2. CASE StubTornCut \/ StubCut
  BY <1>2 DEF StubTornCut, StubCut, PowerCut, Reset, OffInv
<1>3. CASE PyBoot
  BY <1>3 DEF PyBoot, ChooseKept, BurnAttempt, ArmFails, Mount, NoSlot, OffInv, BootSteps,
         StubSteps, StubInstallSteps
<1>4. CASE Confirm
  BY <1>4 DEF Confirm, ConfirmBegin, ConfirmStep, ConfirmFault, AfterConfirm, ConfirmSteps,
         OffInv, StubSteps, StubInstallSteps, BootSteps
<1>5. CASE Update
  BY <1>5 DEF Update, Offer, RecoveryOffer, Begin, InstallStep, StreamWrong, HashMismatch,
         InstallDone, InstallFails, Retry, Reset, AfterInstall, InstallSteps, OffInv, StubSteps,
         StubInstallSteps, BootSteps
<1>6. CASE TornCut  BY <1>6 DEF TornCut, Reset, OffInv
<1>7. CASE UNCHANGED allVars  BY <1>7 DEF allVars, OffInv
<1>. QED  BY <1>1, <1>2, <1>3, <1>4, <1>5, <1>6, <1>7 DEF StubNext

LEMMA KeptAndOther ==
  ASSUME Typed
  PROVE  \E o \in Slots : o # kept /\ Slots = {kept, o} /\ Slots \ {kept} = {o}
<1>1. PICK k \in Slots : k = kept  BY DEF Typed
<1>2. PICK o \in Slots : o # k  BY TwoSlots
<1>3. Slots = {k, o}  BY <1>2, TwoSlots
<1>. QED  BY <1>1, <1>2, <1>3

LEMMA StubHidden ==
  ASSUME UNCHANGED Mapped, On' \in {On, "off"}
  PROVE  StubMaps
<1>1. CASE On' = On
  BY <1>1 DEF StubMaps, StubPromise!pvars, Mapped
<1>2. CASE On' = "off"
  <2>1. StubPromise!Off  BY <1>2 DEF StubPromise!Off, Mapped
  <2>. QED  BY <2>1 DEF StubMaps, StubPromise!Next
<1>. QED  BY <1>1, <1>2

LEMMA StubIdleMaps ==
  ASSUME Typed, flash' = flash, kept' = kept, runs' = runs, running' \in {running, None}
  PROVE  StubMaps
<1>1. PICK o \in Slots : o # kept /\ Slots = {kept, o} /\ Slots \ {kept} = {o}
  BY KeptAndOther
<1>2. UNCHANGED Mapped  BY <1>1, SameRead DEF OnTrialAt, Trial
<1>3. On' \in {On, "off"}  BY DEF On
<1>. QED  BY <1>2, <1>3, StubHidden

(* The stub, or boot.py, pays for a trial.                                 *)
LEMMA StubPayMaps ==
  ASSUME Typed, KeptLeads, NEW s \in Slots, Trial(flash, s),
         flash[s].trailer \in Images, flash[s].attempts < Highest,
         flash' = Burned(flash, s), kept' = kept, runs' = runs,
         running = None, running' = None
  PROVE  StubMaps
<1>0. PICK o \in Slots : o # kept /\ Slots = {kept, o} /\ Slots \ {kept} = {o}
  BY KeptAndOther
<1>1. s = o  BY <1>0 DEF KeptLeads, Safe, Trial
<1>2. PICK k \in Slots : k = kept  BY DEF Typed
<1>3. /\ flash'[k].trailer = flash[k].trailer
      /\ flash'[o].body = flash[o].body /\ flash'[o].trailer = flash[o].trailer
      /\ flash'[o].pending = flash[o].pending /\ flash'[o].confirmed = flash[o].confirmed
      /\ flash'[o].attempts = flash[o].attempts + 1
  BY <1>0, <1>1, <1>2, BurnedSlot DEF Typed
<1>4. OnTrialAt(o)' <=> OnTrialAt(o)  BY <1>3 DEF OnTrialAt, Trial
<1>5. On = "off" /\ On' = "off"  BY DEF On
<1>6. CASE ~OnTrialAt(o)
  <2>1. UNCHANGED Mapped  BY <1>0, <1>2, <1>3, <1>4, <1>6, SameRead
  <2>. QED  BY <1>5, <2>1, StubHidden
<1>7. CASE OnTrialAt(o)
  <2>1. /\ TrialRelease = flash[o].trailer /\ Paid = flash[o].attempts /\ Ran = runs[o]
        /\ TrialRelease' = flash[o].trailer /\ Paid' = flash[o].attempts + 1 /\ Ran' = runs[o]
    BY <1>0, <1>3, <1>4, <1>7, ReadsHold, ReadsHoldNext DEF Reads
  <2>2. KeptRelease' = KeptRelease  BY <1>2, <1>3 DEF KeptRelease
  <2>3. StubPromise!Pay
    BY <1>1, <1>5, <2>1, <2>2, ImagesAssumption DEF StubPromise!Pay
  <2>. QED  BY <2>3 DEF StubMaps, StubPromise!Next
<1>. QED  BY <1>6, <1>7

LEMMA StubMountMaps ==
  ASSUME Typed, Straight, OffInv, Mount
  PROVE  StubMaps
<1>0. PICK o \in Slots : o # kept /\ Slots = {kept, o} /\ Slots \ {kept} = {o}
  BY KeptAndOther
<1>1. /\ flash' = flash /\ kept' = kept /\ running' = Winner(flash, cand) /\ pc = "mount"
      /\ runs' = [runs EXCEPT ![Winner(flash, cand)] =
                    @ + (IF flash[Winner(flash, cand)].confirmed THEN 0 ELSE 1)]
  BY DEF Mount
<1>2. running = None  BY <1>1 DEF OffInv, BootSteps
<1>s. PICK s \in Slots : s = Winner(flash, cand) /\ Whole(s) /\ Leads(s) /\ Settled(s)
  BY <1>1 DEF Straight, KeptAtMount
<1>4. On = "off" /\ None \notin Slots  BY <1>2, ImagesAssumption DEF On
<1>5. CASE s = kept
  <2>1. runs'[o] = runs[o]  BY <1>0, <1>s, <1>1, <1>5 DEF Typed
  <2>2. UNCHANGED Mapped  BY <1>0, <1>1, <2>1, SameRead DEF OnTrialAt, Trial
  <2>3. On' = "kept"  BY <1>s, <1>1, <1>4, <1>5 DEF On
  <2>4. StubPromise!RunKept
    BY <1>4, <2>2, <2>3 DEF StubPromise!RunKept, Mapped
  <2>. QED  BY <2>4 DEF StubMaps, StubPromise!Next
<1>6. CASE s # kept
  <2>1. s = o  BY <1>0, <1>6
  <2>2. Trial(flash, s)  BY <1>s, <1>6 DEF Leads
  <2>3. OnTrialAt(o) /\ OnTrialAt(o)' /\ flash[o].trailer \in Images
    BY <1>s, <1>1, <2>1, <2>2 DEF OnTrialAt, Trial, Whole
  <2>4. runs'[o] = runs[o] + 1 /\ runs[o] \in Nat /\ flash[o].attempts \in Nat
    BY <1>s, <1>1, <2>1, <2>2, SlotFacts DEF Trial, Typed
  <2>5. runs[o] < flash[o].attempts  BY <1>s, <2>1, <2>2 DEF Settled, Trial
  <2>6. /\ TrialRelease = flash[o].trailer /\ Paid = flash[o].attempts /\ Ran = runs[o]
        /\ TrialRelease' = flash[o].trailer /\ Paid' = flash[o].attempts
        /\ Ran' = runs[o] + 1
    BY <1>0, <1>1, <2>3, <2>4, ReadsHold, ReadsHoldNext DEF Reads
  <2>7. On' = "trial" /\ KeptRelease' = KeptRelease
    BY <1>s, <1>1, <1>4, <1>6 DEF On, KeptRelease
  <2>8. StubPromise!Try
    BY <1>4, <2>3, <2>5, <2>6, <2>7, ImagesAssumption DEF StubPromise!Try
  <2>. QED  BY <2>8 DEF StubMaps, StubPromise!Next
<1>. QED  BY <1>5, <1>6

(* confirm(), whatever it writes or half writes: its mark keeps the trial  *)
(* that runs.                                                              *)
LEMMA StubConfirmMaps ==
  ASSUME Typed, TypeInv, Straight, pc \in ConfirmSteps, runs' = runs,
         flash' \in {flash, ConfirmTorn(flash), ConfirmWrite(flash)},
         \/ running' = running /\ kept' = KeptIn(flash')
         \/ running' = None /\ kept' = kept /\ flash' = ConfirmTorn(flash)
  PROVE  StubMaps
<1>0. PICK o \in Slots : o # kept /\ Slots = {kept, o} /\ Slots \ {kept} = {o}
  BY KeptAndOther
<1>k. PICK k \in Slots : k = kept /\ Safe(k)  BY DEF Typed, Straight, KeptLeads
<1>1. running \in Slots /\ None \notin Slots
  BY ImagesAssumption DEF TypeInv, Running
<1>2. Whole(running) /\ Trial(flash, running)  BY DEF Straight, KeptInApp, Running
<1>3. running = o  BY <1>0, <1>k, <1>1, <1>2 DEF Safe, Trial
<1>4. /\ flash'[k] = flash[k]
      /\ flash'[o].body = flash[o].body /\ flash'[o].trailer = flash[o].trailer
      /\ flash'[o].pending = flash[o].pending /\ flash'[o].attempts = flash[o].attempts
      /\ flash'[o].confirmed = flash[o].confirmed \/ (pc = "mark" /\ flash'[o].confirmed)
  BY <1>0, <1>k, <1>1, <1>3, ConfirmSlot
<1>9. flash'[o].confirmed => kept' = o /\ running' = running
  <2>1. ~flash[o].confirmed  BY <1>2, <1>3 DEF Trial
  <2>2. flash'[o].confirmed => flash' # ConfirmTorn(flash)
    BY <1>4, <2>1 DEF ConfirmTorn
  <2>3. flash'[o].confirmed => pc = "mark"  BY <1>4, <2>1
  <2>. QED  BY <1>3, <2>2, <2>3 DEF KeptIn
<1>5. OnTrialAt(o)  BY <1>2, <1>3 DEF OnTrialAt, Whole
<1>6. CASE flash'[o].confirmed
  <2>1. kept' = o /\ running' = running  BY <1>6, <1>9
  <2>2. Slots \ {kept'} = {k}  BY <1>0, <1>k, <2>1
  <2>3. ~OnTrialAt(k)'  BY <1>k, <1>4 DEF OnTrialAt, Trial, Safe
  <2>4. TrialRelease' = None /\ Paid' = 0 /\ Ran' = 0
    BY <2>2, <2>3, ReadsHoldNext DEF Reads
  <2>5. TrialRelease = flash[o].trailer  BY <1>0, <1>5, ReadsHold DEF Reads
  <2>6. KeptRelease' = TrialRelease  BY <1>4, <2>1, <2>5 DEF KeptRelease
  <2>7. On = "trial" /\ On' = "kept"  BY <1>0, <1>1, <1>3, <2>1 DEF On
  <2>8. StubPromise!Keep  BY <2>4, <2>6, <2>7 DEF StubPromise!Keep
  <2>. QED  BY <2>8 DEF StubMaps, StubPromise!Next
<1>7. CASE ~flash'[o].confirmed
  <2>1. kept' = kept /\ (OnTrialAt(o)' <=> OnTrialAt(o))
    BY <1>2, <1>3, <1>4, <1>7 DEF KeptIn, OnTrialAt, Trial
  <2>2. UNCHANGED Mapped  BY <1>0, <1>k, <1>1, <1>4, <2>1, SameRead
  <2>3. On' \in {On, "off"}  BY <2>1 DEF On
  <2>. QED  BY <2>2, <2>3, StubHidden
<1>. QED  BY <1>6, <1>7

(* The erase loses what was on trial, the arming mark brings the new       *)
(* release in, and nothing else of an install shows.                       *)
LEMMA StubInstallMaps ==
  ASSUME Typed, TypeInv, Ground, Straight, Covered, pc \in InstallSteps,
         flash' \in {flash, InstallWrite(flash), InstallTorn(flash)},
         runs' = RunsIn(flash'), kept' = kept, running' \in {running, None}
  PROVE  StubMaps
<1>0. PICK o \in Slots : o # kept /\ Slots = {kept, o} /\ Slots \ {kept} = {o}
  BY KeptAndOther
<1>k. PICK k \in Slots : k = kept /\ Safe(k)  BY DEF Typed, Straight, KeptLeads
<1>. DEFINE d == flash[o]
            e == flash'[o]
<1>1. running = kept /\ inst.target = o /\ inst.image \in Images
  BY <1>0, <1>k, Written DEF Straight
<1>2. /\ flash'[k] = flash[k] /\ d \in Slot /\ runs \in [Slots -> Nat]
      /\ pc = "eraseBody" => e = d \/ e.body \in {Blank, Torn}
      /\ pc = "eraseStatus" => e = d \/ (~e.pending /\ e.body = d.body)
      /\ pc \in Unarmed \ {"arm"} => e.pending = d.pending
      /\ pc = "arm" => e = d \/ e = [d EXCEPT !.pending = TRUE]
      /\ pc = "flush" => e = d
  BY <1>0, <1>k, <1>1, Written DEF Flash, Typed
<1>3. On = "kept" /\ On' \in {On, "off"}
  BY <1>0, <1>k, <1>1, ImagesAssumption DEF On
<1>4. e.body = d.body => runs'[o] = runs[o]  BY <1>2 DEF RunsIn
<1>5. CASE e = d
  BY <1>0, <1>k, <1>2, <1>3, <1>4, <1>5, SameRead, StubHidden DEF OnTrialAt, Trial
<1>6. CASE pc = "eraseBody" /\ e # d
  <2>1. ~OnTrialAt(o)'  BY <1>2, <1>6, ImagesAssumption DEF OnTrialAt
  <2>2. TrialRelease' = None /\ Paid' = 0 /\ Ran' = 0
    BY <1>0, <2>1, ReadsHoldNext DEF Reads
  <2>3. KeptRelease' = KeptRelease  BY <1>k, <1>2 DEF KeptRelease
  <2>4. StubPromise!Lose
    BY <1>3, <2>2, <2>3 DEF StubPromise!Lose, StubPromise!Stays
  <2>. QED  BY <2>4 DEF StubMaps, StubPromise!Next
<1>7. CASE pc \in InstallSteps \ {"eraseBody", "arm"} /\ e # d
  <2>1. pc = "eraseStatus" => d.body = Blank  BY <1>1 DEF Ground
  <2>2. pc \in Unarmed => ~d.pending  BY <1>1 DEF Ground
  <2>3. ~OnTrialAt(o) /\ ~OnTrialAt(o)'
    BY <1>2, <1>7, <2>1, <2>2, ImagesAssumption DEF InstallSteps, Unarmed, OnTrialAt, Trial
  <2>. QED  BY <1>0, <1>k, <1>2, <1>3, <2>3, SameRead, StubHidden
<1>8. CASE pc = "arm" /\ e # d
  <2>1. /\ ~d.confirmed /\ d.attempts = 0 /\ d.trailer = inst.image /\ d.body = inst.image
        /\ runs[o] = 0
    BY <1>1, <1>8 DEF Ground, Unarmed, InstallSteps
  <2>2. /\ e.trailer = inst.image /\ e.body = inst.image /\ e.attempts = 0
        /\ ~e.confirmed /\ e.pending
    BY <1>2, <1>8, <2>1 DEF Slot
  <2>3. runs'[o] = 0  BY <1>4, <2>1, <2>2
  <2>4. OnTrialAt(o)'  BY <1>1, <2>2 DEF OnTrialAt, Trial
  <2>5. TrialRelease' = inst.image /\ Paid' = 0 /\ Ran' = 0
    BY <1>0, <2>2, <2>3, <2>4, ReadsHoldNext DEF Reads
  <2>6. KeptRelease' = KeptRelease /\ KeptRelease \in Images
    BY <1>k, <1>2 DEF KeptRelease, Safe, Whole
  <2>7. Key(inst.image) >= Key(KeptRelease)
    BY <1>0, <1>1 DEF Covered, CoveredInstall, KeptRelease
  <2>8. StubPromise!Arrive(inst.image)
    BY <1>1, <1>3, <2>5, <2>6, <2>7 DEF StubPromise!Arrive, StubPromise!Stays
  <2>. QED  BY <1>1, <2>8 DEF StubMaps, StubPromise!Next
<1>. QED  BY <1>5, <1>6, <1>7, <1>8

LEMMA StubStepMaps ==
  ASSUME StubInv, Ground, Straight, Covered, OffInv, OffInv', [StubNext]_allVars
  PROVE  StubMaps
<1>0. Typed  BY AlwaysTyped
<1>1. CASE StubBurn \/ StubBurnFails
  <2>1. PICK s \in Slots : s = Newest(flash, cand) /\ s \in cand
    BY <1>0, <1>1, NewestWins DEF StubBurn, StubBurnFails, Typed
  <2>2. /\ StubOk(flash, s) /\ Trial(flash, s)
        /\ kept' = kept /\ runs' = runs /\ flash' \in {flash, Burned(flash, s)}
    BY <1>1, <2>1 DEF StubBurn, StubBurnFails, Straight, KeptInLoop, Trying
  <2>3. flash[s].attempts < Highest /\ flash[s].trailer \in Images
    BY <1>0, <2>2, HighestBounds, SlotFacts DEF StubOk, Trial, Typed
  <2>4. running = None /\ running' = None
    BY <1>1 DEF StubBurn, StubBurnFails, OffInv, StubSteps
  <2>. QED  BY <1>0, <2>2, <2>3, <2>4, StubPayMaps, StubIdleMaps DEF Straight
<1>2. CASE BurnAttempt \/ ArmFails
  <2>1. PICK s \in Slots : s = Winner(flash, cand) /\ s \in cand
    BY <1>0, <1>2, WinnerWins DEF BurnAttempt, ArmFails, Typed
  <2>2. /\ kept' = kept /\ runs' = runs /\ running' = running /\ pc = "pick"
        /\ ~flash[s].confirmed /\ flash' \in {flash, Burned(flash, s)}
    BY <1>2, <2>1 DEF BurnAttempt, ArmFails
  <2>3. Trial(flash, s) /\ flash[s].attempts < Highest /\ flash[s].trailer \in Images
    BY <1>0, <2>1, <2>2, HighestBounds, SlotFacts
       DEF Straight, KeptAtPick, Whole, Marked, Trial, Typed
  <2>4. running = None  BY <2>2 DEF OffInv, BootSteps
  <2>. QED  BY <1>0, <2>1, <2>2, <2>3, <2>4, StubPayMaps, StubIdleMaps DEF Straight
<1>3. CASE Mount  BY <1>0, <1>3, StubMountMaps
<1>4. CASE Booting /\ ~StubBurn /\ ~StubBurnFails /\ ~Mount /\ ~BurnAttempt /\ ~ArmFails
  <2>1. flash' = flash /\ kept' = kept /\ runs' = runs /\ running' \in {running, None}
    BY <1>0, <1>4
       DEF Booting, StubBoot, StubSurvey, StubTake, StubJump, StubBegin,
           StubRefuse, StubInstall, StubVerify, StubInstallFails, StubNoSlot, StubHalt,
           StubTornCut, StubCut, PowerCut, Reset, FollowRecord, PySurvey, PyBoot, ChooseKept,
           NoSlot, ConfirmBegin
  <2>. QED  BY <1>0, <2>1, StubIdleMaps
<1>5. CASE TypeInv /\ (ConfirmStep \/ ConfirmFault)
  BY <1>0, <1>5, StubConfirmMaps DEF ConfirmStep, ConfirmFault
<1>6. CASE TypeInv /\ (InstallStep \/ StreamWrong \/ InstallFails)
  BY <1>0, <1>6, StubInstallMaps
     DEF InstallStep, StreamWrong, InstallFails, InstallSteps, Retry, Reset
<1>7. CASE TypeInv /\ TornCut
  <2>1. /\ pc \in ConfirmSteps \cup InstallSteps /\ kept' = kept /\ running' = None
        /\ flash' = (IF pc \in ConfirmSteps THEN ConfirmTorn(flash) ELSE InstallTorn(flash))
        /\ runs' = RunsIn(flash')
    BY <1>7 DEF TornCut, Reset
  <2>2. CASE pc \in ConfirmSteps
    <3>1. flash' = ConfirmTorn(flash)  BY <2>1, <2>2
    <3>2. \A t \in Slots : flash'[t].body = flash[t].body  BY <1>7, <2>2, <3>1, ConfirmSlot
    <3>3. runs' = runs  BY <1>0, <2>1, <3>2 DEF RunsIn, Typed
    <3>. QED  BY <1>0, <1>7, <2>1, <2>2, <3>1, <3>3, StubConfirmMaps
  <2>3. CASE pc \notin ConfirmSteps
    BY <1>0, <1>7, <2>1, <2>3, StubInstallMaps
  <2>. QED  BY <2>2, <2>3
<1>8. CASE \/ UNCHANGED allVars \/ HashMismatch \/ InstallDone
           \/ \E i \in Images : Offer(i) \/ RecoveryOffer(i)
  <2>1. flash' = flash /\ kept' = kept /\ runs' = runs /\ running' \in {running, None}
    BY <1>8 DEF allVars, HashMismatch, InstallDone, Retry, Reset, Offer, RecoveryOffer, Begin
  <2>. QED  BY <1>0, <2>1, StubIdleMaps
<1>. QED  BY <1>1, <1>2, <1>3, <1>4, <1>5, <1>6, <1>7, <1>8, NotBooting

LEMMA StubStartMaps == StubInit => StubPromise!Init
<1>. SUFFICES ASSUME StubInit  PROVE StubPromise!Init
  OBVIOUS
<1>1. Promise!Init  BY StartMaps, StubAssumption DEF StubInit
<1>. QED  BY <1>1 DEF Promise!Init, StubPromise!Init, KeptRelease, TrialRelease, Paid, Ran, On

LEMMA AlwaysOff == StubSpec => []OffInv
<1>1. StubInit => OffInv  BY DEF OffInv, StubInit, Init
<1>. QED  BY <1>1, StubStart, StubTypeStep, OffStep, PTL DEF StubSpec

(* Up to and including its first torn or failed flash operation, whatever  *)
(* that is, every step of the two boot programs, of confirm() and of the   *)
(* installer is a step of UpdatePromise, or changes nothing it can see.    *)
THEOREM StubPromiseHolds ==
  ASSUME OneEpoch, Room
  PROVE  StubSpec => PromiseUntilFault
<1>. DEFINE I == StubInv /\ RecordInv /\ Ground /\ Held
<1>1. I /\ I' /\ UntilFault /\ [StubNext]_allVars => UntilFault'
  BY UntilFaultStep
<1>2. I /\ CoveredInv /\ [StubNext]_allVars => CoveredInv'  BY CoveredInvStep
<1>3. StubInit => UntilFault /\ CoveredInv
  BY StraightStart, CoveredStart DEF UntilFault, CoveredInv
<1>4. I /\ UntilFault /\ CoveredInv /\ OffInv /\ OffInv' /\ [StubNext]_allVars
        => [faults = 0 => StubMaps]_allVars
  BY StubStepMaps DEF UntilFault, CoveredInv
<1>5. StubSpec => []I  BY HeldAlways
<1>. HIDE DEF I
<1>. QED  BY <1>1, <1>2, <1>3, <1>4, <1>5, AlwaysOff, StubStartMaps, PTL
          DEF StubSpec, PromiseUntilFault

(* So where none of the stub's own firmware installs is reported as        *)
(* failed, StubUpdate implements UpdatePromise, however many other flash   *)
(* operations are torn or fail.                                            *)
THEOREM StubImplementsPromise ==
  ASSUME OneEpoch, Room
  PROVE  StubSpec /\ InstallsHold => KeepsStubPromise
<1>. DEFINE I == StubInv /\ RecordInv /\ Ground /\ Held
<1>1. I /\ Straight /\ Covered /\ OffInv /\ OffInv' /\ [StubNext]_allVars
        => [StubPromise!Next]_(StubPromise!pvars)
  BY StubStepMaps DEF StubMaps
<1>2. StubSpec => []I  BY HeldAlways
<1>. HIDE DEF I
<1>. QED  BY <1>1, <1>2, StraightAlways, CoveredAlways, AlwaysOff, StubStartMaps, PTL
          DEF StubSpec, KeepsStubPromise, StubPromise!Spec
=============================================================================
