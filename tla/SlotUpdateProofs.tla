-------------------------- MODULE SlotUpdateProofs --------------------------
(***************************************************************************)
(* Theorems about SlotUpdate, for every value of its constants: types, the *)
(* bound on the boots of a trial, and that A/B never loses its fallback.   *)
(***************************************************************************)
EXTENDS SlotUpdate, TLAPS

-----------------------------------------------------------------------------
(* What types need to be inductive: the RAM a program counter relies on    *)
(* has been set, and a floor region is blank when a floor is carried in.   *)
Running == {"app"} \cup ConfirmSteps

TypeInv ==
  /\ TypeOK
  /\ pc \in Running => running \in Slots /\ flash[running].trailer \in Images
  /\ pc \in {"pick", "mount"} => \A s \in cand : flash[s].trailer \in Images
  /\ pc = "mount" => cand # {}
  /\ pc \in InstallSteps => inst \in Install
  /\ pc \in {"eraseTrailer", "carryFloor"} => flash[inst.target].floors.used = 0
  /\ pc \in {"eraseTrailer", "carryFloor", "carryEpoch"} =>
       flash[inst.target].epochs.used = 0

Flash == [Slots -> Slot]

LEMMA SlotNames == Slots \in SUBSET {"A", "B"} /\ "A" \in Slots
  BY DEF Slots

LEMMA WinnerWins ==
  ASSUME NEW f \in Flash, NEW c \in SUBSET Slots, c # {}
  PROVE  /\ Winner(f, c) \in c
         /\ \A t \in c \ {Winner(f, c)} : Preferred(f, Winner(f, c), t)
<1>1. \A s \in Slots : f[s].counter \in Int /\ f[s].confirmed \in BOOLEAN
  BY BoundsAssumption DEF Flash, Slot, NoCounter
<1>2. \E s \in c : \A t \in c \ {s} : Preferred(f, s, t)
  <2>1. CASE c = {"A", "B"}
    <3>1. "A" \in Slots /\ "B" \in Slots
      BY <2>1
    <3>2. Preferred(f, "A", "B") \/ Preferred(f, "B", "A")
      BY <1>1, <3>1 DEF Preferred
    <3> QED BY <2>1, <3>2
  <2>2. CASE c # {"A", "B"}
    <3>1. PICK s \in c : c = {s}
      BY <2>2, SlotNames
    <3> QED BY <3>1
  <2> QED BY <2>1, <2>2
<1> QED BY <1>2 DEF Winner

(* Attempts do not enter into the choice.                                  *)
LEMMA WinnerStays ==
  ASSUME NEW f \in Flash, NEW g \in Flash, NEW c \in SUBSET Slots, c # {},
         \A t \in Slots : g[t].counter = f[t].counter /\ g[t].confirmed = f[t].confirmed
  PROVE  Winner(g, c) = Winner(f, c)
<1> DEFINE s == Winner(f, c)
           t == Winner(g, c)
<1>1. s \in c /\ t \in c /\ s \in Slots /\ t \in Slots
  BY WinnerWins
<1>2. s # t => Preferred(f, s, t) /\ Preferred(g, t, s)
  BY <1>1, WinnerWins
<1>3. \A r \in Slots : f[r].counter \in Int /\ f[r].confirmed \in BOOLEAN
  BY BoundsAssumption DEF Flash, Slot, NoCounter
<1> HIDE DEF s, t
<1>4. s = t
  BY <1>1, <1>2, <1>3 DEF Preferred
<1> QED BY <1>4 DEF s, t

LEMMA TargetWritable ==
  ASSUME NEW f \in Flash, NEW r
  PROVE  InstallTarget(f, r) \in Writable(r) /\ InstallTarget(f, r) \in Slots
<1> DEFINE c == Writable(r)
<1>1. \A s \in Slots : f[s].counter \in Int
  BY BoundsAssumption DEF Flash, Slot, NoCounter
<1>2. c \in SUBSET Slots /\ c # {}
  BY SlotNames DEF Writable
<1>3. \E s \in c : \A t \in c \ {s} : Older(f, s, t)
  <2>1. CASE c = {"A", "B"}
    <3>1. "A" \in Slots /\ "B" \in Slots
      BY <1>2, <2>1
    <3>2. Older(f, "A", "B") \/ Older(f, "B", "A")
      BY <1>1, <3>1 DEF Older
    <3> QED BY <2>1, <3>2
  <2>2. CASE c # {"A", "B"}
    <3>1. PICK s \in c : c = {s}
      BY <1>2, <2>2, SlotNames
    <3> QED BY <3>1
  <2> QED BY <2>1, <2>2
<1>4. InstallTarget(f, r) \in c
  BY <1>3 DEF InstallTarget
<1> QED BY <1>2, <1>4

LEMMA KeyType == \A i \in Images : Key(i) \in Nat /\ Meta[i].epoch \in Nat
  BY ImagesAssumption DEF Key, MetaRecord

LEMMA SurveyTypes ==
  ASSUME NEW f \in Flash
  PROVE  /\ Floor(f) \in Nat /\ EpochFloor(f) \in Nat
         /\ InstallCounter(f) \in 0 .. CounterMod - 1
<1>1. \A s \in Slots : /\ f[s].floors.floor \in Nat /\ f[s].epochs.floor \in Nat
                       /\ f[s].counter \in Int
  BY BoundsAssumption DEF Flash, Slot, Region, NoCounter
<1>2. CASE Single
  <2>1. "A" \in Slots
    BY SlotNames
  <2>2. Floor(f) \in Nat /\ EpochFloor(f) \in Nat
    BY <1>1, <1>2, <2>1 DEF Floor, EpochFloor
  <2>3. Larger(0, f["A"].counter) + 1 \in Nat
    BY <1>1, <2>1 DEF Larger
  <2>4. (Larger(0, f["A"].counter) + 1) % CounterMod \in 0 .. CounterMod - 1
    BY <2>3, BoundsAssumption
  <2> QED BY <1>2, <2>2, <2>4 DEF InstallCounter
<1>3. CASE ~Single
  <2>1. "A" \in Slots /\ "B" \in Slots
    BY <1>3 DEF Slots
  <2>2. Floor(f) \in Nat /\ EpochFloor(f) \in Nat
    BY <1>1, <1>3, <2>1 DEF Floor, EpochFloor, Larger
  <2> DEFINE h == Larger(0, Larger(f["A"].counter, f["B"].counter))
  <2>3. h + 1 \in Nat
    BY <1>1, <2>1 DEF Larger
  <2>4. (h + 1) % CounterMod \in 0 .. CounterMod - 1
    <3> HIDE DEF h
    <3> QED BY <2>3, BoundsAssumption
  <2> QED BY <1>3, <2>2, <2>4 DEF InstallCounter
<1> QED BY <1>2, <1>3

LEMMA RegionTypes ==
  ASSUME NEW r \in Region, NEW key \in Nat
  PROVE  /\ ~Full(r) => Append(r, key) \in Region /\ Smudge(r) \in Region
         /\ Raised(r, key) \in Region /\ TornRaise(r, key) \in Region
         /\ r.used = 0 => Carried(r, key) \in Region /\ Smudge(r) \in Region
         /\ BlankRegion \in Region
<1> USE BoundsAssumption DEF Region
<1>1. ASSUME r.used # FloorEntries
      PROVE  Append(r, key) \in Region /\ Smudge(r) \in Region
  BY <1>1 DEF Append, Smudge, Larger
<1>2. BlankRegion \in Region
  BY DEF BlankRegion
<1> QED BY <1>1, <1>2 DEF Full, Raised, TornRaise, Carried

LEMMA ProgramTypes ==
  ASSUME TypeInv, pc \in InstallSteps
  PROVE  InstallWrite(flash) \in Flash /\ InstallTorn(flash) \in Flash
<1> DEFINE d == flash[inst.target]
<1>1. /\ d \in Slot /\ inst.image \in Images /\ inst.target \in Slots
      /\ inst.counter \in 0 .. CounterMod - 1
      /\ inst.floor \in Nat /\ inst.epoch \in Nat
  BY DEF TypeInv, TypeOK, Install
<1>2. /\ pc \in {"eraseTrailer", "carryFloor"} => d.floors.used = 0
      /\ pc \in {"eraseTrailer", "carryFloor", "carryEpoch"} => d.epochs.used = 0
  BY DEF TypeInv
<1>3. d.floors \in Region /\ d.epochs \in Region
  BY <1>1 DEF Slot
<1>4. /\ d.floors.used = 0 => /\ Carried(d.floors, inst.floor) \in Region
                              /\ Smudge(d.floors) \in Region
      /\ d.epochs.used = 0 => /\ Carried(d.epochs, inst.epoch) \in Region
                              /\ Smudge(d.epochs) \in Region
      /\ BlankRegion \in Region
      /\ [BlankRegion EXCEPT !.used = FloorEntries] \in Region
  BY <1>1, <1>3, RegionTypes, BoundsAssumption DEF Region, BlankRegion
<1> HIDE DEF d
<1>5. BlankStatus(d) \in Slot
  <2>1. 0 \in 0 .. AttemptsMax
    BY BoundsAssumption
  <2> QED BY <1>1, <1>4, <2>1 DEF Slot, BlankStatus
<1>6. Programmed(d) \in Slot
  <2>1. CASE pc \in {"eraseBody", "eraseTrailer", "stream", "trailer", "counter",
                     "arm", "flush"}
    BY <1>1, <2>1 DEF Programmed, Slot
  <2>2. CASE pc = "eraseStatus"
    BY <1>5, <2>2 DEF Programmed
  <2>3. CASE pc = "carryFloor"
    BY <1>1, <1>2, <1>4, <2>3 DEF Programmed, Slot
  <2>4. CASE pc = "carryEpoch"
    BY <1>1, <1>2, <1>4, <2>4 DEF Programmed, Slot
  <2> QED BY <2>1, <2>2, <2>3, <2>4 DEF InstallSteps
<1>7. HalfProgrammed(d) \in Slot
  <2>1. CASE pc \in {"eraseBody", "eraseTrailer", "stream", "trailer", "counter",
                     "arm", "flush"}
    BY <1>1, <2>1 DEF HalfProgrammed, Slot
  <2>2. CASE pc = "eraseStatus"
    <3>1. /\ BlankStatus(d).floors = BlankRegion /\ BlankStatus(d).epochs = BlankRegion
          /\ AttemptsMax \in 0 .. AttemptsMax
      BY <1>1, BoundsAssumption DEF BlankStatus, Slot
    <3>2. HalfProgrammed(d) = [BlankStatus(d) EXCEPT !.attempts = AttemptsMax,
            !.floors = [BlankRegion EXCEPT !.used = FloorEntries],
            !.epochs = [BlankRegion EXCEPT !.used = FloorEntries]]
      BY <1>5, <2>2, <3>1 DEF HalfProgrammed, Slot
    <3> QED BY <1>4, <1>5, <3>1, <3>2 DEF Slot
  <2>3. CASE pc = "carryFloor"
    BY <1>1, <1>2, <1>4, <2>3 DEF HalfProgrammed, Slot
  <2>4. CASE pc = "carryEpoch"
    BY <1>1, <1>2, <1>4, <2>4 DEF HalfProgrammed, Slot
  <2> QED BY <2>1, <2>2, <2>3, <2>4 DEF InstallSteps
<1>8. InstallWrite(flash) = [flash EXCEPT ![inst.target] = Programmed(d)]
  BY <1>1 DEF InstallWrite, d, TypeInv, TypeOK
<1>9. InstallTorn(flash) = [flash EXCEPT ![inst.target] = HalfProgrammed(d)]
  BY <1>1 DEF InstallTorn, d, TypeInv, TypeOK
<1> QED BY <1>1, <1>6, <1>7, <1>8, <1>9 DEF TypeInv, TypeOK, Flash

LEMMA ConfirmTypes ==
  ASSUME TypeInv, pc \in ConfirmSteps
  PROVE  /\ ConfirmWrite(flash) \in Flash /\ ConfirmTorn(flash) \in Flash
         /\ \A s \in Slots : /\ ConfirmWrite(flash)[s].trailer = flash[s].trailer
                             /\ ConfirmTorn(flash)[s].trailer = flash[s].trailer
<1> DEFINE d == flash[running]
<1>1. /\ running \in Slots /\ d \in Slot /\ Image \in Images
      /\ d.floors \in Region /\ d.epochs \in Region
  BY DEF TypeInv, TypeOK, Running, Image, Slot
<1>2. /\ Raised(d.floors, Key(Image)) \in Region
      /\ TornRaise(d.floors, Key(Image)) \in Region
      /\ Raised(d.epochs, Meta[Image].epoch) \in Region
      /\ TornRaise(d.epochs, Meta[Image].epoch) \in Region
  BY <1>1, KeyType, RegionTypes
<1>3. CASE pc = "raiseFloor"
  BY <1>1, <1>2, <1>3 DEF ConfirmWrite, ConfirmTorn, TypeInv, TypeOK, Flash, Slot
<1>4. CASE pc = "raiseEpoch"
  BY <1>1, <1>2, <1>4 DEF ConfirmWrite, ConfirmTorn, TypeInv, TypeOK, Flash, Slot
<1>5. CASE pc = "mark"
  BY <1>1, <1>5 DEF ConfirmWrite, ConfirmTorn, TypeInv, TypeOK, Flash, Slot
<1> QED BY <1>3, <1>4, <1>5 DEF ConfirmSteps

LEMMA TypeInit == Init => TypeInv
<1> SUFFICES ASSUME Init PROVE TypeInv
  OBVIOUS
<1>1. Append(BlankRegion, Key(Factory)) \in Region
      /\ Append(BlankRegion, Meta[Factory].epoch) \in Region
  <2>1. BlankRegion \in Region /\ ~Full(BlankRegion)
    BY BoundsAssumption DEF BlankRegion, Region, Full
  <2> QED BY <2>1, RegionTypes, KeyType, LifecycleAssumption
<1>2. FactorySlot(1) \in Slot /\ FactorySlot(2) \in Slot
  BY <1>1, LifecycleAssumption, BoundsAssumption DEF FactorySlot, Slot
<1>3. flash \in Flash
  BY <1>2 DEF Init, Flash
<1> QED BY <1>3, SlotNames, LifecycleAssumption
        DEF Init, TypeInv, TypeOK, Flash, Running, BootSteps, ConfirmSteps, InstallSteps

(* A reset forgets everything a later step would rely on.                  *)
LEMMA ResetTypes ==
  ASSUME flash' \in Flash, Reset,
         kept' \in Slots, runs' \in [Slots -> Nat],
         installs' \in 0 .. MaxInstalls, faults' \in 0 .. MaxFaults
  PROVE  TypeInv'
BY DEF Reset, TypeInv, TypeOK, Flash, Running, BootSteps, ConfirmSteps, InstallSteps

LEMMA RetryTypes ==
  ASSUME TypeInv, pc \in InstallSteps, flash' \in Flash, Retry,
         kept' \in Slots, runs' \in [Slots -> Nat],
         installs' \in 0 .. MaxInstalls, faults' \in 0 .. MaxFaults
  PROVE  TypeInv'
<1>1. CASE inst.attempt + 1 < Retries
  <2>1. inst \in Install
    BY DEF TypeInv
  <2>2. inst' \in Install
    BY <1>1, <2>1, LifecycleAssumption DEF Retry, Install
  <2>3. pc' = "eraseBody" /\ running' = running /\ cand' = cand
    BY <1>1 DEF Retry
  <2> QED BY <2>2, <2>3 DEF TypeInv, TypeOK, Flash, Running, BootSteps, ConfirmSteps, InstallSteps
<1>2. CASE ~(inst.attempt + 1 < Retries)
  BY <1>2, ResetTypes DEF Retry
<1> QED BY <1>1, <1>2

LEMMA BeginTypes ==
  ASSUME TypeInv, NEW i \in Images, Begin(i), installs' \in 0 .. MaxInstalls
  PROVE  TypeInv'
<1>1. inst' \in Install
  <2>1. flash \in Flash
    BY DEF TypeInv, TypeOK, Flash
  <2>2. 0 \in 0 .. Retries - 1
    BY LifecycleAssumption
  <2> QED BY <2>1, <2>2, TargetWritable, SurveyTypes DEF Begin, Install
<1> QED BY <1>1 DEF Begin, TypeInv, TypeOK, Running, BootSteps, ConfirmSteps, InstallSteps

LEMMA RunsTypes ==
  ASSUME TypeInv, NEW f \in Flash
  PROVE  RunsIn(f) \in [Slots -> Nat]
BY DEF TypeInv, TypeOK, RunsIn

LEMMA BootTypes == TypeInv /\ Boot => TypeInv'
<1> SUFFICES ASSUME TypeInv, Boot PROVE TypeInv'
  OBVIOUS
<1> USE DEF BootSteps, ConfirmSteps, InstallSteps, Running
<1>0. flash \in Flash
  BY DEF TypeInv, TypeOK, Flash
<1>1. CASE Survey
  BY <1>1 DEF Survey, TypeInv, TypeOK, Bootable, Authentic
<1>2. CASE ChooseKept
  BY <1>2 DEF ChooseKept, TypeInv, TypeOK
<1>3. CASE BurnAttempt
  <2> DEFINE s == Winner(flash, cand)
  <2>1. s \in cand /\ s \in Slots
    BY <1>0, <1>3, WinnerWins DEF BurnAttempt, TypeInv, TypeOK
  <2>2. flash' = Burned(flash, s) /\ flash[s].attempts < AttemptsMax
    BY <1>3 DEF BurnAttempt
  <2> HIDE DEF s
  <2>3. flash' \in Flash /\ \A t \in Slots : flash'[t].trailer = flash[t].trailer
    BY <1>0, <2>1, <2>2, BoundsAssumption DEF Burned, Flash, Slot
  <2> QED BY <1>3, <2>3 DEF BurnAttempt, TypeInv, TypeOK, Flash
<1>4. CASE ArmFails
  <2> DEFINE s == Winner(flash, cand)
  <2>1. s \in cand /\ s \in Slots
    BY <1>0, <1>4, WinnerWins DEF ArmFails, TypeInv, TypeOK
  <2>2. flash' = flash \/ (flash' = Burned(flash, s) /\ flash[s].attempts < AttemptsMax)
    BY <1>4 DEF ArmFails
  <2> HIDE DEF s
  <2>3. flash' \in Flash /\ \A t \in Slots : flash'[t].trailer = flash[t].trailer
    BY <1>0, <2>1, <2>2, BoundsAssumption DEF Burned, Flash, Slot
  <2>4. cand' \in SUBSET cand /\ faults' \in 0 .. MaxFaults
    BY <1>4, LifecycleAssumption DEF ArmFails, TypeInv, TypeOK
  <2> QED BY <1>4, <2>3, <2>4 DEF ArmFails, TypeInv, TypeOK, Flash
<1>5. CASE Mount
  <2> DEFINE s == Winner(flash, cand)
  <2>1. s \in cand /\ s \in Slots
    BY <1>0, <1>5, WinnerWins DEF Mount, TypeInv, TypeOK
  <2>2. runs' \in [Slots -> Nat]
    BY <1>5, <2>1 DEF Mount, TypeInv, TypeOK
  <2> QED BY <1>5, <2>1, <2>2 DEF Mount, TypeInv, TypeOK
<1>6. CASE NoSlot
  BY <1>6 DEF NoSlot, TypeInv, TypeOK
<1> QED BY <1>1, <1>2, <1>3, <1>4, <1>5, <1>6 DEF Boot

LEMMA ConfirmKeepsTypes == TypeInv /\ Confirm => TypeInv'
<1> SUFFICES ASSUME TypeInv, Confirm PROVE TypeInv'
  OBVIOUS
<1> USE DEF BootSteps, ConfirmSteps, InstallSteps, Running
<1>1. CASE ConfirmBegin
  BY <1>1 DEF ConfirmBegin, TypeInv, TypeOK
<1>2. CASE ConfirmStep
  <2>1. flash' \in Flash /\ \A s \in Slots : flash'[s].trailer = flash[s].trailer
    BY <1>2, ConfirmTypes DEF ConfirmStep
  <2>2. kept' \in Slots /\ pc' \in ConfirmSteps \cup {"app"}
    BY <1>2 DEF ConfirmStep, KeptIn, AfterConfirm, TypeInv, TypeOK
  <2> QED BY <1>2, <2>1, <2>2 DEF ConfirmStep, TypeInv, TypeOK, Flash
<1>3. CASE ConfirmFault
  <2>1. flash' \in Flash /\ \A s \in Slots : flash'[s].trailer = flash[s].trailer
    BY <1>3, ConfirmTypes DEF ConfirmFault, TypeInv, TypeOK, Flash
  <2>2. kept' \in Slots /\ faults' \in 0 .. MaxFaults
    BY <1>3, LifecycleAssumption DEF ConfirmFault, KeptIn, TypeInv, TypeOK
  <2> QED BY <1>3, <2>1, <2>2 DEF ConfirmFault, TypeInv, TypeOK, Flash
<1> QED BY <1>1, <1>2, <1>3 DEF Confirm

LEMMA UpdateTypes == TypeInv /\ Update => TypeInv'
<1> SUFFICES ASSUME TypeInv, Update PROVE TypeInv'
  OBVIOUS
<1>1. ASSUME NEW i \in Images, Offer(i) \/ RecoveryOffer(i)
      PROVE  TypeInv'
  <2>1. installs' \in 0 .. MaxInstalls
    BY <1>1, LifecycleAssumption DEF Offer, RecoveryOffer, TypeInv, TypeOK
  <2> QED BY <1>1, <2>1, BeginTypes DEF Offer, RecoveryOffer
<1>2. CASE InstallStep
  <2>1. inst \in Install /\ pc \in InstallSteps
    BY <1>2 DEF InstallStep, TypeInv
  <2>2. flash' \in Flash
    BY <1>2, ProgramTypes DEF InstallStep
  <2>3. runs' \in [Slots -> Nat]
    BY <1>2, <2>2, RunsTypes DEF InstallStep
  <2>4. pc' \in {"eraseTrailer", "carryFloor"} => flash'[inst.target].floors.used = 0
    <3>1. CASE pc = "eraseStatus"
      BY <1>2, <2>1, <3>1
         DEF InstallStep, InstallWrite, Programmed, BlankStatus, BlankRegion, Install, TypeInv, TypeOK
    <3>2. CASE pc = "eraseTrailer"
      BY <1>2, <2>1, <3>2
         DEF InstallStep, InstallWrite, Programmed, Install, TypeInv, TypeOK, Slot
    <3> QED BY <1>2, <3>1, <3>2 DEF InstallStep, AfterInstall, InstallSteps
  <2>5. pc' \in {"eraseTrailer", "carryFloor", "carryEpoch"} =>
          flash'[inst.target].epochs.used = 0
    <3>1. CASE pc = "eraseStatus"
      BY <1>2, <2>1, <3>1
         DEF InstallStep, InstallWrite, Programmed, BlankStatus, BlankRegion, Install, TypeInv, TypeOK
    <3>2. CASE pc \in {"eraseTrailer", "carryFloor"}
      BY <1>2, <2>1, <3>2
         DEF InstallStep, InstallWrite, Programmed, Install, TypeInv, TypeOK, Slot
    <3> QED BY <1>2, <3>1, <3>2 DEF InstallStep, AfterInstall, InstallSteps
  <2>6. pc' \in InstallSteps
    BY <1>2 DEF InstallStep, AfterInstall, InstallSteps
  <2> QED BY <1>2, <2>1, <2>2, <2>3, <2>4, <2>5, <2>6
          DEF InstallStep, TypeInv, TypeOK, Flash, InstallSteps, Running, ConfirmSteps
<1>3. CASE StreamWrong
  <2>1. flash' \in Flash
    BY <1>3, ProgramTypes DEF StreamWrong, InstallSteps
  <2>2. runs' \in [Slots -> Nat] /\ faults' \in 0 .. MaxFaults
    BY <1>3, <2>1, RunsTypes, LifecycleAssumption DEF StreamWrong, TypeInv, TypeOK
  <2>3. inst \in Install /\ inst' = inst /\ pc' = "trailer"
    BY <1>3 DEF StreamWrong, AfterInstall, TypeInv, InstallSteps
  <2> QED BY <1>3, <2>1, <2>2, <2>3
          DEF StreamWrong, TypeInv, TypeOK, Flash, InstallSteps, Running, ConfirmSteps
<1>4. CASE HashMismatch
  BY <1>4, RetryTypes DEF HashMismatch, InstallSteps, TypeInv, TypeOK, Flash
<1>5. CASE InstallDone
  BY <1>5, ResetTypes DEF InstallDone, TypeInv, TypeOK, Flash
<1>6. CASE InstallFails
  <2>1. flash' \in Flash
    BY <1>6, ProgramTypes DEF InstallFails, TypeInv, TypeOK, Flash
  <2>2. runs' \in [Slots -> Nat] /\ faults' \in 0 .. MaxFaults
    BY <1>6, <2>1, RunsTypes, LifecycleAssumption DEF InstallFails, TypeInv, TypeOK
  <2> QED BY <1>6, <2>1, <2>2, RetryTypes DEF InstallFails, TypeInv, TypeOK
<1> QED BY <1>1, <1>2, <1>3, <1>4, <1>5, <1>6 DEF Update

LEMMA CutTypes == TypeInv /\ (PowerCut \/ TornCut) => TypeInv'
<1> SUFFICES ASSUME TypeInv, PowerCut \/ TornCut PROVE TypeInv'
  OBVIOUS
<1>1. CASE PowerCut
  BY <1>1, ResetTypes DEF PowerCut, TypeInv, TypeOK, Flash
<1>2. CASE TornCut
  <2>1. flash' \in Flash
    BY <1>2, ProgramTypes, ConfirmTypes DEF TornCut
  <2>2. runs' \in [Slots -> Nat] /\ faults' \in 0 .. MaxFaults
    BY <1>2, <2>1, RunsTypes, LifecycleAssumption DEF TornCut, TypeInv, TypeOK
  <2> QED BY <1>2, <2>1, <2>2, ResetTypes DEF TornCut, TypeInv, TypeOK
<1> QED BY <1>1, <1>2

LEMMA TypeStep == TypeInv /\ [Next]_vars => TypeInv'
<1>1. ASSUME TypeInv, UNCHANGED vars PROVE TypeInv'
  BY <1>1 DEF vars, TypeInv, TypeOK
<1> QED BY <1>1, BootTypes, ConfirmKeepsTypes, UpdateTypes, CutTypes DEF Next

(* The camera's state keeps its types: no step stores a value out of the   *)
(* range the next one reads, and nothing is appended to a full region.     *)
THEOREM TypeCorrect == Spec => []TypeOK
<1>1. TypeInv => TypeOK
  BY DEF TypeInv
<1> QED BY <1>1, TypeInit, TypeStep, PTL DEF Spec

LEMMA TypeInvariant == Spec => []TypeInv
BY TypeInit, TypeStep, PTL DEF Spec

-----------------------------------------------------------------------------
(* The bound on the boots of a trial.  TrialRunsBounded alone does not say *)
(* that every boot was paid for: boots are counted against the marks, a    *)
(* surveyed trial has a mark left, and the marks are erased only once the  *)
(* body they counted is gone.                                              *)
RunsInv ==
  /\ \A s \in Slots : flash[s].body \notin Images => runs[s] = 0
  /\ \A s \in Slots : ~flash[s].confirmed => runs[s] <= flash[s].attempts
                                             /\ runs[s] <= MaxAttempts
  /\ pc \in {"pick", "mount"} => \A s \in cand : flash[s].body \in Images
  /\ pc = "pick" => \A s \in cand : ~flash[s].confirmed => flash[s].attempts < MaxAttempts
  /\ pc = "mount" => LET s == Winner(flash, cand) IN
       ~flash[s].confirmed => runs[s] < flash[s].attempts /\ flash[s].attempts <= MaxAttempts
  /\ pc = "eraseStatus" => flash[inst.target].body \notin Images

LEMMA RunsStart == Init => RunsInv
<1> SUFFICES ASSUME Init PROVE RunsInv
  OBVIOUS
<1>1. \A s \in Slots : flash[s].body = Factory /\ flash[s].attempts = 0 /\ runs[s] = 0
  BY DEF Init, FactorySlot
<1>2. pc = "boot"
  BY DEF Init
<1> QED BY <1>1, <1>2, BoundsAssumption, LifecycleAssumption DEF RunsInv

(* A reset changes no slot, so what holds of every slot is enough.         *)
LEMMA RunsReset ==
  ASSUME Reset,
         \A s \in Slots : flash'[s].body \notin Images => runs'[s] = 0,
         \A s \in Slots : ~flash'[s].confirmed => runs'[s] <= flash'[s].attempts
                                                  /\ runs'[s] <= MaxAttempts
  PROVE  RunsInv'
BY DEF Reset, RunsInv

LEMMA RunsRetry ==
  ASSUME Retry,
         \A s \in Slots : flash'[s].body \notin Images => runs'[s] = 0,
         \A s \in Slots : ~flash'[s].confirmed => runs'[s] <= flash'[s].attempts
                                                  /\ runs'[s] <= MaxAttempts
  PROVE  RunsInv'
BY RunsReset DEF Retry, RunsInv

(* Any write an install makes, whole or half done, resets the count of a   *)
(* slot whose body it changes, and erases attempts only with a count of 0. *)
LEMMA RunsInstall ==
  ASSUME TypeInv, RunsInv, pc \in InstallSteps,
         flash' \in {flash, InstallWrite(flash), InstallTorn(flash)},
         runs' = RunsIn(flash')
  PROVE  /\ \A s \in Slots : flash'[s].body \notin Images => runs'[s] = 0
         /\ \A s \in Slots : ~flash'[s].confirmed => runs'[s] <= flash'[s].attempts
                                                     /\ runs'[s] <= MaxAttempts
<1> DEFINE d == flash[inst.target]
           e == flash'[inst.target]
<1>1. /\ inst.target \in Slots /\ d \in Slot /\ flash' \in Flash
      /\ flash' = flash \/ flash' = [flash EXCEPT ![inst.target] = e]
  BY ProgramTypes DEF TypeInv, TypeOK, Install, InstallWrite, InstallTorn, Flash
<1>2. runs' = [s \in Slots |-> IF flash'[s].body = flash[s].body THEN runs[s] ELSE 0]
  BY DEF RunsIn
<1>3. \/ e.attempts = d.attempts /\ (e.confirmed = d.confirmed)
      \/ d.body \notin Images /\ e.body = d.body /\ e.attempts \in Nat
  <2>1. CASE flash' = flash
    BY <2>1
  <2>2. CASE pc = "eraseStatus" /\ flash' = InstallWrite(flash)
    BY <1>1, <2>2 DEF InstallWrite, Programmed, BlankStatus, RunsInv, TypeInv, TypeOK
  <2>3. CASE pc = "eraseStatus" /\ flash' = InstallTorn(flash)
    <3>1. e.body = d.body /\ d.body \notin Images
      BY <1>1, <2>3 DEF InstallTorn, HalfProgrammed, BlankStatus, RunsInv, TypeInv, TypeOK
    <3>2. e.attempts \in Nat
      BY <1>1 DEF Flash, Slot
    <3> QED BY <3>1, <3>2
  <2>4. CASE pc # "eraseStatus" /\ flash' = InstallWrite(flash)
    BY <1>1, <2>4 DEF InstallWrite, Programmed, InstallSteps, TypeInv, TypeOK, Slot
  <2>5. CASE pc # "eraseStatus" /\ flash' = InstallTorn(flash)
    BY <1>1, <2>5 DEF InstallTorn, HalfProgrammed, InstallSteps, TypeInv, TypeOK, Slot
  <2> QED BY <2>1, <2>2, <2>3, <2>4, <2>5
<1> HIDE DEF e, d
<1>4. ASSUME NEW s \in Slots
      PROVE  /\ flash'[s].body \notin Images => runs'[s] = 0
             /\ ~flash'[s].confirmed => runs'[s] <= flash'[s].attempts
                                        /\ runs'[s] <= MaxAttempts
  <2>0. /\ flash[s] \in Slot /\ runs[s] \in Nat /\ flash'[s] \in Slot
        /\ flash[s].attempts \in Nat /\ flash'[s].attempts \in Nat
    BY <1>1 DEF TypeInv, TypeOK, Slot, Flash
  <2>1. CASE s # inst.target \/ flash' = flash
    <3>1. flash'[s] = flash[s]
      BY <1>1, <2>1 DEF TypeInv, TypeOK
    <3> QED BY <1>2, <3>1 DEF RunsInv
  <2>2. CASE s = inst.target
    BY <1>2, <1>3, <2>0, <2>2, BoundsAssumption DEF RunsInv, d, e
  <2> QED BY <2>1, <2>2
<1> QED BY <1>4

LEMMA RunsStep == TypeInv /\ RunsInv /\ [Next]_vars => RunsInv'
<1> SUFFICES ASSUME TypeInv, RunsInv, [Next]_vars PROVE RunsInv'
  OBVIOUS
<1>0. /\ flash \in Flash
      /\ \A s \in Slots : runs[s] \in Nat /\ flash[s].attempts \in Nat
                          /\ flash[s].confirmed \in BOOLEAN
  BY DEF TypeInv, TypeOK, Flash, Slot
<1>1. CASE Survey
  BY <1>1 DEF Survey, RunsInv, Bootable, MayTry, Authentic
<1>2. CASE ChooseKept
  BY <1>2 DEF ChooseKept, RunsInv
<1>3. CASE BurnAttempt
  <2> DEFINE s == Winner(flash, cand)
  <2>1. s \in cand /\ s \in Slots /\ cand \in SUBSET Slots
    BY <1>0, <1>3, WinnerWins DEF BurnAttempt, TypeInv, TypeOK
  <2>2. flash' = [flash EXCEPT ![s].attempts = @ + 1] /\ ~flash[s].confirmed
    BY <1>3 DEF BurnAttempt, Burned
  <2>3. \A t \in Slots : /\ flash'[t].counter = flash[t].counter
                         /\ flash'[t].confirmed = flash[t].confirmed
                         /\ flash'[t].body = flash[t].body
    BY <1>0, <2>1, <2>2 DEF Flash, Slot
  <2>4. cand' = cand /\ Winner(flash', cand) = s
    <3>1. flash' \in Flash
      BY <1>0, <1>3, BootTypes DEF Boot, TypeInv, TypeOK, Flash
    <3> QED BY <1>0, <1>3, <2>1, <2>3, <3>1, WinnerStays DEF BurnAttempt
  <2>5. flash'[s].attempts = flash[s].attempts + 1
        /\ \A t \in Slots \ {s} : flash'[t] = flash[t]
    BY <1>0, <2>1, <2>2 DEF Flash, Slot
  <2>6. flash[s].attempts < MaxAttempts
    BY <1>3, <2>1, <2>2 DEF RunsInv, BurnAttempt
  <2> HIDE DEF s
  <2>7. runs' = runs /\ pc' = "mount"
    BY <1>3 DEF BurnAttempt
  <2>8. \A t \in Slots : ~flash'[t].confirmed => runs'[t] <= flash'[t].attempts
                                                 /\ runs'[t] <= MaxAttempts
    BY <1>0, <2>1, <2>3, <2>5, <2>7 DEF RunsInv
  <2>9. runs'[s] < flash'[s].attempts /\ flash'[s].attempts <= MaxAttempts
    BY <1>0, <2>1, <2>2, <2>5, <2>6, <2>7, BoundsAssumption DEF RunsInv
  <2> QED BY <1>3, <2>1, <2>3, <2>4, <2>7, <2>8, <2>9 DEF BurnAttempt, RunsInv
<1>4. CASE ArmFails
  <2> DEFINE s == Winner(flash, cand)
  <2>1. s \in cand /\ s \in Slots /\ cand \in SUBSET Slots
    BY <1>0, <1>4, WinnerWins DEF ArmFails, TypeInv, TypeOK
  <2>2. flash' = flash \/ flash' = [flash EXCEPT ![s].attempts = @ + 1]
    BY <1>4 DEF ArmFails, Burned
  <2>3. cand' = cand \ {s} /\ pc' = "pick" /\ runs' = runs
    BY <1>4 DEF ArmFails
  <2> HIDE DEF s
  <2>4. \A t \in Slots : /\ flash'[t].confirmed = flash[t].confirmed
                         /\ flash'[t].body = flash[t].body
                         /\ flash'[t].attempts \in {flash[t].attempts, flash[t].attempts + 1}
                         /\ t # s => flash'[t] = flash[t]
    BY <1>0, <2>1, <2>2 DEF Flash, Slot
  <2>5. pc = "pick"
    BY <1>4 DEF ArmFails
  <2> QED BY <1>0, <2>1, <2>3, <2>4, <2>5 DEF RunsInv
<1>5. CASE Mount
  <2> DEFINE s == Winner(flash, cand)
  <2>1. s \in Slots
    BY <1>0, <1>5, WinnerWins DEF Mount, TypeInv, TypeOK
  <2>2. ~flash[s].confirmed => runs[s] < flash[s].attempts /\ flash[s].attempts <= MaxAttempts
    BY <1>5 DEF Mount, RunsInv
  <2>3. flash' = flash /\ pc' = "app"
        /\ runs' = [runs EXCEPT ![s] = @ + (IF flash[s].confirmed THEN 0 ELSE 1)]
    BY <1>5 DEF Mount
  <2> HIDE DEF s
  <2>4. runs'[s] = runs[s] + (IF flash[s].confirmed THEN 0 ELSE 1)
        /\ \A t \in Slots \ {s} : runs'[t] = runs[t]
    BY <2>1, <2>3 DEF TypeInv, TypeOK
  <2>5. flash[s].body \in Images
    BY <1>0, <1>5, WinnerWins DEF Mount, RunsInv, TypeInv, TypeOK, s
  <2>6. \A t \in Slots : ~flash'[t].confirmed => runs'[t] <= flash'[t].attempts
                                                 /\ runs'[t] <= MaxAttempts
    BY <1>0, <2>1, <2>2, <2>3, <2>4, BoundsAssumption DEF RunsInv
  <2> QED BY <1>0, <2>1, <2>3, <2>4, <2>5, <2>6 DEF RunsInv
<1>6. CASE NoSlot
  BY <1>6 DEF NoSlot, RunsInv
<1>7. CASE ConfirmBegin
  BY <1>7 DEF ConfirmBegin, RunsInv
<1>8. ASSUME pc \in ConfirmSteps, flash' \in {flash, ConfirmTorn(flash), ConfirmWrite(flash)},
             runs' = runs
      PROVE  /\ \A s \in Slots : flash'[s].body \notin Images => runs'[s] = 0
             /\ \A s \in Slots : ~flash'[s].confirmed => runs'[s] <= flash'[s].attempts
                                                         /\ runs'[s] <= MaxAttempts
  <2>1. \A s \in Slots : /\ flash'[s].body = flash[s].body
                         /\ flash'[s].attempts = flash[s].attempts
                         /\ flash[s].confirmed => flash'[s].confirmed
    BY <1>8 DEF ConfirmWrite, ConfirmTorn, ConfirmSteps, TypeInv, TypeOK, Slot, Running
  <2> QED BY <1>8, <2>1 DEF RunsInv
<1>9. CASE ConfirmStep
  BY <1>8, <1>9 DEF ConfirmStep, AfterConfirm, ConfirmSteps, RunsInv
<1>10. CASE ConfirmFault
  BY <1>8, <1>10 DEF ConfirmFault, RunsInv
<1>11. ASSUME NEW i \in Images, Offer(i) \/ RecoveryOffer(i)
       PROVE  RunsInv'
  BY <1>11 DEF Offer, RecoveryOffer, Begin, RunsInv
<1>12. CASE InstallStep
  <2>1. pc' = "eraseStatus" => flash'[inst'.target].body \notin Images
    BY <1>12, ImagesAssumption
       DEF InstallStep, AfterInstall, InstallSteps, InstallWrite, Programmed,
           TypeInv, TypeOK, Install, Slot
  <2>2. pc' \in InstallSteps
    BY <1>12 DEF InstallStep, AfterInstall, InstallSteps
  <2> QED BY <1>12, <2>1, <2>2, RunsInstall DEF InstallStep, RunsInv, InstallSteps
<1>13. CASE StreamWrong
  BY <1>13, RunsInstall DEF StreamWrong, AfterInstall, RunsInv, InstallSteps
<1>14. CASE HashMismatch
  BY <1>14, RunsRetry DEF HashMismatch, RunsInv
<1>15. CASE InstallDone
  BY <1>15, RunsReset DEF InstallDone, RunsInv
<1>16. CASE InstallFails
  BY <1>16, RunsInstall, RunsRetry DEF InstallFails
<1>17. CASE PowerCut
  BY <1>17, RunsReset DEF PowerCut, RunsInv
<1>18. CASE TornCut
  <2>1. CASE pc \in ConfirmSteps
    <3>1. RunsIn(flash') = runs
      BY <1>18, <2>1 DEF TornCut, RunsIn, ConfirmTorn, ConfirmSteps, TypeInv, TypeOK, Slot, Running
    <3> QED BY <1>8, <1>18, <2>1, <3>1, RunsReset DEF TornCut
  <2>2. CASE pc \in InstallSteps
    <3>1. flash' = InstallTorn(flash)
      BY <1>18, <2>2 DEF TornCut, ConfirmSteps, InstallSteps
    <3> QED BY <1>18, <2>2, <3>1, RunsInstall, RunsReset DEF TornCut
  <2> QED BY <1>18, <2>1, <2>2 DEF TornCut
<1>19. CASE UNCHANGED vars
  BY <1>19 DEF vars, RunsInv
<1> QED BY <1>1, <1>2, <1>3, <1>4, <1>5, <1>6, <1>7, <1>9, <1>10, <1>11, <1>12, <1>13,
           <1>14, <1>15, <1>16, <1>17, <1>18, <1>19
        DEF Next, Boot, Confirm, Update

(* However power fails around the mark that counts them, a release no app  *)
(* ever confirmed is booted at most MaxAttempts times.                     *)
THEOREM TrialBound == Spec => []TrialRunsBounded
<1>1. RunsInv => TrialRunsBounded
  BY DEF RunsInv, TrialRunsBounded
<1> QED BY <1>1, RunsStart, RunsStep, TypeInvariant, PTL DEF Spec

-----------------------------------------------------------------------------
(* Why the fallback survives.  The kept slot outranks any other confirmed  *)
(* one, so what boots is the kept image or a trial that outranks it; an    *)
(* install starts only from the kept image, so its target is the other     *)
(* slot; and with one signing epoch no epoch floor rises above an image.   *)
Whole(s) ==
  /\ flash[s].trailer \in Images /\ flash[s].body = flash[s].trailer
  /\ Meta[flash[s].trailer].trusted
  /\ ProductId # 0 => Meta[flash[s].trailer].product = ProductId

FallbackCore ==
  /\ flash[kept].confirmed /\ Whole(kept)
  /\ \A s \in Slots : flash[s].epochs.floor <= Meta[Factory].epoch
  /\ \A s \in Slots \ {kept} : flash[s].confirmed => Preferred(flash, kept, s)

FallbackInv ==
  /\ FallbackCore
  /\ pc \in {"pick", "mount"} =>
       /\ kept \in cand
       /\ \A s \in cand : Whole(s) /\ (flash[s].confirmed \/ flash[s].pending)
  /\ pc \in Running =>
       /\ Whole(running)
       /\ \/ running = kept
          \/ Trial(flash, running) /\ flash[running].counter > flash[kept].counter
  /\ pc \in ConfirmSteps => running # kept
  /\ pc \in InstallSteps => inst.target # kept /\ inst.epoch <= Meta[Factory].epoch
  /\ pc \in InstallSteps \ {"eraseBody", "eraseStatus"} => ~flash[inst.target].confirmed
  /\ pc # "recovery"

LEMMA FallbackStart == Init => FallbackInv
<1> SUFFICES ASSUME Init PROVE FallbackInv
  OBVIOUS
<1>1. \A s \in Slots :
        /\ flash[s].body = Factory /\ flash[s].trailer = Factory /\ flash[s].confirmed
        /\ flash[s].counter = (IF Single \/ s = "B" THEN 1 ELSE 2)
        /\ flash[s].epochs = Append(BlankRegion, Meta[Factory].epoch)
  BY DEF Init, FactorySlot
<1>2. Append(BlankRegion, Meta[Factory].epoch).floor = Meta[Factory].epoch
  BY KeyType, LifecycleAssumption DEF Append, BlankRegion, Larger
<1>3. pc = "boot" /\ kept = "A" /\ kept \in Slots
  BY SlotNames DEF Init
<1>4. \A s \in Slots \ {kept} : Preferred(flash, kept, s)
  BY <1>1, <1>3 DEF Slots, Preferred
<1> QED BY <1>1, <1>2, <1>3, <1>4, KeyType, LifecycleAssumption
        DEF FallbackInv, FallbackCore, Whole, Running, ConfirmSteps, InstallSteps

(* With one signing epoch the kept slot is bootable, not only whole.       *)
LEMMA FallbackHolds ==
  ASSUME OneEpoch, TypeInv, FallbackInv
  PROVE  FallbackIntact
<1>1. kept \in Slots /\ flash[kept].trailer \in Images
  BY DEF TypeInv, TypeOK, FallbackInv, FallbackCore, Whole
<1>2. EpochFloor(flash) <= Meta[flash[kept].trailer].epoch
  <2>1. EpochFloor(flash) <= Meta[Factory].epoch
    <3>1. \A s \in Slots : flash[s].epochs.floor <= Meta[Factory].epoch
      BY DEF FallbackInv, FallbackCore
    <3> QED BY <3>1 DEF EpochFloor, Slots, Larger
  <2>2. Meta[Factory].epoch = Meta[flash[kept].trailer].epoch
    BY <1>1, LifecycleAssumption DEF OneEpoch
  <2> QED BY <2>1, <2>2
<1>3. EpochFloor(flash) \in Nat /\ Meta[flash[kept].trailer].epoch \in Nat
  BY <1>1, SurveyTypes, KeyType DEF TypeInv, TypeOK, Flash
<1> QED BY <1>1, <1>2, <1>3 DEF FallbackIntact, FallbackInv, FallbackCore, Whole, Bootable, Authentic, MayTry

LEMMA CoreKept ==
  ASSUME FallbackInv, kept' = kept, flash'[kept] = flash[kept],
         \A s \in Slots : flash'[s].epochs.floor <= Meta[Factory].epoch,
         \A s \in Slots \ {kept} : flash'[s].confirmed =>
           flash[s].confirmed /\ flash'[s].counter = flash[s].counter
  PROVE  FallbackCore'
<1>1. Whole(kept)'
  BY DEF FallbackInv, FallbackCore, Whole
<1> QED BY <1>1 DEF FallbackInv, FallbackCore, Preferred

(* The other slot's marks and body may change: what the kept slot needs    *)
(* of it is that it is not confirmed above it.                             *)
LEMMA FallbackReset ==
  ASSUME Reset, kept' = kept, flash'[kept] = flash[kept], FallbackInv,
         \A s \in Slots : flash'[s].epochs.floor <= Meta[Factory].epoch,
         \A s \in Slots \ {kept} : flash'[s].confirmed =>
           flash[s].confirmed /\ flash'[s].counter = flash[s].counter
  PROVE  FallbackInv'
BY CoreKept DEF Reset, FallbackInv, FallbackCore, Running, ConfirmSteps, InstallSteps

LEMMA FallbackInstall ==
  ASSUME TypeInv, FallbackInv, pc \in InstallSteps,
         flash' \in {flash, InstallWrite(flash), InstallTorn(flash)}
  PROVE  /\ flash'[kept] = flash[kept]
         /\ \A s \in Slots : flash'[s].epochs.floor <= Meta[Factory].epoch
         /\ \A s \in Slots \ {kept} : flash'[s].confirmed =>
              flash[s].confirmed /\ flash'[s].counter = flash[s].counter
         /\ pc # "eraseBody" => ~flash'[inst.target].confirmed \/ flash' = flash
<1> DEFINE d == flash[inst.target]
           e == flash'[inst.target]
<1>1. /\ inst.target \in Slots \ {kept} /\ d \in Slot /\ flash' \in Flash /\ flash \in Flash
      /\ inst.epoch \in Nat /\ kept \in Slots
      /\ flash' = flash \/ flash' = [flash EXCEPT ![inst.target] = e]
  BY ProgramTypes DEF FallbackInv, FallbackCore, TypeInv, TypeOK, Install, InstallWrite, InstallTorn, Flash
<1>2. /\ d.epochs.floor <= Meta[Factory].epoch /\ inst.epoch <= Meta[Factory].epoch
      /\ Meta[Factory].epoch \in Nat /\ d.epochs.floor \in Nat
  BY <1>1, KeyType, LifecycleAssumption DEF FallbackInv, FallbackCore, Slot, Region
<1>3. d.confirmed => pc \in {"eraseBody", "eraseStatus"}
  BY DEF FallbackInv, FallbackCore
<1>4. flash' = flash \/
      /\ e.epochs.floor <= Meta[Factory].epoch
      /\ e.confirmed => pc = "eraseBody" /\ d.confirmed /\ e.counter = d.counter
  <2>1. CASE flash' = InstallWrite(flash)
    <3>1. CASE pc = "eraseStatus"
      BY <1>1, <1>2, <2>1, <3>1 DEF InstallWrite, Programmed, BlankStatus, BlankRegion, Flash
    <3>2. CASE pc = "carryEpoch"
      BY <1>1, <1>2, <1>3, <2>1, <3>2
         DEF InstallWrite, Programmed, Carried, Append, Larger, Flash, Slot
    <3>3. CASE pc \notin {"eraseStatus", "carryEpoch"}
      BY <1>1, <1>2, <1>3, <2>1, <3>3 DEF InstallWrite, Programmed, InstallSteps, Flash, Slot
    <3> QED BY <3>1, <3>2, <3>3
  <2>2. CASE flash' = InstallTorn(flash)
    <3>1. CASE pc = "eraseStatus"
      BY <1>1, <1>2, <2>2, <3>1 DEF InstallTorn, HalfProgrammed, BlankStatus, BlankRegion, Flash
    <3>2. CASE pc = "carryEpoch"
      BY <1>1, <1>2, <1>3, <2>2, <3>2
         DEF InstallTorn, HalfProgrammed, Smudge, Flash, Slot, Region
    <3>3. CASE pc \notin {"eraseStatus", "carryEpoch"}
      BY <1>1, <1>2, <1>3, <2>2, <3>3 DEF InstallTorn, HalfProgrammed, InstallSteps, Flash, Slot
    <3> QED BY <3>1, <3>2, <3>3
  <2> QED BY <2>1, <2>2
<1> HIDE DEF d, e
<1>5. \A s \in Slots : flash'[s] = flash[s] \/ (s = inst.target /\ flash'[s] = e)
  BY <1>1 DEF Flash
<1>6. flash'[kept] = flash[kept]
  BY <1>1, <1>5
<1>7. ASSUME NEW s \in Slots
      PROVE  /\ flash'[s].epochs.floor <= Meta[Factory].epoch
             /\ s # kept /\ flash'[s].confirmed =>
                  flash[s].confirmed /\ flash'[s].counter = flash[s].counter
  BY <1>4, <1>5 DEF FallbackInv, FallbackCore, d
<1>8. pc # "eraseBody" => ~flash'[inst.target].confirmed \/ flash' = flash
  BY <1>4 DEF e
<1> QED BY <1>6, <1>7, <1>8

LEMMA FallbackConfirm ==
  ASSUME OneEpoch, TypeInv, FallbackInv, pc \in ConfirmSteps,
         flash' \in {flash, ConfirmTorn(flash), ConfirmWrite(flash)},
         running' = running, kept' = KeptIn(flash'),
         pc' \in Running, pc' \in ConfirmSteps => pc # "mark"
  PROVE  FallbackInv'
<1> DEFINE d == flash[running]
           e == flash'[running]
<1>1. /\ running \in Slots /\ kept \in Slots /\ running # kept
      /\ d \in Slot /\ flash \in Flash /\ Image \in Images
      /\ Whole(running) /\ Trial(flash, running) /\ d.counter > flash[kept].counter
  BY DEF FallbackInv, FallbackCore, TypeInv, TypeOK, Running, Flash, Image
<1>2. /\ d.epochs.floor <= Meta[Factory].epoch /\ d.epochs.floor \in Nat
      /\ Meta[Image].epoch = Meta[Factory].epoch /\ Meta[Factory].epoch \in Nat
  BY <1>1, KeyType, LifecycleAssumption DEF FallbackInv, FallbackCore, Slot, Region, OneEpoch
<1>3. /\ \A s \in Slots \ {running} : flash'[s] = flash[s]
      /\ e.body = d.body /\ e.trailer = d.trailer /\ e.counter = d.counter
      /\ e.pending = d.pending /\ e.epochs.floor <= Meta[Factory].epoch
      /\ e.confirmed = d.confirmed \/ (pc = "mark" /\ e.confirmed)
  <2>1. CASE flash' = flash
    BY <1>2, <2>1
  <2>2. CASE flash' = ConfirmWrite(flash)
    <3>1. CASE pc = "raiseFloor"
      BY <1>1, <1>2, <2>2, <3>1 DEF ConfirmWrite, Flash, Slot
    <3>2. CASE pc = "raiseEpoch"
      BY <1>1, <1>2, <2>2, <3>2 DEF ConfirmWrite, Flash, Slot, Raised, Append, Larger
    <3>3. CASE pc = "mark"
      BY <1>1, <1>2, <2>2, <3>3 DEF ConfirmWrite, Flash, Slot
    <3> QED BY <3>1, <3>2, <3>3 DEF ConfirmSteps
  <2>3. CASE flash' = ConfirmTorn(flash)
    <3>1. CASE pc = "raiseFloor"
      BY <1>1, <1>2, <2>3, <3>1 DEF ConfirmTorn, Flash, Slot
    <3>2. CASE pc = "raiseEpoch"
      BY <1>1, <1>2, <2>3, <3>2 DEF ConfirmTorn, Flash, Slot, TornRaise, Smudge, Region
    <3>3. CASE pc = "mark"
      BY <1>1, <1>2, <2>3, <3>3 DEF ConfirmTorn
    <3> QED BY <3>1, <3>2, <3>3 DEF ConfirmSteps
  <2> QED BY <2>1, <2>2, <2>3
<1> HIDE DEF d, e
<1>4. \A s \in Slots : flash'[s].epochs.floor <= Meta[Factory].epoch
  BY <1>3 DEF e, FallbackInv, FallbackCore
<1>5. flash[kept].confirmed /\ Whole(kept) /\ flash'[kept] = flash[kept]
  BY <1>1, <1>3 DEF FallbackInv, FallbackCore
<1>6. Slots \ {running} = {kept} /\ Slots \ {kept} = {running}
  BY <1>1, SlotNames
<1>7. CASE pc = "mark" /\ e.confirmed
  <2>1. kept' = running /\ pc' = "app"
    BY <1>7 DEF KeptIn, e, Running
  <2>2. Preferred(flash', running, kept)
    BY <1>1, <1>3, <1>5 DEF Preferred, d, e
  <2>3. Whole(running)'
    BY <1>1, <1>3, <2>1 DEF Whole, d, e
  <2> QED BY <1>4, <1>6, <1>7, <2>1, <2>2, <2>3
          DEF FallbackInv, FallbackCore, e, Running, ConfirmSteps, InstallSteps
<1>8. CASE ~(pc = "mark" /\ e.confirmed)
  <2>1. kept' = kept
    BY <1>8 DEF KeptIn, e
  <2>2. ~e.confirmed /\ e.pending
    BY <1>1, <1>3, <1>8 DEF Trial, d
  <2>3. Whole(running)' /\ Whole(kept)'
    BY <1>1, <1>3, <1>5, <2>1 DEF Whole, d, e
  <2>4. Trial(flash', running) /\ flash'[running].counter > flash'[kept].counter
    BY <1>1, <1>3, <1>5, <2>2 DEF Trial, d, e
  <2>5. \A s \in Slots \ {kept} : ~flash'[s].confirmed
    BY <1>6, <2>2 DEF e
  <2> QED BY <1>1, <1>4, <1>5, <2>1, <2>3, <2>4, <2>5
          DEF FallbackInv, FallbackCore, Trial, Running, ConfirmSteps, InstallSteps
<1> QED BY <1>7, <1>8

LEMMA FallbackStep ==
  ASSUME ~Single, OneEpoch
  PROVE  TypeInv /\ FallbackInv /\ [Next]_vars => FallbackInv'
<1> SUFFICES ASSUME TypeInv, FallbackInv, [Next]_vars PROVE FallbackInv'
  OBVIOUS
<1>0. flash \in Flash /\ cand \in SUBSET Slots /\ kept \in Slots
  BY DEF TypeInv, TypeOK, Flash
<1> USE DEF Running, ConfirmSteps, InstallSteps
<1>1. CASE Survey
  <2>1. kept \in cand'
    BY <1>0, <1>1, FallbackHolds DEF Survey, FallbackIntact
  <2>2. \A s \in cand' : Whole(s) /\ (flash[s].confirmed \/ flash[s].pending)
    BY <1>1 DEF Survey, Bootable, Authentic, MayTry, Whole
  <2> QED BY <1>1, <2>1, <2>2 DEF Survey, FallbackInv, FallbackCore, Whole
<1>2. CASE ChooseKept
  BY <1>2 DEF ChooseKept, FallbackInv, FallbackCore, Whole
<1>3. ASSUME NEW s \in Slots, flash' \in {flash, Burned(flash, s)}
      PROVE  \A t \in Slots :
               /\ flash'[t].body = flash[t].body /\ flash'[t].trailer = flash[t].trailer
               /\ flash'[t].counter = flash[t].counter /\ flash'[t].pending = flash[t].pending
               /\ flash'[t].confirmed = flash[t].confirmed /\ flash'[t].epochs = flash[t].epochs
  BY <1>0, <1>3 DEF Burned, Flash, Slot
<1>4. CASE BurnAttempt \/ ArmFails
  <2> DEFINE s == Winner(flash, cand)
  <2>1. s \in cand
    BY <1>0, <1>4, WinnerWins DEF BurnAttempt, ArmFails
  <2>2. flash' \in {flash, Burned(flash, s)} /\ ~flash[s].confirmed
        /\ cand' \in {cand, cand \ {s}} /\ pc = "pick" /\ pc' \in {"pick", "mount"}
        /\ kept' = kept
    BY <1>4 DEF BurnAttempt, ArmFails
  <2> HIDE DEF s
  <2>3. kept \in cand' /\ cand' \in SUBSET cand
    BY <2>1, <2>2 DEF FallbackInv, FallbackCore
  <2>4. \A t \in Slots :
          /\ flash'[t].body = flash[t].body /\ flash'[t].trailer = flash[t].trailer
          /\ flash'[t].counter = flash[t].counter /\ flash'[t].pending = flash[t].pending
          /\ flash'[t].confirmed = flash[t].confirmed /\ flash'[t].epochs = flash[t].epochs
    BY <1>0, <1>3, <2>1, <2>2
  <2>5. FallbackCore'
    <3>1. flash'[kept] = flash[kept]
      BY <1>0, <2>1, <2>2 DEF FallbackInv, FallbackCore, Burned, Flash
    <3>2. \A t \in Slots : flash'[t].epochs.floor <= Meta[Factory].epoch
      BY <2>4 DEF FallbackInv, FallbackCore
    <3> QED BY <2>2, <2>4, <3>1, <3>2, CoreKept
  <2>6. \A t \in cand' : Whole(t)' /\ (flash'[t].confirmed \/ flash'[t].pending)
    BY <1>0, <2>2, <2>3, <2>4 DEF FallbackInv, Whole
  <2> QED BY <2>2, <2>3, <2>5, <2>6 DEF FallbackInv
<1>5. CASE Mount
  <2> DEFINE s == Winner(flash, cand)
  <2>1. s \in cand /\ s \in Slots /\ \A t \in cand \ {s} : Preferred(flash, s, t)
    BY <1>0, <1>5, WinnerWins DEF Mount, TypeInv
  <2>2. running' = s /\ pc' = "app" /\ flash' = flash /\ kept' = kept
    BY <1>5 DEF Mount
  <2> HIDE DEF s
  <2>3. kept \in cand /\ Whole(s) /\ (flash[s].confirmed \/ flash[s].pending)
    BY <1>5, <2>1 DEF Mount, FallbackInv, FallbackCore
  <2>4. s = kept \/ (Trial(flash, s) /\ flash[s].counter > flash[kept].counter)
    <3>1. CASE s # kept
      <4>1. Preferred(flash, s, kept)
        BY <2>1, <2>3, <3>1
      <4>2. \A t \in Slots : flash[t].counter \in Int /\ flash[t].confirmed \in BOOLEAN
        BY <1>0, BoundsAssumption DEF Flash, Slot, NoCounter
      <4>3. flash[s].confirmed => Preferred(flash, kept, s)
        BY <2>1, <3>1 DEF FallbackInv, FallbackCore
      <4>4. ~flash[s].confirmed
        BY <1>0, <2>1, <3>1, <4>1, <4>2, <4>3 DEF Preferred
      <4> QED BY <1>0, <2>1, <2>3, <4>1, <4>2, <4>4 DEF Preferred, Trial, FallbackInv, FallbackCore
    <3> QED BY <3>1
  <2> QED BY <2>2, <2>3, <2>4 DEF FallbackInv, FallbackCore, Whole, Trial
<1>6. CASE NoSlot
  BY <1>6 DEF NoSlot, FallbackInv, FallbackCore
<1>7. CASE ConfirmBegin
  BY <1>7 DEF ConfirmBegin, FallbackInv, FallbackCore, Whole, Trial
<1>8. CASE ConfirmStep
  BY <1>8, FallbackConfirm DEF ConfirmStep, AfterConfirm
<1>9. CASE ConfirmFault
  BY <1>9, FallbackConfirm DEF ConfirmFault
<1>10. ASSUME NEW i \in Images, Offer(i)
       PROVE  FallbackInv'
  <2>1. running = kept
    BY <1>10 DEF Offer, FallbackInv, FallbackCore
  <2>2. Writable(running) = Slots \ {kept}
    BY <1>0, <2>1 DEF Writable, Slots
  <2>3. inst'.target # kept
    BY <1>0, <1>10, <2>2, TargetWritable DEF Offer, Begin
  <2>4. inst'.epoch <= Meta[Factory].epoch
    <3>1. inst'.epoch = EpochFloor(flash)
      BY <1>10 DEF Offer, Begin
    <3>2. \A s \in Slots : flash[s].epochs.floor <= Meta[Factory].epoch
      BY DEF FallbackInv, FallbackCore
    <3> QED BY <3>1, <3>2 DEF EpochFloor, Slots, Larger
  <2> QED BY <1>10, <2>3, <2>4 DEF Offer, Begin, FallbackInv, FallbackCore, Whole
<1>11. ASSUME NEW i \in Images, RecoveryOffer(i)
       PROVE  FallbackInv'
  BY <1>11 DEF RecoveryOffer, FallbackInv, FallbackCore
<1>12. CASE InstallStep \/ StreamWrong
  <2>1. /\ pc \in InstallSteps \ {"flush"} /\ pc' = AfterInstall
        /\ flash' \in {InstallWrite(flash), InstallTorn(flash)}
        /\ inst' = inst /\ kept' = kept
    BY <1>12 DEF InstallStep, StreamWrong
  <2>2. /\ pc' \in InstallSteps /\ pc' # "eraseBody"
        /\ pc' # "eraseStatus" => pc # "eraseBody"
    BY <2>1 DEF AfterInstall
  <2>3. /\ flash'[kept] = flash[kept]
        /\ \A s \in Slots : flash'[s].epochs.floor <= Meta[Factory].epoch
        /\ \A s \in Slots \ {kept} : flash'[s].confirmed =>
             flash[s].confirmed /\ flash'[s].counter = flash[s].counter
        /\ pc # "eraseBody" => ~flash'[inst.target].confirmed \/ flash' = flash
    BY <2>1, FallbackInstall
  <2>4. pc' # "eraseStatus" => ~flash'[inst.target].confirmed
    <3>1. CASE pc = "eraseStatus"
      <4>1. flash' = InstallWrite(flash)
        BY <1>12, <3>1 DEF InstallStep, StreamWrong
      <4>2. inst.target \in Slots
        BY <2>1 DEF TypeInv, Install
      <4> QED BY <1>0, <3>1, <4>1, <4>2 DEF InstallWrite, Programmed, BlankStatus, Flash
    <3>2. CASE pc # "eraseStatus"
      BY <2>1, <2>2, <2>3, <3>2 DEF FallbackInv, FallbackCore
    <3> QED BY <3>1, <3>2
  <2>5. FallbackCore'
    BY <2>1, <2>3, CoreKept
  <2>6. inst'.target # kept' /\ inst'.epoch <= Meta[Factory].epoch
    BY <2>1 DEF FallbackInv, FallbackCore
  <2> QED BY <2>1, <2>2, <2>4, <2>5, <2>6 DEF FallbackInv, FallbackCore
<1>13. CASE HashMismatch \/ InstallFails
  <2>1. /\ pc \in InstallSteps /\ Retry /\ kept' = kept
        /\ flash' \in {flash, InstallTorn(flash), InstallWrite(flash)}
    BY <1>13 DEF HashMismatch, InstallFails
  <2>0. /\ flash'[kept] = flash[kept]
        /\ \A s \in Slots : flash'[s].epochs.floor <= Meta[Factory].epoch
        /\ \A s \in Slots \ {kept} : flash'[s].confirmed =>
             flash[s].confirmed /\ flash'[s].counter = flash[s].counter
    BY <2>1, FallbackInstall
  <2>2. CASE Reset
    BY <2>0, <2>1, <2>2, FallbackReset
  <2>3. CASE ~Reset
    <3>1. pc' = "eraseBody" /\ inst' = [inst EXCEPT !.attempt = @ + 1]
      BY <2>1, <2>3 DEF Retry
    <3>2. inst'.target = inst.target /\ inst'.epoch = inst.epoch
      BY <2>1, <3>1 DEF TypeInv, Install
    <3>3. FallbackCore'
      BY <2>0, <2>1, CoreKept
    <3> QED BY <2>1, <3>1, <3>2, <3>3 DEF FallbackInv, FallbackCore
  <2> QED BY <2>2, <2>3
<1>14. CASE InstallDone
  BY <1>14, FallbackReset DEF InstallDone, FallbackInv, FallbackCore
<1>15. CASE PowerCut
  BY <1>15, FallbackReset DEF PowerCut, FallbackInv, FallbackCore
<1>16. CASE TornCut
  <2>1. CASE pc \in ConfirmSteps
    <3>1. /\ running \in Slots /\ running # kept /\ ~flash[running].confirmed
          /\ flash[running] \in Slot
      BY <2>1 DEF FallbackInv, FallbackCore, TypeInv, TypeOK, Trial
    <3>2. /\ flash'[kept] = flash[kept]
          /\ \A s \in Slots : /\ flash'[s].confirmed = flash[s].confirmed
                              /\ flash'[s].counter = flash[s].counter
                              /\ flash'[s].epochs.floor = flash[s].epochs.floor
      BY <1>0, <1>16, <2>1, <3>1 DEF TornCut, ConfirmTorn, TornRaise, Smudge, Flash, Slot, Region
    <3> QED BY <1>16, <3>2, FallbackReset DEF TornCut, FallbackInv, FallbackCore
  <2>2. CASE pc \in InstallSteps
    <3>1. flash' = InstallTorn(flash)
      BY <1>16, <2>2 DEF TornCut
    <3> QED BY <1>16, <2>2, <3>1, FallbackInstall, FallbackReset DEF TornCut
  <2> QED BY <1>16, <2>1, <2>2 DEF TornCut
<1>17. CASE UNCHANGED vars
  BY <1>17 DEF vars, FallbackInv, FallbackCore, Whole, Trial
<1> QED BY <1>1, <1>2, <1>4, <1>5, <1>6, <1>7, <1>8, <1>9, <1>10, <1>11, <1>12, <1>13,
           <1>14, <1>15, <1>16, <1>17
        DEF Next, Boot, Confirm, Update

(* While no signing key is retired, an A/B camera always has its fallback: *)
(* the release it kept last stays whole, confirmed and bootable, whatever  *)
(* is offered, however installs, confirms and power fail.                  *)
THEOREM FallbackSafe ==
  ASSUME ~Single, OneEpoch
  PROVE  Spec => []FallbackIntact
<1>1. TypeInv /\ FallbackInv => FallbackIntact
  BY FallbackHolds
<1>2. TypeInv /\ FallbackInv /\ [Next]_vars => FallbackInv'
  BY FallbackStep
<1> QED BY <1>1, <1>2, FallbackStart, TypeInvariant, PTL DEF Spec
=============================================================================
