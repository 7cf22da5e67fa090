--------------------------- MODULE PromiseProofs ---------------------------
(***************************************************************************)
(* Under A/B, with one signing epoch, SlotUpdate implements UpdatePromise, *)
(* for every value of its constants that leaves room in the floor regions  *)
(* for the faults there may be; and what an armed trial, the floor and the *)
(* order of kept releases are owed follows.                                *)
(***************************************************************************)
EXTENDS SlotUpdateProofs

-----------------------------------------------------------------------------
(* A torn entry takes a place in the region; the carried floor and the     *)
(* trial's own take two.                                                   *)
Room == FloorEntries >= MaxFaults + 2

(* Between the erase of the marks and the one that arms the slot.          *)
Unarmed == {"eraseTrailer", "carryFloor", "carryEpoch", "stream", "trailer", "counter", "arm"}
Carrying == {"carryEpoch", "stream", "trailer", "counter", "arm"}

(* An armed slot is whole or has no body; it can still raise its floor;    *)
(* and as a trial it is not older than the kept release, which the kept    *)
(* slot's own floor covers.                                                *)
ArmedOK(s) ==
  flash[s].pending /\ flash[s].body \in Images =>
    /\ flash[s].trailer = flash[s].body
    /\ flash[s].floors.floor >= Key(flash[s].trailer) \/ flash[s].floors.used <= 1 + faults
    /\ ~flash[s].confirmed => Key(flash[s].trailer) >= Key(flash[kept].trailer)

SlotsInv ==
  /\ \A s \in Slots : ArmedOK(s)
  /\ flash[kept].floors.floor >= Key(flash[kept].trailer)

InstallInv ==
  /\ pc \in InstallSteps =>
       running = kept /\ Key(inst.image) >= Key(flash[kept].trailer)
  /\ pc \in Unarmed => ~flash[inst.target].pending /\ flash[inst.target].attempts = 0
  /\ pc \in Carrying => flash[inst.target].floors.used <= 1
  /\ pc \in {"counter", "arm", "flush"} => flash[inst.target].trailer = inst.image
  /\ pc \in {"arm", "flush"} => flash[inst.target].body = inst.image

PromiseInv ==
  /\ SlotsInv /\ InstallInv
  /\ pc \in BootSteps => running = None
  /\ pc \in {"raiseEpoch", "mark"} => flash[running].floors.floor >= Key(Image)

LEMMA PromiseStart == Init => PromiseInv
<1>. SUFFICES ASSUME Init PROVE PromiseInv  OBVIOUS
<1>1. \A s \in Slots : flash[s].trailer = Factory /\ ~flash[s].pending
                       /\ flash[s].floors = Append(BlankRegion, Key(Factory))
  BY DEF Init, FactorySlot
<1>2. Append(BlankRegion, Key(Factory)).floor >= Key(Factory)
  BY KeyType, LifecycleAssumption DEF Append, BlankRegion, Larger
<1>3. pc = "boot" /\ running = None /\ kept \in Slots
  BY SlotNames DEF Init
<1>. QED  BY <1>1, <1>2, <1>3
          DEF PromiseInv, SlotsInv, ArmedOK, InstallInv, InstallSteps, Unarmed, Carrying

-----------------------------------------------------------------------------
(* What an install's write, whole or half done, does to the slots.         *)
LEMMA Written ==
  ASSUME TypeInv, pc \in InstallSteps,
         flash' \in {flash, InstallWrite(flash), InstallTorn(flash)}
  PROVE  LET d == flash[inst.target]
             e == flash'[inst.target]
         IN  /\ inst.target \in Slots /\ inst.image \in Images
             /\ flash \in Flash /\ flash' \in Flash
             /\ \A s \in Slots : s # inst.target => flash'[s] = flash[s]
             /\ pc = "eraseBody" => e = d \/ e.body \in {Blank, Torn}
             /\ pc = "eraseStatus" => e = d \/ (~e.pending /\ e.body = d.body)
             /\ pc \in Unarmed \ {"arm"} => e.pending = d.pending /\ e.attempts = d.attempts
             /\ pc = "arm" => e = d \/ e = [d EXCEPT !.pending = TRUE]
             /\ pc = "flush" => e = d
<1>. DEFINE d == flash[inst.target]
            e == flash'[inst.target]
<1>1. /\ inst.target \in Slots /\ d \in Slot /\ flash' \in Flash /\ flash \in Flash
      /\ inst.image \in Images
  BY ProgramTypes DEF TypeInv, TypeOK, Install, Flash
<1>2. e = d \/ e = Programmed(d) \/ e = HalfProgrammed(d)
  BY <1>1 DEF InstallWrite, InstallTorn, Flash
<1>3. \A s \in Slots : s # inst.target => flash'[s] = flash[s]
  BY <1>1 DEF InstallWrite, InstallTorn, Flash
<1>. HIDE DEF d, e
<1>4. pc = "eraseBody" => e = d \/ e.body \in {Blank, Torn}
  BY <1>1, <1>2 DEF Programmed, HalfProgrammed, Slot
<1>5. pc = "eraseStatus" => e = d \/ (~e.pending /\ e.body = d.body)
  <2>1. /\ BlankStatus(d) \in [body : {d.body}, trailer : {d.trailer}, pending : {FALSE},
            confirmed : {FALSE}, counter : {NoCounter}, attempts : {0},
            floors : {BlankRegion}, epochs : {BlankRegion}]
    BY DEF BlankStatus
  <2>2. pc = "eraseStatus" => Programmed(d) = BlankStatus(d)  BY DEF Programmed
  <2>3. pc = "eraseStatus" => /\ HalfProgrammed(d).pending = BlankStatus(d).pending
                              /\ HalfProgrammed(d).body = BlankStatus(d).body
    BY <2>1 DEF HalfProgrammed
  <2>. QED  BY <1>2, <2>1, <2>2, <2>3
<1>6. pc \in Unarmed \ {"arm"} => e.pending = d.pending /\ e.attempts = d.attempts
  BY <1>1, <1>2 DEF Programmed, HalfProgrammed, Unarmed, Slot
<1>7. pc = "arm" => e = d \/ e = [d EXCEPT !.pending = TRUE]
  BY <1>2 DEF Programmed, HalfProgrammed
<1>8. pc = "flush" => e = d
  BY <1>2 DEF Programmed, HalfProgrammed
<1>. QED  BY <1>1, <1>3, <1>4, <1>5, <1>6, <1>7, <1>8 DEF d, e

(* A slot that is left alone, beside a kept one that is.                   *)
LEMMA ArmedStays ==
  ASSUME TypeInv, NEW s \in Slots, ArmedOK(s), flash'[s] = flash[s],
         flash'[kept] = flash[kept], kept' = kept, faults' \in Nat, faults' >= faults
  PROVE  ArmedOK(s)'
<1>1. flash[s].floors.used \in Nat /\ faults \in Nat
  BY BoundsAssumption DEF TypeInv, TypeOK, Slot, Region
<1>2. flash[s].floors.used <= 1 + faults => flash[s].floors.used <= 1 + faults'
  BY <1>1
<1>. QED  BY <1>2 DEF ArmedOK, Key

LEMMA InstallArmed ==
  ASSUME TypeInv, FallbackInv, PromiseInv, pc \in InstallSteps,
         flash' \in {flash, InstallWrite(flash), InstallTorn(flash)},
         kept' = kept, faults' \in Nat, faults' >= faults
  PROVE  SlotsInv'
<1>0. PICK t : t = inst.target  OBVIOUS
<1>. DEFINE d == flash[t]
            e == flash'[t]
<1>1. /\ t \in Slots /\ inst.image \in Images /\ flash \in Flash /\ flash' \in Flash
      /\ \A s \in Slots : s # t => flash'[s] = flash[s]
      /\ pc = "eraseBody" => e = d \/ e.body \in {Blank, Torn}
      /\ pc = "eraseStatus" => e = d \/ (~e.pending /\ e.body = d.body)
      /\ pc \in Unarmed \ {"arm"} => e.pending = d.pending
      /\ pc = "arm" => e = d \/ e = [d EXCEPT !.pending = TRUE]
      /\ pc = "flush" => e = d
  BY <1>0, Written
<1>2. kept \in Slots /\ t # kept /\ flash'[kept] = flash[kept]
  BY <1>0, <1>1 DEF TypeInv, TypeOK, FallbackInv
<1>3. ASSUME NEW s \in Slots, s # t  PROVE ArmedOK(s)'
  BY <1>1, <1>2, <1>3, ArmedStays DEF PromiseInv, SlotsInv
<1>4. CASE e = d
  <2>1. ArmedOK(t)'  BY <1>1, <1>2, <1>4, ArmedStays DEF PromiseInv, SlotsInv
  <2>. QED  BY <1>2, <1>3, <2>1 DEF PromiseInv, SlotsInv, Key
<1>5. CASE e # d /\ pc # "arm"
  <2>1. ~e.pending \/ e.body \notin Images
    BY <1>0, <1>1, <1>5, ImagesAssumption DEF PromiseInv, InstallInv, InstallSteps, Unarmed
  <2>2. ArmedOK(t)'  BY <2>1 DEF ArmedOK
  <2>. QED  BY <1>2, <1>3, <2>2 DEF PromiseInv, SlotsInv, Key
<1>6. CASE e # d /\ pc = "arm"
  <2>1. /\ d.body = inst.image /\ d.trailer = inst.image /\ d.floors.used <= 1
        /\ Key(inst.image) >= Key(flash[kept].trailer)
    BY <1>0, <1>6 DEF PromiseInv, InstallInv, InstallSteps, Carrying
  <2>2. d \in Slot /\ e = [d EXCEPT !.pending = TRUE]  BY <1>1, <1>6 DEF Flash
  <2>3. e.body = inst.image /\ e.trailer = inst.image /\ e.floors.used <= 1
    BY <2>1, <2>2 DEF Slot
  <2>4. e.floors.used \in Nat  BY <1>1, BoundsAssumption DEF Flash, Slot, Region
  <2>5. e.floors.used <= 1 + faults'  BY <2>3, <2>4
  <2>6. ArmedOK(t)'  BY <1>2, <2>1, <2>3, <2>5 DEF ArmedOK, Key
  <2>. QED  BY <1>2, <1>3, <2>6 DEF PromiseInv, SlotsInv, Key
<1>. QED  BY <1>4, <1>5, <1>6

(* Confirming touches only the slot that runs, a trial.                    *)
LEMMA Confirmed ==
  ASSUME TypeInv, FallbackInv, pc \in ConfirmSteps,
         flash' \in {flash, ConfirmTorn(flash), ConfirmWrite(flash)}
  PROVE  LET d == flash[running]
             e == flash'[running]
         IN  /\ running \in Slots /\ running # kept /\ kept \in Slots
             /\ Slots \ {kept} = {running}
             /\ d \in Slot /\ e \in Slot /\ Whole(running) /\ Trial(flash, running)
             /\ \A s \in Slots : s # running => flash'[s] = flash[s]
             /\ e.body = d.body /\ e.trailer = d.trailer /\ e.pending /\ e.attempts = d.attempts
             /\ pc # "mark" => ~e.confirmed
             /\ flash' = ConfirmTorn(flash) => ~e.confirmed
             /\ pc # "raiseFloor" => e.floors = d.floors
             /\ pc = "raiseFloor" =>
                  \/ e.floors = d.floors
                  \/ flash' = ConfirmWrite(flash) /\ e.floors = Raised(d.floors, Key(Image))
                  \/ flash' = ConfirmTorn(flash) /\ e.floors = TornRaise(d.floors, Key(Image))
             /\ pc = "raiseFloor" /\ flash' = ConfirmWrite(flash) =>
                  e.floors = Raised(d.floors, Key(Image))
<1>. DEFINE d == flash[running]
            e == flash'[running]
<1>1. /\ running \in Slots /\ running # kept /\ kept \in Slots
      /\ d \in Slot /\ Whole(running) /\ Trial(flash, running) /\ flash \in Flash
  BY DEF FallbackInv, TypeInv, TypeOK, Running, Flash
<1>2. Slots \ {kept} = {running}  BY <1>1, SlotNames
<1>3. flash' \in Flash  BY <1>1, ConfirmTypes
<1>4. \A s \in Slots : s # running => flash'[s] = flash[s]
  BY <1>1 DEF ConfirmWrite, ConfirmTorn, ConfirmSteps, Flash
<1>8. pc = "raiseFloor" /\ flash' = ConfirmWrite(flash) =>
        e.floors = Raised(d.floors, Key(Image))
  <2>1. SUFFICES ASSUME pc = "raiseFloor", flash' = ConfirmWrite(flash)
                 PROVE  e.floors = Raised(d.floors, Key(Image))
    OBVIOUS
  <2>2. e = [d EXCEPT !.floors = Raised(@, Key(Image))]
    BY <1>1, <2>1 DEF ConfirmWrite, Flash
  <2>. QED  BY <1>1, <2>2 DEF Slot
<1>5. CASE flash' = flash
  <2>1. e = d /\ d.pending /\ ~d.confirmed  BY <1>1, <1>5 DEF Trial
  <2>. QED  BY <1>1, <1>2, <1>3, <1>4, <1>8, <2>1
<1>6. CASE flash' = ConfirmTorn(flash)
  <2>1. CASE pc = "raiseFloor"
    <3>1. e = [d EXCEPT !.floors = TornRaise(@, Key(Image))]
      BY <1>1, <1>6, <2>1 DEF ConfirmTorn, Flash
    <3>2. /\ e.floors = TornRaise(d.floors, Key(Image)) /\ e.body = d.body
          /\ e.trailer = d.trailer /\ e.pending /\ ~e.confirmed /\ e.attempts = d.attempts
      BY <1>1, <3>1 DEF Trial, Slot
    <3>. QED  BY <1>1, <1>2, <1>3, <1>4, <1>6, <1>8, <2>1, <3>2 DEF Flash
  <2>2. CASE pc = "raiseEpoch"
    <3>1. e = [d EXCEPT !.epochs = TornRaise(@, Meta[Image].epoch)]
      BY <1>1, <1>6, <2>2 DEF ConfirmTorn, Flash
    <3>. QED  BY <1>1, <1>2, <1>3, <1>4, <1>6, <2>2, <3>1 DEF Trial, Slot, Flash
  <2>3. CASE pc = "mark"
    BY <1>1, <1>2, <1>3, <1>4, <1>6, <2>3 DEF ConfirmTorn, Trial, Flash
  <2>. QED  BY <2>1, <2>2, <2>3 DEF ConfirmSteps
<1>7. CASE flash' = ConfirmWrite(flash) /\ flash' # ConfirmTorn(flash)
  <2>1. CASE pc = "raiseFloor"
    <3>1. e = [d EXCEPT !.floors = Raised(@, Key(Image))]
      BY <1>1, <1>7, <2>1 DEF ConfirmWrite, Flash
    <3>. QED  BY <1>1, <1>2, <1>3, <1>4, <1>7, <2>1, <3>1 DEF Trial, Slot, Flash
  <2>2. CASE pc = "raiseEpoch"
    <3>1. e = [d EXCEPT !.epochs = Raised(@, Meta[Image].epoch)]
      BY <1>1, <1>7, <2>2 DEF ConfirmWrite, Flash
    <3>. QED  BY <1>1, <1>2, <1>3, <1>4, <1>7, <2>2, <3>1 DEF Trial, Slot, Flash
  <2>3. CASE pc = "mark"
    <3>1. e = [d EXCEPT !.confirmed = TRUE]
      BY <1>1, <1>7, <2>3 DEF ConfirmWrite, Flash
    <3>. QED  BY <1>1, <1>2, <1>3, <1>4, <1>7, <2>3, <3>1 DEF Trial, Slot, Flash
  <2>. QED  BY <2>1, <2>2, <2>3 DEF ConfirmSteps
<1>. QED  BY <1>5, <1>6, <1>7

(* A floor that is to be raised has a place left for it.                   *)
LEMMA RoomToRaise ==
  ASSUME Room, TypeInv, FallbackInv, PromiseInv, pc \in ConfirmSteps
  PROVE  LET r == flash[running].floors
         IN  /\ r \in Region /\ Image \in Images
             /\ r.floor >= Key(Image) \/ r.used <= 1 + faults
             /\ Raised(r, Key(Image)).floor >= Key(Image)
             /\ TornRaise(r, Key(Image)) # r =>
                  r.used <= 1 + faults
                  /\ TornRaise(r, Key(Image)).used = r.used + 1
<1>. DEFINE r == flash[running].floors
<1>1. /\ running \in Slots /\ flash[running] \in Slot
      /\ Whole(running) /\ Trial(flash, running)
  BY DEF FallbackInv, TypeInv, TypeOK, Running
<1>2. r \in Region /\ r.floor \in Nat /\ r.used \in Nat /\ Image \in Images /\ Key(Image) \in Nat
  BY <1>1, KeyType, BoundsAssumption DEF Slot, Region, Whole, Image
<1>3. r.floor >= Key(Image) \/ r.used <= 1 + faults
  BY <1>1 DEF PromiseInv, SlotsInv, ArmedOK, Whole, Trial, Image
<1>4. faults \in Nat /\ faults <= MaxFaults /\ MaxFaults \in Nat /\ FloorEntries \in Nat
  BY LifecycleAssumption, BoundsAssumption DEF TypeInv, TypeOK
<1>. HIDE DEF r
<1>5. ~(r.floor >= Key(Image)) => ~Full(r)  BY <1>2, <1>3, <1>4 DEF Full, Room
<1>6. Raised(r, Key(Image)).floor >= Key(Image)
  BY <1>2, <1>5 DEF Raised, Append, Larger
<1>7. TornRaise(r, Key(Image)) # r =>
        r.used <= 1 + faults /\ TornRaise(r, Key(Image)).used = r.used + 1
  BY <1>2, <1>3 DEF TornRaise, Smudge, Region
<1>. QED  BY <1>2, <1>3, <1>6, <1>7 DEF r

LEMMA ConfirmArmed ==
  ASSUME Room, TypeInv, FallbackInv, PromiseInv, pc \in ConfirmSteps,
         flash' \in {flash, ConfirmTorn(flash), ConfirmWrite(flash)},
         faults' \in Nat, faults' >= faults,
         flash' \in {flash, ConfirmWrite(flash)} \/ faults' > faults,
         kept' = kept \/ (pc = "mark" /\ kept' = running),
         kept' = kept => ~flash'[running].confirmed,
         kept' # kept => flash'[running].confirmed
  PROVE  SlotsInv'
<1>0. PICK r : r = running  OBVIOUS
<1>. DEFINE d == flash[r]
            e == flash'[r]
<1>1. /\ r \in Slots /\ r # kept /\ kept \in Slots /\ Slots \ {kept} = {r}
      /\ d \in Slot /\ e \in Slot /\ Whole(r) /\ Trial(flash, r)
      /\ flash'[kept] = flash[kept]
      /\ e.body = d.body /\ e.trailer = d.trailer /\ e.pending
      /\ pc # "raiseFloor" => e.floors = d.floors
      /\ pc = "raiseFloor" =>
           \/ e.floors = d.floors
           \/ flash' = ConfirmWrite(flash) /\ e.floors = Raised(d.floors, Key(Image))
           \/ flash' = ConfirmTorn(flash) /\ e.floors = TornRaise(d.floors, Key(Image))
  BY <1>0, Confirmed
<1>2. /\ Image \in Images /\ Image = e.trailer /\ e.body = e.trailer
  BY <1>0, <1>1 DEF Whole, Image
<1>3. /\ d.floors.floor >= Key(Image) \/ d.floors.used <= 1 + faults
      /\ Raised(d.floors, Key(Image)).floor >= Key(Image)
      /\ TornRaise(d.floors, Key(Image)) # d.floors =>
           d.floors.used <= 1 + faults
           /\ TornRaise(d.floors, Key(Image)).used = d.floors.used + 1
  BY <1>0, RoomToRaise
<1>4. Key(Image) >= Key(flash[kept].trailer)
  BY <1>0, <1>1, <1>2 DEF PromiseInv, SlotsInv, ArmedOK, Trial
<1>5. faults \in Nat /\ d.floors.used \in Nat /\ e.floors.used \in Nat
  BY <1>1, BoundsAssumption DEF TypeInv, TypeOK, Slot, Region
<1>6. e.floors.floor >= Key(Image) \/ e.floors.used <= 1 + faults'
  <2>1. CASE e.floors = d.floors  BY <1>3, <1>5, <2>1
  <2>2. CASE e.floors # d.floors /\ flash' = ConfirmWrite(flash) /\ e.floors = Raised(d.floors, Key(Image))
    BY <1>3, <2>2
  <2>3. CASE /\ e.floors # d.floors /\ flash' = ConfirmTorn(flash)
             /\ flash' \notin {flash, ConfirmWrite(flash)}
             /\ e.floors = TornRaise(d.floors, Key(Image))
    BY <1>3, <1>5, <2>3
  <2>. QED  BY <1>0, <1>1, <2>1, <2>2, <2>3, Confirmed
<1>7. CASE kept' = kept
  <2>1. ArmedOK(r)'  BY <1>1, <1>2, <1>4, <1>6, <1>7 DEF ArmedOK, Key
  <2>2. ArmedOK(kept)'
    BY <1>1, <1>7, ArmedStays DEF PromiseInv, SlotsInv
  <2>3. \A s \in Slots : ArmedOK(s)'  BY <1>1, <1>7, <2>1, <2>2
  <2>. QED  BY <1>1, <1>7, <2>3 DEF PromiseInv, SlotsInv, Key
<1>8. CASE kept' = r /\ kept' # kept
  <2>1. pc = "mark" /\ e.confirmed  BY <1>0, <1>1, <1>8
  <2>2. ArmedOK(r)'  BY <1>1, <1>2, <1>6, <2>1 DEF ArmedOK, Key
  <2>3. PICK k : k = kept  OBVIOUS
  <2>4. flash[k].confirmed /\ flash'[k] = flash[k] /\ k \in Slots
    BY <1>1, <2>3 DEF FallbackInv, FallbackCore
  <2>5. ArmedOK(k) /\ flash[k].floors.used \in Nat
    BY <2>4, BoundsAssumption DEF PromiseInv, SlotsInv, TypeInv, TypeOK, Slot, Region
  <2>6. flash[k].floors.used <= 1 + faults => flash[k].floors.used <= 1 + faults'
    BY <1>5, <2>5
  <2>7. ArmedOK(k)'  BY <2>4, <2>5, <2>6 DEF ArmedOK, Key
  <2>8. d.floors.floor >= Key(Image)
    BY <1>0, <2>1 DEF PromiseInv
  <2>9. e.floors.floor >= Key(e.trailer)  BY <1>1, <1>2, <2>1, <2>8
  <2>10. \A s \in Slots : ArmedOK(s)'  BY <1>1, <2>2, <2>3, <2>7
  <2>. QED  BY <1>8, <2>9, <2>10 DEF SlotsInv, Key
<1>. QED  BY <1>0, <1>7, <1>8

LEMMA PromiseReset ==
  ASSUME SlotsInv', Reset
  PROVE  PromiseInv'
BY DEF Reset, PromiseInv, InstallInv, InstallSteps, Unarmed, Carrying

LEMMA PromiseRetry ==
  ASSUME TypeInv, FallbackInv, PromiseInv, pc \in InstallSteps, SlotsInv', Retry,
         kept' = kept, flash'[kept] = flash[kept]
  PROVE  PromiseInv'
<1>1. CASE Reset  BY <1>1, PromiseReset
<1>2. CASE ~Reset
  <2>1. pc' = "eraseBody" /\ inst' = [inst EXCEPT !.attempt = @ + 1] /\ running' = running
    BY <1>2 DEF Retry
  <2>2. inst \in Install  BY DEF TypeInv
  <2>3. inst'.image = inst.image  BY <2>1, <2>2 DEF Install
  <2>4. running = kept /\ Key(inst.image) >= Key(flash[kept].trailer)
    BY DEF PromiseInv, InstallInv
  <2>. QED  BY <2>1, <2>3, <2>4
            DEF PromiseInv, InstallInv, Unarmed, Carrying, BootSteps, Key
<1>. QED  BY <1>1, <1>2

(* The installer's next instruction finds the slot as the last one left it. *)
LEMMA InstallGoesOn ==
  ASSUME TypeInv, FallbackInv, PromiseInv, SlotsInv', InstallStep \/ StreamWrong
  PROVE  PromiseInv'
<1>1. /\ pc \in InstallSteps \ {"flush"} /\ pc' = AfterInstall
      /\ flash' \in {InstallWrite(flash), InstallTorn(flash)}
      /\ pc # "stream" => flash' = InstallWrite(flash)
      /\ inst' = inst /\ kept' = kept /\ running' = running
      /\ pc = "counter" => flash[inst.target].body = inst.image
  <2>1. CASE InstallStep  BY <2>1 DEF InstallStep, HashMatches
  <2>2. CASE StreamWrong  BY <2>2 DEF StreamWrong, InstallSteps
  <2>. QED  BY <2>1, <2>2
<1>. DEFINE d == flash[inst.target]
            e == flash'[inst.target]
<1>2. /\ inst.target \in Slots /\ inst.target # kept /\ kept \in Slots
      /\ d \in Slot /\ flash'[kept] = flash[kept] /\ inst.image \in Images /\ flash \in Flash
      /\ pc \in Unarmed \ {"arm"} => e.pending = d.pending /\ e.attempts = d.attempts
  BY <1>1, Written DEF FallbackInv, TypeInv, TypeOK, Flash
<1>3. pc # "stream" => e = Programmed(d)
  BY <1>1, <1>2 DEF InstallWrite, Flash
<1>4. pc = "stream" => e.trailer = d.trailer /\ e.floors = d.floors
  BY <1>1, <1>2 DEF InstallWrite, InstallTorn, Programmed, HalfProgrammed, Flash, Slot
<1>5. running' = kept' /\ Key(inst'.image) >= Key(flash'[kept'].trailer)
  BY <1>1, <1>2 DEF PromiseInv, InstallInv, Key
<1>. HIDE DEF d, e
<1>6. pc' \in Unarmed => ~e.pending /\ e.attempts = 0
  <2>1. CASE pc = "eraseStatus"
    BY <1>3, <2>1 DEF Programmed, BlankStatus
  <2>2. CASE pc \in Unarmed \ {"arm"}
    BY <1>2, <2>2 DEF PromiseInv, InstallInv, d
  <2>. QED  BY <1>1, <2>1, <2>2 DEF AfterInstall, InstallSteps, Unarmed
<1>7. pc' \in Carrying => e.floors.used <= 1
  <2>1. CASE pc = "carryFloor"
    <3>1. d.floors.used = 0  BY <2>1 DEF TypeInv, d
    <3>2. e.floors = Carried(d.floors, inst.floor)
      BY <1>2, <1>3, <2>1 DEF Programmed, Slot
    <3>. QED  BY <3>1, <3>2 DEF Carried, Append
  <2>2. CASE pc \in Carrying \ {"arm"}
    <3>1. e.floors = d.floors
      BY <1>2, <1>3, <1>4, <2>2 DEF Programmed, Carrying, Slot
    <3>. QED  BY <2>2, <3>1 DEF PromiseInv, InstallInv, d
  <2>. QED  BY <1>1, <2>1, <2>2 DEF AfterInstall, InstallSteps, Carrying
<1>8. pc' \in {"counter", "arm", "flush"} => e.trailer = inst.image
  <2>1. CASE pc = "trailer"
    BY <1>2, <1>3, <2>1 DEF Programmed, Slot
  <2>2. CASE pc \in {"counter", "arm"}
    <3>1. e.trailer = d.trailer  BY <1>2, <1>3, <2>2 DEF Programmed, Slot
    <3>. QED  BY <2>2, <3>1 DEF PromiseInv, InstallInv, d
  <2>. QED  BY <1>1, <2>1, <2>2 DEF AfterInstall, InstallSteps
<1>9. pc' \in {"arm", "flush"} => e.body = inst.image
  <2>1. CASE pc \in {"counter", "arm"}
    <3>1. e.body = d.body  BY <1>2, <1>3, <2>1 DEF Programmed, Slot
    <3>. QED  BY <1>1, <2>1, <3>1 DEF PromiseInv, InstallInv, d
  <2>. QED  BY <1>1, <2>1 DEF AfterInstall, InstallSteps
<1>10. pc' \in InstallSteps  BY <1>1 DEF AfterInstall, InstallSteps
<1>. QED  BY <1>1, <1>5, <1>6, <1>7, <1>8, <1>9, <1>10
          DEF PromiseInv, InstallInv, e, InstallSteps, BootSteps, Unarmed, Carrying

(* Boot, and begin: nothing but an attempt's mark is written.              *)
LEMMA SlotsAlone ==
  ASSUME TypeInv, SlotsInv, kept' = kept, faults' \in Nat, faults' >= faults,
         NEW s \in Slots, flash' \in {flash, Burned(flash, s)}
  PROVE  SlotsInv'
<1>1. flash \in Flash /\ kept \in Slots  BY DEF TypeInv, TypeOK, Flash
<1>2. \A u \in Slots :
        /\ flash'[u].body = flash[u].body /\ flash'[u].trailer = flash[u].trailer
        /\ flash'[u].pending = flash[u].pending /\ flash'[u].confirmed = flash[u].confirmed
        /\ flash'[u].floors = flash[u].floors
  BY <1>1 DEF Burned, Flash, Slot
<1>3. ASSUME NEW u \in Slots  PROVE ArmedOK(u)'
  <2>1. flash[u].floors.used \in Nat /\ faults \in Nat
    BY BoundsAssumption DEF TypeInv, TypeOK, Slot, Region
  <2>2. flash[u].floors.used <= 1 + faults => flash[u].floors.used <= 1 + faults'  BY <2>1
  <2>. QED  BY <1>1, <1>2, <2>2 DEF SlotsInv, ArmedOK, Key
<1>. QED  BY <1>1, <1>2, <1>3 DEF SlotsInv, Key

(* What is vetted is not older than the floor, which covers the kept one.  *)
LEMMA OfferNewer ==
  ASSUME ~Single, TypeInv, FallbackInv, PromiseInv, NEW i \in Images, Offer(i)
  PROVE  running = kept /\ Key(i) >= Key(flash[kept].trailer)
<1>1. running = kept  BY DEF Offer, FallbackInv, Running, Trial
<1>2. kept \in Slots /\ Slots = {"A", "B"} /\ flash[kept].trailer \in Images
  BY DEF TypeInv, TypeOK, Slots, FallbackInv, FallbackCore, Whole
<1>3. \A s \in Slots : flash[s].floors.floor \in Nat
  BY DEF TypeInv, TypeOK, Slot, Region
<1>4. Floor(flash) >= flash[kept].floors.floor /\ Floor(flash) \in Nat
  BY <1>2, <1>3 DEF Floor, Larger
<1>5. Key(i) >= Floor(flash) /\ Key(i) \in Nat /\ Key(flash[kept].trailer) \in Nat
  BY <1>2, KeyType DEF Offer, Vetted
<1>6. flash[kept].floors.floor >= Key(flash[kept].trailer)  BY DEF PromiseInv, SlotsInv
<1>. QED  BY <1>1, <1>2, <1>3, <1>4, <1>5, <1>6

LEMMA PromiseStep ==
  ASSUME ~Single, Room, TypeInv, FallbackInv, PromiseInv, [Next]_vars
  PROVE  PromiseInv'
<1>0. kept \in Slots /\ faults \in Nat /\ flash \in Flash
  BY DEF TypeInv, TypeOK, Flash
<1>1. SlotsInv /\ (pc \in BootSteps => running = None) /\ "A" \in Slots
  BY SlotNames DEF PromiseInv
<1>2. CASE Survey \/ ChooseKept \/ NoSlot
  <2>1. SlotsInv'
    BY <1>0, <1>1, <1>2, SlotsAlone DEF Survey, ChooseKept, NoSlot
  <2>. QED  BY <1>1, <1>2, <2>1
            DEF Survey, ChooseKept, NoSlot, PromiseInv, InstallInv, InstallSteps, Unarmed,
                Carrying, BootSteps
<1>3. CASE BurnAttempt \/ ArmFails
  <2>1. PICK s \in Slots : flash' \in {flash, Burned(flash, s)}
    <3>1. Winner(flash, cand) \in Slots
      BY <1>0, <1>3, WinnerWins DEF BurnAttempt, ArmFails, TypeInv, TypeOK
    <3>. QED  BY <1>3, <3>1 DEF BurnAttempt, ArmFails
  <2>2. /\ kept' = kept /\ faults' \in Nat /\ faults' >= faults
        /\ pc' \in {"pick", "mount"} /\ running' = running /\ pc = "pick"
    BY <1>0, <1>3 DEF BurnAttempt, ArmFails
  <2>3. SlotsInv'  BY <1>1, <2>1, <2>2, SlotsAlone
  <2>. QED  BY <1>1, <2>2, <2>3
            DEF PromiseInv, InstallInv, InstallSteps, Unarmed, Carrying, BootSteps
<1>4. CASE Mount \/ ConfirmBegin
  <2>1. SlotsInv'
    BY <1>0, <1>1, <1>4, SlotsAlone DEF Mount, ConfirmBegin
  <2>. QED  BY <1>4, <2>1
            DEF Mount, ConfirmBegin, PromiseInv, InstallInv, InstallSteps, Unarmed, Carrying,
                BootSteps
<1>5. CASE ConfirmStep \/ ConfirmFault
  <2>1. /\ pc \in ConfirmSteps /\ kept' = KeptIn(flash') /\ running' = running /\ inst' = inst
        /\ flash' \in {flash, ConfirmTorn(flash), ConfirmWrite(flash)}
        /\ faults' \in Nat /\ faults' >= faults
        /\ flash' = ConfirmWrite(flash) \/ faults' > faults
        /\ pc' = "app" \/ (flash' = ConfirmWrite(flash) /\ pc' = AfterConfirm)
    BY <1>0, <1>5 DEF ConfirmStep, ConfirmFault
  <2>2. /\ running # kept /\ pc # "mark" => ~flash'[running].confirmed
        /\ pc # "raiseFloor" => flash'[running].floors = flash[running].floors
        /\ pc = "raiseFloor" /\ flash' = ConfirmWrite(flash) =>
             flash'[running].floors = Raised(flash[running].floors, Key(Image))
        /\ flash'[running].trailer = flash[running].trailer
    BY <2>1, Confirmed
  <2>3. /\ kept' = kept \/ (pc = "mark" /\ kept' = running)
        /\ kept' = kept => ~flash'[running].confirmed
        /\ kept' # kept => flash'[running].confirmed
    BY <2>1, <2>2, Confirmed DEF KeptIn
  <2>4. SlotsInv'  BY <2>1, <2>3, ConfirmArmed
  <2>5. pc' \in {"raiseEpoch", "mark"} => flash'[running'].floors.floor >= Key(Image)'
    <3>1. CASE pc = "raiseFloor" /\ flash' = ConfirmWrite(flash)
      BY <2>1, <2>2, <3>1, RoomToRaise DEF Image, Key
    <3>2. CASE pc = "raiseEpoch"
      BY <2>1, <2>2, <3>2 DEF PromiseInv, Image, Key
    <3>. QED  BY <2>1, <3>1, <3>2 DEF AfterConfirm, ConfirmSteps
  <2>6. pc' \in {"raiseEpoch", "mark", "app"}  BY <2>1 DEF AfterConfirm, ConfirmSteps
  <2>. QED  BY <2>4, <2>5, <2>6
            DEF PromiseInv, InstallInv, InstallSteps, Unarmed, Carrying, BootSteps
<1>6. ASSUME NEW i \in Images, Offer(i)  PROVE PromiseInv'
  <2>1. running = kept /\ Key(i) >= Key(flash[kept].trailer)  BY <1>6, OfferNewer
  <2>2. /\ flash' = flash /\ kept' = kept /\ running' = running /\ faults' = faults
        /\ pc' = "eraseBody" /\ inst'.image = i
    BY <1>6 DEF Offer, Begin
  <2>3. SlotsInv'  BY <1>0, <1>1, <2>2, SlotsAlone
  <2>. QED  BY <2>1, <2>2, <2>3
            DEF PromiseInv, InstallInv, InstallSteps, Unarmed, Carrying, BootSteps, Key
<1>7. ASSUME NEW i \in Images, RecoveryOffer(i)  PROVE PromiseInv'
  BY <1>7 DEF RecoveryOffer, FallbackInv
<1>8. CASE InstallStep \/ StreamWrong
  <2>1. /\ pc \in InstallSteps /\ kept' = kept /\ faults' \in Nat /\ faults' >= faults
        /\ flash' \in {flash, InstallWrite(flash), InstallTorn(flash)}
    <3>1. CASE InstallStep  BY <1>0, <3>1 DEF InstallStep
    <3>2. CASE StreamWrong  BY <1>0, <3>2 DEF StreamWrong, InstallSteps
    <3>. QED  BY <1>8, <3>1, <3>2
  <2>2. SlotsInv'  BY <2>1, InstallArmed
  <2>. QED  BY <1>8, <2>2, InstallGoesOn
<1>9. CASE HashMismatch \/ InstallFails
  <2>1. /\ pc \in InstallSteps /\ Retry /\ kept' = kept /\ faults' \in Nat /\ faults' >= faults
        /\ flash' \in {flash, InstallWrite(flash), InstallTorn(flash)}
    <3>1. CASE HashMismatch  BY <1>0, <3>1 DEF HashMismatch, InstallSteps
    <3>2. CASE InstallFails  BY <1>0, <3>2 DEF InstallFails
    <3>. QED  BY <1>9, <3>1, <3>2
  <2>2. flash'[kept] = flash[kept]  BY <2>1, FallbackInstall
  <2>3. SlotsInv'  BY <2>1, InstallArmed
  <2>. QED  BY <2>1, <2>2, <2>3, PromiseRetry
<1>10. CASE InstallDone \/ PowerCut
  <2>1. SlotsInv'  BY <1>0, <1>1, <1>10, SlotsAlone DEF InstallDone, PowerCut
  <2>. QED  BY <1>10, <2>1, PromiseReset DEF InstallDone, PowerCut
<1>11. CASE TornCut
  <2>1. /\ kept' = kept /\ faults' \in Nat /\ faults' > faults /\ faults' >= faults /\ Reset
    BY <1>0, <1>11 DEF TornCut
  <2>2. CASE pc \in ConfirmSteps
    <3>1. flash' = ConfirmTorn(flash)  BY <1>11, <2>2 DEF TornCut
    <3>2. ~flash'[running].confirmed  BY <2>2, <3>1, Confirmed
    <3>3. SlotsInv'  BY <2>1, <2>2, <3>1, <3>2, ConfirmArmed
    <3>. QED  BY <2>1, <3>3, PromiseReset
  <2>3. CASE pc \notin ConfirmSteps
    <3>1. pc \in InstallSteps /\ flash' = InstallTorn(flash)  BY <1>11, <2>3 DEF TornCut
    <3>2. SlotsInv'  BY <2>1, <3>1, InstallArmed
    <3>. QED  BY <2>1, <3>2, PromiseReset
  <2>. QED  BY <2>2, <2>3
<1>12. CASE UNCHANGED vars
  <2>1. SlotsInv'  BY <1>0, <1>1, <1>12, SlotsAlone DEF vars
  <2>. QED  BY <1>12, <2>1 DEF vars, PromiseInv, InstallInv, Image, Key
<1>. QED  BY <1>2, <1>3, <1>4, <1>5, <1>6, <1>7, <1>8, <1>9, <1>10, <1>11, <1>12
          DEF Next, Boot, Confirm, Update

LEMMA PromiseHolds ==
  ASSUME ~Single, OneEpoch, Room
  PROVE  Spec => [](TypeInv /\ FallbackInv /\ PromiseInv)
<1>1. TypeInv /\ FallbackInv /\ [Next]_vars => FallbackInv'
  BY FallbackStep
<1>2. TypeInv /\ FallbackInv /\ PromiseInv /\ [Next]_vars => PromiseInv'
  BY PromiseStep
<1>. QED  BY <1>1, <1>2, FallbackStart, PromiseStart, TypeInvariant, PTL DEF Spec

-----------------------------------------------------------------------------
(* However floor entries are torn and whatever fails between the raise of  *)
(* the floor and CONFIRMED, the anti-rollback floor is never below the     *)
(* release the camera keeps.                                               *)
THEOREM FloorCovered ==
  ASSUME ~Single, OneEpoch, Room
  PROVE  Spec => []FloorCoversKept
<1>1. TypeInv /\ FallbackInv /\ PromiseInv => FloorCoversKept
  <2>. SUFFICES ASSUME TypeInv, FallbackInv, PromiseInv  PROVE FloorCoversKept
    OBVIOUS
  <2>1. kept \in Slots /\ Slots = {"A", "B"} /\ flash[kept].trailer \in Images
    BY DEF TypeInv, TypeOK, Slots, FallbackInv, FallbackCore, Whole
  <2>2. \A s \in Slots : flash[s].floors.floor \in Nat
    BY DEF TypeInv, TypeOK, Slot, Region
  <2>3. Floor(flash) >= flash[kept].floors.floor /\ Floor(flash) \in Nat
    BY <2>1, <2>2 DEF Floor, Larger
  <2>4. flash[kept].floors.floor >= Key(flash[kept].trailer)
    BY DEF PromiseInv, SlotsInv
  <2>. QED  BY <2>1, <2>2, <2>3, <2>4, KeyType DEF FloorCoversKept
<1>. QED  BY <1>1, PromiseHolds, PTL

(* Only marking the trial that runs CONFIRMED changes the kept release.    *)
LEMMA KeptChanges ==
  ASSUME TypeInv, FallbackInv, PromiseInv, Next, kept' # kept
  PROVE  /\ pc = "mark" /\ kept' = running /\ flash'[running].confirmed
         /\ flash'[running].trailer = flash[running].trailer
         /\ Key(flash[running].trailer) >= Key(flash[kept].trailer)
<1>1. ConfirmStep \/ ConfirmFault
  BY DEF Next, Boot, Confirm, Update, Survey, ChooseKept, BurnAttempt, ArmFails, Mount, NoSlot,
         ConfirmBegin, Offer, RecoveryOffer, Begin, InstallStep, StreamWrong, HashMismatch,
         InstallDone, InstallFails, PowerCut, TornCut
<1>2. /\ pc \in ConfirmSteps /\ kept' = KeptIn(flash')
      /\ flash' \in {flash, ConfirmTorn(flash), ConfirmWrite(flash)}
  BY <1>1 DEF ConfirmStep, ConfirmFault
<1>3. pc = "mark" /\ kept' = running /\ flash'[running].confirmed
  BY <1>2 DEF KeptIn
<1>4. /\ running \in Slots /\ Whole(running) /\ Trial(flash, running)
      /\ flash'[running].trailer = flash[running].trailer
  BY <1>2, Confirmed
<1>5. Key(flash[running].trailer) >= Key(flash[kept].trailer)
  BY <1>4 DEF PromiseInv, SlotsInv, ArmedOK, Whole, Trial
<1>. QED  BY <1>3, <1>4, <1>5

(* The camera never keeps a release that its own order puts before the one *)
(* it kept last.                                                           *)
THEOREM NeverOlder ==
  ASSUME ~Single, OneEpoch, Room
  PROVE  Spec => KeptNeverOlder
<1>1. TypeInv /\ FallbackInv /\ PromiseInv /\ [Next]_vars =>
        [kept' # kept => Key(flash'[kept'].trailer) >= Key(flash[kept].trailer)]_vars
  BY KeptChanges DEF Key
<1>. QED  BY <1>1, PromiseHolds, PTL DEF Spec, KeptNeverOlder

(* Where versions of different product lines do not compare, it never      *)
(* keeps a release published before the one it kept last.                  *)
THEOREM NeverRepublished ==
  ASSUME ~Single, OneEpoch, Room, ProductId = 0
  PROVE  Spec => KeptNeverRepublished
<1>1. TypeInv /\ FallbackInv /\ PromiseInv /\ [Next]_vars =>
        [kept' # kept => Meta[flash'[kept'].trailer].seq >= Meta[flash[kept].trailer].seq]_vars
  BY KeptChanges DEF Key
<1>. QED  BY <1>1, PromiseHolds, PTL DEF Spec, KeptNeverRepublished

-----------------------------------------------------------------------------
(* The refinement.  What the mapping reads, by name.                       *)
KeptRelease == flash[kept].trailer
TrialRelease == TrialOr([s \in Slots |-> flash[s].trailer], None)
Paid == TrialOr([s \in Slots |-> flash[s].attempts], 0)
Ran == TrialOr(runs, 0)
On == IF running = None THEN "off" ELSE IF running = kept THEN "kept" ELSE "trial"

Mapped == <<KeptRelease, TrialRelease, Paid, Ran>>

MapsTo == [Promise!Next]_(Promise!pvars)

LEMMA Stutters ==
  ASSUME UNCHANGED Mapped, On' \in {On, "off"}
  PROVE  MapsTo
<1>1. CASE On' = On
  BY <1>1 DEF MapsTo, Promise!pvars, Mapped, KeptRelease, TrialRelease, Paid, Ran, On
<1>2. CASE On' = "off"
  <2>1. Promise!Off
    BY <1>2 DEF Promise!Off, Mapped, KeptRelease, TrialRelease, Paid, Ran, On
  <2>. QED  BY <2>1 DEF MapsTo, Promise!Next
<1>. QED  BY <1>1, <1>2

(* The slot that is not the kept one is all there is to read.              *)
OnTrialAt(o) == Trial(flash, o) /\ flash[o].body \in Images

Reads ==
  \A o \in Slots : Slots \ {kept} = {o} =>
    /\ TrialRelease = IF OnTrialAt(o) THEN flash[o].trailer ELSE None
    /\ Paid = IF OnTrialAt(o) THEN flash[o].attempts ELSE 0
    /\ Ran = IF OnTrialAt(o) THEN runs[o] ELSE 0

LEMMA ReadsHold == Reads
<1>. SUFFICES ASSUME NEW o \in Slots, Slots \ {kept} = {o}
              PROVE  /\ TrialRelease = IF OnTrialAt(o) THEN flash[o].trailer ELSE None
                     /\ Paid = IF OnTrialAt(o) THEN flash[o].attempts ELSE 0
                     /\ Ran = IF OnTrialAt(o) THEN runs[o] ELSE 0
  BY DEF Reads
<1>1. OnTrial = IF OnTrialAt(o) THEN {o} ELSE {}
  BY DEF OnTrial, OnTrialAt
<1>2. OnTrialAt(o) => (CHOOSE s \in OnTrial : TRUE) = o
  BY <1>1
<1>. QED  BY <1>1, <1>2 DEF TrialOr, TrialRelease, Paid, Ran

LEMMA ReadsHoldNext == Reads'
BY ReadsHold, PTL

(* The kept slot and the other one, as long as neither name moves.         *)
LEMMA OtherSlot ==
  ASSUME ~Single, TypeInv, FallbackInv
  PROVE  /\ kept \in Slots
         /\ \E o \in Slots : o # kept /\ Slots = {kept, o} /\ Slots \ {kept} = {o}
BY DEF TypeInv, TypeOK, Slots

(* Nothing the mapping reads changes.                                      *)
LEMMA SameRead ==
  ASSUME NEW o \in Slots, Slots \ {kept} = {o}, kept' = kept,
         flash'[kept].trailer = flash[kept].trailer,
         OnTrialAt(o)' <=> OnTrialAt(o),
         OnTrialAt(o) => /\ flash'[o].trailer = flash[o].trailer
                         /\ flash'[o].attempts = flash[o].attempts /\ runs'[o] = runs[o]
  PROVE  UNCHANGED Mapped
<1>1. Slots \ {kept'} = {o}  OBVIOUS
<1>2. /\ TrialRelease' = IF OnTrialAt(o)' THEN flash'[o].trailer ELSE None
      /\ Paid' = IF OnTrialAt(o)' THEN flash'[o].attempts ELSE 0
      /\ Ran' = IF OnTrialAt(o)' THEN runs'[o] ELSE 0
  BY <1>1, ReadsHoldNext DEF Reads
<1>3. /\ TrialRelease = IF OnTrialAt(o) THEN flash[o].trailer ELSE None
      /\ Paid = IF OnTrialAt(o) THEN flash[o].attempts ELSE 0
      /\ Ran = IF OnTrialAt(o) THEN runs[o] ELSE 0
  BY ReadsHold DEF Reads
<1>. QED  BY <1>2, <1>3 DEF Mapped, KeptRelease

(* An install: the erase loses what was on trial, the arming mark brings   *)
(* the new release in, and nothing else shows.                             *)
LEMMA InstallMaps ==
  ASSUME ~Single, TypeInv, FallbackInv, RunsInv, RunsInv', PromiseInv, pc \in InstallSteps,
         flash' \in {flash, InstallWrite(flash), InstallTorn(flash)},
         runs' = RunsIn(flash'), kept' = kept, running' \in {running, None}
  PROVE  MapsTo
<1>0. PICK o \in Slots : o # kept /\ Slots = {kept, o} /\ Slots \ {kept} = {o}
  BY OtherSlot
<1>. DEFINE d == flash[o]
            e == flash'[o]
<1>1. /\ inst.target = o /\ inst.image \in Images
      /\ kept \in Slots /\ d \in Slot /\ flash'[kept] = flash[kept]
      /\ pc = "eraseBody" => e = d \/ e.body \in {Blank, Torn}
      /\ pc = "eraseStatus" => e = d \/ (~e.pending /\ e.body = d.body)
      /\ pc \in Unarmed \ {"arm"} => e.pending = d.pending
      /\ pc = "arm" => e = d \/ e = [d EXCEPT !.pending = TRUE]
      /\ pc = "flush" => e = d
  <2>1. inst.target \in Slots /\ inst.target # kept /\ kept \in Slots
    BY Written DEF FallbackInv, TypeInv, TypeOK
  <2>2. inst.target = o  BY <1>0, <2>1
  <2>. QED  BY <1>0, <2>1, <2>2, Written DEF Flash
<1>2. running = kept /\ On = "kept" /\ On' \in {On, "off"}
  BY <1>1, ImagesAssumption DEF PromiseInv, InstallInv, On
<1>3. e.body = d.body => runs'[o] = runs[o]
  BY DEF RunsIn
<1>4. CASE e = d
  BY <1>0, <1>1, <1>2, <1>3, <1>4, SameRead, Stutters DEF OnTrialAt, Trial
<1>5. CASE pc = "eraseBody" /\ e # d
  <2>1. ~OnTrialAt(o)'  BY <1>1, <1>5, ImagesAssumption DEF OnTrialAt
  <2>2. TrialRelease' = None /\ Paid' = 0 /\ Ran' = 0
    BY <1>0, <2>1, ReadsHoldNext DEF Reads
  <2>3. Promise!Lose
    BY <1>1, <1>2, <2>2
       DEF Promise!Lose, Promise!Stays, KeptRelease, TrialRelease, Paid, Ran, On
  <2>. QED  BY <2>3 DEF MapsTo, Promise!Next
<1>6. CASE pc \in InstallSteps \ {"eraseBody", "arm"} /\ e # d
  <2>1. ~OnTrialAt(o)
    BY <1>1, <1>6 DEF RunsInv, PromiseInv, InstallInv, InstallSteps, Unarmed, OnTrialAt, Trial
  <2>2. ~OnTrialAt(o)'
    BY <1>1, <1>6 DEF RunsInv, PromiseInv, InstallInv, InstallSteps, Unarmed, OnTrialAt, Trial
  <2>. QED  BY <1>0, <1>1, <1>2, <2>1, <2>2, SameRead, Stutters
<1>7. CASE pc = "arm" /\ e # d
  <2>1. /\ d.trailer = inst.image /\ d.body = inst.image /\ d.attempts = 0
        /\ ~d.confirmed /\ Key(inst.image) >= Key(flash[kept].trailer)
    BY <1>1, <1>7 DEF PromiseInv, InstallInv, Unarmed, InstallSteps, FallbackInv
  <2>2. /\ e.trailer = inst.image /\ e.body = inst.image /\ e.attempts = 0
        /\ ~e.confirmed /\ e.pending
    BY <1>1, <1>7, <2>1 DEF Slot
  <2>3. runs'[o] = 0
    <3>1. runs'[o] = runs[o] /\ runs[o] \in Nat
      BY <1>3, <2>1, <2>2 DEF TypeInv, TypeOK
    <3>2. runs[o] <= d.attempts  BY <2>1 DEF RunsInv
    <3>. QED  BY <2>1, <3>1, <3>2
  <2>4. OnTrialAt(o)'  BY <1>1, <2>2 DEF OnTrialAt, Trial
  <2>5. TrialRelease' = inst.image /\ Paid' = 0 /\ Ran' = 0
    BY <1>0, <2>2, <2>3, <2>4, ReadsHoldNext DEF Reads
  <2>6. flash[kept].trailer \in Images  BY DEF FallbackInv, FallbackCore, Whole
  <2>7. Promise!Arrive(inst.image)
    BY <1>1, <1>2, <2>1, <2>5, <2>6
       DEF Promise!Arrive, Promise!Stays, KeptRelease, TrialRelease, Paid, Ran, On
  <2>. QED  BY <1>1, <2>7 DEF MapsTo, Promise!Next
<1>. QED  BY <1>4, <1>5, <1>6, <1>7

(* A trial that is paid for, and one that is run.                          *)
LEMMA PayMaps ==
  ASSUME ~Single, TypeInv, FallbackInv, RunsInv, PromiseInv, pc = "pick", cand # {},
         ~flash[Winner(flash, cand)].confirmed,
         flash' = Burned(flash, Winner(flash, cand)),
         kept' = kept, running' = running, runs' = runs
  PROVE  MapsTo
<1>0. PICK o \in Slots : o # kept /\ Slots = {kept, o} /\ Slots \ {kept} = {o}
  BY OtherSlot
<1>1. Winner(flash, cand) \in cand /\ cand \in SUBSET Slots /\ flash \in Flash
  BY WinnerWins DEF TypeInv, TypeOK, Flash
<1>2. kept \in Slots /\ flash[kept].confirmed  BY DEF FallbackInv, FallbackCore, TypeInv, TypeOK
<1>3. Winner(flash, cand) = o /\ o \in cand  BY <1>0, <1>1, <1>2
<1>4. /\ flash[o].pending /\ ~flash[o].confirmed /\ flash[o].body \in Images
      /\ flash[o].trailer \in Images /\ flash[o].attempts < MaxAttempts
  BY <1>3 DEF FallbackInv, BootSteps, Whole, RunsInv
<1>5. OnTrialAt(o)  BY <1>4 DEF OnTrialAt, Trial
<1>6. /\ flash'[kept] = flash[kept] /\ flash'[o] = [flash[o] EXCEPT !.attempts = @ + 1]
      /\ flash[o] \in Slot
  BY <1>0, <1>1, <1>2, <1>3 DEF Burned, Flash
<1>7. OnTrialAt(o)' /\ flash'[o].trailer = flash[o].trailer
      /\ flash'[o].attempts = flash[o].attempts + 1
  BY <1>5, <1>6 DEF OnTrialAt, Trial, Slot
<1>8. /\ TrialRelease = flash[o].trailer /\ Paid = flash[o].attempts /\ Ran = runs[o]
      /\ TrialRelease' = flash[o].trailer /\ Paid' = flash[o].attempts + 1 /\ Ran' = runs[o]
  BY <1>0, <1>5, <1>7, ReadsHold, ReadsHoldNext DEF Reads
<1>9. running = None  BY DEF PromiseInv, BootSteps
<1>10. Promise!Pay
  BY <1>4, <1>6, <1>8, <1>9, ImagesAssumption
     DEF Promise!Pay, KeptRelease, TrialRelease, Paid, Ran, On
<1>. QED  BY <1>10 DEF MapsTo, Promise!Next

LEMMA MountMaps ==
  ASSUME ~Single, TypeInv, FallbackInv, FallbackInv', RunsInv, PromiseInv, Mount
  PROVE  MapsTo
<1>0. PICK o \in Slots : o # kept /\ Slots = {kept, o} /\ Slots \ {kept} = {o}
  BY OtherSlot
<1>1. /\ cand # {} /\ cand \in SUBSET Slots /\ flash \in Flash /\ runs \in [Slots -> Nat]
      /\ kept \in Slots /\ None \notin Slots
  BY ImagesAssumption DEF Mount, TypeInv, TypeOK, Flash
<1>2. Winner(flash, cand) \in cand  BY <1>1, WinnerWins
<1>3. /\ flash' = flash /\ kept' = kept /\ running' = Winner(flash, cand) /\ pc = "mount"
      /\ runs' = [runs EXCEPT ![Winner(flash, cand)] =
                    @ + (IF flash[Winner(flash, cand)].confirmed THEN 0 ELSE 1)]
  BY DEF Mount
<1>4. running = None  BY <1>3 DEF PromiseInv, BootSteps
<1>5. flash[kept].confirmed  BY DEF FallbackInv, FallbackCore
<1>6. CASE Winner(flash, cand) = kept
  <2>1. runs'[o] = runs[o]  BY <1>0, <1>1, <1>3, <1>6
  <2>2. UNCHANGED Mapped
    BY <1>0, <1>3, <2>1, SameRead DEF OnTrialAt, Trial
  <2>3. Promise!RunKept
    BY <1>1, <1>3, <1>4, <1>6, <2>2
       DEF Promise!RunKept, Mapped, KeptRelease, TrialRelease, Paid, Ran, On
  <2>. QED  BY <2>3 DEF MapsTo, Promise!Next
<1>7. CASE Winner(flash, cand) = o
  <2>1. Trial(flash', running')
    BY <1>0, <1>3, <1>7 DEF FallbackInv, Running, Mount
  <2>2. flash[o].pending /\ ~flash[o].confirmed  BY <1>3, <1>7, <2>1 DEF Trial
  <2>3. flash[o].body \in Images /\ flash[o].trailer \in Images
    BY <1>2, <1>3, <1>7 DEF FallbackInv, Whole
  <2>4. OnTrialAt(o) /\ OnTrialAt(o)'  BY <1>3, <2>2, <2>3 DEF OnTrialAt, Trial
  <2>5. runs'[o] = runs[o] + 1  BY <1>1, <1>3, <1>7, <2>2
  <2>6. runs[o] < flash[o].attempts  BY <1>3, <1>7, <2>2 DEF RunsInv
  <2>7. /\ TrialRelease = flash[o].trailer /\ Paid = flash[o].attempts /\ Ran = runs[o]
        /\ TrialRelease' = flash[o].trailer /\ Paid' = flash[o].attempts
        /\ Ran' = runs[o] + 1
    BY <1>0, <1>3, <2>4, <2>5, ReadsHold, ReadsHoldNext DEF Reads
  <2>8. Promise!Try
    BY <1>0, <1>1, <1>3, <1>4, <1>7, <2>3, <2>6, <2>7, ImagesAssumption
       DEF Promise!Try, KeptRelease, TrialRelease, Paid, Ran, On
  <2>. QED  BY <2>8 DEF MapsTo, Promise!Next
<1>. QED  BY <1>0, <1>1, <1>2, <1>6, <1>7

(* confirm(): the mark keeps the trial that runs; the floors do not show.  *)
LEMMA ConfirmMaps ==
  ASSUME ~Single, TypeInv, FallbackInv, pc \in ConfirmSteps,
         flash' \in {flash, ConfirmTorn(flash), ConfirmWrite(flash)}, runs' = runs,
         \/ kept' = KeptIn(flash') /\ running' = running
         \/ kept' = kept /\ ~flash'[running].confirmed /\ running' = None
  PROVE  MapsTo
<1>0. PICK o \in Slots : o # kept /\ Slots = {kept, o} /\ Slots \ {kept} = {o}
  BY OtherSlot
<1>1. /\ running = o /\ kept \in Slots /\ None \notin Slots
      /\ Whole(o) /\ Trial(flash, o) /\ flash'[kept] = flash[kept]
      /\ flash'[o].body = flash[o].body /\ flash'[o].trailer = flash[o].trailer
      /\ flash'[o].pending /\ flash'[o].attempts = flash[o].attempts
      /\ pc # "mark" => ~flash'[o].confirmed
  BY <1>0, Confirmed, ImagesAssumption
<1>2. OnTrialAt(o)  BY <1>1 DEF OnTrialAt, Whole
<1>3. CASE kept' = kept /\ ~flash'[o].confirmed
  <2>1. OnTrialAt(o)'  BY <1>1, <1>2, <1>3 DEF OnTrialAt, Trial
  <2>2. UNCHANGED Mapped  BY <1>0, <1>1, <1>2, <1>3, <2>1, SameRead
  <2>3. On' \in {On, "off"}  BY <1>3 DEF On
  <2>. QED  BY <2>2, <2>3, Stutters
<1>4. CASE ~(kept' = kept /\ ~flash'[o].confirmed)
  <2>1. kept' = o /\ running' = o /\ flash'[o].confirmed
    BY <1>0, <1>1, <1>4 DEF KeptIn
  <2>2. PICK k \in Slots : k = kept /\ flash[k].confirmed
    BY <1>1 DEF FallbackInv, FallbackCore
  <2>3. Slots \ {kept'} = {k}  BY <1>0, <2>1, <2>2
  <2>4. ~OnTrialAt(k)'  BY <1>1, <2>2 DEF OnTrialAt, Trial
  <2>5. TrialRelease' = None /\ Paid' = 0 /\ Ran' = 0
    BY <2>3, <2>4, ReadsHoldNext DEF Reads
  <2>6. TrialRelease = flash[o].trailer  BY <1>0, <1>2, ReadsHold DEF Reads
  <2>7. Promise!Keep
    BY <1>0, <1>1, <2>1, <2>5, <2>6
       DEF Promise!Keep, KeptRelease, TrialRelease, Paid, Ran, On
  <2>. QED  BY <2>7 DEF MapsTo, Promise!Next
<1>. QED  BY <1>3, <1>4

LEMMA NothingMaps ==
  ASSUME ~Single, TypeInv, FallbackInv, flash' = flash, kept' = kept, runs' = runs,
         running' \in {running, None}
  PROVE  MapsTo
<1>0. PICK o \in Slots : o # kept /\ Slots = {kept, o} /\ Slots \ {kept} = {o}
  BY OtherSlot
<1>1. UNCHANGED Mapped  BY <1>0, SameRead DEF OnTrialAt, Trial
<1>2. On' \in {On, "off"}  BY DEF On
<1>. QED  BY <1>1, <1>2, Stutters

LEMMA StepMaps ==
  ASSUME ~Single, TypeInv, FallbackInv, FallbackInv', RunsInv, RunsInv', PromiseInv,
         [Next]_vars
  PROVE  MapsTo
<1>1. CASE \/ Survey \/ ChooseKept \/ NoSlot \/ ConfirmBegin \/ InstallDone \/ HashMismatch
           \/ PowerCut \/ UNCHANGED vars \/ \E i \in Images : Offer(i)
  <2>1. flash' = flash /\ kept' = kept /\ runs' = runs /\ running' \in {running, None}
    BY <1>1 DEF Survey, ChooseKept, NoSlot, ConfirmBegin, InstallDone, HashMismatch, PowerCut,
                vars, Offer, Begin, Retry, Reset
  <2>. QED  BY <2>1, NothingMaps
<1>2. CASE \E i \in Images : RecoveryOffer(i)
  BY <1>2 DEF RecoveryOffer, FallbackInv
<1>3. CASE BurnAttempt  BY <1>3, PayMaps DEF BurnAttempt
<1>4. CASE ArmFails
  <2>1. CASE flash' = flash  BY <1>4, <2>1, NothingMaps DEF ArmFails
  <2>2. CASE flash' # flash  BY <1>4, <2>2, PayMaps DEF ArmFails
  <2>. QED  BY <2>1, <2>2
<1>5. CASE Mount  BY <1>5, MountMaps
<1>6. CASE ConfirmStep \/ ConfirmFault
  BY <1>6, ConfirmMaps DEF ConfirmStep, ConfirmFault
<1>7. CASE InstallStep \/ StreamWrong \/ InstallFails
  <2>1. /\ pc \in InstallSteps /\ kept' = kept /\ runs' = RunsIn(flash')
        /\ flash' \in {flash, InstallWrite(flash), InstallTorn(flash)}
        /\ running' \in {running, None}
    <3>1. CASE InstallStep  BY <3>1 DEF InstallStep
    <3>2. CASE StreamWrong  BY <3>2 DEF StreamWrong, InstallSteps
    <3>3. CASE InstallFails  BY <3>3 DEF InstallFails, Retry, Reset
    <3>. QED  BY <1>7, <3>1, <3>2, <3>3
  <2>. QED  BY <2>1, InstallMaps
<1>8. CASE TornCut
  <2>1. kept' = kept /\ running' = None /\ runs' = RunsIn(flash')
    BY <1>8 DEF TornCut, Reset
  <2>2. CASE pc \in ConfirmSteps
    <3>1. flash' = ConfirmTorn(flash)  BY <1>8, <2>2 DEF TornCut
    <3>2. ~flash'[running].confirmed  BY <2>2, <3>1, Confirmed
    <3>3. \A s \in Slots : flash'[s].body = flash[s].body  BY <2>2, <3>1, Confirmed
    <3>4. runs \in [Slots -> Nat]  BY DEF TypeInv, TypeOK
    <3>5. runs' = runs  BY <2>1, <3>3, <3>4 DEF RunsIn
    <3>. QED  BY <2>1, <2>2, <3>1, <3>2, <3>5, ConfirmMaps
  <2>3. CASE pc \notin ConfirmSteps
    <3>1. pc \in InstallSteps /\ flash' = InstallTorn(flash)  BY <1>8, <2>3 DEF TornCut
    <3>. QED  BY <2>1, <3>1, InstallMaps
  <2>. QED  BY <2>2, <2>3
<1>. QED  BY <1>1, <1>2, <1>3, <1>4, <1>5, <1>6, <1>7, <1>8
          DEF Next, Boot, Confirm, Update

LEMMA StartMaps ==
  ASSUME ~Single, Init
  PROVE  Promise!Init
<1>1. /\ kept = "A" /\ running = None /\ Slots \ {kept} = {"B"} /\ "B" \in Slots /\ "A" \in Slots
      /\ flash["A"].trailer = Factory /\ flash["B"].confirmed
  BY DEF Init, FactorySlot, Slots
<1>2. ~OnTrialAt("B")  BY <1>1 DEF OnTrialAt, Trial
<1>3. TrialRelease = None /\ Paid = 0 /\ Ran = 0
  BY <1>1, <1>2, ReadsHold DEF Reads
<1>. QED  BY <1>1, <1>3 DEF Promise!Init, TrialRelease, Paid, Ran

(* Whatever fails, A/B updating keeps the promise of UpdatePromise: each   *)
(* step of boot.py, confirm() and the installer, power cuts and torn       *)
(* writes included, is a step of the abstract specification or hidden from *)
(* it.                                                                     *)
THEOREM ImplementsPromise ==
  ASSUME ~Single, OneEpoch, Room
  PROVE  Spec => KeepsPromise
<1>1. Init => Promise!Init  BY StartMaps
<1>2. TypeInv /\ FallbackInv /\ RunsInv /\ PromiseInv /\ [Next]_vars /\ FallbackInv' /\ RunsInv'
        => [Promise!Next]_(Promise!pvars)
  BY StepMaps DEF MapsTo
<1>3. TypeInv /\ RunsInv /\ [Next]_vars => RunsInv'  BY RunsStep
<1>. QED  BY <1>1, <1>2, <1>3, RunsStart, PromiseHolds, PTL
          DEF Spec, KeepsPromise, Promise!Spec

-----------------------------------------------------------------------------
(* The carried floors.  The region is blank when an entry goes in.         *)
CarriedInv ==
  /\ pc \in Carrying \cup {"flush"} => flash[inst.target].floors.floor >= inst.floor
  /\ pc \in (Carrying \ {"carryEpoch"}) \cup {"flush"} =>
       flash[inst.target].epochs.floor >= inst.epoch

LEMMA CarriedStep == TypeInv /\ CarriedInv /\ [Next]_vars => CarriedInv'
<1>. SUFFICES ASSUME TypeInv, CarriedInv, [Next]_vars  PROVE CarriedInv'
  OBVIOUS
<1>1. CASE InstallStep \/ StreamWrong
  <2>. DEFINE d == flash[inst.target]
              e == flash'[inst.target]
  <2>1. /\ pc \in InstallSteps \ {"flush"} /\ pc' = AfterInstall /\ inst' = inst
        /\ flash' \in {InstallWrite(flash), InstallTorn(flash)}
        /\ pc # "stream" => flash' = InstallWrite(flash)
    <3>1. CASE InstallStep  BY <3>1 DEF InstallStep
    <3>2. CASE StreamWrong  BY <3>2 DEF StreamWrong, InstallSteps
    <3>. QED  BY <1>1, <3>1, <3>2
  <2>2. /\ inst \in Install /\ inst.target \in Slots /\ d \in Slot /\ flash \in Flash
        /\ inst.floor \in Nat /\ inst.epoch \in Nat
    BY <2>1 DEF TypeInv, TypeOK, Install, Flash
  <2>3. e = Programmed(d) \/ (pc = "stream" /\ e = HalfProgrammed(d))
    BY <2>1, <2>2 DEF InstallWrite, InstallTorn, Flash
  <2>4. CASE pc = "carryFloor"
    <3>1. e.floors = Carried(d.floors, inst.floor)
      BY <2>2, <2>3, <2>4 DEF Programmed, Slot
    <3>2. d.floors.floor \in Nat  BY <2>2 DEF Slot, Region
    <3>3. e.floors.floor >= inst.floor
      BY <2>2, <3>1, <3>2 DEF Carried, Append, Larger
    <3>. QED  BY <2>1, <2>4, <3>3 DEF CarriedInv, AfterInstall, Carrying
  <2>5. CASE pc = "carryEpoch"
    <3>1. e.epochs = Carried(d.epochs, inst.epoch) /\ e.floors = d.floors
      BY <2>2, <2>3, <2>5 DEF Programmed, Slot
    <3>2. d.epochs.floor \in Nat  BY <2>2 DEF Slot, Region
    <3>3. e.epochs.floor >= inst.epoch
      BY <2>2, <3>1, <3>2 DEF Carried, Append, Larger
    <3>. QED  BY <2>1, <2>5, <3>1, <3>3 DEF CarriedInv, Carrying
  <2>6. CASE pc \in {"stream", "trailer", "counter", "arm"}
    <3>1. e.floors = d.floors /\ e.epochs = d.epochs
      BY <2>2, <2>3, <2>6 DEF Programmed, HalfProgrammed, Slot
    <3>. QED  BY <2>1, <2>6, <3>1 DEF CarriedInv, Carrying
  <2>7. CASE pc \in {"eraseBody", "eraseStatus", "eraseTrailer"}
    BY <2>1, <2>7 DEF CarriedInv, AfterInstall, Carrying
  <2>. QED  BY <2>1, <2>4, <2>5, <2>6, <2>7 DEF InstallSteps
<1>2. CASE UNCHANGED vars  BY <1>2 DEF vars, CarriedInv
<1>3. CASE ~(InstallStep \/ StreamWrong) /\ Next
  <2>1. pc' \notin Carrying \cup {"flush"}
    BY <1>3 DEF Next, Boot, Confirm, Update, Survey, ChooseKept, BurnAttempt, ArmFails, Mount,
           NoSlot, ConfirmBegin, ConfirmStep, ConfirmFault, AfterConfirm, ConfirmSteps, Offer,
           RecoveryOffer, Begin, HashMismatch, InstallDone, InstallFails, Retry, Reset,
           PowerCut, TornCut, Carrying
  <2>. QED  BY <2>1 DEF CarriedInv
<1>. QED  BY <1>1, <1>2, <1>3

LEMMA CarriedCovers == TypeInv /\ CarriedInv => FloorsCarried
<1>. SUFFICES ASSUME TypeInv, CarriedInv, pc \in (Carrying \ {"carryEpoch"}) \cup {"flush"}
              PROVE  Floor(flash) >= inst.floor /\ EpochFloor(flash) >= inst.epoch
  BY DEF FloorsCarried, Carrying
<1>1. /\ inst.target \in Slots /\ inst.floor \in Nat /\ inst.epoch \in Nat
  BY DEF TypeInv, InstallSteps, Carrying, Install
<1>2. \A s \in Slots : flash[s].floors.floor \in Nat /\ flash[s].epochs.floor \in Nat
  BY DEF TypeInv, TypeOK, Slot, Region
<1>3. /\ flash[inst.target].floors.floor >= inst.floor
      /\ flash[inst.target].epochs.floor >= inst.epoch
  BY DEF CarriedInv
<1>. QED  BY <1>1, <1>2, <1>3 DEF Floor, EpochFloor, Larger, Slots

(* In either mode: once an image streams in, the floors the erase took     *)
(* away are back on flash, through every retry.                            *)
THEOREM FloorsRestored == Spec => []FloorsCarried
<1>1. Init => CarriedInv  BY DEF Init, CarriedInv, Carrying
<1>. QED  BY <1>1, CarriedCovers, CarriedStep, TypeInvariant, PTL DEF Spec

-----------------------------------------------------------------------------
(* The counter of a new install does not reach the modulus.                *)
NoWrap == MaxInstalls + 3 <= CounterMod

ForThisHardware(i) ==
  Meta[i].trusted /\ (ProductId # 0 => Meta[i].product = ProductId)

NotUnderAnyFloor(i) == \A t \in Slots : flash[t].floors.floor <= Key(i)

(* An armed trial passes every check of boot.py and outranks the fallback; *)
(* an install has what will make it so.                                    *)
ArmedSlots ==
  /\ \A s \in Slots : OnTrialAt(s) =>
       /\ Whole(s) /\ NotUnderAnyFloor(flash[s].trailer)
       /\ flash[s].counter > flash[kept].counter
  /\ \A s \in Slots : flash[s].counter <= 2 + installs

ArmedInstall ==
  /\ pc \in InstallSteps =>
       /\ ForThisHardware(inst.image) /\ NotUnderAnyFloor(inst.image)
       /\ inst.floor <= Key(inst.image)
       /\ inst.counter <= 2 + installs /\ inst.counter > flash[kept].counter
  /\ pc \in {"arm", "flush"} => flash[inst.target].counter = inst.counter

ArmedInv == ArmedSlots /\ ArmedInstall

LEMMA ArmedStart == ASSUME ~Single, Init PROVE ArmedInv
<1>1. /\ pc = "boot" /\ installs = 0 /\ Slots = {"A", "B"}
      /\ \A s \in Slots : flash[s].confirmed /\ flash[s].counter \in {1, 2}
  BY DEF Init, FactorySlot, Slots
<1>. QED  BY <1>1 DEF ArmedInv, ArmedSlots, ArmedInstall, OnTrialAt, Trial, InstallSteps

(* What an install's write leaves of the ranks in its slot.                *)
LEMMA WrittenRanks ==
  ASSUME TypeInv, pc \in InstallSteps,
         flash' \in {flash, InstallWrite(flash), InstallTorn(flash)}
  PROVE  LET d == flash[inst.target]
             e == flash'[inst.target]
         IN  /\ inst.floor \in Nat /\ inst.counter \in Nat
             /\ e.floors.floor <= d.floors.floor \/ e.floors.floor <= inst.floor
             /\ e.counter \in {d.counter, NoCounter, inst.counter}
             /\ pc \in {"arm", "flush"} => e.counter = d.counter
             /\ pc = "counter" /\ flash' = InstallWrite(flash) => e.counter = inst.counter
<1>. DEFINE d == flash[inst.target]
            e == flash'[inst.target]
<1>1. /\ inst.target \in Slots /\ d \in Slot /\ flash \in Flash
      /\ inst.floor \in Nat /\ inst.counter \in Nat
  BY BoundsAssumption DEF TypeInv, TypeOK, Install, Flash
<1>2. /\ e = d \/ e = Programmed(d) \/ e = HalfProgrammed(d)
      /\ flash' = InstallWrite(flash) => e = Programmed(d)
  BY <1>1 DEF InstallWrite, InstallTorn, Flash
<1>3. d.floors \in Region /\ d.floors.floor \in Nat  BY <1>1 DEF Slot, Region
<1>. HIDE DEF d, e
<1>4. CASE pc = "eraseStatus"
  <2>1. /\ BlankStatus(d) \in [body : {d.body}, trailer : {d.trailer}, pending : {FALSE},
            confirmed : {FALSE}, counter : {NoCounter}, attempts : {0},
            floors : {BlankRegion}, epochs : {BlankRegion}]
    BY DEF BlankStatus
  <2>2. Programmed(d) = BlankStatus(d)  BY <1>4 DEF Programmed
  <2>3. /\ HalfProgrammed(d).counter = NoCounter
        /\ HalfProgrammed(d).floors = [BlankRegion EXCEPT !.used = FloorEntries]
    BY <1>4, <2>1 DEF HalfProgrammed
  <2>4. BlankRegion.floor = 0 /\ [BlankRegion EXCEPT !.used = FloorEntries].floor = 0
    BY DEF BlankRegion
  <2>5. /\ Programmed(d).counter = NoCounter /\ Programmed(d).floors.floor = 0
        /\ HalfProgrammed(d).counter = NoCounter /\ HalfProgrammed(d).floors.floor = 0
    BY <2>1, <2>2, <2>3, <2>4
  <2>. QED  BY <1>1, <1>2, <1>3, <1>4, <2>5 DEF d, e
<1>5. CASE pc = "carryFloor"
  <2>1. /\ Programmed(d).floors = Carried(d.floors, inst.floor)
        /\ HalfProgrammed(d).floors = Smudge(d.floors)
        /\ Programmed(d).counter = d.counter /\ HalfProgrammed(d).counter = d.counter
    BY <1>1, <1>5 DEF Programmed, HalfProgrammed, Slot, d
  <2>2. Smudge(d.floors).floor = d.floors.floor  BY <1>3 DEF Smudge, Region
  <2>3. \/ Carried(d.floors, inst.floor).floor <= d.floors.floor
        \/ Carried(d.floors, inst.floor).floor <= inst.floor
    BY <1>1, <1>3 DEF Carried, Append, Larger
  <2>. QED  BY <1>1, <1>2, <1>3, <1>5, <2>1, <2>2, <2>3 DEF d, e
<1>6. CASE pc = "counter"
  <2>1. /\ Programmed(d).counter = inst.counter /\ HalfProgrammed(d) = d
        /\ Programmed(d).floors = d.floors
    BY <1>1, <1>6 DEF Programmed, HalfProgrammed, Slot, d
  <2>. QED  BY <1>1, <1>2, <1>3, <1>6, <2>1 DEF d, e
<1>7. CASE pc \in InstallSteps \ {"eraseStatus", "carryFloor", "counter"}
  <2>1. e.counter = d.counter /\ e.floors = d.floors
    BY <1>1, <1>2, <1>7 DEF Programmed, HalfProgrammed, Slot, InstallSteps, d
  <2>. QED  BY <1>1, <1>3, <1>7, <2>1 DEF d, e
<1>. QED  BY <1>4, <1>5, <1>6, <1>7

LEMMA ArmedInstalls ==
  ASSUME ~Single, TypeInv, FallbackInv, PromiseInv, ArmedInv, pc \in InstallSteps,
         flash' \in {flash, InstallWrite(flash), InstallTorn(flash)},
         kept' = kept, installs' = installs
  PROVE  /\ ArmedSlots'
         /\ \A t \in Slots : flash'[t].floors.floor <= Key(inst.image)
         /\ inst.counter > flash'[kept].counter
<1>0. PICK o \in Slots : o # kept /\ Slots = {kept, o} /\ Slots \ {kept} = {o}
  BY OtherSlot
<1>. DEFINE d == flash[o]
            e == flash'[o]
<1>1. /\ inst.target = o /\ inst.image \in Images /\ flash' \in Flash
      /\ kept \in Slots /\ d \in Slot /\ flash'[kept] = flash[kept]
      /\ pc = "eraseBody" => e = d \/ e.body \in {Blank, Torn}
      /\ pc = "eraseStatus" => e = d \/ (~e.pending /\ e.body = d.body)
      /\ pc \in Unarmed \ {"arm"} => e.pending = d.pending
      /\ pc = "arm" => e = d \/ e = [d EXCEPT !.pending = TRUE]
      /\ pc = "flush" => e = d
  <2>1. inst.target \in Slots /\ inst.target # kept /\ kept \in Slots
    BY Written DEF FallbackInv, TypeInv, TypeOK
  <2>2. inst.target = o  BY <1>0, <2>1
  <2>. QED  BY <1>0, <2>1, <2>2, Written DEF Flash
<1>2. /\ inst.floor \in Nat /\ inst.counter \in Nat
      /\ e.floors.floor <= d.floors.floor \/ e.floors.floor <= inst.floor
      /\ e.counter \in {d.counter, NoCounter, inst.counter}
      /\ pc \in {"arm", "flush"} => e.counter = d.counter
  BY <1>1, WrittenRanks
<1>3. /\ \A s \in Slots : flash[s].floors.floor <= Key(inst.image)
      /\ inst.floor <= Key(inst.image) /\ ForThisHardware(inst.image)
      /\ inst.counter <= 2 + installs /\ inst.counter > flash[kept].counter
      /\ \A s \in Slots : flash[s].counter <= 2 + installs
  BY DEF ArmedInv, ArmedSlots, ArmedInstall, NotUnderAnyFloor
<1>4. /\ Key(inst.image) \in Nat /\ d.floors.floor \in Nat /\ e.floors.floor \in Nat
      /\ flash[kept].counter \in Int /\ d.counter \in Int /\ installs \in Nat
  BY <1>1, KeyType, BoundsAssumption, LifecycleAssumption
     DEF TypeInv, TypeOK, Slot, Region, Flash, NoCounter
<1>5. e.floors.floor <= Key(inst.image)  BY <1>1, <1>2, <1>3, <1>4
<1>6. e.counter <= 2 + installs  BY <1>1, <1>2, <1>3, <1>4 DEF NoCounter
<1>7. \A t \in Slots : /\ flash'[t].floors.floor <= Key(inst.image)
                       /\ flash'[t].counter <= 2 + installs
  BY <1>0, <1>1, <1>3, <1>5, <1>6
<1>8. ~OnTrialAt(kept)'
  BY <1>1 DEF OnTrialAt, Trial, FallbackInv, FallbackCore
<1>9. ASSUME OnTrialAt(o)'
      PROVE  /\ Whole(o)' /\ e.counter > flash[kept].counter
             /\ \A t \in Slots : flash'[t].floors.floor <= Key(e.trailer)
  <2>1. CASE e = d
    <3>1. OnTrialAt(o)  BY <1>9, <2>1 DEF OnTrialAt, Trial
    <3>2. /\ Whole(o) /\ d.counter > flash[kept].counter
          /\ \A t \in Slots : flash[t].floors.floor <= Key(d.trailer)
      BY <3>1 DEF ArmedInv, ArmedSlots, NotUnderAnyFloor
    <3>3. \A t \in Slots : flash'[t].floors = flash[t].floors  BY <1>0, <1>1, <2>1
    <3>. QED  BY <2>1, <3>2, <3>3 DEF Whole, Key
  <2>2. CASE e # d
    <3>1. pc = "arm"
      BY <1>1, <1>9, <2>2, ImagesAssumption
         DEF PromiseInv, InstallInv, InstallSteps, Unarmed, OnTrialAt, Trial
    <3>2. d.body = inst.image /\ d.trailer = inst.image
      BY <1>1, <3>1 DEF PromiseInv, InstallInv, InstallSteps
    <3>3. e.body = inst.image /\ e.trailer = inst.image
      BY <1>1, <2>2, <3>1, <3>2 DEF Slot
    <3>4. e.counter = inst.counter
      BY <1>1, <1>2, <3>1 DEF ArmedInv, ArmedInstall
    <3>. QED  BY <1>1, <1>3, <1>7, <3>3, <3>4
              DEF Whole, Key, ForThisHardware
  <2>. QED  BY <2>1, <2>2
<1>. QED  BY <1>0, <1>1, <1>3, <1>7, <1>8, <1>9 DEF ArmedSlots, NotUnderAnyFloor, Key

(* Nothing but attempts and what is confirmed changes.                     *)
LEMMA ArmedUntouched ==
  ASSUME TypeInv, FallbackInv, ArmedSlots, kept' = kept, installs' \in Nat,
         installs' >= installs,
         \A s \in Slots :
           /\ flash'[s].body = flash[s].body /\ flash'[s].trailer = flash[s].trailer
           /\ flash'[s].pending = flash[s].pending /\ flash'[s].floors = flash[s].floors
           /\ flash'[s].counter = flash[s].counter
           /\ flash'[s].confirmed = flash[s].confirmed
  PROVE  ArmedSlots'
<1>1. \A s \in Slots : OnTrialAt(s)' <=> OnTrialAt(s)  BY DEF OnTrialAt, Trial
<1>2. kept \in Slots /\ installs \in Nat
  BY LifecycleAssumption DEF TypeInv, TypeOK
<1>3. \A s \in Slots : flash[s].counter \in Int
  BY BoundsAssumption DEF TypeInv, TypeOK, Slot, NoCounter
<1>4. \A s \in Slots : flash'[s].counter <= 2 + installs'
  BY <1>2, <1>3 DEF ArmedSlots
<1>. QED  BY <1>1, <1>2, <1>4 DEF ArmedSlots, Whole, NotUnderAnyFloor, Key

LEMMA ArmedConfirm ==
  ASSUME ~Single, TypeInv, FallbackInv, PromiseInv, ArmedInv, pc \in ConfirmSteps,
         flash' \in {flash, ConfirmTorn(flash), ConfirmWrite(flash)},
         installs' = installs,
         kept' = kept \/ (kept' = running /\ flash'[running].confirmed)
  PROVE  ArmedSlots'
<1>0. PICK o \in Slots : o # kept /\ Slots = {kept, o} /\ Slots \ {kept} = {o}
  BY OtherSlot
<1>. DEFINE d == flash[o]
            e == flash'[o]
<1>1. /\ running = o /\ kept \in Slots /\ d \in Slot
      /\ Whole(o) /\ Trial(flash, o) /\ flash'[kept] = flash[kept]
      /\ e.body = d.body /\ e.trailer = d.trailer /\ e.pending
      /\ pc # "raiseFloor" => e.floors = d.floors
      /\ pc = "raiseFloor" =>
           \/ e.floors = d.floors
           \/ flash' = ConfirmWrite(flash) /\ e.floors = Raised(d.floors, Key(Image))
           \/ flash' = ConfirmTorn(flash) /\ e.floors = TornRaise(d.floors, Key(Image))
  BY <1>0, Confirmed
<1>2. e.counter = d.counter
  BY <1>1 DEF ConfirmWrite, ConfirmTorn, ConfirmSteps, TypeInv, TypeOK, Slot
<1>3. OnTrialAt(o)  BY <1>1 DEF OnTrialAt, Whole
<1>4. /\ \A t \in Slots : flash[t].floors.floor <= Key(d.trailer)
      /\ d.counter > flash[kept].counter
      /\ \A s \in Slots : flash[s].counter <= 2 + installs
  BY <1>3 DEF ArmedInv, ArmedSlots, NotUnderAnyFloor
<1>5. Image = d.trailer /\ Key(Image) \in Nat /\ d.floors \in Region /\ d.floors.floor \in Nat
  BY <1>1, KeyType DEF Image, Whole, Slot, Region
<1>6. e.floors.floor <= Key(d.trailer)
  <2>1. /\ Raised(d.floors, Key(Image)).floor <= Key(d.trailer)
        /\ TornRaise(d.floors, Key(Image)).floor <= Key(d.trailer)
    BY <1>4, <1>5 DEF Raised, TornRaise, Append, Smudge, Larger, Region
  <2>. QED  BY <1>1, <1>4, <2>1
<1>7. PICK k \in Slots : k = kept /\ flash[k].confirmed
  BY <1>1 DEF FallbackInv, FallbackCore
<1>8. flash'[k] = flash[k] /\ ~OnTrialAt(k)'
  BY <1>1, <1>7 DEF OnTrialAt, Trial
<1>9. OnTrialAt(o)' => kept' = k
  BY <1>1, <1>7 DEF OnTrialAt, Trial
<1>10. \A t \in Slots : flash'[t].floors.floor <= Key(d.trailer)
  BY <1>0, <1>1, <1>4, <1>6
<1>11. \A s \in Slots : flash'[s].counter <= 2 + installs'
  BY <1>0, <1>1, <1>2, <1>4
<1>. QED  BY <1>0, <1>1, <1>2, <1>4, <1>7, <1>8, <1>9, <1>10, <1>11
          DEF ArmedSlots, Whole, NotUnderAnyFloor, Key

(* What an offer surveys makes the new release outrank the fallback.       *)
LEMMA ArmedOffer ==
  ASSUME ~Single, NoWrap, TypeInv, FallbackInv, ArmedInv, NEW i \in Images, Offer(i)
  PROVE  ArmedInv'
<1>0. PICK o \in Slots : o # kept /\ Slots = {kept, o} /\ Slots \ {kept} = {o}
  BY OtherSlot
<1>1. /\ flash' = flash /\ kept' = kept /\ pc' = "eraseBody" /\ installs' = installs + 1
      /\ installs < MaxInstalls /\ installs \in Nat /\ MaxInstalls \in Nat
      /\ inst'.image = i /\ inst'.floor = Floor(flash) /\ inst'.counter = InstallCounter(flash)
      /\ Vetted(i, Meta[Image].epoch, Floor(flash))
  BY LifecycleAssumption DEF Offer, Begin, TypeInv, TypeOK
<1>2. ArmedSlots'
  BY <1>1, ArmedUntouched DEF ArmedInv
<1>3. /\ Slots = {"A", "B"} /\ kept \in Slots
      /\ \A s \in Slots : /\ flash[s].floors.floor \in Nat /\ flash[s].counter \in Int
                          /\ flash[s].counter <= 2 + installs
  BY BoundsAssumption
     DEF TypeInv, TypeOK, Slot, Region, Slots, NoCounter, ArmedInv, ArmedSlots
<1>4. /\ Floor(flash) \in Nat /\ \A s \in Slots : flash[s].floors.floor <= Floor(flash)
  BY <1>3 DEF Floor, Larger
<1>5. Key(i) \in Nat /\ Key(i) >= Floor(flash) /\ ForThisHardware(i)
  BY <1>1, KeyType DEF Vetted, ForThisHardware
<1>6. NotUnderAnyFloor(i) /\ Floor(flash) <= Key(i)
  BY <1>3, <1>4, <1>5 DEF NotUnderAnyFloor
<1>7. PICK h \in Nat : /\ h = Larger(0, Larger(flash["A"].counter, flash["B"].counter))
                       /\ h <= 2 + installs /\ \A s \in Slots : flash[s].counter <= h
  BY <1>1, <1>3 DEF Larger
<1>8. h + 1 < CounterMod /\ CounterMod \in Nat
  BY <1>1, <1>7, BoundsAssumption DEF NoWrap
<1>9. InstallCounter(flash) = h + 1
  <2>1. InstallCounter(flash) = (h + 1) % CounterMod  BY <1>7 DEF InstallCounter
  <2>2. (h + 1) % CounterMod = h + 1  BY <1>8
  <2>. QED  BY <2>1, <2>2
<1>10. inst'.counter <= 2 + installs' /\ inst'.counter > flash'[kept'].counter
  BY <1>1, <1>3, <1>7, <1>9
<1>. QED  BY <1>1, <1>2, <1>5, <1>6, <1>10
          DEF ArmedInv, ArmedInstall, NotUnderAnyFloor, ForThisHardware, Key

LEMMA ArmedStep ==
  ASSUME ~Single, NoWrap, TypeInv, FallbackInv, PromiseInv, ArmedInv, [Next]_vars
  PROVE  ArmedInv'
<1>0. kept \in Slots /\ installs \in Nat /\ flash \in Flash /\ ArmedSlots
  BY LifecycleAssumption DEF TypeInv, TypeOK, Flash, ArmedInv
<1>1. CASE Survey \/ ChooseKept \/ NoSlot \/ Mount \/ ConfirmBegin \/ InstallDone \/ PowerCut
  <2>1. /\ flash' = flash /\ kept' = kept /\ installs' = installs
        /\ pc' \in {"boot", "pick", "mount", "app", "recovery", "raiseFloor"}
    BY <1>1 DEF Survey, ChooseKept, NoSlot, Mount, ConfirmBegin, InstallDone, PowerCut, Reset
  <2>2. ArmedSlots'  BY <1>0, <2>1, ArmedUntouched
  <2>. QED  BY <2>1, <2>2 DEF ArmedInv, ArmedInstall, InstallSteps
<1>2. CASE BurnAttempt \/ ArmFails
  <2>1. /\ flash' \in {flash, Burned(flash, Winner(flash, cand))}
        /\ kept' = kept /\ installs' = installs /\ pc' \in {"pick", "mount"}
    BY <1>2 DEF BurnAttempt, ArmFails
  <2>2. \A s \in Slots :
          /\ flash'[s].body = flash[s].body /\ flash'[s].trailer = flash[s].trailer
          /\ flash'[s].pending = flash[s].pending /\ flash'[s].floors = flash[s].floors
          /\ flash'[s].counter = flash[s].counter
          /\ flash'[s].confirmed = flash[s].confirmed
    BY <1>0, <2>1 DEF Burned, Flash, Slot
  <2>3. ArmedSlots'  BY <1>0, <2>1, <2>2, ArmedUntouched
  <2>. QED  BY <2>1, <2>3 DEF ArmedInv, ArmedInstall, InstallSteps
<1>3. CASE ConfirmStep \/ ConfirmFault
  <2>1. /\ pc \in ConfirmSteps /\ kept' = KeptIn(flash') /\ installs' = installs
        /\ flash' \in {flash, ConfirmTorn(flash), ConfirmWrite(flash)}
        /\ pc' \in {"raiseEpoch", "mark", "app"}
    BY <1>3 DEF ConfirmStep, ConfirmFault, AfterConfirm, ConfirmSteps
  <2>2. kept' = kept \/ (kept' = running /\ flash'[running].confirmed)
    BY <2>1 DEF KeptIn
  <2>3. ArmedSlots'  BY <2>1, <2>2, ArmedConfirm
  <2>. QED  BY <2>1, <2>3 DEF ArmedInv, ArmedInstall, InstallSteps
<1>4. ASSUME NEW i \in Images, Offer(i)  PROVE ArmedInv'
  BY <1>4, ArmedOffer
<1>5. ASSUME NEW i \in Images, RecoveryOffer(i)  PROVE ArmedInv'
  BY <1>5 DEF RecoveryOffer, FallbackInv
<1>6. CASE InstallStep \/ StreamWrong
  <2>1. /\ pc \in InstallSteps \ {"flush"} /\ kept' = kept /\ installs' = installs
        /\ flash' \in {InstallWrite(flash), InstallTorn(flash)}
        /\ inst' = inst /\ pc' = AfterInstall
        /\ pc # "stream" => flash' = InstallWrite(flash)
    <3>1. CASE InstallStep  BY <3>1 DEF InstallStep
    <3>2. CASE StreamWrong  BY <3>2 DEF StreamWrong, InstallSteps
    <3>. QED  BY <1>6, <3>1, <3>2
  <2>2. /\ ArmedSlots' /\ inst.counter > flash'[kept].counter
        /\ \A t \in Slots : flash'[t].floors.floor <= Key(inst.image)
    BY <2>1, ArmedInstalls
  <2>3. pc' \in {"arm", "flush"} => flash'[inst.target].counter = inst.counter
    <3>1. /\ pc = "counter" /\ flash' = InstallWrite(flash) =>
               flash'[inst.target].counter = inst.counter
          /\ pc = "arm" => flash'[inst.target].counter = flash[inst.target].counter
      BY <2>1, WrittenRanks
    <3>2. CASE pc = "counter"  BY <2>1, <3>1, <3>2
    <3>3. CASE pc = "arm"  BY <3>1, <3>3 DEF ArmedInv, ArmedInstall
    <3>. QED  BY <2>1, <3>2, <3>3 DEF AfterInstall, InstallSteps
  <2>. QED  BY <2>1, <2>2, <2>3
            DEF ArmedInv, ArmedInstall, ForThisHardware, NotUnderAnyFloor, Key
<1>7. CASE HashMismatch \/ InstallFails
  <2>1. /\ pc \in InstallSteps /\ kept' = kept /\ installs' = installs /\ Retry
        /\ flash' \in {flash, InstallWrite(flash), InstallTorn(flash)}
    <3>1. CASE HashMismatch  BY <3>1 DEF HashMismatch, InstallSteps
    <3>2. CASE InstallFails  BY <3>2 DEF InstallFails
    <3>. QED  BY <1>7, <3>1, <3>2
  <2>2. /\ ArmedSlots' /\ inst.counter > flash'[kept].counter
        /\ \A t \in Slots : flash'[t].floors.floor <= Key(inst.image)
    BY <2>1, ArmedInstalls
  <2>3. CASE Reset  BY <2>2, <2>3 DEF Reset, ArmedInv, ArmedInstall, InstallSteps
  <2>4. CASE ~Reset
    <3>1. pc' = "eraseBody" /\ inst' = [inst EXCEPT !.attempt = @ + 1] /\ inst \in Install
      BY <2>1, <2>4 DEF Retry, TypeInv
    <3>2. inst'.image = inst.image /\ inst'.counter = inst.counter /\ inst'.floor = inst.floor
      BY <3>1 DEF Install
    <3>. QED  BY <2>1, <2>2, <3>1, <3>2
              DEF ArmedInv, ArmedInstall, ForThisHardware, NotUnderAnyFloor, Key
  <2>. QED  BY <2>3, <2>4
<1>8. CASE TornCut
  <2>1. kept' = kept /\ installs' = installs /\ pc' = "boot"
    BY <1>8 DEF TornCut, Reset
  <2>2. CASE pc \in ConfirmSteps
    <3>1. flash' = ConfirmTorn(flash)  BY <1>8, <2>2 DEF TornCut
    <3>2. ArmedSlots'  BY <2>1, <2>2, <3>1, ArmedConfirm
    <3>. QED  BY <2>1, <3>2 DEF ArmedInv, ArmedInstall, InstallSteps
  <2>3. CASE pc \notin ConfirmSteps
    <3>1. pc \in InstallSteps /\ flash' = InstallTorn(flash)  BY <1>8, <2>3 DEF TornCut
    <3>2. ArmedSlots'  BY <2>1, <3>1, ArmedInstalls
    <3>. QED  BY <2>1, <3>2 DEF ArmedInv, ArmedInstall, InstallSteps
  <2>. QED  BY <2>2, <2>3
<1>9. CASE UNCHANGED vars
  BY <1>9 DEF vars, ArmedInv, ArmedSlots, ArmedInstall, OnTrialAt, Trial, Whole,
              NotUnderAnyFloor, ForThisHardware, Key
<1>. QED  BY <1>1, <1>2, <1>3, <1>4, <1>5, <1>6, <1>7, <1>8, <1>9
          DEF Next, Boot, Confirm, Update

LEMMA ArmedHolds ==
  ASSUME ~Single, OneEpoch, TypeInv, FallbackInv, PromiseInv, ArmedInv
  PROVE  ArmedWins
<1>1. pc = "flush" => flash[inst.target].body = inst.image
  BY DEF PromiseInv, InstallInv
<1>2. ASSUME NEW s \in Slots, Trial(flash, s), flash[s].attempts < MaxAttempts,
             flash[s].body \in Images
      PROVE  Bootable(flash, s) /\ Winner(flash, {t \in Slots : Bootable(flash, t)}) = s
  <2>. DEFINE c == {t \in Slots : Bootable(flash, t)}
  <2>1. OnTrialAt(s)  BY <1>2 DEF OnTrialAt
  <2>2. /\ Whole(s) /\ NotUnderAnyFloor(flash[s].trailer)
        /\ flash[s].counter > flash[kept].counter
    BY <2>1 DEF ArmedInv, ArmedSlots
  <2>3. /\ kept \in Slots /\ Slots = {"A", "B"} /\ flash \in Flash
        /\ \A t \in Slots : /\ flash[t].counter \in Int
                            /\ flash[t].floors.floor \in Nat /\ flash[t].epochs.floor \in Nat
                            /\ flash[t].epochs.floor <= Meta[Factory].epoch
    BY BoundsAssumption
       DEF TypeInv, TypeOK, Flash, Slot, Region, Slots, NoCounter, FallbackInv, FallbackCore
  <2>4. /\ flash[s].trailer \in Images /\ Meta[flash[s].trailer].epoch = Meta[Factory].epoch
        /\ Meta[Factory].epoch \in Nat /\ Key(flash[s].trailer) \in Nat
    BY <2>2, KeyType, LifecycleAssumption DEF Whole, OneEpoch
  <2>5. Meta[flash[s].trailer].epoch >= EpochFloor(flash)
    BY <2>3, <2>4 DEF EpochFloor, Larger
  <2>6. Key(flash[s].trailer) >= Floor(flash)
    BY <2>2, <2>3, <2>4 DEF Floor, Larger, NotUnderAnyFloor
  <2>7. Authentic(flash, s)  BY <2>2, <2>4, <2>5 DEF Authentic, Whole
  <2>8. Bootable(flash, s)
    BY <1>2, <2>6, <2>7 DEF Bootable, MayTry, Trial
  <2>9. s \in c /\ c \in SUBSET Slots /\ c # {}  BY <2>8
  <2>. HIDE DEF c
  <2>10. PICK k \in Slots : k = kept /\ flash[k].confirmed
    BY <2>3 DEF FallbackInv, FallbackCore
  <2>11. s # k /\ flash[s].counter > flash[k].counter  BY <1>2, <2>2, <2>10 DEF Trial
  <2>12. Slots = {s, k}  BY <2>3, <2>10, <2>11
  <2>13. /\ Winner(flash, c) \in c
         /\ \A t \in c \ {Winner(flash, c)} : Preferred(flash, Winner(flash, c), t)
    BY <2>3, <2>9, WinnerWins
  <2>14. ~Preferred(flash, k, s)
    <3>1. flash[k].counter \in Int /\ flash[s].counter \in Int  BY <2>3, <2>10, <2>12
    <3>. QED  BY <2>11, <3>1 DEF Preferred
  <2>15. Winner(flash, c) = s  BY <2>9, <2>11, <2>12, <2>13, <2>14
  <2>. QED  BY <2>8, <2>15 DEF c
<1>. QED  BY <1>1, <1>2 DEF ArmedWins

(* An installed trial with an attempt left always boots: no floor locks it *)
(* out, it is whole, and it outranks the kept release, whatever failed     *)
(* around its install and its earlier boots.                               *)
THEOREM ArmedBoots ==
  ASSUME ~Single, OneEpoch, Room, NoWrap
  PROVE  Spec => []ArmedWins
<1>1. Init => ArmedInv  BY ArmedStart
<1>2. TypeInv /\ FallbackInv /\ PromiseInv /\ ArmedInv /\ [Next]_vars => ArmedInv'
  BY ArmedStep
<1>3. TypeInv /\ FallbackInv /\ PromiseInv /\ ArmedInv => ArmedWins
  BY ArmedHolds
<1>. QED  BY <1>1, <1>2, <1>3, PromiseHolds, PTL DEF Spec
=============================================================================
