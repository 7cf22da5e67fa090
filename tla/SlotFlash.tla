------------------------------ MODULE SlotFlash ------------------------------
(***************************************************************************)
(* What the update slots of a camera hold, and the decisions boot.py and   *)
(* the installer read out of them.  A slot is a body, a trailer block and  *)
(* a status sector; the sector's fields are all self-validating, so a torn *)
(* one reads as absent.  No variables: the lifecycle is SlotUpdate.        *)
(*                                                                         *)
(* A definition named M_... is a mutant: a plausible bug in the definition *)
(* below it, which the run PROJECT.json names must catch.                  *)
(***************************************************************************)
EXTENDS Integers

CONSTANTS
  Single,        \* single-image mode: one slot spans the partition
  ProductId,     \* the firmware's PRODUCT_ID; 0 turns the cross-flash guard off
  MaxAttempts,   \* [ota].max_attempts: boots a trial gets to confirm
  AttemptsMax,   \* room in the attempt region (64)
  FloorEntries,  \* room in each floor region (64, or 29 at stride 32)
  CounterMod,    \* the install counter is a u32: 2^32
  Images,        \* the releases that exist
  Meta,          \* Meta[i]: what the release's trailer and manifest say
  Blank, Torn,   \* a region reading 0xFF, and one half erased or half written
  None

Slots == IF Single THEN {"A"} ELSE {"A", "B"}

NoCounter == -1      \* a blank or torn counter: sorts below every real one

MetaRecord == [version : Nat, seq : Nat, epoch : Nat, product : Nat,
               trusted : BOOLEAN,      \* a root the firmware embeds signed it
               compatible : BOOLEAN,   \* schema, account, platform, stub level
               healthy : BOOLEAN]      \* its app ends up calling confirm()

Region == [floor : Nat, used : 0 .. FloorEntries]

Slot == [body : Images \cup {Blank, Torn}, trailer : Images \cup {Blank, Torn},
         pending : BOOLEAN, confirmed : BOOLEAN,
         counter : {NoCounter} \cup (0 .. CounterMod - 1),
         attempts : 0 .. AttemptsMax,
         floors : Region, epochs : Region]

ASSUME ModeAssumption == Single \in BOOLEAN /\ ProductId \in Nat
ASSUME BoundsAssumption ==
  /\ MaxAttempts \in Nat \ {0}
  /\ AttemptsMax \in Nat /\ MaxAttempts <= AttemptsMax
  /\ FloorEntries \in Nat \ {0}
  /\ CounterMod \in Nat /\ CounterMod > 2
ASSUME ImagesAssumption ==
  /\ Meta \in [Images -> MetaRecord]
  /\ Blank \notin Images /\ Torn \notin Images /\ Blank # Torn
  /\ None \notin Images \cup Slots

Larger(a, b) == IF a >= b THEN a ELSE b

-----------------------------------------------------------------------------
M_KeyIsVersion(i) == Meta[i].version

(* The number this camera orders images by.                                *)
Key(i) == IF ProductId = 0 THEN Meta[i].seq ELSE Meta[i].version

M_FloorOfFirstSlot(f) == f["A"].floors.floor

(* A floor is the highest entry any slot records.                          *)
Floor(f) ==
  IF Single THEN f["A"].floors.floor
  ELSE Larger(f["A"].floors.floor, f["B"].floors.floor)

EpochFloor(f) ==
  IF Single THEN f["A"].epochs.floor
  ELSE Larger(f["A"].epochs.floor, f["B"].epochs.floor)

(* Appending an entry to a floor region: the entry lands in the first      *)
(* blank place; a torn one takes a place and records nothing.              *)
Append(r, key) == [floor |-> Larger(r.floor, key), used |-> r.used + 1]
Smudge(r) == [r EXCEPT !.used = @ + 1]
M_NeverFull(r) == FALSE

Full(r) == r.used = FloorEntries

BlankRegion == [floor |-> 0, used |-> 0]

-----------------------------------------------------------------------------
M_MayTryOnceMore(f, s) ==
  \/ f[s].confirmed
  \/ /\ Key(f[s].trailer) >= Floor(f)
     /\ f[s].pending
     /\ f[s].attempts <= MaxAttempts

M_MayTryForever(f, s) ==
  f[s].confirmed \/ (Key(f[s].trailer) >= Floor(f) /\ f[s].pending)

(* evaluate_slot.  Authentic is what the signatures and the body hash       *)
(* decide, MayTry what the status sector's marks decide: a confirmed slot  *)
(* is exempt from the anti-rollback floor, a trial is not and must have an *)
(* attempt left.                                                           *)
Authentic(f, s) ==
  /\ f[s].trailer \in Images
  /\ Meta[f[s].trailer].trusted
  /\ Meta[f[s].trailer].epoch >= EpochFloor(f)
  /\ ProductId # 0 => Meta[f[s].trailer].product = ProductId
  /\ f[s].body = f[s].trailer

MayTry(f, s) ==
  \/ f[s].confirmed
  \/ /\ Key(f[s].trailer) >= Floor(f)
     /\ f[s].pending
     /\ f[s].attempts < MaxAttempts

Bootable(f, s) == Authentic(f, s) /\ MayTry(f, s)

(* An installed image that has not been committed yet.                     *)
Trial(f, s) == f[s].pending /\ ~f[s].confirmed

(* select_slot: the higher counter, then the confirmed one, then the first *)
(* listed.                                                                 *)
Preferred(f, s, t) ==
  \/ f[s].counter > f[t].counter
  \/ /\ f[s].counter = f[t].counter
     /\ \/ f[s].confirmed /\ ~f[t].confirmed
        \/ f[s].confirmed = f[t].confirmed /\ s = "A"

Winner(f, c) == CHOOSE s \in c : \A t \in c \ {s} : Preferred(f, s, t)

(* _install_target: never the running slot, otherwise the lowest counter,  *)
(* ties to the last listed.                                                *)
Older(f, s, t) ==
  \/ f[s].counter < f[t].counter
  \/ f[s].counter = f[t].counter /\ s = "B"

Writable(running) == IF Slots \ {running} = {} THEN Slots ELSE Slots \ {running}

M_InstallTargetOldest(f, running) ==
  CHOOSE s \in Slots : \A t \in Slots \ {s} : Older(f, s, t)

InstallTarget(f, running) ==
  CHOOSE s \in Writable(running) : \A t \in Writable(running) \ {s} : Older(f, s, t)

M_InstallCounterHighest(f) ==
  IF Single THEN Larger(0, f["A"].counter)
  ELSE Larger(0, Larger(f["A"].counter, f["B"].counter))

InstallCounter(f) ==
  LET highest == IF Single THEN Larger(0, f["A"].counter)
                 ELSE Larger(0, Larger(f["A"].counter, f["B"].counter))
  IN  (highest + 1) % CounterMod

(* _vet_manifest and _update_reject, against the epoch boot.py recorded    *)
(* for the mounted image and the floor surveyed from flash.                *)
Vetted(i, lastEpoch, floor) ==
  /\ Meta[i].trusted
  /\ Meta[i].epoch >= lastEpoch
  /\ ProductId # 0 => Meta[i].product = ProductId
  /\ Meta[i].compatible
  /\ Key(i) >= floor
=============================================================================
