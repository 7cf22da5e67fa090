# A formal model of openmv-ota

openmv-ota keeps cameras up to date: it builds signed releases, serves them from an
update server in stages, and has each camera download, verify, install, try and keep or
drop them by itself. This directory holds TLA+ models of the parts of it where a mistake
is expensive and hard to test, TLC configurations that check them on small instances, and
TLAPS proofs of the properties that matter most, for every instance.

Paths are relative to the repository's root; `PROJECT.json` maps every definition to the
lines it stands for.

    tlc -workers 2 -config ab_update.cfg MCSlotUpdate     # one of the runs listed below
    tlapm SlotUpdateProofs.tla                            # one of the proof modules

Contents: 1 the system, 2 the modules, 3 the runs, 4 the proofs, 5 what the models leave
out, 6 disagreements found, 7 the plan.

## 1. The system

### 1.1 On the camera

**Slots.** The ROM partition is one slot, or two under A/B (`build/device/boot.py`,
`build/device/openmv_ota/data/installer.py`). A slot is a body (a romfs image), a status
sector (PENDING and CONFIRMED marks, an install counter, attempt marks, two append-only
floor regions) and a trailer (signed metadata, certificate, hash). Flash can only be
erased or programmed; every field of the status sector validates itself, so a torn one
reads as absent. This is all the state that survives a reset.

| Component | State | Operations | Interacts with |
|---|---|---|---|
| Slot selection at boot (`boot.py`) | candidates, in RAM | survey the slots, pick, burn an attempt, mount, hand over to recovery | reads what the installer and confirm wrote; the install record of the stub |
| Keeping a release (`openmv_ota.confirm`) | none | raise the floor, raise the epoch floor, mark CONFIRMED | called by the app, or by the loop's self-test |
| Installer (`installer.py`) | the survey taken before the erase; tries | vet a manifest, erase, carry the floors, stream, hash, write the trailer and counter, arm, flush, reset | called by the check-in loop, the app, or recovery |
| Recovery (`openmv_recovery.py`) | backoff | check in and install with nothing mounted | the installer, the server |
| Boot stub (`build/device/stub/`) | firmware area, install record, both on flash | choose a slot, burn, install that slot's firmware, record it, jump | boot.py reads the record |
| Check-in loop (`openmv_ota.run`) | the install gate and the failure streaks, in RAM | check in, back off, rebuild the transport, defer during a trial, reboot for a fresh heap, install | server, installer, watchdog |
| Watchdog (`openmv_wdt.py`) | depth and budget of relaxed regions | feed, relax, start | its reset is a reset like any other |
| Cloud libraries (`openmv_cloud/`) | RAM queues, spool files | log, record, frame, drain | server's data lake |
| Key store, secure elements | keys | sign, unwrap | boot.py, installer |

What is hard here is power. It may fail inside any flash operation, the next boot starts
from whatever that left, and there is nobody at the camera. *Correct* means: the release
kept last is never lost (A/B); a release nobody confirmed runs a bounded number of times;
what was armed is what boots next; the floors, which make old releases unacceptable,
neither fall nor lock out the only kept one; and the camera always gets back to running
something it kept. Of the loop: it installs in the end what can be installed, from
whichever heap that takes, without rebooting over and over for what cannot, and no state
of the network stack is one it stays in for ever.

### 1.2 The server

| Component | State | Operations | Interacts with |
|---|---|---|---|
| Check-ins (`server/app.py`) | rows of `devices` | decide what to offer, count, judge, store, answer | cameras; the rollouts table |
| Rollouts (`server/rollout.py`, `server/admin.py`) | `rollouts`: state, percent, stage, counters, baselines | create (superseding), patch, stop, raise, pause | written by check-in handlers and operators |
| Publishing (`server/publish.py`) | `releases`, stored artifacts | check, store, insert | cameras are offered what it inserts |
| Audit log (`metastore.append_audit`) | a hash chain | append | fans out to webhooks |
| Webhooks (`server/webhooks.py`, `metastore.py`) | `webhooks`, `webhook_deliveries` with leases | queue, claim, send, retry, give up, switch off | one worker thread per server process; endpoints elsewhere |
| Whose camera it is (`server/app.py`, `server/admin.py`) | `device_registrations` (a desk had the camera in hand), `device_accounts` (bindings, learned from a check-in or set by an operator), `devices`, `unclaimed_devices` | check-ins learn, sign, are given lockboxes and write rows; operators register, bind, release, forget | cameras, desks, the key keeper |
| Key keeper (`keykeeper/`) | `private/` (keys), `chain.json` (the generations, each signed by the one before), backups | init, serve and extend, `rotate --now`, backup, restore, open a seal | its command line and its service share one directory; the update server relays its chain |
| A project's pin (`project/keykeeper_pins.py`) | the pinned generation, the chain as last synced | configure, sync, seal a release | follows the key keeper's chain |
| Admin API, capabilities, rate limits, live views | tokens, buckets, views | requests | operators, clients |

Every statement on the store is its own transaction (a pool on Postgres, one locked
connection on SQLite), handlers run in a thread pool, and several server processes may
share one store. What is hard is therefore what lies *between* two statements of one
request: another handler, an operator, another operator, a restart. *Correct* means: only
a request that a stop has overtaken may undo it, and only one that another percent has
overtaken may lower a percent; offers and falls are counted, so that the failure limit
judges the truth; a failing rollout pauses, a healthy ramp completes; a delivery is
reported delivered only if it was, is not given up on early, and always ends; a camera's
binding follows its registration, and is never taken by a stale check-in; and a lockbox is
made only for keys that a desk of the account vouched for.

The key keeper's ring is files: a generation's key, then the chain that announces it, and
a process may die in between or the disk be lost. *Correct* means: whatever was sealed can
be opened for as long as a camera may ask, no build seals to a generation that a rotation
has replaced, and a project that keeps syncing can keep sealing.

### 1.3 At the desk

Building, signing, flashing, the command-line client: one-shot programs over files. They
matter to the models through what they leave: the factory state, and releases whose
metadata the camera checks.

`PROJECT.json` lists all components with their status, and every hazard with the property
that would catch it or the reason none does yet.

## 2. The modules

| Module | Models | Extends |
|---|---|---|
| `SlotFlash` | what a slot holds and the decisions read out of it: `evaluate_slot`, `select_slot`, `_install_target`, `_vet_manifest` | |
| `SlotUpdate` | the lifecycle: boot, confirm, install, recovery, power cuts | `SlotFlash` |
| `UpdatePromise` | abstract: what A/B updating promises, with no flash in it | |
| `StubUpdate` | the lifecycle on a board with a boot stub | `SlotUpdate` |
| `Rollout` | check-ins, staged rollouts and operators, one product and cohort | |
| `Webhooks` | the delivery queue, its workers and their leases | |
| `PollLoop` | the camera's check-in loop: its gate, its streaks, its reboots | |
| `Ownership` | check-ins and operators' requests on the tables that say whose a camera is | |
| `Keykeeper` | the ring of keys, its service and command line, and the projects that seal to it | |
| `SlotUpdateProofs`, `RolloutProofs`, `WebhooksProofs`, `PollLoopProofs`, `OwnershipProofs`, `KeykeeperProofs` | theorems | their module, TLAPS |
| `PromiseProofs` | the refinement `SlotUpdate` => `UpdatePromise`, and the theorems that share its invariant | `SlotUpdateProofs` |
| `StubUpdateProofs` | theorems about the two boot programs together, and the refinement `StubUpdate` => `UpdatePromise` where no install of the stub's own is reported as failed | `StubUpdate`, `PromiseProofs` |
| `MCSlotUpdate`, `MCStubUpdate`, `MCRollout` | instances for TLC | their module |

A definition named `M_...` is a plausible bug in the definition below it, of the same
parameters; `PROJECT.json` names the run and the property that catches it.

### SlotUpdate

One thread: `pc` says where the camera's only program is. Its variables are flash, the
RAM that a reset loses (`running`, `cand`, `inst`), and three histories the properties
need (`kept`, `runs`, `installs`).

- *boot.py*: `Survey` (evaluate every slot), then for the winner `ChooseKept` or
  `BurnAttempt`, then `Mount`; `ArmFails` drops a slot whose attempt cannot be recorded;
  `NoSlot` goes to recovery.
- *confirm()*: `ConfirmBegin`, then three writes, each done (`ConfirmStep`) or raising to
  the app with the write absent, torn or whole (`ConfirmFault`).
- *installer*: `Offer` or `RecoveryOffer` take the survey; ten writes follow in the
  installer's order (`InstallStep`). The download is not modelled as bytes: it is right,
  ends wrong (`StreamWrong`), or fails (`InstallFails`), and the hash check tells
  (`HashMismatch`). `Retry` erases and starts over, or resets when the tries are spent.
- *the adversary*: `PowerCut` anywhere, `TornCut` in the middle of any flash operation.

A release is a model value with a record of what its signed metadata says. Signatures and
hashes are ideal: `trusted` is given, and a body is either the release's, `Torn`, or
`Blank`.

### StubUpdate

Adds the firmware area, the install record and the stub's program to the same variables;
confirm, install and the adversary are reused as they are. The stub checks signatures and
marks but not the body; boot.py follows the record when there is one (`FollowRecord`), and
otherwise chooses by itself.

### Rollout

`job[c]` is the check-in being served for camera `c`: its reads (device row, pin, active
rollout) are one step, `CheckIn`, and every write after them a step of its own: `Count`
(the counters), `Judge` (the fresh read and the verdict), `Pause` or `Raise` (the
unconditional UPDATE), `Store` (the device's row, and the answer). `op[o]` is the request of
operator `o`: a creation reads the rollout to supersede (`CreateBegins`), pauses it
(`Supersede`) and inserts (`Create`); a PATCH reads and checks (`PatchBegins`) and then
updates without a condition (`Patch`). A stop and a pin are one write each. Requests
overlap each other and the handlers in every way. A camera is abstracted to what the server can see of it: it takes
an offer, keeps it, or falls back. The `updated` counter, the install history, feedback and
the answers to unregistered cameras are written or derived here too and read by nothing
modelled.

What such overlaps do to a stop and to a percent is the code's behaviour, and no claim that
they do nothing would be true. The history `stale` says which requests under way have been
*overtaken*: since they read their rollout, another has stopped it or given it a percent.
It guards nothing. Two handlers that judged the same stage do not overtake each other: what
the second writes is what the first wrote. `Installed` is what each camera runs at the
start, `Changes` the PATCHes that operators may send.

### Webhooks

`queue[k]` is the row of a delivery, `work[w]` the memory of a worker: the rows it read as
due, those it claimed, the one in hand, each with the attempt it was read with. `op[o]` is
the request of an operator that is more than one statement: a redelivery reads the row and
checks it (`RetryBegins`), then writes it (`Retry`), whatever a worker has written since;
a deletion takes the endpoint's deliveries, then the endpoint. `CrashServing` ends one where
it is. Time is
abstract: a lease lapses, a backoff ends. `Lapse` assumes a claim (a read and one UPDATE
per row) is shorter than a lease; with `Slow = TRUE` a *pass* may outlive its leases, as a
pass of many deliveries to a slow endpoint does.

### PollLoop

A cycle of the loop does not yield, and is one action: a check-in that fails (`Fail`, with
`_exhausted_step` and the app's hook in it), or is throttled, or is answered, and then
whatever the gate decides: `Defer`, `RebootForInstall`, `Install`, `InstallFails` (before
the erase), `InstallCut` (after it). Between cycles the app confirms, the offer changes,
and the network goes down, wedges or is exhausted. `camera` is what hardware and app it
is: two slots or one, a hook or none, and whether a heap that has been in use is too small
to install from; `bad` releases install from no heap. `gate` and `loop` are the code's own
variables; a reset makes both anew, the loop's death only `loop`. `asked` is the history
the property needs. `Steady` says that a release that is offered is offered at *every*
answer; a rollout's percentages and a cohort do that, a check-in whose lockbox the key
keeper did not make in time does not.

### Ownership

`job[c]` is the check-in of camera `c`, `op[o]` the request of operator `o` for some
account, in `Rollout`'s manner: each statement written is a step, and so are an operator's
two reads, `Register` or `Bind` and then `Check`, since others write between them (`List`, `Learn`, `Serve`, `Offer`, `Store`; `Put`, `BindAccount`, `MoveRow`,
`DropUnclaimed`, `Unregister`, `Unbind`, `DeleteRow`). `Crash` ends every request where it
is. A camera's keys are a number that a reflash raises; a signature is by the keys it has;
a lockbox (`box`) is for the keys that are registered. Requests overlap each other and the
check-ins. `clash` is a history: the cameras that two requests were under way for at the
same time, until a release that has the camera to itself.

### Keykeeper

`job[p]` is what the service or the command line is writing, with the chain it will write
in the end: `Mint` is one generation's files, `Write` the rename of `chain.json`. The jobs
are init, extend, rotate (which goes on as an extension) and restore. `Crash` leaves what
was written, and perhaps a torn key; `LoseDisk` everything but the backup. `pin`, `kept`
and `seals` are the projects'. Keys are numbers; a generation says which key signed it,
and `Verifies` follows the signatures. `Overlap` says whether the command line runs while
the service writes: its lock covers its own threads only.

Two things the operator is trusted with, as the documentation asks: the disk is lost only
while a backup has the generation in effect, and after a loss the ring is restored, not
made anew.

## 3. The runs

| Run | Question | Bounds | Distinct states |
|---|---|---|---|
| `ab_update` | Does A/B keep its promise, on hardware that two product lines share? | `ProductId = 0`; 4 releases (one broken) whose versions and publish order disagree; 2 attempts, 2 tries per install, 3 offers, 2 faults | 70,675 |
| `single_update` | What holds with one slot and a key rotation? | 2 offers, 1 fault | 100,735 |
| `key_rotation` | Is a confirmed slot always a legal fallback? | 3 offers, 2 faults, two key epochs | violated |
| `stub_update` | Does the stub keep firmware and app together? | 3 releases, 2 firmwares, stub budget 2, firmware budget 1, 1 floor entry, 1 fault | 94,562 |
| `stub_stale_record` | Does boot.py never burn on a stub board? | 2 offers, 1 fault | violated |
| `poll_loop` | Does the loop install, recover, and not churn? | 2 releases, 2 tries in place, a gap of 2, recovery after 2 failures, 1 rebuild, 2 changes of the offer, 2 faults | 274,956 |
| `rollout` | Are offers counted; who may undo a stop or lower a percent; does a bad rollout pause and a good ramp complete? | 2 cameras, a two-stage ramp and a manual rollout, 2 operators with 2 requests or restarts, 1 fall | 516,849 |
| `rollout_race` | Is a stop final, as the tutorial says? | as `rollout` | violated |
| `webhooks` | Is every delivery honest, and does it end? | 1 endpoint, 1 event, 2 workers, 2 attempts, off after 2 failures, 1 crash, 2 operators, requests begin until 1 is carried out | 572,714 |
| `webhook_twice` | Does a lease keep a delivery from being sent twice? | 3 attempts, no crash, no request, no slow pass | violated |
| `ownership` | Do bindings, rows and lockboxes follow the registrations? | 1 camera of either kind, 2 accounts, 2 operators, 2 sets of keys, 3 requests, reflashes and restarts | 1,116,775 |
| `keykeeper` | Does every seal open, and can projects go on sealing? | 1 project, a period of 2, time 4, 1 emergency rotation, 2 crashes or losses | 642,544 |

### Why the bounds are enough

*Slots.* A release to leave the factory with, successors on either product line and a
broken one let a trial follow a kept release, be kept, and be followed by a trial that
fails; `PRODUCT_ID` 0 skips the comparison of versions between lines, so what must not
happen under `ab_update` includes what the simpler hardware could do. Three offers make
the installer choose its target three times, both slots having been the kept one.
Two faults allow a fault while the effects of another are on flash: a torn confirm, then a
torn install of the slot that held the floor. Attempts above 2 repeat states. Offers are
bounded because nothing else bounds them; recovery's are not. `CounterMod = 8` is above
the number of installs of a run: the counter's wrap at 2^32 is beyond the flash's life.

*Stub.* One floor entry makes every second raise meet a full region. The stub's budget is
larger than the firmware's so that the record, not the firmware's policy, must be what
boot.py follows. With two faults `RecordedPair` fails; see section 6.

*Rollout.* One camera in the first stage and one in the second make the ramp's windows
differ; two handlers are enough for one to act on what the other changed. Two requests of
two operators are a stop in the middle of a PATCH, of a creation or of a handler; two
PATCHes, or a PATCH and a creation, in the middle of each other; a PATCH after a stop; and,
a restart counting as one, a request cut short. The two PATCHes both give a percent, one
pausing and one resuming, and either may be written last. The theorems cover any number of
requests. The second rollout ships
a later release, so a camera moves through both. The third release is reachable by a pin
only.

*Webhooks.* Two workers race for one row. Two attempts and two failures to switch-off let
the attempts be spent by a row that was requeued, and the endpoint be switched off, on and
off again around it. Two operators' redeliveries, or a redelivery and a deletion, are under
way at once, between each other's read and write and across a whole attempt of a worker;
`MaxOps` bounds the requests carried out, and none begins after that. Endpoints and entries
do not interact but through the endpoint's failure count, which one delivery's retries
already move.

*PollLoop.* Two releases make an offer change from one to a newer one and back to an older
one, also while a camera is between the reboot it made for the first and its boot
check-in. Two tries in place and a gap of two separate "a try too few" from "a minute too
early". Counters are saturated at the limits the code compares them with (`UpTo`). Two
faults let the loop die during an outage, or an install be cut after another failed; what
the properties say of a camera that is left alone needs none. Every kind of camera (two
slots, hook, tight heap) and every set of bad releases is an initial state.

*Ownership.* One camera, registered by desks or claimed by accounts; cameras share no row.
Two accounts are a former owner and a new one; the camera's images report the one or none.
Three requests of two operators are two desks registering one camera at the same time, or
a bind between a registration's statements, and then the release that puts it right; or,
one after the other, a registration, a release and a registration elsewhere; a reflash, or
a restart in the middle of one, takes the place of a request. The number of check-ins is
unbounded.

*Keykeeper.* With a period of 2 and time up to 4 the ring is made, and extended twice, the
second time possibly long after it was due; the emergency rotation falls before, between
or after. Two faults are a loss of the disk and a crash in the restore, a crash in a
rotation and one in the rotation after it, or a crash that leaves a torn key and the loss
of the ring. Projects share nothing but the ring: one is enough, and the proofs cover any
number.

### Fairness

*SlotUpdate, StubUpdate*: what the camera does by itself it goes on doing (weak fairness:
each step is the next instruction of the only thread); power lasts through a boot now and
again (strong fairness of the boot steps in `SlotUpdate`); a trial that never becomes
healthy is reset, by its watchdog or a person; recovery is sooner or later offered
something (its loop has no end). Nothing obliges power to last through an *install*, so
`Recovers` and `StubReturnsToKept` allow the run in which it is cut for ever, and
`ReturnsToKept`, which needs no install, does not. *Rollout*: a request once begun ends,
cameras poll for ever, a trial ends, a soak passes. *Webhooks*: the worker thread is a
loop on a timer that logs and survives exceptions; leases lapse whenever they are
allowed to often enough, backoffs end. *PollLoop*: the loop goes on for ever (`run`
starts it anew when it dies); the server does not throttle a camera for ever; the app
confirms; an outage that is not the camera's own ends. A wedge or an exhausted stack ends
by nothing but what the loop does. No single try in place is owed success, on any heap:
`InstallsAtLast` rests on the boot check-in, and on faults being bounded. *Ownership*: a
request once begun ends, and cameras poll for ever and sign again and again once their
clocks are set (strong fairness, since a check-in excludes the next while it is served).
*Keykeeper*: what was begun goes on; the service is started again when it dies and is
asked for its chain again and again; a lost ring is restored; projects sync. Nothing
obliges anybody to make a backup.

`webhooks.cfg` and `webhook_twice.cfg` turn the deadlock check off: with one entry, the
queue is empty at some point and nothing remains to do. No other configuration does.

### What the properties say

- `FallbackIntact`, `ArmedWins`, `FloorCoversKept`, `FloorsCarried`, `TrialRunsBounded`,
  `KeptNeverOlder`, `KeptNeverRepublished`, `ReturnsToKept`, `Recovers`: section 1.1's
  meaning of *correct*, at every instant of every history of cuts and faults.
- `KeepsPromise`: `SlotUpdate` under A/B implements `UpdatePromise`. The mapping reads the
  trial out of the slot that is not the kept one; a survey, a carried floor or a failed
  mark is a stutter, an attempt mark is `Pay`, a mount of a trial is `Try`, CONFIRMED is
  `Keep`, the erase that reaches a body is `Lose`, PENDING is `Arrive`.
- `RecordHonest`, `RecordedPair`, `StubTrialBounded`, `StubFallback`, `StubReturnsToKept`:
  the same with two programs choosing one after the other; `RecordedPair` is that an app
  never runs on a firmware it was not built with where a record says which one is there.
- `StopHolds`, `DialHolds`: a stop is undone, and a percent lowered, only by a request that
  has been overtaken. So a request begun after a stop leaves it alone, and so do handlers
  that raise at the same moment; what is left is the lost update of section 6.
- `OfferedAreCounted`. `ValvePauses`, of the rollout that answers check-ins: one that
  another covers is not judged until it answers them again. `RampCompletes`.
- `DeliveredWasAcknowledged`, `GivesUpOnlyAfterTrying`, `EveryDeliveryEnds`.
- `OneRebootAnHour`: two reboots for the same offer are an hour of uptime apart, whatever
  died, failed or was throttled in between. `InstallsAtLast`: what goes on being offered
  and can be installed from a fresh heap is. `ExhaustionEnds`: an exhausted stack is left,
  by a rebuild or a reboot, unless the camera never checked in since its boot.
- `AdminBindingIsOwners`: between any two statements of any requests, cut or not, an
  operator's binding is to the account that registered the camera; two requests that had
  one camera at once may leave it otherwise, and a release puts it right. `BindingSticky`:
  no stale check-in takes a binding. `LockboxesVouchedFor`: whatever account the server
  believes a camera has. `RowFollows`: a row written late is put right by the next
  check-in.
- `SealsOpen`: the ring has the key of every seal ever made, through every cut, loss and
  restore. `SealsToCurrent`, as the tutorial says, of scheduled rotations. `CanSealAgain`:
  pins follow, whatever was rotated or restored behind their back.

## 4. The proofs

Thirty-nine theorems, for every value of the constants that satisfies the modules' named
assumptions. Each follows from an inductive invariant, proved by one step per action; the
invariants were checked with TLC before they were proved.

**`SlotUpdateProofs`.**
`TypeCorrect` (`Spec => []TypeOK`) needs `TypeInv`: types alone do not say that the RAM a
step reads has been set, nor that a floor region is blank when a floor is carried into it
(or an append could run past its end).
`TrialBound` (`Spec => []TrialRunsBounded`), both layouts, needs `RunsInv`: a run is
counted against a mark, `runs[s] <= attempts`; a surveyed trial still has a mark to burn,
and between the burn and the mount it has one more than it has run; and the marks, which
the erase wipes, are wiped only when the body they counted is gone.
`FallbackSafe` (`OneEpoch /\ ~Single => (Spec => []FallbackIntact)`) needs `FallbackInv`:
the kept slot outranks any other confirmed slot, so the slot mounted is the kept one or a
trial; an install starts only from the kept one (a trial takes no offer), so its target
is the other; while the install runs the target is not confirmed, so a torn erase cannot
put a stale confirmed slot above the kept one. `OneEpoch` is needed: `key_rotation` shows
what happens without it. The two layouts differ in fact: with one slot there is no
fallback to keep, and `Recovers` is what is checked instead.

**`PromiseProofs`**, on the same invariants.
`ImplementsPromise` (`Spec => KeepsPromise`), `FloorCovered`, `NeverOlder`: under A/B, with
one key epoch, and with `Room`: a floor region has two entries more than there are faults.
Every torn entry takes a place, the carried floor and the trial's own take two; without
`Room` a region may fill up, confirm() then has nowhere to write its floor, and the kept
release may be left uncovered. `PromiseInv` says that an armed slot is whole or has no
body, that as a trial it is not older than the kept release, and that its region still has
a place for its floor or holds it already; that the kept slot's *own* floor covers it, so
that erasing the other slot takes nothing away; and how far an install's writes have come.
The refinement then goes action by action: each one's effect on the mapped variables is
`Nothing`, a payment, a mount, a keep, an arrival or a loss, the last two only while no
trial runs. `NeverRepublished` adds `ProductId = 0`, where the order is publish_seq.
`FloorsRestored` (`Spec => []FloorsCarried`) needs none of these assumptions and covers
both layouts: the erase blanks the region the carried floor goes into.
`ArmedBoots` (`Spec => []ArmedWins`) also needs `NoWrap`: fewer installs than the counter
counts. An install's counter is above the kept slot's from the survey on, and its release
was vetted against every floor on flash, none of which rises until it is confirmed.

**`StubUpdateProofs`.** Two programs that read the same marks and judge them differently.
`StubTypes` and `RecordTrue` (`Spec => []RecordHonest`), any constants: the record is
erased before the area changes and written after it, and between the two the stub still
holds the slot it picked, whose trailer nothing can change while it runs.
`StubFloorsRestored` (`FloorsCarried`) needs no assumption either.

The others assume `OneEpoch` and say for how many torn or failed flash operations they
hold. That number is part of the theorem, `[](faults <= 2 => ...)`, and TLC finds each
property broken at one more, `ArmedWins` excepted, for which two is what the proof needs. `faults <= 2`: `StubFallbackHeld`,
`StubTrialsPaid`, `NeverStranded`, and, with `Room`, `StubNeverOlder` and, with `NoWrap`,
`StubArmedBoots`. `faults <= 1`: `PairRecorded`. `faults = 0`, so for cuts between any two
flash operations: `StubKeptSafe`, `StubFloorCovered` and the refinement.

For these last three a count is too blunt: one *kind* of fault breaks them. `InstallsHold`
(`[][~StubInstallFails]_allVars`) says that no firmware install of the stub's own is
reported as failed; cuts in the middle of one (`StubTornCut`) are allowed, and so is
everything that tears or fails in boot.py, confirm(), the installer and the marks that pay for
trials. Under it `StubKeptThroughFaults` (`FallbackIntact`), `StubFloorThroughFaults`
(`FloorCoversKept` and `KeptNeverOlder`) and `StubImplementsPromise` hold for any number of
faults (the last two with `Room`, which bounds it by the floor regions' entries). It is a
condition on behaviours, not on constants; one reported failure does break the
three (section 6).

They share one invariant, `Ground /\ Held`. `Ground` holds whatever fails: the slots' releases
are for this hardware, an install's target carries no mark from the erase of its status
on, a slot without a body owes no run. `Held` says what at most two faults cannot take
away, wherever the camera is and then region by region. `AtRest`: a kept, whole slot is there; a slot
that outranks another for the stub without being whole has cost a fault, and two if its
body is torn (the stub would install from it without hashing it); every run beyond the
marks has cost one; with at most one fault a record names a whole, marked slot. `InLoop`,
while the stub tries slots: what it picked is paid for, and the record it will hand over
names such a slot, unless it is the one it started with and a kept slot is still to be
tried; that is the case the stale copy of the record (section 6) would otherwise break.
`AtHandover`, `AtPick`, `AtMount`: boot.py mounts what the record names, or, when nothing is
left for the record to name, what it verified itself. `InApp`, `InInstall`: what runs is whole and marked, and
an install's target is not the slot that runs.
Three more invariants sit on it. `Covered`: a confirmed slot's own floor covers its release
and a trial's region still has a place for its own; it speaks of confirmed slots and not of the
kept one, for after a fault the confirmed slot that runs and takes the offer may be the
other. `Ranked`, likewise against the other slot. `Straight`, which `StubInstallFails`
alone among all the steps does not preserve: the kept slot is whole, confirmed and newer
than any other confirmed one; the slot picked, named, mounted or running *leads*, that is, it
is the kept one or a trial newer than it, and its next run is paid for; and an install runs
from the kept slot into the other. The stub passes over a trial whose mark fails or whose
body no longer matches its trailer, never over the kept slot, which therefore stays a
candidate until one is mounted.
`Upright` is what `Covered`'s steps need of either, `Held` with two faults or `Straight`
with any.
`StubPromiseHolds` (`Spec => PromiseUntilFault`) then maps the two programs' steps, torn and
failed ones included, onto `UpdatePromise`, with the larger of the two budgets as its
tries, up to and including the first fault; `StubImplementsPromise` is the plain refinement
(`Spec /\ InstallsHold => KeepsStubPromise`). A mark that is written and reported as failed
is a payment, a torn confirm() a stutter, a torn erase a loss.
After a failed install of the stub's the refinement is false (section 6), which is why the theorems
with `faults <= 2` do not go through it.
`Blank # Torn`, that an erased body is not a half-written one, is the one assumption
the constants gained for these proofs.

**`RolloutProofs`.**
All four hold of any number of operators and requests, overlapping in any way.
`CountsSound` (`Spec => []RolloutTypeOK`): the invariant `Sound` says that every copy of a
rollout's record a request holds is an *earlier* state of that record, so a baseline taken
from it is never above the counter.
`StopsHold` and `DialHeld` (`StopHolds`, `DialHolds`), with no assumption: `Kept` says that
a request that has not been overtaken is still right about the rollout it read: it is not
stopped, where the request will write the state, and its percent is not above the one the
request will write. Two raises from one judgement are the case to look at: the first has
moved the rollout, and `OneStage` makes the second land on the same stage.
`OffersCounted` (`Distinct => (Spec => []OfferedAreCounted)`):
`OfferInv` bounds by `attempted` the cameras answered *and those whose count is written but
whose answer is not*; a count is skipped only where the camera's row names the release,
which only an answer that offered it can have written. `Distinct` says that no two rollouts
ship one release, and that no pin names a rollout's: section 6 says what happens then.

**`WebhooksProofs`.**
`Delivered` and `GivenUp`, for any number of endpoints, entries, workers, crashes and
requests, slow passes included. `Honest` ties every row *and every copy of a row in a
worker's memory* to the history of what was posted: an attempt number stands for that
many posts. Rows do go back (a worker writes the attempt it read, over a later one), but
histories only grow, so a stale copy stays covered: this is why the unconditional
`finish_delivery` is harmless to these two properties, though not to `AcceptedOnce`.
`AttemptsBounded` (`Spec => []WebhookTypeOK`): attempt numbers are bounded by MaxAttempts and
the requests to redeliver that were carried out, also those a worker copied before a row
was requeued.

**`OwnershipProofs`.**
`OwnershipTypes`, `LockboxesVouched` and `BindingsStick` hold of overlapping requests and
of restarts anywhere. The first needs `Staged`: a check-in that will learn reported an
account, a request that will register has keys. The second needs `Signed`: the keys in
`reg`, and those a request still carries, are keys a desk of *that* account signed for
that camera. So what the lockbox is for does not depend on the binding, nor on the account
the check-in was taken for: both may be stale.
`AdminBindings` (`Spec => []AdminBindingIsOwners`), with no assumption: `OneEach` says that a
camera outside `clash` has at most one request under way, and `Admitted` what that request
has already checked and still relies on, step by step; check-ins write none of it, and a
release that ends a clash has taken the registration away.

**`KeykeeperProofs`.**
`RingTypes`, `OldSealsOpen` and `SealsCurrent` (`~Overlap`), for any period, time, number
of projects, rotations, crashes and losses. The argument follows the *base*: the chain on
disk, or the backup's while the disk is lost. The base only ever grows, except at a loss,
where the backup has the generation in effect. A project's kept chain agrees with the base
up to the last generation it knows (`KeptOK`), and a build never seals to that last one:
the one before it has been reached by the clock (`Ahead`), so every generation ever sealed
to is one that no loss takes away (`Knows`), and its key is in the ring (`Files`) and in
every backup (`ArchiveInv`). A generation that a crash left half minted is in no chain:
minting it again, with another key, contradicts no seal. `JobInv` says what a job's chain
will be when it is written. `SealsCurrent` needs in addition, of rings with no emergency
rotation, that generations are a period apart (`Spaced`).

**`PollLoopProofs`.**
`RebootsAnHourApart` (`Steady => (Spec => OneRebootAnHour)`), any limits and faults. The
invariant `TookItUp`: a camera that has rebooted for what is offered either has no use for
it any more (it runs that release, or something newer), or, once its gate has answered,
it answered with that release. So a second reboot for it is the gate's other reason, which
waits for the hour. It survives the loop's death because the gate does. Without `Steady`
it is false: a boot check-in that is answered "nothing" makes the next answer look new.

Only model-checked: the liveness properties (`ReturnsToKept`, `Recovers`,
`StubReturnsToKept`, `InstallsAtLast`, `ExhaustionEnds`, `ValvePauses`, `RampCompletes`,
`EveryDeliveryEnds`, `RowFollows`, `CanSealAgain`): fairness and ENABLED are beyond TLAPS
1.4. Every invariant and action property of a passing run is a theorem; the stub's three
that do not hold for every number of faults are theorems up to the number they hold for, and
`stub_update` shows them for one. The models use no recursive operator, so nothing had to
stay unproved for that.

## 5. What the models leave out

- *Cryptography.* Signatures verify or do not; a hash matches only its own bytes.
- *Bytes.* A download is right, wrong or dropped. Deltas, decryption and resumption
  decide which, and are not modelled (plan, `Download`).
- *The composition of loop and slots.* `SlotUpdate` takes offers at any time the
  installer's guard allows, and so covers any policy of the loop, and an app that calls
  `install()` itself from a kept release. It does not cover an app that calls `install()`
  from its own trial under A/B, which the loop defers and the function does not refuse.
  `PollLoop` in turn sees of an install that it succeeds, fails before the erase, or is cut
  after it and boots into the other slot; a single-slot camera whose retries are spent is
  recovery's, and `single_update`'s.
- *The loop's waits.* Their lengths, jitter and backoff, the clock, and what extensions add
  to a check-in. `uptime` is counted up to the gap.
- *Limits and lists.* A device limit is a refusal that may happen; the number of cameras
  under it is not counted. Nor is the length of the list of unclaimed cameras.
- *The key keeper's authentication*, archives and passwords; a record that verifies is
  taken as one (`Boxed`), and a chain's signatures as its keys (`Verifies`). A lost disk
  without a backup, or with one that misses the generation in effect, is outside the
  promise its documentation makes, and outside the model.
- *Making a camera's keys* on a factory image's boot: a dialogue at a desk.
- *Several products, cohorts and accounts.* They share no row of the rollouts table.
- *Two check-ins of one camera at once.* A camera whose request timed out may ask again
  while the first is served (app.py:886); a duplicate counts an offer or a fall twice.
- *Soak shorter than a request.* `Soak` waits for raises in flight. `min_soak` may be 0,
  and then a handler stalled through two raises of a three-stage ramp could write an
  older stage over a newer one (rollout.py:148).
- *Floating point.* Percents are whole numbers. The server checks no range for them, and
  neither does the model.
- *The fan-out of an entry* to several endpoints is one step; the crash before it is an
  action (`CrashAppending`), one between two endpoints is not.
- Everything in `PROJECT.json` with status `not_modelled`, with its reason there.

## 6. Disagreements found

Each has a run that exhibits it, and an entry in `PROJECT.json` with both quotations.

1. `key_rotation`: a confirmed slot is not always a legal fallback. confirm() raises the
   epoch floor before it writes CONFIRMED; a cut in between, and the trial's attempts
   spent, leave a whole, confirmed slot that boot.py refuses.
2. `stub_stale_record`: the stub compares the next slot with the copy of the install
   record it read before a failed install erased it, and jumps with no record on flash;
   boot.py then burns a second attempt and may mount an app on another's firmware.
3. `rollout_race`: a stop is overwritten by whoever read the rollout before it and writes it
   without a condition afterwards: the creation of the next, which pauses the one it
   supersedes (admin.py:648, 651; the shortest trace); a PATCH of the state (684, 721); a
   check-in's auto-pause (app.py:658, 681). Then the stopped rollout can be resumed.
   `StopHolds` says that nothing else does it.
4. `webhook_twice`: the claim's UPDATE tests the lease and not the status, so a worker
   that read a row before another finished it sends it again.

Seen while modelling, and not made into runs:

- With one fault on a stub board, a firmware install of the stub's own that is reported as
  failed (the one fault that does this, as `StubKeptThroughFaults` shows), the stub goes on to the older of two confirmed slots; its app takes an offer and installs
  over the newer one, the release confirmed last, and with that slot goes its floor if power is
  cut before the carried one is written (`MaxFaults = 1`: `FallbackIntact`,
  `FloorCoversKept`). A kept release is still there (`StubFallbackHeld`) and an older one
  is never kept (`StubNeverOlder`).
- With two faults on a stub board (an arm reported failed although written; the retry's
  erase cut at the front of the body) the stub installs that slot's firmware, whose body
  it does not hash, and boot.py mounts the other slot.
- With three, the stub installs a slot whose body a failed erase had torn, and records it;
  boot.py mounts the other one, whose app installs into the recorded slot, which takes away
  its marks; the stub cannot erase the record for the slot that is left, finds no other, and
  hands over with the record on flash. boot.py then mounts the half-installed slot with no
  attempt burned (it checks that a recorded slot verifies, not its marks), and that slot
  may install over the kept one (`MaxFaults = 3`: `StubFallback`, `StubTrialBounded`).
- PATCH `state=active` on a superseded rollout leaves two active ones (admin.py:676-729;
  its line 614 says one is active per product and cohort), and so do two creations that both read the rollout
  before (648), or none. The model allows it: the one created last answers check-ins, and
  the other is neither judged nor paused while it does.
- Two PATCHes of a percent that both read the rollout before either writes pass the check
  that it does not go down (admin.py:684, 700), and the lower may be written last (721); so
  may a check-in's raise, over a higher percent an operator gave after its read.
- A redelivery reads the row, checks that it has ended, and writes it (admin.py:2264-2275):
  of two at once the later one may requeue a delivery a worker has just finished again, and
  it is sent once more.
- A restart between the counters and the device's row counts the same offer again
  (over-counting; the order of the writes is the safe one).
- The comment at boot.py:514-517 calls the floor monotonic; in single-slot mode it drops
  at the erase until the carried entry is written. `FloorsCarried` states what holds.
- Recovery vets manifests against epoch 0, not the epoch floor it could read
  (installer.py:1715-1723): it can download a release boot.py will refuse.
- The audit entry commits before its deliveries are queued: a crash loses the event for
  every endpoint, under "at least once".
- A webhook is switched off on a failure count read after other workers changed it, and
  an operator's re-enabling can land between the switch-off and the burial of its
  pending deliveries.
- A fall first reported while the rollout is paused is stored and not counted; after a
  resume the failure limit judges a number that leaves it out (app.py:633).
- A stopped rollout is to be replaced by a new one (admin.py:703). If it ships the same
  release, a camera already offered it is not an attempt of the new rollout (app.py:619),
  though its fall is a failure (app.py:633): the limit judges failures of cameras it did
  not count, and with no attempt at all it judges nothing. Hence `Distinct`.
- The next install counter is taken modulo 2^32 (installer.py:856) and counters are compared
  as numbers: after a wrap the newest slot would sort below the other. No flash lives to see
  it.
- *Ownership.* A check-in verified before a release writes the camera's row after it
  (admin.py:1358): the row stays, on the former owner's limit, until somebody registers the
  camera again. A release cut between its deletes (metastore.py:1845) leaves an operator's
  binding without a registration, which keeps every other account out. Two desks that
  register one camera at once both pass the checks (admin.py:1294) and write over each
  other: the registration may end with one and the binding with the other, and it stays so
  until the camera is released. The device limit is
  a read before a write too (admin.py:1302). `put_desk_key` reads `revoked` and writes it a
  statement later (metastore.py:1770-1783), so an upload that overlaps a revocation can write
  the older value, where its docstring calls revoking one-way.
- *Key keeper.* docs/tutorial/08-release-artifacts.md:142-143 says a build refuses to seal
  once a rotation has followed the last sync; after `rotate --now` it does not, until it
  syncs: the kept chain's generations are both from before. A restore cut before
  `chain.json` leaves keys without a chain, and `serve --init` (cli.py:51-52) then makes a
  new ring over them: the model's operator empties the directory instead. The service's
  extension and the command line's `rotate --now` at once mint the same id twice
  (ring.py:283): with `Overlap = TRUE` `SealsOpen` fails. A torn key left by a cut
  rotation makes every backup fail its own check until that id is minted again. A backup
  from before an emergency rotation brings the compromised generation back into effect.
- *PollLoop.* `_InstallGate` promises that every reboot is followed by a boot install of
  the release, since offers are "deterministic per device"; when they are not (a lockbox
  that was not ready at the boot check-in) the camera reboots again at the next answer, the
  hour notwithstanding (`Steady = FALSE`). The loop's death forgets that the camera had
  checked in, so an exhausted camera without a hook then never reboots.
- Two publishes of one product overlap between the checks and the insert
  (publish.py:296): two releases can carry one version or one publish order.
- `_FileDisk.compact` removes the spool before renaming its tail over it.

## 7. The plan

Order: what loses cameras first, what loses data after it.

1. Done: `SlotFlash`, `SlotUpdate`, `UpdatePromise`, `StubUpdate`, `Rollout`, `Webhooks`,
   `PollLoop`, `Ownership`, `Keykeeper`, their runs, and the proofs of section 4.
2. `Download`: representation choice, redirects, `_ResumingBody`, demotion of a delta to
   the full image. Composed with `SlotUpdate`'s install through right / wrong / dropped.
3. `Publish`: two publishes of one product, and `next_publish_seq`: are releases a camera
   can be offered always ordered?
4. `Spool`: append, drain, compact and a crash between any two file operations; no record
   lost but those the budget drops.
5. The watchdog's `relax` budget under `PollLoop`: a reset in the middle of a long install
   is a power cut of `SlotUpdate`; the question is which regions can starve the feed.
6. Proofs: done for every safety property of the runs, and the stub's refinement for every
   fault but the one that breaks it. The next ones come with the modules above.

Composition: `SlotUpdate` is `PollLoop`'s installer and `Rollout`'s camera; both see it
through what it promises (`UpdatePromise`), not through its flash.
