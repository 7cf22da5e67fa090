----------------------------- MODULE Keykeeper -----------------------------
(***************************************************************************)
(* Keykeeper's ring of keys, and the projects that seal releases to it:    *)
(* generations announced ahead in a chain, each signed by the one before;  *)
(* the service that extends the chain when it is due, the command line     *)
(* that rotates at once, backups and restores; and a project's pin and     *)
(* kept chain, which follow.  Processes die between a key's file and the   *)
(* chain, and disks are lost.                                              *)
(*                                                                         *)
(* A key is a number, for its seal and its sign half: they are made and    *)
(* written together, the sign half last, and nothing tells them apart.     *)
(* A definition named M_... is a mutant: a plausible bug in the definition *)
(* below it.                                                               *)
(***************************************************************************)
EXTENDS Integers, Sequences, FiniteSetsExt

CONSTANTS
  Projects,
  Period,          \* the time between two generations
  Overlap,         \* may the command line run while the service extends?
  MaxTime,         \* bound on time
  MaxRotations,    \* bound on emergency rotations
  MaxFaults,       \* bound on crashes and losses of the disk together
  None, Torn       \* Torn: a key file cut while it was written

ASSUME KeykeeperAssumption ==
  /\ Period \in Nat \ {0} /\ Overlap \in BOOLEAN
  /\ None \notin Seq([key : Nat, by : Nat, start : Nat])
  /\ MaxTime \in Nat /\ MaxRotations \in Nat /\ MaxFaults \in Nat

VARIABLES
  now,
  chain,      \* chain.json, or None: the generations, oldest first
  pem,        \* private/: from the ids of generations to keys
  job,        \* what the service and the command line are writing, or None
  up,         \* the service is running
  extended,   \* when the service last looked whether an extension is due
  archive,    \* the last backup, or None
  pin,        \* projects' pins: a generation's id and key
  kept,       \* projects' chains, as last synced
  seals,      \* history: the generations that releases were sealed to
  minted, rotations, faults

disk == <<chain, pem>>
projects == <<pin, kept, seals>>
vars == <<now, chain, pem, job, up, extended, archive, projects, minted, rotations, faults>>

Processes == {"service", "cli"}
Generation(id, ch) == [id |-> id, key |-> ch[id].key]
Last(ch) == ch[Len(ch)]

(* The generations from the pinned one on, each signed by the one before.  *)
Verifies(ch, p) ==
  /\ p.id <= Len(ch) /\ ch[p.id].key = p.key
  /\ \A i \in p.id + 1 .. Len(ch) : ch[i].by = ch[i - 1].key

(* The newest whose time has come: newest in the chain, since an emergency *)
(* rotation's starts before the one that was announced already.            *)
InEffect(ch, first) == Max({i \in first .. Len(ch) : ch[i].start <= now} \cup {0})

Init ==
  /\ now = 0 /\ chain = None /\ pem = <<>> /\ archive = None
  /\ job = [p \in Processes |-> None] /\ up = FALSE /\ extended = 0
  /\ pin = [p \in Projects |-> None] /\ kept = [p \in Projects |-> None] /\ seals = {}
  /\ minted = 0 /\ rotations = 0 /\ faults = 0

-----------------------------------------------------------------------------
(* Writing keys, a file at a time.  A job's chain is the one it will write.*)
(* The service's jobs, and its backups, hold its lock; nothing keeps the   *)
(* command line's apart from them.                                         *)
Free(p) == job[p] = None /\ (Overlap \/ \A q \in Processes : job[q] = None)

Begin(p, kind, ch) == job' = [job EXCEPT ![p] = [kind |-> kind, chain |-> ch]]

M_DueInitOne(j) ==
  CASE j.kind = "init"   -> Len(j.chain) < 1
    [] j.kind = "extend" -> Last(j.chain).start <= now
    [] j.kind = "rotate" -> TRUE
    [] OTHER             -> FALSE

(* Another generation to make before the chain is written.                 *)
Due(j) ==
  CASE j.kind = "init"   -> Len(j.chain) < 2
    [] j.kind = "extend" -> Last(j.chain).start <= now
    [] j.kind = "rotate" -> TRUE
    [] OTHER             -> FALSE

Start(j) ==
  CASE j.kind = "init"   -> now + Len(j.chain) * Period
    [] j.kind = "extend" -> Last(j.chain).start + Period
    [] OTHER             -> now

(* A key that is made with its successor signs from memory; one that was   *)
(* announced before, or is extended in turn, from its file.                *)
Signer(j, key) ==
  IF j.chain = <<>> THEN key
  ELSE IF j.kind = "init" THEN Last(j.chain).key ELSE pem[Len(j.chain)]

M_FileKeeps(id, key) == [i \in DOMAIN pem \cup {id} |-> IF i \in DOMAIN pem THEN pem[i] ELSE key]

(* Over the file that a cut attempt left.                                  *)
File(id, key) == [i \in DOMAIN pem \cup {id} |-> IF i = id THEN key ELSE pem[i]]

(* _mint and _append.                                                      *)
Mint(p) ==
  /\ job[p] # None /\ Due(job[p])
  /\ LET j == job[p]
         key == minted + 1
         gen == [key |-> key, by |-> Signer(j, key), start |-> Start(j)]
     IN  /\ pem' = File(Len(j.chain) + 1, key)
         /\ job' = [job EXCEPT ![p] = [kind |-> IF j.kind = "rotate" THEN "rotated" ELSE j.kind,
                                       chain |-> Append(j.chain, gen)]]
  /\ minted' = minted + 1
  /\ UNCHANGED <<now, chain, up, extended, archive, projects, rotations, faults>>

(* The chain, renamed into place.  A rotation then extends it; the service *)
(* serves once its extension is done.                                      *)
Write(p) ==
  /\ job[p] # None /\ ~Due(job[p])
  /\ chain' = job[p].chain
  /\ job' = [job EXCEPT ![p] =
       IF job[p].kind = "rotated" THEN [kind |-> "extend", chain |-> job[p].chain] ELSE None]
  /\ extended' = IF p = "service" THEN now ELSE extended
  /\ up' = (up \/ p = "service")
  /\ UNCHANGED <<now, pem, archive, projects, minted, rotations, faults>>

-----------------------------------------------------------------------------
(* The command line.                                                       *)

(* Once: an operator restores a ring that is lost.                         *)
InitRing ==
  /\ chain = None /\ archive = None /\ Free("cli")
  /\ Begin("cli", "init", <<>>)
  /\ UNCHANGED <<now, disk, up, extended, archive, projects, minted, rotations, faults>>

RotateNow ==
  /\ chain # None /\ Free("cli") /\ rotations < MaxRotations
  /\ Begin("cli", "rotate", chain)
  /\ rotations' = rotations + 1
  /\ UNCHANGED <<now, disk, up, extended, archive, projects, minted, faults>>

(* Into an empty directory only: the keys, then (Write) the chain.         *)
Restore ==
  /\ archive # None /\ chain = None /\ DOMAIN pem = {} /\ Free("cli")
  /\ pem' = archive.pem
  /\ Begin("cli", "restore", archive.chain)
  /\ UNCHANGED <<now, chain, up, extended, archive, projects, minted, rotations, faults>>

(* After a restore that was cut, the operator empties the directory.       *)
Clear ==
  /\ archive # None /\ chain = None /\ DOMAIN pem # {} /\ Free("cli")
  /\ pem' = <<>>
  /\ UNCHANGED <<now, chain, job, up, extended, archive, projects, minted, rotations, faults>>

-----------------------------------------------------------------------------
(* The service.  It extends when it starts, and when the chain or a        *)
(* lockbox is asked for an hour after it last did; a tick of the clock is  *)
(* longer than that hour.                                                  *)
Extend ==
  /\ chain # None /\ Free("service")
  /\ Verifies(chain, Generation(1, chain))
  /\ IF Last(chain).start <= now
     THEN Begin("service", "extend", chain) /\ UNCHANGED <<up, extended>>
     ELSE up' = TRUE /\ extended' = now /\ UNCHANGED job
  /\ UNCHANGED <<now, disk, archive, projects, minted, rotations, faults>>

(* What is kept is what a restore will accept: every generation's key is   *)
(* there and whole, and so is any other key file.                          *)
Restorable(ch, files) ==
  /\ Verifies(ch, Generation(1, ch))
  /\ \A i \in DOMAIN files : files[i] # Torn
  /\ \A i \in 1 .. Len(ch) : i \in DOMAIN files /\ files[i] = ch[i].key

Backup ==
  /\ up /\ chain # None /\ job["service"] = None /\ Restorable(chain, pem)
  /\ archive' = [chain |-> chain, pem |-> pem]
  /\ UNCHANGED <<now, disk, job, up, extended, projects, minted, rotations, faults>>

-----------------------------------------------------------------------------
(* The projects.                                                           *)

(* [ota].keykeeper_pin is the first generation's, as `keykeeper pin` says. *)
Configure(p) ==
  /\ pin[p] = None /\ chain # None
  /\ pin' = [pin EXCEPT ![p] = Generation(1, chain)]
  /\ UNCHANGED <<now, disk, job, up, extended, archive, kept, seals, minted, rotations, faults>>

M_SyncPinsNewest(p) ==
  /\ pin[p] # None /\ up /\ chain # None /\ job["service"] = None /\ now <= extended + 1
  /\ Verifies(chain, pin[p]) /\ InEffect(chain, pin[p].id) # 0
  /\ kept' = [kept EXCEPT ![p] = chain]
  /\ pin' = [pin EXCEPT ![p] = Generation(Len(chain), chain)]
  /\ UNCHANGED <<now, disk, job, up, extended, archive, seals, minted, rotations, faults>>

(* `project keys keykeeper sync`: the chain comes through the update       *)
(* server, from a service that has extended it within the hour.            *)
Sync(p) ==
  /\ pin[p] # None /\ up /\ chain # None /\ job["service"] = None /\ now <= extended + 1
  /\ Verifies(chain, pin[p]) /\ InEffect(chain, pin[p].id) # 0
  /\ kept' = [kept EXCEPT ![p] = chain]
  /\ pin' = [pin EXCEPT ![p] = Generation(InEffect(chain, pin[p].id), chain)]
  /\ UNCHANGED <<now, disk, job, up, extended, archive, seals, minted, rotations, faults>>

M_CanSealLast(p) ==
  kept[p] # None /\ InEffect(kept[p], pin[p].id) # 0

(* A build seals while the kept chain announces a next generation.         *)
CanSeal(p) ==
  kept[p] # None /\ InEffect(kept[p], pin[p].id) \in 1 .. Len(kept[p]) - 1

Seal(p) ==
  /\ CanSeal(p)
  /\ seals' = seals \cup {Generation(InEffect(kept[p], pin[p].id), kept[p])}
  /\ UNCHANGED <<now, disk, job, up, extended, archive, pin, kept, minted, rotations, faults>>

-----------------------------------------------------------------------------
(* Bounded: jobs take less than a tick, and time begins with the ring.     *)
Tick ==
  /\ now < MaxTime /\ \A p \in Processes : job[p] = None
  /\ chain # None \/ archive # None
  /\ now' = now + 1
  /\ UNCHANGED <<disk, job, up, extended, archive, projects, minted, rotations, faults>>

(* A process ends, perhaps while it wrote a key's file.                    *)
Crash(p) ==
  /\ faults < MaxFaults /\ (job[p] # None \/ (p = "service" /\ up))
  /\ job' = [job EXCEPT ![p] = None]
  /\ up' = (up /\ p # "service")
  /\ \/ UNCHANGED pem
     \/ job[p] # None /\ Due(job[p]) /\ pem' = File(Len(job[p].chain) + 1, Torn)
  /\ faults' = faults + 1
  /\ UNCHANGED <<now, chain, extended, archive, projects, minted, rotations>>

(* The disk is lost.  "Keep a copy somewhere else": one that has the       *)
(* generation in effect.                                                   *)
LoseDisk ==
  /\ faults < MaxFaults /\ chain # None
  /\ archive # None /\ InEffect(chain, 1) <= Len(archive.chain)
  /\ chain' = None /\ pem' = <<>>
  /\ job' = [p \in Processes |-> None] /\ up' = FALSE
  /\ faults' = faults + 1
  /\ UNCHANGED <<now, extended, archive, projects, minted, rotations>>

-----------------------------------------------------------------------------
Work(p) == Mint(p) \/ Write(p)

Project(p) == Configure(p) \/ Sync(p)

Next ==
  \/ \E p \in Processes : Work(p) \/ Crash(p)
  \/ InitRing \/ RotateNow \/ Restore \/ Clear \/ Extend \/ Backup
  \/ \E p \in Projects : Project(p) \/ Seal(p)
  \/ Tick \/ LoseDisk

Spec == Init /\ [][Next]_vars

(* Whatever was begun goes on.  The service is started again when it dies, *)
(* and is asked for its chain again and again; a lost ring is restored;    *)
(* projects sync.                                                          *)
Fairness ==
  /\ \A p \in Processes : WF_vars(Work(p))
  /\ WF_vars(InitRing) /\ WF_vars(Restore) /\ WF_vars(Clear) /\ WF_vars(Extend)
  /\ \A p \in Projects : WF_vars(Project(p))

FairSpec == Spec /\ Fairness

-----------------------------------------------------------------------------
GenerationOK(g) == g.key \in 1 .. minted /\ g.by \in 1 .. minted /\ g.start \in Nat

PinOK(p) == p.id \in Nat \ {0} /\ p.key \in 1 .. minted

(* ring.py: "There are always two generations live, the current one and    *)
(* the next": a chain is never published with fewer, wherever its writing  *)
(* was cut.                                                                *)
KeykeeperTypeOK ==
  /\ \A ch \in {chain} \cup {kept[p] : p \in Projects} :
       ch # None => Len(ch) >= 2 /\ \A i \in 1 .. Len(ch) : GenerationOK(ch[i])
  /\ \A i \in DOMAIN pem : i \in Nat \ {0} /\ pem[i] \in 1 .. minted \cup {Torn}
  /\ \A p \in Projects : pin[p] # None => PinOK(pin[p])
  /\ \A s \in seals : PinOK(s)

(* "Old generations' seal keys are kept, so a release sealed before a      *)
(* rotation still installs": whatever was cut, lost and restored, the ring *)
(* holds the key of every seal a project ever made.                        *)
SealsOpen ==
  chain # None => \A s \in seals : s.id \in DOMAIN pem /\ pem[s.id] = s.key

(* docs/tutorial/08-release-artifacts.md: "A build refuses to seal once    *)
(* keykeeper has rotated since your last sync".  True of the scheduled     *)
(* rotations: a build never seals to a generation that another followed.   *)
SealsToCurrent ==
  [][rotations = 0 /\ chain # None =>
       \A s \in seals' \ seals : s.id >= InEffect(chain, 1)]_vars

(* "so publishers follow rotations without being told": every pin leads to *)
(* the ring's own chain again and again, and the project can seal.         *)
CanSealAgain ==
  \A p \in Projects :
    []<>(chain # None /\ CanSeal(p) /\ Verifies(chain, pin[p]))
=============================================================================
