-------------------------- MODULE KeykeeperProofs --------------------------
(***************************************************************************)
(* Theorems about Keykeeper, for any projects, period, times, crashes,     *)
(* losses, backups and restores: the ring is never published with fewer    *)
(* than two generations; the disk holds the key of every seal ever made;   *)
(* and no seal goes to a generation a scheduled rotation has replaced.     *)
(* They hold while the command line does not run during an extension       *)
(* (~Overlap).                                                             *)
(*                                                                         *)
(* The argument follows the base: the chain on the disk or, while it is    *)
(* lost, the one in the backup.  A base only grows, except that a loss     *)
(* falls back to the backup, and that has the generation in effect.  What  *)
(* a build may seal to is never the last generation it knows, and the one  *)
(* before it has been reached by the clock, so no loss can take it away.   *)
(***************************************************************************)
EXTENDS Keykeeper, TLAPS

Generations == [key : Nat, by : Nat, start : Nat]

Chains == Seq(Generations)

(* Of keys that have been minted.                                          *)
Minted(ch, n) == \A i \in 1 .. Len(ch) : ch[i].key \in 1 .. n /\ ch[i].by \in 1 .. n

Prefix(a, b) == Len(a) <= Len(b) /\ \A i \in 1 .. Len(a) : b[i] = a[i]

(* The key files of a chain.                                               *)
Files(ch, files) == \A i \in 1 .. Len(ch) : i \in DOMAIN files /\ files[i] = ch[i].key

FilesOK(files, n) == \A i \in DOMAIN files : i \in Nat \ {0} /\ files[i] \in 1 .. n \cup {Torn}

(* No more than the last generation's time is still to come.               *)
Ahead(ch, t) ==
  Len(ch) >= 2 /\ (ch[Len(ch)].start <= t \/ ch[Len(ch) - 1].start <= t)

(* Scheduled rotations are a period apart, and in order.                   *)
Spaced(ch) ==
  /\ \A i \in 1 .. Len(ch) - 1 : ch[i + 1].start = ch[i].start + Period
  /\ \A i, j \in 1 .. Len(ch) : i <= j => ch[i].start <= ch[j].start

(* A chain that was published, of n keys, at a time t, after r rotations.  *)
ChainOK(ch, n, t, r) ==
  ch \in Chains /\ Minted(ch, n) /\ Ahead(ch, t) /\ (r = 0 => Spaced(ch))

Made == chain # None \/ archive # None

Base == IF chain # None THEN chain ELSE archive.chain

(* Generation id of a base has that key, and its time, or a later one's,   *)
(* has come.                                                               *)
Knows(base, t, id, key) ==
  /\ id \in 1 .. Len(base) /\ base[id].key = key
  /\ \E j \in id .. Len(base) : base[j].start <= t

(* Where both reach, two chains agree on the times.                        *)
SameTimes(a, b) ==
  \A i \in 1 .. Len(a) : i <= Len(b) => a[i].start = b[i].start

(* A chain that a project keeps, and the base it came from.                *)
KeptOK(ch, base, n, t, r) ==
  /\ ChainOK(ch, n, t, r)
  /\ \A i \in 1 .. Len(ch) - 1 : Knows(base, t, i, ch[i].key)
  /\ r = 0 => SameTimes(ch, base)

-----------------------------------------------------------------------------
Counters ==
  /\ now \in Nat /\ minted \in Nat /\ rotations \in Nat /\ FilesOK(pem, minted)
  /\ DOMAIN job = Processes

ChainInv == chain # None => ChainOK(chain, minted, now, rotations) /\ Files(chain, pem)

ArchiveInv ==
  archive # None =>
    /\ ChainOK(archive.chain, minted, now, rotations) /\ Files(archive.chain, archive.pem)
    /\ FilesOK(archive.pem, minted)
    /\ chain # None => Prefix(archive.chain, chain)

(* One job at a time; what it will write goes on from what is there.       *)
JobOK(j) ==
  /\ j.chain \in Chains /\ Minted(j.chain, minted) /\ Files(j.chain, pem)
  /\ rotations = 0 => Spaced(j.chain)
  /\ j.kind \in {"init", "restore", "extend", "rotate", "rotated"}
  /\ j.kind = "init" =>
       /\ ~Made /\ Len(j.chain) <= 2
       /\ Len(j.chain) >= 1 => j.chain[1].start = now
  /\ j.kind = "restore" => chain = None /\ archive # None /\ j.chain = archive.chain
  /\ j.kind \in {"extend", "rotate", "rotated"} =>
       chain # None /\ Prefix(chain, j.chain) /\ Ahead(j.chain, now)
  /\ j.kind = "rotate" => rotations # 0
  /\ j.kind = "rotated" => rotations # 0

JobInv ==
  /\ \A p \in Processes : job[p] # None => JobOK(job[p])
  /\ \A p, q \in Processes : job[p] # None /\ job[q] # None => p = q

KeptInv ==
  /\ DOMAIN kept = Projects /\ DOMAIN pin = Projects
  /\ \A p \in Projects : pin[p] # None => PinOK(pin[p])
  /\ \A p \in Projects : kept[p] # None => Made /\ KeptOK(kept[p], Base, minted, now, rotations)
  /\ \A p \in Projects : kept[p] # None => PinOK(pin[p])

SealInv == \A s \in seals : Made /\ Knows(Base, now, s.id, s.key)

IInv == Counters /\ ChainInv /\ ArchiveInv /\ JobInv /\ KeptInv /\ SealInv

-----------------------------------------------------------------------------
(* The newest generation in effect, in a chain that is ahead.              *)
LEMMA InEffectOf ==
  ASSUME now \in Nat, NEW ch \in Chains, Ahead(ch, now), NEW first \in Nat \ {0}
  PROVE  /\ InEffect(ch, first) \in {0} \cup first .. Len(ch)
         /\ InEffect(ch, first) # 0 => ch[InEffect(ch, first)].start <= now
         /\ \A j \in first .. Len(ch) : ch[j].start <= now => j <= InEffect(ch, first)
<1>. DEFINE S == {i \in first .. Len(ch) : ch[i].start <= now} \cup {0}
<1>1. Len(ch) \in Nat  BY DEF Chains
<1>2. \E x \in S : \A y \in S : x >= y
  <2>1. CASE Len(ch) \in S
    <3>1. \A y \in S : Len(ch) >= y  BY <1>1
    <3>. QED  BY <2>1, <3>1
  <2>2. CASE Len(ch) \notin S /\ Len(ch) - 1 \in S
    <3>1. \A y \in S : Len(ch) - 1 >= y  BY <1>1, <2>2
    <3>. QED  BY <2>2, <3>1
  <2>3. CASE Len(ch) \notin S /\ Len(ch) - 1 \notin S
    <3>1. first > Len(ch) \/ first = Len(ch)
      <4>1. CASE first <= Len(ch) - 1  BY <4>1, <2>3, <1>1 DEF Ahead
      <4>. QED  BY <4>1, <1>1
    <3>2. \A y \in S : 0 >= y  BY <3>1, <1>1, <2>3
    <3>. QED  BY <3>2
  <2>. QED  BY <2>1, <2>2, <2>3
<1>3. InEffect(ch, first) = CHOOSE x \in S : \A y \in S : x >= y  BY DEF InEffect, Max
<1>4. InEffect(ch, first) \in S /\ \A y \in S : InEffect(ch, first) >= y  BY <1>2, <1>3
<1>5. InEffect(ch, first) \in {0} \cup first .. Len(ch)  BY <1>4
<1>6. InEffect(ch, first) # 0 => ch[InEffect(ch, first)].start <= now  BY <1>4
<1>7. ASSUME NEW j \in first .. Len(ch), ch[j].start <= now  PROVE j <= InEffect(ch, first)
  <2>1. j \in S  BY <1>7
  <2>. QED  BY <2>1, <1>4, <1>5, <1>1
<1>. QED  BY <1>5, <1>6, <1>7

LEMMA ChainTypes ==
  ASSUME NEW ch \in Chains
  PROVE  /\ Len(ch) \in Nat
         /\ \A i \in 1 .. Len(ch) :
              ch[i].key \in Nat /\ ch[i].by \in Nat /\ ch[i].start \in Nat
<1>1. Len(ch) \in Nat  BY DEF Chains
<1>2. ASSUME NEW i \in 1 .. Len(ch)  PROVE ch[i] \in Generations
  BY <1>1, <1>2 DEF Chains
<1>. QED  BY <1>1, <1>2 DEF Generations

LEMMA FilesMono ==
  ASSUME NEW files, NEW n \in Nat, NEW m \in Nat, n <= m, FilesOK(files, n)
  PROVE  FilesOK(files, m)
  BY DEF FilesOK

LEMMA MintedMono ==
  ASSUME NEW ch \in Chains, NEW n \in Nat, NEW m \in Nat, n <= m, Minted(ch, n)
  PROVE  Minted(ch, m)
  BY DEF Minted

LEMMA AheadMono ==
  ASSUME NEW ch \in Chains, NEW t \in Nat, NEW u \in Nat, t <= u, Ahead(ch, t)
  PROVE  Ahead(ch, u)
<1>1. Len(ch) \in Nat /\ \A i \in 1 .. Len(ch) : ch[i].start \in Nat  BY ChainTypes
<1>2. Len(ch) \in 1 .. Len(ch) /\ Len(ch) - 1 \in 1 .. Len(ch)  BY <1>1 DEF Ahead
<1>. QED  BY <1>1, <1>2 DEF Ahead

LEMMA ChainMono ==
  ASSUME NEW ch, NEW n \in Nat, NEW m \in Nat, n <= m, NEW t \in Nat, NEW u \in Nat, t <= u,
         NEW r \in Nat, NEW s \in Nat, r <= s, ChainOK(ch, n, t, r)
  PROVE  ChainOK(ch, m, u, s)
<1>1. Minted(ch, m)  BY MintedMono DEF ChainOK
<1>2. Ahead(ch, u)  BY AheadMono DEF ChainOK
<1>. QED  BY <1>1, <1>2 DEF ChainOK

(* What a base knows, a base that has grown knows, then and later.         *)
LEMMA KnowsGrown ==
  ASSUME NEW a \in Chains, NEW b \in Chains, Prefix(a, b),
         NEW t \in Nat, NEW u \in Nat, t <= u,
         NEW id, NEW k, Knows(a, t, id, k)
  PROVE  Knows(b, u, id, k)
<1>1. Len(a) \in Nat /\ Len(b) \in Nat  BY DEF Chains
<1>2. PICK j \in id .. Len(a) : a[j].start <= t  BY DEF Knows
<1>3. id \in 1 .. Len(b) /\ b[id].key = k  BY <1>1 DEF Knows, Prefix
<1>4. j \in id .. Len(b) /\ b[j] = a[j]  BY <1>1, <1>2, <1>3 DEF Prefix, Knows
<1>5. j \in 1 .. Len(a) /\ a[j].start \in Nat  BY <1>1, <1>2, <1>3, ChainTypes DEF Knows
<1>. QED  BY <1>2, <1>3, <1>4, <1>5 DEF Knows

(* And a backup that has the generation in effect knows what the lost      *)
(* chain knew.                                                             *)
LEMMA KnowsLost ==
  ASSUME now \in Nat, NEW a \in Chains, NEW b \in Chains, Ahead(b, now), Prefix(a, b),
         InEffect(b, 1) <= Len(a), NEW id, NEW k, Knows(b, now, id, k)
  PROVE  Knows(a, now, id, k)
<1>1. Len(a) \in Nat /\ Len(b) \in Nat  BY DEF Chains
<1>2. PICK j \in id .. Len(b) : b[j].start <= now  BY DEF Knows
<1>3. id \in 1 .. Len(b) /\ b[id].key = k  BY DEF Knows
<1>4. j \in 1 .. Len(b)  BY <1>1, <1>2, <1>3
<1>5. j <= InEffect(b, 1) /\ InEffect(b, 1) \in {0} \cup 1 .. Len(b)  BY <1>2, <1>4, InEffectOf
<1>6. j <= Len(a)  BY <1>5, <1>4, <1>1
<1>7. a[j] = b[j] /\ a[id] = b[id] /\ id <= Len(a)  BY <1>6, <1>3, <1>2, <1>4, <1>1 DEF Prefix
<1>. QED  BY <1>1, <1>2, <1>3, <1>6, <1>7 DEF Knows

LEMMA PrefixSelf ==
  ASSUME NEW a \in Chains  PROVE Prefix(a, a)
  BY DEF Prefix, Chains

LEMMA PrefixTrans ==
  ASSUME NEW a \in Chains, NEW b \in Chains, NEW c \in Chains, Prefix(a, b), Prefix(b, c)
  PROVE  Prefix(a, c)
<1>1. Len(a) \in Nat /\ Len(b) \in Nat /\ Len(c) \in Nat  BY DEF Chains
<1>. QED  BY <1>1 DEF Prefix

LEMMA KeptGrown ==
  ASSUME NEW ch, NEW a \in Chains, NEW b \in Chains, Prefix(a, b),
         NEW n \in Nat, NEW m \in Nat, n <= m, NEW t \in Nat, NEW u \in Nat, t <= u,
         NEW r \in Nat, NEW s \in Nat, r <= s,
         KeptOK(ch, a, n, t, r), s = 0 => Spaced(b)
  PROVE  KeptOK(ch, b, m, u, s)
<1>1. ChainOK(ch, m, u, s)  BY ChainMono DEF KeptOK
<1>2. \A i \in 1 .. Len(ch) - 1 : Knows(b, u, i, ch[i].key)
  BY KnowsGrown DEF KeptOK
<1>3. ASSUME s = 0, NEW i \in 1 .. Len(ch), i <= Len(b)  PROVE ch[i].start = b[i].start
  <2>1. SameTimes(ch, a) /\ Spaced(ch) /\ Spaced(b)  BY <1>3 DEF KeptOK, ChainOK
  <2>2. Len(ch) \in Nat /\ Len(a) \in Nat /\ Len(b) \in Nat  BY ChainTypes DEF KeptOK, ChainOK
  <2>3. CASE i <= Len(a)
    <3>1. b[i] = a[i]  BY <2>2, <2>3 DEF Prefix
    <3>. QED  BY <3>1, <2>1, <2>3 DEF SameTimes
  <2>4. CASE i > Len(a)
    <3>1. Len(ch) >= 2  BY DEF KeptOK, ChainOK, Ahead
    <3>2. Len(ch) - 1 \in 1 .. Len(a)  BY <3>1, <2>2 DEF KeptOK, Knows
    <3>3. i = Len(ch) /\ i - 1 = Len(a)  BY <3>2, <2>2, <2>4
    <3>4. ch[i - 1].start = a[i - 1].start /\ b[i - 1] = a[i - 1]
      BY <3>2, <3>3, <2>1, <2>2 DEF SameTimes, Prefix
    <3>5. i - 1 \in 1 .. Len(ch) - 1 /\ i - 1 \in 1 .. Len(b) - 1  BY <3>2, <3>3, <2>2, <1>3
    <3>6. ch[i - 1 + 1].start = ch[i - 1].start + Period
      BY <3>5, <2>1 DEF Spaced
    <3>7. b[i - 1 + 1].start = b[i - 1].start + Period
      BY <3>5, <2>1 DEF Spaced
    <3>8. i - 1 + 1 = i  BY <2>2
    <3>. QED  BY <3>4, <3>6, <3>7, <3>8
  <2>. QED  BY <2>2, <2>3, <2>4
<1>. QED  BY <1>1, <1>2, <1>3 DEF KeptOK, SameTimes

LEMMA KeptLost ==
  ASSUME NEW ch, now \in Nat, NEW a \in Chains, NEW b \in Chains, Ahead(b, now), Prefix(a, b),
         InEffect(b, 1) <= Len(a), NEW n, NEW r, KeptOK(ch, b, n, now, r)
  PROVE  KeptOK(ch, a, n, now, r)
<1>1. \A i \in 1 .. Len(ch) - 1 : Knows(a, now, i, ch[i].key)
  BY KnowsLost DEF KeptOK
<1>2. Len(ch) \in Nat /\ Len(a) \in Nat /\ Len(b) \in Nat  BY ChainTypes DEF KeptOK, ChainOK
<1>3. r = 0 => SameTimes(ch, a)  BY <1>2 DEF KeptOK, SameTimes, Prefix
<1>. QED  BY <1>1, <1>3 DEF KeptOK

(* A project that keeps the base's chain.                                  *)
LEMMA KeptNow ==
  ASSUME NEW ch, NEW n \in Nat, NEW t \in Nat, NEW r \in Nat, ChainOK(ch, n, t, r)
  PROVE  KeptOK(ch, ch, n, t, r)
<1>1. Len(ch) \in Nat /\ Len(ch) >= 2  BY ChainTypes DEF ChainOK, Ahead
<1>2. ASSUME NEW i \in 1 .. Len(ch) - 1  PROVE Knows(ch, t, i, ch[i].key)
  <2>1. i \in 1 .. Len(ch) /\ Len(ch) \in i .. Len(ch) /\ Len(ch) - 1 \in i .. Len(ch)  BY <1>1
  <2>. QED  BY <2>1 DEF Knows, ChainOK, Ahead
<1>3. SameTimes(ch, ch)  BY DEF SameTimes
<1>. QED  BY <1>2, <1>3 DEF KeptOK

-----------------------------------------------------------------------------
(* What a step does to the counters.                                       *)
Later ==
  /\ now' \in Nat /\ now <= now' /\ minted' \in Nat /\ minted <= minted'
  /\ rotations' \in Nat /\ rotations <= rotations'

LEMMA BaseOK ==
  ASSUME IInv, Made
  PROVE  ChainOK(Base, minted, now, rotations) /\ Base \in Chains
  BY DEF IInv, ChainInv, ArchiveInv, Made, Base, ChainOK

(* The projects' side holds as long as the base grows.                     *)
LEMMA BaseGrows ==
  ASSUME IInv, Later, UNCHANGED projects,
         Made => /\ Made' /\ Base' \in Chains /\ Prefix(Base, Base')
                 /\ rotations' = 0 => Spaced(Base')
  PROVE  KeptInv' /\ SealInv'
<1>1. now \in Nat /\ minted \in Nat /\ rotations \in Nat  BY DEF IInv, Counters
<1>2. PICK n, m, t, u, r, s, a, b :
        /\ n = minted /\ m = minted' /\ t = now /\ u = now' /\ r = rotations /\ s = rotations'
        /\ a = Base /\ b = Base'
  OBVIOUS
<1>3. ASSUME NEW p \in Projects, kept[p] # None
      PROVE  Made' /\ KeptOK(kept[p], Base', minted', now', rotations')
  <2>1. Made /\ KeptOK(kept[p], a, n, t, r)  BY <1>2, <1>3 DEF IInv, KeptInv
  <2>2. a \in Chains  BY <1>2, <2>1, BaseOK
  <2>3. KeptOK(kept[p], b, m, u, s)  BY <2>1, <2>2, <1>1, <1>2, KeptGrown DEF Later
  <2>. QED  BY <2>1, <2>3, <1>2
<1>4. ASSUME NEW p \in Projects, pin[p] # None  PROVE PinOK(pin[p])'
  BY <1>1, <1>4 DEF IInv, KeptInv, PinOK, Later, projects
<1>5. ASSUME NEW p \in Projects, kept[p] # None  PROVE PinOK(pin[p])'
  BY <1>1, <1>5 DEF IInv, KeptInv, PinOK, Later, projects
<1>6. KeptInv'  BY <1>3, <1>4, <1>5 DEF IInv, KeptInv, projects
<1>7. ASSUME NEW x \in seals  PROVE Made' /\ Knows(Base', now', x.id, x.key)
  <2>1. Made /\ Knows(a, t, x.id, x.key)  BY <1>2, <1>7 DEF IInv, SealInv
  <2>2. a \in Chains  BY <1>2, <2>1, BaseOK
  <2>3. Knows(b, u, x.id, x.key)  BY <2>1, <2>2, <1>1, <1>2, KnowsGrown DEF Later
  <2>. QED  BY <2>1, <2>3, <1>2
<1>8. SealInv'  BY <1>7 DEF SealInv, projects
<1>. QED  BY <1>6, <1>8

LEMMA SameBase ==
  ASSUME IInv, Later, UNCHANGED projects, UNCHANGED <<chain, archive>>
  PROVE  KeptInv' /\ SealInv'
<1>1. Made' = Made /\ Base' = Base  BY DEF Made, Base
<1>2. Made => Base \in Chains /\ Prefix(Base, Base) /\ (rotations = 0 => Spaced(Base))
  BY BaseOK, PrefixSelf DEF ChainOK
<1>3. rotations' = 0 => rotations = 0  BY DEF Later, IInv, Counters
<1>. QED  BY <1>1, <1>2, <1>3, BaseGrows

LEMMA SameArchive ==
  ASSUME IInv, Later, UNCHANGED archive,
         archive # None /\ chain' # None => Prefix(archive.chain, chain')
  PROVE  ArchiveInv'
<1>1. CASE archive = None  BY <1>1 DEF ArchiveInv
<1>2. CASE archive # None
  <2>1. now \in Nat /\ minted \in Nat /\ rotations \in Nat  BY DEF IInv, Counters
  <2>2. ChainOK(archive.chain, minted', now', rotations')
    BY <1>2, <2>1, ChainMono DEF IInv, ArchiveInv, Later
  <2>3. FilesOK(archive.pem, minted')  BY <1>2, <2>1, FilesMono DEF IInv, ArchiveInv, Later
  <2>. QED  BY <1>2, <2>2, <2>3 DEF IInv, ArchiveInv
<1>. QED  BY <1>1, <1>2

LEMMA SameChain ==
  ASSUME IInv, Later, UNCHANGED chain, chain # None => Files(chain, pem')
  PROVE  ChainInv'
<1>1. CASE chain = None  BY <1>1 DEF ChainInv
<1>2. CASE chain # None
  <2>1. now \in Nat /\ minted \in Nat /\ rotations \in Nat  BY DEF IInv, Counters
  <2>2. ChainOK(chain, minted', now', rotations')
    BY <1>2, <2>1, ChainMono DEF IInv, ChainInv, Later
  <2>. QED  BY <1>2, <2>2 DEF ChainInv
<1>. QED  BY <1>1, <1>2

(* A process begins, goes on with or ends its job while no other has one.  *)
LEMMA OneJob ==
  ASSUME Counters, NEW p \in Processes, \A q \in Processes \ {p} : job[q] = None,
         NEW j, job' = [job EXCEPT ![p] = j], j # None => JobOK(j)'
  PROVE  JobInv' /\ DOMAIN job' = Processes
<1>1. DOMAIN job' = Processes /\ job'[p] = j /\ \A q \in Processes \ {p} : job'[q] = None
  BY DEF Counters
<1>2. \A q \in Processes : job'[q] # None => q = p  BY <1>1
<1>3. ASSUME NEW q \in Processes, job'[q] # None  PROVE JobOK(job[q])'
  <2>1. q = p  BY <1>2, <1>3
  <2>2. job'[q] = j /\ j # None  BY <2>1, <1>1, <1>3
  <2>3. JobOK(j)'  BY <2>2
  <2>. QED  BY <2>2, <2>3 DEF JobOK, Made
<1>. QED  BY <1>1, <1>2, <1>3 DEF JobInv

LEMMA SameJobs ==
  ASSUME IInv, UNCHANGED <<job, pem, chain, now, minted, rotations>>,
         archive' = archive \/ chain # None
  PROVE  JobInv'
<1>1. ASSUME NEW p \in Processes, job[p] # None  PROVE JobOK(job[p])'
  <2>1. JobOK(job[p])  BY <1>1 DEF IInv, JobInv
  <2>2. CASE archive' = archive  BY <2>1, <2>2 DEF JobOK, Made
  <2>3. CASE chain # None  BY <2>1, <2>3 DEF JobOK, Made
  <2>. QED  BY <2>2, <2>3
<1>. QED  BY <1>1 DEF IInv, JobInv

-----------------------------------------------------------------------------
LEMMA InitHolds == Init => IInv
<1>. SUFFICES ASSUME Init PROVE IInv  OBVIOUS
<1>1. Counters  BY DEF Init, Counters, FilesOK
<1>2. ChainInv /\ ArchiveInv  BY DEF Init, ChainInv, ArchiveInv
<1>3. JobInv  BY DEF Init, JobInv
<1>4. KeptInv /\ SealInv  BY DEF Init, KeptInv, SealInv
<1>. QED  BY <1>1, <1>2, <1>3, <1>4 DEF IInv

(* One more generation on a chain.                                         *)
LEMMA Appended ==
  ASSUME NEW ch \in Chains, NEW g \in Generations
  PROVE  /\ Append(ch, g) \in Chains /\ Len(Append(ch, g)) = Len(ch) + 1
         /\ \A i \in 1 .. Len(ch) : Append(ch, g)[i] = ch[i]
         /\ Append(ch, g)[Len(ch) + 1] = g
         /\ Prefix(ch, Append(ch, g))
<1>1. Append(ch, g) \in Chains /\ Len(Append(ch, g)) = Len(ch) + 1
  BY DEF Chains
<1>2. \A i \in 1 .. Len(ch) : Append(ch, g)[i] = ch[i]  BY DEF Chains
<1>3. Append(ch, g)[Len(ch) + 1] = g  BY DEF Chains
<1>4. Len(ch) <= Len(Append(ch, g))  BY <1>1, ChainTypes
<1>. QED  BY <1>1, <1>2, <1>3, <1>4 DEF Prefix

LEMMA Spread ==
  ASSUME NEW ch \in Chains, NEW g \in Generations, Len(ch) >= 1, Spaced(ch),
         g.start = ch[Len(ch)].start + Period
  PROVE  Spaced(Append(ch, g))
<1>. DEFINE c2 == Append(ch, g)
<1>1. /\ c2 \in Chains /\ Len(c2) = Len(ch) + 1 /\ c2[Len(ch) + 1] = g
      /\ \A i \in 1 .. Len(ch) : c2[i] = ch[i]
  BY Appended
<1>2. Len(ch) \in Nat /\ \A i \in 1 .. Len(ch) : ch[i].start \in Nat  BY ChainTypes
<1>3. Period \in Nat  BY KeykeeperAssumption
<1>. HIDE DEF c2
<1>4. ASSUME NEW i \in 1 .. Len(c2) - 1  PROVE c2[i + 1].start = c2[i].start + Period
  <2>1. CASE i = Len(ch)  BY <2>1, <1>1, <1>2
  <2>2. CASE i # Len(ch)
    <3>1. i \in 1 .. Len(ch) - 1 /\ i \in 1 .. Len(ch) /\ i + 1 \in 1 .. Len(ch)
      BY <2>2, <1>1, <1>2
    <3>2. c2[i] = ch[i] /\ c2[i + 1] = ch[i + 1]  BY <3>1, <1>1
    <3>3. ch[i + 1].start = ch[i].start + Period  BY <3>1 DEF Spaced
    <3>. QED  BY <3>2, <3>3
  <2>. QED  BY <2>1, <2>2
<1>5. ASSUME NEW i \in 1 .. Len(c2), NEW j \in 1 .. Len(c2), i <= j
      PROVE  c2[i].start <= c2[j].start
  <2>1. CASE j <= Len(ch)
    <3>1. i \in 1 .. Len(ch) /\ j \in 1 .. Len(ch)  BY <2>1, <1>5, <1>2
    <3>. QED  BY <3>1, <1>1, <1>5 DEF Spaced
  <2>2. CASE j > Len(ch)
    <3>1. j = Len(ch) + 1 /\ c2[j] = g  BY <2>2, <1>1, <1>2
    <3>2. CASE i = j  BY <3>2, <3>1, <1>2, <1>3, Len(ch) \in 1 .. Len(ch)
    <3>3. CASE i # j
      <4>1. i \in 1 .. Len(ch) /\ Len(ch) \in 1 .. Len(ch)  BY <3>1, <3>3, <1>1, <1>2
      <4>2. ch[i].start <= ch[Len(ch)].start  BY <4>1, <1>2 DEF Spaced
      <4>. QED  BY <4>1, <4>2, <3>1, <1>1, <1>2, <1>3
    <3>. QED  BY <3>2, <3>3
  <2>. QED  BY <2>1, <2>2, <1>2
<1>. QED  BY <1>4, <1>5 DEF c2, Spaced

(* A key's file is written for a generation that comes after a chain's.    *)
LEMMA Filed ==
  ASSUME NEW ch \in Chains, Files(ch, pem), NEW n \in Nat, Len(ch) <= n, NEW k
  PROVE  Files(ch, File(n + 1, k))
<1>1. Len(ch) \in Nat  BY ChainTypes
<1>. QED  BY <1>1 DEF Files, File

LEMMA FiledOK ==
  ASSUME NEW n \in Nat, NEW m \in Nat, FilesOK(pem, m), NEW k \in 1 .. m \cup {Torn}
  PROVE  FilesOK(File(n + 1, k), m)
  BY DEF FilesOK, File

-----------------------------------------------------------------------------
LEMMA OnlyJob ==
  ASSUME IInv, NEW p \in Processes, job[p] # None
  PROVE  JobOK(job[p]) /\ \A q \in Processes \ {p} : job[q] = None
  BY DEF IInv, JobInv

(* The generation that a job makes next.                                   *)
LEMMA MintedNext ==
  ASSUME IInv, NEW p \in Processes, job[p] # None, Due(job[p]),
         NEW g, g = [key |-> minted + 1, by |-> Signer(job[p], minted + 1), start |-> Start(job[p])]
  PROVE  /\ g \in Generations /\ g.key = minted + 1 /\ g.by \in 1 .. minted + 1
         /\ job[p].kind \in {"init", "extend", "rotate"}
         /\ job[p].kind = "init" =>
              IF Len(job[p].chain) = 0 THEN g.start = now
              ELSE g.start = now + Period /\ Len(job[p].chain) = 1
         /\ job[p].kind = "extend" =>
              /\ g.start = job[p].chain[Len(job[p].chain)].start + Period
              /\ job[p].chain[Len(job[p].chain)].start <= now
         /\ job[p].kind = "rotate" => g.start = now
<1>. DEFINE j == job[p]
            ch == j.chain
<1>1. /\ JobOK(j) /\ ch \in Chains /\ now \in Nat /\ minted \in Nat /\ Period \in Nat
      /\ Len(ch) \in Nat
  BY OnlyJob, KeykeeperAssumption, ChainTypes DEF IInv, Counters, JobOK
<1>2. j.kind \in {"init", "extend", "rotate"}  BY DEF Due, JobOK
<1>3. Len(ch) # 0 => Last(ch) = ch[Len(ch)] /\ Len(ch) \in 1 .. Len(ch)
  BY <1>1 DEF Last
<1>4. CASE j.kind = "init"
  <2>0. Len(ch) < 2  BY <1>4 DEF Due
  <2>1. Len(ch) = 0 \/ Len(ch) = 1
    <3>1. \A n \in Nat : n < 2 => n = 0 \/ n = 1  OBVIOUS
    <3>2. Len(ch) \in Nat  BY <1>1
    <3>. HIDE DEF ch
    <3>. QED  BY <3>1, <3>2, <2>0
  <2>2. CASE Len(ch) = 0
    <3>1. ch = <<>>  BY <1>1, <2>2 DEF Chains
    <3>2. Signer(j, minted + 1) = minted + 1  BY <3>1 DEF Signer
    <3>3. Start(j) = now  BY <1>4, <2>2, <1>1 DEF Start
    <3>. QED  BY <3>2, <3>3, <1>1, <1>4, <2>2 DEF Generations
  <2>3. CASE Len(ch) = 1
    <3>1. ch # <<>>  BY <2>3
    <3>2. Signer(j, minted + 1) = ch[1].key  BY <3>1, <1>3, <1>4, <2>3 DEF Signer
    <3>3. Start(j) = now + Period  BY <1>4, <2>3, <1>1 DEF Start
    <3>4. ch[1].key \in 1 .. minted  BY <1>1, <2>3 DEF JobOK, Minted
    <3>. QED  BY <3>2, <3>3, <3>4, <1>1, <1>4, <2>3 DEF Generations
  <2>. QED  BY <2>1, <2>2, <2>3
<1>5. CASE j.kind \in {"extend", "rotate"}
  <2>1. Len(ch) >= 2 /\ chain # None  BY <1>1, <1>5 DEF JobOK, Ahead
  <2>2. ch # <<>>  BY <2>1
  <2>3. Signer(j, minted + 1) = pem[Len(ch)]  BY <1>5, <2>2 DEF Signer
  <2>4. pem[Len(ch)] \in 1 .. minted  BY <1>1, <1>3, <2>1 DEF JobOK, Files, Minted
  <2>5. ch[Len(ch)].start \in Nat  BY <1>1, <1>3, <2>1, ChainTypes
  <2>6. CASE j.kind = "extend"
    <3>1. Start(j) = ch[Len(ch)].start + Period  BY <2>6, <1>3, <2>1 DEF Start
    <3>2. ch[Len(ch)].start <= now  BY <2>6, <1>3, <2>1 DEF Due
    <3>. QED  BY <3>1, <3>2, <2>3, <2>4, <2>5, <2>6, <1>1 DEF Generations
  <2>7. CASE j.kind = "rotate"
    <3>1. Start(j) = now  BY <2>7 DEF Start
    <3>. QED  BY <3>1, <2>3, <2>4, <2>7, <1>1 DEF Generations
  <2>. QED  BY <1>5, <2>6, <2>7
<1>. QED  BY <1>2, <1>4, <1>5

LEMMA MintStep ==
  ASSUME IInv, NEW p \in Processes, Mint(p)
  PROVE  IInv'
<1>1. PICK j, ch, n, k : j = job[p] /\ ch = j.chain /\ n = Len(ch) /\ k = minted + 1
  OBVIOUS
<1>2. PICK g : g = [key |-> k, by |-> Signer(job[p], k), start |-> Start(job[p])]
  OBVIOUS
<1>3. PICK j2 : j2 = [kind |-> IF j.kind = "rotate" THEN "rotated" ELSE j.kind,
                      chain |-> Append(ch, g)]
  OBVIOUS
<1>4. PICK c2 : c2 = Append(ch, g)  OBVIOUS
<1>5. /\ job[p] # None /\ Due(job[p]) /\ pem' = File(n + 1, k)
      /\ job' = [job EXCEPT ![p] = j2] /\ minted' = k
      /\ UNCHANGED <<now, chain, archive, projects, rotations>>
  BY <1>1, <1>2, <1>3 DEF Mint
<1>6. /\ JobOK(j) /\ \A q \in Processes \ {p} : job[q] = None
      /\ now \in Nat /\ minted \in Nat /\ rotations \in Nat /\ FilesOK(pem, minted)
  BY <1>1, <1>5, OnlyJob DEF IInv, Counters
<1>7. /\ ch \in Chains /\ Minted(ch, minted) /\ Files(ch, pem) /\ n \in Nat
      /\ rotations = 0 => Spaced(ch)
  BY <1>6, <1>1, ChainTypes DEF JobOK
<1>8. /\ g \in Generations /\ g.key = k /\ g.by \in 1 .. k
      /\ j.kind \in {"init", "extend", "rotate"}
      /\ j.kind = "init" => IF n = 0 THEN g.start = now ELSE g.start = now + Period /\ n = 1
      /\ j.kind = "extend" => g.start = ch[n].start + Period /\ ch[n].start <= now
      /\ j.kind = "rotate" => g.start = now
  BY <1>1, <1>2, <1>5, MintedNext
<1>9. /\ c2 \in Chains /\ Len(c2) = n + 1 /\ c2[n + 1] = g /\ Prefix(ch, c2)
      /\ \A i \in 1 .. n : c2[i] = ch[i]
  BY <1>1, <1>4, <1>7, <1>8, Appended
<1>10. Later  BY <1>1, <1>5, <1>6 DEF Later
<1>11. FilesOK(pem', minted')
  <2>1. FilesOK(pem, k)  BY <1>1, <1>6, FilesMono
  <2>. QED  BY <2>1, <1>1, <1>5, <1>6, <1>7, FiledOK
<1>12. ChainInv'
  <2>1. ASSUME chain # None  PROVE Files(chain, pem')
    <3>1. Prefix(chain, ch)  BY <2>1, <1>1, <1>6, <1>8 DEF JobOK, Made
    <3>2. chain \in Chains /\ Files(chain, pem) /\ Len(chain) <= n
      BY <2>1, <3>1, <1>1 DEF IInv, ChainInv, ChainOK, Prefix
    <3>. QED  BY <3>2, <1>5, <1>7, Filed
  <2>. QED  BY <2>1, <1>5, <1>10, SameChain
<1>13. ArchiveInv'
  <2>1. archive # None /\ chain' # None => Prefix(archive.chain, chain')
    BY <1>5 DEF IInv, ArchiveInv
  <2>. QED  BY <2>1, <1>5, <1>10, SameArchive
<1>14. KeptInv' /\ SealInv'  BY <1>5, <1>10, SameBase
<1>15. JobOK(j2)'
  <2>1. j2.chain = c2 /\ j2.kind = IF j.kind = "rotate" THEN "rotated" ELSE j.kind
    BY <1>3, <1>4
  <2>2. Minted(c2, minted')
    <3>1. ASSUME NEW i \in 1 .. Len(c2)  PROVE c2[i].key \in 1 .. k /\ c2[i].by \in 1 .. k
      <4>1. CASE i = n + 1  BY <4>1, <1>1, <1>6, <1>8, <1>9
      <4>2. CASE i # n + 1
        <5>1. i \in 1 .. Len(ch)  BY <4>2, <1>1, <1>7, <1>9
        <5>2. ch[i].key \in 1 .. minted /\ ch[i].by \in 1 .. minted  BY <5>1, <1>7 DEF Minted
        <5>. QED  BY <5>1, <5>2, <1>1, <1>6, <1>9
      <4>. QED  BY <4>1, <4>2
    <3>. QED  BY <3>1, <1>5 DEF Minted
  <2>3. Files(c2, pem')
    <3>0. Len(ch) <= n  BY <1>1, <1>7
    <3>1. Files(ch, pem')  BY <3>0, <1>5, <1>7, Filed
    <3>2. n + 1 \in DOMAIN pem' /\ pem'[n + 1] = k  BY <1>5 DEF File
    <3>3. ASSUME NEW i \in 1 .. Len(c2)  PROVE i \in DOMAIN pem' /\ pem'[i] = c2[i].key
      <4>1. CASE i = n + 1  BY <4>1, <3>2, <1>8, <1>9
      <4>2. CASE i # n + 1
        <5>1. i \in 1 .. Len(ch)  BY <4>2, <1>1, <1>7, <1>9
        <5>. QED  BY <5>1, <3>1, <1>1, <1>9 DEF Files
      <4>. QED  BY <4>1, <4>2
    <3>. QED  BY <3>3 DEF Files
  <2>4. ASSUME rotations' = 0  PROVE Spaced(c2)
    <3>1. Spaced(ch) /\ j.kind # "rotate"  BY <2>4, <1>5, <1>6, <1>7 DEF JobOK
    <3>2. CASE n = 0
      <4>1. Len(c2) = 1 /\ c2[1] = g /\ g.start \in Nat  BY <3>2, <1>8, <1>9 DEF Generations
      <4>. QED  BY <4>1 DEF Spaced
    <3>3. CASE n # 0
      <4>1. j.kind = "init" => ch[n].start = now
        BY <1>1, <1>6, <1>8, <3>3 DEF JobOK
      <4>2. g.start = ch[Len(ch)].start + Period  BY <4>1, <3>1, <3>3, <1>1, <1>8
      <4>. QED  BY <4>2, <3>1, <3>3, <1>1, <1>4, <1>7, <1>8, Spread
    <3>. QED  BY <3>2, <3>3
  <2>5. j.kind = "init" =>
          /\ ~Made' /\ Len(c2) <= 2
          /\ Len(c2) >= 1 => c2[1].start = now
    <3>1. SUFFICES ASSUME j.kind = "init"
                   PROVE  ~Made' /\ Len(c2) <= 2 /\ (Len(c2) >= 1 => c2[1].start = now)
      OBVIOUS
    <3>2. ~Made /\ (n >= 1 => ch[1].start = now)  BY <3>1, <1>1, <1>6 DEF JobOK
    <3>3. (n = 0 /\ g.start = now) \/ n = 1  BY <3>1, <1>8
    <3>4. c2[1].start = now  BY <3>2, <3>3, <1>9
    <3>. QED  BY <3>2, <3>3, <3>4, <1>5, <1>9 DEF Made
  <2>6. j.kind \in {"extend", "rotate"} =>
          chain' # None /\ Prefix(chain', c2) /\ Ahead(c2, now)
    <3>1. SUFFICES ASSUME j.kind \in {"extend", "rotate"}
                   PROVE  chain' # None /\ Prefix(chain', c2) /\ Ahead(c2, now)
      OBVIOUS
    <3>2. chain # None /\ Prefix(chain, ch) /\ n >= 2  BY <3>1, <1>1, <1>6 DEF JobOK, Ahead
    <3>3. chain \in Chains  BY <3>2 DEF IInv, ChainInv, ChainOK
    <3>4. Prefix(chain, c2)  BY <3>2, <3>3, <1>7, <1>9, PrefixTrans
    <3>5. Ahead(c2, now)
      <4>1. CASE j.kind = "extend"
        <5>1. Len(c2) - 1 = n /\ n \in 1 .. n  BY <1>7, <1>9, <3>2
        <5>2. c2[Len(c2) - 1].start <= now  BY <5>1, <4>1, <1>8, <1>9
        <5>. QED  BY <5>2, <1>9, <3>2, <1>7 DEF Ahead
      <4>2. CASE j.kind = "rotate"
        <5>1. c2[Len(c2)].start <= now  BY <4>2, <1>6, <1>8, <1>9
        <5>. QED  BY <5>1, <1>9, <3>2, <1>7 DEF Ahead
      <4>. QED  BY <3>1, <4>1, <4>2
    <3>. QED  BY <1>5, <3>2, <3>4, <3>5
  <2>7. j.kind = "rotate" => rotations' # 0  BY <1>5, <1>6 DEF JobOK
  <2>. QED  BY <1>5, <1>8, <1>9, <2>1, <2>2, <2>3, <2>4, <2>5, <2>6, <2>7 DEF JobOK
<1>16. JobInv' /\ DOMAIN job' = Processes  BY <1>5, <1>6, <1>15, OneJob DEF IInv
<1>. QED  BY <1>1, <1>5, <1>6, <1>11, <1>12, <1>13, <1>14, <1>16 DEF IInv, Counters

LEMMA WriteStep ==
  ASSUME IInv, NEW p \in Processes, Write(p)
  PROVE  IInv'
<1>1. PICK j, ch : j = job[p] /\ ch = j.chain  OBVIOUS
<1>2. PICK j2 : j2 = IF j.kind = "rotated" THEN [kind |-> "extend", chain |-> ch] ELSE None
  OBVIOUS
<1>3. /\ job[p] # None /\ ~Due(job[p]) /\ chain' = ch /\ job' = [job EXCEPT ![p] = j2]
      /\ UNCHANGED <<now, pem, archive, projects, minted, rotations>>
  BY <1>1, <1>2 DEF Write
<1>4. /\ JobOK(j) /\ \A q \in Processes \ {p} : job[q] = None
      /\ now \in Nat /\ minted \in Nat /\ rotations \in Nat
  BY <1>1, <1>3, OnlyJob DEF IInv, Counters
<1>5. /\ ch \in Chains /\ Minted(ch, minted) /\ Files(ch, pem) /\ Len(ch) \in Nat
      /\ rotations = 0 => Spaced(ch)
  BY <1>4, <1>1, ChainTypes DEF JobOK
<1>6. Later  BY <1>3, <1>4 DEF Later
<1>7. ch # None  BY <1>5, KeykeeperAssumption DEF Chains, Generations
<1>8. j.kind \in {"init", "restore", "extend", "rotated"}
  BY <1>1, <1>3, <1>4 DEF Due, JobOK
<1>9. CASE j.kind = "init"
  <2>1. ~Made /\ Len(ch) >= 2 /\ Len(ch) <= 2 /\ (Len(ch) >= 1 => ch[1].start = now)
    <3>1. ~(Len(ch) < 2)  BY <1>9, <1>1, <1>3 DEF Due
    <3>2. ~Made /\ Len(ch) <= 2 /\ (Len(ch) >= 1 => ch[1].start = now)
      BY <1>9, <1>1, <1>4 DEF JobOK
    <3>. QED  BY <3>1, <3>2, <1>5
  <2>2. Ahead(ch, now)
    <3>1. Len(ch) - 1 = 1 /\ ch[1].start = now  BY <2>1, <1>5
    <3>. QED  BY <3>1, <2>1, <1>4 DEF Ahead
  <2>3. ChainInv'  BY <2>2, <1>3, <1>5 DEF ChainInv, ChainOK
  <2>4. ArchiveInv'  BY <2>1, <1>3 DEF ArchiveInv, Made
  <2>5. KeptInv' /\ SealInv'  BY <2>1, <1>3, <1>6, BaseGrows
  <2>6. j2 = None  BY <1>2, <1>9
  <2>7. JobInv' /\ DOMAIN job' = Processes  BY <2>6, <1>3, <1>4, OneJob DEF IInv
  <2>. QED  BY <1>3, <2>3, <2>4, <2>5, <2>7 DEF IInv, Counters
<1>10. CASE j.kind = "restore"
  <2>1. chain = None /\ archive # None /\ ch = archive.chain  BY <1>10, <1>1, <1>4 DEF JobOK
  <2>2. ChainOK(ch, minted, now, rotations)  BY <2>1 DEF IInv, ArchiveInv
  <2>3. ChainInv'  BY <2>2, <1>3, <1>5 DEF ChainInv
  <2>4. Prefix(archive.chain, ch)  BY <2>1, <1>5, PrefixSelf
  <2>5. ArchiveInv'  BY <2>4, <1>3, <1>6, SameArchive
  <2>6. Made' /\ Base' = ch /\ Base = ch  BY <2>1, <1>3, <1>7 DEF Made, Base
  <2>7. Prefix(ch, ch)  BY <1>5, PrefixSelf
  <2>8. KeptInv' /\ SealInv'  BY <2>6, <2>7, <1>3, <1>5, <1>6, BaseGrows
  <2>9. j2 = None  BY <1>2, <1>10
  <2>10. JobInv' /\ DOMAIN job' = Processes  BY <2>9, <1>3, <1>4, OneJob DEF IInv
  <2>. QED  BY <1>3, <2>3, <2>5, <2>8, <2>10 DEF IInv, Counters
<1>11. CASE j.kind \in {"extend", "rotated"}
  <2>1. chain # None /\ Prefix(chain, ch) /\ Ahead(ch, now)  BY <1>11, <1>1, <1>4 DEF JobOK
  <2>2. ChainInv'  BY <2>1, <1>3, <1>5 DEF ChainInv, ChainOK
  <2>3. chain \in Chains  BY <2>1 DEF IInv, ChainInv, ChainOK
  <2>4. archive # None => Prefix(archive.chain, ch)
    <3>1. ASSUME archive # None
          PROVE  archive.chain \in Chains /\ Prefix(archive.chain, chain)
      BY <3>1, <2>1 DEF IInv, ArchiveInv, ChainOK
    <3>. QED  BY <3>1, <2>1, <2>3, <1>5, PrefixTrans
  <2>5. ArchiveInv'  BY <2>4, <1>3, <1>6, SameArchive
  <2>6. Made' /\ Base' = ch /\ Base = chain  BY <2>1, <1>3, <1>7 DEF Made, Base
  <2>7. KeptInv' /\ SealInv'  BY <2>1, <2>6, <1>3, <1>5, <1>6, BaseGrows
  <2>8. j2 # None => JobOK(j2)'
    <3>1. SUFFICES ASSUME j2 # None PROVE JobOK(j2)'  OBVIOUS
    <3>2. j2.kind = "extend" /\ j2.chain = ch  BY <3>1, <1>2
    <3>3. Prefix(ch, ch)  BY <1>5, PrefixSelf
    <3>. QED  BY <3>2, <3>3, <2>1, <1>3, <1>5, <1>7 DEF JobOK
  <2>9. JobInv' /\ DOMAIN job' = Processes  BY <2>8, <1>3, <1>4, OneJob DEF IInv
  <2>. QED  BY <1>3, <2>2, <2>5, <2>7, <2>9 DEF IInv, Counters
<1>. QED  BY <1>8, <1>9, <1>10, <1>11

LEMMA CrashStep ==
  ASSUME IInv, NEW p \in Processes, Crash(p)
  PROVE  IInv'
<1>1. UNCHANGED <<now, chain, archive, projects, minted, rotations>>  BY DEF Crash
<1>2. now \in Nat /\ minted \in Nat /\ rotations \in Nat /\ FilesOK(pem, minted)
  BY DEF IInv, Counters
<1>3. Later  BY <1>1, <1>2 DEF Later
<1>4. KeptInv' /\ SealInv'  BY <1>1, <1>3, SameBase
<1>5. ArchiveInv'
  <2>1. archive # None /\ chain' # None => Prefix(archive.chain, chain')
    BY <1>1 DEF IInv, ArchiveInv
  <2>. QED  BY <2>1, <1>1, <1>3, SameArchive
<1>6. CASE pem' = pem
  <2>1. ChainInv'  BY <1>6, <1>1, <1>3, SameChain DEF IInv, ChainInv
  <2>2. JobInv' /\ DOMAIN job' = Processes
    <3>1. job' = [job EXCEPT ![p] = None] /\ DOMAIN job = Processes  BY DEF Crash, IInv, Counters
    <3>2. \A q \in Processes : job'[q] # None => q # p /\ job'[q] = job[q]  BY <3>1
    <3>3. \A q \in Processes : job[q] # None => JobOK(job[q])  BY DEF IInv, JobInv
    <3>4. ASSUME NEW q \in Processes, job'[q] # None  PROVE JobOK(job[q])'
      <4>1. JobOK(job[q]) /\ job'[q] = job[q]  BY <3>2, <3>3, <3>4
      <4>. QED  BY <4>1, <1>1, <1>6 DEF JobOK, Made
    <3>5. \A q, r \in Processes : job'[q] # None /\ job'[r] # None => q = r
      BY <3>2 DEF IInv, JobInv
    <3>. QED  BY <3>1, <3>4, <3>5 DEF JobInv
  <2>. QED  BY <1>1, <1>2, <1>4, <1>5, <1>6, <2>1, <2>2 DEF IInv, Counters
<1>7. CASE job[p] # None /\ pem' = File(Len(job[p].chain) + 1, Torn)
  <2>1. PICK j, ch, n : j = job[p] /\ ch = j.chain /\ n = Len(ch)  OBVIOUS
  <2>2. JobOK(j) /\ \A q \in Processes \ {p} : job[q] = None  BY <1>7, <2>1, OnlyJob
  <2>3. ch \in Chains  BY <2>1, <2>2 DEF JobOK
  <2>4. n \in Nat /\ pem' = File(n + 1, Torn)
    <3>1. n \in Nat  BY <2>1, <2>3, ChainTypes
    <3>2. pem' = File(n + 1, Torn)  BY <1>7, <2>1
    <3>. QED  BY <3>1, <3>2
  <2>5. FilesOK(pem', minted')  BY <2>3, <2>4, <1>1, <1>2, FiledOK
  <2>6. ASSUME chain # None  PROVE Files(chain, pem')
    <3>1. chain \in Chains /\ Files(chain, pem)  BY <2>6 DEF IInv, ChainInv, ChainOK
    <3>2. Len(chain) <= n
      <4>1. CASE j.kind \in {"extend", "rotate", "rotated"}
        BY <4>1, <2>1, <2>2 DEF JobOK, Prefix
      <4>2. CASE j.kind \in {"init", "restore"}
        BY <4>2, <2>2, <2>6 DEF JobOK, Made
      <4>. QED  BY <4>1, <4>2, <2>2 DEF JobOK
    <3>. QED  BY <3>1, <3>2, <2>3, <2>4, Filed
  <2>7. ChainInv'  BY <2>6, <1>1, <1>3, SameChain
  <2>8. job' = [job EXCEPT ![p] = None]  BY DEF Crash
  <2>9. JobInv' /\ DOMAIN job' = Processes  BY <2>2, <2>8, OneJob DEF IInv
  <2>. QED  BY <1>1, <1>2, <1>4, <1>5, <2>5, <2>7, <2>9 DEF IInv, Counters
<1>. QED  BY <1>6, <1>7 DEF Crash

(* A command, while no job is under way: what it begins, and leaves alone. *)
LEMMA BeginStep ==
  ASSUME IInv, NEW p \in Processes, \A q \in Processes : job[q] = None,
         NEW j, job' = [job EXCEPT ![p] = j], JobOK(j)',
         UNCHANGED <<now, chain, archive, projects, minted>>,
         rotations' \in Nat, rotations <= rotations',
         FilesOK(pem', minted), chain # None => pem' = pem
  PROVE  IInv'
<1>1. now \in Nat /\ minted \in Nat /\ rotations \in Nat  BY DEF IInv, Counters
<1>2. Later  BY <1>1 DEF Later
<1>3. KeptInv' /\ SealInv'  BY <1>2, SameBase
<1>4. ArchiveInv'
  <2>1. archive # None /\ chain' # None => Prefix(archive.chain, chain')
    BY DEF IInv, ArchiveInv
  <2>. QED  BY <2>1, <1>2, SameArchive
<1>5. ChainInv'  BY <1>2, SameChain DEF IInv, ChainInv
<1>6. JobInv' /\ DOMAIN job' = Processes  BY OneJob DEF IInv
<1>. QED  BY <1>1, <1>3, <1>4, <1>5, <1>6 DEF IInv, Counters

LEMMA InitRingStep ==
  ASSUME ~Overlap, IInv, InitRing
  PROVE  IInv'
<1>1. PICK j : j = [kind |-> "init", chain |-> <<>>]  OBVIOUS
<1>2. /\ \A q \in Processes : job[q] = None
      /\ job' = [job EXCEPT !["cli"] = j] /\ chain = None /\ archive = None
      /\ UNCHANGED <<now, pem, chain, archive, projects, minted, rotations>>
  BY <1>1 DEF InitRing, Free, Begin, disk
<1>3. JobOK(j)'
  <2>1. j.kind = "init" /\ j.chain = <<>> /\ Len(j.chain) = 0  BY <1>1
  <2>2. j.chain \in Chains  BY <2>1 DEF Chains
  <2>3. Minted(j.chain, minted') /\ Files(j.chain, pem') /\ Spaced(j.chain)
    BY <2>1 DEF Minted, Files, Spaced
  <2>. QED  BY <2>1, <2>2, <2>3, <1>2 DEF JobOK, Made
<1>4. rotations' \in Nat /\ rotations <= rotations' /\ FilesOK(pem', minted)
  BY <1>2 DEF IInv, Counters
<1>5. "cli" \in Processes  BY DEF Processes
<1>. QED  BY <1>2, <1>3, <1>4, <1>5, BeginStep

(* A job on the chain that is there.                                       *)
LEMMA GoesOn ==
  ASSUME IInv, chain # None, UNCHANGED <<now, chain, pem, archive, minted>>,
         NEW j, j.chain = chain, j.kind \in {"extend", "rotate"},
         rotations' = 0 => rotations = 0, j.kind = "rotate" => rotations' # 0
  PROVE  JobOK(j)'
<1>1. ChainOK(chain, minted, now, rotations) /\ Files(chain, pem)  BY DEF IInv, ChainInv
<1>2. Prefix(chain, chain)  BY <1>1, PrefixSelf DEF ChainOK
<1>. QED  BY <1>1, <1>2 DEF JobOK, ChainOK

LEMMA RotateNowStep ==
  ASSUME ~Overlap, IInv, RotateNow
  PROVE  IInv'
<1>1. PICK j : j = [kind |-> "rotate", chain |-> chain]  OBVIOUS
<1>2. /\ \A q \in Processes : job[q] = None
      /\ job' = [job EXCEPT !["cli"] = j] /\ chain # None /\ rotations' = rotations + 1
      /\ UNCHANGED <<now, pem, chain, archive, projects, minted>>
  BY <1>1 DEF RotateNow, Free, Begin, disk
<1>3. rotations' \in Nat /\ rotations' # 0 /\ rotations <= rotations' /\ FilesOK(pem', minted)
  BY <1>2 DEF IInv, Counters
<1>4. JobOK(j)'  BY <1>1, <1>2, <1>3, GoesOn
<1>5. "cli" \in Processes  BY DEF Processes
<1>. QED  BY <1>2, <1>3, <1>4, <1>5, BeginStep

LEMMA RestoreStep ==
  ASSUME ~Overlap, IInv, Restore
  PROVE  IInv'
<1>1. PICK j : j = [kind |-> "restore", chain |-> archive.chain]  OBVIOUS
<1>2. /\ \A q \in Processes : job[q] = None
      /\ job' = [job EXCEPT !["cli"] = j] /\ chain = None /\ archive # None
      /\ pem' = archive.pem
      /\ UNCHANGED <<now, chain, archive, projects, minted, rotations>>
  BY <1>1 DEF Restore, Free, Begin
<1>3. /\ ChainOK(archive.chain, minted, now, rotations)
      /\ Files(archive.chain, archive.pem) /\ FilesOK(archive.pem, minted)
  BY <1>2 DEF IInv, ArchiveInv
<1>4. JobOK(j)'  BY <1>1, <1>2, <1>3 DEF JobOK, ChainOK
<1>5. rotations' \in Nat /\ rotations <= rotations' /\ FilesOK(pem', minted)
  BY <1>2, <1>3 DEF IInv, Counters
<1>6. "cli" \in Processes  BY DEF Processes
<1>. QED  BY <1>2, <1>4, <1>5, <1>6, BeginStep

LEMMA ExtendStep ==
  ASSUME ~Overlap, IInv, Extend
  PROVE  IInv'
<1>1. /\ \A q \in Processes : job[q] = None
      /\ chain # None /\ UNCHANGED <<now, pem, chain, archive, projects, minted, rotations>>
  BY DEF Extend, Free, disk
<1>2. rotations' \in Nat /\ rotations <= rotations' /\ FilesOK(pem', minted)
  BY <1>1 DEF IInv, Counters
<1>3. CASE Last(chain).start <= now
  <2>1. PICK j : j = [kind |-> "extend", chain |-> chain]  OBVIOUS
  <2>2. job' = [job EXCEPT !["service"] = j]  BY <1>3, <2>1 DEF Extend, Begin
  <2>3. JobOK(j)'  BY <1>1, <2>1, GoesOn
  <2>4. "service" \in Processes  BY DEF Processes
  <2>. QED  BY <1>1, <1>2, <2>2, <2>3, <2>4, BeginStep
<1>4. CASE ~(Last(chain).start <= now)
  <2>1. UNCHANGED job  BY <1>4 DEF Extend
  <2>2. Later  BY <1>1 DEF Later, IInv, Counters
  <2>3. KeptInv' /\ SealInv'  BY <1>1, <2>2, SameBase
  <2>4. ArchiveInv'  BY <1>1, <2>2, SameArchive DEF IInv, ArchiveInv
  <2>5. ChainInv'  BY <1>1, <2>2, SameChain DEF IInv, ChainInv
  <2>6. JobInv'  BY <1>1, <2>1 DEF JobInv
  <2>. QED  BY <1>1, <2>1, <2>3, <2>4, <2>5, <2>6 DEF IInv, Counters
<1>. QED  BY <1>3, <1>4

LEMMA ClearStep ==
  ASSUME ~Overlap, IInv, Clear
  PROVE  IInv'
<1>1. /\ \A q \in Processes : job[q] = None
      /\ chain = None /\ pem' = <<>>
      /\ UNCHANGED <<now, chain, archive, projects, minted, rotations, job>>
  BY DEF Clear, Free
<1>2. Later  BY <1>1 DEF Later, IInv, Counters
<1>3. KeptInv' /\ SealInv'  BY <1>1, <1>2, SameBase
<1>4. ArchiveInv'  BY <1>1, <1>2, SameArchive DEF IInv, ArchiveInv
<1>5. ChainInv'  BY <1>1 DEF ChainInv
<1>6. JobInv'  BY <1>1 DEF JobInv
<1>7. FilesOK(pem', minted')  BY <1>1 DEF FilesOK
<1>. QED  BY <1>1, <1>3, <1>4, <1>5, <1>6, <1>7 DEF IInv, Counters

-----------------------------------------------------------------------------
LEMMA BackupStep ==
  ASSUME IInv, Backup
  PROVE  IInv'
<1>1. /\ chain # None /\ Restorable(chain, pem)
      /\ archive' = [chain |-> chain, pem |-> pem]
      /\ UNCHANGED <<now, chain, pem, job, projects, minted, rotations>>
  BY DEF Backup, disk
<1>2. Later  BY <1>1 DEF Later, IInv, Counters
<1>3. ChainOK(chain, minted, now, rotations) /\ Files(chain, pem)  BY <1>1 DEF IInv, ChainInv
<1>4. ChainInv'  BY <1>1, <1>2, <1>3, SameChain
<1>5. Prefix(chain, chain)  BY <1>3, PrefixSelf DEF ChainOK
<1>6. ArchiveInv'
  <2>1. archive'.chain = chain /\ archive'.pem = pem /\ FilesOK(pem, minted)
    BY <1>1 DEF IInv, Counters
  <2>. QED  BY <2>1, <1>1, <1>3, <1>5 DEF ArchiveInv
<1>7. KeptInv' /\ SealInv'
  <2>1. Made' /\ Base' = chain /\ Base = chain  BY <1>1 DEF Made, Base
  <2>. QED  BY <2>1, <1>1, <1>2, <1>3, <1>5, BaseGrows DEF ChainOK
<1>8. JobInv'  BY <1>1, SameJobs
<1>. QED  BY <1>1, <1>4, <1>6, <1>7, <1>8 DEF IInv, Counters

(* The ring's side is left alone by the projects.                          *)
LEMMA RingAlone ==
  ASSUME IInv, UNCHANGED <<now, chain, pem, job, archive, minted, rotations>>
  PROVE  Counters' /\ ChainInv' /\ ArchiveInv' /\ JobInv'
<1>1. Later  BY DEF Later, IInv, Counters
<1>2. ChainInv'  BY <1>1, SameChain DEF IInv, ChainInv
<1>3. ArchiveInv'  BY <1>1, SameArchive DEF IInv, ArchiveInv
<1>4. JobInv'  BY SameJobs
<1>. QED  BY <1>2, <1>3, <1>4 DEF IInv, Counters

LEMMA ConfigureStep ==
  ASSUME IInv, NEW p \in Projects, Configure(p)
  PROVE  IInv'
<1>1. /\ pin[p] = None /\ chain # None /\ pin' = [pin EXCEPT ![p] = Generation(1, chain)]
      /\ UNCHANGED <<now, chain, pem, job, archive, kept, seals, minted, rotations>>
  BY DEF Configure, disk
<1>2. Counters' /\ ChainInv' /\ ArchiveInv' /\ JobInv'  BY <1>1, RingAlone
<1>3. PinOK(Generation(1, chain))
  <2>1. chain \in Chains /\ Minted(chain, minted) /\ Len(chain) >= 2
    BY <1>1 DEF IInv, ChainInv, ChainOK, Ahead
  <2>2. 1 \in 1 .. Len(chain)  BY <2>1, ChainTypes
  <2>. QED  BY <2>1, <2>2 DEF Generation, PinOK, Minted
<1>4. KeptInv'
  <2>1. DOMAIN pin = Projects /\ DOMAIN kept = Projects  BY DEF IInv, KeptInv
  <2>2. \A q \in Projects : pin'[q] = IF q = p THEN Generation(1, chain) ELSE pin[q]
    BY <1>1, <2>1
  <2>3. ASSUME NEW q \in Projects, pin'[q] # None  PROVE PinOK(pin[q])'
    BY <1>1, <1>3, <2>2, <2>3 DEF IInv, KeptInv, PinOK
  <2>4. ASSUME NEW q \in Projects, kept'[q] # None
        PROVE  /\ Made' /\ KeptOK(kept'[q], Base', minted', now', rotations')
               /\ PinOK(pin[q])'
    <3>1. /\ Made /\ KeptOK(kept[q], Base, minted, now, rotations) /\ PinOK(pin[q])
      BY <1>1, <2>4 DEF IInv, KeptInv
    <3>2. PinOK(pin[q])'  BY <1>1, <1>3, <2>2, <3>1 DEF PinOK
    <3>3. Made' /\ Base' = Base  BY <3>1, <1>1 DEF Made, Base
    <3>. QED  BY <1>1, <3>1, <3>2, <3>3
  <2>. QED  BY <1>1, <2>1, <2>3, <2>4 DEF KeptInv
<1>5. SealInv'  BY <1>1 DEF IInv, SealInv, Made, Base
<1>. QED  BY <1>2, <1>4, <1>5 DEF IInv

LEMMA SyncStep ==
  ASSUME IInv, NEW p \in Projects, Sync(p)
  PROVE  IInv'
<1>1. PICK e : e = InEffect(chain, pin[p].id)  OBVIOUS
<1>2. /\ pin[p] # None /\ chain # None /\ e # 0
      /\ kept' = [kept EXCEPT ![p] = chain]
      /\ pin' = [pin EXCEPT ![p] = Generation(e, chain)]
      /\ UNCHANGED <<now, chain, pem, job, archive, seals, minted, rotations>>
  BY <1>1 DEF Sync, disk
<1>3. Counters' /\ ChainInv' /\ ArchiveInv' /\ JobInv'  BY <1>2, RingAlone
<1>4. /\ ChainOK(chain, minted, now, rotations)
      /\ now \in Nat /\ minted \in Nat /\ rotations \in Nat
  BY <1>2 DEF IInv, ChainInv, Counters
<1>5. chain \in Chains /\ Minted(chain, minted) /\ Ahead(chain, now)  BY <1>4 DEF ChainOK
<1>6. pin[p].id \in Nat \ {0}  BY <1>2 DEF IInv, KeptInv, PinOK
<1>7. e \in 1 .. Len(chain)
  <2>1. e \in {0} \cup pin[p].id .. Len(chain)  BY <1>1, <1>4, <1>5, <1>6, InEffectOf
  <2>2. Len(chain) \in Nat  BY <1>5, ChainTypes
  <2>. QED  BY <2>1, <2>2, <1>2, <1>6
<1>8. PinOK(Generation(e, chain))  BY <1>5, <1>7 DEF Generation, PinOK, Minted
<1>9. KeptOK(chain, chain, minted, now, rotations)  BY <1>4, KeptNow
<1>10. Made /\ Base = chain /\ Made' /\ Base' = chain  BY <1>2 DEF Made, Base
<1>11. KeptInv'
  <2>1. DOMAIN pin = Projects /\ DOMAIN kept = Projects  BY DEF IInv, KeptInv
  <2>2. \A q \in Projects : /\ pin'[q] = IF q = p THEN Generation(e, chain) ELSE pin[q]
                            /\ kept'[q] = IF q = p THEN chain ELSE kept[q]
    BY <1>2, <2>1
  <2>3. ASSUME NEW q \in Projects, pin'[q] # None  PROVE PinOK(pin[q])'
    BY <1>2, <1>8, <2>2, <2>3 DEF IInv, KeptInv, PinOK
  <2>4. ASSUME NEW q \in Projects, kept'[q] # None
        PROVE  KeptOK(kept'[q], Base', minted', now', rotations')
    <3>1. CASE q = p  BY <3>1, <1>2, <1>9, <1>10, <2>2
    <3>2. CASE q # p
      <4>1. KeptOK(kept[q], Base, minted, now, rotations)
        BY <3>2, <2>2, <2>4 DEF IInv, KeptInv
      <4>. QED  BY <4>1, <3>2, <1>2, <1>10, <2>2
    <3>. QED  BY <3>1, <3>2
  <2>5. ASSUME NEW q \in Projects, kept'[q] # None  PROVE PinOK(pin[q])'
    BY <1>2, <1>8, <2>2, <2>5 DEF IInv, KeptInv, PinOK
  <2>. QED  BY <1>2, <1>10, <2>1, <2>3, <2>4, <2>5 DEF KeptInv
<1>12. SealInv'  BY <1>2, <1>10 DEF IInv, SealInv
<1>. QED  BY <1>3, <1>11, <1>12 DEF IInv

(* What a project seals to, from a chain it keeps.                         *)
LEMMA Sealed ==
  ASSUME IInv, NEW p \in Projects, Seal(p),
         NEW e, e = InEffect(kept[p], pin[p].id)
  PROVE  /\ Made /\ KeptOK(kept[p], Base, minted, now, rotations)
         /\ pin[p].id \in Nat \ {0} /\ e \in 1 .. Len(kept[p]) - 1
         /\ seals' = seals \cup {Generation(e, kept[p])}
         /\ UNCHANGED <<now, chain, pem, job, archive, pin, kept, minted, rotations>>
  BY DEF IInv, KeptInv, Seal, CanSeal, PinOK, disk

LEMMA SealStep ==
  ASSUME IInv, NEW p \in Projects, Seal(p)
  PROVE  IInv'
<1>1. PICK e : e = InEffect(kept[p], pin[p].id)  OBVIOUS
<1>2. /\ Made /\ KeptOK(kept[p], Base, minted, now, rotations)
      /\ e \in 1 .. Len(kept[p]) - 1
      /\ seals' = seals \cup {Generation(e, kept[p])}
      /\ UNCHANGED <<now, chain, pem, job, archive, pin, kept, minted, rotations>>
  BY <1>1, Sealed
<1>3. Counters' /\ ChainInv' /\ ArchiveInv' /\ JobInv'  BY <1>2, RingAlone
<1>4. Made' = Made /\ Base' = Base  BY <1>2 DEF Made, Base
<1>5. KeptInv'  BY <1>2, <1>4 DEF IInv, KeptInv, PinOK
<1>6. SealInv'
  <2>1. Knows(Base, now, e, kept[p][e].key)  BY <1>2 DEF KeptOK
  <2>2. ASSUME NEW s \in seals'  PROVE Knows(Base, now, s.id, s.key)
    <3>1. CASE s \in seals  BY <3>1 DEF IInv, SealInv
    <3>2. CASE s = Generation(e, kept[p])  BY <3>2, <2>1 DEF Generation
    <3>. QED  BY <1>2, <3>1, <3>2
  <2>. QED  BY <2>2, <1>2, <1>4 DEF SealInv
<1>. QED  BY <1>3, <1>5, <1>6 DEF IInv

LEMMA TickStep ==
  ASSUME IInv, Tick
  PROVE  IInv'
<1>1. /\ \A q \in Processes : job[q] = None
      /\ now' = now + 1
      /\ UNCHANGED <<chain, pem, job, archive, projects, minted, rotations>>
  BY DEF Tick, disk
<1>2. Later  BY <1>1 DEF Later, IInv, Counters
<1>3. KeptInv' /\ SealInv'  BY <1>1, <1>2, SameBase
<1>4. ArchiveInv'  BY <1>1, <1>2, SameArchive DEF IInv, ArchiveInv
<1>5. ChainInv'  BY <1>1, <1>2, SameChain DEF IInv, ChainInv
<1>6. JobInv'  BY <1>1 DEF JobInv
<1>. QED  BY <1>1, <1>2, <1>3, <1>4, <1>5, <1>6 DEF IInv, Counters, Later

(* The base falls back to the backup.                                      *)
LEMMA LoseDiskStep ==
  ASSUME IInv, LoseDisk
  PROVE  IInv'
<1>1. /\ chain # None /\ archive # None /\ InEffect(chain, 1) <= Len(archive.chain)
      /\ chain' = None /\ pem' = <<>> /\ job' = [q \in Processes |-> None]
      /\ UNCHANGED <<now, archive, projects, minted, rotations>>
  BY DEF LoseDisk
<1>2. now \in Nat /\ minted \in Nat /\ rotations \in Nat  BY DEF IInv, Counters
<1>3. Later  BY <1>1, <1>2 DEF Later
<1>4. ArchiveInv'  BY <1>1, <1>3, SameArchive
<1>5. ChainInv' /\ JobInv' /\ Counters'  BY <1>1, <1>2 DEF ChainInv, JobInv, Counters, FilesOK
<1>6. PICK a, b, t, n, r : /\ a = archive.chain /\ b = chain /\ t = now /\ n = minted
                           /\ r = rotations
  OBVIOUS
<1>7. a \in Chains /\ b \in Chains /\ Ahead(b, now) /\ Prefix(a, b)
  BY <1>1, <1>6 DEF IInv, ChainInv, ArchiveInv, ChainOK
<1>8. InEffect(b, 1) <= Len(a)  BY <1>1, <1>6
<1>9. Made' /\ Base' = a /\ Base = b  BY <1>1, <1>6 DEF Made, Base
<1>10. KeptInv'
  <2>1. ASSUME NEW p \in Projects, kept[p] # None
        PROVE  KeptOK(kept[p], a, minted, now, rotations)
    <3>1. KeptOK(kept[p], b, minted, now, rotations)  BY <2>1, <1>9 DEF IInv, KeptInv
    <3>. QED  BY <3>1, <1>2, <1>7, <1>8, KeptLost
  <2>. QED  BY <2>1, <1>1, <1>9 DEF IInv, KeptInv, PinOK, projects
<1>11. SealInv'
  <2>1. ASSUME NEW s \in seals  PROVE Knows(a, now, s.id, s.key)
    <3>1. Knows(b, now, s.id, s.key)  BY <2>1, <1>9 DEF IInv, SealInv
    <3>. QED  BY <3>1, <1>2, <1>7, <1>8, KnowsLost
  <2>. QED  BY <2>1, <1>1, <1>9 DEF SealInv, projects
<1>. QED  BY <1>4, <1>5, <1>10, <1>11 DEF IInv

LEMMA StutterStep ==
  ASSUME IInv, UNCHANGED vars
  PROVE  IInv'
<1>1. UNCHANGED <<now, chain, pem, job, archive, projects, minted, rotations>>
  BY DEF vars, disk
<1>2. Counters' /\ ChainInv' /\ ArchiveInv' /\ JobInv'  BY <1>1, RingAlone
<1>3. Later  BY <1>1 DEF Later, IInv, Counters
<1>4. KeptInv' /\ SealInv'  BY <1>1, <1>3, SameBase
<1>. QED  BY <1>2, <1>4 DEF IInv

LEMMA NextHolds ==
  ASSUME ~Overlap, IInv, [Next]_vars
  PROVE  IInv'
<1>1. CASE UNCHANGED vars  BY <1>1, StutterStep
<1>2. ASSUME NEW p \in Processes, Work(p) \/ Crash(p)  PROVE IInv'
  BY <1>2, MintStep, WriteStep, CrashStep DEF Work
<1>3. ASSUME NEW p \in Projects, Project(p) \/ Seal(p)  PROVE IInv'
  BY <1>3, ConfigureStep, SyncStep, SealStep DEF Project
<1>4. CASE InitRing \/ RotateNow \/ Restore \/ Clear \/ Extend \/ Backup
  BY <1>4, InitRingStep, RotateNowStep, RestoreStep, ClearStep, ExtendStep, BackupStep
<1>5. CASE Tick \/ LoseDisk  BY <1>5, TickStep, LoseDiskStep
<1>. QED  BY <1>1, <1>2, <1>3, <1>4, <1>5 DEF Next

LEMMA Inductive == ~Overlap => (Spec => []IInv)
<1>1. Init => IInv  BY InitHolds
<1>2. ~Overlap => (IInv /\ [Next]_vars => IInv')  BY NextHolds
<1>3. SUFFICES ASSUME ~Overlap PROVE Spec => []IInv  OBVIOUS
<1>4. IInv /\ [Next]_vars => IInv'  BY <1>2, <1>3
<1>. QED  BY <1>1, <1>4, PTL DEF Spec

-----------------------------------------------------------------------------
LEMMA InvTypes == IInv => KeykeeperTypeOK
<1>. SUFFICES ASSUME IInv PROVE KeykeeperTypeOK  OBVIOUS
<1>1. ASSUME NEW ch, ChainOK(ch, minted, now, rotations)
      PROVE  Len(ch) >= 2 /\ \A i \in 1 .. Len(ch) : GenerationOK(ch[i])
  <2>1. ch \in Chains /\ Minted(ch, minted) /\ Ahead(ch, now)  BY <1>1 DEF ChainOK
  <2>2. \A i \in 1 .. Len(ch) : ch[i].start \in Nat  BY <2>1, ChainTypes
  <2>. QED  BY <2>1, <2>2 DEF Ahead, Minted, GenerationOK
<1>2. chain # None => ChainOK(chain, minted, now, rotations)  BY DEF IInv, ChainInv
<1>3. \A p \in Projects : kept[p] # None => ChainOK(kept[p], minted, now, rotations)
  BY DEF IInv, KeptInv, KeptOK
<1>4. \A ch \in {chain} \cup {kept[p] : p \in Projects} :
        ch # None => Len(ch) >= 2 /\ \A i \in 1 .. Len(ch) : GenerationOK(ch[i])
  BY <1>1, <1>2, <1>3
<1>5. \A i \in DOMAIN pem : i \in Nat \ {0} /\ pem[i] \in 1 .. minted \cup {Torn}
  BY DEF IInv, Counters, FilesOK
<1>6. \A p \in Projects : pin[p] # None => PinOK(pin[p])  BY DEF IInv, KeptInv
<1>7. ASSUME NEW s \in seals  PROVE PinOK(s)
  <2>1. Made /\ Knows(Base, now, s.id, s.key)  BY <1>7 DEF IInv, SealInv
  <2>2. Base \in Chains /\ Minted(Base, minted)  BY <2>1, BaseOK DEF ChainOK
  <2>3. s.id \in 1 .. Len(Base) /\ Base[s.id].key = s.key  BY <2>1 DEF Knows
  <2>4. Len(Base) \in Nat  BY <2>2, ChainTypes
  <2>. QED  BY <2>2, <2>3, <2>4 DEF PinOK, Minted
<1>. QED  BY <1>4, <1>5, <1>6, <1>7 DEF KeykeeperTypeOK

(* A chain is never published with fewer than two generations, each key in *)
(* it and on the disk is one that was minted, or a torn file's, and so are *)
(* those of every pin, kept chain and seal.                                *)
THEOREM RingTypes == ~Overlap => (Spec => []KeykeeperTypeOK)
<1>1. ~Overlap => (Spec => []IInv)  BY Inductive
<1>2. IInv => KeykeeperTypeOK  BY InvTypes
<1>. QED  BY <1>1, <1>2, PTL

LEMMA InvOpens == IInv => SealsOpen
<1>. SUFFICES ASSUME IInv, chain # None, NEW s \in seals
              PROVE  s.id \in DOMAIN pem /\ pem[s.id] = s.key
  BY DEF SealsOpen
<1>1. Base = chain  BY DEF Base
<1>2. s.id \in 1 .. Len(chain) /\ chain[s.id].key = s.key
  BY <1>1 DEF IInv, SealInv, Knows
<1>. QED  BY <1>2 DEF IInv, ChainInv, Files

(* Whatever was cut, lost and restored, the disk holds the key of every    *)
(* seal a project ever made, once there is a ring.                         *)
THEOREM OldSealsOpen == ~Overlap => (Spec => []SealsOpen)
<1>1. ~Overlap => (Spec => []IInv)  BY Inductive
<1>2. IInv => SealsOpen  BY InvOpens
<1>. QED  BY <1>1, <1>2, PTL

(* A build seals to the newest generation it knows to be in effect, and it *)
(* knows the next: the ring's next starts at the same time.                *)
LEMMA SealsNewest ==
  ASSUME IInv, NEW p \in Projects, Seal(p), rotations = 0, chain # None,
         NEW s \in seals' \ seals
  PROVE  s.id >= InEffect(chain, 1)
<1>1. PICK e, ch, b, g : /\ e = InEffect(kept[p], pin[p].id) /\ ch = kept[p]
                         /\ b = chain /\ g = InEffect(chain, 1)
  OBVIOUS
<1>2. /\ KeptOK(ch, Base, minted, now, rotations) /\ pin[p].id \in Nat \ {0}
      /\ e \in 1 .. Len(ch) - 1 /\ seals' = seals \cup {Generation(e, ch)}
  BY <1>1, Sealed
<1>3. Base = b /\ ChainOK(b, minted, now, rotations) /\ now \in Nat
  BY <1>1 DEF Base, IInv, ChainInv, Counters
<1>4. /\ ch \in Chains /\ Ahead(ch, now) /\ SameTimes(ch, b)
      /\ b \in Chains /\ Ahead(b, now) /\ Spaced(b)
  BY <1>2, <1>3 DEF KeptOK, ChainOK
<1>5. /\ Len(ch) \in Nat /\ \A i \in 1 .. Len(ch) : ch[i].start \in Nat
      /\ Len(b) \in Nat /\ \A i \in 1 .. Len(b) : b[i].start \in Nat
  BY <1>4, ChainTypes
<1>6. s.id = e  BY <1>2 DEF Generation
<1>7. e \in {0} \cup pin[p].id .. Len(ch)
      /\ \A j \in pin[p].id .. Len(ch) : ch[j].start <= now => j <= e
  BY <1>1, <1>2, <1>3, <1>4, InEffectOf
<1>8. ~(ch[e + 1].start <= now)
  <2>1. e + 1 \in pin[p].id .. Len(ch)  BY <1>2, <1>5, <1>7
  <2>2. ~(e + 1 <= e)  BY <1>2
  <2>. QED  BY <1>7, <2>1, <2>2
<1>9. g \in {0} \cup 1 .. Len(b) /\ (g # 0 => b[g].start <= now)
  BY <1>1, <1>3, <1>4, InEffectOf
<1>10. ASSUME g > e  PROVE FALSE
  <2>1. g \in 1 .. Len(b) /\ e + 1 \in 1 .. Len(b) /\ e + 1 \in 1 .. Len(ch) /\ e + 1 <= g
    BY <1>2, <1>5, <1>9, <1>10
  <2>2. ch[e + 1].start = b[e + 1].start  BY <2>1, <1>4 DEF SameTimes
  <2>3. b[e + 1].start <= b[g].start  BY <2>1, <1>4 DEF Spaced
  <2>4. b[g].start <= now  BY <2>1, <1>9
  <2>. QED  BY <1>3, <1>5, <1>8, <2>1, <2>2, <2>3, <2>4
<1>11. e \in Nat /\ g \in Nat  BY <1>2, <1>5, <1>9
<1>. QED  BY <1>1, <1>6, <1>10, <1>11

LEMMA StepSeals ==
  ASSUME IInv, [Next]_vars, rotations = 0, chain # None, NEW s \in seals' \ seals
  PROVE  s.id >= InEffect(chain, 1)
<1>1. ASSUME NEW p \in Projects, Seal(p)  PROVE s.id >= InEffect(chain, 1)
  BY <1>1, SealsNewest
<1>2. CASE UNCHANGED vars  BY <1>2 DEF vars, projects
<1>3. ASSUME NEW p \in Processes, Work(p) \/ Crash(p)  PROVE FALSE
  BY <1>3 DEF Work, Mint, Write, Crash, projects
<1>4. ASSUME NEW p \in Projects, Project(p)  PROVE FALSE
  BY <1>4 DEF Project, Configure, Sync
<1>5. CASE InitRing \/ RotateNow \/ Restore \/ Clear \/ Extend \/ Backup
  BY <1>5 DEF InitRing, RotateNow, Restore, Clear, Extend, Backup, projects
<1>6. CASE Tick \/ LoseDisk  BY <1>6 DEF Tick, LoseDisk, projects
<1>. QED  BY <1>1, <1>2, <1>3, <1>4, <1>5, <1>6 DEF Next

(* Until an emergency rotation, no build seals to a generation that the    *)
(* ring has replaced, however old the chain it kept.                       *)
THEOREM SealsCurrent == ~Overlap => (Spec => SealsToCurrent)
<1>1. ~Overlap => (Spec => []IInv)  BY Inductive
<1>2. IInv /\ [Next]_vars =>
        [rotations = 0 /\ chain # None =>
           \A s \in seals' \ seals : s.id >= InEffect(chain, 1)]_vars
  BY StepSeals
<1>. QED  BY <1>1, <1>2, PTL DEF Spec, SealsToCurrent
=============================================================================
