---------------------------- MODULE RolloutProofs ----------------------------
(***************************************************************************)
(* Theorems about Rollout, for any number of cameras, rollouts, ramps and  *)
(* operators' requests, whichever overlap: the counters and windows stay   *)
(* sound; a stop is lost, and a percent lowered, only to a request that    *)
(* was overtaken; and every offer that was answered is counted.            *)
(***************************************************************************)
EXTENDS Rollout, FiniteSetTheorems, WellFoundedInduction, TLAPS

-----------------------------------------------------------------------------
Records == [state : {"none", "active", "paused", "stopped"}, percent : Int,
            limit : Int, stage : Nat \ {0}, soaked : BOOLEAN, attempted : Nat,
            failures : Nat, abase : Nat, fbase : Nat, untouched : BOOLEAN]

Cams == [version : Nat \cup {None}, back : Nat \cup {None}, trial : BOOLEAN,
         fell : BOOLEAN]

JobSteps == {"count", "judge", "pause", "raise", "store"}
Jobs == [step : JobSteps, fell : BOOLEAN, rollout : Rollouts \cup {None},
         release : Nat \cup {None}, offered : BOOLEAN, fresh : Records \cup {None}]

Creations == [kind : {"supersede", "create"}, rollout : Rollouts \cup {None}]
Patches == [kind : {"patch"}, rollout : Rollouts, change : Changes, fresh : Records]
Ops == Creations \cup Patches

Types ==
  /\ ros \in [Rollouts -> Records]
  /\ row \in [Cameras -> [fell : BOOLEAN, offered : Nat \cup {None}]]
  /\ pin \in [Cameras -> Nat \cup {None}]
  /\ cam \in [Cameras -> Cams]
  /\ job \in [Cameras -> Jobs \cup {None}]
  /\ op \in [Operators -> Ops \cup {None}]

(* A window starts at counts that were reached; a ramp is at one of its    *)
(* stages.                                                                 *)
Windowed(r, f) ==
  /\ f.abase <= f.attempted /\ f.fbase <= f.failures
  /\ Ramped(r) => f.stage <= Len(Stages[r])

(* A copy of a rollout's record that a request read earlier.               *)
Earlier(r, f) ==
  /\ Created(r)
  /\ f.attempted <= ros[r].attempted /\ f.failures <= ros[r].failures
  /\ Ramped(r) => f.stage <= Len(Stages[r])

JobFits(j) ==
  /\ j.step # "store" => j.rollout \in Rollouts
  /\ j.rollout # None => Created(j.rollout)
  /\ j.step = "raise" =>
       /\ j.fresh \in Records /\ Earlier(j.rollout, j.fresh)
       /\ Ramped(j.rollout) /\ j.fresh.stage < Len(Stages[j.rollout])

JobSound(c) == job[c] # None => JobFits(job[c])

OpFits(q) ==
  /\ q.kind = "supersede" => q.rollout \in Rollouts /\ Created(q.rollout)
  /\ q.kind = "patch" => Earlier(q.rollout, q.fresh)

OpSound(o) == op[o] # None => OpFits(op[o])

Sound ==
  /\ Types
  /\ \A r \in Rollouts : Windowed(r, ros[r])
  /\ \A c \in Cameras : JobSound(c)
  /\ \A o \in Operators : OpSound(o)

-----------------------------------------------------------------------------
LEMMA NoneIsNoRollout == None \notin Rollouts
<1>1. Cardinality(Rollouts) \in Nat
  BY RolloutAssumption, FS_CardinalityType
<1> QED BY <1>1, RolloutAssumption

LEMMA Least ==
  ASSUME NEW T \in SUBSET Nat, T # {}
  PROVE  \E x \in T : \A y \in T : x <= y
<1> DEFINE R == OpToRel(<, Nat)
<1>1. IsWellFoundedOn(R, Nat)
  BY NatLessThanWellFounded
<1>2. \A x, y \in Nat : x < y => <<x, y>> \in R
  BY DEF OpToRel
<1> HIDE DEF R
<1>3. PICK x \in T : \A y \in T : ~ (<<y, x>> \in R)
  BY <1>1, WFMin
<1>4. ASSUME NEW y \in T
      PROVE  ~ (y < x)
  <2>1. x \in Nat /\ y \in Nat
    OBVIOUS
  <2>2. y < x => <<y, x>> \in R
    BY <1>2, <2>1, Zenon
  <2> QED BY <1>3, <2>2, Zenon
<1>5. \A y \in T : x <= y
  BY <1>4
<1> QED BY <1>5

LEMMA Greatest ==
  ASSUME NEW n \in Nat, NEW A \in SUBSET (1 .. n), A # {}
  PROVE  \E x \in A : \A y \in A : y <= x
<1> DEFINE T == {n - r : r \in A}
<1>0. \A r \in A : n - r \in Nat
  OBVIOUS
<1>1. T \in SUBSET Nat /\ T # {}
  BY <1>0
<1>2. PICK x \in T : \A y \in T : x <= y
  BY <1>1, Least
<1>3. PICK r \in A : x = n - r
  OBVIOUS
<1>4. ASSUME NEW s \in A
      PROVE  s <= r
  <2>1. x <= n - s
    BY <1>2
  <2>2. r \in 1 .. n /\ s \in 1 .. n
    OBVIOUS
  <2> QED BY <1>3, <2>1, <2>2
<1> QED BY <1>4

(* There is a rollout that was created last among those active.            *)
LEMMA LiveIsActive ==
  ASSUME NEW rs
  PROVE  Live(rs) = None \/ (Live(rs) \in Rollouts /\ rs[Live(rs)].state = "active")
<1> SUFFICES ASSUME Active(rs) # {}
             PROVE  Live(rs) \in Active(rs)
  BY DEF Live, Active
<1> DEFINE n == Cardinality(Rollouts)
<1>1. n \in Nat /\ Rollouts = 1 .. n
  BY RolloutAssumption, FS_CardinalityType
<1> HIDE DEF n
<1>2. Active(rs) \in SUBSET (1 .. n)
  BY <1>1 DEF Active
<1>3. \E q \in Active(rs) : \A s \in Active(rs) : s <= q
  BY <1>1, <1>2, Greatest
<1> QED BY <1>3 DEF Live

(* stage_for_percent only moves forward, within the ramp.                  *)
LEMMA StageForForward ==
  ASSUME NEW r \in Rollouts, NEW stage \in Nat \ {0}, NEW percent
  PROVE  /\ StageFor(r, stage, percent) \in Nat \ {0}
         /\ StageFor(r, stage, percent) >= stage
         /\ stage <= Len(Stages[r]) => StageFor(r, stage, percent) <= Len(Stages[r])
<1> DEFINE ahead == {i \in (stage + 1) .. Len(Stages[r]) : Stages[r][i].percent <= percent}
<1>1. Len(Stages[r]) \in Nat
  BY RolloutAssumption
<1>2. CASE ahead = {}
  BY <1>1, <1>2 DEF StageFor
<1>3. CASE ahead # {}
  <2>1. ahead \in SUBSET (1 .. Len(Stages[r]))
    BY <1>1
  <2>2. \E i \in ahead : \A k \in ahead : k <= i
    BY <1>1, <1>3, <2>1, Greatest
  <2>3. StageFor(r, stage, percent) = CHOOSE i \in ahead : \A k \in ahead : k <= i
    BY <1>3 DEF StageFor
  <2>4. StageFor(r, stage, percent) \in ahead
    BY <2>2, <2>3
  <2> QED BY <1>1, <2>4
<1> QED BY <1>2, <1>3

LEMMA StagePercents ==
  ASSUME NEW r \in Rollouts, NEW i \in 1 .. Len(Stages[r])
  PROVE  Stages[r][i].percent \in Int
<1>1. Stages[r] \in Seq(Stage)
  BY RolloutAssumption
<1>2. PICK stage \in Stage : stage = Stages[r][i]
  BY <1>1
<1>3. stage.percent \in 0 .. 100
  BY DEF Stage
<1>4. \A n \in 0 .. 100 : n \in Int
  OBVIOUS
<1> QED BY <1>2, <1>3, <1>4, Zenon

LEMMA FreshRecord ==
  ASSUME NEW r \in Rollouts, NEW p \in Percents, NEW l \in Limits
  PROVE  /\ NoRollout \in Records /\ Windowed(r, NoRollout)
         /\ Fresh(r, p, l) \in Records /\ Windowed(r, Fresh(r, p, l))
         /\ NoRollout.state = "none" /\ Fresh(r, p, l).state = "active"
<1>1. Stages[r] \in Seq(Stage) /\ Len(Stages[r]) \in Nat
  BY RolloutAssumption
<1>2. Ramped(r) => 1 <= Len(Stages[r])
  BY <1>1 DEF Ramped
<1>3. NoRollout \in Records /\ Windowed(r, NoRollout) /\ NoRollout.state = "none"
  BY <1>2 DEF NoRollout, Records, Windowed
<1>4. PICK q \in Int : q = IF Ramped(r) THEN Stages[r][1].percent ELSE p
  <2>1. \A x \in Percents : x \in Int
    BY RolloutAssumption
  <2> QED BY <1>1, <1>2, <2>1, StagePercents
<1>5. l \in Int
  BY RolloutAssumption
<1>6. Fresh(r, p, l) = [NoRollout EXCEPT !.state = "active", !.limit = l, !.percent = q]
  BY <1>4 DEF Fresh
<1>7. Fresh(r, p, l) \in Records
  BY <1>3, <1>5, <1>6 DEF Records
<1>8. /\ Fresh(r, p, l).state = "active" /\ Fresh(r, p, l).stage = 1
      /\ Fresh(r, p, l).abase = 0 /\ Fresh(r, p, l).attempted = 0
      /\ Fresh(r, p, l).fbase = 0 /\ Fresh(r, p, l).failures = 0
  BY <1>6 DEF NoRollout
<1> QED BY <1>2, <1>3, <1>7, <1>8 DEF Windowed

(* A PATCH, from whatever copy it checked against.                         *)
LEMMA PatchedRecord ==
  ASSUME NEW r \in Rollouts, NEW f \in Records, NEW g \in Records, NEW change \in Changes,
         Windowed(r, f), g.attempted <= f.attempted, g.failures <= f.failures,
         Ramped(r) => g.stage <= Len(Stages[r])
  PROVE  LET p == Patched(f, r, change, g)
         IN  /\ p \in Records /\ Windowed(r, p)
             /\ p.attempted = f.attempted /\ p.failures = f.failures
             /\ p.state = IF change.state = None THEN f.state ELSE change.state
             /\ p.percent = IF change.percent = None THEN f.percent ELSE change.percent
<1> DEFINE stage == IF Ramped(r) /\ change.percent # None
                    THEN StageFor(r, g.stage, change.percent) ELSE g.stage
           over == Ramped(r) /\ (stage # g.stage
                                 \/ (change.state = "active" /\ g.state # "active"))
           p == Patched(f, r, change, g)
<1>1. g.stage \in Nat \ {0} /\ Len(Stages[r]) \in Nat
  BY RolloutAssumption DEF Records
<1>2. stage \in Nat \ {0} /\ (Ramped(r) => stage <= Len(Stages[r]))
  BY <1>1, StageForForward
<1>3. p = [f EXCEPT
        !.percent = IF change.percent = None THEN f.percent ELSE change.percent,
        !.limit = IF change.limit = None THEN f.limit ELSE change.limit,
        !.state = IF change.state = None THEN f.state ELSE change.state,
        !.stage = IF over THEN stage ELSE f.stage,
        !.soaked = IF over THEN FALSE ELSE f.soaked,
        !.abase = IF over THEN g.attempted ELSE f.abase,
        !.fbase = IF over THEN g.failures ELSE f.fbase,
        !.untouched = FALSE]
  BY DEF Patched, Records
<1> HIDE DEF stage, over, p
<1>4. /\ change.percent # None => change.percent \in Int
      /\ change.limit # None => change.limit \in Int
      /\ change.state # None => change.state \in {"active", "paused"}
  BY RolloutAssumption
<1>5. /\ p.percent = IF change.percent = None THEN f.percent ELSE change.percent
      /\ p.limit = IF change.limit = None THEN f.limit ELSE change.limit
      /\ p.state = IF change.state = None THEN f.state ELSE change.state
      /\ p.stage = IF over THEN stage ELSE f.stage
      /\ p.abase = IF over THEN g.attempted ELSE f.abase
      /\ p.fbase = IF over THEN g.failures ELSE f.fbase
      /\ p.attempted = f.attempted /\ p.failures = f.failures
  BY <1>3 DEF Records
<1>6. p \in Records
  <2>1. f.percent \in Int /\ f.limit \in Int /\ f.stage \in Nat \ {0} /\ f.soaked \in BOOLEAN
        /\ f.abase \in Nat /\ f.fbase \in Nat /\ g.attempted \in Nat /\ g.failures \in Nat
        /\ f.state \in {"none", "active", "paused", "stopped"}
    BY DEF Records
  <2>2. PICK a \in Int, b \in Int, s \in {"none", "active", "paused", "stopped"} :
          /\ a = IF change.percent = None THEN f.percent ELSE change.percent
          /\ b = IF change.limit = None THEN f.limit ELSE change.limit
          /\ s = IF change.state = None THEN f.state ELSE change.state
    BY <1>4, <2>1
  <2>3. PICK i \in Nat \ {0}, k \in BOOLEAN, x \in Nat, y \in Nat :
          /\ i = IF over THEN stage ELSE f.stage
          /\ k = IF over THEN FALSE ELSE f.soaked
          /\ x = IF over THEN g.attempted ELSE f.abase
          /\ y = IF over THEN g.failures ELSE f.fbase
    BY <1>2, <2>1
  <2>4. p = [f EXCEPT !.percent = a, !.limit = b, !.state = s, !.stage = i, !.soaked = k,
                      !.abase = x, !.fbase = y, !.untouched = FALSE]
    BY <1>3, <2>2, <2>3
  <2> QED BY <2>4 DEF Records
<1>7. Windowed(r, p)
  BY <1>2, <1>5 DEF Windowed, Records
<1> QED BY <1>5, <1>6, <1>7 DEF p

-----------------------------------------------------------------------------
(* What every write of the rollouts table does, and what it leaves alone.  *)
Moves ==
  /\ ros' \in [Rollouts -> Records]
  /\ \A r \in Rollouts : Windowed(r, ros[r])'
  /\ \A r \in Rollouts : Created(r) =>
       /\ Created(r)'
       /\ ros'[r].attempted >= ros[r].attempted /\ ros'[r].failures >= ros[r].failures

LEMMA NoMove ==
  ASSUME Sound, ros' = ros
  PROVE  Moves
<1>1. \A r \in Rollouts : ros[r].attempted \in Nat /\ ros[r].failures \in Nat
  BY DEF Sound, Types, Records
<1> QED BY <1>1 DEF Moves, Sound, Types, Windowed, Created

LEMMA RosWritten ==
  ASSUME Sound, NEW r \in Rollouts, NEW f \in Records, Windowed(r, f),
         f.attempted >= ros[r].attempted, f.failures >= ros[r].failures,
         Created(r) => f.state # "none",
         ros' = [ros EXCEPT ![r] = f]
  PROVE  Moves
<1>1. /\ ros \in [Rollouts -> Records]
      /\ ros' \in [Rollouts -> Records]
      /\ ros'[r] = f /\ \A s \in Rollouts \ {r} : ros'[s] = ros[s]
  BY DEF Sound, Types
<1>2. \A s \in Rollouts : ros[s].attempted \in Nat /\ ros[s].failures \in Nat
  BY <1>1 DEF Records
<1>3. \A s \in Rollouts : Windowed(s, ros[s])'
  BY <1>1 DEF Sound, Windowed
<1>4. \A s \in Rollouts \ {r} : Created(s)' <=> Created(s)
  BY <1>1 DEF Created
<1>5. Created(r)' <=> f.state # "none"
  BY <1>1 DEF Created
<1> QED BY <1>1, <1>2, <1>3, <1>4, <1>5 DEF Moves

LEMMA EarlierStays ==
  ASSUME Sound, Moves, NEW r \in Rollouts, NEW f \in Records, Earlier(r, f)
  PROVE  Earlier(r, f)'
<1>1. /\ f.attempted \in Nat /\ ros[r].attempted \in Nat /\ ros'[r].attempted \in Nat
      /\ f.failures \in Nat /\ ros[r].failures \in Nat /\ ros'[r].failures \in Nat
  BY DEF Sound, Types, Moves, Records
<1> QED BY <1>1 DEF Earlier, Moves

LEMMA JobKept ==
  ASSUME Sound, Moves, NEW c \in Cameras, job'[c] = job[c]
  PROVE  JobSound(c)'
<1> SUFFICES ASSUME job[c] # None
             PROVE  JobSound(c)'
  BY DEF JobSound
<1>1. PICK j \in Jobs : j = job[c] /\ j = job'[c] /\ JobFits(j)
  BY DEF Sound, Types, JobSound
<1>2. j.rollout # None => j.rollout \in Rollouts /\ Created(j.rollout) /\ Created(j.rollout)'
  BY <1>1 DEF JobFits, Moves, Jobs
<1>3. j.step = "raise" => Earlier(j.rollout, j.fresh)'
  BY <1>1, EarlierStays DEF JobFits
<1>4. JobFits(j)'
  BY <1>1, <1>2, <1>3 DEF JobFits
<1> QED BY <1>1, <1>4 DEF JobSound

LEMMA JobWritten ==
  ASSUME Sound, Moves, NEW c \in Cameras, NEW j \in Jobs \cup {None},
         job' = [job EXCEPT ![c] = j], j # None => JobFits(j)'
  PROVE  /\ job' \in [Cameras -> Jobs \cup {None}]
         /\ \A x \in Cameras : JobSound(x)'
<1>1. /\ job' \in [Cameras -> Jobs \cup {None}]
      /\ job'[c] = j /\ \A x \in Cameras \ {c} : job'[x] = job[x]
  BY DEF Sound, Types
<1>2. JobSound(c)'
  BY <1>1 DEF JobSound
<1> QED BY <1>1, <1>2, JobKept

LEMMA OpKept ==
  ASSUME Sound, Moves, NEW o \in Operators, op'[o] = op[o]
  PROVE  OpSound(o)'
<1> SUFFICES ASSUME op[o] # None
             PROVE  OpSound(o)'
  BY DEF OpSound
<1>1. PICK q \in Ops : q = op[o] /\ q = op'[o] /\ OpFits(q)
  BY DEF Sound, Types, OpSound
<1>2. q.kind = "supersede" => q.rollout \in Rollouts /\ Created(q.rollout)'
  BY <1>1 DEF OpFits, Moves
<1>3. q.kind = "patch" => Earlier(q.rollout, q.fresh)'
  <2>1. q.kind = "patch" => q \in Patches
    BY <1>1 DEF Ops, Creations
  <2> QED BY <1>1, <2>1, EarlierStays DEF OpFits, Patches
<1>4. OpFits(q)'
  BY <1>2, <1>3 DEF OpFits
<1> QED BY <1>1, <1>4 DEF OpSound

LEMMA OpWritten ==
  ASSUME Sound, Moves, NEW o \in Operators, NEW q \in Ops \cup {None},
         op' = [op EXCEPT ![o] = q], q # None => OpFits(q)'
  PROVE  /\ op' \in [Operators -> Ops \cup {None}]
         /\ \A x \in Operators : OpSound(x)'
<1>1. /\ op' \in [Operators -> Ops \cup {None}]
      /\ op'[o] = q /\ \A x \in Operators \ {o} : op'[x] = op[x]
  BY DEF Sound, Types
<1>2. OpSound(o)'
  BY <1>1 DEF OpSound
<1> QED BY <1>1, <1>2, OpKept

LEMMA SoundInit == Init => Sound
<1> SUFFICES ASSUME Init
             PROVE  Sound
  OBVIOUS
<1>1. PICK p \in Percents, l \in Limits :
        ros = [r \in Rollouts |-> IF r = 1 THEN Fresh(1, p, l) ELSE NoRollout]
  BY DEF Init
<1>2. ASSUME NEW r \in Rollouts
      PROVE  ros[r] \in Records /\ Windowed(r, ros[r])
  <2>1. ros[r] = Fresh(r, p, l) \/ ros[r] = NoRollout
    BY <1>1
  <2> QED BY <2>1, FreshRecord
<1>3. ros \in [Rollouts -> Records]
  BY <1>1, <1>2
<1>4. cam \in [Cameras -> Cams]
  <2>1. \A c \in Cameras : Installed[c] \in Nat
    BY RolloutAssumption
  <2>2. \A c \in Cameras : [version |-> Installed[c], back |-> 0, trial |-> FALSE,
                            fell |-> FALSE] \in Cams
    BY <2>1 DEF Cams
  <2> QED BY <2>2 DEF Init
<1>5. job \in [Cameras -> Jobs \cup {None}] /\ op \in [Operators -> Ops \cup {None}]
  BY DEF Init
<1>6. (\A c \in Cameras : JobSound(c)) /\ (\A o \in Operators : OpSound(o))
  BY DEF Init, JobSound, OpSound
<1> QED BY <1>2, <1>3, <1>4, <1>5, <1>6 DEF Init, Sound, Types

LEMMA DecisionTypes ==
  ASSUME Sound, NEW c \in Cameras
  PROVE  /\ Decision(c).rollout \in Rollouts \cup {None}
         /\ Decision(c).rollout # None =>
              Created(Decision(c).rollout) /\ Decision(c).rollout \in Rollouts
         /\ Decision(c).release \in Nat \cup {None}
         /\ Decision(c).offered \in BOOLEAN
<1>1. Live(ros) = None \/ (Live(ros) \in Rollouts /\ Created(Live(ros)))
  BY LiveIsActive DEF Created
<1>2. pin[c] \in Nat \cup {None}
  BY DEF Sound, Types
<1>3. \A r \in Rollouts : Release[r] \in Nat
  BY RolloutAssumption
<1>4. Decision(c).offered \in BOOLEAN
  BY DEF Decision
<1>5. Decision(c).rollout = IF pin[c] # None THEN None ELSE Live(ros)
  BY DEF Decision
<1>6. Decision(c).release =
        IF pin[c] # None THEN pin[c] ELSE IF Live(ros) = None THEN None ELSE Release[Live(ros)]
  BY <1>5 DEF Decision
<1> QED BY <1>1, <1>2, <1>3, <1>4, <1>5, <1>6

LEMMA VerdictRaises ==
  ASSUME NEW r \in Rollouts, NEW f \in Records
  PROVE  /\ Verdict(r, f) \in {"store", "pause", "raise"}
         /\ Verdict(r, f) # "store" => f.state = "active"
         /\ Verdict(r, f) = "raise" => Ramped(r) /\ f.stage < Len(Stages[r]) /\ f.soaked
  BY DEF Verdict, MayRaise

(* A stage further, judged from the counts as they were when it was read.  *)
Raised(r, f, g) ==
  [f EXCEPT !.percent = Larger(Stages[r][g.stage + 1].percent, g.percent),
            !.stage = g.stage + 1, !.soaked = FALSE,
            !.abase = g.attempted, !.fbase = g.failures]

LEMMA RaisedRecord ==
  ASSUME NEW r \in Rollouts, NEW f \in Records, NEW g \in Records,
         g.attempted <= f.attempted, g.failures <= f.failures,
         Ramped(r), g.stage < Len(Stages[r])
  PROVE  LET p == Raised(r, f, g)
         IN  /\ p \in Records /\ Windowed(r, p)
             /\ p.attempted = f.attempted /\ p.failures = f.failures
             /\ p.state = f.state /\ p.stage = g.stage + 1 /\ p.soaked = FALSE
             /\ p.percent = Larger(Stages[r][g.stage + 1].percent, g.percent)
<1>1. /\ g.stage \in Nat \ {0} /\ g.percent \in Int
      /\ g.attempted \in Nat /\ g.failures \in Nat /\ Len(Stages[r]) \in Nat
  BY RolloutAssumption DEF Records
<1>2. g.stage + 1 \in 1 .. Len(Stages[r])
  BY <1>1
<1>3. PICK q \in Int, i \in Nat \ {0}, a \in Nat, b \in Nat :
        /\ q = Larger(Stages[r][g.stage + 1].percent, g.percent)
        /\ i = g.stage + 1 /\ a = g.attempted /\ b = g.failures
  BY <1>1, <1>2, StagePercents DEF Larger
<1>4. PICK p \in Records :
        p = [f EXCEPT !.percent = q, !.stage = i, !.soaked = FALSE, !.abase = a, !.fbase = b]
  BY DEF Records
<1>5. /\ p.attempted = f.attempted /\ p.failures = f.failures
      /\ p.state = f.state /\ p.stage = i /\ p.soaked = FALSE
      /\ p.percent = q /\ p.abase = a /\ p.fbase = b
  BY <1>4 DEF Records
<1>6. Windowed(r, p)
  BY <1>2, <1>3, <1>5 DEF Windowed
<1>7. p = Raised(r, f, g)
  BY <1>3, <1>4 DEF Raised
<1> QED BY <1>3, <1>5, <1>6, <1>7

(* What an action must show: what it writes in the rollouts table (Moves), *)
(* that the requests it moves on fit it, and the types of the rest.        *)
LEMMA StepIsSound ==
  ASSUME Sound, Moves,
         job' \in [Cameras -> Jobs \cup {None}], \A c \in Cameras : JobSound(c)',
         UNCHANGED row \/ row' \in [Cameras -> [fell : BOOLEAN, offered : Nat \cup {None}]],
         UNCHANGED pin \/ pin' \in [Cameras -> Nat \cup {None}],
         UNCHANGED cam \/ cam' \in [Cameras -> Cams],
         UNCHANGED op \/ /\ op' \in [Operators -> Ops \cup {None}]
                         /\ \A o \in Operators : OpSound(o)'
  PROVE  Sound' /\ Moves
<1>1. \A o \in Operators : OpSound(o)'
  BY OpKept
<1>2. Types'
  BY DEF Sound, Types, Moves
<1> QED BY <1>1, <1>2 DEF Sound, Moves

LEMMA JobsKept ==
  ASSUME Sound, Moves, job' = job
  PROVE  job' \in [Cameras -> Jobs \cup {None}] /\ \A c \in Cameras : JobSound(c)'
  BY JobKept DEF Sound, Types

(* A check-in in flight is one of Jobs, and is what it says.               *)
LEMMA JobOf ==
  ASSUME Sound, NEW c \in Cameras, job[c] # None
  PROVE  \E j \in Jobs : j = job[c] /\ JobFits(j)
  BY DEF Sound, Types, JobSound

LEMMA CheckInSound ==
  ASSUME Sound, NEW c \in Cameras, CheckIn(c)
  PROVE  Sound' /\ Moves
<1>1. cam[c].fell \in BOOLEAN
  BY DEF Sound, Types, Cams
<1>2. PICK r \in Rollouts \cup {None}, rel \in Nat \cup {None}, offered \in BOOLEAN, fell \in BOOLEAN :
        /\ r = Decision(c).rollout /\ rel = Decision(c).release
        /\ offered = Decision(c).offered /\ fell = cam[c].fell
  BY <1>1, DecisionTypes
<1>3. r # None => Created(r) /\ r \in Rollouts
  BY <1>2, DecisionTypes
<1>4. PICK step \in {"store", "count"} : step = IF r = None THEN "store" ELSE "count"
  OBVIOUS
<1>5. PICK j \in Jobs :
        j = [step |-> step, fell |-> fell, rollout |-> r, release |-> rel,
             offered |-> offered, fresh |-> None]
  BY DEF Jobs, JobSteps
<1>6. job' = [job EXCEPT ![c] = j]
  BY <1>2, <1>4, <1>5 DEF CheckIn
<1>7. UNCHANGED <<ros, row, pin, cam, op>>
  BY DEF CheckIn, store
<1>8. Moves
  BY <1>7, NoMove
<1>9. JobFits(j)'
  BY <1>3, <1>4, <1>5, <1>7 DEF JobFits, Created
<1> QED BY <1>6, <1>7, <1>8, <1>9, JobWritten, StepIsSound

LEMMA CountSound ==
  ASSUME Sound, NEW c \in Cameras, Count(c)
  PROVE  Sound' /\ Moves
<1>1. PICK j \in Jobs : j = job[c] /\ JobFits(j) /\ j.step = "count"
  BY JobOf DEF Count
<1>2. PICK r \in Rollouts : r = j.rollout /\ Created(r)
  BY <1>1, NoneIsNoRollout DEF JobFits
<1>3. PICK a \in Nat, b \in Nat : a = Attempts(c) /\ b = Failures(c)
  BY DEF Attempts, Failures
<1>4. PICK g \in Records : g = ros[r] /\ Windowed(r, g)
  BY DEF Sound, Types
<1>5. PICK m \in Nat, n \in Nat : m = g.attempted + a /\ n = g.failures + b
  BY DEF Records
<1> DEFINE f == [g EXCEPT !.attempted = m, !.failures = n]
<1>6. /\ f \in Records /\ f.abase = g.abase /\ f.fbase = g.fbase
      /\ f.stage = g.stage /\ f.state = g.state
      /\ f.attempted = m /\ f.failures = n
  BY DEF Records
<1>7. ros' = [ros EXCEPT ![r] = f]
  BY <1>1, <1>2, <1>3, <1>4, <1>5 DEF Count
<1> HIDE DEF f
<1>8. Windowed(r, f) /\ f.attempted >= g.attempted /\ f.failures >= g.failures
  <2>1. /\ g.attempted \in Nat /\ g.failures \in Nat /\ g.abase \in Nat /\ g.fbase \in Nat
        /\ g.abase <= g.attempted /\ g.fbase <= g.failures
        /\ Ramped(r) => g.stage <= Len(Stages[r])
    BY <1>4 DEF Records, Windowed
  <2>2. m >= g.attempted /\ n >= g.failures /\ g.abase <= m /\ g.fbase <= n
    BY <1>5, <2>1
  <2> QED BY <1>6, <2>1, <2>2 DEF Windowed
<1>9. Moves
  BY <1>2, <1>4, <1>6, <1>7, <1>8, RosWritten DEF Created
<1>10. PICK k \in Jobs : k = [j EXCEPT !.step = "judge"]
  BY DEF Jobs, JobSteps
<1>11. job' = [job EXCEPT ![c] = k]
  BY <1>1, <1>10 DEF Count
<1>12. k.step = "judge" /\ k.rollout = r
  BY <1>2, <1>10 DEF Jobs
<1>13. JobFits(k)'
  BY <1>2, <1>9, <1>12 DEF JobFits, Moves
<1> QED BY <1>9, <1>11, <1>13, JobWritten, StepIsSound DEF Count

(* A handler's later writes start from a check-in that has a rollout.      *)
LEMMA JobWithRollout ==
  ASSUME Sound, NEW c \in Cameras, job[c] # None, job[c].step # "store"
  PROVE  \E j \in Jobs, r \in Rollouts, f \in Records :
           /\ j = job[c] /\ JobFits(j) /\ r = j.rollout /\ Created(r)
           /\ f = ros[r] /\ Windowed(r, f)
<1>1. PICK j \in Jobs : j = job[c] /\ JobFits(j) /\ j.step # "store"
  BY JobOf
<1>2. PICK r \in Rollouts : r = j.rollout /\ Created(r)
  BY <1>1, NoneIsNoRollout DEF JobFits
<1>3. ros[r] \in Records /\ Windowed(r, ros[r])
  BY DEF Sound, Types
<1> QED BY <1>1, <1>2, <1>3

LEMMA JudgeSound ==
  ASSUME Sound, NEW c \in Cameras, Judge(c)
  PROVE  Sound' /\ Moves
<1>1. PICK j \in Jobs, r \in Rollouts, f \in Records :
        /\ j = job[c] /\ JobFits(j) /\ r = j.rollout /\ Created(r)
        /\ f = ros[r] /\ Windowed(r, f)
  BY JobWithRollout DEF Judge
<1>2. PICK verdict \in {"store", "pause", "raise"} : verdict = Verdict(r, f)
  BY VerdictRaises
<1>3. PICK fresh \in Records \cup {None} : fresh = IF verdict = "raise" THEN f ELSE None
  OBVIOUS
<1>4. PICK k \in Jobs : k = [j EXCEPT !.step = verdict, !.fresh = fresh]
  BY DEF Jobs, JobSteps
<1>5. job' = [job EXCEPT ![c] = k]
  BY <1>1, <1>2, <1>3, <1>4 DEF Judge
<1>6. k.step = verdict /\ k.rollout = r /\ k.fresh = fresh
  BY <1>1, <1>4 DEF Jobs
<1>7. ros' = ros /\ UNCHANGED <<row, pin, cam, op>>
  BY DEF Judge, store
<1>8. Moves
  BY <1>7, NoMove
<1>9. verdict = "raise" => fresh \in Records /\ Earlier(r, fresh) /\ Ramped(r) /\ fresh.stage < Len(Stages[r])
  <2>1. f.attempted \in Nat /\ f.failures \in Nat
    BY DEF Records
  <2>2. Earlier(r, f)
    BY <1>1, <2>1 DEF Earlier, Windowed
  <2>3. verdict = "raise" => Ramped(r) /\ f.stage < Len(Stages[r])
    BY <1>2, VerdictRaises
  <2> QED BY <1>3, <2>2, <2>3
<1>10. JobFits(k)
  BY <1>1, <1>6, <1>9 DEF JobFits
<1>11. JobFits(k)'
  BY <1>7, <1>10 DEF JobFits, Created, Earlier
<1> QED BY <1>5, <1>7, <1>8, <1>11, JobWritten, StepIsSound

LEMMA PauseSound ==
  ASSUME Sound, NEW c \in Cameras, Pause(c)
  PROVE  Sound' /\ Moves
<1>1. PICK j \in Jobs, r \in Rollouts, f \in Records :
        /\ j = job[c] /\ JobFits(j) /\ r = j.rollout /\ Created(r)
        /\ f = ros[r] /\ Windowed(r, f)
  BY JobWithRollout DEF Pause
<1>2. PICK g \in Records : g = [f EXCEPT !.state = "paused", !.untouched = FALSE]
  BY DEF Records
<1>3. ros' = [ros EXCEPT ![r] = g]
  BY <1>1, <1>2 DEF Pause
<1>4. /\ g.state = "paused" /\ Windowed(r, g)
      /\ g.attempted = f.attempted /\ g.failures = f.failures
  BY <1>1, <1>2 DEF Records, Windowed
<1>5. g.attempted >= ros[r].attempted /\ g.failures >= ros[r].failures
  BY <1>1, <1>4 DEF Records
<1>6. Moves
  BY <1>1, <1>3, <1>4, <1>5, RosWritten
<1>7. PICK k \in Jobs : k = [j EXCEPT !.step = "store"]
  BY DEF Jobs, JobSteps
<1>8. job' = [job EXCEPT ![c] = k]
  BY <1>1, <1>7 DEF Pause
<1>9. k.step = "store" /\ k.rollout = r
  BY <1>1, <1>7 DEF Jobs
<1>10. JobFits(k)'
  BY <1>1, <1>6, <1>9 DEF JobFits, Moves
<1> QED BY <1>6, <1>8, <1>10, JobWritten, StepIsSound DEF Pause

LEMMA RaiseWrites ==
  ASSUME NEW c \in Cameras, Raise(c), NEW r, r = job[c].rollout, NEW f, f = ros[r],
         NEW g, g = job[c].fresh
  PROVE  ros' = [ros EXCEPT ![r] = Raised(r, f, g)]
<1>1. ros' = [ros EXCEPT ![r] =
         [ros[r] EXCEPT !.percent = Larger(Stages[r][g.stage + 1].percent, g.percent),
                        !.stage = g.stage + 1, !.soaked = FALSE,
                        !.abase = g.attempted, !.fbase = g.failures]]
  BY Zenon DEF Raise
<1> QED BY <1>1, Zenon DEF Raised

LEMMA RaiseSound ==
  ASSUME Sound, NEW c \in Cameras, Raise(c)
  PROVE  Sound' /\ Moves
<1>1. PICK j \in Jobs, r \in Rollouts, f \in Records :
        /\ j = job[c] /\ JobFits(j) /\ r = j.rollout /\ Created(r)
        /\ f = ros[r] /\ Windowed(r, f) /\ j.step = "raise"
  BY JobWithRollout DEF Raise
<1>2. PICK g \in Records : g = j.fresh /\ Earlier(r, g) /\ Ramped(r) /\ g.stage < Len(Stages[r])
  BY <1>1 DEF JobFits
<1>3. g.attempted <= f.attempted /\ g.failures <= f.failures
  BY <1>1, <1>2 DEF Earlier
<1>4. PICK p \in Records : p = Raised(r, f, g)
  BY <1>2, <1>3, RaisedRecord
<1>5. /\ Windowed(r, p) /\ p.attempted = f.attempted /\ p.failures = f.failures
      /\ p.state = f.state
  <2>1. /\ Windowed(r, Raised(r, f, g)) /\ Raised(r, f, g).attempted = f.attempted
        /\ Raised(r, f, g).failures = f.failures /\ Raised(r, f, g).state = f.state
    BY <1>2, <1>3, RaisedRecord
  <2> QED BY <1>4, <2>1
<1>6. ros' = [ros EXCEPT ![r] = p]
  <2>1. ros' = [ros EXCEPT ![r] = Raised(r, f, g)]
    BY <1>1, <1>2, RaiseWrites
  <2> QED BY <1>4, <2>1
<1>7. p.attempted >= ros[r].attempted /\ p.failures >= ros[r].failures
  BY <1>1, <1>5 DEF Records
<1>8. Moves
  BY <1>1, <1>5, <1>6, <1>7, RosWritten DEF Created
<1>9. PICK k \in Jobs : k = [j EXCEPT !.step = "store", !.fresh = None]
  BY DEF Jobs, JobSteps
<1>10. job' = [job EXCEPT ![c] = k]
  BY <1>1, <1>9 DEF Raise
<1>11. k.step = "store" /\ k.rollout = r
  BY <1>1, <1>9 DEF Jobs
<1>12. JobFits(k)'
  BY <1>1, <1>8, <1>11 DEF JobFits, Moves
<1> QED BY <1>8, <1>10, <1>12, JobWritten, StepIsSound DEF Raise

(* Whatever a camera is offered, it stays a camera.                        *)
LEMMA AnsweredCamera ==
  ASSUME Sound, NEW c \in Cameras, NEW release \in Nat \cup {None}, NEW offered,
         Answered(c, offered, release)
  PROVE  UNCHANGED cam \/ cam' \in [Cameras -> Cams]
<1> SUFFICES ASSUME cam' # cam
             PROVE  cam' \in [Cameras -> Cams]
  OBVIOUS
<1>1. PICK m \in Cams : m = cam[c]
  BY DEF Sound, Types
<1>2. PICK n \in Cams : n = [version |-> release, back |-> m.version, trial |-> TRUE, fell |-> FALSE]
  BY DEF Cams
<1>3. cam' = [cam EXCEPT ![c] = n]
  BY <1>1, <1>2 DEF Answered
<1> QED BY <1>3 DEF Sound, Types

LEMMA StoreSound ==
  ASSUME Sound, NEW c \in Cameras, Store(c)
  PROVE  Sound' /\ Moves
<1>1. PICK j \in Jobs : j = job[c]
  BY JobOf DEF Store
<1>2. UNCHANGED <<ros, pin, op>> /\ job' = [job EXCEPT ![c] = None]
  BY DEF Store
<1>3. Moves
  BY <1>2, NoMove
<1>4. row' \in [Cameras -> [fell : BOOLEAN, offered : Nat \cup {None}]]
  <2>1. PICK fell \in BOOLEAN, offered \in Nat \cup {None} :
          fell = j.fell /\ offered = IF j.offered THEN j.release ELSE row[c].offered
    BY DEF Jobs, Sound, Types
  <2>2. row' = [row EXCEPT ![c] = [fell |-> fell, offered |-> offered]]
    BY <1>1, <2>1 DEF Store
  <2> QED BY <2>2 DEF Sound, Types
<1>5. UNCHANGED cam \/ cam' \in [Cameras -> Cams]
  <2>1. j.release \in Nat \cup {None} /\ Answered(c, j.offered, j.release)
    BY <1>1 DEF Store, Jobs
  <2> QED BY <2>1, AnsweredCamera
<1> QED BY <1>2, <1>3, <1>4, <1>5, JobWritten, StepIsSound

LEMMA CrashSound ==
  ASSUME Sound, Crash
  PROVE  Sound' /\ Moves
<1>1. /\ UNCHANGED <<ros, row, pin, cam>> /\ job' = [c \in Cameras |-> None]
      /\ op' = [o \in Operators |-> None]
  BY DEF Crash, store
<1>2. Moves
  BY <1>1, NoMove
<1>3. (\A o \in Operators : OpSound(o)') /\ \A c \in Cameras : JobSound(c)'
  BY <1>1 DEF OpSound, JobSound
<1> QED BY <1>1, <1>2, <1>3, StepIsSound

LEMMA CameraSound ==
  ASSUME Sound, NEW c \in Cameras, Keep(c) \/ FallBack(c)
  PROVE  Sound' /\ Moves
<1>1. UNCHANGED <<ros, row, pin, job, op>>
  BY DEF Keep, FallBack, store
<1>2. Moves
  BY <1>1, NoMove
<1>3. PICK m \in Cams : m = cam[c]
  BY DEF Sound, Types
<1>4. cam' \in [Cameras -> Cams]
  <2>1. CASE Keep(c)
    <3>1. PICK n \in Cams : n = [m EXCEPT !.trial = FALSE, !.back = 0]
      BY DEF Cams
    <3>2. cam' = [cam EXCEPT ![c] = n]
      BY <1>3, <2>1, <3>1 DEF Keep
    <3> QED BY <3>2 DEF Sound, Types
  <2>2. CASE FallBack(c)
    <3>1. PICK n \in Cams : n = [version |-> m.back, back |-> 0, trial |-> FALSE, fell |-> TRUE]
      BY DEF Cams
    <3>2. cam' = [cam EXCEPT ![c] = n]
      BY <1>3, <2>2, <3>1 DEF FallBack
    <3> QED BY <3>2 DEF Sound, Types
  <2> QED BY <2>1, <2>2
<1> QED BY <1>1, <1>2, <1>4, JobsKept, StepIsSound

LEMMA SoakSound ==
  ASSUME Sound, NEW r \in Rollouts, Soak(r)
  PROVE  Sound' /\ Moves
<1>1. PICK f \in Records : f = ros[r] /\ Windowed(r, f)
  BY DEF Sound, Types
<1>2. PICK g \in Records : g = [f EXCEPT !.soaked = TRUE]
  BY DEF Records
<1>3. ros' = [ros EXCEPT ![r] = g] /\ UNCHANGED <<row, pin, cam, job, op>>
  BY <1>1, <1>2 DEF Soak
<1>4. /\ g.state = f.state /\ Windowed(r, g)
      /\ g.attempted = f.attempted /\ g.failures = f.failures
  BY <1>1, <1>2 DEF Records, Windowed
<1>5. g.attempted >= ros[r].attempted /\ g.failures >= ros[r].failures
  BY <1>1, <1>4 DEF Records
<1>6. Moves
  BY <1>1, <1>3, <1>4, <1>5, RosWritten DEF Created, Soak
<1> QED BY <1>3, <1>6, JobsKept, StepIsSound

LEMMA CreateBeginsSound ==
  ASSUME Sound, NEW o \in Operators, CreateBegins(o)
  PROVE  Sound' /\ Moves
<1>1. UNCHANGED <<ros, row, pin, cam, job>>
  BY DEF CreateBegins, store
<1>2. PICK prior \in Rollouts \cup {None} :
        prior = Live(ros) /\ (prior # None => prior \in Rollouts /\ Created(prior))
  BY LiveIsActive DEF Created
<1>3. PICK kind \in {"supersede", "create"} :
        kind = IF prior = None THEN "create" ELSE "supersede"
  OBVIOUS
<1>4. PICK q \in Creations : q = [kind |-> kind, rollout |-> prior]
  BY DEF Creations
<1>5. op' = [op EXCEPT ![o] = q]
  BY <1>2, <1>3, <1>4 DEF CreateBegins
<1>6. Moves
  BY <1>1, NoMove
<1>7. OpFits(q)'
  <2>1. q.rollout = prior /\ q.kind = kind
    BY <1>4
  <2> QED BY <1>1, <1>2, <1>3, <2>1 DEF OpFits, Created
<1> QED BY <1>1, <1>5, <1>6, <1>7, OpWritten, JobsKept, StepIsSound DEF Ops

(* A request in progress is one of Ops, and is what it says.               *)
LEMMA OpOf ==
  ASSUME Sound, NEW o \in Operators, op[o] # None
  PROVE  \E q \in Ops : q = op[o] /\ OpFits(q)
  BY DEF Sound, Types, OpSound

LEMMA SupersedeSound ==
  ASSUME Sound, NEW o \in Operators, Supersede(o)
  PROVE  Sound' /\ Moves
<1>1. PICK q \in Ops : q = op[o] /\ OpFits(q) /\ q.kind = "supersede"
  BY OpOf DEF Supersede
<1>2. PICK r \in Rollouts : r = q.rollout /\ Created(r)
  BY <1>1 DEF OpFits
<1>3. PICK f \in Records : f = ros[r] /\ Windowed(r, f)
  BY DEF Sound, Types
<1>4. PICK g \in Records : g = [f EXCEPT !.state = "paused", !.untouched = FALSE]
  BY DEF Records
<1>5. ros' = [ros EXCEPT ![r] = g] /\ UNCHANGED <<row, pin, cam, job>>
  BY <1>1, <1>2, <1>3, <1>4 DEF Supersede
<1>6. /\ g.state = "paused" /\ Windowed(r, g)
      /\ g.attempted = f.attempted /\ g.failures = f.failures
  BY <1>3, <1>4 DEF Records, Windowed
<1>7. g.attempted >= ros[r].attempted /\ g.failures >= ros[r].failures
  BY <1>3, <1>6 DEF Records
<1>8. Moves
  BY <1>2, <1>3, <1>5, <1>6, <1>7, RosWritten
<1>9. PICK k \in Creations : k = [q EXCEPT !.kind = "create"] /\ k.kind = "create"
  <2>1. q \in Creations
    BY <1>1 DEF Ops, Patches
  <2>2. PICK x \in Rollouts \cup {None} : q = [kind |-> "supersede", rollout |-> x]
    BY <1>1, <2>1 DEF Creations
  <2>3. [q EXCEPT !.kind = "create"] = [kind |-> "create", rollout |-> x]
    BY <2>2
  <2> QED BY <2>3 DEF Creations
<1>10. op' = [op EXCEPT ![o] = k]
  BY <1>1, <1>9 DEF Supersede
<1>11. OpFits(k)'
  BY <1>9 DEF OpFits
<1> QED BY <1>5, <1>8, <1>9, <1>10, <1>11, OpWritten, JobsKept, StepIsSound DEF Ops

(* A request that ends leaves nothing to fit.                              *)
LEMMA OpEnds ==
  ASSUME Sound, Moves, NEW o \in Operators, op' = [op EXCEPT ![o] = None]
  PROVE  /\ op' \in [Operators -> Ops \cup {None}]
         /\ \A x \in Operators : OpSound(x)'
  BY OpWritten

LEMMA CreateSound ==
  ASSUME Sound, NEW o \in Operators, Create(o)
  PROVE  Sound' /\ Moves
<1>1. PICK r \in Rollouts, p \in Percents, l \in Limits :
        ~Created(r) /\ ros' = [ros EXCEPT ![r] = Fresh(r, p, l)]
  BY DEF Create
<1>2. PICK g \in Records : g = Fresh(r, p, l) /\ Windowed(r, g) /\ g.state = "active"
  BY FreshRecord
<1>3. Moves
  <2>1. /\ ros \in [Rollouts -> Records] /\ ros' \in [Rollouts -> Records]
        /\ ros'[r] = g /\ \A s \in Rollouts \ {r} : ros'[s] = ros[s]
    BY <1>1, <1>2 DEF Sound, Types
  <2>2. \A s \in Rollouts : ros[s].attempted \in Nat /\ ros[s].failures \in Nat
    BY <2>1 DEF Records
  <2>3. \A s \in Rollouts : Windowed(s, ros[s])'
    BY <1>2, <2>1 DEF Sound, Windowed
  <2>4. \A s \in Rollouts : Created(s) =>
          /\ Created(s)'
          /\ ros'[s].attempted >= ros[s].attempted /\ ros'[s].failures >= ros[s].failures
    BY <1>1, <2>1, <2>2 DEF Created
  <2> QED BY <2>1, <2>3, <2>4 DEF Moves
<1>4. UNCHANGED <<row, pin, cam, job>> /\ op' = [op EXCEPT ![o] = None]
  BY DEF Create
<1> QED BY <1>3, <1>4, OpEnds, JobsKept, StepIsSound

LEMMA PatchBeginsSound ==
  ASSUME Sound, NEW o \in Operators, NEW r \in Rollouts, NEW change \in Changes,
         PatchBegins(o, r, change)
  PROVE  Sound' /\ Moves
<1>1. UNCHANGED <<ros, row, pin, cam, job>> /\ Created(r)
  BY DEF PatchBegins, store
<1>2. PICK f \in Records : f = ros[r] /\ Windowed(r, f)
  BY DEF Sound, Types
<1>3. PICK q \in Patches : q = [kind |-> "patch", rollout |-> r, change |-> change, fresh |-> f]
  BY DEF Patches
<1>4. op' = [op EXCEPT ![o] = q]
  BY <1>2, <1>3 DEF PatchBegins
<1>5. Moves
  BY <1>1, NoMove
<1>6. Earlier(r, f)'
  <2>1. f.attempted \in Nat /\ f.failures \in Nat
    BY DEF Records
  <2> QED BY <1>1, <1>2, <2>1 DEF Earlier, Windowed, Created
<1>7. OpFits(q)'
  <2>1. q.rollout = r /\ q.fresh = f /\ q.kind = "patch"
    BY <1>3
  <2> QED BY <1>6, <2>1 DEF OpFits
<1> QED BY <1>1, <1>4, <1>5, <1>7, OpWritten, JobsKept, StepIsSound DEF Ops

(* The PATCH in progress.                                                  *)
LEMMA PatchOf ==
  ASSUME Sound, NEW o \in Operators, op[o] # None, op[o].kind = "patch"
  PROVE  \E q \in Patches, r \in Rollouts, change \in Changes, g \in Records, f \in Records :
           /\ q = op[o] /\ r = q.rollout /\ change = q.change /\ g = q.fresh
           /\ Earlier(r, g) /\ f = ros[r] /\ Windowed(r, f)
<1>1. PICK q \in Patches : q = op[o] /\ OpFits(q)
  BY OpOf DEF Ops, Creations
<1>2. /\ q.rollout \in Rollouts /\ q.change \in Changes /\ q.fresh \in Records
      /\ Earlier(q.rollout, q.fresh)
  BY <1>1 DEF Patches, OpFits
<1>3. ros[q.rollout] \in Records /\ Windowed(q.rollout, ros[q.rollout])
  BY <1>2 DEF Sound, Types
<1> QED BY <1>1, <1>2, <1>3

LEMMA PatchSound ==
  ASSUME Sound, NEW o \in Operators, Patch(o)
  PROVE  Sound' /\ Moves
<1>1. PICK q \in Patches, r \in Rollouts, change \in Changes, g \in Records, f \in Records :
        /\ q = op[o] /\ r = q.rollout /\ change = q.change /\ g = q.fresh
        /\ Earlier(r, g) /\ f = ros[r] /\ Windowed(r, f)
  BY PatchOf DEF Patch
<1>2. /\ g.attempted <= f.attempted /\ g.failures <= f.failures /\ Created(r)
      /\ Ramped(r) => g.stage <= Len(Stages[r])
  BY <1>1 DEF Earlier
<1>3. PICK p \in Records : p = Patched(f, r, change, g)
  BY <1>1, <1>2, PatchedRecord
<1>4. /\ Windowed(r, p) /\ p.attempted = f.attempted /\ p.failures = f.failures
      /\ p.state = IF change.state = None THEN f.state ELSE change.state
  BY <1>1, <1>2, <1>3, PatchedRecord
<1>5. f.state # "none" /\ p.state # "none"
  <2>1. change.state \in {"active", "paused", None}
    BY RolloutAssumption
  <2> QED BY <1>1, <1>2, <1>4, <2>1 DEF Created
<1>6. ros' = [ros EXCEPT ![r] = p]
  BY <1>1, <1>3 DEF Patch
<1>7. p.attempted >= ros[r].attempted /\ p.failures >= ros[r].failures
  BY <1>1, <1>4 DEF Records
<1>8. Moves
  BY <1>1, <1>4, <1>5, <1>6, <1>7, RosWritten
<1>9. UNCHANGED <<row, pin, cam, job>> /\ op' = [op EXCEPT ![o] = None]
  BY DEF Patch
<1> QED BY <1>8, <1>9, OpEnds, JobsKept, StepIsSound

LEMMA StopSound ==
  ASSUME Sound, NEW r \in Rollouts, Stop(r)
  PROVE  Sound' /\ Moves
<1>1. PICK f \in Records : f = ros[r] /\ Windowed(r, f)
  BY DEF Sound, Types
<1>2. PICK g \in Records : g = [f EXCEPT !.state = "stopped", !.untouched = FALSE]
  BY DEF Records
<1>3. ros' = [ros EXCEPT ![r] = g] /\ UNCHANGED <<row, pin, cam, job, op>> /\ Created(r)
  BY <1>1, <1>2 DEF Stop
<1>4. /\ g.state = "stopped" /\ Windowed(r, g)
      /\ g.attempted = f.attempted /\ g.failures = f.failures
  BY <1>1, <1>2 DEF Records, Windowed
<1>5. g.attempted >= ros[r].attempted /\ g.failures >= ros[r].failures
  BY <1>1, <1>4 DEF Records
<1>6. Moves
  BY <1>3, <1>4, <1>5, RosWritten
<1> QED BY <1>3, <1>6, JobsKept, StepIsSound

LEMMA SetPinSound ==
  ASSUME Sound, NEW c \in Cameras, NEW release \in {Pinned, None}, SetPin(c, release)
  PROVE  Sound' /\ Moves
<1>1. UNCHANGED <<ros, row, cam, job, op>> /\ pin' = [pin EXCEPT ![c] = release]
  BY DEF SetPin
<1>2. pin' \in [Cameras -> Nat \cup {None}]
  BY <1>1, RolloutAssumption DEF Sound, Types
<1>3. Moves
  BY <1>1, NoMove
<1> QED BY <1>1, <1>2, <1>3, JobsKept, StepIsSound

LEMMA SoundStep == Sound /\ [Next]_vars => Sound' /\ Moves
<1> SUFFICES ASSUME Sound, [Next]_vars
             PROVE  Sound' /\ Moves
  OBVIOUS
<1>1. ASSUME NEW c \in Cameras, CheckIn(c) \/ Serve(c) \/ Keep(c) \/ FallBack(c)
      PROVE  Sound' /\ Moves
  BY <1>1, CheckInSound, CountSound, JudgeSound, PauseSound, RaiseSound, StoreSound,
     CameraSound DEF Serve
<1>2. ASSUME NEW r \in Rollouts, Soak(r) \/ Stop(r)
      PROVE  Sound' /\ Moves
  BY <1>2, SoakSound, StopSound
<1>3. ASSUME NEW o \in Operators, Operate(o)
      PROVE  Sound' /\ Moves
  BY <1>3, SupersedeSound, CreateSound, PatchSound DEF Operate
<1>4. CASE Request
  BY <1>2, <1>4, CreateBeginsSound, PatchBeginsSound, SetPinSound DEF Request
<1>5. CASE UNCHANGED vars
  <2>1. UNCHANGED <<ros, row, pin, cam, job, op>>
    BY <1>5 DEF vars
  <2>2. Moves
    BY <2>1, NoMove
  <2> QED BY <2>1, <2>2, JobsKept, StepIsSound
<1> QED BY <1>1, <1>2, <1>3, <1>4, <1>5, CrashSound DEF Next

(* Counters are counts and no window is ever negative, for any number of   *)
(* cameras, requests and restarts: the record a raise or a PATCH took its  *)
(* base from was the rollout's own, earlier, and counts only grow.         *)
THEOREM CountsSound == Spec => []RolloutTypeOK
<1>1. Init => Sound
  BY SoundInit
<1>2. Sound /\ [Next]_vars => Sound'
  BY SoundStep
<1>3. Sound => RolloutTypeOK
  <2> SUFFICES ASSUME Sound
               PROVE  RolloutTypeOK
    OBVIOUS
  <2>1. ASSUME NEW r \in Rollouts
        PROVE  /\ ros[r].state \in {"none", "active", "paused", "stopped"}
               /\ ros[r].percent \in Int /\ ros[r].limit \in Int
               /\ Ramped(r) => ros[r].stage \in 1 .. Len(Stages[r])
               /\ ros[r].abase \in 0 .. ros[r].attempted
               /\ ros[r].fbase \in 0 .. ros[r].failures
    <3>1. PICK f \in Records : f = ros[r] /\ Windowed(r, f)
      BY DEF Sound, Types
    <3>2. Len(Stages[r]) \in Nat
      BY RolloutAssumption
    <3> QED BY <3>1, <3>2 DEF Records, Windowed
  <2> QED BY <2>1 DEF RolloutTypeOK, Sound, Types
<1> QED BY <1>1, <1>2, <1>3, PTL DEF Spec

-----------------------------------------------------------------------------
(* Requests that were not overtaken still write what they read.  Goal is   *)
(* the percent that a raise judged on the record g writes.                 *)
Goal(r, g) == Larger(Stages[r][g.stage + 1].percent, g.percent)

Raising(c, r) == job[c] # None /\ job[c].step = "raise" /\ job[c].rollout = r

VerdictFits(c) ==
  LET j == job[c]
      r == j.rollout
  IN  /\ j.step = "pause" => c \in stale \/ ros[r].state # "stopped"
      /\ j.step = "raise" =>
           /\ c \in stale \/ ros[r].percent <= Goal(r, j.fresh)
           /\ ros[r].soaked = TRUE => ros[r].stage = j.fresh.stage

RequestFits(o) ==
  LET q == op[o]
      r == q.rollout
  IN  /\ q.kind = "supersede" => o \in stale \/ ros[r].state # "stopped"
      /\ q.kind = "patch" =>
           \/ o \in stale
           \/ /\ q.change.state # None => ros[r].state # "stopped"
              /\ q.change.percent # None => ros[r].percent <= q.change.percent

(* The handlers that are raising a rollout judged it at one stage: it soaks*)
(* again only when none is.                                                *)
OneStage ==
  \A c, d \in Cameras, r \in Rollouts :
    Raising(c, r) /\ Raising(d, r) => job[c].fresh.stage = job[d].fresh.stage

Kept ==
  /\ Sound
  /\ \A c \in Cameras : job[c] # None => VerdictFits(c)
  /\ \A o \in Operators : op[o] # None => RequestFits(o)
  /\ OneStage

(* What a step leaves true of the other requests on rollout r.             *)
Spares(r) ==
  /\ ros'[r].soaked = TRUE /\ (\E c \in Cameras : Raising(c, r)) =>
       ros[r].soaked = TRUE /\ ros'[r].stage = ros[r].stage
  /\ \A q \in Holders(r) : q \in Holders(r)' =>
       \/ q \in stale'
       \/ /\ ros'[r].state = "stopped" => ros[r].state = "stopped"
          /\ ros'[r].percent = ros[r].percent
       \/ q \in Cameras /\ Raising(q, r) /\ ros'[r].percent = Goal(r, job[q].fresh)

Remembered ==
  \A q \in stale : q \in stale' \/ \A r \in Rollouts : q \notin Holders(r)'

NewVerdict(c) ==
  job'[c] # None =>
    /\ VerdictFits(c)'
    /\ job'[c].step = "raise" => ros'[job'[c].rollout].soaked = TRUE

(* What the two action properties ask of a step.                           *)
Overtaken(r) == \E q \in stale : q \in Holders(r) /\ q \notin Holders(r)'

HeldAt(r) ==
  /\ ros[r].state = "stopped" /\ ros'[r].state # "stopped" => Overtaken(r)
  /\ Created(r) /\ ros'[r].percent < ros[r].percent => Overtaken(r)

Held == \A r \in Rollouts : HeldAt(r)

LEMMA GoalIsInt ==
  ASSUME NEW r \in Rollouts, NEW g \in Records, Ramped(r), g.stage < Len(Stages[r])
  PROVE  Goal(r, g) \in Int /\ g.percent <= Goal(r, g)
<1>1. g.stage \in Nat \ {0} /\ g.percent \in Int /\ Len(Stages[r]) \in Nat
  BY RolloutAssumption DEF Records
<1>2. PICK m \in Int : m = Stages[r][g.stage + 1].percent
  BY <1>1, StagePercents
<1> QED BY <1>1, <1>2 DEF Goal, Larger

LEMMA CameraHolds ==
  ASSUME NEW c \in Cameras, NEW r
  PROVE  /\ c \in Holders(r) <=>
              job[c] # None /\ job[c].step \in {"pause", "raise"} /\ job[c].rollout = r
         /\ c \in Holders(r)' <=>
              job'[c] # None /\ job'[c].step \in {"pause", "raise"} /\ job'[c].rollout = r
<1>1. c \notin Operators
  BY RolloutAssumption
<1> QED BY <1>1 DEF Holders

LEMMA OperatorHolds ==
  ASSUME NEW o \in Operators, NEW r
  PROVE  /\ o \in Holders(r) <=> op[o] # None /\ op[o].kind # "create" /\ op[o].rollout = r
         /\ o \in Holders(r)' <=> op'[o] # None /\ op'[o].kind # "create" /\ op'[o].rollout = r
<1>1. o \notin Cameras
  BY RolloutAssumption
<1> QED BY <1>1 DEF Holders

LEMMA VerdictStays ==
  ASSUME Kept, NEW c \in Cameras, job[c] # None, job'[c] = job[c],
         \A r \in Rollouts : Spares(r), Remembered
  PROVE  VerdictFits(c)'
<1>1. PICK j \in Jobs : j = job[c] /\ j = job'[c] /\ JobFits(j)
  BY JobOf DEF Kept
<1> SUFFICES ASSUME j.step \in {"pause", "raise"}
             PROVE  VerdictFits(c)'
  BY <1>1 DEF VerdictFits
<1>2. PICK r \in Rollouts : r = j.rollout
  BY <1>1 DEF JobFits
<1>3. c \in Holders(r) /\ c \in Holders(r)'
  BY <1>1, <1>2, CameraHolds
<1>4. VerdictFits(c) /\ Spares(r) /\ (c \in stale => c \in stale')
  BY <1>1, <1>3 DEF Kept, Remembered
<1>5. j.step = "raise" => Raising(c, r)
  BY <1>1, <1>2 DEF Raising
<1>6. /\ j.step = "pause" => c \in stale \/ ros[r].state # "stopped"
      /\ j.step = "raise" =>
           /\ c \in stale \/ ros[r].percent <= Goal(r, j.fresh)
           /\ ros[r].soaked = TRUE => ros[r].stage = j.fresh.stage
  BY <1>1, <1>2, <1>4 DEF VerdictFits
<1>7. j.step = "pause" => c \in stale' \/ ros'[r].state # "stopped"
  BY <1>1, <1>3, <1>4, <1>6 DEF Spares, Raising
<1>8. j.step = "raise" => c \in stale' \/ ros'[r].percent <= Goal(r, j.fresh)
  <2> SUFFICES ASSUME j.step = "raise", c \notin stale'
               PROVE  ros'[r].percent <= Goal(r, j.fresh)
    OBVIOUS
  <2>1. \/ ros'[r].percent = ros[r].percent
        \/ ros'[r].percent = Goal(r, j.fresh)
    BY <1>1, <1>3, <1>4 DEF Spares
  <2>2. Goal(r, j.fresh) \in Int
    BY <1>1, <1>2, GoalIsInt DEF JobFits
  <2> QED BY <1>4, <1>6, <2>1, <2>2
<1>9. j.step = "raise" => (ros'[r].soaked = TRUE => ros'[r].stage = j.fresh.stage)
  BY <1>4, <1>5, <1>6 DEF Spares
<1> QED BY <1>1, <1>2, <1>7, <1>8, <1>9 DEF VerdictFits

LEMMA RequestStays ==
  ASSUME Kept, NEW o \in Operators, op[o] # None, op'[o] = op[o],
         \A r \in Rollouts : Spares(r), Remembered
  PROVE  RequestFits(o)'
<1>1. PICK q \in Ops : q = op[o] /\ q = op'[o] /\ OpFits(q)
  BY OpOf DEF Kept
<1> SUFFICES ASSUME q.kind \in {"supersede", "patch"}
             PROVE  RequestFits(o)'
  BY <1>1 DEF RequestFits
<1>2. PICK r \in Rollouts : r = q.rollout
  BY <1>1 DEF OpFits, Ops, Creations, Patches
<1>3. o \in Holders(r) /\ o \in Holders(r)' /\ o \notin Cameras
  BY <1>1, <1>2, OperatorHolds, RolloutAssumption
<1>4. RequestFits(o) /\ Spares(r) /\ (o \in stale => o \in stale')
  BY <1>1, <1>3 DEF Kept, Remembered
<1>5. \/ o \in stale'
      \/ /\ ros'[r].state = "stopped" => ros[r].state = "stopped"
         /\ ros'[r].percent = ros[r].percent
  BY <1>3, <1>4 DEF Spares
<1> QED BY <1>1, <1>2, <1>4, <1>5 DEF RequestFits

LEMMA StepIsKept ==
  ASSUME Kept, Sound', \A r \in Rollouts : Spares(r), Remembered,
         \A c \in Cameras : job'[c] = job[c] \/ NewVerdict(c),
         \A o \in Operators : op'[o] = op[o] \/ (op'[o] # None => RequestFits(o)')
  PROVE  Kept'
<1>1. ASSUME NEW c \in Cameras, job'[c] # None
      PROVE  VerdictFits(c)'
  BY <1>1, VerdictStays DEF NewVerdict
<1>2. ASSUME NEW o \in Operators, op'[o] # None
      PROVE  RequestFits(o)'
  BY <1>2, RequestStays
<1>3. ASSUME NEW c \in Cameras, NEW d \in Cameras, NEW r \in Rollouts,
             Raising(c, r)', Raising(d, r)'
      PROVE  job'[c].fresh.stage = job'[d].fresh.stage
  <2>1. CASE job'[c] = job[c] /\ job'[d] = job[d]
    BY <1>3, <2>1 DEF Kept, OneStage, Raising
  <2>2. CASE NewVerdict(c) \/ NewVerdict(d)
    <3>1. ros'[r].soaked = TRUE
      BY <1>3, <2>2 DEF NewVerdict, Raising
    <3>2. VerdictFits(c)' /\ VerdictFits(d)'
      BY <1>1, <1>3 DEF Raising
    <3> QED BY <1>3, <3>1, <3>2 DEF VerdictFits, Raising
  <2> QED BY <2>1, <2>2
<1> QED BY <1>1, <1>2, <1>3 DEF Kept, OneStage

LEMMA LeftAlone ==
  ASSUME Sound, NEW r \in Rollouts,
         ros'[r].percent = ros[r].percent, ros'[r].state = ros[r].state,
         \/ ros'[r].stage = ros[r].stage /\ ros'[r].soaked = ros[r].soaked
         \/ \A c \in Cameras : ~Raising(c, r)
  PROVE  Spares(r) /\ HeldAt(r)
<1>1. ros[r].percent \in Int
  BY DEF Sound, Types, Records
<1> QED BY <1>1 DEF Spares, HeldAt

(* A step that writes nothing of a rollout that another request reads to   *)
(* judge by, and moves on at most the requests named.                      *)
LEMMA QuietKept ==
  ASSUME Kept, Sound', stale' = stale,
         \A r \in Rollouts : /\ ros'[r].percent = ros[r].percent /\ ros'[r].state = ros[r].state
                             /\ ros'[r].stage = ros[r].stage /\ ros'[r].soaked = ros[r].soaked,
         \A c \in Cameras : job'[c] = job[c] \/ NewVerdict(c),
         \A o \in Operators : op'[o] = op[o] \/ (op'[o] # None => RequestFits(o)')
  PROVE  Kept' /\ Held
<1>1. \A r \in Rollouts : Spares(r) /\ HeldAt(r)
  BY LeftAlone DEF Kept
<1> QED BY <1>1, StepIsKept DEF Remembered, Held

LEMMA KeptInit == Init => Kept
  BY SoundInit DEF Init, Kept, OneStage, Raising

LEMMA CheckInKept ==
  ASSUME Kept, Sound', NEW c \in Cameras, CheckIn(c)
  PROVE  Kept' /\ Held
<1>1. UNCHANGED <<ros, op, stale>>
  BY DEF CheckIn, store
<1>2. /\ \A x \in Cameras \ {c} : job'[x] = job[x]
      /\ job'[c].step \in {"store", "count"}
  BY DEF CheckIn, Kept, Sound, Types
<1>3. NewVerdict(c)
  BY <1>2 DEF NewVerdict, VerdictFits
<1> QED BY <1>1, <1>2, <1>3, QuietKept

LEMMA CountKept ==
  ASSUME Kept, Sound', NEW c \in Cameras, Count(c)
  PROVE  Kept' /\ Held
<1>1. PICK j \in Jobs, r \in Rollouts, g \in Records : j = job[c] /\ r = j.rollout /\ g = ros[r]
  BY JobWithRollout DEF Kept, Count
<1> DEFINE f == [g EXCEPT !.attempted = @ + Attempts(c), !.failures = @ + Failures(c)]
<1>2. /\ f.percent = g.percent /\ f.state = g.state
      /\ f.stage = g.stage /\ f.soaked = g.soaked
  BY DEF Records
<1>3. ros' = [ros EXCEPT ![r] = f] /\ UNCHANGED <<op, stale>>
  BY <1>1 DEF Count
<1> HIDE DEF f
<1>4. \A s \in Rollouts : /\ ros'[s].percent = ros[s].percent /\ ros'[s].state = ros[s].state
                          /\ ros'[s].stage = ros[s].stage /\ ros'[s].soaked = ros[s].soaked
  BY <1>1, <1>2, <1>3 DEF Kept, Sound, Types
<1>5. /\ \A x \in Cameras \ {c} : job'[x] = job[x]
      /\ job'[c] = [j EXCEPT !.step = "judge"]
  BY <1>1 DEF Count, Kept, Sound, Types
<1>6. job'[c].step = "judge"
  BY <1>5 DEF Jobs
<1>7. NewVerdict(c)
  BY <1>6 DEF NewVerdict, VerdictFits
<1> QED BY <1>3, <1>4, <1>5, <1>7, QuietKept

(* A verdict is about the rollout as it stands: active, and, to be raised, *)
(* soaked.                                                                 *)
LEMMA JudgeKept ==
  ASSUME Kept, Sound', NEW c \in Cameras, Judge(c)
  PROVE  Kept' /\ Held
<1>1. PICK j \in Jobs, r \in Rollouts, f \in Records : j = job[c] /\ r = j.rollout /\ f = ros[r]
  BY JobWithRollout DEF Kept, Judge
<1>2. UNCHANGED <<ros, op, stale>>
  BY DEF Judge, store
<1>3. PICK verdict \in {"store", "pause", "raise"} : verdict = Verdict(r, f)
  BY VerdictRaises
<1>4. PICK fresh \in Records \cup {None} : fresh = IF verdict = "raise" THEN f ELSE None
  OBVIOUS
<1>5. /\ \A x \in Cameras \ {c} : job'[x] = job[x]
      /\ job'[c] = [j EXCEPT !.step = verdict, !.fresh = fresh]
  BY <1>1, <1>3, <1>4 DEF Judge, Kept, Sound, Types
<1>6. job'[c].step = verdict /\ job'[c].fresh = fresh /\ job'[c].rollout = r
  BY <1>1, <1>5 DEF Jobs
<1>7. /\ verdict # "store" => f.state = "active"
      /\ verdict = "raise" => Ramped(r) /\ f.stage < Len(Stages[r]) /\ f.soaked = TRUE
  BY <1>3, VerdictRaises DEF Records
<1>8. verdict = "raise" => f.percent <= Goal(r, f)
  BY <1>7, GoalIsInt
<1>9. NewVerdict(c)
  BY <1>1, <1>2, <1>4, <1>6, <1>7, <1>8 DEF NewVerdict, VerdictFits
<1> QED BY <1>2, <1>5, <1>9, QuietKept

(* A request that ends, or goes on to what needs no verdict, and writes    *)
(* rollout r alone.                                                        *)
LEMMA VerdictWritten ==
  ASSUME Kept, Sound', NEW c \in Cameras, NEW r \in Rollouts,
         \A s \in Rollouts \ {r} : ros'[s] = ros[s], Spares(r), HeldAt(r),
         UNCHANGED op, \A x \in Cameras \ {c} : job'[x] = job[x],
         job'[c].step = "store",
         stale \ {c} \subseteq stale'
  PROVE  Kept' /\ Held
<1>1. \A s \in Rollouts : Spares(s) /\ HeldAt(s)
  BY LeftAlone DEF Kept
<1>2. \A s \in Rollouts : c \notin Holders(s)'
  BY CameraHolds
<1>3. Remembered
  BY <1>2 DEF Remembered
<1>4. NewVerdict(c)
  BY DEF NewVerdict, VerdictFits
<1> QED BY <1>1, <1>3, <1>4, StepIsKept DEF Held

LEMMA PauseKept ==
  ASSUME Kept, Sound', NEW c \in Cameras, Pause(c)
  PROVE  Kept' /\ Held
<1>1. PICK j \in Jobs, r \in Rollouts, f \in Records :
        j = job[c] /\ j.step = "pause" /\ r = j.rollout /\ f = ros[r]
  BY JobWithRollout DEF Kept, Pause
<1>2. PICK g : g = [f EXCEPT !.state = "paused", !.untouched = FALSE]
  OBVIOUS
<1>3. /\ ros'[r] = g /\ \A s \in Rollouts \ {r} : ros'[s] = ros[s]
      /\ ros[r].percent \in Int
  BY <1>1, <1>2 DEF Pause, Kept, Sound, Types, Records
<1>4. /\ g.state = "paused" /\ g.percent = f.percent
      /\ g.stage = f.stage /\ g.soaked = f.soaked
  BY <1>2 DEF Records
<1>5. /\ UNCHANGED op /\ stale' = stale \ {c} /\ \A x \in Cameras \ {c} : job'[x] = job[x]
      /\ job'[c] = [j EXCEPT !.step = "store"]
  BY <1>1 DEF Pause, Kept, Sound, Types
<1>6. job'[c].step = "store"
  BY <1>5 DEF Jobs
<1>7. c \in Holders(r) /\ c \notin Holders(r)'
  BY <1>1, <1>6, CameraHolds DEF Pause
<1>8. f.state = "stopped" => c \in stale
  BY <1>1 DEF Kept, VerdictFits, Pause
<1>9. HeldAt(r)
  BY <1>1, <1>3, <1>4, <1>7, <1>8 DEF HeldAt, Overtaken
<1>10. Spares(r)
  BY <1>1, <1>3, <1>4 DEF Spares
<1> QED BY <1>3, <1>5, <1>6, <1>9, <1>10, VerdictWritten

(* The others that raise from the same percent, and so from the same stage,*)
(* raise to the same percent; the rest have been overtaken.                *)
LEMMA RaiseKept ==
  ASSUME Kept, Sound', NEW c \in Cameras, Raise(c)
  PROVE  Kept' /\ Held
<1>1. PICK j \in Jobs, r \in Rollouts, f \in Records :
        /\ j = job[c] /\ j.step = "raise" /\ JobFits(j) /\ r = j.rollout /\ f = ros[r]
  BY JobWithRollout DEF Kept, Raise
<1>2. PICK g \in Records :
        g = j.fresh /\ Earlier(r, g) /\ Ramped(r) /\ g.stage < Len(Stages[r])
  BY <1>1 DEF JobFits
<1>3. g.attempted <= f.attempted /\ g.failures <= f.failures
  BY <1>1, <1>2 DEF Earlier
<1>4. PICK p \in Records : p = Raised(r, f, g)
  BY <1>2, <1>3, RaisedRecord
<1>5. p.state = f.state /\ p.soaked = FALSE /\ p.percent = Goal(r, g)
  <2>1. /\ Raised(r, f, g).state = f.state /\ Raised(r, f, g).soaked = FALSE
        /\ Raised(r, f, g).percent = Larger(Stages[r][g.stage + 1].percent, g.percent)
    BY <1>2, <1>3, RaisedRecord
  <2> QED BY <1>4, <2>1 DEF Goal
<1>6. ros' = [ros EXCEPT ![r] = p]
  <2>1. ros' = [ros EXCEPT ![r] = Raised(r, f, g)]
    BY <1>1, <1>2, RaiseWrites
  <2> QED BY <1>4, <2>1
<1>7. /\ ros'[r] = p /\ \A s \in Rollouts \ {r} : ros'[s] = ros[s]
      /\ ros[r].percent \in Int /\ p.percent \in Int
  BY <1>6 DEF Kept, Sound, Types, Records
<1>8. /\ UNCHANGED op /\ \A x \in Cameras \ {c} : job'[x] = job[x]
      /\ job'[c] = [j EXCEPT !.step = "store", !.fresh = None]
      /\ stale' = (stale \cup (Holders(r) \ RaisingAs(c))) \ {c}
  BY <1>1 DEF Raise, Kept, Sound, Types
<1>9. job'[c].step = "store"
  BY <1>8 DEF Jobs
<1>10. c \in Holders(r) /\ c \notin Holders(r)'
  BY <1>1, <1>9, CameraHolds DEF Raise
<1>11. c \in stale \/ ros[r].percent <= Goal(r, g)
  BY <1>1, <1>2 DEF Kept, VerdictFits, Raise
<1>12. HeldAt(r)
  BY <1>1, <1>5, <1>7, <1>10, <1>11 DEF HeldAt, Overtaken
<1>13. ASSUME NEW q \in Holders(r), q \in Holders(r)', q \notin stale'
       PROVE  q \in Cameras /\ Raising(q, r) /\ ros'[r].percent = Goal(r, job[q].fresh)
  <2>1. q \in RaisingAs(c)
    BY <1>8, <1>10, <1>13
  <2>2. /\ q \in Cameras /\ job[q] # None /\ job[q].step = "raise"
        /\ job[q].fresh.percent = g.percent
    BY <1>1, <1>2, <2>1 DEF RaisingAs
  <2>3. Raising(q, r) /\ Raising(c, r)
    BY <1>1, <1>13, <2>2, CameraHolds DEF Raising, Raise
  <2>4. job[q].fresh.stage = g.stage
    BY <1>1, <1>2, <2>2, <2>3 DEF Kept, OneStage
  <2>5. Goal(r, job[q].fresh) = Goal(r, g)
    BY <2>2, <2>4 DEF Goal
  <2> QED BY <1>5, <1>7, <2>2, <2>3, <2>5
<1>14. Spares(r)
  BY <1>5, <1>7, <1>13 DEF Spares
<1>15. stale \ {c} \subseteq stale'
  BY <1>8
<1> QED BY <1>7, <1>8, <1>9, <1>12, <1>14, <1>15, VerdictWritten

LEMMA StoreKept ==
  ASSUME Kept, Sound', NEW c \in Cameras, Store(c)
  PROVE  Kept' /\ Held
<1>1. /\ UNCHANGED <<ros, op, stale>>
      /\ job'[c] = None /\ \A x \in Cameras \ {c} : job'[x] = job[x]
  BY DEF Store, Kept, Sound, Types
<1> QED BY <1>1, QuietKept DEF NewVerdict

LEMMA CrashKept ==
  ASSUME Kept, Sound', Crash
  PROVE  Kept' /\ Held
<1>1. /\ ros' = ros /\ \A c \in Cameras : job'[c] = None
      /\ \A o \in Operators : op'[o] = None
  BY DEF Crash, store
<1>2. \A r \in Rollouts : HeldAt(r)
  BY <1>1, LeftAlone DEF Kept
<1> QED BY <1>1, <1>2 DEF Kept, OneStage, Raising, Held

LEMMA IdleKept ==
  ASSUME Kept, Sound', UNCHANGED <<ros, job, op, stale>>
  PROVE  Kept' /\ Held
  BY QuietKept

(* A soak ends while nobody is about to raise.                             *)
LEMMA SoakKept ==
  ASSUME Kept, Sound', NEW r \in Rollouts, Soak(r)
  PROVE  Kept' /\ Held
<1>1. PICK f \in Records : f = ros[r]
  BY DEF Kept, Sound, Types
<1>2. PICK g : g = [f EXCEPT !.soaked = TRUE]
  OBVIOUS
<1>3. /\ ros'[r] = g /\ \A s \in Rollouts \ {r} : ros'[s] = ros[s]
      /\ UNCHANGED <<job, op, stale>>
  BY <1>1, <1>2 DEF Soak, Kept, Sound, Types
<1>4. g.state = f.state /\ g.percent = f.percent
  BY <1>2 DEF Records
<1>5. \A c \in Cameras : ~Raising(c, r)
  BY DEF Soak, Raising
<1>6. \A s \in Rollouts : Spares(s) /\ HeldAt(s)
  BY <1>1, <1>3, <1>4, <1>5, LeftAlone DEF Kept
<1> QED BY <1>3, <1>6, StepIsKept DEF Held, Remembered

LEMMA CreateBeginsKept ==
  ASSUME Kept, Sound', NEW o \in Operators, CreateBegins(o)
  PROVE  Kept' /\ Held
<1>1. UNCHANGED <<ros, job, stale>>
  BY DEF CreateBegins, store
<1>2. PICK prior : prior = Live(ros) /\ (prior # None => ros[prior].state = "active")
  BY LiveIsActive
<1>3. /\ \A x \in Operators \ {o} : op'[x] = op[x]
      /\ op'[o].rollout = prior
      /\ op'[o].kind = IF prior = None THEN "create" ELSE "supersede"
  BY <1>2 DEF CreateBegins, Kept, Sound, Types
<1>4. RequestFits(o)'
  BY <1>1, <1>2, <1>3 DEF RequestFits
<1> QED BY <1>1, <1>3, <1>4, QuietKept

LEMMA PatchBeginsKept ==
  ASSUME Kept, Sound', NEW o \in Operators, NEW r \in Rollouts, NEW change \in Changes,
         PatchBegins(o, r, change)
  PROVE  Kept' /\ Held
<1>1. UNCHANGED <<ros, job, stale>>
  BY DEF PatchBegins, store
<1>2. PICK f \in Records : f = ros[r]
  BY DEF Kept, Sound, Types
<1>3. /\ \A x \in Operators \ {o} : op'[x] = op[x]
      /\ op'[o].rollout = r /\ op'[o].change = change /\ op'[o].kind = "patch"
  BY DEF PatchBegins, Kept, Sound, Types
<1>4. /\ change.percent # None => change.percent >= f.percent
      /\ change.state # None => f.state # "stopped"
      /\ f.percent \in Int /\ (change.percent # None => change.percent \in Int)
  BY <1>2, RolloutAssumption DEF PatchBegins, Records
<1>5. RequestFits(o)'
  BY <1>1, <1>2, <1>3, <1>4 DEF RequestFits
<1> QED BY <1>1, <1>3, <1>5, QuietKept

(* The same of an operator's write.                                        *)
LEMMA RequestWritten ==
  ASSUME Kept, Sound', NEW o \in Operators, NEW r \in Rollouts,
         \A s \in Rollouts \ {r} : ros'[s] = ros[s], Spares(r), HeldAt(r),
         UNCHANGED job, \A x \in Operators \ {o} : op'[x] = op[x],
         op'[o] # None => op'[o].kind = "create",
         stale \ {o} \subseteq stale'
  PROVE  Kept' /\ Held
<1>1. \A s \in Rollouts : Spares(s) /\ HeldAt(s)
  BY LeftAlone DEF Kept
<1>2. \A s \in Rollouts : o \notin Holders(s)'
  BY OperatorHolds
<1>3. Remembered
  BY <1>2 DEF Remembered
<1>4. op'[o] # None => RequestFits(o)'
  BY DEF RequestFits
<1> QED BY <1>1, <1>3, <1>4, StepIsKept DEF Held

LEMMA SupersedeKept ==
  ASSUME Kept, Sound', NEW o \in Operators, Supersede(o)
  PROVE  Kept' /\ Held
<1>1. PICK q \in Ops : q = op[o] /\ OpFits(q) /\ q.kind = "supersede"
  BY OpOf DEF Kept, Supersede
<1>2. PICK r \in Rollouts : r = q.rollout
  BY <1>1 DEF OpFits
<1>3. PICK f \in Records : f = ros[r]
  BY DEF Kept, Sound, Types
<1>4. PICK g : g = [f EXCEPT !.state = "paused", !.untouched = FALSE]
  OBVIOUS
<1>5. /\ ros'[r] = g /\ \A s \in Rollouts \ {r} : ros'[s] = ros[s]
      /\ ros[r].percent \in Int
  BY <1>1, <1>2, <1>3, <1>4 DEF Supersede, Kept, Sound, Types, Records
<1>6. /\ g.state = "paused" /\ g.percent = f.percent
      /\ g.stage = f.stage /\ g.soaked = f.soaked
  BY <1>4 DEF Records
<1>7. /\ UNCHANGED job /\ stale' = stale \ {o} /\ \A x \in Operators \ {o} : op'[x] = op[x]
      /\ op'[o] = [q EXCEPT !.kind = "create"]
  BY <1>1 DEF Supersede, Kept, Sound, Types
<1>8. op'[o].kind = "create"
  <2>1. q \in Creations
    BY <1>1 DEF Ops, Patches
  <2> QED BY <1>7, <2>1 DEF Creations
<1>9. o \in Holders(r) /\ o \notin Holders(r)'
  BY <1>1, <1>2, <1>8, OperatorHolds DEF Supersede
<1>10. f.state = "stopped" => o \in stale
  BY <1>1, <1>2, <1>3 DEF Kept, RequestFits, Supersede
<1>11. HeldAt(r)
  BY <1>3, <1>5, <1>6, <1>9, <1>10 DEF HeldAt, Overtaken
<1>12. Spares(r)
  BY <1>3, <1>5, <1>6 DEF Spares
<1> QED BY <1>5, <1>7, <1>8, <1>11, <1>12, RequestWritten

(* Nobody holds a rollout that is not created.                             *)
LEMMA CreateKept ==
  ASSUME Kept, Sound', NEW o \in Operators, Create(o)
  PROVE  Kept' /\ Held
<1>1. PICK r \in Rollouts, p \in Percents, l \in Limits :
        ~Created(r) /\ ros' = [ros EXCEPT ![r] = Fresh(r, p, l)]
  BY DEF Create
<1>2. \A s \in Rollouts \ {r} : ros'[s] = ros[s]
  BY <1>1 DEF Kept, Sound, Types
<1>3. /\ UNCHANGED <<job, stale>> /\ \A x \in Operators \ {o} : op'[x] = op[x]
      /\ op'[o] = None
  BY DEF Create, Kept, Sound, Types
<1>4. HeldAt(r)
  BY <1>1 DEF HeldAt, Created
<1>5. ASSUME NEW c \in Cameras, c \in Holders(r)
      PROVE  FALSE
  <2>1. PICK j \in Jobs : j = job[c] /\ JobFits(j) /\ j.rollout = r
    BY <1>5, JobOf, CameraHolds DEF Kept
  <2> QED BY <1>1, <2>1, NoneIsNoRollout DEF JobFits
<1>6. ASSUME NEW x \in Operators, x \in Holders(r)
      PROVE  FALSE
  <2>1. PICK q \in Ops : q = op[x] /\ OpFits(q) /\ q.rollout = r /\ q.kind # "create"
    BY <1>6, OpOf, OperatorHolds DEF Kept
  <2> QED BY <1>1, <2>1 DEF OpFits, Ops, Creations, Patches, Earlier
<1>7. Holders(r) = {}
  BY <1>5, <1>6 DEF Holders
<1>8. \A c \in Cameras : ~Raising(c, r)
  BY <1>7, CameraHolds DEF Raising
<1>9. Spares(r)
  BY <1>7, <1>8 DEF Spares
<1> QED BY <1>2, <1>3, <1>4, <1>9, RequestWritten

(* A PATCH with a percent overtakes every other request on its rollout; one*)
(* with a state sets it to what nobody stopped.                            *)
LEMMA PatchKept ==
  ASSUME Kept, Sound', NEW o \in Operators, Patch(o)
  PROVE  Kept' /\ Held
<1>1. PICK q \in Patches, r \in Rollouts, change \in Changes, g \in Records, f \in Records :
        /\ q = op[o] /\ r = q.rollout /\ change = q.change /\ g = q.fresh
        /\ Earlier(r, g) /\ f = ros[r] /\ Windowed(r, f)
  BY PatchOf DEF Kept, Patch
<1>2. /\ g.attempted <= f.attempted /\ g.failures <= f.failures
      /\ Ramped(r) => g.stage <= Len(Stages[r])
  BY <1>1 DEF Earlier
<1>3. PICK p \in Records : p = Patched(f, r, change, g)
  BY <1>1, <1>2, PatchedRecord
<1>4. /\ p.state = IF change.state = None THEN f.state ELSE change.state
      /\ p.percent = IF change.percent = None THEN f.percent ELSE change.percent
  BY <1>1, <1>2, <1>3, PatchedRecord
<1>5. p.soaked = TRUE => f.soaked = TRUE /\ p.stage = f.stage
  <2> DEFINE stage == IF Ramped(r) /\ change.percent # None
                      THEN StageFor(r, g.stage, change.percent) ELSE g.stage
             over == Ramped(r) /\ (stage # g.stage
                                   \/ (change.state = "active" /\ g.state # "active"))
  <2>1. p.soaked = (IF over THEN FALSE ELSE f.soaked)
    BY <1>3 DEF Patched, Records
  <2>2. p.stage = IF over THEN stage ELSE f.stage
    BY <1>3 DEF Patched, Records
  <2> QED BY <2>1, <2>2
<1>6. /\ ros'[r] = p /\ \A s \in Rollouts \ {r} : ros'[s] = ros[s]
      /\ ros[r].percent \in Int
  BY <1>1, <1>3 DEF Patch, Kept, Sound, Types, Records
<1>7. /\ UNCHANGED job /\ op'[o] = None /\ \A x \in Operators \ {o} : op'[x] = op[x]
      /\ stale' = (stale \cup IF change.percent = None THEN {} ELSE Holders(r)) \ {o}
  BY <1>1 DEF Patch, Kept, Sound, Types
<1>8. o \in Holders(r) /\ o \notin Holders(r)'
  BY <1>1, <1>7, OperatorHolds DEF Patch, Patches
<1>9. \/ o \in stale
      \/ /\ change.state # None => f.state # "stopped"
         /\ change.percent # None => f.percent <= change.percent
  BY <1>1 DEF Kept, RequestFits, Patch
<1>10. HeldAt(r)
  <2>1. change.percent # None => change.percent \in Int
    BY RolloutAssumption
  <2> QED BY <1>1, <1>4, <1>6, <1>8, <1>9, <2>1 DEF HeldAt, Overtaken
<1>11. change.state # None => change.state # "stopped"
  BY RolloutAssumption
<1>12. ASSUME NEW x \in Holders(r), x \in Holders(r)', x \notin stale'
       PROVE  ros'[r].percent = ros[r].percent
  BY <1>1, <1>4, <1>6, <1>7, <1>8, <1>12
<1>13. Spares(r)
  BY <1>1, <1>4, <1>5, <1>6, <1>11, <1>12 DEF Spares
<1> QED BY <1>6, <1>7, <1>10, <1>13, RequestWritten

LEMMA StopKept ==
  ASSUME Kept, Sound', NEW r \in Rollouts, Stop(r)
  PROVE  Kept' /\ Held
<1>1. PICK f \in Records : f = ros[r]
  BY DEF Kept, Sound, Types
<1>2. PICK g : g = [f EXCEPT !.state = "stopped", !.untouched = FALSE]
  OBVIOUS
<1>3. /\ ros'[r] = g /\ \A s \in Rollouts \ {r} : ros'[s] = ros[s]
      /\ ros[r].percent \in Int
      /\ UNCHANGED <<job, op>> /\ stale' = stale \cup Holders(r)
  BY <1>1, <1>2 DEF Stop, Kept, Sound, Types, Records
<1>4. /\ g.state = "stopped" /\ g.percent = f.percent
      /\ g.stage = f.stage /\ g.soaked = f.soaked
  BY <1>2 DEF Records
<1>5. Spares(r) /\ HeldAt(r)
  BY <1>1, <1>3, <1>4 DEF Spares, HeldAt
<1>6. \A s \in Rollouts : Spares(s) /\ HeldAt(s)
  BY <1>3, <1>5, LeftAlone DEF Kept
<1> QED BY <1>3, <1>6, StepIsKept DEF Held, Remembered

LEMMA KeptStep == Kept /\ [Next]_vars => Kept' /\ Held
<1> SUFFICES ASSUME Kept, [Next]_vars
             PROVE  Kept' /\ Held
  OBVIOUS
<1>1. Sound'
  BY SoundStep DEF Kept
<1>2. ASSUME NEW c \in Cameras, CheckIn(c) \/ Serve(c)
      PROVE  Kept' /\ Held
  BY <1>1, <1>2, CheckInKept, CountKept, JudgeKept, PauseKept, RaiseKept, StoreKept DEF Serve
<1>3. ASSUME NEW c \in Cameras, Keep(c) \/ FallBack(c)
      PROVE  Kept' /\ Held
  BY <1>1, <1>3, IdleKept DEF Keep, FallBack, store
<1>4. ASSUME NEW r \in Rollouts, Soak(r) \/ Stop(r)
      PROVE  Kept' /\ Held
  BY <1>1, <1>4, SoakKept, StopKept
<1>5. ASSUME NEW o \in Operators, Operate(o)
      PROVE  Kept' /\ Held
  BY <1>1, <1>5, SupersedeKept, CreateKept, PatchKept DEF Operate
<1>6. CASE Request
  <2>1. ASSUME NEW c \in Cameras, NEW p \in {Pinned, None}, SetPin(c, p)
        PROVE  Kept' /\ Held
    BY <1>1, <2>1, IdleKept DEF SetPin
  <2> QED BY <1>1, <1>4, <1>6, <2>1, CreateBeginsKept, PatchBeginsKept DEF Request
<1>7. CASE UNCHANGED vars
  BY <1>1, <1>7, IdleKept DEF vars
<1> QED BY <1>1, <1>2, <1>3, <1>4, <1>5, <1>6, <1>7, CrashKept DEF Next

(* Whatever overlaps, a stopped rollout loses its stop only to a check-in's*)
(* verdict, a PATCH or a creation that had read it before it was stopped.  *)
THEOREM StopsHold == Spec => StopHolds
<1>1. Kept /\ [Next]_vars =>
        [\A r \in Rollouts : ros[r].state = "stopped" /\ ros'[r].state # "stopped"
           => \E q \in stale : q \in Holders(r) /\ q \notin Holders(r)']_vars
  BY KeptStep DEF Held, HeldAt, Overtaken
<1> QED BY <1>1, KeptInit, KeptStep, PTL DEF Spec, StopHolds

(* ... and its percent is lowered only by a request overtaken since it read*)
(* the rollout: check-ins that raise it at the same time raise it alike.   *)
THEOREM DialHeld == Spec => DialHolds
<1>1. Kept /\ [Next]_vars =>
        [\A r \in Rollouts : Created(r) /\ ros'[r].percent < ros[r].percent
           => \E q \in stale : q \in Holders(r) /\ q \notin Holders(r)']_vars
  BY KeptStep DEF Held, HeldAt, Overtaken
<1> QED BY <1>1, KeptInit, KeptStep, PTL DEF Spec, DialHolds

-----------------------------------------------------------------------------
(* Offers and counts.  Each release is shipped by one rollout, and no pin  *)
(* names one that a rollout ships.                                         *)
Distinct ==
  /\ \A r, s \in Rollouts : Release[r] = Release[s] => r = s
  /\ \A r \in Rollouts : Release[r] # Pinned

(* The cameras a rollout has counted and may still have to answer.         *)
Counting(r) ==
  {c \in Cameras : /\ job[c] # None /\ job[c].step # "count"
                   /\ job[c].offered /\ job[c].rollout = r}
Counted(r) == reached[r] \cup Counting(r)

CountedFits(r) ==
  /\ IsFiniteSet(Counted(r))
  /\ Counted(r) # {} => Created(r) /\ Cardinality(Counted(r)) <= ros[r].attempted

OfferOf(j) ==
  j.offered => j.release = IF j.rollout = None THEN Pinned ELSE Release[j.rollout]

(* A row that says a release was offered was written by an answer.         *)
OfferInv ==
  /\ \A c \in Cameras : pin[c] \in {Pinned, None}
  /\ \A c \in Cameras : job[c] # None => OfferOf(job[c])
  /\ \A c \in Cameras, r \in Rollouts : row[c].offered = Release[r] => c \in reached[r]
  /\ reached \in [Rollouts -> SUBSET Cameras]
  /\ \A r \in Rollouts : CountedFits(r)

LEMMA OfferStart == Init => OfferInv
<1> SUFFICES ASSUME Init
             PROVE  OfferInv
  OBVIOUS
<1>1. \A r \in Rollouts : Counted(r) = {}
  BY DEF Init, Counted, Counting
<1>2. \A r \in Rollouts : CountedFits(r)
  BY <1>1, FS_EmptySet DEF CountedFits
<1>3. \A r \in Rollouts : Release[r] \in Nat /\ Release[r] # None
  BY RolloutAssumption
<1> QED BY <1>2, <1>3 DEF Init, OfferInv

(* Cameras that leave, or stay, need no new count.                         *)
LEMMA CountedStays ==
  ASSUME Sound, Sound', Moves, OfferInv, NEW r \in Rollouts, Counted(r)' \subseteq Counted(r)
  PROVE  CountedFits(r)'
<1>1. CountedFits(r)
  BY DEF OfferInv
<1>2. IsFiniteSet(Counted(r)') /\ Cardinality(Counted(r)') <= Cardinality(Counted(r))
  BY <1>1, FS_Subset DEF CountedFits
<1>3. Cardinality(Counted(r)') \in Nat /\ Cardinality(Counted(r)) \in Nat
  BY <1>1, <1>2, FS_CardinalityType DEF CountedFits
<1>4. ros[r].attempted \in Nat /\ ros'[r].attempted \in Nat
  BY DEF Sound, Types, Records
<1>5. Counted(r)' # {} => Created(r)' /\ Cardinality(Counted(r)') <= ros'[r].attempted
  BY <1>1, <1>2, <1>3, <1>4 DEF CountedFits, Moves
<1> QED BY <1>2, <1>5 DEF CountedFits

(* Check-ins that are new, go on after their count, or end.                *)
SameOffer(j, k) ==
  /\ OfferOf(k)
  /\ k.step # "count" /\ k.offered /\ k.rollout \in Rollouts =>
       /\ j # None /\ j.step # "count" /\ j.offered
       /\ j.rollout = k.rollout

LEMMA NothingAnswered ==
  ASSUME Sound, Sound', Moves, OfferInv, row' = row, reached' = reached,
         \A c \in Cameras : pin'[c] \in {Pinned, None},
         \A c \in Cameras : job'[c] # None => SameOffer(job[c], job'[c])
  PROVE  OfferInv'
<1>1. ASSUME NEW r \in Rollouts  PROVE Counted(r)' \subseteq Counted(r)
  BY DEF Counted, Counting, SameOffer
<1>2. \A r \in Rollouts : CountedFits(r)'
  BY <1>1, CountedStays
<1>3. \A c \in Cameras : job'[c] # None => OfferOf(job'[c])
  BY DEF SameOffer
<1> QED BY <1>2, <1>3 DEF OfferInv, OfferOf

(* A check-in that writes no table but rollouts keeps what it answers.     *)
LEMMA ServedOn ==
  ASSUME Sound, Sound', Moves, OfferInv, NEW c \in Cameras, NEW k \in Jobs,
         job' = [job EXCEPT ![c] = k], row' = row, pin' = pin, reached' = reached,
         SameOffer(job[c], k)
  PROVE  OfferInv'
<1>1. \A x \in Cameras : job'[x] = IF x = c THEN k ELSE job[x]
  BY DEF Sound, Types
<1>2. \A x \in Cameras : job[x] # None => SameOffer(job[x], job[x])
  BY DEF SameOffer, OfferInv
<1>3. \A x \in Cameras : job'[x] # None => SameOffer(job[x], job'[x])
  BY <1>1, <1>2
<1>4. \A x \in Cameras : pin'[x] \in {Pinned, None}
  BY DEF OfferInv
<1> QED BY <1>3, <1>4, NothingAnswered

LEMMA CheckInOffers ==
  ASSUME Sound, Sound', Moves, OfferInv, NEW c \in Cameras, CheckIn(c)
  PROVE  OfferInv'
<1> DEFINE d == Decision(c)
           k == [step |-> IF d.rollout = None THEN "store" ELSE "count",
                 fell |-> cam[c].fell, rollout |-> d.rollout, release |-> d.release,
                 offered |-> d.offered, fresh |-> None]
<1>1. job' = [job EXCEPT ![c] = k] /\ UNCHANGED <<row, pin, reached>>
  BY DEF CheckIn, store
<1>2. d.offered => d.release = IF d.rollout = None THEN Pinned ELSE Release[d.rollout]
  BY DEF Decision, OfferInv
<1>3. k \in Jobs
  <2>1. job'[c] = k /\ job'[c] \in Jobs \cup {None}
    BY <1>1 DEF Sound, Types
  <2>2. cam[c].fell \in BOOLEAN
    BY DEF Sound, Types, Cams
  <2> QED BY <2>2, DecisionTypes DEF Jobs, JobSteps
<1>4. SameOffer(job[c], k)
  BY <1>2, NoneIsNoRollout DEF SameOffer, OfferOf
<1> QED BY <1>1, <1>3, <1>4, ServedOn

LEMMA CountOffers ==
  ASSUME Sound, Sound', Moves, OfferInv, NEW c \in Cameras, Count(c)
  PROVE  OfferInv'
<1>1. PICK j \in Jobs : j = job[c] /\ j.step = "count" /\ j.rollout \in Rollouts /\ Created(j.rollout)
  BY JobOf, NoneIsNoRollout DEF Count, JobFits
<1>2. PICK r \in Rollouts : r = j.rollout
  BY <1>1
<1>3. /\ job' = [job EXCEPT ![c] = [j EXCEPT !.step = "judge"]]
      /\ UNCHANGED <<row, pin, reached>>
  BY <1>1 DEF Count
<1>4. \A x \in Cameras \ {c} : job'[x] = job[x]
  BY <1>3 DEF Sound, Types
<1>5. job'[c].offered = j.offered /\ job'[c].rollout = r /\ job'[c].release = j.release
  <2>1. job'[c] = [j EXCEPT !.step = "judge"]
    BY <1>3 DEF Sound, Types
  <2> QED BY <1>2, <2>1 DEF Jobs
<1>6. \A x \in Cameras : job'[x] # None => OfferOf(job'[x])
  <2>1. OfferOf(j)
    BY <1>1 DEF OfferInv, Count
  <2> QED BY <1>2, <1>4, <1>5, <2>1 DEF OfferInv, OfferOf
<1>7. ros'[r].attempted = ros[r].attempted + Attempts(c)
  <2>1. PICK f \in Records : f = ros[r]
    BY DEF Sound, Types
  <2>2. PICK a \in Nat, b \in Nat : a = Attempts(c) /\ b = Failures(c)
    BY DEF Attempts, Failures
  <2>3. PICK m \in Nat, n \in Nat : m = f.attempted + a /\ n = f.failures + b
    BY DEF Records
  <2>4. ros' = [ros EXCEPT ![r] = [f EXCEPT !.attempted = m, !.failures = n]]
    BY <1>1, <1>2, <2>1, <2>2, <2>3 DEF Count
  <2>5. ros'[r] = [f EXCEPT !.attempted = m, !.failures = n]
    BY <2>4 DEF Sound, Types
  <2> QED BY <2>1, <2>2, <2>3, <2>5 DEF Records
<1>8. \A s \in Rollouts \ {r} : CountedFits(s)'
  <2>1. \A s \in Rollouts \ {r} : Counted(s)' \subseteq Counted(s)
    BY <1>3, <1>4, <1>5 DEF Counted, Counting
  <2> QED BY <2>1, CountedStays
<1>9. Counted(r)' \subseteq Counted(r) \cup {c}
  BY <1>3, <1>4 DEF Counted, Counting
<1>10. CASE Attempts(c) = 1
  <2>1. CountedFits(r) /\ ros[r].attempted \in Nat /\ Created(r)'
    BY <1>1, <1>2 DEF OfferInv, Sound, Types, Records, Moves
  <2>2. /\ IsFiniteSet(Counted(r) \cup {c})
        /\ Cardinality(Counted(r) \cup {c}) <= Cardinality(Counted(r)) + 1
    <3>1. IsFiniteSet(Counted(r)) /\ Cardinality(Counted(r)) \in Nat
      BY <2>1, FS_CardinalityType DEF CountedFits
    <3> QED BY <3>1, FS_AddElement
  <2>3. /\ IsFiniteSet(Counted(r)')
        /\ Cardinality(Counted(r)') <= Cardinality(Counted(r) \cup {c})
    BY <1>9, <2>2, FS_Subset
  <2>4. Cardinality(Counted(r)) <= ros[r].attempted
    BY <2>1, FS_EmptySet DEF CountedFits
  <2>5. /\ Cardinality(Counted(r)') \in Nat /\ Cardinality(Counted(r)) \in Nat
        /\ Cardinality(Counted(r) \cup {c}) \in Nat
    BY <2>1, <2>2, <2>3, FS_CardinalityType DEF CountedFits
  <2>6. Cardinality(Counted(r)') <= ros'[r].attempted
    BY <1>7, <1>10, <2>1, <2>2, <2>3, <2>4, <2>5
  <2>7. CountedFits(r)'
    BY <2>1, <2>3, <2>6 DEF CountedFits
  <2> QED BY <1>3, <1>6, <1>8, <2>7 DEF OfferInv, OfferOf
<1>11. CASE Attempts(c) # 1
  <2>1. j.offered => row[c].offered = Release[r]
    BY <1>1, <1>2, <1>11, NoneIsNoRollout DEF Attempts, OfferInv, OfferOf, Count
  <2>2. j.offered => c \in reached[r]
    BY <2>1 DEF OfferInv
  <2>3. Counted(r)' \subseteq Counted(r)
    BY <1>3, <1>4, <1>5, <2>2 DEF Counted, Counting
  <2>4. CountedFits(r)'
    BY <2>3, CountedStays
  <2> QED BY <1>3, <1>6, <1>8, <2>4 DEF OfferInv, OfferOf
<1> QED BY <1>10, <1>11

LEMMA StoreOffers ==
  ASSUME Distinct, Sound, Sound', Moves, OfferInv, NEW c \in Cameras, Store(c)
  PROVE  OfferInv'
<1>1. PICK j \in Jobs : j = job[c] /\ j.step = "store" /\ job[c] # None
  BY JobOf DEF Store
<1>2. /\ job' = [job EXCEPT ![c] = None] /\ UNCHANGED pin
      /\ row' = [row EXCEPT ![c] =
           [fell |-> j.fell, offered |-> IF j.offered THEN j.release ELSE row[c].offered]]
      /\ reached' = [r \in Rollouts |->
           IF j.offered /\ j.rollout = r THEN reached[r] \cup {c} ELSE reached[r]]
  BY <1>1 DEF Store
<1>3. /\ job'[c] = None /\ \A x \in Cameras \ {c} : job'[x] = job[x] /\ row'[x] = row[x]
      /\ row'[c].offered = IF j.offered THEN j.release ELSE row[c].offered
  BY <1>2 DEF Sound, Types
<1>4. /\ reached' \in [Rollouts -> SUBSET Cameras]
      /\ \A r \in Rollouts : reached[r] \subseteq reached'[r]
  BY <1>2 DEF OfferInv
<1>5. \A x \in Cameras, r \in Rollouts : row'[x].offered = Release[r] => x \in reached'[r]
  <2>1. ASSUME NEW x \in Cameras \ {c}, NEW r \in Rollouts, row'[x].offered = Release[r]
        PROVE  x \in reached'[r]
    BY <1>3, <1>4, <2>1 DEF OfferInv
  <2>2. ASSUME NEW r \in Rollouts, row'[c].offered = Release[r]
        PROVE  c \in reached'[r]
    <3>1. CASE j.offered
      <4>1. j.release = Release[r]
        BY <1>3, <2>2, <3>1
      <4>2. j.rollout \in Rollouts /\ Release[j.rollout] = Release[r]
        BY <1>1, <3>1, <4>1 DEF OfferInv, OfferOf, Distinct, Jobs
      <4>3. j.rollout = r
        BY <4>2 DEF Distinct
      <4> QED BY <1>2, <3>1, <4>3
    <3>2. CASE ~j.offered
      BY <1>3, <1>4, <2>2, <3>2 DEF OfferInv
    <3> QED BY <3>1, <3>2
  <2> QED BY <2>1, <2>2
<1>6. ASSUME NEW r \in Rollouts
      PROVE  CountedFits(r)'
  <2>1. Counting(r)' \subseteq Counting(r)
    BY <1>3 DEF Counting
  <2>2. reached'[r] \subseteq Counted(r)
    BY <1>1, <1>2 DEF Counted, Counting
  <2>3. Counted(r)' \subseteq Counted(r)
    BY <2>1, <2>2 DEF Counted
  <2> QED BY <2>3, CountedStays
<1>7. \A x \in Cameras : pin'[x] \in {Pinned, None}
  BY <1>2 DEF OfferInv
<1>8. \A x \in Cameras : job'[x] # None => OfferOf(job'[x])
  BY <1>3 DEF OfferInv
<1> QED BY <1>4, <1>5, <1>6, <1>7, <1>8 DEF OfferInv, OfferOf

(* Judging, pausing and raising leave the offer that will be answered.     *)
LEMMA VerdictOffers ==
  ASSUME Sound, Sound', Moves, OfferInv, NEW c \in Cameras, Judge(c) \/ Pause(c) \/ Raise(c)
  PROVE  OfferInv'
<1>1. PICK j \in Jobs : j = job[c] /\ j.step # "count" /\ job[c] # None
  BY JobOf DEF Judge, Pause, Raise
<1>2. UNCHANGED <<row, pin, reached>> /\ \A x \in Cameras \ {c} : job'[x] = job[x]
  BY DEF Judge, Pause, Raise, store, Sound, Types
<1>3. /\ job'[c].offered = j.offered /\ job'[c].rollout = j.rollout
      /\ job'[c].release = j.release
  <2>1. CASE Judge(c)
    <3>1. job'[c] = [j EXCEPT !.step = Verdict(j.rollout, ros[j.rollout]),
                              !.fresh = IF Verdict(j.rollout, ros[j.rollout]) = "raise"
                                        THEN ros[j.rollout] ELSE None]
      BY <1>1, <2>1 DEF Judge, Sound, Types
    <3> QED BY <3>1 DEF Jobs
  <2>2. CASE Pause(c)
    <3>1. job'[c] = [j EXCEPT !.step = "store"]
      BY <1>1, <2>2 DEF Pause, Sound, Types
    <3> QED BY <3>1 DEF Jobs
  <2>3. CASE Raise(c)
    <3>1. job'[c] = [j EXCEPT !.step = "store", !.fresh = None]
      BY <1>1, <2>3 DEF Raise, Sound, Types
    <3> QED BY <3>1 DEF Jobs
  <2> QED BY <2>1, <2>2, <2>3
<1>4. \A x \in Cameras : job'[x] # None => SameOffer(job[x], job'[x])
  BY <1>1, <1>2, <1>3 DEF SameOffer, OfferInv, OfferOf
<1>5. \A x \in Cameras : pin'[x] \in {Pinned, None}
  BY <1>2 DEF OfferInv
<1> QED BY <1>2, <1>4, <1>5, NothingAnswered

LEMMA OfferStep == Distinct /\ Sound /\ OfferInv /\ [Next]_vars => OfferInv'
<1> SUFFICES ASSUME Distinct, Sound, OfferInv, [Next]_vars
             PROVE  OfferInv'
  OBVIOUS
<1>1. Sound' /\ Moves
  BY SoundStep
<1>2. \A x \in Cameras : job[x] # None => SameOffer(job[x], job[x])
  BY DEF SameOffer, OfferInv
<1>3. ASSUME UNCHANGED <<row, reached, job>>, \A x \in Cameras : pin'[x] \in {Pinned, None}
      PROVE  OfferInv'
  BY <1>1, <1>2, <1>3, NothingAnswered
<1>4. ASSUME UNCHANGED <<row, reached, job, pin>>
      PROVE  OfferInv'
  BY <1>3, <1>4 DEF OfferInv
<1>5. ASSUME NEW c \in Cameras, CheckIn(c) \/ Serve(c)
      PROVE  OfferInv'
  BY <1>1, <1>5, CheckInOffers, CountOffers, VerdictOffers, StoreOffers DEF Serve
<1>6. ASSUME NEW c \in Cameras, NEW p \in {Pinned, None}, SetPin(c, p)
      PROVE  OfferInv'
  <2>1. \A x \in Cameras : pin'[x] \in {Pinned, None}
    BY <1>6 DEF SetPin, OfferInv, Sound, Types
  <2> QED BY <1>3, <1>6, <2>1 DEF SetPin
<1>7. CASE Crash
  <2>1. \A x \in Cameras : job'[x] = None
    BY <1>7 DEF Crash
  <2>2. UNCHANGED <<row, reached, pin>>
    BY <1>7 DEF Crash, store
  <2>3. \A x \in Cameras : pin'[x] \in {Pinned, None}
    BY <2>2 DEF OfferInv
  <2> QED BY <1>1, <2>1, <2>2, <2>3, NothingAnswered
<1>8. CASE Request
  <2>1. ASSUME NEW r \in Rollouts, Stop(r)
        PROVE  OfferInv'
    BY <1>4, <2>1 DEF Stop
  <2>2. ASSUME NEW o \in Operators, CreateBegins(o)
        PROVE  OfferInv'
    BY <1>4, <2>2 DEF CreateBegins, store
  <2>3. ASSUME NEW o \in Operators, NEW r \in Rollouts, NEW change \in Changes,
               PatchBegins(o, r, change)
        PROVE  OfferInv'
    BY <1>4, <2>3 DEF PatchBegins, store
  <2> QED BY <1>6, <1>8, <2>1, <2>2, <2>3 DEF Request
<1>9. ASSUME NEW o \in Operators, Operate(o)
      PROVE  OfferInv'
  BY <1>4, <1>9 DEF Operate, Supersede, Create, Patch
<1>10. ASSUME NEW c \in Cameras, Keep(c) \/ FallBack(c)
       PROVE  OfferInv'
  BY <1>4, <1>10 DEF Keep, FallBack, store
<1>11. ASSUME NEW r \in Rollouts, Soak(r)
       PROVE  OfferInv'
  BY <1>4, <1>11 DEF Soak
<1>12. CASE UNCHANGED vars
  BY <1>4, <1>12 DEF vars
<1> QED BY <1>5, <1>7, <1>8, <1>9, <1>10, <1>11, <1>12 DEF Next

(* Where no release is shipped twice, a rollout has counted every camera   *)
(* it answered with its release, so its failure limit judges no fewer than *)
(* it exposed: for any fleet, interleaving of handlers, races and restarts.*)
THEOREM OffersCounted ==
  ASSUME Distinct
  PROVE  Spec => []OfferedAreCounted
<1>1. Sound /\ OfferInv /\ [Next]_vars => Sound' /\ OfferInv'
  BY SoundStep, OfferStep
<1>2. Sound /\ OfferInv => OfferedAreCounted
  <2> SUFFICES ASSUME Sound, OfferInv, NEW r \in Rollouts
               PROVE  Cardinality(reached[r]) <= ros[r].attempted
    BY DEF OfferedAreCounted
  <2>1. CountedFits(r) /\ reached[r] \subseteq Counted(r) /\ ros[r].attempted \in Nat
    BY DEF OfferInv, Counted, Sound, Types, Records
  <2>2. /\ IsFiniteSet(reached[r])
        /\ Cardinality(reached[r]) <= Cardinality(Counted(r))
    BY <2>1, FS_Subset DEF CountedFits
  <2>3. Cardinality(Counted(r)) <= ros[r].attempted
    BY <2>1, FS_EmptySet DEF CountedFits
  <2>4. Cardinality(reached[r]) \in Nat /\ Cardinality(Counted(r)) \in Nat
    BY <2>1, <2>2, FS_CardinalityType DEF CountedFits
  <2> QED BY <2>1, <2>2, <2>3, <2>4
<1> QED BY <1>1, <1>2, SoundInit, OfferStart, PTL DEF Spec
=============================================================================
