------------------------------ MODULE Rollout ------------------------------
(***************************************************************************)
(* Staged rollouts on the update server, for one product and cohort.       *)
(* Cameras check in; a check-in handler is a sequence of separate database *)
(* statements, and handlers run in a thread pool, beside the requests of   *)
(* several operators, which overlap each other too.  A rollout counts what *)
(* its cameras report, raises itself through its stages and pauses itself  *)
(* at its failure limit.                                                   *)
(***************************************************************************)
EXTENDS Integers, Sequences, FiniteSets

CONSTANTS
  Cameras,
  Installed,    \* Installed[c]: the release camera c runs at first
  Operators,    \* each has at most one request under way
  Pinnable,     \* those an operator may pin to release Pinned
  Pinned,
  Rollouts,     \* 1 .. n, in the order they are created: the bound on creations
  Release,      \* Release[r]: what rollout r ships; a release is its version
  Ticket,       \* Ticket[r][c]: the camera's place in the staging lottery
  Stages,       \* Stages[r]: the declared ramp, <<>> for a manual rollout
  Percents, Limits,    \* what a creation may set
  Changes,      \* what a PATCH may ask for: a percent, a limit, a state, or some
  MaxFalls,     \* bound on failed trials
  MaxOps,       \* bound on operators' requests and server restarts together
  None

Stage == [percent : 0 .. 100, attempted : Nat, ceiling : (0 .. 100) \cup {None}]

ASSUME RolloutAssumption ==
  /\ IsFiniteSet(Rollouts) /\ Rollouts = 1 .. Cardinality(Rollouts) /\ None \notin Nat
  /\ Release \in [Rollouts -> Nat \ {0}] /\ Pinned \in Nat
  /\ Installed \in [Cameras -> Nat]
  /\ Ticket \in [Rollouts -> [Cameras -> 0 .. 99]]
  /\ Stages \in [Rollouts -> Seq(Stage)]
  /\ Pinnable \subseteq Cameras /\ Operators \cap Cameras = {}
  /\ Percents \subseteq Int /\ Limits \subseteq Int   \* the server checks neither's range
  /\ \A change \in Changes :
       /\ DOMAIN change = {"percent", "limit", "state"}
       /\ change.percent \in Int \cup {None} /\ change.limit \in Int \cup {None}
       /\ change.state \in {"active", "paused", None}

VARIABLES
  ros,      \* the rollouts table
  row,      \* the devices table
  pin,      \* the pin each camera is under
  cam,      \* the cameras themselves
  job,      \* the check-in being served for a camera, or None
  op,       \* the request being served for an operator, or None
  stale,    \* history: the requests under way whose rollout has been stopped,
            \* or given a percent, by another since they read it
  reached,  \* history: the cameras rollout r's answers offered its release to
  falls, ops

store == <<ros, row, pin>>
bounds == <<falls, ops>>
vars == <<ros, row, pin, cam, job, op, stale, reached, falls, ops>>

NoRollout == [state |-> "none", percent |-> 0, limit |-> 0, stage |-> 1,
              soaked |-> FALSE, attempted |-> 0, failures |-> 0,
              abase |-> 0, fbase |-> 0, untouched |-> TRUE]

Ramped(r) == Stages[r] # <<>>

Fresh(r, p, l) ==
  [NoRollout EXCEPT !.state = "active", !.limit = l,
                    !.percent = IF Ramped(r) THEN Stages[r][1].percent ELSE p]

Init ==
  /\ \E p \in Percents, l \in Limits :
       ros = [r \in Rollouts |-> IF r = 1 THEN Fresh(1, p, l) ELSE NoRollout]
  /\ row = [c \in Cameras |-> [fell |-> FALSE, offered |-> None]]
  /\ pin = [c \in Cameras |-> None]
  /\ cam = [c \in Cameras |-> [version |-> Installed[c], back |-> 0, trial |-> FALSE,
                             fell |-> FALSE]]
  /\ job = [c \in Cameras |-> None] /\ op = [o \in Operators |-> None]
  /\ stale = {} /\ reached = [r \in Rollouts |-> {}]
  /\ falls = 0 /\ ops = 0

Larger(a, b) == IF a >= b THEN a ELSE b

(* active_rollout: the one created last.                                   *)
Active(rs) == {r \in Rollouts : rs[r].state = "active"}
Live(rs) == IF Active(rs) = {} THEN None
            ELSE CHOOSE r \in Active(rs) : \A s \in Active(rs) : s <= r

-----------------------------------------------------------------------------
StagedIn(r, c) == Ticket[r][c] < ros[r].percent

(* A pin overrides the rollout; neither overrides the camera's safety.     *)
Decision(c) ==
  LET r == IF pin[c] # None THEN None ELSE Live(ros)
      rel == IF pin[c] # None THEN pin[c] ELSE IF r = None THEN None ELSE Release[r]
  IN  [rollout |-> r, release |-> rel,
       offered |-> /\ rel # None /\ rel > cam[c].version /\ ~cam[c].trial
                   /\ r # None => StagedIn(r, c)]

(* The camera takes up what it is offered, or does not.                    *)
Answered(c, offered, release) ==
  \/ UNCHANGED cam
  \/ /\ offered /\ ~cam[c].trial /\ release > cam[c].version
     /\ cam' = [cam EXCEPT ![c] = [version |-> release, back |-> @.version,
                                   trial |-> TRUE, fell |-> FALSE]]

(* A check-in, one at a time of a camera: its reads (the camera's row, its *)
(* pin, the rollout), which write nothing, are one step; each write is a   *)
(* step of its own.                                                        *)
CheckIn(c) ==
  /\ job[c] = None
  /\ LET d == Decision(c)
     IN  job' = [job EXCEPT ![c] =
           [step |-> IF d.rollout = None THEN "store" ELSE "count",
            fell |-> cam[c].fell, rollout |-> d.rollout, release |-> d.release,
            offered |-> d.offered, fresh |-> None]]
  /\ UNCHANGED <<store, cam, op, stale, reached, bounds>>

M_CountFirstOffer(c) == IF job[c].offered /\ row[c].offered = None THEN 1 ELSE 0

(* Newly offered this release; newly fallen back from it.  (The updated    *)
(* counter and the install history are written here too and only reported.)*)
Attempts(c) == IF job[c].offered /\ row[c].offered # job[c].release THEN 1 ELSE 0
Failures(c) ==
  IF row[c].offered = job[c].release /\ job[c].fell /\ ~row[c].fell THEN 1 ELSE 0

Count(c) ==
  /\ job[c] # None /\ job[c].step = "count"
  /\ LET r == job[c].rollout
     IN  ros' = [ros EXCEPT ![r] =
           [ros[r] EXCEPT !.attempted = @ + Attempts(c), !.failures = @ + Failures(c)]]
  /\ job' = [job EXCEPT ![c].step = "judge"]
  /\ UNCHANGED <<row, pin, cam, op, stale, reached, bounds>>

(* ramp_action and should_autopause.  A ramp judges the window since its   *)
(* stage began, a manual rollout its whole life.                           *)
Window(f) == [attempted |-> f.attempted - f.abase, failures |-> f.failures - f.fbase]
Ceiling(r, f) ==
  IF Ramped(r) /\ Stages[r][f.stage].ceiling # None THEN Stages[r][f.stage].ceiling
  ELSE f.limit

OverLimit(r, f) ==
  LET w == IF Ramped(r) THEN Window(f)
           ELSE [attempted |-> f.attempted, failures |-> f.failures]
  IN  w.attempted > 0 /\ 100 * w.failures > Ceiling(r, f) * w.attempted

M_MayRaiseShort(r, f) ==
  /\ Ramped(r) /\ f.stage < Len(Stages[r]) - 1 /\ f.soaked
  /\ Window(f).attempted >= Stages[r][f.stage].attempted

MayRaise(r, f) ==
  /\ Ramped(r) /\ f.stage < Len(Stages[r]) /\ f.soaked
  /\ Window(f).attempted >= Stages[r][f.stage].attempted

M_RampNeverPauses(r, f) ==
  IF f.state # "active" THEN "store"
  ELSE IF ~Ramped(r) /\ OverLimit(r, f) THEN "pause"
  ELSE IF MayRaise(r, f) THEN "raise" ELSE "store"

M_VerdictIgnoresState(r, f) ==
  IF OverLimit(r, f) THEN "pause" ELSE IF MayRaise(r, f) THEN "raise" ELSE "store"

Verdict(r, f) ==
  IF f.state # "active" THEN "store"
  ELSE IF OverLimit(r, f) THEN "pause" ELSE IF MayRaise(r, f) THEN "raise" ELSE "store"

(* The rollout as it now stands is read once, and the verdict applied to   *)
(* it whatever has happened to it since.                                   *)
Judge(c) ==
  /\ job[c] # None /\ job[c].step = "judge"
  /\ LET r == job[c].rollout
         verdict == Verdict(r, ros[r])
     IN  job' = [job EXCEPT ![c] =
           [@ EXCEPT !.step = verdict, !.fresh = IF verdict = "raise" THEN ros[r] ELSE None]]
  /\ UNCHANGED <<store, cam, op, stale, reached, bounds>>

(* The requests that have read rollout r, and may yet write on that.       *)
Holders(r) ==
  {c \in Cameras : job[c] # None /\ job[c].step \in {"pause", "raise"} /\ job[c].rollout = r}
  \cup {o \in Operators : op[o] # None /\ op[o].kind # "create" /\ op[o].rollout = r}

(* ... and those that raise it from the percent c does.                    *)
RaisingAs(c) ==
  {x \in Cameras : /\ job[x] # None /\ job[x].step = "raise"
                   /\ job[x].fresh.percent = job[c].fresh.percent}

Pause(c) ==
  /\ job[c] # None /\ job[c].step = "pause"
  /\ ros' = [ros EXCEPT ![job[c].rollout] =
               [@ EXCEPT !.state = "paused", !.untouched = FALSE]]
  /\ job' = [job EXCEPT ![c].step = "store"]
  /\ stale' = stale \ {c}
  /\ UNCHANGED <<row, pin, cam, op, reached, bounds>>

M_RaiseSwapsBases(c) ==
  /\ job[c] # None /\ job[c].step = "raise"
  /\ LET r == job[c].rollout
         f == job[c].fresh
     IN  ros' = [ros EXCEPT ![r] =
           [@ EXCEPT !.percent = Larger(Stages[r][f.stage + 1].percent, f.percent),
                     !.stage = f.stage + 1, !.soaked = FALSE,
                     !.abase = f.failures, !.fbase = f.attempted]]
  /\ job' = [job EXCEPT ![c] = [@ EXCEPT !.step = "store", !.fresh = None]]
  /\ stale' = (stale \cup (Holders(job[c].rollout) \ RaisingAs(c))) \ {c}
  /\ UNCHANGED <<row, pin, cam, op, reached, bounds>>

Raise(c) ==
  /\ job[c] # None /\ job[c].step = "raise"
  /\ LET r == job[c].rollout
         f == job[c].fresh
     IN  ros' = [ros EXCEPT ![r] =
           [@ EXCEPT !.percent = Larger(Stages[r][f.stage + 1].percent, f.percent),
                     !.stage = f.stage + 1, !.soaked = FALSE,
                     !.abase = f.attempted, !.fbase = f.failures]]
  /\ job' = [job EXCEPT ![c] = [@ EXCEPT !.step = "store", !.fresh = None]]
  /\ stale' = (stale \cup (Holders(job[c].rollout) \ RaisingAs(c))) \ {c}
  /\ UNCHANGED <<row, pin, cam, op, reached, bounds>>

(* upsert_device, then the answer.  An offer once recorded is kept when a  *)
(* later check-in is offered nothing.                                      *)
Store(c) ==
  /\ job[c] # None /\ job[c].step = "store"
  /\ LET j == job[c]
     IN  /\ row' = [row EXCEPT ![c] =
              [fell |-> j.fell,
               offered |-> IF j.offered THEN j.release ELSE row[c].offered]]
         /\ Answered(c, j.offered, j.release)
         /\ reached' = [r \in Rollouts |->
              IF j.offered /\ j.rollout = r THEN reached[r] \cup {c} ELSE reached[r]]
  /\ job' = [job EXCEPT ![c] = None]
  /\ UNCHANGED <<ros, pin, op, stale, bounds>>

(* The server restarts: every request in flight ends where it is.          *)
Crash ==
  /\ ops < MaxOps
  /\ \/ \E c \in Cameras : job[c] # None
     \/ \E o \in Operators : op[o] # None
  /\ job' = [c \in Cameras |-> None] /\ op' = [o \in Operators |-> None]
  /\ stale' = {} /\ ops' = ops + 1
  /\ UNCHANGED <<store, cam, reached, falls>>

-----------------------------------------------------------------------------
(* The cameras (SlotUpdate is their own story).                            *)

Keep(c) ==
  /\ cam[c].trial
  /\ cam' = [cam EXCEPT ![c] = [@ EXCEPT !.trial = FALSE, !.back = 0]]
  /\ UNCHANGED <<store, job, op, stale, reached, bounds>>

FallBack(c) ==
  /\ cam[c].trial /\ falls < MaxFalls
  /\ cam' = [cam EXCEPT ![c] = [version |-> @.back, back |-> 0, trial |-> FALSE, fell |-> TRUE]]
  /\ falls' = falls + 1
  /\ UNCHANGED <<store, job, op, stale, reached, ops>>

(* A stage's soak, which outlasts any request.                             *)
Soak(r) ==
  /\ ros[r].state # "none" /\ ros[r].stage < Len(Stages[r]) /\ ~ros[r].soaked
  /\ \A c \in Cameras : job[c] # None => job[c].step # "raise"
  /\ ros' = [ros EXCEPT ![r].soaked = TRUE]
  /\ UNCHANGED <<row, pin, cam, job, op, stale, reached, bounds>>

-----------------------------------------------------------------------------
(* The operators.  A request reads the rollout, checks, and then writes    *)
(* without a condition, whatever others have written since.                *)

MayAct(o) == op[o] = None /\ ops < MaxOps

Created(r) == ros[r].state # "none"

Creating == {o \in Operators : op[o] # None /\ op[o].kind \in {"supersede", "create"}}

CreateBegins(o) ==
  /\ MayAct(o)
  /\ Cardinality({r \in Rollouts : ~Created(r)}) > Cardinality(Creating)
  /\ LET prior == Live(ros)
     IN  op' = [op EXCEPT ![o] =
           [kind |-> IF prior = None THEN "create" ELSE "supersede", rollout |-> prior]]
  /\ ops' = ops + 1
  /\ UNCHANGED <<store, cam, job, stale, reached, falls>>

Supersede(o) ==
  /\ op[o] # None /\ op[o].kind = "supersede"
  /\ ros' = [ros EXCEPT ![op[o].rollout] =
               [@ EXCEPT !.state = "paused", !.untouched = FALSE]]
  /\ op' = [op EXCEPT ![o].kind = "create"]
  /\ stale' = stale \ {o}
  /\ UNCHANGED <<row, pin, cam, job, reached, bounds>>

Create(o) ==
  /\ op[o] # None /\ op[o].kind = "create"
  /\ \E r \in Rollouts, p \in Percents, l \in Limits :
       /\ ~Created(r) /\ \A s \in 1 .. (r - 1) : Created(s)
       /\ ros' = [ros EXCEPT ![r] = Fresh(r, p, l)]
  /\ op' = [op EXCEPT ![o] = None]
  /\ UNCHANGED <<row, pin, cam, job, stale, reached, bounds>>

M_PatchLowers(o, r, change) ==
  /\ MayAct(o) /\ Created(r)
  /\ change.state # None => ros[r].state # "stopped"
  /\ op' = [op EXCEPT ![o] =
              [kind |-> "patch", rollout |-> r, change |-> change, fresh |-> ros[r]]]
  /\ ops' = ops + 1
  /\ UNCHANGED <<store, cam, job, stale, reached, falls>>

PatchBegins(o, r, change) ==
  /\ MayAct(o) /\ Created(r)
  /\ change.percent # None => change.percent >= ros[r].percent
  /\ change.state # None => ros[r].state # "stopped"
  /\ op' = [op EXCEPT ![o] =
              [kind |-> "patch", rollout |-> r, change |-> change, fresh |-> ros[r]]]
  /\ ops' = ops + 1
  /\ UNCHANGED <<store, cam, job, stale, reached, falls>>

(* stage_for_percent: the furthest stage a hand-raised percent reaches.    *)
StageFor(r, stage, percent) ==
  LET ahead == {i \in (stage + 1) .. Len(Stages[r]) : Stages[r][i].percent <= percent}
  IN  IF ahead = {} THEN stage ELSE CHOOSE i \in ahead : \A k \in ahead : k <= i

Patched(f, r, change, fresh) ==
  LET stage == IF Ramped(r) /\ change.percent # None
               THEN StageFor(r, fresh.stage, change.percent) ELSE fresh.stage
      over == Ramped(r) /\ (stage # fresh.stage
                            \/ (change.state = "active" /\ fresh.state # "active"))
  IN  [f EXCEPT
        !.percent = IF change.percent = None THEN @ ELSE change.percent,
        !.limit = IF change.limit = None THEN @ ELSE change.limit,
        !.state = IF change.state = None THEN @ ELSE change.state,
        !.stage = IF over THEN stage ELSE @,
        !.soaked = IF over THEN FALSE ELSE @,
        !.abase = IF over THEN fresh.attempted ELSE @,
        !.fbase = IF over THEN fresh.failures ELSE @,
        !.untouched = FALSE]

Patch(o) ==
  /\ op[o] # None /\ op[o].kind = "patch"
  /\ LET q == op[o]
     IN  /\ ros' = [ros EXCEPT ![q.rollout] =
                      Patched(ros[q.rollout], q.rollout, q.change, q.fresh)]
         /\ stale' = (stale \cup IF q.change.percent = None THEN {} ELSE Holders(q.rollout)) \ {o}
  /\ op' = [op EXCEPT ![o] = None]
  /\ UNCHANGED <<row, pin, cam, job, reached, bounds>>

(* A stop, and a pin, are single writes.                                   *)
Stop(r) ==
  /\ ops < MaxOps /\ Created(r)
  /\ ros' = [ros EXCEPT ![r] = [@ EXCEPT !.state = "stopped", !.untouched = FALSE]]
  /\ stale' = stale \cup Holders(r)
  /\ ops' = ops + 1
  /\ UNCHANGED <<row, pin, cam, job, op, reached, falls>>

SetPin(c, release) ==
  /\ ops < MaxOps /\ c \in Pinnable /\ pin[c] # release
  /\ pin' = [pin EXCEPT ![c] = release]
  /\ ops' = ops + 1
  /\ UNCHANGED <<ros, row, cam, job, op, stale, reached, falls>>

-----------------------------------------------------------------------------
Serve(c) == Count(c) \/ Judge(c)
            \/ Pause(c) \/ Raise(c) \/ Store(c)

Operate(o) == Supersede(o) \/ Create(o) \/ Patch(o)

Request ==
  \/ \E o \in Operators : CreateBegins(o)
  \/ \E o \in Operators, r \in Rollouts, change \in Changes : PatchBegins(o, r, change)
  \/ \E r \in Rollouts : Stop(r)
  \/ \E c \in Cameras, p \in {Pinned, None} : SetPin(c, p)

Next ==
  \/ \E c \in Cameras :
       CheckIn(c) \/ Serve(c) \/ Keep(c) \/ FallBack(c)
  \/ \E r \in Rollouts : Soak(r)
  \/ \E o \in Operators : Operate(o)
  \/ Request \/ Crash

Spec == Init /\ [][Next]_vars

(* Every camera polls for ever and each check-in is served (one or the     *)
(* other can always be done, so this is their weak fairness); operators'   *)
(* requests end, trials end, and time passes.                              *)
Fairness ==
  /\ \A c \in Cameras : []<><<CheckIn(c) \/ Serve(c)>>_job
  /\ WF_op(\E o \in Operators : Operate(o))
  /\ WF_cam(\E c \in Cameras : Keep(c) \/ FallBack(c))
  /\ WF_ros(\E r \in Rollouts : Soak(r))

FairSpec == Spec /\ Fairness

-----------------------------------------------------------------------------
(* Counters count, and no window is negative.                              *)
RolloutTypeOK ==
  /\ \A r \in Rollouts :
       /\ ros[r].state \in {"none", "active", "paused", "stopped"}
       /\ ros[r].percent \in Int /\ ros[r].limit \in Int
       /\ Ramped(r) => ros[r].stage \in 1 .. Len(Stages[r])
       /\ ros[r].abase \in 0 .. ros[r].attempted
       /\ ros[r].fbase \in 0 .. ros[r].failures
  /\ row \in [Cameras -> [fell : BOOLEAN, offered : Nat \cup {None}]]

(* An answer that offers a rollout's release was counted by the rollout,   *)
(* whichever requests overlapped or were cut short.                        *)
OfferedAreCounted ==
  \A r \in Rollouts : Cardinality(reached[r]) <= ros[r].attempted

(* Nothing that read a rollout after it was stopped, or that nobody        *)
(* overtook, takes the stop away: a check-in's verdict, a PATCH or the     *)
(* creation of the next may, and only if it had read the rollout earlier.  *)
StopHolds ==
  [][\A r \in Rollouts : ros[r].state = "stopped" /\ ros'[r].state # "stopped"
       => \E q \in stale : q \in Holders(r) /\ q \notin Holders(r)']_vars

(* A percent is never lowered by the check-ins that raise it at the same   *)
(* time, nor by a PATCH that was checked against the percent it replaces:  *)
(* only by a request that another has overtaken.                           *)
DialHolds ==
  [][\A r \in Rollouts : Created(r) /\ ros'[r].percent < ros[r].percent
       => \E q \in stale : q \in Holders(r) /\ q \notin Holders(r)']_vars

(* docs/tutorial/16-cohorts-and-rollouts.md: a stopped rollout can not be  *)
(* resumed; admin.py: "stop is TERMINAL".                                  *)
StopIsFinal ==
  [][\A r \in Rollouts : ros[r].state = "stopped" => ros'[r].state = "stopped"]_vars

(* The safety valve: the rollout that answers check-ins does not go on     *)
(* doing so over its limit.                                                *)
ValvePauses ==
  []<>~(Live(ros) # None /\ OverLimit(Live(ros), ros[Live(ros)]))

(* A ramp that nobody touches and nothing fails reaches its last stage.    *)
RampCompletes ==
  \A r \in Rollouts :
    Ramped(r) /\ <>[](Live(ros) = r /\ ros[r].untouched /\ ros[r].failures = 0)
    => <>(ros[r].stage = Len(Stages[r]))
=============================================================================
