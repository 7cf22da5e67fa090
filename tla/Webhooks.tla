------------------------------ MODULE Webhooks ------------------------------
(***************************************************************************)
(* Webhook delivery.  Each audit entry queues a delivery per subscribed    *)
(* endpoint; a worker in every server process claims what is due, sends    *)
(* it, and retries, gives up or switches the endpoint off.  Every          *)
(* statement on the store is a step; the claim is a lease.                 *)
(***************************************************************************)
EXTENDS Integers, FiniteSets

CONSTANTS
  Hooks, Events,
  Workers,         \* one worker per server process
  Operators,       \* each has at most one request under way
  MaxAttempts,     \* attempts at a delivery before it is dead
  DisableAfter,    \* failed attempts in a row before an endpoint is off
  Slow,            \* may a pass outlive the leases it took at its start?
  MaxCrashes,      \* bound on process crashes
  MaxOps,          \* no request begins once this many were carried out
  None

ASSUME WebhookAssumption ==
  /\ MaxAttempts \in Nat \ {0} /\ DisableAfter \in Nat \ {0}
  /\ Slow \in BOOLEAN /\ MaxCrashes \in Nat /\ MaxOps \in Nat

Keys == Hooks \X Events          \* a delivery is an entry for an endpoint
HookOf(k) == k[1]

VARIABLES
  hooks,    \* the endpoints: there, active, failures in a row
  queue,    \* the deliveries table: a row or None
  entry,    \* each audit entry: "none", being fanned out, or "done"
  work,     \* work[w]: what worker w is about
  op,       \* the request being served for an operator, or None
  posts, acks,   \* history: requests sent for a delivery, 2xx answers to it
  off,      \* history: endpoints that have been off since an entry was written
  crashes, ops

db == <<hooks, queue>>
history == <<posts, acks, off>>
bounds == <<crashes, ops>>
vars == <<hooks, queue, entry, work, op, posts, acks, off, crashes, ops>>

(* seen: rows read as due and still to claim; mine: rows claimed; doing:   *)
(* the one in hand.  A row is carried with the attempt it was read with.   *)
Idle == [seen |-> {}, mine |-> {}, doing |-> None, step |-> "next"]

Init ==
  /\ hooks = [h \in Hooks |-> [there |-> TRUE, active |-> TRUE, failures |-> 0]]
  /\ queue = [k \in Keys |-> None]
  /\ entry = [e \in Events |-> "none"]
  /\ work = [w \in Workers |-> Idle]
  /\ op = [o \in Operators |-> None]
  /\ posts = [k \in Keys |-> 0] /\ acks = [k \in Keys |-> 0]
  /\ off = {} /\ crashes = 0 /\ ops = 0

Fresh == [status |-> "pending", attempt |-> 0, due |-> TRUE, leased |-> FALSE]

-----------------------------------------------------------------------------
(* append_audit: the entry is committed; the fan-out comes after it.       *)
Append(e) ==
  /\ entry[e] = "none"
  /\ entry' = [entry EXCEPT ![e] = "fanning"]
  /\ UNCHANGED <<db, work, op, history, bounds>>

FanOut(e) ==
  /\ entry[e] = "fanning"
  /\ queue' = [k \in Keys |->
       IF k[2] = e /\ hooks[HookOf(k)].there /\ hooks[HookOf(k)].active
       THEN Fresh ELSE queue[k]]
  /\ entry' = [entry EXCEPT ![e] = "done"]
  /\ UNCHANGED <<hooks, work, op, history, bounds>>

-----------------------------------------------------------------------------
(* A worker's pass (run_once).                                             *)

M_DueThoughLeased(k) == queue[k] # None /\ queue[k].status = "pending" /\ queue[k].due

Due(k) == /\ queue[k] # None /\ queue[k].status = "pending"
          /\ queue[k].due /\ ~queue[k].leased

Job(k) == [key |-> k, attempt |-> queue[k].attempt]

(* claim_due_deliveries reads the due rows,                                *)
Select(w) ==
  /\ work[w] = Idle
  /\ \E k \in Keys : Due(k)
  /\ work' = [work EXCEPT ![w].seen = {Job(k) : k \in {x \in Keys : Due(x)}}]
  /\ UNCHANGED <<db, entry, op, history, bounds>>

(* ... and leases them one by one, if they are not leased by then.         *)
Claim(w) ==
  \E j \in work[w].seen :
    LET won == queue[j.key] # None /\ ~queue[j.key].leased IN
    /\ queue' = IF won THEN [queue EXCEPT ![j.key].leased = TRUE] ELSE queue
    /\ work' = [work EXCEPT ![w] =
         [work[w] EXCEPT !.seen = @ \ {j}, !.mine = IF won THEN @ \cup {j} ELSE @]]
    /\ UNCHANGED <<hooks, entry, op, history, bounds>>

(* Each delivery starts with a look at its endpoint.                       *)
Begin(w) ==
  /\ work[w].seen = {} /\ work[w].doing = None
  /\ \E j \in work[w].mine :
       LET hook == hooks[HookOf(j.key)] IN
       work' = [work EXCEPT ![w] =
         [work[w] EXCEPT !.doing = j, !.mine = @ \ {j},
                         !.step = IF hook.there /\ hook.active THEN "post" ELSE "drop"]]
  /\ UNCHANGED <<db, entry, op, history, bounds>>

Doing(w, step) == work[w].doing # None /\ work[w].step = step

Done(w) == work' = [work EXCEPT ![w] = [@ EXCEPT !.doing = None, !.step = "next"]]
Goes(w, step) == work' = [work EXCEPT ![w].step = step]

(* finish_delivery: whatever the row has become, if it is still there.     *)
Finished(k, status, attempt) ==
  IF queue[k] = None THEN queue
  ELSE [queue EXCEPT ![k] = [status |-> status, attempt |-> attempt,
                             due |-> status # "pending", leased |-> FALSE]]

M_DropSkips(w) ==
  /\ Doing(w, "drop")
  /\ UNCHANGED queue
  /\ Done(w)
  /\ UNCHANGED <<hooks, entry, op, history, bounds>>

Drop(w) ==
  /\ Doing(w, "drop")
  /\ queue' = Finished(work[w].doing.key, "dead", work[w].doing.attempt)
  /\ Done(w)
  /\ UNCHANGED <<hooks, entry, op, history, bounds>>

(* Counters are cut off where nothing tells larger values apart.           *)
UpTo(bound, n) == IF n > bound THEN bound ELSE n

M_PostAnyAnswer(w) ==
  /\ Doing(w, "post")
  /\ LET k == work[w].doing.key IN
     /\ posts' = [posts EXCEPT ![k] = UpTo(MaxAttempts, @ + 1)]
     /\ \/ acks' = [acks EXCEPT ![k] = UpTo(2, @ + 1)] /\ Goes(w, "delivered")
        \/ UNCHANGED acks /\ Goes(w, "delivered")
  /\ UNCHANGED <<db, entry, op, off, bounds>>

(* The request; anything but a 2xx answer is a failure, also one that      *)
(* arrived and whose answer was lost.                                      *)
Post(w) ==
  /\ Doing(w, "post")
  /\ LET k == work[w].doing.key IN
     /\ posts' = [posts EXCEPT ![k] = UpTo(MaxAttempts, @ + 1)]
     /\ \/ acks' = [acks EXCEPT ![k] = UpTo(2, @ + 1)] /\ Goes(w, "delivered")
        \/ UNCHANGED acks /\ Goes(w, "failed")
  /\ UNCHANGED <<db, entry, op, off, bounds>>

Deliver(w) ==
  /\ Doing(w, "delivered")
  /\ queue' = Finished(work[w].doing.key, "delivered", work[w].doing.attempt + 1)
  /\ Goes(w, "reset")
  /\ UNCHANGED <<hooks, entry, op, history, bounds>>

Reset(w) ==
  /\ Doing(w, "reset")
  /\ hooks' = [hooks EXCEPT ![HookOf(work[w].doing.key)].failures = 0]
  /\ Done(w)
  /\ UNCHANGED <<queue, entry, op, history, bounds>>

(* note_webhook_result: bump the endpoint's failures,                      *)
Note(w) ==
  /\ Doing(w, "failed")
  /\ LET h == HookOf(work[w].doing.key) IN
     hooks' = IF hooks[h].there THEN [hooks EXCEPT ![h].failures = UpTo(DisableAfter, @ + 1)]
              ELSE hooks
  /\ Goes(w, "noted")
  /\ UNCHANGED <<queue, entry, op, history, bounds>>

M_SpentEarly(attempt) == attempt >= MaxAttempts - 1
M_SpentNever(attempt) == FALSE
Spent(attempt) == attempt >= MaxAttempts

(* ... read them back, and finish the delivery.  An endpoint deleted       *)
(* meanwhile makes the read fail, and the pass ends there, leases and all. *)
Fail(w) ==
  /\ Doing(w, "noted")
  /\ LET j == work[w].doing
         h == HookOf(j.key)
     IN  \/ /\ ~hooks[h].there
            /\ work' = [work EXCEPT ![w] = Idle] /\ UNCHANGED queue
         \/ /\ hooks[h].there
            /\ queue' = Finished(j.key, IF Spent(j.attempt + 1) THEN "dead" ELSE "pending",
                                 j.attempt + 1)
            /\ IF hooks[h].failures >= DisableAfter THEN Goes(w, "disable") ELSE Done(w)
  /\ UNCHANGED <<hooks, entry, op, history, bounds>>

Since(h) == off \cup {h}

Disable(w) ==
  /\ Doing(w, "disable")
  /\ LET h == HookOf(work[w].doing.key) IN
     /\ hooks' = [hooks EXCEPT ![h].active = FALSE]
     /\ off' = Since(h)
  /\ Goes(w, "bury")
  /\ UNCHANGED <<queue, entry, op, posts, acks, bounds>>

Bury(w) ==
  /\ Doing(w, "bury")
  /\ LET h == HookOf(work[w].doing.key) IN
     queue' = [k \in Keys |->
       IF HookOf(k) = h /\ queue[k] # None /\ queue[k].status = "pending"
       THEN [queue[k] EXCEPT !.status = "dead"] ELSE queue[k]]
  /\ Done(w)
  /\ UNCHANGED <<hooks, entry, op, history, bounds>>

(* The process dies; its leases run out by themselves.                     *)
Crash(w) ==
  /\ crashes < MaxCrashes /\ work[w] # Idle
  /\ work' = [work EXCEPT ![w] = Idle]
  /\ crashes' = crashes + 1
  /\ UNCHANGED <<db, entry, op, history, ops>>

(* ... as does one that serves a request: between an entry and its         *)
(* fan-out, or an operator's.                                              *)
CrashAppending(e) ==
  /\ crashes < MaxCrashes /\ entry[e] = "fanning"
  /\ entry' = [entry EXCEPT ![e] = "done"]
  /\ crashes' = crashes + 1
  /\ UNCHANGED <<db, work, op, history, ops>>

CrashServing(o) ==
  /\ crashes < MaxCrashes /\ op[o] # None
  /\ op' = [op EXCEPT ![o] = None]
  /\ crashes' = crashes + 1
  /\ UNCHANGED <<db, entry, work, history, ops>>

-----------------------------------------------------------------------------
(* Time.  A claim, from its read to its last lease, is shorter than a      *)
(* lease.  A pass of many deliveries to a slow endpoint need not be: all   *)
(* its leases are taken at its start.                                      *)

Holds(w, k) == \/ \E j \in work[w].mine : j.key = k
               \/ work[w].doing # None /\ work[w].doing.key = k

Lapse(k) ==
  /\ queue[k] # None /\ queue[k].leased
  /\ \A w \in Workers : work[w].seen = {} /\ (Slow \/ ~Holds(w, k))
  /\ queue' = [queue EXCEPT ![k].leased = FALSE]
  /\ UNCHANGED <<hooks, entry, work, op, history, bounds>>

BackoffOver(k) ==
  /\ queue[k] # None /\ ~queue[k].due
  /\ queue' = [queue EXCEPT ![k].due = TRUE]
  /\ UNCHANGED <<hooks, entry, work, op, history, bounds>>

-----------------------------------------------------------------------------
(* The operators.  A request checks what it read, and then writes whatever *)
(* others have written since.                                              *)

MayAct(o) == op[o] = None /\ ops < MaxOps
Serving(o, step) == op[o] # None /\ op[o].step = step
Carried(o) == op' = [op EXCEPT ![o] = None] /\ ops' = ops + 1

(* update_webhook: enabling clears the failure count.                      *)
SetActive(h, active) ==
  /\ ops < MaxOps /\ hooks[h].there
  /\ hooks' = [hooks EXCEPT ![h].active = active,
                            ![h].failures = IF active THEN 0 ELSE @]
  /\ off' = IF active THEN off ELSE Since(h)
  /\ ops' = ops + 1
  /\ UNCHANGED <<queue, entry, work, op, posts, acks, crashes>>

(* delete_webhook: its deliveries, then the endpoint.                      *)
DeleteDeliveries(o, h) ==
  /\ MayAct(o) /\ hooks[h].there
  /\ queue' = [k \in Keys |-> IF HookOf(k) = h THEN None ELSE queue[k]]
  /\ op' = [op EXCEPT ![o] = [step |-> "hook", of |-> h]]
  /\ UNCHANGED <<hooks, entry, work, history, bounds>>

DeleteHook(o) ==
  /\ Serving(o, "hook")
  /\ LET h == op[o].of IN
     /\ hooks' = [hooks EXCEPT ![h] = [there |-> FALSE, active |-> FALSE, failures |-> 0]]
     /\ off' = Since(h)
  /\ Carried(o)
  /\ UNCHANGED <<queue, entry, work, posts, acks, crashes>>

(* retry_delivery, of a delivery read as dead; the row is not looked at    *)
(* again when it is written.                                               *)
RetryBegins(o, k) ==
  /\ MayAct(o) /\ hooks[HookOf(k)].there /\ queue[k] # None /\ queue[k].status = "dead"
  /\ op' = [op EXCEPT ![o] = [step |-> "retry", of |-> k]]
  /\ UNCHANGED <<db, entry, work, history, bounds>>

Retry(o) ==
  /\ Serving(o, "retry")
  /\ LET k == op[o].of IN
     queue' = IF queue[k] = None THEN queue
              ELSE [queue EXCEPT ![k] = [@ EXCEPT !.status = "pending", !.due = TRUE,
                                                  !.leased = FALSE]]
  /\ Carried(o)
  /\ UNCHANGED <<hooks, entry, work, history, crashes>>

-----------------------------------------------------------------------------
Pass(w) ==
  \/ Select(w) \/ Claim(w) \/ Begin(w) \/ Drop(w) \/ Post(w) \/ Deliver(w)
  \/ Reset(w) \/ Note(w) \/ Fail(w) \/ Disable(w) \/ Bury(w)

Operator(o) ==
  \/ \E h \in Hooks : DeleteDeliveries(o, h)
  \/ \E k \in Keys : RetryBegins(o, k)
  \/ DeleteHook(o) \/ Retry(o) \/ CrashServing(o)

Next ==
  \/ \E e \in Events : Append(e) \/ FanOut(e) \/ CrashAppending(e)
  \/ \E w \in Workers : Pass(w) \/ Crash(w)
  \/ \E k \in Keys : Lapse(k) \/ BackoffOver(k)
  \/ \E h \in Hooks, active \in BOOLEAN : SetActive(h, active)
  \/ \E o \in Operators : Operator(o)

Spec == Init /\ [][Next]_vars

(* The worker thread runs for ever, on a timer; time passes.               *)
Fairness ==
  /\ \A w \in Workers : WF_vars(Pass(w))
  /\ \A k \in Keys : SF_vars(Lapse(k)) /\ WF_vars(BackoffOver(k))

FairSpec == Spec /\ Fairness

-----------------------------------------------------------------------------
WebhookTypeOK ==
  /\ hooks \in [Hooks -> [there : BOOLEAN, active : BOOLEAN, failures : Nat]]
  /\ \A k \in Keys : queue[k] # None =>
       /\ queue[k].status \in {"pending", "delivered", "dead"}
       /\ queue[k].attempt \in 0 .. MaxAttempts + ops
  /\ \A w \in Workers : \A j \in work[w].seen \cup work[w].mine : j.key \in Keys

(* "delivered" is never a guess: the endpoint answered 2xx to that entry.  *)
DeliveredWasAcknowledged ==
  \A k \in Keys : queue[k] # None /\ queue[k].status = "delivered" => acks[k] > 0

(* A delivery is given up on only after all its attempts, or because its   *)
(* endpoint has been off, however workers and operators overlap.           *)
GivesUpOnlyAfterTrying ==
  \A k \in Keys : queue[k] # None /\ queue[k].status = "dead" =>
    posts[k] >= MaxAttempts \/ HookOf(k) \in off

(* Every delivery queued ends: delivered, dead, or deleted.  None is left  *)
(* pending by a crash, a lost claim, a switched-off endpoint or an         *)
(* abandoned pass.                                                         *)
EveryDeliveryEnds ==
  \A k \in Keys : <>[](queue[k] # None => queue[k].status # "pending")

(* docs/tutorial/26-webhooks.md: "Deliveries are leased per attempt, so    *)
(* several server processes never send the same one twice."  A delivery    *)
(* the endpoint has accepted, and nobody asked for again, is not sent      *)
(* again.                                                                  *)
AcceptedOnce == \A k \in Keys : acks[k] <= 1
=============================================================================
