--------------------------- MODULE WebhooksProofs ---------------------------
(***************************************************************************)
(* Theorems about Webhooks, for any number of endpoints, entries, workers, *)
(* crashes and requests: a delivery is "delivered" only when its endpoint  *)
(* accepted it, and is given up on only after all its attempts.            *)
(***************************************************************************)
EXTENDS Webhooks, TLAPS

-----------------------------------------------------------------------------
(* A row, and every copy of one in a worker's memory, stands for attempts  *)
(* that were made: however stale the copy, the history only grows.         *)
Tried(k, attempt) == UpTo(MaxAttempts, attempt) <= posts[k]

Jobs == [key : Keys, attempt : Nat]
Rows == [status : {"pending", "delivered", "dead"}, attempt : Nat,
         due : BOOLEAN, leased : BOOLEAN]
Steps == {"next", "drop", "post", "delivered", "reset", "failed", "noted",
          "disable", "bury"}

HooksTyped == hooks \in [Hooks -> [there : BOOLEAN, active : BOOLEAN, failures : Nat]]
QueueTyped == queue \in [Keys -> Rows \cup {None}]
Desks == [seen : SUBSET Jobs, mine : SUBSET Jobs, doing : Jobs \cup {None}, step : Steps]
WorkTyped == work \in [Workers -> Desks]
HistoryTyped == posts \in [Keys -> 0 .. MaxAttempts] /\ acks \in [Keys -> 0 .. 2]

Requests == [step : {"hook"}, of : Hooks] \cup [step : {"retry"}, of : Keys]
OpTyped == op \in [Operators -> Requests \cup {None}]

Types == HooksTyped /\ QueueTyped /\ WorkTyped /\ HistoryTyped /\ OpTyped

RowHonest(k) ==
  queue[k] # None =>
    /\ Tried(k, queue[k].attempt)
    /\ queue[k].status = "delivered" => acks[k] > 0
    /\ queue[k].status = "dead" => posts[k] >= MaxAttempts \/ HookOf(k) \in off

InHand(j, step) ==
  /\ step \in {"drop", "post"} => Tried(j.key, j.attempt)
  /\ step \in {"delivered", "failed", "noted"} => Tried(j.key, j.attempt + 1)
  /\ step = "delivered" => acks[j.key] > 0
  /\ step \in {"drop", "bury"} => HookOf(j.key) \in off

WorkerHonest(w) ==
  /\ \A j \in work[w].seen \cup work[w].mine : Tried(j.key, j.attempt)
  /\ work[w].doing # None => InHand(work[w].doing, work[w].step)

OffIsOff == \A h \in Hooks : ~(hooks[h].there /\ hooks[h].active) => h \in off

Honest ==
  /\ Types
  /\ \A k \in Keys : RowHonest(k)
  /\ \A w \in Workers : WorkerHonest(w)
  /\ OffIsOff

LEMMA HookOfKey == \A k \in Keys : HookOf(k) \in Hooks
  BY DEF Keys, HookOf

LEMMA Capped ==
  ASSUME NEW bound \in Nat, NEW n \in Nat, NEW p \in 0 .. bound
  PROVE  /\ UpTo(bound, n) \in 0 .. bound
         /\ UpTo(bound, p + 1) >= p
         /\ UpTo(bound, n) <= p => UpTo(bound, n + 1) <= UpTo(bound, p + 1)
         /\ n >= bound /\ UpTo(bound, n) <= p => p >= bound
  BY DEF UpTo

(* What only grows: requests sent, requests accepted, endpoints seen off.  *)
Grows ==
  /\ \A k \in Keys : posts'[k] >= posts[k] /\ acks'[k] >= acks[k]
  /\ off \subseteq off'

LEMMA OnlyGrows ==
  ASSUME Types, [Next]_vars
  PROVE  Grows
<1> USE WebhookAssumption DEF Types, WorkTyped, Desks, HistoryTyped, Grows
<1>1. ASSUME NEW w \in Workers, Post(w)
      PROVE  Grows
  <2> DEFINE k == work[w].doing.key
  <2>1. k \in Keys
    BY <1>1 DEF Post, Doing, Jobs
  <2>2. posts'[k] >= posts[k]
    BY <1>1, <2>1, Capped DEF Post
  <2>3. acks'[k] >= acks[k]
    <3>1. acks[k] \in 0 .. 2 /\ UpTo(2, acks[k] + 1) >= acks[k]
      BY <2>1 DEF UpTo
    <3>2. acks' = [acks EXCEPT ![k] = UpTo(2, @ + 1)] \/ acks' = acks
      BY <1>1 DEF Post
    <3> QED BY <2>1, <3>1, <3>2
  <2>4. \A x \in Keys \ {k} : posts'[x] = posts[x] /\ acks'[x] = acks[x]
    BY <1>1 DEF Post
  <2>5. off' = off
    BY <1>1 DEF Post
  <2> QED BY <2>2, <2>3, <2>4, <2>5
<1>2. CASE UNCHANGED <<posts, acks>> /\ off \subseteq off'
  BY <1>2
<1>3. ASSUME NEW w \in Workers, Pass(w), ~Post(w)
      PROVE  UNCHANGED <<posts, acks>> /\ off \subseteq off'
  BY <1>3 DEF Pass, Select, Claim, Begin, Drop, Deliver, Reset, Note, Fail, Disable, Bury,
              Since, history
<1>4. ASSUME \/ \E h \in Hooks, active \in BOOLEAN : SetActive(h, active)
             \/ \E o \in Operators : Operator(o)
      PROVE  UNCHANGED <<posts, acks>> /\ off \subseteq off'
  BY <1>4 DEF Operator, SetActive, DeleteDeliveries, RetryBegins, Retry, DeleteHook, CrashServing,
              Since, history
<1>5. ASSUME \/ \E e \in Events : Append(e) \/ FanOut(e) \/ CrashAppending(e)
             \/ \E w \in Workers : Crash(w)
             \/ \E k \in Keys : Lapse(k) \/ BackoffOver(k)
             \/ UNCHANGED vars
      PROVE  UNCHANGED <<posts, acks>> /\ off \subseteq off'
  BY <1>5 DEF Append, FanOut, CrashAppending, Crash, Lapse, BackoffOver, vars, history
<1> QED BY <1>1, <1>2, <1>3, <1>4, <1>5 DEF Next

(* What a step leaves alone stays honest.                                  *)
LEMMA LeftAlone ==
  ASSUME Honest, Grows, posts' \in [Keys -> 0 .. MaxAttempts], acks' \in [Keys -> 0 .. 2]
  PROVE  /\ \A k \in Keys : queue'[k] = queue[k] => RowHonest(k)'
         /\ \A w \in Workers : work'[w] = work[w] => WorkerHonest(w)'
         /\ \A k \in Keys, n \in Nat : Tried(k, n) => Tried(k, n)'
<1> USE WebhookAssumption DEF Honest, Types, QueueTyped, WorkTyped, Desks, HistoryTyped
<1>1. ASSUME NEW k \in Keys, NEW n \in Nat, Tried(k, n)
      PROVE  Tried(k, n)'
  <2>1. UpTo(MaxAttempts, n) \in 0 .. MaxAttempts
    BY Capped
  <2> QED BY <1>1, <2>1 DEF Tried, Grows
<1>2. ASSUME NEW k \in Keys, queue'[k] = queue[k]
      PROVE  RowHonest(k)'
  <2> SUFFICES ASSUME queue[k] # None
               PROVE  RowHonest(k)'
    BY <1>2 DEF RowHonest
  <2>1. queue[k] \in Rows /\ RowHonest(k)
    OBVIOUS
  <2>2. queue[k].attempt \in Nat
    BY <2>1 DEF Rows
  <2>3. Tried(k, queue[k].attempt)'
    BY <1>1, <1>2, <2>1, <2>2 DEF RowHonest, Tried
  <2>4. acks[k] > 0 => acks'[k] > 0
    BY DEF Grows
  <2>5. posts[k] >= MaxAttempts => posts'[k] >= MaxAttempts
    BY DEF Grows
  <2> QED BY <1>2, <2>1, <2>3, <2>4, <2>5 DEF RowHonest, Grows
<1>3. ASSUME NEW w \in Workers, work'[w] = work[w]
      PROVE  WorkerHonest(w)'
  <2>1. \A j \in Jobs : j.key \in Keys /\ j.attempt \in Nat /\ j.attempt + 1 \in Nat
    BY DEF Jobs
  <2>2. /\ WorkerHonest(w)
        /\ work[w].seen \subseteq Jobs /\ work[w].mine \subseteq Jobs
        /\ work[w].doing # None => work[w].doing \in Jobs
    OBVIOUS
  <2>5. \A j \in Jobs : /\ Tried(j.key, j.attempt) => Tried(j.key, j.attempt)'
                        /\ Tried(j.key, j.attempt + 1) => Tried(j.key, j.attempt + 1)'
    BY <1>1, <2>1
  <2>3. \A j \in work[w].seen \cup work[w].mine : Tried(j.key, j.attempt)'
    BY <2>2, <2>5 DEF WorkerHonest
  <2>4. ASSUME work[w].doing # None
        PROVE  InHand(work[w].doing, work[w].step)'
    <3>0. PICK j \in Jobs : j = work[w].doing
      BY <2>2, <2>4
    <3>1. InHand(j, work[w].step) /\ j \in Jobs
      BY <2>2, <2>4, <3>0 DEF WorkerHonest
    <3>2. Tried(j.key, j.attempt) => Tried(j.key, j.attempt)'
      BY <2>5, <3>1
    <3>3. Tried(j.key, j.attempt + 1) => Tried(j.key, j.attempt + 1)'
      BY <2>5, <3>1
    <3>4. acks[j.key] > 0 => acks'[j.key] > 0
      BY <2>1, <3>1 DEF Grows
    <3> QED BY <1>3, <3>0, <3>1, <3>2, <3>3, <3>4 DEF InHand, Grows
  <2> QED BY <1>3, <2>3, <2>4 DEF WorkerHonest
<1> QED BY <1>1, <1>2, <1>3

-----------------------------------------------------------------------------
LEMMA FinishedRow ==
  ASSUME QueueTyped, NEW k \in Keys, NEW n \in Nat,
         NEW status \in {"pending", "delivered", "dead"}
  PROVE  /\ Finished(k, status, n) \in [Keys -> Rows \cup {None}]
         /\ \A x \in Keys \ {k} : Finished(k, status, n)[x] = queue[x]
         /\ Finished(k, status, n)[k] # None =>
              /\ Finished(k, status, n)[k].status = status
              /\ Finished(k, status, n)[k].attempt = n
  BY DEF QueueTyped, Finished, Rows

LEMMA RowTypes ==
  ASSUME NEW r \in Rows
  PROVE  /\ \A b \in BOOLEAN : [r EXCEPT !.leased = b] \in Rows /\ [r EXCEPT !.due = b] \in Rows
         /\ [r EXCEPT !.status = "dead"] \in Rows
         /\ [r EXCEPT !.status = "pending", !.due = TRUE, !.leased = FALSE] \in Rows
  BY DEF Rows

LEMMA JobTypes ==
  ASSUME QueueTyped
  PROVE  /\ \A j \in Jobs : j.key \in Keys /\ j.attempt \in Nat /\ j.attempt + 1 \in Nat
         /\ \A j \in Jobs : HookOf(j.key) \in Hooks
         /\ \A k \in Keys : Due(k) => Job(k) \in Jobs
<1>1. \A j \in Jobs : j.key \in Keys /\ j.attempt \in Nat /\ j.attempt + 1 \in Nat
  BY DEF Jobs
<1>2. \A k \in Keys : Due(k) => Job(k) \in Jobs
  BY DEF QueueTyped, Due, Job, Jobs, Rows
<1> QED BY <1>1, <1>2, HookOfKey

LEMMA DeskTypes ==
  ASSUME WorkTyped, NEW w \in Workers
  PROVE  /\ Idle \in Desks
         /\ work[w] \in Desks
         /\ [work[w] EXCEPT !.doing = None, !.step = "next"] \in Desks
         /\ \A step \in Steps : [work[w] EXCEPT !.step = step] \in Desks
         /\ \A a, b \in SUBSET Jobs : [work[w] EXCEPT !.seen = a, !.mine = b] \in Desks
         /\ \A j \in Jobs, b \in SUBSET Jobs, step \in Steps :
              [work[w] EXCEPT !.doing = j, !.mine = b, !.step = step] \in Desks
         /\ \A d \in Desks : [work EXCEPT ![w] = d] \in [Workers -> Desks]
<1>1. work[w] \in Desks /\ Idle \in Desks
  BY DEF WorkTyped, Desks, Idle, Steps
<1>2. \A d \in Desks : [work EXCEPT ![w] = d] \in [Workers -> Desks]
  BY DEF WorkTyped
<1> QED BY <1>1, <1>2 DEF Desks, Steps

LEMMA TypesInit == Init => Types
<1> SUFFICES ASSUME Init
             PROVE  Types
  OBVIOUS
<1>1. 0 \in 0 .. MaxAttempts /\ 0 \in 0 .. 2
  BY WebhookAssumption
<1> QED BY <1>1 DEF Init, Types, OpTyped, HooksTyped, QueueTyped, WorkTyped, Desks, HistoryTyped, Idle, Steps

LEMMA TypesStep ==
  ASSUME Types, [Next]_vars
  PROVE  Types'
<1> USE WebhookAssumption
<1>0. /\ hooks' = hooks => HooksTyped'
      /\ queue' = queue => QueueTyped'
      /\ work' = work => WorkTyped'
      /\ posts' = posts /\ acks' = acks => HistoryTyped'
      /\ op' = op => OpTyped'
  BY DEF Types, OpTyped, HooksTyped, QueueTyped, WorkTyped, HistoryTyped
<1> USE DEF Types, db, history, bounds
<1>1. ASSUME NEW e \in Events, Append(e) \/ CrashAppending(e)
      PROVE  Types'
  BY <1>0, <1>1 DEF Append, CrashAppending
<1>2. ASSUME NEW e \in Events, FanOut(e)
      PROVE  Types'
  <2>1. Fresh \in Rows
    BY DEF Fresh, Rows
  <2>2. QueueTyped'
    BY <1>2, <2>1 DEF FanOut, QueueTyped
  <2> QED BY <1>0, <1>2, <2>2 DEF FanOut
<1>3. ASSUME NEW w \in Workers, Select(w)
      PROVE  Types'
  <2>1. {Job(k) : k \in {x \in Keys : Due(x)}} \in SUBSET Jobs
    BY JobTypes
  <2>2. WorkTyped'
    BY <1>3, <2>1 DEF Select, WorkTyped, Desks
  <2> QED BY <1>0, <1>3, <2>2 DEF Select
<1>4. ASSUME NEW w \in Workers, Claim(w)
      PROVE  Types'
  <2>1. PICK j \in work[w].seen :
           LET won == queue[j.key] # None /\ ~queue[j.key].leased IN
           /\ queue' = IF won THEN [queue EXCEPT ![j.key].leased = TRUE] ELSE queue
           /\ work' = [work EXCEPT ![w] =
                [work[w] EXCEPT !.seen = @ \ {j}, !.mine = IF won THEN @ \cup {j} ELSE @]]
    BY <1>4 DEF Claim
  <2>2. j \in Jobs /\ j.key \in Keys
    BY JobTypes DEF WorkTyped, Desks
  <2>3. QueueTyped'
    <3>1. queue[j.key] # None => [queue[j.key] EXCEPT !.leased = TRUE] \in Rows
      BY <2>2, RowTypes DEF QueueTyped
    <3> QED BY <2>1, <2>2, <3>1 DEF QueueTyped
  <2>4. WorkTyped'
    <3>1. PICK mine \in SUBSET Jobs :
            work' = [work EXCEPT ![w] = [work[w] EXCEPT !.seen = work[w].seen \ {j}, !.mine = mine]]
      BY <2>1, <2>2 DEF WorkTyped, Desks
    <3>2. work[w].seen \ {j} \in SUBSET Jobs
      BY DEF WorkTyped, Desks
    <3> QED BY <3>1, <3>2, DeskTypes DEF WorkTyped
  <2> QED BY <1>0, <1>4, <2>3, <2>4 DEF Claim
<1>5. ASSUME NEW w \in Workers, Begin(w)
      PROVE  Types'
  <2>1. PICK j \in work[w].mine, step \in {"post", "drop"} :
           work' = [work EXCEPT ![w] = [work[w] EXCEPT !.doing = j, !.mine = work[w].mine \ {j},
                                                       !.step = step]]
    BY <1>5 DEF Begin
  <2>2. j \in Jobs /\ work[w].mine \ {j} \in SUBSET Jobs /\ step \in Steps
    BY DEF WorkTyped, Desks, Steps
  <2>3. WorkTyped'
    BY <2>1, <2>2, DeskTypes DEF WorkTyped
  <2> QED BY <1>0, <1>5, <2>3 DEF Begin
<1>6. ASSUME NEW w \in Workers, Drop(w) \/ Deliver(w) \/ Fail(w)
      PROVE  Types'
  <2>1. PICK j \in Jobs : j = work[w].doing
    BY <1>6 DEF Drop, Deliver, Fail, Doing, WorkTyped, Desks
  <2>2. \/ queue' = queue
        \/ \E status \in {"pending", "delivered", "dead"}, n \in {j.attempt, j.attempt + 1} :
             queue' = Finished(j.key, status, n)
    BY <1>6, <2>1 DEF Drop, Deliver, Fail
  <2>3. QueueTyped'
    BY <1>0, <2>2, FinishedRow, JobTypes DEF QueueTyped
  <2>4. WorkTyped'
    BY <1>6, DeskTypes DEF Drop, Deliver, Fail, Done, Goes, Steps, WorkTyped
  <2> QED BY <1>0, <1>6, <2>3, <2>4 DEF Drop, Deliver, Fail
<1>7. ASSUME NEW w \in Workers, Post(w)
      PROVE  Types'
  <2>1. work[w].doing.key \in Keys
    BY <1>7, JobTypes DEF Post, Doing, WorkTyped, Desks
  <2>2. \A k \in Keys : /\ UpTo(MaxAttempts, posts[k] + 1) \in 0 .. MaxAttempts
                        /\ UpTo(2, acks[k] + 1) \in 0 .. 2
    BY DEF HistoryTyped, UpTo
  <2>3. HistoryTyped'
    BY <1>7, <2>1, <2>2 DEF Post, HistoryTyped
  <2>4. WorkTyped'
    <3>1. Goes(w, "delivered") \/ Goes(w, "failed")
      BY <1>7 DEF Post
    <3>2. "delivered" \in Steps /\ "failed" \in Steps
      BY DEF Steps
    <3>3. \E d \in Desks : work' = [work EXCEPT ![w] = d]
      BY <3>1, <3>2, DeskTypes DEF Goes
    <3> QED BY <3>3, DeskTypes DEF WorkTyped
  <2> QED BY <1>0, <1>7, <2>3, <2>4 DEF Post
<1>8. ASSUME NEW w \in Workers, Reset(w) \/ Note(w) \/ Disable(w)
      PROVE  Types'
  <2>1. PICK h \in Hooks : h = HookOf(work[w].doing.key)
    BY <1>8, JobTypes DEF Reset, Note, Disable, Doing, WorkTyped, Desks
  <2>2. \A n \in Nat : UpTo(DisableAfter, n + 1) \in Nat
    BY DEF UpTo
  <2>3. \/ hooks' = hooks
        \/ hooks' = [hooks EXCEPT ![h] = [hooks[h] EXCEPT !.failures = 0]]
        \/ hooks' = [hooks EXCEPT ![h] =
                       [hooks[h] EXCEPT !.failures = UpTo(DisableAfter, hooks[h].failures + 1)]]
        \/ hooks' = [hooks EXCEPT ![h] = [hooks[h] EXCEPT !.active = FALSE]]
    BY <1>8, <2>1 DEF Reset, Note, Disable
  <2>5. HooksTyped'
    <3>1. /\ hooks[h] \in [there : BOOLEAN, active : BOOLEAN, failures : Nat]
          /\ UpTo(DisableAfter, hooks[h].failures + 1) \in Nat
      BY <2>2 DEF HooksTyped
    <3>2. PICK hook \in [there : BOOLEAN, active : BOOLEAN, failures : Nat] :
            hooks' = [hooks EXCEPT ![h] = hook] \/ hooks' = hooks
      BY <2>3, <3>1
    <3> QED BY <3>2 DEF HooksTyped
  <2>4. WorkTyped'
    <3>1. Done(w) \/ Goes(w, "noted") \/ Goes(w, "bury")
      BY <1>8 DEF Reset, Note, Disable
    <3>2. "noted" \in Steps /\ "bury" \in Steps
      BY DEF Steps
    <3>3. \E d \in Desks : work' = [work EXCEPT ![w] = d]
      BY <3>1, <3>2, DeskTypes DEF Done, Goes
    <3> QED BY <3>3, DeskTypes DEF WorkTyped
  <2> QED BY <1>0, <1>8, <2>4, <2>5 DEF Reset, Note, Disable
<1>9. ASSUME NEW w \in Workers, Bury(w)
      PROVE  Types'
  <2>1. QueueTyped'
    BY <1>9, RowTypes DEF Bury, QueueTyped
  <2>2. WorkTyped'
    BY <1>9, DeskTypes DEF Bury, Done, WorkTyped
  <2> QED BY <1>0, <1>9, <2>1, <2>2 DEF Bury
<1>10. ASSUME NEW w \in Workers, Crash(w)
       PROVE  Types'
  <2>1. WorkTyped'
    BY <1>10, DeskTypes DEF Crash, WorkTyped
  <2> QED BY <1>0, <1>10, <2>1 DEF Crash
<1>11. ASSUME NEW k \in Keys, Lapse(k) \/ BackoffOver(k)
       PROVE  Types'
  <2>1. QueueTyped'
    BY <1>11, RowTypes DEF Lapse, BackoffOver, QueueTyped
  <2> QED BY <1>0, <1>11, <2>1 DEF Lapse, BackoffOver
<1>12. ASSUME NEW h \in Hooks, NEW active \in BOOLEAN, SetActive(h, active)
       PROVE  Types'
  <2>1. HooksTyped'
    BY <1>12 DEF SetActive, HooksTyped
  <2> QED BY <1>0, <1>12, <2>1 DEF SetActive
<1>13. ASSUME NEW o \in Operators, NEW h \in Hooks, DeleteDeliveries(o, h)
       PROVE  Types'
  <2>1. QueueTyped'
    BY <1>13 DEF DeleteDeliveries, QueueTyped
  <2>2. OpTyped'
    BY <1>13 DEF DeleteDeliveries, OpTyped, Requests
  <2> QED BY <1>0, <1>13, <2>1, <2>2 DEF DeleteDeliveries
<1>14. ASSUME NEW o \in Operators, DeleteHook(o)
       PROVE  Types'
  <2>1. HooksTyped' /\ OpTyped'
    BY <1>14 DEF DeleteHook, Carried, HooksTyped, OpTyped
  <2> QED BY <1>0, <1>14, <2>1 DEF DeleteHook
<1>16. ASSUME NEW o \in Operators, NEW k \in Keys, RetryBegins(o, k)
       PROVE  Types'
  <2>1. OpTyped'
    BY <1>16 DEF RetryBegins, OpTyped, Requests
  <2> QED BY <1>0, <1>16, <2>1 DEF RetryBegins
<1>17. ASSUME NEW o \in Operators, Retry(o)
       PROVE  Types'
  <2>1. QueueTyped' /\ OpTyped'
    BY <1>17, RowTypes DEF Retry, Carried, QueueTyped, OpTyped
  <2> QED BY <1>0, <1>17, <2>1 DEF Retry
<1>18. ASSUME NEW o \in Operators, CrashServing(o)
       PROVE  Types'
  <2>1. OpTyped'
    BY <1>18 DEF CrashServing, OpTyped
  <2> QED BY <1>0, <1>18, <2>1 DEF CrashServing
<1>15. CASE UNCHANGED vars
  BY <1>0, <1>15 DEF vars
<1> QED BY <1>1, <1>2, <1>3, <1>4, <1>5, <1>6, <1>7, <1>8, <1>9, <1>10, <1>11, <1>12,
           <1>13, <1>14, <1>15, <1>16, <1>17, <1>18 DEF Next, Pass, Operator
-----------------------------------------------------------------------------
LEMMA HonestInit == Init => Honest
<1> SUFFICES ASSUME Init
             PROVE  Honest
  OBVIOUS
<1>1. Types
  BY TypesInit
<1>2. /\ \A k \in Keys : queue[k] = None
      /\ \A w \in Workers : work[w] = Idle
      /\ \A h \in Hooks : hooks[h].there /\ hooks[h].active
  BY DEF Init
<1> QED BY <1>1, <1>2 DEF Honest, RowHonest, WorkerHonest, OffIsOff, Idle

(* A row rewritten with the attempts it had, or with a copy's.             *)
LEMMA RowEdited ==
  ASSUME Honest, Grows, Types', NEW k \in Keys, queue[k] # None,
         queue'[k] # None =>
           /\ queue'[k].attempt = queue[k].attempt
           /\ \/ queue'[k].status \in {queue[k].status, "pending"}
              \/ queue'[k].status = "dead" /\ HookOf(k) \in off'
  PROVE  RowHonest(k)'
<1>1. Types /\ RowHonest(k)
  BY DEF Honest
<1>2. PICK n \in Nat : n = queue[k].attempt
  BY <1>1 DEF Types, QueueTyped, Rows
<1>4. Tried(k, n)'
  BY <1>1, <1>2, LeftAlone DEF Types, HistoryTyped, RowHonest
<1>3. /\ acks[k] > 0 => acks'[k] > 0
      /\ posts[k] >= MaxAttempts => posts'[k] >= MaxAttempts
      /\ HookOf(k) \in off => HookOf(k) \in off'
  BY <1>1, WebhookAssumption DEF Grows, Types, HistoryTyped
<1> QED BY <1>1, <1>2, <1>3, <1>4 DEF RowHonest, Tried

LEMMA RowFinished ==
  ASSUME Honest, Grows, Types', NEW k \in Keys, NEW n \in Nat,
         NEW status \in {"pending", "delivered", "dead"},
         queue' = Finished(k, status, n),
         Tried(k, n)',
         status = "delivered" => acks'[k] > 0,
         status = "dead" => posts'[k] >= MaxAttempts \/ HookOf(k) \in off'
  PROVE  \A x \in Keys : RowHonest(x)'
<1>1. Types
  BY DEF Honest
<1>2. \A x \in Keys \ {k} : queue'[x] = queue[x]
  BY <1>1, FinishedRow DEF Types
<1>3. \A x \in Keys \ {k} : RowHonest(x)'
  BY <1>2, LeftAlone DEF Types, HistoryTyped
<1>4. RowHonest(k)'
  BY <1>1, FinishedRow DEF Types, RowHonest, Tried
<1> QED BY <1>3, <1>4

LEMMA DeskMoved ==
  ASSUME Honest, Grows, Types', NEW w \in Workers, NEW d \in Desks,
         work' = [work EXCEPT ![w] = d],
         \A j \in d.seen \cup d.mine :
           j \in work[w].seen \cup work[w].mine \/ Tried(j.key, j.attempt)',
         d.doing # None => InHand(d.doing, d.step)'
  PROVE  \A x \in Workers : WorkerHonest(x)'
<1>1. Types /\ WorkerHonest(w) /\ work[w] \in Desks
  BY DEF Honest, Types, WorkTyped
<1>2. work'[w] = d /\ \A x \in Workers \ {w} : work'[x] = work[x]
  BY <1>1 DEF Types, WorkTyped
<1>3. \A x \in Workers \ {w} : WorkerHonest(x)'
  BY <1>2, LeftAlone DEF Types, HistoryTyped
<1>4. ASSUME NEW j \in d.seen \cup d.mine
      PROVE  Tried(j.key, j.attempt)'
  <2>1. CASE j \in work[w].seen \cup work[w].mine
    <3>1. j \in Jobs /\ Tried(j.key, j.attempt)
      BY <1>1, <2>1 DEF WorkerHonest, Desks
    <3>2. j.key \in Keys /\ j.attempt \in Nat
      BY <3>1 DEF Jobs
    <3> QED BY <3>1, <3>2, LeftAlone DEF Types, HistoryTyped
  <2> QED BY <2>1
<1>5. WorkerHonest(w)'
  BY <1>2, <1>4 DEF WorkerHonest
<1> QED BY <1>3, <1>5

LEMMA DeskStepped ==
  ASSUME Honest, Grows, Types', NEW w \in Workers,
         \/ Done(w)
         \/ work' = [work EXCEPT ![w] = Idle]
         \/ \E step \in Steps, j \in Jobs :
              j = work[w].doing /\ Goes(w, step) /\ InHand(j, step)'
  PROVE  \A x \in Workers : WorkerHonest(x)'
<1>1. WorkTyped /\ work[w] \in Desks /\ WorkerHonest(w)
  BY DEF Honest, Types, WorkTyped
<1>2. CASE Done(w)
  <2>1. PICK d \in Desks : d = [work[w] EXCEPT !.doing = None, !.step = "next"]
    BY <1>1, DeskTypes
  <2>2. d.seen = work[w].seen /\ d.mine = work[w].mine /\ d.doing = None
    BY <1>1, <2>1 DEF Desks
  <2>3. work' = [work EXCEPT ![w] = d]
    BY <1>2, <2>1 DEF Done
  <2> QED BY <2>2, <2>3, DeskMoved
<1>3. CASE work' = [work EXCEPT ![w] = Idle]
  BY <1>1, <1>3, DeskTypes, DeskMoved DEF Idle
<1>4. ASSUME NEW step \in Steps, NEW j \in Jobs, j = work[w].doing, Goes(w, step),
             InHand(j, step)'
      PROVE  \A x \in Workers : WorkerHonest(x)'
  <2>1. PICK d \in Desks : d = [work[w] EXCEPT !.step = step]
    BY <1>1, DeskTypes
  <2>2. /\ d.seen = work[w].seen /\ d.mine = work[w].mine
        /\ d.doing = j /\ d.step = step
    BY <1>1, <1>4, <2>1 DEF Desks
  <2>3. work' = [work EXCEPT ![w] = d]
    BY <1>4, <2>1 DEF Goes
  <2>4. InHand(d.doing, d.step)'
    BY <1>4, <2>2
  <2> QED BY <2>2, <2>3, <2>4, DeskMoved
<1> QED BY <1>2, <1>3, <1>4

(* One step per action: the row it writes, the worker it moves on, and the *)
(* endpoint it switches.                                                   *)
LEMMA HonestStep ==
  ASSUME Honest, [Next]_vars
  PROVE  Honest'
<1>1. /\ Types /\ Types' /\ Grows
      /\ \A k \in Keys : RowHonest(k)
      /\ \A w \in Workers : WorkerHonest(w)
      /\ OffIsOff
  BY TypesStep, OnlyGrows DEF Honest
<1>2. /\ \A k \in Keys : queue'[k] = queue[k] => RowHonest(k)'
      /\ \A w \in Workers : work'[w] = work[w] => WorkerHonest(w)'
      /\ hooks' = hooks => OffIsOff'
  BY <1>1, LeftAlone DEF Types, HistoryTyped, OffIsOff, Grows
<1>3. /\ queue' = queue => \A k \in Keys : RowHonest(k)'
      /\ work' = work => \A w \in Workers : WorkerHonest(w)'
  BY <1>2
<1> DEFINE RowsHonest == \A k \in Keys : RowHonest(k)
           WorkersHonest == \A w \in Workers : WorkerHonest(w)
<1> USE DEF db, history, bounds
<1>4. ASSUME NEW e \in Events, Append(e) \/ CrashAppending(e)
      PROVE  (RowsHonest /\ WorkersHonest /\ OffIsOff)'
  BY <1>2, <1>3, <1>4 DEF Append, CrashAppending
<1>5. ASSUME NEW e \in Events, FanOut(e)
      PROVE  (RowsHonest /\ WorkersHonest /\ OffIsOff)'
  <2>1. ASSUME NEW k \in Keys, queue'[k] # queue[k]
        PROVE  RowHonest(k)'
    <3>1. queue'[k] = Fresh
      BY <1>5, <2>1 DEF FanOut
    <3>2. posts'[k] \in Nat /\ UpTo(MaxAttempts, 0) = 0
      BY <1>1, WebhookAssumption DEF Types, HistoryTyped, UpTo
    <3> QED BY <3>1, <3>2 DEF RowHonest, Fresh, Tried
  <2> QED BY <1>2, <1>3, <1>5, <2>1 DEF FanOut
<1>6. ASSUME NEW w \in Workers, Select(w)
      PROVE  (RowsHonest /\ WorkersHonest /\ OffIsOff)'
  <2>1. PICK seen \in SUBSET Jobs : seen = {Job(k) : k \in {x \in Keys : Due(x)}}
    BY <1>1, JobTypes DEF Types
  <2>2. PICK d \in Desks : d = [work[w] EXCEPT !.seen = seen, !.mine = work[w].mine]
    BY <1>1, DeskTypes DEF Types, Desks
  <2>3. work[w] = Idle /\ work[w] \in Desks
    BY <1>1, <1>6, DeskTypes DEF Select, Types
  <2>4. d.seen = seen /\ d.mine = {} /\ d.doing = None
    BY <2>2, <2>3 DEF Idle
  <2>5. work' = [work EXCEPT ![w] = d]
    BY <1>6, <2>1, <2>2, <2>3 DEF Select, Idle
  <2>6. ASSUME NEW j \in seen
        PROVE  Tried(j.key, j.attempt)'
    <3>1. PICK k \in Keys : Due(k) /\ j = Job(k)
      BY <2>1
    <3>2. j \in Jobs /\ j.key = k /\ j.attempt = queue[k].attempt
      BY <3>1 DEF Job
    <3>3. Tried(j.key, j.attempt)
      BY <1>1, <3>1, <3>2 DEF RowHonest, Due
    <3> QED BY <1>1, <3>2, <3>3, LeftAlone DEF Types, HistoryTyped, Jobs
  <2>7. WorkersHonest'
    BY <1>1, <2>4, <2>5, <2>6, DeskMoved
  <2> QED BY <1>2, <1>3, <1>6, <2>7 DEF Select
<1>7. ASSUME NEW w \in Workers, Claim(w)
      PROVE  (RowsHonest /\ WorkersHonest /\ OffIsOff)'
  <2>1. PICK j \in work[w].seen :
           LET won == queue[j.key] # None /\ ~queue[j.key].leased IN
           /\ queue' = IF won THEN [queue EXCEPT ![j.key].leased = TRUE] ELSE queue
           /\ work' = [work EXCEPT ![w] =
                [work[w] EXCEPT !.seen = @ \ {j}, !.mine = IF won THEN @ \cup {j} ELSE @]]
    BY <1>7 DEF Claim
  <2>2. work[w] \in Desks /\ j \in Jobs /\ j.key \in Keys
    BY <1>1, JobTypes DEF Types, WorkTyped, Desks
  <2>3. PICK mine \in SUBSET Jobs :
          /\ mine \subseteq work[w].mine \cup {j}
          /\ work' = [work EXCEPT ![w] = [work[w] EXCEPT !.seen = work[w].seen \ {j}, !.mine = mine]]
    BY <2>1, <2>2 DEF Desks
  <2>4. PICK d \in Desks : d = [work[w] EXCEPT !.seen = work[w].seen \ {j}, !.mine = mine]
    BY <1>1, <2>2, DeskTypes DEF Types, Desks
  <2>5. /\ d.seen \subseteq work[w].seen /\ d.mine \subseteq work[w].mine \cup {j}
        /\ d.doing = work[w].doing /\ d.step = work[w].step
    BY <2>2, <2>3, <2>4 DEF Desks
  <2>6. work' = [work EXCEPT ![w] = d]
    BY <2>3, <2>4
  <2>7. d.doing # None => InHand(d.doing, d.step)'
    <3> SUFFICES ASSUME d.doing # None
                 PROVE  InHand(d.doing, d.step)'
      OBVIOUS
    <3>1. d.doing \in Jobs /\ InHand(d.doing, d.step)
      BY <1>1, <2>2, <2>5 DEF WorkerHonest, Desks
    <3>2. UNCHANGED <<posts, acks, off>>
      BY <1>7 DEF Claim
    <3> QED BY <3>1, <3>2 DEF InHand, Tried
  <2>8. WorkersHonest'
    BY <1>1, <2>5, <2>6, <2>7, DeskMoved
  <2>9. ASSUME NEW k \in Keys, queue'[k] # queue[k]
        PROVE  RowHonest(k)'
    <3>1. k = j.key /\ queue[k] # None /\ queue'[k] = [queue[k] EXCEPT !.leased = TRUE]
      BY <1>1, <2>1, <2>2, <2>9 DEF Types, QueueTyped
    <3>2. queue'[k].attempt = queue[k].attempt /\ queue'[k].status = queue[k].status
      BY <1>1, <3>1 DEF Types, QueueTyped, Rows
    <3> QED BY <1>1, <3>1, <3>2, RowEdited
  <2> QED BY <1>2, <1>7, <2>8, <2>9 DEF Claim
<1>8. ASSUME NEW w \in Workers, Begin(w)
      PROVE  (RowsHonest /\ WorkersHonest /\ OffIsOff)'
  <2>1. PICK j \in work[w].mine, step \in {"post", "drop"} :
           /\ step = "drop" => ~(hooks[HookOf(j.key)].there /\ hooks[HookOf(j.key)].active)
           /\ work' = [work EXCEPT ![w] = [work[w] EXCEPT !.doing = j, !.mine = work[w].mine \ {j},
                                                          !.step = step]]
    BY <1>8 DEF Begin
  <2>2. work[w] \in Desks /\ j \in Jobs /\ j.key \in Keys /\ HookOf(j.key) \in Hooks
    BY <1>1, JobTypes DEF Types, WorkTyped, Desks
  <2>3. PICK d \in Desks : d = [work[w] EXCEPT !.doing = j, !.mine = work[w].mine \ {j},
                                               !.step = step]
    <3>1. work[w].mine \ {j} \in SUBSET Jobs /\ step \in Steps
      BY <2>2 DEF Desks, Steps
    <3> QED BY <1>1, <2>2, <3>1, DeskTypes DEF Types
  <2>4. d.seen = work[w].seen /\ d.mine \subseteq work[w].mine /\ d.doing = j /\ d.step = step
    BY <2>2, <2>3 DEF Desks
  <2>5. InHand(j, step)'
    <3>1. Tried(j.key, j.attempt)
      BY <1>1, <2>1 DEF WorkerHonest
    <3>2. step = "drop" => HookOf(j.key) \in off
      BY <1>1, <2>1, <2>2 DEF OffIsOff
    <3>3. UNCHANGED <<posts, acks, off>>
      BY <1>8 DEF Begin
    <3> QED BY <3>1, <3>2, <3>3 DEF InHand, Tried
  <2>6. work' = [work EXCEPT ![w] = d]
    BY <2>1, <2>3
  <2>7. InHand(d.doing, d.step)'
    BY <2>4, <2>5
  <2>8. WorkersHonest'
    BY <1>1, <2>4, <2>6, <2>7, DeskMoved
  <2> QED BY <1>2, <1>3, <1>8, <2>8 DEF Begin
<1>9. ASSUME NEW w \in Workers, Drop(w)
      PROVE  (RowsHonest /\ WorkersHonest /\ OffIsOff)'
  <2>1. PICK j \in Jobs : j = work[w].doing
    BY <1>1, <1>9 DEF Drop, Doing, Types, WorkTyped, Desks
  <2>2. j.key \in Keys /\ j.attempt \in Nat
    BY <2>1 DEF Jobs
  <2>3. InHand(j, "drop")
    BY <1>1, <1>9, <2>1 DEF Drop, Doing, WorkerHonest
  <2>4. queue' = Finished(j.key, "dead", j.attempt) /\ UNCHANGED <<posts, off>>
    BY <1>9, <2>1 DEF Drop
  <2>5. Tried(j.key, j.attempt)' /\ HookOf(j.key) \in off'
    BY <2>3, <2>4 DEF InHand, Tried
  <2>6. RowsHonest'
    BY <1>1, <2>2, <2>4, <2>5, RowFinished
  <2>7. WorkersHonest'
    BY <1>1, <1>9, DeskStepped DEF Drop
  <2> QED BY <1>2, <1>9, <2>6, <2>7 DEF Drop
<1>10. ASSUME NEW w \in Workers, Post(w)
       PROVE  (RowsHonest /\ WorkersHonest /\ OffIsOff)'
  <2>1. PICK j \in Jobs : j = work[w].doing
    BY <1>1, <1>10 DEF Post, Doing, Types, WorkTyped, Desks
  <2>2. j.key \in Keys /\ j.attempt \in Nat
    BY <2>1 DEF Jobs
  <2>3. Tried(j.key, j.attempt)
    BY <1>1, <1>10, <2>1 DEF Post, Doing, WorkerHonest, InHand
  <2>4. posts[j.key] \in 0 .. MaxAttempts /\ acks[j.key] \in 0 .. 2
    BY <1>1, <2>2 DEF Types, HistoryTyped
  <2>5. posts'[j.key] = UpTo(MaxAttempts, posts[j.key] + 1)
    BY <1>1, <1>10, <2>1, <2>2 DEF Post, Types, HistoryTyped
  <2>6. Tried(j.key, j.attempt + 1)'
    <3>1. UpTo(MaxAttempts, j.attempt + 1) <= UpTo(MaxAttempts, posts[j.key] + 1)
      BY <2>2, <2>3, <2>4, Capped, WebhookAssumption DEF Tried
    <3> QED BY <2>5, <3>1 DEF Tried
  <2>7. \/ Goes(w, "failed")
        \/ Goes(w, "delivered") /\ acks'[j.key] = UpTo(2, acks[j.key] + 1)
    BY <1>1, <1>10, <2>1, <2>2 DEF Post, Types, HistoryTyped
  <2>8. UpTo(2, acks[j.key] + 1) > 0
    BY <2>4 DEF UpTo
  <2>9. "failed" \in Steps /\ "delivered" \in Steps
    BY DEF Steps
  <2>10. /\ InHand(j, "failed")'
         /\ acks'[j.key] > 0 => InHand(j, "delivered")'
    BY <2>6 DEF InHand
  <2>11. WorkersHonest'
    BY <1>1, <2>1, <2>7, <2>8, <2>9, <2>10, DeskStepped
  <2> QED BY <1>2, <1>3, <1>10, <2>11 DEF Post
<1>11. ASSUME NEW w \in Workers, Deliver(w)
       PROVE  (RowsHonest /\ WorkersHonest /\ OffIsOff)'
  <2>1. PICK j \in Jobs : j = work[w].doing
    BY <1>1, <1>11 DEF Deliver, Doing, Types, WorkTyped, Desks
  <2>2. j.key \in Keys /\ j.attempt + 1 \in Nat
    BY <2>1 DEF Jobs
  <2>3. InHand(j, "delivered")
    BY <1>1, <1>11, <2>1 DEF Deliver, Doing, WorkerHonest
  <2>4. /\ queue' = Finished(j.key, "delivered", j.attempt + 1)
        /\ UNCHANGED <<hooks, posts, acks>> /\ Goes(w, "reset")
    BY <1>11, <2>1 DEF Deliver
  <2>5. Tried(j.key, j.attempt + 1)' /\ acks'[j.key] > 0
    BY <2>3, <2>4 DEF InHand, Tried
  <2>6. RowsHonest'
    BY <1>1, <2>2, <2>4, <2>5, RowFinished
  <2>7. "reset" \in Steps /\ InHand(j, "reset")'
    BY DEF Steps, InHand
  <2>8. WorkersHonest'
    BY <1>1, <2>1, <2>4, <2>7, DeskStepped
  <2> QED BY <1>2, <2>4, <2>6, <2>8
<1>12. ASSUME NEW w \in Workers, Reset(w)
       PROVE  (RowsHonest /\ WorkersHonest /\ OffIsOff)'
  <2>1. WorkersHonest'
    BY <1>1, <1>12, DeskStepped DEF Reset
  <2>2. OffIsOff'
    BY <1>1, <1>12 DEF Reset, OffIsOff, Types, HooksTyped
  <2> QED BY <1>3, <1>12, <2>1, <2>2 DEF Reset
<1>13. ASSUME NEW w \in Workers, Note(w)
       PROVE  (RowsHonest /\ WorkersHonest /\ OffIsOff)'
  <2>1. PICK j \in Jobs : j = work[w].doing
    BY <1>1, <1>13 DEF Note, Doing, Types, WorkTyped, Desks
  <2>2. InHand(j, "failed")
    BY <1>1, <1>13, <2>1 DEF Note, Doing, WorkerHonest
  <2>3. UNCHANGED <<queue, posts, off>> /\ Goes(w, "noted")
    BY <1>13 DEF Note
  <2>4. "noted" \in Steps /\ InHand(j, "noted")'
    BY <2>2, <2>3 DEF InHand, Tried, Steps
  <2>5. WorkersHonest'
    BY <1>1, <2>1, <2>3, <2>4, DeskStepped
  <2>6. OffIsOff'
    BY <1>1, <1>13, <2>1, JobTypes DEF Note, OffIsOff, Types, HooksTyped
  <2> QED BY <1>3, <2>3, <2>5, <2>6
<1>14. ASSUME NEW w \in Workers, Fail(w)
       PROVE  (RowsHonest /\ WorkersHonest /\ OffIsOff)'
  <2>1. PICK j \in Jobs : j = work[w].doing
    BY <1>1, <1>14 DEF Fail, Doing, Types, WorkTyped, Desks
  <2>2. j.key \in Keys /\ j.attempt + 1 \in Nat
    BY <2>1 DEF Jobs
  <2>3. InHand(j, "noted")
    BY <1>1, <1>14, <2>1 DEF Fail, Doing, WorkerHonest
  <2>4. /\ UNCHANGED <<hooks, posts, acks, off>>
        /\ \/ work' = [work EXCEPT ![w] = Idle] /\ UNCHANGED queue
           \/ /\ queue' = Finished(j.key, IF Spent(j.attempt + 1) THEN "dead" ELSE "pending",
                                   j.attempt + 1)
              /\ Goes(w, "disable") \/ Done(w)
    BY <1>14, <2>1 DEF Fail
  <2>5. "disable" \in Steps /\ InHand(j, "disable")'
    BY DEF InHand, Steps
  <2>6. WorkersHonest'
    BY <1>1, <2>1, <2>4, <2>5, DeskStepped
  <2>7. Tried(j.key, j.attempt + 1) /\ Tried(j.key, j.attempt + 1)'
    BY <2>3, <2>4 DEF InHand, Tried
  <2>8. Spent(j.attempt + 1) => posts'[j.key] >= MaxAttempts
    <3>1. posts[j.key] \in 0 .. MaxAttempts
      BY <1>1, <2>2 DEF Types, HistoryTyped
    <3>2. j.attempt + 1 >= MaxAttempts => posts[j.key] >= MaxAttempts
      BY <2>2, <2>7, <3>1, Capped, WebhookAssumption DEF Tried
    <3> QED BY <2>4, <3>2 DEF Spent
  <2>9. CASE queue' = queue
    BY <1>2, <1>3, <2>4, <2>6, <2>9
  <2>10. ASSUME NEW status \in {"pending", "dead"},
                queue' = Finished(j.key, status, j.attempt + 1),
                status = "dead" => Spent(j.attempt + 1)
         PROVE  RowsHonest'
    BY <1>1, <2>2, <2>7, <2>8, <2>10, RowFinished
  <2> QED BY <1>2, <2>4, <2>6, <2>9, <2>10
<1>15. ASSUME NEW w \in Workers, Disable(w)
       PROVE  (RowsHonest /\ WorkersHonest /\ OffIsOff)'
  <2>1. PICK j \in Jobs : j = work[w].doing
    BY <1>1, <1>15 DEF Disable, Doing, Types, WorkTyped, Desks
  <2>2. PICK h \in Hooks : h = HookOf(j.key)
    BY <1>1, JobTypes DEF Types
  <2>3. /\ hooks' = [hooks EXCEPT ![h].active = FALSE]
        /\ off' = off \cup {h} /\ UNCHANGED queue /\ Goes(w, "bury")
    BY <1>15, <2>1, <2>2 DEF Disable, Since
  <2>4. "bury" \in Steps /\ InHand(j, "bury")'
    BY <2>2, <2>3 DEF InHand, Steps
  <2>5. WorkersHonest'
    BY <1>1, <2>1, <2>3, <2>4, DeskStepped
  <2>6. OffIsOff'
    BY <1>1, <2>3 DEF OffIsOff, Types, HooksTyped
  <2> QED BY <1>3, <2>3, <2>5, <2>6
<1>16. ASSUME NEW w \in Workers, Bury(w)
       PROVE  (RowsHonest /\ WorkersHonest /\ OffIsOff)'
  <2>1. PICK j \in Jobs : j = work[w].doing
    BY <1>1, <1>16 DEF Bury, Doing, Types, WorkTyped, Desks
  <2>2. HookOf(j.key) \in off
    BY <1>1, <1>16, <2>1 DEF Bury, Doing, WorkerHonest, InHand
  <2>3. WorkersHonest'
    BY <1>1, <1>16, DeskStepped DEF Bury
  <2>4. ASSUME NEW k \in Keys, queue'[k] # queue[k]
        PROVE  RowHonest(k)'
    <3>1. /\ HookOf(k) = HookOf(j.key) /\ queue[k] # None
          /\ queue'[k] = [queue[k] EXCEPT !.status = "dead"]
      BY <1>16, <2>1, <2>4 DEF Bury
    <3>2. queue'[k].attempt = queue[k].attempt /\ queue'[k].status = "dead"
      BY <1>1, <3>1 DEF Types, QueueTyped, Rows
    <3>3. HookOf(k) \in off'
      BY <1>1, <2>2, <3>1 DEF Grows
    <3> QED BY <1>1, <3>1, <3>2, <3>3, RowEdited
  <2> QED BY <1>2, <1>16, <2>3, <2>4 DEF Bury
<1>17. ASSUME NEW w \in Workers, Crash(w)
       PROVE  (RowsHonest /\ WorkersHonest /\ OffIsOff)'
  <2>1. WorkersHonest'
    BY <1>1, <1>17, DeskStepped DEF Crash
  <2> QED BY <1>2, <1>3, <1>17, <2>1 DEF Crash
<1>18. ASSUME NEW k \in Keys, Lapse(k) \/ BackoffOver(k)
       PROVE  (RowsHonest /\ WorkersHonest /\ OffIsOff)'
  <2>1. /\ queue[k] # None /\ UNCHANGED <<hooks, work>>
        /\ queue' = [queue EXCEPT ![k] = [queue[k] EXCEPT !.leased = FALSE]]
           \/ queue' = [queue EXCEPT ![k] = [queue[k] EXCEPT !.due = TRUE]]
    BY <1>18 DEF Lapse, BackoffOver
  <2>2. /\ \A x \in Keys \ {k} : queue'[x] = queue[x]
        /\ queue'[k].attempt = queue[k].attempt
        /\ queue'[k].status = queue[k].status
    BY <1>1, <2>1 DEF Types, QueueTyped, Rows
  <2>3. RowHonest(k)'
    BY <1>1, <2>1, <2>2, RowEdited
  <2> QED BY <1>2, <1>3, <2>1, <2>2, <2>3
<1>19. ASSUME NEW o \in Operators, NEW h \in Hooks, DeleteDeliveries(o, h)
       PROVE  (RowsHonest /\ WorkersHonest /\ OffIsOff)'
  <2>1. \A k \in Keys : queue'[k] = queue[k] \/ queue'[k] = None
    BY <1>19 DEF DeleteDeliveries
  <2>2. RowsHonest'
    BY <1>2, <2>1 DEF RowHonest
  <2> QED BY <1>2, <1>3, <1>19, <2>2 DEF DeleteDeliveries
<1>20. ASSUME NEW h \in Hooks, NEW active \in BOOLEAN, SetActive(h, active)
       PROVE  (RowsHonest /\ WorkersHonest /\ OffIsOff)'
  <2>1. OffIsOff'
    BY <1>1, <1>20 DEF SetActive, Since, OffIsOff, Types, HooksTyped
  <2> QED BY <1>3, <1>20, <2>1 DEF SetActive
<1>21. ASSUME NEW o \in Operators, DeleteHook(o)
       PROVE  (RowsHonest /\ WorkersHonest /\ OffIsOff)'
  <2>1. OffIsOff'
    BY <1>1, <1>21 DEF DeleteHook, Since, OffIsOff, Types, HooksTyped
  <2> QED BY <1>3, <1>21, <2>1 DEF DeleteHook
<1>24. ASSUME NEW o \in Operators, Retry(o)
       PROVE  (RowsHonest /\ WorkersHonest /\ OffIsOff)'
  <2>0. PICK k \in Keys : k = op[o].of
    BY <1>1, <1>24 DEF Retry, Serving, Types, OpTyped, Requests
  <2>1. CASE queue[k] = None
    BY <1>2, <1>3, <1>24, <2>0, <2>1 DEF Retry
  <2>2. CASE queue[k] # None
    <3>1. queue' = [queue EXCEPT ![k] = [queue[k] EXCEPT !.status = "pending", !.due = TRUE,
                                                         !.leased = FALSE]]
      BY <1>24, <2>0, <2>2 DEF Retry
    <3>2. /\ \A x \in Keys \ {k} : queue'[x] = queue[x]
          /\ queue'[k].attempt = queue[k].attempt
          /\ queue'[k].status = "pending"
      BY <1>1, <2>2, <3>1 DEF Types, QueueTyped, Rows
    <3>3. RowHonest(k)'
      BY <1>1, <2>2, <3>2, RowEdited
    <3> QED BY <1>2, <1>3, <1>24, <3>2, <3>3 DEF Retry
  <2> QED BY <2>1, <2>2
<1>25. ASSUME NEW o \in Operators, CrashServing(o) \/ \E k \in Keys : RetryBegins(o, k)
       PROVE  (RowsHonest /\ WorkersHonest /\ OffIsOff)'
  BY <1>2, <1>3, <1>25 DEF CrashServing, RetryBegins, db
<1>22. ASSUME UNCHANGED vars
       PROVE  (RowsHonest /\ WorkersHonest /\ OffIsOff)'
  BY <1>2, <1>3, <1>22 DEF vars
<1>23. (RowsHonest /\ WorkersHonest /\ OffIsOff)'
  BY <1>4, <1>5, <1>6, <1>7, <1>8, <1>9, <1>10, <1>11, <1>12, <1>13, <1>14, <1>15, <1>16,
     <1>17, <1>18, <1>19, <1>20, <1>21, <1>22, <1>24, <1>25 DEF Next, Pass, Operator
<1> QED
  BY <1>1, <1>23 DEF Honest

-----------------------------------------------------------------------------
(* A row marked delivered was answered 2xx by its endpoint, whichever      *)
(* worker marked it, from however stale a copy (Deliverer.run_once,        *)
(* finish_delivery).                                                       *)
THEOREM Delivered == Spec => []DeliveredWasAcknowledged
<1>1. Honest => DeliveredWasAcknowledged
  BY DEF Honest, RowHonest, DeliveredWasAcknowledged
<1>2. Init => Honest
  BY HonestInit
<1>3. Honest /\ [Next]_vars => Honest'
  BY HonestStep
<1> QED BY <1>1, <1>2, <1>3, PTL DEF Spec

(* A delivery is dead only after MaxAttempts requests, or once its         *)
(* endpoint has been switched off or deleted (Deliverer.run_once,          *)
(* disable_webhook, finish_delivery).                                      *)
THEOREM GivenUp == Spec => []GivesUpOnlyAfterTrying
<1>1. Honest => GivesUpOnlyAfterTrying
  BY DEF Honest, RowHonest, GivesUpOnlyAfterTrying
<1>2. Init => Honest
  BY HonestInit
<1>3. Honest /\ [Next]_vars => Honest'
  BY HonestStep
<1> QED BY <1>1, <1>2, <1>3, PTL DEF Spec

-----------------------------------------------------------------------------
(* The attempt number of a row stays bounded: what waits has an attempt    *)
(* left, counting one more for each retry an operator asked for, and so    *)
(* has every copy of it in a worker's memory.                              *)
Fits(attempt) == attempt <= MaxAttempts + ops
Left(attempt) == attempt < MaxAttempts + ops

RowsFit ==
  \A k \in Keys : queue[k] # None =>
    Fits(queue[k].attempt) /\ (queue[k].status = "pending" => Left(queue[k].attempt))

JobsFit(w) ==
  /\ \A j \in work[w].seen \cup work[w].mine : Left(j.attempt)
  /\ work[w].doing # None => Left(work[w].doing.attempt)

AttemptsFit == ops \in Nat /\ RowsFit /\ \A w \in Workers : JobsFit(w)

LEMMA AttemptsStart == Init => AttemptsFit
BY WebhookAssumption DEF Init, AttemptsFit, RowsFit, JobsFit, Idle

(* Where no row changes its attempt or starts to wait.                     *)
LEMMA RowsStillFit ==
  ASSUME Types, AttemptsFit, ops' \in {ops, ops + 1},
         \A k \in Keys : queue'[k] # None =>
           /\ queue[k] # None /\ queue'[k].attempt = queue[k].attempt
           /\ queue'[k].status = "pending" => queue[k].status = "pending" \/ ops' = ops + 1
  PROVE  RowsFit'
<1>1. \A k \in Keys : queue[k] # None => queue[k].attempt \in Nat
  BY DEF Types, QueueTyped, Rows
<1>. QED  BY <1>1, WebhookAssumption DEF AttemptsFit, RowsFit, Fits, Left

LEMMA JobsStillFit ==
  ASSUME Types, AttemptsFit, ops' \in {ops, ops + 1}, work' = work
  PROVE  \A w \in Workers : JobsFit(w)'
<1>1. \A w \in Workers :
        /\ \A j \in work[w].seen \cup work[w].mine : j.attempt \in Nat
        /\ work[w].doing # None => work[w].doing.attempt \in Nat
  BY DEF Types, WorkTyped, Desks, Jobs
<1>. QED  BY <1>1, WebhookAssumption DEF AttemptsFit, JobsFit, Left

(* A worker that goes on with jobs it had, or drops them.                  *)
LEMMA JobsFewer ==
  ASSUME Types, AttemptsFit, ops' = ops, NEW w \in Workers,
         \A v \in Workers : v # w => work'[v] = work[v],
         work'[w].seen \cup work'[w].mine \subseteq work[w].seen \cup work[w].mine,
         work'[w].doing \in {None, work[w].doing} \cup work[w].seen \cup work[w].mine
  PROVE  \A v \in Workers : JobsFit(v)'
BY DEF AttemptsFit, JobsFit, Left

LEMMA AttemptsStep ==
  ASSUME Types, Types', AttemptsFit, [Next]_vars
  PROVE  AttemptsFit'
<1>1. /\ ops \in Nat /\ \A k \in Keys : queue[k] # None => queue[k] \in Rows /\ queue[k].attempt \in Nat
      /\ \A w \in Workers : work[w] \in Desks
      /\ QueueTyped /\ WorkTyped
  BY DEF Types, AttemptsFit, QueueTyped, WorkTyped, Rows
<1>2. ASSUME UNCHANGED <<queue, work, ops>>  PROVE AttemptsFit'
  BY <1>2 DEF AttemptsFit, RowsFit, JobsFit, Fits, Left
<1>3. ASSUME NEW e \in Events, FanOut(e)  PROVE AttemptsFit'
  <2>1. \A k \in Keys : queue'[k] = Fresh \/ queue'[k] = queue[k]
    BY <1>3 DEF FanOut
  <2>2. Fits(0) /\ Left(0) /\ Fresh.attempt = 0
    BY <1>1, WebhookAssumption DEF Fits, Left, Fresh
  <2>. QED  BY <1>3, <2>1, <2>2 DEF FanOut, AttemptsFit, RowsFit, JobsFit, Fits, Left, bounds
<1>4. ASSUME NEW w \in Workers, Select(w)  PROVE AttemptsFit'
  <2>1. work' = [work EXCEPT ![w] = [work[w] EXCEPT !.seen = {Job(k) : k \in {x \in Keys : Due(x)}}]]
    BY <1>4 DEF Select
  <2>2. \A k \in Keys : Due(k) => Left(Job(k).attempt)
    BY DEF Due, Job, AttemptsFit, RowsFit
  <2>3. /\ \A v \in Workers : v # w => work'[v] = work[v]
        /\ work'[w] = [work[w] EXCEPT !.seen = {Job(k) : k \in {x \in Keys : Due(x)}}]
    BY <1>1, <2>1 DEF WorkTyped
  <2>4. /\ work'[w].seen = {Job(k) : k \in {x \in Keys : Due(x)}}
        /\ work'[w].mine = work[w].mine /\ work'[w].doing = work[w].doing
    BY <1>1, <2>3 DEF Desks
  <2>5. ops' = ops /\ queue' = queue  BY <1>4 DEF Select, db, bounds
  <2>6. \A j \in work'[w].seen \cup work'[w].mine : Left(j.attempt)
    BY <2>2, <2>4 DEF AttemptsFit, JobsFit
  <2>7. JobsFit(w)'  BY <2>4, <2>5, <2>6 DEF AttemptsFit, JobsFit, Left
  <2>8. \A v \in Workers : JobsFit(v)'
    BY <2>3, <2>5, <2>7 DEF AttemptsFit, JobsFit, Left
  <2>. QED  BY <2>5, <2>8 DEF AttemptsFit, RowsFit, Fits, Left
<1>5. ASSUME NEW w \in Workers, Claim(w)  PROVE AttemptsFit'
  <2>1. PICK j \in work[w].seen : LET won == queue[j.key] # None /\ ~queue[j.key].leased IN
          /\ queue' = IF won THEN [queue EXCEPT ![j.key].leased = TRUE] ELSE queue
          /\ work' = [work EXCEPT ![w] =
               [work[w] EXCEPT !.seen = @ \ {j}, !.mine = IF won THEN @ \cup {j} ELSE @]]
    BY <1>5 DEF Claim
  <2>2. ops' = ops  BY <1>5 DEF Claim, bounds
  <2>3. j \in Jobs /\ j.key \in Keys  BY <1>1, JobTypes DEF Desks
  <2>4. RowsFit'
    <3>1. \A k \in Keys : queue'[k] # None =>
            /\ queue[k] # None /\ queue'[k].attempt = queue[k].attempt
            /\ queue'[k].status = queue[k].status
      BY <1>1, <2>1, <2>3 DEF QueueTyped, Rows
    <3>. QED  BY <2>2, <3>1, RowsStillFit
  <2>5. /\ \A v \in Workers : v # w => work'[v] = work[v]
        /\ work'[w].seen \cup work'[w].mine \subseteq work[w].seen \cup work[w].mine
        /\ work'[w].doing = work[w].doing
    BY <1>1, <2>1 DEF WorkTyped, Desks
  <2>6. \A v \in Workers : JobsFit(v)'  BY <2>2, <2>5, JobsFewer
  <2>. QED  BY <1>1, <2>2, <2>4, <2>6 DEF AttemptsFit
<1>6. ASSUME NEW w \in Workers, Begin(w) \/ Post(w) \/ Reset(w) \/ Note(w) \/ Disable(w)
      PROVE  AttemptsFit'
  <2>1. queue' = queue /\ ops' = ops
    BY <1>6 DEF Begin, Post, Reset, Note, Disable, db, bounds
  <2>2. /\ \A v \in Workers : v # w => work'[v] = work[v]
        /\ work'[w].seen \cup work'[w].mine \subseteq work[w].seen \cup work[w].mine
        /\ work'[w].doing \in {None, work[w].doing} \cup work[w].seen \cup work[w].mine
    <3>1. CASE Begin(w)  BY <1>1, <3>1 DEF Begin, WorkTyped, Desks
    <3>2. CASE Post(w) \/ Note(w) \/ Disable(w)
      BY <1>1, <3>2 DEF Post, Note, Disable, Goes, WorkTyped, Desks
    <3>3. CASE Reset(w)  BY <1>1, <3>3 DEF Reset, Done, WorkTyped, Desks
    <3>. QED  BY <1>6, <3>1, <3>2, <3>3
  <2>3. \A v \in Workers : JobsFit(v)'  BY <2>1, <2>2, JobsFewer
  <2>. QED  BY <2>1, <2>3 DEF AttemptsFit, RowsFit, Fits, Left
<1>7. ASSUME NEW w \in Workers, Drop(w) \/ Deliver(w) \/ Fail(w)
      PROVE  AttemptsFit'
  <2>. DEFINE j == work[w].doing
  <2>1. ops' = ops  BY <1>7 DEF Drop, Deliver, Fail, bounds
  <2>2. j # None /\ j \in Jobs /\ j.key \in Keys /\ j.attempt \in Nat /\ Left(j.attempt)
    BY <1>1, <1>7, JobTypes DEF Drop, Deliver, Fail, Doing, Desks, AttemptsFit, JobsFit
  <2>3. /\ \A v \in Workers : v # w => work'[v] = work[v]
        /\ work'[w].seen \cup work'[w].mine \subseteq work[w].seen \cup work[w].mine
        /\ work'[w].doing \in {None, work[w].doing} \cup work[w].seen \cup work[w].mine
    <3>1. CASE Drop(w) \/ Deliver(w)
      BY <1>1, <3>1 DEF Drop, Deliver, Done, Goes, WorkTyped, Desks
    <3>2. CASE Fail(w)
      <4>1. \/ work' = [work EXCEPT ![w] = Idle]
            \/ work' = [work EXCEPT ![w] = [@ EXCEPT !.doing = None, !.step = "next"]]
            \/ work' = [work EXCEPT ![w].step = "disable"]
        BY <3>2 DEF Fail, Done, Goes
      <4>2. CASE work' = [work EXCEPT ![w] = Idle]
        BY <1>1, <4>2 DEF Idle, WorkTyped
      <4>3. CASE work' = [work EXCEPT ![w] = [@ EXCEPT !.doing = None, !.step = "next"]]
        BY <1>1, <4>3 DEF WorkTyped, Desks
      <4>4. CASE work' = [work EXCEPT ![w].step = "disable"]
        BY <1>1, <4>4 DEF WorkTyped, Desks
      <4>. QED  BY <4>1, <4>2, <4>3, <4>4
    <3>. QED  BY <1>7, <3>1, <3>2
  <2>4. \A v \in Workers : JobsFit(v)'  BY <2>1, <2>3, JobsFewer
  <2>5. \/ queue' = queue
        \/ \E n \in {j.attempt, j.attempt + 1}, status \in {"pending", "delivered", "dead"} :
             /\ queue' = Finished(j.key, status, n)
             /\ status = "pending" => n = j.attempt + 1 /\ ~Spent(n)
    BY <1>7 DEF Drop, Deliver, Fail
  <2>6. RowsFit'
    <3>1. CASE queue' = queue  BY <2>1, <3>1 DEF AttemptsFit, RowsFit, Fits, Left
    <3>2. CASE queue' # queue
      <4>1. PICK n \in {j.attempt, j.attempt + 1}, status \in {"pending", "delivered", "dead"} :
              /\ queue' = Finished(j.key, status, n)
              /\ status = "pending" => n = j.attempt + 1 /\ ~Spent(n)
        BY <2>5, <3>2
      <4>2. n \in Nat  BY <2>2, <4>1
      <4>3. /\ \A x \in Keys \ {j.key} : queue'[x] = queue[x]
            /\ queue'[j.key] # None => queue'[j.key].status = status /\ queue'[j.key].attempt = n
        BY <1>1, <2>2, <4>1, <4>2, FinishedRow
      <4>4. Fits(n) /\ (status = "pending" => Left(n))
        BY <1>1, <2>2, <4>1, <4>2, WebhookAssumption DEF Fits, Left, Spent
      <4>. QED  BY <2>1, <4>3, <4>4 DEF AttemptsFit, RowsFit, Fits, Left
    <3>. QED  BY <3>1, <3>2
  <2>. QED  BY <1>1, <2>1, <2>4, <2>6 DEF AttemptsFit
<1>8. ASSUME NEW w \in Workers, Bury(w)  PROVE AttemptsFit'
  <2>1. ops' = ops  BY <1>8 DEF Bury, bounds
  <2>2. \A k \in Keys : queue'[k] # None =>
          /\ queue[k] # None /\ queue'[k].attempt = queue[k].attempt
          /\ queue'[k].status = "pending" => queue[k].status = "pending"
    BY <1>1, <1>8 DEF Bury, Rows
  <2>3. /\ \A v \in Workers : v # w => work'[v] = work[v]
        /\ work'[w].seen = work[w].seen /\ work'[w].mine = work[w].mine
        /\ work'[w].doing = None
    BY <1>1, <1>8 DEF Bury, Done, WorkTyped, Desks
  <2>4. RowsFit' /\ \A v \in Workers : JobsFit(v)'
    BY <2>1, <2>2, <2>3, RowsStillFit, JobsFewer
  <2>. QED  BY <1>1, <2>1, <2>4 DEF AttemptsFit
<1>9. ASSUME NEW w \in Workers, Crash(w)  PROVE AttemptsFit'
  <2>1. queue' = queue /\ ops' = ops  BY <1>9 DEF Crash, db
  <2>2. /\ \A v \in Workers : v # w => work'[v] = work[v]
        /\ work'[w] = Idle
    BY <1>1, <1>9 DEF Crash, WorkTyped
  <2>3. \A v \in Workers : JobsFit(v)'  BY <2>1, <2>2, JobsFewer DEF Idle
  <2>. QED  BY <2>1, <2>3 DEF AttemptsFit, RowsFit, Fits, Left
<1>10. ASSUME NEW k \in Keys, Lapse(k) \/ BackoffOver(k)  PROVE AttemptsFit'
  <2>1. work' = work /\ ops' = ops
    BY <1>10 DEF Lapse, BackoffOver, bounds
  <2>2. \A x \in Keys : queue'[x] # None =>
          /\ queue[x] # None /\ queue'[x].attempt = queue[x].attempt
          /\ queue'[x].status = queue[x].status
    BY <1>1, <1>10 DEF Lapse, BackoffOver, QueueTyped, Rows
  <2>3. RowsFit' /\ \A v \in Workers : JobsFit(v)'
    BY <2>1, <2>2, RowsStillFit, JobsStillFit
  <2>. QED  BY <1>1, <2>1, <2>3 DEF AttemptsFit
<1>11. ASSUME NEW h \in Hooks, NEW active \in BOOLEAN, SetActive(h, active)
       PROVE  AttemptsFit'
  <2>1. work' = work /\ ops' = ops + 1 /\ queue' = queue
    BY <1>11 DEF SetActive
  <2>2. RowsFit' /\ \A v \in Workers : JobsFit(v)'
    BY <2>1, RowsStillFit, JobsStillFit
  <2>. QED  BY <1>1, <2>1, <2>2 DEF AttemptsFit
<1>12. ASSUME NEW o \in Operators, DeleteHook(o)  PROVE AttemptsFit'
  <2>1. work' = work /\ ops' = ops + 1 /\ queue' = queue
    BY <1>12 DEF DeleteHook, Carried
  <2>2. RowsFit' /\ \A v \in Workers : JobsFit(v)'
    BY <2>1, RowsStillFit, JobsStillFit
  <2>. QED  BY <1>1, <2>1, <2>2 DEF AttemptsFit
<1>13. ASSUME NEW o \in Operators, NEW h \in Hooks, DeleteDeliveries(o, h)  PROVE AttemptsFit'
  <2>1. work' = work /\ ops' = ops
    BY <1>13 DEF DeleteDeliveries, bounds
  <2>2. \A x \in Keys : queue'[x] # None => queue'[x] = queue[x]
    BY <1>13 DEF DeleteDeliveries
  <2>3. RowsFit' /\ \A v \in Workers : JobsFit(v)'
    BY <2>1, <2>2, RowsStillFit, JobsStillFit
  <2>. QED  BY <1>1, <2>1, <2>3 DEF AttemptsFit
<1>14. ASSUME NEW o \in Operators, Retry(o)  PROVE AttemptsFit'
  <2>1. work' = work /\ ops' = ops + 1
    BY <1>14 DEF Retry, Carried
  <2>2. PICK k \in Keys : k = op[o].of
    BY <1>14 DEF Retry, Serving, Types, OpTyped, Requests
  <2>3. \A x \in Keys : queue'[x] # None =>
          queue[x] # None /\ queue'[x].attempt = queue[x].attempt
    BY <1>1, <1>14, <2>2 DEF Retry, QueueTyped, Rows
  <2>4. RowsFit' /\ \A v \in Workers : JobsFit(v)'
    BY <2>1, <2>3, RowsStillFit, JobsStillFit
  <2>. QED  BY <1>1, <2>1, <2>4 DEF AttemptsFit
<1>15. ASSUME NEW o \in Operators, CrashServing(o) \/ \E k \in Keys : RetryBegins(o, k)
       PROVE  AttemptsFit'
  BY <1>2, <1>15 DEF CrashServing, RetryBegins, db, bounds
<1>. QED  BY <1>2, <1>3, <1>4, <1>5, <1>6, <1>7, <1>8, <1>9, <1>10, <1>11, <1>12, <1>13, <1>14, <1>15
          DEF Next, Pass, Operator, Append, CrashAppending, vars, db, bounds

(* However often workers crash, lose their leases or repeat each other's   *)
(* work, a delivery's attempt number never passes the limit by more than   *)
(* the retries operators asked for (and every stored row and copied job    *)
(* has its type).                                                          *)
THEOREM AttemptsBounded == Spec => []WebhookTypeOK
<1>1. Honest /\ AttemptsFit => WebhookTypeOK
  <2>. SUFFICES ASSUME Types, AttemptsFit  PROVE WebhookTypeOK
    BY DEF Honest
  <2>1. ASSUME NEW k \in Keys, queue[k] # None
        PROVE  /\ queue[k].status \in {"pending", "delivered", "dead"}
               /\ queue[k].attempt \in 0 .. MaxAttempts + ops
    <3>1. queue[k] \in Rows /\ queue[k].attempt \in Nat
      BY <2>1 DEF Types, QueueTyped, Rows
    <3>2. queue[k].attempt <= MaxAttempts + ops /\ ops \in Nat
      BY <2>1 DEF AttemptsFit, RowsFit, Fits
    <3>. QED  BY <3>1, <3>2, WebhookAssumption DEF Rows
  <2>2. \A w \in Workers : \A j \in work[w].seen \cup work[w].mine : j.key \in Keys
    BY JobTypes DEF Types, WorkTyped, Desks
  <2>. QED  BY <2>1, <2>2 DEF WebhookTypeOK, Types, HooksTyped
<1>2. Honest => Types  BY DEF Honest
<1>3. Honest /\ [Next]_vars => Honest'  BY HonestStep
<1>4. Honest' => Types'  BY DEF Honest
<1>5. Types /\ Types' /\ AttemptsFit /\ [Next]_vars => AttemptsFit'  BY AttemptsStep
<1>. QED  BY <1>1, <1>2, <1>3, <1>4, <1>5, HonestInit, AttemptsStart, PTL DEF Spec
=============================================================================
