----------------------------- MODULE Ownership -----------------------------
(***************************************************************************)
(* Whose camera it is.  Three tables of the update server say so: the      *)
(* registrations (a desk had the camera in hand), the account bindings     *)
(* (learned from a check-in, or set by an operator), and the fleet rows    *)
(* that check-ins write.  A check-in and an operator's request are each a  *)
(* sequence of statements on them, and run concurrently: check-ins with    *)
(* requests, and requests with each other.                                 *)
(*                                                                         *)
(* A definition named M_... is a mutant: a plausible bug in the definition *)
(* below it.                                                               *)
(***************************************************************************)
EXTENDS Naturals

CONSTANTS
  Cameras, Accounts,
  Reports,      \* what a camera's images may report: an account, or none
  Operators,    \* each has at most one request under way, for any account
  MaxKeys,      \* bound on a camera's keys, one after the other
  MaxOps,       \* bound on requests, reflashes and server restarts together
  None, Nobody  \* Nobody: the account '' of an image that names none

ASSUME OwnershipAssumption ==
  /\ Nobody \notin Accounts /\ Reports \subseteq Accounts \cup {Nobody}
  /\ MaxKeys \in Nat \ {0} /\ MaxOps \in Nat
  /\ None \notin Nat

VARIABLES
  board,      \* "claim": of a type the registrar never registers
  reg,        \* device_registrations: the account, and the camera's keys
  bound,      \* device_accounts: the account, "learned" or "admin"
  row,        \* devices: the account of the fleet row
  unclaimed,  \* unclaimed_devices: cameras listed for an account to claim
  key,        \* the camera's keys: a reflash of its bootloader makes others
  box,        \* the last lockbox the camera was given
  job,        \* the check-in being served for a camera, or None
  op,         \* the request being served for an operator, or None
  vouched,    \* history: the records an account's desk has signed
  clash,      \* history: the cameras two requests were under way for at once,
              \* until a release that is alone
  ops

tables == <<board, reg, bound, row, unclaimed>>   \* a camera's board stays what it is
vars == <<board, reg, bound, row, unclaimed, key, box, job, op, vouched, clash, ops>>

Init ==
  /\ board \in [Cameras -> {"registrar", "claim"}]
  /\ reg = [c \in Cameras |-> None] /\ bound = [c \in Cameras |-> None]
  /\ row = [c \in Cameras |-> None] /\ unclaimed = {}
  /\ key = [c \in Cameras |-> 1] /\ box = [c \in Cameras |-> None]
  /\ job = [c \in Cameras |-> None] /\ op = [o \in Operators |-> None]
  /\ vouched = {} /\ clash = {} /\ ops = 0

-----------------------------------------------------------------------------
(* A check-in, one at a time of a camera.  Reads that nothing is written   *)
(* between are one step.  Whether a camera of the other boards is known to *)
(* the registrar never changes: the others are served nothing.             *)

(* A camera the registrar never registers counts as registered once the    *)
(* account it reports has claimed it.                                      *)
Registered(c, report) ==
  board[c] = "claim" => reg[c] # None /\ reg[c].account = report

M_CheckInLearnsEmpty(c, report, signed) ==
  /\ job[c] = None
  /\ job' = [job EXCEPT ![c] =
       [step |-> IF ~Registered(c, report) THEN "list"
                 ELSE IF bound[c] = None THEN "learn" ELSE "serve",
        report |-> report, store |-> FALSE,
        account |-> IF Registered(c, report) /\ bound[c] # None
                    THEN bound[c].account ELSE report,
        signed |-> IF signed THEN key[c] ELSE None]]
  /\ UNCHANGED <<tables, key, box, op, vouched, clash, ops>>

(* A binding wins over the report; a report that names an account is       *)
(* learned.  A signature is by the keys the camera has; one at a stale     *)
(* time counts for none.                                                   *)
CheckIn(c, report, signed) ==
  /\ job[c] = None
  /\ job' = [job EXCEPT ![c] =
       [step |-> IF ~Registered(c, report) THEN "list"
                 ELSE IF bound[c] = None /\ report # Nobody THEN "learn" ELSE "serve",
        report |-> report, store |-> FALSE,
        account |-> IF Registered(c, report) /\ bound[c] # None
                    THEN bound[c].account ELSE report,
        signed |-> IF signed THEN key[c] ELSE None]]
  /\ UNCHANGED <<tables, key, box, op, vouched, clash, ops>>

(* An unclaimed board is listed for the account it reports, and served     *)
(* offers only.  (The list keeps an account's most recent entries.)        *)
List(c) ==
  /\ job[c] # None /\ job[c].step = "list"
  /\ unclaimed' = IF job[c].report = Nobody THEN unclaimed
                  ELSE unclaimed \cup {<<c, job[c].report>>}
  /\ job' = [job EXCEPT ![c].step = "offer"]
  /\ UNCHANGED <<board, reg, bound, row, key, box, op, vouched, clash, ops>>

M_LearnOver(c) ==
  /\ job[c] # None /\ job[c].step = "learn"
  /\ bound' = [bound EXCEPT ![c] = [account |-> job[c].report, source |-> "learned"]]
  /\ job' = [job EXCEPT ![c].step = "serve"]
  /\ UNCHANGED <<board, reg, row, unclaimed, key, box, op, vouched, clash, ops>>

(* INSERT ... ON CONFLICT DO NOTHING: the check-in goes on under the       *)
(* account it reported even when another binding got there first.          *)
Learn(c) ==
  /\ job[c] # None /\ job[c].step = "learn"
  /\ bound' = IF bound[c] # None THEN bound
              ELSE [bound EXCEPT ![c] = [account |-> job[c].report, source |-> "learned"]]
  /\ job' = [job EXCEPT ![c].step = "serve"]
  /\ UNCHANGED <<board, reg, row, unclaimed, key, box, op, vouched, clash, ops>>

(* A signature of keys that are not registered is refused; one of the      *)
(* registered keys has the row written, unless the camera is new to an     *)
(* account that is at its limit and has not registered it; without one     *)
(* there are offers only.                                                  *)
Serve(c) ==
  /\ job[c] # None /\ job[c].step = "serve"
  /\ LET j == job[c]
         refused == j.signed # None /\ (reg[c] # None => reg[c].key # j.signed)
         atLimit == ~refused /\ j.signed # None /\ row[c] = None
                    /\ reg[c].account # j.account
     IN  \/ /\ ~refused
            /\ job' = [job EXCEPT ![c] = [j EXCEPT !.step = "offer", !.store = (j.signed # None)]]
         \/ /\ refused \/ atLimit
            /\ job' = [job EXCEPT ![c] = None]
  /\ UNCHANGED <<tables, key, box, op, vouched, clash, ops>>

M_BoxedForAnyAccount(c) == reg[c] # None

(* keykeeper opens the release's seal and checks the camera's record       *)
(* against the account, and the desks, in the seal.                        *)
Boxed(c) == reg[c] # None /\ reg[c].account = job[c].account

(* Nothing is offered; or a release of the account is, with the lockbox    *)
(* for the keys registered now; without a lockbox it is not.  (A release   *)
(* not encrypted for each camera changes nothing here.)                    *)
Offer(c) ==
  /\ job[c] # None /\ job[c].step = "offer"
  /\ \/ UNCHANGED box
     \/ /\ Boxed(c)
        /\ box' = [box EXCEPT ![c] = [account |-> job[c].account, key |-> reg[c].key]]
  /\ job' = [job EXCEPT ![c] = IF job[c].store THEN [job[c] EXCEPT !.step = "store"] ELSE None]
  /\ UNCHANGED <<tables, key, op, vouched, clash, ops>>

M_StoreKeepsAccount(c) ==
  /\ job[c] # None /\ job[c].step = "store"
  /\ row' = [row EXCEPT ![c] = IF row[c] = None THEN job[c].account ELSE row[c]]
  /\ job' = [job EXCEPT ![c] = None]
  /\ UNCHANGED <<board, reg, bound, unclaimed, key, box, op, vouched, clash, ops>>

(* upsert_device, under the account found when the check-in came in.       *)
Store(c) ==
  /\ job[c] # None /\ job[c].step = "store"
  /\ row' = [row EXCEPT ![c] = job[c].account]
  /\ job' = [job EXCEPT ![c] = None]
  /\ UNCHANGED <<board, reg, bound, unclaimed, key, box, op, vouched, clash, ops>>

-----------------------------------------------------------------------------
(* The operators.  A request reads, checks, and then writes a statement at *)
(* a time, whatever others have written since; one refused changes nothing.*)
(* op[o].key is None but for a registration.                               *)
MayAct(o) == op[o] = None /\ ops < MaxOps

Asked(o, a, step, c, k) ==
  /\ op' = [op EXCEPT ![o] = [account |-> a, step |-> step, camera |-> c, key |-> k]]
  /\ clash' = IF \E p \in Operators : p # o /\ op[p] # None /\ op[p].camera = c
              THEN clash \cup {c} ELSE clash
  /\ ops' = ops + 1

AdminBound(c) == bound[c] # None /\ bound[c].source = "admin"
RegisteredToOther(a, c) == reg[c] # None /\ reg[c].account # a
BoundToOther(a, c) == AdminBound(c) /\ bound[c].account # a

(* The desk has the camera in hand, and signs a record of the keys it has; *)
(* the registration is read first.  (An account at its limit may be        *)
(* refused.)                                                               *)
Register(o, a, c) ==
  /\ MayAct(o) /\ ~RegisteredToOther(a, c)
  /\ Asked(o, a, "check", c, key[c])
  /\ vouched' = vouched \cup {[account |-> a, camera |-> c, key |-> key[c]]}
  /\ UNCHANGED <<tables, key, box, job>>

(* The binding is read first.                                              *)
Bind(o, a, c) ==
  /\ MayAct(o) /\ ~BoundToOther(a, c)
  /\ Asked(o, a, "check", c, None)
  /\ UNCHANGED <<tables, key, box, job, vouched>>

(* By the camera's account, or the root acting for it.                     *)
Release(o, a, c) ==
  /\ MayAct(o) /\ reg[c] # None /\ reg[c].account = a
  /\ Asked(o, a, "unregister", c, None)
  /\ UNCHANGED <<tables, key, box, job, vouched>>

(* The data lake's erasure comes first, and may fail: nothing is changed.  *)
Forget(o, a, c) ==
  /\ MayAct(o) /\ row[c] = a
  /\ Asked(o, a, "unbind", c, None)
  /\ UNCHANGED <<tables, key, box, job, vouched>>

Doing(o, step) == op[o] # None /\ op[o].step = step
Then(o, step) == op' = [op EXCEPT ![o] = IF step = "done" THEN None ELSE [op[o] EXCEPT !.step = step]]

M_CheckBindsRegistered(o) ==
  /\ Doing(o, "check")
  /\ LET q == op[o]
     IN  Then(o, IF q.key = None THEN "bind"
                 ELSE IF BoundToOther(q.account, q.camera) THEN "done" ELSE "put")
  /\ UNCHANGED <<tables, key, box, job, vouched, clash, ops>>

(* ... and the other of the two second.                                    *)
Check(o) ==
  /\ Doing(o, "check")
  /\ LET q == op[o]
     IN  Then(o, IF q.key = None
                 THEN IF RegisteredToOther(q.account, q.camera) THEN "done" ELSE "bind"
                 ELSE IF BoundToOther(q.account, q.camera) THEN "done" ELSE "put")
  /\ UNCHANGED <<tables, key, box, job, vouched, clash, ops>>

Put(o) ==
  /\ Doing(o, "put")
  /\ reg' = [reg EXCEPT ![op[o].camera] = [account |-> op[o].account, key |-> op[o].key]]
  /\ Then(o, "bind")
  /\ UNCHANGED <<board, bound, row, unclaimed, key, box, job, vouched, clash, ops>>

BindAccount(o) ==
  /\ Doing(o, "bind")
  /\ bound' = [bound EXCEPT ![op[o].camera] = [account |-> op[o].account, source |-> "admin"]]
  /\ Then(o, "row")
  /\ UNCHANGED <<board, reg, row, unclaimed, key, box, job, vouched, clash, ops>>

MoveRow(o) ==
  /\ Doing(o, "row")
  /\ row' = IF row[op[o].camera] = None THEN row
            ELSE [row EXCEPT ![op[o].camera] = op[o].account]
  /\ Then(o, IF op[o].key # None THEN "drop" ELSE "done")
  /\ UNCHANGED <<board, reg, bound, unclaimed, key, box, job, vouched, clash, ops>>

DropUnclaimed(o) ==
  /\ Doing(o, "drop")
  /\ unclaimed' = {e \in unclaimed : e[1] # op[o].camera}
  /\ Then(o, "done")
  /\ UNCHANGED <<board, reg, bound, row, key, box, job, vouched, clash, ops>>

Alone(o) == \A p \in Operators : p # o /\ op[p] # None => op[p].camera # op[o].camera

(* delete_registration looks again, and not at the account.                *)
Unregister(o) ==
  /\ Doing(o, "unregister")
  /\ reg' = [reg EXCEPT ![op[o].camera] = None]
  /\ Then(o, IF reg[op[o].camera] = None THEN "done" ELSE "unbind")
  /\ clash' = IF Alone(o) THEN clash \ {op[o].camera} ELSE clash
  /\ UNCHANGED <<board, bound, row, unclaimed, key, box, job, vouched, ops>>

(* forget_device; the camera's pin goes in between.                        *)
Unbind(o) ==
  /\ Doing(o, "unbind")
  /\ bound' = [bound EXCEPT ![op[o].camera] = None]
  /\ Then(o, "unrow")
  /\ UNCHANGED <<board, reg, row, unclaimed, key, box, job, vouched, clash, ops>>

DeleteRow(o) ==
  /\ Doing(o, "unrow")
  /\ row' = [row EXCEPT ![op[o].camera] = None]
  /\ Then(o, "done")
  /\ UNCHANGED <<board, reg, bound, unclaimed, key, box, job, vouched, clash, ops>>

-----------------------------------------------------------------------------
Reflash(c) ==
  /\ key[c] < MaxKeys /\ ops < MaxOps
  /\ key' = [key EXCEPT ![c] = @ + 1]
  /\ ops' = ops + 1
  /\ UNCHANGED <<tables, box, job, op, vouched, clash>>

(* The server restarts: every request in flight ends where it is.          *)
Crash ==
  /\ ops < MaxOps
  /\ \/ \E c \in Cameras : job[c] # None
     \/ \E o \in Operators : op[o] # None
  /\ job' = [c \in Cameras |-> None] /\ op' = [o \in Operators |-> None]
  /\ ops' = ops + 1
  /\ UNCHANGED <<tables, key, box, vouched, clash>>

-----------------------------------------------------------------------------
SignedCheckIn(c) == \E report \in Reports : CheckIn(c, report, TRUE)

Answer(c) == List(c) \/ Learn(c) \/ Serve(c) \/ Offer(c) \/ Store(c)

Ask(o, a, c) == Register(o, a, c) \/ Bind(o, a, c) \/ Release(o, a, c) \/ Forget(o, a, c)

Act(o) ==
  \/ Check(o) \/ Put(o) \/ BindAccount(o) \/ MoveRow(o) \/ DropUnclaimed(o)
  \/ Unregister(o) \/ Unbind(o) \/ DeleteRow(o)

Next ==
  \/ \E c \in Cameras : \/ \E report \in Reports : CheckIn(c, report, FALSE)
                        \/ SignedCheckIn(c) \/ Answer(c) \/ Reflash(c)
  \/ \E o \in Operators : Act(o) \/ \E a \in Accounts, c \in Cameras : Ask(o, a, c)
  \/ Crash

Spec == Init /\ [][Next]_vars

(* Requests once begun end.  Cameras poll for ever, and, their clocks once *)
(* set, sign again and again.                                              *)
Fairness ==
  /\ \A c \in Cameras : WF_vars(Answer(c)) /\ SF_vars(SignedCheckIn(c))
  /\ \A o \in Operators : WF_vars(Act(o))

FairSpec == Spec /\ Fairness

-----------------------------------------------------------------------------
(* A binding is to an account: never to the account nobody reported.       *)
OwnershipTypeOK ==
  /\ reg \in [Cameras -> [account : Accounts, key : 1 .. MaxKeys] \cup {None}]
  /\ bound \in [Cameras -> [account : Accounts, source : {"learned", "admin"}] \cup {None}]
  /\ row \in [Cameras -> Accounts \cup {Nobody, None}]
  /\ unclaimed \subseteq Cameras \X Accounts
  /\ box \in [Cameras -> [account : Accounts, key : 1 .. MaxKeys] \cup {None}]

(* register_device: "A camera registered or bound to another account is a  *)
(* 404".  No operator's binding contradicts the registration, at any point *)
(* between the statements of any request, cut or not: but for a camera that*)
(* two requests had at once, and that only until it is released.           *)
AdminBindingIsOwners ==
  \A c \in Cameras \ clash :
    reg[c] # None /\ AdminBound(c) => bound[c].account = reg[c].account

(* docs/tutorial/20-update-server.md: a binding is sticky.  No check-in,   *)
(* however long it was delayed, replaces one: only an operator does.       *)
BindingSticky ==
  [][\A c \in Cameras :
       bound[c] # None /\ bound'[c] # None /\ bound'[c] # bound[c]
       => bound'[c].source = "admin"]_vars

(* docs/tutorial/08-release-artifacts.md: keykeeper makes a lockbox "only  *)
(* for a camera one of your desks registered to your account", whatever    *)
(* account the server took the camera for, and for keys that desk signed.  *)
LockboxesVouchedFor ==
  \A c \in Cameras :
    box[c] # None => [account |-> box[c].account, camera |-> c, key |-> box[c].key] \in vouched

(* docs/tutorial/19-accounts-and-tokens.md: "your admin bind always        *)
(* recovers a wrongly learned one".  The fleet row of a registered camera  *)
(* ends up under the account the camera is bound to, although a check-in   *)
(* that came before the bind may write it after.                           *)
RowFollows ==
  \A c \in Cameras :
    <>[](board[c] = "registrar" /\ reg[c] # None /\ reg[c].key = key[c] /\ bound[c] # None)
    => <>[](bound[c] # None => row[c] \in {None, bound[c].account})
=============================================================================
