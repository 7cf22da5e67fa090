-------------------------- MODULE OwnershipProofs --------------------------
(***************************************************************************)
(* Theorems about Ownership, for any cameras, accounts and operators'      *)
(* requests, whichever overlap, and restarts at any point: the tables are  *)
(* well typed; a lockbox is made only for keys the account's desk vouched  *)
(* for; no operator's binding contradicts a registration, but for a camera *)
(* that two requests had at once and nobody has released since.            *)
(***************************************************************************)
EXTENDS Ownership, TLAPS

-----------------------------------------------------------------------------
Keys == 1 .. MaxKeys
Regs == [account : Accounts, key : Keys]
Names == Accounts \cup {Nobody}
Bindings == [account : Accounts, source : {"learned", "admin"}]
Jobs == [step : {"list", "learn", "serve", "offer", "store"}, report : Reports,
         store : BOOLEAN, account : Names, signed : Keys \cup {None}]
OpSteps == {"check", "put", "bind", "row", "drop", "unregister", "unbind", "unrow"}
Tasks == [account : Accounts, step : OpSteps, camera : Cameras, key : Keys \cup {None}]
Vouchers == [account : Accounts, camera : Cameras, key : Keys]

Types ==
  /\ reg \in [Cameras -> Regs \cup {None}]
  /\ bound \in [Cameras -> Bindings \cup {None}]
  /\ row \in [Cameras -> Names \cup {None}]
  /\ unclaimed \subseteq Cameras \X Accounts
  /\ key \in [Cameras -> Keys]
  /\ box \in [Cameras -> Regs \cup {None}]
  /\ job \in [Cameras -> Jobs \cup {None}]
  /\ op \in [Operators -> Tasks \cup {None}]
  /\ vouched \subseteq Vouchers

(* What a check-in learns is an account; what a registration stores, keys. *)
Staged ==
  /\ \A c \in Cameras : job[c] # None =>
       (job[c].step = "learn" => job[c].report \in Accounts)
  /\ \A o \in Operators : op[o] # None => (op[o].step = "put" => op[o].key # None)

TypeInv == Types /\ Staged

LEMMA TypesInit == Init => TypeInv
  BY OwnershipAssumption DEF Init, TypeInv, Types, Staged, Keys

LEMMA ThenTypes ==
  ASSUME Types, NEW o \in Operators, op[o] # None,
         NEW step \in OpSteps \cup {"done"}, Then(o, step)
  PROVE  /\ op' \in [Operators -> Tasks \cup {None}]
         /\ \A p \in Operators : p # o => op'[p] = op[p]
         /\ op'[o] # None => /\ op'[o].step = step /\ op'[o].camera = op[o].camera
                            /\ op'[o].account = op[o].account /\ op'[o].key = op[o].key
<1>1. op[o] \in Tasks  BY DEF Types
<1>2. CASE step = "done"  BY <1>2, <1>1 DEF Then, Types
<1>3. CASE step # "done"
  <2>1. [op[o] EXCEPT !.step = step] \in Tasks  BY <1>1, <1>3 DEF Tasks
  <2>2. [op[o] EXCEPT !.step = step].step = step
        /\ [op[o] EXCEPT !.step = step].camera = op[o].camera
        /\ [op[o] EXCEPT !.step = step].account = op[o].account
        /\ [op[o] EXCEPT !.step = step].key = op[o].key  BY <1>1 DEF Tasks
  <2>. QED  BY <2>1, <2>2, <1>3 DEF Then, Types
<1>. QED  BY <1>2, <1>3

LEMMA AskedTypes ==
  ASSUME Types, NEW o \in Operators, NEW a \in Accounts, NEW step \in OpSteps, NEW c \in Cameras,
         NEW k \in Keys \cup {None}, Asked(o, a, step, c, k)
  PROVE  /\ op' \in [Operators -> Tasks \cup {None}]
         /\ \A p \in Operators : p # o => op'[p] = op[p]
         /\ op'[o] = [account |-> a, step |-> step, camera |-> c, key |-> k]
  BY DEF Asked, Types, Tasks

(* One step of a check-in leaves the others' alone and well typed.         *)
LEMMA JobTypes ==
  ASSUME Types, NEW c \in Cameras, NEW j \in Jobs \cup {None},
         job' = [job EXCEPT ![c] = j]
  PROVE  /\ job' \in [Cameras -> Jobs \cup {None}] /\ job'[c] = j
         /\ \A d \in Cameras : d # c => job'[d] = job[d]
  BY DEF Types

-----------------------------------------------------------------------------
LEMMA CheckInTypes ==
  ASSUME TypeInv, NEW c \in Cameras, NEW report \in Reports, NEW signed \in BOOLEAN,
         CheckIn(c, report, signed)
  PROVE  TypeInv'
<1>. DEFINE j == [step |-> IF ~Registered(c, report) THEN "list"
                           ELSE IF bound[c] = None /\ report # Nobody THEN "learn" ELSE "serve",
                  report |-> report, store |-> FALSE,
                  account |-> IF Registered(c, report) /\ bound[c] # None
                              THEN bound[c].account ELSE report,
                  signed |-> IF signed THEN key[c] ELSE None]
<1>0. report \in Names  BY OwnershipAssumption DEF Names
<1>1. j.account \in Names  BY <1>0 DEF TypeInv, Types, Bindings, Names
<1>2. j.signed \in Keys \cup {None}  BY DEF TypeInv, Types
<1>3. j \in Jobs  BY <1>1, <1>2 DEF Jobs
<1>4. j.step = "learn" => j.report \in Accounts  BY <1>0 DEF Names
<1>5. job' = [job EXCEPT ![c] = j]  BY Zenon DEF CheckIn
<1>. HIDE DEF j
<1>6. /\ job' \in [Cameras -> Jobs \cup {None}] /\ job'[c] = j
      /\ \A d \in Cameras : d # c => job'[d] = job[d]  BY <1>3, <1>5, JobTypes DEF TypeInv
<1>7. UNCHANGED <<reg, bound, row, unclaimed, key, box, op, vouched>>
  BY DEF CheckIn, tables
<1>8. Types'  BY <1>6, <1>7 DEF TypeInv, Types
<1>9. Staged'  BY <1>4, <1>6, <1>7 DEF TypeInv, Staged
<1>. QED  BY <1>8, <1>9 DEF TypeInv

LEMMA AnswerTypes ==
  ASSUME TypeInv, NEW c \in Cameras, Answer(c)
  PROVE  TypeInv'
<1>. USE DEF TypeInv
<1>0. job[c] # None /\ job[c] \in Jobs  BY DEF Answer, List, Learn, Serve, Offer, Store, Types
<1>1. CASE List(c)
  <2>1. [job[c] EXCEPT !.step = "offer"] \in Jobs
        /\ [job[c] EXCEPT !.step = "offer"].step = "offer"  BY <1>0 DEF Jobs
  <2>2. job' = [job EXCEPT ![c] = [job[c] EXCEPT !.step = "offer"]]
    BY <1>1, <1>0 DEF List, Types
  <2>3. /\ job' \in [Cameras -> Jobs \cup {None}] /\ job'[c].step = "offer"
        /\ \A d \in Cameras : d # c => job'[d] = job[d]  BY <2>1, <2>2, JobTypes
  <2>4. unclaimed' \subseteq Cameras \X Accounts
    BY <1>0, <1>1, OwnershipAssumption DEF List, Types, Jobs
  <2>. QED  BY <1>1, <2>3, <2>4 DEF List, Types, Staged
<1>2. CASE Learn(c)
  <2>1. [job[c] EXCEPT !.step = "serve"] \in Jobs
        /\ [job[c] EXCEPT !.step = "serve"].step = "serve"  BY <1>0 DEF Jobs
  <2>2. job' = [job EXCEPT ![c] = [job[c] EXCEPT !.step = "serve"]]
    BY <1>2, <1>0 DEF Learn, Types
  <2>3. /\ job' \in [Cameras -> Jobs \cup {None}] /\ job'[c].step = "serve"
        /\ \A d \in Cameras : d # c => job'[d] = job[d]  BY <2>1, <2>2, JobTypes
  <2>4. [account |-> job[c].report, source |-> "learned"] \in Bindings
    BY <1>0, <1>2 DEF Learn, Staged, Bindings
  <2>5. bound' \in [Cameras -> Bindings \cup {None}]  BY <1>2, <2>4 DEF Learn, Types
  <2>. QED  BY <1>2, <2>3, <2>5 DEF Learn, Types, Staged
<1>3. CASE Serve(c)
  <2>1. PICK j \in Jobs \cup {None} : job' = [job EXCEPT ![c] = j] /\ (j # None => j.step = "offer")
    <3>1. [job[c] EXCEPT !.step = "offer", !.store = (job[c].signed # None)] \in Jobs
          /\ [job[c] EXCEPT !.step = "offer", !.store = (job[c].signed # None)].step = "offer"
      BY <1>0 DEF Jobs
    <3>. QED  BY <1>3, <3>1 DEF Serve
  <2>2. /\ job' \in [Cameras -> Jobs \cup {None}] /\ job'[c] = j
        /\ \A d \in Cameras : d # c => job'[d] = job[d]  BY <2>1, JobTypes
  <2>. QED  BY <1>3, <2>1, <2>2 DEF Serve, tables, Types, Staged
<1>4. CASE Offer(c)
  <2>1. PICK j \in Jobs \cup {None} : job' = [job EXCEPT ![c] = j] /\ (j # None => j.step = "store")
    <3>1. [job[c] EXCEPT !.step = "store"] \in Jobs
          /\ [job[c] EXCEPT !.step = "store"].step = "store"  BY <1>0 DEF Jobs
    <3>. QED  BY <1>4, <3>1 DEF Offer
  <2>2. /\ job' \in [Cameras -> Jobs \cup {None}] /\ job'[c] = j
        /\ \A d \in Cameras : d # c => job'[d] = job[d]  BY <2>1, JobTypes
  <2>3. box' \in [Cameras -> Regs \cup {None}]
    <3>1. Boxed(c) => [account |-> job[c].account, key |-> reg[c].key] \in Regs
      BY DEF Boxed, Types, Regs
    <3>. QED  BY <1>4, <3>1 DEF Offer, Types
  <2>. QED  BY <1>4, <2>1, <2>2, <2>3 DEF Offer, tables, Types, Staged
<1>5. CASE Store(c)
  <2>1. job' = [job EXCEPT ![c] = None]  BY <1>5 DEF Store
  <2>2. /\ job' \in [Cameras -> Jobs \cup {None}] /\ job'[c] = None
        /\ \A d \in Cameras : d # c => job'[d] = job[d]  BY <2>1, JobTypes
  <2>3. row' \in [Cameras -> Names \cup {None}]  BY <1>0, <1>5 DEF Store, Types, Jobs
  <2>. QED  BY <1>5, <2>2, <2>3 DEF Store, Types, Staged
<1>. QED  BY <1>1, <1>2, <1>3, <1>4, <1>5 DEF Answer

LEMMA AskTypes ==
  ASSUME TypeInv, NEW o \in Operators, NEW a \in Accounts, NEW c \in Cameras, Ask(o, a, c)
  PROVE  TypeInv'
<1>1. key[c] \in Keys  BY DEF TypeInv, Types
<1>2. PICK step \in OpSteps \ {"put"}, k \in Keys \cup {None} : Asked(o, a, step, c, k)
  BY <1>1 DEF Ask, Register, Bind, Release, Forget, OpSteps
<1>3. /\ op' \in [Operators -> Tasks \cup {None}]
      /\ \A p \in Operators : p # o => op'[p] = op[p]
      /\ op'[o] = [account |-> a, step |-> step, camera |-> c, key |-> k]
  BY <1>2, AskedTypes DEF TypeInv
<1>4. UNCHANGED <<reg, bound, row, unclaimed, key, box, job>>
  BY DEF Ask, Register, Bind, Release, Forget, tables
<1>5. vouched' \subseteq Vouchers
  BY <1>1 DEF Ask, Register, Bind, Release, Forget, TypeInv, Types, Vouchers
<1>6. Types'  BY <1>3, <1>4, <1>5 DEF TypeInv, Types
<1>7. Staged'  BY <1>2, <1>3, <1>4 DEF TypeInv, Staged
<1>. QED  BY <1>6, <1>7 DEF TypeInv

(* A request's step moves on, and writes one table.                        *)
LEMMA ActTypes ==
  ASSUME TypeInv, NEW o \in Operators, Act(o)
  PROVE  TypeInv'
<1>. USE DEF TypeInv
<1>0. op[o] # None /\ op[o] \in Tasks
  BY DEF Act, Check, Put, BindAccount, MoveRow, DropUnclaimed, Unregister, Unbind, DeleteRow,
         Doing, Types
<1>1. op[o].camera \in Cameras  BY <1>0 DEF Tasks
<1>2. PICK step \in OpSteps \cup {"done"} : Then(o, step) /\ (step = "put" => op[o].key # None)
  BY DEF Act, Check, Put, BindAccount, MoveRow, DropUnclaimed, Unregister, Unbind, DeleteRow, OpSteps
<1>3. /\ op' \in [Operators -> Tasks \cup {None}]
      /\ \A p \in Operators : p # o => op'[p] = op[p]
      /\ op'[o] # None => (op'[o].step = "put" => op'[o].key # None)
  BY <1>0, <1>2, ThenTypes
<1>4. UNCHANGED <<key, box, job, vouched>>
  BY DEF Act, Check, Put, BindAccount, MoveRow, DropUnclaimed, Unregister, Unbind, DeleteRow
<1>5. Staged'  BY <1>3, <1>4 DEF Staged
<1>6. reg' \in [Cameras -> Regs \cup {None}]
  <2>1. CASE Put(o)
    <3>1. [account |-> op[o].account, key |-> op[o].key] \in Regs
      BY <2>1, <1>0 DEF Put, Doing, Staged, Tasks, Regs
    <3>. QED  BY <2>1, <3>1 DEF Put, Types
  <2>2. CASE ~Put(o)
    BY <2>2 DEF Act, Check, BindAccount, MoveRow, DropUnclaimed, Unregister, Unbind, DeleteRow,
                tables, Types
  <2>. QED  BY <2>1, <2>2
<1>7. bound' \in [Cameras -> Bindings \cup {None}]
  <2>1. [account |-> op[o].account, source |-> "admin"] \in Bindings  BY <1>0 DEF Tasks, Bindings
  <2>. QED
    BY <2>1 DEF Act, Check, Put, BindAccount, MoveRow, DropUnclaimed, Unregister, Unbind, DeleteRow,
                tables, Types
<1>8. row' \in [Cameras -> Names \cup {None}]
  <2>1. op[o].account \in Names  BY <1>0 DEF Tasks, Names
  <2>. QED
    BY <2>1 DEF Act, Check, Put, BindAccount, MoveRow, DropUnclaimed, Unregister, Unbind, DeleteRow,
                tables, Types
<1>9. unclaimed' \subseteq Cameras \X Accounts
  BY DEF Act, Check, Put, BindAccount, MoveRow, DropUnclaimed, Unregister, Unbind, DeleteRow,
         tables, Types
<1>. QED  BY <1>3, <1>4, <1>5, <1>6, <1>7, <1>8, <1>9 DEF Types

LEMMA ReflashTypes ==
  ASSUME TypeInv, NEW c \in Cameras, Reflash(c)
  PROVE  TypeInv'
<1>1. key[c] \in Keys /\ key[c] < MaxKeys  BY DEF Reflash, TypeInv, Types
<1>2. key[c] + 1 \in Keys  BY <1>1, OwnershipAssumption DEF Keys
<1>. QED  BY <1>2 DEF Reflash, tables, TypeInv, Types, Staged

LEMMA TypesStep ==
  ASSUME TypeInv, [Next]_vars
  PROVE  TypeInv'
<1>1. ASSUME NEW c \in Cameras, NEW report \in Reports, CheckIn(c, report, FALSE)
      PROVE TypeInv'
  BY <1>1, CheckInTypes
<1>2. ASSUME NEW c \in Cameras, SignedCheckIn(c) PROVE TypeInv'
  BY <1>2, CheckInTypes DEF SignedCheckIn
<1>3. CASE Crash
  BY <1>3 DEF Crash, tables, TypeInv, Types, Staged
<1>4. CASE UNCHANGED vars
  BY <1>4 DEF vars, TypeInv, Types, Staged
<1>. QED
  BY <1>1, <1>2, <1>3, <1>4, AnswerTypes, ReflashTypes, ActTypes, AskTypes DEF Next

LEMMA TypesInvariant == Spec => []TypeInv
<1>1. TypeInv /\ [Next]_vars => TypeInv'  BY TypesStep
<1>. QED  BY TypesInit, <1>1, PTL DEF Spec

(* The tables hold what the code's statements put there: a binding, for    *)
(* one, is never to the account nobody reported (bind_device_account, and  *)
(* the "if account" before learn_device_account).                          *)
THEOREM OwnershipTypes == Spec => []OwnershipTypeOK
<1>1. TypeInv => OwnershipTypeOK
  BY DEF TypeInv, Types, OwnershipTypeOK, Regs, Bindings, Keys, Names
<1>. QED  BY TypesInvariant, <1>1, PTL

-----------------------------------------------------------------------------
(* What is registered, and what a request is about to register, was signed *)
(* by a desk of that account; and so was what the lockboxes were made for. *)
Record(a, c, k) == [account |-> a, camera |-> c, key |-> k]

Signed ==
  /\ \A c \in Cameras : reg[c] # None => Record(reg[c].account, c, reg[c].key) \in vouched
  /\ \A o \in Operators : op[o] # None =>
       (op[o].step \in {"check", "put"} /\ op[o].key # None
        => Record(op[o].account, op[o].camera, op[o].key) \in vouched)

VouchInv == TypeInv /\ Signed /\ LockboxesVouchedFor

LEMMA SignedStep ==
  ASSUME TypeInv, Signed, [Next]_vars
  PROVE  Signed' /\ vouched \subseteq vouched'
<1>1. ASSUME NEW c \in Cameras, NEW report \in Reports, NEW signed \in BOOLEAN,
             CheckIn(c, report, signed)
      PROVE  Signed' /\ vouched \subseteq vouched'
  BY <1>1 DEF CheckIn, tables, Signed
<1>2. ASSUME NEW c \in Cameras, Answer(c)
      PROVE  Signed' /\ vouched \subseteq vouched'
  BY <1>2 DEF Answer, List, Learn, Serve, Offer, Store, tables, Signed
<1>3. ASSUME NEW c \in Cameras, Reflash(c)
      PROVE  Signed' /\ vouched \subseteq vouched'
  BY <1>3 DEF Reflash, tables, Signed
<1>4. CASE Crash
  BY <1>4 DEF Crash, tables, Signed
<1>5. CASE UNCHANGED vars
  BY <1>5 DEF vars, Signed
<1>6. ASSUME NEW o \in Operators, NEW a \in Accounts, NEW c \in Cameras, Ask(o, a, c)
      PROVE  Signed' /\ vouched \subseteq vouched'
  <2>1. PICK step \in OpSteps, k \in Keys \cup {None} :
          /\ Asked(o, a, step, c, k)
          /\ step \in {"check", "put"} /\ k # None => Record(a, c, k) \in vouched'
    <3>1. key[c] \in Keys  BY DEF TypeInv, Types
    <3>. QED  BY <1>6, <3>1 DEF Ask, Register, Bind, Release, Forget, OpSteps, Record
  <2>2. /\ \A p \in Operators : p # o => op'[p] = op[p]
        /\ op'[o] = [account |-> a, step |-> step, camera |-> c, key |-> k]
    BY <2>1, AskedTypes DEF TypeInv
  <2>3. vouched \subseteq vouched' /\ reg' = reg
    BY <1>6 DEF Ask, Register, Bind, Release, Forget, tables
  <2>. QED  BY <2>1, <2>2, <2>3 DEF Signed
<1>7. ASSUME NEW o \in Operators, Act(o)
      PROVE  Signed' /\ vouched \subseteq vouched'
  <2>0. op[o] # None /\ op[o] \in Tasks /\ op[o].camera \in Cameras
    BY <1>7 DEF Act, Check, Put, BindAccount, MoveRow, DropUnclaimed, Unregister, Unbind, DeleteRow,
                Doing, TypeInv, Types, Tasks
  <2>1. PICK step \in OpSteps \cup {"done"} :
          Then(o, step) /\ (step \in {"check", "put"} => op[o].step = "check")
    BY <1>7 DEF Act, Check, Put, BindAccount, MoveRow, DropUnclaimed, Unregister, Unbind, DeleteRow,
                Doing, OpSteps
  <2>2. /\ \A p \in Operators : p # o => op'[p] = op[p]
        /\ op'[o] # None => /\ op'[o].step = step /\ op'[o].camera = op[o].camera
                           /\ op'[o].account = op[o].account /\ op'[o].key = op[o].key
    BY <2>0, <2>1, ThenTypes DEF TypeInv
  <2>3. vouched' = vouched
    BY <1>7 DEF Act, Check, Put, BindAccount, MoveRow, DropUnclaimed, Unregister, Unbind, DeleteRow
  <2>4. ASSUME op'[o] # None, op'[o].step \in {"check", "put"}, op'[o].key # None
        PROVE  Record(op'[o].account, op'[o].camera, op'[o].key) \in vouched
    BY <2>0, <2>1, <2>2, <2>4 DEF Signed
  <2>5. ASSUME NEW c \in Cameras, reg'[c] # None
        PROVE  Record(reg'[c].account, c, reg'[c].key) \in vouched
    <3>1. CASE Put(o)
      <4>1. Record(op[o].account, op[o].camera, op[o].key) \in vouched
        BY <2>0, <3>1 DEF Put, Doing, TypeInv, Staged, Signed
      <4>. QED  BY <2>0, <2>5, <3>1, <4>1 DEF Put, Signed, TypeInv, Types
    <3>2. CASE ~Put(o)
      <4>1. reg'[c] # None => reg'[c] = reg[c]
        BY <1>7, <3>2, <2>0 DEF Act, Check, BindAccount, MoveRow, DropUnclaimed, Unregister, Unbind,
                                DeleteRow, tables, TypeInv, Types
      <4>. QED  BY <2>5, <4>1 DEF Signed
    <3>. QED  BY <3>1, <3>2
  <2>. QED  BY <2>2, <2>3, <2>4, <2>5 DEF Signed
<1>8. ASSUME NEW c \in Cameras, SignedCheckIn(c)
      PROVE  Signed' /\ vouched \subseteq vouched'
  BY <1>8, <1>1 DEF SignedCheckIn
<1>. QED  BY <1>1, <1>2, <1>3, <1>4, <1>5, <1>6, <1>7, <1>8 DEF Next

LEMMA BoxedStep ==
  ASSUME VouchInv, [Next]_vars
  PROVE  LockboxesVouchedFor'
<1>1. vouched \subseteq vouched'  BY SignedStep DEF VouchInv
<1>2. CASE \E c \in Cameras : Offer(c)
  <2>1. PICK c \in Cameras : Offer(c)  BY <1>2
  <2>2. CASE box' = box  BY <1>1, <2>2 DEF VouchInv, LockboxesVouchedFor
  <2>3. CASE /\ Boxed(c)
             /\ box' = [box EXCEPT ![c] = [account |-> job[c].account, key |-> reg[c].key]]
    <3>1. Record(job[c].account, c, reg[c].key) \in vouched
      BY <2>3 DEF Boxed, VouchInv, Signed
    <3>2. ASSUME NEW d \in Cameras, box'[d] # None
          PROVE  Record(box'[d].account, d, box'[d].key) \in vouched
      BY <2>3, <3>1, <3>2 DEF VouchInv, LockboxesVouchedFor, TypeInv, Types, Record
    <3>. QED  BY <1>1, <3>2 DEF LockboxesVouchedFor, Record
  <2>. QED  BY <2>1, <2>2, <2>3 DEF Offer
<1>3. CASE ~\E c \in Cameras : Offer(c)
  <2>1. ASSUME NEW o \in Operators, Act(o) PROVE box' = box
    BY <2>1 DEF Act, Check, Put, BindAccount, MoveRow, DropUnclaimed, Unregister, Unbind, DeleteRow
  <2>2. ASSUME NEW o \in Operators, NEW a \in Accounts, NEW c \in Cameras, Ask(o, a, c)
        PROVE  box' = box
    BY <2>2 DEF Ask, Register, Bind, Release, Forget
  <2>3. box' = box
    BY <1>3, <2>1, <2>2 DEF Next, vars, CheckIn, SignedCheckIn, Answer, List, Learn, Serve, Store,
                            Reflash, Crash
  <2>. QED  BY <1>1, <2>3 DEF VouchInv, LockboxesVouchedFor
<1>. QED  BY <1>2, <1>3

(* "keykeeper makes a lockbox only for a camera one of your desks          *)
(* registered to your account": whatever account the check-in stands for,  *)
(* however the statements of the requests interleave and wherever a        *)
(* restart cuts them (keykeeper's _registered_to, behind app.py's offer).  *)
THEOREM LockboxesVouched == Spec => []LockboxesVouchedFor
<1>1. Init => VouchInv
  <2>1. Init => Signed /\ LockboxesVouchedFor  BY DEF Init, Signed, LockboxesVouchedFor
  <2>. QED  BY <2>1, TypesInit DEF VouchInv
<1>2. VouchInv /\ [Next]_vars => VouchInv'
  BY TypesStep, SignedStep, BoxedStep DEF VouchInv
<1>3. VouchInv => LockboxesVouchedFor  BY DEF VouchInv
<1>. QED  BY <1>1, <1>2, <1>3, PTL DEF Spec

(* A binding is sticky: a check-in's learn_device_account changes none,    *)
(* whenever it comes, also when operators' requests overlap.               *)
THEOREM BindingsStick == Spec => BindingSticky
<1>1. TypeInv /\ [Next]_vars =>
        [\A c \in Cameras :
           bound[c] # None /\ bound'[c] # None /\ bound'[c] # bound[c]
           => bound'[c].source = "admin"]_vars
  <2>. SUFFICES ASSUME TypeInv, Next, NEW d \in Cameras,
                       bound[d] # None, bound'[d] # None, bound'[d] # bound[d]
       PROVE  bound'[d].source = "admin"
    OBVIOUS
  <2>1. PICK o \in Operators : Act(o)
    BY DEF Next, CheckIn, SignedCheckIn, Answer, List, Learn, Serve, Offer, Store, Reflash,
           Crash, Ask, Register, Bind, Release, Forget, tables, TypeInv, Types
  <2>2. bound \in [Cameras -> Bindings \cup {None}]  BY DEF TypeInv, Types
  <2>. QED
    BY <2>1, <2>2 DEF Act, Check, Put, BindAccount, MoveRow, DropUnclaimed, Unregister, Unbind,
                      DeleteRow, tables
<1>. QED  BY TypesInvariant, <1>1, PTL DEF Spec, BindingSticky
-----------------------------------------------------------------------------
(* A request that has its camera to itself: what it checked still holds    *)
(* when it writes.  Nobody else's request has written in between, and a    *)
(* check-in binds only where there is no binding, and not as an operator.  *)
OneEach ==
  \A o, p \in Operators :
    o # p /\ op[o] # None /\ op[p] # None /\ op[o].camera = op[p].camera
    => op[o].camera \in clash

Admitted ==
  \A o \in Operators : op[o] # None /\ op[o].camera \notin clash =>
    /\ \/ op[o].step \in {"put", "bind"}
       \/ op[o].step = "check" /\ op[o].key # None
       => ~RegisteredToOther(op[o].account, op[o].camera)
    /\ \/ op[o].step = "put"
       \/ op[o].step = "check" /\ op[o].key = None
       => ~BoundToOther(op[o].account, op[o].camera)

OwnerInv == TypeInv /\ OneEach /\ Admitted /\ AdminBindingIsOwners

Owned == OneEach /\ Admitted /\ AdminBindingIsOwners

LearnsOnly ==
  \A c \in Cameras :
    \/ bound'[c] = bound[c]
    \/ bound[c] = None /\ bound'[c].source = "learned"

LEMMA OwnerCheckIns ==
  ASSUME OwnerInv, reg' = reg, op' = op, clash' = clash, LearnsOnly
  PROVE  Owned'
<1>1. \A c \in Cameras : AdminBound(c)' => AdminBound(c) /\ bound'[c] = bound[c]
  BY DEF AdminBound, LearnsOnly
<1>2. OneEach'  BY DEF OwnerInv, OneEach
<1>3. ASSUME NEW a \in Accounts, NEW c \in Cameras
      PROVE  /\ RegisteredToOther(a, c)' => RegisteredToOther(a, c)
             /\ BoundToOther(a, c)' => BoundToOther(a, c)
  BY <1>1 DEF RegisteredToOther, BoundToOther
<1>4. \A o \in Operators : op[o] # None => op[o].camera \in Cameras /\ op[o].account \in Accounts
  BY DEF OwnerInv, TypeInv, Types, Tasks
<1>5. Admitted'
  <2>. SUFFICES ASSUME NEW o \in Operators, op[o] # None, op[o].camera \notin clash
       PROVE /\ \/ op[o].step \in {"put", "bind"}
                \/ op[o].step = "check" /\ op[o].key # None
                => ~RegisteredToOther(op[o].account, op[o].camera)'
             /\ \/ op[o].step = "put"
                \/ op[o].step = "check" /\ op[o].key = None
                => ~BoundToOther(op[o].account, op[o].camera)'
    BY DEF Admitted, RegisteredToOther, BoundToOther, AdminBound
  <2>1. PICK c \in Cameras, a \in Accounts : c = op[o].camera /\ a = op[o].account  BY <1>4
  <2>2. /\ \/ op[o].step \in {"put", "bind"}
           \/ op[o].step = "check" /\ op[o].key # None
           => ~RegisteredToOther(a, c)
        /\ \/ op[o].step = "put"
           \/ op[o].step = "check" /\ op[o].key = None
           => ~BoundToOther(a, c)
    BY <2>1 DEF OwnerInv, Admitted
  <2>3. op'[o].camera = c /\ op'[o].account = a  BY <2>1
  <2>. QED  BY <1>3, <2>1, <2>2, <2>3
<1>6. AdminBindingIsOwners'  BY <1>1 DEF OwnerInv, AdminBindingIsOwners
<1>. QED  BY <1>2, <1>5, <1>6 DEF Owned

LEMMA OwnerAsks ==
  ASSUME OwnerInv, NEW o \in Operators, NEW a \in Accounts, NEW c \in Cameras, Ask(o, a, c)
  PROVE  Owned'
<1>1. op[o] = None
  BY DEF Ask, Register, Bind, Release, Forget, MayAct
<1>2. PICK step \in OpSteps, k \in Keys \cup {None} :
        /\ Asked(o, a, step, c, k)
        /\ step \notin {"put", "bind"}
        /\ step = "check" /\ k # None => ~RegisteredToOther(a, c)
        /\ step = "check" /\ k = None => ~BoundToOther(a, c)
  <2>1. key[c] \in Keys /\ key[c] # None
    BY OwnershipAssumption DEF OwnerInv, TypeInv, Types, Keys
  <2>. QED  BY <2>1 DEF Ask, Register, Bind, Release, Forget, OpSteps
<1>3. /\ \A p \in Operators : p # o => op'[p] = op[p]
      /\ op'[o] = [account |-> a, step |-> step, camera |-> c, key |-> k]
  BY <1>2, AskedTypes DEF OwnerInv, TypeInv
<1>4. reg' = reg /\ bound' = bound
  BY DEF Ask, Register, Bind, Release, Forget, tables
<1>5. clash \subseteq clash'
      /\ ((\E p \in Operators : p # o /\ op[p] # None /\ op[p].camera = c) => c \in clash')
  BY <1>2 DEF Asked
<1>6. OneEach'  BY <1>3, <1>5 DEF OwnerInv, OneEach
<1>7. Admitted'
  <2>1. CASE c \in clash'
    BY <1>3, <1>4, <1>5, <2>1 DEF OwnerInv, Admitted, RegisteredToOther, BoundToOther, AdminBound
  <2>2. CASE c \notin clash'
    BY <1>2, <1>3, <1>4, <1>5 DEF OwnerInv, Admitted, RegisteredToOther, BoundToOther, AdminBound
  <2>. QED  BY <2>1, <2>2
<1>8. AdminBindingIsOwners'  BY <1>4, <1>5 DEF OwnerInv, AdminBindingIsOwners, AdminBound
<1>. QED  BY <1>6, <1>7, <1>8 DEF Owned

LEMMA OwnerActs ==
  ASSUME OwnerInv, NEW o \in Operators, Act(o)
  PROVE  Owned'
<1>0. /\ op[o] # None /\ op[o] \in Tasks
      /\ reg \in [Cameras -> Regs \cup {None}] /\ bound \in [Cameras -> Bindings \cup {None}]
  BY DEF Act, Check, Put, BindAccount, MoveRow, DropUnclaimed, Unregister, Unbind, DeleteRow,
         Doing, OwnerInv, TypeInv, Types
<1>1. PICK c \in Cameras, a \in Accounts : c = op[o].camera /\ a = op[o].account
  BY <1>0 DEF Tasks
<1>2. PICK step \in OpSteps \cup {"done"} :
        /\ Then(o, step) /\ step # "check"
        /\ step = "put" => Check(o) /\ op[o].key # None
        /\ step = "bind" => Put(o) \/ (Check(o) /\ op[o].key = None)
  BY DEF Act, Check, Put, BindAccount, MoveRow, DropUnclaimed, Unregister, Unbind, DeleteRow, OpSteps
<1>3. /\ \A p \in Operators : p # o => op'[p] = op[p]
      /\ op'[o] # None => /\ op'[o].step = step /\ op'[o].camera = c
                          /\ op'[o].account = a /\ op'[o].key = op[o].key
  BY <1>0, <1>1, <1>2, ThenTypes DEF OwnerInv, TypeInv
<1>4. /\ \A d \in Cameras : d # c =>
           reg'[d] = reg[d] /\ bound'[d] = bound[d] /\ (d \in clash' <=> d \in clash)
      /\ c \in clash' => c \in clash
  BY <1>0, <1>1 DEF Act, Check, Put, BindAccount, MoveRow, DropUnclaimed, Unregister, Unbind,
                    DeleteRow, tables
<1>5. c \notin clash' /\ c \in clash => Unregister(o) /\ Alone(o)
  BY <1>1 DEF Act, Check, Put, BindAccount, MoveRow, DropUnclaimed, Unregister, Unbind, DeleteRow
<1>6. ASSUME NEW p \in Operators, p # o, op[p] # None, op[p].camera = c
      PROVE  c \in clash'
  <2>1. c \in clash  BY <1>0, <1>1, <1>6 DEF OwnerInv, OneEach
  <2>2. ~Alone(o)  BY <1>1, <1>6 DEF Alone
  <2>. QED  BY <1>5, <2>1, <2>2
<1>7. ASSUME NEW p \in Operators, op[p] # None
      PROVE  op[p].camera \in Cameras
  BY <1>7 DEF OwnerInv, TypeInv, Types, Tasks
<1>8. OneEach'
  <2>. SUFFICES ASSUME NEW p \in Operators, NEW q \in Operators, p # q, op'[p] # None,
                       op'[q] # None, op'[p].camera = op'[q].camera
       PROVE  op'[p].camera \in clash'
    BY DEF OneEach
  <2>1. CASE p = o  BY <1>3, <1>6, <2>1
  <2>2. CASE q = o  BY <1>3, <1>6, <2>2
  <2>3. CASE p # o /\ q # o
    <3>1. op'[p] = op[p] /\ op'[q] = op[q]  BY <1>3, <2>3
    <3>2. op[p].camera \in clash  BY <3>1 DEF OwnerInv, OneEach
    <3>. QED  BY <1>4, <1>6, <1>7, <2>3, <3>1, <3>2
  <2>. QED  BY <2>1, <2>2, <2>3
<1>9. Admitted'
  <2>. SUFFICES ASSUME NEW p \in Operators, op'[p] # None, op'[p].camera \notin clash'
       PROVE /\ \/ op'[p].step \in {"put", "bind"}
                \/ op'[p].step = "check" /\ op'[p].key # None
                => ~RegisteredToOther(op[p].account, op[p].camera)'
             /\ \/ op'[p].step = "put"
                \/ op'[p].step = "check" /\ op'[p].key = None
                => ~BoundToOther(op[p].account, op[p].camera)'
    BY DEF Admitted, RegisteredToOther, BoundToOther, AdminBound
  <2>1. CASE p # o
    <3>1. op'[p] = op[p] /\ op[p].camera # c  BY <1>3, <1>6, <2>1
    <3>2. op[p].camera \in Cameras /\ op[p].camera \notin clash  BY <1>4, <1>7, <3>1
    <3>3. reg'[op[p].camera] = reg[op[p].camera] /\ bound'[op[p].camera] = bound[op[p].camera]
      BY <1>4, <3>1, <3>2
    <3>. QED
      BY <3>1, <3>2, <3>3 DEF OwnerInv, Admitted, RegisteredToOther, BoundToOther, AdminBound
  <2>2. CASE p = o /\ step = "put"
    <3>1. Check(o) /\ op[o].key # None  BY <1>2, <2>2
    <3>2. clash' = clash /\ reg' = reg /\ bound' = bound  BY <3>1 DEF Check, tables
    <3>3. ~RegisteredToOther(a, c)
      BY <1>0, <1>1, <1>3, <2>2, <3>1, <3>2 DEF Check, Doing, OwnerInv, Admitted
    <3>4. ~BoundToOther(a, c)
      <4>1. CASE BoundToOther(a, c)
        <5>1. Then(o, "done")  BY <1>1, <3>1, <4>1 DEF Check
        <5>. QED  BY <2>2, <5>1, <1>0 DEF Then, OwnerInv, TypeInv, Types
      <4>. QED  BY <4>1
    <3>. QED
      BY <1>1, <1>3, <2>2, <3>1, <3>2, <3>3, <3>4
         DEF RegisteredToOther, BoundToOther, AdminBound
  <2>3. CASE p = o /\ step = "bind" /\ Put(o)
    <3>1. reg'[c].account = a  BY <1>0, <1>1, <2>3 DEF Put
    <3>. QED  BY <1>1, <1>3, <2>3, <3>1 DEF RegisteredToOther
  <2>4. CASE p = o /\ step = "bind" /\ Check(o) /\ op[o].key = None
    <3>1. reg' = reg  BY <2>4 DEF Check, tables
    <3>2. ~RegisteredToOther(a, c)
      <4>1. CASE RegisteredToOther(a, c)
        <5>1. Then(o, "done")  BY <1>1, <2>4, <4>1 DEF Check
        <5>. QED  BY <2>4, <5>1, <1>0 DEF Then, OwnerInv, TypeInv, Types
      <4>. QED  BY <4>1
    <3>. QED  BY <1>1, <1>3, <2>4, <3>1, <3>2 DEF RegisteredToOther
  <2>5. CASE p = o /\ step \notin {"put", "bind"}
    BY <1>2, <1>3, <2>5
  <2>. QED  BY <1>2, <2>1, <2>2, <2>3, <2>4, <2>5
<1>10. AdminBindingIsOwners'
  <2>. SUFFICES ASSUME NEW d \in Cameras, d \notin clash', reg'[d] # None, bound'[d] # None,
                       bound'[d].source = "admin"
       PROVE  bound'[d].account = reg'[d].account
    BY DEF AdminBindingIsOwners, AdminBound
  <2>1. CASE d # c
    BY <1>4, <2>1 DEF OwnerInv, AdminBindingIsOwners, AdminBound
  <2>2. CASE d = c /\ Put(o)
    <3>1. reg'[c].account = a /\ bound' = bound /\ clash' = clash
      BY <1>0, <1>1, <2>2 DEF Put
    <3>2. ~BoundToOther(a, c)
      BY <1>0, <1>1, <2>2, <3>1 DEF Put, Doing, OwnerInv, Admitted
    <3>. QED  BY <2>2, <3>1, <3>2 DEF BoundToOther, AdminBound
  <2>3. CASE d = c /\ BindAccount(o)
    <3>1. reg' = reg /\ bound'[c].account = a /\ clash' = clash
      BY <1>0, <1>1, <2>3 DEF BindAccount
    <3>2. ~RegisteredToOther(a, c)
      BY <1>0, <1>1, <2>3, <3>1 DEF BindAccount, Doing, OwnerInv, Admitted
    <3>. QED  BY <2>3, <3>1, <3>2 DEF RegisteredToOther
  <2>4. CASE d = c /\ ~Put(o) /\ ~BindAccount(o)
    <3>1. ~Unregister(o)  BY <1>0, <1>1, <2>4 DEF Unregister
    <3>2. c \notin clash  BY <1>5, <2>4, <3>1
    <3>3. reg'[c] = reg[c] /\ bound'[c] = bound[c]
      BY <1>0, <1>1, <2>4, <3>1
         DEF Act, Check, MoveRow, DropUnclaimed, Unbind, DeleteRow, tables
    <3>. QED  BY <2>4, <3>2, <3>3 DEF OwnerInv, AdminBindingIsOwners, AdminBound
  <2>. QED  BY <2>1, <2>2, <2>3, <2>4
<1>. QED  BY <1>8, <1>9, <1>10 DEF Owned

LEMMA OwnerStep ==
  ASSUME OwnerInv, [Next]_vars
  PROVE  OwnerInv'
<1>1. TypeInv'  BY TypesStep DEF OwnerInv
<1>2. ASSUME NEW c \in Cameras, NEW report \in Reports, NEW signed \in BOOLEAN,
             CheckIn(c, report, signed)
      PROVE  Owned'
  <2>1. reg' = reg /\ op' = op /\ bound' = bound /\ clash' = clash  BY <1>2 DEF CheckIn, tables
  <2>2. LearnsOnly  BY <2>1 DEF LearnsOnly
  <2>. QED  BY <2>1, <2>2, OwnerCheckIns
<1>3. ASSUME NEW c \in Cameras, Answer(c)
      PROVE  Owned'
  <2>1. reg' = reg /\ op' = op /\ clash' = clash
    BY <1>3 DEF Answer, List, Learn, Serve, Offer, Store, tables
  <2>2. LearnsOnly
    <3>1. CASE Learn(c)  BY <3>1 DEF Learn, LearnsOnly, OwnerInv, TypeInv, Types
    <3>2. CASE ~Learn(c)
      BY <1>3, <3>2 DEF Answer, List, Serve, Offer, Store, tables, LearnsOnly
    <3>. QED  BY <3>1, <3>2
  <2>. QED  BY <2>1, <2>2, OwnerCheckIns
<1>4. ASSUME NEW c \in Cameras, Reflash(c)
      PROVE  Owned'
  <2>1. reg' = reg /\ op' = op /\ bound' = bound /\ clash' = clash  BY <1>4 DEF Reflash, tables
  <2>2. LearnsOnly  BY <2>1 DEF LearnsOnly
  <2>. QED  BY <2>1, <2>2, OwnerCheckIns
<1>5. CASE Crash
  <2>1. reg' = reg /\ bound' = bound /\ clash' = clash /\ \A o \in Operators : op'[o] = None
    BY <1>5 DEF Crash, tables
  <2>. QED
    BY <1>1, <2>1 DEF OwnerInv, OneEach, Admitted, AdminBindingIsOwners, AdminBound
<1>6. CASE UNCHANGED vars
  <2>1. reg' = reg /\ op' = op /\ bound' = bound /\ clash' = clash  BY <1>6 DEF tables, vars
  <2>2. LearnsOnly  BY <2>1 DEF LearnsOnly
  <2>. QED  BY <1>1, <2>1, <2>2, OwnerCheckIns DEF Owned, OwnerInv
<1>7. ASSUME NEW c \in Cameras, SignedCheckIn(c)
      PROVE  Owned'
  BY <1>7, <1>2 DEF SignedCheckIn
<1>. QED
  BY <1>1, <1>2, <1>3, <1>4, <1>5, <1>6, <1>7, OwnerAsks, OwnerActs DEF Next, Owned, OwnerInv

LEMMA OwnerInit == Init => OwnerInv
<1>1. Init => OneEach /\ Admitted /\ AdminBindingIsOwners
  BY DEF Init, OneEach, Admitted, AdminBindingIsOwners, AdminBound
<1>. QED  BY <1>1, TypesInit DEF OwnerInv

(* register_device and bind_device read the registration and the binding,  *)
(* check, and then write a statement at a time.  Whoever else is at work,  *)
(* on whichever other cameras, no binding an operator made contradicts the *)
(* registration, at any point of any request, cut or not; and two requests *)
(* at once spoil only the camera they share, until a desk releases it.     *)
THEOREM AdminBindings == Spec => []AdminBindingIsOwners
<1>1. OwnerInv /\ [Next]_vars => OwnerInv'  BY OwnerStep
<1>2. OwnerInv => AdminBindingIsOwners  BY DEF OwnerInv
<1>. QED  BY OwnerInit, <1>1, <1>2, PTL DEF Spec
=============================================================================
