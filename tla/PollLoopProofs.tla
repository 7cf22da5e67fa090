--------------------------- MODULE PollLoopProofs ---------------------------
(***************************************************************************)
(* A theorem about PollLoop, for any releases, limits, faults and changes  *)
(* of the offer: when a release is offered steadily, the loop reboots for  *)
(* it at most once an hour.  A camera that rebooted for a release either   *)
(* has no use for it any more, or its boot check-in took it up.            *)
(***************************************************************************)
EXTENDS PollLoop, TLAPS

Keys == Releases \cup {None}
Gates == [answered : BOOLEAN, bootKey : Keys, key : Keys, fails : Int]

Types ==
  /\ camera \in [ab : BOOLEAN, hook : BOOLEAN, tight : BOOLEAN]
  /\ offer \in Keys /\ running \in Nat /\ kept \in Nat /\ trial \in BOOLEAN
  /\ gate \in Gates

(* It has rebooted for what is offered now.                                *)
HasAsked == asked # None /\ asked = offer

TookItUp ==
  HasAsked =>
    /\ Deferred => Offered = None
    /\ gate.answered => Offered = None \/ gate.bootKey = offer

PollInv == Types /\ TookItUp

LEMMA InitPoll == Init => PollInv
<1>. SUFFICES ASSUME Init PROVE PollInv  OBVIOUS
<1>1. NewGate \in Gates  BY DEF NewGate, Gates, Keys
<1>2. Types  BY <1>1 DEF Init, Types, Keys
<1>3. TookItUp  BY DEF Init, TookItUp, HasAsked
<1>. QED  BY <1>2, <1>3 DEF PollInv

LEMMA BootTypes ==
  ASSUME Types, BootAgain
  PROVE  /\ running' \in Nat /\ kept' \in Nat /\ trial' \in BOOLEAN
         /\ gate' \in Gates /\ ~gate'.answered
         /\ \/ UNCHANGED <<running, trial>>
            \/ ~trial'
<1>1. gate' \in Gates /\ ~gate'.answered  BY DEF BootAgain, Boot, NewGate, Gates, Keys
<1>. QED  BY <1>1 DEF BootAgain, Types

LEMMA BootKeeps ==
  ASSUME PollInv, BootAgain, UNCHANGED <<camera, offer>>, asked' = asked
  PROVE  PollInv'
<1>1. Types'  BY BootTypes DEF PollInv, Types
<1>2. ASSUME HasAsked'  PROVE (Deferred' => Offered' = None) /\ ~gate'.answered
  <2>1. Deferred => Offered = None  BY <1>2 DEF PollInv, TookItUp, HasAsked
  <2>2. ~gate'.answered  BY BootTypes DEF PollInv
  <2>3. CASE UNCHANGED <<running, trial>>
    BY <2>1, <2>2, <2>3 DEF Deferred, Offered
  <2>4. CASE ~trial'  BY <2>2, <2>4 DEF Deferred
  <2>. QED  BY <2>3, <2>4, BootTypes DEF PollInv
<1>. QED  BY <1>1, <1>2 DEF PollInv, TookItUp

(* Nothing that the invariant speaks of.                                   *)
LEMMA Apart ==
  ASSUME PollInv, UNCHANGED <<camera, offer, running, kept, trial, gate, asked>>
  PROVE  PollInv'
<1>1. Types'  BY DEF PollInv, Types
<1>2. TookItUp'  BY DEF PollInv, TookItUp, HasAsked, Deferred, Offered
<1>. QED  BY <1>1, <1>2 DEF PollInv

LEMMA AnswerKeeps ==
  ASSUME Steady, PollInv, NoOffer \/ Defer
  PROVE  PollInv'
<1>1. /\ UNCHANGED <<camera, offer, running, kept, trial, asked>>
      /\ gate' = [gate EXCEPT !.answered = TRUE]
      /\ Offered = None \/ Deferred
  BY DEF NoOffer, Defer, Answered, fixed, image
<1>2. gate \in Gates  BY DEF PollInv, Types
<1>3. gate' \in Gates  BY <1>1, <1>2 DEF Gates
<1>4. Types'  BY <1>1, <1>3 DEF PollInv, Types
<1>5. ASSUME HasAsked'  PROVE Offered' = None
  <2>1. Offered = None  BY <1>1, <1>5 DEF PollInv, TookItUp, HasAsked
  <2>. QED  BY <2>1, <1>1 DEF Offered
<1>. QED  BY <1>4, <1>5 DEF PollInv, TookItUp

LEMMA InstallFailsKeeps ==
  ASSUME PollInv, InstallFails
  PROVE  PollInv'
<1>1. /\ UNCHANGED <<camera, offer, running, kept, trial, asked>>
      /\ gate' = Failed(Planned(offer), offer)
      /\ Offered # None /\ ~Deferred
  BY DEF InstallFails, Taking, fixed, image
<1>2. gate \in Gates /\ offer \in Keys  BY DEF PollInv, Types
<1>3. PICK g : g = Planned(offer)  OBVIOUS
<1>4. /\ g \in Gates /\ g.answered
      /\ g.bootKey = IF gate.answered THEN gate.bootKey ELSE offer
  BY <1>2, <1>3 DEF Planned, Gates
<1>5. PICK m : m = IF g.key = offer THEN g.fails + 1 ELSE 1  OBVIOUS
<1>. DEFINE n == UpTo(m, InplaceTries)
<1>6. n \in Int
  <2>1. \A a, b \in Int : UpTo(a, b) \in Int
    <3>1. TAKE a, b \in Int
    <3>2. \E x \in {a, b} : \A y \in {a, b} : x <= y
      <4>1. CASE a <= b  BY <4>1
      <4>2. CASE b <= a  BY <4>2
      <4>. QED  BY <4>1, <4>2
    <3>3. UpTo(a, b) = CHOOSE x \in {a, b} : \A y \in {a, b} : x <= y  BY DEF UpTo, Min
    <3>. QED  BY <3>2, <3>3
  <2>2. m \in Int  BY <1>4, <1>5 DEF Gates
  <2>3. InplaceTries \in Int  BY PollAssumption
  <2>. QED  BY <2>1, <2>2, <2>3
<1>. HIDE DEF n
<1>7. gate' = [g EXCEPT !.key = offer, !.fails = n]
  BY <1>1, <1>3, <1>5 DEF Failed, n
<1>8. gate' \in Gates /\ gate'.bootKey = g.bootKey
  BY <1>2, <1>4, <1>6, <1>7 DEF Gates
<1>9. Types'  BY <1>1, <1>8 DEF PollInv, Types
<1>10. ASSUME HasAsked'  PROVE ~Deferred' /\ gate'.bootKey = offer
  <2>1. gate.answered => gate.bootKey = offer
    BY <1>1, <1>10 DEF PollInv, TookItUp, HasAsked
  <2>2. ~Deferred'  BY <1>1 DEF Deferred
  <2>. QED  BY <2>1, <2>2, <1>4, <1>8
<1>. QED  BY <1>1, <1>9, <1>10 DEF PollInv, TookItUp

LEMMA InstallKeeps ==
  ASSUME PollInv, Install
  PROVE  PollInv'
<1>1. /\ UNCHANGED <<camera, offer, asked>> /\ Offered # None
      /\ running' = offer /\ trial' = TRUE /\ gate' = NewGate
      /\ kept' = IF trial THEN kept ELSE running
  BY DEF Install, Taking, Boot, fixed
<1>2. offer \in Nat  BY <1>1, PollAssumption DEF PollInv, Types, Offered, Keys
<1>3. gate' \in Gates /\ ~gate'.answered  BY <1>1 DEF NewGate, Gates, Keys
<1>4. Types'  BY <1>1, <1>2, <1>3 DEF PollInv, Types
<1>5. Offered' = None  BY <1>1, <1>2 DEF Offered
<1>. QED  BY <1>3, <1>4, <1>5 DEF PollInv, TookItUp

LEMMA RebootKeeps ==
  ASSUME PollInv, RebootForInstall
  PROVE  PollInv'
<1>1. BootAgain /\ ~Deferred /\ UNCHANGED <<camera, offer>>
  BY DEF RebootForInstall, Taking, fixed
<1>2. Types'  BY <1>1, BootTypes DEF PollInv, Types
<1>3. ~gate'.answered /\ (UNCHANGED trial \/ ~trial')  BY <1>1, BootTypes DEF PollInv
<1>4. ~Deferred'  BY <1>1, <1>3 DEF Deferred
<1>. QED  BY <1>2, <1>3, <1>4 DEF PollInv, TookItUp

LEMMA ConfirmKeeps ==
  ASSUME PollInv, Confirm
  PROVE  PollInv'
<1>1. /\ UNCHANGED <<camera, offer, running, gate, asked>>
      /\ trial' = FALSE /\ kept' = running
  BY DEF Confirm, fixed
<1>2. Types'  BY <1>1 DEF PollInv, Types
<1>. QED  BY <1>1, <1>2 DEF PollInv, TookItUp, HasAsked, Deferred, Offered

LEMMA ChangeOfferKeeps ==
  ASSUME PollInv, ChangeOffer
  PROVE  PollInv'
<1>1. /\ UNCHANGED <<camera, running, kept, trial, gate>>
      /\ offer' \in Keys /\ asked' = None
  BY DEF ChangeOffer, fixed, image, Keys
<1>2. Types'  BY <1>1 DEF PollInv, Types
<1>. QED  BY <1>1, <1>2 DEF PollInv, TookItUp, HasAsked

LEMMA FailKeeps ==
  ASSUME PollInv, Fail
  PROVE  PollInv'
<1>1. UNCHANGED <<camera, offer, asked>>  BY DEF Fail, fixed
<1>2. CASE BootAgain  BY <1>1, <1>2, BootKeeps
<1>3. CASE UNCHANGED <<image, gate>>  BY <1>1, <1>3, Apart DEF image
<1>. QED  BY <1>2, <1>3 DEF Fail

LEMMA NextPoll ==
  ASSUME Steady, PollInv, [Next]_vars
  PROVE  PollInv'
<1>1. CASE UNCHANGED vars  BY <1>1, Apart DEF vars, fixed, image
<1>2. CASE Fail  BY <1>2, FailKeeps
<1>3. CASE Throttled \/ Die \/ Wait \/ NetFails \/ NetHeals
  BY <1>3, Apart DEF Throttled, Die, Wait, NetFails, NetHeals, fixed, image
<1>4. CASE NoOffer \/ Defer  BY <1>4, AnswerKeeps
<1>5. CASE RebootForInstall  BY <1>5, RebootKeeps
<1>6. CASE Install  BY <1>6, InstallKeeps
<1>7. CASE InstallFails  BY <1>7, InstallFailsKeeps
<1>8. CASE InstallCut
  <2>1. BootAgain /\ UNCHANGED <<camera, offer, asked>>  BY <1>8 DEF InstallCut, fixed
  <2>. QED  BY <2>1, BootKeeps
<1>9. CASE Confirm  BY <1>9, ConfirmKeeps
<1>10. CASE ChangeOffer  BY <1>10, ChangeOfferKeeps
<1>. QED  BY <1>1, <1>2, <1>3, <1>4, <1>5, <1>6, <1>7, <1>8, <1>9, <1>10 DEF Next, Answer

LEMMA RebootsApart ==
  ASSUME PollInv, RebootForInstall, asked = offer
  PROVE  uptime >= RebootGap
<1>1. Offered # None /\ Plan(Offered) = "reboot"  BY DEF RebootForInstall, Taking
<1>2. Offered = offer /\ offer # None  BY <1>1 DEF Offered
<1>3. gate.answered  BY <1>1 DEF Plan
<1>4. gate.bootKey = offer  BY <1>1, <1>2, <1>3 DEF PollInv, TookItUp, HasAsked
<1>. QED  BY <1>1, <1>2, <1>3, <1>4 DEF Plan

(* "at most one such reboot per hour": whatever fails, throttles, restarts *)
(* or falls back in between, the loop does not reboot again for a release  *)
(* that goes on being offered before the camera has been up for the hour.  *)
THEOREM RebootsAnHourApart == Steady => (Spec => OneRebootAnHour)
<1>. SUFFICES ASSUME Steady PROVE Spec => OneRebootAnHour  OBVIOUS
<1>1. Init => PollInv  BY InitPoll
<1>2. PollInv /\ [Next]_vars => PollInv'  BY NextPoll
<1>3. PollInv /\ [Next]_vars =>
        [RebootForInstall /\ asked = offer => uptime >= RebootGap]_vars
  BY RebootsApart
<1>. QED  BY <1>1, <1>2, <1>3, PTL DEF Spec, OneRebootAnHour
=============================================================================
