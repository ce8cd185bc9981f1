------------------------ MODULE Expectations_proofs ------------------------
(***************************************************************************)
(* Proofs about the expectations of one endpoint, for any sessions, runs,  *)
(* actions and transactions and any number of requests side by side.       *)
(***************************************************************************)
EXTENDS Expectations, TLAPS

\* The bucket holds expectations that were armed, each under an id of its own.
BucketOK ==
  /\ armed \in 0..MaxArms
  /\ \A e \in bucket : e.id \in 1..armed
  /\ \A e, d \in bucket : e.id = d.id => e = d

\* The party between a load and its save holds the lock ...
OneHolder == \A p \in Party : pc[p] = "holding" => holder = p

\* ... and its copy is the bucket, but for what has expired.
CopyIsCurrent ==
  \A p \in Party : pc[p] = "holding" =>
    /\ copy[p] \subseteq bucket
    /\ \A e \in bucket : e \in copy[p] \/ e.id \in lapsed

\* An expectation that let a call in is out of the bucket for good.
SpentIsGone ==
  /\ admitted \in [Id -> 0..1]
  /\ \A i \in Id : i > armed => admitted[i] = 0
  /\ \A e \in bucket : admitted[e.id] = 0

\* Where a party may be, by what it serves.
PartyOK ==
  /\ pc \in [Party -> {"idle", "locating", "waiting", "holding", "cleared", "refused",
                       "adopting", "mismatch", "binding", "attributed"}]
  /\ DOMAIN won = Party /\ DOMAIN copy = Party /\ DOMAIN job = Party
  /\ \A p \in Party : pc[p] \in {"locating", "waiting", "holding"} =>
        job[p].kind \in {"arm", "clear_flow", "ack", "call"}

BucketInv == BucketOK /\ OneHolder /\ CopyIsCurrent /\ SpentIsGone /\ PartyOK

-----------------------------------------------------------------------------
\* A step that leaves the list, the lock and the copies alone and moves one party
\* neither in nor out of "holding".
Elsewhere(p) ==
  /\ UNCHANGED <<bucket, armed, admitted, holder>>
  /\ lapsed \subseteq lapsed'
  /\ \A q \in Party : pc'[q] = "holding" => pc[q] = "holding" /\ copy'[q] = copy[q]
  /\ PartyOK'

LEMMA ElsewhereKeeps ==
  ASSUME BucketInv, NEW p, Elsewhere(p) PROVE BucketInv'
<1>1. BucketOK'
  BY DEF BucketInv, BucketOK, Elsewhere
<1>2. OneHolder'
  BY DEF BucketInv, OneHolder, Elsewhere
<1>3. CopyIsCurrent'
  BY DEF BucketInv, CopyIsCurrent, Elsewhere
<1>4. SpentIsGone'
  BY DEF BucketInv, SpentIsGone, Elsewhere
<1> QED
  BY <1>1, <1>2, <1>3, <1>4 DEF BucketInv, Elsewhere

LEMMA InitKeeps == Init => BucketInv
<1> SUFFICES ASSUME Init PROVE BucketInv
  OBVIOUS
<1>1. MaxArms \in Nat
  BY ArmsAssumption
<1>2. BucketOK
  BY <1>1 DEF Init, BucketOK
<1>3. OneHolder /\ CopyIsCurrent
  BY DEF Init, OneHolder, CopyIsCurrent
<1>4. SpentIsGone
  BY <1>1 DEF Init, SpentIsGone, Id
<1>5. PartyOK
  BY DEF Init, PartyOK
<1> QED
  BY <1>2, <1>3, <1>4, <1>5 DEF BucketInv

\* Taking the lock.
LEMMA LoadKeeps == ASSUME BucketInv, NEW p \in Party, Load(p) PROVE BucketInv'
<1>1. UNCHANGED <<bucket, armed, admitted, lapsed>>
  BY DEF Load, list
<1>2. BucketOK' /\ SpentIsGone'
  BY <1>1 DEF BucketInv, BucketOK, SpentIsGone
<1>3. \A q \in Party : q # p => pc'[q] = pc[q] /\ copy'[q] = copy[q]
  BY DEF Load, Goto, BucketInv, PartyOK
<1>4. \A q \in Party : pc[q] = "holding" => FALSE
  BY NoneAssumption DEF Load, Free, BucketInv, OneHolder
<1>5. holder' = p /\ copy'[p] = Live
  BY DEF Load, BucketInv, PartyOK
<1>6. OneHolder'
  BY <1>3, <1>4, <1>5 DEF OneHolder
<1>7. CopyIsCurrent'
  BY <1>1, <1>3, <1>4, <1>5 DEF CopyIsCurrent, Live
<1>8. PartyOK'
  BY DEF Load, Goto, BucketInv, PartyOK
<1> QED
  BY <1>2, <1>6, <1>7, <1>8 DEF BucketInv

\* What a save leaves: no party in "holding", the lock free.
LEMMA SavedKeepsTurns ==
  ASSUME BucketInv, NEW p \in Party, pc[p] = "holding", pc'[p] # "holding",
         \A q \in Party : q # p => pc'[q] = pc[q]
  PROVE  OneHolder' /\ CopyIsCurrent'
<1>1. \A q \in Party : pc'[q] # "holding"
  BY DEF BucketInv, OneHolder
<1> QED
  BY <1>1 DEF OneHolder, CopyIsCurrent

\* Its own shape after a save or an answer.
LEMMA MovedOK ==
  ASSUME BucketInv, NEW p \in Party, NEW label, Goto(p, label),
         label \in {"idle", "cleared", "refused", "adopting", "mismatch"},
         DOMAIN won' = Party, DOMAIN copy' = Party, DOMAIN job' = Party,
         \A q \in Party : q # p => job'[q] = job[q]
  PROVE  /\ PartyOK' /\ pc'[p] = label
         /\ \A q \in Party : q # p => pc'[q] = pc[q]
<1>1. pc'[p] = label /\ \A q \in Party : q # p => pc'[q] = pc[q]
  BY DEF Goto, BucketInv, PartyOK
<1>2. pc' \in [Party -> {"idle", "locating", "waiting", "holding", "cleared", "refused",
                         "adopting", "mismatch", "binding", "attributed"}]
  BY DEF Goto, BucketInv, PartyOK
<1>3. \A q \in Party : pc'[q] \in {"locating", "waiting", "holding"} =>
        job'[q].kind \in {"arm", "clear_flow", "ack", "call"}
  BY <1>1 DEF BucketInv, PartyOK
<1> QED
  BY <1>1, <1>2, <1>3 DEF PartyOK

LEMMA AnsweredOK ==
  ASSUME BucketInv, NEW p \in Party, Answered(p)
  PROVE  /\ PartyOK' /\ pc'[p] = "idle"
         /\ \A q \in Party : q # p => pc'[q] = pc[q] /\ copy'[q] = copy[q]
<1>1. /\ DOMAIN won' = Party /\ DOMAIN copy' = Party /\ DOMAIN job' = Party
      /\ \A q \in Party : q # p => job'[q] = job[q] /\ copy'[q] = copy[q]
  BY DEF Answered, BucketInv, PartyOK
<1>2. Goto(p, "idle")
  BY DEF Answered
<1> QED
  BY <1>1, <1>2, MovedOK

LEMMA SaveArmedKeeps == ASSUME BucketInv, NEW p \in Party, SaveArmed(p) PROVE BucketInv'
<1> DEFINE new == [id |-> armed + 1, session |-> SessionOf[job[p].flow],
                   flow |-> job[p].flow, action |-> job[p].action, txn |-> job[p].txn]
<1>1. /\ pc[p] = "holding" /\ armed < MaxArms /\ armed' = armed + 1 /\ admitted' = admitted
      /\ bucket' \subseteq copy[p] \cup {new} /\ copy[p] \subseteq bucket
  BY DEF SaveArmed, ArmedFor, Others, BucketInv, CopyIsCurrent
<1>2. new.id = armed + 1
  OBVIOUS
<1>3. armed \in 0..MaxArms /\ MaxArms \in Nat /\ \A e \in bucket : e.id \in 1..armed
  BY ArmsAssumption DEF BucketInv, BucketOK
<1> HIDE DEF new
<1>4. BucketOK'
  <2>1. armed' \in 0..MaxArms
    BY <1>1, <1>3
  <2>2. ASSUME NEW e \in bucket' PROVE e.id \in 1..armed'
    BY <1>1, <1>2, <1>3
  <2>3. ASSUME NEW e \in bucket', NEW d \in bucket', e.id = d.id PROVE e = d
    BY <1>1, <1>2, <1>3, <2>3 DEF BucketInv, BucketOK
  <2> QED
    BY <2>1, <2>2, <2>3 DEF BucketOK
<1>5. SpentIsGone'
  <2>1. \A i \in Id : i > armed => admitted[i] = 0
    BY DEF BucketInv, SpentIsGone
  <2>2. admitted[armed + 1] = 0
    BY <1>1, <1>3, <2>1 DEF Id
  <2>3. \A e \in bucket' : admitted[e.id] = 0
    BY <1>1, <1>2, <2>2 DEF BucketInv, SpentIsGone
  <2>4. \A i \in Id : i > armed' => admitted[i] = 0
    BY <1>1, <1>3, <2>1 DEF Id
  <2> QED
    BY <1>1, <2>3, <2>4 DEF BucketInv, SpentIsGone
<1>6. PartyOK' /\ pc'[p] = "idle" /\ \A q \in Party : q # p => pc'[q] = pc[q]
  BY AnsweredOK DEF SaveArmed
<1>7. OneHolder' /\ CopyIsCurrent'
  BY <1>1, <1>6, SavedKeepsTurns
<1> QED
  BY <1>4, <1>5, <1>6, <1>7 DEF BucketInv

LEMMA SaveClearedKeeps == ASSUME BucketInv, NEW p \in Party, SaveCleared(p) PROVE BucketInv'
<1>1. /\ pc[p] = "holding" /\ armed' = armed /\ admitted' = admitted
      /\ bucket' \subseteq bucket
  BY DEF SaveCleared, Disarmed, BucketInv, CopyIsCurrent
<1>2. BucketOK' /\ SpentIsGone'
  BY <1>1 DEF BucketInv, BucketOK, SpentIsGone
<1>3. PartyOK' /\ pc'[p] # "holding" /\ \A q \in Party : q # p => pc'[q] = pc[q]
  <2>1. CASE Answered(p)
    BY <2>1, AnsweredOK
  <2>2. CASE Goto(p, "cleared") /\ UNCHANGED <<job, won, copy>>
    <3>1. /\ DOMAIN won' = Party /\ DOMAIN copy' = Party /\ DOMAIN job' = Party
          /\ \A q \in Party : q # p => job'[q] = job[q]
      BY <2>2 DEF BucketInv, PartyOK
    <3> QED
      BY <2>2, <3>1, MovedOK
  <2> QED
    BY <2>1, <2>2 DEF SaveCleared
<1>4. OneHolder' /\ CopyIsCurrent'
  BY <1>1, <1>3, SavedKeepsTurns
<1> QED
  BY <1>2, <1>3, <1>4 DEF BucketInv

\* A winner is one of the entries, or none.
LEMMA WinnerIsThere ==
  ASSUME NEW entries, NEW call, NEW e \in Winners(entries, call)
  PROVE  e \in entries \/ e = NoEntry
BY DEF Winners

LEMMA SaveConsumedKeeps ==
  ASSUME BucketInv, NEW p \in Party, SaveConsumed(p) PROVE BucketInv'
<1>1. PICK e \in Winners(copy[p], job[p]) :
        /\ bucket' = Without(copy[p], e)
        /\ won' = [won EXCEPT ![p] = e]
        /\ admitted' = IF Attributed(e, job[p]) = "adopting"
                       THEN [admitted EXCEPT ![e.id] = @ + 1] ELSE admitted
        /\ Goto(p, Attributed(e, job[p]))
  BY DEF SaveConsumed
<1>2. /\ pc[p] = "holding" /\ armed' = armed /\ job' = job /\ copy' = copy
      /\ copy[p] \subseteq bucket
  BY DEF SaveConsumed, BucketInv, CopyIsCurrent
<1>3. e \in bucket \/ e = NoEntry
  BY <1>2, WinnerIsThere
<1>4. bucket' \subseteq bucket /\ e \notin bucket'
  BY <1>1, <1>2 DEF Without
<1>5. BucketOK'
  BY <1>2, <1>4 DEF BucketInv, BucketOK
<1>6. SpentIsGone'
  <2>1. CASE Attributed(e, job[p]) = "adopting"
    <3>1. e \in bucket
      BY <2>1, <1>3 DEF Attributed
    <3>2. e.id \in 1..armed /\ armed \in 0..MaxArms /\ admitted[e.id] = 0
      BY <3>1 DEF BucketInv, BucketOK, SpentIsGone
    <3>3. e.id \in Id
      BY <3>2, ArmsAssumption DEF Id
    <3>4. admitted' = [admitted EXCEPT ![e.id] = 1]
      BY <2>1, <3>2, <1>1
    <3>6. /\ \A i \in Id : i # e.id => admitted'[i] = admitted[i]
          /\ admitted'[e.id] = 1 /\ DOMAIN admitted' = Id
          /\ admitted' \in [Id -> {admitted'[i] : i \in Id}]
      BY <3>3, <3>4 DEF BucketInv, SpentIsGone
    <3>9. \A i \in Id : admitted'[i] \in 0..1
      BY <3>6 DEF BucketInv, SpentIsGone
    <3>5. admitted' \in [Id -> 0..1]
      BY <3>6, <3>9
    <3>7. \A i \in Id : i > armed' => admitted'[i] = 0
      BY <3>2, <3>6, <1>2, ArmsAssumption DEF BucketInv, SpentIsGone, Id
    <3>8. ASSUME NEW d \in bucket' PROVE admitted'[d.id] = 0
      <4>1. d \in bucket /\ d # e /\ d.id # e.id
        BY <3>1, <1>4 DEF BucketInv, BucketOK
      <4>2. d.id \in Id
        BY <4>1, <3>2, ArmsAssumption DEF BucketInv, BucketOK, Id
      <4> QED
        BY <4>1, <4>2, <3>6 DEF BucketInv, SpentIsGone
    <3> QED
      BY <3>5, <3>7, <3>8 DEF SpentIsGone
  <2>2. CASE Attributed(e, job[p]) # "adopting"
    BY <2>2, <1>1, <1>2, <1>4 DEF BucketInv, SpentIsGone
  <2> QED
    BY <2>1, <2>2
<1>7. Attributed(e, job[p]) \in {"refused", "adopting", "mismatch"}
  BY DEF Attributed
<1>8. /\ DOMAIN won' = Party /\ DOMAIN copy' = Party /\ DOMAIN job' = Party
      /\ \A q \in Party : q # p => job'[q] = job[q]
  BY <1>1, <1>2 DEF BucketInv, PartyOK
<1>9. /\ PartyOK' /\ pc'[p] # "holding" /\ \A q \in Party : q # p => pc'[q] = pc[q]
  BY <1>1, <1>7, <1>8, MovedOK
<1>10. OneHolder' /\ CopyIsCurrent'
  BY <1>2, <1>9, SavedKeepsTurns
<1> QED
  BY <1>5, <1>6, <1>9, <1>10 DEF BucketInv

-----------------------------------------------------------------------------
\* The steps that do not touch the list.
LEMMA PartyStepKeeps ==
  ASSUME BucketInv, NEW p \in Party,
         UNCHANGED <<bucket, armed, admitted, holder, lapsed>>,
         NEW label \in {"idle", "locating", "waiting", "cleared", "refused", "adopting",
                        "mismatch", "binding", "attributed"},
         Goto(p, label), DOMAIN won' = Party, DOMAIN copy' = Party, DOMAIN job' = Party,
         \A q \in Party : q # p => job'[q] = job[q] /\ copy'[q] = copy[q],
         label \in {"locating", "waiting"} => job'[p].kind \in {"arm", "clear_flow", "ack", "call"}
  PROVE  BucketInv'
<1>1. pc'[p] = label /\ \A q \in Party : q # p => pc'[q] = pc[q]
  BY DEF Goto, BucketInv, PartyOK
<1>2. pc' \in [Party -> {"idle", "locating", "waiting", "holding", "cleared", "refused",
                         "adopting", "mismatch", "binding", "attributed"}]
  BY DEF Goto, BucketInv, PartyOK
<1>3. \A q \in Party : pc'[q] \in {"locating", "waiting", "holding"} =>
        job'[q].kind \in {"arm", "clear_flow", "ack", "call"}
  BY <1>1 DEF BucketInv, PartyOK
<1>4. PartyOK'
  BY <1>2, <1>3 DEF PartyOK
<1>5. \A q \in Party : pc'[q] = "holding" => pc[q] = "holding" /\ copy'[q] = copy[q]
  BY <1>1
<1> QED
  BY <1>4, <1>5, ElsewhereKeeps DEF Elsewhere

LEMMA BeginKeeps ==
  ASSUME BucketInv, NEW p \in Party, NEW j, NEW label \in {"waiting", "locating"},
         Begin(p, j, label), j.kind \in {"arm", "clear_flow", "ack", "call"}
  PROVE  BucketInv'
<1>1. /\ UNCHANGED <<bucket, armed, admitted, holder, lapsed, copy, won>>
      /\ Goto(p, label) /\ job' = [job EXCEPT ![p] = j]
  BY DEF Begin
<1>2. /\ DOMAIN won' = Party /\ DOMAIN copy' = Party /\ DOMAIN job' = Party
      /\ \A q \in Party : q # p => job'[q] = job[q] /\ copy'[q] = copy[q]
      /\ job'[p].kind \in {"arm", "clear_flow", "ack", "call"}
  BY <1>1 DEF BucketInv, PartyOK
<1> QED
  BY <1>1, <1>2, PartyStepKeeps

\* A party that is answered without a save.
LEMMA AnsweredKeeps ==
  ASSUME BucketInv, NEW p \in Party, Answered(p),
         UNCHANGED <<bucket, armed, admitted, holder, lapsed>>
  PROVE  BucketInv'
<1>1. /\ DOMAIN won' = Party /\ DOMAIN copy' = Party /\ DOMAIN job' = Party
      /\ \A q \in Party : q # p => job'[q] = job[q] /\ copy'[q] = copy[q]
      /\ Goto(p, "idle")
  BY DEF Answered, BucketInv, PartyOK
<1> QED
  BY <1>1, PartyStepKeeps

\* A party that goes on with the same work or a new job.
LEMMA GoOnKeeps ==
  ASSUME BucketInv, NEW p \in Party, UNCHANGED <<bucket, armed, admitted, holder, lapsed, copy>>,
         NEW label \in {"waiting", "binding", "attributed"}, Goto(p, label),
         won' = won \/ \E w : won' = [won EXCEPT ![p] = w],
         \/ job' = job /\ label # "waiting"
         \/ job' = job /\ job[p].kind \in {"arm", "clear_flow", "ack", "call"}
         \/ \E j : job' = [job EXCEPT ![p] = j] /\ j.kind \in {"arm", "ack"}
  PROVE  BucketInv'
<1>1. /\ DOMAIN won' = Party /\ DOMAIN copy' = Party /\ DOMAIN job' = Party
      /\ \A q \in Party : q # p => job'[q] = job[q] /\ copy'[q] = copy[q]
      /\ label \in {"locating", "waiting"} => job'[p].kind \in {"arm", "clear_flow", "ack", "call"}
  BY DEF BucketInv, PartyOK
<1> QED
  BY <1>1, PartyStepKeeps

-----------------------------------------------------------------------------
LEMMA NextKeeps == BucketInv /\ [Next]_vars => BucketInv'
<1> SUFFICES ASSUME BucketInv, [Next]_vars PROVE BucketInv'
  OBVIOUS
<1>1. ASSUME NEW p \in Party, NEW f \in Flow, Restart(p, f) PROVE BucketInv'
  BY <1>1, BeginKeeps DEF Restart
<1>2. ASSUME NEW p \in Party, NEW f \in Flow, NEW a \in Action, Arm(p, f, a) PROVE BucketInv'
  BY <1>2, BeginKeeps DEF Arm
<1>3. ASSUME NEW p \in Party, NEW a \in Action, NEW x \in Txn, NEW u, Call(p, a, x, u)
      PROVE  BucketInv'
  BY <1>3, BeginKeeps DEF Call
<1>4. ASSUME NEW p \in Party, Known(p) PROVE BucketInv'
  <2>1. /\ UNCHANGED <<bucket, armed, admitted, holder, lapsed, copy, job>>
        /\ Goto(p, "attributed") /\ \E w : won' = [won EXCEPT ![p] = w]
    BY <1>4 DEF Known, list
  <2> QED
    BY <2>1, GoOnKeeps
<1>5. ASSUME NEW p \in Party, Unknown(p) PROVE BucketInv'
  <2>1. /\ UNCHANGED <<bucket, armed, admitted, holder, lapsed, copy, job, won>>
        /\ Goto(p, "waiting") /\ job[p].kind \in {"arm", "clear_flow", "ack", "call"}
    BY <1>5 DEF Unknown, list, BucketInv, PartyOK
  <2> QED
    BY <2>1, GoOnKeeps
<1>6. ASSUME NEW p \in Party, Load(p) \/ SaveArmed(p) \/ SaveCleared(p) \/ SaveConsumed(p)
      PROVE  BucketInv'
  BY <1>6, LoadKeeps, SaveArmedKeeps, SaveClearedKeeps, SaveConsumedKeeps
<1>7. ASSUME NEW p \in Party, Unbind(p) PROVE BucketInv'
  <2>1. UNCHANGED <<bucket, armed, admitted, holder, lapsed>>
    BY <1>7 DEF Unbind
  <2>2. CASE Answered(p)
    BY <2>1, <2>2, AnsweredKeeps
  <2>3. CASE ~Answered(p)
    <3>1. PICK a \in Action :
            /\ job' = [job EXCEPT ![p] =
                         [kind |-> "arm", flow |-> job[p].flow, action |-> a, txn |-> None]]
            /\ Goto(p, "waiting") /\ UNCHANGED <<won, copy>>
      BY <1>7, <2>3 DEF Unbind
    <3> DEFINE j == [kind |-> "arm", flow |-> job[p].flow, action |-> a, txn |-> None]
    <3>2. job' = [job EXCEPT ![p] = j] /\ j.kind \in {"arm", "ack"}
      BY <3>1
    <3> HIDE DEF j
    <3> QED
      BY <2>1, <3>1, <3>2, GoOnKeeps
  <2> QED
    BY <2>2, <2>3
<1>8. ASSUME NEW p \in Party, Refuse(p) \/ Nack(p) PROVE BucketInv'
  BY <1>8, AnsweredKeeps DEF Refuse, Nack, list
<1>9. ASSUME NEW p \in Party, PutBack(p) PROVE BucketInv'
  <2> DEFINE j == [kind |-> "arm", flow |-> won[p].flow, action |-> won[p].action,
                   txn |-> won[p].txn]
  <2>1. /\ job' = [job EXCEPT ![p] = j] /\ j.kind \in {"arm", "ack"}
        /\ UNCHANGED <<bucket, armed, admitted, holder, lapsed, copy, won>>
        /\ Goto(p, "waiting")
    BY <1>9 DEF PutBack, list
  <2> HIDE DEF j
  <2> QED
    BY <2>1, GoOnKeeps
<1>10. ASSUME NEW p \in Party, Adopt(p) PROVE BucketInv'
  BY <1>10, GoOnKeeps DEF Adopt, list
<1>11. ASSUME NEW p \in Party, Bind(p) PROVE BucketInv'
  BY <1>11, GoOnKeeps DEF Bind, list
<1>12. ASSUME NEW p \in Party, Ack(p) PROVE BucketInv'
  <2> DEFINE j == [kind |-> "ack"]
  <2>1. /\ job' = [job EXCEPT ![p] = j] /\ j.kind \in {"arm", "ack"}
        /\ UNCHANGED <<bucket, armed, admitted, holder, lapsed, copy, won>>
        /\ Goto(p, "waiting")
    BY <1>12 DEF Ack, list
  <2> HIDE DEF j
  <2> QED
    BY <2>1, GoOnKeeps
<1>13. CASE \/ \E f \in Flow, x \in Txn : Mint(f, x)
            \/ \E e \in bucket : Lapse(e)
            \/ \E s \in Session : SessionExpires(s)
            \/ UNCHANGED vars
  <2>1. /\ UNCHANGED <<bucket, armed, admitted, holder, pc, job, won, copy>>
        /\ lapsed \subseteq lapsed'
    BY <1>13 DEF Mint, Lapse, SessionExpires, vars, list, runs
  <2>2. PartyOK'
    BY <2>1 DEF BucketInv, PartyOK
  <2> QED
    BY <2>1, <2>2, ElsewhereKeeps DEF Elsewhere
<1> QED
  BY <1>1, <1>2, <1>3, <1>4, <1>5, <1>6, <1>7, <1>8, <1>9, <1>10, <1>11, <1>12, <1>13
     DEF Next

\* The bucket's invariant.
THEOREM BucketInvariant == Spec => []BucketInv
BY InitKeeps, NextKeeps, PTL DEF Spec

\* An armed expectation opens at most one transaction, whatever is saved, put back,
\* restarted or lapses around it.
THEOREM ExpectationsAdmitOnce == Spec => []AdmitsOnce
<1>1. BucketInv => AdmitsOnce
  BY DEF BucketInv, SpentIsGone, AdmitsOnce
<1> QED
  BY <1>1, BucketInvariant, PTL

-----------------------------------------------------------------------------
\* An entry is for the session of its run.
EntriesBelong == \A e \in bucket : e.session = SessionOf[e.flow]

\* Only the saves write the bucket.
LEMMA OnlySavesWrite ==
  ASSUME [Next]_vars
  PROVE  \/ bucket' = bucket
         \/ \E p \in Party : SaveArmed(p) \/ SaveCleared(p) \/ SaveConsumed(p)
<1>1. ASSUME NEW p \in Party,
             \/ \E f \in Flow : Restart(p, f) \/ \E a \in Action : Arm(p, f, a)
             \/ \E a \in Action, x \in Txn, u \in Session \cup {None} : Call(p, a, x, u)
             \/ Unbind(p)
      PROVE  bucket' = bucket
  BY <1>1 DEF Restart, Arm, Call, Begin, Unbind
<1>2. ASSUME NEW p \in Party,
             \/ Known(p) \/ Unknown(p) \/ Load(p) \/ Refuse(p) \/ PutBack(p)
             \/ Adopt(p) \/ Bind(p) \/ Nack(p) \/ Ack(p)
      PROVE  bucket' = bucket
  BY <1>2 DEF Known, Unknown, Load, Refuse, PutBack, Adopt, Bind, Nack, Ack, list
<1>3. CASE \/ \E f \in Flow, x \in Txn : Mint(f, x)
           \/ \E e \in bucket : Lapse(e)
           \/ \E s \in Session : SessionExpires(s)
           \/ UNCHANGED vars
  BY <1>3 DEF Mint, Lapse, SessionExpires, vars, list
<1> QED
  BY <1>1, <1>2, <1>3 DEF Next

LEMMA BelongKeeps == BucketInv /\ EntriesBelong /\ [Next]_vars => EntriesBelong'
<1> SUFFICES ASSUME BucketInv, EntriesBelong, [Next]_vars PROVE EntriesBelong'
  OBVIOUS
<1>1. CASE bucket' = bucket
  BY <1>1 DEF EntriesBelong
<1>2. ASSUME NEW p \in Party, SaveArmed(p) PROVE EntriesBelong'
  <2> DEFINE new == [id |-> armed + 1, session |-> SessionOf[job[p].flow],
                     flow |-> job[p].flow, action |-> job[p].action, txn |-> job[p].txn]
  <2>1. bucket' \subseteq copy[p] \cup {new} /\ copy[p] \subseteq bucket
    BY <1>2 DEF SaveArmed, ArmedFor, Others, BucketInv, CopyIsCurrent
  <2>2. new.session = SessionOf[new.flow]
    OBVIOUS
  <2> HIDE DEF new
  <2> QED
    BY <2>1, <2>2 DEF EntriesBelong
<1>3. ASSUME NEW p \in Party, SaveCleared(p) \/ SaveConsumed(p) PROVE EntriesBelong'
  <2>1. pc[p] = "holding" /\ bucket' \subseteq copy[p]
    BY <1>3 DEF SaveCleared, SaveConsumed, Disarmed, Without
  <2>2. copy[p] \subseteq bucket
    BY <2>1 DEF BucketInv, CopyIsCurrent
  <2> QED
    BY <2>1, <2>2 DEF EntriesBelong
<1> QED
  BY <1>1, <1>2, <1>3, OnlySavesWrite

\* What a save leaves out is lapsed or the saver's to remove.
LEMMA SavesAnswer ==
  ASSUME BucketInv, EntriesBelong, NEW p \in Party, NEW e \in bucket \ bucket',
         SaveArmed(p) \/ SaveCleared(p) \/ SaveConsumed(p)
  PROVE  \/ e.id \in lapsed
         \/ pc[p] = "holding" /\ pc'[p] # "holding" /\ Answerable(p, e)
<1>1. pc[p] = "holding"
  BY DEF SaveArmed, SaveCleared, SaveConsumed
<1>2. e \in copy[p] \/ e.id \in lapsed
  BY <1>1 DEF BucketInv, CopyIsCurrent
<1>3. pc'[p] # "holding"
  <2>1. CASE SaveArmed(p) \/ (SaveCleared(p) /\ Answered(p))
    BY <2>1 DEF SaveArmed, Answered, Goto, BucketInv, PartyOK
  <2>2. CASE SaveCleared(p) /\ Goto(p, "cleared")
    BY <2>2 DEF Goto, BucketInv, PartyOK
  <2>3. CASE SaveConsumed(p)
    BY <2>3 DEF SaveConsumed, Attributed, Goto, BucketInv, PartyOK
  <2> QED
    BY <2>1, <2>2, <2>3 DEF SaveCleared
<1>4. CASE SaveArmed(p)
  <2>1. Others(copy[p], SessionOf[job[p].flow], job[p].action) \subseteq bucket'
    BY <1>4 DEF SaveArmed, ArmedFor
  <2>2. e \in copy[p] => e.session = SessionOf[job[p].flow]
    BY <2>1 DEF Others
  <2>3. job[p].kind = "arm"
    BY <1>4 DEF SaveArmed
  <2> QED
    BY <1>1, <1>2, <1>3, <2>2, <2>3 DEF Answerable
<1>5. CASE SaveCleared(p)
  <2>1. job[p].kind \in {"clear_flow", "ack"} /\ bucket' = Disarmed(p)
    BY <1>5 DEF SaveCleared
  <2>2. ASSUME e \in copy[p] PROVE Answerable(p, e)
    <3>1. IF job[p].kind = "clear_flow" THEN e.flow = job[p].flow
                                        ELSE e.session = won[p].session
      BY <2>1, <2>2 DEF Disarmed
    <3> QED
      BY <2>1, <3>1 DEF Answerable, EntriesBelong
  <2> QED
    BY <1>1, <1>2, <1>3, <2>2
<1>6. CASE SaveConsumed(p)
  <2>1. PICK w : bucket' = Without(copy[p], w) /\ won' = [won EXCEPT ![p] = w]
    BY <1>6 DEF SaveConsumed
  <2>2. won'[p] = w /\ job[p].kind = "call"
    BY <1>6, <2>1 DEF SaveConsumed, BucketInv, PartyOK
  <2>3. e \in copy[p] => e = w
    BY <2>1 DEF Without
  <2> QED
    BY <1>1, <1>2, <1>3, <2>2, <2>3 DEF Answerable
<1> QED
  BY <1>4, <1>5, <1>6

\* On one list shared by every session, an expectation that has not expired is taken
\* out only by its own session's arming, restart or ACK, or by the call it lets in.
THEOREM SessionsDoNotDisarmEachOther == Spec => OnlyTheirOwn
<1>1. Init => EntriesBelong
  BY DEF Init, EntriesBelong
<1>2. BucketInv /\ EntriesBelong /\ [Next]_vars =>
        [\A e \in bucket \ bucket' :
           e.id \in lapsed \/ \E p \in Party : pc[p] = "holding" /\ pc'[p] # "holding"
                                               /\ Answerable(p, e)]_vars
  BY OnlySavesWrite, SavesAnswer
<1> QED
  BY <1>1, <1>2, BelongKeeps, BucketInvariant, PTL DEF Spec, OnlyTheirOwn
=============================================================================
