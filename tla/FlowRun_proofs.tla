--------------------------- MODULE FlowRun_proofs ---------------------------
(***************************************************************************)
(* Proofs about a run, for any number of calls of any tool, transactions,  *)
(* steps and failures.                                                     *)
(*                                                                         *)
(* A step of the run is one call's (NextIsAStep), and touches nothing of   *)
(* the other calls (StepIsApart).  For each thing the arguments are about, *)
(* one lemma goes through the calls' steps and says what a step can do to  *)
(* it: the run lock, the wire, the markers, the transactions in hand, the  *)
(* seals, the entries, the binding.  The invariants are then preserved by  *)
(* what those lemmas say and not by the actions.                           *)
(*                                                                         *)
(*  - TypeInv: what the state is made of, and where each call can be.      *)
(*  - LockOK: a call that names the flow works beneath the run lock.       *)
(*  - SendOK: a dispatch has nothing on the wire before its send.          *)
(*  - MintInv: a transaction about to be created is its dispatch's alone.  *)
(*  - LiveOK: such a dispatch works on an attempt nobody wrote off.        *)
(*  - LateOK: one by transaction does too, or had read it before the seal. *)
(*  - CursorInv: the step a dispatch has in hand is the one its            *)
(*    transaction owes, until its entry holds the cursor past it.          *)
(*  - OwnerInv: what crossed the wire is of the bound attempt, or of one   *)
(*    that restart wrote off.                                              *)
(*                                                                         *)
(* Where the code promises less than a reader would expect, the theorem    *)
(* says so in its hypotheses (AllByFlow, WeOpen, StartedOnce), and a run   *)
(* of the model shows the property failing without them.                   *)
(***************************************************************************)
EXTENDS FlowRun, WellFoundedInduction, TLAPS

USE KindsAssumption

----------------------------------------------------------------------------
(***************************************************************************)
(* The cursor.                                                             *)
(***************************************************************************)

\* What holds of 0 and of the successor of each number it holds of.
LEMMA EveryNumber ==
    ASSUME NEW S, 0 \in S, \A n \in Nat : n \in S => n + 1 \in S
    PROVE  Nat \subseteq S
<1> DEFINE R == OpToRel(<, Nat)
           out == Nat \ S
<1>1. \A x, y \in Nat : <<x, y>> \in R <=> x < y
    BY DEF OpToRel
<1>2. IsWellFoundedOn(R, Nat)
    BY NatLessThanWellFounded
<1> HIDE DEF R
<1>3. SUFFICES ASSUME out # {} PROVE FALSE
    OBVIOUS
<1>4. PICK x \in out : \A y \in out : ~(<<y, x>> \in R)
    BY <1>2, <1>3, WFMin
<1>5. x \in Nat /\ x # 0 /\ x - 1 \in Nat
    OBVIOUS
<1>6. x - 1 \in S
    <2>1. <<x - 1, x>> \in R
        BY <1>1, <1>5
    <2> QED
        BY <1>4, <1>5, <2>1
<1> QED
    BY <1>5, <1>6

\* The cursor over the i-th entry of a list.
Advance(s, i, step) == IF s[i].step = step /\ ~Repeats(s, i) THEN step + 1 ELSE step

IsReplay(g, s, n) ==
    /\ g \in [0..n -> Nat] /\ g[0] = 1
    /\ \A i \in 1..n : g[i] = Advance(s, i, g[i - 1])

\* By the length of the prefix.
LEMMA ReplayExists ==
    ASSUME NEW s, NEW n \in Nat
    PROVE  \E g : IsReplay(g, s, n)
<1> DEFINE S == {k \in Nat : \E g : IsReplay(g, s, k)}
<1>1. 0 \in S
    <2>1. IsReplay([i \in 0..0 |-> 1], s, 0)
        BY DEF IsReplay
    <2> QED
        BY <2>1
<1>2. ASSUME NEW k \in Nat, k \in S PROVE k + 1 \in S
    <2>1. PICK g : IsReplay(g, s, k)
        BY <1>2
    <2> DEFINE h == [i \in 0..(k + 1) |-> IF i = k + 1 THEN Advance(s, k + 1, g[k]) ELSE g[i]]
    <2>2. g[k] \in Nat /\ Advance(s, k + 1, g[k]) \in Nat
        BY <2>1 DEF IsReplay, Advance
    <2>3. h \in [0..(k + 1) -> Nat] /\ h[0] = 1
        BY <2>1, <2>2 DEF IsReplay
    <2>4. ASSUME NEW i \in 1..(k + 1) PROVE h[i] = Advance(s, i, h[i - 1])
        <3>1. CASE i = k + 1
            BY <3>1
        <3>2. CASE i # k + 1
            BY <2>1, <3>2 DEF IsReplay
        <3> QED
            BY <3>1, <3>2
    <2> HIDE DEF h
    <2>5. IsReplay(h, s, k + 1)
        BY <2>3, <2>4 DEF IsReplay
    <2> QED
        BY <2>5
<1> HIDE DEF S
<1>3. n \in S
    BY <1>1, <1>2, EveryNumber
<1> QED
    BY <1>3 DEF S

\* Replay is that function: no other satisfies the same equations.
LEMMA ReplayIs ==
    ASSUME NEW s, Len(s) \in Nat
    PROVE  IsReplay(Replay(s), s, Len(s))
<1> DEFINE Step1(g, i) == IF i = 0 THEN 1
                          ELSE LET step == g[i - 1]
                               IN  IF s[i].step = step /\ ~Repeats(s, i) THEN step + 1 ELSE step
<1>1. PICK g : IsReplay(g, s, Len(s))
    BY ReplayExists
<1>2. g = [i \in 0..Len(s) |-> Step1(g, i)]
    BY <1>1 DEF IsReplay, Advance
<1>3. Replay(s) = CHOOSE f : f = [i \in 0..Len(s) |-> Step1(f, i)]
    BY DEF Replay
<1>4. Replay(s) = [i \in 0..Len(s) |-> Step1(Replay(s), i)]
    BY <1>2, <1>3
<1>5. /\ Replay(s)[0] = 1
      /\ \A i \in 1..Len(s) : Replay(s)[i] = Advance(s, i, Replay(s)[i - 1])
    <2>1. \A i \in 0..Len(s) : Replay(s)[i] = Step1(Replay(s), i)
        BY <1>4
    <2> QED
        BY <2>1 DEF Advance
<1> DEFINE S == {k \in Nat : k <= Len(s) => Replay(s)[k] \in Nat}
<1>6. 0 \in S
    BY <1>5
<1>7. ASSUME NEW k \in Nat, k \in S PROVE k + 1 \in S
    <2> SUFFICES ASSUME k + 1 <= Len(s) PROVE Replay(s)[k + 1] \in Nat
        OBVIOUS
    <2>1. Replay(s)[k + 1] = Advance(s, k + 1, Replay(s)[k])
        BY <1>5
    <2>2. Replay(s)[k] \in Nat
        BY <1>7
    <2> QED
        BY <2>1, <2>2 DEF Advance
<1>8. Nat \subseteq S
    <2> HIDE DEF S
    <2> QED
        BY <1>6, <1>7, EveryNumber
<1>9. Replay(s) \in [0..Len(s) -> Nat]
    BY <1>4, <1>8
<1> QED
    BY <1>5, <1>9 DEF IsReplay

\* Lists that begin with the same exchanges have the cursor go the same way.
LEMMA ReplayOfSame ==
    ASSUME NEW s, NEW u, Len(s) \in Nat, Len(u) \in Nat, NEW n \in Nat,
           n <= Len(s), n <= Len(u), \A i \in 1..n : Same(s[i], u[i])
    PROVE  Replay(s)[n] = Replay(u)[n]
<1> DEFINE S == {k \in Nat : k <= n => Replay(s)[k] = Replay(u)[k]}
<1>1. 0 \in S
    BY ReplayIs DEF IsReplay
<1>2. ASSUME NEW k \in Nat, k \in S PROVE k + 1 \in S
    <2> SUFFICES ASSUME k + 1 <= n PROVE Replay(s)[k + 1] = Replay(u)[k + 1]
        OBVIOUS
    <2>1. Replay(s)[k] = Replay(u)[k]
        BY <1>2
    <2>2. /\ Replay(s)[k + 1] = Advance(s, k + 1, Replay(s)[k])
          /\ Replay(u)[k + 1] = Advance(u, k + 1, Replay(u)[k])
        <3>1. k + 1 \in 1..Len(s) /\ k + 1 \in 1..Len(u) /\ (k + 1) - 1 = k
            OBVIOUS
        <3> QED
            BY <3>1, ReplayIs DEF IsReplay
    <2>3. Repeats(s, k + 1) <=> Repeats(u, k + 1)
        BY DEF Repeats, Same
    <2>4. s[k + 1].step = u[k + 1].step
        BY DEF Same
    <2> QED
        BY <2>1, <2>2, <2>3, <2>4 DEF Advance
<1> HIDE DEF S
<1>3. n \in S
    BY <1>1, <1>2, EveryNumber
<1> QED
    BY <1>3 DEF S

\* The cursor stands on a number from 1 on.
LEMMA NextStepIsNumber ==
    ASSUME NEW s \in Seq(Entry)
    PROVE  NextStep(s) \in Nat
<1>1. Len(s) \in Nat
    OBVIOUS
<1> QED
    BY <1>1, ReplayIs DEF NextStep, IsReplay

\* A transaction with no entries owes its first step.
LEMMA NextStepOfNothing == NextStep(<<>>) = 1
<1>1. Len(<<>>) = 0
    OBVIOUS
<1> QED
    BY <1>1, ReplayIs DEF NextStep, IsReplay

\* Only the first exchange of the step it stands on moves it, by one.
LEMMA NextStepOfAppend ==
    ASSUME NEW s \in Seq(Entry), NEW e \in Entry
    PROVE  NextStep(Append(s, e)) =
             IF e.step = NextStep(s) /\ ~\E j \in 1..Len(s) : Same(s[j], e)
             THEN NextStep(s) + 1 ELSE NextStep(s)
<1> DEFINE n == Len(s)
           a == Append(s, e)
<1>1. /\ n \in Nat /\ Len(a) = n + 1 /\ a[n + 1] = e
      /\ \A i \in 1..n : a[i] = s[i]
    OBVIOUS
<1> HIDE DEF a, n
<1>2. Replay(a)[n] = Replay(s)[n]
    <2>1. \A i \in 1..n : Same(a[i], s[i])
        BY <1>1 DEF Same
    <2>2. /\ Len(a) \in Nat /\ Len(s) \in Nat
          /\ n <= Len(a) /\ n <= Len(s)
        BY <1>1 DEF n
    <2> QED
        BY <1>1, <2>1, <2>2, ReplayOfSame
<1>3. Replay(a)[n + 1] = Advance(a, n + 1, Replay(a)[n])
    <2>1. n + 1 \in 1..Len(a) /\ (n + 1) - 1 = n /\ Len(a) \in Nat
        BY <1>1
    <2> QED
        BY <2>1, ReplayIs DEF IsReplay
<1>4. Repeats(a, n + 1) <=> \E j \in 1..n : Same(s[j], e)
    BY <1>1 DEF Repeats
<1>5. NextStep(s) = Replay(s)[n] /\ NextStep(a) = Replay(a)[n + 1]
    BY <1>1 DEF NextStep, n
<1>6. NextStep(a) = Advance(a, n + 1, NextStep(s))
    BY <1>2, <1>3, <1>5
<1>7. NextStep(a) = IF e.step = NextStep(s) /\ ~\E j \in 1..n : Same(s[j], e)
                    THEN NextStep(s) + 1 ELSE NextStep(s)
    BY <1>1, <1>4, <1>6 DEF Advance
<1> QED
    BY <1>7 DEF a, n

\* The state of an exchange does not move it.
LEMMA NextStepOfSame ==
    ASSUME NEW s \in Seq(Entry), NEW u \in Seq(Entry), Len(s) = Len(u),
           \A i \in 1..Len(s) : Same(s[i], u[i])
    PROVE  NextStep(s) = NextStep(u)
<1>1. Len(s) \in Nat /\ Len(u) \in Nat
    OBVIOUS
<1> QED
    BY <1>1, ReplayOfSame DEF NextStep

----------------------------------------------------------------------------
(***************************************************************************)
(* What the state is made of, and where each kind of call can be.          *)
(***************************************************************************)

Record == [exists : BOOLEAN, abandoned : BOOLEAN, entries : Seq(Entry)]

\* The places of a dispatch that has its step, and those where it has a
\* transaction as well.
OnTxn == {"create", "bind", "append", "send", "settle", "fail", "discard"}
OnStep == OnTxn \cup {"mark", "prepare", "mint"}
Place ==
    OnStep \cup
    {"idle", "load", "select", "clear", "leave", "done", "resave", "describe", "reread", "seal", "disarm",
     "unmark", "unbind", "consume", "adopt", "adoptbind", "match", "ack", "nack", "disarmall"}

StoresTyped ==
    /\ binding \in Txn \cup {Unbound}
    /\ records \in [Txn -> Record]
    /\ status \in [Txn \cup {Unbound} -> {"AVAILABLE", "WORKING"}]
    /\ armed \in BOOLEAN

CallsTyped ==
    /\ pc \in [Proc -> Place]
    /\ txn \in [Proc -> Txn \cup {Unbound}]
    /\ want \in [Proc -> Nat]
    /\ marked \in [Proc -> SUBSET (Txn \cup {Unbound})]
    /\ msg \in [Inbound -> Msg \cup {Nobody}]
    /\ runLock \in Proc \cup {Nobody}

HistoryTyped ==
    /\ known \subseteq Txn
    /\ wire \subseteq [txn : Txn, step : Step, by : Proceeds]
    /\ late \subseteq ByTransaction
    /\ mishaps \in Nat

PlaceOK(p) ==
    /\ p \in ByFlow => pc[p] \in OnStep \cup {"idle", "load", "select", "clear", "leave", "done"}
    /\ p \in ByTransaction =>
         /\ pc[p] \in OnStep \cup {"idle", "select", "clear", "leave", "done"}
         /\ pc[p] \notin {"mint", "create", "bind"}
    /\ p \in Starts => pc[p] \in {"idle", "resave", "describe", "leave", "done"}
    /\ p \in Restarts => pc[p] \in {"idle", "reread", "seal", "disarm", "unmark", "unbind",
                                    "describe", "leave", "done"}
    /\ p \in Inbound => pc[p] \in {"idle", "consume", "adopt", "adoptbind", "match", "ack", "nack",
                                   "disarmall", "leave", "done"}

HandsOK(p) ==
    /\ pc[p] \in OnStep => want[p] \in Ours
    /\ pc[p] \in OnTxn \cup {"seal"} => txn[p] \in Txn
    /\ p \in ByTransaction /\ pc[p] # "idle" => txn[p] \in Txn
    /\ p \in Inbound =>
         /\ msg[p] # Nobody => txn[p] \in Txn
         /\ pc[p] \notin {"idle", "done"} => msg[p] \in Msg

CallsOK == \A p \in Proc : PlaceOK(p) /\ HandsOK(p)

TypeInv == StoresTyped /\ CallsTyped /\ HistoryTyped /\ CallsOK

----------------------------------------------------------------------------
\* The run lock is held by the one call that is under way beneath it.
LockOK == \A p \in ByFlow \cup Restarts : pc[p] \notin {"idle", "done"} => runLock = p

\* A dispatch has sent nothing before the participant answers or might have.
Unsent ==
    {"idle", "load", "select", "mark", "prepare", "mint", "create", "bind", "append", "send", "discard"}

SendOK == \A p \in Proceeds : pc[p] \in Unsent => \A w \in wire : w.by # p

\* A dispatch on an unbound run is for the first step.
FirstOf(p) ==
    /\ pc[p] \in {"select", "mark", "prepare"} /\ txn[p] = Unbound => want[p] = 1
    /\ pc[p] = "mint" => txn[p] = Unbound
    /\ pc[p] \in {"mint", "create"} => want[p] = 1

FirstOK == \A p \in Proc : FirstOf(p)

(***************************************************************************)
(* Two things the code does not promise and a run may have: calls that all *)
(* name the flow, and so take the run lock, and a flow the mock opens,     *)
(* which nobody adopts.  flow_start on a run under way is the third.       *)
(***************************************************************************)
AllByFlow == ByTransaction = {}
WeOpen == 1 \in Ours
StartedOnce == Starts = {}

\* A run the mock opens is never adopted: nothing arms for its first step.
NeverAdopts == ~armed /\ \A p \in Proc : pc[p] \notin {"adopt", "adoptbind"}

\* What nobody has minted is nowhere.
KnownOK ==
    /\ binding \in known \cup {Unbound}
    /\ \A p \in Proc : txn[p] \in known \cup {Unbound}
    /\ \A t \in Txn \ known : records[t] = NoRecord
    /\ \A w \in wire : w.txn \in known

\* A transaction whose record is about to be created is its dispatch's alone.
MintedIsOwn ==
    \A p \in Proc : pc[p] = "create" =>
        /\ records[txn[p]] = NoRecord
        /\ binding # txn[p]
        /\ \A q \in Proc : q # p => txn[q] # txn[p]
        /\ \A w \in wire : w.txn # txn[p]

\* The participant has heard of a transaction from the mock.
HeardIsSent == \A h \in Inbound : msg[h] # Nobody => \E w \in wire : w.txn = txn[h]

MintInv == FirstOK /\ NeverAdopts /\ KnownOK /\ MintedIsOwn /\ HeardIsSent

\* A dispatch by flow works on a live attempt until it is done with the wire.
LiveOf(p) ==
    p \in ByFlow /\ pc[p] \in {"select", "mark", "prepare", "bind", "append", "send"} /\ txn[p] # Unbound
        => ~records[txn[p]].abandoned

LiveOK == \A p \in Proc : LiveOf(p)

\* A dispatch by transaction works on a live attempt, or on one it had read
\* before the seal.
Sending == {"select", "mark", "prepare", "append", "send"}

LateOf(p) ==
    p \in ByTransaction /\ pc[p] \in Sending /\ records[txn[p]].abandoned => p \in late

LateOK == \A p \in Proc : LateOf(p)

----------------------------------------------------------------------------
HasEntry(p, t) == \E i \in DOMAIN Entries(t) : Entries(t)[i].id = p

\* A dispatch has no entry before it appends one.
Unwritten == {"idle", "load", "select", "mark", "prepare", "mint", "create", "bind", "append"}

EntryOf(p) == p \in Proceeds /\ pc[p] \in Unwritten => \A t \in Txn : ~HasEntry(p, t)

\* Until then its step is the one the transaction owes.
OwedOf(p) ==
    /\ p \in ByFlow /\ pc[p] \in {"select", "mark", "prepare", "bind", "append"}
    /\ txn[p] # Unbound /\ want[p] \in Ours
    => NextStep(Entries(txn[p])) = want[p]

\* i is the one entry of p, and without it the cursor stands on k.
Rests(p, k, s, i) ==
    /\ s[i].id = p /\ \A j \in DOMAIN s : s[j].id = p => j = i
    /\ NextStep(RemoveAt(s, i)) = k

\* From there to the end of the send the entry holds the cursor past the step,
\* and what was sent before is behind it.
WrittenOf(p) ==
    p \in ByFlow /\ pc[p] \in {"send", "discard"} =>
        /\ \E i \in DOMAIN Entries(txn[p]) : Rests(p, want[p], Entries(txn[p]), i)
        /\ NextStep(Entries(txn[p])) > want[p]
        /\ \A w \in wire : w.txn = txn[p] => w.step < want[p]

CursorInv == (\A p \in Proc : EntryOf(p) /\ OwedOf(p) /\ WrittenOf(p)) /\ SentIsRecorded

----------------------------------------------------------------------------
(***************************************************************************)
(* The binding.                                                            *)
(***************************************************************************)
BoundOf(p) ==
    p \in ByFlow =>
        /\ pc[p] \in {"select", "mark", "prepare", "append", "send", "settle", "fail", "discard"}
              => binding = txn[p]
        /\ pc[p] \in {"mint", "create", "bind"} => binding = Unbound

\* flow_restart unbinds an attempt only once it is written off.
ReplaceOf(r) ==
    r \in Restarts =>
        /\ pc[r] = "seal" => txn[r] = binding
        /\ pc[r] \in {"disarm", "unmark", "unbind"} /\ binding # Unbound => records[binding].abandoned

CreatedOf(p) == p \in ByFlow /\ pc[p] = "bind" => records[txn[p]].exists

Owned(t) == binding = t \/ records[t].abandoned

WireOwned == \A w \in wire : Owned(w.txn)

OwnerInv == (\A p \in Proc : BoundOf(p) /\ ReplaceOf(p)) /\ WireOwned /\ NoOrphans
----------------------------------------------------------------------------
\* Every step is one call's, or the process dying.
StepOf(p) ==
    \/ p \in ByFlow \cup Restarts /\ EnterByFlow(p)
    \/ p \in ByTransaction /\ \E t \in Txn : LoadByTransaction(p, t)
    \/ p \in Starts /\ StartRead(p)
    \/ p \in Inbound /\ \E m \in Msg, t \in Txn : Arrive(p, m, t)
    \/ p \in Proc /\ (Continue(p) \/ StoreFails(p))

\* Next, call by call.
LEMMA NextIsAStep == Next <=> (\E p \in Proc : StepOf(p)) \/ Crash
    BY DEF Next, StepOf, Proc, Proceeds

\* A call's step is its own: the others are where they were, with what they had.
Apart(p) ==
    \A q \in Proc : q # p =>
        /\ pc'[q] = pc[q] /\ txn'[q] = txn[q] /\ want'[q] = want[q] /\ marked'[q] = marked[q]
        /\ q \in Inbound => msg'[q] = msg[q]

\* What Select leaves alone.
LEMMA SelectMoves ==
    ASSUME CallsTyped, NEW p \in Proc, Select(p)
    PROVE  /\ pc[p] = "select" /\ txn'[p] = txn[p] /\ want'[p] = want[p]
           /\ pc'[p] = "leave" \/ (pc'[p] = "mark" /\ want[p] \in Ours)
<1>1. /\ pc[p] = "select" /\ UNCHANGED <<txn, want>>
      /\ GoTo(p, "leave") \/ (want[p] \in Ours /\ GoTo(p, "mark"))
    BY DEF Select
<1> QED
    BY <1>1 DEF CallsTyped, GoTo

\* One call at a time.
LEMMA StepIsApart ==
    ASSUME CallsTyped, NEW p \in Proc, StepOf(p)
    PROVE  Apart(p)
<1> USE DEF CallsTyped, Apart, GoTo, stores, history
<1>1. ASSUME p \in ByFlow \cup Restarts, EnterByFlow(p) PROVE Apart(p)
    BY <1>1 DEF EnterByFlow
<1>2. ASSUME p \in ByTransaction, NEW t \in Txn, LoadByTransaction(p, t) PROVE Apart(p)
    BY <1>2 DEF LoadByTransaction
<1>3. ASSUME p \in Starts, StartRead(p) PROVE Apart(p)
    BY <1>3 DEF StartRead
<1>4. ASSUME p \in Inbound, NEW m \in Msg, NEW t \in Txn, Arrive(p, m, t) PROVE Apart(p)
    BY <1>4 DEF Arrive
<1>5. CASE LoadByFlow(p)
    BY <1>5 DEF LoadByFlow
<1>6. CASE Select(p)
    BY <1>6 DEF Select
<1>7. CASE Mark(p)
    <2>1. /\ pc' = [pc EXCEPT ![p] = "prepare"] /\ UNCHANGED <<txn, want, msg>>
          /\ marked' = [marked EXCEPT ![p] = @ \cup {txn[p]}]
        BY <1>7 DEF Mark, SetWorking
    <2> QED
        BY <2>1
<1>8. CASE Prepare(p)
    BY <1>8 DEF Prepare
<1>9. ASSUME NEW t \in Txn, Mint(p, t) PROVE Apart(p)
    BY <1>9 DEF Mint, SetWorking
<1>10. CASE CreateOutbound(p)
    BY <1>10 DEF CreateOutbound
<1>11. CASE BindOutbound(p)
    BY <1>11 DEF BindOutbound
<1>12. CASE AppendOutbound(p)
    BY <1>12 DEF AppendOutbound, Add
<1>13. CASE Send(p)
    BY <1>13 DEF Send
<1>14. CASE SettleOutbound(p)
    BY <1>14 DEF SettleOutbound
<1>15. CASE DiscardOutbound(p)
    BY <1>15 DEF DiscardOutbound
<1>16. CASE Clear(p)
    BY <1>16 DEF Clear
<1>17. CASE StartSave(p)
    BY <1>17 DEF StartSave
<1>18. CASE Describe(p)
    BY <1>18 DEF Describe
<1>19. CASE Reread(p)
    BY <1>19 DEF Reread
<1>20. CASE Seal(p)
    BY <1>20 DEF Seal
<1>21. CASE Disarm(p)
    BY <1>21 DEF Disarm
<1>22. CASE Unmark(p)
    BY <1>22 DEF Unmark
<1>23. CASE Unbind(p)
    BY <1>23 DEF Unbind
<1>24. CASE Consume(p)
    BY <1>24 DEF Consume
<1>25. CASE Adopt(p)
    BY <1>25 DEF Adopt
<1>26. CASE AdoptBind(p)
    BY <1>26 DEF AdoptBind
<1>27. CASE Match(p)
    BY <1>27 DEF Match
<1>28. CASE RecordInbound(p)
    BY <1>28 DEF RecordInbound, Add
<1>29. CASE DisarmAll(p)
    BY <1>29 DEF DisarmAll
<1>30. CASE Leave(p)
    BY <1>30 DEF Leave
<1>31. CASE StoreFails(p)
    BY <1>31 DEF StoreFails, AfterReject
<1> QED
    BY <1>1, <1>2, <1>3, <1>4, <1>5, <1>6, <1>7, <1>8, <1>9, <1>10, <1>11, <1>12, <1>13,
        <1>14, <1>15, <1>16, <1>17, <1>18, <1>19, <1>20, <1>21, <1>22, <1>23, <1>24, <1>25,
        <1>26, <1>27, <1>28, <1>29, <1>30, <1>31 DEF StepOf, Continue

\* Where a call goes from where it is.
LEMMA StepKeepsPlace ==
    ASSUME TypeInv, NEW p \in Proc, StepOf(p)
    PROVE  PlaceOK(p)'
<1> USE DEF TypeInv, CallsOK, CallsTyped, GoTo, PlaceOK, HandsOK, OnTxn, OnStep, stores,
        history, Proc, Proceeds
<1>1. ASSUME p \in ByFlow \cup Restarts, EnterByFlow(p) PROVE PlaceOK(p)'
    BY <1>1 DEF EnterByFlow
<1>2. ASSUME p \in ByTransaction, NEW t \in Txn, LoadByTransaction(p, t) PROVE PlaceOK(p)'
    BY <1>2 DEF LoadByTransaction
<1>3. ASSUME p \in Starts, StartRead(p) PROVE PlaceOK(p)'
    BY <1>3 DEF StartRead
<1>4. ASSUME p \in Inbound, NEW m \in Msg, NEW t \in Txn, Arrive(p, m, t) PROVE PlaceOK(p)'
    BY <1>4 DEF Arrive
<1>5. CASE LoadByFlow(p)
    BY <1>5 DEF LoadByFlow
<1>6. CASE Select(p)
    BY <1>6 DEF Select
<1>7. CASE Mark(p)
    <2>1. pc[p] = "mark" /\ pc'[p] = "prepare"
        BY <1>7 DEF Mark
    <2> QED
        BY <2>1
<1>8. CASE Prepare(p)
    <2>1. pc[p] = "prepare" /\ pc'[p] \in {"clear", "mint", "append"}
          /\ (pc'[p] = "mint" => txn[p] = Unbound)
        BY <1>8 DEF Prepare
    <2>2. Unbound \notin Txn
        BY DEF Unbound, Txn
    <2> QED
        BY <2>1, <2>2
<1>9. ASSUME NEW t \in Txn, Mint(p, t) PROVE PlaceOK(p)'
    BY <1>9 DEF Mint, SetWorking
<1>10. CASE CreateOutbound(p)
    BY <1>10 DEF CreateOutbound
<1>11. CASE BindOutbound(p)
    BY <1>11 DEF BindOutbound
<1>12. CASE AppendOutbound(p)
    BY <1>12 DEF AppendOutbound, Add
<1>13. CASE Send(p)
    BY <1>13 DEF Send
<1>14. CASE SettleOutbound(p)
    BY <1>14 DEF SettleOutbound
<1>15. CASE DiscardOutbound(p)
    BY <1>15 DEF DiscardOutbound
<1>16. CASE Clear(p)
    BY <1>16 DEF Clear
<1>17. CASE StartSave(p)
    BY <1>17 DEF StartSave
<1>18. CASE Describe(p)
    BY <1>18 DEF Describe
<1>19. CASE Reread(p)
    BY <1>19 DEF Reread
<1>20. CASE Seal(p)
    BY <1>20 DEF Seal
<1>21. CASE Disarm(p)
    BY <1>21 DEF Disarm
<1>22. CASE Unmark(p)
    BY <1>22 DEF Unmark
<1>23. CASE Unbind(p)
    BY <1>23 DEF Unbind
<1>24. CASE Consume(p)
    BY <1>24 DEF Consume
<1>25. CASE Adopt(p)
    BY <1>25 DEF Adopt
<1>26. CASE AdoptBind(p)
    BY <1>26 DEF AdoptBind
<1>27. CASE Match(p)
    BY <1>27 DEF Match
<1>28. CASE RecordInbound(p)
    BY <1>28 DEF RecordInbound, Add
<1>29. CASE DisarmAll(p)
    BY <1>29 DEF DisarmAll
<1>30. CASE Leave(p)
    BY <1>30 DEF Leave
<1>31. CASE StoreFails(p)
    BY <1>31 DEF StoreFails, AfterReject
<1> QED
    BY <1>1, <1>2, <1>3, <1>4, <1>5, <1>6, <1>7, <1>8, <1>9, <1>10, <1>11, <1>12, <1>13,
        <1>14, <1>15, <1>16, <1>17, <1>18, <1>19, <1>20, <1>21, <1>22, <1>23, <1>24, <1>25,
        <1>26, <1>27, <1>28, <1>29, <1>30, <1>31 DEF StepOf, Continue

\* What it has with it there.
LEMMA StepKeepsHands ==
    ASSUME TypeInv, NEW p \in Proc, StepOf(p)
    PROVE  HandsOK(p)'
<1> USE DEF TypeInv, CallsOK, StoresTyped, CallsTyped, GoTo, PlaceOK, HandsOK, OnTxn,
        OnStep, stores, history, Proc, Proceeds
<1>1. ASSUME p \in ByFlow \cup Restarts, EnterByFlow(p) PROVE HandsOK(p)'
    BY <1>1 DEF EnterByFlow
<1>2. ASSUME p \in ByTransaction, NEW t \in Txn, LoadByTransaction(p, t) PROVE HandsOK(p)'
    BY <1>2 DEF LoadByTransaction
<1>3. ASSUME p \in Starts, StartRead(p) PROVE HandsOK(p)'
    BY <1>3 DEF StartRead
<1>4. ASSUME p \in Inbound, NEW m \in Msg, NEW t \in Txn, Arrive(p, m, t) PROVE HandsOK(p)'
    <2>1. pc'[p] \in {"consume", "leave", "match"} /\ txn'[p] = t /\ msg'[p] = m
        BY <1>4 DEF Arrive
    <2> QED
        BY <1>4, <2>1
<1>5. CASE LoadByFlow(p)
    <2>1. p \in ByFlow /\ pc'[p] \in {"select", "leave"}
        BY <1>5 DEF LoadByFlow
    <2> QED
        BY <2>1
<1>6. CASE Select(p)
    BY <1>6, SelectMoves
<1>7. CASE Mark(p)
    BY <1>7 DEF Mark, SetWorking
<1>8. CASE Prepare(p)
    BY <1>8 DEF Prepare
<1>9. ASSUME NEW t \in Txn, Mint(p, t) PROVE HandsOK(p)'
    BY <1>9 DEF Mint, SetWorking
<1>10. CASE CreateOutbound(p)
    BY <1>10 DEF CreateOutbound
<1>11. CASE BindOutbound(p)
    BY <1>11 DEF BindOutbound
<1>12. CASE AppendOutbound(p)
    BY <1>12 DEF AppendOutbound, Add
<1>13. CASE Send(p)
    BY <1>13 DEF Send
<1>14. CASE SettleOutbound(p)
    BY <1>14 DEF SettleOutbound
<1>15. CASE DiscardOutbound(p)
    BY <1>15 DEF DiscardOutbound
<1>16. CASE Clear(p)
    <2>1. /\ p \in Proceeds /\ pc[p] = "clear" /\ txn'[p] = txn[p]
          /\ pc'[p] \in {"clear", "leave"}
        BY <1>16 DEF Clear
    <2> QED
        BY <2>1
<1>17. CASE StartSave(p)
    BY <1>17 DEF StartSave
<1>18. CASE Describe(p)
    BY <1>18 DEF Describe
<1>19. CASE Reread(p)
    BY <1>19 DEF Reread
<1>20. CASE Seal(p)
    BY <1>20 DEF Seal
<1>21. CASE Disarm(p)
    BY <1>21 DEF Disarm
<1>22. CASE Unmark(p)
    BY <1>22 DEF Unmark
<1>23. CASE Unbind(p)
    BY <1>23 DEF Unbind
<1>24. CASE Consume(p)
    <2>1. /\ p \in Inbound /\ pc[p] = "consume" /\ txn'[p] = txn[p] /\ msg'[p] = msg[p]
          /\ pc'[p] \in {"adopt", "leave"}
        BY <1>24 DEF Consume
    <2> QED
        BY <2>1
<1>25. CASE Adopt(p)
    BY <1>25 DEF Adopt
<1>26. CASE AdoptBind(p)
    BY <1>26 DEF AdoptBind
<1>27. CASE Match(p)
    BY <1>27 DEF Match
<1>28. CASE RecordInbound(p)
    BY <1>28 DEF RecordInbound, Add
<1>29. CASE DisarmAll(p)
    BY <1>29 DEF DisarmAll
<1>30. CASE Leave(p)
    BY <1>30 DEF Leave
<1>31. CASE StoreFails(p)
    BY <1>31 DEF StoreFails, AfterReject
<1> QED
    BY <1>1, <1>2, <1>3, <1>4, <1>5, <1>6, <1>7, <1>8, <1>9, <1>10, <1>11, <1>12, <1>13,
        <1>14, <1>15, <1>16, <1>17, <1>18, <1>19, <1>20, <1>21, <1>22, <1>23, <1>24, <1>25,
        <1>26, <1>27, <1>28, <1>29, <1>30, <1>31 DEF StepOf, Continue

----------------------------------------------------------------------------
\* The two constants records start from.
LEMMA NewRecordTyped == NoRecord \in Record /\ NewRecord \in Record
<1>1. <<>> \in Seq(Entry)
    OBVIOUS
<1> QED
    BY <1>1 DEF NoRecord, NewRecord, Record

\* A list of entries written to a record leaves a record.
LEMMA EntriesTyped ==
    ASSUME records \in [Txn -> Record], NEW t \in Txn, NEW s \in Seq(Entry),
           records' = [records EXCEPT ![t].entries = s]
    PROVE  records' \in [Txn -> Record]
<1> DEFINE r == [records[t] EXCEPT !.entries = s]
<1>1. r \in Record
    BY DEF Record
<1>2. records' = [records EXCEPT ![t] = r]
    OBVIOUS
<1> HIDE DEF r
<1> QED
    BY <1>1, <1>2

\* record.repository.addEntry keeps a record a record.
LEMMA AddTyped ==
    ASSUME records \in [Txn -> Record], NEW t \in Txn, NEW e \in Entry, Add(t, e)
    PROVE  records' \in [Txn -> Record]
<1>1. Append(Entries(t), e) \in Seq(Entry)
    BY DEF Entries, Record
<1>2. records' = [records EXCEPT ![t].entries = Append(Entries(t), e)]
    BY DEF Add, Entries
<1> QED
    BY <1>1, <1>2, EntriesTyped

\* RemoveAt, element by element.
LEMMA RemoveAtIs ==
    ASSUME NEW s \in Seq(Entry), NEW i \in 1..Len(s)
    PROVE  /\ RemoveAt(s, i) \in Seq(Entry) /\ Len(RemoveAt(s, i)) = Len(s) - 1
           /\ \A j \in 1..(Len(s) - 1) : RemoveAt(s, i)[j] = IF j < i THEN s[j] ELSE s[j + 1]
<1> DEFINE a == SubSeq(s, 1, i - 1)
           b == SubSeq(s, i + 1, Len(s))
<1>1. a \in Seq(Entry) /\ Len(a) = i - 1 /\ \A j \in 1..(i - 1) : a[j] = s[j]
    OBVIOUS
<1>2. b \in Seq(Entry) /\ Len(b) = Len(s) - i /\ \A j \in 1..(Len(s) - i) : b[j] = s[i + j]
    OBVIOUS
<1>3. RemoveAt(s, i) = a \o b
    BY DEF RemoveAt
<1> HIDE DEF a, b
<1>4. Len(a \o b) = Len(s) - 1 /\ a \o b \in Seq(Entry)
    BY <1>1, <1>2
<1>5. ASSUME NEW j \in 1..(Len(s) - 1) PROVE (a \o b)[j] = IF j < i THEN s[j] ELSE s[j + 1]
    <2>1. CASE j < i
        BY <1>1, <1>2, <2>1
    <2>2. CASE ~(j < i)
        <3>1. (a \o b)[j] = b[j - (i - 1)]
            BY <1>1, <1>2, <2>2
        <3> QED
            BY <1>2, <2>2, <3>1
    <2> QED
        BY <2>1, <2>2
<1> QED
    BY <1>3, <1>4, <1>5

\* The list a discard leaves.
LEMMA WithoutTyped ==
    ASSUME NEW s \in Seq(Entry), NEW p PROVE Without(s, p) \in Seq(Entry)
<1>1. CASE \E i \in DOMAIN s : s[i].id = p
    <2>1. PICK i \in DOMAIN s : i = CHOOSE k \in DOMAIN s : s[k].id = p
        BY <1>1
    <2>2. Without(s, p) = RemoveAt(s, i)
        BY <1>1, <2>1 DEF Without
    <2> QED
        BY <2>1, <2>2, RemoveAtIs
<1>2. CASE ~\E i \in DOMAIN s : s[i].id = p
    BY <1>2 DEF Without
<1> QED
    BY <1>1, <1>2

\* Records stay records.
LEMMA StepKeepsRecords ==
    ASSUME TypeInv, NEW p \in Proc, StepOf(p)
    PROVE  records' \in [Txn -> Record]
<1> USE StepsAssumption DEF TypeInv, StoresTyped, stores, history
<1>1. ASSUME p \in ByFlow \cup Restarts, EnterByFlow(p) PROVE records' \in [Txn -> Record]
    BY <1>1 DEF EnterByFlow
<1>2. ASSUME p \in ByTransaction, NEW t \in Txn, LoadByTransaction(p, t)
      PROVE  records' \in [Txn -> Record]
    BY <1>2 DEF LoadByTransaction
<1>3. ASSUME p \in Starts, StartRead(p) PROVE records' \in [Txn -> Record]
    BY <1>3 DEF StartRead
<1>4. ASSUME p \in Inbound, NEW m \in Msg, NEW t \in Txn, Arrive(p, m, t)
      PROVE  records' \in [Txn -> Record]
    BY <1>4 DEF Arrive
<1>5. CASE LoadByFlow(p) \/ Select(p) \/ Mark(p) \/ Prepare(p)
    BY <1>5 DEF LoadByFlow, Select, Mark, Prepare, SetWorking
<1>6. ASSUME NEW t \in Txn, Mint(p, t) PROVE records' \in [Txn -> Record]
    BY <1>6 DEF Mint, SetWorking
<1>7. CASE CreateOutbound(p)
    <2>1. records' = [records EXCEPT ![txn[p]] = NewRecord]
        BY <1>7 DEF CreateOutbound
    <2> QED
        BY <2>1, NewRecordTyped
<1>8. CASE BindOutbound(p) \/ Send(p) \/ Clear(p)
    BY <1>8 DEF BindOutbound, Send, Clear
<1>9. CASE AppendOutbound(p)
    <2>1. want[p] \in Step /\ txn[p] \in Txn
        BY <1>9 DEF AppendOutbound, CallsOK, HandsOK, OnTxn, OnStep
    <2> DEFINE e == [step |-> want[p], id |-> p, state |-> "in_flight"]
    <2>2. e \in Entry
        BY <2>1 DEF Entry
    <2>3. Add(txn[p], e)
        BY <1>9 DEF AppendOutbound
    <2> HIDE DEF e
    <2> QED
        BY <2>1, <2>2, <2>3, AddTyped
<1>10. CASE SettleOutbound(p)
    <2> DEFINE settle(e) == [e EXCEPT !.state = IF pc[p] = "settle" THEN "settled" ELSE "failed"]
              s == [i \in DOMAIN Entries(txn[p]) |->
                      IF Entries(txn[p])[i].id = p THEN settle(Entries(txn[p])[i]) ELSE Entries(txn[p])[i]]
    <2>1. txn[p] \in Txn
        BY <1>10 DEF SettleOutbound, CallsOK, HandsOK, OnTxn
    <2>2. Entries(txn[p]) \in Seq(Entry)
        BY <2>1 DEF Entries, Record
    <2>3. \A e \in Entry : settle(e) \in Entry
        BY DEF Entry
    <2>4. s \in Seq(Entry)
        BY <2>2, <2>3
    <2>5. records' = [records EXCEPT ![txn[p]].entries = s]
        BY <1>10 DEF SettleOutbound, Entries
    <2> HIDE DEF s, settle
    <2> QED
        BY <2>1, <2>4, <2>5, EntriesTyped
<1>11. CASE DiscardOutbound(p)
    <2>1. txn[p] \in Txn
        BY <1>11 DEF DiscardOutbound, CallsOK, HandsOK, OnTxn
    <2>2. Without(Entries(txn[p]), p) \in Seq(Entry)
        BY <2>1, WithoutTyped DEF Entries, Record
    <2>3. records' = [records EXCEPT ![txn[p]].entries = Without(Entries(txn[p]), p)]
        BY <1>11 DEF DiscardOutbound, Entries
    <2> QED
        BY <2>1, <2>2, <2>3, EntriesTyped
<1>12. CASE StartSave(p) \/ Describe(p) \/ Leave(p)
    BY <1>12 DEF StartSave, Describe, Leave
<1>13. CASE Reread(p) \/ Disarm(p) \/ Unmark(p) \/ Unbind(p)
    BY <1>13 DEF Reread, Disarm, Unmark, Unbind
<1>14. CASE Seal(p)
    <2>1. txn[p] \in Txn
        BY <1>14 DEF Seal, CallsOK, HandsOK
    <2> DEFINE r == [records[txn[p]] EXCEPT !.abandoned = TRUE]
    <2>2. r \in Record
        BY <2>1 DEF Record
    <2>3. records' = [records EXCEPT ![txn[p]] = r]
        BY <1>14 DEF Seal
    <2> HIDE DEF r
    <2> QED
        BY <2>2, <2>3
<1>15. CASE Adopt(p)
    <2>1. records' = [records EXCEPT ![txn[p]] = NewRecord]
        BY <1>15 DEF Adopt
    <2> QED
        BY <2>1, NewRecordTyped
<1>16. CASE Consume(p) \/ AdoptBind(p) \/ Match(p) \/ DisarmAll(p)
    BY <1>16 DEF Consume, AdoptBind, Match, DisarmAll
<1>17. CASE RecordInbound(p)
    <2>1. p \in Inbound /\ msg[p] \in Msg /\ txn[p] \in Txn /\ pc[p] \in {"ack", "nack"}
        BY <1>17 DEF RecordInbound, CallsOK, PlaceOK, HandsOK, OnTxn, OnStep, Proc, Proceeds
    <2> DEFINE e == [step |-> ActionOf[msg[p]], id |-> msg[p], state |-> pc[p]]
    <2>2. e \in Entry
        BY <2>1, MsgAssumption DEF Entry
    <2>3. Add(txn[p], e)
        BY <1>17 DEF RecordInbound
    <2> HIDE DEF e
    <2> QED
        BY <2>1, <2>2, <2>3, AddTyped
<1>18. CASE StoreFails(p)
    BY <1>18 DEF StoreFails, AfterReject
<1> QED
    BY <1>1, <1>2, <1>3, <1>4, <1>5, <1>6, <1>7, <1>8, <1>9, <1>10, <1>11, <1>12, <1>13,
        <1>14, <1>15, <1>16, <1>17, <1>18 DEF StepOf, Continue

\* So do the other stores.
LEMMA StepKeepsStores ==
    ASSUME TypeInv, NEW p \in Proc, StepOf(p)
    PROVE  StoresTyped'
<1> USE DEF TypeInv, StoresTyped, CallsTyped, GoTo, stores, history, Unbound
<1>0. records' \in [Txn -> Record]
    BY StepKeepsRecords
<1>1. ASSUME p \in ByFlow \cup Restarts, EnterByFlow(p) PROVE StoresTyped'
    BY <1>0, <1>1 DEF EnterByFlow
<1>2. ASSUME p \in ByTransaction, NEW t \in Txn, LoadByTransaction(p, t) PROVE StoresTyped'
    BY <1>0, <1>2 DEF LoadByTransaction
<1>3. ASSUME p \in Starts, StartRead(p) PROVE StoresTyped'
    BY <1>0, <1>3 DEF StartRead
<1>4. ASSUME p \in Inbound, NEW m \in Msg, NEW t \in Txn, Arrive(p, m, t) PROVE StoresTyped'
    BY <1>0, <1>4 DEF Arrive
<1>5. CASE LoadByFlow(p)
    BY <1>0, <1>5 DEF LoadByFlow
<1>6. CASE Select(p)
    BY <1>0, <1>6 DEF Select
<1>7. CASE Mark(p)
    BY <1>0, <1>7 DEF Mark, SetWorking
<1>8. CASE Prepare(p)
    BY <1>0, <1>8 DEF Prepare
<1>9. ASSUME NEW t \in Txn, Mint(p, t) PROVE StoresTyped'
    BY <1>0, <1>9 DEF Mint, SetWorking
<1>10. CASE CreateOutbound(p)
    BY <1>0, <1>10 DEF CreateOutbound
<1>11. CASE BindOutbound(p)
    BY <1>0, <1>11 DEF BindOutbound
<1>12. CASE AppendOutbound(p)
    BY <1>0, <1>12 DEF AppendOutbound, Add
<1>13. CASE Send(p)
    BY <1>0, <1>13 DEF Send
<1>14. CASE SettleOutbound(p)
    BY <1>0, <1>14 DEF SettleOutbound
<1>15. CASE DiscardOutbound(p)
    BY <1>0, <1>15 DEF DiscardOutbound
<1>16. CASE Clear(p)
    BY <1>0, <1>16 DEF Clear
<1>17. CASE StartSave(p)
    BY <1>0, <1>17 DEF StartSave
<1>18. CASE Describe(p)
    BY <1>0, <1>18 DEF Describe
<1>19. CASE Reread(p)
    BY <1>0, <1>19 DEF Reread
<1>20. CASE Seal(p)
    BY <1>0, <1>20 DEF Seal
<1>21. CASE Disarm(p)
    BY <1>0, <1>21 DEF Disarm
<1>22. CASE Unmark(p)
    BY <1>0, <1>22 DEF Unmark
<1>23. CASE Unbind(p)
    BY <1>0, <1>23 DEF Unbind
<1>24. CASE Consume(p)
    BY <1>0, <1>24 DEF Consume
<1>25. CASE Adopt(p)
    BY <1>0, <1>25 DEF Adopt
<1>26. CASE AdoptBind(p)
    BY <1>0, <1>26 DEF AdoptBind
<1>27. CASE Match(p)
    BY <1>0, <1>27 DEF Match
<1>28. CASE RecordInbound(p)
    BY <1>0, <1>28 DEF RecordInbound, Add
<1>29. CASE DisarmAll(p)
    BY <1>0, <1>29 DEF DisarmAll
<1>30. CASE Leave(p)
    BY <1>0, <1>30 DEF Leave
<1>31. CASE StoreFails(p)
    BY <1>0, <1>31 DEF StoreFails, AfterReject
<1> QED
    BY <1>0, <1>1, <1>2, <1>3, <1>4, <1>5, <1>6, <1>7, <1>8, <1>9, <1>10, <1>11, <1>12, <1>13,
        <1>14, <1>15, <1>16, <1>17, <1>18, <1>19, <1>20, <1>21, <1>22, <1>23, <1>24, <1>25,
        <1>26, <1>27, <1>28, <1>29, <1>30, <1>31 DEF StepOf, Continue

\* What calls have with them.
LEMMA StepKeepsCalls ==
    ASSUME TypeInv, NEW p \in Proc, StepOf(p)
    PROVE  CallsTyped'
<1> USE DEF TypeInv, StoresTyped, CallsTyped, GoTo, Place, OnStep, OnTxn, stores, history,
        Unbound
<1>1. ASSUME p \in ByFlow \cup Restarts, EnterByFlow(p) PROVE CallsTyped'
    <2>1. \E x \in Place : pc' = [pc EXCEPT ![p] = x]
        BY <1>1 DEF EnterByFlow
    <2>2. runLock' = p /\ UNCHANGED <<txn, want, marked, msg>>
        BY <1>1 DEF EnterByFlow
    <2> QED
        BY <2>1, <2>2 DEF Proc
<1>2. ASSUME p \in ByTransaction, NEW t \in Txn, LoadByTransaction(p, t) PROVE CallsTyped'
    <2>1. \E x \in Place : pc' = [pc EXCEPT ![p] = x]
        BY <1>2 DEF LoadByTransaction
    <2>2. NextStep(Entries(t)) \in Nat
        BY NextStepIsNumber DEF Entries, Record
    <2>3. txn' = [txn EXCEPT ![p] = t] /\ want' = [want EXCEPT ![p] = NextStep(Entries(t))]
        BY <1>2 DEF LoadByTransaction
    <2>4. UNCHANGED <<runLock, marked, msg>>
        BY <1>2 DEF LoadByTransaction
    <2> QED
        BY <2>1, <2>2, <2>3, <2>4
<1>3. ASSUME p \in Starts, StartRead(p) PROVE CallsTyped'
    BY <1>3 DEF StartRead
<1>4. ASSUME p \in Inbound, NEW m \in Msg, NEW t \in Txn, Arrive(p, m, t) PROVE CallsTyped'
    <2>1. \E x \in Place : pc' = [pc EXCEPT ![p] = x]
        BY <1>4 DEF Arrive
    <2>2. /\ txn' = [txn EXCEPT ![p] = t] /\ msg' = [msg EXCEPT ![p] = m]
          /\ UNCHANGED <<runLock, want, marked>>
        BY <1>4 DEF Arrive
    <2> QED
        BY <1>4, <2>1, <2>2
<1>5. CASE LoadByFlow(p)
    <2>1. \E x \in Place : pc' = [pc EXCEPT ![p] = x]
        BY <1>5 DEF LoadByFlow
    <2>2. binding # Unbound => NextStep(Entries(binding)) \in Nat
        BY NextStepIsNumber DEF Entries, Record
    <2>3. \E n \in Nat : want' = [want EXCEPT ![p] = n]
        BY <1>5, <2>2 DEF LoadByFlow
    <2>4. txn' = [txn EXCEPT ![p] = binding] /\ UNCHANGED <<runLock, marked, msg>>
        BY <1>5 DEF LoadByFlow
    <2> QED
        BY <2>1, <2>3, <2>4
<1>6. CASE Select(p)
    BY <1>6 DEF Select
<1>7. CASE Mark(p)
    BY <1>7 DEF Mark, SetWorking
<1>8. CASE Prepare(p)
    BY <1>8 DEF Prepare
<1>9. ASSUME NEW t \in Txn, Mint(p, t) PROVE CallsTyped'
    BY <1>9 DEF Mint, SetWorking
<1>10. CASE CreateOutbound(p)
    BY <1>10 DEF CreateOutbound
<1>11. CASE BindOutbound(p)
    BY <1>11 DEF BindOutbound
<1>12. CASE AppendOutbound(p)
    BY <1>12 DEF AppendOutbound, Add
<1>13. CASE Send(p)
    BY <1>13 DEF Send
<1>14. CASE SettleOutbound(p)
    BY <1>14 DEF SettleOutbound
<1>15. CASE DiscardOutbound(p)
    BY <1>15 DEF DiscardOutbound
<1>16. CASE Clear(p)
    BY <1>16 DEF Clear
<1>17. CASE StartSave(p)
    BY <1>17 DEF StartSave
<1>18. CASE Describe(p)
    BY <1>18 DEF Describe
<1>19. CASE Reread(p)
    BY <1>19 DEF Reread
<1>20. CASE Seal(p)
    BY <1>20 DEF Seal
<1>21. CASE Disarm(p)
    BY <1>21 DEF Disarm
<1>22. CASE Unmark(p)
    BY <1>22 DEF Unmark
<1>23. CASE Unbind(p)
    BY <1>23 DEF Unbind
<1>24. CASE Consume(p)
    BY <1>24 DEF Consume
<1>25. CASE Adopt(p)
    BY <1>25 DEF Adopt
<1>26. CASE AdoptBind(p)
    BY <1>26 DEF AdoptBind
<1>27. CASE Match(p)
    BY <1>27 DEF Match
<1>28. CASE RecordInbound(p)
    BY <1>28 DEF RecordInbound, Add
<1>29. CASE DisarmAll(p)
    BY <1>29 DEF DisarmAll
<1>30. CASE Leave(p)
    BY <1>30 DEF Leave
<1>31. CASE StoreFails(p)
    BY <1>31 DEF StoreFails, AfterReject
<1> QED
    BY <1>1, <1>2, <1>3, <1>4, <1>5, <1>6, <1>7, <1>8, <1>9, <1>10, <1>11, <1>12, <1>13,
        <1>14, <1>15, <1>16, <1>17, <1>18, <1>19, <1>20, <1>21, <1>22, <1>23, <1>24, <1>25,
        <1>26, <1>27, <1>28, <1>29, <1>30, <1>31 DEF StepOf, Continue

\* The history.
LEMMA StepKeepsHistory ==
    ASSUME TypeInv, NEW p \in Proc, StepOf(p)
    PROVE  HistoryTyped'
<1> USE StepsAssumption DEF TypeInv, HistoryTyped, CallsOK, PlaceOK, HandsOK, CallsTyped,
        OnStep, OnTxn, stores, history, Unbound
<1>1. ASSUME p \in ByFlow \cup Restarts, EnterByFlow(p) PROVE HistoryTyped'
    BY <1>1 DEF EnterByFlow
<1>2. ASSUME p \in ByTransaction, NEW t \in Txn, LoadByTransaction(p, t) PROVE HistoryTyped'
    BY <1>2 DEF LoadByTransaction
<1>3. ASSUME p \in Starts, StartRead(p) PROVE HistoryTyped'
    BY <1>3 DEF StartRead
<1>4. ASSUME p \in Inbound, NEW m \in Msg, NEW t \in Txn, Arrive(p, m, t) PROVE HistoryTyped'
    BY <1>4 DEF Arrive
<1>5. CASE LoadByFlow(p)
    BY <1>5 DEF LoadByFlow
<1>6. CASE Select(p)
    BY <1>6 DEF Select
<1>7. CASE Mark(p)
    BY <1>7 DEF Mark, SetWorking
<1>8. CASE Prepare(p)
    BY <1>8 DEF Prepare
<1>9. ASSUME NEW t \in Txn, Mint(p, t) PROVE HistoryTyped'
    BY <1>9 DEF Mint, SetWorking
<1>10. CASE CreateOutbound(p)
    BY <1>10 DEF CreateOutbound
<1>11. CASE BindOutbound(p)
    BY <1>11 DEF BindOutbound
<1>12. CASE AppendOutbound(p)
    BY <1>12 DEF AppendOutbound, Add
<1>13. CASE Send(p)
    <2>1. p \in Proceeds /\ txn[p] \in Txn /\ want[p] \in Step
        BY <1>13 DEF Send, Proc, Proceeds
    <2> DEFINE w == [txn |-> txn[p], step |-> want[p], by |-> p]
    <2>2. w \in [txn : Txn, step : Step, by : Proceeds]
        BY <2>1
    <2>3. (wire' = wire \cup {w} \/ wire' = wire) /\ UNCHANGED <<known, late, mishaps>>
        BY <1>13 DEF Send
    <2> HIDE DEF w
    <2>4. wire' \subseteq [txn : Txn, step : Step, by : Proceeds]
        BY <2>2, <2>3
    <2> QED
        BY <2>3, <2>4
<1>14. CASE SettleOutbound(p)
    BY <1>14 DEF SettleOutbound
<1>15. CASE DiscardOutbound(p)
    BY <1>15 DEF DiscardOutbound
<1>16. CASE Clear(p)
    BY <1>16 DEF Clear
<1>17. CASE StartSave(p)
    BY <1>17 DEF StartSave
<1>18. CASE Describe(p)
    BY <1>18 DEF Describe
<1>19. CASE Reread(p)
    BY <1>19 DEF Reread
<1>20. CASE Seal(p)
    BY <1>20 DEF Seal, UnderWayOn
<1>21. CASE Disarm(p)
    BY <1>21 DEF Disarm
<1>22. CASE Unmark(p)
    BY <1>22 DEF Unmark
<1>23. CASE Unbind(p)
    BY <1>23 DEF Unbind
<1>24. CASE Consume(p)
    BY <1>24 DEF Consume
<1>25. CASE Adopt(p)
    BY <1>25 DEF Adopt
<1>26. CASE AdoptBind(p)
    BY <1>26 DEF AdoptBind
<1>27. CASE Match(p)
    BY <1>27 DEF Match
<1>28. CASE RecordInbound(p)
    BY <1>28 DEF RecordInbound, Add
<1>29. CASE DisarmAll(p)
    BY <1>29 DEF DisarmAll
<1>30. CASE Leave(p)
    BY <1>30 DEF Leave
<1>31. CASE StoreFails(p)
    BY <1>31 DEF StoreFails, AfterReject
<1> QED
    BY <1>1, <1>2, <1>3, <1>4, <1>5, <1>6, <1>7, <1>8, <1>9, <1>10, <1>11, <1>12, <1>13,
        <1>14, <1>15, <1>16, <1>17, <1>18, <1>19, <1>20, <1>21, <1>22, <1>23, <1>24, <1>25,
        <1>26, <1>27, <1>28, <1>29, <1>30, <1>31 DEF StepOf, Continue

----------------------------------------------------------------------------
LEMMA TypeInit == Init => TypeInv
<1> SUFFICES ASSUME Init PROVE TypeInv
    OBVIOUS
<1>1. StoresTyped
    BY NewRecordTyped DEF Init, StoresTyped
<1>2. CallsTyped
    BY DEF Init, CallsTyped, Place
<1>3. HistoryTyped
    BY DEF Init, HistoryTyped
<1>4. CallsOK
    BY DEF Init, CallsOK, PlaceOK, HandsOK, OnStep, OnTxn, Proc, Proceeds
<1> QED
    BY <1>1, <1>2, <1>3, <1>4 DEF TypeInv

\* A crash takes every call that is under way with it.
LEMMA CrashIs ==
    ASSUME CallsTyped, Crash
    PROVE  /\ \A q \in Proc : pc'[q] = IF pc[q] = "idle" THEN "idle" ELSE "done"
           /\ \A q \in Proc : marked'[q] = {}
           /\ runLock' = Nobody /\ mishaps' = mishaps + 1
           /\ UNCHANGED <<stores, txn, want, msg, known, wire, late>>
    BY DEF CallsTyped, Crash

LEMMA TypeStep == ASSUME TypeInv, [Next]_vars PROVE TypeInv'
<1>1. ASSUME NEW p \in Proc, StepOf(p) PROVE TypeInv'
    <2>1. StoresTyped' /\ CallsTyped' /\ HistoryTyped'
        BY <1>1, StepKeepsStores, StepKeepsCalls, StepKeepsHistory
    <2>2. ASSUME NEW q \in Proc PROVE PlaceOK(q)' /\ HandsOK(q)'
        <3>1. CASE q = p
            BY <1>1, <3>1, StepKeepsPlace, StepKeepsHands
        <3>2. CASE q # p
            <4>1. Apart(p)
                BY <1>1, StepIsApart DEF TypeInv
            <4> QED
                BY <3>2, <4>1 DEF Apart, TypeInv, CallsOK, PlaceOK, HandsOK
        <3> QED
            BY <3>1, <3>2
    <2> QED
        BY <2>1, <2>2 DEF TypeInv, CallsOK
<1>2. CASE Crash
    <2>1. StoresTyped' /\ HistoryTyped'
        BY <1>2 DEF Crash, TypeInv, stores, StoresTyped, HistoryTyped
    <2>2. CallsTyped'
        BY <1>2 DEF Crash, TypeInv, CallsTyped, Place
    <2>3. ASSUME NEW q \in Proc PROVE PlaceOK(q)' /\ HandsOK(q)'
        <3>1. pc'[q] = (IF pc[q] = "idle" THEN "idle" ELSE "done") /\ UNCHANGED <<txn, want, msg>>
            BY <1>2, CrashIs DEF TypeInv
        <3>2. PlaceOK(q) /\ HandsOK(q)
            BY DEF TypeInv, CallsOK
        <3>3. PlaceOK(q)'
            BY <3>1, <3>2 DEF PlaceOK, OnStep, OnTxn
        <3>4. HandsOK(q)'
            BY <3>1, <3>2 DEF HandsOK, OnStep, OnTxn
        <3> QED
            BY <3>3, <3>4
    <2> QED
        BY <2>1, <2>2, <2>3 DEF TypeInv, CallsOK
<1>3. CASE UNCHANGED vars
    BY <1>3 DEF vars, stores, history, TypeInv, StoresTyped, CallsTyped, HistoryTyped,
                CallsOK, PlaceOK, HandsOK
<1> QED
    BY <1>1, <1>2, <1>3, NextIsAStep

\* Every variable keeps its type, and a call is only ever at the places of its
\* tool, with a transaction and a step in hand wherever the code at that place
\* uses them.
THEOREM FlowRunTypeCorrect == Spec => []TypeInv
<1>1. TypeInv /\ [Next]_vars => TypeInv'
    BY TypeStep
<1> QED
    BY <1>1, TypeInit, PTL DEF Spec

----------------------------------------------------------------------------
\* What a call's step does to the run lock.
LockMove(p) ==
    /\ runLock' # runLock => runLock \in {Nobody, p}
    /\ p \in ByFlow \cup Restarts =>
         \/ runLock' = p
         \/ pc[p] \notin {"idle", "done"} /\ runLock' = runLock
         \/ pc'[p] = "done"

\* A call takes the run lock when it is free and holds it until it is done.
LEMMA StepMovesLock ==
    ASSUME TypeInv, NEW p \in Proc, StepOf(p)
    PROVE  LockMove(p)
<1> USE DEF TypeInv, CallsTyped, LockMove, GoTo, stores, history, Proceeds
<1>1. ASSUME p \in ByFlow \cup Restarts, EnterByFlow(p) PROVE LockMove(p)
    BY <1>1 DEF EnterByFlow
<1>2. ASSUME p \in ByTransaction, NEW t \in Txn, LoadByTransaction(p, t) PROVE LockMove(p)
    BY <1>2 DEF LoadByTransaction
<1>3. ASSUME p \in Starts, StartRead(p) PROVE LockMove(p)
    BY <1>3 DEF StartRead
<1>4. ASSUME p \in Inbound, NEW m \in Msg, NEW t \in Txn, Arrive(p, m, t) PROVE LockMove(p)
    BY <1>4 DEF Arrive
<1>5. CASE LoadByFlow(p)
    BY <1>5 DEF LoadByFlow
<1>6. CASE Select(p)
    BY <1>6 DEF Select
<1>7. CASE Mark(p)
    BY <1>7 DEF Mark, SetWorking
<1>8. CASE Prepare(p)
    BY <1>8 DEF Prepare
<1>9. ASSUME NEW t \in Txn, Mint(p, t) PROVE LockMove(p)
    BY <1>9 DEF Mint, SetWorking
<1>10. CASE CreateOutbound(p)
    BY <1>10 DEF CreateOutbound
<1>11. CASE BindOutbound(p)
    BY <1>11 DEF BindOutbound
<1>12. CASE AppendOutbound(p)
    BY <1>12 DEF AppendOutbound, Add
<1>13. CASE Send(p)
    BY <1>13 DEF Send
<1>14. CASE SettleOutbound(p)
    BY <1>14 DEF SettleOutbound
<1>15. CASE DiscardOutbound(p)
    BY <1>15 DEF DiscardOutbound
<1>16. CASE Clear(p)
    BY <1>16 DEF Clear
<1>17. CASE StartSave(p)
    BY <1>17 DEF StartSave
<1>18. CASE Describe(p)
    BY <1>18 DEF Describe
<1>19. CASE Reread(p)
    BY <1>19 DEF Reread
<1>20. CASE Seal(p)
    BY <1>20 DEF Seal
<1>21. CASE Disarm(p)
    BY <1>21 DEF Disarm
<1>22. CASE Unmark(p)
    BY <1>22 DEF Unmark
<1>23. CASE Unbind(p)
    BY <1>23 DEF Unbind
<1>24. CASE Consume(p)
    BY <1>24 DEF Consume
<1>25. CASE Adopt(p)
    BY <1>25 DEF Adopt
<1>26. CASE AdoptBind(p)
    BY <1>26 DEF AdoptBind
<1>27. CASE Match(p)
    BY <1>27 DEF Match
<1>28. CASE RecordInbound(p)
    BY <1>28 DEF RecordInbound, Add
<1>29. CASE DisarmAll(p)
    BY <1>29 DEF DisarmAll
<1>30. CASE Leave(p)
    BY <1>30 DEF Leave
<1>31. CASE StoreFails(p)
    BY <1>31 DEF StoreFails, AfterReject
<1> QED
    BY <1>1, <1>2, <1>3, <1>4, <1>5, <1>6, <1>7, <1>8, <1>9, <1>10, <1>11, <1>12, <1>13,
        <1>14, <1>15, <1>16, <1>17, <1>18, <1>19, <1>20, <1>21, <1>22, <1>23, <1>24, <1>25,
        <1>26, <1>27, <1>28, <1>29, <1>30, <1>31 DEF StepOf, Continue

LEMMA LockStep == ASSUME TypeInv, LockOK, [Next]_vars PROVE LockOK'
<1>1. ASSUME NEW p \in Proc, StepOf(p), NEW q \in ByFlow \cup Restarts, pc'[q] \notin {"idle", "done"}
      PROVE  runLock' = q
    <2>1. LockMove(p) /\ Apart(p) /\ q \in Proc
        BY <1>1, StepMovesLock, StepIsApart DEF TypeInv, Proc, Proceeds
    <2>2. CASE q = p
        BY <1>1, <2>1, <2>2 DEF LockMove, LockOK
    <2>3. CASE q # p
        <3>1. runLock = q
            BY <1>1, <2>1, <2>3 DEF Apart, LockOK
        <3> QED
            BY <2>1, <2>3, <3>1 DEF LockMove
    <2> QED
        BY <2>2, <2>3
<1>2. CASE Crash
    BY <1>2, CrashIs DEF TypeInv, LockOK, Proc, Proceeds
<1>3. CASE UNCHANGED vars
    BY <1>3 DEF vars, LockOK
<1> QED
    BY <1>1, <1>2, <1>3, NextIsAStep DEF LockOK

----------------------------------------------------------------------------
\* What it does to the wire.
WireMove(p) ==
    \/ wire' = wire /\ (pc'[p] \in Unsent => pc[p] \in Unsent)
    \/ /\ wire' = wire \cup {[txn |-> txn[p], step |-> want[p], by |-> p]}
       /\ pc[p] = "send" /\ pc'[p] \notin Unsent

\* Only Send puts a message on the wire, under its caller's name.
LEMMA StepMovesWire ==
    ASSUME TypeInv, NEW p \in Proc, StepOf(p)
    PROVE  WireMove(p)
<1> USE DEF TypeInv, CallsTyped, WireMove, Unsent, GoTo, stores, history
<1>1. ASSUME p \in ByFlow \cup Restarts, EnterByFlow(p) PROVE WireMove(p)
    BY <1>1 DEF EnterByFlow
<1>2. ASSUME p \in ByTransaction, NEW t \in Txn, LoadByTransaction(p, t) PROVE WireMove(p)
    BY <1>2 DEF LoadByTransaction
<1>3. ASSUME p \in Starts, StartRead(p) PROVE WireMove(p)
    BY <1>3 DEF StartRead
<1>4. ASSUME p \in Inbound, NEW m \in Msg, NEW t \in Txn, Arrive(p, m, t) PROVE WireMove(p)
    BY <1>4 DEF Arrive
<1>5. CASE LoadByFlow(p)
    BY <1>5 DEF LoadByFlow
<1>6. CASE Select(p)
    BY <1>6 DEF Select
<1>7. CASE Mark(p)
    BY <1>7 DEF Mark, SetWorking
<1>8. CASE Prepare(p)
    BY <1>8 DEF Prepare
<1>9. ASSUME NEW t \in Txn, Mint(p, t) PROVE WireMove(p)
    BY <1>9 DEF Mint, SetWorking
<1>10. CASE CreateOutbound(p)
    BY <1>10 DEF CreateOutbound
<1>11. CASE BindOutbound(p)
    BY <1>11 DEF BindOutbound
<1>12. CASE AppendOutbound(p)
    BY <1>12 DEF AppendOutbound, Add
<1>13. CASE Send(p)
    BY <1>13 DEF Send
<1>14. CASE SettleOutbound(p)
    BY <1>14 DEF SettleOutbound
<1>15. CASE DiscardOutbound(p)
    BY <1>15 DEF DiscardOutbound
<1>16. CASE Clear(p)
    BY <1>16 DEF Clear
<1>17. CASE StartSave(p)
    BY <1>17 DEF StartSave
<1>18. CASE Describe(p)
    BY <1>18 DEF Describe
<1>19. CASE Reread(p)
    BY <1>19 DEF Reread
<1>20. CASE Seal(p)
    BY <1>20 DEF Seal
<1>21. CASE Disarm(p)
    BY <1>21 DEF Disarm
<1>22. CASE Unmark(p)
    BY <1>22 DEF Unmark
<1>23. CASE Unbind(p)
    BY <1>23 DEF Unbind
<1>24. CASE Consume(p)
    BY <1>24 DEF Consume
<1>25. CASE Adopt(p)
    BY <1>25 DEF Adopt
<1>26. CASE AdoptBind(p)
    BY <1>26 DEF AdoptBind
<1>27. CASE Match(p)
    BY <1>27 DEF Match
<1>28. CASE RecordInbound(p)
    BY <1>28 DEF RecordInbound, Add
<1>29. CASE DisarmAll(p)
    BY <1>29 DEF DisarmAll
<1>30. CASE Leave(p)
    BY <1>30 DEF Leave
<1>31. CASE StoreFails(p)
    BY <1>31 DEF StoreFails, AfterReject
<1> QED
    BY <1>1, <1>2, <1>3, <1>4, <1>5, <1>6, <1>7, <1>8, <1>9, <1>10, <1>11, <1>12, <1>13,
        <1>14, <1>15, <1>16, <1>17, <1>18, <1>19, <1>20, <1>21, <1>22, <1>23, <1>24, <1>25,
        <1>26, <1>27, <1>28, <1>29, <1>30, <1>31 DEF StepOf, Continue

LEMMA SendStep == ASSUME TypeInv, SendOK, [Next]_vars PROVE SendOK'
<1>1. ASSUME NEW p \in Proc, StepOf(p), NEW q \in Proceeds, pc'[q] \in Unsent, NEW w \in wire'
      PROVE  w.by # q
    <2>1. WireMove(p) /\ Apart(p) /\ q \in Proc
        BY <1>1, StepMovesWire, StepIsApart DEF TypeInv, Proc
    <2>2. pc[q] \in Unsent
        BY <1>1, <2>1 DEF WireMove, Apart
    <2>3. CASE w \in wire
        BY <2>2, <2>3 DEF SendOK
    <2>4. CASE w \notin wire
        BY <1>1, <2>1, <2>4 DEF WireMove
    <2> QED
        BY <2>3, <2>4
<1>2. CASE Crash
    BY <1>2, CrashIs DEF TypeInv, SendOK, Unsent, Proc
<1>3. CASE UNCHANGED vars
    BY <1>3 DEF vars, SendOK, history
<1> QED
    BY <1>1, <1>2, <1>3, NextIsAStep DEF SendOK

----------------------------------------------------------------------------
\* What it does to the markers.
MarkMove(p) ==
    /\ mishaps' \in {mishaps, mishaps + 1}
    /\ \A l \in Txn \cup {Unbound} : status'[l] = "WORKING" =>
         \/ p \in Proceeds /\ l \in marked'[p]
         \/ status[l] = "WORKING" /\ (mishaps' = mishaps /\ l \in marked[p] => l \in marked'[p])

\* A marker reads WORKING for the call that set it, until a call clears it.
LEMMA StepMovesMarkers ==
    ASSUME TypeInv, NEW p \in Proc, StepOf(p)
    PROVE  MarkMove(p)
<1> USE DEF TypeInv, StoresTyped, CallsTyped, MarkMove, GoTo, stores, history
<1>1. ASSUME p \in ByFlow \cup Restarts, EnterByFlow(p) PROVE MarkMove(p)
    BY <1>1 DEF EnterByFlow
<1>2. ASSUME p \in ByTransaction, NEW t \in Txn, LoadByTransaction(p, t) PROVE MarkMove(p)
    BY <1>2 DEF LoadByTransaction
<1>3. ASSUME p \in Starts, StartRead(p) PROVE MarkMove(p)
    BY <1>3 DEF StartRead
<1>4. ASSUME p \in Inbound, NEW m \in Msg, NEW t \in Txn, Arrive(p, m, t) PROVE MarkMove(p)
    BY <1>4 DEF Arrive
<1>5. CASE LoadByFlow(p)
    BY <1>5 DEF LoadByFlow
<1>6. CASE Select(p)
    BY <1>6 DEF Select
<1>7. CASE Mark(p)
    <2>1. p \in Proceeds
        BY <1>7 DEF Mark, CallsOK, PlaceOK, Proc
    <2>2. SetWorking(p, txn[p]) /\ UNCHANGED mishaps
        BY <1>7 DEF Mark
    <2> QED
        BY <2>1, <2>2 DEF SetWorking
<1>8. CASE Prepare(p)
    BY <1>8 DEF Prepare
<1>9. ASSUME NEW t \in Txn, Mint(p, t) PROVE MarkMove(p)
    <2>1. p \in Proceeds
        BY <1>9 DEF Mint, CallsOK, PlaceOK, Proc
    <2>2. SetWorking(p, t) /\ UNCHANGED mishaps
        BY <1>9 DEF Mint
    <2> QED
        BY <2>1, <2>2 DEF SetWorking
<1>10. CASE CreateOutbound(p)
    BY <1>10 DEF CreateOutbound
<1>11. CASE BindOutbound(p)
    BY <1>11 DEF BindOutbound
<1>12. CASE AppendOutbound(p)
    BY <1>12 DEF AppendOutbound, Add
<1>13. CASE Send(p)
    BY <1>13 DEF Send
<1>14. CASE SettleOutbound(p)
    BY <1>14 DEF SettleOutbound
<1>15. CASE DiscardOutbound(p)
    BY <1>15 DEF DiscardOutbound
<1>16. CASE Clear(p)
    BY <1>16 DEF Clear
<1>17. CASE StartSave(p)
    BY <1>17 DEF StartSave
<1>18. CASE Describe(p)
    BY <1>18 DEF Describe
<1>19. CASE Reread(p)
    BY <1>19 DEF Reread
<1>20. CASE Seal(p)
    BY <1>20 DEF Seal
<1>21. CASE Disarm(p)
    BY <1>21 DEF Disarm
<1>22. CASE Unmark(p)
    BY <1>22 DEF Unmark
<1>23. CASE Unbind(p)
    BY <1>23 DEF Unbind
<1>24. CASE Consume(p)
    BY <1>24 DEF Consume
<1>25. CASE Adopt(p)
    BY <1>25 DEF Adopt
<1>26. CASE AdoptBind(p)
    BY <1>26 DEF AdoptBind
<1>27. CASE Match(p)
    BY <1>27 DEF Match
<1>28. CASE RecordInbound(p)
    BY <1>28 DEF RecordInbound, Add
<1>29. CASE DisarmAll(p)
    BY <1>29 DEF DisarmAll
<1>30. CASE Leave(p)
    BY <1>30 DEF Leave
<1>31. CASE StoreFails(p)
    BY <1>31 DEF StoreFails, AfterReject
<1> QED
    BY <1>1, <1>2, <1>3, <1>4, <1>5, <1>6, <1>7, <1>8, <1>9, <1>10, <1>11, <1>12, <1>13,
        <1>14, <1>15, <1>16, <1>17, <1>18, <1>19, <1>20, <1>21, <1>22, <1>23, <1>24, <1>25,
        <1>26, <1>27, <1>28, <1>29, <1>30, <1>31 DEF StepOf, Continue

LEMMA MarkerStep == ASSUME TypeInv, MarkerHasOwner, [Next]_vars PROVE MarkerHasOwner'
<1>0. DOMAIN status = Txn \cup {Unbound} /\ DOMAIN status' = Txn \cup {Unbound} /\ mishaps \in Nat
    BY TypeStep DEF TypeInv, StoresTyped, HistoryTyped
<1>1. ASSUME NEW p \in Proc, StepOf(p), NEW l \in Txn \cup {Unbound}, status'[l] = "WORKING"
      PROVE  mishaps' > 0 \/ \E q \in Proceeds : l \in marked'[q]
    <2>1. MarkMove(p) /\ Apart(p)
        BY <1>1, StepMovesMarkers, StepIsApart DEF TypeInv
    <2>2. CASE p \in Proceeds /\ l \in marked'[p]
        BY <2>2
    <2>3. CASE status[l] = "WORKING" /\ (mishaps' = mishaps /\ l \in marked[p] => l \in marked'[p])
        <3>1. CASE mishaps > 0 \/ mishaps' # mishaps
            BY <1>0, <2>1, <3>1 DEF MarkMove
        <3>2. CASE mishaps' = mishaps /\ ~(mishaps > 0)
            <4>1. PICK q \in Proceeds : l \in marked[q]
                BY <1>0, <2>3, <3>2 DEF MarkerHasOwner
            <4>2. l \in marked'[q]
                BY <2>1, <2>3, <3>2, <4>1 DEF Apart, Proc
            <4> QED
                BY <4>2
        <3> QED
            BY <3>1, <3>2
    <2> QED
        BY <1>1, <2>1, <2>2, <2>3 DEF MarkMove
<1>2. CASE Crash
    BY <1>0, <1>2 DEF Crash, MarkerHasOwner
<1>3. CASE UNCHANGED vars
    BY <1>3 DEF vars, stores, history, MarkerHasOwner
<1> QED
    BY <1>0, <1>1, <1>2, <1>3, NextIsAStep DEF MarkerHasOwner

\* A WORKING marker belongs to a dispatch under way, unless a crash or a rejected
\* store operation left it: whatever calls there are.
THEOREM MarkersHaveOwners == Spec => []MarkerHasOwner
<1>1. Init => MarkerHasOwner
    BY DEF Init, MarkerHasOwner
<1>2. TypeInv /\ MarkerHasOwner /\ [Next]_vars => MarkerHasOwner'
    BY MarkerStep
<1> QED
    BY <1>1, <1>2, FlowRunTypeCorrect, PTL DEF Spec

----------------------------------------------------------------------------
\* A dispatch stays with the first step until the run is bound.
LEMMA StepKeepsFirst ==
    ASSUME TypeInv, FirstOK, NEW p \in Proc, StepOf(p)
    PROVE  FirstOf(p)'
<1> USE DEF TypeInv, CallsTyped, FirstOK, FirstOf, GoTo, stores, history
<1>1. ASSUME p \in ByFlow \cup Restarts, EnterByFlow(p) PROVE FirstOf(p)'
    BY <1>1 DEF EnterByFlow
<1>2. ASSUME p \in ByTransaction, NEW t \in Txn, LoadByTransaction(p, t) PROVE FirstOf(p)'
    <2>1. txn'[p] = t /\ pc'[p] \in {"leave", "select"} /\ t # Unbound
        BY <1>2 DEF LoadByTransaction, Txn, Unbound
    <2> QED
        BY <2>1
<1>3. ASSUME p \in Starts, StartRead(p) PROVE FirstOf(p)'
    BY <1>3 DEF StartRead
<1>4. ASSUME p \in Inbound, NEW m \in Msg, NEW t \in Txn, Arrive(p, m, t) PROVE FirstOf(p)'
    BY <1>4 DEF Arrive
<1>5. CASE LoadByFlow(p)
    BY <1>5 DEF LoadByFlow
<1>6. CASE Select(p)
    BY <1>6 DEF Select
<1>7. CASE Mark(p)
    BY <1>7 DEF Mark, SetWorking
<1>8. CASE Prepare(p)
    BY <1>8 DEF Prepare
<1>9. ASSUME NEW t \in Txn, Mint(p, t) PROVE FirstOf(p)'
    BY <1>9 DEF Mint, SetWorking
<1>10. CASE CreateOutbound(p)
    BY <1>10 DEF CreateOutbound
<1>11. CASE BindOutbound(p)
    BY <1>11 DEF BindOutbound
<1>12. CASE AppendOutbound(p)
    BY <1>12 DEF AppendOutbound, Add
<1>13. CASE Send(p)
    BY <1>13 DEF Send
<1>14. CASE SettleOutbound(p)
    BY <1>14 DEF SettleOutbound
<1>15. CASE DiscardOutbound(p)
    BY <1>15 DEF DiscardOutbound
<1>16. CASE Clear(p)
    BY <1>16 DEF Clear
<1>17. CASE StartSave(p)
    BY <1>17 DEF StartSave
<1>18. CASE Describe(p)
    BY <1>18 DEF Describe
<1>19. CASE Reread(p)
    BY <1>19 DEF Reread
<1>20. CASE Seal(p)
    BY <1>20 DEF Seal
<1>21. CASE Disarm(p)
    BY <1>21 DEF Disarm
<1>22. CASE Unmark(p)
    BY <1>22 DEF Unmark
<1>23. CASE Unbind(p)
    BY <1>23 DEF Unbind
<1>24. CASE Consume(p)
    BY <1>24 DEF Consume
<1>25. CASE Adopt(p)
    BY <1>25 DEF Adopt
<1>26. CASE AdoptBind(p)
    BY <1>26 DEF AdoptBind
<1>27. CASE Match(p)
    BY <1>27 DEF Match
<1>28. CASE RecordInbound(p)
    BY <1>28 DEF RecordInbound, Add
<1>29. CASE DisarmAll(p)
    BY <1>29 DEF DisarmAll
<1>30. CASE Leave(p)
    BY <1>30 DEF Leave
<1>31. CASE StoreFails(p)
    BY <1>31 DEF StoreFails, AfterReject
<1> QED
    BY <1>1, <1>2, <1>3, <1>4, <1>5, <1>6, <1>7, <1>8, <1>9, <1>10, <1>11, <1>12, <1>13,
        <1>14, <1>15, <1>16, <1>17, <1>18, <1>19, <1>20, <1>21, <1>22, <1>23, <1>24, <1>25,
        <1>26, <1>27, <1>28, <1>29, <1>30, <1>31 DEF StepOf, Continue

LEMMA FirstStep == ASSUME TypeInv, FirstOK, [Next]_vars PROVE FirstOK'
<1>1. ASSUME NEW p \in Proc, StepOf(p), NEW q \in Proc PROVE FirstOf(q)'
    <2>1. CASE q = p
        BY <1>1, <2>1, StepKeepsFirst
    <2>2. CASE q # p
        BY <1>1, <2>2, StepIsApart DEF Apart, TypeInv, FirstOK, FirstOf
    <2> QED
        BY <2>1, <2>2
<1>2. CASE Crash
    BY <1>2, CrashIs DEF TypeInv, FirstOK, FirstOf
<1>3. CASE UNCHANGED vars
    BY <1>3 DEF vars, FirstOK, FirstOf
<1> QED
    BY <1>1, <1>2, <1>3, NextIsAStep DEF FirstOK

\* Nothing arms for the first step of a run the mock opens.

\* With the first step ours, no dispatch arms the counterparty for it.
LEMMA StepArmsNothing ==
    ASSUME TypeInv, FirstOK, NeverAdopts, WeOpen, NEW p \in Proc, StepOf(p)
    PROVE  ~armed' /\ pc'[p] \notin {"adopt", "adoptbind"}
<1> USE DEF TypeInv, CallsTyped, NeverAdopts, GoTo, stores, history
<1>1. ASSUME p \in ByFlow \cup Restarts, EnterByFlow(p)
      PROVE  ~armed' /\ pc'[p] \notin {"adopt", "adoptbind"}
    BY <1>1 DEF EnterByFlow
<1>2. ASSUME p \in ByTransaction, NEW t \in Txn, LoadByTransaction(p, t)
      PROVE  ~armed' /\ pc'[p] \notin {"adopt", "adoptbind"}
    BY <1>2 DEF LoadByTransaction
<1>3. ASSUME p \in Starts, StartRead(p) PROVE ~armed' /\ pc'[p] \notin {"adopt", "adoptbind"}
    BY <1>3 DEF StartRead
<1>4. ASSUME p \in Inbound, NEW m \in Msg, NEW t \in Txn, Arrive(p, m, t)
      PROVE  ~armed' /\ pc'[p] \notin {"adopt", "adoptbind"}
    BY <1>4 DEF Arrive
<1>5. CASE LoadByFlow(p)
    BY <1>5 DEF LoadByFlow
<1>6. CASE Select(p)
    <2>1. pc[p] = "select" /\ FirstOf(p)
        BY <1>6 DEF FirstOK, Select
    <2>2. txn[p] = Unbound => want[p] \in Ours
        BY <2>1 DEF WeOpen, FirstOf
    <2>3. armed' = armed \/ (armed' = (armed \/ txn[p] = Unbound) /\ want[p] \notin Ours)
        BY <1>6 DEF Select
    <2>4. ~armed'
        BY <2>2, <2>3
    <2> QED
        BY <1>6, <2>4, SelectMoves
<1>7. CASE Mark(p)
    BY <1>7 DEF Mark, SetWorking
<1>8. CASE Prepare(p)
    BY <1>8 DEF Prepare
<1>9. ASSUME NEW t \in Txn, Mint(p, t) PROVE ~armed' /\ pc'[p] \notin {"adopt", "adoptbind"}
    BY <1>9 DEF Mint, SetWorking
<1>10. CASE CreateOutbound(p)
    BY <1>10 DEF CreateOutbound
<1>11. CASE BindOutbound(p)
    BY <1>11 DEF BindOutbound
<1>12. CASE AppendOutbound(p)
    BY <1>12 DEF AppendOutbound, Add
<1>13. CASE Send(p)
    BY <1>13 DEF Send
<1>14. CASE SettleOutbound(p)
    BY <1>14 DEF SettleOutbound
<1>15. CASE DiscardOutbound(p)
    BY <1>15 DEF DiscardOutbound
<1>16. CASE Clear(p)
    BY <1>16 DEF Clear
<1>17. CASE StartSave(p)
    BY <1>17 DEF StartSave
<1>18. CASE Describe(p)
    <2>1. GoTo(p, "leave") /\ armed' = (armed \/ (txn[p] = Unbound /\ 1 \notin Ours /\ status[Unbound] = "AVAILABLE"))
        BY <1>18 DEF Describe
    <2>2. ~armed'
        BY <2>1 DEF WeOpen
    <2> QED
        BY <2>1, <2>2
<1>19. CASE Reread(p)
    BY <1>19 DEF Reread
<1>20. CASE Seal(p)
    BY <1>20 DEF Seal
<1>21. CASE Disarm(p)
    BY <1>21 DEF Disarm
<1>22. CASE Unmark(p)
    BY <1>22 DEF Unmark
<1>23. CASE Unbind(p)
    BY <1>23 DEF Unbind
<1>24. CASE Consume(p)
    BY <1>24 DEF Consume
<1>25. CASE Adopt(p)
    BY <1>25 DEF Adopt
<1>26. CASE AdoptBind(p)
    BY <1>26 DEF AdoptBind
<1>27. CASE Match(p)
    BY <1>27 DEF Match
<1>28. CASE RecordInbound(p)
    BY <1>28 DEF RecordInbound, Add
<1>29. CASE DisarmAll(p)
    BY <1>29 DEF DisarmAll
<1>30. CASE Leave(p)
    BY <1>30 DEF Leave
<1>31. CASE StoreFails(p)
    BY <1>31 DEF StoreFails, AfterReject
<1> QED
    BY <1>1, <1>2, <1>3, <1>4, <1>5, <1>6, <1>7, <1>8, <1>9, <1>10, <1>11, <1>12, <1>13,
        <1>14, <1>15, <1>16, <1>17, <1>18, <1>19, <1>20, <1>21, <1>22, <1>23, <1>24, <1>25,
        <1>26, <1>27, <1>28, <1>29, <1>30, <1>31 DEF StepOf, Continue

\* What it does to the transactions: a record, a binding or a payload it touches
\* is that of the transaction it is on, and it comes to another only by the
\* binding, by a record that exists, by a payload on the wire or by minting it.
MintMove(p) ==
    /\ known \subseteq known' /\ wire \subseteq wire'
    /\ binding' \in {binding, Unbound, txn[p]}
    /\ \A t \in Txn : t # txn[p] => records'[t] = records[t]
    /\ \A w \in wire' : w \in wire \/ w.txn = txn[p]

FromWire(t) == \E w \in wire : w.txn = t

TxnMove(p) ==
    /\ \/ txn'[p] \in {txn[p], binding, Unbound}
       \/ txn'[p] \in Txn /\ records[txn'[p]].exists
       \/ FromWire(txn'[p])
       \/ txn'[p] \in known' \ known
    /\ pc'[p] = "create" => txn'[p] \in Txn \ known
    /\ p \in Inbound /\ msg'[p] # Nobody =>
         FromWire(txn'[p]) \/ (msg[p] # Nobody /\ txn'[p] = txn[p])

\* A call writes the record, the binding and the wire of its own transaction only.
LEMMA StepMovesMint ==
    ASSUME TypeInv, NEW p \in Proc, StepOf(p)
    PROVE  MintMove(p)
<1> USE DEF TypeInv, StoresTyped, MintMove, GoTo, stores, history
<1>1. ASSUME p \in ByFlow \cup Restarts, EnterByFlow(p) PROVE MintMove(p)
    BY <1>1 DEF EnterByFlow
<1>2. ASSUME p \in ByTransaction, NEW t \in Txn, LoadByTransaction(p, t) PROVE MintMove(p)
    BY <1>2 DEF LoadByTransaction
<1>3. ASSUME p \in Starts, StartRead(p) PROVE MintMove(p)
    BY <1>3 DEF StartRead
<1>4. ASSUME p \in Inbound, NEW m \in Msg, NEW t \in Txn, Arrive(p, m, t) PROVE MintMove(p)
    BY <1>4 DEF Arrive
<1>5. CASE LoadByFlow(p)
    BY <1>5 DEF LoadByFlow
<1>6. CASE Select(p)
    BY <1>6 DEF Select
<1>7. CASE Mark(p)
    BY <1>7 DEF Mark, SetWorking
<1>8. CASE Prepare(p)
    BY <1>8 DEF Prepare
<1>9. ASSUME NEW t \in Txn, Mint(p, t) PROVE MintMove(p)
    BY <1>9 DEF Mint, SetWorking
<1>10. CASE CreateOutbound(p)
    BY <1>10 DEF CreateOutbound
<1>11. CASE BindOutbound(p)
    BY <1>11 DEF BindOutbound
<1>12. CASE AppendOutbound(p)
    BY <1>12 DEF AppendOutbound, Add
<1>13. CASE Send(p)
    BY <1>13 DEF Send
<1>14. CASE SettleOutbound(p)
    BY <1>14 DEF SettleOutbound
<1>15. CASE DiscardOutbound(p)
    BY <1>15 DEF DiscardOutbound
<1>16. CASE Clear(p)
    BY <1>16 DEF Clear
<1>17. CASE StartSave(p)
    BY <1>17 DEF StartSave
<1>18. CASE Describe(p)
    BY <1>18 DEF Describe
<1>19. CASE Reread(p)
    BY <1>19 DEF Reread
<1>20. CASE Seal(p)
    BY <1>20 DEF Seal
<1>21. CASE Disarm(p)
    BY <1>21 DEF Disarm
<1>22. CASE Unmark(p)
    BY <1>22 DEF Unmark
<1>23. CASE Unbind(p)
    BY <1>23 DEF Unbind
<1>24. CASE Consume(p)
    BY <1>24 DEF Consume
<1>25. CASE Adopt(p)
    BY <1>25 DEF Adopt
<1>26. CASE AdoptBind(p)
    BY <1>26 DEF AdoptBind
<1>27. CASE Match(p)
    BY <1>27 DEF Match
<1>28. CASE RecordInbound(p)
    BY <1>28 DEF RecordInbound, Add
<1>29. CASE DisarmAll(p)
    BY <1>29 DEF DisarmAll
<1>30. CASE Leave(p)
    BY <1>30 DEF Leave
<1>31. CASE StoreFails(p)
    BY <1>31 DEF StoreFails, AfterReject
<1> QED
    BY <1>1, <1>2, <1>3, <1>4, <1>5, <1>6, <1>7, <1>8, <1>9, <1>10, <1>11, <1>12, <1>13,
        <1>14, <1>15, <1>16, <1>17, <1>18, <1>19, <1>20, <1>21, <1>22, <1>23, <1>24, <1>25,
        <1>26, <1>27, <1>28, <1>29, <1>30, <1>31 DEF StepOf, Continue

\* Where the transaction in a call's hand comes from.
LEMMA StepMovesTxn ==
    ASSUME TypeInv, HeardIsSent, WeOpen, NEW p \in Proc, StepOf(p)
    PROVE  TxnMove(p)
<1> USE DEF TypeInv, CallsTyped, TxnMove, GoTo, stores, history
<1>1. ASSUME p \in ByFlow \cup Restarts, EnterByFlow(p) PROVE TxnMove(p)
    BY <1>1 DEF EnterByFlow
<1>2. ASSUME p \in ByTransaction, NEW t \in Txn, LoadByTransaction(p, t) PROVE TxnMove(p)
    <2>1. p \notin Inbound
        BY <1>2 DEF LoadByTransaction, CallsOK, PlaceOK, Proceeds
    <2>2. txn'[p] = t /\ records[t].exists /\ pc'[p] # "create"
        BY <1>2 DEF LoadByTransaction
    <2> QED
        BY <2>1, <2>2
<1>3. ASSUME p \in Starts, StartRead(p) PROVE TxnMove(p)
    BY <1>3 DEF StartRead
<1>4. ASSUME p \in Inbound, NEW m \in Msg, NEW t \in Txn, Arrive(p, m, t) PROVE TxnMove(p)
    <2>1. ActionOf[m] # 1
        BY <1>4, MsgAssumption DEF WeOpen
    <2>2. t \in Heard
        BY <1>4, <2>1 DEF Arrive, MayQuote
    <2>3. FromWire(t)
        BY <2>2 DEF Heard, HeardIsSent, FromWire
    <2>4. txn'[p] = t /\ pc'[p] # "create"
        BY <1>4 DEF Arrive
    <2>5. FromWire(txn'[p])
        BY <2>3, <2>4
    <2> QED
        BY <2>4, <2>5
<1>5. CASE LoadByFlow(p)
    <2>1. p \notin Inbound
        BY <1>5 DEF LoadByFlow, CallsOK, PlaceOK, Proceeds
    <2>2. txn'[p] = binding /\ pc'[p] # "create"
        BY <1>5 DEF LoadByFlow
    <2> QED
        BY <2>1, <2>2
<1>6. CASE Select(p)
    BY <1>6 DEF Select
<1>7. CASE Mark(p)
    BY <1>7 DEF Mark, SetWorking
<1>8. CASE Prepare(p)
    BY <1>8 DEF Prepare
<1>9. ASSUME NEW t \in Txn, Mint(p, t) PROVE TxnMove(p)
    <2>1. t \notin known /\ known' = known \cup {t} /\ txn' = [txn EXCEPT ![p] = t]
        BY <1>9 DEF Mint, IsFresh
    <2>2. p \notin Inbound
        BY <1>9 DEF Mint, CallsOK, PlaceOK
    <2> QED
        BY <2>1, <2>2
<1>10. CASE CreateOutbound(p)
    BY <1>10 DEF CreateOutbound
<1>11. CASE BindOutbound(p)
    BY <1>11 DEF BindOutbound
<1>12. CASE AppendOutbound(p)
    BY <1>12 DEF AppendOutbound, Add
<1>13. CASE Send(p)
    BY <1>13 DEF Send
<1>14. CASE SettleOutbound(p)
    BY <1>14 DEF SettleOutbound
<1>15. CASE DiscardOutbound(p)
    BY <1>15 DEF DiscardOutbound
<1>16. CASE Clear(p)
    BY <1>16 DEF Clear
<1>17. CASE StartSave(p)
    BY <1>17 DEF StartSave
<1>18. CASE Describe(p)
    BY <1>18 DEF Describe
<1>19. CASE Reread(p)
    <2>1. p \notin Inbound
        BY <1>19 DEF Reread, CallsOK, PlaceOK, Proceeds
    <2>2. txn'[p] = binding /\ pc'[p] # "create"
        BY <1>19 DEF Reread
    <2> QED
        BY <2>1, <2>2
<1>20. CASE Seal(p)
    BY <1>20 DEF Seal
<1>21. CASE Disarm(p)
    BY <1>21 DEF Disarm
<1>22. CASE Unmark(p)
    BY <1>22 DEF Unmark
<1>23. CASE Unbind(p)
    <2>1. p \notin Inbound
        BY <1>23 DEF Unbind, CallsOK, PlaceOK, Proceeds
    <2>2. txn'[p] = Unbound /\ pc'[p] # "create"
        BY <1>23 DEF Unbind
    <2> QED
        BY <2>1, <2>2
<1>24. CASE Consume(p)
    BY <1>24 DEF Consume
<1>25. CASE Adopt(p)
    BY <1>25 DEF Adopt
<1>26. CASE AdoptBind(p)
    BY <1>26 DEF AdoptBind
<1>27. CASE Match(p)
    BY <1>27 DEF Match
<1>28. CASE RecordInbound(p)
    BY <1>28 DEF RecordInbound, Add
<1>29. CASE DisarmAll(p)
    BY <1>29 DEF DisarmAll
<1>30. CASE Leave(p)
    BY <1>30 DEF Leave
<1>31. CASE StoreFails(p)
    BY <1>31 DEF StoreFails, AfterReject
<1> QED
    BY <1>1, <1>2, <1>3, <1>4, <1>5, <1>6, <1>7, <1>8, <1>9, <1>10, <1>11, <1>12, <1>13,
        <1>14, <1>15, <1>16, <1>17, <1>18, <1>19, <1>20, <1>21, <1>22, <1>23, <1>24, <1>25,
        <1>26, <1>27, <1>28, <1>29, <1>30, <1>31 DEF StepOf, Continue

LEMMA MintInvStep == ASSUME TypeInv, MintInv, WeOpen, [Next]_vars PROVE MintInv'
<1>0. Unbound \notin Txn /\ NoRecord.exists = FALSE
    BY DEF Unbound, Txn, NoRecord
<1>1. ASSUME NEW p \in Proc, StepOf(p) PROVE MintInv'
    <2>1. /\ \A q \in Proc : txn[q] \in known \cup {Unbound}
          /\ \A t \in Txn \ known : records[t] = NoRecord
          /\ \A w \in wire : w.txn \in known
          /\ binding \in known \cup {Unbound}
        BY DEF MintInv, KnownOK
    <2>2. MintMove(p) /\ TxnMove(p) /\ Apart(p)
        BY <1>1, StepMovesMint, StepMovesTxn, StepIsApart DEF TypeInv, MintInv
    <2>3. FirstOK'
        BY FirstStep DEF MintInv
    <2>4. NeverAdopts'
        BY <1>1, <2>2, StepArmsNothing DEF MintInv, NeverAdopts, Apart
    <2>5. TypeInv'
        BY TypeStep
    <2>6. KnownOK'
        <3>1. binding' \in known' \cup {Unbound}
            BY <2>1, <2>2 DEF MintMove
        <3>2. ASSUME NEW q \in Proc PROVE txn'[q] \in known' \cup {Unbound}
            <4>1. CASE q # p
                BY <2>1, <2>2, <4>1 DEF Apart, MintMove
            <4>2. CASE q = p
                BY <1>0, <2>1, <2>2, <4>2 DEF MintMove, TxnMove, FromWire
            <4> QED
                BY <4>1, <4>2
        <3>3. ASSUME NEW t \in Txn \ known' PROVE records'[t] = NoRecord
            BY <1>0, <2>1, <2>2 DEF MintMove
        <3>4. ASSUME NEW w \in wire' PROVE w.txn \in known'
            <4>1. w.txn \in Txn
                BY <2>5 DEF TypeInv, HistoryTyped
            <4> QED
                BY <1>0, <2>1, <2>2, <4>1 DEF MintMove
        <3> QED
            BY <3>1, <3>2, <3>3, <3>4 DEF KnownOK
    <2>7. MintedIsOwn'
        <3> SUFFICES ASSUME NEW q \in Proc, pc'[q] = "create"
                     PROVE  /\ records'[txn'[q]] = NoRecord
                            /\ binding' # txn'[q]
                            /\ \A r \in Proc : r # q => txn'[r] # txn'[q]
                            /\ \A w \in wire' : w.txn # txn'[q]
            BY DEF MintedIsOwn
        <3>1. CASE q = p
            <4>1. txn'[p] \in Txn \ known
                BY <2>2, <3>1 DEF TxnMove
            <4>2. txn'[p] # txn[p]
                BY <1>0, <2>1, <4>1
            <4>3. records'[txn'[p]] = NoRecord /\ binding' # txn'[p]
                BY <1>0, <2>1, <2>2, <4>1, <4>2 DEF MintMove
            <4>4. \A r \in Proc : r # p => txn'[r] # txn'[p]
                BY <1>0, <2>1, <2>2, <4>1 DEF Apart
            <4>5. \A w \in wire' : w.txn # txn'[p]
                BY <2>1, <2>2, <4>1, <4>2 DEF MintMove
            <4> QED
                BY <3>1, <4>3, <4>4, <4>5
        <3>2. CASE q # p
            <4>1. pc[q] = "create" /\ txn'[q] = txn[q]
                BY <2>2, <3>2 DEF Apart
            <4>2. txn[q] \in Txn /\ txn[q] \in known
                BY <1>0, <2>1, <4>1 DEF TypeInv, CallsOK, HandsOK, OnTxn
            <4>3. /\ records[txn[q]] = NoRecord
                  /\ binding # txn[q]
                  /\ \A r \in Proc : r # q => txn[r] # txn[q]
                  /\ \A w \in wire : w.txn # txn[q]
                BY <4>1 DEF MintInv, MintedIsOwn
            <4>4. txn[p] # txn[q]
                BY <3>2, <4>3
            <4>5. records'[txn[q]] = NoRecord /\ binding' # txn[q]
                BY <1>0, <2>2, <4>2, <4>3, <4>4 DEF MintMove
            <4>6. txn'[p] # txn[q]
                BY <1>0, <2>2, <4>2, <4>3, <4>4 DEF TxnMove, FromWire
            <4>7. \A r \in Proc : r # q => txn'[r] # txn[q]
                BY <2>2, <4>3, <4>6 DEF Apart
            <4>8. \A w \in wire' : w.txn # txn[q]
                BY <2>2, <4>3, <4>4 DEF MintMove
            <4> QED
                BY <4>1, <4>5, <4>7, <4>8
        <3> QED
            BY <3>1, <3>2
    <2>8. HeardIsSent'
        <3> SUFFICES ASSUME NEW h \in Inbound, msg'[h] # Nobody PROVE \E w \in wire' : w.txn = txn'[h]
            BY DEF HeardIsSent
        <3>1. FromWire(txn'[h])
            <4>1. CASE h = p
                <5>1. FromWire(txn'[h]) \/ (msg[h] # Nobody /\ txn'[h] = txn[h])
                    BY <2>2, <4>1 DEF TxnMove
                <5> QED
                    BY <5>1 DEF MintInv, HeardIsSent, FromWire
            <4>2. CASE h # p
                BY <2>2, <4>2 DEF Apart, MintInv, HeardIsSent, FromWire, Proc
            <4> QED
                BY <4>1, <4>2
        <3> QED
            BY <2>2, <3>1 DEF MintMove, FromWire
    <2> QED
        BY <2>3, <2>4, <2>6, <2>7, <2>8 DEF MintInv
<1>2. CASE Crash
    <2>1. FirstOK'
        BY FirstStep DEF MintInv
    <2>2. NeverAdopts'
        BY <1>2, CrashIs DEF TypeInv, MintInv, NeverAdopts, stores
    <2>3. KnownOK' /\ HeardIsSent'
        BY <1>2, CrashIs DEF TypeInv, MintInv, KnownOK, HeardIsSent, stores
    <2>4. MintedIsOwn'
        BY <1>2, CrashIs DEF TypeInv, MintedIsOwn
    <2> QED
        BY <2>1, <2>2, <2>3, <2>4 DEF MintInv
<1>3. CASE UNCHANGED vars
    BY <1>3 DEF vars, stores, history, MintInv, FirstOK, FirstOf, NeverAdopts, KnownOK, MintedIsOwn,
                HeardIsSent
<1> QED
    BY <1>1, <1>2, <1>3, NextIsAStep

LEMMA MintInit == Init /\ WeOpen => MintInv
<1> SUFFICES ASSUME Init, WeOpen PROVE MintInv
    OBVIOUS
<1>1. FirstOK /\ NeverAdopts /\ MintedIsOwn
    BY DEF Init, WeOpen, FirstOK, FirstOf, NeverAdopts, MintedIsOwn
<1>2. KnownOK
    BY DEF Init, KnownOK
<1>3. HeardIsSent
    BY DEF Init, HeardIsSent
<1> QED
    BY <1>1, <1>2, <1>3 DEF MintInv

----------------------------------------------------------------------------
\* The exchange stays on the record: it is found there by step and id.
Kept(t, e) == \E f \in Range(records'[t].entries) : Same(f, e)

\* An append keeps every entry.
LEMMA AppendKeeps ==
    ASSUME TypeInv, NEW t \in Txn, NEW e \in Entry, NEW f \in Range(Entries(t)), Add(t, e)
    PROVE  Kept(t, f)
<1> DEFINE s == Entries(t)
<1>1. s \in Seq(Entry)
    BY DEF TypeInv, StoresTyped, Entries, Record
<1>2. records'[t].entries = Append(s, e)
    BY DEF Add, Entries, TypeInv, StoresTyped, Record
<1>3. PICK i \in DOMAIN s : s[i] = f
    BY DEF Range
<1> HIDE DEF s
<1>4. i \in DOMAIN Append(s, e) /\ Append(s, e)[i] = f
    BY <1>1, <1>3
<1> QED
    BY <1>2, <1>4 DEF Kept, Range, Same

\* A record with the entries it had keeps every entry.
LEMMA SameKeeps ==
    ASSUME records' = records, NEW t, NEW e \in Range(Entries(t))
    PROVE  Kept(t, e)
    BY DEF Kept, Entries, Same

\* What a step does, it does to the transaction it is on.
LEMMA OtherKeeps ==
    ASSUME TypeInv, NEW p \in Proc, StepOf(p), NEW t \in Txn, t # txn[p], NEW e \in Range(Entries(t))
    PROVE  Kept(t, e)
<1>1. records'[t] = records[t]
    BY StepMovesMint DEF MintMove
<1> QED
    BY <1>1 DEF Kept, Entries, Same

\* The answer is filed under the entry; step and id stay.
LEMMA SettleIs ==
    ASSUME TypeInv, NEW p \in Proc, SettleOutbound(p)
    PROVE  /\ Entries(txn[p]) \in Seq(Entry) /\ records'[txn[p]].entries \in Seq(Entry)
           /\ Len(records'[txn[p]].entries) = Len(Entries(txn[p]))
           /\ \A i \in DOMAIN Entries(txn[p]) :
                Same(records'[txn[p]].entries[i], Entries(txn[p])[i])
<1> DEFINE settle(e) == [e EXCEPT !.state = IF pc[p] = "settle" THEN "settled" ELSE "failed"]
           s == Entries(txn[p])
           u == [i \in DOMAIN s |-> IF s[i].id = p THEN settle(s[i]) ELSE s[i]]
<1>1. txn[p] \in Txn
    BY DEF SettleOutbound, TypeInv, CallsOK, HandsOK, OnTxn
<1>2. s \in Seq(Entry)
    BY <1>1 DEF TypeInv, StoresTyped, Entries, Record
<1>3. records'[txn[p]].entries = u
    BY <1>1 DEF SettleOutbound, TypeInv, StoresTyped, Entries, Record
<1>4. \A e \in Entry : settle(e) \in Entry /\ Same(settle(e), e)
    BY DEF Entry, Same
<1> HIDE DEF settle
<1>5. u \in Seq(Entry) /\ Len(u) = Len(s)
    BY <1>2, <1>4
<1>6. \A i \in DOMAIN s : Same(u[i], s[i])
    BY <1>2, <1>4 DEF Same
<1> QED
    BY <1>2, <1>3, <1>5, <1>6

\* A discard keeps every entry but those of the call it is for.
LEMMA WithoutKeeps ==
    ASSUME NEW s \in Seq(Entry), NEW p, NEW e \in Range(s)
    PROVE  (\E f \in Range(Without(s, p)) : Same(f, e)) \/ e.id = p
<1>1. CASE \E i \in DOMAIN s : s[i].id = p
    <2>1. PICK i \in DOMAIN s : i = CHOOSE k \in DOMAIN s : s[k].id = p
        BY <1>1
    <2>2. s[i].id = p
        BY <1>1, <2>1
    <2>3. Without(s, p) = RemoveAt(s, i)
        BY <1>1, <2>1 DEF Without
    <2>4. PICK j \in DOMAIN s : s[j] = e
        BY DEF Range
    <2>5. /\ i \in 1..Len(s) /\ j \in 1..Len(s) /\ Len(s) \in Nat
        BY <2>1, <2>4
    <2>6. CASE j = i
        BY <2>2, <2>4, <2>6
    <2>7. CASE j # i
        <3> DEFINE k == IF j < i THEN j ELSE j - 1
        <3>1. k \in 1..(Len(s) - 1)
            BY <2>5, <2>7
        <3>2. RemoveAt(s, i)[k] = e
            <4>1. RemoveAt(s, i)[k] = IF k < i THEN s[k] ELSE s[k + 1]
                BY <2>5, <3>1, RemoveAtIs
            <4>2. (IF k < i THEN k ELSE k + 1) = j
                BY <2>5, <2>7
            <4> QED
                BY <2>4, <4>1, <4>2
        <3>3. k \in DOMAIN RemoveAt(s, i)
            BY <2>5, <3>1, RemoveAtIs
        <3> HIDE DEF k
        <3> QED
            BY <2>3, <3>2, <3>3 DEF Range, Same
    <2> QED
        BY <2>6, <2>7
<1>2. CASE ~\E i \in DOMAIN s : s[i].id = p
    BY <1>2 DEF Without, Range, Same
<1> QED
    BY <1>1, <1>2

KeptOrUnsent(t, e) == Kept(t, e) \/ (e.id \in Proceeds /\ \A w \in wire : w.by # e.id)

\* No step takes away what crossed the wire or came in.
LEMMA StepKeepsEvidence ==
    ASSUME TypeInv, SendOK, MintInv, NEW u \in Txn, NEW e \in Range(Entries(u)), NEW p \in Proc, StepOf(p)
    PROVE  KeptOrUnsent(u, e)
<1> USE DEF KeptOrUnsent
<1>1. ASSUME p \in ByFlow \cup Restarts, EnterByFlow(p) PROVE KeptOrUnsent(u, e)
    BY <1>1, SameKeeps DEF EnterByFlow, stores
<1>2. ASSUME p \in ByTransaction, NEW t \in Txn, LoadByTransaction(p, t) PROVE KeptOrUnsent(u, e)
    BY <1>2, SameKeeps DEF LoadByTransaction, stores
<1>3. ASSUME p \in Starts, StartRead(p) PROVE KeptOrUnsent(u, e)
    BY <1>3, SameKeeps DEF StartRead, stores
<1>4. ASSUME p \in Inbound, NEW m \in Msg, NEW t \in Txn, Arrive(p, m, t) PROVE KeptOrUnsent(u, e)
    BY <1>4, SameKeeps DEF Arrive, stores
<1>5. CASE LoadByFlow(p) \/ Select(p) \/ Mark(p) \/ Prepare(p)
    BY <1>5, SameKeeps DEF LoadByFlow, Select, Mark, Prepare, stores
<1>6. ASSUME NEW t \in Txn, Mint(p, t) PROVE KeptOrUnsent(u, e)
    BY <1>6, SameKeeps DEF Mint, stores
<1>7. CASE CreateOutbound(p)
    <2>1. txn[p] \in Txn /\ records[txn[p]] = NoRecord
        BY <1>7 DEF CreateOutbound, TypeInv, CallsOK, HandsOK, OnTxn, MintInv, MintedIsOwn
    <2>2. u # txn[p]
        BY <2>1 DEF Entries, NoRecord, Range
    <2> QED
        BY <1>7, <2>1, <2>2, OtherKeeps
<1>8. CASE BindOutbound(p) \/ Send(p) \/ Clear(p)
    BY <1>8, SameKeeps DEF BindOutbound, Send, Clear, stores
<1>9. CASE AppendOutbound(p)
    <2>1. txn[p] \in Txn /\ Add(txn[p], [step |-> want[p], id |-> p, state |-> "in_flight"])
        BY <1>9 DEF AppendOutbound, TypeInv, CallsOK, HandsOK, OnTxn
    <2>2. [step |-> want[p], id |-> p, state |-> "in_flight"] \in Entry
        BY <1>9, StepsAssumption DEF AppendOutbound, TypeInv, CallsOK, HandsOK, OnTxn, OnStep, Entry
    <2> QED
        BY <2>1, <2>2, AppendKeeps, OtherKeeps
<1>10. CASE SettleOutbound(p)
    <2>1. txn[p] \in Txn
        BY <1>10 DEF SettleOutbound, TypeInv, CallsOK, HandsOK, OnTxn
    <2>2. CASE u = txn[p]
        <3>1. /\ records'[u].entries \in Seq(Entry) /\ Entries(u) \in Seq(Entry)
              /\ Len(records'[u].entries) = Len(Entries(u))
              /\ \A i \in DOMAIN Entries(u) : Same(records'[u].entries[i], Entries(u)[i])
            BY <1>10, <2>2, SettleIs
        <3>2. PICK i \in DOMAIN Entries(u) : Entries(u)[i] = e
            BY DEF Range
        <3> QED
            BY <3>1, <3>2 DEF Kept, Range
    <2> QED
        BY <2>1, <2>2, OtherKeeps
<1>11. CASE DiscardOutbound(p)
    <2>1. txn[p] \in Txn /\ p \in Proceeds /\ pc[p] = "discard"
        BY <1>11 DEF DiscardOutbound, TypeInv, CallsOK, PlaceOK, HandsOK, OnTxn, Proc
    <2>2. CASE u = txn[p]
        <3>1. /\ Entries(u) \in Seq(Entry)
              /\ records'[u].entries = Without(Entries(u), p)
            BY <1>11, <2>1, <2>2 DEF DiscardOutbound, Entries, TypeInv, StoresTyped, Record
        <3>2. (\E f \in Range(Without(Entries(u), p)) : Same(f, e)) \/ e.id = p
            BY <3>1, WithoutKeeps
        <3>3. e.id = p => \A w \in wire : w.by # p
            BY <2>1 DEF SendOK, Unsent
        <3> QED
            BY <2>1, <3>1, <3>2, <3>3 DEF Kept
    <2> QED
        BY <2>1, <2>2, OtherKeeps
<1>12. CASE StartSave(p) \/ Describe(p) \/ Leave(p)
    BY <1>12, SameKeeps DEF StartSave, Describe, Leave, stores
<1>13. CASE Reread(p) \/ Disarm(p) \/ Unmark(p) \/ Unbind(p)
    BY <1>13, SameKeeps DEF Reread, Disarm, Unmark, Unbind, stores
<1>14. CASE Seal(p)
    <2>1. records'[u].entries = records[u].entries
        BY <1>14 DEF Seal, TypeInv, StoresTyped, Record
    <2> QED
        BY <2>1 DEF Kept, Entries, Same
<1>15. CASE Adopt(p)
    BY <1>15 DEF Adopt, MintInv, NeverAdopts
<1>16. CASE Consume(p) \/ AdoptBind(p) \/ Match(p) \/ DisarmAll(p)
    BY <1>16, SameKeeps DEF Consume, AdoptBind, Match, DisarmAll, stores
<1>17. CASE RecordInbound(p)
    <2>1. p \in Inbound /\ msg[p] \in Msg /\ txn[p] \in Txn /\ pc[p] \in {"ack", "nack"}
        BY <1>17 DEF RecordInbound, TypeInv, CallsOK, PlaceOK, HandsOK, OnTxn, OnStep, Proc, Proceeds
    <2>2. [step |-> ActionOf[msg[p]], id |-> msg[p], state |-> pc[p]] \in Entry
        BY <2>1, MsgAssumption DEF Entry
    <2>3. Add(txn[p], [step |-> ActionOf[msg[p]], id |-> msg[p], state |-> pc[p]])
        BY <1>17 DEF RecordInbound
    <2> QED
        BY <2>1, <2>2, <2>3, AppendKeeps, OtherKeeps
<1>18. CASE StoreFails(p)
    BY <1>18, SameKeeps DEF StoreFails, stores
<1> QED
    BY <1>1, <1>2, <1>3, <1>4, <1>5, <1>6, <1>7, <1>8, <1>9, <1>10, <1>11, <1>12, <1>13,
        <1>14, <1>15, <1>16, <1>17, <1>18 DEF StepOf, Continue

EvidenceStep == \A t \in Txn : \A e \in Range(Entries(t)) : KeptOrUnsent(t, e)

\* One step never loses an entry that anyone was sent or sent us.
LEMMA EvidenceIsKept == ASSUME TypeInv, SendOK, MintInv, [Next]_vars PROVE EvidenceStep
<1> SUFFICES ASSUME NEW t \in Txn, NEW e \in Range(Entries(t)) PROVE KeptOrUnsent(t, e)
    BY DEF EvidenceStep
<1>1. ASSUME NEW p \in Proc, StepOf(p) PROVE KeptOrUnsent(t, e)
    BY <1>1, StepKeepsEvidence
<1>2. CASE Crash \/ UNCHANGED vars
    <2>1. records' = records
        BY <1>2 DEF Crash, vars, stores
    <2> QED
        BY <2>1, SameKeeps DEF KeptOrUnsent
<1> QED
    BY <1>1, <1>2, NextIsAStep

EvidenceInv == TypeInv /\ SendOK /\ MintInv

\* The invariant EvidenceKept rests on.
LEMMA EvidenceInvariant == ASSUME WeOpen PROVE Spec => []EvidenceInv
<1>1. Init => EvidenceInv
    <2>1. Init => SendOK
        BY DEF Init, SendOK
    <2> QED
        BY <2>1, TypeInit, MintInit DEF EvidenceInv
<1>2. EvidenceInv /\ [Next]_vars => EvidenceInv'
    BY TypeStep, SendStep, MintInvStep DEF EvidenceInv
<1> QED
    BY <1>1, <1>2, PTL DEF Spec

\* On a flow the mock opens, an exchange leaves the record only if it was ours and
\* never crossed the wire, whatever calls there are and however they interleave.
THEOREM EvidenceIsNeverLost == ASSUME WeOpen PROVE Spec => EvidenceKept
<1>1. EvidenceInv /\ [Next]_vars =>
        \A t \in Txn : \A e \in Range(Entries(t)) :
          \/ \E f \in Range(Entries(t)') : f.step = e.step /\ f.id = e.id
          \/ e.id \in Proceeds /\ \A w \in wire : w.by # e.id
    <2> SUFFICES ASSUME EvidenceInv, [Next]_vars, NEW t \in Txn, NEW e \in Range(Entries(t))
                 PROVE  \/ \E f \in Range(Entries(t)') : f.step = e.step /\ f.id = e.id
                        \/ e.id \in Proceeds /\ \A w \in wire : w.by # e.id
        OBVIOUS
    <2>1. KeptOrUnsent(t, e)
        BY EvidenceIsKept DEF EvidenceInv, EvidenceStep
    <2>2. Entries(t)' = records'[t].entries
        BY DEF Entries
    <2> QED
        BY <2>1, <2>2 DEF KeptOrUnsent, Kept, Same
<1> QED
    BY <1>1, EvidenceInvariant, PTL DEF Spec, EvidenceKept

----------------------------------------------------------------------------
\* Only flow_restart writes an attempt off, the one it found the run bound to, and
\* the calls by transaction under way on it are then late.
SealMove(p) ==
    /\ late \subseteq late'
    /\ \A t \in Txn : records'[t].abandoned =>
          \/ records[t].abandoned
          \/ p \in Restarts /\ pc[p] = "seal" /\ t = txn[p] /\ UnderWayOn(t) \subseteq late'

\* Only Seal writes off an attempt, the one its flow_restart read.
LEMMA StepSeals ==
    ASSUME TypeInv, NEW p \in Proc, StepOf(p)
    PROVE  SealMove(p)
<1> USE DEF TypeInv, StoresTyped, Record, SealMove, NewRecord, NoRecord, stores, history
<1>1. ASSUME p \in ByFlow \cup Restarts, EnterByFlow(p) PROVE SealMove(p)
    BY <1>1 DEF EnterByFlow
<1>2. ASSUME p \in ByTransaction, NEW t \in Txn, LoadByTransaction(p, t) PROVE SealMove(p)
    BY <1>2 DEF LoadByTransaction
<1>3. ASSUME p \in Starts, StartRead(p) PROVE SealMove(p)
    BY <1>3 DEF StartRead
<1>4. ASSUME p \in Inbound, NEW m \in Msg, NEW t \in Txn, Arrive(p, m, t) PROVE SealMove(p)
    BY <1>4 DEF Arrive
<1>5. CASE LoadByFlow(p)
    BY <1>5 DEF LoadByFlow
<1>6. CASE Select(p)
    BY <1>6 DEF Select
<1>7. CASE Mark(p)
    BY <1>7 DEF Mark, SetWorking
<1>8. CASE Prepare(p)
    BY <1>8 DEF Prepare
<1>9. ASSUME NEW t \in Txn, Mint(p, t) PROVE SealMove(p)
    BY <1>9 DEF Mint, SetWorking
<1>10. CASE CreateOutbound(p)
    BY <1>10 DEF CreateOutbound
<1>11. CASE BindOutbound(p)
    BY <1>11 DEF BindOutbound
<1>12. CASE AppendOutbound(p)
    BY <1>12 DEF AppendOutbound, Add
<1>13. CASE Send(p)
    BY <1>13 DEF Send
<1>14. CASE SettleOutbound(p)
    BY <1>14 DEF SettleOutbound
<1>15. CASE DiscardOutbound(p)
    BY <1>15 DEF DiscardOutbound
<1>16. CASE Clear(p)
    BY <1>16 DEF Clear
<1>17. CASE StartSave(p)
    BY <1>17 DEF StartSave
<1>18. CASE Describe(p)
    BY <1>18 DEF Describe
<1>19. CASE Reread(p)
    BY <1>19 DEF Reread
<1>20. CASE Seal(p)
    <2>1. p \in Restarts
        BY <1>20 DEF Seal, CallsOK, PlaceOK, OnStep, OnTxn, Proc, Proceeds
    <2> QED
        BY <1>20, <2>1 DEF Seal, UnderWayOn
<1>21. CASE Disarm(p)
    BY <1>21 DEF Disarm
<1>22. CASE Unmark(p)
    BY <1>22 DEF Unmark
<1>23. CASE Unbind(p)
    BY <1>23 DEF Unbind
<1>24. CASE Consume(p)
    BY <1>24 DEF Consume
<1>25. CASE Adopt(p)
    BY <1>25 DEF Adopt
<1>26. CASE AdoptBind(p)
    BY <1>26 DEF AdoptBind
<1>27. CASE Match(p)
    BY <1>27 DEF Match
<1>28. CASE RecordInbound(p)
    BY <1>28 DEF RecordInbound, Add
<1>29. CASE DisarmAll(p)
    BY <1>29 DEF DisarmAll
<1>30. CASE Leave(p)
    BY <1>30 DEF Leave
<1>31. CASE StoreFails(p)
    BY <1>31 DEF StoreFails, AfterReject
<1> QED
    BY <1>1, <1>2, <1>3, <1>4, <1>5, <1>6, <1>7, <1>8, <1>9, <1>10, <1>11, <1>12, <1>13,
        <1>14, <1>15, <1>16, <1>17, <1>18, <1>19, <1>20, <1>21, <1>22, <1>23, <1>24, <1>25,
        <1>26, <1>27, <1>28, <1>29, <1>30, <1>31 DEF StepOf, Continue

\* A call that moves keeps LiveOf of itself: it reads the binding afresh.
LEMMA StepKeepsLive ==
    ASSUME TypeInv, LiveOK, NEW p \in Proc, StepOf(p)
    PROVE  LiveOf(p)'
<1> USE DEF TypeInv, StoresTyped, CallsTyped, LiveOK, LiveOf, GoTo, Record, NewRecord,
        NoRecord, stores, history, Unbound, Txn
<1>1. ASSUME p \in ByFlow \cup Restarts, EnterByFlow(p) PROVE LiveOf(p)'
    BY <1>1 DEF EnterByFlow
<1>2. ASSUME p \in ByTransaction, NEW t \in Txn, LoadByTransaction(p, t) PROVE LiveOf(p)'
    BY <1>2 DEF LoadByTransaction
<1>3. ASSUME p \in Starts, StartRead(p) PROVE LiveOf(p)'
    BY <1>3 DEF StartRead
<1>4. ASSUME p \in Inbound, NEW m \in Msg, NEW t \in Txn, Arrive(p, m, t) PROVE LiveOf(p)'
    BY <1>4 DEF Arrive
<1>5. CASE LoadByFlow(p)
    BY <1>5 DEF LoadByFlow
<1>6. CASE Select(p)
    BY <1>6 DEF Select
<1>7. CASE Mark(p)
    BY <1>7 DEF Mark, SetWorking
<1>8. CASE Prepare(p)
    BY <1>8 DEF Prepare
<1>9. ASSUME NEW t \in Txn, Mint(p, t) PROVE LiveOf(p)'
    BY <1>9 DEF Mint, SetWorking
<1>10. CASE CreateOutbound(p)
    BY <1>10 DEF CreateOutbound
<1>11. CASE BindOutbound(p)
    BY <1>11 DEF BindOutbound
<1>12. CASE AppendOutbound(p)
    BY <1>12 DEF AppendOutbound, Add
<1>13. CASE Send(p)
    BY <1>13 DEF Send
<1>14. CASE SettleOutbound(p)
    BY <1>14 DEF SettleOutbound
<1>15. CASE DiscardOutbound(p)
    BY <1>15 DEF DiscardOutbound
<1>16. CASE Clear(p)
    BY <1>16 DEF Clear
<1>17. CASE StartSave(p)
    BY <1>17 DEF StartSave
<1>18. CASE Describe(p)
    BY <1>18 DEF Describe
<1>19. CASE Reread(p)
    BY <1>19 DEF Reread
<1>20. CASE Seal(p)
    BY <1>20 DEF Seal
<1>21. CASE Disarm(p)
    BY <1>21 DEF Disarm
<1>22. CASE Unmark(p)
    BY <1>22 DEF Unmark
<1>23. CASE Unbind(p)
    BY <1>23 DEF Unbind
<1>24. CASE Consume(p)
    BY <1>24 DEF Consume
<1>25. CASE Adopt(p)
    BY <1>25 DEF Adopt
<1>26. CASE AdoptBind(p)
    BY <1>26 DEF AdoptBind
<1>27. CASE Match(p)
    BY <1>27 DEF Match
<1>28. CASE RecordInbound(p)
    BY <1>28 DEF RecordInbound, Add
<1>29. CASE DisarmAll(p)
    BY <1>29 DEF DisarmAll
<1>30. CASE Leave(p)
    BY <1>30 DEF Leave
<1>31. CASE StoreFails(p)
    BY <1>31 DEF StoreFails, AfterReject
<1> QED
    BY <1>1, <1>2, <1>3, <1>4, <1>5, <1>6, <1>7, <1>8, <1>9, <1>10, <1>11, <1>12, <1>13,
        <1>14, <1>15, <1>16, <1>17, <1>18, <1>19, <1>20, <1>21, <1>22, <1>23, <1>24, <1>25,
        <1>26, <1>27, <1>28, <1>29, <1>30, <1>31 DEF StepOf, Continue

LEMMA LiveStep == ASSUME TypeInv, LockOK, LiveOK, [Next]_vars PROVE LiveOK'
<1>1. ASSUME NEW p \in Proc, StepOf(p), NEW q \in Proc PROVE LiveOf(q)'
    <2>1. CASE q = p
        BY <1>1, <2>1, StepKeepsLive
    <2>2. CASE q # p
        <3> SUFFICES ASSUME q \in ByFlow, txn'[q] # Unbound,
                            pc'[q] \in {"select", "mark", "prepare", "bind", "append", "send"}
                     PROVE  ~records'[txn'[q]].abandoned
            BY DEF LiveOf
        <3>1. txn'[q] = txn[q] /\ pc'[q] = pc[q]
            BY <1>1, <2>2, StepIsApart DEF TypeInv, Apart
        <3>2. txn[q] \in Txn /\ ~records[txn[q]].abandoned
            BY <3>1 DEF LiveOK, LiveOf, TypeInv, CallsTyped
        <3>3. ~(p \in Restarts /\ pc[p] = "seal")
            BY <2>2, <3>1 DEF LockOK
        <3> QED
            BY <1>1, <3>1, <3>2, <3>3, StepSeals DEF SealMove
    <2> QED
        BY <2>1, <2>2
<1>2. CASE Crash
    BY <1>2, CrashIs DEF TypeInv, LiveOK, LiveOf
<1>3. CASE UNCHANGED vars
    BY <1>3 DEF vars, stores, LiveOK, LiveOf
<1> QED
    BY <1>1, <1>2, <1>3, NextIsAStep DEF LiveOK

LiveInv == TypeInv /\ LockOK /\ LiveOK

\* LiveOK holds of every run, whoever calls.
LEMMA LiveInvariant == Spec => []LiveInv
<1>1. Init => LiveInv
    <2>1. Init => LockOK /\ LiveOK
        BY DEF Init, LockOK, LiveOK, LiveOf, Proc, Proceeds
    <2> QED
        BY <2>1, TypeInit DEF LiveInv
<1>2. LiveInv /\ [Next]_vars => LiveInv'
    BY TypeStep, LockStep, LiveStep DEF LiveInv
<1> QED
    BY <1>1, <1>2, PTL DEF Spec

\* A call by transaction that may yet send reads a live record, or goes on with the
\* one it read.
LateMove(p) ==
    p \in ByTransaction /\ pc'[p] \in Sending =>
        \/ pc[p] \in Sending /\ txn'[p] = txn[p]
        \/ txn'[p] \in Txn /\ ~records'[txn'[p]].abandoned

\* Only LoadByTransaction brings such a call to a record.
LEMMA StepLoads ==
    ASSUME TypeInv, NEW p \in Proc, StepOf(p)
    PROVE  LateMove(p)
<1> SUFFICES ASSUME p \in ByTransaction, pc'[p] \in Sending
             PROVE  \/ pc[p] \in Sending /\ txn'[p] = txn[p]
                    \/ txn'[p] \in Txn /\ ~records'[txn'[p]].abandoned
    BY DEF LateMove
<1>0. /\ pc \in [Proc -> Place] /\ txn \in [Proc -> Txn \cup {Unbound}]
      /\ pc[p] \in OnStep \cup {"idle", "select", "clear", "leave", "done"}
      /\ pc[p] \notin {"mint", "create", "bind"}
    BY DEF TypeInv, CallsTyped, CallsOK, PlaceOK
<1>1. ASSUME NEW t \in Txn, LoadByTransaction(p, t)
      PROVE  txn'[p] \in Txn /\ ~records'[txn'[p]].abandoned
    BY <1>0, <1>1 DEF LoadByTransaction, GoTo, Sending, stores
<1>2. CASE Select(p) \/ Mark(p) \/ Prepare(p) \/ AppendOutbound(p)
    BY <1>0, <1>2 DEF Select, Mark, Prepare, AppendOutbound, GoTo, Sending
<1>3. ~(Send(p) \/ SettleOutbound(p) \/ DiscardOutbound(p) \/ Clear(p) \/ Leave(p))
    BY <1>0 DEF Send, SettleOutbound, DiscardOutbound, Clear, Leave, GoTo, Sending
<1>4. ~StoreFails(p)
    BY <1>0 DEF StoreFails, AfterReject, GoTo, Sending
<1>5. ~(LoadByFlow(p) \/ (\E t \in Txn : Mint(p, t)) \/ CreateOutbound(p) \/ BindOutbound(p))
    BY <1>0 DEF LoadByFlow, Mint, CreateOutbound, BindOutbound, OnStep, OnTxn
<1>6. ~(StartSave(p) \/ Describe(p) \/ Reread(p) \/ Seal(p) \/ Disarm(p) \/ Unmark(p) \/ Unbind(p))
    BY <1>0 DEF StartSave, Describe, Reread, Seal, Disarm, Unmark, Unbind, OnStep, OnTxn
<1>7. ~(Consume(p) \/ Adopt(p) \/ AdoptBind(p) \/ Match(p) \/ RecordInbound(p) \/ DisarmAll(p))
    BY <1>0 DEF Consume, Adopt, AdoptBind, Match, RecordInbound, DisarmAll, OnStep, OnTxn
<1>8. p \notin ByFlow \cup Restarts \cup Starts \cup Inbound
    BY DEF Proceeds
<1> QED
    BY <1>1, <1>2, <1>3, <1>4, <1>5, <1>6, <1>7, <1>8 DEF StepOf, Continue

LEMMA LateStep == ASSUME TypeInv, LateOK, [Next]_vars PROVE LateOK'
<1>1. ASSUME NEW p \in Proc, StepOf(p), NEW q \in Proc PROVE LateOf(q)'
    <2> SUFFICES ASSUME q \in ByTransaction, pc'[q] \in Sending, records'[txn'[q]].abandoned
                 PROVE  q \in late'
        BY DEF LateOf
    <2>1. pc[q] \in Sending /\ txn'[q] = txn[q]
        <3>1. CASE q = p
            BY <1>1, <3>1, StepLoads DEF LateMove
        <3>2. CASE q # p
            BY <1>1, <3>2, StepIsApart DEF TypeInv, Apart
        <3> QED
            BY <3>1, <3>2
    <2>2. txn[q] \in Txn
        BY <2>1 DEF TypeInv, CallsOK, HandsOK, Sending
    <2>3. CASE records[txn[q]].abandoned
        <3>1. q \in late
            BY <2>1, <2>3 DEF LateOK, LateOf
        <3> QED
            BY <1>1, <3>1, StepSeals DEF SealMove
    <2>4. CASE ~records[txn[q]].abandoned
        <3>1. UnderWayOn(txn[q]) \subseteq late'
            BY <1>1, <2>1, <2>2, <2>4, StepSeals DEF SealMove
        <3>2. q \in UnderWayOn(txn[q])
            BY <2>1 DEF UnderWayOn, Sending
        <3> QED
            BY <3>1, <3>2
    <2> QED
        BY <2>3, <2>4
<1>2. CASE Crash
    BY <1>2, CrashIs DEF TypeInv, LateOK, LateOf, Sending
<1>3. CASE UNCHANGED vars
    BY <1>3 DEF vars, stores, history, LateOK, LateOf
<1> QED
    BY <1>1, <1>2, <1>3, NextIsAStep DEF LateOK

QuietInv == LiveInv /\ LateOK

\* LateOK holds of every run too.
LEMMA QuietInvariant == Spec => []QuietInv
<1>1. Init => LateOK
    BY DEF Init, LateOK, LateOf, Sending, Proc, Proceeds
<1>2. QuietInv /\ [Next]_vars => LateOK'
    BY LateStep DEF QuietInv, LiveInv
<1> QED
    BY <1>1, <1>2, LiveInvariant, PTL DEF Spec, QuietInv

\* What goes on the wire of a sealed attempt was under way when it was sealed.
LEMMA SendsAreLive ==
    ASSUME QuietInv, [Next]_vars, NEW w \in wire' \ wire, records[w.txn].abandoned
    PROVE  w.by \in late
<1>1. ASSUME NEW p \in Proc, StepOf(p) PROVE w.by \in late
    <2>1. pc[p] = "send" /\ w.txn = txn[p] /\ w.by = p
        BY <1>1, StepMovesWire DEF QuietInv, LiveInv, WireMove
    <2>2. p \in Proceeds
        BY <2>1 DEF QuietInv, LiveInv, TypeInv, CallsOK, PlaceOK, Proc, Proceeds
    <2>3. txn[p] # Unbound
        BY <2>1 DEF QuietInv, LiveInv, TypeInv, CallsOK, HandsOK, OnTxn, Txn, Unbound
    <2>4. p \notin ByFlow
        BY <2>1, <2>3 DEF QuietInv, LiveInv, LiveOK, LiveOf
    <2>5. p \in ByTransaction
        BY <2>2, <2>4 DEF Proceeds
    <2> QED
        BY <2>1, <2>5 DEF QuietInv, LateOK, LateOf, Sending
<1>2. ~(Crash \/ UNCHANGED vars)
    BY DEF Crash, vars, history
<1> QED
    BY <1>1, <1>2, NextIsAStep

\* Once restart has sealed an attempt only a call by transaction that had read it
\* before can send on it, whoever calls, with flow_start, crashes and adoptions
\* in between: a call that names the flow never does, and neither does one by
\* transaction that comes after.
THEOREM RestartSilencesTheAttempt == Spec => RestartIsQuiet
<1>1. QuietInv /\ [Next]_vars =>
        \A w \in wire' \ wire : records[w.txn].abandoned => w.by \in late
    BY SendsAreLive
<1> QED
    BY <1>1, QuietInvariant, PTL DEF Spec, RestartIsQuiet

----------------------------------------------------------------------------
(***************************************************************************)
(* What a step does to the exchanges of a transaction.                     *)
(***************************************************************************)
Left(t) == records'[t].entries = Entries(t)

\* A participant's call is recorded.
TakesIn(p, t) ==
    /\ p \in Inbound /\ msg[p] \in Msg /\ t = txn[p]
    /\ \E e \in Entry : e.step \notin Ours /\ e.id \in Msg /\ records'[t].entries = Append(Entries(t), e)

\* A dispatch is at work.
Writes(p, t) ==
    /\ p \in Proceeds /\ t = txn[p]
    /\ \/ pc[p] = "create" /\ pc'[p] = "bind" /\ records'[t].entries = <<>>
       \/ /\ pc[p] = "append" /\ pc'[p] = "send"
          /\ records'[t].entries = Append(Entries(t), [step |-> want[p], id |-> p, state |-> "in_flight"])
       \/ /\ pc[p] \in {"settle", "fail"} /\ pc'[p] = "clear"
          /\ Len(records'[t].entries) = Len(Entries(t))
          /\ \A i \in DOMAIN Entries(t) : Same(records'[t].entries[i], Entries(t)[i])
       \/ pc[p] = "discard" /\ pc'[p] = "clear" /\ records'[t].entries = Without(Entries(t), p)

EntriesMove(p, t) == Left(t) \/ TakesIn(p, t) \/ Writes(p, t)

\* What one step does to the entries of one transaction.
LEMMA StepMovesEntries ==
    ASSUME TypeInv, MintInv, NEW u \in Txn, NEW p \in Proc, StepOf(p)
    PROVE  EntriesMove(p, u)
<1> USE DEF TypeInv, StoresTyped, EntriesMove
<1>0. u # txn[p] => Left(u)
    BY StepMovesMint DEF MintMove, Left, Entries
<1>1. ASSUME p \in ByFlow \cup Restarts, EnterByFlow(p) PROVE EntriesMove(p, u)
    <2>1. records' = records
        BY <1>1 DEF EnterByFlow, stores
    <2> QED
        BY <2>1 DEF Left, Entries
<1>2. ASSUME p \in ByTransaction, NEW t \in Txn, LoadByTransaction(p, t) PROVE EntriesMove(p, u)
    <2>1. records' = records
        BY <1>2 DEF LoadByTransaction, stores
    <2> QED
        BY <2>1 DEF Left, Entries
<1>3. ASSUME p \in Starts, StartRead(p) PROVE EntriesMove(p, u)
    <2>1. records' = records
        BY <1>3 DEF StartRead, stores
    <2> QED
        BY <2>1 DEF Left, Entries
<1>4. ASSUME p \in Inbound, NEW m \in Msg, NEW t \in Txn, Arrive(p, m, t) PROVE EntriesMove(p, u)
    <2>1. records' = records
        BY <1>4 DEF Arrive, stores
    <2> QED
        BY <2>1 DEF Left, Entries
<1>5. CASE LoadByFlow(p) \/ Select(p) \/ Mark(p) \/ Prepare(p)
    <2>1. records' = records
        BY <1>5 DEF LoadByFlow, Select, Mark, Prepare, stores
    <2> QED
        BY <2>1 DEF Left, Entries
<1>6. ASSUME NEW t \in Txn, Mint(p, t) PROVE EntriesMove(p, u)
    <2>1. records' = records
        BY <1>6 DEF Mint, stores
    <2> QED
        BY <2>1 DEF Left, Entries
<1>7. CASE CreateOutbound(p)
    <2>1. p \in Proceeds /\ pc[p] = "create" /\ pc'[p] = "bind"
        BY <1>7 DEF CreateOutbound, GoTo, CallsTyped, CallsOK, PlaceOK, HandsOK, OnTxn, OnStep, Proc
    <2>2. CASE u # txn[p]
        BY <1>0, <2>2
    <2>3. CASE u = txn[p]
        <3>1. records'[u].entries = <<>>
            BY <1>7, <2>3 DEF CreateOutbound, NewRecord, NoRecord
        <3> QED
            BY <2>1, <2>3, <3>1 DEF Writes
    <2> QED
        BY <2>2, <2>3
<1>8. CASE BindOutbound(p) \/ Send(p) \/ Clear(p)
    <2>1. records' = records
        BY <1>8 DEF BindOutbound, Send, Clear, stores
    <2> QED
        BY <2>1 DEF Left, Entries
<1>9. CASE AppendOutbound(p)
    <2>1. p \in Proceeds /\ pc[p] = "append" /\ pc'[p] = "send"
        BY <1>9 DEF AppendOutbound, GoTo, CallsTyped, CallsOK, PlaceOK, HandsOK, OnTxn, OnStep, Proc
    <2>2. CASE u # txn[p]
        BY <1>0, <2>2
    <2>3. CASE u = txn[p]
        <3> DEFINE e == [step |-> want[p], id |-> p, state |-> "in_flight"]
        <3>1. Add(u, e)
            BY <1>9, <2>3 DEF AppendOutbound
        <3> HIDE DEF e
        <3>2. records'[u].entries = Append(Entries(u), e)
            BY <3>1 DEF Add, Entries, Record
        <3> QED
            BY <2>1, <2>3, <3>2 DEF Writes, e
    <2> QED
        BY <2>2, <2>3
<1>10. CASE SettleOutbound(p)
    <2>1. p \in Proceeds /\ pc[p] \in {"settle", "fail"} /\ pc'[p] = "clear"
        BY <1>10 DEF SettleOutbound, GoTo, CallsTyped, CallsOK, PlaceOK, HandsOK, OnTxn, OnStep, Proc
    <2>2. CASE u # txn[p]
        BY <1>0, <2>2
    <2>3. CASE u = txn[p]
        BY <1>10, <2>1, <2>3, SettleIs DEF Writes
    <2> QED
        BY <2>2, <2>3
<1>11. CASE DiscardOutbound(p)
    <2>1. p \in Proceeds /\ pc[p] = "discard" /\ pc'[p] = "clear"
        BY <1>11 DEF DiscardOutbound, GoTo, CallsTyped, CallsOK, PlaceOK, HandsOK, OnTxn, OnStep, Proc
    <2>2. CASE u # txn[p]
        BY <1>0, <2>2
    <2>3. CASE u = txn[p]
        <3>1. records'[u].entries = Without(Entries(u), p)
            BY <1>11, <2>3 DEF DiscardOutbound, Entries, Record
        <3> QED
            BY <2>1, <2>3, <3>1 DEF Writes
    <2> QED
        BY <2>2, <2>3
<1>12. CASE StartSave(p) \/ Describe(p) \/ Leave(p)
    <2>1. records' = records
        BY <1>12 DEF StartSave, Describe, Leave, stores
    <2> QED
        BY <2>1 DEF Left, Entries
<1>13. CASE Reread(p) \/ Disarm(p) \/ Unmark(p) \/ Unbind(p)
    <2>1. records' = records
        BY <1>13 DEF Reread, Disarm, Unmark, Unbind, stores
    <2> QED
        BY <2>1 DEF Left, Entries
<1>14. CASE Seal(p)
    BY <1>14 DEF Seal, Left, Entries, Record
<1>15. CASE Adopt(p)
    BY <1>15 DEF Adopt, MintInv, NeverAdopts
<1>16. CASE Consume(p) \/ AdoptBind(p) \/ Match(p) \/ DisarmAll(p)
    <2>1. records' = records
        BY <1>16 DEF Consume, AdoptBind, Match, DisarmAll, stores
    <2> QED
        BY <2>1 DEF Left, Entries
<1>17. CASE RecordInbound(p)
    <2>1. p \in Inbound /\ msg[p] \in Msg /\ pc[p] \in {"ack", "nack"}
        BY <1>17 DEF RecordInbound, Proceeds, CallsOK, PlaceOK, HandsOK, OnTxn, OnStep, Proc
    <2>2. CASE u # txn[p]
        BY <1>0, <2>2
    <2>3. CASE u = txn[p]
        <3> DEFINE e == [step |-> ActionOf[msg[p]], id |-> msg[p], state |-> pc[p]]
        <3>1. e \in Entry /\ e.step \notin Ours /\ e.id \in Msg
            BY <2>1, MsgAssumption DEF Entry
        <3>2. Add(u, e)
            BY <1>17, <2>3 DEF RecordInbound
        <3> HIDE DEF e
        <3>3. records'[u].entries = Append(Entries(u), e)
            BY <3>2 DEF Add, Entries, Record
        <3> QED
            BY <2>1, <2>3, <3>1, <3>3 DEF TakesIn
    <2> QED
        BY <2>2, <2>3
<1>18. CASE StoreFails(p)
    <2>1. records' = records
        BY <1>18 DEF StoreFails, stores
    <2> QED
        BY <2>1 DEF Left, Entries
<1> QED
    BY <1>1, <1>2, <1>3, <1>4, <1>5, <1>6, <1>7, <1>8, <1>9, <1>10, <1>11, <1>12, <1>13,
        <1>14, <1>15, <1>16, <1>17, <1>18 DEF StepOf, Continue

----------------------------------------------------------------------------
(***************************************************************************)
(* The cursor under those changes.                                         *)
(***************************************************************************)
LEMMA NextStepGrows ==
    ASSUME NEW s \in Seq(Entry), NEW e \in Entry
    PROVE  NextStep(Append(s, e)) >= NextStep(s)
    BY NextStepOfAppend, NextStepIsNumber

\* An entry of the counterparty's step never moves the cursor off a step of ours.
LEMMA NextStepOfOther ==
    ASSUME NEW s \in Seq(Entry), NEW e \in Entry, e.step # NextStep(s)
    PROVE  NextStep(Append(s, e)) = NextStep(s)
    BY NextStepOfAppend

\* The last entry, removed again.
LEMMA RemoveLast ==
    ASSUME NEW s \in Seq(Entry), NEW e \in Entry
    PROVE  NextStep(RemoveAt(Append(s, e), Len(s) + 1)) = NextStep(s)
<1> DEFINE a == Append(s, e)
           n == Len(s)
           b == RemoveAt(a, n + 1)
<1>1. a \in Seq(Entry) /\ Len(a) = n + 1 /\ n \in Nat /\ \A j \in 1..n : a[j] = s[j]
    OBVIOUS
<1>2. n + 1 \in 1..Len(a)
    BY <1>1
<1> HIDE DEF a
<1>3. b \in Seq(Entry) /\ Len(b) = n /\ \A j \in 1..n : b[j] = a[j]
    <2>1. /\ b \in Seq(Entry) /\ Len(b) = Len(a) - 1
          /\ \A j \in 1..(Len(a) - 1) : b[j] = IF j < n + 1 THEN a[j] ELSE a[j + 1]
        BY <1>1, <1>2, RemoveAtIs
    <2> HIDE DEF b, n
    <2> QED
        BY <1>1, <2>1
<1> HIDE DEF b
<1>4. \A j \in 1..Len(b) : Same(b[j], s[j])
    BY <1>1, <1>3 DEF Same
<1>5. NextStep(b) = NextStep(s)
    BY <1>3, <1>4, NextStepOfSame
<1> QED
    BY <1>5 DEF a, b

\* Another entry, removed from under a later one.
LEMMA RemoveEarlier ==
    ASSUME NEW s \in Seq(Entry), NEW e \in Entry, NEW i \in 1..Len(s)
    PROVE  NextStep(RemoveAt(Append(s, e), i)) = NextStep(Append(RemoveAt(s, i), e))
<1> DEFINE a == Append(s, e)
           n == Len(s)
           b == RemoveAt(a, i)
           r == RemoveAt(s, i)
           c == Append(r, e)
<1>1. a \in Seq(Entry) /\ Len(a) = n + 1 /\ n \in Nat /\ a[n + 1] = e /\ \A j \in 1..n : a[j] = s[j]
    OBVIOUS
<1>2. i \in 1..Len(a) /\ i \in 1..n
    BY <1>1
<1> HIDE DEF a
<1>3. b \in Seq(Entry) /\ Len(b) = n /\ \A j \in 1..n : b[j] = IF j < i THEN a[j] ELSE a[j + 1]
    <2>1. /\ b \in Seq(Entry) /\ Len(b) = Len(a) - 1
          /\ \A j \in 1..(Len(a) - 1) : b[j] = IF j < i THEN a[j] ELSE a[j + 1]
        BY <1>1, <1>2, RemoveAtIs
    <2> HIDE DEF b, n
    <2> QED
        BY <1>1, <2>1
<1>4. r \in Seq(Entry) /\ Len(r) = n - 1 /\ \A j \in 1..(n - 1) : r[j] = IF j < i THEN s[j] ELSE s[j + 1]
    BY RemoveAtIs
<1> HIDE DEF b, r
<1>5. c \in Seq(Entry) /\ Len(c) = n /\ c[n] = e /\ \A j \in 1..(n - 1) : c[j] = r[j]
    BY <1>1, <1>2, <1>4
<1> HIDE DEF c
<1>6. ASSUME NEW j \in 1..n PROVE b[j] = c[j]
    <2>1. CASE j = n
        BY <1>1, <1>2, <1>3, <1>5, <2>1
    <2>2. CASE j # n
        <3> HIDE DEF n
        <3>1. j \in 1..(n - 1) /\ j + 1 \in 1..n
            BY <1>1, <2>2
        <3>2. c[j] = IF j < i THEN s[j] ELSE s[j + 1]
            BY <1>4, <1>5, <3>1
        <3>3. a[j] = s[j] /\ a[j + 1] = s[j + 1]
            BY <1>1, <3>1
        <3> QED
            BY <1>3, <3>2, <3>3
    <2> QED
        BY <2>1, <2>2
<1>7. \A j \in 1..Len(b) : Same(b[j], c[j])
    BY <1>3, <1>6 DEF Same
<1>8. NextStep(b) = NextStep(c)
    BY <1>3, <1>5, <1>7, NextStepOfSame
<1> QED
    BY <1>8 DEF a, b, c, r

\* With one entry of p, discarding p's entries is removing that one.
LEMMA WithoutIsRemove ==
    ASSUME NEW s \in Seq(Entry), NEW p, NEW i \in DOMAIN s, s[i].id = p,
           \A j \in DOMAIN s : s[j].id = p => j = i
    PROVE  Without(s, p) = RemoveAt(s, i)
<1>1. PICK k \in DOMAIN s : k = CHOOSE j \in DOMAIN s : s[j].id = p
    OBVIOUS
<1>2. s[k].id = p
    BY <1>1
<1>3. k = i
    BY <1>2
<1> QED
    BY <1>1, <1>3 DEF Without

\* What is left after a discard was there before it.
LEMMA WithoutFrom ==
    ASSUME NEW s \in Seq(Entry), NEW p, NEW i \in DOMAIN Without(s, p)
    PROVE  \E j \in DOMAIN s : Without(s, p)[i] = s[j]
<1>1. CASE \E k \in DOMAIN s : s[k].id = p
    <2>1. PICK k \in DOMAIN s : k = CHOOSE j \in DOMAIN s : s[j].id = p
        BY <1>1
    <2>2. Without(s, p) = RemoveAt(s, k) /\ k \in 1..Len(s) /\ Len(s) \in Nat
        BY <1>1, <2>1 DEF Without
    <2>3. i \in 1..(Len(s) - 1)
        BY <2>2, RemoveAtIs
    <2>4. RemoveAt(s, k)[i] = IF i < k THEN s[i] ELSE s[i + 1]
        BY <2>2, <2>3, RemoveAtIs
    <2>5. i \in DOMAIN s /\ i + 1 \in DOMAIN s
        BY <2>2, <2>3
    <2> QED
        BY <2>2, <2>4, <2>5
<1>2. CASE ~\E k \in DOMAIN s : s[k].id = p
    BY <1>2 DEF Without
<1> QED
    BY <1>1, <1>2

LEMMA EntriesAre == ASSUME TypeInv, NEW t \in Txn PROVE Entries(t) \in Seq(Entry)
    BY DEF TypeInv, StoresTyped, Entries, Record

\* A dispatch does not go back.
LEMMA StepKeepsUnwritten ==
    ASSUME TypeInv, NEW p \in Proc, StepOf(p)
    PROVE  p \in Proceeds /\ pc'[p] \in Unwritten => pc[p] \in Unwritten
<1> USE DEF TypeInv, CallsTyped, Unwritten, GoTo
<1>1. ASSUME p \in ByFlow \cup Restarts, EnterByFlow(p)
      PROVE  p \in Proceeds /\ pc'[p] \in Unwritten => pc[p] \in Unwritten
    BY <1>1 DEF EnterByFlow
<1>2. ASSUME p \in ByTransaction, NEW t \in Txn, LoadByTransaction(p, t)
      PROVE  p \in Proceeds /\ pc'[p] \in Unwritten => pc[p] \in Unwritten
    BY <1>2 DEF LoadByTransaction
<1>3. ASSUME p \in Starts, StartRead(p)
      PROVE  p \in Proceeds /\ pc'[p] \in Unwritten => pc[p] \in Unwritten
    BY <1>3 DEF StartRead
<1>4. ASSUME p \in Inbound, NEW m \in Msg, NEW t \in Txn, Arrive(p, m, t)
      PROVE  p \in Proceeds /\ pc'[p] \in Unwritten => pc[p] \in Unwritten
    BY <1>4 DEF Arrive
<1>5. CASE LoadByFlow(p)
    BY <1>5 DEF LoadByFlow
<1>6. CASE Select(p)
    BY <1>6 DEF Select
<1>7. CASE Mark(p)
    BY <1>7 DEF Mark, SetWorking
<1>8. CASE Prepare(p)
    BY <1>8 DEF Prepare
<1>9. ASSUME NEW t \in Txn, Mint(p, t)
      PROVE  p \in Proceeds /\ pc'[p] \in Unwritten => pc[p] \in Unwritten
    BY <1>9 DEF Mint, SetWorking
<1>10. CASE CreateOutbound(p)
    BY <1>10 DEF CreateOutbound
<1>11. CASE BindOutbound(p)
    BY <1>11 DEF BindOutbound
<1>12. CASE AppendOutbound(p)
    BY <1>12 DEF AppendOutbound, Add
<1>13. CASE Send(p)
    BY <1>13 DEF Send
<1>14. CASE SettleOutbound(p)
    BY <1>14 DEF SettleOutbound
<1>15. CASE DiscardOutbound(p)
    BY <1>15 DEF DiscardOutbound
<1>16. CASE Clear(p)
    BY <1>16 DEF Clear
<1>17. CASE StartSave(p)
    BY <1>17 DEF StartSave
<1>18. CASE Describe(p)
    BY <1>18 DEF Describe
<1>19. CASE Reread(p)
    BY <1>19 DEF Reread
<1>20. CASE Seal(p)
    BY <1>20 DEF Seal
<1>21. CASE Disarm(p)
    BY <1>21 DEF Disarm
<1>22. CASE Unmark(p)
    BY <1>22 DEF Unmark
<1>23. CASE Unbind(p)
    BY <1>23 DEF Unbind
<1>24. CASE Consume(p)
    BY <1>24 DEF Consume
<1>25. CASE Adopt(p)
    BY <1>25 DEF Adopt
<1>26. CASE AdoptBind(p)
    BY <1>26 DEF AdoptBind
<1>27. CASE Match(p)
    BY <1>27 DEF Match
<1>28. CASE RecordInbound(p)
    BY <1>28 DEF RecordInbound, Add
<1>29. CASE DisarmAll(p)
    BY <1>29 DEF DisarmAll
<1>30. CASE Leave(p)
    BY <1>30 DEF Leave
<1>31. CASE StoreFails(p)
    BY <1>31 DEF StoreFails, AfterReject
<1> QED
    BY <1>1, <1>2, <1>3, <1>4, <1>5, <1>6, <1>7, <1>8, <1>9, <1>10, <1>11, <1>12, <1>13,
        <1>14, <1>15, <1>16, <1>17, <1>18, <1>19, <1>20, <1>21, <1>22, <1>23, <1>24, <1>25,
        <1>26, <1>27, <1>28, <1>29, <1>30, <1>31 DEF StepOf, Continue

\* EntryOf is preserved: only AppendOutbound adds an entry under a call's name.
LEMMA EntryStep ==
    ASSUME TypeInv, MintInv, \A q \in Proc : EntryOf(q), NEW p \in Proc, StepOf(p), NEW q \in Proc
    PROVE  EntryOf(q)'
<1> SUFFICES ASSUME q \in Proceeds, pc'[q] \in Unwritten, NEW t \in Txn,
                    NEW i \in DOMAIN records'[t].entries, records'[t].entries[i].id = q
             PROVE  FALSE
    BY DEF EntryOf, HasEntry, Entries
<1>1. pc[q] \in Unwritten
    <2>1. q # p => pc'[q] = pc[q]
        BY StepIsApart DEF TypeInv, Apart
    <2> QED
        BY <2>1, StepKeepsUnwritten
<1>2. \A j \in DOMAIN Entries(t) : Entries(t)[j].id # q
    BY <1>1 DEF EntryOf, HasEntry
<1>3. Entries(t) \in Seq(Entry)
    BY EntriesAre
<1>4. CASE Left(t)
    BY <1>2, <1>4 DEF Left
<1>5. CASE TakesIn(p, t)
    <2>1. PICK e \in Entry : e.id \in Msg /\ records'[t].entries = Append(Entries(t), e)
        BY <1>5 DEF TakesIn
    <2> QED
        BY <1>2, <1>3, <2>1
<1>6. CASE Writes(p, t)
    <2>1. CASE records'[t].entries = <<>>
        BY <2>1
    <2>2. CASE /\ pc'[p] = "send"
               /\ records'[t].entries = Append(Entries(t), [step |-> want[p], id |-> p, state |-> "in_flight"])
        <3>1. q # p
            BY <2>2 DEF Unwritten
        <3> DEFINE e == [step |-> want[p], id |-> p, state |-> "in_flight"]
        <3>2. e.id = p /\ records'[t].entries = Append(Entries(t), e)
            BY <2>2
        <3> HIDE DEF e
        <3> QED
            BY <1>2, <1>3, <3>1, <3>2
    <2>3. CASE /\ Len(records'[t].entries) = Len(Entries(t))
               /\ \A j \in DOMAIN Entries(t) : Same(records'[t].entries[j], Entries(t)[j])
        <3>1. records'[t].entries \in Seq(Entry)
            BY StepKeepsRecords DEF Record
        <3>2. i \in DOMAIN Entries(t)
            BY <1>3, <2>3, <3>1
        <3> QED
            BY <1>2, <2>3, <3>2 DEF Same
    <2>4. CASE records'[t].entries = Without(Entries(t), p)
        BY <1>2, <1>3, <2>4, WithoutFrom
    <2> QED
        BY <1>6, <2>1, <2>2, <2>3, <2>4 DEF Writes
<1> QED
    BY <1>4, <1>5, <1>6, StepMovesEntries DEF EntriesMove

\* What it is to send is what is owed.
LEMMA StepKeepsOwed ==
    ASSUME TypeInv, MintInv, \A r \in Proc : OwedOf(r), NEW p \in Proc, StepOf(p)
    PROVE  OwedOf(p)'
<1> USE DEF TypeInv, StoresTyped, CallsTyped, OwedOf, Entries, GoTo, stores, history
<1>1. ASSUME p \in ByFlow \cup Restarts, EnterByFlow(p) PROVE OwedOf(p)'
    BY <1>1 DEF EnterByFlow
<1>2. ASSUME p \in ByTransaction, NEW t \in Txn, LoadByTransaction(p, t) PROVE OwedOf(p)'
    BY <1>2 DEF LoadByTransaction
<1>3. ASSUME p \in Starts, StartRead(p) PROVE OwedOf(p)'
    BY <1>3 DEF StartRead
<1>4. ASSUME p \in Inbound, NEW m \in Msg, NEW t \in Txn, Arrive(p, m, t) PROVE OwedOf(p)'
    BY <1>4 DEF Arrive
<1>5. CASE LoadByFlow(p)
    BY <1>5 DEF LoadByFlow
<1>6. CASE Select(p)
    BY <1>6 DEF Select
<1>7. CASE Mark(p)
    BY <1>7 DEF Mark, SetWorking
<1>8. CASE Prepare(p)
    BY <1>8 DEF Prepare
<1>9. ASSUME NEW t \in Txn, Mint(p, t) PROVE OwedOf(p)'
    BY <1>9 DEF Mint, SetWorking
<1>10. CASE CreateOutbound(p)
    <2>1. /\ txn[p] \in Txn /\ want[p] = 1 /\ txn'[p] = txn[p] /\ want'[p] = want[p]
        BY <1>10 DEF CreateOutbound, CallsOK, HandsOK, OnTxn, MintInv, FirstOK, FirstOf
    <2>2. records'[txn[p]].entries = <<>>
        BY <1>10, <2>1 DEF CreateOutbound, NewRecord, NoRecord
    <2> QED
        BY <2>1, <2>2, NextStepOfNothing
<1>11. CASE BindOutbound(p)
    BY <1>11 DEF BindOutbound
<1>12. CASE AppendOutbound(p)
    BY <1>12 DEF AppendOutbound, Add
<1>13. CASE Send(p)
    BY <1>13 DEF Send
<1>14. CASE SettleOutbound(p)
    BY <1>14 DEF SettleOutbound
<1>15. CASE DiscardOutbound(p)
    BY <1>15 DEF DiscardOutbound
<1>16. CASE Clear(p)
    BY <1>16 DEF Clear
<1>17. CASE StartSave(p)
    BY <1>17 DEF StartSave
<1>18. CASE Describe(p)
    BY <1>18 DEF Describe
<1>19. CASE Reread(p)
    BY <1>19 DEF Reread
<1>20. CASE Seal(p)
    BY <1>20 DEF Seal
<1>21. CASE Disarm(p)
    BY <1>21 DEF Disarm
<1>22. CASE Unmark(p)
    BY <1>22 DEF Unmark
<1>23. CASE Unbind(p)
    BY <1>23 DEF Unbind
<1>24. CASE Consume(p)
    BY <1>24 DEF Consume
<1>25. CASE Adopt(p)
    BY <1>25 DEF Adopt
<1>26. CASE AdoptBind(p)
    BY <1>26 DEF AdoptBind
<1>27. CASE Match(p)
    BY <1>27 DEF Match
<1>28. CASE RecordInbound(p)
    BY <1>28 DEF RecordInbound, Add
<1>29. CASE DisarmAll(p)
    BY <1>29 DEF DisarmAll
<1>30. CASE Leave(p)
    BY <1>30 DEF Leave
<1>31. CASE StoreFails(p)
    BY <1>31 DEF StoreFails, AfterReject
<1> QED
    BY <1>1, <1>2, <1>3, <1>4, <1>5, <1>6, <1>7, <1>8, <1>9, <1>10, <1>11, <1>12, <1>13,
        <1>14, <1>15, <1>16, <1>17, <1>18, <1>19, <1>20, <1>21, <1>22, <1>23, <1>24, <1>25,
        <1>26, <1>27, <1>28, <1>29, <1>30, <1>31 DEF StepOf, Continue

\* Beneath the run lock, other calls leave a dispatch's transaction alone, except
\* that a participant's call may be recorded on it.
LEMMA OthersTakeIn ==
    ASSUME TypeInv, LockOK, MintInv, AllByFlow, NEW p \in Proc, StepOf(p),
           NEW q \in ByFlow, q # p, pc[q] \notin {"idle", "done"}, NEW t \in Txn
    PROVE  (Left(t) \/ TakesIn(p, t)) /\ wire' = wire
<1>1. ~(p \in Proceeds /\ pc[p] \notin {"idle", "done"})
    BY DEF LockOK, AllByFlow, Proceeds
<1>2. ~Writes(p, t)
    BY <1>1 DEF Writes
<1>3. wire' = wire
    <2>1. pc[p] = "send" => p \in Proceeds
        BY DEF TypeInv, CallsOK, PlaceOK, Proc
    <2> QED
        BY <1>1, <2>1, StepMovesWire DEF WireMove
<1> QED
    BY <1>2, <1>3, StepMovesEntries DEF EntriesMove

\* OwedOf is preserved: under the run lock only inbound calls write, and they
\* take in the counterparty's steps.
LEMMA OwedStep ==
    ASSUME TypeInv, LockOK, MintInv, AllByFlow, \A r \in Proc : OwedOf(r),
           NEW p \in Proc, StepOf(p), NEW q \in Proc
    PROVE  OwedOf(q)'
<1>1. CASE q = p
    BY <1>1, StepKeepsOwed
<1>2. CASE q # p
    <2> SUFFICES ASSUME q \in ByFlow, pc'[q] \in {"select", "mark", "prepare", "bind", "append"},
                        txn'[q] # Unbound, want'[q] \in Ours
                 PROVE  NextStep(records'[txn'[q]].entries) = want'[q]
        BY DEF OwedOf, Entries
    <2>1. txn'[q] = txn[q] /\ pc'[q] = pc[q] /\ want'[q] = want[q]
        BY <1>2, StepIsApart DEF TypeInv, Apart
    <2>2. txn[q] \in Txn
        BY <2>1 DEF TypeInv, CallsTyped
    <2>3. NextStep(Entries(txn[q])) = want[q]
        BY <2>1 DEF OwedOf
    <2>4. Left(txn[q]) \/ TakesIn(p, txn[q])
        BY <1>2, <2>1, <2>2, OthersTakeIn
    <2>5. CASE Left(txn[q])
        BY <2>1, <2>3, <2>5 DEF Left
    <2>6. CASE TakesIn(p, txn[q])
        <3>1. PICK e \in Entry : e.step \notin Ours /\ records'[txn[q]].entries = Append(Entries(txn[q]), e)
            BY <2>6 DEF TakesIn
        <3>2. e.step # NextStep(Entries(txn[q]))
            BY <2>1, <2>3, <3>1
        <3>3. NextStep(Append(Entries(txn[q]), e)) = want[q]
            BY <2>2, <2>3, <3>2, EntriesAre, NextStepOfOther
        <3> QED
            BY <2>1, <3>1, <3>3
    <2> QED
        BY <2>4, <2>5, <2>6
<1> QED
    BY <1>1, <1>2

----------------------------------------------------------------------------
\* A dispatch comes to the send by its entry, and to a discard by the send.
ComesToSend(p) ==
    pc'[p] \in {"send", "discard"} =>
        /\ txn'[p] = txn[p] /\ want'[p] = want[p]
        /\ \/ pc[p] = "append" /\ wire' = wire
              /\ Add(txn[p], [step |-> want[p], id |-> p, state |-> "in_flight"])
           \/ pc[p] = "send" /\ wire' = wire /\ records' = records

\* Only a successful append leads to the wire.
LEMMA StepComesToSend ==
    ASSUME TypeInv, NEW p \in Proc, StepOf(p)
    PROVE  ComesToSend(p)
<1> USE DEF TypeInv, CallsTyped, ComesToSend, GoTo, stores, history
<1>1. ASSUME p \in ByFlow \cup Restarts, EnterByFlow(p) PROVE ComesToSend(p)
    BY <1>1 DEF EnterByFlow
<1>2. ASSUME p \in ByTransaction, NEW t \in Txn, LoadByTransaction(p, t) PROVE ComesToSend(p)
    BY <1>2 DEF LoadByTransaction
<1>3. ASSUME p \in Starts, StartRead(p) PROVE ComesToSend(p)
    BY <1>3 DEF StartRead
<1>4. ASSUME p \in Inbound, NEW m \in Msg, NEW t \in Txn, Arrive(p, m, t) PROVE ComesToSend(p)
    BY <1>4 DEF Arrive
<1>5. CASE LoadByFlow(p)
    BY <1>5 DEF LoadByFlow
<1>6. CASE Select(p)
    BY <1>6 DEF Select
<1>7. CASE Mark(p)
    BY <1>7 DEF Mark, SetWorking
<1>8. CASE Prepare(p)
    BY <1>8 DEF Prepare
<1>9. ASSUME NEW t \in Txn, Mint(p, t) PROVE ComesToSend(p)
    BY <1>9 DEF Mint, SetWorking
<1>10. CASE CreateOutbound(p)
    BY <1>10 DEF CreateOutbound
<1>11. CASE BindOutbound(p)
    BY <1>11 DEF BindOutbound
<1>12. CASE AppendOutbound(p)
    BY <1>12 DEF AppendOutbound
<1>13. CASE Send(p)
    BY <1>13 DEF Send
<1>14. CASE SettleOutbound(p)
    BY <1>14 DEF SettleOutbound
<1>15. CASE DiscardOutbound(p)
    BY <1>15 DEF DiscardOutbound
<1>16. CASE Clear(p)
    BY <1>16 DEF Clear
<1>17. CASE StartSave(p)
    BY <1>17 DEF StartSave
<1>18. CASE Describe(p)
    BY <1>18 DEF Describe
<1>19. CASE Reread(p)
    BY <1>19 DEF Reread
<1>20. CASE Seal(p)
    BY <1>20 DEF Seal
<1>21. CASE Disarm(p)
    BY <1>21 DEF Disarm
<1>22. CASE Unmark(p)
    BY <1>22 DEF Unmark
<1>23. CASE Unbind(p)
    BY <1>23 DEF Unbind
<1>24. CASE Consume(p)
    BY <1>24 DEF Consume
<1>25. CASE Adopt(p)
    BY <1>25 DEF Adopt
<1>26. CASE AdoptBind(p)
    BY <1>26 DEF AdoptBind
<1>27. CASE Match(p)
    BY <1>27 DEF Match
<1>28. CASE RecordInbound(p)
    BY <1>28 DEF RecordInbound, Add
<1>29. CASE DisarmAll(p)
    BY <1>29 DEF DisarmAll
<1>30. CASE Leave(p)
    BY <1>30 DEF Leave
<1>31. CASE StoreFails(p)
    BY <1>31 DEF StoreFails, AfterReject
<1> QED
    BY <1>1, <1>2, <1>3, <1>4, <1>5, <1>6, <1>7, <1>8, <1>9, <1>10, <1>11, <1>12, <1>13,
        <1>14, <1>15, <1>16, <1>17, <1>18, <1>19, <1>20, <1>21, <1>22, <1>23, <1>24, <1>25,
        <1>26, <1>27, <1>28, <1>29, <1>30, <1>31 DEF StepOf, Continue

\* The entry just appended is the caller's one, and the cursor stood on its step.
LEMMA AppendedRests ==
    ASSUME TypeInv, CursorInv, NEW p \in ByFlow, pc[p] = "append", ComesToSend(p), pc'[p] \in {"send", "discard"}
    PROVE  WrittenOf(p)'
<1> DEFINE t == txn[p]
           s == Entries(t)
           n == Len(s)
           e == [step |-> want[p], id |-> p, state |-> "in_flight"]
           a == Append(s, e)
<1>1. p \in Proceeds /\ p \in Proc
    BY DEF Proc, Proceeds
<1>2. t \in Txn /\ want[p] \in Ours /\ t # Unbound
    BY <1>1 DEF TypeInv, CallsOK, HandsOK, OnTxn, OnStep, Txn, Unbound
<1>3. s \in Seq(Entry)
    BY <1>2, EntriesAre
<1>4. e \in Entry /\ e.id = p /\ e.step = want[p]
    BY <1>1, <1>2, StepsAssumption DEF Entry
<1>5. t = txn'[p] /\ want'[p] = want[p] /\ wire' = wire /\ Add(t, e)
    BY DEF ComesToSend
<1> HIDE DEF e
<1>6. records'[t].entries = a
    BY <1>2, <1>5 DEF Add, Entries, TypeInv, StoresTyped, Record
<1>7. NextStep(s) = want[p]
    BY <1>1, <1>2 DEF CursorInv, OwedOf
<1>8. \A i \in DOMAIN s : s[i].id # p
    BY <1>1, <1>2 DEF CursorInv, EntryOf, HasEntry, Unwritten
<1> HIDE DEF t, s
<1>9. n \in Nat /\ DOMAIN a = 1..(n + 1) /\ a[n + 1] = e /\ \A i \in 1..n : a[i] = s[i]
    BY <1>3, <1>4
<1>10. a[n + 1].id = p /\ \A j \in DOMAIN a : a[j].id = p => j = n + 1
    BY <1>3, <1>4, <1>8, <1>9
<1>11. NextStep(RemoveAt(a, n + 1)) = want[p]
    BY <1>3, <1>4, <1>7, RemoveLast
<1>12. NextStep(a) = want[p] + 1 /\ want[p] \in Nat
    <2>1. ~\E j \in 1..Len(s) : Same(s[j], e)
        BY <1>3, <1>4, <1>8 DEF Same
    <2> QED
        BY <1>3, <1>4, <1>7, <2>1, NextStepOfAppend, NextStepIsNumber
<1>13. \A w \in wire : w.txn = t => w.step < want[p]
    <2> SUFFICES ASSUME NEW w \in wire, w.txn = t PROVE w.step < want[p]
        OBVIOUS
    <2>1. NextStep(s) > w.step
        BY DEF CursorInv, SentIsRecorded, s
    <2>2. w.step \in Nat
        BY StepsAssumption DEF TypeInv, HistoryTyped, Step
    <2> QED
        BY <1>7, <1>12, <2>1, <2>2
<1>14. Rests(p, want'[p], records'[txn'[p]].entries, n + 1)
    <2>1. Rests(p, want[p], a, n + 1)
        BY <1>10, <1>11 DEF Rests
    <2> QED
        BY <1>5, <1>6, <2>1
<1>15. n + 1 \in DOMAIN records'[txn'[p]].entries
    BY <1>5, <1>6, <1>9
<1>16. NextStep(records'[txn'[p]].entries) > want'[p]
    BY <1>5, <1>6, <1>12
<1>17. \A w \in wire' : w.txn = txn'[p] => w.step < want'[p]
    BY <1>5, <1>13
<1> HIDE DEF n, a
<1> QED
    BY <1>14, <1>15, <1>16, <1>17 DEF WrittenOf, Entries

\* A participant's call behind the entry changes neither its place nor what is
\* owed without it.
LEMMA RestsUnderAppend ==
    ASSUME NEW s \in Seq(Entry), NEW e \in Entry, NEW i \in DOMAIN s, NEW p, NEW k \in Ours,
           Rests(p, k, s, i), e.id # p, e.step \notin Ours
    PROVE  i \in DOMAIN Append(s, e) /\ Rests(p, k, Append(s, e), i)
<1>1. i \in 1..Len(s) /\ RemoveAt(s, i) \in Seq(Entry)
    BY RemoveAtIs
<1>2. NextStep(Append(RemoveAt(s, i), e)) = k
    BY <1>1, NextStepOfOther DEF Rests
<1>3. NextStep(RemoveAt(Append(s, e), i)) = k
    BY <1>1, <1>2, RemoveEarlier
<1>4. /\ i \in DOMAIN Append(s, e) /\ Append(s, e)[i].id = p
      /\ \A j \in DOMAIN Append(s, e) : Append(s, e)[j].id = p => j = i
    BY <1>1 DEF Rests
<1> QED
    BY <1>3, <1>4 DEF Rests

\* WrittenOf is preserved.
LEMMA WrittenStep ==
    ASSUME TypeInv, LockOK, MintInv, CursorInv, AllByFlow, NEW p \in Proc, StepOf(p), NEW q \in Proc
    PROVE  WrittenOf(q)'
<1> SUFFICES ASSUME q \in ByFlow, pc'[q] \in {"send", "discard"} PROVE WrittenOf(q)'
    BY DEF WrittenOf
<1>1. CASE q = p
    <2>1. ComesToSend(p)
        BY <1>1, StepComesToSend
    <2>2. CASE pc[p] = "append"
        BY <1>1, <2>1, <2>2, AppendedRests
    <2>3. CASE pc[p] # "append"
        <3>1. /\ txn'[p] = txn[p] /\ want'[p] = want[p] /\ wire' = wire /\ records' = records
              /\ pc[p] = "send"
            BY <1>1, <2>1, <2>3 DEF ComesToSend
        <3>2. WrittenOf(p)
            BY DEF CursorInv
        <3> QED
            BY <1>1, <3>1, <3>2 DEF WrittenOf, Entries
    <2> QED
        BY <2>2, <2>3
<1>2. CASE q # p
    <2>1. txn'[q] = txn[q] /\ pc'[q] = pc[q] /\ want'[q] = want[q]
        BY <1>2, StepIsApart DEF TypeInv, Apart
    <2> DEFINE s == Entries(txn[q])
               u == records'[txn[q]].entries
    <2>2. txn[q] \in Txn /\ want[q] \in Ours /\ want[q] \in Nat
        BY <2>1 DEF TypeInv, CallsTyped, CallsOK, HandsOK, OnTxn, OnStep
    <2>3. s \in Seq(Entry)
        BY <2>2, EntriesAre
    <2>4. (Left(txn[q]) \/ TakesIn(p, txn[q])) /\ wire' = wire
        BY <1>2, <2>1, <2>2, OthersTakeIn
    <2>5. PICK i \in DOMAIN s : Rests(q, want[q], s, i)
        BY <2>1 DEF CursorInv, WrittenOf
    <2>6. NextStep(s) > want[q] /\ \A w \in wire : w.txn = txn[q] => w.step < want[q]
        BY <2>1 DEF CursorInv, WrittenOf
    <2>7. i \in DOMAIN u /\ Rests(q, want[q], u, i) /\ NextStep(u) > want[q]
        <3>1. CASE Left(txn[q])
            BY <2>5, <2>6, <3>1 DEF Left
        <3>2. CASE TakesIn(p, txn[q])
            <4>1. PICK e \in Entry : e.step \notin Ours /\ e.id \in Msg /\ u = Append(s, e)
                BY <3>2 DEF TakesIn
            <4>2. e.id # q
                BY <4>1
            <4> HIDE DEF s, u
            <4>3. i \in DOMAIN u /\ Rests(q, want[q], u, i)
                BY <2>2, <2>3, <2>5, <4>1, <4>2, RestsUnderAppend
            <4>4. NextStep(u) > want[q]
                <5>1. NextStep(u) >= NextStep(s)
                    BY <2>3, <4>1, NextStepGrows
                <5>2. u \in Seq(Entry)
                    BY <2>3, <4>1
                <5>3. NextStep(s) \in Nat /\ NextStep(u) \in Nat
                    BY <2>3, <5>2, NextStepIsNumber
                <5> QED
                    BY <2>2, <2>6, <5>1, <5>3
            <4> QED
                BY <4>3, <4>4
        <3> QED
            BY <2>4, <3>1, <3>2
    <2>8. u = Entries(txn[q])'
        BY <2>1 DEF Entries
    <2> HIDE DEF s, u
    <2> QED
        BY <2>1, <2>4, <2>6, <2>7, <2>8 DEF WrittenOf, Entries
<1> QED
    BY <1>1, <1>2

\* Whatever is done to a record leaves what was sent behind its cursor.
LEMMA SentStaysRecorded ==
    ASSUME TypeInv, MintInv, CursorInv, AllByFlow, NEW p \in Proc, StepOf(p), NEW w \in wire
    PROVE  NextStep(records'[w.txn].entries) > w.step
<1> DEFINE t == w.txn
           s == Entries(t)
           u == records'[t].entries
<1>1. t \in Txn /\ w.step \in Nat
    BY StepsAssumption DEF TypeInv, HistoryTyped, Step
<1>2. s \in Seq(Entry) /\ u \in Seq(Entry)
    <2>1. s \in Seq(Entry)
        BY <1>1, EntriesAre
    <2>2. records' \in [Txn -> Record]
        BY StepKeepsRecords
    <2> QED
        BY <1>1, <2>1, <2>2 DEF Record
<1>3. NextStep(s) > w.step /\ NextStep(s) \in Nat /\ NextStep(u) \in Nat
    BY <1>2, NextStepIsNumber DEF CursorInv, SentIsRecorded
<1>4. CASE \E e \in Entry : u = Append(s, e)
    <2>1. PICK e \in Entry : u = Append(s, e)
        BY <1>4
    <2>2. NextStep(u) >= NextStep(s)
        BY <1>2, <2>1, NextStepGrows
    <2>3. NextStep(u) > w.step
        <3> HIDE DEF s, u
        <3> QED
            BY <1>1, <1>3, <2>2
    <2> QED
        BY <2>3
<1>5. CASE Left(t)
    BY <1>3, <1>5 DEF Left
<1>6. CASE TakesIn(p, t)
    BY <1>4, <1>6 DEF TakesIn
<1>7. CASE Writes(p, t)
    <2>1. p \in ByFlow /\ p \in Proc /\ t = txn[p]
        BY <1>7 DEF Writes, AllByFlow, Proceeds
    <2>2. CASE pc[p] = "create"
        BY <2>1, <2>2 DEF MintInv, MintedIsOwn
    <2>3. CASE u = Append(s, [step |-> want[p], id |-> p, state |-> "in_flight"]) /\ pc[p] = "append"
        <3>1. want[p] \in Step
            BY <2>1, <2>3, StepsAssumption DEF TypeInv, CallsOK, HandsOK, OnTxn, OnStep
        <3>2. [step |-> want[p], id |-> p, state |-> "in_flight"] \in Entry
            BY <3>1 DEF Entry
        <3> QED
            BY <1>4, <2>3, <3>2
    <2>4. CASE Len(u) = Len(s) /\ \A i \in DOMAIN s : Same(u[i], s[i])
        <3>1. \A i \in 1..Len(u) : Same(u[i], s[i])
            BY <1>2, <2>4
        <3>2. NextStep(u) = NextStep(s)
            BY <1>2, <2>4, <3>1, NextStepOfSame
        <3> QED
            BY <1>3, <3>2
    <2>5. CASE pc[p] = "discard" /\ u = Without(s, p)
        <3>1. WrittenOf(p)
            BY <2>1 DEF CursorInv
        <3>2. PICK i \in DOMAIN s : Rests(p, want[p], s, i)
            BY <2>1, <2>5, <3>1 DEF WrittenOf
        <3>3. Without(s, p) = RemoveAt(s, i)
            BY <1>2, <3>2, WithoutIsRemove DEF Rests
        <3>4. NextStep(u) = want[p]
            BY <2>5, <3>2, <3>3 DEF Rests
        <3>5. w.step < want[p]
            BY <2>1, <2>5, <3>1 DEF WrittenOf
        <3> QED
            BY <1>1, <1>3, <3>4, <3>5
    <2> QED
        BY <1>7, <2>2, <2>3, <2>4, <2>5 DEF Writes
<1> QED
    BY <1>5, <1>6, <1>7, StepMovesEntries, <1>1 DEF EntriesMove

\* Only a call at "send" sends, and what it sends is its step on its transaction.
LEMMA StepSends ==
    ASSUME wire' # wire, NEW p \in Proc, StepOf(p)
    PROVE  Send(p)
<1> USE DEF stores, history
<1>1. ASSUME p \in ByFlow \cup Restarts, EnterByFlow(p) PROVE Send(p)
    BY <1>1 DEF EnterByFlow
<1>2. ASSUME p \in ByTransaction, NEW t \in Txn, LoadByTransaction(p, t) PROVE Send(p)
    BY <1>2 DEF LoadByTransaction
<1>3. ASSUME p \in Starts, StartRead(p) PROVE Send(p)
    BY <1>3 DEF StartRead
<1>4. ASSUME p \in Inbound, NEW m \in Msg, NEW t \in Txn, Arrive(p, m, t) PROVE Send(p)
    BY <1>4 DEF Arrive
<1>5. CASE LoadByFlow(p) \/ Select(p) \/ Mark(p) \/ Prepare(p) \/ CreateOutbound(p) \/ BindOutbound(p) \/
        AppendOutbound(p) \/ SettleOutbound(p) \/ DiscardOutbound(p)
    BY <1>5 DEF LoadByFlow, Select, Mark, Prepare, CreateOutbound, BindOutbound, AppendOutbound,
        SettleOutbound, DiscardOutbound, SetWorking, Add
<1>6. ASSUME NEW t \in Txn, Mint(p, t) PROVE Send(p)
    BY <1>6 DEF Mint, SetWorking
<1>7. CASE Clear(p) \/ StartSave(p) \/ Describe(p) \/ Reread(p) \/ Seal(p) \/ Disarm(p) \/ Unmark(p) \/
        Unbind(p)
    BY <1>7 DEF Clear, StartSave, Describe, Reread, Seal, Disarm, Unmark, Unbind
<1>8. CASE Consume(p) \/ Adopt(p) \/ AdoptBind(p) \/ Match(p) \/ RecordInbound(p) \/ DisarmAll(p) \/ Leave(p)
    BY <1>8 DEF Consume, Adopt, AdoptBind, Match, RecordInbound, DisarmAll, Leave, Add
<1>9. CASE Send(p)
    BY <1>9
<1>10. CASE StoreFails(p)
    BY <1>10 DEF StoreFails, AfterReject
<1> QED
    BY <1>1, <1>2, <1>3, <1>4, <1>5, <1>6, <1>7, <1>8, <1>9, <1>10 DEF StepOf, Continue

\* The send itself leaves the record alone.
LEMMA SendTakesNothingIn ==
    ASSUME TypeInv, NEW p \in Proc, StepOf(p), wire' # wire, NEW t \in Txn
    PROVE  Left(t)
<1>1. Send(p)
    BY StepSends
<1>2. records' = records
    BY <1>1 DEF Send, stores
<1> QED
    BY <1>2 DEF Left, Entries

LEMMA CursorStep == ASSUME TypeInv, LockOK, MintInv, CursorInv, AllByFlow, [Next]_vars PROVE CursorInv'
<1>1. ASSUME NEW p \in Proc, StepOf(p) PROVE CursorInv'
    <2>1. ASSUME NEW q \in Proc PROVE EntryOf(q)' /\ OwedOf(q)' /\ WrittenOf(q)'
        BY <1>1, EntryStep, OwedStep, WrittenStep DEF CursorInv
    <2>2. ASSUME NEW w \in wire' PROVE NextStep(records'[w.txn].entries) > w.step
        <3>1. CASE w \in wire
            BY <1>1, <3>1, SentStaysRecorded
        <3>2. CASE w \notin wire
            <4>1. pc[p] = "send" /\ w.txn = txn[p] /\ w.step = want[p]
                BY <1>1, <3>2, StepMovesWire DEF WireMove
            <4>2. p \in ByFlow /\ txn[p] \in Txn
                BY <4>1 DEF AllByFlow, TypeInv, CallsOK, PlaceOK, HandsOK, OnTxn, Proc, Proceeds
            <4>3. NextStep(Entries(txn[p])) > want[p]
                BY <4>1, <4>2 DEF CursorInv, WrittenOf
            <4>4. Left(txn[p])
                BY <1>1, <3>2, <4>2, SendTakesNothingIn
            <4> QED
                BY <4>1, <4>3, <4>4 DEF Left
        <3> QED
            BY <3>1, <3>2
    <2> QED
        BY <2>1, <2>2 DEF CursorInv, SentIsRecorded, Entries
<1>2. CASE Crash
    <2>1. /\ \A q \in Proc : pc'[q] = IF pc[q] = "idle" THEN "idle" ELSE "done"
          /\ UNCHANGED <<records, txn, want, wire>>
        BY <1>2, CrashIs DEF TypeInv, stores
    <2>2. ASSUME NEW q \in Proc PROVE EntryOf(q)'
        <3>1. pc'[q] \in Unwritten => pc[q] \in Unwritten
            BY <2>1 DEF Unwritten
        <3> QED
            BY <2>1, <3>1 DEF CursorInv, EntryOf, HasEntry, Entries
    <2>3. ASSUME NEW q \in Proc PROVE OwedOf(q)' /\ WrittenOf(q)'
        BY <2>1 DEF OwedOf, WrittenOf
    <2>4. SentIsRecorded'
        BY <2>1 DEF CursorInv, SentIsRecorded, Entries
    <2> QED
        BY <2>2, <2>3, <2>4 DEF CursorInv
<1>3. CASE UNCHANGED vars
    BY <1>3 DEF vars, stores, history, CursorInv, EntryOf, OwedOf, WrittenOf, SentIsRecorded, HasEntry,
                Entries
<1> QED
    BY <1>1, <1>2, <1>3, NextIsAStep

\* A payload is new only when it goes to the participant where nothing of its step
\* has gone before.
LEMMA SentOnceStep ==
    ASSUME TypeInv, CursorInv, SentOnce, AllByFlow, [Next]_vars PROVE SentOnce'
<1>1. ASSUME NEW p \in Proc, StepOf(p) PROVE SentOnce'
    <2>1. CASE wire' = wire
        BY <2>1 DEF SentOnce
    <2>2. CASE wire' # wire
        <3> DEFINE x == [txn |-> txn[p], step |-> want[p], by |-> p]
        <3>1. wire' = wire \cup {x} /\ pc[p] = "send" /\ x.txn = txn[p] /\ x.step = want[p]
            BY <1>1, <2>2, StepMovesWire DEF WireMove
        <3> HIDE DEF x
        <3>2. p \in ByFlow /\ want[p] \in Nat
            BY <3>1 DEF AllByFlow, TypeInv, CallsTyped, CallsOK, PlaceOK, Proc, Proceeds
        <3>3. \A w \in wire : w.txn = txn[p] => w.step < want[p]
            BY <3>1, <3>2 DEF CursorInv, WrittenOf
        <3>4. \A w \in wire : w.txn = x.txn => w.step # x.step
            <4>1. \A w \in wire : w.step \in Nat
                BY StepsAssumption DEF TypeInv, HistoryTyped, Step
            <4> QED
                BY <3>1, <3>2, <3>3, <4>1
        <3> QED
            BY <3>1, <3>4 DEF SentOnce
    <2> QED
        BY <2>1, <2>2
<1>2. CASE Crash \/ UNCHANGED vars
    BY <1>2 DEF Crash, vars, history, SentOnce
<1> QED
    BY <1>1, <1>2, NextIsAStep

SendInv == TypeInv /\ LockOK /\ MintInv /\ CursorInv /\ SentOnce

\* The invariant SentOnce and SentIsRecorded rest on.
LEMMA SendInvariant == ASSUME AllByFlow, WeOpen PROVE Spec => []SendInv
<1>1. Init => SendInv
    <2> SUFFICES ASSUME Init PROVE SendInv
        OBVIOUS
    <2>1. LockOK /\ SentOnce /\ SentIsRecorded
        BY DEF Init, LockOK, SentOnce, SentIsRecorded, Proc, Proceeds
    <2>2. ASSUME NEW p \in Proc PROVE EntryOf(p) /\ OwedOf(p) /\ WrittenOf(p)
        <3>1. pc[p] = "idle" /\ \A t \in Txn : Entries(t) = <<>>
            BY DEF Init, Entries, NoRecord
        <3> QED
            BY <3>1 DEF EntryOf, HasEntry, OwedOf, WrittenOf
    <2> QED
        BY <2>1, <2>2, TypeInit, MintInit DEF SendInv, CursorInv
<1>2. SendInv /\ [Next]_vars => SendInv'
    BY TypeStep, LockStep, MintInvStep, CursorStep, SentOnceStep DEF SendInv
<1> QED
    BY <1>1, <1>2, PTL DEF Spec

\* Where every call names the flow and the mock opens it, no later read of the
\* record owes again what reached the participant: not after an answer nobody
\* recorded, a discard, a restart, a flow_start or a crash.
THEOREM SentIsNeverOwedAgain == ASSUME AllByFlow, WeOpen PROVE Spec => []SentIsRecorded
<1>1. SendInv => SentIsRecorded
    BY DEF SendInv, CursorInv
<1> QED
    BY <1>1, SendInvariant, PTL

\* Nor does a step of ours cross the wire twice on one transaction.
THEOREM EveryStepIsSentOnce == ASSUME AllByFlow, WeOpen PROVE Spec => []SentOnce
<1>1. SendInv => SentOnce
    BY DEF SendInv
<1> QED
    BY <1>1, SendInvariant, PTL

----------------------------------------------------------------------------
\* On a run that is opened once and never adopted, the binding is moved by the
\* dispatch that found it unbound and by restart, both beneath the run lock.
BindMove(p) ==
    \/ binding' = binding
    \/ /\ records' = records
       /\ \/ p \in ByFlow /\ pc[p] = "bind" /\ binding' = txn[p]
          \/ p \in Restarts /\ pc[p] = "unbind" /\ binding' = Unbound

\* A dispatch binds what it minted and flow_restart unbinds; nobody else writes it.
LEMMA StepMovesBinding ==
    ASSUME TypeInv, MintInv, StartedOnce, NEW p \in Proc, StepOf(p)
    PROVE  BindMove(p)
<1> USE DEF TypeInv, BindMove, stores, history
<1>1. ASSUME p \in ByFlow \cup Restarts, EnterByFlow(p) PROVE BindMove(p)
    BY <1>1 DEF EnterByFlow
<1>2. ASSUME p \in ByTransaction, NEW t \in Txn, LoadByTransaction(p, t) PROVE BindMove(p)
    BY <1>2 DEF LoadByTransaction
<1>3. ASSUME p \in Starts, StartRead(p) PROVE BindMove(p)
    BY <1>3 DEF StartRead
<1>4. ASSUME p \in Inbound, NEW m \in Msg, NEW t \in Txn, Arrive(p, m, t) PROVE BindMove(p)
    BY <1>4 DEF Arrive
<1>5. CASE LoadByFlow(p)
    BY <1>5 DEF LoadByFlow
<1>6. CASE Select(p)
    BY <1>6 DEF Select
<1>7. CASE Mark(p)
    BY <1>7 DEF Mark, SetWorking
<1>8. CASE Prepare(p)
    BY <1>8 DEF Prepare
<1>9. ASSUME NEW t \in Txn, Mint(p, t) PROVE BindMove(p)
    BY <1>9 DEF Mint, SetWorking
<1>10. CASE CreateOutbound(p)
    BY <1>10 DEF CreateOutbound
<1>11. CASE BindOutbound(p)
    <2>1. p \in ByFlow
        BY <1>11 DEF BindOutbound, CallsOK, PlaceOK, OnStep, OnTxn, Proc, Proceeds
    <2> QED
        BY <1>11, <2>1 DEF BindOutbound
<1>12. CASE AppendOutbound(p)
    BY <1>12 DEF AppendOutbound, Add
<1>13. CASE Send(p)
    BY <1>13 DEF Send
<1>14. CASE SettleOutbound(p)
    BY <1>14 DEF SettleOutbound
<1>15. CASE DiscardOutbound(p)
    BY <1>15 DEF DiscardOutbound
<1>16. CASE Clear(p)
    BY <1>16 DEF Clear
<1>17. CASE StartSave(p)
    <2>1. p \in Starts
        BY <1>17 DEF StartSave, CallsOK, PlaceOK, OnStep, OnTxn, Proc, Proceeds
    <2> QED
        BY <2>1 DEF StartedOnce
<1>18. CASE Describe(p)
    BY <1>18 DEF Describe
<1>19. CASE Reread(p)
    BY <1>19 DEF Reread
<1>20. CASE Seal(p)
    BY <1>20 DEF Seal
<1>21. CASE Disarm(p)
    BY <1>21 DEF Disarm
<1>22. CASE Unmark(p)
    BY <1>22 DEF Unmark
<1>23. CASE Unbind(p)
    <2>1. p \in Restarts
        BY <1>23 DEF Unbind, CallsOK, PlaceOK, OnStep, OnTxn, Proc, Proceeds
    <2> QED
        BY <1>23, <2>1 DEF Unbind
<1>24. CASE Consume(p)
    BY <1>24 DEF Consume
<1>25. CASE Adopt(p)
    BY <1>25 DEF Adopt
<1>26. CASE AdoptBind(p)
    BY <1>26 DEF AdoptBind, MintInv, NeverAdopts
<1>27. CASE Match(p)
    BY <1>27 DEF Match
<1>28. CASE RecordInbound(p)
    BY <1>28 DEF RecordInbound, Add
<1>29. CASE DisarmAll(p)
    BY <1>29 DEF DisarmAll
<1>30. CASE Leave(p)
    BY <1>30 DEF Leave
<1>31. CASE StoreFails(p)
    BY <1>31 DEF StoreFails, AfterReject
<1> QED
    BY <1>1, <1>2, <1>3, <1>4, <1>5, <1>6, <1>7, <1>8, <1>9, <1>10, <1>11, <1>12, <1>13,
        <1>14, <1>15, <1>16, <1>17, <1>18, <1>19, <1>20, <1>21, <1>22, <1>23, <1>24, <1>25,
        <1>26, <1>27, <1>28, <1>29, <1>30, <1>31 DEF StepOf, Continue

\* A record does not go away, and an attempt that is written off stays so.
KeepsMove(p) ==
    \A t \in Txn :
        /\ records[t].exists => records'[t].exists
        /\ records[t].abandoned => records'[t].abandoned

\* Records come to exist and are written off; neither is ever taken back.
LEMMA StepKeepsAttempts ==
    ASSUME TypeInv, MintInv, NEW p \in Proc, StepOf(p)
    PROVE  KeepsMove(p)
<1> USE DEF TypeInv, StoresTyped, Record, NewRecord, NoRecord, KeepsMove, stores, history
<1>1. ASSUME p \in ByFlow \cup Restarts, EnterByFlow(p) PROVE KeepsMove(p)
    BY <1>1 DEF EnterByFlow
<1>2. ASSUME p \in ByTransaction, NEW t \in Txn, LoadByTransaction(p, t) PROVE KeepsMove(p)
    BY <1>2 DEF LoadByTransaction
<1>3. ASSUME p \in Starts, StartRead(p) PROVE KeepsMove(p)
    BY <1>3 DEF StartRead
<1>4. ASSUME p \in Inbound, NEW m \in Msg, NEW t \in Txn, Arrive(p, m, t) PROVE KeepsMove(p)
    BY <1>4 DEF Arrive
<1>5. CASE LoadByFlow(p)
    BY <1>5 DEF LoadByFlow
<1>6. CASE Select(p)
    BY <1>6 DEF Select
<1>7. CASE Mark(p)
    BY <1>7 DEF Mark, SetWorking
<1>8. CASE Prepare(p)
    BY <1>8 DEF Prepare
<1>9. ASSUME NEW t \in Txn, Mint(p, t) PROVE KeepsMove(p)
    BY <1>9 DEF Mint, SetWorking
<1>10. CASE CreateOutbound(p)
    <2>1. txn[p] \in Txn /\ records[txn[p]] = NoRecord
        BY <1>10 DEF CreateOutbound, CallsOK, HandsOK, OnTxn, MintInv, MintedIsOwn
    <2> QED
        BY <1>10, <2>1 DEF CreateOutbound
<1>11. CASE BindOutbound(p)
    BY <1>11 DEF BindOutbound
<1>12. CASE AppendOutbound(p)
    BY <1>12 DEF AppendOutbound, Add
<1>13. CASE Send(p)
    BY <1>13 DEF Send
<1>14. CASE SettleOutbound(p)
    BY <1>14 DEF SettleOutbound
<1>15. CASE DiscardOutbound(p)
    BY <1>15 DEF DiscardOutbound
<1>16. CASE Clear(p)
    BY <1>16 DEF Clear
<1>17. CASE StartSave(p)
    BY <1>17 DEF StartSave
<1>18. CASE Describe(p)
    BY <1>18 DEF Describe
<1>19. CASE Reread(p)
    BY <1>19 DEF Reread
<1>20. CASE Seal(p)
    BY <1>20 DEF Seal
<1>21. CASE Disarm(p)
    BY <1>21 DEF Disarm
<1>22. CASE Unmark(p)
    BY <1>22 DEF Unmark
<1>23. CASE Unbind(p)
    BY <1>23 DEF Unbind
<1>24. CASE Consume(p)
    BY <1>24 DEF Consume
<1>25. CASE Adopt(p)
    BY <1>25 DEF Adopt, MintInv, NeverAdopts
<1>26. CASE AdoptBind(p)
    BY <1>26 DEF AdoptBind
<1>27. CASE Match(p)
    BY <1>27 DEF Match
<1>28. CASE RecordInbound(p)
    BY <1>28 DEF RecordInbound, Add
<1>29. CASE DisarmAll(p)
    BY <1>29 DEF DisarmAll
<1>30. CASE Leave(p)
    BY <1>30 DEF Leave
<1>31. CASE StoreFails(p)
    BY <1>31 DEF StoreFails, AfterReject
<1> QED
    BY <1>1, <1>2, <1>3, <1>4, <1>5, <1>6, <1>7, <1>8, <1>9, <1>10, <1>11, <1>12, <1>13,
        <1>14, <1>15, <1>16, <1>17, <1>18, <1>19, <1>20, <1>21, <1>22, <1>23, <1>24, <1>25,
        <1>26, <1>27, <1>28, <1>29, <1>30, <1>31 DEF StepOf, Continue

\* A call that moves keeps BoundOf of itself.
LEMMA StepKeepsBound ==
    ASSUME TypeInv, MintInv, StartedOnce, \A r \in Proc : BoundOf(r), NEW p \in Proc, StepOf(p)
    PROVE  BoundOf(p)'
<1> USE DEF TypeInv, CallsTyped, BoundOf, GoTo, stores, history, Unbound, Txn
<1>1. ASSUME p \in ByFlow \cup Restarts, EnterByFlow(p) PROVE BoundOf(p)'
    BY <1>1 DEF EnterByFlow
<1>2. ASSUME p \in ByTransaction, NEW t \in Txn, LoadByTransaction(p, t) PROVE BoundOf(p)'
    BY <1>2 DEF Proceeds
<1>3. ASSUME p \in Starts, StartRead(p) PROVE BoundOf(p)'
    BY <1>3 DEF Proceeds
<1>4. ASSUME p \in Inbound, NEW m \in Msg, NEW t \in Txn, Arrive(p, m, t) PROVE BoundOf(p)'
    BY <1>4 DEF Proceeds
<1>5. CASE LoadByFlow(p)
    BY <1>5 DEF LoadByFlow
<1>6. CASE Select(p)
    BY <1>6 DEF Select
<1>7. CASE Mark(p)
    BY <1>7 DEF Mark, SetWorking
<1>8. CASE Prepare(p)
    BY <1>8 DEF Prepare
<1>9. ASSUME NEW t \in Txn, Mint(p, t) PROVE BoundOf(p)'
    <2>1. txn[p] = Unbound /\ pc[p] = "mint" /\ pc'[p] = "create" /\ binding' = binding
        BY <1>9 DEF Mint, MintInv, FirstOK, FirstOf
    <2> QED
        BY <2>1
<1>10. CASE CreateOutbound(p)
    BY <1>10 DEF CreateOutbound
<1>11. CASE BindOutbound(p)
    BY <1>11 DEF BindOutbound
<1>12. CASE AppendOutbound(p)
    BY <1>12 DEF AppendOutbound, Add
<1>13. CASE Send(p)
    BY <1>13 DEF Send
<1>14. CASE SettleOutbound(p)
    BY <1>14 DEF SettleOutbound
<1>15. CASE DiscardOutbound(p)
    BY <1>15 DEF DiscardOutbound
<1>16. CASE Clear(p)
    BY <1>16 DEF Clear
<1>17. CASE StartSave(p)
    <2>1. p \notin ByFlow
        BY <1>17 DEF StartSave, CallsOK, PlaceOK, OnStep, OnTxn
    <2> QED
        BY <2>1
<1>18. CASE Describe(p)
    BY <1>18 DEF Describe
<1>19. CASE Reread(p)
    BY <1>19 DEF Reread
<1>20. CASE Seal(p)
    BY <1>20 DEF Seal
<1>21. CASE Disarm(p)
    BY <1>21 DEF Disarm
<1>22. CASE Unmark(p)
    BY <1>22 DEF Unmark
<1>23. CASE Unbind(p)
    BY <1>23 DEF Unbind
<1>24. CASE Consume(p)
    BY <1>24 DEF Consume
<1>25. CASE Adopt(p)
    BY <1>25 DEF Adopt
<1>26. CASE AdoptBind(p)
    BY <1>26 DEF AdoptBind, MintInv, NeverAdopts
<1>27. CASE Match(p)
    BY <1>27 DEF Match
<1>28. CASE RecordInbound(p)
    BY <1>28 DEF RecordInbound, Add
<1>29. CASE DisarmAll(p)
    BY <1>29 DEF DisarmAll
<1>30. CASE Leave(p)
    BY <1>30 DEF Leave
<1>31. CASE StoreFails(p)
    BY <1>31 DEF StoreFails, AfterReject
<1> QED
    BY <1>1, <1>2, <1>3, <1>4, <1>5, <1>6, <1>7, <1>8, <1>9, <1>10, <1>11, <1>12, <1>13,
        <1>14, <1>15, <1>16, <1>17, <1>18, <1>19, <1>20, <1>21, <1>22, <1>23, <1>24, <1>25,
        <1>26, <1>27, <1>28, <1>29, <1>30, <1>31 DEF StepOf, Continue

\* A call that moves keeps ReplaceOf of itself.
LEMMA StepKeepsReplace ==
    ASSUME TypeInv, MintInv, StartedOnce, \A r \in Proc : ReplaceOf(r), NEW p \in Proc, StepOf(p)
    PROVE  ReplaceOf(p)'
<1> USE DEF TypeInv, StoresTyped, CallsTyped, ReplaceOf, GoTo, stores, history, Unbound,
        Txn
<1>1. ASSUME p \in ByFlow \cup Restarts, EnterByFlow(p) PROVE ReplaceOf(p)'
    BY <1>1 DEF EnterByFlow
<1>2. ASSUME p \in ByTransaction, NEW t \in Txn, LoadByTransaction(p, t) PROVE ReplaceOf(p)'
    BY <1>2 DEF LoadByTransaction
<1>3. ASSUME p \in Starts, StartRead(p) PROVE ReplaceOf(p)'
    BY <1>3 DEF StartRead
<1>4. ASSUME p \in Inbound, NEW m \in Msg, NEW t \in Txn, Arrive(p, m, t) PROVE ReplaceOf(p)'
    BY <1>4 DEF Arrive
<1>5. CASE LoadByFlow(p)
    BY <1>5 DEF LoadByFlow
<1>6. CASE Select(p)
    BY <1>6 DEF Select
<1>7. CASE Mark(p)
    BY <1>7 DEF Mark, SetWorking
<1>8. CASE Prepare(p)
    BY <1>8 DEF Prepare
<1>9. ASSUME NEW t \in Txn, Mint(p, t) PROVE ReplaceOf(p)'
    BY <1>9 DEF Mint, SetWorking
<1>10. CASE CreateOutbound(p)
    BY <1>10 DEF CreateOutbound
<1>11. CASE BindOutbound(p)
    BY <1>11 DEF BindOutbound
<1>12. CASE AppendOutbound(p)
    BY <1>12 DEF AppendOutbound, Add
<1>13. CASE Send(p)
    BY <1>13 DEF Send
<1>14. CASE SettleOutbound(p)
    BY <1>14 DEF SettleOutbound
<1>15. CASE DiscardOutbound(p)
    BY <1>15 DEF DiscardOutbound
<1>16. CASE Clear(p)
    BY <1>16 DEF Clear
<1>17. CASE StartSave(p)
    BY <1>17 DEF StartSave
<1>18. CASE Describe(p)
    BY <1>18 DEF Describe
<1>19. CASE Reread(p)
    BY <1>19 DEF Reread
<1>20. CASE Seal(p)
    <2>1. txn[p] \in Txn
        BY <1>20 DEF Seal, CallsOK, HandsOK
    <2> QED
        BY <1>20, <2>1 DEF Seal, Record
<1>21. CASE Disarm(p)
    BY <1>21 DEF Disarm
<1>22. CASE Unmark(p)
    BY <1>22 DEF Unmark
<1>23. CASE Unbind(p)
    BY <1>23 DEF Unbind
<1>24. CASE Consume(p)
    BY <1>24 DEF Consume
<1>25. CASE Adopt(p)
    BY <1>25 DEF Adopt
<1>26. CASE AdoptBind(p)
    BY <1>26 DEF AdoptBind
<1>27. CASE Match(p)
    BY <1>27 DEF Match
<1>28. CASE RecordInbound(p)
    BY <1>28 DEF RecordInbound, Add
<1>29. CASE DisarmAll(p)
    BY <1>29 DEF DisarmAll
<1>30. CASE Leave(p)
    BY <1>30 DEF Leave
<1>31. CASE StoreFails(p)
    BY <1>31 DEF StoreFails, AfterReject
<1> QED
    BY <1>1, <1>2, <1>3, <1>4, <1>5, <1>6, <1>7, <1>8, <1>9, <1>10, <1>11, <1>12, <1>13,
        <1>14, <1>15, <1>16, <1>17, <1>18, <1>19, <1>20, <1>21, <1>22, <1>23, <1>24, <1>25,
        <1>26, <1>27, <1>28, <1>29, <1>30, <1>31 DEF StepOf, Continue

\* A call that moves keeps CreatedOf of itself.
LEMMA StepKeepsCreated ==
    ASSUME TypeInv, \A r \in Proc : CreatedOf(r), NEW p \in Proc, StepOf(p)
    PROVE  CreatedOf(p)'
<1> USE DEF TypeInv, StoresTyped, CallsTyped, CreatedOf, GoTo, stores, history
<1>1. ASSUME p \in ByFlow \cup Restarts, EnterByFlow(p) PROVE CreatedOf(p)'
    BY <1>1 DEF EnterByFlow
<1>2. ASSUME p \in ByTransaction, NEW t \in Txn, LoadByTransaction(p, t) PROVE CreatedOf(p)'
    BY <1>2 DEF LoadByTransaction
<1>3. ASSUME p \in Starts, StartRead(p) PROVE CreatedOf(p)'
    BY <1>3 DEF StartRead
<1>4. ASSUME p \in Inbound, NEW m \in Msg, NEW t \in Txn, Arrive(p, m, t) PROVE CreatedOf(p)'
    BY <1>4 DEF Arrive
<1>5. CASE LoadByFlow(p)
    BY <1>5 DEF LoadByFlow
<1>6. CASE Select(p)
    BY <1>6 DEF Select
<1>7. CASE Mark(p)
    BY <1>7 DEF Mark, SetWorking
<1>8. CASE Prepare(p)
    BY <1>8 DEF Prepare
<1>9. ASSUME NEW t \in Txn, Mint(p, t) PROVE CreatedOf(p)'
    BY <1>9 DEF Mint, SetWorking
<1>10. CASE CreateOutbound(p)
    <2>1. txn[p] \in Txn /\ txn'[p] = txn[p]
        BY <1>10 DEF CreateOutbound, CallsOK, HandsOK, OnTxn
    <2> QED
        BY <1>10, <2>1 DEF CreateOutbound, NewRecord, NoRecord
<1>11. CASE BindOutbound(p)
    BY <1>11 DEF BindOutbound
<1>12. CASE AppendOutbound(p)
    BY <1>12 DEF AppendOutbound, Add
<1>13. CASE Send(p)
    BY <1>13 DEF Send
<1>14. CASE SettleOutbound(p)
    BY <1>14 DEF SettleOutbound
<1>15. CASE DiscardOutbound(p)
    BY <1>15 DEF DiscardOutbound
<1>16. CASE Clear(p)
    BY <1>16 DEF Clear
<1>17. CASE StartSave(p)
    BY <1>17 DEF StartSave
<1>18. CASE Describe(p)
    BY <1>18 DEF Describe
<1>19. CASE Reread(p)
    BY <1>19 DEF Reread
<1>20. CASE Seal(p)
    BY <1>20 DEF Seal
<1>21. CASE Disarm(p)
    BY <1>21 DEF Disarm
<1>22. CASE Unmark(p)
    BY <1>22 DEF Unmark
<1>23. CASE Unbind(p)
    BY <1>23 DEF Unbind
<1>24. CASE Consume(p)
    BY <1>24 DEF Consume
<1>25. CASE Adopt(p)
    BY <1>25 DEF Adopt
<1>26. CASE AdoptBind(p)
    BY <1>26 DEF AdoptBind
<1>27. CASE Match(p)
    BY <1>27 DEF Match
<1>28. CASE RecordInbound(p)
    BY <1>28 DEF RecordInbound, Add
<1>29. CASE DisarmAll(p)
    BY <1>29 DEF DisarmAll
<1>30. CASE Leave(p)
    BY <1>30 DEF Leave
<1>31. CASE StoreFails(p)
    BY <1>31 DEF StoreFails, AfterReject
<1> QED
    BY <1>1, <1>2, <1>3, <1>4, <1>5, <1>6, <1>7, <1>8, <1>9, <1>10, <1>11, <1>12, <1>13,
        <1>14, <1>15, <1>16, <1>17, <1>18, <1>19, <1>20, <1>21, <1>22, <1>23, <1>24, <1>25,
        <1>26, <1>27, <1>28, <1>29, <1>30, <1>31 DEF StepOf, Continue

\* Restart goes on from one place to the next, or a store rejects.
RestartMove(p) ==
    /\ mishaps' \in {mishaps, mishaps + 1}
    /\ p \in Restarts /\ pc[p] \in {"disarm", "unmark", "unbind"} =>
         pc'[p] \in {"disarm", "unmark", "unbind"} \/ mishaps' = mishaps + 1 \/ binding' = Unbound
    /\ pc[p] = "seal" /\ records' # records => pc'[p] = "disarm"

\* From the seal on, flow_restart goes through to the unbind unless a store fails.
LEMMA StepMovesRestart ==
    ASSUME TypeInv, NEW p \in Proc, StepOf(p)
    PROVE  RestartMove(p)
<1> USE DEF TypeInv, CallsTyped, RestartMove, GoTo, stores, history
<1>1. ASSUME p \in ByFlow \cup Restarts, EnterByFlow(p) PROVE RestartMove(p)
    BY <1>1 DEF EnterByFlow
<1>2. ASSUME p \in ByTransaction, NEW t \in Txn, LoadByTransaction(p, t) PROVE RestartMove(p)
    BY <1>2 DEF LoadByTransaction
<1>3. ASSUME p \in Starts, StartRead(p) PROVE RestartMove(p)
    BY <1>3 DEF StartRead
<1>4. ASSUME p \in Inbound, NEW m \in Msg, NEW t \in Txn, Arrive(p, m, t) PROVE RestartMove(p)
    BY <1>4 DEF Arrive
<1>5. CASE LoadByFlow(p)
    BY <1>5 DEF LoadByFlow
<1>6. CASE Select(p)
    BY <1>6 DEF Select
<1>7. CASE Mark(p)
    BY <1>7 DEF Mark, SetWorking
<1>8. CASE Prepare(p)
    BY <1>8 DEF Prepare
<1>9. ASSUME NEW t \in Txn, Mint(p, t) PROVE RestartMove(p)
    BY <1>9 DEF Mint, SetWorking
<1>10. CASE CreateOutbound(p)
    BY <1>10 DEF CreateOutbound
<1>11. CASE BindOutbound(p)
    BY <1>11 DEF BindOutbound
<1>12. CASE AppendOutbound(p)
    BY <1>12 DEF AppendOutbound, Add
<1>13. CASE Send(p)
    BY <1>13 DEF Send
<1>14. CASE SettleOutbound(p)
    BY <1>14 DEF SettleOutbound
<1>15. CASE DiscardOutbound(p)
    BY <1>15 DEF DiscardOutbound
<1>16. CASE Clear(p)
    BY <1>16 DEF Clear
<1>17. CASE StartSave(p)
    BY <1>17 DEF StartSave
<1>18. CASE Describe(p)
    BY <1>18 DEF Describe
<1>19. CASE Reread(p)
    BY <1>19 DEF Reread
<1>20. CASE Seal(p)
    BY <1>20 DEF Seal
<1>21. CASE Disarm(p)
    BY <1>21 DEF Disarm
<1>22. CASE Unmark(p)
    BY <1>22 DEF Unmark
<1>23. CASE Unbind(p)
    BY <1>23 DEF Unbind
<1>24. CASE Consume(p)
    BY <1>24 DEF Consume
<1>25. CASE Adopt(p)
    BY <1>25 DEF Adopt
<1>26. CASE AdoptBind(p)
    BY <1>26 DEF AdoptBind
<1>27. CASE Match(p)
    BY <1>27 DEF Match
<1>28. CASE RecordInbound(p)
    BY <1>28 DEF RecordInbound, Add
<1>29. CASE DisarmAll(p)
    BY <1>29 DEF DisarmAll
<1>30. CASE Leave(p)
    BY <1>30 DEF Leave
<1>31. CASE StoreFails(p)
    BY <1>31 DEF StoreFails, AfterReject
<1> QED
    BY <1>1, <1>2, <1>3, <1>4, <1>5, <1>6, <1>7, <1>8, <1>9, <1>10, <1>11, <1>12, <1>13,
        <1>14, <1>15, <1>16, <1>17, <1>18, <1>19, <1>20, <1>21, <1>22, <1>23, <1>24, <1>25,
        <1>26, <1>27, <1>28, <1>29, <1>30, <1>31 DEF StepOf, Continue

----------------------------------------------------------------------------
\* Beneath the run lock the binding holds still for whoever holds it.
LEMMA BindingHolds ==
    ASSUME TypeInv, LockOK, MintInv, StartedOnce, NEW p \in Proc, StepOf(p),
           NEW q \in ByFlow \cup Restarts, q # p, pc[q] \notin {"idle", "done"}
    PROVE  binding' = binding
<1>1. ~(p \in ByFlow \cup Restarts /\ pc[p] \notin {"idle", "done"})
    BY DEF LockOK
<1> QED
    BY <1>1, StepMovesBinding DEF BindMove

LEMMA BoundStep ==
    ASSUME TypeInv, LockOK, MintInv, StartedOnce, \A r \in Proc : BoundOf(r),
           NEW p \in Proc, StepOf(p), NEW q \in Proc
    PROVE  BoundOf(q)'
<1>1. CASE q = p
    BY <1>1, StepKeepsBound
<1>2. CASE q # p
    <2>1. txn'[q] = txn[q] /\ pc'[q] = pc[q]
        BY <1>2, StepIsApart DEF TypeInv, Apart
    <2>2. q \in ByFlow /\ pc[q] \notin {"idle", "done"} => binding' = binding
        BY <1>2, BindingHolds
    <2>3. BoundOf(q)
        OBVIOUS
    <2> QED
        BY <2>1, <2>2, <2>3 DEF BoundOf
<1> QED
    BY <1>1, <1>2

LEMMA ReplaceStep ==
    ASSUME TypeInv, LockOK, MintInv, StartedOnce, \A r \in Proc : ReplaceOf(r),
           NEW p \in Proc, StepOf(p), NEW q \in Proc
    PROVE  ReplaceOf(q)'
<1>1. CASE q = p
    BY <1>1, StepKeepsReplace
<1>2. CASE q # p
    <2>1. txn'[q] = txn[q] /\ pc'[q] = pc[q]
        BY <1>2, StepIsApart DEF TypeInv, Apart
    <2>2. q \in Restarts /\ pc[q] \notin {"idle", "done"} => binding' = binding
        BY <1>2, BindingHolds
    <2>3. ReplaceOf(q)
        OBVIOUS
    <2>4. binding # Unbound /\ records[binding].abandoned => records'[binding].abandoned
        BY StepKeepsAttempts DEF KeepsMove, TypeInv, StoresTyped
    <2> QED
        BY <2>1, <2>2, <2>3, <2>4 DEF ReplaceOf
<1> QED
    BY <1>1, <1>2

\* Who owns a transaction goes on owning it until restart writes it off.
LEMMA OwnedStays ==
    ASSUME TypeInv, MintInv, StartedOnce, \A r \in Proc : BoundOf(r) /\ ReplaceOf(r),
           NEW p \in Proc, StepOf(p), NEW t \in Txn, Owned(t)
    PROVE  Owned(t)'
<1>1. records[t].abandoned => records'[t].abandoned
    BY StepKeepsAttempts DEF KeepsMove
<1>2. t # Unbound
    BY DEF Txn, Unbound
<1>3. CASE binding = t /\ ~records[t].abandoned
    <2>1. binding' = binding
        <3>1. ~(p \in ByFlow /\ pc[p] = "bind")
            BY <1>2, <1>3 DEF BoundOf
        <3>2. ~(p \in Restarts /\ pc[p] = "unbind")
            BY <1>2, <1>3 DEF ReplaceOf
        <3> QED
            BY <3>1, <3>2, StepMovesBinding DEF BindMove
    <2> QED
        BY <1>3, <2>1 DEF Owned
<1> QED
    BY <1>1, <1>3 DEF Owned

LEMMA OwnerStep ==
    ASSUME TypeInv, LockOK, MintInv, OwnerInv, AllByFlow, StartedOnce, [Next]_vars
    PROVE  OwnerInv'
<1>1. ASSUME NEW p \in Proc, StepOf(p) PROVE OwnerInv'
    <2>1. \A r \in Proc : BoundOf(r) /\ ReplaceOf(r)
        BY DEF OwnerInv
    <2>2. ASSUME NEW q \in Proc PROVE BoundOf(q)' /\ ReplaceOf(q)'
        BY <1>1, <2>1, BoundStep, ReplaceStep
    <2>3. \A t \in Txn : Owned(t) => Owned(t)'
        BY <1>1, <2>1, OwnedStays
    <2>4. ASSUME NEW w \in wire' PROVE Owned(w.txn)'
        <3>1. Owned(w.txn) /\ w.txn \in Txn
            <4>1. CASE w \in wire
                BY <4>1 DEF OwnerInv, WireOwned, TypeInv, HistoryTyped
            <4>2. CASE w \notin wire
                <5>1. pc[p] = "send" /\ w.txn = txn[p]
                    BY <1>1, <4>2, StepMovesWire DEF WireMove
                <5>2. p \in ByFlow /\ txn[p] \in Txn
                    BY <5>1 DEF AllByFlow, TypeInv, CallsOK, PlaceOK, HandsOK, OnTxn, Proc, Proceeds
                <5> QED
                    BY <2>1, <5>1, <5>2 DEF BoundOf, Owned
            <4> QED
                BY <4>1, <4>2
        <3> QED
            BY <2>3, <3>1
    <2>5. ASSUME NEW t \in Txn, records'[t].entries # <<>> PROVE Owned(t)'
        <3>1. Owned(t)
            <4>1. CASE Left(t)
                BY <2>5, <4>1 DEF Left, OwnerInv, NoOrphans, Owned
            <4>2. CASE TakesIn(p, t)
                <5>1. \E w \in wire : w.txn = t
                    BY <4>2 DEF TakesIn, MintInv, HeardIsSent
                <5> QED
                    BY <5>1 DEF OwnerInv, WireOwned
            <4>3. CASE Writes(p, t)
                <5>1. p \in ByFlow /\ t = txn[p] /\ pc[p] \in {"append", "settle", "fail", "discard"}
                    BY <2>5, <4>3 DEF Writes, AllByFlow, Proceeds
                <5> QED
                    BY <2>1, <5>1 DEF BoundOf, Owned
            <4> QED
                BY <1>1, <4>1, <4>2, <4>3, StepMovesEntries DEF EntriesMove
        <3> QED
            BY <2>3, <3>1
    <2>6. WireOwned' /\ NoOrphans'
        BY <2>4, <2>5 DEF WireOwned, NoOrphans, Owned, Entries
    <2> QED
        BY <2>2, <2>6 DEF OwnerInv
<1>2. CASE Crash
    <2>1. /\ \A q \in Proc : pc'[q] = IF pc[q] = "idle" THEN "idle" ELSE "done"
          /\ UNCHANGED <<binding, records, txn, wire>>
        BY <1>2, CrashIs DEF TypeInv, stores
    <2>2. \A q \in Proc : BoundOf(q)' /\ ReplaceOf(q)'
        BY <2>1 DEF BoundOf, ReplaceOf
    <2>3. WireOwned' /\ NoOrphans'
        BY <2>1 DEF OwnerInv, WireOwned, NoOrphans, Owned, Entries
    <2> QED
        BY <2>2, <2>3 DEF OwnerInv
<1>3. CASE UNCHANGED vars
    BY <1>3 DEF vars, stores, history, OwnerInv, BoundOf, ReplaceOf, WireOwned, NoOrphans, Owned, Entries
<1> QED
    BY <1>1, <1>2, <1>3, NextIsAStep

RunInv == TypeInv /\ LockOK /\ MintInv /\ OwnerInv

\* The invariant NoOrphans and FirstActionOnce rest on.
LEMMA RunInvariant == ASSUME AllByFlow, WeOpen, StartedOnce PROVE Spec => []RunInv
<1>1. Init => RunInv
    <2> SUFFICES ASSUME Init PROVE RunInv
        OBVIOUS
    <2>1. LockOK /\ OwnerInv
        BY DEF Init, LockOK, OwnerInv, BoundOf, ReplaceOf, WireOwned, NoOrphans, NoRecord, Entries,
               Proc, Proceeds
    <2> QED
        BY <2>1, TypeInit, MintInit DEF RunInv
<1>2. RunInv /\ [Next]_vars => RunInv'
    BY TypeStep, LockStep, MintInvStep, OwnerStep DEF RunInv
<1> QED
    BY <1>1, <1>2, PTL DEF Spec

\* Where the run is opened once and by the mock, and every call names the flow, a
\* transaction with exchanges on it is the run's or was written off by restart.
THEOREM NoTransactionIsOrphaned ==
    ASSUME AllByFlow, WeOpen, StartedOnce PROVE Spec => []NoOrphans
<1>1. RunInv => NoOrphans
    BY DEF RunInv, OwnerInv
<1> QED
    BY <1>1, RunInvariant, PTL

\* There the flow's first action goes out once per attempt.
THEOREM FirstActionGoesOutOnce ==
    ASSUME AllByFlow, WeOpen, StartedOnce PROVE Spec => []FirstActionOnce
<1>1. RunInv => FirstActionOnce
    BY DEF RunInv, OwnerInv, WireOwned, Owned, FirstActionOnce
<1> QED
    BY <1>1, RunInvariant, PTL

----------------------------------------------------------------------------
LEMMA CreatedStep ==
    ASSUME TypeInv, MintInv, \A r \in Proc : CreatedOf(r), NEW p \in Proc, StepOf(p), NEW q \in Proc
    PROVE  CreatedOf(q)'
<1>1. CASE q = p
    BY <1>1, StepKeepsCreated
<1>2. CASE q # p
    <2>1. txn'[q] = txn[q] /\ pc'[q] = pc[q]
        BY <1>2, StepIsApart DEF TypeInv, Apart
    <2>2. pc[q] = "bind" => txn[q] \in Txn
        BY DEF TypeInv, CallsOK, HandsOK, OnTxn
    <2>3. CreatedOf(q)
        OBVIOUS
    <2> QED
        BY <2>1, <2>2, <2>3, StepKeepsAttempts DEF CreatedOf, KeepsMove
<1> QED
    BY <1>1, <1>2

\* BindingIsLive is preserved: the one write of a binding is of a record just created.
LEMMA BindingStep ==
    ASSUME TypeInv, MintInv, LiveOK, \A r \in Proc : CreatedOf(r), BindingIsLive, StartedOnce,
           NEW p \in Proc, StepOf(p), binding' # Unbound
    PROVE  /\ records'[binding'].exists
           /\ records'[binding'].abandoned =>
                mishaps' > 0 \/ \E r \in Restarts : pc'[r] \in {"disarm", "unmark", "unbind"}
<1>1. CASE binding' # binding
    <2>1. /\ p \in ByFlow /\ pc[p] = "bind" /\ binding' = txn[p] /\ records' = records
          /\ txn[p] # Unbound
        BY <1>1, StepMovesBinding DEF BindMove
    <2>2. records[txn[p]].exists /\ ~records[txn[p]].abandoned
        BY <2>1 DEF CreatedOf, LiveOK, LiveOf
    <2> QED
        BY <2>1, <2>2
<1>2. CASE binding' = binding
    <2>1. binding \in Txn
        BY <1>2 DEF TypeInv, StoresTyped
    <2>2. /\ records[binding].exists
          /\ records[binding].abandoned =>
               mishaps > 0 \/ \E r \in Restarts : pc[r] \in {"disarm", "unmark", "unbind"}
        BY <1>2 DEF BindingIsLive
    <2>3. records'[binding].exists
        BY <2>1, <2>2, StepKeepsAttempts DEF KeepsMove
    <2>4. RestartMove(p) /\ Apart(p) /\ mishaps \in Nat
        BY StepMovesRestart, StepIsApart DEF TypeInv, HistoryTyped
    <2>5. ASSUME records'[binding].abandoned
          PROVE  mishaps' > 0 \/ \E r \in Restarts : pc'[r] \in {"disarm", "unmark", "unbind"}
        <3>1. CASE ~records[binding].abandoned
            <4>1. p \in Restarts /\ pc[p] = "seal"
                BY <2>1, <2>5, <3>1, StepSeals DEF SealMove
            <4>2. pc'[p] = "disarm"
                BY <2>4, <2>5, <3>1, <4>1 DEF RestartMove
            <4> QED
                BY <4>1, <4>2
        <3>2. CASE mishaps > 0
            BY <2>4, <3>2 DEF RestartMove
        <3>3. CASE \E r \in Restarts : pc[r] \in {"disarm", "unmark", "unbind"}
            <4>1. PICK r \in Restarts : pc[r] \in {"disarm", "unmark", "unbind"}
                BY <3>3
            <4>2. CASE r = p
                BY <1>2, <2>4, <4>1, <4>2 DEF RestartMove
            <4>3. CASE r # p
                BY <2>4, <4>1, <4>3 DEF Apart, Proc
            <4> QED
                BY <4>2, <4>3
        <3> QED
            BY <2>2, <3>1, <3>2, <3>3
    <2> QED
        BY <1>2, <2>3, <2>5
<1> QED
    BY <1>1, <1>2

BindInv == TypeInv /\ LockOK /\ LiveOK /\ MintInv /\ (\A p \in Proc : CreatedOf(p)) /\ BindingIsLive

LEMMA BindInvStep == ASSUME BindInv, StartedOnce, WeOpen, [Next]_vars PROVE BindInv'
<1>0. TypeInv' /\ LockOK' /\ LiveOK' /\ MintInv'
    BY TypeStep, LockStep, LiveStep, MintInvStep DEF BindInv
<1>1. ASSUME NEW p \in Proc, StepOf(p) PROVE BindInv'
    <2>1. \A q \in Proc : CreatedOf(q)'
        BY <1>1, CreatedStep DEF BindInv
    <2>2. BindingIsLive'
        BY <1>1, BindingStep DEF BindInv, BindingIsLive
    <2> QED
        BY <1>0, <2>1, <2>2 DEF BindInv
<1>2. CASE Crash
    <2>1. /\ \A q \in Proc : pc'[q] = IF pc[q] = "idle" THEN "idle" ELSE "done"
          /\ UNCHANGED <<binding, records>> /\ mishaps' > 0
        BY <1>2, CrashIs DEF BindInv, TypeInv, HistoryTyped, stores
    <2>2. \A q \in Proc : CreatedOf(q)'
        BY <2>1 DEF CreatedOf
    <2>3. BindingIsLive'
        BY <2>1 DEF BindInv, BindingIsLive
    <2> QED
        BY <1>0, <2>2, <2>3 DEF BindInv
<1>3. CASE UNCHANGED vars
    <2>1. (\A q \in Proc : CreatedOf(q)') /\ BindingIsLive'
        BY <1>3 DEF vars, stores, history, BindInv, CreatedOf, BindingIsLive
    <2> QED
        BY <1>0, <2>1 DEF BindInv
<1> QED
    BY <1>1, <1>2, <1>3, NextIsAStep

\* Where the run is opened once and by the mock, the binding names a record that
\* exists, and a live one except while restart is replacing it or failed to.
THEOREM TheBindingIsLive == ASSUME WeOpen, StartedOnce PROVE Spec => []BindingIsLive
<1>1. Init => BindInv
    <2> SUFFICES ASSUME Init PROVE BindInv
        OBVIOUS
    <2>1. /\ LockOK /\ LiveOK /\ \A p \in Proc : CreatedOf(p)
          /\ BindingIsLive
        BY DEF Init, LockOK, LiveOK, LiveOf, CreatedOf, BindingIsLive, Proc, Proceeds
    <2> QED
        BY <2>1, TypeInit, MintInit DEF BindInv
<1>2. BindInv /\ [Next]_vars => BindInv'
    BY BindInvStep
<1>3. BindInv => BindingIsLive
    BY DEF BindInv
<1> QED
    BY <1>1, <1>2, <1>3, PTL DEF Spec
=============
