--------------------------- MODULE PaymentsProofs ---------------------------
(***************************************************************************)
(* Proofs about Payments, for every set of payments, transactions, requests*)
(* and tasks: the types of its variables, that an order is settled at most *)
(* once, by a transaction of its own that took exactly the amount due, and *)
(* that every step is a step of Purchase.                                  *)
(***************************************************************************)
EXTENDS Payments, FiniteSetTheorems, TLAPS

(* Data *)

LEMMA RankBound ==
  ASSUME NEW S, S \subseteq Payment
  PROVE  Cardinality(S) \in 0..Cardinality(Payment)
<1>1. /\ IsFiniteSet(S) /\ Cardinality(S) <= Cardinality(Payment)
      /\ Cardinality(Payment) \in Nat
  BY FiniteAssumption, FS_Subset, FS_CardinalityType
<1>2. Cardinality(S) \in Nat
  BY <1>1, FS_CardinalityType
<1> QED
  BY <1>1, <1>2

LEMMA IdleType == NoBuyer \in BuyerState /\ NoTask \in TaskState
<1>1. 0 \in 0..Cardinality(Payment)
  BY FiniteAssumption, FS_CardinalityType
<1> QED
  BY <1>1 DEF NoBuyer, NoTask, BuyerState, TaskState

LEMMA TransitionType ==
  ASSUME NEW t \in PaymentStatus \cup {"NONE"}, NEW s
  PROVE  s \in Transitions[t] => s \in PaymentStatus /\ t # "NONE"
BY DEF Transitions, PaymentStatus, InFlight
-----------------------------------------------------------------------------
(* Types *)

LEMMA TypeInit == Init => TypeOK
<1> SUFFICES ASSUME Init PROVE TypeOK
  OBVIOUS
<1>1. 0 \in 0..Cardinality(Payment)
  BY FiniteAssumption, FS_CardinalityType
<1>2. RowType
  BY <1>1 DEF Init, RowType
<1>3. OrderType /\ ProviderType
  BY DEF Init, OrderType, ProviderType
<1>4. LocalType
  BY IdleType, FaultAssumption DEF Init, LocalType
<1>5. LocalInv
  BY DEF Init, LocalInv, NoBuyer, NoTask
<1> QED
  BY <1>2, <1>3, <1>4, <1>5 DEF TypeOK

\* The outcomes of a payment leave types alone.
LEMMA SuccessType ==
  ASSUME TypeOK, NEW p \in Payment, NEW x \in Tx, NEW r \in Tx \cup {NoTx},
         ApplySuccess(p, x, r)
  PROVE  /\ status' \in [Payment -> PaymentStatus \cup {"NONE"}]
         /\ ref' \in [Payment -> Tx \cup {NoTx}]
         /\ order' \in {"AWAITING_PAYMENT", "PAID", "EXPIRED"}
         /\ credits' \in Nat /\ settledBy' \in Tx \cup {NoTx}
         /\ flagged' \subseteq Tx
<1>1. "SUCCEEDED" \in PaymentStatus
  BY DEF PaymentStatus
<1>2. /\ status' \in [Payment -> PaymentStatus \cup {"NONE"}]
      /\ ref' \in [Payment -> Tx \cup {NoTx}]
  BY <1>1 DEF TypeOK, RowType, ApplySuccess, orderVars
<1>3. flagged' \subseteq Tx
  BY DEF TypeOK, ProviderType, ApplySuccess
<1>4. /\ order' \in {"AWAITING_PAYMENT", "PAID", "EXPIRED"}
      /\ credits' \in Nat /\ settledBy' \in Tx \cup {NoTx}
  BY DEF TypeOK, OrderType, ApplySuccess, MarkPaid, orderVars
<1> QED
  BY <1>2, <1>3, <1>4

LEMMA OtherType ==
  ASSUME TypeOK, NEW p \in Payment, NEW s, ApplyOther(p, s)
  PROVE  status' \in [Payment -> PaymentStatus \cup {"NONE"}]
<1>1. Allowed(p, s) => s \in PaymentStatus
  BY TransitionType DEF Allowed, TypeOK, RowType
<1> QED
  BY <1>1 DEF ApplyOther, TypeOK, RowType

\* What every step of a request does to the local states.
LEMMA BuyerKeeps ==
  ASSUME TypeOK, NEW b \in Buyer, NEW new \in BuyerState, BuyerStep(b, new),
         new.pc \in {"replace", "call", "write"} => new.pay \in Payment,
         new.pc = "write" => new.answer \in {"PENDING", "FAILED"}
  PROVE  LocalType' /\ LocalInv'
<1>1. buyer' = [buyer EXCEPT ![b] = new] /\ UNCHANGED <<task, faults>>
  BY DEF BuyerStep
<1>2. LocalType'
  BY <1>1 DEF TypeOK, LocalType
<1>3. ASSUME NEW c \in Buyer
      PROVE  buyer'[c] = IF c = b THEN new ELSE buyer[c]
  BY <1>1 DEF TypeOK, LocalType
<1>4. LocalInv'
  BY <1>1, <1>3 DEF TypeOK, LocalInv
<1> QED
  BY <1>2, <1>4

\* What every step of a task does to them.
LEMMA TaskKeeps ==
  ASSUME TypeOK, NEW h \in Handler, NEW new \in TaskState,
         task' = [task EXCEPT ![h] = new], buyer' = buyer,
         faults' \in 0..MaxFaults,
         new.pc # "idle"
           => /\ new.pay \in Payment
              /\ new.pc # "date" \/ new.kind = "replay" => new.x \in Tx
  PROVE  LocalType' /\ LocalInv'
<1>1. LocalType'
  BY DEF TypeOK, LocalType
<1>2. ASSUME NEW c \in Handler
      PROVE  task'[c] = IF c = h THEN new ELSE task[c]
  BY DEF TypeOK, LocalType
<1>3. LocalInv'
  BY <1>2 DEF TypeOK, LocalInv
<1> QED
  BY <1>1, <1>3

LEMMA BeginType ==
  ASSUME TypeOK, NEW b \in Buyer, NEW f \in {"widget", "push"},
         BeginInitiate(b, f)
  PROVE  TypeOK'
<1>1. RowType' /\ OrderType' /\ ProviderType'
  BY DEF BeginInitiate, BuyerStep, TypeOK, RowType, OrderType, ProviderType,
         clockVars, orderVars, provVars
<1>2. PICK new : /\ BuyerStep(b, new)
                 /\ \/ new = NoBuyer
                    \/ new = [NoBuyer EXCEPT !.pc = "count", !.flow = f]
                    \/ \E q \in Payment :
                         new = [NoBuyer EXCEPT !.pc = "replace", !.flow = f,
                                               !.pay = q]
  BY DEF BeginInitiate
<1>3. /\ new \in BuyerState
      /\ new.pc \in {"replace", "call", "write"} => new.pay \in Payment
      /\ new.pc # "write"
  BY <1>2, IdleType DEF BuyerState, NoBuyer
<1>4. LocalType' /\ LocalInv'
  BY <1>2, <1>3, BuyerKeeps
<1> QED
  BY <1>1, <1>4 DEF TypeOK

LEMMA ReplaceType ==
  ASSUME TypeOK, NEW b \in Buyer, Replace(b)
  PROVE  TypeOK'
<1>1. buyer[b].pay \in Payment /\ buyer[b] \in BuyerState
  BY DEF Replace, TypeOK, LocalInv, LocalType
<1>2. status' \in [Payment -> PaymentStatus \cup {"NONE"}]
  BY <1>1, OtherType DEF Replace
<1>3. RowType' /\ OrderType' /\ ProviderType'
  BY <1>2 DEF Replace, ApplyOther, BuyerStep, TypeOK, RowType, OrderType,
              ProviderType, clockVars, orderVars, provVars, madeVars
<1> DEFINE new == [buyer[b] EXCEPT !.pc = "count", !.pay = NoPayment]
<1>4. new \in BuyerState /\ new.pc = "count" /\ BuyerStep(b, new)
  BY <1>1 DEF Replace, BuyerState
<1> HIDE DEF new
<1>5. LocalType' /\ LocalInv'
  BY <1>4, BuyerKeeps
<1> QED
  BY <1>3, <1>5 DEF TypeOK

LEMMA CountType ==
  ASSUME TypeOK, NEW b \in Buyer, CountTerminal(b)
  PROVE  TypeOK'
<1> DEFINE rank == Cardinality({p \in Payment : Closed(p)})
<1>1. rank \in 0..Cardinality(Payment)
  BY RankBound
<1>2. RowType' /\ OrderType' /\ ProviderType'
  BY DEF CountTerminal, BuyerStep, TypeOK, RowType, OrderType,
         ProviderType, clockVars, orderVars, provVars, rowVars
<1> DEFINE new == [buyer[b] EXCEPT !.pc = "create", !.rank = rank]
<1>3. BuyerStep(b, new)
  BY DEF CountTerminal
<1> HIDE DEF rank
<1>4. new \in BuyerState /\ new.pc = "create"
  BY <1>1 DEF BuyerState, TypeOK, LocalType
<1> HIDE DEF new
<1>5. LocalType' /\ LocalInv'
  BY <1>3, <1>4, BuyerKeeps
<1> QED
  BY <1>2, <1>5 DEF TypeOK

LEMMA CreateType ==
  ASSUME TypeOK, NEW b \in Buyer, CreatePayment(b)
  PROVE  TypeOK'
<1>1. buyer[b] \in BuyerState
  BY DEF TypeOK, LocalType
<1>2. buyer[b].rank \in 0..Cardinality(Payment)
  BY <1>1 DEF BuyerState
<1>3. /\ status' \in [Payment -> PaymentStatus \cup {"NONE"}]
      /\ gen' \in [Payment -> 0..Cardinality(Payment)]
      /\ shown' \subseteq Payment
  BY <1>2 DEF CreatePayment, TypeOK, RowType, PaymentStatus, InFlight
<1>4. RowType' /\ OrderType' /\ ProviderType'
  BY <1>3 DEF CreatePayment, BuyerStep, TypeOK, RowType, OrderType,
              ProviderType, clockVars, orderVars, provVars
<1>5. PICK new : /\ BuyerStep(b, new)
                 /\ \/ new = NoBuyer
                    \/ \E p \in Payment :
                         new = [buyer[b] EXCEPT !.pc = "call", !.pay = p]
  BY DEF CreatePayment
<1>6. /\ new \in BuyerState
      /\ new.pc \in {"replace", "call", "write"} => new.pay \in Payment
      /\ new.pc # "write"
  BY <1>1, <1>5, IdleType DEF BuyerState, NoBuyer
<1>7. LocalType' /\ LocalInv'
  BY <1>5, <1>6, BuyerKeeps
<1> QED
  BY <1>4, <1>7 DEF TypeOK

LEMMA CallType ==
  ASSUME TypeOK, NEW b \in Buyer, CallProvider(b)
  PROVE  TypeOK'
<1>1. buyer[b] \in BuyerState /\ buyer[b].pay \in Payment
  BY DEF CallProvider, TypeOK, LocalType, LocalInv
<1>2. /\ tx' \in [Tx -> TxStatus \cup {"NONE"}]
      /\ payOf' \in [Tx -> Payment \cup {NoPayment}]
  BY <1>1 DEF CallProvider, TypeOK, ProviderType, provVars, TxStatus, Ended
<1>3. RowType' /\ OrderType' /\ ProviderType'
  BY <1>2 DEF CallProvider, BuyerStep, TypeOK, RowType, OrderType,
              ProviderType, clockVars, orderVars, rowVars
<1>4. PICK s \in {"PENDING", "FAILED"}, x \in Tx \cup {NoTx} :
        BuyerStep(b, [buyer[b] EXCEPT !.pc = "write", !.answer = s, !.ref = x])
  BY DEF CallProvider
<1> DEFINE new == [buyer[b] EXCEPT !.pc = "write", !.answer = s, !.ref = x]
<1>5. /\ new \in BuyerState /\ new.pay \in Payment
      /\ new.answer \in {"PENDING", "FAILED"} /\ BuyerStep(b, new)
  BY <1>1, <1>4 DEF BuyerState
<1> HIDE DEF new
<1>6. LocalType' /\ LocalInv'
  BY <1>5, BuyerKeeps
<1> QED
  BY <1>3, <1>6 DEF TypeOK

LEMMA WriteType ==
  ASSUME TypeOK, NEW b \in Buyer, WriteInitiated(b)
  PROVE  TypeOK'
<1>1. /\ buyer[b] \in BuyerState /\ buyer[b].pay \in Payment
      /\ buyer[b].answer \in {"PENDING", "FAILED"}
  BY DEF WriteInitiated, TypeOK, LocalType, LocalInv
<1>2. buyer[b].ref \in Tx \cup {NoTx}
  BY <1>1 DEF BuyerState
<1>3. /\ status' \in [Payment -> PaymentStatus \cup {"NONE"}]
      /\ ref' \in [Payment -> Tx \cup {NoTx}]
      /\ dated' \subseteq Payment /\ shown' \subseteq Payment
      /\ dated \subseteq dated'
  BY <1>1, <1>2 DEF WriteInitiated, TypeOK, RowType, PaymentStatus, InFlight
<1>4. RowType' /\ OrderType' /\ ProviderType'
  BY <1>3 DEF WriteInitiated, BuyerStep, TypeOK, RowType, OrderType,
              ProviderType, clockVars, orderVars, provVars
<1>5. LocalType' /\ LocalInv'
  BY IdleType, BuyerKeeps DEF WriteInitiated, NoBuyer
<1> QED
  BY <1>4, <1>5 DEF TypeOK

LEMMA DropBuyerType ==
  ASSUME TypeOK, NEW b \in Buyer, DropBuyer(b)
  PROVE  TypeOK'
<1>1. RowType' /\ OrderType' /\ ProviderType'
  BY DEF DropBuyer, BuyerStep, TypeOK, RowType, OrderType, ProviderType,
         clockVars, orderVars, provVars, rowVars
<1>2. LocalType' /\ LocalInv'
  BY IdleType, BuyerKeeps DEF DropBuyer, NoBuyer
<1> QED
  BY <1>1, <1>2 DEF TypeOK

\* The provider, the clock and the order leave local states alone.
LEMMA OutsideType ==
  ASSUME TypeOK, Outside
  PROVE  TypeOK'
<1>1. LocalType' /\ LocalInv' /\ UNCHANGED <<status, ref, gen, dated, shown>>
  BY DEF Outside, TxMoves, WidgetPay, OrderLapses, OrderCloses, PaymentLapses,
         rowVars, TypeOK, LocalType, LocalInv
<1>2. due' \subseteq dated
  BY DEF Outside, TxMoves, WidgetPay, OrderLapses, OrderCloses, PaymentLapses,
         clockVars, TypeOK, RowType
<1>3. RowType'
  BY <1>1, <1>2 DEF TypeOK, RowType
<1>4. OrderType'
  BY DEF Outside, TxMoves, WidgetPay, OrderLapses, OrderCloses, PaymentLapses,
         clockVars, orderVars, TypeOK, OrderType
<1>5. ProviderType'
  BY DEF Outside, TxMoves, WidgetPay, OrderLapses, OrderCloses, PaymentLapses,
         provVars, noteVars, TypeOK, ProviderType, TxStatus, Ended
<1> QED
  BY <1>1, <1>3, <1>4, <1>5 DEF TypeOK
-----------------------------------------------------------------------------
(* Types, the tasks *)

LEMMA StartType ==
  ASSUME TypeOK, NEW h \in Handler, NEW p \in Payment,
         NEW kind \in {"page", "hook", "replay", "poll"},
         NEW x \in Tx \cup {NoTx}, kind = "poll" \/ x \in Tx,
         Start(h, kind, p, x), hook' \in [Tx -> HookStatus \cup {"NONE"}]
  PROVE  TypeOK'
<1> DEFINE new == [pc |-> IF x = NoTx THEN "date" ELSE "asked", kind |-> kind,
                   pay |-> p, x |-> x, was |-> status[p], ref |-> ref[p],
                   answer |-> "NONE"]
<1>1. RowType' /\ OrderType' /\ ProviderType'
  BY DEF Start, TypeOK, RowType, OrderType, ProviderType, clockVars,
         orderVars, provVars, rowVars
<1>2. task' = [task EXCEPT ![h] = new]
  BY DEF Start
<1>3. buyer' = buyer /\ faults' \in 0..MaxFaults
  BY DEF Start, TypeOK, LocalType
<1>4. status[p] \in PaymentStatus \cup {"NONE"} /\ ref[p] \in Tx \cup {NoTx}
  BY DEF TypeOK, RowType
<1>5. /\ new \in TaskState /\ new.pay \in Payment
      /\ new.pc # "date" \/ new.kind = "replay" => new.x \in Tx
  BY <1>4, NoneAssumption DEF TaskState
<1> HIDE DEF new
<1>6. LocalType' /\ LocalInv'
  BY <1>2, <1>3, <1>5, TaskKeeps
<1> QED
  BY <1>1, <1>6 DEF TypeOK

LEMMA StartingType ==
  ASSUME TypeOK, NEW h \in Handler,
         \/ \E p \in Payment : PollStart(h, p) \/ (\E x \in Tx : PageStart(h, p, x))
         \/ \E x \in Tx : HookStart(h, x) \/ ReplayStart(h, x)
  PROVE  TypeOK'
<1>1. CASE \E p \in Payment : PollStart(h, p)
  <2>1. PICK p \in Payment : PollStart(h, p)
    BY <1>1
  <2>2. ref[p] \in Tx \cup {NoTx} /\ hook' \in [Tx -> HookStatus \cup {"NONE"}]
    BY <2>1 DEF PollStart, TypeOK, RowType, ProviderType
  <2> QED
    BY <2>1, <2>2, StartType DEF PollStart
<1>2. CASE \E p \in Payment, x \in Tx : PageStart(h, p, x)
  <2>1. PICK p \in Payment, x \in Tx : PageStart(h, p, x)
    BY <1>2
  <2>2. hook' \in [Tx -> HookStatus \cup {"NONE"}]
    BY <2>1 DEF PageStart, TypeOK, ProviderType
  <2> QED
    BY <2>1, <2>2, StartType DEF PageStart
<1>3. CASE \E x \in Tx : HookStart(h, x)
  <2>1. PICK x \in Tx : HookStart(h, x)
    BY <1>3
  <2>2. hook' \in [Tx -> HookStatus \cup {"NONE"}]
    BY <2>1 DEF HookStart, TypeOK, ProviderType, HookStatus
  <2>3. PICK p \in Payment : Start(h, "hook", p, x)
    BY <2>1 DEF HookStart, Notified
  <2> QED
    BY <2>2, <2>3, StartType
<1>4. CASE \E x \in Tx : ReplayStart(h, x)
  <2>1. PICK x \in Tx : ReplayStart(h, x)
    BY <1>4
  <2>2. hook' \in [Tx -> HookStatus \cup {"NONE"}]
    BY <2>1 DEF ReplayStart, TypeOK, ProviderType, HookStatus
  <2>3. CASE \E p \in Payment : Start(h, "replay", p, x)
    BY <2>2, <2>3, StartType
  <2>4. CASE UNCHANGED <<rowVars, clockVars, orderVars, provVars, flagged,
                         buyer, task, faults>>
    BY <2>2, <2>4 DEF TypeOK, RowType, OrderType, ProviderType, LocalType,
       LocalInv, rowVars, clockVars, orderVars, provVars
  <2> QED
    BY <2>1, <2>3, <2>4 DEF ReplayStart, Notified
<1> QED
  BY <1>1, <1>2, <1>3, <1>4

LEMMA AnswerType ==
  ASSUME TypeOK, NEW h \in Handler, Answer(h)
  PROVE  TypeOK'
<1>1. task[h] \in TaskState /\ task[h].pay \in Payment /\ task[h].x \in Tx
  BY DEF Answer, TypeOK, LocalType, LocalInv
<1>2. RowType' /\ OrderType' /\ ProviderType'
  BY DEF Answer, TypeOK, RowType, OrderType, ProviderType, clockVars,
         orderVars, provVars, rowVars, noteVars
<1> DEFINE a == IF task[h].kind = "hook" /\ tx[task[h].x] = "CANCELLED"
                THEN "FAILED" ELSE tx[task[h].x]
           new == [task[h] EXCEPT !.pc = "answered", !.answer = a]
<1>3. task' = [task EXCEPT ![h] = new] /\ buyer' = buyer
      /\ faults' \in 0..MaxFaults
  BY DEF Answer, TypeOK, LocalType
<1>4. a \in TxStatus \cup {"NONE"}
  BY <1>1 DEF TypeOK, ProviderType, TxStatus, Ended
<1> HIDE DEF a
<1>5. new \in TaskState /\ new.pay \in Payment /\ new.x \in Tx
  BY <1>1, <1>4 DEF TaskState
<1> HIDE DEF new
<1>6. LocalType' /\ LocalInv'
  BY <1>3, <1>5, TaskKeeps
<1> QED
  BY <1>2, <1>6 DEF TypeOK

\* The rows after an answer, whichever the flow.
LEMMA AppliedRows ==
  ASSUME TypeOK, NEW k \in TaskState, k.pay \in Payment, k.x \in Tx, NEW v,
         ApplyWidget(k, v) \/ ApplyPush(k, v)
  PROVE  /\ status' \in [Payment -> PaymentStatus \cup {"NONE"}]
         /\ ref' \in [Payment -> Tx \cup {NoTx}]
         /\ order' \in {"AWAITING_PAYMENT", "PAID", "EXPIRED"}
         /\ credits' \in Nat /\ settledBy' \in Tx \cup {NoTx}
         /\ flagged' \subseteq Tx
<1> DEFINE Kept == /\ status' \in [Payment -> PaymentStatus \cup {"NONE"}]
                   /\ ref' \in [Payment -> Tx \cup {NoTx}]
                   /\ order' \in {"AWAITING_PAYMENT", "PAID", "EXPIRED"}
                   /\ credits' \in Nat /\ settledBy' \in Tx \cup {NoTx}
                   /\ flagged' \subseteq Tx
<1> SUFFICES Kept
  OBVIOUS
<1>1. ref[k.pay] \in Tx \cup {NoTx}
  BY DEF TypeOK, RowType
<1>2. (\E r \in Tx \cup {NoTx} : ApplySuccess(k.pay, k.x, r)) => Kept
  BY SuccessType
<1>3. (\E s : ApplyOther(k.pay, s)) => Kept
  <2> SUFFICES ASSUME NEW s, ApplyOther(k.pay, s) PROVE Kept
    OBVIOUS
  <2>1. status' \in [Payment -> PaymentStatus \cup {"NONE"}]
    BY OtherType
  <2> QED
    BY <2>1 DEF ApplyOther, orderVars, TypeOK, RowType, OrderType, ProviderType
<1>4. UNCHANGED <<status, orderVars>> /\ flagged' \in {flagged, flagged \cup {k.x}}
        /\ (UNCHANGED ref \/ ref' = [ref EXCEPT ![k.pay] = NoTx]
             \/ ref' = [ref EXCEPT ![k.pay] = k.x])
      => Kept
  BY DEF orderVars, TypeOK, RowType, OrderType, ProviderType
<1> HIDE DEF Kept
<1>5. CASE ApplyWidget(k, v)
  <2>1. \/ ApplySuccess(k.pay, k.x, k.x)
        \/ /\ UNCHANGED <<status, orderVars>>
           /\ flagged' \in {flagged, flagged \cup {k.x}}
           /\ \/ UNCHANGED ref \/ ref' = [ref EXCEPT ![k.pay] = NoTx]
              \/ ref' = [ref EXCEPT ![k.pay] = k.x]
    BY <1>5 DEF ApplyWidget, Untouched, BindReference
  <2> QED
    BY <2>1, <1>2, <1>4
<1>6. CASE ApplyPush(k, v)
  <2>1. \/ ApplySuccess(k.pay, k.x, ref[k.pay])
        \/ ApplyOther(k.pay, "EXPIRED") \/ ApplyOther(k.pay, k.answer)
        \/ UNCHANGED <<status, ref, orderVars, flagged>>
    BY <1>6, Zenon DEF ApplyPush, Untouched
  <2>2. CASE ApplyOther(k.pay, "EXPIRED") \/ ApplyOther(k.pay, k.answer)
    BY <2>2, <1>3
  <2>3. CASE ApplySuccess(k.pay, k.x, ref[k.pay])
    BY <2>3, <1>1, <1>2
  <2>4. CASE UNCHANGED <<status, ref, orderVars, flagged>>
    BY <2>4, <1>4
  <2> QED
    BY <2>1, <2>2, <2>3, <2>4
<1> QED
  BY <1>5, <1>6

LEMMA ApplyType ==
  ASSUME TypeOK, NEW h \in Handler, Apply(h)
  PROVE  TypeOK'
<1> DEFINE k == task[h]
<1>1. k \in TaskState /\ k.pay \in Payment /\ k.x \in Tx
  BY DEF Apply, TypeOK, LocalType, LocalInv
<1>2. PICK v \in {"applied", "ignored", "rejected"} :
        /\ ApplyWidget(k, v) \/ ApplyPush(k, v)
        /\ task' = [task EXCEPT ![h] = NextOf(k, v)]
  BY DEF Apply
<1>3. UNCHANGED <<madeVars, clockVars, provVars, hook, buyer, faults>>
  BY DEF Apply
<1> DEFINE new == NextOf(k, v)
<1>4. /\ new \in TaskState
      /\ new = NoTask \/ (new.pay \in Payment /\ new.x \in Tx)
  BY <1>1, IdleType DEF NextOf, TaskState, HookStatus
<1>5. new.pc # "idle" => new.pay \in Payment /\ new.x \in Tx
  BY <1>4 DEF NoTask
<1> HIDE DEF k, new
<1>6. RowType' /\ OrderType' /\ ProviderType'
  BY <1>1, <1>2, <1>3, AppliedRows DEF TypeOK, RowType, OrderType,
     ProviderType, madeVars, clockVars, provVars
<1>7. faults' \in 0..MaxFaults
  BY <1>3 DEF TypeOK, LocalType
<1>8. LocalType' /\ LocalInv'
  BY <1>2, <1>3, <1>4, <1>5, <1>7, TaskKeeps DEF new
<1> QED
  BY <1>6, <1>8 DEF TypeOK

LEMMA UnansweredType ==
  ASSUME TypeOK, NEW h \in Handler, Unanswered(h)
  PROVE  TypeOK'
<1> DEFINE k == task[h]
           new == CASE k.kind = "hook"   -> [k EXCEPT !.pc = "BOUND"]
                    [] k.kind = "replay" /\ Flow[k.pay] = "widget"
                                         -> [k EXCEPT !.pc = "PROCESSED"]
                    [] k.kind = "poll" \/ (k.kind = "replay" /\ Flow[k.pay] = "push")
                                         -> [k EXCEPT !.pc = "date"]
                    [] OTHER             -> NoTask
<1>1. k \in TaskState /\ k.pay \in Payment /\ k.x \in Tx
  BY DEF Unanswered, TypeOK, LocalType, LocalInv
<1>2. task' = [task EXCEPT ![h] = new] /\ buyer' = buyer
  BY DEF Unanswered
<1>3. new = NoTask
      \/ \E pc \in {"BOUND", "PROCESSED", "date"} : new = [k EXCEPT !.pc = pc]
  OBVIOUS
<1>4. new \in TaskState /\ (new.pc # "idle" => new.pay \in Payment /\ new.x \in Tx)
  BY <1>1, <1>3, IdleType DEF TaskState, HookStatus, NoTask
<1>5. faults' \in 0..MaxFaults
  BY FaultAssumption DEF Unanswered, TypeOK, LocalType
<1>6. /\ ref' \in [Payment -> Tx \cup {NoTx}]
      /\ UNCHANGED <<status, orderVars, flagged>>
  BY <1>1 DEF Unanswered, BindReference, Untouched, TypeOK, RowType
<1> HIDE DEF k, new
<1>7. RowType' /\ OrderType' /\ ProviderType'
  BY <1>6 DEF Unanswered, TypeOK, RowType, OrderType, ProviderType, madeVars,
     clockVars, provVars, orderVars
<1>8. LocalType' /\ LocalInv'
  BY <1>2, <1>4, <1>5, TaskKeeps
<1> QED
  BY <1>7, <1>8 DEF TypeOK

LEMMA CheckDateType ==
  ASSUME TypeOK, NEW h \in Handler, CheckDate(h)
  PROVE  TypeOK'
<1> DEFINE k == task[h]
           new == IF k.kind = "replay" THEN [k EXCEPT !.pc = "PROCESSED"]
                  ELSE NoTask
<1>1. /\ k \in TaskState /\ k.pay \in Payment
      /\ k.kind = "replay" => k.x \in Tx
  BY DEF CheckDate, TypeOK, LocalType, LocalInv
<1>2. /\ task' = [task EXCEPT ![h] = new] /\ buyer' = buyer
      /\ faults' \in 0..MaxFaults
  BY DEF CheckDate, TypeOK, LocalType
<1>3. new \in TaskState /\ (new.pc # "idle" => new.pay \in Payment /\ new.x \in Tx)
  BY <1>1, IdleType DEF TaskState, HookStatus, NoTask
<1>4. /\ status' \in [Payment -> PaymentStatus \cup {"NONE"}]
      /\ UNCHANGED <<ref, orderVars, flagged>>
  <2>1. CASE ApplyOther(k.pay, "EXPIRED")
    BY <1>1, <2>1, OtherType DEF ApplyOther
  <2>2. CASE UNCHANGED <<status, ref, orderVars, flagged>>
    BY <2>2 DEF TypeOK, RowType
  <2> QED
    BY <2>1, <2>2 DEF CheckDate, ExpireIfDue
<1> HIDE DEF k, new
<1>5. RowType' /\ OrderType' /\ ProviderType'
  BY <1>4 DEF CheckDate, TypeOK, RowType, OrderType, ProviderType, madeVars,
     clockVars, provVars, orderVars
<1>6. LocalType' /\ LocalInv'
  BY <1>2, <1>3, TaskKeeps
<1> QED
  BY <1>5, <1>6 DEF TypeOK

LEMMA RowWrittenType ==
  ASSUME TypeOK, NEW h \in Handler, WriteRow(h) \/ DropTask(h)
  PROVE  TypeOK'
<1>1. hook' \in [Tx -> HookStatus \cup {"NONE"}] /\ UNCHANGED flagged
  BY DEF WriteRow, DropTask, TypeOK, ProviderType, LocalInv, noteVars
<1>2. RowType' /\ OrderType' /\ ProviderType'
  BY <1>1 DEF WriteRow, DropTask, TypeOK, RowType, OrderType, ProviderType,
     rowVars, clockVars, provVars, orderVars
<1>3. /\ task' = [task EXCEPT ![h] = NoTask] /\ buyer' = buyer
      /\ faults' \in 0..MaxFaults
  BY FaultAssumption DEF WriteRow, DropTask, TypeOK, LocalType
<1>4. LocalType' /\ LocalInv'
  BY <1>3, IdleType, TaskKeeps DEF NoTask
<1> QED
  BY <1>2, <1>4 DEF TypeOK

LEMMA TypeStep == TypeOK /\ [Next]_vars => TypeOK'
<1> SUFFICES ASSUME TypeOK, [Next]_vars PROVE TypeOK'
  OBVIOUS
<1>1. ASSUME NEW b \in Buyer, Initiating(b) PROVE TypeOK'
  BY <1>1, BeginType, ReplaceType, CountType, CreateType, CallType, WriteType,
     DropBuyerType DEF Initiating, Proceeding
<1>2. ASSUME NEW h \in Handler, Reading(h) PROVE TypeOK'
  <2>1. CASE \/ \E p \in Payment : PollStart(h, p) \/ (\E x \in Tx : PageStart(h, p, x))
             \/ \E x \in Tx : HookStart(h, x) \/ ReplayStart(h, x)
    BY <2>1, StartingType
  <2>2. CASE Answer(h) \/ Apply(h) \/ CheckDate(h) \/ WriteRow(h)
    BY <2>2, AnswerType, ApplyType, CheckDateType, RowWrittenType
  <2>3. CASE Unanswered(h) \/ DropTask(h)
    BY <2>3, UnansweredType, RowWrittenType
  <2> QED
    BY <1>2, <2>1, <2>2, <2>3 DEF Reading, Going
<1>3. ASSUME NEW x \in Tx, HookOrphan(x) PROVE TypeOK'
  BY <1>3 DEF HookOrphan, TypeOK, RowType, OrderType, ProviderType, LocalType,
     LocalInv, HookStatus, rowVars, clockVars, orderVars, provVars
<1>4. CASE Outside
  BY <1>4, OutsideType
<1>5. CASE UNCHANGED vars
  BY <1>5 DEF vars, TypeOK, RowType, OrderType, ProviderType, LocalType,
     LocalInv
<1> QED
  BY <1>1, <1>2, <1>3, <1>4, <1>5 DEF Next

\* Every variable keeps its type and every local state the one of its point in
\* the code, whatever requests, notifications, polls and faults do.
THEOREM TypeCorrect == Spec => []TypeOK
BY TypeInit, TypeStep, PTL DEF Spec
-----------------------------------------------------------------------------
(* Transactions and payments *)

\* A transaction never changes payment, and money taken stays taken.
LEMMA TxStep ==
  ASSUME TypeOK, TxLinked, WindowMayDiffer, [Next]_vars
  PROVE  /\ TxLinked' /\ WindowMayDiffer'
         /\ \A x \in Tx : /\ payOf[x] # NoPayment => payOf'[x] = payOf[x]
                          /\ tx[x] = "SUCCEEDED" => tx'[x] = "SUCCEEDED"
<1> DEFINE Goal == /\ TxLinked' /\ WindowMayDiffer'
                   /\ \A x \in Tx :
                        /\ payOf[x] # NoPayment => payOf'[x] = payOf[x]
                        /\ tx[x] = "SUCCEEDED" => tx'[x] = "SUCCEEDED"
<1> SUFFICES Goal
  OBVIOUS
<1>1. CASE UNCHANGED <<tx, payOf>>
  BY <1>1 DEF TxLinked, WindowMayDiffer
<1>2. ASSUME NEW x \in Tx, tx[x] = "NONE", NEW p \in Payment, NEW s,
             s # "NONE", x \notin Underpaid \/ p \in Widgets,
             tx' = [tx EXCEPT ![x] = s], payOf' = [payOf EXCEPT ![x] = p]
      PROVE  Goal
  <2>1. ASSUME NEW y \in Tx
        PROVE  /\ tx'[y] = IF y = x THEN s ELSE tx[y]
               /\ payOf'[y] = IF y = x THEN p ELSE payOf[y]
    BY <1>2 DEF TypeOK, ProviderType
  <2>2. TxLinked'
    BY <1>2, <2>1, NoneAssumption DEF TxLinked
  <2>3. WindowMayDiffer'
    BY <1>2, <2>1, UnderpaidAssumption DEF WindowMayDiffer
  <2>4. payOf[x] = NoPayment
    BY <1>2 DEF TxLinked
  <2> QED
    BY <1>2, <2>1, <2>2, <2>3, <2>4
<1>3. ASSUME NEW x \in Tx, tx[x] \in {"PENDING", "PROCESSING"}, NEW s,
             s # "NONE", tx' = [tx EXCEPT ![x] = s], UNCHANGED payOf
      PROVE  Goal
  <2>1. ASSUME NEW y \in Tx
        PROVE  tx'[y] = IF y = x THEN s ELSE tx[y]
    BY <1>3 DEF TypeOK, ProviderType
  <2> QED
    BY <1>3, <2>1 DEF TxLinked, WindowMayDiffer
<1> HIDE DEF Goal
<1>4. ASSUME NEW b \in Buyer, CallProvider(b) PROVE Goal
  <2>1. buyer[b].pay \in Payment
    BY <1>4 DEF CallProvider, TypeOK, LocalInv
  <2>2. CASE UNCHANGED <<tx, payOf>>
    BY <1>1, <2>2
  <2>3. CASE \E x \in Tx \ Underpaid, s \in {"PENDING", "FAILED"} :
               /\ tx[x] = "NONE" /\ tx' = [tx EXCEPT ![x] = s]
               /\ payOf' = [payOf EXCEPT ![x] = buyer[b].pay]
    BY <1>2, <2>1, <2>3
  <2> QED
    BY <1>4, <2>2, <2>3 DEF CallProvider, provVars
<1>5. ASSUME NEW x \in Tx, NEW p \in Payment, WidgetPay(x, p) PROVE Goal
  <2>1. p \in Widgets
    BY <1>5 DEF WidgetPay, Flow
  <2> QED
    BY <1>2, <1>5, <2>1 DEF WidgetPay
<1>6. ASSUME NEW x \in Tx, TxMoves(x) PROVE Goal
  <2>1. /\ tx[x] \in {"PENDING", "PROCESSING"} /\ UNCHANGED payOf
        /\ \E s \in {"PROCESSING", "SUCCEEDED", "FAILED", "CANCELLED"} :
             tx' = [tx EXCEPT ![x] = s]
    BY <1>6 DEF TxMoves
  <2> QED
    BY <1>3, <2>1
<1>7. \/ UNCHANGED <<tx, payOf>>
      \/ \E b \in Buyer : CallProvider(b)
      \/ \E x \in Tx : TxMoves(x) \/ (\E p \in Payment : WidgetPay(x, p))
  <2>1. CASE Outside
    BY <2>1 DEF Outside, OrderLapses, OrderCloses, PaymentLapses, provVars
  <2>2. CASE \E b \in Buyer : Initiating(b)
    BY <2>2 DEF Initiating, Proceeding, BeginInitiate, Replace, CountTerminal,
       CreatePayment, WriteInitiated, DropBuyer, provVars
  <2>3. CASE \E h \in Handler : Reading(h)
    BY <2>3 DEF Reading, Going, PollStart, PageStart, HookStart, ReplayStart,
       Start, Answer, Apply, CheckDate, WriteRow, Unanswered, DropTask, provVars
  <2>4. CASE \E x \in Tx : HookOrphan(x)
    BY <2>4 DEF HookOrphan, provVars
  <2>5. CASE UNCHANGED vars
    BY <2>5 DEF vars
  <2> QED
    BY <2>1, <2>2, <2>3, <2>4, <2>5 DEF Next
<1> QED
  BY <1>1, <1>4, <1>5, <1>6, <1>7

\* A row only takes the reference of a transaction made for its payment.
LEMMA RefStep ==
  ASSUME TypeOK, LinkInv, WindowMayDiffer, [Next]_vars
  PROVE  RefLinked'
<1> DEFINE Fresh(p) == ref'[p] = NoTx \/ ref'[p] = ref[p]
                         \/ (ref'[p] \in Tx /\ payOf[ref'[p]] = p)
<1>1. ASSUME \A p \in Payment : Fresh(p) PROVE RefLinked'
  <2> SUFFICES ASSUME NEW p \in Payment, ref'[p] # NoTx
               PROVE  payOf'[ref'[p]] = p
    BY DEF RefLinked
  <2>1. ref'[p] \in Tx /\ payOf[ref'[p]] = p
    BY <1>1 DEF LinkInv, RefLinked, TypeOK, RowType
  <2>2. p # NoPayment
    BY NoneAssumption
  <2> QED
    BY <2>1, <2>2, TxStep DEF LinkInv
<1>2. ASSUME NEW q \in Payment, NEW x, x = NoTx \/ (x \in Tx /\ payOf[x] = q),
             ref' = [ref EXCEPT ![q] = x]
      PROVE  \A p \in Payment : Fresh(p)
  <2> SUFFICES ASSUME NEW p \in Payment PROVE Fresh(p)
    OBVIOUS
  <2>1. ref'[p] = IF p = q THEN x ELSE ref[p]
    BY <1>2 DEF TypeOK, RowType
  <2> QED
    BY <1>2, <2>1
<1>3. CASE UNCHANGED ref
  BY <1>1, <1>3
<1>4. ASSUME NEW b \in Buyer, WriteInitiated(b) PROVE RefLinked'
  <2>1. /\ buyer[b].pay \in Payment /\ buyer[b].ref \in Tx \cup {NoTx}
        /\ ref' = [ref EXCEPT ![buyer[b].pay] = buyer[b].ref]
        /\ buyer[b].ref # NoTx => payOf[buyer[b].ref] = buyer[b].pay
    BY <1>4 DEF WriteInitiated, TypeOK, LocalType, LocalInv, BuyerState,
       LinkInv, AnswerLinked
  <2> QED
    BY <1>1, <1>2, <2>1
<1>5. ASSUME NEW h \in Handler, Apply(h) PROVE RefLinked'
  <2> DEFINE k == task[h]
  <2>1. k.pay \in Payment /\ k.x \in Tx
    BY <1>5 DEF Apply, TypeOK, LocalInv
  <2>2. \/ UNCHANGED ref
        \/ /\ payOf[k.x] = k.pay
           /\ \/ ref' = [ref EXCEPT ![k.pay] = k.x]
              \/ ref' = [ref EXCEPT ![k.pay] = NoTx]
        \/ ref' = [ref EXCEPT ![k.pay] = ref[k.pay]]
    <3>1. PICK v : IF Flow[k.pay] = "widget" THEN ApplyWidget(k, v)
                   ELSE ApplyPush(k, v)
      BY <1>5 DEF Apply
    <3> HIDE DEF k
    <3>2. CASE ApplyWidget(k, v)
      BY <3>2 DEF ApplyWidget, Misbound, ApplySuccess, BindReference, Untouched
    <3>3. CASE ApplyPush(k, v)
      BY <3>3 DEF ApplyPush, ApplySuccess, ApplyOther, Untouched
    <3> QED
      BY <3>1, <3>2, <3>3
  <2>3. CASE ref' = [ref EXCEPT ![k.pay] = ref[k.pay]]
    <3>1. ref' = ref
      BY <2>1, <2>3 DEF TypeOK, RowType
    <3> QED
      BY <1>3, <3>1
  <2> HIDE DEF k
  <2> QED
    BY <1>1, <1>2, <1>3, <2>1, <2>2, <2>3
<1>6. ASSUME NEW h \in Handler, Unanswered(h) PROVE RefLinked'
  <2> DEFINE k == task[h]
  <2>1. k.pay \in Payment /\ k.x \in Tx
    BY <1>6 DEF Unanswered, TypeOK, LocalInv
  <2>2. \/ UNCHANGED ref
        \/ k.kind = "hook" /\ k.pc = "asked" /\ ref' = [ref EXCEPT ![k.pay] = k.x]
    BY <1>6 DEF Unanswered, BindReference, Untouched
  <2>3. k.kind = "hook" /\ k.pc = "asked" => payOf[k.x] = k.pay
    BY DEF LinkInv, ReadingLinked
  <2> HIDE DEF k
  <2> QED
    BY <1>1, <1>2, <1>3, <2>1, <2>2, <2>3
<1>7. \/ UNCHANGED ref
      \/ \E b \in Buyer : WriteInitiated(b)
      \/ \E h \in Handler : Apply(h) \/ Unanswered(h)
  <2>1. CASE Outside
    BY <2>1 DEF Outside, WidgetPay, TxMoves, OrderLapses, OrderCloses,
       PaymentLapses, rowVars
  <2>2. CASE \E b \in Buyer : Initiating(b)
    BY <2>2 DEF Initiating, Proceeding, BeginInitiate, Replace, CountTerminal,
       CreatePayment, CallProvider, DropBuyer, ApplyOther, rowVars
  <2>3. CASE \E h \in Handler : Reading(h)
    BY <2>3 DEF Reading, Going, PollStart, PageStart, HookStart, ReplayStart,
       Start, Answer, CheckDate, ExpireIfDue, ApplyOther, WriteRow, DropTask,
       rowVars
  <2>4. CASE \E x \in Tx : HookOrphan(x)
    BY <2>4 DEF HookOrphan, rowVars
  <2>5. CASE UNCHANGED vars
    BY <2>5 DEF vars
  <2> QED
    BY <2>1, <2>2, <2>3, <2>4, <2>5 DEF Next
<1> QED
  BY <1>3, <1>4, <1>5, <1>6, <1>7

\* The answer of an initiation names a transaction made for its payment.
LEMMA AnswerStep ==
  ASSUME TypeOK, LinkInv, WindowMayDiffer, [Next]_vars
  PROVE  AnswerLinked'
<1> SUFFICES ASSUME NEW c \in Buyer, buyer'[c].pc = "write",
                    buyer'[c].ref # NoTx
             PROVE  payOf'[buyer'[c].ref] = buyer'[c].pay
  BY DEF AnswerLinked
<1>1. CASE buyer'[c] = buyer[c]
  <2>1. buyer[c].ref \in Tx /\ buyer[c].pay \in Payment
    BY <1>1 DEF TypeOK, LocalType, LocalInv, BuyerState
  <2>2. payOf[buyer[c].ref] = buyer[c].pay
    BY <1>1 DEF LinkInv, AnswerLinked
  <2> QED
    BY <1>1, <2>1, <2>2, TxStep, NoneAssumption DEF LinkInv
<1>2. CASE CallProvider(c)
  <2>1. /\ buyer[c] \in BuyerState /\ buyer[c].pay \in Payment
    BY <1>2 DEF CallProvider, TypeOK, LocalType, LocalInv
  <2>2. PICK s \in {"PENDING", "FAILED"}, x \in Tx \cup {NoTx} :
          /\ buyer' = [buyer EXCEPT ![c] = [buyer[c] EXCEPT !.pc = "write",
                                              !.answer = s, !.ref = x]]
          /\ x # NoTx => payOf' = [payOf EXCEPT ![x] = buyer[c].pay]
    BY <1>2 DEF CallProvider, BuyerStep
  <2>3. buyer'[c] = [buyer[c] EXCEPT !.pc = "write", !.answer = s, !.ref = x]
    BY <2>2 DEF TypeOK, LocalType
  <2>4. buyer'[c].ref = x /\ buyer'[c].pay = buyer[c].pay
    BY <2>1, <2>3 DEF BuyerState
  <2> QED
    BY <2>2, <2>4 DEF TypeOK, ProviderType
<1>3. buyer'[c] = buyer[c] \/ CallProvider(c)
  <2>1. CASE \E b \in Buyer : Initiating(b)
    <3>1. PICK b \in Buyer : Initiating(b)
      BY <2>1
    <3>2. PICK new : BuyerStep(b, new) /\ (new.pc # "write" \/ CallProvider(b))
      <4>0. buyer[b] \in BuyerState
        BY DEF TypeOK, LocalType
      <4>1. CASE Replace(b) \/ CountTerminal(b)
        <5>1. \/ BuyerStep(b, [buyer[b] EXCEPT !.pc = "count", !.pay = NoPayment])
              \/ \E r : BuyerStep(b, [buyer[b] EXCEPT !.pc = "create", !.rank = r])
          BY <4>1 DEF Replace, CountTerminal
        <5>2. [buyer[b] EXCEPT !.pc = "count", !.pay = NoPayment].pc # "write"
          BY <4>0 DEF BuyerState
        <5>3. ASSUME NEW r
              PROVE  [buyer[b] EXCEPT !.pc = "create", !.rank = r].pc # "write"
          BY <4>0 DEF BuyerState
        <5> QED
          BY <5>1, <5>2, <5>3
      <4>2. CASE CreatePayment(b)
        <5>1. \/ BuyerStep(b, NoBuyer)
              \/ \E p : BuyerStep(b, [buyer[b] EXCEPT !.pc = "call", !.pay = p])
          BY <4>2 DEF CreatePayment
        <5>2. NoBuyer.pc # "write"
          BY DEF NoBuyer
        <5>3. ASSUME NEW p
              PROVE  [buyer[b] EXCEPT !.pc = "call", !.pay = p].pc # "write"
          BY <4>0 DEF BuyerState
        <5> QED
          BY <5>1, <5>2, <5>3
      <4>3. CASE CallProvider(b)
        BY <4>3 DEF CallProvider
      <4>4. CASE WriteInitiated(b) \/ DropBuyer(b)
        BY <4>4 DEF WriteInitiated, DropBuyer, NoBuyer
      <4>5. CASE \E f \in {"widget", "push"} : BeginInitiate(b, f)
        <5>1. \/ BuyerStep(b, NoBuyer)
              \/ \E f : BuyerStep(b, [NoBuyer EXCEPT !.pc = "count", !.flow = f])
              \/ \E f, q : BuyerStep(b, [NoBuyer EXCEPT !.pc = "replace",
                                         !.flow = f, !.pay = q])
          BY <4>5 DEF BeginInitiate
        <5>2. ASSUME NEW f, NEW q
              PROVE  /\ [NoBuyer EXCEPT !.pc = "count", !.flow = f].pc # "write"
                     /\ [NoBuyer EXCEPT !.pc = "replace", !.flow = f,
                                        !.pay = q].pc # "write"
                     /\ NoBuyer.pc # "write"
          BY DEF NoBuyer
        <5> QED
          BY <5>1, <5>2
      <4> QED
        BY <3>1, <4>1, <4>2, <4>3, <4>4, <4>5 DEF Initiating, Proceeding
    <3>3. buyer'[c] = IF c = b THEN new ELSE buyer[c]
      BY <3>2 DEF BuyerStep, TypeOK, LocalType
    <3> QED
      BY <3>2, <3>3
  <2>2. CASE Outside
    BY <2>2 DEF Outside, WidgetPay, TxMoves, OrderLapses, OrderCloses,
       PaymentLapses
  <2>3. CASE \E h \in Handler : Reading(h)
    BY <2>3 DEF Reading, Going, PollStart, PageStart, HookStart, ReplayStart,
       Start, Answer, Apply, Unanswered, CheckDate, WriteRow, DropTask
  <2>4. CASE \E x \in Tx : HookOrphan(x)
    BY <2>4 DEF HookOrphan
  <2>5. CASE UNCHANGED vars
    BY <2>5 DEF vars
  <2> QED
    BY <2>1, <2>2, <2>3, <2>4, <2>5 DEF Next
<1> QED
  BY <1>1, <1>2, <1>3
-----------------------------------------------------------------------------
(* What the tasks know *)

Reads(k) == k.kind = "hook" \/ k.pay \notin Widgets => payOf[k.x] = k.pay

\* A reading begins with what its payment is.
Started(k) == /\ k.pc = "asked" /\ Reads(k)
              /\ k.was = status[k.pay] /\ k.ref = ref[k.pay]

\* What a task may become: unchanged, started on a transaction of its payment,
\* answered, or past its reading.
LEMMA TaskStep ==
  ASSUME TypeOK, LinkInv, [Next]_vars, NEW c \in Handler
  PROVE  \/ task'[c] = task[c]
         \/ Started(task'[c])
         \/ Answer(c)
         \/ task'[c].pc \notin {"asked", "answered"}
<1> DEFINE Goal == \/ task'[c] = task[c]
                   \/ Started(task'[c])
                   \/ Answer(c)
                   \/ task'[c].pc \notin {"asked", "answered"}
<1> SUFFICES Goal
  OBVIOUS
<1>1. CASE UNCHANGED task
  BY <1>1
<1>2. ASSUME NEW h \in Handler, NEW new, task' = [task EXCEPT ![h] = new],
             \/ Started(new)
             \/ new.pc \notin {"asked", "answered"}
      PROVE  Goal
  <2>1. task'[c] = IF c = h THEN new ELSE task[c]
    BY <1>2 DEF TypeOK, LocalType
  <2> QED
    BY <1>2, <2>1
<1>3. ASSUME NEW h \in Handler, NEW kind, NEW p \in Payment,
             NEW x \in Tx \cup {NoTx}, Start(h, kind, p, x),
             x # NoTx /\ (kind = "hook" \/ p \notin Widgets) => payOf[x] = p
      PROVE  Goal
  <2> DEFINE new == [pc |-> IF x = NoTx THEN "date" ELSE "asked",
                     kind |-> kind, pay |-> p, x |-> x, was |-> status[p],
                     ref |-> ref[p], answer |-> "NONE"]
  <2>1. task' = [task EXCEPT ![h] = new]
    BY <1>3 DEF Start
  <2>2. \/ Started(new)
        \/ new.pc \notin {"asked", "answered"}
    BY <1>3 DEF Started, Reads
  <2> HIDE DEF new
  <2> QED
    BY <1>2, <2>1, <2>2
<1> HIDE DEF Goal
<1>4. ASSUME NEW h \in Handler, NEW p \in Payment, PollStart(h, p) PROVE Goal
  <2>1. /\ ref[p] \in Tx \cup {NoTx} /\ Start(h, "poll", p, ref[p])
        /\ ref[p] # NoTx => payOf[ref[p]] = p
    BY <1>4 DEF PollStart, TypeOK, RowType, LinkInv, RefLinked
  <2> QED
    BY <1>3, <2>1
<1>5. ASSUME NEW h \in Handler, NEW p \in Payment, NEW x \in Tx,
             PageStart(h, p, x)
      PROVE  Goal
  <2>1. Start(h, "page", p, x) /\ p \in Widgets
    BY <1>5 DEF PageStart, Flow
  <2> QED
    BY <1>3, <2>1
<1>6. ASSUME NEW x \in Tx, NEW p \in Notified(x)
      PROVE  p \in Payment /\ payOf[x] = p
  BY <1>6, NoneAssumption DEF Notified, LinkInv, RefLinked
<1>7. ASSUME NEW h \in Handler, NEW x \in Tx, HookStart(h, x) PROVE Goal
  <2>1. PICK p \in Notified(x) : Start(h, "hook", p, x)
    BY <1>7 DEF HookStart
  <2> QED
    BY <1>3, <1>6, <2>1
<1>8. ASSUME NEW h \in Handler, NEW x \in Tx, ReplayStart(h, x) PROVE Goal
  <2>1. UNCHANGED task \/ \E p \in Notified(x) : Start(h, "replay", p, x)
    BY <1>8 DEF ReplayStart
  <2> QED
    BY <1>1, <1>3, <1>6, <2>1
<1>9. ASSUME NEW h \in Handler, Answer(h) PROVE Goal
  <2>1. CASE h = c
    BY <1>9, <2>1 DEF Goal
  <2>2. CASE h # c
    BY <1>9, <2>2 DEF Answer, TypeOK, LocalType, Goal
  <2> QED
    BY <2>1, <2>2
<1>10. ASSUME NEW h \in Handler,
              Apply(h) \/ Unanswered(h) \/ CheckDate(h) \/ WriteRow(h) \/ DropTask(h)
       PROVE  Goal
  <2> DEFINE k == task[h]
  <2>1. k \in TaskState
    BY DEF TypeOK, LocalType
  <2>2. \/ task' = [task EXCEPT ![h] = NoTask]
        \/ \E pc \in {"PROCESSED", "IGNORED", "FAILED", "BOUND", "date"} :
             task' = [task EXCEPT ![h] = [k EXCEPT !.pc = pc]]
    BY <1>10 DEF Apply, NextOf, Unanswered, CheckDate, WriteRow, DropTask
  <2>3. NoTask.pc \notin {"asked", "answered"}
    BY DEF NoTask
  <2>4. \A pc \in {"PROCESSED", "IGNORED", "FAILED", "BOUND", "date"} :
          [k EXCEPT !.pc = pc].pc \notin {"asked", "answered"}
    BY <2>1 DEF TaskState
  <2> HIDE DEF k
  <2> QED
    BY <1>2, <2>2, <2>3, <2>4
<1>11. CASE \E h \in Handler : Reading(h)
  BY <1>11, <1>4, <1>5, <1>7, <1>8, <1>9, <1>10 DEF Reading, Going
<1>12. CASE Outside
  BY <1>12, <1>1 DEF Outside, WidgetPay, TxMoves, OrderLapses, OrderCloses,
     PaymentLapses
<1>13. CASE \E b \in Buyer : Initiating(b)
  BY <1>13, <1>1 DEF Initiating, Proceeding, BeginInitiate, Replace,
     CountTerminal, CreatePayment, CallProvider, WriteInitiated, DropBuyer,
     BuyerStep
<1>14. CASE \E x \in Tx : HookOrphan(x)
  BY <1>14, <1>1 DEF HookOrphan
<1>15. CASE UNCHANGED vars
  BY <1>15, <1>1 DEF vars
<1> QED
  BY <1>11, <1>12, <1>13, <1>14, <1>15 DEF Next

LEMMA AnswerReads ==
  ASSUME TypeOK, NEW h \in Handler, Answer(h)
  PROVE  /\ task[h].pc = "asked" /\ task[h].x \in Tx
         /\ task'[h].pay = task[h].pay /\ task'[h].x = task[h].x
         /\ task'[h].kind = task[h].kind
         /\ task'[h].was = task[h].was /\ task'[h].ref = task[h].ref
         /\ task'[h].answer = "SUCCEEDED" => tx[task[h].x] = "SUCCEEDED"
<1> DEFINE a == IF task[h].kind = "hook" /\ tx[task[h].x] = "CANCELLED"
                THEN "FAILED" ELSE tx[task[h].x]
<1>1. task[h].pc = "asked" /\ task[h].x \in Tx /\ task[h] \in TaskState
  BY DEF Answer, TypeOK, LocalType, LocalInv
<1>2. task'[h] = [task[h] EXCEPT !.pc = "answered", !.answer = a]
  BY DEF Answer, TypeOK, LocalType
<1>3. a = "SUCCEEDED" => tx[task[h].x] = "SUCCEEDED"
  OBVIOUS
<1> HIDE DEF a
<1>4. /\ task'[h].pay = task[h].pay /\ task'[h].x = task[h].x
      /\ task'[h].kind = task[h].kind /\ task'[h].answer = a
      /\ task'[h].was = task[h].was /\ task'[h].ref = task[h].ref
  BY <1>1, <1>2 DEF TaskState
<1> QED
  BY <1>1, <1>3, <1>4

\* A notification, and any reading of a push, is about its own payment.
LEMMA ReadingStep ==
  ASSUME TypeOK, LinkInv, WindowMayDiffer, [Next]_vars
  PROVE  ReadingLinked'
<1> SUFFICES ASSUME NEW c \in Handler, task'[c].pc \in {"asked", "answered"},
                    task'[c].kind = "hook" \/ task'[c].pay \notin Widgets
             PROVE  payOf'[task'[c].x] = task'[c].pay
  BY DEF ReadingLinked
<1>1. TypeOK'
  BY TypeStep
<1>2. task'[c].x \in Tx /\ task'[c].pay \in Payment
  BY <1>1 DEF TypeOK, LocalInv
<1>3. payOf[task'[c].x] = task'[c].pay
  <2>1. CASE task'[c] = task[c]
    BY <2>1 DEF LinkInv, ReadingLinked
  <2>2. CASE Started(task'[c])
    BY <2>2 DEF Started, Reads
  <2>3. CASE Answer(c)
    BY <2>3, AnswerReads DEF LinkInv, ReadingLinked
  <2> QED
    BY <2>1, <2>2, <2>3, TaskStep
<1> QED
  BY <1>2, <1>3, TxStep, NoneAssumption DEF LinkInv

\* A success that a task has read is one.
LEMMA LearntStep ==
  ASSUME TypeOK, LinkInv, MoneyInv, [Next]_vars
  PROVE  LearntIsTaken'
<1> SUFFICES ASSUME NEW c \in Handler, task'[c].pc = "answered",
                    task'[c].answer = "SUCCEEDED"
             PROVE  tx'[task'[c].x] = "SUCCEEDED"
  BY DEF LearntIsTaken
<1>1. task'[c].x \in Tx /\ tx[task'[c].x] = "SUCCEEDED"
  <2>1. CASE task'[c] = task[c]
    BY <2>1 DEF MoneyInv, LearntIsTaken, TypeOK, LocalInv
  <2>2. CASE Answer(c)
    BY <2>2, AnswerReads
  <2> QED
    BY <2>1, <2>2, TaskStep DEF Started
<1> QED
  BY <1>1, TxStep DEF LinkInv, MoneyInv
-----------------------------------------------------------------------------
(* The order *)

\* The order is only paid by Apply, with the amount due, and only when it was
\* not paid yet.
LEMMA OrderStep ==
  ASSUME TypeOK, LinkInv, MoneyInv, [Next]_vars
  PROVE  \/ UNCHANGED orderVars
         \/ order # "PAID" /\ order' # "PAID" /\ UNCHANGED <<credits, settledBy>>
         \/ \E x \in Tx \ Underpaid :
              /\ order # "PAID" /\ order' = "PAID" /\ credits' = credits + 1
              /\ settledBy' = x /\ tx[x] = "SUCCEEDED" /\ UNCHANGED tx
<1> DEFINE Pays == \E x \in Tx \ Underpaid :
              /\ order # "PAID" /\ order' = "PAID" /\ credits' = credits + 1
              /\ settledBy' = x /\ tx[x] = "SUCCEEDED" /\ UNCHANGED tx
<1> SUFFICES \/ UNCHANGED orderVars
             \/ /\ order # "PAID" /\ order' # "PAID"
                /\ UNCHANGED <<credits, settledBy>>
             \/ Pays
  OBVIOUS
<1>1. ASSUME NEW h \in Handler, Apply(h)
      PROVE  UNCHANGED orderVars \/ Pays
  <2> DEFINE k == task[h]
  <2>1. /\ k.pay \in Payment /\ k.x \in Tx /\ k.pc = "answered"
        /\ UNCHANGED tx
    BY <1>1 DEF Apply, TypeOK, LocalInv, provVars
  <2>2. k.answer = "SUCCEEDED" => tx[k.x] = "SUCCEEDED"
    BY <2>1 DEF MoneyInv, LearntIsTaken
  <2>3. k.pay \notin Widgets => k.x \notin Underpaid
    BY <2>1, NoneAssumption
       DEF MoneyInv, WindowMayDiffer, LinkInv, ReadingLinked
  <2>4. PICK v : IF Flow[k.pay] = "widget" THEN ApplyWidget(k, v)
                 ELSE ApplyPush(k, v)
    BY <1>1 DEF Apply
  <2> HIDE DEF k
  <2>5. \/ UNCHANGED orderVars
        \/ \E r : /\ ApplySuccess(k.pay, k.x, r) /\ k.answer = "SUCCEEDED"
                  /\ k.x \notin Underpaid
    <3>1. CASE k.pay \in Widgets
      <4>1. PICK w : ApplyWidget(k, w)
        BY <2>1, <2>4, <3>1 DEF Flow
      <4> QED
        BY <4>1 DEF ApplyWidget, Misbound, BindReference, Untouched
    <3>2. CASE k.pay \notin Widgets
      <4>1. ApplyPush(k, v)
        BY <2>1, <2>4, <3>2 DEF Flow
      <4>2. \/ UNCHANGED orderVars
            \/ k.answer = "SUCCEEDED" /\ ApplySuccess(k.pay, k.x, ref[k.pay])
        BY <4>1 DEF ApplyPush, ApplyOther, Untouched
      <4> QED
        BY <4>2, <2>3, <3>2
    <3> QED
      BY <3>1, <3>2
  <2>6. ASSUME NEW r, ApplySuccess(k.pay, k.x, r)
        PROVE  \/ UNCHANGED orderVars
               \/ /\ order # "PAID" /\ order' = "PAID"
                  /\ credits' = credits + 1 /\ settledBy' = k.x
    BY <2>6 DEF ApplySuccess, SettledElsewhere, MarkPaid, orderVars
  <2> QED
    BY <2>1, <2>2, <2>5, <2>6
<1>2. \/ UNCHANGED orderVars
      \/ OrderCloses
      \/ \E h \in Handler : Apply(h)
  <2>1. CASE Outside
    BY <2>1 DEF Outside, WidgetPay, TxMoves, OrderLapses, PaymentLapses
  <2>2. CASE \E b \in Buyer : Initiating(b)
    BY <2>2 DEF Initiating, Proceeding, BeginInitiate, Replace, CountTerminal,
       CreatePayment, CallProvider, WriteInitiated, DropBuyer, ApplyOther
  <2>3. CASE \E h \in Handler : Reading(h)
    BY <2>3 DEF Reading, Going, PollStart, PageStart, HookStart, ReplayStart,
       Start, Answer, Unanswered, BindReference, Untouched, CheckDate,
       ExpireIfDue, ApplyOther, WriteRow, DropTask
  <2>4. CASE \E x \in Tx : HookOrphan(x)
    BY <2>4 DEF HookOrphan
  <2>5. CASE UNCHANGED vars
    BY <2>5 DEF vars, orderVars
  <2> QED
    BY <2>1, <2>2, <2>3, <2>4, <2>5 DEF Next
<1>3. OrderCloses => /\ order # "PAID" /\ order' # "PAID"
                     /\ UNCHANGED <<credits, settledBy>>
  BY DEF OrderCloses
<1> QED
  BY <1>1, <1>2, <1>3

LEMMA PaidStep ==
  ASSUME TypeOK, LinkInv, MoneyInv, [Next]_vars
  PROVE  PaidByMoney' /\ (CreditedOnce => CreditedOnce')
<1>1. CASE UNCHANGED orderVars
  BY <1>1, TxStep DEF orderVars, CreditedOnce, MoneyInv, PaidByMoney, LinkInv
<1>2. CASE order # "PAID" /\ order' # "PAID" /\ UNCHANGED <<credits, settledBy>>
  BY <1>2 DEF CreditedOnce, MoneyInv, PaidByMoney
<1>3. ASSUME NEW x \in Tx \ Underpaid, order # "PAID", order' = "PAID",
             credits' = credits + 1, settledBy' = x, tx[x] = "SUCCEEDED",
             UNCHANGED tx
      PROVE  PaidByMoney' /\ (CreditedOnce => CreditedOnce')
  BY <1>3, NoneAssumption DEF CreditedOnce, PaidByMoney
<1> QED
  BY <1>1, <1>2, <1>3, OrderStep

\* The inductive invariant: types, links, money, and one credit at most.
IInv == TypeOK /\ LinkInv /\ MoneyInv /\ CreditedOnce

LEMMA IInvInit == Init => IInv
<1> SUFFICES ASSUME Init PROVE IInv
  OBVIOUS
<1>1. LinkInv
  BY DEF Init, NoBuyer, NoTask, LinkInv, TxLinked, RefLinked, AnswerLinked,
     ReadingLinked
<1>2. MoneyInv /\ CreditedOnce
  BY UnderpaidAssumption DEF Init, NoTask, MoneyInv, LearntIsTaken,
     WindowMayDiffer, PaidByMoney, CreditedOnce
<1> QED
  BY <1>1, <1>2, TypeInit DEF IInv

LEMMA IInvStep == IInv /\ [Next]_vars => IInv'
<1> SUFFICES ASSUME IInv, [Next]_vars PROVE IInv'
  OBVIOUS
<1>1. TypeOK /\ LinkInv /\ MoneyInv /\ CreditedOnce
  BY DEF IInv
<1>2. TxLinked /\ WindowMayDiffer
  BY <1>1 DEF LinkInv, MoneyInv
<1>3. TypeOK'
  BY <1>1, TypeStep
<1>4. LinkInv'
  BY <1>1, <1>2, TxStep, RefStep, AnswerStep, ReadingStep DEF LinkInv
<1>5. MoneyInv' /\ CreditedOnce'
  BY <1>1, <1>2, TxStep, LearntStep, PaidStep DEF MoneyInv
<1> QED
  BY <1>3, <1>4, <1>5 DEF IInv

LEMMA IInvCorrect == Spec => []IInv
BY IInvInit, IInvStep, PTL DEF Spec

\* Two payments of one order, a duplicate notification, a poll that races the
\* page: the order is credited once, exactly when it is paid.
THEOREM CreditedOnceCorrect == Spec => []CreditedOnce
<1>1. IInv => CreditedOnce
  BY DEF IInv
<1> QED
  BY <1>1, IInvCorrect, PTL

\* The order is paid exactly when a transaction that took the amount due has
\* settled it.
THEOREM MoneyCorrect == Spec => []MoneyInv
<1>1. IInv => MoneyInv
  BY DEF IInv
<1> QED
  BY <1>1, IInvCorrect, PTL

\* A payment never carries, and the order is never settled by, a transaction
\* made for something else.
THEOREM OwnTransactionsCorrect == Spec => []OwnTransactions
<1>1. IInv => OwnTransactions
  <2> SUFFICES ASSUME IInv PROVE OwnTransactions
    OBVIOUS
  <2>1. \A p \in Payment : ref[p] # NoTx => payOf[ref[p]] = p
    BY DEF IInv, LinkInv, RefLinked
  <2>2. settledBy # NoTx => payOf[settledBy] \in Payment
    BY DEF IInv, MoneyInv, PaidByMoney, LinkInv, TxLinked, TypeOK, ProviderType
  <2> QED
    BY <2>1, <2>2 DEF OwnTransactions
<1> QED
  BY <1>1, IInvCorrect, PTL

\* The rows, the answers not yet written and the readings under way all link a
\* transaction to the payment it was made for.
THEOREM LinkCorrect == Spec => []LinkInv
<1>1. IInv => LinkInv
  BY DEF IInv
<1> QED
  BY <1>1, IInvCorrect, PTL
-----------------------------------------------------------------------------
(* Payments implements Purchase *)

LEMMA DealInit == Init => Deal!Init
BY UnderpaidAssumption DEF Init, Deal!Init, Collected

\* One step takes the money of one transaction at most.
LEMMA CollectedStep ==
  ASSUME IInv, [Next]_vars
  PROVE  \/ Collected' = Collected
         \/ \E x \in Tx : /\ x \notin Collected
                          /\ Collected' = Collected \cup {x}
<1>0. TypeOK
  BY DEF IInv
<1>1. CASE UNCHANGED tx
  BY <1>1 DEF Collected
<1>2. ASSUME NEW x \in Tx, tx[x] # "SUCCEEDED", NEW s,
             tx' = [tx EXCEPT ![x] = s]
      PROVE  \/ Collected' = Collected
             \/ /\ x \notin Collected
                /\ Collected' = Collected \cup {x}
  <2>1. ASSUME NEW y \in Tx PROVE tx'[y] = IF y = x THEN s ELSE tx[y]
    BY <1>0, <1>2 DEF TypeOK, ProviderType
  <2>2. x \notin Collected
    BY <1>2 DEF Collected
  <2>3. CASE s = "SUCCEEDED" /\ x \notin Underpaid
    BY <1>2, <2>1, <2>2, <2>3 DEF Collected
  <2>4. CASE ~(s = "SUCCEEDED" /\ x \notin Underpaid)
    BY <1>2, <2>1, <2>4 DEF Collected
  <2> QED
    BY <2>2, <2>3, <2>4
<1>3. \/ UNCHANGED tx
      \/ \E x \in Tx : /\ tx[x] # "SUCCEEDED"
                       /\ \E s : tx' = [tx EXCEPT ![x] = s]
  <2>1. CASE Outside
    BY <2>1 DEF Outside, WidgetPay, TxMoves, OrderLapses, OrderCloses,
       PaymentLapses, provVars
  <2>2. CASE \E b \in Buyer : Initiating(b)
    BY <2>2 DEF Initiating, Proceeding, BeginInitiate, Replace, CountTerminal,
       CreatePayment, CallProvider, WriteInitiated, DropBuyer, provVars
  <2>3. CASE \E h \in Handler : Reading(h)
    BY <2>3 DEF Reading, Going, PollStart, PageStart, HookStart, ReplayStart,
       Start, Answer, Apply, CheckDate, WriteRow, Unanswered, DropTask, provVars
  <2>4. CASE \E x \in Tx : HookOrphan(x)
    BY <2>4 DEF HookOrphan, provVars
  <2>5. CASE UNCHANGED vars
    BY <2>5 DEF vars
  <2> QED
    BY <2>1, <2>2, <2>3, <2>4, <2>5 DEF Next
<1> QED
  BY <1>1, <1>2, <1>3

LEMMA DealStep == IInv /\ [Next]_vars => [Deal!Next]_(Deal!vars)
<1> SUFFICES ASSUME IInv, [Next]_vars PROVE [Deal!Next]_(Deal!vars)
  OBVIOUS
<1>1. TypeOK /\ LinkInv /\ MoneyInv
  BY DEF IInv
<1>2. CASE UNCHANGED settledBy
  BY <1>2, CollectedStep DEF Deal!Next, Deal!Collect, Deal!vars
<1>3. ASSUME NEW x \in Tx \ Underpaid, order # "PAID", settledBy' = x,
             tx[x] = "SUCCEEDED", UNCHANGED tx
      PROVE  Deal!Next
  <2>1. settledBy = NoTx
    BY <1>1, <1>3 DEF MoneyInv, PaidByMoney
  <2>2. x \in Collected /\ Collected' = Collected
    BY <1>3 DEF Collected
  <2> QED
    BY <1>3, <2>1, <2>2 DEF Deal!Next, Deal!Settle
<1> QED
  BY <1>1, <1>2, <1>3, OrderStep DEF orderVars

\* Every interleaving of requests, notifications, polls and replays is, seen
\* from the money, a purchase: settled at most once, by money already taken.
THEOREM PaymentsImplementPurchase == Spec => DealSpec
BY IInvCorrect, DealInit, DealStep, PTL DEF Spec, DealSpec, Deal!Spec
-----------------------------------------------------------------------------
(* One request at a time *)

OneBuyer == \A b, c \in Buyer : b = c

\* A row whose initiation is not recorded yet.
Unrecorded(p) ==
  \/ status[p] = "NONE"
  \/ \E b \in Buyer : buyer[b].pc \in {"call", "write"} /\ buyer[b].pay = p

\* No page can pay it, and no task can make anything of it.
Fresh(p) ==
  /\ status[p] \in {"NONE", "INITIATED"}
  /\ ref[p] = NoTx /\ p \notin shown /\ p \notin dated
  /\ p \in Widgets => \A x \in Tx : payOf[x] # p
  /\ \A h \in Handler : task[h].pc # "idle" /\ task[h].pay = p
       => /\ p \in Widgets /\ task[h].kind = "page"
          /\ task[h].pc \in {"asked", "answered"}

UnrecordedIsFresh == \A p \in Payment : Unrecorded(p) => Fresh(p)

\* No row goes back to not existing, and a row is created by its initiation.
LEMMA UnrecordedStep ==
  ASSUME TypeOK, [Next]_vars, NEW p \in Payment, Unrecorded(p)'
  PROVE  Unrecorded(p)
<1>1. ASSUME NEW q \in Payment, NEW s, ApplyOther(q, s)
      PROVE  status'[p] = "NONE" => status[p] = "NONE"
  <2>1. Allowed(q, s) => s # "NONE"
    <3>1. "NONE" \notin PaymentStatus
      BY DEF PaymentStatus, InFlight
    <3> QED
      BY <3>1, TransitionType DEF Allowed, TypeOK, RowType
  <2> QED
    BY <1>1, <2>1 DEF ApplyOther, TypeOK, RowType
<1>2. ASSUME NEW q \in Payment, NEW x, NEW r, ApplySuccess(q, x, r)
      PROVE  status'[p] = "NONE" => status[p] = "NONE"
  BY <1>2 DEF ApplySuccess, TypeOK, RowType
<1>3. ASSUME NEW b \in Buyer, Initiating(b) PROVE Unrecorded(p)
  <2>1. buyer[b] \in BuyerState /\ \A c \in Buyer \ {b} : buyer'[c] = buyer[c]
    BY <1>3 DEF Initiating, Proceeding, BeginInitiate, Replace, CountTerminal,
       CreatePayment, CallProvider, WriteInitiated, DropBuyer, BuyerStep,
       TypeOK, LocalType
  <2>2. SUFFICES ASSUME status[p] # "NONE"
                 PROVE  /\ status'[p] # "NONE"
                        /\ buyer'[b].pc \in {"call", "write"} /\ buyer'[b].pay = p
                             => buyer[b].pc \in {"call", "write"} /\ buyer[b].pay = p
    BY <2>1 DEF Unrecorded
  <2>3. \A n : BuyerStep(b, n) => buyer'[b] = n
    BY DEF BuyerStep, TypeOK, LocalType
  <2>4. CASE \E f \in {"widget", "push"} : BeginInitiate(b, f)
    <3>1. UNCHANGED status
      BY <2>4 DEF BeginInitiate
    <3>2. PICK f : BeginInitiate(b, f)
      BY <2>4
    <3>3. \/ BuyerStep(b, [NoBuyer EXCEPT !.pc = "count", !.flow = f])
          \/ \E q : BuyerStep(b, [NoBuyer EXCEPT !.pc = "replace", !.flow = f,
                                                 !.pay = q])
          \/ BuyerStep(b, NoBuyer)
      BY <3>2 DEF BeginInitiate
    <3>4. buyer'[b].pc \notin {"call", "write"}
      <4>1. CASE BuyerStep(b, [NoBuyer EXCEPT !.pc = "count", !.flow = f])
        BY <2>3, <4>1 DEF NoBuyer
      <4>2. ASSUME NEW q, BuyerStep(b, [NoBuyer EXCEPT !.pc = "replace",
                                                       !.flow = f, !.pay = q])
            PROVE  buyer'[b].pc = "replace"
        BY <2>3, <4>2 DEF NoBuyer
      <4>3. CASE BuyerStep(b, NoBuyer)
        BY <2>3, <4>3 DEF NoBuyer
      <4> QED
        BY <3>3, <4>1, <4>2, <4>3
    <3> QED
      BY <2>2, <3>1, <3>4
  <2>5. CASE Replace(b)
    <3>1. status'[p] # "NONE"
      BY <1>1, <2>2, <2>5 DEF Replace, TypeOK, LocalInv
    <3>2. buyer'[b].pc \notin {"call", "write"}
      BY <2>1, <2>3, <2>5 DEF Replace, BuyerState
    <3> QED
      BY <3>1, <3>2
  <2>6. CASE CountTerminal(b)
    <3>1. UNCHANGED status
      BY <2>6 DEF CountTerminal, rowVars
    <3>2. buyer'[b].pc \notin {"call", "write"}
      BY <2>1, <2>3, <2>6 DEF CountTerminal, BuyerState
    <3> QED
      BY <2>2, <3>1, <3>2
  <2>7. CASE CreatePayment(b)
    <3>1. CASE BuyerStep(b, NoBuyer) /\ UNCHANGED status
      BY <2>2, <2>3, <3>1 DEF NoBuyer
    <3>2. ASSUME NEW q \in Payment, status[q] = "NONE",
                 status' = [status EXCEPT ![q] = "INITIATED"],
                 BuyerStep(b, [buyer[b] EXCEPT !.pc = "call", !.pay = q])
          PROVE  status'[p] # "NONE" /\ buyer'[b].pay # p
      <4>1. p # q /\ status'[p] = status[p]
        BY <2>2, <3>2 DEF TypeOK, RowType
      <4>2. buyer'[b].pay = q
        BY <2>1, <2>3, <3>2 DEF BuyerState
      <4> QED
        BY <2>2, <4>1, <4>2
    <3> QED
      BY <2>7, <3>1, <3>2 DEF CreatePayment
  <2>8. CASE CallProvider(b)
    <3>1. UNCHANGED status
      BY <2>8 DEF CallProvider, rowVars
    <3>2. buyer'[b].pay = buyer[b].pay /\ buyer[b].pc = "call"
      <4>1. PICK s, x : BuyerStep(b, [buyer[b] EXCEPT !.pc = "write",
                                          !.answer = s, !.ref = x])
        BY <2>8 DEF CallProvider
      <4>2. buyer'[b] = [buyer[b] EXCEPT !.pc = "write", !.answer = s, !.ref = x]
        BY <2>3, <4>1
      <4> QED
        BY <2>1, <2>8, <4>2 DEF CallProvider, BuyerState
    <3> QED
      BY <2>2, <3>1, <3>2
  <2>9. CASE WriteInitiated(b) \/ DropBuyer(b)
    <3>1. buyer'[b].pc \notin {"call", "write"}
      BY <2>3, <2>9 DEF WriteInitiated, DropBuyer, NoBuyer
    <3>2. status'[p] # "NONE"
      BY <2>2, <2>9 DEF WriteInitiated, DropBuyer, rowVars, TypeOK, RowType,
                        LocalInv
    <3> QED
      BY <3>1, <3>2
  <2> QED
    BY <1>3, <2>4, <2>5, <2>6, <2>7, <2>8, <2>9 DEF Initiating, Proceeding
<1>4. CASE UNCHANGED <<status, buyer>>
  BY <1>4 DEF Unrecorded
<1>5. ASSUME NEW h \in Handler, Reading(h) PROVE Unrecorded(p)
  <2>1. UNCHANGED buyer
    BY <1>5 DEF Reading, Going, PollStart, PageStart, HookStart, ReplayStart,
       Start, Answer, Apply, CheckDate, WriteRow, Unanswered, DropTask
  <2>2. SUFFICES status'[p] = "NONE" => status[p] = "NONE"
    BY <2>1 DEF Unrecorded
  <2>3. CASE Apply(h)
    <3> DEFINE k == task[h]
    <3>1. k.pay \in Payment
      BY <2>3 DEF Apply, TypeOK, LocalInv
    <3>2. PICK v : ApplyWidget(k, v) \/ ApplyPush(k, v)
      BY <2>3 DEF Apply
    <3> HIDE DEF k
    <3>3. \/ UNCHANGED status
          \/ \E x, r : ApplySuccess(k.pay, x, r)
          \/ \E s : ApplyOther(k.pay, s)
      BY <3>2 DEF ApplyWidget, ApplyPush, BindReference, Untouched
    <3> QED
      BY <1>1, <1>2, <3>1, <3>3
  <2>4. CASE CheckDate(h)
    <3>1. task[h].pay \in Payment
      BY <2>4 DEF CheckDate, TypeOK, LocalInv
    <3>2. UNCHANGED status \/ ApplyOther(task[h].pay, "EXPIRED")
      BY <2>4 DEF CheckDate, ExpireIfDue
    <3> QED
      BY <1>1, <3>1, <3>2
  <2>5. CASE ~Apply(h) /\ ~CheckDate(h)
    BY <1>5, <2>5 DEF Reading, Going, PollStart, PageStart, HookStart,
       ReplayStart, Start, Answer, WriteRow, Unanswered, BindReference,
       Untouched, DropTask, rowVars
  <2> QED
    BY <2>3, <2>4, <2>5
<1>6. CASE Outside \/ (\E x \in Tx : HookOrphan(x)) \/ UNCHANGED vars
  BY <1>6, <1>4 DEF Outside, TxMoves, WidgetPay, OrderLapses, OrderCloses,
     PaymentLapses, HookOrphan, rowVars, vars
<1> QED
  BY <1>3, <1>5, <1>6 DEF Next


\* What Apply may do: something else than a success, money that comes after
\* the order was settled, or the settlement.
Excess(k) ==
  /\ flagged' = flagged \cup {k.x} /\ UNCHANGED <<status, orderVars>>
  /\ \/ status[k.pay] # "SUCCEEDED" /\ SettledElsewhere(k.pay)
     \/ k.pay \in Widgets /\ k.was = "SUCCEEDED" /\ k.ref \notin {NoTx, k.x}

Settles(k) ==
  /\ status[k.pay] # "SUCCEEDED" /\ ~SettledElsewhere(k.pay)
  /\ status'[k.pay] = "SUCCEEDED" /\ UNCHANGED flagged
  /\ order' = "PAID" /\ settledBy' = k.x
  /\ k.pay \in Widgets => ref'[k.pay] = k.x

\* A row that is a success is left so, and its reference at most forgotten.
SuccessKept(q) ==
  status[q] = "SUCCEEDED" => status'[q] = "SUCCEEDED" /\ ref'[q] \in {ref[q], NoTx}

LEMMA NothingAfterSuccess ==
  ASSUME NEW p, status[p] = "SUCCEEDED", NEW s
  PROVE  ~Allowed(p, s)
<1>1. Transitions["SUCCEEDED"] = {}
  BY DEF Transitions, PaymentStatus, InFlight
<1> QED
  BY <1>1 DEF Allowed

LEMMA OtherKeeps ==
  ASSUME TypeOK, NEW p \in Payment, NEW s, ApplyOther(p, s)
  PROVE  \A q \in Payment : SuccessKept(q)
BY NothingAfterSuccess DEF ApplyOther, SuccessKept, TypeOK, RowType

LEMMA SuccessCases ==
  ASSUME TypeOK, NEW p \in Payment, NEW x \in Tx, NEW r, ApplySuccess(p, x, r)
  PROVE  /\ \A q \in Payment : SuccessKept(q)
         /\ \/ UNCHANGED <<order, settledBy, flagged>>
            \/ /\ flagged' = flagged \cup {x} /\ UNCHANGED <<status, orderVars>>
               /\ status[p] # "SUCCEEDED" /\ SettledElsewhere(p)
            \/ /\ status[p] # "SUCCEEDED" /\ ~SettledElsewhere(p)
               /\ status'[p] = "SUCCEEDED" /\ UNCHANGED flagged
               /\ order' = "PAID" /\ settledBy' = x /\ ref'[p] = r
<1>1. CASE ~Allowed(p, "SUCCEEDED")
  BY <1>1 DEF ApplySuccess, SuccessKept, orderVars
<1>2. CASE Allowed(p, "SUCCEEDED")
  <2>1. status[p] # "SUCCEEDED"
    BY <1>2, NothingAfterSuccess
  <2>2. CASE SettledElsewhere(p)
    BY <1>2, <2>1, <2>2 DEF ApplySuccess, SuccessKept, orderVars
  <2>3. CASE ~SettledElsewhere(p)
    <3>1. /\ status' = [status EXCEPT ![p] = "SUCCEEDED"]
          /\ ref' = [ref EXCEPT ![p] = r] /\ MarkPaid(x) /\ UNCHANGED flagged
      BY <1>2, <2>3 DEF ApplySuccess
    <3>2. \A q \in Payment : SuccessKept(q)
      BY <2>1, <3>1 DEF SuccessKept, TypeOK, RowType
    <3>3. status'[p] = "SUCCEEDED" /\ ref'[p] = r
      BY <3>1 DEF TypeOK, RowType
    <3> QED
      BY <2>1, <2>3, <3>1, <3>2, <3>3 DEF MarkPaid, orderVars
  <2> QED
    BY <2>2, <2>3
<1> QED
  BY <1>1, <1>2

LEMMA ApplyCases ==
  ASSUME TypeOK, LinkInv, NEW h \in Handler, Apply(h)
  PROVE  /\ \A q \in Payment : SuccessKept(q)
         /\ \/ UNCHANGED <<order, settledBy, flagged>>
            \/ /\ task[h].pay \in Payment /\ task[h].x \in Tx
               /\ task[h].pc = "answered" /\ payOf[task[h].x] = task[h].pay
               /\ Excess(task[h]) \/ Settles(task[h])
<1> DEFINE k == task[h]
           Kept == \A q \in Payment : SuccessKept(q)
           Quiet == UNCHANGED <<order, settledBy, flagged>>
           Says == payOf[k.x] = k.pay /\ (Excess(k) \/ Settles(k))
<1>1. k.pay \in Payment /\ k.x \in Tx /\ k.pc = "answered"
  BY DEF Apply, TypeOK, LocalInv
<1>2. PICK v : IF Flow[k.pay] = "widget" THEN ApplyWidget(k, v)
               ELSE ApplyPush(k, v)
  BY DEF Apply
<1>3. k.pay \notin Widgets => payOf[k.x] = k.pay
  BY <1>1 DEF LinkInv, ReadingLinked
<1> SUFFICES Kept /\ (Quiet \/ Says)
  BY <1>1
<1> HIDE DEF k
<1>4. CASE Untouched
  BY <1>4 DEF Untouched, SuccessKept, orderVars
<1>5. CASE k.pay \in Widgets
  <2>1. PICK w : ApplyWidget(k, w)
    BY <1>1, <1>2, <1>5 DEF Flow
  <2>2. CASE Misbound(k.pay, k.x, k.answer)
    BY <1>4, <2>1, <2>2 DEF ApplyWidget
  <2>3. CASE ~Misbound(k.pay, k.x, k.answer)
    <3>1. payOf[k.x] = k.pay
      BY <2>3 DEF Misbound
    <3>2. CASE k.answer = "SUCCEEDED" /\ ExcessSeen(k)
      <4>1. flagged' = flagged \cup {k.x} /\ UNCHANGED <<status, ref, orderVars>>
        BY <2>1, <2>3, <3>2 DEF ApplyWidget
      <4> QED
        BY <1>5, <3>1, <3>2, <4>1 DEF ExcessSeen, Excess, SuccessKept
    <3>3. CASE ApplySuccess(k.pay, k.x, k.x)
      BY <1>1, <3>1, <3>3, SuccessCases DEF Excess, Settles
    <3>4. CASE UNCHANGED <<status, orderVars, flagged>>
                 /\ ref' = [ref EXCEPT ![k.pay] = NoTx]
      BY <1>1, <3>4 DEF SuccessKept, orderVars, TypeOK, RowType
    <3>5. CASE BindReference(k.pay, k.x)
      <4>1. Pending(k.pay) => status[k.pay] # "SUCCEEDED"
        BY DEF Pending, InFlight
      <4> QED
        BY <1>1, <3>5, <4>1 DEF BindReference, SuccessKept, orderVars, TypeOK,
                                RowType
    <3>6. \/ k.answer = "SUCCEEDED" /\ ExcessSeen(k)
          \/ ApplySuccess(k.pay, k.x, k.x)
          \/ UNCHANGED <<status, orderVars, flagged>>
               /\ ref' = [ref EXCEPT ![k.pay] = NoTx]
          \/ BindReference(k.pay, k.x) \/ Untouched
      BY <2>1, <2>3 DEF ApplyWidget, Untouched
    <3> QED
      BY <1>4, <3>2, <3>3, <3>4, <3>5, <3>6
  <2> QED
    BY <2>2, <2>3
<1>6. CASE k.pay \notin Widgets
  <2>1. ApplyPush(k, v)
    BY <1>1, <1>2, <1>6 DEF Flow
  <2>2. CASE ApplySuccess(k.pay, k.x, ref[k.pay])
    BY <1>1, <1>3, <1>6, <2>2, SuccessCases DEF Excess, Settles
  <2>3. CASE \E s : ApplyOther(k.pay, s)
    BY <1>1, <2>3, OtherKeeps DEF ApplyOther, orderVars
  <2>4. \/ ApplySuccess(k.pay, k.x, ref[k.pay])
        \/ (\E s : ApplyOther(k.pay, s)) \/ Untouched
    BY <2>1 DEF ApplyPush
  <2> QED
    BY <1>4, <2>2, <2>3, <2>4
<1> QED
  BY <1>5, <1>6

\* A request leaves fresh the rows that are not recorded after it.
LEMMA FreshRequest ==
  ASSUME OneBuyer, TypeOK, UnrecordedIsFresh, NEW b \in Buyer, Initiating(b),
         NEW p \in Payment, Unrecorded(p), Unrecorded(p)'
  PROVE  Fresh(p)'
<1>1. Fresh(p)
  BY DEF UnrecordedIsFresh
<1>2. \A c \in Buyer : c = b
  BY DEF OneBuyer
<1>3. /\ buyer[b] \in BuyerState /\ \A n : BuyerStep(b, n) => buyer'[b] = n
      /\ UNCHANGED task
  BY DEF Initiating, Proceeding, BeginInitiate, Replace, CountTerminal,
     CreatePayment, CallProvider, WriteInitiated, DropBuyer, BuyerStep,
     TypeOK, LocalType
<1>4. buyer'[b].pc \notin {"call", "write"} => status'[p] = "NONE"
  BY <1>2 DEF Unrecorded
<1>5. buyer[b].pc \notin {"call", "write"} => status[p] = "NONE"
  BY <1>2 DEF Unrecorded
<1>6. SUFFICES /\ status'[p] \in {"NONE", "INITIATED"}
               /\ ref'[p] = NoTx /\ p \notin shown' /\ p \notin dated'
               /\ p \in Widgets => \A x \in Tx : payOf'[x] # p
  BY <1>1, <1>3 DEF Fresh
<1>7. p \in Payment /\ ~(status[p] = "NONE" /\ Pending(p))
  BY DEF Pending, InFlight
<1>8. CASE \E f \in {"widget", "push"} : BeginInitiate(b, f)
  <2>1. PICK f \in {"widget", "push"} : BeginInitiate(b, f)
    BY <1>8
  <2>2. UNCHANGED <<status, ref, dated, payOf>> /\ buyer[b].pc = "idle"
    BY <2>1 DEF BeginInitiate, provVars
  <2>3. \A q \in shown' : q \in shown \/ Pending(q)
    BY <2>1 DEF BeginInitiate
  <2> QED
    BY <1>1, <1>5, <1>7, <2>2, <2>3 DEF Fresh
<1>9. CASE Replace(b)
  <2>1. buyer'[b] = [buyer[b] EXCEPT !.pc = "count", !.pay = NoPayment]
    BY <1>3, <1>9 DEF Replace
  <2>2. buyer'[b].pc = "count"
    BY <1>3, <2>1 DEF BuyerState
  <2> QED
    BY <1>1, <1>4, <1>9, <2>2 DEF Replace, ApplyOther, madeVars, provVars, Fresh
<1>10. CASE CountTerminal(b)
  BY <1>1, <1>10 DEF CountTerminal, rowVars, provVars, Fresh
<1>11. CASE CreatePayment(b)
  <2>1. UNCHANGED <<ref, dated, payOf>> /\ status[p] = "NONE"
    BY <1>5, <1>11 DEF CreatePayment, provVars
  <2>2. \A q \in shown' : q \in shown \/ Pending(q)
    BY <1>11 DEF CreatePayment
  <2>3. \/ UNCHANGED status
        \/ \E q \in Payment : status' = [status EXCEPT ![q] = "INITIATED"]
    BY <1>11 DEF CreatePayment
  <2>4. status'[p] \in {"NONE", "INITIATED"}
    BY <2>1, <2>3 DEF TypeOK, RowType
  <2> QED
    BY <1>1, <1>7, <2>1, <2>2, <2>4 DEF Fresh
<1>12. CASE CallProvider(b)
  <2>1. UNCHANGED <<status, ref, shown, dated>>
    BY <1>12 DEF CallProvider, rowVars
  <2>2. ASSUME p \in Widgets, NEW x \in Tx PROVE payOf'[x] # p
    <3>1. \/ UNCHANGED payOf
          \/ /\ Flow[buyer[b].pay] = "push"
             /\ \E y \in Tx : payOf' = [payOf EXCEPT ![y] = buyer[b].pay]
      BY <1>12 DEF CallProvider, provVars
    <3>2. Flow[p] = "widget"
      BY <2>2 DEF Flow
    <3> QED
      BY <1>1, <2>2, <3>1, <3>2 DEF Fresh, TypeOK, ProviderType
  <2> QED
    BY <1>1, <2>1, <2>2 DEF Fresh
<1>13. CASE WriteInitiated(b)
  <2>1. buyer'[b].pc = "idle"
    BY <1>3, <1>13 DEF WriteInitiated, NoBuyer
  <2>2. status'[p] = "NONE"
    BY <1>4, <2>1
  <2>3. /\ status' = [status EXCEPT ![buyer[b].pay] = buyer[b].answer]
        /\ ref' = [ref EXCEPT ![buyer[b].pay] = buyer[b].ref]
        /\ dated' = dated \cup {buyer[b].pay}
        /\ shown' = shown \cup {buyer[b].pay} /\ UNCHANGED payOf
        /\ buyer[b].pay \in Payment /\ buyer[b].answer \in {"PENDING", "FAILED"}
    BY <1>13 DEF WriteInitiated, provVars, TypeOK, LocalInv
  <2>4. buyer[b].pay # p
    BY <2>2, <2>3 DEF TypeOK, RowType
  <2> QED
    BY <1>1, <2>2, <2>3, <2>4 DEF Fresh, TypeOK, RowType
<1>14. CASE DropBuyer(b)
  BY <1>1, <1>14 DEF DropBuyer, rowVars, provVars, Fresh
<1> QED
  BY <1>8, <1>9, <1>10, <1>11, <1>12, <1>13, <1>14 DEF Initiating, Proceeding

\* So does a task: it can only read such a row for its page.
LEMMA FreshTask ==
  ASSUME TypeOK, NEW h \in Handler, Reading(h), NEW p \in Payment, Fresh(p)
  PROVE  Fresh(p)'
<1> DEFINE k == task[h]
           Quiet(t) == t.pc # "idle" /\ t.pay = p
                         => /\ p \in Widgets /\ t.kind = "page"
                            /\ t.pc \in {"asked", "answered"}
<1>1. k \in TaskState /\ \A n : task' = [task EXCEPT ![h] = n] => task'[h] = n
  BY DEF TypeOK, LocalType
<1>2. \A g \in Handler \ {h} : task'[g] = task[g]
  BY DEF Reading, Going, PollStart, PageStart, HookStart, ReplayStart, Start,
     Answer, Apply, CheckDate, WriteRow, Unanswered, DropTask, TypeOK, LocalType
<1>3. UNCHANGED <<shown, dated, payOf>>
  BY DEF Reading, Going, PollStart, PageStart, HookStart, ReplayStart, Start,
     Answer, Apply, CheckDate, WriteRow, Unanswered, DropTask, rowVars,
     madeVars, provVars
<1>4. Quiet(k)
  BY DEF Fresh
<1>5. SUFFICES UNCHANGED <<status[p], ref[p]>> /\ Quiet(task'[h])
  BY <1>2, <1>3 DEF Fresh
<1>6. Quiet(NoTask)
  BY DEF NoTask
<1>7. ASSUME NEW kind, NEW q \in Payment, NEW x, Start(h, kind, q, x),
             q = p => p \in Widgets /\ kind = "page" /\ x # NoTx
      PROVE  UNCHANGED <<status[p], ref[p]>> /\ Quiet(task'[h])
  BY <1>1, <1>7 DEF Start, rowVars
<1>8. \A x \in Tx : p \notin Notified(x)
  BY NoneAssumption DEF Notified, Flow, Fresh
<1> HIDE DEF k
<1>9. ASSUME NEW q \in Payment, PollStart(h, q)
      PROVE  UNCHANGED <<status[p], ref[p]>> /\ Quiet(task'[h])
  <2>1. q # p /\ Start(h, "poll", q, ref[q])
    BY <1>9 DEF PollStart, Fresh, TypeOK, RowType
  <2> QED
    BY <1>7, <2>1
<1>10. ASSUME NEW q \in Payment, NEW x \in Tx, PageStart(h, q, x)
       PROVE  UNCHANGED <<status[p], ref[p]>> /\ Quiet(task'[h])
  <2>1. q \in Widgets /\ x # NoTx /\ Start(h, "page", q, x)
    BY <1>10, NoneAssumption DEF PageStart, Flow
  <2> QED
    BY <1>7, <2>1
<1>11. ASSUME NEW x \in Tx, HookStart(h, x)
       PROVE  UNCHANGED <<status[p], ref[p]>> /\ Quiet(task'[h])
  <2>1. PICK q \in Notified(x) : Start(h, "hook", q, x)
    BY <1>11 DEF HookStart
  <2>2. q \in Payment /\ q # p
    BY <1>8 DEF Notified
  <2> QED
    BY <1>7, <2>1, <2>2
<1>12. ASSUME NEW x \in Tx, ReplayStart(h, x)
       PROVE  UNCHANGED <<status[p], ref[p]>> /\ Quiet(task'[h])
  <2>1. PICK q \in Notified(x) : \/ Start(h, "replay", q, x)
                                 \/ UNCHANGED <<rowVars, task>>
    BY <1>12 DEF ReplayStart
  <2>2. q \in Payment /\ q # p
    BY <1>8 DEF Notified
  <2>3. CASE UNCHANGED <<rowVars, task>>
    BY <1>4, <2>3 DEF rowVars, k
  <2> QED
    BY <1>7, <2>1, <2>2, <2>3
<1>13. ASSUME Answer(h)
       PROVE  UNCHANGED <<status[p], ref[p]>> /\ Quiet(task'[h])
  <2>1. PICK a : task'[h] = [k EXCEPT !.pc = "answered", !.answer = a]
    BY <1>1, <1>13 DEF Answer, k
  <2>2. /\ task'[h].pc = "answered" /\ task'[h].pay = k.pay
        /\ task'[h].kind = k.kind
    BY <1>1, <2>1 DEF TaskState
  <2> QED
    BY <1>4, <1>13, <2>2 DEF Answer, k, rowVars
<1>14. ASSUME Unanswered(h)
       PROVE  UNCHANGED <<status[p], ref[p]>> /\ Quiet(task'[h])
  <2>1. CASE k.pay = p
    <3>1. k.kind = "page" /\ k.pc = "asked"
      BY <1>4, <1>14, <2>1 DEF Unanswered, k
    <3>2. task'[h] = NoTask /\ UNCHANGED <<status, ref>>
      BY <1>1, <1>14, <3>1 DEF Unanswered, Untouched, k
    <3> QED
      BY <1>6, <3>2
  <2>2. CASE k.pay # p
    <3>1. UNCHANGED <<status[p], ref[p]>>
      BY <1>14, <2>2 DEF Unanswered, BindReference, Untouched, k, TypeOK, RowType
    <3>2. \/ task'[h] = NoTask
          \/ \E pc \in {"BOUND", "PROCESSED", "date"} :
               task'[h] = [k EXCEPT !.pc = pc]
      BY <1>1, <1>14 DEF Unanswered, k
    <3>3. \A pc : [k EXCEPT !.pc = pc].pay = k.pay
      BY <1>1 DEF TaskState
    <3> QED
      BY <1>6, <2>2, <3>1, <3>2, <3>3
  <2> QED
    BY <2>1, <2>2
<1>15. ASSUME Apply(h)
       PROVE  UNCHANGED <<status[p], ref[p]>> /\ Quiet(task'[h])
  <2>0. k.pay \in Payment /\ k.pc = "answered"
    BY <1>15 DEF Apply, TypeOK, LocalInv, k
  <2>1. PICK v \in {"applied", "ignored", "rejected"} :
          /\ IF Flow[k.pay] = "widget" THEN ApplyWidget(k, v)
             ELSE ApplyPush(k, v)
          /\ task'[h] = NextOf(k, v)
    BY <1>1, <1>15 DEF Apply, k
  <2>2. CASE k.pay = p
    <3>1. p \in Widgets /\ k.kind = "page"
      BY <1>4, <2>0, <2>2
    <3>2. Misbound(k.pay, k.x, k.answer)
      <4>1. k.x \in Tx
        BY <1>15 DEF Apply, TypeOK, LocalInv, k
      <4> QED
        BY <2>2, <3>1, <4>1 DEF Misbound, Fresh
    <3>3. Untouched
      BY <2>0, <2>1, <2>2, <3>1, <3>2 DEF Flow, ApplyWidget
    <3>4. NextOf(k, v) = NoTask
      BY <3>1 DEF NextOf
    <3> QED
      BY <1>6, <2>1, <3>3, <3>4 DEF Untouched
  <2>3. CASE k.pay # p
    <3>1. UNCHANGED <<status[p], ref[p]>>
      BY <2>0, <2>1, <2>3 DEF ApplyWidget, ApplyPush, ApplySuccess, ApplyOther,
         BindReference, Untouched, TypeOK, RowType
    <3>2. \/ NextOf(k, v) = NoTask
          \/ \E pc \in {"PROCESSED", "IGNORED", "FAILED", "date"} :
               NextOf(k, v) = [k EXCEPT !.pc = pc]
      BY DEF NextOf
    <3>3. \A pc : [k EXCEPT !.pc = pc].pay = k.pay
      BY <1>1 DEF TaskState
    <3> QED
      BY <1>6, <2>1, <2>3, <3>1, <3>2, <3>3
  <2> QED
    BY <2>2, <2>3
<1>16. ASSUME CheckDate(h) \/ WriteRow(h) \/ DropTask(h)
       PROVE  UNCHANGED <<status[p], ref[p]>> /\ Quiet(task'[h])
  <2>1. \/ task'[h] = NoTask
        \/ CheckDate(h) /\ task'[h] = [k EXCEPT !.pc = "PROCESSED"]
    BY <1>1, <1>16 DEF CheckDate, WriteRow, DropTask, k
  <2>2. CASE CheckDate(h)
    <3>1. k.pay # p /\ k.pay \in Payment
      BY <1>4, <2>2 DEF CheckDate, k, TypeOK, LocalInv
    <3>2. UNCHANGED <<status[p], ref[p]>>
      BY <2>2, <3>1 DEF CheckDate, ExpireIfDue, ApplyOther, k, TypeOK, RowType
    <3>3. [k EXCEPT !.pc = "PROCESSED"].pay = k.pay
      BY <1>1 DEF TaskState
    <3> QED
      BY <1>6, <2>1, <3>1, <3>2, <3>3
  <2>3. CASE ~CheckDate(h)
    BY <1>6, <1>16, <2>1, <2>3 DEF WriteRow, DropTask, rowVars
  <2> QED
    BY <2>2, <2>3
<1> QED
  BY <1>9, <1>10, <1>11, <1>12, <1>13, <1>14, <1>15, <1>16 DEF Reading, Going

LEMMA FreshStep ==
  ASSUME OneBuyer, TypeOK, UnrecordedIsFresh, [Next]_vars
  PROVE  UnrecordedIsFresh'
<1> SUFFICES ASSUME NEW p \in Payment, Unrecorded(p)' PROVE Fresh(p)'
  BY DEF UnrecordedIsFresh
<1>1. Unrecorded(p) /\ Fresh(p)
  BY UnrecordedStep DEF UnrecordedIsFresh
<1>2. CASE \E x \in Tx, q \in Payment : WidgetPay(x, q)
  <2>1. PICK x \in Tx, q \in Payment : WidgetPay(x, q)
    BY <1>2
  <2>2. q # p /\ payOf' = [payOf EXCEPT ![x] = q]
    BY <1>1, <2>1 DEF WidgetPay, Fresh
  <2>3. \A y \in Tx : payOf'[y] = p => payOf[y] = p
    BY <2>2 DEF TypeOK, ProviderType
  <2> QED
    BY <1>1, <2>1, <2>3 DEF WidgetPay, rowVars, Fresh
<1>3. CASE \/ \E x \in Tx : HookOrphan(x) \/ TxMoves(x)
           \/ OrderLapses \/ OrderCloses \/ (\E q \in Payment : PaymentLapses(q))
           \/ UNCHANGED vars
  BY <1>1, <1>3 DEF HookOrphan, TxMoves, OrderLapses, OrderCloses,
     PaymentLapses, rowVars, provVars, vars, Fresh
<1> QED
  BY <1>1, <1>2, <1>3, FreshRequest, FreshTask DEF Next, Outside

-----------------------------------------------------------------------------
(* Money in excess *)

\* The row that was settled stays a success, and carries no other transaction.
SettledFixed ==
  settledBy # NoTx
    => /\ status[payOf[settledBy]] = "SUCCEEDED"
       /\ payOf[settledBy] \in Widgets
            => ref[payOf[settledBy]] \in {NoTx, settledBy}

\* So does what a reading remembers of it.
WasSettled ==
  \A h \in Handler :
    task[h].pc \in {"asked", "answered"} /\ task[h].was = "SUCCEEDED"
      => /\ status[task[h].pay] = "SUCCEEDED"
         /\ settledBy # NoTx /\ payOf[settledBy] = task[h].pay
              /\ task[h].pay \in Widgets
            => task[h].ref \in {NoTx, settledBy}

\* Money is only in excess of a success, or of an order already paid.
FlagsLate ==
  flagged # {} => order = "PAID" \/ \E q \in Payment : status[q] = "SUCCEEDED"

FlagInv ==
  /\ UnrecordedIsFresh /\ SettledFixed /\ WasSettled /\ FlagsLate /\ NoFalseFlag

\* A success is kept by every step; the money settles or is in excess by Apply.
LEMMA SettleCases ==
  ASSUME IInv, UnrecordedIsFresh, [Next]_vars
  PROVE  /\ \A q \in Payment : SuccessKept(q)
         /\ \/ /\ order = "PAID" => order' = "PAID"
               /\ UNCHANGED <<settledBy, flagged>>
            \/ \E h \in Handler :
                 /\ task[h].pay \in Payment /\ task[h].x \in Tx
                 /\ task[h].pc = "answered" /\ payOf[task[h].x] = task[h].pay
                 /\ Excess(task[h]) \/ Settles(task[h])
<1> DEFINE Kept == \A q \in Payment : SuccessKept(q)
           Quiet == (order = "PAID" => order' = "PAID")
                    /\ UNCHANGED <<settledBy, flagged>>
           Says == \E h \in Handler :
                     /\ task[h].pay \in Payment /\ task[h].x \in Tx
                     /\ task[h].pc = "answered"
                     /\ payOf[task[h].x] = task[h].pay
                     /\ Excess(task[h]) \/ Settles(task[h])
<1> SUFFICES Kept /\ (Quiet \/ Says)
  OBVIOUS
<1>1. TypeOK /\ LinkInv
  BY DEF IInv
<1>2. UNCHANGED <<status, ref>> => Kept
  BY DEF SuccessKept
<1>3. ASSUME NEW b \in Buyer, Initiating(b) PROVE Kept /\ Quiet
  <2>1. Quiet
    BY <1>3 DEF Initiating, Proceeding, BeginInitiate, Replace, CountTerminal,
       CreatePayment, CallProvider, WriteInitiated, DropBuyer, BuyerStep,
       ApplyOther, orderVars
  <2> SUFFICES Kept
    BY <2>1
  <2>2. CASE Replace(b)
    BY <1>1, <2>2, OtherKeeps DEF Replace, TypeOK, LocalInv
  <2>3. CASE CreatePayment(b)
    BY <1>1, <2>3 DEF CreatePayment, SuccessKept, TypeOK, RowType
  <2>4. CASE WriteInitiated(b)
    <3>1. buyer[b].pay \in Payment /\ buyer[b].pc = "write"
      BY <1>1, <2>4 DEF WriteInitiated, TypeOK, LocalInv
    <3>2. status[buyer[b].pay] # "SUCCEEDED"
      BY <3>1 DEF UnrecordedIsFresh, Unrecorded, Fresh
    <3> QED
      BY <1>1, <2>4, <3>1, <3>2 DEF WriteInitiated, SuccessKept, TypeOK, RowType
  <2>5. CASE ~Replace(b) /\ ~CreatePayment(b) /\ ~WriteInitiated(b)
    BY <1>2, <1>3, <2>5 DEF Initiating, Proceeding, BeginInitiate,
       CountTerminal, CallProvider, DropBuyer, rowVars
  <2> QED
    BY <2>2, <2>3, <2>4, <2>5
<1>4. ASSUME NEW h \in Handler, Reading(h) PROVE Kept /\ (Quiet \/ Says)
  <2>1. CASE Apply(h)
    BY <1>1, <2>1, ApplyCases
  <2>2. CASE ~Apply(h)
    <3>1. Quiet
      BY <1>4, <2>2 DEF Reading, Going, PollStart, PageStart, HookStart,
         ReplayStart, Start, Answer, CheckDate, ExpireIfDue, ApplyOther,
         WriteRow, Unanswered, BindReference, Untouched, DropTask, orderVars,
         noteVars
    <3> SUFFICES Kept
      BY <3>1
    <3>2. CASE CheckDate(h)
      <4>1. task[h].pay \in Payment
        BY <1>1, <3>2 DEF CheckDate, TypeOK, LocalInv
      <4>2. UNCHANGED <<status, ref>> \/ ApplyOther(task[h].pay, "EXPIRED")
        BY <3>2 DEF CheckDate, ExpireIfDue
      <4> QED
        BY <1>1, <1>2, <4>1, <4>2, OtherKeeps
    <3>3. CASE Unanswered(h)
      <4>1. task[h].pay \in Payment
        BY <1>1, <3>3 DEF Unanswered, TypeOK, LocalInv
      <4>2. BindReference(task[h].pay, task[h].x) \/ Untouched
        BY <3>3 DEF Unanswered
      <4>3. Pending(task[h].pay) => status[task[h].pay] # "SUCCEEDED"
        BY DEF Pending, InFlight
      <4>4. CASE BindReference(task[h].pay, task[h].x)
        BY <1>1, <4>1, <4>3, <4>4 DEF BindReference, SuccessKept, TypeOK, RowType
      <4>5. CASE Untouched
        BY <1>2, <4>5 DEF Untouched
      <4> QED
        BY <4>2, <4>4, <4>5
    <3>4. CASE ~CheckDate(h) /\ ~Unanswered(h)
      <4>1. UNCHANGED <<status, ref>>
        BY <1>4, <2>2, <3>4 DEF Reading, Going, PollStart, PageStart,
           HookStart, ReplayStart, Start, Answer, WriteRow, DropTask, rowVars
      <4> QED
        BY <1>2, <4>1
    <3> QED
      BY <3>2, <3>3, <3>4
  <2> QED
    BY <2>1, <2>2
<1>5. CASE Outside \/ (\E x \in Tx : HookOrphan(x)) \/ UNCHANGED vars
  <2>1. UNCHANGED <<status, ref>> /\ Quiet
    BY <1>5 DEF Outside, TxMoves, WidgetPay, OrderLapses, OrderCloses,
       PaymentLapses, HookOrphan, rowVars, orderVars, noteVars, vars
  <2> QED
    BY <1>2, <2>1
<1> QED
  BY <1>3, <1>4, <1>5 DEF Next

LEMMA SettledStep ==
  ASSUME IInv, UnrecordedIsFresh, SettledFixed, [Next]_vars
  PROVE  SettledFixed'
<1>1. TypeOK /\ LinkInv /\ MoneyInv
  BY DEF IInv
<1>2. /\ \A x \in Tx : payOf[x] # NoPayment => payOf'[x] = payOf[x]
  BY <1>1, TxStep DEF LinkInv, MoneyInv
<1>3. settledBy # NoTx
        => settledBy \in Tx /\ payOf[settledBy] # NoPayment
           /\ payOf[settledBy] \in Payment
  BY <1>1 DEF LinkInv, TxLinked, MoneyInv, PaidByMoney, TypeOK, ProviderType
<1>4. CASE settledBy' = settledBy
  BY <1>2, <1>3, <1>4, SettleCases DEF SettledFixed, SuccessKept
<1>5. ASSUME NEW h \in Handler, Settles(task[h]), task[h].pay \in Payment,
             task[h].x \in Tx, payOf[task[h].x] = task[h].pay
      PROVE  SettledFixed'
  BY <1>2, <1>5, NoneAssumption DEF Settles, SettledFixed
<1>6. \/ settledBy' = settledBy
      \/ \E h \in Handler : /\ task[h].pay \in Payment /\ task[h].x \in Tx
                            /\ payOf[task[h].x] = task[h].pay /\ Settles(task[h])
  BY SettleCases DEF Excess, orderVars
<1> QED
  BY <1>4, <1>5, <1>6

LEMMA WasStep ==
  ASSUME IInv, UnrecordedIsFresh, SettledFixed, WasSettled, [Next]_vars
  PROVE  WasSettled'
<1>1. TypeOK /\ TypeOK' /\ LinkInv /\ MoneyInv
  BY TypeStep DEF IInv
<1> SUFFICES ASSUME NEW c \in Handler, task'[c].pc \in {"asked", "answered"},
                    task'[c].was = "SUCCEEDED"
             PROVE  /\ status'[task'[c].pay] = "SUCCEEDED"
                    /\ settledBy' # NoTx /\ payOf'[settledBy'] = task'[c].pay
                         /\ task'[c].pay \in Widgets
                       => task'[c].ref \in {NoTx, settledBy'}
  BY DEF WasSettled
<1> DEFINE k == task'[c]
<1>2. k.pay \in Payment
  BY <1>1 DEF TypeOK, LocalInv
<1>3. /\ status[k.pay] = "SUCCEEDED"
      /\ settledBy # NoTx /\ payOf[settledBy] = k.pay /\ k.pay \in Widgets
           => k.ref \in {NoTx, settledBy}
  <2>1. CASE task'[c] = task[c]
    BY <2>1 DEF WasSettled
  <2>2. CASE Started(task'[c])
    BY <2>2 DEF Started, SettledFixed
  <2>3. CASE Answer(c)
    BY <1>1, <2>3, AnswerReads DEF WasSettled
  <2> QED
    BY <1>1, <2>1, <2>2, <2>3, TaskStep
<1> HIDE DEF k
<1>4. status'[k.pay] = "SUCCEEDED"
  BY <1>2, <1>3, SettleCases DEF SuccessKept
<1>5. ASSUME settledBy' # NoTx, payOf'[settledBy'] = k.pay, k.pay \in Widgets
      PROVE  k.ref \in {NoTx, settledBy'}
  <2>1. \A x \in Tx : payOf[x] # NoPayment => payOf'[x] = payOf[x]
    BY <1>1, TxStep DEF LinkInv, MoneyInv
  <2>2. settledBy # NoTx => settledBy \in Tx /\ payOf[settledBy] # NoPayment
    BY <1>1 DEF LinkInv, TxLinked, MoneyInv, PaidByMoney
  <2>3. CASE settledBy' = settledBy
    BY <1>3, <1>5, <2>1, <2>2, <2>3
  <2>4. ASSUME NEW h \in Handler, task[h].pay \in Payment, task[h].x \in Tx,
               payOf[task[h].x] = task[h].pay, Settles(task[h])
        PROVE  FALSE
    <3>1. payOf'[settledBy'] = task[h].pay
      BY <2>1, <2>4, NoneAssumption DEF Settles
    <3> QED
      BY <1>3, <1>5, <2>4, <3>1 DEF Settles
  <2>5. \/ settledBy' = settledBy
        \/ \E h \in Handler : /\ task[h].pay \in Payment /\ task[h].x \in Tx
                              /\ payOf[task[h].x] = task[h].pay
                              /\ Settles(task[h])
    BY SettleCases DEF Excess, orderVars
  <2> QED
    BY <2>3, <2>4, <2>5
<1> QED
  BY <1>4, <1>5 DEF k

LEMMA FlagStep ==
  ASSUME IInv, UnrecordedIsFresh, SettledFixed, WasSettled, FlagsLate,
         NoFalseFlag, [Next]_vars
  PROVE  FlagsLate' /\ NoFalseFlag'
<1>1. TypeOK /\ MoneyInv
  BY DEF IInv
<1>2. \A q \in Payment : status[q] = "SUCCEEDED" => status'[q] = "SUCCEEDED"
  BY SettleCases DEF SuccessKept
<1>3. CASE (order = "PAID" => order' = "PAID") /\ UNCHANGED <<settledBy, flagged>>
  BY <1>2, <1>3 DEF FlagsLate, NoFalseFlag
<1>4. ASSUME NEW h \in Handler, task[h].pay \in Payment, task[h].x \in Tx,
             task[h].pc = "answered", payOf[task[h].x] = task[h].pay
      PROVE  Excess(task[h]) \/ Settles(task[h]) => FlagsLate' /\ NoFalseFlag'
  <2> DEFINE k == task[h]
  <2>1. k.was = "SUCCEEDED"
          => /\ status[k.pay] = "SUCCEEDED"
             /\ settledBy # NoTx /\ payOf[settledBy] = k.pay
                  /\ k.pay \in Widgets
                => k.ref \in {NoTx, settledBy}
    BY <1>4 DEF WasSettled
  <2>2. k.pay \in Payment /\ k.x \in Tx /\ payOf[k.x] = k.pay
    BY <1>4
  <2> HIDE DEF k
  <2>3. CASE Excess(k)
    <3>1. order = "PAID" \/ \E q \in Payment : status[q] = "SUCCEEDED"
      BY <2>1, <2>2, <2>3 DEF Excess, SettledElsewhere
    <3>2. settledBy # k.x
      BY <2>1, <2>2, <2>3, NoneAssumption DEF Excess, SettledFixed
    <3> QED
      BY <1>2, <2>3, <3>1, <3>2 DEF Excess, FlagsLate, NoFalseFlag, orderVars
  <2>4. CASE Settles(k)
    <3>1. flagged = {}
      BY <2>2, <2>4 DEF Settles, SettledElsewhere, FlagsLate
    <3> QED
      BY <2>4, <3>1 DEF Settles, FlagsLate, NoFalseFlag
  <2> QED
    BY <2>3, <2>4 DEF k
<1> QED
  BY <1>3, <1>4, SettleCases

LEMMA FlagInvInit == Init => FlagInv
<1> SUFFICES ASSUME Init PROVE FlagInv
  OBVIOUS
<1>1. UnrecordedIsFresh
  <2>1. \A x \in Tx, p \in Payment : payOf[x] # p
    BY NoneAssumption DEF Init
  <2>2. \A h \in Handler : task[h].pc = "idle"
    BY DEF Init, NoTask
  <2> QED
    BY <2>1, <2>2 DEF Init, UnrecordedIsFresh, Fresh
<1>2. SettledFixed /\ FlagsLate /\ NoFalseFlag
  BY DEF Init, SettledFixed, FlagsLate, NoFalseFlag
<1>3. WasSettled
  BY DEF Init, NoTask, WasSettled
<1> QED
  BY <1>1, <1>2, <1>3 DEF FlagInv

\* What is asked back from the provider as money in excess is never the
\* transaction that settled the order, as long as the order is paid for by one
\* request at a time: with two, the answer to the first may reopen a row that
\* was settled meanwhile, and its transaction is then taken for a second one.
THEOREM NoFalseFlagCorrect == ASSUME OneBuyer PROVE Spec => []NoFalseFlag
<1>1. Init => FlagInv
  BY FlagInvInit
<1>2. IInv /\ FlagInv /\ [Next]_vars => FlagInv'
  BY FreshStep, SettledStep, WasStep, FlagStep DEF FlagInv, IInv
<1>3. FlagInv => NoFalseFlag
  BY DEF FlagInv
<1> QED
  BY <1>1, <1>2, <1>3, IInvCorrect, PTL DEF Spec
=============================================================================
