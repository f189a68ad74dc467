------------------------------ MODULE Refunds ------------------------------
(***************************************************************************)
(* Refunds of the orders of one event (modules finance/refunds and the     *)
(* cancellation in events/).                                               *)
(*                                                                         *)
(* A refund is decided in one transaction under the lock of its order,     *)
(* then executed: by the provider when it can, by hand otherwise.  Every   *)
(* execution reads the refund, calls the provider, and writes the answer   *)
(* by id.  Two providers exist: Kkiapay returns a payment whole, never     *)
(* twice, and can be read again; Bictorys acknowledges and is never heard  *)
(* of again, since its refund notifications are discarded and it has no    *)
(* getRefundStatus.  Neither uses the idempotency key, which is left out,  *)
(* and neither sends what handleProviderEvent expects.                     *)
(***************************************************************************)
EXTENDS Naturals, FiniteSets

CONSTANTS
  Order,      \* orders of the event
  Free,       \* those whose total amount is zero
  Price, Fee, \* [Order -> Nat]: price of the tickets, fee paid by the buyer
  Kkiapay,    \* orders paid by Mobile Money at Kkiapay
  Bictorys,   \* orders paid at Bictorys
  Amounts,    \* partial amounts an administrator may ask for
  Task,       \* concurrent requests of administrators, and passes
  MaxRows,    \* bound on the refunds of an order
  MaxFaults   \* bound on lost answers and restarts

ASSUME OrderAssumption ==
  /\ Free \subseteq Order /\ Kkiapay \subseteq Order /\ Bictorys \subseteq Order
  /\ Kkiapay \cap Bictorys = {}
  /\ Price \in [Order -> Nat] /\ Fee \in [Order -> Nat]
  /\ \A o \in Order : o \in Free <=> Price[o] + Fee[o] = 0
ASSUME BoundsAssumption ==
  Amounts \subseteq Nat \ {0} /\ MaxRows \in Nat /\ MaxFaults \in Nat

Rows == Order \X (1..MaxRows)
NoRow == <<"no order", 0>>
NoTask == "no task"

ASSUME NoneAssumption == NoRow \notin Rows /\ NoTask \notin Task

RefundStatus == {"NONE", "PENDING", "PROCESSING", "COMPLETED", "FAILED"}
OrderStatus == {"AWAITING_PAYMENT", "PAID", "PARTIALLY_REFUNDED", "REFUNDED",
                "CANCELLED"}
Refundable == {"PAID", "PARTIALLY_REFUNDED", "REFUNDED"}

VARIABLES
  status,     \* status of each order
  paid,       \* orders settled, by a SUCCEEDED payment unless they are free
  valid,      \* orders whose tickets are VALID
  row,        \* each refund: its status, amount, provider reference, and
              \* whether it was attempted (providerAttempt > 0)
  reversed,   \* number of REFUND_FEE_REVERSAL entries of each order
  revert,     \* what the provider made of the payment's return
  byHand,     \* refunds an administrator recorded as made outside
  task,       \* local state of each task
  sweep,      \* local state of the event's cancellation
  faults      \* lost answers and restarts so far

orderVars == <<status, paid, valid>>
vars == <<status, paid, valid, row, reversed, revert, byHand, task, sweep,
          faults>>

Total(o) == Price[o] + Fee[o]
NoRefund ==
  [status |-> "NONE", amount |-> 0, ref |-> "none", tried |-> FALSE]
Work(pc, r, renew, answer) ==
  [pc |-> pc, row |-> r, renew |-> renew, answer |-> answer]
Idle == Work("idle", NoRow, FALSE, "none")
Sweep(pc, todo, listed) ==
  [pc |-> pc, todo |-> todo, listed |-> listed, reported |-> {},
   by |-> NoTask]

Init ==
  /\ paid \in SUBSET Order
  /\ status = [o \in Order |-> IF o \in paid THEN "PAID" ELSE "AWAITING_PAYMENT"]
  /\ valid = paid
  /\ row = [r \in Rows |-> NoRefund]
  /\ reversed = [o \in Order |-> 0]
  /\ revert = [o \in Order |-> "none"]
  /\ byHand = {}
  /\ task = [k \in Task |-> Idle]
  /\ sweep = Sweep("idle", {}, {})
  /\ faults = 0

Set(k, t) == task' = [task EXCEPT ![k] = t]
-----------------------------------------------------------------------------
(* The decision *)

\* Every refund decided counts, whatever became of it: the sum of their amounts,
\* counted unit by unit.
Units(o) == UNION {{n} \X (1..row[<<o, n>>].amount) : n \in 1..MaxRows}
Decided(o) == Cardinality(Units(o))

\* Mutant of Ceiling: the fee is added to a total that includes it.
CeilingFeeTwice(o, fees) ==
  IF fees THEN Total(o) + Fee[o] ELSE Total(o)

Ceiling(o, fees) == IF fees THEN Total(o) ELSE Price[o]

\* What may still be given back; never negative where it is used.
Left(o, fees) == Ceiling(o, fees) - Decided(o)
SomethingLeft(o, fees) == Ceiling(o, fees) > Decided(o)

Used(o) == {n \in 1..MaxRows : row[<<o, n>>].status # "NONE"}
NextRow(o) == <<o, Cardinality(Used(o)) + 1>>

NewRefund(amount) == [NoRefund EXCEPT !.status = "PENDING", !.amount = amount]

MayRefund(o) == status[o] \in Refundable /\ o \in paid \ Free

\* Mutant of Voided: the tickets of a refunded order keep their value.
VoidedNever(o, full) == valid

\* A whole refund voids the tickets, a partial one does not.
Voided(o, full) == IF full THEN valid \ {o} ELSE valid

\* The transaction of refundOrder, under the lock of the order: the refund,
\* the order, its tickets and the ledger.
Decide(o, amount, fees) ==
  LET full == amount >= Left(o, fees) IN
  /\ row' = [row EXCEPT ![NextRow(o)] = NewRefund(amount)]
  /\ status' = [status EXCEPT ![o] =
                  IF full THEN "REFUNDED" ELSE "PARTIALLY_REFUNDED"]
  /\ valid' = Voided(o, full)
  /\ reversed' = IF fees /\ reversed[o] = 0
                 THEN [reversed EXCEPT ![o] = 1] ELSE reversed
  /\ UNCHANGED paid

\* An administrator refunds an order, in whole or in part.  The last row is
\* kept for the cancellation of the event.
RefundOrder(k, o, fees) ==
  /\ task[k] = Idle
  /\ MayRefund(o)
  /\ SomethingLeft(o, fees)
  /\ NextRow(o)[2] < MaxRows
  /\ \E amount \in {a \in Amounts : a <= Left(o, fees)} \cup {Left(o, fees)} :
       Decide(o, amount, fees)
  /\ Set(k, Work("load", NextRow(o), FALSE, "none"))
  /\ UNCHANGED <<revert, byHand, sweep, faults>>
-----------------------------------------------------------------------------
(* The execution *)

OrderOf(r) == r[1]

\* Mutant of Automatic: a partial refund is handed to the provider too.
AutomaticPartial(r) == OrderOf(r) \in Kkiapay \cup Bictorys

\* automaticBlocker: only a whole payment, only where a provider returns it.
Automatic(r) ==
  /\ OrderOf(r) \in Kkiapay \cup Bictorys
  /\ row[r].amount >= Total(OrderOf(r))

\* A first attempt, and the one that follows a failure the provider knows
\* of, take a new idempotency key and forget the reference.
Renewed(r) ==
  ~row[r].tried \/ (row[r].status = "FAILED" /\ row[r].ref # "none")

\* The execution that follows the decision: it reads the refund anew.
Load(k) ==
  LET r == task[k].row IN
  /\ task[k].pc = "load"
  /\ Set(k, IF Automatic(r) THEN Work("attempt", r, Renewed(r), "none")
                            ELSE Idle)
  /\ UNCHANGED <<orderVars, row, reversed, revert, byHand, sweep, faults>>

\* An administrator asks again; PROCESSING and COMPLETED are refused.
Retry(k, r) ==
  /\ task[k] = Idle
  /\ row[r].status \in {"PENDING", "FAILED"}
  /\ Automatic(r)
  /\ Set(k, Work("attempt", r, Renewed(r), "none"))
  /\ UNCHANGED <<orderVars, row, reversed, revert, byHand, sweep, faults>>

Attempted(r, renew) ==
  [row[r] EXCEPT !.tried = TRUE, !.ref = IF renew THEN "none" ELSE @]

\* The write before the call, decided by what was read.
Attempt(k) ==
  LET t == task[k] IN
  /\ t.pc = "attempt"
  /\ row' = [row EXCEPT ![t.row] = Attempted(t.row, t.renew)]
  /\ Set(k, Work("call", t.row, FALSE, "none"))
  /\ UNCHANGED <<orderVars, reversed, revert, byHand, sweep, faults>>

\* provider.refund(): what becomes of the payment, and what is answered.
\* Kkiapay refuses a return under way, and reads again one that is done.
Answers(o) ==
  CASE o \in Kkiapay /\ revert[o] = "none" ->
         {<<"reverted", "COMPLETED">>, <<"processing", "PROCESSING">>,
          <<"none", "FAILED">>}
    [] o \in Kkiapay /\ revert[o] = "processing" -> {<<"processing", "FAILED">>}
    [] o \in Kkiapay /\ revert[o] = "reverted" -> {<<"reverted", "COMPLETED">>}
    [] o \notin Kkiapay /\ revert[o] = "none" ->
         {<<"processing", "PROCESSING">>, <<"none", "LOST">>}
    [] OTHER -> {<<revert[o], "LOST">>}

Call(k) ==
  LET t == task[k]
      o == OrderOf(t.row) IN
  /\ t.pc = "call"
  /\ \E a \in Answers(o) :
       /\ revert' = [revert EXCEPT ![o] = a[1]]
       /\ Set(k, Work("write", t.row, FALSE, a[2]))
  /\ UNCHANGED <<orderVars, row, reversed, byHand, sweep, faults>>

\* The answer is lost on its way, whatever became of the payment.
CallLost(k) ==
  LET t == task[k]
      o == OrderOf(t.row) IN
  /\ t.pc = "call"
  /\ faults < MaxFaults
  /\ faults' = faults + 1
  /\ \E a \in Answers(o) :
       /\ revert' = [revert EXCEPT ![o] = a[1]]
       /\ Set(k, Work("write", t.row, FALSE, "LOST"))
  /\ UNCHANGED <<orderVars, row, reversed, byHand, sweep>>

\* Mutant of Outcome: an accepted demand is taken for a finished one.
OutcomeHasty(answer, r) ==
  IF answer = "LOST" THEN [row[r] EXCEPT !.status = "FAILED"]
  ELSE [row[r] EXCEPT !.status = IF answer = "PROCESSING" THEN "COMPLETED"
                                 ELSE answer,
                      !.ref = "transaction"]

\* Mutant of Outcome: a lost answer is written as it came.
OutcomeRaw(answer, r) ==
  [row[r] EXCEPT !.status = answer, !.ref = "transaction"]

\* What each answer makes of the refund; a lost one keeps the reference.
Outcome(answer, r) ==
  IF answer = "LOST" THEN [row[r] EXCEPT !.status = "FAILED"]
  ELSE [row[r] EXCEPT !.status = answer, !.ref = "transaction"]

\* complete(), fail() and the two other updates, all by id.
WriteAnswer(k) ==
  LET t == task[k] IN
  /\ t.pc \in {"write", "polled"}
  /\ row' = [row EXCEPT ![t.row] = Outcome(t.answer, t.row)]
  /\ Set(k, Idle)
  /\ UNCHANGED <<orderVars, reversed, revert, byHand, sweep, faults>>

\* recordManual: what was read must not be COMPLETED.
ManualRead(k, r) ==
  /\ task[k] = Idle
  /\ row[r].status \in RefundStatus \ {"NONE", "COMPLETED"}
  /\ Set(k, Work("hand", r, FALSE, "none"))
  /\ UNCHANGED <<orderVars, row, reversed, revert, byHand, sweep, faults>>

DoneByHand(r) == [row[r] EXCEPT !.status = "COMPLETED", !.ref = "manual"]

ManualWrite(k) ==
  LET r == task[k].row IN
  /\ task[k].pc = "hand"
  /\ row' = [row EXCEPT ![r] = DoneByHand(r)]
  /\ byHand' = byHand \cup {r}
  /\ Set(k, Idle)
  /\ UNCHANGED <<orderVars, reversed, revert, sweep, faults>>

\* Mutant of ToRead: the pass reads the refunds nobody attempted.
ToReadPending(r) == row[r].status = "PENDING" /\ OrderOf(r) \in Kkiapay

\* The refunds a pass reads again: accepted, known to a provider that can be
\* read.
ToRead(r) ==
  /\ row[r].status = "PROCESSING" /\ row[r].ref # "none"
  /\ OrderOf(r) \in Kkiapay

\* The pass of every minute, under its lock, reads its list,
PollStart(k, r) ==
  /\ task[k] = Idle
  /\ \A j \in Task : task[j].pc \notin {"listed", "polled"}
  /\ ToRead(r)
  /\ Set(k, Work("listed", r, FALSE, "none"))
  /\ UNCHANGED <<orderVars, row, reversed, revert, byHand, sweep, faults>>

\* asks Kkiapay, and writes what it says of a payment returned.
PollAnswer(k) ==
  LET r == task[k].row IN
  /\ task[k].pc = "listed"
  /\ Set(k, IF revert[OrderOf(r)] = "reverted"
            THEN Work("polled", r, FALSE, "COMPLETED") ELSE Idle)
  /\ UNCHANGED <<orderVars, row, reversed, revert, byHand, sweep, faults>>

RevertEnds(o) ==
  /\ revert[o] = "processing"
  /\ revert' = [revert EXCEPT ![o] = "reverted"]
  /\ UNCHANGED <<orderVars, row, reversed, byHand, task, sweep, faults>>

\* The API stops: the task and the sweep that waits for it are lost.
Restart(k) ==
  /\ task[k] # Idle
  /\ faults < MaxFaults
  /\ faults' = faults + 1
  /\ Set(k, Idle)
  /\ sweep' = IF sweep.by = k THEN [sweep EXCEPT !.pc = "stopped"] ELSE sweep
  /\ UNCHANGED <<orderVars, row, reversed, revert, byHand>>
-----------------------------------------------------------------------------
(* The buyers *)

\* A payment begun before, whenever it succeeds.
Settle(o) ==
  /\ o \notin paid
  /\ status[o] = "AWAITING_PAYMENT"
  /\ paid' = paid \cup {o}
  /\ status' = [status EXCEPT ![o] = "PAID"]
  /\ valid' = valid \cup {o}
  /\ UNCHANGED <<row, reversed, revert, byHand, task, sweep, faults>>

\* requireOpenOrder refuses neither refunded status, and such an order has
\* no expiry: its buyer may confirm it again.
ConfirmAgain(o) ==
  /\ status[o] \in {"REFUNDED", "PARTIALLY_REFUNDED"}
  /\ status' = [status EXCEPT ![o] = "AWAITING_PAYMENT"]
  /\ UNCHANGED <<paid, valid, row, reversed, revert, byHand, task, sweep, faults>>
-----------------------------------------------------------------------------
(* The cancellation of the event *)

CancelEvent ==
  /\ sweep.pc = "idle"
  /\ sweep' = Sweep("list", {}, {})
  /\ UNCHANGED <<orderVars, row, reversed, revert, byHand, task, faults>>

\* The orders to refund are read once.
CancelList ==
  LET found == {o \in Order : status[o] \in Refundable} IN
  /\ sweep.pc = "list"
  /\ sweep' = Sweep("each", found, found)
  /\ UNCHANGED <<orderVars, row, reversed, revert, byHand, task, faults>>

Waiting == sweep.by # NoTask /\ task[sweep.by] # Idle

CancelFree(o) ==
  /\ o \in Free
  /\ status' = [status EXCEPT ![o] = "CANCELLED"]
  /\ valid' = valid \ {o}
  /\ sweep' = [sweep EXCEPT !.todo = @ \ {o}]
  /\ UNCHANGED <<paid, row, reversed, task>>

\* Everything was given back already, fees included.
CancelSkip(o) ==
  /\ o \notin Free
  /\ ~SomethingLeft(o, TRUE)
  /\ sweep' = [sweep EXCEPT !.todo = @ \ {o}]
  /\ UNCHANGED <<orderVars, row, reversed, task>>

CancelRefund(k, o) ==
  /\ task[k] = Idle
  /\ MayRefund(o)
  /\ SomethingLeft(o, TRUE)
  /\ NextRow(o) \in Rows
  /\ Decide(o, Left(o, TRUE), TRUE)
  /\ Set(k, Work("load", NextRow(o), FALSE, "none"))
  /\ sweep' = [sweep EXCEPT !.todo = @ \ {o}, !.by = k]

\* Mutant of CancelRefused: a refusal ends the loop.
CancelRefusedStops(o) ==
  /\ o \notin Free
  /\ SomethingLeft(o, TRUE)
  /\ ~MayRefund(o)
  /\ sweep' = [sweep EXCEPT !.todo = {}]
  /\ UNCHANGED <<orderVars, row, reversed, task>>

\* A refusal does not stop the others: it is reported.
CancelRefused(o) ==
  /\ o \notin Free
  /\ SomethingLeft(o, TRUE)
  /\ ~MayRefund(o)
  /\ sweep' = [sweep EXCEPT !.todo = @ \ {o}, !.reported = @ \cup {o}]
  /\ UNCHANGED <<orderVars, row, reversed, task>>

CancelEach ==
  /\ sweep.pc = "each"
  /\ ~Waiting
  /\ \E o \in sweep.todo :
       \/ CancelFree(o)
       \/ CancelSkip(o)
       \/ \E k \in Task : CancelRefund(k, o)
       \/ CancelRefused(o)
  /\ UNCHANGED <<revert, byHand, faults>>

\* cancelForEvent: whatever is still valid is not any more.
CancelTickets ==
  /\ sweep.pc = "each"
  /\ sweep.todo = {} /\ ~Waiting
  /\ valid' = {}
  /\ sweep' = [sweep EXCEPT !.pc = "done", !.by = NoTask]
  /\ UNCHANGED <<status, paid, row, reversed, revert, byHand, task, faults>>

Cancelling == CancelList \/ CancelEach \/ CancelTickets
-----------------------------------------------------------------------------
Proceed(k) ==
  \/ Load(k) \/ Attempt(k) \/ Call(k) \/ PollAnswer(k)
  \/ WriteAnswer(k) \/ ManualWrite(k)

Poll(r) == \E k \in Task : PollStart(k, r)

Next ==
  \/ \E k \in Task, o \in Order, fees \in BOOLEAN : RefundOrder(k, o, fees)
  \/ \E k \in Task, r \in Rows : Retry(k, r) \/ ManualRead(k, r)
  \/ \E k \in Task : Proceed(k) \/ CallLost(k) \/ Restart(k)
  \/ \E r \in Rows : Poll(r)
  \/ \E o \in Order : RevertEnds(o) \/ Settle(o) \/ ConfirmAgain(o)
  \/ CancelEvent \/ Cancelling

Spec == Init /\ [][Next]_vars

\* Requests run to their end, Kkiapay ends what it accepted, and the cron of
\* every minute reads again each refund in progress.
Fairness ==
  /\ \A k \in Task : WF_vars(Proceed(k))
  /\ \A o \in Kkiapay : WF_vars(RevertEnds(o))
  /\ \A r \in Kkiapay \X (1..MaxRows) : SF_vars(Poll(r))

FairSpec == Spec /\ Fairness
-----------------------------------------------------------------------------
RowType == [status : RefundStatus, amount : Nat,
            ref : {"none", "transaction", "manual"}, tried : BOOLEAN]
TaskType ==
  [pc : {"idle", "load", "attempt", "call", "write", "listed", "polled", "hand"},
   row : Rows \cup {NoRow}, renew : BOOLEAN,
   answer : {"none", "COMPLETED", "PROCESSING", "FAILED", "LOST"}]

\* Rows and tasks keep their type, and a task at work knows its refund.
TypeOK ==
  /\ status \in [Order -> OrderStatus]
  /\ paid \subseteq Order /\ valid \subseteq paid
  /\ row \in [Rows -> RowType]
  /\ reversed \in [Order -> Nat]
  /\ revert \in [Order -> {"none", "processing", "reverted"}]
  /\ byHand \subseteq Rows
  /\ task \in [Task -> TaskType]
  /\ \A k \in Task : task[k].pc # "idle" =>
       /\ task[k].row \in Rows
       /\ task[k].pc \in {"write", "polled"} => task[k].answer # "none"
  /\ sweep.todo \subseteq sweep.listed /\ sweep.listed \subseteq Order
  /\ faults \in Nat

\* A buyer is never promised back more than what was paid, whoever decides
\* and however many of those refunds failed since.
WithinPaid == \A o \in Order : Decided(o) <= Total(o)

\* An order given back whole admits nobody any more.
RefundedIsVoid ==
  \A o \in Order \ Free : Decided(o) = Total(o) => o \notin valid

\* The provider gives a payment back only when the whole of it was decided.
RevertedIsWhole ==
  \A o \in Order : revert[o] # "none" =>
    \E n \in Used(o) : row[<<o, n>>].amount >= Total(o)

\* A refund shown as done is done, by the provider or by hand.
CompletionIsTrue ==
  \A r \in Rows : row[r].status = "COMPLETED" =>
    r \in byHand \/ revert[OrderOf(r)] = "reverted"

\* Once the cancellation of the event has ended, every order it listed is
\* promised back whole, or reported to the organiser.
ListedIsDecided ==
  sweep.pc = "done" =>
    \A o \in sweep.listed \ Free :
      Decided(o) = Total(o) \/ o \in sweep.reported

\* A return that Kkiapay accepted ends up shown as done or refused, unless
\* an attempt begun before it makes the refund forget its reference.
KkiapayIsConcluded ==
  \A r \in Kkiapay \X (1..MaxRows) :
    row[r].status = "PROCESSING"
      ~> (row[r].status # "PROCESSING" \/ row[r].ref = "none")

\* Every paid order of a cancelled event is promised back whole
\* (refunds.service.ts:308).
CancelledIsRefunded ==
  sweep.pc = "done" =>
    \A o \in paid \ Free : Decided(o) = Total(o) \/ o \in sweep.reported

\* A refund that is done is never reopened (refunds.service.ts:767).
DoneStaysDone ==
  [][\A r \in Rows : row[r].status = "COMPLETED"
       => row'[r].status = "COMPLETED"]_vars

\* A refund accepted by a provider ends by itself (refunds.service.ts:410).
ProcessingIsConcluded ==
  \A r \in Rows :
    row[r].status = "PROCESSING" ~> row[r].status # "PROCESSING"
=============================================================================
