------------------------------ MODULE Payments ------------------------------
(***************************************************************************)
(* The payments of one order (modules payments/): their initiation, the    *)
(* provider's transactions, and the tasks that learn what became of them - *)
(* the buyer's page, the provider's notifications, the poll and the replay *)
(* of orphan notifications.                                                *)
(*                                                                         *)
(* A task reads the payment, awaits the provider's answer, then writes:    *)
(* task[h] keeps what it read.  Only applyOutcome reads again, under the   *)
(* lock of the payment and of the order, and is one step.                  *)
(***************************************************************************)
EXTENDS Integers, FiniteSets

CONSTANTS
  Payment,     \* payment rows that may be created
  Tx,          \* transactions at the provider
  Underpaid,   \* those that take another amount than the one due
  Widgets,     \* those that are validated in the provider's window; the
               \* others by a request pushed to the buyer's phone
  Buyer,       \* concurrent requests that initiate a payment
  Handler,     \* concurrent tasks that read the provider
  MaxFaults    \* bound on unanswered calls to the provider and on restarts

ASSUME WidgetAssumption == Widgets \subseteq Payment
ASSUME UnderpaidAssumption == Underpaid \subseteq Tx
ASSUME FiniteAssumption == IsFiniteSet(Payment)
ASSUME FaultAssumption == MaxFaults \in Nat

NoTx == "no transaction"
NoPayment == "no payment"
ASSUME NoneAssumption == NoTx \notin Tx /\ NoPayment \notin Payment

Flow == [p \in Payment |-> IF p \in Widgets THEN "widget" ELSE "push"]

InFlight == {"INITIATED", "PENDING", "PROCESSING"}
PaymentStatus == InFlight \cup {"SUCCEEDED", "FAILED", "EXPIRED", "CANCELLED"}
Ended == {"SUCCEEDED", "FAILED", "CANCELLED"}
TxStatus == {"PENDING", "PROCESSING"} \cup Ended
HookStatus == {"RECEIVED", "BOUND", "PROCESSED", "IGNORED", "FAILED"}

\* PAYMENT_STATUS_TRANSITIONS, without the refunds.
Transitions == [s \in PaymentStatus \cup {"NONE"} |->
  CASE s = "INITIATED"  -> {"PENDING", "PROCESSING", "SUCCEEDED", "FAILED",
                            "CANCELLED"}
    [] s = "PENDING"    -> {"PROCESSING", "SUCCEEDED", "FAILED", "EXPIRED",
                            "CANCELLED"}
    [] s = "PROCESSING" -> {"SUCCEEDED", "FAILED", "EXPIRED"}
    [] s \in {"NONE", "SUCCEEDED"} -> {}
    [] OTHER            -> {"SUCCEEDED"}]

VARIABLES
  status,     \* status of each payment row, "NONE" before it exists
  ref,        \* its providerReference
  gen,        \* the rank in its idempotency key
  dated,      \* payments whose expiresAt is set
  due,        \* those whose expiresAt is over
  shown,      \* those whose payment window a page has been given
  order,      \* status of the order; "EXPIRED" stands for CANCELLED too
  late,       \* the thirty minutes of the order are over
  tx,         \* status of each transaction, "NONE" before it exists
  payOf,      \* the payment a transaction was made for
  hook,       \* the webhook_event row of the end of each transaction;
              \* "BOUND" is RECEIVED with a paymentId
  flagged,    \* transactions recorded as money in excess
  credits,    \* how many times the order was settled
  settledBy,  \* the transaction that settled it
  buyer,      \* local state of each initiation
  task,       \* local state of each task
  faults      \* calls without an answer and restarts so far

rowVars   == <<status, ref, gen, dated, shown>>
madeVars  == <<gen, dated, shown>>
clockVars == <<due, late>>
orderVars == <<order, credits, settledBy>>
provVars  == <<tx, payOf>>
noteVars  == <<hook, flagged>>
vars == <<status, ref, gen, dated, due, shown, order, late, tx, payOf, hook, flagged,
          credits, settledBy, buyer, task, faults>>

NoBuyer == [pc |-> "idle", flow |-> "push", pay |-> NoPayment, rank |-> 0,
            answer |-> "NONE", ref |-> NoTx]
NoTask == [pc |-> "idle", kind |-> "poll", pay |-> NoPayment, x |-> NoTx,
           was |-> "NONE", ref |-> NoTx, answer |-> "NONE"]

Init ==
  /\ status = [p \in Payment |-> "NONE"]
  /\ ref = [p \in Payment |-> NoTx]
  /\ gen = [p \in Payment |-> 0]
  /\ dated = {} /\ due = {} /\ shown = {}
  /\ order = "AWAITING_PAYMENT" /\ late = FALSE
  /\ tx = [x \in Tx |-> "NONE"]
  /\ payOf = [x \in Tx |-> NoPayment]
  /\ hook = [x \in Tx |-> "NONE"]
  /\ flagged = {} /\ credits = 0 /\ settledBy = NoTx
  /\ buyer = [b \in Buyer |-> NoBuyer]
  /\ task = [h \in Handler |-> NoTask]
  /\ faults = 0

Pending(p) == status[p] \in InFlight
Closed(p) == status[p] \in PaymentStatus \ InFlight
-----------------------------------------------------------------------------
(* PaymentsService.applyOutcome: the one transaction that concludes *)

Allowed(p, s) == s \in Transitions[status[p]]

\* Mutant of SettledElsewhere: the order is not read again under its lock.
SettledElsewhereUnread(p) == FALSE

SettledElsewhere(p) ==
  \/ order = "PAID"
  \/ \E q \in Payment \ {p} : status[q] = "SUCCEEDED"

\* OrdersService.markPaid: an order still awaiting is honoured; a closed one
\* only if its places are still free.
MarkPaid(x) ==
  \/ /\ order' = "PAID" /\ credits' = credits + 1 /\ settledBy' = x
  \/ /\ order = "EXPIRED"
     /\ UNCHANGED orderVars

\* A success, learnt from transaction x.
ApplySuccess(p, x, newRef) ==
  \/ /\ ~Allowed(p, "SUCCEEDED")
     /\ UNCHANGED <<status, ref, orderVars, flagged>>
  \/ /\ Allowed(p, "SUCCEEDED") /\ SettledElsewhere(p)
     /\ flagged' = flagged \cup {x}
     /\ UNCHANGED <<status, ref, orderVars>>
  \/ /\ Allowed(p, "SUCCEEDED") /\ ~SettledElsewhere(p)
     /\ status' = [status EXCEPT ![p] = "SUCCEEDED"]
     /\ ref' = [ref EXCEPT ![p] = newRef]
     /\ MarkPaid(x)
     /\ UNCHANGED flagged

\* Any other outcome concerns the payment only.
ApplyOther(p, s) ==
  /\ status' = IF Allowed(p, s) THEN [status EXCEPT ![p] = s] ELSE status
  /\ UNCHANGED <<ref, orderVars, flagged>>

ExpireIfDue(p) ==
  IF p \in due THEN ApplyOther(p, "EXPIRED")
  ELSE UNCHANGED <<status, ref, orderVars, flagged>>
-----------------------------------------------------------------------------
(* PaymentsService.initiate *)

BuyerStep(b, new) ==
  /\ buyer' = [buyer EXCEPT ![b] = new]
  /\ UNCHANGED <<clockVars, hook, task, faults>>

\* The request found no payment in flight, or one that it will replace: a
\* widget is never replaced by a widget, its window is opened again.
BeginInitiate(b, f) ==
  LET open == {p \in Payment : Pending(p)}
      latest == {q \in open : \A p \in open : gen[p] <= gen[q]}
  IN
  /\ buyer[b].pc = "idle" /\ order = "AWAITING_PAYMENT" /\ ~late
  /\ \/ /\ open = {}
        /\ BuyerStep(b, [NoBuyer EXCEPT !.pc = "count", !.flow = f])
        /\ UNCHANGED shown
     \/ \E q \in latest :
          /\ ~(f = "widget" /\ Flow[q] = "widget")
          /\ BuyerStep(b, [NoBuyer EXCEPT !.pc = "replace", !.flow = f,
                                          !.pay = q])
          /\ UNCHANGED shown
     \/ /\ f = "widget" /\ \A q \in latest : Flow[q] = "widget"
        /\ shown' = shown \cup latest
        /\ BuyerStep(b, NoBuyer)
  /\ UNCHANGED <<status, ref, gen, dated, orderVars, provVars, flagged>>

Replace(b) ==
  /\ buyer[b].pc = "replace"
  /\ ApplyOther(buyer[b].pay, "CANCELLED")
  /\ BuyerStep(b, [buyer[b] EXCEPT !.pc = "count", !.pay = NoPayment])
  /\ UNCHANGED <<madeVars, provVars>>

\* The rank of the attempt, counted on the payments that are over.
CountTerminal(b) ==
  /\ buyer[b].pc = "count"
  /\ BuyerStep(b, [buyer[b] EXCEPT !.pc = "create",
                     !.rank = Cardinality({p \in Payment : Closed(p)})])
  /\ UNCHANGED <<rowVars, orderVars, provVars, flagged>>

\* The unique key decides: the loser returns with the winner's payment.
CreatePayment(b) ==
  LET twins == {p \in Payment : status[p] # "NONE" /\ gen[p] = buyer[b].rank}
  IN
  /\ buyer[b].pc = "create"
  /\ \/ /\ twins # {}
        /\ shown' = shown \cup {p \in twins : Pending(p)}
        /\ BuyerStep(b, NoBuyer)
        /\ UNCHANGED <<status, gen>>
     \/ /\ twins = {} /\ UNCHANGED shown
        /\ \E p \in Payment :
             /\ status[p] = "NONE" /\ Flow[p] = buyer[b].flow
             /\ status' = [status EXCEPT ![p] = "INITIATED"]
             /\ gen' = [gen EXCEPT ![p] = buyer[b].rank]
             /\ BuyerStep(b, [buyer[b] EXCEPT !.pc = "call", !.pay = p])
  /\ UNCHANGED <<ref, dated, orderVars, provVars, flagged>>

\* The call to the provider: a widget needs none, a push starts a transaction
\* or is declined.
CallProvider(b) ==
  LET p == buyer[b].pay
      Answered(s, x) == BuyerStep(b, [buyer[b] EXCEPT !.pc = "write",
                                                      !.answer = s, !.ref = x])
  IN
  /\ buyer[b].pc = "call"
  /\ \/ /\ Flow[p] = "widget"
        /\ Answered("PENDING", NoTx) /\ UNCHANGED provVars
     \/ /\ Flow[p] = "push"
        /\ \E x \in Tx \ Underpaid, s \in {"PENDING", "FAILED"} :
             /\ tx[x] = "NONE"
             /\ tx' = [tx EXCEPT ![x] = s]
             /\ payOf' = [payOf EXCEPT ![x] = p]
             /\ Answered(s, x)
  /\ UNCHANGED <<rowVars, orderVars, flagged>>

\* Its answer is written whatever the payment has become.
WriteInitiated(b) ==
  LET p == buyer[b].pay IN
  /\ buyer[b].pc = "write"
  /\ status' = [status EXCEPT ![p] = buyer[b].answer]
  /\ ref' = [ref EXCEPT ![p] = buyer[b].ref]
  /\ dated' = dated \cup {p} /\ shown' = shown \cup {p}
  /\ BuyerStep(b, NoBuyer)
  /\ UNCHANGED <<gen, orderVars, provVars, flagged>>

\* The request ends here: the provider did not answer (which does not mean
\* that it did nothing), or the API restarts.
DropBuyer(b) ==
  /\ buyer[b].pc # "idle"
  /\ BuyerStep(b, NoBuyer)
  /\ UNCHANGED <<rowVars, orderVars, provVars, flagged>>

Proceeding(b) ==
  \/ Replace(b) \/ CountTerminal(b) \/ CreatePayment(b) \/ CallProvider(b)
  \/ WriteInitiated(b) \/ DropBuyer(b)

Initiating(b) ==
  (\E f \in {"widget", "push"} : BeginInitiate(b, f)) \/ Proceeding(b)
-----------------------------------------------------------------------------
(* The provider, the clock and the order *)

\* The buyer pays in the window of a payment; nothing stops a second tab.
WidgetPay(x, p) ==
  /\ Flow[p] = "widget" /\ p \in shown /\ tx[x] = "NONE"
  /\ tx' = [tx EXCEPT ![x] = "PENDING"]
  /\ payOf' = [payOf EXCEPT ![x] = p]
  /\ UNCHANGED <<rowVars, clockVars, orderVars, noteVars, buyer, task, faults>>

\* The window's provider knows no other states; "CANCELLED" stands for the
\* expired and reversed requests of the other one too.
TxMoves(x) ==
  /\ \/ /\ tx[x] \in {"PENDING", "PROCESSING"}
        /\ \E s \in {"SUCCEEDED", "FAILED"} : tx' = [tx EXCEPT ![x] = s]
     \/ /\ tx[x] = "PENDING" /\ payOf[x] \notin Widgets
        /\ tx' = [tx EXCEPT ![x] = "PROCESSING"]
     \/ /\ tx[x] \in {"PENDING", "PROCESSING"} /\ payOf[x] \notin Widgets
        /\ tx' = [tx EXCEPT ![x] = "CANCELLED"]
  /\ UNCHANGED <<payOf, rowVars, clockVars, orderVars, noteVars, buyer, task,
                 faults>>

OrderLapses ==
  /\ ~late /\ late' = TRUE
  /\ UNCHANGED <<rowVars, due, orderVars, provVars, noteVars, buyer, task,
                 faults>>

\* The sweep expires the order, or the buyer cancels it.
OrderCloses ==
  /\ order = "AWAITING_PAYMENT"
  /\ order' = "EXPIRED"
  /\ UNCHANGED <<rowVars, clockVars, credits, settledBy, provVars, noteVars,
                 buyer, task, faults>>

\* Mutant of PaymentLapses: a payment whose date is not written is over too.
PaymentLapsesUndated(p) ==
  /\ p \notin due /\ due' = due \cup {p}
  /\ UNCHANGED <<rowVars, late, orderVars, provVars, noteVars, buyer, task,
                 faults>>

\* A widget lives as long as the reservation, a push a few minutes.
PaymentLapses(p) ==
  /\ p \in dated \ due /\ (Flow[p] = "push" \/ late)
  /\ due' = due \cup {p}
  /\ UNCHANGED <<rowVars, late, orderVars, provVars, noteVars, buyer, task,
                 faults>>

Outside ==
  \/ \E x \in Tx : TxMoves(x) \/ (\E p \in Payment : WidgetPay(x, p))
  \/ OrderLapses \/ OrderCloses
  \/ \E p \in Payment : PaymentLapses(p)
-----------------------------------------------------------------------------
(* The tasks that read the provider: each begins by reading the payment *)

Start(h, kind, p, x) ==
  /\ task[h].pc = "idle"
  /\ task' = [task EXCEPT ![h] =
       [pc |-> IF x = NoTx THEN "date" ELSE "asked", kind |-> kind, pay |-> p, x |-> x,
        was |-> status[p], ref |-> ref[p], answer |-> "NONE"]]
  /\ UNCHANGED <<rowVars, clockVars, orderVars, provVars, flagged, buyer,
                 faults>>

\* confirmFromCheckout: the page says that a transaction took place.
PageStart(h, p, x) ==
  /\ Flow[p] = "widget" /\ status[p] # "NONE" /\ tx[x] # "NONE"
  /\ ~(status[p] = "SUCCEEDED" /\ ref[p] = x)
  /\ Start(h, "page", p, x)
  /\ UNCHANGED hook

\* The payment a notification names: only the widget sends our identifier
\* back, a push is known by the reference of its initiation.
Notified(x) == {p \in Payment : ref[p] = x \/ (Flow[p] = "widget" /\ payOf[x] = p)}

\* handleWebhook: the row of the event is created, or taken up again.
HookStart(h, x) ==
  /\ tx[x] \in Ended
  /\ hook[x] \notin {"PROCESSED", "IGNORED"}
  /\ hook' = IF hook[x] = "NONE" THEN [hook EXCEPT ![x] = "RECEIVED"] ELSE hook
  /\ \E p \in Notified(x) : Start(h, "hook", p, x)

\* Nobody to notify yet: the row waits for the replay.
HookOrphan(x) ==
  /\ tx[x] \in Ended /\ hook[x] = "NONE" /\ Notified(x) = {}
  /\ hook' = [hook EXCEPT ![x] = "RECEIVED"]
  /\ UNCHANGED <<rowVars, clockVars, orderVars, provVars, flagged, buyer,
                 task, faults>>

\* The replay of an orphan reads its transaction (widget) or polls the payment
\* (push); a payment that has nothing to read closes the row all the same.
ReplayStart(h, x) ==
  /\ hook[x] = "RECEIVED"
  /\ \E p \in Notified(x) :
       IF Flow[p] = "widget" \/ Pending(p)
       THEN Start(h, "replay", p, x) /\ UNCHANGED hook
       ELSE /\ hook' = [hook EXCEPT ![x] = "PROCESSED"]
            /\ UNCHANGED <<rowVars, clockVars, orderVars, provVars, flagged,
                           buyer, task, faults>>

\* pollProvider, for the page that waits or the cron: what has no reference
\* has nothing to be read but its date, which the cron's second pass looks at.
PollStart(h, p) ==
  /\ Pending(p) /\ (ref[p] # NoTx \/ p \in due)
  /\ Start(h, "poll", p, ref[p])
  /\ UNCHANGED hook

\* Mutant of Answer: whatever has ended is read as a success.
AnswerEnded(h) ==
  LET k == task[h] IN
  /\ k.pc = "asked"
  /\ task' = [task EXCEPT ![h] =
       [k EXCEPT !.pc = "answered",
                 !.answer = IF tx[k.x] \in Ended THEN "SUCCEEDED" ELSE tx[k.x]]]
  /\ UNCHANGED <<rowVars, clockVars, orderVars, provVars, noteVars, buyer,
                 faults>>

\* The provider answers with what the transaction is now; a notification
\* knows no other end than success and failure.
Answer(h) ==
  LET k == task[h] IN
  /\ k.pc = "asked"
  /\ task' = [task EXCEPT ![h] =
       [k EXCEPT !.pc = "answered",
                 !.answer = IF k.kind = "hook" /\ tx[k.x] = "CANCELLED"
                            THEN "FAILED" ELSE tx[k.x]]]
  /\ UNCHANGED <<rowVars, clockVars, orderVars, provVars, noteVars, buyer,
                 faults>>
-----------------------------------------------------------------------------
(* What the tasks make of the answer *)

\* Mutant of Misbound: our identifier is not compared.
MisboundAnyOwner(p, x, answer) == answer = "SUCCEEDED" /\ x \in Underpaid

\* describeBindingProblem: our identifier, and exactly the amount due.
Misbound(p, x, answer) ==
  payOf[x] # p \/ (answer = "SUCCEEDED" /\ x \in Underpaid)

\* bindPendingReference, on a payment still open.
BindReference(p, x) ==
  /\ ref' = IF Pending(p) THEN [ref EXCEPT ![p] = x] ELSE ref
  /\ UNCHANGED <<status, orderVars, flagged>>

\* Mutant of ExcessSeen: the transaction that settled the payment is taken for
\* a second one.
ExcessSeenAlways(k) == k.was = "SUCCEEDED"

\* The payment was already settled by another transaction when it was read.
ExcessSeen(k) == k.was = "SUCCEEDED" /\ k.ref \notin {NoTx, k.x}

Untouched == UNCHANGED <<status, ref, orderVars, flagged>>

\* applyWidgetTransaction; the last argument is the verdict.
ApplyWidget(k, verdict) ==
  \/ /\ Misbound(k.pay, k.x, k.answer)
     /\ Untouched /\ verdict = "rejected"
  \/ /\ ~Misbound(k.pay, k.x, k.answer)
     /\ \/ /\ k.answer = "SUCCEEDED" /\ ExcessSeen(k)
           /\ flagged' = flagged \cup {k.x}
           /\ UNCHANGED <<status, ref, orderVars>> /\ verdict = "ignored"
        \/ /\ k.answer = "SUCCEEDED" /\ ~ExcessSeen(k)
           /\ ApplySuccess(k.pay, k.x, k.x)
           /\ verdict = IF status' # status THEN "applied" ELSE "ignored"
        \/ /\ k.answer # "SUCCEEDED" /\ k.was \notin InFlight
           /\ Untouched /\ verdict = "ignored"
        \/ /\ k.answer = "FAILED" /\ k.was \in InFlight
           /\ ref' = IF k.ref = k.x THEN [ref EXCEPT ![k.pay] = NoTx] ELSE ref
           /\ UNCHANGED <<status, orderVars, flagged>> /\ verdict = "applied"
        \/ /\ k.answer \in {"PENDING", "PROCESSING"} /\ k.was \in InFlight
           /\ IF k.ref # k.x THEN BindReference(k.pay, k.x) ELSE Untouched
           /\ verdict = "ignored"

\* The push: a poll expires what is still open when its time is over.
ApplyPush(k, verdict) ==
  LET lapsed == k.kind # "hook" /\ k.answer \in InFlight /\ k.pay \in due
      known  == k.kind # "hook" /\ k.answer = k.was
  IN
  /\ \/ lapsed /\ ApplyOther(k.pay, "EXPIRED")
     \/ k.answer = "SUCCEEDED" /\ ApplySuccess(k.pay, k.x, ref[k.pay])
     \/ ~lapsed /\ known /\ Untouched
     \/ ~lapsed /\ ~known /\ k.answer # "SUCCEEDED"
        /\ ApplyOther(k.pay, k.answer)
  /\ verdict = IF status' # status THEN "applied" ELSE "ignored"

\* What the task does next: a notification writes its row, a poll of a widget
\* that settled nothing looks at the date, the others are over.
NextOf(k, verdict) ==
  CASE k.kind = "hook" /\ verdict = "applied"  -> [k EXCEPT !.pc = "PROCESSED"]
    [] k.kind = "hook" /\ verdict = "ignored"  -> [k EXCEPT !.pc = "IGNORED"]
    [] k.kind = "hook" /\ verdict = "rejected" -> [k EXCEPT !.pc = "FAILED"]
    [] k.kind = "replay"                       -> [k EXCEPT !.pc = "PROCESSED"]
    [] k.kind = "poll" /\ Flow[k.pay] = "widget"
         /\ ~(verdict = "applied" /\ k.answer = "SUCCEEDED")
                                               -> [k EXCEPT !.pc = "date"]
    [] OTHER                                   -> NoTask

Apply(h) ==
  LET k == task[h] IN
  /\ k.pc = "answered"
  /\ \E verdict \in {"applied", "ignored", "rejected"} :
       /\ IF Flow[k.pay] = "widget" THEN ApplyWidget(k, verdict)
          ELSE ApplyPush(k, verdict)
       /\ task' = [task EXCEPT ![h] = NextOf(k, verdict)]
  /\ UNCHANGED <<madeVars, clockVars, provVars, hook, buyer, faults>>

\* The provider did not answer: a notification leaves its row to be resumed
\* and, for a widget, binds the transaction; a replay closes its row, a poll
\* looks at the date, and the replay of a push does both.
Unanswered(h) ==
  LET k == task[h] IN
  /\ k.pc = "asked" /\ faults < MaxFaults
  /\ ~(k.kind = "hook" /\ Flow[k.pay] = "push" /\ tx[k.x] # "SUCCEEDED")
  /\ faults' = faults + 1
  /\ task' = [task EXCEPT ![h] =
       CASE k.kind = "hook"   -> [k EXCEPT !.pc = "BOUND"]
         [] k.kind = "replay" /\ Flow[k.pay] = "widget"
                              -> [k EXCEPT !.pc = "PROCESSED"]
         [] k.kind = "poll" \/ (k.kind = "replay" /\ Flow[k.pay] = "push")
                              -> [k EXCEPT !.pc = "date"]
         [] OTHER             -> NoTask]
  /\ IF k.kind = "hook" /\ Flow[k.pay] = "widget" /\ k.was \in InFlight
          /\ k.ref = NoTx
     THEN BindReference(k.pay, k.x) ELSE Untouched
  /\ UNCHANGED <<madeVars, clockVars, provVars, hook, buyer>>

\* Mutant of CheckDate: a window that waits for its buyer has no date.
CheckDateNever(h) ==
  /\ task[h].pc = "date"
  /\ task' = [task EXCEPT ![h] = NoTask]
  /\ UNCHANGED <<rowVars, orderVars, clockVars, provVars, noteVars, buyer,
                 faults>>

CheckDate(h) ==
  /\ task[h].pc = "date"
  /\ ExpireIfDue(task[h].pay)
  /\ task' = [task EXCEPT ![h] = IF task[h].kind = "replay"
                                 THEN [task[h] EXCEPT !.pc = "PROCESSED"]
                                 ELSE NoTask]
  /\ UNCHANGED <<madeVars, clockVars, provVars, hook, buyer, faults>>

WriteRow(h) ==
  /\ task[h].pc \in HookStatus
  /\ hook' = [hook EXCEPT ![task[h].x] = task[h].pc]
  /\ task' = [task EXCEPT ![h] = NoTask]
  /\ UNCHANGED <<rowVars, clockVars, orderVars, provVars, flagged, buyer,
                 faults>>

\* The API restarts, or the task throws.
DropTask(h) ==
  /\ task[h].pc # "idle" /\ faults < MaxFaults
  /\ faults' = faults + 1
  /\ task' = [task EXCEPT ![h] = NoTask]
  /\ UNCHANGED <<rowVars, clockVars, orderVars, provVars, noteVars, buyer>>
-----------------------------------------------------------------------------
Going(h) == Answer(h) \/ Apply(h) \/ CheckDate(h) \/ WriteRow(h)

Reading(h) ==
  \/ \E p \in Payment : PollStart(h, p) \/ (\E x \in Tx : PageStart(h, p, x))
  \/ \E x \in Tx : HookStart(h, x) \/ ReplayStart(h, x)
  \/ Going(h) \/ Unanswered(h) \/ DropTask(h)

Next ==
  \/ \E b \in Buyer : Initiating(b)
  \/ \E h \in Handler : Reading(h)
  \/ \E x \in Tx : HookOrphan(x)
  \/ Outside

Spec == Init /\ [][Next]_vars

\* Time passes, a request ends, a reading goes through; the cron
\* comes back every minute, whatever the pages are reading meanwhile (strong
\* fairness: here it shares its tasks with them).
Polling(p) == \E h \in Handler : PollStart(h, p)

FairSpec ==
  /\ Spec
  /\ WF_vars(OrderLapses)
  /\ \A p \in Payment : WF_vars(PaymentLapses(p)) /\ SF_vars(Polling(p))
  /\ \A h \in Handler : WF_vars(Going(h))
  /\ \A b \in Buyer : WF_vars(Proceeding(b))
-----------------------------------------------------------------------------
(* Properties *)

BuyerState ==
  [pc : {"idle", "replace", "count", "create", "call", "write"},
   flow : {"widget", "push"}, pay : Payment \cup {NoPayment},
   rank : 0..Cardinality(Payment), answer : {"NONE", "PENDING", "FAILED"},
   ref : Tx \cup {NoTx}]

TaskState ==
  [pc : {"idle", "asked", "answered", "date"} \cup HookStatus,
   kind : {"page", "hook", "replay", "poll"},
   pay : Payment \cup {NoPayment}, x : Tx \cup {NoTx},
   was : PaymentStatus \cup {"NONE"}, ref : Tx \cup {NoTx},
   answer : TxStatus \cup {"NONE"}]

RowType ==
  /\ status \in [Payment -> PaymentStatus \cup {"NONE"}]
  /\ ref \in [Payment -> Tx \cup {NoTx}]
  /\ gen \in [Payment -> 0..Cardinality(Payment)]
  /\ dated \subseteq Payment /\ due \subseteq dated /\ shown \subseteq Payment

OrderType ==
  /\ order \in {"AWAITING_PAYMENT", "PAID", "EXPIRED"} /\ late \in BOOLEAN
  /\ credits \in Nat /\ settledBy \in Tx \cup {NoTx}

ProviderType ==
  /\ tx \in [Tx -> TxStatus \cup {"NONE"}]
  /\ payOf \in [Tx -> Payment \cup {NoPayment}]
  /\ hook \in [Tx -> HookStatus \cup {"NONE"}]
  /\ flagged \subseteq Tx

LocalType ==
  /\ buyer \in [Buyer -> BuyerState]
  /\ task \in [Handler -> TaskState]
  /\ faults \in 0..MaxFaults

\* What a request or a task works on, along its way.
LocalInv ==
  /\ \A b \in Buyer : buyer[b].pc \in {"replace", "call", "write"}
       => buyer[b].pay \in Payment
  /\ \A b \in Buyer : buyer[b].pc = "write"
       => buyer[b].answer \in {"PENDING", "FAILED"}
  /\ \A h \in Handler : task[h].pc # "idle"
       => /\ task[h].pay \in Payment
          /\ task[h].pc # "date" \/ task[h].kind = "replay" => task[h].x \in Tx

\* Every variable has its type, and the local state of a request or of a task
\* is the one of its point in the code.
TypeOK == RowType /\ OrderType /\ ProviderType /\ LocalType /\ LocalInv

\* However the page, the notifications, the polls and the retries interleave,
\* the order is settled at most once, and it is paid exactly when it has been.
CreditedOnce == credits = IF order = "PAID" THEN 1 ELSE 0

\* A payment only ever carries the reference of a transaction made for it, and
\* only such a transaction settles the order: the page cannot lend it another.
OwnTransactions ==
  /\ \A p \in Payment : ref[p] # NoTx => payOf[ref[p]] = p
  /\ settledBy # NoTx => payOf[settledBy] \in Payment

\* What is asked back from the provider as money in excess is never the
\* transaction that settled the order.  Two requests break it: the answer to the
\* first reopens the row of a window that the second has shown, and was paid.
NoFalseFlag == settledBy \notin flagged

\* One demand at a time: an order has at most one payment in flight.  Two
\* requests break it: the answer to the first revives what the second replaced.
OneOpen == \A p, q \in Payment : Pending(p) /\ Pending(q) => p = q

\* A row closed by a success is not written again: neither its status nor the
\* reference of the transaction that settled it.  Two readers break it.
SettledRowFixed ==
  [][\A p \in Payment : status[p] = "SUCCEEDED"
       => status'[p] = "SUCCEEDED" /\ ref'[p] = ref[p]]_vars

\* A payment that is over can only become a late success.  Two requests break it.
ClosedOnlySucceeds ==
  [][\A p \in Payment : Closed(p)
       => status'[p] \in {status[p], "SUCCEEDED"}]_vars

\* A notification of money paid in a window is closed only when that money is
\* accounted for: its transaction settled its payment, or it was recorded as an
\* excess.  That of a push may be closed by the replay of a payment that is
\* over, while the handler that received it is still at work.  Two readers break it.
Accounted(x) ==
  \/ x \in flagged
  \/ \E p \in Payment : status[p] = "SUCCEEDED" /\ ref[p] = x

NotifiedMoneyAccounted ==
  \A x \in Tx \ Underpaid :
    /\ payOf[x] \in Widgets /\ tx[x] = "SUCCEEDED"
    /\ hook[x] \in {"PROCESSED", "IGNORED"}
    => Accounted(x)

\* A notification that could not be verified leaves the payment, while it is
\* open, with the reference that the reconciliation will read.
UnverifiedIsReread ==
  \A x \in Tx : hook[x] = "BOUND" /\ Pending(payOf[x]) => ref[payOf[x]] = x

TxLinked == \A x \in Tx : payOf[x] = NoPayment <=> tx[x] = "NONE"
RefLinked == \A p \in Payment : ref[p] # NoTx => payOf[ref[p]] = p
AnswerLinked ==
  \A b \in Buyer : buyer[b].pc = "write" /\ buyer[b].ref # NoTx
    => payOf[buyer[b].ref] = buyer[b].pay
ReadingLinked ==
  \A h \in Handler : task[h].pc \in {"asked", "answered"}
      /\ (task[h].kind = "hook" \/ task[h].pay \notin Widgets)
    => payOf[task[h].x] = task[h].pay

\* The links of transactions to payments: in the rows, in the answers not yet
\* written, in the readings under way.
LinkInv == TxLinked /\ RefLinked /\ AnswerLinked /\ ReadingLinked

LearntIsTaken ==
  \A h \in Handler : task[h].pc = "answered" /\ task[h].answer = "SUCCEEDED"
    => tx[task[h].x] = "SUCCEEDED"
WindowMayDiffer == \A x \in Underpaid : payOf[x] \in Widgets \cup {NoPayment}
PaidByMoney ==
  /\ order = "PAID" <=> settledBy # NoTx
  /\ settledBy # NoTx
       => settledBy \in Tx \ Underpaid /\ tx[settledBy] = "SUCCEEDED"

\* A success is only ever learnt from money taken, only the window lets the
\* buyer pay another amount, and the order is paid with the amount due.
MoneyInv == LearntIsTaken /\ WindowMayDiffer /\ PaidByMoney

\* Money collected, exactly and by the buyer of this order, is what settles
\* it, once: the abstract purchase.
Collected == {x \in Tx \ Underpaid : tx[x] = "SUCCEEDED"}
Deal == INSTANCE Purchase WITH collected <- Collected
DealSpec == Deal!Spec

\* A payment whose initiation was recorded does not stay open for ever, except
\* one whose request the provider cancelled, which the polls cannot close.
DatedIsDecided ==
  \A p \in Payment :
    p \in dated /\ Pending(p)
      ~> ~Pending(p) \/ (ref[p] # NoTx /\ tx[ref[p]] = "CANCELLED")

\* A payment is abandoned once its time is over.
DueIsDecided ==
  \A p \in Payment : p \in due /\ Pending(p) ~> ~Pending(p)

\* A payment without an answer from the provider is decided in the end.
InitiatedIsDecided ==
  \A p \in Payment : status[p] = "INITIATED" ~> status[p] # "INITIATED"
=============================================================================
