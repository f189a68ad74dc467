------------------------------ MODULE Checkout ------------------------------
(***************************************************************************)
(* Orders, stock and ticket issue of the API (modules orders/, tickets/,   *)
(* the settlement written by payments/).                                   *)
(*                                                                         *)
(* Every HTTP request runs as a process whose reads made outside its       *)
(* transaction, or without a lock inside it, are remembered in req[r] and  *)
(* used later.  The transactions run at READ COMMITTED: what follows the   *)
(* first row lock is one atomic step, unlocked reads before it are steps   *)
(* of their own.  A step that would break the CHECK constraint of          *)
(* ticket_type is rolled back, so it is not taken.                         *)
(***************************************************************************)
EXTENDS Integers, FiniteSets

CONSTANTS
  Order,        \* orders that may be created
  TicketType,   \* ticket categories of one event
  Place,        \* the places asked for: one element per seat of an order line
  OrderOf,      \* [Place -> Order]
  TypeOf,       \* [Place -> TicketType]
  Free,         \* orders whose total amount is zero
  Request,      \* concurrent HTTP requests
  Totals,       \* the quotas an organiser may set
  MaxAborts     \* bound on interrupted sweeps

ASSUME PlaceAssumption ==
  /\ IsFiniteSet(Place)
  /\ OrderOf \in [Place -> Order]
  /\ TypeOf \in [Place -> TicketType]
  /\ \A o \in Order : \E p \in Place : OrderOf[p] = o
ASSUME FreeAssumption == Free \subseteq Order
ASSUME BoundAssumption == Totals \subseteq Nat /\ MaxAborts \in Nat

NoOrder == "no order"

ASSUME NoOrderAssumption == NoOrder \notin Order

OrderStatus == {"NONE", "DRAFT", "AWAITING_PAYMENT", "PAID", "EXPIRED",
                "CANCELLED"}

Ops == {"idle", "confirm", "cancel", "release", "withdraw"}

VARIABLES
  total, sold, reserved,  \* counters of each ticket_type row
  onSale,     \* categories whose status is ON_SALE
  active,     \* stock_reservation rows not released: <<order, category>>
  status,     \* status of each order row, "NONE" before it exists
  lapsed,     \* orders whose thirty minutes are over
  undated,    \* orders whose expiresAt is NULL
  attempted,  \* orders with a payment row
  settled,    \* orders with a SUCCEEDED payment row
  revenue,    \* number of SALE entries in the ledger, per order
  tickets,    \* places whose ticket row exists
  req,        \* local state of each request
  sweep       \* local state of the expiry sweep

stockVars  == <<total, sold, reserved, onSale, active>>
orderVars  == <<status, lapsed, undated>>
moneyVars  == <<attempted, settled, revenue>>
vars == <<total, sold, reserved, onSale, active, status, lapsed, undated,
          attempted, settled, revenue, tickets, req, sweep>>

PlacesFor(o, t) == {p \in Place : OrderOf[p] = o /\ TypeOf[p] = t}
PlacesOf(o) == {p \in Place : OrderOf[p] = o}
Qty(o, t) == Cardinality(PlacesFor(o, t))
Lines(o) == {TypeOf[p] : p \in PlacesOf(o)}

\* The categories of the order's reservations not yet released.
Held(o) == {t \in TicketType : <<o, t>> \in active}

\* A counter with the quantities of order o added on the categories of L.
Plus(f, o, L) ==
  [t \in TicketType |-> IF t \in L THEN f[t] + Qty(o, t) ELSE f[t]]
Minus(f, o, L) ==
  [t \in TicketType |-> IF t \in L THEN f[t] - Qty(o, t) ELSE f[t]]

\* The CHECK constraints of the ticket_type table, deferred to no one.
Fits(c, s, r) ==
  \A t \in TicketType : s[t] >= 0 /\ r[t] >= 0 /\ s[t] + r[t] <= c[t]

Idle == [op |-> "idle", order |-> NoOrder, seen |-> {}]
Call(op, o, seen) == [op |-> op, order |-> o, seen |-> seen]

SweepIdle == [running |-> FALSE, todo |-> {}, order |-> NoOrder, seen |-> {},
              aborts |-> 0]

Init ==
  /\ total \in [TicketType -> Totals]
  /\ sold = [t \in TicketType |-> 0]
  /\ reserved = [t \in TicketType |-> 0]
  /\ onSale = TicketType
  /\ active = {}
  /\ status = [o \in Order |-> "NONE"]
  /\ lapsed = {}
  /\ undated = {}
  /\ attempted = {}
  /\ settled = {}
  /\ revenue = [o \in Order |-> 0]
  /\ tickets = {}
  /\ req = [r \in Request |-> Idle]
  /\ sweep = SweepIdle
-----------------------------------------------------------------------------
(* Stock *)

\* StockService.lockAndVerify: on sale, and enough places left.
LockAndVerify(o) ==
  \A t \in Lines(o) :
    t \in onSale /\ total[t] - sold[t] - reserved[t] >= Qty(o, t)

\* Mutant of StockConfirm: the places are sold but stay reserved.
StockConfirmKeepsReserved(o) ==
  /\ sold' = Plus(sold, o, Held(o))
  /\ active' = active \ ({o} \X TicketType)
  /\ UNCHANGED reserved

\* StockService.confirm: the reserved places become sold ones.
StockConfirm(o) ==
  /\ sold' = Plus(sold, o, Held(o))
  /\ reserved' = Minus(reserved, o, Held(o))
  /\ active' = active \ ({o} \X TicketType)

\* The late path of secureForPayment: places taken again, reservation gone.
StockTakeLate(o) ==
  /\ LockAndVerify(o)
  /\ sold' = Plus(sold, o, Lines(o))
  /\ UNCHANGED <<reserved, active>>

\* Mutant of StockSecure: a late payment is honoured without taking places.
StockSecureNoLatePath(o) == StockConfirm(o)

StockSecure(o) ==
  IF Held(o) # {} THEN StockConfirm(o) ELSE StockTakeLate(o)

\* The late path finds the places resold or withdrawn.
Unavailable(o) == Held(o) = {} /\ ~LockAndVerify(o)

\* StockService.release, the reservations having been read as `seen`.
StockRelease(o, seen) ==
  /\ reserved' = Minus(reserved, o, seen)
  /\ active' = active \ ({o} \X TicketType)
  /\ UNCHANGED sold

ChecksHold == Fits(total', sold', reserved')
-----------------------------------------------------------------------------
(* Orders *)

\* OrdersService.create: one transaction under the lock of the categories.
Create(o) ==
  /\ status[o] = "NONE"
  /\ LockAndVerify(o)
  /\ reserved' = Plus(reserved, o, Lines(o))
  /\ active' = active \cup ({o} \X Lines(o))
  /\ status' = [status EXCEPT ![o] = "DRAFT"]
  /\ UNCHANGED <<total, sold, onSale, lapsed, undated, req, sweep>>
  /\ UNCHANGED <<moneyVars, tickets>>

\* Thirty minutes go by.
Lapse(o) ==
  /\ status[o] # "NONE" /\ o \notin lapsed
  /\ lapsed' = lapsed \cup {o}
  /\ UNCHANGED <<stockVars, status, undated, moneyVars, tickets, req, sweep>>

Begin(r, op, o, seen) ==
  /\ req[r] = Idle
  /\ req' = [req EXCEPT ![r] = Call(op, o, seen)]
  /\ UNCHANGED <<stockVars, orderVars, moneyVars, tickets, sweep>>

End(r) == req' = [req EXCEPT ![r] = Idle]

\* OrdersService.requireOpenOrder, read before the transaction of confirm.
ConfirmRead(r, o) ==
  /\ status[o] \notin {"NONE", "PAID", "EXPIRED", "CANCELLED"}
  /\ o \in undated \/ o \notin lapsed
  /\ Begin(r, "confirm", o, {})

\* OrdersService.markPaid, inside the transaction that settles the order.
MarkPaid(o) ==
  /\ StockSecure(o)
  /\ status' = [status EXCEPT ![o] = "PAID"]
  /\ undated' = undated \cup {o}
  /\ tickets' = tickets \cup PlacesOf(o)
  /\ revenue' = IF o \in Free THEN revenue
                ELSE [revenue EXCEPT ![o] = @ + 1]
  /\ UNCHANGED <<total, onSale, lapsed>>

\* The transaction of confirm for a priced order: the status is written
\* whatever it has become since it was read.
ConfirmWrite(r) ==
  LET o == req[r].order IN
  /\ req[r].op = "confirm" /\ o \notin Free
  /\ status' = [status EXCEPT ![o] = "AWAITING_PAYMENT"]
  /\ End(r)
  /\ UNCHANGED <<stockVars, lapsed, undated, moneyVars, tickets, sweep>>

\* A free order is settled by its confirmation; it is rolled back when the
\* places are gone.
ConfirmFree(r) ==
  LET o == req[r].order IN
  /\ req[r].op = "confirm" /\ o \in Free
  /\ MarkPaid(o) /\ ChecksHold
  /\ End(r)
  /\ UNCHANGED <<attempted, settled, sweep>>

\* OrdersService.cancel reads the order, then its reservations, then writes.
CancelRead(r, o) ==
  /\ status[o] \notin {"NONE", "PAID", "CANCELLED", "EXPIRED"}
  /\ Begin(r, "cancel", o, {})

CancelReadStock(r) ==
  /\ req[r].op = "cancel"
  /\ req' = [req EXCEPT ![r] = Call("release", @.order, Held(@.order))]
  /\ UNCHANGED <<stockVars, orderVars, moneyVars, tickets, sweep>>

CancelWrite(r) ==
  LET o == req[r].order IN
  /\ req[r].op = "release"
  /\ StockRelease(o, req[r].seen) /\ UNCHANGED <<total, onSale>> /\ ChecksHold
  /\ status' = [status EXCEPT ![o] = "CANCELLED"]
  /\ End(r)
  /\ UNCHANGED <<lapsed, undated, moneyVars, tickets, sweep>>

\* The request stops: its connection is lost, its transaction is rolled back
\* (constraint, deadlock victim, unavailable places) or the API restarts.
Drop(r) ==
  /\ req[r] # Idle
  /\ End(r)
  /\ UNCHANGED <<stockVars, orderVars, moneyVars, tickets, sweep>>
-----------------------------------------------------------------------------
(* The sweep of the minute cron: one at a time, under an advisory lock *)

\* Mutant of SweepStart: only orders still in the cart are looked at.
SweepStartDraftOnly ==
  LET due == {o \in lapsed : Held(o) # {} /\ status[o] = "DRAFT"} IN
  /\ ~sweep.running /\ due # {}
  /\ sweep' = [sweep EXCEPT !.running = TRUE, !.todo = due]
  /\ UNCHANGED <<stockVars, orderVars, moneyVars, tickets, req>>

SweepStart ==
  LET due == {o \in lapsed : Held(o) # {}} IN
  /\ ~sweep.running /\ due # {}
  /\ sweep' = [sweep EXCEPT !.running = TRUE, !.todo = due]
  /\ UNCHANGED <<stockVars, orderVars, moneyVars, tickets, req>>

SweepRead(o) ==
  /\ sweep.running /\ sweep.order = NoOrder /\ o \in sweep.todo
  /\ sweep' = [sweep EXCEPT !.todo = @ \ {o}, !.order = o, !.seen = Held(o)]
  /\ UNCHANGED <<stockVars, orderVars, moneyVars, tickets, req>>

SweepWrite ==
  LET o == sweep.order IN
  /\ o # NoOrder
  /\ StockRelease(o, sweep.seen) /\ UNCHANGED <<total, onSale>> /\ ChecksHold
  /\ status' = IF status[o] \in {"DRAFT", "AWAITING_PAYMENT"}
               THEN [status EXCEPT ![o] = "EXPIRED"] ELSE status
  /\ sweep' = [sweep EXCEPT !.order = NoOrder, !.seen = {}]
  /\ UNCHANGED <<lapsed, undated, moneyVars, tickets, req>>

\* The constraint refuses the release: the exception ends the whole pass.
SweepRefused ==
  /\ sweep.order # NoOrder
  /\ ~Fits(total, sold, Minus(reserved, sweep.order, sweep.seen))
  /\ sweep' = [SweepIdle EXCEPT !.aborts = sweep.aborts]
  /\ UNCHANGED <<stockVars, orderVars, moneyVars, tickets, req>>

SweepEnd ==
  /\ sweep.running /\ sweep.order = NoOrder /\ sweep.todo = {}
  /\ sweep' = [SweepIdle EXCEPT !.aborts = sweep.aborts]
  /\ UNCHANGED <<stockVars, orderVars, moneyVars, tickets, req>>

\* The pass is cut short: deadlock victim, or restart of the API.
SweepAbort ==
  /\ sweep.running /\ sweep.aborts < MaxAborts
  /\ sweep' = [SweepIdle EXCEPT !.aborts = sweep.aborts + 1]
  /\ UNCHANGED <<stockVars, orderVars, moneyVars, tickets, req>>
-----------------------------------------------------------------------------
(* Payments and the organiser *)

\* Mutant of InitiatePayment: a payment of zero is accepted.
InitiatePaymentOfZero(o) ==
  /\ status[o] = "AWAITING_PAYMENT" \/ o \in Free
  /\ status[o] # "NONE" /\ o \notin attempted
  /\ attempted' = attempted \cup {o}
  /\ UNCHANGED <<stockVars, orderVars, settled, revenue, tickets, req, sweep>>

\* PaymentsService.initiate creates a payment row; a zero amount cannot.
InitiatePayment(o) ==
  /\ status[o] = "AWAITING_PAYMENT" /\ o \notin Free \cup attempted
  /\ o \in undated \/ o \notin lapsed
  /\ attempted' = attempted \cup {o}
  /\ UNCHANGED <<stockVars, orderVars, settled, revenue, tickets,
                 req, sweep>>

\* Mutant of CanSettle: only the order's status is looked at, not the other
\* successful payments.
CanSettleByStatusOnly(o) == o \in attempted /\ status[o] # "PAID"

\* What applyOutcome checks under the locks of the payment and of the order
\* before a success is written: no other success, an order not yet settled.
CanSettle(o) ==
  /\ o \in attempted \ settled
  /\ status[o] # "PAID"

SettlePaid(o) ==
  /\ CanSettle(o)
  /\ MarkPaid(o) /\ ChecksHold
  /\ settled' = settled \cup {o}
  /\ UNCHANGED <<attempted, req, sweep>>

\* The money is there, the places are not: only the payment is written.
SettleUnfulfillable(o) ==
  /\ CanSettle(o)
  /\ Unavailable(o)
  /\ settled' = settled \cup {o}
  /\ UNCHANGED <<stockVars, orderVars, attempted, revenue, tickets,
                 req, sweep>>

\* Mutant of UpdateTotal: the quota may drop below what is sold.
UpdateTotalUnchecked(t, n) ==
  /\ n # total[t]
  /\ total' = [total EXCEPT ![t] = n]
  /\ UNCHANGED <<sold, reserved, onSale, active, orderVars, moneyVars,
                 tickets, req, sweep>>

\* EventsService.updateTicketType: its own check reads without a lock, the
\* constraint decides.
UpdateTotal(t, n) ==
  /\ n # total[t]
  /\ total' = [total EXCEPT ![t] = n]
  /\ Fits(total', sold, reserved)
  /\ UNCHANGED <<sold, reserved, onSale, active, orderVars, moneyVars,
                 tickets, req, sweep>>

\* EventsService.unpublish: nothing sold when it looked.
WithdrawRead(r) ==
  /\ onSale # {} /\ \A t \in TicketType : sold[t] = 0
  /\ Begin(r, "withdraw", NoOrder, {})

WithdrawWrite(r) ==
  /\ req[r].op = "withdraw"
  /\ onSale' = {}
  /\ End(r)
  /\ UNCHANGED <<total, sold, reserved, active, orderVars, moneyVars,
                 tickets, sweep>>

Publish ==
  /\ onSale # TicketType
  /\ onSale' = TicketType
  /\ UNCHANGED <<total, sold, reserved, active, orderVars, moneyVars,
                 tickets, req, sweep>>
-----------------------------------------------------------------------------
Buying(o) ==
  \/ Create(o) \/ Lapse(o) \/ InitiatePayment(o)
  \/ SettlePaid(o) \/ SettleUnfulfillable(o)

Handling(r) ==
  \/ \E o \in Order : ConfirmRead(r, o) \/ CancelRead(r, o)
  \/ ConfirmWrite(r) \/ ConfirmFree(r)
  \/ CancelReadStock(r) \/ CancelWrite(r)
  \/ WithdrawRead(r) \/ WithdrawWrite(r)
  \/ Drop(r)

Sweeping ==
  \/ SweepStart \/ (\E o \in Order : SweepRead(o))
  \/ SweepWrite \/ SweepRefused \/ SweepEnd

Next ==
  \/ \E o \in Order : Buying(o)
  \/ \E r \in Request : Handling(r)
  \/ Sweeping \/ SweepAbort
  \/ \E t \in TicketType, n \in Totals : UpdateTotal(t, n)
  \/ Publish

Spec == Init /\ [][Next]_vars

\* The cron starts the sweep every minute and runs it to its end.
FairSpec == Spec /\ WF_vars(Sweeping)
-----------------------------------------------------------------------------
TicketsOf(t) == {p \in tickets : TypeOf[p] = t}
Ticketed(o) == PlacesOf(o) \cap tickets # {}
ActivePlaces(t) == {p \in Place : TypeOf[p] = t /\ <<OrderOf[p], t>> \in active}
HeldPlaces(t) == Cardinality(ActivePlaces(t))

\* The value every variable may take.
TypeOK ==
  /\ total \in [TicketType -> Nat]
  /\ sold \in [TicketType -> Int]
  /\ reserved \in [TicketType -> Int]
  /\ onSale \subseteq TicketType
  /\ active \subseteq Order \X TicketType
  /\ status \in [Order -> OrderStatus]
  /\ lapsed \subseteq Order
  /\ undated \subseteq Order
  /\ attempted \subseteq Order \ Free
  /\ settled \subseteq attempted
  /\ revenue \in [Order -> Nat]
  /\ tickets \subseteq Place
  /\ req \in [Request -> [op : Ops, order : Order \cup {NoOrder},
                          seen : SUBSET TicketType]]
  /\ sweep \in [running : BOOLEAN, todo : SUBSET Order,
                order : Order \cup {NoOrder}, seen : SUBSET TicketType,
                aborts : Nat]

\* Two people never receive the same place: whatever the interleaving of
\* purchases, expiries, late payments and cancellations, a category never has
\* more tickets than places (StockService, TicketsService.issueForOrder).
NoOversell ==
  \A t \in TicketType : Cardinality(TicketsOf(t)) <= total[t]

\* The reserved counter never exceeds the reservations still held: no place
\* is kept from sale for nobody (StockService.confirm and release).
NoPhantomReservation ==
  \A t \in TicketType : reserved[t] <= HeldPlaces(t)

\* What makes NoOversell inductive: the counters fit their quota, an order
\* holds all of its categories or none, and every ticket of a category has
\* been counted sold (StockService.secureForPayment, whichever path it took).
StockInv ==
  /\ Fits(total, sold, reserved)
  /\ \A o \in Order : Held(o) \in {{}, Lines(o)}
  /\ \A t \in TicketType : Cardinality(TicketsOf(t)) <= sold[t]

\* What makes NoPhantomReservation inductive: a release in flight, of a request
\* or of the sweep, has seen every reservation its order still holds, because
\* an order reserves once, when it is created (OrdersService.create).
Releasing(r) == req[r].op \in {"cancel", "release"}

FreshOrders ==
  \A o \in Order : status[o] = "NONE" =>
    /\ Held(o) = {} /\ o \notin lapsed
    /\ o \notin sweep.todo /\ o # sweep.order
    /\ \A r \in Request : Releasing(r) => req[r].order # o

ReleasesSawAll ==
  /\ \A r \in Request :
       req[r].op = "release" => Held(req[r].order) \subseteq req[r].seen
  /\ Held(sweep.order) \subseteq sweep.seen

HoldInv == FreshOrders /\ ReleasesSawAll /\ NoPhantomReservation

\* An order is served whole or not at all, only once its money is there or it
\* is free, and is credited to the organiser exactly once, whichever requests
\* overwrote its status since (OrdersService.markPaid).
ServedOnceWhenPaid ==
  \A o \in Order :
    /\ Ticketed(o) => PlacesOf(o) \subseteq tickets
    /\ Ticketed(o) => o \in settled \cup Free
    /\ revenue[o] = IF Ticketed(o) /\ o \notin Free THEN 1 ELSE 0

\* Checkout implements the ticket office of SeatSale.
Holders == {o \in Order : Ticketed(o)}
Office == INSTANCE SeatSale
  WITH charged <- settled, holders <- Holders, capacity <- total
OfficeSpec == Office!Spec
-----------------------------------------------------------------------------
\* docs/DATABASE_PROPOSAL.md: quantityReserved counts the reservations in
\* progress.
ReservedCountsActive == \A t \in TicketType : reserved[t] = HeldPlaces(t)

\* OrdersService.cancel, "Annule une commande non payee et libere ses places":
\* it never cancels an order whose payment went through.
CancelsUnpaidOnly ==
  [][\A o \in Order : status[o] = "PAID" => status'[o] # "CANCELLED"]_status

\* OrdersService.requireOpenOrder: an order that expired or was cancelled is
\* not reopened by its confirmation.
ClosedStaysClosed ==
  [][\A o \in Order : status[o] \in {"EXPIRED", "CANCELLED"}
        => status'[o] # "AWAITING_PAYMENT"]_status

\* OrdersService.confirm, "tout est annule": the race of two confirmations of
\* a free order takes its places once.
SoldCountsTickets ==
  \A t \in TicketType : sold[t] = Cardinality(TicketsOf(t))

\* The sweep gives back the places of a lapsed order, unless the counter of
\* one of the categories has drifted from its reservations (the refusal of
\* the constraint then ends every pass).
Drifted == \E t \in TicketType : reserved[t] # HeldPlaces(t)

LapsedReleasedUnlessDrift ==
  \A o \in Order : (o \in lapsed /\ Held(o) # {}) ~> (Held(o) = {} \/ Drifted)

\* StockService.releaseExpired, "un panier abandonne retiendrait des places
\* indefiniment": the places of a lapsed order come back.
LapsedIsReleased ==
  \A o \in Order : (o \in lapsed /\ Held(o) # {}) ~> (Held(o) = {})
=============================================================================
