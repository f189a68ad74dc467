------------------------------- MODULE Ledger -------------------------------
(***************************************************************************)
(* The ledger of one organisation (modules finance/ledger, with what       *)
(* payouts, refunds, verifications and moderation write in it).            *)
(*                                                                         *)
(* Entries are only ever added, and a balance is a sum of them.  What a    *)
(* balance tells apart is the pocket of an entry: AVAILABLE, PENDING       *)
(* without a date, or PENDING until a date; the model keeps the sum of     *)
(* each.  Time frees a dated pocket by itself.  An organisation has two    *)
(* tiers, since nothing in the code counts completed events: not verified, *)
(* and verified, freed two days after the end of the event.                *)
(***************************************************************************)
EXTENDS Integers, FiniteSets, Functions

CONSTANTS
  Order, Event, EventOf,   \* the orders that may be paid, and their events
  Gross, Platform, Operator, BuyerFee,
              \* [Order -> Nat]: what is paid, and in it the commission, the
              \* fee of the payment provider, and what the buyer pays of them
  Requester,  \* concurrent requests of a payout
  Officer,    \* concurrent decisions to freeze or unfreeze
  MinPayout,  \* least amount of a payout
  Horizon,    \* dates are 1..Horizon
  MaxEdits    \* bound on the freezes, unfreezes and changes of date

ASSUME AmountAssumption ==
  /\ EventOf \in [Order -> Event]
  /\ {Gross, Platform, Operator, BuyerFee} \subseteq [Order -> Nat]
  /\ \A o \in Order : /\ Platform[o] + Operator[o] < Gross[o]
                      /\ BuyerFee[o] < Gross[o]
ASSUME FiniteAssumption ==
  IsFiniteSet(Order) /\ IsFiniteSet(Event) /\ IsFiniteSet(Requester)
ASSUME BoundsAssumption == MinPayout \in Nat \ {0} /\ Horizon \in Nat
                            /\ MaxEdits \in Nat

Date == 1..Horizon
\* Pockets of a sale: its date, none, or no sale yet.
Undated == 0
NoSale == -1
Pocket == {NoSale, Undated} \cup Date

VARIABLES
  verified,   \* the organisation is verified
  now,        \* dates that have passed are those up to now
  date,       \* when each event's money is due: two days after its end
  earliest,   \* the earliest such date each event ever had
  free,       \* sum of the AVAILABLE entries
  undated,    \* sums of the PENDING entries without a date, by event
  dated,      \* sums of the PENDING entries with a date, by date
  escrow,     \* sum of the undated adjustments that a freeze writes
  reading,    \* pocket that each settlement under way has read
  sale,       \* pocket of each SALE entry
  given,      \* sum of the refunds of each order
  restored,   \* orders whose commission was given back
  withdrawn,  \* sum of the payouts that did not fail
  request,    \* what each request of a payout read, or debited
  office,     \* what each officer decided from what was read
  edits       \* freezes, unfreezes and changes of date so far

pockets == <<free, undated, dated, escrow>>
orders == <<reading, sale, given, restored>>
vars == <<verified, now, date, earliest, pockets, orders, withdrawn,
          request, office, edits>>

Resting == [pc |-> "idle", amount |-> 0]

Init ==
  /\ verified = FALSE
  /\ now = 0
  /\ date \in [Event -> Date] /\ earliest = date
  /\ free = 0 /\ escrow = 0
  /\ undated = [e \in Event |-> 0] /\ dated = [d \in Date |-> 0]
  /\ reading = [o \in Order |-> NoSale] /\ sale = reading
  /\ given = [o \in Order |-> 0] /\ restored = {}
  /\ withdrawn = 0
  /\ request = [r \in Requester |-> Resting]
  /\ office = [k \in Officer |-> Resting]
  /\ edits = 0
-----------------------------------------------------------------------------
(* Pockets and balances *)

Net(o) == Gross[o] - Platform[o] - Operator[o]

Post(pocket, e, amount) ==
  /\ undated' = IF pocket = Undated THEN [undated EXCEPT ![e] = @ + amount]
                                    ELSE undated
  /\ dated' = IF pocket \in Date THEN [dated EXCEPT ![pocket] = @ + amount]
                                 ELSE dated

Passed(d) == d <= now

\* Mutant of Available: what is dated is free before its date.
AvailableEarly == free + SumFunctionOnSet(dated, Date)

\* balance(): a dated entry counts as available once its date has passed.
Available == free + SumFunctionOnSet(dated, {d \in Date : Passed(d)})

Total ==
  free + escrow + SumFunctionOnSet(dated, Date) + SumFunctionOnSet(undated, Event)
-----------------------------------------------------------------------------
(* Sales, verification and refunds *)

\* resolveHoldTier and planRelease: all is held, by date once verified.
PocketOf(o) == IF verified THEN date[EventOf[o]] ELSE Undated

\* The settlement reads the organisation's verification and the event's end,
SaleRead(o) ==
  /\ reading[o] = NoSale
  /\ reading' = [reading EXCEPT ![o] = PocketOf(o)]
  /\ UNCHANGED <<verified, now, date, earliest, pockets, sale, given, restored,
                 withdrawn, request, office, edits>>

\* and recordSale writes the sale, its commission and its provider fee.
SaleWrite(o) ==
  /\ reading[o] # NoSale /\ sale[o] = NoSale
  /\ sale' = [sale EXCEPT ![o] = reading[o]]
  /\ Post(reading[o], EventOf[o], Net(o))
  /\ UNCHANGED <<verified, now, date, earliest, free, escrow, reading, given,
                 restored, withdrawn, request, office, edits>>

\* Mutant of Replanned: what was undated is dated, and kept undated as well.
ReplannedTwice(e) == undated[e]

\* What the release of an event leaves undated: a debt stays where it is.
Replanned(e) == IF undated[e] > 0 THEN 0 ELSE undated[e]

\* review() approves, and releaseUnverifiedHolds dates in one transaction what
\* was held; the lock of the request makes a second approval find nothing.
Verify ==
  LET moved(d) == {e \in Event : date[e] = d /\ undated[e] > 0} IN
  /\ ~verified
  /\ verified' = TRUE
  /\ undated' = [e \in Event |-> Replanned(e)]
  /\ dated' = [d \in Date |-> dated[d] + SumFunctionOnSet(undated, moved(d))]
  /\ UNCHANGED <<now, date, earliest, free, escrow, orders, withdrawn,
                 request, office, edits>>

\* Mutant of Refundable: what was given back before is forgotten.
RefundableAnew(o, fees) == IF fees THEN Gross[o] ELSE Gross[o] - BuyerFee[o]

\* What may still be given back, with the fees or without.
Refundable(o, fees) ==
  (IF fees THEN Gross[o] ELSE Gross[o] - BuyerFee[o]) - given[o]

\* The commission is given back once, with the fees.
Restores(o, fees) == fees /\ o \notin restored

\* The ledger's side of a refund: in the pocket of the sale it undoes.
Refund(o, fees) ==
  LET back == IF Restores(o, fees) THEN Platform[o] ELSE 0 IN
  /\ sale[o] # NoSale
  /\ Refundable(o, fees) > 0
  /\ \E amount \in {1, Refundable(o, fees)} :
       /\ given' = [given EXCEPT ![o] = @ + amount]
       /\ Post(sale[o], EventOf[o], back - amount)
  /\ restored' = IF fees THEN restored \cup {o} ELSE restored
  /\ UNCHANGED <<verified, now, date, earliest, free, escrow, reading, sale,
                 withdrawn, request, office, edits>>
-----------------------------------------------------------------------------
(* Payouts *)

\* request() reads the balance and validates the amount,
RequestRead(r) ==
  /\ request[r].pc = "idle"
  /\ verified
  /\ Available >= MinPayout
  /\ \E amount \in {MinPayout, Available} :
       request' = [request EXCEPT ![r] = [pc |-> "read", amount |-> amount]]
  /\ UNCHANGED <<verified, now, date, earliest, pockets, orders, withdrawn,
                 office, edits>>

\* and debits it in a transaction that does not read it again.
RequestWrite(r) ==
  /\ request[r].pc = "read"
  /\ free' = free - request[r].amount
  /\ withdrawn' = withdrawn + request[r].amount
  /\ request' = [request EXCEPT ![r].pc = "debited"]
  /\ UNCHANGED <<verified, now, date, earliest, undated, dated, escrow, orders,
                 office, edits>>

\* The payout is paid, or fails and gives the amount back.
PayoutPaid(r) ==
  /\ request[r].pc = "debited"
  /\ request' = [request EXCEPT ![r] = Resting]
  /\ UNCHANGED <<verified, now, date, earliest, pockets, orders, withdrawn,
                 office, edits>>

PayoutFails(r) ==
  /\ request[r].pc = "debited"
  /\ free' = free + request[r].amount
  /\ withdrawn' = withdrawn - request[r].amount
  /\ request' = [request EXCEPT ![r] = Resting]
  /\ UNCHANGED <<verified, now, date, earliest, undated, dated, escrow, orders,
                 office, edits>>
-----------------------------------------------------------------------------
(* The freeze *)

Edit == edits < MaxEdits /\ edits' = edits + 1

\* freezeFunds reads the whole balance, unfreezeFunds what is frozen,
FreezeRead(k) ==
  /\ office[k].pc = "idle"
  /\ Edit
  /\ Total > 0
  /\ \E amount \in {1, Total} :
       office' = [office EXCEPT ![k] = [pc |-> "freeze", amount |-> amount]]
  /\ UNCHANGED <<verified, now, date, earliest, pockets, orders, withdrawn,
                 request>>

UnfreezeRead(k) ==
  /\ office[k].pc = "idle"
  /\ Edit
  /\ escrow > 0
  /\ \E amount \in {1, escrow} :
       office' = [office EXCEPT ![k] = [pc |-> "unfreeze", amount |-> amount]]
  /\ UNCHANGED <<verified, now, date, earliest, pockets, orders, withdrawn,
                 request>>

\* and each writes its two entries in a transaction of its own.
FreezeWrite(k) ==
  LET amount == IF office[k].pc = "freeze" THEN office[k].amount
                                           ELSE -office[k].amount IN
  /\ office[k].pc # "idle"
  /\ free' = free - amount
  /\ escrow' = escrow + amount
  /\ office' = [office EXCEPT ![k] = Resting]
  /\ UNCHANGED <<verified, now, date, earliest, undated, dated, orders,
                 withdrawn, request, edits>>
-----------------------------------------------------------------------------
(* Time *)

Tick ==
  /\ now < Horizon
  /\ now' = now + 1
  /\ UNCHANGED <<verified, date, earliest, pockets, orders, withdrawn, request,
                 office, edits>>

\* An organiser edits the dates of an event, on sale or not.
Reschedule(e) ==
  /\ \E d \in Date \ {date[e]} :
       /\ d > now
       /\ Edit
       /\ date' = [date EXCEPT ![e] = d]
       /\ earliest' = [earliest EXCEPT ![e] = IF d < @ THEN d ELSE @]
  /\ UNCHANGED <<verified, now, pockets, orders, withdrawn, request, office>>

Next ==
  \/ \E o \in Order :
       \/ SaleRead(o)
       \/ SaleWrite(o)
       \/ \E fees \in BOOLEAN : Refund(o, fees)
  \/ Verify
  \/ \E r \in Requester :
       RequestRead(r) \/ RequestWrite(r) \/ PayoutPaid(r) \/ PayoutFails(r)
  \/ \E k \in Officer : FreezeRead(k) \/ UnfreezeRead(k) \/ FreezeWrite(k)
  \/ Tick
  \/ \E e \in Event : Reschedule(e)

Spec == Init /\ [][Next]_vars
-----------------------------------------------------------------------------
\* Sums are integers, a sale keeps the pocket it was read for, and an order
\* is never given back more than was paid for it.
TypeOK ==
  /\ verified \in BOOLEAN /\ now \in 0..Horizon
  /\ date \in [Event -> Date] /\ earliest \in [Event -> Date]
  /\ free \in Int /\ escrow \in Int
  /\ undated \in [Event -> Int] /\ dated \in [Date -> Int]
  /\ reading \in [Order -> Pocket] /\ sale \in [Order -> Pocket]
  /\ \A o \in Order : sale[o] \in {NoSale, reading[o]}
  /\ given \in [Order -> Nat] /\ \A o \in Order : given[o] <= Gross[o]
  /\ restored \subseteq Order
  /\ withdrawn \in Nat
  /\ request \in [Requester -> [pc : {"idle", "read", "debited"}, amount : Nat]]
  /\ edits \in 0..MaxEdits
  /\ office \in [Officer -> [pc : {"idle", "freeze", "unfreeze"}, amount : Nat]]

Sold == {o \in Order : sale[o] # NoSale}

\* What a sale brings the organiser, and the commission given back on it: the
\* whole of it with the first refund that includes the fees, however small.
Earned ==
  [o \in Order |-> Net(o) + (IF o \in restored THEN Platform[o] ELSE 0)]
Kept == [o \in Order |-> Earned[o] - given[o]]

\* Verification, freezes and dates only move money from pocket to pocket: the
\* total is what was earned, less what was given back and withdrawn.
Conserved == Total = SumFunctionOnSet(Kept, Sold) - withdrawn

\* What was earned on the sales whose date passed by day t, as it was announced
\* at some time.
DueBy(t) ==
  SumFunctionOnSet(Earned, {o \in Sold : earliest[EventOf[o]] <= t})

\* What an organiser withdraws comes from sales whose date has passed, and
\* never precedes the verification; so one request at a time withdraws no
\* money twice.
HeldUntilDue == (~verified => withdrawn = 0) /\ withdrawn <= DueBy(now)

\* What is available is never more than what is owed in all: a refund leaves
\* what the organiser may withdraw (refunds.service.ts:77).
AvailableWithinTotal == Available <= Total

\* Nothing stays held without a date once the organisation is verified
\* (ledger.service.ts:226).
VerifiedIsDated == verified => \A e \in Event : undated[e] <= 0
=============================================================================
