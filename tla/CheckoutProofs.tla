--------------------------- MODULE CheckoutProofs ---------------------------
(***************************************************************************)
(* Proofs about Checkout, for every set of orders, categories, places and  *)
(* requests: the types of its variables, that no interleaving issues more  *)
(* tickets than there are places, and that each order is served whole,     *)
(* once and only when paid, for which reason Checkout implements the       *)
(* ticket office of SeatSale: each of its steps is a step of the office or *)
(* changes nothing the office can see.                                     *)
(***************************************************************************)
EXTENDS Checkout, FiniteSetTheorems, TLAPS

(* Places and quantities *)

LEMMA PlacesFinite ==
  ASSUME NEW S, S \subseteq Place
  PROVE  IsFiniteSet(S) /\ Cardinality(S) \in Nat
BY PlaceAssumption, FS_Subset, FS_CardinalityType

LEMMA QtyNat ==
  ASSUME NEW o, NEW t
  PROVE  Qty(o, t) \in Nat
BY PlacesFinite DEF Qty, PlacesFor

LEMMA UnionBound ==
  ASSUME NEW S, NEW T, S \subseteq Place, T \subseteq Place
  PROVE  Cardinality(S \cup T) <= Cardinality(S) + Cardinality(T)
<1>1. /\ IsFiniteSet(S) /\ IsFiniteSet(T)
      /\ Cardinality(S) \in Nat /\ Cardinality(T) \in Nat
      /\ Cardinality(S \cap T) \in Nat
  BY PlacesFinite
<1>2. Cardinality(S \cup T)
        = Cardinality(S) + Cardinality(T) - Cardinality(S \cap T)
  BY <1>1, FS_Union
<1> QED
  BY <1>1, <1>2

LEMMA NoLineNoPlace ==
  ASSUME NEW o, NEW t, t \notin Lines(o)
  PROVE  PlacesFor(o, t) = {} /\ Qty(o, t) = 0
<1>1. PlacesFor(o, t) = {}
  BY DEF PlacesFor, Lines, PlacesOf
<1> QED
  BY <1>1, FS_EmptySet DEF Qty

LEMMA PlusType ==
  ASSUME NEW f \in [TicketType -> Int], NEW o, NEW L
  PROVE  /\ Plus(f, o, L) \in [TicketType -> Int]
         /\ Minus(f, o, L) \in [TicketType -> Int]
BY QtyNat DEF Plus, Minus
-----------------------------------------------------------------------------
(* Types *)

LEMMA TypeInit == Init => TypeOK
<1> SUFFICES ASSUME Init PROVE TypeOK
  OBVIOUS
<1>1. req \in [Request -> [op : Ops, order : Order \cup {NoOrder},
                           seen : SUBSET TicketType]]
  BY DEF Init, Idle, Ops, NoOrder
<1>2. sweep \in [running : BOOLEAN, todo : SUBSET Order,
                 order : Order \cup {NoOrder}, seen : SUBSET TicketType,
                 aborts : Nat]
  BY DEF Init, SweepIdle
<1>3. total \in [TicketType -> Nat]
  BY BoundAssumption DEF Init
<1>4. status \in [Order -> OrderStatus]
  BY DEF Init, OrderStatus
<1>5. /\ sold \in [TicketType -> Int] /\ reserved \in [TicketType -> Int]
      /\ revenue \in [Order -> Nat]
  BY DEF Init
<1> QED
  BY <1>1, <1>2, <1>3, <1>4, <1>5 DEF Init, TypeOK

LEMMA StepTypes ==
  ASSUME TypeOK, [Next]_vars
  PROVE  TypeOK'
<1> USE DEF TypeOK
<1> DEFINE Local == [op : Ops, order : Order \cup {NoOrder},
                     seen : SUBSET TicketType]
<1>idle. Idle \in Local
  BY DEF Idle, Ops
<1>end. ASSUME NEW r \in Request, End(r) PROVE req' \in [Request -> Local]
  BY <1>end, <1>idle DEF End
<1>begin. ASSUME NEW r \in Request, NEW op \in Ops,
                 NEW o \in Order \cup {NoOrder}, Begin(r, op, o, {})
          PROVE  TypeOK'
  <2>1. req' \in [Request -> Local]
    BY <1>begin DEF Begin, Call
  <2> QED
    BY <1>begin, <2>1
       DEF Begin, stockVars, orderVars, moneyVars
<1>paid. ASSUME NEW o \in Order, MarkPaid(o)
         PROVE  /\ total' \in [TicketType -> Nat]
                /\ sold' \in [TicketType -> Int]
                /\ reserved' \in [TicketType -> Int]
                /\ onSale' \subseteq TicketType
                /\ active' \subseteq Order \X TicketType
                /\ status' \in [Order -> OrderStatus]
                /\ lapsed' \subseteq Order
                /\ revenue' \in [Order -> Nat]
                /\ tickets' \subseteq Place
  <2>1. /\ sold' \in [TicketType -> Int]
        /\ reserved' \in [TicketType -> Int]
        /\ active' \subseteq Order \X TicketType
    BY <1>paid, PlusType
       DEF MarkPaid, StockSecure, StockConfirm, StockTakeLate
  <2>2. status' \in [Order -> OrderStatus]
    BY <1>paid DEF MarkPaid, OrderStatus
  <2>3. revenue' \in [Order -> Nat]
    BY <1>paid DEF MarkPaid
  <2>4. tickets' \subseteq Place
    BY <1>paid DEF MarkPaid, PlacesOf
  <2> QED
    BY <1>paid, <2>1, <2>2, <2>3, <2>4 DEF MarkPaid
<1>release. ASSUME NEW o, NEW seen, StockRelease(o, seen)
            PROVE  /\ sold' \in [TicketType -> Int]
                   /\ reserved' \in [TicketType -> Int]
                   /\ active' \subseteq Order \X TicketType
  BY <1>release, PlusType DEF StockRelease
<1>1. ASSUME NEW o \in Order, Create(o) PROVE TypeOK'
  <2>1. Lines(o) \subseteq TicketType
    BY PlaceAssumption DEF Lines, PlacesOf
  <2>2. reserved' \in [TicketType -> Int]
    BY <1>1, PlusType DEF Create
  <2> QED
    BY <1>1, <2>1, <2>2 DEF Create, moneyVars, OrderStatus
<1>2. ASSUME NEW o \in Order, Lapse(o) PROVE TypeOK'
  BY <1>2 DEF Lapse, stockVars, moneyVars
<1>3. ASSUME NEW o \in Order, InitiatePayment(o) PROVE TypeOK'
  BY <1>3 DEF InitiatePayment, stockVars, orderVars
<1>4. ASSUME NEW o \in Order, SettlePaid(o) PROVE TypeOK'
  <2>1. settled' \subseteq attempted' /\ attempted' \subseteq Order \ Free
    BY <1>4 DEF SettlePaid, CanSettle
  <2>2. undated' \subseteq Order
    BY <1>4 DEF SettlePaid, MarkPaid
  <2> QED
    BY <1>4, <1>paid, <2>1, <2>2 DEF SettlePaid
<1>5. ASSUME NEW o \in Order, SettleUnfulfillable(o) PROVE TypeOK'
  BY <1>5 DEF SettleUnfulfillable, CanSettle, stockVars, orderVars
<1>6. ASSUME NEW r \in Request, NEW o \in Order,
             ConfirmRead(r, o) \/ CancelRead(r, o)
      PROVE  TypeOK'
  BY <1>6, <1>begin DEF ConfirmRead, CancelRead, Ops
<1>7. ASSUME NEW r \in Request, ConfirmWrite(r) PROVE TypeOK'
  BY <1>7, <1>end DEF ConfirmWrite, stockVars, moneyVars, OrderStatus
<1>8. ASSUME NEW r \in Request, ConfirmFree(r) PROVE TypeOK'
  <2>1. req[r].order \in Order
    BY <1>8, FreeAssumption DEF ConfirmFree
  <2>2. undated' \subseteq Order
    BY <1>8, <2>1 DEF ConfirmFree, MarkPaid
  <2> QED
    BY <1>8, <1>end, <1>paid, <2>1, <2>2 DEF ConfirmFree
<1>9. ASSUME NEW r \in Request, CancelReadStock(r) PROVE TypeOK'
  <2>1. Call("release", req[r].order, Held(req[r].order)) \in Local
    BY DEF Call, Ops, Held
  <2>2. req' \in [Request -> Local]
    BY <1>9, <2>1 DEF CancelReadStock
  <2> QED
    BY <1>9, <2>2 DEF CancelReadStock, stockVars, orderVars, moneyVars
<1>10. ASSUME NEW r \in Request, CancelWrite(r) PROVE TypeOK'
  BY <1>10, <1>end, <1>release DEF CancelWrite, moneyVars, OrderStatus
<1>11. ASSUME NEW r \in Request, WithdrawRead(r) PROVE TypeOK'
  BY <1>11, <1>begin DEF WithdrawRead, Ops
<1>12. ASSUME NEW r \in Request, WithdrawWrite(r) PROVE TypeOK'
  BY <1>12, <1>end DEF WithdrawWrite, orderVars, moneyVars
<1>13. ASSUME NEW r \in Request, Drop(r) PROVE TypeOK'
  BY <1>13, <1>end DEF Drop, stockVars, orderVars, moneyVars
<1>14. ASSUME SweepStart PROVE TypeOK'
  BY <1>14 DEF SweepStart, stockVars, orderVars, moneyVars
<1>15. ASSUME NEW o \in Order, SweepRead(o) PROVE TypeOK'
  BY <1>15 DEF SweepRead, Held, stockVars, orderVars, moneyVars
<1>16. ASSUME SweepWrite PROVE TypeOK'
  <2>1. status' \in [Order -> OrderStatus]
    BY <1>16 DEF SweepWrite, OrderStatus
  <2>2. sweep' \in [running : BOOLEAN, todo : SUBSET Order,
                    order : Order \cup {NoOrder},
                    seen : SUBSET TicketType, aborts : Nat]
    BY <1>16 DEF SweepWrite
  <2> QED
    BY <1>16, <1>release, <2>1, <2>2 DEF SweepWrite, moneyVars
<1>17. ASSUME SweepRefused \/ SweepEnd \/ SweepAbort PROVE TypeOK'
  <2>1. sweep' \in [running : BOOLEAN, todo : SUBSET Order,
                    order : Order \cup {NoOrder},
                    seen : SUBSET TicketType, aborts : Nat]
    <3>1. /\ SweepIdle \in [running : BOOLEAN, todo : SUBSET Order,
                            order : Order \cup {NoOrder},
                            seen : SUBSET TicketType, aborts : Nat]
          /\ sweep.aborts \in Nat /\ sweep.aborts + 1 \in Nat
      BY DEF SweepIdle
    <3> QED
      BY <1>17, <3>1 DEF SweepRefused, SweepEnd, SweepAbort
  <2> QED
    BY <1>17, <2>1
       DEF SweepRefused, SweepEnd, SweepAbort,
           stockVars, orderVars, moneyVars
<1>18. ASSUME NEW t \in TicketType, NEW n \in Totals, UpdateTotal(t, n)
       PROVE  TypeOK'
  BY <1>18, BoundAssumption DEF UpdateTotal, orderVars, moneyVars
<1>19. ASSUME Publish PROVE TypeOK'
  BY <1>19 DEF Publish, orderVars, moneyVars
<1>20. ASSUME UNCHANGED vars PROVE TypeOK'
  BY <1>20 DEF vars
<1> QED
  BY <1>1, <1>2, <1>3, <1>4, <1>5, <1>6, <1>7, <1>8, <1>9, <1>10, <1>11,
     <1>12, <1>13, <1>14, <1>15, <1>16, <1>17, <1>18, <1>19, <1>20
     DEF Next, Buying, Handling, Sweeping

\* Every variable of the orders, stock and requests keeps its type.
THEOREM TypeCorrect == Spec => []TypeOK
<1>1. TypeOK /\ [Next]_vars => TypeOK'
  BY StepTypes
<1> QED
  BY TypeInit, <1>1, PTL DEF Spec
-----------------------------------------------------------------------------
(* No oversell *)

\* Whichever path StockSecure takes, it sells the lines of the order.
LEMMA SecureSells ==
  ASSUME TypeOK, NEW o \in Order, Held(o) \in {{}, Lines(o)}, StockSecure(o)
  PROVE  /\ sold' = Plus(sold, o, Lines(o))
         /\ active' = active \ ({o} \X TicketType)
<1>1. CASE Held(o) # {}
  BY <1>1 DEF StockSecure, StockConfirm
<1>2. CASE Held(o) = {}
  <2>1. active = active \ ({o} \X TicketType)
    BY <1>2 DEF Held, TypeOK
  <2> QED
    BY <1>2, <2>1 DEF StockSecure, StockTakeLate
<1> QED
  BY <1>1, <1>2

\* Dropping the reservations of one order leaves each order whole or empty.
LEMMA HeldAfterDrop ==
  ASSUME TypeOK, NEW o, active' = active \ ({o} \X TicketType)
  PROVE  \A q : Held(q)' = IF q = o THEN {} ELSE Held(q)
BY DEF Held, TypeOK

\* The tickets of an order added to a category are among its places there.
LEMMA TicketsBound ==
  ASSUME TypeOK, NEW o \in Order, tickets' = tickets \cup PlacesOf(o),
         sold' = Plus(sold, o, Lines(o)), NEW t \in TicketType,
         Cardinality(TicketsOf(t)) <= sold[t]
  PROVE  Cardinality(TicketsOf(t)') <= sold'[t]
<1>1. TicketsOf(t)' = TicketsOf(t) \cup PlacesFor(o, t)
  BY DEF TicketsOf, PlacesFor, PlacesOf
<1>2. TicketsOf(t) \subseteq Place /\ PlacesFor(o, t) \subseteq Place
  BY DEF TicketsOf, PlacesFor, TypeOK
<1>3. /\ Cardinality(TicketsOf(t)) \in Nat /\ Qty(o, t) \in Nat
      /\ sold[t] \in Int /\ Cardinality(TicketsOf(t)') \in Nat
  BY <1>1, <1>2, PlacesFinite, QtyNat DEF TypeOK
<1>4. CASE t \in Lines(o)
  <2>1. Cardinality(TicketsOf(t)') <= Cardinality(TicketsOf(t)) + Qty(o, t)
    BY <1>1, <1>2, UnionBound DEF Qty
  <2>2. sold'[t] = sold[t] + Qty(o, t)
    BY <1>4 DEF Plus
  <2> QED
    BY <1>3, <2>1, <2>2
<1>5. CASE t \notin Lines(o)
  <2>1. TicketsOf(t)' = TicketsOf(t)
    BY <1>1, <1>5, NoLineNoPlace
  <2>2. sold'[t] = sold[t]
    BY <1>5 DEF Plus
  <2> QED
    BY <2>1, <2>2
<1> QED
  BY <1>4, <1>5

\* A settlement, of a free order or of a paid one, keeps StockInv.
LEMMA PaidKeepsStock ==
  ASSUME TypeOK, StockInv, NEW o \in Order, MarkPaid(o), ChecksHold
  PROVE  StockInv'
<1>1. Held(o) \in {{}, Lines(o)}
  BY DEF StockInv
<1>2. /\ sold' = Plus(sold, o, Lines(o))
      /\ active' = active \ ({o} \X TicketType)
  BY <1>1, SecureSells DEF MarkPaid
<1>3. Fits(total, sold, reserved)'
  BY DEF ChecksHold, Fits
<1>4. \A q \in Order : Held(q)' \in {{}, Lines(q)}
  BY <1>2, HeldAfterDrop DEF StockInv
<1>5. \A t \in TicketType : Cardinality(TicketsOf(t)') <= sold'[t]
  BY <1>2, TicketsBound DEF StockInv, MarkPaid
<1> QED
  BY <1>3, <1>4, <1>5 DEF StockInv, Lines, PlacesOf

\* A release keeps StockInv, whatever reservations it has seen.
LEMMA ReleaseKeepsStock ==
  ASSUME TypeOK, StockInv, NEW o, NEW seen, StockRelease(o, seen),
         UNCHANGED <<total, tickets>>, ChecksHold
  PROVE  StockInv'
<1>1. active' = active \ ({o} \X TicketType)
  BY DEF StockRelease
<1>2. \A q \in Order : Held(q)' \in {{}, Lines(q)}
  BY <1>1, HeldAfterDrop DEF StockInv
<1>3. Fits(total, sold, reserved)'
  BY DEF ChecksHold, Fits
<1>4. \A t \in TicketType : Cardinality(TicketsOf(t)') <= sold'[t]
  BY DEF StockInv, StockRelease, TicketsOf
<1> QED
  BY <1>2, <1>3, <1>4 DEF StockInv, Lines, PlacesOf

LEMMA CreateKeepsStock ==
  ASSUME TypeOK, StockInv, NEW o \in Order, Create(o)
  PROVE  StockInv'
<1>1. Fits(total, sold, reserved)'
  <2> SUFFICES ASSUME NEW t \in TicketType
               PROVE  /\ sold'[t] >= 0 /\ reserved'[t] >= 0
                      /\ sold'[t] + reserved'[t] <= total'[t]
    BY DEF Fits
  <2>1. /\ sold' = sold /\ total' = total
        /\ reserved'[t] = IF t \in Lines(o) THEN reserved[t] + Qty(o, t)
                          ELSE reserved[t]
    BY DEF Create, Plus
  <2>2. /\ sold[t] >= 0 /\ reserved[t] >= 0
        /\ sold[t] + reserved[t] <= total[t]
    BY DEF StockInv, Fits
  <2>3. t \in Lines(o) => total[t] - sold[t] - reserved[t] >= Qty(o, t)
    BY DEF Create, LockAndVerify
  <2>4. /\ Qty(o, t) \in Nat /\ sold[t] \in Int /\ reserved[t] \in Int
        /\ total[t] \in Nat
    BY QtyNat DEF TypeOK
  <2> QED
    BY <2>1, <2>2, <2>3, <2>4
<1>2. \A q \in Order : Held(q)' \in {{}, Lines(q)}
  <2>1. Lines(o) \subseteq TicketType
    BY PlaceAssumption DEF Lines, PlacesOf
  <2>2. \A q \in Order :
          Held(q)' = IF q = o THEN Held(o) \cup Lines(o) ELSE Held(q)
    BY <2>1 DEF Create, Held
  <2> QED
    BY <2>2 DEF StockInv
<1>3. \A t \in TicketType : Cardinality(TicketsOf(t)') <= sold'[t]
  BY DEF StockInv, Create, TicketsOf
<1> QED
  BY <1>1, <1>2, <1>3 DEF StockInv, Lines, PlacesOf

LEMMA StockStep ==
  ASSUME TypeOK, StockInv, [Next]_vars
  PROVE  StockInv'
<1> DEFINE Kept == UNCHANGED <<total, sold, reserved, active, tickets>>
<1>kept. ASSUME Kept PROVE StockInv'
  BY <1>kept DEF StockInv, Fits, Held, Lines, PlacesOf, TicketsOf
<1>1. ASSUME NEW o \in Order, Buying(o) PROVE StockInv'
  <2>1. CASE Create(o)
    BY <2>1, CreateKeepsStock
  <2>2. CASE Lapse(o) \/ InitiatePayment(o) \/ SettleUnfulfillable(o)
    <3>1. Kept
      BY <2>2 DEF Lapse, InitiatePayment, SettleUnfulfillable, stockVars
    <3> QED
      BY <3>1, <1>kept
  <2>3. CASE SettlePaid(o)
    BY <2>3, PaidKeepsStock DEF SettlePaid
  <2> QED
    BY <1>1, <2>1, <2>2, <2>3 DEF Buying
<1>2. ASSUME NEW r \in Request, Handling(r) PROVE StockInv'
  <2>1. ASSUME NEW o \in Order, ConfirmRead(r, o) \/ CancelRead(r, o)
        PROVE  StockInv'
    <3>1. Kept
      BY <2>1 DEF ConfirmRead, CancelRead, Begin, stockVars
    <3> QED
      BY <3>1, <1>kept
  <2>2. CASE ConfirmWrite(r) \/ CancelReadStock(r) \/ Drop(r)
             \/ WithdrawRead(r) \/ WithdrawWrite(r)
    <3>1. Kept
      BY <2>2 DEF ConfirmWrite, CancelReadStock, Drop, WithdrawRead,
                  WithdrawWrite, Begin, stockVars
    <3> QED
      BY <3>1, <1>kept
  <2>3. CASE ConfirmFree(r)
    BY <2>3, PaidKeepsStock, FreeAssumption DEF ConfirmFree
  <2>4. CASE CancelWrite(r)
    BY <2>4, ReleaseKeepsStock DEF CancelWrite
  <2> QED
    BY <1>2, <2>1, <2>2, <2>3, <2>4 DEF Handling
<1>3. CASE Sweeping \/ SweepAbort
  <2>1. CASE SweepWrite
    BY <2>1, ReleaseKeepsStock DEF SweepWrite
  <2>2. CASE SweepStart \/ (\E o \in Order : SweepRead(o)) \/ SweepRefused
             \/ SweepEnd \/ SweepAbort
    <3>1. Kept
      BY <2>2 DEF SweepStart, SweepRead, SweepRefused, SweepEnd, SweepAbort,
                  stockVars
    <3> QED
      BY <3>1, <1>kept
  <2> QED
    BY <1>3, <2>1, <2>2 DEF Sweeping
<1>4. ASSUME NEW t \in TicketType, NEW n \in Totals, UpdateTotal(t, n)
      PROVE  StockInv'
  <2>1. Fits(total, sold, reserved)'
    BY <1>4 DEF UpdateTotal, Fits
  <2> QED
    BY <1>4, <2>1
       DEF UpdateTotal, StockInv, Held, Lines, PlacesOf, TicketsOf
<1>5. CASE Publish \/ UNCHANGED vars
  <2>1. Kept
    BY <1>5 DEF Publish, vars
  <2> QED
    BY <2>1, <1>kept
<1> QED
  BY <1>1, <1>2, <1>3, <1>4, <1>5 DEF Next

LEMMA StockInit == Init => StockInv
<1> SUFFICES ASSUME Init PROVE StockInv
  OBVIOUS
<1>1. Fits(total, sold, reserved)
  <2> SUFFICES ASSUME NEW t \in TicketType
               PROVE  /\ sold[t] >= 0 /\ reserved[t] >= 0
                      /\ sold[t] + reserved[t] <= total[t]
    BY DEF Fits
  <2>1. sold[t] = 0 /\ reserved[t] = 0 /\ total[t] \in Nat
    BY BoundAssumption DEF Init
  <2> QED
    BY <2>1
<1>2. \A o \in Order : Held(o) = {}
  BY DEF Init, Held
<1>3. \A t \in TicketType : Cardinality(TicketsOf(t)) = 0 /\ sold[t] = 0
  BY FS_EmptySet DEF Init, TicketsOf
<1> QED
  BY <1>1, <1>2, <1>3 DEF StockInv

\* StockInv leaves no room for a ticket without a place.
LEMMA StockImpliesNoOversell == TypeOK /\ StockInv => NoOversell
<1> SUFFICES ASSUME TypeOK, StockInv, NEW t \in TicketType
             PROVE  Cardinality(TicketsOf(t)) <= total[t]
  BY DEF NoOversell
<1>1. Cardinality(TicketsOf(t)) \in Nat
  BY PlacesFinite DEF TicketsOf, TypeOK
<1>2. sold[t] \in Int /\ reserved[t] \in Int /\ total[t] \in Nat
  BY DEF TypeOK
<1> QED
  BY <1>1, <1>2 DEF StockInv, Fits

\* The counters fit their quota, orders hold all of their lines or none, and
\* every ticket has been counted sold, whatever the interleaving.
THEOREM StockConsistent == Spec => []StockInv
<1>1. TypeOK /\ StockInv /\ [Next]_vars => StockInv'
  BY StockStep
<1> QED
  BY TypeCorrect, StockInit, <1>1, PTL DEF Spec

\* No two people ever receive the same place: a category never has more
\* tickets than places.
THEOREM NoOversellCorrect == Spec => []NoOversell
BY TypeCorrect, StockConsistent, StockImpliesNoOversell, PTL
-----------------------------------------------------------------------------
(* No phantom reservation *)

\* Dropping the reservations of order o frees exactly its places in the
\* categories it held; a release that saw them all takes at least as many off
\* the counter.
LEMMA DropCounts ==
  ASSUME TypeOK, NoPhantomReservation, NEW o, NEW seen,
         Held(o) \subseteq seen, reserved' = Minus(reserved, o, seen),
         active' = active \ ({o} \X TicketType)
  PROVE  NoPhantomReservation'
<1> SUFFICES ASSUME NEW t \in TicketType
             PROVE  reserved'[t] <= HeldPlaces(t)'
  BY DEF NoPhantomReservation
<1>1. /\ ActivePlaces(t) \subseteq Place /\ ActivePlaces(t)' \subseteq Place
      /\ PlacesFor(o, t) \subseteq Place
  BY DEF ActivePlaces, PlacesFor
<1>2. /\ HeldPlaces(t) \in Nat /\ HeldPlaces(t)' \in Nat
      /\ Qty(o, t) \in Nat /\ reserved[t] \in Int
      /\ reserved[t] <= HeldPlaces(t)
  BY <1>1, PlacesFinite, QtyNat DEF HeldPlaces, TypeOK, NoPhantomReservation
<1>3. CASE t \in Held(o)
  <2>1. ActivePlaces(t) \subseteq ActivePlaces(t)' \cup PlacesFor(o, t)
    BY DEF ActivePlaces, PlacesFor
  <2>2. HeldPlaces(t) <= HeldPlaces(t)' + Qty(o, t)
    <3>1. ActivePlaces(t)' \cup PlacesFor(o, t) \subseteq Place
      BY <1>1
    <3>2. Cardinality(ActivePlaces(t)' \cup PlacesFor(o, t)) \in Nat
      BY <3>1, PlacesFinite
    <3>3. Cardinality(ActivePlaces(t))
            <= Cardinality(ActivePlaces(t)' \cup PlacesFor(o, t))
      BY <2>1, <3>1, PlacesFinite, FS_Subset
    <3>4. Cardinality(ActivePlaces(t)' \cup PlacesFor(o, t))
            <= Cardinality(ActivePlaces(t)') + Cardinality(PlacesFor(o, t))
      BY <1>1, UnionBound
    <3> QED
      BY <1>2, <3>2, <3>3, <3>4 DEF HeldPlaces, Qty
  <2>3. reserved'[t] = reserved[t] - Qty(o, t)
    BY <1>3 DEF Minus
  <2> QED
    BY <1>2, <2>2, <2>3
<1>4. CASE t \notin Held(o)
  <2>1. ActivePlaces(t)' = ActivePlaces(t)
    BY <1>4 DEF ActivePlaces, Held
  <2>2. reserved'[t] <= reserved[t]
    BY <1>2 DEF Minus
  <2>3. reserved'[t] \in Int
    BY <1>2 DEF Minus
  <2> QED
    BY <1>2, <2>1, <2>2, <2>3 DEF HeldPlaces
<1> QED
  BY <1>3, <1>4

\* A creation adds the same places to the counter and to the reservations.
LEMMA CreateCounts ==
  ASSUME TypeOK, HoldInv, NEW o \in Order, Create(o)
  PROVE  NoPhantomReservation'
<1> SUFFICES ASSUME NEW t \in TicketType
             PROVE  reserved'[t] <= HeldPlaces(t)'
  BY DEF NoPhantomReservation
<1>1. Held(o) = {}
  BY DEF HoldInv, FreshOrders, Create
<1>2. /\ ActivePlaces(t) \subseteq Place /\ PlacesFor(o, t) \subseteq Place
  BY DEF ActivePlaces, PlacesFor
<1>3. /\ HeldPlaces(t) \in Nat /\ Qty(o, t) \in Nat /\ reserved[t] \in Int
      /\ reserved[t] <= HeldPlaces(t)
  BY <1>2, PlacesFinite, QtyNat
     DEF HeldPlaces, TypeOK, HoldInv, NoPhantomReservation
<1>4. CASE t \in Lines(o)
  <2>1. ActivePlaces(t)' = ActivePlaces(t) \cup PlacesFor(o, t)
    BY <1>4 DEF Create, ActivePlaces, PlacesFor
  <2>2. ActivePlaces(t) \cap PlacesFor(o, t) = {}
    BY <1>1 DEF ActivePlaces, PlacesFor, Held
  <2>3. HeldPlaces(t)' = HeldPlaces(t) + Qty(o, t)
    <3>1. /\ IsFiniteSet(ActivePlaces(t)) /\ IsFiniteSet(PlacesFor(o, t))
      BY <1>2, PlacesFinite
    <3>2. Cardinality(ActivePlaces(t) \cup PlacesFor(o, t))
            = Cardinality(ActivePlaces(t)) + Cardinality(PlacesFor(o, t))
              - Cardinality(ActivePlaces(t) \cap PlacesFor(o, t))
      BY <3>1, FS_Union
    <3>3. Cardinality(ActivePlaces(t) \cap PlacesFor(o, t)) = 0
      BY <2>2, FS_EmptySet
    <3> QED
      BY <1>3, <2>1, <3>2, <3>3 DEF HeldPlaces, Qty
  <2>4. reserved'[t] = reserved[t] + Qty(o, t)
    BY <1>4 DEF Create, Plus
  <2> QED
    BY <1>3, <2>3, <2>4
<1>5. CASE t \notin Lines(o)
  <2>1. ActivePlaces(t)' = ActivePlaces(t)
    BY <1>5 DEF Create, ActivePlaces
  <2>2. reserved'[t] = reserved[t]
    BY <1>5 DEF Create, Plus
  <2> QED
    BY <1>3, <2>1, <2>2 DEF HeldPlaces
<1> QED
  BY <1>4, <1>5

\* Whichever path a settlement takes, the counter follows the reservations.
LEMMA PaidCounts ==
  ASSUME TypeOK, NoPhantomReservation, NEW o, StockSecure(o)
  PROVE  NoPhantomReservation'
<1>1. CASE Held(o) # {}
  BY <1>1, DropCounts DEF StockSecure, StockConfirm
<1>2. CASE Held(o) = {}
  BY <1>2 DEF StockSecure, StockTakeLate, NoPhantomReservation, HeldPlaces,
              ActivePlaces
<1> QED
  BY <1>1, <1>2

LEMMA HoldInit == Init => HoldInv
<1> SUFFICES ASSUME Init PROVE HoldInv
  OBVIOUS
<1>1. FreshOrders
  BY NoOrderAssumption
     DEF Init, FreshOrders, Held, SweepIdle, Idle, Releasing
<1>2. ReleasesSawAll
  BY DEF Init, ReleasesSawAll, Held, Idle
<1>3. NoPhantomReservation
  <2> SUFFICES ASSUME NEW t \in TicketType PROVE reserved[t] <= HeldPlaces(t)
    BY DEF NoPhantomReservation
  <2>1. ActivePlaces(t) = {}
    BY DEF Init, ActivePlaces
  <2> QED
    BY <2>1, FS_EmptySet DEF Init, HeldPlaces
<1> QED
  BY <1>1, <1>2, <1>3 DEF HoldInv

\* A step that leaves the stock, the requests and the sweep alone, and brings
\* no order back to nothing.
LEMMA AloneKeepsHold ==
  ASSUME HoldInv, UNCHANGED <<reserved, active, req, sweep>>,
         \A o \in Order : status'[o] = "NONE" =>
           status[o] = "NONE" /\ (o \in lapsed' => o \in lapsed)
  PROVE  HoldInv'
<1>1. FreshOrders'
  BY DEF HoldInv, FreshOrders, Held, Releasing
<1>2. ReleasesSawAll'
  BY DEF HoldInv, ReleasesSawAll, Held
<1>3. NoPhantomReservation'
  BY DEF HoldInv, NoPhantomReservation, HeldPlaces, ActivePlaces
<1> QED
  BY <1>1, <1>2, <1>3 DEF HoldInv

\* A step of request r alone, which starts no release of a fresh order and
\* remembers every reservation its order holds.
LEMMA RequestKeepsHold ==
  ASSUME TypeOK, HoldInv, NEW r \in Request, NEW c,
         req' = [req EXCEPT ![r] = c], UNCHANGED <<reserved, active, sweep>>,
         \A o \in Order : status'[o] = "NONE" => status[o] = "NONE",
         lapsed' = lapsed,
         c.op \in {"cancel", "release"} =>
           \A o \in Order : c.order = o => status[o] # "NONE",
         c.op = "release" => Held(c.order) \subseteq c.seen
  PROVE  HoldInv'
<1>0. /\ req'[r] = c
      /\ \A q \in Request : q # r => req'[q] = req[q]
  BY DEF TypeOK
<1>1. FreshOrders'
  BY <1>0 DEF HoldInv, FreshOrders, Held, Releasing
<1>2. ReleasesSawAll'
  BY <1>0 DEF HoldInv, ReleasesSawAll, Held
<1>3. NoPhantomReservation'
  BY DEF HoldInv, NoPhantomReservation, HeldPlaces, ActivePlaces
<1> QED
  BY <1>1, <1>2, <1>3 DEF HoldInv

\* A step that drops the reservations of one order, whose requests and sweep
\* go on, end, or are left alone.
LEMMA DropKeepsHold ==
  ASSUME TypeOK, HoldInv, NEW o, active' = active \ ({o} \X TicketType),
         \A q \in Order : status'[q] = "NONE" => status[q] = "NONE",
         lapsed' = lapsed,
         \A r \in Request : req'[r] \in {req[r], Idle},
         sweep' = sweep \/
           (sweep'.todo = sweep.todo /\ sweep'.order = NoOrder),
         NoPhantomReservation'
  PROVE  HoldInv'
<1>1. \A q : Held(q)' \subseteq Held(q)
  BY HeldAfterDrop
<1>2. Idle.op \notin {"cancel", "release"}
  BY DEF Idle
<1>3. Held(NoOrder) = {}
  BY NoOrderAssumption DEF Held, TypeOK
<1>4. FreshOrders'
  BY <1>1, <1>2, NoOrderAssumption DEF HoldInv, FreshOrders, Releasing
<1>5. ReleasesSawAll'
  BY <1>1, <1>2, <1>3 DEF HoldInv, ReleasesSawAll
<1> QED
  BY <1>4, <1>5 DEF HoldInv

LEMMA CreateKeepsHold ==
  ASSUME TypeOK, HoldInv, NEW o \in Order, Create(o)
  PROVE  HoldInv'
<1>1. \A q : q # o => Held(q)' = Held(q)
  BY DEF Create, Held
<1>2. \A q \in Order :
        status'[q] = IF q = o THEN "DRAFT" ELSE status[q]
  BY DEF Create, TypeOK
<1>3. FreshOrders'
  BY <1>1, <1>2 DEF HoldInv, FreshOrders, Releasing, Create
<1>4. /\ o # sweep.order
      /\ \A r \in Request : Releasing(r) => req[r].order # o
  BY DEF HoldInv, FreshOrders, Create
<1>5. ReleasesSawAll'
  BY <1>1, <1>4 DEF HoldInv, ReleasesSawAll, Create, Releasing
<1> QED
  BY <1>3, <1>5, CreateCounts DEF HoldInv

LEMMA PaidKeepsHold ==
  ASSUME TypeOK, StockInv, HoldInv, NEW o \in Order, MarkPaid(o), sweep' = sweep,
         \A r \in Request : req'[r] \in {req[r], Idle}
  PROVE  HoldInv'
<1>1. active' = active \ ({o} \X TicketType)
  BY SecureSells DEF StockInv, MarkPaid
<1>2. NoPhantomReservation'
  BY PaidCounts DEF HoldInv, MarkPaid
<1>3. \A q \in Order : status'[q] = "NONE" => status[q] = "NONE"
  BY DEF MarkPaid, TypeOK
<1> QED
  BY <1>1, <1>2, <1>3, DropKeepsHold DEF MarkPaid

LEMMA HandlingKeepsHold ==
  ASSUME TypeOK, StockInv, HoldInv, NEW r \in Request, Handling(r)
  PROVE  HoldInv'
<1>idle. Idle.op = "idle"
  BY DEF Idle
<1>1. ASSUME NEW o \in Order, ConfirmRead(r, o) PROVE HoldInv'
  <2>1. Call("confirm", o, {}).op = "confirm"
    BY DEF Call
  <2> QED
    BY <1>1, <2>1, RequestKeepsHold
       DEF ConfirmRead, Begin, stockVars, orderVars
<1>2. ASSUME NEW o \in Order, CancelRead(r, o) PROVE HoldInv'
  <2>1. /\ Call("cancel", o, {}).op = "cancel"
        /\ Call("cancel", o, {}).order = o
    BY DEF Call
  <2> QED
    BY <1>2, <2>1, RequestKeepsHold
       DEF CancelRead, Begin, stockVars, orderVars
<1>3. CASE ConfirmWrite(r)
  <2>1. \A q \in Order : status'[q] = "NONE" => status[q] = "NONE"
    BY <1>3 DEF ConfirmWrite, TypeOK
  <2> QED
    BY <1>3, <1>idle, <2>1, RequestKeepsHold DEF ConfirmWrite, End, stockVars
<1>4. CASE ConfirmFree(r)
  <2>1. \A q \in Request : req'[q] \in {req[q], Idle}
    BY <1>4 DEF ConfirmFree, End, TypeOK
  <2> QED
    BY <1>4, <2>1, PaidKeepsHold, FreeAssumption DEF ConfirmFree
<1>5. CASE CancelReadStock(r)
  <2> DEFINE c == Call("release", req[r].order, Held(req[r].order))
  <2>1. /\ req' = [req EXCEPT ![r] = c]
        /\ c.order = req[r].order /\ c.seen = Held(req[r].order)
    BY <1>5 DEF CancelReadStock, Call
  <2>2. \A o \in Order : c.order = o => status[o] # "NONE"
    BY <1>5, <2>1 DEF CancelReadStock, HoldInv, FreshOrders, Releasing
  <2>3. HoldInv'
    <3>1. /\ UNCHANGED <<reserved, active, sweep, lapsed>>
          /\ status' = status
      BY <1>5 DEF CancelReadStock, stockVars, orderVars
    <3>2. Held(c.order) \subseteq c.seen
      BY <2>1
    <3> HIDE DEF c
    <3> QED
      BY <2>1, <2>2, <3>1, <3>2, RequestKeepsHold
  <2> QED
    BY <2>3
<1>6. CASE CancelWrite(r)
  <2> DEFINE o == req[r].order
  <2>1. /\ active' = active \ ({o} \X TicketType)
        /\ reserved' = Minus(reserved, o, req[r].seen)
        /\ Held(o) \subseteq req[r].seen
    BY <1>6 DEF CancelWrite, StockRelease, HoldInv, ReleasesSawAll
  <2>2. NoPhantomReservation'
    BY <2>1, DropCounts DEF HoldInv
  <2>3. \A q \in Order : status'[q] = "NONE" => status[q] = "NONE"
    BY <1>6 DEF CancelWrite, TypeOK
  <2>4. \A q \in Request : req'[q] \in {req[q], Idle}
    BY <1>6 DEF CancelWrite, End, TypeOK
  <2> QED
    BY <1>6, <2>1, <2>2, <2>3, <2>4, DropKeepsHold DEF CancelWrite
<1>7. CASE WithdrawRead(r)
  <2>1. Call("withdraw", NoOrder, {}).op = "withdraw"
    BY DEF Call
  <2> QED
    BY <1>7, <2>1, RequestKeepsHold
       DEF WithdrawRead, Begin, stockVars, orderVars
<1>8. CASE WithdrawWrite(r) \/ Drop(r)
  BY <1>8, <1>idle, RequestKeepsHold
     DEF WithdrawWrite, Drop, End, stockVars, orderVars
<1> QED
  BY <1>1, <1>2, <1>3, <1>4, <1>5, <1>6, <1>7, <1>8 DEF Handling

\* A step of the sweep that writes nothing but its own state.
LEMMA SweepReadsKeepHold ==
  ASSUME TypeOK, HoldInv, UNCHANGED <<stockVars, orderVars, req>>,
         \A o \in Order : status[o] = "NONE" =>
           o \notin sweep'.todo /\ o # sweep'.order,
         Held(sweep'.order) \subseteq sweep'.seen
  PROVE  HoldInv'
<1>1. FreshOrders'
  BY DEF HoldInv, FreshOrders, Held, Releasing, stockVars, orderVars
<1>2. ReleasesSawAll'
  BY DEF HoldInv, ReleasesSawAll, Held, stockVars
<1>3. NoPhantomReservation'
  BY DEF HoldInv, NoPhantomReservation, HeldPlaces, ActivePlaces, stockVars
<1> QED
  BY <1>1, <1>2, <1>3 DEF HoldInv

LEMMA SweepingKeepsHold ==
  ASSUME TypeOK, HoldInv, Sweeping \/ SweepAbort
  PROVE  HoldInv'
<1>1. CASE SweepStart
  <2>1. sweep'.order = sweep.order /\ sweep'.seen = sweep.seen
    BY <1>1 DEF SweepStart, TypeOK
  <2>2. sweep'.todo \subseteq lapsed
    BY <1>1 DEF SweepStart, TypeOK
  <2> QED
    BY <1>1, <2>1, <2>2, SweepReadsKeepHold
       DEF SweepStart, HoldInv, FreshOrders, ReleasesSawAll
<1>2. ASSUME NEW o \in Order, SweepRead(o) PROVE HoldInv'
  <2>1. /\ sweep'.order = o /\ sweep'.seen = Held(o)
        /\ sweep'.todo = sweep.todo \ {o} /\ o \in sweep.todo
    BY <1>2 DEF SweepRead, TypeOK
  <2> QED
    BY <1>2, <2>1, SweepReadsKeepHold DEF SweepRead, HoldInv, FreshOrders
<1>3. CASE SweepWrite
  <2> DEFINE o == sweep.order
  <2>1. /\ active' = active \ ({o} \X TicketType)
        /\ reserved' = Minus(reserved, o, sweep.seen)
        /\ Held(o) \subseteq sweep.seen
    BY <1>3 DEF SweepWrite, StockRelease, HoldInv, ReleasesSawAll
  <2>2. NoPhantomReservation'
    BY <2>1, DropCounts DEF HoldInv
  <2>3. \A q \in Order : status'[q] = "NONE" => status[q] = "NONE"
    BY <1>3 DEF SweepWrite, TypeOK
  <2>4. sweep'.todo = sweep.todo /\ sweep'.order = NoOrder
    BY <1>3 DEF SweepWrite, TypeOK
  <2> QED
    BY <1>3, <2>1, <2>2, <2>3, <2>4, DropKeepsHold DEF SweepWrite
<1>4. CASE SweepRefused \/ SweepEnd \/ SweepAbort
  <2>1. sweep'.order = NoOrder /\ sweep'.todo = {} /\ sweep'.seen = {}
    BY <1>4 DEF SweepRefused, SweepEnd, SweepAbort, SweepIdle
  <2>2. Held(NoOrder) = {}
    BY NoOrderAssumption DEF Held, TypeOK
  <2> QED
    BY <1>4, <2>1, <2>2, NoOrderAssumption, SweepReadsKeepHold
       DEF SweepRefused, SweepEnd, SweepAbort
<1> QED
  BY <1>1, <1>2, <1>3, <1>4 DEF Sweeping

LEMMA HoldStep ==
  ASSUME TypeOK, StockInv, HoldInv, [Next]_vars
  PROVE  HoldInv'
<1>1. ASSUME NEW o \in Order, Buying(o) PROVE HoldInv'
  <2>1. CASE Create(o)
    BY <2>1, CreateKeepsHold
  <2>2. CASE Lapse(o)
    BY <2>2, AloneKeepsHold DEF Lapse, stockVars
  <2>3. CASE InitiatePayment(o) \/ SettleUnfulfillable(o)
    BY <2>3, AloneKeepsHold
       DEF InitiatePayment, SettleUnfulfillable, stockVars, orderVars
  <2>4. CASE SettlePaid(o)
    BY <2>4, PaidKeepsHold DEF SettlePaid
  <2> QED
    BY <1>1, <2>1, <2>2, <2>3, <2>4 DEF Buying
<1>2. ASSUME NEW r \in Request, Handling(r) PROVE HoldInv'
  BY <1>2, HandlingKeepsHold
<1>3. CASE Sweeping \/ SweepAbort
  BY <1>3, SweepingKeepsHold
<1>4. ASSUME NEW t \in TicketType, NEW n \in Totals, UpdateTotal(t, n)
      PROVE  HoldInv'
  BY <1>4, AloneKeepsHold DEF UpdateTotal, orderVars
<1>5. CASE Publish \/ UNCHANGED vars
  BY <1>5, AloneKeepsHold DEF Publish, vars, orderVars
<1> QED
  BY <1>1, <1>2, <1>3, <1>4, <1>5 DEF Next

\* A release in flight has seen every reservation its order still holds, and
\* the counter never exceeds them.
THEOREM HoldsConsistent == Spec => []HoldInv
<1>1. TypeOK /\ StockInv /\ HoldInv /\ [Next]_vars => HoldInv'
  BY HoldStep
<1> QED
  BY TypeCorrect, StockConsistent, HoldInit, <1>1, PTL DEF Spec

\* No place is kept from sale for nobody: the reserved counter of a category
\* never exceeds the reservations still held.
THEOREM NoPhantomCorrect == Spec => []NoPhantomReservation
<1>1. HoldInv => NoPhantomReservation
  BY DEF HoldInv
<1> QED
  BY HoldsConsistent, <1>1, PTL
-----------------------------------------------------------------------------
(* The ticket office *)

\* The tickets of one order issued, the others left alone.
LEMMA IssueOne ==
  ASSUME NEW o \in Order, tickets' = tickets \cup PlacesOf(o)
  PROVE  /\ Ticketed(o)' /\ PlacesOf(o) \subseteq tickets'
         /\ \A q \in Order : q # o =>
              /\ Ticketed(q)' <=> Ticketed(q)
              /\ PlacesOf(q) \subseteq tickets => PlacesOf(q) \subseteq tickets'
<1>1. PlacesOf(o) # {}
  BY PlaceAssumption DEF PlacesOf
<1>2. \A q \in Order : q # o => PlacesOf(q) \cap PlacesOf(o) = {}
  BY DEF PlacesOf
<1> QED
  BY <1>1, <1>2 DEF Ticketed, PlacesOf

LEMMA ServedInit == Init => ServedOnceWhenPaid
BY DEF Init, ServedOnceWhenPaid, Ticketed

\* The settlement of a priced order: it had no ticket and no revenue.
LEMMA PaidServes ==
  ASSUME TypeOK, ServedOnceWhenPaid, NEW o \in Order, SettlePaid(o)
  PROVE  ServedOnceWhenPaid'
<1>1. /\ o \notin settled /\ o \notin Free /\ settled' = settled \cup {o}
      /\ MarkPaid(o)
  BY DEF SettlePaid, CanSettle, TypeOK
<1>2. ~Ticketed(o) /\ revenue[o] = 0
  BY <1>1 DEF ServedOnceWhenPaid
<1>3. /\ tickets' = tickets \cup PlacesOf(o)
      /\ revenue' = [revenue EXCEPT ![o] = @ + 1]
  BY <1>1 DEF MarkPaid
<1>4. /\ revenue'[o] = 1
      /\ \A q \in Order : q # o => revenue'[q] = revenue[q]
  BY <1>2, <1>3 DEF TypeOK
<1> QED
  BY <1>1, <1>3, <1>4, IssueOne DEF ServedOnceWhenPaid, PlacesOf

\* The confirmation of a free order, even a second one.
LEMMA FreeServes ==
  ASSUME TypeOK, ServedOnceWhenPaid, NEW r \in Request, ConfirmFree(r)
  PROVE  ServedOnceWhenPaid'
<1> DEFINE o == req[r].order
<1>1. /\ o \in Order /\ o \in Free /\ settled' = settled /\ revenue' = revenue
      /\ tickets' = tickets \cup PlacesOf(o)
  BY FreeAssumption DEF ConfirmFree, MarkPaid
<1> HIDE DEF o
<1> QED
  BY <1>1, IssueOne DEF ServedOnceWhenPaid, PlacesOf

LEMMA ServedStep ==
  ASSUME TypeOK, ServedOnceWhenPaid, [Next]_vars
  PROVE  ServedOnceWhenPaid'
<1>kept. ASSUME UNCHANGED <<tickets, revenue>>, settled \subseteq settled'
         PROVE  ServedOnceWhenPaid'
  BY <1>kept DEF ServedOnceWhenPaid, Ticketed, PlacesOf
<1>1. ASSUME NEW o \in Order, Buying(o) PROVE ServedOnceWhenPaid'
  <2>1. CASE SettlePaid(o)
    BY <2>1, PaidServes
  <2>2. CASE Create(o) \/ Lapse(o) \/ InitiatePayment(o)
             \/ SettleUnfulfillable(o)
    BY <2>2, <1>kept
       DEF Create, Lapse, InitiatePayment, SettleUnfulfillable, moneyVars
  <2> QED
    BY <1>1, <2>1, <2>2 DEF Buying
<1>2. ASSUME NEW r \in Request, Handling(r) PROVE ServedOnceWhenPaid'
  <2>1. CASE ConfirmFree(r)
    BY <2>1, FreeServes
  <2>2. CASE ~ConfirmFree(r)
    BY <1>2, <2>2, <1>kept
       DEF Handling, ConfirmRead, CancelRead, ConfirmWrite, CancelReadStock,
           CancelWrite, WithdrawRead, WithdrawWrite, Drop, Begin, moneyVars
  <2> QED
    BY <2>1, <2>2
<1>3. CASE Sweeping \/ SweepAbort
  BY <1>3, <1>kept
     DEF Sweeping, SweepStart, SweepRead, SweepWrite, SweepRefused, SweepEnd,
         SweepAbort, moneyVars
<1>4. ASSUME NEW t \in TicketType, NEW n \in Totals, UpdateTotal(t, n)
      PROVE  ServedOnceWhenPaid'
  BY <1>4, <1>kept DEF UpdateTotal, moneyVars
<1>5. CASE Publish \/ UNCHANGED vars
  BY <1>5, <1>kept DEF Publish, moneyVars, vars
<1> QED
  BY <1>1, <1>2, <1>3, <1>4, <1>5 DEF Next

\* An order is served whole or not at all, only once its money is there or it
\* is free, and is credited to the organiser exactly once.
THEOREM ServedCorrect == Spec => []ServedOnceWhenPaid
<1>1. TypeOK /\ ServedOnceWhenPaid /\ [Next]_vars => ServedOnceWhenPaid'
  BY ServedStep
<1> QED
  BY TypeCorrect, ServedInit, <1>1, PTL DEF Spec
-----------------------------------------------------------------------------
(* The refinement *)

\* The seats handed out by the office are the tickets of Checkout.
LEMMA SeatsAreTickets ==
  ASSUME TypeOK, ServedOnceWhenPaid, NEW t \in TicketType
  PROVE  Office!Seats(Holders, t) = TicketsOf(t)
<1>1. \A p \in tickets : OrderOf[p] \in Holders
  BY PlaceAssumption DEF TypeOK, Holders, Ticketed, PlacesOf
<1>2. \A p \in Place : OrderOf[p] \in Holders => p \in tickets
  BY DEF Holders, ServedOnceWhenPaid, PlacesOf
<1> QED
  BY <1>1, <1>2 DEF Office!Seats, TicketsOf, TypeOK

OfficeWithin == Office!WithinCapacity(Holders, total)

\* The office counts its seats as Checkout counts its tickets.
LEMMA SameCount == \A S : Office!Cardinality(S) = Cardinality(S)
BY DEF Office!Cardinality, Cardinality

LEMMA OfficeFits == TypeOK /\ ServedOnceWhenPaid /\ NoOversell => OfficeWithin
BY SameCount, SeatsAreTickets
   DEF NoOversell, OfficeWithin, Office!WithinCapacity

LEMMA OfficeFitsNext ==
  TypeOK' /\ ServedOnceWhenPaid' /\ NoOversell' => OfficeWithin'
BY OfficeFits, PTL

LEMMA OfficeInit == TypeOK /\ Init => Office!Init
<1> SUFFICES ASSUME TypeOK, Init PROVE Office!Init
  OBVIOUS
<1>1. settled = {} /\ Holders = {}
  BY DEF Init, Holders, Ticketed
<1>2. total \in [TicketType -> Nat]
  BY DEF TypeOK
<1> QED
  BY <1>1, <1>2 DEF Office!Init

LEMMA OfficeStep ==
  ASSUME TypeOK, TypeOK', NoOversell', ServedOnceWhenPaid,
         ServedOnceWhenPaid', [Next]_vars
  PROVE  [Office!Next]_(Office!vars)
<1>fits. Office!WithinCapacity(Holders', total')
  BY OfficeFitsNext DEF OfficeWithin, Office!WithinCapacity, Office!Seats
<1>same. ASSUME UNCHANGED <<settled, tickets, total>>
         PROVE  UNCHANGED Office!vars
  BY <1>same DEF Office!vars, Holders, Ticketed, PlacesOf
<1>issue. ASSUME NEW o \in Order, MarkPaid(o)
          PROVE  Holders' = Holders \cup {o} /\ total' = total
  BY <1>issue, IssueOne DEF MarkPaid, Holders
<1>1. ASSUME NEW o \in Order, Buying(o) PROVE [Office!Next]_(Office!vars)
  <2>1. CASE SettlePaid(o)
    <3>1. Office!Charge(o)
      BY <2>1, <1>fits, <1>issue
         DEF SettlePaid, CanSettle, TypeOK, Office!Charge
    <3> QED
      BY <3>1 DEF Office!Next
  <2>2. CASE SettleUnfulfillable(o)
    <3>1. Holders' = Holders /\ total' = total
      BY <2>2 DEF SettleUnfulfillable, stockVars, Holders, Ticketed, PlacesOf
    <3>2. Office!Charge(o)
      BY <2>2, <3>1 DEF SettleUnfulfillable, CanSettle, TypeOK, Office!Charge
    <3> QED
      BY <3>2 DEF Office!Next
  <2>3. CASE Create(o) \/ Lapse(o) \/ InitiatePayment(o)
    BY <2>3, <1>same
       DEF Create, Lapse, InitiatePayment, moneyVars, stockVars
  <2> QED
    BY <1>1, <2>1, <2>2, <2>3 DEF Buying
<1>2. ASSUME NEW r \in Request, Handling(r)
      PROVE  [Office!Next]_(Office!vars)
  <2>1. CASE ConfirmFree(r)
    <3> DEFINE o == req[r].order
    <3>1. /\ o \in Order /\ o \in Free /\ MarkPaid(o) /\ settled' = settled
      BY <2>1, FreeAssumption DEF ConfirmFree
    <3> HIDE DEF o
    <3>2. Holders' = Holders \cup {o} /\ total' = total
      BY <3>1, <1>issue
    <3>3. CASE o \in Holders
      BY <3>1, <3>2, <3>3 DEF Office!vars
    <3>4. CASE o \notin Holders
      <4>1. Office!Register(o)
        BY <3>1, <3>2, <3>4, <1>fits DEF Office!Register
      <4> QED
        BY <3>1, <4>1 DEF Office!Next
    <3> QED
      BY <3>3, <3>4
  <2>2. CASE ~ConfirmFree(r)
    BY <1>2, <2>2, <1>same
       DEF Handling, ConfirmRead, CancelRead, ConfirmWrite, CancelReadStock,
           CancelWrite, WithdrawRead, WithdrawWrite, Drop, Begin, stockVars,
           moneyVars
  <2> QED
    BY <2>1, <2>2
<1>3. CASE Sweeping \/ SweepAbort
  BY <1>3, <1>same
     DEF Sweeping, SweepStart, SweepRead, SweepWrite, SweepRefused, SweepEnd,
         SweepAbort, moneyVars, stockVars
<1>4. ASSUME NEW t \in TicketType, NEW n \in Totals, UpdateTotal(t, n)
      PROVE  [Office!Next]_(Office!vars)
  <2>1. Holders' = Holders /\ settled' = settled
    BY <1>4 DEF UpdateTotal, moneyVars, Holders, Ticketed, PlacesOf
  <2>2. total' \in [TicketType -> Nat]
    BY DEF TypeOK
  <2>3. Office!Resize
    BY <2>1, <2>2, <1>fits DEF Office!Resize
  <2> QED
    BY <2>3 DEF Office!Next
<1>5. CASE Publish \/ UNCHANGED vars
  BY <1>5, <1>same DEF Publish, moneyVars, vars
<1> QED
  BY <1>1, <1>2, <1>3, <1>4, <1>5 DEF Next

\* Checkout implements the ticket office: no request, sweep or settlement ever
\* shows a buyer or an organiser anything SeatSale does not allow.
THEOREM CheckoutImplementsOffice == Spec => OfficeSpec
<1>1. TypeOK /\ Init => Office!Init
  BY OfficeInit
<1>2. /\ TypeOK /\ TypeOK' /\ NoOversell' /\ ServedOnceWhenPaid
      /\ ServedOnceWhenPaid' /\ [Next]_vars
      => [Office!Next]_(Office!vars)
  BY OfficeStep
<1> QED
  BY <1>1, <1>2, TypeCorrect, NoOversellCorrect, ServedCorrect, PTL
     DEF Spec, OfficeSpec, Office!Spec
=============================================================================
