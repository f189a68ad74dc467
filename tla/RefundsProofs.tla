--------------------------- MODULE RefundsProofs ---------------------------
(***************************************************************************)
(* What a refund shows is what became of the payment: whatever executions, *)
(* passes and administrators overlap, no refund is shown as done before    *)
(* the money is back, and the provider is asked to return a payment only   *)
(* after one refund of the whole of it.  The first part says so, whatever  *)
(* the refunds of an order add up to; the second counts them: whoever      *)
(* decides, an order is never promised back more than was paid, and one    *)
(* promised back whole admits nobody.                                      *)
(***************************************************************************)
EXTENDS Refunds, FiniteSetTheorems, TLAPS

RowShape(S) == [status : RefundStatus, amount : S,
                ref : {"none", "transaction", "manual"}, tried : BOOLEAN]

\* Rows and tasks keep their type, amounts aside.
Shaped ==
  /\ \E S : row \in [Rows -> RowShape(S)]
  /\ revert \in [Order -> {"none", "processing", "reverted"}]
  /\ byHand \subseteq Rows
  /\ task \in [Task -> TaskType]
  /\ \A k \in Task : task[k].pc # "idle" => task[k].row \in Rows

LEMMA OrderOfRow == \A r \in Rows : OrderOf(r) \in Order
BY DEF Rows, OrderOf

\* One refund takes another state.
LEMMA SetRow ==
  ASSUME \E S : row \in [Rows -> RowShape(S)], NEW r, NEW x, NEW U, x \in RowShape(U),
         row' = [row EXCEPT ![r] = x]
  PROVE  \E S : row' \in [Rows -> RowShape(S)]
<1>1. PICK S : row \in [Rows -> RowShape(S)]
  OBVIOUS
<1>2. RowShape(S) \subseteq RowShape(S \cup U) /\ RowShape(U) \subseteq RowShape(S \cup U)
  BY DEF RowShape
<1>3. row' \in [Rows -> RowShape(S \cup U)]
  BY <1>1, <1>2
<1> QED
  BY <1>3

\* One task takes another state.
LEMMA SetTask ==
  ASSUME Shaped, NEW k \in Task, NEW s \in TaskType, s.pc # "idle" => s.row \in Rows,
         Set(k, s)
  PROVE  /\ task' \in [Task -> TaskType]
         /\ \A j \in Task : task'[j].pc # "idle" => task'[j].row \in Rows
BY DEF Shaped, Set

LEMMA WorkType ==
  ASSUME NEW r \in Rows, NEW b \in BOOLEAN,
         NEW pc \in {"load", "attempt", "call", "write", "listed", "polled", "hand"},
         NEW a \in {"none", "COMPLETED", "PROCESSING", "FAILED", "LOST"}
  PROVE  /\ Work(pc, r, b, a) \in TaskType
         /\ Work(pc, r, b, a).row \in Rows
BY DEF Work, TaskType

LEMMA IdleType == Idle \in TaskType /\ Idle.pc = "idle"
BY DEF Idle, Work, TaskType

LEMMA ShapedInit == Init => Shaped
<1> SUFFICES ASSUME Init PROVE Shaped
  OBVIOUS
<1>1. row \in [Rows -> RowShape({0})]
  BY DEF Init, NoRefund, RowShape, RefundStatus
<1>2. task \in [Task -> TaskType] /\ \A k \in Task : task[k].pc = "idle"
  BY IdleType DEF Init
<1> QED
  BY <1>1, <1>2 DEF Init, Shaped

\* The refunds of an order are numbered from one.
Numbered == \A o \in Order : Used(o) = 1..Cardinality(Used(o))

LEMMA UsedFinite ==
  ASSUME NEW o \in Order
  PROVE  IsFiniteSet(Used(o)) /\ Cardinality(Used(o)) \in Nat
<1>1. IsFiniteSet(1..MaxRows)
  BY FS_Interval, BoundsAssumption
<1>2. IsFiniteSet(Used(o))
  BY <1>1, FS_Subset DEF Used
<1> QED
  BY <1>2, FS_CardinalityType

\* What a task knows is so: its refund exists; one it hands to the provider
\* is of the whole payment; one it found done is done.
TaskGood(k) ==
  task[k].pc # "idle" =>
    /\ row[task[k].row].status # "NONE"
    /\ task[k].pc \in {"write", "polled"} => task[k].answer # "none"
    /\ task[k].pc \in {"attempt", "call"} =>
         row[task[k].row].amount >= Total(OrderOf(task[k].row))
    /\ task[k].pc \in {"write", "polled"} /\ task[k].answer = "COMPLETED" =>
         revert[OrderOf(task[k].row)] = "reverted"

IInv ==
  /\ Shaped
  /\ Numbered
  /\ \A k \in Task : TaskGood(k)
  /\ CompletionIsTrue
  /\ RevertedIsWhole

\* A refund decided stays, with its amount.
Kept ==
  \A r \in Rows : row[r].status # "NONE" =>
    row'[r].status # "NONE" /\ row'[r].amount = row[r].amount

\* A payment given back stays so.
StaysBack ==
  \A o \in Order : revert[o] = "reverted" => revert'[o] = "reverted"

LEMMA InitIInv == Init => IInv
<1> SUFFICES ASSUME Init PROVE IInv
  OBVIOUS
<1>1. \A r \in Rows : row[r].status = "NONE"
  BY DEF Init, NoRefund
<1>2. \A o \in Order : Used(o) = {}
  BY <1>1 DEF Used, Rows
<1>3. Numbered
  BY <1>2, FS_EmptySet DEF Numbered
<1>4. \A k \in Task : task[k].pc = "idle"
  BY IdleType DEF Init
<1>5. \A o \in Order : revert[o] = "none"
  BY DEF Init
<1> QED
  BY <1>1, <1>3, <1>4, <1>5, ShapedInit DEF IInv, TaskGood, CompletionIsTrue, RevertedIsWhole

\* A refund that changes state keeps the numbering.
LEMMA SameNumbers ==
  ASSUME Numbered, \A r \in Rows : row'[r].status = "NONE" <=> row[r].status = "NONE"
  PROVE  Numbered'
<1>1. \A o \in Order : Used(o)' = Used(o)
  BY DEF Used, Rows
<1> QED
  BY <1>1 DEF Numbered

\* A task that nobody touches still knows what it knew.
LEMMA TaskStays ==
  ASSUME IInv, Kept, StaysBack, NEW k \in Task, task'[k] = task[k]
  PROVE  TaskGood(k)'
<1>1. TaskGood(k) /\ (task[k].pc # "idle" => task[k].row \in Rows)
  BY DEF IInv, Shaped
<1>2. task[k].pc # "idle" => OrderOf(task[k].row) \in Order
  BY <1>1, OrderOfRow
<1> QED
  BY <1>1, <1>2 DEF TaskGood, Kept, StaysBack, Total, OrderOf

\* What an action has to show.
LEMMA Together ==
  ASSUME IInv, Shaped', Numbered', Kept, StaysBack, byHand \subseteq byHand',
         \A k \in Task : task'[k] = task[k] \/ TaskGood(k)',
         \A r \in Rows : row'[r].status = "COMPLETED" =>
           row[r].status = "COMPLETED" \/ r \in byHand'
             \/ revert'[OrderOf(r)] = "reverted",
         \A o \in Order : revert'[o] # "none" =>
           revert[o] # "none"
             \/ \E n \in 1..MaxRows : row[<<o, n>>].status # "NONE"
                                      /\ row[<<o, n>>].amount >= Total(o)
  PROVE  IInv'
<1>1. \A k \in Task : TaskGood(k)'
  BY TaskStays
<1>2. CompletionIsTrue'
  <2> SUFFICES ASSUME NEW r \in Rows, row'[r].status = "COMPLETED"
               PROVE  r \in byHand' \/ revert'[OrderOf(r)] = "reverted"
    BY DEF CompletionIsTrue, OrderOf
  <2>1. CASE row[r].status = "COMPLETED"
    BY <2>1, OrderOfRow DEF IInv, CompletionIsTrue, StaysBack
  <2>2. CASE row[r].status # "COMPLETED"
    BY <2>2
  <2> QED
    BY <2>1, <2>2
<1>3. RevertedIsWhole'
  <2> SUFFICES ASSUME NEW o \in Order, revert'[o] # "none"
               PROVE  \E n \in Used(o)' : row'[<<o, n>>].amount >= Total(o)
    BY DEF RevertedIsWhole, Total
  <2>1. PICK n \in 1..MaxRows : row[<<o, n>>].status # "NONE"
                                /\ row[<<o, n>>].amount >= Total(o)
    BY DEF IInv, RevertedIsWhole, Used
  <2>2. <<o, n>> \in Rows
    BY DEF Rows
  <2>3. row'[<<o, n>>].status # "NONE" /\ row'[<<o, n>>].amount >= Total(o)
    BY <2>1, <2>2 DEF Kept
  <2> QED
    BY <2>3 DEF Used
<1> QED
  BY <1>1, <1>2, <1>3 DEF IInv

\* One refund already decided takes another state, with its amount.
LEMMA OneRow ==
  ASSUME IInv, NEW r \in Rows, row[r].status # "NONE", NEW x,
         x.amount = row[r].amount, x.status \in RefundStatus \ {"NONE"},
         x.ref \in {"none", "transaction", "manual"}, x.tried \in BOOLEAN,
         x = [status |-> x.status, amount |-> x.amount, ref |-> x.ref,
              tried |-> x.tried],
         row' = [row EXCEPT ![r] = x]
  PROVE  /\ \E S : row' \in [Rows -> RowShape(S)]
         /\ Kept
         /\ Numbered'
         /\ \A q \in Rows : q # r => row'[q] = row[q]
         /\ row'[r] = x
<1>1. PICK S : row \in [Rows -> RowShape(S)]
  BY DEF IInv, Shaped
<1>2. x \in RowShape({row[r].amount})
  BY DEF RowShape
<1>3. \E T : row' \in [Rows -> RowShape(T)]
  BY <1>2, SetRow DEF IInv, Shaped
<1>4. row'[r] = x /\ \A q \in Rows : q # r => row'[q] = row[q]
  BY <1>1
<1>5. Kept
  BY <1>4 DEF Kept
<1>6. \A q \in Rows : row'[q].status = "NONE" <=> row[q].status = "NONE"
  BY <1>4
<1>7. Numbered'
  BY <1>6, SameNumbers DEF IInv
<1> QED
  BY <1>3, <1>4, <1>5, <1>7
-----------------------------------------------------------------------------
(* Steps that change no refund *)

\* A step of one task that changes no refund.
LEMMA QuietStep ==
  ASSUME IInv, UNCHANGED <<row, revert, byHand>>, NEW k \in Task,
         NEW s \in TaskType, s.pc # "idle" => s.row \in Rows, Set(k, s),
         TaskGood(k)'
  PROVE  IInv'
<1>1. Shaped'
  BY SetTask DEF IInv, Shaped
<1>2. Numbered' /\ Kept /\ StaysBack
  BY SameNumbers DEF IInv, Kept, StaysBack
<1>3. \A j \in Task : task'[j] = task[j] \/ TaskGood(j)'
  BY DEF Set, IInv, Shaped
<1> QED
  BY <1>1, <1>2, <1>3, Together

LEMMA SetOne ==
  ASSUME IInv, NEW k \in Task, NEW s, Set(k, s)
  PROVE  task'[k] = s /\ \A j \in Task \ {k} : task'[j] = task[j]
BY DEF IInv, Shaped, Set

LEMMA GoesIdle ==
  ASSUME IInv, NEW k \in Task, Set(k, Idle)
  PROVE  TaskGood(k)'
BY SetOne, IdleType DEF TaskGood

LEMMA StopStep ==
  ASSUME IInv, UNCHANGED <<row, revert, byHand>>, NEW k \in Task, Set(k, Idle)
  PROVE  IInv'
BY GoesIdle, QuietStep, IdleType

LEMMA LoadStep ==
  ASSUME IInv, NEW k \in Task, Load(k)
  PROVE  IInv'
<1>1. PICK r : r = task[k].row
  OBVIOUS
<1>2. r \in Rows /\ row[r].status # "NONE"
  BY <1>1 DEF Load, IInv, Shaped, TaskGood
<1>3. CASE Automatic(r)
  <2>1. PICK b : b = Renewed(r)
    OBVIOUS
  <2>2. b \in BOOLEAN
    BY <2>1 DEF Renewed
  <2>3. Set(k, Work("attempt", r, b, "none"))
    BY <1>1, <1>3, <2>1 DEF Load
  <2>4. task'[k] = Work("attempt", r, b, "none")
    BY <2>3, SetOne
  <2>5. TaskGood(k)'
    BY <1>2, <1>3, <2>4 DEF TaskGood, Work, Automatic, Load, Total, OrderOf
  <2> QED
    BY <1>2, <2>2, <2>3, <2>5, WorkType, QuietStep DEF Load
<1>4. CASE ~Automatic(r)
  BY <1>1, <1>4, StopStep DEF Load
<1> QED
  BY <1>3, <1>4

LEMMA RetryStep ==
  ASSUME IInv, NEW k \in Task, NEW r \in Rows, Retry(k, r)
  PROVE  IInv'
<1>1. PICK b : b = Renewed(r)
  OBVIOUS
<1>2. b \in BOOLEAN
  BY <1>1 DEF Renewed
<1>3. Set(k, Work("attempt", r, b, "none"))
  BY <1>1 DEF Retry
<1>4. task'[k] = Work("attempt", r, b, "none")
  BY <1>3, SetOne
<1>5. TaskGood(k)'
  BY <1>4 DEF TaskGood, Work, Automatic, Retry, Total, OrderOf
<1> QED
  BY <1>2, <1>3, <1>5, WorkType, QuietStep DEF Retry

LEMMA ManualReadStep ==
  ASSUME IInv, NEW k \in Task, NEW r \in Rows, ManualRead(k, r)
  PROVE  IInv'
<1>1. task'[k] = Work("hand", r, FALSE, "none")
  BY SetOne DEF ManualRead
<1>2. TaskGood(k)'
  BY <1>1 DEF TaskGood, Work, ManualRead
<1> QED
  BY <1>2, WorkType, QuietStep DEF ManualRead

LEMMA PollStartStep ==
  ASSUME IInv, NEW k \in Task, NEW r \in Rows, PollStart(k, r)
  PROVE  IInv'
<1>1. task'[k] = Work("listed", r, FALSE, "none")
  BY SetOne DEF PollStart
<1>2. TaskGood(k)'
  BY <1>1 DEF TaskGood, Work, PollStart, ToRead
<1> QED
  BY <1>2, WorkType, QuietStep DEF PollStart

LEMMA PollAnswerStep ==
  ASSUME IInv, NEW k \in Task, PollAnswer(k)
  PROVE  IInv'
<1>1. PICK r : r = task[k].row
  OBVIOUS
<1>2. r \in Rows /\ row[r].status # "NONE"
  BY <1>1 DEF PollAnswer, IInv, Shaped, TaskGood
<1>3. CASE revert[OrderOf(r)] = "reverted"
  <2>1. Set(k, Work("polled", r, FALSE, "COMPLETED"))
    BY <1>1, <1>3 DEF PollAnswer
  <2>2. task'[k] = Work("polled", r, FALSE, "COMPLETED")
    BY <2>1, SetOne
  <2>3. TaskGood(k)'
    BY <1>2, <1>3, <2>2 DEF TaskGood, Work, PollAnswer, OrderOf
  <2> QED
    BY <1>2, <2>1, <2>3, WorkType, QuietStep DEF PollAnswer
<1>4. CASE revert[OrderOf(r)] # "reverted"
  BY <1>1, <1>4, StopStep DEF PollAnswer
<1> QED
  BY <1>3, <1>4

\* Nothing the invariant speaks of changes.
LEMMA StillStep ==
  ASSUME IInv, UNCHANGED <<row, revert, byHand, task>>
  PROVE  IInv'
<1>1. Shaped' /\ Kept /\ StaysBack
  BY DEF IInv, Shaped, Kept, StaysBack
<1>2. Numbered'
  BY SameNumbers DEF IInv
<1> QED
  BY <1>1, <1>2, Together
-----------------------------------------------------------------------------
(* Steps of the provider *)

\* What the provider answers, and what it makes of the payment.
LEMMA AnswerShape ==
  ASSUME IInv, NEW o \in Order, NEW a \in Answers(o)
  PROVE  /\ a[1] \in {"none", "processing", "reverted"}
         /\ a[2] \in {"COMPLETED", "PROCESSING", "FAILED", "LOST"}
         /\ revert[o] = "reverted" => a[1] = "reverted"
         /\ a[2] = "COMPLETED" => a[1] = "reverted"
<1>1. revert[o] \in {"none", "processing", "reverted"}
  BY DEF IInv, Shaped
<1>2. CASE o \in Kkiapay
  BY <1>1, <1>2 DEF Answers
<1>3. CASE o \notin Kkiapay
  BY <1>1, <1>3 DEF Answers
<1> QED
  BY <1>2, <1>3

LEMMA CalledStep ==
  ASSUME IInv, NEW k \in Task, task[k].pc = "call",
         NEW a \in Answers(OrderOf(task[k].row)), NEW b \in {a[2], "LOST"},
         revert' = [revert EXCEPT ![OrderOf(task[k].row)] = a[1]],
         Set(k, Work("write", task[k].row, FALSE, b)),
         UNCHANGED <<row, byHand>>
  PROVE  IInv'
<1>1. PICK r : r = task[k].row
  OBVIOUS
<1>2. PICK o : o = OrderOf(r)
  OBVIOUS
<1>3. /\ r \in Rows /\ o \in Order
      /\ row[r].status # "NONE" /\ row[r].amount >= Total(o)
  BY <1>1, <1>2, OrderOfRow DEF IInv, Shaped, TaskGood
<1>4. PICK n \in 1..MaxRows : r = <<o, n>>
  BY <1>2, <1>3 DEF Rows, OrderOf
<1>5. /\ a[1] \in {"none", "processing", "reverted"}
      /\ a[2] \in {"COMPLETED", "PROCESSING", "FAILED", "LOST"}
      /\ revert[o] = "reverted" => a[1] = "reverted"
      /\ a[2] = "COMPLETED" => a[1] = "reverted"
  BY <1>1, <1>2, <1>3, AnswerShape
<1>6. /\ revert' \in [Order -> {"none", "processing", "reverted"}]
      /\ revert'[o] = a[1]
      /\ \A p \in Order \ {o} : revert'[p] = revert[p]
  BY <1>1, <1>2, <1>3, <1>5 DEF IInv, Shaped
<1>7. Set(k, Work("write", r, FALSE, b)) /\ b \in {"COMPLETED", "PROCESSING", "FAILED", "LOST"}
  BY <1>1, <1>5
<1>8. task'[k] = Work("write", r, FALSE, b) /\ \A j \in Task \ {k} : task'[j] = task[j]
  BY <1>7, SetOne
<1>9. Shaped'
  BY <1>3, <1>6, <1>7, WorkType, SetTask DEF IInv, Shaped
<1>10. Kept /\ StaysBack
  BY <1>5, <1>6 DEF Kept, StaysBack
<1>11. Numbered'
  BY SameNumbers DEF IInv
<1>12. TaskGood(k)'
  BY <1>2, <1>3, <1>5, <1>6, <1>8 DEF TaskGood, Work, OrderOf
<1>13. \A p \in Order : revert'[p] # "none" =>
         revert[p] # "none"
           \/ \E m \in 1..MaxRows : row[<<p, m>>].status # "NONE"
                                    /\ row[<<p, m>>].amount >= Total(p)
  BY <1>3, <1>4, <1>6
<1>14. \A j \in Task : task'[j] = task[j] \/ TaskGood(j)'
  BY <1>8, <1>12
<1> QED
  BY <1>9, <1>10, <1>11, <1>13, <1>14, Together

LEMMA RevertEndsStep ==
  ASSUME IInv, NEW o \in Order, RevertEnds(o)
  PROVE  IInv'
<1>1. /\ revert' \in [Order -> {"none", "processing", "reverted"}]
      /\ \A p \in Order : revert'[p] # "none" => revert[p] # "none"
      /\ StaysBack
  BY DEF IInv, Shaped, RevertEnds, StaysBack
<1>2. Shaped' /\ Kept
  BY <1>1 DEF IInv, Shaped, Kept, RevertEnds
<1>3. Numbered'
  BY SameNumbers DEF IInv, RevertEnds
<1> QED
  BY <1>1, <1>2, <1>3, Together DEF RevertEnds
-----------------------------------------------------------------------------
(* Steps that write a refund *)

LEMMA RowRecord ==
  ASSUME IInv, NEW r \in Rows
  PROVE  \E st, f, t, a :
           /\ st \in RefundStatus /\ t \in BOOLEAN
           /\ f \in {"none", "transaction", "manual"}
           /\ row[r] = [status |-> st, amount |-> a, ref |-> f, tried |-> t]
<1>1. PICK S : row \in [Rows -> RowShape(S)]
  BY DEF IInv, Shaped
<1>2. row[r] \in RowShape(S)
  BY <1>1
<1> QED
  BY <1>2 DEF RowShape

\* What the three kinds of write make of a refund, its amount left alone.
LEMMA AttemptedRow ==
  ASSUME IInv, NEW r \in Rows, NEW b \in BOOLEAN, NEW x, x = Attempted(r, b)
  PROVE  /\ x.amount = row[r].amount
         /\ x.status = row[r].status /\ x.tried = TRUE
         /\ x.ref \in {"none", "transaction", "manual"} /\ x.tried \in BOOLEAN
         /\ x = [status |-> x.status, amount |-> x.amount, ref |-> x.ref,
                 tried |-> x.tried]
<1>1. PICK st, f, t, v :
        /\ st \in RefundStatus /\ t \in BOOLEAN
        /\ f \in {"none", "transaction", "manual"}
        /\ row[r] = [status |-> st, amount |-> v, ref |-> f, tried |-> t]
  BY RowRecord
<1>2. x = [status |-> st, amount |-> v, ref |-> IF b THEN "none" ELSE f, tried |-> TRUE]
  <2>1. PICK w : w = row[r]
    OBVIOUS
  <2>2. x = [w EXCEPT !.tried = TRUE, !.ref = IF b THEN "none" ELSE w.ref]
    BY <2>1, Zenon DEF Attempted
  <2>3. PICK g : g = IF b THEN "none" ELSE w.ref
    OBVIOUS
  <2>4. x = [w EXCEPT !.tried = TRUE, !.ref = g]
    BY <2>2, <2>3, Zenon
  <2>5. PICK yes, u : yes = TRUE /\ u = [w EXCEPT !.tried = yes]
    OBVIOUS
  <2>6. x = [u EXCEPT !.ref = g]
    BY <2>4, <2>5, Zenon
  <2>7. u = [status |-> st, amount |-> v, ref |-> f, tried |-> yes]
    <3>1. u = [w EXCEPT !.tried = yes]
      BY <2>5
    <3> QED
      BY <1>1, <2>1, <3>1
  <2>8. g = IF b THEN "none" ELSE f
    BY <1>1, <2>1, <2>3
  <2> QED
    <3>1. x = [status |-> st, amount |-> v, ref |-> g, tried |-> yes]
      BY <2>6, <2>7
    <3> QED
      BY <2>5, <2>8, <3>1, Zenon
<1> QED
  BY <1>1, <1>2

LEMMA OutcomeRow ==
  ASSUME IInv, NEW r \in Rows, NEW a \in {"COMPLETED", "PROCESSING", "FAILED", "LOST"},
         NEW x, x = Outcome(a, r)
  PROVE  /\ x.amount = row[r].amount
         /\ x.status \in RefundStatus \ {"NONE"} /\ (x.status = "COMPLETED" => a = "COMPLETED")
         /\ x.ref \in {"none", "transaction", "manual"} /\ x.tried \in BOOLEAN
         /\ x = [status |-> x.status, amount |-> x.amount, ref |-> x.ref,
                 tried |-> x.tried]
<1>1. PICK st, f, t, v :
        /\ st \in RefundStatus /\ t \in BOOLEAN
        /\ f \in {"none", "transaction", "manual"}
        /\ row[r] = [status |-> st, amount |-> v, ref |-> f, tried |-> t]
  BY RowRecord
<1>2. CASE a = "LOST"
  <2>1. x = [status |-> "FAILED", amount |-> v, ref |-> f, tried |-> t]
    BY <1>1, <1>2 DEF Outcome
  <2> QED
    BY <1>1, <2>1 DEF RefundStatus
<1>3. CASE a # "LOST"
  <2>1. x = [status |-> a, amount |-> v, ref |-> "transaction", tried |-> t]
    <3>1. PICK w : w = row[r]
      OBVIOUS
    <3>2. PICK u : u = [w EXCEPT !.status = a]
      OBVIOUS
    <3>3. x = [w EXCEPT !.status = a, !.ref = "transaction"]
      BY <1>3, <3>1, Zenon DEF Outcome
    <3>4. x = [u EXCEPT !.ref = "transaction"]
      BY <3>2, <3>3, Zenon
    <3>5. u = [status |-> a, amount |-> v, ref |-> f, tried |-> t]
      BY <1>1, <3>1, <3>2
    <3> QED
      BY <3>4, <3>5
  <2> QED
    BY <1>1, <1>3, <2>1 DEF RefundStatus
<1> QED
  BY <1>2, <1>3

LEMMA DoneByHandRow ==
  ASSUME IInv, NEW r \in Rows, NEW x, x = DoneByHand(r)
  PROVE  /\ x.amount = row[r].amount
         /\ x.status = "COMPLETED"
         /\ x.ref \in {"none", "transaction", "manual"} /\ x.tried \in BOOLEAN
         /\ x = [status |-> x.status, amount |-> x.amount, ref |-> x.ref,
                 tried |-> x.tried]
<1>1. PICK st, f, t, v :
        /\ st \in RefundStatus /\ t \in BOOLEAN
        /\ f \in {"none", "transaction", "manual"}
        /\ row[r] = [status |-> st, amount |-> v, ref |-> f, tried |-> t]
  BY RowRecord
<1>2. x = [status |-> "COMPLETED", amount |-> v, ref |-> "manual", tried |-> t]
  <2>1. PICK w : w = row[r]
    OBVIOUS
  <2>2. PICK u : u = [w EXCEPT !.status = "COMPLETED"]
    OBVIOUS
  <2>3. x = [w EXCEPT !.status = "COMPLETED", !.ref = "manual"]
    BY <2>1, Zenon DEF DoneByHand
  <2>4. x = [u EXCEPT !.ref = "manual"]
    BY <2>2, <2>3, Zenon
  <2>5. u = [status |-> "COMPLETED", amount |-> v, ref |-> f, tried |-> t]
    BY <1>1, <2>1, <2>2
  <2> QED
    BY <2>4, <2>5
<1> QED
  BY <1>1, <1>2 DEF RefundStatus

\* A task writes its refund, and goes on.
LEMMA WriteStep ==
  ASSUME IInv, NEW k \in Task, NEW r \in Rows, row[r].status # "NONE", NEW x,
         x.amount = row[r].amount, x.status \in RefundStatus \ {"NONE"},
         x.ref \in {"none", "transaction", "manual"}, x.tried \in BOOLEAN,
         x = [status |-> x.status, amount |-> x.amount, ref |-> x.ref,
              tried |-> x.tried],
         row' = [row EXCEPT ![r] = x],
         byHand' \in {byHand, byHand \cup {r}},
         x.status = "COMPLETED" =>
           row[r].status = "COMPLETED" \/ r \in byHand' \/ revert[OrderOf(r)] = "reverted",
         UNCHANGED revert,
         NEW s \in TaskType, s.pc # "idle" => s.row \in Rows, Set(k, s), TaskGood(k)'
  PROVE  IInv'
<1>1. /\ \E S : row' \in [Rows -> RowShape(S)]
      /\ Kept
      /\ Numbered'
      /\ \A q \in Rows : q # r => row'[q] = row[q]
      /\ row'[r] = x
  BY OneRow
<1>2. /\ task' \in [Task -> TaskType]
      /\ \A j \in Task : task'[j].pc # "idle" => task'[j].row \in Rows
  BY SetTask DEF IInv
<1>3. Shaped'
  BY <1>1, <1>2 DEF IInv, Shaped
<1>4. \A j \in Task : task'[j] = task[j] \/ TaskGood(j)'
  BY DEF IInv, Shaped, Set
<1>5. StaysBack
  BY DEF StaysBack
<1>6. \A q \in Rows : row'[q].status = "COMPLETED" =>
        row[q].status = "COMPLETED" \/ q \in byHand' \/ revert'[OrderOf(q)] = "reverted"
  BY <1>1
<1> QED
  BY <1>1, <1>3, <1>4, <1>5, <1>6, Together

LEMMA AttemptStep ==
  ASSUME IInv, NEW k \in Task, Attempt(k)
  PROVE  IInv'
<1>1. PICK r, b : r = task[k].row /\ b = task[k].renew
  OBVIOUS
<1>2. /\ r \in Rows /\ b \in BOOLEAN /\ row[r].status # "NONE"
      /\ row[r].amount >= Total(OrderOf(r))
  BY <1>1 DEF Attempt, IInv, Shaped, TaskType, TaskGood
<1>3. PICK x : x = Attempted(r, b)
  OBVIOUS
<1>4. /\ x.amount = row[r].amount /\ x.status = row[r].status
      /\ x.ref \in {"none", "transaction", "manual"} /\ x.tried = TRUE
      /\ x = [status |-> x.status, amount |-> x.amount, ref |-> x.ref, tried |-> x.tried]
  BY <1>2, <1>3, AttemptedRow
<1>5. row' = [row EXCEPT ![r] = x]
  BY <1>1, <1>3 DEF Attempt
<1>6. Set(k, Work("call", r, FALSE, "none"))
  BY <1>1 DEF Attempt
<1>7. task'[k] = Work("call", r, FALSE, "none") /\ row'[r] = x
  <2>1. PICK S : row \in [Rows -> RowShape(S)]
    BY DEF IInv, Shaped
  <2> QED
    BY <1>2, <1>5, <1>6, <2>1, SetOne
<1>8. TaskGood(k)'
  BY <1>2, <1>4, <1>7 DEF TaskGood, Work, Total, OrderOf
<1>9. /\ Work("call", r, FALSE, "none") \in TaskType
      /\ Work("call", r, FALSE, "none").row \in Rows
  BY <1>2, WorkType
<1>10. x.status \in RefundStatus \ {"NONE"} /\ (x.status = "COMPLETED" => row[r].status = "COMPLETED")
  <2>1. PICK S : row \in [Rows -> RowShape(S)]
    BY DEF IInv, Shaped
  <2>2. row[r].status \in RefundStatus
    BY <1>2, <2>1 DEF RowShape
  <2> QED
    BY <1>2, <1>4, <2>2
<1>11. byHand' \in {byHand, byHand \cup {r}} /\ UNCHANGED revert
  BY DEF Attempt
<1>12. x.tried \in BOOLEAN
  BY <1>4
<1> QED
  BY <1>2, <1>4, <1>5, <1>6, <1>8, <1>9, <1>10, <1>11, <1>12, WriteStep

LEMMA WriteAnswerStep ==
  ASSUME IInv, NEW k \in Task, WriteAnswer(k)
  PROVE  IInv'
<1>1. PICK r, a : r = task[k].row /\ a = task[k].answer
  OBVIOUS
<1>2. /\ r \in Rows /\ row[r].status # "NONE"
      /\ a \in {"COMPLETED", "PROCESSING", "FAILED", "LOST"}
      /\ a = "COMPLETED" => revert[OrderOf(r)] = "reverted"
  BY <1>1 DEF WriteAnswer, IInv, Shaped, TaskType, TaskGood
<1>3. PICK x : x = Outcome(a, r)
  OBVIOUS
<1>4. /\ x.amount = row[r].amount
      /\ x.status \in RefundStatus \ {"NONE"}
      /\ x.ref \in {"none", "transaction", "manual"} /\ x.tried \in BOOLEAN
      /\ x = [status |-> x.status, amount |-> x.amount, ref |-> x.ref, tried |-> x.tried]
      /\ x.status = "COMPLETED" => a = "COMPLETED"
  BY <1>2, <1>3, OutcomeRow
<1>5. row' = [row EXCEPT ![r] = x]
  BY <1>1, <1>3 DEF WriteAnswer
<1>6. Set(k, Idle) /\ byHand' \in {byHand, byHand \cup {r}} /\ UNCHANGED revert
  BY DEF WriteAnswer
<1>7. TaskGood(k)'
  BY <1>6, GoesIdle
<1> QED
  BY <1>2, <1>4, <1>5, <1>6, <1>7, IdleType, WriteStep

LEMMA ManualWriteStep ==
  ASSUME IInv, NEW k \in Task, ManualWrite(k)
  PROVE  IInv'
<1>1. PICK r : r = task[k].row
  OBVIOUS
<1>2. r \in Rows /\ row[r].status # "NONE"
  BY <1>1 DEF ManualWrite, IInv, Shaped, TaskType, TaskGood
<1>3. PICK x : x = DoneByHand(r)
  OBVIOUS
<1>4. /\ x.amount = row[r].amount
      /\ x.status \in RefundStatus \ {"NONE"}
      /\ x.ref \in {"none", "transaction", "manual"} /\ x.tried \in BOOLEAN
      /\ x = [status |-> x.status, amount |-> x.amount, ref |-> x.ref, tried |-> x.tried]
  BY <1>2, <1>3, DoneByHandRow DEF RefundStatus
<1>5. row' = [row EXCEPT ![r] = x]
  BY <1>1, <1>3 DEF ManualWrite
<1>6. Set(k, Idle) /\ byHand' = byHand \cup {r} /\ UNCHANGED revert
  BY <1>1 DEF ManualWrite
<1>7. TaskGood(k)'
  BY <1>6, GoesIdle
<1> QED
  BY <1>2, <1>4, <1>5, <1>6, <1>7, IdleType, WriteStep

\* The decision of a refund, and the execution that follows it.
LEMMA DecideStep ==
  ASSUME IInv, NEW k \in Task, NEW o \in Order, NEW amount, NEW fees,
         NextRow(o) \in Rows, Decide(o, amount, fees),
         Set(k, Work("load", NextRow(o), FALSE, "none")),
         UNCHANGED <<revert, byHand>>
  PROVE  IInv'
<1>1. PICK r, x : r = NextRow(o) /\ x = NewRefund(amount)
  OBVIOUS
<1>2. PICK n : n = Cardinality(Used(o)) + 1
  OBVIOUS
<1>3. r \in Rows /\ r = <<o, n>> /\ n \in 1..MaxRows
  BY <1>1, <1>2 DEF NextRow, Rows
<1>4. IsFiniteSet(Used(o)) /\ Cardinality(Used(o)) \in Nat /\ Used(o) = 1..(n - 1)
  BY <1>2, UsedFinite DEF IInv, Numbered
<1>5. row[r].status = "NONE"
  BY <1>2, <1>3, <1>4 DEF Used
<1>6. x.status = "PENDING" /\ x \in RowShape({amount})
  BY <1>1 DEF NewRefund, NoRefund, RowShape, RefundStatus
<1>7. row' = [row EXCEPT ![r] = x]
  BY <1>1 DEF Decide
<1>8. \E S : row' \in [Rows -> RowShape(S)]
  BY <1>6, <1>7, SetRow DEF IInv, Shaped
<1>9. row'[r] = x /\ \A q \in Rows : q # r => row'[q] = row[q]
  <2>1. PICK S : row \in [Rows -> RowShape(S)]
    BY DEF IInv, Shaped
  <2> QED
    BY <1>3, <1>7, <2>1
<1>10. Kept
  BY <1>5, <1>9 DEF Kept
<1>11. Numbered'
  <2> SUFFICES ASSUME NEW p \in Order
               PROVE  Used(p)' = 1..Cardinality(Used(p)')
    BY DEF Numbered, Used
  <2>1. CASE p = o
    <3>1. Used(p)' = Used(o) \cup {n}
      BY <1>3, <1>6, <1>9, <2>1 DEF Used, Rows
    <3>2. n \in Nat /\ n \notin Used(o)
      BY <1>3, <1>4
    <3>3. Cardinality(Used(o) \cup {n}) = n
      BY <1>2, <1>4, <3>2, FS_AddElement
    <3>4. Used(o) \cup {n} = 1..n
      <4>1. PICK U : U = Used(o)
        OBVIOUS
      <4>2. U = 1..(n - 1) /\ n \in Nat \ {0}
        BY <1>3, <1>4, <4>1 DEF Rows
      <4> QED
        BY <4>1, <4>2
    <3> QED
      BY <3>1, <3>3, <3>4
  <2>2. CASE p # o
    <3>1. Used(p)' = Used(p)
      BY <1>3, <1>9, <2>2 DEF Used, Rows
    <3> QED
      BY <3>1 DEF IInv, Numbered
  <2> QED
    BY <2>1, <2>2
<1>12. Set(k, Work("load", r, FALSE, "none"))
  BY <1>1
<1>13. /\ task' \in [Task -> TaskType]
       /\ \A j \in Task : task'[j].pc # "idle" => task'[j].row \in Rows
  BY <1>3, <1>12, WorkType, SetTask DEF IInv
<1>14. Shaped'
  BY <1>8, <1>13 DEF IInv, Shaped
<1>15. task'[k] = Work("load", r, FALSE, "none") /\ \A j \in Task \ {k} : task'[j] = task[j]
  BY <1>12, SetOne
<1>16. TaskGood(k)'
  BY <1>6, <1>9, <1>15 DEF TaskGood, Work
<1>17. \A j \in Task : task'[j] = task[j] \/ TaskGood(j)'
  BY <1>15, <1>16
<1>18. StaysBack /\ \A q \in Rows : row'[q].status = "COMPLETED" => row[q].status = "COMPLETED"
  BY <1>6, <1>9 DEF StaysBack
<1> QED
  BY <1>10, <1>11, <1>14, <1>17, <1>18, Together

LEMMA RefundOrderStep ==
  ASSUME IInv, NEW k \in Task, NEW o \in Order, NEW fees \in BOOLEAN,
         RefundOrder(k, o, fees)
  PROVE  IInv'
<1>1. PICK amount : Decide(o, amount, fees)
  BY DEF RefundOrder
<1>2. NextRow(o) \in Rows
  BY UsedFinite, BoundsAssumption DEF RefundOrder, NextRow, Rows
<1> QED
  BY <1>1, <1>2, DecideStep DEF RefundOrder

LEMMA CancelEachStep ==
  ASSUME IInv, CancelEach
  PROVE  IInv'
<1>1. PICK o \in sweep.todo :
        CancelFree(o) \/ CancelSkip(o) \/ (\E k \in Task : CancelRefund(k, o))
          \/ CancelRefused(o)
  BY DEF CancelEach
<1>2. CASE CancelFree(o) \/ CancelSkip(o) \/ CancelRefused(o)
  BY <1>2, StillStep DEF CancelEach, CancelFree, CancelSkip, CancelRefused, orderVars
<1>3. ASSUME NEW k \in Task, CancelRefund(k, o) PROVE IInv'
  <2>1. NextRow(o) \in Rows /\ o \in Order
    BY <1>3 DEF CancelRefund, NextRow, Rows
  <2> QED
    BY <1>3, <2>1, DecideStep DEF CancelRefund, CancelEach
<1> QED
  BY <1>1, <1>2, <1>3
-----------------------------------------------------------------------------
LEMMA NextIInv ==
  ASSUME IInv, [Next]_vars
  PROVE  IInv'
<1>1. ASSUME NEW k \in Task, NEW o \in Order, NEW fees \in BOOLEAN,
             RefundOrder(k, o, fees)
      PROVE  IInv'
  BY <1>1, RefundOrderStep
<1>2. ASSUME NEW k \in Task, NEW r \in Rows, Retry(k, r) \/ ManualRead(k, r)
      PROVE  IInv'
  BY <1>2, RetryStep, ManualReadStep
<1>3. ASSUME NEW k \in Task, Proceed(k) PROVE IInv'
  <2>1. CASE Call(k)
    <3>1. PICK a \in Answers(OrderOf(task[k].row)) :
            /\ revert' = [revert EXCEPT ![OrderOf(task[k].row)] = a[1]]
            /\ Set(k, Work("write", task[k].row, FALSE, a[2]))
      BY <2>1 DEF Call
    <3> QED
      BY <2>1, <3>1, CalledStep DEF Call
  <2> QED
    BY <1>3, <2>1, LoadStep, AttemptStep, PollAnswerStep, WriteAnswerStep,
       ManualWriteStep
    DEF Proceed
<1>4. ASSUME NEW k \in Task, CallLost(k) PROVE IInv'
  <2>1. PICK a \in Answers(OrderOf(task[k].row)) :
          /\ revert' = [revert EXCEPT ![OrderOf(task[k].row)] = a[1]]
          /\ Set(k, Work("write", task[k].row, FALSE, "LOST"))
    BY <1>4 DEF CallLost
  <2> QED
    BY <1>4, <2>1, CalledStep DEF CallLost
<1>5. ASSUME NEW k \in Task, Restart(k) PROVE IInv'
  BY <1>5, StopStep DEF Restart
<1>6. ASSUME NEW r \in Rows, Poll(r) PROVE IInv'
  BY <1>6, PollStartStep DEF Poll
<1>7. ASSUME NEW o \in Order, RevertEnds(o) PROVE IInv'
  BY <1>7, RevertEndsStep
<1>8. ASSUME NEW o \in Order, Settle(o) \/ ConfirmAgain(o) PROVE IInv'
  BY <1>8, StillStep DEF Settle, ConfirmAgain
<1>9. CASE CancelEvent \/ CancelList \/ CancelTickets
  BY <1>9, StillStep DEF CancelEvent, CancelList, CancelTickets
<1>10. CASE CancelEach
  BY <1>10, CancelEachStep
<1>11. CASE UNCHANGED vars
  BY <1>11, StillStep DEF vars
<1> QED
  BY <1>1, <1>2, <1>3, <1>4, <1>5, <1>6, <1>7, <1>8, <1>9, <1>10, <1>11
  DEF Next, Cancelling

LEMMA IInvCorrect == Spec => []IInv
BY InitIInv, NextIInv, PTL DEF Spec

\* Whatever overlaps, restarts or is lost, a refund is shown as done only
\* when its money is back, or an administrator said so.
THEOREM CompletionCorrect == Spec => []CompletionIsTrue
<1>1. IInv => CompletionIsTrue
  BY DEF IInv
<1> QED
  BY <1>1, IInvCorrect, PTL

\* A provider is asked to give a payment back only for a refund of the whole
\* of it, however many partial refunds were decided before.
THEOREM RevertedCorrect == Spec => []RevertedIsWhole
<1>1. IInv => RevertedIsWhole
  BY DEF IInv
<1> QED
  BY <1>1, IInvCorrect, PTL
-----------------------------------------------------------------------------
(* What the refunds of an order add up to *)

Counted(g) == {u \in (1..MaxRows) \X Nat : 1 <= u[2] /\ u[2] <= g[u[1]]}

UnitsOf(x, o) == UNION {{n} \X (1..x[<<o, n>>].amount) : n \in 1..MaxRows}

LEMMA UnitsCounted ==
  ASSUME NEW o, NEW x, NEW g \in [1..MaxRows -> Nat],
         \A n \in 1..MaxRows : x[<<o, n>>].amount = g[n]
  PROVE  UnitsOf(x, o) = Counted(g)
<1>1. \A n \in 1..MaxRows : {n} \X (1..x[<<o, n>>].amount) = {n} \X (1..g[n])
  OBVIOUS
<1>2. \A u : u \in UnitsOf(x, o) <=> \E n \in 1..MaxRows : u \in {n} \X (1..x[<<o, n>>].amount)
  BY DEF UnitsOf
<1>3. \A u : u \in UnitsOf(x, o) <=> \E n \in 1..MaxRows : u \in {n} \X (1..g[n])
  BY <1>1, <1>2, Zenon
<1>4. \A u : u \in Counted(g) <=> \E n \in 1..MaxRows : u \in {n} \X (1..g[n])
  <2>1. \A n \in 1..MaxRows : g[n] \in Nat
    OBVIOUS
  <2> QED
    BY <2>1 DEF Counted
<1> QED
  BY <1>3, <1>4

\* What is decided for an order is a number, and depends on its refunds only.
LEMMA DecidedType ==
  ASSUME row \in [Rows -> RowType], NEW o \in Order
  PROVE  IsFiniteSet(Units(o)) /\ Decided(o) \in Nat
<1> DEFINE f == [n \in 1..MaxRows |-> {n} \X (1..row[<<o, n>>].amount)]
           Parts == {{n} \X (1..row[<<o, n>>].amount) : n \in 1..MaxRows}
<1>1. IsFiniteSet(1..MaxRows)
  BY FS_Interval, BoundsAssumption
<1>2. f \in Surjection(1..MaxRows, Parts)
  BY DEF Surjection
<1>3. IsFiniteSet(Parts)
  <2> HIDE DEF f, Parts
  <2> QED
    BY <1>1, <1>2, FS_Surjection
<1>4. ASSUME NEW n \in 1..MaxRows PROVE IsFiniteSet({n} \X (1..row[<<o, n>>].amount))
  <2>1. row[<<o, n>>].amount \in Nat
    BY DEF Rows, RowType
  <2>2. PICK a \in Nat : row[<<o, n>>].amount = a
    BY <2>1
  <2>3. IsFiniteSet(1..a)
    BY FS_Interval
  <2>4. IsFiniteSet({n})
    BY FS_Singleton
  <2> QED
    BY <2>2, <2>3, <2>4, FS_Product
<1>5. \A P \in Parts : IsFiniteSet(P)
  BY <1>4
<1>6. Units(o) = UNION Parts
  BY DEF Units
<1>7. IsFiniteSet(UNION Parts)
  <2> HIDE DEF Parts
  <2> QED
    BY <1>3, <1>5, FS_UNION
<1> QED
  BY <1>6, <1>7, FS_CardinalityType DEF Decided

LEMMA SameDecided ==
  ASSUME NEW o, \A n \in 1..MaxRows : row'[<<o, n>>].amount = row[<<o, n>>].amount
  PROVE  Decided(o)' = Decided(o)
<1>1. Units(o)' = Units(o)
  BY DEF Units
<1> QED
  BY <1>1 DEF Decided

\* Refunds that do not exist decide nothing,
LEMMA NothingDecided ==
  ASSUME NEW o, \A n \in 1..MaxRows : row[<<o, n>>].amount = 0
  PROVE  Decided(o) = 0
<1> DEFINE g == [n \in 1..MaxRows |-> 0]
<1>1. Units(o) = Counted(g)
  BY UnitsCounted DEF Units, UnitsOf
<1>2. Counted(g) = {}
  BY DEF Counted
<1> QED
  BY <1>1, <1>2, FS_EmptySet DEF Decided

\* and a new one adds its amount.
LEMMA DecidedAdd ==
  ASSUME row \in [Rows -> RowType], NEW o \in Order, NEW n \in 1..MaxRows, NEW a \in Nat,
         row[<<o, n>>].amount = 0, row'[<<o, n>>].amount = a,
         \A m \in (1..MaxRows) \ {n} : row'[<<o, m>>].amount = row[<<o, m>>].amount
  PROVE  Decided(o)' = Decided(o) + a
<1> DEFINE New == {n} \X (1..a)
<1>1. IsFiniteSet(New) /\ Cardinality(New) = a
  <2>1. IsFiniteSet(1..a) /\ Cardinality(1..a) = a
    BY FS_Interval
  <2>2. IsFiniteSet({n}) /\ Cardinality({n}) = 1
    BY FS_Singleton
  <2>3. IsFiniteSet(New) /\ Cardinality(New) = 1 * Cardinality(1..a)
    BY <2>1, <2>2, FS_Product
  <2> QED
    BY <2>1, <2>3
<1> DEFINE g == [m \in 1..MaxRows |-> row[<<o, m>>].amount]
           h == [g EXCEPT ![n] = a]
<1>2. g \in [1..MaxRows -> Nat] /\ h \in [1..MaxRows -> Nat]
  BY DEF Rows, RowType
<1>3. Units(o) = Counted(g)
  BY <1>2, UnitsCounted DEF Units, UnitsOf
<1>4. Units(o)' = Counted(h)
  <2>1. \A m \in 1..MaxRows : row'[<<o, m>>].amount = h[m]
    OBVIOUS
  <2> HIDE DEF h
  <2>2. PICK y : y = row'
    OBVIOUS
  <2>3. UnitsOf(y, o) = Counted(h)
    <3>1. \A m \in 1..MaxRows : y[<<o, m>>].amount = h[m]
      BY <2>1, <2>2
    <3> HIDE DEF g
    <3> QED
      BY <1>2, <3>1, UnitsCounted
  <2> QED
    BY <2>2, <2>3, Zenon DEF Units, UnitsOf
<1>5. Counted(h) = Counted(g) \cup New /\ Counted(g) \cap New = {}
  <2>1. g[n] = 0 /\ h[n] = a /\ \A m \in (1..MaxRows) \ {n} : h[m] = g[m]
    OBVIOUS
  <2> HIDE DEF g, h
  <2> QED
    BY <1>2, <2>1 DEF Counted
<1>6. IsFiniteSet(Units(o)) /\ Decided(o) \in Nat
  BY DecidedType
<1> HIDE DEF New, g, h
<1>7. Cardinality(Units(o) \cup New) = Cardinality(Units(o)) + Cardinality(New) - Cardinality(Units(o) \cap New)
  BY <1>1, <1>6, FS_Union
<1>8. Decided(o)' = Decided(o) + a - 0
  BY <1>1, <1>3, <1>4, <1>5, <1>7, FS_EmptySet, Zenon DEF Decided
<1> QED
  BY <1>6, <1>8
-----------------------------------------------------------------------------
SweepType ==
  [pc : {"idle", "list", "each", "done", "stopped"}, todo : SUBSET Order,
   listed : SUBSET Order, reported : SUBSET Order, by : Task \cup {NoTask}]

\* Only paid orders that cost something have refunds, and what is not yet a
\* refund has no amount.
PaidRows ==
  \A r \in Rows :
    IF row[r].status = "NONE" THEN row[r].amount = 0 ELSE OrderOf(r) \in paid \ Free

\* An order the cancellation has dealt with is promised back, or reported.
Swept ==
  \A o \in sweep.listed \ (Free \cup sweep.todo) :
    Decided(o) = Total(o) \/ o \in sweep.reported

PInv ==
  /\ row \in [Rows -> RowType]
  /\ status \in [Order -> OrderStatus] /\ paid \subseteq Order /\ valid \subseteq paid
  /\ reversed \in [Order -> Nat] /\ faults \in Nat
  /\ sweep \in SweepType /\ sweep.todo \subseteq sweep.listed
  /\ sweep.pc = "done" => sweep.todo = {}
  /\ PaidRows /\ WithinPaid /\ RefundedIsVoid /\ Swept

LEMMA TotalType ==
  ASSUME NEW o \in Order
  PROVE  /\ Price[o] \in Nat /\ Fee[o] \in Nat /\ Total(o) \in Nat
         /\ o \notin Free => Total(o) > 0
BY OrderAssumption DEF Total

LEMMA InitPInv == Init => PInv
<1> SUFFICES ASSUME Init PROVE PInv
  OBVIOUS
<1>1. row \in [Rows -> RowType] /\ \A r \in Rows : row[r].status = "NONE" /\ row[r].amount = 0
  BY DEF Init, NoRefund, RowType, RefundStatus
<1>2. \A o \in Order : Decided(o) = 0
  BY <1>1, NothingDecided DEF Rows
<1>3. WithinPaid
  BY <1>2, TotalType DEF WithinPaid
<1>4. RefundedIsVoid
  BY <1>2, TotalType DEF RefundedIsVoid
<1>5. /\ status \in [Order -> OrderStatus] /\ paid \subseteq Order /\ valid \subseteq paid
      /\ reversed \in [Order -> Nat] /\ faults \in Nat
  BY DEF Init, OrderStatus
<1>6. sweep \in SweepType /\ sweep.todo = {} /\ sweep.listed = {}
  BY DEF Init, Sweep, SweepType
<1> QED
  BY <1>1, <1>3, <1>4, <1>5, <1>6 DEF PInv, PaidRows, Swept

\* A step that changes no amount: what it does to the orders and to the
\* cancellation is all there is to show.
LEMMA SameAmounts ==
  ASSUME PInv, row' \in [Rows -> RowType],
         \A r \in Rows : /\ row'[r].amount = row[r].amount
                         /\ row'[r].status = "NONE" <=> row[r].status = "NONE",
         status' \in [Order -> OrderStatus], paid \subseteq paid', paid' \subseteq Order,
         valid' \subseteq paid', UNCHANGED reversed, faults' \in Nat,
         sweep' \in SweepType, sweep'.todo \subseteq sweep'.listed,
         sweep'.pc = "done" => sweep'.todo = {},
         \A o \in Order \ Free : o \in valid' => o \in valid \/ Decided(o) = 0,
         \A o \in sweep'.listed \ (Free \cup sweep'.todo) :
           \/ o \in sweep.listed \ sweep.todo /\ sweep.reported \subseteq sweep'.reported
           \/ Decided(o) = Total(o)
           \/ o \in sweep'.reported
  PROVE  PInv'
<1>1. \A o \in Order : Decided(o)' = Decided(o)
  BY SameDecided DEF Rows
<1>2. PaidRows'
  BY DEF PInv, PaidRows, OrderOf
<1>3. WithinPaid'
  BY <1>1 DEF PInv, WithinPaid, Total
<1>4. RefundedIsVoid'
  <2> SUFFICES ASSUME NEW o \in Order \ Free, Decided(o) = Total(o) PROVE o \notin valid'
    BY <1>1 DEF RefundedIsVoid, Total
  <2>1. o \notin valid /\ Decided(o) # 0
    BY TotalType DEF PInv, RefundedIsVoid
  <2> QED
    BY <2>1
<1>5. Swept'
  <2> SUFFICES ASSUME NEW o \in sweep'.listed \ (Free \cup sweep'.todo)
               PROVE  Decided(o) = Total(o) \/ o \in sweep'.reported
    <3>1. sweep'.listed \subseteq Order
      BY DEF SweepType
    <3> QED
      BY <1>1, <3>1 DEF Swept, Total
  <2> QED
    BY DEF PInv, Swept
<1> QED
  BY <1>2, <1>3, <1>4, <1>5 DEF PInv

\* One that changes neither orders nor cancellation.
LEMMA RowsStep ==
  ASSUME PInv, row' \in [Rows -> RowType],
         \A r \in Rows : /\ row'[r].amount = row[r].amount
                         /\ row'[r].status = "NONE" <=> row[r].status = "NONE",
         UNCHANGED <<orderVars, reversed>>, faults' \in Nat,
         sweep' \in {sweep, [sweep EXCEPT !.pc = "stopped"]}
  PROVE  PInv'
<1>1. /\ sweep' \in SweepType
      /\ sweep'.todo = sweep.todo /\ sweep'.listed = sweep.listed
      /\ sweep'.reported = sweep.reported
      /\ sweep'.pc = "done" => sweep'.todo = {}
  BY DEF PInv, SweepType
<1>2. \A o \in sweep'.listed \ (Free \cup sweep'.todo) :
        o \in sweep.listed \ sweep.todo /\ sweep.reported \subseteq sweep'.reported
  BY <1>1
<1>3. /\ status' \in [Order -> OrderStatus] /\ paid \subseteq paid' /\ paid' \subseteq Order
      /\ valid' \subseteq paid' /\ \A o \in Order \ Free : o \in valid' => o \in valid
  BY DEF PInv, orderVars
<1>4. sweep'.todo \subseteq sweep'.listed /\ UNCHANGED reversed
  BY <1>1 DEF PInv
<1> QED
  BY <1>1, <1>2, <1>3, <1>4, SameAmounts

LEMMA NoRowStep ==
  ASSUME PInv, UNCHANGED <<orderVars, row, reversed>>, faults' \in Nat,
         sweep' \in {sweep, [sweep EXCEPT !.pc = "stopped"]}
  PROVE  PInv'
<1>1. row' \in [Rows -> RowType]
  BY DEF PInv
<1> QED
  BY <1>1, RowsStep

\* One refund is written, its amount left alone.
LEMMA OneRowStep ==
  ASSUME PInv, NEW r \in Rows, row[r].status # "NONE", NEW x,
         x.amount = row[r].amount, x.status \in RefundStatus \ {"NONE"},
         x.ref \in {"none", "transaction", "manual"}, x.tried \in BOOLEAN,
         x = [status |-> x.status, amount |-> x.amount, ref |-> x.ref,
              tried |-> x.tried],
         row' = [row EXCEPT ![r] = x],
         UNCHANGED <<orderVars, reversed, sweep, faults>>
  PROVE  PInv'
<1>1. row \in [Rows -> RowType] /\ faults' \in Nat
  BY DEF PInv
<1>2. row[r].amount \in Nat
  BY <1>1 DEF RowType
<1>3. x \in RowType
  BY <1>2 DEF RowType
<1>4. row' \in [Rows -> RowType] /\ row'[r] = x /\ \A q \in Rows \ {r} : row'[q] = row[q]
  BY <1>1, <1>3
<1>5. \A q \in Rows : /\ row'[q].amount = row[q].amount
                      /\ row'[q].status = "NONE" <=> row[q].status = "NONE"
  BY <1>4
<1> QED
  BY <1>1, <1>4, <1>5, RowsStep
-----------------------------------------------------------------------------
(* The decision of a refund keeps what is decided within what was paid *)

LEMMA DecidePInv ==
  ASSUME IInv, PInv, NEW o \in Order, NEW amount \in Nat, NEW fees \in BOOLEAN,
         NextRow(o) \in Rows, MayRefund(o), SomethingLeft(o, fees),
         amount <= Left(o, fees), Decide(o, amount, fees)
  PROVE  /\ row' \in [Rows -> RowType] /\ status' \in [Order -> OrderStatus]
         /\ paid' \subseteq Order /\ valid' \subseteq paid'
         /\ reversed' \in [Order -> Nat]
         /\ PaidRows' /\ WithinPaid' /\ RefundedIsVoid'
         /\ \A p \in Order \ {o} : Decided(p)' = Decided(p)
         /\ Decided(o)' = Decided(o) + amount
         /\ Decided(o) < Total(o)
<1>1. PICK n : n = Cardinality(Used(o)) + 1
  OBVIOUS
<1>2. NextRow(o) = <<o, n>> /\ n \in 1..MaxRows /\ <<o, n>> \in Rows
  BY <1>1 DEF NextRow, Rows
<1>3. n \notin Used(o)
  <2>1. PICK m : m = Cardinality(Used(o))
    OBVIOUS
  <2>2. m \in Nat /\ Used(o) = 1..m /\ n = m + 1
    BY <1>1, <2>1, UsedFinite DEF IInv, Numbered
  <2> QED
    BY <2>2
<1>4. row[<<o, n>>].status = "NONE" /\ row[<<o, n>>].amount = 0
  BY <1>2, <1>3 DEF Used, PInv, PaidRows
<1>5. PICK x : x = NewRefund(amount)
  OBVIOUS
<1>6. x \in RowType /\ x.status = "PENDING" /\ x.amount = amount
  BY <1>5 DEF NewRefund, NoRefund, RowType, RefundStatus
<1>7. row \in [Rows -> RowType] /\ row' = [row EXCEPT ![<<o, n>>] = x]
  BY <1>2, <1>5 DEF PInv, Decide
<1>8. /\ row' \in [Rows -> RowType] /\ row'[<<o, n>>] = x
      /\ \A q \in Rows : q # <<o, n>> => row'[q] = row[q]
  BY <1>2, <1>6, <1>7
<1>9. \A p \in Order \ {o} : Decided(p)' = Decided(p)
  <2> TAKE p \in Order \ {o}
  <2>1. \A m \in 1..MaxRows : <<p, m>> \in Rows /\ <<p, m>> # <<o, n>>
    BY DEF Rows
  <2> QED
    BY <1>8, <2>1, SameDecided
<1>10. Decided(o)' = Decided(o) + amount
  <2>1. \A m \in (1..MaxRows) \ {n} : <<o, m>> \in Rows /\ <<o, m>> # <<o, n>>
    BY DEF Rows
  <2> QED
    BY <1>2, <1>4, <1>6, <1>7, <1>8, <2>1, DecidedAdd
<1>11. /\ Decided(o) \in Nat /\ Ceiling(o, fees) \in Nat
       /\ Total(o) \in Nat /\ Ceiling(o, fees) <= Total(o)
  BY <1>7, DecidedType, TotalType DEF Ceiling, Total
<1>12. Decided(o) < Total(o) /\ amount <= Ceiling(o, fees) - Decided(o)
  BY <1>11 DEF SomethingLeft, Left
<1>13. Decided(o)' <= Total(o)
  BY <1>10, <1>11, <1>12
<1>14. status' \in [Order -> OrderStatus] /\ paid' = paid /\ o \in paid \ Free
  <2>1. PICK s : s = (IF amount >= Left(o, fees) THEN "REFUNDED" ELSE "PARTIALLY_REFUNDED")
    OBVIOUS
  <2>2. status' = [status EXCEPT ![o] = s] /\ s \in OrderStatus
    BY <2>1 DEF Decide, OrderStatus
  <2> QED
    BY <2>2 DEF PInv, MayRefund, Decide
<1>15. valid' \subseteq valid /\ (amount >= Left(o, fees) => o \notin valid')
  BY DEF Decide, Voided
<1>16. reversed' \in [Order -> Nat]
  <2>1. CASE fees /\ reversed[o] = 0
    BY <2>1 DEF Decide, PInv
  <2>2. CASE ~(fees /\ reversed[o] = 0)
    BY <2>2 DEF Decide, PInv
  <2> QED
    BY <2>1, <2>2
<1>17. PaidRows'
  BY <1>6, <1>8, <1>14 DEF PInv, PaidRows, OrderOf
<1>18. WithinPaid'
  BY <1>9, <1>13 DEF PInv, WithinPaid, Total
<1>19. RefundedIsVoid'
  <2> SUFFICES ASSUME NEW p \in Order \ Free, Decided(p)' = Total(p) PROVE p \notin valid'
    BY DEF RefundedIsVoid, Total
  <2>1. CASE p = o
    <3>1. amount >= Left(o, fees)
      BY <1>10, <1>11, <1>12, <2>1 DEF Left
    <3> QED
      BY <1>15, <2>1, <3>1
  <2>2. CASE p # o
    BY <1>9, <1>15, <2>2 DEF PInv, RefundedIsVoid
  <2> QED
    BY <2>1, <2>2
<1> QED
  BY <1>8, <1>9, <1>10, <1>12, <1>14, <1>15, <1>16, <1>17, <1>18, <1>19 DEF PInv

LEMMA LeftType ==
  ASSUME PInv, NEW o \in Order, NEW fees \in BOOLEAN, SomethingLeft(o, fees)
  PROVE  Left(o, fees) \in Nat
<1>1. Decided(o) \in Nat
  BY DecidedType DEF PInv
<1>2. Ceiling(o, fees) \in Nat
  BY TotalType DEF Ceiling
<1> QED
  BY <1>1, <1>2 DEF SomethingLeft, Left

LEMMA RefundOrderPInv ==
  ASSUME IInv, PInv, NEW k \in Task, NEW o \in Order, NEW fees \in BOOLEAN,
         RefundOrder(k, o, fees)
  PROVE  PInv'
<1>1. PICK amount \in {a \in Amounts : a <= Left(o, fees)} \cup {Left(o, fees)} :
        Decide(o, amount, fees)
  BY DEF RefundOrder
<1>2. Left(o, fees) \in Nat
  BY LeftType DEF RefundOrder
<1>3. amount \in Nat /\ amount <= Left(o, fees)
  BY <1>2, BoundsAssumption
<1>4. NextRow(o) \in Rows
  BY UsedFinite, BoundsAssumption DEF RefundOrder, NextRow, Rows
<1>5. UNCHANGED <<sweep, faults>> /\ MayRefund(o) /\ SomethingLeft(o, fees)
  BY DEF RefundOrder
<1>6. /\ row' \in [Rows -> RowType] /\ status' \in [Order -> OrderStatus]
      /\ paid' \subseteq Order /\ valid' \subseteq paid'
      /\ reversed' \in [Order -> Nat]
      /\ PaidRows' /\ WithinPaid' /\ RefundedIsVoid'
      /\ \A p \in Order \ {o} : Decided(p)' = Decided(p)
      /\ Decided(o) < Total(o)
  BY <1>1, <1>3, <1>4, <1>5, DecidePInv
<1>7. Swept'
  <2> SUFFICES ASSUME NEW p \in sweep.listed \ (Free \cup sweep.todo)
               PROVE  Decided(p)' = Total(p) \/ p \in sweep.reported
    BY <1>5 DEF Swept, Total
  <2>1. p \in Order /\ (Decided(p) = Total(p) \/ p \in sweep.reported)
    BY DEF PInv, Swept, SweepType
  <2>2. CASE p = o
    <3>1. Decided(o) \in Nat /\ Total(o) \in Nat
      BY DecidedType, TotalType DEF PInv
    <3> QED
      BY <1>6, <2>1, <2>2, <3>1
  <2> QED
    BY <1>6, <2>1, <2>2
<1> QED
  BY <1>5, <1>6, <1>7 DEF PInv

LEMMA CancelRefundPInv ==
  ASSUME IInv, PInv, NEW k \in Task, NEW o \in sweep.todo, CancelRefund(k, o),
         sweep.pc = "each", UNCHANGED faults
  PROVE  PInv'
<1>1. o \in Order /\ NextRow(o) \in Rows
  BY DEF PInv, SweepType, CancelRefund
<1>2. MayRefund(o) /\ SomethingLeft(o, TRUE) /\ Decide(o, Left(o, TRUE), TRUE)
  BY DEF CancelRefund
<1>3. PICK a \in Nat : a = Left(o, TRUE)
  BY <1>1, <1>2, LeftType
<1>4. a <= Left(o, TRUE) /\ Decide(o, a, TRUE)
  <2>1. Decide(o, a, TRUE)
    BY <1>2, <1>3, Zenon
  <2>2. a <= a
    OBVIOUS
  <2>3. a <= Left(o, TRUE)
    BY <1>3, <2>2, Zenon
  <2> QED
    BY <2>1, <2>3
<1>5. /\ row' \in [Rows -> RowType] /\ status' \in [Order -> OrderStatus]
      /\ paid' \subseteq Order /\ valid' \subseteq paid'
      /\ reversed' \in [Order -> Nat]
      /\ PaidRows' /\ WithinPaid' /\ RefundedIsVoid'
      /\ \A p \in Order \ {o} : Decided(p)' = Decided(p)
      /\ Decided(o)' = Decided(o) + a
      /\ Decided(o) < Total(o)
  BY <1>1, <1>2, <1>3, <1>4, DecidePInv
<1>6. Decided(o)' = Total(o)
  <2>1. PICK d, t : d = Decided(o) /\ t = Total(o)
    OBVIOUS
  <2>2. d \in Nat /\ t \in Nat /\ a = t - d
    BY <1>1, <1>3, <2>1, DecidedType, TotalType DEF PInv, Left, Ceiling
  <2>3. Decided(o)' = d + a
    BY <1>5, <2>1
  <2> QED
    BY <2>1, <2>2, <2>3
<1>7. /\ sweep' \in SweepType /\ sweep'.todo = sweep.todo \ {o}
      /\ sweep'.listed = sweep.listed /\ sweep'.reported = sweep.reported
      /\ sweep'.pc = sweep.pc
  BY DEF PInv, SweepType, CancelRefund
<1>8. Swept'
  <2> SUFFICES ASSUME NEW p \in sweep.listed \ (Free \cup sweep'.todo)
               PROVE  Decided(p)' = Total(p) \/ p \in sweep.reported
    BY <1>7 DEF Swept, Total
  <2>1. CASE p = o
    BY <1>6, <2>1
  <2>2. CASE p # o
    <3>1. p \in Order /\ p \in sweep.listed \ (Free \cup sweep.todo)
      BY <1>7, <2>2 DEF PInv, SweepType
    <3> QED
      BY <1>5, <2>2, <3>1 DEF PInv, Swept
  <2> QED
    BY <2>1, <2>2
<1> QED
  BY <1>5, <1>7, <1>8 DEF PInv

\* The cancellation goes from order to order.
LEMMA CancelEachPInv ==
  ASSUME IInv, PInv, CancelEach
  PROVE  PInv'
<1>1. PICK o \in sweep.todo :
        CancelFree(o) \/ CancelSkip(o) \/ (\E k \in Task : CancelRefund(k, o))
          \/ CancelRefused(o)
  BY DEF CancelEach
<1>2. o \in Order /\ faults' = faults /\ faults \in Nat /\ sweep.pc = "each"
  BY DEF PInv, SweepType, CancelEach
<1>3. ASSUME NEW k \in Task, CancelRefund(k, o) PROVE PInv'
  BY <1>2, <1>3, CancelRefundPInv
<1>4. CASE CancelFree(o) \/ CancelSkip(o) \/ CancelRefused(o)
  <2>1. /\ row' = row /\ reversed' = reversed /\ paid' = paid /\ valid' \subseteq valid
        /\ status' \in [Order -> OrderStatus]
    BY <1>4 DEF CancelFree, CancelSkip, CancelRefused, orderVars, PInv, OrderStatus
  <2>2. /\ sweep' \in SweepType /\ sweep'.todo = sweep.todo \ {o}
        /\ sweep'.listed = sweep.listed /\ sweep.reported \subseteq sweep'.reported
        /\ sweep'.pc = "each"
    <3>1. CASE CancelFree(o) \/ CancelSkip(o)
      BY <1>2, <3>1 DEF CancelFree, CancelSkip, PInv, SweepType
    <3>2. CASE CancelRefused(o)
      <4>1. PICK t, u : t = sweep.todo \ {o} /\ u = sweep.reported \cup {o}
        OBVIOUS
      <4>2. t \in SUBSET Order /\ u \in SUBSET Order /\ sweep \in SweepType
        BY <1>2, <4>1 DEF PInv, SweepType
      <4>3. sweep' = [sweep EXCEPT !.todo = t, !.reported = u]
        BY <3>2, <4>1 DEF CancelRefused
      <4> QED
        BY <1>2, <4>1, <4>2, <4>3 DEF SweepType
    <3> QED
      BY <1>4, <3>1, <3>2
  <2>3. o \in Free \/ Decided(o) = Total(o) \/ o \in sweep'.reported
    <3>1. CASE CancelFree(o)
      BY <3>1 DEF CancelFree
    <3>2. CASE CancelSkip(o)
      <4>1. Decided(o) \in Nat /\ Total(o) \in Nat /\ Decided(o) <= Total(o)
        BY <1>2, DecidedType, TotalType DEF PInv, WithinPaid
      <4> QED
        BY <3>2, <4>1 DEF CancelSkip, SomethingLeft, Ceiling
    <3>3. CASE CancelRefused(o)
      <4>1. PICK t, u : t = sweep.todo \ {o} /\ u = sweep.reported \cup {o}
        OBVIOUS
      <4>2. sweep' = [sweep EXCEPT !.todo = t, !.reported = u] /\ sweep \in SweepType
        BY <3>3, <4>1 DEF CancelRefused, PInv
      <4> QED
        BY <4>1, <4>2 DEF SweepType
    <3> QED
      BY <1>4, <3>1, <3>2, <3>3
  <2>4. \A p \in sweep'.listed \ (Free \cup sweep'.todo) :
          \/ p \in sweep.listed \ sweep.todo /\ sweep.reported \subseteq sweep'.reported
          \/ Decided(p) = Total(p)
          \/ p \in sweep'.reported
    BY <2>2, <2>3
  <2>5. /\ row' \in [Rows -> RowType]
        /\ \A r \in Rows : /\ row'[r].amount = row[r].amount
                           /\ row'[r].status = "NONE" <=> row[r].status = "NONE"
    BY <2>1 DEF PInv
  <2>6. /\ paid \subseteq paid' /\ paid' \subseteq Order /\ valid' \subseteq paid'
        /\ sweep'.todo \subseteq sweep'.listed /\ UNCHANGED reversed
        /\ sweep'.pc = "done" => sweep'.todo = {}
    BY <2>1, <2>2 DEF PInv
  <2>7. \A p \in Order \ Free : p \in valid' => p \in valid \/ Decided(p) = 0
    BY <2>1
  <2> QED
    BY <1>2, <2>1, <2>2, <2>4, <2>5, <2>6, <2>7, SameAmounts
<1> QED
  BY <1>1, <1>3, <1>4

\* It begins, and ends.
LEMMA CancelPInv ==
  ASSUME PInv, CancelEvent \/ CancelList \/ CancelTickets
  PROVE  PInv'
<1>1. row' = row /\ reversed' = reversed /\ status' = status /\ paid' = paid /\ faults' = faults
  BY DEF CancelEvent, CancelList, CancelTickets, orderVars
<1>2. /\ row' \in [Rows -> RowType]
      /\ \A r \in Rows : /\ row'[r].amount = row[r].amount
                         /\ row'[r].status = "NONE" <=> row[r].status = "NONE"
      /\ status' \in [Order -> OrderStatus] /\ paid \subseteq paid' /\ paid' \subseteq Order
      /\ faults' \in Nat
  BY <1>1 DEF PInv
<1>3. valid' \subseteq valid /\ valid' \subseteq paid'
  BY <1>1 DEF CancelEvent, CancelList, CancelTickets, orderVars, PInv
<1>4. /\ sweep' \in SweepType /\ sweep'.todo \subseteq sweep'.listed
      /\ sweep'.pc = "done" => sweep'.todo = {}
      /\ \A o \in sweep'.listed \ (Free \cup sweep'.todo) :
           o \in sweep.listed \ sweep.todo /\ sweep.reported \subseteq sweep'.reported
  <2>1. CASE CancelEvent
    <3>1. sweep' = Sweep("list", {}, {})
      BY <2>1 DEF CancelEvent
    <3> QED
      BY <3>1 DEF Sweep, SweepType
  <2>2. CASE CancelList
    <3>1. PICK found : found = {o \in Order : status[o] \in Refundable}
      OBVIOUS
    <3>2. sweep' = Sweep("each", found, found) /\ found \subseteq Order
      BY <2>2, <3>1 DEF CancelList
    <3> QED
      BY <3>2 DEF Sweep, SweepType
  <2>3. CASE CancelTickets
    <3>1. PICK d : d = NoTask
      OBVIOUS
    <3>2. sweep' = [sweep EXCEPT !.pc = "done", !.by = d]
      BY <2>3, <3>1 DEF CancelTickets
    <3> QED
      BY <2>3, <3>1, <3>2 DEF SweepType, PInv, CancelTickets
  <2> QED
    BY <2>1, <2>2, <2>3
<1> QED
  BY <1>1, <1>2, <1>3, <1>4, SameAmounts

\* An order settled late has no refund yet.
LEMMA SettlePInv ==
  ASSUME PInv, NEW o \in Order, Settle(o)
  PROVE  PInv'
<1>1. Decided(o) = 0
  <2>1. \A n \in 1..MaxRows : <<o, n>> \in Rows
    BY DEF Rows
  <2>2. \A n \in 1..MaxRows : row[<<o, n>>].amount = 0
    BY <2>1 DEF PInv, PaidRows, Settle, OrderOf
  <2> QED
    BY <2>2, NothingDecided
<1>2. /\ status' \in [Order -> OrderStatus] /\ paid \subseteq paid' /\ paid' \subseteq Order
      /\ valid' \subseteq paid' /\ valid' = valid \cup {o}
  BY DEF PInv, Settle, OrderStatus
<1>3. UNCHANGED <<row, reversed, sweep, faults>>
  BY DEF Settle
<1>4. /\ row' \in [Rows -> RowType] /\ faults' \in Nat
      /\ sweep' \in SweepType /\ sweep'.todo \subseteq sweep'.listed
      /\ sweep'.pc = "done" => sweep'.todo = {}
  BY <1>3 DEF PInv
<1> QED
  BY <1>1, <1>2, <1>3, <1>4, SameAmounts

LEMMA ConfirmAgainPInv ==
  ASSUME PInv, NEW o \in Order, ConfirmAgain(o)
  PROVE  PInv'
<1>1. status' \in [Order -> OrderStatus]
  BY DEF PInv, ConfirmAgain, OrderStatus
<1>2. UNCHANGED <<paid, valid, row, reversed, sweep, faults>>
  BY DEF ConfirmAgain
<1>3. /\ row' \in [Rows -> RowType] /\ faults' \in Nat /\ paid' \subseteq Order
      /\ valid' \subseteq paid' /\ sweep' \in SweepType /\ sweep'.todo \subseteq sweep'.listed
      /\ sweep'.pc = "done" => sweep'.todo = {}
  BY <1>2 DEF PInv
<1> QED
  BY <1>1, <1>2, <1>3, SameAmounts
-----------------------------------------------------------------------------
LEMMA WritesPInv ==
  ASSUME IInv, PInv, NEW k \in Task, Attempt(k) \/ WriteAnswer(k) \/ ManualWrite(k)
  PROVE  PInv'
<1>1. PICK r, b, a : r = task[k].row /\ b = task[k].renew /\ a = task[k].answer
  OBVIOUS
<1>2. /\ r \in Rows /\ b \in BOOLEAN /\ row[r].status # "NONE"
      /\ UNCHANGED <<orderVars, reversed, sweep, faults>>
  BY <1>1 DEF Attempt, WriteAnswer, ManualWrite, IInv, Shaped, TaskType, TaskGood
<1>3. CASE Attempt(k)
  <2>1. PICK x : x = Attempted(r, b)
    OBVIOUS
  <2>2. row' = [row EXCEPT ![r] = x]
    BY <1>1, <1>3, <2>1 DEF Attempt
  <2>3. row[r].status \in RefundStatus \ {"NONE"}
    BY <1>2 DEF PInv, RowType
  <2> QED
    BY <1>2, <2>1, <2>2, <2>3, AttemptedRow, OneRowStep
<1>4. CASE WriteAnswer(k)
  <2>1. PICK x : x = Outcome(a, r)
    OBVIOUS
  <2>2. row' = [row EXCEPT ![r] = x]
    BY <1>1, <1>4, <2>1 DEF WriteAnswer
  <2>3. a \in {"COMPLETED", "PROCESSING", "FAILED", "LOST"}
    BY <1>1, <1>4 DEF WriteAnswer, IInv, Shaped, TaskType, TaskGood
  <2> QED
    BY <1>2, <2>1, <2>2, <2>3, OutcomeRow, OneRowStep
<1>5. CASE ManualWrite(k)
  <2>1. PICK x : x = DoneByHand(r)
    OBVIOUS
  <2>2. row' = [row EXCEPT ![r] = x]
    BY <1>1, <1>5, <2>1 DEF ManualWrite
  <2>3. "COMPLETED" \in RefundStatus \ {"NONE"}
    BY DEF RefundStatus
  <2> QED
    BY <1>2, <2>1, <2>2, <2>3, DoneByHandRow, OneRowStep
<1> QED
  BY <1>3, <1>4, <1>5

LEMMA NextPInv ==
  ASSUME IInv, PInv, [Next]_vars
  PROVE  PInv'
<1>0. faults \in Nat /\ faults + 1 \in Nat
  BY DEF PInv
<1>1. ASSUME NEW k \in Task, NEW o \in Order, NEW fees \in BOOLEAN,
             RefundOrder(k, o, fees)
      PROVE  PInv'
  BY <1>1, RefundOrderPInv
<1>2. ASSUME NEW k \in Task, NEW r \in Rows, Retry(k, r) \/ ManualRead(k, r)
      PROVE  PInv'
  BY <1>0, <1>2, NoRowStep DEF Retry, ManualRead
<1>3. ASSUME NEW k \in Task, Proceed(k) PROVE PInv'
  <2>1. CASE Load(k) \/ Call(k) \/ PollAnswer(k)
    BY <1>0, <2>1, NoRowStep DEF Load, Call, PollAnswer
  <2>2. CASE Attempt(k) \/ WriteAnswer(k) \/ ManualWrite(k)
    BY <2>2, WritesPInv
  <2> QED
    BY <1>3, <2>1, <2>2 DEF Proceed
<1>4. ASSUME NEW k \in Task, CallLost(k) \/ Restart(k) PROVE PInv'
  <2>1. CASE CallLost(k)
    BY <1>0, <2>1, NoRowStep DEF CallLost
  <2>2. CASE Restart(k)
    <3>1. sweep' \in {sweep, [sweep EXCEPT !.pc = "stopped"]}
      BY <2>2 DEF Restart
    <3> QED
      BY <1>0, <2>2, <3>1, NoRowStep DEF Restart
  <2> QED
    BY <1>4, <2>1, <2>2
<1>5. ASSUME NEW r \in Rows, Poll(r) PROVE PInv'
  BY <1>0, <1>5, NoRowStep DEF Poll, PollStart
<1>6. ASSUME NEW o \in Order, RevertEnds(o) PROVE PInv'
  BY <1>0, <1>6, NoRowStep DEF RevertEnds
<1>7. ASSUME NEW o \in Order, Settle(o) \/ ConfirmAgain(o) PROVE PInv'
  BY <1>7, SettlePInv, ConfirmAgainPInv
<1>8. CASE CancelEvent \/ CancelList \/ CancelTickets
  BY <1>8, CancelPInv
<1>9. CASE CancelEach
  BY <1>9, CancelEachPInv
<1>10. CASE UNCHANGED vars
  <2>1. UNCHANGED <<orderVars, row, reversed>> /\ sweep' = sweep /\ faults' = faults
    BY <1>10 DEF vars, orderVars
  <2> QED
    BY <1>0, <2>1, NoRowStep
<1> QED
  BY <1>1, <1>2, <1>3, <1>4, <1>5, <1>6, <1>7, <1>8, <1>9, <1>10 DEF Next, Cancelling

LEMMA PInvCorrect == Spec => [](IInv /\ PInv)
<1>1. Init => PInv
  BY InitPInv
<1>2. IInv /\ PInv /\ [Next]_vars => PInv'
  BY NextPInv
<1> QED
  BY <1>1, <1>2, IInvCorrect, PTL DEF Spec

\* Rows and tasks keep their type, and a task at work knows its refund.
THEOREM TypeCorrect == Spec => []TypeOK
<1>1. IInv /\ PInv => TypeOK
  BY DEF IInv, Shaped, TaskGood, PInv, SweepType, TypeOK
<1> QED
  BY <1>1, PInvCorrect, PTL

\* Whoever decides, and whatever became of the refunds decided before, no
\* order is promised back more than was paid for it.
THEOREM WithinPaidCorrect == Spec => []WithinPaid
<1>1. PInv => WithinPaid
  BY DEF PInv
<1> QED
  BY <1>1, PInvCorrect, PTL

\* The tickets of an order promised back whole, in one refund or in several,
\* admit nobody any more.
THEOREM RefundedIsVoidCorrect == Spec => []RefundedIsVoid
<1>1. PInv => RefundedIsVoid
  BY DEF PInv
<1> QED
  BY <1>1, PInvCorrect, PTL

\* When the cancellation of an event has ended, every order it listed is
\* promised back whole or reported, whatever was refunded meanwhile.
THEOREM ListedIsDecidedCorrect == Spec => []ListedIsDecided
<1>1. PInv => ListedIsDecided
  BY DEF PInv, Swept, ListedIsDecided
<1> QED
  BY <1>1, PInvCorrect, PTL
=============================================================================
