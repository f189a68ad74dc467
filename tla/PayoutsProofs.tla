--------------------------- MODULE PayoutsProofs ---------------------------
(***************************************************************************)
(* Whatever overlaps, a payout that nobody concluded by hand says what     *)
(* became of the money, and is given back only if the money did not leave. *)
(* A task may write from a stale reading, but never against the transfer:  *)
(* what it wants of a payout is what the provider said, and the provider   *)
(* does not change its mind (GoalsTrue).                                   *)
(***************************************************************************)
EXTENDS Payouts, TLAPS

LEMMA GoalFacts ==
  ASSUME NEW g \in Goals, g # <<>>
  PROVE  /\ Head(g) \in {"PROCESSING", "PAID", "FAILED"}
         /\ Len(g) > 1 => Tail(g) \in Goals /\ Tail(g) # <<>>
<1>1. ASSUME NEW x \in {"PROCESSING", "PAID", "FAILED"}, g = <<x>>
      PROVE  Head(g) = x /\ Len(g) = 1
  BY <1>1
<1>2. ASSUME NEW x \in Concluded, g = <<"PROCESSING", x>>
      PROVE  Head(g) = "PROCESSING" /\ Tail(g) = <<x>>
  BY <1>2
<1>3. \A x \in Concluded : <<x>> \in Goals /\ <<x>> # <<>>
  BY DEF Goals, Concluded
<1>4. \/ \E x \in {"PROCESSING", "PAID", "FAILED"} : g = <<x>>
      \/ \E x \in Concluded : g = <<"PROCESSING", x>>
  BY DEF Goals, Concluded
<1>5. CASE \E x \in {"PROCESSING", "PAID", "FAILED"} : g = <<x>>
  <2>1. PICK x \in {"PROCESSING", "PAID", "FAILED"} : g = <<x>>
    BY <1>5
  <2>2. Head(g) = x /\ Len(g) = 1
    BY <1>1, <2>1
  <2> QED
    BY <2>2
<1>6. CASE \E x \in Concluded : g = <<"PROCESSING", x>>
  <2>1. PICK x \in Concluded : g = <<"PROCESSING", x>>
    BY <1>6
  <2>2. Head(g) = "PROCESSING" /\ Tail(g) = <<x>>
    BY <1>2, <2>1
  <2> QED
    BY <1>3, <2>2
<1> QED
  BY <1>4, <1>5, <1>6

LEMMA AfterType ==
  ASSUME NEW t \in TaskType, t.payout \in Payout, t.goals # <<>>
  PROVE  After(t) \in TaskType /\ TaskShape(After(t))
<1>1. Len(t.goals) > 1 => Tail(t.goals) \in Goals /\ Tail(t.goals) # <<>>
  BY GoalFacts DEF TaskType
<1>2. CASE Len(t.goals) > 1
  BY <1>1, <1>2 DEF After, Step, TaskType, TaskShape, Refs
<1>3. CASE ~(Len(t.goals) > 1)
  BY <1>3 DEF After, Step, Idle, TaskType, TaskShape, Refs, Goals
<1> QED
  BY <1>2, <1>3

\* One task takes another state.
LEMMA SetType ==
  ASSUME TypeOK, NEW k \in Task, NEW s \in TaskType, TaskShape(s), Set(k, s)
  PROVE  /\ task' \in [Task -> TaskType]
         /\ \A j \in Task : TaskShape(task'[j])
BY DEF TypeOK, Set

LEMMA TypeInit == Init => TypeOK
BY BoundsAssumption DEF Init, TypeOK, Idle, TaskType, TaskShape, PayoutStatus, TransferState,
   HookStatus, Refs, Goals

LEMMA WriteType ==
  ASSUME TypeOK, NEW k \in Task, TransitionWrite(k)
  PROVE  TypeOK'
<1> DEFINE t == task[k]
<1>1. /\ t \in TaskType /\ t.payout \in Payout /\ t.goals # <<>>
      /\ t.goals \in Goals /\ t.seen \in Refs
  BY DEF TypeOK, TaskShape, TaskType, TransitionWrite
<1>2. Head(t.goals) \in PayoutStatus
  BY <1>1, GoalFacts DEF PayoutStatus
<1>3. WrittenRef(t) \in Refs
  BY <1>1 DEF WrittenRef, Refs
<1>4. /\ task' \in [Task -> TaskType]
      /\ \A j \in Task : TaskShape(task'[j])
  BY <1>1, AfterType, SetType DEF TransitionWrite
<1>5. /\ status' \in [Payout -> PayoutStatus]
      /\ ref' \in [Payout -> Refs]
  BY <1>1, <1>2, <1>3 DEF TransitionWrite, TypeOK
<1>6. returns' \in [Payout -> Nat]
  BY <1>1 DEF TransitionWrite, TypeOK
<1>7. before' \subseteq Payout \X Payout
  BY <1>1 DEF TransitionWrite, TypeOK, WithItLast, WithoutIt
<1> QED
  BY <1>4, <1>5, <1>6, <1>7 DEF TransitionWrite, TypeOK

LEMMA ReadType ==
  ASSUME TypeOK, NEW k \in Task, TransitionRead(k)
  PROVE  TypeOK'
<1> DEFINE t == task[k]
           s == IF CanTransition(status[t.payout], Head(t.goals))
                THEN [t EXCEPT !.pc = "write", !.seen = ref[t.payout]]
                ELSE Idle
<1>1. t \in TaskType /\ TaskShape(t) /\ t.payout \in Payout /\ t.goals # <<>>
  BY DEF TypeOK, TaskShape, TransitionRead
<1>2. ref[t.payout] \in Refs
  BY <1>1 DEF TypeOK
<1>3. s \in TaskType /\ TaskShape(s)
  BY <1>1, <1>2 DEF TaskType, TaskShape, Idle, Goals, Refs
<1>4. Set(k, s)
  BY DEF TransitionRead
<1> HIDE DEF s
<1>5. /\ task' \in [Task -> TaskType]
      /\ \A j \in Task : TaskShape(task'[j])
  BY <1>3, <1>4, SetType
<1> QED
  BY <1>5 DEF TypeOK, TransitionRead, rowVars

\* A task begins, ends, or goes on to a transition.
LEMMA StepType ==
  ASSUME NEW p \in Payout, NEW g \in Goals, g # <<>>,
         NEW op \in {"execute", "manual", "hook", "poll"}
  PROVE  Step("read", op, p, g) \in TaskType /\ TaskShape(Step("read", op, p, g))
BY DEF Step, TaskType, TaskShape, Refs

LEMMA IdleType == Idle \in TaskType /\ TaskShape(Idle)
BY DEF Idle, TaskType, TaskShape, Refs, Goals

LEMMA CallType ==
  ASSUME NEW p \in Payout
  PROVE  /\ Step("call", "execute", p, <<>>) \in TaskType
         /\ TaskShape(Step("call", "execute", p, <<>>))
BY DEF Step, TaskType, TaskShape, Refs, Goals

\* Everything but the task, which takes a well-formed state.
LEMMA KeptType ==
  ASSUME TypeOK, NEW k \in Task, NEW s \in TaskType, TaskShape(s), Set(k, s),
         UNCHANGED rowVars,
         transfer' \in [Payout -> TransferState],
         hook' \in [Payout -> HookStatus],
         byHand' \subseteq Payout, faults' \in Nat
  PROVE  TypeOK'
BY SetType DEF TypeOK, rowVars
-----------------------------------------------------------------------------
(* Type correctness *)

LEMMA OutsideType ==
  ASSUME TypeOK, NEW p \in Payout, Request(p) \/ TransferEnds(p)
  PROVE  TypeOK'
<1>1. CASE Request(p)
  BY <1>1 DEF TypeOK, Request, PayoutStatus
<1>2. CASE TransferEnds(p)
  BY <1>2 DEF TypeOK, TransferEnds, TransferState, rowVars
<1> QED
  BY <1>1, <1>2

LEMMA BeginType ==
  ASSUME TypeOK, NEW k \in Task, NEW p \in Payout,
         \/ ExecuteRead(k, p)
         \/ \E outcome \in Concluded : ManualRead(k, p, outcome)
         \/ HookApplied(k, p) \/ PollStart(k, p)
  PROVE  TypeOK'
<1>1. CASE ExecuteRead(k, p)
  BY <1>1, CallType, KeptType DEF ExecuteRead, TypeOK
<1>2. ASSUME NEW outcome \in Concluded, ManualRead(k, p, outcome)
      PROVE  TypeOK'
  <2> DEFINE g == IF status[p] = "PENDING" THEN <<"PROCESSING", outcome>>
                                           ELSE <<outcome>>
  <2>1. g \in Goals /\ g # <<>>
    BY DEF Goals, Concluded
  <2>2. Set(k, Step("read", "manual", p, g)) /\ byHand' = byHand \cup {p}
    BY <1>2 DEF ManualRead
  <2> HIDE DEF g
  <2>3. byHand' \subseteq Payout
    BY <2>2 DEF TypeOK
  <2>4. UNCHANGED <<rowVars, transfer, hook, faults>>
    BY <1>2 DEF ManualRead
  <2> QED
    BY <2>1, <2>2, <2>3, <2>4, StepType, KeptType DEF TypeOK
<1>3. <<Outcome(p)>> \in Goals /\ <<Outcome(p)>> # <<>>
  BY DEF Goals, Outcome
<1>4. CASE HookApplied(k, p)
  <2>1. hook' \in [Payout -> HookStatus]
    BY <1>4 DEF HookApplied, TypeOK, HookStatus
  <2> QED
    BY <1>3, <1>4, <2>1, StepType, KeptType DEF HookApplied, TypeOK
<1>5. CASE PollStart(k, p)
  BY <1>3, <1>5, StepType, KeptType DEF PollStart, TypeOK
<1> QED
  BY <1>1, <1>2, <1>4, <1>5

LEMMA EndType ==
  ASSUME TypeOK, NEW k \in Task, HookClose(k) \/ Interrupt(k)
  PROVE  TypeOK'
<1>1. CASE HookClose(k)
  <2>1. hook' \in [Payout -> HookStatus]
    BY <1>1 DEF HookClose, TypeOK, HookStatus
  <2> QED
    BY <1>1, <2>1, IdleType, KeptType DEF HookClose, TypeOK
<1>2. CASE Interrupt(k)
  BY <1>2, IdleType, KeptType DEF Interrupt, TypeOK
<1> QED
  BY <1>1, <1>2

LEMMA CallProviderType ==
  ASSUME TypeOK, NEW k \in Task, CallProvider(k)
  PROVE  TypeOK'
<1> DEFINE p == task[k].payout
<1>1. p \in Payout
  BY DEF TypeOK, TaskShape, CallProvider
<1>2. PICK answer \in Started(p) :
        /\ transfer' = [transfer EXCEPT ![p] = answer]
        /\ Set(k, Step("read", "execute", p, Plan(answer)))
  BY DEF CallProvider
<1>3. answer \in TransferState
  BY <1>1 DEF Started, TypeOK, TransferState
<1>4. transfer' \in [Payout -> TransferState]
  BY <1>2, <1>3 DEF TypeOK
<1>5. Plan(answer) \in Goals /\ Plan(answer) # <<>>
  BY DEF Plan, Goals
<1> QED
  BY <1>1, <1>2, <1>4, <1>5, StepType, KeptType DEF CallProvider, TypeOK

LEMMA UnfoundType ==
  ASSUME TypeOK, NEW k \in Task, NEW p \in Payout,
         HookNotFound(k, p) \/ HookIgnored(k, p)
  PROVE  TypeOK'
BY DEF HookNotFound, HookIgnored, TypeOK, HookStatus, rowVars

\* The actions, grouped by what they do to the tasks.
LEMMA Actions ==
  ASSUME Next
  PROVE  \/ \E p \in Payout : Request(p) \/ TransferEnds(p)
         \/ \E k \in Task, p \in Payout :
              \/ ExecuteRead(k, p)
              \/ \E outcome \in Concluded : ManualRead(k, p, outcome)
              \/ HookApplied(k, p) \/ PollStart(k, p)
         \/ \E k \in Task : HookClose(k) \/ Interrupt(k)
         \/ \E k \in Task : CallProvider(k)
         \/ \E k \in Task, p \in Payout : HookNotFound(k, p) \/ HookIgnored(k, p)
         \/ \E k \in Task : TransitionRead(k)
         \/ \E k \in Task : TransitionWrite(k)
BY DEF Next, Proceed, Poll

LEMMA TypeStep == TypeOK /\ [Next]_vars => TypeOK'
<1> SUFFICES ASSUME TypeOK, [Next]_vars PROVE TypeOK'
  OBVIOUS
<1>1. CASE Next
  BY <1>1, Actions, OutsideType, BeginType, EndType, CallProviderType,
     UnfoundType, ReadType, WriteType
<1>2. CASE UNCHANGED vars
  BY <1>2 DEF TypeOK, vars
<1> QED
  BY <1>1, <1>2

\* Rows, transfers and tasks keep their type, whatever overlaps.
THEOREM TypeCorrect == Spec => []TypeOK
BY TypeInit, TypeStep, PTL DEF Spec
-----------------------------------------------------------------------------
(* The truth of the rows *)

\* A state of the transfer agrees with an outcome of the payout.
Agrees(state, x) ==
  IF x = "PAID" THEN state = "paid" ELSE state \in {"refused", "failed"}

Wants(g, x) == g = <<x>> \/ g = <<"PROCESSING", x>>

\* What a task wants of a payout that nobody touched by hand is what the
\* provider said of it.
GoalsTrue ==
  \A k \in Task : task[k].payout \in Payout \ byHand =>
    \A x \in Concluded :
      Wants(task[k].goals, x) => Agrees(transfer[task[k].payout], x)

IInv == TypeOK /\ GoalsTrue /\ StatusIsTrue

LEMMA WantsFacts ==
  ASSUME NEW g \in Goals, g # <<>>, NEW x \in Concluded
  PROVE  /\ Head(g) = x => Wants(g, x)
         /\ Len(g) > 1 /\ Wants(Tail(g), x) => Wants(g, x)
<1>1. ASSUME NEW y \in {"PROCESSING", "PAID", "FAILED"}, g = <<y>>
      PROVE  Head(g) = y /\ ~(Len(g) > 1)
  BY <1>1
<1>2. ASSUME NEW y \in Concluded, g = <<"PROCESSING", y>>
      PROVE  /\ Head(g) = "PROCESSING"
             /\ Wants(Tail(g), x) => x = y
  <2>1. Head(g) = "PROCESSING" /\ Tail(g) = <<y>>
    BY <1>2
  <2> QED
    BY <2>1 DEF Wants
<1>3. \/ \E y \in {"PROCESSING", "PAID", "FAILED"} : g = <<y>>
      \/ \E y \in Concluded : g = <<"PROCESSING", y>>
  BY DEF Goals, Concluded
<1>4. CASE \E y \in {"PROCESSING", "PAID", "FAILED"} : g = <<y>>
  <2>1. PICK y \in {"PROCESSING", "PAID", "FAILED"} : g = <<y>>
    BY <1>4
  <2> QED
    BY <1>1, <2>1 DEF Wants
<1>5. CASE \E y \in Concluded : g = <<"PROCESSING", y>>
  <2>1. PICK y \in Concluded : g = <<"PROCESSING", y>>
    BY <1>5
  <2>2. Head(g) = "PROCESSING" /\ (Wants(Tail(g), x) => x = y)
    BY <1>2, <2>1
  <2>3. x # "PROCESSING"
    BY DEF Concluded
  <2> QED
    BY <2>1, <2>2, <2>3 DEF Wants
<1> QED
  BY <1>3, <1>4, <1>5

\* The goals of a whole plan or of a single transition.
LEMMA OneWant ==
  ASSUME NEW x, NEW y \in Concluded,
         Wants(<<x>>, y) \/ Wants(<<"PROCESSING", x>>, y)
  PROVE  x = y
<1>1. <<x>> = <<y>> => x = y
  OBVIOUS
<1>2. <<x>> # <<"PROCESSING", y>> /\ <<"PROCESSING", x>> # <<y>>
  OBVIOUS
<1>3. <<"PROCESSING", x>> = <<"PROCESSING", y>> => x = y
  OBVIOUS
<1> QED
  BY <1>1, <1>2, <1>3 DEF Wants

LEMMA NoWant ==
  ASSUME NEW y \in Concluded
  PROVE  ~Wants(<<>>, y) /\ ~Wants(<<"PROCESSING">>, y)
<1>1. <<>> # <<y>> /\ <<>> # <<"PROCESSING", y>>
  OBVIOUS
<1>2. <<"PROCESSING">> # <<y>>
  BY DEF Concluded
<1>3. <<"PROCESSING">> # <<"PROCESSING", y>>
  OBVIOUS
<1> QED
  BY <1>1, <1>2, <1>3 DEF Wants

\* The provider does not change its mind.
LEMMA AgreesKept ==
  ASSUME TypeOK, [Next]_vars, NEW p \in Payout, NEW x \in Concluded,
         Agrees(transfer[p], x)
  PROVE  Agrees(transfer'[p], x)
<1>1. CASE UNCHANGED transfer
  BY <1>1 DEF Agrees
<1>2. ASSUME NEW q \in Payout, TransferEnds(q) PROVE Agrees(transfer'[p], x)
  BY <1>2 DEF TransferEnds, Agrees, TypeOK
<1>3. ASSUME NEW k \in Task, CallProvider(k) PROVE Agrees(transfer'[p], x)
  <2>1. task[k].payout \in Payout
    BY <1>3 DEF TypeOK, TaskShape, CallProvider
  <2>2. transfer[p] # "none"
    BY DEF Agrees, Concluded
  <2>3. PICK answer \in Started(task[k].payout) :
          transfer' = [transfer EXCEPT ![task[k].payout] = answer]
    BY <1>3 DEF CallProvider
  <2>4. transfer'[p] = transfer[p]
    BY <2>1, <2>2, <2>3 DEF Started, TypeOK
  <2> QED
    BY <2>4 DEF Agrees
<1>4. \/ UNCHANGED transfer
      \/ \E q \in Payout : TransferEnds(q)
      \/ \E k \in Task : CallProvider(k)
  BY Actions DEF vars, rowVars, Request, ExecuteRead, ManualRead, HookApplied,
     PollStart, HookClose, Interrupt, HookNotFound, HookIgnored,
     TransitionRead, TransitionWrite
<1> QED
  BY <1>1, <1>2, <1>3, <1>4

\* One task takes a state whose goals agree with the transfer; the others
\* keep theirs.
LEMMA SetGoals ==
  ASSUME TypeOK, GoalsTrue, NEW k \in Task, NEW s, Set(k, s),
         byHand \subseteq byHand',
         \A p \in Payout, x \in Concluded :
           Agrees(transfer[p], x) => Agrees(transfer'[p], x),
         s.payout \in Payout \ byHand' =>
           \A x \in Concluded :
             Wants(s.goals, x) => Agrees(transfer'[s.payout], x)
  PROVE  GoalsTrue'
<1> SUFFICES ASSUME NEW j \in Task, task'[j].payout \in Payout \ byHand',
                    NEW x \in Concluded, Wants(task'[j].goals, x)
             PROVE  Agrees(transfer'[task'[j].payout], x)
  BY DEF GoalsTrue, Wants, Agrees
<1>1. task'[j] = IF j = k THEN s ELSE task[j]
  BY DEF Set, TypeOK
<1>2. CASE j = k
  BY <1>1, <1>2
<1>3. CASE j # k
  <2>1. Agrees(transfer[task[j].payout], x)
    BY <1>1, <1>3 DEF GoalsTrue
  <2> QED
    BY <1>1, <1>3, <2>1
<1> QED
  BY <1>2, <1>3

LEMMA GoalsBegin ==
  ASSUME IInv, NEW k \in Task, NEW p \in Payout,
         \A q \in Payout, x \in Concluded :
           Agrees(transfer[q], x) => Agrees(transfer'[q], x),
         \/ ExecuteRead(k, p)
         \/ \E outcome \in Concluded : ManualRead(k, p, outcome)
         \/ HookApplied(k, p) \/ PollStart(k, p)
  PROVE  GoalsTrue'
<1>1. CASE ExecuteRead(k, p)
  <2>1. Set(k, Step("call", "execute", p, <<>>)) /\ byHand' = byHand
    BY <1>1 DEF ExecuteRead
  <2> QED
    BY <2>1, NoWant, SetGoals DEF IInv, Step
<1>2. ASSUME NEW outcome \in Concluded, ManualRead(k, p, outcome)
      PROVE  GoalsTrue'
  <2> DEFINE g == IF status[p] = "PENDING" THEN <<"PROCESSING", outcome>>
                                           ELSE <<outcome>>
  <2>1. Set(k, Step("read", "manual", p, g)) /\ byHand' = byHand \cup {p}
    BY <1>2 DEF ManualRead
  <2> HIDE DEF g
  <2> QED
    BY <2>1, SetGoals DEF IInv, Step
<1>3. ASSUME Ended(p), Set(k, Step("read", "hook", p, <<Outcome(p)>>))
                       \/ Set(k, Step("read", "poll", p, <<Outcome(p)>>)),
             UNCHANGED <<transfer, byHand>>
      PROVE  GoalsTrue'
  <2>1. \A x \in Concluded : Wants(<<Outcome(p)>>, x) => Agrees(transfer[p], x)
    <3>1. Agrees(transfer[p], Outcome(p))
      BY <1>3 DEF Ended, Outcome, Agrees
    <3> QED
      BY <3>1, OneWant
  <2>2. PICK g : g = <<Outcome(p)>>
    OBVIOUS
  <2>3. PICK s : s \in {Step("read", "hook", p, g), Step("read", "poll", p, g)}
                 /\ Set(k, s)
    BY <1>3, <2>2
  <2>4. s.payout = p /\ s.goals = g
    BY <2>3 DEF Step
  <2> QED
    BY <1>3, <2>1, <2>2, <2>3, <2>4, SetGoals DEF IInv
<1>4. CASE HookApplied(k, p)
  BY <1>3, <1>4 DEF HookApplied, Deliverable
<1>5. CASE PollStart(k, p)
  BY <1>3, <1>5 DEF PollStart
<1> QED
  BY <1>1, <1>2, <1>4, <1>5

LEMMA GoalsEnd ==
  ASSUME IInv, NEW k \in Task, Set(k, Idle), byHand' = byHand,
         \A q \in Payout, x \in Concluded :
           Agrees(transfer[q], x) => Agrees(transfer'[q], x)
  PROVE  GoalsTrue'
BY NoWant, SetGoals, NoPayoutAssumption DEF IInv, Idle

LEMMA GoalsCall ==
  ASSUME IInv, NEW k \in Task, CallProvider(k),
         \A q \in Payout, x \in Concluded :
           Agrees(transfer[q], x) => Agrees(transfer'[q], x)
  PROVE  GoalsTrue'
<1>1. PICK p \in Payout : p = task[k].payout
  BY DEF IInv, TypeOK, TaskShape, CallProvider
<1>2. PICK answer \in Started(p) :
        /\ transfer' = [transfer EXCEPT ![p] = answer]
        /\ Set(k, Step("read", "execute", p, Plan(answer)))
  BY <1>1 DEF CallProvider
<1>3. transfer'[p] = answer
  BY <1>1, <1>2 DEF IInv, TypeOK
<1>4. \A x \in Concluded : Wants(Plan(answer), x) => Agrees(transfer'[p], x)
  <2>1. CASE answer = "refused"
    BY <1>3, <2>1, OneWant DEF Plan, Agrees, Concluded
  <2>2. CASE answer # "refused"
    BY <2>2, NoWant DEF Plan
  <2> QED
    BY <2>1, <2>2
<1>5. PICK s : s = Step("read", "execute", p, Plan(answer))
  OBVIOUS
<1>6. Set(k, s) /\ s.payout = p /\ s.goals = Plan(answer) /\ byHand' = byHand
  BY <1>2, <1>5 DEF Step, CallProvider
<1> QED
  BY <1>4, <1>6, SetGoals DEF IInv

LEMMA GoalsRead ==
  ASSUME IInv, NEW k \in Task, TransitionRead(k),
         \A q \in Payout, x \in Concluded :
           Agrees(transfer[q], x) => Agrees(transfer'[q], x)
  PROVE  GoalsTrue'
<1> DEFINE t == task[k]
<1>1. PICK s : /\ Set(k, s)
               /\ s = IF CanTransition(status[t.payout], Head(t.goals))
                      THEN [t EXCEPT !.pc = "write", !.seen = ref[t.payout]]
                      ELSE Idle
  BY DEF TransitionRead
<1>2. byHand' = byHand
  BY DEF TransitionRead
<1>3. CASE s = Idle
  BY <1>1, <1>2, <1>3, GoalsEnd
<1>4. CASE s = [t EXCEPT !.pc = "write", !.seen = ref[t.payout]]
  <2>1. s.payout = t.payout /\ s.goals = t.goals
    BY <1>4 DEF IInv, TypeOK, TaskType
  <2>2. s.payout \in Payout \ byHand =>
          \A x \in Concluded : Wants(s.goals, x) => Agrees(transfer[s.payout], x)
    BY <2>1 DEF IInv, GoalsTrue
  <2> QED
    BY <1>1, <1>2, <2>2, SetGoals DEF IInv
<1> QED
  BY <1>1, <1>3, <1>4

LEMMA GoalsWrite ==
  ASSUME IInv, NEW k \in Task, TransitionWrite(k),
         \A q \in Payout, x \in Concluded :
           Agrees(transfer[q], x) => Agrees(transfer'[q], x)
  PROVE  GoalsTrue'
<1>1. PICK t : t = task[k]
  OBVIOUS
<1>2. /\ t.goals \in Goals /\ t.goals # <<>> /\ t.payout \in Payout
      /\ Set(k, After(t)) /\ byHand' = byHand
  BY <1>1 DEF IInv, TypeOK, TaskType, TaskShape, TransitionWrite
<1>3. PICK s : s = After(t)
  OBVIOUS
<1>4. \A x \in Concluded :
        Wants(s.goals, x) => s.payout = t.payout /\ Wants(t.goals, x)
  <2> SUFFICES ASSUME NEW x \in Concluded, Wants(s.goals, x)
               PROVE  s.payout = t.payout /\ Wants(t.goals, x)
    OBVIOUS
  <2>1. CASE Len(t.goals) > 1
    <3>1. s.goals = Tail(t.goals) /\ s.payout = t.payout
      BY <1>3, <2>1 DEF After, Step
    <3> QED
      BY <1>2, <2>1, <3>1, WantsFacts
  <2>2. CASE ~(Len(t.goals) > 1)
    <3>1. s.goals = <<>>
      BY <1>3, <2>2 DEF After, Step, Idle
    <3> QED
      BY <3>1, NoWant
  <2> QED
    BY <2>1, <2>2
<1>5. s.payout \in Payout \ byHand' =>
        \A x \in Concluded : Wants(s.goals, x) => Agrees(transfer[s.payout], x)
  BY <1>1, <1>2, <1>4 DEF IInv, GoalsTrue
<1> QED
  BY <1>2, <1>3, <1>5, SetGoals DEF IInv

LEMMA GoalsKept ==
  ASSUME IInv, UNCHANGED <<task, byHand>>,
         \A q \in Payout, x \in Concluded :
           Agrees(transfer[q], x) => Agrees(transfer'[q], x)
  PROVE  GoalsTrue'
BY DEF IInv, GoalsTrue, Wants, Agrees

LEMMA GoalsStep ==
  ASSUME IInv, [Next]_vars
  PROVE  GoalsTrue'
<1> SUFFICES ASSUME \A q \in Payout, x \in Concluded :
                      Agrees(transfer[q], x) => Agrees(transfer'[q], x)
             PROVE  GoalsTrue'
  BY AgreesKept DEF IInv
<1>1. ASSUME NEW p \in Payout, Request(p) \/ TransferEnds(p)
      PROVE  GoalsTrue'
  BY <1>1, GoalsKept DEF Request, TransferEnds
<1>2. ASSUME NEW k \in Task, NEW p \in Payout,
             HookNotFound(k, p) \/ HookIgnored(k, p)
      PROVE  GoalsTrue'
  BY <1>2, GoalsKept DEF HookNotFound, HookIgnored
<1>3. ASSUME NEW k \in Task, HookClose(k) \/ Interrupt(k)
      PROVE  GoalsTrue'
  BY <1>3, GoalsEnd DEF HookClose, Interrupt
<1>4. CASE UNCHANGED vars
  BY <1>4, GoalsKept DEF vars
<1> QED
  BY <1>1, <1>2, <1>3, <1>4, Actions, GoalsBegin, GoalsCall, GoalsRead,
     GoalsWrite

\* The transaction writes what its task wants, which agrees with the
\* transfer.
LEMMA StatusWrite ==
  ASSUME IInv, NEW k \in Task, TransitionWrite(k)
  PROVE  StatusIsTrue'
<1> DEFINE t == task[k]
           to == Head(t.goals)
<1>1. /\ t.goals \in Goals /\ t.goals # <<>> /\ t.payout \in Payout
      /\ status' = [status EXCEPT ![t.payout] = to]
      /\ returns' = IF to = "FAILED" THEN [returns EXCEPT ![t.payout] = @ + 1]
                                     ELSE returns
      /\ UNCHANGED <<transfer, byHand>>
  BY DEF IInv, TypeOK, TaskType, TaskShape, TransitionWrite
<1>2. \A x \in Concluded : to = x => Wants(t.goals, x)
  BY <1>1, WantsFacts
<1>3. ASSUME t.payout \notin byHand
      PROVE  /\ to = "PAID" => transfer[t.payout] = "paid"
             /\ to = "FAILED" => transfer[t.payout] \in {"refused", "failed"}
  BY <1>1, <1>2, <1>3 DEF IInv, GoalsTrue, Agrees, Concluded
<1> HIDE DEF to
<1>4. ASSUME NEW p \in Payout \ byHand
      PROVE  /\ status'[p] = "PAID" => transfer[p] = "paid"
             /\ status'[p] = "FAILED" => transfer[p] \in {"refused", "failed"}
  BY <1>1, <1>3, <1>4 DEF IInv, TypeOK, StatusIsTrue
<1>5. ASSUME NEW p \in Payout \ byHand, returns'[p] > 0
      PROVE  transfer[p] \in {"refused", "failed"}
  <2>1. CASE p = t.payout /\ to = "FAILED"
    BY <1>3, <2>1
  <2>2. CASE ~(p = t.payout /\ to = "FAILED")
    <3>1. returns'[p] = returns[p]
      BY <1>1, <2>2 DEF IInv, TypeOK
    <3> QED
      BY <1>5, <3>1 DEF IInv, StatusIsTrue
  <2> QED
    BY <2>1, <2>2
<1> QED
  BY <1>1, <1>4, <1>5 DEF StatusIsTrue

LEMMA StatusKept ==
  ASSUME IInv, [Next]_vars, UNCHANGED <<status, returns>>, byHand \subseteq byHand'
  PROVE  StatusIsTrue'
<1>1. \A p \in Payout, x \in Concluded :
        Agrees(transfer[p], x) => Agrees(transfer'[p], x)
  BY AgreesKept DEF IInv
<1>2. \A p \in Payout :
        /\ transfer[p] = "paid" => transfer'[p] = "paid"
        /\ transfer[p] \in {"refused", "failed"}
             => transfer'[p] \in {"refused", "failed"}
  BY <1>1 DEF Agrees, Concluded
<1> QED
  BY <1>2 DEF IInv, StatusIsTrue

LEMMA StatusStep ==
  ASSUME IInv, [Next]_vars
  PROVE  StatusIsTrue'
<1>1. ASSUME NEW k \in Task, TransitionWrite(k) PROVE StatusIsTrue'
  BY <1>1, StatusWrite
<1>2. ASSUME NEW p \in Payout, Request(p) PROVE StatusIsTrue'
  BY <1>2 DEF Request, IInv, TypeOK, StatusIsTrue
<1>3. \/ UNCHANGED <<status, returns>> /\ byHand \subseteq byHand'
      \/ \E p \in Payout : Request(p)
      \/ \E k \in Task : TransitionWrite(k)
  BY Actions DEF vars, rowVars, TransferEnds, ExecuteRead, ManualRead,
     HookApplied, PollStart, HookClose, Interrupt, CallProvider, HookNotFound,
     HookIgnored, TransitionRead
<1> QED
  BY <1>1, <1>2, <1>3, StatusKept

LEMMA IInvInit == Init => IInv
<1> SUFFICES ASSUME Init PROVE IInv
  OBVIOUS
<1>1. GoalsTrue
  BY NoPayoutAssumption DEF Init, Idle, GoalsTrue
<1>2. StatusIsTrue
  BY DEF Init, StatusIsTrue
<1> QED
  BY <1>1, <1>2, TypeInit DEF IInv

LEMMA IInvCorrect == Spec => []IInv
<1>1. IInv /\ [Next]_vars => IInv'
  BY TypeStep, GoalsStep, StatusStep DEF IInv
<1> QED
  BY IInvInit, <1>1, PTL DEF Spec

\* A payout nobody touched by hand never says more than became of the money,
\* however its execution, notifications and polls overlap.
THEOREM StatusCorrect == Spec => []StatusIsTrue
<1>1. IInv => StatusIsTrue
  BY DEF IInv
<1> QED
  BY IInvCorrect, <1>1, PTL

\* Money that reached the organiser is never credited back to the balance.
THEOREM SentCorrect == Spec => []SentStaysDebited
<1>1. IInv => SentStaysDebited
  <2> SUFFICES ASSUME IInv, NEW p \in Payout \ byHand, transfer[p] = "paid"
               PROVE  returns[p] = 0
    BY DEF SentStaysDebited
  <2>1. returns[p] \in Nat /\ ~(returns[p] > 0)
    BY DEF IInv, TypeOK, StatusIsTrue
  <2> QED
    BY <2>1
<1> QED
  BY IInvCorrect, <1>1, PTL
=============================================================================
