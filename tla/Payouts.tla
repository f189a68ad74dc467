------------------------------ MODULE Payouts ------------------------------
(***************************************************************************)
(* Payouts of an organisation's balance (modules finance/payouts).         *)
(*                                                                         *)
(* A payout is asked for by the organiser, executed or recorded by an      *)
(* administrator, and concluded by the provider's notification or by the   *)
(* reconciliation of every minute.  All of them go through transition(),   *)
(* which reads the row, checks the state machine, and only then opens the  *)
(* transaction that writes: the two are separate steps here.               *)
(*                                                                         *)
(* Balances, the freeze and the refusals of execute() are left out: an     *)
(* administrator may do each thing or not.  The balance is in Ledger.      *)
(***************************************************************************)
EXTENDS Naturals, Sequences, FiniteSets

CONSTANTS
  Payout,     \* payouts that may be asked for
  Bank,       \* those to an account that no provider can pay
  Task,       \* concurrent requests, notifications and passes
  Batch,      \* payouts asked about per pass of the reconciliation
  MaxFaults   \* bound on tasks interrupted by a lost answer or a restart

ASSUME BankAssumption == Bank \subseteq Payout
ASSUME BoundsAssumption == Batch \in Nat \ {0} /\ MaxFaults \in Nat

PayoutStatus == {"NONE", "PENDING", "PROCESSING", "PAID", "FAILED"}
TransferState == {"none", "refused", "processing", "paid", "failed"}
HookStatus == {"NONE", "RECEIVED", "FAILED", "PROCESSED", "IGNORED"}
Concluded == {"PAID", "FAILED"}
NoPayout == "no payout"
Refs == {"none", "transfer", "own", "manual", "manual after transfer"}

ASSUME NoPayoutAssumption == NoPayout \notin Payout

VARIABLES
  status,     \* status of each payout row, "NONE" before it exists
  ref,        \* providerCode and providerReference: none, the transfer's,
              \* ours after a refusal, or an administrator's without or
              \* with the code of an earlier transfer
  returns,    \* number of PAYOUT_REVERSAL entries of each payout
  before,     \* pairs of PROCESSING payouts, the one that became so first
  transfer,   \* the transfer at the provider, under the payout's reference
  hook,       \* row of the notification of the transfer's end
  byHand,     \* payouts whose outcome an administrator asserted
  task,       \* local state of each task
  faults      \* tasks interrupted so far

rowVars == <<status, ref, returns, before>>
vars == <<status, ref, returns, before, transfer, hook, byHand, task,
          faults>>

Idle == [pc |-> "idle", op |-> "none", payout |-> NoPayout, goals |-> <<>>,
         seen |-> "none"]
Step(pc, op, p, goals) ==
  [pc |-> pc, op |-> op, payout |-> p, goals |-> goals,
   seen |-> "none"]

Init ==
  /\ status = [p \in Payout |-> "NONE"]
  /\ ref = [p \in Payout |-> "none"]
  /\ returns = [p \in Payout |-> 0]
  /\ before = {}
  /\ transfer = [p \in Payout |-> "none"]
  /\ hook = [p \in Payout |-> "NONE"]
  /\ byHand = {}
  /\ task = [k \in Task |-> Idle]
  /\ faults = 0

Set(k, s) == task' = [task EXCEPT ![k] = s]
-----------------------------------------------------------------------------
(* The state machine *)

CanTransition(from, to) ==
  \/ from = "PENDING" /\ to = "PROCESSING"
  \/ from = "PROCESSING" /\ to \in Concluded

\* The row is read outside the transaction; a refusal ends the task.
TransitionRead(k) ==
  LET t == task[k] IN
  /\ t.pc = "read"
  /\ Set(k, IF CanTransition(status[t.payout], Head(t.goals))
            THEN [t EXCEPT !.pc = "write", !.seen = ref[t.payout]]
            ELSE Idle)
  /\ UNCHANGED <<rowVars, transfer, hook, byHand, faults>>

\* Mutant of After: the next transition is attempted even if none is left.
AfterAlwaysReads(t) == [t EXCEPT !.pc = "read", !.goals = Tail(@)]

\* What is left to do after a transition: the next one, the row of the
\* notification, or nothing.
After(t) ==
  IF Len(t.goals) > 1 THEN Step("read", t.op, t.payout, Tail(t.goals))
  ELSE IF t.op = "hook" THEN Step("close", t.op, t.payout, <<>>)
  ELSE Idle

\* The code and the reference that the caller passes with the transition,
\* or those that were read.
WrittenRef(t) ==
  CASE t.op = "manual" -> IF t.seen \in {"none", "manual"}
                          THEN "manual" ELSE "manual after transfer"
    [] t.op = "execute" /\ Len(t.goals) = 2 -> "own"
    [] t.op = "execute" /\ t.goals = <<"PROCESSING">> -> "transfer"
    [] OTHER -> t.seen

\* The order of processedAt once a payout leaves, or enters last.
WithoutIt(p) == {pair \in before : pair[1] # p /\ pair[2] # p}
WithItLast(p) ==
  WithoutIt(p) \cup ({q \in Payout \ {p} : status[q] = "PROCESSING"} \X {p})

\* The transaction: status by id, whatever the row has become; a failure
\* writes the reversal that gives the whole amount back.
TransitionWrite(k) ==
  LET t == task[k]
      p == t.payout
      to == Head(t.goals) IN
  /\ t.pc = "write"
  /\ status' = [status EXCEPT ![p] = to]
  /\ ref' = [ref EXCEPT ![p] = WrittenRef(t)]
  /\ returns' = IF to = "FAILED" THEN [returns EXCEPT ![p] = @ + 1] ELSE returns
  /\ before' = IF to = "PROCESSING" THEN WithItLast(p) ELSE WithoutIt(p)
  /\ Set(k, After(t))
  /\ UNCHANGED <<transfer, hook, byHand, faults>>
-----------------------------------------------------------------------------
(* The organiser and the administrators *)

Request(p) ==
  /\ status[p] = "NONE"
  /\ status' = [status EXCEPT ![p] = "PENDING"]
  /\ UNCHANGED <<ref, returns, before, transfer, hook, byHand, task, faults>>

ExecuteRead(k, p) ==
  /\ task[k] = Idle
  /\ status[p] = "PENDING"
  /\ p \notin Bank
  /\ Set(k, Step("call", "execute", p, <<>>))
  /\ UNCHANGED <<rowVars, transfer, hook, byHand, faults>>

\* Mutant of Plan: an answer still in progress is taken for a failure.
PlanHasty(answer) ==
  IF answer # "paid" THEN <<"PROCESSING", "FAILED">> ELSE <<"PROCESSING">>

\* What execute() does with the provider's answer: always through PROCESSING.
Plan(answer) ==
  IF answer = "refused" THEN <<"PROCESSING", "FAILED">> ELSE <<"PROCESSING">>

\* The provider starts or refuses the transfer, once per reference.
Started(p) ==
  IF transfer[p] = "none" THEN {"refused", "processing"} ELSE {transfer[p]}

\* provider.payout(), before anything is written.
CallProvider(k) ==
  LET t == task[k] IN
  /\ t.pc = "call"
  /\ \E answer \in Started(t.payout) :
       /\ transfer' = [transfer EXCEPT ![t.payout] = answer]
       /\ Set(k, Step("read", "execute", t.payout, Plan(answer)))
  /\ UNCHANGED <<rowVars, hook, byHand, faults>>

\* A transfer made outside the platform, recorded with its outcome.
ManualRead(k, p, outcome) ==
  /\ task[k] = Idle
  /\ status[p] \in {"PENDING", "PROCESSING"}
  /\ Set(k, Step("read", "manual", p,
                 IF status[p] = "PENDING" THEN <<"PROCESSING", outcome>>
                                          ELSE <<outcome>>))
  /\ byHand' = byHand \cup {p}
  /\ UNCHANGED <<rowVars, transfer, hook, faults>>
-----------------------------------------------------------------------------
(* The provider, its notifications and the reconciliation *)

TransferEnds(p) ==
  /\ transfer[p] = "processing"
  /\ \E end \in {"paid", "failed"} :
       transfer' = [transfer EXCEPT ![p] = end]
  /\ UNCHANGED <<rowVars, hook, byHand, task, faults>>

\* Mutant of Outcome: any end is reported as a success.
OutcomeOptimistic(p) == "PAID"

Ended(p) == transfer[p] \in {"paid", "failed"}
Outcome(p) == IF transfer[p] = "paid" THEN "PAID" ELSE "FAILED"

\* The payout is found by the code and the reference its row carries.
Found(p) == ref[p] = "transfer"

Deliverable(k, p) ==
  /\ task[k] = Idle
  /\ Ended(p)
  /\ hook[p] \in {"NONE", "RECEIVED", "FAILED"}

HookNotFound(k, p) ==
  /\ Deliverable(k, p)
  /\ ~Found(p)
  /\ hook' = [hook EXCEPT ![p] = "FAILED"]
  /\ UNCHANGED <<rowVars, transfer, byHand, task, faults>>

HookIgnored(k, p) ==
  /\ Deliverable(k, p)
  /\ Found(p)
  /\ ~CanTransition(status[p], Outcome(p))
  /\ hook' = [hook EXCEPT ![p] = "IGNORED"]
  /\ UNCHANGED <<rowVars, transfer, byHand, task, faults>>

HookApplied(k, p) ==
  /\ Deliverable(k, p)
  /\ Found(p)
  /\ CanTransition(status[p], Outcome(p))
  /\ hook' = [hook EXCEPT ![p] = IF @ = "NONE" THEN "RECEIVED" ELSE @]
  /\ Set(k, Step("read", "hook", p, <<Outcome(p)>>))
  /\ UNCHANGED <<rowVars, transfer, byHand, faults>>

HookClose(k) ==
  /\ task[k].pc = "close"
  /\ hook' = [hook EXCEPT ![task[k].payout] = "PROCESSED"]
  /\ Set(k, Idle)
  /\ UNCHANGED <<rowVars, transfer, byHand, faults>>

\* Mutant of Due: only the oldest payout is ever asked about.
DueFirstOnly(p) == \A q \in Payout : <<q, p>> \notin before

\* The payouts a pass asks about: PROCESSING, with a reference, oldest first.
Due(p) == Cardinality({q \in Payout : <<q, p>> \in before}) < Batch

\* A pass runs under its advisory lock: one payout is polled at a time.
PollStart(k, p) ==
  /\ task[k] = Idle
  /\ \A j \in Task : task[j].op # "poll"
  /\ status[p] = "PROCESSING"
  /\ Due(p)
  /\ Found(p)
  /\ Ended(p)
  /\ Set(k, Step("read", "poll", p, <<Outcome(p)>>))
  /\ UNCHANGED <<rowVars, transfer, hook, byHand, faults>>

\* A lost answer or a restart ends a task where it is.
Interrupt(k) ==
  /\ task[k] # Idle
  /\ faults < MaxFaults
  /\ faults' = faults + 1
  /\ Set(k, Idle)
  /\ UNCHANGED <<rowVars, transfer, hook, byHand>>
-----------------------------------------------------------------------------
Proceed(k) ==
  \/ TransitionRead(k)
  \/ TransitionWrite(k)
  \/ CallProvider(k)
  \/ HookClose(k)

Poll(p) == \E k \in Task : PollStart(k, p)

Next ==
  \/ \E p \in Payout : Request(p) \/ TransferEnds(p) \/ Poll(p)
  \/ \E k \in Task : Proceed(k) \/ Interrupt(k)
  \/ \E k \in Task, p \in Payout :
       \/ ExecuteRead(k, p)
       \/ \E outcome \in Concluded : ManualRead(k, p, outcome)
       \/ HookNotFound(k, p)
       \/ HookIgnored(k, p)
       \/ HookApplied(k, p)

Spec == Init /\ [][Next]_vars

\* Requests run to their end, transfers end, and the cron of every minute
\* asks again about each payout of its batch; nobody has to be notified.
Fairness ==
  /\ \A k \in Task : WF_vars(Proceed(k))
  /\ \A p \in Payout : WF_vars(TransferEnds(p)) /\ SF_vars(Poll(p))

FairSpec == Spec /\ Fairness
-----------------------------------------------------------------------------
Goals == {<<>>, <<"PROCESSING">>, <<"PAID">>, <<"FAILED">>,
          <<"PROCESSING", "PAID">>, <<"PROCESSING", "FAILED">>}

TaskType ==
  [pc : {"idle", "call", "read", "write", "close"},
   op : {"none", "execute", "manual", "hook", "poll"},
   payout : Payout \cup {NoPayout}, goals : Goals,
   seen : Refs]

TaskShape(t) ==
  /\ t.pc # "idle" => t.payout \in Payout
  /\ t.pc \in {"read", "write"} => t.goals # <<>>

\* Rows, transfers and tasks keep their type, and a task that works on a
\* payout knows which one and what it wants of it.
TypeOK ==
  /\ status \in [Payout -> PayoutStatus]
  /\ ref \in [Payout -> Refs]
  /\ returns \in [Payout -> Nat]
  /\ before \subseteq Payout \X Payout
  /\ transfer \in [Payout -> TransferState]
  /\ hook \in [Payout -> HookStatus]
  /\ byHand \subseteq Payout
  /\ task \in [Task -> TaskType]
  /\ \A k \in Task : TaskShape(task[k])
  /\ faults \in Nat

\* Whatever the order in which executions, notifications and passes conclude
\* a payout, money that reached the organiser is never credited back to the
\* balance, unless an administrator said by hand how it ended.
SentStaysDebited ==
  \A p \in Payout \ byHand : transfer[p] = "paid" => returns[p] = 0

\* What the row says of a concluded payout is what became of the money.
StatusIsTrue ==
  \A p \in Payout \ byHand :
    /\ status[p] = "PAID" => transfer[p] = "paid"
    /\ status[p] = "FAILED" => transfer[p] \in {"refused", "failed"}
    /\ returns[p] > 0 => transfer[p] \in {"refused", "failed"}

\* A payout handed to the provider is concluded, while fewer payouts than a
\* batch were left behind by interrupted tasks.
HandedIsConcluded ==
  \A p \in Payout :
    (status[p] = "PROCESSING" /\ Found(p))
      ~> (status[p] \in Concluded \/ p \in byHand)

\* A payout is given back at most once (payouts.service.ts:336).
ReturnedOnce == \A p \in Payout : returns[p] <= 1

\* A concluded payout is never reopened (payouts.service.ts:442).
NeverReopened ==
  [][\A p \in Payout : status[p] \in Concluded => status'[p] = status[p]]_vars
=============================================================================
