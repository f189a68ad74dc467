------------------------------ MODULE Outbound ------------------------------
(***************************************************************************)
(* Notifications and their delivery (modules notifications/).              *)
(*                                                                         *)
(* A notification is a row with a unique dedupe key; notify() writes it,   *)
(* sometimes in the transaction of a settlement, and starts a delivery at  *)
(* once, without waiting for it or for the commit.  A delivery writes a    *)
(* row in message_log, calls the operator, and writes what it answered,    *)
(* for the e-mail and then for the text message.  Two passes, each under   *)
(* a lock of its own, take up the rows that are five minutes old and were  *)
(* not sent: they delete the row and deliver the notification again.       *)
(*                                                                         *)
(* A row that was SENT is never read again: it leaves the table here.      *)
(* Preferences are constant, reading a notification changes nothing of     *)
(* this, and messages without a notification are left out.                 *)
(***************************************************************************)
EXTENDS Naturals, Sequences, FiniteSets

CONSTANTS
  Key,          \* a recipient and a dedupe key
  Confirmation, \* keys written in the transaction of a settlement
  Mail, Text,   \* keys whose recipient wants e-mails, and whose type leaves
                \* the application for a recipient who accepts messages
  Note,         \* identifiers of notifications
  Log,          \* identifiers of rows of message_log
  Calls,        \* bound on concurrent calls of notify() for a key, each outside
                \* a transaction
  Batch,        \* rows that a pass takes up
  MaxRefusals,  \* bound on the operators' refusals
  MaxFaults     \* bound on rollbacks, interruptions and slow deliveries

ASSUME KeyAssumption ==
  Confirmation \subseteq Key /\ Mail \subseteq Key /\ Text \subseteq Key
ASSUME BoundsAssumption ==
  Batch \in Nat \ {0} /\ Calls \in Nat /\ MaxRefusals \in Nat /\ MaxFaults \in Nat

Pass == {"hourly", "every ten minutes"}
Job == Note \cup Pass
Channel == {"mail", "text"}
NoKey == "no key"
NoNote == "no note"
NoLog == "no log"

ASSUME NoneAssumption ==
  NoKey \notin Key /\ NoNote \notin Note /\ NoLog \notin Log
    /\ Note \cap Pass = {}

VARIABLES
  keyOf,    \* the key of each notification, NoKey before it is written
  note,     \* the row: none, open (its transaction has not ended), there,
            \* or undone
  calls,    \* calls of notify() that have read no row of each key
  log,      \* rows of message_log that are not SENT
  sent,     \* pairs of a notification and a channel with a row SENT
  job,      \* each delivery: that of a notification by notify(), or a pass
  accepted, \* messages that the operators took, by notification and channel
  refusals, \* the notifications that they refused, in order
  doubtful, \* keys of which a delivery was interrupted, slow or lost
  dropped,  \* notifications whose row a stopped pass deleted
  faults

noteVars == <<keyOf, note, calls>>
logVars == <<log, sent>>
history == <<accepted, refusals, doubtful, dropped>>
vars == <<noteVars, logVars, job, history, faults>>

NoRow == [status |-> "none", note |-> NoNote, channel |-> "mail", old |-> FALSE]
Idle == [pc |-> "idle", note |-> NoNote, channel |-> "mail", log |-> NoLog,
         answer |-> "none", todo |-> {}]

Init ==
  /\ keyOf = [n \in Note |-> NoKey]
  /\ note = [n \in Note |-> "none"]
  /\ calls = [k \in Key |-> 0]
  /\ log = [l \in Log |-> NoRow]
  /\ sent = {}
  /\ job = [j \in Job |-> Idle]
  /\ accepted = [n \in Note |-> [ch \in Channel |-> 0]]
  /\ refusals = << >>
  /\ doubtful = {}
  /\ dropped = {}
  /\ faults = 0

\* A delivery of a notification begins, with what is left of a pass's list.
Begin(n, rest) == [Idle EXCEPT !.pc = "read", !.note = n, !.todo = rest]
Go(j, s) == job' = [job EXCEPT ![j] = s]
Fault == faults < MaxFaults /\ faults' = faults + 1
-----------------------------------------------------------------------------
(* notify() *)

\* A row of this key that another transaction can see.
Exists(k) == \E n \in Note : keyOf[n] = k /\ note[n] = "there"

Unwritten == {n \in Note : note[n] = "none"}
NewNote == CHOOSE n \in Unwritten : TRUE

\* outbound.schedule(): the delivery starts, whatever becomes of the row.
Written(n, k, state) ==
  /\ Unwritten # {}
  /\ keyOf' = [keyOf EXCEPT ![n] = k]
  /\ note' = [note EXCEPT ![n] = state]
  /\ Go(n, Begin(n, {}))

NotifyRead(k) ==
  /\ k \notin Confirmation
  /\ calls[k] < Calls
  /\ ~Exists(k)
  /\ calls' = [calls EXCEPT ![k] = @ + 1]
  /\ UNCHANGED <<keyOf, note, logVars, job, history, faults>>

\* Mutant of NotifyCreate: no unique index.
NotifyCreateTwice(k) ==
  /\ calls[k] > 0
  /\ Written(NewNote, k, "there")
  /\ calls' = [calls EXCEPT ![k] = @ - 1]
  /\ UNCHANGED <<logVars, history, faults>>

NotifyCreate(k) ==
  /\ calls[k] > 0
  /\ ~Exists(k)
  /\ Written(NewNote, k, "there")
  /\ calls' = [calls EXCEPT ![k] = @ - 1]
  /\ UNCHANGED <<logVars, history, faults>>

\* The unique index refuses the second of two simultaneous calls.
NotifyLoses(k) ==
  /\ calls[k] > 0
  /\ Exists(k)
  /\ calls' = [calls EXCEPT ![k] = @ - 1]
  /\ UNCHANGED <<keyOf, note, logVars, job, history, faults>>

\* markPaid, under the lock of the order: its last statement.
Settle(k) ==
  /\ k \in Confirmation
  /\ \A n \in Note : keyOf[n] = k => note[n] = "undone"
  /\ Written(NewNote, k, "open")
  /\ UNCHANGED <<calls, logVars, history, faults>>

Commit(n) ==
  /\ note[n] = "open"
  /\ note' = [note EXCEPT ![n] = "there"]
  /\ UNCHANGED <<keyOf, calls, logVars, job, history, faults>>

Rollback(n) ==
  /\ note[n] = "open"
  /\ Fault
  /\ note' = [note EXCEPT ![n] = "undone"]
  /\ UNCHANGED <<keyOf, calls, logVars, job, history>>
-----------------------------------------------------------------------------
(* deliver() *)

\* What a delivery does when it has ended, or thrown: that of notify() ends;
\* a pass goes on with its list, or ends where it throws.
Ended(j) == IF j \in Pass THEN [Idle EXCEPT !.pc = "next", !.todo = job[j].todo]
                          ELSE Idle

At(j, channel) == [job[j] EXCEPT !.pc = "log", !.channel = channel,
                                 !.log = NoLog, !.answer = "none"]

AfterMail(j) == IF keyOf[job[j].note] \in Text THEN At(j, "text") ELSE Ended(j)
First(j) == IF keyOf[job[j].note] \in Mail THEN At(j, "mail") ELSE AfterMail(j)

\* Mutant of Visible: the row is read in the transaction that writes it.
VisibleAtOnce(n) == note[n] \in {"open", "there"}

\* The row is read on another connection than that of the transaction.
Visible(n) == note[n] = "there"

Read(j) ==
  /\ job[j].pc = "read"
  /\ Go(j, IF Visible(job[j].note) THEN First(j) ELSE Ended(j))
  /\ UNCHANGED <<noteVars, logVars, history, faults>>

\* Identifiers that nobody knows.
Fresh ==
  {l \in Log : log[l] = NoRow /\
     \A j \in Job : job[j].log # l /\ l \notin job[j].todo}
NewLog == CHOOSE l \in Fresh : TRUE

Queued(n, channel) ==
  [status |-> "QUEUED", note |-> n, channel |-> channel, old |-> FALSE]

Calling(j, l) == [job[j] EXCEPT !.pc = "call", !.log = l]

\* Mutant of CreateLog: the delivery goes on without the row it wrote.
CreateLogForgotten(j) ==
  /\ job[j].pc = "log"
  /\ Fresh # {}
  /\ log' = [log EXCEPT ![NewLog] = Queued(job[j].note, job[j].channel)]
  /\ Go(j, [job[j] EXCEPT !.pc = "call"])
  /\ UNCHANGED <<noteVars, sent, history, faults>>

CreateLog(j) ==
  /\ job[j].pc = "log"
  /\ Fresh # {}
  /\ log' = [log EXCEPT ![NewLog] = Queued(job[j].note, job[j].channel)]
  /\ Go(j, Calling(j, NewLog))
  /\ UNCHANGED <<noteVars, sent, history, faults>>

Told(j, answer) == [job[j] EXCEPT !.pc = "write", !.answer = answer]
Answered(j, answer) == Go(j, Told(j, answer))
Take(n, channel) ==
  accepted' = [m \in Note |-> [ch \in Channel |->
    accepted[m][ch] + IF m = n /\ ch = channel THEN 1 ELSE 0]]

CallAccepts(j) ==
  /\ job[j].pc = "call"
  /\ Take(job[j].note, job[j].channel)
  /\ Answered(j, "SENT")
  /\ UNCHANGED <<noteVars, logVars, refusals, doubtful, dropped, faults>>

CallRefuses(j) ==
  /\ job[j].pc = "call"
  /\ Len(refusals) < MaxRefusals
  /\ refusals' = Append(refusals, job[j].note)
  /\ Answered(j, "FAILED")
  /\ UNCHANGED <<noteVars, logVars, accepted, doubtful, dropped, faults>>

\* The operator took the message, and its answer is lost.
CallLost(j) ==
  LET n == job[j].note IN
  /\ job[j].pc = "call"
  /\ Fault
  /\ Take(n, job[j].channel)
  /\ doubtful' = doubtful \cup {keyOf[n]}
  /\ Answered(j, "FAILED")
  /\ UNCHANGED <<noteVars, logVars, refusals, dropped>>

\* What is left of a row once the answer is known: nothing here once SENT.
Kept(l, answer) ==
  IF answer = "SENT" THEN NoRow ELSE [log[l] EXCEPT !.status = answer]

WriteAnswer(j) ==
  LET t == job[j] IN
  /\ t.pc = "write"
  /\ log[t.log] # NoRow
  /\ log' = [log EXCEPT ![t.log] = Kept(t.log, t.answer)]
  /\ sent' = IF t.answer = "SENT" THEN sent \cup {<<t.note, t.channel>>} ELSE sent
  /\ Go(j, IF t.channel = "mail" THEN AfterMail(j) ELSE Ended(j))
  /\ UNCHANGED <<noteVars, history, faults>>

\* The row was deleted meanwhile: both updates throw, out of deliver() and out
\* of a pass.
WriteThrows(j) ==
  /\ job[j].pc = "write"
  /\ log[job[j].log] = NoRow
  /\ Go(j, Idle)
  /\ UNCHANGED <<noteVars, logVars, history, faults>>
-----------------------------------------------------------------------------
(* retryPending() *)

\* Attempts of a row: each delivery writes a new one.
Attempts(l) == IF log[l].status = "FAILED" THEN 1 ELSE 0

\* Mutant of Pending: what stayed in the queue is not taken up.
PendingFailed(l) == log[l].status = "FAILED" /\ log[l].old

Pending(l) ==
  /\ log[l].status \in {"QUEUED", "FAILED"}
  /\ log[l].old
  /\ Attempts(l) < 3

\* The rows are listed in no order, fifty at most.
PassStart(p) ==
  LET all == {l \in Log : Pending(l)} IN
  /\ job[p].pc = "idle"
  /\ all # {}
  /\ \E some \in SUBSET all :
       /\ Cardinality(some) = Batch \/ (some = all /\ Cardinality(all) <= Batch)
       /\ Go(p, [Idle EXCEPT !.pc = "next", !.todo = some])
  /\ UNCHANGED <<noteVars, logVars, history, faults>>

\* The row is deleted, and its notification delivered again.
PassTakes(p, l) ==
  /\ job[p].pc = "next" /\ l \in job[p].todo
  /\ log[l] # NoRow
  /\ log' = [log EXCEPT ![l] = NoRow]
  /\ Go(p, Begin(log[l].note, job[p].todo \ {l}))
  /\ UNCHANGED <<noteVars, sent, history, faults>>

\* The other pass deleted it first: the deletion throws, and the pass ends.
PassThrows(p, l) ==
  /\ job[p].pc = "next" /\ l \in job[p].todo
  /\ log[l] = NoRow
  /\ Go(p, Idle)
  /\ UNCHANGED <<noteVars, logVars, history, faults>>

PassEnds(p) ==
  /\ job[p].pc = "next" /\ job[p].todo = {}
  /\ Go(p, Idle)
  /\ UNCHANGED <<noteVars, logVars, history, faults>>
-----------------------------------------------------------------------------
(* Time and faults *)

Live(l) == \E j \in Job : job[j].log = l

\* Five minutes go by.
Ages(l) ==
  /\ log[l] # NoRow /\ ~log[l].old
  /\ ~Live(l)
  /\ log' = [log EXCEPT ![l].old = TRUE]
  /\ UNCHANGED <<noteVars, sent, job, history, faults>>

\* Five minutes go by while the operator has not answered.
Lasts(l) ==
  /\ log[l] # NoRow /\ ~log[l].old
  /\ Live(l)
  /\ Fault
  /\ log' = [log EXCEPT ![l].old = TRUE]
  /\ doubtful' = doubtful \cup {keyOf[log[l].note]}
  /\ UNCHANGED <<noteVars, sent, job, accepted, refusals, dropped>>

\* The process stops, or a statement fails, in the middle of a delivery.
Interrupt(j) ==
  LET t == job[j] IN
  /\ t.pc \notin {"idle", "next"}
  /\ Fault
  /\ doubtful' = doubtful \cup {keyOf[t.note]}
  /\ dropped' = IF t.log = NoLog THEN dropped \cup {t.note} ELSE dropped
  /\ Go(j, Idle)
  /\ UNCHANGED <<noteVars, logVars, accepted, refusals>>
-----------------------------------------------------------------------------
Deliver(j) ==
  \/ Read(j) \/ CreateLog(j)
  \/ CallAccepts(j) \/ CallRefuses(j)
  \/ WriteAnswer(j) \/ WriteThrows(j)

Proceed(p) ==
  \/ Deliver(p) \/ PassEnds(p)
  \/ \E l \in Log : PassTakes(p, l) \/ PassThrows(p, l)

Next ==
  \/ \E k \in Key :
       NotifyRead(k) \/ NotifyCreate(k) \/ NotifyLoses(k) \/ Settle(k)
  \/ \E n \in Note : Commit(n) \/ Rollback(n) \/ Deliver(n)
  \/ \E p \in Pass : PassStart(p) \/ Proceed(p)
  \/ \E j \in Job : CallLost(j) \/ Interrupt(j)
  \/ \E l \in Log : Ages(l) \/ Lasts(l)

Spec == Init /\ [][Next]_vars

\* Deliveries go on to their end, time passes, and the passes come back.
Fairness ==
  /\ \A n \in Note : WF_vars(Deliver(n))
  /\ \A p \in Pass : WF_vars(PassStart(p)) /\ WF_vars(Proceed(p))
  /\ \A l \in Log : WF_vars(Ages(l))

FairSpec == Spec /\ Fairness
-----------------------------------------------------------------------------
RowType ==
  [status : {"none", "QUEUED", "FAILED"}, note : Note \cup {NoNote},
   channel : Channel, old : BOOLEAN]

JobType ==
  [pc : {"idle", "read", "log", "call", "write", "next"},
   note : Note \cup {NoNote}, channel : Channel, log : Log \cup {NoLog},
   answer : {"none", "SENT", "FAILED"}, todo : SUBSET Log]

JobShape(t) ==
  /\ t.pc \notin {"idle", "next"} => t.note \in Note
  /\ t.pc \in {"call", "write"} => t.log \in Log
  /\ t.pc = "write" => t.answer # "none"

\* Rows and deliveries keep their type; a delivery at work knows its
\* notification and, once it calls the operator, the row it has to write.
TypeOK ==
  /\ keyOf \in [Note -> Key \cup {NoKey}]
  /\ note \in [Note -> {"none", "open", "there", "undone"}]
  /\ \A n \in Note : keyOf[n] = NoKey <=> note[n] = "none"
  /\ calls \in [Key -> 0..Calls]
  /\ log \in [Log -> RowType]
  /\ \A l \in Log : log[l] # NoRow => log[l].note \in Note
  /\ sent \subseteq Note \X Channel
  /\ job \in [Job -> JobType] /\ \A j \in Job : JobShape(job[j])
  /\ accepted \in [Note -> [Channel -> Nat]]
  /\ refusals \in Seq(Note) /\ Len(refusals) <= MaxRefusals
  /\ doubtful \subseteq Key /\ dropped \subseteq Note
  /\ faults \in 0..MaxFaults

Refused(n) == {i \in DOMAIN refusals : refusals[i] = n}
Reached(n) == \E ch \in Channel : accepted[n][ch] > 0

\* Nobody is told of a settlement that was undone, or that may still be.
NothingBeforeCommit == \A n \in Note : Reached(n) => note[n] = "there"

\* A message leaves once, whatever calls, settlements and passes cross, unless
\* one of its deliveries was interrupted, slow or lost, or its other channel
\* was refused.
SentOnce ==
  \A n \in Note : keyOf[n] \notin doubtful =>
    /\ \A ch \in Channel :
         accepted[n][ch] > 1 => Refused(n) # {} /\ keyOf[n] \in Mail \cap Text
    /\ \A m \in Note : keyOf[m] = keyOf[n] /\ Reached(m) /\ Reached(n) => m = n

\* A message that was refused, or whose delivery was interrupted, ends up
\* sent on every channel its recipient wants, unless a delivery was stopped
\* between the deletion of a row and the new one.
Wanted(n) ==
  (IF keyOf[n] \in Mail THEN {"mail"} ELSE {})
    \cup (IF keyOf[n] \in Text THEN {"text"} ELSE {})
PendingIsSent ==
  \A n \in Note :
    (\E l \in Log : log[l].note = n)
      ~> (n \in dropped \/ \A ch \in Wanted(n) : <<n, ch>> \in sent)

\* Three attempts at most (outbound.service.ts:318).
ThreeAttempts == \A n \in Note : Cardinality(Refused(n)) <= 3

\* Between the commit and the delivery a notification waits for a pass to take
\* it up (notifications.service.ts:61).
Waits(n) == \E l \in Log : log[l].note = n
Handled(n) == \E j \in Job : job[j].note = n
ConfirmedLeaves ==
  \A n \in Note : note[n] = "there" /\ keyOf[n] \in Text =>
    Handled(n) \/ Waits(n) \/ Reached(n)

\* Nothing is sent twice (notifications.service.ts:29).
NeverTwice == \A n \in Note, ch \in Channel : accepted[n][ch] <= 1
=============================================================================
