--------------------------- MODULE OutboundProofs ---------------------------
(***************************************************************************)
(* Whatever crosses, nobody is told of what is not committed, and a        *)
(* message whose deliveries went well leaves once.  Such a message is      *)
(* always in one place: a delivery, or a row that no delivery works on and *)
(* that a single pass can delete (Token).                                  *)
(***************************************************************************)
EXTENDS Outbound, TLAPS

Busy(t, n) == t.pc \notin {"idle", "next"} /\ t.note = n
Handles(j, n) == Busy(job[j], n)
Row(r, n) == r # NoRow /\ r.note = n
RowOf(l, n) == Row(log[l], n)

\* A committed notification is behind every row and every delivery that got
\* beyond its reading.
Committed ==
  /\ \A l \in Log : log[l] # NoRow => note[log[l].note] = "there"
  /\ \A j \in Job : job[j].pc \in {"log", "call", "write"}
       => note[job[j].note] = "there"
  /\ NothingBeforeCommit

\* A key has one row, in or out of a transaction.
OneRow ==
  /\ \A k \in Key : calls[k] > 0 => k \notin Confirmation
  /\ \A n \in Note : note[n] = "open" => keyOf[n] \in Confirmation
  /\ \A n, m \in Note :
       /\ note[n] \in {"open", "there"} /\ note[m] \in {"open", "there"}
       /\ keyOf[n] = keyOf[m]
       => n = m

\* Deliveries and rows: whose they are, and which a pass has listed.
Owned ==
  /\ \A n \in Note : job[n].pc # "idle" => job[n].note = n /\ job[n].pc # "next"
  /\ \A j \in Job : job[j].log # NoLog => job[j].pc \in {"call", "write"}
  /\ \A i, j \in Job : job[i].log = job[j].log /\ job[i].log # NoLog => i = j
  /\ \A j \in Job : \A l \in job[j].todo : log[l] = NoRow \/ log[l].old
  /\ \A n \in Note : note[n] = "none" =>
       /\ \A j \in Job : ~Handles(j, n)
       /\ \A l \in Log : ~RowOf(l, n)
       /\ \A ch \in Channel : accepted[n][ch] = 0

Zero(n) == \A ch \in Channel : accepted[n][ch] = 0
Single(n) == keyOf[n] \notin Mail \cap Text
Clean(n) == keyOf[n] \notin doubtful /\ (Refused(n) = {} \/ Single(n))

\* What a delivery of the message has done already.
Progress(j, n) ==
  LET t == job[j] IN
  /\ t.pc = "read" => Zero(n)
  /\ t.pc \in {"log", "call", "write"} =>
       t.channel \in Wanted(n) /\ (t.channel = "mail" => accepted[n]["text"] = 0)
  /\ t.pc \in {"log", "call"} => accepted[n][t.channel] = 0
  /\ t.pc \in {"call", "write"} => log[t.log] = Queued(n, t.channel)
  /\ t.pc = "write" /\ t.answer = "FAILED" =>
       accepted[n][t.channel] = 0 /\ Refused(n) # {}

Waiting(l, n) ==
  /\ log[l].status = "FAILED" /\ Refused(n) # {} /\ Zero(n)
  /\ \A j \in Job : ~Handles(j, n)

Token(n) ==
  /\ \A i, j \in Job : Handles(i, n) /\ Handles(j, n) => i = j
  /\ \A j \in Job : Handles(j, n) => Progress(j, n)
  /\ \A l \in Log : RowOf(l, n) =>
       Waiting(l, n) \/ \E j \in Job : Handles(j, n) /\ job[j].log = l
  /\ \A l, m \in Log : RowOf(l, n) /\ RowOf(m, n) => l = m
  /\ \A ch \in Channel :
       accepted[n][ch] <= 1 /\ (accepted[n][ch] # 0 => ch \in Wanted(n))

Tokens == \A n \in Note : Clean(n) => Token(n)

IInv == TypeOK /\ Committed /\ OneRow /\ Owned /\ Tokens
-----------------------------------------------------------------------------
(* The states a delivery goes through *)

LEMMA IdleType == Idle \in JobType /\ JobShape(Idle)
BY DEF Idle, JobType, JobShape, Channel

LEMMA EndedFacts ==
  ASSUME TypeOK, NEW j \in Job, NEW s, s = Ended(j)
  PROVE  /\ s \in JobType /\ JobShape(s)
         /\ s.log = NoLog /\ s.todo \subseteq job[j].todo
         /\ s.pc = IF j \in Pass THEN "next" ELSE "idle"
<1>1. job[j].todo \subseteq Log
  BY DEF TypeOK, JobType
<1>2. CASE j \in Pass
  <2>1. s = [Idle EXCEPT !.pc = "next", !.todo = job[j].todo]
    BY <1>2 DEF Ended
  <2>2. /\ s.pc = "next" /\ s.todo = job[j].todo /\ s.log = NoLog
        /\ s \in JobType
    BY <1>1, <2>1, IdleType DEF Idle, JobType
  <2> QED
    BY <1>2, <2>2 DEF JobShape
<1>3. CASE j \notin Pass
  <2>1. s = Idle
    BY <1>3 DEF Ended
  <2>2. s.pc = "idle" /\ s.todo = {} /\ s.log = NoLog
    BY <2>1 DEF Idle
  <2> QED
    BY <1>3, <2>1, <2>2, IdleType
<1> QED
  BY <1>2, <1>3

LEMMA AtFacts ==
  ASSUME TypeOK, NEW j \in Job, job[j].note \in Note, NEW ch \in Channel,
         NEW s, s = At(j, ch)
  PROVE  /\ s \in JobType /\ JobShape(s)
         /\ s.pc = "log" /\ s.note = job[j].note /\ s.channel = ch
         /\ s.log = NoLog /\ s.todo = job[j].todo
<1>1. job[j] \in JobType
  BY DEF TypeOK
<1>2. PICK t \in JobType : t = job[j]
  BY <1>1
<1>3. s = [t EXCEPT !.pc = "log", !.channel = ch, !.log = NoLog, !.answer = "none"]
  BY <1>2 DEF At
<1>4. /\ s.pc = "log" /\ s.note = t.note /\ s.channel = ch
      /\ s.log = NoLog /\ s.todo = t.todo /\ s \in JobType
  BY <1>3 DEF JobType
<1> QED
  BY <1>2, <1>4 DEF JobShape

\* After the e-mail: the text message, or the end.
LEMMA AfterMailCases ==
  ASSUME NEW j, NEW s, s = AfterMail(j)
  PROVE  \/ s = At(j, "text") /\ keyOf[job[j].note] \in Text
         \/ s = Ended(j) /\ keyOf[job[j].note] \notin Text
BY DEF AfterMail

LEMMA FirstCases ==
  ASSUME NEW j, NEW s, s = First(j)
  PROVE  \/ s = At(j, "mail") /\ keyOf[job[j].note] \in Mail
         \/ s = At(j, "text") /\ keyOf[job[j].note] \in Text
         \/ s = Ended(j)
BY DEF First, AfterMail

LEMMA CreatedFacts ==
  ASSUME TypeOK, NEW j \in Job, job[j].pc = "log", NEW l \in Log,
         NEW s, s = Calling(j, l)
  PROVE  /\ s \in JobType /\ JobShape(s)
         /\ s.pc = "call" /\ s.note = job[j].note /\ s.channel = job[j].channel
         /\ s.log = l /\ s.todo = job[j].todo
<1>1. job[j] \in JobType /\ job[j].note \in Note
  BY DEF TypeOK, JobShape
<1>2. PICK t \in JobType : t = job[j]
  BY <1>1
<1>3. s = [t EXCEPT !.pc = "call", !.log = l]
  BY <1>2 DEF Calling
<1>4. /\ s.pc = "call" /\ s.note = t.note /\ s.channel = t.channel
      /\ s.log = l /\ s.todo = t.todo /\ s \in JobType
  BY <1>3 DEF JobType
<1> QED
  BY <1>1, <1>2, <1>4 DEF JobShape

LEMMA AnsweredFacts ==
  ASSUME TypeOK, NEW j \in Job, job[j].pc = "call",
         NEW a \in {"SENT", "FAILED"},
         NEW s, s = Told(j, a)
  PROVE  /\ s \in JobType /\ JobShape(s)
         /\ s.pc = "write" /\ s.note = job[j].note /\ s.channel = job[j].channel
         /\ s.log = job[j].log /\ s.answer = a /\ s.todo = job[j].todo
<1>1. job[j] \in JobType /\ job[j].note \in Note /\ job[j].log \in Log
  BY DEF TypeOK, JobShape
<1>2. PICK t \in JobType : t = job[j]
  BY <1>1
<1>3. s = [t EXCEPT !.pc = "write", !.answer = a]
  BY <1>2 DEF Told
<1>4. /\ s.pc = "write" /\ s.note = t.note /\ s.channel = t.channel
      /\ s.log = t.log /\ s.answer = a /\ s.todo = t.todo /\ s \in JobType
  BY <1>3 DEF JobType
<1> QED
  BY <1>1, <1>2, <1>4 DEF JobShape

\* A delivery begins, with what is left of the list of its pass.
LEMMA BeginFacts ==
  ASSUME NEW n \in Note, NEW rest \in SUBSET Log,
         NEW s, s = Begin(n, rest)
  PROVE  /\ s \in JobType /\ JobShape(s)
         /\ s.pc = "read" /\ s.note = n /\ s.log = NoLog /\ s.todo = rest
<1>1. /\ s.pc = "read" /\ s.note = n /\ s.log = NoLog /\ s.todo = rest
      /\ s \in JobType
  BY IdleType DEF Begin, Idle, JobType
<1> QED
  BY <1>1 DEF JobShape

LEMMA ListFacts ==
  ASSUME NEW some \in SUBSET Log,
         NEW s, s = [Idle EXCEPT !.pc = "next", !.todo = some]
  PROVE  /\ s \in JobType /\ JobShape(s)
         /\ s.pc = "next" /\ s.log = NoLog /\ s.todo = some
<1>1. s.pc = "next" /\ s.log = NoLog /\ s.todo = some /\ s \in JobType
  BY IdleType DEF Idle, JobType
<1> QED
  BY <1>1 DEF JobShape

\* One delivery takes another state.
LEMMA SetJob ==
  ASSUME TypeOK, NEW j \in Job, NEW s \in JobType, JobShape(s), Go(j, s)
  PROVE  /\ job' \in [Job -> JobType]
         /\ \A i \in Job : JobShape(job'[i])
         /\ job'[j] = s /\ \A i \in Job : i # j => job'[i] = job[i]
BY DEF TypeOK, Go

LEMMA NewLogFacts ==
  ASSUME Fresh # {}
  PROVE  /\ NewLog \in Log /\ log[NewLog] = NoRow
         /\ \A j \in Job : job[j].log # NewLog /\ NewLog \notin job[j].todo
<1>1. NewLog \in Fresh
  BY DEF NewLog
<1> QED
  BY <1>1 DEF Fresh

LEMMA NewNoteFacts ==
  ASSUME Unwritten # {}
  PROVE  NewNote \in Note /\ note[NewNote] = "none"
<1>1. NewNote \in Unwritten
  BY DEF NewNote
<1> QED
  BY <1>1 DEF Unwritten
-----------------------------------------------------------------------------
(* Type correctness *)

LEMMA TypeInit == Init => TypeOK
<1> SUFFICES ASSUME Init PROVE TypeOK
  OBVIOUS
<1>1. /\ keyOf \in [Note -> Key \cup {NoKey}]
      /\ note \in [Note -> {"none", "open", "there", "undone"}]
      /\ \A n \in Note : keyOf[n] = NoKey <=> note[n] = "none"
      /\ calls \in [Key -> 0..Calls]
  BY BoundsAssumption DEF Init
<1>2. NoRow \in RowType
  BY DEF NoRow, RowType, Channel
<1>3. log \in [Log -> RowType] /\ \A l \in Log : log[l] = NoRow
  BY <1>2 DEF Init
<1>4. job \in [Job -> JobType] /\ \A j \in Job : JobShape(job[j])
  BY IdleType DEF Init
<1>5. accepted \in [Note -> [Channel -> Nat]]
  BY DEF Init
<1>6. refusals \in Seq(Note) /\ Len(refusals) <= MaxRefusals
  BY BoundsAssumption DEF Init
<1>7. /\ sent \subseteq Note \X Channel /\ doubtful \subseteq Key
      /\ dropped \subseteq Note /\ faults \in 0..MaxFaults
  BY BoundsAssumption DEF Init
<1> QED
  BY <1>1, <1>3, <1>4, <1>5, <1>6, <1>7 DEF TypeOK

\* A notification is written, and its delivery scheduled.
LEMMA WrittenType ==
  ASSUME TypeOK, NEW k \in Key, NEW state \in {"open", "there"},
         Written(NewNote, k, state)
  PROVE  /\ keyOf' \in [Note -> Key \cup {NoKey}]
         /\ note' \in [Note -> {"none", "open", "there", "undone"}]
         /\ \A n \in Note : keyOf'[n] = NoKey <=> note'[n] = "none"
         /\ job' \in [Job -> JobType]
         /\ \A j \in Job : JobShape(job'[j])
<1>1. NewNote \in Note
  BY NewNoteFacts DEF Written
<1>2. PICK n \in Note : n = NewNote
  BY <1>1
<1>3. PICK s : s = Begin(n, {})
  OBVIOUS
<1>4. s \in JobType /\ JobShape(s) /\ Go(n, s)
  BY <1>2, <1>3, BeginFacts DEF Written
<1>5. n \in Job
  BY DEF Job
<1> QED
  BY <1>2, <1>4, <1>5, SetJob, NoneAssumption DEF Written, TypeOK

LEMMA NotifyType ==
  ASSUME TypeOK, NEW k \in Key,
         NotifyRead(k) \/ NotifyCreate(k) \/ NotifyLoses(k) \/ Settle(k)
  PROVE  TypeOK'
<1>1. calls' \in [Key -> 0..Calls]
  <2>1. calls \in [Key -> 0..Calls] /\ Calls \in Nat
    BY BoundsAssumption DEF TypeOK
  <2>2. ASSUME calls' = [calls EXCEPT ![k] = @ - 1], calls[k] > 0 
        PROVE  calls' \in [Key -> 0..Calls]
    BY <2>1, <2>2
  <2>3. ASSUME calls' = [calls EXCEPT ![k] = @ + 1], calls[k] < Calls
        PROVE  calls' \in [Key -> 0..Calls]
    BY <2>1, <2>3
  <2> QED
    BY <2>1, <2>2, <2>3 DEF NotifyRead, NotifyCreate, NotifyLoses, Settle
<1>2. UNCHANGED <<logVars, accepted, refusals, doubtful, dropped, faults>>
  BY DEF NotifyRead, NotifyCreate, NotifyLoses, Settle, history
<1>3. /\ keyOf' \in [Note -> Key \cup {NoKey}]
      /\ note' \in [Note -> {"none", "open", "there", "undone"}]
      /\ \A n \in Note : keyOf'[n] = NoKey <=> note'[n] = "none"
      /\ job' \in [Job -> JobType]
      /\ \A j \in Job : JobShape(job'[j])
  <2>1. CASE NotifyCreate(k) \/ Settle(k)
    BY <2>1, WrittenType DEF NotifyCreate, Settle
  <2>2. CASE NotifyRead(k) \/ NotifyLoses(k)
    BY <2>2 DEF NotifyRead, NotifyLoses, TypeOK
  <2> QED
    BY <2>1, <2>2
<1> QED
  BY <1>1, <1>2, <1>3 DEF TypeOK, logVars

LEMMA TransactionType ==
  ASSUME TypeOK, NEW n \in Note, Commit(n) \/ Rollback(n)
  PROVE  TypeOK'
<1>1. faults' \in 0..MaxFaults
  BY BoundsAssumption DEF TypeOK, Commit, Rollback, Fault
<1>2. /\ note' \in [Note -> {"none", "open", "there", "undone"}]
      /\ \A m \in Note : keyOf[m] = NoKey <=> note'[m] = "none"
  BY DEF TypeOK, Commit, Rollback
<1> QED
  BY <1>1, <1>2 DEF TypeOK, Commit, Rollback, logVars, history

\* Everything but the deliveries, the rows and what they count.
LEMMA JobStepType ==
  ASSUME TypeOK, UNCHANGED noteVars,
         job' \in [Job -> JobType], \A j \in Job : JobShape(job'[j]),
         log' \in [Log -> RowType],
         \A l \in Log : log'[l] # NoRow => log'[l].note \in Note,
         sent' \subseteq Note \X Channel,
         accepted' \in [Note -> [Channel -> Nat]],
         refusals' \in Seq(Note), Len(refusals') <= MaxRefusals,
         doubtful' \subseteq Key, dropped' \subseteq Note,
         faults' \in 0..MaxFaults
  PROVE  TypeOK'
BY DEF TypeOK, noteVars

LEMMA ReadType ==
  ASSUME TypeOK, NEW j \in Job, Read(j)
  PROVE  TypeOK'
<1>1. PICK s : s = IF Visible(job[j].note) THEN First(j) ELSE Ended(j)
  OBVIOUS
<1>2. job[j].note \in Note
  BY DEF Read, TypeOK, JobShape
<1>3. s = At(j, "mail") \/ s = At(j, "text") \/ s = Ended(j)
  BY <1>1, FirstCases
<1>4. s \in JobType /\ JobShape(s)
  BY <1>2, <1>3, AtFacts, EndedFacts DEF Channel
<1>5. /\ job' \in [Job -> JobType]
      /\ \A i \in Job : JobShape(job'[i])
  BY <1>1, <1>4, SetJob DEF Read
<1> QED
  BY <1>5, JobStepType DEF Read, TypeOK, logVars, history

LEMMA CreateLogStep ==
  ASSUME TypeOK, NEW j \in Job, CreateLog(j)
  PROVE  \E l \in Log, s \in JobType :
           /\ JobShape(s) /\ Go(j, s)
           /\ s.pc = "call" /\ s.note = job[j].note /\ s.channel = job[j].channel
           /\ s.log = l /\ s.todo = job[j].todo
           /\ log[l] = NoRow
           /\ \A i \in Job : job[i].log # l /\ l \notin job[i].todo
           /\ log' = [log EXCEPT ![l] = Queued(job[j].note, job[j].channel)]
<1>1. /\ NewLog \in Log /\ log[NewLog] = NoRow
      /\ \A i \in Job : job[i].log # NewLog /\ NewLog \notin job[i].todo
  BY NewLogFacts DEF CreateLog
<1>2. PICK s : s = Calling(j, NewLog)
  OBVIOUS
<1>3. Go(j, s)
  BY <1>2 DEF CreateLog
<1>4. job[j].pc = "log"
  BY DEF CreateLog
<1>5. /\ s \in JobType /\ JobShape(s)
      /\ s.pc = "call" /\ s.note = job[j].note /\ s.channel = job[j].channel
      /\ s.log = NewLog /\ s.todo = job[j].todo
  BY <1>1, <1>2, <1>4, CreatedFacts
<1>6. log' = [log EXCEPT ![NewLog] = Queued(job[j].note, job[j].channel)]
  BY DEF CreateLog
<1> QED
  BY <1>1, <1>3, <1>5, <1>6

LEMMA CreateLogType ==
  ASSUME TypeOK, NEW j \in Job, CreateLog(j)
  PROVE  TypeOK'
<1>1. PICK l \in Log, s \in JobType :
        /\ JobShape(s) /\ Go(j, s)
        /\ log' = [log EXCEPT ![l] = Queued(job[j].note, job[j].channel)]
  BY CreateLogStep
<1>3. /\ job' \in [Job -> JobType]
      /\ \A i \in Job : JobShape(job'[i])
  BY <1>1, SetJob
<1>4. job[j].note \in Note /\ job[j].channel \in Channel
  BY DEF CreateLog, TypeOK, JobShape, JobType
<1>5. PICK q : q = Queued(job[j].note, job[j].channel)
  OBVIOUS
<1>6. q \in RowType /\ q.note \in Note
  BY <1>4, <1>5 DEF Queued, RowType
<1>7. log' = [log EXCEPT ![l] = q]
  BY <1>1, <1>5
<1>8. /\ log' \in [Log -> RowType]
      /\ \A m \in Log : log'[m] # NoRow => log'[m].note \in Note
  BY <1>6, <1>7 DEF TypeOK
<1> QED
  BY <1>3, <1>8, JobStepType DEF CreateLog, TypeOK, history

LEMMA TakeType ==
  ASSUME TypeOK, NEW n \in Note, NEW ch \in Channel, Take(n, ch)
  PROVE  /\ accepted' \in [Note -> [Channel -> Nat]]
         /\ accepted'[n][ch] = accepted[n][ch] + 1
         /\ \A c \in Channel : c # ch => accepted'[n][c] = accepted[n][c]
         /\ \A m \in Note : m # n => accepted'[m] = accepted[m]
BY DEF Take, TypeOK

\* Whoever is delivered, or waits in a row, has been written.
LEMMA KeyFacts ==
  ASSUME TypeOK, Owned
  PROVE  /\ \A j \in Job : job[j].pc \notin {"idle", "next"}
              => job[j].note \in Note /\ keyOf[job[j].note] \in Key
         /\ \A l \in Log : log[l] # NoRow
              => log[l].note \in Note /\ keyOf[log[l].note] \in Key
<1>1. ASSUME NEW j \in Job, job[j].pc \notin {"idle", "next"}
      PROVE  job[j].note \in Note /\ keyOf[job[j].note] \in Key
  <2>1. PICK n \in Note : n = job[j].note
    BY <1>1 DEF TypeOK, JobShape
  <2>2. Handles(j, n)
    BY <1>1, <2>1 DEF Handles, Busy
  <2>3. note[n] # "none"
    BY <2>2 DEF Owned
  <2> QED
    BY <2>1, <2>3 DEF TypeOK
<1>2. ASSUME NEW l \in Log, log[l] # NoRow
      PROVE  log[l].note \in Note /\ keyOf[log[l].note] \in Key
  <2>1. PICK n \in Note : n = log[l].note
    BY <1>2 DEF TypeOK
  <2>2. RowOf(l, n)
    BY <1>2, <2>1 DEF RowOf, Row
  <2>3. note[n] # "none"
    BY <2>2 DEF Owned
  <2> QED
    BY <2>1, <2>3 DEF TypeOK
<1> QED
  BY <1>1, <1>2

LEMMA CallType ==
  ASSUME TypeOK, Owned, NEW j \in Job,
         CallAccepts(j) \/ CallRefuses(j) \/ CallLost(j)
  PROVE  TypeOK'
<1>1. /\ job[j].pc = "call" /\ job[j].note \in Note /\ job[j].channel \in Channel
      /\ keyOf[job[j].note] \in Key
  BY KeyFacts DEF TypeOK, JobShape, JobType, CallAccepts, CallRefuses, CallLost
<1>2. PICK a \in {"SENT", "FAILED"} : Answered(j, a)
  BY DEF CallAccepts, CallRefuses, CallLost
<1>3. PICK s : s = Told(j, a)
  OBVIOUS
<1>4. /\ job' \in [Job -> JobType]
      /\ \A i \in Job : JobShape(job'[i])
  BY <1>1, <1>2, <1>3, AnsweredFacts, SetJob DEF Answered
<1>5. accepted' \in [Note -> [Channel -> Nat]]
  BY <1>1, TakeType DEF CallAccepts, CallRefuses, CallLost, TypeOK
<1>6. refusals' \in Seq(Note) /\ Len(refusals') <= MaxRefusals
  <2>1. refusals \in Seq(Note) /\ Len(refusals) <= MaxRefusals
    BY DEF TypeOK
  <2>2. CASE refusals' = refusals
    BY <2>1, <2>2
  <2>3. CASE CallRefuses(j)
    <3>1. PICK n \in Note : n = job[j].note
      BY <1>1
    <3>2. refusals' = Append(refusals, n) /\ Len(refusals) < MaxRefusals
      BY <2>3, <3>1 DEF CallRefuses
    <3> QED
      BY <2>1, <3>2, BoundsAssumption
  <2> QED
    BY <2>2, <2>3 DEF CallAccepts, CallLost
<1>7. faults' \in 0..MaxFaults
  BY BoundsAssumption DEF CallAccepts, CallRefuses, CallLost, Fault, TypeOK
<1>8. /\ UNCHANGED <<noteVars, log, sent, dropped>>
      /\ doubtful' = doubtful \/ doubtful' = doubtful \cup {keyOf[job[j].note]}
  BY DEF CallAccepts, CallRefuses, CallLost, logVars
<1>9. doubtful' \subseteq Key
  BY <1>1, <1>8 DEF TypeOK
<1> QED
  BY <1>4, <1>5, <1>6, <1>7, <1>8, <1>9, JobStepType DEF TypeOK

LEMMA WriteAnswerType ==
  ASSUME TypeOK, NEW j \in Job, WriteAnswer(j)
  PROVE  TypeOK'
<1>1. /\ job[j].note \in Note /\ job[j].channel \in Channel /\ job[j].log \in Log
      /\ job[j].answer \in {"SENT", "FAILED"} /\ job[j].pc = "write"
  BY DEF TypeOK, JobShape, JobType, WriteAnswer
<1>2. PICK s : s = IF job[j].channel = "mail" THEN AfterMail(j) ELSE Ended(j)
  OBVIOUS
<1>3. s = At(j, "text") \/ s = Ended(j)
  BY <1>2, AfterMailCases
<1>4. s \in JobType /\ JobShape(s)
  BY <1>1, <1>3, AtFacts, EndedFacts DEF Channel
<1>5. /\ job' \in [Job -> JobType]
      /\ \A i \in Job : JobShape(job'[i])
  BY <1>2, <1>4, SetJob DEF WriteAnswer
<1>6. PICK l \in Log : l = job[j].log
  BY <1>1
<1>7. PICK q : q = Kept(l, job[j].answer)
  OBVIOUS
<1>8. q \in RowType /\ (q # NoRow => q.note \in Note)
  <2>1. CASE job[j].answer = "SENT"
    BY <1>7, <2>1 DEF Kept, NoRow, RowType, Channel
  <2>2. CASE job[j].answer = "FAILED"
    <3>1. PICK t \in RowType : t = log[l]
      BY DEF TypeOK
    <3>2. q = [t EXCEPT !.status = "FAILED"] /\ t.note \in Note
      BY <1>6, <1>7, <2>2, <3>1 DEF Kept, WriteAnswer, TypeOK
    <3> QED
      BY <3>2 DEF RowType
  <2> QED
    BY <1>1, <2>1, <2>2
<1>9. log' = [log EXCEPT ![l] = q]
  BY <1>6, <1>7 DEF WriteAnswer
<1>10. /\ log' \in [Log -> RowType]
       /\ \A m \in Log : log'[m] # NoRow => log'[m].note \in Note
  BY <1>8, <1>9 DEF TypeOK
<1>11. sent' \subseteq Note \X Channel
  BY <1>1 DEF WriteAnswer, TypeOK
<1> QED
  BY <1>5, <1>10, <1>11, JobStepType DEF WriteAnswer, TypeOK, history

\* A delivery stops, or a pass that goes on to its end.
LEMMA StopType ==
  ASSUME TypeOK, NEW j \in Job, Go(j, Idle)
  PROVE  /\ job' \in [Job -> JobType]
         /\ \A i \in Job : JobShape(job'[i])
<1>1. PICK s : s = Idle
  OBVIOUS
<1> QED
  BY <1>1, IdleType, SetJob

LEMMA TakesStep ==
  ASSUME TypeOK, NEW p \in Pass, NEW l \in Log, PassTakes(p, l)
  PROVE  /\ log[l].note \in Note
         /\ \E s \in JobType :
              /\ JobShape(s) /\ Go(p, s)
              /\ s.pc = "read" /\ s.note = log[l].note /\ s.log = NoLog
              /\ s.todo = job[p].todo \ {l}
<1>1. log[l].note \in Note /\ job[p].todo \ {l} \in SUBSET Log
  BY DEF PassTakes, TypeOK, JobType, Job
<1>2. PICK s : s = Begin(log[l].note, job[p].todo \ {l})
  OBVIOUS
<1>3. Go(p, s)
  BY <1>2 DEF PassTakes
<1>4. /\ s \in JobType /\ JobShape(s)
      /\ s.pc = "read" /\ s.note = log[l].note /\ s.log = NoLog
      /\ s.todo = job[p].todo \ {l}
  BY <1>1, <1>2, BeginFacts
<1> QED
  BY <1>1, <1>3, <1>4

LEMMA PassType ==
  ASSUME TypeOK, NEW p \in Pass, NEW l,
         PassStart(p) \/ PassTakes(p, l) \/ PassThrows(p, l) \/ PassEnds(p)
           \/ WriteThrows(p)
  PROVE  TypeOK'
<1>1. p \in Job
  BY DEF Job
<1>2. CASE PassThrows(p, l) \/ PassEnds(p) \/ WriteThrows(p)
  BY <1>1, <1>2, StopType, JobStepType
  DEF PassThrows, PassEnds, WriteThrows, TypeOK, logVars, history
<1>3. CASE PassStart(p)
  <2>1. PICK some \in SUBSET Log : Go(p, [Idle EXCEPT !.pc = "next", !.todo = some])
    BY <1>3 DEF PassStart
  <2>2. PICK s : s = [Idle EXCEPT !.pc = "next", !.todo = some]
    OBVIOUS
  <2>3. s \in JobType /\ JobShape(s) /\ Go(p, s)
    BY <2>1, <2>2, ListFacts
  <2>4. /\ job' \in [Job -> JobType]
        /\ \A i \in Job : JobShape(job'[i])
    BY <1>1, <2>3, SetJob
  <2> QED
    BY <1>3, <2>4, JobStepType DEF PassStart, TypeOK, logVars, history
<1>4. CASE PassTakes(p, l)
  <2>1. l \in Log
    BY <1>1, <1>4 DEF PassTakes, TypeOK, JobType
  <2>3. PICK s \in JobType : JobShape(s) /\ Go(p, s)
    BY <1>4, <2>1, TakesStep
  <2>4. /\ job' \in [Job -> JobType]
        /\ \A i \in Job : JobShape(job'[i])
    BY <1>1, <2>3, SetJob
  <2>5. NoRow \in RowType
    BY DEF NoRow, RowType, Channel
  <2>6. /\ log' \in [Log -> RowType]
        /\ \A m \in Log : log'[m] # NoRow => log'[m].note \in Note
    BY <1>4, <2>1, <2>5 DEF PassTakes, TypeOK
  <2> QED
    BY <1>4, <2>4, <2>6, JobStepType DEF PassTakes, TypeOK, history
<1> QED
  BY <1>2, <1>3, <1>4

LEMMA WriteThrowsType ==
  ASSUME TypeOK, NEW j \in Job, WriteThrows(j)
  PROVE  TypeOK'
BY StopType, JobStepType DEF WriteThrows, TypeOK, logVars, history

LEMMA AgeType ==
  ASSUME TypeOK, Owned, NEW l \in Log, Ages(l) \/ Lasts(l)
  PROVE  TypeOK'
<1>1. log[l] # NoRow /\ log[l].note \in Note /\ keyOf[log[l].note] \in Key
  BY KeyFacts DEF Ages, Lasts
<1>2. PICK t \in RowType : t = log[l]
  BY DEF TypeOK
<1>3. PICK q : q = [t EXCEPT !.old = TRUE]
  OBVIOUS
<1>4. q \in RowType /\ q.note \in Note
  BY <1>1, <1>2, <1>3 DEF RowType
<1>5. log' = [log EXCEPT ![l] = q]
  BY <1>2, <1>3 DEF Ages, Lasts
<1>6. /\ log' \in [Log -> RowType]
      /\ \A m \in Log : log'[m] # NoRow => log'[m].note \in Note
  BY <1>4, <1>5 DEF TypeOK
<1>7. doubtful' \subseteq Key /\ faults' \in 0..MaxFaults
  BY <1>1, BoundsAssumption DEF Ages, Lasts, Fault, TypeOK, history
<1> QED
  BY <1>6, <1>7, JobStepType DEF Ages, Lasts, TypeOK, history

LEMMA InterruptType ==
  ASSUME TypeOK, Owned, NEW j \in Job, Interrupt(j)
  PROVE  TypeOK'
<1>1. job[j].note \in Note /\ keyOf[job[j].note] \in Key
  BY KeyFacts DEF Interrupt
<1>2. /\ job' \in [Job -> JobType]
      /\ \A i \in Job : JobShape(job'[i])
  BY StopType DEF Interrupt
<1>3. doubtful' \subseteq Key /\ dropped' \subseteq Note /\ faults' \in 0..MaxFaults
  BY <1>1, BoundsAssumption DEF Interrupt, Fault, TypeOK
<1> QED
  BY <1>2, <1>3, JobStepType DEF Interrupt, TypeOK, logVars
-----------------------------------------------------------------------------
(* What each step does to a delivery, to the rows and to the counts *)

Reading(s, n) ==
  /\ s.pc = "log" /\ s.note = n /\ s.channel \in Wanted(n)

Ends(s, j) == s.pc = IF j \in Pass THEN "next" ELSE "idle"

LEMMA ReadStep ==
  ASSUME TypeOK, NEW j \in Job, NEW n \in Note, job[j].note = n, Read(j)
  PROVE  \E s \in JobType :
           /\ JobShape(s) /\ Go(j, s)
           /\ s.log = NoLog /\ s.todo \subseteq job[j].todo
           /\ (Reading(s, n) /\ note[n] = "there") \/ Ends(s, j)
<1>1. PICK s : s = IF Visible(n) THEN First(j) ELSE Ended(j)
  OBVIOUS
<1>2. Go(j, s)
  BY <1>1 DEF Read
<1>3. CASE s = Ended(j)
  BY <1>2, <1>3, EndedFacts DEF Ends
<1>4. CASE s # Ended(j)
  <2>1. /\ Visible(n)
        /\ \/ s = At(j, "mail") /\ keyOf[n] \in Mail
           \/ s = At(j, "text") /\ keyOf[n] \in Text
    BY <1>1, <1>4, FirstCases
  <2>2. PICK ch \in Channel : s = At(j, ch) /\ ch \in Wanted(n)
    BY <2>1 DEF Channel, Wanted
  <2>3. /\ s \in JobType /\ JobShape(s)
        /\ s.pc = "log" /\ s.note = n /\ s.channel = ch
        /\ s.log = NoLog /\ s.todo = job[j].todo
    BY <2>2, AtFacts
  <2> QED
    BY <1>2, <2>1, <2>2, <2>3 DEF Reading, Visible
<1> QED
  BY <1>3, <1>4

LEMMA CallStep ==
  ASSUME TypeOK, NEW j \in Job, NEW a \in {"SENT", "FAILED"},
         job[j].pc = "call", Answered(j, a)
  PROVE  \E s \in JobType :
           /\ JobShape(s) /\ Go(j, s)
           /\ s.pc = "write" /\ s.note = job[j].note /\ s.channel = job[j].channel
           /\ s.log = job[j].log /\ s.answer = a /\ s.todo = job[j].todo
<1>1. PICK s : s = Told(j, a)
  OBVIOUS
<1>2. Go(j, s)
  BY <1>1 DEF Answered
<1>3. /\ s \in JobType /\ JobShape(s)
      /\ s.pc = "write" /\ s.note = job[j].note /\ s.channel = job[j].channel
      /\ s.log = job[j].log /\ s.answer = a /\ s.todo = job[j].todo
  BY <1>1, AnsweredFacts
<1> QED
  BY <1>2, <1>3

LEMMA WriteStep ==
  ASSUME TypeOK, NEW j \in Job, NEW n \in Note, job[j].note = n,
         NEW l \in Log, job[j].log = l, WriteAnswer(j)
  PROVE  /\ \E s \in JobType :
              /\ JobShape(s) /\ Go(j, s)
              /\ s.log = NoLog /\ s.todo \subseteq job[j].todo
              /\ \/ /\ Reading(s, n)
                    /\ job[j].channel = "mail" /\ s.channel = "text"
                 \/ Ends(s, j)
         /\ job[j].answer \in {"SENT", "FAILED"}
         /\ \E q \in RowType :
              /\ log' = [log EXCEPT ![l] = q]
              /\ job[j].answer = "SENT" => q = NoRow
              /\ job[j].answer = "FAILED" =>
                   /\ q.status = "FAILED" /\ q # NoRow
                   /\ q.note = log[l].note /\ q.old = log[l].old
<1>0. job[j].channel \in Channel /\ job[j].answer \in {"SENT", "FAILED"}
  BY DEF TypeOK, JobType, JobShape, WriteAnswer
<1>1. PICK s : s = IF job[j].channel = "mail" THEN AfterMail(j) ELSE Ended(j)
  OBVIOUS
<1>2. Go(j, s)
  BY <1>1 DEF WriteAnswer
<1>5. \E t \in JobType :
        /\ JobShape(t) /\ Go(j, t)
        /\ t.log = NoLog /\ t.todo \subseteq job[j].todo
        /\ \/ Reading(t, n) /\ job[j].channel = "mail" /\ t.channel = "text"
           \/ Ends(t, j)
  <2>1. CASE s = Ended(j)
    BY <1>2, <2>1, EndedFacts DEF Ends
  <2>2. CASE s # Ended(j)
    <3>1. job[j].channel = "mail" /\ s = At(j, "text") /\ keyOf[n] \in Text
      BY <1>1, <2>2, AfterMailCases
    <3>2. /\ s \in JobType /\ JobShape(s)
          /\ s.pc = "log" /\ s.note = n /\ s.channel = "text"
          /\ s.log = NoLog /\ s.todo = job[j].todo
      BY <3>1, AtFacts DEF Channel
    <3> QED
      BY <1>2, <3>1, <3>2 DEF Reading, Wanted
  <2> QED
    BY <2>1, <2>2
<1>6. PICK q : q = Kept(l, job[j].answer)
  OBVIOUS
<1>7. log' = [log EXCEPT ![l] = q]
  BY <1>6 DEF WriteAnswer
<1>8. /\ q \in RowType
      /\ job[j].answer = "SENT" => q = NoRow
      /\ job[j].answer = "FAILED" =>
           /\ q.status = "FAILED" /\ q # NoRow
           /\ q.note = log[l].note /\ q.old = log[l].old
  <2>1. CASE job[j].answer = "SENT"
    BY <1>6, <2>1 DEF Kept, NoRow, RowType, Channel
  <2>2. CASE job[j].answer = "FAILED"
    <3>1. PICK t \in RowType : t = log[l]
      BY DEF TypeOK
    <3>2. q = [t EXCEPT !.status = "FAILED"]
      BY <1>6, <2>2, <3>1 DEF Kept
    <3>3. /\ q \in RowType /\ q.status = "FAILED" /\ q.note = t.note
          /\ q.old = t.old
      BY <3>2 DEF RowType
    <3>4. q # NoRow
      BY <3>3 DEF NoRow
    <3> QED
      BY <2>2, <3>1, <3>3, <3>4
  <2> QED
    BY <1>0, <2>1, <2>2
<1> QED
  BY <1>0, <1>5, <1>7, <1>8

LEMMA AgeStep ==
  ASSUME TypeOK, NEW l \in Log, Ages(l) \/ Lasts(l)
  PROVE  /\ log[l] # NoRow
         /\ \E q \in RowType :
              /\ log' = [log EXCEPT ![l] = q]
              /\ q # NoRow /\ q.status = log[l].status /\ q.note = log[l].note
              /\ q.old
<1>1. log[l] # NoRow /\ log[l].note \in Note
  BY DEF Ages, Lasts, TypeOK
<1>2. PICK t \in RowType : t = log[l]
  BY DEF TypeOK
<1>3. PICK q : q = [t EXCEPT !.old = TRUE]
  OBVIOUS
<1>4. q \in RowType /\ q.status = t.status /\ q.note = t.note /\ q.old
  BY <1>3 DEF RowType
<1>5. q # NoRow
  BY <1>1, <1>2, <1>4, NoneAssumption DEF NoRow
<1>6. log' = [log EXCEPT ![l] = q]
  BY <1>2, <1>3 DEF Ages, Lasts
<1> QED
  BY <1>1, <1>2, <1>4, <1>5, <1>6

\* A refusal is counted for its notification only.
LEMMA RefusalStep ==
  ASSUME TypeOK, NEW n \in Note, refusals' = Append(refusals, n)
  PROVE  /\ Refused(n)' # {}
         /\ \A m \in Note : m # n => (Refused(m)' = {} <=> Refused(m) = {})
<1>1. /\ refusals \in Seq(Note) /\ Len(refusals) \in Nat
      /\ DOMAIN refusals = 1..Len(refusals)
  BY DEF TypeOK
<1>2. /\ DOMAIN refusals' = 1..(Len(refusals) + 1)
      /\ refusals'[Len(refusals) + 1] = n
      /\ \A i \in 1..Len(refusals) : refusals'[i] = refusals[i]
  BY <1>1
<1>3. Len(refusals) + 1 \in Refused(n)'
  BY <1>1, <1>2 DEF Refused
<1>4. ASSUME NEW m \in Note, m # n
      PROVE  Refused(m)' = Refused(m)
  BY <1>1, <1>2, <1>4 DEF Refused
<1> QED
  BY <1>3, <1>4
-----------------------------------------------------------------------------
(* What a step on one notification leaves alone *)

OnlyJob(t, n) == t.pc \in {"idle", "next"} \/ t.note = n
OnlyRow(r, n) == r = NoRow \/ r.note = n

LEMMA TokensFrame ==
  ASSUME TypeOK, Tokens, NEW n \in Note, Clean(n)' => Token(n)',
         doubtful \subseteq doubtful',
         \A m \in Note : m # n =>
           /\ keyOf'[m] = keyOf[m] /\ accepted'[m] = accepted[m]
           /\ (Refused(m)' = {} <=> Refused(m) = {}),
         \A i \in Job : job'[i] = job[i]
           \/ (OnlyJob(job[i], n) /\ OnlyJob(job'[i], n)),
         \A l \in Log : log'[l] = log[l]
           \/ (OnlyRow(log[l], n) /\ OnlyRow(log'[l], n))
  PROVE  Tokens'
<1> SUFFICES ASSUME NEW m \in Note, Clean(m)', m # n PROVE Token(m)'
  BY DEF Tokens
<1>1. Token(m)
  BY DEF Clean, Single, Tokens
<1>2. \A i \in Job : Handles(i, m)' \/ Handles(i, m) => job'[i] = job[i]
  BY DEF Handles, Busy, OnlyJob
<1>3. \A l \in Log : RowOf(l, m)' \/ RowOf(l, m) => log'[l] = log[l]
  BY DEF RowOf, Row, OnlyRow
<1>4. Wanted(m)' = Wanted(m) /\ (Zero(m)' <=> Zero(m))
  BY DEF Wanted, Zero
<1>5. \A i \in Job : Handles(i, m)' <=> Handles(i, m)
  BY <1>2 DEF Handles
<1>6. \A l \in Log : RowOf(l, m)' <=> RowOf(l, m)
  BY <1>3 DEF RowOf
<1>7. ASSUME NEW i \in Job, Handles(i, m)'
      PROVE  Progress(i, m)'
  <2>1. Handles(i, m) /\ job'[i] = job[i] /\ Progress(i, m)
    BY <1>1, <1>2, <1>5, <1>7 DEF Token
  <2>2. job[i] \in JobType /\ (job[i].pc \in {"call", "write"} => job[i].log \in Log)
    BY DEF TypeOK, JobShape
  <2>3. ASSUME job[i].pc \in {"call", "write"}
        PROVE  log'[job[i].log] = Queued(m, job[i].channel)
    <3>1. log[job[i].log] = Queued(m, job[i].channel) /\ job[i].log \in Log
      BY <2>1, <2>2, <2>3 DEF Progress
    <3>2. RowOf(job[i].log, m)
      BY <3>1 DEF RowOf, Row, Queued, NoRow
    <3> QED
      BY <1>3, <3>1, <3>2
  <2> QED
    BY <1>4, <2>1, <2>2, <2>3 DEF Progress, JobType, Zero
<1>8. ASSUME NEW l \in Log, RowOf(l, m)'
      PROVE  (Waiting(l, m) \/ \E i \in Job : Handles(i, m) /\ job[i].log = l)'
  <2>1. /\ RowOf(l, m) /\ log'[l] = log[l]
        /\ Waiting(l, m) \/ \E i \in Job : Handles(i, m) /\ job[i].log = l
    BY <1>1, <1>3, <1>6, <1>8 DEF Token
  <2>2. CASE Waiting(l, m)
    BY <1>4, <1>5, <2>1, <2>2 DEF Waiting
  <2>3. CASE \E i \in Job : Handles(i, m) /\ job[i].log = l
    BY <1>2, <1>5, <2>3
  <2> QED
    BY <2>1, <2>2, <2>3
<1> QED
  BY <1>1, <1>4, <1>5, <1>6, <1>7, <1>8 DEF Token

LEMMA OneRowFrame == OneRow /\ UNCHANGED noteVars => OneRow'
BY DEF OneRow, noteVars

LEMMA CommittedFrame ==
  ASSUME TypeOK, Committed, UNCHANGED note, NEW n \in Note, note[n] = "there",
         \A i \in Job : job'[i].pc \in {"log", "call", "write"} =>
           job'[i] = job[i] \/ job'[i].note = n,
         \A l \in Log : log'[l] # NoRow => log'[l] = log[l] \/ log'[l].note = n,
         \A m \in Note : m # n => accepted'[m] = accepted[m]
  PROVE  Committed'
<1>1. \A l \in Log : log'[l] # NoRow => note'[log'[l].note] = "there"
  BY DEF Committed
<1>2. \A j \in Job : job'[j].pc \in {"log", "call", "write"}
        => note'[job'[j].note] = "there"
  BY DEF Committed
<1>3. \A m \in Note : (\E ch \in Channel : accepted'[m][ch] > 0) => note'[m] = "there"
  BY DEF Committed, NothingBeforeCommit, Reached
<1> QED
  BY <1>1, <1>2, <1>3 DEF Committed, NothingBeforeCommit, Reached

\* The same, when no notification gets further.
LEMMA CommittedSame ==
  ASSUME TypeOK, Committed, UNCHANGED <<note, accepted>>,
         \A i \in Job : job'[i].pc \in {"log", "call", "write"} => job'[i] = job[i],
         \A l \in Log : log'[l] # NoRow =>
           log[l] # NoRow /\ log'[l].note = log[l].note
  PROVE  Committed'
<1>1. \A l \in Log : log'[l] # NoRow => note'[log'[l].note] = "there"
  BY DEF Committed
<1>2. \A j \in Job : job'[j].pc \in {"log", "call", "write"}
        => note'[job'[j].note] = "there"
  BY DEF Committed
<1> QED
  BY <1>1, <1>2 DEF Committed, NothingBeforeCommit, Reached

\* A delivery, of a notification that is written, takes another state.
LEMMA OwnedFrame ==
  ASSUME TypeOK, Owned, NEW j \in Job, NEW n \in Note, note[n] # "none",
         UNCHANGED note, NEW s \in JobType, Go(j, s),
         s.pc = "idle" \/ (s.pc = "next" /\ j \in Pass)
           \/ (s.note = n /\ (j \in Pass \/ (j = n /\ s.pc # "next"))),
         s.pc \notin {"idle", "next"} => s.note = n,
         s.log # NoLog => s.pc \in {"call", "write"}
           /\ \A i \in Job : i # j => job[i].log # s.log,
         \A l \in s.todo : log'[l] = NoRow \/ log'[l].old,
         \A i \in Job : \A l \in job[i].todo : log'[l] = NoRow \/ log'[l].old,
         \A l \in Log : log'[l] # NoRow => log'[l] = log[l]
           \/ log'[l].note = n \/ (log[l] # NoRow /\ log'[l].note = log[l].note),
         \A m \in Note : m # n => accepted'[m] = accepted[m]
  PROVE  Owned'
<1>1. job'[j] = s /\ \A i \in Job : i # j => job'[i] = job[i]
  BY DEF Go, TypeOK
<1>2. \A m \in Note : job'[m].pc # "idle" => job'[m].note = m /\ job'[m].pc # "next"
  BY <1>1, NoneAssumption DEF Owned, Job
<1>3. \A i \in Job : job'[i].log # NoLog => job'[i].pc \in {"call", "write"}
  BY <1>1 DEF Owned
<1>4. \A i, k \in Job : job'[i].log = job'[k].log /\ job'[i].log # NoLog => i = k
  BY <1>1 DEF Owned
<1>5. \A i \in Job : \A l \in job'[i].todo : log'[l] = NoRow \/ log'[l].old
  BY <1>1
<1>6. ASSUME NEW m \in Note, note'[m] = "none"
      PROVE  /\ \A i \in Job : ~Busy(job'[i], m)
             /\ \A l \in Log : ~Row(log'[l], m)
             /\ \A ch \in Channel : accepted'[m][ch] = 0
  <2>1. m # n /\ note[m] = "none"
    BY <1>6
  <2>2. /\ \A i \in Job : ~Busy(job[i], m)
        /\ \A l \in Log : ~Row(log[l], m)
        /\ \A ch \in Channel : accepted[m][ch] = 0
    BY <2>1 DEF Owned, Handles, RowOf
  <2>3. \A i \in Job : ~Busy(job'[i], m)
    BY <1>1, <2>1, <2>2 DEF Busy
  <2>4. \A l \in Log : ~Row(log'[l], m)
    BY <2>1, <2>2 DEF Row
  <2> QED
    BY <2>1, <2>2, <2>3, <2>4
<1> QED
  BY <1>2, <1>3, <1>4, <1>5, <1>6 DEF Owned, Handles, RowOf
-----------------------------------------------------------------------------
(* The steps of notify() and of transactions *)

\* A notification is written: nothing of it exists yet.
LEMMA WrittenFacts ==
  ASSUME IInv, NEW k \in Key, NEW state \in {"open", "there"},
         Written(NewNote, k, state)
  PROVE  \E n \in Note, s \in JobType :
           /\ note[n] = "none" /\ JobShape(s)
           /\ keyOf' = [keyOf EXCEPT ![n] = k]
           /\ note' = [note EXCEPT ![n] = state]
           /\ Go(n, s)
           /\ s.pc = "read" /\ s.note = n /\ s.log = NoLog /\ s.todo = {}
<1>1. PICK n \in Note : n = NewNote /\ note[n] = "none"
  BY NewNoteFacts DEF Written
<1>2. PICK s : s = Begin(n, {})
  OBVIOUS
<1>3. /\ s \in JobType /\ JobShape(s)
      /\ s.pc = "read" /\ s.note = n /\ s.log = NoLog /\ s.todo = {}
  BY <1>2, BeginFacts
<1> QED
  BY <1>1, <1>2, <1>3 DEF Written

LEMMA WrittenKeeps ==
  ASSUME IInv, NEW k \in Key, NEW state \in {"open", "there"},
         Written(NewNote, k, state),
         UNCHANGED <<logVars, history>>
  PROVE  Committed' /\ Owned' /\ Tokens'
<1>0. /\ UNCHANGED <<log, accepted, doubtful, refusals>>
      /\ TypeOK /\ Committed /\ Owned /\ Tokens
  BY DEF logVars, history, IInv
<1>1. PICK n \in Note, s \in JobType :
        /\ note[n] = "none" /\ JobShape(s)
        /\ keyOf' = [keyOf EXCEPT ![n] = k]
        /\ note' = [note EXCEPT ![n] = state]
        /\ Go(n, s)
        /\ s.pc = "read" /\ s.note = n /\ s.log = NoLog /\ s.todo = {}
  BY WrittenFacts
<1>2. /\ n \in Job /\ job'[n] = s /\ \A i \in Job : i # n => job'[i] = job[i]
      /\ note'[n] = state /\ \A m \in Note : m # n => note'[m] = note[m]
      /\ keyOf'[n] = k /\ \A m \in Note : m # n => keyOf'[m] = keyOf[m]
  BY <1>0, <1>1 DEF Go, TypeOK, Job
<1>3. /\ \A i \in Job : ~Busy(job[i], n)
      /\ \A l \in Log : ~Row(log[l], n)
      /\ \A ch \in Channel : accepted[n][ch] = 0
  BY <1>0, <1>1 DEF Owned, Handles, RowOf
<1>4. Committed'
  <2>1. \A l \in Log : log'[l] # NoRow => note'[log'[l].note] = "there"
    <3> SUFFICES ASSUME NEW l \in Log, log[l] # NoRow
                 PROVE  note'[log[l].note] = "there"
      BY <1>0
    <3>1. log[l].note \in Note /\ log[l].note # n
      BY <1>0, <1>3 DEF TypeOK, Row
    <3> QED
      BY <1>0, <1>2, <3>1 DEF Committed
  <2>2. \A j \in Job : job'[j].pc \in {"log", "call", "write"}
          => note'[job'[j].note] = "there"
    <3> SUFFICES ASSUME NEW j \in Job, job'[j].pc \in {"log", "call", "write"}
                 PROVE  note'[job'[j].note] = "there"
      OBVIOUS
    <3>1. j # n /\ job'[j] = job[j]
      BY <1>1, <1>2
    <3>2. job[j].note \in Note /\ job[j].note # n
      BY <1>0, <1>3, <3>1 DEF TypeOK, JobShape, Busy
    <3> QED
      BY <1>0, <1>2, <3>1, <3>2 DEF Committed
  <2>3. NothingBeforeCommit'
    <3> SUFFICES ASSUME NEW m \in Note, NEW ch \in Channel, accepted[m][ch] > 0
                 PROVE  note'[m] = "there"
      BY <1>0 DEF NothingBeforeCommit, Reached
    <3>1. m # n
      BY <1>3
    <3> QED
      BY <1>0, <1>2, <3>1 DEF Committed, NothingBeforeCommit, Reached
  <2> QED
    BY <2>1, <2>2, <2>3 DEF Committed
<1>5. Owned'
  <2>1. \A m \in Note : job'[m].pc # "idle" => job'[m].note = m /\ job'[m].pc # "next"
    BY <1>0, <1>1, <1>2 DEF Owned, Job
  <2>2. \A i \in Job : job'[i].log # NoLog => job'[i].pc \in {"call", "write"}
    BY <1>0, <1>1, <1>2 DEF Owned
  <2>3. \A i, j \in Job : job'[i].log = job'[j].log /\ job'[i].log # NoLog => i = j
    BY <1>0, <1>1, <1>2 DEF Owned
  <2>4. \A i \in Job : \A l \in job'[i].todo : log'[l] = NoRow \/ log'[l].old
    BY <1>0, <1>1, <1>2 DEF Owned
  <2>5. ASSUME NEW m \in Note, note'[m] = "none"
        PROVE  /\ \A i \in Job : ~Busy(job'[i], m)
               /\ \A l \in Log : ~Row(log'[l], m)
               /\ \A ch \in Channel : accepted'[m][ch] = 0
    <3>1. m # n /\ note[m] = "none"
      BY <1>2, <2>5
    <3>2. /\ \A i \in Job : ~Busy(job[i], m)
          /\ \A l \in Log : ~Row(log[l], m)
          /\ \A ch \in Channel : accepted[m][ch] = 0
      BY <1>0, <3>1 DEF Owned, Handles, RowOf
    <3>3. ~Busy(s, m)
      BY <1>1, <3>1 DEF Busy
    <3> QED
      BY <1>0, <1>2, <3>2, <3>3
  <2> QED
    BY <2>1, <2>2, <2>3, <2>4, <2>5 DEF Owned, Handles, RowOf
<1>6. Token(n)'
  <2>1. \A i \in Job : Busy(job'[i], n) => i = n
    BY <1>2, <1>3
  <2>2. Zero(n)'
    BY <1>0, <1>3 DEF Zero
  <2>3. \A i \in Job : Busy(job'[i], n) => Progress(i, n)'
    BY <1>1, <1>2, <2>1, <2>2 DEF Progress
  <2>4. \A l \in Log : ~Row(log'[l], n)
    BY <1>0, <1>3
  <2>5. \A ch \in Channel : accepted'[n][ch] = 0
    BY <1>0, <1>3
  <2> QED
    BY <2>1, <2>3, <2>4, <2>5 DEF Token, Handles, RowOf
<1>7. Tokens'
  <2>1. \A i \in Job : job'[i] = job[i] \/ (OnlyJob(job[i], n) /\ OnlyJob(job'[i], n))
    <3>1. job[n].pc = "idle"
      BY <1>0, <1>2, <1>3 DEF Owned, Busy
    <3> QED
      BY <1>1, <1>2, <3>1 DEF OnlyJob
  <2>2. \A m \in Note : Refused(m)' = Refused(m)
    BY <1>0 DEF Refused
  <2> QED
    BY <1>0, <1>2, <1>6, <2>1, <2>2, TokensFrame
<1> QED
  BY <1>4, <1>5, <1>7

LEMMA NotifyKeeps ==
  ASSUME IInv, NEW k \in Key,
         NotifyRead(k) \/ NotifyCreate(k) \/ NotifyLoses(k) \/ Settle(k)
  PROVE  IInv'
<1>1. TypeOK'
  BY NotifyType DEF IInv
<1>2. Committed' /\ Owned' /\ Tokens'
  <2>1. CASE NotifyCreate(k) \/ Settle(k)
    BY <2>1, WrittenKeeps DEF NotifyCreate, Settle
  <2>2. CASE NotifyRead(k) \/ NotifyLoses(k)
    <3>1. UNCHANGED <<keyOf, note, log, job, accepted, refusals, doubtful>>
      BY <2>2 DEF NotifyRead, NotifyLoses, logVars, history
    <3>2. Committed'
      BY <3>1 DEF IInv, Committed, NothingBeforeCommit, Reached
    <3>3. Owned'
      BY <3>1 DEF IInv, Owned, Handles, RowOf
    <3>4. Tokens'
      BY <3>1 DEF IInv, Tokens, Token, Clean, Single, Refused, Handles, RowOf,
         Progress, Waiting, Zero, Wanted
    <3> QED
      BY <3>2, <3>3, <3>4
  <2> QED
    BY <2>1, <2>2
<1>3. OneRow'
  <2>0. OneRow /\ TypeOK
    BY DEF IInv
  <2>1. CASE NotifyRead(k) \/ NotifyLoses(k)
    <3>1. UNCHANGED <<keyOf, note>>
      BY <2>1 DEF NotifyRead, NotifyLoses
    <3>2. \A h \in Key : calls'[h] > 0 => h \notin Confirmation
      BY <2>0, <2>1 DEF NotifyRead, NotifyLoses, OneRow, TypeOK
    <3> QED
      BY <2>0, <3>1, <3>2 DEF OneRow
  <2>2. CASE NotifyCreate(k)
    <3>1. PICK n \in Note :
            /\ note[n] = "none"
            /\ keyOf' = [keyOf EXCEPT ![n] = k]
            /\ note' = [note EXCEPT ![n] = "there"]
      BY <2>2, WrittenFacts DEF NotifyCreate
    <3>2. k \notin Confirmation /\ \A m \in Note : keyOf[m] = k => note[m] # "there"
      BY <2>0, <2>2 DEF NotifyCreate, OneRow, Exists
    <3>3. \A m \in Note : keyOf[m] = k => note[m] \notin {"open", "there"}
      BY <2>0, <3>2 DEF OneRow
    <3>4. \A h \in Key : calls'[h] > 0 => h \notin Confirmation
      BY <2>0, <2>2 DEF NotifyCreate, OneRow, TypeOK
    <3>5. \A m \in Note : note'[m] = "open" => keyOf'[m] \in Confirmation
      BY <2>0, <3>1 DEF OneRow, TypeOK
    <3>6. \A m, q \in Note :
            /\ note'[m] \in {"open", "there"} /\ note'[q] \in {"open", "there"}
            /\ keyOf'[m] = keyOf'[q]
            => m = q
      BY <2>0, <3>1, <3>3 DEF OneRow, TypeOK
    <3> QED
      BY <3>4, <3>5, <3>6 DEF OneRow
  <2>3. CASE Settle(k)
    <3>1. PICK n \in Note :
            /\ note[n] = "none"
            /\ keyOf' = [keyOf EXCEPT ![n] = k]
            /\ note' = [note EXCEPT ![n] = "open"]
      BY <2>3, WrittenFacts DEF Settle
    <3>2. /\ k \in Confirmation /\ calls' = calls
          /\ \A m \in Note : keyOf[m] = k => note[m] = "undone"
      BY <2>3 DEF Settle
    <3>5. \A m \in Note : note'[m] = "open" => keyOf'[m] \in Confirmation
      BY <2>0, <3>1, <3>2 DEF OneRow, TypeOK
    <3>6. \A m, q \in Note :
            /\ note'[m] \in {"open", "there"} /\ note'[q] \in {"open", "there"}
            /\ keyOf'[m] = keyOf'[q]
            => m = q
      BY <2>0, <3>1, <3>2 DEF OneRow, TypeOK
    <3> QED
      BY <2>0, <3>2, <3>5, <3>6 DEF OneRow
  <2> QED
    BY <2>1, <2>2, <2>3
<1> QED
  BY <1>1, <1>2, <1>3 DEF IInv

LEMMA TransactionKeeps ==
  ASSUME IInv, NEW n \in Note, Commit(n) \/ Rollback(n)
  PROVE  IInv'
<1>0. /\ TypeOK /\ Committed /\ OneRow /\ Owned /\ Tokens
      /\ UNCHANGED <<keyOf, calls, log, job, accepted, refusals, doubtful>>
      /\ note[n] = "open"
      /\ \/ note' = [note EXCEPT ![n] = "there"]
         \/ note' = [note EXCEPT ![n] = "undone"]
  BY DEF IInv, Commit, Rollback, logVars, history
<1>1. TypeOK'
  BY TransactionType DEF IInv
<1>2. /\ \A m \in Note : note[m] = "there" => note'[m] = "there"
      /\ \A m \in Note : note'[m] = "none" <=> note[m] = "none"
      /\ \A m \in Note : note'[m] = "open" => note[m] = "open"
      /\ \A m \in Note : note'[m] \in {"open", "there"} => note[m] \in {"open", "there"}
  BY <1>0 DEF TypeOK
<1>3. Committed'
  <2>1. \A l \in Log : log[l] # NoRow => log[l].note \in Note
    BY <1>0 DEF TypeOK
  <2>2. \A j \in Job : job[j].pc \in {"log", "call", "write"} => job[j].note \in Note
    BY <1>0 DEF TypeOK, JobShape
  <2> QED
    BY <1>0, <1>2, <2>1, <2>2 DEF Committed, NothingBeforeCommit, Reached
<1>4. OneRow'
  BY <1>0, <1>2 DEF OneRow
<1>5. Owned'
  BY <1>0, <1>2 DEF Owned, Handles, RowOf
<1>6. Tokens'
  BY <1>0 DEF Tokens, Token, Clean, Single, Refused, Handles, RowOf,
     Progress, Waiting, Zero, Wanted
<1> QED
  BY <1>1, <1>3, <1>4, <1>5, <1>6 DEF IInv
-----------------------------------------------------------------------------
(* The steps of deliveries *)

\* A delivery at work: its notification is written, and if nothing went wrong
\* with it, it is the only place where the message is.
LEMMA AtWork ==
  ASSUME IInv, NEW j \in Job, job[j].pc \notin {"idle", "next"}
  PROVE  \E n \in Note :
           /\ job[j].note = n /\ note[n] # "none" /\ keyOf[n] \in Key
           /\ job[j].pc # "read" => note[n] = "there"
           /\ j \in Pass \/ j = n
           /\ job[j].log # NoLog => job[j].pc \in {"call", "write"}
           /\ Clean(n) =>
                /\ \A i \in Job : i # j => ~Busy(job[i], n)
                /\ \A l \in Log : Row(log[l], n) => job[j].log = l
                /\ Progress(j, n)
                /\ \A ch \in Channel :
                     /\ accepted[n][ch] <= 1
                     /\ accepted[n][ch] # 0 => ch \in Wanted(n)
<1>0. TypeOK /\ Committed /\ Owned /\ Tokens
  BY DEF IInv
<1>1. PICK n \in Note : job[j].note = n
  BY <1>0 DEF TypeOK, JobShape
<1>2. Busy(job[j], n)
  BY <1>1 DEF Busy
<1>3. note[n] # "none" /\ keyOf[n] \in Key
  BY <1>0, <1>1, <1>2, KeyFacts DEF Owned, Handles
<1>4. job[j].pc # "read" => note[n] = "there"
  <2>1. job[j].pc \in {"read", "log", "call", "write"}
    BY <1>0 DEF TypeOK, JobType
  <2> QED
    BY <1>0, <1>1, <2>1 DEF Committed
<1>5. j \in Pass \/ j = n
  BY <1>0, <1>1 DEF Owned, Job
<1>6. ASSUME Clean(n)
      PROVE  /\ \A i \in Job : i # j => ~Busy(job[i], n)
             /\ \A l \in Log : Row(log[l], n) => job[j].log = l
             /\ Progress(j, n)
             /\ \A ch \in Channel :
                  /\ accepted[n][ch] <= 1
                  /\ accepted[n][ch] # 0 => ch \in Wanted(n)
  <2>1. Token(n)
    BY <1>0, <1>6 DEF Tokens
  <2>2. \A i \in Job : i # j => ~Busy(job[i], n)
    BY <1>2, <2>1 DEF Token, Handles
  <2>3. \A l \in Log : Row(log[l], n) => job[j].log = l
    BY <1>2, <2>1, <2>2 DEF Token, Handles, RowOf, Waiting
  <2> QED
    BY <1>2, <2>1, <2>2, <2>3 DEF Token, Handles
<1> QED
  BY <1>0, <1>1, <1>3, <1>4, <1>5, <1>6 DEF Owned

\* A message that one delivery alone may hold is in one place.
LEMMA TokenAlone ==
  ASSUME NEW n \in Note, NEW j \in Job,
         \A i \in Job : i # j => ~Busy(job'[i], n),
         Busy(job'[j], n) => Progress(j, n)',
         \A l \in Log : Row(log'[l], n) =>
           (Busy(job'[j], n) /\ job'[j].log = l)
             \/ (/\ log'[l].status = "FAILED" /\ Refused(n)' # {} /\ Zero(n)'
                 /\ ~Busy(job'[j], n)),
         \A l, m \in Log : Row(log'[l], n) /\ Row(log'[m], n) => l = m,
         \A ch \in Channel :
           /\ accepted'[n][ch] <= 1
           /\ accepted'[n][ch] # 0 => ch \in Wanted(n)'
  PROVE  Token(n)'
<1>1. \A l \in Log : Row(log'[l], n) =>
        Waiting(l, n)' \/ \E i \in Job : Busy(job'[i], n) /\ job'[i].log = l
  BY DEF Waiting, Handles
<1> QED
  BY <1>1 DEF Token, Handles, RowOf

\* Rows that did not change are still those that the passes have listed.
LEMMA ListedSame ==
  ASSUME Owned, log' = log
  PROVE  \A i \in Job : \A l \in job[i].todo : log'[l] = NoRow \/ log'[l].old
BY DEF Owned

LEMMA ReadKeeps ==
  ASSUME IInv, NEW j \in Job, Read(j)
  PROVE  IInv'
<1>0. /\ TypeOK /\ Committed /\ OneRow /\ Owned /\ Tokens /\ job[j].pc = "read"
      /\ UNCHANGED <<noteVars, keyOf, note, log, accepted, refusals, doubtful>>
  BY DEF IInv, Read, logVars, history, noteVars
<1>1. PICK n \in Note :
        /\ job[j].note = n /\ note[n] # "none" /\ (j \in Pass \/ j = n)
        /\ job[j].log # NoLog => job[j].pc \in {"call", "write"}
        /\ Clean(n) =>
             /\ \A i \in Job : i # j => ~Busy(job[i], n)
             /\ \A l \in Log : Row(log[l], n) => job[j].log = l
             /\ Progress(j, n)
             /\ \A ch \in Channel :
                  /\ accepted[n][ch] <= 1
                  /\ accepted[n][ch] # 0 => ch \in Wanted(n)
  BY <1>0, AtWork
<1>2. PICK s \in JobType :
        /\ JobShape(s) /\ Go(j, s)
        /\ s.log = NoLog /\ s.todo \subseteq job[j].todo
        /\ (Reading(s, n) /\ note[n] = "there") \/ Ends(s, j)
  BY <1>0, <1>1, ReadStep
<1>3. job'[j] = s /\ \A i \in Job : i # j => job'[i] = job[i]
  BY <1>0, <1>2 DEF Go, TypeOK
<1>4. /\ s.pc = "idle" \/ (s.pc = "next" /\ j \in Pass)
           \/ (s.note = n /\ (j \in Pass \/ (j = n /\ s.pc # "next")))
      /\ s.pc \notin {"idle", "next"} => s.note = n
      /\ s.pc \in {"log", "call", "write"} => note[n] = "there"
  BY <1>1, <1>2 DEF Reading, Ends
<1>5. Committed'
  <2>1. CASE note[n] = "there"
    BY <1>0, <1>3, <1>4, <2>1, CommittedFrame
  <2>2. CASE note[n] # "there"
    BY <1>0, <1>3, <1>4, <2>2, CommittedSame
  <2> QED
    BY <2>1, <2>2
<1>6. Owned'
  <2>1. \A i \in Job : \A l \in job[i].todo : log'[l] = NoRow \/ log'[l].old
    BY <1>0, ListedSame
  <2>2. \A l \in s.todo : log'[l] = NoRow \/ log'[l].old
    BY <1>2, <2>1
  <2> QED
    BY <1>0, <1>1, <1>2, <1>4, <2>1, <2>2, OwnedFrame
<1>7. Tokens'
  <2>1. OnlyJob(job[j], n) /\ OnlyJob(job'[j], n)
    BY <1>1, <1>3, <1>4 DEF OnlyJob
  <2>2. ASSUME Clean(n)' PROVE Token(n)'
    <3>1. Clean(n) /\ Wanted(n)' = Wanted(n)
      BY <1>0, <2>2 DEF Clean, Single, Refused, Wanted
    <3>2. Zero(n) /\ \A l \in Log : ~Row(log[l], n)
      <4>1. Zero(n)
        BY <1>0, <1>1, <3>1 DEF Progress
      <4>2. job[j].log = NoLog
        BY <1>0, <1>1
      <4> QED
        BY <1>1, <3>1, <4>1, <4>2, NoneAssumption
    <3>3. Busy(job'[j], n) => Progress(j, n)'
      <4>1. CASE Ends(s, j)
        BY <1>3, <4>1 DEF Busy, Ends
      <4>2. CASE Reading(s, n)
        <5>1. /\ s.pc = "log" /\ s.channel \in Wanted(n) /\ s.channel \in Channel
              /\ accepted[n]["text"] = 0 /\ accepted[n][s.channel] = 0
          BY <3>2, <4>2 DEF Reading, Zero, JobType, Channel
        <5> QED
          BY <1>0, <1>3, <3>1, <5>1 DEF Progress
      <4> QED
        BY <1>2, <4>1, <4>2
    <3> QED
      BY <1>0, <1>1, <1>3, <3>1, <3>2, <3>3, TokenAlone
  <2>3. \A m \in Note : Refused(m)' = Refused(m)
    BY <1>0 DEF Refused
  <2> QED
    BY <1>0, <1>3, <2>1, <2>2, <2>3, TokensFrame
<1> QED
  BY <1>0, <1>5, <1>6, <1>7, ReadType, OneRowFrame DEF IInv

LEMMA CreateLogKeeps ==
  ASSUME IInv, NEW j \in Job, CreateLog(j)
  PROVE  IInv'
<1>0. /\ TypeOK /\ Committed /\ OneRow /\ Owned /\ Tokens /\ job[j].pc = "log"
      /\ UNCHANGED <<noteVars, keyOf, note, accepted, refusals, doubtful>>
  BY DEF IInv, CreateLog, logVars, history, noteVars
<1>1. PICK n \in Note :
        /\ job[j].note = n /\ note[n] # "none" /\ (j \in Pass \/ j = n)
        /\ note[n] = "there"
        /\ job[j].log # NoLog => job[j].pc \in {"call", "write"}
        /\ Clean(n) =>
             /\ \A i \in Job : i # j => ~Busy(job[i], n)
             /\ \A l \in Log : Row(log[l], n) => job[j].log = l
             /\ Progress(j, n)
             /\ \A ch \in Channel :
                  /\ accepted[n][ch] <= 1
                  /\ accepted[n][ch] # 0 => ch \in Wanted(n)
  BY <1>0, AtWork
<1>2. PICK l \in Log, s \in JobType :
        /\ JobShape(s) /\ Go(j, s)
        /\ s.pc = "call" /\ s.note = n /\ s.channel = job[j].channel
        /\ s.log = l /\ s.todo = job[j].todo
        /\ log[l] = NoRow
        /\ \A i \in Job : job[i].log # l /\ l \notin job[i].todo
        /\ log' = [log EXCEPT ![l] = Queued(n, job[j].channel)]
  BY <1>0, <1>1, CreateLogStep
<1>3. /\ job'[j] = s /\ \A i \in Job : i # j => job'[i] = job[i]
      /\ log'[l] = Queued(n, job[j].channel)
      /\ \A m \in Log : m # l => log'[m] = log[m]
      /\ log'[l].note = n
  BY <1>0, <1>2 DEF Go, TypeOK, Queued
<1>5. Committed'
  BY <1>0, <1>1, <1>2, <1>3, CommittedFrame
<1>6. Owned'
  <2>1. \A i \in Job : \A m \in job[i].todo : log'[m] = NoRow \/ log'[m].old
    <3> SUFFICES ASSUME NEW i \in Job, NEW m \in job[i].todo
                 PROVE  log'[m] = NoRow \/ log'[m].old
      OBVIOUS
    <3>1. m # l /\ m \in Log
      BY <1>0, <1>2 DEF TypeOK, JobType
    <3> QED
      BY <1>0, <1>3, <3>1 DEF Owned
  <2> QED
    BY <1>0, <1>1, <1>2, <1>3, <2>1, OwnedFrame
<1>7. Tokens'
  <2>1. /\ OnlyJob(job[j], n) /\ OnlyJob(job'[j], n)
        /\ OnlyRow(log[l], n) /\ OnlyRow(log'[l], n)
    BY <1>1, <1>2, <1>3 DEF OnlyJob, OnlyRow
  <2>2. ASSUME Clean(n)' PROVE Token(n)'
    <3>1. Clean(n) /\ Wanted(n)' = Wanted(n)
      BY <1>0, <2>2 DEF Clean, Single, Refused, Wanted
    <3>2. \A m \in Log : Row(log'[m], n) => m = l
      BY <1>0, <1>1, <1>3, <3>1, NoneAssumption
    <3>3. Progress(j, n)'
      BY <1>0, <1>1, <1>2, <1>3, <3>1 DEF Progress
    <3>4. Busy(job'[j], n)
      BY <1>2, <1>3 DEF Busy
    <3> QED
      BY <1>0, <1>1, <1>2, <1>3, <3>1, <3>2, <3>3, <3>4, TokenAlone
  <2>3. \A m \in Note : Refused(m)' = Refused(m)
    BY <1>0 DEF Refused
  <2> QED
    BY <1>0, <1>3, <2>1, <2>2, <2>3, TokensFrame
<1> QED
  BY <1>0, <1>5, <1>6, <1>7, CreateLogType, OneRowFrame DEF IInv

LEMMA CallKeeps ==
  ASSUME IInv, NEW j \in Job, CallAccepts(j) \/ CallRefuses(j) \/ CallLost(j)
  PROVE  IInv'
<1>0. /\ TypeOK /\ Committed /\ OneRow /\ Owned /\ Tokens /\ job[j].pc = "call"
      /\ UNCHANGED <<noteVars, keyOf, note, log>>
      /\ doubtful \subseteq doubtful'
  BY DEF IInv, CallAccepts, CallRefuses, CallLost, logVars, noteVars
<1>1. PICK n \in Note :
        /\ job[j].note = n /\ note[n] # "none" /\ (j \in Pass \/ j = n)
        /\ note[n] = "there"
        /\ Clean(n) =>
             /\ \A i \in Job : i # j => ~Busy(job[i], n)
             /\ \A l \in Log : Row(log[l], n) => job[j].log = l
             /\ Progress(j, n)
             /\ \A ch \in Channel :
                  /\ accepted[n][ch] <= 1
                  /\ accepted[n][ch] # 0 => ch \in Wanted(n)
  BY <1>0, AtWork
<1>2. PICK a \in {"SENT", "FAILED"} :
        /\ Answered(j, a)
        /\ \/ a = "SENT" /\ Take(n, job[j].channel)
              /\ UNCHANGED <<refusals, doubtful>>
           \/ a = "FAILED" /\ refusals' = Append(refusals, n)
              /\ UNCHANGED <<accepted, doubtful>>
           \/ a = "FAILED" /\ Take(n, job[j].channel)
              /\ keyOf[n] \in doubtful' /\ UNCHANGED refusals
  BY <1>1 DEF CallAccepts, CallRefuses, CallLost, history
<1>3. PICK s \in JobType :
        /\ JobShape(s) /\ Go(j, s)
        /\ s.pc = "write" /\ s.note = n /\ s.channel = job[j].channel
        /\ s.log = job[j].log /\ s.answer = a /\ s.todo = job[j].todo
  BY <1>0, <1>1, <1>2, CallStep
<1>4. job'[j] = s /\ \A i \in Job : i # j => job'[i] = job[i]
  BY <1>0, <1>3 DEF Go, TypeOK
<1>5. \A m \in Note : m # n =>
        accepted'[m] = accepted[m] /\ (Refused(m)' = {} <=> Refused(m) = {})
  <2>1. \A m \in Note : m # n => accepted'[m] = accepted[m]
    <3>1. CASE Take(n, job[j].channel)
      <4> SUFFICES ASSUME NEW m \in Note, m # n PROVE accepted'[m] = accepted[m]
        OBVIOUS
      <4>1. accepted'[m] = [ch \in Channel |-> accepted[m][ch] + 0]
        BY <3>1 DEF Take
      <4>2. accepted[m] \in [Channel -> Nat]
        BY <1>0 DEF TypeOK
      <4>3. \A ch \in Channel : accepted[m][ch] + 0 = accepted[m][ch]
        BY <4>2
      <4> QED
        BY <4>1, <4>2, <4>3
    <3> QED
      BY <1>2, <3>1
  <2>2. CASE UNCHANGED refusals
    BY <2>1, <2>2 DEF Refused
  <2>3. CASE refusals' = Append(refusals, n)
    BY <1>0, <2>1, <2>3, RefusalStep
  <2> QED
    BY <1>2, <2>2, <2>3
<1>6. Committed'
  BY <1>0, <1>1, <1>3, <1>4, <1>5, CommittedFrame
<1>7. Owned'
  <2>1. \A i \in Job : \A l \in job[i].todo : log'[l] = NoRow \/ log'[l].old
    BY <1>0, ListedSame
  <2>2. s.log # NoLog => \A i \in Job : i # j => job[i].log # s.log
    BY <1>0, <1>3 DEF Owned
  <2> QED
    BY <1>0, <1>1, <1>3, <1>5, <2>1, <2>2, OwnedFrame
<1>8. Tokens'
  <2>1. OnlyJob(job[j], n) /\ OnlyJob(job'[j], n)
    BY <1>1, <1>3, <1>4 DEF OnlyJob
  <2>2. ASSUME Clean(n)' PROVE Token(n)'
    <3>1. Clean(n) /\ Wanted(n)' = Wanted(n)
      <4>1. CASE UNCHANGED refusals
        BY <1>0, <2>2, <4>1 DEF Clean, Single, Refused, Wanted
      <4>2. CASE refusals' = Append(refusals, n)
        <5>1. Refused(n)' # {}
          BY <1>0, <4>2, RefusalStep
        <5> QED
          BY <1>0, <2>2, <5>1 DEF Clean, Single, Wanted
      <4> QED
        BY <1>2, <4>1, <4>2
    <3>2. /\ s.channel \in Wanted(n) /\ s.channel \in Channel
          /\ s.channel = "mail" => accepted[n]["text"] = 0
          /\ accepted[n][s.channel] = 0
          /\ log[s.log] = Queued(n, s.channel)
      BY <1>0, <1>1, <1>3, <3>1 DEF Progress, JobType
    <3>3. /\ \A ch \in Channel :
               /\ accepted'[n][ch] <= 1
               /\ accepted'[n][ch] # 0 => ch \in Wanted(n)
               /\ ch # s.channel => accepted'[n][ch] = accepted[n][ch]
          /\ s.answer = "FAILED" =>
               accepted'[n][s.channel] = 0 /\ Refused(n)' # {}
      <4>1. CASE a = "SENT" /\ Take(n, job[j].channel)
        <5>1. \A ch \in Channel : accepted'[n][ch] =
                accepted[n][ch] + IF ch = s.channel THEN 1 ELSE 0
          BY <1>3, <4>1 DEF Take
        <5>2. accepted[n] \in [Channel -> Nat]
          BY <1>0 DEF TypeOK
        <5> QED
          BY <1>1, <1>3, <3>1, <3>2, <4>1, <5>1, <5>2
      <4>2. CASE a = "FAILED" /\ refusals' = Append(refusals, n)
                   /\ UNCHANGED accepted
        <5>1. Refused(n)' # {}
          BY <1>0, <4>2, RefusalStep
        <5> QED
          BY <1>1, <3>1, <3>2, <4>2, <5>1
      <4> QED
        BY <1>0, <1>2, <2>2, <4>1, <4>2 DEF Clean
    <3>4. Progress(j, n)'
      <4>1. s.channel = "mail" => accepted'[n]["text"] = 0
        BY <3>2, <3>3 DEF Channel
      <4> QED
        BY <1>0, <1>3, <1>4, <3>1, <3>2, <3>3, <4>1 DEF Progress
    <3>5. Busy(job'[j], n)
      BY <1>3, <1>4 DEF Busy
    <3>6. \A l \in Log : Row(log'[l], n) => s.log = l
      BY <1>0, <1>1, <1>3, <3>1
    <3> QED
      BY <1>1, <1>4, <3>1, <3>3, <3>4, <3>5, <3>6, TokenAlone
  <2> QED
    BY <1>0, <1>4, <1>5, <2>1, <2>2, TokensFrame
<1> QED
  BY <1>0, <1>6, <1>7, <1>8, CallType, OneRowFrame DEF IInv
-----------------------------------------------------------------------------
(* The row that a delivery has to write *)

\* It is a row of the delivery's own notification, or it was deleted.
Bound ==
  \A j \in Job : \A l \in Log :
    job[j].log = l => log[l] = NoRow \/ log[l].note = job[j].note

LEMMA BoundFrame ==
  ASSUME TypeOK, Bound, NEW j \in Job, NEW s \in JobType, Go(j, s),
         \A l \in Log : s.log = l => log'[l] = NoRow \/ log'[l].note = s.note,
         \A l \in Log : log'[l] = log[l] \/ log'[l] = NoRow
           \/ (log[l] # NoRow /\ log'[l].note = log[l].note)
           \/ \A i \in Job : job[i].log # l
  PROVE  Bound'
<1>1. job'[j] = s /\ \A i \in Job : i # j => job'[i] = job[i]
  BY DEF Go, TypeOK
<1> SUFFICES ASSUME NEW i \in Job, NEW l \in Log, job'[i].log = l
             PROVE  log'[l] = NoRow \/ log'[l].note = job'[i].note
  BY DEF Bound
<1>2. CASE i = j
  BY <1>1, <1>2
<1>3. CASE i # j
  <2>1. job'[i] = job[i]
    BY <1>1, <1>3
  <2> QED
    BY <2>1 DEF Bound
<1> QED
  BY <1>2, <1>3

LEMMA BoundStops ==
  ASSUME TypeOK, Bound, NEW j \in Job, NEW s \in JobType, Go(j, s), s.log = NoLog,
         \A l \in Log : log'[l] = log[l] \/ log'[l] = NoRow
           \/ (log[l] # NoRow /\ log'[l].note = log[l].note)
           \/ \A i \in Job : job[i].log # l
  PROVE  Bound'
<1>1. \A l \in Log : s.log # l
  BY NoneAssumption
<1> QED
  BY <1>1, BoundFrame

LEMMA BoundDelivers ==
  ASSUME IInv, Bound, NEW j \in Job, Deliver(j) \/ CallLost(j) \/ Interrupt(j)
  PROVE  Bound'
<1>0. TypeOK /\ Owned
  BY DEF IInv
<1>1. PICK n \in Note : job[j].note = n
  BY <1>0 DEF TypeOK, JobShape, Deliver, Read, CreateLog, CallAccepts, CallRefuses,
              CallLost, WriteAnswer, WriteThrows, Interrupt
<1>2. CASE Read(j)
  <2>1. log' = log
    BY <1>2 DEF Read, logVars
  <2>2. PICK s \in JobType : Go(j, s) /\ s.log = NoLog
    BY <1>0, <1>1, <1>2, ReadStep
  <2> QED
    BY <1>0, <2>1, <2>2, BoundStops
<1>3. CASE CreateLog(j)
  <2>1. PICK l \in Log, s \in JobType :
          /\ Go(j, s) /\ s.note = n /\ s.log = l
          /\ \A i \in Job : job[i].log # l
          /\ log' = [log EXCEPT ![l] = Queued(n, job[j].channel)]
    BY <1>0, <1>1, <1>3, CreateLogStep
  <2>2. log'[l].note = n /\ \A m \in Log : m # l => log'[m] = log[m]
    BY <1>0, <2>1 DEF TypeOK, Queued
  <2> QED
    BY <1>0, <2>1, <2>2, BoundFrame
<1>4. ASSUME CallAccepts(j) \/ CallRefuses(j) \/ CallLost(j) PROVE Bound'
  <2>1. log' = log /\ job[j].pc = "call"
    BY <1>4 DEF CallAccepts, CallRefuses, CallLost, logVars
  <2>2. PICK a \in {"SENT", "FAILED"} : Answered(j, a)
    BY <1>4 DEF CallAccepts, CallRefuses, CallLost
  <2>3. PICK s \in JobType : Go(j, s) /\ s.note = job[j].note /\ s.log = job[j].log
    BY <1>0, <2>1, <2>2, CallStep
  <2>4. \A l \in Log : s.log = l => log'[l] = NoRow \/ log'[l].note = s.note
    BY <2>1, <2>3 DEF Bound
  <2> QED
    BY <1>0, <2>1, <2>3, <2>4, BoundFrame
<1>5. CASE WriteAnswer(j)
  <2>1. PICK l \in Log : job[j].log = l /\ log[l] # NoRow
    BY <1>0, <1>5 DEF WriteAnswer, TypeOK, JobShape
  <2>2. /\ \E s \in JobType : Go(j, s) /\ s.log = NoLog
        /\ \E q \in RowType :
             /\ log' = [log EXCEPT ![l] = q]
             /\ q = NoRow \/ q.note = log[l].note
    BY <1>0, <1>1, <1>5, <2>1, WriteStep
  <2>3. \A m \in Log : log'[m] = log[m] \/ log'[m] = NoRow
          \/ (log[m] # NoRow /\ log'[m].note = log[m].note)
    BY <1>0, <2>1, <2>2 DEF TypeOK
  <2> QED
    BY <1>0, <2>2, <2>3, BoundStops
<1>6. CASE WriteThrows(j) \/ Interrupt(j)
  <2>1. log' = log /\ Go(j, Idle)
    BY <1>6 DEF WriteThrows, Interrupt, logVars
  <2>2. Idle.log = NoLog
    BY DEF Idle
  <2> QED
    BY <1>0, <2>1, <2>2, IdleType, BoundStops
<1> QED
  BY <1>2, <1>3, <1>4, <1>5, <1>6 DEF Deliver

LEMMA BoundPasses ==
  ASSUME IInv, Bound, NEW p \in Pass, NEW l,
         PassStart(p) \/ PassTakes(p, l) \/ PassThrows(p, l) \/ PassEnds(p)
  PROVE  Bound'
<1>0. TypeOK /\ p \in Job
  BY DEF IInv, Job
<1>1. CASE PassStart(p)
  <2>1. PICK some \in SUBSET Log :
          Go(p, [Idle EXCEPT !.pc = "next", !.todo = some])
    BY <1>1 DEF PassStart
  <2>2. PICK s : s = [Idle EXCEPT !.pc = "next", !.todo = some]
    OBVIOUS
  <2>3. s \in JobType /\ s.log = NoLog /\ Go(p, s)
    BY <2>1, <2>2, ListFacts
  <2>4. log' = log
    BY <1>1 DEF PassStart, logVars
  <2> QED
    BY <1>0, <2>3, <2>4, BoundStops
<1>2. CASE PassTakes(p, l)
  <2>0. l \in Log
    BY <1>0, <1>2 DEF PassTakes, TypeOK, JobType
  <2>1. PICK s \in JobType : Go(p, s) /\ s.log = NoLog
    BY <1>0, <1>2, <2>0, TakesStep
  <2>2. \A m \in Log : log'[m] = log[m] \/ log'[m] = NoRow
    BY <1>0, <1>2 DEF PassTakes, TypeOK
  <2> QED
    BY <1>0, <2>1, <2>2, BoundStops
<1>3. CASE PassThrows(p, l) \/ PassEnds(p)
  <2>1. log' = log /\ Go(p, Idle)
    BY <1>3 DEF PassThrows, PassEnds, logVars
  <2>2. Idle.log = NoLog
    BY DEF Idle
  <2> QED
    BY <1>0, <2>1, <2>2, IdleType, BoundStops
<1> QED
  BY <1>1, <1>2, <1>3
-----------------------------------------------------------------------------
(* A delivery writes what the operator answered, or stops *)

LEMMA WriteAnswerKeeps ==
  ASSUME IInv, Bound, NEW j \in Job, WriteAnswer(j)
  PROVE  IInv'
<1>0. /\ TypeOK /\ Committed /\ OneRow /\ Owned /\ Tokens /\ job[j].pc = "write"
      /\ UNCHANGED <<noteVars, keyOf, note, accepted, refusals, doubtful>>
  BY DEF IInv, WriteAnswer, history, noteVars
<1>1. PICK n \in Note :
        /\ job[j].note = n /\ note[n] # "none" /\ (j \in Pass \/ j = n)
        /\ note[n] = "there"
        /\ Clean(n) =>
             /\ \A i \in Job : i # j => ~Busy(job[i], n)
             /\ \A l \in Log : Row(log[l], n) => job[j].log = l
             /\ Progress(j, n)
             /\ \A ch \in Channel :
                  /\ accepted[n][ch] <= 1
                  /\ accepted[n][ch] # 0 => ch \in Wanted(n)
  BY <1>0, AtWork
<1>2. PICK l \in Log : job[j].log = l /\ log[l] # NoRow /\ log[l].note = n
  BY <1>0, <1>1 DEF WriteAnswer, TypeOK, JobShape, Bound
<1>3. /\ \E s \in JobType :
           /\ JobShape(s) /\ Go(j, s)
           /\ s.log = NoLog /\ s.todo \subseteq job[j].todo
           /\ \/ /\ Reading(s, n)
                 /\ job[j].channel = "mail" /\ s.channel = "text"
              \/ Ends(s, j)
      /\ job[j].answer \in {"SENT", "FAILED"}
      /\ \E q \in RowType :
           /\ log' = [log EXCEPT ![l] = q]
           /\ job[j].answer = "SENT" => q = NoRow
           /\ job[j].answer = "FAILED" =>
                /\ q.status = "FAILED" /\ q # NoRow
                /\ q.note = log[l].note /\ q.old = log[l].old
  BY <1>0, <1>1, <1>2, WriteStep
<1>4. PICK s \in JobType :
        /\ JobShape(s) /\ Go(j, s)
        /\ s.log = NoLog /\ s.todo \subseteq job[j].todo
        /\ \/ /\ Reading(s, n)
              /\ job[j].channel = "mail" /\ s.channel = "text"
           \/ Ends(s, j)
  BY <1>3
<1>5. PICK q \in RowType :
        /\ log' = [log EXCEPT ![l] = q]
        /\ job[j].answer = "SENT" => q = NoRow
        /\ job[j].answer = "FAILED" =>
             q.status = "FAILED" /\ q # NoRow /\ q.note = n /\ q.old = log[l].old
  BY <1>2, <1>3
<1>6. /\ job'[j] = s /\ \A i \in Job : i # j => job'[i] = job[i]
      /\ log'[l] = q /\ \A m \in Log : m # l => log'[m] = log[m]
      /\ q = NoRow \/ q.note = n
  BY <1>0, <1>3, <1>4, <1>5 DEF Go, TypeOK
<1>7. /\ s.pc = "idle" \/ (s.pc = "next" /\ j \in Pass)
           \/ (s.note = n /\ (j \in Pass \/ (j = n /\ s.pc # "next")))
      /\ s.pc \notin {"idle", "next"} => s.note = n
  BY <1>1, <1>4 DEF Reading, Ends
<1>8. Committed'
  <2>1. \A i \in Job : job'[i].pc \in {"log", "call", "write"} =>
          job'[i] = job[i] \/ job'[i].note = n
    BY <1>6, <1>7
  <2> QED
    BY <1>0, <1>1, <1>6, <2>1, CommittedFrame
<1>9. Owned'
  <2>1. \A m \in Log : log[m] = NoRow \/ log[m].old => log'[m] = NoRow \/ log'[m].old
    BY <1>2, <1>3, <1>5, <1>6
  <2>2. \A i \in Job : \A m \in job[i].todo : log'[m] = NoRow \/ log'[m].old
    BY <1>0, <2>1 DEF Owned, TypeOK, JobType
  <2>3. \A m \in s.todo : log'[m] = NoRow \/ log'[m].old
    BY <1>4, <2>2
  <2> QED
    BY <1>0, <1>1, <1>4, <1>6, <1>7, <2>2, <2>3, OwnedFrame
<1>10. Tokens'
  <2>1. /\ OnlyJob(job[j], n) /\ OnlyJob(job'[j], n)
        /\ OnlyRow(log[l], n) /\ OnlyRow(log'[l], n)
    BY <1>1, <1>2, <1>6, <1>7 DEF OnlyJob, OnlyRow
  <2>2. ASSUME Clean(n)' PROVE Token(n)'
    <3>1. /\ Clean(n) /\ Wanted(n)' = Wanted(n) /\ Refused(n)' = Refused(n)
          /\ Zero(n)' = Zero(n)
      BY <1>0, <2>2 DEF Clean, Single, Refused, Wanted, Zero
    <3>2. /\ job[j].channel \in Wanted(n)
          /\ job[j].channel = "mail" => accepted[n]["text"] = 0
          /\ job[j].answer = "FAILED" =>
               accepted[n][job[j].channel] = 0 /\ Refused(n) # {}
      BY <1>0, <1>1, <3>1 DEF Progress
    <3>3. \A m \in Log : Row(log'[m], n) => m = l /\ job[j].answer = "FAILED"
      <4>1. ~Row(NoRow, n)
        BY DEF Row
      <4>2. \A m \in Log : Row(log[m], n) => m = l
        BY <1>1, <1>2, <3>1
      <4>3. \A m \in Log : Row(log'[m], n) => m = l
        BY <1>6, <4>2
      <4> QED
        BY <1>3, <1>5, <1>6, <4>1, <4>3
    <3>4. CASE job[j].answer = "SENT"
      <4>1. Busy(job'[j], n) => Progress(j, n)'
        <5>1. CASE Ends(s, j)
          BY <1>6, <5>1 DEF Busy, Ends
        <5>2. CASE Reading(s, n) /\ job[j].channel = "mail" /\ s.channel = "text"
          <6>1. s.pc = "log" /\ "text" \in Wanted(n) /\ accepted[n]["text"] = 0
            BY <3>2, <5>2 DEF Reading
          <6> QED
            BY <1>0, <1>6, <3>1, <5>2, <6>1 DEF Progress
        <5> QED
          BY <1>4, <5>1, <5>2
      <4> QED
        BY <1>0, <1>1, <1>6, <3>1, <3>3, <3>4, <4>1, TokenAlone
    <3>5. CASE job[j].answer = "FAILED"
      <4>1. Single(n)
        BY <3>1, <3>2, <3>5 DEF Clean
      <4>2. ~Reading(s, n) \/ job[j].channel # "mail" \/ s.channel # "text"
        BY <3>2, <4>1 DEF Reading, Single, Wanted
      <4>3. ~Busy(job'[j], n)
        BY <1>4, <1>6, <4>2 DEF Busy, Ends
      <4>4. Zero(n)
        <5> SUFFICES ASSUME NEW ch \in Channel PROVE accepted[n][ch] = 0
          BY DEF Zero
        <5>1. CASE ch = job[j].channel
          BY <3>2, <3>5, <5>1
        <5>2. CASE ch # job[j].channel
          <6>1. ch \notin Wanted(n)
            BY <3>2, <4>1, <5>2 DEF Single, Wanted
          <6> QED
            BY <1>1, <3>1, <6>1
        <5> QED
          BY <5>1, <5>2
      <4>5. \A m \in Log : Row(log'[m], n) =>
              m = l /\ log'[m].status = "FAILED" /\ Refused(n)' # {} /\ Zero(n)'
        BY <1>5, <1>6, <3>1, <3>2, <3>3, <3>5, <4>4
      <4> QED
        BY <1>0, <1>1, <1>6, <3>1, <4>3, <4>5, TokenAlone
    <3> QED
      BY <1>3, <3>4, <3>5
  <2>3. \A m \in Note : Refused(m)' = Refused(m)
    BY <1>0 DEF Refused
  <2> QED
    BY <1>0, <1>6, <2>1, <2>2, <2>3, TokensFrame
<1> QED
  BY <1>0, <1>8, <1>9, <1>10, WriteAnswerType, OneRowFrame DEF IInv

\* A message whose deliveries went well keeps its row until its delivery
\* writes it: the stop of a delivery always leaves a doubt.
LEMMA StopKeeps ==
  ASSUME IInv, NEW j \in Job, WriteThrows(j) \/ Interrupt(j)
  PROVE  IInv'
<1>0. /\ TypeOK /\ Committed /\ OneRow /\ Owned /\ Tokens
      /\ job[j].pc \notin {"idle", "next"}
      /\ UNCHANGED <<noteVars, keyOf, note, log, accepted, refusals>>
      /\ Go(j, Idle) /\ doubtful \subseteq doubtful'
  BY DEF IInv, WriteThrows, Interrupt, logVars, history, noteVars
<1>1. PICK n \in Note :
        /\ job[j].note = n /\ note[n] # "none"
        /\ Clean(n) => Progress(j, n)
  BY <1>0, AtWork
<1>2. PICK s \in JobType : s = Idle
  BY IdleType
<1>3. /\ job'[j] = s /\ \A i \in Job : i # j => job'[i] = job[i]
      /\ s.pc = "idle" /\ s.log = NoLog /\ s.todo = {}
  BY <1>0, <1>2 DEF Go, TypeOK, Idle
<1>4. Committed'
  BY <1>0, <1>3, CommittedSame
<1>5. Owned'
  <2>1. \A i \in Job : \A l \in job[i].todo : log'[l] = NoRow \/ log'[l].old
    BY <1>0, ListedSame
  <2> QED
    BY <1>0, <1>1, <1>2, <1>3, <2>1, OwnedFrame
<1>6. Tokens'
  <2>1. OnlyJob(job[j], n) /\ OnlyJob(job'[j], n)
    BY <1>1, <1>3 DEF OnlyJob
  <2>2. ~Clean(n)'
    <3>1. CASE Interrupt(j)
      BY <1>0, <1>1, <3>1 DEF Interrupt, Clean
    <3>2. CASE WriteThrows(j)
      <4>1. job[j].pc = "write" /\ log[job[j].log] = NoRow
        BY <3>2 DEF WriteThrows
      <4>2. ~Clean(n)
        BY <1>1, <4>1 DEF Progress, NoRow, Queued
      <4>3. Clean(n)' = Clean(n)
        BY <1>0, <3>2 DEF WriteThrows, history, Clean, Single, Refused
      <4> QED
        BY <4>2, <4>3
    <3> QED
      BY <3>1, <3>2
  <2>3. \A m \in Note : Refused(m)' = Refused(m)
    BY <1>0 DEF Refused
  <2> QED
    BY <1>0, <1>3, <2>1, <2>2, <2>3, TokensFrame
<1>7. TypeOK'
  BY <1>0, WriteThrowsType, InterruptType
<1> QED
  BY <1>0, <1>4, <1>5, <1>6, <1>7, OneRowFrame DEF IInv
-----------------------------------------------------------------------------
(* The passes and time *)

LEMMA PassKeeps ==
  ASSUME IInv, NEW p \in Pass, NEW l,
         PassStart(p) \/ PassThrows(p, l) \/ PassEnds(p)
  PROVE  IInv'
<1>0. /\ TypeOK /\ Committed /\ OneRow /\ Owned /\ Tokens
      /\ p \in Job /\ p \notin Note /\ job[p].pc \in {"idle", "next"}
      /\ UNCHANGED <<noteVars, keyOf, note, log, accepted, refusals, doubtful>>
  BY NoneAssumption
     DEF IInv, PassStart, PassThrows, PassEnds, logVars, history, noteVars, Job
<1>1. PICK s \in JobType :
        /\ Go(p, s) /\ s.pc \in {"idle", "next"} /\ s.log = NoLog
        /\ \A m \in s.todo : log[m].old
  <2>1. CASE PassStart(p)
    <3>1. PICK some \in SUBSET {m \in Log : Pending(m)} :
            Go(p, [Idle EXCEPT !.pc = "next", !.todo = some])
      BY <2>1 DEF PassStart
    <3>2. PICK s : s = [Idle EXCEPT !.pc = "next", !.todo = some]
      OBVIOUS
    <3>3. some \in SUBSET Log
      BY <3>1
    <3>4. s \in JobType /\ s.pc = "next" /\ s.log = NoLog /\ s.todo = some
      BY <3>2, <3>3, ListFacts
    <3>5. \A m \in some : log[m].old
      BY <3>1 DEF Pending
    <3> QED
      BY <3>1, <3>2, <3>4, <3>5
  <2>2. CASE PassThrows(p, l) \/ PassEnds(p)
    <3>1. Go(p, Idle)
      BY <2>2 DEF PassThrows, PassEnds
    <3>2. Idle.pc = "idle" /\ Idle.log = NoLog /\ Idle.todo = {}
      BY DEF Idle
    <3> QED
      BY <3>1, <3>2, IdleType
  <2> QED
    BY <2>1, <2>2
<1>2. job'[p] = s /\ \A i \in Job : i # p => job'[i] = job[i]
  BY <1>0, <1>1 DEF Go, TypeOK
<1>3. Committed'
  BY <1>0, <1>1, <1>2, CommittedSame
<1>4. \A j \in Job, n \in Note : Busy(job'[j], n) =>
        j # p /\ job'[j] = job[j] /\ Busy(job[j], n)
  BY <1>1, <1>2 DEF Busy
<1>5. \A j \in Job, n \in Note : Busy(job[j], n) => j # p /\ Busy(job'[j], n)
  BY <1>0, <1>2 DEF Busy
<1>6. Owned'
  <2>1. \A n \in Note : job'[n].pc # "idle" => job'[n].note = n /\ job'[n].pc # "next"
    BY <1>0, <1>2 DEF Owned, Job
  <2>2. \A j \in Job : job'[j].log # NoLog =>
          j # p /\ job'[j] = job[j] /\ job'[j].pc \in {"call", "write"}
    BY <1>0, <1>1, <1>2 DEF Owned
  <2>3. \A i, j \in Job : job'[i].log = job'[j].log /\ job'[i].log # NoLog => i = j
    BY <1>0, <2>2 DEF Owned
  <2>4. \A j \in Job : \A m \in job'[j].todo : log'[m] = NoRow \/ log'[m].old
    BY <1>0, <1>1, <1>2 DEF Owned
  <2>5. \A n \in Note : note'[n] = "none" =>
          /\ \A j \in Job : ~Handles(j, n)'
          /\ \A m \in Log : ~RowOf(m, n)'
          /\ \A ch \in Channel : accepted'[n][ch] = 0
    BY <1>0, <1>4 DEF Owned, Handles, RowOf
  <2> QED
    BY <2>1, <2>2, <2>3, <2>4, <2>5 DEF Owned
<1>7. Tokens'
  <2> SUFFICES ASSUME NEW n \in Note, Clean(n)' PROVE Token(n)'
    BY DEF Tokens
  <2>1. Token(n)
    BY <1>0 DEF Tokens, Clean, Single, Refused
  <2>2. \A j \in Job : Busy(job'[j], n) => Progress(j, n)'
    <3> SUFFICES ASSUME NEW j \in Job, Busy(job'[j], n) PROVE Progress(j, n)'
      OBVIOUS
    <3>1. Progress(j, n) /\ job'[j] = job[j]
      BY <1>4, <2>1 DEF Token, Handles
    <3> QED
      BY <1>0, <3>1 DEF Progress, Zero, Wanted, Refused
  <2>3. \A m \in Log : Row(log'[m], n) =>
          Waiting(m, n)' \/ \E j \in Job : Busy(job'[j], n) /\ job'[j].log = m
    <3> SUFFICES ASSUME NEW m \in Log, Row(log[m], n)
                 PROVE  Waiting(m, n)'
                          \/ \E j \in Job : Busy(job'[j], n) /\ job'[j].log = m
      BY <1>0
    <3>1. CASE Waiting(m, n)
      BY <1>0, <1>4, <3>1 DEF Waiting, Handles, Zero, Refused
    <3>2. CASE \E j \in Job : Busy(job[j], n) /\ job[j].log = m
      BY <1>2, <1>5, <3>2
    <3> QED
      BY <2>1, <3>1, <3>2 DEF Token, Handles, RowOf
  <2>4. \A ch \in Channel :
          accepted'[n][ch] <= 1 /\ (accepted'[n][ch] # 0 => ch \in Wanted(n)')
    BY <1>0, <2>1 DEF Token, Wanted
  <2> QED
    BY <1>0, <1>4, <2>1, <2>2, <2>3, <2>4 DEF Token, Handles, RowOf
<1> QED
  BY <1>0, <1>3, <1>6, <1>7, PassType, OneRowFrame DEF IInv

\* A pass lists rows that are old: the row of a message whose deliveries went
\* well waits there for a single pass to delete it.
LEMMA PassTakesKeeps ==
  ASSUME IInv, NEW p \in Pass, NEW l \in Log, PassTakes(p, l)
  PROVE  IInv'
<1>0. /\ TypeOK /\ Committed /\ OneRow /\ Owned /\ Tokens
      /\ p \in Job /\ job[p].pc = "next" /\ l \in job[p].todo /\ log[l] # NoRow
      /\ UNCHANGED <<noteVars, keyOf, note, accepted, refusals, doubtful>>
      /\ log' = [log EXCEPT ![l] = NoRow]
  BY DEF IInv, PassTakes, history, noteVars, Job
<1>1. PICK n \in Note : log[l].note = n /\ note[n] = "there"
  BY <1>0 DEF TypeOK, Committed
<1>2. PICK s \in JobType :
        /\ JobShape(s) /\ Go(p, s)
        /\ s.pc = "read" /\ s.note = n /\ s.log = NoLog /\ s.todo = job[p].todo \ {l}
  BY <1>0, <1>1, TakesStep
<1>3. /\ job'[p] = s /\ \A i \in Job : i # p => job'[i] = job[i]
      /\ log'[l] = NoRow /\ \A m \in Log : m # l => log'[m] = log[m]
  BY <1>0, <1>2 DEF Go, TypeOK
<1>4. Committed'
  BY <1>0, <1>1, <1>2, <1>3, CommittedFrame
<1>5. Owned'
  <2>1. \A m \in Log : log[m] = NoRow \/ log[m].old => log'[m] = NoRow \/ log'[m].old
    BY <1>3
  <2>2. \A i \in Job : \A m \in job[i].todo : log'[m] = NoRow \/ log'[m].old
    BY <1>0, <2>1 DEF Owned, TypeOK, JobType
  <2>3. \A m \in s.todo : log'[m] = NoRow \/ log'[m].old
    BY <1>0, <1>2, <2>2
  <2> QED
    BY <1>0, <1>1, <1>2, <1>3, <2>2, <2>3, OwnedFrame
<1>6. Tokens'
  <2>1. /\ OnlyJob(job[p], n) /\ OnlyJob(job'[p], n)
        /\ OnlyRow(log[l], n) /\ OnlyRow(log'[l], n)
    BY <1>0, <1>1, <1>2, <1>3 DEF OnlyJob, OnlyRow
  <2>2. ASSUME Clean(n)' PROVE Token(n)'
    <3>1. Token(n) /\ Wanted(n)' = Wanted(n) /\ Zero(n)' = Zero(n)
      BY <1>0, <2>2 DEF Tokens, Clean, Single, Refused, Wanted, Zero
    <3>2. log[l].old /\ RowOf(l, n)
      BY <1>0, <1>1 DEF Owned, RowOf, Row
    <3>3. Waiting(l, n)
      <4> SUFFICES ASSUME NEW j \in Job, Handles(j, n), job[j].log = l PROVE FALSE
        BY <3>1, <3>2 DEF Token
      <4>1. job[j].pc \in {"call", "write"} /\ Progress(j, n)
        BY <1>0, <3>1, NoneAssumption DEF Owned, Token
      <4>2. log[l] = Queued(n, job[j].channel)
        BY <4>1 DEF Progress
      <4> QED
        BY <3>2, <4>2 DEF Queued
    <3>4. \A i \in Job : i # p => ~Busy(job'[i], n)
      BY <1>3, <3>3 DEF Waiting, Handles
    <3>5. Progress(p, n)'
      BY <1>2, <1>3, <3>1, <3>3 DEF Progress, Waiting
    <3>6. \A m \in Log : ~Row(log'[m], n)
      BY <1>3, <3>1, <3>2 DEF Token, RowOf, Row
    <3>7. \A ch \in Channel : accepted'[n][ch] <= 1
            /\ (accepted'[n][ch] # 0 => ch \in Wanted(n)')
      BY <1>0, <3>1 DEF Token
    <3> QED
      BY <1>0, <3>4, <3>5, <3>6, <3>7, TokenAlone
  <2>3. \A m \in Note : Refused(m)' = Refused(m)
    BY <1>0 DEF Refused
  <2> QED
    BY <1>0, <1>3, <2>1, <2>2, <2>3, TokensFrame
<1> QED
  BY <1>0, <1>4, <1>5, <1>6, PassType, OneRowFrame DEF IInv

LEMMA AgeKeeps ==
  ASSUME IInv, NEW l \in Log, Ages(l) \/ Lasts(l)
  PROVE  IInv'
<1>0. /\ TypeOK /\ Committed /\ OneRow /\ Owned /\ Tokens
      /\ UNCHANGED <<noteVars, keyOf, note, job, accepted, refusals>>
      /\ doubtful \subseteq doubtful'
  BY DEF IInv, Ages, Lasts, history, noteVars
<1>1. PICK q \in RowType :
        /\ log[l] # NoRow /\ log' = [log EXCEPT ![l] = q]
        /\ q # NoRow /\ q.status = log[l].status /\ q.note = log[l].note /\ q.old
  BY <1>0, AgeStep
<1>2. PICK n \in Note : log[l].note = n
  BY <1>0, <1>1 DEF TypeOK
<1>3. log'[l] = q /\ \A m \in Log : m # l => log'[m] = log[m]
  BY <1>0, <1>1 DEF TypeOK
<1>4. \A m \in Log, k \in Note : Row(log'[m], k) <=> Row(log[m], k)
  BY <1>1, <1>3 DEF Row
<1>5. Committed'
  BY <1>0, <1>1, <1>3, CommittedSame
<1>6. Owned'
  <2>1. \A j \in Job : \A m \in job'[j].todo : log'[m] = NoRow \/ log'[m].old
    <3> SUFFICES ASSUME NEW j \in Job, NEW m \in job[j].todo
                 PROVE  log'[m] = NoRow \/ log'[m].old
      BY <1>0
    <3>1. m \in Log
      BY <1>0 DEF TypeOK, JobType
    <3> QED
      BY <1>0, <1>1, <1>3, <3>1 DEF Owned
  <2>2. \A k \in Note : note'[k] = "none" =>
          /\ \A j \in Job : ~Handles(j, k)'
          /\ \A m \in Log : ~RowOf(m, k)'
          /\ \A ch \in Channel : accepted'[k][ch] = 0
    BY <1>0, <1>4 DEF Owned, Handles, RowOf
  <2> QED
    BY <1>0, <2>1, <2>2 DEF Owned
<1>7. Tokens'
  <2>1. OnlyRow(log[l], n) /\ OnlyRow(log'[l], n)
    BY <1>1, <1>2, <1>3 DEF OnlyRow
  <2>2. ASSUME Clean(n)' PROVE Token(n)'
    <3>1. Ages(l)
      BY <1>0, <1>2, <2>2 DEF Lasts, Clean
    <3>2. /\ Token(n) /\ Wanted(n)' = Wanted(n) /\ Zero(n)' = Zero(n)
          /\ Refused(n)' = Refused(n) /\ ~Live(l)
      BY <1>0, <2>2, <3>1
         DEF Ages, history, Tokens, Clean, Single, Refused, Wanted, Zero
    <3>3. Waiting(l, n)
      BY <1>1, <1>2, <3>2 DEF Token, RowOf, Row, Live
    <3>4. \A i \in Job : ~Busy(job'[i], n)
      BY <1>0, <3>3 DEF Waiting, Handles
    <3>5. \A m \in Log : Row(log'[m], n) =>
            m = l /\ log'[m].status = "FAILED" /\ Refused(n)' # {} /\ Zero(n)'
      BY <1>1, <1>2, <1>3, <1>4, <3>2, <3>3 DEF Token, RowOf, Row, Waiting
    <3>6. \A ch \in Channel : accepted'[n][ch] <= 1
            /\ (accepted'[n][ch] # 0 => ch \in Wanted(n)')
      BY <1>0, <3>2 DEF Token
    <3>7. n \in Job
      BY DEF Job
    <3> QED
      BY <3>4, <3>5, <3>6, <3>7, TokenAlone
  <2>3. \A m \in Note : Refused(m)' = Refused(m)
    BY <1>0 DEF Refused
  <2> QED
    BY <1>0, <1>3, <2>1, <2>2, <2>3, TokensFrame
<1> QED
  BY <1>0, <1>5, <1>6, <1>7, AgeType, OneRowFrame DEF IInv
-----------------------------------------------------------------------------
(* The theorems *)

Inv == IInv /\ Bound

LEMMA InitInv == Init => Inv
<1> SUFFICES ASSUME Init PROVE Inv
  OBVIOUS
<1>1. /\ \A n \in Note : /\ note[n] = "none"
                         /\ \A ch \in Channel : accepted[n][ch] = 0
      /\ \A k \in Key : calls[k] = 0
      /\ \A l \in Log : log[l] = NoRow
      /\ \A j \in Job : /\ job[j].pc = "idle" /\ job[j].log = NoLog
                        /\ job[j].todo = {}
  BY DEF Init, Idle
<1>2. /\ \A j \in Job, n \in Note : ~Handles(j, n)
      /\ \A l \in Log, n \in Note : ~RowOf(l, n)
  BY <1>1 DEF Handles, Busy, RowOf, Row
<1>3. TypeOK
  BY TypeInit
<1>4. Committed
  BY <1>1 DEF Committed, NothingBeforeCommit, Reached
<1>5. OneRow
  BY <1>1 DEF OneRow
<1>6. Owned
  BY <1>1, <1>2 DEF Owned, Job
<1>7. Tokens
  BY <1>1, <1>2 DEF Tokens, Token
<1>8. Bound
  BY <1>1 DEF Bound
<1> QED
  BY <1>3, <1>4, <1>5, <1>6, <1>7, <1>8 DEF Inv, IInv

LEMMA StepInv == Inv /\ [Next]_vars => Inv'
<1> SUFFICES ASSUME IInv, Bound, [Next]_vars PROVE IInv' /\ Bound'
  BY DEF Inv
<1>1. ASSUME NEW k \in Key,
             NotifyRead(k) \/ NotifyCreate(k) \/ NotifyLoses(k) \/ Settle(k)
      PROVE  IInv' /\ Bound'
  <2>1. TypeOK
    BY DEF IInv
  <2>2. CASE NotifyCreate(k) \/ Settle(k)
    <3>1. log' = log
      BY <2>2 DEF NotifyCreate, Settle, logVars
    <3>2. PICK state \in {"open", "there"} : Written(NewNote, k, state)
      BY <2>2 DEF NotifyCreate, Settle
    <3>3. PICK n \in Note, s \in JobType : Go(n, s) /\ s.log = NoLog
      BY <3>2, WrittenFacts
    <3>4. n \in Job
      BY DEF Job
    <3> QED
      BY <1>1, <2>1, <3>1, <3>3, <3>4, NotifyKeeps, BoundStops
  <2>3. CASE NotifyRead(k) \/ NotifyLoses(k)
    <3>1. UNCHANGED <<log, job>>
      BY <2>3 DEF NotifyRead, NotifyLoses, logVars
    <3> QED
      BY <1>1, <3>1, NotifyKeeps DEF Bound
  <2> QED
    BY <1>1, <2>2, <2>3
<1>2. ASSUME NEW n \in Note, Commit(n) \/ Rollback(n)
      PROVE  IInv' /\ Bound'
  <2>1. UNCHANGED <<log, job>>
    BY <1>2 DEF Commit, Rollback, logVars
  <2> QED
    BY <1>2, <2>1, TransactionKeeps DEF Bound
<1>3. ASSUME NEW j \in Job, Deliver(j) \/ CallLost(j) \/ Interrupt(j)
      PROVE  IInv' /\ Bound'
  BY <1>3, ReadKeeps, CreateLogKeeps, CallKeeps, WriteAnswerKeeps, StopKeeps,
     BoundDelivers DEF Deliver
<1>4. ASSUME NEW p \in Pass, PassStart(p) \/ Proceed(p)
      PROVE  IInv' /\ Bound'
  <2>1. p \in Job
    BY DEF Job
  <2>2. CASE Deliver(p)
    BY <1>3, <2>1, <2>2
  <2>3. ASSUME NEW l, PassStart(p) \/ PassThrows(p, l) \/ PassEnds(p)
        PROVE  IInv' /\ Bound'
    BY <2>3, PassKeeps, BoundPasses
  <2>4. ASSUME NEW l \in Log, PassTakes(p, l)
        PROVE  IInv' /\ Bound'
    BY <2>4, PassTakesKeeps, BoundPasses
  <2> QED
    BY <1>4, <2>2, <2>3, <2>4 DEF Proceed
<1>5. ASSUME NEW l \in Log, Ages(l) \/ Lasts(l)
      PROVE  IInv' /\ Bound'
  <2>1. TypeOK /\ job' = job
    BY <1>5 DEF IInv, Ages, Lasts
  <2>2. PICK q \in RowType : /\ log' = [log EXCEPT ![l] = q]
                             /\ log[l] # NoRow /\ q.note = log[l].note
    BY <1>5, <2>1, AgeStep
  <2>3. \A m \in Log : log'[m] = log[m]
          \/ (log[m] # NoRow /\ log'[m].note = log[m].note)
    BY <2>1, <2>2 DEF TypeOK
  <2>4. Bound'
    BY <2>1, <2>3 DEF Bound
  <2> QED
    BY <1>5, <2>4, AgeKeeps
<1>6. CASE UNCHANGED vars
  <2>1. /\ UNCHANGED <<keyOf, note, calls, log, sent, job, accepted, refusals>>
        /\ UNCHANGED <<doubtful, dropped, faults>>
    BY <1>6 DEF vars, noteVars, logVars, history
  <2>2. TypeOK' /\ Committed' /\ OneRow'
    BY <2>1 DEF IInv, TypeOK, Committed, NothingBeforeCommit, Reached, OneRow
  <2>3. Owned' /\ Bound'
    BY <2>1 DEF IInv, Owned, Bound, Handles, RowOf
  <2>4. Tokens'
    BY <2>1 DEF IInv, Tokens, Token, Clean, Single, Refused, Handles, RowOf,
       Progress, Waiting, Zero, Wanted
  <2> QED
    BY <2>2, <2>3, <2>4 DEF IInv
<1>7. ASSUME NEW n \in Note, Commit(n) \/ Rollback(n) \/ Deliver(n)
      PROVE  IInv' /\ Bound'
  BY <1>2, <1>3, <1>7 DEF Job
<1>8. CASE Next
  BY <1>1, <1>3, <1>4, <1>5, <1>7, <1>8 DEF Next
<1> QED
  BY <1>6, <1>8

LEMMA AlwaysInv == Spec => []Inv
BY InitInv, StepInv, PTL DEF Spec

\* Rows, deliveries and passes keep their type, and a delivery that has called
\* the operator always knows the row it must write.
THEOREM TypeCorrect == Spec => []TypeOK
<1>1. Inv => TypeOK
  BY DEF Inv, IInv
<1> QED
  BY <1>1, AlwaysInv, PTL

\* notify() starts a delivery inside the transaction of a settlement: however
\* late this one commits or rolls back, nobody is told before it committed.
THEOREM CommitCorrect == Spec => []NothingBeforeCommit
<1>1. Inv => NothingBeforeCommit
  BY DEF Inv, IInv, Committed
<1> QED
  BY <1>1, AlwaysInv, PTL

\* Two calls of notify() for one key, its delivery and the two passes of
\* retryPending() never send a message twice, unless one of its deliveries
\* was interrupted, slow or lost, or its other channel was refused.
THEOREM SentOnceCorrect == Spec => []SentOnce
<1>1. Inv => SentOnce
  <2> SUFFICES ASSUME IInv, NEW n \in Note, keyOf[n] \notin doubtful
               PROVE  /\ \A ch \in Channel : accepted[n][ch] > 1 =>
                           Refused(n) # {} /\ keyOf[n] \in Mail \cap Text
                      /\ \A m \in Note :
                           keyOf[m] = keyOf[n] /\ Reached(m) /\ Reached(n) => m = n
    BY DEF Inv, SentOnce
  <2>1. ASSUME NEW ch \in Channel, accepted[n][ch] > 1
        PROVE  Refused(n) # {} /\ keyOf[n] \in Mail \cap Text
    <3>1. ~(accepted[n][ch] <= 1)
      BY <2>1 DEF IInv, TypeOK
    <3>2. ~Clean(n)
      BY <3>1 DEF IInv, Tokens, Token
    <3> QED
      BY <3>2 DEF Clean, Single
  <2>2. ASSUME NEW m \in Note, keyOf[m] = keyOf[n], Reached(m), Reached(n)
        PROVE  m = n
    BY <2>2 DEF IInv, Committed, NothingBeforeCommit, OneRow
  <2> QED
    BY <2>1, <2>2
<1> QED
  BY <1>1, AlwaysInv, PTL
=============================================================================
