--------------------------- MODULE CheckInProofs ---------------------------
(***************************************************************************)
(* Whatever the order in which the devices find the network again, scans   *)
(* are never forgotten, the oldest one enters, and the counter and the     *)
(* tickets follow the entries.  An arbitration may decide from an entry    *)
(* that is no longer one: the two unique indexes then refuse it, unless    *)
(* the entry was revoked meanwhile (ReadTrue, OneEntry).                   *)
(***************************************************************************)
EXTENDS CheckIn, FiniteSetTheorems, TLAPS

LEMMA ScanRange ==
  ASSUME TypeOK
  PROVE  taken \in Nat /\ taken <= MaxScans /\ 1..taken \subseteq Scan
BY BoundsAssumption DEF TypeOK, Scan

\* One call takes another state.
LEMMA SetCall ==
  ASSUME TypeOK, NEW c \in Call, NEW s \in CallType, CallShape(s, taken),
         Go(c, s), taken' = taken
  PROVE  /\ call' \in [Call -> CallType]
         /\ \A d \in Call : CallShape(call'[d], taken')
BY DEF TypeOK, Go

LEMMA NoCallType == NoCall \in CallType /\ CallShape(NoCall, taken)
BY DEF NoCall, CallType, CallShape

\* The states a call goes through, each well formed.
LEMMA FinishedType ==
  ASSUME TypeOK, NEW c \in Call,
         call[c].pc \in {"insert", "arbitrate", "write"}, Done(c), taken' = taken
  PROVE  /\ call' \in [Call -> CallType]
         /\ \A d \in Call : CallShape(call'[d], taken')
<1>s. PICK s : s = Finished(c)
  OBVIOUS
<1>1. call[c] \in CallType /\ CallShape(call[c], taken)
  BY DEF TypeOK
<1>0. /\ call[c].scan \in Scan /\ call[c].done \cup {call[c].scan} \subseteq Scan
      /\ NoScan \in Scan \cup {NoScan}
  BY <1>1, ScanRange DEF CallType, CallShape
<1>2. s \in CallType
  BY <1>s, <1>0, <1>1 DEF CallType, Finished
<1>3. CallShape(s, taken)
  BY <1>s, <1>1 DEF CallType, CallShape, Finished
<1>4. Go(c, s)
  BY <1>s DEF Done
<1> QED
  BY <1>2, <1>3, <1>4, SetCall

LEMMA TypeInit == Init => TypeOK
<1> SUFFICES ASSUME Init PROVE TypeOK
  OBVIOUS
<1>1. call \in [Call -> CallType] /\ \A c \in Call : CallShape(call[c], taken)
  BY NoCallType DEF Init
<1>2. /\ taken \in 0..MaxScans /\ faults \in Nat /\ count \in Int
      /\ \A n \in Scan : ~(n <= taken)
  BY BoundsAssumption DEF Init, Scan
<1>3. /\ manager \in [Manager -> [scan : Scan \cup {NoScan}, effective : BOOLEAN]]
      /\ \A k \in Manager : manager[k] = NoRevocation
  BY DEF Init, NoRevocation
<1>4. /\ refused \subseteq 1..taken
      /\ revoked \subseteq {n \in Scan : row[n] # "none"}
      /\ queue \in [Device -> SUBSET (1..taken)]
      /\ crossed \in BOOLEAN
  BY DEF Init
<1>5. /\ ticketOf \in [Scan -> Ticket \cup {NoTicket}]
      /\ deviceOf \in [Scan -> Device \cup {NoDevice}]
      /\ carnet \in [Device -> [Ticket -> {"v", "u", "x"}]]
      /\ row \in [Scan -> RowState]
      /\ \A n \in Scan : row[n] # "none" => n <= taken
      /\ status \in [Ticket -> {"VALID", "USED", "CANCELLED"}]
  BY DEF Init, RowState
<1> QED
  BY <1>1, <1>2, <1>3, <1>4, <1>5 DEF TypeOK

LEMMA ScanTicketType ==
  ASSUME TypeOK, NEW d \in Device, NEW t \in Ticket, ScanTicket(d, t)
  PROVE  TypeOK'
<1>1. /\ taken' = taken + 1 /\ taken' \in Scan /\ taken' \in 0..MaxScans
      /\ 1..taken \subseteq 1..taken' /\ taken' \in 1..taken'
  BY ScanRange DEF ScanTicket, Scan
<1>2. /\ ticketOf' \in [Scan -> Ticket \cup {NoTicket}]
      /\ deviceOf' \in [Scan -> Device \cup {NoDevice}]
  BY DEF ScanTicket, TypeOK
<1>3. ASSUME NEW n \in Scan, n <= taken'
      PROVE  ticketOf'[n] # NoTicket /\ deviceOf'[n] # NoDevice
  <2>1. CASE n = taken'
    BY <2>1, NoneAssumption DEF ScanTicket, TypeOK
  <2>2. CASE n # taken'
    <3>1. n <= taken
      BY <1>1, <1>3, <2>2, ScanRange DEF Scan
    <3> QED
      BY <2>2, <3>1 DEF ScanTicket, TypeOK
  <2> QED
    BY <2>1, <2>2
<1>4. queue' \in [Device -> SUBSET (1..taken')]
  BY <1>1 DEF ScanTicket, TypeOK
<1>5. \A c \in Call : CallShape(call'[c], taken')
  BY <1>1 DEF ScanTicket, TypeOK, CallShape
<1>6. \A n \in Scan : row'[n] # "none" => n <= taken'
  BY <1>1, ScanRange DEF ScanTicket, TypeOK, serverVars, Scan
<1>7. refused' \subseteq 1..taken'
  BY <1>1 DEF ScanTicket, TypeOK
<1> QED
  BY <1>1, <1>2, <1>3, <1>4, <1>5, <1>6, <1>7
  DEF ScanTicket, TypeOK, serverVars

\* Everything but one call, and what is refused or waits.
LEMMA CallStepType ==
  ASSUME TypeOK,
         call' \in [Call -> CallType],
         \A c \in Call : CallShape(call'[c], taken'),
         UNCHANGED <<deviceVars, serverVars, manager, crossed>>,
         queue' \in [Device -> SUBSET (1..taken)],
         refused' \subseteq 1..taken, faults' \in Nat
  PROVE  TypeOK'
BY DEF TypeOK, deviceVars, serverVars

LEMMA SendType ==
  ASSUME TypeOK, NEW c \in Call, NEW d \in Device, Send(c, d)
  PROVE  TypeOK'
<1>s. PICK s : s = [NoCall EXCEPT !.pc = "next", !.device = d, !.todo = queue[d]]
  OBVIOUS
<1>1. queue[d] \subseteq 1..taken /\ queue[d] \subseteq Scan
  BY ScanRange DEF TypeOK
<1>2. s \in CallType /\ CallShape(s, taken)
  BY <1>s, <1>1, NoCallType DEF NoCall, CallType, CallShape
<1>3. Go(c, s) /\ taken' = taken
  BY <1>s DEF Send, deviceVars
<1>4. /\ call' \in [Call -> CallType]
      /\ \A e \in Call : CallShape(call'[e], taken')
  BY <1>2, <1>3, SetCall
<1> QED
  BY <1>4, CallStepType DEF Send, TypeOK

LEMMA EndType ==
  ASSUME TypeOK, NEW c \in Call, Answered(c) \/ Lost(c) \/ ArbitrateFails(c)
  PROVE  TypeOK'
<1>1. Go(c, NoCall) /\ taken' = taken
  BY DEF Answered, Lost, ArbitrateFails, deviceVars
<1>2. PICK s : s = NoCall
  OBVIOUS
<1>3. /\ call' \in [Call -> CallType]
      /\ \A e \in Call : CallShape(call'[e], taken')
  BY <1>1, <1>2, NoCallType, SetCall
<1>4. queue' \in [Device -> SUBSET (1..taken)]
  <2>1. CASE Answered(c)
    BY <2>1 DEF Answered, Purged, TypeOK, CallShape
  <2>2. CASE Lost(c) \/ ArbitrateFails(c)
    BY <2>2 DEF Lost, ArbitrateFails, TypeOK
  <2> QED
    BY <2>1, <2>2
<1>5. /\ UNCHANGED <<deviceVars, serverVars, manager, crossed>>
      /\ refused' = refused /\ (faults' = faults \/ faults' = faults + 1)
  BY DEF Answered, Lost, ArbitrateFails
<1>6. refused' \subseteq 1..taken /\ faults' \in Nat
  BY <1>5 DEF TypeOK
<1> QED
  BY <1>3, <1>4, <1>5, <1>6, CallStepType

LEMMA LookType ==
  ASSUME TypeOK, NEW c \in Call, Look(c)
  PROVE  TypeOK'
<1>1. PICK n \in First(call[c].todo) :
        /\ Go(c, Skipped(c, n)) \/ Go(c, Taken(c, n))
        /\ refused' = refused \/ refused' = refused \cup {n}
  BY DEF Look
<1>2. /\ call[c] \in CallType /\ CallShape(call[c], taken) /\ n \in 1..taken
      /\ n \in Scan /\ call[c].pc = "next" /\ taken' = taken
  BY ScanRange DEF TypeOK, First, CallShape, Look, deviceVars
<1>3. PICK s : s \in {Skipped(c, n), Taken(c, n)} /\ Go(c, s)
  BY <1>1
<1>4. s \in CallType /\ CallShape(s, taken)
  <2>1. CASE s = Skipped(c, n)
    BY <1>2, <2>1 DEF Skipped, CallType, CallShape
  <2>2. CASE s = Taken(c, n)
    BY <1>2, <2>2 DEF Taken, CallType, CallShape
  <2> QED
    BY <1>3, <2>1, <2>2
<1>5. /\ call' \in [Call -> CallType]
      /\ \A e \in Call : CallShape(call'[e], taken')
  BY <1>2, <1>3, <1>4, SetCall
<1>6. refused' \subseteq 1..taken
  BY <1>1, <1>2 DEF TypeOK
<1> QED
  BY <1>5, <1>6, CallStepType DEF Look, TypeOK

LEMMA AnsweredType ==
  ASSUME TypeOK, NEW c \in Call,
         InsertReplayed(c) \/ InsertFails(c)
  PROVE  TypeOK'
<1>1. call[c].pc = "insert" /\ Done(c) /\ taken' = taken
      /\ refused' = refused \cup {call[c].scan}
  BY DEF InsertReplayed, InsertFails, Refuse, deviceVars
<1>2. /\ call' \in [Call -> CallType]
      /\ \A d \in Call : CallShape(call'[d], taken')
  BY <1>1, FinishedType
<1>3. refused' \subseteq 1..taken
  BY <1>1 DEF TypeOK, CallShape
<1> QED
  BY <1>2, <1>3, CallStepType DEF InsertReplayed, InsertFails, TypeOK

LEMMA ConflictType ==
  ASSUME TypeOK, NEW c \in Call, InsertConflicts(c) \/ Arbitrate(c)
  PROVE  TypeOK'
<1>1. /\ call[c] \in CallType /\ CallShape(call[c], taken)
      /\ call[c].pc \in {"insert", "arbitrate"} /\ taken' = taken
  BY DEF TypeOK, InsertConflicts, Arbitrate, deviceVars
<1>2. ASSUME NEW s \in CallType, CallShape(s, taken), Go(c, s),
             UNCHANGED <<deviceVars, serverVars, manager, crossed, queue, faults>>,
             refused' \subseteq 1..taken
      PROVE  TypeOK'
  <2>1. /\ call' \in [Call -> CallType]
        /\ \A e \in Call : CallShape(call'[e], taken')
    BY <1>1, <1>2, SetCall
  <2> QED
    BY <1>2, <2>1, CallStepType DEF TypeOK
<1>3. CASE InsertConflicts(c)
  <2>1. PICK s : s = [call[c] EXCEPT !.pc = "arbitrate"]
    OBVIOUS
  <2>2. s \in CallType /\ CallShape(s, taken)
    BY <1>1, <2>1 DEF CallType, CallShape
  <2> QED
    BY <1>2, <1>3, <2>1, <2>2 DEF InsertConflicts, TypeOK
<1>4. CASE Arbitrate(c)
  <2>1. CASE EntriesOf(ticketOf[call[c].scan]) = {}
    <3>1. Done(c) /\ refused' = refused \cup {call[c].scan}
      BY <1>4, <2>1 DEF Arbitrate, Refuse
    <3>2. /\ call' \in [Call -> CallType]
          /\ \A e \in Call : CallShape(call'[e], taken')
      BY <1>1, <3>1, FinishedType
    <3>3. refused' \subseteq 1..taken
      BY <1>1, <3>1 DEF TypeOK, CallShape
    <3> QED
      BY <1>4, <3>2, <3>3, CallStepType DEF Arbitrate, TypeOK
  <2>2. CASE EntriesOf(ticketOf[call[c].scan]) # {}
    <3>1. PICK m \in EntriesOf(ticketOf[call[c].scan]) :
            Go(c, [call[c] EXCEPT !.pc = "write", !.current = m])
      BY <1>4, <2>2 DEF Arbitrate
    <3>2. m \in Scan /\ m \in 1..taken
      BY ScanRange DEF TypeOK, EntriesOf, Entered, Scan
    <3>3. PICK s : s = [call[c] EXCEPT !.pc = "write", !.current = m]
      OBVIOUS
    <3>4. s \in CallType /\ CallShape(s, taken)
      BY <1>1, <1>4, <3>2, <3>3 DEF CallType, CallShape, Arbitrate
    <3> QED
      BY <1>2, <1>4, <2>2, <3>1, <3>3, <3>4 DEF Arbitrate, TypeOK
  <2> QED
    BY <2>1, <2>2
<1> QED
  BY <1>3, <1>4

LEMMA RecordType ==
  ASSUME TypeOK, NEW c \in Call, Insert(c) \/ ArbitrateWrite(c)
  PROVE  TypeOK'
<1>1. /\ call[c] \in CallType /\ CallShape(call[c], taken)
      /\ call[c].pc \in {"insert", "write"} /\ Done(c) /\ taken' = taken
      /\ UNCHANGED <<deviceVars, queue, revoked, refused, manager, faults>>
  BY DEF TypeOK, Insert, ArbitrateWrite, deviceVars
<1>2. /\ call' \in [Call -> CallType]
      /\ \A e \in Call : CallShape(call'[e], taken')
  BY <1>1, FinishedType
<1> DEFINE n == call[c].scan
           m == call[c].current
<1>3. n \in Scan /\ n \in 1..taken
  BY <1>1, ScanRange DEF CallShape
<1>4. CASE Insert(c)
  <2>1. /\ row' = [row EXCEPT ![n] = "effective"]
        /\ status' = [status EXCEPT ![ticketOf[n]] = "USED"]
        /\ count' = count + 1 /\ crossed' = crossed
    BY <1>4 DEF Insert
  <2>2. /\ row' \in [Scan -> RowState]
        /\ \A i \in Scan : row'[i] # "none" => i <= taken
        /\ revoked \subseteq {i \in Scan : row'[i] # "none"}
        /\ status' \in [Ticket -> {"VALID", "USED", "CANCELLED"}]
        /\ count' \in Int
    BY <1>3, <2>1 DEF TypeOK, RowState
  <2> QED
    BY <1>1, <1>2, <2>1, <2>2 DEF TypeOK, deviceVars
<1>5. CASE ArbitrateWrite(c)
  <2>1. m \in Scan /\ m \in 1..taken
    BY <1>1, <1>5, ScanRange DEF CallShape, ArbitrateWrite
  <2>2. /\ row' = Arbitrated(n, m) /\ UNCHANGED <<status, count>>
        /\ crossed' = (crossed \/ (Wins(n, m) /\ ~Entered(m)))
    BY <1>5 DEF ArbitrateWrite
  <2>3. /\ row' \in [Scan -> RowState]
        /\ \A i \in Scan : row'[i] # "none" => i <= taken
        /\ revoked \subseteq {i \in Scan : row'[i] # "none"}
        /\ \A i \in Scan : row[i] # "none" => row'[i] # "none"
    <3>1. row' \in [Scan -> RowState]
      BY <1>3, <2>1, <2>2 DEF TypeOK, RowState, Arbitrated
    <3>2. \A i \in Scan : row'[i] = row[i] \/ (i \in {n, m} /\ row'[i] # "none")
      BY <1>3, <2>1, <2>2 DEF TypeOK, RowState, Arbitrated
    <3>3. \A i \in Scan : row[i] # "none" => row'[i] # "none"
      BY <3>2
    <3>4. \A i \in Scan : row'[i] # "none" => i <= taken
      BY <1>3, <2>1, <3>2 DEF TypeOK
    <3> QED
      BY <3>1, <3>3, <3>4 DEF TypeOK
  <2>4. crossed' \in BOOLEAN
    BY <2>2 DEF TypeOK
  <2>5. \A k \in Manager : manager'[k] # NoRevocation =>
          manager'[k].scan \in Scan /\ row'[manager'[k].scan] # "none"
    BY <1>1, <2>3 DEF TypeOK
  <2> HIDE DEF n, m
  <2> QED
    BY <1>1, <1>2, <2>2, <2>3, <2>4, <2>5 DEF TypeOK, deviceVars
<1> QED
  BY <1>4, <1>5 DEF Insert, ArbitrateWrite

LEMMA RevokeType ==
  ASSUME TypeOK, NEW k \in Manager,
         RevokeWrite(k) \/ \E n \in Scan : RevokeRead(k, n)
  PROVE  TypeOK'
<1>1. CASE \E n \in Scan : RevokeRead(k, n)
  <2>1. PICK n \in Scan : RevokeRead(k, n)
    BY <1>1
  <2>2. PICK s : s = [scan |-> n, effective |-> row[n] = "effective"]
    OBVIOUS
  <2>3. /\ s \in [scan : Scan \cup {NoScan}, effective : BOOLEAN]
        /\ s.scan = n /\ row[n] # "none"
        /\ manager' = [manager EXCEPT ![k] = s]
    BY <2>1, <2>2 DEF RevokeRead
  <2>4. /\ manager' \in [Manager -> [scan : Scan \cup {NoScan}, effective : BOOLEAN]]
        /\ \A j \in Manager : manager'[j] # NoRevocation =>
             manager'[j].scan \in Scan /\ row[manager'[j].scan] # "none"
    BY <2>3 DEF TypeOK
  <2> QED
    BY <2>1, <2>4 DEF RevokeRead, TypeOK, deviceVars, serverVars
<1>2. CASE RevokeWrite(k)
  <2>1. /\ revoked' = revoked \cup {manager[k].scan}
        /\ manager[k] # NoRevocation
        /\ status' = IF manager[k].effective
                     THEN [status EXCEPT ![ticketOf[manager[k].scan]] = "VALID"]
                     ELSE status
        /\ count' = Undone(manager[k].effective)
        /\ manager' = [manager EXCEPT ![k] = NoRevocation]
        /\ UNCHANGED <<deviceVars, queue, call, row, refused, faults>>
    BY <1>2 DEF RevokeWrite
  <2>2. count' \in Int
    BY <2>1 DEF Undone, TypeOK
  <2>3. status' \in [Ticket -> {"VALID", "USED", "CANCELLED"}]
    BY <2>1 DEF TypeOK
  <2>n. PICK s : s = NoRevocation
    OBVIOUS
  <2>4. /\ manager' \in [Manager -> [scan : Scan \cup {NoScan}, effective : BOOLEAN]]
        /\ \A j \in Manager : manager'[j] # NoRevocation =>
             manager'[j].scan \in Scan /\ row[manager'[j].scan] # "none"
    <3>1. s \in [scan : Scan \cup {NoScan}, effective : BOOLEAN]
      BY <2>n DEF NoRevocation
    <3> QED
      BY <2>1, <2>n, <3>1 DEF TypeOK
  <2>5. revoked' \subseteq {n \in Scan : row[n] # "none"}
    BY <2>1 DEF TypeOK
  <2>6. crossed' \in BOOLEAN
    BY <1>2 DEF RevokeWrite
  <2> QED
    BY <2>1, <2>2, <2>3, <2>4, <2>5, <2>6 DEF TypeOK, deviceVars
<1> QED
  BY <1>1, <1>2

LEMMA OutsideType ==
  ASSUME TypeOK,
         \/ \E d \in Device : LoadManifest(d)
         \/ \E t \in Ticket : CancelTicket(t)
  PROVE  TypeOK'
<1>1. CASE \E d \in Device : LoadManifest(d)
  <2>1. PICK d \in Device : LoadManifest(d)
    BY <1>1
  <2>2. \A t \in Ticket : Listed(t) \in {"v", "u", "x"}
    BY DEF Listed
  <2>3. carnet' \in [Device -> [Ticket -> {"v", "u", "x"}]]
    BY <2>1, <2>2 DEF LoadManifest, TypeOK
  <2> QED
    BY <2>1, <2>3 DEF LoadManifest, TypeOK, serverVars
<1>2. CASE \E t \in Ticket : CancelTicket(t)
  BY <1>2 DEF CancelTicket, TypeOK, deviceVars
<1> QED
  BY <1>1, <1>2

\* The actions, grouped by what they change.
LEMMA Actions ==
  ASSUME Next
  PROVE  \/ \E d \in Device, t \in Ticket : ScanTicket(d, t)
         \/ \E c \in Call, d \in Device : Send(c, d)
         \/ \E c \in Call : Answered(c) \/ Lost(c) \/ ArbitrateFails(c)
         \/ \E c \in Call : Look(c)
         \/ \E c \in Call : InsertReplayed(c) \/ InsertFails(c)
         \/ \E c \in Call : InsertConflicts(c) \/ Arbitrate(c)
         \/ \E c \in Call : Insert(c) \/ ArbitrateWrite(c)
         \/ \E k \in Manager : RevokeWrite(k) \/ \E n \in Scan : RevokeRead(k, n)
         \/ \/ \E d \in Device : LoadManifest(d)
            \/ \E t \in Ticket : CancelTicket(t)
BY DEF Next, Serve, Sync

LEMMA TypeStep == TypeOK /\ [Next]_vars => TypeOK'
<1> SUFFICES ASSUME TypeOK, [Next]_vars PROVE TypeOK'
  OBVIOUS
<1>1. CASE Next
  BY <1>1, Actions, ScanTicketType, SendType, EndType, LookType, AnsweredType,
     ConflictType, RecordType, RevokeType, OutsideType
<1>2. CASE UNCHANGED vars
  BY <1>2 DEF TypeOK, vars, deviceVars, serverVars
<1> QED
  BY <1>1, <1>2

\* Rows, queues and batches keep their type, whatever overlaps.
THEOREM TypeCorrect == Spec => []TypeOK
BY TypeInit, TypeStep, PTL DEF Spec
-----------------------------------------------------------------------------
(* What no step forgets *)

LEMMA RowsGrow ==
  ASSUME TypeOK, [Next]_vars
  PROVE  /\ \A n \in Scan : row[n] # "none" => row'[n] # "none"
         /\ refused \subseteq refused'
         /\ \A n \in 1..taken : /\ n \in 1..taken'
                               /\ ticketOf'[n] = ticketOf[n]
                               /\ deviceOf'[n] = deviceOf[n]
<1>1. CASE UNCHANGED <<row, deviceVars>> /\ refused \subseteq refused'
  BY <1>1 DEF deviceVars
<1>2. ASSUME NEW d \in Device, NEW t \in Ticket, ScanTicket(d, t)
      PROVE  /\ UNCHANGED <<row, refused>>
             /\ \A n \in 1..taken : /\ n \in 1..taken'
                                   /\ ticketOf'[n] = ticketOf[n]
                                   /\ deviceOf'[n] = deviceOf[n]
  BY <1>2, ScanRange DEF ScanTicket, TypeOK, serverVars, Scan
<1>3. ASSUME NEW c \in Call, Insert(c) \/ ArbitrateWrite(c)
      PROVE  /\ UNCHANGED <<deviceVars, refused>>
             /\ \A n \in Scan : row[n] # "none" => row'[n] # "none"
  <2>1. CASE Insert(c)
    BY <2>1 DEF Insert, TypeOK
  <2>2. CASE ArbitrateWrite(c)
    BY <2>2 DEF ArbitrateWrite, Arbitrated, TypeOK
  <2> QED
    BY <1>3, <2>1, <2>2
<1>4. ASSUME NEW d \in Device, LoadManifest(d)
      PROVE  UNCHANGED <<row, refused, taken, ticketOf, deviceOf>>
  BY <1>4 DEF LoadManifest, serverVars
<1>5. \/ UNCHANGED <<row, deviceVars>> /\ refused \subseteq refused'
      \/ \E d \in Device, t \in Ticket : ScanTicket(d, t)
      \/ \E c \in Call : Insert(c) \/ ArbitrateWrite(c)
      \/ \E d \in Device : LoadManifest(d)
  BY Actions DEF vars, deviceVars, serverVars, Send, Answered, Lost,
     ArbitrateFails, Look, InsertReplayed, InsertFails, Refuse,
     InsertConflicts, Arbitrate, RevokeWrite, RevokeRead, CancelTicket
<1> QED
  BY <1>1, <1>2, <1>3, <1>4, <1>5 DEF deviceVars

\* What a call has answered is recorded or refused.
Settled(n) == row[n] # "none" \/ n \in refused
AnswersTrue == \A c \in Call : \A n \in call[c].done : Settled(n)

LEMMA SettledKept ==
  ASSUME TypeOK, [Next]_vars, NEW n \in Scan, Settled(n)
  PROVE  row'[n] # "none" \/ n \in refused'
BY RowsGrow DEF Settled

\* One call answers for one more scan, at most.
LEMMA GoAnswers ==
  ASSUME TypeOK, AnswersTrue, [Next]_vars, NEW c \in Call, NEW s, Go(c, s),
         \A n \in s.done : n \in call[c].done \/ row'[n] # "none" \/ n \in refused'
  PROVE  AnswersTrue'
<1> SUFFICES ASSUME NEW e \in Call, NEW n \in call'[e].done
             PROVE  row'[n] # "none" \/ n \in refused'
  BY DEF AnswersTrue, Settled
<1>1. call'[e] = IF e = c THEN s ELSE call[e]
  BY DEF Go, TypeOK
<1>2. CASE n \in call[e].done
  <2>1. n \in Scan /\ Settled(n)
    BY <1>2, ScanRange DEF AnswersTrue, TypeOK, CallShape
  <2> QED
    BY <2>1, SettledKept
<1>3. CASE n \notin call[e].done
  BY <1>1, <1>3
<1> QED
  BY <1>2, <1>3

LEMMA DoneAnswers ==
  ASSUME TypeOK, AnswersTrue, [Next]_vars, NEW c \in Call, Done(c),
         row'[call[c].scan] # "none" \/ call[c].scan \in refused'
  PROVE  AnswersTrue'
<1>1. PICK s : s = Finished(c)
  OBVIOUS
<1>2. s.done = call[c].done \cup {call[c].scan}
  BY <1>1 DEF Finished, TypeOK, CallType
<1> QED
  BY <1>1, <1>2, GoAnswers DEF Done

LEMMA LookAnswers ==
  ASSUME TypeOK, AnswersTrue, [Next]_vars, NEW c \in Call, Look(c)
  PROVE  AnswersTrue'
<1>1. PICK n \in First(call[c].todo) :
        \/ Go(c, Taken(c, n))
        \/ Go(c, Skipped(c, n)) /\ (row[n] # "none" \/ n \in refused')
  BY DEF Look
<1>2. call[c] \in CallType /\ n \in Scan /\ row' = row
  BY ScanRange DEF TypeOK, First, CallShape, Look, serverVars
<1>3. CASE Go(c, Taken(c, n))
  <2>1. PICK s : s = Taken(c, n)
    OBVIOUS
  <2>2. s.done = call[c].done
    BY <1>2, <2>1 DEF Taken, CallType
  <2> QED
    BY <1>3, <2>1, <2>2, GoAnswers
<1>4. CASE Go(c, Skipped(c, n)) /\ (row[n] # "none" \/ n \in refused')
  <2>1. PICK s : s = Skipped(c, n)
    OBVIOUS
  <2>2. s.done = call[c].done \cup {n}
    BY <1>2, <2>1 DEF Skipped, CallType
  <2> QED
    BY <1>2, <1>4, <2>1, <2>2, GoAnswers
<1> QED
  BY <1>1, <1>3, <1>4

LEMMA AnswersStep ==
  ASSUME TypeOK, AnswersTrue, [Next]_vars
  PROVE  AnswersTrue'
<1>1. ASSUME NEW c \in Call, NEW s, Go(c, s), s.done \subseteq call[c].done
      PROVE  AnswersTrue'
  BY <1>1, GoAnswers
<1>2. ASSUME NEW c \in Call, NEW d \in Device, Send(c, d) PROVE AnswersTrue'
  <2>1. PICK s : s = [NoCall EXCEPT !.pc = "next", !.device = d, !.todo = queue[d]]
    OBVIOUS
  <2>2. s.done = {}
    BY <2>1 DEF NoCall
  <2> QED
    BY <1>1, <1>2, <2>1, <2>2 DEF Send
<1>3. ASSUME NEW c \in Call, Answered(c) \/ Lost(c) \/ ArbitrateFails(c)
      PROVE  AnswersTrue'
  <2>1. PICK s : s = NoCall
    OBVIOUS
  <2> QED
    BY <1>1, <1>3, <2>1 DEF NoCall, Answered, Lost, ArbitrateFails
<1>4. ASSUME NEW c \in Call, InsertReplayed(c) \/ InsertFails(c)
      PROVE  AnswersTrue'
  BY <1>4, DoneAnswers DEF InsertReplayed, InsertFails, Refuse
<1>5. ASSUME NEW c \in Call, InsertConflicts(c) \/ Arbitrate(c)
      PROVE  AnswersTrue'
  <2>1. call[c] \in CallType
    BY DEF TypeOK
  <2>2. \/ Done(c) /\ call[c].scan \in refused'
        \/ \E m : Go(c, [call[c] EXCEPT !.pc = "write", !.current = m])
        \/ Go(c, [call[c] EXCEPT !.pc = "arbitrate"])
    BY <1>5 DEF InsertConflicts, Arbitrate, Refuse
  <2>3. ASSUME NEW m, Go(c, [call[c] EXCEPT !.pc = "write", !.current = m])
        PROVE  AnswersTrue'
    <3>1. PICK s : s = [call[c] EXCEPT !.pc = "write", !.current = m]
      OBVIOUS
    <3>2. s.done = call[c].done
      BY <2>1, <3>1 DEF CallType
    <3> QED
      BY <1>1, <2>3, <3>1, <3>2
  <2>4. CASE Go(c, [call[c] EXCEPT !.pc = "arbitrate"])
    <3>1. PICK s : s = [call[c] EXCEPT !.pc = "arbitrate"]
      OBVIOUS
    <3>2. s.done = call[c].done
      BY <2>1, <3>1 DEF CallType
    <3> QED
      BY <1>1, <2>4, <3>1, <3>2
  <2> QED
    BY <2>2, <2>3, <2>4, DoneAnswers
<1>6. ASSUME NEW c \in Call, Insert(c) \/ ArbitrateWrite(c)
      PROVE  AnswersTrue'
  <2>1. Done(c) /\ call[c].scan \in Scan
    BY <1>6, ScanRange DEF TypeOK, CallShape, Insert, ArbitrateWrite
  <2>2. CASE Insert(c)
    BY <2>1, <2>2, DoneAnswers DEF Insert, TypeOK
  <2>3. CASE ArbitrateWrite(c)
    <3>1. call[c].current \in Scan
      BY <2>3, ScanRange DEF TypeOK, CallShape, ArbitrateWrite
    <3>2. row'[call[c].scan] # "none"
      BY <2>1, <2>3, <3>1 DEF ArbitrateWrite, Arbitrated, TypeOK
    <3> QED
      BY <2>1, <3>2, DoneAnswers
  <2> QED
    BY <1>6, <2>2, <2>3
<1>7. CASE UNCHANGED call
  BY <1>7, ScanRange, RowsGrow DEF AnswersTrue, Settled, TypeOK, CallShape
<1>8. \/ UNCHANGED call
      \/ \E c \in Call, d \in Device : Send(c, d)
      \/ \E c \in Call : \/ Answered(c) \/ Lost(c) \/ ArbitrateFails(c)
                         \/ Look(c)
                         \/ InsertReplayed(c) \/ InsertFails(c)
                         \/ InsertConflicts(c) \/ Arbitrate(c)
                         \/ Insert(c) \/ ArbitrateWrite(c)
  BY Actions DEF vars, ScanTicket, RevokeWrite, RevokeRead, LoadManifest,
     CancelTicket
<1> QED
  BY <1>2, <1>3, <1>4, <1>5, <1>6, <1>7, <1>8, LookAnswers

LEMMA WaitsStep ==
  ASSUME TypeOK, AnswersTrue, WaitsUntilRecorded, [Next]_vars
  PROVE  WaitsUntilRecorded'
<1> SUFFICES ASSUME NEW n \in 1..taken', row'[n] = "none", n \notin refused'
             PROVE  n \in queue'[deviceOf'[n]]
  BY DEF WaitsUntilRecorded
<1>1. ASSUME NEW d \in Device, NEW t \in Ticket, ScanTicket(d, t), n \notin 1..taken
      PROVE  n \in queue'[deviceOf'[n]]
  <2>1. n = taken + 1 /\ n \in Scan
    BY <1>1, ScanRange DEF ScanTicket
  <2>2. deviceOf'[n] = d /\ n \in queue'[d]
    BY <1>1, <2>1 DEF ScanTicket, TypeOK
  <2> QED
    BY <2>2
<1>2. n \notin 1..taken => \E d \in Device, t \in Ticket : ScanTicket(d, t)
  BY Actions DEF vars, deviceVars, Send, Answered, Lost, ArbitrateFails, Look,
     InsertReplayed, InsertFails, InsertConflicts, Arbitrate, Insert,
     ArbitrateWrite, RevokeWrite, RevokeRead, LoadManifest, CancelTicket
<1>3. ASSUME n \in 1..taken PROVE n \in queue'[deviceOf'[n]]
  <2>1. n \in Scan /\ deviceOf'[n] = deviceOf[n] /\ ~Settled(n)
    BY <1>3, ScanRange, RowsGrow, SettledKept
  <2>2. n \in queue[deviceOf[n]] /\ deviceOf[n] \in Device
    BY <1>3, <2>1, ScanRange DEF WaitsUntilRecorded, Settled, TypeOK
  <2>3. CASE UNCHANGED queue
    BY <2>1, <2>2, <2>3
  <2>4. ASSUME NEW d \in Device, NEW t \in Ticket, ScanTicket(d, t)
        PROVE  n \in queue'[deviceOf[n]]
    BY <2>2, <2>4 DEF ScanTicket, TypeOK
  <2>5. ASSUME NEW c \in Call, Answered(c)
        PROVE  n \in queue'[deviceOf[n]]
    <3>1. n \notin call[c].done
      BY <2>1 DEF AnswersTrue
    <3>2. queue' = [queue EXCEPT ![call[c].device] = queue[call[c].device] \ call[c].done]
      BY <2>5 DEF Answered, Purged
    <3> QED
      BY <2>2, <3>1, <3>2 DEF TypeOK
  <2>6. \/ UNCHANGED queue
        \/ \E d \in Device, t \in Ticket : ScanTicket(d, t)
        \/ \E c \in Call : Answered(c)
    BY Actions DEF vars, Send, Lost, ArbitrateFails, Look,
       InsertReplayed, InsertFails, InsertConflicts, Arbitrate, Insert,
       ArbitrateWrite, RevokeWrite, RevokeRead, LoadManifest, CancelTicket
  <2> QED
    BY <2>1, <2>3, <2>4, <2>5, <2>6
<1> QED
  BY <1>1, <1>2, <1>3
-----------------------------------------------------------------------------
(* The entries *)

\* The entry an arbitration has read was recorded, for the same ticket; it
\* may not be one any more.
ReadTrue ==
  \A c \in Call : call[c].pc = "write" =>
    /\ row[call[c].current] # "none"
    /\ ticketOf[call[c].current] = ticketOf[call[c].scan]

LEMMA GoReads ==
  ASSUME TypeOK, ReadTrue, [Next]_vars, NEW c \in Call, NEW s, Go(c, s),
         s.pc # "write"
  PROVE  ReadTrue'
<1> SUFFICES ASSUME NEW e \in Call, call'[e].pc = "write"
             PROVE  /\ row'[call'[e].current] # "none"
                    /\ ticketOf'[call'[e].current] = ticketOf'[call'[e].scan]
  BY DEF ReadTrue
<1>1. call'[e] = call[e]
  BY DEF Go, TypeOK
<1>2. call[e].scan \in 1..taken /\ call[e].current \in 1..taken
  BY <1>1 DEF TypeOK, CallShape
<1> QED
  BY <1>1, <1>2, RowsGrow, ScanRange DEF ReadTrue

LEMMA ReadsStep ==
  ASSUME TypeOK, ReadTrue, [Next]_vars
  PROVE  ReadTrue'
<1>1. CASE UNCHANGED call
  <2> SUFFICES ASSUME NEW e \in Call, call[e].pc = "write"
               PROVE  /\ row'[call[e].current] # "none"
                      /\ ticketOf'[call[e].current] = ticketOf'[call[e].scan]
    BY <1>1 DEF ReadTrue
  <2>1. call[e].scan \in 1..taken /\ call[e].current \in 1..taken
    BY DEF TypeOK, CallShape
  <2> QED
    BY <2>1, RowsGrow, ScanRange DEF ReadTrue
<1>2. ASSUME NEW c \in Call, Done(c) PROVE ReadTrue'
  <2>1. PICK s : s = Finished(c)
    OBVIOUS
  <2>2. s.pc # "write"
    BY <2>1 DEF Finished, TypeOK, CallType
  <2> QED
    BY <1>2, <2>1, <2>2, GoReads DEF Done
<1>3. ASSUME NEW c \in Call, NEW d \in Device, Send(c, d) PROVE ReadTrue'
  <2>1. PICK s : s = [NoCall EXCEPT !.pc = "next", !.device = d, !.todo = queue[d]]
    OBVIOUS
  <2>2. s.pc # "write"
    BY <2>1 DEF NoCall
  <2> QED
    BY <1>3, <2>1, <2>2, GoReads DEF Send
<1>4. ASSUME NEW c \in Call, Go(c, NoCall) PROVE ReadTrue'
  <2>1. PICK s : s = NoCall
    OBVIOUS
  <2> QED
    BY <1>4, <2>1, GoReads DEF NoCall
<1>5. ASSUME NEW c \in Call, Look(c) PROVE ReadTrue'
  <2>1. PICK n : Go(c, Taken(c, n)) \/ Go(c, Skipped(c, n))
    BY <1>5 DEF Look
  <2>2. PICK s : s \in {Taken(c, n), Skipped(c, n)} /\ Go(c, s)
    BY <2>1
  <2>3. call[c] \in CallType /\ call[c].pc = "next"
    BY <1>5 DEF Look, TypeOK
  <2>4. s.pc # "write"
    BY <2>2, <2>3 DEF Taken, Skipped, CallType
  <2> QED
    BY <2>2, <2>4, GoReads
<1>6. ASSUME NEW c \in Call, InsertConflicts(c) PROVE ReadTrue'
  <2>1. PICK s : s = [call[c] EXCEPT !.pc = "arbitrate"]
    OBVIOUS
  <2>2. s.pc # "write"
    BY <2>1 DEF TypeOK, CallType
  <2> QED
    BY <1>6, <2>1, <2>2, GoReads DEF InsertConflicts
<1>7. ASSUME NEW c \in Call, Arbitrate(c),
             EntriesOf(ticketOf[call[c].scan]) # {}
      PROVE  ReadTrue'
  <2>1. PICK m \in EntriesOf(ticketOf[call[c].scan]) :
          Go(c, [call[c] EXCEPT !.pc = "write", !.current = m])
    BY <1>7 DEF Arbitrate
  <2>2. PICK s : s = [call[c] EXCEPT !.pc = "write", !.current = m]
    OBVIOUS
  <2>3. s.current = m /\ s.scan = call[c].scan
    BY <2>2 DEF TypeOK, CallType
  <2>4. row[m] # "none" /\ ticketOf[m] = ticketOf[call[c].scan]
    BY <2>1 DEF EntriesOf, Entered
  <2> SUFFICES ASSUME NEW e \in Call, call'[e].pc = "write"
               PROVE  /\ row'[call'[e].current] # "none"
                      /\ ticketOf'[call'[e].current] = ticketOf'[call'[e].scan]
    BY DEF ReadTrue
  <2>5. call'[e] = (IF e = c THEN s ELSE call[e]) /\ UNCHANGED <<row, ticketOf>>
    BY <1>7, <2>1, <2>2 DEF Go, TypeOK, Arbitrate, deviceVars, serverVars
  <2> QED
    BY <2>3, <2>4, <2>5 DEF ReadTrue
<1>8. \/ UNCHANGED call
      \/ \E c \in Call, d \in Device : Send(c, d)
      \/ \E c \in Call : \/ Go(c, NoCall) \/ Done(c) \/ Look(c)
                         \/ InsertConflicts(c)
                         \/ Arbitrate(c) /\ EntriesOf(ticketOf[call[c].scan]) # {}
  BY Actions DEF vars, ScanTicket, RevokeWrite, RevokeRead, LoadManifest,
     CancelTicket, Answered, Lost, ArbitrateFails, Refuse, InsertReplayed,
     InsertFails, Arbitrate, Insert, ArbitrateWrite
<1> QED
  BY <1>1, <1>2, <1>3, <1>4, <1>5, <1>6, <1>7, <1>8

\* The partial unique index: a ticket has one entry at most.
OneEntry ==
  \A m, n \in Scan :
    Entered(m) /\ Entered(n) /\ ticketOf[m] = ticketOf[n] => m = n

EntryInv == ReadTrue /\ OneEntry /\ OldestEnters /\ CountIsExact

\* What is an entry after the step.
EntersNext(n) == row'[n] = "effective" /\ n \notin revoked'

\* A scan that is inserted is the first entry of its ticket.
LEMMA InsertFacts ==
  ASSUME TypeOK, NEW c \in Call, Insert(c), NEW n, n = call[c].scan
  PROVE  /\ n \in Scan /\ ticketOf[n] \in Ticket
         /\ row[n] = "none" /\ ~Entered(n) /\ EntersNext(n)
         /\ \A m \in Scan : ticketOf[m] = ticketOf[n] => ~Entered(m)
         /\ \A m \in Scan : m # n => row'[m] = row[m] /\ (EntersNext(m) <=> Entered(m))
         /\ status' = [status EXCEPT ![ticketOf[n]] = "USED"]
         /\ count' = count + 1
         /\ UNCHANGED <<ticketOf, revoked, crossed>>
<1>1. /\ row[n] = "none" /\ EntriesOf(ticketOf[n]) = {}
      /\ row' = [row EXCEPT ![n] = "effective"]
      /\ status' = [status EXCEPT ![ticketOf[n]] = "USED"]
      /\ count' = count + 1
      /\ UNCHANGED <<ticketOf, revoked, crossed>>
  BY DEF Insert, deviceVars
<1>2. n \in 1..taken /\ n \in Scan
  BY ScanRange DEF TypeOK, CallShape, Insert
<1>3. ticketOf[n] \in Ticket
  BY <1>2, ScanRange DEF TypeOK
<1>4. n \notin revoked
  BY <1>1 DEF TypeOK
<1>5. ~Entered(n) /\ EntersNext(n)
  BY <1>1, <1>2, <1>4 DEF Entered, EntersNext, TypeOK
<1>6. \A m \in Scan : m # n => row'[m] = row[m] /\ (EntersNext(m) <=> Entered(m))
  BY <1>1, <1>2 DEF Entered, EntersNext, TypeOK
<1>7. \A m \in Scan : ticketOf[m] = ticketOf[n] => ~Entered(m)
  BY <1>1 DEF EntriesOf
<1> QED
  BY <1>1, <1>2, <1>3, <1>5, <1>6, <1>7

\* An arbitration records its scan; if it wins, the entry that was read is
\* one no longer, and there is no other.
LEMMA ArbitrateFacts ==
  ASSUME TypeOK, ReadTrue, NEW c \in Call, ArbitrateWrite(c),
         NEW n, n = call[c].scan, NEW m, m = call[c].current
  PROVE  /\ n \in Scan /\ m \in Scan /\ ticketOf[n] \in Ticket /\ n # m
         /\ ticketOf[m] = ticketOf[n]
         /\ row[n] = "none" /\ row[m] # "none" /\ ~Entered(n)
         /\ row'[n] # "none"
         /\ \A i \in Scan : i # n => (row'[i] # "none" <=> row[i] # "none")
         /\ EntersNext(n) <=> n < m
         /\ EntersNext(m) <=> Entered(m) /\ ~(n < m)
         /\ \A i \in Scan \ {m, n} : EntersNext(i) <=> Entered(i)
         /\ n < m => \A i \in Scan : ticketOf[i] = ticketOf[n] /\ Entered(i) => i = m
         /\ crossed' = (crossed \/ (n < m /\ ~Entered(m)))
         /\ UNCHANGED <<ticketOf, revoked, status, count>>
<1>1. /\ ~Refuted(n, m) /\ row' = Arbitrated(n, m) /\ call[c].pc = "write"
      /\ crossed' = (crossed \/ (n < m /\ ~Entered(m)))
      /\ UNCHANGED <<ticketOf, revoked, status, count>>
  BY DEF ArbitrateWrite, deviceVars, Wins
<1>2. /\ n \in 1..taken /\ n \in Scan /\ m \in Scan
      /\ row[m] # "none" /\ ticketOf[m] = ticketOf[n]
  BY <1>1, ScanRange DEF TypeOK, CallShape, ReadTrue
<1>3. ticketOf[n] \in Ticket
  BY <1>2, ScanRange DEF TypeOK
<1>4. row[n] = "none" /\ n # m /\ n \notin revoked
  BY <1>1, <1>2 DEF Refuted, TypeOK
<1>5. n < m => \A i \in Scan : ticketOf[i] = ticketOf[n] /\ Entered(i) => i = m
  BY <1>1 DEF Refuted, Wins, EntriesOf
<1>6. row' = IF n < m THEN [row EXCEPT ![m] = "loser", ![n] = "effective"]
                      ELSE [row EXCEPT ![n] = "loser"]
  BY <1>1 DEF Arbitrated, Wins
<1>7. CASE n < m
  <2>1. /\ row'[n] = "effective" /\ row'[m] = "loser"
        /\ \A i \in Scan \ {m, n} : row'[i] = row[i]
    BY <1>2, <1>4, <1>6, <1>7 DEF TypeOK
  <2> QED
    BY <1>1, <1>2, <1>3, <1>4, <1>5, <1>7, <2>1 DEF Entered, EntersNext
<1>8. CASE ~(n < m)
  <2>1. /\ row'[n] = "loser"
        /\ \A i \in Scan \ {n} : row'[i] = row[i]
    BY <1>2, <1>4, <1>6, <1>8 DEF TypeOK
  <2> QED
    BY <1>1, <1>2, <1>3, <1>4, <1>5, <1>8, <2>1 DEF Entered, EntersNext
<1> QED
  BY <1>7, <1>8

LEMMA RevokeFacts ==
  ASSUME TypeOK, NEW k \in Manager, RevokeWrite(k), NEW n, n = manager[k].scan
  PROVE  /\ n \in Scan /\ ticketOf[n] \in Ticket /\ row[n] # "none"
         /\ n \in revoked' /\ ~EntersNext(n)
         /\ \A i \in Scan \ {n} : EntersNext(i) <=> Entered(i)
         /\ \A i \in Scan : i # n => (i \in revoked' <=> i \in revoked)
         /\ status' = IF manager[k].effective
                      THEN [status EXCEPT ![ticketOf[n]] = "VALID"] ELSE status
         /\ count' = IF manager[k].effective THEN count - 1 ELSE count
         /\ ~crossed' => ~crossed /\ (manager[k].effective <=> Entered(n))
         /\ UNCHANGED <<ticketOf, row>>
<1>1. /\ n \in Scan /\ row[n] # "none"
      /\ revoked' = revoked \cup {n}
      /\ status' = IF manager[k].effective
                   THEN [status EXCEPT ![ticketOf[n]] = "VALID"] ELSE status
      /\ count' = IF manager[k].effective THEN count - 1 ELSE count
      /\ crossed' = (\/ crossed \/ n \in revoked
                     \/ manager[k].effective # (row[n] = "effective"))
      /\ UNCHANGED <<ticketOf, row>>
  BY DEF RevokeWrite, Undone, deviceVars, TypeOK
<1>2. ticketOf[n] \in Ticket
  BY <1>1, ScanRange DEF TypeOK
<1>3. manager[k].effective \in BOOLEAN
  BY DEF TypeOK
<1>4. ~crossed' => ~crossed /\ (manager[k].effective <=> Entered(n))
  BY <1>1, <1>3 DEF Entered, EntersNext
<1>5. /\ n \in revoked' /\ ~EntersNext(n)
      /\ \A i \in Scan \ {n} : EntersNext(i) <=> Entered(i)
      /\ \A i \in Scan : i # n => (i \in revoked' <=> i \in revoked)
  BY <1>1 DEF Entered, EntersNext
<1> QED
  BY <1>1, <1>2, <1>4, <1>5

\* No other step changes an entry.
LEMMA OtherFacts ==
  ASSUME TypeOK, [Next]_vars
  PROVE  \/ \E c \in Call : Insert(c) \/ ArbitrateWrite(c)
         \/ \E k \in Manager : RevokeWrite(k)
         \/ /\ UNCHANGED <<row, revoked, count, crossed>>
            /\ \A n \in Scan : row[n] # "none" => ticketOf'[n] = ticketOf[n]
            /\ \A n \in Scan : EntersNext(n) <=> Entered(n)
            /\ \A t \in Ticket : status'[t] = "USED" <=> status[t] = "USED"
<1>1. \/ \E c \in Call : Insert(c) \/ ArbitrateWrite(c)
      \/ \E k \in Manager : RevokeWrite(k)
      \/ /\ UNCHANGED <<row, revoked, count, crossed>>
         /\ UNCHANGED status \/ \E t \in Ticket : CancelTicket(t)
  BY Actions DEF vars, serverVars, ScanTicket, Send, Answered, Lost,
     ArbitrateFails, Look, InsertReplayed, InsertFails, InsertConflicts,
     Arbitrate, RevokeRead, LoadManifest, CancelTicket
<1>2. ASSUME NEW t \in Ticket, CancelTicket(t)
      PROVE  \A u \in Ticket : status'[u] = "USED" <=> status[u] = "USED"
  BY <1>2 DEF CancelTicket, TypeOK
<1>3. \A n \in Scan : row[n] # "none" => ticketOf'[n] = ticketOf[n]
  <2>1. \A n \in Scan : row[n] # "none" => n \in 1..taken
    BY ScanRange DEF TypeOK, Scan
  <2> QED
    BY <2>1, RowsGrow
<1>4. UNCHANGED <<row, revoked>> => \A n \in Scan : EntersNext(n) <=> Entered(n)
  BY DEF Entered, EntersNext
<1> QED
  BY <1>1, <1>2, <1>3, <1>4

LEMMA EntersMeansNext == \A n : Entered(n)' <=> EntersNext(n)
BY DEF Entered, EntersNext

LEMMA OneEntryStep ==
  ASSUME TypeOK, ReadTrue, OneEntry, [Next]_vars
  PROVE  OneEntry'
<1> SUFFICES ASSUME NEW i \in Scan, NEW j \in Scan, EntersNext(i), EntersNext(j),
                    ticketOf'[i] = ticketOf'[j]
             PROVE  i = j
  BY DEF OneEntry, Entered, EntersNext
<1>1. ASSUME NEW c \in Call, Insert(c) PROVE i = j
  <2>1. PICK n : n = call[c].scan
    OBVIOUS
  <2> QED
    BY <1>1, <2>1, InsertFacts DEF OneEntry
<1>2. ASSUME NEW c \in Call, ArbitrateWrite(c) PROVE i = j
  <2>1. PICK n, m : n = call[c].scan /\ m = call[c].current
    OBVIOUS
  <2> QED
    BY <1>2, <2>1, ArbitrateFacts DEF OneEntry
<1>3. ASSUME NEW k \in Manager, RevokeWrite(k) PROVE i = j
  <2>1. PICK n : n = manager[k].scan
    OBVIOUS
  <2> QED
    BY <1>3, <2>1, RevokeFacts DEF OneEntry
<1>4. CASE /\ UNCHANGED <<row, revoked>>
           /\ \A n \in Scan : row[n] # "none" => ticketOf'[n] = ticketOf[n]
  BY <1>4 DEF OneEntry, Entered, EntersNext
<1> QED
  BY <1>1, <1>2, <1>3, <1>4, OtherFacts

LEMMA OldestStep ==
  ASSUME TypeOK, ReadTrue, OldestEnters, [Next]_vars
  PROVE  OldestEnters'
<1> DEFINE Next_(t) == {n \in Scan : ticketOf'[n] = t /\ row'[n] # "none"}
<1> SUFFICES ASSUME NEW t \in Ticket, Next_(t) # {}, Next_(t) \cap revoked' = {}
             PROVE  \E n \in Next_(t) : EntersNext(n) /\ \A m \in Next_(t) : n <= m
  BY DEF OldestEnters, RowsOf, Entered, EntersNext
<1>1. ASSUME Next_(t) = RowsOf(t), revoked \subseteq revoked',
             \A n \in RowsOf(t) : EntersNext(n) <=> Entered(n)
      PROVE  \E n \in Next_(t) : EntersNext(n) /\ \A m \in Next_(t) : n <= m
  BY <1>1 DEF OldestEnters
<1>2. ASSUME NEW c \in Call, Insert(c)
      PROVE  \E n \in Next_(t) : EntersNext(n) /\ \A m \in Next_(t) : n <= m
  <2>1. PICK n : n = call[c].scan
    OBVIOUS
  <2>2. CASE ticketOf[n] # t
    <3>1. Next_(t) = RowsOf(t) /\ revoked \subseteq revoked'
      BY <1>2, <2>1, <2>2, InsertFacts DEF RowsOf
    <3>2. \A i \in RowsOf(t) : EntersNext(i) <=> Entered(i)
      BY <1>2, <2>1, <2>2, InsertFacts DEF RowsOf
    <3> QED
      BY <1>1, <3>1, <3>2
  <2>3. CASE ticketOf[n] = t
    <3>1. \A i \in Scan : ticketOf[i] = t => ~Entered(i)
      BY <1>2, <2>1, <2>3, InsertFacts
    <3>2. RowsOf(t) \subseteq Next_(t) /\ revoked' = revoked
      BY <1>2, <2>1, InsertFacts DEF RowsOf
    <3>3. RowsOf(t) = {}
      BY <3>1, <3>2 DEF OldestEnters, RowsOf
    <3>4. Next_(t) = {n} /\ EntersNext(n) /\ n <= n
      BY <1>2, <2>1, <2>3, <3>3, InsertFacts DEF RowsOf, Scan, EntersNext
    <3> QED
      BY <3>4
  <2> QED
    BY <2>2, <2>3
<1>3. ASSUME NEW c \in Call, ArbitrateWrite(c)
      PROVE  \E n \in Next_(t) : EntersNext(n) /\ \A m \in Next_(t) : n <= m
  <2>1. PICK n, m : n = call[c].scan /\ m = call[c].current
    OBVIOUS
  <2>2. CASE ticketOf[n] # t
    <3>1. Next_(t) = RowsOf(t) /\ revoked \subseteq revoked'
      BY <1>3, <2>1, <2>2, ArbitrateFacts DEF RowsOf
    <3>2. \A i \in RowsOf(t) : EntersNext(i) <=> Entered(i)
      BY <1>3, <2>1, <2>2, ArbitrateFacts DEF RowsOf
    <3> QED
      BY <1>1, <3>1, <3>2
  <2>3. CASE ticketOf[n] = t
    <3>1. /\ Next_(t) = RowsOf(t) \cup {n} /\ m \in RowsOf(t)
          /\ revoked' = revoked /\ n \in Scan /\ m \in Scan
      BY <1>3, <2>1, <2>3, ArbitrateFacts DEF RowsOf
    <3>2. PICK o \in RowsOf(t) : Entered(o) /\ \A i \in RowsOf(t) : o <= i
      BY <3>1 DEF OldestEnters
    <3>3. o \in Scan /\ ticketOf[o] = t /\ o # n
      BY <1>3, <2>1, <3>2, ArbitrateFacts DEF RowsOf
    <3>4. CASE n < m
      <4>1. o = m /\ EntersNext(n)
        BY <1>3, <2>1, <2>3, <3>2, <3>3, <3>4, ArbitrateFacts
      <4>2. \A i \in RowsOf(t) : n <= i
        BY <3>1, <3>2, <3>4, <4>1 DEF RowsOf, Scan
      <4>3. n <= n
        BY <3>1 DEF Scan
      <4> QED
        BY <3>1, <4>1, <4>2, <4>3
    <3>5. CASE ~(n < m)
      <4>1. EntersNext(o)
        BY <1>3, <2>1, <3>2, <3>3, <3>5, ArbitrateFacts
      <4>2. o <= n
        BY <3>1, <3>2, <3>3, <3>5 DEF Scan
      <4> QED
        BY <3>1, <3>2, <4>1, <4>2
    <3> QED
      BY <3>4, <3>5
  <2> QED
    BY <2>2, <2>3
<1>4. ASSUME NEW k \in Manager, RevokeWrite(k)
      PROVE  \E n \in Next_(t) : EntersNext(n) /\ \A m \in Next_(t) : n <= m
  <2>1. PICK n : n = manager[k].scan
    OBVIOUS
  <2>2. /\ ticketOf' = ticketOf /\ row' = row /\ n \in revoked'
        /\ \A i \in Scan \ {n} : EntersNext(i) <=> Entered(i)
    BY <1>4, <2>1, RevokeFacts
  <2>3. revoked' = revoked \cup {n}
    BY <1>4, <2>1 DEF RevokeWrite
  <2>4. Next_(t) = RowsOf(t)
    BY <2>2 DEF RowsOf
  <2>5. n \notin RowsOf(t)
    BY <2>2, <2>4
  <2>6. \A i \in RowsOf(t) : EntersNext(i) <=> Entered(i)
    BY <2>2, <2>5 DEF RowsOf
  <2> QED
    BY <1>1, <2>3, <2>4, <2>6
<1>5. CASE /\ UNCHANGED <<row, revoked>>
           /\ \A n \in Scan : row[n] # "none" => ticketOf'[n] = ticketOf[n]
  <2>1. Next_(t) = RowsOf(t) /\ revoked \subseteq revoked'
    BY <1>5 DEF RowsOf
  <2>2. \A i \in RowsOf(t) : EntersNext(i) <=> Entered(i)
    BY <1>5 DEF Entered, EntersNext
  <2> QED
    BY <1>1, <2>1, <2>2
<1> HIDE DEF Next_
<1> QED
  BY <1>2, <1>3, <1>4, <1>5, OtherFacts

Entries == {n \in Scan : Entered(n)}
EntriesNext == {n \in Scan : EntersNext(n)}

LEMMA EntriesFinite == IsFiniteSet(Entries)
<1>1. IsFiniteSet(Scan)
  BY FS_Interval, BoundsAssumption DEF Scan
<1> QED
  BY <1>1, FS_Subset DEF Entries

LEMMA CountInsert ==
  ASSUME TypeOK, count = Cardinality(Entries), NEW c \in Call, Insert(c)
  PROVE  count' = Cardinality(EntriesNext)
<1>1. PICK n : n = call[c].scan
  OBVIOUS
<1>2. EntriesNext = Entries \cup {n} /\ n \notin Entries
  BY <1>1, InsertFacts DEF Entries, EntriesNext
<1>3. Cardinality(EntriesNext) = Cardinality(Entries) + 1
  BY <1>2, EntriesFinite, FS_AddElement
<1> QED
  BY <1>1, <1>3, InsertFacts

LEMMA CountArbitrate ==
  ASSUME TypeOK, ReadTrue, count = Cardinality(Entries), NEW c \in Call,
         ArbitrateWrite(c), ~crossed'
  PROVE  count' = Cardinality(EntriesNext)
<1>1. PICK n, m : n = call[c].scan /\ m = call[c].current
  OBVIOUS
<1>2. CASE n < m
  <2>1. m \in Entries /\ n \notin Entries /\ n # m
    BY <1>1, <1>2, ArbitrateFacts DEF Entries
  <2>2. EntriesNext = (Entries \ {m}) \cup {n}
    BY <1>1, <1>2, <2>1, ArbitrateFacts DEF Entries, EntriesNext
  <2>3. /\ IsFiniteSet(Entries \ {m})
        /\ Cardinality(Entries \ {m}) = Cardinality(Entries) - 1
    BY <2>1, EntriesFinite, FS_RemoveElement
  <2>4. Cardinality(EntriesNext) = Cardinality(Entries \ {m}) + 1
    BY <2>1, <2>2, <2>3, FS_AddElement
  <2>5. Cardinality(Entries) \in Nat
    BY EntriesFinite, FS_CardinalityType
  <2> QED
    BY <1>1, <2>3, <2>4, <2>5, ArbitrateFacts
<1>3. CASE ~(n < m)
  <2>1. EntriesNext = Entries
    BY <1>1, <1>3, ArbitrateFacts DEF Entries, EntriesNext
  <2> QED
    BY <1>1, <2>1, ArbitrateFacts
<1> QED
  BY <1>2, <1>3

LEMMA CountRevoke ==
  ASSUME TypeOK, count = Cardinality(Entries), NEW k \in Manager,
         RevokeWrite(k), ~crossed'
  PROVE  count' = Cardinality(EntriesNext)
<1>1. PICK n : n = manager[k].scan
  OBVIOUS
<1>2. CASE Entered(n)
  <2>1. n \in Entries /\ EntriesNext = Entries \ {n}
    BY <1>1, <1>2, RevokeFacts DEF Entries, EntriesNext
  <2>2. Cardinality(EntriesNext) = Cardinality(Entries) - 1
    BY <2>1, EntriesFinite, FS_RemoveElement
  <2> QED
    BY <1>1, <1>2, <2>2, RevokeFacts
<1>3. CASE ~Entered(n)
  <2>1. EntriesNext = Entries
    BY <1>1, <1>3, RevokeFacts DEF Entries, EntriesNext
  <2> QED
    BY <1>1, <1>3, <2>1, RevokeFacts
<1> QED
  BY <1>2, <1>3

\* A ticket is used exactly when it has an entry.
UsedHasEntry(t) ==
  status[t] = "USED" <=> \E n \in Scan : ticketOf[n] = t /\ Entered(n)
UsedHasEntryNext(t) ==
  status'[t] = "USED" <=> \E n \in Scan : ticketOf'[n] = t /\ EntersNext(n)

LEMMA UsedStep ==
  ASSUME TypeOK, ReadTrue, OneEntry, [Next]_vars, ~crossed', ~crossed,
         NEW t \in Ticket, UsedHasEntry(t)
  PROVE  UsedHasEntryNext(t)
<1>1. ASSUME NEW c \in Call, Insert(c) PROVE UsedHasEntryNext(t)
  <2>1. PICK n : n = call[c].scan
    OBVIOUS
  <2>2. CASE ticketOf[n] = t
    BY <1>1, <2>1, <2>2, InsertFacts DEF UsedHasEntryNext, TypeOK
  <2>3. CASE ticketOf[n] # t
    <3>1. status'[t] = status[t]
      BY <1>1, <2>1, <2>3, InsertFacts DEF TypeOK
    <3> QED
      BY <1>1, <2>1, <2>3, <3>1, InsertFacts DEF UsedHasEntry, UsedHasEntryNext
  <2> QED
    BY <2>2, <2>3
<1>2. ASSUME NEW c \in Call, ArbitrateWrite(c) PROVE UsedHasEntryNext(t)
  <2>1. PICK n, m : n = call[c].scan /\ m = call[c].current
    OBVIOUS
  <2>2. (\E i \in Scan : ticketOf'[i] = t /\ EntersNext(i))
          <=> \E i \in Scan : ticketOf[i] = t /\ Entered(i)
    <3>1. CASE n < m
      <4>1. /\ Entered(m) /\ EntersNext(n) /\ ~Entered(n) /\ ~EntersNext(m)
            /\ n \in Scan /\ m \in Scan /\ ticketOf[m] = ticketOf[n]
            /\ ticketOf' = ticketOf
        BY <1>2, <2>1, <3>1, ArbitrateFacts
      <4>2. \A i \in Scan \ {m, n} : EntersNext(i) <=> Entered(i)
        BY <1>2, <2>1, ArbitrateFacts
      <4> QED
        BY <4>1, <4>2
    <3>2. CASE ~(n < m)
      BY <1>2, <2>1, <3>2, ArbitrateFacts
    <3> QED
      BY <3>1, <3>2
  <2>3. status' = status
    BY <1>2, <2>1, ArbitrateFacts
  <2> QED
    BY <2>2, <2>3 DEF UsedHasEntry, UsedHasEntryNext
<1>3. ASSUME NEW k \in Manager, RevokeWrite(k) PROVE UsedHasEntryNext(t)
  <2>1. PICK n : n = manager[k].scan
    OBVIOUS
  <2>2. CASE Entered(n) /\ ticketOf[n] = t
    <3>1. status'[t] = "VALID"
      BY <1>3, <2>1, <2>2, RevokeFacts DEF TypeOK
    <3>2. \A i \in Scan : ticketOf'[i] = t => ~EntersNext(i)
      BY <1>3, <2>1, <2>2, RevokeFacts DEF OneEntry
    <3> QED
      BY <3>1, <3>2 DEF UsedHasEntryNext
  <2>3. CASE ~(Entered(n) /\ ticketOf[n] = t)
    <3>1. status'[t] = status[t]
      BY <1>3, <2>1, <2>3, RevokeFacts DEF TypeOK
    <3>2. \A i \in Scan : ticketOf[i] = t => (EntersNext(i) <=> Entered(i))
      BY <1>3, <2>1, <2>3, RevokeFacts
    <3>3. ticketOf' = ticketOf
      BY <1>3, <2>1, RevokeFacts
    <3> QED
      BY <3>1, <3>2, <3>3 DEF UsedHasEntry, UsedHasEntryNext
  <2> QED
    BY <2>2, <2>3
<1>4. CASE /\ \A n \in Scan : row[n] # "none" => ticketOf'[n] = ticketOf[n]
           /\ UNCHANGED <<row, revoked>>
           /\ \A u \in Ticket : status'[u] = "USED" <=> status[u] = "USED"
  BY <1>4 DEF UsedHasEntry, UsedHasEntryNext, Entered, EntersNext
<1> QED
  BY <1>1, <1>2, <1>3, <1>4, OtherFacts

LEMMA CountStep ==
  ASSUME TypeOK, ReadTrue, OneEntry, CountIsExact, [Next]_vars
  PROVE  CountIsExact'
<1> SUFFICES ASSUME ~crossed'
             PROVE  /\ count' = Cardinality(EntriesNext)
                    /\ \A t \in Ticket : UsedHasEntryNext(t)
  BY DEF CountIsExact, EntriesOf, EntriesNext, UsedHasEntryNext, Entered, EntersNext
<1>1. ~crossed
  <2>1. ASSUME NEW c \in Call, Insert(c) \/ ArbitrateWrite(c) PROVE ~crossed
    BY <2>1 DEF Insert, ArbitrateWrite
  <2>2. ASSUME NEW k \in Manager, RevokeWrite(k) PROVE ~crossed
    BY <2>2 DEF RevokeWrite
  <2> QED
    BY <2>1, <2>2, OtherFacts
<1>2. /\ count = Cardinality(Entries)
      /\ \A t \in Ticket : UsedHasEntry(t)
  BY <1>1 DEF CountIsExact, Entries, EntriesOf, UsedHasEntry
<1>3. ASSUME UNCHANGED <<row, revoked, count>>
      PROVE  count' = Cardinality(EntriesNext)
  BY <1>2, <1>3 DEF Entries, EntriesNext, Entered, EntersNext
<1>4. count' = Cardinality(EntriesNext)
  BY <1>2, <1>3, CountInsert, CountArbitrate, CountRevoke, OtherFacts
<1>5. \A t \in Ticket : UsedHasEntryNext(t)
  BY <1>1, <1>2, UsedStep
<1> QED
  BY <1>4, <1>5
-----------------------------------------------------------------------------
IInv == /\ TypeOK /\ AnswersTrue /\ WaitsUntilRecorded
        /\ ReadTrue /\ OneEntry /\ OldestEnters /\ CountIsExact

LEMMA IInvInit == Init => IInv
<1> SUFFICES ASSUME Init PROVE IInv
  OBVIOUS
<1>1. \A n \in Scan : ~Entered(n) /\ row[n] = "none"
  BY DEF Init, Entered
<1>2. AnswersTrue /\ ReadTrue
  BY DEF Init, NoCall, AnswersTrue, ReadTrue
<1>3. WaitsUntilRecorded
  BY DEF Init, WaitsUntilRecorded
<1>4. OneEntry /\ OldestEnters
  BY <1>1 DEF OneEntry, OldestEnters, RowsOf
<1>5. CountIsExact
  <2>1. {n \in Scan : Entered(n)} = {}
    BY <1>1
  <2>2. count = Cardinality({n \in Scan : Entered(n)})
    BY <2>1, FS_EmptySet DEF Init
  <2>3. \A t \in Ticket : status[t] # "USED" /\ EntriesOf(t) = {}
    BY <1>1 DEF Init, EntriesOf
  <2> QED
    BY <2>2, <2>3 DEF CountIsExact
<1> QED
  BY <1>2, <1>3, <1>4, <1>5, TypeInit DEF IInv

LEMMA IInvCorrect == Spec => []IInv
<1>1. IInv /\ [Next]_vars => IInv'
  BY TypeStep, AnswersStep, WaitsStep, ReadsStep, OneEntryStep, OldestStep,
     CountStep DEF IInv
<1> QED
  BY IInvInit, <1>1, PTL DEF Spec

\* Until a scan is recorded or refused it waits on its device, whatever
\* answers are lost and however many batches overlap.
THEOREM WaitsCorrect == Spec => []WaitsUntilRecorded
<1>1. IInv => WaitsUntilRecorded
  BY DEF IInv
<1> QED
  BY IInvCorrect, <1>1, PTL

\* A ticket without a revocation is entered by its oldest scan, in whatever
\* order the scans arrive.
THEOREM OldestCorrect == Spec => []OldestEnters
<1>1. IInv => OldestEnters
  BY DEF IInv
<1> QED
  BY IInvCorrect, <1>1, PTL

\* The counter and the used tickets follow the entries, until a revocation
\* and another write cross.
THEOREM CountCorrect == Spec => []CountIsExact
<1>1. IInv => CountIsExact
  BY DEF IInv
<1> QED
  BY IInvCorrect, <1>1, PTL
=============================================================================
