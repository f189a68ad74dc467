------------------------------ MODULE CheckIn ------------------------------
(***************************************************************************)
(* Entrances of one event: the offline scanners (apps/web/lib/scan), the   *)
(* synchronisation of their queues, and what the API records (modules      *)
(* checkin).                                                               *)
(*                                                                         *)
(* A scan is numbered by the corrected clock of the device that made it:   *)
(* the number is both its nonce and its scannedAt, and two scans are never *)
(* at the same instant.  The API treats the scans of a batch one by one,   *)
(* oldest first; each transaction is a step, and what is read outside a    *)
(* transaction, or inside it without a lock, is a step of its own.         *)
(* Signatures are taken as valid: every ticket here is authentic and of    *)
(* this event.  A batch holds fifty scans, more than a device has here.    *)
(***************************************************************************)
EXTENDS Integers, FiniteSets

CONSTANTS
  Ticket, Device,
  Searcher,   \* devices whose holder admits from the list, used or not
  Call,       \* batches that may be under way at the same time
  Manager,    \* concurrent revocations
  MaxScans,   \* bound on the scans
  MaxFaults   \* bound on lost answers and errors of the database

ASSUME BoundsAssumption ==
  Searcher \subseteq Device /\ MaxScans \in Nat /\ MaxFaults \in Nat

Scan == 1..MaxScans
NoScan == 0
NoTicket == "no ticket"
NoDevice == "no device"

ASSUME NoneAssumption == NoTicket \notin Ticket /\ NoDevice \notin Device

RowState == {"none", "effective", "loser"}

VARIABLES
  taken,      \* number of scans so far
  ticketOf, deviceOf,  \* [Scan -> ...]: what each scan read, and where
  carnet,     \* each device's copy of the manifest
  queue,      \* scans that wait on each device
  call,       \* local state of each batch
  row,        \* the check-in of each scan
  revoked,    \* check-ins that were revoked
  status,     \* status of each ticket
  count,      \* checkedInCount of the event
  refused,    \* scans that were answered "rejected"
  manager,    \* what each revocation read
  crossed,    \* a revocation and another write used a stale reading
  faults      \* lost answers and errors so far

deviceVars == <<taken, ticketOf, deviceOf, carnet>>
serverVars == <<row, revoked, status, count>>
vars == <<deviceVars, queue, call, serverVars, refused, manager, crossed,
          faults>>

NoCall == [pc |-> "idle", device |-> NoDevice, todo |-> {}, scan |-> NoScan,
           current |-> NoScan, done |-> {}]
NoRevocation == [scan |-> NoScan, effective |-> FALSE]

Init ==
  /\ taken = 0
  /\ ticketOf = [n \in Scan |-> NoTicket]
  /\ deviceOf = [n \in Scan |-> NoDevice]
  /\ carnet = [d \in Device |-> [t \in Ticket |-> "v"]]
  /\ queue = [d \in Device |-> {}]
  /\ call = [c \in Call |-> NoCall]
  /\ row = [n \in Scan |-> "none"]
  /\ revoked = {}
  /\ status = [t \in Ticket |-> "VALID"]
  /\ count = 0
  /\ refused = {}
  /\ manager = [m \in Manager |-> NoRevocation]
  /\ crossed = FALSE
  /\ faults = 0

Go(c, s) == call' = [call EXCEPT ![c] = s]
-----------------------------------------------------------------------------
(* The scanner *)

\* isLocallyScanned: only the scans that still wait are known.
LocallyScanned(d, t) == \E n \in queue[d] : ticketOf[n] = t

Admitted(d, t) ==
  /\ ~LocallyScanned(d, t)
  /\ carnet[d][t] = "v" \/ (d \in Searcher /\ carnet[d][t] = "u")

\* A ticket is admitted at the door, with the network or without.
ScanTicket(d, t) ==
  LET n == taken + 1 IN
  /\ n \in Scan
  /\ Admitted(d, t)
  /\ taken' = n
  /\ ticketOf' = [ticketOf EXCEPT ![n] = t]
  /\ deviceOf' = [deviceOf EXCEPT ![n] = d]
  /\ queue' = [queue EXCEPT ![d] = @ \cup {n}]
  /\ UNCHANGED <<carnet, call, serverVars, refused, manager, crossed, faults>>

Entered(n) == row[n] = "effective" /\ n \notin revoked
EntriesOf(t) == {n \in Scan : ticketOf[n] = t /\ Entered(n)}

\* Mutant of Listed: the status is sent as the database has it.
ListedRaw(t) == status[t]

\* The letter a ticket has in the manifest.
Listed(t) ==
  CASE status[t] = "CANCELLED" -> "x"
    [] status[t] # "CANCELLED" /\ (status[t] = "USED" \/ EntriesOf(t) # {}) -> "u"
    [] OTHER -> "v"

\* The manifest is downloaded again from the list of events.
LoadManifest(d) ==
  /\ carnet' = [carnet EXCEPT ![d] = [t \in Ticket |-> Listed(t)]]
  /\ carnet'[d] # carnet[d]
  /\ UNCHANGED <<taken, ticketOf, deviceOf, queue, call, serverVars, refused,
                 manager, crossed, faults>>

\* syncOnce: the timer, the return of the network and each scan may all start
\* one, whatever is already on its way.
Send(c, d) ==
  /\ call[c] = NoCall
  /\ queue[d] # {}
  /\ Go(c, [NoCall EXCEPT !.pc = "next", !.device = d, !.todo = queue[d]])
  /\ UNCHANGED <<deviceVars, queue, serverVars, refused, manager, crossed,
                 faults>>

\* Mutant of Purged: an answer empties the queue.
PurgedWhole(d, c) == {}

\* Mutant of Purged: only the scans that were recorded leave the queue.
PurgedRecorded(d, c) == queue[d] \ {n \in call[c].done : row[n] # "none"}

\* settleScans: only what the answer names leaves the queue.
Purged(d, c) == queue[d] \ call[c].done

Answered(c) ==
  LET d == call[c].device IN
  /\ call[c].pc = "next" /\ call[c].todo = {}
  /\ queue' = [queue EXCEPT ![d] = Purged(d, c)]
  /\ Go(c, NoCall)
  /\ UNCHANGED <<deviceVars, serverVars, refused, manager, crossed, faults>>

\* The network or the API fails: the queue stays as it is.
Lost(c) ==
  /\ call[c] # NoCall
  /\ faults < MaxFaults
  /\ faults' = faults + 1
  /\ Go(c, NoCall)
  /\ UNCHANGED <<deviceVars, queue, serverVars, refused, manager, crossed>>
-----------------------------------------------------------------------------
(* The API: applyScan *)

\* The scan is answered, and the next one of the batch is taken up.
Finished(c) == [call[c] EXCEPT !.pc = "next", !.scan = NoScan,
                  !.current = NoScan, !.done = @ \cup {call[c].scan}]

Done(c) == Go(c, Finished(c))

Refuse(c) == Done(c) /\ refused' = refused \cup {call[c].scan}

\* The oldest scans of a batch.
First(S) == {n \in S : \A m \in S : n <= m}

Skipped(c, n) == [call[c] EXCEPT !.todo = @ \ {n}, !.done = @ \cup {n}]
Taken(c, n) == [call[c] EXCEPT !.pc = "insert", !.todo = @ \ {n}, !.scan = n]

\* The nonce and the ticket are read before the transaction.
Look(c) ==
  /\ call[c].pc = "next"
  /\ \E n \in First(call[c].todo) :
       \/ /\ row[n] # "none"
          /\ Go(c, Skipped(c, n))
          /\ UNCHANGED refused
       \/ /\ row[n] = "none" /\ status[ticketOf[n]] = "CANCELLED"
          /\ Go(c, Skipped(c, n))
          /\ refused' = refused \cup {n}
       \/ /\ row[n] = "none" /\ status[ticketOf[n]] # "CANCELLED"
          /\ Go(c, Taken(c, n))
          /\ UNCHANGED refused
  /\ UNCHANGED <<deviceVars, queue, serverVars, manager, crossed, faults>>

\* The entry, the ticket by id and the counter, in one transaction.
Insert(c) ==
  LET n == call[c].scan
      t == ticketOf[n] IN
  /\ call[c].pc = "insert"
  /\ row[n] = "none" /\ EntriesOf(t) = {}
  /\ row' = [row EXCEPT ![n] = "effective"]
  /\ status' = [status EXCEPT ![t] = "USED"]
  /\ count' = count + 1
  /\ Done(c)
  /\ UNCHANGED <<deviceVars, queue, revoked, refused, manager, crossed, faults>>

\* The nonce is taken, by the same batch on another call: any error but the
\* one of the partial index is answered "rejected".
InsertReplayed(c) ==
  /\ call[c].pc = "insert"
  /\ row[call[c].scan] # "none"
  /\ Refuse(c)
  /\ UNCHANGED <<deviceVars, queue, serverVars, manager, crossed, faults>>

InsertFails(c) ==
  /\ call[c].pc = "insert"
  /\ faults < MaxFaults
  /\ faults' = faults + 1
  /\ Refuse(c)
  /\ UNCHANGED <<deviceVars, queue, serverVars, manager, crossed>>

\* The partial unique index has spoken.
InsertConflicts(c) ==
  /\ call[c].pc = "insert"
  /\ row[call[c].scan] = "none"
  /\ EntriesOf(ticketOf[call[c].scan]) # {}
  /\ Go(c, [call[c] EXCEPT !.pc = "arbitrate"])
  /\ UNCHANGED <<deviceVars, queue, serverVars, refused, manager, crossed,
                 faults>>
-----------------------------------------------------------------------------
(* The API: resolveConflict *)

\* The current entry is read without a lock; it may have been revoked.
Arbitrate(c) ==
  LET entries == EntriesOf(ticketOf[call[c].scan]) IN
  /\ call[c].pc = "arbitrate"
  /\ IF entries = {} THEN Refuse(c)
     ELSE /\ \E m \in entries :
               Go(c, [call[c] EXCEPT !.pc = "write", !.current = m])
          /\ UNCHANGED refused
  /\ UNCHANGED <<deviceVars, queue, serverVars, manager, crossed, faults>>

\* Mutant of Wins: the last scan to arrive takes the place.
WinsLatest(n, m) == n > m

\* The oldest time of the devices' clocks wins.
Wins(n, m) == n < m

\* What the transaction leaves of the rows.
Arbitrated(n, m) ==
  IF Wins(n, m) THEN [row EXCEPT ![m] = "loser", ![n] = "effective"]
                ELSE [row EXCEPT ![n] = "loser"]

\* Either unique index refuses it when another call went first.
Refuted(n, m) ==
  \/ row[n] # "none"
  \/ Wins(n, m) /\ EntriesOf(ticketOf[n]) \ {m} # {}

ArbitrateWrite(c) ==
  LET n == call[c].scan
      m == call[c].current IN
  /\ call[c].pc = "write"
  /\ ~Refuted(n, m)
  /\ row' = Arbitrated(n, m)
  /\ crossed' = (crossed \/ (Wins(n, m) /\ ~Entered(m)))
  /\ Done(c)
  /\ UNCHANGED <<deviceVars, queue, revoked, status, count, refused, manager,
                 faults>>

\* The refusal escapes applyScan: the whole batch fails, and is sent again.
ArbitrateFails(c) ==
  /\ call[c].pc = "write"
  /\ Refuted(call[c].scan, call[c].current)
  /\ Go(c, NoCall)
  /\ UNCHANGED <<deviceVars, queue, serverVars, refused, manager, crossed,
                 faults>>
-----------------------------------------------------------------------------
(* Revocation and cancellation *)

\* revoke() reads the entry before its transaction.
RevokeRead(k, n) ==
  /\ manager[k] = NoRevocation
  /\ row[n] # "none" /\ n \notin revoked
  /\ manager' = [manager EXCEPT ![k] =
                   [scan |-> n, effective |-> row[n] = "effective"]]
  /\ UNCHANGED <<deviceVars, queue, call, serverVars, refused, crossed, faults>>

\* Mutant of Undone: the entry is revoked and the counter forgotten.
UndoneUncounted(effective) == count

\* The counter once a revocation is written; a demoted entry counts for none.
Undone(effective) == IF effective THEN count - 1 ELSE count

\* An entry that was effective gives its ticket back.
RevokeWrite(k) ==
  LET r == manager[k]
      t == ticketOf[r.scan] IN
  /\ r # NoRevocation
  /\ revoked' = revoked \cup {r.scan}
  /\ status' = IF r.effective THEN [status EXCEPT ![t] = "VALID"] ELSE status
  /\ count' = Undone(r.effective)
  /\ crossed' = (\/ crossed
                 \/ r.scan \in revoked
                 \/ r.effective # (row[r.scan] = "effective"))
  /\ manager' = [manager EXCEPT ![k] = NoRevocation]
  /\ UNCHANGED <<deviceVars, queue, call, row, refused, faults>>

\* The order is refunded or the event cancelled.
CancelTicket(t) ==
  /\ status[t] = "VALID"
  /\ status' = [status EXCEPT ![t] = "CANCELLED"]
  /\ UNCHANGED <<deviceVars, queue, call, row, revoked, count, refused, manager,
                 crossed, faults>>
-----------------------------------------------------------------------------
Serve(c) ==
  \/ Look(c)
  \/ Insert(c) \/ InsertReplayed(c) \/ InsertConflicts(c)
  \/ Arbitrate(c) \/ ArbitrateWrite(c) \/ ArbitrateFails(c)
  \/ Answered(c)

Sync(d) == \E c \in Call : Send(c, d)

Next ==
  \/ \E d \in Device, t \in Ticket : ScanTicket(d, t)
  \/ \E d \in Device : LoadManifest(d) \/ Sync(d)
  \/ \E c \in Call : Serve(c) \/ InsertFails(c) \/ Lost(c)
  \/ \E k \in Manager : RevokeWrite(k) \/ \E n \in Scan : RevokeRead(k, n)
  \/ \E t \in Ticket : CancelTicket(t)

Spec == Init /\ [][Next]_vars

\* Every device tries again every twenty seconds, and the API answers.
Fairness ==
  /\ \A c \in Call : WF_vars(Serve(c))
  /\ \A d \in Device : SF_vars(Sync(d))

FairSpec == Spec /\ Fairness
-----------------------------------------------------------------------------
CallType ==
  [pc : {"idle", "next", "insert", "arbitrate", "write"},
   device : Device \cup {NoDevice}, todo : SUBSET Scan,
   scan : Scan \cup {NoScan}, current : Scan \cup {NoScan},
   done : SUBSET Scan]

CallShape(s, last) ==
  /\ s.todo \cup s.done \subseteq 1..last
  /\ s.pc # "idle" => s.device \in Device
  /\ s.pc \in {"insert", "arbitrate", "write"} => s.scan \in 1..last
  /\ s.pc = "write" => s.current \in 1..last

\* Rows and calls keep their type, a row has the ticket of its scan, and a
\* call at work knows its scan and, once it arbitrates, the entry it read.
TypeOK ==
  /\ taken \in 0..MaxScans
  /\ ticketOf \in [Scan -> Ticket \cup {NoTicket}]
  /\ deviceOf \in [Scan -> Device \cup {NoDevice}]
  /\ \A n \in Scan : n <= taken => ticketOf[n] # NoTicket /\ deviceOf[n] # NoDevice
  /\ carnet \in [Device -> [Ticket -> {"v", "u", "x"}]]
  /\ queue \in [Device -> SUBSET (1..taken)]
  /\ call \in [Call -> CallType] /\ \A c \in Call : CallShape(call[c], taken)
  /\ row \in [Scan -> RowState]
  /\ \A n \in Scan : row[n] # "none" => n <= taken
  /\ revoked \subseteq {n \in Scan : row[n] # "none"}
  /\ status \in [Ticket -> {"VALID", "USED", "CANCELLED"}]
  /\ count \in Int
  /\ refused \subseteq 1..taken
  /\ manager \in [Manager -> [scan : Scan \cup {NoScan}, effective : BOOLEAN]]
  /\ \A k \in Manager : manager[k] # NoRevocation =>
       manager[k].scan \in Scan /\ row[manager[k].scan] # "none"
  /\ crossed \in BOOLEAN
  /\ faults \in Nat

RowsOf(t) == {n \in Scan : ticketOf[n] = t /\ row[n] # "none"}

\* Whatever the order in which the devices find the network again, a ticket
\* whose entries were never revoked is entered by its oldest scan.
OldestEnters ==
  \A t \in Ticket : RowsOf(t) # {} /\ RowsOf(t) \cap revoked = {} =>
    \E n \in RowsOf(t) : Entered(n) /\ \A m \in RowsOf(t) : n <= m

\* The counter of the event is the number of its entries, and a ticket is used
\* exactly when one of them is its own, unless a revocation wrote from a
\* reading that another write had made stale.
CountIsExact ==
  ~crossed =>
    /\ count = Cardinality({n \in Scan : Entered(n)})
    /\ \A t \in Ticket : status[t] = "USED" <=> EntriesOf(t) # {}

\* Until a scan is recorded or refused, it waits on its device, whatever
\* answers are lost.
WaitsUntilRecorded ==
  \A n \in 1..taken :
    n \in queue[deviceOf[n]] \/ row[n] # "none" \/ n \in refused

\* A device that tries again ends up with an empty queue.
QueueIsDrained ==
  \A n \in Scan : n <= taken ~> n <= taken /\ n \notin queue[deviceOf[n]]

\* Two scans of a ticket on one device do not both pass
\* (scanner.tsx:408, contracts/checkin.ts:214).
SameDeviceOnce ==
  \A m, n \in 1..taken :
    m # n /\ deviceOf[m] = deviceOf[n] /\ deviceOf[m] \notin Searcher
      => ticketOf[m] # ticketOf[n]

\* A scan of a ticket that was not cancelled is never lost (db.ts:14).
EntranceIsRecorded ==
  \A n \in 1..taken : n \notin queue[deviceOf[n]] =>
    row[n] # "none" \/ status[ticketOf[n]] = "CANCELLED"

\* A ticket with an effective entry is used (checkin.service.ts:700).
EnteredIsUsed == \A t \in Ticket : EntriesOf(t) # {} => status[t] = "USED"

\* A cancelled ticket stays cancelled (DATABASE_PROPOSAL.md 11.4).
CancelledStays ==
  [][\A t \in Ticket : status[t] = "CANCELLED" => status'[t] = "CANCELLED"]_vars
=============================================================================
