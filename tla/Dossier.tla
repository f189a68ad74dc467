------------------------------ MODULE Dossier ------------------------------
(***************************************************************************)
(* Verification of one organization: the dossier its members submit and    *)
(* complete (modules organizations), the decisions of the moderators and   *)
(* the destruction of personal documents (modules admin).                  *)
(*                                                                         *)
(* A handler is a slot that goes from one await to the next: what it reads *)
(* is kept in the slot, each transaction is a step, and so is each call to *)
(* the storage.  Documents are numbered in the order of their files.       *)
(***************************************************************************)
EXTENDS Integers, FiniteSets

CONSTANTS
  DocumentType,
  Personal,   \* types that say something of a person
  Upload, Reviewer, Submission,  \* requests that may be under way at a time
  MaxDocs,    \* bound on the files
  MaxFaults   \* bound on errors of the storage and interrupted requests

ASSUME DossierAssumption ==
  Personal \subseteq DocumentType /\ MaxDocs \in Nat /\ MaxFaults \in Nat

Doc == 1..MaxDocs
NoDoc == 0
NoType == "no type"

ASSUME NoTypeAssumption == NoType \notin DocumentType

Decision == {"VERIFIED", "REJECTED", "INCOMPLETE"}
Decided == {"VERIFIED", "REJECTED"}

VARIABLES
  status,     \* of the request, "none" before it exists
  asked,      \* requestedDocuments
  org,        \* verificationStatus of the organization
  files,      \* documents whose file is in the storage
  stored,     \* number of files stored so far
  type, row,  \* [Doc -> ...] the rows of verification_document
  since,      \* documents recorded since a moderator last asked for some
  upload, review, submission,  \* local state of each request
  faults,
  dropped,    \* a request stopped between two of its writes
  crossed     \* a decision fell between the two writes of a submission

requestVars == <<status, asked, org>>
docVars == <<files, stored, type, row, since>>
slotVars == <<upload, review, submission>>
faultVars == <<faults, dropped, crossed>>
vars == <<requestVars, docVars, slotVars, faultVars>>

NoUpload == [pc |-> "idle", type |-> NoType, doc |-> NoDoc, previous |-> {}]
NoReview == [pc |-> "idle", purge |-> {}]

Init ==
  /\ status = "none" /\ asked = {} /\ org = "UNVERIFIED"
  /\ files = {} /\ stored = 0 /\ since = {}
  /\ type = [n \in Doc |-> NoType]
  /\ row = [n \in Doc |-> "none"]
  /\ upload = [u \in Upload |-> NoUpload]
  /\ review = [r \in Reviewer |-> NoReview]
  /\ submission = [s \in Submission |-> "idle"]
  /\ faults = 0 /\ dropped = FALSE /\ crossed = FALSE

Present(t) == {n \in Doc : row[n] = "present" /\ type[n] = t}
PresentTypes == {type[n] : n \in {m \in Doc : row[m] = "present"}}
-----------------------------------------------------------------------------
(* submitVerification *)

SubmitRead(s) ==
  /\ submission[s] = "idle"
  /\ status \in {"none", "INCOMPLETE", "REJECTED"}
  /\ submission' = [submission EXCEPT ![s] =
                      IF status = "none" THEN "create" ELSE "update"]
  /\ UNCHANGED <<requestVars, docVars, upload, review, faultVars>>

\* The request is written by id, whatever became of its status; what was
\* asked for is left as it is.
SubmitWrite(s) ==
  /\ \/ submission[s] = "create" /\ status = "none"
     \/ submission[s] = "update"
  /\ status' = "PENDING"
  /\ submission' = [submission EXCEPT ![s] = "organization"]
  /\ UNCHANGED <<asked, org, docVars, upload, review, faultVars>>

\* Another submission created the request first: its organization is unique.
SubmitRefused(s) ==
  /\ submission[s] = "create" /\ status # "none"
  /\ submission' = [submission EXCEPT ![s] = "idle"]
  /\ UNCHANGED <<requestVars, docVars, upload, review, faultVars>>

\* Mutant of SubmitOrganization: only the first submission writes the organization.
OrganizationOnce(s) ==
  /\ submission[s] = "organization"
  /\ org' = IF org = "UNVERIFIED" THEN "PENDING" ELSE org
  /\ submission' = [submission EXCEPT ![s] = "idle"]
  /\ UNCHANGED <<status, asked, docVars, upload, review, faultVars>>

SubmitOrganization(s) ==
  /\ submission[s] = "organization"
  /\ org' = "PENDING"
  /\ submission' = [submission EXCEPT ![s] = "idle"]
  /\ UNCHANGED <<status, asked, docVars, upload, review, faultVars>>
-----------------------------------------------------------------------------
(* addVerificationDocument *)

At(u, pc) == upload' = [upload EXCEPT ![u].pc = pc]

Leave(u) == upload' = [upload EXCEPT ![u] = NoUpload]

\* Mutant of NewFile: a file is named after the rows there are.
NewFileOfRows == 1 + Cardinality({n \in Doc : row[n] # "none"})

NewFile == stored + 1

\* A personal document is taken only when it was asked for.  Its file is stored
\* at once: nobody knows of it until its row is written.
UploadRead(u, t) ==
  LET n == NewFile IN
  /\ upload[u] = NoUpload
  /\ status # "none"
  /\ t \in Personal => t \in asked
  /\ n \in Doc
  /\ stored' = n
  /\ files' = files \cup {n}
  /\ upload' = [upload EXCEPT ![u] =
       [pc |-> "write", type |-> t, doc |-> n, previous |-> Present(t)]]
  /\ UNCHANGED <<requestVars, type, row, since, review, submission, faultVars>>

\* One transaction: the rows it replaces are deleted by id, the new one is
\* created.
UploadWrite(u) ==
  LET n == upload[u].doc
      old == upload[u].previous IN
  /\ upload[u].pc = "write"
  /\ row' = [m \in Doc |-> IF m = n THEN "present"
                           ELSE IF m \in old THEN "deleted" ELSE row[m]]
  /\ type' = [type EXCEPT ![n] = upload[u].type]
  /\ since' = since \cup {n}
  /\ At(u, IF old = {} THEN "missing" ELSE "clean")
  /\ UNCHANGED <<requestVars, files, stored, review, submission, faultVars>>

\* removeQuietly, for every row that was replaced.
UploadClean(u) ==
  /\ upload[u].pc = "clean"
  /\ files' = files \ upload[u].previous
  /\ At(u, "missing")
  /\ UNCHANGED <<requestVars, stored, type, row, since, review, submission,
                 faultVars>>

\* Mutant of Missing: the documents the handler read at its start.
MissingAtStart(u) == asked \ ({upload[u].type} \cup {type[n] : n \in upload[u].previous})

\* closeRequestWhenComplete: what was asked for and is not there.
Missing(u) == asked \ (PresentTypes \cup {upload[u].type})

CloseRead(u) ==
  /\ upload[u].pc = "missing"
  /\ IF Missing(u) = {} THEN At(u, "close") ELSE Leave(u)
  /\ UNCHANGED <<requestVars, docVars, review, submission, faultVars>>

\* Mutant of Reopened: only a dossier that waits for documents is sent back.
ReopenedIncomplete == IF status = "INCOMPLETE" THEN "PENDING" ELSE status

\* Whatever the dossier had become, it is under examination again.
Reopened == "PENDING"

CloseWrite(u) ==
  /\ upload[u].pc = "close"
  /\ status' = Reopened
  /\ asked' = {}
  /\ org' = Reopened
  /\ Leave(u)
  /\ UNCHANGED <<docVars, review, submission, faultVars>>
-----------------------------------------------------------------------------
(* VerificationsService.review *)

ReviewRead(r) ==
  /\ review[r] = NoReview
  /\ status \notin {"none", "VERIFIED"}
  /\ review' = [review EXCEPT ![r].pc = "decide"]
  /\ UNCHANGED <<requestVars, docVars, upload, submission, faultVars>>

\* Documents are asked for by a request for more, and by nothing else.
Askable(d) == IF d = "INCOMPLETE" THEN (SUBSET DocumentType) \ {{}} ELSE {{}}

Destroys(d) == d \in Decided

\* The request and the organization are written by id, in one transaction.
ReviewWrite(r, d, a) ==
  /\ review[r].pc = "decide"
  /\ a \in Askable(d)
  /\ status' = d /\ asked' = a /\ org' = d
  /\ since' = IF d = "INCOMPLETE" THEN {} ELSE since
  /\ crossed' = (crossed \/ \E s \in Submission : submission[s] = "organization")
  /\ review' = [review EXCEPT ![r].pc = IF Destroys(d) THEN "purge" ELSE "idle"]
  /\ UNCHANGED <<files, stored, type, row, upload, submission, faults, dropped>>

ToPurge == {n \in Doc : row[n] = "present" /\ type[n] \in Personal}

PurgeRead(r) ==
  /\ review[r].pc = "purge"
  /\ review' = [review EXCEPT ![r] =
       IF ToPurge = {} THEN NoReview ELSE [pc |-> "remove", purge |-> ToPurge]]
  /\ UNCHANGED <<requestVars, docVars, upload, submission, faultVars>>

PurgeFiles(r) ==
  /\ review[r].pc = "remove"
  /\ files' = files \ review[r].purge
  /\ review' = [review EXCEPT ![r].pc = "mark"]
  /\ UNCHANGED <<requestVars, stored, type, row, since, upload, submission,
                 faultVars>>

\* The rows that are still there are marked as destroyed.
PurgeMark(r) ==
  /\ review[r].pc = "mark"
  /\ row' = [n \in Doc |-> IF n \in review[r].purge /\ row[n] = "present"
                           THEN "purged" ELSE row[n]]
  /\ review' = [review EXCEPT ![r] = NoReview]
  /\ UNCHANGED <<requestVars, files, stored, type, since, upload, submission,
                 faultVars>>
-----------------------------------------------------------------------------
(* What may fail *)

Fault == faults < MaxFaults /\ faults' = faults + 1

\* The storage did not remove a file; the error is only logged.
CleanFails(u) ==
  /\ upload[u].pc = "clean"
  /\ Fault
  /\ At(u, "missing")
  /\ UNCHANGED <<requestVars, docVars, review, submission, dropped, crossed>>

RemoveFails(r) ==
  /\ review[r].pc = "remove"
  /\ Fault
  /\ \E S \in SUBSET review[r].purge : files' = files \ S
  /\ review' = [review EXCEPT ![r].pc = "mark"]
  /\ UNCHANGED <<requestVars, stored, type, row, since, upload, submission,
                 dropped, crossed>>

\* A request stops: the process or the database failed.
UploadStops(u) ==
  /\ upload[u] # NoUpload
  /\ Fault
  /\ Leave(u)
  /\ dropped' = (dropped \/ upload[u].pc \in {"clean", "missing", "close"})
  /\ UNCHANGED <<requestVars, docVars, review, submission, crossed>>

ReviewStops(r) ==
  /\ review[r] # NoReview
  /\ Fault
  /\ review' = [review EXCEPT ![r] = NoReview]
  /\ dropped' = (dropped \/ review[r].pc # "decide")
  /\ UNCHANGED <<requestVars, docVars, upload, submission, crossed>>

SubmissionStops(s) ==
  /\ submission[s] # "idle"
  /\ Fault
  /\ submission' = [submission EXCEPT ![s] = "idle"]
  /\ dropped' = (dropped \/ submission[s] = "organization")
  /\ UNCHANGED <<requestVars, docVars, upload, review, crossed>>
-----------------------------------------------------------------------------
Submitting(s) == SubmitWrite(s) \/ SubmitRefused(s) \/ SubmitOrganization(s)

Uploading(u) ==
  UploadWrite(u) \/ UploadClean(u) \/ CloseRead(u) \/ CloseWrite(u)

Purging(r) == PurgeRead(r) \/ PurgeFiles(r) \/ PurgeMark(r)

Next ==
  \/ \E s \in Submission :
       SubmitRead(s) \/ Submitting(s) \/ SubmissionStops(s)
  \/ \E u \in Upload :
       \/ \E t \in DocumentType : UploadRead(u, t)
       \/ Uploading(u) \/ CleanFails(u) \/ UploadStops(u)
  \/ \E r \in Reviewer :
       \/ ReviewRead(r)
       \/ \E d \in Decision, a \in SUBSET DocumentType : ReviewWrite(r, d, a)
       \/ Purging(r) \/ RemoveFails(r) \/ ReviewStops(r)

Spec == Init /\ [][Next]_vars
-----------------------------------------------------------------------------
UploadType ==
  [pc : {"idle", "write", "clean", "missing", "close"},
   type : DocumentType \cup {NoType}, doc : Doc \cup {NoDoc},
   previous : SUBSET Doc]

\* Rows and requests keep their type, a document under way is not yet a row,
\* and nobody else writes it.
TypeOK ==
  /\ status \in Decision \cup {"none", "PENDING"}
  /\ asked \subseteq DocumentType
  /\ org \in Decision \cup {"UNVERIFIED", "PENDING"}
  /\ stored \in 0..MaxDocs
  /\ files \subseteq 1..stored
  /\ since \subseteq {n \in Doc : row[n] # "none"}
  /\ type \in [Doc -> DocumentType \cup {NoType}]
  /\ row \in [Doc -> {"none", "present", "purged", "deleted"}]
  /\ \A n \in Doc : row[n] # "none" => n <= stored /\ type[n] # NoType
  /\ upload \in [Upload -> UploadType]
  /\ \A u \in Upload :
       /\ upload[u].pc # "idle" =>
            upload[u].type # NoType /\ upload[u].doc \in 1..stored
       /\ upload[u].pc = "write" => row[upload[u].doc] = "none"
       /\ \A n \in upload[u].previous : row[n] # "none"
  /\ review \in [Reviewer -> [pc : {"idle", "decide", "purge", "remove", "mark"},
                              purge : SUBSET Doc]]
  /\ submission \in [Submission -> {"idle", "create", "update", "organization"}]
  /\ faults \in Nat /\ dropped \in BOOLEAN /\ crossed \in BOOLEAN

\* The types that came in since they were asked for.
Given == {type[n] : n \in {m \in since : row[m] = "present"}}

Recorded(u) == upload[u].pc \in {"clean", "missing", "close"}

\* A dossier never keeps waiting for documents that all came in since they
\* were asked for, in whatever order two of them were uploaded
\* (organizations.service.ts:849).
NeverAsleep ==
  ~dropped /\ status = "INCOMPLETE" /\ asked \subseteq Given =>
    \E u \in Upload : Recorded(u)

Purges(r, n) ==
  \/ review[r].pc = "purge"
  \/ review[r].pc \in {"remove", "mark"} /\ n \in review[r].purge

\* The personal documents of a dossier that is decided are being destroyed,
\* unless one came in meanwhile: then the dossier is about to be examined
\* again, and a later decision destroys it (verifications.service.ts:290).
DecidedIsPurged ==
  ~dropped /\ status \in Decided =>
    \A n \in ToPurge :
      \/ \E r \in Reviewer : Purges(r, n)
      \/ \E u \in Upload : Recorded(u) /\ upload[u].doc = n

\* The request and the organization have the same status, unless a decision
\* fell between the two writes of a submission (organizations.service.ts:722).
StatusesAgree ==
  ~dropped /\ ~crossed /\ (\A s \in Submission : submission[s] # "organization")
    => org = IF status = "none" THEN "UNVERIFIED" ELSE status

\* Unless the storage fails or a request stops, a file is that of a document
\* that is there, or of one that a request is writing or removing.
NoStrayFile ==
  faults = 0 => \A n \in files :
    \/ row[n] = "present"
    \/ \E u \in Upload :
         \/ upload[u].pc = "write" /\ upload[u].doc = n
         \/ upload[u].pc = "clean" /\ n \in upload[u].previous

\* An organization that is verified has nothing left to prove
\* (organizations.service.ts:680).
VerifiedStays == [][org = "VERIFIED" => org' = "VERIFIED"]_vars

\* A document is marked as destroyed once its file is (verifications.service.ts:327).
PurgedIsGone == \A n \in Doc : row[n] = "purged" => n \notin files

\* A document that is taken again replaces the one before
\* (organizations.service.ts:809).
OnePerType == \A t \in DocumentType : Cardinality(Present(t)) <= 1
=============================================================================
