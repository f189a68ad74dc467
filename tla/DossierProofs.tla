---------------------------- MODULE DossierProofs ----------------------------
(***************************************************************************)
(* Whatever crosses, a dossier does not sleep once it is complete, and the *)
(* personal documents of a decided one are being destroyed: the handlers   *)
(* read the rows again after they have written theirs, and a decided       *)
(* dossier asks for nothing (AsksNothing), so that whatever comes in       *)
(* reopens it.                                                             *)
(***************************************************************************)
EXTENDS Dossier, TLAPS

\* A file is written by one request, and only rows that exist are destroyed.
Known ==
  /\ \A u, v \in Upload :
       u # v /\ upload[u].pc # "idle" /\ upload[v].pc # "idle"
         => upload[u].doc # upload[v].doc
  /\ \A r \in Reviewer : \A n \in review[r].purge : row[n] # "none"

TypeInv == TypeOK /\ Known

AsksNothing == status \in Decided => asked = {}

Submitted ==
  ~crossed => \A s \in Submission : submission[s] = "organization" => status = "PENDING"

\* What a moderator is about to mark has left the storage.
Removed ==
  faults = 0 => \A r \in Reviewer : review[r].pc = "mark" => review[r].purge \cap files = {}

\* A step of one of the requests.
SubmissionStep(s) ==
  SubmitRead(s) \/ SubmitWrite(s) \/ SubmitRefused(s) \/ SubmitOrganization(s)
    \/ SubmissionStops(s)

UploadStep(u) ==
  \/ \E t \in DocumentType : UploadRead(u, t)
  \/ UploadWrite(u) \/ UploadClean(u) \/ CloseRead(u) \/ CloseWrite(u)
  \/ CleanFails(u) \/ UploadStops(u)

ReviewStep(r) ==
  \/ ReviewRead(r)
  \/ \E d \in Decision, a \in SUBSET DocumentType : ReviewWrite(r, d, a)
  \/ PurgeRead(r) \/ PurgeFiles(r) \/ PurgeMark(r) \/ RemoveFails(r) \/ ReviewStops(r)

LEMMA Steps ==
  ASSUME Next
  PROVE  \/ \E s \in Submission : SubmissionStep(s)
         \/ \E u \in Upload : UploadStep(u)
         \/ \E r \in Reviewer : ReviewStep(r)
BY Zenon DEF Next, Submitting, Uploading, Purging, SubmissionStep, UploadStep, ReviewStep

LEMMA DocFacts == Doc \subseteq Nat \ {0} /\ NoDoc \notin Doc /\ NoType \notin DocumentType
BY DossierAssumption, NoTypeAssumption DEF Doc, NoDoc
-----------------------------------------------------------------------------
(* Types *)

LEMMA TypeInit == Init => TypeInv
<1> SUFFICES ASSUME Init
             PROVE  TypeInv
  OBVIOUS
<1>1. /\ NoUpload \in UploadType
      /\ NoUpload.pc = "idle" /\ NoUpload.previous = {}
  BY DEF NoUpload, UploadType
<1>2. /\ NoReview \in [pc : {"idle", "decide", "purge", "remove", "mark"}, purge : SUBSET Doc]
      /\ NoReview.purge = {}
  BY DEF NoReview
<1>3. /\ upload \in [Upload -> UploadType] /\ \A u \in Upload : upload[u] = NoUpload
      /\ \A r \in Reviewer : review[r] = NoReview
  BY <1>1 DEF Init
<1>4. stored \in 0..MaxDocs /\ files \subseteq 1..stored
  BY DossierAssumption DEF Init
<1>5. Known
  BY <1>1, <1>2, <1>3 DEF Known
<1>6. /\ review \in [Reviewer -> [pc : {"idle", "decide", "purge", "remove", "mark"},
                                  purge : SUBSET Doc]]
      /\ row \in [Doc -> {"none", "present", "purged", "deleted"}]
      /\ \A n \in Doc : row[n] = "none"
  BY <1>2 DEF Init
<1>7. TypeOK
  BY <1>1, <1>3, <1>4, <1>6 DEF TypeOK, Init
<1> QED
  BY <1>5, <1>7 DEF TypeInv

LEMMA SubmissionType ==
  ASSUME TypeInv, NEW s \in Submission, SubmissionStep(s)
  PROVE  TypeInv'
<1> USE DEF TypeInv, TypeOK, Known
<1>1. CASE SubmitRead(s)
  BY <1>1 DEF SubmitRead, requestVars, docVars, faultVars
<1>2. CASE SubmitWrite(s)
  BY <1>2 DEF SubmitWrite, docVars, faultVars
<1>3. CASE SubmitRefused(s)
  BY <1>3 DEF SubmitRefused, requestVars, docVars, faultVars
<1>4. CASE SubmitOrganization(s)
  BY <1>4 DEF SubmitOrganization, docVars, faultVars
<1>5. CASE SubmissionStops(s)
  BY <1>5 DEF SubmissionStops, Fault, requestVars, docVars
<1> QED
  BY <1>1, <1>2, <1>3, <1>4, <1>5 DEF SubmissionStep

LEMMA UploadReadType ==
  ASSUME TypeInv, NEW u \in Upload, NEW t \in DocumentType, UploadRead(u, t)
  PROVE  TypeInv'
<1> DEFINE n == stored + 1
           taken == [pc |-> "write", type |-> t, doc |-> n, previous |-> Present(t)]
<1>1. /\ n \in Doc /\ stored' = n /\ files' = files \cup {n}
      /\ upload' = [upload EXCEPT ![u] = taken]
      /\ UNCHANGED <<requestVars, type, row, since, review, submission, faultVars>>
  BY DEF UploadRead, NewFile
<1>2. /\ n \in 1..MaxDocs /\ stored \in Nat /\ stored < n
      /\ files' \subseteq 1..n
  BY <1>1, DossierAssumption DEF Doc, TypeInv, TypeOK
<1>3. taken \in UploadType /\ t # NoType
  BY <1>1, NoTypeAssumption DEF UploadType, Present
<1>4. row[n] = "none"
  BY <1>1, <1>2 DEF TypeInv, TypeOK
<1>5. \A m \in Present(t) : row[m] # "none"
  BY DEF Present
<1>6. \A v \in Upload : v # u /\ upload[v].pc # "idle" => upload[v].doc # n
  BY <1>2 DEF TypeInv, TypeOK
<1>7. upload' \in [Upload -> UploadType] /\ upload'[u] = taken
  BY <1>1, <1>3 DEF TypeInv, TypeOK
<1>8. \A v \in Upload : v # u => upload'[v] = upload[v]
  BY <1>1 DEF TypeInv, TypeOK
<1> HIDE DEF n
<1>9. TypeOK'
  BY <1>1, <1>2, <1>3, <1>4, <1>5, <1>7, <1>8 DEF TypeInv, TypeOK, requestVars, faultVars, Doc
<1>10. Known'
  BY <1>1, <1>6, <1>7, <1>8 DEF TypeInv, Known, faultVars
<1> QED
  BY <1>9, <1>10 DEF TypeInv

LEMMA UploadWriteType ==
  ASSUME TypeInv, NEW u \in Upload, UploadWrite(u)
  PROVE  TypeInv'
<1> DEFINE n == upload[u].doc
<1>1. /\ n \in Doc /\ n <= stored /\ upload[u].type \in DocumentType
      /\ upload[u].type # NoType /\ row[n] = "none"
      /\ upload[u].previous \subseteq Doc /\ n = upload[u].doc
  BY DossierAssumption DEF UploadWrite, TypeInv, TypeOK, UploadType, Doc
<1>2. \A v \in Upload : v # u /\ upload[v].pc # "idle" => upload[v].doc # n
  BY DEF UploadWrite, TypeInv, Known
<1>3. /\ row' \in [Doc -> {"none", "present", "purged", "deleted"}]
      /\ row'[n] = "present"
      /\ \A m \in Doc : m # n => (row'[m] = "none" <=> row[m] = "none")
  <2>1. row' = [m \in Doc |-> IF m = n THEN "present"
                              ELSE IF m \in upload[u].previous THEN "deleted" ELSE row[m]]
    BY DEF UploadWrite
  <2>2. \A m \in upload[u].previous : row[m] # "none"
    BY DEF TypeInv, TypeOK
  <2> QED
    BY <1>1, <2>1, <2>2 DEF TypeInv, TypeOK
<1>4. \E pc \in {"missing", "clean"} : upload' = [upload EXCEPT ![u].pc = pc]
  BY DEF UploadWrite, At
<1>5. /\ type' = [type EXCEPT ![n] = upload[u].type] /\ since' = since \cup {n}
      /\ UNCHANGED <<requestVars, files, stored, review, submission, faultVars>>
  BY DEF UploadWrite
<1>6. /\ upload' \in [Upload -> UploadType]
      /\ upload'[u].pc \in {"missing", "clean"}
      /\ \A v \in Upload : /\ upload'[v].doc = upload[v].doc
                           /\ upload'[v].type = upload[v].type
                           /\ upload'[v].previous = upload[v].previous
                           /\ v # u => upload'[v].pc = upload[v].pc
  BY <1>4 DEF TypeInv, TypeOK, UploadType
<1>7. upload[u].pc = "write"
  BY DEF UploadWrite
<1> HIDE DEF n
<1>8. TypeOK'
  <2>1. upload' \in [Upload -> UploadType]
    BY <1>6
  <2>2. \A m \in Doc : row'[m] # "none" => m <= stored' /\ type'[m] # NoType
    BY <1>1, <1>3, <1>5 DEF TypeInv, TypeOK
  <2>3. \A v \in Upload :
          /\ upload'[v].pc # "idle" =>
               upload'[v].type # NoType /\ upload'[v].doc \in 1..stored'
          /\ upload'[v].pc = "write" => row'[upload'[v].doc] = "none"
    <3> SUFFICES ASSUME NEW v \in Upload, upload'[v].pc # "idle"
                 PROVE  /\ upload'[v].type # NoType /\ upload'[v].doc \in 1..stored'
                        /\ upload'[v].pc = "write" => row'[upload'[v].doc] = "none"
      OBVIOUS
    <3>1. upload[v].pc # "idle"
      BY <1>6, <1>7
    <3>2. /\ upload'[v].type # NoType /\ upload'[v].doc \in 1..stored'
          /\ upload[v].doc \in Doc
      BY <1>5, <1>6, <3>1, DossierAssumption DEF TypeInv, TypeOK, Doc
    <3>3. ASSUME upload'[v].pc = "write" PROVE row'[upload'[v].doc] = "none"
      BY <1>2, <1>3, <1>6, <3>1, <3>2, <3>3 DEF TypeInv, TypeOK
    <3> QED
      BY <3>2, <3>3
  <2>4. \A v \in Upload : \A m \in upload'[v].previous : row'[m] # "none"
    BY <1>3, <1>6 DEF TypeInv, TypeOK, UploadType
  <2>5. since' \subseteq {m \in Doc : row'[m] # "none"}
    <3>1. \A m \in since : m \in Doc /\ row[m] # "none"
      BY DEF TypeInv, TypeOK
    <3> QED
      BY <1>1, <1>3, <1>5, <3>1
  <2>6. type' \in [Doc -> DocumentType \cup {NoType}]
    BY <1>1, <1>5 DEF TypeInv, TypeOK
  <2> QED
    BY <1>1, <1>3, <1>5, <2>1, <2>2, <2>3, <2>4, <2>5, <2>6 DEF TypeInv, TypeOK, requestVars, faultVars
<1>9. Known'
  BY <1>3, <1>5, <1>6, <1>7 DEF TypeInv, TypeOK, Known
<1> QED
  BY <1>8, <1>9 DEF TypeInv

\* An upload goes on, or leaves, without a new row or a new file.
Settles(u) ==
  \/ \E pc \in {"missing", "close"} : At(u, pc) /\ upload[u].pc \in {"clean", "missing"}
  \/ Leave(u)

LEMMA SettlesFacts ==
  ASSUME TypeInv, NEW u \in Upload, Settles(u)
  PROVE  /\ upload' \in [Upload -> UploadType]
         /\ \A v \in Upload : v # u => upload'[v] = upload[v]
         /\ upload'[u] = NoUpload \/ ( /\ upload'[u].pc \in {"missing", "close"}
                                       /\ upload[u].pc \in {"clean", "missing"}
                                       /\ upload'[u].doc = upload[u].doc
                                       /\ upload'[u].type = upload[u].type
                                       /\ upload'[u].previous = upload[u].previous )
<1>1. NoUpload \in UploadType
  BY DEF NoUpload, UploadType
<1>2. ASSUME NEW pc \in {"missing", "close"}, At(u, pc), upload[u].pc \in {"clean", "missing"}
      PROVE  /\ upload' \in [Upload -> UploadType]
             /\ \A v \in Upload : v # u => upload'[v] = upload[v]
             /\ upload'[u].pc = pc /\ upload'[u].doc = upload[u].doc
             /\ upload'[u].type = upload[u].type
             /\ upload'[u].previous = upload[u].previous
  BY <1>2 DEF At, TypeInv, TypeOK, UploadType
<1>3. CASE Leave(u)
  BY <1>1, <1>3 DEF Leave, TypeInv, TypeOK
<1> QED
  BY <1>2, <1>3 DEF Settles

LEMMA SettlesType ==
  ASSUME TypeInv, NEW u \in Upload, Settles(u), files' \subseteq files,
         status' \in Decision \cup {"none", "PENDING"}, asked' \subseteq DocumentType,
         org' \in Decision \cup {"UNVERIFIED", "PENDING"},
         faults' \in Nat, dropped' \in BOOLEAN,
         UNCHANGED <<stored, type, row, since, review, submission, crossed>>
  PROVE  TypeInv'
<1>1. NoUpload.pc = "idle" /\ NoUpload.previous = {}
  BY DEF NoUpload
<1>2. TypeOK'
  BY <1>1, SettlesFacts DEF TypeInv, TypeOK
<1>3. Known'
  BY <1>1, SettlesFacts DEF TypeInv, Known
<1> QED
  BY <1>2, <1>3 DEF TypeInv

LEMMA UploadSettles ==
  ASSUME NEW u \in Upload,
         UploadClean(u) \/ CloseRead(u) \/ CloseWrite(u) \/ CleanFails(u) \/ UploadStops(u)
  PROVE  Settles(u)
BY DEF UploadClean, CloseRead, CloseWrite, CleanFails, UploadStops, Settles

LEMMA UploadStepType ==
  ASSUME TypeInv, NEW u \in Upload, UploadStep(u)
  PROVE  TypeInv'
<1>1. CASE \E t \in DocumentType : UploadRead(u, t)
  BY <1>1, UploadReadType
<1>2. CASE UploadWrite(u)
  BY <1>2, UploadWriteType
<1>3. CASE UploadClean(u)
  BY <1>3, UploadSettles, SettlesType
  DEF UploadClean, requestVars, faultVars, TypeInv, TypeOK
<1>4. CASE CloseRead(u)
  BY <1>4, UploadSettles, SettlesType
  DEF CloseRead, requestVars, docVars, faultVars, TypeInv, TypeOK
<1>5. CASE CloseWrite(u)
  BY <1>5, UploadSettles, SettlesType
  DEF CloseWrite, Reopened, docVars, faultVars, TypeInv, TypeOK
<1>6. CASE CleanFails(u)
  BY <1>6, UploadSettles, SettlesType
  DEF CleanFails, Fault, requestVars, docVars, TypeInv, TypeOK
<1>7. CASE UploadStops(u)
  BY <1>7, UploadSettles, SettlesType
  DEF UploadStops, Fault, requestVars, docVars, TypeInv, TypeOK
<1> QED
  BY <1>1, <1>2, <1>3, <1>4, <1>5, <1>6, <1>7 DEF UploadStep

LEMMA ReviewType ==
  ASSUME TypeInv, NEW r \in Reviewer, ReviewStep(r)
  PROVE  TypeInv'
<1> DEFINE Slot == [pc : {"idle", "decide", "purge", "remove", "mark"}, purge : SUBSET Doc]
<1>0. NoReview \in Slot /\ NoReview.purge = {}
  BY DEF NoReview
<1>1. CASE ReviewRead(r) \/ \E d \in Decision, a \in SUBSET DocumentType : ReviewWrite(r, d, a)
  <2>1. \E pc \in {"decide", "purge", "idle"} : review' = [review EXCEPT ![r].pc = pc]
    BY <1>1 DEF ReviewRead, ReviewWrite
  <2>2. /\ review' \in [Reviewer -> Slot]
        /\ \A q \in Reviewer : review'[q].purge = review[q].purge
    BY <2>1 DEF TypeInv, TypeOK
  <2>3. CASE ReviewRead(r)
    BY <2>2, <2>3 DEF ReviewRead, TypeInv, TypeOK, Known, requestVars, docVars, faultVars
  <2>4. CASE \E d \in Decision, a \in SUBSET DocumentType : ReviewWrite(r, d, a)
    BY <2>2, <2>4 DEF ReviewWrite, TypeInv, TypeOK, Known
  <2> QED
    BY <1>1, <2>3, <2>4
<1>2. CASE PurgeRead(r)
  <2>1. ToPurge \subseteq Doc /\ \A n \in ToPurge : row[n] # "none"
    BY DEF ToPurge
  <2>2. /\ review' \in [Reviewer -> Slot]
        /\ \A q \in Reviewer : \A n \in review'[q].purge : row[n] # "none"
    BY <1>0, <1>2, <2>1 DEF PurgeRead, TypeInv, TypeOK, Known
  <2> QED
    BY <1>2, <2>2 DEF PurgeRead, TypeInv, TypeOK, Known, requestVars, docVars, faultVars
<1>3. CASE PurgeFiles(r) \/ RemoveFails(r)
  <2>1. files' \subseteq files /\ review' = [review EXCEPT ![r].pc = "mark"]
    BY <1>3 DEF PurgeFiles, RemoveFails
  <2>2. /\ review' \in [Reviewer -> Slot]
        /\ \A q \in Reviewer : review'[q].purge = review[q].purge
    BY <2>1 DEF TypeInv, TypeOK
  <2>3. /\ UNCHANGED <<status, asked, org, stored, type, row, since, upload, submission,
                       dropped, crossed>>
        /\ faults' \in Nat
    BY <1>3 DEF PurgeFiles, RemoveFails, Fault, requestVars, faultVars, TypeInv, TypeOK
  <2> QED
    BY <2>1, <2>2, <2>3 DEF TypeInv, TypeOK, Known
<1>4. CASE PurgeMark(r)
  <2>1. /\ row' \in [Doc -> {"none", "present", "purged", "deleted"}]
        /\ \A n \in Doc : row'[n] = "none" <=> row[n] = "none"
    BY <1>4 DEF PurgeMark, TypeInv, TypeOK
  <2>2. /\ review' \in [Reviewer -> Slot]
        /\ \A q \in Reviewer : review'[q].purge \subseteq review[q].purge
    BY <1>0, <1>4 DEF PurgeMark, TypeInv, TypeOK
  <2>3. UNCHANGED <<status, asked, org, files, stored, type, since, upload, submission,
                    faults, dropped, crossed>>
    BY <1>4 DEF PurgeMark, requestVars, faultVars
  <2>4. TypeOK'
    <3>1. \A v \in Upload : /\ upload[v].pc # "idle" => upload[v].doc \in Doc
                            /\ upload[v].previous \subseteq Doc
      BY DossierAssumption DEF TypeInv, TypeOK, UploadType, Doc
    <3>2. since \subseteq {n \in Doc : row'[n] # "none"}
      BY <2>1 DEF TypeInv, TypeOK
    <3> QED
      BY <2>1, <2>2, <2>3, <3>1, <3>2 DEF TypeInv, TypeOK
  <2>5. Known'
    BY <2>1, <2>2, <2>3 DEF TypeInv, TypeOK, Known
  <2> QED
    BY <2>4, <2>5 DEF TypeInv
<1>5. CASE ReviewStops(r)
  <2>1. /\ review' \in [Reviewer -> Slot]
        /\ \A q \in Reviewer : review'[q].purge \subseteq review[q].purge
    BY <1>0, <1>5 DEF ReviewStops, TypeInv, TypeOK
  <2> QED
    BY <1>5, <2>1 DEF ReviewStops, Fault, TypeInv, TypeOK, Known, requestVars, docVars
<1> QED
  BY <1>1, <1>2, <1>3, <1>4, <1>5 DEF ReviewStep

LEMMA TypeNext == TypeInv /\ [Next]_vars => TypeInv'
<1>1. ASSUME TypeInv, Next PROVE TypeInv'
  BY <1>1, Steps, SubmissionType, UploadStepType, ReviewType
<1>2. ASSUME TypeInv, UNCHANGED vars PROVE TypeInv'
  BY <1>2 DEF vars, requestVars, docVars, slotVars, faultVars, TypeInv, TypeOK, Known
<1> QED
  BY <1>1, <1>2

\* Types, and who writes a file: the invariant the others rest on.
THEOREM TypeHolds == Spec => []TypeInv
BY TypeInit, TypeNext, PTL DEF Spec

\* Every variable keeps its type, and a file that is being written has no row
\* yet and one writer (organizations.service.ts:802).
THEOREM TypeCorrect == Spec => []TypeOK
<1>1. TypeInv => TypeOK
  BY DEF TypeInv
<1> QED
  BY <1>1, TypeHolds, PTL
-----------------------------------------------------------------------------
(* A complete dossier does not sleep, a decided one is being destroyed *)

\* What a submission does to the dossier.
LEMMA SubmissionEffect ==
  ASSUME NEW s \in Submission, SubmissionStep(s)
  PROVE  /\ status' = status \/ status' = "PENDING"
         /\ UNCHANGED <<asked, docVars, upload, review, crossed>>
         /\ dropped' = dropped \/ dropped' = (dropped \/ submission[s] = "organization")
         /\ faults' = faults \/ faults' = faults + 1
BY DEF SubmissionStep, SubmitRead, SubmitWrite, SubmitRefused, SubmitOrganization,
       SubmissionStops, Fault, requestVars, faultVars

LEMMA AsksNothingNext ==
  ASSUME AsksNothing, [Next]_vars
  PROVE  AsksNothing'
<1> USE DEF AsksNothing, Decided
<1>1. ASSUME NEW s \in Submission, SubmissionStep(s) PROVE AsksNothing'
  BY <1>1, SubmissionEffect
<1>2. ASSUME NEW u \in Upload, UploadStep(u) PROVE AsksNothing'
  BY <1>2 DEF UploadStep, UploadRead, UploadWrite, UploadClean, CloseRead, CloseWrite, Reopened,
     CleanFails, UploadStops, requestVars
<1>3. ASSUME NEW r \in Reviewer, ReviewStep(r) PROVE AsksNothing'
  <2>1. ASSUME NEW d \in Decision, NEW a \in SUBSET DocumentType, ReviewWrite(r, d, a)
        PROVE  AsksNothing'
    BY <2>1 DEF ReviewWrite, Askable, Decision
  <2> QED
    BY <1>3, <2>1 DEF ReviewStep, ReviewRead, PurgeRead, PurgeFiles, PurgeMark, RemoveFails,
       ReviewStops, requestVars
<1>4. CASE UNCHANGED vars
  BY <1>4 DEF vars, requestVars
<1> QED
  BY <1>1, <1>2, <1>3, <1>4, Steps

LEMMA AsleepNext ==
  ASSUME TypeInv, NeverAsleep, [Next]_vars
  PROVE  NeverAsleep'
<1> SUFFICES ASSUME ~dropped', status' = "INCOMPLETE", asked' \subseteq Given'
             PROVE  \E u \in Upload : Recorded(u)'
  BY DEF NeverAsleep
<1>1. ASSUME NEW s \in Submission, SubmissionStep(s)
      PROVE  \E u \in Upload : Recorded(u)'
  BY <1>1, SubmissionEffect DEF NeverAsleep, Given, Recorded, docVars
<1>2. ASSUME NEW u \in Upload, UploadStep(u)
      PROVE  \E v \in Upload : Recorded(v)'
  <2>1. CASE \E t \in DocumentType : UploadRead(u, t)
    <3>1. UNCHANGED <<status, asked, dropped, since, row, type>>
      BY <2>1 DEF UploadRead, requestVars, faultVars
    <3>2. PICK v \in Upload : Recorded(v)
      BY <3>1 DEF NeverAsleep, Given
    <3>3. upload[u].pc = "idle" /\ \A w \in Upload : w # u => upload'[w] = upload[w]
      BY <2>1 DEF UploadRead, NoUpload, TypeInv, TypeOK
    <3> QED
      BY <3>2, <3>3 DEF Recorded
  <2>2. CASE UploadWrite(u)
    BY <2>2 DEF UploadWrite, At, Recorded, TypeInv, TypeOK, UploadType
  <2>3. CASE UploadClean(u) \/ CleanFails(u)
    BY <2>3 DEF UploadClean, CleanFails, At, Recorded, TypeInv, TypeOK, UploadType
  <2>4. CASE CloseRead(u)
    <3>1. UNCHANGED <<status, asked, dropped, since, row, type>>
      BY <2>4 DEF CloseRead, requestVars, docVars, faultVars
    <3>2. Given \subseteq PresentTypes
      <4>1. since \subseteq Doc
        BY DEF TypeInv, TypeOK
      <4> QED
        BY <4>1 DEF Given, PresentTypes
    <3>3. Missing(u) = {}
      BY <3>1, <3>2 DEF Missing, Given
    <3>4. At(u, "close")
      BY <2>4, <3>3 DEF CloseRead
    <3> QED
      BY <3>4 DEF At, Recorded, TypeInv, TypeOK, UploadType
  <2>5. CASE CloseWrite(u)
    BY <2>5 DEF CloseWrite, Reopened
  <2>6. CASE UploadStops(u)
    <3>1. /\ UNCHANGED <<status, asked, since, row, type>> /\ ~dropped /\ ~Recorded(u)
          /\ \A w \in Upload : w # u => upload'[w] = upload[w]
      BY <2>6 DEF UploadStops, Leave, Recorded, requestVars, docVars, TypeInv, TypeOK
    <3>2. PICK v \in Upload : Recorded(v)
      BY <3>1 DEF NeverAsleep, Given
    <3> QED
      BY <3>1, <3>2 DEF Recorded
  <2> QED
    BY <1>2, <2>1, <2>2, <2>3, <2>4, <2>5, <2>6 DEF UploadStep
<1>3. ASSUME NEW r \in Reviewer, ReviewStep(r)
      PROVE  \E u \in Upload : Recorded(u)'
  <2>1. CASE \E d \in Decision, a \in SUBSET DocumentType : ReviewWrite(r, d, a)
    <3>1. since' = {} /\ asked' # {}
      BY <2>1 DEF ReviewWrite, Askable
    <3> QED
      BY <3>1 DEF Given
  <2>2. CASE ~ \E d \in Decision, a \in SUBSET DocumentType : ReviewWrite(r, d, a)
    <3>1. /\ UNCHANGED <<status, asked, since, type, upload>> /\ ~dropped
          /\ \A n \in Doc : row'[n] = "present" => row[n] = "present"
      <4>1. CASE PurgeMark(r)
        BY <4>1 DEF PurgeMark, requestVars, faultVars
      <4>2. CASE ReviewRead(r) \/ PurgeRead(r) \/ PurgeFiles(r) \/ RemoveFails(r)
        BY <4>2 DEF ReviewRead, PurgeRead, PurgeFiles, RemoveFails, requestVars, docVars,
           faultVars
      <4>3. CASE ReviewStops(r)
        BY <4>3 DEF ReviewStops, requestVars, docVars
      <4> QED
        BY <1>3, <2>2, <4>1, <4>2, <4>3 DEF ReviewStep
    <3>2. since \subseteq Doc
      BY DEF TypeInv, TypeOK
    <3>3. Given' \subseteq Given
      BY <3>1, <3>2 DEF Given
    <3>4. PICK u \in Upload : Recorded(u)
      BY <3>1, <3>3 DEF NeverAsleep
    <3> QED
      BY <3>1, <3>4 DEF Recorded
  <2> QED
    BY <2>1, <2>2
<1>4. CASE UNCHANGED vars
  BY <1>4 DEF vars, requestVars, docVars, slotVars, faultVars, NeverAsleep, Given, Recorded
<1> QED
  BY <1>1, <1>2, <1>3, <1>4, Steps

LEMMA PurgedNext ==
  ASSUME TypeInv, AsksNothing, DecidedIsPurged, [Next]_vars
  PROVE  DecidedIsPurged'
<1> DEFINE Cared(n) == \/ \E r \in Reviewer : Purges(r, n)
                       \/ \E u \in Upload : Recorded(u) /\ upload[u].doc = n
<1> SUFFICES ASSUME ~dropped', status' \in Decided, NEW n \in ToPurge'
             PROVE  Cared(n)'
  BY DEF DecidedIsPurged
<1> USE DEF Purges, Recorded
<1>0. n \in Doc /\ row'[n] = "present" /\ type'[n] \in Personal
  BY DEF ToPurge, Doc
<1>1. ASSUME NEW s \in Submission, SubmissionStep(s) PROVE Cared(n)'
  <2>1. /\ status' = status /\ ~dropped
        /\ UNCHANGED <<row, type, upload, review>>
    BY <1>1, SubmissionEffect DEF Decided, docVars
  <2>2. n \in ToPurge
    BY <1>0, <2>1 DEF ToPurge
  <2>3. Cared(n)
    BY <2>1, <2>2 DEF DecidedIsPurged
  <2> QED
    BY <2>1, <2>3
<1>2. ASSUME NEW u \in Upload, UploadStep(u) PROVE Cared(n)'
  <2>1. CASE CloseWrite(u)
    BY <2>1 DEF CloseWrite, Reopened, Decided
  <2>2. CASE UploadWrite(u) /\ n = upload[u].doc
    BY <2>2 DEF UploadWrite, At, TypeInv, TypeOK, UploadType
  <2>3. CASE ~CloseWrite(u) /\ ~(UploadWrite(u) /\ n = upload[u].doc)
    <3>1. /\ UNCHANGED <<status, asked, review>> /\ ~dropped /\ n \in ToPurge
      <4>1. CASE UploadWrite(u)
        BY <1>0, <2>3, <4>1
        DEF UploadWrite, ToPurge, requestVars, faultVars, TypeInv, TypeOK
      <4>2. CASE \E t \in DocumentType : UploadRead(u, t)
        BY <1>0, <4>2 DEF UploadRead, ToPurge, requestVars, faultVars
      <4>3. CASE UploadClean(u) \/ CloseRead(u) \/ CleanFails(u)
        BY <1>0, <4>3 DEF UploadClean, CloseRead, CleanFails, ToPurge,
           requestVars, docVars, faultVars
      <4>4. CASE UploadStops(u)
        BY <1>0, <4>4 DEF UploadStops, ToPurge, requestVars, docVars
      <4> QED
        BY <1>2, <2>3, <4>1, <4>2, <4>3, <4>4 DEF UploadStep
    <3>2. Cared(n)
      BY <3>1 DEF DecidedIsPurged
    <3>3. CASE \E r \in Reviewer : Purges(r, n)
      BY <3>1, <3>3
    <3>4. ASSUME NEW v \in Upload, Recorded(v), upload[v].doc = n PROVE Cared(n)'
      <4>1. CASE v # u
        <5>1. upload'[v] = upload[v]
          BY <1>2, <4>1 DEF UploadStep, UploadRead, UploadWrite, UploadClean, CloseRead,
             CloseWrite, CleanFails, UploadStops, At, Leave, TypeInv, TypeOK
        <5> QED
          BY <3>4, <5>1
      <4>2. CASE v = u /\ (UploadClean(u) \/ CleanFails(u))
        BY <3>4, <4>2 DEF UploadClean, CleanFails, At, TypeInv, TypeOK, UploadType
      <4>3. CASE v = u /\ CloseRead(u)
        <5>1. Missing(u) = {}
          BY <3>1 DEF AsksNothing, Missing
        <5>2. At(u, "close")
          BY <4>3, <5>1 DEF CloseRead
        <5> QED
          BY <3>4, <4>3, <5>2 DEF At, TypeInv, TypeOK, UploadType
      <4>4. ~ \E t \in DocumentType : v = u /\ UploadRead(u, t)
        BY <3>4 DEF UploadRead, NoUpload
      <4>5. ~(v = u /\ (UploadWrite(u) \/ UploadStops(u)))
        BY <3>4 DEF UploadWrite, UploadStops
      <4> QED
        BY <1>2, <2>3, <4>1, <4>2, <4>3, <4>4, <4>5 DEF UploadStep
    <3> QED
      BY <3>2, <3>3, <3>4
  <2> QED
    BY <2>1, <2>2, <2>3
<1>3. ASSUME NEW r \in Reviewer, ReviewStep(r) PROVE Cared(n)'
  <2>1. CASE \E d \in Decision, a \in SUBSET DocumentType : ReviewWrite(r, d, a)
    BY <2>1 DEF ReviewWrite, Destroys, TypeInv, TypeOK
  <2>2. CASE ~ \E d \in Decision, a \in SUBSET DocumentType : ReviewWrite(r, d, a)
    <3>1. UNCHANGED <<status, upload, type>> /\ ~dropped /\ row[n] = "present"
      <4>1. CASE PurgeMark(r)
        BY <1>0, <4>1 DEF PurgeMark, requestVars, faultVars
      <4>2. CASE ReviewRead(r) \/ PurgeRead(r) \/ PurgeFiles(r) \/ RemoveFails(r)
        BY <1>0, <4>2 DEF ReviewRead, PurgeRead, PurgeFiles, RemoveFails, requestVars, docVars,
           faultVars
      <4>3. CASE ReviewStops(r)
        BY <1>0, <4>3 DEF ReviewStops, requestVars, docVars
      <4> QED
        BY <1>3, <2>2, <4>1, <4>2, <4>3 DEF ReviewStep
    <3>2. n \in ToPurge
      BY <1>0, <3>1 DEF ToPurge
    <3>3. Cared(n)
      BY <3>1, <3>2 DEF DecidedIsPurged
    <3>4. ASSUME NEW q \in Reviewer, Purges(q, n) PROVE Cared(n)'
      <4>1. CASE q # r
        <5>1. review'[q] = review[q]
          BY <1>3, <4>1 DEF ReviewStep, ReviewRead, ReviewWrite, PurgeRead, PurgeFiles,
             PurgeMark, RemoveFails, ReviewStops, TypeInv, TypeOK
        <5> QED
          BY <3>4, <5>1
      <4>2. CASE q = r /\ PurgeRead(r)
        BY <3>2, <4>2 DEF PurgeRead, TypeInv, TypeOK
      <4>3. CASE q = r /\ (PurgeFiles(r) \/ RemoveFails(r))
        BY <3>4, <4>3 DEF PurgeFiles, RemoveFails, TypeInv, TypeOK
      <4>4. CASE q = r /\ PurgeMark(r)
        BY <1>0, <3>1, <3>4, <4>4 DEF PurgeMark
      <4>5. review[q].pc \in {"purge", "remove", "mark"}
        BY <3>4
      <4>6. ~(q = r /\ ReviewRead(r))
        BY <4>5 DEF ReviewRead, NoReview
      <4>7. ~(q = r /\ ReviewStops(r))
        BY <4>5 DEF ReviewStops
      <4> QED
        BY <1>3, <2>2, <4>1, <4>2, <4>3, <4>4, <4>6, <4>7 DEF ReviewStep
    <3> QED
      BY <3>1, <3>3, <3>4
  <2> QED
    BY <2>1, <2>2
<1>4. CASE UNCHANGED vars
  BY <1>0, <1>4 DEF vars, requestVars, docVars, slotVars, faultVars, DecidedIsPurged, ToPurge
<1> QED
  BY <1>1, <1>2, <1>3, <1>4, Steps
-----------------------------------------------------------------------------
(* The two statuses agree *)

LEMMA SubmittedNext ==
  ASSUME TypeInv, Submitted, [Next]_vars
  PROVE  Submitted'
<1>1. ASSUME NEW s \in Submission, SubmissionStep(s) PROVE Submitted'
  BY <1>1 DEF SubmissionStep, SubmitRead, SubmitWrite, SubmitRefused, SubmitOrganization,
     SubmissionStops, Submitted, TypeInv, TypeOK, requestVars, faultVars
<1>2. ASSUME NEW u \in Upload, UploadStep(u) PROVE Submitted'
  <2>1. /\ status' = status \/ status' = "PENDING"
        /\ submission' = submission /\ crossed' = crossed
    BY <1>2 DEF UploadStep, UploadRead, UploadWrite, UploadClean, CloseRead, CloseWrite, Reopened,
       CleanFails, UploadStops, requestVars, faultVars
  <2> QED
    BY <2>1 DEF Submitted
<1>3. ASSUME NEW r \in Reviewer, ReviewStep(r) PROVE Submitted'
  <2>1. CASE \E d \in Decision, a \in SUBSET DocumentType : ReviewWrite(r, d, a)
    BY <2>1 DEF ReviewWrite, Submitted
  <2>2. CASE ReviewRead(r) \/ PurgeRead(r) \/ PurgeFiles(r) \/ PurgeMark(r) \/ RemoveFails(r)
               \/ ReviewStops(r)
    BY <2>2 DEF ReviewRead, PurgeRead, PurgeFiles, PurgeMark, RemoveFails, ReviewStops,
       Submitted, requestVars, faultVars
  <2> QED
    BY <1>3, <2>1, <2>2 DEF ReviewStep
<1>4. CASE UNCHANGED vars
  BY <1>4 DEF vars, requestVars, slotVars, faultVars, Submitted
<1> QED
  BY <1>1, <1>2, <1>3, <1>4, Steps

LEMMA AgreeNext ==
  ASSUME TypeInv, Submitted, StatusesAgree, [Next]_vars
  PROVE  StatusesAgree'
<1> SUFFICES ASSUME ~dropped', ~crossed', \A s \in Submission : submission'[s] # "organization"
             PROVE  org' = IF status' = "none" THEN "UNVERIFIED" ELSE status'
  BY DEF StatusesAgree
<1> DEFINE Same == org' = IF status' = "none" THEN "UNVERIFIED" ELSE status'
<1>1. ASSUME NEW s \in Submission, SubmissionStep(s) PROVE Same
  <2>1. CASE SubmitOrganization(s)
    BY <2>1 DEF SubmitOrganization, Submitted, faultVars
  <2>2. CASE SubmitWrite(s)
    BY <2>2 DEF SubmitWrite, TypeInv, TypeOK
  <2>3. CASE SubmitRead(s) \/ SubmitRefused(s) \/ SubmissionStops(s)
    <3>1. /\ UNCHANGED <<status, org, crossed>> /\ ~dropped
          /\ submission[s] # "organization"
          /\ \A z \in Submission : z # s => submission'[z] = submission[z]
      BY <2>3 DEF SubmitRead, SubmitRefused, SubmissionStops, requestVars, faultVars,
         TypeInv, TypeOK
    <3> QED
      BY <3>1 DEF StatusesAgree
  <2> QED
    BY <1>1, <2>1, <2>2, <2>3 DEF SubmissionStep
<1>2. ASSUME NEW u \in Upload, UploadStep(u) PROVE Same
  <2>1. CASE CloseWrite(u)
    BY <2>1 DEF CloseWrite, Reopened
  <2>2. CASE ~CloseWrite(u)
    <3>1. UNCHANGED <<status, org, crossed, submission>> /\ ~dropped
      <4>1. CASE UploadStops(u)
        BY <4>1 DEF UploadStops, requestVars
      <4>2. CASE ~UploadStops(u)
        BY <1>2, <2>2, <4>2 DEF UploadStep, UploadRead, UploadWrite, UploadClean, CloseRead,
           CleanFails, requestVars, faultVars
      <4> QED
        BY <4>1, <4>2
    <3> QED
      BY <3>1 DEF StatusesAgree
  <2> QED
    BY <2>1, <2>2
<1>3. ASSUME NEW r \in Reviewer, ReviewStep(r) PROVE Same
  <2>1. CASE \E d \in Decision, a \in SUBSET DocumentType : ReviewWrite(r, d, a)
    BY <2>1 DEF ReviewWrite, Decision
  <2>2. CASE ReviewRead(r) \/ PurgeRead(r) \/ PurgeFiles(r) \/ PurgeMark(r) \/ RemoveFails(r)
               \/ ReviewStops(r)
    <3>1. UNCHANGED <<status, org, crossed, submission>> /\ ~dropped
      <4>1. CASE ReviewStops(r)
        BY <4>1 DEF ReviewStops, requestVars
      <4>2. CASE ~ReviewStops(r)
        BY <2>2, <4>2 DEF ReviewRead, PurgeRead, PurgeFiles, PurgeMark, RemoveFails,
           requestVars, faultVars
      <4> QED
        BY <4>1, <4>2
    <3> QED
      BY <3>1 DEF StatusesAgree
  <2> QED
    BY <1>3, <2>1, <2>2 DEF ReviewStep
<1>4. CASE UNCHANGED vars
  BY <1>4 DEF vars, requestVars, slotVars, faultVars, StatusesAgree
<1> QED
  BY <1>1, <1>2, <1>3, <1>4, Steps
-----------------------------------------------------------------------------
(* No file is left over *)

LEMMA FaultsGrow ==
  ASSUME TypeInv, [Next]_vars, faults' = 0
  PROVE  faults = 0
<1>1. faults \in Nat /\ faults + 1 # 0
  BY DEF TypeInv, TypeOK
<1>2. faults' = faults \/ faults' = faults + 1
  <2>1. ASSUME NEW s \in Submission, SubmissionStep(s)
        PROVE  faults' = faults \/ faults' = faults + 1
    BY <2>1, SubmissionEffect
  <2>2. ASSUME NEW u \in Upload, UploadStep(u)
        PROVE  faults' = faults \/ faults' = faults + 1
    BY <2>2 DEF UploadStep, UploadRead, UploadWrite, UploadClean, CloseRead, CloseWrite,
       CleanFails, UploadStops, Fault, faultVars
  <2>3. ASSUME NEW r \in Reviewer, ReviewStep(r)
        PROVE  faults' = faults \/ faults' = faults + 1
    BY <2>3 DEF ReviewStep, ReviewRead, ReviewWrite, PurgeRead, PurgeFiles, PurgeMark,
       RemoveFails, ReviewStops, Fault, faultVars
  <2> QED
    BY <2>1, <2>2, <2>3, Steps DEF vars, faultVars
<1> QED
  BY <1>1, <1>2

LEMMA RemovedNext ==
  ASSUME TypeInv, Removed, [Next]_vars
  PROVE  Removed'
<1> SUFFICES ASSUME faults' = 0, NEW q \in Reviewer, review'[q].pc = "mark"
             PROVE  review'[q].purge \cap files' = {}
  BY DEF Removed
<1>0. faults = 0
  BY FaultsGrow
<1>1. ASSUME NEW s \in Submission, SubmissionStep(s) PROVE review'[q].purge \cap files' = {}
  BY <1>0, <1>1, SubmissionEffect DEF Removed, docVars
<1>2. ASSUME NEW u \in Upload, UploadStep(u) PROVE review'[q].purge \cap files' = {}
  <2>1. review' = review
    BY <1>2 DEF UploadStep, UploadRead, UploadWrite, UploadClean, CloseRead, CloseWrite,
       CleanFails, UploadStops
  <2>2. review[q].purge \cap files = {}
    BY <1>0, <2>1 DEF Removed
  <2>3. CASE \E t \in DocumentType : UploadRead(u, t)
    <3>1. files' = files \cup {stored + 1} /\ stored + 1 \in Doc
      BY <2>3 DEF UploadRead, NewFile
    <3>2. row[stored + 1] = "none"
      BY <3>1 DEF TypeInv, TypeOK, Doc
    <3>3. stored + 1 \notin review[q].purge
      BY <3>2 DEF TypeInv, Known
    <3> QED
      BY <2>1, <2>2, <3>1, <3>3
  <2>4. CASE ~ \E t \in DocumentType : UploadRead(u, t)
    <3>1. files' \subseteq files
      BY <1>2, <2>4 DEF UploadStep, UploadWrite, UploadClean, CloseRead, CloseWrite,
         CleanFails, UploadStops, docVars
    <3> QED
      BY <2>1, <2>2, <3>1
  <2> QED
    BY <2>3, <2>4
<1>3. ASSUME NEW r \in Reviewer, ReviewStep(r) PROVE review'[q].purge \cap files' = {}
  <2>1. files' \subseteq files
    BY <1>3 DEF ReviewStep, ReviewRead, ReviewWrite, PurgeRead, PurgeFiles, PurgeMark,
       RemoveFails, ReviewStops, docVars
  <2>2. CASE q # r
    <3>1. review'[q] = review[q]
      BY <1>3, <2>2 DEF ReviewStep, ReviewRead, ReviewWrite, PurgeRead, PurgeFiles,
         PurgeMark, RemoveFails, ReviewStops, TypeInv, TypeOK
    <3> QED
      BY <1>0, <2>1, <3>1 DEF Removed
  <2>3. CASE q = r /\ PurgeFiles(r)
    BY <2>3 DEF PurgeFiles, TypeInv, TypeOK
  <2>4. ~RemoveFails(r)
    BY <1>0 DEF RemoveFails, Fault
  <2>5. CASE q = r /\ (ReviewRead(r) \/ PurgeRead(r) \/ PurgeMark(r) \/ ReviewStops(r)
                         \/ \E d \in Decision, a \in SUBSET DocumentType : ReviewWrite(r, d, a))
    BY <2>5 DEF ReviewRead, ReviewWrite, PurgeRead, PurgeMark, ReviewStops, NoReview,
       TypeInv, TypeOK
  <2> QED
    BY <1>3, <2>2, <2>3, <2>4, <2>5 DEF ReviewStep
<1>4. CASE UNCHANGED vars
  BY <1>4 DEF vars, docVars, slotVars, faultVars, Removed
<1> QED
  BY <1>1, <1>2, <1>3, <1>4, Steps

LEMMA NoStrayNext ==
  ASSUME TypeInv, Removed, NoStrayFile, [Next]_vars
  PROVE  NoStrayFile'
<1> DEFINE Held(n) == \/ row[n] = "present"
                      \/ \E u \in Upload :
                           \/ upload[u].pc = "write" /\ upload[u].doc = n
                           \/ upload[u].pc = "clean" /\ n \in upload[u].previous
<1> SUFFICES ASSUME faults' = 0, NEW n \in files'
             PROVE  Held(n)'
  BY DEF NoStrayFile
<1>0. faults = 0 /\ \A m \in files : Held(m)
  BY FaultsGrow DEF NoStrayFile
<1>1. files \subseteq Doc
  BY DossierAssumption DEF TypeInv, TypeOK, Doc
<1>2. ASSUME NEW s \in Submission, SubmissionStep(s) PROVE Held(n)'
  BY <1>0, <1>2, SubmissionEffect DEF docVars
<1>3. ASSUME NEW u \in Upload, UploadStep(u) PROVE Held(n)'
  <2>1. CASE \E t \in DocumentType : UploadRead(u, t)
    <3>1. /\ files' = files \cup {stored + 1} /\ row' = row
          /\ upload[u].pc = "idle"
          /\ upload'[u].pc = "write" /\ upload'[u].doc = stored + 1
          /\ \A v \in Upload : v # u => upload'[v] = upload[v]
      BY <2>1 DEF UploadRead, NewFile, NoUpload, TypeInv, TypeOK
    <3> QED
      BY <1>0, <3>1
  <2>2. CASE UploadWrite(u)
    <3>1. /\ files' = files /\ upload[u].pc = "write"
          /\ \A v \in Upload : v # u => upload'[v] = upload[v]
          /\ row'[upload[u].doc] = "present"
          /\ upload'[u].previous = upload[u].previous
          /\ upload[u].previous # {} => upload'[u].pc = "clean"
          /\ \A m \in files : m \notin upload[u].previous /\ m # upload[u].doc => row'[m] = row[m]
      BY <1>1, <2>2, DossierAssumption
      DEF UploadWrite, At, TypeInv, TypeOK, UploadType, Doc
    <3> QED
      BY <1>0, <3>1
  <2>3. CASE UploadClean(u)
    <3>1. /\ files' = files \ upload[u].previous /\ upload[u].pc = "clean" /\ row' = row
          /\ \A v \in Upload : v # u => upload'[v] = upload[v]
      BY <2>3 DEF UploadClean, At, TypeInv, TypeOK
    <3> QED
      BY <1>0, <3>1
  <2>4. CASE CloseRead(u) \/ CloseWrite(u)
    <3>1. /\ files' = files /\ row' = row /\ upload[u].pc \in {"missing", "close"}
          /\ \A v \in Upload : v # u => upload'[v] = upload[v]
      BY <2>4 DEF CloseRead, CloseWrite, At, Leave, docVars, TypeInv, TypeOK
    <3> QED
      BY <1>0, <3>1
  <2>5. ~CleanFails(u) /\ ~UploadStops(u)
    BY <1>0 DEF CleanFails, UploadStops, Fault
  <2> QED
    BY <1>3, <2>1, <2>2, <2>3, <2>4, <2>5 DEF UploadStep
<1>4. ASSUME NEW r \in Reviewer, ReviewStep(r) PROVE Held(n)'
  <2>1. upload' = upload /\ files' \subseteq files
    BY <1>4 DEF ReviewStep, ReviewRead, ReviewWrite, PurgeRead, PurgeFiles, PurgeMark,
       RemoveFails, ReviewStops, docVars
  <2>2. CASE PurgeMark(r)
    <3>1. /\ files' = files
          /\ review[r].purge \cap files = {}
          /\ row' = [m \in Doc |-> IF m \in review[r].purge /\ row[m] = "present"
                                   THEN "purged" ELSE row[m]]
      BY <1>0, <2>2 DEF PurgeMark, Removed
    <3>2. row'[n] = row[n]
      BY <1>1, <3>1
    <3> QED
      BY <1>0, <2>1, <3>1, <3>2
  <2>3. CASE ~PurgeMark(r)
    <3>1. row' = row
      BY <1>4, <2>3 DEF ReviewStep, ReviewRead, ReviewWrite, PurgeRead, PurgeFiles,
         RemoveFails, ReviewStops, docVars
    <3> QED
      BY <1>0, <2>1, <3>1
  <2> QED
    BY <2>2, <2>3
<1>5. CASE UNCHANGED vars
  BY <1>0, <1>5 DEF vars, docVars, slotVars
<1> QED
  BY <1>2, <1>3, <1>4, <1>5, Steps
-----------------------------------------------------------------------------
IInv == TypeInv /\ AsksNothing /\ NeverAsleep /\ DecidedIsPurged /\ Submitted /\ StatusesAgree
          /\ Removed /\ NoStrayFile

LEMMA InvInit == Init => IInv
<1> SUFFICES ASSUME Init
             PROVE  IInv
  OBVIOUS
<1>1. TypeInv
  BY TypeInit
<1>2. \A r \in Reviewer : review[r].pc = "idle"
  BY DEF Init, NoReview
<1> QED
  BY <1>1, <1>2 DEF Init, IInv, AsksNothing, NeverAsleep, DecidedIsPurged, Decided, Submitted,
     StatusesAgree, Removed, NoStrayFile

LEMMA InvNext == IInv /\ [Next]_vars => IInv'
BY TypeNext, AsksNothingNext, AsleepNext, PurgedNext, SubmittedNext, AgreeNext, RemovedNext,
   NoStrayNext DEF IInv

\* The parts above, together, are preserved by every step of the two services.
THEOREM InvHolds == Spec => []IInv
BY InvInit, InvNext, PTL DEF Spec

\* A dossier never keeps waiting for documents that all came in
\* (organizations.service.ts:849), whatever crosses.
THEOREM AsleepCorrect == Spec => []NeverAsleep
<1>1. IInv => NeverAsleep
  BY DEF IInv
<1> QED
  BY <1>1, InvHolds, PTL

\* The personal documents of a decided dossier are being destroyed, or the
\* dossier is about to be examined again (verifications.service.ts:266).
THEOREM PurgedCorrect == Spec => []DecidedIsPurged
<1>1. IInv => DecidedIsPurged
  BY DEF IInv
<1> QED
  BY <1>1, InvHolds, PTL

\* The request and the organization have one status, unless a decision fell
\* between the two writes of a submission (organizations.service.ts:722).
THEOREM AgreeCorrect == Spec => []StatusesAgree
<1>1. IInv => StatusesAgree
  BY DEF IInv
<1> QED
  BY <1>1, InvHolds, PTL

\* Without a fault no file is left that no row or request knows of
\* (organizations.service.ts:835).
THEOREM NoStrayCorrect == Spec => []NoStrayFile
<1>1. IInv => NoStrayFile
  BY DEF IInv
<1> QED
  BY <1>1, InvHolds, PTL
=============================================================================
