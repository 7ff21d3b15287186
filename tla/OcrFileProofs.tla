---------------------------- MODULE OcrFileProofs ----------------------------
(* Why staff are never asked to confirm fields of another file: theorems     *)
(* about OcrJobs, for any number of documents, processes and restores.       *)
EXTENDS OcrJobsProofs

USE DEF Jobs, StatusAfterFailure

-----------------------------------------------------------------------------
(* A job is queued for the first file of its document and only ever for it.  *)
(* So a restored document has outrun its job, and a confirmation is open     *)
(* only while the document still has its first file.  Everything that can be *)
(* written back later must be of that file too: the row a restore copied,    *)
(* the rows a scrub holds, what a process has read.                          *)

Sources(j) == Uploaded(j) => job[j].source = 1 /\ doc[j].file >= 1

Awaiting(j) ==
  doc[j].awaiting =>
    /\ j \in Wezwanie /\ doc[j].ocr = "success"
    /\ doc[j].file = 1 /\ doc[j].parsed.of = 1

FirstRead(parsed) == parsed.what = "pii" => parsed.of = 1

Reading(w, j) ==
  Parsing(w, j) =>
    /\ Uploaded(j) /\ worker[w].source = 1
    /\ worker[w].file >= 1 /\ worker[w].file <= doc[j].file

Known(w) == \A row \in worker[w].stale : Uploaded(row.id)

JobFiles == \A j \in Jobs :
  Sources(j) /\ Awaiting(j) /\ FirstRead(doc[j].parsed) /\ \A w \in Workers : Reading(w, j)

CopiedFiles ==
  /\ \A w \in Workers : Known(w)
  /\ restoring # NoCopy => FirstRead(restoring.parsed)
  /\ \A row \in scrubbing : row.of = 1

FileInv == JobFiles /\ CopiedFiles

LEMMA FileInit == Init => FileInv
<1> SUFFICES ASSUME Init PROVE FileInv
  OBVIOUS
<1>1. JobFiles
  BY DEF Init, JobFiles, Sources, Uploaded, Awaiting, FirstRead, NoParsed, Reading, Parsing, Idle
<1>2. CopiedFiles
  BY DEF Init, CopiedFiles, Known, Idle
<1> QED  BY <1>1, <1>2 DEF FileInv

(* A step keeps the invariant if it does not take a file back, opens no      *)
(* confirmation it should not, and no process gets something new to parse.   *)
LEMMA FileFrame ==
  ASSUME TypeOK, TypeOK', JobFiles,
         \A j \in Jobs : Uploaded(j)' <=> Uploaded(j),
         \A j \in Jobs : Uploaded(j) => job'[j].source = 1,
         \A j \in Jobs : doc'[j].file >= doc[j].file,
         \A j \in Jobs : Awaiting(j)' /\ FirstRead(doc'[j].parsed),
         \A w \in Workers, j \in Jobs : Parsing(w, j)' =>
            /\ Parsing(w, j)
            /\ worker'[w].source = worker[w].source /\ worker'[w].file = worker[w].file
  PROVE  JobFiles'
<1> SUFFICES ASSUME NEW j \in Jobs
             PROVE  Sources(j)' /\ \A w \in Workers : Reading(w, j)'
  BY DEF JobFiles, FirstRead
<1>1. doc[j].file \in Nat /\ doc'[j].file \in Nat
  BY DEF TypeOK, Doc, File
<1>2. Sources(j)'
  BY <1>1 DEF JobFiles, Sources
<1>3. ASSUME NEW w \in Workers PROVE Reading(w, j)'
  <2>1. worker[w].file \in Nat
    BY DEF TypeOK, Worker, File
  <2>2. Reading(w, j)
    BY DEF JobFiles
  <2> SUFFICES ASSUME Parsing(w, j)'
               PROVE  /\ Uploaded(j)' /\ worker'[w].source = 1
                      /\ worker'[w].file >= 1 /\ worker'[w].file <= doc'[j].file
    BY DEF Reading
  <2> QED  BY <1>1, <2>1, <2>2 DEF Reading
<1> QED  BY <1>2, <1>3

LEMMA CopiesFrame ==
  ASSUME TypeOK, CopiedFiles, restoring' = restoring, scrubbing' = scrubbing,
         \A w \in Workers : worker'[w].stale \subseteq worker[w].stale,
         \A j \in Jobs : Uploaded(j) => Uploaded(j)'
  PROVE  CopiedFiles'
<1>1. ASSUME NEW w \in Workers PROVE Known(w)'
  <2>1. worker[w].stale \in SUBSET StaleRow
    BY DEF TypeOK, Worker
  <2> QED  BY <2>1 DEF CopiedFiles, Known, StaleRow
<1> QED  BY <1>1 DEF CopiedFiles, FirstRead

(* Steps that leave every document alone. *)
LEMMA FileQuiet ==
  ASSUME TypeOK, TypeOK', FileInv, UNCHANGED <<doc, restoring, scrubbing>>,
         \A j \in Jobs : job'[j].source = job[j].source /\ (Uploaded(j)' <=> Uploaded(j)),
         \A w \in Workers : worker'[w].stale \subseteq worker[w].stale,
         \A w \in Workers, j \in Jobs : Parsing(w, j)' =>
            /\ Parsing(w, j)
            /\ worker'[w].source = worker[w].source /\ worker'[w].file = worker[w].file
  PROVE  FileInv'
<1>1. \A j \in Jobs : Awaiting(j)' /\ FirstRead(doc'[j].parsed)
  BY DEF FileInv, JobFiles, Awaiting, FirstRead
<1>2. \A j \in Jobs : doc'[j].file >= doc[j].file
  BY DEF TypeOK, Doc, File
<1>3. \A j \in Jobs : Uploaded(j) => job'[j].source = 1
  BY DEF FileInv, JobFiles, Sources
<1>4. JobFiles'
  BY <1>1, <1>2, <1>3, FileFrame DEF FileInv
<1>5. CopiedFiles'
  BY CopiesFrame DEF FileInv
<1> QED  BY <1>4, <1>5 DEF FileInv

LEMMA FileUpload ==
  ASSUME TypeOK, TypeOK', FileInv, NEW k \in Jobs,
         UploadQueued(k) \/ UploadInlineRead(k) \/ UploadInlineUnread(k)
  PROVE  FileInv'
<1>1. /\ ~Uploaded(k) /\ UNCHANGED <<worker, restoring, scrubbing>>
      /\ \A j \in Jobs : j # k => job'[j] = job[j] /\ doc'[j] = doc[j]
  BY DEF UploadQueued, UploadInlineRead, UploadInlineUnread, NextUpload, TypeOK
<1>2. /\ job'[k].status # "none" /\ job'[k].source = 1 /\ doc'[k].file = 1
      /\ doc'[k].awaiting => k \in Wezwanie /\ doc'[k].ocr = "success"
      /\ doc'[k].awaiting \/ doc'[k].parsed.what = "pii" => doc'[k].parsed.of = 1
  <2>1. CASE UploadQueued(k)
    BY <2>1 DEF UploadQueued, NewDoc, NoParsed, TypeOK
  <2>2. CASE UploadInlineRead(k)
    BY <2>2 DEF UploadInlineRead, NewDoc, TypeOK
  <2>3. CASE UploadInlineUnread(k)
    <3>1. job'[k].status \in {"pending", "failed"} /\ job'[k].source = 1
      BY <2>3 DEF UploadInlineUnread, TypeOK
    <3>2. doc'[k] = NewDoc("failed", FALSE, NoParsed)
      BY <2>3 DEF UploadInlineUnread, TypeOK
    <3> QED  BY <3>1, <3>2 DEF NewDoc, NoParsed
  <2> QED  BY <2>1, <2>2, <2>3
<1>3. ASSUME NEW j \in Jobs
      PROVE  /\ Sources(j)' /\ Awaiting(j)' /\ FirstRead(doc'[j].parsed)
             /\ \A w \in Workers : Reading(w, j)'
  <2>1. CASE j = k
    <3>1. \A w \in Workers : ~Parsing(w, k)
      BY <1>1 DEF FileInv, JobFiles, Reading
    <3>2. \A w \in Workers : ~Parsing(w, k)'
      BY <1>1, <3>1 DEF Parsing
    <3> QED  BY <1>2, <2>1, <3>2 DEF Sources, Awaiting, FirstRead, Reading
  <2>2. CASE j # k
    <3>1. /\ Sources(j) /\ Awaiting(j) /\ FirstRead(doc[j].parsed)
          /\ \A w \in Workers : Reading(w, j)
      BY DEF FileInv, JobFiles
    <3>2. job'[j] = job[j] /\ doc'[j] = doc[j] /\ worker' = worker
      BY <1>1, <2>2
    <3>3. Sources(j)' /\ \A w \in Workers : Reading(w, j)'
      BY <3>1, <3>2 DEF Sources, Reading, Parsing, Uploaded
    <3> QED  BY <3>1, <3>2, <3>3 DEF Awaiting
  <2> QED  BY <2>1, <2>2
<1>4. \A j \in Jobs : Uploaded(j) => Uploaded(j)'
  BY <1>1 DEF Uploaded
<1>5. CopiedFiles'
  BY <1>1, <1>4, CopiesFrame DEF FileInv
<1> QED  BY <1>3, <1>5 DEF FileInv, JobFiles, FirstRead

LEMMA FileTime ==
  ASSUME TypeOK, TypeOK', FileInv, NEW k \in Jobs, BackoffElapses(k) \/ LeaseExpires(k)
  PROVE  FileInv'
<1>1. \A j \in Jobs : job'[j].source = job[j].source /\ job'[j].status = job[j].status
  <2>1. CASE BackoffElapses(k)
    BY <2>1 DEF BackoffElapses, TypeOK, Job
  <2>2. CASE LeaseExpires(k)
    BY <2>2 DEF LeaseExpires, TypeOK, Job
  <2> QED  BY <2>1, <2>2
<1>2. UNCHANGED <<doc, worker, restoring, scrubbing>>
  BY DEF BackoffElapses, LeaseExpires
<1> QED  BY <1>1, <1>2, FileQuiet DEF Uploaded, Parsing

LEMMA FileReclaim ==
  ASSUME TypeOK, TypeOK', FileInv, NEW w \in Workers, Reclaim(w)
  PROVE  FileInv'
<1>1. UNCHANGED <<doc, restoring, scrubbing>>
  BY DEF Reclaim, ReclaimRead, ReclaimSave, ReclaimEnd
<1>2. \A v \in Workers : v # w => worker'[v] = worker[v]
  BY DEF Reclaim, ReclaimRead, ReclaimSave, ReclaimEnd, TypeOK
<1>3. CASE ReclaimRead(w)
  <2>1. /\ job' = job /\ worker'[w].pc = "reclaim"
        /\ \A row \in worker'[w].stale : row.id \in Jobs /\ job[row.id].status = "processing"
    <3>1. job' = job /\ worker'[w].pc = "reclaim"
      BY <1>3 DEF ReclaimRead, queueVars, TypeOK, Worker
    <3>2. worker'[w].stale = {[id |-> j, attempts |-> job[j].attempts] :
                                j \in {k \in Jobs : /\ job[k].status = "processing"
                                                    /\ job[k].lease = "expired"}}
      BY <1>3 DEF ReclaimRead, TypeOK, Worker
    <3> QED  BY <3>1, <3>2
  <2>2. \A v \in Workers, j \in Jobs : Parsing(v, j)' => Parsing(v, j) /\ worker'[v] = worker[v]
    BY <1>2, <2>1 DEF Parsing
  <2>3. \A v \in Workers : Known(v)'
    BY <1>2, <2>1 DEF FileInv, CopiedFiles, Known, Uploaded
  <2>4. CopiedFiles'
    BY <1>1, <2>3 DEF FileInv, CopiedFiles, FirstRead
  <2>5. \A j \in Jobs : Awaiting(j)' /\ FirstRead(doc'[j].parsed)
    BY <1>1 DEF FileInv, JobFiles, Awaiting, FirstRead
  <2>6. \A j \in Jobs : (Uploaded(j)' <=> Uploaded(j)) /\ (Uploaded(j) => job'[j].source = 1)
    BY <2>1 DEF FileInv, JobFiles, Uploaded, Sources
  <2>7. \A j \in Jobs : doc'[j].file >= doc[j].file
    BY <1>1 DEF TypeOK, Doc, File
  <2>8. JobFiles'
    BY <2>2, <2>5, <2>6, <2>7, FileFrame DEF FileInv
  <2> QED  BY <2>4, <2>8 DEF FileInv
<1>4. ASSUME NEW row \in worker[w].stale, ReclaimSave(w, row)
      PROVE  FileInv'
  <2>1. row.id \in Jobs /\ Uploaded(row.id) /\ job[row.id] \in Job
    BY DEF FileInv, CopiedFiles, Known, TypeOK, Worker, StaleRow
  <2>2. \A j \in Jobs : j # row.id => job'[j] = job[j]
    BY <1>4 DEF ReclaimSave, TypeOK
  <2>3. job'[row.id].source = job[row.id].source /\ job'[row.id].status # "none"
    <3> DEFINE st == IF row.attempts < MaxAttempts THEN "pending" ELSE "failed"
    <3>1. job'[row.id] = [job[row.id] EXCEPT !.status = st, !.due = TRUE, !.lease = "none"]
      BY <1>4, <2>1 DEF ReclaimSave, TypeOK, Job
    <3>2. st # "none"
      OBVIOUS
    <3> HIDE DEF st
    <3> QED  BY <2>1, <3>1, <3>2 DEF Job
  <2>4. /\ worker[w].pc = "reclaim" /\ worker'[w].pc = "reclaim"
        /\ worker'[w].stale \subseteq worker[w].stale
    BY <1>4 DEF ReclaimSave, TypeOK, Worker
  <2>5. \A j \in Jobs : job'[j].source = job[j].source /\ (Uploaded(j)' <=> Uploaded(j))
    BY <2>1, <2>2, <2>3 DEF Uploaded
  <2>6. \A v \in Workers, j \in Jobs : Parsing(v, j)' => Parsing(v, j) /\ worker'[v] = worker[v]
    BY <1>2, <2>4 DEF Parsing
  <2>7. \A v \in Workers : worker'[v].stale \subseteq worker[v].stale
    BY <1>2, <2>4
  <2> QED  BY <1>1, <2>5, <2>6, <2>7, FileQuiet
<1>5. CASE ReclaimEnd(w)
  <2>1. job' = job /\ worker'[w].pc = "list" /\ worker'[w].stale = worker[w].stale
    BY <1>5 DEF ReclaimEnd, queueVars, TypeOK, Worker
  <2>2. \A v \in Workers, j \in Jobs : Parsing(v, j)' => Parsing(v, j) /\ worker'[v] = worker[v]
    BY <1>2, <2>1 DEF Parsing
  <2>3. \A v \in Workers : worker'[v].stale \subseteq worker[v].stale
    BY <1>2, <2>1
  <2> QED  BY <1>1, <2>1, <2>2, <2>3, FileQuiet DEF Uploaded
<1> QED  BY <1>3, <1>4, <1>5 DEF Reclaim

(* A pass that moves on without touching a row. *)
LEMMA FileMovesOn ==
  ASSUME TypeOK, TypeOK', FileInv, NEW w \in Workers,
         UNCHANGED <<job, doc, restoring, scrubbing>>,
         \A v \in Workers : v # w => worker'[v] = worker[v],
         worker'[w].pc # "parse", worker'[w].stale \subseteq worker[w].stale
  PROVE  FileInv'
<1>1. \A v \in Workers, j \in Jobs : Parsing(v, j)' => Parsing(v, j) /\ worker'[v] = worker[v]
  BY DEF Parsing
<1>2. \A v \in Workers : worker'[v].stale \subseteq worker[v].stale
  OBVIOUS
<1> QED  BY <1>1, <1>2, FileQuiet DEF Uploaded

LEMMA FileEndPass ==
  ASSUME TypeOK, TypeOK', FileInv, NEW w \in Workers,
         ListPending(w) \/ EndPass(w) \/ Crash(w)
  PROVE  FileInv'
<1>1. /\ UNCHANGED <<job, doc, restoring, scrubbing>>
      /\ \A v \in Workers : v # w => worker'[v] = worker[v]
  BY DEF ListPending, EndPass, Crash, queueVars, TypeOK
<1>2. worker'[w].pc # "parse" /\ worker'[w].stale \subseteq worker[w].stale
  <2>1. CASE EndPass(w) \/ Crash(w)
    BY <2>1 DEF EndPass, Crash, Idle, TypeOK
  <2>2. CASE ListPending(w)
    BY <2>2 DEF ListPending, TypeOK, Worker
  <2> QED  BY <2>1, <2>2
<1> QED  BY <1>1, <1>2, FileMovesOn

LEMMA FilePass ==
  ASSUME TypeOK, TypeOK', FileInv, NEW w \in Workers, NEW k \in Jobs,
         SkipClaim(w, k) \/ FollowUp(w, k) \/ FinalizeSkipped(w, k) \/ FinalizeRaises(w, k)
  PROVE  FileInv'
<1>1. /\ UNCHANGED <<job, doc, restoring, scrubbing>>
      /\ \A v \in Workers : v # w => worker'[v] = worker[v]
  BY DEF SkipClaim, FollowUp, FinalizeSkipped, FinalizeRaises, Advance, queueVars, TypeOK
<1>2. worker'[w].pc # "parse" /\ worker'[w].stale \subseteq worker[w].stale
  <2>1. CASE FinalizeRaises(w, k)
    BY <2>1 DEF FinalizeRaises, Idle, TypeOK
  <2>2. CASE Advance(w, k)
    BY <2>2 DEF Advance, TypeOK, Worker
  <2> QED  BY <2>1, <2>2 DEF SkipClaim, FollowUp, FinalizeSkipped
<1> QED  BY <1>1, <1>2, FileMovesOn

LEMMA FileClaim ==
  ASSUME TypeOK, TypeOK', FileInv, NEW w \in Workers, NEW k \in Jobs, Claim(w, k)
  PROVE  FileInv'
<1>1. UNCHANGED <<doc, restoring, scrubbing>>
  BY DEF Claim
<1>2. /\ \A v \in Workers : v # w => worker'[v] = worker[v]
      /\ \A j \in Jobs : j # k => job'[j] = job[j]
  BY DEF Claim, TypeOK
<1>3. /\ worker'[w].source = job[k].source /\ worker'[w].file = doc[k].file
      /\ worker'[w].stale = worker[w].stale /\ worker'[w].queue = worker[w].queue
      /\ IsFirst(k, worker[w].queue) /\ worker[w].queue \in SUBSET Jobs
  BY DEF Claim, TypeOK, Worker
<1>4. /\ job[k].status = "pending" /\ job'[k].status = "processing"
      /\ job'[k].source = job[k].source
  BY DEF Claim, TypeOK, Job
<1>5. \A j \in Jobs : job'[j].source = job[j].source /\ (Uploaded(j)' <=> Uploaded(j))
  BY <1>2, <1>4 DEF Uploaded
<1>6. ASSUME NEW v \in Workers, NEW j \in Jobs
      PROVE  Reading(v, j)'
  <2>1. CASE v # w
    BY <1>1, <1>2, <1>5, <2>1 DEF FileInv, JobFiles, Reading, Parsing
  <2>2. CASE v = w
    <3> SUFFICES ASSUME Parsing(w, j)'
                 PROVE  /\ Uploaded(j)' /\ worker'[w].source = 1
                        /\ worker'[w].file >= 1 /\ worker'[w].file <= doc'[j].file
      BY <2>2 DEF Reading
    <3>1. j <= k /\ k <= j
      BY <1>3 DEF Parsing, IsFirst
    <3>2. j = k
      BY <3>1, ConstantsAssumption
    <3>3. Uploaded(k) /\ Sources(k) /\ doc[k].file \in Nat
      BY <1>4 DEF FileInv, JobFiles, Uploaded, TypeOK, Doc, File
    <3> QED  BY <1>1, <1>3, <1>5, <3>2, <3>3 DEF Sources
  <2> QED  BY <2>1, <2>2
<1>7. \A j \in Jobs : Sources(j)' /\ Awaiting(j)' /\ FirstRead(doc'[j].parsed)
  BY <1>1, <1>5 DEF FileInv, JobFiles, Sources, Awaiting, FirstRead
<1>8. CopiedFiles'
  BY <1>1, <1>2, <1>3, <1>5, CopiesFrame DEF FileInv
<1> QED  BY <1>6, <1>7, <1>8 DEF FileInv, JobFiles, FirstRead

(* The four finalisers that write: w is parsing k, so it read file 1, and    *)
(* the match of file names shows the document still has it.                  *)
LEMMA FileFinalize ==
  ASSUME TypeOK, TypeOK', FileInv, NEW w \in Workers, NEW k \in Jobs,
         \/ FinalizeFailedDocument(w, k) \/ FinalizeSuccessfulDocument(w, k)
         \/ FinalizeFailedAuto(w, k) \/ FinalizeSuccessfulAuto(w, k)
  PROVE  FileInv'
<1>1. /\ Parsing(w, k) /\ UNCHANGED <<restoring, scrubbing>>
      /\ \A v \in Workers : v # w => worker'[v] = worker[v]
      /\ \A j \in Jobs : j # k => job'[j] = job[j] /\ doc'[j] = doc[j]
  BY DEF FinalizeFailedDocument, FinalizeSuccessfulDocument, FinalizeFailedAuto,
         FinalizeSuccessfulAuto, Advance, TypeOK
<1>2. /\ worker[w].source = 1 /\ worker[w].file >= 1 /\ worker[w].file <= doc[k].file
      /\ worker[w].file \in Nat /\ doc[k].file \in Nat
      /\ Uploaded(k) /\ job[k].source = 1 /\ Awaiting(k) /\ FirstRead(doc[k].parsed)
  BY <1>1 DEF FileInv, JobFiles, Reading, Sources, TypeOK, Worker, Doc, File
<1>3. worker'[w].pc # "parse" /\ worker'[w].stale = worker[w].stale
  <2>1. CASE Advance(w, k)
    BY <2>1 DEF Advance, TypeOK, Worker
  <2>2. CASE FinalizeSuccessfulAuto(w, k)
    BY <2>2 DEF FinalizeSuccessfulAuto, TypeOK, Worker
  <2> QED  BY <2>1, <2>2
           DEF FinalizeFailedDocument, FinalizeSuccessfulDocument, FinalizeFailedAuto
<1>4. job[k] \in Job /\ doc[k] \in Doc
  BY DEF TypeOK
<1>5. job'[k].status # "none" /\ job'[k].source = 1
  <2>1. CASE FinalizeFailedDocument(w, k)
    <3> DEFINE retry == job[k].attempts < MaxAttempts
               st == IF retry THEN "pending" ELSE "failed"
    <3>1. job'[k] = [job[k] EXCEPT !.status = st, !.due = job[k].attempts >= MaxAttempts, !.lease = "none"]
      BY <2>1 DEF FinalizeFailedDocument, TypeOK, Job
    <3>2. st # "none"
      OBVIOUS
    <3> HIDE DEF st
    <3> QED  BY <1>2, <1>4, <3>1, <3>2 DEF Job
  <2>2. CASE FinalizeSuccessfulDocument(w, k)
    <3>1. job'[k] = [job[k] EXCEPT !.status = "completed", !.due = TRUE, !.lease = "none"]
      BY <2>2 DEF FinalizeSuccessfulDocument, TypeOK, Job
    <3> QED  BY <1>2, <1>4, <3>1 DEF Job
  <2>3. CASE FinalizeFailedAuto(w, k)
    <3>1. job'[k] = [job[k] EXCEPT !.status = "failed", !.source = worker[w].source]
      BY <2>3 DEF FinalizeFailedAuto, TypeOK, Job
    <3> QED  BY <1>2, <1>4, <3>1 DEF Job
  <2>4. CASE FinalizeSuccessfulAuto(w, k)
    <3>1. job'[k] = [job[k] EXCEPT !.status = "completed", !.source = worker[w].source]
      BY <2>4 DEF FinalizeSuccessfulAuto, TypeOK, Job
    <3> QED  BY <1>2, <1>4, <3>1 DEF Job
  <2> QED  BY <2>1, <2>2, <2>3, <2>4
<1>6. doc'[k].file = doc[k].file /\ Awaiting(k)' /\ FirstRead(doc'[k].parsed)
  <2>1. CASE FinalizeFailedDocument(w, k)
    <3>1. doc'[k] = [doc[k] EXCEPT !.ocr = "failed", !.awaiting = FALSE]
      BY <2>1 DEF FinalizeFailedDocument, TypeOK, Doc
    <3> QED  BY <1>2, <1>4, <3>1 DEF Doc, Awaiting, FirstRead
  <2>2. CASE FinalizeSuccessfulDocument(w, k)
    <3> DEFINE p == [what |-> "pii", of |-> worker[w].file]
    <3>1. doc'[k] = [doc[k] EXCEPT !.ocr = "success", !.awaiting = TRUE, !.parsed = p]
      BY <2>2 DEF FinalizeSuccessfulDocument, TypeOK, Doc
    <3>2. doc[k].file = 1 /\ worker[w].file = 1 /\ k \in Wezwanie
      BY <1>2, <2>2 DEF FinalizeSuccessfulDocument, MatchesProcessingState
    <3>3. p.of = 1
      BY <3>2
    <3> HIDE DEF p
    <3> QED  BY <1>4, <3>1, <3>2, <3>3 DEF Doc, Awaiting, FirstRead
  <2>3. CASE FinalizeFailedAuto(w, k)
    <3>1. doc'[k] = [doc[k] EXCEPT !.ocr = "failed"] /\ k \notin Wezwanie
      BY <2>3 DEF FinalizeFailedAuto, TypeOK, Doc
    <3> QED  BY <1>2, <1>4, <3>1 DEF Doc, Awaiting, FirstRead
  <2>4. CASE FinalizeSuccessfulAuto(w, k)
    <3> DEFINE p == [what |-> "auto", of |-> worker[w].file]
    <3>1. doc'[k] = [doc[k] EXCEPT !.ocr = "success", !.parsed = p] /\ k \notin Wezwanie
      BY <2>4 DEF FinalizeSuccessfulAuto, TypeOK, Doc
    <3>2. p.what = "auto"
      OBVIOUS
    <3> HIDE DEF p
    <3> QED  BY <1>2, <1>4, <3>1, <3>2 DEF Doc, Awaiting, FirstRead
  <2> QED  BY <2>1, <2>2, <2>3, <2>4
<1>7. \A j \in Jobs : Uploaded(j)' <=> Uploaded(j)
  BY <1>1, <1>2, <1>5 DEF Uploaded
<1>8. \A j \in Jobs : Uploaded(j) => job'[j].source = 1
  BY <1>1, <1>5 DEF FileInv, JobFiles, Sources
<1>9. \A j \in Jobs : doc'[j].file >= doc[j].file
  BY <1>1, <1>6 DEF TypeOK, Doc, File
<1>10. ASSUME NEW j \in Jobs
       PROVE  Awaiting(j)' /\ FirstRead(doc'[j].parsed)
  <2>1. CASE j = k
    BY <1>6, <2>1
  <2>2. CASE j # k
    BY <1>1, <2>2 DEF FileInv, JobFiles, Awaiting
  <2> QED  BY <2>1, <2>2
<1>11. \A v \in Workers, j \in Jobs : Parsing(v, j)' => Parsing(v, j) /\ worker'[v] = worker[v]
  BY <1>1, <1>3 DEF Parsing
<1>12. JobFiles'
  BY <1>7, <1>8, <1>9, <1>10, <1>11, FileFrame DEF FileInv
<1>13. CopiedFiles'
  <2>1. \A v \in Workers : worker'[v].stale \subseteq worker[v].stale
    BY <1>1, <1>3
  <2> QED  BY <1>1, <1>7, <2>1, CopiesFrame DEF FileInv
<1> QED  BY <1>12, <1>13 DEF FileInv

(* Staff and maintenance write documents only.  It is enough to look at the  *)
(* documents they write and at the rows they keep for later.                 *)
LEMMA FileStaff ==
  ASSUME TypeOK, TypeOK', FileInv, UNCHANGED <<job, worker>>,
         \A j \in Jobs : doc'[j].file >= doc[j].file,
         \A j \in Jobs : Awaiting(j)' /\ FirstRead(doc'[j].parsed),
         restoring' # NoCopy => FirstRead(restoring'.parsed),
         \A row \in scrubbing' : row.of = 1
  PROVE  FileInv'
<1>1. \A j \in Jobs : (Uploaded(j)' <=> Uploaded(j)) /\ (Uploaded(j) => job'[j].source = 1)
  BY DEF Uploaded, FileInv, JobFiles, Sources
<1>2. \A w \in Workers, j \in Jobs : Parsing(w, j)' => Parsing(w, j) /\ worker'[w] = worker[w]
  BY DEF Parsing
<1>3. JobFiles'
  BY <1>1, <1>2, FileFrame DEF FileInv
<1>4. \A w \in Workers : Known(w)'
  BY DEF FileInv, CopiedFiles, Known, Uploaded
<1>5. CopiedFiles'
  BY <1>4 DEF CopiedFiles, FirstRead
<1> QED  BY <1>3, <1>5 DEF FileInv

LEMMA FileStaffOne ==
  ASSUME TypeOK, TypeOK', FileInv, NEW k \in Jobs,
         ConfirmWezwanie(k) \/ ToggleOn(k) \/ ToggleOff(k)
           \/ RejectDocument(k) \/ DeleteDocument(k)
  PROVE  FileInv'
<1>1. /\ UNCHANGED <<job, worker, restoring, scrubbing>>
      /\ \A j \in Jobs : j # k => doc'[j] = doc[j]
  BY DEF ConfirmWezwanie, ToggleOn, ToggleOff, RejectDocument, DeleteDocument, queueVars, TypeOK
<1>2. doc[k] \in Doc /\ Awaiting(k) /\ FirstRead(doc[k].parsed)
  BY DEF TypeOK, FileInv, JobFiles
<1>3. doc'[k].file = doc[k].file /\ Awaiting(k)' /\ FirstRead(doc'[k].parsed)
  <2>1. CASE ConfirmWezwanie(k)
    <3> DEFINE p == [what |-> "confirmed", of |-> 0]
    <3>1. doc'[k] = [doc[k] EXCEPT !.awaiting = FALSE, !.ocr = "success", !.parsed = p]
      BY <2>1 DEF ConfirmWezwanie, TypeOK, Doc
    <3>2. p.what = "confirmed"
      OBVIOUS
    <3> HIDE DEF p
    <3> QED  BY <1>2, <3>1, <3>2 DEF Doc, Awaiting, FirstRead
  <2>2. CASE ToggleOn(k)
    <3>1. doc'[k] = [doc[k] EXCEPT !.verified = TRUE, !.awaiting = FALSE, !.rejected = FALSE]
      BY <2>2 DEF ToggleOn, TypeOK, Doc
    <3> QED  BY <1>2, <3>1 DEF Doc, Awaiting, FirstRead
  <2>3. CASE ToggleOff(k)
    <3>1. doc'[k] = [doc[k] EXCEPT !.verified = FALSE]
      BY <2>3 DEF ToggleOff, TypeOK, Doc
    <3> QED  BY <1>2, <3>1 DEF Doc, Awaiting, FirstRead
  <2>4. CASE RejectDocument(k)
    <3>1. doc'[k] = [doc[k] EXCEPT !.verified = FALSE, !.awaiting = FALSE, !.rejected = TRUE]
      BY <2>4 DEF RejectDocument, TypeOK, Doc
    <3> QED  BY <1>2, <3>1 DEF Doc, Awaiting, FirstRead
  <2>5. CASE DeleteDocument(k)
    <3>1. doc'[k] = [doc[k] EXCEPT !.archived = TRUE]
      BY <2>5 DEF DeleteDocument, TypeOK, Doc
    <3> QED  BY <1>2, <3>1 DEF Doc, Awaiting, FirstRead
  <2> QED  BY <2>1, <2>2, <2>3, <2>4, <2>5
<1>4. \A j \in Jobs : doc'[j].file >= doc[j].file
  BY <1>1, <1>3 DEF TypeOK, Doc, File
<1>5. ASSUME NEW j \in Jobs
      PROVE  Awaiting(j)' /\ FirstRead(doc'[j].parsed)
  <2>1. CASE j = k
    BY <1>3, <2>1
  <2>2. CASE j # k
    BY <1>1, <2>2 DEF FileInv, JobFiles, Awaiting
  <2> QED  BY <2>1, <2>2
<1> QED  BY <1>1, <1>4, <1>5, FileStaff DEF FileInv, CopiedFiles

LEMMA FileMaintenance ==
  ASSUME TypeOK, TypeOK', FileInv,
         \/ \E k \in Jobs : RestoreRead(k)
         \/ \E S \in SUBSET Jobs : VerifyAll(S)
         \/ RestoreSave \/ ScrubRead \/ ScrubSave
  PROVE  FileInv'
<1>0. UNCHANGED <<job, worker>>
  BY DEF RestoreRead, VerifyAll, RestoreSave, ScrubRead, ScrubSave, queueVars
<1>1. /\ \A j \in Jobs : doc[j] \in Doc /\ Awaiting(j) /\ FirstRead(doc[j].parsed)
      /\ restoring # NoCopy => FirstRead(restoring.parsed)
      /\ \A row \in scrubbing : row.of = 1
  BY DEF TypeOK, FileInv, JobFiles, CopiedFiles
<1>2. ASSUME doc' = doc
      PROVE  \A j \in Jobs : /\ doc'[j].file >= doc[j].file
                             /\ Awaiting(j)' /\ FirstRead(doc'[j].parsed)
  BY <1>1, <1>2 DEF Awaiting, Doc, File
<1>3. ASSUME NEW k \in Jobs, RestoreRead(k)
      PROVE  FileInv'
  <2>1. doc' = doc /\ scrubbing' = scrubbing /\ restoring'.parsed = doc[k].parsed
    BY <1>3 DEF RestoreRead
  <2>2. FirstRead(restoring'.parsed)
    BY <1>1, <2>1
  <2> QED  BY <1>0, <1>1, <1>2, <2>1, <2>2, FileStaff
<1>4. ASSUME NEW S \in SUBSET Jobs, VerifyAll(S)
      PROVE  FileInv'
  <2>1. ASSUME NEW j \in Jobs
        PROVE  doc'[j].file >= doc[j].file /\ Awaiting(j)' /\ FirstRead(doc'[j].parsed)
    <3>1. CASE j \in S
      <4>1. doc'[j] = [doc[j] EXCEPT !.verified = TRUE, !.awaiting = FALSE]
        BY <1>4, <3>1 DEF VerifyAll
      <4> QED  BY <1>1, <4>1 DEF Awaiting, FirstRead, Doc, File
    <3>2. CASE j \notin S
      <4>1. doc'[j] = doc[j]
        BY <1>4, <3>2 DEF VerifyAll
      <4> QED  BY <1>1, <4>1 DEF Awaiting, Doc, File
    <3> QED  BY <3>1, <3>2
  <2>2. UNCHANGED <<restoring, scrubbing>>
    BY <1>4 DEF VerifyAll
  <2> QED  BY <1>0, <1>1, <2>1, <2>2, FileStaff
<1>5. CASE RestoreSave
  <2>1. restoring \in Copy /\ FirstRead(restoring.parsed)
    BY <1>1, <1>5 DEF RestoreSave, TypeOK
  <2> DEFINE k == restoring.id
  <2>2. k \in Jobs /\ \A j \in Jobs : j # k => doc'[j] = doc[j]
    BY <1>5, <2>1 DEF RestoreSave, TypeOK, Copy
  <2>3. /\ doc'[k].file = doc[k].file + 1 /\ doc'[k].awaiting = FALSE
        /\ doc'[k].parsed = restoring.parsed
    BY <1>5, <2>2 DEF RestoreSave, TypeOK
  <2> HIDE DEF k
  <2>4. \A j \in Jobs : doc'[j].file >= doc[j].file
    BY <1>1, <2>2, <2>3 DEF Doc, File
  <2>5. ASSUME NEW j \in Jobs PROVE Awaiting(j)' /\ FirstRead(doc'[j].parsed)
    <3>1. CASE j = k
      BY <2>1, <2>3, <3>1 DEF Awaiting
    <3>2. CASE j # k
      BY <1>1, <2>2, <3>2 DEF Awaiting
    <3> QED  BY <3>1, <3>2
  <2>6. restoring' = NoCopy /\ scrubbing' = scrubbing
    BY <1>5 DEF RestoreSave
  <2> QED  BY <1>0, <1>1, <2>4, <2>5, <2>6, FileStaff
<1>6. CASE ScrubRead
  <2>1. doc' = doc /\ restoring' = restoring
    BY <1>6 DEF ScrubRead
  <2>2. \A row \in scrubbing' : row.of = 1
    BY <1>1, <1>6 DEF ScrubRead, FirstRead
  <2> QED  BY <1>0, <1>1, <1>2, <2>1, <2>2, FileStaff
<1>7. CASE ScrubSave
  <2>1. ASSUME NEW j \in Jobs
        PROVE  doc'[j].file >= doc[j].file /\ Awaiting(j)' /\ FirstRead(doc'[j].parsed)
    <3>1. CASE \E row \in scrubbing : row.id = j
      <4> DEFINE p == [what |-> "scrubbed", of |-> (CHOOSE row \in scrubbing : row.id = j).of]
      <4>1. p.of = 1 /\ p.what = "scrubbed"
        BY <1>1, <3>1
      <4>2. doc'[j] = [doc[j] EXCEPT !.parsed = p]
        BY <1>7, <3>1 DEF ScrubSave
      <4> HIDE DEF p
      <4> QED  BY <1>1, <4>1, <4>2 DEF Doc, File, Awaiting, FirstRead
    <3>2. CASE ~\E row \in scrubbing : row.id = j
      <4>1. doc'[j] = doc[j]
        BY <1>7, <3>2 DEF ScrubSave
      <4> QED  BY <1>1, <4>1 DEF Awaiting, Doc, File
    <3> QED  BY <3>1, <3>2
  <2>2. restoring' = restoring /\ scrubbing' = {}
    BY <1>7 DEF ScrubSave
  <2> QED  BY <1>0, <1>1, <2>1, <2>2, FileStaff
<1> QED  BY <1>3, <1>4, <1>5, <1>6, <1>7

LEMMA FileStep == TypeOK /\ FileInv /\ [Next]_vars => FileInv'
<1> SUFFICES ASSUME TypeOK, FileInv, [Next]_vars PROVE FileInv'
  OBVIOUS
<1>0. TypeOK'
  BY TypeStep
<1>1. CASE Upload
  BY <1>0, <1>1, FileUpload DEF Upload
<1>2. CASE Time
  BY <1>0, <1>2, FileTime DEF Time
<1>3. ASSUME NEW w \in Workers, NEW k \in Jobs,
             SkipClaim(w, k) \/ Claim(w, k) \/ Finalize(w, k) \/ FollowUp(w, k)
      PROVE  FileInv'
  BY <1>0, <1>3, FileClaim, FilePass, FileFinalize DEF Finalize
<1>4. ASSUME NEW w \in Workers, Reclaim(w)
      PROVE  FileInv'
  BY <1>0, <1>4, FileReclaim
<1>5. ASSUME NEW w \in Workers, ListPending(w) \/ EndPass(w) \/ Crash(w)
      PROVE  FileInv'
  BY <1>0, <1>5, FileEndPass
<1>6. CASE Staff
  BY <1>0, <1>6, FileStaffOne, FileMaintenance DEF Staff
<1>7. CASE UNCHANGED vars
  <2>1. UNCHANGED <<job, doc, worker, restoring, scrubbing>>
    BY <1>7 DEF vars
  <2> QED  BY <1>0, <2>1, FileQuiet DEF Uploaded, Parsing
<1> QED  BY <1>1, <1>2, <1>3, <1>4, <1>5, <1>6, <1>7 DEF Next, PassStep

(* Whatever the order of parses, retries, restores, staff actions and        *)
(* scrubs, a document awaits confirmation only with the fields of the file   *)
(* it has now: the check of the file name at the end of a parse is enough.   *)
THEOREM ConfirmsCurrentFile == Spec => []AwaitsCurrentFile
<1>1. FileInv => AwaitsCurrentFile
  BY DEF FileInv, JobFiles, Awaiting, AwaitsCurrentFile
<1>2. TypeOK /\ FileInv /\ [Next]_vars => (TypeOK /\ FileInv)'
  BY TypeStep, FileStep
<1> QED  BY TypeInit, FileInit, <1>1, <1>2, PTL DEF Spec
=============================================================================
