------------------------------- MODULE OcrJobs -------------------------------
(***************************************************************************)
(* The OCR job queue and the part of a document it drives                  *)
(* (clients/services/document_jobs.py, document_job_processors.py, the     *)
(* staff actions of use_cases/documents.py, views/documents.py and         *)
(* services/document_versions.py, and the scrub_ocr_pii command).          *)
(*                                                                         *)
(* An upload creates one document and one job for it, so both carry the    *)
(* same number, and created_at order is the order of the numbers.  The     *)
(* background loop, the cron webhook and the management command all run    *)
(* the same pass: reclaim stale jobs, list the runnable ones, then claim,  *)
(* parse and finalise each.  Nothing keeps two passes from overlapping.    *)
(***************************************************************************)
EXTENDS Integers, FiniteSets

CONSTANTS
  NumJobs,       \* documents uploaded in a behaviour
  Wezwanie,      \* the jobs whose type is wezwanie_ocr; the others are automatic
  Workers,       \* processes that run passes
  MaxAttempts,   \* DEFAULT_JOB_MAX_ATTEMPTS
  Limit,         \* the limit argument of a pass
  MaxFile,       \* bound: file names a document may have had
  MaxCrashes     \* bound: passes that die

Jobs == 1..NumJobs

ASSUME ConstantsAssumption ==
  /\ NumJobs \in Nat
  /\ Wezwanie \subseteq Jobs
  /\ MaxAttempts \in Nat \ {0}
  /\ Limit \in Nat \ {0}
  /\ MaxFile \in Nat \ {0}
  /\ MaxCrashes \in Nat

VARIABLES
  job,       \* the DocumentProcessingJob rows
  doc,       \* the Document rows
  worker,    \* the local state of each pass
  overrun,   \* history: some lease of this job ran out while it was processing
  followed,  \* jobs whose after-commit work (employer proposal, MOS prefill) ran
  restoring, \* the request restoring a document version, if one is running
  scrubbing, \* the rows a running scrub_ocr_pii read, by document
  crashes    \* passes that died so far

vars == <<job, doc, worker, overrun, followed, restoring, scrubbing, crashes>>
queueVars == <<job, overrun, followed, crashes>>

-----------------------------------------------------------------------------
(* Types.  "none" is the status of a job whose upload has not happened.  A  *)
(* file name is its number: storage never hands out the same name twice;    *)
(* 0 stands for no file.                                                    *)

Status == {"none", "pending", "processing", "completed", "failed"}
Lease == {"none", "live", "expired"}
OcrStatus == {"skipped", "pending", "success", "failed"}
File == Nat

\* parsed_data: what it holds, and the file it was read from
Parsed == [what : {"none", "pii", "scrubbed", "confirmed", "auto"}, of : File]
NoParsed == [what |-> "none", of |-> 0]

Job == [status : Status, attempts : Nat, due : BOOLEAN, lease : Lease, source : File]

Doc == [file : File, ocr : OcrStatus, awaiting : BOOLEAN, verified : BOOLEAN,
        rejected : BOOLEAN, archived : BOOLEAN, parsed : Parsed]

StaleRow == [id : Jobs, attempts : Nat]

Worker == [pc : {"idle", "reclaim", "list", "dispatch", "parse", "followup"},
           stale : SUBSET StaleRow, queue : SUBSET Jobs, source : File, file : File]

Idle == [pc |-> "idle", stale |-> {}, queue |-> {}, source |-> 0, file |-> 0]

\* the columns of its own copy that a version restore writes back unchanged
Copy == [id : Jobs, parsed : Parsed, rejected : BOOLEAN, archived : BOOLEAN]
NoCopy == [id |-> 0]

TypeOK ==
  /\ job \in [Jobs -> Job]
  /\ doc \in [Jobs -> Doc]
  /\ worker \in [Workers -> Worker]
  /\ overrun \in [Jobs -> BOOLEAN]
  /\ followed \subseteq Jobs
  /\ restoring \in Copy \cup {NoCopy}
  /\ scrubbing \in SUBSET [id : Jobs, of : File]
  /\ crashes \in 0..MaxCrashes

-----------------------------------------------------------------------------
(* Helpers *)

Uploaded(j) == job[j].status # "none"

Terminal == {"completed", "failed"}

(* Definitions headed "fault:" are what a plausible mistake would make of    *)
(* the definition that follows; they show that the properties can fail.      *)

\* after a failed attempt or a lost one
StatusAfterFailure(attempts) == IF attempts < MaxAttempts THEN "pending" ELSE "failed"

\* fault: the last attempt is never selected
RunnableOneTryFewer(j) ==
  job[j].status = "pending" /\ job[j].attempts + 1 < MaxAttempts /\ job[j].due

\* the rows a pass selects: pending, attempts left, backoff over
Runnable(j) == job[j].status = "pending" /\ job[j].attempts < MaxAttempts /\ job[j].due

\* queryset[:limit] of the rows in creation order
FirstRows(S) == {j \in S : Cardinality({k \in S : k < j}) < Limit}

IsFirst(j, S) == j \in S /\ \A k \in S : j <= k

\* w has claimed j: a pass takes its list in order
Parsing(w, j) == worker[w].pc = "parse" /\ IsFirst(j, worker[w].queue)

\* the job behind w is done with: the pass goes on with the rest of its list
Advance(w, j) ==
  worker' = [worker EXCEPT ![w].pc = "dispatch", ![w].queue = @ \ {j},
                           ![w].source = 0, ![w].file = 0]

\* fault: the file is not compared
MatchesAnyFile(w, j) == job[j].status = "processing" /\ job[j].source = worker[w].source

\* _job_matches_processing_state: nobody finished the job, and the file is
\* still the one that was queued
MatchesProcessingState(w, j) ==
  /\ job[j].status = "processing"
  /\ job[j].source = worker[w].source
  /\ worker[w].source = doc[j].file

-----------------------------------------------------------------------------
(* Upload: the document, its job and, for the inline wezwanie parse, the    *)
(* first attempt are all written by one transaction of the upload view.     *)

NewDoc(ocr, awaiting, parsed) ==
  [file |-> 1, ocr |-> ocr, awaiting |-> awaiting, verified |-> FALSE,
   rejected |-> FALSE, archived |-> FALSE, parsed |-> parsed]

NextUpload(j) ==
  /\ ~Uploaded(j)
  /\ \A k \in Jobs : k < j => Uploaded(k)

\* the job is left to the background passes
UploadQueued(j) ==
  /\ NextUpload(j)
  /\ job' = [job EXCEPT ![j] = [status |-> "pending", attempts |-> 0, due |-> TRUE,
                                lease |-> "none", source |-> 1]]
  /\ doc' = [doc EXCEPT ![j] = NewDoc("pending", FALSE, NoParsed)]
  /\ UNCHANGED <<worker, overrun, followed, restoring, scrubbing, crashes>>

\* staff asked to recognise a wezwanie at once, and the parser read it
UploadInlineRead(j) ==
  /\ NextUpload(j)
  /\ j \in Wezwanie
  /\ job' = [job EXCEPT ![j] = [status |-> "completed", attempts |-> 1, due |-> TRUE,
                                lease |-> "none", source |-> 1]]
  /\ doc' = [doc EXCEPT ![j] = NewDoc("success", TRUE, [what |-> "pii", of |-> 1])]
  /\ UNCHANGED <<worker, overrun, followed, restoring, scrubbing, crashes>>

\* ... or could not, and the job waits for a background retry
UploadInlineUnread(j) ==
  /\ NextUpload(j)
  /\ j \in Wezwanie
  /\ job' = [job EXCEPT ![j] = [status |-> StatusAfterFailure(1),
                                attempts |-> 1, due |-> 1 >= MaxAttempts,
                                lease |-> "none", source |-> 1]]
  /\ doc' = [doc EXCEPT ![j] = NewDoc("failed", FALSE, NoParsed)]
  /\ UNCHANGED <<worker, overrun, followed, restoring, scrubbing, crashes>>

-----------------------------------------------------------------------------
(* Time *)

\* next_attempt_at is reached
BackoffElapses(j) ==
  /\ Uploaded(j) /\ ~job[j].due
  /\ job' = [job EXCEPT ![j].due = TRUE]
  /\ UNCHANGED <<doc, worker, overrun, followed, restoring, scrubbing, crashes>>

\* lease_expires_at is reached before the job is finalised
LeaseExpires(j) ==
  /\ job[j].status = "processing" /\ job[j].lease = "live"
  /\ job' = [job EXCEPT ![j].lease = "expired"]
  /\ overrun' = [overrun EXCEPT ![j] = TRUE]
  /\ UNCHANGED <<doc, worker, followed, restoring, scrubbing, crashes>>

-----------------------------------------------------------------------------
(* reclaim_stale_document_jobs: one query reads the expired rows, then each *)
(* is saved without a lock and without reading it again.                    *)

ReclaimRead(w) ==
  /\ worker[w].pc = "idle"
  /\ worker' = [worker EXCEPT
        ![w].pc = "reclaim",
        ![w].stale = {[id |-> j, attempts |-> job[j].attempts] :
                         j \in {k \in Jobs : /\ job[k].status = "processing"
                                             /\ job[k].lease = "expired"}}]
  /\ UNCHANGED <<doc, restoring, scrubbing, queueVars>>

ReclaimSave(w, row) ==
  /\ worker[w].pc = "reclaim"
  /\ row \in worker[w].stale
  /\ \A other \in worker[w].stale : row.id <= other.id
  /\ job' = [job EXCEPT
        ![row.id].status = StatusAfterFailure(row.attempts),
        ![row.id].due = TRUE,
        ![row.id].lease = "none"]
  /\ worker' = [worker EXCEPT ![w].stale = @ \ {row}]
  /\ UNCHANGED <<doc, overrun, followed, restoring, scrubbing, crashes>>

ReclaimEnd(w) ==
  /\ worker[w].pc = "reclaim" /\ worker[w].stale = {}
  /\ worker' = [worker EXCEPT ![w].pc = "list"]
  /\ UNCHANGED <<doc, restoring, scrubbing, queueVars>>

-----------------------------------------------------------------------------
(* process_pending_document_jobs: the ids are read once, then processed in  *)
(* order; process_document_processing_job claims each under a row lock but  *)
(* looks again only at its status.                                          *)

ListPending(w) ==
  /\ worker[w].pc = "list"
  /\ worker' = [worker EXCEPT ![w].pc = "dispatch",
                              ![w].queue = FirstRows({j \in Jobs : Runnable(j)})]
  /\ UNCHANGED <<doc, restoring, scrubbing, queueVars>>

Claim(w, j) ==
  /\ worker[w].pc = "dispatch" /\ IsFirst(j, worker[w].queue)
  /\ job[j].status = "pending"
  /\ job' = [job EXCEPT ![j].status = "processing", ![j].attempts = @ + 1,
                        ![j].lease = "live"]
  /\ worker' = [worker EXCEPT ![w].pc = "parse", ![w].source = job[j].source,
                              ![w].file = doc[j].file]
  /\ UNCHANGED <<doc, overrun, followed, restoring, scrubbing, crashes>>

SkipClaim(w, j) ==
  /\ worker[w].pc = "dispatch" /\ IsFirst(j, worker[w].queue)
  /\ job[j].status # "pending"
  /\ Advance(w, j)
  /\ UNCHANGED <<doc, restoring, scrubbing, queueVars>>

EndPass(w) ==
  /\ worker[w].pc = "dispatch" /\ worker[w].queue = {}
  /\ worker' = [worker EXCEPT ![w] = Idle]
  /\ UNCHANGED <<doc, restoring, scrubbing, queueVars>>

-----------------------------------------------------------------------------
(* The finalisers.  Those of a wezwanie, and the retry for data that cannot *)
(* be decrypted, lock job and document and leave a superseded job alone;    *)
(* those of the automatic types write whatever the job has become.          *)

\* "Job was superseded by a newer upload."
FinalizeSkipped(w, j) ==
  /\ Parsing(w, j)
  /\ ~doc[j].archived
  /\ ~MatchesProcessingState(w, j)
  /\ Advance(w, j)
  /\ UNCHANGED <<doc, restoring, scrubbing, queueVars>>

\* Document.objects hides an archived document: get() raises out of the pass
FinalizeRaises(w, j) ==
  /\ Parsing(w, j)
  /\ doc[j].archived
  /\ worker' = [worker EXCEPT ![w] = Idle]
  /\ UNCHANGED <<doc, restoring, scrubbing, queueVars>>

FinalizeFailedDocument(w, j) ==
  /\ Parsing(w, j)
  /\ ~doc[j].archived
  /\ MatchesProcessingState(w, j)
  /\ doc' = [doc EXCEPT ![j].ocr = "failed", ![j].awaiting = FALSE]
  /\ job' = [job EXCEPT ![j].status = StatusAfterFailure(job[j].attempts),
                        ![j].due = job[j].attempts >= MaxAttempts, ![j].lease = "none"]
  /\ Advance(w, j)
  /\ UNCHANGED <<overrun, followed, restoring, scrubbing, crashes>>

\* every wezwanie job requires confirmation: the parsed fields wait for staff
FinalizeSuccessfulDocument(w, j) ==
  /\ Parsing(w, j) /\ j \in Wezwanie
  /\ ~doc[j].archived
  /\ MatchesProcessingState(w, j)
  /\ doc' = [doc EXCEPT ![j].ocr = "success", ![j].awaiting = TRUE,
                        ![j].parsed = [what |-> "pii", of |-> worker[w].file]]
  /\ job' = [job EXCEPT ![j].status = "completed", ![j].due = TRUE, ![j].lease = "none"]
  /\ Advance(w, j)
  /\ UNCHANGED <<overrun, followed, restoring, scrubbing, crashes>>

FinalizeFailedAuto(w, j) ==
  /\ Parsing(w, j) /\ j \notin Wezwanie
  /\ doc' = [doc EXCEPT ![j].ocr = "failed"]
  /\ job' = [job EXCEPT ![j].status = "failed", ![j].source = worker[w].source]
  /\ Advance(w, j)
  /\ UNCHANGED <<overrun, followed, restoring, scrubbing, crashes>>

FinalizeSuccessfulAuto(w, j) ==
  /\ Parsing(w, j) /\ j \notin Wezwanie
  /\ doc' = [doc EXCEPT ![j].ocr = "success",
                        ![j].parsed = [what |-> "auto", of |-> worker[w].file]]
  /\ job' = [job EXCEPT ![j].status = "completed", ![j].source = worker[w].source]
  /\ worker' = [worker EXCEPT ![w].pc = "followup"]
  /\ UNCHANGED <<overrun, followed, restoring, scrubbing, crashes>>

\* fault: the work is dropped
FollowUpDropped(w, j) ==
  /\ worker[w].pc = "followup" /\ IsFirst(j, worker[w].queue)
  /\ Advance(w, j)
  /\ UNCHANGED <<job, doc, overrun, followed, restoring, scrubbing, crashes>>

\* after the commit: propose_employer, or the attempt to pre_fill_mos_data_from_ocr
FollowUp(w, j) ==
  /\ worker[w].pc = "followup" /\ IsFirst(j, worker[w].queue)
  /\ followed' = followed \cup {j}
  /\ Advance(w, j)
  /\ UNCHANGED <<job, doc, overrun, restoring, scrubbing, crashes>>

\* the process is killed, or an exception leaves the pass: only committed
\* transactions remain
Crash(w) ==
  /\ worker[w].pc # "idle" /\ crashes < MaxCrashes
  /\ worker' = [worker EXCEPT ![w] = Idle]
  /\ crashes' = crashes + 1
  /\ UNCHANGED <<job, doc, overrun, followed, restoring, scrubbing>>

-----------------------------------------------------------------------------
(* Staff actions on a document.  They write the document without a lock on  *)
(* the job and never look at the job.  A toggle works on the copy its       *)
(* request read, so it may set a flag that is set already.                  *)

ConfirmWezwanie(j) ==
  /\ Uploaded(j) /\ j \in Wezwanie /\ ~doc[j].archived
  /\ doc' = [doc EXCEPT ![j].awaiting = FALSE, ![j].ocr = "success",
                        ![j].parsed = [what |-> "confirmed", of |-> 0]]
  /\ UNCHANGED <<worker, restoring, scrubbing, queueVars>>

ToggleOn(j) ==
  /\ Uploaded(j) /\ ~doc[j].archived
  /\ doc' = [doc EXCEPT ![j].verified = TRUE, ![j].awaiting = FALSE, ![j].rejected = FALSE]
  /\ UNCHANGED <<worker, restoring, scrubbing, queueVars>>

ToggleOff(j) ==
  /\ Uploaded(j) /\ ~doc[j].archived
  /\ doc' = [doc EXCEPT ![j].verified = FALSE]
  /\ UNCHANGED <<worker, restoring, scrubbing, queueVars>>

\* one UPDATE over the client's documents that are not rejected or out of date
VerifyAll(S) ==
  /\ S # {}
  /\ \A j \in S : Uploaded(j) /\ ~doc[j].archived /\ ~doc[j].verified /\ ~doc[j].rejected
  /\ doc' = [j \in Jobs |-> IF j \in S
                            THEN [doc[j] EXCEPT !.verified = TRUE, !.awaiting = FALSE]
                            ELSE doc[j]]
  /\ UNCHANGED <<worker, restoring, scrubbing, queueVars>>

RejectDocument(j) ==
  /\ Uploaded(j) /\ ~doc[j].archived
  /\ doc' = [doc EXCEPT ![j].verified = FALSE, ![j].awaiting = FALSE, ![j].rejected = TRUE]
  /\ UNCHANGED <<worker, restoring, scrubbing, queueVars>>

DeleteDocument(j) ==
  /\ Uploaded(j) /\ ~doc[j].archived
  /\ doc' = [doc EXCEPT ![j].archived = TRUE]
  /\ UNCHANGED <<worker, restoring, scrubbing, queueVars>>

\* restore_document_version reads the row ...
RestoreRead(j) ==
  /\ restoring = NoCopy
  /\ Uploaded(j) /\ ~doc[j].archived /\ doc[j].file < MaxFile
  /\ restoring' = [id |-> j, parsed |-> doc[j].parsed, rejected |-> doc[j].rejected,
                   archived |-> doc[j].archived]
  /\ UNCHANGED <<doc, worker, scrubbing, queueVars>>

\* ... and saves every column of it, under a new file name
RestoreSave ==
  /\ restoring # NoCopy
  /\ doc' = [doc EXCEPT ![restoring.id] =
        [file |-> @.file + 1, ocr |-> "skipped", awaiting |-> FALSE, verified |-> FALSE,
         rejected |-> restoring.rejected, archived |-> restoring.archived,
         parsed |-> restoring.parsed]]
  /\ restoring' = NoCopy
  /\ UNCHANGED <<worker, scrubbing, queueVars>>

\* scrub_ocr_pii reads the rows that are not awaiting confirmation ...
ScrubRead ==
  /\ scrubbing = {}
  /\ scrubbing' = {[id |-> j, of |-> doc[j].parsed.of] :
                     j \in {k \in Jobs : /\ Uploaded(k) /\ ~doc[k].archived
                                         /\ ~doc[k].awaiting
                                         /\ doc[k].parsed.what = "pii"}}
  /\ UNCHANGED <<doc, worker, restoring, queueVars>>

\* ... and commits their scrubbed payloads together
ScrubSave ==
  /\ scrubbing # {}
  /\ doc' = [j \in Jobs |->
       IF \E row \in scrubbing : row.id = j
       THEN [doc[j] EXCEPT !.parsed =
               [what |-> "scrubbed", of |-> (CHOOSE row \in scrubbing : row.id = j).of]]
       ELSE doc[j]]
  /\ scrubbing' = {}
  /\ UNCHANGED <<worker, restoring, queueVars>>

-----------------------------------------------------------------------------
Init ==
  /\ job = [j \in Jobs |-> [status |-> "none", attempts |-> 0, due |-> FALSE,
                            lease |-> "none", source |-> 0]]
  /\ doc = [j \in Jobs |-> [file |-> 0, ocr |-> "skipped", awaiting |-> FALSE,
                            verified |-> FALSE, rejected |-> FALSE, archived |-> FALSE,
                            parsed |-> NoParsed]]
  /\ worker = [w \in Workers |-> Idle]
  /\ overrun = [j \in Jobs |-> FALSE]
  /\ followed = {}
  /\ restoring = NoCopy
  /\ scrubbing = {}
  /\ crashes = 0

Upload == \E j \in Jobs : UploadQueued(j) \/ UploadInlineRead(j) \/ UploadInlineUnread(j)

Time == \E j \in Jobs : BackoffElapses(j) \/ LeaseExpires(j)

Reclaim(w) ==
  \/ ReclaimRead(w)
  \/ \E row \in worker[w].stale : ReclaimSave(w, row)
  \/ ReclaimEnd(w)

Finalize(w, j) ==
  \/ FinalizeSkipped(w, j)
  \/ FinalizeRaises(w, j)
  \/ FinalizeFailedDocument(w, j)
  \/ FinalizeSuccessfulDocument(w, j)
  \/ FinalizeFailedAuto(w, j)
  \/ FinalizeSuccessfulAuto(w, j)

PassStep(w) ==
  \/ Reclaim(w)
  \/ ListPending(w)
  \/ \E j \in Jobs : Claim(w, j) \/ SkipClaim(w, j) \/ Finalize(w, j) \/ FollowUp(w, j)
  \/ EndPass(w)

Staff ==
  \/ \E j \in Jobs : \/ ConfirmWezwanie(j) \/ ToggleOn(j) \/ ToggleOff(j)
                     \/ RejectDocument(j) \/ DeleteDocument(j) \/ RestoreRead(j)
  \/ \E S \in SUBSET Jobs : VerifyAll(S)
  \/ RestoreSave
  \/ ScrubRead
  \/ ScrubSave

Next ==
  \/ Upload
  \/ Time
  \/ \E w \in Workers : PassStep(w) \/ Crash(w)
  \/ Staff

Spec == Init /\ [][Next]_vars

\* clocks run, and every process keeps starting passes and finishing its steps
Fairness ==
  /\ \A j \in Jobs : WF_vars(BackoffElapses(j)) /\ WF_vars(LeaseExpires(j))
  /\ \A w \in Workers : WF_vars(PassStep(w))

FairSpec == Spec /\ Fairness

-----------------------------------------------------------------------------
(* Properties *)

\* A lease is exclusive: until one of its leases runs out (the process died
\* or parsed for longer than DEFAULT_JOB_LEASE_SECONDS), a job is parsed by
\* at most one process, which finds it still processing when it comes back.
\* This is what the status check under the row lock of the claim buys, with
\* lists of ids that are stale by the time they are used.
ExclusiveLease ==
  \A j \in Jobs : ~overrun[j] =>
    \A w \in Workers : Parsing(w, j) =>
      /\ job[j].status = "processing"
      /\ \A v \in Workers : Parsing(v, j) => v = w

\* Staff are only ever asked to confirm fields read from the file they are
\* looking at: a result that arrives after the file was replaced, or after
\* another process finished the job, must not reopen the confirmation.
AwaitsCurrentFile ==
  \A j \in Jobs : doc[j].awaiting =>
    doc[j].ocr = "success" /\ doc[j].parsed.of = doc[j].file

\* Until a lease runs out, a pending job still has attempts left, so some
\* later pass selects it: no job is parked where nothing looks at it.
PendingHasAttempts ==
  \A j \in Jobs : ~overrun[j] /\ job[j].status = "pending" => job[j].attempts < MaxAttempts

\* Until a lease runs out, a finished job stays finished, whatever lists and
\* stale rows the other passes still hold.
FinishedIsFinal ==
  [][\A j \in Jobs : ~overrun[j] /\ job[j].status \in Terminal
                       => job'[j].status = job[j].status]_vars

\* A pass that is alone never claims a job before its backoff is over and
\* never beyond MaxAttempts.  (docs/OCR_WORKFLOW.md: "retries failed jobs with
\* backoff until max_attempts".)
RetriesWithBackoff ==
  [][\A j \in Jobs : job[j].status = "pending" /\ job'[j].status = "processing"
                       => job[j].due /\ job[j].attempts < MaxAttempts]_vars

\* test_job_becomes_terminal_failure_after_max_attempts: a job that used up
\* its attempts is not left pending.
TerminalAfterMaxAttempts ==
  \A j \in Jobs : job[j].status = "pending" => job[j].attempts < MaxAttempts

\* With one process running passes, the queue is the life cycle of
\* JobLifecycle: through crashes, expired leases, raised exceptions and
\* backoff, a job is tried at most MaxAttempts times, ends once for good, and
\* does end.
Phase(status) ==
  CASE status = "none" -> "absent"
    [] status = "pending" -> "waiting"
    [] status = "processing" -> "running"
    [] OTHER -> "over"

Lifecycle == INSTANCE JobLifecycle WITH
  phase <- [j \in Jobs |-> Phase(job[j].status)],
  tries <- [j \in Jobs |-> job[j].attempts]

ImplementsLifecycle == Lifecycle!Spec

\* The work after the commit of an automatic result is done unless a process
\* died; nothing ever repeats it otherwise.
FollowUpUnlessCrashed ==
  \A j \in Jobs : (j \notin Wezwanie /\ job[j].status = "completed")
                    ~> (j \in followed \/ crashes > 0)
=============================================================================
