# Legalize_site in TLA+

Legalize_site is a Django application with which a Polish legalisation office runs its
clients' residence cases: onboarding and intake, documents and their recognition, the MOS
application, wezwania (requests of the authorities), reminders, payments, e-mail, and the end
of a client's life in the system (archive, anonymisation, erasure). This directory holds TLA+
models of the parts where several processes, requests or restarts meet, the TLC
configurations that check them and theorems proved with TLAPS.

Run from this directory: `tlc -config OcrJobsRaces.cfg MCOcrJobs`, `tlapm CasesProofs.tla`.

## 1. The system and its parts

One web process (gunicorn workers) and one background automation loop share a PostgreSQL
database and a cache. The same work can also be started by a cron webhook or by hand with a
management command, and nothing but row locks, conditional updates and cache keys keeps two
starters apart. There is no message queue: every queue is a table. Most requests read their
rows without a lock and save whole rows later, so much of what is hard about this code is what
another request did in between.

| Component | State | Operations | Hard part | What must be right |
|---|---|---|---|---|
| **OCR job queue** (`services/document_jobs.py`, `document_job_processors.py`) | `DocumentProcessingJob` rows: status, attempts, next attempt, lease, file identity | enqueue, reclaim stale, list, claim, parse, finalise | overlapping passes, expired leases, crashes, late answers | one parser per live lease; a job ends once; attempts bounded; results only for the current file |
| **Document confirmation and review** (`use_cases/documents.py`, `views/documents.py`, `services/document_versions.py`, `scrub_ocr_pii`) | `Document` flags, recognised data | confirm, toggle, verify all, reject, delete, restore version, scrub | unlocked whole-row saves against the queue | what awaits confirmation is of the current file |
| **ZUS months and parsed fields** (`document_workflow_zus.py`, `document_workflow_wezwanie.py`, `services/zus.py`) | `zus_period_month` (unique per case), passport number, purpose of a case; the months a case owes | write what was read, clear, confirm, count months | two reports of one month; staff typing while a paper is read; calendar arithmetic | one report per month; what staff typed stands; the right months are asked for |
| **E-mail delivery** (`services/notifications.py`) | `EmailLog` rows keyed by idempotency key, hourly counter | reserve, send with retries, log | crash between send and log; lost answers | at most one e-mail per key; a failed one is sent again |
| **E-mail campaigns** (`services/email_campaigns.py`) | `EmailCampaign` status and counters | create, claim, send each, finish | reclaim after 30 minutes while the first sender works | nobody gets a campaign twice; it ends; the counters tell the truth |
| **Letters** (`services/notifications.py`, `update_reminders`) | idempotency keys made of weeks, intervals, dates | the letters the site writes by itself | a key outliving the reason it was made for | news reaches whom it concerns |
| **Automation loop** (`run_background_automation_loop`) | cache locks, heartbeat, mark of a backup | run each task under a lock | a task outlives its lock; a cache that fails; dead loops | one loop per task; a dead loop shows |
| **Weekly and retention gates** (`run_weekly_document_reminders`, `run_retention_maintenance`) | cache keys | run at most once a period | partial failure after the gate is taken | guarded work starts once |
| **Reminders** (`update_reminders`, `views/reminders.py`) | `Reminder` and follow-up rows | find, create, deactivate, section by section | the command next to a staff click; a section that raises | reminders match debts |
| **Payments** (`use_cases/payments.py`, `payment_integrity.py`, `models/payment.py`) | a payment, its reminder | add, edit, delete, restore, admin | two kinds of forms, signals, archive hooks | what is owed is chased, what is settled is not |
| **Archive and restore** (`services/archive.py`) | archive batches, cases, tasks | archive/restore a client or a case | nested batches, locks in two orders | restore brings back what this batch archived, no more |
| **Case workflow** (`services/workflow.py`, `workflow_transitions.py`, `services/locking.py`) | stage, dates, version | stage transitions, optimistic save | two editors; writers that bypass the version | no form over a form; a stage only with its prerequisites |
| **Alerts, badges, working day** (`_client_health.py`, `services/attention.py`, `services/workday.py`) | none of their own: four readings of the same rows | build alerts, checks, filters, lists | each view asks its own question | the views agree |
| **Employers** (`services/employers.py`) | candidates, assignments, `Case.company` | propose, decide | two proposals at once; a history written without a lock from an old case | one undecided proposal per employer; who may part history and case |
| **Staff tasks** (`services/tasks.py`, `use_cases/tasks.py`) | `StaffTask` | create, complete, suspend | duplicates under concurrent creation | one open task per cause |
| **Document requirements and checklist** (`services/case_context.py`, `_client_checklist.py`, `custom_document_requirements.py`) | requirement rows, papers | build the list, add, submit | two builders, two cases of one client | the lists agree and borrow nothing |
| **Wniosek and attachments** (`services/wniosek.py`) | submissions, attachments | record, delete attachment | last attachment removes the submission | what was submitted counts for its case |
| **Portal page and review tasks** (`views/onboarding_start_contact.py`, `services/document_workflow.py`, `services/tasks.py`) | papers of a case, review tasks, stage of the questionnaire | upload, delete, judge, verify all, expire | an upload commits its paper before its task; verdicts on rows read before | of every paper somebody knows what is next |
| **Onboarding** (`services/onboarding_tokens.py`, `views/onboarding_*.py`, `views/admin_mos_review.py`) | session tokens, the MOS row, client and case | enter, autosave, complete, review, links | autosave racing completion and review | a locked questionnaire stays locked |
| **Intake** (`views/intake.py`, `services/intake.py`) | the public form, clients, accounts | link, submit, convert | two visitors post at once | no orphaned client |
| **Consent, erasure, anonymisation** (`models/consent.py`, `services/erasure.py`, `services/anonymization.py`) | chained consent log, erasure requests, holds | grant, revoke, request, hold, purge | uploads while a client is erased | nothing left behind a fulfilled request; the chain verifies |
| **Family** (`services/family.py`, `forms/case_client_forms.py`) | who sponsors whom; whose finances | edit, edit the income | two forms, each fine by the rows it read | no circle of sponsors |
| **Encrypted fields and key rotation** (`fernet_fields/`, `rotate_fernet_fields`) | ciphertexts, key rings, blind index | load, save, rotate, validate | processes whose rings differ | nothing unreadable after rotation |
| **Database media** (`database_media/`) | file blobs, files on disk | save, read, delete, copy, export | no lock anywhere; users choose names | a file lives as long as its record |
| **Backups** (`legalize_site/backups.py`) | dump files | purge, dump, encrypt, store | two makers in one second, half-written files | what was reported can be restored |
| **Submissions API**, **access control**, **OCR parsers**, **views, forms, admin, translations**, **demo and test centre** | - | - | - | section 6 |

## 2. Modules

| Module | What it is |
|---|---|
| `OcrJobs` | the OCR queue, the document columns it shares with staff, and the staff actions on them |
| `JobLifecycle` | what the queue promises: a job waits, is tried a bounded number of times, ends once |
| `MCOcrJobs`; `OcrJobsProofs`, `OcrLoopProofs`, `OcrFileProofs` | its instances and theorems |
| `EmailCampaigns`; `MCEmailCampaigns`, `EmailCampaignsProofs` | the queue of mass mailings |
| `EmailDelivery`; `MCEmailDelivery`, `EmailDeliveryProofs` | single e-mails under a key, and the hourly limit |
| `MCCases`; `CasesProofs` | the life of a case, made of the next six; theorems about them |
| `Archive` | batches, locks, suspended tasks |
| `AtomicArchive` | what archiving promises: each operation done at once |
| `CaseStages` | the stage of a case, its dates, the versioned form |
| `Employers` | proposals, decisions and the history |
| `Attention` | four views of the same trouble |
| `Recognition` | what readers of papers write into rows staff also type |
| `ZusMonths` | the months for which a report is owed |
| `MCAutomation`; `AutomationProofs` | the work that runs by itself, made of the next five; theorems |
| `ReminderPasses` | payments, reminders, and the passes over a client's file |
| `AutomationLoop` | task locks, guards, heartbeat, backups of the day |
| `Letters` | what the automatic letters say, and the keys that hold them back |
| `Media`, `Dumps` | uploaded files in the database; dumps of the database |
| `MCClientFile`; `ClientFileProofs` | what is in a client's file, made of the next seven; theorems |
| `Intake`, `Questionnaire` | the public form and the accounts; the questionnaire of a case |
| `Privacy` | consent, erasure, legal holds |
| `Checklist` | which papers are missing, by two builders |
| `PortalPapers` | the papers between the client's portal and the office |
| `Family` | sponsors and members |
| `FieldKeys` | encrypted columns and the change of a key |

Where two components work on the same rows, one module has them together: the staff and the
OCR queue in `OcrJobs`, payments and reminders in `ReminderPasses`, client, cases and tasks in
`Archive`, stages and letters in `CaseStages`, portal and office in `PortalPapers`. The modules
themselves stand beside one another. `MCCases`, `MCAutomation` and `MCClientFile` therefore do
not claim a joint behaviour of their parts: the variable `part`, chosen in `Init`, says which
part a behaviour is about, and the others stay as they began. One run of such a module checks
each of its parts with all its interleavings.

Conventions. One database transaction is one action, unless a lock or the isolation level lets
others in between; a read outside a transaction is an action that copies what it read. In the
modules about requests (`Questionnaire`, `PortalPapers`, `Family`) a *prompt* request reads and
writes in one step, and of the *slow* ones, which stop between the two, one is under way at a
time: two requests that overlap are a slow one around a prompt one. An operator headed
`fault:` is a plausible mistake in the code that follows it; it is part of no specification
and shows that a property would notice that mistake. Variables called history in their
comment, or below, are no column of the database; they record what a property needs to excuse.

### OcrJobs

*State.* `job[j]` is a `DocumentProcessingJob` row: `due` stands for `next_attempt_at <= now`,
`lease` for `lease_expires_at` (none, in the future, passed), `source` for
`source_file_name`. `doc[j]` holds the columns of the document that the queue and the staff
both write; `parsed.what` says whether `parsed_data` holds recognised personal data
(`"pii"`), what the scrub leaves of it, what a confirmation puts there, or the result of an
automatic type, and `parsed.of` which file it was read from. `worker[w]` is one run of
`process_pending_document_jobs`: where it is, the stale rows and the ids it has read, and the
local copies taken at the claim. `restoring` and `scrubbing` are the local copies of a version
restore and of a run of `scrub_ocr_pii`. `overrun`, `followed` and `crashes` are history.

*Steps.* `ReclaimRead` and `ReclaimSave` are separate (the code saves rows of an earlier query
without a lock), `ListPending` and `Claim` are separate (a list of ids, then a row lock per
id), and between `Claim` and the finaliser anything may happen: that is where the parser runs.
The finaliser is chosen freely among those the processors can reach, so every parser result is
covered. `BackoffElapses` and `LeaseExpires` are the clock. An upload is one action: the view
writes document, job and the inline attempt in one request, inside one transaction, before a
pass can see the row. (The portal's uploads only queue.)

*Abstracted.* `requires_confirmation` is true for every wezwanie job an upload creates, so
the other branch of the finaliser (which only tests reach) is left out. The fields which the
automatic processors write before they finalise are in `Recognition`. An exception that leaves
a pass outside the finalisers is a `Crash`, except the one for an archived document, which is
`FinalizeRaises`. `FollowUp` is the attempt at `propose_employer` or the MOS prefill; the code
swallows a failure of the latter.

| Run | Instance | Shows |
|---|---|---|
| `OcrJobsLoop` | 1 process, an automatic and a wezwanie job, 2 attempts, 1 crash, fairness | `ImplementsLifecycle`: refinement of `JobLifecycle` with its liveness; `FollowUpUnlessCrashed`: after-commit work is done |
| `OcrJobsRaces` | 2 processes, 1 wezwanie, 3 attempts, 2 file names, 1 crash, all staff actions | `AwaitsCurrentFile`: confirmation only of the current file |
| `OcrStuckPending` | 2 processes, 2 attempts | a counterexample, section 4 |

Two processes are enough for every race of this code, because a process only ever conflicts
with another through one job row; three attempts let a job be tried, lost, retried and
finished with one attempt still to spare; two jobs let a pass hold one while it works on the
other, and an exception drop the rest of a list. `MaxFile` bounds version restores and
`MaxCrashes` the processes that die. *Fairness* (`OcrJobsLoop` only): the clock runs, and each
process keeps starting passes and taking steps, because the automation loop calls the command
in an endless loop. Nothing is assumed of uploads, staff, restores, scrubs or crashes.

### EmailCampaigns

*State.* `campaign[c]` is an `EmailCampaign` row; `stale` stands for `started_at` being older
than `EMAIL_CAMPAIGN_STALE_AFTER_MINUTES`, `to` for `recipient_emails`. `log[c][r]` is the
`EmailLog` row under the key of a campaign and an address. `worker[w]` is one call of
`process_pending_email_campaigns` (for `w` in `Cron`) or of `process_email_campaigns
--campaign-id` (for `w` in `Operators`): the list it read, the recipients still to come, the
attempt, and the two counters it keeps in local variables. `delivered` is what the mailboxes
got. `audience`, `slow`, `unsure` and `mishaps` are history.

*Steps.* `ListPending` and `Claim` are separate, and `Claim` is one action because the code
claims with one conditional `UPDATE`. `Load` reads the recipients and the log once, as the
code does, and the loop then works through that list. Each attempt, the log row, the progress
counters and the final save are actions of their own: between any two of them the process may
die (`Crash`), another process may take over a campaign that has become stale, and the
retention command may clear its recipients (`ClearPayload`).

*Abstracted.* Subjects and bodies, the copy to the office, and who is allowed to queue. The
retention period is not counted: `ClearPayload` may come at any time.

`CampaignsRaces` checks two scenes: one campaign to up to two addresses with two cron calls and
an operator's command, two attempts and two mishaps; and two campaigns to one address each,
which wait for each other under passes of one row. `NoDuplicates`: nobody gets a message twice
unless a lost answer or a stale sender made it. `CountersAreReal`: what the row reports was
delivered, and adds up. `EveryCampaignFinishes`. Two addresses let a process die between them, so that the
resumed campaign has one to skip and one to write to. *Fairness:* the cron keeps calling and a
running call goes on, and an orphaned campaign goes stale (the clock). The mail server may
refuse for ever; the campaign is then finished as failed.

### EmailDelivery

*State.* A key stands for one reason to write: `log[k]` is the status of the `EmailLog` row
with it. `sender[p]` is one request or pass inside `_send_email` or `send_custom_email`.
`quota` is the cached hourly counter and `seen` the value a request has read of it.
`delivered`, `sentInHour`, `unsure`, `stuck` and `mishaps` are history.

*Steps.* `Reserve` is the transaction that locks or inserts the row; the sending is outside
any transaction, and `Record` is the later save. `BeginCustom` checks the limit before
anything else and `CountTyped` writes the value read there plus one, after the message went
out: that is how the code does it, and why the two can interleave. `NotReserved` is both the
duplicate and the row that cannot be saved because the client has several active cases and the
message names none (`NoCase`).

*Abstracted.* Which text is sent and in which language (`Letters` has what it is about); the
copy to the office; demo and test clients, whose messages are only logged as skipped.

`DeliveryRaces` has two reminders (one of a client with several cases), one typed message, two
senders, three attempts, limit two and two mishaps, and checks `AtMostOnce` and, under
fairness, `EveryReminderGetsOut`. Two senders are enough for a conflict over one key; two
mishaps let a lost answer be followed by a crash of the retry. *Fairness:* a sender that runs
goes on; the passes come back to each key (the loop starts one twice a day, and a key lasts for
its window); and the mail server does not refuse a message for ever. The last two are strong
fairness, because another sender may hold the key in between.

### The life of a case: MCCases

`Cases.cfg`, one run of six modules. Deadlock is not checked: the bounds let behaviours end.

| Module | State and steps | Bounds and why they do | Properties |
|---|---|---|---|
| `Archive` | `client`, `cases` and `tasks` with their batches; `txn[w]` is a transaction with the row locks it holds and what it will write. Beginning, each lock, and commit are steps; `DeadlockVictim` is PostgreSQL ending a circle of waits. The edit form (`EditClientRead`, `EditClientSave`) and `CreateCase...` run beside it | 2 cases, 1 task, 2 clerks, 2 batches: a case archived by itself before the client, and restored after | `FlagsMatchBatches`, `ImplementsAtomicArchive`, `ArchiveRequestsEnd` |
| `CaseStages` | `row` with stage, dates and version; `desk[s]` the form or request each member of staff has open; `owes`, `complete` what a transition looks at. Opening a form, posting it (validated by what was typed), and saving it under its version are three steps; reviews and letters write single columns | 2 staff, 2 versions, 1 unversioned write: a form over a form, and a letter in between | `FormsNeverOverwriteForms`, `ForwardStepsHaveTheirDates` |
| `Employers` | candidates by source and employer, the history's active row, `Case.company`; `reader[r]` holds the company of the case as a reader loaded it, then what it is about to write. For the employer it finds there, `ensure_assignment` reads the active row (`ProposeKnown`), ends it (`EndActive`) and creates another (`CreateAssignment`) without a lock; for another one, `ProposeRead` and `ProposeInsert` are separate, as the code reads before its lock. `drift` and `twins` are history | 2 employers, the form and 1 document as sources, 2 readers; two parts, the history with forms that name both employers and the proposals of one employer from both sources | `OneDecisionPerEmployer` |
| `Attention` | `person` and `dossier` hold the columns that alerts, checks, filters and the working day read; each view is an operator that gives the set of troubles it shows, and the handlers that change what is read are the actions | 2 cases; four parts (stay, numbers, debts, hearing), one for each group of columns, because each view treats the groups apart | `ViewsAgree` |
| `Recognition` | papers with their month and what was told of it, the passport number, the purpose of each case; `scan[w]` what a reader loaded at its claim. `behind` is history: what changed since | 2 papers, 2 readers, 2 tries, 1 month, 2 cases; parts of two reports, of any one paper beside typing, and of one wezwanie beside typing | `StaffEntriesStand`, `MonthsAreTrue` |
| `ZusMonths` | day, hearing, stage, decision, reports and policies; the window of months as the code computes it | December 2025 and four months, the days 16 and 17, two reports and two policies: the year end in both directions and the day the list changes | `MissingIsExact` |

`MissingIsExact` compares the code's calendar arithmetic with a definition that has none.
`ImplementsAtomicArchive` maps the rows to `AtomicArchive`, which has no locks, batches or
transactions: a request's commit is the operation, everything before it a stutter.
That a restore of the client gives back the batch and nothing else (`RestoreGivesBackTheBatch`)
follows from it and is proved by itself.
*Fairness* (`ArchiveRequestsEnd`): every request on the archive is run on, strongly, since
locks come and go. `DecisionDate.cfg` is the counterexample of section 4.

*Abstracted.* Names, wording and amounts; in `Archive` everything about documents and payments,
which are archived one row at a time elsewhere; in `Recognition` leases (those are `OcrJobs`')
and what a reader only reports; in `Attention` missing documents (`Checklist`), the income of a
family (`Family`), and the cache of the badges.

### The work that runs by itself: MCAutomation

`Automation.cfg`, one run of five modules. Deadlock is checked.

| Module | State and steps | Bounds | Properties |
|---|---|---|---|
| `ReminderPasses` | a payment and its reminder; a document, the legal stay, a requirement and the fingerprints with their reminders or task; `pass[p]` the section a pass is in and what it found there. Finding and writing are separate; a section that raises ends the pass. Forms, signals, the admin, archive and restore are the other actions | 2 passes, a price of 2, 3 edits, six forms | `RemindersMatchDebts`, `OneLegalStayReminder`, `DebtsAreChased` |
| `AutomationLoop` | task keys and guards in the cache, the heartbeat, the day's mark and the newest dump; `loop[l]` the task each loop is in, whether it runs on without its key, and whether the day has changed since it looked at the mark. The cron endpoints go past the keys; the cache may fail (`MaxBlips`), loops die, the site is redeployed | 2 loops, 3 cycles of two tasks, 1 failure | `OneLoopPerTask`, `GuardedWorkRunsOnce`, `DeadLoopsAreNoticed` |
| `Letters` | the client's file, the keys that are taken, the letters of the last days; a day passes, the pass sees the file, the file changes | 16 days about the legal stay, 9 about papers, 7 about missing papers, one day for letters to staff; two end dates, three offsets of weeks and intervals, 2 changes | `NewsGetsOut` |
| `Media` | the table's row of a name, the disk's file, the records that hold it, and what each worker is about to do; every query and every disk access is a step | 2 names, the second being the one the storage gives when the first is taken; 2 workers | `FilesAreKept` |
| `Dumps` | the files of each second (none, half, whole), the old ones, the remote storage, and where each maker is | 2 makers, 2 seconds, with and without keys and remote storage | `FilesAreKept` |

*Fairness.* The passes of one process are started again and again and run to their end: the
daily slot of the automation loop; the other process owes nothing. Starting is strong, since
the same process may also be asked for a few sections only (`--only`) in between. An entry of the cache goes when its time is over. Of staff,
mail server, crashes and the calendar nothing is assumed. `PaymentEdit.cfg` and `FollowUps.cfg`
are counterexamples, section 4; the second is a liveness claim and fails under the fairness
above.

*Abstracted.* The price list is a constant; how one letter is reserved and sent is
`EmailDelivery`'s; the monthly report, which has the clean-up's guard and changes nothing;
`pg_dump`, Fernet and the remote storage are external: they succeed or fail.

### What is in a client's file: MCClientFile

`ClientFile.cfg`, one run of eight parts of seven modules (`Privacy` has two). Deadlock is not
checked: most parts end at their bounds.

| Module | State and steps | Bounds | Properties |
|---|---|---|---|
| `Intake` | the public form's row, what each visitor's request is about to do, clients with their origin, whose account an address is. The row is read once and not locked; submitting, classifying and converting are steps | 2 visitors, 2 addresses, 3 clients | `NoOrphanedFormClient` |
| `Questionnaire` | the MOS row, client and case rows, the session of a link and of the portal, the slow request. Every step of the form, the autosave, completion, review, stages, links, expiry, archive | 1 answer, 1 purpose, 1 link; of the stages after the review two, as the code treats the others like one of them | `PortalRespectsLocks` |
| `Privacy` (consent) | the log, what each device is about to append, the times rows are given | 2 devices, 2 purposes, 4 rows | passing run: types; `ConsentChain.cfg` is a counterexample |
| `Privacy` (erasure) | request, hold, data by kind, files, the pass that anonymises (at READ COMMITTED) and the portal beside it | 2 uploads, 2 passes, one after the other | `ErasureLeavesNothing`, `HoldsYieldToListedOnly` |
| `Checklist` | papers, a submission, a requirement, cases; the two builders are operators that give rows | 2 papers, 2 cases, 1 submission | `ListsAgree`, `NothingBorrowed` |
| `PortalPapers` | papers with review task and verdict, the stage of the questionnaire, the slow request between its statements; what the portal lists, asks for and shows as the step | 2 papers, two stages to move to | `PapersAreSeen` |
| `Family` | role, sponsor and finances of each client, one slow form | 3 people: the shortest circle through somebody else, and a chain of two | `FamilyHolds` |
| `FieldKeys` | a token is a content and a key; columns of two rows, the index, each process' ring and loaded object, the rotation's transaction, the validation, with and without row locks | 2 processes, 2 contents, 2 keys; columns and models are checked and rotated in one order | `ValuesSurvive`, `IndexFollowsEmail`, `RotationKeepsValues` |

Processes and contents of `FieldKeys` differ in their names only and the run checks no
liveness, so they are declared symmetric. `Intake` leaves out the staff's edits of an address
and keeps each form-made client's first case; `Questionnaire` the choice among several cases
and the block about a card applied for before; `Checklist` labels and positions; `Privacy`
which columns a store has; `Family` the amounts. No fairness is used.

## 3. What is proved

Every invariant and every action property that a passing run checks is also a theorem of
TLAPS, for any number of jobs, processes, clerks, recipients, papers, people, keys and mishaps,
under the named assumptions of its module. What the assumptions ask is what the code or the
database gives: numbers are numbers, a bound is at least one where something happens at all,
sets of rows are finite, names of files and contents of columns are not the placeholder that
stands for their absence (`MediaAssumption`, `KeysAssumption`).

Each part of `MCCases`, `MCAutomation` and `MCClientFile` is proved of its own specification
(`ArchiveSpec`, `LettersSpec`, ...). `DesksFollowTheirSpecs`, `PapersFollowTheirSpecs`,
`PartsFollowTheirSpecs`, `FormsFollowTheirSpecs` and `FilesFollowTheirSpecs` then show that
what TLC runs, the composed `Spec`, behaves as each part, the other parts' steps being
stutters; so `CasesKeepTheirPromises`, `WorkKeepsItsPromises` and
`ClientFilesKeepTheirPromises` are about exactly what the runs explore. The type theorems of
the wholes follow from the parts' in the same way.

The argument is an inductive invariant. Few of the properties are inductive as they stand: they
are silent about the requests under way and what those have read. The tables say what each
invariant adds. `PrivacyInv` and `CountInv` were given to TLC before they were
proved, since they were the least obvious, and so was `AtomicInv`.

### OCR and e-mail

- `OcrJobsProofs`: `TypeCorrect`; `LeaseIsExclusive`, `PendingIsSelectable`,
  `FinishedStaysFinished`, from `LeaseInv`: while no lease of a job has run out, it is in
  processing exactly while one pass parses it (`Held`), no pass holds a stale row of it
  (`Unread`), and no other pass is parsing it (`Sole`).
- `OcrLoopProofs`: `LoneLoopParksNoJob`, `LoneLoopBacksOff`, `LoneLoopImplementsLifecycle`
  (the refinement of `JobLifecycle`, step by step), under the assumption `Alone` that all
  processes are the same one. `LoopInv` says that what a lone pass has read is still so.
- `OcrFileProofs`: `ConfirmsCurrentFile` (`AwaitsCurrentFile`). `FileInv`: a job's file is
  never ahead of the document's, what a pass copied at its claim is the file of that moment,
  and a file name is not used twice.
- `EmailCampaignsProofs`: `TypeCorrect`; `SendersExclude`, `FinishedCampaignStaysFinished`
  (a campaign that has not gone stale under its sender runs exactly while one process works on
  it); `CompletedMeansReached` (what a worker skipped was logged as sent, and what is logged as
  sent was delivered); `NobodyGetsItTwice` (`NoDuplicates`; an address still on a list has no
  copy, unless one the log does not know of); `CountersTellTheTruth` (`CountersAreReal`), from
  `CountInv`: at each point where it counts, a worker's two counters and what it has left add
  up to the audience, and it has counted as sent no more than the addresses with a copy that
  are not left. This is where the cardinalities of disjoint sets are added.
- `EmailDeliveryProofs`: `TypeCorrect`, which needs that a request has seen a counter below the
  limit; `ReservationExcludes`, `OneCopy` (`AtMostOnce`), `LogTellsTheTruth`,
  `QueuedRowsAreHeld`, `SentStaysSent` from `DeliveryInv`: a sender between its reservation and
  its record is alone on its key, whose row is queued, and what it holds to be delivered is;
  `LimitHolds`, assuming that requests do not overlap; without that it fails (section 4).

### CasesProofs

| Theorem | Property | What the invariant adds |
|---|---|---|
| `FlagsMatch` | `FlagsMatchBatches` | `ArchiveInv`: a row is locked by one transaction; what a transaction has already looked at stays as it was while it holds the lock; a client's restore has done or has to do every case of its batch |
| `RestoresGiveBackTheBatch` | `RestoreGivesBackTheBatch` | the same |
| `ArchivesAtOnce` | `ImplementsAtomicArchive` | `AtomicInv`: what a request has read is still so when it writes (`Knows`): the list of active cases, since whatever changes it waits for the client's lock; the suspended tasks, since closing one waits for its row; the open batch (`BatchesAreTheClients`). Each commit is then one operation of `AtomicArchive`, each other step a stutter |
| `FormsAreNotLost`, `StepsForwardAreEarned` | `FormsNeverOverwriteForms`, `ForwardStepsHaveTheirDates` | `StagesInv`: a form that was overtaken shows an older version than the row's, and what was allowed when a form was posted still is, unless the row has gone stale under it |
| `OneDecisionHolds` | `OneDecisionPerEmployer` | `EmployersInv`: a proposal about to be inserted is for an employer without an undecided one, unless two sources were read at once for it (`twins`, `ProposalsAreNew`); the row that a reader is about to end is still active and names another company than the one it will write (`EndersSawAnother`), so ending it parts history and case only if they were parted or the case has moved on |
| `EveryViewTellsTheSame` | `ViewsAgree` | `AttentionInv`: the hash is that of the number, and an answer about a new card comes with a questionnaire (`Kept`); the rest is set algebra, as the views are compared by cardinality and by membership |
| `StaffEntriesAreKept`, `WrittenMonthsAreTrue` | `StaffEntriesStand`, `MonthsAreTrue` | `RecognitionInv`: which month a paper of each kind can have; what a reader loaded is what the rows say, except where `behind` says it is not (`FitsRows`); no two live reports share a month (`ReportsStandAlone`) |
| `MissingMonthsAreExact` | `MissingIsExact` | types only; the work is `ZusIsExact`, that walking the calendar by year and month visits every month counted since year 0, for any horizon |

### AutomationProofs

| Theorem | Property | What the invariant adds |
|---|---|---|
| `SettledPaymentsAreLeftAlone`, `StayIsRemindedOnce` | `RemindersMatchDebts`, `OneLegalStayReminder` | `RemindersInv`: a payment is as forms and signals may leave it; the rows of the legal stay and the passes about to write one are one together, unless passes overlapped |
| `TwoInATaskMeansOneLate` | `OneLoopPerTask` | `LoopsInv`, `KeysInv`: a loop that is in time has its task's key in the cache, and of two in one task one is late |
| `GuardsLetWorkThroughOnce` | `GuardedWorkRunsOnce` | `GuardsInv`: started passes are paid for by the guard of the slot or by a failure of the cache; `BackupsInv` |
| `NewsIsNotHeldBack` | `NewsGetsOut` | `LettersInv`: a key that is taken stands for a letter of its own interval or week (`KeysStand`), and no letter is from the future (`CalendarInv`) |
| `UploadsAndDumpsAreKept` (from `MediaIsKept`, `BackupsRestore`) | `FilesAreKept` | `MediaInv`: nobody is about to insert, unlink or export a referred-to name that only the disk has, and whoever has read that file has its content; a name two were never busy with and nobody refers to is gone or about to go. `DumpsInv`: the files of a second not shared are as far as its maker is |

### ClientFileProofs

| Theorem | Property | What the invariant adds |
|---|---|---|
| `FormClientsHaveAccounts` | `NoOrphanedFormClient` | `IntakeInv`: the shape of the clients, so that the next one has a new number; the property then carries itself, since an account is given with the client in one transaction |
| `LockedFormsStayLocked` | `PortalRespectsLocks` | `QuestionnaireInv`: a slow request of the portal had found the form open |
| `ErasuresAreComplete`, `HoldsAreHeeded` | `ErasureLeavesNothing`, `HoldsYieldToListedOnly` | `PrivacyInv`: a pass ready to mark the request has found gone whatever is not `late`; the request is fulfilled exactly if the pass had read it so; a form that still shows an unfulfilled request was opened before, and only of a client who is anonymised by now. For the log: no two rows, written or about to be, have one time |
| `BothListsAgree`, `NoPaperIsBorrowed` | `ListsAgree`, `NothingBorrowed` | types only; the two builders are operators, compared row by row |
| `NoPaperIsForgotten` | `PapersAreSeen` | `PapersInv`: each paper's task follows its verdict, unless the slow request is between its statements about just that paper |
| `FamiliesHold` | `FamilyHolds` | `FamilyInv`: unless two forms overlapped, no circle and no sponsor of a sponsor, and what the open form found of its sponsor is still so. That a chain then ends is an induction on its length |
| `ValuesAreReadable`, `IndexIsOfTheEmail`, `RotationChangesNoValue` | `ValuesSurvive`, `IndexFollowsEmail`, `RotationKeepsValues` | `KeysInv`: what a process could not read is of a ring with the old key alone, an open rotation has written the very values that are stored, and once the validation runs no ring is the old key alone and what it has passed is under the new one |

Only model-checked is what needs fairness, as the prover has neither `ENABLED` nor fairness:
the liveness part of `ImplementsLifecycle`, `FollowUpUnlessCrashed`, `EveryCampaignFinishes`,
`EveryReminderGetsOut`, `ArchiveRequestsEnd`, `DebtsAreChased`, `DeadLoopsAreNoticed`. The
library's induction theorems take an operator and cannot be used; where a proof is by induction
(the chains of `Family`, the calendar of `ZusMonths`, the next sheet of `PortalPapers`) it
takes the least member of a set of numbers instead, from `WFMin`, which needs none.

The proofs corrected the models in two places. `Media` let the copy command save
a file under a name that a file on the disk had, and gave all old files one content, so that two of them could be
confused unnoticed; the storage draws a name that no file has, and every old file now has a content of
its own. `FirstMonth` of `ZusMonths` must not lie in a year 0, in which the code's walk
backwards would leave the calendar.

## 4. Where the code and its documents disagree

Each of the first five has a run that finds it.

- `OcrStuckPending`: with two overlapping passes, the unlocked save of a stale row can put a
  job back to pending with its attempts used up; no pass selects it again. For the same reason
  a retry keeps its backoff only under one process: a pass with an older list claims at once a
  job that another has just sent into backoff, because the claim looks only at the status.
- `DecisionDate`: the case form validates a move to `decision_received` with the typed date and
  does not save the date (`views/cases.py:155`).
- `PaymentEdit`: the form writes the typed values into the very payment the use case compares
  them with, so nothing has changed, nothing is saved, and the staff is told it was
  (`views/payments.py:79`).
- `FollowUps`: one client with two active cases and a legal stay that ends makes every pass
  raise at the legal-stay mails, before the stale cases of all clients are looked for.
- `ConsentChain`: two decisions of one client at once name the same row as the one before.

What else was met while modelling; the properties name these cases as their exceptions, or the
models simply contain them.

*OCR and documents.* `docs/OCR_WORKFLOW.md` calls `awaiting_confirmation` the only intended
temporary window for personal data; toggling, verifying all and rejecting end the confirmation
and leave the recognised data. It also says that `scrub_ocr_pii` never touches documents
awaiting confirmation; the command saves rows of an earlier query. The passport number goes
into a client row loaded at the claim; that a purpose set by staff is never overwritten
(`document_workflow_wezwanie.py:115`) is true against the case as loaded. A reader looks for
duplicate months over the whole client while the constraint is per case, and the month's form
check looks at the oldest case only (`forms/document_forms.py:74`).

*E-mail.* A campaign whose sending outlasts the cutoff is claimed by the next cron call, and an
address already written to gets the message again. The hourly counter is read before a message
goes out and written after. A letter whose appointment or date changes and changes back is not
repeated, so the last letter tells the old news. `send_expired_documents_email` is called by
nobody. The required-documents letter leaves inside the transaction that creates the client.
Verifying papers of a client with two active cases sends nothing, as the log row cannot be saved.

*Reminders, archive, views.* Two passes may create two legal-stay reminders, and every later
pass fails on them; a case restored during the archiving of its client stays active under it; an
edit form opened before an archive undoes its flag. The badge for the legal stay and the alert
differ about cases already submitted (`attention.py:25-40`, `client.py:401-418`); the
working-day list looks at the first fifty candidates. The client-wide checklist differs from
the case's with two cases.

*Employers.* A form, a questionnaire or a paper that names the employer of a case loaded before
the staff confirmed another one ends the confirmed row of the history and writes the old company
(`employers.py:91-94`): the case names one company and its history the other. The case form
leaves the history behind (`views/cases.py:180`), and a case made from its client or by the
intake starts without one.

*Portal.* A rejected paper outside the checklist gives the client nothing to do; verifying all
closes the review tasks of papers it did not verify; a crash between the paper and its task
leaves a paper nobody is told of; after the package is ready, a refused paper is asked for
though uploads are locked; a completed questionnaire without a purpose shows a step at which
nothing is asked. Autosaves save whole rows and may unlock a completed questionnaire.

*Family.* Two forms judged by old rows can make a circle of sponsors, which
`models/client.py:693` excludes; a member whose sponsor has a sponsor gets an income alert that
links to another family.

*Keys, files, dumps.* A process without the key writes the hash of the placeholder into the
blind index, which `docs/field_encryption.md:28` says a rotation leaves alone. The copy command
saves under another name when a reader imported first; a reader that imports between the two
halves of a deletion brings the file back. Old dumps go before the new one is made, and two
makers of one second spoil each other's file and both report success; an unencrypted dump goes
at the next backup (`GRACEFUL_DEGRADATION.md:28`), and the remote storage is never purged.

## 5. The plan

1. `OcrJobs`, `EmailCampaigns`, `EmailDelivery`: modelled, checked, proved.
2. Cases, automation and the client's file: modelled, checked; every invariant and action
   property proved.
3. Abstract specifications of further components, with the refinement shown: what a key of
   `EmailDelivery` and a campaign promise, as `JobLifecycle` does for a job and `AtomicArchive`
   for the archive.

## 6. Not modelled, and why

The Submissions API is single-row CRUD with a status. Access control and rate limits are checks
on one request, and a counter like the hourly one. The OCR parsers turn text into fields without
state; the readers' models take any result. Templates, forms, admin, translations, demo data and
the test centre are presentation, or none of the office's work; the requests that change state
are actions of their modules. Left out of modelled parts: editing a requirement of one client,
amounts and risks of a family's income, the questions a client asks the office, what
`create_family_member` would do if it were called. Dumping a database, the cipher, the mail
server and the remote storage are external; the models keep what the code can observe of them.
`PROJECT.json` lists every component with its status, and the hazards with the properties that
cover them.

Out of reach of the prover are liveness under fairness and `ENABLED`, the library's induction
theorems (section 3 says what the proofs use instead), and anything in a module with a
`RECURSIVE` operator, of which there is none here.
