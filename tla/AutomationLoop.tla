--------------------------- MODULE AutomationLoop ---------------------------
(***************************************************************************)
(* run_background_automation_loop: the loops (one beside every web server, *)
(* or workers of their own) that take turns at the periodic tasks under    *)
(* locks in the cache, with the guards of the daily, weekly and backup     *)
(* work, the heartbeat that /readyz shows, and the cron endpoints that do  *)
(* the same work without the locks.                                        *)
(***************************************************************************)
EXTENDS Naturals, Sequences, FiniteSets

CONSTANTS
    Loops,
    Cycles,      \* the tasks of a cycle in their order; "db-backup" when it is enabled
    MaxBlips     \* failures of the cache

Tasks == {"document-jobs", "email-campaigns", "weekly-document-reminders",
          "retention-maintenance", "db-backup"}

ASSUME AutomationAssumption == Cycles \subseteq Seq(Tasks) /\ MaxBlips \in Nat

VARIABLES
    cycle,       \* the cycle of this deployment
    lock,        \* the tasks whose key is in the cache
    loop,        \* what each loop does; late: its key is gone and it runs on;
                 \* old: the day has changed since it looked at the backup's mark
    slot,        \* the reminder slots of the day that have come: none, 8:00, 17:10
    taken,       \* the key of that slot is in the cache
    passes,      \* reminder passes begun for it
    weekly,      \* the guard of the week's clean-up is taken
    cleanups,    \* clean-ups begun this week
    marked,      \* the backup of the day is marked as done
    dump,        \* the newest dump that is kept: none, old, today
    heartbeat,   \* the cache entry that /readyz reads
    blips

guards == <<slot, taken, passes, weekly, cleanups>>
backups == <<marked, dump>>
automationVars == <<cycle, lock, loop, guards, backups, heartbeat, blips>>

AutomationTypeOK ==
    /\ cycle \in Cycles /\ lock \subseteq Tasks
    /\ loop \in [Loops -> [at : 1..Len(cycle) + 1, state : {"asleep", "between", "running", "dead"},
                          failed : BOOLEAN, late : BOOLEAN, old : BOOLEAN]]
    /\ slot \in 0..2 /\ passes \in 0..(1 + MaxBlips) /\ cleanups \in 0..(1 + MaxBlips)
    /\ {taken, weekly, marked} \subseteq BOOLEAN
    /\ dump \in {"none", "old", "today"}
    /\ heartbeat \in {"none", "ok", "error"} /\ blips \in 0..MaxBlips

Asleep == [at |-> 1, state |-> "asleep", failed |-> FALSE, late |-> FALSE, old |-> FALSE]

AutomationInit ==
    /\ cycle \in Cycles
    /\ lock = {}
    /\ loop = [l \in Loops |-> Asleep]
    /\ slot = 0 /\ taken = FALSE /\ passes = 0
    /\ weekly = FALSE /\ cleanups = 0
    /\ marked = FALSE /\ dump = "none"
    /\ heartbeat = "none" /\ blips = 0

Task(l) == cycle[loop[l].at]
Running(l, t) == loop[l].state = "running" /\ Task(l) = t
Runs(t) == {l \in Loops : Running(l, t)}

-----------------------------------------------------------------------------
(* The cycle of a loop.                                                     *)

(* handle: the loop wakes up and begins a cycle. *)
WakeUp(l) ==
    /\ loop[l].state = "asleep"
    /\ loop' = [loop EXCEPT ![l].state = "between"]
    /\ UNCHANGED <<cycle, lock, guards, backups, heartbeat, blips>>

(* On to the next task, a failed one remembered; the backup is not counted.  *)
(* The finally clause has deleted the key, which another loop may have added  *)
(* since: that one goes on without it.                                        *)
MovesOn(l, ok) ==
    loop' = [k \in Loops |->
        IF k = l THEN [at |-> loop[l].at + 1, state |-> "between", late |-> FALSE, old |-> FALSE,
                       failed |-> loop[l].failed \/ (~ok /\ Task(l) # "db-backup")]
        ELSE [loop[k] EXCEPT !.late = @ \/ (loop[l].state = "running" /\ Running(k, Task(l)))]]

(* fault: the key is not looked at *)
TakesLockAnyway(l) ==
    /\ loop[l].state = "between" /\ loop[l].at <= Len(cycle)
    /\ lock' = lock \union {Task(l)}
    /\ loop' = [loop EXCEPT ![l].state = "running"]
    /\ UNCHANGED <<cycle, guards, backups, heartbeat, blips>>

(* _run_locked: cache.add of the task's key; the backup only on a day not    *)
(* marked yet.                                                               *)
TakesLock(l) ==
    /\ loop[l].state = "between" /\ loop[l].at <= Len(cycle)
    /\ Task(l) \notin lock /\ (Task(l) = "db-backup" => ~marked)
    /\ lock' = lock \union {Task(l)}
    /\ loop' = [loop EXCEPT ![l].state = "running"]
    /\ UNCHANGED <<cycle, guards, backups, heartbeat, blips>>

(* A held key or a cache that fails: the task is skipped and counts as failed. *)
SkipsTask(l) ==
    /\ loop[l].state = "between" /\ loop[l].at <= Len(cycle)
    /\ \/ Task(l) \in lock /\ UNCHANGED blips
       \/ Task(l) = "db-backup" /\ marked /\ UNCHANGED blips
       \/ blips < MaxBlips /\ blips' = blips + 1
    /\ MovesOn(l, FALSE)
    /\ UNCHANGED <<cycle, lock, guards, backups, heartbeat>>

(* The finally clause of _run_locked: the key is deleted, whoever added it. *)
Releases(l) == lock' = lock \ {Task(l)}

(* process_document_jobs, process_email_campaigns: modules OcrJobs and EmailCampaigns. *)
RunsJobs(l) ==
    /\ Running(l, "document-jobs") \/ Running(l, "email-campaigns")
    /\ Releases(l) /\ \E ok \in BOOLEAN : MovesOn(l, ok)
    /\ UNCHANGED <<cycle, guards, backups, heartbeat, blips>>

(* _run_if_due: the slot's key is added before the pass is run, whether the  *)
(* pass then fails or not; without the cache the pass is run.                *)
RunsReminders(l) ==
    /\ Running(l, "weekly-document-reminders")
    /\ \/ /\ slot > 0 /\ ~taken
          /\ taken' = TRUE /\ passes' = passes + 1
          /\ \E ok \in BOOLEAN : MovesOn(l, ok)
          /\ UNCHANGED blips
       \/ /\ slot = 0 \/ taken
          /\ MovesOn(l, TRUE)
          /\ UNCHANGED <<taken, passes, blips>>
       \/ /\ slot > 0 /\ blips < MaxBlips /\ blips' = blips + 1
          /\ passes' = passes + 1
          /\ \E ok \in BOOLEAN : MovesOn(l, ok)
          /\ UNCHANGED taken
    /\ Releases(l)
    /\ UNCHANGED <<cycle, slot, weekly, cleanups, backups, heartbeat>>

(* fault: without the cache the clean-up is run *)
RunsRetentionFailOpen(l) ==
    /\ Running(l, "retention-maintenance")
    /\ \/ /\ ~weekly /\ weekly' = TRUE /\ cleanups' = cleanups + 1 /\ UNCHANGED blips
       \/ weekly /\ UNCHANGED <<weekly, cleanups, blips>>
       \/ blips < MaxBlips /\ blips' = blips + 1 /\ cleanups' = cleanups + 1 /\ UNCHANGED weekly
    /\ \E ok \in BOOLEAN : MovesOn(l, ok)
    /\ Releases(l)
    /\ UNCHANGED <<cycle, slot, taken, passes, backups, heartbeat>>

(* run_retention_maintenance: the guard of the week first, and no clean-up    *)
(* without the cache.                                                         *)
RunsRetention(l) ==
    /\ Running(l, "retention-maintenance")
    /\ \/ /\ ~weekly /\ weekly' = TRUE /\ cleanups' = cleanups + 1 /\ UNCHANGED blips
       \/ weekly /\ UNCHANGED <<weekly, cleanups, blips>>
       \/ blips < MaxBlips /\ blips' = blips + 1 /\ UNCHANGED <<weekly, cleanups>>
    /\ \E ok \in BOOLEAN : MovesOn(l, ok)
    /\ Releases(l)
    /\ UNCHANGED <<cycle, slot, taken, passes, backups, heartbeat>>

(* create_db_backup: dumps that are too old are purged first; then pg_dump    *)
(* writes a new one, and the upload fails or not, which leaves it where it is. *)
Dumps(ok) == dump' \in IF ok THEN {"today"} ELSE {"today", IF dump = "old" THEN "none" ELSE dump, dump}

(* fault: the day is marked before the dump is made *)
RunsBackupMarkedFirst(l) ==
    /\ Running(l, "db-backup")
    /\ \E ok \in BOOLEAN : Dumps(ok) /\ marked' = ~loop[l].old /\ MovesOn(l, ok)
    /\ Releases(l)
    /\ UNCHANGED <<cycle, guards, heartbeat, blips>>

(* _run_db_backup: when the dump is made, the day the loop began on is marked, *)
(* if the cache takes it; yesterday's mark takes the place of today's.         *)
RunsBackup(l) ==
    /\ Running(l, "db-backup")
    /\ \/ Dumps(TRUE) /\ marked' = ~loop[l].old /\ MovesOn(l, TRUE) /\ UNCHANGED blips
       \/ Dumps(TRUE) /\ blips < MaxBlips /\ blips' = blips + 1 /\ MovesOn(l, TRUE) /\ UNCHANGED marked
       \/ Dumps(FALSE) /\ MovesOn(l, FALSE) /\ UNCHANGED <<marked, blips>>
    /\ Releases(l)
    /\ UNCHANGED <<cycle, guards, heartbeat>>

(* The end of _run_cycle: the heartbeat is published and the loop sleeps. *)
EndsCycle(l) ==
    /\ loop[l].state = "between" /\ loop[l].at > Len(cycle)
    /\ heartbeat' = IF loop[l].failed THEN "error" ELSE "ok"
    /\ loop' = [loop EXCEPT ![l] = Asleep]
    /\ UNCHANGED <<cycle, lock, guards, backups, blips>>

-----------------------------------------------------------------------------
(* The cron endpoints, the clock and the cache.                             *)

(* db_backup: another dump, which no lock or marker holds back. *)
CronBackup ==
    /\ \E ok \in BOOLEAN : Dumps(ok)
    /\ UNCHANGED <<cycle, lock, loop, guards, marked, heartbeat, blips>>

(* retention_maintenance_cron: run_retention_maintenance under its guard. *)
CronRetention ==
    /\ ~weekly /\ weekly' = TRUE /\ cleanups' = cleanups + 1
    /\ UNCHANGED <<cycle, lock, loop, slot, taken, passes, backups, heartbeat, blips>>

(* The key lives for one interval; a task may take longer. *)
LockExpires(t) ==
    /\ t \in lock
    /\ lock' = lock \ {t}
    /\ loop' = [l \in Loops |-> IF l \in Runs(t) THEN [loop[l] EXCEPT !.late = TRUE] ELSE loop[l]]
    /\ UNCHANGED <<cycle, guards, backups, heartbeat, blips>>

(* fault: the entry has no timeout *)
HeartbeatStays ==
    /\ heartbeat = "none" /\ heartbeat' = "none"
    /\ UNCHANGED <<cycle, lock, loop, guards, backups, blips>>

(* The heartbeat lives for three intervals. *)
HeartbeatExpires ==
    /\ heartbeat # "none" /\ heartbeat' = "none"
    /\ UNCHANGED <<cycle, lock, loop, guards, backups, blips>>

(* The process dies, anywhere; start.sh does not start it again. *)
LoopDies(l) ==
    /\ loop[l].state # "dead"
    /\ loop' = [loop EXCEPT ![l] = [Asleep EXCEPT !.state = "dead"]]
    /\ UNCHANGED <<cycle, lock, guards, backups, heartbeat, blips>>

Redeployed ==
    /\ \E l \in Loops : loop[l].state = "dead"
    /\ loop' = [l \in Loops |-> IF loop[l].state = "dead" THEN Asleep ELSE loop[l]]
    /\ UNCHANGED <<cycle, lock, guards, backups, heartbeat, blips>>

ClockTicks ==
    /\ slot' = (slot + 1) % 3
    /\ IF slot = 2 THEN marked' = FALSE /\ dump' = (IF dump = "none" THEN "none" ELSE "old")
       ELSE UNCHANGED backups
    /\ loop' = [l \in Loops |-> [loop[l] EXCEPT !.old = @ \/ (slot = 2 /\ Running(l, "db-backup"))]]
    /\ taken' = FALSE /\ passes' = 0
    /\ UNCHANGED <<cycle, lock, weekly, cleanups, heartbeat, blips>>

LoopStep(l) ==
    \/ WakeUp(l) \/ TakesLock(l) \/ SkipsTask(l)
    \/ RunsJobs(l) \/ RunsReminders(l) \/ RunsRetention(l) \/ RunsBackup(l)
    \/ EndsCycle(l)

AutomationNext ==
    \/ \E l \in Loops : LoopStep(l) \/ LoopDies(l)
    \/ CronBackup \/ CronRetention
    \/ \E t \in Tasks : LockExpires(t)
    \/ HeartbeatExpires \/ Redeployed \/ ClockTicks

AutomationSpec == AutomationInit /\ [][AutomationNext]_automationVars

-----------------------------------------------------------------------------
(* Two loops are in one task only when one of them runs on without its key:   *)
(* it outlasted the key, or one that did deleted it at its end (_run_locked:  *)
(* a timeout of one interval, and a delete that does not ask whose key it is). *)
OneLoopPerTask == \A t \in Tasks : Cardinality(Runs(t)) <= 1 \/ \E l \in Runs(t) : loop[l].late

(* A reminder slot starts one pass, a week one clean-up, and a day is marked *)
(* as backed up with its dump there, however many loops and endpoints try    *)
(* and fail: each of the three guards is taken at its own side of the work,  *)
(* and only a cache that failed lets a pass start again (_run_if_due,        *)
(* _take_guard, _run_db_backup).                                             *)
GuardedWorkRunsOnce ==
    /\ cleanups <= 1 /\ (passes <= 1 \/ blips > 0)
    /\ marked => dump = "today"

(* /readyz: the answer is 200 only while the heartbeat is there and says ok. *)
Ready == heartbeat = "ok"

AllDead == \A l \in Loops : loop[l].state = "dead"

(* When every loop is dead, /readyz does not go on saying that all is well    *)
(* (the heartbeat's timeout; start.sh does not start a dead loop again).      *)
DeadLoopsAreNoticed == []<>(~Ready \/ ~AllDead)
=============================================================================
