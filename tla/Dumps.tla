------------------------------- MODULE Dumps -------------------------------
(***************************************************************************)
(* create_db_backup (legalize_site/backups.py): purge, dump, encrypt,      *)
(* store.  The cron request, the command and the automation loop may be at *)
(* it at once; a file is named after the second its dump began in.         *)
(***************************************************************************)
EXTENDS Naturals

CONSTANTS
    Makers,      \* requests, commands and loops that make a backup
    LastSecond   \* seconds in which one begins

ASSUME DumpsAssumption == LastSecond \in Nat

VARIABLES
    hasKeys,     \* FERNET_KEYS are set
    remote,      \* BACKUP_REMOTE_STORAGE is on
    second,      \* now
    plain,       \* the .sql file of a second: none, half, whole
    enc,         \* its .sql.enc file
    old,         \* files of more than MAX_BACKUP_AGE_HOURS
    maker,       \* where each maker is, and the second of its file
    reported,    \* backups that were answered for, and are kept here
    uploaded,    \* what the remote storage has: seconds, and if it is whole
    begun,       \* seconds in which a maker began
    shared,      \* seconds in which two did
    broken       \* seconds of a dump that failed or whose maker died

dumpVars == <<hasKeys, remote, second, plain, enc, old, maker, reported, uploaded, begun, shared, broken>>

Seconds == 0..LastSecond
States == {"none", "half", "whole"}
Steps == {"idle", "dump", "encrypt", "unlink", "store"}
NoMaker == [at |-> "idle", of |-> 0]

DumpsTypeOK ==
    /\ {hasKeys, remote} \subseteq BOOLEAN /\ second \in Seconds
    /\ plain \in [Seconds -> States] /\ enc \in [Seconds -> States]
    /\ maker \in [Makers -> [at : Steps, of : Seconds]]
    /\ {old, reported, begun, shared, broken} \subseteq SUBSET Seconds
    /\ uploaded \subseteq Seconds \X States

DumpsInit ==
    /\ hasKeys \in BOOLEAN /\ remote \in BOOLEAN
    /\ second = 0
    /\ plain = [s \in Seconds |-> "none"] /\ enc = plain
    /\ maker = [m \in Makers |-> NoMaker]
    /\ old = {} /\ reported = {} /\ uploaded = {} /\ begun = {} /\ shared = {} /\ broken = {}

Settings == UNCHANGED <<hasKeys, remote>>

Of(m) == maker[m].of
At(m, step) == maker[m].at = step
MakerGoes(m, step) == maker' = [maker EXCEPT ![m].at = step]
MakerEnds(m) == maker' = [maker EXCEPT ![m] = NoMaker]

Without(files, gone) == [s \in Seconds |-> IF s \in gone THEN "none" ELSE files[s]]

\* fault: the purge does not look at the age of a file
StaleAll == Seconds

(* _purge_old_backups: plain and encrypted files alike.                      *)
Stale == old

(* Without pg_dump or a database URL it ends before this.  The purge comes   *)
(* before the dump, which may fail.                                          *)
BeginBackup(m) ==
    /\ maker[m] = NoMaker
    /\ maker' = [maker EXCEPT ![m] = [at |-> "dump", of |-> second]]
    /\ plain' = [Without(plain, Stale) EXCEPT ![second] = "half"]
    /\ enc' = Without(enc, Stale)
    /\ old' = {} /\ reported' = reported \ old
    /\ begun' = begun \union {second}
    /\ shared' = shared \union (begun \intersect {second})
    /\ UNCHANGED <<second, uploaded, broken>> /\ Settings

(* pg_dump writes the file under the name that is the backup's at the end.   *)
DumpEnds(m) ==
    /\ At(m, "dump")
    /\ plain' = [plain EXCEPT ![Of(m)] = IF \E v \in Makers \ {m} : At(v, "dump") /\ Of(v) = Of(m) THEN "half" ELSE "whole"]
    /\ MakerGoes(m, IF hasKeys THEN "encrypt" ELSE "store")
    /\ UNCHANGED <<second, enc, old, reported, uploaded, begun, shared, broken>> /\ Settings

(* check=True, or a killed process: the half file stays where it is.         *)
MakerFails(m) ==
    /\ ~At(m, "idle")
    /\ MakerEnds(m)
    /\ broken' = broken \union {Of(m)}
    /\ UNCHANGED <<second, plain, enc, old, reported, uploaded, begun, shared>> /\ Settings

(* _encrypt_file writes the second file ...                                  *)
Encrypt(m) ==
    /\ At(m, "encrypt")
    /\ IF plain[Of(m)] = "none" THEN MakerEnds(m) /\ UNCHANGED enc
       ELSE MakerGoes(m, "unlink") /\ enc' = [enc EXCEPT ![Of(m)] = plain[Of(m)]]
    /\ UNCHANGED <<second, plain, old, reported, uploaded, begun, shared, broken>> /\ Settings

(* ... and removes the first.                                                *)
Unlink(m) ==
    /\ At(m, "unlink")
    /\ plain' = [plain EXCEPT ![Of(m)] = "none"]
    /\ MakerGoes(m, "store")
    /\ UNCHANGED <<second, enc, old, reported, uploaded, begun, shared, broken>> /\ Settings

Final(m) == IF hasKeys THEN enc[Of(m)] ELSE plain[Of(m)]

(* LocalBackupStorage keeps the file; ConfiguredBackupStorage takes it and   *)
(* the local one goes, or fails and it stays.  A file that another maker has *)
(* removed cannot be hashed.                                                 *)
Store(m) ==
    /\ At(m, "store") /\ MakerEnds(m)
    /\ \/ /\ ~remote /\ Final(m) # "none"
          /\ reported' = reported \union {Of(m)}
          /\ UNCHANGED <<plain, enc, uploaded>>
       \/ /\ remote /\ Final(m) # "none"
          /\ uploaded' = uploaded \union {<<Of(m), Final(m)>>}
          /\ IF hasKeys THEN enc' = [enc EXCEPT ![Of(m)] = "none"] /\ UNCHANGED plain
                     ELSE plain' = [plain EXCEPT ![Of(m)] = "none"] /\ UNCHANGED enc
          /\ UNCHANGED reported
       \/ /\ remote \/ Final(m) = "none"
          /\ UNCHANGED <<plain, enc, reported, uploaded>>
    /\ UNCHANGED <<second, old, begun, shared, broken>> /\ Settings

Tick ==
    /\ second < LastSecond
    /\ second' = second + 1
    /\ UNCHANGED <<plain, enc, old, maker, reported, uploaded, begun, shared, broken>> /\ Settings

(* No backup takes a day.                                                    *)
DayPasses ==
    /\ second < LastSecond /\ \A m \in Makers : At(m, "idle")
    /\ second' = second + 1
    /\ old' = {s \in Seconds : plain[s] # "none" \/ enc[s] # "none"}
    /\ UNCHANGED <<plain, enc, maker, reported, uploaded, begun, shared, broken>> /\ Settings

DumpsNext ==
    \/ Tick \/ DayPasses
    \/ \E m \in Makers :
        BeginBackup(m) \/ DumpEnds(m) \/ MakerFails(m) \/ Encrypt(m) \/ Unlink(m) \/ Store(m)

DumpsSpec == DumpsInit /\ [][DumpsNext]_dumpVars

-----------------------------------------------------------------------------
(* A backup that was answered for can be restored: it is whole, here for as  *)
(* long as it is not old or in the remote storage; and where there is a key  *)
(* no dump lies about unencrypted, but for the ones whose maker failed.      *)
(* Makers of one second spoil each other's files (legalize_site/backups.py). *)
ReportedDumpsRestore ==
    /\ \A s \in reported \ shared : (IF hasKeys THEN enc[s] ELSE plain[s]) = "whole"
    /\ \A u \in uploaded : u[1] \notin shared => u[2] = "whole"
    /\ hasKeys => \A s \in Seconds \ (shared \union broken) :
                  plain[s] # "none" => \E m \in Makers : ~At(m, "idle") /\ Of(m) = s
=============================================================================
