------------------------------- MODULE Media -------------------------------
(***************************************************************************)
(* Uploaded files kept in the database (database_media/storage.py), with   *)
(* the file system behind them as a fallback: a file that is only there is *)
(* moved in by whoever reads it first, by the copy command, and moved out  *)
(* by the export command.  No step of these is in one transaction with     *)
(* another, and no lock is taken.                                          *)
(***************************************************************************)
CONSTANTS
    Names,       \* names of files; users choose the names of some uploads
    Workers      \* requests and commands at work

ASSUME MediaAssumption == {"", "nothing"} \intersect (Names \union Workers) = {}

VARIABLES
    blob,        \* the row of a name (unique): which file it holds, or Nothing
    disk,        \* the file of that name under MEDIA_ROOT
    held,        \* the files that records hold, by name
    work,        \* what each worker is about to do
    crossed      \* names that two workers were busy with at once

mediaVars == <<blob, disk, held, work, crossed>>

Nothing == "nothing"
Contents == Workers \union Names    \* an upload by who sent it, an old file by its name
Kept == Contents \union {Nothing}

Refers(n) == {h \in held : h[1] = n}

WorkerTasks == {"idle", "insert", "rename", "read", "import", "unlink", "copy", "export"}

Rest == [task |-> "idle", name |-> "", data |-> Nothing]

MediaTypeOK ==
    /\ blob \in [Names -> Kept] /\ disk \in [Names -> Kept]
    /\ held \subseteq Names \X Contents
    /\ work \in [Workers -> [task : WorkerTasks, name : Names \union {""}, data : Kept]]
    /\ crossed \subseteq Names

(* Before the storage was switched on the files were on the disk.           *)
MediaInit ==
    /\ blob = [n \in Names |-> Nothing]
    /\ \E legacy \in SUBSET Names :
        /\ disk = [n \in Names |-> IF n \in legacy THEN n ELSE Nothing]
        /\ held = {<<n, n>> : n \in legacy}
    /\ work = [w \in Workers |-> Rest]
    /\ crossed = {}

Exists(n) == blob[n] # Nothing \/ disk[n] # Nothing

Busy(w, n) == work[w].task # "idle" /\ work[w].name = n

Turns(w, turn, n, data) == work' = [work EXCEPT ![w] = [task |-> turn, name |-> n, data |-> data]]
Rests(w) == work' = [work EXCEPT ![w] = Rest]

(* Starting on a name that another worker is busy with.                      *)
Crosses(w, n) == crossed' = IF \E v \in Workers \ {w} : Busy(v, n) THEN crossed \union {n} ELSE crossed

StartsOn(w, turn, n, data) == work[w] = Rest /\ Turns(w, turn, n, data) /\ Crosses(w, n)

-----------------------------------------------------------------------------
(* _save: Storage.save has chosen a name that was free.                     *)
Upload(w, n) ==
    /\ ~Exists(n)
    /\ StartsOn(w, "insert", n, w)
    /\ UNCHANGED <<blob, disk, held>>

\* fault: a row that has the name already is written over
InsertOver(w) ==
    /\ work[w].task = "insert"
    /\ blob' = [blob EXCEPT ![work[w].name] = w]
    /\ held' = held \union {<<work[w].name, w>>}
    /\ Rests(w)
    /\ UNCHANGED <<disk, crossed>>

(* The row is inserted, or another one has the name by now.                  *)
Insert(w) ==
    /\ work[w].task = "insert"
    /\ LET n == work[w].name IN
        IF blob[n] = Nothing
        THEN /\ blob' = [blob EXCEPT ![n] = w]
             /\ held' = held \union {<<n, w>>}
             /\ Rests(w)
        ELSE /\ Turns(w, "rename", n, w)
             /\ UNCHANGED <<blob, held>>
    /\ UNCHANGED <<disk, crossed>>

(* get_available_name and the second attempt, whose failure is the request's. *)
InsertRenamed(w) ==
    /\ work[w].task = "rename"
    /\ \/ \E n \in Names :
            /\ ~Exists(n)
            /\ blob' = [blob EXCEPT ![n] = w]
            /\ held' = held \union {<<n, w>>}
       \/ UNCHANGED <<blob, held>>
    /\ Rests(w)
    /\ UNCHANGED <<disk, crossed>>

-----------------------------------------------------------------------------
(* _get_blob: the row answers; without one the fallback is asked, ...       *)
LookUp(w, n) ==
    /\ blob[n] = Nothing
    /\ StartsOn(w, "read", n, Nothing)
    /\ UNCHANGED <<blob, disk, held>>

(* ... its file is read whole, ...                                          *)
ReadFallback(w) ==
    /\ work[w].task = "read"
    /\ LET n == work[w].name IN
        IF disk[n] = Nothing THEN Rests(w) ELSE Turns(w, "import", n, disk[n])
    /\ UNCHANGED <<blob, disk, held, crossed>>

(* ... and becomes the row, unless there is one now.                         *)
Import(w) ==
    /\ work[w].task = "import"
    /\ LET n == work[w].name IN
        blob' = IF blob[n] = Nothing THEN [blob EXCEPT ![n] = work[w].data] ELSE blob
    /\ Rests(w)
    /\ UNCHANGED <<disk, held, crossed>>

-----------------------------------------------------------------------------
(* delete: the row, ...                                                     *)
DeleteRow(w, n) ==
    /\ Refers(n) # {}
    /\ held' = held \ Refers(n)
    /\ blob' = [blob EXCEPT ![n] = Nothing]
    /\ StartsOn(w, "unlink", n, Nothing)
    /\ UNCHANGED disk

(* ... then the file of the fallback.                                        *)
DeleteFile(w) ==
    /\ work[w].task = "unlink"
    /\ disk' = [disk EXCEPT ![work[w].name] = Nothing]
    /\ Rests(w)
    /\ UNCHANGED <<blob, held, crossed>>

-----------------------------------------------------------------------------
(* copy_media_to_database_storage: a name that a record refers to, that has  *)
(* no row and has a file ...                                                 *)
FindLegacy(w, n) ==
    /\ Refers(n) # {} /\ blob[n] = Nothing /\ disk[n] # Nothing
    /\ StartsOn(w, "copy", n, disk[n])
    /\ UNCHANGED <<blob, disk, held>>

(* ... is saved, under another name if a row has come up: one that no file    *)
(* has, since its end is drawn at random.  The record does not follow it, so *)
(* nobody refers to that copy.                                               *)
CopyLegacy(w) ==
    /\ work[w].task = "copy"
    /\ LET n == work[w].name IN
        IF blob[n] = Nothing
        THEN blob' = [blob EXCEPT ![n] = work[w].data] /\ UNCHANGED crossed
        ELSE \E m \in Names \union {""} :
                /\ m # "" => ~Exists(m)
                /\ blob' = [k \in Names |-> IF k = m THEN work[w].data ELSE blob[k]]
                /\ crossed' = crossed \union ({m} \ {""})
    /\ Rests(w)
    /\ UNCHANGED <<disk, held>>

(* export_database_media: the rows are fetched in portions ...               *)
FetchRow(w, n) ==
    /\ blob[n] # Nothing
    /\ StartsOn(w, "export", n, blob[n])
    /\ UNCHANGED <<blob, disk, held>>

(* ... and written where no file of the name is, or over it if asked to.     *)
ExportRow(w) ==
    /\ work[w].task = "export"
    /\ LET n == work[w].name IN
        disk' \in {[disk EXCEPT ![n] = work[w].data], IF disk[n] = Nothing THEN [disk EXCEPT ![n] = work[w].data] ELSE disk}
    /\ Rests(w)
    /\ UNCHANGED <<blob, held, crossed>>

-----------------------------------------------------------------------------
MediaNext ==
    \E w \in Workers :
        \/ Insert(w) \/ InsertRenamed(w)
        \/ ReadFallback(w) \/ Import(w) \/ DeleteFile(w)
        \/ CopyLegacy(w) \/ ExportRow(w)
        \/ \E n \in Names : Upload(w, n) \/ LookUp(w, n) \/ DeleteRow(w, n) \/ FindLegacy(w, n) \/ FetchRow(w, n)

MediaSpec == MediaInit /\ [][MediaNext]_mediaVars

-----------------------------------------------------------------------------
(* What a record refers to can be read, and is what was saved for it; what   *)
(* no record refers to any more is gone from the table and from the disk,    *)
(* unless two workers were busy with the name at once                        *)
(* (database_media/storage.py and its two commands).                         *)
FilesStayAndGo ==
    \A n \in Names :
        /\ Refers(n) \subseteq {<<n, IF blob[n] # Nothing THEN blob[n] ELSE disk[n]>>}
        /\ (Refers(n) = {} /\ n \notin crossed /\ \A w \in Workers : ~Busy(w, n)) => ~Exists(n)
=============================================================================
