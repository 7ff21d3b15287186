------------------------------ MODULE FieldKeys ------------------------------
(***************************************************************************)
(* The encrypted fields and the change of the Fernet key: processes with   *)
(* a ring of keys each, which load rows, change them and save them, and    *)
(* the two commands of the runbook, rotate_fernet_fields and               *)
(* validate_encrypted_data --primary-key-only, before the old key goes     *)
(* (fernet_fields/fields.py, security/encrypted.py,                        *)
(* management/commands/, docs/field_encryption.md).                        *)
(*                                                                         *)
(* Two rows stand for all: a client with two encrypted texts, one of which *)
(* has a blind index, and a questionnaire with an encrypted JSON value.    *)
(* A token is what it was made of and with which key.                      *)
(***************************************************************************)
EXTENDS Naturals, Sequences

CONSTANTS Processes,  \* web and worker processes, each with a ring of its own
          Contents    \* what a field may say

Old == 1              \* the keys
New == 2
Clear == 0            \* a JSON value from before the encryption
Placeholder == "placeholder"

ASSUME KeysAssumption == Placeholder \notin Contents

VARIABLES stored,     \* the token in each column
          digest,     \* of what client.email_hash is the hash
          ring,       \* FERNET_KEYS of each process, the primary key first
          object,     \* the instance each process has loaded
          rotation,   \* the transaction of rotate_fernet_fields
          audit,      \* the run of validate_encrypted_data
          locking,    \* whether the database has SELECT ... FOR UPDATE
          retired     \* whether the old key is being taken off the rings

keysVars == <<stored, digest, ring, object, rotation, audit, locking, retired>>

Texts == {"email", "passport"}
Jsons == {"answers"}
Columns == Texts \cup Jsons
Tables == {"client", "questionnaire"}
ColumnsOf(t) == IF t = "client" THEN Texts ELSE Jsons

Token == [key : {Clear, Old, New}, plain : Contents \cup {Placeholder}]
Seen == [known : BOOLEAN, token : Token]
NoObject == [table |-> "none"]
NoRotation == [phase |-> "none"]
NoAudit == [phase |-> "none"]
Both == <<New, Old>>
OnRing(k, r) == \E i \in DOMAIN r : r[i] = k

KeysInit ==
    /\ \E c \in Contents, k \in {Clear, Old} :
        /\ stored = [f \in Columns |-> [key |-> IF f \in Jsons THEN k ELSE Old, plain |-> c]]
        /\ digest = c
    /\ ring = [p \in Processes |-> <<Old>>]
    /\ object = [p \in Processes |-> NoObject]
    /\ rotation = NoRotation
    /\ audit = NoAudit
    /\ locking \in BOOLEAN
    /\ retired = FALSE
-----------------------------------------------------------------------------
(* Rows in memory. *)

(* Clear text is read in a JSON column only.                                 *)
Readable(f, token, r) == IF token.key = Clear THEN f \in Jsons ELSE OnRing(token.key, r)

(* What cannot be read is a placeholder that remembers the token.            *)
FromDbValue(f, token, r) ==
    LET known == Readable(f, token, r)
    IN  [known |-> known, token |-> [token EXCEPT !.key = IF known THEN Clear ELSE @]]

GetPrepValue(m, r) == IF m.known THEN [key |-> Head(r), plain |-> m.token.plain] ELSE m.token

Shows(m) == IF m.known THEN m.token.plain ELSE Placeholder

Load(p, t) ==
    /\ object[p] = NoObject
    /\ object' = [object EXCEPT ![p] =
           [table |-> t, of |-> [f \in ColumnsOf(t) |-> FromDbValue(f, stored[f], ring[p])]]]
    /\ UNCHANGED <<stored, digest, ring, rotation, audit, locking, retired>>

Locked(f) ==
    /\ rotation.phase = "open"
    /\ \/ locking /\ \E t \in rotation.read : f \in ColumnsOf(t)
       \/ \E g \in DOMAIN rotation.wrote, t \in Tables : {f, g} \subseteq ColumnsOf(t)

\* fault: save(update_fields=["email"]) leaves the index alone
IndexWrittenOnFullSave(o, fields) == fields = ColumnsOf("client")

(* The index goes with the address.                                          *)
IndexWritten(o, fields) == o.table = "client" /\ "email" \in fields

(* A field is set and the row is saved: save() writes every column,          *)
(* save(update_fields=...) the one.  A JSON value is read before it is       *)
(* merged into, and the write is refused when it cannot be                   *)
(* (require_encrypted_json_dict).                                            *)
SaveRow(p, f, c) ==
    LET o == object[p]
        known == [known |-> TRUE, token |-> [key |-> Clear, plain |-> c]]
        now == [o EXCEPT !.of[f] = known]
    IN  /\ o.table # "none"
        /\ f \in ColumnsOf(o.table)
        /\ f \in Jsons => o.of[f].known
        /\ \A g \in ColumnsOf(o.table) : ~Locked(g)
        /\ \E fields \in {{f}, ColumnsOf(o.table)} :
            /\ stored' = [g \in Columns |-> IF g \in fields THEN GetPrepValue(now.of[g], ring[p]) ELSE stored[g]]
            /\ digest' = IF IndexWritten(now, fields) THEN Shows(now.of["email"]) ELSE digest
        /\ object' = [object EXCEPT ![p] = NoObject]
        /\ UNCHANGED <<ring, rotation, audit, locking, retired>>
-----------------------------------------------------------------------------
(* The runbook.  A process is restarted with another ring; what it had in    *)
(* memory is gone.                                                           *)

Configure(p) ==
    /\ ring[p] = <<Old>>
    /\ ring' = [ring EXCEPT ![p] = Both]
    /\ object' = [object EXCEPT ![p] = NoObject]
    /\ UNCHANGED <<stored, digest, rotation, audit, locking, retired>>

(* The command has the full ring.  Whoever confirms maintenance may have     *)
(* overlooked a process that still writes.  --model narrows it.              *)
RotateFernetFields(tables) ==
    /\ rotation = NoRotation
    /\ ~retired
    /\ tables # {}
    /\ rotation' = [phase |-> "open", todo |-> tables, read |-> {}, rows |-> <<>>, wrote |-> <<>>]
    /\ UNCHANGED <<stored, digest, ring, object, audit, locking, retired>>

AbortRotation ==
    /\ rotation' = NoRotation
    /\ UNCHANGED <<stored, digest, ring, object, audit, locking, retired>>

CanDecode(f) == stored[f].key # Clear

(* The rows of a table are read, and locked where the database can.  A value *)
(* that is no token, or cannot be read, ends the transaction.                *)
RotateModel(t) ==
    /\ rotation.phase = "open"
    /\ rotation.rows = <<>>
    /\ rotation.todo # {} /\ t = CHOOSE u \in rotation.todo : TRUE
    /\ IF \A f \in ColumnsOf(t) : CanDecode(f)
       THEN /\ rotation' = [rotation EXCEPT !.todo = @ \ {t}, !.read = @ \cup {t},
                                            !.rows = [f \in ColumnsOf(t) |-> stored[f]]]
            /\ UNCHANGED <<stored, digest, ring, object, audit, locking, retired>>
       ELSE AbortRotation

\* fault: the update does not compare
UpdateBlindly(f) == TRUE

ConditionalUpdateRaw(f) == stored[f] = rotation.rows[f]

RotateField(f) ==
    /\ rotation.phase = "open"
    /\ DOMAIN rotation.rows # {} /\ f = CHOOSE g \in DOMAIN rotation.rows : TRUE
    /\ IF ConditionalUpdateRaw(f)
       THEN /\ rotation' = [rotation EXCEPT
                   !.rows = [g \in DOMAIN @ \ {f} |-> @[g]],
                   !.wrote = [g \in DOMAIN @ \cup {f} |->
                       IF g = f THEN [rotation.rows[f] EXCEPT !.key = New] ELSE @[g]]]
            /\ UNCHANGED <<stored, digest, ring, object, audit, locking, retired>>
       ELSE AbortRotation

CommitRotation ==
    /\ rotation.phase = "open"
    /\ rotation.todo = {}
    /\ DOMAIN rotation.rows = {}
    /\ stored' = [f \in Columns |-> IF f \in DOMAIN rotation.wrote THEN rotation.wrote[f] ELSE stored[f]]
    /\ rotation' = NoRotation
    /\ UNCHANGED <<digest, ring, object, audit, locking, retired>>

(* Every process has the full ring before the validation counts.             *)
ValidateEncryptedData ==
    /\ audit.phase = "none"
    /\ \A p \in Processes : ring[p] = Both
    /\ audit' = [phase |-> "running", todo |-> Columns]
    /\ UNCHANGED <<stored, digest, ring, object, rotation, locking, retired>>

\* fault: the validation takes any key of the ring
ClassifyWithRing(token) == token.key \in {Old, New}

ClassifyValue(token) == token.key = New

(* Column by column, without a lock or a snapshot, in an order that does not  *)
(* change.                                                                   *)
CheckField(f) ==
    /\ audit.phase = "running"
    /\ f = CHOOSE g \in audit.todo : TRUE
    /\ audit' = IF ~ClassifyValue(stored[f]) THEN NoAudit
                ELSE IF audit.todo = {f} THEN [phase |-> "passed"]
                ELSE [audit EXCEPT !.todo = @ \ {f}]
    /\ UNCHANGED <<stored, digest, ring, object, rotation, locking, retired>>

RemoveOldKey(p) ==
    /\ audit.phase = "passed"
    /\ rotation = NoRotation
    /\ ring[p] = Both
    /\ ring' = [ring EXCEPT ![p] = <<New>>]
    /\ object' = [object EXCEPT ![p] = NoObject]
    /\ retired' = TRUE
    /\ UNCHANGED <<stored, digest, rotation, audit, locking>>

KeysNext ==
    \/ \E p \in Processes :
        \/ \E t \in Tables : Load(p, t)
        \/ \E f \in Columns, c \in Contents : SaveRow(p, f, c)
        \/ Configure(p)
        \/ RemoveOldKey(p)
    \/ \E tables \in SUBSET Tables : RotateFernetFields(tables)
    \/ \E t \in Tables : RotateModel(t)
    \/ \E f \in Columns : RotateField(f)
    \/ CommitRotation
    \/ ValidateEncryptedData
    \/ \E f \in Columns : CheckField(f)

KeysSpec == KeysInit /\ [][KeysNext]_keysVars
-----------------------------------------------------------------------------
KeysTypeOK ==
    /\ stored \in [Columns -> Token]
    /\ digest \in Contents \cup {Placeholder}
    /\ ring \in [Processes -> {<<Old>>, Both, <<New>>}]
    /\ \A p \in Processes :
          object[p] # NoObject => /\ object[p].table \in Tables
                                  /\ object[p].of \in [ColumnsOf(object[p].table) -> Seen]
    /\ rotation.phase \in {"none", "open"}
    /\ audit.phase \in {"none", "running", "passed"}
    /\ locking \in BOOLEAN
    /\ retired \in BOOLEAN

(* Whatever order processes are restarted in, rows are saved and the         *)
(* commands are run, no column ever holds the placeholder in place of what   *)
(* somebody wrote, and once the old key is taken off the rings nothing is    *)
(* under it: what was written can still be read (get_prep_value,             *)
(* validate_encrypted_data --primary-key-only).                              *)
ValuesSurvive ==
    \A f \in Columns :
        /\ stored[f].plain # Placeholder
        /\ retired => stored[f].key = New

(* The rotation changes keys and no value, whoever saves meanwhile: it       *)
(* commits nothing over a value that it did not read                         *)
(* (rotate_fernet_fields._conditional_update_raw).                           *)
RotationKeepsValues ==
    [][rotation' # rotation => \A f \in Columns : stored'[f].plain = stored[f].plain]_keysVars

(* The blind index of the address is of the address in the row, or of the    *)
(* placeholder after a process that could not read it saved the whole row    *)
(* (Client.save).                                                            *)
IndexFollowsEmail == digest \in {stored["email"].plain, Placeholder}
=============================================================================
