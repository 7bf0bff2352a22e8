---------------------------- MODULE Persistence -----------------------------
(* src/persistence.c and src/migrations.c: the SQLite log of API calls. Every *)
(* session of a project opens the same file, brings its schema up to date,    *)
(* rotates old records out and then logs its calls. An SQL statement is       *)
(* atomic, and so is a migration (it is one transaction); between two of them *)
(* the other sessions run.                                                    *)
EXTENDS Integers, FiniteSets

CONSTANTS
    Sessions,    \* the processes that have the database open
    MaxDays,     \* CLAUDE_C_DB_MAX_DAYS, 0 for unlimited
    Day,         \* the length of a day, 86400 in the code
    IntMax,      \* INT_MAX, the largest int
    MaxRecords,  \* CLAUDE_C_DB_MAX_RECORDS, 0 for unlimited
    MaxCalls,    \* bound: calls logged in all
    MaxTime      \* bound: the last time that is reached

VARIABLES
    calls,       \* table api_calls: id, created_at and the call the row is about
    usage,       \* table token_usage: api_call_id and the call the row is about
    sequence,    \* the AUTOINCREMENT counter of api_calls
    logged,      \* the calls logged so far, in all sessions
    columns,     \* the columns of api_calls that migrations add
    version,     \* max(version) of schema_version, 0 without the table
    exists,      \* the table api_calls exists
    now,         \* time(NULL)
    pc,          \* where each session is
    local        \* each session's locals: current_version of migrations_apply,
                 \* max_records of rotate_by_count, whether that is the rotation
                 \* for the file's size, the row inserted last

tables == <<calls, usage, sequence, logged>>
schema == <<exists, columns, version>>
vars == <<tables, schema, now, pc, local>>

-----------------------------------------------------------------------------
(* MIGRATIONS: version and the column it adds.                                *)
Migrations == <<"session_id", "headers_json">>

AllColumns == {Migrations[v] : v \in DOMAIN Migrations}

NoLocals == [version |-> 0, keep |-> 0, resized |-> FALSE, id |-> 0, of |-> 0]

(* A new file, or one left by a release before the first or second migration. *)
Init ==
    /\ \E v \in 0..1, old \in BOOLEAN :
        /\ old \/ v = 0
        /\ exists = old
        /\ version = v
        /\ columns = {Migrations[i] : i \in 1..v}
    /\ calls = {} /\ usage = {} /\ sequence = 0 /\ logged = 0 /\ now = 0
    /\ pc = [p \in Sessions |-> "closed"]
    /\ local = [p \in Sessions |-> NoLocals]

Goto(p, label) == pc' = [pc EXCEPT ![p] = label]

Return(p, label) == Goto(p, label) /\ local' = [local EXCEPT ![p] = NoLocals]

(* persistence_init: SCHEMA_SQL creates the tables that are missing, with all *)
(* columns; INDEX_SQL fails without harm on an old table.                     *)
CreateSchema(p) ==
    /\ pc[p] = "closed"
    /\ exists' = TRUE
    /\ columns' = IF exists THEN columns ELSE AllColumns
    /\ Goto(p, "version")
    /\ UNCHANGED <<tables, version, now, local>>

(* migrations_get_version, read once, before the first transaction            *)
ReadVersion(p) ==
    /\ pc[p] = "version"
    /\ local' = [local EXCEPT ![p].version = version]
    /\ Goto(p, "migrate")
    /\ UNCHANGED <<tables, schema, now>>

(* mutant: a column that is there already is an error of the migration        *)
DuplicateFails(v) == Migrations[v] \in columns

(* ALTER TABLE fails; "duplicate column name" is taken for success.           *)
UpFails(v) == FALSE

(* One migration: the column and its version in one transaction. Another      *)
(* session may have applied it since the version was read.                    *)
Migrate(p) ==
    LET v == local[p].version + 1 IN
    /\ pc[p] = "migrate" /\ v \in DOMAIN Migrations
    /\ IF UpFails(v)
       THEN Return(p, "failed") /\ UNCHANGED <<columns, version>>
       ELSE /\ columns' = columns \cup {Migrations[v]}
            /\ version' = IF v > version THEN v ELSE version
            /\ local' = [local EXCEPT ![p].version = v]
            /\ UNCHANGED pc
    /\ UNCHANGED <<tables, exists, now>>

Migrated(p) ==
    /\ pc[p] = "migrate" /\ local[p].version + 1 \notin DOMAIN Migrations
    /\ Return(p, "age")
    /\ UNCHANGED <<tables, schema, now>>

(* SQLite refuses a statement (locked for longer than the busy timeout, disk  *)
(* full). While opening, the schema and the migrations give up and the        *)
(* session runs without a log; a failed rotation is only abandoned.           *)
StatementFails(p) ==
    /\ \/ /\ pc[p] = "closed"
          /\ Return(p, "nolog")
       \/ /\ pc[p] = "migrate" /\ local[p].version + 1 \in DOMAIN Migrations
          /\ Return(p, "nolog")
       \/ /\ pc[p] \in {"age", "count", "cut"}
          /\ Return(p, "ready")
    /\ UNCHANGED <<tables, schema, now>>

-----------------------------------------------------------------------------
(* persistence_auto_rotate: by age, by count, and if the file is still too    *)
(* large a quarter of the records.                                            *)

(* days * 86400 is a product of ints and wraps.                               *)
Age == ((MaxDays * Day + IntMax + 1) % (2 * (IntMax + 1))) - (IntMax + 1)

(* persistence_rotate_by_age                                                  *)
RotateByAge(p) ==
    /\ pc[p] = "age"
    /\ calls' = IF MaxDays = 0 THEN calls ELSE {c \in calls : c.at >= now - Age}
    /\ local' = [local EXCEPT ![p].keep = MaxRecords]
    /\ Goto(p, "count")
    /\ UNCHANGED <<usage, sequence, logged, schema, now>>

(* After the rotation by count the size is looked at; after that for the size *)
(* the session is ready.                                                      *)
Rotated(p) == IF local[p].resized THEN Return(p, "ready") ELSE Return(p, "size")

(* persistence_rotate_by_count: SELECT COUNT                                  *)
CountRecords(p) ==
    /\ pc[p] = "count"
    /\ IF local[p].keep # 0 /\ Cardinality(calls) > local[p].keep
       THEN Goto(p, "cut") /\ UNCHANGED local
       ELSE Rotated(p)
    /\ UNCHANGED <<tables, schema, now>>

(* mutant: ORDER BY created_at ASC                                            *)
KeepOldest(n) == {kept \in SUBSET calls :
    /\ Cardinality(kept) = IF n < Cardinality(calls) THEN n ELSE Cardinality(calls)
    /\ \A c \in kept, d \in calls \ kept : c.at <= d.at}

(* SELECT id ... ORDER BY created_at DESC LIMIT n: which of the rows of one   *)
(* second come first is left open.                                            *)
Newest(n) == {kept \in SUBSET calls :
    /\ Cardinality(kept) = IF n < Cardinality(calls) THEN n ELSE Cardinality(calls)
    /\ \A c \in kept, d \in calls \ kept : c.at >= d.at}

(* DELETE ... WHERE id NOT IN the newest. token_usage keeps its rows: the     *)
(* schema says ON DELETE CASCADE, but PRAGMA foreign_keys is never set.       *)
DeleteOldest(p) ==
    /\ pc[p] = "cut"
    /\ calls' \in Newest(local[p].keep)
    /\ Rotated(p)
    /\ UNCHANGED <<usage, sequence, logged, schema, now>>

(* The size of the file (outside the model) against the limit: three quarters *)
(* of the records stay.                                                       *)
CheckSize(p) ==
    LET keep == (Cardinality(calls) * 3) \div 4 IN
    /\ pc[p] = "size"
    /\ \/ Return(p, "ready")
       \/ /\ keep > 0
          /\ local' = [local EXCEPT ![p].keep = keep, ![p].resized = TRUE]
          /\ Goto(p, "count")
    /\ UNCHANGED <<tables, schema, now>>

-----------------------------------------------------------------------------
(* AUTOINCREMENT: an id is not used again, even after its row was deleted.    *)
NextId == sequence + 1

(* persistence_log_api_call: the row of the call. Only an answer with a usage *)
(* object has a second row to come.                                           *)
LogApiCall(p) ==
    LET row == [id |-> NextId, of |-> logged + 1, at |-> now] IN
    /\ pc[p] = "ready" /\ logged < MaxCalls
    /\ columns = AllColumns
    /\ calls' = calls \cup {row}
    /\ sequence' = row.id
    /\ logged' = logged + 1
    /\ \/ UNCHANGED <<pc, local>>
       \/ /\ Goto(p, "usage")
          /\ local' = [local EXCEPT ![p].id = row.id, ![p].of = row.of]
    /\ UNCHANGED <<usage, schema, now>>

(* sqlite3_last_insert_rowid is the connection's own; the insert may fail.    *)
LogTokenUsage(p) ==
    /\ pc[p] = "usage"
    /\ \/ usage' = usage \cup {[call |-> local[p].id, of |-> local[p].of]}
       \/ UNCHANGED usage
    /\ Return(p, "ready")
    /\ UNCHANGED <<calls, sequence, logged, schema, now>>

(* persistence_close, or the process dies: what was committed stays.          *)
Close(p) ==
    /\ pc[p] # "closed"
    /\ Return(p, "closed")
    /\ UNCHANGED <<tables, schema, now>>

Tick ==
    /\ now < MaxTime
    /\ now' = now + 1
    /\ UNCHANGED <<tables, schema, pc, local>>

Next ==
    \/ \E p \in Sessions :
        \/ CreateSchema(p) \/ ReadVersion(p) \/ Migrate(p) \/ Migrated(p) \/ StatementFails(p)
        \/ RotateByAge(p) \/ CountRecords(p) \/ DeleteOldest(p) \/ CheckSize(p)
        \/ LogApiCall(p) \/ LogTokenUsage(p) \/ Close(p)
    \/ Tick

Spec == Init /\ [][Next]_vars

-----------------------------------------------------------------------------
(* Every table, counter and local keeps its type.                             *)
TypeOK ==
    /\ calls \subseteq [id : 1..MaxCalls, of : 1..MaxCalls, at : 0..MaxTime]
    /\ usage \subseteq [call : 1..MaxCalls, of : 1..MaxCalls]
    /\ sequence \in 0..MaxCalls /\ logged \in 0..MaxCalls
    /\ columns \subseteq AllColumns
    /\ version \in 0..Cardinality(DOMAIN Migrations) /\ exists \in BOOLEAN
    /\ now \in 0..MaxTime
    /\ pc \in [Sessions -> {"closed", "version", "migrate", "failed", "nolog", "age",
                            "count", "cut", "size", "usage", "ready"}]
    /\ local \in [Sessions -> [version : 0..Cardinality(DOMAIN Migrations), keep : Nat,
                              resized : BOOLEAN, id : 0..MaxCalls, of : 0..MaxCalls]]

(* Token usage found under a call is that call's: rotation leaves usage rows  *)
(* behind, and none of them is ever taken for a later call's, whichever       *)
(* session wrote which row.                                                   *)
UsageOfItsCall == \A u \in usage, c \in calls : u.call = c.id => u.of = c.of

(* Two sessions that open an old file at once both end up with a log: opening *)
(* fails only on an error of SQLite, and a session that is past the           *)
(* migrations finds every column its INSERT names.                            *)
OpensTogether == \A p \in Sessions :
    /\ pc[p] # "failed"
    /\ pc[p] \in {"age", "count", "cut", "size", "usage", "ready"} => columns = AllColumns

(* The two above: what sessions that share a database may count on.           *)
SharedDatabaseHolds == OpensTogether /\ UsageOfItsCall

(* Rotation, interleaved with the inserts and rotations of other sessions,    *)
(* never deletes a record that is younger than one it keeps.                  *)
OldestRecordsFirst == [][\A c \in calls \ calls', d \in calls \cap calls' : c.at <= d.at]_vars
=============================================================================
