------------------------------ MODULE Migration ------------------------------
(***************************************************************************)
(* initialize_database (database.py), which every command runs before its   *)
(* work, by several commands on one database file: a new one, or one that   *)
(* an older release has left.                                               *)
(*                                                                          *)
(* Outside a transaction every CREATE ... IF NOT EXISTS commits by itself;  *)
(* the INSERT of a version begins a transaction that ends with the commit   *)
(* at the end of _apply_migrations, or with the next executescript, which   *)
(* commits first.  The tables and indexes a version adds are numbered parts *)
(* of it, in the order of its script.                                       *)
(***************************************************************************)
EXTENDS Integers, FiniteSets

CONSTANTS
    Commands,           \* processes; each runs commands one after the other
    NoCommand,          \* "nobody": no write transaction is open
    Parts,              \* how many tables and indexes each schema version adds
    MaxFaults           \* bound: killed processes and "database is locked" errors

SchemaVersion == 3
Versions == 1 .. SchemaVersion

ASSUME MigrationAssumption ==
    /\ NoCommand \notin Commands
    /\ Parts \in [Versions -> Nat]
    /\ MaxFaults \in Nat

VARIABLES
    objects,            \* the tables and indexes there are: <<version, part>>
    versions,           \* the rows of schema_migrations, as committed
    hasTable,           \* schema_migrations exists
    writer, inserted,   \* the open transaction: whose it is, the versions it inserted
    pc, current,        \* of a process: where it is, the version it has read
    version, part,      \* the migration it applies, and how much of it is done
    faults

dbVars == <<objects, versions, hasTable, writer, inserted>>
localVars == <<pc, current, version, part>>
vars == <<dbVars, localVars, faults>>

Schema(v) == {v} \X (1 .. Parts[v])
SchemaUpTo(v) == UNION {Schema(w): w \in 1 .. v}

TypeOK ==
    /\ objects \subseteq SchemaUpTo(SchemaVersion)
    /\ versions \subseteq Versions
    /\ hasTable \in BOOLEAN
    /\ writer \in Commands \cup {NoCommand}
    /\ inserted \subseteq Versions
    /\ pc \in [Commands -> {"closed", "table", "read", "create", "record", "commit",
                            "ready", "failed"}]
    /\ current \in [Commands -> 0 .. SchemaVersion]
    /\ version \in [Commands -> Versions]
    /\ part \in [Commands -> Nat]
    /\ faults \in Nat

\* a new file, or the database of the release that had version v
Init ==
    /\ \/ objects = {} /\ versions = {} /\ hasTable = FALSE
       \/ \E v \in Versions:
             objects = SchemaUpTo(v) /\ versions = {v} /\ hasTable = TRUE
    /\ writer = NoCommand /\ inserted = {}
    /\ pc = [c \in Commands |-> "closed"]
    /\ current = [c \in Commands |-> 0]
    /\ version = [c \in Commands |-> 1]
    /\ part = [c \in Commands |-> 0]
    /\ faults = 0

-----------------------------------------------------------------------------

Goto(c, label) == pc' = [pc EXCEPT ![c] = label]
Free(c) == writer \in {NoCommand, c}

\* SELECT COALESCE(MAX(version), 0)
Latest == IF versions = {} THEN 0 ELSE CHOOSE v \in versions: \A w \in versions: w <= v

\* the script of version v is the next to run
Begin(c, v) ==
    /\ version' = [version EXCEPT ![c] = v]
    /\ part' = [part EXCEPT ![c] = 0]
    /\ Goto(c, "create")

\* the connection is closed, or the process is gone: an open transaction is lost
CloseConnection(c) ==
    /\ writer' = IF writer = c THEN NoCommand ELSE writer
    /\ inserted' = IF writer = c THEN {} ELSE inserted

-----------------------------------------------------------------------------
(* Mistakes a change of _apply_migrations could make; each one takes the    *)
(* place of the action it is named after in a run that must then fail.      *)

\* elif current_version < 3: one version at a start
CommitOneVersion(c) ==
    /\ pc[c] = "commit"
    /\ versions' = versions \cup inserted
    /\ writer' = NoCommand /\ inserted' = {}
    /\ Goto(c, "ready")
    /\ UNCHANGED <<objects, hasTable, current, version, part, faults>>

\* the commit at the end is missing
CommitForgotten(c) ==
    /\ pc[c] = "commit"
    /\ IF version[c] = SchemaVersion
       THEN Goto(c, "ready") /\ UNCHANGED <<versions, writer, inserted, version, part>>
       ELSE /\ versions' = versions \cup inserted
            /\ writer' = NoCommand /\ inserted' = {}
            /\ Begin(c, version[c] + 1)
    /\ UNCHANGED <<objects, hasTable, current, faults>>

\* the branch for a new database has no _apply_schema_v2
ScriptDoneNotSecond(c) ==
    /\ pc[c] = "create" /\ part[c] = Parts[version[c]]
    /\ IF current[c] = 0 /\ version[c] < SchemaVersion
       THEN Begin(c, SchemaVersion)
       ELSE Goto(c, "record") /\ UNCHANGED <<version, part>>
    /\ UNCHANGED <<dbVars, current, faults>>

\* SCHEMA_VERSION raised without a migration
InsertNextVersion(c) ==
    /\ inserted' = inserted \cup {version[c] + 1}
    /\ writer' = c
    /\ Goto(c, "commit")

-----------------------------------------------------------------------------
(* One command                                                              *)

\* connect; journal_mode = WAL is kept in the file
Open(c) ==
    /\ pc[c] = "closed"
    /\ Goto(c, "table")
    /\ UNCHANGED <<dbVars, current, version, part, faults>>

\* CREATE TABLE IF NOT EXISTS schema_migrations
CreateMigrationsTable(c) ==
    /\ pc[c] = "table"
    /\ hasTable \/ Free(c)
    /\ hasTable' = TRUE
    /\ Goto(c, "read")
    /\ UNCHANGED <<objects, versions, writer, inserted, current, version, part, faults>>

\* get_schema_version, and the branches on what it returns
ReadVersion(c) ==
    /\ pc[c] = "read"
    /\ current' = [current EXCEPT ![c] = Latest]
    /\ \/ Latest < SchemaVersion /\ Begin(c, Latest + 1)
       \/ Latest = SchemaVersion /\ Goto(c, "ready") /\ UNCHANGED <<version, part>>
    /\ UNCHANGED <<dbVars, faults>>

\* the next statement of _apply_schema_v1, _v2 or _v3
CreatePart(c) ==
    LET object == <<version[c], part[c] + 1>>
    IN  /\ pc[c] = "create" /\ part[c] < Parts[version[c]]
        /\ object \in objects \/ Free(c)
        /\ objects' = objects \cup {object}
        /\ part' = [part EXCEPT ![c] = @ + 1]
        /\ UNCHANGED <<versions, hasTable, writer, inserted, pc, current, version, faults>>

\* the script is done: a new database gets all of them before its version
ScriptDone(c) ==
    /\ pc[c] = "create" /\ part[c] = Parts[version[c]]
    /\ IF current[c] = 0 /\ version[c] < SchemaVersion
       THEN Begin(c, version[c] + 1)
       ELSE Goto(c, "record") /\ UNCHANGED <<version, part>>
    /\ UNCHANGED <<dbVars, current, faults>>

InsertVersion(c) ==
    /\ inserted' = inserted \cup {version[c]}
    /\ writer' = c
    /\ Goto(c, "commit")

\* _record_schema_version; the version is the PRIMARY KEY, and the IntegrityError
\* ends the command
RecordVersion(c) ==
    /\ pc[c] = "record" /\ Free(c)
    /\ \/ version[c] \notin versions /\ InsertVersion(c)
       \/ /\ version[c] \in versions
          /\ writer' = c
          /\ Goto(c, "failed")
          /\ UNCHANGED inserted
    /\ UNCHANGED <<objects, versions, hasTable, current, version, part, faults>>

\* the commit at the end, or the one executescript begins with
Commit(c) ==
    /\ pc[c] = "commit"
    /\ versions' = versions \cup inserted
    /\ writer' = NoCommand /\ inserted' = {}
    /\ \/ version[c] < SchemaVersion /\ Begin(c, version[c] + 1)
       \/ version[c] = SchemaVersion /\ Goto(c, "ready") /\ UNCHANGED <<version, part>>
    /\ UNCHANGED <<objects, hasTable, current, faults>>

\* the command has done its work, or its start has failed
Exit(c) ==
    /\ pc[c] \in {"ready", "failed"}
    /\ CloseConnection(c)
    /\ Goto(c, "closed")
    /\ UNCHANGED <<objects, versions, hasTable, current, version, part, faults>>

\* another process has the database for longer than the busy timeout, or switches
\* it to WAL at this moment
Busy(c) ==
    /\ pc[c] \in {"table", "create", "record"}
    /\ \E other \in Commands \ {c}: pc[other] # "closed"
    /\ faults < MaxFaults
    /\ faults' = faults + 1
    /\ Goto(c, "failed")
    /\ UNCHANGED <<dbVars, current, version, part>>

Crash(c) ==
    /\ pc[c] # "closed"
    /\ faults < MaxFaults
    /\ faults' = faults + 1
    /\ CloseConnection(c)
    /\ Goto(c, "closed")
    /\ UNCHANGED <<objects, versions, hasTable, current, version, part>>

Start(c) ==
    \/ Open(c) \/ CreateMigrationsTable(c) \/ ReadVersion(c) \/ CreatePart(c)
    \/ ScriptDone(c) \/ RecordVersion(c) \/ Commit(c) \/ Exit(c)

Next == \E c \in Commands: Start(c) \/ Busy(c) \/ Crash(c)

Spec == Init /\ [][Next]_vars

\* processes are scheduled, and commands are run again and again
FairSpec == Spec /\ \A c \in Commands: WF_vars(Start(c))

-----------------------------------------------------------------------------
(* Properties                                                               *)

\* A version that is recorded is there in full, though its tables and its row are
\* not written together: otherwise a later start would skip what is missing.
RecordedIsComplete == \A v \in versions: SchemaUpTo(v) \subseteq objects

\* A command that begins its work finds the whole schema, whatever the release that
\* made the file, whoever else migrates it, and wherever earlier starts died.
ReadyHasSchema ==
    \A c \in Commands:
        pc[c] = "ready" =>
            /\ SchemaUpTo(SchemaVersion) \subseteq objects
            /\ SchemaVersion \in versions

\* Starts that disturb each other (each may fail with an IntegrityError because the
\* other was faster) do not keep the database from reaching its version.
Migrated == <>[](SchemaVersion \in versions)
=============================================================================
