--------------------------- MODULE MigrationProofs ---------------------------
(***************************************************************************)
(* Theorems about Migration, for any number of processes and any number of  *)
(* statements in the scripts.                                               *)
(***************************************************************************)
EXTENDS Migration, TLAPS

\* what a process has done of the script it is in, or of all of them
ScriptProgress(c) ==
    /\ pc[c] = "create" =>
          /\ part[c] \in 0 .. Parts[version[c]]
          /\ SchemaUpTo(version[c] - 1) \subseteq objects
          /\ {version[c]} \X (1 .. part[c]) \subseteq objects
    /\ pc[c] \in {"record", "commit"} => SchemaUpTo(version[c]) \subseteq objects
    /\ pc[c] = "commit" => writer = c /\ version[c] \in inserted
    /\ pc[c] = "ready" =>
          /\ SchemaUpTo(SchemaVersion) \subseteq objects
          /\ SchemaVersion \in versions

\* the inductive invariant: versions stand for objects that are there, also those
\* that are inserted and not yet committed
SchemaInv ==
    /\ TypeOK
    /\ \A v \in versions \cup inserted: SchemaUpTo(v) \subseteq objects
    /\ \A c \in Commands: ScriptProgress(c)

-----------------------------------------------------------------------------
(* The schema of a version, and the newest version                          *)

LEMMA NumberFacts == SchemaVersion = 3 /\ Versions = {1, 2, 3}
  BY DEF SchemaVersion, Versions

\* a version has the objects of the versions before it and those of its own script
LEMMA SchemaStep ==
  ASSUME NEW v \in Versions
  PROVE  SchemaUpTo(v) = SchemaUpTo(v - 1) \cup Schema(v)
  <1>1. 1 .. v = (1 .. v - 1) \cup {v}
    BY NumberFacts, SMT
  <1>. QED BY <1>1 DEF SchemaUpTo

LEMMA SchemaOfNone == SchemaUpTo(0) = {}
  BY DEF SchemaUpTo

LEMMA SchemaGrows ==
  ASSUME NEW v \in Versions
  PROVE  SchemaUpTo(v) \subseteq SchemaUpTo(SchemaVersion)
  BY NumberFacts, SMT DEF SchemaUpTo

LEMMA ObjectInSchema ==
  ASSUME NEW v \in Versions, NEW i \in 1 .. Parts[v]
  PROVE  <<v, i>> \in SchemaUpTo(SchemaVersion)
  <1>1. <<v, i>> \in Schema(v)
    BY DEF Schema
  <1>2. Schema(v) \subseteq SchemaUpTo(v)
    BY SchemaStep
  <1>. QED BY <1>1, <1>2, SchemaGrows

\* Latest is 0 for a database without versions and else one of its versions
LEMMA LatestFacts ==
  ASSUME versions \subseteq Versions
  PROVE  \/ versions = {} /\ Latest = 0
         \/ versions # {} /\ Latest \in versions
  <1>1. ASSUME versions # {}
        PROVE  \E v \in versions: \A w \in versions: w <= v
    <2>0. \A w \in versions: w = 1 \/ w = 2 \/ w = 3
      BY NumberFacts
    <2>1. CASE 3 \in versions
      <3>1. \A w \in versions: w <= 3
        BY <2>0
      <3>. QED BY <2>1, <3>1
    <2>2. CASE 3 \notin versions /\ 2 \in versions
      <3>1. \A w \in versions: w <= 2
        BY <2>0, <2>2
      <3>. QED BY <2>2, <3>1
    <2>3. CASE 3 \notin versions /\ 2 \notin versions
      <3>1. \A w \in versions: w = 1
        BY <2>0, <2>3
      <3>2. 1 \in versions /\ \A w \in versions: w <= 1
        BY <1>1, <3>1
      <3>. QED BY <3>2
    <2>. QED BY <2>1, <2>2, <2>3
  <1>. QED BY <1>1 DEF Latest

-----------------------------------------------------------------------------

LEMMA InitSchema == Init => SchemaInv
  <1>. SUFFICES ASSUME Init PROVE SchemaInv
    OBVIOUS
  <1>. USE DEF Init
  <1>1. TypeOK
    <2>1. objects \subseteq SchemaUpTo(SchemaVersion) /\ versions \subseteq Versions
          /\ hasTable \in BOOLEAN
      BY SchemaGrows
    <2>. QED BY <2>1, NumberFacts DEF TypeOK
  <1>2. \A v \in versions \cup inserted: SchemaUpTo(v) \subseteq objects
    OBVIOUS
  <1>3. \A c \in Commands: ScriptProgress(c)
    BY DEF ScriptProgress
  <1>. QED BY <1>1, <1>2, <1>3 DEF SchemaInv

\* a step of c that leaves the database and the other processes alone, or adds to it
LEMMA OthersKept ==
  ASSUME NEW c \in Commands, NEW d \in Commands \ {c}, ScriptProgress(d),
         pc'[d] = pc[d], version'[d] = version[d], part'[d] = part[d],
         objects \subseteq objects', versions \subseteq versions',
         writer = d => writer' = d /\ inserted \subseteq inserted'
  PROVE  ScriptProgress(d)'
  BY DEF ScriptProgress

LEMMA NextSchema == SchemaInv /\ [Next]_vars => SchemaInv'
  <1>. SUFFICES ASSUME SchemaInv, [Next]_vars PROVE SchemaInv'
    OBVIOUS
  <1>. USE MigrationAssumption
  <1>0. TypeOK /\ (\A v \in versions \cup inserted: SchemaUpTo(v) \subseteq objects)
        /\ (\A c \in Commands: ScriptProgress(c))
    BY DEF SchemaInv
  <1>1. ASSUME NEW c \in Commands, Open(c) PROVE SchemaInv'
    <2>1. TypeOK'
      BY <1>0, <1>1 DEF TypeOK, Open, dbVars, Goto
    <2>2. ScriptProgress(c)'
      BY <1>0, <1>1 DEF TypeOK, Open, dbVars, Goto, ScriptProgress
    <2>3. \A d \in Commands \ {c}: ScriptProgress(d)'
      BY <1>0, <1>1, OthersKept DEF TypeOK, Open, dbVars, Goto
    <2>. QED BY <1>0, <1>1, <2>1, <2>2, <2>3 DEF SchemaInv, Open, dbVars
  <1>2. ASSUME NEW c \in Commands, CreateMigrationsTable(c) PROVE SchemaInv'
    <2>. USE <1>2 DEF CreateMigrationsTable, Goto
    <2>1. TypeOK'
      BY <1>0 DEF TypeOK
    <2>2. ScriptProgress(c)'
      BY <1>0 DEF TypeOK, ScriptProgress
    <2>3. \A d \in Commands \ {c}: ScriptProgress(d)'
      BY <1>0, OthersKept DEF TypeOK
    <2>. QED BY <1>0, <2>1, <2>2, <2>3 DEF SchemaInv
  <1>3. ASSUME NEW c \in Commands, ReadVersion(c) PROVE SchemaInv'
    <2>. USE <1>3 DEF ReadVersion, Goto, Begin, dbVars
    <2>0. Latest \in 0 .. SchemaVersion /\ (Latest = 0 \/ Latest \in versions)
      <3>1. versions \subseteq Versions
        BY <1>0 DEF TypeOK
      <3>2. Latest = 0 \/ Latest \in versions
        BY <3>1, LatestFacts
      <3>3. \A v \in {0} \cup Versions: v \in 0 .. SchemaVersion
        BY NumberFacts
      <3>. QED BY <3>1, <3>2, <3>3
    <2>1. TypeOK'
      BY <1>0, <2>0, NumberFacts DEF TypeOK
    <2>2. ScriptProgress(c)'
      <3>1. CASE Latest < SchemaVersion /\ Begin(c, Latest + 1)
        <4>1. SchemaUpTo(Latest) \subseteq objects
          BY <1>0, <2>0, SchemaOfNone
        <4>2. pc'[c] = "create" /\ version'[c] = Latest + 1 /\ part'[c] = 0
              /\ Latest + 1 \in Versions /\ objects' = objects
          BY <1>0, <2>0, <3>1, NumberFacts DEF TypeOK
        <4>3. 0 \in 0 .. Parts[Latest + 1]
          BY <4>2
        <4>4. version'[c] - 1 = Latest /\ 1 .. part'[c] = {}
          BY <2>0, <4>2, NumberFacts
        <4>. QED BY <4>1, <4>2, <4>3, <4>4 DEF ScriptProgress
      <3>2. CASE Latest = SchemaVersion /\ Goto(c, "ready")
        BY <1>0, <2>0, <3>2, NumberFacts DEF TypeOK, ScriptProgress
      <3>. QED BY <3>1, <3>2
    <2>3. \A d \in Commands \ {c}: ScriptProgress(d)'
      BY <1>0, OthersKept DEF TypeOK
    <2>. QED BY <1>0, <2>1, <2>2, <2>3 DEF SchemaInv
  <1>4. ASSUME NEW c \in Commands, CreatePart(c) PROVE SchemaInv'
    <2>. USE <1>4 DEF CreatePart
    <2>0. version[c] \in Versions /\ part[c] + 1 \in 1 .. Parts[version[c]]
          /\ part[c] \in Nat
      BY <1>0 DEF TypeOK
    <2>1. TypeOK'
      <3>1. objects' \subseteq SchemaUpTo(SchemaVersion)
        BY <1>0, <2>0, ObjectInSchema DEF TypeOK
      <3>. QED BY <1>0, <3>1 DEF TypeOK
    <2>2. ScriptProgress(c)'
      <3>1. pc'[c] = "create" /\ version'[c] = version[c] /\ part'[c] = part[c] + 1
            /\ objects' = objects \cup {<<version[c], part[c] + 1>>}
        BY <1>0 DEF TypeOK
      <3>2. 1 .. part[c] + 1 = (1 .. part[c]) \cup {part[c] + 1}
        BY <2>0
      <3>3. {version[c]} \X (1 .. part[c] + 1) \subseteq objects'
        BY <1>0, <3>1, <3>2 DEF ScriptProgress
      <3>4. part[c] + 1 \in 0 .. Parts[version[c]]
        BY <2>0
      <3>5. SchemaUpTo(version[c] - 1) \subseteq objects'
        BY <1>0, <3>1 DEF ScriptProgress
      <3>. QED BY <3>1, <3>3, <3>4, <3>5 DEF ScriptProgress
    <2>3. \A d \in Commands \ {c}: ScriptProgress(d)'
      BY <1>0, OthersKept DEF TypeOK
    <2>. QED BY <1>0, <2>1, <2>2, <2>3 DEF SchemaInv
  <1>5. ASSUME NEW c \in Commands, ScriptDone(c) PROVE SchemaInv'
    <2>. USE <1>5 DEF ScriptDone, Goto, Begin, dbVars
    <2>0. SchemaUpTo(version[c]) \subseteq objects
      BY <1>0, SchemaStep DEF TypeOK, ScriptProgress, Schema
    <2>1. TypeOK'
      BY <1>0, NumberFacts DEF TypeOK
    <2>2. ScriptProgress(c)'
      <3>1. CASE current[c] = 0 /\ version[c] < SchemaVersion
        <4>1. pc'[c] = "create" /\ version'[c] = version[c] + 1 /\ part'[c] = 0
              /\ version[c] + 1 \in Versions /\ objects' = objects
              /\ version[c] \in Versions
          BY <1>0, <3>1, NumberFacts DEF TypeOK
        <4>2. version'[c] - 1 = version[c] /\ 1 .. part'[c] = {}
              /\ 0 \in 0 .. Parts[version[c] + 1]
          BY <4>1, NumberFacts
        <4>. QED BY <2>0, <4>1, <4>2 DEF ScriptProgress
      <3>2. CASE ~(current[c] = 0 /\ version[c] < SchemaVersion)
        BY <1>0, <2>0, <3>2 DEF TypeOK, ScriptProgress
      <3>. QED BY <3>1, <3>2
    <2>3. \A d \in Commands \ {c}: ScriptProgress(d)'
      BY <1>0, OthersKept DEF TypeOK
    <2>. QED BY <1>0, <2>1, <2>2, <2>3 DEF SchemaInv
  <1>6. ASSUME NEW c \in Commands, RecordVersion(c) PROVE SchemaInv'
    <2>. USE <1>6 DEF RecordVersion, InsertVersion, Goto, Free
    <2>1. TypeOK'
      BY <1>0 DEF TypeOK
    <2>2. ScriptProgress(c)'
      BY <1>0 DEF TypeOK, ScriptProgress
    <2>3. \A d \in Commands \ {c}: ScriptProgress(d)'
      BY <1>0, OthersKept DEF TypeOK
    <2>4. \A v \in versions' \cup inserted': SchemaUpTo(v) \subseteq objects'
      BY <1>0 DEF ScriptProgress
    <2>. QED BY <2>1, <2>2, <2>3, <2>4 DEF SchemaInv
  <1>7. ASSUME NEW c \in Commands, Commit(c) PROVE SchemaInv'
    <2>. USE <1>7 DEF Commit, Begin, Goto
    <2>0. writer = c /\ version[c] \in inserted /\ version[c] \in Versions
          /\ SchemaUpTo(version[c]) \subseteq objects
      BY <1>0 DEF TypeOK, ScriptProgress
    <2>1. TypeOK'
      BY <1>0, NumberFacts DEF TypeOK
    <2>2. ScriptProgress(c)'
      <3>1. CASE version[c] < SchemaVersion /\ Begin(c, version[c] + 1)
        <4>1. pc'[c] = "create" /\ version'[c] = version[c] + 1 /\ part'[c] = 0
              /\ version[c] + 1 \in Versions /\ objects' = objects
          BY <1>0, <2>0, <3>1, NumberFacts DEF TypeOK
        <4>2. version'[c] - 1 = version[c] /\ 1 .. part'[c] = {}
              /\ 0 \in 0 .. Parts[version[c] + 1]
          BY <2>0, <4>1, NumberFacts
        <4>. QED BY <2>0, <4>1, <4>2 DEF ScriptProgress
      <3>2. CASE version[c] = SchemaVersion /\ Goto(c, "ready")
        BY <1>0, <2>0, <3>2 DEF TypeOK, ScriptProgress
      <3>. QED BY <3>1, <3>2
    <2>3. \A d \in Commands \ {c}: ScriptProgress(d)'
      BY <1>0, <2>0, OthersKept DEF TypeOK
    <2>4. \A v \in versions' \cup inserted': SchemaUpTo(v) \subseteq objects'
      BY <1>0
    <2>. QED BY <2>1, <2>2, <2>3, <2>4 DEF SchemaInv
  <1>8. ASSUME NEW c \in Commands, Exit(c) \/ Crash(c) PROVE SchemaInv'
    <2>. USE <1>8 DEF Exit, Crash, CloseConnection, Goto
    <2>1. TypeOK'
      BY <1>0 DEF TypeOK
    <2>2. ScriptProgress(c)'
      BY <1>0 DEF TypeOK, ScriptProgress
    <2>3. \A d \in Commands \ {c}: ScriptProgress(d)'
      BY <1>0, OthersKept DEF TypeOK
    <2>4. \A v \in versions' \cup inserted': SchemaUpTo(v) \subseteq objects'
      BY <1>0
    <2>. QED BY <2>1, <2>2, <2>3, <2>4 DEF SchemaInv
  <1>9. ASSUME NEW c \in Commands, Busy(c) PROVE SchemaInv'
    <2>. USE <1>9 DEF Busy, Goto, dbVars
    <2>1. TypeOK'
      BY <1>0 DEF TypeOK
    <2>2. ScriptProgress(c)'
      BY <1>0 DEF TypeOK, ScriptProgress
    <2>3. \A d \in Commands \ {c}: ScriptProgress(d)'
      BY <1>0, OthersKept DEF TypeOK
    <2>. QED BY <1>0, <2>1, <2>2, <2>3 DEF SchemaInv
  <1>10. CASE UNCHANGED vars
    BY <1>0, <1>10 DEF vars, dbVars, localVars, SchemaInv, TypeOK, ScriptProgress
  <1>. QED
    BY <1>1, <1>2, <1>3, <1>4, <1>5, <1>6, <1>7, <1>8, <1>9, <1>10 DEF Next, Start

LEMMA SchemaInvariant == Spec => []SchemaInv
  BY InitSchema, NextSchema, PTL DEF Spec

-----------------------------------------------------------------------------

\* The variables of initialize_database keep their types.
THEOREM TypeCorrect == Spec => []TypeOK
  <1>1. SchemaInv => TypeOK
    BY DEF SchemaInv
  <1>. QED BY <1>1, SchemaInvariant, PTL

\* However many commands start on one file and wherever they die, a version in
\* schema_migrations has all of its tables and indexes.
THEOREM RecordedVersionsComplete == Spec => []RecordedIsComplete
  <1>1. SchemaInv => RecordedIsComplete
    BY DEF SchemaInv, RecordedIsComplete
  <1>. QED BY <1>1, SchemaInvariant, PTL

\* A command begins its work only with the whole schema.
THEOREM CommandsFindSchema == Spec => []ReadyHasSchema
  <1>1. SchemaInv => ReadyHasSchema
    BY DEF SchemaInv, ScriptProgress, ReadyHasSchema
  <1>. QED BY <1>1, SchemaInvariant, PTL
=============================================================================
