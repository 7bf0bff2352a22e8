---------------------------- MODULE LocalProofs -----------------------------
(* Proofs about Local and the modules it composes, for every value of their   *)
(* constants. The database: rotations delete the oldest records first, usage  *)
(* rows stay with their calls, and sessions that open a database together     *)
(* find its schema complete. The log: only the oldest files are lost. The     *)
(* input line: the cursor stays in the line and the line in its buffer, and   *)
(* what was pasted is submitted where its placeholder stood. The history: the *)
(* lines that are loaded are the texts that were entered. The view: the       *)
(* windows fit the screen, which shows what was said.                         *)
EXTENDS Local, SequenceLemmas, FiniteSetTheorems

(* The modules share one FlattenSeq.                                          *)
LEMMA FlattenIs == \A s : View!FlattenSeq(s) = FlattenSeq(s) /\ Hist!FlattenSeq(s) = FlattenSeq(s)
BY DEF View!FlattenSeq, Hist!FlattenSeq, FlattenSeq


Counts == MaxDays \in Nat /\ Day \in Nat /\ IntMax \in Nat

(* The cutoff is a number, even where the product of ints wraps.              *)
LEMMA AgeIsInt ==
    ASSUME Counts
    PROVE  Age \in Int
<1> DEFINE span == 2 * (IntMax + 1)
           days == MaxDays * Day + IntMax + 1
<1>1. span \in Nat /\ span > 0 /\ days \in Int
  BY DEF Counts
<1>2. \A x, y \in Int : y > 0 => x % y \in Int
  OBVIOUS
<1>3. days % span \in Int
  <2> HIDE DEF span, days
  <2> QED
    BY <1>1, <1>2
<1> QED
  BY <1>3 DEF Age, Counts

Dated == now \in Int /\ \A c \in calls : c.at \in Int

LEMMA DatedStep ==
    ASSUME Dated, [Next]_vars
    PROVE  Dated'
<1> USE DEF Dated
<1>1. CASE Tick
  BY <1>1 DEF Tick, tables
<1>2. CASE \E p \in Sessions : LogApiCall(p)
  BY <1>2 DEF LogApiCall
<1>3. CASE \E p \in Sessions : DeleteOldest(p)
  BY <1>3 DEF DeleteOldest, Newest
<1>4. CASE \E p \in Sessions : RotateByAge(p)
  BY <1>4 DEF RotateByAge
<1>5. CASE ~ (Tick \/ \E p \in Sessions : LogApiCall(p) \/ DeleteOldest(p) \/ RotateByAge(p))
  <2>1. UNCHANGED <<calls, now>>
    BY <1>5 DEF Next, vars, tables, schema, CreateSchema, ReadVersion, Migrate, Migrated,
       StatementFails, CountRecords, CheckSize, LogTokenUsage, Close
  <2> QED
    BY <2>1
<1> QED
  BY <1>1, <1>2, <1>3, <1>4, <1>5

LEMMA OldestFirstStep ==
    ASSUME Counts, Dated, [Next]_vars
    PROVE  \A c \in calls \ calls', d \in calls \cap calls' : c.at <= d.at
<1>1. CASE \E p \in Sessions : RotateByAge(p)
  BY <1>1, AgeIsInt DEF RotateByAge, Dated
<1>2. CASE \E p \in Sessions : DeleteOldest(p)
  BY <1>2 DEF DeleteOldest, Newest, Dated
<1>3. CASE ~(\E p \in Sessions : RotateByAge(p) \/ DeleteOldest(p))
  <2>1. calls \subseteq calls'
    BY <1>3 DEF Next, vars, tables, schema, CreateSchema, ReadVersion, Migrate, Migrated,
       StatementFails, CountRecords, CheckSize, LogApiCall, LogTokenUsage, Close, Tick
  <2> QED
    BY <2>1
<1> QED
  BY <1>1, <1>2, <1>3

(* However sessions interleave their rotations and inserts, and even when the *)
(* age overflows, a rotation does not delete a record that is younger than    *)
(* one it keeps (persistence_rotate_by_age, persistence_rotate_by_count).     *)
THEOREM RotationsKeepTheNewest ==
    ASSUME Counts
    PROVE  Spec => OldestRecordsFirst
<1>1. Init => Dated
  BY DEF Init, Dated
<1>2. Dated /\ [Next]_vars => Dated'
  BY DatedStep
<1>3. Dated /\ [Next]_vars =>
        [\A c \in calls \ calls', d \in calls \cap calls' : c.at <= d.at]_vars
  BY OldestFirstStep
<1> QED
  BY <1>1, <1>2, <1>3, PTL DEF Spec, OldestRecordsFirst

-----------------------------------------------------------------------------
(* Every session has its place and its locals.                                *)
Locals == [version : Nat, keep : Nat, resized : BOOLEAN, id : Nat, of : Nat]

Typed ==
    /\ IsFiniteSet(calls) /\ sequence \in Nat /\ logged \in Nat
    /\ version \in 0 .. 2
    /\ local \in [Sessions -> Locals]
    /\ pc = [q \in Sessions |-> pc[q]]

LEMMA TwoMigrations ==
    /\ DOMAIN Migrations = 1 .. 2
    /\ AllColumns = {Migrations[1], Migrations[2]}
BY DEF Migrations, AllColumns

LEMMA TypedStep ==
    ASSUME MaxRecords \in Nat, Typed, [Next]_vars
    PROVE  Typed'
<1>1. IsFiniteSet(calls')
  <2>1. calls' \subseteq calls \/ \E row : calls' = calls \cup {row}
    BY DEF Next, vars, tables, schema, CreateSchema, ReadVersion, Migrate, Migrated,
       StatementFails, RotateByAge, CountRecords, DeleteOldest, Newest, CheckSize, LogApiCall,
       LogTokenUsage, Close, Tick
  <2> QED
    BY <2>1, FS_Subset, FS_AddElement DEF Typed
<1>2. (Cardinality(calls) * 3) \div 4 \in Nat
  <2>1. Cardinality(calls) \in Nat
    BY FS_CardinalityType DEF Typed
  <2> QED
    BY <2>1
<1> DEFINE Placed == pc' = [q \in Sessions |-> pc'[q]]
           LocalsTyped == local' \in [Sessions -> Locals]
<1>3. ASSUME NEW p \in Sessions, NEW label, Goto(p, label)
      PROVE  Placed
  BY <1>3 DEF Goto, Typed
<1>4. ASSUME NEW p \in Sessions, NEW label, Return(p, label)
      PROVE  Placed /\ LocalsTyped
  BY <1>4 DEF Return, Goto, NoLocals, Typed, Locals
<1>5. ASSUME UNCHANGED <<pc, local>>
      PROVE  Placed /\ LocalsTyped
  BY <1>5 DEF Typed
<1>6. ASSUME UNCHANGED local
      PROVE  LocalsTyped
  BY <1>6 DEF Typed
<1> HIDE DEF Placed, LocalsTyped
<1>7. ASSUME NEW p \in Sessions, CreateSchema(p) PROVE Placed /\ LocalsTyped
  BY <1>3, <1>6, <1>7 DEF CreateSchema
<1>8. ASSUME NEW p \in Sessions, ReadVersion(p) PROVE Placed /\ LocalsTyped
  <2>1. LocalsTyped
    BY <1>8 DEF ReadVersion, Typed, LocalsTyped, Locals
  <2> QED
    BY <1>3, <1>8, <2>1 DEF ReadVersion
<1>9. ASSUME NEW p \in Sessions, Migrate(p) PROVE Placed /\ LocalsTyped
  <2>1. CASE Return(p, "failed")
    BY <1>4, <2>1
  <2>2. CASE local' = [local EXCEPT ![p].version = local[p].version + 1] /\ UNCHANGED pc
    <3>1. LocalsTyped
      BY <2>2 DEF Typed, LocalsTyped, Locals
    <3> QED
      BY <2>2, <3>1 DEF Typed, Placed
  <2> QED
    BY <1>9, <2>1, <2>2 DEF Migrate
<1>10. ASSUME NEW p \in Sessions, Migrated(p) PROVE Placed /\ LocalsTyped
  BY <1>4, <1>10 DEF Migrated
<1>11. ASSUME NEW p \in Sessions, StatementFails(p) PROVE Placed /\ LocalsTyped
  BY <1>4, <1>11 DEF StatementFails
<1>12. ASSUME NEW p \in Sessions, RotateByAge(p) PROVE Placed /\ LocalsTyped
  <2>1. LocalsTyped
    BY <1>12 DEF RotateByAge, Typed, LocalsTyped, Locals
  <2> QED
    BY <1>3, <1>12, <2>1 DEF RotateByAge
<1>13. ASSUME NEW p \in Sessions, CountRecords(p) PROVE Placed /\ LocalsTyped
  BY <1>3, <1>4, <1>6, <1>13 DEF CountRecords, Rotated
<1>14. ASSUME NEW p \in Sessions, DeleteOldest(p) PROVE Placed /\ LocalsTyped
  BY <1>4, <1>14 DEF DeleteOldest, Rotated
<1>15. ASSUME NEW p \in Sessions, CheckSize(p) PROVE Placed /\ LocalsTyped
  <2>1. CASE Return(p, "ready")
    BY <1>4, <2>1
  <2>2. CASE /\ local' = [local EXCEPT ![p].keep = (Cardinality(calls) * 3) \div 4,
                                       ![p].resized = TRUE]
             /\ Goto(p, "count")
    <3>1. LocalsTyped
      BY <1>2, <2>2 DEF Typed, LocalsTyped, Locals
    <3> QED
      BY <1>3, <2>2, <3>1
  <2> QED
    BY <1>15, <2>1, <2>2 DEF CheckSize
<1>16. ASSUME NEW p \in Sessions, LogApiCall(p) PROVE Placed /\ LocalsTyped
  <2>1. CASE UNCHANGED <<pc, local>>
    BY <1>5, <2>1
  <2>2. CASE /\ Goto(p, "usage")
             /\ local' = [local EXCEPT ![p].id = sequence + 1, ![p].of = logged + 1]
    <3>1. sequence + 1 \in Nat /\ logged + 1 \in Nat /\ local \in [Sessions -> Locals]
      BY DEF Typed
    <3>2. LocalsTyped
      <4> DEFINE a == sequence + 1  b == logged + 1
      <4>1. local' = [local EXCEPT ![p].id = a, ![p].of = b]
        BY <2>2
      <4>2. a \in Nat /\ b \in Nat
        BY <3>1
      <4> HIDE DEF a, b
      <4> QED
        BY <3>1, <4>1, <4>2 DEF LocalsTyped, Locals
    <3> QED
      BY <1>3, <2>2, <3>2
  <2> QED
    BY <1>16, <2>1, <2>2 DEF LogApiCall, NextId
<1>17. ASSUME NEW p \in Sessions, LogTokenUsage(p) PROVE Placed /\ LocalsTyped
  BY <1>4, <1>17 DEF LogTokenUsage
<1>18. ASSUME NEW p \in Sessions, Close(p) PROVE Placed /\ LocalsTyped
  BY <1>4, <1>18 DEF Close
<1>19. ASSUME Tick \/ UNCHANGED vars PROVE Placed /\ LocalsTyped
  <2>1. UNCHANGED <<pc, local>>
    BY <1>19 DEF Tick, vars
  <2> QED
    BY <1>5, <2>1
<1>20. Placed /\ LocalsTyped
  BY <1>7, <1>8, <1>9, <1>10, <1>11, <1>12, <1>13, <1>14, <1>15, <1>16, <1>17, <1>18, <1>19
     DEF Next
<1>21. sequence' \in Nat /\ logged' \in Nat
  <2>1. \/ UNCHANGED <<sequence, logged>>
        \/ sequence' = sequence + 1 /\ logged' = logged + 1
    BY DEF Next, vars, tables, CreateSchema, ReadVersion, Migrate, Migrated, StatementFails,
       RotateByAge, CountRecords, DeleteOldest, CheckSize, LogApiCall, NextId, LogTokenUsage,
       Close, Tick
  <2> QED
    BY <2>1 DEF Typed
<1>22. version' \in 0 .. 2
  <2>1. UNCHANGED version \/ \E p \in Sessions : Migrate(p)
    BY DEF Next, vars, schema, CreateSchema, ReadVersion, Migrated, StatementFails,
       RotateByAge, CountRecords, DeleteOldest, CheckSize, LogApiCall, LogTokenUsage,
       Close, Tick
  <2>2. ASSUME NEW p \in Sessions, Migrate(p) PROVE version' \in {version, local[p].version + 1}
                                                  /\ local[p].version + 1 \in 1 .. 2
    BY <2>2, TwoMigrations DEF Migrate
  <2> QED
    BY <2>1, <2>2 DEF Typed
<1> QED
  BY <1>1, <1>20, <1>21, <1>22 DEF Typed, Placed, LocalsTyped

-----------------------------------------------------------------------------
(* Ids are given out once: those in use are not above the counter, and a      *)
(* session that has still to write a usage row knows its own call's id.       *)
IdsOnce ==
    /\ \A c \in calls : c.id \in Nat /\ c.id <= sequence
    /\ \A u \in usage : u.call \in Nat /\ u.call <= sequence
    /\ \A p \in Sessions : pc[p] = "usage" =>
          /\ local[p].id <= sequence
          /\ \A c \in calls : c.id = local[p].id => c.of = local[p].of

LEMMA IdsKept ==
    ASSUME IdsOnce, UsageOfItsCall, calls' \subseteq calls, UNCHANGED <<usage, sequence>>,
           \A q \in Sessions : pc'[q] = "usage" =>
              pc[q] = "usage" /\ local'[q].id = local[q].id /\ local'[q].of = local[q].of
    PROVE  IdsOnce' /\ UsageOfItsCall'
BY DEF IdsOnce, UsageOfItsCall

LEMMA LogApiCallIds ==
    ASSUME Typed, IdsOnce, UsageOfItsCall, NEW p \in Sessions, LogApiCall(p)
    PROVE  IdsOnce' /\ UsageOfItsCall'
<1> DEFINE row == [id |-> sequence + 1, of |-> logged + 1, at |-> now]
<1>1. /\ calls' = calls \cup {row} /\ sequence' = sequence + 1 /\ usage' = usage
      /\ \/ UNCHANGED <<pc, local>>
         \/ Goto(p, "usage") /\ local' = [local EXCEPT ![p].id = row.id, ![p].of = row.of]
  BY DEF LogApiCall, NextId
<1>2. row.id = sequence + 1 /\ row.of = logged + 1
  OBVIOUS
<1>3. sequence \in Nat /\ local \in [Sessions -> Locals]
  BY DEF Typed
<1> HIDE DEF row
<1>4. \A c \in calls' : c.id \in Nat /\ c.id <= sequence'
  BY <1>1, <1>2, <1>3 DEF IdsOnce
<1>5. \A u \in usage' : u.call \in Nat /\ u.call <= sequence'
  BY <1>1, <1>3 DEF IdsOnce
<1>6. UsageOfItsCall'
  BY <1>1, <1>2, <1>3 DEF IdsOnce, UsageOfItsCall
<1>7. ASSUME NEW q \in Sessions, pc'[q] = "usage", pc[q] = "usage",
             local'[q].id = local[q].id, local'[q].of = local[q].of
      PROVE  /\ local'[q].id <= sequence'
             /\ \A c \in calls' : c.id = local'[q].id => c.of = local'[q].of
  <2>1. local[q].id <= sequence /\ local[q].id \in Nat
    BY <1>3, <1>7 DEF IdsOnce, Locals
  <2>2. \A c \in calls : c.id = local[q].id => c.of = local[q].of
    BY <1>7 DEF IdsOnce
  <2> QED
    BY <1>1, <1>2, <1>3, <1>7, <2>1, <2>2
<1>8. ASSUME NEW q \in Sessions, local'[q].id = row.id, local'[q].of = row.of
      PROVE  /\ local'[q].id <= sequence'
             /\ \A c \in calls' : c.id = local'[q].id => c.of = local'[q].of
  BY <1>1, <1>2, <1>3, <1>8 DEF IdsOnce
<1>9. ASSUME NEW q \in Sessions, pc'[q] = "usage"
      PROVE  \/ pc[q] = "usage" /\ local'[q].id = local[q].id /\ local'[q].of = local[q].of
             \/ local'[q].id = row.id /\ local'[q].of = row.of
  <2>1. CASE UNCHANGED <<pc, local>>
    BY <1>9, <2>1
  <2>2. CASE /\ Goto(p, "usage")
             /\ local' = [local EXCEPT ![p].id = row.id, ![p].of = row.of]
    <3>1. CASE q = p
      BY <1>3, <2>2, <3>1 DEF Locals
    <3>2. CASE q # p
      <4>1. pc'[q] = pc[q] /\ local'[q] = local[q]
        BY <1>3, <2>2, <3>2 DEF Goto, Typed
      <4> QED
        BY <1>9, <4>1
    <3> QED
      BY <3>1, <3>2
  <2> QED
    BY <1>1, <2>1, <2>2
<1>10. \A q \in Sessions : pc'[q] = "usage" =>
          /\ local'[q].id <= sequence'
          /\ \A c \in calls' : c.id = local'[q].id => c.of = local'[q].of
  BY <1>7, <1>8, <1>9
<1> QED
  BY <1>4, <1>5, <1>6, <1>10 DEF IdsOnce

LEMMA LogTokenUsageIds ==
    ASSUME Typed, IdsOnce, UsageOfItsCall, NEW p \in Sessions, LogTokenUsage(p)
    PROVE  IdsOnce' /\ UsageOfItsCall'
<1>1. /\ pc[p] = "usage" /\ UNCHANGED <<calls, sequence>>
      /\ Return(p, "ready")
  BY DEF LogTokenUsage
<1>2. usage' = usage \/ usage' = usage \cup {[call |-> local[p].id, of |-> local[p].of]}
  BY DEF LogTokenUsage
<1>3. \A q \in Sessions : pc'[q] = "usage" => pc[q] = "usage" /\ local'[q] = local[q]
  BY <1>1 DEF Return, Goto, Typed
<1>4. /\ local[p].id \in Nat /\ local[p].id <= sequence
      /\ \A c \in calls : c.id = local[p].id => c.of = local[p].of
  BY <1>1 DEF IdsOnce, Typed, Locals
<1> QED
  BY <1>1, <1>2, <1>3, <1>4 DEF IdsOnce, UsageOfItsCall

LEMMA IdsOnceStep ==
    ASSUME Typed, IdsOnce, UsageOfItsCall, [Next]_vars
    PROVE  IdsOnce' /\ UsageOfItsCall'
<1> DEFINE Before(q) ==
        pc[q] = "usage" /\ local'[q].id = local[q].id /\ local'[q].of = local[q].of
<1>1. ASSUME NEW p \in Sessions, NEW label \in {"failed", "nolog", "age", "ready", "size", "closed"},
             Return(p, label)
      PROVE  \A q \in Sessions : pc'[q] = "usage" => Before(q)
  BY <1>1 DEF Return, Goto, Typed
<1>2. ASSUME NEW p \in Sessions, NEW label \in {"version", "migrate", "count", "cut"},
             Goto(p, label), \A q \in Sessions : q # p => local'[q] = local[q]
      PROVE  \A q \in Sessions : pc'[q] = "usage" => Before(q)
  BY <1>2 DEF Goto, Typed
<1>3. ASSUME NEW p \in Sessions, UNCHANGED pc, pc[p] # "usage",
             \A q \in Sessions : q # p => local'[q] = local[q]
      PROVE  \A q \in Sessions : pc'[q] = "usage" => Before(q)
  BY <1>3
<1> DEFINE Kept == \A q \in Sessions : pc'[q] = "usage" => Before(q)
           Others(p) == \A q \in Sessions : q # p => local'[q] = local[q]
<1>4. ASSUME NEW p \in Sessions,
             \/ CreateSchema(p) \/ ReadVersion(p) \/ RotateByAge(p) \/ CountRecords(p)
             \/ CheckSize(p) \/ Migrate(p)
      PROVE  Others(p)
  BY <1>4 DEF CreateSchema, ReadVersion, RotateByAge, CountRecords, Rotated, CheckSize, Migrate,
     Return, Typed
<1> HIDE DEF Before, Kept, Others
<1> USE <1>1, <1>2, <1>3, <1>4
<1>5. ASSUME NEW p \in Sessions, CreateSchema(p) PROVE Kept
  BY <1>5 DEF CreateSchema, Kept, Others
<1>6. ASSUME NEW p \in Sessions, ReadVersion(p) PROVE Kept
  BY <1>6 DEF ReadVersion, Kept, Others
<1>7. ASSUME NEW p \in Sessions, Migrate(p) PROVE Kept
  BY <1>7 DEF Migrate, Kept, Others
<1>8. ASSUME NEW p \in Sessions, Migrated(p) PROVE Kept
  BY <1>8 DEF Migrated, Kept
<1>9. ASSUME NEW p \in Sessions, StatementFails(p) PROVE Kept
  BY <1>9 DEF StatementFails, Kept
<1>10. ASSUME NEW p \in Sessions, RotateByAge(p) PROVE Kept
  BY <1>10 DEF RotateByAge, Kept, Others
<1>11. ASSUME NEW p \in Sessions, CountRecords(p) PROVE Kept
  BY <1>11 DEF CountRecords, Rotated, Kept, Others
<1>12. ASSUME NEW p \in Sessions, DeleteOldest(p) PROVE Kept
  BY <1>12 DEF DeleteOldest, Rotated, Kept
<1>13. ASSUME NEW p \in Sessions, CheckSize(p) PROVE Kept
  BY <1>13 DEF CheckSize, Kept, Others
<1>14. ASSUME NEW p \in Sessions, Close(p) PROVE Kept
  BY <1>14 DEF Close, Kept
<1>15. ASSUME Tick \/ UNCHANGED vars PROVE Kept
  BY <1>15 DEF Tick, vars, Kept, Before
<1>16. CASE \E p \in Sessions : LogApiCall(p)
  BY <1>16, LogApiCallIds
<1>17. CASE \E p \in Sessions : LogTokenUsage(p)
  BY <1>17, LogTokenUsageIds
<1>18. CASE ~ \E p \in Sessions : LogApiCall(p) \/ LogTokenUsage(p)
  <2>1. Kept
    BY <1>5, <1>6, <1>7, <1>8, <1>9, <1>10, <1>11, <1>12, <1>13, <1>14, <1>15, <1>18 DEF Next
  <2>2. calls' \subseteq calls /\ UNCHANGED <<usage, sequence>>
    BY <1>18 DEF Next, vars, tables, CreateSchema, ReadVersion, Migrate, Migrated,
       StatementFails, RotateByAge, CountRecords, DeleteOldest, Newest, CheckSize, Close, Tick
  <2> QED
    BY <2>1, <2>2, IdsKept DEF Kept, Before
<1> QED
  BY <1>16, <1>17, <1>18

-----------------------------------------------------------------------------
(* The schema: the columns of every version that was recorded or read are     *)
(* there, and nothing takes one away.                                         *)
Ready == {"age", "count", "cut", "size", "usage", "ready"}

Fine(p) ==
    /\ pc[p] # "failed"
    /\ pc[p] = "migrate" => \A v \in 1 .. local[p].version : Migrations[v] \in columns
    /\ pc[p] \in Ready => columns = AllColumns

Columns ==
    /\ columns \subseteq AllColumns
    /\ \A v \in 1 .. version : Migrations[v] \in columns
    /\ \A p \in Sessions : Fine(p)

LEMMA ColumnsGrow ==
    ASSUME Columns, [Next]_vars
    PROVE  columns \subseteq columns' /\ columns' \subseteq AllColumns
<1>1. CASE \E p \in Sessions : Migrate(p)
  <2>1. PICK p \in Sessions : Migrate(p)
    BY <1>1
  <2> DEFINE v == local[p].version + 1
  <2>2. v \in DOMAIN Migrations /\ columns' = columns \cup {Migrations[v]}
    BY <2>1 DEF Migrate, UpFails
  <2> HIDE DEF v
  <2> QED
    BY <2>2 DEF Columns, AllColumns
<1>2. CASE \E p \in Sessions : CreateSchema(p)
  BY <1>2 DEF CreateSchema, Columns
<1>3. CASE ~ \E p \in Sessions : Migrate(p) \/ CreateSchema(p)
  <2>1. UNCHANGED columns
    BY <1>3 DEF Next, vars, schema, ReadVersion, Migrated, StatementFails, RotateByAge,
       CountRecords, DeleteOldest, CheckSize, LogApiCall, LogTokenUsage, Close, Tick
  <2> QED
    BY <2>1 DEF Columns
<1> QED
  BY <1>1, <1>2, <1>3

LEMMA VersionRecorded ==
    ASSUME Typed, Columns, [Next]_vars
    PROVE  \A v \in 1 .. version' : Migrations[v] \in columns'
<1>1. CASE UNCHANGED version
  BY <1>1, ColumnsGrow DEF Columns
<1>2. CASE \E p \in Sessions : Migrate(p) /\ version' # version
  <2>1. PICK p \in Sessions : Migrate(p) /\ version' # version
    BY <1>2
  <2>2. pc[p] = "migrate" /\ local[p].version \in Nat
    BY <2>1 DEF Migrate, Typed, Locals
  <2>3. /\ version' = local[p].version + 1
        /\ columns' = columns \cup {Migrations[local[p].version + 1]}
    BY <2>1 DEF Migrate, UpFails
  <2>4. \A v \in 1 .. local[p].version : Migrations[v] \in columns
    BY <2>2 DEF Columns, Fine
  <2> QED
    BY <2>2, <2>3, <2>4
<1> QED
  BY <1>1, <1>2 DEF Next, vars, schema, CreateSchema, ReadVersion, Migrated, StatementFails,
     RotateByAge, CountRecords, DeleteOldest, CheckSize, LogApiCall, LogTokenUsage, Close, Tick

(* A session that does not move stays fine; one that is past the migrations   *)
(* stays fine wherever it goes.                                               *)
LEMMA FineKept ==
    ASSUME Columns, [Next]_vars, NEW q \in Sessions,
           \/ pc'[q] = pc[q] /\ local'[q].version = local[q].version
           \/ pc[q] \in Ready /\ pc'[q] \notin {"failed", "migrate"}
           \/ pc'[q] \in {"closed", "version", "nolog"}
    PROVE  Fine(q)'
<1>1. columns \subseteq columns' /\ columns' \subseteq AllColumns
  BY ColumnsGrow
<1>2. Fine(q)
  BY DEF Columns
<1>3. CASE pc'[q] = pc[q] /\ local'[q].version = local[q].version
  BY <1>1, <1>2, <1>3 DEF Fine
<1>4. CASE pc[q] \in Ready /\ pc'[q] \notin {"failed", "migrate"}
  BY <1>1, <1>2, <1>4 DEF Fine
<1>5. CASE pc'[q] \in {"closed", "version", "nolog"}
  BY <1>5 DEF Fine, Ready
<1> QED
  BY <1>3, <1>4, <1>5

LEMMA OpeningFine ==
    ASSUME Typed, Columns, [Next]_vars, NEW p \in Sessions,
           ReadVersion(p) \/ Migrate(p) \/ Migrated(p)
    PROVE  Fine(p)'
<1>1. columns \subseteq columns' /\ columns' \subseteq AllColumns
  BY ColumnsGrow
<1>2. local[p].version \in Nat /\ pc = [q \in Sessions |-> pc[q]] /\ local \in [Sessions -> Locals]
  BY DEF Typed, Locals
<1>3. CASE ReadVersion(p)
  <2>1. pc'[p] = "migrate" /\ local'[p].version = version
    BY <1>2, <1>3 DEF ReadVersion, Goto, Locals
  <2>2. \A v \in 1 .. version : Migrations[v] \in columns'
    BY <1>1 DEF Columns
  <2> QED
    BY <2>1, <2>2 DEF Fine, Ready
<1>4. CASE Migrate(p)
  <2> DEFINE n == local[p].version
  <2>1. /\ pc'[p] = "migrate" /\ pc[p] = "migrate" /\ local'[p].version = n + 1
        /\ columns' = columns \cup {Migrations[n + 1]}
    BY <1>2, <1>4 DEF Migrate, UpFails, Locals
  <2>2. \A v \in 1 .. n : Migrations[v] \in columns'
    BY <2>1 DEF Columns, Fine
  <2>3. n \in Nat
    BY <1>2
  <2>4. Migrations[n + 1] \in columns'
    BY <2>1
  <2> HIDE DEF n
  <2>5. \A v \in 1 .. n + 1 : v \in 1 .. n \/ v = n + 1
    BY <2>3
  <2>6. \A v \in 1 .. n + 1 : Migrations[v] \in columns'
    BY <2>2, <2>4, <2>5
  <2> QED
    BY <2>1, <2>6 DEF Fine, Ready
<1>5. CASE Migrated(p)
  <2>1. pc'[p] = "age" /\ pc[p] = "migrate"
    BY <1>2, <1>5 DEF Migrated, Return, Goto
  <2>2. 1 \in 1 .. local[p].version /\ 2 \in 1 .. local[p].version
    <3>1. local[p].version + 1 \notin 1 .. 2
      BY <1>5, TwoMigrations DEF Migrated
    <3> QED
      BY <1>2, <3>1
  <2>3. \A v \in 1 .. local[p].version : Migrations[v] \in columns
    BY <2>1 DEF Columns, Fine
  <2>4. columns' = AllColumns
    BY <1>1, <2>2, <2>3, TwoMigrations
  <2> QED
    BY <2>1, <2>4 DEF Fine
<1> QED
  BY <1>3, <1>4, <1>5

LEMMA ColumnsStep ==
    ASSUME Typed, Columns, [Next]_vars
    PROVE  Columns'
<1>1. pc = [q \in Sessions |-> pc[q]] /\ local = [q \in Sessions |-> local[q]]
  BY DEF Typed
<1> DEFINE Moves(p) == \A q \in Sessions : q # p => pc'[q] = pc[q] /\ local'[q] = local[q]
           Leaves(p) == \/ pc'[p] = pc[p] /\ local'[p].version = local[p].version
                        \/ pc[p] \in Ready /\ pc'[p] \notin {"failed", "migrate"}
                        \/ pc'[p] \in {"closed", "version", "nolog"}
<1>2. ASSUME NEW p \in Sessions, ReadVersion(p) \/ Migrate(p) \/ Migrated(p) PROVE Moves(p)
  BY <1>1, <1>2 DEF ReadVersion, Migrate, UpFails, Migrated, Return, Goto
<1>3. ASSUME NEW p \in Sessions, CreateSchema(p) PROVE Moves(p) /\ Leaves(p)
  BY <1>1, <1>3 DEF CreateSchema, Goto
<1>4. ASSUME NEW p \in Sessions, StatementFails(p) PROVE Moves(p) /\ Leaves(p)
  BY <1>1, <1>4 DEF StatementFails, Return, Goto, Ready
<1>5. ASSUME NEW p \in Sessions, RotateByAge(p) PROVE Moves(p) /\ Leaves(p)
  BY <1>1, <1>5 DEF RotateByAge, Goto, Ready
<1>6. ASSUME NEW p \in Sessions, CountRecords(p) PROVE Moves(p) /\ Leaves(p)
  BY <1>1, <1>6 DEF CountRecords, Rotated, Return, Goto, Ready
<1>7. ASSUME NEW p \in Sessions, DeleteOldest(p) PROVE Moves(p) /\ Leaves(p)
  BY <1>1, <1>7 DEF DeleteOldest, Rotated, Return, Goto, Ready
<1>8. ASSUME NEW p \in Sessions, CheckSize(p) PROVE Moves(p) /\ Leaves(p)
  BY <1>1, <1>8 DEF CheckSize, Return, Goto, Ready
<1>9. ASSUME NEW p \in Sessions, LogApiCall(p) PROVE Moves(p) /\ Leaves(p)
  BY <1>1, <1>9 DEF LogApiCall, Goto, Ready
<1>10. ASSUME NEW p \in Sessions, LogTokenUsage(p) PROVE Moves(p) /\ Leaves(p)
  BY <1>1, <1>10 DEF LogTokenUsage, Return, Goto, Ready
<1>11. ASSUME NEW p \in Sessions, Close(p) PROVE Moves(p) /\ Leaves(p)
  BY <1>1, <1>11 DEF Close, Return, Goto
<1> HIDE DEF Moves, Leaves
<1>12. ASSUME NEW p \in Sessions, NEW q \in Sessions, Moves(p), Fine(p)' PROVE Fine(q)'
  BY <1>12, FineKept DEF Moves
<1>13. ASSUME NEW p \in Sessions, Leaves(p) PROVE Fine(p)'
  BY <1>13, FineKept DEF Leaves
<1>14. ASSUME NEW p \in Sessions, ReadVersion(p) \/ Migrate(p) \/ Migrated(p) PROVE Fine(p)'
  BY <1>14, OpeningFine
<1>15. \/ UNCHANGED <<pc, local>>
       \/ \E p \in Sessions : Moves(p) /\ Fine(p)'
  BY <1>2, <1>3, <1>4, <1>5, <1>6, <1>7, <1>8, <1>9, <1>10, <1>11, <1>13, <1>14
     DEF Next, Tick, vars
<1>16. \A q \in Sessions : Fine(q)'
  BY <1>12, <1>15, FineKept
<1> QED
  BY <1>16, ColumnsGrow, VersionRecorded DEF Columns

(* Sessions of any number that open, migrate, rotate and log side by side:    *)
(* none fails to open because another one did its migration first, every      *)
(* INSERT finds its columns, and a usage row is never found under a later     *)
(* call (migrations_apply, persistence_log_api_call, AUTOINCREMENT).          *)
THEOREM SharedDatabase ==
    ASSUME MaxRecords \in Nat
    PROVE  Spec => []SharedDatabaseHolds
<1> DEFINE Inductive == Typed /\ IdsOnce /\ UsageOfItsCall /\ Columns
<1>1. Init => Inductive
  <2> SUFFICES ASSUME Init PROVE Inductive
    OBVIOUS
  <2>1. Typed
    BY FS_EmptySet DEF Init, Typed, Locals, NoLocals
  <2>2. IdsOnce /\ UsageOfItsCall
    BY DEF Init, IdsOnce, UsageOfItsCall
  <2>3. PICK v \in 0 .. 1 : version = v /\ columns = {Migrations[i] : i \in 1 .. v}
    BY DEF Init
  <2>4. \A i \in 1 .. v : i \in DOMAIN Migrations
    BY TwoMigrations
  <2>5. columns \subseteq AllColumns /\ \A i \in 1 .. version : Migrations[i] \in columns
    BY <2>3, <2>4 DEF AllColumns
  <2>6. \A p \in Sessions : pc[p] = "closed"
    BY DEF Init
  <2> QED
    BY <2>1, <2>2, <2>5, <2>6 DEF Columns, Fine, Ready
<1>2. Inductive /\ [Next]_vars => Inductive'
  BY TypedStep, IdsOnceStep, ColumnsStep
<1>3. Inductive => SharedDatabaseHolds
  BY DEF SharedDatabaseHolds, OpensTogether, Columns, Fine, Ready
<1> QED
  BY <1>1, <1>2, <1>3, PTL DEF Spec

-----------------------------------------------------------------------------
(* The log and its backups.                                                   *)
(* src/claude.c sets the rotation to five backups: there is one at least.     *)
LogBounds == MaxBackups \in Nat \ {0} /\ MaxFiles \in Nat

Slots == 0 .. MaxBackups

LogTypes ==
    /\ slot \in [Slots -> 0 .. created]
    /\ created \in 0 .. MaxFiles /\ full \subseteq 1 .. created
    /\ handle \in [Sessions -> 0 .. created]
    /\ logPc \in [Sessions -> {"down", "up", "shift", "current", "reopen"}]
    /\ next \in [Sessions -> 0 .. MaxBackups]
    /\ overlapped \in BOOLEAN /\ cutShort \in BOOLEAN
    /\ \A p \in Sessions : logPc[p] = "shift" => next[p] # 0

(* The file that many before the newest, 0 where there are not so many.       *)
Nth(k) == IF created > k THEN created - k ELSE 0

OneRotates == \A p, q \in Sessions : Log!Rotating(p) /\ Log!Rotating(q) => p = q

NewestFirst == \A i, j \in Slots : i < j /\ slot[i] # 0 /\ slot[j] # 0 => slot[i] > slot[j]

NoneSkipped ==
    \A f \in 1 .. created, i \in Slots :
        slot[i] # 0 /\ (\A j \in Slots : slot[j] # f) => f < slot[i]

(* A rename of a rotation meets a free slot: nothing is overwritten.          *)
RoomBelow ==
    \A p \in Sessions :
        /\ logPc[p] = "shift" => slot[MaxBackups - next[p] + 1] = 0
        /\ logPc[p] = "current" => slot[1] = 0

(* Where no session died in a rotation, the backups have no gap but the one   *)
(* that the rotation is moving up.                                            *)
NoGap ==
    /\ slot[0] \in {0, created}
    /\ (\A p \in Sessions : logPc[p] \notin {"shift", "current"}) =>
          \A i \in 1 .. MaxBackups : slot[i] = (IF slot[0] = 0 THEN Nth(i - 1) ELSE Nth(i))
    /\ \A p \in Sessions : logPc[p] \in {"shift", "current"} => slot[0] # 0
    /\ \A p \in Sessions : logPc[p] = "shift" =>
          /\ \A i \in 1 .. MaxBackups - next[p] : slot[i] = Nth(i)
          /\ \A i \in MaxBackups - next[p] + 2 .. MaxBackups : slot[i] = Nth(i - 1)
    /\ \A p \in Sessions : logPc[p] = "current" =>
          \A i \in 2 .. MaxBackups : slot[i] = Nth(i - 1)

InOrder == ~overlapped => OneRotates /\ NewestFirst /\ NoneSkipped /\ RoomBelow
Whole == ~overlapped /\ ~cutShort => NoGap


(* The file under the path stays as it is, or a new one is the newest.        *)
LEMMA OpenedLog ==
    ASSUME LogBounds, LogTypes, NEW p \in Sessions, Log!OpenLog(p)
    PROVE  /\ slot' \in [Slots -> 0 .. created'] /\ handle' \in [Sessions -> 0 .. created']
           /\ created' \in 0 .. MaxFiles /\ full \subseteq 1 .. created'
           /\ \/ UNCHANGED <<slot, created>>
              \/ /\ slot[0] = 0 /\ created' = created + 1 /\ slot'[0] = created + 1
                 /\ \A i \in 1 .. MaxBackups : slot'[i] = slot[i]
<1>. USE DEF LogBounds, LogTypes, Slots
<1>1. CASE slot[0] = 0 /\ created < MaxFiles /\ created' = created + 1
           /\ slot' = [slot EXCEPT ![0] = created + 1]
           /\ handle' = [handle EXCEPT ![p] = created + 1]
  <2>1. created \in Nat /\ created + 1 \in 0 .. MaxFiles /\ 0 .. created \subseteq 0 .. created + 1
    BY <1>1
  <2>2. slot' \in [Slots -> 0 .. created + 1] /\ handle' \in [Sessions -> 0 .. created + 1]
    BY <1>1, <2>1
  <2>3. slot'[0] = created + 1 /\ \A i \in 1 .. MaxBackups : slot'[i] = slot[i]
    BY <1>1
  <2>. QED  BY <1>1, <2>1, <2>2, <2>3
<1>2. CASE UNCHANGED <<slot, created>>
           /\ (handle' = [handle EXCEPT ![p] = slot[0]] \/ handle' = [handle EXCEPT ![p] = 0])
  BY <1>2
<1>. QED  BY <1>1, <1>2 DEF Log!OpenLog

LEMMA OpenedInOrder ==
    ASSUME LogBounds, LogTypes, NEW p \in Sessions, Log!OpenLog(p)
    PROVE  /\ NewestFirst => NewestFirst'
           /\ NoneSkipped => NoneSkipped'
<1>. USE DEF LogBounds, LogTypes, Slots
<1>1. CASE UNCHANGED <<slot, created>>
  BY <1>1 DEF NewestFirst, NoneSkipped
<1>2. CASE /\ slot[0] = 0 /\ created' = created + 1 /\ slot'[0] = created + 1
           /\ \A i \in 1 .. MaxBackups : slot'[i] = slot[i]
  <2>1. ASSUME NewestFirst, NEW i \in Slots, NEW j \in Slots, i < j, slot'[i] # 0, slot'[j] # 0
        PROVE  slot'[i] > slot'[j]
    <3>1. j \in 1 .. MaxBackups /\ slot'[j] = slot[j] /\ slot[j] \in 0 .. created
      BY <1>2, <2>1
    <3>2. CASE i = 0
      BY <1>2, <3>1, <3>2
    <3>3. CASE i # 0
      BY <1>2, <2>1, <3>1, <3>3 DEF NewestFirst
    <3>. QED  BY <3>2, <3>3
  <2>2. ASSUME NoneSkipped, NEW f \in 1 .. created', NEW i \in Slots, slot'[i] # 0,
               \A j \in Slots : slot'[j] # f
        PROVE  f < slot'[i]
    <3>1. f \in 1 .. created
      BY <1>2, <2>2
    <3>2. \A j \in Slots : slot[j] # f
      BY <1>2, <2>2, <3>1
    <3>. QED  BY <1>2, <2>2, <3>1, <3>2 DEF NoneSkipped
  <2>. QED  BY <2>1, <2>2 DEF NewestFirst, NoneSkipped
<1>. QED  BY <1>1, <1>2, OpenedLog

(* A file moves up by one into a free slot.                                   *)
LEMMA MovedUp ==
    ASSUME LogBounds, LogTypes, NEW k \in 0 .. MaxBackups - 1, slot[k + 1] = 0,
           Log!Rename(k, k + 1), created' = created
    PROVE  /\ slot' \in [Slots -> 0 .. created] /\ slot'[k + 1] = slot[k] /\ slot'[k] = 0
           /\ \A i \in Slots \ {k, k + 1} : slot'[i] = slot[i]
           /\ NewestFirst => NewestFirst'
           /\ NoneSkipped => NoneSkipped'
<1>. USE DEF LogBounds, LogTypes, Slots
<1>1. k \in Slots /\ k + 1 \in Slots /\ k # k + 1
  OBVIOUS
<1>2. /\ slot' \in [Slots -> 0 .. created] /\ slot'[k + 1] = slot[k] /\ slot'[k] = 0
      /\ \A i \in Slots \ {k, k + 1} : slot'[i] = slot[i]
  <2>1. slot \in [Slots -> 0 .. created] /\ slot[k] \in 0 .. created /\ 0 \in 0 .. created
    BY <1>1
  <2>2. CASE slot[k] = 0
    BY <1>1, <2>1, <2>2 DEF Log!Rename
  <2>3. CASE slot[k] # 0
    <3>1. slot' = [slot EXCEPT ![k + 1] = slot[k], ![k] = 0]
      BY <2>3 DEF Log!Rename
    <3>. HIDE DEF LogBounds, LogTypes, Slots
    <3>. QED  BY <1>1, <2>1, <3>1
  <2>. QED  BY <2>2, <2>3
<1>3. ASSUME NewestFirst  PROVE NewestFirst'
  BY <1>1, <1>2, <1>3 DEF NewestFirst
<1>4. ASSUME NoneSkipped, NEW f \in 1 .. created, NEW i \in Slots, slot'[i] # 0,
             \A j \in Slots : slot'[j] # f
      PROVE  f < slot'[i]
  <2>1. \A j \in Slots : slot[j] # f
    BY <1>1, <1>2, <1>4
  <2>2. PICK h \in Slots : slot[h] = slot'[i]
    BY <1>1, <1>2, <1>4
  <2>. QED  BY <1>4, <2>1, <2>2 DEF NoneSkipped
<1>. QED  BY <1>2, <1>3, <1>4 DEF NoneSkipped


LEMMA RenamedTypes ==
    ASSUME LogTypes, NEW from \in Slots, NEW to \in Slots, Log!Rename(from, to)
    PROVE  slot' \in [Slots -> 0 .. created]
BY DEF LogTypes, Log!Rename

LEMMA LogTypesStep ==
    ASSUME LogBounds, LogTypes, [Log!Next]_logVars
    PROVE  LogTypes'
<1>. USE DEF LogBounds, LogTypes, Slots, Log!Goto, Log!Shifts
<1>1. ASSUME NEW p \in Sessions, Log!Start(p)
      PROVE  LogTypes'
  <2>1. slot' \in [Slots -> 0 .. created'] /\ handle' \in [Sessions -> 0 .. created']
        /\ created' \in 0 .. MaxFiles /\ full \subseteq 1 .. created'
    BY <1>1, OpenedLog DEF Log!Start
  <2>. QED  BY <1>1, <2>1 DEF Log!Start
<1>2. ASSUME NEW p \in Sessions, Log!Write(p)
      PROVE  LogTypes'
  <2>1. handle[p] \in 1 .. created /\ full' = full \cup {handle[p]}
    BY <1>2 DEF Log!Write
  <2>2. full' \subseteq 1 .. created
    BY <2>1
  <2>. QED  BY <1>2, <2>2 DEF Log!Write
<1>3. ASSUME NEW p \in Sessions, Log!StartRotation(p)
      PROVE  LogTypes'
  BY <1>3 DEF Log!StartRotation
<1>4. ASSUME NEW p \in Sessions, Log!ShiftBackup(p)
      PROVE  LogTypes'
  <2>. DEFINE done == next[p]
  <2>0. done \in 1 .. MaxBackups - 1
    BY <1>4 DEF Log!ShiftBackup
  <2>3. MaxBackups - done \in Slots /\ MaxBackups - done + 1 \in Slots /\ done + 1 \in 1 .. MaxBackups
    <3>. HIDE DEF done
    <3>. QED  BY <2>0
  <2>1. slot' \in [Slots -> 0 .. created]
    <3>1. MaxBackups - next[p] \in Slots /\ MaxBackups - next[p] + 1 \in Slots
      BY <2>3
    <3>2. Log!Rename(MaxBackups - next[p], MaxBackups - next[p] + 1)
      BY <1>4 DEF Log!ShiftBackup
    <3>. QED  BY <3>1, <3>2, RenamedTypes
  <2>2. next' \in [Sessions -> 0 .. MaxBackups] /\ \A q \in Sessions : next[q] # 0 => next'[q] # 0
    <3>1. next \in [Sessions -> 0 .. MaxBackups] /\ next[p] + 1 \in 1 .. MaxBackups
      BY <2>3
    <3>2. next' = [next EXCEPT ![p] = next[p] + 1]
      BY <1>4 DEF Log!ShiftBackup
    <3>. HIDE DEF LogTypes, LogBounds, done
    <3>. QED  BY <3>1, <3>2
  <2>. QED  BY <1>4, <2>1, <2>2 DEF Log!ShiftBackup
<1>5. ASSUME NEW p \in Sessions, Log!Shifted(p)
      PROVE  LogTypes'
  BY <1>5 DEF Log!Shifted
<1>6. ASSUME NEW p \in Sessions, Log!ShiftCurrent(p)
      PROVE  LogTypes'
  <2>1. slot' \in [Slots -> 0 .. created]
    <3>1. 0 \in Slots /\ 1 \in Slots
      OBVIOUS
    <3>. QED  BY <1>6, <3>1, RenamedTypes DEF Log!ShiftCurrent
  <2>. QED  BY <1>6, <2>1 DEF Log!ShiftCurrent
<1>7. ASSUME NEW p \in Sessions, Log!Reopen(p)
      PROVE  LogTypes'
  <2>1. slot' \in [Slots -> 0 .. created'] /\ handle' \in [Sessions -> 0 .. created']
        /\ created' \in 0 .. MaxFiles /\ full \subseteq 1 .. created'
    BY <1>7, OpenedLog DEF Log!Reopen
  <2>. QED  BY <1>7, <2>1 DEF Log!Reopen
<1>8. ASSUME NEW p \in Sessions, Log!Stop(p)
      PROVE  LogTypes'
  BY <1>8 DEF Log!Stop
<1>9. CASE UNCHANGED logVars
  BY <1>9 DEF logVars
<1>. QED
  BY <1>1, <1>2, <1>3, <1>4, <1>5, <1>6, <1>7, <1>8, <1>9
  DEF Log!Next

LEMMA InOrderStep ==
    ASSUME LogBounds, LogTypes, InOrder, [Log!Next]_logVars
    PROVE  InOrder'
<1>1. ASSUME NEW p \in Sessions, Log!Start(p)
      PROVE  InOrder'
  <2>. SUFFICES ASSUME ~overlapped  PROVE (OneRotates /\ NewestFirst /\ NoneSkipped /\ RoomBelow)'
    BY <1>1 DEF Log!Start, InOrder
  <2>1. NewestFirst' /\ NoneSkipped'
    BY <1>1, OpenedInOrder DEF Log!Start, InOrder
  <2>2. \A i \in 1 .. MaxBackups : slot'[i] = slot[i]
    BY <1>1, OpenedLog DEF Log!Start
  <2>3. OneRotates' /\ \A q \in Sessions : logPc'[q] \in {"shift", "current"} => logPc'[q] = logPc[q]
    BY <1>1 DEF Log!Start, InOrder, OneRotates, Log!Rotating, LogTypes, Log!Goto
  <2>4. RoomBelow'
    BY <1>1, <2>2, <2>3 DEF Log!Start, InOrder, RoomBelow, LogTypes, LogBounds, Log!Goto
  <2>. QED  BY <2>1, <2>3, <2>4
<1>2. ASSUME NEW p \in Sessions, Log!Write(p)
      PROVE  InOrder'
  BY <1>2 DEF Log!Write, InOrder, OneRotates, NewestFirst, NoneSkipped, RoomBelow, Log!Rotating
<1>3. ASSUME NEW p \in Sessions, Log!StartRotation(p)
      PROVE  InOrder'
  <2>. SUFFICES ASSUME ~overlapped'  PROVE (OneRotates /\ NewestFirst /\ NoneSkipped /\ RoomBelow)'
    BY DEF InOrder
  <2>1. /\ logPc' = [logPc EXCEPT ![p] = "shift"] /\ next' = [next EXCEPT ![p] = 1]
        /\ slot' = [slot EXCEPT ![MaxBackups] = 0]
        /\ UNCHANGED created /\ ~overlapped /\ \A q \in Sessions \ {p} : ~Log!Rotating(q)
    BY <1>3 DEF Log!StartRotation, Log!Goto
  <2>2. NewestFirst /\ NoneSkipped
    BY <2>1 DEF InOrder
  <2>3. NewestFirst'
    BY <2>1, <2>2 DEF NewestFirst, LogTypes, Slots
  <2>4. NoneSkipped'
    <3>1. ASSUME NEW f \in 1 .. created, NEW i \in Slots, slot'[i] # 0, \A j \in Slots : slot'[j] # f
          PROVE  f < slot'[i]
      <4>1. MaxBackups \in Slots /\ i < MaxBackups /\ slot'[i] = slot[i]
        BY <2>1, <3>1 DEF LogBounds, LogTypes, Slots
      <4>2. CASE slot[MaxBackups] = f
        BY <2>2, <3>1, <4>1, <4>2 DEF NewestFirst, LogTypes, Slots
      <4>3. CASE slot[MaxBackups] # f
        <5>1. \A j \in Slots : slot[j] # f
          BY <2>1, <3>1, <4>3 DEF LogTypes
        <5>. QED  BY <2>2, <3>1, <4>1, <5>1 DEF NoneSkipped
      <4>. QED  BY <4>2, <4>3
    <3>. QED  BY <2>1, <3>1 DEF NoneSkipped
  <2>5. OneRotates' /\ RoomBelow'
    BY <2>1 DEF OneRotates, RoomBelow, Log!Rotating, LogTypes, LogBounds, Slots
  <2>. QED  BY <2>3, <2>4, <2>5
<1>4. ASSUME NEW p \in Sessions, Log!ShiftBackup(p)
      PROVE  InOrder'
  <2>. SUFFICES ASSUME ~overlapped  PROVE (OneRotates /\ NewestFirst /\ NoneSkipped /\ RoomBelow)'
    BY <1>4 DEF Log!ShiftBackup, InOrder
  <2>. DEFINE k == MaxBackups - next[p]
  <2>1. /\ logPc[p] = "shift" /\ Log!Rename(k, k + 1) /\ next' = [next EXCEPT ![p] = next[p] + 1]
        /\ next[p] \in 1 .. MaxBackups - 1 /\ UNCHANGED <<created, logPc>>
    BY <1>4 DEF Log!ShiftBackup, Log!Shifts
  <2>2. k \in 1 .. MaxBackups - 1 /\ slot[k + 1] = 0
    BY <2>1 DEF LogBounds, InOrder, RoomBelow
  <2>3. slot'[k] = 0 /\ NewestFirst' /\ NoneSkipped'
    <3>. HIDE DEF k
    <3>. QED  BY <2>1, <2>2, MovedUp DEF LogBounds, InOrder
  <2>4. \A q \in Sessions : q # p => logPc[q] \notin {"shift", "current"}
    BY <2>1 DEF InOrder, OneRotates, Log!Rotating
  <2>5. next'[p] = next[p] + 1 /\ MaxBackups - next'[p] + 1 = k
    BY <2>1 DEF LogTypes, LogBounds
  <2>6. RoomBelow'
    <3>. HIDE DEF k
    <3>. QED  BY <2>1, <2>3, <2>4, <2>5 DEF RoomBelow
  <2>7. OneRotates'
    BY <2>1 DEF InOrder, OneRotates, Log!Rotating
  <2>. QED  BY <2>3, <2>6, <2>7
<1>5. ASSUME NEW p \in Sessions, Log!Shifted(p)
      PROVE  InOrder'
  <2>. SUFFICES ASSUME ~overlapped  PROVE (OneRotates /\ NewestFirst /\ NoneSkipped /\ RoomBelow)'
    BY <1>5 DEF Log!Shifted, InOrder
  <2>1. /\ logPc[p] = "shift" /\ logPc' = [logPc EXCEPT ![p] = "current"]
        /\ next' = [next EXCEPT ![p] = 0] /\ next[p] \notin 1 .. MaxBackups - 1
        /\ UNCHANGED <<slot, created>>
    BY <1>5 DEF Log!Shifted, Log!Goto
  <2>2. next[p] = MaxBackups
    BY <2>1 DEF LogBounds, LogTypes
  <2>3. slot[1] = 0
    BY <2>1, <2>2 DEF InOrder, RoomBelow, LogBounds
  <2>4. OneRotates' /\ NewestFirst' /\ NoneSkipped'
    BY <2>1 DEF InOrder, OneRotates, NewestFirst, NoneSkipped, Log!Rotating, LogTypes
  <2>5. \A q \in Sessions : q # p => logPc[q] \notin {"shift", "current"}
    BY <2>1 DEF InOrder, OneRotates, Log!Rotating
  <2>6. RoomBelow'
    BY <2>1, <2>3, <2>5 DEF RoomBelow, LogTypes
  <2>. QED  BY <2>4, <2>6
<1>6. ASSUME NEW p \in Sessions, Log!ShiftCurrent(p)
      PROVE  InOrder'
  <2>. SUFFICES ASSUME ~overlapped  PROVE (OneRotates /\ NewestFirst /\ NoneSkipped /\ RoomBelow)'
    BY <1>6 DEF Log!ShiftCurrent, InOrder
  <2>1. /\ logPc[p] = "current" /\ logPc' = [logPc EXCEPT ![p] = "reopen"]
        /\ Log!Rename(0, 0 + 1) /\ UNCHANGED <<created, next>>
    BY <1>6 DEF Log!ShiftCurrent, Log!Goto
  <2>2. 0 \in 0 .. MaxBackups - 1 /\ slot[0 + 1] = 0
    BY <2>1 DEF InOrder, RoomBelow, LogBounds
  <2>3. NewestFirst' /\ NoneSkipped'
    BY <2>1, <2>2, MovedUp DEF InOrder
  <2>4. \A q \in Sessions : logPc'[q] \notin {"shift", "current"}
    BY <2>1 DEF InOrder, OneRotates, Log!Rotating, LogTypes
  <2>5. OneRotates'
    BY <2>1 DEF InOrder, OneRotates, Log!Rotating, LogTypes
  <2>. QED  BY <2>3, <2>4, <2>5 DEF RoomBelow
<1>7. ASSUME NEW p \in Sessions, Log!Reopen(p)
      PROVE  InOrder'
  <2>. SUFFICES ASSUME ~overlapped  PROVE (OneRotates /\ NewestFirst /\ NoneSkipped /\ RoomBelow)'
    BY <1>7 DEF Log!Reopen, InOrder
  <2>1. NewestFirst' /\ NoneSkipped'
    BY <1>7, OpenedInOrder DEF Log!Reopen, InOrder
  <2>2. \A i \in 1 .. MaxBackups : slot'[i] = slot[i]
    BY <1>7, OpenedLog DEF Log!Reopen
  <2>3. OneRotates' /\ \A q \in Sessions : logPc'[q] \in {"shift", "current"} => logPc'[q] = logPc[q]
    BY <1>7 DEF Log!Reopen, InOrder, OneRotates, Log!Rotating, LogTypes, Log!Goto
  <2>4. RoomBelow'
    BY <1>7, <2>2, <2>3 DEF Log!Reopen, InOrder, RoomBelow, LogTypes, LogBounds, Log!Goto
  <2>. QED  BY <2>1, <2>3, <2>4
<1>8. ASSUME NEW p \in Sessions, Log!Stop(p)
      PROVE  InOrder'
  BY <1>8 DEF Log!Stop, InOrder, OneRotates, NewestFirst, NoneSkipped, RoomBelow, Log!Rotating,
       LogTypes, Log!Goto
<1>9. CASE UNCHANGED logVars
  BY <1>9 DEF logVars, InOrder, OneRotates, NewestFirst, NoneSkipped, RoomBelow, Log!Rotating
<1>. QED
  BY <1>1, <1>2, <1>3, <1>4, <1>5, <1>6, <1>7, <1>8, <1>9
  DEF Log!Next

LEMMA NoGapStep ==
    ASSUME LogBounds, LogTypes, InOrder, Whole, [Log!Next]_logVars
    PROVE  Whole'
<1>1. ASSUME NEW p \in Sessions, Log!Start(p)
      PROVE  Whole'
  <2>. SUFFICES ASSUME ~overlapped, ~cutShort  PROVE NoGap'
    BY <1>1 DEF Log!Start, Whole
  <2>1. NoGap /\ UNCHANGED next /\ \A q \in Sessions : logPc'[q] \in {"shift", "current"} <=> logPc[q] \in {"shift", "current"}
    BY <1>1 DEF Log!Start, Whole, Log!Goto, LogTypes
  <2>2. CASE UNCHANGED <<slot, created>>
    <3>1. \A q \in Sessions : logPc'[q] \in {"shift", "current"} => logPc'[q] = logPc[q]
      BY <1>1 DEF Log!Start, Log!Goto, LogTypes
    <3>. QED  BY <2>1, <2>2, <3>1 DEF NoGap, Nth
  <2>3. CASE /\ slot[0] = 0 /\ created' = created + 1 /\ slot'[0] = created + 1
             /\ \A i \in 1 .. MaxBackups : slot'[i] = slot[i]
    <3>1. \A q \in Sessions : logPc[q] \notin {"shift", "current"} /\ logPc'[q] \notin {"shift", "current"}
      BY <2>1, <2>3 DEF NoGap
    <3>2. ASSUME NEW i \in 1 .. MaxBackups  PROVE slot'[i] = (Nth(i))'
      <4>1. slot'[i] = Nth(i - 1)
        BY <2>1, <2>3, <3>1 DEF NoGap
      <4>. QED  BY <2>3, <4>1 DEF Nth, LogTypes
    <3>3. slot'[0] = created' /\ slot'[0] # 0
      BY <2>3 DEF LogTypes
    <3>. QED  BY <3>1, <3>2, <3>3 DEF NoGap
  <2>. QED  BY <1>1, <2>2, <2>3, OpenedLog DEF Log!Start
<1>2. ASSUME NEW p \in Sessions, Log!Write(p)
      PROVE  Whole'
  BY <1>2 DEF Log!Write, Whole, NoGap, Nth
<1>3. ASSUME NEW p \in Sessions, Log!StartRotation(p)
      PROVE  Whole'
  <2>. SUFFICES ASSUME ~overlapped', ~cutShort  PROVE NoGap'
    BY <1>3 DEF Log!StartRotation, Whole
  <2>1. /\ logPc' = [logPc EXCEPT ![p] = "shift"] /\ next' = [next EXCEPT ![p] = 1]
        /\ slot' = [slot EXCEPT ![MaxBackups] = 0] /\ slot[0] \in full
        /\ UNCHANGED created /\ ~overlapped /\ \A q \in Sessions \ {p} : ~Log!Rotating(q)
        /\ logPc[p] = "up"
    BY <1>3 DEF Log!StartRotation, Log!Goto
  <2>2. \A q \in Sessions : logPc[q] \notin {"shift", "current"}
    BY <2>1 DEF Log!Rotating
  <2>3. slot[0] # 0
    BY <2>1 DEF LogTypes
  <2>4. slot[0] = created /\ \A i \in 1 .. MaxBackups : slot[i] = Nth(i)
    BY <2>1, <2>2, <2>3 DEF Whole, NoGap
  <2>5. slot'[0] = slot[0] /\ \A i \in 1 .. MaxBackups - 1 : slot'[i] = slot[i]
    BY <2>1 DEF LogTypes, LogBounds, Slots
  <2>6. logPc'[p] = "shift" /\ next'[p] = 1
    BY <2>1 DEF LogTypes
  <2>7. \A q \in Sessions : q # p => logPc'[q] \notin {"shift", "current"}
    BY <2>1, <2>2 DEF LogTypes
  <2>8. \A i \in 1 .. MaxBackups - 1 : slot'[i] = (Nth(i))'
    BY <2>1, <2>4, <2>5 DEF Nth, LogBounds
  <2>9. MaxBackups - 1 + 2 > MaxBackups
    BY DEF LogBounds
  <2>. QED  BY <2>1, <2>3, <2>4, <2>5, <2>6, <2>7, <2>8, <2>9 DEF NoGap, LogBounds
<1>4. ASSUME NEW p \in Sessions, Log!ShiftBackup(p)
      PROVE  Whole'
  <2>. SUFFICES ASSUME ~overlapped, ~cutShort  PROVE NoGap'
    BY <1>4 DEF Log!ShiftBackup, Whole
  <2>. DEFINE k == MaxBackups - next[p]
  <2>1. /\ logPc[p] = "shift" /\ Log!Rename(k, k + 1) /\ next' = [next EXCEPT ![p] = next[p] + 1]
        /\ next[p] \in 1 .. MaxBackups - 1 /\ UNCHANGED <<created, logPc>>
    BY <1>4 DEF Log!ShiftBackup, Log!Shifts
  <2>2. k \in 1 .. MaxBackups - 1 /\ slot[k + 1] = 0
    BY <2>1 DEF LogBounds, InOrder, RoomBelow
  <2>3. NoGap /\ MaxBackups - next[p] + 2 = k + 2
    BY <2>1 DEF Whole, LogBounds
  <2>4. /\ \A i \in 1 .. k : slot[i] = Nth(i)
        /\ \A i \in k + 2 .. MaxBackups : slot[i] = Nth(i - 1)
        /\ slot[0] = created /\ slot[0] # 0
    BY <2>1, <2>3 DEF NoGap
  <2>5. \A q \in Sessions : q # p => logPc[q] \notin {"shift", "current"}
    BY <2>1 DEF InOrder, OneRotates, Log!Rotating
  <2>6. next'[p] = next[p] + 1 /\ MaxBackups - next'[p] = k - 1 /\ MaxBackups - next'[p] + 2 = k + 1
    BY <2>1 DEF LogTypes, LogBounds
  <2>. HIDE DEF k
  <2>7. slot'[k + 1] = slot[k] /\ slot'[k] = 0 /\ \A i \in Slots \ {k, k + 1} : slot'[i] = slot[i]
    BY <2>1, <2>2, MovedUp DEF LogBounds
  <2>8. slot'[0] = slot[0] /\ \A i \in 1 .. k - 1 : slot'[i] = (Nth(i))'
    BY <2>1, <2>2, <2>4, <2>7 DEF Slots, LogBounds, Nth
  <2>9. ASSUME NEW i \in k + 1 .. MaxBackups  PROVE slot'[i] = (Nth(i - 1))'
    <3>1. CASE i = k + 1
      BY <2>1, <2>2, <2>4, <2>7, <3>1 DEF Nth
    <3>2. CASE i # k + 1
      <4>1. i \in k + 2 .. MaxBackups /\ i \in Slots \ {k, k + 1}
        BY <2>2, <3>2 DEF Slots, LogBounds
      <4>. QED  BY <2>1, <2>4, <2>7, <4>1 DEF Nth
    <3>. QED  BY <3>1, <3>2
  <2>. QED  BY <2>1, <2>4, <2>5, <2>6, <2>8, <2>9 DEF NoGap
<1>5. ASSUME NEW p \in Sessions, Log!Shifted(p)
      PROVE  Whole'
  <2>. SUFFICES ASSUME ~overlapped, ~cutShort  PROVE NoGap'
    BY <1>5 DEF Log!Shifted, Whole
  <2>1. /\ logPc[p] = "shift" /\ logPc' = [logPc EXCEPT ![p] = "current"]
        /\ next' = [next EXCEPT ![p] = 0] /\ next[p] \notin 1 .. MaxBackups - 1
        /\ UNCHANGED <<slot, created>>
    BY <1>5 DEF Log!Shifted, Log!Goto
  <2>2. next[p] = MaxBackups /\ MaxBackups - next[p] + 2 = 2
    BY <2>1 DEF LogBounds, LogTypes
  <2>3. slot[0] = created /\ slot[0] # 0 /\ \A i \in 2 .. MaxBackups : slot[i] = Nth(i - 1)
    BY <2>1, <2>2 DEF Whole, NoGap
  <2>4. logPc'[p] = "current" /\ \A q \in Sessions : q # p => logPc'[q] \notin {"shift", "current"}
    BY <2>1 DEF InOrder, OneRotates, Log!Rotating, LogTypes
  <2>. QED  BY <2>1, <2>3, <2>4 DEF NoGap, Nth
<1>6. ASSUME NEW p \in Sessions, Log!ShiftCurrent(p)
      PROVE  Whole'
  <2>. SUFFICES ASSUME ~overlapped, ~cutShort  PROVE NoGap'
    BY <1>6 DEF Log!ShiftCurrent, Whole
  <2>1. /\ logPc[p] = "current" /\ logPc' = [logPc EXCEPT ![p] = "reopen"]
        /\ Log!Rename(0, 0 + 1) /\ UNCHANGED <<created, next>>
    BY <1>6 DEF Log!ShiftCurrent, Log!Goto
  <2>2. 0 \in 0 .. MaxBackups - 1 /\ slot[0 + 1] = 0
    BY <2>1 DEF InOrder, RoomBelow, LogBounds
  <2>3. slot'[0 + 1] = slot[0] /\ slot'[0] = 0 /\ \A i \in Slots \ {0, 0 + 1} : slot'[i] = slot[i]
    BY <2>1, <2>2, MovedUp DEF LogBounds
  <2>4. slot[0] = created /\ slot[0] # 0 /\ \A i \in 2 .. MaxBackups : slot[i] = Nth(i - 1)
    BY <2>1 DEF Whole, NoGap
  <2>5. \A q \in Sessions : logPc'[q] \notin {"shift", "current"}
    BY <2>1 DEF InOrder, OneRotates, Log!Rotating, LogTypes
  <2>6. ASSUME NEW i \in 1 .. MaxBackups  PROVE slot'[i] = (Nth(i - 1))'
    <3>1. CASE i = 1
      BY <2>1, <2>3, <2>4, <3>1 DEF Nth, LogTypes
    <3>2. CASE i # 1
      BY <2>1, <2>3, <2>4, <3>2 DEF Nth, Slots
    <3>. QED  BY <3>1, <3>2
  <2>. QED  BY <2>3, <2>5, <2>6 DEF NoGap
<1>7. ASSUME NEW p \in Sessions, Log!Reopen(p)
      PROVE  Whole'
  <2>. SUFFICES ASSUME ~overlapped, ~cutShort  PROVE NoGap'
    BY <1>7 DEF Log!Reopen, Whole
  <2>1. NoGap /\ UNCHANGED next /\ \A q \in Sessions : logPc'[q] \in {"shift", "current"} <=> logPc[q] \in {"shift", "current"}
    BY <1>7 DEF Log!Reopen, Whole, Log!Goto, LogTypes
  <2>2. CASE UNCHANGED <<slot, created>>
    <3>1. \A q \in Sessions : logPc'[q] \in {"shift", "current"} => logPc'[q] = logPc[q]
      BY <1>7 DEF Log!Reopen, Log!Goto, LogTypes
    <3>. QED  BY <2>1, <2>2, <3>1 DEF NoGap, Nth
  <2>3. CASE /\ slot[0] = 0 /\ created' = created + 1 /\ slot'[0] = created + 1
             /\ \A i \in 1 .. MaxBackups : slot'[i] = slot[i]
    <3>1. \A q \in Sessions : logPc[q] \notin {"shift", "current"} /\ logPc'[q] \notin {"shift", "current"}
      BY <2>1, <2>3 DEF NoGap
    <3>2. ASSUME NEW i \in 1 .. MaxBackups  PROVE slot'[i] = (Nth(i))'
      <4>1. slot'[i] = Nth(i - 1)
        BY <2>1, <2>3, <3>1 DEF NoGap
      <4>. QED  BY <2>3, <4>1 DEF Nth, LogTypes
    <3>3. slot'[0] = created' /\ slot'[0] # 0
      BY <2>3 DEF LogTypes
    <3>. QED  BY <3>1, <3>2, <3>3 DEF NoGap
  <2>. QED  BY <1>7, <2>2, <2>3, OpenedLog DEF Log!Reopen
<1>8. ASSUME NEW p \in Sessions, Log!Stop(p)
      PROVE  Whole'
  <2>. SUFFICES ASSUME ~overlapped, ~cutShort, ~Log!Rotating(p)  PROVE NoGap'
    BY <1>8 DEF Log!Stop, Whole
  <2>1. \A q \in Sessions : q # p => logPc'[q] = logPc[q] /\ next'[q] = next[q]
    BY <1>8 DEF Log!Stop, Log!Goto, LogTypes
  <2>2. logPc'[p] \notin {"shift", "current"} /\ logPc[p] \notin {"shift", "current"}
    BY <1>8 DEF Log!Stop, Log!Goto, Log!Rotating, LogTypes
  <2>3. UNCHANGED <<slot, created>> /\ NoGap
    BY <1>8 DEF Log!Stop, Whole
  <2>. QED  BY <2>1, <2>2, <2>3 DEF NoGap, Nth
<1>9. CASE UNCHANGED logVars
  BY <1>9 DEF logVars, Whole, NoGap, Nth
<1>. QED
  BY <1>1, <1>2, <1>3, <1>4, <1>5, <1>6, <1>7, <1>8, <1>9
  DEF Log!Next

LEMMA OrderLosesOldest ==
    ASSUME LogBounds, LogTypes, InOrder, Whole
    PROVE  Log!OldestLogsLost
<1>. SUFFICES ASSUME ~overlapped
              PROVE  /\ NewestFirst
                     /\ \A f \in 1 .. created, g \in Log!Kept : f \notin Log!Kept => f < g
                     /\ ~cutShort /\ slot[0] # 0 /\ (\A p \in Sessions : ~Log!Rotating(p)) =>
                          \A f \in 1 .. created : f >= created - MaxBackups => f \in Log!Kept
  BY DEF Log!OldestLogsLost, NewestFirst, Slots
<1>1. ASSUME NEW f \in 1 .. created, NEW g \in Log!Kept, f \notin Log!Kept  PROVE f < g
  <2>1. PICK i \in Slots : slot[i] = g /\ g # 0
    BY DEF Log!Kept, Slots
  <2>2. \A j \in Slots : slot[j] # f
    BY <1>1 DEF Log!Kept, Slots
  <2>. QED  BY <2>1, <2>2 DEF InOrder, NoneSkipped
<1>2. ASSUME ~cutShort, slot[0] # 0, \A p \in Sessions : ~Log!Rotating(p),
             NEW f \in 1 .. created, f >= created - MaxBackups
      PROVE  f \in Log!Kept
  <2>1. \A p \in Sessions : logPc[p] \notin {"shift", "current"}
    BY <1>2 DEF Log!Rotating
  <2>2. slot[0] = created /\ \A i \in 1 .. MaxBackups : slot[i] = Nth(i)
    BY <1>2, <2>1 DEF Whole, NoGap
  <2>3. created - f \in Slots /\ slot[created - f] = f
    BY <1>2, <2>2 DEF Nth, Slots, LogTypes, LogBounds
  <2>. QED  BY <2>3 DEF Log!Kept, Slots
<1>. QED  BY <1>1, <1>2 DEF InOrder

(* However rotations, writes and deaths of sessions interleave, the backups   *)
(* stay newest first and only the oldest files are lost, for any number of    *)
(* backups and sessions, as long as no two rotations overlap (rotate_log).    *)
THEOREM OldestLost == ASSUME LogBounds PROVE LocalSpec => []OldestLogsLost
<1>. DEFINE IInv == LogTypes /\ InOrder /\ Whole
<1>1. LocalInit => IInv
  <2>. SUFFICES ASSUME LocalInit  PROVE IInv
    OBVIOUS
  <2>1. Log!Init
    BY DEF LocalInit
  <2>2. LogTypes
    <3>1. 0 \in 0 .. 0 /\ 0 \in 0 .. MaxFiles /\ 0 \in 0 .. MaxBackups
      BY DEF LogBounds
    <3>2. created = 0 /\ slot = [i \in Slots |-> 0]
      BY <2>1 DEF Log!Init, Slots
    <3>. QED  BY <2>1, <3>1, <3>2 DEF Log!Init, LogTypes
  <2>3. InOrder
    BY <2>1 DEF Log!Init, InOrder, OneRotates, NewestFirst, NoneSkipped, RoomBelow,
         Log!Rotating, Slots
  <2>4. Whole
    <3>1. created = 0 /\ (\A i \in 0 .. MaxBackups : slot[i] = 0) /\ \A p \in Sessions : logPc[p] = "down"
      BY <2>1 DEF Log!Init
    <3>2. 0 \in 0 .. MaxBackups /\ 1 .. MaxBackups \subseteq 0 .. MaxBackups
      BY DEF LogBounds
    <3>3. slot[0] = 0 /\ \A i \in 1 .. MaxBackups : slot[i] = Nth(i - 1)
      BY <3>1, <3>2 DEF Nth
    <3>. QED  BY <3>1, <3>3 DEF Whole, NoGap
  <2>. QED  BY <2>2, <2>3, <2>4
<1>2. ASSUME IInv, [LocalNext]_localVars  PROVE IInv'
  <2>1. [Log!Next]_logVars
    BY <1>2 DEF LocalNext, localVars, logVars
  <2>. QED  BY <1>2, <2>1, LogTypesStep, InOrderStep, NoGapStep
<1>3. IInv => OldestLogsLost
  BY OrderLosesOldest DEF OldestLogsLost
<1>. QED  BY <1>1, <1>2, <1>3, PTL DEF LocalSpec

-----------------------------------------------------------------------------
(* The conversation on the screen.                                            *)
ViewBounds ==
    /\ ViewTexts \subseteq Seq(Nat) /\ ClearedText \in Seq(Nat)
    /\ Screens \subseteq [height : Nat, width : Nat \ {0}]
    /\ MaxEntries \in Nat \ {0} /\ InitialCapacity \in Nat \ {0} /\ Slack \in Nat
    /\ MinConv \in Nat \ {0} /\ MinInput \in Nat /\ StatusRows \in Nat /\ Padding \in Nat
    /\ MaxInputPercent \in Nat

Entry == ViewTexts \cup {ClearedText}
Row == (Entry \X Nat \X Nat) \cup {<<>>}

DoublingFunction(f, cap, needed) ==
    f = [k \in 0 .. needed |-> IF k = 0 THEN cap ELSE 2 * f[k - 1]]

LEMMA DoubledEnough ==
    ASSUME NEW cap \in Nat \ {0}, NEW needed \in Nat
    PROVE  View!Doubled(cap, needed) \in Nat \ {0} /\ View!Doubled(cap, needed) >= needed
<1>. DEFINE twice == CHOOSE f : DoublingFunction(f, cap, needed)
            enough == {c \in {twice[k] : k \in 0 .. needed} : c >= needed}
<1>1. View!Doubled(cap, needed) = CHOOSE c \in enough : \A d \in enough : c <= d
  BY Zenon DEF View!Doubled, View!Min, DoublingFunction
<1>2. \E f : DoublingFunction(f, cap, needed)
  <2>. DEFINE step == [p \in (1 .. needed) \X Nat |-> 2 * p[2]]
  <2>1. \A i \in 1 .. needed, v \in Nat : step[<<i, v>>] = 2 * v /\ 2 * v \in Nat
    OBVIOUS
  <2>. HIDE DEF step
  <2>2. \A i \in 1 .. needed, v \in Nat : step[<<i, v>>] \in Nat
    BY <2>1, Zenon
  <2>3. Recursive(Nat, cap, step, needed)
    BY <2>2, Recursion
  <2>4. PICK f \in [0 .. needed -> Nat] : f[0] = cap /\ \A i \in 1 .. needed : f[i] = step[<<i, f[i - 1]>>]
    BY <2>3 DEF Recursive
  <2>5. ASSUME NEW k \in 0 .. needed  PROVE f[k] = IF k = 0 THEN cap ELSE 2 * f[k - 1]
    <3>1. CASE k = 0
      BY <2>4, <3>1
    <3>2. CASE k # 0
      <4>1. k \in 1 .. needed /\ k - 1 \in 0 .. needed
        BY <3>2
      <4>. QED  BY <2>1, <2>4, <3>2, <4>1
    <3>. QED  BY <3>1, <3>2
  <2>6. f = [k \in 0 .. needed |-> f[k]]
    BY <2>4
  <2>7. DoublingFunction(f, cap, needed)
    BY <2>5, <2>6 DEF DoublingFunction
  <2>. QED  BY <2>7
<1>3. DoublingFunction(twice, cap, needed)
  BY <1>2
<1>. HIDE DEF twice
<1>. DEFINE S == {k \in Nat : k \in 0 .. needed => twice[k] \in Nat /\ twice[k] >= k + 1}
<1>4. 0 \in S
  BY <1>3 DEF DoublingFunction
<1>5. ASSUME NEW k \in Nat, k \in S  PROVE k + 1 \in S
  <2>. SUFFICES ASSUME k + 1 \in 0 .. needed  PROVE twice[k + 1] \in Nat /\ twice[k + 1] >= k + 2
    OBVIOUS
  <2>1. k \in 0 .. needed /\ (k + 1) - 1 = k /\ k + 1 # 0
    OBVIOUS
  <2>2. twice[k + 1] = 2 * twice[k]
    BY <1>3, <2>1 DEF DoublingFunction
  <2>3. twice[k] \in Nat /\ twice[k] >= k + 1
    BY <1>5, <2>1
  <2>. QED  BY <2>2, <2>3
<1>. HIDE DEF S
<1>6. \A k \in 0 .. needed : twice[k] \in Nat /\ twice[k] >= k + 1
  <2>1. \A k \in Nat : k \in S
    BY <1>4, <1>5, AllNaturals
  <2>. QED  BY <2>1 DEF S
<1>7. enough \in SUBSET Nat /\ (\A c \in enough : c # 0 /\ c >= needed) /\ enough # {}
  <2>1. needed \in 0 .. needed
    OBVIOUS
  <2>2. twice[needed] \in enough
    BY <1>6, <2>1
  <2>. QED  BY <1>6, <2>2
<1>. HIDE DEF enough
<1>8. \E c \in enough : \A d \in enough : c <= d
  BY <1>7, LeastOf
<1>9. View!Doubled(cap, needed) \in enough
  BY <1>1, <1>8
<1>. QED  BY <1>7, <1>9

LEMMA Quotients ==
    /\ \A x \in Int, y \in Nat \ {0} : x \div y \in Int
    /\ \A x \in Nat, y \in Nat \ {0} : x \div y \in Nat
OBVIOUS

SummingFunction(f, text) ==
    f = [j \in 0 .. Len(text) |-> IF j = 0 THEN 0 ELSE f[j - 1] + text[j]]

LEMMA SizeIsNumber == ASSUME NEW text \in Seq(Nat) PROVE View!Size(text) \in Int
<1>. DEFINE n == Len(text)
            sum == CHOOSE f : SummingFunction(f, text)
            step == [p \in (1 .. n) \X Nat |-> p[2] + text[p[1]]]
<1>1. n \in Nat /\ \A i \in 1 .. n : text[i] \in Nat
  OBVIOUS
<1>2. \A i \in 1 .. n, v \in Nat : step[<<i, v>>] = v + text[i] /\ v + text[i] \in Nat
  BY <1>1
<1>. HIDE DEF step
<1>3. \A i \in 1 .. n, v \in Nat : step[<<i, v>>] \in Nat
  BY <1>2, Zenon
<1>4. Recursive(Nat, 0, step, n)
  BY <1>1, <1>3, Recursion
<1>5. PICK f \in [0 .. n -> Nat] : f[0] = 0 /\ \A i \in 1 .. n : f[i] = step[<<i, f[i - 1]>>]
  BY <1>4 DEF Recursive
<1>6. ASSUME NEW j \in 0 .. n  PROVE f[j] = IF j = 0 THEN 0 ELSE f[j - 1] + text[j]
  <2>1. CASE j = 0
    BY <1>5, <2>1
  <2>2. CASE j # 0
    <3>1. j \in 1 .. n /\ j - 1 \in 0 .. n
      BY <1>1, <2>2
    <3>. QED  BY <1>2, <1>5, <2>2, <3>1
  <2>. QED  BY <2>1, <2>2
<1>7. f = [j \in 0 .. n |-> f[j]]
  BY <1>5
<1>8. SummingFunction(f, text)
  BY <1>6, <1>7 DEF SummingFunction
<1>9. SummingFunction(sum, text)
  BY <1>8
<1>10. View!Size(text) = sum[n] + n - 1
  BY Zenon DEF View!Size, SummingFunction
<1>. HIDE DEF sum
<1>. DEFINE S == {j \in Nat : j \in 0 .. n => sum[j] \in Nat}
<1>11. 0 \in S
  BY <1>9 DEF SummingFunction
<1>12. ASSUME NEW j \in Nat, j \in S  PROVE j + 1 \in S
  <2>. SUFFICES ASSUME j + 1 \in 0 .. n  PROVE sum[j + 1] \in Nat
    OBVIOUS
  <2>1. j \in 0 .. n /\ (j + 1) - 1 = j /\ j + 1 # 0 /\ j + 1 \in 1 .. n
    BY <1>1
  <2>2. sum[j + 1] = sum[j] + text[j + 1]
    BY <1>9, <2>1 DEF SummingFunction
  <2>3. sum[j] \in Nat
    BY <1>12, <2>1
  <2>. QED  BY <1>1, <2>1, <2>2, <2>3
<1>. HIDE DEF S
<1>13. n \in S
  BY <1>1, <1>11, <1>12, AllNaturals
<1>14. sum[n] \in Nat
  BY <1>1, <1>13 DEF S
<1>. QED  BY <1>1, <1>10, <1>14

LEMMA EstimateIsNumber ==
    ASSUME NEW text \in Seq(Nat), padWidth \in Nat \ {0}
    PROVE  View!Estimate(text) \in Int
<1>1. PICK size \in Int : size = View!Size(text)
  BY SizeIsNumber
<1>2. size \div padWidth \in Int
  BY Quotients
<1>. QED  BY <1>1, <1>2 DEF View!Estimate

LEMMA RowsTyped ==
    ASSUME ViewBounds, NEW text \in Entry, NEW w \in Nat \ {0}
    PROVE  View!RowsOf(text, w) \in Seq(Row)
<1>1. text \in Seq(Nat)
  BY DEF ViewBounds, Entry
<1>. DEFINE wrapped(j) == [p \in 1 .. (text[j] \div w) + 1 |-> <<text, j, p>>]
<1>2. ASSUME NEW j \in DOMAIN text  PROVE wrapped(j) \in Seq(Row)
  <2>1. text[j] \in Nat /\ j \in Nat
    BY <1>1
  <2>2. PICK m \in Nat : m = (text[j] \div w) + 1
    BY <2>1, Quotients
  <2>3. \A p \in 1 .. m : <<text, j, p>> \in Row
    BY <2>1 DEF Row
  <2>. QED  BY <2>2, <2>3
<1>3. View!RowsOf(text, w) = View!FlattenSeq([j \in DOMAIN text |-> wrapped(j)])
  BY DEF View!RowsOf
<1>. HIDE DEF wrapped
<1>4. PICK n \in Nat : DOMAIN text = 1 .. n
  BY <1>1
<1>5. [j \in DOMAIN text |-> wrapped(j)] \in Seq(Seq(Row))
  BY <1>2, <1>4
<1>. QED  BY <1>3, <1>5, FlattenTyped, FlattenIs

LEMMA FitTyped ==
    ASSUME NEW all \in Seq(Row), NEW cap \in Nat \ {0}
    PROVE  View!Fit(all, cap) \in Seq(Row) /\ (Len(all) < cap => View!Fit(all, cap) = all)
BY DEF View!Fit

LEMMA TakenOverTyped ==
    ASSUME NEW done \in Seq(Row), NEW cap \in Nat, shown \in Nat
    PROVE  View!TakenOver(done, cap) \in Seq(Row)
<1>1. PICK m \in Nat : m = View!Least(shown, cap)
  BY DEF View!Least
<1>2. \A i \in 1 .. m : (IF i <= Len(done) THEN done[i] ELSE <<>>) \in Row
  <2>1. <<>> \in Row
    BY DEF Row
  <2>. QED  BY <2>1
<1>3. View!TakenOver(done, cap) = [i \in 1 .. m |-> IF i <= Len(done) THEN done[i] ELSE <<>>]
  BY <1>1 DEF View!TakenOver
<1>. HIDE DEF View!TakenOver
<1>. QED  BY <1>2, <1>3

(* The rows of some entries, one entry after the other.                       *)
Wrapped(all, w) == View!FlattenSeq([i \in DOMAIN all |-> View!RowsOf(all[i], w)])

LEMMA WrappedNothing == ASSUME NEW w PROVE Wrapped(<<>>, w) = <<>>
<1>. DEFINE none == [i \in DOMAIN <<>> |-> View!RowsOf(<<>>[i], w)]
<1>1. none = <<>>
  OBVIOUS
<1>2. Len(<<>>) = 0
  OBVIOUS
<1>3. View!FlattenSeq(<<>>) = <<>>
  BY <1>2, FlattenNothing, FlattenIs
<1>. QED  BY <1>1, <1>3 DEF Wrapped

LEMMA WrappedAppend ==
    ASSUME ViewBounds, NEW all \in Seq(Entry), NEW text \in Entry, NEW w \in Nat \ {0}
    PROVE  Wrapped(Append(all, text), w) = Wrapped(all, w) \o View!RowsOf(text, w)
<1>. DEFINE part(e) == View!RowsOf(e, w)
            n == Len(all)
<1>1. \A e \in Entry : part(e) \in Seq(Row)
  BY RowsTyped
<1>2. /\ n \in Nat /\ DOMAIN all = 1 .. n /\ \A i \in 1 .. n : all[i] \in Entry
      /\ DOMAIN Append(all, text) = 1 .. n + 1 /\ Append(all, text)[n + 1] = text
      /\ \A i \in 1 .. n : Append(all, text)[i] = all[i]
  OBVIOUS
<1>3. /\ Wrapped(all, w) = View!FlattenSeq([i \in DOMAIN all |-> part(all[i])])
      /\ Wrapped(Append(all, text), w) =
            View!FlattenSeq([i \in DOMAIN Append(all, text) |-> part(Append(all, text)[i])])
  BY DEF Wrapped
<1>. HIDE DEF part, n
<1>4. [i \in 1 .. n |-> part(all[i])] \in Seq(Seq(Row))
  BY <1>1, <1>2
<1>5. [i \in 1 .. n + 1 |-> part(Append(all, text)[i])] = Append([i \in 1 .. n |-> part(all[i])], part(text))
  <2>1. PICK longer : longer = Append(all, text)
    OBVIOUS
  <2>2. [i \in 1 .. n + 1 |-> part(longer[i])] = Append([i \in 1 .. n |-> part(all[i])], part(text))
    <3>. DEFINE short == [i \in 1 .. n |-> part(all[i])]
    <3>1. /\ Len(short) = n /\ Append(short, part(text)) \in Seq(Seq(Row))
          /\ Len(Append(short, part(text))) = n + 1
          /\ Append(short, part(text))[n + 1] = part(text)
          /\ \A i \in 1 .. n : Append(short, part(text))[i] = short[i]
      <4>1. short \in Seq(Seq(Row)) /\ part(text) \in Seq(Row) /\ Len(short) = n
        BY <1>1, <1>2, <1>4
      <4>. HIDE DEF short
      <4>. QED  BY <4>1
    <3>2. \A i \in 1 .. n : short[i] = part(all[i])
      OBVIOUS
    <3>. HIDE DEF short
    <3>3. \A i \in 1 .. n + 1 : Append(short, part(text))[i] = part(longer[i])
      <4>1. \A i \in 1 .. n + 1 : i = n + 1 \/ i \in 1 .. n
        BY <1>2
      <4>. QED  BY <1>2, <2>1, <3>1, <3>2, <4>1
    <3>4. PICK appended \in Seq(Seq(Row)) : appended = Append(short, part(text))
      BY <3>1
    <3>5. \A i \in 1 .. n + 1 : appended[i] = part(longer[i])
      BY <3>3, <3>4, Zenon
    <3>6. DOMAIN appended = 1 .. n + 1 /\ appended = [i \in DOMAIN appended |-> appended[i]]
      <4>1. Len(appended) = n + 1
        BY <3>1, <3>4, Zenon
      <4>. QED  BY <4>1
    <3>7. appended = [i \in 1 .. n + 1 |-> part(longer[i])]
      BY <3>5, <3>6, Zenon
    <3>. QED  BY <3>4, <3>7 DEF short
  <2>. QED  BY <2>1, <2>2
<1>6. part(text) \in Seq(Row)
  BY <1>1
<1>7. View!FlattenSeq(Append([i \in 1 .. n |-> part(all[i])], part(text)))
        = View!FlattenSeq([i \in 1 .. n |-> part(all[i])]) \o part(text)
  BY <1>4, <1>6, FlattenAppend, FlattenIs
<1>8. part(text) = View!RowsOf(text, w)
  BY DEF part
<1>. QED  BY <1>2, <1>3, <1>5, <1>7, <1>8

Rebuilding == [rows : Seq(Row), cap : Nat \ {0}, lost : BOOLEAN, stopped : BOOLEAN]

(* What was rebuilt of the pad is what some entries show, unless rows were    *)
(* lost.                                                                      *)
Shows(at, all, w) == ~at.lost => ~at.stopped /\ at.rows = Wrapped(all, w)

LEMMA PutShows ==
    ASSUME ViewBounds, NEW at \in Rebuilding, NEW text \in Entry, NEW w \in Nat \ {0},
           NEW done \in Seq(Row), NEW cap \in Nat \ {0}, NEW bad \in BOOLEAN,
           NEW all \in Seq(Entry)
    PROVE  /\ View!Put(at, text, w, done, cap, bad) \in Rebuilding
           /\ (~bad => ~at.stopped /\ done = Wrapped(all, w)) =>
                 Shows(View!Put(at, text, w, done, cap, bad), Append(all, text), w)
<1>1. PICK more \in Seq(Row) : more = View!RowsOf(text, w)
  BY RowsTyped
<1>2. PICK joined \in Seq(Row) : joined = done \o more
  BY ConcatProperties
<1>3. PICK fit \in Seq(Row) : fit = View!Fit(joined, cap) /\ (Len(joined) < cap => fit = joined)
  BY FitTyped
<1>4. PICK spilled \in BOOLEAN : spilled = (bad \/ Len(joined) >= cap)
  OBVIOUS
<1>5. View!Put(at, text, w, done, cap, bad) = [at EXCEPT !.rows = fit, !.cap = cap, !.lost = spilled]
  BY <1>1, <1>2, <1>3, <1>4 DEF View!Put
<1>6. PICK new : new = [at EXCEPT !.rows = fit, !.cap = cap, !.lost = spilled]
  OBVIOUS
<1>7. /\ new \in Rebuilding /\ new.rows = fit /\ new.lost = spilled /\ new.stopped = at.stopped
  BY <1>6 DEF Rebuilding
<1>8. ASSUME ~spilled, ~bad => ~at.stopped /\ done = Wrapped(all, w)
      PROVE  ~at.stopped /\ fit = Wrapped(Append(all, text), w)
  <2>1. ~bad /\ ~(Len(joined) >= cap)
    BY <1>4, <1>8, Zenon
  <2>2. Len(joined) < cap
    BY <2>1
  <2>. QED  BY <1>1, <1>2, <1>3, <1>8, <2>1, <2>2, WrappedAppend
<1>. QED  BY <1>5, <1>6, <1>7, <1>8 DEF Shows

LEMMA RewriteShows ==
    ASSUME ViewBounds, shown \in Nat, NEW at \in Rebuilding, NEW text \in Entry,
           NEW w \in Nat \ {0}, NEW grows \in BOOLEAN, NEW all \in Seq(Entry)
    PROVE  /\ View!Rewrite(at, text, w, grows) \in Rebuilding
           /\ Shows(at, all, w) => Shows(View!Rewrite(at, text, w, grows), Append(all, text), w)
<1>1. at.rows \in Seq(Row) /\ at.cap \in Nat \ {0} /\ at.lost \in BOOLEAN /\ at.stopped \in BOOLEAN
  BY DEF Rebuilding
<1>2. CASE at.stopped
  <2>1. View!Rewrite(at, text, w, grows) = at
    BY <1>2 DEF View!Rewrite
  <2>. QED  BY <1>2, <2>1 DEF Shows
<1>3. CASE ~at.stopped /\ Len(at.rows) < at.cap - 1
  <2>1. View!Rewrite(at, text, w, grows) = View!Put(at, text, w, at.rows, at.cap, at.lost)
    BY <1>3 DEF View!Rewrite
  <2>2. Shows(at, all, w) => (~at.lost => ~at.stopped /\ at.rows = Wrapped(all, w))
    BY DEF Shows
  <2>. QED  BY <1>1, <2>1, <2>2, PutShows
<1>4. CASE ~at.stopped /\ ~(Len(at.rows) < at.cap - 1) /\ ~grows
  <2>1. View!Rewrite(at, text, w, grows) = [at EXCEPT !.stopped = TRUE, !.lost = TRUE]
    BY <1>4 DEF View!Rewrite
  <2>2. [at EXCEPT !.stopped = TRUE, !.lost = TRUE] \in Rebuilding
        /\ [at EXCEPT !.stopped = TRUE, !.lost = TRUE].lost
    BY DEF Rebuilding
  <2>. QED  BY <2>1, <2>2 DEF Shows
<1>5. CASE ~at.stopped /\ ~(Len(at.rows) < at.cap - 1) /\ grows
  <2>1. PICK over \in Seq(Row) : over = View!TakenOver(at.rows, at.cap)
    BY <1>1, TakenOverTyped
  <2>2. PICK bad \in BOOLEAN : bad = (at.lost \/ over # at.rows)
    OBVIOUS
  <2>3. View!Rewrite(at, text, w, grows) = View!Put(at, text, w, over, 2 * at.cap, bad)
    BY <1>5, <2>1, <2>2 DEF View!Rewrite
  <2>4. 2 * at.cap \in Nat \ {0}
    BY <1>1
  <2>5. Shows(at, all, w) => (~bad => ~at.stopped /\ over = Wrapped(all, w))
    BY <1>1, <2>2 DEF Shows
  <2>. QED  BY <2>1, <2>3, <2>4, <2>5, PutShows
<1>. QED  BY <1>1, <1>2, <1>3, <1>4, <1>5

Started(cap) == [rows |-> <<>>, cap |-> cap, lost |-> FALSE, stopped |-> FALSE]

RebuildingFunction(f, w, cap, grows) ==
    f = [i \in 0 .. Len(entries) |->
            IF i = 0 THEN Started(cap) ELSE View!Rewrite(f[i - 1], entries[i], w, grows)]

LEMMA StartedShows ==
    ASSUME NEW cap \in Nat \ {0}, NEW w
    PROVE  Started(cap) \in Rebuilding /\ Shows(Started(cap), <<>>, w)
<1>1. <<>> \in Seq(Row) /\ Wrapped(<<>>, w) = <<>>
  BY WrappedNothing
<1>. QED  BY <1>1 DEF Started, Rebuilding, Shows

LEMMA RebuiltShows ==
    ASSUME ViewBounds, shown \in Nat, entries \in Seq(Entry),
           NEW w \in Nat \ {0}, NEW cap \in Nat \ {0}, NEW grows \in BOOLEAN
    PROVE  View!Rebuilt(w, cap, grows) \in Rebuilding /\ Shows(View!Rebuilt(w, cap, grows), entries, w)
<1>. DEFINE n == Len(entries)
            after == CHOOSE f : RebuildingFunction(f, w, cap, grows)
            step == [p \in (1 .. n) \X Rebuilding |-> View!Rewrite(p[2], entries[p[1]], w, grows)]
<1>1. n \in Nat /\ \A i \in 1 .. n : entries[i] \in Entry
  OBVIOUS
<1>2. \A i \in 1 .. n, v \in Rebuilding : step[<<i, v>>] = View!Rewrite(v, entries[i], w, grows)
  OBVIOUS
<1>3. \A i \in 1 .. n, v \in Rebuilding : step[<<i, v>>] \in Rebuilding
  <2>. SUFFICES ASSUME NEW i \in 1 .. n, NEW v \in Rebuilding
                PROVE  View!Rewrite(v, entries[i], w, grows) \in Rebuilding
    BY <1>2
  <2>1. PICK text \in Entry : text = entries[i]
    BY <1>1
  <2>. QED  BY <2>1, RewriteShows, <<>> \in Seq(Entry)
<1>. HIDE DEF step
<1>4. Started(cap) \in Rebuilding /\ Shows(Started(cap), <<>>, w)
  BY StartedShows
<1>5. \E f : RebuildingFunction(f, w, cap, grows)
  <2>. HIDE DEF n
  <2>1. Recursive(Rebuilding, Started(cap), step, n)
    BY <1>1, <1>3, <1>4, Recursion
  <2>2. PICK f \in [0 .. n -> Rebuilding] :
           f[0] = Started(cap) /\ \A i \in 1 .. n : f[i] = step[<<i, f[i - 1]>>]
    BY <2>1 DEF Recursive
  <2>3. ASSUME NEW i \in 0 .. n
        PROVE  f[i] = IF i = 0 THEN Started(cap) ELSE View!Rewrite(f[i - 1], entries[i], w, grows)
    <3>1. CASE i = 0
      BY <2>2, <3>1
    <3>2. CASE i # 0
      <4>1. i \in 1 .. n /\ i - 1 \in 0 .. n
        BY <1>1, <3>2
      <4>. QED  BY <1>2, <2>2, <3>2, <4>1
    <3>. QED  BY <3>1, <3>2
  <2>4. f = [i \in 0 .. n |-> f[i]]
    BY <2>2
  <2>5. RebuildingFunction(f, w, cap, grows)
    BY <2>3, <2>4 DEF RebuildingFunction, n
  <2>. QED  BY <2>5
<1>6. RebuildingFunction(after, w, cap, grows)
  BY <1>5
<1>7. View!Rebuilt(w, cap, grows) = after[n]
  BY Zenon DEF View!Rebuilt, RebuildingFunction, Started
<1>. HIDE DEF after
<1>8. /\ after[0] = Started(cap)
      /\ \A i \in 0 .. n : i # 0 => after[i] = View!Rewrite(after[i - 1], entries[i], w, grows)
  BY <1>1, <1>6 DEF RebuildingFunction
<1>. DEFINE first(i) == SubSeq(entries, 1, i)
            S == {i \in Nat : i \in 0 .. n => after[i] \in Rebuilding /\ Shows(after[i], first(i), w)}
<1>9. 0 \in S
  <2>1. first(0) = <<>>
    OBVIOUS
  <2>. HIDE DEF first
  <2>. QED  BY <1>4, <1>8, <2>1
<1>10. ASSUME NEW i \in Nat, i \in S  PROVE i + 1 \in S
  <2>. SUFFICES ASSUME i + 1 \in 0 .. n
                PROVE  after[i + 1] \in Rebuilding /\ Shows(after[i + 1], first(i + 1), w)
    OBVIOUS
  <2>1. i \in 0 .. n /\ (i + 1) - 1 = i /\ i + 1 # 0 /\ i + 1 \in 1 .. n
    BY <1>1
  <2>2. after[i] \in Rebuilding /\ Shows(after[i], first(i), w)
    BY <1>10, <2>1
  <2>3. PICK text \in Entry : text = entries[i + 1]
    BY <1>1, <2>1
  <2>4. first(i) \in Seq(Entry) /\ first(i + 1) = Append(first(i), text)
    BY <2>1, <2>3
  <2>5. after[i + 1] = View!Rewrite(after[i], text, w, grows)
    BY <1>8, <2>1, <2>3
  <2>. HIDE DEF first
  <2>. QED  BY <2>2, <2>4, <2>5, RewriteShows
<1>11. first(n) = entries /\ n \in 0 .. n
  OBVIOUS
<1>. HIDE DEF S, first, n
<1>12. n \in S
  BY <1>1, <1>9, <1>10, AllNaturals
<1>. QED  BY <1>1, <1>7, <1>11, <1>12 DEF S

LayoutTypes ==
    /\ height \in Nat /\ width \in Nat \ {0} /\ input \in Nat /\ maxInput \in Nat
    /\ status \in Nat /\ viewport \in Nat /\ View!FitsScreen

PadTypes ==
    /\ entries \in Seq(Entry) /\ Len(entries) <= MaxEntries
    /\ rows \in Seq(Row) /\ shown = Len(rows)
    /\ padCapacity \in Nat \ {0} /\ padWidth \in Nat \ {0}

KeyTypes ==
    /\ mode \in {"insert", "normal", "command"} /\ lastKey \in {"none", "g"}
    /\ lost \in BOOLEAN /\ stale \in BOOLEAN

ScrollTypes == scroll \in Nat /\ View!ScrollInRange

PadShows == ~lost /\ ~stale => rows = Wrapped(entries, padWidth) /\ padWidth = width

ViewTypes ==
    /\ LayoutTypes /\ PadTypes /\ KeyTypes /\ ScrollTypes
    /\ PadShows

(* Whatever the screen, the windows share it without overlap.                 *)
Fits(h, fitted, bar, port) ==
    fitted \in Nat /\ bar \in Nat /\ port \in Nat /\ port + bar + fitted <= h

LEMMA WindowsFit ==
    ASSUME ViewBounds, NEW h \in Nat, NEW fitted \in Nat, fitted <= h, NEW available, NEW bar, NEW port,
           available = View!Most(0, h - fitted - Padding),
           bar = (IF available < MinConv + StatusRows THEN 0 ELSE StatusRows),
           port = (IF available - bar >= 1 THEN available - bar ELSE View!Least(1, available))
    PROVE  Fits(h, fitted, bar, port)
<1>1. available \in Nat /\ (available = 0 \/ available <= h - fitted)
  BY DEF View!Most, ViewBounds
<1>2. CASE available < MinConv + StatusRows
  <2>1. bar = 0
    BY <1>2
  <2>2. port = available
    BY <1>1, <2>1 DEF View!Least
  <2>. QED  BY <1>1, <2>1, <2>2 DEF Fits
<1>3. CASE ~(available < MinConv + StatusRows)
  <2>1. bar = StatusRows /\ available - bar >= 1
    BY <1>1, <1>3 DEF ViewBounds
  <2>. QED  BY <1>1, <2>1 DEF Fits, ViewBounds
<1>. QED  BY <1>2, <1>3

LEMMA InputFits ==
    ASSUME NEW h \in Nat, NEW wanted \in Nat
    PROVE  View!InputFitted(h, wanted) \in Nat /\ View!InputFitted(h, wanted) <= h
BY DEF View!InputFitted

LEMMA MaxInputNumber == ASSUME ViewBounds, NEW h \in Nat PROVE View!MaxInput(h) \in Nat
<1>1. PICK m \in Nat : m = h * MaxInputPercent
  BY DEF ViewBounds
<1>2. PICK q \in Nat : q = m \div 100
  BY Quotients
<1>3. View!MaxInput(h) = View!Most(q, MinInput)
  BY <1>1, <1>2 DEF View!MaxInput
<1>. QED  BY <1>3 DEF View!Most, ViewBounds

LEMMA LayoutFits ==
    ASSUME ViewBounds, NEW h \in Nat, NEW wanted \in Nat, View!Layout(h, wanted)
    PROVE  height' = h /\ Fits(height', input', status', viewport')
<1>1. PICK fitted \in Nat : fitted = View!InputFitted(h, wanted) /\ fitted <= h
  BY InputFits
<1>2. PICK available : available = View!Most(0, h - fitted - Padding)
  OBVIOUS
<1>3. /\ height' = h /\ input' = fitted
      /\ status' = IF available < MinConv + StatusRows THEN 0 ELSE StatusRows
      /\ viewport' = IF available - status' >= 1 THEN available - status'
                     ELSE View!Least(1, available)
  BY <1>1, <1>2, Zenon DEF View!Layout
<1>. QED  BY <1>1, <1>2, <1>3, WindowsFit

LEMMA ResizedTypes ==
    ASSUME ViewBounds, LayoutTypes, NEW s \in Screens, View!Layout(s.height, input),
           width' = s.width, maxInput' = View!MaxInput(s.height)
    PROVE  LayoutTypes'
<1>1. s.height \in Nat /\ s.width \in Nat \ {0}
  BY DEF ViewBounds
<1>2. input \in Nat
  BY DEF LayoutTypes
<1>3. height' = s.height /\ Fits(height', input', status', viewport')
  BY <1>1, <1>2, LayoutFits
<1>4. maxInput' \in Nat
  BY <1>1, MaxInputNumber
<1>. QED  BY <1>1, <1>3, <1>4 DEF LayoutTypes, Fits, View!FitsScreen

LEMMA Scrolls ==
    ASSUME NEW lines \in Nat, NEW port \in Nat, NEW offset \in Nat
    PROVE  /\ View!MaxScroll(lines, port) \in Nat /\ lines <= View!MaxScroll(lines, port) + port
           /\ View!Least(offset, View!MaxScroll(lines, port)) \in Nat
           /\ View!Least(offset, View!MaxScroll(lines, port)) <= View!MaxScroll(lines, port)
           /\ View!Refreshed(offset, lines, port) \in Nat
           /\ port > 0 => View!Refreshed(offset, lines, port) <= View!MaxScroll(lines, port)
BY DEF View!MaxScroll, View!Most, View!Least, View!Refreshed

LEMMA AddToKeeps ==
    ASSUME ViewBounds, ViewTypes, NEW before \in Seq(Entry), Len(before) < MaxEntries,
           NEW there \in Seq(Row), NEW text \in Entry, View!AddTo(before, there, text),
           ~lost /\ ~stale => there = Wrapped(before, padWidth),
           UNCHANGED View!layout, UNCHANGED stale
    PROVE  /\ PadTypes' /\ ScrollTypes' /\ PadShows' /\ LayoutTypes'
           /\ lost' \in BOOLEAN
<1>1. /\ padWidth \in Nat \ {0} /\ padCapacity \in Nat \ {0} /\ width \in Nat \ {0}
      /\ viewport \in Nat /\ scroll \in Nat /\ lost \in BOOLEAN
  BY DEF ViewTypes, PadTypes, LayoutTypes, ScrollTypes, KeyTypes
<1>2. LayoutTypes' /\ viewport' = viewport /\ width' = width
  BY DEF ViewTypes, LayoutTypes, View!layout, View!FitsScreen
<1>3. text \in Seq(Nat)
  BY DEF ViewBounds, Entry
<1>4. PICK needed \in Int : needed = Len(there) + View!Estimate(text) + Slack
  BY <1>1, <1>3, EstimateIsNumber DEF ViewBounds
<1>5. PICK grows \in BOOLEAN :
        LET w == IF grows THEN width ELSE padWidth
            cap == IF grows THEN View!Doubled(padCapacity, needed) ELSE padCapacity
            all == there \o View!RowsOf(text, w)
        IN  /\ grows => needed > padCapacity
            /\ entries' = Append(before, text)
            /\ rows' = View!Fit(all, cap) /\ shown' = Len(rows')
            /\ padCapacity' = cap /\ padWidth' = w
            /\ lost' = (lost \/ Len(all) >= cap)
            /\ scroll' = IF mode = "insert" THEN View!MaxScroll(shown', viewport)
                         ELSE View!Refreshed(scroll, shown', viewport)
  <2>1. PICK grows \in (IF needed > padCapacity THEN BOOLEAN ELSE {FALSE}) :
        LET w == IF grows THEN width ELSE padWidth
            cap == IF grows THEN View!Doubled(padCapacity, needed) ELSE padCapacity
            all == there \o View!RowsOf(text, w)
        IN  /\ entries' = Append(before, text)
            /\ rows' = View!Fit(all, cap) /\ shown' = Len(rows')
            /\ padCapacity' = cap /\ padWidth' = w
            /\ lost' = (lost \/ Len(all) >= cap)
            /\ scroll' = IF mode = "insert" THEN View!MaxScroll(shown', viewport)
                         ELSE View!Refreshed(scroll, shown', viewport)
    BY <1>4, Zenon DEF View!AddTo
  <2>2. grows \in BOOLEAN /\ (grows => needed > padCapacity)
    <3>1. CASE needed > padCapacity
      BY <3>1
    <3>2. CASE ~(needed > padCapacity)
      BY <3>2
    <3>. QED  BY <3>1, <3>2
  <2>. QED  BY <2>1, <2>2, Zenon
<1>6. PICK w \in Nat \ {0} : w = (IF grows THEN width ELSE padWidth) /\ padWidth' = w
  BY <1>1, <1>5
<1>7. PICK cap \in Nat \ {0} : padCapacity' = cap
        /\ cap = (IF grows THEN View!Doubled(padCapacity, needed) ELSE padCapacity)
  <2>1. CASE grows
    <3>1. needed \in Nat
      BY <1>1, <1>4, <1>5, <2>1
    <3>2. View!Doubled(padCapacity, needed) \in Nat \ {0}
      BY <1>1, <3>1, DoubledEnough
    <3>3. padCapacity' = IF grows THEN View!Doubled(padCapacity, needed) ELSE padCapacity
      BY <1>5, Zenon
    <3>. QED  BY <2>1, <3>2, <3>3, Zenon
  <2>2. CASE ~grows
    <3>1. padCapacity' = IF grows THEN View!Doubled(padCapacity, needed) ELSE padCapacity
      BY <1>5, Zenon
    <3>. QED  BY <1>1, <2>2, <3>1, Zenon
  <2>. QED  BY <2>1, <2>2
<1>8. PICK more \in Seq(Row) : more = View!RowsOf(text, w)
  BY RowsTyped
<1>9. PICK all \in Seq(Row) : all = there \o more
  BY ConcatProperties
<1>10. /\ entries' = Append(before, text) /\ rows' = View!Fit(all, cap) /\ shown' = Len(rows')
       /\ lost' = (lost \/ Len(all) >= cap)
       /\ scroll' = IF mode = "insert" THEN View!MaxScroll(shown', viewport)
                    ELSE View!Refreshed(scroll, shown', viewport)
  BY <1>5, <1>6, <1>7, <1>8, <1>9, Zenon
<1>11. rows' \in Seq(Row) /\ (Len(all) < cap => rows' = all)
  BY <1>10, FitTyped
<1>12. shown' \in Nat
  BY <1>10, <1>11
<1>13. PadTypes'
  <2>1. entries' \in Seq(Entry) /\ Len(entries') <= MaxEntries
    BY <1>10 DEF ViewBounds
  <2>. QED  BY <1>6, <1>7, <1>10, <1>11, <2>1 DEF PadTypes
<1>14. /\ scroll' \in Nat
       /\ viewport > 0 => scroll' <= View!MaxScroll(shown', viewport)
  <2>1. CASE mode = "insert"
    <3>1. scroll' = View!MaxScroll(shown', viewport)
      BY <1>10, <2>1
    <3>2. View!MaxScroll(shown', viewport) \in Nat
      BY <1>1, <1>12, Scrolls
    <3>. QED  BY <3>1, <3>2
  <2>2. CASE mode # "insert"
    BY <1>1, <1>10, <1>12, <2>2, Scrolls
  <2>. QED  BY <2>1, <2>2
<1>15. ScrollTypes'
  BY <1>2, <1>14 DEF ScrollTypes, View!ScrollInRange
<1>16. PadShows'
  <2>. SUFFICES ASSUME ~lost', ~stale'  PROVE rows' = Wrapped(entries', padWidth') /\ padWidth' = width'
    BY DEF PadShows
  <2>1. ~lost /\ ~(Len(all) >= cap) /\ ~stale
    BY <1>10, Zenon
  <2>2. padWidth = width /\ there = Wrapped(before, w) /\ w = width
    <3>1. padWidth = width
      BY <2>1 DEF ViewTypes, PadShows
    <3>. QED  BY <1>6, <2>1, <3>1
  <2>3. Len(all) < cap
    BY <2>1
  <2>4. rows' = all
    BY <1>11, <2>3
  <2>. QED  BY <1>2, <1>6, <1>8, <1>9, <1>10, <2>2, <2>4, WrappedAppend
<1>17. lost' \in BOOLEAN
  BY <1>10
<1>. QED  BY <1>2, <1>13, <1>14, <1>15, <1>16, <1>17

LEMMA AddLineKeeps == ASSUME ViewBounds, ViewTypes, View!AddLine PROVE ViewTypes'
<1>1. PICK text \in ViewTexts : View!AddTo(entries, rows, text)
  BY DEF View!AddLine
<1>2. /\ text \in Entry /\ entries \in Seq(Entry) /\ rows \in Seq(Row) /\ Len(entries) < MaxEntries
      /\ ~lost /\ ~stale => rows = Wrapped(entries, padWidth)
      /\ UNCHANGED View!layout /\ UNCHANGED stale /\ UNCHANGED <<mode, lastKey>>
  BY DEF View!AddLine, Entry, ViewTypes, PadTypes, PadShows
<1>3. /\ PadTypes' /\ ScrollTypes' /\ PadShows' /\ LayoutTypes'
      /\ lost' \in BOOLEAN
  BY <1>1, <1>2, AddToKeeps
<1>. QED  BY <1>2, <1>3 DEF ViewTypes, KeyTypes

LEMMA UnknownCommandKeeps == ASSUME ViewBounds, ViewTypes, View!UnknownCommand PROVE ViewTypes'
<1>1. PICK text \in ViewTexts : View!AddTo(entries, rows, text)
  BY DEF View!UnknownCommand
<1>2. /\ text \in Entry /\ entries \in Seq(Entry) /\ rows \in Seq(Row) /\ Len(entries) < MaxEntries
      /\ ~lost /\ ~stale => rows = Wrapped(entries, padWidth)
      /\ UNCHANGED View!layout /\ UNCHANGED stale /\ mode' = "normal" /\ UNCHANGED lastKey
  BY DEF View!UnknownCommand, Entry, ViewTypes, PadTypes, PadShows
<1>3. /\ PadTypes' /\ ScrollTypes' /\ PadShows' /\ LayoutTypes'
      /\ lost' \in BOOLEAN
  BY <1>1, <1>2, AddToKeeps
<1>. QED  BY <1>2, <1>3 DEF ViewTypes, KeyTypes

LEMMA ClearKeeps == ASSUME ViewBounds, ViewTypes, View!Clear PROVE ViewTypes'
<1>1. UNCHANGED View!layout /\ UNCHANGED stale /\ UNCHANGED <<mode, lastKey>>
  BY DEF View!Clear
<1>2. <<>> \in Seq(Entry) /\ <<>> \in Seq(Row) /\ Len(<<>>) = 0
  OBVIOUS
<1>3. Wrapped(<<>>, padWidth) = <<>>
  BY WrappedNothing
<1>4. CASE View!AddTo(<<>>, <<>>, ClearedText)
  <2>1. ClearedText \in Entry
    BY DEF Entry
  <2>2. Len(<<>>) < MaxEntries
    BY <1>2 DEF ViewBounds
  <2>3. /\ PadTypes' /\ ScrollTypes' /\ PadShows' /\ LayoutTypes'
        /\ lost' \in BOOLEAN
    BY <1>1, <1>2, <1>3, <1>4, <2>1, <2>2, AddToKeeps
  <2>. QED  BY <1>1, <2>3 DEF ViewTypes, KeyTypes
<1>5. CASE /\ entries' = <<>> /\ rows' = <<>> /\ shown' = 0
           /\ scroll' = View!Refreshed(scroll, 0, viewport)
           /\ UNCHANGED <<padCapacity, padWidth, lost>>
  <2>1. LayoutTypes' /\ UNCHANGED <<viewport, width>>
    BY <1>1 DEF ViewTypes, LayoutTypes, View!layout, View!FitsScreen
  <2>2. PadTypes'
    BY <1>2, <1>5 DEF ViewTypes, PadTypes, ViewBounds
  <2>3. KeyTypes'
    BY <1>1, <1>5 DEF ViewTypes, KeyTypes
  <2>4. ScrollTypes'
    <3>1. scroll \in Nat /\ viewport \in Nat
      BY DEF ViewTypes, ScrollTypes, LayoutTypes
    <3>. QED  BY <1>5, <2>1, <3>1, Scrolls DEF ScrollTypes, View!ScrollInRange
  <2>5. PadShows'
    <3>1. rows' = Wrapped(entries', padWidth')
      BY <1>5, WrappedNothing
    <3>. QED  BY <1>1, <1>5, <2>1, <3>1 DEF ViewTypes, PadShows
  <2>. QED  BY <1>5, <2>1, <2>2, <2>3, <2>4, <2>5 DEF ViewTypes
<1>. QED  BY <1>4, <1>5 DEF View!Clear

LEMMA ResizeKeeps == ASSUME ViewBounds, ViewTypes, View!Resize PROVE ViewTypes'
<1>1. PICK s \in Screens, grows \in BOOLEAN :
        LET needed == 2 * Len(entries) + Slack
            cap == IF needed > padCapacity THEN View!Doubled(padCapacity, needed) ELSE padCapacity
            new == View!Rebuilt(s.width, cap, grows)
        IN  /\ needed > padCapacity => grows
            /\ View!Layout(s.height, input) /\ width' = s.width
            /\ maxInput' = View!MaxInput(s.height)
            /\ rows' = new.rows /\ shown' = Len(new.rows)
            /\ padCapacity' = new.cap /\ padWidth' = s.width
            /\ lost' = new.lost /\ stale' = FALSE
            /\ scroll' = View!Least(scroll, View!MaxScroll(shown', viewport'))
            /\ UNCHANGED <<entries, mode, lastKey>>
  BY Zenon DEF View!Resize
<1>2. /\ entries \in Seq(Entry) /\ shown \in Nat /\ padCapacity \in Nat \ {0} /\ scroll \in Nat
      /\ Len(entries) <= MaxEntries /\ s.width \in Nat \ {0}
  BY DEF ViewTypes, PadTypes, ScrollTypes, ViewBounds
<1>3. PICK needed \in Nat : needed = 2 * Len(entries) + Slack
  BY <1>2 DEF ViewBounds
<1>4. PICK cap \in Nat \ {0} :
        cap = IF needed > padCapacity THEN View!Doubled(padCapacity, needed) ELSE padCapacity
  <2>1. View!Doubled(padCapacity, needed) \in Nat \ {0}
    BY <1>2, DoubledEnough
  <2>. QED  BY <1>2, <2>1
<1>5. PICK new \in Rebuilding : new = View!Rebuilt(s.width, cap, grows) /\ Shows(new, entries, s.width)
  BY <1>2, RebuiltShows
<1>6. /\ View!Layout(s.height, input) /\ width' = s.width /\ maxInput' = View!MaxInput(s.height)
      /\ rows' = new.rows /\ shown' = Len(new.rows) /\ padCapacity' = new.cap /\ padWidth' = s.width
      /\ lost' = new.lost /\ stale' = FALSE
      /\ scroll' = View!Least(scroll, View!MaxScroll(shown', viewport'))
      /\ UNCHANGED <<entries, mode, lastKey>>
  BY <1>1, <1>3, <1>4, <1>5, Zenon
<1>7. new.rows \in Seq(Row) /\ new.cap \in Nat \ {0} /\ new.lost \in BOOLEAN
  BY DEF Rebuilding
<1>8. LayoutTypes'
  BY <1>6, ResizedTypes DEF ViewTypes
<1>9. PadTypes'
  BY <1>2, <1>6, <1>7 DEF PadTypes
<1>10. KeyTypes'
  BY <1>6, <1>7 DEF ViewTypes, KeyTypes
<1>11. ScrollTypes'
  <2>1. shown' \in Nat /\ viewport' \in Nat
    BY <1>6, <1>7, <1>8 DEF LayoutTypes
  <2>. QED  BY <1>2, <1>6, <2>1, Scrolls DEF ScrollTypes, View!ScrollInRange
<1>12. PadShows'
  BY <1>5, <1>6 DEF PadShows, Shows
<1>. QED  BY <1>6, <1>8, <1>9, <1>10, <1>11, <1>12 DEF ViewTypes

LEMMA StaleKeeps ==
    ASSUME ViewBounds, ViewTypes, View!ResizeFails \/ View!RebuildFails
    PROVE  ViewTypes'
<1>1. PICK s \in Screens :
        /\ View!Layout(s.height, input) /\ width' = s.width /\ maxInput' = View!MaxInput(s.height)
        /\ scroll' = 0 /\ stale' = TRUE /\ padWidth' \in {padWidth, s.width}
        /\ UNCHANGED <<entries, rows, padCapacity, shown, mode, lastKey, lost>>
  BY DEF View!ResizeFails, View!RebuildFails, View!pad
<1>2. s.width \in Nat \ {0}
  BY DEF ViewBounds
<1>3. LayoutTypes'
  BY <1>1, ResizedTypes DEF ViewTypes
<1>4. PadTypes' /\ KeyTypes'
  BY <1>1, <1>2 DEF ViewTypes, PadTypes, KeyTypes
<1>5. ScrollTypes'
  <2>1. shown' \in Nat /\ viewport' \in Nat
    BY <1>3, <1>4 DEF LayoutTypes, PadTypes
  <2>2. View!MaxScroll(shown', viewport') \in Nat
    BY <2>1, Scrolls
  <2>. QED  BY <1>1, <2>2 DEF ScrollTypes, View!ScrollInRange
<1>. QED  BY <1>1, <1>3, <1>4, <1>5 DEF ViewTypes, PadShows

LEMMA ResizeInputKeeps == ASSUME ViewBounds, ViewTypes, View!ResizeInput PROVE ViewTypes'
<1>1. PICK wanted \in MinInput .. maxInput :
        /\ View!Layout(height, wanted)
        /\ scroll' = View!Least(scroll, View!MaxScroll(shown, viewport'))
        /\ UNCHANGED <<width, maxInput, entries, rows, padWidth, padCapacity, shown, mode, lastKey,
                       lost, stale>>
  BY DEF View!ResizeInput, View!pad
<1>2. wanted \in Nat /\ height \in Nat /\ scroll \in Nat
  BY DEF ViewTypes, LayoutTypes, ScrollTypes, ViewBounds
<1>3. height' = height /\ Fits(height', input', status', viewport')
  BY <1>1, <1>2, LayoutFits
<1>4. LayoutTypes'
  BY <1>1, <1>3 DEF ViewTypes, LayoutTypes, Fits, View!FitsScreen
<1>5. PadTypes' /\ KeyTypes' /\ PadShows'
  BY <1>1 DEF ViewTypes, PadTypes, KeyTypes, PadShows
<1>6. ScrollTypes'
  <2>1. shown \in Nat /\ viewport' \in Nat /\ shown' = shown
    BY <1>1, <1>4 DEF ViewTypes, PadTypes, LayoutTypes
  <2>. QED  BY <1>1, <1>2, <2>1, Scrolls DEF ScrollTypes, View!ScrollInRange
<1>. QED  BY <1>1, <1>4, <1>5, <1>6 DEF ViewTypes

(* The keys that move the view or change the mode.                            *)
LEMMA KeyKeeps ==
    ASSUME ViewBounds, ViewTypes, View!Quiet, mode' \in {"insert", "normal", "command"},
           lastKey' \in {"none", "g"},
           scroll' \in Nat /\ (viewport > 0 => scroll' <= View!MaxScroll(shown, viewport))
    PROVE  ViewTypes'
<1>1. LayoutTypes' /\ PadTypes' /\ PadShows' /\ KeyTypes'
  BY DEF ViewTypes, LayoutTypes, PadTypes, PadShows, KeyTypes, View!Quiet, View!layout, View!pad,
     View!FitsScreen
<1>2. UNCHANGED <<shown, viewport, padCapacity>>
  BY DEF View!Quiet, View!layout, View!pad
<1>3. ScrollTypes'
  BY <1>2 DEF ScrollTypes, View!ScrollInRange
<1>. QED  BY <1>1, <1>2, <1>3 DEF ViewTypes

LEMMA KeysKeep ==
    ASSUME ViewBounds, ViewTypes,
           View!Scroll \/ View!PressG \/ View!GoToBottom \/ View!SwitchMode
    PROVE  ViewTypes'
<1>1. /\ shown \in Nat /\ viewport \in Nat /\ scroll \in Nat /\ padCapacity \in Nat
      /\ viewport > 0 => scroll <= View!MaxScroll(shown, viewport)
      /\ mode \in {"insert", "normal", "command"} /\ lastKey \in {"none", "g"}
  BY DEF ViewTypes, PadTypes, LayoutTypes, ScrollTypes, KeyTypes, View!ScrollInRange
<1>2. CASE View!Scroll
  <2>1. PICK jump \in View!Jumps \cup {1, -1, 10, -10} :
           scroll' = View!Least(View!Most(0, scroll + jump), View!MaxScroll(shown, viewport))
    BY <1>2 DEF View!Scroll
  <2>2. jump \in Int
    <3>1. PICK view \in Nat : view = View!View
      BY <1>1 DEF View!View
    <3>2. PICK half \in Nat : half = view \div 2
      BY Quotients
    <3>. QED  BY <3>1, <3>2 DEF View!Jumps, View!Most
  <2>3. View!Most(0, scroll + jump) \in Nat
    BY <1>1, <2>2 DEF View!Most
  <2>4. scroll' \in Nat /\ (viewport > 0 => scroll' <= View!MaxScroll(shown, viewport))
    BY <1>1, <2>1, <2>3, Scrolls
  <2>5. View!Quiet /\ lastKey' \in {"none", lastKey} /\ mode' = mode
    BY <1>2 DEF View!Scroll
  <2>. QED  BY <1>1, <2>4, <2>5, KeyKeeps
<1>3. CASE View!PressG
  <2>1. View!MaxScroll(shown, viewport) \in Nat
    BY <1>1, Scrolls
  <2>2. View!Quiet /\ lastKey' \in {"none", "g"} /\ mode' = mode /\ scroll' \in {0, scroll}
    BY <1>3 DEF View!PressG
  <2>. QED  BY <1>1, <2>1, <2>2, KeyKeeps
<1>4. CASE View!GoToBottom
  <2>1. View!MaxScroll(shown, viewport) \in Nat
    BY <1>1, Scrolls
  <2>2. View!Quiet /\ lastKey' = "none" /\ mode' = mode /\ scroll' = View!MaxScroll(shown, viewport)
    BY <1>4 DEF View!GoToBottom
  <2>. QED  BY <1>1, <2>1, <2>2, KeyKeeps
<1>5. CASE View!SwitchMode
  <2>1. View!Quiet /\ lastKey' \in {"none", lastKey} /\ scroll' = scroll
        /\ mode' \in {"insert", "normal", "command"}
    BY <1>5 DEF View!SwitchMode, View!Enter
  <2>. QED  BY <1>1, <2>1, KeyKeeps
<1>. QED  BY <1>2, <1>3, <1>4, <1>5

LEMMA ViewStep ==
    ASSUME ViewBounds, ViewTypes, [View!Next]_viewVars
    PROVE  ViewTypes'
<1>1. CASE UNCHANGED viewVars
  BY <1>1 DEF viewVars, ViewTypes, LayoutTypes, PadTypes, KeyTypes, ScrollTypes, PadShows,
     View!FitsScreen, View!ScrollInRange
<1>2. CASE View!Next
  BY <1>2, AddLineKeeps, ClearKeeps, ResizeKeeps, StaleKeeps, ResizeInputKeeps, KeysKeep,
     UnknownCommandKeeps DEF View!Next
<1>. QED  BY <1>1, <1>2

LEMMA ViewBegins == ASSUME ViewBounds, View!Init PROVE ViewTypes
<1>1. PICK s \in Screens :
        /\ height = s.height /\ width = s.width /\ maxInput = View!MaxInput(s.height)
        /\ input = View!InputFitted(s.height, MinInput)
        /\ LET available == View!Most(0, s.height - input - Padding)
           IN  /\ status = IF available < MinConv + StatusRows THEN 0 ELSE StatusRows
               /\ viewport = IF available - status >= 1 THEN available - status
                             ELSE View!Least(1, available)
        /\ entries = <<>> /\ rows = <<>> /\ shown = 0 /\ scroll = 0
        /\ padWidth = s.width /\ padCapacity = InitialCapacity
        /\ mode = "insert" /\ lastKey = "none"
        /\ lost = FALSE /\ stale = FALSE
  BY Zenon DEF View!Init
<1>2. s.height \in Nat /\ s.width \in Nat \ {0} /\ MinInput \in Nat
  BY DEF ViewBounds
<1>3. input \in Nat /\ input <= s.height
  BY <1>1, <1>2, InputFits
<1>4. PICK available : available = View!Most(0, s.height - input - Padding)
  OBVIOUS
<1>5. /\ status = IF available < MinConv + StatusRows THEN 0 ELSE StatusRows
      /\ viewport = IF available - status >= 1 THEN available - status
                    ELSE View!Least(1, available)
  BY <1>1, <1>4, Zenon
<1>6. Fits(s.height, input, status, viewport)
  BY <1>2, <1>3, <1>4, <1>5, WindowsFit
<1>7. maxInput \in Nat
  BY <1>1, <1>2, MaxInputNumber
<1>8. LayoutTypes
  BY <1>1, <1>2, <1>6, <1>7 DEF LayoutTypes, Fits, View!FitsScreen
<1>9. <<>> \in Seq(Entry) /\ <<>> \in Seq(Row) /\ Len(<<>>) = 0
  OBVIOUS
<1>10. PadTypes
  BY <1>1, <1>2, <1>9 DEF PadTypes, ViewBounds
<1>11. KeyTypes
  <2>1. FALSE \in BOOLEAN
    OBVIOUS
  <2>. QED  BY <1>1, <2>1, Zenon DEF KeyTypes
<1>12. ScrollTypes
  <2>1. shown \in Nat /\ viewport \in Nat
    BY <1>1, <1>8 DEF LayoutTypes
  <2>2. View!MaxScroll(shown, viewport) \in Nat
    BY <2>1, Scrolls
  <2>. QED  BY <1>1, <2>2 DEF ScrollTypes, View!ScrollInRange
<1>13. PadShows
  BY <1>1, WrappedNothing DEF PadShows
<1>. QED  BY <1>1, <1>8, <1>10, <1>11, <1>12, <1>13 DEF ViewTypes

LEMMA ViewTypeOK == ASSUME ViewTypes PROVE View!TypeOK
BY DEF ViewTypes, LayoutTypes, PadTypes, KeyTypes, ScrollTypes, View!TypeOK

LEMMA ViewSafe ==
    ASSUME ViewTypes
    PROVE  View!FitsScreen /\ View!ScrollInRange /\ View!PadShowsEntries
BY DEF ViewTypes, LayoutTypes, ScrollTypes, PadShows, Wrapped, View!PadShowsEntries

(* On every screen, however it is resized, whatever is added, cleared or      *)
(* scrolled, and whether a pad can be made or not, the windows do not         *)
(* overlap, the offset stays within the contents, and unless rows were lost   *)
(* the pad holds exactly the rows of the entries, wrapped for the screen      *)
(* (tui_add_conversation_line, tui_handle_resize, calculate_layout).          *)
THEOREM ScreenShowsConversation == ASSUME ViewBounds PROVE LocalSpec => []ScreenShows
<1>1. LocalInit => ViewTypes
  BY ViewBegins DEF LocalInit
<1>2. ViewTypes /\ [LocalNext]_localVars => ViewTypes'
  <2>1. [LocalNext]_localVars => [View!Next]_viewVars
    BY DEF LocalNext, localVars, viewVars
  <2>. QED  BY <2>1, ViewStep
<1>3. ViewTypes => ScreenShows
  BY ViewSafe DEF ScreenShows
<1>. QED  BY <1>1, <1>2, <1>3, PTL DEF LocalSpec

-----------------------------------------------------------------------------
(* The line the user edits.                                                   *)
Chars == Input!Typed \cup {Input!Pasted, "[", "]"}

InputBounds ==
    /\ Capacity \in Nat \ {0} /\ MaxKeys \in Nat /\ MaxHistory \in Nat \ {0}
    /\ \A stray \in Strays : stray \in Seq(Chars) /\ Len(stray) < Capacity

LineTypes ==
    /\ line \in Seq(Chars) /\ Len(line) < capacity
    /\ cursor \in -1 .. Len(line) + 1 /\ (broken \/ cursor \in 0 .. Len(line))
    /\ capacity \in Nat /\ capacity >= Capacity /\ moved \in BOOLEAN /\ broken \in BOOLEAN

PasteTypes ==
    /\ pasting \in BOOLEAN /\ content \in Seq({Input!Pasted}) /\ start \in 0 .. capacity
    /\ placeholder \in {0, Len(Input!Placeholder)}

RecallTypes ==
    /\ history \in Seq(Seq(Chars)) /\ Len(history) <= MaxHistory
    /\ position \in -1 .. Len(history) - 1 /\ saved \in Seq(Chars)

InputTypes == LineTypes /\ PasteTypes /\ RecallTypes

LEMMA LineParts ==
    ASSUME LineTypes, NEW from \in 0 .. Len(line), NEW upto \in from .. Len(line)
    PROVE  /\ Input!Before(from) \in Seq(Chars) /\ Len(Input!Before(from)) = from
           /\ Input!After(upto) \in Seq(Chars) /\ Len(Input!After(upto)) = Len(line) - upto
BY DEF LineTypes, Input!Before, Input!After, Input!Length

LEMMA CutTypes ==
    ASSUME InputBounds, InputTypes, NEW from \in 0 .. Len(line), NEW upto \in from .. Len(line),
           Input!Cut(from, upto)
    PROVE  InputTypes'
<1>1. /\ Input!Before(from) \in Seq(Chars) /\ Len(Input!Before(from)) = from
      /\ Input!After(upto) \in Seq(Chars) /\ Len(Input!After(upto)) = Len(line) - upto
  BY LineParts DEF InputTypes
<1>2. /\ line' = Input!Before(from) \o Input!After(upto) /\ cursor' = from /\ moved' \in BOOLEAN
      /\ UNCHANGED <<capacity, pasting, content, start, placeholder, history, position, saved, broken>>
  BY DEF Input!Cut, Input!paste, Input!recall
<1>3. line' \in Seq(Chars) /\ Len(line') = from + (Len(line) - upto)
  <2>1. PICK a, b : a = Input!Before(from) /\ b = Input!After(upto)
    OBVIOUS
  <2>2. a \o b \in Seq(Chars) /\ Len(a \o b) = Len(a) + Len(b)
    BY <1>1, <2>1, ConcatProperties
  <2>. QED  BY <1>1, <1>2, <2>1, <2>2
<1>4. LineTypes'
  BY <1>2, <1>3 DEF InputBounds, InputTypes, LineTypes
<1>. QED  BY <1>2, <1>4 DEF InputTypes, PasteTypes, RecallTypes

LEMMA MoveTypes ==
    ASSUME InputTypes, NEW to \in 0 .. Len(line), Input!Move(to)
    PROVE  InputTypes'
BY DEF Input!Move, Input!paste, Input!recall, InputTypes, LineTypes, PasteTypes, RecallTypes

LEMMA InsertTypes ==
    ASSUME InputTypes, NEW c \in Input!Typed \cup {Input!Pasted}, Input!Insert(c)
    PROVE  InputTypes'
<1>1. UNCHANGED <<capacity, history, position, saved, broken>>
  BY DEF Input!Insert, Input!recall
<1>2. CASE /\ pasting /\ c = Input!Pasted /\ content' = Append(content, c)
           /\ UNCHANGED <<line, cursor, moved, pasting, start, placeholder>>
  <2>1. content' \in Seq({Input!Pasted})
    BY <1>2 DEF InputTypes, PasteTypes
  <2>. QED  BY <1>1, <1>2, <2>1 DEF InputTypes, LineTypes, PasteTypes, RecallTypes
<1>3. CASE /\ ~pasting /\ ~broken /\ Input!Length + 1 < capacity - 1
           /\ line' = Input!Before(cursor) \o <<c>> \o Input!After(cursor)
           /\ cursor' = cursor + 1
           /\ moved' = (moved \/ (placeholder > 0 /\ cursor < start + placeholder))
           /\ UNCHANGED Input!paste
  <2>1. /\ Input!Before(cursor) \in Seq(Chars) /\ Len(Input!Before(cursor)) = cursor
        /\ Input!After(cursor) \in Seq(Chars) /\ Len(Input!After(cursor)) = Len(line) - cursor
    BY <1>3, LineParts DEF InputTypes, LineTypes
  <2>2. <<c>> \in Seq(Chars) /\ Len(<<c>>) = 1
    BY DEF Chars
  <2>3. line' \in Seq(Chars) /\ Len(line') = cursor + 1 + (Len(line) - cursor)
    <3>1. PICK a, one, b : a = Input!Before(cursor) /\ one = <<c>> /\ b = Input!After(cursor)
      OBVIOUS
    <3>2. a \o one \in Seq(Chars) /\ Len(a \o one) = Len(a) + Len(one)
      BY <2>1, <2>2, <3>1, ConcatProperties
    <3>3. a \o one \o b \in Seq(Chars) /\ Len(a \o one \o b) = Len(a \o one) + Len(b)
      BY <2>1, <3>1, <3>2, ConcatProperties
    <3>. QED  BY <1>3, <2>1, <2>2, <3>1, <3>2, <3>3
  <2>4. moved' \in BOOLEAN
    BY <1>3
  <2>5. LineTypes'
    BY <1>1, <1>3, <2>3, <2>4 DEF InputTypes, LineTypes, Input!Length
  <2>. QED  BY <1>1, <1>3, <2>5 DEF InputTypes, PasteTypes, RecallTypes, Input!paste
<1>. QED  BY <1>2, <1>3 DEF Input!Insert, Input!InsertChar

LEMMA WordStartBefore ==
    ASSUME LineTypes, ~broken, cursor > 0
    PROVE  Input!WordStart \in 0 .. cursor
<1>. DEFINE word == {i \in 0 .. cursor - 1 : ~Input!Boundary(line[i + 1])}
            last == CHOOSE i \in word : \A j \in word : j <= i
            gaps == {i \in 0 .. last - 1 : Input!Boundary(line[i + 1])}
            gap == CHOOSE i \in gaps : \A j \in gaps : j <= i
<1>1. Input!WordStart = IF word = {} \/ gaps = {} THEN 0 ELSE 1 + gap
  BY DEF Input!WordStart
<1>2. cursor \in Nat
  BY DEF LineTypes
<1>3. ASSUME word # {}, gaps # {}  PROVE 1 + gap \in 0 .. cursor
  <2>1. word \in SUBSET Nat /\ cursor - 1 \in Nat /\ \A i \in word : i <= cursor - 1
    BY <1>2
  <2>. HIDE DEF word
  <2>2. \E i \in word : \A j \in word : j <= i
    BY <1>3, <2>1, GreatestOf
  <2>3. last \in word
    BY <2>2
  <2>4. last \in Nat /\ last <= cursor - 1
    BY <2>1, <2>3
  <2>. HIDE DEF last
  <2>5. gaps \in SUBSET Nat /\ \A i \in gaps : i <= last - 1 /\ i <= last
    BY <2>4
  <2>. HIDE DEF gaps
  <2>6. \E i \in gaps : \A j \in gaps : j <= i
    BY <1>3, <2>4, <2>5, GreatestOf
  <2>7. gap \in gaps
    BY <2>6
  <2>. HIDE DEF gap
  <2>8. gap \in Nat /\ gap <= last - 1
    BY <2>5, <2>7
  <2>. QED  BY <1>2, <2>4, <2>8
<1>4. 0 \in 0 .. cursor
  BY <1>2
<1>. HIDE DEF word, last, gaps, gap
<1>. QED  BY <1>1, <1>3, <1>4

LEMMA WordEndAfter ==
    ASSUME LineTypes, ~broken, cursor < Len(line)
    PROVE  Input!WordEnd \in cursor .. Len(line)
<1>. DEFINE gaps == {i \in cursor .. Len(line) - 1 : Input!Boundary(line[i + 1])}
            gap == CHOOSE i \in gaps : \A j \in gaps : i <= j
            word == {i \in gap .. Len(line) - 1 : ~Input!Boundary(line[i + 1])}
            to == CHOOSE i \in word : \A j \in word : i <= j
<1>1. Input!WordEnd = IF gaps = {} \/ word = {} THEN Len(line) ELSE to
  BY DEF Input!WordEnd, Input!Length
<1>2. cursor \in Nat /\ Len(line) \in Nat
  BY DEF LineTypes
<1>3. ASSUME gaps # {}, word # {}  PROVE to \in cursor .. Len(line)
  <2>1. gaps \in SUBSET Nat /\ \A i \in gaps : i >= cursor
    BY <1>2
  <2>. HIDE DEF gaps
  <2>2. gap \in gaps
    BY <1>3, <2>1, LeastOf
  <2>3. gap \in Nat /\ gap >= cursor
    BY <2>1, <2>2
  <2>. HIDE DEF gap
  <2>4. word \in SUBSET Nat /\ \A i \in word : i >= gap /\ i <= Len(line) - 1
    BY <1>2, <2>3
  <2>. HIDE DEF word
  <2>5. to \in word
    BY <1>3, <2>4, LeastOf
  <2>. HIDE DEF to
  <2>6. to \in Nat /\ to >= gap /\ to <= Len(line) - 1
    BY <2>4, <2>5
  <2>. QED  BY <1>2, <2>3, <2>6
<1>4. Len(line) \in cursor .. Len(line)
  BY <1>2
<1>. HIDE DEF gaps, gap, word, to
<1>. QED  BY <1>1, <1>3, <1>4

(* The keys that delete or move.                                              *)
LEMMA EditTypes ==
    ASSUME InputBounds, InputTypes, ~broken,
           \/ Input!Backspace \/ Input!DeleteChar \/ Input!DeleteSplitChar \/ Input!KillToEnd
           \/ Input!KillToStart \/ Input!DeleteWordBackward \/ Input!DeleteWordForward
           \/ Input!MoveCursor
    PROVE  InputTypes'
<1>1. cursor \in Nat /\ Len(line) \in Nat /\ cursor <= Len(line) /\ LineTypes /\ ~broken
  BY DEF InputTypes, LineTypes
<1>2. cursor > 0 => Input!WordStart \in 0 .. cursor
  BY <1>1, WordStartBefore
<1>3. cursor < Len(line) => Input!WordEnd \in cursor .. Len(line)
  BY <1>1, WordEndAfter
<1>4. CASE Input!Backspace
  BY <1>1, <1>4, CutTypes DEF Input!Backspace
<1>5. CASE Input!DeleteChar
  <2>1. Input!CharLength \in {1, 2}
    BY DEF Input!CharLength
  <2>. QED  BY <1>1, <1>5, <2>1, CutTypes DEF Input!DeleteChar, Input!Length
<1>6. CASE Input!DeleteSplitChar
  <2>1. /\ line' = Input!Before(cursor - 1) /\ cursor' = cursor /\ broken' = TRUE /\ moved' = TRUE
        /\ UNCHANGED <<capacity, pasting, content, start, placeholder, history, position, saved>>
    BY <1>6 DEF Input!DeleteSplitChar, Input!paste, Input!recall
  <2>2. line' \in Seq(Chars) /\ Len(line') <= Len(line) /\ cursor <= Len(line') + 1
    <3>1. PICK n \in Int : n = cursor - 1 /\ n >= -1 /\ n <= Len(line)
      BY <1>1
    <3>2. line' = SubSeq(line, 1, n) /\ line \in Seq(Chars)
      BY <1>1, <2>1, <3>1 DEF Input!Before, LineTypes
    <3>3. CASE n = -1
      <4>1. Len(line') = 0 /\ line' \in Seq(Chars)
        BY <3>2, <3>3
      <4>. QED  BY <1>1, <3>1, <3>3, <4>1
    <3>4. CASE n \in 0 .. Len(line)
      BY <1>1, <3>1, <3>2, <3>4
    <3>. QED  BY <1>1, <3>1, <3>3, <3>4
  <2>3. LineTypes'
    <3>1. Len(line') \in Nat
      BY <2>2
    <3>. QED  BY <1>1, <2>1, <2>2, <3>1 DEF LineTypes
  <2>. QED  BY <2>1, <2>3 DEF InputTypes, PasteTypes, RecallTypes
<1>7. CASE Input!KillToEnd
  BY <1>1, <1>7, CutTypes DEF Input!KillToEnd, Input!Length
<1>8. CASE Input!KillToStart
  BY <1>1, <1>8, CutTypes DEF Input!KillToStart
<1>9. CASE Input!DeleteWordBackward
  <2>1. PICK from \in 0 .. cursor : Input!Cut(from, cursor)
    BY <1>2, <1>9 DEF Input!DeleteWordBackward
  <2>2. from \in 0 .. Len(line) /\ cursor \in from .. Len(line)
    BY <1>1
  <2>. QED  BY <2>1, <2>2, CutTypes
<1>10. CASE Input!DeleteWordForward
  <2>1. PICK upto \in cursor .. Len(line) : Input!Cut(cursor, upto)
    BY <1>3, <1>10 DEF Input!DeleteWordForward, Input!Length
  <2>2. cursor \in 0 .. Len(line)
    BY <1>1
  <2>. QED  BY <2>1, <2>2, CutTypes
<1>11. CASE Input!MoveCursor
  <2>1. PICK to \in 0 .. Len(line) : Input!Move(to)
    <3>1. \/ cursor > 0 /\ Input!Move(cursor - 1)
          \/ cursor < Len(line) /\ Input!Move(cursor + 1)
          \/ Input!Move(0)
          \/ Input!Move(Len(line))
          \/ cursor > 0 /\ Input!Move(Input!WordStart)
          \/ cursor < Len(line) /\ Input!Move(Input!WordEnd)
      BY <1>11 DEF Input!MoveCursor, Input!Length
    <3>2. /\ cursor > 0 => cursor - 1 \in 0 .. Len(line) /\ Input!WordStart \in 0 .. Len(line)
          /\ cursor < Len(line) => cursor + 1 \in 0 .. Len(line) /\ Input!WordEnd \in 0 .. Len(line)
          /\ 0 \in 0 .. Len(line) /\ Len(line) \in 0 .. Len(line)
      BY <1>1, <1>2, <1>3
    <3>. QED  BY <3>1, <3>2, Zenon
  <2>. QED  BY <2>1, MoveTypes
<1>. QED  BY <1>4, <1>5, <1>6, <1>7, <1>8, <1>9, <1>10, <1>11

LEMMA Nothing == ASSUME NEW S, NEW s, s = <<>> PROVE s \in Seq(S) /\ Len(s) = 0
  OBVIOUS

LEMMA PasteKeysTypes ==
    ASSUME InputBounds, InputTypes, Input!ClearLine \/ Input!PasteStart \/ Input!PasteEnd
    PROVE  InputTypes'
<1>. USE DEF InputTypes
<1>1. CASE Input!ClearLine
  <2>1. /\ line' = <<>> /\ cursor' = 0 /\ pasting' = FALSE /\ moved' \in BOOLEAN
        /\ broken' = FALSE
        /\ UNCHANGED <<capacity, content, start, placeholder, history, position, saved>>
    BY <1>1 DEF Input!ClearLine, Input!recall
  <2>2. line' \in Seq(Chars) /\ Len(line') = 0
    BY <2>1, Nothing
  <2>3. capacity \in Nat /\ capacity > 0 /\ capacity >= Capacity
    BY DEF LineTypes, InputBounds
  <2>4. cursor' \in -1 .. Len(line') + 1 /\ cursor' \in 0 .. Len(line')
    BY <2>1, <2>2
  <2>5. Len(line') < capacity' /\ capacity' \in Nat /\ capacity' >= Capacity
    BY <2>1, <2>2, <2>3
  <2>6. moved' \in BOOLEAN /\ broken' \in BOOLEAN
    BY <2>1, Zenon
  <2>7. LineTypes'
    BY <2>2, <2>4, <2>5, <2>6, Zenon DEF LineTypes
  <2>. QED  BY <2>1, <2>7 DEF PasteTypes, RecallTypes
<1>2. CASE Input!PasteStart
  <2>1. /\ pasting' = TRUE /\ start' = cursor /\ content' = <<>> /\ moved' \in BOOLEAN
        /\ UNCHANGED <<line, cursor, capacity, placeholder, history, position, saved, broken>>
    BY <1>2 DEF Input!PasteStart, Input!recall
  <2>2. cursor \in 0 .. capacity /\ <<>> \in Seq({Input!Pasted})
    <3>1. cursor >= 0
      BY <1>2 DEF Input!PasteStart
    <3>. QED  BY <3>1 DEF LineTypes
  <2>. QED  BY <2>1, <2>2 DEF LineTypes, PasteTypes, RecallTypes
<1>3. CASE Input!PasteEnd
  <2>1. PICK at, text :
           /\ at = IF start > Len(line) THEN Len(line) ELSE start
           /\ text = IF Len(content) < Threshold THEN content ELSE Input!Placeholder
    OBVIOUS
  <2>2. /\ pasting' = FALSE
        /\ UNCHANGED <<capacity, content, start, history, position, saved, broken>>
        /\ \/ /\ Len(line) + Len(text) < capacity - 1
              /\ Input!PutAt(text, at)
              /\ placeholder' \in {0, Len(Input!Placeholder)} /\ moved' \in BOOLEAN
           \/ UNCHANGED <<line, cursor, placeholder>> /\ moved' \in BOOLEAN
    BY <1>3, <2>1 DEF Input!PasteEnd, Input!recall, Input!Length
  <2>3. at \in 0 .. Len(line)
    BY <2>1 DEF LineTypes, PasteTypes
  <2>4. text \in Seq(Chars)
    <3>1. content \in Seq(Chars)
      BY DEF PasteTypes, Chars
    <3>2. Input!Placeholder \in Seq(Chars)
      BY DEF Input!Placeholder, Chars, Input!Typed
    <3>. QED  BY <2>1, <3>1, <3>2
  <2>5. CASE /\ Len(line) + Len(text) < capacity - 1 /\ Input!PutAt(text, at)
             /\ placeholder' \in {0, Len(Input!Placeholder)} /\ moved' \in BOOLEAN
    <3>1. PICK a, b : a = Input!Before(at) /\ b = Input!After(at)
      OBVIOUS
    <3>2. /\ a \in Seq(Chars) /\ Len(a) = at /\ b \in Seq(Chars) /\ Len(b) = Len(line) - at
      BY <2>3, <3>1, LineParts
    <3>3. a \o text \in Seq(Chars) /\ Len(a \o text) = Len(a) + Len(text)
      BY <2>4, <3>2, ConcatProperties
    <3>4. a \o text \o b \in Seq(Chars) /\ Len(a \o text \o b) = Len(a \o text) + Len(b)
      BY <3>2, <3>3, ConcatProperties
    <3>5. line' = a \o text \o b /\ cursor' = at + Len(text)
      BY <2>5, <3>1 DEF Input!PutAt
    <3>6. Len(line') = Len(line) + Len(text) /\ Len(text) \in Nat /\ Len(line) \in Nat
      <4>1. Len(text) \in Nat /\ Len(line) \in Nat
        BY <2>4 DEF LineTypes
      <4>2. Len(line') = (at + Len(text)) + (Len(line) - at)
        BY <3>2, <3>3, <3>4, <3>5, Zenon
      <4>. QED  BY <2>3, <4>1, <4>2
    <3>7. LineTypes'
      BY <2>2, <2>3, <2>5, <3>4, <3>5, <3>6 DEF LineTypes
    <3>. QED  BY <2>2, <2>5, <3>7 DEF PasteTypes, RecallTypes
  <2>6. CASE UNCHANGED <<line, cursor, placeholder>> /\ moved' \in BOOLEAN
    BY <2>2, <2>6 DEF LineTypes, PasteTypes, RecallTypes
  <2>. QED  BY <2>2, <2>5, <2>6
<1>. QED  BY <1>1, <1>2, <1>3

(* A key in a line that has lost its end.                                     *)
LEMMA AstrayTypes == ASSUME InputBounds, InputTypes, Input!Astray PROVE InputTypes'
<1>1. PICK stray \in Strays : line' = stray
  BY DEF Input!Astray
<1>2. stray \in Seq(Chars) /\ Len(stray) < Capacity /\ Len(stray) \in Nat
  BY DEF InputBounds
<1>3. /\ cursor' \in -1 .. Len(stray) + 1 /\ moved' = TRUE /\ broken
      /\ UNCHANGED <<capacity, content, start, history, position, saved, broken>>
      /\ pasting' \in {pasting, FALSE} /\ placeholder' \in {placeholder, 0, Len(Input!Placeholder)}
  BY <1>1 DEF Input!Astray, Input!paste, Input!recall
<1>4. LineTypes'
  BY <1>1, <1>2, <1>3 DEF InputBounds, InputTypes, LineTypes
<1>. QED  BY <1>3, <1>4 DEF InputTypes, PasteTypes, RecallTypes

LEMMA ShowTypes ==
    ASSUME InputBounds, InputTypes, NEW text \in Seq(Chars), Input!Show(text)
    PROVE  LineTypes' /\ PasteTypes' /\ history' = history
<1>1. /\ line' = text /\ cursor' = Len(text) /\ moved' \in BOOLEAN
      /\ capacity' = IF Len(text) >= capacity THEN Len(text) + Capacity ELSE capacity
      /\ broken' = FALSE /\ UNCHANGED <<pasting, content, start, placeholder, history>>
  BY DEF Input!Show, Input!paste
<1>2. Len(text) \in Nat /\ capacity \in Nat
  BY DEF InputTypes, LineTypes
<1>3. capacity' \in Nat /\ Len(text) < capacity' /\ capacity' >= capacity /\ capacity' >= Capacity
  BY <1>1, <1>2 DEF InputBounds, InputTypes, LineTypes
<1>4. LineTypes'
  <2>1. cursor' \in -1 .. Len(line') + 1 /\ cursor' \in 0 .. Len(line')
    BY <1>1, <1>2
  <2>2. broken' \in BOOLEAN
    BY <1>1
  <2>. QED  BY <1>1, <1>3, <2>1, <2>2 DEF LineTypes
<1>. QED  BY <1>1, <1>2, <1>3, <1>4 DEF InputTypes, PasteTypes

LEMMA RecallKeysTypes ==
    ASSUME InputBounds, InputTypes, Input!Previous \/ Input!NextLine
    PROVE  InputTypes'
<1>1. /\ history \in Seq(Seq(Chars)) /\ Len(history) \in Nat /\ saved \in Seq(Chars)
      /\ line \in Seq(Chars) /\ position \in -1 .. Len(history) - 1
      /\ \A i \in 1 .. Len(history) : history[i] \in Seq(Chars)
  BY DEF InputTypes, LineTypes, RecallTypes
<1>2. CASE Input!Previous
  <2>1. PICK at : at = IF position = -1 THEN Len(history) ELSE position
    OBVIOUS
  <2>2. /\ at > 0 /\ position' = at - 1 /\ Input!Show(history[at])
        /\ saved' \in Input!Readings \/ saved' = saved
    BY <1>2, <2>1 DEF Input!Previous
  <2>3. at \in 1 .. Len(history)
    BY <1>1, <2>1, <2>2
  <2>4. LineTypes' /\ PasteTypes' /\ history' = history
    BY <1>1, <2>2, <2>3, ShowTypes
  <2>5. saved' \in Seq(Chars)
    BY <1>1, <2>2 DEF Input!Readings, InputBounds
  <2>. QED  BY <1>1, <2>2, <2>3, <2>4, <2>5 DEF InputTypes, RecallTypes
<1>3. CASE Input!NextLine
  <2>1. saved' = saved /\ position # -1
    BY <1>3 DEF Input!NextLine
  <2>2. CASE position + 1 >= Len(history)
    <3>1. position' = -1 /\ Input!Show(saved)
      BY <1>3, <2>2 DEF Input!NextLine
    <3>2. LineTypes' /\ PasteTypes' /\ history' = history
      BY <1>1, <3>1, ShowTypes
    <3>. QED  BY <1>1, <2>1, <3>1, <3>2 DEF InputTypes, RecallTypes
  <2>3. CASE ~(position + 1 >= Len(history))
    <3>1. position' = position + 1 /\ Input!Show(history[position + 2])
      BY <1>3, <2>3 DEF Input!NextLine
    <3>2. position + 2 \in 1 .. Len(history)
      BY <1>1, <2>1, <2>3
    <3>3. LineTypes' /\ PasteTypes' /\ history' = history
      BY <1>1, <3>1, <3>2, ShowTypes
    <3>. QED  BY <1>1, <2>1, <2>3, <3>1, <3>3 DEF InputTypes, RecallTypes
  <2>. QED  BY <2>2, <2>3
<1>. QED  BY <1>2, <1>3

LEMMA SubmitTypes ==
    ASSUME InputBounds, InputTypes, Input!Submit
    PROVE  InputTypes'
<1>1. /\ line' = <<>> /\ cursor' = 0 /\ pasting' = FALSE /\ start' = 0 /\ moved' = FALSE
      /\ content' = <<>> /\ placeholder' = 0 /\ position' = -1 /\ saved' = <<>>
      /\ broken' = FALSE /\ capacity' = capacity
      /\ \/ history' = history
         \/ \E text \in Strays \cup {Input!InputText} :
               Len(history) < MaxHistory /\ history' = Append(history, text)
  BY DEF Input!Submit, Input!ClearInput
<1>2. Input!InputText \in Seq(Chars)
  <2>1. line \in Seq(Chars) /\ Len(line) \in Nat
    BY DEF InputTypes, LineTypes
  <2>2. CASE content = <<>> \/ placeholder = 0 \/ start > Len(line)
    BY <2>1, <2>2 DEF Input!InputText, Input!Length
  <2>3. CASE ~(content = <<>> \/ placeholder = 0 \/ start > Len(line))
    <3>1. Input!InputText = Input!Before(start) \o content \o Input!After(start + placeholder)
      BY <2>3 DEF Input!InputText, Input!Length
    <3>2. start \in 0 .. Len(line) /\ placeholder \in Nat /\ content \in Seq(Chars)
      BY <2>1, <2>3 DEF InputTypes, PasteTypes, Chars, Input!Placeholder, LineTypes
    <3>3. PICK a, b : a = Input!Before(start) /\ b = Input!After(start + placeholder)
      OBVIOUS
    <3>4. a \in Seq(Chars) /\ b \in Seq(Chars)
      BY <2>1, <3>2, <3>3 DEF Input!Before, Input!After, Input!Length
    <3>. QED  BY <3>1, <3>2, <3>3, <3>4
  <2>. QED  BY <2>2, <2>3
<1>3. history' \in Seq(Seq(Chars)) /\ Len(history') <= MaxHistory /\ Len(history') \in Nat
  <2>1. CASE history' = history
    BY <2>1 DEF InputTypes, RecallTypes
  <2>2. ASSUME NEW text \in Strays \cup {Input!InputText},
               Len(history) < MaxHistory, history' = Append(history, text)
        PROVE  history' \in Seq(Seq(Chars)) /\ Len(history') <= MaxHistory /\ Len(history') \in Nat
    <3>1. text \in Seq(Chars)
      BY <1>2 DEF InputBounds
    <3>2. history' \in Seq(Seq(Chars)) /\ Len(history') = Len(history) + 1
      BY <2>2, <3>1, AppendProperties DEF InputTypes, RecallTypes
    <3>. QED  BY <2>2, <3>2 DEF InputTypes, RecallTypes, InputBounds
  <2>. QED  BY <1>1, <2>1, <2>2
<1>4. /\ line' \in Seq(Chars) /\ Len(line') = 0 /\ saved' \in Seq(Chars)
      /\ content' \in Seq({Input!Pasted})
  BY <1>1, Nothing
<1>5. /\ capacity > 0 /\ capacity \in Nat /\ capacity >= Capacity
      /\ broken' = FALSE
  BY <1>1 DEF InputTypes, LineTypes, InputBounds
<1>6. /\ cursor' = 0 /\ start' = 0 /\ placeholder' = 0 /\ position' = -1 /\ capacity' = capacity
      /\ pasting' \in BOOLEAN /\ moved' \in BOOLEAN
  BY <1>1, Zenon
<1>7. LineTypes'
  <2>1. cursor' \in -1 .. Len(line') + 1 /\ cursor' \in 0 .. Len(line')
    BY <1>4, <1>6
  <2>2. Len(line') < capacity' /\ capacity' \in Nat /\ capacity' >= Capacity
    BY <1>4, <1>5, <1>6
  <2>3. broken' \in BOOLEAN
    BY <1>5, Zenon
  <2>. QED  BY <1>4, <1>6, <2>1, <2>2, <2>3, Zenon DEF LineTypes
<1>8. PasteTypes'
  BY <1>4, <1>5, <1>6 DEF PasteTypes
<1>9. RecallTypes'
  BY <1>3, <1>4, <1>6 DEF RecallTypes
<1>. QED  BY <1>7, <1>8, <1>9 DEF InputTypes

LEMMA InputBegins == ASSUME InputBounds, Input!Init PROVE InputTypes /\ keys \in 0 .. MaxKeys
<1>1. Input!LongLine \in Seq(Chars)
  <2>1. "w" \in Chars /\ Capacity \in Nat
    BY DEF Chars, Input!Typed, InputBounds
  <2>. QED  BY <2>1 DEF Input!LongLine
<1>2. history \in Seq(Seq(Chars)) /\ Len(history) \in 0 .. 1
  <2>1. PICK one : one = <<Input!LongLine>>
    OBVIOUS
  <2>2. one \in Seq(Seq(Chars)) /\ Len(one) = 1
    BY <1>1, <2>1
  <2>3. history = <<>> \/ history = one
    BY <2>1 DEF Input!Init
  <2>4. CASE history = <<>>
    BY <2>4, Nothing
  <2>. QED  BY <2>2, <2>3, <2>4
<1>3. /\ line \in Seq(Chars) /\ Len(line) = 0 /\ saved \in Seq(Chars)
      /\ content \in Seq({Input!Pasted})
  BY Nothing DEF Input!Init
<1>4. /\ cursor = 0 /\ capacity = Capacity /\ pasting \in BOOLEAN /\ start = 0 /\ placeholder = 0
      /\ position = -1 /\ moved \in BOOLEAN /\ broken \in BOOLEAN /\ keys = 0
  BY Zenon DEF Input!Init
<1>5. LineTypes /\ keys \in 0 .. MaxKeys
  BY <1>3, <1>4 DEF LineTypes, InputBounds
<1>6. PasteTypes
  BY <1>3, <1>4 DEF PasteTypes, InputBounds
<1>7. RecallTypes
  <2>1. \A n \in 0 .. 1 : n <= MaxHistory /\ -1 \in -1 .. n - 1
    BY DEF InputBounds
  <2>2. Len(history) <= MaxHistory /\ -1 \in -1 .. Len(history) - 1
    BY <1>2, <2>1, Zenon
  <2>3. history \in Seq(Seq(Chars)) /\ saved \in Seq(Chars) /\ position = -1
    BY <1>2, <1>3, <1>4, Zenon
  <2>. QED  BY <2>2, <2>3, Zenon DEF RecallTypes
<1>. QED  BY <1>5, <1>6, <1>7 DEF InputTypes

LEMMA InputStep ==
    ASSUME InputBounds, InputTypes, keys \in 0 .. MaxKeys, [Input!Next]_inputVars
    PROVE  InputTypes' /\ keys' \in 0 .. MaxKeys
<1>1. CASE UNCHANGED inputVars
  BY <1>1 DEF inputVars, InputTypes, LineTypes, PasteTypes, RecallTypes
<1>2. CASE Input!Next
  <2>1. keys' \in 0 .. MaxKeys
    BY <1>2 DEF Input!Next, InputBounds
  <2>2. \/ \E c \in Input!Typed \cup {Input!Pasted} : Input!Insert(c)
        \/ /\ ~broken
           /\ \/ Input!Backspace \/ Input!DeleteChar \/ Input!DeleteSplitChar \/ Input!KillToEnd
              \/ Input!KillToStart \/ Input!DeleteWordBackward \/ Input!DeleteWordForward
              \/ Input!MoveCursor
        \/ Input!Astray
        \/ Input!ClearLine \/ Input!PasteStart \/ Input!PasteEnd
        \/ Input!Previous \/ Input!NextLine
        \/ Input!Submit
    BY <1>2 DEF Input!Next, Input!Edit
  <2>. QED  BY <2>1, <2>2, InsertTypes, EditTypes, AstrayTypes, PasteKeysTypes, RecallKeysTypes,
               SubmitTypes
<1>. QED  BY <1>1, <1>2

LEMMA InputTypeOK == ASSUME InputTypes, keys \in 0 .. MaxKeys PROVE Input!TypeOK
BY DEF InputTypes, LineTypes, PasteTypes, RecallTypes, Input!TypeOK, Input!Length, Chars

(* Where the paste is put back: its placeholder in the line.                  *)
(* The placeholder stands in the text at the place at, and its brackets are   *)
(* the only ones there.                                                       *)
StandsIn(text, at) ==
    /\ at + 3 <= Len(text)
    /\ text[at + 1] = "[" /\ text[at + 2] = "w" /\ text[at + 3] = "]"
    /\ \A i \in 1 .. Len(text) : text[i] \in {"[", "]"} => i \in {at + 1, at + 3}

(* The placeholder stands where the paste was made, its content is kept apart.*)
Standing == ~pasting /\ content # <<>> /\ placeholder = 3 /\ StandsIn(line, start)

PasteInPlace == ~moved => (placeholder = 0 /\ ~Input!Remnant(line)) \/ Standing

LEMMA CutAt ==
    ASSUME LineTypes, NEW from \in 0 .. Len(line), NEW upto \in from .. Len(line)
    PROVE  LET s == Input!Before(from) \o Input!After(upto)
           IN  /\ Len(s) = from + (Len(line) - upto)
               /\ \A i \in 1 .. Len(s) :
                     s[i] = IF i <= from THEN line[i] ELSE line[i + (upto - from)]
<1>1. PICK a, b : a = Input!Before(from) /\ b = Input!After(upto)
  OBVIOUS
<1>2. /\ a \in Seq(Chars) /\ Len(a) = from /\ b \in Seq(Chars) /\ Len(b) = Len(line) - upto
  BY <1>1, LineParts
<1>3. /\ \A i \in 1 .. from : a[i] = line[i]
      /\ \A i \in 1 .. Len(line) - upto : b[i] = line[i + upto]
  BY <1>1 DEF Input!Before, Input!After, Input!Length, LineTypes
<1>4. /\ Len(a \o b) = Len(a) + Len(b)
      /\ \A i \in 1 .. Len(a) + Len(b) : (a \o b)[i] = IF i <= Len(a) THEN a[i] ELSE b[i - Len(a)]
  BY <1>2, ConcatProperties
<1>5. Len(line) \in Nat
  BY DEF LineTypes
<1>6. ASSUME NEW i \in 1 .. from + (Len(line) - upto)
      PROVE  (a \o b)[i] = IF i <= from THEN line[i] ELSE line[i + (upto - from)]
  <2>1. (a \o b)[i] = IF i <= from THEN a[i] ELSE b[i - from]
    BY <1>2, <1>4, <1>6
  <2>2. CASE i <= from
    BY <1>3, <1>5, <2>1, <2>2
  <2>3. CASE i > from
    <3>1. i - from \in 1 .. Len(line) - upto /\ (i - from) + upto = i + (upto - from)
      BY <1>5, <2>3
    <3>. QED  BY <1>3, <2>1, <2>3, <3>1
  <2>4. i <= from \/ i > from
    BY <1>5
  <2>. QED  BY <2>2, <2>3, <2>4, Zenon
<1>. QED  BY <1>1, <1>2, <1>4, <1>6

LEMMA PutInside ==
    ASSUME LineTypes, NEW at \in 0 .. Len(line), NEW text \in Seq(Chars)
    PROVE  LET s == Input!Before(at) \o text \o Input!After(at)
           IN  /\ Len(s) = Len(line) + Len(text)
               /\ \A i \in 1 .. Len(s) :
                     s[i] = IF i <= at THEN line[i]
                            ELSE IF i <= at + Len(text) THEN text[i - at] ELSE line[i - Len(text)]
<1>1. PICK a, b : a = Input!Before(at) /\ b = Input!After(at)
  OBVIOUS
<1>2. /\ a \in Seq(Chars) /\ Len(a) = at /\ b \in Seq(Chars) /\ Len(b) = Len(line) - at
  BY <1>1, LineParts
<1>3. /\ \A i \in 1 .. at : a[i] = line[i]
      /\ \A i \in 1 .. Len(line) - at : b[i] = line[i + at]
  BY <1>1 DEF Input!Before, Input!After, Input!Length, LineTypes
<1>4. /\ a \o text \in Seq(Chars) /\ Len(a \o text) = Len(a) + Len(text)
      /\ \A i \in 1 .. Len(a) + Len(text) :
            (a \o text)[i] = IF i <= Len(a) THEN a[i] ELSE text[i - Len(a)]
  BY <1>2, ConcatProperties
<1>5. PICK c : c = a \o text
  OBVIOUS
<1>6. /\ Len(c \o b) = Len(c) + Len(b)
      /\ \A i \in 1 .. Len(c) + Len(b) : (c \o b)[i] = IF i <= Len(c) THEN c[i] ELSE b[i - Len(c)]
  <2>1. c \in Seq(Chars) /\ b \in Seq(Chars)
    BY <1>2, <1>4, <1>5
  <2>. QED  BY <2>1, ConcatProperties
<1>7. Len(line) \in Nat /\ Len(text) \in Nat /\ Len(c) = at + Len(text)
  BY <1>2, <1>4, <1>5 DEF LineTypes
<1>8. ASSUME NEW i \in 1 .. Len(line) + Len(text)
      PROVE  (c \o b)[i] = IF i <= at THEN line[i]
                           ELSE IF i <= at + Len(text) THEN text[i - at] ELSE line[i - Len(text)]
  <2>1. (c \o b)[i] = IF i <= at + Len(text) THEN c[i] ELSE b[i - (at + Len(text))]
    BY <1>2, <1>6, <1>7, <1>8
  <2>2. CASE i <= at + Len(text)
    <3>1. c[i] = IF i <= at THEN a[i] ELSE text[i - at]
      BY <1>2, <1>4, <1>5, <1>7, <2>2
    <3>. QED  BY <1>3, <2>1, <2>2, <3>1
  <2>3. CASE i > at + Len(text)
    <3>1. /\ i - (at + Len(text)) \in 1 .. Len(line) - at
          /\ (i - (at + Len(text))) + at = i - Len(text)
      BY <1>7, <2>3
    <3>2. b[i - (at + Len(text))] = line[i - Len(text)]
      BY <1>3, <3>1
    <3>. QED  BY <1>7, <2>1, <2>3, <3>2
  <2>4. i <= at + Len(text) \/ i > at + Len(text)
    BY <1>7
  <2>. QED  BY <2>2, <2>3, <2>4, Zenon
<1>9. Len(c \o b) = Len(line) + Len(text)
  BY <1>2, <1>6, <1>7
<1>10. Input!Before(at) \o text \o Input!After(at) = c \o b
  BY <1>1, <1>5
<1>. QED  BY <1>8, <1>9, <1>10

(* A change to the right of the placeholder, or with none in the line.        *)
LEMMA CutInPlace ==
    ASSUME InputTypes, PasteInPlace, NEW from \in 0 .. Len(line), NEW upto \in from .. Len(line),
           Input!Cut(from, upto)
    PROVE  PasteInPlace'
<1>1. /\ line' = Input!Before(from) \o Input!After(upto)
      /\ moved' = (moved \/ (from < upto /\ placeholder > 0 /\ from < start + placeholder))
      /\ UNCHANGED <<pasting, content, start, placeholder>>
  BY DEF Input!Cut, Input!paste
<1>2. /\ Len(line') = from + (Len(line) - upto)
      /\ \A i \in 1 .. Len(line') :
            line'[i] = IF i <= from THEN line[i] ELSE line[i + (upto - from)]
  BY <1>1, CutAt DEF InputTypes
<1>3. Len(line) \in Nat /\ start \in Nat /\ placeholder \in Nat
  BY DEF InputTypes, LineTypes, PasteTypes, Input!Placeholder
<1>4. SUFFICES ASSUME ~moved'  PROVE (placeholder' = 0 /\ ~Input!Remnant(line')) \/ Standing'
  BY DEF PasteInPlace
<1>5. ~moved /\ (from = upto \/ placeholder = 0 \/ from >= start + placeholder)
  <2>1. ~moved /\ ~(from < upto /\ placeholder > 0 /\ from < start + placeholder)
    BY <1>1, <1>4, Zenon
  <2>2. from = upto \/ placeholder = 0 \/ from >= start + placeholder
    BY <1>3, <2>1
  <2>. QED  BY <2>1, <2>2
<1>6. CASE placeholder = 0 /\ ~Input!Remnant(line)
  <2>1. ASSUME NEW i \in 1 .. Len(line')  PROVE line'[i] \notin {"[", "]"}
    <3>1. \E j \in 1 .. Len(line) : line'[i] = line[j]
      BY <1>2, <1>3
    <3>. QED  BY <1>6, <3>1 DEF Input!Remnant
  <2>. QED  BY <1>1, <1>6, <2>1 DEF Input!Remnant
<1>7. CASE Standing
  <2>0. placeholder = 3 /\ StandsIn(line, start)
    BY <1>7, Zenon DEF Standing
  <2>1. /\ start + 3 <= Len(line') /\ line'[start + 1] = "[" /\ line'[start + 2] = "w"
        /\ line'[start + 3] = "]"
    <3>1. start + 3 <= Len(line)
      BY <2>0 DEF StandsIn
    <3>2. start + 3 <= Len(line') /\ \A i \in 1 .. start + 3 : line'[i] = line[i]
      <4>1. CASE from = upto
        BY <1>2, <1>3, <3>1, <4>1
      <4>2. CASE from >= start + 3
        BY <1>2, <1>3, <3>1, <4>2
      <4>. QED  BY <1>5, <2>0, <4>1, <4>2
    <3>. QED  BY <1>3, <2>0, <3>2 DEF StandsIn
  <2>2. ASSUME NEW i \in 1 .. Len(line'), line'[i] \in {"[", "]"}
        PROVE  i \in {start + 1, start + 3}
    <3>1. CASE i <= from
      <4>1. line'[i] = line[i] /\ i \in 1 .. Len(line)
        BY <1>2, <1>3, <3>1
      <4>. QED  BY <2>0, <2>2, <4>1 DEF StandsIn
    <3>2. CASE i > from
      <4>1. i + (upto - from) \in 1 .. Len(line) /\ line[i + (upto - from)] \in {"[", "]"}
        BY <1>2, <1>3, <2>2, <3>2
      <4>2. i + (upto - from) \in {start + 1, start + 3}
        BY <2>0, <4>1 DEF StandsIn
      <4>. QED  BY <1>2, <1>3, <1>5, <2>0, <3>2, <4>2 DEF StandsIn
    <3>. QED  BY <1>2, <1>3, <3>1, <3>2
  <2>. QED  BY <1>1, <1>7, <2>1, <2>2 DEF Standing, StandsIn
<1>. QED  BY <1>5, <1>6, <1>7 DEF PasteInPlace

LEMMA MoveInPlace ==
    ASSUME PasteInPlace, NEW to, Input!Move(to)
    PROVE  PasteInPlace'
BY DEF Input!Move, Input!paste, PasteInPlace, Standing, Input!Remnant

LEMMA InsertInPlace ==
    ASSUME InputTypes, PasteInPlace, NEW c \in Input!Typed \cup {Input!Pasted}, Input!Insert(c)
    PROVE  PasteInPlace'
<1>1. CASE pasting /\ UNCHANGED <<line, moved, pasting, placeholder>>
  BY <1>1 DEF PasteInPlace, Standing, Input!Remnant
<1>2. CASE /\ ~pasting /\ c # Input!Pasted /\ ~broken
           /\ line' = Input!Before(cursor) \o <<c>> \o Input!After(cursor)
           /\ moved' = (moved \/ (placeholder > 0 /\ cursor < start + placeholder))
           /\ UNCHANGED <<pasting, content, start, placeholder>>
  <2>1. <<c>> \in Seq(Chars) /\ Len(<<c>>) = 1 /\ <<c>>[1] = c
    BY DEF Chars
  <2>2. /\ Len(line) \in Nat /\ start \in Nat /\ placeholder \in Nat /\ cursor \in 0 .. Len(line)
        /\ LineTypes
    BY <1>2 DEF InputTypes, LineTypes, PasteTypes, Input!Placeholder
  <2>3. /\ Len(line') = Len(line) + 1
        /\ \A i \in 1 .. Len(line') :
              line'[i] = IF i <= cursor THEN line[i]
                         ELSE IF i <= cursor + 1 THEN <<c>>[i - cursor] ELSE line[i - 1]
    BY <1>2, <2>1, <2>2, PutInside
  <2>4. c \notin {"[", "]"}
    BY DEF Input!Typed, Input!Pasted
  <2>5. \A i \in 1 .. Len(line') :
           line'[i] = IF i <= cursor THEN line[i] ELSE IF i = cursor + 1 THEN c ELSE line[i - 1]
    BY <2>1, <2>2, <2>3
  <2>6. SUFFICES ASSUME ~moved'  PROVE (placeholder' = 0 /\ ~Input!Remnant(line')) \/ Standing'
    BY DEF PasteInPlace
  <2>7. ~moved /\ (placeholder = 0 \/ cursor >= start + placeholder)
    <3>1. ~moved /\ ~(placeholder > 0 /\ cursor < start + placeholder)
      BY <1>2, <2>6, Zenon
    <3>2. placeholder = 0 \/ cursor >= start + placeholder
      BY <2>2, <3>1
    <3>. QED  BY <3>1, <3>2
  <2>8. CASE placeholder = 0 /\ ~Input!Remnant(line)
    <3>1. ASSUME NEW i \in 1 .. Len(line')  PROVE line'[i] \notin {"[", "]"}
      <4>1. line'[i] = c \/ \E j \in 1 .. Len(line) : line'[i] = line[j]
        BY <2>2, <2>3, <2>5
      <4>. QED  BY <2>4, <2>8, <4>1 DEF Input!Remnant
    <3>. QED  BY <1>2, <2>8, <3>1 DEF Input!Remnant
  <2>9. CASE Standing
    <3>0. placeholder = 3 /\ StandsIn(line, start)
      BY <2>9, Zenon DEF Standing
    <3>1. /\ start + 3 <= Len(line') /\ line'[start + 1] = "[" /\ line'[start + 2] = "w"
          /\ line'[start + 3] = "]"
      BY <2>2, <2>3, <2>5, <2>7, <3>0 DEF StandsIn
    <3>2. ASSUME NEW i \in 1 .. Len(line'), line'[i] \in {"[", "]"}
          PROVE  i \in {start + 1, start + 3}
      <4>1. CASE i <= cursor
        BY <2>2, <2>3, <2>5, <3>0, <3>2, <4>1 DEF StandsIn
      <4>2. CASE i > cursor
        <5>1. i # cursor + 1 /\ i - 1 \in 1 .. Len(line) /\ line[i - 1] \in {"[", "]"}
          BY <2>2, <2>3, <2>4, <2>5, <3>2, <4>2
        <5>2. i - 1 \in {start + 1, start + 3} /\ i - 1 > cursor
          BY <2>2, <3>0, <4>2, <5>1 DEF StandsIn
        <5>. QED  BY <2>2, <2>7, <3>0, <5>2 DEF StandsIn
      <4>. QED  BY <2>2, <2>3, <4>1, <4>2
    <3>. QED  BY <1>2, <2>9, <3>1, <3>2 DEF Standing, StandsIn
  <2>. QED  BY <2>7, <2>8, <2>9 DEF PasteInPlace
<1>. QED  BY <1>1, <1>2 DEF Input!Insert, Input!InsertChar, Input!paste

LEMMA PasteKeysInPlace ==
    ASSUME InputTypes, PasteInPlace, Input!ClearLine \/ Input!PasteStart \/ Input!PasteEnd
    PROVE  PasteInPlace'
<1>0. /\ moved \in BOOLEAN /\ pasting \in BOOLEAN /\ placeholder \in {0, 3} /\ line \in Seq(Chars)
      /\ Len(line) \in Nat /\ start \in Nat /\ Len(Input!Placeholder) = 3
  BY DEF InputTypes, LineTypes, PasteTypes, Input!Placeholder
<1>1. CASE Input!ClearLine
  <2>1. line' = <<>> /\ moved' = (moved \/ placeholder > 0) /\ placeholder' = placeholder
    BY <1>1 DEF Input!ClearLine
  <2>2. ~Input!Remnant(line')
    BY <2>1 DEF Input!Remnant
  <2>3. moved' \/ placeholder' = 0
    <3>1. placeholder > 0 \/ placeholder = 0
      BY <1>0
    <3>. QED  BY <2>1, <3>1, Zenon
  <2>. QED  BY <2>2, <2>3 DEF PasteInPlace
<1>2. CASE Input!PasteStart
  <2>1. /\ moved' = (moved \/ Input!Remnant(line)) /\ line' = line /\ placeholder' = placeholder
    BY <1>2 DEF Input!PasteStart
  <2>2. SUFFICES ASSUME ~moved'  PROVE placeholder = 0 /\ ~Input!Remnant(line)
    BY <2>1 DEF PasteInPlace, Input!Remnant
  <2>3. ~moved /\ ~Input!Remnant(line)
    BY <2>1, <2>2, Zenon
  <2>4. ~StandsIn(line, start)
    BY <1>0, <2>3 DEF StandsIn, Input!Remnant
  <2>. QED  BY <2>3, <2>4, Zenon DEF PasteInPlace, Standing
<1>3. CASE Input!PasteEnd
  <2>1. PICK at, text :
           /\ at = IF start > Len(line) THEN Len(line) ELSE start
           /\ text = IF Len(content) < Threshold THEN content ELSE Input!Placeholder
    OBVIOUS
  <2>2. /\ pasting' = FALSE /\ UNCHANGED <<content, start>>
        /\ \/ /\ content # <<>> /\ Input!PutAt(text, at)
              /\ placeholder' = (IF text = Input!Placeholder THEN Len(Input!Placeholder) ELSE 0)
              /\ moved' = (Input!Remnant(line) \/ (text = Input!Placeholder /\ at # start))
           \/ /\ moved' = (moved \/ placeholder > 0 \/ Input!Remnant(line))
              /\ UNCHANGED <<line, placeholder>>
    BY <1>3, <2>1 DEF Input!PasteEnd, Input!Length
  <2>3. at \in 0 .. Len(line)
    BY <1>0, <2>1
  <2>4. CASE /\ content # <<>> /\ Input!PutAt(text, at)
             /\ placeholder' = (IF text = Input!Placeholder THEN Len(Input!Placeholder) ELSE 0)
             /\ moved' = (Input!Remnant(line) \/ (text = Input!Placeholder /\ at # start))
    <3>1. SUFFICES ASSUME ~moved'
                   PROVE  (placeholder' = 0 /\ ~Input!Remnant(line')) \/ Standing'
      BY DEF PasteInPlace
    <3>2. ~Input!Remnant(line) /\ (text # Input!Placeholder \/ at = start)
      BY <2>4, <3>1, Zenon
    <3>3. content \in Seq({Input!Pasted}) /\ Len(content) \in Nat
      BY DEF InputTypes, PasteTypes
    <3>4. text \in Seq(Chars)
      <4>1. content \in Seq(Chars)
        BY <3>3 DEF Chars
      <4>2. Input!Placeholder \in Seq(Chars)
        BY DEF Input!Placeholder, Chars, Input!Typed
      <4>. QED  BY <2>1, <4>1, <4>2
    <3>5. /\ Len(line') = Len(line) + Len(text)
          /\ \A i \in 1 .. Len(line') :
                line'[i] = IF i <= at THEN line[i]
                           ELSE IF i <= at + Len(text) THEN text[i - at] ELSE line[i - Len(text)]
      <4>1. line' = Input!Before(at) \o text \o Input!After(at)
        BY <2>4 DEF Input!PutAt
      <4>. QED  BY <2>3, <3>4, <4>1, PutInside DEF InputTypes
    <3>6. Len(text) \in Nat
      BY <3>4
    <3>7. CASE text = Input!Placeholder
      <4>1. at = start /\ placeholder' = 3
        BY <1>0, <2>4, <3>2, <3>7
      <4>2. Len(text) = 3 /\ text[1] = "[" /\ text[2] = "w" /\ text[3] = "]"
        BY <3>7 DEF Input!Placeholder
      <4>3. /\ start + 3 <= Len(line') /\ line'[start + 1] = "[" /\ line'[start + 2] = "w"
            /\ line'[start + 3] = "]"
        BY <1>0, <2>3, <3>5, <4>1, <4>2
      <4>4. ASSUME NEW i \in 1 .. Len(line'), line'[i] \in {"[", "]"}
            PROVE  i \in {start + 1, start + 3}
        <5>1. CASE i <= start \/ i > start + 3
          <6>1. \E j \in 1 .. Len(line) : line'[i] = line[j]
            BY <1>0, <2>3, <3>5, <4>1, <4>2, <5>1
          <6>. QED  BY <3>2, <4>4, <6>1 DEF Input!Remnant
        <5>2. CASE i = start + 2
          BY <4>3, <4>4, <5>2
        <5>3. i <= start \/ i > start + 3 \/ i \in {start + 1, start + 2, start + 3}
          BY <1>0
        <5>. QED  BY <5>1, <5>2, <5>3
      <4>. QED  BY <2>2, <2>4, <4>1, <4>3, <4>4 DEF Standing, StandsIn
    <3>8. CASE text # Input!Placeholder
      <4>1. text = content /\ placeholder' = 0
        BY <2>1, <2>4, <3>8
      <4>2. \A i \in 1 .. Len(text) : text[i] = Input!Pasted
        BY <3>3, <4>1
      <4>3. ASSUME NEW i \in 1 .. Len(line')  PROVE line'[i] \notin {"[", "]"}
        <5>1. \/ \E j \in 1 .. Len(line) : line'[i] = line[j]
              \/ \E j \in 1 .. Len(text) : line'[i] = text[j]
          BY <1>0, <2>3, <3>5, <3>6
        <5>. QED  BY <3>2, <4>2, <5>1 DEF Input!Remnant, Input!Pasted
      <4>. QED  BY <4>1, <4>3 DEF Input!Remnant
    <3>. QED  BY <3>7, <3>8
  <2>5. CASE /\ moved' = (moved \/ placeholder > 0 \/ Input!Remnant(line))
             /\ UNCHANGED <<line, placeholder>>
    <3>1. SUFFICES ASSUME ~moved'  PROVE placeholder = 0 /\ ~Input!Remnant(line)
      BY <2>5 DEF PasteInPlace, Input!Remnant
    <3>2. ~(placeholder > 0) /\ ~Input!Remnant(line)
      BY <2>5, <3>1, Zenon
    <3>. QED  BY <1>0, <3>2
  <2>. QED  BY <2>2, <2>4, <2>5
<1>. QED  BY <1>1, <1>2, <1>3

LEMMA ShowInPlace ==
    ASSUME InputTypes, PasteInPlace, NEW text, Input!Show(text)
    PROVE  PasteInPlace'
<1>1. /\ line' = text /\ placeholder' = placeholder
      /\ moved' = (moved \/ placeholder > 0 \/ Input!Remnant(text))
  BY DEF Input!Show, Input!paste
<1>2. SUFFICES ASSUME ~moved'  PROVE placeholder' = 0 /\ ~Input!Remnant(line')
  BY DEF PasteInPlace
<1>3. ~(placeholder > 0) /\ ~Input!Remnant(text)
  BY <1>1, <1>2, Zenon
<1>4. placeholder = 0
  BY <1>3 DEF InputTypes, PasteTypes, Input!Placeholder
<1>. QED  BY <1>1, <1>3, <1>4 DEF Input!Remnant

LEMMA StaysInPlace ==
    ASSUME InputBounds, InputTypes, PasteInPlace, Input!Next
    PROVE  PasteInPlace'
<1>1. ~broken => cursor \in Nat /\ Len(line) \in Nat /\ cursor <= Len(line) /\ LineTypes
  BY DEF InputTypes, LineTypes
<1>2. CASE \E c \in Input!Typed \cup {Input!Pasted} : Input!Insert(c)
  BY <1>2, InsertInPlace
<1>3. CASE /\ ~broken
           /\ \/ Input!Backspace \/ Input!DeleteChar \/ Input!KillToEnd \/ Input!KillToStart
              \/ Input!DeleteWordBackward \/ Input!DeleteWordForward
  <2>1. \E from \in 0 .. Len(line) : \E upto \in from .. Len(line) : Input!Cut(from, upto)
    <3>1. cursor > 0 => Input!WordStart \in 0 .. cursor
      BY <1>1, <1>3, WordStartBefore
    <3>2. cursor < Len(line) => Input!WordEnd \in cursor .. Len(line)
      BY <1>1, <1>3, WordEndAfter
    <3>3. Input!CharLength \in {1, 2}
      BY DEF Input!CharLength
    <3>4. \/ cursor > 0 /\ Input!Cut(cursor - 1, cursor)
          \/ cursor + Input!CharLength <= Len(line) /\ Input!Cut(cursor, cursor + Input!CharLength)
          \/ cursor < Len(line) /\ Input!Cut(cursor, Len(line))
          \/ cursor > 0 /\ Input!Cut(0, cursor)
          \/ cursor > 0 /\ Input!Cut(Input!WordStart, cursor)
          \/ cursor < Len(line) /\ Input!Cut(cursor, Input!WordEnd)
      BY <1>3 DEF Input!Backspace, Input!DeleteChar, Input!KillToEnd, Input!KillToStart,
         Input!DeleteWordBackward, Input!DeleteWordForward, Input!Length
    <3>. DEFINE Places == {p \in (0 .. Len(line)) \X (0 .. Len(line)) : p[1] <= p[2]}
    <3>5. \E p \in Places : Input!Cut(p[1], p[2])
      <4>1. /\ cursor > 0 => <<cursor - 1, cursor>> \in Places /\ <<0, cursor>> \in Places
                             /\ <<Input!WordStart, cursor>> \in Places
            /\ cursor + Input!CharLength <= Len(line) => <<cursor, cursor + Input!CharLength>> \in Places
            /\ cursor < Len(line) => <<cursor, Len(line)>> \in Places
                                     /\ <<cursor, Input!WordEnd>> \in Places
        BY <1>1, <1>3, <3>1, <3>2, <3>3
      <4>. HIDE DEF Places
      <4>2. ASSUME NEW a, NEW b, <<a, b>> \in Places, Input!Cut(a, b)
            PROVE  \E p \in Places : Input!Cut(p[1], p[2])
        <5>1. <<a, b>>[1] = a /\ <<a, b>>[2] = b
          OBVIOUS
        <5>. QED  BY <4>2, <5>1, Zenon
      <4>. QED  BY <3>4, <4>1, <4>2, Zenon
    <3>6. PICK p \in Places : Input!Cut(p[1], p[2])
      BY <3>5
    <3>7. p[1] \in 0 .. Len(line) /\ p[2] \in p[1] .. Len(line)
      BY <1>1, <1>3
    <3>. QED  BY <3>6, <3>7
  <2>. QED  BY <2>1, CutInPlace
<1>4. CASE Input!DeleteSplitChar
  BY <1>4 DEF Input!DeleteSplitChar, PasteInPlace
<1>5. CASE Input!MoveCursor
  BY <1>5, MoveInPlace DEF Input!MoveCursor
<1>6. CASE Input!ClearLine \/ Input!PasteStart \/ Input!PasteEnd
  BY <1>6, PasteKeysInPlace
<1>7. CASE Input!Previous \/ Input!NextLine
  BY <1>7, ShowInPlace DEF Input!Previous, Input!NextLine
<1>8. CASE Input!Submit
  <2>1. line' = <<>> /\ placeholder' = 0
    BY <1>8 DEF Input!Submit, Input!ClearInput
  <2>. QED  BY <2>1 DEF PasteInPlace, Input!Remnant
<1>9. CASE Input!Astray
  BY <1>9 DEF Input!Astray, PasteInPlace
<1>. QED  BY <1>2, <1>3, <1>4, <1>5, <1>6, <1>7, <1>8, <1>9 DEF Input!Next, Input!Edit

(* The placeholder in the line is the first thing there that looks like one.  *)
LEMMA PlaceholderFound ==
    ASSUME LineTypes, start \in Nat, StandsIn(line, start)
    PROVE  /\ Input!Placeholder \in Input!SubSeqs(line)
           /\ Input!IndexFirstSubSeq(Input!Placeholder, line) = start + 1
<1>. DEFINE P == Input!Placeholder
<1>1. line \in Seq(Chars) /\ Len(line) \in Nat /\ Len(P) = 3
      /\ P[1] = "[" /\ P[2] = "w" /\ P[3] = "]" /\ P = <<"[", "w", "]">>
  BY DEF LineTypes, Input!Placeholder
<1>2. /\ start + 3 <= Len(line)
      /\ line[start + 1] = "[" /\ line[start + 2] = "w" /\ line[start + 3] = "]"
      /\ \A i \in 1 .. Len(line) : line[i] \in {"[", "]"} => i \in {start + 1, start + 3}
  BY DEF StandsIn
<1>. HIDE DEF P
<1>3. ASSUME NEW j \in 0 .. Len(line)
      PROVE  P \in Input!SubSeqs(SubSeq(line, 1, j)) <=> start + 3 <= j
  <2>1. PICK w : w = SubSeq(line, 1, j)
    OBVIOUS
  <2>2. w \in Seq(Chars) /\ Len(w) = j /\ \A i \in 1 .. j : w[i] = line[i]
    BY <1>1, <2>1
  <2>3. ASSUME start + 3 <= j  PROVE P \in Input!SubSeqs(w)
    <3>1. PICK s : s = SubSeq(w, start + 1, start + 3)
      OBVIOUS
    <3>2. Len(s) = 3 /\ s[1] = w[start + 1] /\ s[2] = w[start + 2] /\ s[3] = w[start + 3]
          /\ s \in Seq(Chars)
      BY <2>2, <2>3, <3>1
    <3>3. s = P
      BY <1>1, <1>2, <2>2, <2>3, <3>2
    <3>4. start \in 0 .. Len(w) /\ start + 3 \in 0 .. Len(w)
      BY <2>2, <2>3
    <3>5. \E x \in 0 .. Len(w), y \in 0 .. Len(w) : P = SubSeq(w, x + 1, y)
      BY <3>1, <3>3, <3>4
    <3>. QED  BY <3>5 DEF Input!SubSeqs
  <2>4. ASSUME P \in Input!SubSeqs(w)  PROVE start + 3 <= j
    <3>1. PICK a \in 0 .. Len(w), b \in 0 .. Len(w) : P = SubSeq(w, a + 1, b)
      BY <2>4 DEF Input!SubSeqs
    <3>2. b = a + 3
      <4>0. Len(w) \in Nat
        BY <2>2
      <4>1. Len(w) \in Nat /\ Len(SubSeq(w, a + 1, b)) = 3
        BY <1>1, <3>1, <4>0, Zenon
      <4>2. Len(SubSeq(w, a + 1, b)) = IF a + 1 <= b THEN b - a ELSE 0
        BY <2>2, <4>1
      <4>. QED  BY <4>1, <4>2
    <3>3. P[1] = w[a + 1] /\ a + 1 \in 1 .. j /\ b <= j
      BY <1>1, <2>2, <3>1, <3>2
    <3>4. a + 1 \in {start + 1, start + 3} /\ line[a + 1] = "["
      BY <1>1, <1>2, <2>2, <3>3
    <3>5. a = start
      BY <1>2, <3>4
    <3>. QED  BY <3>2, <3>3, <3>5
  <2>. QED  BY <2>1, <2>3, <2>4
<1>4. P \in Input!SubSeqs(line)
  <2>1. SubSeq(line, 1, Len(line)) = line
    BY <1>1
  <2>2. P \in Input!SubSeqs(SubSeq(line, 1, Len(line))) <=> start + 3 <= Len(line)
    BY <1>1, <1>3
  <2>. QED  BY <1>2, <2>1, <2>2
<1>. DEFINE First(i) == /\ P \in Input!SubSeqs(SubSeq(line, 1, i))
                        /\ \A j \in 0 .. i - 1 : P \notin Input!SubSeqs(SubSeq(line, 1, j))
            last == CHOOSE i \in 0 .. Len(line) : First(i)
<1>5. start + 3 \in 0 .. Len(line) /\ First(start + 3)
  BY <1>1, <1>2, <1>3
<1>6. ASSUME NEW i \in 0 .. Len(line), First(i)  PROVE i = start + 3
  <2>1. i >= start + 3
    BY <1>3, <1>6
  <2>2. CASE i > start + 3
    BY <1>1, <1>2, <1>3, <1>6, <2>2
  <2>. QED  BY <2>1, <2>2
<1>7. Input!IndexFirstSubSeq(P, line) = last - (Len(P) - 1)
  BY DEF Input!IndexFirstSubSeq
<1>. HIDE DEF First
<1>8. last = start + 3
  BY <1>5, <1>6
<1>9. Input!IndexFirstSubSeq(P, line) = start + 1
  <2>. HIDE DEF last
  <2>. QED  BY <1>1, <1>7, <1>8
<1>. QED  BY <1>4, <1>9 DEF P

LEMMA SubmittedSafe == ASSUME InputTypes, PasteInPlace PROVE Input!SubmittedAsShown
<1>1. SUFFICES ASSUME ~moved, ~pasting
               PROVE  Input!InputText = Input!ReplaceFirstSubSeq(content, Input!Placeholder, line)
  BY DEF Input!SubmittedAsShown
<1>2. line \in Seq(Chars) /\ Len(line) \in Nat /\ start \in Nat /\ LineTypes
  BY DEF InputTypes, LineTypes, PasteTypes
<1>3. CASE placeholder = 0 /\ ~Input!Remnant(line)
  <2>1. Input!Placeholder \notin Input!SubSeqs(line)
    <3>1. SUFFICES ASSUME NEW a \in 0 .. Len(line), NEW b \in 0 .. Len(line),
                          Input!Placeholder = SubSeq(line, a + 1, b)
                   PROVE  FALSE
      BY DEF Input!SubSeqs
    <3>2. Len(Input!Placeholder) = 3 /\ Input!Placeholder[1] = "["
      BY DEF Input!Placeholder
    <3>3. b = a + 3
      BY <1>2, <3>1, <3>2
    <3>4. a + 1 \in 1 .. Len(line) /\ line[a + 1] = "["
      BY <1>2, <3>1, <3>2, <3>3
    <3>. QED  BY <1>3, <3>4 DEF Input!Remnant
  <2>. QED  BY <1>3, <2>1 DEF Input!InputText, Input!ReplaceFirstSubSeq
<1>4. CASE Standing
  <2>1. content # <<>> /\ placeholder = 3 /\ StandsIn(line, start)
    BY <1>4, Zenon DEF Standing
  <2>2. start + 3 <= Len(line)
    BY <2>1 DEF StandsIn
  <2>3. Input!InputText = Input!Before(start) \o content \o Input!After(start + 3)
    BY <1>2, <2>1, <2>2 DEF Input!InputText, Input!Length
  <2>4. /\ Input!Placeholder \in Input!SubSeqs(line)
        /\ Input!IndexFirstSubSeq(Input!Placeholder, line) = start + 1
    BY <1>2, <2>1, PlaceholderFound
  <2>5. Len(Input!Placeholder) = 3
    BY DEF Input!Placeholder
  <2>6. Input!ReplaceFirstSubSeq(content, Input!Placeholder, line)
            = Input!ReplaceSubSeqAt(start + 1, content, Input!Placeholder, line)
    BY <2>4 DEF Input!ReplaceFirstSubSeq
  <2>7. (start + 1) - 1 = start /\ (start + 1) + 3 = (start + 3) + 1
    BY <1>2
  <2>8. Input!ReplaceSubSeqAt(start + 1, content, Input!Placeholder, line)
            = Input!Before(start) \o content \o Input!After(start + 3)
    BY <2>5, <2>7 DEF Input!ReplaceSubSeqAt, Input!Before, Input!After, Input!Length
  <2>. QED  BY <2>3, <2>6, <2>8
<1>. QED  BY <1>1, <1>3, <1>4, Zenon DEF PasteInPlace

-----------------------------------------------------------------------------
(* The lines in the history file.                                             *)
Characters == {"a", "\\", "n", "newline", "return"}

HistoryTexts == Texts \subseteq Seq(Characters) /\ MaxAppends \in Nat

HistoryTypes ==
    /\ file \in Seq(Characters) /\ damaged \in BOOLEAN
    /\ submitted \in Seq(Texts) /\ Len(submitted) <= MaxAppends

LEMMA EscapeTyped == ASSUME NEW text \in Seq(Characters) PROVE Hist!Escape(text) \in Seq(Characters)
<1>1. PICK n \in Nat : DOMAIN text = 1 .. n /\ \A i \in 1 .. n : text[i] \in Characters
  BY Len(text) \in Nat
<1>2. ASSUME NEW c \in Characters  PROVE Hist!EscapeChar(c) \in Seq(Characters)
  <2>1. CASE c = "newline"
    <3>1. Hist!EscapeChar(c) = <<"\\", "n">>
      BY <2>1 DEF Hist!EscapeChar
    <3>2. "\\" \in Characters /\ "n" \in Characters
      BY DEF Characters
    <3>. QED  BY <3>1, <3>2
  <2>2. CASE c # "newline"
    <3>1. Hist!EscapeChar(c) = <<c>>
      BY <2>2 DEF Hist!EscapeChar
    <3>. QED  BY <3>1
  <2>. QED  BY <2>1, <2>2
<1>3. [i \in DOMAIN text |-> Hist!EscapeChar(text[i])] \in Seq(Seq(Characters))
  BY <1>1, <1>2
<1>4. View!FlattenSeq([i \in DOMAIN text |-> Hist!EscapeChar(text[i])]) \in Seq(Characters)
  BY <1>3, FlattenTyped, FlattenIs
<1>5. Hist!Escape(text) = View!FlattenSeq([i \in DOMAIN text |-> Hist!EscapeChar(text[i])])
  BY Zenon DEF Hist!Escape, Hist!FlattenSeq, View!FlattenSeq
<1>. QED  BY <1>4, <1>5

LEMMA HistoryStep ==
    ASSUME HistoryTexts, HistoryTypes, [Hist!Next]_histVars
    PROVE  HistoryTypes'
<1>1. CASE UNCHANGED histVars
  BY <1>1 DEF histVars, HistoryTypes
<1>2. ASSUME NEW text \in Texts, Hist!AppendLine(text) \/ Hist!AppendPart(text)  PROVE HistoryTypes'
  <2>1. PICK whole \in Seq(Characters) : whole = Hist!Escape(text) \o <<"newline">>
    <3>1. PICK escaped \in Seq(Characters) : escaped = Hist!Escape(text)
      BY EscapeTyped DEF HistoryTexts
    <3>2. <<"newline">> \in Seq(Characters)
      BY DEF Characters
    <3>. QED  BY <3>1, <3>2, ConcatProperties
  <2>2. PICK part \in Seq(Characters) : file' = file \o part
    <3>1. CASE Hist!AppendLine(text)
      <4>1. PICK escaped \in Seq(Characters) : escaped = Hist!Escape(text)
        BY EscapeTyped DEF HistoryTexts
      <4>2. PICK end \in Seq(Characters) : end = <<"newline">>
        <5>1. <<"newline">> \in Seq(Characters)
          BY DEF Characters
        <5>. QED  BY <5>1, Zenon
      <4>3. file' = file \o escaped \o end /\ file \in Seq(Characters)
        BY <3>1, <4>1, <4>2 DEF Hist!AppendLine, HistoryTypes
      <4>4. (file \o escaped) \o end = file \o (escaped \o end)
        BY <4>3
      <4>. QED  BY <2>1, <4>1, <4>2, <4>3, <4>4
    <3>2. CASE Hist!AppendPart(text)
      <4>1. PICK n \in 0 .. Len(whole) - 1 : file' = file \o SubSeq(whole, 1, n)
        BY <2>1, <3>2 DEF Hist!AppendPart
      <4>2. SubSeq(whole, 1, n) \in Seq(Characters)
        OBVIOUS
      <4>. QED  BY <4>1, <4>2
    <3>. QED  BY <1>2, <3>1, <3>2
  <2>3. file' \in Seq(Characters)
    BY <2>2, ConcatProperties DEF HistoryTypes
  <2>4. submitted' = Append(submitted, text) /\ Len(submitted) < MaxAppends /\ damaged' \in {damaged, TRUE}
    BY <1>2 DEF Hist!AppendLine, Hist!AppendPart
  <2>5. submitted' \in Seq(Texts) /\ Len(submitted') <= MaxAppends
    BY <2>4 DEF HistoryTypes, HistoryTexts
  <2>. QED  BY <2>3, <2>4, <2>5 DEF HistoryTypes
<1>. QED  BY <1>1, <1>2 DEF Hist!Next

LineChars == {"a", "\\", "n", "return"}

LEMMA LineCharsAre ==
    /\ LineChars \subseteq Characters /\ "newline" \in Characters /\ "newline" \notin LineChars
    /\ \A c \in Characters : c # "newline" => c \in LineChars
    /\ "\\" \in LineChars /\ "n" \in LineChars
BY DEF Characters, LineChars

(* A text that has been read: the lines that have ended, and the rest.        *)
ReadingBegun == [ended |-> <<>>, rest |-> <<>>]

ReadMore(before, c) ==
    IF c = "newline" THEN [ended |-> Append(before.ended, before.rest), rest |-> <<>>]
    ELSE [ended |-> before.ended, rest |-> Append(before.rest, c)]

Readings == [ended : Seq(Seq(LineChars)), rest : Seq(LineChars)]

ReadsOn(f, text) ==
    /\ f \in [0 .. Len(text) -> Readings] /\ f[0] = ReadingBegun
    /\ \A n \in 1 .. Len(text) : f[n] = ReadMore(f[n - 1], text[n])

ReadAs(text, reading) == \E f : ReadsOn(f, text) /\ f[Len(text)] = reading

LEMMA ReadMoreTyped ==
    ASSUME NEW before \in Readings, NEW c \in Characters
    PROVE  ReadMore(before, c) \in Readings
<1>1. PICK ended \in Seq(Seq(LineChars)), rest \in Seq(LineChars) :
          before.ended = ended /\ before.rest = rest
  BY DEF Readings
<1>2. Append(ended, rest) \in Seq(Seq(LineChars)) /\ <<>> \in Seq(LineChars)
  OBVIOUS
<1>3. c # "newline" => Append(rest, c) \in Seq(LineChars)
  <2>1. c # "newline" => c \in LineChars
    BY LineCharsAre
  <2>. QED  BY <2>1
<1>4. CASE c = "newline"
  BY <1>1, <1>2, <1>4 DEF ReadMore, Readings
<1>5. CASE c # "newline"
  BY <1>1, <1>3, <1>5 DEF ReadMore, Readings
<1>. QED  BY <1>4, <1>5

LEMMA ReadNothing == ReadingBegun \in Readings /\ ReadAs(<<>>, ReadingBegun)
<1>1. <<>> \in Seq(Seq(LineChars)) /\ <<>> \in Seq(LineChars)
  OBVIOUS
<1>2. ReadingBegun \in Readings
  BY <1>1 DEF Readings, ReadingBegun
<1>. DEFINE f == [n \in 0 .. 0 |-> ReadingBegun]
<1>3. f \in [0 .. 0 -> Readings] /\ f[0] = ReadingBegun /\ 1 .. 0 = {}
  BY <1>2
<1>. HIDE DEF f
<1>4. PICK none : none = <<>> /\ Len(none) = 0
  OBVIOUS
<1>5. ReadsOn(f, none)
  BY <1>3, <1>4 DEF ReadsOn
<1>6. ReadAs(none, ReadingBegun)
  BY <1>3, <1>4, <1>5 DEF ReadAs
<1>. QED  BY <1>2, <1>4, <1>6

LEMMA ReadAppend ==
    ASSUME NEW text \in Seq(Characters), NEW reading, ReadAs(text, reading), NEW c \in Characters
    PROVE  ReadAs(Append(text, c), ReadMore(reading, c))
<1>1. PICK f : ReadsOn(f, text) /\ f[Len(text)] = reading
  BY DEF ReadAs
<1>2. PICK m \in Nat : m = Len(text)
  OBVIOUS
<1>3. PICK longer : longer = Append(text, c)
  OBVIOUS
<1>4. Len(longer) = m + 1 /\ longer[m + 1] = c /\ \A n \in 1 .. m : longer[n] = text[n]
  BY <1>2, <1>3
<1>5. /\ f \in [0 .. m -> Readings] /\ f[0] = ReadingBegun /\ f[m] = reading
      /\ \A n \in 1 .. m : f[n] = ReadMore(f[n - 1], text[n])
  BY <1>1, <1>2 DEF ReadsOn
<1>6. PICK after \in Readings : after = ReadMore(reading, c)
  BY <1>5, ReadMoreTyped
<1>. DEFINE g == [n \in 0 .. m + 1 |-> IF n = m + 1 THEN after ELSE f[n]]
<1>7. /\ g \in [0 .. m + 1 -> Readings] /\ g[m + 1] = after
      /\ \A n \in 0 .. m : g[n] = f[n]
  <2>1. \A n \in 0 .. m + 1 : n # m + 1 => n \in 0 .. m
    OBVIOUS
  <2>2. m + 1 \in 0 .. m + 1 /\ \A n \in 0 .. m : n \in 0 .. m + 1 /\ n # m + 1
    OBVIOUS
  <2>. QED  BY <1>5, <2>1, <2>2
<1>. HIDE DEF g
<1>8. ASSUME NEW n \in 1 .. m + 1  PROVE g[n] = ReadMore(g[n - 1], longer[n])
  <2>1. CASE n = m + 1
    <3>1. n - 1 = m /\ m \in 0 .. m
      BY <2>1
    <3>. QED  BY <1>4, <1>5, <1>6, <1>7, <2>1, <3>1
  <2>2. CASE n # m + 1
    <3>1. n \in 1 .. m /\ n \in 0 .. m /\ n - 1 \in 0 .. m
      BY <2>2
    <3>. QED  BY <1>4, <1>5, <1>7, <3>1
  <2>. QED  BY <2>1, <2>2
<1>9. g[0] = ReadingBegun
  <2>1. 0 \in 0 .. m
    OBVIOUS
  <2>. QED  BY <1>5, <1>7, <2>1
<1>10. ReadsOn(g, longer)
  BY <1>4, <1>7, <1>8, <1>9 DEF ReadsOn
<1>11. ReadAs(longer, after)
  BY <1>4, <1>7, <1>10 DEF ReadAs
<1>. QED  BY <1>3, <1>6, <1>11

LEMMA ReadOnce ==
    ASSUME NEW text \in Seq(Characters), NEW r, NEW q, ReadAs(text, r), ReadAs(text, q)
    PROVE  r = q
<1>1. PICK m \in Nat : m = Len(text)
  OBVIOUS
<1>2. PICK f : ReadsOn(f, text) /\ f[Len(text)] = r
  BY DEF ReadAs
<1>3. PICK g : ReadsOn(g, text) /\ g[Len(text)] = q
  BY DEF ReadAs
<1>. DEFINE S == {n \in Nat : n <= m => f[n] = g[n]}
<1>4. 0 \in S
  BY <1>2, <1>3 DEF ReadsOn
<1>5. ASSUME NEW n \in Nat, n \in S  PROVE n + 1 \in S
  <2>1. SUFFICES ASSUME n + 1 <= m  PROVE f[n + 1] = g[n + 1]
    OBVIOUS
  <2>2. n + 1 \in 1 .. Len(text) /\ (n + 1) - 1 = n /\ n <= m
    BY <1>1, <2>1
  <2>3. f[n] = g[n]
    BY <1>5, <2>2
  <2>4. f[n + 1] = ReadMore(f[n], text[n + 1]) /\ g[n + 1] = ReadMore(g[n], text[n + 1])
    BY <1>2, <1>3, <2>2 DEF ReadsOn
  <2>. QED  BY <2>3, <2>4
<1>. HIDE DEF S
<1>6. m \in S
  BY <1>4, <1>5, AllNaturals
<1>. QED  BY <1>1, <1>2, <1>3, <1>6 DEF S

(* What Lines makes of the reading of its text.                               *)
LinesRead(reading) ==
    IF reading.rest = <<>> THEN reading.ended ELSE Append(reading.ended, reading.rest)

Defines(f, text) ==
    f = [n \in 0 .. Len(text) |->
            LET before == f[n - 1] IN
            IF n = 0 THEN [ended |-> <<>>, rest |-> <<>>]
            ELSE IF text[n] = "newline"
            THEN [ended |-> Append(before.ended, before.rest), rest |-> <<>>]
            ELSE [ended |-> before.ended, rest |-> Append(before.rest, text[n])]]

LEMMA LinesReads ==
    ASSUME NEW text \in Seq(Characters)
    PROVE  \E reading : ReadAs(text, reading) /\ Hist!Lines(text) = LinesRead(reading)
<1>1. PICK m \in Nat : m = Len(text)
  OBVIOUS
<1>. DEFINE S == {t \in Seq(Characters) : \E reading : ReadAs(t, reading)}
<1>2. <<>> \in S
  BY ReadNothing
<1>3. \A t \in Seq(Characters), c \in Characters : t \in S => Append(t, c) \in S
  <2>1. ASSUME NEW t \in Seq(Characters), NEW c \in Characters, t \in S  PROVE Append(t, c) \in S
    <3>1. Append(t, c) \in Seq(Characters)
      OBVIOUS
    <3>2. PICK reading : ReadAs(t, reading)
      BY <2>1
    <3>3. ReadAs(Append(t, c), ReadMore(reading, c))
      BY <3>2, ReadAppend
    <3>. QED  BY <3>1, <3>3
  <2>. QED  BY <2>1
<1>. HIDE DEF S
<1>4. text \in S
  BY <1>2, <1>3, AllSequences
<1>5. PICK reading : ReadAs(text, reading)
  BY <1>4 DEF S
<1>6. PICK f : ReadsOn(f, text) /\ f[m] = reading
  BY <1>1, <1>5 DEF ReadAs
<1>7. f \in [0 .. m -> Readings] /\ f[0] = ReadingBegun
      /\ \A n \in 1 .. m : f[n] = ReadMore(f[n - 1], text[n])
  BY <1>1, <1>6 DEF ReadsOn
<1>8. f = [n \in 0 .. m |-> IF n = 0 THEN ReadingBegun ELSE ReadMore(f[n - 1], text[n])]
  <2>1. \A n \in 0 .. m : n # 0 => n \in 1 .. m
    OBVIOUS
  <2>. QED  BY <1>7, <2>1
<1>9. \A g : Defines(g, text) <=>
          g = [n \in 0 .. m |-> IF n = 0 THEN ReadingBegun ELSE ReadMore(g[n - 1], text[n])]
  BY <1>1, Zenon DEF Defines, ReadingBegun, ReadMore
<1>. DEFINE read == CHOOSE g : Defines(g, text)
<1>10. Hist!Lines(text) = LinesRead(read[m])
  <2>1. Hist!Lines(text) = LinesRead(read[Len(text)])
    BY DEF Hist!Lines, LinesRead, Defines
  <2>. QED  BY <1>1, <2>1
<1>11. Defines(read, text)
  BY <1>8, <1>9, Zenon
<1>. HIDE DEF read
<1>12. read = [n \in 0 .. m |-> IF n = 0 THEN ReadingBegun ELSE ReadMore(read[n - 1], text[n])]
  BY <1>9, <1>11, Zenon
<1>. DEFINE N == {n \in Nat : n <= m => read[n] = f[n]}
<1>13. 0 \in N
  <2>1. read[0] = ReadingBegun
    <3>1. 0 \in 0 .. m
      OBVIOUS
    <3>. QED  BY <1>12, <3>1, Zenon
  <2>. QED  BY <1>7, <2>1
<1>14. ASSUME NEW n \in Nat, n \in N  PROVE n + 1 \in N
  <2>1. SUFFICES ASSUME n + 1 <= m  PROVE read[n + 1] = f[n + 1]
    OBVIOUS
  <2>2. n + 1 \in 0 .. m /\ n + 1 # 0 /\ n + 1 \in 1 .. m /\ (n + 1) - 1 = n /\ n <= m
    BY <2>1
  <2>3. read[n + 1] = ReadMore(read[(n + 1) - 1], text[n + 1])
    BY <1>12, <2>2, Zenon
  <2>4. f[n + 1] = ReadMore(f[(n + 1) - 1], text[n + 1])
    BY <1>7, <2>2, Zenon
  <2>5. read[n] = f[n]
    BY <1>14, <2>2
  <2>. QED  BY <2>2, <2>3, <2>4, <2>5
<1>. HIDE DEF N
<1>15. m \in N
  BY <1>13, <1>14, AllNaturals
<1>. QED  BY <1>5, <1>6, <1>10, <1>15 DEF N

(* A line with its end, after whole lines.                                    *)
LEMMA ReadLine ==
    ASSUME NEW text \in Seq(Characters), NEW ended \in Seq(Seq(LineChars)),
           ReadAs(text, [ended |-> ended, rest |-> <<>>]), NEW stored \in Seq(LineChars)
    PROVE  ReadAs(text \o stored \o <<"newline">>, [ended |-> Append(ended, stored), rest |-> <<>>])
<1>. DEFINE S == {w \in Seq(LineChars) : ReadAs(text \o w, [ended |-> ended, rest |-> w])}
<1>1. <<>> \in S
  <2>1. text \o <<>> = text /\ <<>> \in Seq(LineChars)
    OBVIOUS
  <2>. QED  BY <2>1
<1>2. ASSUME NEW w \in Seq(LineChars), NEW c \in LineChars, w \in S  PROVE Append(w, c) \in S
  <2>1. w \in Seq(Characters) /\ c \in Characters /\ c # "newline"
    BY LineCharsAre
  <2>2. PICK t \in Seq(Characters) : t = text \o w
    BY <2>1, ConcatProperties
  <2>3. ReadAs(Append(t, c), ReadMore([ended |-> ended, rest |-> w], c))
    BY <1>2, <2>1, <2>2, ReadAppend
  <2>4. ReadMore([ended |-> ended, rest |-> w], c) = [ended |-> ended, rest |-> Append(w, c)]
    BY <2>1 DEF ReadMore
  <2>5. Append(t, c) = text \o Append(w, c)
    <3>1. PICK u \in Seq(Characters), e \in Characters : u = w /\ e = c
      BY <2>1
    <3>2. Append(text \o u, e) = text \o Append(u, e)
      <4>1. AppendsToConcat(Characters)
        BY AppendToConcat
      <4>. QED  BY <4>1, Zenon DEF AppendsToConcat
    <3>. QED  BY <2>2, <3>1, <3>2
  <2>6. Append(w, c) \in Seq(LineChars)
    OBVIOUS
  <2>. QED  BY <2>3, <2>4, <2>5, <2>6
<1>. HIDE DEF S
<1>3. stored \in S
  BY <1>1, <1>2, AllSequences
<1>4. ReadAs(text \o stored, [ended |-> ended, rest |-> stored]) /\ stored \in Seq(Characters)
  BY <1>3, LineCharsAre DEF S
<1>5. PICK t \in Seq(Characters) : t = text \o stored
  BY <1>4, ConcatProperties
<1>6. "newline" \in Characters
  BY DEF Characters
<1>7. ReadAs(Append(t, "newline"), ReadMore([ended |-> ended, rest |-> stored], "newline"))
  BY <1>4, <1>5, <1>6, ReadAppend
<1>8. ReadMore([ended |-> ended, rest |-> stored], "newline")
          = [ended |-> Append(ended, stored), rest |-> <<>>]
  BY DEF ReadMore
<1>9. Append(t, "newline") = t \o <<"newline">>
  OBVIOUS
<1>. QED  BY <1>5, <1>7, <1>8, <1>9

(* Escaping and back.                                                         *)
Escaped == [c \in Characters |-> Hist!EscapeChar(c)]

LEMMA EscapedIs ==
    ASSUME NEW text \in Seq(Characters)
    PROVE  /\ Escaped \in [Characters -> Seq(LineChars)]
           /\ Hist!Escape(text) = FlattenMap(Escaped, text)
<1>1. \A c \in Characters : Hist!EscapeChar(c) \in Seq(LineChars)
  <2>1. <<"\\", "n">> \in Seq(LineChars) /\ \A c \in LineChars : <<c>> \in Seq(LineChars)
    BY LineCharsAre
  <2>. QED  BY <2>1, LineCharsAre, Zenon DEF Hist!EscapeChar
<1>2. \A i \in DOMAIN text : Escaped[text[i]] = Hist!EscapeChar(text[i])
  BY DEF Escaped
<1>3. [i \in DOMAIN text |-> Escaped[text[i]]] = [i \in DOMAIN text |-> Hist!EscapeChar(text[i])]
  BY <1>2
<1>4. Hist!Escape(text) = Hist!FlattenSeq([i \in DOMAIN text |-> Hist!EscapeChar(text[i])])
  BY DEF Hist!Escape
<1>. QED  BY <1>1, <1>3, <1>4, FlattenIs, Zenon DEF FlattenMap, Escaped

Piece(stored, i) ==
    IF Hist!IsEscape(stored, i) THEN <<"newline">>
    ELSE IF Hist!IsEscape(stored, i - 1) THEN <<>>
    ELSE <<stored[i]>>

Pieces(stored) == [i \in DOMAIN stored |-> Piece(stored, i)]

LEMMA UnescapeIs ==
    ASSUME NEW stored \in Seq(Characters)
    PROVE  /\ Pieces(stored) \in Seq(Seq(Characters)) /\ Hist!Unescape(stored) = FlattenSeq(Pieces(stored))
           /\ Hist!Unescape(stored) \in Seq(Characters)
<1>1. PICK n \in Nat : DOMAIN stored = 1 .. n /\ \A i \in 1 .. n : stored[i] \in Characters
  BY Len(stored) \in Nat
<1>2. \A i \in 1 .. n : Piece(stored, i) \in Seq(Characters)
  <2>1. "newline" \in Characters
    BY DEF Characters
  <2>2. <<>> \in Seq(Characters) /\ \A c \in Characters : <<c>> \in Seq(Characters)
    OBVIOUS
  <2>. QED  BY <1>1, <2>1, <2>2, Zenon DEF Piece
<1>3. Pieces(stored) \in Seq(Seq(Characters))
  BY <1>1, <1>2 DEF Pieces
<1>4. Hist!Unescape(stored) = Hist!FlattenSeq(Pieces(stored))
  BY DEF Hist!Unescape, Pieces, Piece
<1>. QED  BY <1>3, <1>4, FlattenIs, FlattenTyped

(* Two pieces of a line, when no escape is cut in two.                        *)
LEMMA UnescapeConcat ==
    ASSUME NEW a \in Seq(Characters), NEW b \in Seq(Characters), ~Hist!IsEscape(a \o b, Len(a))
    PROVE  Hist!Unescape(a \o b) = Hist!Unescape(a) \o Hist!Unescape(b)
<1>1. PICK c : c = a \o b
  OBVIOUS
<1>2. PICK m \in Nat, n \in Nat : m = Len(a) /\ n = Len(b)
  OBVIOUS
<1>3. /\ c \in Seq(Characters) /\ Len(c) = m + n
      /\ \A i \in 1 .. m : c[i] = a[i]
      /\ \A i \in 1 .. n : c[m + i] = b[i]
  BY <1>1, <1>2, ConcatProperties
<1>4. \A i \in 0 .. m : Hist!IsEscape(c, i) <=> Hist!IsEscape(a, i)
  <2>1. ASSUME NEW i \in 0 .. m  PROVE Hist!IsEscape(c, i) <=> Hist!IsEscape(a, i)
    <3>1. CASE i = m
      BY <1>1, <1>2, <3>1 DEF Hist!IsEscape
    <3>2. CASE i # m /\ i # 0
      <4>1. i \in 1 .. m /\ i + 1 \in 1 .. m /\ i \in 1 .. Len(c) - 1 /\ i \in 1 .. Len(a) - 1
        BY <1>2, <1>3, <3>2
      <4>. QED  BY <1>3, <4>1 DEF Hist!IsEscape
    <3>3. CASE i = 0
      BY <3>3 DEF Hist!IsEscape
    <3>. QED  BY <3>1, <3>2, <3>3
  <2>. QED  BY <2>1
<1>5. \A i \in 1 .. n : Hist!IsEscape(c, m + i) <=> Hist!IsEscape(b, i)
  <2>1. ASSUME NEW i \in 1 .. n  PROVE Hist!IsEscape(c, m + i) <=> Hist!IsEscape(b, i)
    <3>1. CASE i = n
      BY <1>2, <1>3, <3>1 DEF Hist!IsEscape
    <3>2. CASE i # n
      <4>1. i + 1 \in 1 .. n /\ m + i \in 1 .. Len(c) - 1 /\ i \in 1 .. Len(b) - 1
            /\ (m + i) + 1 = m + (i + 1)
        BY <1>2, <1>3, <3>2
      <4>2. c[m + i] = b[i] /\ c[(m + i) + 1] = b[i + 1]
        BY <1>3, <4>1
      <4>. QED  BY <4>1, <4>2 DEF Hist!IsEscape
    <3>. QED  BY <3>1, <3>2
  <2>. QED  BY <2>1
<1>6. \A i \in 1 .. m : Piece(c, i) = Piece(a, i)
  <2>1. \A i \in 1 .. m : i \in 0 .. m /\ i - 1 \in 0 .. m
    OBVIOUS
  <2>. QED  BY <1>3, <1>4, <2>1, Zenon DEF Piece
<1>7. \A i \in 1 .. n : Piece(c, m + i) = Piece(b, i)
  <2>1. ASSUME NEW i \in 1 .. n  PROVE Hist!IsEscape(c, (m + i) - 1) <=> Hist!IsEscape(b, i - 1)
    <3>1. CASE i = 1
      <4>1. (m + i) - 1 = m /\ i - 1 = 0
        BY <3>1
      <4>2. ~Hist!IsEscape(b, 0)
        BY DEF Hist!IsEscape
      <4>. QED  BY <1>1, <1>2, <4>1, <4>2
    <3>2. CASE i # 1
      <4>1. i - 1 \in 1 .. n /\ (m + i) - 1 = m + (i - 1)
        BY <3>2
      <4>. QED  BY <1>5, <4>1
    <3>. QED  BY <3>1, <3>2
  <2>. QED  BY <1>3, <1>5, <2>1, Zenon DEF Piece
<1>8. Pieces(c) = Pieces(a) \o Pieces(b)
  <2>1. PICK p, q : p = Pieces(a) /\ q = Pieces(b)
    OBVIOUS
  <2>2. p \in Seq(Seq(Characters)) /\ q \in Seq(Seq(Characters)) /\ Pieces(c) \in Seq(Seq(Characters))
    BY <1>3, <2>1, UnescapeIs
  <2>3. /\ Len(p) = m /\ Len(q) = n /\ Len(Pieces(c)) = m + n
        /\ \A i \in 1 .. m : p[i] = Piece(a, i)
        /\ \A i \in 1 .. n : q[i] = Piece(b, i)
        /\ \A i \in 1 .. m + n : Pieces(c)[i] = Piece(c, i)
    BY <1>2, <1>3, <2>1 DEF Pieces
  <2>4. /\ Len(p \o q) = m + n /\ p \o q \in Seq(Seq(Characters))
        /\ \A i \in 1 .. m + n : (p \o q)[i] = IF i <= m THEN p[i] ELSE q[i - m]
    BY <2>2, <2>3, ConcatProperties
  <2>5. ASSUME NEW i \in 1 .. m + n  PROVE Pieces(c)[i] = (p \o q)[i]
    <3>1. CASE i <= m
      <4>1. i \in 1 .. m
        BY <3>1
      <4>. QED  BY <1>6, <2>3, <2>4, <3>1, <4>1
    <3>2. CASE i > m
      <4>1. i - m \in 1 .. n /\ m + (i - m) = i /\ ~(i <= m)
        BY <3>2
      <4>2. Piece(c, m + (i - m)) = Piece(b, i - m)
        BY <1>7, <4>1
      <4>. QED  BY <2>3, <2>4, <4>1, <4>2
    <3>3. i <= m \/ i > m
      OBVIOUS
    <3>. QED  BY <3>1, <3>2, <3>3, Zenon
  <2>6. PICK r : r = Pieces(c)
    OBVIOUS
  <2>7. r = p \o q
    BY <2>2, <2>3, <2>4, <2>5, <2>6, SeqEqual
  <2>. QED  BY <2>1, <2>6, <2>7
<1>9. FlattenSeq(Pieces(c)) = FlattenSeq(Pieces(a)) \o FlattenSeq(Pieces(b))
  BY <1>8, UnescapeIs, FlattenConcat
<1>. QED  BY <1>1, <1>3, <1>9, UnescapeIs

LEMMA EscapedEnds ==
    ASSUME NEW c \in Characters, NEW w, w = Hist!EscapeChar(c)
    PROVE  /\ Len(w) \in {1, 2}
           /\ w[1] = (IF c = "newline" THEN "\\" ELSE c)
           /\ w[Len(w)] = (IF c = "newline" THEN "n" ELSE c)
<1>1. CASE c = "newline"
  <2>1. w = <<"\\", "n">>
    BY <1>1 DEF Hist!EscapeChar
  <2>. QED  BY <1>1, <2>1
<1>2. CASE c # "newline"
  <2>1. w = <<c>>
    BY <1>2 DEF Hist!EscapeChar
  <2>. QED  BY <1>2, <2>1
<1>. QED  BY <1>1, <1>2

LEMMA EscapedNotEmpty ==
    ASSUME NEW text \in Seq(Characters), text # <<>>
    PROVE  Hist!Escape(text) # <<>>
<1>1. PICK t \in Seq(Characters), c \in Characters : text = Append(t, c)
  BY SequenceEmptyOrAppend
<1>2. PICK a \in Seq(LineChars), w \in Seq(LineChars) :
          a = FlattenMap(Escaped, t) /\ w = Escaped[c]
  BY EscapedIs, MapTyped
<1>3. FlattenMap(Escaped, text) = a \o w
  BY <1>1, <1>2, EscapedIs, MapAppend
<1>4. Len(w) \in {1, 2}
  BY <1>2, EscapedEnds DEF Escaped
<1>5. Len(a \o w) = Len(a) + Len(w) /\ Len(a) \in Nat
  BY <1>2, ConcatProperties
<1>6. Len(a \o w) # 0
  <2>1. \A x \in Nat, y \in {1, 2} : x + y # 0
    OBVIOUS
  <2>. QED  BY <1>4, <1>5, <2>1, Zenon
<1>. QED  BY <1>3, <1>6, EscapedIs

(* A carriage return at the end of a line is one at the end of its text.      *)
LEMMA EscapedTrimmed ==
    ASSUME NEW text \in Seq(Characters), text # <<>>
    PROVE  /\ text # <<"return">> => Hist!Trimmed(Hist!Escape(text)) # <<>>
           /\ Hist!Trimmed(text) = text => Hist!Trimmed(Hist!Escape(text)) = Hist!Escape(text)
<1>1. PICK t \in Seq(Characters), c \in Characters : text = Append(t, c)
  BY SequenceEmptyOrAppend
<1>2. PICK a \in Seq(LineChars), w \in Seq(LineChars) :
          a = FlattenMap(Escaped, t) /\ w = Escaped[c]
  BY <1>1, EscapedIs, MapTyped
<1>3. PICK stored : stored = a \o w
  OBVIOUS
<1>4. Hist!Escape(text) = stored
  BY <1>1, <1>2, <1>3, EscapedIs, MapAppend
<1>5. Len(w) \in {1, 2} /\ w[Len(w)] = (IF c = "newline" THEN "n" ELSE c)
  BY <1>2, EscapedEnds DEF Escaped
<1>6. /\ stored \in Seq(LineChars) /\ Len(stored) = Len(a) + Len(w) /\ Len(a) \in Nat
      /\ \A i \in 1 .. Len(a) + Len(w) : stored[i] = IF i <= Len(a) THEN a[i] ELSE w[i - Len(a)]
  BY <1>2, <1>3, ConcatProperties
<1>7. stored[Len(stored)] = w[Len(w)]
  <2>1. /\ Len(stored) \in 1 .. Len(a) + Len(w) /\ ~(Len(stored) <= Len(a))
        /\ Len(stored) - Len(a) = Len(w)
    <3>1. \A x \in Nat, y \in {1, 2} : x + y \in 1 .. x + y /\ ~(x + y <= x) /\ (x + y) - x = y
      OBVIOUS
    <3>. QED  BY <1>5, <1>6, <3>1, Zenon
  <2>2. stored[Len(stored)] = w[Len(stored) - Len(a)]
    BY <1>6, <2>1, Zenon
  <2>. QED  BY <2>1, <2>2
<1>8. CASE c # "return"
  <2>1. stored[Len(stored)] # "return"
    BY <1>5, <1>7, <1>8
  <2>2. Hist!Trimmed(stored) = stored /\ stored # <<>>
    <3>1. Len(stored) # 0
      <4>1. \A x \in Nat, y \in {1, 2} : x + y # 0
        OBVIOUS
      <4>. QED  BY <1>5, <1>6, <4>1, Zenon
    <3>. QED  BY <2>1, <3>1 DEF Hist!Trimmed
  <2>. QED  BY <1>4, <2>2
<1>9. CASE c = "return"
  <2>1. Len(text) = Len(t) + 1 /\ text[Len(text)] = "return" /\ Len(t) \in Nat
    BY <1>1, <1>9
  <2>2. Hist!Trimmed(text) # text
    <3>1. Hist!Trimmed(text) = SubSeq(text, 1, Len(text) - 1)
      BY <2>1 DEF Hist!Trimmed
    <3>2. Len(SubSeq(text, 1, Len(text) - 1)) = Len(text) - 1
      BY <2>1
    <3>. QED  BY <2>1, <3>1, <3>2
  <2>3. ASSUME text # <<"return">>  PROVE Hist!Trimmed(stored) # <<>>
    <3>1. t # <<>>
      <4>1. Append(<<>>, "return") = <<"return">>
        OBVIOUS
      <4>. QED  BY <1>1, <1>9, <2>3, <4>1
    <3>2. a # <<>>
      BY <1>2, <3>1, EscapedIs, EscapedNotEmpty
    <3>3. Len(a) # 0
      BY <3>2
    <3>4. Len(stored) - 1 \in 0 .. Len(stored) /\ Len(stored) - 1 # 0
      BY <1>5, <1>6, <3>3
    <3>5. Len(SubSeq(stored, 1, Len(stored) - 1)) # 0 /\ Len(stored) # 0
      BY <1>6, <3>4
    <3>6. SubSeq(stored, 1, Len(stored) - 1) # <<>> /\ stored # <<>>
      <4>1. Len(<<>>) = 0
        OBVIOUS
      <4>. QED  BY <3>5, <4>1, Zenon
    <3>. QED  BY <3>6 DEF Hist!Trimmed
  <2>. QED  BY <1>4, <2>2, <2>3
<1>. QED  BY <1>8, <1>9

LEMMA UnescapedChar ==
    ASSUME NEW c \in Characters
    PROVE  Hist!Unescape(Hist!EscapeChar(c)) = <<c>>
<1>0. /\ <<c>> \in Seq(Characters)
      /\ <<"\\", "n">> \in Seq(Characters)
  <2>1. "\\" \in Characters /\ "n" \in Characters
    BY LineCharsAre
  <2>. QED  BY <2>1
<1>1. CASE c = "newline"
  <2>1. PICK w : w = <<"\\", "n">>
    OBVIOUS
  <2>2. w \in Seq(Characters) /\ DOMAIN w = 1 .. 2 /\ Len(w) = 2 /\ w[1] = "\\" /\ w[2] = "n"
    BY <1>0, <2>1
  <2>3. Hist!IsEscape(w, 1) /\ ~Hist!IsEscape(w, 2)
    BY <2>2 DEF Hist!IsEscape
  <2>4. Piece(w, 1) = <<"newline">> /\ Piece(w, 2) = <<>>
    BY <2>3 DEF Piece
  <2>5. PICK none : none = <<>>
    OBVIOUS
  <2>6. \A i \in 1 .. 2 : i = 1 \/ i = 2
    OBVIOUS
  <2>7. Pieces(w) = << <<c>>, none >>
    BY <1>1, <2>2, <2>4, <2>5, <2>6 DEF Pieces
  <2>8. FlattenSeq(Pieces(w)) = <<c>>
    BY <1>0, <2>5, <2>7, FlattenOne
  <2>. QED  BY <1>1, <2>1, <2>2, <2>8, UnescapeIs DEF Hist!EscapeChar
<1>2. CASE c # "newline"
  <2>1. PICK w : w = <<c>>
    OBVIOUS
  <2>2. w \in Seq(Characters) /\ DOMAIN w = 1 .. 1 /\ Len(w) = 1 /\ w[1] = c
    BY <1>0, <2>1
  <2>3. ~Hist!IsEscape(w, 1) /\ ~Hist!IsEscape(w, 1 - 1)
    BY <2>2 DEF Hist!IsEscape
  <2>4. Piece(w, 1) = <<c>>
    BY <2>2, <2>3 DEF Piece
  <2>5. \A i \in 1 .. 1 : i = 1
    OBVIOUS
  <2>6. Pieces(w) = << <<c>> >>
    BY <2>2, <2>4, <2>5 DEF Pieces
  <2>7. FlattenSeq(Pieces(w)) = <<c>>
    <3>1. PICK none : none = <<>>
      OBVIOUS
    <3>. QED  BY <1>0, <2>6, <3>1, FlattenOne
  <2>. QED  BY <1>2, <2>1, <2>2, <2>7, UnescapeIs DEF Hist!EscapeChar
<1>. QED  BY <1>1, <1>2

LEMMA Unescaped ==
    ASSUME NEW text \in Seq(Characters), Hist!Plain(text)
    PROVE  Hist!Unescape(Hist!Escape(text)) = text
<1>. DEFINE S == {t \in Seq(Characters) : Hist!Plain(t) =>
                    /\ Hist!Unescape(Hist!Escape(t)) = t
                    /\ Len(Hist!Escape(t)) # 0 => t # <<>>
                    /\ \A i \in {Len(Hist!Escape(t))} :
                          i # 0 /\ Hist!Escape(t)[i] = "\\" => t[Len(t)] = "\\"}
<1>1. <<>> \in S
  <2>1. <<>> \in Seq(Characters) /\ Len(<<>>) = 0
    OBVIOUS
  <2>2. Hist!Escape(<<>>) = <<>>
    BY <2>1, EscapedIs, MapEmpty
  <2>3. Len(Pieces(<<>>)) = 0 /\ Pieces(<<>>) = <<>>
    BY DEF Pieces
  <2>4. Hist!Unescape(<<>>) = <<>>
    BY <2>1, <2>3, UnescapeIs, FlattenNothing
  <2>. QED  BY <2>1, <2>2, <2>4
<1>2. ASSUME NEW t \in Seq(Characters), NEW c \in Characters, t \in S  PROVE Append(t, c) \in S
  <2>1. Append(t, c) \in Seq(Characters)
    OBVIOUS
  <2>2. SUFFICES ASSUME Hist!Plain(Append(t, c))
                 PROVE  /\ Hist!Unescape(Hist!Escape(Append(t, c))) = Append(t, c)
                        /\ Append(t, c) # <<>>
                        /\ \A i \in {Len(Hist!Escape(Append(t, c)))} :
                              i # 0 /\ Hist!Escape(Append(t, c))[i] = "\\"
                              => Append(t, c)[Len(Append(t, c))] = "\\"
    BY <2>1
  <2>3. PICK n \in Nat : n = Len(t)
    OBVIOUS
  <2>4. PICK u : u = Append(t, c)
    OBVIOUS
  <2>5. Len(u) = n + 1 /\ u[n + 1] = c /\ u # <<>> /\ \A i \in 1 .. n : u[i] = t[i]
    BY <2>3, <2>4
  <2>6. Hist!Plain(t)
    <3>1. ASSUME NEW i \in DOMAIN t, Hist!IsEscape(t, i)  PROVE FALSE
      <4>1. i \in 1 .. n - 1 /\ t[i] = "\\" /\ t[i + 1] = "n"
        BY <2>3, <3>1 DEF Hist!IsEscape
      <4>2. i \in 1 .. (n + 1) - 1 /\ u[i] = t[i] /\ u[i + 1] = t[i + 1] /\ i \in 1 .. n + 1
        BY <2>5, <4>1
      <4>3. Hist!IsEscape(u, i) /\ i \in DOMAIN u
        BY <2>1, <2>4, <2>5, <4>1, <4>2 DEF Hist!IsEscape
      <4>. QED  BY <2>2, <2>4, <4>3 DEF Hist!Plain
    <3>. QED  BY <3>1 DEF Hist!Plain
  <2>7. PICK a \in Seq(Characters), w \in Seq(Characters) :
            a = Hist!Escape(t) /\ w = Hist!EscapeChar(c)
    <3>1. Hist!EscapeChar(c) \in Seq(LineChars) /\ Hist!Escape(t) \in Seq(Characters)
      <4>1. Escaped[c] = Hist!EscapeChar(c) /\ Escaped[c] \in Seq(LineChars)
        BY EscapedIs DEF Escaped
      <4>. QED  BY <4>1, EscapeTyped
    <3>. QED  BY <3>1, LineCharsAre
  <2>8. Hist!Escape(u) = a \o w
    <3>1. FlattenMap(Escaped, Append(t, c)) = FlattenMap(Escaped, t) \o Escaped[c]
      BY EscapedIs, MapAppend
    <3>2. Escaped[c] = w
      BY <2>7 DEF Escaped
    <3>. QED  BY <2>1, <2>4, <2>7, <3>1, <3>2, EscapedIs
  <2>9. /\ Hist!Unescape(a) = t
        /\ Len(a) # 0 => t # <<>>
        /\ Len(a) # 0 /\ a[Len(a)] = "\\" => t[n] = "\\"
    BY <1>2, <2>3, <2>6, <2>7
  <2>10. /\ c = "newline" => w = <<"\\", "n">>
         /\ c # "newline" => w = <<c>>
    BY <2>7 DEF Hist!EscapeChar
  <2>11. /\ Len(w) \in {1, 2} /\ Len(a) \in Nat
         /\ w[1] = (IF c = "newline" THEN "\\" ELSE c)
         /\ w[Len(w)] = (IF c = "newline" THEN "n" ELSE c)
    BY <2>7, EscapedEnds, Len(a) \in Nat
  <2>12. /\ Len(a \o w) = Len(a) + Len(w)
         /\ \A i \in 1 .. Len(a) + Len(w) : (a \o w)[i] = IF i <= Len(a) THEN a[i] ELSE w[i - Len(a)]
    BY <2>7, ConcatProperties
  <2>13. ~Hist!IsEscape(a \o w, Len(a))
    <3>1. SUFFICES ASSUME Hist!IsEscape(a \o w, Len(a))  PROVE FALSE
      OBVIOUS
    <3>2. Len(a) # 0 /\ a[Len(a)] = "\\" /\ w[1] = "n"
      <4>1. Len(a) >= 1 /\ (a \o w)[Len(a)] = "\\" /\ (a \o w)[Len(a) + 1] = "n"
        BY <2>11, <3>1 DEF Hist!IsEscape
      <4>2. (a \o w)[Len(a)] = a[Len(a)]
        BY <2>11, <2>12, <4>1
      <4>3. (a \o w)[Len(a) + 1] = w[1]
        <5>1. Len(a) + 1 \in 1 .. Len(a) + Len(w) /\ ~(Len(a) + 1 <= Len(a)) /\ (Len(a) + 1) - Len(a) = 1
          BY <2>11
        <5>2. (a \o w)[Len(a) + 1] = w[(Len(a) + 1) - Len(a)]
          BY <2>12, <5>1, Zenon
        <5>. QED  BY <5>1, <5>2
      <4>4. Len(a) # 0
        BY <2>11, <4>1
      <4>. QED  BY <4>1, <4>2, <4>3, <4>4, Zenon
    <3>3. t[n] = "\\" /\ c = "n" /\ n # 0
      <4>1. t # <<>> /\ t[n] = "\\"
        BY <2>9, <3>2, Zenon
      <4>2. c = "n"
        BY <2>11, <3>2
      <4>3. n # 0
        BY <2>3, <4>1
      <4>. QED  BY <4>1, <4>2, <4>3
    <3>4. Hist!IsEscape(u, n) /\ n \in DOMAIN u
      <4>1. n \in 1 .. (n + 1) - 1 /\ n \in 1 .. n /\ n \in 1 .. n + 1
        BY <3>3
      <4>2. u[n] = "\\" /\ u[n + 1] = "n"
        BY <2>5, <3>3, <4>1
      <4>3. DOMAIN u = 1 .. Len(u)
        BY <2>1, <2>4
      <4>. QED  BY <2>5, <4>1, <4>2, <4>3 DEF Hist!IsEscape
    <3>. QED  BY <2>2, <2>4, <3>4 DEF Hist!Plain
  <2>14. Hist!Unescape(a \o w) = Hist!Unescape(a) \o Hist!Unescape(w)
    BY <2>13, UnescapeConcat
  <2>15. Hist!Unescape(w) = <<c>>
    BY <2>7, UnescapedChar
  <2>16. t \o <<c>> = u
    BY <2>4
  <2>17. ASSUME NEW i \in {Len(a \o w)}, i # 0, (a \o w)[i] = "\\"  PROVE u[Len(u)] = "\\"
    <3>1. i = Len(a) + Len(w) /\ i \in 1 .. Len(a) + Len(w) /\ ~(i <= Len(a)) /\ i - Len(a) = Len(w)
      BY <2>11, <2>12, <2>17
    <3>2. (a \o w)[i] = w[i - Len(a)]
      BY <2>12, <3>1, Zenon
    <3>3. w[Len(w)] = "\\"
      BY <2>17, <3>1, <3>2
    <3>4. c = "\\"
      BY <2>11, <3>3
    <3>. QED  BY <2>5, <3>4
  <2>. QED  BY <2>4, <2>5, <2>8, <2>9, <2>14, <2>15, <2>16, <2>17
<1>. HIDE DEF S
<1>3. text \in S
  BY <1>1, <1>2, AllSequences
<1>. QED  BY <1>3 DEF S

-----------------------------------------------------------------------------
(* The file holds the lines submitted, each escaped and with its end, unless  *)
(* an append was cut short.                                                   *)
EscapedLines(texts) == [k \in DOMAIN texts |-> Hist!Escape(texts[k])]

FileHolds ==
    ~damaged =>
        /\ ReadAs(file, [ended |-> EscapedLines(submitted), rest |-> <<>>])
        /\ \A k \in DOMAIN submitted : submitted[k] # <<>>

LEMMA EscapedLinesTyped ==
    ASSUME HistoryTexts, NEW texts \in Seq(Texts)
    PROVE  /\ EscapedLines(texts) \in Seq(Seq(LineChars)) /\ Len(EscapedLines(texts)) = Len(texts)
           /\ \A k \in DOMAIN texts : EscapedLines(texts)[k] = Hist!Escape(texts[k])
<1>1. PICK n \in Nat : n = Len(texts) /\ DOMAIN texts = 1 .. n /\ \A k \in 1 .. n : texts[k] \in Texts
  OBVIOUS
<1>2. \A k \in 1 .. n : Hist!Escape(texts[k]) \in Seq(LineChars)
  <2>1. ASSUME NEW k \in 1 .. n  PROVE Hist!Escape(texts[k]) \in Seq(LineChars)
    <3>1. PICK text \in Seq(Characters) : text = texts[k]
      BY <1>1 DEF HistoryTexts
    <3>2. FlattenMap(Escaped, text) \in Seq(LineChars)
      BY EscapedIs, MapTyped
    <3>. QED  BY <3>1, <3>2, EscapedIs
  <2>. QED  BY <2>1
<1>. QED  BY <1>1, <1>2 DEF EscapedLines

LEMMA HoldsFirst == ASSUME HistoryTexts, Hist!Init PROVE FileHolds
<1>1. PICK none : none = <<>>
  OBVIOUS
<1>2. file = none /\ submitted = none /\ DOMAIN none = {}
  BY <1>1 DEF Hist!Init
<1>3. EscapedLines(none) = none
  <2>1. none \in Seq(Texts) /\ Len(none) = 0
    BY <1>1
  <2>2. Len(EscapedLines(none)) = 0 /\ EscapedLines(none) \in Seq(Seq(LineChars))
    BY <2>1, EscapedLinesTyped
  <2>. QED  BY <1>1, <2>2
<1>4. ReadAs(none, [ended |-> none, rest |-> <<>>])
  BY <1>1, ReadNothing DEF ReadingBegun
<1>. QED  BY <1>2, <1>3, <1>4 DEF FileHolds

LEMMA HoldsStep ==
    ASSUME HistoryTexts, HistoryTypes, FileHolds, [Hist!Next]_histVars
    PROVE  FileHolds'
<1>1. CASE UNCHANGED histVars
  BY <1>1 DEF histVars, FileHolds
<1>2. ASSUME NEW text \in Texts, Hist!AppendPart(text)  PROVE FileHolds'
  BY <1>2 DEF Hist!AppendPart, FileHolds
<1>3. ASSUME NEW text \in Texts, Hist!AppendLine(text)  PROVE FileHolds'
  <2>1. /\ text # <<>> /\ submitted' = Append(submitted, text) /\ damaged' = damaged
        /\ file' = file \o Hist!Escape(text) \o <<"newline">>
    BY <1>3 DEF Hist!AppendLine
  <2>2. SUFFICES ASSUME ~damaged
                 PROVE  /\ ReadAs(file', [ended |-> EscapedLines(submitted'), rest |-> <<>>])
                        /\ \A k \in DOMAIN submitted' : submitted'[k] # <<>>
    BY <2>1 DEF FileHolds
  <2>3. PICK ended \in Seq(Seq(LineChars)), stored \in Seq(LineChars) :
            ended = EscapedLines(submitted) /\ stored = Hist!Escape(text)
    <3>1. Hist!Escape(text) \in Seq(LineChars)
      <4>1. text \in Seq(Characters)
        BY DEF HistoryTexts
      <4>2. FlattenMap(Escaped, text) \in Seq(LineChars)
        BY <4>1, EscapedIs, MapTyped
      <4>. QED  BY <4>1, <4>2, EscapedIs
    <3>. QED  BY <3>1, EscapedLinesTyped DEF HistoryTypes
  <2>4. ReadAs(file, [ended |-> ended, rest |-> <<>>]) /\ \A k \in DOMAIN submitted : submitted[k] # <<>>
    BY <2>2, <2>3 DEF FileHolds
  <2>5. ReadAs(file', [ended |-> Append(ended, stored), rest |-> <<>>])
    BY <2>1, <2>3, <2>4, ReadLine DEF HistoryTypes
  <2>6. submitted \in Seq(Texts) /\ submitted' \in Seq(Texts)
    BY <2>1 DEF HistoryTypes
  <2>7. PICK n \in Nat : n = Len(submitted) /\ DOMAIN submitted = 1 .. n
    BY <2>6
  <2>8. /\ Len(submitted') = n + 1 /\ DOMAIN submitted' = 1 .. n + 1 /\ submitted'[n + 1] = text
        /\ \A k \in 1 .. n : submitted'[k] = submitted[k]
    BY <2>1, <2>6, <2>7
  <2>9. \A k \in 1 .. n + 1 : k = n + 1 \/ k \in 1 .. n
    OBVIOUS
  <2>10. EscapedLines(submitted') = Append(ended, stored)
    <3>1. PICK lines : lines = EscapedLines(submitted')
      OBVIOUS
    <3>2. lines \in Seq(Seq(LineChars)) /\ Len(lines) = n + 1
          /\ \A k \in 1 .. n + 1 : lines[k] = Hist!Escape(submitted'[k])
      BY <2>6, <2>8, <3>1, EscapedLinesTyped
    <3>3. Len(ended) = n /\ \A k \in 1 .. n : ended[k] = Hist!Escape(submitted[k])
      BY <2>3, <2>6, <2>7, EscapedLinesTyped
    <3>4. PICK more : more = Append(ended, stored)
      OBVIOUS
    <3>5. more \in Seq(Seq(LineChars)) /\ Len(more) = n + 1 /\ more[n + 1] = stored
          /\ \A k \in 1 .. n : more[k] = ended[k]
      BY <3>3, <3>4
    <3>6. ASSUME NEW k \in 1 .. n + 1  PROVE lines[k] = more[k]
      <4>1. CASE k = n + 1
        <5>1. lines[k] = Hist!Escape(submitted'[k]) /\ submitted'[k] = text
          BY <2>8, <3>2, <4>1, Zenon
        <5>. QED  BY <2>3, <3>5, <4>1, <5>1, Zenon
      <4>2. CASE k \in 1 .. n
        <5>1. lines[k] = Hist!Escape(submitted'[k]) /\ submitted'[k] = submitted[k]
          BY <2>8, <3>2, <4>2, Zenon
        <5>. QED  BY <3>3, <3>5, <4>2, <5>1, Zenon
      <4>. QED  BY <2>9, <4>1, <4>2, Zenon
    <3>7. lines = more
      BY <3>2, <3>5, <3>6, SeqEqual
    <3>. QED  BY <3>1, <3>4, <3>7
  <2>11. \A k \in DOMAIN submitted' : submitted'[k] # <<>>
    BY <2>1, <2>4, <2>7, <2>8, <2>9, Zenon
  <2>. QED  BY <2>5, <2>10, <2>11
<1>. QED  BY <1>1, <1>2, <1>3 DEF Hist!Next

(* What a session finds: the escaped lines, the last ones, unescaped.         *)
LEMMA FoundAgain ==
    ASSUME HistoryTexts, Limit \in Nat, HistoryTypes, FileHolds
    PROVE  Hist!HistoryComesBack
<1>1. SUFFICES ASSUME ~damaged  PROVE Hist!HistoryComesBack
  BY DEF Hist!HistoryComesBack
<1>2. /\ submitted \in Seq(Texts) /\ file \in Seq(Characters)
      /\ ReadAs(file, [ended |-> EscapedLines(submitted), rest |-> <<>>])
      /\ \A k \in DOMAIN submitted : submitted[k] # <<>>
  BY <1>1 DEF HistoryTypes, FileHolds
<1>3. PICK n \in Nat : n = Len(submitted) /\ DOMAIN submitted = 1 .. n
  BY <1>2
<1>4. PICK lines \in Seq(Seq(LineChars)) : lines = EscapedLines(submitted)
  BY <1>2, EscapedLinesTyped
<1>5. Len(lines) = n /\ \A k \in 1 .. n : lines[k] = Hist!Escape(submitted[k])
  BY <1>2, <1>3, <1>4, EscapedLinesTyped
<1>6. Hist!Lines(file) = lines
  <2>1. PICK reading : ReadAs(file, reading) /\ Hist!Lines(file) = LinesRead(reading)
    BY <1>2, LinesReads
  <2>2. reading = [ended |-> lines, rest |-> <<>>]
    BY <1>2, <1>4, <2>1, ReadOnce
  <2>. QED  BY <2>1, <2>2 DEF LinesRead
<1>7. PICK last \in Nat : last = (IF n > Limit THEN n - Limit ELSE 0) /\ last <= n
  <2>1. CASE n > Limit
    BY <2>1, n - Limit \in Nat
  <2>2. CASE ~(n > Limit)
    BY <2>2
  <2>. QED  BY <2>1, <2>2
<1>8. PICK recent : recent = Hist!LastLines(lines)
  OBVIOUS
<1>9. /\ recent \in Seq(Seq(LineChars)) /\ Len(recent) = n - last
      /\ \A k \in 1 .. n - last : recent[k] = lines[last + k]
  <2>1. CASE n > Limit
    <3>1. recent = SubSeq(lines, (n - Limit) + 1, n) /\ last = n - Limit
      BY <1>5, <1>7, <1>8, <2>1 DEF Hist!LastLines
    <3>2. (n - Limit) + 1 \in 1 .. n + 1 /\ n - last = Limit /\ n - Limit \in Nat
      BY <2>1, <3>1
    <3>3. recent \in Seq(Seq(LineChars)) /\ Len(recent) = Limit
          /\ \A k \in 1 .. Limit : recent[k] = lines[(n - Limit) + k]
      <4>1. PICK from \in 1 .. n + 1 : from = (n - Limit) + 1
        BY <3>2
      <4>2. recent = SubSeq(lines, from, n) /\ Len(lines) = n
        BY <1>5, <3>1, <4>1
      <4>3. recent \in Seq(Seq(LineChars))
        BY <4>2
      <4>4. Len(recent) = (n - from) + 1 /\ \A k \in 1 .. (n - from) + 1 : recent[k] = lines[from + k - 1]
        BY <4>2
      <4>. QED  BY <4>1, <4>3, <4>4
    <3>. QED  BY <3>1, <3>2, <3>3
  <2>2. CASE ~(n > Limit)
    <3>1. recent = lines /\ last = 0
      BY <1>5, <1>7, <1>8, <2>2 DEF Hist!LastLines
    <3>. QED  BY <1>5, <3>1
  <2>. QED  BY <2>1, <2>2
<1>. SUFFICES ASSUME \A k \in last + 1 .. n : submitted[k] # <<"return">>
             PROVE  Hist!HistoryComesBack
  BY <1>3, <1>7 DEF Hist!HistoryComesBack
<1>. DEFINE Shown(k) == Hist!Trimmed(recent[k])
<1>10. ASSUME NEW k \in 1 .. n - last
       PROVE  /\ submitted[last + k] \in Seq(Characters) /\ submitted[last + k] # <<>>
              /\ recent[k] = Hist!Escape(submitted[last + k])
              /\ Shown(k) # <<>> /\ Shown(k) \in Seq(Characters)
              /\ Hist!Trimmed(submitted[last + k]) = submitted[last + k] => Shown(k) = recent[k]
  <2>1. last + k \in 1 .. n /\ last + k \in last + 1 .. n
    BY <1>7
  <2>2. PICK text \in Seq(Characters) : text = submitted[last + k]
    BY <1>2, <1>3, <2>1 DEF HistoryTexts
  <2>3. text # <<>> /\ text # <<"return">> /\ recent[k] = Hist!Escape(text)
    BY <1>2, <1>3, <1>5, <1>9, <2>1, <2>2, Zenon
  <2>4. Hist!Trimmed(Hist!Escape(text)) # <<>>
        /\ (Hist!Trimmed(text) = text => Hist!Trimmed(Hist!Escape(text)) = Hist!Escape(text))
    BY <2>3, EscapedTrimmed
  <2>5. Hist!Trimmed(Hist!Escape(text)) \in Seq(Characters)
    <3>1. PICK stored \in Seq(Characters) : stored = Hist!Escape(text)
      BY EscapeTyped
    <3>2. Hist!Trimmed(stored) \in Seq(Characters)
      BY DEF Hist!Trimmed
    <3>. QED  BY <3>1, <3>2
  <2>. QED  BY <2>2, <2>3, <2>4, <2>5
<1>11. DOMAIN recent = 1 .. n - last
  BY <1>9
<1>. HIDE DEF Shown
<1>. DEFINE found == [k \in DOMAIN recent |-> Hist!Unescape(Shown(k))]
<1>12. found \in Seq(Seq(Characters)) /\ Len(found) = n - last /\ DOMAIN found = 1 .. n - last
       /\ \A k \in 1 .. n - last : found[k] = Hist!Unescape(Shown(k))
  <2>1. \A k \in 1 .. n - last : Hist!Unescape(Shown(k)) \in Seq(Characters)
    BY <1>10, UnescapeIs
  <2>2. n - last \in Nat
    BY <1>7
  <2>. QED  BY <1>11, <2>1, <2>2
<1>13. Hist!LoadRecent = found
  <2>1. [k \in DOMAIN recent |-> IF Shown(k) = <<>> THEN <<>> ELSE <<Hist!Unescape(Shown(k))>>]
            = [k \in DOMAIN found |-> <<found[k]>>]
    BY <1>10, <1>11, <1>12
  <2>2. Hist!LoadRecent = Hist!FlattenSeq([k \in DOMAIN recent |->
            IF Shown(k) = <<>> THEN <<>> ELSE <<Hist!Unescape(Shown(k))>>])
    BY <1>6, <1>8 DEF Hist!LoadRecent, Shown
  <2>. HIDE DEF found
  <2>3. FlattenSeq([k \in DOMAIN found |-> <<found[k]>>]) = found
    BY <1>12, FlattenSingles
  <2>. QED  BY <2>1, <2>2, <2>3, FlattenIs
<1>. HIDE DEF found
<1>14. ASSUME NEW k \in DOMAIN found, Hist!Plain(submitted[last + k]),
              Hist!Trimmed(submitted[last + k]) = submitted[last + k]
       PROVE  found[k] = submitted[last + k]
  <2>1. k \in 1 .. n - last
    BY <1>12
  <2>2. found[k] = Hist!Unescape(Hist!Escape(submitted[last + k]))
    BY <1>10, <1>12, <1>14, <2>1
  <2>. QED  BY <1>10, <1>14, <2>1, <2>2, Unescaped
<1>. QED  BY <1>3, <1>7, <1>12, <1>13, <1>14 DEF Hist!HistoryComesBack

-----------------------------------------------------------------------------
(* The tables, the counters and the locals stay in the bounds of the run.     *)
CallBounds == MaxCalls \in Nat /\ MaxTime \in Nat /\ MaxRecords \in Nat

Places == {"closed", "version", "migrate", "failed", "nolog", "age", "count", "cut", "size",
           "usage", "ready"}

Within(place, values) ==
    /\ place \in Places /\ values.version <= 2 /\ values.id <= MaxCalls /\ values.of <= MaxCalls
    /\ place = "usage" => values.id # 0 /\ values.of # 0

Bounded ==
    /\ calls \subseteq [id : 1 .. MaxCalls, of : 1 .. MaxCalls, at : 0 .. MaxTime]
    /\ usage \subseteq [call : 1 .. MaxCalls, of : 1 .. MaxCalls]
    /\ sequence = logged /\ logged \in 0 .. MaxCalls
    /\ columns \subseteq AllColumns /\ exists \in BOOLEAN /\ now \in 0 .. MaxTime
    /\ \A p \in Sessions : Within(pc[p], local[p])

Moves(p, place, values) ==
    pc' = [pc EXCEPT ![p] = place] /\ local' = [local EXCEPT ![p] = values]

LEMMA MovedWithin ==
    ASSUME Typed, \A p \in Sessions : Within(pc[p], local[p]),
           NEW p \in Sessions, NEW place, NEW values, Moves(p, place, values), Within(place, values)
    PROVE  \A q \in Sessions : Within(pc'[q], local'[q])
<1>. SUFFICES ASSUME NEW q \in Sessions  PROVE Within(pc'[q], local'[q])
  OBVIOUS
<1>1. pc = [s \in Sessions |-> pc[s]] /\ local \in [Sessions -> Locals]
  BY DEF Typed
<1>2. pc'[q] = (IF q = p THEN place ELSE pc[q]) /\ local'[q] = IF q = p THEN values ELSE local[q]
  BY <1>1 DEF Moves
<1>. QED  BY <1>2

LEMMA ReturnWithin ==
    ASSUME CallBounds, NEW p, NEW place \in Places \ {"usage"}, Return(p, place)
    PROVE  Moves(p, place, NoLocals) /\ Within(place, NoLocals)
BY DEF Return, Goto, Moves, Within, NoLocals, CallBounds

LEMMA KeepWithin ==
    ASSUME Typed, NEW p \in Sessions, NEW place \in Places \ {"usage"}, Goto(p, place),
           UNCHANGED local, Within(pc[p], local[p])
    PROVE  Moves(p, place, local[p]) /\ Within(place, local[p])
BY DEF Goto, Moves, Within, Typed

LEMMA VersionWithin ==
    ASSUME Typed, NEW p \in Sessions, NEW place \in Places \ {"usage"}, NEW v \in 0 .. 2,
           pc' = [pc EXCEPT ![p] = place], local' = [local EXCEPT ![p].version = v],
           Within(pc[p], local[p])
    PROVE  \E values : Moves(p, place, values) /\ Within(place, values)
<1>. DEFINE values == [local[p] EXCEPT !.version = v]
<1>1. local[p] \in Locals
  BY DEF Typed
<1>2. values.version = v /\ values.id = local[p].id /\ values.of = local[p].of
  BY <1>1 DEF Locals
<1>3. local' = [local EXCEPT ![p] = values]
  OBVIOUS
<1>. HIDE DEF values
<1>4. Within(place, values)
  BY <1>2 DEF Within
<1>. QED  BY <1>3, <1>4 DEF Moves

LEMMA RotationWithin ==
    ASSUME Typed, NEW p \in Sessions, NEW place \in Places \ {"usage"}, NEW keep, NEW resized,
           pc' = [pc EXCEPT ![p] = place],
           \/ local' = [local EXCEPT ![p].keep = keep]
           \/ local' = [local EXCEPT ![p].keep = keep, ![p].resized = resized],
           Within(pc[p], local[p])
    PROVE  \E values : Moves(p, place, values) /\ Within(place, values)
<1>. DEFINE some == [local[p] EXCEPT !.keep = keep]
            both == [local[p] EXCEPT !.keep = keep, !.resized = resized]
<1>1. local[p] \in Locals
  BY DEF Typed
<1>2. /\ some.version = local[p].version /\ some.id = local[p].id /\ some.of = local[p].of
      /\ both.version = local[p].version /\ both.id = local[p].id /\ both.of = local[p].of
  BY <1>1 DEF Locals
<1>3. local' = [local EXCEPT ![p] = some] \/ local' = [local EXCEPT ![p] = both]
  BY DEF Typed
<1>. HIDE DEF some, both
<1>4. Within(place, some) /\ Within(place, both)
  BY <1>2 DEF Within
<1>. QED  BY <1>3, <1>4 DEF Moves

LEMMA LoggedWithin ==
    ASSUME CallBounds, Typed, NEW p \in Sessions, NEW id \in 1 .. MaxCalls, NEW of \in 1 .. MaxCalls,
           Goto(p, "usage"), local' = [local EXCEPT ![p].id = id, ![p].of = of],
           Within(pc[p], local[p])
    PROVE  \E values : Moves(p, "usage", values) /\ Within("usage", values)
<1>. DEFINE values == [local[p] EXCEPT !.id = id, !.of = of]
<1>1. local[p] \in Locals
  BY DEF Typed
<1>2. values.version = local[p].version /\ values.id = id /\ values.of = of
  BY <1>1 DEF Locals
<1>3. local' = [local EXCEPT ![p] = values]
  BY DEF Typed
<1>. HIDE DEF values
<1>4. Within("usage", values)
  BY <1>2 DEF Within, Places
<1>. QED  BY <1>3, <1>4 DEF Moves, Goto

(* Where a session goes, and with which locals.                               *)
LEMMA SessionWithin ==
    ASSUME CallBounds, Typed, Bounded, NEW p \in Sessions,
           \/ CreateSchema(p) \/ ReadVersion(p) \/ Migrate(p) \/ Migrated(p) \/ StatementFails(p)
           \/ RotateByAge(p) \/ CountRecords(p) \/ DeleteOldest(p) \/ CheckSize(p)
           \/ LogApiCall(p) \/ LogTokenUsage(p) \/ Close(p)
    PROVE  \/ UNCHANGED <<pc, local>>
           \/ \E place, values : Moves(p, place, values) /\ Within(place, values)
<1>1. Within(pc[p], local[p]) /\ local[p] \in Locals
  BY DEF Bounded, Typed
<1>2. {"closed", "version", "migrate", "failed", "nolog", "age", "count", "cut", "size", "ready"}
        \subseteq Places \ {"usage"}
  BY DEF Places
<1>3. CASE CreateSchema(p)
  <2>1. Goto(p, "version") /\ UNCHANGED local
    BY <1>3 DEF CreateSchema
  <2>. QED  BY <1>1, <1>2, <2>1, KeepWithin
<1>4. CASE ReadVersion(p)
  <2>1. pc' = [pc EXCEPT ![p] = "migrate"] /\ local' = [local EXCEPT ![p].version = version]
    BY <1>4 DEF ReadVersion, Goto
  <2>2. version \in 0 .. 2
    BY DEF Typed
  <2>. QED  BY <1>1, <1>2, <2>1, <2>2, VersionWithin
<1>5. CASE Migrate(p)
  <2>1. pc[p] = "migrate" /\ local[p].version + 1 \in 1 .. 2
    BY <1>5, TwoMigrations DEF Migrate
  <2>2. CASE Return(p, "failed")
    BY <1>2, <2>2, ReturnWithin
  <2>3. CASE local' = [local EXCEPT ![p].version = local[p].version + 1] /\ UNCHANGED pc
    <3>1. pc' = [pc EXCEPT ![p] = "migrate"]
      BY <2>1, <2>3 DEF Typed
    <3>2. PICK v \in 0 .. 2 : v = local[p].version + 1
      BY <2>1
    <3>3. local' = [local EXCEPT ![p].version = v]
      BY <2>3, <3>2
    <3>. QED  BY <1>1, <1>2, <3>1, <3>3, VersionWithin
  <2>. QED  BY <1>5, <2>2, <2>3 DEF Migrate
<1>6. CASE Migrated(p)
  BY <1>2, <1>6, ReturnWithin DEF Migrated
<1>7. CASE StatementFails(p)
  <2>1. Return(p, "nolog") \/ Return(p, "ready")
    BY <1>7 DEF StatementFails
  <2>. QED  BY <1>2, <2>1, ReturnWithin
<1>8. CASE RotateByAge(p)
  <2>1. pc' = [pc EXCEPT ![p] = "count"] /\ local' = [local EXCEPT ![p].keep = MaxRecords]
    BY <1>8 DEF RotateByAge, Goto
  <2>. QED  BY <1>1, <1>2, <2>1, RotationWithin
<1>9. CASE CountRecords(p) \/ DeleteOldest(p)
  <2>1. (Goto(p, "cut") /\ UNCHANGED local) \/ Return(p, "ready") \/ Return(p, "size")
    BY <1>9 DEF CountRecords, DeleteOldest, Rotated
  <2>. QED  BY <1>1, <1>2, <2>1, KeepWithin, ReturnWithin
<1>10. CASE CheckSize(p)
  <2>1. CASE Return(p, "ready")
    BY <1>2, <2>1, ReturnWithin
  <2>2. CASE /\ pc' = [pc EXCEPT ![p] = "count"]
             /\ local' = [local EXCEPT ![p].keep = (Cardinality(calls) * 3) \div 4,
                                       ![p].resized = TRUE]
    <3>1. PICK keep : keep = (Cardinality(calls) * 3) \div 4
      OBVIOUS
    <3>2. local' = [local EXCEPT ![p].keep = keep, ![p].resized = TRUE]
      BY <2>2, <3>1
    <3>. QED  BY <1>1, <1>2, <2>2, <3>2, RotationWithin
  <2>. QED  BY <1>10, <2>1, <2>2 DEF CheckSize, Goto
<1>11. CASE LogApiCall(p)
  <2>1. CASE UNCHANGED <<pc, local>>
    BY <2>1
  <2>2. CASE /\ Goto(p, "usage")
             /\ local' = [local EXCEPT ![p].id = sequence + 1, ![p].of = logged + 1]
    <3>1. PICK id \in 1 .. MaxCalls, of \in 1 .. MaxCalls : id = sequence + 1 /\ of = logged + 1
      BY <1>11 DEF Bounded, LogApiCall, CallBounds
    <3>2. local' = [local EXCEPT ![p].id = id, ![p].of = of]
      BY <2>2, <3>1
    <3>. QED  BY <1>1, <2>2, <3>2, LoggedWithin
  <2>. QED  BY <1>11, <2>1, <2>2 DEF LogApiCall, NextId
<1>12. CASE LogTokenUsage(p) \/ Close(p)
  <2>1. Return(p, "ready") \/ Return(p, "closed")
    BY <1>12 DEF LogTokenUsage, Close
  <2>. QED  BY <1>2, <2>1, ReturnWithin
<1>. QED  BY <1>3, <1>4, <1>5, <1>6, <1>7, <1>8, <1>9, <1>10, <1>11, <1>12

LEMMA BoundedStep ==
    ASSUME CallBounds, Typed, Bounded, [Next]_vars
    PROVE  Bounded'
<1>1. \A q \in Sessions : Within(pc'[q], local'[q])
  <2>1. CASE UNCHANGED <<pc, local>>
    BY <2>1 DEF Bounded
  <2>2. ASSUME NEW p \in Sessions, NEW place, NEW values, Moves(p, place, values), Within(place, values)
        PROVE  \A q \in Sessions : Within(pc'[q], local'[q])
    BY <2>2, MovedWithin DEF Bounded
  <2>3. UNCHANGED <<pc, local>> \/ \E p \in Sessions :
          \/ CreateSchema(p) \/ ReadVersion(p) \/ Migrate(p) \/ Migrated(p) \/ StatementFails(p)
          \/ RotateByAge(p) \/ CountRecords(p) \/ DeleteOldest(p) \/ CheckSize(p)
          \/ LogApiCall(p) \/ LogTokenUsage(p) \/ Close(p)
    BY DEF Next, Tick, vars
  <2>. QED  BY <2>1, <2>2, <2>3, SessionWithin
<1>2. \/ UNCHANGED <<sequence, logged>> /\ calls' \subseteq calls
      \/ /\ sequence' = sequence + 1 /\ logged' = logged + 1 /\ logged < MaxCalls
         /\ calls' = calls \cup {[id |-> sequence + 1, of |-> logged + 1, at |-> now]}
  BY DEF Next, vars, tables, CreateSchema, ReadVersion, Migrate, Migrated, StatementFails,
     RotateByAge, CountRecords, DeleteOldest, Newest, CheckSize, LogApiCall, NextId,
     LogTokenUsage, Close, Tick
<1>3. /\ sequence' = logged' /\ logged' \in 0 .. MaxCalls
      /\ calls' \subseteq [id : 1 .. MaxCalls, of : 1 .. MaxCalls, at : 0 .. MaxTime]
  <2>1. CASE UNCHANGED <<sequence, logged>> /\ calls' \subseteq calls
    BY <2>1 DEF Bounded
  <2>2. CASE /\ sequence' = sequence + 1 /\ logged' = logged + 1 /\ logged < MaxCalls
             /\ calls' = calls \cup {[id |-> sequence + 1, of |-> logged + 1, at |-> now]}
    <3>1. /\ sequence + 1 \in 1 .. MaxCalls /\ logged + 1 \in 1 .. MaxCalls /\ now \in 0 .. MaxTime
          /\ sequence' = logged' /\ logged' \in 0 .. MaxCalls
      BY <2>2 DEF Bounded, CallBounds
    <3>. QED  BY <2>2, <3>1 DEF Bounded
  <2>. QED  BY <1>2, <2>1, <2>2
<1>4. usage' \subseteq [call : 1 .. MaxCalls, of : 1 .. MaxCalls]
  <2>1. UNCHANGED usage \/ \E p \in Sessions : LogTokenUsage(p)
    BY DEF Next, vars, tables, CreateSchema, ReadVersion, Migrate, Migrated, StatementFails,
       RotateByAge, CountRecords, DeleteOldest, CheckSize, LogApiCall, Close, Tick
  <2>2. ASSUME NEW p \in Sessions, LogTokenUsage(p)
        PROVE  usage' \subseteq [call : 1 .. MaxCalls, of : 1 .. MaxCalls]
    <3>1. pc[p] = "usage" /\ usage' \subseteq usage \cup {[call |-> local[p].id, of |-> local[p].of]}
      BY <2>2 DEF LogTokenUsage
    <3>2. local[p].id \in 1 .. MaxCalls /\ local[p].of \in 1 .. MaxCalls
      <4>1. local[p].id \in Nat /\ local[p].of \in Nat /\ Within("usage", local[p])
        BY <3>1 DEF Typed, Locals, Bounded
      <4>. QED  BY <4>1 DEF Within, CallBounds
    <3>. QED  BY <3>1, <3>2 DEF Bounded
  <2>. QED  BY <2>1, <2>2 DEF Bounded
<1>5. columns' \subseteq AllColumns
  <2>1. \A v \in 1 .. 2 : Migrations[v] \in AllColumns
    BY TwoMigrations
  <2>2. \/ columns' \in {columns, AllColumns}
        \/ \E p \in Sessions : Migrate(p) /\ columns' = columns \cup {Migrations[local[p].version + 1]}
    BY DEF Next, vars, schema, CreateSchema, ReadVersion, Migrate, Migrated, StatementFails,
       RotateByAge, CountRecords, DeleteOldest, CheckSize, LogApiCall, LogTokenUsage, Close, Tick
  <2>3. \A p \in Sessions : Migrate(p) => local[p].version + 1 \in 1 .. 2
    BY TwoMigrations DEF Migrate
  <2>. QED  BY <2>1, <2>2, <2>3 DEF Bounded
<1>6. exists' \in BOOLEAN
  <2>1. exists' \in {exists, TRUE}
    BY DEF Next, vars, schema, CreateSchema, ReadVersion, Migrate, Migrated, StatementFails,
       RotateByAge, CountRecords, DeleteOldest, CheckSize, LogApiCall, LogTokenUsage, Close, Tick
  <2>. QED  BY <2>1 DEF Bounded
<1>7. now' \in 0 .. MaxTime
  <2>1. UNCHANGED now \/ (now < MaxTime /\ now' = now + 1)
    BY DEF Next, vars, CreateSchema, ReadVersion, Migrate, Migrated, StatementFails,
       RotateByAge, CountRecords, DeleteOldest, CheckSize, LogApiCall, LogTokenUsage, Close, Tick
  <2>. QED  BY <2>1 DEF Bounded, CallBounds
<1>. QED  BY <1>1, <1>3, <1>4, <1>5, <1>6, <1>7 DEF Bounded

LEMMA DatabaseTypeOK == ASSUME CallBounds, Typed, Bounded PROVE TypeOK
<1>1. DOMAIN Migrations = 1 .. 2 /\ Cardinality(1 .. 2) = 2
  <2>1. Cardinality(1 .. 2) = IF 1 > 2 THEN 0 ELSE 2 - 1 + 1
    BY FS_Interval, 1 \in Int, 2 \in Int, Zenon
  <2>. QED  BY <2>1, TwoMigrations
<1>2. pc \in [Sessions -> Places]
  <2>1. \A p \in Sessions : pc[p] \in Places
    BY DEF Bounded, Within
  <2>2. pc = [p \in Sessions |-> pc[p]]
    BY Zenon DEF Typed
  <2>. QED  BY <2>1, <2>2
<1>3. \A p \in Sessions : local[p] \in [version : 0 .. 2, keep : Nat, resized : BOOLEAN,
                                        id : 0 .. MaxCalls, of : 0 .. MaxCalls]
  <2>. SUFFICES ASSUME NEW p \in Sessions
                PROVE  local[p] \in [version : 0 .. 2, keep : Nat, resized : BOOLEAN,
                                     id : 0 .. MaxCalls, of : 0 .. MaxCalls]
    OBVIOUS
  <2>1. local[p] \in Locals /\ Within(pc[p], local[p]) /\ MaxCalls \in Int
    BY DEF Typed, Bounded, CallBounds
  <2>. QED  BY <2>1 DEF Within, Locals
<1>4. local \in [Sessions -> [version : 0 .. 2, keep : Nat, resized : BOOLEAN,
                              id : 0 .. MaxCalls, of : 0 .. MaxCalls]]
  BY <1>3 DEF Typed
<1>5. sequence \in 0 .. MaxCalls /\ version \in 0 .. 2
  BY DEF Typed, Bounded
<1>. QED  BY <1>1, <1>2, <1>4, <1>5 DEF TypeOK, Bounded, Places

-----------------------------------------------------------------------------
LEMMA DatabaseBegins == ASSUME CallBounds, Init PROVE Typed /\ Bounded
<1>1. Typed
  BY FS_EmptySet DEF Init, Typed, Locals, NoLocals
<1>2. PICK v \in 0 .. 1 : columns = {Migrations[i] : i \in 1 .. v}
  BY DEF Init
<1>3. columns \subseteq AllColumns
  <2>1. \A i \in 1 .. v : i \in DOMAIN Migrations
    BY TwoMigrations
  <2>. QED  BY <1>2, <2>1 DEF AllColumns
<1>4. /\ calls = {} /\ usage = {} /\ sequence = 0 /\ logged = 0 /\ now = 0 /\ exists \in BOOLEAN
      /\ \A p \in Sessions : pc[p] = "closed" /\ local[p] = NoLocals
  BY DEF Init
<1>5. 0 \in 0 .. MaxCalls /\ 0 \in 0 .. MaxTime /\ Within("closed", NoLocals)
  BY DEF CallBounds, Within, NoLocals, Places
<1>. QED  BY <1>1, <1>3, <1>4, <1>5 DEF Bounded

LEMMA HistoryBegins == ASSUME HistoryTexts, Hist!Init PROVE HistoryTypes
<1>1. <<>> \in Seq(Characters) /\ <<>> \in Seq(Texts) /\ Len(<<>>) = 0 /\ FALSE \in BOOLEAN
  OBVIOUS
<1>2. Len(<<>>) <= MaxAppends
  BY <1>1 DEF HistoryTexts
<1>. QED  BY <1>1, <1>2, Zenon DEF Hist!Init, HistoryTypes

LEMMA LogBegins == ASSUME LogBounds, Log!Init PROVE LogTypes
<1>1. 0 \in 0 .. 0 /\ 0 \in 0 .. MaxFiles /\ 0 \in 0 .. MaxBackups
  BY DEF LogBounds
<1>2. created = 0 /\ slot = [i \in Slots |-> 0]
  BY DEF Log!Init, Slots
<1>. QED  BY <1>1, <1>2 DEF Log!Init, LogTypes

LEMMA LogTypeOK == ASSUME LogBounds, LogTypes PROVE Log!TypeOK
<1>1. 0 .. created \subseteq 0 .. MaxFiles /\ 1 .. created \subseteq 1 .. MaxFiles
  BY DEF LogTypes, LogBounds
<1>. QED  BY <1>1 DEF LogTypes, Log!TypeOK, Slots

(* What the modules of Local keep within its bounds: the tables and counters  *)
(* of the database, the files of the log, the characters of the history file, *)
(* the line in its buffer, however it is edited, pasted into and recalled,    *)
(* the cursor in the line - except from the deletion of a character that was  *)
(* split, or of its lost end, to the next clearing, recall or submission      *)
(* (src/tui.c) - and the view of the conversation.                            *)
THEOREM EverythingTyped ==
    ASSUME CallBounds, LogBounds, HistoryTexts, InputBounds, ViewBounds
    PROVE  LocalSpec => []TypesOK
<1>. DEFINE IInv ==
        /\ Typed /\ Bounded /\ LogTypes /\ HistoryTypes
        /\ InputTypes /\ keys \in 0 .. MaxKeys /\ ViewTypes
<1>1. LocalInit => IInv
  BY DatabaseBegins, LogBegins, HistoryBegins, InputBegins, ViewBegins DEF LocalInit
<1>2. ASSUME IInv, [LocalNext]_localVars  PROVE IInv'
  <2>1. /\ [Next]_vars /\ [Log!Next]_logVars /\ [Hist!Next]_histVars /\ [Input!Next]_inputVars
        /\ [View!Next]_viewVars
    BY <1>2 DEF LocalNext, localVars, dbVars
  <2>2. MaxRecords \in Nat
    BY DEF CallBounds
  <2>. QED  BY <1>2, <2>1, <2>2, TypedStep, BoundedStep, LogTypesStep, HistoryStep, InputStep, ViewStep
<1>3. IInv => TypesOK
  <2>1. HistoryTypes => Hist!TypeOK
    BY DEF HistoryTypes, Hist!TypeOK, Characters
  <2>. QED  BY <2>1, DatabaseTypeOK, LogTypeOK, InputTypeOK, ViewTypeOK DEF TypesOK
<1>. QED  BY <1>1, <1>2, <1>3, PTL DEF LocalSpec

(* The text of the user comes through (src/tui.c, src/history_file.c): Enter  *)
(* submits the line as it is shown, with the paste where its placeholder      *)
(* stands, and the next session reads back the lines submitted, whatever the  *)
(* number of lines, pastes, recalls and sessions. The exceptions are those of *)
(* the parts: a line moved under a paste or that lost its end, and in the     *)
(* file a typed backslash n and a carriage return at the end.                 *)
THEOREM TextSurvives ==
    ASSUME HistoryTexts, Limit \in Nat, InputBounds, ViewBounds
    PROVE  LocalSpec => []TextComesThrough
<1>. DEFINE IInv ==
        /\ HistoryTypes /\ FileHolds
        /\ InputTypes /\ keys \in 0 .. MaxKeys /\ PasteInPlace /\ ViewTypes
<1>1. LocalInit => IInv
  <2>1. Hist!Init => FileHolds
    BY HoldsFirst
  <2>2. Input!Init => PasteInPlace
    BY DEF Input!Init, PasteInPlace, Input!Remnant
  <2>. QED  BY <2>1, <2>2, HistoryBegins, InputBegins, ViewBegins DEF LocalInit
<1>2. ASSUME IInv, [LocalNext]_localVars  PROVE IInv'
  <2>1. [Hist!Next]_histVars /\ [Input!Next]_inputVars /\ [View!Next]_viewVars
    BY <1>2 DEF LocalNext, localVars
  <2>2. PasteInPlace'
    <3>1. CASE Input!Next
      BY <1>2, <3>1, StaysInPlace
    <3>2. CASE UNCHANGED inputVars
      BY <1>2, <3>2 DEF inputVars, PasteInPlace, Standing, StandsIn, Input!Remnant
    <3>. QED  BY <2>1, <3>1, <3>2
  <2>. QED  BY <1>2, <2>1, <2>2, HistoryStep, HoldsStep, InputStep, ViewStep
<1>3. IInv => TextComesThrough
  <2>1. ViewTypes => ScreenShows
    BY ViewSafe DEF ScreenShows
  <2>. QED  BY <2>1, SubmittedSafe, FoundAgain DEF TextComesThrough
<1>. QED  BY <1>1, <1>2, <1>3, PTL DEF LocalSpec
=============================================================================
