----------------------- MODULE StartupMigrationProofs -----------------------
(***************************************************************************)
(* Polling starts on the whole schema, and the boot spares other databases *)
(* and keeps every owner, whatever release the database comes from, with   *)
(* any number of rows, however many boots were cut short and however the   *)
(* environment changed between them.  The induction needs what each        *)
(* statement of the boot may rely on from those before it, and that a      *)
(* database without the table has no rows.                                 *)
(***************************************************************************)
EXTENDS StartupMigration, TLAPS

\* Where a boot can be only after a statement of lifespan has succeeded.
PastRole    == {"polling"}
PastSubkind == PastRole \cup {"role"}
PastOcr     == PastSubkind \cup {"subkind"}
PastMissed  == PastOcr \cup {"ocr"}
PastOwner   == PastMissed \cup {"missed"}
PastIndex   == PastOwner \cup {"backfill", "count", "not_null"}
PastAdd     == PastIndex \cup {"index"}
PastCreate  == PastAdd \cup {"add_owner"}
PastCheck   == PastCreate \cup {"create_all"}

\* Rows and the owner column need their table, whatever happened to it.
TableFirst(s) ==
    "processed_valuations" \notin s.objects =>
        s.owners = <<>> /\ "owner_user_id" \notin s.objects

\* No owner is missing where the column is NOT NULL (TypeOK for one database).
Enforced(s) == \A i \in DOMAIN s.owners : s.notNull => s.owners[i] # None

\* What the boot has built, by the statement it is at.
Built ==
    /\ at \in PastCreate =>
          {"processed_valuations", "extraction_diagnostics"} \subseteq Here.objects
    /\ at \in PastAdd => "owner_user_id" \in Here.objects
    /\ at \in PastIndex => "ix_owner_user_id" \in Here.objects
    /\ at \in PastMissed => "missed_expected_slots" \in Here.objects
    /\ at \in PastOcr => "ocr_used" \in Here.objects
    /\ at \in PastSubkind => "no_text_subkind" \in Here.objects

\* What became of the rows without an owner.
Migrated ==
    /\ at = "count" /\ config.backfill # None => Unowned = {}
    /\ at = "not_null" => Unowned = {}
    /\ at \in PastOwner => \/ Here.notNull
                           \/ config.backfill = None /\ Unowned # {}

IInv ==
    /\ TypeOK
    /\ \A d \in Database : TableFirst(schema[d])
    /\ at \in PastCheck => config.database = "own"
    /\ Built /\ Migrated

-----------------------------------------------------------------------------
\* The releases.

LEMMA HistoryIs ==
    /\ Len(History) = 6 /\ DOMAIN History = 1 .. 6
    /\ History[1] = {"processed_valuations"}
    /\ History[2] = {"owner_user_id", "ix_owner_user_id"}
    /\ History[3] = {"extraction_diagnostics"}
    /\ History[4] = {"missed_expected_slots"}
    /\ History[5] = {"ocr_used"}
    /\ History[6] = {"no_text_subkind"}
  BY DEF History

LEMMA ModelIs ==
    Model = {"processed_valuations", "owner_user_id", "ix_owner_user_id",
             "extraction_diagnostics", "missed_expected_slots", "ocr_used",
             "no_text_subkind"}
<1>1. \A x : x \in Model <=> \E i \in 1 .. 6 : x \in History[i]
  BY HistoryIs DEF Model, Release
<1>2. \A x : x \in Model <=> \/ x \in History[1] \/ x \in History[2] \/ x \in History[3]
                            \/ x \in History[4] \/ x \in History[5] \/ x \in History[6]
  <2>1. \A i : i \in 1 .. 6 <=> i \in {1, 2, 3, 4, 5, 6}
    OBVIOUS
  <2> QED
    BY <1>1, <2>1
<1> QED
  BY <1>2, HistoryIs

\* A later release has what the earlier ones had, and the owner column comes
\* after its table.
LEMMA ReleaseHas ==
    ASSUME NEW n \in 0 .. Len(History)
    PROVE  /\ Release(n) \subseteq Model
           /\ "processed_valuations" \in Release(n) <=> n > 0
           /\ "owner_user_id" \in Release(n) => n > 0
<1>1. Release(n) \subseteq Model
  BY HistoryIs DEF Release, Model
<1>2. n > 0 => "processed_valuations" \in Release(n)
  <2>1. n > 0 => 1 \in 1 .. n
    BY HistoryIs
  <2> QED
    BY <2>1, HistoryIs DEF Release
<1>3. n = 0 => Release(n) = {}
  BY DEF Release
<1> QED
  BY <1>1, <1>2, <1>3, HistoryIs

LEMMA BoundedSeqIsSeq ==
    ASSUME NEW S, NEW n \in Nat
    PROVE  BoundedSeq(S, n) \subseteq Seq(S)
  BY DEF BoundedSeq, SeqOf

-----------------------------------------------------------------------------
\* Statements that alter the database of the boot.

LEMMA HereIs ==
    ASSUME IInv
    PROVE  /\ config.database \in Database /\ config.backfill \in User \cup {None}
           /\ Here \in Schema /\ TableFirst(Here) /\ Enforced(Here)
           /\ at \in PastCheck => config.database = "own"
  BY DEF IInv, TypeOK, Here, Config, Enforced

\* A statement that leaves a sound database as sound as it was.
LEMMA AlterKeeps ==
    ASSUME IInv, NEW s \in Schema, TableFirst(s), Enforced(s), Alter(s),
           config' = config
    PROVE  /\ Here' = s
           /\ schema' \in [Database -> Schema]
           /\ \A d \in Database : TableFirst(schema[d])' /\ Enforced(schema[d])'
           /\ \A d \in Database : d # config.database => schema'[d] = schema[d]
<1>1. schema \in [Database -> Schema] /\ config.database \in Database
  BY HereIs DEF IInv, TypeOK
<1>2. /\ schema' \in [Database -> Schema] /\ schema'[config.database] = s
      /\ \A d \in Database : d # config.database => schema'[d] = schema[d]
  BY <1>1 DEF Alter
<1>3. \A d \in Database : TableFirst(schema[d]) /\ Enforced(schema[d])
  BY DEF IInv, TypeOK, Enforced
<1>4. ASSUME NEW d \in Database PROVE TableFirst(schema[d])' /\ Enforced(schema[d])'
  <2>1. CASE d = config.database
    BY <1>2, <2>1 DEF TableFirst, Enforced
  <2>2. CASE d # config.database
    BY <1>2, <1>3, <2>2 DEF TableFirst, Enforced
  <2> QED
    BY <2>1, <2>2
<1> QED
  BY <1>2, <1>4 DEF Here

\* ADD COLUMN and CREATE INDEX on a database that has the table.
LEMMA AddKeeps ==
    ASSUME IInv, NEW objects \in SUBSET (Model \cup {Role}), Add(objects),
           config' = config,
           "processed_valuations" \in Here.objects
    PROVE  /\ Here'.objects = Here.objects \cup objects
           /\ Here'.owners = Here.owners /\ Here'.notNull = Here.notNull
           /\ schema' \in [Database -> Schema]
           /\ \A d \in Database : TableFirst(schema[d])' /\ Enforced(schema[d])'
           /\ \A d \in Database : d # config.database => schema'[d] = schema[d]
<1> DEFINE s == [Here EXCEPT !.objects = @ \cup objects]
<1>1. Here \in Schema /\ TableFirst(Here) /\ Enforced(Here)
  BY HereIs
<1>2. /\ s \in Schema /\ s.objects = Here.objects \cup objects
      /\ s.owners = Here.owners /\ s.notNull = Here.notNull
  BY <1>1 DEF Schema
<1>3. TableFirst(s) /\ Enforced(s)
  BY <1>1, <1>2 DEF TableFirst, Enforced
<1>4. Alter(s)
  BY DEF Add
<1> HIDE DEF s
<1> QED
  BY <1>2, <1>3, <1>4, AlterKeeps

-----------------------------------------------------------------------------
\* One lemma per statement of the boot.

\* Where a step of the boot leads, the rest of the invariant being what the
\* step has done to the database.
LEMMA StepType ==
    ASSUME IInv, NEW from, NEW to \in Migrating \cup Settled, Step(from, to),
           schema' \in [Database -> Schema],
           \A d \in Database : TableFirst(schema[d])' /\ Enforced(schema[d])'
    PROVE  TypeOK' /\ \A d \in Database : TableFirst(schema[d])'
  BY DEF IInv, TypeOK, Step, Enforced

LEMMA SchemaKept ==
    ASSUME IInv, UNCHANGED schema
    PROVE  /\ schema' \in [Database -> Schema]
           /\ \A d \in Database : TableFirst(schema[d])' /\ Enforced(schema[d])'
  BY DEF IInv, TypeOK, TableFirst, Enforced

LEMMA CheckIdentityKeeps ==
    ASSUME IInv, CheckIdentity
    PROVE  IInv'
<1>1. \E to \in {"create_all", "crashed"} :
         Step("identity", to) /\ (to = "create_all" => config.database = "own")
  BY DEF CheckIdentity
<1>2. TypeOK' /\ \A d \in Database : TableFirst(schema[d])'
  BY <1>1, StepType, SchemaKept DEF CheckIdentity, Migrating, Settled
<1>3. (at \in PastCheck => config.database = "own")' /\ Built' /\ Migrated'
  BY <1>1 DEF Built, Migrated, Step, PastCheck, PastCreate, PastAdd, PastIndex,
              PastOwner, PastMissed, PastOcr, PastSubkind, PastRole
<1> QED
  BY <1>2, <1>3 DEF IInv

\* What create_all leaves: its table with all columns, if that was missing.
LEMMA CreateAllKeeps ==
    ASSUME IInv, CreateAll
    PROVE  IInv'
<1> DEFINE s == [Here EXCEPT !.objects = @ \cup Missing,
                             !.notNull = @ \/ "processed_valuations" \in Missing]
<1>1. /\ Here \in Schema /\ TableFirst(Here) /\ Enforced(Here)
      /\ at = "create_all" /\ config.database = "own"
  BY HereIs DEF CreateAll, Step, PastCheck
<1>2. /\ Missing \subseteq Model
      /\ "processed_valuations" \in Missing <=> "processed_valuations" \notin Here.objects
      /\ {"processed_valuations", "extraction_diagnostics"}
            \subseteq Here.objects \cup Missing
  <2>1. Release(2) \subseteq Model /\ "processed_valuations" \in Release(2)
    BY ReleaseHas, HistoryIs
  <2>2. Diagnostics \subseteq Model /\ "extraction_diagnostics" \in Diagnostics
    BY ModelIs DEF Diagnostics
  <2>3. "processed_valuations" \notin Diagnostics
    BY DEF Diagnostics
  <2> QED
    BY <2>1, <2>2, <2>3 DEF Missing
<1>3. /\ s \in Schema /\ s.owners = Here.owners
      /\ s.objects = Here.objects \cup Missing
      /\ s.notNull <=> Here.notNull \/ "processed_valuations" \in Missing
  BY <1>1, <1>2 DEF Schema
<1>4. TableFirst(s) /\ Enforced(s)
  BY <1>1, <1>2, <1>3 DEF TableFirst, Enforced
<1>5. Alter(s) /\ Step("create_all", "add_owner") /\ config' = config
  BY DEF CreateAll, Step
<1> HIDE DEF s
<1>6. /\ Here' = s
      /\ schema' \in [Database -> Schema]
      /\ \A d \in Database : TableFirst(schema[d])' /\ Enforced(schema[d])'
  BY <1>3, <1>4, <1>5, AlterKeeps
<1>7. TypeOK' /\ \A d \in Database : TableFirst(schema[d])'
  BY <1>5, <1>6, StepType DEF Migrating
<1>8. (at \in PastCheck => config.database = "own")' /\ Built' /\ Migrated'
  BY <1>1, <1>2, <1>3, <1>5, <1>6 DEF Built, Migrated, Step, PastCheck, PastCreate,
                                      PastAdd, PastIndex, PastOwner, PastMissed,
                                      PastOcr, PastSubkind, PastRole
<1> QED
  BY <1>7, <1>8 DEF IInv

\* ADD COLUMN owner_user_id, nullable.
LEMMA AddOwnerKeeps ==
    ASSUME IInv, AddOwner
    PROVE  IInv'
<1>1. /\ Step("add_owner", "index") /\ config' = config /\ at = "add_owner"
      /\ Add({"owner_user_id"})
      /\ config.database = "own" /\ "processed_valuations" \in Here.objects
  BY DEF IInv, Built, AddOwner, Step, PastCheck,
         PastCreate, PastAdd, PastIndex, PastOwner, PastMissed, PastOcr, PastSubkind
<1>2. {"owner_user_id"} \subseteq Model \cup {Role}
  BY ModelIs
<1>3. /\ Here'.objects = Here.objects \cup {"owner_user_id"}
      /\ Here'.owners = Here.owners /\ Here'.notNull = Here.notNull
      /\ schema' \in [Database -> Schema]
      /\ \A d \in Database : TableFirst(schema[d])' /\ Enforced(schema[d])'
  BY <1>1, <1>2, AddKeeps
<1>4. TypeOK' /\ \A d \in Database : TableFirst(schema[d])'
  BY <1>1, <1>3, StepType DEF Migrating, Settled, Serving
<1>5. (at \in PastCheck => config.database = "own")' /\ Built'
  BY <1>1, <1>3 DEF IInv, Built, Step, PastCheck, PastCreate, PastAdd, PastIndex,
                    PastOwner, PastMissed, PastOcr, PastSubkind, PastRole
<1>6. Migrated'
  BY <1>1, <1>3 DEF IInv, Migrated, Unowned, Step, PastCheck, PastCreate, PastAdd,
                    PastIndex, PastOwner, PastMissed, PastOcr, PastSubkind, PastRole
<1> QED
  BY <1>4, <1>5, <1>6 DEF IInv

LEMMA CreateIndexKeeps ==
    ASSUME IInv, CreateIndex
    PROVE  IInv'
<1>1. /\ Step("index", "backfill") /\ config' = config /\ at = "index"
      /\ Add({"ix_owner_user_id"})
      /\ config.database = "own" /\ "processed_valuations" \in Here.objects
  BY DEF IInv, Built, CreateIndex, Step, PastCheck,
         PastCreate, PastAdd, PastIndex, PastOwner, PastMissed, PastOcr, PastSubkind
<1>2. {"ix_owner_user_id"} \subseteq Model \cup {Role}
  BY ModelIs
<1>3. /\ Here'.objects = Here.objects \cup {"ix_owner_user_id"}
      /\ Here'.owners = Here.owners /\ Here'.notNull = Here.notNull
      /\ schema' \in [Database -> Schema]
      /\ \A d \in Database : TableFirst(schema[d])' /\ Enforced(schema[d])'
  BY <1>1, <1>2, AddKeeps
<1>4. TypeOK' /\ \A d \in Database : TableFirst(schema[d])'
  BY <1>1, <1>3, StepType DEF Migrating, Settled, Serving
<1>5. (at \in PastCheck => config.database = "own")' /\ Built'
  BY <1>1, <1>3 DEF IInv, Built, Step, PastCheck, PastCreate, PastAdd, PastIndex,
                    PastOwner, PastMissed, PastOcr, PastSubkind, PastRole
<1>6. Migrated'
  BY <1>1, <1>3 DEF IInv, Migrated, Unowned, Step, PastCheck, PastCreate, PastAdd,
                    PastIndex, PastOwner, PastMissed, PastOcr, PastSubkind, PastRole
<1> QED
  BY <1>4, <1>5, <1>6 DEF IInv

\* The UPDATE of the rows without an owner.
LEMMA BackfilledIs ==
    ASSUME NEW owners \in Seq(User \cup {None}),
           config.backfill \in User \cup {None}, config.backfill # None
    PROVE  /\ Backfilled(owners) \in Seq(User \cup {None})
           /\ DOMAIN Backfilled(owners) = DOMAIN owners
           /\ \A i \in DOMAIN owners :
                 /\ Backfilled(owners)[i] # None
                 /\ owners[i] # None => Backfilled(owners)[i] = owners[i]
           /\ owners = <<>> => Backfilled(owners) = <<>>
<1>1. Backfilled(owners) \in [1 .. Len(owners) -> User \cup {None}]
  BY DEF Backfilled
<1>2. Len(owners) \in Nat
  OBVIOUS
<1>3. Backfilled(owners) \in Seq(User \cup {None})
  BY <1>1, <1>2
<1>4. owners = <<>> => Backfilled(owners) = <<>>
  BY <1>1, <1>3
<1> QED
  BY <1>3, <1>4 DEF Backfilled

LEMMA BackfillKeeps ==
    ASSUME IInv, Backfill
    PROVE  IInv'
<1>1. /\ Here \in Schema /\ TableFirst(Here) /\ Enforced(Here)
      /\ config.database = "own" /\ config.backfill \in User \cup {None}
      /\ at = "backfill" /\ config' = config
      /\ at' = IF Here.notNull THEN "missed" ELSE "count"
      /\ Step("backfill", at')
  BY HereIs DEF Backfill, Step, PastCheck, PastCreate, PastAdd, PastIndex
<1>2. CASE Here.notNull \/ config.backfill = None
  <2>1. UNCHANGED schema /\ Here' = Here
    BY <1>1, <1>2 DEF Backfill, Here
  <2>2. TypeOK' /\ \A d \in Database : TableFirst(schema[d])'
    BY <1>1, <2>1, StepType, SchemaKept DEF Migrating
  <2>3. (at \in PastCheck => config.database = "own")' /\ Built'
    BY <1>1, <2>1 DEF IInv, Built, PastCheck, PastCreate, PastAdd, PastIndex,
                      PastOwner, PastMissed, PastOcr, PastSubkind, PastRole
  <2>4. Migrated'
    BY <1>1, <1>2, <2>1 DEF Migrated, PastCheck, PastCreate, PastAdd, PastIndex,
                            PastOwner, PastMissed, PastOcr, PastSubkind, PastRole
  <2> QED
    BY <2>2, <2>3, <2>4 DEF IInv
<1>3. CASE ~Here.notNull /\ config.backfill # None
  <2> DEFINE s == [Here EXCEPT !.owners = Backfilled(@)]
  <2>1. /\ Backfilled(Here.owners) \in Seq(User \cup {None})
        /\ DOMAIN Backfilled(Here.owners) = DOMAIN Here.owners
        /\ \A i \in DOMAIN Here.owners : Backfilled(Here.owners)[i] # None
        /\ Here.owners = <<>> => Backfilled(Here.owners) = <<>>
    BY <1>1, <1>3, BackfilledIs DEF Schema
  <2>2. /\ s \in Schema /\ s.owners = Backfilled(Here.owners)
        /\ s.objects = Here.objects /\ s.notNull = Here.notNull
    BY <1>1, <2>1 DEF Schema
  <2>3. TableFirst(s) /\ Enforced(s)
    BY <1>1, <2>1, <2>2 DEF TableFirst, Enforced
  <2>4. Alter(s)
    BY <1>3 DEF Backfill
  <2> HIDE DEF s
  <2>5. /\ Here' = s
        /\ schema' \in [Database -> Schema]
        /\ \A d \in Database : TableFirst(schema[d])' /\ Enforced(schema[d])'
    BY <1>1, <2>2, <2>3, <2>4, AlterKeeps
  <2>6. TypeOK' /\ \A d \in Database : TableFirst(schema[d])'
    BY <1>1, <2>5, StepType DEF Migrating
  <2>7. (at \in PastCheck => config.database = "own")' /\ Built'
    BY <1>1, <2>2, <2>5 DEF IInv, Built, PastCheck, PastCreate, PastAdd, PastIndex,
                            PastOwner, PastMissed, PastOcr, PastSubkind, PastRole
  <2>8. Migrated'
    BY <1>1, <1>3, <2>1, <2>2, <2>5 DEF Migrated, Unowned, PastCheck, PastCreate,
                                        PastAdd, PastIndex, PastOwner, PastMissed,
                                        PastOcr, PastSubkind, PastRole
  <2> QED
    BY <2>6, <2>7, <2>8 DEF IInv
<1> QED
  BY <1>2, <1>3

LEMMA CountUnownedKeeps ==
    ASSUME IInv, CountUnowned
    PROVE  IInv'
<1>1. /\ config.database = "own" /\ config.backfill \in User \cup {None}
      /\ at = "count" /\ config' = config
      /\ at' = IF Unowned = {} THEN "not_null" ELSE "missed"
      /\ Step("count", at') /\ UNCHANGED schema /\ Here' = Here
  BY HereIs DEF CountUnowned, Step, Here, PastCheck, PastCreate, PastAdd, PastIndex
<1>2. TypeOK' /\ \A d \in Database : TableFirst(schema[d])'
  BY <1>1, StepType, SchemaKept DEF Migrating
<1>3. (at \in PastCheck => config.database = "own")' /\ Built'
  BY <1>1 DEF IInv, Built, PastCheck, PastCreate, PastAdd, PastIndex, PastOwner,
              PastMissed, PastOcr, PastSubkind, PastRole
<1>4. Migrated'
  BY <1>1 DEF IInv, Migrated, Unowned, PastCheck, PastCreate, PastAdd, PastIndex,
              PastOwner, PastMissed, PastOcr, PastSubkind, PastRole
<1> QED
  BY <1>2, <1>3, <1>4 DEF IInv

LEMMA EnforceNotNullKeeps ==
    ASSUME IInv, EnforceNotNull
    PROVE  IInv'
<1> DEFINE s == [Here EXCEPT !.notNull = TRUE]
<1>1. /\ Here \in Schema /\ TableFirst(Here)
      /\ config.database = "own" /\ at = "not_null" /\ config' = config
      /\ Step("not_null", "missed") /\ Alter(s)
      /\ Unowned = {}
  BY HereIs DEF EnforceNotNull, Step, PastCheck, PastCreate, PastAdd, PastIndex
<1>2. /\ s \in Schema /\ s.owners = Here.owners
      /\ s.objects = Here.objects /\ s.notNull
  BY <1>1 DEF Schema
<1>3. TableFirst(s) /\ Enforced(s)
  BY <1>1, <1>2 DEF TableFirst, Enforced, Unowned
<1> HIDE DEF s
<1>4. /\ Here' = s
      /\ schema' \in [Database -> Schema]
      /\ \A d \in Database : TableFirst(schema[d])' /\ Enforced(schema[d])'
  BY <1>1, <1>2, <1>3, AlterKeeps
<1>5. TypeOK' /\ \A d \in Database : TableFirst(schema[d])'
  BY <1>1, <1>4, StepType DEF Migrating
<1>6. (at \in PastCheck => config.database = "own")' /\ Built' /\ Migrated'
  BY <1>1, <1>2, <1>4 DEF IInv, Built, Migrated, Step, PastCheck, PastCreate, PastAdd,
                          PastIndex, PastOwner, PastMissed, PastOcr, PastSubkind,
                          PastRole
<1> QED
  BY <1>5, <1>6 DEF IInv

\* The columns of extraction_diagnostics.
LEMMA AddMissedKeeps ==
    ASSUME IInv, AddMissed
    PROVE  IInv'
<1>1. /\ Step("missed", "ocr") /\ config' = config /\ at = "missed"
      /\ Add({"missed_expected_slots"})
      /\ config.database = "own" /\ "processed_valuations" \in Here.objects
  BY DEF IInv, Built, AddMissed, Step, PastCheck,
         PastCreate, PastAdd, PastIndex, PastOwner, PastMissed, PastOcr, PastSubkind
<1>2. {"missed_expected_slots"} \subseteq Model \cup {Role}
  BY ModelIs
<1>3. /\ Here'.objects = Here.objects \cup {"missed_expected_slots"}
      /\ Here'.owners = Here.owners /\ Here'.notNull = Here.notNull
      /\ schema' \in [Database -> Schema]
      /\ \A d \in Database : TableFirst(schema[d])' /\ Enforced(schema[d])'
  BY <1>1, <1>2, AddKeeps
<1>4. TypeOK' /\ \A d \in Database : TableFirst(schema[d])'
  BY <1>1, <1>3, StepType DEF Migrating, Settled, Serving
<1>5. (at \in PastCheck => config.database = "own")' /\ Built'
  BY <1>1, <1>3 DEF IInv, Built, Step, PastCheck, PastCreate, PastAdd, PastIndex,
                    PastOwner, PastMissed, PastOcr, PastSubkind, PastRole
<1>6. Migrated'
  BY <1>1, <1>3 DEF IInv, Migrated, Unowned, Step, PastCheck, PastCreate, PastAdd,
                    PastIndex, PastOwner, PastMissed, PastOcr, PastSubkind, PastRole
<1> QED
  BY <1>4, <1>5, <1>6 DEF IInv

LEMMA AddOcrUsedKeeps ==
    ASSUME IInv, AddOcrUsed
    PROVE  IInv'
<1>1. /\ Step("ocr", "subkind") /\ config' = config /\ at = "ocr"
      /\ Add({"ocr_used"})
      /\ config.database = "own" /\ "processed_valuations" \in Here.objects
  BY DEF IInv, Built, AddOcrUsed, Step, PastCheck,
         PastCreate, PastAdd, PastIndex, PastOwner, PastMissed, PastOcr, PastSubkind
<1>2. {"ocr_used"} \subseteq Model \cup {Role}
  BY ModelIs
<1>3. /\ Here'.objects = Here.objects \cup {"ocr_used"}
      /\ Here'.owners = Here.owners /\ Here'.notNull = Here.notNull
      /\ schema' \in [Database -> Schema]
      /\ \A d \in Database : TableFirst(schema[d])' /\ Enforced(schema[d])'
  BY <1>1, <1>2, AddKeeps
<1>4. TypeOK' /\ \A d \in Database : TableFirst(schema[d])'
  BY <1>1, <1>3, StepType DEF Migrating, Settled, Serving
<1>5. (at \in PastCheck => config.database = "own")' /\ Built'
  BY <1>1, <1>3 DEF IInv, Built, Step, PastCheck, PastCreate, PastAdd, PastIndex,
                    PastOwner, PastMissed, PastOcr, PastSubkind, PastRole
<1>6. Migrated'
  BY <1>1, <1>3 DEF IInv, Migrated, Unowned, Step, PastCheck, PastCreate, PastAdd,
                    PastIndex, PastOwner, PastMissed, PastOcr, PastSubkind, PastRole
<1> QED
  BY <1>4, <1>5, <1>6 DEF IInv

LEMMA AddSubkindKeeps ==
    ASSUME IInv, AddSubkind
    PROVE  IInv'
<1>1. /\ Step("subkind", "role") /\ config' = config /\ at = "subkind"
      /\ Add({"no_text_subkind"})
      /\ config.database = "own" /\ "processed_valuations" \in Here.objects
  BY DEF IInv, Built, AddSubkind, Step, PastCheck,
         PastCreate, PastAdd, PastIndex, PastOwner, PastMissed, PastOcr, PastSubkind
<1>2. {"no_text_subkind"} \subseteq Model \cup {Role}
  BY ModelIs
<1>3. /\ Here'.objects = Here.objects \cup {"no_text_subkind"}
      /\ Here'.owners = Here.owners /\ Here'.notNull = Here.notNull
      /\ schema' \in [Database -> Schema]
      /\ \A d \in Database : TableFirst(schema[d])' /\ Enforced(schema[d])'
  BY <1>1, <1>2, AddKeeps
<1>4. TypeOK' /\ \A d \in Database : TableFirst(schema[d])'
  BY <1>1, <1>3, StepType DEF Migrating, Settled, Serving
<1>5. (at \in PastCheck => config.database = "own")' /\ Built'
  BY <1>1, <1>3 DEF IInv, Built, Step, PastCheck, PastCreate, PastAdd, PastIndex,
                    PastOwner, PastMissed, PastOcr, PastSubkind, PastRole
<1>6. Migrated'
  BY <1>1, <1>3 DEF IInv, Migrated, Unowned, Step, PastCheck, PastCreate, PastAdd,
                    PastIndex, PastOwner, PastMissed, PastOcr, PastSubkind, PastRole
<1> QED
  BY <1>4, <1>5, <1>6 DEF IInv

\* The grants, and the start of the polling task.
LEMMA ProvisionRoleKeeps ==
    ASSUME IInv, ProvisionRole
    PROVE  IInv'
<1>1. /\ Step("role", "polling") /\ config' = config /\ at = "role"
      /\ Add((IF config.reader THEN {Role} ELSE {}))
      /\ config.database = "own" /\ "processed_valuations" \in Here.objects
  BY DEF IInv, Built, ProvisionRole, Step, PastCheck,
         PastCreate, PastAdd, PastIndex, PastOwner, PastMissed, PastOcr, PastSubkind
<1>2. (IF config.reader THEN {Role} ELSE {}) \subseteq Model \cup {Role}
  BY ModelIs
<1>3. /\ Here'.objects = Here.objects \cup (IF config.reader THEN {Role} ELSE {})
      /\ Here'.owners = Here.owners /\ Here'.notNull = Here.notNull
      /\ schema' \in [Database -> Schema]
      /\ \A d \in Database : TableFirst(schema[d])' /\ Enforced(schema[d])'
  BY <1>1, <1>2, AddKeeps
<1>4. TypeOK' /\ \A d \in Database : TableFirst(schema[d])'
  BY <1>1, <1>3, StepType DEF Migrating, Settled, Serving
<1>5. (at \in PastCheck => config.database = "own")' /\ Built'
  BY <1>1, <1>3 DEF IInv, Built, Step, PastCheck, PastCreate, PastAdd, PastIndex,
                    PastOwner, PastMissed, PastOcr, PastSubkind, PastRole
<1>6. Migrated'
  BY <1>1, <1>3 DEF IInv, Migrated, Unowned, Step, PastCheck, PastCreate, PastAdd,
                    PastIndex, PastOwner, PastMissed, PastOcr, PastSubkind, PastRole
<1> QED
  BY <1>4, <1>5, <1>6 DEF IInv

LEMMA BootKeeps ==
    ASSUME IInv, Boot
    PROVE  IInv'
  BY CheckIdentityKeeps, CreateAllKeeps, AddOwnerKeeps, CreateIndexKeeps,
     BackfillKeeps, CountUnownedKeeps, EnforceNotNullKeeps, AddMissedKeeps,
     AddOcrUsedKeeps, AddSubkindKeeps, ProvisionRoleKeeps DEF Boot

-----------------------------------------------------------------------------
\* What happens to a boot, and after it.

LEMMA FaultKeeps ==
    ASSUME IInv, StartupSkipped \/ Die
    PROVE  IInv'
<1>1. /\ at' \in {"no_polling", "crashed"} /\ faults' \in 0 .. MaxFaults
      /\ UNCHANGED <<schema, config>>
  BY BoundsAssumption DEF IInv, TypeOK, StartupSkipped, Die
<1>2. TypeOK' /\ \A d \in Database : TableFirst(schema[d])'
  BY <1>1 DEF IInv, TypeOK, TableFirst, Settled, Serving
<1>3. (at \in PastCheck => config.database = "own")' /\ Built' /\ Migrated'
  BY <1>1 DEF Built, Migrated, PastCheck, PastCreate, PastAdd, PastIndex, PastOwner,
              PastMissed, PastOcr, PastSubkind, PastRole
<1> QED
  BY <1>2, <1>3 DEF IInv

LEMMA RebootKeeps ==
    ASSUME IInv, Reboot
    PROVE  IInv'
<1>1. TypeOK' /\ \A d \in Database : TableFirst(schema[d])'
  BY DEF IInv, TypeOK, TableFirst, Reboot
<1>2. (at \in PastCheck => config.database = "own")' /\ Built' /\ Migrated'
  BY DEF Built, Migrated, Reboot, PastCheck, PastCreate, PastAdd, PastIndex,
         PastOwner, PastMissed, PastOcr, PastSubkind, PastRole
<1> QED
  BY <1>1, <1>2 DEF IInv

\* A new row has an owner, so that it disturbs neither NOT NULL nor the count
\* of the rows without one.
LEMMA CreateValuationKeeps ==
    ASSUME IInv, NEW u \in User, CreateValuation(u)
    PROVE  IInv'
<1> DEFINE s == [Here EXCEPT !.owners = Append(@, u)]
<1>1. /\ Here \in Schema /\ TableFirst(Here) /\ Enforced(Here)
      /\ "owner_user_id" \in Here.objects /\ Alter(s)
      /\ at' = at /\ config' = config /\ faults' = faults
  BY HereIs DEF CreateValuation
<1>2. /\ Append(Here.owners, u) \in Seq(User \cup {None})
      /\ DOMAIN Here.owners \subseteq DOMAIN Append(Here.owners, u)
      /\ \A i \in DOMAIN Here.owners : Append(Here.owners, u)[i] = Here.owners[i]
      /\ \A i \in DOMAIN Append(Here.owners, u) :
            i \in DOMAIN Here.owners \/ Append(Here.owners, u)[i] = u
  BY <1>1 DEF Schema
<1>3. /\ s \in Schema /\ s.owners = Append(Here.owners, u)
      /\ s.objects = Here.objects /\ s.notNull = Here.notNull
  BY <1>1, <1>2 DEF Schema
<1>4. TableFirst(s) /\ Enforced(s)
  <2>1. TableFirst(s)
    BY <1>1, <1>3 DEF TableFirst
  <2>2. Enforced(s)
    BY <1>1, <1>2, <1>3, NoneAssumption DEF Enforced
  <2> QED
    BY <2>1, <2>2
<1> HIDE DEF s
<1>5. /\ Here' = s
      /\ schema' \in [Database -> Schema]
      /\ \A d \in Database : TableFirst(schema[d])' /\ Enforced(schema[d])'
  BY <1>1, <1>3, <1>4, AlterKeeps
<1>6. TypeOK'
  BY <1>1, <1>5 DEF IInv, TypeOK, Enforced
<1>7. (at \in PastCheck => config.database = "own")' /\ Built'
  BY <1>1, <1>3, <1>5 DEF IInv, Built
<1>8. Migrated'
  <2>1. Unowned # {} => Unowned' # {}
    BY <1>2, <1>3, <1>5 DEF Unowned
  <2>2. at \notin {"count", "not_null"}
    BY DEF CreateValuation, Serving
  <2> QED
    BY <1>1, <1>3, <1>5, <2>1, <2>2 DEF IInv, Migrated
<1> QED
  BY <1>5, <1>6, <1>7, <1>8 DEF IInv

-----------------------------------------------------------------------------

LEMMA Initially == Init => IInv
<1> SUFFICES ASSUME Init PROVE IInv
  OBVIOUS
<1>1. ASSUME NEW n \in 0 .. Len(History), NEW s \in Left(n)
      PROVE  s \in Schema /\ TableFirst(s) /\ Enforced(s)
  <2>1. Release(n) \subseteq Model
    BY ReleaseHas
  <2>2. s.owners \in Seq(User \cup {None})
    BY BoundedSeqIsSeq, BoundsAssumption DEF Left
  <2>3. s \in Schema
    <3>1. s \in [objects : {Release(n)}, notNull : {"owner_user_id" \in Release(n)},
                 owners : BoundedSeq(User \cup {None}, MaxLegacy)]
      BY DEF Left
    <3>2. ("owner_user_id" \in Release(n)) \in BOOLEAN
      OBVIOUS
    <3>3. [objects : {Release(n)}, notNull : {"owner_user_id" \in Release(n)},
           owners : BoundedSeq(User \cup {None}, MaxLegacy)] \subseteq Schema
      BY <2>1, <3>2, BoundedSeqIsSeq, BoundsAssumption DEF Schema
    <3> QED
      BY <3>1, <3>3
  <2>4. TableFirst(s)
    <3>1. s.objects = Release(n) /\ (n = 0 => s.owners = <<>>)
      BY DEF Left
    <3>2. "processed_valuations" \notin s.objects => n = 0 /\ Release(n) = {}
      BY <3>1, ReleaseHas, HistoryIs DEF Release
    <3> QED
      BY <3>1, <3>2 DEF TableFirst
  <2>5. Enforced(s)
    BY DEF Left, Enforced
  <2> QED
    BY <2>3, <2>4, <2>5
<1>2. PICK n \in 0 .. Len(History), own \in UNION {Left(i) : i \in 0 .. Len(History)} :
         \E foreign \in Left(n) :
            schema = [d \in Database |-> IF d = "own" THEN own ELSE foreign]
  BY DEF Init
<1>3. PICK foreign \in Left(n) :
         schema = [d \in Database |-> IF d = "own" THEN own ELSE foreign]
  BY <1>2
<1>4. /\ own \in Schema /\ TableFirst(own) /\ Enforced(own)
      /\ foreign \in Schema /\ TableFirst(foreign) /\ Enforced(foreign)
  BY <1>1
<1>5. /\ schema \in [Database -> Schema]
      /\ \A d \in Database : TableFirst(schema[d]) /\ Enforced(schema[d])
  BY <1>3, <1>4
<1>6. TypeOK
  BY <1>5, BoundsAssumption DEF Init, TypeOK, Enforced
<1>7. (at \in PastCheck => config.database = "own") /\ Built /\ Migrated
  BY DEF Init, Built, Migrated, PastCheck, PastCreate, PastAdd, PastIndex, PastOwner,
         PastMissed, PastOcr, PastSubkind, PastRole
<1> QED
  BY <1>5, <1>6, <1>7 DEF IInv

LEMMA Inductive == IInv /\ [Next]_vars => IInv'
<1> SUFFICES ASSUME IInv, [Next]_vars PROVE IInv'
  OBVIOUS
<1>1. CASE Next
  BY <1>1, BootKeeps, FaultKeeps, RebootKeeps, CreateValuationKeeps DEF Next
<1>2. CASE UNCHANGED vars
  BY <1>2 DEF vars, IInv, TypeOK, TableFirst, Built, Migrated, Here, Unowned
<1> QED
  BY <1>1, <1>2

LEMMA Invariance == Spec => []IInv
  BY Initially, Inductive, PTL DEF Spec

-----------------------------------------------------------------------------

\* The databases and the boot stay what they can be, and no row is without an
\* owner in a column that is NOT NULL (lifespan, ensure_owner_user_id_column).
THEOREM TypeCorrect == Spec => []TypeOK
<1>1. IInv => TypeOK
  BY DEF IInv
<1> QED
  BY <1>1, Invariance, PTL

\* Whenever the polling task has been started, the database has every object of
\* the models, and the owner column is nullable only while no backfill id is set
\* and rows are without an owner.
THEOREM PollingTheorem == Spec => []PollingOnFullSchema
<1>1. IInv => PollingOnFullSchema
  <2> SUFFICES ASSUME IInv, at = "polling" PROVE PollingOnFullSchema
    BY DEF PollingOnFullSchema
  <2>1. Model \subseteq Here.objects
    BY ModelIs DEF IInv, Built, PastCheck, PastCreate, PastAdd, PastIndex, PastOwner,
                   PastMissed, PastOcr, PastSubkind, PastRole
  <2>2. Here.notNull \/ (config.backfill = None /\ Unowned # {})
    BY DEF IInv, Migrated, PastOwner, PastMissed, PastOcr, PastSubkind, PastRole
  <2> QED
    BY <2>1, <2>2 DEF PollingOnFullSchema
<1> QED
  BY <1>1, Invariance, PTL

\* No statement of a boot alters the other application's database: all of them
\* come after the identity check.
THEOREM ForeignTheorem == Spec => BootSparesForeign
<1>1. IInv /\ [Next]_vars => [at \notin Settled => UNCHANGED (schema["foreign"])]_vars
  <2> SUFFICES ASSUME IInv, Next, at \notin Settled
               PROVE  UNCHANGED (schema["foreign"])
    BY DEF vars
  <2>1. ASSUME NEW s, Alter(s), at \in PastCheck
        PROVE  UNCHANGED (schema["foreign"])
    BY <2>1 DEF IInv, TypeOK, Alter, Database
  <2>2. CASE Boot
    BY <2>1, <2>2 DEF Boot, CheckIdentity, CreateAll, AddOwner, CreateIndex,
       Backfill, CountUnowned, EnforceNotNull, AddMissed, AddOcrUsed, AddSubkind,
       ProvisionRole, Add, Step, PastCheck, PastCreate, PastAdd, PastIndex,
       PastOwner, PastMissed, PastOcr, PastSubkind, PastRole
  <2>3. CASE StartupSkipped \/ Die
    BY <2>3 DEF StartupSkipped, Die
  <2>4. ~Reboot /\ \A u \in User : ~CreateValuation(u)
    BY DEF Reboot, CreateValuation, Settled
  <2> QED
    BY <2>2, <2>3, <2>4 DEF Next
<1> QED
  BY <1>1, Invariance, PTL DEF Spec, BootSparesForeign

\* A row that has an owner keeps it, for whichever backfill ids the service is
\* booted with one after the other (ensure_owner_user_id_column).
THEOREM OwnersTheorem == Spec => OwnersKept
<1> DEFINE Kept == \A d \in Database : \A i \in DOMAIN schema[d].owners :
                      schema[d].owners[i] # None => UNCHANGED (schema[d].owners[i])
<1>1. IInv /\ [Next]_vars => [Kept]_vars
  <2> SUFFICES ASSUME IInv, Next PROVE Kept
    BY DEF vars
  <2>1. Here \in Schema /\ config.database \in Database
    BY HereIs
  <2>2. ASSUME NEW s, Alter(s),
               \A i \in DOMAIN Here.owners :
                  Here.owners[i] # None => s.owners[i] = Here.owners[i]
        PROVE  Kept
    BY <2>1, <2>2 DEF IInv, TypeOK, Alter, Here
  <2>3. CASE UNCHANGED schema
    BY <2>3
  <2>4. ASSUME NEW objects, Add(objects) PROVE Kept
    BY <2>1, <2>2, <2>4 DEF Add, Schema
  <2>5. CASE CreateAll
    BY <2>1, <2>2, <2>5 DEF CreateAll, Schema
  <2>6. CASE Backfill
    <3>1. CASE Here.notNull \/ config.backfill = None
      BY <2>3, <2>6, <3>1 DEF Backfill
    <3>2. CASE ~Here.notNull /\ config.backfill # None
      <4>1. Alter([Here EXCEPT !.owners = Backfilled(Here.owners)])
        BY <2>6, <3>2 DEF Backfill
      <4>2. [Here EXCEPT !.owners = Backfilled(Here.owners)].owners
               = Backfilled(Here.owners)
        BY <2>1 DEF Schema
      <4> QED
        BY <2>1, <2>2, <4>1, <4>2 DEF Backfilled
    <3> QED
      BY <3>1, <3>2
  <2>7. CASE EnforceNotNull
    BY <2>1, <2>2, <2>7 DEF EnforceNotNull, Schema
  <2>8. ASSUME NEW u \in User, CreateValuation(u) PROVE Kept
    BY <2>1, <2>2, <2>8 DEF CreateValuation, Schema
  <2> HIDE DEF Kept
  <2> QED
    BY <2>3, <2>4, <2>5, <2>6, <2>7, <2>8 DEF Next, Boot, CheckIdentity, AddOwner,
       CreateIndex, CountUnowned, AddMissed, AddOcrUsed, AddSubkind, ProvisionRole,
       StartupSkipped, Die, Reboot
<1> QED
  BY <1>1, Invariance, PTL DEF Spec, OwnersKept
=============================================================================
