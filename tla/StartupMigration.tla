-------------------------- MODULE StartupMigration --------------------------
(***************************************************************************)
(* A boot of the service (app/main.py, lifespan): the database identity    *)
(* check, create_all and the idempotent migrations of app/db_migrate.py,   *)
(* one transaction after the other, then the polling loop. A wrong         *)
(* database stops the boot; any other failure is logged and the service    *)
(* comes up without polling.                                               *)
(*                                                                         *)
(* Between boots the operator may change the environment. The database may *)
(* come from any earlier release, with rows that have no owner.            *)
(***************************************************************************)
EXTENDS Naturals, Sequences, SequencesExt

CONSTANTS
    User,        \* owners of valuations; a backfill id is one of them
    None,        \* no owner, no backfill id
    MaxLegacy,   \* rows a database holds before the first boot
    MaxRows,     \* rows of a database at any time
    MaxFaults    \* failed statements and crashes during a boot

ASSUME NoneAssumption == None \notin User

ASSUME BoundsAssumption == {MaxLegacy, MaxRows, MaxFaults} \subseteq Nat

VARIABLES
    schema,   \* per database, its objects and its valuations
    config,   \* the environment of the current boot
    at,       \* the next statement of the boot, or what became of it
    faults    \* failures so far

vars == <<schema, config, at, faults>>

\* The service's own database, and that of another application.
Database == {"own", "foreign"}

\* What the releases of the service added, in their order.
History == << {"processed_valuations"},
              {"owner_user_id", "ix_owner_user_id"},
              {"extraction_diagnostics"},
              {"missed_expected_slots"}, {"ocr_used"}, {"no_text_subkind"} >>

Release(n) == UNION {History[i] : i \in 1 .. n}

Model == Release(Len(History))

Role == "aspirant_signal_ro"

Schema == [objects : SUBSET (Model \cup {Role}), notNull : BOOLEAN,
           owners : Seq(User \cup {None})]

\* reader: whether a password for the signal-reader role is configured.
Config == [database : Database, backfill : User \cup {None}, reader : BOOLEAN]

Migrating == {"create_all", "add_owner", "index", "backfill", "count",
              "not_null", "missed", "ocr", "subkind", "role"}

Serving == {"polling", "no_polling"}

Settled == Serving \cup {"crashed"}

\* Once owner_user_id is NOT NULL every row has an owner, and the boot is at
\* one of the statements of lifespan.
TypeOK ==
    /\ schema \in [Database -> Schema]
    /\ \A d \in Database : \A i \in DOMAIN schema[d].owners :
          schema[d].notNull => schema[d].owners[i] # None
    /\ config \in Config
    /\ at \in {"identity"} \cup Migrating \cup Settled
    /\ faults \in 0 .. MaxFaults

\* What release n left: it wrote owners once it had the column.
Left(n) ==
    {s \in [objects : {Release(n)}, notNull : {"owner_user_id" \in Release(n)},
            owners : BoundedSeq(User \cup {None}, MaxLegacy)] :
        /\ n = 0 => s.owners = <<>>
        /\ \A i \in DOMAIN s.owners : s.owners[i] = None <=> ~s.notNull}

\* The other application's database may hold the service's tables, from a boot
\* before the identity check existed.
Init ==
    /\ \E n \in 0 .. Len(History), own \in UNION {Left(i) : i \in 0 .. Len(History)} :
          \E foreign \in Left(n) :
             /\ foreign.owners = <<>>
             /\ schema = [d \in Database |-> IF d = "own" THEN own ELSE foreign]
    /\ config \in Config
    /\ at = "identity"
    /\ faults = 0

-----------------------------------------------------------------------------

Here == schema[config.database]

Step(from, to) == at = from /\ at' = to /\ UNCHANGED <<config, faults>>

Alter(s) == schema' = [schema EXCEPT ![config.database] = s]

Add(objects) == Alter([Here EXCEPT !.objects = @ \cup objects])

\* Mutant: create_all before the identity check.
CreateFirst ==
    /\ Step("identity", IF config.database = "own" THEN "create_all"
                                                    ELSE "crashed")
    /\ Add(Model)

\* WrongDatabaseError stops the boot.
CheckIdentity ==
    /\ Step("identity", IF config.database = "own" THEN "create_all"
                                                    ELSE "crashed")
    /\ UNCHANGED schema

Diagnostics == {"extraction_diagnostics", "missed_expected_slots", "ocr_used",
                "no_text_subkind"}

\* Tables that are missing come with all their columns and constraints.
Missing == (IF "processed_valuations" \in Here.objects THEN {} ELSE Release(2))
              \cup (IF "extraction_diagnostics" \in Here.objects THEN {}
                    ELSE Diagnostics)

\* Mutant: the constraints of the models reach tables that exist, too.
CreateAllAlters ==
    /\ Step("create_all", "add_owner")
    /\ Alter([Here EXCEPT !.objects = @ \cup Missing, !.notNull = TRUE])

\* create_all creates missing tables and never alters existing ones.
CreateAll ==
    /\ Step("create_all", "add_owner")
    /\ Alter([Here EXCEPT !.objects = @ \cup Missing,
                          !.notNull = @ \/ "processed_valuations" \in Missing])

\* Mutant: a table that has the column is taken to be migrated.
AddOwnerOnce ==
    \/ /\ "owner_user_id" \in Here.objects
       /\ Step("add_owner", "missed")
       /\ UNCHANGED schema
    \/ /\ "owner_user_id" \notin Here.objects
       /\ Step("add_owner", "index")
       /\ Add({"owner_user_id"})

\* ADD COLUMN, nullable, unless the column exists.
AddOwner == Step("add_owner", "index") /\ Add({"owner_user_id"})

CreateIndex == Step("index", "backfill") /\ Add({"ix_owner_user_id"})

\* Mutant: the UPDATE has lost its WHERE.
OwnEveryRow(owners) == [i \in DOMAIN owners |-> config.backfill]

Backfilled(owners) ==
    [i \in DOMAIN owners |->
        IF owners[i] = None THEN config.backfill ELSE owners[i]]

\* A column that is NOT NULL already needs no backfill.
Backfill ==
    /\ Step("backfill", IF Here.notNull THEN "missed" ELSE "count")
    /\ IF Here.notNull \/ config.backfill = None
       THEN UNCHANGED schema
       ELSE Alter([Here EXCEPT !.owners = Backfilled(@)])

Unowned == {i \in DOMAIN Here.owners : Here.owners[i] = None}

CountUnowned ==
    /\ Step("count", IF Unowned = {} THEN "not_null" ELSE "missed")
    /\ UNCHANGED schema

\* SET NOT NULL; the database would refuse it over an un-owned row.
EnforceNotNull ==
    /\ Unowned = {}
    /\ Step("not_null", "missed")
    /\ Alter([Here EXCEPT !.notNull = TRUE])

AddMissed == Step("missed", "ocr") /\ Add({"missed_expected_slots"})

AddOcrUsed == Step("ocr", "subkind") /\ Add({"ocr_used"})

AddSubkind == Step("subkind", "role") /\ Add({"no_text_subkind"})

\* The role and its grants are one transaction. Then the polling task starts.
ProvisionRole ==
    /\ Step("role", "polling")
    /\ Add(IF config.reader THEN {Role} ELSE {})

Boot == \/ CheckIdentity \/ CreateAll \/ AddOwner \/ CreateIndex \/ Backfill
        \/ CountUnowned \/ EnforceNotNull \/ AddMissed \/ AddOcrUsed
        \/ AddSubkind \/ ProvisionRole

\* Mutant: the polling task is started whatever has failed.
PollAnyway ==
    /\ at \notin Settled /\ faults < MaxFaults
    /\ at' = "polling"
    /\ faults' = faults + 1
    /\ UNCHANGED <<schema, config>>

\* The database refuses a statement of the boot or cannot be reached.
StartupSkipped ==
    /\ at \notin Settled /\ faults < MaxFaults
    /\ at' = "no_polling"
    /\ faults' = faults + 1
    /\ UNCHANGED <<schema, config>>

\* The process dies during the boot.
Die ==
    /\ at \notin Settled /\ faults < MaxFaults
    /\ at' = "crashed"
    /\ faults' = faults + 1
    /\ UNCHANGED <<schema, config>>

\* POST /processed, whether or not the boot was skipped; the INSERT names the
\* owner column.
CreateValuation(u) ==
    /\ at \in Serving
    /\ "owner_user_id" \in Here.objects
    /\ Len(Here.owners) < MaxRows
    /\ Alter([Here EXCEPT !.owners = Append(@, u)])
    /\ UNCHANGED <<config, at, faults>>

\* The operator starts the service again, maybe with another environment.
Reboot ==
    /\ at \in Settled
    /\ at' = "identity"
    /\ config' \in Config
    /\ UNCHANGED <<schema, faults>>

Next == Boot \/ StartupSkipped \/ Die \/ Reboot \/ \E u \in User : CreateValuation(u)

Spec == Init /\ [][Next]_vars

\* A boot does not hang, and the operator keeps coming back.
Fairness == WF_vars(Boot) /\ WF_vars(Reboot)

FairSpec == Spec /\ Fairness

-----------------------------------------------------------------------------

\* No statement of a boot changes a database that is not the service's own
\* (the order of ensure_database_identity and create_all in lifespan).
BootSparesForeign ==
    [][at \notin Settled => UNCHANGED (schema["foreign"])]_vars

\* A running service does not write to a database that is not its own: the
\* guard is to "refuse to boot" against it.
ForeignUntouched == [][UNCHANGED (schema["foreign"])]_vars

\* However the backfill id changes from boot to boot, no row changes its owner
\* once it has one.
OwnersKept ==
    [][\A d \in Database : \A i \in DOMAIN schema[d].owners :
          schema[d].owners[i] # None => UNCHANGED (schema[d].owners[i])]_vars

\* Polling starts on the whole schema of the models only, and the owner column
\* is left nullable only for rows nobody has named an owner for.
PollingOnFullSchema ==
    at = "polling" =>
        /\ Model \subseteq Here.objects
        /\ ~Here.notNull => config.backfill = None /\ Unowned # {}

\* Once the operator sets the backfill id for good, reboots complete the owner
\* migration, whatever release the database came from and whichever boots were
\* skipped or cut short before (ensure_owner_user_id_column).
MigrationCompletes ==
    <>[](config.database = "own" /\ config.backfill # None)
        => <>[]schema["own"].notNull
=============================================================================
