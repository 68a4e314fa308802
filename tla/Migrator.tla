------------------------------ MODULE Migrator ------------------------------
(***************************************************************************)
(* The boot of an API process: `migrate.js && main`.  migrate.js takes a   *)
(* session's advisory lock, has Drizzle read the last applied migration    *)
(* and replay the image's newer ones in one transaction on another         *)
(* connection, and exits; the server starts only if it succeeded.  A       *)
(* killed process loses its lock at once, while Postgres may still commit  *)
(* the transaction whose COMMIT it has received.                           *)
(***************************************************************************)
EXTENDS Integers, Sequences

CONSTANTS
    Instances,     \* containers
    Latest,        \* migrations of the newest image, numbered from 1
    MaxKills,      \* bound: killed processes
    NoOne          \* nobody holds the lock

ASSUME MigrationAssumption == Latest \in Nat /\ MaxKills \in Nat /\ NoOne \notin Instances

VARIABLES
    boot,        \* how far each process is
    image,       \* the migrations in each process's ./drizzle folder
    lock,        \* holder of pg_advisory_lock(MIGRATION_LOCK_KEY)
    start,       \* the last applied migration each process has read
    applied,     \* the migrations table, which the schema goes with
    orphan,      \* the transaction of a process cut off that may yet commit
    kills,
    misled       \* history: boots during whose replay an orphan has committed

migrator == <<boot, image, lock, start, applied, orphan, kills, misled>>

Stages == {"down", "locking", "reading", "replaying", "leaving", "failing", "serving"}

MigratorTypeOK ==
    /\ boot    \in [Instances -> Stages]
    /\ image   \in [Instances -> 0 .. Latest]
    /\ lock    \in Instances \cup {NoOne}
    /\ start   \in [Instances -> 0 .. Latest]
    /\ applied \in Seq(1 .. Latest)
    /\ orphan  \subseteq Seq(1 .. Latest)
    /\ kills   \in 0 .. MaxKills
    /\ misled  \subseteq Instances

MigratorInit ==
    /\ boot    = [i \in Instances |-> "down"]
    /\ image   = [i \in Instances |-> 0]
    /\ lock    = NoOne
    /\ start   = [i \in Instances |-> 0]
    /\ applied = <<>>
    /\ orphan  = {}
    /\ kills   = 0
    /\ misled  = {}

-----------------------------------------------------------------------------
\* The latest row of the migrations table.
Last == IF applied = <<>> THEN 0 ELSE applied[Len(applied)]

\* What a transaction that starts from s replays of an image with m migrations.
Newer(s, m) == [k \in 1 .. (IF m > s THEN m - s ELSE 0) |-> s + k]

\* The transaction of i can commit: nobody else writes or has written the
\* tables that it creates.
Committable(i) == orphan = {} /\ Last <= start[i]

Move(i, stage) == boot' = [boot EXCEPT ![i] = stage]

\* The container starts, with whatever image is deployed.
Boot(i, m) ==
    /\ boot[i] = "down"
    /\ Move(i, "locking")
    /\ image' = [image EXCEPT ![i] = m]
    /\ UNCHANGED <<lock, start, applied, orphan, kills, misled>>

\* Variant: the lock is not waited for.
LockAnyway(i) ==
    /\ boot[i] = "locking"
    /\ lock' = i
    /\ Move(i, "reading")
    /\ UNCHANGED <<image, start, applied, orphan, kills, misled>>

Lock(i) ==
    /\ boot[i] = "locking"
    /\ lock = NoOne
    /\ lock' = i
    /\ Move(i, "reading")
    /\ UNCHANGED <<image, start, applied, orphan, kills, misled>>

Read(i) ==
    /\ boot[i] = "reading"
    /\ start'  = [start EXCEPT ![i] = Last]
    /\ misled' = misled \ {i}
    /\ Move(i, "replaying")
    /\ UNCHANGED <<image, lock, applied, orphan, kills>>

\* The transaction of all newer migrations, if any, and its commit.
Replay(i) ==
    /\ boot[i] = "replaying"
    /\ image[i] > start[i] => Committable(i)
    /\ applied' = applied \o Newer(start[i], image[i])
    /\ Move(i, "leaving")
    /\ UNCHANGED <<image, lock, start, orphan, kills, misled>>

\* The transaction that i leaves behind when it is cut off: none, or one whose
\* COMMIT is on its way to Postgres.
LeftBy(i) ==
    IF boot[i] = "replaying" /\ image[i] > start[i] /\ Committable(i)
    THEN {{}, {Newer(start[i], image[i])}} ELSE {orphan}

\* "relation already exists", a migration that fails, or a lost connection.
ReplayFails(i) ==
    /\ boot[i] \in {"reading", "replaying"}
    /\ orphan' \in LeftBy(i)
    /\ Move(i, "failing")
    /\ UNCHANGED <<image, lock, start, applied, kills, misled>>

\* Variants: `;` for `&&`; the session stays open.
LeaveToServe(i) ==
    /\ boot[i] \in {"leaving", "failing"}
    /\ lock' = NoOne
    /\ Move(i, "serving")
    /\ UNCHANGED <<image, start, applied, orphan, kills, misled>>

LeaveLocked(i) ==
    /\ boot[i] \in {"leaving", "failing"}
    /\ lock' = lock
    /\ Move(i, IF boot[i] = "leaving" THEN "serving" ELSE "down")
    /\ UNCHANGED <<image, start, applied, orphan, kills, misled>>

\* The finally block, the exit code, and `&& node dist/main`.
Leave(i) ==
    /\ boot[i] \in {"leaving", "failing"}
    /\ lock' = NoOne
    /\ Move(i, IF boot[i] = "leaving" THEN "serving" ELSE "down")
    /\ UNCHANGED <<image, start, applied, orphan, kills, misled>>

\* The process is killed, and its lock goes with its session.
Kill(i) ==
    /\ kills < MaxKills
    /\ boot[i] # "down"
    /\ kills' = kills + 1
    /\ lock' = IF lock = i THEN NoOne ELSE lock
    /\ orphan' \in LeftBy(i)
    /\ Move(i, "down")
    /\ UNCHANGED <<image, start, applied, misled>>

OrphanEnds ==
    /\ orphan # {}
    /\ orphan' = {}
    /\ \/ UNCHANGED <<applied, misled>>
       \/ /\ \E migrations \in orphan : applied' = applied \o migrations
          /\ misled' = misled \cup {i \in Instances : boot[i] = "replaying"}
    /\ UNCHANGED <<boot, image, lock, start, kills>>

BootStep(i) == Lock(i) \/ Read(i) \/ Replay(i) \/ ReplayFails(i) \/ Leave(i)

MigratorNext ==
    \/ \E i \in Instances : BootStep(i) \/ Kill(i) \/ \E m \in 1 .. Latest : Boot(i, m)
    \/ OrphanEnds

-----------------------------------------------------------------------------
\* "scaling past one instance is safe": when Drizzle replays, nothing has been
\* applied since it read where to start, whoever else boots or dies, but for a
\* killed process whose last words Postgres carried out.
StartIsCurrent ==
    \A i \in Instances : boot[i] = "replaying" => start[i] = Last \/ i \in misled

\* Every migration is applied once and in order, crashes and old images
\* notwithstanding, and a server runs only on a schema that has all of its own.
ServesMigrated ==
    /\ \A k \in 1 .. Len(applied) : applied[k] = k
    /\ \A i \in Instances : boot[i] = "serving" => Last >= image[i]

\* Whoever boots gets to serve or gives up: nobody waits for a dead lock holder.
BootEnds == \A i \in Instances : boot[i] = "locking" ~> boot[i] \in {"serving", "down"}
=============================================================================
