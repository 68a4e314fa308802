-------------------------- MODULE DeploymentProofs --------------------------
(***************************************************************************)
(* Proofs about Deployment for every set of containers, every number of    *)
(* migrations and of killed processes, and every set of rate requests.     *)
(***************************************************************************)
EXTENDS Deployment, SequenceTheorems, TLAPS

-----------------------------------------------------------------------------
\* The migrations an image replays are migrations, in order from the start.
LEMMA NewerSeq ==
  ASSUME NEW s \in 0 .. Latest, NEW m \in 0 .. Latest
  PROVE  /\ Newer(s, m) \in Seq(1 .. Latest)
         /\ Len(Newer(s, m)) = IF m > s THEN m - s ELSE 0
         /\ \A k \in 1 .. Len(Newer(s, m)) : Newer(s, m)[k] = s + k
         /\ m <= s => Newer(s, m) = <<>>
<1> DEFINE n == IF m > s THEN m - s ELSE 0
<1>1. n \in Nat
  BY MigrationAssumption
<1>2. Newer(s, m) = [k \in 1 .. n |-> s + k]
  BY DEF Newer
<1>3. \A k \in 1 .. n : s + k \in 1 .. Latest
  BY MigrationAssumption
<1> HIDE DEF n
<1>4. Newer(s, m) \in Seq(1 .. Latest)
  BY <1>1, <1>2, <1>3
<1>5. Len(Newer(s, m)) = n
  BY <1>1, <1>2
<1>6. m <= s => Newer(s, m) = <<>>
  <2> SUFFICES ASSUME m <= s PROVE Newer(s, m) = <<>>
    OBVIOUS
  <2>1. Len(Newer(s, m)) = 0
    BY <1>5 DEF n
  <2>2. QED
    BY <1>4, <2>1, EmptySeq
<1>7. QED
  BY <1>2, <1>4, <1>5, <1>6 DEF n

\* The migrations that were applied are 1, 2, ..., Last.
Numbered == \A k \in 1 .. Len(applied) : applied[k] = k

LEMMA LastNumber ==
  ASSUME applied \in Seq(1 .. Latest), Numbered
  PROVE  /\ Last = Len(applied)
         /\ Last \in 0 .. Latest
<1>1. Len(applied) \in Nat
  BY LenProperties
<1>2. CASE applied = <<>>
  BY <1>2, EmptySeq, MigrationAssumption DEF Last
<1>3. CASE applied # <<>>
  <2>1. Len(applied) \in 1 .. Len(applied)
    BY <1>3, EmptySeq
  <2>2. applied[Len(applied)] = Len(applied) /\ applied[Len(applied)] \in 1 .. Latest
    BY <2>1, ElementOfSeq DEF Numbered
  <2>3. QED
    BY <1>1, <1>3, <2>2, MigrationAssumption DEF Last
<1>4. QED
  BY <1>2, <1>3

\* They stay so when an image with more of them is replayed from the last.
LEMMA AppendNewer ==
  ASSUME applied \in Seq(1 .. Latest), Numbered, NEW m \in 0 .. Latest, m > Last,
         applied' = applied \o Newer(Last, m)
  PROVE  /\ applied' \in Seq(1 .. Latest)
         /\ Numbered'
         /\ Last' = m
<1> DEFINE new == Newer(Last, m)
<1>1. /\ new \in Seq(1 .. Latest)
      /\ Len(new) = m - Last
      /\ \A k \in 1 .. Len(new) : new[k] = Last + k
  BY LastNumber, NewerSeq
<1>2. Last = Len(applied) /\ Last \in 0 .. Latest
  BY LastNumber
<1> HIDE DEF new
<1>3. /\ applied' \in Seq(1 .. Latest)
      /\ Len(applied') = Last + Len(new)
      /\ \A i \in 1 .. Last + Len(new) : applied'[i] = IF i <= Last THEN applied[i] ELSE new[i - Last]
  <2>1. applied' = applied \o new
    BY DEF new
  <2>2. applied \in Seq(1 .. Latest) /\ new \in Seq(1 .. Latest)
    BY <1>1
  <2>3. /\ applied \o new \in Seq(1 .. Latest)
        /\ Len(applied \o new) = Len(applied) + Len(new)
        /\ \A i \in 1 .. Len(applied) + Len(new) :
              (applied \o new)[i] = IF i <= Len(applied) THEN applied[i] ELSE new[i - Len(applied)]
    BY <2>2, ConcatProperties
  <2>4. QED
    BY <1>2, <2>1, <2>3
<1>4. Numbered'
  <2> SUFFICES ASSUME NEW i \in 1 .. Last + Len(new) PROVE applied'[i] = i
    BY <1>3 DEF Numbered
  <2>1. CASE i <= Last
    BY <1>2, <1>3, <2>1 DEF Numbered
  <2>2. CASE i > Last
    BY <1>1, <1>2, <1>3, <2>2
  <2>3. i \in Int /\ Last \in Int
    BY <1>2
  <2>4. i <= Last \/ i > Last
    BY <2>3
  <2>5. QED
    BY <2>1, <2>2, <2>4
<1>5. Len(applied') = m
  BY <1>1, <1>2, <1>3
<1>6. applied' # <<>>
  BY <1>2, <1>5, EmptySeq
<1>7. Last' = m
  BY <1>2, <1>4, <1>5, <1>6 DEF Last, Numbered
<1>8. QED
  BY <1>3, <1>4, <1>7

-----------------------------------------------------------------------------
\* Whoever is past the lock holds it; what a transaction starts from has been
\* applied; the transaction of a process cut off goes on from the last
\* migration; who is through with the migrations has all of its image's.
Held        == \A i \in Instances : boot[i] \in {"reading", "replaying", "leaving", "failing"} => lock = i
StartBehind == \A i \in Instances : boot[i] = "replaying" => start[i] <= Last
OrphanFits  == orphan = {} \/ \E m \in 1 .. Latest : m > Last /\ orphan = {Newer(Last, m)}
Through     == \A i \in Instances : boot[i] \in {"leaving", "serving"} => Last >= image[i]

MigratorInv ==
    /\ MigratorTypeOK
    /\ Held
    /\ Numbered
    /\ StartBehind
    /\ OrphanFits
    /\ Through

LEMMA InitMigrator == MigratorInit => MigratorInv /\ StartIsCurrent
  BY EmptySeq, MigrationAssumption
     DEF MigratorInit, MigratorInv, MigratorTypeOK, Stages, Held, Numbered, StartBehind, OrphanFits,
         Through, StartIsCurrent

\* The steps that write the migrations table: a replay of newer migrations and
\* the commit of an orphan, each from the last migration on.
LEMMA AppliedStep ==
  ASSUME MigratorInv, MigratorNext
  PROVE  \/ applied' = applied
         \/ \E m \in 1 .. Latest : m > Last /\ applied' = applied \o Newer(Last, m) /\ orphan' = {}
<1> DEFINE Grown == \E m \in 1 .. Latest : m > Last /\ applied' = applied \o Newer(Last, m) /\ orphan' = {}
           Goal  == applied' = applied \/ Grown
<1> USE DEF MigratorInv
<1>1. ASSUME NEW i \in Instances, Replay(i) PROVE Goal
  <2>1. start[i] \in 0 .. Latest /\ image[i] \in 0 .. Latest /\ start[i] <= Last
    BY <1>1 DEF Replay, MigratorTypeOK, StartBehind
  <2>2. Last \in 0 .. Latest
    BY LastNumber DEF MigratorTypeOK
  <2>3. CASE image[i] > start[i]
    <3>1. start[i] = Last /\ orphan = {}
      BY <1>1, <2>1, <2>2, <2>3 DEF Replay, Committable
    <3>2. image[i] \in 1 .. Latest /\ image[i] > Last
      BY <2>1, <2>2, <2>3, <3>1, MigrationAssumption
    <3>3. applied' = applied \o Newer(Last, image[i]) /\ orphan' = {}
      BY <1>1, <3>1 DEF Replay
    <3>4. QED
      BY <3>2, <3>3
  <2>4. CASE ~(image[i] > start[i])
    <3>1. Newer(start[i], image[i]) = <<>>
      BY <2>1, <2>4, NewerSeq
    <3>2. applied' = applied
      BY <1>1, <3>1, ConcatEmptySeq DEF Replay, MigratorTypeOK
    <3>3. QED
      BY <3>2
  <2>5. QED
    BY <2>3, <2>4
<1>2. ASSUME OrphanEnds PROVE Goal
  <2>1. PICK m \in 1 .. Latest : m > Last /\ orphan = {Newer(Last, m)}
    BY <1>2 DEF OrphanEnds, OrphanFits
  <2>2. applied' = applied \/ applied' = applied \o Newer(Last, m)
    BY <1>2, <2>1 DEF OrphanEnds
  <2>3. orphan' = {}
    BY <1>2 DEF OrphanEnds
  <2>4. QED
    BY <2>1, <2>2, <2>3
<1>3. ASSUME UNCHANGED applied PROVE Goal
  BY <1>3
<1> HIDE DEF Goal
<1>4. Goal
  BY <1>1, <1>2, <1>3 DEF MigratorNext, BootStep, Boot, Lock, Read, ReplayFails, Leave, Kill
<1>5. QED
  BY <1>4 DEF Goal

\* Nothing is ever taken out of the migrations table.
LEMMA AppliedGrows ==
  ASSUME MigratorInv, MigratorNext
  PROVE  /\ applied' \in Seq(1 .. Latest)
         /\ Numbered'
         /\ Last \in 0 .. Latest /\ Last' \in 0 .. Latest /\ Last' >= Last
<1>1. /\ applied \in Seq(1 .. Latest)
      /\ Numbered
      /\ Last \in 0 .. Latest
  BY LastNumber DEF MigratorInv, MigratorTypeOK
<1>2. CASE applied' = applied
  BY <1>1, <1>2 DEF Numbered, Last
<1>3. CASE \E m \in 1 .. Latest : m > Last /\ applied' = applied \o Newer(Last, m) /\ orphan' = {}
  <2>1. PICK m \in 1 .. Latest : m > Last /\ applied' = applied \o Newer(Last, m)
    BY <1>3
  <2>2. m \in 0 .. Latest
    BY MigrationAssumption
  <2>3. applied' \in Seq(1 .. Latest) /\ Numbered' /\ Last' = m
    BY <1>1, <2>1, <2>2, AppendNewer
  <2>4. QED
    BY <1>1, <2>1, <2>2, <2>3
<1>4. QED
  BY <1>2, <1>3, AppliedStep

\* What a process cut off leaves goes on from the last migration.
LEMMA LeftByFits ==
  ASSUME MigratorInv, NEW i \in Instances, NEW left \in LeftBy(i)
  PROVE  left = {} \/ \E m \in 1 .. Latest : m > Last /\ left = {Newer(Last, m)}
<1> USE DEF MigratorInv
<1>1. CASE boot[i] = "replaying" /\ image[i] > start[i] /\ Committable(i)
  <2>1. start[i] \in 0 .. Latest /\ image[i] \in 0 .. Latest /\ start[i] <= Last /\ Last \in 0 .. Latest
    BY <1>1, LastNumber DEF MigratorTypeOK, StartBehind
  <2>2. start[i] = Last
    BY <1>1, <2>1 DEF Committable
  <2>3. left = {} \/ left = {Newer(Last, image[i])}
    BY <1>1, <2>2 DEF LeftBy
  <2>4. image[i] \in 1 .. Latest /\ image[i] > Last
    BY <1>1, <2>1, <2>2, MigrationAssumption
  <2>5. QED
    BY <2>3, <2>4
<1>2. CASE ~(boot[i] = "replaying" /\ image[i] > start[i] /\ Committable(i))
  BY <1>2 DEF LeftBy, OrphanFits
<1>3. QED
  BY <1>1, <1>2

\* The stages a process goes through.
LEMMA BootStepOf ==
  ASSUME MigratorInv, MigratorNext, NEW i \in Instances
  PROVE  \/ boot'[i] = boot[i] /\ image'[i] = image[i] /\ start'[i] = start[i]
         \/ boot'[i] \in {"down", "locking"}
         \/ Lock(i)
         \/ Read(i)
         \/ Replay(i)
         \/ ReplayFails(i)
         \/ Leave(i)
<1> DEFINE Goal == \/ boot'[i] = boot[i] /\ image'[i] = image[i] /\ start'[i] = start[i]
                   \/ boot'[i] \in {"down", "locking"}
                   \/ Lock(i)
                   \/ Read(i)
                   \/ Replay(i)
                   \/ ReplayFails(i)
                   \/ Leave(i)
<1> USE DEF MigratorInv, MigratorTypeOK, Move
<1>1. ASSUME NEW j \in Instances, NEW m \in 1 .. Latest, Boot(j, m) PROVE Goal
  BY <1>1 DEF Boot
<1>2. ASSUME NEW j \in Instances, Kill(j) PROVE Goal
  BY <1>2 DEF Kill
<1>3. ASSUME NEW j \in Instances, Lock(j) PROVE Goal
  BY <1>3 DEF Lock
<1>4. ASSUME NEW j \in Instances, Read(j) PROVE Goal
  BY <1>4 DEF Read
<1>5. ASSUME NEW j \in Instances, Replay(j) PROVE Goal
  BY <1>5 DEF Replay
<1>6. ASSUME NEW j \in Instances, ReplayFails(j) PROVE Goal
  BY <1>6 DEF ReplayFails
<1>7. ASSUME NEW j \in Instances, Leave(j) PROVE Goal
  BY <1>7 DEF Leave
<1>8. ASSUME OrphanEnds PROVE Goal
  BY <1>8 DEF OrphanEnds
<1> HIDE DEF Goal
<1>9. Goal
  BY <1>1, <1>2, <1>3, <1>4, <1>5, <1>6, <1>7, <1>8 DEF MigratorNext, BootStep
<1>10. QED
  BY <1>9 DEF Goal

LEMMA MigratorTypes == MigratorInv /\ MigratorNext => MigratorTypeOK'
<1> SUFFICES ASSUME MigratorInv, MigratorNext PROVE MigratorTypeOK'
  OBVIOUS
<1> DEFINE Rest == /\ boot'   \in [Instances -> Stages]
                   /\ image'  \in [Instances -> 0 .. Latest]
                   /\ lock'   \in Instances \cup {NoOne}
                   /\ start'  \in [Instances -> 0 .. Latest]
                   /\ kills'  \in 0 .. MaxKills
                   /\ misled' \subseteq Instances
<1>1. applied' \in Seq(1 .. Latest) /\ Last \in 0 .. Latest
  BY AppliedGrows
<1> USE DEF Move, Stages
<1>2. ASSUME NEW j \in Instances, NEW m \in 1 .. Latest, Boot(j, m) PROVE Rest
  BY <1>2, MigrationAssumption DEF Boot, MigratorInv, MigratorTypeOK
<1>3. ASSUME NEW j \in Instances, Kill(j) PROVE Rest
  BY <1>3, MigrationAssumption DEF Kill, MigratorInv, MigratorTypeOK
<1>4. ASSUME NEW j \in Instances, Lock(j) PROVE Rest
  BY <1>4 DEF Lock, MigratorInv, MigratorTypeOK
<1>5. ASSUME NEW j \in Instances, Read(j) PROVE Rest
  BY <1>1, <1>5 DEF Read, MigratorInv, MigratorTypeOK
<1>6. ASSUME NEW j \in Instances, Replay(j) PROVE Rest
  BY <1>6 DEF Replay, MigratorInv, MigratorTypeOK
<1>7. ASSUME NEW j \in Instances, ReplayFails(j) PROVE Rest
  BY <1>7 DEF ReplayFails, MigratorInv, MigratorTypeOK
<1>8. ASSUME NEW j \in Instances, Leave(j) PROVE Rest
  BY <1>8 DEF Leave, MigratorInv, MigratorTypeOK
<1>9. ASSUME OrphanEnds PROVE Rest
  BY <1>9 DEF OrphanEnds, MigratorInv, MigratorTypeOK
<1> HIDE DEF Rest
<1>10. Rest
  BY <1>2, <1>3, <1>4, <1>5, <1>6, <1>7, <1>8, <1>9 DEF MigratorNext, BootStep
<1>11. orphan' \subseteq Seq(1 .. Latest)
  <2> DEFINE Typed == orphan' \subseteq Seq(1 .. Latest)
  <2>1. ASSUME NEW j \in Instances, orphan' \in LeftBy(j) PROVE Typed
    <3>1. CASE orphan' = {}
      BY <3>1
    <3>2. ASSUME NEW m \in 1 .. Latest, orphan' = {Newer(Last, m)} PROVE Typed
      <4>1. m \in 0 .. Latest
        BY MigrationAssumption
      <4>2. Newer(Last, m) \in Seq(1 .. Latest)
        BY <1>1, <4>1, NewerSeq
      <4>3. QED
        BY <3>2, <4>2
    <3>3. QED
      BY <2>1, <3>1, <3>2, LeftByFits
  <2>2. ASSUME orphan' = {} \/ orphan' = orphan PROVE Typed
    BY <2>2 DEF MigratorInv, MigratorTypeOK
  <2> HIDE DEF Typed
  <2>3. Typed
    BY <2>1, <2>2 DEF MigratorNext, BootStep, Boot, Lock, Read, Replay, ReplayFails, Leave, Kill, OrphanEnds
  <2>4. QED
    BY <2>3 DEF Typed
<1>12. QED
  BY <1>1, <1>10, <1>11 DEF Rest, MigratorTypeOK

\* The lock is changed only by who takes it free and by its holder.
LEMMA HeldStep == MigratorInv /\ MigratorNext => Held'
<1> SUFFICES ASSUME MigratorInv, MigratorNext PROVE Held'
  OBVIOUS
<1> USE DEF Move, MigratorInv, MigratorTypeOK, Held
<1>1. ASSUME NEW j \in Instances, NEW m \in 1 .. Latest, Boot(j, m) PROVE Held'
  BY <1>1 DEF Boot
<1>2. ASSUME NEW j \in Instances, Kill(j) PROVE Held'
  BY <1>2 DEF Kill
<1>3. ASSUME NEW j \in Instances, Lock(j) PROVE Held'
  BY <1>3, MigrationAssumption DEF Lock
<1>4. ASSUME NEW j \in Instances, Read(j) PROVE Held'
  BY <1>4 DEF Read
<1>5. ASSUME NEW j \in Instances, Replay(j) PROVE Held'
  BY <1>5 DEF Replay
<1>6. ASSUME NEW j \in Instances, ReplayFails(j) PROVE Held'
  BY <1>6 DEF ReplayFails
<1>7. ASSUME NEW j \in Instances, Leave(j) PROVE Held'
  BY <1>7 DEF Leave
<1>8. ASSUME OrphanEnds PROVE Held'
  BY <1>8 DEF OrphanEnds
<1> HIDE DEF Held
<1>9. QED
  BY <1>1, <1>2, <1>3, <1>4, <1>5, <1>6, <1>7, <1>8 DEF MigratorNext, BootStep

LEMMA OrphanStep == MigratorInv /\ MigratorNext => OrphanFits'
<1> SUFFICES ASSUME MigratorInv, MigratorNext PROVE OrphanFits'
  OBVIOUS
<1>1. CASE orphan' = {}
  BY <1>1 DEF OrphanFits
<1>2. ASSUME NEW m \in 1 .. Latest, m > Last, orphan' = {Newer(Last, m)}, applied' = applied
      PROVE  OrphanFits'
  <2>1. Last' = Last
    BY <1>2 DEF Last
  <2>2. Newer(Last, m)' = Newer(Last, m)
    BY <2>1 DEF Newer
  <2>3. QED
    BY <1>2, <2>1, <2>2 DEF OrphanFits
<1>3. ASSUME NEW j \in Instances, orphan' \in LeftBy(j), applied' = applied PROVE OrphanFits'
  BY <1>1, <1>2, <1>3, LeftByFits
<1>4. ASSUME UNCHANGED orphan PROVE OrphanFits'
  <2>1. CASE orphan = {}
    BY <1>1, <1>4, <2>1
  <2>2. CASE orphan # {}
    <3>1. applied' = applied
      BY <1>4, <2>2, AppliedStep
    <3>2. QED
      BY <1>2, <1>4, <2>2, <3>1 DEF MigratorInv, OrphanFits
  <2>3. QED
    BY <2>1, <2>2
<1>5. QED
  BY <1>1, <1>3, <1>4 DEF MigratorNext, BootStep, Boot, Lock, Read, Replay, ReplayFails, Leave, Kill, OrphanEnds

\* What a transaction starts from, and what an image has, was applied.
LEMMA ThroughStep == MigratorInv /\ MigratorNext => StartBehind' /\ Through'
<1> SUFFICES ASSUME MigratorInv, MigratorNext PROVE StartBehind' /\ Through'
  OBVIOUS
<1>1. Last \in 0 .. Latest /\ Last' \in 0 .. Latest /\ Last' >= Last
  BY AppliedGrows
<1>2. ASSUME NEW i \in Instances, boot'[i] = "replaying" PROVE start'[i] <= Last'
  <2>1. CASE Read(i)
    BY <1>1, <2>1 DEF Read, MigratorInv, MigratorTypeOK
  <2>2. CASE boot'[i] = boot[i] /\ start'[i] = start[i]
    BY <1>1, <1>2, <2>2 DEF MigratorInv, StartBehind, MigratorTypeOK
  <2>3. QED
    BY <1>2, <2>1, <2>2, BootStepOf
       DEF Lock, Replay, ReplayFails, Leave, Move, MigratorInv, MigratorTypeOK
<1>3. ASSUME NEW i \in Instances, boot'[i] \in {"leaving", "serving"} PROVE Last' >= image'[i]
  <2>1. CASE Replay(i)
    <3>1. /\ image'[i] = image[i] /\ image[i] \in 0 .. Latest /\ start[i] \in 0 .. Latest
          /\ start[i] <= Last
      BY <2>1 DEF Replay, MigratorInv, MigratorTypeOK, StartBehind
    <3>2. CASE image[i] > start[i]
      <4>1. start[i] = Last /\ applied' = applied \o Newer(Last, image[i])
        BY <1>1, <2>1, <3>1, <3>2 DEF Replay, Committable
      <4>2. Last' = image[i]
        BY <1>1, <3>1, <3>2, <4>1, AppendNewer DEF MigratorInv, MigratorTypeOK
      <4>3. QED
        BY <3>1, <4>2
    <3>3. CASE ~(image[i] > start[i])
      BY <1>1, <3>1, <3>3
    <3>4. QED
      BY <3>2, <3>3
  <2>2. CASE boot'[i] = boot[i] /\ image'[i] = image[i]
    BY <1>1, <1>3, <2>2 DEF MigratorInv, Through, MigratorTypeOK
  <2>3. CASE Leave(i)
    <3>1. boot[i] = "leaving" /\ image' = image
      BY <1>3, <2>3 DEF Leave, Move, MigratorInv, MigratorTypeOK
    <3>2. QED
      BY <1>1, <3>1 DEF MigratorInv, Through, MigratorTypeOK
  <2>4. QED
    BY <1>3, <2>1, <2>2, <2>3, BootStepOf
       DEF Lock, Read, ReplayFails, Move, MigratorInv, MigratorTypeOK
<1>4. QED
  BY <1>2, <1>3 DEF StartBehind, Through

LEMMA MigratorStep == MigratorInv /\ MigratorNext => MigratorInv'
  BY MigratorTypes, HeldStep, AppliedGrows, OrphanStep, ThroughStep DEF MigratorInv

\* Only the lock holder replays, so what is applied between its read and its
\* replay is an orphan's.
LEMMA StartStep == MigratorInv /\ StartIsCurrent /\ MigratorNext => StartIsCurrent'
<1> SUFFICES ASSUME MigratorInv, StartIsCurrent, MigratorNext,
                    NEW i \in Instances, boot'[i] = "replaying"
             PROVE  start'[i] = Last' \/ i \in misled'
  BY DEF StartIsCurrent
<1>1. CASE Read(i)
  BY <1>1 DEF Read, Last, MigratorInv, MigratorTypeOK
<1>2. CASE boot'[i] = boot[i] /\ start'[i] = start[i]
  <2>1. boot[i] = "replaying" /\ lock = i
    BY <1>2 DEF MigratorInv, Held
  <2>2. start[i] = Last \/ i \in misled
    BY <2>1 DEF StartIsCurrent
  <2>3. ASSUME NEW j \in Instances, Read(j) \/ Replay(j) PROVE j = i
    BY <2>1, <2>3 DEF Read, Replay, MigratorInv, Held
  <2>4. CASE OrphanEnds
    BY <1>2, <2>1, <2>2, <2>4 DEF OrphanEnds, Last
  <2>5. CASE Read(i) \/ Replay(i)
    BY <1>1, <1>2, <2>1, <2>5 DEF Replay, Move, MigratorInv, MigratorTypeOK
  <2>6. ASSUME UNCHANGED <<applied, misled>> PROVE start'[i] = Last' \/ i \in misled'
    BY <1>2, <2>2, <2>6 DEF Last
  <2>7. QED
    BY <2>3, <2>4, <2>5, <2>6 DEF MigratorNext, BootStep, Boot, Lock, ReplayFails, Leave, Kill
<1>3. QED
  BY <1>1, <1>2, BootStepOf
     DEF Lock, Replay, ReplayFails, Leave, Move, MigratorInv, MigratorTypeOK

-----------------------------------------------------------------------------
LEMMA StartAndMigrator == Spec => [](MigratorInv /\ StartIsCurrent)
<1>1. Init => MigratorInv /\ StartIsCurrent
  BY InitMigrator DEF Init
<1>2. MigratorInv /\ StartIsCurrent /\ [Next]_vars => (MigratorInv /\ StartIsCurrent)'
  <2> SUFFICES ASSUME MigratorInv, StartIsCurrent, [Next]_vars
               PROVE  MigratorInv' /\ StartIsCurrent'
    OBVIOUS
  <2>1. CASE MigratorNext
    BY <2>1, MigratorStep, StartStep
  <2>2. CASE UNCHANGED migrator
    BY <2>2
       DEF migrator, MigratorInv, MigratorTypeOK, Held, Numbered, StartBehind, OrphanFits, Through,
           StartIsCurrent, Last, Newer
  <2>3. QED
    BY <2>1, <2>2 DEF Next, BootOrKill, GetRates, vars
<1>3. QED
  BY <1>1, <1>2, PTL DEF Spec

\* For any number of containers and kills: a replay starts from the last
\* migration that was applied, but for the last words of a killed process.
THEOREM StartIsAlwaysCurrent == Spec => []StartIsCurrent
  BY StartAndMigrator, PTL

\* For any number of containers, images and kills: each migration once and in
\* order, and no server on a schema older than its image.
THEOREM AlwaysServesMigrated == Spec => []ServesMigrated
<1>1. MigratorInv => ServesMigrated
  BY DEF MigratorInv, Numbered, Through, ServesMigrated
<1>2. QED
  BY <1>1, StartAndMigrator, PTL

-----------------------------------------------------------------------------
\* The provider publishes newer rates only; a body that is older than the cache
\* was overtaken by the answer that is cached.
CacheKnown  == cache # Fallback => cache.at <= now /\ cache.rate <= rate
BodiesKnown == \A r \in Asks : ask[r].pc = "body" =>
                   /\ ask[r].rate <= rate
                   /\ cache # Fallback => ask[r].rate >= cache.rate \/ r \in overtaken

RatesInv ==
    /\ RatesTypeOK
    /\ CacheKnown
    /\ BodiesKnown

\* The cache is a rate with its time, or there is none.
LEMMA CacheType ==
  ASSUME RatesTypeOK
  PROVE  /\ now \in Nat /\ now <= MaxTime
         /\ cache # Fallback => cache.rate \in Nat /\ cache.at \in 0 .. MaxTime
         /\ \A p \in Nat, q \in 0 .. MaxTime : [rate |-> p, at |-> q] # Fallback
  BY ClockAssumption, FallbackAssumption DEF RatesTypeOK

\* A request that ends leaves the others, and the marks of the others, alone.
LEMMA AnswerKeeps ==
  ASSUME RatesInv, NEW r \in Asks, Answer(r), UNCHANGED <<now, rate, cache>>
  PROVE  RatesInv'
  BY DEF RatesInv, RatesTypeOK, CacheKnown, BodiesKnown, Answer, Idle

LEMMA RatesStep == RatesInv /\ RatesNext => RatesInv'
<1> SUFFICES ASSUME RatesInv, RatesNext PROVE RatesInv'
  OBVIOUS
<1>0. /\ now \in Nat /\ now <= MaxTime
      /\ cache # Fallback => cache.rate \in Nat /\ cache.at \in 0 .. MaxTime
      /\ \A p \in Nat, q \in 0 .. MaxTime : [rate |-> p, at |-> q] # Fallback
  BY CacheType DEF RatesInv
<1>1. ASSUME Tick PROVE RatesInv'
  BY <1>0, <1>1, ClockAssumption DEF Tick, RatesInv, RatesTypeOK, CacheKnown, BodiesKnown
<1>2. ASSUME NEW r \in Asks, Fetch(r) PROVE RatesInv'
  BY <1>2 DEF Fetch, RatesInv, RatesTypeOK, CacheKnown, BodiesKnown
<1>3. ASSUME NEW r \in Asks, Headers(r) PROVE RatesInv'
  BY <1>0, <1>3 DEF Headers, RatesInv, RatesTypeOK, CacheKnown, BodiesKnown
<1>4. ASSUME NEW r \in Asks, Abort(r) \/ BadBody(r) PROVE RatesInv'
  BY <1>4, AnswerKeeps DEF Abort, BadBody, Serve
<1>5. ASSUME NEW r \in Asks, Store(r) PROVE RatesInv'
  <2>1. ask[r].rate \in Nat /\ ask[r].rate <= rate
    BY <1>5 DEF Store, RatesInv, RatesTypeOK, BodiesKnown
  <2>2. RatesTypeOK'
    BY <1>0, <1>5, <2>1 DEF Store, Idle, RatesInv, RatesTypeOK
  <2>3. CacheKnown'
    BY <1>0, <1>5, <2>1 DEF Store, CacheKnown
  <2>4. ASSUME NEW s \in Asks, ask'[s].pc = "body"
        PROVE  /\ ask'[s].rate <= rate'
               /\ ask'[s].rate >= cache'.rate \/ s \in overtaken'
    <3>1. s # r
      BY <1>5, <2>4 DEF Store, Idle, RatesInv, RatesTypeOK
    <3>2. ask'[s] = ask[s] /\ ask[s].pc = "body" /\ ask[s].rate <= rate /\ ask[s].rate \in Nat
      BY <1>5, <2>4, <3>1 DEF Store, RatesInv, RatesTypeOK, BodiesKnown
    <3>3. CASE ask[s].rate < ask[r].rate
      BY <1>5, <3>1, <3>2, <3>3 DEF Store
    <3>4. CASE ~(ask[s].rate < ask[r].rate)
      BY <1>5, <2>1, <3>2, <3>4 DEF Store
    <3>5. QED
      BY <1>5, <3>2, <3>3, <3>4 DEF Store
  <2>5. QED
    BY <2>2, <2>3, <2>4 DEF RatesInv, BodiesKnown
<1>6. QED
  BY <1>1, <1>2, <1>3, <1>4, <1>5 DEF RatesNext

LEMMA RatesAlways == Spec => []RatesInv
<1>1. Init => RatesInv
  BY ClockAssumption DEF Init, RatesInit, RatesInv, RatesTypeOK, CacheKnown, BodiesKnown, Idle
<1>2. RatesInv /\ [Next]_vars => RatesInv'
  <2> SUFFICES ASSUME RatesInv, [Next]_vars PROVE RatesInv'
    OBVIOUS
  <2>1. CASE Forget
    BY <2>1 DEF Forget, RatesInv, RatesTypeOK, CacheKnown, BodiesKnown, Idle
  <2>2. CASE UNCHANGED rates
    BY <2>2 DEF rates, RatesInv, RatesTypeOK, CacheKnown, BodiesKnown
  <2>3. CASE RatesNext
    BY <2>3, RatesStep
  <2>4. QED
    BY <2>1, <2>2, <2>3 DEF Next, BootOrKill, GetRates, vars
<1>3. QED
  BY <1>1, <1>2, PTL DEF Spec

\* Every reachable state of Deployment is well typed.
THEOREM TypeCorrect == Spec => [](MigratorTypeOK /\ RatesTypeOK)
<1>1. MigratorInv => MigratorTypeOK
  BY DEF MigratorInv
<1>2. RatesInv => RatesTypeOK
  BY DEF RatesInv
<1>3. QED
  BY <1>1, <1>2, StartAndMigrator, RatesAlways, PTL

\* For any number of requests at once: while its process serves, a cache goes
\* back in time never, and to an older rate only by an answer that was overtaken.
THEOREM CacheAlwaysMovesOn == Spec => CacheMovesOn
<1> DEFINE MovesOn ==
             cache' # cache /\ cache # Fallback /\ Serves(Host)' =>
                 /\ cache' # Fallback
                 /\ cache'.at >= cache.at
                 /\ cache'.rate >= cache.rate \/ \E r \in overtaken : Store(r)
<1>1. RatesInv /\ [Next]_vars => [MovesOn]_vars
  <2> SUFFICES ASSUME RatesInv, [Next]_vars, cache' # cache, cache # Fallback, Serves(Host)'
               PROVE  /\ cache' # Fallback
                      /\ cache'.at >= cache.at
                      /\ cache'.rate >= cache.rate \/ \E r \in overtaken : Store(r)
    OBVIOUS
  <2>1. PICK r \in Asks : Store(r)
    BY DEF Next, BootOrKill, GetRates, vars, rates, RatesNext, Tick, Fetch, Headers, Abort, BadBody, Serve
  <2>2. cache' = [rate |-> ask[r].rate, at |-> now] /\ ask[r].pc = "body" /\ ask[r].rate \in Nat
    BY <2>1 DEF Store, RatesInv, RatesTypeOK
  <2>3. cache' # Fallback /\ cache'.at >= cache.at
    BY <2>2, CacheType DEF RatesInv, CacheKnown, RatesTypeOK
  <2>4. ask[r].rate >= cache.rate \/ r \in overtaken
    BY <2>2 DEF RatesInv, BodiesKnown
  <2>5. QED
    BY <2>1, <2>2, <2>3, <2>4
<1>2. QED
  BY <1>1, RatesAlways, PTL DEF Spec, CacheMovesOn
=============================================================================
