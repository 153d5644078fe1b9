--------------------------- MODULE MigratorProofs ---------------------------
(***************************************************************************)
(* The configuration the user wrote survives every migration, for any      *)
(* number of processes, upstream groups, interruptions and seconds.        *)
(*                                                                         *)
(* None of the properties is inductive by itself.  What makes them so is   *)
(* IInv: a process between reading and writing holds the original and its  *)
(* migrated form; the directory it has made is its own, holds nothing      *)
(* complete while the backup is being written, and holds the original from *)
(* then on.                                                                *)
(***************************************************************************)
EXTENDS Migrator, TLAPS

\* The processes that have made their backup directory.
HasDir(p) == pc[p] \in {"backup", "backing", "write", "writing"}

\* The processes between reading the file and replacing it.
Migrating(p) == pc[p] = "mkdir" \/ HasDir(p)

\* A process that migrates has read the original and computed its result.
LocalsInv ==
  \A p \in Procs : Migrating(p) =>
    Migratable(orig) /\ data[p] = orig /\ conf[p] = Migrated(orig)

\* The file is the original, the result or, with in-place writes, half of it.
FileInv ==
  \/ file = orig
  \/ Migratable(orig) /\ file = Migrated(orig)
  \/ Migratable(orig) /\ ~atomic /\ file = Torn

\* Directories belong to one process each, and are complete when it writes.
DirsInv ==
  /\ \A p, q \in Procs : HasDir(p) /\ HasDir(q) /\ dir[p] = dir[q] => p = q
  /\ \A p \in Procs : HasDir(p) => dir[p] \in Names
  /\ \A p \in Procs : pc[p] \in {"backup", "backing"} => backups[dir[p]] \in {Empty, Torn}
  /\ \A p \in Procs : pc[p] \in {"write", "writing"} => backups[dir[p]] = orig

IInv ==
  /\ TypeOK
  /\ LocalsInv
  /\ FileInv
  /\ DirsInv
  /\ OriginalRecoverable
  /\ UnmigratableUntouched

----------------------------------------------------------------------------
(* The migrations *)

\* A migration that adds a key to dns.server fails exactly when there is no such
\* object or it has the key, and changes nothing else.
LEMMA AddToServerStep ==
  ASSUME NEW c \in Confs, NEW k \in ServerKeys, NEW t \in 0..VersionLatest
  PROVE  /\ c.server = None \/ k \in c.server => AddToServer(c, k, t) = None
         /\ c.server # None /\ k \notin c.server =>
              /\ AddToServer(c, k, t) =
                   [ver |-> t, server |-> c.server \cup {k}, groups |-> c.groups]
              /\ AddToServer(c, k, t) \in Confs
              /\ AddToServer(c, k, t) # None
<1> USE MigratorAssumption
<1>1. CASE c.server = None
  BY <1>1 DEF AddToServer
<1>2. CASE c.server # None /\ k \in c.server
  BY <1>2 DEF AddToServer
<1>3. CASE c.server # None /\ k \notin c.server
  <2>1. AddToServer(c, k, t) = [ver |-> t, server |-> c.server \cup {k}, groups |-> c.groups]
    BY <1>3 DEF AddToServer, Confs
  <2>2. c.server \cup {k} \in SUBSET ServerKeys
    BY <1>3 DEF Confs
  <2>3. c.groups \in {None} \cup [Groups -> GroupVals]
    BY DEF Confs
  <2>4. [ver |-> t, server |-> c.server \cup {k}, groups |-> c.groups] \in Confs
    BY <2>2, <2>3 DEF Confs
  <2>5. QED
    BY <1>3, <2>1, <2>4
<1>4. QED
  BY <1>1, <1>2, <1>3

\* The last migration fails exactly when there are no groups or one of them is
\* not plain.
LEMMA MigrateTo4Step ==
  ASSUME NEW c \in Confs
  PROVE  /\ ~(c.groups # None /\ \A g \in Groups : c.groups[g] = "plain") => MigrateTo4(c) = None
         /\ c.groups # None /\ (\A g \in Groups : c.groups[g] = "plain") =>
              /\ MigrateTo4(c) =
                   [ver |-> 4, server |-> c.server, groups |-> [g \in Groups |-> "autodevice"]]
              /\ MigrateTo4(c) # None
<1> USE MigratorAssumption
<1>1. CASE ~(c.groups # None /\ \A g \in Groups : c.groups[g] = "plain")
  BY <1>1 DEF MigrateTo4
<1>2. CASE c.groups # None /\ \A g \in Groups : c.groups[g] = "plain"
  <2>1. MigrateTo4(c) =
          [ver |-> 4, server |-> c.server, groups |-> [g \in Groups |-> "autodevice"]]
    BY <1>2 DEF MigrateTo4, Confs
  <2>2. c.server \in {None} \cup SUBSET ServerKeys
    BY DEF Confs
  <2>3. [ver |-> 4, server |-> c.server, groups |-> [g \in Groups |-> "autodevice"]] \in Confs
    BY <2>2 DEF Confs, GroupVals, VersionLatest
  <2>4. QED
    BY <1>2, <2>1, <2>3
<1>3. QED
  BY <1>1, <1>2

\* What the chain of migrations computes is what the documentation describes,
\* and it fails exactly on what does not qualify: no configuration is
\* half-migrated.
LEMMA MigrateCorrect ==
  ASSUME NEW c \in Confs, c.ver \in VersionInitial..VersionLatest, c.ver # VersionLatest
  PROVE  /\ Migrate(c, c.ver) # None <=> Migratable(c)
         /\ Migratable(c) => Migrate(c, c.ver) = Migrated(c)
<1> USE DEF VersionInitial, VersionLatest
<1>a. "bind_retry" \in ServerKeys /\ "pending_requests" \in ServerKeys
  BY DEF ServerKeys
<1>b. c # None
  BY MigratorAssumption
<1>c. ASSUME NEW d \in Confs, d.ver = 3
      PROVE  /\ Migrate(d, 3) # None <=> Migratable(d)
             /\ Migratable(d) => Migrate(d, 3) = Migrated(d)
  <2>1. Migrate(d, 3) = MigrateTo4(d)
    BY MigratorAssumption DEF Migrate
  <2>2. Migratable(d) <=> d.groups # None /\ \A g \in Groups : d.groups[g] = "plain"
    BY <1>c DEF Migratable
  <2>3. Migrated(d) =
          [ver |-> 4, server |-> d.server, groups |-> [g \in Groups |-> "autodevice"]]
    BY <1>c DEF Migrated
  <2>4. QED
    BY <2>1, <2>2, <2>3, MigrateTo4Step
<1>d. ASSUME NEW d \in Confs, d.ver = 2
      PROVE  /\ Migrate(d, 2) # None <=> Migratable(d)
             /\ Migratable(d) => Migrate(d, 2) = Migrated(d)
  <2> DEFINE e == MigrateTo3(d)
  <2>1. CASE d.server = None \/ "pending_requests" \in d.server
    <3>1. e = None
      BY <2>1, <1>a, AddToServerStep DEF MigrateTo3
    <3>2. Migrate(d, 2) = None
      BY <3>1 DEF Migrate
    <3>3. QED
      BY <3>2, <2>1, <1>d DEF Migratable
  <2>2. CASE d.server # None /\ "pending_requests" \notin d.server
    <3>1. /\ e = [ver |-> 3, server |-> d.server \cup {"pending_requests"}, groups |-> d.groups]
          /\ e \in Confs
          /\ e # None
      BY <2>2, <1>a, AddToServerStep DEF MigrateTo3
    <3>2. Migrate(d, 2) = Migrate(e, 3)
      <4>1. d # None
        BY MigratorAssumption
      <4>2. QED
        BY <3>1, <4>1 DEF Migrate
    <3>3. Migratable(d) <=> Migratable(e)
      BY <3>1, <2>2, <1>d DEF Migratable
    <3>4. Migrated(d) = Migrated(e)
      BY <3>1, <2>2, <1>d DEF Migrated
    <3>5. QED
      BY <3>1, <3>2, <3>3, <3>4, <1>c
  <2>3. QED
    BY <2>1, <2>2
<1>1. CASE c.ver = 1
  <2> DEFINE e == MigrateTo2(c)
  <2>1. CASE c.server = None \/ "bind_retry" \in c.server
    <3>1. e = None
      BY <2>1, <1>a, AddToServerStep DEF MigrateTo2
    <3>2. Migrate(c, 1) = None
      BY <3>1 DEF Migrate
    <3>3. QED
      BY <3>2, <2>1, <1>1 DEF Migratable
  <2>2. CASE c.server # None /\ "bind_retry" \notin c.server
    <3>1. /\ e = [ver |-> 2, server |-> c.server \cup {"bind_retry"}, groups |-> c.groups]
          /\ e \in Confs
          /\ e # None
      BY <2>2, <1>a, AddToServerStep DEF MigrateTo2
    <3>2. Migrate(c, 1) = Migrate(e, 2)
      BY <3>1 DEF Migrate
    <3>3. e.server # None
      <4>1. c.server \in SUBSET ServerKeys
        BY <2>2 DEF Confs
      <4>2. e.server \in SUBSET ServerKeys
        BY <3>1, <4>1, <1>a
      <4>3. QED
        BY <4>2, MigratorAssumption
    <3>4. Migratable(c) <=> Migratable(e)
      BY <3>1, <3>3, <2>2, <1>1 DEF Migratable
    <3>5. Migrated(c) = Migrated(e)
      BY <3>1, <2>2, <1>1 DEF Migrated, ServerKeys
    <3>6. QED
      BY <3>1, <3>2, <3>4, <3>5, <1>1, <1>d
  <2>3. QED
    BY <2>1, <2>2
<1>2. QED
  BY <1>1, <1>c, <1>d

\* The result is a configuration of the latest version.
LEMMA MigratedTyped ==
  ASSUME NEW c \in Confs, Migratable(c)
  PROVE  Migrated(c) \in Confs /\ Migrated(c).ver = VersionLatest
  BY DEF Migrated, Migratable, Confs, ServerKeys, GroupVals, VersionInitial, VersionLatest

\* A configuration is none of the markers, and neither is its result.
LEMMA ConfIsNoMarker ==
  ASSUME NEW c \in Confs
  PROVE  c # None /\ c # Torn /\ c # Empty
  BY MigratorAssumption

----------------------------------------------------------------------------
(* The invariant *)

\* The invariant holds of every file the user may have written.
LEMMA InitIInv == Init => IInv
<1> SUFFICES ASSUME Init PROVE IInv
  OBVIOUS
<1>1. orig \in Confs
  BY MigratorAssumption DEF Init
<1>2. TypeOK
  BY <1>1, MigratorAssumption DEF Init, TypeOK, Seconds
<1>3. QED
  BY <1>2 DEF Init, IInv, LocalsInv, FileInv, DirsInv, Migrating, HasDir,
              OriginalRecoverable, UnmigratableUntouched

\* A start: the file is the original if it can be migrated at all, because the
\* result is of the latest version.
LEMMA StartIInv ==
  ASSUME IInv, NEW p \in Procs, StartMigrates(p)
  PROVE  IInv'
<1> USE DEF IInv
<1>1. file \in Confs /\ file.ver \in VersionInitial..VersionLatest
  BY DEF StartMigrates, Readable, TypeOK
<1>2. file = orig
  <2>1. Torn \notin Confs
    BY ConfIsNoMarker
  <2>2. QED
    BY <1>1, <2>1, MigratedTyped DEF FileInv, StartMigrates, TypeOK
<1>3. Migratable(orig) /\ Migrate(file, file.ver) = Migrated(orig)
  BY <1>1, <1>2, MigrateCorrect DEF StartMigrates
<1>4. Migrated(orig) \in Confs
  BY <1>1, <1>2, <1>3, MigratedTyped
<1>5. TypeOK'
  BY <1>1, <1>3, <1>4 DEF TypeOK, StartMigrates
<1>6. LocalsInv'
  BY <1>2, <1>3 DEF LocalsInv, StartMigrates, Migrating, HasDir, TypeOK
<1>7. FileInv' /\ OriginalRecoverable' /\ UnmigratableUntouched'
  BY DEF FileInv, OriginalRecoverable, UnmigratableUntouched, StartMigrates
<1>8. DirsInv'
  BY DEF DirsInv, HasDir, StartMigrates, TypeOK
<1>9. QED
  BY <1>5, <1>6, <1>7, <1>8

\* A process leaves Run: nothing it held matters any more.
LEMMA LeaveIInv ==
  ASSUME IInv, NEW p \in Procs, NEW s \in {"off", "up", "failed"}, Leave(p, s),
         UNCHANGED <<atomic, orig, file, backups, clock>>,
         interrupts' \in 0..MaxInterrupts
  PROVE  IInv'
<1> USE DEF IInv
<1>1. TypeOK'
  BY DEF TypeOK, Leave
<1>2. LocalsInv'
  BY DEF LocalsInv, Leave, Migrating, HasDir, TypeOK
<1>3. FileInv' /\ OriginalRecoverable' /\ UnmigratableUntouched'
  BY DEF FileInv, OriginalRecoverable, UnmigratableUntouched
<1>4. DirsInv'
  BY DEF DirsInv, HasDir, Leave, TypeOK
<1>5. QED
  BY <1>1, <1>2, <1>3, <1>4

\* The directory is new, so that no other process has it.
LEMMA MkdirIInv ==
  ASSUME IInv, NEW p \in Procs, Mkdir(p)
  PROVE  IInv'
<1> DEFINE n == BackupName(data[p].ver)
<1> USE DEF IInv
<1>1. Migratable(orig) /\ data[p] = orig
  BY DEF Mkdir, LocalsInv, Migrating
<1>2. n \in Names
  BY <1>1 DEF BackupName, Names, Seconds, TypeOK, Migratable, VersionInitial, VersionLatest
<1>3. /\ pc[p] = "mkdir"
      /\ backups[n] = None
      /\ backups' = [backups EXCEPT ![n] = Empty]
      /\ dir' = [dir EXCEPT ![p] = n]
      /\ pc' = [pc EXCEPT ![p] = "backup"]
      /\ UNCHANGED <<atomic, orig, file, clock, conf, data, interrupts>>
  BY DEF Mkdir
<1> HIDE DEF n
<1>4. orig \notin {None, Empty, Torn} /\ None \notin {Empty, Torn}
  BY ConfIsNoMarker, MigratorAssumption DEF TypeOK
<1>5. TypeOK'
  BY <1>2, <1>3 DEF TypeOK
<1>6. LocalsInv'
  BY <1>3 DEF LocalsInv, Migrating, HasDir, TypeOK
<1>7. FileInv' /\ UnmigratableUntouched'
  BY <1>1, <1>3 DEF FileInv, UnmigratableUntouched, Migratable
<1>8. OriginalRecoverable'
  BY <1>2, <1>3, <1>4 DEF OriginalRecoverable, TypeOK
<1>9. DirsInv'
  <2>1. \A q \in Procs : HasDir(q) => dir[q] # n
    BY <1>3, <1>4 DEF DirsInv, HasDir
  <2>2. QED
    BY <1>2, <1>3, <2>1 DEF DirsInv, HasDir, TypeOK
<1>10. QED
  BY <1>5, <1>6, <1>7, <1>8, <1>9

\* The backup is written into the process's own directory, which holds nothing
\* complete.
LEMMA BackupIInv ==
  ASSUME IInv, NEW p \in Procs, BackupBegin(p) \/ BackupEnd(p)
  PROVE  IInv'
<1> DEFINE d == dir[p]
<1> USE DEF IInv
<1>1. Migratable(orig) /\ data[p] = orig /\ HasDir(p)
  BY DEF BackupBegin, BackupEnd, LocalsInv, Migrating, HasDir
<1>2. d \in Names /\ backups[d] \in {Empty, Torn}
  BY <1>1 DEF BackupBegin, BackupEnd, DirsInv
<1>3. PICK x \in {backups[d], Torn, orig} :
        /\ backups' = [backups EXCEPT ![d] = x]
        /\ BackupBegin(p) => x \in {Empty, Torn}
        /\ BackupEnd(p) => x = orig
  BY <1>1, <1>2 DEF BackupBegin, BackupEnd, DuringWrite, TypeOK
<1>4. orig \in Confs /\ orig \notin {None, Empty, Torn}
  BY ConfIsNoMarker DEF TypeOK
<1>5. UNCHANGED <<atomic, orig, file, clock, conf, data, dir, interrupts>>
  BY DEF BackupBegin, BackupEnd
<1>6. TypeOK'
  BY <1>2, <1>3, <1>4, <1>5 DEF TypeOK, BackupBegin, BackupEnd
<1>7. LocalsInv'
  BY <1>5 DEF LocalsInv, Migrating, HasDir, TypeOK, BackupBegin, BackupEnd
<1>8. FileInv' /\ UnmigratableUntouched'
  BY <1>1, <1>5 DEF FileInv, UnmigratableUntouched, Migratable
<1>9. OriginalRecoverable'
  BY <1>2, <1>3, <1>4, <1>5 DEF OriginalRecoverable, TypeOK
<1>10. DirsInv'
  <2>1. \A q \in Procs : HasDir(q)' => HasDir(q)
    BY <1>1 DEF HasDir, BackupBegin, BackupEnd, TypeOK
  <2>2. \A q \in Procs : HasDir(q) /\ q # p => dir[q] # d /\ dir[q] \in Names
    BY <1>1 DEF DirsInv
  <2>3. \A q \in Procs : HasDir(q) /\ q # p => backups'[dir[q]] = backups[dir[q]]
    BY <1>3, <2>2 DEF TypeOK
  <2>4. backups'[d] = x
    BY <1>2, <1>3 DEF TypeOK
  <2>5. \A q \in Procs : q # p => pc'[q] = pc[q]
    BY DEF BackupBegin, BackupEnd, TypeOK
  <2>6. \/ BackupBegin(p) /\ pc'[p] = "backing"
        \/ BackupEnd(p) /\ pc'[p] = "write"
    BY DEF BackupBegin, BackupEnd, TypeOK
  <2>7. QED
    BY <1>3, <1>5, <2>1, <2>2, <2>3, <2>4, <2>5, <2>6 DEF DirsInv, HasDir
<1>11. QED
  BY <1>6, <1>7, <1>8, <1>9, <1>10

\* The file is replaced only when the backup is complete.
LEMMA WriteIInv ==
  ASSUME IInv, NEW p \in Procs, WriteBegin(p) \/ WriteEnd(p)
  PROVE  IInv'
<1> USE DEF IInv
<1>1. Migratable(orig) /\ conf[p] = Migrated(orig)
  BY DEF WriteBegin, WriteEnd, LocalsInv, Migrating, HasDir
<1>2. dir[p] \in Names /\ backups[dir[p]] = orig
  BY DEF WriteBegin, WriteEnd, DirsInv, HasDir
<1>3. Migrated(orig) \in Confs
  BY <1>1, MigratedTyped DEF TypeOK
<1>4. UNCHANGED <<atomic, orig, backups, clock, interrupts>>
  BY DEF WriteBegin, WriteEnd
<1>5. TypeOK'
  BY <1>1, <1>3, <1>4 DEF TypeOK, WriteBegin, WriteEnd, Leave, DuringWrite
<1>6. LocalsInv'
  BY <1>4 DEF LocalsInv, Migrating, HasDir, TypeOK, WriteBegin, WriteEnd, Leave
<1>7. FileInv'
  BY <1>1, <1>4 DEF FileInv, WriteBegin, WriteEnd, DuringWrite, Migratable, Migrated
<1>8. OriginalRecoverable' /\ UnmigratableUntouched'
  BY <1>1, <1>2, <1>4 DEF OriginalRecoverable, UnmigratableUntouched, Migratable
<1>9. DirsInv'
  BY <1>4 DEF DirsInv, HasDir, TypeOK, WriteBegin, WriteEnd, Leave
<1>10. QED
  BY <1>5, <1>6, <1>7, <1>8, <1>9

\* Every step preserves the invariant.
LEMMA StepIInv == IInv /\ [Next]_vars => IInv'
<1> SUFFICES ASSUME IInv, [Next]_vars PROVE IInv'
  OBVIOUS
<1>0. interrupts \in 0..MaxInterrupts /\ interrupts + 1 \in Nat
  BY MigratorAssumption DEF IInv, TypeOK
<1>1. ASSUME NEW p \in Procs, Run(p) PROVE IInv'
  <2>1. CASE StartLatest(p) \/ StartFails(p) \/ MkdirExists(p)
    BY <2>1, <1>0, LeaveIInv DEF StartLatest, StartFails, MkdirExists
  <2>2. QED
    BY <1>1, <2>1, StartIInv, MkdirIInv, BackupIInv, WriteIInv DEF Run
<1>2. ASSUME NEW p \in Procs, Interrupt(p) PROVE IInv'
  <2>1. interrupts' \in 0..MaxInterrupts
    BY <1>0, <1>2, MigratorAssumption DEF Interrupt
  <2>2. QED
    BY <1>2, <2>1, LeaveIInv DEF Interrupt
<1>3. ASSUME NEW p \in Procs, Restart(p) PROVE IInv'
  BY <1>0, <1>3, LeaveIInv DEF Restart
<1>4. CASE Tick
  <2>1. clock' \in Seconds
    BY <1>4, MigratorAssumption DEF Tick, IInv, TypeOK, Seconds
  <2>2. QED
    BY <1>4, <2>1
    DEF Tick, IInv, TypeOK, LocalsInv, FileInv, DirsInv, HasDir, Migrating,
        OriginalRecoverable, UnmigratableUntouched
<1>5. CASE UNCHANGED vars
  BY <1>5
  DEF vars, IInv, TypeOK, LocalsInv, FileInv, DirsInv, HasDir, Migrating,
      OriginalRecoverable, UnmigratableUntouched
<1>6. QED
  BY <1>1, <1>2, <1>3, <1>4, <1>5 DEF Next

\* A step writes to a backup only while it is not complete: the directory of the
\* process that writes holds nothing complete, by DirsInv.
LEMMA StepBackupsKept ==
  ASSUME IInv, [Next]_vars, NEW n \in Names, backups[n] \notin {None, Empty, Torn}
  PROVE  backups'[n] = backups[n]
<1>1. ASSUME NEW p \in Procs, Mkdir(p) PROVE backups'[n] = backups[n]
  BY <1>1 DEF Mkdir, IInv, TypeOK
<1>2. ASSUME NEW p \in Procs, BackupBegin(p) \/ BackupEnd(p) PROVE backups'[n] = backups[n]
  <2>1. backups[dir[p]] \in {Empty, Torn}
    BY <1>2 DEF BackupBegin, BackupEnd, IInv, DirsInv
  <2>2. QED
    BY <1>2, <2>1 DEF BackupBegin, BackupEnd, IInv, TypeOK
<1>3. QED
  BY <1>1, <1>2
  DEF Next, Run, StartLatest, StartFails, StartMigrates, MkdirExists, WriteBegin,
      WriteEnd, Interrupt, Restart, Tick, vars

----------------------------------------------------------------------------
(* Theorems *)

\* The inductive invariant holds in every reachable state.
THEOREM MigratorInvariant == Spec => []IInv
  BY InitIInv, StepIInv, PTL DEF Spec

\* The migrator's state is well-typed.
THEOREM MigratorTyped == Spec => []TypeOK
<1>1. IInv => TypeOK
  BY DEF IInv
<1>2. QED
  BY <1>1, MigratorInvariant, PTL

\* The original configuration is in the file or in a complete backup at every
\* step of every number of processes, wherever they are interrupted and whether
\* or not files are replaced at once.
THEOREM MigratorKeepsOriginal == Spec => []OriginalRecoverable
<1>1. IInv => OriginalRecoverable
  BY DEF IInv
<1>2. QED
  BY <1>1, MigratorInvariant, PTL

\* With atomic writes the file is the original or the whole result of the
\* migrations, which is the one the documentation describes.
THEOREM MigratorFileWhole == Spec => []FileWhole
<1>1. IInv => FileWhole
  BY DEF IInv, FileInv, FileWhole
<1>2. QED
  BY <1>1, MigratorInvariant, PTL

\* A configuration that cannot be migrated is left alone, with no backup made.
THEOREM MigratorUnmigratable == Spec => []UnmigratableUntouched
<1>1. IInv => UnmigratableUntouched
  BY DEF IInv
<1>2. QED
  BY <1>1, MigratorInvariant, PTL

\* A complete backup is never written to again.
THEOREM MigratorBackupsKept == Spec => BackupsKept
<1>1. IInv /\ [Next]_vars =>
        [\A n \in Names : backups[n] \notin {None, Empty, Torn} => backups'[n] = backups[n]]_vars
  BY StepBackupsKept
<1>2. QED
  BY <1>1, MigratorInvariant, PTL DEF Spec, BackupsKept
=============================================================================
