------------------------------ MODULE Migrator ------------------------------
(***************************************************************************)
(* The configuration migrator of internal/configmigrate, as handleConfig   *)
(* runs it each time the program starts: it reads the configuration file,  *)
(* upgrades it in memory, backs the original up and writes the result.     *)
(*                                                                         *)
(* A process may die at any step and is started again by the service       *)
(* manager; two processes may run at a time, when the program is started   *)
(* by hand beside the service.  A write replaces the file at once on Unix, *)
(* where maybe.WriteFile renames a temporary file, and in place on Windows *)
(* (atomic).                                                               *)
(*                                                                         *)
(* A configuration is reduced to what the migrations look at: the schema   *)
(* version (0: missing or no integer in range), the keys of dns.server and *)
(* the state of the autodevice key in each upstream group.                 *)
(***************************************************************************)
EXTENDS Naturals

CONSTANTS
  Procs,         \* the processes of the program
  Groups,        \* the names of the upstream groups
  Originals,     \* the configurations the file may hold at first
  WriteModes,    \* whether maybe.WriteFile renames: {TRUE} on Unix, {FALSE} on Windows
  MaxClock,      \* bound: seconds of the clock
  MaxInterrupts, \* bound: how often a process dies or fails to write
  None,          \* an absent object, directory or configuration; an error
  Empty,         \* a backup directory without a file
  Torn           \* a file that was written in part

VersionInitial == 1
VersionLatest  == 4

ServerKeys == {"bind_retry", "pending_requests"}
GroupVals  == {"plain", "autodevice", "scalar"}

Confs == [ver    : 0..VersionLatest,
          server : {None} \cup SUBSET ServerKeys,
          groups : {None} \cup [Groups -> GroupVals]]

ASSUME MigratorAssumption ==
  /\ Originals \subseteq Confs
  /\ WriteModes \subseteq BOOLEAN
  /\ MaxClock \in Nat /\ MaxInterrupts \in Nat
  /\ \A s \in SUBSET ServerKeys : s # None
  /\ \A g \in [Groups -> GroupVals] : g # None
  /\ \A c \in Confs : c \notin {None, Torn, Empty}
  /\ None \notin {Torn, Empty} /\ Torn # Empty

VARIABLES
  atomic,      \* whether a write replaces the file at once
  orig,        \* the configuration the user wrote
  file,        \* the configuration file
  backups,     \* the backup directories: name -> None, Empty, Torn or a copy
  clock,       \* seconds
  pc,          \* each process: its step in Run
  conf, data,  \* its locals: the upgraded configuration and the file it read
  dir,         \* the name of its backup directory
  interrupts

vars == <<atomic, orig, file, backups, clock, pc, conf, data, dir, interrupts>>

----------------------------------------------------------------------------
(* The migrations.  Each returns the upgraded configuration, or None for an *)
(* error.                                                                   *)

\* migrateTo2 and migrateTo3: dns.server must exist and must not have the key.
AddToServer(c, k, target) ==
  IF c.server = None THEN None
  ELSE IF k \in c.server THEN None
  ELSE [c EXCEPT !.server = @ \cup {k}, !.ver = target]

MigrateTo2(c) == AddToServer(c, "bind_retry", 2)
MigrateTo3(c) == AddToServer(c, "pending_requests", 3)

\* Mutant of MigrateTo4: an autodevice key that is there already is replaced.
MigrateTo4Replaces(c) ==
  IF c.groups = None THEN None
  ELSE IF \E g \in Groups : c.groups[g] = "scalar" THEN None
  ELSE [c EXCEPT !.groups = [g \in Groups |-> "autodevice"], !.ver = 4]

\* Mutant of MigrateTo4: the target is not the version the function is for.
MigrateTo4WrongTarget(c) ==
  IF c.groups = None THEN None
  ELSE IF \E g \in Groups : c.groups[g] # "plain" THEN None
  ELSE [c EXCEPT !.groups = [g \in Groups |-> "autodevice"], !.ver = 5]

\* migrateTo4: every group must be an object without the key.  An error in one
\* group leaves the others changed, in memory.
MigrateTo4(c) ==
  IF c.groups = None THEN None
  ELSE IF \E g \in Groups : c.groups[g] # "plain" THEN None
  ELSE [c EXCEPT !.groups = [g \in Groups |-> "autodevice"], !.ver = 4]

\* migrate: the migrations from curr on, up to the first that fails.
Migrate(c, curr) ==
  LET c2 == IF curr < 2 THEN MigrateTo2(c) ELSE c
      c3 == IF curr < 3 /\ c2 # None THEN MigrateTo3(c2) ELSE c2
  IN  IF curr < 4 /\ c3 # None THEN MigrateTo4(c3) ELSE c3

----------------------------------------------------------------------------
(* Run *)

Seconds == 0..MaxClock
Names   == [curr : VersionInitial..VersionLatest, time : Seconds]

\* Mutant of BackupName: the name has no time in it.
BackupNameNoTime(curr) == [curr |-> curr, time |-> 0]

\* BackupDirNameFormat, with the version migrated from and the time in seconds.
BackupName(curr) == [curr |-> curr, time |-> clock]

Init ==
  /\ atomic \in WriteModes
  /\ orig \in Originals
  /\ file = orig
  /\ backups = [n \in Names |-> None]
  /\ clock = 0
  /\ pc = [p \in Procs |-> "off"]
  /\ conf = [p \in Procs |-> None]
  /\ data = [p \in Procs |-> None]
  /\ dir = [p \in Procs |-> None]
  /\ interrupts = 0

\* The process ends, or goes on to serve, with nothing left of Run.
Leave(p, state) ==
  /\ pc' = [pc EXCEPT ![p] = state]
  /\ conf' = [conf EXCEPT ![p] = None]
  /\ data' = [data EXCEPT ![p] = None]
  /\ dir' = [dir EXCEPT ![p] = None]

\* readYAML and getVersion accept the file.  A file written in part has no
\* version: its keys are sorted and schema_version comes last.
Readable == file # Torn /\ file.ver \in VersionInitial..VersionLatest

\* A start that needs no migration.
StartLatest(p) ==
  /\ pc[p] = "off"
  /\ Readable
  /\ file.ver = VersionLatest
  /\ Leave(p, "up")
  /\ UNCHANGED <<atomic, orig, file, backups, clock, interrupts>>

\* A start that ends before anything is written: the file cannot be read or a
\* migration fails.
StartFails(p) ==
  /\ pc[p] = "off"
  /\ IF Readable
     THEN file.ver # VersionLatest /\ Migrate(file, file.ver) = None
     ELSE TRUE
  /\ Leave(p, "failed")
  /\ UNCHANGED <<atomic, orig, file, backups, clock, interrupts>>

\* A start that migrates, up to the backup.
StartMigrates(p) ==
  /\ pc[p] = "off"
  /\ Readable
  /\ file.ver # VersionLatest
  /\ Migrate(file, file.ver) # None
  /\ conf' = [conf EXCEPT ![p] = Migrate(file, file.ver)]
  /\ data' = [data EXCEPT ![p] = file]
  /\ pc' = [pc EXCEPT ![p] = "mkdir"]
  /\ UNCHANGED <<atomic, orig, file, backups, clock, dir, interrupts>>

\* Mutant of Mkdir: the original is not backed up.
MkdirNoBackup(p) ==
  LET n == BackupName(data[p].ver) IN
  /\ pc[p] = "mkdir"
  /\ backups[n] = None
  /\ backups' = [backups EXCEPT ![n] = Empty]
  /\ dir' = [dir EXCEPT ![p] = n]
  /\ pc' = [pc EXCEPT ![p] = "write"]
  /\ UNCHANGED <<atomic, orig, file, clock, conf, data, interrupts>>

\* Mutant of Mkdir: os.MkdirAll accepts a directory that exists.
MkdirAll(p) ==
  LET n == BackupName(data[p].ver) IN
  /\ pc[p] = "mkdir"
  /\ backups' = [backups EXCEPT ![n] = IF @ = None THEN Empty ELSE @]
  /\ dir' = [dir EXCEPT ![p] = n]
  /\ pc' = [pc EXCEPT ![p] = "backup"]
  /\ UNCHANGED <<atomic, orig, file, clock, conf, data, interrupts>>

\* backupConfig reads the clock and makes the directory.
Mkdir(p) ==
  LET n == BackupName(data[p].ver) IN
  /\ pc[p] = "mkdir"
  /\ backups[n] = None
  /\ backups' = [backups EXCEPT ![n] = Empty]
  /\ dir' = [dir EXCEPT ![p] = n]
  /\ pc' = [pc EXCEPT ![p] = "backup"]
  /\ UNCHANGED <<atomic, orig, file, clock, conf, data, interrupts>>

\* The directory exists already and Run fails.
MkdirExists(p) ==
  /\ pc[p] = "mkdir"
  /\ backups[BackupName(data[p].ver)] # None
  /\ Leave(p, "failed")
  /\ UNCHANGED <<atomic, orig, file, backups, clock, interrupts>>

\* What a file that held old holds while it is being written.
DuringWrite(old) == IF atomic THEN old ELSE Torn

\* maybe.WriteFile writes the copy.
BackupBegin(p) ==
  /\ pc[p] = "backup"
  /\ backups' = [backups EXCEPT ![dir[p]] = DuringWrite(@)]
  /\ pc' = [pc EXCEPT ![p] = "backing"]
  /\ UNCHANGED <<atomic, orig, file, clock, conf, data, dir, interrupts>>

BackupEnd(p) ==
  /\ pc[p] = "backing"
  /\ backups' = [backups EXCEPT ![dir[p]] = data[p]]
  /\ pc' = [pc EXCEPT ![p] = "write"]
  /\ UNCHANGED <<atomic, orig, file, clock, conf, data, dir, interrupts>>

\* Mutant of WriteBegin: the file is truncated first, as os.WriteFile does.
WriteBeginTruncates(p) ==
  /\ pc[p] = "write"
  /\ file' = Torn
  /\ pc' = [pc EXCEPT ![p] = "writing"]
  /\ UNCHANGED <<atomic, orig, backups, clock, conf, data, dir, interrupts>>

\* maybe.WriteFile writes the migrated configuration.
WriteBegin(p) ==
  /\ pc[p] = "write"
  /\ file' = DuringWrite(file)
  /\ pc' = [pc EXCEPT ![p] = "writing"]
  /\ UNCHANGED <<atomic, orig, backups, clock, conf, data, dir, interrupts>>

WriteEnd(p) ==
  /\ pc[p] = "writing"
  /\ file' = conf[p]
  /\ Leave(p, "up")
  /\ UNCHANGED <<atomic, orig, backups, clock, interrupts>>

\* The process dies, or a call to the file system fails and check exits: what
\* is on disk stays as it is.
Interrupt(p) ==
  /\ pc[p] \notin {"off", "failed", "up"}
  /\ interrupts < MaxInterrupts
  /\ clock < MaxClock
  /\ interrupts' = interrupts + 1
  /\ Leave(p, "failed")
  /\ UNCHANGED <<atomic, orig, file, backups, clock>>

\* The program is stopped and started again.
Restart(p) ==
  /\ pc[p] \in {"failed", "up"}
  /\ Leave(p, "off")
  /\ UNCHANGED <<atomic, orig, file, backups, clock, interrupts>>

Tick ==
  /\ clock < MaxClock
  /\ clock' = clock + 1
  /\ UNCHANGED <<atomic, orig, file, backups, pc, conf, data, dir, interrupts>>

Run(p) ==
  \/ StartLatest(p) \/ StartFails(p) \/ StartMigrates(p)
  \/ Mkdir(p) \/ MkdirExists(p)
  \/ BackupBegin(p) \/ BackupEnd(p)
  \/ WriteBegin(p) \/ WriteEnd(p)

Next == (\E p \in Procs : Run(p) \/ Interrupt(p) \/ Restart(p)) \/ Tick

Spec == Init /\ [][Next]_vars

\* A process that runs goes on; the service manager starts it again when it has
\* failed (the auto-restart state of service_linux.go:164-176); time passes.
FairSpec ==
  /\ Spec
  /\ \A p \in Procs : WF_vars(Run(p)) /\ WF_vars(Restart(p))
  /\ WF_vars(Tick)

----------------------------------------------------------------------------
(* Properties *)

\* Type invariant of the migrator.
TypeOK ==
  /\ atomic \in BOOLEAN
  /\ orig \in Confs
  /\ file \in {Torn} \cup Confs
  /\ backups \in [Names -> {None, Empty, Torn} \cup Confs]
  /\ clock \in Seconds
  /\ pc \in [Procs -> {"off", "mkdir", "backup", "backing", "write", "writing",
                       "up", "failed"}]
  /\ conf \in [Procs -> {None} \cup Confs]
  /\ data \in [Procs -> {None} \cup Confs]
  /\ dir \in [Procs -> Names \cup {None}]
  /\ interrupts \in 0..MaxInterrupts

\* What the documentation of the migrations asks of a configuration, version by
\* version, for it to be migrated to the latest one.
Migratable(c) ==
  /\ c.ver \in VersionInitial..VersionLatest - 1
  /\ c.ver <= 1 => c.server # None /\ "bind_retry" \notin c.server
  /\ c.ver <= 2 => c.server # None /\ "pending_requests" \notin c.server
  /\ c.groups # None /\ \A g \in Groups : c.groups[g] = "plain"

\* The configuration they describe as the result.
Migrated(c) ==
  [ver    |-> VersionLatest,
   server |-> IF c.ver = 1 THEN c.server \cup ServerKeys
              ELSE IF c.ver = 2 THEN c.server \cup {"pending_requests"}
              ELSE c.server,
   groups |-> [g \in Groups |-> "autodevice"]]

\* The configuration the user wrote is never lost: wherever the processes are
\* interrupted, the file or a complete backup still holds it.
OriginalRecoverable == file = orig \/ \E n \in Names : backups[n] = orig

\* The file is either the original or the complete result: a program that is
\* started again after a crash finds a configuration it can use.  Where files
\* are written in place there is no such promise.
FileWhole ==
  atomic => file = orig \/ (Migratable(orig) /\ file = Migrated(orig))

\* A configuration that cannot be migrated, or needs no migration, is left
\* alone: nothing is written and no backup is made.
UnmigratableUntouched ==
  ~Migratable(orig) => file = orig /\ \A n \in Names : backups[n] = None

\* A backup that is complete is never written to again, whichever process made
\* it and however many migrations fall in the same second.
BackupsKept ==
  [][\A n \in Names : backups[n] \notin {None, Empty, Torn} => backups'[n] = backups[n]]_vars

\* However often it is interrupted, the migration is completed in the end: the
\* directories that failed attempts leave behind do not stand in the way.
EventuallyMigrated == atomic /\ Migratable(orig) => <>[](file = Migrated(orig))
=============================================================================
