------------------------------- MODULE Backup -------------------------------
(* deploy/backup.py beside the accounting: the archive of a database snapshot *)
(* and of the journal, the shelf of archives and its pruning, and a restore   *)
(* on a new server.                                                           *)
EXTENDS Accounting

CONSTANTS KeepLatest, DailyDays,
          MaxPaid      \* bound: payments registered while backups are made

BackupAssumption ==
  KeepLatest \in Nat \ {0} /\ DailyDays \in Nat \ {0} /\ MaxPaid \in Nat
ASSUME BackupAssumption

VARIABLES
  bk,        \* the backup under way: its step, its time, what it holds
  paid,      \* rows of a table that the manifest counts: the payments
  archive,   \* contents of the newest archive on the shelf
  shelf,     \* the archives: their time, and whether their report is there
  made       \* history: the times of the backups that completed

backups == <<bk, paid, archive, shelf, made>>
allvars == <<vars, backups>>

NoArchive == [exists |-> FALSE]
Resting == [pc |-> "idle"]

BackupInit ==
  /\ Init
  /\ bk = Resting /\ paid = 0 /\ archive = NoArchive /\ shelf = {} /\ made = {}

Existing == {f \in Files : journal[f] # <<>>}
Journaled(files) ==
  {e \in owed : \E f \in files : \E n \in 1 .. Len(journal[f]) : journal[f][n] = e}

-----------------------------------------------------------------------------
(* The steps of make_backup.                                                  *)

\* The shop goes on meanwhile.
RegisterPayment ==
  /\ paid < MaxPaid
  /\ paid' = paid + 1
  /\ UNCHANGED <<vars, bk, archive, shelf, made>>

\* The lock lets one process in; a second backup of the same time is refused.
ListSources ==
  /\ bk.pc = "idle"
  /\ \A a \in shelf : a.at # now
  /\ bk' = [pc |-> "listed", at |-> now, listed |-> Existing]
  /\ UNCHANGED <<vars, paid, archive, shelf, made>>

\* A read-only transaction exports its snapshot with the counts it sees.  What
\* the archive owes to its restore is what had been taken in by now, and what
\* the listed files hold.
ExportSnapshot ==
  /\ bk.pc = "listed"
  /\ bk' = [pc |-> "exported", at |-> bk.at, listed |-> bk.listed, counts |-> paid,
            snapshot |-> [row |-> row, merged |-> merged, paid |-> paid],
            owed |-> {m.record : m \in merged} \union Journaled(bk.listed)]
  /\ UNCHANGED <<vars, paid, archive, shelf, made>>

\* Faulty: the database as it is by the time of the dump.
DumpedLive(snapshot) == [row |-> row, merged |-> merged, paid |-> paid]
\* pg_dump reads the exported snapshot.
Dumped(snapshot) == snapshot

DumpDatabase ==
  /\ bk.pc = "exported"
  /\ bk' = [pc |-> "dumped", at |-> bk.at, listed |-> bk.listed, counts |-> bk.counts,
            dump |-> Dumped(bk.snapshot), owed |-> bk.owed,
            files |-> [f \in Files |-> <<>>], inventory |-> {}]
  /\ UNCHANGED <<vars, paid, archive, shelf, made>>

\* The prefix of one file that ends with a complete record.
Capture ==
  /\ bk.pc = "dumped" /\ bk.listed # {}
  /\ LET f == Min(bk.listed) IN
     bk' = [bk EXCEPT !.listed = @ \ {f}, !.files[f] = journal[f],
                      !.inventory = @ \union {[name |-> f, size |-> Len(journal[f])]}]
  /\ UNCHANGED <<vars, paid, archive, shelf, made>>

\* Faulty: the live one.
ArchivedLive == cursor
\* The cursor that goes with the files: an empty one.
ArchivedCursor == [f \in Files |-> Unsaved]

PublishArchive ==
  /\ bk.pc = "dumped" /\ bk.listed = {}
  /\ shelf' = shelf \union {[at |-> bk.at, reported |-> FALSE]}
  /\ archive' = [exists |-> TRUE, dump |-> bk.dump, counts |-> bk.counts, owed |-> bk.owed,
                 files |-> bk.files, inventory |-> bk.inventory, cursor |-> ArchivedCursor]
  /\ bk' = [pc |-> "linked", at |-> bk.at]
  /\ UNCHANGED <<vars, paid, made>>

PublishReport ==
  /\ bk.pc = "linked"
  /\ shelf' = {IF a.at = bk.at THEN [a EXCEPT !.reported = TRUE] ELSE a : a \in shelf}
  /\ made' = made \union {bk.at}
  /\ bk' = [pc |-> "pruning", at |-> bk.at]
  /\ UNCHANGED <<vars, paid, archive>>

\* Faulty: the daily history is forgotten.
KeptNewestOnly(candidates) ==
  {a \in candidates : Cardinality({b \in candidates : b.at > a.at}) < KeepLatest}
\* The newest archives, and of each recent day its newest.
Kept(candidates) ==
  {a \in candidates :
     \/ Cardinality({b \in candidates : b.at > a.at}) < KeepLatest
     \/ /\ Day(a.at) > Day(now) - DailyDays
        /\ \A b \in candidates : Day(b.at) = Day(a.at) => b.at <= a.at}

\* Only a pair of an archive and its report is a candidate.  The deletion may
\* break off; the next backup's prune goes on with it.
Prune ==
  /\ bk.pc = "pruning"
  /\ LET candidates == {a \in shelf : a.reported} IN
     \E gone \in SUBSET (candidates \ Kept(candidates)) : shelf' = shelf \ gone
  /\ bk' = Resting
  /\ UNCHANGED <<vars, paid, archive, made>>

\* A command fails, a source changes while it is read, or the process dies: the
\* temporary directory goes, what is linked stays.
BackupFails ==
  /\ bk.pc # "idle" /\ faults < MaxFaults
  /\ faults' = faults + 1
  /\ bk' = Resting
  /\ UNCHANGED <<now, provisioned, server, disk, cursor, rp, live, paid, archive, shelf, made>>

\* validate_archive: the members of the archive are those its manifest lists,
\* each as long as listed.
InventoryMatches(a) ==
  a.inventory = {[name |-> f, size |-> Len(a.files[f])] : f \in {g \in Files : a.files[g] # <<>>}}

\* verify_backup: the dump, restored in a database of its own, has the counts
\* of the manifest.  It writes nothing but its report.
Verifies(a) == InventoryMatches(a) /\ a.dump.paid = a.counts

\* A new server with the newest archive: its database, its files under inodes
\* that may or may not be the former ones, and its cursor.
Restore ==
  /\ archive.exists /\ bk.pc = "idle" /\ faults < MaxFaults
  /\ faults' = faults + 1
  /\ row' = archive.dump.row /\ merged' = archive.dump.merged /\ owed' = archive.owed
  /\ paid' = archive.dump.paid
  /\ journal' = archive.files /\ cursor' = archive.cursor
  /\ ino' \in [Files -> 0 .. 1]
  /\ rp' = [pc |-> "idle", file |-> 0] /\ live' = NoEntry
  /\ UNCHANGED <<now, provisioned, bk, archive, shelf, made>>

BackupNext ==
  \/ Next /\ UNCHANGED backups
  \/ RegisterPayment
  \/ ListSources \/ ExportSnapshot \/ DumpDatabase \/ Capture \/ PublishArchive \/ PublishReport
  \/ Prune \/ BackupFails \/ Restore

BackupSpec == BackupInit /\ [][BackupNext]_allvars

-----------------------------------------------------------------------------
(* Properties.                                                                *)

\* What the database held when the snapshot was taken, and what the files that
\* had been listed held by then, is there after the restore or replayed from the
\* restored journal (deploy/backup.py:149-151).
RestoreLosesNothing == NothingIsLost

\* The newest archive passes its verification, whatever was written while it was
\* made (deploy/backup.py:92, 152 and 341).
ArchiveVerifies == archive.exists => Verifies(archive)

\* Whatever was pruned, each day of the window on which a backup completed has
\* one left, and the last that completed is there (docs/deployment.md:155).
RecoveryPoints ==
  /\ \A t \in made : Day(t) > Day(now) - DailyDays =>
       \E a \in shelf : a.reported /\ Day(a.at) = Day(t)
  /\ made # {} => [at |-> Max(made), reported |-> TRUE] \in shelf
=============================================================================
