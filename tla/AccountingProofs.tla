--------------------------- MODULE AccountingProofs ---------------------------
(***************************************************************************)
(* Proofs about Accounting and Backup, for any packets, routers, sessions, *)
(* clocks and faults: a row is the merge of its reports, no record that    *)
(* was journaled is skipped, and both still hold in a server that was      *)
(* restored from an archive; archives pass their verification and a        *)
(* pruned shelf keeps its recovery points.                                 *)
(***************************************************************************)
EXTENDS Backup, FiniteSetTheorems, NaturalsInduction, TLAPS

Entered(e, reports) == \E m \in reports : m.record = e
Written(e, files, logs) == \E f \in files : \E n \in 1 .. Len(logs[f]) : logs[f][n] = e

\* What lies behind a cursor has been taken in, and so has the record whose
\* confirmation is still to be saved; what must arrive is in the journal or has.
JournalInv ==
  /\ \A f \in Files : /\ cursor[f].offset <= Len(journal[f])
                      /\ \A n \in 1 .. cursor[f].offset : Entered(journal[f][n], merged)
  /\ \A f \in Files : rp.pc = "confirmed" /\ rp.file = f =>
       Unread(f) /\ Entered(NextRecord(f), merged)
  /\ \A e \in owed : Written(e, Files, journal) \/ Entered(e, merged)

\* The row r is the merge of the reports in facts, its extremes being dates and
\* counters of reports; said without Min and Max.
Of(s, reports) == {m \in reports : m.record.of.session = s}
First(t, facts, kind) ==
  /\ t = Never \/ \E m \in facts : m.record.of.kind = kind /\ m.at = t
  /\ \A m \in facts : m.record.of.kind = kind => t <= m.at
Merges(r, facts) ==
  IF facts = {} THEN r = NoRow
  ELSE /\ r # NoRow
       /\ First(r.started, facts, "Start") /\ First(r.stopped, facts, "Stop")
       /\ \E m \in facts : m.record.of.octets = r.octets
       /\ \A m \in facts : m.record.of.octets <= r.octets
       /\ \E m \in facts : m.at = r.updated
       /\ \A m \in facts : m.at <= r.updated
       /\ r.replayed = (\E m \in facts : m.replay)
       /\ \A m \in facts : m.record.of.user = r.user
MergedInv(rows, reports) == \A s \in Sessions : Merges(rows[s], Of(s, reports))

\* An event is dated at its record or before, and of the records of a session one
\* is the latest.
DatedInv(reports) ==
  /\ \A m \in reports : m.at <= m.record.at
  /\ \A s \in Sessions : Of(s, reports) # {} =>
       \E m \in Of(s, reports) : \A x \in Of(s, reports) : x.record.at <= m.record.at

AccountingInv ==
  /\ TypeOK /\ JournalInv /\ MergedInv(row, merged) /\ DatedInv(merged)

-----------------------------------------------------------------------------
(* What Backup adds.                                                       *)

\* A state of the database that a restore may put in place.
Sound(d) == MergedInv(d.row, d.merged) /\ DatedInv(d.merged)
Databases == [row : [Sessions -> Rows \union {NoRow}], merged : SUBSET Reports, paid : Nat]
Entries == [name : Files, size : Nat]

\* What a backup knows by the step it is at.
ListedStates == [pc : {"listed"}, at : 0 .. now, listed : SUBSET Files]
ExportedStates ==
  [pc : {"exported"}, at : 0 .. now, listed : SUBSET Files, counts : Nat,
   snapshot : Databases, owed : SUBSET Records]
DumpedStates ==
  [pc : {"dumped"}, at : 0 .. now, listed : SUBSET Files, counts : Nat, dump : Databases,
   owed : SUBSET Records, files : [Files -> Seq(Records)], inventory : SUBSET Entries]
EndingStates == [pc : {"linked", "pruning"}, at : 0 .. now]
Archives ==
  [exists : {TRUE}, dump : Databases, counts : Nat, owed : SUBSET Records,
   files : [Files -> Seq(Records)], inventory : SUBSET Entries, cursor : {ArchivedCursor}]

BackupTypeOK ==
  /\ paid \in Nat
  /\ shelf \subseteq [at : 0 .. now, reported : BOOLEAN] /\ made \subseteq 0 .. now
  /\ \/ bk = Resting \/ bk \in ListedStates \/ bk \in ExportedStates
     \/ bk \in DumpedStates \/ bk \in EndingStates
  /\ archive = NoArchive \/ archive \in Archives

Listing(files) == {[name |-> f, size |-> Len(files[f])] : f \in {g \in Files : files[g] # <<>>}}

\* What the archive owes to its restore is in its database, in the files it has,
\* or in the ones it is about to read; these are not empty and not read yet.
ArchiveInv ==
  /\ bk.pc \in {"listed", "exported", "dumped"} => \A f \in bk.listed : journal[f] # <<>>
  /\ bk.pc = "exported" =>
       /\ Sound(bk.snapshot) /\ bk.counts = bk.snapshot.paid
       /\ \A e \in bk.owed : Entered(e, bk.snapshot.merged) \/ Written(e, bk.listed, journal)
  /\ bk.pc = "dumped" =>
       /\ Sound(bk.dump) /\ bk.counts = bk.dump.paid
       /\ \A f \in bk.listed : bk.files[f] = <<>>
       /\ bk.inventory = Listing(bk.files)
       /\ \A e \in bk.owed : \/ Entered(e, bk.dump.merged) \/ Written(e, bk.listed, journal)
                             \/ Written(e, Files, bk.files)
  /\ archive # NoArchive =>
       /\ Sound(archive.dump) /\ archive.counts = archive.dump.paid
       /\ archive.inventory = Listing(archive.files)
       /\ \A e \in archive.owed : \/ Entered(e, archive.dump.merged)
                                  \/ Written(e, Files, archive.files)

\* A reported archive is that of a backup that completed; the backup under way is
\* later than those, and its archive is on the shelf once it is linked.
ShelfInv ==
  /\ \A a \in shelf : a.reported => a.at \in made
  /\ bk.pc \in {"listed", "exported", "dumped", "linked"} => \A t \in made : t < bk.at
  /\ bk.pc \in {"listed", "exported", "dumped"} => \A a \in shelf : a.at # bk.at
  /\ bk.pc = "linked" => [at |-> bk.at, reported |-> FALSE] \in shelf
  /\ made # {} => \E t \in made : /\ \A u \in made : u <= t
                                  /\ [at |-> t, reported |-> TRUE] \in shelf
  /\ \A t \in made : Day(t) > Day(now) - DailyDays =>
       \E a \in shelf : a.reported /\ Day(a.at) = Day(t)

BackupInv == AccountingInv /\ BackupTypeOK /\ ArchiveInv /\ ShelfInv

-----------------------------------------------------------------------------
(* Days, packets and the offset of the replay.                             *)

\* The day of a moment is a file, and no later than the day of a later one.
LEMMA DayIsAFile ==
  ASSUME NEW t \in 0 .. MaxTime
  PROVE  Day(t) \in Files
BY AccountingAssumption DEF AccountingAssumption, Day, Files

\* Days go forward.
LEMMA DaysGoForward ==
  ASSUME NEW t \in Nat, NEW u \in Nat, t <= u
  PROVE  Day(t) \in Nat /\ Day(u) \in Nat /\ Day(t) <= Day(u)
BY AccountingAssumption DEF AccountingAssumption, Day

\* The parts of a record.
LEMMA RecordParts ==
  ASSUME NEW e \in Records
  PROVE  /\ e.of \in Packets /\ e.at \in Nat
         /\ e.of.session \in Sessions /\ e.of.octets \in Nat
         /\ e.of.kind \in {"Start", "Interim", "Stop"}
BY AccountingAssumption DEF AccountingAssumption, Records

\* The date of an event is that of its record or the application's now.
LEMMA EventTimeType ==
  ASSUME TypeOK, NEW e \in Records
  PROVE  EventTime(e) \in 0 .. now /\ EventTime(e) <= e.at
BY RecordParts DEF TypeOK, EventTime, Earlier

\* The offset of the replay lies in the file and not beyond the cursor.
LEMMA OffsetInFile ==
  ASSUME TypeOK, NEW f \in Files
  PROVE  /\ Offset(f) \in 0 .. Len(journal[f])
         /\ Offset(f) = 0 \/ Offset(f) = cursor[f].offset
         /\ Unread(f) => NextRecord(f) \in Records
<1>1. journal[f] \in Seq(Records) /\ Len(journal[f]) \in Nat /\ cursor[f].offset \in Nat
  BY DEF TypeOK
<1>2. Offset(f) \in 0 .. Len(journal[f]) /\ (Offset(f) = 0 \/ Offset(f) = cursor[f].offset)
  BY <1>1 DEF Offset
<1>3. ASSUME Unread(f)
      PROVE  NextRecord(f) \in Records
  BY <1>1, <1>2, <1>3 DEF Unread, NextRecord
<1> QED
  BY <1>2, <1>3

-----------------------------------------------------------------------------
(* Types.                                                                  *)

\* The row a report starts from: the one there is, or a new one.
Base(r, p, at) ==
  IF r # NoRow THEN r
  ELSE [exists |-> TRUE, user |-> p.user, started |-> Never,
        stopped |-> Never, octets |-> 0, updated |-> at, replayed |-> FALSE]

\* The row a report starts from is a row.
LEMMA BaseType ==
  ASSUME TypeOK, NEW p \in Packets, NEW at \in 0 .. now, NEW r \in Rows \union {NoRow}
  PROVE  Base(r, p, at) \in Rows
<1>1. now \in 0 .. MaxTime /\ MaxTime \in Nat
  BY AccountingAssumption DEF AccountingAssumption, TypeOK
<1>2. p.user \in {q.user : q \in Packets}
  OBVIOUS
<1>3. CASE r # NoRow
  BY <1>3 DEF Base
<1>4. CASE r = NoRow
  BY <1>1, <1>2, <1>4 DEF Base, Rows, Never
<1> QED
  BY <1>3, <1>4

\* The columns of the row new that a report leaves, from the row it starts from.
Columns(new, old, p, at, replay) ==
  /\ new.user = old.user
  /\ new.started = IF p.kind = "Start" THEN Earlier(old.started, at) ELSE old.started
  /\ new.stopped = IF p.kind = "Stop" THEN Earlier(old.stopped, at) ELSE old.stopped
  /\ new.octets = Later(old.octets, p.octets)
  /\ new.updated = Later(old.updated, at)
  /\ new.replayed = (old.replayed \/ replay)
  /\ new = [old EXCEPT !.started = new.started, !.stopped = new.stopped,
                       !.octets = new.octets, !.updated = new.updated,
                       !.replayed = new.replayed]

\* Merged computes these columns.
LEMMA MergedColumns ==
  ASSUME NEW r, NEW p, NEW at, NEW replay, Base(r, p, at) \in Rows
  PROVE  Columns(Merged(r, p, at, replay), Base(r, p, at), p, at, replay)
<1> DEFINE new == Merged(r, p, at, replay)
           old == Base(r, p, at)
           started == IF p.kind = "Start" THEN Earlier(old.started, at) ELSE old.started
           stopped == IF p.kind = "Stop" THEN Earlier(old.stopped, at) ELSE old.stopped
           octets == Later(old.octets, p.octets)
           updated == Later(old.updated, at)
           replayed == old.replayed \/ replay
<1>1. new = [old EXCEPT !.started = started, !.stopped = stopped, !.octets = octets,
                        !.updated = updated, !.replayed = replayed]
  BY Zenon DEF Merged, Base
<1> HIDE DEF new, old, started, stopped, octets, updated, replayed
<1>2. /\ new.user = old.user /\ new.started = started /\ new.stopped = stopped
      /\ new.octets = octets /\ new.updated = updated /\ new.replayed = replayed
  BY <1>1 DEF Rows, old
<1>3. new = [old EXCEPT !.started = new.started, !.stopped = new.stopped,
                        !.octets = new.octets, !.updated = new.updated,
                        !.replayed = new.replayed]
  BY <1>1, <1>2, Zenon
<1> QED
  BY <1>2, <1>3, Zenon DEF Columns, new, old, started, stopped, octets, updated, replayed

\* The row that a report leaves is a row.
LEMMA MergedType ==
  ASSUME TypeOK, NEW e \in Records, NEW replay \in BOOLEAN, NEW r \in Rows \union {NoRow}
  PROVE  Merged(r, e.of, EventTime(e), replay) \in Rows
<1> DEFINE at == EventTime(e)
           old == Base(r, e.of, at)
           new == Merged(r, e.of, at, replay)
<1>1. at \in 0 .. now /\ now \in 0 .. MaxTime /\ MaxTime \in Nat
  BY EventTimeType, AccountingAssumption DEF AccountingAssumption, TypeOK
<1>2. e.of \in Packets /\ e.of.octets \in Nat
  BY RecordParts
<1>3. old \in Rows
  BY <1>1, <1>2, BaseType
<1>4. /\ old.started \in 0 .. Never /\ old.stopped \in 0 .. Never /\ old.octets \in Nat
      /\ old.updated \in 0 .. now /\ old.replayed \in BOOLEAN
      /\ old.user \in {p.user : p \in Packets}
  BY <1>3 DEF Rows
<1>5. /\ new.started = IF e.of.kind = "Start" THEN Earlier(old.started, at) ELSE old.started
      /\ new.stopped = IF e.of.kind = "Stop" THEN Earlier(old.stopped, at) ELSE old.stopped
      /\ new.octets = Later(old.octets, e.of.octets) /\ new.updated = Later(old.updated, at)
      /\ new.replayed = (old.replayed \/ replay)
      /\ new = [old EXCEPT !.started = new.started, !.stopped = new.stopped,
                           !.octets = new.octets, !.updated = new.updated,
                           !.replayed = new.replayed]
  <2>1. Columns(new, old, e.of, at, replay)
    BY <1>3, MergedColumns, Zenon
  <2> HIDE DEF new, old, at
  <2> QED
    BY <2>1, Zenon DEF Columns
<1> HIDE DEF at, old, new
<1>6. /\ new.started \in 0 .. Never /\ new.stopped \in 0 .. Never
      /\ new.octets \in Nat /\ new.updated \in 0 .. now
  BY <1>1, <1>2, <1>4, <1>5 DEF Earlier, Later, Never
<1>7. new.replayed \in BOOLEAN
  BY <1>5
<1>8. new \in Rows
  BY <1>3, <1>5, <1>6, <1>7 DEF Rows
<1> QED
  BY <1>8 DEF new, at

\* A transaction of radius_accounting keeps the types of what it writes.
LEMMA TakeType ==
  ASSUME TypeOK, NEW e \in Records, NEW replay \in BOOLEAN, Take(e, replay)
  PROVE  row' \in [Sessions -> Rows \union {NoRow}] /\ merged' \subseteq Reports
<1>1. e.of.session \in Sessions
  BY RecordParts
<1>2. row[e.of.session] \in Rows \union {NoRow}
  BY <1>1 DEF TypeOK
<1>3. Merged(row[e.of.session], e.of, EventTime(e), replay) \in Rows
  BY <1>2, MergedType
<1>4. [record |-> e, at |-> EventTime(e), replay |-> replay] \in Reports
  BY EventTimeType DEF Reports
<1> QED
  BY <1>3, <1>4 DEF Take, TypeOK

\* The state begins well typed.
LEMMA TypeInit == Init => TypeOK
<1> SUFFICES ASSUME Init
             PROVE  TypeOK
  OBVIOUS
<1>1. 0 \in Files
  BY AccountingAssumption, DayIsAFile DEF AccountingAssumption, Files, Day
<1> QED
  BY <1>1, AccountingAssumption DEF Init, TypeOK, AccountingAssumption, Unsaved

\* Rows and reports are of the same type while the clock stands, and when it goes on.
LEMMA LaterTypes ==
  ASSUME now \in Nat, now' \in Nat, now <= now'
  PROVE  Rows \subseteq Rows' /\ Reports \subseteq Reports'
<1>1. 0 .. now \subseteq 0 .. now'
  OBVIOUS
<1>2. Rows \subseteq Rows'
  <2> SUFFICES ASSUME NEW r \in Rows
               PROVE  r \in Rows'
    OBVIOUS
  <2> QED
    BY <1>1 DEF Rows, Never
<1>3. Reports \subseteq Reports'
  BY <1>1 DEF Reports
<1> QED
  BY <1>2, <1>3

\* Every step keeps the types.
LEMMA TypeNext == TypeOK /\ JournalInv /\ [Next]_vars => TypeOK'
<1> SUFFICES ASSUME TypeOK, JournalInv, [Next]_vars
             PROVE  TypeOK'
  OBVIOUS
<1> USE DEF server, disk
<1>1. ASSUME NEW p \in Packets, NEW o \in Offsets, Receive(p, o)
      PROVE  TypeOK'
  <2> DEFINE e == [of |-> p, at |-> now + o]
  <2>1. e \in Records
    BY <1>1, AccountingAssumption DEF AccountingAssumption, Receive, Records, TypeOK
  <2>2. Day(now) \in Files
    BY DayIsAFile DEF TypeOK
  <2>3. journal' \in [Files -> Seq(Records)]
    <3>1. Append(journal[Day(now)], e) \in Seq(Records)
      BY <2>1, <2>2 DEF TypeOK
    <3>2. journal' = [journal EXCEPT ![Day(now)] = Append(journal[Day(now)], e)]
      BY <1>1 DEF Receive
    <3> QED
      BY <3>1, <3>2 DEF TypeOK
  <2>4. live' = e /\ owed' = owed \union {e}
    BY <1>1 DEF Receive
  <2> HIDE DEF e
  <2> QED
    BY <1>1, <2>1, <2>3, <2>4 DEF Receive, TypeOK, Rows, Reports
<1>2. CASE Report
  <2>1. CASE Take(live, FALSE)
    <3>1. live \in Records
      BY <1>2 DEF Report, TypeOK
    <3> QED
      BY <1>2, <2>1, <3>1, TakeType DEF Report, TypeOK, Rows, Reports
  <2>2. CASE UNCHANGED server
    BY <1>2, <2>2 DEF Report, TypeOK, Rows, Reports
  <2> QED
    BY <1>2, <2>1, <2>2 DEF Report
<1>3. CASE StartPass
  <2>1. 0 \in Files
    BY AccountingAssumption, DayIsAFile DEF AccountingAssumption, Files, Day
  <2> QED
    BY <1>3, <2>1 DEF StartPass, TypeOK, Rows, Reports
<1>4. CASE NextFile
  <2>1. 0 \in Files
    BY AccountingAssumption, DayIsAFile DEF AccountingAssumption, Files, Day
  <2> QED
    BY <1>4, <2>1 DEF NextFile, TypeOK, Rows, Reports
<1>5. CASE Post
  <2>1. NextRecord(rp.file) \in Records
    BY <1>5, OffsetInFile DEF Post, TypeOK
  <2> QED
    BY <1>5, <2>1, TakeType DEF Post, TypeOK, Rows, Reports
<1>6. CASE Checkpoint
  <2> DEFINE n == Offset(rp.file) + 1
  <2>1. rp.file \in Files /\ Unread(rp.file)
    <3>1. rp.file \in Files
      BY DEF TypeOK
    <3> QED
      BY <1>6, <3>1 DEF Checkpoint, JournalInv
  <2>2. n \in Nat /\ journal[rp.file][n] \in Records
    BY <2>1, OffsetInFile DEF NextRecord
  <2>3. cursor' = [cursor EXCEPT ![rp.file] =
                     [ino |-> ino[rp.file], offset |-> n, anchor |-> journal[rp.file][n]]]
    BY <1>6 DEF Checkpoint
  <2>4. cursor' \in [Files -> [ino : 0 .. 1, offset : Nat, anchor : Records \union {NoEntry}]]
    <3> HIDE DEF n
    <3> QED
      BY <2>1, <2>2, <2>3 DEF TypeOK
  <2> QED
    BY <1>6, <2>4 DEF Checkpoint, TypeOK, Rows, Reports
<1>7. CASE PostRefused
  <2>1. 0 \in Files
    BY AccountingAssumption, DayIsAFile DEF AccountingAssumption, Files, Day
  <2> QED
    BY <1>7, <2>1 DEF PostRefused, TypeOK, Rows, Reports
<1>8. CASE PassEnds
  <2>1. 0 \in Files
    BY AccountingAssumption, DayIsAFile DEF AccountingAssumption, Files, Day
  <2>2. faults' \in 0 .. MaxFaults
    BY <1>8, AccountingAssumption DEF AccountingAssumption, PassEnds, TypeOK
  <2> QED
    BY <1>8, <2>1, <2>2 DEF PassEnds, TypeOK, Rows, Reports
<1>9. CASE Tick
  <2>1. now' \in 0 .. MaxTime /\ now \in Nat /\ now' \in Nat /\ now <= now'
    BY <1>9, AccountingAssumption DEF AccountingAssumption, Tick, TypeOK
  <2> QED
    BY <1>9, <2>1, LaterTypes DEF Tick, TypeOK
<1>10. ASSUME NEW r \in Routers, Provision(r)
       PROVE  TypeOK'
  <2>1. faults' \in 0 .. MaxFaults
    BY <1>10, AccountingAssumption DEF AccountingAssumption, Provision, TypeOK
  <2>2. provisioned' \subseteq Routers
    BY <1>10 DEF Provision, TypeOK
  <2> QED
    BY <1>10, <2>1, <2>2 DEF Provision, TypeOK, Rows, Reports
<1>11. CASE UNCHANGED vars
  BY <1>11 DEF vars, TypeOK, Rows, Reports
<1> QED
  BY <1>1, <1>2, <1>3, <1>4, <1>5, <1>6, <1>7, <1>8, <1>9, <1>10, <1>11 DEF Next, Replay

-----------------------------------------------------------------------------
(* The journal and its replay.                                             *)

\* Where journal, inodes and cursor stay, a confirmation is new only if its record
\* has been taken in, and nothing that was taken in is forgotten.
LEMMA JournalFrame ==
  ASSUME JournalInv, UNCHANGED <<journal, ino, cursor, owed>>, merged \subseteq merged',
         rp' = rp \/ \A f \in Files : rp'.pc = "confirmed" /\ rp'.file = f =>
                       Unread(f) /\ Entered(NextRecord(f), merged')
  PROVE  JournalInv'
<1>1. \A e : Entered(e, merged) => Entered(e, merged')
  BY DEF Entered
<1>2. \A f : Unread(f)' = Unread(f) /\ NextRecord(f)' = NextRecord(f)
  BY DEF Unread, NextRecord, Offset
<1>3. \A f \in Files : rp'.pc = "confirmed" /\ rp'.file = f =>
        Unread(f)' /\ Entered(NextRecord(f)', merged')
  BY <1>1, <1>2 DEF JournalInv
<1>4. \A f \in Files : /\ cursor'[f].offset <= Len(journal'[f])
                       /\ \A n \in 1 .. cursor'[f].offset : Entered(journal'[f][n], merged')
  BY <1>1 DEF JournalInv
<1>5. \A e \in owed' : Written(e, Files, journal') \/ Entered(e, merged')
  BY <1>1 DEF JournalInv
<1> QED
  BY <1>3, <1>4, <1>5 DEF JournalInv

\* A record is appended to its file: the cursors and the replay see the same text.
LEMMA JournalReceive ==
  ASSUME TypeOK, JournalInv, NEW p \in Packets, NEW o \in Offsets, Receive(p, o)
  PROVE  JournalInv'
<1> DEFINE e == [of |-> p, at |-> now + o]
<1>1. Day(now) \in Files
  BY DayIsAFile DEF TypeOK
<1>2. e \in Records
  BY AccountingAssumption DEF AccountingAssumption, Receive, Records, TypeOK
<1>3. /\ journal' = [journal EXCEPT ![Day(now)] = Append(@, e)] /\ owed' = owed \union {e}
      /\ UNCHANGED <<ino, cursor, rp, merged>>
  BY DEF Receive, server
<1> HIDE DEF e
<1>4. \A f \in Files : journal[f] \in Seq(Records) /\ Len(journal[f]) \in Nat
                       /\ cursor[f].offset \in Nat
  BY DEF TypeOK
<1>5. \A f \in Files : /\ Len(journal'[f]) \in Nat /\ Len(journal[f]) <= Len(journal'[f])
                       /\ \A n \in 1 .. Len(journal[f]) : journal'[f][n] = journal[f][n]
  BY <1>1, <1>2, <1>3, <1>4 DEF TypeOK
<1>6. \E n \in 1 .. Len(journal'[Day(now)]) : journal'[Day(now)][n] = e
  <2>1. journal'[Day(now)] = Append(journal[Day(now)], e)
    BY <1>1, <1>3 DEF TypeOK
  <2>2. journal[Day(now)] \in Seq(Records)
    BY <1>1, <1>4
  <2> DEFINE n == Len(journal[Day(now)]) + 1
  <2>3. n \in 1 .. Len(journal'[Day(now)]) /\ journal'[Day(now)][n] = e
    BY <1>2, <2>1, <2>2
  <2> QED
    BY <2>3
<1>7. ASSUME NEW f \in Files
      PROVE  Offset(f)' = Offset(f)
  <2>1. cursor[f].offset <= Len(journal[f])
    BY DEF JournalInv
  <2>2. cursor[f].offset > 0 => journal'[f][cursor[f].offset] = journal[f][cursor[f].offset]
    BY <1>4, <1>5, <2>1
  <2> QED
    BY <1>3, <1>4, <1>5, <2>1, <2>2 DEF Offset
<1>8. ASSUME NEW f \in Files
      PROVE  Unread(f) => Unread(f)' /\ NextRecord(f)' = NextRecord(f)
  <2>1. Offset(f) \in Nat
    BY OffsetInFile
  <2> QED
    BY <1>4, <1>5, <1>7, <2>1 DEF Unread, NextRecord
<1>9. \A f \in Files : /\ cursor'[f].offset <= Len(journal'[f])
                       /\ \A n \in 1 .. cursor'[f].offset : Entered(journal'[f][n], merged')
  BY <1>3, <1>4, <1>5 DEF JournalInv
<1>10. \A f \in Files : rp'.pc = "confirmed" /\ rp'.file = f =>
         Unread(f)' /\ Entered(NextRecord(f)', merged')
  BY <1>3, <1>8 DEF JournalInv
<1>11. ASSUME NEW x \in owed'
       PROVE  Written(x, Files, journal') \/ Entered(x, merged')
  <2>1. CASE x = e
    BY <1>1, <1>6, <2>1 DEF Written
  <2>2. CASE x \in owed
    <3>1. Written(x, Files, journal) => Written(x, Files, journal')
      <4> SUFFICES ASSUME NEW f \in Files, NEW n \in 1 .. Len(journal[f]), journal[f][n] = x
                   PROVE  Written(x, Files, journal')
        BY DEF Written
      <4>1. n \in 1 .. Len(journal'[f]) /\ journal'[f][n] = x
        BY <1>4, <1>5
      <4> QED
        BY <4>1 DEF Written
    <3> QED
      BY <1>3, <2>2, <3>1 DEF JournalInv
  <2> QED
    BY <1>3, <2>1, <2>2
<1> QED
  BY <1>9, <1>10, <1>11 DEF JournalInv

\* The cursor moves past the record that was confirmed.
LEMMA JournalCheckpoint ==
  ASSUME TypeOK, JournalInv, Checkpoint
  PROVE  JournalInv'
<1> DEFINE n == Offset(rp.file) + 1
<1>1. rp.file \in Files /\ rp.pc = "confirmed"
  BY DEF TypeOK, Checkpoint
<1>2. Unread(rp.file) /\ Entered(NextRecord(rp.file), merged)
  BY <1>1 DEF JournalInv
<1>3. /\ Len(journal[rp.file]) \in Nat /\ n \in 1 .. Len(journal[rp.file])
      /\ Offset(rp.file) = 0 \/ Offset(rp.file) = cursor[rp.file].offset
  <2>1. journal[rp.file] \in Seq(Records)
    BY <1>1 DEF TypeOK
  <2> QED
    BY <1>1, <1>2, <2>1, OffsetInFile DEF Unread
<1>4. /\ cursor' = [cursor EXCEPT ![rp.file] =
                      [ino |-> ino[rp.file], offset |-> n, anchor |-> journal[rp.file][n]]]
      /\ UNCHANGED <<journal, merged, owed>> /\ rp' = [rp EXCEPT !.pc = "reading"]
  BY DEF Checkpoint, server, disk
<1>5. \A i \in 1 .. n : Entered(journal[rp.file][i], merged)
  <2> SUFFICES ASSUME NEW i \in 1 .. n
               PROVE  Entered(journal[rp.file][i], merged)
    OBVIOUS
  <2>1. CASE i = n
    BY <1>2, <2>1 DEF NextRecord
  <2>2. CASE i # n
    <3>1. Offset(rp.file) \in Nat /\ i <= Offset(rp.file) /\ i \in Nat /\ i >= 1
      BY <1>1, <2>2, OffsetInFile, <1>3
    <3>2. cursor[rp.file].offset = Offset(rp.file) /\ i \in 1 .. Offset(rp.file)
      BY <1>3, <3>1
    <3> QED
      BY <1>1, <3>2 DEF JournalInv
  <2> QED
    BY <2>1, <2>2
<1> HIDE DEF n
<1>6. ASSUME NEW f \in Files
      PROVE  /\ cursor'[f].offset <= Len(journal'[f])
             /\ \A i \in 1 .. cursor'[f].offset : Entered(journal'[f][i], merged')
  <2>1. CASE f = rp.file
    <3>1. cursor'[f].offset = n
      BY <1>1, <1>4, <2>1 DEF TypeOK
    <3> QED
      BY <1>3, <1>4, <1>5, <2>1, <3>1
  <2>2. CASE f # rp.file
    <3>1. cursor'[f] = cursor[f]
      BY <1>4, <2>2 DEF TypeOK
    <3> QED
      BY <1>4, <3>1 DEF JournalInv
  <2> QED
    BY <2>1, <2>2
<1>7. rp'.pc # "confirmed"
  BY <1>4 DEF TypeOK
<1>8. \A e \in owed' : Written(e, Files, journal') \/ Entered(e, merged')
  BY <1>4 DEF JournalInv
<1> QED
  BY <1>6, <1>7, <1>8 DEF JournalInv

\* What was journaled is ahead of the cursor, or has been taken in.
LEMMA JournalNext == TypeOK /\ JournalInv /\ [Next]_vars => JournalInv'
<1> SUFFICES ASSUME TypeOK, JournalInv, [Next]_vars
             PROVE  JournalInv'
  OBVIOUS
<1>1. ASSUME NEW p \in Packets, NEW o \in Offsets, Receive(p, o)
      PROVE  JournalInv'
  BY <1>1, JournalReceive
<1>2. CASE Report
  <2>1. merged \subseteq merged'
    BY <1>2 DEF Report, Take, server
  <2> QED
    BY <1>2, <2>1, JournalFrame DEF Report, disk
<1>3. CASE StartPass
  <2>1. rp'.pc # "confirmed"
    BY <1>3 DEF StartPass
  <2> QED
    BY <1>3, <2>1, JournalFrame DEF StartPass, disk, server
<1>4. CASE NextFile
  <2>1. rp'.pc # "confirmed"
    BY <1>4 DEF NextFile, TypeOK
  <2> QED
    BY <1>4, <2>1, JournalFrame DEF NextFile, disk, server
<1>5. CASE Post
  <2> DEFINE m == [record |-> NextRecord(rp.file), at |-> EventTime(NextRecord(rp.file)),
                   replay |-> TRUE]
  <2>1. merged' = merged \union {m}
    BY <1>5 DEF Post, Take
  <2>4. m.record = NextRecord(rp.file)
    OBVIOUS
  <2> HIDE DEF m
  <2>3. merged \subseteq merged' /\ Entered(NextRecord(rp.file), merged')
    BY <2>1, <2>4 DEF Entered
  <2>2. Unread(rp.file) /\ rp'.file = rp.file
    BY <1>5 DEF Post, TypeOK
  <2> QED
    BY <1>5, <2>3, <2>2, JournalFrame DEF Post, disk
<1>6. CASE Checkpoint
  BY <1>6, JournalCheckpoint
<1>7. CASE PostRefused
  <2>1. rp'.pc # "confirmed"
    BY <1>7 DEF PostRefused
  <2> QED
    BY <1>7, <2>1, JournalFrame DEF PostRefused, disk, server
<1>8. CASE PassEnds
  <2>1. rp'.pc # "confirmed"
    BY <1>8 DEF PassEnds
  <2> QED
    BY <1>8, <2>1, JournalFrame DEF PassEnds, disk, server
<1>9. CASE Tick
  BY <1>9, JournalFrame DEF Tick, disk, server
<1>10. ASSUME NEW r \in Routers, Provision(r)
       PROVE  JournalInv'
  BY <1>10, JournalFrame DEF Provision, disk, server
<1>11. CASE UNCHANGED vars
  BY <1>11, JournalFrame DEF vars
<1> QED
  BY <1>1, <1>2, <1>3, <1>4, <1>5, <1>6, <1>7, <1>8, <1>9, <1>10, <1>11 DEF Next, Replay

-----------------------------------------------------------------------------
(* Rows and reports.                                                       *)

\* A date that may be moved back by one more report is still the first.
LEMMA FirstOfMore ==
  ASSUME NEW facts \in SUBSET Reports, NEW m \in Reports, NEW kind, NEW t \in Int,
         First(t, facts, kind), MaxTime \in Nat, now \in 0 .. MaxTime
  PROVE  First(IF m.record.of.kind = kind THEN Earlier(t, m.at) ELSE t,
               facts \union {m}, kind)
<1>1. m.at \in Int /\ \A x \in facts : x.at \in Int
  BY DEF Reports
<1>2. CASE m.record.of.kind # kind
  BY <1>2 DEF First
<1>3. CASE m.record.of.kind = kind /\ t < m.at
  BY <1>1, <1>3 DEF First, Earlier
<1>4. CASE m.record.of.kind = kind /\ ~(t < m.at)
  BY <1>1, <1>4 DEF First, Earlier
<1> QED
  BY <1>2, <1>3, <1>4

\* Without reports the first date of any kind is never.
LEMMA FirstOfNone ==
  ASSUME NEW kind
  PROVE  First(Never, {}, kind)
BY DEF First

\* The row that a report leaves is the merge of one report more.
LEMMA MergesOneMore ==
  ASSUME TypeOK, NEW e \in Records, NEW replay \in BOOLEAN, NEW r \in Rows \union {NoRow},
         NEW facts \in SUBSET Reports, Merges(r, facts), r # NoRow => r.user = e.of.user
  PROVE  Merges(Merged(r, e.of, EventTime(e), replay),
                facts \union {[record |-> e, at |-> EventTime(e), replay |-> replay]})
<1> DEFINE at == EventTime(e)
           m == [record |-> e, at |-> at, replay |-> replay]
           old == Base(r, e.of, at)
           new == Merged(r, e.of, at, replay)
           more == facts \union {m}
<1>1. MaxTime \in Nat /\ now \in 0 .. MaxTime /\ at \in 0 .. now /\ at \in Int /\ now \in Nat
  BY AccountingAssumption, EventTimeType DEF AccountingAssumption, TypeOK
<1>2. e.of \in Packets /\ e.of.octets \in Nat
  BY RecordParts
<1>3. m \in Reports /\ m.record = e /\ m.at = at /\ m.replay = replay
  BY <1>1 DEF Reports
<1>4. old \in Rows /\ new \in Rows
  BY <1>1, <1>2, BaseType, MergedType
<1>5. /\ new.user = old.user
      /\ new.started = IF e.of.kind = "Start" THEN Earlier(old.started, at) ELSE old.started
      /\ new.stopped = IF e.of.kind = "Stop" THEN Earlier(old.stopped, at) ELSE old.stopped
      /\ new.octets = Later(old.octets, e.of.octets) /\ new.updated = Later(old.updated, at)
      /\ new.replayed = (old.replayed \/ replay)
  <2>1. Columns(new, old, e.of, at, replay)
    BY <1>4, MergedColumns, Zenon
  <2> HIDE DEF new, old, at, m
  <2> QED
    BY <2>1, Zenon DEF Columns
<1>6. new # NoRow
  BY <1>4 DEF Rows, NoRow
<1>7. old.started \in Int /\ old.stopped \in Int /\ old.octets \in Nat /\ old.updated \in Int
  BY <1>1, <1>4 DEF Rows, Never
\* What the row it starts from is, by whether there was one.
<1>8. /\ First(old.started, facts, "Start") /\ First(old.stopped, facts, "Stop")
      /\ \A x \in facts : /\ x.record.of.octets <= old.octets /\ x.record.of.octets \in Nat
                          /\ x.at <= old.updated /\ x.at \in Int
                          /\ x.record.of.user = old.user
      /\ old.user = e.of.user
      /\ (old.octets = 0 /\ facts = {}) \/ \E x \in facts : x.record.of.octets = old.octets
      /\ (old.updated = at /\ facts = {}) \/ \E x \in facts : x.at = old.updated
      /\ old.replayed = (\E x \in facts : x.replay)
  <2>1. CASE facts = {}
    <3>1. r = NoRow
      BY <2>1 DEF Merges
    <3>2. old = [exists |-> TRUE, user |-> e.of.user, started |-> Never,
                 stopped |-> Never, octets |-> 0, updated |-> at, replayed |-> FALSE]
      BY <3>1 DEF Base
    <3> HIDE DEF old, at
    <3>3. /\ old.user = e.of.user /\ old.started = Never /\ old.stopped = Never
          /\ old.octets = 0 /\ old.updated = at /\ old.replayed = FALSE
      BY <3>2
    <3> QED
      BY <2>1, <3>3, FirstOfNone
  <2>2. CASE facts # {}
    <3>1. r # NoRow /\ old = r
      BY <2>2 DEF Merges, Base
    <3> HIDE DEF old, at
    <3>2. \A x \in facts : x.record.of.octets \in Nat /\ x.at \in Int
      BY <1>1, RecordParts DEF Reports
    <3> QED
      BY <2>2, <3>1, <3>2 DEF Merges
  <2> QED
    BY <2>1, <2>2
<1> HIDE DEF at, m, new, old
<1>9. m \in more /\ more # {}
  OBVIOUS
<1>10. First(new.started, more, "Start") /\ First(new.stopped, more, "Stop")
  BY <1>1, <1>3, <1>5, <1>7, <1>8, FirstOfMore
<1>11. /\ \E x \in more : x.record.of.octets = new.octets
       /\ \A x \in more : x.record.of.octets <= new.octets
  <2>1. CASE old.octets < e.of.octets \/ facts = {}
    <3>1. new.octets = e.of.octets
      BY <1>2, <1>5, <1>7, <1>8, <2>1 DEF Later
    <3> QED
      BY <1>2, <1>3, <1>7, <1>8, <1>9, <2>1, <3>1
  <2>2. CASE ~(old.octets < e.of.octets) /\ facts # {}
    <3>1. new.octets = old.octets
      BY <1>1, <1>2, <1>5, <1>7, <2>2 DEF Later
    <3> QED
      BY <1>2, <1>3, <1>7, <1>8, <2>2, <3>1
  <2> QED
    BY <2>1, <2>2
<1>12. /\ \E x \in more : x.at = new.updated
       /\ \A x \in more : x.at <= new.updated
  <2>1. CASE old.updated < at \/ facts = {}
    <3>1. new.updated = at
      BY <1>1, <1>5, <1>7, <1>8, <2>1 DEF Later
    <3> QED
      BY <1>1, <1>3, <1>7, <1>8, <1>9, <2>1, <3>1
  <2>2. CASE ~(old.updated < at) /\ facts # {}
    <3>1. new.updated = old.updated
      BY <1>1, <1>2, <1>5, <1>7, <2>2 DEF Later
    <3> QED
      BY <1>1, <1>3, <1>7, <1>8, <2>2, <3>1
  <2> QED
    BY <2>1, <2>2
<1>13. new.replayed = (\E x \in more : x.replay)
  <2>1. (\E x \in more : x.replay) = ((\E x \in facts : x.replay) \/ m.replay)
    BY Zenon
  <2>2. old.replayed = (\E x \in facts : x.replay)
    BY <1>8
  <2>3. m.replay = replay /\ new.replayed = (old.replayed \/ replay)
    BY <1>3, <1>5
  <2> QED
    BY <2>1, <2>2, <2>3, Zenon
<1>14. \A x \in more : x.record.of.user = new.user
  BY <1>3, <1>5, <1>8
<1>15. Merges(new, more)
  BY <1>6, <1>9, <1>10, <1>11, <1>12, <1>13, <1>14, Zenon DEF Merges
<1> QED
  BY <1>15 DEF at, m, new

\* A transaction of radius_accounting leaves the row of its session the merge of its
\* reports, and the others as they were.
LEMMA TakeMerges ==
  ASSUME TypeOK, MergedInv(row, merged), NEW e \in Records, NEW replay \in BOOLEAN,
         Take(e, replay)
  PROVE  MergedInv(row', merged')
<1> DEFINE m == [record |-> e, at |-> EventTime(e), replay |-> replay]
<1>1. e.of.session \in Sessions /\ m.record.of.session = e.of.session
  BY RecordParts
<1>2. /\ row' = [row EXCEPT ![e.of.session] =
                   Merged(row[e.of.session], e.of, EventTime(e), replay)]
      /\ merged' = merged \union {m}
      /\ row[e.of.session] # NoRow => row[e.of.session].user = e.of.user
  BY DEF Take, Refused
<1>3. ASSUME NEW s \in Sessions
      PROVE  Merges(row'[s], Of(s, merged'))
  <2>1. Merges(row[s], Of(s, merged)) /\ Of(s, merged) \subseteq Reports
    BY DEF MergedInv, TypeOK, Of
  <2>2. CASE s = e.of.session
    <3>1. Of(s, merged') = Of(s, merged) \union {m}
      <4> HIDE DEF m
      <4> QED
        BY <1>1, <1>2, <2>2 DEF Of
    <3>2. row[s] \in Rows \union {NoRow} /\ row'[s] = Merged(row[s], e.of, EventTime(e), replay)
      BY <1>2, <2>2 DEF TypeOK
    <3>3. Merges(Merged(row[s], e.of, EventTime(e), replay), Of(s, merged) \union {m})
      BY <1>2, <2>1, <2>2, <3>2, MergesOneMore
    <3> QED
      BY <3>1, <3>2, <3>3
  <2>3. CASE s # e.of.session
    <3>1. Of(s, merged') = Of(s, merged)
      <4> HIDE DEF m
      <4> QED
        BY <1>1, <1>2, <2>3 DEF Of
    <3>2. row'[s] = row[s]
      BY <1>2, <2>3 DEF TypeOK
    <3> QED
      BY <2>1, <3>1, <3>2
  <2> QED
    BY <2>2, <2>3
<1> QED
  BY <1>3 DEF MergedInv

\* The report that was taken in is dated at its record at most, and the reports of
\* its session have a latest record still.
LEMMA TakeDates ==
  ASSUME TypeOK, DatedInv(merged), NEW e \in Records, NEW replay \in BOOLEAN, Take(e, replay)
  PROVE  DatedInv(merged')
<1> DEFINE m == [record |-> e, at |-> EventTime(e), replay |-> replay]
<1>1. /\ m.record = e /\ m.at <= m.record.at /\ m.record.at \in Nat
  BY EventTimeType, RecordParts
<1>2. merged' = merged \union {m}
  BY DEF Take
<1>3. \A x \in merged : x.record.at \in Nat
  BY RecordParts DEF TypeOK, Reports
<1> HIDE DEF m
<1>4. ASSUME NEW s \in Sessions, Of(s, merged') # {}
      PROVE  \E y \in Of(s, merged') : \A x \in Of(s, merged') : x.record.at <= y.record.at
  <2>1. CASE Of(s, merged) = {}
    <3>1. Of(s, merged') = {m}
      BY <1>2, <1>4, <2>1 DEF Of
    <3> QED
      BY <1>1, <3>1
  <2>2. CASE Of(s, merged) # {}
    <3>1. PICK y \in Of(s, merged) : \A x \in Of(s, merged) : x.record.at <= y.record.at
      BY <2>2 DEF DatedInv
    <3>2. /\ Of(s, merged) \subseteq Of(s, merged')
          /\ \A x \in Of(s, merged') : x = m \/ x \in Of(s, merged)
      BY <1>2 DEF Of
    <3>3. \A x \in Of(s, merged) : x.record.at \in Nat
      BY <1>3 DEF Of
    <3>4. CASE m \in Of(s, merged') /\ y.record.at <= m.record.at
      BY <1>1, <3>1, <3>2, <3>3, <3>4
    <3>5. CASE ~(m \in Of(s, merged') /\ y.record.at <= m.record.at)
      BY <1>1, <3>1, <3>2, <3>3, <3>5
    <3> QED
      BY <3>4, <3>5
  <2> QED
    BY <2>1, <2>2
<1> QED
  BY <1>1, <1>2, <1>4 DEF DatedInv

\* Only the transaction of radius_accounting writes rows.
LEMMA ServerStep ==
  ASSUME TypeOK, [Next]_vars
  PROVE  UNCHANGED server \/ \E e \in Records, replay \in BOOLEAN : Take(e, replay)
<1>1. CASE Report
  BY <1>1, Zenon DEF Report, TypeOK
<1>2. CASE Post
  BY <1>2, OffsetInFile DEF Post, TypeOK
<1>3. ASSUME NEW p \in Packets, NEW o \in Offsets, Receive(p, o)
      PROVE  UNCHANGED server
  BY <1>3 DEF Receive
<1>4. CASE StartPass \/ NextFile \/ Checkpoint \/ PostRefused \/ PassEnds \/ Tick
  BY <1>4 DEF StartPass, NextFile, Checkpoint, PostRefused, PassEnds, Tick
<1>5. ASSUME NEW r \in Routers, Provision(r)
      PROVE  UNCHANGED server
  BY <1>5 DEF Provision
<1>6. CASE UNCHANGED vars
  BY <1>6 DEF vars, server
<1> QED
  BY <1>1, <1>2, <1>3, <1>4, <1>5, <1>6 DEF Next, Replay

\* The accounting begins without records and reports.
LEMMA AccountingInit == Init => AccountingInv
<1> SUFFICES ASSUME Init
             PROVE  AccountingInv
  OBVIOUS
<1>1. JournalInv
  BY DEF Init, JournalInv, Unsaved
<1>2. MergedInv(row, merged)
  BY DEF Init, MergedInv, Merges, Of
<1>3. DatedInv(merged)
  BY DEF Init, DatedInv, Of
<1> QED
  BY <1>1, <1>2, <1>3, TypeInit DEF AccountingInv

\* Every step of the accounting keeps its invariant.
LEMMA AccountingNext == AccountingInv /\ [Next]_vars => AccountingInv'
<1> SUFFICES ASSUME AccountingInv, [Next]_vars
             PROVE  AccountingInv'
  OBVIOUS
<1>1. TypeOK' /\ JournalInv'
  BY TypeNext, JournalNext DEF AccountingInv
<1>2. MergedInv(row', merged') /\ DatedInv(merged')
  <2>1. CASE UNCHANGED server
    BY <2>1 DEF server, AccountingInv
  <2>2. ASSUME NEW e \in Records, NEW replay \in BOOLEAN, Take(e, replay)
        PROVE  MergedInv(row', merged') /\ DatedInv(merged')
    BY <2>2, TakeMerges, TakeDates DEF AccountingInv
  <2> QED
    BY <2>1, <2>2, ServerStep DEF AccountingInv
<1> QED
  BY <1>1, <1>2 DEF AccountingInv

-----------------------------------------------------------------------------
(* What the invariants say with Min and Max.                               *)

\* The greatest element of a set of integers is its maximum.
LEMMA MaxIs ==
  ASSUME NEW S \in SUBSET Int, NEW x \in S, \A y \in S : y <= x
  PROVE  Max(S) = x
<1>1. \E z \in S : \A y \in S : z >= y
  OBVIOUS
<1>2. Max(S) \in S /\ \A y \in S : Max(S) >= y
  BY <1>1, Zenon DEF Max
<1> DEFINE m == Max(S)
<1> HIDE DEF m
<1>3. m \in S /\ \A y \in S : m >= y
  BY <1>2 DEF m
<1>4. m = x
  BY <1>3
<1> QED
  BY <1>4 DEF m

\* The least element of a set of integers is its minimum.
LEMMA MinIs ==
  ASSUME NEW S \in SUBSET Int, NEW x \in S, \A y \in S : x <= y
  PROVE  Min(S) = x
<1>1. \E z \in S : \A y \in S : z <= y
  OBVIOUS
<1>2. Min(S) \in S /\ \A y \in S : Min(S) <= y
  BY <1>1, Zenon DEF Min
<1> DEFINE m == Min(S)
<1> HIDE DEF m
<1>3. m \in S /\ \A y \in S : m <= y
  BY <1>2 DEF m
<1>4. m = x
  BY <1>3
<1> QED
  BY <1>4 DEF m

\* The first date of a kind is the minimum of its dates and never.
LEMMA FirstIsMin ==
  ASSUME NEW facts \in SUBSET Reports, NEW kind, NEW t, First(t, facts, kind),
         now \in 0 .. MaxTime, MaxTime \in Nat, t \in 0 .. Never
  PROVE  t = Min({m.at : m \in {x \in facts : x.record.of.kind = kind}} \union {Never})
<1> DEFINE S == {m.at : m \in {x \in facts : x.record.of.kind = kind}} \union {Never}
<1>1. S \in SUBSET Int
  BY DEF Reports, Never
<1>2. t \in S /\ \A y \in S : t <= y
  BY DEF First, Never
<1> HIDE DEF S
<1>3. Min(S) = t
  BY <1>1, <1>2, MinIs
<1> QED
  BY <1>3 DEF S

\* The invariants characterise a row as RowIsTheMerge does.
LEMMA InvariantsGiveTheMerge == AccountingInv => RowIsTheMerge
<1> SUFFICES ASSUME AccountingInv
             PROVE  RowIsTheMerge
  OBVIOUS
<1>1. now \in 0 .. MaxTime /\ MaxTime \in Nat /\ merged \subseteq Reports
  BY AccountingAssumption DEF AccountingAssumption, AccountingInv, TypeOK
<1>2. ASSUME NEW s \in Sessions, Of(s, merged) # {}
      PROVE  LET facts == Of(s, merged)
                 When(kind) == {m.at : m \in {x \in facts : x.record.of.kind = kind}}
             IN /\ row[s].started = Min(When("Start") \union {Never})
                /\ row[s].stopped = Min(When("Stop") \union {Never})
                /\ row[s].octets = Max({m.record.of.octets : m \in facts})
                /\ row[s].updated = Max({m.at : m \in facts})
                /\ row[s].updated <= Max({m.record.at : m \in facts})
                /\ row[s].replayed = (\E m \in facts : m.replay)
                /\ \A m \in facts : m.record.of.user = row[s].user
  <2> DEFINE facts == Of(s, merged)
             r == row[s]
  <2>1. facts \in SUBSET Reports /\ facts # {}
    BY <1>1, <1>2 DEF Of
  <2>2. Merges(r, facts)
    BY DEF AccountingInv, MergedInv
  <2>3. r \in Rows
    BY <2>1, <2>2 DEF Merges, AccountingInv, TypeOK
  <2>4. r.started \in 0 .. Never /\ r.stopped \in 0 .. Never
    BY <2>3 DEF Rows
  <2>5. \A m \in facts : m.record.of.octets \in Nat /\ m.at \in Nat /\ m.record.at \in Nat
                         /\ m.at <= m.record.at
    <3>1. \A m \in facts : m.record \in Records /\ m.at \in Nat
      BY <1>1, <2>1 DEF Reports
    <3>2. \A m \in facts : m.at <= m.record.at
      BY DEF AccountingInv, DatedInv, Of
    <3> QED
      BY <3>1, <3>2, RecordParts
  <2>6. PICK y \in facts : \A x \in facts : x.record.at <= y.record.at
    BY <2>1 DEF AccountingInv, DatedInv
  <2> HIDE DEF facts, r
  <2>7. r.started = Min({m.at : m \in {x \in facts : x.record.of.kind = "Start"}} \union {Never})
    BY <1>1, <2>1, <2>2, <2>4, FirstIsMin DEF Merges
  <2>8. r.stopped = Min({m.at : m \in {x \in facts : x.record.of.kind = "Stop"}} \union {Never})
    BY <1>1, <2>1, <2>2, <2>4, FirstIsMin DEF Merges
  <2>9. r.octets = Max({m.record.of.octets : m \in facts})
    <3> DEFINE S == {m.record.of.octets : m \in facts}
    <3>1. /\ \E m \in facts : m.record.of.octets = r.octets
          /\ \A m \in facts : m.record.of.octets <= r.octets
      BY <2>1, <2>2, Zenon DEF Merges
    <3>3. S \in SUBSET Int /\ r.octets \in S /\ \A x \in S : x <= r.octets
      BY <2>5, <3>1
    <3> HIDE DEF S
    <3>2. Max(S) = r.octets
      BY <3>3, MaxIs
    <3> QED
      BY <3>2 DEF S
  <2>10. r.updated = Max({m.at : m \in facts})
    <3> DEFINE S == {m.at : m \in facts}
    <3>1. /\ \E m \in facts : m.at = r.updated
          /\ \A m \in facts : m.at <= r.updated
      BY <2>1, <2>2, Zenon DEF Merges
    <3>3. S \in SUBSET Int /\ r.updated \in S /\ \A x \in S : x <= r.updated
      BY <2>5, <3>1
    <3> HIDE DEF S
    <3>2. Max(S) = r.updated
      BY <3>3, MaxIs
    <3> QED
      BY <3>2 DEF S
  <2>11. r.updated <= Max({m.record.at : m \in facts})
    <3> DEFINE S == {m.record.at : m \in facts}
    <3>1. S \in SUBSET Int /\ y.record.at \in S /\ \A x \in S : x <= y.record.at
      BY <2>5, <2>6
    <3>2. PICK m \in facts : m.at = r.updated
      BY <2>1, <2>2 DEF Merges
    <3>3. r.updated <= y.record.at
      BY <2>5, <2>6, <3>2
    <3> HIDE DEF S
    <3>4. Max(S) = y.record.at
      BY <3>1, MaxIs
    <3> QED
      BY <3>3, <3>4 DEF S
  <2>12. r.replayed = (\E m \in facts : m.replay)
    BY <2>1, <2>2, Zenon DEF Merges
  <2>13. \A m \in facts : m.record.of.user = r.user
    BY <2>1, <2>2 DEF Merges
  <2> QED
    BY <2>7, <2>8, <2>9, <2>10, <2>11, <2>12, <2>13 DEF facts, r
<1>3. \A s \in Sessions : Of(s, merged) = {} => row[s] = NoRow
  BY DEF AccountingInv, MergedInv, Merges
<1> QED
  BY <1>2, <1>3, Zenon DEF RowIsTheMerge, Of

\* What was journaled is ahead of the offset, or has been taken in.
LEMMA InvariantsGiveTheRecords == AccountingInv => NothingIsLost
<1> SUFFICES ASSUME AccountingInv, NEW e \in owed, ~Entered(e, merged)
             PROVE  Pending(e)
  BY DEF NothingIsLost, Entered
<1>1. PICK f \in Files : \E n \in 1 .. Len(journal[f]) : journal[f][n] = e
  BY DEF AccountingInv, JournalInv, Written
<1>2. PICK n \in 1 .. Len(journal[f]) : journal[f][n] = e
  BY <1>1
<1>3. ~(n \in 1 .. cursor[f].offset)
  BY <1>2 DEF AccountingInv, JournalInv
<1>4. Offset(f) \in Nat /\ (Offset(f) = 0 \/ Offset(f) = cursor[f].offset)
  BY OffsetInFile DEF AccountingInv
<1>5. n \in Offset(f) + 1 .. Len(journal[f])
  <2>1. Len(journal[f]) \in Nat
    BY DEF AccountingInv, TypeOK
  <2> QED
    BY <1>3, <1>4, <2>1
<1> QED
  BY <1>2, <1>5 DEF Pending

\* Every state of the accounting is well typed: a row's dates and counters, the
\* journal, the cursor, and the reports the application has taken in.
THEOREM AccountingTypeCorrect == Spec => []TypeOK
<1>1. AccountingInv => TypeOK
  BY DEF AccountingInv
<1> QED
  BY <1>1, AccountingInit, AccountingNext, PTL DEF Spec

\* Whatever the order of live reports, retransmissions and replays, and whatever is
\* repeated, the row of a session has the first start and stop, the greatest counter,
\* and the date of the latest event.
THEOREM RowsAreMerges == Spec => []RowIsTheMerge
<1> QED
  BY AccountingInit, AccountingNext, InvariantsGiveTheMerge, PTL DEF Spec

\* No record is skipped, whatever live reports fail, passes end or routers go: what
\* the journal got has been taken in or lies ahead of its cursor.
THEOREM NoRecordIsLost == Spec => []NothingIsLost
<1> QED
  BY AccountingInit, AccountingNext, InvariantsGiveTheRecords, PTL DEF Spec

-----------------------------------------------------------------------------
(* The backups beside the accounting.                                      *)

\* A set of naturals has a least element.
LEMMA LeastNatural ==
  ASSUME NEW S \in SUBSET Nat, S # {}
  PROVE  \E x \in S : \A y \in S : x <= y
<1> DEFINE R == OpToRel(<, Nat)
<1>1. \E x \in S : \A y \in S : <<y, x>> \notin R
  BY NatLessThanWellFounded, WFMin, Zenon
<1>2. \A x, y \in S : <<y, x>> \notin R => ~(y < x)
  BY Zenon DEF OpToRel
<1>3. \E x \in S : \A y \in S : ~(y < x)
  BY <1>1, <1>2, Zenon
<1> QED
  BY <1>3

\* The files have a first one among any of them, and Capture takes that.
LEMMA FirstFile ==
  ASSUME NEW S \in SUBSET Files, S # {}
  PROVE  Min(S) \in S
<1>1. S \in SUBSET Nat
  BY DEF Files
<1>2. PICK x \in S : \A y \in S : x <= y
  BY <1>1, LeastNatural
<1>3. Min(S) = x
  BY <1>1, <1>2, MinIs
<1> QED
  BY <1>2, <1>3

\* The step a backup is at, from what it knows.
LEMMA BackupStates ==
  ASSUME BackupTypeOK
  PROVE  /\ bk.pc = "idle" => bk = Resting
         /\ bk.pc = "listed" => bk \in ListedStates
         /\ bk.pc = "exported" => bk \in ExportedStates
         /\ bk.pc = "dumped" => bk \in DumpedStates
         /\ bk.pc \in {"linked", "pruning"} => bk \in EndingStates
         /\ archive.exists => archive \in Archives
<1>1. /\ bk = Resting => bk.pc = "idle"
      /\ bk \in ListedStates => bk.pc = "listed"
      /\ bk \in ExportedStates => bk.pc = "exported"
      /\ bk \in DumpedStates => bk.pc = "dumped"
      /\ bk \in EndingStates => bk.pc \in {"linked", "pruning"}
  BY DEF Resting, ListedStates, ExportedStates, DumpedStates, EndingStates
<1>2. archive = NoArchive => ~archive.exists
  BY DEF NoArchive
<1>3. /\ \/ bk = Resting \/ bk \in ListedStates \/ bk \in ExportedStates
         \/ bk \in DumpedStates \/ bk \in EndingStates
      /\ archive = NoArchive \/ archive \in Archives
  BY DEF BackupTypeOK
<1> QED
  BY <1>1, <1>2, <1>3

\* As the clock goes on, everything keeps its type.
LEMMA LaterStates ==
  ASSUME now \in Nat, now' \in Nat, now <= now', BackupTypeOK,
         UNCHANGED backups
  PROVE  BackupTypeOK'
<1>1. 0 .. now \subseteq 0 .. now' /\ Rows \subseteq Rows' /\ Reports \subseteq Reports'
  BY LaterTypes
<1>2. Databases \subseteq Databases'
  <2>1. [Sessions -> Rows \union {NoRow}] \subseteq [Sessions -> Rows' \union {NoRow}]
    BY <1>1
  <2>2. SUBSET Reports \subseteq SUBSET Reports'
    BY <1>1
  <2> QED
    BY <2>1, <2>2 DEF Databases
<1>3. ListedStates \subseteq ListedStates' /\ EndingStates \subseteq EndingStates'
  BY <1>1 DEF ListedStates, EndingStates
<1>4. ExportedStates \subseteq ExportedStates'
  BY <1>1, <1>2 DEF ExportedStates
<1>5. DumpedStates \subseteq DumpedStates'
  BY <1>1, <1>2 DEF DumpedStates, Entries
<1>6. Archives \subseteq Archives'
  BY <1>2 DEF Archives, Entries, ArchivedCursor, Unsaved
<1>7. shelf \subseteq [at : 0 .. now', reported : BOOLEAN] /\ made \subseteq 0 .. now'
  BY <1>1 DEF BackupTypeOK
<1> QED
  BY <1>3, <1>4, <1>5, <1>6, <1>7 DEF BackupTypeOK, backups, Resting, NoArchive

\* A step of the accounting leaves what a file holds, and the clock does not go back.
LEMMA AccountingGrows ==
  ASSUME TypeOK, TypeOK', [Next]_vars
  PROVE  /\ now \in Nat /\ now' \in Nat /\ now <= now'
         /\ \A f \in Files : \A n \in 1 .. Len(journal[f]) :
              n \in 1 .. Len(journal'[f]) /\ journal'[f][n] = journal[f][n]
<1>1. now \in Nat /\ now' \in Nat
  BY AccountingAssumption DEF AccountingAssumption, TypeOK
<1>2. ASSUME NEW p \in Packets, NEW o \in Offsets, Receive(p, o)
      PROVE  /\ now' = now
             /\ \A f \in Files : \A n \in 1 .. Len(journal[f]) :
                  n \in 1 .. Len(journal'[f]) /\ journal'[f][n] = journal[f][n]
  <2> DEFINE e == [of |-> p, at |-> now + o]
  <2>1. now' = now /\ journal' = [journal EXCEPT ![Day(now)] = Append(@, e)]
    BY <1>2 DEF Receive
  <2>2. e \in Records
    BY <1>2, AccountingAssumption DEF AccountingAssumption, Receive, Records, TypeOK
  <2>3. ASSUME NEW f \in Files
        PROVE  \A n \in 1 .. Len(journal[f]) :
                 n \in 1 .. Len(journal'[f]) /\ journal'[f][n] = journal[f][n]
    <3>1. journal[f] \in Seq(Records)
      BY DEF TypeOK
    <3>2. journal'[f] = journal[f] \/ journal'[f] = Append(journal[f], e)
      BY <2>1 DEF TypeOK
    <3> HIDE DEF e
    <3> QED
      BY <2>2, <3>1, <3>2
  <2> QED
    BY <2>1, <2>3
<1>3. CASE Report \/ Replay
  <2>1. now' = now /\ journal' = journal
    BY <1>3 DEF Report, Replay, StartPass, NextFile, Post, Checkpoint, PostRefused, PassEnds, disk
  <2> QED
    BY <1>1, <2>1
<1>4. CASE Tick
  BY <1>1, <1>4 DEF Tick, disk
<1>5. ASSUME NEW r \in Routers, Provision(r)
      PROVE  now' = now /\ journal' = journal
  BY <1>5 DEF Provision, disk
<1>6. CASE UNCHANGED vars
  BY <1>1, <1>6 DEF vars
<1> QED
  BY <1>1, <1>2, <1>3, <1>4, <1>5, <1>6 DEF Next

\* While the backups rest, a step of the accounting keeps what they know.
LEMMA BesideAccounting ==
  ASSUME BackupInv, [Next]_vars, UNCHANGED backups
  PROVE  BackupInv'
<1>1. AccountingInv' /\ TypeOK /\ TypeOK'
  BY AccountingNext DEF BackupInv, AccountingInv
<1>2. /\ now \in Nat /\ now' \in Nat /\ now <= now'
      /\ \A f \in Files : \A n \in 1 .. Len(journal[f]) :
           n \in 1 .. Len(journal'[f]) /\ journal'[f][n] = journal[f][n]
  BY <1>1, AccountingGrows
<1>3. BackupTypeOK'
  BY <1>2, LaterStates DEF BackupInv
<1>4. \A f \in Files : journal[f] # <<>> => journal'[f] # <<>>
  <2> SUFFICES ASSUME NEW f \in Files, journal[f] # <<>>
               PROVE  journal'[f] # <<>>
    OBVIOUS
  <2>1. journal[f] \in Seq(Records) /\ journal'[f] \in Seq(Records)
    BY <1>1 DEF TypeOK, Records
  <2>2. 1 \in 1 .. Len(journal[f])
    BY <2>1
  <2>3. 1 \in 1 .. Len(journal'[f])
    BY <1>2, <2>2
  <2> QED
    BY <2>1, <2>3
<1>5. ASSUME NEW fs \in SUBSET Files, NEW e, Written(e, fs, journal)
      PROVE  Written(e, fs, journal')
  BY <1>2, <1>5 DEF Written
<1>6. ArchiveInv'
  <2>1. bk' = bk /\ archive' = archive
    BY DEF backups
  <2>2. bk.pc \in {"listed", "exported", "dumped"} => bk.listed \in SUBSET Files
    BY BackupStates DEF BackupInv, ListedStates, ExportedStates, DumpedStates
  <2>3. bk'.pc \in {"listed", "exported", "dumped"} => \A f \in bk'.listed : journal'[f] # <<>>
    BY <1>4, <2>1, <2>2 DEF BackupInv, ArchiveInv
  <2>4. bk'.pc = "exported" =>
          /\ Sound(bk'.snapshot) /\ bk'.counts = bk'.snapshot.paid
          /\ \A e \in bk'.owed : \/ Entered(e, bk'.snapshot.merged)
                                 \/ Written(e, bk'.listed, journal')
    BY <1>5, <2>1, <2>2 DEF BackupInv, ArchiveInv
  <2>5. bk'.pc = "dumped" =>
          /\ Sound(bk'.dump) /\ bk'.counts = bk'.dump.paid
          /\ \A f \in bk'.listed : bk'.files[f] = <<>>
          /\ bk'.inventory = Listing(bk'.files)
          /\ \A e \in bk'.owed : \/ Entered(e, bk'.dump.merged)
                                 \/ Written(e, bk'.listed, journal')
                                 \/ Written(e, Files, bk'.files)
    BY <1>5, <2>1, <2>2 DEF BackupInv, ArchiveInv
  <2>6. archive' # NoArchive =>
          /\ Sound(archive'.dump) /\ archive'.counts = archive'.dump.paid
          /\ archive'.inventory = Listing(archive'.files)
          /\ \A e \in archive'.owed : \/ Entered(e, archive'.dump.merged)
                                      \/ Written(e, Files, archive'.files)
    BY <2>1 DEF BackupInv, ArchiveInv
  <2> QED
    BY <2>3, <2>4, <2>5, <2>6 DEF ArchiveInv
<1>7. ShelfInv'
  <2>1. UNCHANGED <<bk, shelf, made>>
    BY DEF backups
  <2>2. Day(now) \in Nat /\ Day(now') \in Nat /\ Day(now) <= Day(now')
    BY <1>2, DaysGoForward
  <2>3. \A t \in made : Day(t) \in Nat
    <3>1. \A t \in made : t \in 0 .. MaxTime
      BY <1>1, AccountingAssumption DEF AccountingAssumption, BackupInv, BackupTypeOK, TypeOK
    <3> QED
      BY <3>1, DaysGoForward
  <2>4. \A t \in made : Day(t) > Day(now') - DailyDays =>
          \E a \in shelf : a.reported /\ Day(a.at) = Day(t)
    BY <2>2, <2>3, BackupAssumption DEF BackupAssumption, BackupInv, ShelfInv
  <2>5. /\ Day(now)' = Day(now') /\ \A t : Day(t)' = Day(t)
    BY DEF Day
  <2> QED
    BY <2>1, <2>4, <2>5 DEF BackupInv, ShelfInv
<1> QED
  BY <1>1, <1>3, <1>6, <1>7 DEF BackupInv

-----------------------------------------------------------------------------
(* The steps of make_backup and of the restore.                            *)

\* A step of a backup leaves the accounting alone.
LEMMA AccountingRests ==
  ASSUME AccountingInv, UNCHANGED vars
  PROVE  AccountingInv'
BY AccountingNext

\* Every step of a backup keeps the types.
LEMMA BackupTypes ==
  ASSUME BackupInv, UNCHANGED vars,
         \/ RegisterPayment \/ ListSources \/ ExportSnapshot \/ DumpDatabase \/ Capture
         \/ PublishArchive \/ PublishReport \/ Prune
  PROVE  BackupTypeOK'
<1>1. BackupTypeOK /\ TypeOK /\ now' = now /\ now \in Nat
  BY AccountingAssumption DEF AccountingAssumption, BackupInv, AccountingInv, TypeOK, vars
<1> USE DEF BackupTypeOK
<1>2. /\ ListedStates' = ListedStates /\ ExportedStates' = ExportedStates
      /\ DumpedStates' = DumpedStates /\ EndingStates' = EndingStates /\ Archives' = Archives
  BY <1>1 DEF ListedStates, ExportedStates, DumpedStates, EndingStates, Archives, Databases,
              Rows, Reports, Entries, ArchivedCursor
<1>3. CASE RegisterPayment
  BY <1>1, <1>2, <1>3 DEF RegisterPayment, Resting, NoArchive
<1>4. CASE ListSources
  <2>1. bk' \in ListedStates
    BY <1>1, <1>4 DEF ListSources, ListedStates, Existing
  <2> QED
    BY <1>1, <1>2, <1>4, <2>1 DEF ListSources, NoArchive
<1>5. CASE ExportSnapshot
  <2>1. bk \in ListedStates
    BY <1>1, <1>5, BackupStates DEF ExportSnapshot
  <2>2. [row |-> row, merged |-> merged, paid |-> paid] \in Databases
    BY <1>1 DEF TypeOK, Databases
  <2>3. {m.record : m \in merged} \union Journaled(bk.listed) \subseteq Records
    <3>1. owed \subseteq Records /\ merged \subseteq Reports
      BY <1>1 DEF TypeOK
    <3> QED
      BY <3>1 DEF Reports, Journaled
  <2>4. bk' = [pc |-> "exported", at |-> bk.at, listed |-> bk.listed, counts |-> paid,
               snapshot |-> [row |-> row, merged |-> merged, paid |-> paid],
               owed |-> {m.record : m \in merged} \union Journaled(bk.listed)]
    BY <1>5 DEF ExportSnapshot
  <2>5. bk' \in ExportedStates
    BY <1>1, <2>1, <2>2, <2>3, <2>4 DEF ExportedStates, ListedStates
  <2> QED
    BY <1>1, <1>2, <1>5, <2>5 DEF ExportSnapshot, NoArchive
<1>6. CASE DumpDatabase
  <2>1. bk \in ExportedStates
    BY <1>1, <1>6, BackupStates DEF DumpDatabase
  <2>2. [f \in Files |-> <<>>] \in [Files -> Seq(Records)]
    OBVIOUS
  <2>3. bk' = [pc |-> "dumped", at |-> bk.at, listed |-> bk.listed, counts |-> bk.counts,
               dump |-> bk.snapshot, owed |-> bk.owed,
               files |-> [f \in Files |-> <<>>], inventory |-> {}]
    BY <1>6 DEF DumpDatabase, Dumped
  <2>4. bk' \in DumpedStates
    BY <2>1, <2>2, <2>3 DEF ExportedStates, DumpedStates
  <2> QED
    BY <1>1, <1>2, <1>6, <2>4 DEF DumpDatabase, NoArchive
<1>7. CASE Capture
  <2> DEFINE f == Min(bk.listed)
  <2>1. bk \in DumpedStates
    BY <1>1, <1>7, BackupStates DEF Capture
  <2>2. f \in bk.listed /\ f \in Files
    BY <1>7, <2>1, FirstFile DEF Capture, DumpedStates
  <2>3. bk' = [bk EXCEPT !.listed = bk.listed \ {f}, !.files = [bk.files EXCEPT ![f] = journal[f]],
                 !.inventory = bk.inventory \union {[name |-> f, size |-> Len(journal[f])]}]
    BY <1>7 DEF Capture
  <2>4. journal[f] \in Seq(Records) /\ Len(journal[f]) \in Nat
    BY <1>1, <2>2 DEF TypeOK
  <2> DEFINE rest == bk.listed \ {f}
             files == [bk.files EXCEPT ![f] = journal[f]]
             inventory == bk.inventory \union {[name |-> f, size |-> Len(journal[f])]}
  <2>5. /\ rest \in SUBSET Files /\ files \in [Files -> Seq(Records)]
        /\ inventory \in SUBSET Entries
    <3> HIDE DEF f
    <3> QED
      BY <2>1, <2>2, <2>4 DEF DumpedStates, Entries
  <2>6. bk' = [bk EXCEPT !.listed = rest, !.files = files, !.inventory = inventory]
    BY <2>3
  <2> HIDE DEF f, rest, files, inventory
  <2>7. bk' \in DumpedStates
    BY <2>1, <2>5, <2>6 DEF DumpedStates
  <2> QED
    BY <1>1, <1>2, <1>7, <2>7 DEF Capture, NoArchive
<1>8. CASE PublishArchive
  <2>1. bk \in DumpedStates
    BY <1>1, <1>8, BackupStates DEF PublishArchive
  <2>2. bk' = [pc |-> "linked", at |-> bk.at]
        /\ shelf' = shelf \union {[at |-> bk.at, reported |-> FALSE]}
        /\ archive' = [exists |-> TRUE, dump |-> bk.dump, counts |-> bk.counts, owed |-> bk.owed,
                       files |-> bk.files, inventory |-> bk.inventory, cursor |-> ArchivedCursor]
    BY <1>8 DEF PublishArchive
  <2>3. bk' \in EndingStates
    BY <2>1, <2>2 DEF DumpedStates, EndingStates
  <2>4. archive' \in Archives
    BY <2>1, <2>2 DEF DumpedStates, Archives
  <2>5. shelf' \subseteq [at : 0 .. now, reported : BOOLEAN]
    <3>1. bk.at \in 0 .. now
      BY <2>1 DEF DumpedStates
    <3>2. [at |-> bk.at, reported |-> FALSE] \in [at : 0 .. now, reported : BOOLEAN]
      BY <3>1
    <3> QED
      BY <1>1, <2>2, <3>2
  <2> QED
    BY <1>1, <1>2, <1>8, <2>3, <2>4, <2>5 DEF PublishArchive
<1>9. CASE PublishReport
  <2>1. bk \in EndingStates
    BY <1>1, <1>9, BackupStates DEF PublishReport
  <2>2. bk' \in EndingStates
    BY <1>9, <2>1 DEF PublishReport, EndingStates
  <2>3. shelf' \subseteq [at : 0 .. now, reported : BOOLEAN]
    BY <1>1, <1>9 DEF PublishReport
  <2>4. made' \subseteq 0 .. now
    BY <1>1, <1>9, <2>1 DEF PublishReport, EndingStates
  <2> QED
    BY <1>1, <1>2, <1>9, <2>2, <2>3, <2>4 DEF PublishReport, NoArchive
<1>10. CASE Prune
  BY <1>1, <1>2, <1>10 DEF Prune, NoArchive
<1> QED
  BY <1>3, <1>4, <1>5, <1>6, <1>7, <1>8, <1>9, <1>10

\* Nothing is listed when no file has been read.
LEMMA ListingOfNone == Listing([f \in Files |-> <<>>]) = {}
BY DEF Listing

\* A file that is read adds its entry to the inventory.
LEMMA ListingOfOneMore ==
  ASSUME NEW files \in [Files -> Seq(Records)], NEW f \in Files, files[f] = <<>>,
         NEW text \in Seq(Records), text # <<>>
  PROVE  Listing([files EXCEPT ![f] = text])
           = Listing(files) \union {[name |-> f, size |-> Len(text)]}
<1> DEFINE more == [files EXCEPT ![f] = text]
<1>1. {g \in Files : more[g] # <<>>} = {g \in Files : files[g] # <<>>} \union {f}
  OBVIOUS
<1>2. more[f] = text /\ \A g \in Files : g # f => more[g] = files[g]
  OBVIOUS
<1> HIDE DEF more
<1>3. Listing(more) \subseteq Listing(files) \union {[name |-> f, size |-> Len(text)]}
  <2> SUFFICES ASSUME NEW g \in Files, more[g] # <<>>
               PROVE  [name |-> g, size |-> Len(more[g])]
                        \in Listing(files) \union {[name |-> f, size |-> Len(text)]}
    BY DEF Listing
  <2>1. CASE g = f
    BY <1>2, <2>1
  <2>2. CASE g # f
    <3>1. more[g] = files[g]
      BY <1>2, <2>2
    <3> QED
      BY <3>1 DEF Listing
  <2> QED
    BY <2>1, <2>2
<1>4. Listing(files) \union {[name |-> f, size |-> Len(text)]} \subseteq Listing(more)
  <2>1. [name |-> f, size |-> Len(text)] \in Listing(more)
    BY <1>2 DEF Listing
  <2>2. ASSUME NEW g \in Files, files[g] # <<>>
        PROVE  [name |-> g, size |-> Len(files[g])] \in Listing(more)
    <3>1. more[g] = files[g]
      BY <1>2, <2>2
    <3> QED
      BY <2>2, <3>1 DEF Listing
  <2>3. Listing(files) \subseteq Listing(more)
    BY <2>2 DEF Listing
  <2> QED
    BY <2>1, <2>3
<1> QED
  BY <1>3, <1>4 DEF more

\* A step of a backup carries what the archive owes to its restore.
LEMMA BackupCarries ==
  ASSUME BackupInv, UNCHANGED vars,
         \/ RegisterPayment \/ ListSources \/ ExportSnapshot \/ DumpDatabase \/ Capture
         \/ PublishArchive \/ PublishReport \/ Prune
  PROVE  ArchiveInv'
<1>1. /\ BackupTypeOK /\ TypeOK /\ ArchiveInv /\ Sound([row |-> row, merged |-> merged, paid |-> paid])
      /\ journal' = journal
  BY DEF BackupInv, AccountingInv, vars, Sound
<1>2. CASE RegisterPayment
  BY <1>1, <1>2 DEF RegisterPayment, ArchiveInv, NoArchive
<1>3. CASE ListSources
  BY <1>1, <1>3 DEF ListSources, ArchiveInv, Existing, NoArchive
<1>4. CASE ExportSnapshot
  <2> DEFINE snapshot == [row |-> row, merged |-> merged, paid |-> paid]
             promised == {m.record : m \in merged} \union Journaled(bk.listed)
  <2>1. /\ bk' = [pc |-> "exported", at |-> bk.at, listed |-> bk.listed, counts |-> paid,
                  snapshot |-> snapshot, owed |-> promised]
        /\ bk.pc = "listed" /\ archive' = archive
    BY <1>4 DEF ExportSnapshot
  <2>2. \A e \in promised : Entered(e, snapshot.merged) \/ Written(e, bk.listed, journal)
    BY DEF Entered, Written, Journaled
  <2>3. Sound(snapshot) /\ snapshot.paid = paid
    BY <1>1
  <2> HIDE DEF snapshot, promised
  <2> QED
    BY <1>1, <2>1, <2>2, <2>3 DEF ArchiveInv, NoArchive
<1>5. CASE DumpDatabase
  <2>1. /\ bk' = [pc |-> "dumped", at |-> bk.at, listed |-> bk.listed, counts |-> bk.counts,
                  dump |-> bk.snapshot, owed |-> bk.owed,
                  files |-> [f \in Files |-> <<>>], inventory |-> {}]
        /\ bk.pc = "exported" /\ archive' = archive
    BY <1>5 DEF DumpDatabase, Dumped
  <2>2. bk \in ExportedStates
    BY <1>1, <2>1, BackupStates
  <2>3. \A f \in bk.listed : [g \in Files |-> <<>>][f] = <<>>
    BY <2>2 DEF ExportedStates
  <2> QED
    BY <1>1, <2>1, <2>3, ListingOfNone DEF ArchiveInv, NoArchive
<1>6. CASE Capture
  <2> DEFINE f == Min(bk.listed)
             files == [bk.files EXCEPT ![f] = journal[f]]
             entry == [name |-> f, size |-> Len(journal[f])]
  <2>1. bk.pc = "dumped" /\ bk \in DumpedStates /\ archive' = archive
    BY <1>1, <1>6, BackupStates DEF Capture
  <2>2. f \in bk.listed /\ f \in Files
    BY <1>6, <2>1, FirstFile DEF Capture, DumpedStates
  <2>3. bk' = [bk EXCEPT !.listed = bk.listed \ {f}, !.files = files,
                         !.inventory = bk.inventory \union {entry}]
    BY <1>6 DEF Capture
  <2>4. /\ journal[f] \in Seq(Records) /\ journal[f] # <<>> /\ bk.files[f] = <<>>
        /\ bk.files \in [Files -> Seq(Records)]
    BY <1>1, <2>1, <2>2 DEF TypeOK, ArchiveInv, DumpedStates
  <2>5. Listing(files) = Listing(bk.files) \union {entry}
    BY <2>2, <2>4, ListingOfOneMore
  <2>6. files[f] = journal[f] /\ \A g \in Files : g # f => files[g] = bk.files[g]
    BY <2>2, <2>4
  <2> HIDE DEF f, files, entry
  <2>7. /\ bk'.pc = "dumped" /\ bk'.listed = bk.listed \ {f} /\ bk'.files = files
        /\ bk'.inventory = bk.inventory \union {entry} /\ bk'.dump = bk.dump
        /\ bk'.counts = bk.counts /\ bk'.owed = bk.owed
    BY <2>1, <2>3 DEF DumpedStates
  <2>8. ASSUME NEW e \in bk.owed
        PROVE  \/ Entered(e, bk.dump.merged) \/ Written(e, bk.listed \ {f}, journal)
               \/ Written(e, Files, files)
    <3>1. CASE Entered(e, bk.dump.merged)
      BY <3>1
    <3>2. CASE Written(e, bk.listed, journal)
      <4>1. PICK g \in bk.listed : \E n \in 1 .. Len(journal[g]) : journal[g][n] = e
        BY <3>2 DEF Written
      <4>2. CASE g = f
        <5>1. \E n \in 1 .. Len(files[f]) : files[f][n] = e
          BY <2>6, <4>1, <4>2
        <5> QED
          BY <2>2, <5>1 DEF Written
      <4>3. CASE g # f
        BY <4>1, <4>3 DEF Written
      <4> QED
        BY <4>2, <4>3
    <3>3. CASE Written(e, Files, bk.files)
      <4>1. PICK g \in Files : \E n \in 1 .. Len(bk.files[g]) : bk.files[g][n] = e
        BY <3>3 DEF Written
      <4>2. g # f
        BY <2>4, <4>1
      <4> QED
        BY <2>6, <4>1, <4>2 DEF Written
    <3> QED
      BY <1>1, <2>1, <3>1, <3>2, <3>3 DEF ArchiveInv
  <2>9. \A g \in bk.listed \ {f} : files[g] = <<>> /\ journal[g] # <<>>
    BY <1>1, <2>1, <2>6 DEF ArchiveInv, DumpedStates
  <2> QED
    BY <1>1, <2>1, <2>5, <2>7, <2>8, <2>9 DEF ArchiveInv, NoArchive
<1>7. CASE PublishArchive
  <2>1. /\ bk' = [pc |-> "linked", at |-> bk.at]
        /\ archive' = [exists |-> TRUE, dump |-> bk.dump, counts |-> bk.counts, owed |-> bk.owed,
                       files |-> bk.files, inventory |-> bk.inventory, cursor |-> ArchivedCursor]
        /\ bk.pc = "dumped" /\ bk.listed = {}
    BY <1>7 DEF PublishArchive
  <2>2. \A e : ~Written(e, bk.listed, journal)
    BY <2>1 DEF Written
  <2> QED
    BY <1>1, <2>1, <2>2 DEF ArchiveInv
<1>8. CASE PublishReport
  BY <1>1, <1>8 DEF PublishReport, ArchiveInv, NoArchive
<1>9. CASE Prune
  BY <1>1, <1>9 DEF Prune, Resting, ArchiveInv, NoArchive
<1> QED
  BY <1>2, <1>3, <1>4, <1>5, <1>6, <1>7, <1>8, <1>9

-----------------------------------------------------------------------------
(* The shelf.                                                              *)

\* The newest of the candidates of a recent day is kept.
LEMMA NewestOfDayKept ==
  ASSUME NEW candidates \in SUBSET [at : 0 .. now, reported : BOOLEAN], now \in Nat,
         NEW a \in candidates, Day(a.at) > Day(now) - DailyDays
  PROVE  \E b \in Kept(candidates) : Day(b.at) = Day(a.at)
<1> DEFINE same == {b \in candidates : Day(b.at) = Day(a.at)}
           ages == {now - b.at : b \in same}
<1>1. \A b \in same : b.at \in 0 .. now
  OBVIOUS
<1>2. ages \in SUBSET Nat /\ ages # {}
  <2>1. a \in same
    OBVIOUS
  <2> HIDE DEF same
  <2> QED
    BY <1>1, <2>1
<1>3. PICK x \in ages : \A y \in ages : x <= y
  BY <1>2, LeastNatural
<1>4. PICK b \in same : x = now - b.at
  BY <1>3
<1>5. \A c \in same : c.at <= b.at
  <2> SUFFICES ASSUME NEW c \in same
               PROVE  c.at <= b.at
    OBVIOUS
  <2>1. x <= now - c.at
    BY <1>3
  <2> HIDE DEF same
  <2> QED
    BY <1>1, <1>4, <2>1
<1>6. b \in Kept(candidates)
  BY <1>5 DEF Kept
<1> QED
  BY <1>6

\* The newest candidate is kept.
LEMMA NewestKept ==
  ASSUME NEW candidates, NEW a \in candidates, \A b \in candidates : ~(b.at > a.at)
  PROVE  a \in Kept(candidates)
<1>1. {b \in candidates : b.at > a.at} = {}
  OBVIOUS
<1>2. Cardinality({}) < KeepLatest
  BY FS_EmptySet, BackupAssumption DEF BackupAssumption
<1> QED
  BY <1>1, <1>2 DEF Kept

\* A step of a backup keeps the recovery points, the prune among them.
LEMMA BackupShelves ==
  ASSUME BackupInv, UNCHANGED vars,
         \/ RegisterPayment \/ ListSources \/ ExportSnapshot \/ DumpDatabase \/ Capture
         \/ PublishArchive \/ PublishReport \/ Prune
  PROVE  ShelfInv'
<1>1. BackupTypeOK /\ ShelfInv /\ now' = now /\ now \in Nat /\ \A t : Day(t)' = Day(t)
  BY AccountingAssumption
  DEF AccountingAssumption, BackupInv, AccountingInv, TypeOK, vars, Day
<1>2. /\ shelf \subseteq [at : 0 .. now, reported : BOOLEAN] /\ made \subseteq 0 .. now
  BY <1>1 DEF BackupTypeOK
<1>3. CASE RegisterPayment
  BY <1>1, <1>3 DEF RegisterPayment, ShelfInv
<1>4. CASE ListSources
  <2>1. /\ bk' = [pc |-> "listed", at |-> now, listed |-> Existing]
        /\ UNCHANGED <<shelf, made>> /\ \A a \in shelf : a.at # now
    BY <1>4 DEF ListSources
  <2>2. \A t \in made : t < now
    <3>1. CASE made = {}
      BY <3>1
    <3>2. CASE made # {}
      <4>1. PICK t \in made : /\ \A u \in made : u <= t
                              /\ [at |-> t, reported |-> TRUE] \in shelf
        BY <1>1, <3>2 DEF ShelfInv
      <4>2. t # now
        BY <2>1, <4>1
      <4> QED
        BY <1>1, <1>2, <4>1, <4>2
    <3> QED
      BY <3>1, <3>2
  <2> QED
    BY <1>1, <2>1, <2>2 DEF ShelfInv
<1>5. CASE ExportSnapshot
  BY <1>1, <1>5 DEF ExportSnapshot, ShelfInv
<1>6. CASE DumpDatabase
  BY <1>1, <1>6 DEF DumpDatabase, ShelfInv
<1>7. CASE Capture
  <2>1. bk \in DumpedStates
    BY <1>1, <1>7, BackupStates DEF Capture
  <2>2. bk'.pc = bk.pc /\ bk'.at = bk.at /\ bk.pc = "dumped"
    BY <1>7, <2>1 DEF Capture, DumpedStates
  <2> QED
    BY <1>1, <1>7, <2>2 DEF Capture, ShelfInv
<1>8. CASE PublishArchive
  <2> DEFINE new == [at |-> bk.at, reported |-> FALSE]
  <2>1. /\ shelf' = shelf \union {new} /\ bk' = [pc |-> "linked", at |-> bk.at]
        /\ bk.pc = "dumped" /\ made' = made
    BY <1>8 DEF PublishArchive
  <2>2. ~new.reported
    OBVIOUS
  <2>3. new = [at |-> bk'.at, reported |-> FALSE]
    BY <2>1
  <2> HIDE DEF new
  <2> QED
    BY <1>1, <2>1, <2>2, <2>3 DEF ShelfInv
<1>9. CASE PublishReport
  <2> DEFINE Out(a) == IF a.at = bk.at THEN [a EXCEPT !.reported = TRUE] ELSE a
             new == [at |-> bk.at, reported |-> TRUE]
  <2>1. /\ shelf' = {Out(a) : a \in shelf} /\ made' = made \union {bk.at}
        /\ bk' = [pc |-> "pruning", at |-> bk.at] /\ bk.pc = "linked"
    BY <1>9 DEF PublishReport
  <2>2. bk \in EndingStates /\ bk.at \in 0 .. now
    <3>1. bk \in EndingStates
      BY <1>1, <2>1, BackupStates
    <3> QED
      BY <3>1 DEF EndingStates
  <2>3. \A a \in shelf : /\ Out(a).at = a.at
                         /\ a.reported => Out(a).reported
                         /\ Out(a).reported => a.reported \/ a.at = bk.at
                         /\ a.at = bk.at => Out(a) = new
    BY <1>2
  <2>4. new \in shelf'
    <3>1. [at |-> bk.at, reported |-> FALSE] \in shelf
      BY <1>1, <2>1 DEF ShelfInv
    <3>2. [at |-> bk.at, reported |-> FALSE].at = bk.at
      OBVIOUS
    <3>3. Out([at |-> bk.at, reported |-> FALSE]) = new
      BY <2>3, <3>1, <3>2
    <3> HIDE DEF Out, new
    <3> QED
      BY <2>1, <3>1, <3>3
  <2>5. new.at = bk.at /\ new.reported
    OBVIOUS
  <2>6. new = [at |-> bk.at, reported |-> TRUE]
    OBVIOUS
  <2> HIDE DEF Out, new
  <2>7. \A a \in shelf' : a.reported => a.at \in made'
    BY <1>1, <2>1, <2>3 DEF ShelfInv
  <2>8. \A u \in made' : u <= bk.at
    BY <1>1, <1>2, <2>1, <2>2 DEF ShelfInv
  <2>9. \A t \in made' : Day(t) > Day(now) - DailyDays =>
          \E a \in shelf' : a.reported /\ Day(a.at) = Day(t)
    <3> SUFFICES ASSUME NEW t \in made', Day(t) > Day(now) - DailyDays
                 PROVE  \E a \in shelf' : a.reported /\ Day(a.at) = Day(t)
      OBVIOUS
    <3>1. CASE t = bk.at
      BY <2>4, <2>5, <3>1
    <3>2. CASE t \in made
      <4>1. PICK a \in shelf : a.reported /\ Day(a.at) = Day(t)
        BY <1>1, <3>2 DEF ShelfInv
      <4> QED
        BY <2>1, <2>3, <4>1
    <3> QED
      BY <2>1, <3>1, <3>2
  <2>10. bk.at \in made' /\ bk'.pc = "pruning"
    BY <2>1
  <2> QED
    BY <1>1, <2>4, <2>6, <2>7, <2>8, <2>9, <2>10 DEF ShelfInv
<1>10. CASE Prune
  <2> DEFINE candidates == {a \in shelf : a.reported}
  <2>1. PICK gone \in SUBSET (candidates \ Kept(candidates)) : shelf' = shelf \ gone
    BY <1>10 DEF Prune
  <2>2. bk'.pc = "idle" /\ made' = made
    BY <1>10 DEF Prune, Resting
  <2>3. candidates \in SUBSET [at : 0 .. now, reported : BOOLEAN]
    BY <1>2
  <2>4. Kept(candidates) \subseteq shelf' /\ \A a \in Kept(candidates) : a \in candidates
    BY <2>1 DEF Kept
  <2>5. \A t \in made : Day(t) > Day(now) - DailyDays =>
          \E a \in shelf' : a.reported /\ Day(a.at) = Day(t)
    <3> SUFFICES ASSUME NEW t \in made, Day(t) > Day(now) - DailyDays
                 PROVE  \E a \in shelf' : a.reported /\ Day(a.at) = Day(t)
      OBVIOUS
    <3>1. PICK a \in candidates : Day(a.at) = Day(t)
      BY <1>1 DEF ShelfInv
    <3>2. PICK b \in Kept(candidates) : Day(b.at) = Day(a.at)
      BY <1>1, <2>3, <3>1, NewestOfDayKept
    <3> QED
      BY <2>4, <3>1, <3>2
  <2>6. made # {} => \E t \in made : /\ \A u \in made : u <= t
                                     /\ [at |-> t, reported |-> TRUE] \in shelf'
    <3> SUFFICES ASSUME made # {}
                 PROVE  \E t \in made : /\ \A u \in made : u <= t
                                        /\ [at |-> t, reported |-> TRUE] \in shelf'
      OBVIOUS
    <3>1. PICK t \in made : /\ \A u \in made : u <= t
                            /\ [at |-> t, reported |-> TRUE] \in shelf
      BY <1>1 DEF ShelfInv
    <3> DEFINE a == [at |-> t, reported |-> TRUE]
    <3>2. a \in candidates /\ a.at = t
      BY <3>1
    <3>3. \A b \in candidates : ~(b.at > a.at)
      <4>1. \A b \in candidates : b.at \in made
        BY <1>1 DEF ShelfInv
      <4>2. \A u \in made : u \in Nat /\ u <= t
        BY <1>2, <3>1
      <4> HIDE DEF candidates, a
      <4> QED
        BY <3>2, <4>1, <4>2
    <3> HIDE DEF candidates
    <3>4. a \in Kept(candidates)
      BY <3>2, <3>3, NewestKept
    <3> QED
      BY <2>4, <3>1, <3>4
  <2>7. shelf' \subseteq shelf
    BY <2>1
  <2> QED
    BY <1>1, <2>2, <2>5, <2>6, <2>7 DEF ShelfInv
<1> QED
  BY <1>3, <1>4, <1>5, <1>6, <1>7, <1>8, <1>9, <1>10

-----------------------------------------------------------------------------
(* Failures and restores.                                                  *)

\* A backup that fails leaves the shelf and the accounting as they are.
LEMMA FailureIsHarmless == BackupInv /\ BackupFails => BackupInv'
<1> SUFFICES ASSUME BackupInv, BackupFails
             PROVE  BackupInv'
  OBVIOUS
<1>1. /\ TypeOK /\ JournalInv /\ MergedInv(row, merged) /\ DatedInv(merged)
      /\ BackupTypeOK /\ ArchiveInv /\ ShelfInv
  BY DEF BackupInv, AccountingInv
<1>2. /\ UNCHANGED <<now, provisioned, row, merged, journal, ino, owed, cursor, rp, live>>
      /\ UNCHANGED <<paid, archive, shelf, made>> /\ bk' = Resting /\ bk'.pc = "idle"
  BY DEF BackupFails, server, disk, Resting
<1>3. faults' \in 0 .. MaxFaults
  BY <1>1, AccountingAssumption DEF AccountingAssumption, BackupFails, TypeOK
<1>4. TypeOK'
  BY <1>1, <1>2, <1>3 DEF TypeOK, Rows, Reports
<1>5. JournalInv'
  BY <1>1, <1>2, JournalFrame
<1>6. MergedInv(row', merged') /\ DatedInv(merged')
  BY <1>1, <1>2
<1>7. BackupTypeOK'
  <2>1. Archives' = Archives
    BY <1>2 DEF Archives, Databases, Rows, Reports, Entries, ArchivedCursor
  <2> QED
    BY <1>1, <1>2, <2>1 DEF BackupTypeOK, Resting, NoArchive
<1>8. ArchiveInv'
  BY <1>1, <1>2 DEF ArchiveInv, NoArchive
<1>9. ShelfInv'
  <2>1. \A t : Day(t)' = Day(t)
    BY DEF Day
  <2> QED
    BY <1>1, <1>2, <2>1 DEF ShelfInv
<1> QED
  BY <1>4, <1>5, <1>6, <1>7, <1>8, <1>9 DEF BackupInv, AccountingInv

\* The server that is restored from an archive is one the accounting can go on with.
LEMMA RestoreIsSound == BackupInv /\ Restore => BackupInv'
<1> SUFFICES ASSUME BackupInv, Restore
             PROVE  BackupInv'
  OBVIOUS
<1>1. /\ TypeOK /\ BackupTypeOK /\ ArchiveInv /\ ShelfInv
  BY DEF BackupInv, AccountingInv
<1>2. archive \in Archives /\ archive # NoArchive
  BY <1>1, BackupStates DEF Restore, NoArchive
<1>3. /\ row' = archive.dump.row /\ merged' = archive.dump.merged /\ owed' = archive.owed
      /\ paid' = archive.dump.paid /\ journal' = archive.files /\ cursor' = archive.cursor
      /\ ino' \in [Files -> 0 .. 1] /\ rp' = [pc |-> "idle", file |-> 0] /\ live' = NoEntry
      /\ UNCHANGED <<now, provisioned, bk, archive, shelf, made>> /\ bk.pc = "idle"
  BY DEF Restore
<1>4. /\ archive.dump.row \in [Sessions -> Rows \union {NoRow}]
      /\ archive.dump.merged \subseteq Reports /\ archive.dump.paid \in Nat
      /\ archive.owed \subseteq Records /\ archive.files \in [Files -> Seq(Records)]
      /\ archive.cursor = ArchivedCursor
  BY <1>2 DEF Archives, Databases
<1>5. faults' \in 0 .. MaxFaults
  BY <1>1, AccountingAssumption DEF AccountingAssumption, Restore, TypeOK
<1>6. cursor' = [f \in Files |-> Unsaved]
  BY <1>3, <1>4 DEF ArchivedCursor
<1>7. Rows' = Rows /\ Reports' = Reports
  BY <1>3 DEF Rows, Reports
<1>8. TypeOK'
  <2>1. cursor' \in [Files -> [ino : 0 .. 1, offset : Nat, anchor : Records \union {NoEntry}]]
    BY <1>6 DEF Unsaved
  <2>2. rp' \in [pc : {"idle", "reading", "confirmed"}, file : Files]
    <3>1. 0 \in Files
      BY AccountingAssumption, DayIsAFile DEF AccountingAssumption, Files, Day
    <3> QED
      BY <1>3, <3>1
  <2> QED
    BY <1>1, <1>3, <1>4, <1>5, <1>7, <2>1, <2>2 DEF TypeOK
<1>9. JournalInv'
  <2>1. \A f \in Files : cursor'[f].offset = 0 /\ Len(journal'[f]) \in Nat
    BY <1>3, <1>4, <1>6 DEF Unsaved
  <2>2. \A f \in Files : /\ cursor'[f].offset <= Len(journal'[f])
                         /\ \A n \in 1 .. cursor'[f].offset : Entered(journal'[f][n], merged')
    BY <2>1
  <2>3. rp'.pc # "confirmed"
    BY <1>3
  <2>4. \A e \in owed' : Written(e, Files, journal') \/ Entered(e, merged')
    BY <1>1, <1>2, <1>3 DEF ArchiveInv
  <2> QED
    BY <2>2, <2>3, <2>4 DEF JournalInv
<1>10. MergedInv(row', merged') /\ DatedInv(merged')
  BY <1>1, <1>2, <1>3 DEF ArchiveInv, Sound
<1>11. BackupTypeOK'
  <2>1. Archives' = Archives
    BY <1>3, <1>7 DEF Archives, Databases, Entries, ArchivedCursor
  <2>2. bk = Resting /\ bk' = Resting
    BY <1>1, <1>3, BackupStates
  <2> QED
    BY <1>1, <1>3, <1>4, <2>1, <2>2 DEF BackupTypeOK, Resting, NoArchive
<1>12. ArchiveInv'
  BY <1>1, <1>3 DEF ArchiveInv, NoArchive
<1>13. ShelfInv'
  <2>1. \A t : Day(t)' = Day(t)
    BY DEF Day
  <2> QED
    BY <1>1, <1>3, <2>1 DEF ShelfInv
<1> QED
  BY <1>8, <1>9, <1>10, <1>11, <1>12, <1>13 DEF BackupInv, AccountingInv

\* The backups begin with an empty shelf.
LEMMA BackupInitial == BackupInit => BackupInv
<1> SUFFICES ASSUME BackupInit
             PROVE  BackupInv
  OBVIOUS
<1>1. AccountingInv
  BY AccountingInit DEF BackupInit
<1>2. bk = Resting /\ bk.pc = "idle" /\ paid = 0 /\ archive = NoArchive /\ shelf = {} /\ made = {}
  BY DEF BackupInit, Resting
<1>3. BackupTypeOK /\ ArchiveInv /\ ShelfInv
  BY <1>2 DEF BackupTypeOK, ArchiveInv, ShelfInv
<1> QED
  BY <1>1, <1>3 DEF BackupInv

\* Every step keeps the invariant of the accounting and its backups.
LEMMA BackupNextKeeps == BackupInv /\ [BackupNext]_allvars => BackupInv'
<1> SUFFICES ASSUME BackupInv, [BackupNext]_allvars
             PROVE  BackupInv'
  OBVIOUS
<1>1. CASE Next /\ UNCHANGED backups
  BY <1>1, BesideAccounting
<1>2. CASE \/ RegisterPayment \/ ListSources \/ ExportSnapshot \/ DumpDatabase \/ Capture
           \/ PublishArchive \/ PublishReport \/ Prune
  <2>1. UNCHANGED vars
    BY <1>2 DEF RegisterPayment, ListSources, ExportSnapshot, DumpDatabase, Capture,
                PublishArchive, PublishReport, Prune
  <2>2. AccountingInv'
    BY <2>1, AccountingRests DEF BackupInv
  <2> QED
    BY <1>2, <2>1, <2>2, BackupTypes, BackupCarries, BackupShelves DEF BackupInv
<1>3. CASE BackupFails
  BY <1>3, FailureIsHarmless
<1>4. CASE Restore
  BY <1>4, RestoreIsSound
<1>5. CASE UNCHANGED allvars
  <2>1. UNCHANGED vars /\ UNCHANGED backups
    BY <1>5 DEF allvars
  <2> QED
    BY <2>1, BesideAccounting
<1> QED
  BY <1>1, <1>2, <1>3, <1>4, <1>5 DEF BackupNext

\* The newest recovery points are on the shelf.
LEMMA InvariantsGiveTheShelf == BackupInv => RecoveryPoints
<1> SUFFICES ASSUME BackupInv
             PROVE  RecoveryPoints
  OBVIOUS
<1>1. ShelfInv /\ made \in SUBSET Int
  BY DEF BackupInv, BackupTypeOK
<1>2. ASSUME made # {}
      PROVE  [at |-> Max(made), reported |-> TRUE] \in shelf
  <2>1. PICK t \in made : /\ \A u \in made : u <= t
                          /\ [at |-> t, reported |-> TRUE] \in shelf
    BY <1>1, <1>2 DEF ShelfInv
  <2>2. Max(made) = t
    BY <1>1, <2>1, MaxIs
  <2> QED
    BY <2>1, <2>2
<1> QED
  BY <1>1, <1>2 DEF RecoveryPoints, ShelfInv

\* The newest archive is what its manifest says.
LEMMA InvariantsGiveTheArchive == BackupInv => ArchiveVerifies
<1> SUFFICES ASSUME BackupInv, archive.exists
             PROVE  Verifies(archive)
  BY DEF ArchiveVerifies
<1>1. archive # NoArchive /\ ArchiveInv
  BY DEF NoArchive, BackupInv
<1> QED
  BY <1>1 DEF ArchiveInv, Verifies, InventoryMatches, Listing

\* Whatever goes on while an archive is made, and however often the server is
\* restored from one: what the database held at the snapshot and what the listed
\* files held is there or lies ahead of the replay.
THEOREM RestoreKeepsTheRecords == BackupSpec => []RestoreLosesNothing
<1>1. BackupInv => RestoreLosesNothing
  BY InvariantsGiveTheRecords DEF BackupInv, RestoreLosesNothing
<1> QED
  BY <1>1, BackupInitial, BackupNextKeeps, PTL DEF BackupSpec

\* A restored server goes on merging: its rows are the merges of the reports it has.
THEOREM RestoreKeepsTheMerge == BackupSpec => []RowIsTheMerge
<1>1. BackupInv => RowIsTheMerge
  BY InvariantsGiveTheMerge DEF BackupInv
<1> QED
  BY <1>1, BackupInitial, BackupNextKeeps, PTL DEF BackupSpec

\* The newest archive passes its verification, whatever is journaled, replayed or
\* paid between the listing, the snapshot, the dump and the capture of each file.
THEOREM ArchivesVerify == BackupSpec => []ArchiveVerifies
<1> QED
  BY BackupInitial, BackupNextKeeps, InvariantsGiveTheArchive, PTL DEF BackupSpec

\* Prunes that break off and backups that fail leave the newest backup, and one of
\* every day of the window on which one completed.
THEOREM RecoveryPointsStay == BackupSpec => []RecoveryPoints
<1> QED
  BY BackupInitial, BackupNextKeeps, InvariantsGiveTheShelf, PTL DEF BackupSpec
=============================================================================
