----------------------------- MODULE Accounting -----------------------------
(* RADIUS accounting: the daemon's journal, its live report to the           *)
(* application, the replay of the journal behind a durable cursor, and the   *)
(* merge of every report into the row of its session.  One node; rows are    *)
(* keyed by router and session id, of which a member of Sessions is one pair.*)
EXTENDS Integers, Sequences, FiniteSets, FiniteSetsExt

CONSTANTS
  Routers, Sessions, RouterOf,
  Packets,     \* what a router can report: [session, user, kind, octets]
  Offsets,     \* of an event against its arrival: a retransmission is late,
               \* a fast clock is ahead
  Tolerance,   \* how far ahead of the application a journal may be
  DayLength, MaxTime, MaxRecords, MaxFaults

AccountingAssumption ==
  /\ RouterOf \in [Sessions -> Routers]
  /\ Packets \subseteq [session : Sessions, user : STRING, octets : Nat,
                        kind : {"Start", "Interim", "Stop"}]
  /\ Offsets \subseteq Int /\ Tolerance \in Nat /\ DayLength \in Nat \ {0}
  /\ MaxTime \in Nat /\ MaxRecords \in Nat /\ MaxFaults \in Nat
ASSUME AccountingAssumption

VARIABLES
  now,          \* the application's clock
  provisioned,  \* routers that radius_router finds
  row,          \* RadiusSession
  journal,      \* per day, the records of its detail file
  ino,          \* which inode that file is
  cursor,       \* the replay's checkpoint, by file
  rp,           \* the replay: where its pass is
  live,         \* the record whose live report is under way
  merged,       \* history: the reports the application has taken in
  owed,         \* history: the records that must reach the application
  faults

vars == <<now, provisioned, row, journal, ino, cursor, rp, live, merged, owed, faults>>
server == <<row, merged>>
disk == <<journal, ino, owed>>

Day(t) == t \div DayLength
Files == 0 .. Day(MaxTime)
NoRow == [exists |-> FALSE]
NoEntry == [of |-> "none"]
Never == MaxTime + 1    \* a timestamp that is null: later than any other
Unsaved == [ino |-> 0, offset |-> 0, anchor |-> NoEntry]
Earlier(s, t) == IF s < t THEN s ELSE t
Later(s, t) == IF s > t THEN s ELSE t
Records == [of : Packets, at : Nat]

Init ==
  /\ now = 0 /\ provisioned = Routers /\ faults = 0
  /\ row = [s \in Sessions |-> NoRow]
  /\ journal = [f \in Files |-> <<>>]
  /\ ino = [f \in Files |-> 0]
  /\ cursor = [f \in Files |-> Unsaved]
  /\ rp = [pc |-> "idle", file |-> 0]
  /\ live = NoEntry
  /\ merged = {} /\ owed = {}

-----------------------------------------------------------------------------
(* The endpoint.                                                             *)

\* A report is refused when its router is unknown, its journal date is in the
\* future, or the session id belongs to another user.
Refused(e, replay) ==
  LET s == e.of.session IN
  \/ RouterOf[s] \notin provisioned
  \/ replay /\ e.at > now + Tolerance
  \/ row[s] # NoRow /\ row[s].user # e.of.user

EventTime(e) == Earlier(e.at, now)

\* Faulty: the last report to come in wins.
MergedLast(r, p, at, replay) ==
  [exists |-> TRUE, user |-> p.user, updated |-> at, replayed |-> replay, octets |-> p.octets,
   started |-> IF p.kind = "Start" THEN at ELSE IF r = NoRow THEN Never ELSE r.started,
   stopped |-> IF p.kind = "Stop" THEN at ELSE IF r = NoRow THEN Never ELSE r.stopped]
Merged(r, p, at, replay) ==
  LET old == IF r # NoRow THEN r
             ELSE [exists |-> TRUE, user |-> p.user, started |-> Never,
                   stopped |-> Never, octets |-> 0, updated |-> at, replayed |-> FALSE]
  IN [old EXCEPT
        !.started = IF p.kind = "Start" THEN Earlier(@, at) ELSE @,
        !.stopped = IF p.kind = "Stop" THEN Earlier(@, at) ELSE @,
        !.octets = Later(@, p.octets),
        !.updated = Later(@, at),
        !.replayed = @ \/ replay]

\* The transaction of radius_accounting.
Take(e, replay) ==
  /\ ~Refused(e, replay)
  /\ row' = [row EXCEPT ![e.of.session] = Merged(@, e.of, EventTime(e), replay)]
  /\ merged' = merged \union {[record |-> e, at |-> EventTime(e), replay |-> replay]}

-----------------------------------------------------------------------------
(* The daemon: journal first, then the live report.                          *)

JournalSize == FoldSet(LAMBDA f, n : n + Len(journal[f]), 0, Files)

\* A packet, perhaps the retransmission of one that was not acknowledged.
Receive(p, o) ==
  /\ live = NoEntry
  /\ JournalSize < MaxRecords
  /\ now + o >= 0
  /\ LET e == [of |-> p, at |-> now + o] IN
     /\ journal' = [journal EXCEPT ![Day(now)] = Append(@, e)]
     /\ owed' = owed \union {e}
     /\ live' = e
  /\ UNCHANGED <<now, provisioned, server, ino, cursor, rp, faults>>

\* The report arrives, or fails and is left to the journal.
Report ==
  /\ live # NoEntry
  /\ live' = NoEntry
  /\ Take(live, FALSE) \/ UNCHANGED server
  /\ UNCHANGED <<now, provisioned, disk, cursor, rp, faults>>

-----------------------------------------------------------------------------
(* The replay.  Its offset in a file is the saved one, since every record    *)
(* that is confirmed is saved before the next; a record whose block is not   *)
(* complete yet is none.                                                     *)

\* The checkpoint is used only for the file and the text it was made for.
Offset(f) ==
  LET c == cursor[f] IN
  IF /\ c.offset > 0 /\ c.ino = ino[f] /\ c.offset <= Len(journal[f])
     /\ journal[f][c.offset] = c.anchor
  THEN c.offset ELSE 0

Unread(f) == Offset(f) < Len(journal[f])
NextRecord(f) == journal[f][Offset(f) + 1]

\* Faulty: only the file of the day is looked at.
StartPassToday ==
  /\ rp.pc = "idle"
  /\ rp' = [pc |-> "reading", file |-> Day(now)]
  /\ UNCHANGED <<now, provisioned, server, disk, cursor, live, faults>>
StartPass ==
  /\ rp.pc = "idle"
  /\ rp' = [pc |-> "reading", file |-> 0]
  /\ UNCHANGED <<now, provisioned, server, disk, cursor, live, faults>>

NextFile ==
  /\ rp.pc = "reading" /\ ~Unread(rp.file)
  /\ rp' = IF rp.file + 1 \in Files THEN [rp EXCEPT !.file = @ + 1]
           ELSE [pc |-> "idle", file |-> 0]
  /\ UNCHANGED <<now, provisioned, server, disk, cursor, live, faults>>

\* The record is posted and the application answers 204.
Post ==
  /\ rp.pc = "reading" /\ Unread(rp.file)
  /\ Take(NextRecord(rp.file), TRUE)
  /\ rp' = [rp EXCEPT !.pc = "confirmed"]
  /\ UNCHANGED <<now, provisioned, disk, cursor, live, faults>>

Checkpoint ==
  /\ rp.pc = "confirmed"
  /\ LET n == Offset(rp.file) + 1 IN
     cursor' = [cursor EXCEPT ![rp.file] =
                  [ino |-> ino[rp.file], offset |-> n, anchor |-> journal[rp.file][n]]]
  /\ rp' = [rp EXCEPT !.pc = "reading"]
  /\ UNCHANGED <<now, provisioned, server, disk, live, faults>>

\* Faulty: a record that is refused is passed over.
PostRefusedSkipped ==
  /\ rp.pc = "reading" /\ Unread(rp.file)
  /\ Refused(NextRecord(rp.file), TRUE)
  /\ rp' = [rp EXCEPT !.pc = "confirmed"]
  /\ UNCHANGED <<now, provisioned, server, disk, cursor, live, faults>>
\* Any other answer is an exception, and ends the whole pass.
PostRefused ==
  /\ rp.pc = "reading" /\ Unread(rp.file)
  /\ Refused(NextRecord(rp.file), TRUE)
  /\ rp' = [pc |-> "idle", file |-> 0]
  /\ UNCHANGED <<now, provisioned, server, disk, cursor, live, faults>>

\* The request or its answer is lost, the process dies before the checkpoint,
\* or the pass has used up its records or its time.
PassEnds ==
  /\ rp.pc # "idle" /\ faults < MaxFaults
  /\ faults' = faults + 1
  /\ rp' = [pc |-> "idle", file |-> 0]
  /\ UNCHANGED <<now, provisioned, server, disk, cursor, live>>

-----------------------------------------------------------------------------
(* The surroundings.                                                         *)

\* A live report takes five seconds at most, which is no tick.
Tick ==
  /\ now < MaxTime /\ live = NoEntry
  /\ now' = now + 1
  /\ UNCHANGED <<provisioned, server, disk, cursor, rp, live, faults>>

\* A router is configured or rolled back.
Provision(r) ==
  /\ faults < MaxFaults /\ faults' = faults + 1
  /\ provisioned' = IF r \in provisioned THEN provisioned \ {r} ELSE provisioned \union {r}
  /\ UNCHANGED <<now, server, disk, cursor, rp, live>>

Replay == StartPass \/ NextFile \/ Post \/ Checkpoint \/ PostRefused \/ PassEnds

Next ==
  \/ \E p \in Packets, o \in Offsets : Receive(p, o)
  \/ Report \/ Replay \/ Tick
  \/ \E r \in Routers : Provision(r)

Spec == Init /\ [][Next]_vars

\* The replay thread goes on, and the application answers in the end.
ReplayFairness ==
  /\ WF_vars(StartPass) /\ WF_vars(NextFile) /\ WF_vars(Checkpoint)
  /\ WF_vars(PostRefused) /\ SF_vars(Post)

FairSpec == Spec /\ ReplayFairness

-----------------------------------------------------------------------------
(* Properties.                                                               *)

Rows == [exists : {TRUE}, user : {p.user : p \in Packets}, started : 0 .. Never,
         stopped : 0 .. Never, octets : Nat, updated : 0 .. now, replayed : BOOLEAN]
Reports == [record : Records, at : 0 .. now, replay : BOOLEAN]

TypeOK ==
  /\ now \in 0 .. MaxTime /\ provisioned \subseteq Routers /\ faults \in 0 .. MaxFaults
  /\ row \in [Sessions -> Rows \union {NoRow}] /\ merged \subseteq Reports
  /\ journal \in [Files -> Seq(Records)] /\ ino \in [Files -> 0 .. 1]
  /\ cursor \in [Files -> [ino : 0 .. 1, offset : Nat, anchor : Records \union {NoEntry}]]
  /\ rp \in [pc : {"idle", "reading", "confirmed"}, file : Files]
  /\ live \in Records \union {NoEntry} /\ owed \subseteq Records

\* A row is what its reports say, in whatever order and however often they
\* came: the first start and stop, the greatest counter, and the date of the
\* latest event, never that of its delivery (docs/network.md:165-168).
RowIsTheMerge ==
  \A s \in Sessions :
    LET facts == {m \in merged : m.record.of.session = s}
        When(kind) == {m.at : m \in {x \in facts : x.record.of.kind = kind}}
    IN IF facts = {} THEN row[s] = NoRow
       ELSE /\ row[s].started = Min(When("Start") \union {Never})
            /\ row[s].stopped = Min(When("Stop") \union {Never})
            /\ row[s].octets = Max({m.record.of.octets : m \in facts})
            /\ row[s].updated = Max({m.at : m \in facts})
            /\ row[s].updated <= Max({m.record.at : m \in facts})
            /\ row[s].replayed = (\E m \in facts : m.replay)
            /\ \A m \in facts : m.record.of.user = row[s].user

Pending(e) == \E f \in Files : \E n \in Offset(f) + 1 .. Len(journal[f]) : journal[f][n] = e

\* No record is skipped: what was journaled has been taken in or lies ahead of
\* the cursor (docs/network.md:163-165).
NothingIsLost == \A e \in owed : Pending(e) \/ \E m \in merged : m.record = e

\* The replay comes to the end of the journal, unless the record at the head of
\* a file is one the application refuses.
OnlyRefusalsWait ==
  []<>(\/ \A f \in Files : ~Unread(f)
       \/ \E f \in Files : Unread(f) /\ Refused(NextRecord(f), TRUE))
=============================================================================
