--------------------------- MODULE FiscalJobsProofs ---------------------------
(***************************************************************************)
(* Proofs about FiscalJobs for every set of documents, rows and processes, *)
(* and every relation between documents.                                   *)
(*                                                                         *)
(* First the type invariant, with the facts about rows that it needs; then *)
(* the stamping invariant: the XML of a stamp call that may have succeeded *)
(* is kept, and no second stamp call is made while one may have succeeded. *)
(*                                                                         *)
(* Then the claims and the ledger: a document has one live claim; what its *)
(* row says of the PAC and the SAT is true; and what it says of an outcome *)
(* is known and stays.                                                     *)
(*                                                                         *)
(* Last the refinement: FiscalJobs implements CfdiRegister.  The PAC       *)
(* stamps only a call it has not stamped, and all its stamps are           *)
(* unanswered or answered calls of the XML the document has: so there is   *)
(* one of each document.  A signed document was signed after those it      *)
(* depends on had their CFDI, and those keep it.                           *)
(***************************************************************************)
EXTENDS FiscalJobs, FiniteSetTheorems, TLAPS

\* A claimed row exists, a queued one can still be claimed, and the verdict of
\* a process is one its step can write.
RowsInv ==
  /\ \A j \in Jobs : job[j].status # "absent" => job[j].doc \in Docs
  /\ \A j \in Jobs : job[j].status = "queued" => job[j].attempts < MaxAttempts
  /\ \A w \in Workers : wk[w].pc # "idle" =>
        wk[w].job \in Jobs /\ job[wk[w].job].status # "absent"
  /\ \A w \in Workers : wk[w].pc = "fail" => wk[w].verdict \in {"error", "uncertain"}
  /\ \A w \in Workers : wk[w].pc = "finish" => wk[w].verdict \in Finished

-----------------------------------------------------------------------------
(* Type correctness.                                                       *)

\* The initial tables are typed.
LEMMA TypeInit == Init => TypeOK /\ RowsInv
<1> SUFFICES ASSUME Init PROVE TypeOK /\ RowsInv
  OBVIOUS
<1>1. doc \in [Docs -> DocRow]
  BY DEF Init, DocRow, DocStatuses
<1>2. job \in [Jobs -> JobRow]
  BY ConstantsAssumption DEF Init, JobRow, JobStatuses, Active, Finished, Operations
<1>3. wk \in [Workers -> Process]
  BY ConstantsAssumption DEF Init, Idle, Process, Steps, Operations, Verdicts
<1> QED
  BY <1>1, <1>2, <1>3 DEF Init, TypeOK, RowsInv, Idle

\* A process that moves to a step stays typed.
LEMMA GotoType ==
  ASSUME wk \in [Workers -> Process], NEW w \in Workers, NEW s \in Steps, Goto(w, s)
  PROVE  wk' \in [Workers -> Process]
BY DEF Process, Goto

\* So does one that moves with a verdict.
LEMMA ConcludeType ==
  ASSUME wk \in [Workers -> Process], NEW w \in Workers, NEW s \in Steps,
         NEW v \in Verdicts, Conclude(w, s, v)
  PROVE  wk' \in [Workers -> Process]
BY DEF Process, Conclude

\* So does one that loads an XML.
LEMMA LoadType ==
  ASSUME wk \in [Workers -> Process], NEW w \in Workers, NEW s \in Steps, NEW x \in Nat,
         wk' = [wk EXCEPT ![w].pc = s, ![w].xml = x]
  PROVE  wk' \in [Workers -> Process]
BY DEF Process

\* So does one that starts over.
LEMMA IdleType ==
  ASSUME wk \in [Workers -> Process], NEW w \in Workers, wk' = [wk EXCEPT ![w] = Idle]
  PROVE  wk' \in [Workers -> Process]
<1>1. Idle \in Process
  BY ConstantsAssumption DEF Idle, Process, Steps, Operations, Verdicts
<1> QED
  BY <1>1

\* A row is the record of its columns.
LEMMA RowFields ==
  ASSUME job \in [Jobs -> JobRow], NEW j \in Jobs
  PROVE  job[j] = [status |-> job[j].status, op |-> job[j].op, doc |-> job[j].doc,
                   attempts |-> job[j].attempts, token |-> job[j].token,
                   lease |-> job[j].lease]
BY DEF JobRow

\* A row whose claim changes hands stays typed; the other rows do not change.
LEMMA ClaimRowType ==
  ASSUME job \in [Jobs -> JobRow], NEW j \in Jobs, NEW s \in JobStatuses,
         NEW op \in Operations, NEW n \in 0..MaxAttempts, NEW t \in 0..MaxAttempts,
         NEW l \in {"none", "live", "expired"},
         job' = [job EXCEPT ![j] = [status |-> s, op |-> op, doc |-> job[j].doc,
                                    attempts |-> n, token |-> t, lease |-> l]]
  PROVE  /\ job' \in [Jobs -> JobRow]
         /\ \A k \in Jobs : k # j => job'[k] = job[k]
         /\ job'[j].status = s /\ job'[j].attempts = n /\ job'[j].doc = job[j].doc
<1>1. job[j] \in JobRow
  OBVIOUS
<1>2. [status |-> s, op |-> op, doc |-> job[j].doc, attempts |-> n, token |-> t,
       lease |-> l] \in JobRow
  BY <1>1 DEF JobRow
<1> QED
  BY <1>2

\* A new row leaves the others alone and is itself well formed.
LEMMA EnqueueType ==
  ASSUME TypeOK, RowsInv, NEW op \in Operations, NEW d \in Docs, NEW row,
         Enqueue(op, d, row)
  PROVE  /\ job' \in [Jobs -> JobRow]
         /\ \A j \in Jobs : job[j].status # "absent" => job'[j] = job[j]
         /\ \A j \in Jobs : job'[j].status # "absent" => job'[j].doc \in Docs
         /\ \A j \in Jobs : job'[j].status = "queued" => job'[j].attempts < MaxAttempts
<1>1. PICK j \in Jobs : /\ job[j].status = "absent"
                       /\ job' = [job EXCEPT ![j] = NewRow(op, d)]
  BY DEF Enqueue
<1>2. NewRow(op, d) \in JobRow
  BY ConstantsAssumption DEF NewRow, JobRow, JobStatuses, Active
<1>3. job' \in [Jobs -> JobRow]
  BY <1>1, <1>2 DEF TypeOK
<1>4. \A k \in Jobs : k # j => job'[k] = job[k]
  BY <1>1 DEF TypeOK
<1>5. job'[j] = NewRow(op, d)
  BY <1>1 DEF TypeOK
<1>6. NewRow(op, d).doc = d /\ NewRow(op, d).attempts = 0
  BY DEF NewRow
<1> QED
  BY <1>1, <1>3, <1>4, <1>5, <1>6, ConstantsAssumption DEF RowsInv

\* A step that touches neither a row nor a process.
LEMMA ElsewhereType ==
  ASSUME TypeOK, RowsInv, UNCHANGED <<job, wk>>
  PROVE  RowsInv'
BY DEF RowsInv

\* Requests of the staff and of the dispatcher: the ledger grows.
LEMMA RequestType ==
  ASSUME TypeOK, RowsInv, NEW d \in Docs,
         \/ RequestStamp(d) \/ RequestPdf(d) \/ BackfillPdf(d)
         \/ \E op \in Operations : RequestOther(op, d)
  PROVE  TypeOK' /\ RowsInv'
<1>1. PICK op \in Operations, row \in {doc[d], Prepared(d)} : Enqueue(op, d, row)
  BY DEF RequestStamp, RequestPdf, BackfillPdf, RequestOther, Operations
<1>2. UNCHANGED <<wk, pacVars, satVars>>
  BY DEF RequestStamp, RequestPdf, BackfillPdf, RequestOther
<1>3. doc' \in [Docs -> DocRow]
  <2>1. CASE RequestStamp(d)
    <3>1. [doc[d] EXCEPT !.requestXml = 0, !.status = "draft"] \in DocRow
      <4>1. doc[d] \in DocRow
        BY DEF TypeOK
      <4> QED
        BY <4>1 DEF DocRow, DocStatuses
    <3>2. Prepared(d) \in DocRow
      BY <3>1 DEF Prepared, TypeOK
    <3> QED
      BY <2>1, <3>2 DEF RequestStamp, TypeOK
  <2>2. CASE UNCHANGED doc
    BY <2>2 DEF TypeOK
  <2> QED
    BY <2>1, <2>2 DEF RequestPdf, BackfillPdf, RequestOther
<1>4. /\ job' \in [Jobs -> JobRow]
      /\ \A j \in Jobs : job[j].status # "absent" => job'[j] = job[j]
      /\ \A j \in Jobs : job'[j].status # "absent" => job'[j].doc \in Docs
      /\ \A j \in Jobs : job'[j].status = "queued" => job'[j].attempts < MaxAttempts
  BY <1>1, EnqueueType
<1> QED
  BY <1>2, <1>3, <1>4 DEF TypeOK, RowsInv, pacVars, satVars

\* The steps of one process other than the end of run_job.
LEMMA OperationType ==
  ASSUME TypeOK, RowsInv, NEW w \in Workers,
         \/ Abort(w) \/ StampStep(w) \/ CancelStep(w) \/ Render(w) \/ PdfSave(w)
         \/ ReadOutcome(w) \/ Crash(w)
         \/ PacStamps(w) \/ PacRejects(w) \/ PacForwardsCancel(w) \/ PacRejectsCancel(w)
  PROVE  TypeOK' /\ RowsInv'
<1> USE DEF TypeOK
<1>1. CASE Abort(w)
  <2>1. wk' \in [Workers -> Process]
    BY <1>1, GotoType DEF Abort, Steps
  <2>2. doc' \in [Docs -> DocRow]
    BY <1>1 DEF Abort
  <2>3. RowsInv'
    BY <1>1 DEF Abort, Goto, Conclude, RowsInv, Process, Finished, Idle, FencedSteps, Steps
  <2> QED
    BY <1>1, <2>1, <2>2, <2>3 DEF Abort, pacVars, satVars
<1>2. CASE Sign(w)
  <2>1. wk' \in [Workers -> Process]
    BY <1>2, GotoType DEF Sign, Steps
  <2>2. doc' \in [Docs -> DocRow]
    BY <1>2 DEF Sign, DocRow, DocStatuses, Process, RowsInv, Target
  <2>3. RowsInv'
    BY <1>2 DEF Sign, Goto, Conclude, RowsInv, Process, Finished, Idle, FencedSteps, Steps
  <2> QED
    BY <1>2, <2>1, <2>2, <2>3 DEF Sign, pacVars, satVars
<1>3. CASE AlreadyStamped(w)
  <2>1. wk' \in [Workers -> Process]
    BY <1>3, ConcludeType DEF AlreadyStamped, Steps, Verdicts, Finished
  <2>2. doc' \in [Docs -> DocRow]
    BY <1>3 DEF AlreadyStamped
  <2>3. RowsInv'
    BY <1>3 DEF AlreadyStamped, Goto, Conclude, RowsInv, Process, Finished, Idle, FencedSteps, Steps
  <2> QED
    BY <1>3, <2>1, <2>2, <2>3 DEF AlreadyStamped, pacVars, satVars
<1>4. CASE StampBegin(w)
  <2>0. doc[Target(w)].requestXml \in Nat
    BY <1>4 DEF StampBegin, RowsInv, Target, DocRow
  <2>1. wk' \in [Workers -> Process]
    BY <1>4, <2>0, LoadType DEF StampBegin, Steps
  <2>2. doc' \in [Docs -> DocRow]
    BY <1>4 DEF StampBegin, DocRow, DocStatuses, Process, RowsInv, Target
  <2>3. RowsInv'
    BY <1>4 DEF StampBegin, Goto, Conclude, RowsInv, Process, Finished, Idle, FencedSteps, Steps
  <2> QED
    BY <1>4, <2>1, <2>2, <2>3 DEF StampBegin, pacVars, satVars
<1>5. CASE SendStamp(w)
  <2>1. wk' \in [Workers -> Process]
    BY <1>5, GotoType DEF SendStamp, Steps
  <2>2. doc' \in [Docs -> DocRow]
    BY <1>5 DEF SendStamp
  <2>3. RowsInv'
    BY <1>5 DEF SendStamp, Goto, Conclude, RowsInv, Process, Finished, Idle, FencedSteps, Steps
  <2>4. <<Target(w), wk[w].xml>> \in Docs \X Nat
    BY <1>5 DEF SendStamp, Target, RowsInv, Process
  <2> QED
    BY <1>5, <2>1, <2>2, <2>3, <2>4 DEF SendStamp, pacVars, satVars
<1>6. CASE QueryStamped(w)
  <2>1. wk' \in [Workers -> Process]
    BY <1>6, GotoType DEF QueryStamped, Steps
  <2>2. doc' \in [Docs -> DocRow]
    BY <1>6 DEF QueryStamped
  <2>3. RowsInv'
    BY <1>6 DEF QueryStamped, Goto, Conclude, RowsInv, Process, Finished, Idle, FencedSteps, Steps
  <2> QED
    BY <1>6, <2>1, <2>2, <2>3 DEF QueryStamped, pacVars, satVars
<1>7. CASE StampUnclear(w)
  <2>1. wk' \in [Workers -> Process]
    BY <1>7, ConcludeType DEF StampUnclear, Steps, Verdicts, Finished
  <2>2. doc' \in [Docs -> DocRow]
    BY <1>7 DEF StampUnclear
  <2>3. RowsInv'
    BY <1>7 DEF StampUnclear, Goto, Conclude, RowsInv, Process, Finished, Idle, FencedSteps, Steps
  <2> QED
    BY <1>7, <2>1, <2>2, <2>3 DEF StampUnclear, pacVars, satVars
<1>8. CASE StampSave(w)
  <2>1. wk' \in [Workers -> Process]
    BY <1>8, ConcludeType DEF StampSave, Steps, Verdicts, Finished
  <2>2. doc' \in [Docs -> DocRow]
    BY <1>8 DEF StampSave, DocRow, DocStatuses, Process, RowsInv, Target
  <2>3. RowsInv'
    BY <1>8 DEF StampSave, Goto, Conclude, RowsInv, Process, Finished, Idle, FencedSteps, Steps
  <2> QED
    BY <1>8, <2>1, <2>2, <2>3 DEF StampSave, pacVars, satVars
<1>9. CASE StampFail(w)
  <2>1. wk' \in [Workers -> Process]
    BY <1>9, GotoType DEF StampFail, Steps
  <2>2. doc' \in [Docs -> DocRow]
    BY <1>9 DEF StampFail, DocRow, DocStatuses, Process, RowsInv, Target
  <2>3. RowsInv'
    BY <1>9 DEF StampFail, Goto, Conclude, RowsInv, Process, Finished, Idle, FencedSteps, Steps
  <2> QED
    BY <1>9, <2>1, <2>2, <2>3 DEF StampFail, pacVars, satVars
<1>10. CASE AlreadyAsked(w)
  <2>1. wk' \in [Workers -> Process]
    BY <1>10, ConcludeType DEF AlreadyAsked, Steps, Verdicts, Finished
  <2>2. doc' \in [Docs -> DocRow]
    BY <1>10 DEF AlreadyAsked
  <2>3. RowsInv'
    BY <1>10 DEF AlreadyAsked, Goto, Conclude, RowsInv, Process, Finished, Idle, FencedSteps, Steps
  <2> QED
    BY <1>10, <2>1, <2>2, <2>3 DEF AlreadyAsked, pacVars, satVars
<1>11. CASE CancelBegin(w)
  <2>1. wk' \in [Workers -> Process]
    BY <1>11, GotoType DEF CancelBegin, Steps
  <2>2. doc' \in [Docs -> DocRow]
    BY <1>11 DEF CancelBegin, DocRow, DocStatuses, Process, RowsInv, Target
  <2>3. RowsInv'
    BY <1>11 DEF CancelBegin, Goto, Conclude, RowsInv, Process, Finished, Idle, FencedSteps, Steps
  <2> QED
    BY <1>11, <2>1, <2>2, <2>3 DEF CancelBegin, pacVars, satVars
<1>12. CASE SendCancel(w)
  <2>1. wk' \in [Workers -> Process]
    BY <1>12, GotoType DEF SendCancel, Steps
  <2>2. doc' \in [Docs -> DocRow]
    BY <1>12 DEF SendCancel
  <2>3. RowsInv'
    BY <1>12 DEF SendCancel, Goto, Conclude, RowsInv, Process, Finished, Idle, FencedSteps, Steps
  <2>4. <<Target(w), wk[w].xml>> \in Docs \X Nat
    BY <1>12 DEF SendCancel, Target, RowsInv, Process
  <2> QED
    BY <1>12, <2>1, <2>2, <2>3, <2>4 DEF SendCancel, pacVars, satVars
<1>13. CASE CancelUnclear(w)
  <2>1. wk' \in [Workers -> Process]
    BY <1>13, ConcludeType DEF CancelUnclear, Steps, Verdicts, Finished
  <2>2. doc' \in [Docs -> DocRow]
    BY <1>13 DEF CancelUnclear
  <2>3. RowsInv'
    BY <1>13 DEF CancelUnclear, Goto, Conclude, RowsInv, Process, Finished, Idle, FencedSteps, Steps
  <2> QED
    BY <1>13, <2>1, <2>2, <2>3 DEF CancelUnclear, pacVars, satVars
<1>14. CASE CancelSave(w)
  <2>1. wk' \in [Workers -> Process]
    BY <1>14, ConcludeType DEF CancelSave, Steps, Verdicts, Finished
  <2>2. doc' \in [Docs -> DocRow]
    BY <1>14 DEF CancelSave
  <2>3. RowsInv'
    BY <1>14 DEF CancelSave, Goto, Conclude, RowsInv, Process, Finished, Idle, FencedSteps, Steps
  <2> QED
    BY <1>14, <2>1, <2>2, <2>3 DEF CancelSave, pacVars, satVars
<1>15. CASE CancelFail(w)
  <2>1. wk' \in [Workers -> Process]
    BY <1>15, GotoType DEF CancelFail, Steps
  <2>2. doc' \in [Docs -> DocRow]
    BY <1>15 DEF CancelFail, DocRow, DocStatuses, Process, RowsInv, Target
  <2>3. RowsInv'
    BY <1>15 DEF CancelFail, Goto, Conclude, RowsInv, Process, Finished, Idle, FencedSteps, Steps
  <2> QED
    BY <1>15, <2>1, <2>2, <2>3 DEF CancelFail, pacVars, satVars
<1>16. CASE QuerySat(w)
  <2>1. wk' \in [Workers -> Process]
    BY <1>16, GotoType, ConcludeType DEF QuerySat, Steps, Verdicts, Finished
  <2>2. doc' \in [Docs -> DocRow]
    BY <1>16 DEF QuerySat
  <2>3. RowsInv'
    BY <1>16 DEF QuerySat, Goto, Conclude, RowsInv, Process, Finished, Idle, FencedSteps, Steps
  <2> QED
    BY <1>16, <2>1, <2>2, <2>3 DEF QuerySat, pacVars, satVars
<1>17. CASE RefreshSave(w)
  <2>1. wk' \in [Workers -> Process]
    BY <1>17, ConcludeType DEF RefreshSave, Steps, Verdicts, Finished
  <2>2. doc' \in [Docs -> DocRow]
    BY <1>17 DEF RefreshSave, DocRow, DocStatuses, Process, RowsInv, Target
  <2>3. RowsInv'
    BY <1>17 DEF RefreshSave, Goto, Conclude, RowsInv, Process, Finished, Idle, FencedSteps, Steps
  <2> QED
    BY <1>17, <2>1, <2>2, <2>3 DEF RefreshSave, pacVars, satVars
<1>18. CASE Render(w)
  <2>0. doc[Target(w)].xml \in Nat
    BY <1>18 DEF Render, RowsInv, Target, DocRow
  <2>1. wk' \in [Workers -> Process]
    BY <1>18, <2>0, ConcludeType, LoadType DEF Render, Steps, Verdicts, Finished
  <2>2. doc' \in [Docs -> DocRow]
    BY <1>18 DEF Render
  <2>3. RowsInv'
    BY <1>18 DEF Render, Goto, Conclude, RowsInv, Process, Finished, Idle, FencedSteps, Steps
  <2> QED
    BY <1>18, <2>1, <2>2, <2>3 DEF Render, pacVars, satVars
<1>19. CASE PdfSave(w)
  <2>1. wk' \in [Workers -> Process]
    BY <1>19, ConcludeType DEF PdfSave, Steps, Verdicts, Finished
  <2>2. doc' \in [Docs -> DocRow]
    BY <1>19 DEF PdfSave, DocRow, DocStatuses, Process, RowsInv, Target
  <2>3. RowsInv'
    BY <1>19 DEF PdfSave, Goto, Conclude, RowsInv, Process, Finished, Idle, FencedSteps, Steps
  <2> QED
    BY <1>19, <2>1, <2>2, <2>3 DEF PdfSave, pacVars, satVars
<1>20. CASE ReadOutcome(w)
  <2>1. wk' \in [Workers -> Process]
    BY <1>20, ConcludeType DEF ReadOutcome, Steps, Verdicts, Finished
  <2>2. doc' \in [Docs -> DocRow]
    BY <1>20 DEF ReadOutcome
  <2>3. RowsInv'
    BY <1>20 DEF ReadOutcome, Goto, Conclude, RowsInv, Process, Finished, Idle, FencedSteps, Steps
  <2> QED
    BY <1>20, <2>1, <2>2, <2>3 DEF ReadOutcome, pacVars, satVars
<1>21. CASE Crash(w)
  <2>1. wk' \in [Workers -> Process]
    BY <1>21, IdleType DEF Crash
  <2>2. doc' \in [Docs -> DocRow]
    BY <1>21 DEF Crash
  <2>3. RowsInv'
    BY <1>21 DEF Crash, Goto, Conclude, RowsInv, Process, Finished, Idle, FencedSteps, Steps
  <2> QED
    BY <1>21, <2>1, <2>2, <2>3 DEF Crash, pacVars, satVars
<1>22. CASE PacStamps(w)
  <2>1. wk' \in [Workers -> Process]
    BY <1>22, GotoType DEF PacStamps, Steps
  <2>2. doc' \in [Docs -> DocRow]
    BY <1>22 DEF PacStamps
  <2>3. RowsInv'
    BY <1>22 DEF PacStamps, Goto, Conclude, RowsInv, Process, Finished, Idle, FencedSteps, Steps
  <2>4. <<Target(w), wk[w].xml>> \in Docs \X Nat
    BY <1>22 DEF PacStamps, Target, RowsInv, Process
  <2> QED
    BY <1>22, <2>1, <2>2, <2>3, <2>4 DEF PacStamps, pacVars, satVars
<1>23. CASE PacRejects(w)
  <2>1. wk' \in [Workers -> Process]
    BY <1>23, ConcludeType DEF PacRejects, Steps, Verdicts, Finished
  <2>2. doc' \in [Docs -> DocRow]
    BY <1>23 DEF PacRejects
  <2>3. RowsInv'
    BY <1>23 DEF PacRejects, Goto, Conclude, RowsInv, Process, Finished, Idle, FencedSteps, Steps
  <2>4. <<Target(w), wk[w].xml>> \in Docs \X Nat
    BY <1>23 DEF PacRejects, Target, RowsInv, Process
  <2> QED
    BY <1>23, <2>1, <2>2, <2>3, <2>4 DEF PacRejects, pacVars, satVars
<1>24. CASE PacForwardsCancel(w)
  <2>1. wk' \in [Workers -> Process]
    BY <1>24, GotoType DEF PacForwardsCancel, Steps
  <2>2. doc' \in [Docs -> DocRow]
    BY <1>24 DEF PacForwardsCancel
  <2>3. RowsInv'
    BY <1>24 DEF PacForwardsCancel, Goto, Conclude, RowsInv, Process, Finished, Idle, FencedSteps, Steps
  <2>4. <<Target(w), wk[w].xml>> \in Docs \X Nat
    BY <1>24 DEF PacForwardsCancel, Target, RowsInv, Process
  <2> QED
    BY <1>24, <2>1, <2>2, <2>3, <2>4 DEF PacForwardsCancel, pacVars, satVars
<1>25. CASE PacRejectsCancel(w)
  <2>1. wk' \in [Workers -> Process]
    BY <1>25, ConcludeType DEF PacRejectsCancel, Steps, Verdicts, Finished
  <2>2. doc' \in [Docs -> DocRow]
    BY <1>25 DEF PacRejectsCancel
  <2>3. RowsInv'
    BY <1>25 DEF PacRejectsCancel, Goto, Conclude, RowsInv, Process, Finished, Idle, FencedSteps, Steps
  <2>4. <<Target(w), wk[w].xml>> \in Docs \X Nat
    BY <1>25 DEF PacRejectsCancel, Target, RowsInv, Process
  <2> QED
    BY <1>25, <2>1, <2>2, <2>3, <2>4 DEF PacRejectsCancel, pacVars, satVars
<1> QED
  BY <1>1, <1>2, <1>3, <1>4, <1>5, <1>6, <1>7, <1>8, <1>9, <1>10, <1>11, <1>12, <1>13, <1>14, <1>15, <1>16, <1>17, <1>18, <1>19, <1>20, <1>21, <1>22, <1>23, <1>24, <1>25 DEF StampStep, CancelStep

\* Claims, leases, recovery and the end of run_job.
LEMMA LedgerType ==
  ASSUME TypeOK, RowsInv,
         \/ \E w \in Workers, j \in Jobs : Claim(w, j)
         \/ \E w \in Workers : Finish(w) \/ ChainPdf(w)
         \/ \E j \in Jobs : LeaseExpires(j) \/ Recover(j)
  PROVE  TypeOK' /\ RowsInv'
<1>1. ASSUME NEW w \in Workers, NEW j \in Jobs, Claim(w, j)
      PROVE  TypeOK' /\ RowsInv'
  <2>1. job[j].attempts + 1 \in 0..MaxAttempts
    <3>1. job[j].attempts \in 0..MaxAttempts
      BY DEF TypeOK, JobRow
    <3>2. job[j].attempts < MaxAttempts
      BY <1>1 DEF Claim, RowsInv
    <3> QED
      BY <3>1, <3>2, ConstantsAssumption
  <2>2. job' = [job EXCEPT ![j] =
                 [status |-> "running", op |-> job[j].op, doc |-> job[j].doc,
                  attempts |-> job[j].attempts + 1, token |-> job[j].attempts + 1,
                  lease |-> "live"]]
    <3>1. job \in [Jobs -> JobRow]
      BY DEF TypeOK
    <3>2. job' = [job EXCEPT ![j].status = "running", ![j].attempts = job[j].attempts + 1,
                           ![j].token = job[j].attempts + 1, ![j].lease = "live"]
      BY <1>1 DEF Claim
    <3> QED
      BY <3>1, <3>2, RowFields DEF JobRow
  <2>3. /\ job' \in [Jobs -> JobRow]
        /\ \A k \in Jobs : k # j => job'[k] = job[k]
        /\ job'[j].status = "running" /\ job'[j].doc = job[j].doc
    <3>1. job[j].op \in Operations
      BY DEF TypeOK, JobRow
    <3> QED
      BY <2>1, <2>2, <3>1, ClaimRowType DEF TypeOK, JobStatuses, Active
  <2>4. job[j].op \in Operations
    BY DEF TypeOK, JobRow
  <2>5. FirstStep(job[j].op) \in {"sign", "begin", "cancelBegin", "refresh", "render"}
    BY <2>4 DEF FirstStep, Operations
  <2>6. wk' \in [Workers -> Process]
    <3>1. [pc |-> FirstStep(job[j].op), job |-> j, token |-> job[j].attempts + 1,
           op |-> job[j].op, xml |-> 0, verdict |-> "none"] \in Process
      BY <2>1, <2>4, <2>5 DEF Process, Steps, Verdicts
    <3> QED
      BY <1>1, <3>1 DEF Claim, TypeOK
  <2>7. RowsInv'
    <3>1. \A k \in Jobs : job[k].status # "absent" => job'[k].status # "absent"
      BY <2>3
    <3>2. /\ wk'[w].job = j /\ wk'[w].pc \notin {"fail", "finish"}
          /\ \A v \in Workers : v # w => wk'[v] = wk[v]
      BY <1>1, <2>5 DEF Claim, TypeOK
    <3>3. job[j].doc \in Docs
      BY <1>1 DEF Claim, RowsInv
    <3> QED
      BY <2>3, <3>1, <3>2, <3>3 DEF RowsInv
  <2> QED
    BY <1>1, <2>3, <2>6, <2>7 DEF Claim, TypeOK, pacVars, satVars
<1>2. ASSUME NEW w \in Workers, Finish(w)
      PROVE  TypeOK' /\ RowsInv'
  <2>1. wk[w].job \in Jobs /\ job[wk[w].job].status # "absent" /\ wk[w].verdict \in Finished
    BY <1>2 DEF Finish, RowsInv
  <2>2. job' \in [Jobs -> JobRow]
    BY <1>2, <2>1 DEF Finish, TypeOK, JobRow, JobStatuses, Finished
  <2>3. wk' \in [Workers -> Process]
    BY <1>2, GotoType, IdleType DEF Finish, TypeOK, Steps
  <2>4. RowsInv'
    <3>1. \A k \in Jobs : /\ job'[k].doc = job[k].doc
                          /\ job'[k].attempts = job[k].attempts
                          /\ job'[k].status = job[k].status \/ job'[k].status \in Finished
      BY <1>2, <2>1 DEF Finish, TypeOK, JobRow
    <3>2. \A v \in Workers : v # w => wk'[v] = wk[v]
      BY <1>2 DEF Finish, Goto, TypeOK
    <3>3. wk'[w].pc \in {"idle", "chain"} /\ (wk'[w].pc = "chain" => wk'[w].job = wk[w].job)
      BY <1>2 DEF Finish, Goto, TypeOK, Process, Idle
    <3>4. \A k \in Jobs : job[k].status # "absent" => job'[k].status # "absent"
      BY <3>1 DEF Finished
    <3>5. \A k \in Jobs : job'[k].status = "queued" => job[k].status = "queued"
      BY <3>1 DEF Finished
    <3>6. \A k \in Jobs : job'[k].status # "absent" => job[k].status # "absent"
      BY <1>2, <2>1 DEF Finish, TypeOK, JobRow
    <3> QED
      BY <2>1, <3>1, <3>2, <3>3, <3>4, <3>5, <3>6 DEF RowsInv
  <2> QED
    BY <1>2, <2>2, <2>3, <2>4 DEF Finish, TypeOK, pacVars, satVars
<1>3. ASSUME NEW w \in Workers, ChainPdf(w)
      PROVE  TypeOK' /\ RowsInv'
  <2>1. wk[w].job \in Jobs /\ Target(w) \in Docs
    BY <1>3 DEF ChainPdf, RowsInv, Target
  <2>2. wk' \in [Workers -> Process]
    BY <1>3, IdleType DEF ChainPdf, TypeOK
  <2>3. CASE UNCHANGED job
    BY <1>3, <2>2, <2>3 DEF ChainPdf, RowsInv, TypeOK, Process, Idle, pacVars, satVars
  <2>4. CASE Enqueue("pdf", Target(w), doc[Target(w)])
    <3>1. /\ job' \in [Jobs -> JobRow]
          /\ \A j \in Jobs : job[j].status # "absent" => job'[j] = job[j]
          /\ \A j \in Jobs : job'[j].status # "absent" => job'[j].doc \in Docs
          /\ \A j \in Jobs : job'[j].status = "queued" => job'[j].attempts < MaxAttempts
      BY <2>1, <2>4, EnqueueType DEF Operations
    <3> QED
      BY <1>3, <2>2, <3>1 DEF ChainPdf, RowsInv, TypeOK, Process, Idle, pacVars, satVars
  <2> QED
    BY <1>3, <2>3, <2>4 DEF ChainPdf
<1>4. ASSUME NEW j \in Jobs, LeaseExpires(j)
      PROVE  TypeOK' /\ RowsInv'
  <2>1. job' \in [Jobs -> JobRow]
    BY <1>4 DEF LeaseExpires, TypeOK, JobRow
  <2> QED
    BY <1>4, <2>1 DEF LeaseExpires, RowsInv, TypeOK, JobRow, pacVars, satVars
<1>5. ASSUME NEW j \in Jobs, Recover(j)
      PROVE  TypeOK' /\ RowsInv'
  <2>1. job[j].doc \in Docs
    BY <1>5 DEF Recover, RowsInv
  <2>2. doc' \in [Docs -> DocRow]
    <3>1. CASE UNCHANGED doc
      BY <3>1 DEF TypeOK
    <3>2. CASE doc' = [doc EXCEPT ![job[j].doc].status = "uncertain"]
      BY <2>1, <3>2 DEF TypeOK, DocRow, DocStatuses
    <3> QED
      BY <1>5, <3>1, <3>2 DEF Recover
  <2>3. ContinuedAs(j) \in Operations
    <3>1. job[j].op \in Operations
      BY DEF TypeOK, JobRow
    <3> QED
      BY <3>1 DEF ContinuedAs, Operations
  <2>4. PICK op \in Operations, s \in {"queued", "review"} :
          /\ s = "queued" => job[j].attempts < MaxAttempts
          /\ job' = [job EXCEPT ![j] = [status |-> s, op |-> op, doc |-> job[j].doc,
                      attempts |-> job[j].attempts, token |-> 0, lease |-> "none"]]
    <3>1. CASE job[j].attempts < MaxAttempts
      BY <1>5, <2>3, <3>1 DEF Recover
    <3>2. CASE ~(job[j].attempts < MaxAttempts)
      BY <1>5, <2>3, <3>2 DEF Recover
    <3> QED
      BY <3>1, <3>2
  <2>5. /\ job' \in [Jobs -> JobRow]
        /\ \A k \in Jobs : k # j => job'[k] = job[k]
        /\ job'[j].status = s /\ job'[j].doc = job[j].doc
        /\ job'[j].attempts = job[j].attempts
    <3>1. job[j].attempts \in 0..MaxAttempts /\ 0 \in 0..MaxAttempts
      BY ConstantsAssumption DEF TypeOK, JobRow
    <3> QED
      BY <2>4, <3>1, ClaimRowType DEF TypeOK, JobStatuses, Active, Finished
  <2>6. RowsInv'
    <3>1. \A k \in Jobs : job[k].status # "absent" => job'[k].status # "absent"
      BY <2>5
    <3> QED
      BY <1>5, <2>1, <2>4, <2>5, <3>1 DEF Recover, RowsInv
  <2> QED
    BY <1>5, <2>2, <2>5, <2>6 DEF Recover, TypeOK, pacVars, satVars
<1> QED
  BY <1>1, <1>2, <1>3, <1>4, <1>5

\* Every step keeps the tables typed.
LEMMA TypeNext ==
  ASSUME TypeOK, RowsInv, [Next]_vars
  PROVE  TypeOK' /\ RowsInv'
<1>1. ASSUME NEW call \in inbox, PacStampsUnheard(call)
      PROVE  TypeOK' /\ RowsInv'
  BY <1>1, ElsewhereType DEF PacStampsUnheard, TypeOK, satVars
<1>2. ASSUME NEW d \in Docs, PacForwardsUnheard(d) \/ SatAnnuls(d)
      PROVE  TypeOK' /\ RowsInv'
  BY <1>2, ElsewhereType DEF PacForwardsUnheard, SatAnnuls, TypeOK, pacVars
<1>3. CASE UNCHANGED vars
  BY <1>3, ElsewhereType DEF vars, TypeOK, pacVars, satVars
<1> QED
  BY <1>1, <1>2, <1>3, RequestType, OperationType, LedgerType
     DEF Next, Staff, External, WorkerStep

\* No step ever leaves the tables, the processes or the remote sets outside
\* their types: rows are claimed at most MaxAttempts times.
THEOREM TypeCorrect == Spec => []TypeOK
<1>1. Init => TypeOK /\ RowsInv
  BY TypeInit
<1>2. TypeOK /\ RowsInv /\ [Next]_vars => (TypeOK /\ RowsInv)'
  BY TypeNext
<1> QED
  BY <1>1, <1>2, PTL DEF Spec

-----------------------------------------------------------------------------
(* The stamping invariant.                                                 *)

\* Processes on the way to a stamp call are a subset of those before the step.
Carried ==
  \A w \in Workers : Stamping(w)' =>
    /\ Stamping(w) /\ wk'[w].xml = wk[w].xml /\ Target(w)' = Target(w)
    /\ wk'[w].pc # "await" => wk[w].pc # "await"

\* The XML of a document is kept and its status does not fall back.
Kept(d) == /\ doc'[d].requestXml = doc[d].requestXml
           /\ doc'[d].status \in {"draft", "error"} => doc[d].status \in {"draft", "error"}

\* No stamp call for the document is open or about to be made.
Unexposed(d) == /\ \A call \in exposed : call[1] # d
                /\ \A w \in Workers : Stamping(w)' => Target(w) # d

\* A step that only ends calls, and touches only documents without one,
\* preserves the invariant.
LEMMA StampFrame ==
  ASSUME TypeOK, RowsInv, StampInv, Carried,
         exposed' \subseteq exposed, inbox' \subseteq exposed',
         \A d \in Docs : Kept(d) \/ Unexposed(d)
  PROVE  StampInv'
<1>1. ASSUME NEW call \in exposed'
      PROVE  /\ doc'[call[1]].requestXml = call[2] /\ call[2] # 0
             /\ doc'[call[1]].status \notin {"draft", "error"}
  <2>1. call \in exposed /\ call[1] \in Docs
    BY <1>1 DEF TypeOK
  <2>2. /\ doc[call[1]].requestXml = call[2] /\ call[2] # 0
        /\ doc[call[1]].status \notin {"draft", "error"}
    BY <2>1 DEF StampInv
  <2> QED
    BY <2>1, <2>2 DEF Kept, Unexposed
<1>2. ASSUME NEW w \in Workers, Stamping(w)'
      PROVE  /\ wk'[w].xml # 0 /\ doc'[Target(w)'].requestXml = wk'[w].xml
             /\ doc'[Target(w)'].status \notin {"draft", "error"}
             /\ wk'[w].pc # "await" => \A call \in exposed' : call[1] # Target(w)'
  <2>1. /\ Stamping(w) /\ wk'[w].xml = wk[w].xml /\ Target(w)' = Target(w)
        /\ wk'[w].pc # "await" => wk[w].pc # "await"
    BY <1>2 DEF Carried
  <2>2. Target(w) \in Docs
    BY <2>1 DEF Stamping, RowsInv, Target
  <2>3. /\ wk[w].xml # 0 /\ doc[Target(w)].requestXml = wk[w].xml
        /\ doc[Target(w)].status \notin {"draft", "error"}
        /\ wk[w].pc # "await" => \A call \in exposed : call[1] # Target(w)
    BY <2>1 DEF StampInv
  <2>4. Kept(Target(w))
    BY <1>2, <2>2 DEF Unexposed
  <2> QED
    BY <2>1, <2>3, <2>4 DEF Kept
<1>3. ASSUME NEW v \in Workers, NEW w \in Workers, Stamping(v)', Stamping(w)',
             Target(v)' = Target(w)'
      PROVE  v = w
  BY <1>3 DEF Carried, StampInv
<1> QED
  BY <1>1, <1>2, <1>3 DEF StampInv

\* Writing the status of one document.
LEMMA StatusWrite ==
  ASSUME doc \in [Docs -> DocRow], NEW d \in Docs, NEW s,
         doc' = [doc EXCEPT ![d].status = s]
  PROVE  /\ \A e \in Docs : doc'[e].requestXml = doc[e].requestXml
         /\ \A e \in Docs : e # d => doc'[e].status = doc[e].status
         /\ doc'[d].status = s
BY DEF DocRow

\* A process that moves to a step other than the way to a stamp call.
LEMMA CarriedMove ==
  ASSUME RowsInv, NEW w \in Workers, ~Stamping(w)',
         \A v \in Workers : v # w => wk'[v] = wk[v],
         \A j \in Jobs : job[j].status # "absent" => job'[j].doc = job[j].doc
  PROVE  Carried
<1> SUFFICES ASSUME NEW v \in Workers, Stamping(v)'
             PROVE  /\ Stamping(v) /\ wk'[v].xml = wk[v].xml /\ Target(v)' = Target(v)
                    /\ wk'[v].pc # "await" => wk[v].pc # "await"
  BY DEF Carried
<1>1. v # w /\ wk'[v] = wk[v]
  OBVIOUS
<1>2. Stamping(v)
  BY <1>1 DEF Stamping
<1>3. job'[wk[v].job].doc = job[wk[v].job].doc
  BY <1>2 DEF Stamping, RowsInv
<1> QED
  BY <1>1, <1>2, <1>3 DEF Target

\* No process moves.
LEMMA CarriedStill ==
  ASSUME RowsInv, UNCHANGED wk,
         \A j \in Jobs : job[j].status # "absent" => job'[j].doc = job[j].doc
  PROVE  Carried
<1> SUFFICES ASSUME NEW v \in Workers, Stamping(v)'
             PROVE  /\ Stamping(v) /\ wk'[v].xml = wk[v].xml /\ Target(v)' = Target(v)
                    /\ wk'[v].pc # "await" => wk[v].pc # "await"
  BY DEF Carried
<1>1. Stamping(v)
  BY DEF Stamping
<1>2. job'[wk[v].job].doc = job[wk[v].job].doc
  BY <1>1 DEF Stamping, RowsInv
<1> QED
  BY <1>1, <1>2 DEF Target

\* Where a process is after each way of moving it.
LEMMA MoveFields ==
  ASSUME wk \in [Workers -> Process], NEW w \in Workers, NEW s, NEW v,
         Goto(w, s) \/ Conclude(w, s, v)
  PROVE  /\ wk'[w].pc = s /\ wk'[w].job = wk[w].job /\ wk'[w].xml = wk[w].xml
         /\ wk'[w].op = wk[w].op
         /\ Goto(w, s) => wk'[w].verdict = wk[w].verdict
         /\ Conclude(w, s, v) => wk'[w].verdict = v
         /\ \A u \in Workers : u # w => wk'[u] = wk[u]
BY DEF Goto, Conclude, Process

\* Steps of a process that neither touch the document nor lead to a stamp call.
LEMMA QuietStep ==
  ASSUME TypeOK, RowsInv, StampInv, NEW w \in Workers,
         \/ Abort(w) \/ AlreadyStamped(w) \/ QueryStamped(w) \/ StampUnclear(w)
         \/ AlreadyAsked(w) \/ SendCancel(w) \/ CancelUnclear(w) \/ CancelSave(w)
         \/ QuerySat(w) \/ Render(w) \/ ReadOutcome(w) \/ Crash(w)
         \/ PacStamps(w) \/ PacForwardsCancel(w) \/ PacRejectsCancel(w)
  PROVE  StampInv'
<1> USE DEF TypeOK
<1>1. /\ UNCHANGED <<doc, job, exposed>>
      /\ inbox' \subseteq inbox
  BY DEF Abort, AlreadyStamped, QueryStamped, StampUnclear, AlreadyAsked, SendCancel,
         CancelUnclear, CancelSave, QuerySat, Render, ReadOutcome, Crash, PacStamps,
         PacForwardsCancel, PacRejectsCancel, pacVars
<1>2. \/ \E s \in Steps \ {"send", "await", "fail"} : Goto(w, s)
      \/ \E s \in Steps \ {"send", "await", "fail"}, v \in Verdicts : Conclude(w, s, v)
      \/ Conclude(w, "fail", "uncertain")
      \/ wk' = [wk EXCEPT ![w].pc = "pdfSave", ![w].xml = doc[Target(w)].xml]
      \/ wk' = [wk EXCEPT ![w] = Idle]
  <2>1. CASE Abort(w) \/ QueryStamped(w) \/ SendCancel(w) \/ PacStamps(w) \/ PacForwardsCancel(w)
    BY <2>1 DEF Abort, QueryStamped, SendCancel, PacStamps, PacForwardsCancel, Steps
  <2>2. CASE \/ AlreadyStamped(w) \/ AlreadyAsked(w) \/ CancelUnclear(w) \/ CancelSave(w)
             \/ PacRejectsCancel(w)
    BY <2>2 DEF AlreadyStamped, AlreadyAsked, CancelUnclear, CancelSave, PacRejectsCancel,
                Steps, Verdicts, Finished
  <2>3. CASE ReadOutcome(w)
    BY <2>3 DEF ReadOutcome, Steps, Verdicts, Finished
  <2>4. CASE QuerySat(w) \/ Render(w)
    BY <2>4 DEF QuerySat, Render, Steps, Verdicts, Finished
  <2>5. CASE StampUnclear(w) \/ Crash(w)
    BY <2>5 DEF StampUnclear, Crash
  <2> QED
    BY <2>1, <2>2, <2>3, <2>4, <2>5
<1>3. ~Stamping(w)' /\ \A v \in Workers : v # w => wk'[v] = wk[v]
  <2>1. CASE \E s \in Steps \ {"send", "await", "fail"} : Goto(w, s)
    BY <2>1, MoveFields DEF Stamping
  <2>2. CASE \E s \in Steps \ {"send", "await", "fail"}, v \in Verdicts : Conclude(w, s, v)
    BY <2>2, MoveFields DEF Stamping
  <2>3. CASE Conclude(w, "fail", "uncertain")
    BY <2>3, MoveFields DEF Stamping
  <2>4. CASE wk' = [wk EXCEPT ![w].pc = "pdfSave", ![w].xml = doc[Target(w)].xml]
    BY <2>4 DEF Stamping, Process
  <2>5. CASE wk' = [wk EXCEPT ![w] = Idle]
    BY <2>5 DEF Stamping, Idle
  <2> QED
    BY <1>2, <2>1, <2>2, <2>3, <2>4, <2>5
<1>4. Carried
  BY <1>1, <1>3, CarriedMove
<1>5. inbox' \subseteq exposed' /\ \A d \in Docs : Kept(d)
  BY <1>1 DEF StampInv, Kept
<1> QED
  BY <1>1, <1>4, <1>5, StampFrame

\* Steps of a process that write the document after the stamp.
LEMMA WriteStep ==
  ASSUME TypeOK, RowsInv, StampInv, NEW w \in Workers,
         StampSave(w) \/ CancelBegin(w) \/ CancelFail(w) \/ RefreshSave(w) \/ PdfSave(w)
  PROVE  StampInv'
<1> USE DEF TypeOK
<1>1. UNCHANGED <<job, exposed, inbox>>
  BY DEF StampSave, CancelBegin, CancelFail, RefreshSave, PdfSave, pacVars
<1>2. Target(w) \in Docs
  BY DEF StampSave, CancelBegin, CancelFail, RefreshSave, PdfSave, RowsInv, Target
<1>3. \A d \in Docs : Kept(d)
  <2>1. CASE StampSave(w)
    BY <1>2, <2>1 DEF StampSave, Kept, DocRow
  <2>2. CASE CancelBegin(w) \/ RefreshSave(w)
    <3>1. PICK s \in {"cancel_pending", "cancelled"} :
            doc' = [doc EXCEPT ![Target(w)].status = s]
      BY <2>2 DEF CancelBegin, RefreshSave
    <3> QED
      BY <1>2, <3>1, StatusWrite DEF Kept
  <2>3. CASE CancelFail(w)
    <3>1. CASE doc' = [doc EXCEPT ![Target(w)].status = "stamped"]
      BY <1>2, <3>1, StatusWrite DEF Kept
    <3> QED
      BY <2>3, <3>1 DEF CancelFail, Kept
  <2>4. CASE PdfSave(w)
    BY <1>2, <2>4 DEF PdfSave, Kept, DocRow
  <2> QED
    BY <2>1, <2>2, <2>3, <2>4
<1>4. ~Stamping(w)' /\ \A v \in Workers : v # w => wk'[v] = wk[v]
  <2>1. PICK s \in {"finish", "cancelSend", "except"} :
          Goto(w, s) \/ Conclude(w, s, "succeeded")
    BY DEF StampSave, CancelBegin, CancelFail, RefreshSave, PdfSave
  <2>2. wk'[w].pc = s /\ \A v \in Workers : v # w => wk'[v] = wk[v]
    BY <2>1, MoveFields
  <2> QED
    BY <2>2 DEF Stamping
<1>5. Carried
  BY <1>1, <1>4, CarriedMove
<1> QED
  BY <1>1, <1>3, <1>5, StampFrame DEF StampInv

\* Requests, claims, leases, recovery and the end of run_job, except a request
\* to stamp.
LEMMA LedgerStep ==
  ASSUME TypeOK, RowsInv, StampInv,
         \/ \E d \in Docs : \/ RequestPdf(d) \/ BackfillPdf(d)
                            \/ \E op \in Operations : RequestOther(op, d)
         \/ \E w \in Workers, j \in Jobs : Claim(w, j)
         \/ \E w \in Workers : Finish(w) \/ ChainPdf(w)
         \/ \E j \in Jobs : LeaseExpires(j) \/ Recover(j)
  PROVE  StampInv'
<1> USE DEF TypeOK
<1>1. UNCHANGED <<exposed, inbox>>
  BY DEF RequestPdf, BackfillPdf, RequestOther, Claim, Finish, ChainPdf, LeaseExpires,
         Recover, pacVars
<1>2. \A j \in Jobs : job[j].status # "absent" => job'[j].doc = job[j].doc
  <2>1. ASSUME NEW op \in Operations, NEW d \in Docs, NEW row, Enqueue(op, d, row)
        PROVE  \A j \in Jobs : job[j].status # "absent" => job'[j].doc = job[j].doc
    BY <2>1, EnqueueType
  <2>2. ASSUME NEW w \in Workers, ChainPdf(w)
        PROVE  \A j \in Jobs : job[j].status # "absent" => job'[j].doc = job[j].doc
    <3>1. Target(w) \in Docs
      BY <2>2 DEF ChainPdf, RowsInv, Target
    <3> QED
      BY <2>1, <2>2, <3>1 DEF ChainPdf, Operations
  <2>3. ASSUME NEW d \in Docs, \/ RequestPdf(d) \/ BackfillPdf(d)
                               \/ \E op \in Operations : RequestOther(op, d)
        PROVE  \A j \in Jobs : job[j].status # "absent" => job'[j].doc = job[j].doc
    BY <2>1, <2>3 DEF RequestPdf, BackfillPdf, RequestOther, Operations
  <2>4. ASSUME NEW w \in Workers, NEW j \in Jobs, Claim(w, j)
        PROVE  \A k \in Jobs : job'[k].doc = job[k].doc
    BY <2>4 DEF Claim, JobRow
  <2>5. ASSUME NEW w \in Workers, Finish(w)
        PROVE  \A k \in Jobs : job'[k].doc = job[k].doc
    BY <2>5 DEF Finish, JobRow, RowsInv
  <2>6. ASSUME NEW j \in Jobs, LeaseExpires(j) \/ Recover(j)
        PROVE  \A k \in Jobs : job'[k].doc = job[k].doc
    <3>1. CASE LeaseExpires(j)
      BY <3>1 DEF LeaseExpires, JobRow
    <3>2. CASE Recover(j)
      BY <3>2 DEF Recover
    <3> QED
      BY <2>6, <3>1, <3>2
  <2> QED
    BY <2>2, <2>3, <2>4, <2>5, <2>6
<1>3. Carried
  <2>1. CASE UNCHANGED wk
    BY <1>2, <2>1, CarriedStill
  <2>2. ASSUME NEW w \in Workers, NEW j \in Jobs, Claim(w, j)
        PROVE  Carried
    <3>1. FirstStep(job[j].op) \in {"sign", "begin", "cancelBegin", "refresh", "render"}
      <4>1. job[j].op \in Operations
        BY DEF JobRow
      <4> QED
        BY <4>1 DEF FirstStep, Operations
    <3>2. ~Stamping(w)' /\ \A v \in Workers : v # w => wk'[v] = wk[v]
      BY <2>2, <3>1 DEF Claim, Stamping
    <3> QED
      BY <1>2, <3>2, CarriedMove
  <2>3. ASSUME NEW w \in Workers, Finish(w) \/ ChainPdf(w)
        PROVE  Carried
    <3>1. Goto(w, "chain") \/ wk' = [wk EXCEPT ![w] = Idle]
      BY <2>3 DEF Finish, ChainPdf
    <3>2. ~Stamping(w)' /\ \A v \in Workers : v # w => wk'[v] = wk[v]
      <4>1. CASE Goto(w, "chain")
        <5>1. wk'[w].pc = "chain" /\ \A v \in Workers : v # w => wk'[v] = wk[v]
          BY <4>1, MoveFields
        <5> QED
          BY <5>1 DEF Stamping
      <4>2. CASE wk' = [wk EXCEPT ![w] = Idle]
        BY <4>2 DEF Stamping, Idle
      <4> QED
        BY <3>1, <4>1, <4>2
    <3> QED
      BY <1>2, <3>2, CarriedMove
  <2> QED
    BY <2>1, <2>2, <2>3 DEF RequestPdf, BackfillPdf, RequestOther, LeaseExpires, Recover
<1>4. \A d \in Docs : Kept(d)
  <2>1. CASE UNCHANGED doc
    BY <2>1 DEF Kept
  <2>2. ASSUME NEW j \in Jobs, Recover(j)
        PROVE  \A d \in Docs : Kept(d)
    <3>1. job[j].doc \in Docs
      BY <2>2 DEF Recover, RowsInv
    <3>2. CASE doc' = [doc EXCEPT ![job[j].doc].status = "uncertain"]
      BY <3>1, <3>2, StatusWrite DEF Kept
    <3> QED
      BY <2>1, <2>2, <3>2 DEF Recover
  <2> QED
    BY <2>1, <2>2 DEF RequestPdf, BackfillPdf, RequestOther, Claim, Finish, ChainPdf,
                      LeaseExpires
<1> QED
  BY <1>1, <1>3, <1>4, StampFrame DEF StampInv

\* A request to stamp replaces the XML only of a document that was never
\* submitted or whose last call was rejected.
LEMMA RequestStampStep ==
  ASSUME TypeOK, RowsInv, StampInv, NEW d \in Docs, RequestStamp(d)
  PROVE  StampInv'
<1> USE DEF TypeOK
<1>1. Carried
  <2>1. \A j \in Jobs : job[j].status # "absent" => job'[j].doc = job[j].doc
    BY EnqueueType DEF RequestStamp, Operations
  <2> QED
    BY <2>1, CarriedStill DEF RequestStamp
<1>2. \A e \in Docs : e # d => Kept(e)
  BY DEF RequestStamp, Kept
<1>3. Kept(d) \/ Unexposed(d)
  <2>1. CASE Prepared(d) = doc[d]
    BY <2>1 DEF RequestStamp, Kept
  <2>2. CASE doc[d].requestXml = 0 \/ doc[d].status = "error"
    <3>1. \A call \in exposed : call[1] # d
      BY <2>2 DEF StampInv
    <3>2. \A w \in Workers : Stamping(w) => Target(w) # d
      BY <2>2 DEF StampInv
    <3> QED
      BY <1>1, <3>1, <3>2 DEF Carried, Unexposed
  <2> QED
    BY <2>1, <2>2 DEF Prepared
<1> QED
  BY <1>1, <1>2, <1>3, StampFrame DEF RequestStamp, pacVars, StampInv

\* A document is signed only while it has no XML.
LEMMA SignStep ==
  ASSUME TypeOK, RowsInv, StampInv, NEW w \in Workers, Sign(w)
  PROVE  StampInv'
<1> USE DEF TypeOK
<1>1. Target(w) \in Docs
  BY DEF Sign, RowsInv, Target
<1>2. Carried
  <2>1. wk'[w].pc = "begin" /\ \A v \in Workers : v # w => wk'[v] = wk[v]
    BY MoveFields DEF Sign
  <2>2. ~Stamping(w)'
    BY <2>1 DEF Stamping
  <2> QED
    BY <2>1, <2>2, CarriedMove DEF Sign
<1>3. \A e \in Docs : e # Target(w) => Kept(e)
  BY <1>1 DEF Sign, Kept
<1>4. Kept(Target(w)) \/ Unexposed(Target(w))
  <2>1. CASE doc[Target(w)].requestXml # 0
    BY <2>1 DEF Sign, Kept
  <2>2. CASE doc[Target(w)].requestXml = 0
    <3>1. \A call \in exposed : call[1] # Target(w)
      BY <2>2 DEF StampInv
    <3>2. \A v \in Workers : Stamping(v) => Target(v) # Target(w)
      BY <2>2 DEF StampInv
    <3> QED
      BY <1>2, <3>1, <3>2 DEF Carried, Unexposed
  <2> QED
    BY <2>1, <2>2
<1> QED
  BY <1>2, <1>3, <1>4, StampFrame DEF Sign, pacVars, StampInv

\* A rejection is recorded by the only process that could stamp the document,
\* after its call has left the open ones.
LEMMA StampFailStep ==
  ASSUME TypeOK, RowsInv, StampInv, NEW w \in Workers, StampFail(w)
  PROVE  StampInv'
<1> USE DEF TypeOK
<1>1. Target(w) \in Docs /\ wk[w].verdict \in {"error", "uncertain"}
  BY DEF StampFail, RowsInv, Target
<1>2. wk'[w].pc = "except" /\ \A v \in Workers : v # w => wk'[v] = wk[v]
  BY MoveFields DEF StampFail
<1>3. Carried
  <2>1. ~Stamping(w)'
    BY <1>2 DEF Stamping
  <2> QED
    BY <1>2, <2>1, CarriedMove DEF StampFail
<1>4. /\ \A e \in Docs : doc'[e].requestXml = doc[e].requestXml
      /\ \A e \in Docs : e # Target(w) => doc'[e].status = doc[e].status
      /\ doc'[Target(w)].status = wk[w].verdict
  BY <1>1, StatusWrite DEF StampFail
<1>5. Kept(Target(w)) \/ Unexposed(Target(w))
  <2>1. CASE wk[w].verdict = "uncertain"
    BY <1>1, <1>4, <2>1 DEF Kept
  <2>2. CASE wk[w].verdict = "error"
    <3>1. Stamping(w) /\ wk[w].pc # "await"
      BY <2>2 DEF StampFail, Stamping
    <3>2. \A call \in exposed : call[1] # Target(w)
      BY <3>1 DEF StampInv
    <3>3. \A v \in Workers : Stamping(v)' => v # w /\ Stamping(v)
      BY <1>2, <1>3 DEF Carried, Stamping
    <3> QED
      BY <3>1, <3>2, <3>3 DEF StampInv, Unexposed
  <2> QED
    BY <1>1, <2>1, <2>2
<1> QED
  BY <1>3, <1>4, <1>5, StampFrame DEF StampFail, pacVars, StampInv, Kept

\* A document goes to a process that will call the PAC only from a status that
\* excludes an open call and another such process.
LEMMA StampBeginStep ==
  ASSUME TypeOK, RowsInv, StampInv, NEW w \in Workers, StampBegin(w)
  PROVE  StampInv'
<1> USE DEF TypeOK
<1> DEFINE d == Target(w)
<1>1. d \in Docs /\ UNCHANGED <<job, inbox, exposed>>
  BY DEF StampBegin, RowsInv, Target, pacVars
<1>2. /\ \A e \in Docs : doc'[e].requestXml = doc[e].requestXml
      /\ \A e \in Docs : e # d => doc'[e].status = doc[e].status
      /\ doc'[d].status = "submitting" /\ doc[d].requestXml # 0
  BY <1>1, StatusWrite DEF StampBegin
<1>3. /\ wk'[w].pc = "send" /\ wk'[w].op = wk[w].op /\ wk'[w].job = wk[w].job
      /\ wk'[w].xml = doc[d].requestXml
      /\ \A v \in Workers : v # w => wk'[v] = wk[v]
  BY DEF StampBegin, Process
<1>4. \A v \in Workers : Target(v)' = Target(v) \/ wk'[v] # wk[v]
  BY <1>1 DEF Target
<1>5. Target(w)' = d
  BY <1>1, <1>3 DEF Target
<1>6. \A v \in Workers : v # w /\ Stamping(v)' => Stamping(v) /\ Target(v)' = Target(v)
  BY <1>3, <1>4 DEF Stamping
<1>7. CASE wk[w].op # "stamp"
  <2>1. ~Stamping(w)'
    BY <1>3, <1>7 DEF Stamping
  <2>2. Carried
    BY <1>1, <1>3, <2>1, CarriedMove
  <2>3. \A e \in Docs : Kept(e)
    BY <1>2 DEF Kept
  <2> QED
    BY <1>1, <2>2, <2>3, StampFrame DEF StampInv
<1>8. CASE wk[w].op = "stamp"
  <2>1. doc[d].status \in {"draft", "error"}
    <3>1. doc[d].status \in DocStatuses
      BY <1>1 DEF DocRow
    <3> QED
      BY <1>8, <3>1 DEF StampBegin, DocStatuses
  <2>2. \A call \in exposed : call[1] # d
    BY <2>1 DEF StampInv
  <2>3. \A v \in Workers : Stamping(v) => Target(v) # d
    BY <2>1 DEF StampInv
  <2>4. ASSUME NEW call \in exposed'
        PROVE  /\ doc'[call[1]].requestXml = call[2] /\ call[2] # 0
               /\ doc'[call[1]].status \notin {"draft", "error"}
    <3>1. call \in exposed /\ call[1] \in Docs /\ call[1] # d
      BY <1>1, <2>2, <2>4
    <3> QED
      BY <1>2, <3>1 DEF StampInv
  <2>5. ASSUME NEW v \in Workers, Stamping(v)'
        PROVE  /\ wk'[v].xml # 0 /\ doc'[Target(v)'].requestXml = wk'[v].xml
               /\ doc'[Target(v)'].status \notin {"draft", "error"}
               /\ wk'[v].pc # "await" => \A call \in exposed' : call[1] # Target(v)'
    <3>1. CASE v = w
      BY <1>1, <1>2, <1>3, <1>5, <2>2, <3>1
    <3>2. CASE v # w
      <4>1. Stamping(v) /\ Target(v)' = Target(v) /\ wk'[v] = wk[v]
        BY <1>3, <1>6, <2>5, <3>2
      <4>2. Target(v) \in Docs /\ Target(v) # d
        BY <2>3, <4>1 DEF Stamping, RowsInv, Target
      <4>3. /\ wk[v].xml # 0 /\ doc[Target(v)].requestXml = wk[v].xml
            /\ doc[Target(v)].status \notin {"draft", "error"}
            /\ wk[v].pc # "await" => \A call \in exposed : call[1] # Target(v)
        BY <4>1 DEF StampInv
      <4> QED
        BY <1>1, <1>2, <4>1, <4>2, <4>3
    <3> QED
      BY <3>1, <3>2
  <2>6. ASSUME NEW u \in Workers, NEW v \in Workers, Stamping(u)', Stamping(v)',
               Target(u)' = Target(v)'
        PROVE  u = v
    BY <1>5, <1>6, <2>3, <2>6 DEF StampInv
  <2> QED
    BY <1>1, <2>4, <2>5, <2>6 DEF StampInv
<1> QED
  BY <1>7, <1>8

\* The call that leaves is the only open one of its document.
LEMMA SendStampStep ==
  ASSUME TypeOK, RowsInv, StampInv, NEW w \in Workers, SendStamp(w)
  PROVE  StampInv'
<1> USE DEF TypeOK
<1> DEFINE d == Target(w)
<1>1. /\ d \in Docs /\ UNCHANGED <<job, doc>>
      /\ exposed' = exposed \cup {<<d, wk[w].xml>>} /\ inbox' \subseteq exposed'
  BY DEF SendStamp, RowsInv, Target, StampInv
<1>2. /\ wk'[w].pc = "await" /\ wk'[w].job = wk[w].job /\ wk'[w].xml = wk[w].xml
      /\ \A v \in Workers : v # w => wk'[v] = wk[v]
  BY MoveFields DEF SendStamp
<1>3. Stamping(w) /\ wk[w].pc # "await"
  BY DEF SendStamp, Stamping
<1>4. \A v \in Workers : Target(v)' = Target(v)
  BY <1>1, <1>2 DEF Target
<1>5. \A v \in Workers : Stamping(v)' => Stamping(v)
  BY <1>2, <1>3 DEF Stamping
<1>6. /\ wk[w].xml # 0 /\ doc[d].requestXml = wk[w].xml
      /\ doc[d].status \notin {"draft", "error"}
  BY <1>3 DEF StampInv
<1>7. ASSUME NEW call \in exposed'
      PROVE  /\ doc'[call[1]].requestXml = call[2] /\ call[2] # 0
             /\ doc'[call[1]].status \notin {"draft", "error"}
  <2>1. CASE call \in exposed
    BY <1>1, <2>1 DEF StampInv
  <2>2. CASE call = <<d, wk[w].xml>>
    BY <1>1, <1>6, <2>2
  <2> QED
    BY <1>1, <2>1, <2>2
<1>8. ASSUME NEW v \in Workers, Stamping(v)'
      PROVE  /\ wk'[v].xml # 0 /\ doc'[Target(v)'].requestXml = wk'[v].xml
             /\ doc'[Target(v)'].status \notin {"draft", "error"}
             /\ wk'[v].pc # "await" => \A call \in exposed' : call[1] # Target(v)'
  <2>1. CASE v = w
    BY <1>1, <1>2, <1>4, <1>6, <2>1
  <2>2. CASE v # w
    <3>1. Stamping(v) /\ wk'[v] = wk[v] /\ Target(v) # d
      BY <1>2, <1>3, <1>5, <1>8, <2>2 DEF StampInv
    <3>2. /\ wk[v].xml # 0 /\ doc[Target(v)].requestXml = wk[v].xml
          /\ doc[Target(v)].status \notin {"draft", "error"}
          /\ wk[v].pc # "await" => \A call \in exposed : call[1] # Target(v)
      BY <3>1 DEF StampInv
    <3> QED
      BY <1>1, <1>4, <3>1, <3>2
  <2> QED
    BY <2>1, <2>2
<1>9. ASSUME NEW u \in Workers, NEW v \in Workers, Stamping(u)', Stamping(v)',
             Target(u)' = Target(v)'
      PROVE  u = v
  BY <1>4, <1>5, <1>9 DEF StampInv
<1> QED
  BY <1>1, <1>7, <1>8, <1>9 DEF StampInv

\* A rejection ends the only open call of the document.
LEMMA PacRejectsStep ==
  ASSUME TypeOK, RowsInv, StampInv, NEW w \in Workers, PacRejects(w)
  PROVE  StampInv'
<1> USE DEF TypeOK
<1> DEFINE d == Target(w)
<1>1. /\ UNCHANGED <<job, doc>> /\ exposed' = exposed \ {<<d, wk[w].xml>>}
      /\ inbox' \subseteq exposed'
  BY DEF PacRejects, StampInv
<1>2. /\ wk'[w].pc = "fail" /\ wk'[w].job = wk[w].job /\ wk'[w].xml = wk[w].xml
      /\ \A v \in Workers : v # w => wk'[v] = wk[v]
  BY MoveFields DEF PacRejects
<1>3. Stamping(w)
  BY DEF PacRejects, Stamping
<1>4. \A v \in Workers : Target(v)' = Target(v)
  BY <1>1, <1>2 DEF Target
<1>5. \A v \in Workers : Stamping(v)' => Stamping(v)
  BY <1>2, <1>3 DEF Stamping
<1>6. \A call \in exposed' : call[1] # d
  <2>1. ASSUME NEW call \in exposed, call[1] = d
        PROVE  call = <<d, wk[w].xml>>
    <3>1. call[2] = wk[w].xml
      BY <1>3, <2>1 DEF StampInv
    <3>2. call = <<call[1], call[2]>>
      BY <2>1
    <3> QED
      BY <2>1, <3>1, <3>2
  <2> QED
    BY <1>1, <2>1
<1>7. ASSUME NEW v \in Workers, Stamping(v)'
      PROVE  /\ wk'[v].xml # 0 /\ doc'[Target(v)'].requestXml = wk'[v].xml
             /\ doc'[Target(v)'].status \notin {"draft", "error"}
             /\ wk'[v].pc # "await" => \A call \in exposed' : call[1] # Target(v)'
  <2>1. /\ wk[v].xml # 0 /\ doc[Target(v)].requestXml = wk[v].xml
        /\ doc[Target(v)].status \notin {"draft", "error"}
        /\ wk[v].pc # "await" => \A call \in exposed : call[1] # Target(v)
    BY <1>5, <1>7 DEF StampInv
  <2> QED
    BY <1>1, <1>2, <1>4, <1>6, <2>1
<1>8. ASSUME NEW u \in Workers, NEW v \in Workers, Stamping(u)', Stamping(v)',
             Target(u)' = Target(v)'
      PROVE  u = v
  BY <1>4, <1>5, <1>8 DEF StampInv
<1> QED
  BY <1>1, <1>7, <1>8 DEF StampInv

\* The PAC and the SAT act on calls that nobody waits for.
LEMMA UnheardStep ==
  ASSUME TypeOK, RowsInv, StampInv,
         \/ \E call \in inbox : PacStampsUnheard(call)
         \/ \E d \in Docs : PacForwardsUnheard(d) \/ SatAnnuls(d)
         \/ UNCHANGED vars
  PROVE  StampInv'
<1>1. UNCHANGED <<doc, job, wk, exposed>> /\ inbox' \subseteq inbox
  BY DEF PacStampsUnheard, PacForwardsUnheard, SatAnnuls, vars, pacVars
<1>2. Carried
  BY <1>1, CarriedStill
<1>3. \A d \in Docs : Kept(d)
  BY <1>1 DEF Kept
<1> QED
  BY <1>1, <1>2, <1>3, StampFrame DEF StampInv

\* Every step preserves the stamping invariant.
LEMMA StampNext ==
  ASSUME TypeOK, RowsInv, StampInv, [Next]_vars
  PROVE  StampInv'
<1>1. ASSUME NEW w \in Workers, WorkerStep(w)
      PROVE  StampInv'
  BY <1>1, QuietStep, WriteStep, LedgerStep, SignStep, StampFailStep, StampBeginStep,
     SendStampStep DEF WorkerStep, StampStep, CancelStep
<1>2. CASE Staff
  BY <1>2, RequestStampStep, LedgerStep DEF Staff
<1>3. CASE External
  BY <1>3, QuietStep, PacRejectsStep, UnheardStep DEF External
<1> QED
  BY <1>1, <1>2, <1>3, QuietStep, LedgerStep, UnheardStep DEF Next

\* The invariants this module proves hold together in every reachable state.
LEMMA Invariants == Spec => [](TypeOK /\ RowsInv /\ StampInv)
<1>1. Init => TypeOK /\ RowsInv /\ StampInv
  <2>1. Init => StampInv
    BY DEF Init, StampInv, Stamping, Idle
  <2> QED
    BY <2>1, TypeInit
<1>2. TypeOK /\ RowsInv /\ StampInv /\ [Next]_vars => (TypeOK /\ RowsInv /\ StampInv)'
  BY TypeNext, StampNext
<1> QED
  BY <1>1, <1>2, PTL DEF Spec

\* A document with a stamp call that may have succeeded is never in a status from which
\* it is signed or submitted anew, and one process at most is on its way to such a call
\* (stamp_document, recover_expired_jobs), whether or not it still has its claim.
THEOREM StampingHolds == Spec => []StampInv
BY Invariants, PTL

\* The XML of a stamp call that was not answered by a rejection is kept in its
\* document, however many workers, rows and interruptions there are.
THEOREM ExposedXmlKept == Spec => []ExposedXmlIsKept
<1>1. TypeOK /\ RowsInv /\ StampInv => ExposedXmlIsKept
  BY DEF StampInv, ExposedXmlIsKept
<1> QED
  BY <1>1, Invariants, PTL

\* Only a process of a stamp row gets from the way to a call into one.
LEMMA OnlySent ==
  ASSUME TypeOK, RowsInv, [Next]_vars, NEW w \in Workers,
         wk[w].pc = "send", wk'[w].pc = "await"
  PROVE  wk[w].op = "stamp"
<1> USE DEF TypeOK
<1>1. ASSUME NEW v \in Workers, NEW s, NEW x, Goto(v, s) \/ Conclude(v, s, x), s # "await"
      PROVE  FALSE
  <2>1. wk'[v].pc = s /\ \A u \in Workers : u # v => wk'[u] = wk[u]
    BY <1>1, MoveFields
  <2> QED
    BY <1>1, <2>1
<1>2. ASSUME NEW v \in Workers, wk' = [wk EXCEPT ![v] = Idle]
      PROVE  FALSE
  BY <1>2 DEF Idle
<1>3. ASSUME NEW v \in Workers, NEW s, NEW x, s # "await",
             wk' = [wk EXCEPT ![v].pc = s, ![v].xml = x]
      PROVE  FALSE
  BY <1>3 DEF Process
<1>4. ASSUME UNCHANGED wk
      PROVE  FALSE
  BY <1>4
<1>5. ASSUME NEW v \in Workers, StampStep(v), ~SendStamp(v)
      PROVE  FALSE
  <2>1. CASE Sign(v) \/ QueryStamped(v) \/ StampFail(v)
    BY <1>1, <2>1 DEF Sign, QueryStamped, StampFail
  <2>2. CASE AlreadyStamped(v) \/ StampUnclear(v) \/ StampSave(v)
    BY <1>1, <2>2 DEF AlreadyStamped, StampUnclear, StampSave
  <2>3. CASE StampBegin(v)
    BY <1>3, <2>3 DEF StampBegin
  <2> QED
    BY <1>5, <2>1, <2>2, <2>3 DEF StampStep
<1>6. ASSUME NEW v \in Workers, CancelStep(v)
      PROVE  FALSE
  <2>1. CASE CancelBegin(v) \/ CancelFail(v)
    BY <1>1, <2>1 DEF CancelBegin, CancelFail
  <2>2. CASE AlreadyAsked(v) \/ CancelUnclear(v) \/ CancelSave(v) \/ RefreshSave(v)
    BY <1>1, <2>2 DEF AlreadyAsked, CancelUnclear, CancelSave, RefreshSave
  <2>3. CASE QuerySat(v)
    BY <1>1, <2>3 DEF QuerySat
  <2>4. CASE SendCancel(v)
    <3>1. Goto(v, "cancelAwait")
      BY <2>4 DEF SendCancel
    <3> QED
      BY <1>1, <3>1
  <2> QED
    BY <1>6, <2>1, <2>2, <2>3, <2>4 DEF CancelStep
<1>7. ASSUME NEW v \in Workers,
             Abort(v) \/ Render(v) \/ PdfSave(v) \/ ReadOutcome(v) \/ Finish(v)
               \/ ChainPdf(v) \/ Crash(v)
      PROVE  FALSE
  <2>1. CASE Abort(v) \/ ReadOutcome(v)
    BY <1>1, <2>1 DEF Abort, ReadOutcome
  <2>2. CASE Render(v) \/ PdfSave(v)
    BY <1>1, <1>3, <2>2 DEF Render, PdfSave
  <2>3. CASE Finish(v) \/ ChainPdf(v) \/ Crash(v)
    BY <1>1, <1>2, <2>3 DEF Finish, ChainPdf, Crash
  <2> QED
    BY <1>7, <2>1, <2>2, <2>3
<1>8. ASSUME NEW v \in Workers, NEW j \in Jobs, Claim(v, j)
      PROVE  FALSE
  <2>1. FirstStep(job[j].op) \in {"sign", "begin", "cancelBegin", "refresh", "render"}
    <3>1. job[j].op \in Operations
      BY DEF JobRow
    <3> QED
      BY <3>1 DEF FirstStep, Operations
  <2> QED
    BY <1>8, <2>1 DEF Claim
<1>9. ASSUME External
      PROVE  FALSE
  <2>1. ASSUME NEW v \in Workers, \/ PacStamps(v) \/ PacRejects(v)
                                  \/ PacForwardsCancel(v) \/ PacRejectsCancel(v)
        PROVE  FALSE
    BY <1>1, <2>1 DEF PacStamps, PacRejects, PacForwardsCancel, PacRejectsCancel
  <2> QED
    BY <1>4, <1>9, <2>1 DEF External, PacStampsUnheard, PacForwardsUnheard, SatAnnuls
<1>10. ASSUME \/ Staff \/ \E d \in Docs : BackfillPdf(d)
              \/ \E j \in Jobs : LeaseExpires(j) \/ Recover(j)
              \/ UNCHANGED vars
       PROVE  FALSE
  BY <1>4, <1>10 DEF Staff, RequestStamp, RequestPdf, RequestOther, BackfillPdf,
                     LeaseExpires, Recover, vars
<1>11. PICK v \in Workers : SendStamp(v)
  BY <1>5, <1>6, <1>7, <1>8, <1>9, <1>10 DEF Next, WorkerStep
<1>12. \A u \in Workers : u # v => wk'[u] = wk[u]
  BY <1>11, MoveFields DEF SendStamp
<1> QED
  BY <1>11, <1>12 DEF SendStamp

\* No process ever makes a stamp call for a document with an earlier call that
\* may have stamped it.
THEOREM SingleStamp == Spec => NoSecondStamp
<1> DEFINE Alone ==
      \A w \in Workers : wk[w].pc = "send" /\ wk'[w].pc = "await" =>
        \A call \in exposed : call[1] # Target(w)
<1>1. TypeOK /\ RowsInv /\ StampInv /\ [Next]_vars => Alone
  <2> SUFFICES ASSUME TypeOK, RowsInv, StampInv, [Next]_vars, NEW w \in Workers,
                      wk[w].pc = "send", wk'[w].pc = "await"
               PROVE  \A call \in exposed : call[1] # Target(w)
    OBVIOUS
  <2>1. wk[w].op = "stamp"
    BY OnlySent
  <2>2. Stamping(w) /\ wk[w].pc # "await"
    BY <2>1 DEF Stamping
  <2> QED
    BY <2>2 DEF StampInv
<1> QED
  BY <1>1, Invariants, PTL DEF Spec, NoSecondStamp

-----------------------------------------------------------------------------
(* Claims.                                                                 *)

\* A document has one active row, and of the claims of a row each process knows
\* another; none of them is still to come.
ClaimInv ==
  /\ \A j, k \in Jobs : /\ job[j].status \in Active /\ job[k].status \in Active
                        /\ job[j].doc = job[k].doc
                        => j = k
  /\ \A w \in Workers : wk[w].job \in Jobs => /\ job[wk[w].job].status # "absent"
                                             /\ wk[w].token <= job[wk[w].job].attempts
  /\ \A v, w \in Workers : /\ wk[v].job \in Jobs /\ wk[v].job = wk[w].job
                           /\ wk[v].token = wk[w].token
                           => v = w

\* A process that keeps its claim, or forgets it.
Carries(w) == wk'[w].job = NoJob \/ (wk'[w].job = wk[w].job /\ wk'[w].token = wk[w].token)

\* A row that is not made active again and has the same document and attempts.
Rests(j) ==
  /\ job[j].status # "absent" => job'[j].status # "absent"
  /\ job'[j].doc = job[j].doc /\ job'[j].attempts = job[j].attempts
  /\ job'[j].status \in Active => job[j].status \in Active

\* A step that makes no row active and gives no process a claim keeps the claims.
LEMMA ClaimFrame ==
  ASSUME ClaimInv, \A w \in Workers : Carries(w), \A j \in Jobs : Rests(j)
  PROVE  ClaimInv'
<1>1. ASSUME NEW w \in Workers, wk'[w].job \in Jobs
      PROVE  wk'[w].job = wk[w].job /\ wk'[w].token = wk[w].token
  BY <1>1, ConstantsAssumption DEF Carries
<1> QED
  BY <1>1 DEF ClaimInv, Rests

\* A request makes a row active whose document has none.
LEMMA ClaimEnqueue ==
  ASSUME TypeOK, RowsInv, ClaimInv, NEW op \in Operations, NEW d \in Docs, NEW row,
         Enqueue(op, d, row), \A w \in Workers : Carries(w)
  PROVE  ClaimInv'
<1>1. PICK j \in Jobs : job[j].status = "absent" /\ job' = [job EXCEPT ![j] = NewRow(op, d)]
  BY DEF Enqueue
<1>2. /\ job'[j] = NewRow(op, d)
      /\ \A k \in Jobs : k # j => job'[k] = job[k]
      /\ \A k \in Jobs : k # j /\ job[k].status \in Active => job[k].doc # d
  BY <1>1 DEF TypeOK, Enqueue, HasActiveJob
<1>3. ASSUME NEW w \in Workers, wk'[w].job \in Jobs
      PROVE  wk'[w].job = wk[w].job /\ wk'[w].token = wk[w].token /\ wk[w].job # j
  <2>1. wk'[w].job = wk[w].job /\ wk'[w].token = wk[w].token
    BY <1>3, ConstantsAssumption DEF Carries
  <2> QED
    BY <1>1, <1>3, <2>1 DEF ClaimInv
<1>4. \A k, l \in Jobs : /\ job'[k].status \in Active /\ job'[l].status \in Active
                        /\ job'[k].doc = job'[l].doc
                        => k = l
  BY <1>2 DEF ClaimInv, NewRow
<1> QED
  BY <1>2, <1>3, <1>4 DEF ClaimInv

\* The steps of a process that leave the ledger alone.
LEMMA ClaimSteps ==
  ASSUME TypeOK, ClaimInv, NEW w \in Workers,
         \/ Abort(w) \/ StampStep(w) \/ CancelStep(w) \/ Render(w) \/ PdfSave(w)
         \/ ReadOutcome(w) \/ Crash(w)
         \/ PacStamps(w) \/ PacRejects(w) \/ PacForwardsCancel(w) \/ PacRejectsCancel(w)
  PROVE  ClaimInv'
<1>1. \A j \in Jobs : Rests(j)
  <2>1. UNCHANGED job
    BY DEF Abort, StampStep, CancelStep, Render, PdfSave, ReadOutcome, Crash, PacStamps,
       PacRejects, PacForwardsCancel, PacRejectsCancel, Sign, AlreadyStamped, StampBegin,
       SendStamp, QueryStamped, StampUnclear, StampSave, StampFail, AlreadyAsked,
       CancelBegin, SendCancel, CancelUnclear, CancelSave, CancelFail, QuerySat, RefreshSave
  <2> QED
    BY <2>1 DEF Rests
<1>2. \/ \E s \in Steps : Goto(w, s)
      \/ \E s \in Steps, v \in Verdicts : Conclude(w, s, v)
      \/ \E s \in Steps, x \in Nat \cup {doc[Target(w)].requestXml, doc[Target(w)].xml} :
           wk' = [wk EXCEPT ![w].pc = s, ![w].xml = x]
      \/ wk' = [wk EXCEPT ![w] = Idle]
  <2>1. CASE Abort(w) \/ Render(w) \/ PdfSave(w) \/ ReadOutcome(w) \/ Crash(w)
    BY <2>1 DEF Abort, Render, PdfSave, ReadOutcome, Crash, Steps, Verdicts, Finished
  <2>2. CASE \/ PacStamps(w) \/ PacRejects(w) \/ PacForwardsCancel(w) \/ PacRejectsCancel(w)
    BY <2>2 DEF PacStamps, PacRejects, PacForwardsCancel, PacRejectsCancel, Steps, Verdicts
  <2>3. CASE StampStep(w)
    BY <2>3 DEF StampStep, Sign, AlreadyStamped, StampBegin, SendStamp, QueryStamped,
       StampUnclear, StampSave, StampFail, Steps, Verdicts, Finished
  <2>4. CASE CancelStep(w)
    BY <2>4 DEF CancelStep, AlreadyAsked, CancelBegin, SendCancel, CancelUnclear, CancelSave,
       CancelFail, QuerySat, RefreshSave, Steps, Verdicts, Finished
  <2> QED
    BY <2>1, <2>2, <2>3, <2>4
<1>3. \A v \in Workers : Carries(v)
  <2>1. wk \in [Workers -> Process]
    BY DEF TypeOK
  <2>2. ASSUME NEW v \in Workers, v # w PROVE Carries(v)
    BY <1>2, <2>1, <2>2 DEF Carries, Goto, Conclude
  <2>3. CASE \E s \in Steps : Goto(w, s)
    BY <2>1, <2>3 DEF Carries, Goto, Process
  <2>4. CASE \E s \in Steps, v \in Verdicts : Conclude(w, s, v)
    BY <2>1, <2>4 DEF Carries, Conclude, Process
  <2>5. ASSUME NEW s \in Steps, NEW x, wk' = [wk EXCEPT ![w].pc = s, ![w].xml = x]
        PROVE  Carries(w)
    BY <2>1, <2>5 DEF Carries, Process
  <2>6. CASE wk' = [wk EXCEPT ![w] = Idle]
    BY <2>1, <2>6 DEF Carries, Idle
  <2> QED
    BY <1>2, <2>2, <2>3, <2>4, <2>5, <2>6
<1> QED
  BY <1>1, <1>3, ClaimFrame

\* Every step keeps the claims.
LEMMA ClaimNext == TypeOK /\ RowsInv /\ ClaimInv /\ [Next]_vars => ClaimInv'
<1> SUFFICES ASSUME TypeOK, RowsInv, ClaimInv, [Next]_vars PROVE ClaimInv'
  OBVIOUS
<1>1. ASSUME UNCHANGED <<job, wk>> PROVE ClaimInv'
  BY <1>1 DEF ClaimInv
<1>2. ASSUME NEW w \in Workers, NEW j \in Jobs, Claim(w, j) PROVE ClaimInv'
  <2>. DEFINE n == job[j].attempts + 1
  <2>1. /\ job[j].status = "queued" /\ job'[j].status = "running"
        /\ job'[j].doc = job[j].doc /\ job'[j].attempts = n
        /\ \A k \in Jobs : k # j => job'[k] = job[k]
    BY <1>2 DEF Claim, TypeOK, JobRow
  <2>2. /\ wk'[w].job = j /\ wk'[w].token = n
        /\ \A v \in Workers : v # w => wk'[v] = wk[v]
    BY <1>2 DEF Claim, TypeOK
  <2>3. job[j].attempts \in Nat /\ \A v \in Workers : wk[v].token \in Nat
    BY ConstantsAssumption DEF TypeOK, JobRow, Process
  <2>4. \A v \in Workers : v # w /\ wk[v].job = j => wk[v].token < n
    BY <2>3 DEF ClaimInv
  <2>5. \A k, l \in Jobs : /\ job'[k].status \in Active /\ job'[l].status \in Active
                          /\ job'[k].doc = job'[l].doc
                          => k = l
    BY <2>1 DEF ClaimInv, Active
  <2>6. \A v \in Workers : wk'[v].job \in Jobs => /\ job'[wk'[v].job].status # "absent"
                                                 /\ wk'[v].token <= job'[wk'[v].job].attempts
    <3>1. ASSUME NEW v \in Workers, v # w, wk[v].job \in Jobs
          PROVE  /\ job'[wk[v].job].status # "absent"
                 /\ wk[v].token <= job'[wk[v].job].attempts
      <4>1. CASE wk[v].job = j
        BY <2>1, <2>3, <2>4, <3>1, <4>1
      <4>2. CASE wk[v].job # j
        BY <2>1, <3>1, <4>2 DEF ClaimInv
      <4> QED
        BY <4>1, <4>2
    <3> QED
      BY <2>1, <2>2, <2>3, <3>1
  <2>7. \A u, v \in Workers : /\ wk'[u].job \in Jobs /\ wk'[u].job = wk'[v].job
                             /\ wk'[u].token = wk'[v].token
                             => u = v
    BY <2>2, <2>3, <2>4 DEF ClaimInv
  <2> QED
    BY <2>5, <2>6, <2>7 DEF ClaimInv
<1>3. ASSUME NEW w \in Workers, Finish(w) PROVE ClaimInv'
  <2>1. wk[w].job \in Jobs /\ wk[w].verdict \in Finished
    BY <1>3 DEF Finish, RowsInv
  <2>2. \A j \in Jobs : Rests(j)
    BY <1>3, <2>1 DEF Finish, Rests, TypeOK, JobRow, Finished, Active
  <2>3. \A v \in Workers : Carries(v)
    BY <1>3 DEF Finish, Goto, Carries, TypeOK, Process, Idle
  <2> QED
    BY <2>2, <2>3, ClaimFrame
<1>4. ASSUME NEW w \in Workers, ChainPdf(w) PROVE ClaimInv'
  <2>1. \A v \in Workers : Carries(v)
    BY <1>4 DEF ChainPdf, Carries, TypeOK, Process, Idle
  <2>2. CASE UNCHANGED job
    BY <2>1, <2>2, ClaimFrame DEF Rests
  <2>3. CASE Enqueue("pdf", Target(w), doc[Target(w)])
    <3>1. Target(w) \in Docs
      BY <1>4 DEF ChainPdf, RowsInv, Target
    <3> QED
      BY <2>1, <2>3, <3>1, ClaimEnqueue DEF Operations
  <2> QED
    BY <1>4, <2>2, <2>3 DEF ChainPdf
<1>5. ASSUME NEW j \in Jobs, LeaseExpires(j) PROVE ClaimInv'
  <2>1. \A k \in Jobs : Rests(k)
    BY <1>5 DEF LeaseExpires, Rests, TypeOK, JobRow
  <2> QED
    BY <1>5, <2>1, ClaimFrame DEF LeaseExpires, Carries
<1>6. ASSUME NEW j \in Jobs, Recover(j) PROVE ClaimInv'
  <2>1. \A k \in Jobs : Rests(k)
    BY <1>6 DEF Recover, Rests, TypeOK, JobRow, Active
  <2> QED
    BY <1>6, <2>1, ClaimFrame DEF Recover, Carries
<1>7. ASSUME NEW d \in Docs,
             \/ RequestStamp(d) \/ RequestPdf(d) \/ BackfillPdf(d)
             \/ \E op \in Operations : RequestOther(op, d)
      PROVE  ClaimInv'
  <2>1. PICK op \in Operations, row \in {doc[d], Prepared(d)} : Enqueue(op, d, row)
    BY <1>7 DEF RequestStamp, RequestPdf, BackfillPdf, RequestOther, Operations
  <2>2. \A w \in Workers : Carries(w)
    BY <1>7 DEF RequestStamp, RequestPdf, BackfillPdf, RequestOther, Carries
  <2> QED
    BY <2>1, <2>2, ClaimEnqueue
<1>8. ASSUME \/ \E call \in inbox : PacStampsUnheard(call)
             \/ \E d \in Docs : PacForwardsUnheard(d) \/ SatAnnuls(d)
             \/ UNCHANGED vars
      PROVE  ClaimInv'
  BY <1>1, <1>8 DEF PacStampsUnheard, PacForwardsUnheard, SatAnnuls, vars
<1> QED
  BY <1>2, <1>3, <1>4, <1>5, <1>6, <1>7, <1>8, ClaimSteps DEF Next, Staff, External, WorkerStep

\* Two processes never both hold the claim of a document, however many rows, requests,
\* recoveries and stalled processes there are (claim_job, claim_transaction).
THEOREM SingleClaim == Spec => []OneLiveClaim
<1>1. Init => ClaimInv
  BY ConstantsAssumption DEF Init, ClaimInv, Idle, Active
<1>2. ClaimInv => OneLiveClaim
  BY DEF ClaimInv, OneLiveClaim, Holds, Target, Active
<1> QED
  BY <1>1, <1>2, TypeInit, TypeNext, ClaimNext, PTL DEF Spec

-----------------------------------------------------------------------------
(* The document and what the PAC and the SAT hold.                         *)

Settled == {"stamped", "cancel_pending", "cancelled"}
Asking == {"cancel_pending", "cancelled"}

\* A process that may have the document cancelled, or give it back uncancelled;
\* the PAC has not been asked, or has refused.
Cancelling(w) == \/ wk[w].pc \in {"cancelSend", "cancelAwait"}
                 \/ wk[w].pc = "cancelFail" /\ wk[w].verdict = "stamped"
Unsent(w) == \/ wk[w].pc = "cancelSend"
             \/ wk[w].pc = "cancelFail" /\ wk[w].verdict = "stamped"

TablesInv ==
  /\ LedgerIsTruthful
  /\ \A d \in Docs : doc[d].xml # 0 \/ doc[d].status = "submitting" => doc[d].requestXml # 0
  /\ annulled \subseteq asked /\ cancelBox \cap asked = {}
  /\ \A d \in cancelBox : doc[d].status \in Asking

\* What a process brings from one step to the next; the last two hold for as long
\* as it has its claim.
RunInv(w) ==
  /\ wk[w].pc \in {"send", "await", "save"} => wk[w].xml # 0
  /\ wk[w].pc = "save" => <<Target(w), wk[w].xml>> \in registered
  /\ wk[w].pc = "refreshSave" => Target(w) \in annulled
  /\ Cancelling(w) => doc[Target(w)].status \in Asking
  /\ Unsent(w) => Target(w) \notin cancelBox \cup asked
  /\ Holds(w) /\ wk[w].pc \in {"send", "await", "save", "fail"}
       => doc[Target(w)].status = "submitting"
  /\ Holds(w) /\ wk[w].pc = "finish" /\ wk[w].verdict = "failed"
       => doc[Target(w)].status \notin Ambiguous

RunsInv ==
  /\ \A w \in Workers : RunInv(w)
  /\ \A v, w \in Workers : Cancelling(v) /\ Cancelling(w) /\ Target(v) = Target(w) => v = w

LedgerInv == TablesInv /\ RunsInv

\* A process that a step leaves as it is, whatever it does to its document.
Undisturbed(v) ==
  /\ wk'[v] = wk[v]
  /\ wk[v].pc # "idle" => Target(v)' = Target(v) /\ (Holds(v)' => Holds(v))
Steady(v) ==
  /\ Holds(v) => doc'[Target(v)].status = doc[Target(v)].status
  /\ Cancelling(v) => doc'[Target(v)].status \in Asking
  /\ Unsent(v) => Target(v) \notin cancelBox' \cup asked'

\* Nothing else has to be looked at than the processes that move.
LEMMA RunsStep ==
  ASSUME RunsInv, NEW Moved \in SUBSET Workers,
         registered \subseteq registered', annulled \subseteq annulled',
         \A v \in Workers \ Moved : Undisturbed(v) /\ Steady(v),
         \A w \in Moved : RunInv(w)',
         \A w \in Moved : Cancelling(w)' =>
           \A v \in Workers : Cancelling(v)' /\ Target(v)' = Target(w)' => v = w
  PROVE  RunsInv'
<1>1. ASSUME NEW v \in Workers \ Moved PROVE RunInv(v)'
  <2>1. wk'[v] = wk[v] /\ RunInv(v) /\ Steady(v)
    BY <1>1 DEF RunsInv, Undisturbed
  <2>2. CASE wk[v].pc = "idle"
    BY <2>1, <2>2 DEF RunInv, Cancelling, Unsent
  <2>3. CASE wk[v].pc # "idle"
    <3>1. Target(v)' = Target(v) /\ (Holds(v)' => Holds(v))
      BY <1>1, <2>3 DEF Undisturbed
    <3> QED
      BY <2>1, <3>1 DEF RunInv, Steady, Cancelling, Unsent
  <2> QED
    BY <2>2, <2>3
<1>2. ASSUME NEW v \in Workers \ Moved, NEW w \in Workers \ Moved,
             Cancelling(v)', Cancelling(w)', Target(v)' = Target(w)'
      PROVE  v = w
  <2>1. /\ Cancelling(v) /\ Cancelling(w)
        /\ wk[v].pc # "idle" /\ wk[w].pc # "idle"
    BY <1>2 DEF Undisturbed, Cancelling
  <2>2. Target(v) = Target(w)
    BY <1>2, <2>1 DEF Undisturbed
  <2> QED
    BY <2>1, <2>2 DEF RunsInv
<1>3. \A v, w \in Workers : Cancelling(v)' /\ Cancelling(w)' /\ Target(v)' = Target(w)' => v = w
  BY <1>2
<1>4. \A w \in Workers : RunInv(w)'
  BY <1>1
<1> QED
  BY <1>3, <1>4 DEF RunsInv

\* One process moves; the documents and the SAT do not.
LEMMA MoveStep ==
  ASSUME RunsInv, TablesInv, NEW w \in Workers, \A v \in Workers \ {w} : Undisturbed(v),
         UNCHANGED <<doc, satVars>>, registered \subseteq registered',
         RunInv(w)', Cancelling(w)' => Cancelling(w) /\ Target(w)' = Target(w)
  PROVE  LedgerInv'
<1>1. TablesInv'
  BY DEF TablesInv, LedgerIsTruthful, satVars
<1>2. \A v \in Workers \ {w} : Steady(v)
  BY DEF RunsInv, RunInv, Steady, satVars
<1>3. ASSUME Cancelling(w)', NEW v \in Workers, Cancelling(v)', Target(v)' = Target(w)'
      PROVE  v = w
  <2>1. SUFFICES ASSUME v # w PROVE FALSE
    OBVIOUS
  <2>2. wk'[v] = wk[v] /\ Cancelling(v) /\ wk[v].pc # "idle"
    BY <1>3, <2>1 DEF Undisturbed, Cancelling
  <2>3. Target(v) = Target(w)
    BY <1>3, <2>1, <2>2 DEF Undisturbed
  <2> QED
    BY <1>3, <2>1, <2>2, <2>3 DEF RunsInv
<1>4. RunsInv'
  <2>1. annulled \subseteq annulled' /\ {w} \in SUBSET Workers
    BY DEF satVars
  <2>2. /\ \A v \in Workers \ {w} : Undisturbed(v) /\ Steady(v)
        /\ \A u \in {w} : RunInv(u)'
        /\ \A u \in {w} : Cancelling(u)' =>
             \A v \in Workers : Cancelling(v)' /\ Target(v)' = Target(u)' => v = u
    BY <1>2, <1>3
  <2> QED
    BY <2>1, <2>2, RunsStep
<1> QED
  BY <1>1, <1>4 DEF LedgerInv

\* The row of one document is written.
RowInv(d) ==
  /\ doc[d].status \in Settled <=> doc[d].xml # 0
  /\ doc[d].xml # 0 => <<d, doc[d].xml>> \in registered
  /\ doc[d].xml # 0 \/ doc[d].status = "submitting" => doc[d].requestXml # 0
  /\ doc[d].status = "cancelled" => d \in annulled
  /\ d \in asked \cup cancelBox => doc[d].status \in Asking

\* What is demanded of the documents, one document at a time.
LEMMA RowsHold ==
  ASSUME TypeOK
  PROVE  TablesInv <=> /\ annulled \subseteq asked /\ cancelBox \cap asked = {}
                       /\ \A d \in Docs : RowInv(d)
BY DEF TablesInv, LedgerIsTruthful, RowInv, Settled, Asking, TypeOK

\* One document is written, and its row holds afterwards.
LEMMA OneRowWritten ==
  ASSUME TypeOK, TypeOK', TablesInv, NEW d \in Docs, UNCHANGED <<satVars, registered>>,
         \A e \in Docs : e # d => doc'[e] = doc[e], RowInv(d)'
  PROVE  TablesInv'
<1>1. ASSUME NEW e \in Docs PROVE RowInv(e)'
  <2>1. CASE e = d
    BY <2>1
  <2>2. CASE e # d
    <3>1. doc'[e] = doc[e] /\ UNCHANGED <<registered, cancelBox, asked, annulled>>
      BY <2>2 DEF satVars
    <3>2. RowInv(e)
      BY RowsHold
    <3> QED
      BY <3>1, <3>2 DEF RowInv
  <2> QED
    BY <2>1, <2>2
<1>2. annulled' \subseteq asked' /\ cancelBox' \cap asked' = {} /\ cancelBox' \subseteq Docs
  BY DEF TablesInv, satVars, TypeOK
<1>3. LedgerIsTruthful'
  BY <1>1 DEF LedgerIsTruthful, RowInv, Settled, Asking
<1> QED
  BY <1>1, <1>2, <1>3 DEF TablesInv, RowInv

\* The process that holds its claim writes its document.
LEMMA WriteStepOfHolder ==
  ASSUME TypeOK, TypeOK', RowsInv, ClaimInv, LedgerInv, NEW w \in Workers, Holds(w),
         wk[w].pc # "idle", UNCHANGED <<job, satVars, registered>>,
         \A v \in Workers \ {w} : wk'[v] = wk[v],
         \A d \in Docs : d # Target(w) => doc'[d] = doc[d],
         NEW own, own = Target(w), RowInv(own)', RunInv(w)',
         \A v \in Workers \ {w} : Cancelling(v) /\ Target(v) = Target(w)
            => doc'[Target(w)].status \in Asking /\ ~Cancelling(w)',
         wk'[w].job = wk[w].job
  PROVE  LedgerInv'
<1>1. ASSUME NEW v \in Workers \ {w} PROVE Undisturbed(v)
  <2>1. wk'[v] = wk[v] /\ job' = job
    OBVIOUS
  <2>2. Target(v)' = Target(v)
    BY <2>1 DEF Target
  <2>3. Holds(v)' => Holds(v)
    BY <2>1 DEF Holds
  <2> QED
    BY <2>1, <2>2, <2>3 DEF Undisturbed
<1>2. \A v \in Workers : wk[v].pc # "idle" => wk[v].job \in Jobs /\ Target(v) \in Docs
  BY DEF RowsInv, Target
<1>3. TablesInv'
  <2>1. Target(w) \in Docs
    BY <1>2
  <2>2. PICK d \in Docs : d = Target(w)
    BY <2>1
  <2>3. RowInv(d)'
    BY <2>2
  <2>4. \A e \in Docs : e # d => doc'[e] = doc[e]
    BY <2>2
  <2> QED
    BY <2>3, <2>4, OneRowWritten DEF LedgerInv
<1>4. ASSUME NEW v \in Workers \ {w} PROVE Steady(v)
  <2>1. CASE wk[v].pc = "idle"
    <3>1. ~Cancelling(v) /\ ~Unsent(v)
      BY <2>1 DEF Cancelling, Unsent
    <3>2. CASE Holds(v)
      <4>1. wk[v].job \in Jobs /\ Target(v) \in Docs
        BY <3>2 DEF Holds, ClaimInv, RowsInv, Target
      <4>2. Target(v) # Target(w)
        BY <1>2, <3>2, <4>1 DEF ClaimInv, Holds, Target, Active
      <4> QED
        BY <3>1, <4>1, <4>2 DEF Steady
    <3> QED
      BY <3>1, <3>2 DEF Steady
  <2>2. CASE wk[v].pc # "idle"
    <3>1. Holds(v) => Target(v) # Target(w)
      BY <1>2, <2>2 DEF ClaimInv, Holds, Target, Active
    <3>2. Target(v) \in Docs /\ RunInv(v)
      BY <1>2, <2>2 DEF LedgerInv, RunsInv
    <3> QED
      BY <3>1, <3>2 DEF Steady, RunInv, satVars
  <2> QED
    BY <2>1, <2>2
<1>5. ASSUME Cancelling(w)', NEW v \in Workers, Cancelling(v)', Target(v)' = Target(w)'
      PROVE  v = w
  <2>1. Target(w)' = Target(w)
    BY DEF Target
  <2>2. v # w => wk'[v] = wk[v] /\ Target(v)' = Target(v) /\ Cancelling(v)
    BY <1>5 DEF Target, Cancelling
  <2> QED
    BY <1>5, <2>1, <2>2
<1>6. RunsInv'
  <2>1. /\ annulled \subseteq annulled' /\ registered \subseteq registered'
        /\ {w} \in SUBSET Workers
    BY DEF satVars
  <2>2. /\ \A v \in Workers \ {w} : Undisturbed(v) /\ Steady(v)
        /\ \A u \in {w} : RunInv(u)'
        /\ \A u \in {w} : Cancelling(u)' =>
             \A v \in Workers : Cancelling(v)' /\ Target(v)' = Target(u)' => v = u
    BY <1>1, <1>4, <1>5
  <2> QED
    BY <2>1, <2>2, RunsStep DEF LedgerInv
<1> QED
  BY <1>3, <1>6 DEF LedgerInv

-----------------------------------------------------------------------------
(* Steps that write no document and leave the SAT alone.                   *)

\* One process goes to another step, or becomes idle.
LEMMA AloneStep ==
  ASSUME TypeOK, NEW w \in Workers, NEW next, wk' = [wk EXCEPT ![w] = next], UNCHANGED job
  PROVE  \A v \in Workers \ {w} : Undisturbed(v)
<1>1. \A v \in Workers \ {w} : wk'[v] = wk[v]
  BY DEF TypeOK
<1>2. ASSUME NEW v \in Workers \ {w} PROVE Undisturbed(v)
  <2>1. Target(v)' = Target(v) /\ (Holds(v)' => Holds(v))
    BY <1>1 DEF Target, Holds
  <2> QED
    BY <1>1, <2>1 DEF Undisturbed
<1> QED
  BY <1>2

\* The fields of a process that moves, and the processes that do not.
LEMMA GotoFields ==
  ASSUME TypeOK, NEW w \in Workers, NEW s, Goto(w, s), UNCHANGED job
  PROVE  /\ wk'[w].pc = s /\ wk'[w].xml = wk[w].xml /\ wk'[w].verdict = wk[w].verdict
         /\ wk'[w].job = wk[w].job /\ Target(w)' = Target(w) /\ Holds(w)' = Holds(w)
         /\ \A v \in Workers \ {w} : Undisturbed(v)
<1>1. /\ wk'[w].pc = s /\ wk'[w].xml = wk[w].xml /\ wk'[w].verdict = wk[w].verdict
      /\ wk'[w].job = wk[w].job /\ wk'[w].token = wk[w].token
  BY DEF Goto, TypeOK, Process
<1>2. Target(w)' = Target(w) /\ Holds(w)' = Holds(w)
  BY <1>1 DEF Target, Holds
<1>3. \A v \in Workers \ {w} : Undisturbed(v)
  BY AloneStep DEF Goto
<1> QED
  BY <1>1, <1>2, <1>3

\* The same, with a verdict.
LEMMA ConcludeFields ==
  ASSUME TypeOK, NEW w \in Workers, NEW s, NEW verdict, Conclude(w, s, verdict), UNCHANGED job
  PROVE  /\ wk'[w].pc = s /\ wk'[w].xml = wk[w].xml /\ wk'[w].verdict = verdict
         /\ wk'[w].job = wk[w].job /\ Target(w)' = Target(w) /\ Holds(w)' = Holds(w)
         /\ \A v \in Workers \ {w} : Undisturbed(v)
<1>1. /\ wk'[w].pc = s /\ wk'[w].xml = wk[w].xml /\ wk'[w].verdict = verdict
      /\ wk'[w].job = wk[w].job /\ wk'[w].token = wk[w].token
      /\ wk' = [wk EXCEPT ![w] = [wk[w] EXCEPT !.pc = s, !.verdict = verdict]]
  BY DEF Conclude, TypeOK, Process
<1>2. Target(w)' = Target(w) /\ Holds(w)' = Holds(w)
  BY <1>1 DEF Target, Holds
<1>3. \A v \in Workers \ {w} : Undisturbed(v)
  BY <1>1, AloneStep
<1> QED
  BY <1>1, <1>2, <1>3

\* The same, with an XML.
LEMMA LoadFields ==
  ASSUME TypeOK, NEW w \in Workers, NEW s, NEW xml,
         wk' = [wk EXCEPT ![w].pc = s, ![w].xml = xml], UNCHANGED job
  PROVE  /\ wk'[w].pc = s /\ wk'[w].xml = xml /\ wk'[w].verdict = wk[w].verdict
         /\ wk'[w].job = wk[w].job /\ Target(w)' = Target(w) /\ Holds(w)' = Holds(w)
         /\ \A v \in Workers \ {w} : Undisturbed(v)
<1>1. /\ wk'[w].pc = s /\ wk'[w].xml = xml /\ wk'[w].verdict = wk[w].verdict
      /\ wk'[w].job = wk[w].job /\ wk'[w].token = wk[w].token
      /\ wk' = [wk EXCEPT ![w] = [wk[w] EXCEPT !.pc = s, !.xml = xml]]
  BY DEF TypeOK, Process
<1>2. Target(w)' = Target(w) /\ Holds(w)' = Holds(w)
  BY <1>1 DEF Target, Holds
<1>3. \A v \in Workers \ {w} : Undisturbed(v)
  BY <1>1, AloneStep
<1> QED
  BY <1>1, <1>2, <1>3

\* A process becomes idle.
LEMMA IdleMove ==
  ASSUME LedgerInv, NEW w \in Workers, wk'[w].pc = "idle",
         \A v \in Workers \ {w} : Undisturbed(v), UNCHANGED <<doc, satVars, registered>>
  PROVE  LedgerInv'
<1>1. RunInv(w)' /\ ~Cancelling(w)'
  BY DEF RunInv, Cancelling, Unsent
<1> QED
  BY <1>1, MoveStep DEF LedgerInv

\* The steps of a process that only move it.
LEMMA QuietMoves ==
  ASSUME TypeOK, RowsInv, LedgerInv, NEW w \in Workers,
         \/ Abort(w) \/ AlreadyStamped(w) \/ SendStamp(w) \/ QueryStamped(w) \/ PacStamps(w)
         \/ PacRejects(w) \/ StampUnclear(w) \/ AlreadyAsked(w) \/ CancelUnclear(w)
         \/ CancelSave(w) \/ QuerySat(w) \/ Render(w) \/ ReadOutcome(w) \/ Crash(w)
  PROVE  LedgerInv'
<1>0. RunInv(w)
  BY DEF LedgerInv, RunsInv
<1>1. CASE Abort(w)
  <2>1. RunInv(w)' /\ ~Cancelling(w)'
    BY <1>1, GotoFields DEF Abort, RunInv, Cancelling, Unsent
  <2>2. \A v \in Workers \ {w} : Undisturbed(v)
    BY <1>1, GotoFields DEF Abort
  <2> QED
    BY <1>1, <2>1, <2>2, MoveStep DEF Abort, LedgerInv, pacVars
<1>2. CASE AlreadyStamped(w) \/ AlreadyAsked(w) \/ CancelSave(w)
  <2>1. /\ Conclude(w, "finish", "succeeded")
        /\ UNCHANGED <<doc, job, satVars, registered>>
    BY <1>2 DEF AlreadyStamped, AlreadyAsked, CancelSave, pacVars
  <2>2. RunInv(w)' /\ ~Cancelling(w)'
    BY <2>1, ConcludeFields DEF RunInv, Cancelling, Unsent
  <2>3. \A v \in Workers \ {w} : Undisturbed(v)
    BY <2>1, ConcludeFields
  <2> QED
    BY <2>1, <2>2, <2>3, MoveStep DEF LedgerInv
<1>3. CASE SendStamp(w)
  <2>1. /\ wk[w].pc = "send" /\ Goto(w, "await")
        /\ UNCHANGED <<doc, job, satVars, registered>>
    BY <1>3 DEF SendStamp
  <2>2. RunInv(w)' /\ ~Cancelling(w)'
    BY <1>0, <2>1, GotoFields DEF RunInv, Cancelling, Unsent
  <2>3. \A v \in Workers \ {w} : Undisturbed(v)
    BY <2>1, GotoFields
  <2> QED
    BY <2>1, <2>2, <2>3, MoveStep DEF LedgerInv
<1>4. CASE QueryStamped(w) \/ PacStamps(w)
  <2>1. /\ wk[w].pc \in {"send", "await"} /\ Goto(w, "save")
        /\ UNCHANGED <<doc, job, satVars>> /\ registered \subseteq registered'
        /\ <<Target(w), wk[w].xml>> \in registered'
    BY <1>4 DEF QueryStamped, PacStamps, pacVars
  <2>2. RunInv(w)' /\ ~Cancelling(w)'
    BY <1>0, <2>1, GotoFields DEF RunInv, Cancelling, Unsent
  <2>3. \A v \in Workers \ {w} : Undisturbed(v)
    BY <2>1, GotoFields
  <2> QED
    BY <2>1, <2>2, <2>3, MoveStep DEF LedgerInv
<1>5. CASE PacRejects(w) \/ StampUnclear(w)
  <2>1. /\ wk[w].pc \in {"send", "await", "save"}
        /\ \E verdict \in Verdicts : Conclude(w, "fail", verdict)
        /\ UNCHANGED <<doc, job, satVars, registered>>
    BY <1>5 DEF PacRejects, StampUnclear, pacVars, Verdicts
  <2>2. RunInv(w)' /\ ~Cancelling(w)'
    BY <1>0, <2>1, ConcludeFields DEF RunInv, Cancelling, Unsent
  <2>3. \A v \in Workers \ {w} : Undisturbed(v)
    BY <2>1, ConcludeFields
  <2> QED
    BY <2>1, <2>2, <2>3, MoveStep DEF LedgerInv
<1>6. CASE CancelUnclear(w)
  <2>1. /\ Conclude(w, "cancelFail", "cancel_pending")
        /\ UNCHANGED <<doc, job, satVars, registered>>
    BY <1>6 DEF CancelUnclear, pacVars
  <2>2. RunInv(w)' /\ ~Cancelling(w)'
    BY <2>1, ConcludeFields DEF RunInv, Cancelling, Unsent
  <2>3. \A v \in Workers \ {w} : Undisturbed(v)
    BY <2>1, ConcludeFields
  <2> QED
    BY <2>1, <2>2, <2>3, MoveStep DEF LedgerInv
<1>7. CASE QuerySat(w)
  <2>1. /\ \/ Target(w) \in annulled /\ Goto(w, "refreshSave")
           \/ Conclude(w, "finish", "succeeded")
           \/ Goto(w, "except")
        /\ UNCHANGED <<doc, job, satVars, registered>>
    BY <1>7 DEF QuerySat, pacVars
  <2>2. UNCHANGED annulled
    BY <2>1 DEF satVars
  <2>3. RunInv(w)' /\ ~Cancelling(w)'
    BY <2>1, <2>2, GotoFields, ConcludeFields DEF RunInv, Cancelling, Unsent
  <2>4. \A v \in Workers \ {w} : Undisturbed(v)
    BY <2>1, GotoFields, ConcludeFields
  <2> QED
    BY <2>1, <2>3, <2>4, MoveStep DEF LedgerInv
<1>8. CASE Render(w)
  <2>1. /\ \/ Conclude(w, "finish", "succeeded")
           \/ wk' = [wk EXCEPT ![w].pc = "pdfSave", ![w].xml = doc[Target(w)].xml]
        /\ UNCHANGED <<doc, job, satVars, registered>>
    BY <1>8 DEF Render, pacVars
  <2>2. RunInv(w)' /\ ~Cancelling(w)'
    BY <2>1, LoadFields, ConcludeFields DEF RunInv, Cancelling, Unsent
  <2>3. \A v \in Workers \ {w} : Undisturbed(v)
    BY <2>1, LoadFields, ConcludeFields
  <2> QED
    BY <2>1, <2>2, <2>3, MoveStep DEF LedgerInv
<1>9. CASE ReadOutcome(w)
  <2>1. /\ \E verdict \in {"review", "failed"} :
             /\ Conclude(w, "finish", verdict)
             /\ verdict = "failed" => doc[Target(w)].status \notin Ambiguous
        /\ UNCHANGED <<doc, job, satVars, registered>>
    BY <1>9 DEF ReadOutcome, pacVars
  <2>2. RunInv(w)' /\ ~Cancelling(w)'
    BY <2>1, ConcludeFields DEF RunInv, Cancelling, Unsent
  <2>3. \A v \in Workers \ {w} : Undisturbed(v)
    BY <2>1, ConcludeFields
  <2> QED
    BY <2>1, <2>2, <2>3, MoveStep DEF LedgerInv
<1>10. CASE Crash(w)
  <2>1. wk' = [wk EXCEPT ![w] = Idle] /\ UNCHANGED <<doc, job, satVars, registered>>
    BY <1>10 DEF Crash, pacVars
  <2>2. wk'[w].pc = "idle"
    BY <2>1 DEF TypeOK, Idle
  <2> QED
    BY <2>1, <2>2, AloneStep, IdleMove
<1> QED
  BY <1>1, <1>2, <1>3, <1>4, <1>5, <1>6, <1>7, <1>8, <1>9, <1>10

-----------------------------------------------------------------------------
(* A process that holds its claim writes the document.                     *)

\* The steps of a process that write its document.
LEMMA HolderWrites ==
  ASSUME TypeOK, TypeOK', RowsInv, ClaimInv, LedgerInv, NEW w \in Workers,
         \/ Sign(w) \/ StampBegin(w) \/ StampSave(w) \/ StampFail(w)
         \/ CancelBegin(w) \/ CancelFail(w) \/ RefreshSave(w) \/ PdfSave(w)
  PROVE  LedgerInv'
<1>0. Target(w) \in Docs
  BY DEF Sign, StampBegin, StampSave, StampFail, CancelBegin, CancelFail, RefreshSave,
     PdfSave, RowsInv, Target, Holds
<1>a. PICK d \in Docs : d = Target(w)
  BY <1>0
<1>1. /\ Holds(w) /\ wk[w].pc # "idle" /\ d \in Docs
      /\ UNCHANGED <<job, satVars, registered>>
  BY <1>a DEF Sign, StampBegin, StampSave, StampFail, CancelBegin, CancelFail,
     RefreshSave, PdfSave, pacVars
<1>2. UNCHANGED <<cancelBox, asked, annulled, registered>>
  BY <1>1 DEF satVars
<1>3. RowInv(d) /\ RunInv(w) /\ doc[d] \in DocRow
  BY <1>1, RowsHold DEF LedgerInv, RunsInv, TypeOK
<1>4. /\ \A e \in Docs : e # d => doc'[e] = doc[e]
      /\ \A v \in Workers \ {w} : wk'[v] = wk[v]
  BY <1>a DEF Sign, StampBegin, StampSave, StampFail, CancelBegin, CancelFail, RefreshSave,
     PdfSave, Goto, Conclude, TypeOK
<1>5. ASSUME NEW v \in Workers \ {w}, Cancelling(v), Target(v) = d
      PROVE  doc[d].status \in Asking /\ ~Cancelling(w)
  BY <1>a, <1>5 DEF LedgerInv, RunsInv, RunInv
<1>6. SUFFICES /\ RowInv(d)' /\ RunInv(w)' /\ wk'[w].job = wk[w].job
               /\ \A v \in Workers \ {w} : Cancelling(v) /\ Target(v) = d
                    => doc'[d].status \in Asking /\ ~Cancelling(w)'
  BY <1>a, <1>1, <1>4, WriteStepOfHolder
<1>7. CASE Sign(w)
  <2>0. /\ Goto(w, "begin")
        /\ \/ doc' = doc
           \/ /\ doc[d].status = "draft"
              /\ doc' = [doc EXCEPT ![d].requestXml = doc[d].signatures + 1,
                                   ![d].signatures = doc[d].signatures + 1]
    BY <1>a, <1>7 DEF Sign
  <2>1. /\ doc'[d].status = doc[d].status /\ doc'[d].xml = doc[d].xml
        /\ doc'[d].requestXml = doc[d].requestXml \/ doc'[d].requestXml # 0
    BY <1>1, <1>3, <2>0 DEF TypeOK, DocRow
  <2>2. RowInv(d)'
    BY <1>2, <1>3, <2>1 DEF RowInv
  <2>3. RunInv(w)' /\ ~Cancelling(w)' /\ wk'[w].job = wk[w].job
    BY <1>1, <2>0, GotoFields DEF RunInv, Cancelling, Unsent
  <2> QED
    BY <1>5, <2>1, <2>2, <2>3
<1>8. CASE StampBegin(w)
  <2>0. /\ wk' = [wk EXCEPT ![w].pc = "send", ![w].xml = doc[d].requestXml]
        /\ doc[d].status \notin Settled /\ doc[d].requestXml # 0
        /\ doc' = [doc EXCEPT ![d].status = "submitting"]
    BY <1>a, <1>8 DEF StampBegin, Settled
  <2>1. /\ doc'[d].status = "submitting" /\ doc'[d].xml = doc[d].xml
        /\ doc'[d].requestXml = doc[d].requestXml
    BY <1>1, <1>3, <2>0 DEF TypeOK, DocRow
  <2>2. RowInv(d)'
    BY <1>2, <1>3, <2>0, <2>1 DEF RowInv, Settled, Asking
  <2>3. RunInv(w)' /\ ~Cancelling(w)' /\ wk'[w].job = wk[w].job
    <3>1. /\ wk'[w].pc = "send" /\ wk'[w].xml = doc[d].requestXml
          /\ wk'[w].job = wk[w].job /\ Target(w)' = Target(w)
      <4>1. /\ wk'[w].pc = "send" /\ wk'[w].xml = doc[d].requestXml
            /\ wk'[w].job = wk[w].job
        BY <2>0 DEF TypeOK, Process
      <4> QED
        BY <1>1, <4>1 DEF Target
    <3> QED
      BY <1>a, <2>0, <2>1, <3>1 DEF RunInv, Cancelling, Unsent
  <2> QED
    BY <1>5, <2>0, <2>2, <2>3 DEF Settled, Asking
<1>9. CASE StampSave(w)
  <2>0. /\ wk[w].pc = "save" /\ Conclude(w, "finish", "succeeded")
        /\ doc' = [doc EXCEPT ![d].xml = wk[w].xml, ![d].status = "stamped"]
    BY <1>a, <1>9 DEF StampSave
  <2>1. /\ doc'[d].status = "stamped" /\ doc'[d].xml = wk[w].xml
        /\ doc'[d].requestXml = doc[d].requestXml
    BY <1>1, <1>3, <2>0 DEF TypeOK, DocRow
  <2>2. /\ doc[d].status = "submitting" /\ wk[w].xml # 0
        /\ <<d, wk[w].xml>> \in registered
    BY <1>a, <1>1, <1>3, <2>0 DEF RunInv
  <2>3. doc[d].requestXml # 0
    BY <1>3, <2>2 DEF RowInv
  <2>4. RowInv(d)'
    BY <1>2, <1>3, <2>1, <2>2, <2>3 DEF RowInv, Settled, Asking
  <2>5. RunInv(w)' /\ ~Cancelling(w)' /\ wk'[w].job = wk[w].job
    BY <1>1, <2>0, ConcludeFields DEF RunInv, Cancelling, Unsent
  <2> QED
    BY <1>5, <2>2, <2>4, <2>5 DEF Asking
<1>10. CASE StampFail(w)
  <2>0. /\ wk[w].pc = "fail" /\ Goto(w, "except")
        /\ wk[w].verdict \in {"error", "uncertain"}
        /\ doc' = [doc EXCEPT ![d].status = wk[w].verdict]
    BY <1>a, <1>10 DEF StampFail, RowsInv
  <2>1. /\ doc'[d].status \in {"error", "uncertain"} /\ doc'[d].xml = doc[d].xml
        /\ doc'[d].requestXml = doc[d].requestXml
    BY <1>1, <1>3, <2>0 DEF TypeOK, DocRow
  <2>2. doc[d].status = "submitting"
    BY <1>a, <1>1, <1>3, <2>0 DEF RunInv
  <2>3. RowInv(d)'
    BY <1>2, <1>3, <2>1, <2>2 DEF RowInv, Settled, Asking
  <2>4. RunInv(w)' /\ ~Cancelling(w)' /\ wk'[w].job = wk[w].job
    BY <1>1, <2>0, GotoFields DEF RunInv, Cancelling, Unsent
  <2> QED
    BY <1>5, <2>2, <2>3, <2>4 DEF Asking
<1>11. CASE CancelBegin(w)
  <2>0. /\ Goto(w, "cancelSend") /\ doc[d].status = "stamped"
        /\ doc' = [doc EXCEPT ![d].status = "cancel_pending"]
    BY <1>a, <1>11 DEF CancelBegin
  <2>1. /\ doc'[d].status = "cancel_pending" /\ doc'[d].xml = doc[d].xml
        /\ doc'[d].requestXml = doc[d].requestXml
    BY <1>1, <1>3, <2>0 DEF TypeOK, DocRow
  <2>2. RowInv(d)'
    BY <1>2, <1>3, <2>0, <2>1 DEF RowInv, Settled, Asking
  <2>3. d \notin cancelBox \cup asked
    BY <1>3, <2>0 DEF RowInv, Asking
  <2>4. RunInv(w)' /\ wk'[w].job = wk[w].job
    <3>1. /\ wk'[w].pc = "cancelSend" /\ wk'[w].job = wk[w].job /\ Target(w)' = d
      BY <1>a, <1>1, <2>0, GotoFields
    <3> QED
      BY <1>2, <2>1, <2>3, <3>1 DEF RunInv, Cancelling, Unsent, Asking
  <2> QED
    BY <1>5, <2>0, <2>2, <2>4 DEF Asking
<1>12. CASE CancelFail(w)
  <2>1. Goto(w, "except") /\ wk[w].pc = "cancelFail"
    BY <1>12 DEF CancelFail
  <2>2. RunInv(w)' /\ ~Cancelling(w)' /\ wk'[w].job = wk[w].job
    BY <1>1, <2>1, GotoFields DEF RunInv, Cancelling, Unsent
  <2>3. CASE wk[w].verdict = "stamped"
    <3>0. doc' = [doc EXCEPT ![d].status = "stamped"]
      BY <1>a, <1>12, <2>3 DEF CancelFail
    <3>1. /\ doc'[d].status = "stamped" /\ doc'[d].xml = doc[d].xml
          /\ doc'[d].requestXml = doc[d].requestXml
      BY <1>1, <1>3, <3>0 DEF TypeOK, DocRow
    <3>2. Cancelling(w) /\ doc[d].status \in Asking /\ d \notin cancelBox \cup asked
      BY <1>a, <1>3, <2>1, <2>3 DEF RunInv, Cancelling, Unsent
    <3>3. RowInv(d)'
      BY <1>2, <1>3, <3>1, <3>2 DEF RowInv, Settled, Asking
    <3> QED
      BY <1>5, <2>2, <3>2, <3>3
  <2>4. CASE wk[w].verdict # "stamped"
    <3>1. doc' = doc
      BY <1>12, <2>4 DEF CancelFail
    <3> QED
      BY <1>2, <1>3, <1>5, <2>2, <3>1 DEF RowInv
  <2> QED
    BY <2>3, <2>4
<1>13. CASE RefreshSave(w)
  <2>0. /\ wk[w].pc = "refreshSave" /\ Conclude(w, "finish", "succeeded")
        /\ doc' = [doc EXCEPT ![d].status = "cancelled"]
    BY <1>a, <1>13 DEF RefreshSave
  <2>1. /\ doc'[d].status = "cancelled" /\ doc'[d].xml = doc[d].xml
        /\ doc'[d].requestXml = doc[d].requestXml
    BY <1>1, <1>3, <2>0 DEF TypeOK, DocRow
  <2>2. d \in annulled /\ d \in asked
    BY <1>a, <1>3, <2>0 DEF RunInv, LedgerInv, TablesInv
  <2>3. RowInv(d)'
    BY <1>2, <1>3, <2>1, <2>2 DEF RowInv, Settled, Asking
  <2>4. RunInv(w)' /\ ~Cancelling(w)' /\ wk'[w].job = wk[w].job
    BY <1>1, <2>0, ConcludeFields DEF RunInv, Cancelling, Unsent
  <2> QED
    BY <1>5, <2>1, <2>3, <2>4 DEF Asking
<1>14. CASE PdfSave(w)
  <2>0. /\ Conclude(w, "finish", "succeeded")
        /\ doc' = doc \/ doc' = [doc EXCEPT ![d].pdf = wk[w].xml]
    BY <1>a, <1>14 DEF PdfSave
  <2>1. /\ doc'[d].status = doc[d].status /\ doc'[d].xml = doc[d].xml
        /\ doc'[d].requestXml = doc[d].requestXml
    BY <1>1, <1>3, <2>0 DEF TypeOK, DocRow
  <2>2. RowInv(d)'
    BY <1>2, <1>3, <2>1 DEF RowInv
  <2>3. RunInv(w)' /\ ~Cancelling(w)' /\ wk'[w].job = wk[w].job
    BY <1>1, <2>0, ConcludeFields DEF RunInv, Cancelling, Unsent
  <2> QED
    BY <1>5, <2>1, <2>2, <2>3
<1> QED
  BY <1>7, <1>8, <1>9, <1>10, <1>11, <1>12, <1>13, <1>14

-----------------------------------------------------------------------------
(* Steps of the PAC, the SAT and the rows.                                 *)

\* No process moves, no document is written.
LEMMA RestStep ==
  ASSUME RunsInv, TablesInv, UNCHANGED <<doc, satVars>>, registered \subseteq registered',
         \A v \in Workers : Undisturbed(v)
  PROVE  LedgerInv'
<1>1. TablesInv'
  BY DEF TablesInv, LedgerIsTruthful, satVars
<1>2. \A v \in Workers \ {} : Undisturbed(v) /\ Steady(v)
  BY DEF RunsInv, RunInv, Steady, satVars
<1>3. annulled \subseteq annulled' /\ {} \in SUBSET Workers
  BY DEF satVars
<1>4. RunsInv'
  BY <1>2, <1>3, RunsStep
<1> QED
  BY <1>1, <1>4 DEF LedgerInv

\* A process's cancellation call reaches the PAC or is decided.
LEMMA CallStep ==
  ASSUME RunsInv, TablesInv, NEW w \in Workers, Cancelling(w), Target(w) \in Docs,
         UNCHANGED <<doc, registered, annulled>>, Target(w)' = Target(w), RunInv(w)',
         \A v \in Workers \ {w} : Undisturbed(v),
         cancelBox' \cup asked' \subseteq cancelBox \cup asked \cup {Target(w)},
         asked \subseteq asked', cancelBox' \cap asked' = {}
  PROVE  LedgerInv'
<1>1. doc[Target(w)].status \in Asking
  BY DEF RunsInv, RunInv
<1>2. TablesInv'
  <2>1. \A d \in Docs : d \in cancelBox \cup asked \cup {Target(w)} => doc[d].status \in Asking
    BY <1>1 DEF TablesInv, LedgerIsTruthful, Asking
  <2>2. LedgerIsTruthful'
    BY <2>1 DEF TablesInv, LedgerIsTruthful, Asking
  <2>3. \A d \in cancelBox' : doc'[d].status \in Asking
    BY <1>1 DEF TablesInv
  <2> QED
    BY <2>2, <2>3 DEF TablesInv
<1>3. ASSUME NEW v \in Workers \ {w} PROVE Steady(v)
  <2>1. Cancelling(v) => Target(v) # Target(w)
    BY DEF RunsInv
  <2>2. Unsent(v) => Cancelling(v)
    BY DEF Unsent, Cancelling
  <2> QED
    BY <2>1, <2>2 DEF RunsInv, RunInv, Steady
<1>4. ASSUME NEW v \in Workers, Cancelling(v)', Target(v)' = Target(w)'
      PROVE  v = w
  <2>1. SUFFICES ASSUME v # w PROVE FALSE
    OBVIOUS
  <2>2. wk'[v] = wk[v] /\ Cancelling(v) /\ wk[v].pc # "idle"
    BY <1>4, <2>1 DEF Undisturbed, Cancelling
  <2>3. Target(v) = Target(w)
    BY <1>4, <2>1, <2>2 DEF Undisturbed
  <2> QED
    BY <2>1, <2>2, <2>3 DEF RunsInv
<1>5. RunsInv'
  <2>1. {w} \in SUBSET Workers /\ annulled \subseteq annulled' /\ registered \subseteq registered'
    OBVIOUS
  <2>2. /\ \A v \in Workers \ {w} : Undisturbed(v) /\ Steady(v)
        /\ \A u \in {w} : RunInv(u)'
        /\ \A u \in {w} : Cancelling(u)' =>
             \A v \in Workers : Cancelling(v)' /\ Target(v)' = Target(u)' => v = u
    BY <1>3, <1>4
  <2> QED
    BY <2>1, <2>2, RunsStep
<1> QED
  BY <1>2, <1>5 DEF LedgerInv

\* A cancellation call is sent, forwarded to the SAT, or refused.
LEMMA CallSteps ==
  ASSUME TypeOK, RowsInv, LedgerInv, NEW w \in Workers,
         SendCancel(w) \/ PacForwardsCancel(w) \/ PacRejectsCancel(w)
  PROVE  LedgerInv'
<1>1. /\ Cancelling(w) /\ wk[w].pc # "idle" /\ UNCHANGED <<doc, job, registered, annulled>>
  BY DEF SendCancel, PacForwardsCancel, PacRejectsCancel, Cancelling, pacVars
<1>2. Target(w) \in Docs /\ RunInv(w) /\ RunsInv /\ TablesInv
  BY <1>1 DEF RowsInv, Target, LedgerInv, RunsInv
<1>3. CASE SendCancel(w)
  <2>1. /\ wk[w].pc = "cancelSend" /\ Goto(w, "cancelAwait")
        /\ cancelBox' = cancelBox \cup {Target(w)} /\ asked' = asked
    BY <1>3 DEF SendCancel
  <2>2. Target(w) \notin asked
    BY <1>2, <2>1 DEF RunInv, Unsent
  <2>3. /\ wk'[w].pc = "cancelAwait" /\ Target(w)' = Target(w)
        /\ \A v \in Workers \ {w} : Undisturbed(v)
    BY <1>1, <2>1, GotoFields
  <2>4. RunInv(w)'
    BY <1>1, <1>2, <2>3 DEF RunInv, Cancelling, Unsent
  <2> QED
    BY <1>1, <1>2, <2>1, <2>2, <2>3, <2>4, CallStep DEF TablesInv
<1>4. CASE PacForwardsCancel(w)
  <2>1. /\ Goto(w, "cancelSave") /\ Target(w) \in cancelBox
        /\ cancelBox' = cancelBox \ {Target(w)} /\ asked' = asked \cup {Target(w)}
    BY <1>4 DEF PacForwardsCancel
  <2>2. /\ wk'[w].pc = "cancelSave" /\ Target(w)' = Target(w)
        /\ \A v \in Workers \ {w} : Undisturbed(v)
    BY <1>1, <2>1, GotoFields
  <2>3. RunInv(w)'
    BY <2>2 DEF RunInv, Cancelling, Unsent
  <2> QED
    BY <1>1, <1>2, <2>1, <2>2, <2>3, CallStep DEF TablesInv
<1>5. CASE PacRejectsCancel(w)
  <2>1. /\ Conclude(w, "cancelFail", "stamped") /\ Target(w) \in cancelBox
        /\ cancelBox' = cancelBox \ {Target(w)} /\ asked' = asked
    BY <1>5 DEF PacRejectsCancel
  <2>2. /\ wk'[w].pc = "cancelFail" /\ Target(w)' = Target(w)
        /\ \A v \in Workers \ {w} : Undisturbed(v)
    BY <1>1, <2>1, ConcludeFields
  <2>3. Target(w) \notin cancelBox' \cup asked'
    BY <1>2, <2>1 DEF TablesInv
  <2>4. RunInv(w)'
    BY <1>1, <1>2, <2>2, <2>3 DEF RunInv, Cancelling, Unsent
  <2> QED
    BY <1>1, <1>2, <2>1, <2>2, <2>4, CallStep DEF TablesInv
<1> QED
  BY <1>3, <1>4, <1>5

\* What the PAC and the SAT do by themselves.
LEMMA RemoteSteps ==
  ASSUME LedgerInv,
         \/ \E call \in inbox : PacStampsUnheard(call)
         \/ \E d \in Docs : PacForwardsUnheard(d) \/ SatAnnuls(d)
  PROVE  LedgerInv'
<1>1. \A v \in Workers : Undisturbed(v)
  BY DEF PacStampsUnheard, PacForwardsUnheard, SatAnnuls, Undisturbed, Target, Holds
<1>2. RunsInv /\ TablesInv
  BY DEF LedgerInv
<1>3. CASE \E call \in inbox : PacStampsUnheard(call)
  <2>1. UNCHANGED <<doc, satVars>> /\ registered \subseteq registered'
    BY <1>3 DEF PacStampsUnheard
  <2> QED
    BY <1>1, <1>2, <2>1, RestStep
<1>4. ASSUME NEW d \in Docs, PacForwardsUnheard(d) \/ SatAnnuls(d)
      PROVE  LedgerInv'
  <2>1. /\ UNCHANGED <<doc, wk, job, registered>>
        /\ annulled \subseteq annulled' /\ annulled' \subseteq asked'
        /\ cancelBox' \cup asked' = cancelBox \cup asked /\ cancelBox' \cap asked' = {}
        /\ cancelBox' \subseteq cancelBox
    BY <1>2, <1>4 DEF PacForwardsUnheard, SatAnnuls, TablesInv, pacVars
  <2>2. TablesInv'
    BY <1>2, <2>1 DEF TablesInv, LedgerIsTruthful, Asking
  <2>3. \A v \in Workers \ {} : Undisturbed(v) /\ Steady(v)
    BY <1>1, <1>2, <2>1 DEF RunsInv, RunInv, Steady
  <2>4. {} \in SUBSET Workers /\ registered \subseteq registered'
    BY <2>1
  <2>5. RunsInv'
    BY <1>2, <2>1, <2>3, <2>4, RunsStep
  <2> QED
    BY <2>2, <2>5 DEF LedgerInv
<1> QED
  BY <1>3, <1>4

\* A request takes a row that no process has.
LEMMA EnqueueRests ==
  ASSUME TypeOK, RowsInv, NEW op, NEW d, NEW row, Enqueue(op, d, row),
         NEW v \in Workers, wk[v].pc # "idle"
  PROVE  job'[wk[v].job] = job[wk[v].job]
BY DEF Enqueue, TypeOK, RowsInv

\* A process claims a row, or its run ends.
LEMMA RowSteps ==
  ASSUME TypeOK, RowsInv, ClaimInv, LedgerInv, NEW w \in Workers,
         Finish(w) \/ ChainPdf(w) \/ \E j \in Jobs : Claim(w, j)
  PROVE  LedgerInv'
<1>1. UNCHANGED <<doc, satVars, registered>>
  BY DEF Finish, ChainPdf, Claim, pacVars
<1>2. RunsInv /\ TablesInv
  BY DEF LedgerInv
<1>3. ASSUME NEW next, wk' = [wk EXCEPT ![w] = next], NEW v \in Workers \ {w},
             wk[v].pc # "idle" => /\ job'[wk[v].job].doc = job[wk[v].job].doc
                                  /\ Holds(v)' => Holds(v)
      PROVE  Undisturbed(v)
  <2>1. wk'[v] = wk[v]
    BY <1>3 DEF TypeOK
  <2> QED
    BY <1>3, <2>1 DEF Undisturbed, Target
<1>4. CASE Finish(w)
  <2>1. wk[w].job \in Jobs /\ wk[w].verdict \in Finished
    BY <1>4 DEF Finish, RowsInv
  <2>2. PICK next \in {Idle, [wk[w] EXCEPT !.pc = "chain"]} : wk' = [wk EXCEPT ![w] = next]
    BY <1>4 DEF Finish, Goto, TypeOK, Process
  <2>3. RunInv(w)' /\ ~Cancelling(w)'
    <3>1. wk'[w].pc \in {"idle", "chain"}
      BY <2>2 DEF TypeOK, Process, Idle
    <3> QED
      BY <3>1 DEF RunInv, Cancelling, Unsent
  <2>4. ASSUME NEW v \in Workers \ {w} PROVE Undisturbed(v)
    <3>1. wk'[v] = wk[v]
      BY <2>2 DEF TypeOK
    <3>2. \A j \in Jobs : /\ job'[j].doc = job[j].doc
                          /\ job'[j] = job[j] \/ job'[j].status # "running"
      BY <1>4, <2>1 DEF Finish, TypeOK, JobRow, Finished
    <3>3. wk[v].pc # "idle" => wk[v].job \in Jobs
      BY DEF RowsInv
    <3>4. Holds(v)' => Holds(v)
      BY <3>1, <3>2 DEF Holds
    <3> QED
      BY <1>3, <2>2, <3>2, <3>3, <3>4
  <2> QED
    BY <1>1, <1>2, <2>3, <2>4, MoveStep
<1>5. CASE ChainPdf(w)
  <2>1. wk' = [wk EXCEPT ![w] = Idle]
    BY <1>5 DEF ChainPdf
  <2>2. wk'[w].pc = "idle"
    BY <2>1 DEF TypeOK, Idle
  <2>3. ASSUME NEW v \in Workers \ {w} PROVE Undisturbed(v)
    <3>1. wk'[v] = wk[v]
      BY <2>1 DEF TypeOK
    <3>2. CASE wk[v].pc = "idle"
      BY <3>1, <3>2 DEF Undisturbed
    <3>3. CASE wk[v].pc # "idle"
      <4>1. job'[wk[v].job] = job[wk[v].job]
        BY <1>5, <3>3, EnqueueRests DEF ChainPdf
      <4> QED
        BY <3>1, <4>1 DEF Undisturbed, Target, Holds
    <3> QED
      BY <3>2, <3>3
  <2> QED
    BY <1>1, <2>2, <2>3, IdleMove
<1>6. ASSUME NEW j \in Jobs, Claim(w, j) PROVE LedgerInv'
  <2>1. /\ job[j].status = "queued"
        /\ job' = [job EXCEPT ![j].status = "running", ![j].attempts = job[j].attempts + 1,
                             ![j].token = job[j].attempts + 1, ![j].lease = "live"]
        /\ wk' = [wk EXCEPT ![w] = [pc |-> FirstStep(job[j].op), job |-> j,
                                   token |-> job[j].attempts + 1, op |-> job[j].op,
                                   xml |-> 0, verdict |-> "none"]]
    BY <1>6 DEF Claim
  <2>2. /\ job'[j].doc = job[j].doc /\ job'[j].token = job[j].attempts + 1
        /\ \A k \in Jobs : k # j => job'[k] = job[k]
    BY <2>1 DEF TypeOK, JobRow
  <2>3. wk'[w].pc = FirstStep(job[j].op) /\ \A v \in Workers \ {w} : wk'[v] = wk[v]
    BY <2>1 DEF TypeOK
  <2>4. wk'[w].pc \in {"sign", "begin", "cancelBegin", "refresh", "render"}
    BY <2>3 DEF FirstStep, TypeOK, JobRow, Operations
  <2>5. RunInv(w)' /\ ~Cancelling(w)'
    BY <2>4 DEF RunInv, Cancelling, Unsent
  <2>6. ASSUME NEW v \in Workers \ {w} PROVE Undisturbed(v)
    <3>1. wk[v].pc # "idle" => wk[v].job \in Jobs
      BY DEF RowsInv
    <3>2. CASE wk[v].job = j
      <4>1. wk[v].token \in Nat /\ job[j].attempts \in Nat /\ wk[v].token <= job[j].attempts
        BY <3>2, ConstantsAssumption DEF ClaimInv, TypeOK, Process, JobRow
      <4>2. ~Holds(v)'
        BY <2>2, <2>3, <3>2, <4>1 DEF Holds
      <4> QED
        BY <2>2, <2>3, <3>2, <4>2 DEF Undisturbed, Target
    <3>3. CASE wk[v].job # j
      BY <2>2, <2>3, <3>1, <3>3 DEF Undisturbed, Target, Holds
    <3> QED
      BY <3>2, <3>3
  <2> QED
    BY <1>1, <1>2, <2>5, <2>6, MoveStep
<1> QED
  BY <1>4, <1>5, <1>6

\* A document is written that no process holds.
LEMMA FreeWrite ==
  ASSUME TypeOK, TypeOK', LedgerInv, NEW d \in Docs, UNCHANGED <<wk, satVars, registered>>,
         \A v \in Workers : Undisturbed(v) /\ ~(Holds(v) /\ Target(v) = d),
         \A e \in Docs : e # d => doc'[e] = doc[e], RowInv(d)',
         doc[d].status \in Asking => doc'[d].status = doc[d].status,
         \A v \in Workers : Holds(v) \/ wk[v].pc # "idle" => Target(v) \in Docs
  PROVE  LedgerInv'
<1>1. RunsInv /\ TablesInv
  BY DEF LedgerInv
<1>2. TablesInv'
  BY <1>1, OneRowWritten
<1>3. ASSUME NEW v \in Workers PROVE Steady(v)
  <2>1. Cancelling(v) \/ Unsent(v) => wk[v].pc # "idle"
    BY DEF Cancelling, Unsent
  <2> QED
    BY <1>1, <2>1 DEF RunsInv, RunInv, Steady, satVars
<1>4. /\ \A v \in Workers \ {} : Undisturbed(v) /\ Steady(v)
      /\ {} \in SUBSET Workers /\ annulled \subseteq annulled' /\ registered \subseteq registered'
  BY <1>3 DEF satVars
<1>5. RunsInv'
  BY <1>1, <1>4, RunsStep
<1> QED
  BY <1>2, <1>5 DEF LedgerInv

\* A repeated request for a document that is not finished makes it a draft again.
LEMMA RequestStampLedger ==
  ASSUME TypeOK, TypeOK', RowsInv, LedgerInv, NEW d \in Docs, RequestStamp(d)
  PROVE  LedgerInv'
<1>1. /\ Enqueue("stamp", d, Prepared(d)) /\ doc' = [doc EXCEPT ![d] = Prepared(d)]
      /\ UNCHANGED <<wk, satVars, registered>>
  BY DEF RequestStamp, pacVars
<1>2. \A v \in Workers : wk[v].pc # "idle" => job'[wk[v].job] = job[wk[v].job]
  BY <1>1, EnqueueRests
<1>3. ASSUME NEW v \in Workers PROVE Undisturbed(v) /\ ~(Holds(v) /\ Target(v) = d)
  <2>1. ~(Holds(v) /\ Target(v) = d)
    BY <1>1 DEF Enqueue, HasActiveJob, Holds, Target, Active
  <2> QED
    BY <1>1, <1>2, <2>1 DEF Undisturbed, Target, Holds
<1>4. RowInv(d) /\ doc[d] \in DocRow
  BY RowsHold DEF LedgerInv, TypeOK
<1>5. \A e \in Docs : e # d => doc'[e] = doc[e]
  BY <1>1 DEF TypeOK
<1>6. doc'[d] = Prepared(d)
  BY <1>1 DEF TypeOK
<1>7. \/ doc'[d] = doc[d]
      \/ /\ doc'[d].status = "draft" /\ doc'[d].xml = doc[d].xml
         /\ doc[d].requestXml = 0 \/ doc[d].status = "error"
  BY <1>4, <1>6 DEF Prepared, DocRow
<1>8. UNCHANGED <<registered, cancelBox, asked, annulled>>
  BY <1>1 DEF satVars
<1>9. RowInv(d)' /\ (doc[d].status \in Asking => doc'[d].status = doc[d].status)
  BY <1>4, <1>7, <1>8 DEF RowInv, Settled, Asking
<1>10. \A v \in Workers : Holds(v) \/ wk[v].pc # "idle" => Target(v) \in Docs
  BY DEF RowsInv, Holds, Target
<1> QED
  BY <1>1, <1>3, <1>5, <1>9, <1>10, FreeWrite

\* An interrupted stamp leaves its document uncertain.
LEMMA RecoverLedger ==
  ASSUME TypeOK, TypeOK', RowsInv, ClaimInv, LedgerInv, NEW j \in Jobs, Recover(j)
  PROVE  LedgerInv'
<1>0. job[j].doc \in Docs
  BY DEF Recover, RowsInv
<1>1. PICK d \in Docs : d = job[j].doc
  BY <1>0
<1>2. /\ job[j].status = "running" /\ job[j].lease = "expired"
      /\ job'[j].doc = job[j].doc /\ job'[j].status # "running"
      /\ \A k \in Jobs : k # j => job'[k] = job[k]
      /\ UNCHANGED <<wk, satVars, registered>>
  BY DEF Recover, TypeOK, JobRow, pacVars
<1>3. \/ doc' = doc
      \/ doc[d].status = "submitting" /\ doc' = [doc EXCEPT ![d].status = "uncertain"]
  BY <1>1 DEF Recover
<1>4. ASSUME NEW v \in Workers PROVE Undisturbed(v) /\ ~(Holds(v) /\ Target(v) = d)
  <2>1. ~(Holds(v) /\ Target(v) = d)
    BY <1>1, <1>2 DEF ClaimInv, Holds, Target, Active
  <2>2. wk[v].pc # "idle" => wk[v].job \in Jobs
    BY DEF RowsInv
  <2> QED
    BY <1>2, <2>1, <2>2 DEF Undisturbed, Target, Holds
<1>5. RowInv(d) /\ doc[d] \in DocRow
  BY RowsHold DEF LedgerInv, TypeOK
<1>6. \A e \in Docs : e # d => doc'[e] = doc[e]
  BY <1>3 DEF TypeOK
<1>7. \/ doc'[d] = doc[d]
      \/ /\ doc[d].status = "submitting" /\ doc'[d].status = "uncertain"
         /\ doc'[d].xml = doc[d].xml /\ doc'[d].requestXml = doc[d].requestXml
  BY <1>3, <1>5 DEF TypeOK, DocRow
<1>8. UNCHANGED <<registered, cancelBox, asked, annulled>>
  BY <1>2 DEF satVars
<1>9. RowInv(d)' /\ (doc[d].status \in Asking => doc'[d].status = doc[d].status)
  BY <1>5, <1>7, <1>8 DEF RowInv, Settled, Asking
<1>10. \A v \in Workers : Holds(v) \/ wk[v].pc # "idle" => Target(v) \in Docs
  BY DEF RowsInv, ClaimInv, Holds, Target
<1> QED
  BY <1>2, <1>4, <1>6, <1>9, <1>10, FreeWrite

\* Requests and leases that write no document.
LEMMA LeaseAndRequests ==
  ASSUME TypeOK, RowsInv, LedgerInv,
         \/ \E j \in Jobs : LeaseExpires(j)
         \/ \E d \in Docs : \/ RequestPdf(d) \/ BackfillPdf(d)
                            \/ \E op \in Operations : RequestOther(op, d)
         \/ UNCHANGED vars
  PROVE  LedgerInv'
<1>1. UNCHANGED <<doc, wk, satVars, registered>>
  BY DEF LeaseExpires, RequestPdf, BackfillPdf, RequestOther, vars, pacVars
<1>2. ASSUME NEW v \in Workers, wk[v].pc # "idle"
      PROVE  job'[wk[v].job].doc = job[wk[v].job].doc /\ (Holds(v)' => Holds(v))
  <2>1. wk[v].job \in Jobs
    BY <1>2 DEF RowsInv
  <2>2. CASE \E j \in Jobs : LeaseExpires(j)
    BY <1>1, <2>1, <2>2 DEF LeaseExpires, TypeOK, JobRow, Holds
  <2>3. ASSUME NEW op, NEW d, NEW row, Enqueue(op, d, row)
        PROVE  job'[wk[v].job] = job[wk[v].job]
    BY <1>2, <2>3, EnqueueRests
  <2>4. CASE job'[wk[v].job] = job[wk[v].job]
    BY <1>1, <2>4 DEF Holds
  <2> QED
    BY <2>2, <2>3, <2>4 DEF RequestPdf, BackfillPdf, RequestOther, vars
<1>3. \A v \in Workers : Undisturbed(v)
  BY <1>1, <1>2 DEF Undisturbed, Target
<1> QED
  BY <1>1, <1>3, RestStep DEF LedgerInv

\* Every step keeps the invariant of the documents.
LEMMA LedgerNext ==
  ASSUME TypeOK, TypeOK', RowsInv, ClaimInv, LedgerInv, [Next]_vars
  PROVE  LedgerInv'
<1>1. ASSUME NEW w \in Workers, WorkerStep(w) \/ Crash(w) PROVE LedgerInv'
  BY <1>1, QuietMoves, HolderWrites, CallSteps, RowSteps DEF WorkerStep, StampStep, CancelStep
<1>2. CASE Staff
  BY <1>2, RequestStampLedger, LeaseAndRequests DEF Staff
<1>3. CASE External
  BY <1>3, QuietMoves, CallSteps, RemoteSteps DEF External
<1> QED
  BY <1>1, <1>2, <1>3, RowSteps, RecoverLedger, LeaseAndRequests DEF Next

\* Nothing is stamped, asked or cancelled at first.
LEMMA LedgerInit == Init => ClaimInv /\ LedgerInv
<1>1. Init => ClaimInv
  BY ConstantsAssumption DEF Init, ClaimInv, Idle, Active
<1>2. Init => LedgerInv
  BY DEF Init, LedgerInv, TablesInv, LedgerIsTruthful, RunsInv, RunInv, Cancelling, Unsent, Idle
<1> QED
  BY <1>1, <1>2

\* The invariants of this module hold together.
LEMMA LedgerInvariants == Spec => [](TypeOK /\ RowsInv /\ ClaimInv /\ LedgerInv)
<1>1. TypeOK /\ RowsInv /\ ClaimInv /\ LedgerInv /\ [Next]_vars
      => (TypeOK /\ RowsInv /\ ClaimInv /\ LedgerInv)'
  BY TypeNext, ClaimNext, LedgerNext
<1> QED
  BY <1>1, TypeInit, LedgerInit, PTL DEF Spec

\* A document said to be stamped is a CFDI the PAC holds, one said to be cancelled was
\* annulled by the SAT, and a document whose cancellation the PAC has forwarded never
\* looks valid again (stamp_document, cancel_document, refresh_cancellation,
\* recover_expired_jobs), whatever is requested, interrupted or answered late.
THEOREM LedgerTruthful == Spec => []LedgerIsTruthful
<1>1. LedgerInv => LedgerIsTruthful
  BY DEF LedgerInv, TablesInv
<1> QED
  BY <1>1, LedgerInvariants, PTL

-----------------------------------------------------------------------------
(* What is recorded of an outcome.                                         *)

\* A written document keeps the CFDI it has, and stays cancelled.
LEMMA RecordKept ==
  ASSUME TypeOK, RowsInv, LedgerInv, [Next]_vars, NEW d \in Docs, doc[d].xml # 0
  PROVE  /\ doc'[d].xml = doc[d].xml
         /\ doc[d].status = "cancelled" => doc'[d].status = "cancelled"
<1>1. /\ doc[d] \in DocRow /\ doc[d].status \in Settled /\ doc[d].requestXml # 0
      /\ doc[d].status = "cancelled" => d \in asked
  BY RowsHold DEF LedgerInv, TablesInv, RowInv, TypeOK
<1>2. CASE doc' = doc
  BY <1>2
<1>3. ASSUME RequestStamp(d) PROVE doc'[d] = doc[d]
  BY <1>1, <1>3 DEF RequestStamp, Prepared, TypeOK, Settled
<1>4. ASSUME NEW e \in Docs, e # d, RequestStamp(e) PROVE doc'[d] = doc[d]
  BY <1>4 DEF RequestStamp, TypeOK
<1>5. ASSUME NEW j \in Jobs, Recover(j) PROVE doc'[d] = doc[d]
  BY <1>1, <1>5 DEF Recover, TypeOK, Settled
<1>6. ASSUME NEW w \in Workers,
             \/ Sign(w) \/ StampBegin(w) \/ StampSave(w) \/ StampFail(w)
             \/ CancelBegin(w) \/ CancelFail(w) \/ RefreshSave(w) \/ PdfSave(w)
      PROVE  /\ doc'[d].xml = doc[d].xml
             /\ doc[d].status = "cancelled" => doc'[d].status = "cancelled"
  <2>1. CASE Target(w) # d
    <3>1. doc'[d] = doc[d]
      BY <1>6, <2>1 DEF Sign, StampBegin, StampSave, StampFail, CancelBegin, CancelFail,
         RefreshSave, PdfSave, TypeOK
    <3> QED
      BY <3>1
  <2>2. CASE Target(w) = d
    <3>1. RunInv(w)
      BY DEF LedgerInv, RunsInv
    <3>2. CASE Sign(w) \/ StampBegin(w)
      BY <1>1, <2>2, <3>2 DEF Sign, StampBegin, Settled
    <3>3. CASE StampSave(w) \/ StampFail(w)
      BY <1>1, <2>2, <3>1, <3>3 DEF StampSave, StampFail, RunInv, Settled
    <3>4. CASE CancelBegin(w)
      BY <1>1, <2>2, <3>4 DEF CancelBegin, TypeOK, DocRow
    <3>5. CASE CancelFail(w)
      <4>1. wk[w].verdict = "stamped" => d \notin asked
        BY <2>2, <3>1, <3>5 DEF CancelFail, RunInv, Unsent
      <4> QED
        BY <1>1, <2>2, <3>5, <4>1 DEF CancelFail, TypeOK, DocRow
    <3>6. CASE RefreshSave(w) \/ PdfSave(w)
      BY <1>1, <2>2, <3>6 DEF RefreshSave, PdfSave, TypeOK, DocRow
    <3> QED
      BY <1>6, <3>2, <3>3, <3>4, <3>5, <3>6
  <2> QED
    BY <2>1, <2>2
<1>7. ASSUME NEW w \in Workers, WorkerStep(w) \/ Crash(w) \/ \E j \in Jobs : Claim(w, j)
      PROVE  \/ doc' = doc
             \/ Sign(w) \/ StampBegin(w) \/ StampSave(w) \/ StampFail(w)
             \/ CancelBegin(w) \/ CancelFail(w) \/ RefreshSave(w) \/ PdfSave(w)
  BY <1>7 DEF WorkerStep, StampStep, CancelStep, Abort, AlreadyStamped, SendStamp,
     QueryStamped, StampUnclear, AlreadyAsked, SendCancel, CancelUnclear, CancelSave, QuerySat,
     Render, ReadOutcome, Finish, ChainPdf, Crash, Claim
<1>8. \/ doc' = doc
      \/ \E e \in Docs : RequestStamp(e)
      \/ \E j \in Jobs : Recover(j)
      \/ \E w \in Workers : WorkerStep(w)
  BY DEF Next, Staff, External, RequestPdf, RequestOther, BackfillPdf, Claim, Crash,
     LeaseExpires, PacStamps, PacRejects, PacForwardsCancel, PacRejectsCancel,
     PacStampsUnheard, PacForwardsUnheard, SatAnnuls, vars
<1> QED
  BY <1>2, <1>3, <1>4, <1>5, <1>6, <1>7, <1>8

\* Only a process that holds its claim reports a failure.
LEMMA FailedByFinish ==
  ASSUME TypeOK, RowsInv, [Next]_vars, NEW j \in Jobs,
         job[j].status = "running", job'[j].status = "failed"
  PROVE  \E w \in Workers : /\ wk[w].pc = "finish" /\ wk[w].verdict = "failed"
                            /\ wk[w].job = j /\ Holds(w)
<1>1. ASSUME NEW w \in Workers, Finish(w)
      PROVE  wk[w].verdict = "failed" /\ wk[w].job = j /\ Holds(w)
  BY <1>1 DEF Finish, RowsInv, TypeOK, JobRow
<1>2. ASSUME NEW op, NEW d, NEW row, Enqueue(op, d, row) PROVE job'[j] = job[j]
  BY <1>2 DEF Enqueue, TypeOK
<1>3. ASSUME NEW w \in Workers, NEW k \in Jobs, Claim(w, k) PROVE FALSE
  BY <1>3 DEF Claim, TypeOK, JobRow
<1>4. ASSUME NEW k \in Jobs, LeaseExpires(k) \/ Recover(k) PROVE FALSE
  BY <1>4 DEF LeaseExpires, Recover, TypeOK, JobRow
<1>5. ASSUME NEW w \in Workers, WorkerStep(w) \/ Crash(w) PROVE Finish(w) \/ job'[j] = job[j]
  BY <1>2, <1>5 DEF WorkerStep, StampStep, CancelStep, Abort, Sign, AlreadyStamped, StampBegin,
     SendStamp, QueryStamped, StampUnclear, StampSave, StampFail, AlreadyAsked, CancelBegin,
     SendCancel, CancelUnclear, CancelSave, CancelFail, QuerySat, RefreshSave, Render, PdfSave,
     ReadOutcome, ChainPdf, Crash
<1>6. Staff \/ (\E d \in Docs : BackfillPdf(d)) => job'[j] = job[j]
  BY <1>2 DEF Staff, RequestStamp, RequestPdf, RequestOther, BackfillPdf
<1>7. External \/ UNCHANGED vars => job'[j] = job[j]
  BY DEF External, PacStamps, PacRejects, PacForwardsCancel, PacRejectsCancel,
     PacStampsUnheard, PacForwardsUnheard, SatAnnuls, vars
<1>8. PICK w \in Workers : Finish(w)
  BY <1>3, <1>4, <1>5, <1>6, <1>7 DEF Next
<1> QED
  BY <1>1, <1>8 DEF Finish

\* What is recorded of an outcome stays: a stamped document keeps its CFDI, a cancelled
\* one stays cancelled, and a run is reported as failed only when the PAC has rejected
\* every stamp call of its document (run_job, stamp_document, cancel_document).
THEOREM KnownOutcomes == Spec => OutcomesAreKnown
<1>. DEFINE Stays ==
       /\ \A d \in Docs : doc[d].xml # 0 =>
            /\ doc'[d].xml = doc[d].xml
            /\ doc'[d].status \in Settled
            /\ doc[d].status = "cancelled" => doc'[d].status = "cancelled"
       /\ \A j \in Jobs :
            /\ job[j].status = "running" /\ job'[j].status = "failed"
            /\ doc[job[j].doc].xml = 0
            => \A call \in exposed : call[1] # job[j].doc
<1>1. ASSUME TypeOK, RowsInv, ClaimInv, LedgerInv, StampInv, LedgerInv', [Next]_vars
      PROVE  Stays
  <2>1. ASSUME NEW d \in Docs, doc[d].xml # 0
        PROVE  /\ doc'[d].xml = doc[d].xml /\ doc'[d].status \in Settled
               /\ doc[d].status = "cancelled" => doc'[d].status = "cancelled"
    <3>1. doc'[d].xml = doc[d].xml /\ (doc[d].status = "cancelled" => doc'[d].status = "cancelled")
      BY <1>1, <2>1, RecordKept
    <3>2. doc'[d].status \in Settled
      BY <1>1, <2>1, <3>1 DEF LedgerInv, TablesInv, LedgerIsTruthful, Settled
    <3> QED
      BY <3>1, <3>2
  <2>2. ASSUME NEW j \in Jobs, job[j].status = "running", job'[j].status = "failed",
               doc[job[j].doc].xml = 0, NEW call \in exposed
        PROVE  call[1] # job[j].doc
    <3>1. PICK w \in Workers : /\ wk[w].pc = "finish" /\ wk[w].verdict = "failed"
                               /\ wk[w].job = j /\ Holds(w)
      BY <1>1, <2>2, FailedByFinish
    <3>2. Target(w) = job[j].doc /\ job[j].doc \in Docs
      BY <1>1, <2>2, <3>1 DEF Target, RowsInv
    <3>3. doc[job[j].doc].status \notin Ambiguous
      BY <1>1, <3>1, <3>2 DEF LedgerInv, RunsInv, RunInv
    <3>4. doc[job[j].doc].status \notin Settled
      BY <1>1, <2>2, <3>2 DEF LedgerInv, TablesInv, LedgerIsTruthful, Settled
    <3>5. doc[job[j].doc].status \in {"draft", "error"}
      BY <1>1, <3>2, <3>3, <3>4 DEF TypeOK, DocRow, DocStatuses, Ambiguous, Settled
    <3> QED
      BY <1>1, <3>5 DEF StampInv
  <2> QED
    BY <2>1, <2>2
<1>2. TypeOK /\ RowsInv /\ ClaimInv /\ LedgerInv /\ StampInv /\ LedgerInv' /\ [Next]_vars => Stays
  BY <1>1
<1> QED
  BY <1>2, LedgerInvariants, Invariants, PTL DEF Spec, OutcomesAreKnown, Settled

-----------------------------------------------------------------------------
(* The refinement.                                                          *)

DependsOn(d) == Prior[d] \cup ({Parent[d]} \ {NoDoc})

\* A stamped call is not decided twice, and a signed document has what it needs.
RegisterInv ==
  /\ registered \subseteq exposed /\ registered \cap inbox = {}
  /\ \A d \in Docs : doc[d].requestXml # 0 => \A p \in DependsOn(d) : doc[p].xml # 0

\* All the invariants of the fiscal documents.
FiscalInv == TypeOK /\ RowsInv /\ ClaimInv /\ LedgerInv /\ StampInv /\ RegisterInv

\* The documents one depends on are documents.
LEMMA DependsOnType == ASSUME NEW d \in Docs PROVE DependsOn(d) \subseteq Docs
BY ConstantsAssumption DEF DependsOn

-----------------------------------------------------------------------------
(* The invariant.                                                          *)

\* What the PAC does with a call, and what a process sends.
LEMMA CallsNext ==
  ASSUME TypeOK, RowsInv, StampInv, RegisterInv, [Next]_vars
  PROVE  registered' \subseteq exposed' /\ registered' \cap inbox' = {}
<1>1. CASE UNCHANGED <<inbox, exposed, registered>>
  BY <1>1 DEF RegisterInv
<1>2. ASSUME NEW w \in Workers, SendStamp(w)
      PROVE  registered' \subseteq exposed' /\ registered' \cap inbox' = {}
  <2>1. <<Target(w), wk[w].xml>> \notin exposed
    BY <1>2 DEF SendStamp, StampInv, Stamping
  <2> QED
    BY <1>2, <2>1 DEF SendStamp, RegisterInv
<1>3. ASSUME NEW w \in Workers, PacStamps(w) \/ PacRejects(w)
      PROVE  registered' \subseteq exposed' /\ registered' \cap inbox' = {}
  BY <1>3 DEF PacStamps, PacRejects, RegisterInv, StampInv
<1>4. ASSUME NEW call \in inbox, PacStampsUnheard(call)
      PROVE  registered' \subseteq exposed' /\ registered' \cap inbox' = {}
  BY <1>4 DEF PacStampsUnheard, RegisterInv, StampInv
<1>5. ASSUME NEW w \in Workers, WorkerStep(w) \/ Crash(w) \/ \E j \in Jobs : Claim(w, j)
      PROVE  SendStamp(w) \/ UNCHANGED <<inbox, exposed, registered>>
  BY <1>5 DEF WorkerStep, StampStep, CancelStep, Abort, Sign, AlreadyStamped, StampBegin,
     QueryStamped, StampUnclear, StampSave, StampFail, AlreadyAsked, CancelBegin, SendCancel,
     CancelUnclear, CancelSave, CancelFail, QuerySat, RefreshSave, Render, PdfSave,
     ReadOutcome, Finish, ChainPdf, Crash, Claim, pacVars
<1>6. Staff \/ (\E d \in Docs : BackfillPdf(d)) \/ (\E j \in Jobs : LeaseExpires(j) \/ Recover(j))
        \/ UNCHANGED vars
      => UNCHANGED <<inbox, exposed, registered>>
  BY DEF Staff, RequestStamp, RequestPdf, RequestOther, BackfillPdf, LeaseExpires, Recover,
     vars, pacVars
<1>7. External => \/ \E w \in Workers : PacStamps(w) \/ PacRejects(w)
                  \/ \E call \in inbox : PacStampsUnheard(call)
                  \/ UNCHANGED <<inbox, exposed, registered>>
  BY DEF External, PacForwardsCancel, PacRejectsCancel, PacForwardsUnheard, SatAnnuls, pacVars
<1> QED
  BY <1>1, <1>2, <1>3, <1>4, <1>5, <1>6, <1>7 DEF Next

\* A document is signed after those it depends on.
LEMMA SignedAfter ==
  ASSUME TypeOK, RowsInv, LedgerInv, RegisterInv, [Next]_vars,
         NEW d \in Docs, doc'[d].requestXml # 0, NEW p \in DependsOn(d)
  PROVE  doc'[p].xml # 0
<1>1. p \in Docs
  BY DependsOnType
<1>2. SUFFICES doc[p].xml # 0
  BY <1>1, RecordKept
<1>3. CASE doc[d].requestXml # 0
  BY <1>3 DEF RegisterInv
<1>4. CASE doc[d].requestXml = 0
  <2>1. PICK w \in Workers : Sign(w) /\ Target(w) = d
    <3>1. ASSUME NEW e \in Docs, RequestStamp(e) PROVE FALSE
      BY <1>4, <3>1 DEF RequestStamp, Prepared, TypeOK, DocRow
    <3>2. ASSUME NEW j \in Jobs, Recover(j) PROVE FALSE
      BY <1>4, <3>2 DEF Recover, TypeOK, DocRow
    <3>3. doc' # doc
      BY <1>4
    <3>4. PICK w \in Workers : WorkerStep(w)
      BY <3>1, <3>2, <3>3 DEF Next, Staff, External, RequestPdf, RequestOther, BackfillPdf,
         Claim, Crash, LeaseExpires, PacStamps, PacRejects, PacForwardsCancel,
         PacRejectsCancel, PacStampsUnheard, PacForwardsUnheard, SatAnnuls, vars
    <3>5. \/ Sign(w) \/ StampBegin(w) \/ StampSave(w) \/ StampFail(w)
          \/ CancelBegin(w) \/ CancelFail(w) \/ RefreshSave(w) \/ PdfSave(w)
      BY <3>3, <3>4 DEF WorkerStep, StampStep, CancelStep, Abort, AlreadyStamped, SendStamp,
         QueryStamped, StampUnclear, AlreadyAsked, SendCancel, CancelUnclear, CancelSave,
         QuerySat, Render, ReadOutcome, Finish, ChainPdf
    <3>6. CASE Sign(w)
      BY <1>4, <3>6 DEF Sign, TypeOK, DocRow
    <3>7. CASE StampBegin(w) \/ StampSave(w) \/ StampFail(w)
      BY <1>4, <3>7 DEF StampBegin, StampSave, StampFail, TypeOK, DocRow
    <3>8. CASE CancelBegin(w) \/ CancelFail(w) \/ RefreshSave(w) \/ PdfSave(w)
      BY <1>4, <3>8 DEF CancelBegin, CancelFail, RefreshSave, PdfSave, TypeOK, DocRow
    <3> QED
      BY <3>5, <3>6, <3>7, <3>8
  <2>2. Buildable(d)
    BY <1>4, <2>1 DEF Sign
  <2>3. doc[p].status = "stamped"
    BY <2>2 DEF Buildable, DependsOn
  <2> QED
    BY <1>1, <2>3 DEF LedgerInv, TablesInv, LedgerIsTruthful
<1> QED
  BY <1>3, <1>4

\* All the invariants hold together.
LEMMA FiscalInvariant == Spec => []FiscalInv
<1>1. Init => RegisterInv
  BY DEF Init, RegisterInv
<1>2. ASSUME FiscalInv, [Next]_vars PROVE FiscalInv'
  <2>1. RegisterInv'
    BY <1>2, CallsNext, SignedAfter DEF FiscalInv, RegisterInv, DependsOn
  <2> QED
    BY <1>2, <2>1, TypeNext, ClaimNext, LedgerNext, StampNext DEF FiscalInv
<1>3. Init => FiscalInv
  <2>1. Init => StampInv
    BY DEF Init, StampInv, Stamping, Idle
  <2> QED
    BY <1>1, <2>1, TypeInit, LedgerInit DEF FiscalInv
<1> QED
  BY <1>2, <1>3, PTL DEF Spec

-----------------------------------------------------------------------------
(* The refinement.                                                         *)

\* The CFDI of a document, counted.
Issued(d) == Cardinality({call \in registered : call[1] = d})

\* A document has one CFDI or none, and one when its row says so.
LEMMA CountOne ==
  ASSUME FiscalInv, NEW d \in Docs, NEW call \in registered, call[1] = d
  PROVE  Issued(d) = 1
<1>1. \A c \in registered : c[1] = d => c = call
  BY DEF FiscalInv, RegisterInv, StampInv, TypeOK
<1>2. {c \in registered : c[1] = d} = {call}
  BY <1>1
<1> QED
  BY <1>2, FS_Singleton DEF Issued

LEMMA CountNone ==
  ASSUME NEW d \in Docs, \A call \in registered : call[1] # d
  PROVE  Issued(d) = 0
<1>1. {c \in registered : c[1] = d} = {}
  OBVIOUS
<1> QED
  BY <1>1, FS_EmptySet DEF Issued

LEMMA CountStamped ==
  ASSUME FiscalInv, NEW d \in Docs, doc[d].xml # 0
  PROVE  Issued(d) = 1
<1>1. <<d, doc[d].xml>> \in registered
  BY DEF FiscalInv, LedgerInv, TablesInv, LedgerIsTruthful
<1> QED
  BY <1>1, CountOne

\* The count of every document, and how a stamp changes it.
IssuedAll == [d \in Docs |-> Cardinality({call \in registered : call[1] = d})]

LEMMA StampIssues ==
  ASSUME FiscalInv, FiscalInv', NEW call \in inbox, registered' = registered \cup {call},
         UNCHANGED annulled
  PROVE  \E d \in Docs : Register!Issue(d)
<1>1. /\ call \in exposed /\ call \notin registered
      /\ call[1] \in Docs /\ doc[call[1]].requestXml = call[2] /\ call[2] # 0
  BY DEF FiscalInv, RegisterInv, StampInv, TypeOK
<1>2. PICK d \in Docs : d = call[1]
  BY <1>1
<1>3. Issued(d) = 0
  <2>1. ASSUME NEW c \in registered, c[1] = d PROVE FALSE
    BY <1>1, <1>2, <2>1 DEF FiscalInv, RegisterInv, StampInv, TypeOK
  <2> QED
    BY <2>1, CountNone
<1>4. \A p \in DependsOn(d) : Issued(p) = 1
  BY <1>1, <1>2, DependsOnType, CountStamped DEF FiscalInv, RegisterInv
<1>5. Cardinality({c \in registered' : c[1] = d}) = 1
  <2>1. \A c \in registered : c[1] # d
    BY <1>1, <1>2 DEF FiscalInv, RegisterInv, StampInv, TypeOK
  <2>2. {c \in registered' : c[1] = d} = {call}
    BY <1>2, <2>1
  <2> QED
    BY <2>2, FS_Singleton
<1>6. \A e \in Docs : e # d => {c \in registered' : c[1] = e} = {c \in registered : c[1] = e}
  BY <1>2
<1>7. IssuedAll' = [IssuedAll EXCEPT ![d] = 1]
  BY <1>5, <1>6 DEF IssuedAll
<1>8. IssuedAll[d] = 0 /\ \A p \in DependsOn(d) : IssuedAll[p] = 1
  BY <1>3, <1>4, DependsOnType DEF IssuedAll, Issued
<1> QED
  BY <1>7, <1>8 DEF Register!Issue, IssuedAll, DependsOn

\* The SAT annuls a document that has its CFDI.
LEMMA SatAnnulsIssued ==
  ASSUME FiscalInv, NEW d \in Docs, SatAnnuls(d)
  PROVE  Register!Annul(d)
<1>1. doc[d].xml # 0
  BY DEF SatAnnuls, FiscalInv, LedgerInv, TablesInv, LedgerIsTruthful
<1>2. Issued(d) = 1
  BY <1>1, CountStamped
<1>3. annulled' = annulled \cup {d} /\ UNCHANGED registered
  BY DEF SatAnnuls, pacVars
<1> QED
  BY <1>2, <1>3 DEF Register!Annul, Issued

\* Every step of the program is a step of the register or leaves it alone.
LEMMA RegisterStep ==
  ASSUME FiscalInv, FiscalInv', [Next]_vars
  PROVE  [Register!Next]_<<IssuedAll, annulled>>
<1>1. CASE UNCHANGED <<registered, annulled>>
  BY <1>1 DEF IssuedAll
<1>2. ASSUME NEW w \in Workers, PacStamps(w) PROVE Register!Next
  BY <1>2, StampIssues DEF PacStamps, satVars, Register!Next
<1>3. ASSUME NEW call \in inbox, PacStampsUnheard(call) PROVE Register!Next
  BY <1>3, StampIssues DEF PacStampsUnheard, satVars, Register!Next
<1>4. ASSUME NEW d \in Docs, SatAnnuls(d) PROVE Register!Next
  BY <1>4, SatAnnulsIssued DEF Register!Next
<1>5. ASSUME NEW w \in Workers, WorkerStep(w) \/ Crash(w) \/ \E j \in Jobs : Claim(w, j)
      PROVE  UNCHANGED <<registered, annulled>>
  BY <1>5 DEF WorkerStep, StampStep, CancelStep, Abort, Sign, AlreadyStamped, StampBegin,
     SendStamp, QueryStamped, StampUnclear, StampSave, StampFail, AlreadyAsked, CancelBegin,
     SendCancel, CancelUnclear, CancelSave, CancelFail, QuerySat, RefreshSave, Render, PdfSave,
     ReadOutcome, Finish, ChainPdf, Crash, Claim, pacVars, satVars
<1>6. Staff \/ (\E d \in Docs : BackfillPdf(d)) \/ (\E j \in Jobs : LeaseExpires(j) \/ Recover(j))
        \/ UNCHANGED vars
      => UNCHANGED <<registered, annulled>>
  BY DEF Staff, RequestStamp, RequestPdf, RequestOther, BackfillPdf, LeaseExpires, Recover,
     vars, pacVars, satVars
<1>7. External => \/ \E w \in Workers : PacStamps(w)
                  \/ \E call \in inbox : PacStampsUnheard(call)
                  \/ \E d \in Docs : SatAnnuls(d)
                  \/ UNCHANGED <<registered, annulled>>
  BY DEF External, PacRejects, PacForwardsCancel, PacRejectsCancel, PacForwardsUnheard,
     pacVars, satVars
<1> QED
  BY <1>1, <1>2, <1>3, <1>4, <1>5, <1>6, <1>7 DEF Next

\* The CFDI the PAC and the SAT hold evolve as the register promises: one of each document,
\* a complement after the CFDI it relates to and after the earlier parcialidades and
\* egresses, and only an issued one is annulled.
THEOREM RegisterImplemented == Spec => ImplementsRegister
<1>1. Init => Register!Init
  BY FS_EmptySet DEF Init, Register!Init
<1>2. FiscalInv /\ FiscalInv' /\ [Next]_vars => [Register!Next]_<<IssuedAll, annulled>>
  BY RegisterStep
<1> QED
  BY <1>1, <1>2, FiscalInvariant, PTL DEF Spec, ImplementsRegister, Register!Spec, IssuedAll
=============================================================================
