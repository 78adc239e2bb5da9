------------------------------ MODULE FiscalJobs ------------------------------
(***************************************************************************)
(* The fiscal work ledger of fiscal/jobs.py and the CFDI operations of     *)
(* fiscal/services.py that its workers execute: signing, stamping,         *)
(* recovery, cancellation, SAT status query and PDF preparation.           *)
(*                                                                         *)
(* Staff request operations through the web views; each request becomes a  *)
(* row of the FiscalJob table.  Celery workers claim rows, run the         *)
(* operation and write its result, every write fenced by the claim.  A     *)
(* worker may die, or stall until its lease expires, between any two of    *)
(* its steps; the periodic dispatcher requeues what it left.  The PAC (the *)
(* certification provider) and the SAT are external: a call may be         *)
(* rejected, answered, or time out and still take effect later.            *)
(*                                                                         *)
(* One step is one database transaction or one side of one remote call.    *)
(* Time enters only through leases: LeaseExpires may happen at any moment  *)
(* of a running claim.  A signed XML is a positive number, fresh for each  *)
(* signature of its document; 0 is the empty text.                         *)
(***************************************************************************)
EXTENDS Integers, FiniteSets

CONSTANTS
  Docs,         \* FiscalDocument rows
  Jobs,         \* ids available to FiscalJob rows (a bound in the checked instances)
  Workers,      \* fiscal worker processes
  Requested,    \* operations the staff requests
  Globals,      \* the documents that are global invoices
  Parent,       \* the income or global CFDI a complement or egress relates to, or NoDoc
  Prior,        \* the earlier parcialidades and egresses of the same invoice
  NoDoc, NoJob,
  MaxAttempts   \* MAX_ATTEMPTS

Operations == {"stamp", "recover", "cancel", "cancellation_status", "pdf"}

ASSUME ConstantsAssumption ==
  /\ Requested \subseteq Operations
  /\ NoDoc \notin Docs /\ NoJob \notin Jobs
  /\ Globals \subseteq Docs
  /\ Parent \in [Docs -> Docs \cup {NoDoc}]
  /\ Prior \in [Docs -> SUBSET Docs]
  /\ MaxAttempts \in Nat \ {0}

VARIABLES
  doc,          \* the FiscalDocument table
  job,          \* the FiscalJob table
  wk,           \* the local state of each worker process
  inbox,        \* stamp calls the PAC has received and not decided
  exposed,      \* stamp calls made and not answered by a rejection (history)
  registered,   \* CFDI the PAC has stamped: pairs of document and XML
  cancelBox,    \* cancellation calls the PAC has received and not decided
  asked,        \* cancellations the PAC has forwarded to the SAT
  annulled      \* documents the SAT reports as "Cancelado"

pacVars == <<inbox, exposed, registered>>
satVars == <<cancelBox, asked, annulled>>
vars == <<doc, job, wk, pacVars, satVars>>

-----------------------------------------------------------------------------
DocStatuses == {"draft", "submitting", "stamped", "error", "uncertain",
                "cancel_pending", "cancelled"}
Active == {"queued", "running"}
Finished == {"succeeded", "failed", "review"}
JobStatuses == {"absent"} \cup Active \cup Finished
Steps == {"idle", "sign", "begin", "send", "await", "save", "fail",
          "cancelBegin", "cancelSend", "cancelAwait", "cancelSave", "cancelFail",
          "refresh", "refreshSave", "render", "pdfSave",
          "except", "finish", "chain"}
Verdicts == {"none", "error", "uncertain", "stamped", "cancel_pending"} \cup Finished

\* Steps that open a claim_transaction.
FencedSteps == {"sign", "begin", "save", "fail", "cancelBegin", "cancelSave",
                "cancelFail", "refreshSave", "pdfSave"}

Idle == [pc |-> "idle", job |-> NoJob, token |-> 0, op |-> "pdf", xml |-> 0,
         verdict |-> "none"]

\* The FiscalDocument and FiscalJob columns the model keeps, and the local
\* variables of a worker inside run_job.
DocRow == [status : DocStatuses, requestXml : Nat, xml : Nat, pdf : Nat,
           signatures : Nat]
JobRow == [status : JobStatuses, op : Operations, doc : Docs \cup {NoDoc},
           attempts : 0..MaxAttempts, token : 0..MaxAttempts,
           lease : {"none", "live", "expired"}]
Process == [pc : Steps, job : Jobs \cup {NoJob}, token : 0..MaxAttempts,
            op : Operations, xml : Nat, verdict : Verdicts]

\* Every table, process and remote set holds values of its type; in particular
\* no row is claimed more than MaxAttempts times.
TypeOK ==
  /\ doc \in [Docs -> DocRow]
  /\ job \in [Jobs -> JobRow]
  /\ wk \in [Workers -> Process]
  /\ inbox \subseteq Docs \X Nat /\ exposed \subseteq Docs \X Nat
  /\ registered \subseteq Docs \X Nat
  /\ cancelBox \subseteq Docs /\ asked \subseteq Docs /\ annulled \subseteq Docs

Init ==
  /\ doc = [d \in Docs |-> [status |-> "draft", requestXml |-> 0, xml |-> 0,
                            pdf |-> 0, signatures |-> 0]]
  /\ job = [j \in Jobs |-> [status |-> "absent", op |-> "pdf", doc |-> NoDoc,
                            attempts |-> 0, token |-> 0, lease |-> "none"]]
  /\ wk = [w \in Workers |-> Idle]
  /\ inbox = {} /\ exposed = {} /\ registered = {}
  /\ cancelBox = {} /\ asked = {} /\ annulled = {}

-----------------------------------------------------------------------------
(* queue_job: one active row per document; a request that finds one either *)
(* gets that row back or is refused, and changes nothing.                  *)

\* Faulty variant: only rows still waiting are looked for.
HasQueuedJob(d) == \E j \in Jobs : job[j].doc = d /\ job[j].status = "queued"

HasActiveJob(d) == \E j \in Jobs : job[j].doc = d /\ job[j].status \in Active

MayQueue(op, row) ==
  CASE op = "stamp"   -> row.status \notin {"submitting", "uncertain"}
    [] op = "recover" -> row.requestXml # 0
    [] op = "cancel"  -> row.status \in {"stamped", "cancel_pending", "cancelled"}
    [] OTHER          -> row.xml # 0

NewRow(op, d) == [status |-> "queued", op |-> op, doc |-> d, attempts |-> 0,
                  token |-> 0, lease |-> "none"]

\* Bound of the checked instances: every row id is in use.
LedgerFull == \A j \in Jobs : job[j].status # "absent"

\* row is the document as the requesting transaction sees it.
Enqueue(op, d, row) ==
  /\ ~HasActiveJob(d)
  /\ MayQueue(op, row)
  /\ \E j \in Jobs : /\ job[j].status = "absent"
                     /\ job' = [job EXCEPT ![j] = NewRow(op, d)]

\* prepare_document and prepare_credit_document with defer_build: a rejected
\* document, or one never signed, goes back to an unsigned draft.  A repeated
\* request for a global invoice gets the existing document as it is.
Prepared(d) ==
  IF d \notin Globals /\ (doc[d].requestXml = 0 \/ doc[d].status = "error")
  THEN [doc[d] EXCEPT !.requestXml = 0, !.status = "draft"]
  ELSE doc[d]

\* The invoice, complement, credit and global views: prepare and queue in one transaction.
RequestStamp(d) ==
  /\ "stamp" \in Requested
  /\ Enqueue("stamp", d, Prepared(d))
  /\ doc' = [doc EXCEPT ![d] = Prepared(d)]
  /\ UNCHANGED <<wk, pacVars, satVars>>

\* The recover, cancel and cancellation_status views.
RequestOther(op, d) ==
  /\ op \in Requested \ {"stamp", "pdf"}
  /\ Enqueue(op, d, doc[d])
  /\ UNCHANGED <<doc, wk, pacVars, satVars>>

\* The download view when the stored PDF is not the one of the stored XML.
RequestPdf(d) ==
  /\ "pdf" \in Requested
  /\ doc[d].pdf # doc[d].xml
  /\ Enqueue("pdf", d, doc[d])
  /\ UNCHANGED <<doc, wk, pacVars, satVars>>

\* dispatch_jobs backfills documents without PDF whose preparation never failed.
BackfillPdf(d) ==
  /\ doc[d].pdf = 0
  /\ \A j \in Jobs : ~(job[j].doc = d /\ job[j].op = "pdf"
                         /\ job[j].status \in {"failed", "review"})
  /\ Enqueue("pdf", d, doc[d])
  /\ UNCHANGED <<doc, wk, pacVars, satVars>>

-----------------------------------------------------------------------------
(* Claims.                                                                 *)

FirstStep(op) == CASE op = "stamp"               -> "sign"
                   [] op = "recover"             -> "begin"
                   [] op = "cancel"              -> "cancelBegin"
                   [] op = "cancellation_status" -> "refresh"
                   [] op = "pdf"                 -> "render"

\* claim_job, on any delivery of the row's id.  The attempt number stands for
\* the fresh UUID of the claim: no two claims of a row share it.
Claim(w, j) ==
  /\ wk[w].pc = "idle"
  /\ job[j].status = "queued"
  /\ LET n == job[j].attempts + 1 IN
       /\ job' = [job EXCEPT ![j].status = "running", ![j].attempts = n,
                             ![j].token = n, ![j].lease = "live"]
       /\ wk' = [wk EXCEPT ![w] = [pc |-> FirstStep(job[j].op), job |-> j, token |-> n,
                                  op |-> job[j].op, xml |-> 0, verdict |-> "none"]]
  /\ UNCHANGED <<doc, pacVars, satVars>>

LeaseExpires(j) ==
  /\ job[j].status = "running" /\ job[j].lease = "live"
  /\ job' = [job EXCEPT ![j].lease = "expired"]
  /\ UNCHANGED <<doc, wk, pacVars, satVars>>

\* Faulty variant: any claim of the row will do.
HoldsAnyClaim(w) == LET row == job[wk[w].job]
                    IN wk[w].job \in Jobs /\ row.status = "running" /\ row.lease = "live"

\* The test of claim_transaction, on the row as it is now.
Holds(w) == LET row == job[wk[w].job]
            IN /\ wk[w].job \in Jobs
               /\ row.status = "running" /\ row.token = wk[w].token
               /\ row.lease = "live"

Target(w) == job[wk[w].job].doc

Goto(w, step) == wk' = [wk EXCEPT ![w].pc = step]
Conclude(w, step, v) == wk' = [wk EXCEPT ![w].pc = step, ![w].verdict = v]

\* A claim_transaction that writes nothing: the claim was superseded
\* (StaleFiscalClaim), the operation refuses the document, or the database
\* fails.  stamp_document and cancel_document catch the failure of the
\* transaction that stores an answer, unless the claim is the reason.
Abort(w) ==
  /\ wk[w].pc \in FencedSteps
  /\ wk[w].pc \in {"save", "cancelSave"} => ~Holds(w)
  /\ Goto(w, "except")
  /\ UNCHANGED <<doc, job, pacVars, satVars>>
-----------------------------------------------------------------------------
(* Stamping and recovery.                                                  *)

\* Faulty variant: the order of the parcialidades and egresses is not looked at.
BuildableAlone(d) == Parent[d] # NoDoc => doc[Parent[d]].status = "stamped"

\* What _build_cfdi demands of the other documents of the invoice.
Buildable(d) == /\ Parent[d] # NoDoc => doc[Parent[d]].status = "stamped"
                /\ \A p \in Prior[d] : doc[p].status = "stamped"

\* _prepare_for_stamp: sign once, and persist the XML before any PAC call.
Sign(w) ==
  LET d == Target(w) IN
  /\ wk[w].pc = "sign" /\ Holds(w)
  /\ IF doc[d].requestXml # 0 THEN UNCHANGED doc
     ELSE /\ doc[d].status = "draft" /\ Buildable(d)
          /\ doc' = [doc EXCEPT ![d].requestXml = doc[d].signatures + 1,
                               ![d].signatures = doc[d].signatures + 1]
  /\ Goto(w, "begin")
  /\ UNCHANGED <<job, pacVars, satVars>>

\* First transaction of stamp_document: nothing to do ...
AlreadyStamped(w) ==
  /\ wk[w].pc = "begin" /\ Holds(w)
  /\ doc[Target(w)].status \in {"stamped", "cancelled", "cancel_pending"}
  /\ Conclude(w, "finish", "succeeded")
  /\ UNCHANGED <<doc, job, pacVars, satVars>>

\* ... or the document is committed to a PAC call.
StampBegin(w) ==
  LET d == Target(w) IN
  /\ wk[w].pc = "begin" /\ Holds(w)
  /\ doc[d].status \notin {"stamped", "cancelled", "cancel_pending"}
  /\ doc[d].status \in {"submitting", "uncertain"} => wk[w].op = "recover"
  /\ doc[d].requestXml # 0
  /\ doc' = [doc EXCEPT ![d].status = "submitting"]
  /\ wk' = [wk EXCEPT ![w].pc = "send", ![w].xml = doc[d].requestXml]
  /\ UNCHANGED <<job, pacVars, satVars>>

\* client.stamp: the call leaves the worker.
SendStamp(w) ==
  /\ wk[w].pc = "send" /\ wk[w].op = "stamp"
  /\ inbox' = inbox \cup {<<Target(w), wk[w].xml>>}
  /\ exposed' = exposed \cup {<<Target(w), wk[w].xml>>}
  /\ Goto(w, "await")
  /\ UNCHANGED <<doc, job, registered, satVars>>

\* client.stamped: the PAC returns the CFDI it holds for this very XML.
QueryStamped(w) ==
  /\ wk[w].pc = "send" /\ wk[w].op = "recover"
  /\ <<Target(w), wk[w].xml>> \in registered
  /\ Goto(w, "save")
  /\ UNCHANGED <<doc, job, pacVars, satVars>>

\* The PAC stamps and its answer arrives.
PacStamps(w) ==
  LET call == <<Target(w), wk[w].xml>> IN
  /\ wk[w].pc = "await" /\ call \in inbox
  /\ inbox' = inbox \ {call}
  /\ registered' = registered \cup {call}
  /\ Goto(w, "save")
  /\ UNCHANGED <<doc, job, exposed, satVars>>

\* The PAC refuses the XML and says so (ResponseError).
PacRejects(w) ==
  LET call == <<Target(w), wk[w].xml>> IN
  /\ wk[w].pc = "await" /\ call \in inbox
  /\ inbox' = inbox \ {call}
  /\ exposed' = exposed \ {call}
  /\ Conclude(w, "fail", "error")
  /\ UNCHANGED <<doc, job, registered, satVars>>

\* The PAC stamps a call whose caller will never read the answer.
PacStampsUnheard(call) ==
  /\ call \in inbox
  /\ inbox' = inbox \ {call}
  /\ registered' = registered \cup {call}
  /\ UNCHANGED <<doc, job, wk, exposed, satVars>>

\* Faulty variant: every failure of the call counts as a rejection.
StampUnclearIsError(w) ==
  /\ wk[w].pc \in {"send", "await", "save"}
  /\ Conclude(w, "fail", "error")
  /\ UNCHANGED <<doc, job, pacVars, satVars>>

\* A timeout, a SOAP fault, an unreadable or inconsistent answer, an unknown
\* XML in a recovery, or a failure before the call or while storing its result.
StampUnclear(w) ==
  /\ wk[w].pc \in {"send", "await", "save"}
  /\ Conclude(w, "fail", "uncertain")
  /\ UNCHANGED <<doc, job, pacVars, satVars>>

\* Second transaction of stamp_document.
StampSave(w) ==
  /\ wk[w].pc = "save" /\ Holds(w)
  /\ doc' = [doc EXCEPT ![Target(w)].xml = wk[w].xml, ![Target(w)].status = "stamped"]
  /\ Conclude(w, "finish", "succeeded")
  /\ UNCHANGED <<job, pacVars, satVars>>

\* Its error transaction: the attempt is recorded, then run_job sees the error.
StampFail(w) ==
  /\ wk[w].pc = "fail" /\ Holds(w)
  /\ doc' = [doc EXCEPT ![Target(w)].status = wk[w].verdict]
  /\ Goto(w, "except")
  /\ UNCHANGED <<job, pacVars, satVars>>

-----------------------------------------------------------------------------
(* Cancellation.                                                           *)

\* The statuses in which the PAC or the SAT may know more than the document.
Ambiguous == {"uncertain", "submitting", "cancel_pending"}

\* Complements and egresses that forbid the cancellation of d.
BlocksCancel(d) == \E c \in Docs : /\ Parent[c] = d
                                  /\ doc[c].status \in Ambiguous \cup {"stamped"}

\* First transaction of cancel_document: nothing to do ...
AlreadyAsked(w) ==
  /\ wk[w].pc = "cancelBegin" /\ Holds(w)
  /\ doc[Target(w)].status \in {"cancelled", "cancel_pending"}
  /\ Conclude(w, "finish", "succeeded")
  /\ UNCHANGED <<doc, job, pacVars, satVars>>

\* ... or the document is marked before the PAC is asked.
CancelBegin(w) ==
  LET d == Target(w) IN
  /\ wk[w].pc = "cancelBegin" /\ Holds(w)
  /\ doc[d].status = "stamped" /\ ~BlocksCancel(d)
  /\ doc' = [doc EXCEPT ![d].status = "cancel_pending"]
  /\ Goto(w, "cancelSend")
  /\ UNCHANGED <<job, pacVars, satVars>>

SendCancel(w) ==
  /\ wk[w].pc = "cancelSend"
  /\ cancelBox' = cancelBox \cup {Target(w)}
  /\ Goto(w, "cancelAwait")
  /\ UNCHANGED <<doc, job, pacVars, asked, annulled>>

PacForwardsCancel(w) ==
  /\ wk[w].pc = "cancelAwait" /\ Target(w) \in cancelBox
  /\ cancelBox' = cancelBox \ {Target(w)}
  /\ asked' = asked \cup {Target(w)}
  /\ Goto(w, "cancelSave")
  /\ UNCHANGED <<doc, job, pacVars, annulled>>

PacRejectsCancel(w) ==
  /\ wk[w].pc = "cancelAwait" /\ Target(w) \in cancelBox
  /\ cancelBox' = cancelBox \ {Target(w)}
  /\ Conclude(w, "cancelFail", "stamped")
  /\ UNCHANGED <<doc, job, pacVars, asked, annulled>>

PacForwardsUnheard(d) ==
  /\ d \in cancelBox
  /\ cancelBox' = cancelBox \ {d}
  /\ asked' = asked \cup {d}
  /\ UNCHANGED <<doc, job, wk, pacVars, annulled>>

CancelUnclear(w) ==
  /\ wk[w].pc \in {"cancelSend", "cancelAwait", "cancelSave"}
  /\ Conclude(w, "cancelFail", "cancel_pending")
  /\ UNCHANGED <<doc, job, pacVars, satVars>>

\* The acknowledgement is stored; the document stays cancel_pending.
CancelSave(w) ==
  /\ wk[w].pc = "cancelSave" /\ Holds(w)
  /\ Conclude(w, "finish", "succeeded")
  /\ UNCHANGED <<doc, job, pacVars, satVars>>

\* Faulty variant: any failure gives it back.
CancelFailRestores(w) ==
  /\ wk[w].pc = "cancelFail" /\ Holds(w)
  /\ doc' = [doc EXCEPT ![Target(w)].status = "stamped"]
  /\ Goto(w, "except")
  /\ UNCHANGED <<job, pacVars, satVars>>

\* Only a rejection by the PAC gives the document back its stamped status.
CancelFail(w) ==
  /\ wk[w].pc = "cancelFail" /\ Holds(w)
  /\ doc' = IF wk[w].verdict = "stamped"
            THEN [doc EXCEPT ![Target(w)].status = "stamped"] ELSE doc
  /\ Goto(w, "except")
  /\ UNCHANGED <<job, pacVars, satVars>>

\* The SAT (or the receiver) accepts a cancellation it was asked for.
SatAnnuls(d) ==
  /\ d \in asked \ annulled
  /\ annulled' = annulled \cup {d}
  /\ UNCHANGED <<doc, job, wk, pacVars, cancelBox, asked>>

\* refresh_cancellation: ask the SAT, without a transaction.
QuerySat(w) ==
  /\ wk[w].pc = "refresh"
  /\ \/ Target(w) \in annulled /\ Goto(w, "refreshSave")
     \/ Target(w) \notin annulled /\ Conclude(w, "finish", "succeeded")
     \/ Goto(w, "except")
  /\ UNCHANGED <<doc, job, pacVars, satVars>>

RefreshSave(w) ==
  /\ wk[w].pc = "refreshSave" /\ Holds(w)
  /\ doc' = [doc EXCEPT ![Target(w)].status = "cancelled"]
  /\ Conclude(w, "finish", "succeeded")
  /\ UNCHANGED <<job, pacVars, satVars>>

-----------------------------------------------------------------------------
(* PDF.                                                                    *)

Render(w) ==
  LET d == Target(w) IN
  /\ wk[w].pc = "render"
  /\ IF doc[d].pdf = doc[d].xml
     THEN Conclude(w, "finish", "succeeded")
     ELSE wk' = [wk EXCEPT ![w].pc = "pdfSave", ![w].xml = doc[d].xml]
  /\ UNCHANGED <<doc, job, pacVars, satVars>>

PdfSave(w) ==
  LET d == Target(w) IN
  /\ wk[w].pc = "pdfSave" /\ Holds(w)
  /\ doc' = IF doc[d].xml = wk[w].xml THEN [doc EXCEPT ![d].pdf = wk[w].xml] ELSE doc
  /\ Conclude(w, "finish", "succeeded")
  /\ UNCHANGED <<job, pacVars, satVars>>

-----------------------------------------------------------------------------
(* The end of run_job, and what happens to a worker that does not reach it. *)

\* The exception handler reads the document before the final transaction.
ReadOutcome(w) ==
  /\ wk[w].pc = "except"
  /\ Conclude(w, "finish",
              IF doc[Target(w)].status \in Ambiguous THEN "review" ELSE "failed")
  /\ UNCHANGED <<doc, job, pacVars, satVars>>

\* The conditional update: a superseded claim changes nothing.
Finish(w) ==
  /\ wk[w].pc = "finish"
  /\ IF Holds(w)
     THEN /\ job' = [job EXCEPT ![wk[w].job].status = wk[w].verdict,
                                ![wk[w].job].lease = "none"]
          /\ IF wk[w].verdict = "succeeded" /\ wk[w].op \in {"stamp", "recover"}
             THEN Goto(w, "chain")
             ELSE wk' = [wk EXCEPT ![w] = Idle]
     ELSE UNCHANGED job /\ wk' = [wk EXCEPT ![w] = Idle]
  /\ UNCHANGED <<doc, pacVars, satVars>>

\* A stamped document gets its PDF job, unless another row won the document.
ChainPdf(w) ==
  LET d == Target(w) IN
  /\ wk[w].pc = "chain"
  /\ \/ Enqueue("pdf", d, doc[d])
     \/ (HasActiveJob(d) \/ LedgerFull) /\ UNCHANGED job
  /\ wk' = [wk EXCEPT ![w] = Idle]
  /\ UNCHANGED <<doc, pacVars, satVars>>

\* The process dies, or the hard time limit kills it; its row stays running.
Crash(w) ==
  /\ wk[w].pc # "idle"
  /\ wk' = [wk EXCEPT ![w] = Idle]
  /\ UNCHANGED <<doc, job, pacVars, satVars>>

\* What an interrupted operation is continued as: never as a second PAC request.
ContinuedAs(j) ==
  CASE job[j].op = "stamp" /\ doc[job[j].doc].requestXml # 0 -> "recover"
    [] job[j].op = "cancel" -> "cancellation_status"
    [] OTHER -> job[j].op

Requeued(j, op) == [status |-> "queued", op |-> op, doc |-> job[j].doc,
                    attempts |-> job[j].attempts, token |-> 0, lease |-> "none"]

\* Faulty variants: a row may be interrupted without limit ...
RecoverUnlimited(j) ==
  /\ job[j].status = "running" /\ job[j].lease = "expired"
  /\ doc' = IF job[j].op = "stamp" /\ doc[job[j].doc].status = "submitting"
            THEN [doc EXCEPT ![job[j].doc].status = "uncertain"] ELSE doc
  /\ job' = [job EXCEPT ![j] = Requeued(j, ContinuedAs(j))]
  /\ UNCHANGED <<wk, pacVars, satVars>>

\* ... one that was interrupted too often is skipped ...
RecoverSkips(j) == job[j].attempts < MaxAttempts /\ RecoverUnlimited(j)

\* ... an interrupted stamp is simply done again.
RecoverByRetry(j) ==
  /\ job[j].status = "running" /\ job[j].lease = "expired"
  /\ job[j].attempts < MaxAttempts
  /\ doc' = IF doc[job[j].doc].status = "submitting"
            THEN [doc EXCEPT ![job[j].doc].status = "draft"] ELSE doc
  /\ job' = [job EXCEPT ![j] = Requeued(j, job[j].op)]
  /\ UNCHANGED <<wk, pacVars, satVars>>

\* recover_expired_jobs, one row.
Recover(j) ==
  LET d == job[j].doc IN
  /\ job[j].status = "running" /\ job[j].lease = "expired"
  /\ doc' = IF job[j].op = "stamp" /\ doc[d].status = "submitting"
            THEN [doc EXCEPT ![d].status = "uncertain"] ELSE doc
  /\ job' = [job EXCEPT ![j] =
       [status |-> IF job[j].attempts < MaxAttempts THEN "queued" ELSE "review",
        op |-> ContinuedAs(j), doc |-> d, attempts |-> job[j].attempts,
        token |-> 0, lease |-> "none"]]
  /\ UNCHANGED <<wk, pacVars, satVars>>

-----------------------------------------------------------------------------
StampStep(w) ==
  \/ Sign(w) \/ AlreadyStamped(w) \/ StampBegin(w) \/ SendStamp(w) \/ QueryStamped(w)
  \/ StampUnclear(w) \/ StampSave(w) \/ StampFail(w)

CancelStep(w) ==
  \/ AlreadyAsked(w) \/ CancelBegin(w) \/ SendCancel(w) \/ CancelUnclear(w)
  \/ CancelSave(w) \/ CancelFail(w) \/ QuerySat(w) \/ RefreshSave(w)

\* Every step the worker takes by itself once it has claimed a row.
WorkerStep(w) ==
  \/ Abort(w) \/ StampStep(w) \/ CancelStep(w)
  \/ Render(w) \/ PdfSave(w) \/ ReadOutcome(w) \/ Finish(w) \/ ChainPdf(w)

Staff == \E d \in Docs : \/ RequestStamp(d) \/ RequestPdf(d)
                         \/ \E op \in Operations : RequestOther(op, d)

External ==
  \/ \E w \in Workers : \/ PacStamps(w) \/ PacRejects(w)
                        \/ PacForwardsCancel(w) \/ PacRejectsCancel(w)
  \/ \E call \in inbox : PacStampsUnheard(call)
  \/ \E d \in Docs : PacForwardsUnheard(d) \/ SatAnnuls(d)

Next ==
  \/ Staff
  \/ External
  \/ \E d \in Docs : BackfillPdf(d)
  \/ \E w \in Workers, j \in Jobs : Claim(w, j)
  \/ \E w \in Workers : WorkerStep(w) \/ Crash(w)
  \/ \E j \in Jobs : LeaseExpires(j) \/ Recover(j)

Spec == Init /\ [][Next]_vars

\* The dispatcher runs every 30 seconds and republishes every queued row;
\* Celery kills a task after 120 seconds, and a lease is over after 300.
Fairness ==
  /\ \A w \in Workers : WF_vars(WorkerStep(w))
  /\ \A j \in Jobs : /\ WF_vars(\E w \in Workers : Claim(w, j))
                      /\ WF_vars(LeaseExpires(j)) /\ WF_vars(Recover(j))

FairSpec == Spec /\ Fairness

-----------------------------------------------------------------------------
(* Safety.                                                                 *)

\* Two processes never both hold the document: a requeued row takes its claim
\* away from the process that had it, and one document has one active row.
OneLiveClaim ==
  \A v, w \in Workers :
    /\ wk[v].job \in Jobs /\ Holds(v) /\ wk[w].job \in Jobs /\ Holds(w)
    /\ Target(v) = Target(w)
    => v = w

\* A signed XML that the PAC may have stamped is never replaced: it is the only
\* key with which the CFDI can be recovered, whatever died, stalled or was
\* requested again meanwhile.
ExposedXmlIsKept == \A call \in exposed : doc[call[1]].requestXml = call[2]

\* A process on the way to a stamp call, waiting for its answer, or about to
\* record its rejection.
Stamping(w) == \/ wk[w].pc = "send" /\ wk[w].op = "stamp"
               \/ wk[w].pc = "await"
               \/ wk[w].pc = "fail" /\ wk[w].verdict = "error"

\* Why ExposedXmlIsKept is preserved.  The status of a document with an
\* unanswered stamp call, or with a process about to make one, is never one
\* from which the XML is signed or submitted anew, and there is one such
\* process at most, whether or not it still holds its claim.
StampInv ==
  /\ \A call \in exposed : /\ doc[call[1]].requestXml = call[2] /\ call[2] # 0
                           /\ doc[call[1]].status \notin {"draft", "error"}
  /\ inbox \subseteq exposed
  /\ \A w \in Workers : Stamping(w) =>
       /\ wk[w].xml # 0 /\ doc[Target(w)].requestXml = wk[w].xml
       /\ doc[Target(w)].status \notin {"draft", "error"}
       /\ wk[w].pc # "await" => \A call \in exposed : call[1] # Target(w)
  /\ \A v, w \in Workers : Stamping(v) /\ Stamping(w) /\ Target(v) = Target(w) => v = w

\* A document said to be stamped is a CFDI the PAC really holds, a document
\* said to be cancelled one the SAT really annulled, and once the PAC has
\* forwarded a cancellation the document never looks valid again.
LedgerIsTruthful ==
  \A d \in Docs :
    LET row == doc[d] IN
    /\ row.status \in {"stamped", "cancel_pending", "cancelled"} <=> row.xml # 0
    /\ row.xml # 0 => <<d, row.xml>> \in registered
    /\ row.status = "cancelled" => d \in annulled
    /\ d \in asked => row.status \in {"cancel_pending", "cancelled"}

\* A document that still relates to a valid complement or egress is not annulled
\* (docs/fiscal.md, "Bonificaciones, devoluciones y factura global").
\* The code does not keep it (README, Disagreements).
NoAnnulledParent ==
  \A c \in Docs : doc[c].status = "stamped" /\ Parent[c] # NoDoc
                  => doc[Parent[c]].status # "cancelled"

-----------------------------------------------------------------------------
(* Action properties.                                                      *)

\* A stamp call is made only when the PAC has rejected every earlier stamp call
\* for the document: nothing the system does by itself, and nothing the staff
\* asks for, submits a possibly stamped document again.
NoSecondStamp ==
  [][\A w \in Workers : wk[w].pc = "send" /\ wk'[w].pc = "await" =>
       \A call \in exposed : call[1] # Target(w)]_vars

\* What is recorded of an outcome is known and stays.  What was stamped stays
\* stamped with the same XML, and a confirmed cancellation is final: no late
\* answer, failure or recovery undoes either.  A run is reported as failed only
\* when its document has no stamp call whose outcome is unknown: those runs end
\* in review.
OutcomesAreKnown ==
  [][/\ \A d \in Docs : doc[d].xml # 0 =>
          /\ doc'[d].xml = doc[d].xml
          /\ doc'[d].status \in {"stamped", "cancel_pending", "cancelled"}
          /\ doc[d].status = "cancelled" => doc'[d].status = "cancelled"
     /\ \A j \in Jobs :
          /\ job[j].status = "running" /\ job'[j].status = "failed"
          /\ doc[job[j].doc].xml = 0
          => \A call \in exposed : call[1] # job[j].doc]_vars

-----------------------------------------------------------------------------
(* Refinement.                                                             *)

Register == INSTANCE CfdiRegister WITH
  Documents <- Docs,
  DependsOn <- [d \in Docs |-> Prior[d] \cup ({Parent[d]} \ {NoDoc})],
  issued    <- [d \in Docs |-> Cardinality({call \in registered : call[1] = d})],
  annulled  <- annulled

\* The CFDI the PAC and the SAT hold evolve as the register promises: one per
\* document, complements after the CFDI they relate to and after the earlier
\* parcialidades and egresses, whatever workers, leases and calls do.
ImplementsRegister == Register!Spec

-----------------------------------------------------------------------------
(* Liveness.                                                               *)

\* Every queued or claimed row reaches an end the staff can see, however often
\* workers die under it.
EveryJobSettles ==
  \A j \in Jobs : job[j].status \in Active ~> job[j].status \in Finished

=============================================================================
