------------------------------ MODULE Retention ------------------------------
(***************************************************************************)
(* The file the operator keeps of one customer: tickets, an ARCO request   *)
(* (access to or deletion of personal data) and the suppression of their   *)
(* content once nobody needs it (operations/, compliance/services.py,      *)
(* compliance/workflows.py).                                               *)
(*                                                                         *)
(* Suppressing takes two requests, a preview and its execution up to a day *)
(* later, each under the locks of the organization and of the customer: a  *)
(* ticket, a hold or a policy that is inserted meanwhile waits, so that    *)
(* each of the two is one step.  Everybody else goes on between them.  An  *)
(* edited ticket takes no lock: the page shows it, the request that saves  *)
(* it loads the row again, sets the fields of the form and writes all the  *)
(* columns.                                                                *)
(*                                                                         *)
(* A day is the unit of time, every day is a working day, terms are small; *)
(* the fields of a ticket that the form edits are one text.                *)
(***************************************************************************)
EXTENDS Integers, FiniteSets, Sequences

CONSTANTS
  NONE,
  Tickets,
  PolicyTerms,      \* the terms of the policies of a category
  ResponseTerm, ImplementationTerm,
  MaxDays, MaxPreviews, MaxEdits, MaxChanges  \* bounds

ASSUME RetentionAssumption ==
  /\ "arco" \notin Tickets
  /\ PolicyTerms["ticket"] \cup PolicyTerms["arco"] \subseteq Nat \ {0}
  /\ {ResponseTerm, ImplementationTerm} \subseteq Nat \ {0}
  /\ {MaxDays, MaxPreviews, MaxEdits, MaxChanges} \subseteq Nat

VARIABLES
  day,
  ticket,    \* the rows of the tickets
  arco,      \* the request, with its extensions
  holds,     \* the categories of the orders that are not released
  policies,  \* the policies of a category, by their terms
  previews,  \* the RetentionDisposal rows
  editing,   \* a form on a screen, or the request that saves it
  edits,     \* forms of tickets opened (bound)
  changes    \* holds placed and reviews withdrawn (bound)

retentionVars == <<day, ticket, arco, holds, policies, previews, editing, edits, changes>>

-----------------------------------------------------------------------------
Categories == {"ticket", "arco"}
Redacted == "redacted"
Kinds == {"billing", "technical"}
Texts == {"told", "amended", Redacted}

Row == [kind : Kinds, status : {"open", "resolved"}, closed : 0..MaxDays \cup {NONE},
        text : Texts, resolution : {NONE, "given", Redacted}]

Stages == {"response", "implementation"}
ASSUME NoneIsNothing == NONE \notin Row \cup Stages

Term(stage) == IF stage = "response" THEN ResponseTerm ELSE ImplementationTerm

Request == [status : {"none", "pending_identity", "in_review", "decision_sent", "completed"},
            since : [Stages -> Nat \cup {NONE}], due : [Stages -> Nat \cup {NONE}],
            extended : SUBSET Stages, closed : 0..MaxDays \cup {NONE}, text : {"told", Redacted}]

\* A new customer of an operator who has reviewed the policies.
RetentionInit ==
  /\ day = 0
  /\ ticket = [t \in Tickets |-> NONE]
  /\ arco = [status |-> "none", since |-> [s \in Stages |-> NONE], due |-> [s \in Stages |-> NONE],
             extended |-> {}, closed |-> NONE, text |-> "told"]
  /\ holds = {}
  /\ policies = [c \in Categories |-> [n \in PolicyTerms[c] |-> "approved"]]
  /\ previews = <<>>
  /\ editing = NONE /\ edits = 0 /\ changes = 0

-----------------------------------------------------------------------------
(* Tickets.                                                                *)

\* By the staff, or by the customer in the portal.
CreateTicket(t, kind) ==
  /\ ticket[t] = NONE
  /\ ticket' = [ticket EXCEPT ![t] = [kind |-> kind, status |-> "open", closed |-> NONE,
                                      text |-> "told", resolution |-> NONE]]
  /\ UNCHANGED <<day, arco, holds, policies, previews, editing, edits, changes>>

\* resolve_ticket: once, and only its own columns.
Resolve(t) ==
  /\ ticket[t] # NONE /\ ticket[t].status = "open"
  /\ ticket' = [ticket EXCEPT ![t].status = "resolved", ![t].closed = day,
                              ![t].resolution = "given"]
  /\ UNCHANGED <<day, arco, holds, policies, previews, editing, edits, changes>>

\* The page of the form: what the fields hold is what the row held.
OpenForm(t) ==
  /\ editing = NONE /\ ticket[t] # NONE /\ edits < MaxEdits
  /\ editing' = [step |-> "screen", ticket |-> t, row |-> ticket[t]]
  /\ edits' = edits + 1
  /\ UNCHANGED <<day, ticket, arco, holds, policies, previews, changes>>

\* The request loads the row and puts the fields of the form into it.
Load(kind, text) ==
  /\ editing # NONE /\ editing.step = "screen"
  /\ text \in {editing.row.text, "amended"}
  /\ editing' = [editing EXCEPT !.step = "request",
                   !.row = [ticket[editing.ticket] EXCEPT !.kind = kind, !.text = text]]
  /\ UNCHANGED <<day, ticket, arco, holds, policies, previews, edits, changes>>

\* form.save(): every column.
Save ==
  /\ editing # NONE /\ editing.step = "request"
  /\ ticket' = [ticket EXCEPT ![editing.ticket] = editing.row]
  /\ editing' = NONE
  /\ UNCHANGED <<day, arco, holds, policies, previews, edits, changes>>

\* The form is closed without saving.
Leave ==
  /\ editing # NONE /\ editing.step = "screen"
  /\ editing' = NONE
  /\ UNCHANGED <<day, ticket, arco, holds, policies, previews, edits, changes>>

\* Whether an aclaración of the customer is pending.
Dispute == \E t \in Tickets : ticket[t] # NONE /\ ticket[t].kind = "billing"
                                               /\ ticket[t].status # "resolved"

-----------------------------------------------------------------------------
(* The ARCO request: each step under the lock of its row.                  *)

Started(a, stage) == [a EXCEPT !.since[stage] = day, !.due[stage] = day + Term(stage)]

CreateArco ==
  /\ arco.status = "none"
  /\ arco' = Started([arco EXCEPT !.status = "pending_identity"], "response")
  /\ UNCHANGED <<day, ticket, holds, policies, previews, editing, edits, changes>>

\* Faulty: the term of the answer starts again with the identity.
VerifyRestarts ==
  /\ arco.status = "pending_identity"
  /\ arco' = [arco EXCEPT !.status = "in_review", !.due["response"] = day + ResponseTerm]
  /\ UNCHANGED <<day, ticket, holds, policies, previews, editing, edits, changes>>

\* verify_arco_identity.
VerifyIdentity ==
  /\ arco.status = "pending_identity"
  /\ arco' = [arco EXCEPT !.status = "in_review"]
  /\ UNCHANGED <<day, ticket, holds, policies, previews, editing, edits, changes>>

\* respond_arco: what is granted is to be implemented, what is denied is closed.
Respond(granted) ==
  /\ arco.status = "in_review"
  /\ arco' = IF granted THEN Started([arco EXCEPT !.status = "decision_sent"], "implementation")
             ELSE [arco EXCEPT !.status = "completed", !.closed = day]
  /\ UNCHANGED <<day, ticket, holds, policies, previews, editing, edits, changes>>

OpenStage ==
  CASE arco.status \in {"pending_identity", "in_review"} -> "response"
    [] arco.status = "decision_sent" -> "implementation"
    [] OTHER -> NONE

\* extend_arco: once for a stage, notified within its term.
Extend(stage) ==
  /\ stage \notin arco.extended /\ stage = OpenStage /\ day <= arco.due[stage]
  /\ arco' = [arco EXCEPT !.due[stage] = @ + Term(stage), !.extended = @ \cup {stage}]
  /\ UNCHANGED <<day, ticket, holds, policies, previews, editing, edits, changes>>

\* complete_arco.
CompleteArco ==
  /\ arco.status = "decision_sent"
  /\ arco' = [arco EXCEPT !.status = "completed", !.closed = day]
  /\ UNCHANGED <<day, ticket, holds, policies, previews, editing, edits, changes>>

-----------------------------------------------------------------------------
(* Holds and policies, by forms and by release_retention_hold.             *)

PlaceHold(c) ==
  /\ c \notin holds /\ changes < MaxChanges
  /\ changes' = changes + 1
  /\ holds' = holds \cup {c}
  /\ UNCHANGED <<day, ticket, arco, policies, previews, editing, edits>>

ReleaseHold(c) ==
  /\ c \in holds
  /\ holds' = holds \ {c}
  /\ UNCHANGED <<day, ticket, arco, policies, previews, editing, edits, changes>>

\* The form of a policy: its review is withdrawn, or made again.
WithdrawReview(c, n) ==
  /\ policies[c][n] = "approved" /\ changes < MaxChanges
  /\ changes' = changes + 1
  /\ policies' = [policies EXCEPT ![c][n] = "draft"]
  /\ UNCHANGED <<day, ticket, arco, holds, previews, editing, edits>>

ReviewPolicy(c, n) ==
  /\ policies[c][n] = "draft"
  /\ policies' = [policies EXCEPT ![c][n] = "approved"]
  /\ UNCHANGED <<day, ticket, arco, holds, previews, editing, edits, changes>>

-----------------------------------------------------------------------------
(* Suppression.                                                            *)

\* can_dispose: no order, and every policy of the category reviewed and expired.
CanDispose(c, closed) ==
  /\ holds \cap {"*", c} = {}
  /\ \A n \in PolicyTerms[c] : policies[c][n] = "approved" /\ day >= closed + n

\* _content_rows, by record.
Content(c) ==
  IF c = "ticket"
  THEN LET closed == {t \in Tickets : ticket[t] # NONE /\ ticket[t].status = "resolved"
                                      /\ ticket[t].text # Redacted}
       IN [t \in closed |-> ticket[t]]
  ELSE IF arco.status = "completed" /\ arco.text # Redacted THEN [r \in {"arco"} |-> arco]
  ELSE <<>>

\* What _digest covers of a row.
Snapshot(row) ==
  [closed |-> row.closed, text |-> row.text,
   rest |-> IF "resolution" \in DOMAIN row THEN row.resolution ELSE row.extended]

\* _eligible_rows with the digest of each; nothing while a dispute is pending.
Eligible(c) ==
  LET content == Content(c)
      due == {r \in DOMAIN content : ~Dispute /\ CanDispose(c, content[r].closed)}
  IN [r \in due |-> Snapshot(content[r])]

\* preview_retention_disposal.
Preview(c) ==
  /\ Len(previews) < MaxPreviews /\ DOMAIN Eligible(c) # {}
  /\ previews' = Append(previews, [category |-> c, rows |-> Eligible(c), expires |-> day + 1,
                                   performed |-> FALSE])
  /\ UNCHANGED <<day, ticket, arco, holds, policies, editing, edits, changes>>

\* Faulty: executes what was reviewed without looking again.
StillValidOnTrust(p) == ~p.performed /\ day <= p.expires

\* The preview is neither used nor expired, and its rows are eligible and as they were.
\* Its 24 hours end in the course of the next day.
StillValid(p) ==
  /\ ~p.performed /\ day <= p.expires
  /\ DOMAIN p.rows \subseteq DOMAIN Eligible(p.category)
  /\ \A r \in DOMAIN p.rows : Eligible(p.category)[r] = p.rows[r]

\* execute_retention_disposal.
Execute(i) ==
  LET p == previews[i] IN
  /\ StillValid(p)
  /\ previews' = [previews EXCEPT ![i].performed = TRUE]
  /\ IF p.category = "ticket"
     THEN /\ ticket' = [t \in Tickets |->
               IF t \in DOMAIN p.rows
               THEN [ticket[t] EXCEPT !.text = Redacted, !.resolution = Redacted]
               ELSE ticket[t]]
          /\ UNCHANGED arco
     ELSE /\ arco' = [arco EXCEPT !.text = Redacted]
          /\ UNCHANGED ticket
  /\ UNCHANGED <<day, holds, policies, editing, edits, changes>>

-----------------------------------------------------------------------------
NextDay ==
  /\ day < MaxDays /\ day' = day + 1
  /\ UNCHANGED <<ticket, arco, holds, policies, previews, editing, edits, changes>>

RetentionNext ==
  \/ \E t \in Tickets :
       \/ \E kind \in Kinds : CreateTicket(t, kind)
       \/ Resolve(t) \/ OpenForm(t)
  \/ \E kind \in Kinds, text \in Texts : Load(kind, text)
  \/ Save \/ Leave
  \/ CreateArco \/ VerifyIdentity \/ CompleteArco
  \/ \E granted \in BOOLEAN : Respond(granted)
  \/ \E stage \in Stages : Extend(stage)
  \/ \E c \in Categories \cup {"*"} : PlaceHold(c) \/ ReleaseHold(c)
  \/ \E c \in Categories : Preview(c)
  \/ \E c \in Categories : \E n \in PolicyTerms[c] : WithdrawReview(c, n) \/ ReviewPolicy(c, n)
  \/ \E i \in DOMAIN previews : Execute(i)
  \/ NextDay

RetentionSpec == RetentionInit /\ [][RetentionNext]_retentionVars

-----------------------------------------------------------------------------
\* Every row is of its type.
RetentionTypeOK ==
  /\ day \in 0..MaxDays /\ edits \in 0..MaxEdits /\ changes \in 0..MaxChanges
  /\ ticket \in [Tickets -> Row \cup {NONE}]
  /\ arco \in Request
  /\ holds \subseteq Categories \cup {"*"}
  /\ \A c \in Categories : policies[c] \in [PolicyTerms[c] -> {"draft", "approved"}]
  /\ Len(previews) <= MaxPreviews
  /\ editing = NONE \/ editing \in [step : {"screen", "request"}, ticket : Tickets, row : Row]

\* The records whose content this step suppresses.
Suppressed ==
  {t \in Tickets : ticket[t] # NONE /\ ticket[t].text # Redacted /\ ticket'[t].text = Redacted}
    \cup (IF arco.text # Redacted /\ arco'.text = Redacted THEN {"arco"} ELSE {})

\* Why the content of a record may go: somebody saw it as it is a day ago at most, it
\* has been closed for as long as every policy in force asks, and nothing holds it.
Justified(r) ==
  LET c == IF r = "arco" THEN "arco" ELSE "ticket"
      row == IF r = "arco" THEN arco ELSE ticket[r]
  IN /\ \E i \in DOMAIN previews :
          /\ ~previews[i].performed /\ day <= previews[i].expires
          /\ r \in DOMAIN previews[i].rows /\ previews[i].rows[r] = Snapshot(row)
     /\ holds \cap {"*", c} = {} /\ ~Dispute
     /\ \A n \in PolicyTerms[c] : policies[c][n] = "approved" /\ row.closed + n <= day

\* Nothing is suppressed that was not reviewed as it is, or that an order, a pending
\* dispute or a policy protects by now, whatever was saved, placed or repeated between
\* the preview and its execution (execute_retention_disposal).
OnlyReviewedIsSuppressed == [][\A r \in Suppressed : Justified(r)]_retentionVars

\* The staff cannot give itself more time than one extension of each stage, counted
\* from the reception and from the answer (extend_arco, verify_arco_identity).
TermsAreExtendedOnce ==
  \A stage \in Stages :
    arco.due[stage] # NONE =>
      arco.due[stage] = arco.since[stage]
                        + (IF stage \in arco.extended THEN 2 ELSE 1) * Term(stage)

\* What was suppressed does not come back: the person who confirms it is told that it is
\* irreversible (compliance/forms.py, DisposalConfirmForm).
\* The code does not keep it (README, Disagreements).
SuppressionIsFinal ==
  [][\A t \in Tickets : ticket[t] # NONE /\ ticket[t].resolution = Redacted
                          => ticket'[t].resolution = Redacted]_retentionVars
=============================================================================
