------------------------------- MODULE Billing -------------------------------
(***************************************************************************)
(* The prepaid ledger of one customer and the suspensions for nonpayment   *)
(* (billing/services.py, billing/models.py, billing/tasks.py).             *)
(*                                                                         *)
(* Every operation takes the lock of the customer's row first, so that an  *)
(* operation is one step; what is hard is the order in which corrections   *)
(* of corrections meet.  Rows are immutable but for the status of invoices *)
(* and subscriptions and for paid_until: payments are undone by reversals, *)
(* charges by credit memos, memos by refunds.  A repeated request finds    *)
(* its row by its key and changes nothing.                                 *)
(*                                                                         *)
(* A period is a month, amounts are small numbers, a plan has one price.   *)
(* The grace of the policy is part of the instant `now`.                   *)
(***************************************************************************)
EXTENDS Integers, Sequences, FiniteSetsExt, SequencesExt

CONSTANTS
  Subscriptions,
  Price,         \* of a month of any plan
  Amounts,       \* of payments, memos and refunds
  MaxInvoices, MaxPayments, MaxMemos, MaxRefunds, MaxProposals, MaxMonths  \* bounds

ASSUME BillingAssumption ==
  /\ Price \in Nat \ {0} /\ Amounts \subseteq Nat \ {0}
  /\ {MaxInvoices, MaxPayments, MaxMemos, MaxRefunds, MaxProposals, MaxMonths} \subseteq Nat

VARIABLES
  book,  \* the rows of the customer, by table
  now    \* the month

vars == <<book, now>>

-----------------------------------------------------------------------------
\* A subscription has no paid_until and no activation before it is activated.
Never == -1

Invoice == [sub : Subscriptions, start : 0..MaxMonths + MaxInvoices,
            status : {"open", "paid"}]
Payment == [amount : Amounts, reversed : BOOLEAN, applied : [1..MaxInvoices -> Nat]]
Memo == [invoice : 1..MaxInvoices, amount : Amounts]
Refund == [memo : 1..MaxMemos, amount : Amounts]

\* A SuspensionProposal with its decision, application and release.
Proposal == [sub : Subscriptions, snapshot : Nat,
             state : {"proposed", "rejected", "approved", "blocked", "applied", "released"}]

Subscription == [status : {"pending", "active", "suspended", "cancelled"},
                 activated : 0..MaxMonths \cup {Never},
                 paidUntil : 0..MaxMonths + MaxInvoices \cup {Never}]

Book == [sub : [Subscriptions -> Subscription], inv : Seq(Invoice), pay : Seq(Payment),
         memo : Seq(Memo), refund : Seq(Refund), prop : Seq(Proposal)]

\* Every table holds rows of its type, within its bound.
TypeOK ==
  /\ book \in Book
  /\ Len(book.inv) <= MaxInvoices /\ Len(book.pay) <= MaxPayments
  /\ Len(book.memo) <= MaxMemos /\ Len(book.refund) <= MaxRefunds
  /\ Len(book.prop) <= MaxProposals
  /\ now \in 0..MaxMonths

Init ==
  /\ book = [sub |-> [s \in Subscriptions |->
                        [status |-> "pending", activated |-> Never, paidUntil |-> Never]],
             inv |-> <<>>, pay |-> <<>>, memo |-> <<>>, refund |-> <<>>, prop |-> <<>>]
  /\ now = 0

-----------------------------------------------------------------------------
(* What the rows add up to.                                                *)

\* Invoice.paid_amount: what payments that are not reversed have applied to it.
PaidAmount(b, i) ==
  SumFunction([p \in DOMAIN b.pay |->
                 IF b.pay[p].reversed THEN 0 ELSE b.pay[p].applied[i]])

Credited(b, i) ==
  SumFunction([m \in DOMAIN b.memo |->
                 IF b.memo[m].invoice = i THEN b.memo[m].amount ELSE 0])

RefundedOn(b, m) ==
  SumFunction([r \in DOMAIN b.refund |->
                 IF b.refund[r].memo = m THEN b.refund[r].amount ELSE 0])

Refunded(b, i) ==
  SumFunction([m \in DOMAIN b.memo |->
                 IF b.memo[m].invoice = i THEN RefundedOn(b, m) ELSE 0])

Balance(b, i) == Price - PaidAmount(b, i) - Credited(b, i) + Refunded(b, i)

\* Payment.available.
Available(b, p) ==
  IF b.pay[p].reversed THEN 0
  ELSE b.pay[p].amount - SumFunction([i \in DOMAIN b.inv |-> b.pay[p].applied[i]])

Credit(b) == SumFunction([p \in DOMAIN b.pay |-> Available(b, p)])

StatusFor(b, i) == IF Balance(b, i) <= 0 THEN "paid" ELSE "open"

InvoicesOf(b, s) == {i \in DOMAIN b.inv : b.inv[i].sub = s}

-----------------------------------------------------------------------------
(* _refresh_subscription and _resume_nonpayment.                           *)

\* The end of the periods that are settled without a gap.
Cursor(b, s) ==
  LET first == b.sub[s].activated
      Settled(month) == \E i \in InvoicesOf(b, s) : b.inv[i].start = month /\ Balance(b, i) <= 0
  IN Max({first + n : n \in {k \in 0..MaxInvoices : \A j \in 0..(k - 1) : Settled(first + j)}})

\* The suspensions of s that were applied and not released.
InForce(b, s) == {q \in DOMAIN b.prop : b.prop[q].sub = s /\ b.prop[q].state = "applied"}

\* Faulty: the suspension is not marked as released.
ResumedOnly(b, s) ==
  IF b.sub[s].status = "suspended" /\ b.sub[s].paidUntil > now /\ InForce(b, s) # {}
  THEN [b EXCEPT !.sub[s].status = "active"]
  ELSE b

Resumed(b, s) ==
  IF b.sub[s].status = "suspended" /\ b.sub[s].paidUntil > now /\ InForce(b, s) # {}
  THEN [b EXCEPT !.sub[s].status = "active", !.prop[Max(InForce(b, s))].state = "released"]
  ELSE b

Refreshed(b, s) ==
  IF b.sub[s].activated = Never THEN b
  ELSE Resumed([b EXCEPT !.sub[s].paidUntil = Cursor(b, s)], s)

RefreshedAll(b, S) == FoldSet(LAMBDA s, c : Refreshed(c, s), b, S)

-----------------------------------------------------------------------------
(* _allocate_customer.                                                     *)

\* The oldest charge first, among those of one month the first created.
Older(b, i, j) == b.inv[i].start < b.inv[j].start \/ (b.inv[i].start = b.inv[j].start /\ i < j)

Newest(b, I) == CHOOSE i \in I : \A j \in I : ~Older(b, i, j)

OpenInvoices(b) == {i \in DOMAIN b.inv : b.inv[i].status = "open"}

\* Faulty: takes the amount of the payment for what is left of it.
AppliedWhole(b, i, p) ==
  LET amount == Min({Balance(b, i), b.pay[p].amount})
  IN IF amount > 0 /\ Available(b, p) > 0
     THEN [b EXCEPT !.pay[p].applied[i] = @ + amount] ELSE b

\* One payment is applied to one invoice as far as both allow.
AppliedTo(b, i, p) ==
  LET amount == Min({Balance(b, i), Available(b, p)})
  IN IF amount > 0 THEN [b EXCEPT !.pay[p].applied[i] = @ + amount] ELSE b

\* Every payment in turn to one invoice, which gets its status.
Covered(b, i) ==
  LET c == FoldLeft(LAMBDA d, p : AppliedTo(d, i, p), b, [p \in DOMAIN b.pay |-> p])
  IN [c EXCEPT !.inv[i].status = StatusFor(c, i)]

\* One open invoice after the other, the newest the last.
Filled(b, I) ==
  MapThenFoldSet(LAMBDA i, c : Covered(c, i), b, LAMBDA i : i, LAMBDA J : Newest(b, J), I)

Allocated(b) ==
  LET open == OpenInvoices(b)
  IN RefreshedAll(Filled(b, open), {b.inv[i].sub : i \in open})

-----------------------------------------------------------------------------
(* The operations.                                                         *)

Charged(b, s, start) ==
  [b EXCEPT !.inv = Append(@, [sub |-> s, start |-> start, status |-> "open"])]

\* activate_subscription, up to its evidence: the first month is charged.
Activate(s) ==
  /\ book.sub[s].status = "pending" /\ Len(book.inv) < MaxInvoices
  /\ book' = Allocated(Charged([book EXCEPT !.sub[s].status = "active",
                                            !.sub[s].activated = now], s, now))
  /\ UNCHANGED now

LastInvoice(s) == Newest(book, InvoicesOf(book, s))

\* Faulty: does not look at the credit.
RenewOnAccount(s) ==
  /\ book.sub[s].activated # Never /\ book.sub[s].status # "cancelled"
  /\ Balance(book, LastInvoice(s)) <= 0
  /\ Len(book.inv) < MaxInvoices
  /\ book' = Allocated(Charged(book, s, book.inv[LastInvoice(s)].start + 1))
  /\ UNCHANGED now

\* renew_subscription: only with the credit for the whole month.
Renew(s) ==
  /\ book.sub[s].activated # Never /\ book.sub[s].status # "cancelled"
  /\ Balance(book, LastInvoice(s)) <= 0 /\ Credit(book) >= Price
  /\ Len(book.inv) < MaxInvoices
  /\ book' = Allocated(Charged(book, s, book.inv[LastInvoice(s)].start + 1))
  /\ UNCHANGED now

\* receive_payment; reconcile_bank calls it with the entry's fingerprint as key.
Pay(amount) ==
  /\ Len(book.pay) < MaxPayments
  /\ book' = Allocated([book EXCEPT !.pay = Append(@,
               [amount |-> amount, reversed |-> FALSE, applied |-> [i \in 1..MaxInvoices |-> 0]])])
  /\ UNCHANGED now

AppliedBy(p) == {i \in DOMAIN book.inv : book.pay[p].applied[i] > 0}

\* Faulty: looks only for refunds that exceed the payment.
DrawnBeyond(p) ==
  \E r \in DOMAIN book.refund : book.refund[r].amount > book.pay[p].amount

\* Whether a refund has drawn on a payment.
DrawnOn(p) == \E r \in DOMAIN book.refund : book.memo[book.refund[r].memo].invoice \in AppliedBy(p)

Reopened(p) ==
  [book EXCEPT !.pay[p].reversed = TRUE,
     !.inv = [i \in DOMAIN @ |-> IF i \in AppliedBy(p) THEN [@[i] EXCEPT !.status = "open"]
                                                      ELSE @[i]]]

\* reverse_payment.
ReversePayment(p) ==
  /\ ~book.pay[p].reversed /\ ~DrawnOn(p)
  /\ book' = RefreshedAll(Allocated(Reopened(p)), {book.inv[i].sub : i \in AppliedBy(p)})
  /\ UNCHANGED now

\* Faulty: does not refresh the subscription.
IssueMemoOnly(i, amount) ==
  /\ Len(book.memo) < MaxMemos
  /\ LET b == [book EXCEPT !.memo = Append(@, [invoice |-> i, amount |-> amount])]
     IN book' = [b EXCEPT !.inv[i].status = StatusFor(b, i)]
  /\ UNCHANGED now

\* issue_credit_memo, for a manual adjustment or the credit of an outage.
IssueMemo(i, amount) ==
  /\ Len(book.memo) < MaxMemos
  /\ LET b == [book EXCEPT !.memo = Append(@, [invoice |-> i, amount |-> amount])]
     IN book' = Refreshed([b EXCEPT !.inv[i].status = StatusFor(b, i)], b.inv[i].sub)
  /\ UNCHANGED now

\* refund_credit: no more than the memo, nor than the credit of its invoice.
RefundMemo(m, amount) ==
  /\ Len(book.refund) < MaxRefunds
  /\ amount <= book.memo[m].amount - RefundedOn(book, m)
  /\ amount <= -Balance(book, book.memo[m].invoice)
  /\ book' = [book EXCEPT !.refund = Append(@, [memo |-> m, amount |-> amount])]
  /\ UNCHANGED now

\* cancel_subscription.
Cancel(s) ==
  /\ book.sub[s].status # "cancelled"
  /\ book' = [book EXCEPT !.sub[s].status = "cancelled"]
  /\ UNCHANGED now

-----------------------------------------------------------------------------
(* Suspension for nonpayment: three transactions, by the staff or by       *)
(* evaluate_suspensions.                                                   *)

\* What suspension_block asks of the ledger.
Suspendable(s) == book.sub[s].status = "active" /\ book.sub[s].paidUntil <= now

Propose(s) ==
  /\ Len(book.prop) < MaxProposals /\ Suspendable(s)
  /\ book' = [book EXCEPT !.prop = Append(@, [sub |-> s, snapshot |-> book.sub[s].paidUntil,
                                              state |-> "proposed"])]
  /\ UNCHANGED now

Review(q, decision) ==
  /\ book.prop[q].state = "proposed"
  /\ book' = [book EXCEPT !.prop[q].state = decision]
  /\ UNCHANGED now

\* apply_suspension looks at everything again.  An open dispute or outage, a network
\* not known to be healthy or a policy switched off stand in the way as well.
Apply(q, clear) ==
  LET s == book.prop[q].sub IN
  /\ book.prop[q].state = "approved"
  /\ IF Suspendable(s) /\ clear /\ book.sub[s].paidUntil = book.prop[q].snapshot
     THEN book' = [book EXCEPT !.prop[q].state = "applied", !.sub[s].status = "suspended"]
     ELSE book' = [book EXCEPT !.prop[q].state = "blocked"]
  /\ UNCHANGED now

-----------------------------------------------------------------------------
Tick == now < MaxMonths /\ now' = now + 1 /\ UNCHANGED book

Next ==
  \/ \E s \in Subscriptions : Activate(s) \/ Renew(s) \/ Cancel(s) \/ Propose(s)
  \/ \E a \in Amounts : Pay(a)
  \/ \E p \in DOMAIN book.pay : ReversePayment(p)
  \/ \E i \in DOMAIN book.inv, a \in Amounts : IssueMemo(i, a)
  \/ \E m \in DOMAIN book.memo, a \in Amounts : RefundMemo(m, a)
  \/ \E q \in DOMAIN book.prop :
       \/ \E decision \in {"approved", "rejected"} : Review(q, decision)
       \/ \E clear \in BOOLEAN : Apply(q, clear)
  \/ Tick

Spec == Init /\ [][Next]_vars

-----------------------------------------------------------------------------
(* Safety.                                                                 *)

\* After any sequence of corrections paid_until is the end of the months that are
\* settled without a gap, and an invoice is marked paid exactly when nothing is
\* owed on it (_refresh_subscription and the status that each operation writes).
BooksAgree ==
  /\ \A s \in Subscriptions :
       book.sub[s].activated # Never => book.sub[s].paidUntil = Cursor(book, s)
  /\ \A i \in DOMAIN book.inv : book.inv[i].status = StatusFor(book, i)

\* No payment is spent twice, no invoice takes more money than it charges, and
\* credit never lies idle while something is owed (_allocate_customer).
AllocationIsExact ==
  /\ \A p \in DOMAIN book.pay : Available(book, p) >= 0
  /\ \A i \in DOMAIN book.inv : PaidAmount(book, i) <= Price
  /\ Credit(book) > 0 => OpenInvoices(book) = {}

\* Money that went back to the customer stays covered, whatever is reversed later.
RefundStaysCovered ==
  \A i \in DOMAIN book.inv : Refunded(book, i) > 0 => Balance(book, i) <= 0

\* Nobody stays suspended for nonpayment who has paid, and a suspension is in
\* force for a suspended subscription only, one at a time: a later payment
\* releases the one that is in force (_resume_nonpayment).
SuspensionFollows ==
  \A s \in Subscriptions :
    /\ book.sub[s].status = "suspended" => book.sub[s].paidUntil <= now
    /\ Cardinality(InForce(book, s)) <= 1
    /\ book.sub[s].status = "suspended" => InForce(book, s) # {}
    /\ InForce(book, s) # {} => book.sub[s].status \in {"suspended", "cancelled"}

\* What is refunded had been collected (docs/fiscal.md).
\* The code does not keep it (README, Disagreements).
RefundIsCollected == \A i \in DOMAIN book.inv : Refunded(book, i) <= PaidAmount(book, i)

\* A renewal creates no debt: its month is paid when it is charged.
RenewalIsPaid ==
  [][\A s \in Subscriptions : Renew(s) => book'.inv[Len(book'.inv)].status = "paid"]_vars
=============================================================================
