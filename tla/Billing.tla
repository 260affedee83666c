------------------------------- MODULE Billing -------------------------------
(***************************************************************************)
(* The subscription and the invoices of one organization, and the payment  *)
(* provider's webhook that changes them.  Stripe delivers every event at   *)
(* least once, in any order, perhaps twice at a time; the handler looks    *)
(* for the event's record, applies the event by one or two writes, and     *)
(* only then writes the record.  Every step of it may fail, and a failed   *)
(* or unheard reply makes Stripe send the event again.  Meanwhile members  *)
(* of the organization change the subscription and create invoices.        *)
(*                                                                         *)
(* Abstracted: plan, interval and dates of the subscription (its status    *)
(* decides about access, and of a trial its end, which is left out),       *)
(* amounts and line items of an invoice, the signature (an event that      *)
(* fails it changes nothing), and the audit log, whose writer swallows     *)
(* its own errors.                                                         *)
(***************************************************************************)
EXTENDS Integers, FiniteSets

CONSTANTS
  Events,       \* what Stripe has to tell: records [id, kind, invoice, status]
  Deliveries,   \* POST requests of the webhook that may run at a time
  Invoices,     \* invoice ids
  Creators,     \* requests that create an invoice
  Reported,     \* statuses of a subscription Stripe reports, in capitals
  Asked,        \* statuses members ask for when they create an invoice
  MaxFaults,    \* bound: deliveries that fail, or whose reply is lost
  MaxEvents     \* bound: events that happen

Missing == "missing"    \* no such document, or a subscription without a status

\* The statuses sanitizeSubscription knows; any other is read as TRIALING.
KnownStatuses ==
  {"TRIALING", "ACTIVE", "PAST_DUE", "CANCELED", "INCOMPLETE", "UNPAID", "EXPIRED"}

Read(status) == IF status \in KnownStatuses THEN status ELSE "TRIALING"

\* What is stored is the raw status: what the code writes of its own accord,
\* and whatever else Stripe or a member names.
SubscriptionStatuses ==
  {"TRIALING", "ACTIVE", "PAST_DUE", "CANCELED", Missing} \union Reported
InvoiceStatuses == {"OPEN", "PAID", "FAILED"} \union Asked

\* The types the handler knows, and "other" for those it accepts and ignores
\* (among them every event that names no organization).
Kinds == {"checkout", "updated", "deleted", "paid", "failed", "other"}
InvoiceKinds == {"paid", "failed"}
SubscriptionKinds == {"checkout", "updated", "deleted", "failed"}

ASSUME BillingAssumption ==
  /\ IsFiniteSet(Deliveries) /\ MaxFaults \in Nat
  /\ \A e \in Events : /\ e.kind \in Kinds
                       /\ e.kind \in InvoiceKinds => e.invoice \in Invoices
                       /\ e.kind = "updated" => e.status \in Reported
  /\ Missing \notin Reported \union Asked

VARIABLES
  subscription,   \* billing/subscription: the status stored there, or Missing
  invoice,        \* billing/invoices/items/{id}: its status, or Missing
  recorded,       \* the events with a document under system/webhooks/stripe
  delivery,       \* where each POST of the webhook is
  creator,        \* where each creation of an invoice is
  sent,           \* Stripe: the events delivered at least once
  acked,          \* Stripe: the events it has seen accepted
  faults,         \* bounded by MaxFaults
  known,          \* history: events whose invoice existed when first sent
  done,           \* history: which documents each event has written
  applications    \* history: deliveries that began to apply each event

vars == <<subscription, invoice, recorded, delivery, creator, sent, acked,
          faults, known, done, applications>>

stripe == <<sent, acked, known>>
documents == <<subscription, invoice, recorded, done>>

Applying == {"findInvoice", "markInvoice", "subscription", "record"}
Steps == {"lookup", "reply"} \union Applying
Idle == [step |-> "idle"]
NoCreation == [step |-> "idle"]

Init ==
  /\ subscription = Missing /\ invoice = [i \in Invoices |-> Missing]
  /\ recorded = {}
  /\ delivery = [d \in Deliveries |-> Idle]
  /\ creator = [c \in Creators |-> NoCreation]
  /\ sent = {} /\ acked = {} /\ faults = 0
  /\ known = {} /\ done = [e \in Events |-> {}]
  /\ applications = [e \in Events |-> 0]

At(d, step) == delivery[d].step = step

Goto(d, step) == delivery' = [delivery EXCEPT ![d].step = step]

-----------------------------------------------------------------------------
(* Stripe. *)

\* Stripe posts an event: for the first time, again because no delivery of
\* it was accepted yet, or as a copy that "at least once" allows.  A copy
\* leaves a delivery free: the model has few of them, the server has not.
Send(e, d) ==
  /\ At(d, "idle")
  /\ Cardinality(sent \union {e}) <= MaxEvents
  /\ e \in acked => \E free \in Deliveries \ {d} : At(free, "idle")
  /\ sent' = sent \union {e}
  /\ known' = IF e \notin sent /\ e.kind \in InvoiceKinds
                 /\ invoice[e.invoice] # Missing
              THEN known \union {e} ELSE known
  /\ delivery' = [delivery EXCEPT ![d] = [step |-> "lookup", event |-> e]]
  /\ UNCHANGED <<documents, creator, acked, faults, applications>>

-----------------------------------------------------------------------------
(* The handler, POST /api/v1/billing/webhooks/stripe. *)

FirstStep(kind) ==
  CASE kind \in InvoiceKinds      -> "findInvoice"
    [] kind = "other"             -> "record"
    [] OTHER                      -> "subscription"

\* The event has a record: it is accepted and left alone.
Skip(d) ==
  /\ At(d, "lookup") /\ delivery[d].event \in recorded
  /\ Goto(d, "reply")
  /\ UNCHANGED <<documents, creator, stripe, faults, applications>>

\* Mutant of Begin: the look-up of the record decides nothing.
BeginAnyway(d) ==
  LET e == delivery[d].event IN
  /\ At(d, "lookup")
  /\ applications' = [applications EXCEPT ![e] = @ + 1]
  /\ Goto(d, FirstStep(e.kind))
  /\ UNCHANGED <<documents, creator, stripe, faults>>

Begin(d) ==
  LET e == delivery[d].event IN
  /\ At(d, "lookup") /\ e \notin recorded
  /\ applications' = [applications EXCEPT ![e] = @ + 1]
  /\ Goto(d, FirstStep(e.kind))
  /\ UNCHANGED <<documents, creator, stripe, faults>>

AfterInvoice(kind) == IF kind = "failed" THEN "subscription" ELSE "record"

\* Mutant of FindInvoice: without an invoice there is nothing left to do.
FindInvoiceOrStop(d) ==
  LET e == delivery[d].event IN
  /\ At(d, "findInvoice")
  /\ Goto(d, IF invoice[e.invoice] = Missing THEN "record" ELSE "markInvoice")
  /\ UNCHANGED <<documents, creator, stripe, faults, applications>>

\* markInvoicePaid and markInvoiceFailed first read the document; without
\* one they return null, and the handler goes on as if they had written.
FindInvoice(d) ==
  LET e == delivery[d].event IN
  /\ At(d, "findInvoice")
  /\ Goto(d, IF invoice[e.invoice] = Missing THEN AfterInvoice(e.kind)
                                             ELSE "markInvoice")
  /\ UNCHANGED <<documents, creator, stripe, faults, applications>>

\* ... and overwrite its status, whatever it is.
MarkInvoice(d) ==
  LET e == delivery[d].event IN
  /\ At(d, "markInvoice")
  /\ invoice' = [invoice EXCEPT ![e.invoice] =
                   IF e.kind = "paid" THEN "PAID" ELSE "FAILED"]
  /\ done' = [done EXCEPT ![e] = @ \union {"invoice"}]
  /\ Goto(d, AfterInvoice(e.kind))
  /\ UNCHANGED <<subscription, recorded, creator, stripe, faults, applications>>

\* Mutant of StatusOf: a failed payment writes the status of an invoice.
StatusOfInvoice(e) ==
  CASE e.kind = "checkout" -> "ACTIVE"
    [] e.kind = "updated"  -> e.status
    [] e.kind = "deleted"  -> "CANCELED"
    [] e.kind = "failed"   -> "FAILED"

StatusOf(e) ==
  CASE e.kind = "checkout" -> "ACTIVE"
    [] e.kind = "updated"  -> e.status
    [] e.kind = "deleted"  -> "CANCELED"
    [] e.kind = "failed"   -> "PAST_DUE"

\* syncSubscription, and cancelSubscription(immediate): one merging write.
WriteSubscription(d) ==
  LET e == delivery[d].event IN
  /\ At(d, "subscription")
  /\ subscription' = StatusOf(e)
  /\ done' = [done EXCEPT ![e] = @ \union {"subscription"}]
  /\ Goto(d, "record")
  /\ UNCHANGED <<invoice, recorded, creator, stripe, faults, applications>>

Record(d) ==
  /\ At(d, "record")
  /\ recorded' = recorded \union {delivery[d].event}
  /\ Goto(d, "reply")
  /\ UNCHANGED <<subscription, invoice, done, creator, stripe, faults, applications>>

Reply(d) ==
  /\ At(d, "reply")
  /\ acked' = acked \union {delivery[d].event}
  /\ delivery' = [delivery EXCEPT ![d] = Idle]
  /\ UNCHANGED <<documents, creator, sent, known, faults, applications>>

\* Mutant of Fail: an error is answered as if the event were accepted.
FailAccepted(d) ==
  /\ ~At(d, "idle") /\ faults < MaxFaults
  /\ faults' = faults + 1
  /\ acked' = acked \union {delivery[d].event}
  /\ delivery' = [delivery EXCEPT ![d] = Idle]
  /\ UNCHANGED <<documents, creator, sent, known, applications>>

\* A call of the database throws and the handler answers 500, the process
\* dies, or Stripe no longer waits for the reply.
Fail(d) ==
  /\ ~At(d, "idle") /\ faults < MaxFaults
  /\ faults' = faults + 1
  /\ delivery' = [delivery EXCEPT ![d] = Idle]
  /\ UNCHANGED <<documents, creator, stripe, applications>>

-----------------------------------------------------------------------------
(* Members of the organization.  Each of these operations is one write. *)

ChangeTo(status) ==
  /\ subscription' = status
  /\ UNCHANGED <<invoice, recorded, done, delivery, creator, stripe, faults,
                 applications>>

\* With trial days it starts as a trial.
CreateSubscription == \E status \in {"TRIALING", "ACTIVE"} : ChangeTo(status)

ChangePlan == ChangeTo("ACTIVE")

\* At once, or at the end of the period: then the status stays what it is,
\* and without a document one without a status is written.
CancelSubscription == \E status \in {"CANCELED", subscription} : ChangeTo(status)

ReactivateSubscription == ChangeTo("ACTIVE")

\* createInvoice returns the document it finds ...
LookUpInvoice(c, i) ==
  /\ creator[c].step = "idle"
  /\ creator' = [creator EXCEPT ![c] =
       IF invoice[i] # Missing THEN NoCreation
                               ELSE [step |-> "write", invoice |-> i]]
  /\ UNCHANGED <<documents, delivery, stripe, faults, applications>>

\* ... and otherwise sets it, over whatever was set since.  The route for
\* members creates it OPEN or as the body asks (invoices/route.ts:73), the
\* one for the PDF as PAID.
WriteInvoice(c) ==
  /\ creator[c].step = "write"
  /\ \E status \in {"OPEN", "PAID"} \union Asked :
       invoice' = [invoice EXCEPT ![creator[c].invoice] = status]
  /\ creator' = [creator EXCEPT ![c] = NoCreation]
  /\ UNCHANGED <<subscription, recorded, done, delivery, stripe, faults, applications>>

-----------------------------------------------------------------------------

Handle(d) ==
  \/ Skip(d) \/ Begin(d) \/ FindInvoice(d) \/ MarkInvoice(d)
  \/ WriteSubscription(d) \/ Record(d) \/ Reply(d)

Member ==
  \/ CreateSubscription \/ ChangePlan \/ CancelSubscription
  \/ ReactivateSubscription
  \/ \E c \in Creators : WriteInvoice(c) \/ \E i \in Invoices : LookUpInvoice(c, i)

Next ==
  \/ \E d \in Deliveries : Handle(d) \/ Fail(d) \/ \E e \in Events : Send(e, d)
  \/ Member

Spec == Init /\ [][Next]_vars

\* The server runs the handler it has started, and Stripe keeps sending an
\* event until it is accepted.  Nothing else has to happen.
Resend(e) == e \in sent \ acked /\ \E d \in Deliveries : Send(e, d)

Fairness ==
  /\ \A d \in Deliveries : WF_vars(Handle(d))
  /\ \A e \in Events : WF_vars(Resend(e))

FairSpec == Spec /\ Fairness

-----------------------------------------------------------------------------

Delivering == [step : Steps, event : Events] \union {Idle}
Creation == [step : {"write"}, invoice : Invoices] \union {NoCreation}

\* Every document and every request is in a state the code can put it in.
TypeOK ==
  /\ subscription \in SubscriptionStatuses
  /\ invoice \in [Invoices -> InvoiceStatuses \union {Missing}]
  /\ recorded \subseteq Events /\ acked \subseteq sent /\ sent \subseteq Events
  /\ delivery \in [Deliveries -> Delivering]
  /\ creator \in [Creators -> Creation]
  /\ faults \in 0..MaxFaults
  /\ known \subseteq sent
  /\ done \in [Events -> SUBSET {"invoice", "subscription"}]
  /\ applications \in [Events -> Nat]

Applied(e) ==
  /\ e.kind \in InvoiceKinds /\ e \in known => "invoice" \in done[e]
  /\ e.kind \in SubscriptionKinds => "subscription" \in done[e]

\* An event Stripe no longer sends has made all its writes: neither a failure
\* between the two writes of a failed payment, nor a copy that finds the
\* record, ends the deliveries too early.  (An invoice that did not exist when
\* the event was first sent is excepted: its payment is recorded and lost.)
AckedWasApplied == \A e \in acked : Applied(e)

\* How often an event may be applied although it has a record, however many
\* copies of it arrive: once for every delivery that failed, and once for each
\* of those that run at the same time (route.ts:49-51 and :121).
DuplicatesAreBounded ==
  \A e \in Events : applications[e] <= faults + Cardinality(Deliveries)

\* docs/payment-providers.md:39 promises "idempotent single-execution" of an
\* event by the look-up of its record (route.ts:49-51).
SingleExecution == \A e \in Events : applications[e] <= 1

\* checkSubscriptionAccess grants access to an active subscription and to a
\* trial that has not ended, and refuses every other status.
Grants(status) == Read(status) \in {"ACTIVE", "TRIALING"}
Refused == ~Grants(subscription)

Revoking == {e \in Events : e.kind \in SubscriptionKinds /\ ~Grants(StatusOf(e))}

\* What Stripe reports takes effect, whatever fails on the way: a subscription
\* cancelled, unpaid or reported in any status that grants nothing loses its
\* access, and an invoice that exists is marked.
EventsTakeEffect ==
  /\ \A e \in Revoking :
       e \in sent /\ "subscription" \notin done[e] ~> Refused
  /\ \A e \in Events :
       e.kind = "paid" =>
         (e \in known /\ "invoice" \notin done[e] ~> invoice[e.invoice] = "PAID")
=============================================================================
