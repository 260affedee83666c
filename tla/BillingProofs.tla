---------------------------- MODULE BillingProofs ----------------------------
(***************************************************************************)
(* What Billing promises, proved for every set of events, however many     *)
(* deliveries run at a time and however many of them fail.  The argument   *)
(* is in OnCourse: what a delivery at each step of the handler has already *)
(* done.  Two facts carry it: an invoice is never deleted, so an event     *)
(* whose invoice existed at first never takes the path around its write;   *)
(* and the record is written last, by a delivery that did all the writes.  *)
(***************************************************************************)
EXTENDS Billing, FiniteSetTheorems, TLAPS

Event(d) == delivery[d].event

\* What a delivery has behind it when it is at a step.
OnCourse(d) ==
  /\ ~At(d, "idle") => Event(d) \in sent
  /\ At(d, "findInvoice") \/ At(d, "markInvoice") => Event(d).kind \in InvoiceKinds
  /\ At(d, "markInvoice") => invoice[Event(d).invoice] # Missing
  /\ At(d, "subscription") =>
       /\ Event(d).kind \in SubscriptionKinds
       /\ Event(d).kind = "failed" /\ Event(d) \in known => "invoice" \in done[Event(d)]
  /\ At(d, "record") => Applied(Event(d))
  /\ At(d, "reply") => Event(d) \in recorded

KnownExist == \A e \in known : e.kind \in InvoiceKinds /\ invoice[e.invoice] # Missing

RecordedWereApplied == \A e \in recorded : e \in sent /\ Applied(e)

AckedAreRecorded == acked \subseteq recorded

\* The inductive invariant for AckedWasApplied.
Inv ==
  /\ TypeOK
  /\ \A d \in Deliveries : OnCourse(d)
  /\ KnownExist /\ RecordedWereApplied /\ AckedAreRecorded

ApplyingTo(e) == {d \in Deliveries : delivery[d].step \in Applying /\ Event(d) = e}

\* The inductive invariant for DuplicatesAreBounded: until the record is
\* there, every delivery that began is either still applying or has failed.
Bound ==
  \A e \in Events :
    /\ applications[e] <= faults + Cardinality(Deliveries)
    /\ e \notin recorded => applications[e] <= faults + Cardinality(ApplyingTo(e))

-----------------------------------------------------------------------------
(* AckedWasApplied. *)

\* Nothing is known of any event, and nothing is under way, at the start.
LEMMA InitInv == Init => Inv
  BY BillingAssumption
  DEF Init, Inv, TypeOK, OnCourse, KnownExist, RecordedWereApplied, AckedAreRecorded,
      At, Event, Idle, Delivering, NoCreation, Creation, SubscriptionStatuses, Missing

USE DEF At, Event, stripe, documents

\* A delivery only ever moves to another step with the event it has.
LEMMA Moved ==
  ASSUME TypeOK, NEW d \in Deliveries, NEW step \in Steps, ~At(d, "idle"), Goto(d, step)
  PROVE  /\ delivery[d].event \in Events
         /\ delivery' \in [Deliveries -> Delivering]
         /\ delivery'[d].step = step /\ delivery'[d].event = delivery[d].event
         /\ \A other \in Deliveries \ {d} : delivery'[other] = delivery[other]
  BY DEF TypeOK, Goto, Delivering, Idle, Steps

\* Posting an event keeps the invariant.
LEMMA SendKeeps ==
  ASSUME Inv, NEW d \in Deliveries, NEW e \in Events, Send(e, d)
  PROVE  Inv'
<1>1. TypeOK'
  BY DEF Inv, TypeOK, Send, Delivering, Idle, Steps
<1>2. ASSUME NEW other \in Deliveries PROVE OnCourse(other)'
  <2>1. CASE other = d
    BY <2>1 DEF Inv, OnCourse, Send, TypeOK, Delivering
  <2>2. CASE other # d
    <3>1. delivery'[other] = delivery[other] /\ OnCourse(other)
      BY <2>2 DEF Send, Inv, TypeOK
    <3>2. ~At(other, "idle") => (Event(other) \in known' <=> Event(other) \in known)
      BY <3>1 DEF Send, OnCourse
    <3> QED  BY <3>1, <3>2 DEF OnCourse, Send, Applied
  <2> QED  BY <2>1, <2>2
<1>3. KnownExist' /\ RecordedWereApplied' /\ AckedAreRecorded'
  BY DEF Inv, KnownExist, RecordedWereApplied, AckedAreRecorded, Send, Applied
<1> QED  BY <1>1, <1>2, <1>3 DEF Inv

\* So does every step of the handler.
LEMMA HandleKeeps ==
  ASSUME Inv, NEW d \in Deliveries, Handle(d)
  PROVE  Inv'
<1> DEFINE e == delivery[d].event
<1> TypeOK /\ OnCourse(d)  BY DEF Inv
<1>1. CASE Skip(d)
  <2>1. ~At(d, "idle") /\ Goto(d, "reply") /\ "reply" \in Steps
    BY <1>1 DEF Skip, Steps
  <2> HIDE DEF At
  <2> QED
    BY <1>1, <2>1, Moved
    DEF At, Skip, Inv, TypeOK, OnCourse, KnownExist, RecordedWereApplied, AckedAreRecorded, Applied
<1>2. CASE Begin(d)
  <2>1. ~At(d, "idle") /\ Goto(d, FirstStep(e.kind)) /\ e \in Events
    BY <1>2 DEF Begin, TypeOK, Delivering, Idle
  <2>2. FirstStep(e.kind) \in Steps
    BY <2>1, BillingAssumption DEF FirstStep, Steps, Applying
  <2>3. TypeOK'
    BY <1>2, <2>1, <2>2, Moved DEF TypeOK, Begin
  <2>4. ASSUME NEW other \in Deliveries PROVE OnCourse(other)'
    <3>1. CASE other = d
      BY <1>2, <2>1, <2>2, <3>1, Moved, BillingAssumption
      DEF Begin, OnCourse, FirstStep, Applied, Kinds, InvoiceKinds, SubscriptionKinds
    <3>2. CASE other # d
      BY <1>2, <2>1, <2>2, <3>2, Moved DEF Begin, OnCourse, Inv, Applied
    <3> QED  BY <3>1, <3>2
  <2> QED
    BY <1>2, <2>3, <2>4
    DEF Begin, Inv, KnownExist, RecordedWereApplied, AckedAreRecorded, Applied
<1>3. CASE FindInvoice(d)
  <2> DEFINE next == IF invoice[e.invoice] = Missing THEN AfterInvoice(e.kind)
                                                     ELSE "markInvoice"
  <2>1. ~At(d, "idle") /\ Goto(d, next) /\ e \in Events /\ e.kind \in InvoiceKinds
    BY <1>3 DEF FindInvoice, TypeOK, Delivering, Idle, OnCourse
  <2>2. next \in Steps
    BY DEF AfterInvoice, Steps, Applying
  <2>3. TypeOK'
    BY <1>3, <2>1, <2>2, Moved DEF TypeOK, FindInvoice
  <2>4. e \in known => invoice[e.invoice] # Missing
    BY DEF Inv, KnownExist
  <2>5. ASSUME NEW other \in Deliveries PROVE OnCourse(other)'
    <3>1. CASE other = d
      BY <1>3, <2>1, <2>2, <2>4, <3>1, Moved
      DEF FindInvoice, OnCourse, AfterInvoice, Applied, InvoiceKinds, SubscriptionKinds
    <3>2. CASE other # d
      BY <1>3, <2>1, <2>2, <3>2, Moved DEF FindInvoice, OnCourse, Inv, Applied
    <3> QED  BY <3>1, <3>2
  <2> QED
    BY <1>3, <2>3, <2>5
    DEF FindInvoice, Inv, KnownExist, RecordedWereApplied, AckedAreRecorded, Applied
<1>4. CASE MarkInvoice(d)
  <2>1. ~At(d, "idle") /\ Goto(d, AfterInvoice(e.kind)) /\ e \in Events
        /\ e.kind \in InvoiceKinds /\ e.invoice \in Invoices
    BY <1>4, BillingAssumption DEF MarkInvoice, TypeOK, Delivering, Idle, OnCourse
  <2>2. AfterInvoice(e.kind) \in Steps
    BY DEF AfterInvoice, Steps, Applying
  <2>3. TypeOK'
    BY <1>4, <2>1, <2>2, Moved DEF TypeOK, MarkInvoice, InvoiceStatuses
  <2>4. /\ \A i \in Invoices : invoice[i] # Missing => invoice'[i] # Missing
        /\ \A x \in Events : done[x] \subseteq done'[x]
        /\ "invoice" \in done'[e]
    BY <1>4, <2>1 DEF MarkInvoice, TypeOK, Missing
  <2>5. ASSUME NEW other \in Deliveries PROVE OnCourse(other)'
    <3>1. CASE other = d
      BY <1>4, <2>1, <2>2, <2>4, <3>1, Moved
      DEF MarkInvoice, OnCourse, AfterInvoice, Applied, InvoiceKinds, SubscriptionKinds
    <3>2. CASE other # d
      <4>1. delivery'[other] = delivery[other] /\ OnCourse(other)
        BY <2>1, <2>2, <3>2, Moved DEF Inv
      <4>2. ~At(other, "idle") => Event(other) \in Events
        BY DEF TypeOK, Delivering, Idle
      <4>3. Event(other).kind \in InvoiceKinds /\ Event(other) \in Events =>
              Event(other).invoice \in Invoices
        BY BillingAssumption
      <4> QED
        BY <1>4, <2>4, <4>1, <4>2, <4>3 DEF MarkInvoice, OnCourse, Applied
    <3> QED  BY <3>1, <3>2
  <2>6. KnownExist'
    BY <1>4, <2>4, BillingAssumption DEF MarkInvoice, Inv, KnownExist, TypeOK
  <2> QED
    BY <1>4, <2>3, <2>4, <2>5, <2>6
    DEF MarkInvoice, Inv, RecordedWereApplied, AckedAreRecorded, Applied, TypeOK
<1>5. CASE WriteSubscription(d)
  <2>1. ~At(d, "idle") /\ Goto(d, "record") /\ "record" \in Steps /\ e \in Events
        /\ e.kind \in SubscriptionKinds
    BY <1>5 DEF WriteSubscription, TypeOK, Delivering, Idle, OnCourse, Steps, Applying
  <2>2. StatusOf(e) \in SubscriptionStatuses
    BY <2>1, BillingAssumption DEF StatusOf, SubscriptionKinds, SubscriptionStatuses
  <2>3. TypeOK'
    BY <1>5, <2>1, <2>2, Moved DEF TypeOK, WriteSubscription
  <2>4. /\ \A x \in Events : done[x] \subseteq done'[x]
        /\ "subscription" \in done'[e]
    BY <1>5, <2>1 DEF WriteSubscription, TypeOK
  <2>5. ASSUME NEW other \in Deliveries PROVE OnCourse(other)'
    <3>1. CASE other = d
      BY <1>5, <2>1, <2>4, <3>1, Moved
      DEF WriteSubscription, OnCourse, Applied, InvoiceKinds, SubscriptionKinds
    <3>2. CASE other # d
      <4>1. delivery'[other] = delivery[other] /\ OnCourse(other)
        BY <2>1, <3>2, Moved DEF Inv
      <4>2. ~At(other, "idle") => Event(other) \in Events
        BY DEF TypeOK, Delivering, Idle
      <4> QED  BY <1>5, <2>4, <4>1, <4>2 DEF WriteSubscription, OnCourse, Applied
    <3> QED  BY <3>1, <3>2
  <2> QED
    BY <1>5, <2>3, <2>4, <2>5
    DEF WriteSubscription, Inv, KnownExist, RecordedWereApplied, AckedAreRecorded,
        Applied, TypeOK
<1>6. CASE Record(d)
  <2>1. ~At(d, "idle") /\ Goto(d, "reply") /\ "reply" \in Steps /\ e \in Events
        /\ e \in sent /\ Applied(e)
    BY <1>6 DEF Record, TypeOK, Delivering, Idle, OnCourse, Steps
  <2>2. TypeOK'
    BY <1>6, <2>1, Moved DEF TypeOK, Record
  <2>3. ASSUME NEW other \in Deliveries PROVE OnCourse(other)'
    BY <1>6, <2>1, Moved DEF Record, OnCourse, Inv, Applied
  <2> QED
    BY <1>6, <2>1, <2>2, <2>3
    DEF Record, Inv, KnownExist, RecordedWereApplied, AckedAreRecorded, Applied
<1>7. CASE Reply(d)
  BY <1>7
  DEF Reply, Inv, TypeOK, OnCourse, Applied, KnownExist, RecordedWereApplied,
      AckedAreRecorded, Delivering, Idle
<1> QED  BY <1>1, <1>2, <1>3, <1>4, <1>5, <1>6, <1>7 DEF Handle

\* A delivery that fails leaves nothing behind.
LEMMA FailKeeps ==
  ASSUME Inv, NEW d \in Deliveries, Fail(d)
  PROVE  Inv'
  BY BillingAssumption
  DEF Fail, Inv, TypeOK, OnCourse, Applied, KnownExist, RecordedWereApplied,
      AckedAreRecorded, Delivering, Idle

\* The members' operations touch neither record nor delivery, and delete no
\* invoice.
LEMMA MemberKeeps == ASSUME Inv, Member PROVE Inv'
<1> DEFINE Harmless ==
      /\ UNCHANGED <<recorded, done, delivery, stripe, faults, applications>>
      /\ TypeOK'
      /\ \A i \in Invoices : invoice[i] # Missing => invoice'[i] # Missing
<1>1. Harmless
  <2>1. CASE CreateSubscription \/ ChangePlan \/ CancelSubscription \/ ReactivateSubscription
    BY <2>1
    DEF CreateSubscription, ChangePlan, CancelSubscription, ReactivateSubscription,
        ChangeTo, Inv, TypeOK, SubscriptionStatuses
  <2>2. ASSUME NEW c \in Creators, WriteInvoice(c)
        PROVE  Harmless
    BY <2>2, BillingAssumption
    DEF WriteInvoice, Inv, TypeOK, Creation, NoCreation, InvoiceStatuses, Missing
  <2>3. ASSUME NEW c \in Creators, NEW i \in Invoices, LookUpInvoice(c, i)
        PROVE  Harmless
    BY <2>3 DEF LookUpInvoice, Inv, TypeOK, Creation, NoCreation
  <2> QED  BY <2>1, <2>2, <2>3 DEF Member
<1>2. ASSUME NEW d \in Deliveries PROVE OnCourse(d)'
  <2>1. ~At(d, "idle") => Event(d) \in Events
    BY DEF Inv, TypeOK, Delivering, Idle
  <2>2. Event(d).kind \in InvoiceKinds /\ Event(d) \in Events => Event(d).invoice \in Invoices
    BY BillingAssumption
  <2> QED  BY <1>1, <2>1, <2>2 DEF Inv, OnCourse, Applied
<1>3. KnownExist' /\ RecordedWereApplied' /\ AckedAreRecorded'
  BY <1>1, BillingAssumption
  DEF Inv, KnownExist, RecordedWereApplied, AckedAreRecorded, Applied, TypeOK
<1> QED  BY <1>1, <1>2, <1>3 DEF Inv

LEMMA NextInv == Inv /\ [Next]_vars => Inv'
<1> SUFFICES ASSUME Inv, [Next]_vars PROVE Inv'
  OBVIOUS
<1>1. CASE UNCHANGED vars
  BY <1>1
  DEF vars, Inv, TypeOK, OnCourse, Applied, KnownExist, RecordedWereApplied,
      AckedAreRecorded, Delivering, Creation
<1>2. CASE Next
  BY <1>2, SendKeeps, HandleKeeps, FailKeeps, MemberKeeps DEF Next
<1> QED  BY <1>1, <1>2

LEMMA InvAlways == Spec => []Inv
  BY InitInv, NextInv, PTL DEF Spec

\* Every document and every request stays within the states of the code.
THEOREM TypeCorrect == Spec => []TypeOK
  BY InvAlways, PTL DEF Inv

\* An event Stripe has seen accepted made all its writes, whatever failed.
THEOREM AcceptedEventsWereApplied == Spec => []AckedWasApplied
<1>1. Inv => AckedWasApplied
  BY DEF Inv, AckedAreRecorded, RecordedWereApplied, AckedWasApplied
<1> QED  BY <1>1, InvAlways, PTL

-----------------------------------------------------------------------------
(* DuplicatesAreBounded. *)

\* The deliveries that apply an event are some of all deliveries.
LEMMA ApplyingIsFinite ==
  ASSUME NEW e
  PROVE  /\ IsFiniteSet(ApplyingTo(e)) /\ Cardinality(ApplyingTo(e)) \in Nat
         /\ Cardinality(Deliveries) \in Nat
         /\ Cardinality(ApplyingTo(e)) <= Cardinality(Deliveries)
<1>1. ApplyingTo(e) \subseteq Deliveries
  BY DEF ApplyingTo
<1> QED  BY <1>1, BillingAssumption, FS_Subset, FS_CardinalityType

\* What a step that moves no delivery into or out of Applying leaves alone.
LEMMA SameApplying ==
  ASSUME TypeOK, Bound, NEW x \in Events,
         ApplyingTo(x)' = ApplyingTo(x), UNCHANGED applications,
         faults' = faults, recorded \subseteq recorded'
  PROVE  /\ applications'[x] <= faults' + Cardinality(Deliveries)
         /\ x \notin recorded' => applications'[x] <= faults' + Cardinality(ApplyingTo(x)')
  BY DEF Bound

LEMMA BoundKeeps == Inv /\ Bound /\ [Next]_vars => Bound'
<1> SUFFICES ASSUME Inv, Bound, [Next]_vars, NEW x \in Events
    PROVE  /\ applications'[x] <= faults' + Cardinality(Deliveries)
           /\ x \notin recorded' => applications'[x] <= faults' + Cardinality(ApplyingTo(x)')
  BY DEF Bound
<1> DEFINE Goal ==
      /\ applications'[x] <= faults' + Cardinality(Deliveries)
      /\ x \notin recorded' => applications'[x] <= faults' + Cardinality(ApplyingTo(x)')
<1> TypeOK /\ applications[x] \in Nat /\ faults \in Nat
  BY BillingAssumption DEF Inv, TypeOK
<1>1. CASE UNCHANGED vars
  BY <1>1, SameApplying DEF vars, ApplyingTo
<1>2. ASSUME NEW d \in Deliveries, NEW e \in Events, Send(e, d)
      PROVE  Goal
  <2>1. ApplyingTo(x)' = ApplyingTo(x)
    BY <1>2 DEF Send, ApplyingTo, Applying, TypeOK
  <2> QED  BY <1>2, <2>1, SameApplying DEF Send
<1>3. ASSUME NEW d \in Deliveries, Begin(d)
      PROVE  Goal
  <2> DEFINE e == delivery[d].event
  <2>1. ~At(d, "idle") /\ Goto(d, FirstStep(e.kind)) /\ e \in Events
    BY <1>3 DEF Begin, TypeOK, Delivering, Idle
  <2>2. FirstStep(e.kind) \in Applying /\ FirstStep(e.kind) \in Steps
    BY <2>1, BillingAssumption DEF FirstStep, Steps, Applying
  <2>3. CASE x # e
    <3>1. ApplyingTo(x)' = ApplyingTo(x)
      BY <1>3, <2>1, <2>2, <2>3, Moved DEF ApplyingTo, Applying, Begin
    <3>2. applications'[x] = applications[x]
      BY <1>3, <2>1, <2>3 DEF Begin, TypeOK
    <3> QED  BY <1>3, <3>1, <3>2 DEF Begin, Bound
  <2>4. CASE x = e
    <3>1. ApplyingTo(x)' = ApplyingTo(x) \union {d} /\ d \notin ApplyingTo(x)
      BY <1>3, <2>1, <2>2, <2>4, Moved DEF ApplyingTo, Applying, Begin
    <3> DEFINE now == ApplyingTo(x)
               next == ApplyingTo(x)'
    <3>2. next \subseteq Deliveries
      BY DEF ApplyingTo
    <3>3. Cardinality(next) = Cardinality(now) + 1
          /\ Cardinality(next) <= Cardinality(Deliveries)
          /\ Cardinality(now) \in Nat /\ Cardinality(Deliveries) \in Nat
      BY <3>1, <3>2, ApplyingIsFinite, BillingAssumption, FS_AddElement, FS_Subset,
         FS_CardinalityType
    <3>4. applications'[x] = applications[x] + 1 /\ faults' = faults
      BY <1>3, <2>4 DEF Begin, TypeOK
    <3>5. applications[x] <= faults + Cardinality(now)
      BY <1>3, <2>4 DEF Begin, Bound
    <3> HIDE DEF now, next
    <3>6. /\ applications'[x] <= faults' + Cardinality(Deliveries)
          /\ applications'[x] <= faults' + Cardinality(next)
      BY <3>3, <3>4, <3>5
    <3> QED  BY <3>6 DEF next
  <2> QED  BY <2>3, <2>4
<1>4. ASSUME NEW d \in Deliveries,
             FindInvoice(d) \/ MarkInvoice(d) \/ WriteSubscription(d)
      PROVE  Goal
  <2>1. PICK step \in Applying : Goto(d, step)
    BY <1>4 DEF FindInvoice, MarkInvoice, WriteSubscription, AfterInvoice, Applying
  <2>2. delivery[d].step \in Applying /\ ~At(d, "idle") /\ step \in Steps
    BY <1>4 DEF FindInvoice, MarkInvoice, WriteSubscription, Applying, Steps
  <2>3. ApplyingTo(x)' = ApplyingTo(x)
    BY <2>1, <2>2, Moved DEF ApplyingTo
  <2> QED
    BY <1>4, <2>3, SameApplying DEF FindInvoice, MarkInvoice, WriteSubscription
<1>5. ASSUME NEW d \in Deliveries, Record(d)
      PROVE  Goal
  <2>1. ~At(d, "idle") /\ Goto(d, "reply") /\ "reply" \in Steps
    BY <1>5 DEF Record, Steps
  <2>2. CASE x = Event(d)
    BY <1>5, <2>2 DEF Record, Bound
  <2>3. CASE x # Event(d)
    <3>1. ApplyingTo(x)' = ApplyingTo(x)
      BY <2>1, <2>3, Moved DEF ApplyingTo, Applying
    <3> QED  BY <1>5, <3>1, SameApplying DEF Record
  <2> QED  BY <2>2, <2>3
<1>6. ASSUME NEW d \in Deliveries, Skip(d)
      PROVE  Goal
  <2>1. ~At(d, "idle") /\ Goto(d, "reply") /\ "reply" \in Steps
    BY <1>6 DEF Skip, Steps
  <2>2. ApplyingTo(x)' = ApplyingTo(x)
    BY <1>6, <2>1, Moved DEF ApplyingTo, Applying, Skip
  <2> QED  BY <1>6, <2>2, SameApplying DEF Skip
<1>7. ASSUME NEW d \in Deliveries, Reply(d)
      PROVE  Goal
  <2>1. ApplyingTo(x)' = ApplyingTo(x)
    BY <1>7 DEF Reply, ApplyingTo, Applying, Idle, TypeOK
  <2> QED  BY <1>7, <2>1, SameApplying DEF Reply
<1>8. ASSUME NEW d \in Deliveries, Fail(d)
      PROVE  Goal
  <2> DEFINE now == ApplyingTo(x)
             next == ApplyingTo(x)'
  <2>1. next = now \ {d}
    BY <1>8 DEF Fail, ApplyingTo, Applying, Idle, TypeOK
  <2>2. Cardinality(now) <= Cardinality(next) + 1 /\ Cardinality(next) \in Nat
        /\ Cardinality(now) \in Nat /\ Cardinality(Deliveries) \in Nat
    <3>1. IsFiniteSet(now) /\ Cardinality(now) \in Nat /\ Cardinality(Deliveries) \in Nat
      BY ApplyingIsFinite
    <3>2. IsFiniteSet(next) /\ Cardinality(next) \in Nat
      BY <2>1, <3>1, FS_RemoveElement, FS_CardinalityType
    <3>3. Cardinality(next) = IF d \in now THEN Cardinality(now) - 1 ELSE Cardinality(now)
      BY <2>1, <3>1, FS_RemoveElement
    <3> HIDE DEF now, next
    <3> QED  BY <3>1, <3>2, <3>3
  <2>3. applications' = applications /\ faults' = faults + 1 /\ recorded' = recorded
    BY <1>8 DEF Fail
  <2>4. /\ applications[x] <= faults + Cardinality(Deliveries)
        /\ x \notin recorded => applications[x] <= faults + Cardinality(now)
    BY DEF Bound
  <2> HIDE DEF now, next
  <2>5. /\ applications[x] <= faults + 1 + Cardinality(Deliveries)
        /\ x \notin recorded => applications[x] <= faults + 1 + Cardinality(next)
    BY <2>2, <2>4
  <2> QED  BY <2>3, <2>5 DEF next
<1>9. CASE Member
  <2>1. UNCHANGED <<delivery, applications, faults, recorded>>
    BY <1>9
    DEF Member, CreateSubscription, ChangePlan, CancelSubscription, ReactivateSubscription,
        ChangeTo, WriteInvoice, LookUpInvoice
  <2> QED  BY <2>1, SameApplying DEF ApplyingTo
<1> QED
  BY <1>1, <1>2, <1>3, <1>4, <1>5, <1>6, <1>7, <1>8, <1>9 DEF Next, Handle

\* However many copies of an event arrive, it is applied at most once for
\* every delivery that failed and once for each that can run at a time.
THEOREM DuplicatesBounded == Spec => []DuplicatesAreBounded
<1>1. Init => Bound
  <2> SUFFICES ASSUME Init, NEW e \in Events
      PROVE  /\ applications[e] <= faults + Cardinality(Deliveries)
             /\ applications[e] <= faults + Cardinality(ApplyingTo(e))
    BY DEF Bound
  <2>1. applications[e] = 0 /\ faults = 0
    BY DEF Init
  <2> QED  BY <2>1, ApplyingIsFinite
<1>2. Bound => DuplicatesAreBounded
  BY DEF Bound, DuplicatesAreBounded
<1> QED  BY <1>1, <1>2, InvAlways, BoundKeeps, PTL DEF Spec
-----------------------------------------------------------------------------
(* EventsTakeEffect, but for the turns that FairSpec grants.                 *)

\* How many steps the handler has left, at most.
DeliveryLeft(d) ==
  IF At(d, "lookup") THEN 6
  ELSE IF At(d, "findInvoice") THEN 5
  ELSE IF At(d, "markInvoice") THEN 4
  ELSE IF At(d, "subscription") THEN 3
  ELSE IF At(d, "record") THEN 2
  ELSE IF At(d, "reply") THEN 1 ELSE 0

\* A delivery under way gets nearer to its end with each step of its handler,
\* and stays where it is in the steps of others.  It ends with its event
\* accepted and all its writes made, or it has failed.
DeliveryNearer(d) ==
  ~At(d, "idle") =>
    \/ /\ ~At(d, "idle")' /\ Event(d)' = Event(d)
       /\ Handle(d) => DeliveryLeft(d)' < DeliveryLeft(d)
       /\ ~Handle(d) => DeliveryLeft(d)' = DeliveryLeft(d)
    \/ /\ At(d, "idle")' /\ Event(d) \in acked' /\ Applied(Event(d))
    \/ /\ At(d, "idle")' /\ faults' = faults + 1

\* The write of an event is the state Stripe reported, at the time it is made.
WriteTakesEffect(e) ==
  /\ "subscription" \in done'[e] /\ "subscription" \notin done[e]
     /\ e \in Revoking => Refused'
  /\ "invoice" \in done'[e] /\ "invoice" \notin done[e]
     /\ e.kind = "paid" => invoice'[e.invoice] = "PAID"

EventsProgress ==
  [][/\ \A d \in Deliveries : DeliveryNearer(d)
     /\ \A e \in Events : WriteTakesEffect(e)]_vars

\* A step of the handler brings it nearer to its end, or ends it.
LEMMA HandlerMoves ==
  ASSUME Inv, NEW d \in Deliveries, Handle(d)
  PROVE  /\ ~At(d, "idle")
         /\ \/ /\ delivery'[d].step \in Steps
               /\ delivery'[d].event = delivery[d].event
               /\ DeliveryLeft(d)' < DeliveryLeft(d)
            \/ Reply(d)
         /\ \A other \in Deliveries : other # d => delivery'[other] = delivery[other]
<1> DEFINE e == delivery[d].event
<1>0. TypeOK /\ OnCourse(d)
  BY DEF Inv
<1>1. ASSUME NEW step \in Steps, ~At(d, "idle"), Goto(d, step),
             LET left(s) == IF s = "lookup" THEN 6
                            ELSE IF s = "findInvoice" THEN 5
                            ELSE IF s = "markInvoice" THEN 4
                            ELSE IF s = "subscription" THEN 3
                            ELSE IF s = "record" THEN 2
                            ELSE IF s = "reply" THEN 1 ELSE 0
             IN  left(step) < left(delivery[d].step)
      PROVE  /\ delivery'[d].step \in Steps /\ delivery'[d].event = delivery[d].event
             /\ DeliveryLeft(d)' < DeliveryLeft(d)
             /\ \A other \in Deliveries : other # d => delivery'[other] = delivery[other]
  <2>1. /\ delivery'[d].step = step /\ delivery'[d].event = delivery[d].event
        /\ \A other \in Deliveries : other # d => delivery'[other] = delivery[other]
    BY <1>0, <1>1, Moved
  <2> QED  BY <1>1, <2>1 DEF DeliveryLeft
<1>2. CASE Skip(d)
  BY <1>1, <1>2 DEF Skip, Steps
<1>3. CASE Begin(d)
  <2>1. At(d, "lookup") /\ Goto(d, FirstStep(e.kind)) /\ e \in Events
    BY <1>0, <1>3 DEF Begin, TypeOK, Delivering, Idle
  <2>2. PICK step : step = FirstStep(e.kind)
    OBVIOUS
  <2>3. step \in {"findInvoice", "record", "subscription"}
    BY <2>1, <2>2, BillingAssumption DEF FirstStep
  <2> QED  BY <1>1, <2>1, <2>2, <2>3 DEF Steps, Applying
<1>4. CASE FindInvoice(d)
  <2>1. PICK step : /\ At(d, "findInvoice") /\ Goto(d, step)
                    /\ step \in {"markInvoice", "subscription", "record"}
    BY <1>4 DEF FindInvoice, AfterInvoice
  <2> QED  BY <1>1, <2>1 DEF Steps, Applying
<1>5. CASE MarkInvoice(d)
  <2>1. PICK step : /\ At(d, "markInvoice") /\ Goto(d, step)
                    /\ step \in {"subscription", "record"}
    BY <1>5 DEF MarkInvoice, AfterInvoice
  <2> QED  BY <1>1, <2>1 DEF Steps, Applying
<1>6. CASE WriteSubscription(d)
  BY <1>1, <1>6 DEF WriteSubscription, Steps, Applying
<1>7. CASE Record(d)
  BY <1>1, <1>7 DEF Record, Steps
<1>8. CASE Reply(d)
  BY <1>0, <1>8 DEF Reply, TypeOK
<1> QED  BY <1>2, <1>3, <1>4, <1>5, <1>6, <1>7, <1>8 DEF Handle

\* The other steps leave a delivery under way alone, or count its failure.
LEMMA OthersMoveNothing ==
  ASSUME Inv, [Next]_vars, NEW d \in Deliveries, ~At(d, "idle"), ~Handle(d)
  PROVE  \/ delivery'[d] = delivery[d]
         \/ At(d, "idle")' /\ faults' = faults + 1
<1>0. TypeOK
  BY DEF Inv
<1>1. CASE UNCHANGED vars
  BY <1>1 DEF vars
<1>2. CASE Member
  BY <1>2
  DEF Member, CreateSubscription, ChangePlan, CancelSubscription,
      ReactivateSubscription, ChangeTo, LookUpInvoice, WriteInvoice
<1>3. ASSUME NEW q \in Deliveries, NEW e \in Events, Send(e, q)
      PROVE  delivery'[d] = delivery[d]
  BY <1>0, <1>3 DEF Send, TypeOK
<1>4. ASSUME NEW q \in Deliveries, Handle(q)
      PROVE  delivery'[d] = delivery[d]
  BY <1>4, HandlerMoves
<1>5. ASSUME NEW q \in Deliveries, Fail(q)
      PROVE  \/ delivery'[d] = delivery[d]
             \/ At(d, "idle")' /\ faults' = faults + 1
  BY <1>0, <1>5 DEF Fail, TypeOK, Idle
<1> QED  BY <1>1, <1>2, <1>3, <1>4, <1>5 DEF Next

LEMMA EachDeliveryNearer ==
  ASSUME Inv, [Next]_vars, NEW d \in Deliveries PROVE DeliveryNearer(d)
<1> SUFFICES ASSUME ~At(d, "idle") PROVE DeliveryNearer(d)
  BY DEF DeliveryNearer
<1>1. CASE Handle(d) /\ ~Reply(d)
  <2>1. /\ delivery'[d].step \in Steps /\ delivery'[d].event = delivery[d].event
        /\ DeliveryLeft(d)' < DeliveryLeft(d)
    BY <1>1, HandlerMoves
  <2>2. ~At(d, "idle")'
    BY <2>1 DEF Steps, Applying
  <2> QED  BY <1>1, <2>1, <2>2 DEF DeliveryNearer
<1>2. CASE Reply(d)
  <2>1. At(d, "idle")' /\ Event(d) \in acked'
    BY <1>2 DEF Reply, Inv, TypeOK, Idle
  <2>2. Applied(Event(d))
    BY <1>2 DEF Reply, Inv, OnCourse, RecordedWereApplied
  <2> QED  BY <2>1, <2>2 DEF DeliveryNearer
<1>3. CASE ~Handle(d)
  <2>1. CASE delivery'[d] = delivery[d]
    BY <1>3, <2>1 DEF DeliveryNearer, DeliveryLeft
  <2>2. CASE At(d, "idle")' /\ faults' = faults + 1
    BY <2>2 DEF DeliveryNearer
  <2> QED  BY <1>3, <2>1, <2>2, OthersMoveNothing
<1> QED  BY <1>1, <1>2, <1>3

LEMMA EachWriteTakesEffect ==
  ASSUME Inv, [Next]_vars, NEW e \in Events PROVE WriteTakesEffect(e)
<1>0. TypeOK
  BY DEF Inv
<1>1. CASE UNCHANGED done
  BY <1>1 DEF WriteTakesEffect
<1>2. ASSUME NEW d \in Deliveries, MarkInvoice(d)
      PROVE  WriteTakesEffect(e)
  <2>1. /\ delivery[d].event \in Events
        /\ delivery[d].event.kind \in InvoiceKinds
    BY <1>0, <1>2 DEF MarkInvoice, TypeOK, Delivering, Idle, Inv, OnCourse
  <2>2. CASE delivery[d].event # e
    BY <1>0, <1>2, <2>2 DEF MarkInvoice, TypeOK, WriteTakesEffect
  <2>3. CASE delivery[d].event = e
    <3>1. done'[e] = done[e] \union {"invoice"}
      BY <1>0, <1>2, <2>3 DEF MarkInvoice, TypeOK
    <3>2. e.kind = "paid" => invoice'[e.invoice] = "PAID"
      BY <1>0, <1>2, <2>1, <2>3, BillingAssumption DEF MarkInvoice, TypeOK
    <3> QED  BY <3>1, <3>2 DEF WriteTakesEffect
  <2> QED  BY <2>2, <2>3
<1>3. ASSUME NEW d \in Deliveries, WriteSubscription(d)
      PROVE  WriteTakesEffect(e)
  <2>1. CASE delivery[d].event # e
    BY <1>0, <1>3, <2>1 DEF WriteSubscription, TypeOK, WriteTakesEffect
  <2>2. CASE delivery[d].event = e
    <3>1. done'[e] = done[e] \union {"subscription"}
      BY <1>0, <1>3, <2>2 DEF WriteSubscription, TypeOK
    <3>2. subscription' = StatusOf(e)
      BY <1>3, <2>2 DEF WriteSubscription
    <3>3. e \in Revoking => Refused'
      BY <3>2 DEF Revoking, Refused, Grants
    <3> QED  BY <3>1, <3>3 DEF WriteTakesEffect
  <2> QED  BY <2>1, <2>2
<1>4. UNCHANGED done \/ \E d \in Deliveries : MarkInvoice(d) \/ WriteSubscription(d)
  <2>1. CASE UNCHANGED vars
    BY <2>1 DEF vars
  <2>2. CASE Member
    BY <2>2
    DEF Member, CreateSubscription, ChangePlan, CancelSubscription,
        ReactivateSubscription, ChangeTo, LookUpInvoice, WriteInvoice
  <2>3. ASSUME NEW d \in Deliveries, Handle(d) \/ Fail(d) \/ \E x \in Events : Send(x, d)
        PROVE  UNCHANGED done \/ MarkInvoice(d) \/ WriteSubscription(d)
    BY <2>3 DEF Handle, Skip, Begin, FindInvoice, Record, Reply, Fail, Send
  <2> QED  BY <2>1, <2>2, <2>3 DEF Next
<1> QED  BY <1>1, <1>2, <1>3, <1>4

\* The handler works off what Stripe sends.  A delivery gets nearer to its end
\* with each of its steps and is not held up by any other delivery, creation
\* or member; it ends in an acceptance only when its event made all its
\* writes, and in a failure otherwise, after which Stripe sends it again; and
\* each of those writes is, when it is made, what the event reports: access is
\* refused, the invoice is paid.  With the turns and the resending of FairSpec
\* this is why EventsTakeEffect holds.
THEOREM EventsAreWorkedOff ==
  Spec => /\ [](\A d \in Deliveries : DeliveryLeft(d) \in Nat)
          /\ []AckedWasApplied
          /\ EventsProgress
<1>1. Inv => \A d \in Deliveries : DeliveryLeft(d) \in Nat
  BY DEF DeliveryLeft
<1>2. Inv /\ [Next]_vars => [/\ \A d \in Deliveries : DeliveryNearer(d)
                             /\ \A e \in Events : WriteTakesEffect(e)]_vars
  BY EachDeliveryNearer, EachWriteTakesEffect
<1> QED
  BY <1>1, <1>2, InvAlways, AcceptedEventsWereApplied, PTL DEF Spec, EventsProgress
=============================================================================
