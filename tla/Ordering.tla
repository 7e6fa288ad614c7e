------------------------------- MODULE Ordering -------------------------------
(***************************************************************************)
(* The life of an order in ordering/: the OrderingFacade, the Order it     *)
(* changes, and the inventory, payment and fulfillment services that an    *)
(* order calls.  The services are interfaces: any of their calls may be    *)
(* refused, or throw before or after it had its effect, and the facade     *)
(* turns every exception into a failure after the order object - the one   *)
(* the repository holds - was changed.  Money may be taken long after a    *)
(* payment was asked for.  Fulfillment reports back by events, late,       *)
(* repeated or out of order.                                               *)
(* Parties take roles for the order or for one of its lines only.          *)
(***************************************************************************)
EXTENDS Naturals, Sequences, FiniteSets, SequencesExt

CONSTANTS
  Orders,    \* OrderIds
  LineIds,   \* OrderLineIds
  Quantities, \* what may be ordered of a product
  Parties,   \* PartySnapshots
  OrderPartyData, \* lists of PartyInOrder that clients send for an order,
  LinePartyData,  \* and for a line: a party with its roles each
  MaxPayments \* bound on the payments asked for per order

RoleInOrder ==
  {"ORDERER", "PAYER", "RECEIVER", "EXECUTOR", "DELIVERY_CONTACT", "PICKUP_AUTHORIZED"}

\* The constructor refuses a party without a role.
PartyInOrder == [party : Parties, roles : (SUBSET RoleInOrder) \ {{}}]

ASSUME OrderingAssumption ==
  /\ \A ps \in OrderPartyData \cup LinePartyData : ps \in Seq(PartyInOrder)
  /\ MaxPayments \in Nat

VARIABLES
  status,       \* OrderStatus, or "NEW" before the order is created
  lines,        \* the lines of an order, a set of records with their id
  parties,      \* OrderParties, fixed when the order is created
  modified,     \* lines whose quantity was changed while the order was CONFIRMED
  allocated,    \* the lines the inventory allocated, each with the quantity asked for
  payments,     \* PaymentRequests, with what came of them
  started,      \* orders whose fulfillment the service started
  told,         \* orders whose fulfillment it was told to cancel
  stopped,      \* those of them for which it did not throw
  reports,      \* FulfillmentUpdated events it has sent, which may arrive any time
  asked         \* what the clients asked for: the parties of each line

vars == <<status, lines, parties, asked, modified, allocated, payments, started, told, stopped, reports>>

FulfillmentStatuses == {"IN_PROGRESS", "PARTIALLY_COMPLETED", "COMPLETED"}
Statuses == {"NEW", "DRAFT", "CONFIRMED", "PROCESSING", "FULFILLED", "CANCELLED"}
\* A price is calculated for a quantity, or ARBITRARY.
NewLine(id, q, ps) == [id |-> id, quantity |-> q, pricing |-> "NOT_PRICED", parties |-> ps]

Init ==
  /\ status = [o \in Orders |-> "NEW"]
  /\ lines = [o \in Orders |-> {}]
  /\ parties = [o \in Orders |-> <<>>]
  /\ asked = [o \in Orders |-> [id \in LineIds |-> <<>>]]
  /\ modified = [o \in Orders |-> {}]
  /\ allocated = [o \in Orders |-> {}]
  /\ payments = [o \in Orders |-> <<>>]
  /\ started = {}
  /\ told = {}
  /\ stopped = {}
  /\ reports = [o \in Orders |-> {}]

fulfillment == <<started, told, stopped, reports>>
services == <<allocated, payments, fulfillment>>
contract == <<parties, asked, modified>>

LinesOf(o) == {l.id : l \in lines[o]}

-----------------------------------------------------------------------------
(* order-status.ts *)

CanAddLines_WhenModifiable(s) == s \in {"DRAFT", "CONFIRMED"}
CanAddLines(s) == s = "DRAFT"
CanModifyLines(s) == s \in {"DRAFT", "CONFIRMED"}
CanCancel(s) == s \notin {"NEW", "CANCELLED"}

-----------------------------------------------------------------------------
(* order-parties.ts and the two policies.  The order in which parties are     *)
(* listed means nothing; that one is listed twice does, to the policies.     *)

RolesOf(people) == UNION {p.roles : p \in people}
RolesIn(ps) == RolesOf(ToSet(ps))
WithRole(people, role) == {p \in people : role \in p.roles}
CountByRole(ps, role) == Cardinality({i \in DOMAIN ps : role \in ps[i].roles})

OrderLevelRolePolicy(ps) ==
  /\ \A role \in {"ORDERER", "EXECUTOR"} : CountByRole(ps, role) = 1
  /\ CountByRole(ps, "PAYER") <= 1
  /\ RolesIn(ps) \cap {"DELIVERY_CONTACT", "PICKUP_AUTHORIZED"} = {}

OrderLineLevelRolePolicy(ps) ==
  RolesIn(ps) \cap {"ORDERER", "EXECUTOR", "PAYER"} = {}

\* A role that the line gives to anybody is taken from all who have it for the
\* order; a party that is left without a role is left out.
Merge(orderLevel, lineLevel) ==
  LET remaining == {[p EXCEPT !.roles = @ \ RolesOf(lineLevel)] : p \in orderLevel}
  IN {p \in remaining : p.roles # {}} \cup lineLevel

EffectivePartiesFor(o, line) ==
  IF line.parties = <<>> THEN ToSet(parties[o]) ELSE Merge(ToSet(parties[o]), ToSet(line.parties))

-----------------------------------------------------------------------------
(* Lines *)

\* OrderBuilder and LineBuilder: every line gets an id of its own.
Built(lps) == {NewLine(id, lps[id].quantity, lps[id].parties) : id \in DOMAIN lps}

\* handleCreateOrder: at least one line, not priced yet; the parties are checked
\* line by line and for the order, and a list refused means no order.
CreateOrder(o, ps, lps) ==
  /\ status[o] = "NEW"
  /\ DOMAIN lps # {}
  /\ OrderLevelRolePolicy(ps)
  /\ \A id \in DOMAIN lps : OrderLineLevelRolePolicy(lps[id].parties)
  /\ status' = [status EXCEPT ![o] = "DRAFT"]
  /\ lines' = [lines EXCEPT ![o] = Built(lps)]
  /\ parties' = [parties EXCEPT ![o] = ps]
  /\ asked' = [asked EXCEPT ![o] =
       [id \in LineIds |-> IF id \in DOMAIN lps THEN lps[id].parties ELSE <<>>]]
  /\ UNCHANGED <<modified, services>>

\* handleAddOrderLine: a line added later has no parties of its own.
AddLine(o, id, q) ==
  /\ CanAddLines(status[o])
  /\ id \notin LinesOf(o)
  /\ lines' = [lines EXCEPT ![o] = @ \cup {NewLine(id, q, <<>>)}]
  /\ UNCHANGED <<status, contract, services>>

\* handleRemoveOrderLine: the line is gone before the check for an empty order
\* throws.
RemoveLine(o, id) ==
  /\ CanModifyLines(status[o])
  /\ id \in LinesOf(o)
  /\ lines' = [lines EXCEPT ![o] = {l \in @ : l.id # id}]
  /\ asked' = [asked EXCEPT ![o][id] = <<>>]
  /\ UNCHANGED <<status, parties, modified, services>>

\* handleChangeOrderLineQuantity: a new line object takes the place of the old one,
\* with its parties and without its price.  Neither the inventory nor the payment
\* service learns of it, also when the order is confirmed.
ModifiesLine(o, id) ==
  /\ CanModifyLines(status[o])
  /\ id \in LinesOf(o)
  /\ modified' = IF status[o] = "CONFIRMED" THEN [modified EXCEPT ![o] = @ \cup {id}] ELSE modified
  /\ UNCHANGED <<status, parties, asked, services>>

ChangeLineQuantity_KeepsPrice(o, id, q) ==
  /\ ModifiesLine(o, id)
  /\ lines' = [lines EXCEPT ![o] = {IF l.id = id THEN [l EXCEPT !.quantity = q] ELSE l : l \in @}]
ChangeLineQuantity_NoParties(o, id, q) ==
  /\ ModifiesLine(o, id)
  /\ lines' = [lines EXCEPT ![o] = {IF l.id = id THEN NewLine(id, q, <<>>) ELSE l : l \in @}]
ChangeLineQuantity(o, id, q) ==
  /\ ModifiesLine(o, id)
  /\ lines' = [lines EXCEPT ![o] =
       {IF l.id = id THEN NewLine(id, q, l.parties) ELSE l : l \in @}]

\* handlePriceOrder: the pricing service may throw at any line, and may answer that
\* a line has no price yet; the lines before it keep what they got.
PriceLines(o) ==
  /\ status[o] # "NEW"
  /\ \E ids \in SUBSET LinesOf(o) : \E priced \in SUBSET ids :
       lines' = [lines EXCEPT ![o] =
         {IF l.id \in ids
          THEN [l EXCEPT !.pricing = IF l.id \in priced THEN l.quantity ELSE "NOT_PRICED"]
          ELSE l : l \in @}]
  /\ UNCHANGED <<status, contract, services>>

\* handleSetArbitraryLinePrice, in any status
SetArbitraryPrice(o, id) ==
  /\ id \in LinesOf(o)
  /\ lines' = [lines EXCEPT ![o] =
       {IF l.id = id THEN [l EXCEPT !.pricing = "ARBITRARY"] ELSE l : l \in @}]
  /\ UNCHANGED <<status, contract, services>>

-----------------------------------------------------------------------------
(* Confirming and cancelling *)

Allocation(l) == [id |-> l.id, quantity |-> l.quantity]

\* totalPrice() ?? 0, by what it is made of: an order with a line that has no price is
\* charged nothing.
Item(l) == [id |-> l.id, quantity |-> l.quantity, pricing |-> l.pricing]
Total(o) ==
  IF \A l \in lines[o] : l.pricing # "NOT_PRICED" THEN {Item(l) : l \in lines[o]} ELSE {}

\* handleConfirmOrder, the inventory refuses a line, or throws: those allocated before
\* stay so, perhaps with the one that threw.
ConfirmLacksStock(o) ==
  /\ status[o] = "DRAFT"
  /\ LinesOf(o) # {}
  /\ \E some \in SUBSET lines[o] :
       allocated' = [allocated EXCEPT ![o] = @ \cup {Allocation(l) : l \in some}]
  /\ UNCHANGED <<status, lines, contract, payments, fulfillment>>

\* Every line is allocated, also those that were before, and the payment is asked for.
\* LOST: authorizeAndCapture throws.
PaymentAnswers == {"CAPTURED", "FAILED", "PENDING", "LOST"}

AsksForPayment(o, answer) ==
  /\ status[o] = "DRAFT"
  /\ Len(payments[o]) < MaxPayments
  /\ allocated' = [allocated EXCEPT ![o] = @ \cup {Allocation(l) : l \in lines[o]}]
  /\ payments' = [payments EXCEPT ![o] = Append(@,
       [amount |-> Total(o), answer |-> answer, taken |-> answer = "CAPTURED"])]

\* The payment is refused, not captured yet, or nobody knows: the order stays a draft,
\* and may be confirmed again.
ConfirmUnpaid(o) ==
  /\ \E answer \in {"FAILED", "PENDING", "LOST"} : AsksForPayment(o, answer)
  /\ UNCHANGED <<status, lines, contract, fulfillment>>

\* The money of a payment that was pending, or whose answer got lost, is taken after all.
TakeMoney(o, i) ==
  /\ i \in DOMAIN payments[o]
  /\ payments[o][i].answer \in {"PENDING", "LOST"}
  /\ payments' = [payments EXCEPT ![o][i].taken = TRUE]
  /\ UNCHANGED <<status, lines, contract, allocated, fulfillment>>

\* The payment is captured and the fulfillment service throws, having started or not:
\* the order is confirmed, the confirmation is a failure.
ConfirmNotStarted_StatusLast(o) ==
  /\ AsksForPayment(o, "CAPTURED")
  /\ started' \in {started, started \cup {o}}
  /\ UNCHANGED <<status, lines, contract, told, stopped, reports>>
ConfirmNotStarted(o) ==
  /\ AsksForPayment(o, "CAPTURED")
  /\ status' = [status EXCEPT ![o] = "CONFIRMED"]
  /\ started' \in {started, started \cup {o}}
  /\ UNCHANGED <<lines, contract, told, stopped, reports>>

Confirm(o) ==
  /\ AsksForPayment(o, "CAPTURED")
  /\ status' = [status EXCEPT ![o] = "CONFIRMED"]
  /\ started' = started \cup {o}
  /\ UNCHANGED <<lines, contract, told, stopped, reports>>

\* handleCancelOrder: a draft has nothing to stop; the fulfillment of any other
\* order is cancelled after the status is set.  The service may throw then.
Cancel_OnlyProcessing(o) ==
  /\ CanCancel(status[o])
  /\ status' = [status EXCEPT ![o] = "CANCELLED"]
  /\ told' = IF status[o] = "PROCESSING" THEN told \cup {o} ELSE told
  /\ stopped' \in {stopped, stopped \cup (told' \cap {o})}
  /\ UNCHANGED <<lines, contract, allocated, payments, started, reports>>
Cancel(o) ==
  /\ CanCancel(status[o])
  /\ status' = [status EXCEPT ![o] = "CANCELLED"]
  /\ told' = IF status[o] = "DRAFT" THEN told ELSE told \cup {o}
  /\ stopped' \in {stopped, stopped \cup (told' \cap {o})}
  /\ UNCHANGED <<lines, contract, allocated, payments, started, reports>>

-----------------------------------------------------------------------------
(* Fulfillment *)

\* The service reports on what it started, until it learns of a cancellation.
Report(o, s) ==
  /\ o \in started \ stopped
  /\ reports' = [reports EXCEPT ![o] = @ \cup {s}]
  /\ UNCHANGED <<status, lines, contract, allocated, payments, started, told, stopped>>

\* handleFulfillmentUpdated: reports come late, again, and in any order.
FulfillmentUpdated(o, s) ==
  /\ s \in reports[o]
  /\ status[o] \in {"CONFIRMED", "PROCESSING"}
  /\ status' = [status EXCEPT ![o] = IF s = "COMPLETED" THEN "FULFILLED" ELSE "PROCESSING"]
  /\ UNCHANGED <<lines, contract, services>>

LineStep(o) ==
  \/ \E ids \in SUBSET LineIds, ps \in OrderPartyData :
       \E lps \in [ids -> [quantity : Quantities, parties : LinePartyData]] : CreateOrder(o, ps, lps)
  \/ \E id \in LineIds, q \in Quantities : AddLine(o, id, q)
  \/ \E id \in LineIds : RemoveLine(o, id)
  \/ \E id \in LineIds, q \in Quantities : ChangeLineQuantity(o, id, q)
  \/ PriceLines(o)
  \/ \E id \in LineIds : SetArbitraryPrice(o, id)

ConfirmStep(o) ==
  \/ ConfirmLacksStock(o)
  \/ ConfirmUnpaid(o)
  \/ ConfirmNotStarted(o)
  \/ Confirm(o)

PaymentStep(o) == \E i \in DOMAIN payments[o] : TakeMoney(o, i)

FulfillmentStep(o) ==
  \/ \E s \in FulfillmentStatuses : Report(o, s)
  \/ \E s \in FulfillmentStatuses : FulfillmentUpdated(o, s)

Next ==
  \E o \in Orders :
    LineStep(o) \/ ConfirmStep(o) \/ PaymentStep(o) \/ Cancel(o) \/ FulfillmentStep(o)

Spec == Init /\ [][Next]_vars

-----------------------------------------------------------------------------
(* Properties *)

\* No payment is asked for after one that the order was told is captured, however
\* often its confirmation fails at the inventory, at the payment or at the fulfillment,
\* and is repeated (order.ts confirm sets CONFIRMED before it calls the service that may
\* throw).  So a customer who is charged twice for an order was charged before by a
\* payment that was answered PENDING, or not at all.  That this happens is not excluded:
\* the order forgets such a payment, and its next request names only the order.
KnownPaymentIsTheLast ==
  \A o \in Orders : \A i, j \in DOMAIN payments[o] :
    i < j => /\ payments[o][i].answer # "CAPTURED"
             /\ payments[o][i].taken => payments[o][i].answer \in {"PENDING", "LOST"}

\* What fulfillment was started for was paid, and what was paid is what was allocated:
\* line by line in the same quantity, at a price that was calculated for this quantity
\* or given by hand.  The lines of the order are among these, in that quantity unless it
\* was changed on the confirmed order (order.ts changeLineQuantity asks for no stock and
\* no money, and nobody for the approval of order-status.ts:23), and if the order was
\* charged nothing because a line had no price, they are at least allocated.
Covered(o) ==
  LET payment == payments[o][Len(payments[o])]
  IN /\ payments[o] # <<>>
     /\ payment.answer = "CAPTURED"
     /\ \A item \in payment.amount :
          Allocation(item) \in allocated[o] /\ item.pricing \in {item.quantity, "ARBITRARY"}
     /\ \A l \in lines[o] :
          /\ l.id \notin modified[o] => Allocation(l) \in allocated[o]
          /\ l.id \notin modified[o] /\ payment.amount # {} =>
               Allocation(l) \in {Allocation(item) : item \in payment.amount}
          /\ \E q \in Quantities : [id |-> l.id, quantity |-> q] \in allocated[o]
StartedIsCovered == \A o \in started : Covered(o)

\* An order and its fulfillment agree on cancellations.  When fulfillment was started
\* for an order that is now cancelled, the service was told to cancel it, in whatever
\* status the order was by then and even if the confirmation that started it had been
\* reported as a failure (order.ts cancel; ordering-facade.spec.ts:265); and an order
\* that the service was told to cancel stays cancelled, whatever report arrives late
\* (order.ts updateFulfillmentStatus).  What the service makes of it is not the
\* order's: it may throw, and a second cancellation is refused.
CancellationIsAgreed ==
  /\ \A o \in started : status[o] = "CANCELLED" => o \in told
  /\ \A o \in told : status[o] = "CANCELLED"

\* Who orders, executes and pays is agreed for the order as a whole, whatever its
\* lines say; every other role is taken for a line by those the client named for it,
\* and by those of the order where he named nobody; no role of either gets lost.
\* This holds of a line at all times, also after its object was exchanged
\* (order-parties.ts merge, order.ts getEffectivePartiesFor and changeLineQuantity).
PartiesReachTheirLines ==
  \A o \in Orders : \A l \in lines[o] :
    LET effective == EffectivePartiesFor(o, l)
        named == ToSet(asked[o][l.id])
        Holders(people, role) == {p.party : p \in WithRole(people, role)}
    IN /\ \A p \in effective : p.roles # {}
       /\ \A role \in RoleInOrder :
            Holders(effective, role) =
              IF role \notin {"ORDERER", "EXECUTOR", "PAYER"} /\ role \in RolesOf(named)
              THEN Holders(named, role)
              ELSE Holders(ToSet(parties[o]), role)
=============================================================================
