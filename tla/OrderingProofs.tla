---------------------------- MODULE OrderingProofs ----------------------------
(***************************************************************************)
(* What holds of every order, for any number of orders, lines, parties and *)
(* payments: what is known to be paid is not charged again, what is fulfilled *)
(* is covered and cancelled with the order, and roles reach the lines they *)
(* are meant for.                                                          *)
(***************************************************************************)
EXTENDS Ordering, TLAPS

-----------------------------------------------------------------------------
(* Types *)

Pricing == Quantities \cup {"NOT_PRICED", "ARBITRARY"}
Line == [id : LineIds, quantity : Quantities, pricing : Pricing, parties : Seq(PartyInOrder)]
AllocationOf == [id : LineIds, quantity : Quantities]
Items == [id : LineIds, quantity : Quantities, pricing : Pricing]
Payment == [amount : SUBSET Items, answer : PaymentAnswers, taken : BOOLEAN]

OrderTypes ==
  /\ status \in [Orders -> Statuses]
  /\ lines \in [Orders -> SUBSET Line]
  /\ parties \in [Orders -> Seq(PartyInOrder)]
  /\ asked \in [Orders -> [LineIds -> Seq(PartyInOrder)]]
  /\ modified \in [Orders -> SUBSET LineIds]
  /\ allocated \in [Orders -> SUBSET AllocationOf]
  /\ payments \in [Orders -> Seq(Payment)]
  /\ started \subseteq Orders
  /\ told \subseteq Orders

\* A line that is priced, or not any more, is the same line.
LEMMA RepricedIsLine ==
  ASSUME NEW l \in Line, NEW price \in Pricing
  PROVE  /\ [l EXCEPT !.pricing = price] \in Line
         /\ [l EXCEPT !.pricing = price].id = l.id
         /\ [l EXCEPT !.pricing = price].quantity = l.quantity
         /\ [l EXCEPT !.pricing = price].pricing = price
         /\ [l EXCEPT !.pricing = price].parties = l.parties
  BY DEF Line

LEMMA NewLineIsLine ==
  ASSUME NEW id \in LineIds, NEW q \in Quantities, NEW ps \in Seq(PartyInOrder)
  PROVE  /\ NewLine(id, q, ps) \in Line
         /\ NewLine(id, q, ps).id = id
         /\ NewLine(id, q, ps).quantity = q
         /\ NewLine(id, q, ps).pricing = "NOT_PRICED"
         /\ NewLine(id, q, ps).parties = ps
  BY DEF NewLine, Line, Pricing

\* The price fits the quantity, or was given by hand.
Fits(l) == l.pricing \in {l.quantity, "ARBITRARY", "NOT_PRICED"}

\* What a command on lines makes of the line m: one with its id and its parties, whose
\* price fits if it did, and whose change is known if the order is confirmed.
Kept(o, l, m) ==
  /\ l.id = m.id
  /\ l.parties = m.parties
  /\ Fits(m) => Fits(l)
  /\ l.quantity = m.quantity \/ status[o] = "DRAFT" \/ l.id \in modified'[o]

\* A command on lines changes those of its order only.  What it leaves there are
\* lines that were there, as long as the order is not created or extended; a line is
\* lost to its removal only.
LEMMA LinesOfStep ==
  ASSUME OrderTypes, NEW o \in Orders,
         \/ \E id \in LineIds : RemoveLine(o, id)
         \/ \E id \in LineIds, q \in Quantities : ChangeLineQuantity(o, id, q)
         \/ PriceLines(o)
         \/ \E id \in LineIds : SetArbitraryPrice(o, id)
  PROVE  /\ lines' \in [Orders -> SUBSET Line]
         /\ modified' \in [Orders -> SUBSET LineIds]
         /\ \A p \in Orders : p # o => lines'[p] = lines[p]
         /\ \A p \in Orders : modified[p] \subseteq modified'[p]
         /\ \A l \in lines'[o] : \E m \in lines[o] : Kept(o, l, m)
         /\ \/ \E id \in LineIds : RemoveLine(o, id)
            \/ \A m \in lines[o] : \E l \in lines'[o] : l.id = m.id
<1>0. lines[o] \in SUBSET Line
  BY DEF OrderTypes
<1>1. ASSUME NEW id \in LineIds, RemoveLine(o, id)
      PROVE  \E ls \in SUBSET Line :
               /\ lines' = [lines EXCEPT ![o] = ls]
               /\ \A l \in ls : \E m \in lines[o] : Kept(o, l, m)
  <2>1. lines' = [lines EXCEPT ![o] = {l \in lines[o] : l.id # id}]
    BY <1>1 DEF RemoveLine
  <2>2. {l \in lines[o] : l.id # id} \in SUBSET Line
    BY <1>0
  <2>3. \A l \in lines[o] : Kept(o, l, l)
    BY DEF Kept
  <2> QED BY <2>1, <2>2, <2>3
<1>2. ASSUME NEW id \in LineIds, NEW q \in Quantities, ChangeLineQuantity(o, id, q)
      PROVE  \E ls \in SUBSET Line :
               /\ lines' = [lines EXCEPT ![o] = ls]
               /\ \A l \in ls : \E m \in lines[o] : Kept(o, l, m)
               /\ \A m \in lines[o] : \E l \in ls : l.id = m.id
  <2> DEFINE changed(l) == IF l.id = id THEN NewLine(id, q, l.parties) ELSE l
  <2>1. lines' = [lines EXCEPT ![o] = {changed(l) : l \in lines[o]}]
    BY <1>2 DEF ChangeLineQuantity
  <2>2. status[o] = "DRAFT" \/ id \in modified'[o]
    BY <1>2 DEF ChangeLineQuantity, ModifiesLine, CanModifyLines, OrderTypes
  <2>3. ASSUME NEW l \in lines[o]
        PROVE  changed(l) \in Line /\ Kept(o, changed(l), l)
    <3>1. l \in Line /\ l.parties \in Seq(PartyInOrder)
      BY <1>0 DEF Line
    <3>2. CASE l.id = id
      BY <2>2, <3>1, <3>2, NewLineIsLine DEF Kept, Fits
    <3>3. CASE l.id # id
      BY <3>1, <3>3 DEF Kept
    <3> QED BY <3>2, <3>3
  <2> HIDE DEF changed
  <2> DEFINE ls == {changed(l) : l \in lines[o]}
  <2>5. ls \in SUBSET Line
    BY <2>3
  <2>6. \A l \in ls : \E m \in lines[o] : Kept(o, l, m)
    BY <2>3
  <2>7. \A m \in lines[o] : changed(m) \in ls /\ changed(m).id = m.id
    BY <2>3 DEF Kept
  <2>8. lines' = [lines EXCEPT ![o] = ls]
    BY <2>1
  <2> HIDE DEF ls
  <2> QED BY <2>5, <2>6, <2>7, <2>8, ZenonT(60)
<1>3. ASSUME PriceLines(o)
      PROVE  \E ls \in SUBSET Line :
               /\ lines' = [lines EXCEPT ![o] = ls]
               /\ \A l \in ls : \E m \in lines[o] : Kept(o, l, m)
               /\ \A m \in lines[o] : \E l \in ls : l.id = m.id
  <2> DEFINE repriced(l, ids, priced) ==
               IF l.id \in ids
               THEN [l EXCEPT !.pricing = IF l.id \in priced THEN l.quantity ELSE "NOT_PRICED"]
               ELSE l
  <2>1. PICK ids \in SUBSET LinesOf(o) : \E priced \in SUBSET ids :
          lines' = [lines EXCEPT ![o] = {repriced(l, ids, priced) : l \in lines[o]}]
    BY <1>3 DEF PriceLines
  <2>2. PICK priced \in SUBSET ids :
          lines' = [lines EXCEPT ![o] = {repriced(l, ids, priced) : l \in lines[o]}]
    BY <2>1
  <2> DEFINE changed(l) == repriced(l, ids, priced)
  <2>3. lines' = [lines EXCEPT ![o] = {changed(l) : l \in lines[o]}]
    BY <2>2
  <2>4. ASSUME NEW l \in lines[o]
        PROVE  changed(l) \in Line /\ Kept(o, changed(l), l)
    <3> DEFINE price == IF l.id \in priced THEN l.quantity ELSE "NOT_PRICED"
    <3>1. l \in Line /\ price \in Pricing
      BY <1>0 DEF Line, Pricing
    <3>2. CASE l.id \in ids
      <4>1. changed(l) = [l EXCEPT !.pricing = price]
        BY <3>2
      <4>2. price \in {l.quantity, "NOT_PRICED"}
        OBVIOUS
      <4> HIDE DEF price, changed
      <4> QED BY <3>1, <4>1, <4>2, RepricedIsLine DEF Kept, Fits
    <3>3. CASE l.id \notin ids
      BY <3>1, <3>3 DEF Kept
    <3> QED BY <3>2, <3>3
  <2> HIDE DEF changed
  <2> DEFINE ls == {changed(l) : l \in lines[o]}
  <2>5. ls \in SUBSET Line
    BY <2>4
  <2>6. \A l \in ls : \E m \in lines[o] : Kept(o, l, m)
    BY <2>4
  <2>7. \A m \in lines[o] : changed(m) \in ls /\ changed(m).id = m.id
    BY <2>4 DEF Kept
  <2>8. lines' = [lines EXCEPT ![o] = ls]
    BY <2>3
  <2> HIDE DEF ls
  <2> QED BY <2>5, <2>6, <2>7, <2>8, ZenonT(60)
<1>4. ASSUME NEW id \in LineIds, SetArbitraryPrice(o, id)
      PROVE  \E ls \in SUBSET Line :
               /\ lines' = [lines EXCEPT ![o] = ls]
               /\ \A l \in ls : \E m \in lines[o] : Kept(o, l, m)
               /\ \A m \in lines[o] : \E l \in ls : l.id = m.id
  <2> DEFINE changed(l) == IF l.id = id THEN [l EXCEPT !.pricing = "ARBITRARY"] ELSE l
  <2>1. lines' = [lines EXCEPT ![o] = {changed(l) : l \in lines[o]}]
    BY <1>4 DEF SetArbitraryPrice
  <2>2. ASSUME NEW l \in lines[o]
        PROVE  changed(l) \in Line /\ Kept(o, changed(l), l)
    <3>1. l \in Line /\ "ARBITRARY" \in Pricing
      BY <1>0 DEF Pricing
    <3>2. CASE l.id = id
      BY <3>1, <3>2, RepricedIsLine DEF Kept, Fits
    <3>3. CASE l.id # id
      BY <3>1, <3>3 DEF Kept
    <3> QED BY <3>2, <3>3
  <2> HIDE DEF changed
  <2> DEFINE ls == {changed(l) : l \in lines[o]}
  <2>5. ls \in SUBSET Line
    BY <2>2
  <2>6. \A l \in ls : \E m \in lines[o] : Kept(o, l, m)
    BY <2>2
  <2>7. \A m \in lines[o] : changed(m) \in ls /\ changed(m).id = m.id
    BY <2>2 DEF Kept
  <2>8. lines' = [lines EXCEPT ![o] = ls]
    BY <2>1
  <2> HIDE DEF ls
  <2> QED BY <2>5, <2>6, <2>7, <2>8, ZenonT(60)
<1>5. PICK ls \in SUBSET Line :
        /\ lines' = [lines EXCEPT ![o] = ls]
        /\ \A l \in ls : \E m \in lines[o] : Kept(o, l, m)
        /\ \/ \E id \in LineIds : RemoveLine(o, id)
           \/ \A m \in lines[o] : \E l \in ls : l.id = m.id
  BY <1>1, <1>2, <1>3, <1>4
<1>6. \/ modified' = modified
      \/ \E id \in LineIds : modified' = [modified EXCEPT ![o] = modified[o] \cup {id}]
  BY DEF RemoveLine, ChangeLineQuantity, ModifiesLine, PriceLines, SetArbitraryPrice, contract
<1>7. /\ modified' \in [Orders -> SUBSET LineIds]
      /\ \A p \in Orders : modified[p] \subseteq modified'[p]
  <2>1. modified \in [Orders -> SUBSET LineIds]
    BY DEF OrderTypes
  <2>2. CASE modified' = modified
    BY <2>1, <2>2
  <2>3. ASSUME NEW id \in LineIds, modified' = [modified EXCEPT ![o] = modified[o] \cup {id}]
        PROVE  /\ modified' \in [Orders -> SUBSET LineIds]
               /\ \A p \in Orders : modified[p] \subseteq modified'[p]
    BY <2>1, <2>3
  <2> QED BY <1>6, <2>2, <2>3
<1>8. lines' \in [Orders -> SUBSET Line] /\ lines'[o] = ls /\ \A p \in Orders : p # o => lines'[p] = lines[p]
  BY <1>5 DEF OrderTypes
<1> QED BY <1>5, <1>7, <1>8

\* A new order has lines with ids of their own, each with the parties asked for it and
\* no price.
LEMMA BuiltAreLines ==
  ASSUME NEW ids \in SUBSET LineIds,
         NEW lps \in [ids -> [quantity : Quantities, parties : LinePartyData]]
  PROVE  /\ Built(lps) \subseteq Line
         /\ \A l \in Built(lps) : l.id \in ids /\ l.parties = lps[l.id].parties /\ Fits(l)
         /\ \A id \in ids : lps[id].parties \in Seq(PartyInOrder)
<1>1. \A id \in ids : lps[id].quantity \in Quantities /\ lps[id].parties \in Seq(PartyInOrder)
  BY OrderingAssumption
<1>2. Built(lps) = {NewLine(id, lps[id].quantity, lps[id].parties) : id \in ids}
  BY DEF Built
<1> QED BY <1>1, <1>2, NewLineIsLine DEF Fits

\* Types hold in every reachable state (OrderTypes).
THEOREM OrderTypeCorrect == Spec => []OrderTypes
<1>1. Init => OrderTypes
  BY DEF Init, OrderTypes, Statuses
<1>2. OrderTypes /\ [Next]_vars => OrderTypes'
  <2> SUFFICES ASSUME OrderTypes, [Next]_vars PROVE OrderTypes'
    OBVIOUS
  <2>1. CASE UNCHANGED vars
    BY <2>1 DEF vars, OrderTypes
  <2>2. ASSUME NEW o \in Orders, NEW ids \in SUBSET LineIds, NEW ps \in OrderPartyData,
               NEW lps \in [ids -> [quantity : Quantities, parties : LinePartyData]],
               CreateOrder(o, ps, lps)
        PROVE  OrderTypes'
    <3>1. /\ Built(lps) \subseteq Line
          /\ \A id \in ids : lps[id].parties \in Seq(PartyInOrder)
      BY BuiltAreLines
    <3>2. /\ lines' = [lines EXCEPT ![o] = Built(lps)]
          /\ asked' = [asked EXCEPT ![o] = [id \in LineIds |-> IF id \in ids THEN lps[id].parties ELSE <<>>]]
          /\ parties' = [parties EXCEPT ![o] = ps]
          /\ status' = [status EXCEPT ![o] = "DRAFT"]
          /\ UNCHANGED <<modified, services>>
      BY <2>2 DEF CreateOrder
    <3> USE DEF OrderTypes
    <3>3. lines' \in [Orders -> SUBSET Line]
      BY <3>1, <3>2
    <3>4. asked' \in [Orders -> [LineIds -> Seq(PartyInOrder)]]
      <4>1. [id \in LineIds |-> IF id \in ids THEN lps[id].parties ELSE <<>>] \in [LineIds -> Seq(PartyInOrder)]
        BY <3>1
      <4> QED BY <3>2, <4>1
    <3>5. parties' \in [Orders -> Seq(PartyInOrder)]
      BY <3>2, OrderingAssumption
    <3>6. status' \in [Orders -> Statuses]
      BY <3>2 DEF Statuses
    <3> QED BY <3>2, <3>3, <3>4, <3>5, <3>6 DEF services, fulfillment
  <2>3. ASSUME NEW o \in Orders, NEW id \in LineIds, NEW q \in Quantities, AddLine(o, id, q)
        PROVE  OrderTypes'
    <3> USE DEF OrderTypes
    <3>1. NewLine(id, q, <<>>) \in Line
      <4>1. <<>> \in Seq(PartyInOrder)
        OBVIOUS
      <4> QED BY <4>1, NewLineIsLine
    <3>2. lines' = [lines EXCEPT ![o] = lines[o] \cup {NewLine(id, q, <<>>)}]
      BY <2>3 DEF AddLine
    <3>3. lines' \in [Orders -> SUBSET Line]
      BY <3>1, <3>2
    <3> QED BY <2>3, <3>3 DEF AddLine, contract, services, fulfillment
  <2>4. ASSUME NEW o \in Orders, NEW id \in LineIds, RemoveLine(o, id)
        PROVE  OrderTypes'
    <3>1. lines' \in [Orders -> SUBSET Line]
      BY <2>4, LinesOfStep
    <3> USE DEF OrderTypes
    <3>2. asked' = [asked EXCEPT ![o] = [asked[o] EXCEPT ![id] = <<>>]]
      BY <2>4 DEF RemoveLine
    <3>3. asked' \in [Orders -> [LineIds -> Seq(PartyInOrder)]]
      BY <3>2
    <3> QED BY <2>4, <3>1, <3>3 DEF RemoveLine, services, fulfillment
  <2>5. ASSUME NEW o \in Orders,
               \/ \E id \in LineIds, q \in Quantities : ChangeLineQuantity(o, id, q)
               \/ PriceLines(o)
               \/ \E id \in LineIds : SetArbitraryPrice(o, id)
        PROVE  OrderTypes'
    <3>1. lines' \in [Orders -> SUBSET Line] /\ modified' \in [Orders -> SUBSET LineIds]
      BY <2>5, LinesOfStep
    <3> USE DEF OrderTypes
    <3>2. UNCHANGED <<status, parties, asked, services>>
      BY <2>5 DEF ChangeLineQuantity, ModifiesLine, PriceLines, SetArbitraryPrice, contract
    <3> QED BY <3>1, <3>2 DEF services, fulfillment
  <2>6. ASSUME NEW o \in Orders, ConfirmStep(o)
        PROVE  OrderTypes'
    <3> USE DEF OrderTypes
    <3>1. \A l \in lines[o] : Allocation(l) \in AllocationOf /\ Item(l) \in Items
      BY DEF Allocation, Item, AllocationOf, Items, Line
    <3>2. CASE ConfirmLacksStock(o)
      <4>1. PICK some \in SUBSET lines[o] :
              allocated' = [allocated EXCEPT ![o] = @ \cup {Allocation(l) : l \in some}]
        BY <3>2 DEF ConfirmLacksStock
      <4>2. allocated' \in [Orders -> SUBSET AllocationOf]
        BY <3>1, <4>1
      <4> QED BY <3>2, <4>2 DEF ConfirmLacksStock, contract, fulfillment
    <3>3. ASSUME NEW answer \in PaymentAnswers, AsksForPayment(o, answer)
          PROVE  /\ allocated' \in [Orders -> SUBSET AllocationOf]
                 /\ payments' \in [Orders -> Seq(Payment)]
      <4>1. allocated' = [allocated EXCEPT ![o] = @ \cup {Allocation(l) : l \in lines[o]}]
        BY <3>3 DEF AsksForPayment
      <4>2. Total(o) \in SUBSET Items
        BY <3>1 DEF Total
      <4>3. [amount |-> Total(o), answer |-> answer, taken |-> answer = "CAPTURED"] \in Payment
        BY <4>2 DEF Payment
      <4> QED BY <3>1, <3>3, <4>1, <4>3 DEF AsksForPayment
    <3>4. CASE ConfirmUnpaid(o)
      <4>1. PICK answer \in {"FAILED", "PENDING", "LOST"} : AsksForPayment(o, answer)
        BY <3>4 DEF ConfirmUnpaid
      <4>2. answer \in PaymentAnswers
        BY DEF PaymentAnswers
      <4> QED BY <3>3, <3>4, <4>1, <4>2 DEF ConfirmUnpaid, contract, fulfillment
    <3>5. "CAPTURED" \in PaymentAnswers
      BY DEF PaymentAnswers
    <3>6. CASE ConfirmNotStarted(o)
      BY <3>3, <3>5, <3>6 DEF ConfirmNotStarted, contract, Statuses
    <3>7. CASE Confirm(o)
      BY <3>3, <3>5, <3>7 DEF Confirm, contract, Statuses
    <3> QED BY <2>6, <3>2, <3>4, <3>6, <3>7 DEF ConfirmStep
  <2>7. ASSUME NEW o \in Orders, PaymentStep(o)
        PROVE  OrderTypes'
    <3>1. PICK i \in DOMAIN payments[o] : TakeMoney(o, i)
      BY <2>7 DEF PaymentStep
    <3>2. payments' = [payments EXCEPT ![o] = [payments[o] EXCEPT ![i] = [payments[o][i] EXCEPT !.taken = TRUE]]]
      BY <3>1 DEF TakeMoney
    <3>3. payments[o] \in Seq(Payment) /\ payments[o][i] \in Payment
      BY DEF OrderTypes
    <3>4. [payments[o][i] EXCEPT !.taken = TRUE] \in Payment
      BY <3>3 DEF Payment
    <3>5. [payments[o] EXCEPT ![i] = [payments[o][i] EXCEPT !.taken = TRUE]] \in Seq(Payment)
      BY <3>3, <3>4
    <3> QED BY <3>1, <3>2, <3>5 DEF OrderTypes, TakeMoney, contract, fulfillment
  <2>8. ASSUME NEW o \in Orders, Cancel(o)
        PROVE  OrderTypes'
    BY <2>8 DEF OrderTypes, Cancel, contract, Statuses
  <2>9. ASSUME NEW o \in Orders, FulfillmentStep(o)
        PROVE  OrderTypes'
    BY <2>9 DEF OrderTypes, FulfillmentStep, Report, FulfillmentUpdated, contract, services, fulfillment, Statuses
  <2> QED
    BY <2>1, <2>2, <2>3, <2>4, <2>5, <2>6, <2>7, <2>8, <2>9 DEF Next, LineStep
<1> QED BY <1>1, <1>2, PTL DEF Spec

-----------------------------------------------------------------------------
(* Payment and fulfillment *)

\* No payment was captured, as far as it is known, before the order is confirmed.
DraftIsUnpaid ==
  \A o \in Orders : status[o] \in {"NEW", "DRAFT"} =>
    o \notin started /\ \A i \in DOMAIN payments[o] : payments[o][i].answer # "CAPTURED"

RefusedIsNotTaken ==
  \A o \in Orders : \A i \in DOMAIN payments[o] :
    payments[o][i].answer = "FAILED" => ~payments[o][i].taken

PricesFit == \A o \in Orders : \A l \in lines[o] : Fits(l)

ServicesInv ==
  /\ OrderTypes
  /\ KnownPaymentIsTheLast
  /\ DraftIsUnpaid
  /\ RefusedIsNotTaken
  /\ PricesFit
  /\ StartedIsCovered
  /\ CancellationIsAgreed

\* A command on lines keeps what was paid: no order that fulfillment was started for is
\* extended, and what is changed about it is known.
LEMMA StartedKeepsItsLines ==
  ASSUME ServicesInv, NEW o \in Orders, LineStep(o), NEW p \in started
  PROVE  /\ p \in Orders
         /\ modified[p] \subseteq modified'[p]
         /\ \A l \in lines'[p] : \E m \in lines[p] :
              l.id = m.id /\ (l.quantity = m.quantity \/ l.id \in modified'[p])
<1>1. p \in Orders /\ status[p] \notin {"NEW", "DRAFT"}
  BY DEF ServicesInv, OrderTypes, DraftIsUnpaid
<1>2. OrderTypes
  BY DEF ServicesInv
<1>3. CASE \E ids \in SUBSET LineIds, ps \in OrderPartyData :
             \E lps \in [ids -> [quantity : Quantities, parties : LinePartyData]] : CreateOrder(o, ps, lps)
  BY <1>1, <1>2, <1>3 DEF CreateOrder, OrderTypes
<1>4. CASE \E id \in LineIds, q \in Quantities : AddLine(o, id, q)
  BY <1>1, <1>2, <1>4 DEF AddLine, CanAddLines, contract, OrderTypes
<1>5. CASE \/ \E id \in LineIds : RemoveLine(o, id)
           \/ \E id \in LineIds, q \in Quantities : ChangeLineQuantity(o, id, q)
           \/ PriceLines(o)
           \/ \E id \in LineIds : SetArbitraryPrice(o, id)
  <2>1. /\ \A q \in Orders : q # o => lines'[q] = lines[q]
        /\ \A q \in Orders : modified[q] \subseteq modified'[q]
        /\ \A l \in lines'[o] : \E m \in lines[o] : Kept(o, l, m)
    BY <1>2, <1>5, LinesOfStep
  <2>2. CASE p = o
    BY <1>1, <2>1, <2>2 DEF Kept
  <2>3. CASE p # o
    BY <1>1, <2>1, <2>3
  <2> QED BY <2>2, <2>3
<1> QED BY <1>3, <1>4, <1>5 DEF LineStep

\* An order stays covered as long as its last payment is the same, it keeps what was
\* allocated, and the change of every line is known.
LEMMA CoveredStays ==
  ASSUME OrderTypes, NEW o \in Orders, Covered(o),
         Len(payments'[o]) = Len(payments[o]),
         payments'[o][Len(payments[o])].answer = payments[o][Len(payments[o])].answer,
         payments'[o][Len(payments[o])].amount = payments[o][Len(payments[o])].amount,
         payments'[o] # <<>>,
         allocated[o] \subseteq allocated'[o],
         modified[o] \subseteq modified'[o],
         \A l \in lines'[o] : \E m \in lines[o] :
           l.id = m.id /\ (l.quantity = m.quantity \/ l.id \in modified'[o])
  PROVE  Covered(o)'
<1> DEFINE payment == payments[o][Len(payments[o])]
           later == payments'[o][Len(payments'[o])]
<1>1. later.answer = payment.answer /\ later.amount = payment.amount
  OBVIOUS
<1>2. ASSUME NEW l \in lines'[o]
      PROVE  /\ l.id \notin modified'[o] => Allocation(l) \in allocated'[o]
             /\ l.id \notin modified'[o] /\ payment.amount # {} =>
                  Allocation(l) \in {Allocation(item) : item \in payment.amount}
             /\ \E q \in Quantities : [id |-> l.id, quantity |-> q] \in allocated'[o]
  <2>1. PICK m \in lines[o] : l.id = m.id /\ (l.quantity = m.quantity \/ l.id \in modified'[o])
    OBVIOUS
  <2>2. l.quantity = m.quantity => Allocation(l) = Allocation(m)
    BY <2>1 DEF Allocation
  <2>3. /\ m.id \notin modified[o] => Allocation(m) \in allocated[o]
        /\ m.id \notin modified[o] /\ payment.amount # {} =>
             Allocation(m) \in {Allocation(item) : item \in payment.amount}
        /\ \E q \in Quantities : [id |-> m.id, quantity |-> q] \in allocated[o]
    BY DEF Covered
  <2> HIDE DEF payment
  <2> QED BY <2>1, <2>2, <2>3
<1>3. \A item \in payment.amount :
        Allocation(item) \in allocated'[o] /\ item.pricing \in {item.quantity, "ARBITRARY"}
  BY DEF Covered
<1>4. payment.answer = "CAPTURED"
  BY DEF Covered
<1>5. \A item : Allocation(item)' = Allocation(item)
  BY DEF Allocation
<1> HIDE DEF payment
<1>6. later = payments'[o][Len(payments'[o])]
  OBVIOUS
<1> HIDE DEF later
<1> QED BY <1>1, <1>2, <1>3, <1>4, <1>5, <1>6 DEF Covered, Allocation

\* An order that is confirmed now is covered: everything is allocated and, with the price
\* it has, charged.
LEMMA CoveredWhenConfirmed ==
  ASSUME ServicesInv, OrderTypes', NEW o \in Orders, AsksForPayment(o, "CAPTURED"),
         UNCHANGED <<lines, modified>>
  PROVE  Covered(o)'
<1> DEFINE last == [amount |-> Total(o), answer |-> "CAPTURED", taken |-> TRUE]
<1>0. OrderTypes
  BY DEF ServicesInv
<1>1. payments'[o] = Append(payments[o], last)
  BY <1>0 DEF AsksForPayment, OrderTypes
<1>2. payments[o] \in Seq(Payment)
  BY <1>0 DEF OrderTypes
<1>3. /\ payments'[o] # <<>>
      /\ payments'[o][Len(payments'[o])] = last
  BY <1>1, <1>2
<1>4. allocated'[o] = allocated[o] \cup {Allocation(l) : l \in lines[o]}
  BY <1>0 DEF AsksForPayment, OrderTypes
<1>5. \A l \in lines[o] : Allocation(Item(l)) = Allocation(l)
  BY DEF Allocation, Item
<1>6. \A item \in Total(o) : \E l \in lines[o] : item = Item(l) /\ l.pricing # "NOT_PRICED"
  BY DEF Total
<1>7. ASSUME NEW item \in Total(o)
      PROVE  Allocation(item) \in allocated'[o] /\ item.pricing \in {item.quantity, "ARBITRARY"}
  <2>1. PICK l \in lines[o] : item = Item(l) /\ l.pricing # "NOT_PRICED"
    BY <1>6
  <2>2. Fits(l)
    BY DEF ServicesInv, PricesFit
  <2>3. item.pricing = l.pricing /\ item.quantity = l.quantity
    BY <2>1 DEF Item
  <2> QED BY <1>4, <1>5, <2>1, <2>2, <2>3 DEF Fits
<1>8. ASSUME NEW l \in lines[o]
      PROVE  /\ Allocation(l) \in allocated'[o]
             /\ Total(o) # {} => Allocation(l) \in {Allocation(item) : item \in Total(o)}
             /\ \E q \in Quantities : [id |-> l.id, quantity |-> q] \in allocated'[o]
  <2>1. Total(o) # {} => Item(l) \in Total(o)
    BY DEF Total
  <2>2. l.quantity \in Quantities
    BY <1>0 DEF OrderTypes, Line
  <2>3. Allocation(l) = [id |-> l.id, quantity |-> l.quantity]
    BY DEF Allocation
  <2> QED BY <1>4, <1>5, <2>1, <2>2, <2>3
<1>9. last.amount = Total(o) /\ last.answer = "CAPTURED"
  OBVIOUS
<1> HIDE DEF last
<1> QED BY <1>3, <1>7, <1>8, <1>9 DEF Covered, Allocation

\* Another payment may be asked for as long as none is known to be captured.
LEMMA PaymentIsTheLast ==
  ASSUME ServicesInv, NEW o \in Orders, NEW answer \in PaymentAnswers, AsksForPayment(o, answer)
  PROVE  /\ KnownPaymentIsTheLast'
         /\ RefusedIsNotTaken'
         /\ \A p \in Orders : p # o => payments'[p] = payments[p]
         /\ answer # "CAPTURED" =>
              \A i \in DOMAIN payments'[o] : payments'[o][i].answer # "CAPTURED"
<1> DEFINE last == [amount |-> Total(o), answer |-> answer, taken |-> answer = "CAPTURED"]
<1>0. OrderTypes
  BY DEF ServicesInv
<1>1. payments'[o] = Append(payments[o], last) /\ \A p \in Orders : p # o => payments'[p] = payments[p]
  BY <1>0 DEF AsksForPayment, OrderTypes
<1>2. payments[o] \in Seq(Payment) /\ Len(payments[o]) \in Nat
  BY <1>0 DEF OrderTypes
<1>3. \A i \in DOMAIN payments[o] : payments[o][i].answer # "CAPTURED"
  BY DEF AsksForPayment, ServicesInv, DraftIsUnpaid
<1>4. \A i \in DOMAIN payments[o] :
        payments[o][i] \in Payment /\ (payments[o][i].answer = "FAILED" => ~payments[o][i].taken)
  BY <1>2 DEF ServicesInv, RefusedIsNotTaken
<1>5. \A i \in DOMAIN payments'[o] :
        IF i = Len(payments[o]) + 1 THEN payments'[o][i] = last
        ELSE i \in DOMAIN payments[o] /\ payments'[o][i] = payments[o][i]
  BY <1>1, <1>2
<1>6. last.answer = answer /\ (last.taken <=> answer = "CAPTURED")
  OBVIOUS
<1> HIDE DEF last
<1>7. RefusedIsNotTaken'
  <2>1. \A i \in DOMAIN payments'[o] : payments'[o][i].answer = "FAILED" => ~payments'[o][i].taken
    BY <1>4, <1>5, <1>6
  <2> QED BY <1>1, <2>1 DEF RefusedIsNotTaken, ServicesInv
<1>8. KnownPaymentIsTheLast'
  <2>1. ASSUME NEW i \in DOMAIN payments'[o], NEW j \in DOMAIN payments'[o], i < j
        PROVE  /\ payments'[o][i].answer # "CAPTURED"
               /\ payments'[o][i].taken => payments'[o][i].answer \in {"PENDING", "LOST"}
    <3>1. Len(payments'[o]) = Len(payments[o]) + 1 /\ DOMAIN payments'[o] = 1 .. Len(payments'[o])
      BY <1>1, <1>2
    <3>2. i # Len(payments[o]) + 1
      BY <1>2, <2>1, <3>1
    <3>3. i \in DOMAIN payments[o] /\ payments'[o][i] = payments[o][i]
      BY <1>5, <3>2
    <3> QED BY <1>3, <1>4, <3>3 DEF Payment, PaymentAnswers
  <2> QED BY <1>1, <2>1 DEF KnownPaymentIsTheLast, ServicesInv
<1>9. answer # "CAPTURED" => \A i \in DOMAIN payments'[o] : payments'[o][i].answer # "CAPTURED"
  BY <1>3, <1>5, <1>6
<1> QED BY <1>1, <1>7, <1>8, <1>9

LEMMA ServicesInvInductive == ServicesInv /\ OrderTypes' /\ [Next]_vars => ServicesInv'
<1> SUFFICES ASSUME ServicesInv, OrderTypes', [Next]_vars PROVE ServicesInv'
  OBVIOUS
<1>0. OrderTypes
  BY DEF ServicesInv
<1>1. CASE UNCHANGED vars
  BY <1>1 DEF vars, ServicesInv, KnownPaymentIsTheLast, DraftIsUnpaid, RefusedIsNotTaken,
              PricesFit, Fits, StartedIsCovered, Covered, Allocation, CancellationIsAgreed
<1>2. ASSUME NEW o \in Orders, LineStep(o)
      PROVE  ServicesInv'
  <2>1. /\ UNCHANGED <<payments, allocated, started, told>>
        /\ status' \in {status, [status EXCEPT ![o] = "DRAFT"]}
        /\ status' # status => status[o] = "NEW"
    BY <1>2 DEF LineStep, CreateOrder, AddLine, RemoveLine, ChangeLineQuantity, ModifiesLine,
                PriceLines, SetArbitraryPrice, services, fulfillment
  <2>2. KnownPaymentIsTheLast' /\ RefusedIsNotTaken'
    BY <2>1 DEF ServicesInv, KnownPaymentIsTheLast, RefusedIsNotTaken
  <2>3. DraftIsUnpaid'
    BY <1>0, <2>1 DEF ServicesInv, DraftIsUnpaid, OrderTypes
  <2>4. PricesFit'
    <3>1. CASE \E ids \in SUBSET LineIds, ps \in OrderPartyData :
                 \E lps \in [ids -> [quantity : Quantities, parties : LinePartyData]] : CreateOrder(o, ps, lps)
      <4>1. PICK ids \in SUBSET LineIds : \E ps \in OrderPartyData :
                 \E lps \in [ids -> [quantity : Quantities, parties : LinePartyData]] :
                   lines' = [lines EXCEPT ![o] = Built(lps)]
        BY <3>1 DEF CreateOrder
      <4>2. PICK lps \in [ids -> [quantity : Quantities, parties : LinePartyData]] :
                   lines' = [lines EXCEPT ![o] = Built(lps)]
        BY <4>1
      <4>3. \A l \in Built(lps) : Fits(l)
        BY BuiltAreLines
      <4> QED BY <1>0, <4>2, <4>3 DEF ServicesInv, PricesFit, Fits, OrderTypes
    <3>2. CASE \E id \in LineIds, q \in Quantities : AddLine(o, id, q)
      <4>1. PICK id \in LineIds, q \in Quantities : AddLine(o, id, q)
        BY <3>2
      <4>2. Fits(NewLine(id, q, <<>>))
        BY DEF Fits, NewLine
      <4>3. lines'[o] = lines[o] \cup {NewLine(id, q, <<>>)} /\ \A p \in Orders : p # o => lines'[p] = lines[p]
        BY <1>0, <4>1 DEF AddLine, OrderTypes
      <4> QED BY <4>2, <4>3 DEF ServicesInv, PricesFit, Fits
    <3>3. CASE \/ \E id \in LineIds : RemoveLine(o, id)
               \/ \E id \in LineIds, q \in Quantities : ChangeLineQuantity(o, id, q)
               \/ PriceLines(o)
               \/ \E id \in LineIds : SetArbitraryPrice(o, id)
      <4>1. /\ \A p \in Orders : p # o => lines'[p] = lines[p]
            /\ \A l \in lines'[o] : \E m \in lines[o] : Kept(o, l, m)
        BY <1>0, <3>3, LinesOfStep
      <4>2. \A p \in Orders : \A l \in lines'[p] : Fits(l)
        BY <4>1 DEF Kept, ServicesInv, PricesFit
      <4> QED BY <4>2 DEF PricesFit, Fits
    <3> QED BY <1>2, <3>1, <3>2, <3>3 DEF LineStep
  <2>5. StartedIsCovered'
    <3>1. ASSUME NEW p \in started PROVE Covered(p)'
      <4>1. /\ p \in Orders
            /\ modified[p] \subseteq modified'[p]
            /\ \A l \in lines'[p] : \E m \in lines[p] :
                 l.id = m.id /\ (l.quantity = m.quantity \/ l.id \in modified'[p])
        BY <1>2, StartedKeepsItsLines
      <4>2. Covered(p) /\ payments[p] # <<>>
        BY DEF ServicesInv, StartedIsCovered, Covered
      <4> QED BY <1>0, <2>1, <4>1, <4>2, CoveredStays
    <3> QED BY <2>1, <3>1 DEF StartedIsCovered
  <2>6. CancellationIsAgreed'
    BY <1>0, <2>1 DEF ServicesInv, CancellationIsAgreed, OrderTypes
  <2> QED BY <2>2, <2>3, <2>4, <2>5, <2>6 DEF ServicesInv
<1>3. ASSUME NEW o \in Orders, ConfirmLacksStock(o)
      PROVE  ServicesInv'
  <2>1. UNCHANGED <<status, lines, modified, payments, started, told>>
    BY <1>3 DEF ConfirmLacksStock, contract, fulfillment
  <2>2. \A p \in Orders : allocated[p] \subseteq allocated'[p]
    BY <1>0, <1>3 DEF ConfirmLacksStock, OrderTypes
  <2>3. StartedIsCovered'
    <3>1. ASSUME NEW p \in started PROVE Covered(p)'
      <4>1. p \in Orders /\ Covered(p) /\ payments[p] # <<>>
        BY <1>0 DEF OrderTypes, ServicesInv, StartedIsCovered, Covered
      <4> QED BY <1>0, <2>1, <2>2, <4>1, CoveredStays
    <3> QED BY <2>1, <3>1 DEF StartedIsCovered
  <2> QED BY <2>1, <2>3 DEF ServicesInv, KnownPaymentIsTheLast, DraftIsUnpaid, RefusedIsNotTaken,
                           PricesFit, Fits, CancellationIsAgreed
<1>4. ASSUME NEW o \in Orders, NEW answer \in PaymentAnswers, AsksForPayment(o, answer),
             UNCHANGED <<lines, modified, told>>,
             \/ answer # "CAPTURED" /\ UNCHANGED <<status, started>>
             \/ /\ answer = "CAPTURED"
                /\ \/ status' = [status EXCEPT ![o] = "CONFIRMED"]
                /\ started' \in {started, started \cup {o}}
      PROVE  ServicesInv'
  <2>1. /\ KnownPaymentIsTheLast'
        /\ RefusedIsNotTaken'
        /\ \A p \in Orders : p # o => payments'[p] = payments[p]
        /\ answer # "CAPTURED" =>
             \A i \in DOMAIN payments'[o] : payments'[o][i].answer # "CAPTURED"
    BY <1>4, PaymentIsTheLast
  <2>2. status[o] = "DRAFT" /\ o \notin started
    BY <1>4 DEF AsksForPayment, ServicesInv, DraftIsUnpaid
  <2>3. DraftIsUnpaid'
    BY <1>0, <1>4, <2>1, <2>2 DEF ServicesInv, DraftIsUnpaid, OrderTypes
  <2>4. PricesFit'
    BY <1>4 DEF ServicesInv, PricesFit, Fits
  <2>5. StartedIsCovered'
    <3>1. \A p \in Orders : p # o => allocated'[p] = allocated[p]
      BY <1>0, <1>4 DEF AsksForPayment, OrderTypes
    <3>2. ASSUME NEW p \in started PROVE Covered(p)'
      <4>1. p \in Orders /\ Covered(p) /\ payments[p] # <<>> /\ p # o
        BY <1>0, <2>2 DEF OrderTypes, ServicesInv, StartedIsCovered, Covered
      <4> QED BY <1>0, <1>4, <2>1, <3>1, <4>1, CoveredStays
    <3>3. answer = "CAPTURED" => Covered(o)'
      BY <1>4, CoveredWhenConfirmed
    <3> QED BY <1>4, <3>2, <3>3 DEF StartedIsCovered
  <2>6. CancellationIsAgreed'
    BY <1>0, <1>4, <2>2 DEF ServicesInv, CancellationIsAgreed, OrderTypes
  <2> QED BY <2>1, <2>3, <2>4, <2>5, <2>6 DEF ServicesInv
<1>5. ASSUME NEW o \in Orders, ConfirmStep(o)
      PROVE  ServicesInv'
  <2>1. "CAPTURED" \in PaymentAnswers /\ {"FAILED", "PENDING", "LOST"} \subseteq PaymentAnswers \ {"CAPTURED"}
    BY DEF PaymentAnswers
  <2>2. CASE ConfirmUnpaid(o)
    BY <1>4, <2>1, <2>2 DEF ConfirmUnpaid, contract, fulfillment
  <2>3. CASE ConfirmNotStarted(o)
    BY <1>4, <2>1, <2>3 DEF ConfirmNotStarted, contract
  <2>4. CASE Confirm(o)
    BY <1>4, <2>1, <2>4 DEF Confirm, contract
  <2> QED BY <1>3, <1>5, <2>2, <2>3, <2>4 DEF ConfirmStep
<1>6. ASSUME NEW o \in Orders, PaymentStep(o)
      PROVE  ServicesInv'
  <2>1. PICK i \in DOMAIN payments[o] : TakeMoney(o, i)
    BY <1>6 DEF PaymentStep
  <2>2. UNCHANGED <<status, lines, modified, allocated, started, told>>
    BY <2>1 DEF TakeMoney, contract, fulfillment
  <2>3. payments[o] \in Seq(Payment) /\ payments[o][i] \in Payment /\ payments[o][i].answer \in {"PENDING", "LOST"}
    BY <1>0, <2>1 DEF OrderTypes, TakeMoney
  <2>4. /\ payments'[o] = [payments[o] EXCEPT ![i] = [payments[o][i] EXCEPT !.taken = TRUE]]
        /\ \A p \in Orders : p # o => payments'[p] = payments[p]
    BY <1>0, <2>1 DEF TakeMoney, OrderTypes
  <2>5. /\ DOMAIN payments'[o] = DOMAIN payments[o]
        /\ Len(payments'[o]) = Len(payments[o])
        /\ \A k \in DOMAIN payments[o] :
             /\ payments'[o][k].answer = payments[o][k].answer
             /\ payments'[o][k].amount = payments[o][k].amount
             /\ payments'[o][k].taken => payments[o][k].taken \/ payments[o][k].answer \in {"PENDING", "LOST"}
    BY <2>3, <2>4 DEF Payment
  <2>6. \A p \in Orders :
          /\ DOMAIN payments'[p] = DOMAIN payments[p]
          /\ Len(payments'[p]) = Len(payments[p])
          /\ \A k \in DOMAIN payments[p] :
               /\ payments'[p][k].answer = payments[p][k].answer
               /\ payments'[p][k].amount = payments[p][k].amount
               /\ payments'[p][k].taken => payments[p][k].taken \/ payments[p][k].answer \in {"PENDING", "LOST"}
    BY <2>4, <2>5
  <2>7. KnownPaymentIsTheLast' /\ RefusedIsNotTaken'
    BY <2>6 DEF ServicesInv, KnownPaymentIsTheLast, RefusedIsNotTaken
  <2>8. DraftIsUnpaid'
    BY <2>2, <2>6 DEF ServicesInv, DraftIsUnpaid
  <2>9. StartedIsCovered'
    <3>1. ASSUME NEW p \in started PROVE Covered(p)'
      <4>1. p \in Orders /\ Covered(p) /\ payments[p] # <<>> /\ payments[p] \in Seq(Payment)
        BY <1>0 DEF OrderTypes, ServicesInv, StartedIsCovered, Covered
      <4>2. Len(payments[p]) \in DOMAIN payments[p]
        BY <4>1
      <4>3. payments'[p] # <<>>
        <5>1. DOMAIN payments'[p] # {} /\ DOMAIN <<>> = {}
          BY <2>6, <4>1, <4>2
        <5> QED BY <5>1
      <4> QED BY <1>0, <2>2, <2>6, <4>1, <4>2, <4>3, CoveredStays
    <3> QED BY <2>2, <3>1 DEF StartedIsCovered
  <2> QED BY <2>2, <2>7, <2>8, <2>9 DEF ServicesInv, PricesFit, Fits, CancellationIsAgreed
<1>7. ASSUME NEW o \in Orders, Cancel(o) \/ FulfillmentStep(o)
      PROVE  ServicesInv'
  <2>1. /\ UNCHANGED <<lines, modified, allocated, payments, started>>
        /\ \/ status' = status /\ told' = told
           \/ /\ status[o] \in {"CONFIRMED", "PROCESSING"} /\ told' = told
              /\ \E s \in {"FULFILLED", "PROCESSING"} : status' = [status EXCEPT ![o] = s]
           \/ /\ status' = [status EXCEPT ![o] = "CANCELLED"]
              /\ told' = IF status[o] = "DRAFT" THEN told ELSE told \cup {o}
    BY <1>7 DEF Cancel, FulfillmentStep, Report, FulfillmentUpdated, contract, services, fulfillment
  <2>2. KnownPaymentIsTheLast' /\ RefusedIsNotTaken' /\ PricesFit'
    BY <2>1 DEF ServicesInv, KnownPaymentIsTheLast, RefusedIsNotTaken, PricesFit, Fits
  <2>3. DraftIsUnpaid'
    BY <1>0, <2>1 DEF ServicesInv, DraftIsUnpaid, OrderTypes
  <2>4. StartedIsCovered'
    BY <2>1 DEF ServicesInv, StartedIsCovered, Covered, Allocation
  <2>5. CancellationIsAgreed'
    BY <1>0, <2>1 DEF ServicesInv, DraftIsUnpaid, CancellationIsAgreed, OrderTypes
  <2> QED BY <2>2, <2>3, <2>4, <2>5 DEF ServicesInv
<1> QED BY <1>1, <1>2, <1>5, <1>6, <1>7 DEF Next

LEMMA ServicesInvariant == Spec => []ServicesInv
<1>1. Init => ServicesInv
  BY DEF Init, ServicesInv, OrderTypes, Statuses, KnownPaymentIsTheLast, DraftIsUnpaid,
         RefusedIsNotTaken, PricesFit, StartedIsCovered, CancellationIsAgreed
<1> QED BY <1>1, ServicesInvInductive, OrderTypeCorrect, PTL DEF Spec

\* No payment is asked for after one that the order was told is captured; one that was
\* taken before another was asked for had been answered PENDING, or not at all
\* (KnownPaymentIsTheLast).
THEOREM PaidIsNotChargedAgain == Spec => []KnownPaymentIsTheLast
<1>1. ServicesInv => KnownPaymentIsTheLast
  BY DEF ServicesInv
<1> QED BY <1>1, ServicesInvariant, PTL

\* What fulfillment was started for is paid and allocated in the quantities it was
\* confirmed with, and its lines are these but for later changes (StartedIsCovered).
THEOREM FulfillmentIsCovered == Spec => []StartedIsCovered
<1>1. ServicesInv => StartedIsCovered
  BY DEF ServicesInv
<1> QED BY <1>1, ServicesInvariant, PTL

\* Fulfillment is told of every cancellation it is concerned by, and no late report
\* revives an order it was told to cancel (CancellationIsAgreed).
THEOREM CancellationsAreAgreed == Spec => []CancellationIsAgreed
<1>1. ServicesInv => CancellationIsAgreed
  BY DEF ServicesInv
<1> QED BY <1>1, ServicesInvariant, PTL

-----------------------------------------------------------------------------
(* Parties *)

PartiesForLinesInv ==
  /\ OrderTypes
  /\ \A o \in Orders : \A l \in lines[o] : l.parties = asked[o][l.id]
  /\ \A o \in Orders : \A id \in LineIds : id \notin LinesOf(o) => asked[o][id] = <<>>
  /\ \A o \in Orders : \A id \in LineIds : OrderLineLevelRolePolicy(asked[o][id])

LEMMA NobodyIsAllowed == OrderLineLevelRolePolicy(<<>>)
<1>1. ToSet(<<>>) = {}
  BY DEF ToSet
<1> QED BY <1>1 DEF OrderLineLevelRolePolicy, RolesIn, RolesOf

LEMMA PartiesForLinesInductive ==
  PartiesForLinesInv /\ OrderTypes' /\ [Next]_vars => PartiesForLinesInv'
<1> SUFFICES ASSUME PartiesForLinesInv, OrderTypes', [Next]_vars PROVE PartiesForLinesInv'
  OBVIOUS
<1>0. OrderTypes
  BY DEF PartiesForLinesInv
<1>1. CASE lines' = lines /\ asked' = asked
  BY <1>1 DEF PartiesForLinesInv, LinesOf, OrderLineLevelRolePolicy
<1>2. ASSUME NEW o \in Orders, NEW ids \in SUBSET LineIds, NEW ps \in OrderPartyData,
             NEW lps \in [ids -> [quantity : Quantities, parties : LinePartyData]],
             CreateOrder(o, ps, lps)
      PROVE  PartiesForLinesInv'
  <2>1. \A l \in Built(lps) : l.id \in ids /\ l.parties = lps[l.id].parties
    BY BuiltAreLines
  <2>2. /\ lines' = [lines EXCEPT ![o] = Built(lps)]
        /\ asked' = [asked EXCEPT ![o] = [id \in LineIds |-> IF id \in ids THEN lps[id].parties ELSE <<>>]]
        /\ \A id \in ids : OrderLineLevelRolePolicy(lps[id].parties)
    BY <1>2 DEF CreateOrder
  <2>3. /\ lines'[o] = Built(lps)
        /\ \A id \in LineIds : asked'[o][id] = IF id \in ids THEN lps[id].parties ELSE <<>>
        /\ \A p \in Orders : p # o => lines'[p] = lines[p] /\ asked'[p] = asked[p]
    BY <1>0, <2>2 DEF OrderTypes
  <2>4. \A id \in ids : id \in LinesOf(o)'
    <3>1. \A id \in ids : NewLine(id, lps[id].quantity, lps[id].parties) \in lines'[o]
                       /\ NewLine(id, lps[id].quantity, lps[id].parties).id = id
      BY <2>3 DEF Built, NewLine
    <3> QED BY <3>1 DEF LinesOf
  <2>5. \A l \in lines'[o] : l.parties = asked'[o][l.id]
    BY <2>1, <2>3
  <2>6. \A id \in LineIds : id \notin LinesOf(o)' => asked'[o][id] = <<>>
    BY <2>3, <2>4
  <2>7. \A id \in LineIds : OrderLineLevelRolePolicy(asked'[o][id])
    BY <2>2, <2>3, NobodyIsAllowed
  <2> QED BY <2>3, <2>5, <2>6, <2>7 DEF PartiesForLinesInv, LinesOf
<1>3. ASSUME NEW o \in Orders, NEW id \in LineIds, NEW q \in Quantities, AddLine(o, id, q)
      PROVE  PartiesForLinesInv'
  <2>1. /\ lines'[o] = lines[o] \cup {NewLine(id, q, <<>>)}
        /\ \A p \in Orders : p # o => lines'[p] = lines[p]
        /\ asked' = asked
        /\ asked[o][id] = <<>>
    BY <1>0, <1>3 DEF AddLine, contract, OrderTypes, PartiesForLinesInv
  <2>2. NewLine(id, q, <<>>).id = id /\ NewLine(id, q, <<>>).parties = <<>>
    BY DEF NewLine
  <2>3. \A p \in Orders : LinesOf(p) \subseteq LinesOf(p)'
    BY <2>1 DEF LinesOf
  <2> QED BY <2>1, <2>2, <2>3, ZenonT(60) DEF PartiesForLinesInv, OrderLineLevelRolePolicy
<1>4. ASSUME NEW o \in Orders, NEW id \in LineIds, RemoveLine(o, id)
      PROVE  PartiesForLinesInv'
  <2>1. /\ lines'[o] = {l \in lines[o] : l.id # id}
        /\ \A p \in Orders : p # o => lines'[p] = lines[p] /\ asked'[p] = asked[p]
        /\ asked'[o] = [asked[o] EXCEPT ![id] = <<>>]
    BY <1>0, <1>4 DEF RemoveLine, OrderTypes
  <2>2. asked'[o][id] = <<>> /\ \A other \in LineIds : other # id => asked'[o][other] = asked[o][other]
    BY <1>0, <2>1 DEF OrderTypes
  <2>3. \A l \in lines'[o] : l.parties = asked'[o][l.id]
    BY <1>0, <2>1, <2>2 DEF PartiesForLinesInv, OrderTypes, Line
  <2>4. \A other \in LineIds : other \notin LinesOf(o)' => asked'[o][other] = <<>>
    BY <2>1, <2>2 DEF PartiesForLinesInv, LinesOf
  <2>5. \A other \in LineIds : OrderLineLevelRolePolicy(asked'[o][other])
    BY <2>2, NobodyIsAllowed DEF PartiesForLinesInv
  <2>6. \A p \in Orders : p # o => lines'[p] = lines[p] /\ asked'[p] = asked[p] /\ LinesOf(p)' = LinesOf(p)
    BY <2>1 DEF LinesOf
  <2> QED BY <2>3, <2>4, <2>5, <2>6 DEF PartiesForLinesInv
<1>5. ASSUME NEW o \in Orders,
             \/ \E id \in LineIds, q \in Quantities : ChangeLineQuantity(o, id, q)
             \/ PriceLines(o)
             \/ \E id \in LineIds : SetArbitraryPrice(o, id)
      PROVE  PartiesForLinesInv'
  <2>1. CASE \E id \in LineIds : RemoveLine(o, id)
    BY <1>4, <2>1
  <2>2. CASE ~ \E id \in LineIds : RemoveLine(o, id)
    <3>1. /\ \A p \in Orders : p # o => lines'[p] = lines[p]
          /\ \A l \in lines'[o] : \E m \in lines[o] : Kept(o, l, m)
          /\ \A m \in lines[o] : \E l \in lines'[o] : l.id = m.id
      BY <1>0, <1>5, <2>2, LinesOfStep
    <3>2. asked' = asked
      BY <1>5 DEF ChangeLineQuantity, ModifiesLine, PriceLines, SetArbitraryPrice, contract
    <3>3. \A p \in Orders : LinesOf(p) \subseteq LinesOf(p)'
      BY <3>1 DEF LinesOf
    <3>4. \A p \in Orders : \A l \in lines'[p] : l.parties = asked'[p][l.id]
      BY <3>1, <3>2 DEF PartiesForLinesInv, Kept
    <3>5. \A p \in Orders : \A id \in LineIds : id \notin LinesOf(p)' => asked'[p][id] = <<>>
      BY <3>2, <3>3 DEF PartiesForLinesInv
    <3>6. \A p \in Orders : \A id \in LineIds : OrderLineLevelRolePolicy(asked'[p][id])
      BY <3>2 DEF PartiesForLinesInv
    <3> QED BY <3>4, <3>5, <3>6 DEF PartiesForLinesInv
  <2> QED BY <2>1, <2>2
<1>6. ASSUME NEW o \in Orders, ConfirmStep(o) \/ PaymentStep(o) \/ Cancel(o) \/ FulfillmentStep(o)
      PROVE  lines' = lines /\ asked' = asked
  BY <1>6 DEF ConfirmStep, ConfirmLacksStock, ConfirmUnpaid, ConfirmNotStarted, Confirm, Cancel,
              PaymentStep, TakeMoney, FulfillmentStep, Report, FulfillmentUpdated, contract
<1>7. CASE UNCHANGED vars
  BY <1>1, <1>7 DEF vars
<1> QED BY <1>1, <1>2, <1>3, <1>4, <1>5, <1>6, <1>7 DEF Next, LineStep

\* Whatever parties an order and its line name, as long as the line names nobody as
\* orderer, executor or payer: the effective parties hold the roles they should.
LEMMA EffectiveRoles ==
  ASSUME OrderTypes, NEW o \in Orders, NEW l \in lines[o],
         OrderLineLevelRolePolicy(l.parties)
  PROVE  /\ \A p \in EffectivePartiesFor(o, l) : p.roles # {}
         /\ \A role \in RoleInOrder :
              {p.party : p \in WithRole(EffectivePartiesFor(o, l), role)} =
                IF role \notin {"ORDERER", "EXECUTOR", "PAYER"} /\ role \in RolesOf(ToSet(l.parties))
                THEN {p.party : p \in WithRole(ToSet(l.parties), role)}
                ELSE {p.party : p \in WithRole(ToSet(parties[o]), role)}
<1> DEFINE order == ToSet(parties[o])
           named == ToSet(l.parties)
           remaining == {[p EXCEPT !.roles = @ \ RolesOf(named)] : p \in order}
<1>1. order \subseteq PartyInOrder /\ named \subseteq PartyInOrder
  BY DEF OrderTypes, Line, ToSet
<1>2. RolesOf(named) \cap {"ORDERER", "EXECUTOR", "PAYER"} = {}
  BY DEF OrderLineLevelRolePolicy, RolesIn
<1>3. CASE l.parties = <<>>
  <2>1. named = {} /\ RolesOf(named) = {}
    BY <1>3 DEF ToSet, RolesOf
  <2> QED BY <1>1, <1>3, <2>1 DEF EffectivePartiesFor, PartyInOrder
<1>4. CASE l.parties # <<>>
  <2>1. EffectivePartiesFor(o, l) = {p \in remaining : p.roles # {}} \cup named
    BY <1>4 DEF EffectivePartiesFor, Merge
  <2> HIDE DEF order, named
  <2>2. \A p \in order : /\ [p EXCEPT !.roles = @ \ RolesOf(named)].roles = p.roles \ RolesOf(named)
                         /\ [p EXCEPT !.roles = @ \ RolesOf(named)].party = p.party
    BY <1>1 DEF PartyInOrder
  <2> DEFINE left(p) == [p EXCEPT !.roles = @ \ RolesOf(named)]
  <2>3. ASSUME NEW role \in RoleInOrder
        PROVE  {p.party : p \in {q \in remaining : q.roles # {} /\ role \in q.roles}} =
                 IF role \in RolesOf(named) THEN {}
                 ELSE {p.party : p \in WithRole(order, role)}
    <3>1. remaining = {left(p) : p \in order}
      OBVIOUS
    <3>2. \A p \in order : left(p).roles = p.roles \ RolesOf(named) /\ left(p).party = p.party
      BY <2>2
    <3> HIDE DEF left, remaining
    <3>3. CASE role \in RolesOf(named)
      BY <3>1, <3>2, <3>3
    <3>4. CASE role \notin RolesOf(named)
      <4>1. {q \in remaining : q.roles # {} /\ role \in q.roles} = {left(p) : p \in WithRole(order, role)}
        BY <3>1, <3>2, <3>4 DEF WithRole
      <4>2. \A p \in WithRole(order, role) : left(p).party = p.party
        BY <3>2 DEF WithRole
      <4> QED BY <3>4, <4>1, <4>2
    <3> QED BY <3>3, <3>4
  <2>4. \A role : role \notin RolesOf(named) => WithRole(named, role) = {}
    BY DEF RolesOf, WithRole
  <2>5. ASSUME NEW role \in RoleInOrder
        PROVE  {p.party : p \in WithRole(EffectivePartiesFor(o, l), role)} =
                 IF role \in RolesOf(named) THEN {p.party : p \in WithRole(named, role)}
                 ELSE {p.party : p \in WithRole(order, role)}
    <3>1. WithRole(EffectivePartiesFor(o, l), role) =
            {q \in remaining : q.roles # {} /\ role \in q.roles} \cup WithRole(named, role)
      BY <2>1 DEF WithRole
    <3> QED BY <2>3, <2>4, <3>1, ZenonT(60)
  <2>6. \A p \in named : p.roles # {}
    BY <1>1 DEF PartyInOrder
  <2> USE DEF order, named
  <2> QED BY <1>2, <2>1, <2>5, <2>6
<1> QED BY <1>3, <1>4

\* At every line, at all times, each role is held by those the client named for it
\* there, or else by those of the order (PartiesReachTheirLines).
THEOREM PartiesReachLines == Spec => []PartiesReachTheirLines
<1>1. Init => PartiesForLinesInv
  <2> SUFFICES ASSUME Init PROVE PartiesForLinesInv
    OBVIOUS
  <2>1. OrderTypes
    BY DEF Init, OrderTypes, Statuses
  <2>2. \A o \in Orders : lines[o] = {} /\ \A id \in LineIds : asked[o][id] = <<>>
    BY DEF Init
  <2> QED BY <2>1, <2>2, NobodyIsAllowed DEF PartiesForLinesInv
<1>2. PartiesForLinesInv => PartiesReachTheirLines
  <2> SUFFICES ASSUME PartiesForLinesInv PROVE PartiesReachTheirLines
    OBVIOUS
  <2>1. OrderTypes
    BY DEF PartiesForLinesInv
  <2>2. ASSUME NEW o \in Orders, NEW l \in lines[o]
        PROVE  l.parties = asked[o][l.id] /\ OrderLineLevelRolePolicy(l.parties)
    BY <2>1 DEF PartiesForLinesInv, OrderTypes, Line
  <2> QED BY <2>1, <2>2, EffectiveRoles, ZenonT(60) DEF PartiesReachTheirLines
<1> QED BY <1>1, <1>2, PartiesForLinesInductive, OrderTypeCorrect, PTL DEF Spec
=============================================================================
