------------------------------- MODULE Discounts -------------------------------
(***************************************************************************)
(* The discounts of rules/: modifiers of an offered item that apply to     *)
(* clients for whom a predicate holds.  Discounts are saved as flat        *)
(* parameters: a predicate is a tree that is written node by node under    *)
(* generated ids and read back when the modifiers for a client are         *)
(* chained.  Amounts are numbers, percentages of them exact.               *)
(***************************************************************************)
EXTENDS Integers, SequencesExt, TLC

CONSTANTS
  Clients,      \* ClientContexts: status, expenses and years since the first order
  Items,        \* the OfferItems that are asked for: product and base price
  Modifiers,    \* the OfferItemModifiers that discounts are made of
  Predicates,   \* the predicates on clients that they are for, or NoPredicate
  NoPredicate,
  MaxDiscounts  \* bound on the discounts in the repository

ASSUME DiscountsAssumption == MaxDiscounts \in Nat

VARIABLES
  discounts,  \* the repository: the modifier and the parameters of each discount
  meant       \* the predicate each was saved with

dvars == <<discounts, meant>>

-----------------------------------------------------------------------------
(* client/rules/ and predicates/ *)

RECURSIVE Test(_, _)
Test(predicate, client) ==
  CASE predicate.kind = "AND" -> Test(predicate.left, client) /\ Test(predicate.right, client)
    [] predicate.kind = "OR" -> Test(predicate.left, client) \/ Test(predicate.right, client)
    [] predicate.kind = "NOT" -> ~Test(predicate.child, client)
    [] predicate.kind = "StatusRule" -> client.status = predicate.status
    [] predicate.kind = "ExpensesRule" -> client.expenses >= predicate.minAmount
    [] predicate.kind = "TimeBeingCustomer" -> client.years >= predicate.threshold

-----------------------------------------------------------------------------
(* config/reflection/: the nodes written for a predicate, by id, and the next free id *)

\* writeLogicalNode: the ids of both parts are taken before either is written.
RECURSIVE WriteNode(_, _, _)
WriteNode(id, predicate, next) ==
  CASE predicate.kind \in {"AND", "OR"} ->
         LET left == WriteNode(next, predicate.left, next + 2)
             right == WriteNode(next + 1, predicate.right, left.next)
         IN [nodes |-> right.nodes @@ left.nodes @@
               (id :> [type |-> predicate.kind, left |-> next, right |-> next + 1]),
             next |-> right.next]
    [] predicate.kind = "NOT" ->
         LET child == WriteNode(next, predicate.child, next + 1)
         IN [nodes |-> child.nodes @@ (id :> [type |-> "NOT", child |-> next]),
             next |-> child.next]
    [] OTHER -> [nodes |-> id :> [type |-> "LEAF", rule |-> predicate], next |-> next]

\* writeLogicalPredicate; nothing is written for no predicate.
Written_RootUncounted(predicate) ==
  IF predicate = NoPredicate THEN << >> ELSE WriteNode(1, predicate, 1).nodes
Written(predicate) ==
  IF predicate = NoPredicate THEN << >> ELSE WriteNode(1, predicate, 2).nodes

RECURSIVE ReadNode(_, _)
ReadNode(nodes, id) ==
  CASE nodes[id].type \in {"AND", "OR"} ->
         [kind |-> nodes[id].type, left |-> ReadNode(nodes, nodes[id].left),
          right |-> ReadNode(nodes, nodes[id].right)]
    [] nodes[id].type = "NOT" -> [kind |-> "NOT", child |-> ReadNode(nodes, nodes[id].child)]
    [] OTHER -> nodes[id].rule

\* ReflectionDynamicConfig.loadConfig: a discount without a predicate is for everybody.
AppliesTo(discount, client) ==
  discount.params = << >> \/ Test(ReadNode(discount.params, 1), client)

-----------------------------------------------------------------------------
(* offer/: an item has a base price, a final price and its modifications *)

Offered(item) == [product |-> item.product, base |-> item.base, final |-> item.base, trail |-> <<>>]
Apply(item, price) == [item EXCEPT !.final = price, !.trail = Append(@, price)]
Percent(amount, p) == (amount * p) \div 100

\* functors/predicates/: a comparison of quantities is not written yet.
Concerns(predicate, item) ==
  \/ predicate.kind = "MoreExpensiveThanPredicate" /\ item.base >= predicate.amount
  \/ predicate.kind = "ItemIdPredicate" /\ item.product = predicate.product

NewPrice(applier, item) ==
  CASE applier.kind = "Amount" -> item.final - applier.amount
    [] applier.kind = "FixedPrice" -> applier.amount
    [] applier.kind = "PercentageAccumulated" -> item.final - Percent(item.final, applier.percent)
    [] applier.kind = "PercentageFromBase" -> item.final - Percent(item.base, applier.percent)

\* EmptyGuardian is a margin nobody set.
Guards(guardian, item) ==
  guardian.kind = "EmptyGuardian" \/ item.final >= Percent(item.base, guardian.minMargin)

\* ConfigurableItemModifier.modify: the guardian judges the item as it would become,
\* and a price that stays the same is no modification.  A plain percentage is always
\* taken off the base price, whatever was taken off before.
ModifyItem(item, modifier) ==
  IF modifier.kind = "PercentageOfferItemModifier"
  THEN Apply(item, item.base - Percent(item.base, modifier.percent))
  ELSE LET changed == Apply(item, NewPrice(modifier.applier, item))
       IN IF /\ Concerns(modifier.predicate, item)
             /\ changed.final # item.final
             /\ Guards(modifier.guardian, changed)
          THEN changed ELSE item

\* createDiscountModifier3: the chain of the discounts for a client, in the order of
\* the repository, applied to an item.
ModifiersFor(client) ==
  LET chosen == SelectSeq(discounts, LAMBDA d : AppliesTo(d, client))
  IN [i \in DOMAIN chosen |-> chosen[i].modifier]
OfferTo(client, item) == FoldLeft(ModifyItem, Offered(item), ModifiersFor(client))

-----------------------------------------------------------------------------

DInit == discounts = <<>> /\ meant = <<>>

SaveDiscount ==
  /\ Len(discounts) < MaxDiscounts
  /\ \E m \in Modifiers, predicate \in Predicates :
       /\ discounts' = Append(discounts, [modifier |-> m, params |-> Written(predicate)])
       /\ meant' = Append(meant, predicate)

-----------------------------------------------------------------------------
(* Properties *)

FromBase(modifier) ==
  /\ modifier.kind = "ConfigurableItemModifier"
  /\ modifier.applier.kind \in {"Amount", "PercentageFromBase"}
  /\ modifier.guardian.kind = "EmptyGuardian"
TakenOff(modifier, item) ==
  IF ~Concerns(modifier.predicate, item) THEN 0
  ELSE IF modifier.applier.kind = "Amount" THEN modifier.applier.amount
  ELSE Percent(item.base, modifier.applier.percent)
Guarded(modifier) ==
  modifier.kind = "ConfigurableItemModifier" /\ modifier.guardian.kind = "MarginGuardian"

\* Every client gets the discounts that were meant for him, after their predicates
\* were taken apart, stored and put together again; and what is offered then follows
\* from them: as many discounts as are stacked, a price that changed stays within
\* the lowest margin of those that guard one, and discounts on the base price add up
\* in whatever order the repository has them (ReflectionBeanWriter and -Reader,
\* OfferItemModifierFactory.createDiscountModifier3, ConfigurableItemModifier.modify).
DiscountsAreAsMeant ==
  \A client \in Clients :
    /\ \A i \in DOMAIN discounts :
         AppliesTo(discounts[i], client) <=> (meant[i] = NoPredicate \/ Test(meant[i], client))
    /\ \A item \in Items :
         LET chain == ModifiersFor(client)
             offer == OfferTo(client, item)
         IN /\ (offer.trail # <<>> /\ \A i \in DOMAIN chain : Guarded(chain[i])) =>
                 \E i \in DOMAIN chain :
                   offer.final >= Percent(item.base, chain[i].guardian.minMargin)
            /\ (\A i \in DOMAIN chain : FromBase(chain[i])) =>
                 offer.final = item.base -
                   FoldLeft(LAMBDA sum, m : sum + TakenOff(m, item), 0, chain)
=============================================================================
