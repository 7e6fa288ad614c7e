# Software archetypes: TLA+ models and proofs

Models of the packages of this repository (a TypeScript monorepo of eleven
packages), the TLC runs that check them, and TLAPS proofs about the core.
Every definition translates code of `src/`; `PROJECT.json` names the lines.

## 1. Inventory of the system

All code is synchronous and keeps its state in in-memory repositories that hand
out *live objects*: a call is atomic for other calls, but a call that throws or
returns a failure keeps what it changed before. The hard behaviour therefore
lies in the interleaving of calls of several users and of the clock, in what a
client keeps between two calls (ids, built transactions), in calls that fail
halfway, in external services that refuse or throw, in events whose observers call
back, in definitions that change under the objects made of them, and in searches
whose answer must not depend on the order in which their input was put together.

| component | state | operations | interacts with | what makes it correct |
|---|---|---|---|---|
| inventory/availability | per availability: one blockade, or (pool) several and a withdrawn quantity; repository in insertion order | register, lock (by id, by resource, by slot), unlock (by availability, by blockade), releaseExpired, withdraw, replenish | locked by inventory entries and by owners directly; reads a clock | nobody loses a running lock to somebody else; pools are not oversold; timed locks lapse without a sweeper |
| inventory/availability: composite | per composite: component -> blockade id | lock with rollback, unlock, sweep | calls the component availabilities, which others use too | all parts or none; a granted whole can be given back |
| inventory/availability: grouped | the slots of one resource | block with rollback, release, queries | the slots are also locked one by one | a stay keeps all its slots; a group used as a group has one holder |
| inventory entries | instances, instance -> resource | create, map, remove, handleLock | facade of availability | an entry locks the resource meant and rolls back what it cannot complete |
| inventory/reservation | reservations with blockade ids | handle, cancel | entries, availability | CONFIRMED reservations own their blockades, nothing is left over |
| inventory/waitlist | bounded queue, quota counters | add, poll, selectNext, remove, reset | none | nobody lost, overtaken or served beyond the quota |
| accounting ledger | accounts with balance and noted entries; entry and transaction repositories | create, build, execute, reverse, compensate, queries | publishes entry events | books balance; balances, entries and transactions agree |
| accounting/postingrules | rules; the events an account has not handed over; nested calls | save and delete rules, react to entry events with transactions | event publisher, ledger, and through both itself | each rule follows each entry once and in order, and a rule that throws takes no more with it than its call |
| ordering | orders, lines, parties of both, status | create, add/remove/change line, price, confirm, cancel, fulfillment events | inventory, payment, pricing and fulfillment services | no payment after one that is known; what is started is covered; cancellations are agreed; roles reach the lines they are meant for |
| pricing | calculators and components by name; components hold their versions and the components they are made of | add calculator, define versions, calculate | none | the version that starts last applies; composites follow their parts; a price is the same in total, per item and on the average |
| product | types, catalog entries, relationships, instances, packages | define, offer, discontinue, update, relate, make instances and packages, search | all hold type objects | offers have the dates they were last given; packages hold what their rules ask for; applicability is consistent |
| party | parties, roles, addresses, relationships, events noted | commands of three facades | publishes events | whoever subscribes ends up with what the repositories hold |
| party: capabilities | capabilities of parties | add, remove, ask who may play a role | parties; reads the clock | a role is covered when one running capability covers each of its requirements |
| graphs/cycles | slots with owners, eligible transfers, collected requests | collect, mark, execute a batch along a cycle | slot repository, which hands out copies | a cycle is found if there is one; a batch exchanges all its slots or none |
| graphs/scheduling | steps and dependencies; conflicts | build a schedule, assign environments | none | every step once and in order; conflicting steps apart |
| graphs/influence | edges between processes, laboratories, units | build a map, find zones, conflicts and critical reservations | none | zones and cut vertices are those of the graph |
| graphs/userjourney | states and conditions | add, fulfil a condition, look for ways | none | the way that is offered leads there and none is lighter |
| planvsexecution | active plan, rules applied once | analyse what was paid or produced, apply rules | none | every payment used once; the statistics add up; rules change what they say and no more |
| rules: scoring | none | evaluate expressions with three algebras, rules per event | none | the three answers fit together |
| rules: discounting | discounts as parameters | save, choose for a client, chain | clients of another system | the discounts a client gets are those meant for him |
| common, quantity | none | Result, Version, Money, Quantity | used by all | - |

The hazards, each with its line and the properties about it, are the list
`hazards` of `PROJECT.json`.

## 2. Modules

| module | models | composed of |
|---|---|---|
| `Blockades` | a blockade and its lock duration | - |
| `Availability` | individual, temporal and pool availabilities, repository, facade | EXTENDS `Blockades` |
| `Lease` | abstract specification: items that an owner takes when free and that become free again | - |
| `Listing` | a finite set as a sequence in a strict order, elements of a sequence at some places | - |
| `Sums` | lemmas about sums over finite sets, lists of finite sets, folds, smallest and greatest elements | EXTENDS `Listing` |
| `CompositeAvailability` | composites over the availabilities | EXTENDS `Availability` |
| `GroupedAvailability` | the slots of a resource blocked and released together | EXTENDS `Availability` |
| `Reservations` | reservation facade and inventory entries over the availabilities | EXTENDS `Availability` |
| `BookingProofs` | theorems about `Availability`, `CompositeAvailability`, `GroupedAvailability` and `Reservations` | EXTENDS them and `Sums` |
| `WaitList` | the queue and its four policies | - |
| `WaitListProofs` | theorems about `WaitList` | EXTENDS `WaitList` |
| `Ledger` | accounts, transaction builders, execution | EXTENDS `Listing` |
| `LedgerProofs` | theorems about `Ledger` and `PostingRules` | EXTENDS `PostingRules`, `Sums` |
| `PostingRules` | rules that book on events of the ledger | EXTENDS `Ledger` |
| `Ordering` | orders, their parties and the services they call | - |
| `OrderingProofs` | theorems about `Ordering` | EXTENDS `Ordering` |
| `SlotSwaps` | change requests, eligibility, the search for cycles, batches of swaps | EXTENDS `Listing` |
| `InfluenceZones` | influence maps, zones, conflicts, critical reservations | - |
| `Journeys` | states of customers, ways between them | EXTENDS `Listing` |
| `Scheduling` | processes and their schedules, environments for conflicting steps | EXTENDS `Listing` |
| `GraphsProofs` | theorems about `Scheduling`, `SlotSwaps` and `Journeys` | EXTENDS them and `Sums` |
| `Parties` | commands on parties, addresses and relationships, and a subscriber | - |
| `Capabilities` | what parties are able to do, within which scopes, and the roles that require it | EXTENDS `Parties` |
| `ProductRules` | package rules, features, marks of instances | - |
| `ProductCatalog` | product types, offers, relationships, instances and packages | EXTENDS `ProductRules` |
| `Applicability` | the contexts that product types apply to | EXTENDS `ProductCatalog` |
| `PartiesProofs` | theorems about `Parties`, `Capabilities`, `ProductCatalog` and `Calculators` | EXTENDS them and `Sums` |
| `Calculators` | price calculators, ranges and adapters between interpretations | - |
| `Pricing` | versions of simple and composite components and what they cost | EXTENDS `Calculators` |
| `PlanDeltas` | the matching of a plan with what happened | EXTENDS `Listing` |
| `PaymentSchedules` | repayments: tolerances, rules, spreading and removing installments | EXTENDS `PlanDeltas` |
| `ProductionPlans` | production: tolerances, statistics, buffers | EXTENDS `PlanDeltas` |
| `PlansProofs` | theorems about `PaymentSchedules` and `ProductionPlans` | EXTENDS them and `Sums` |
| `Scoring` | expressions, one visitor with three algebras, rules per event | - |
| `Discounts` | predicates and how they are stored, modifiers of offered items and their chain | - |
| `MC*` | constants of the runs, and the composition where a run holds several components | - |

### How state and actions correspond to the code

*Availability.* An availability is an id with a `Kind`; `blockades[a]` holds the
ids of its blockade(s), `granted` every blockade ever created (the facts about one
never change), so a lock appends to `granted` and an id is a position in it.
`held` is not state of the code: it is what the owners know, the ids a lock gave
them and they did not unlock. `now` is the injected clock. `Lock` is the three
`lock` methods (they share the guard `Accepts`, and differ in replacing or adding
a blockade), `LockFirst` and `LockSlot` the lookups by resource and by slot
before it, `UnlockAt` and `UnlockFound` the two unlocks of the facade. A refused
request changes nothing and is no step. A pool whose withdrawals exceed what its
blockades leave has a negative `AvailableQuantity`; the code throws there, and
refuses locks in both readings.

*CompositeAvailability.* The direct users only unlock ids they were given
(`held`); the sweeper, the clock and other composites do what they like. The code
locks component by component within one call; `CompositeLocks` and
`CompositeRollsBack` are that call's two outcomes that change anything.

*GroupedAvailability.* `stays` is what `block` returned to its callers, an id per
slot. `ReleaseGroup` takes as many ids as there are slots, frees slot after slot, and
stops at the first that refuses. `singly` remembers that somebody took or gave
back a single slot past the group.

*Reservations.* `Reserve` and `ReserveFails` are `ReservationFacade.handle`
through `InventoryEntry.handleLock` down to the availabilities; `LockedInTurn` is how
far the night-by-night locking gets. A booking refused at its first lock changes
nothing. `validForMs` of a request is read nowhere in the code
(reserve-request.ts:73; inventory/README.md:12 asks for an expiration), so all locks
are indefinite and no clock ticks in this module.

*WaitList.* Queue elements are tickets because one entry object may be added
twice. `served`, `removed` and `resetAt` are what an observer notes.

*Ledger.* A client builds a transaction and executes it later: `built` is what
clients hold. `booked` and `balance` are the account objects, `ledger` and
`saved` the two repositories. An entry is named by its transaction and its
position; a client posts lines (`PostedLines`) of any amounts. The order in which
`saveAccounts` meets entries that are not saved yet, object by object, is
`FoundBefore`, by which `LedgerAfter` appends them. Foreign currency makes an execution
stop halfway, as
`Money.add` throws; `Noted` and `Counted` say what was done until then. Posting
dates are ticks, one tick is the granularity at which entries expire.

*PostingRules.* A transaction that is executed publishes its events before
`executeSingle` returns, and a rule that one of them sets off executes another one:
`stack` holds a frame per call that is publishing, with the rules still to ask and
the events still to hand over, and each step runs the top frame up to its next
call. Rules are chosen by `findEligibleRules` when the event arrives and asked
again when it is their turn. A rule that throws ends the publishing call above
it: the rest of its events are lost, the call is reported as failed (`refused`)
although its transaction is booked, and so are the remaining rules of the entry
that call was due to. `pending` are events of entries that were noted by a
transaction that failed, which the account hands over with its next transaction.

*Ordering.* `allocated`, `payments`, `started`, `told`, `stopped` and `reports` are
what the services know: an allocation is a line with the quantity asked for, a payment has
the amount asked for, its answer and whether the money was taken. The actions `Confirm`,
`ConfirmLacksStock`, `ConfirmUnpaid` and `ConfirmNotStarted` are the four ends of
`Order.confirm`. A call that throws may have done what was asked: a payment answered
PENDING or not at all ("LOST") may be captured at any time after (`TakeMoney`), and an
order whose fulfillment threw may have been started. An amount is made of the lines, with
the quantity that each was priced for; an order with a line without a price is charged
nothing. `modified` remembers the lines changed on a confirmed order. A failed line removal is the same step as a successful one, because the line is
gone either way. Reports are a set that never shrinks: they may arrive late, in
any order and again.  A modification that throws keeps what it changed. `parties`
are those of the order, a line has its own; `asked` is what the client sent with
a line, which no later command may lose.

*SlotSwaps.* `owner` is the slot repository, `requests` the list a client collects
and sends at once, `eligible` the graph of transfers, `result` the answer to the
last batch. `FindFirstCycle`, `Search` and `FromNode` are the depth-first search
with the visited set and the path that all starts share: `Deeper` is one call of
`findCycleDFS`, which goes through the edges of its node (`Tried`) and calls the
search that is one call less deep. A call visits a node, so calls as deep as there are
nodes are all there are (proved, `SearchEnds`). Repositories hand out
copies keyed by id *objects*: where requests share the ids of the repository
("shared") one copy of a slot is loaded, otherwise ("byObject") two, and the copy
that nobody changed is saved last; `Saved` is what is left.

*InfluenceZones.* The three builders add edges; the map crosses influences between
processes with pairs of laboratories, all or the adjacent ones, and adds the
constraints. The code keeps edges by keys; the order in which reservations were put
in decides where its searches start. `Zones` and `Cuts` are the two depth-first
searches, `Cuts` with discovery numbers, low points and the count of children of
the root.

*Journeys.* `From` and `GoTo` are the builder, `known` and `transitions` keep the
order of insertion because the first transition for a condition wins and the
first of the lightest ways is offered. `WaysToAchieve` collects all simple paths.
`dfs` of the code calls itself; the model tabulates what a call finds, from the state
it came to and those already met (`Visits`), by how much deeper it may still go, and
`AllPaths` goes as deep as there are states, which is enough (proved, `AllPathsLead`).

*Scheduling.* Steps of a process are *objects*, and two may have one name, by which
the sort goes: that is what `StepObjects` with its copies is for. `BuildSchedule` is the
queue of Kahn's algorithm, `Round` one turn of its loop; as no name is queued twice, the
loop is over after a round for each name (proved, `SortedIsSorting`). `Environments` is
the greedy colouring in the order of insertion. The type of a dependency is never read.

*Parties.* A party, an address list and a relationship are maps from fields to
their last values, and an event is a new value of a field, so the effect of an
event on a subscriber is the value it carries. `log` holds the events of an object,
which the code never clears: each command publishes all of them again. `view` is
an external subscriber; other observers may throw at any event, so that it gets a
prefix only and is `behind` until the next publication for the object ends. Identifiers
given at registration are objects, and equal ones stay side by side: `given` counts
them, `spare` those beyond one, and removing one of several is announced like the removal of
the last. A command on addresses names the party whose list it is about, and an address
names a party itself, which is the one its events tell of (`SetAddress`).
Commands that change nothing and only note that they were skipped are left out.

*Capabilities.* A capability is immutable; it is added for a known party and removed.
Scopes are records of a type with members, days and hours, a maximum per period
or a rank. Hours are texts: the code compares them as such (`NotAfter`), `SortsAt` is the order
of texts, `HourOf` what somebody means who writes one, and only for texts of two digits
(`Padded`) are the two assumed to agree. `SatisfiesAt` and `ScopeSatisfies` are the comparisons of the code, asked
at the clock `now`.

*ProductRules, ProductCatalog, Applicability.* An entry, an instance and a package hold
the type object they were made with; defining a product again puts another one in the
repository and changes none of them. Selection rules are trees: `SelectionRules` has
every rule with its parts, `Satisfied` is `isSatisfiedBy` of all of them, and as rules see a
selection only through how many it has of a set of products, it takes the counts of
all sets. Constraints are trees that `IsSatisfiedBy` evaluates. The values of an instance were made with
the types of its `source`, which may be an earlier version of the type that
validates it. `offered` remembers the dates that an entry was last given.

*Pricing.* Components are immutable in the code and nested values here: a composite
contains the components it was made of. `FindByName` is the lookup of the
repository, which replaces the children of a composite, but not theirs. A facade reads
its clock once; several facades are clocks of several values. Composites of ranges
look calculators up (`Followed`) whenever they are asked for a price or for the
interpretation of one. Money is an integer of its smallest units; an average is rounded
as the code rounds, half a unit up (`Divided`). A calculation that throws has the
price `Failed`. `p` is the parameter map, with the
time and one attribute (`tariff`) that applicability constraints look at.

*PlanDeltas, PaymentSchedules, ProductionPlans.* Planned items take, in turn, the
first group of items still left that the tolerance accepts: runs of neighbours by
length for payments, up to five batches of the product for production. An action is
an item that arrives or one analysis with everything it does: delta, statistics, the
rules it fulfils, their modifiers one after the other on the active plan, and
the rules that are used up.

*Scoring.* An expression grows step by step (`Extend`) and is evaluated with every
reading of the metrics in each state. `Accept` is the visitor, `ScoreOf`, `ExplainedOf`
and `FuzzyOf` are the algebras. Degrees are integers out of `Full`, exact for the
depths of the run.

*Discounts.* A saved discount is its modifier and the parameters of its predicate:
`WriteNode` takes a tree apart into nodes under generated ids, `ReadNode` puts it
together again. `meant` is the predicate itself. `OfferTo` chains the modifiers
chosen for a client over an item. Prices are chosen so that percentages are exact.

A definition named `X_Variant` before a definition `X` is a plausible mistake in
the code `X` translates (a dropped guard, an off-by-one). The specification never
uses it; replacing `X` by it must violate the property that `PROJECT.json` pairs
it with, which shows that the property depends on that code.

## 3. Runs

| run | properties | bounds |
|---|---|---|
| availability | `TypeOK` `HeldIsBlocked` `PoolNotOversold` `LeaseRefined` | 2 owners, one availability of each kind, 3 blockades, 1 tick |
| availability_resource | `ResourceHeldOnce` `TimedLocksLapse` | a seat and a slot registered twice, 2 blockades, 1 tick |
| composite | `WholeUntilReleased` `NothingStranded` `StaysAreWhole` | 2 composites sharing a room, or a group of two nights; 4 blockades (3 for the composites), 1 tick |
| reservations | `ConfirmedKeepsItsBlockades` `NoStrandedBlockade` `EachTicketOnce` `NoOvertaking` `QuotaKept` | 2 customers, 2 nights, a tank, 3 reservations, 4 blockades; or 3 waiting entries of 2 segments, 4 arrivals, capacity 3 |
| ledger | `BooksBalance` `BalanceIsReconstructible` `RulesFollowEntries` | 4 accounts, 6 postings, 3 transactions, 3 executions, 1 tick; or up to 3 rules out of 5, 7 transactions |
| ordering | `KnownPaymentIsTheLast` `StartedIsCovered` `CancellationIsAgreed` `PartiesReachTheirLines` | 1 order: 1 line, 2 quantities, 2 payments; or 2 lines of one quantity, 4 lists of parties for either, 1 payment |
| graphs | `CyclesAreFound` `SlotsAreExchanged` `ZonesAreSeparate` `WaysLead` `SchedulesAreSound` | 3 slots, 3 owners, lists of up to 3 of 4 requests, 4 transfers; 4 units, 4 edges; 3 states, 3 transitions; 3 step names, one twice, 3 dependencies; 4 steps in conflict |
| parties | `SubscriberCatchesUp` `RolesAreCovered` `OfferWindow` `PackagesHoldTheirRules` `AppliesConsistently` | 2 parties, one identifier given twice, 2 addresses that name either party, 2 events, 1 relationship; 2 capabilities out of 5, 4 texts for hours, 3 ticks; 2 products with 2 versions, 3 objects |
| pricing | `PricesAreUnambiguous` `CompositesFollowTheirParts` `VersionsChangeTheirTime` | 3 calculators out of 8, 4 components, 5 versions, 2 clocks, 3 instants, quantities up to 3 |
| plans | `PaymentsAreUsedOnce` `StatisticsAddUp` `BuffersAddedOnce` `SpreadsOnlyTheRest` `ScoresFitTogether` `DiscountsAreAsMeant` | 2 schedules, 3 payments, 8 tolerances; 3 batches, 4 tolerances; 7 terms under 2 operators; 2 discounts of 7 modifiers and 6 predicates, 3 clients |

Several runs hold components side by side that share nothing (MC modules
`MCCompositeAvailability`, `MCReservations`, `MCLedger`, `MCGraphs`, `MCParties`,
`MCPlans`). A behaviour is about one of them; the others stay in a fixed
configuration, which the initial and next-state predicates of the MC module
name, so that their states add up and do not multiply.

Why the bounds are enough: a lock is lost, doubled or replaced by two blockades
of two owners on one availability and a third that reveals it; a tick is enough
for a timed lock (duration 1) to run out before it is swept, and for a lock after
it. A midway failure needs two slots and one of them taken; four blockades allow a
complete stay, a failed one and one more. Overtaking takes three entries, and a
fourth arrival lets one entry object be queued twice. Compensation after a
redemption takes three transactions (grant, redemption, compensation), one
repetition takes a second execution. Rules reach three frames of nested calls with
seven transactions, with a rule that throws below one that goes on. Orders share
no state, so one is enough; two payments let a failed confirmation be repeated, and money be taken
for both; two quantities let a line be changed before and after it is priced, allocated
or paid; two lines let one be allocated or priced without the other. Cycles of two and three slots, and paths that lead into a cycle, need
three requests. Four units with four edges are chains, stars and rings, with a cut
vertex at the root of the search and below it. Three transitions are two ways to
one state, or a way with a cycle. Two events let a later value of a field overtake
an earlier one that was lost. Two capabilities cover a requirement in parts that must
not add up. Three objects are an entry, instance or package of each version of a
type. Five versions are a fee, a tax, a bill of both, a change of one of them and a
total. Three payments or batches in any order let one item take what another
needs, two analyses let a rule apply again. Two operators around a term put a
condition in a sum, a sum in a condition and a label in either. Two discounts
stack.

The bounds, all on counters and lists that the code does not bound: `MaxBlockades`,
`MaxTime`, `MaxReservations` (of the reservation facade, and of the reservations an
influence map analyses), `MaxArrivals`, `MaxWaiting` (the capacity the code has),
`MaxTransactions`, `MaxExecutions`, `MaxSetOff`, `MaxRules`,
`MaxRequests`, `MaxEdges`, `MaxTransitions`, `MaxAdditions`, `MaxEvents`,
`MaxRelationships`, `MaxNow`, `MaxQuantity`, `MaxObjects`, `MaxVersions`,
`MaxPayments` (of an order, and of a schedule), `MaxBatches`, `MaxTarget`, `MaxDepth`, `MaxWindow` and
`MaxDiscounts`. The MC modules add some, each named at its `MCNext`:

* composite: the theatre has one blockade less than the nights, composite requests
  come in three combinations of durations, and only one owner asks in the name of
  another;
* ordering: the parties of an order tell which of the two cases it is;
* reservations: only a waiting list whose policy reads the predicate of the caller
  is given one, quotas are reset after use, and the last ticket is left waiting;
* ledger: clients change rules no more after the first sale;
* graphs: transfers are marked before requests are collected, of three reservations or
  more no two are of one unit, and the states of a journey are known by their
  transitions but for the first;
* parties: the second party has addresses only where no party is registered, the last object is made without entries
  and relationships beside it, and capabilities are tried with parties whose
  registration was announced and that nothing else happens to;
* pricing: calculators are added first, and components are made of two of them.

Behaviours end at these bounds and where nothing is left to do, so deadlock is
checked only in *parties*, where some command is always possible.
Owners are symmetric wherever a run declares the symmetry; it is used for safety
only (`LeaseRefined` is a step property of observable holders, itself symmetric).

Fairness: only `TimedLocksLapse` needs it, and only `WF_vars(Tick)` is assumed:
real time goes on. No owner has to unlock and nobody has to sweep, because no
code schedules `releaseExpired`. Nothing else in the code runs by itself, so no
other liveness is claimed.

Conditions in properties that hold, and what lies behind them:

* `HeldIsBlocked`, `WholeUntilReleased`, `StaysAreWhole` and
  `ConfirmedKeepsItsBlockades` exempt blockades that the *same owner's* next lock
  replaced (`Superseded`); run *reservations_double* shows what that replacement
  leads to.
* `NothingStranded` exempts parts that a composite request asks for in another
  owner's name (`OwnName`): the rollback unlocks in the name of the composite owner.
* `StaysAreWhole` demands one holder of all slots only while nobody used a
  single slot (`singly`): with a slot taken back singly, a release stops there and
  leaves the rest of the stay blocked, with a failure as its answer.
* `PoolNotOversold` compares what is blocked with the whole capacity: a withdrawal
  never looks at the blockades, so the available quantity may become negative, and no
  lock is granted then.
* `BooksBalance` and half of `BalanceIsReconstructible` hold as
  long as no execution stopped halfway on a foreign currency (`NoneFailed`); after
  one, cash can be debited without revenue credited, and the next transaction of the
  account saves entries of a transaction that is not in the repository. The balance
  of an account is also parted from its entries by executing one transaction
  object twice (`Repeated`): the account counts twice, the repository keeps one.
* `RulesFollowEntries` asks for the complete set of followers only where no publishing
  call was ended by a rule (`refused`), and for rules that look at the entry alone
  (`OfEntry`): a rule that reads a balance is asked again after the rules before it
  have booked.
* `KnownPaymentIsTheLast` holds although a throwing fulfillment service turns a
  confirmation into a failure: the order is CONFIRMED by then. A repeated confirmation
  is refused, and the order may have no fulfillment. It does *not* say that a customer is
  charged once: when a payment is answered PENDING, or `authorizeAndCapture` throws, the
  order stays a draft and forgets it, and the confirmation that is repeated asks again with
  a request that names only the order. If the service captures the first payment after
  all, the customer has paid twice, and nobody calls `refund`. The property says that
  this is the only way; the run reaches it.
* `StartedIsCovered` exempts the new quantity of a line that was changed on the confirmed
  order (`modified`): `changeLineQuantity` asks for no stock and no money, and no code asks
  for the approval that order-status.ts:23-27 speaks of. Such a line is only known to
  be allocated in some quantity. Of an order that had a line without a price,
  `confirm` charges zero (order.ts:151), and its lines are only known to be allocated.
  Stock allocated by a confirmation that failed is never released and asked for again by the
  next: allocations are a set, and the property has no upper bound on them.
* `CancellationIsAgreed` says that the
  service was told, not that it heard: it may throw, and a second cancellation is
  refused.
* `SlotsAreExchanged` is about exchanges (`Exchange`): everybody who moves owns what he
  leaves, the slots exist and, where cycles are looked for among owners, nobody has two
  slots. The code checks none of this: a list of requests kept over several batches
  takes slots from owners who asked for nothing. When ids are equal but not the same
  object, a batch that reports success changes nothing.
* `WaysLead`: the last step of a way that is offered is taken by `onFulfilled` only
  where no condition leads from one state to two (`OneWayOn`); the first
  transition wins.
* `SchedulesAreSound`: two step objects of one name are taken for a cycle
  (Process.ts:92 compares their number with that of the sorted names), and a step that is
  in conflict with itself gets an environment all the same.
* `SubscriberCatchesUp` exempts objects whose last publication did not get to the end
  (`behind`); the next command on a party or its addresses heals it, nothing
  publishes a relationship again. A registration that was lost is never repeated: of
  such a party the subscriber knows the fields that changed since. Where the code misleads
  a subscriber, the property says nothing: of an identifier that was given more than once
  at registration (`GivenAgain`) while one of the equal objects is there, since the
  removal of another was announced as its removal (party.ts:60, 121-124); and of
  addresses that name another party than the one in whose list they are, which nothing
  compares (addresses-facade.ts:29-34), and of those whose events these can overwrite
  (`NamesItself`). Without either exemption the run finds the disagreement.
* `RolesAreCovered`: any QUANTITY scope satisfies a requirement without a limit
  (`WithoutLimit`, operating-scope.ts:48), also a scope that has one. The hours of a
  temporal scope may end before they start (`PastMidnight`, the constructor checks the
  days only), and `satisfies` compares both ends all the same: 8 to 18 covers 10 to 5.
  Hours are texts of any form and compared as texts (`NotPadded`): '9:00' is after
  '10:00', so a scope from 9:00 to 18:00 does not satisfy a requirement from 10:00 to
  12:00. Of such requirements and scopes (`Exempt`) the property says nothing.
* `AppliesConsistently` says what knowing more of a context does only for constraints
  whose tests are all below an even number of negations, or all below an odd one: of
  others either may be true.
* `PackagesHoldTheirRules` speaks of the values of an instance only when they were made
  with the version of the type that validated it (`source`): the validation
  compares names, not values.
* `CompositesFollowTheirParts` and `VersionsChangeTheirTime` are about composites of
  simple components (`Flat`): the repository refreshes one level, so a composite of
  composites prices the parts of its parts as they were, until these are
  saved again. Amounts have one currency: the code prices a component that does
  not apply with zero PLN (Component.ts:127), which cannot be added to euros.
* `SpreadsOnlyTheRest` keeps the first installments only when those are the ones that
  were matched (`PaidInOrder`), and totals only when no rule removes any
  (`OnlySpreads`): the modifier counts matches.
* `ScoresFitTogether` itemises scores whose labels are not nested (`Itemised`), weighs
  expressions without sums and negative scores (`Weighable`), and reads as rules
  what is a sum of conditions (`IsRuleBook`).
* `DiscountsAreAsMeant` promises a least price for chains of guarded modifiers
  (`Guarded`), and independence of their order for modifiers that start from the
  base price (`FromBase`): an unguarded modifier after a guarded one goes below its
  margin, and a plain percentage forgets what was taken off before it.

Runs that show a disagreement between the code and what the repository says of it:

| run | statement | what happens |
|---|---|---|
| reservations_double | inventory/README.md:99: two customers never book the same car | a customer books twice (the lock is replaced), cancels one; another books; both are CONFIRMED |
| ledger_sweep | accounting/README.md:159: compensate the remaining points | with a compensation account the remaining amount does not change, and is swept again |

Three more disagreements are met by the same modules and have no run of their own. The
rollback of a failed stay of several nights can unlock a night of an earlier
reservation of the same customer (inventory/README.md:176 calls stays atomic), which
`NoStrandedBlockade` and `Superseded` allow for. A fifo redemption can choose a
grant that is used up (accounting/README.md:119), since allocation never looks at what
is left. The removal of the last line of an order is refused after the line is
gone (order.ts:99-100, order.spec.ts:319), a step of `Ordering`.

## 4. Proofs

Every theorem holds for all values of the constants that the `ASSUME` of its module
admits, so for any number of objects and any bounds, and is listed under `theorems`
in `PROJECT.json`. The assumptions say only of which type a constant is: that requests
name owners and quantities (`ReservationAssumption`, `CompositeAssumption`), that the
slots of a group are different and temporal and belong to one resource
(`GroupedAssumption`), that parties have known roles and at least one
(`OrderingAssumption`, party-in-order.ts:13), that scopes have what their constructors
check, and that times of two digits are in the order of texts (`CapabilitiesAssumption`, operating-scope.ts), that accounts are finitely many and posted
lines name one (`LedgerAssumption`), that rules name an account, an amount and tests of
the four kinds that there are (`RuleBookAssumption`), that payments have an instant and an amount and
batches a product and a quantity (`PaymentsAssumption`, `ProductionAssumption`), and that the
schedules a plan begins with are in ascending order, which their constructor demands
(payment-schedule.ts:8-15), and that the rules of a structure are among `SelectionRules` and
dates are positive, 0 being the open end (`CatalogAssumption`); of tolerances and thresholds nothing is assumed but that thresholds are numbers.
`SchedulingAssumption` says that the value that stands for a refusal is not a schedule,
`SlotSwapsAssumption` that requests name slots and owners and that the repository holds finitely many slots,
`JourneysAssumption` that weights are natural numbers, as costs and times are that callers weigh by
(WeightedPaths.spec.ts), and that the value for no way is not a way.
`CalculatorsAssumption` says that amounts and the ends of ranges are integers and that steps have a
size, which the code does not check: with a size of zero its prices are infinite. The binary
fractions in which the code computes before it rounds are not modelled.

Each safety property is proved from an inductive invariant: the initial states have
it, every action keeps it, and it implies the property. What the invariants add, and
why the property alone is not inductive:

| module, specification | theorems | what the inductive invariant adds |
|---|---|---|
| `BookingProofs`, `Spec` | `TypeCorrect`, `HeldStaysBlocked`, `ExclusiveStaysSingle`, `PoolsAreNotOversold` | `TypeOK` says that an availability keeps only blockades it granted, without which a replaced or swept set could hold a foreign id |
| same, `ResourceSpec` | `ResourcesAreHeldOnce` | `FirstIsLocked`: of several registrations of one resource or slot only the first is ever locked, and registering more does not change which is first |
| same, `Spec` | `AvailabilityImplementsLease` | the refinement of `Lease`, below |
| same, `CSpec` | `CompositesStayWhole`, `NothingIsStranded` | `RecordsAreGranted`: the ids of a composite are blockades of its components that no owner knows, so nobody unlocks them directly; `RecordsAreDisjoint`: no other composite gives them back |
| same, `TSpec` | `StaysRemainWhole` | `StaysAreGranted`: ids of a stay are consecutive and run out together; `SlotsAccept` and `OneStayOrNone`: without single locks a group is free or one stay, so a block that gets past the first slot gets past the last |
| same, `RSpec` | `ReservationsAreKept`, `NothingIsLeftLocked` | `BlockadesGranted`: to the owner of the reservation and indefinite, so a reservation's blockades cannot run out; `ReservationsDisjoint`: a cancellation gives back no other's; `OnlyRegisteredBlocked`: a cancellation finds what it unlocks |
| `WaitListProofs`, `WSpec` | `NobodyIsLost`, `NobodyIsOvertaken`, `QuotasAreKept` | `QueueInOrder`: the queue is sorted by the policy and, within it, by arrival; `CountIsKept`: the counter of a segment is the number of places given since its reset |
| `LedgerProofs`, `Spec` | `BooksAreBalanced`, `BalancesAreReconstructible` | `TransactionsAreBalanced`; `FailuresRepeat`: executing the same transaction again fails again, so whoever failed is never saved; `NotedWhenExecuted`, `LoggedOnce`: where entries are and that the repository has each once |
| same, `RuledSpec` | `RulesAreFollowed`, `BooksStayBalancedUnderRules`, `BalancesStayReconstructibleUnderRules` | `RulesInv`: `EventsOnce`, an event waits in one place and no more once its entry is looked at; `NothingDue`, a waiting event has set off nothing yet; `EventsAreOwn`, a call publishes its own entries and those of failed calls; `CallsAreNested`, a call is due to the entry that its caller looks at; `RulesLeft`, the rules that a call has yet to run come after those that it ran; `AllFollow`, what was eligible has run, runs or will run, or something failed before it |
| `OrderingProofs`, `Spec` | `OrderTypeCorrect`, `PaidIsNotChargedAgain`, `FulfillmentIsCovered`, `CancellationsAreAgreed`, `PartiesReachLines` | `DraftIsUnpaid`: what can still be confirmed was neither started nor told that a payment is captured; `RefusedIsNotTaken`: money is taken only by payments that were not refused; `PricesFit`: a calculated price is that of the quantity its line has; the three properties about services need each other (`ServicesInv`) |
| `PartiesProofs`, `PSpec` | `CatchUpCorrect` | `LogsFollow`: the last event about a field has its value; `UntoldIsKnown`: a field no event is about is known, even when publishing threw, so that repeating the events heals what was lost; `SparesAreGiven`: only an identifier that was given more than once has equal objects beyond one, and only while it is there |
| same, `ASpec` | `RolesArePlayedByTheAble` | `CapabilityInv`: capabilities are those of parties that are there, with scopes as constructed |
| same, `CSpec` | `OffersKeepTheirWindow`, `PackagesKeepTheirRules` | `CatalogInv`: entries, instances and packages hold type objects that were built; instances that packages name stay as they were; values are valid under the version of the type that they were made with |
| same, `CalcSpec` | `PricesStayUnambiguous` | `Calculating`: what composites ask for by name is in the repository, and their ranges do not overlap; a range that contains a value another one has overlaps it (`CommonValueOverlaps`), over midnight too |
| `PlansProofs`, `PSpec` | `PaymentsUsedOnce`, `SpreadingMovesOnlyTheRest` | `PaymentTypes`: whatever rules did to it, the active schedule is a sequence of dated amounts in ascending order, without which sorting would move installments that are paid; the delta is a new one at every analysis, so the argument is within the call: `Accounted` after the first n installments |
| same, `MSpec` | `StatisticsAlwaysAddUp`, `EachBufferOnce` | `ProductionTypes`, the targets and batches are whole quantities, which buffers preserve; within the call `Accounted` and `OwnProducts`; `OnceRulesUsed`: only rules of the plan are used up |
| `GraphsProofs`, `GSpec` | `SchedulesStaySound` | `BuildersInv`: dependencies and conflicts are between steps that were added, and each dependency is there once, or a degree would never come down to zero; within a build, `Sorting` after each round and `Coloured` after each step |
| same, `SSpec` | `CyclesStayFound`, `SlotsStayExchanged` | `SwapsInv`: requests are of those that can be asked for, slots have an owner or nobody and are finitely many; within a search `Begun` before each call and `Ended` after it, `Trying` between its edges |
| same, `JSpec` | `WaysKeepLeading` | `JourneyInv`: every transition leads to a known state, so no walk can leave what the depth of the search is counted by; within a search `Sound` and `Complete`, by the depth |

The steps worth reading:

* `HeldStep`: a lock of an exclusive availability overwrites, and `Accepts` says the
  overwritten blockade is expired or the same owner's. `GrantedIsStable` says that
  what is known of a blockade never changes, time only turns it from active to
  expired.
* `AvailabilityImplementsLease`: the refinement mapping is `holders`, the owner of the
  running blockade of each exclusive availability, `NoOwner` if none. A lock maps to
  `Take` or, by the owner itself, to a stutter; unlock, sweep and tick map to `Vacate`
  (`ShrinkVacates`) or a stutter; everything else to a stutter. It needs
  `ExclusiveIsSingle`: then the `CHOOSE` in `HolderOf` has one candidate.
* `NextIsElementary` reduces the lookups by resource, slot and blockade to the locks and
  unlocks on the object they find, so the proofs have one case per elementary
  operation. The modules that extend `Availability` have next-state relations of their
  own; their proofs reuse the step lemmas (`TypeStep`, `HeldStep`, `GrantedIsStable`),
  not the theorems.
* `RollbackKeepsInv`, `FailureKeepsInv`, `BlockGroupKeepsInv`, `ReleaseGroupKeepsInv`: operations
  that go through several objects and stop at one. Each has a lemma on how far it gets
  (`LeadingObtain`, `TakenIsLeading`, `FreedIsLeading`) and what it left behind.
* `SortedProperties`: the sort of the waiting list places each entry at its rank; ranks in
  a total order are a permutation (`RankIsPermutation`), stable for equal priorities.
  `ListsAll` says the same of every finite set listed in a strict order, as the ledger
  lists the entries it appends and the analyses the items that are left.
* `ExecutingKeepsTheBooks`: an execution that completes moves each balance by what its
  entries say, `TotalByGroup` adds these moves up over the accounts, and the balancing
  constraint says that this is zero. The sum of an account's entries in the repository
  moves by the same amount, unless the transaction is executed again.
* `SucceedingFollows`, `FailingFollows`, `ThrowingFollows`: the three ways in which a
  rule ends. A transaction that a rule books is pushed on the stack with the events of
  all accounts that it involves, those that failed calls left behind included; one that
  fails, and a rule that throws, end the rules of the entry they are due to, which
  `AllFollow` accounts for by the failed transaction (`EndedFollow`). Between them the
  three show that an event is published at most once and by a call that is still there,
  although accounts hand over events of transactions that are not theirs.
* `QuietStepsFollow`: steps that execute nothing only narrow the stack (`Narrows`): calls
  return, take the next event or drop rules. `EligibleAreListed` says that the rules
  found for an event are all that are eligible, in order of priority.
* `AppliedIsLatest`: applying events one after the other, the fold of the model, leaves
  for each field the value of the last event about it; `PublishingTells` is the step
  that parties and addresses share, where any number of first events may arrive.
* `ScopesCover`: comparing the ends of hours, amounts and ranks is the same as comparing
  what they permit, one lemma per kind of scope. For hours this takes that texts of two
  digits sort as the hours do.
* `CoveredWhenConfirmed`, `CoveredStays`: a confirmation asks for stock and money for the
  lines as they are then, and the draft cannot have changed between the two since the
  call is one step; afterwards lines only go or are changed, which `modified` notes
  (`StartedKeepsItsLines`).
* `SplitsCountAlike`: a package counted product by product has as many of any set of products
  as its lines have together (`TotalByGroup`, with a line's product as the group), so every
  rule, however it is composed, judges both alike (`SplitsAreJudgedAlike`).
* `AssignedIsAccounted`: one more planned item, with the group found for it or without,
  keeps the delta accounted for; `AnalyzeAccounts` and `AnalyzeProductionAccounts` take
  this along the fold over the plan, and `FirstRunIsGroup` says that a group holds
  items that were still left, each once. A payment that alone would settle a missed
  installment contradicts that the search found nothing then, since what is left
  only shrinks.
* `DifferenceAddsUp`: the deviations of the matches add up over the batches they own
  (`TotalByGroup`) and over the targets they serve (`TotalOfRenamed`), over-production less
  under-production is the sum of all deviations, and what is missed and left fills
  both sums up.
* `ItemsAddUp`: of a calculator that is not marginal, each item costs the total with it less
  the total without it, and these differences add up to the last total, item by item
  (`TotalOfOneMore`), although a composite may choose another calculator for each
  quantity; `ChosenIsDefined` says that following names ends at a calculator of the
  repository, and `DividedIsClosest` bounds what the average is off. A step of `PrSpec`,
  which the run checks, adds a calculator or leaves them as they are: what the theorem
  says of `CalcSpec` holds of it.
* `SpreadRemainingKeeps`: the new installments add up to what is left (`InstallmentsAreEven`,
  `AmountsOfEven`: equal shares, and what the division leaves over in the last one) and
  none is before the first that they replace, so the stable sort leaves the ones
  before in place and loses none (`InDateOrderSorts`). What each modifier keeps, a rule
  keeps (`ModifyKeeps`), and what each rule keeps, an analysis keeps (`RulesKeep`); the
  invariant uses these lemmas for schedules in order, the theorem for those of the
  same total and beginning (`SpreadFrom`). That the matched installments are the first
  ones is not needed: the modifier keeps as many as were matched.
* `BuffersInTwoGoes`: applying rules in two analyses adds the same as applying them in one, so
  the order that the property asks for is that of the earlier analyses followed by
  that of the last (`ListedTogether`), in which no rule occurs again (`FulfilledAreListed`).
* `RoundSorts`: a round takes a name from the queue, and the degree of a name is the number
  of its predecessors that are not done yet (`Sorting`), so what is freed was neither
  done nor queued before. Each round before the queue is empty does one more name,
  hence `SortedIsSorting`. In `ScheduleIsSorted` the names that are not done each wait
  for another of them, which is what `Deadlocked` says.
* `LeastIsFree`: of one number more than are taken, one is free, and there is a least. The
  environment of a new step is at most the number of its neighbours placed before
  (`NeighboursFillIn`), and the step in the last environment gives the bound
  (`EnvironmentsAreEnough`).
* `CallEnds`, `OneMoreTried`: a call of the search that finds nothing leaves its node
  settled, by which `Settled` means that edges from settled nodes lead to settled nodes and
  that no cycle is among them. Nodes of the path are visited but not settled, which is
  why a visited node off the path may be passed over and one on the path closes a cycle
  (`PathCloses`). At the end all nodes are settled (`FirstCycleIsFound`).
* `BatchIsRing`: the requests of a cycle leave and enter the same slots, each once; in a
  cycle of owners because nobody has a second slot to leave. Then giving each owner the
  slot he asked for is one-to-one between his slots before and after
  (`RingKeepsShares`), and slots loaded twice are counted as such (`CopiesWin`).
* `CompleteStep`: a walk to the target may meet states again; cut after the last time that
  it is in the state it first goes to (`CutAtLast`), what remains never comes back there and is
  lighter by the first condition at least (`RestWeighsLess`), so the next call, with
  this state met and one state fewer left, finds a way that is no heavier. This is why
  weights must not be negative. `SoundStep` is the converse, every way is that of a walk.
* `EffectiveRoles`: merging takes from the order exactly the roles a line does not name.

Sums. The models add up with `MapThenSumSet`, which folds a recursive function over a
set, and induction over data cannot be used. `Sums` counts instead: a sum of natural
numbers is the cardinality of the set of units of its elements, and a sum of integers is
the units of its gains less those of its losses; the library's facts about
cardinality then say what one more element does. Where an induction over finite sets
cannot be avoided, a set on which the formula fails has a smallest subset on which it
fails (`MinimalSubset`), which leads to a contradiction. Folds over a sequence that
step from one state to the next are treated alike: some function on the sets 1..n does
what the fold does (`FoldExists`), the recursive definition chooses such a
function, and `FoldsInTurn` reads it as one state after each place, along which an
invariant of the steps is carried.

Only model-checked, and why:

* `TimedLocksLapse`: liveness is out of reach of the prover.
* `ZonesAreSeparate`, `AppliesConsistently`, `CompositesFollowTheirParts`, `VersionsChangeTheirTime`,
  `ScoresFitTogether` and `DiscountsAreAsMeant`: their modules hold or reach
  recursive operators, translated from recursive code. The prover cannot treat such
  modules; what these operators compute is checked against reference definitions over
  all small inputs.
* `NoDoubleBooking` and `SweptOnce` are refuted by TLC, see the runs above.

## 5. Not modelled, and the plan

Not modelled, because no property of the control depends on it:

* formatting and parsing of ids, checksums (ISBN, serial numbers, national ids), texts
  and search by text, rounding of products of money, metadata, read-only views and query filters,
  test fixtures and assertion helpers;
* projections in accounting (accounts that read the entries of others);
* instance data of the inventory (serials, batches, features) and quantities of
  product instances with their units;
* the specification of order lines and the arithmetic of their prices;
* in pricing, calculators that depend on time or compute interest, breakdowns, and
  the update strategies other than the one the facade uses;
* composites of composite availabilities.

Not modelled, because it is not meant to be used as it is:

* `planvsexecution`: the folders `resolutionmismatch` and `badimplementation` (examples
  of what not to do), and the explanations of a match;
* `rules`: sample configurations, `SimpleScoringAlgebra` and `ExpressionEvaluator` (a
  second evaluator without types), `createDiscountModifier` and
  `createDiscountModifier2` (fixed percentages by status), and `QuantityPredicate`,
  which always answers false although rules/README.md:98 shows a discount by quantity.

Modelled without a property: updates of addresses (addresses.ts:69) compare the details
only, and no document or test says what they must keep.

What the plan has left are proofs about the modules with recursive operators, which need
these operators as folds first.
