-------------------------------- MODULE Ledger --------------------------------
(***************************************************************************)
(* The accounting package: accounts, transactions, the builders that make  *)
(* them and the AccountingFacade that executes them.                       *)
(*                                                                         *)
(* A client builds a transaction in one call and executes it in another,   *)
(* so what a builder read may be stale by then, and one built transaction  *)
(* can be executed again.  The handlers of the facade do both in one call. *)
(* An entry is named by its transaction and its place in it.               *)
(***************************************************************************)
EXTENDS Integers, SequencesExt, Listing

CONSTANTS
  Accounts,        \* AccountIds
  OffBalance,      \* the accounts without double-entry booking
  BaseCurrency,    \* currency of Money.zeroPln(), in which every account starts
  Postings,        \* line sequences that clients post
  Compensations,   \* accounts that clients name as compensation account
  MaxTransactions, \* bound on the transactions built in a behaviour
  MaxExecutions,   \* bound on the executions in a behaviour
  MaxTime          \* bound on the clock

\* What clients write: an amount per account, and which entry it is applied to.
PostedLines ==
  [account : Accounts, kind : {"debited", "credited"}, money : Int, currency : STRING,
   validTo : Nat, allocate : {"NONE", "MANUAL", "FIFO", "LIFO"}, onlyValid : BOOLEAN]

ASSUME LedgerAssumption ==
  /\ IsFiniteSet(Accounts)
  /\ OffBalance \subseteq Accounts
  /\ Compensations \subseteq Accounts
  /\ MaxTransactions \in Nat
  /\ MaxExecutions \in Nat
  /\ MaxTime \in Nat
  /\ Postings \subseteq Seq(PostedLines)

VARIABLES
  accounts,  \* ids of the accounts in the account repository
  built,     \* the transactions built so far, by id
  saved,     \* ids in the transaction repository
  booked,    \* entries of each account object
  balance,   \* balance of each account object, in BaseCurrency
  ledger,    \* the entry repository, in insertion order
  executions, \* ids of the transactions executed, one after the other
  now        \* the clock of the facade

vars == <<accounts, built, saved, booked, balance, ledger, executions, now>>

\* No transaction was built yet.
NewBooks ==
  /\ built = <<>>
  /\ saved = {}
  /\ booked = [a \in Accounts |-> <<>>]
  /\ balance = [a \in Accounts |-> 0]
  /\ ledger = <<>>
  /\ executions = <<>>
  /\ now = 0

Init == accounts = {} /\ NewBooks

DoubleEntry == Accounts \ OffBalance
Transactions == 1..Len(built)
Attempted == ToSet(executions)
Forever == MaxTime + 1
NoEntry == <<0, 0>>

EntryOf(id) == built[id[1]].entries[id[2]]

\* AccountDebited.amount negates.
Amount(e) == IF e.kind = "debited" THEN -e.money ELSE e.money

\* The amounts of the entries at the places S, added up
SumAt(entries, S) == MapThenSumSet(LAMBDA n : Amount(entries[n]), S)

\* The same for the entries at the places S of the entry repository
SumLogged(S) == MapThenSumSet(LAMBDA n : Amount(EntryOf(ledger[n])), S)

-----------------------------------------------------------------------------
(* Builders *)

\* Validity.isValidAt and hasExpired
ValidAt(e, t) == e.validFrom <= t /\ t < e.validTo
HasExpired(e, t) == t >= e.validTo

\* EntryAllocations.findAllocationFor: the fifo filter sorts the entries of an
\* account by the time they apply, the lifo filter the other way, and ties keep the
\* order of the repository.  A filter may ask for entries valid at a time.
Candidates(line, at) ==
  {n \in 1..Len(ledger) :
     LET e == EntryOf(ledger[n]) IN
     e.account = line.account /\ (line.onlyValid => ValidAt(e, at))}

Allocated(line, at) ==
  LET Key(n) == EntryOf(ledger[n]).appliesAt
      Goes(m, n) ==
        \/ line.allocate = "FIFO" /\ Key(m) < Key(n)
        \/ line.allocate = "LIFO" /\ Key(m) > Key(n)
        \/ Key(m) = Key(n) /\ m <= n
      Firsts(found) == {ledger[m] : m \in {n \in found : \A k \in found : Goes(n, k)}}
  IN CASE line.allocate = "NONE" -> {NoEntry}
       [] line.allocate = "MANUAL" -> {ledger[n] : n \in 1..Len(ledger)}
       [] OTHER -> UNION {Firsts(found) : found \in {Candidates(line, at)}}

\* findEntryAllocation throws when there is no entry, or it is not valid when the
\* transaction applies; whether the entry was used up already is not asked.
Allocations(line, at) ==
  {id \in Allocated(line, at) : id # NoEntry => ValidAt(EntryOf(id), at)}

\* creditTo and debitFrom
EntryFor(line, at, ref) ==
  [account |-> line.account, kind |-> line.kind, money |-> line.money,
   currency |-> line.currency, appliesAt |-> at, validFrom |-> 0,
   validTo |-> line.validTo, appliedTo |-> ref]

\* BALANCING_CONSTRAINT: adding an amount of another currency throws.
Balanced_CountsAnyAccount(entries) ==
  SumAt(entries, 1..Len(entries)) = 0
Balanced(entries) ==
  LET D == {n \in 1..Len(entries) : entries[n].account \in DoubleEntry} IN
  /\ \A n \in D : entries[n].currency = BaseCurrency
  /\ SumAt(entries, D) = 0

\* The build() of every builder: all accounts exist and the constraint holds.
Buildable(entries, existing) ==
  /\ \A n \in 1..Len(entries) : entries[n].account \in existing
  /\ Balanced(entries)

\* What posting p with the allocations refs builds.
PostingTx(p, at, refs) ==
  [type |-> "POSTING", ref |-> 0,
   entries |-> [n \in 1..Len(p) |-> EntryFor(p[n], at, refs[n])]]

AllocationChoices(p, at) ==
  {refs \in [1..Len(p) -> UNION {Allocations(p[n], at) : n \in 1..Len(p)}] :
     \A n \in 1..Len(p) : refs[n] \in Allocations(p[n], at)}

PostingTxs(p, at) == {PostingTx(p, at, refs) : refs \in AllocationChoices(p, at)}

\* ReverseTransactionEntriesBuilder: every entry turned round, valid for ever and
\* applied to the one it reverts.
Opposite(kind) == IF kind = "credited" THEN "debited" ELSE "credited"

ReversalTx(t, at) ==
  [type |-> "REVERSAL", ref |-> t,
   entries |-> [n \in 1..Len(built[t].entries) |->
     [built[t].entries[n] EXCEPT
        !.kind = Opposite(@), !.appliesAt = at, !.validFrom = 0, !.validTo = Forever,
        !.appliedTo = <<t, n>>]]]

\* calculateRemainingAmount: all entries that reference this one, those of the
\* compensation account included.
Remaining(id) ==
  Amount(EntryOf(id)) +
    SumLogged({n \in 1..Len(ledger) : EntryOf(ledger[n]).appliedTo = id})

\* ExpirationCompensationTransactionEntriesBuilder: move what remains of an expired
\* entry to the compensation accounts named, one or none.
CompensationTx(id, at, compensation) ==
  LET e == EntryOf(id)
      Part(a, kind) ==
        [account |-> a, kind |-> kind,
         money |-> IF Remaining(id) < 0 THEN -Remaining(id) ELSE Remaining(id),
         currency |-> BaseCurrency, appliesAt |-> at, validFrom |-> 0,
         validTo |-> Forever, appliedTo |-> id]
      own == <<Part(e.account, Opposite(e.kind))>>
  IN [type |-> "EXPIRATION_COMPENSATION", ref |-> 0,
      entries |-> own \o [n \in 1..Len(compensation) |-> Part(compensation[n], e.kind)]]

-----------------------------------------------------------------------------
(* Executing *)

\* Transaction.execute goes account by account, in the order of their first entry.
\* Account.addEntries notes all entries of the account before it adds them up, and
\* adding an amount of another currency throws: what was done until then stays.
Group(entries, n) ==
  CHOOSE m \in 1..n :
    /\ entries[m].account = entries[n].account
    /\ \A k \in 1..(m - 1) : entries[k].account # entries[n].account

Mismatches(entries) == {n \in 1..Len(entries) : entries[n].currency # BaseCurrency}

Executes(entries) == Mismatches(entries) = {}

\* The last entry that Transaction.execute looks at, by group and then by place.
Stops(entries, n) ==
  /\ n \in Mismatches(entries)
  /\ \A m \in Mismatches(entries) :
       \/ Group(entries, n) < Group(entries, m)
       \/ Group(entries, n) = Group(entries, m) /\ n <= m

Noted(entries, n) ==
  \A m \in 1..Len(entries) :
    Stops(entries, m) => Group(entries, n) <= Group(entries, m)

Counted(entries, n) ==
  \A m \in 1..Len(entries) :
    Stops(entries, m) => \/ Group(entries, n) < Group(entries, m)
                         \/ Group(entries, n) = Group(entries, m) /\ n < m

Involved(entries) == {entries[n].account : n \in 1..Len(entries)}

\* The ids of the entries at some places of transaction t, one after the other
IdsAt(t, places) ==
  LET ids == {<<t, n>> : n \in places}
  IN ListedBy(ids, {pair \in ids \X ids : pair[1][2] < pair[2][2]})

BookedAfter(t, entries) ==
  [a \in Accounts |-> booked[a] \o
     IdsAt(t, {n \in 1..Len(entries) : entries[n].account = a /\ Noted(entries, n)})]

BalanceAfter(entries) ==
  [a \in Accounts |-> balance[a] +
     SumAt(entries, {n \in 1..Len(entries) :
                       entries[n].account = a /\ Counted(entries, n)})]

\* saveAccounts saves every entry that the account objects involved ever noted, object
\* by object; saving one again changes nothing.
FoundIn(id, entries, objects) ==
  Min({n \in 1..Len(entries) : id \in ToSet(objects[entries[n].account])})
FoundAt(id, object) == Min({m \in DOMAIN object : object[m] = id})

FoundBefore(x, y, entries, objects) ==
  LET i == FoundIn(x, entries, objects)
      j == FoundIn(y, entries, objects)
      object == objects[entries[i].account]
  IN i < j \/ (i = j /\ FoundAt(x, object) < FoundAt(y, object))

\* The ids S in the order in which the account objects of the entries hold them
ObjectByObject(S, entries, objects) ==
  ListedBy(S, {pair \in S \X S : FoundBefore(pair[1], pair[2], entries, objects)})

LedgerAfter_NewestOnly(entries, objects) ==
  Append(ledger, Last(objects[Last(entries).account]))
LedgerAfter(entries, objects) ==
  LET unsaved == (UNION {ToSet(objects[a]) : a \in Involved(entries)}) \ ToSet(ledger)
  IN ledger \o ObjectByObject(unsaved, entries, objects)

\* AccountingFacade.executeSingle of transaction t
ExecuteSingle(t, entries) ==
  /\ executions' = Append(executions, t)
  /\ booked' = BookedAfter(t, entries)
  /\ balance' = BalanceAfter(entries)
  /\ IF Executes(entries)
       THEN saved' = saved \cup {t} /\ ledger' = LedgerAfter(entries, booked')
       ELSE UNCHANGED <<saved, ledger>>

-----------------------------------------------------------------------------
(* Operations *)

\* createAccount, and createAccounts for several: nothing is created when one of
\* them exists.
CreateAccounts(new) ==
  /\ new \cap accounts = {}
  /\ accounts' = accounts \cup new
  /\ UNCHANGED <<built, saved, booked, balance, ledger, executions, now>>

\* createAccountsWithInitialBalances: plain lines, valid for ever; the accounts stay
\* when the initial transaction cannot be built or fails.
CreateWithBalances(new, p) ==
  LET lines == [n \in 1..Len(p) |-> [p[n] EXCEPT !.validTo = Forever]]
      tx == PostingTx(lines, now, [n \in 1..Len(p) |-> NoEntry]) IN
  /\ new \cap accounts = {}
  /\ accounts' = accounts \cup new
  /\ IF Buildable(tx.entries, accounts')
       THEN built' = Append(built, tx) /\ ExecuteSingle(Len(built) + 1, tx.entries)
       ELSE UNCHANGED <<built, saved, booked, balance, ledger, executions>>
  /\ UNCHANGED now

Keep(tx) ==
  /\ Buildable(tx.entries, accounts)
  /\ built' = Append(built, tx)

\* transaction()...executing()...build(); a client may date it back or forward.
Build(p, at) ==
  /\ \E tx \in PostingTxs(p, at) : Keep(tx)
  /\ UNCHANGED <<accounts, saved, booked, balance, ledger, executions, now>>

\* transaction()...compensatingExpired(id)...build(): null when nothing remains.
BuildCompensation(id, compensation) ==
  /\ HasExpired(EntryOf(id), now)
  /\ EntryOf(id).currency = BaseCurrency
  /\ Remaining(id) # 0
  /\ Keep(CompensationTx(id, now, compensation))
  /\ UNCHANGED <<accounts, saved, booked, balance, ledger, executions, now>>

\* The same, and executed by the client at once.
Compensate(id, compensation) ==
  LET tx == CompensationTx(id, now, compensation) IN
  /\ HasExpired(EntryOf(id), now)
  /\ EntryOf(id).currency = BaseCurrency
  /\ Remaining(id) # 0
  /\ Keep(tx)
  /\ ExecuteSingle(Len(built) + 1, tx.entries)
  /\ UNCHANGED <<accounts, now>>

\* executeSingle; executeMultiple is a run of these that ends at the first failure,
\* with nothing undone.
Execute(t) ==
  /\ ExecuteSingle(t, built[t].entries)
  /\ UNCHANGED <<accounts, built, now>>

\* handle(ExecuteTransactionCommand) and transfer
Handle(p) ==
  /\ \E tx \in PostingTxs(p, now) :
       Keep(tx) /\ ExecuteSingle(Len(built) + 1, tx.entries)
  /\ UNCHANGED <<accounts, now>>

\* handleReverse: nobody asks whether t was reversed before.
HandleReverse(t) ==
  LET tx == ReversalTx(t, now) IN
  /\ t \in saved
  /\ Keep(tx)
  /\ ExecuteSingle(Len(built) + 1, tx.entries)
  /\ UNCHANGED <<accounts, now>>

Tick ==
  /\ now < MaxTime
  /\ now' = now + 1
  /\ UNCHANGED <<accounts, built, saved, booked, balance, ledger, executions>>

CompensationChoices == {<<>>} \cup {<<a>> : a \in Compensations}

MayBuild == Len(built) < MaxTransactions
MayExecute == Len(executions) < MaxExecutions

\* Everything is posted, dated today and executed as soon as it is built.
PromptNext ==
  \/ \E new \in (SUBSET Accounts) \ {{}} : CreateAccounts(new)
  \/ /\ MayBuild /\ MayExecute
     /\ \/ \E new \in (SUBSET (Accounts \ accounts)) \ {{}}, p \in Postings :
             CreateWithBalances(new, p)
        \/ \E n \in 1..Len(ledger), c \in CompensationChoices : Compensate(ledger[n], c)
        \/ \E p \in Postings : Handle(p)
  \/ Tick

\* Transactions are also reversed, and built and dated by clients that execute them
\* at some later time, or again, as a client does that repeats an executeMultiple
\* that failed halfway.
Next ==
  \/ PromptNext
  \/ /\ MayBuild
     /\ \/ \E p \in Postings, at \in 0..MaxTime : Build(p, at)
        \/ \E n \in 1..Len(ledger), c \in CompensationChoices :
             BuildCompensation(ledger[n], c)
  \/ /\ MayExecute
     /\ \/ \E t \in Transactions : Execute(t)
        \/ \E t \in Transactions : MayBuild /\ HandleReverse(t)

PromptSpec == Init /\ [][PromptNext]_vars
Spec == Init /\ [][Next]_vars

-----------------------------------------------------------------------------
(* Properties *)

\* No execution failed.  One that meets an amount of another currency fails halfway.
NoneFailed == Attempted \subseteq saved

SumOfBalances == MapThenSumSet(LAMBDA a : balance[a], DoubleEntry)

\* Double-entry bookkeeping: the balances of the accounts with double-entry booking
\* add up to zero, however transactions are built, dated, executed, executed again,
\* reversed and compensated, as long as none failed halfway (transaction.ts
\* BALANCING_CONSTRAINT and execute; accounting/README.md:19).
BooksBalance == NoneFailed => SumOfBalances = 0

\* balanceAsOf of the end of time, from the entry repository
SumOfEntries(a) ==
  SumLogged({n \in 1..Len(ledger) : EntryOf(ledger[n]).account = a})

Occurs(t) == Cardinality({k \in DOMAIN executions : executions[k] = t})

Repeated(a) ==
  \E t \in Transactions : Occurs(t) > 1 /\ \E n \in 1..Len(built[t].entries) :
    built[t].entries[n].account = a

\* What the accounts and the two repositories say agrees: the running balance of an
\* account object is what balanceAsOf reconstructs from the entry repository, a saved
\* transaction has all its entries there, and every entry belongs to a saved one
\* (account.ts addEntries, account-repository.ts saveAccounts, accounting-facade.ts
\* executeSingle; accounting/README.md:254).  Only a transaction executed again, whose
\* entries the repository keeps once, parts the balances.
BalanceIsReconstructible ==
  /\ \A t \in saved : \A n \in 1..Len(built[t].entries) : <<t, n>> \in ToSet(ledger)
  /\ NoneFailed =>
       /\ \A a \in Accounts : Repeated(a) \/ balance[a] = SumOfEntries(a)
       /\ \A n \in 1..Len(ledger) : ledger[n][1] \in saved

\* What the first k entries of the repository leave of the m-th, counting the entries
\* of its own account that were applied to it.
Left(m, k) ==
  Amount(EntryOf(ledger[m])) +
    SumLogged({n \in 1..k : /\ EntryOf(ledger[n]).appliedTo = ledger[m]
                            /\ EntryOf(ledger[n]).account = EntryOf(ledger[m]).account})

Grants(a) ==
  {m \in 1..Len(ledger) :
     EntryOf(ledger[m]).account = a /\ EntryOf(ledger[m]).kind = "credited"}

\* README of accounting/: when a grant expires, compensate what remains of it - then
\* compensations alone never take more than the grant was worth.
SweptOnce ==
  \A a \in Accounts : \A m \in Grants(a) : Left(m, Len(ledger)) >= 0
=============================================================================
