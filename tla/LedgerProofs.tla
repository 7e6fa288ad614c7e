------------------------------ MODULE LedgerProofs ------------------------------
(***************************************************************************)
(* The books balance and the running balances are those of the entry       *)
(* repository, for any number of accounts, lines, transactions and         *)
(* executions.  The same holds where posting rules book, and each entry    *)
(* sets off each rule that is eligible for it once, in order of priority.  *)
(***************************************************************************)
EXTENDS PostingRules, Sums

-----------------------------------------------------------------------------
(* The inductive invariant *)

\* The entries of a transaction name accounts and amounts.
EntryFields ==
  {"account", "kind", "money", "currency", "appliesAt", "validFrom", "validTo", "appliedTo"}

WellMade(entries) ==
  /\ entries \in Seq(Range(entries))
  /\ \A n \in 1..Len(entries) :
       /\ DOMAIN entries[n] = EntryFields
       /\ entries[n].account \in Accounts
       /\ entries[n].money \in Int

\* The ids of all entries that were built
Ids == UNION {{<<t, n>> : n \in 1..Len(built[t].entries)} : t \in Transactions}

LedgerTypeOK ==
  /\ accounts \subseteq Accounts
  /\ built \in Seq(Range(built))
  /\ executions \in Seq(Transactions)
  /\ saved \subseteq Attempted
  /\ balance \in [Accounts -> Int]
  /\ booked \in [Accounts -> Seq(Ids)]
  /\ ledger \in Seq(Ids)

TransactionsAreBalanced ==
  \A t \in Transactions : WellMade(built[t].entries) /\ Balanced(built[t].entries)

\* A transaction that failed once fails each time.
FailuresRepeat == \A t \in Attempted : t \in saved <=> Executes(built[t].entries)

\* An account object notes its own entries of transactions that were executed.
NotedWhenExecuted ==
  \A a \in Accounts : \A id \in ToSet(booked[a]) : EntryOf(id).account = a /\ id[1] \in Attempted

\* The entry repository keeps what the objects noted, once.
LoggedOnce ==
  /\ IsInjective(ledger)
  /\ \A id \in ToSet(ledger) : id \in ToSet(booked[EntryOf(id).account])

LedgerInv ==
  /\ LedgerTypeOK /\ TransactionsAreBalanced /\ FailuresRepeat
  /\ NotedWhenExecuted /\ LoggedOnce
  /\ BooksBalance /\ BalanceIsReconstructible
-----------------------------------------------------------------------------
(* Sequences *)

LEMMA FunctionIsSequence ==
  ASSUME NEW k \in Nat, NEW f, DOMAIN f = 1..k, f = [n \in DOMAIN f |-> f[n]]
  PROVE  f \in Seq(Range(f)) /\ Len(f) = k
<1> DEFINE S == Range(f)
<1>1. \A n \in 1..k : f[n] \in S
  BY DEF Range
<1> HIDE DEF S
<1>2. f \in [1..k -> S]
  BY <1>1
<1>3. f \in Seq(S) /\ Len(f) = k
  BY <1>2
<1> QED BY <1>3 DEF S

LEMMA AppendFacts ==
  ASSUME NEW S, NEW s \in Seq(S), NEW x
  PROVE  /\ Append(s, x) \in Seq(Range(Append(s, x)))
         /\ Len(Append(s, x)) = Len(s) + 1 /\ Len(s) \in Nat
         /\ \A n \in 1..Len(s) : Append(s, x)[n] = s[n]
         /\ Append(s, x)[Len(s) + 1] = x
<1> DEFINE X == S \cup {x}
<1>1. s \in Seq(X) /\ x \in X
  OBVIOUS
<1> HIDE DEF X
<1> DEFINE r == Append(s, x)
<1>2. /\ r \in Seq(X) /\ Len(r) = Len(s) + 1 /\ Len(s) \in Nat
      /\ \A n \in 1..Len(s) : r[n] = s[n]
      /\ r[Len(s) + 1] = x
  BY <1>1
<1> HIDE DEF r
<1>3. r \in Seq(Range(r))
  BY <1>2, FunctionIsSequence
<1> QED BY <1>2, <1>3 DEF r

LEMMA ConcatFacts ==
  ASSUME NEW S, NEW s \in Seq(S), NEW T, NEW t \in Seq(T)
  PROVE  /\ s \o t \in Seq(S \cup T)
         /\ Len(s \o t) = Len(s) + Len(t) /\ Len(s) \in Nat /\ Len(t) \in Nat
         /\ \A n \in 1..Len(s) : (s \o t)[n] = s[n]
         /\ \A n \in 1..Len(t) : (s \o t)[Len(s) + n] = t[n]
         /\ \A n \in (Len(s) + 1)..(Len(s) + Len(t)) :
              n - Len(s) \in 1..Len(t) /\ (s \o t)[n] = t[n - Len(s)]
         /\ ToSet(s \o t) = ToSet(s) \cup ToSet(t)
<1> DEFINE X == S \cup T
<1>1. s \in Seq(X) /\ t \in Seq(X)
  OBVIOUS
<1> HIDE DEF X
<1> DEFINE r == s \o t
<1>2. /\ r \in Seq(X) /\ Len(r) = Len(s) + Len(t) /\ Len(s) \in Nat /\ Len(t) \in Nat
      /\ \A n \in 1..Len(s) : r[n] = s[n]
      /\ \A n \in 1..Len(t) : r[Len(s) + n] = t[n]
  BY <1>1
<1>3. \A n \in (Len(s) + 1)..(Len(s) + Len(t)) :
        n - Len(s) \in 1..Len(t) /\ r[n] = t[n - Len(s)]
  BY <1>1, <1>2
<1>4. DOMAIN r = 1..(Len(s) + Len(t)) /\ DOMAIN s = 1..Len(s) /\ DOMAIN t = 1..Len(t)
  BY <1>1, <1>2
<1> HIDE DEF r
<1>5. ToSet(r) = ToSet(s) \cup ToSet(t)
  <2>1. ASSUME NEW n \in DOMAIN r PROVE r[n] \in ToSet(s) \cup ToSet(t)
    <3>1. n \in 1..Len(s) \/ n \in (Len(s) + 1)..(Len(s) + Len(t))
      BY <1>2, <1>4
    <3> QED BY <1>2, <1>3, <1>4, <3>1 DEF ToSet
  <2>2. ASSUME NEW n \in DOMAIN s PROVE s[n] \in ToSet(r)
    <3>1. n \in DOMAIN r /\ r[n] = s[n]
      BY <1>2, <1>4
    <3> QED BY <3>1 DEF ToSet
  <2>3. ASSUME NEW n \in DOMAIN t PROVE t[n] \in ToSet(r)
    <3>1. Len(s) + n \in DOMAIN r /\ r[Len(s) + n] = t[n]
      BY <1>2, <1>4
    <3> QED BY <3>1 DEF ToSet
  <2> QED BY <2>1, <2>2, <2>3 DEF ToSet
<1> QED BY <1>2, <1>3, <1>5 DEF r, X

LEMMA ConcatHolds ==
  ASSUME NEW S, NEW s \in Seq(S), NEW T, NEW t \in Seq(T), NEW r, r = s \o t
  PROVE  ToSet(r) = ToSet(s) \cup ToSet(t)
<1>1. ToSet(s \o t) = ToSet(s) \cup ToSet(t)
  BY ONLY ConcatFacts, s \in Seq(S), t \in Seq(T), ZenonT(60)
<1> QED BY <1>1

-----------------------------------------------------------------------------
(* Sums of entries *)

Amounts(entries) == [n \in 1..Len(entries) |-> Amount(entries[n])]

LEMMA AmountIsInt ==
  ASSUME NEW entries, WellMade(entries)
  PROVE  /\ Len(entries) \in Nat /\ IsFiniteSet(1..Len(entries)) /\ DOMAIN entries = 1..Len(entries)
         /\ Measures(Amounts(entries), 1..Len(entries))
         /\ \A n \in 1..Len(entries) : Amounts(entries)[n] = Amount(entries[n])
<1>1. Len(entries) \in Nat /\ DOMAIN entries = 1..Len(entries)
  <2> DEFINE R == Range(entries)
  <2>1. entries \in Seq(R)
    BY DEF WellMade
  <2> HIDE DEF R
  <2> QED BY <2>1
<1>2. IsFiniteSet(1..Len(entries))
  BY <1>1, FS_Interval
<1>3. \A n \in 1..Len(entries) : Amount(entries[n]) \in Int
  BY DEF WellMade, Amount
<1>4. \A n \in 1..Len(entries) : Amounts(entries)[n] = Amount(entries[n])
  BY DEF Amounts
<1>5. DOMAIN Amounts(entries) = 1..Len(entries)
  BY DEF Amounts
<1> QED BY <1>1, <1>2, <1>3, <1>4, <1>5 DEF Measures

LEMMA SumAtIsTotal ==
  ASSUME NEW entries, WellMade(entries), NEW S, S \subseteq 1..Len(entries)
  PROVE  /\ IsFiniteSet(S) /\ Measures(Amounts(entries), S)
         /\ SumAt(entries, S) = Total(Amounts(entries), S)
<1> DEFINE q == Amounts(entries)
           adds(sum) == sum = [s \in SUBSET S |->
             IF s = {} THEN 0
             ELSE Amount(entries[CHOOSE x \in s : TRUE]) + sum[s \ {CHOOSE x \in s : TRUE}]]
           total == CHOOSE sum : adds(sum)
<1>1. IsFiniteSet(S) /\ Measures(q, S)
  BY AmountIsInt, FS_Subset DEF Measures
<1>2. SumAt(entries, S) = total[S]
  BY DEF SumAt, MapThenSumSet, MapThenFoldSet
<1>3. \A s \in SUBSET S : s # {} => q[CHOOSE x \in s : TRUE] = Amount(entries[CHOOSE x \in s : TRUE])
  BY AmountIsInt
<1> HIDE DEF q
<1>4. PICK sum : AddsUp(sum, q, S)
  BY <1>1, TotalAddsUp
<1>5. adds(sum)
  BY <1>3, <1>4 DEF AddsUp
<1> HIDE DEF adds
<1>6. adds(total)
  BY <1>5
<1> HIDE DEF total
<1>7. AddsUp(total, q, S)
  BY <1>3, <1>6 DEF adds, AddsUp
<1>8. total[S] = Total(q, S)
  BY <1>1, <1>7, SumIsTotal
<1> QED BY <1>1, <1>2, <1>8 DEF q

LEMMA BalancesAddUp ==
  LedgerAssumption /\ LedgerTypeOK => /\ IsFiniteSet(DoubleEntry) /\ DoubleEntry \subseteq Accounts
                                      /\ Measures(balance, DoubleEntry)
                                      /\ SumOfBalances = Total(balance, DoubleEntry)
<1> SUFFICES ASSUME LedgerAssumption, LedgerTypeOK
             PROVE  /\ IsFiniteSet(DoubleEntry) /\ DoubleEntry \subseteq Accounts
                    /\ Measures(balance, DoubleEntry)
                    /\ SumOfBalances = Total(balance, DoubleEntry)
  OBVIOUS
<1> DEFINE total == CHOOSE sum : AddsUp(sum, balance, DoubleEntry)
<1>1. IsFiniteSet(DoubleEntry) /\ DoubleEntry \subseteq Accounts
  BY FS_Subset DEF LedgerAssumption, DoubleEntry
<1>2. Measures(balance, DoubleEntry)
  BY <1>1 DEF LedgerTypeOK, Measures
<1>3. SumOfBalances = total[DoubleEntry]
  BY DEF SumOfBalances, MapThenSumSet, MapThenFoldSet, AddsUp
<1>4. AddsUp(total, balance, DoubleEntry)
  BY <1>1, <1>2, TotalAddsUp
<1> HIDE DEF total
<1>5. total[DoubleEntry] = Total(balance, DoubleEntry)
  BY <1>1, <1>2, <1>4, SumIsTotal
<1> QED BY <1>1, <1>2, <1>3, <1>5

LEMMA BalancesAddUpNext ==
  LedgerAssumption /\ LedgerTypeOK' => /\ Measures(balance', DoubleEntry)
                                       /\ SumOfBalances' = Total(balance', DoubleEntry)
<1> DEFINE Known == Measures(balance, DoubleEntry) /\ SumOfBalances = Total(balance, DoubleEntry)
<1>1. LedgerAssumption /\ LedgerTypeOK => Known
  BY BalancesAddUp
<1>2. LedgerAssumption' /\ LedgerTypeOK' => Known'
  BY <1>1, PTL
<1>3. LedgerAssumption' <=> LedgerAssumption
  OBVIOUS
<1>4. Known' => /\ Measures(balance', DoubleEntry)
                /\ SumOfBalances' = Total(balance', DoubleEntry)
  BY DEF DoubleEntry
<1> QED BY <1>2, <1>3, <1>4

-----------------------------------------------------------------------------
(* What is built *)

LEMMA PostingsAreWellMade ==
  ASSUME LedgerAssumption, NEW p, p \in Seq(PostedLines), NEW at, NEW refs
  PROVE  WellMade(PostingTx(p, at, refs).entries)
<1> DEFINE e == [n \in 1..Len(p) |-> EntryFor(p[n], at, refs[n])]
<1>1. Len(p) \in Nat /\ \A n \in 1..Len(p) : p[n] \in PostedLines
  <2> HIDE DEF e
  <2> QED OBVIOUS
<1>2. PostingTx(p, at, refs).entries = e
  BY DEF PostingTx
<1>3. DOMAIN e = 1..Len(p) /\ e = [n \in DOMAIN e |-> e[n]]
  OBVIOUS
<1>4. \A n \in 1..Len(p) : /\ DOMAIN e[n] = EntryFields
                           /\ e[n].account = p[n].account /\ e[n].money = p[n].money
  BY DEF EntryFor, EntryFields
<1>5. \A n \in 1..Len(p) : p[n].account \in Accounts /\ p[n].money \in Int
  <2> SUFFICES ASSUME NEW n \in 1..Len(p) PROVE p[n].account \in Accounts /\ p[n].money \in Int
    OBVIOUS
  <2>1. p[n].account \in Accounts /\ p[n].money \in Int
    BY <1>1 DEF PostedLines
  <2> QED BY <2>1
<1> HIDE DEF e
<1>6. e \in Seq(Range(e)) /\ Len(e) = Len(p)
  BY <1>1, <1>3, FunctionIsSequence
<1> QED BY <1>2, <1>4, <1>5, <1>6 DEF WellMade

LEMMA PostingsAreBuilt ==
  ASSUME LedgerAssumption, NEW p \in Postings, NEW at, NEW tx \in PostingTxs(p, at)
  PROVE  WellMade(tx.entries)
<1>1. PICK refs : tx = PostingTx(p, at, refs)
  BY DEF PostingTxs
<1>2. p \in Seq(PostedLines)
  BY DEF LedgerAssumption
<1> QED BY <1>1, <1>2, PostingsAreWellMade

LEMMA OpeningsAreWellMade ==
  ASSUME LedgerAssumption, NEW p \in Postings, NEW at, NEW refs
  PROVE  WellMade(PostingTx([n \in 1..Len(p) |-> [p[n] EXCEPT !.validTo = Forever]], at, refs).entries)
<1> DEFINE lines == [n \in 1..Len(p) |-> [p[n] EXCEPT !.validTo = Forever]]
<1>1. p \in Seq(PostedLines)
  BY DEF LedgerAssumption
<1>2. Len(p) \in Nat /\ \A n \in 1..Len(p) : p[n] \in PostedLines
  BY <1>1
<1>3. Forever \in Nat
  BY DEF LedgerAssumption, Forever
<1>4. \A n \in 1..Len(p) : lines[n] \in PostedLines
  <2> SUFFICES ASSUME NEW n \in 1..Len(p) PROVE [p[n] EXCEPT !.validTo = Forever] \in PostedLines
    OBVIOUS
  <2>1. p[n] \in PostedLines
    BY <1>2
  <2> QED BY <1>3, <2>1 DEF PostedLines
<1>5. lines \in [1..Len(p) -> PostedLines]
  BY <1>4
<1> HIDE DEF lines
<1>6. lines \in Seq(PostedLines)
  BY <1>2, <1>5
<1>7. WellMade(PostingTx(lines, at, refs).entries)
  BY <1>6, PostingsAreWellMade
<1> QED BY <1>7 DEF lines

LEMMA ReversalsAreWellMade ==
  ASSUME NEW t, WellMade(built[t].entries), NEW at
  PROVE  WellMade(ReversalTx(t, at).entries)
<1> DEFINE old == built[t].entries
           e == [n \in 1..Len(old) |->
                   [old[n] EXCEPT
                      !.kind = Opposite(@), !.appliesAt = at, !.validFrom = 0,
                      !.validTo = Forever, !.appliedTo = <<t, n>>]]
<1>1. ReversalTx(t, at).entries = e
  BY DEF ReversalTx
<1>2. Len(old) \in Nat
  BY AmountIsInt
<1>3. DOMAIN e = 1..Len(old) /\ e = [n \in DOMAIN e |-> e[n]]
  OBVIOUS
<1>4. \A n \in 1..Len(old) : /\ DOMAIN e[n] = EntryFields
                             /\ e[n].account = old[n].account /\ e[n].money = old[n].money
  <2>1. \A n \in 1..Len(old) : DOMAIN old[n] = EntryFields
    BY DEF WellMade
  <2> HIDE DEF old
  <2> QED BY <2>1 DEF EntryFields
<1> HIDE DEF e
<1>5. e \in Seq(Range(e)) /\ Len(e) = Len(old)
  BY <1>2, <1>3, FunctionIsSequence
<1> QED BY <1>1, <1>4, <1>5 DEF WellMade

-----------------------------------------------------------------------------
(* Entries by id *)

LEMMA EntriesOfIds ==
  ASSUME TransactionsAreBalanced, NEW id \in Ids
  PROVE  /\ id = <<id[1], id[2]>>
         /\ id[1] \in Transactions /\ id[2] \in 1..Len(built[id[1]].entries)
         /\ EntryOf(id).account \in Accounts /\ Amount(EntryOf(id)) \in Int
         /\ DOMAIN EntryOf(id) = EntryFields
<1>1. PICK t \in Transactions : id \in {<<t, n>> : n \in 1..Len(built[t].entries)}
  BY DEF Ids
<1>2. PICK n \in 1..Len(built[t].entries) : id = <<t, n>>
  BY <1>1
<1>3. id = <<id[1], id[2]>> /\ id[1] = t /\ id[2] = n
  BY <1>2
<1>4. WellMade(built[t].entries)
  BY DEF TransactionsAreBalanced
<1> DEFINE e == built[t].entries[n]
<1>5. e.account \in Accounts /\ e.money \in Int /\ DOMAIN e = EntryFields
  BY <1>4 DEF WellMade
<1>6. EntryOf(id) = e
  BY <1>3 DEF EntryOf
<1> HIDE DEF e
<1>7. Amount(e) \in Int
  BY <1>5 DEF Amount
<1> QED BY <1>3, <1>5, <1>6, <1>7

LEMMA AccountsBeforeAndAfter ==
  TransactionsAreBalanced' => \A id \in Ids' : EntryOf(id)'.account \in Accounts
<1> DEFINE Known == \A id \in Ids : EntryOf(id).account \in Accounts
<1>1. TransactionsAreBalanced => Known
  BY EntriesOfIds
<1>2. TransactionsAreBalanced' => Known'
  BY <1>1, PTL
<1> QED BY <1>2

LEMMA LoggedAreIds ==
  ASSUME LedgerTypeOK
  PROVE  /\ Len(ledger) \in Nat /\ DOMAIN ledger = 1..Len(ledger)
         /\ IsFiniteSet(1..Len(ledger))
         /\ \A n \in 1..Len(ledger) : ledger[n] \in Ids
         /\ ToSet(ledger) \subseteq Ids
         /\ ToSet(ledger) = Renamed(ledger, 1..Len(ledger)) /\ IsFiniteSet(ToSet(ledger))
<1>1. ledger \in Seq(Ids)
  BY DEF LedgerTypeOK
<1>2. /\ Len(ledger) \in Nat /\ DOMAIN ledger = 1..Len(ledger)
      /\ \A n \in 1..Len(ledger) : ledger[n] \in Ids
  BY <1>1
<1>3. IsFiniteSet(1..Len(ledger))
  BY <1>2, FS_Interval
<1>4. ToSet(ledger) = Renamed(ledger, 1..Len(ledger))
  BY <1>2 DEF ToSet, Renamed
<1>5. IsFiniteSet(ToSet(ledger))
  BY <1>3, <1>4, RenamedIsFinite
<1>6. ToSet(ledger) \subseteq Ids
  BY <1>2, <1>4 DEF Renamed
<1> QED BY <1>2, <1>3, <1>4, <1>5, <1>6

LoggedAmounts == [n \in 1..Len(ledger) |-> Amount(EntryOf(ledger[n]))]

LEMMA SumLoggedIsTotal ==
  ASSUME LedgerTypeOK, TransactionsAreBalanced, NEW S, S \subseteq 1..Len(ledger)
  PROVE  /\ IsFiniteSet(S) /\ Measures(LoggedAmounts, S)
         /\ SumLogged(S) = Total(LoggedAmounts, S)
<1> DEFINE q == LoggedAmounts
           adds(sum) == sum = [s \in SUBSET S |->
             IF s = {} THEN 0
             ELSE Amount(EntryOf(ledger[CHOOSE x \in s : TRUE])) + sum[s \ {CHOOSE x \in s : TRUE}]]
           total == CHOOSE sum : adds(sum)
<1>1. IsFiniteSet(S) /\ Measures(q, S)
  <2>1. \A n \in S : q[n] \in Int
    BY LoggedAreIds, EntriesOfIds DEF LoggedAmounts
  <2>2. DOMAIN q = 1..Len(ledger)
    BY DEF LoggedAmounts
  <2> QED BY <2>1, <2>2, LoggedAreIds, FS_Subset DEF Measures
<1>2. SumLogged(S) = total[S]
  BY DEF SumLogged, MapThenSumSet, MapThenFoldSet
<1>3. \A s \in SUBSET S : s # {} =>
        q[CHOOSE x \in s : TRUE] = Amount(EntryOf(ledger[CHOOSE x \in s : TRUE]))
  BY DEF LoggedAmounts
<1> HIDE DEF q
<1>4. PICK sum : AddsUp(sum, q, S)
  BY <1>1, TotalAddsUp
<1>5. adds(sum)
  BY <1>3, <1>4 DEF AddsUp
<1> HIDE DEF adds
<1>6. adds(total)
  BY <1>5
<1> HIDE DEF total
<1>7. AddsUp(total, q, S)
  BY <1>3, <1>6 DEF adds, AddsUp
<1>8. total[S] = Total(q, S)
  BY <1>1, <1>7, SumIsTotal
<1> QED BY <1>1, <1>2, <1>8 DEF q

LEMMA RemainingIsInt ==
  ASSUME LedgerTypeOK, TransactionsAreBalanced, NEW id \in Ids
  PROVE  Remaining(id) \in Int
<1> DEFINE S == {n \in 1..Len(ledger) : EntryOf(ledger[n]).appliedTo = id}
<1>1. S \subseteq 1..Len(ledger)
  OBVIOUS
<1>2. Remaining(id) = Amount(EntryOf(id)) + SumLogged(S)
  BY DEF Remaining
<1> HIDE DEF S
<1>3. SumLogged(S) \in Int
  BY <1>1, SumLoggedIsTotal, TotalIsInt
<1> QED BY <1>2, <1>3, EntriesOfIds

LEMMA CompensationsAreWellMade ==
  ASSUME LedgerAssumption, LedgerTypeOK, TransactionsAreBalanced,
         NEW id \in Ids, NEW at, NEW compensation \in CompensationChoices
  PROVE  WellMade(CompensationTx(id, at, compensation).entries)
<1> DEFINE m == IF Remaining(id) < 0 THEN -Remaining(id) ELSE Remaining(id)
           Part(a, kind) ==
             [account |-> a, kind |-> kind, money |-> m,
              currency |-> BaseCurrency, appliesAt |-> at, validFrom |-> 0,
              validTo |-> Forever, appliedTo |-> id]
           own == <<Part(EntryOf(id).account, Opposite(EntryOf(id).kind))>>
           others == [n \in 1..Len(compensation) |-> Part(compensation[n], EntryOf(id).kind)]
<1>1. CompensationTx(id, at, compensation).entries = own \o others
  BY DEF CompensationTx
<1>2. m \in Int
  <2>1. Remaining(id) \in Int
    BY RemainingIsInt
  <2> QED BY <2>1
<1> HIDE DEF m
<1>3. Len(compensation) \in Nat /\ \A n \in 1..Len(compensation) : compensation[n] \in Accounts
  <2>1. compensation = <<>> \/ \E a \in Accounts : compensation = <<a>>
    BY DEF CompensationChoices, LedgerAssumption
  <2> QED BY <2>1
<1>4. EntryOf(id).account \in Accounts
  BY EntriesOfIds
<1> DEFINE good(e) == /\ DOMAIN e = EntryFields /\ e.account \in Accounts /\ e.money \in Int
<1>5. \A n \in 1..1 : good(own[n])
  BY <1>2, <1>4 DEF EntryFields
<1>6. \A n \in 1..Len(compensation) : good(others[n])
  BY <1>2, <1>3 DEF EntryFields
<1>7. others = [n \in DOMAIN others |-> others[n]] /\ DOMAIN others = 1..Len(compensation)
  OBVIOUS
<1>8. own \in Seq({own[1]}) /\ Len(own) = 1
  OBVIOUS
<1> HIDE DEF own, others, good
<1>9. others \in Seq(Range(others)) /\ Len(others) = Len(compensation)
  BY <1>3, <1>7, FunctionIsSequence
<1> DEFINE all == own \o others
<1>10. /\ Len(all) = 1 + Len(others) /\ Len(others) \in Nat
       /\ \A n \in 1..Len(own) : all[n] = own[n]
       /\ \A n \in 2..(1 + Len(others)) : n - Len(own) \in 1..Len(others) /\ all[n] = others[n - Len(own)]
       /\ all \in Seq({own[1]} \cup Range(others))
  <2> DEFINE X == {own[1]}
             Y == Range(others)
  <2>1. own \in Seq(X) /\ others \in Seq(Y)
    BY <1>8, <1>9
  <2> HIDE DEF X, Y, all
  <2>2. /\ all \in Seq(X \cup Y)
        /\ Len(all) = Len(own) + Len(others) /\ Len(own) \in Nat /\ Len(others) \in Nat
        /\ \A n \in 1..Len(own) : all[n] = own[n]
        /\ \A n \in (Len(own) + 1)..(Len(own) + Len(others)) :
             n - Len(own) \in 1..Len(others) /\ all[n] = others[n - Len(own)]
    BY <2>1, ConcatFacts DEF all
  <2>3. Len(own) + 1 = 2 /\ Len(own) = 1
    BY <1>8
  <2> QED BY <2>2, <2>3 DEF X, Y
<1> HIDE DEF all
<1>11. all \in Seq(Range(all))
  <2> DEFINE X == {own[1]} \cup Range(others)
  <2> HIDE DEF X
  <2>1. all \in Seq(X)
    BY <1>10 DEF X
  <2>2. Len(all) \in Nat /\ DOMAIN all = 1..Len(all) /\ all = [n \in DOMAIN all |-> all[n]]
    BY <2>1
  <2> QED BY <2>2, FunctionIsSequence
<1>12. \A n \in 1..Len(all) : good(all[n])
  <2> SUFFICES ASSUME NEW n \in 1..Len(all) PROVE good(all[n])
    OBVIOUS
  <2>1. n \in 1..1 \/ n \in 2..(1 + Len(others))
    BY <1>10
  <2> QED BY <1>5, <1>6, <1>8, <1>9, <1>10, <2>1
<1> QED BY <1>1, <1>11, <1>12 DEF WellMade, good, all

-----------------------------------------------------------------------------
(* What an execution notes and saves *)

\* The ids of the entries of account a that executing transaction t notes
Fresh(t, entries, a) ==
  {<<t, n>> : n \in {m \in 1..Len(entries) : entries[m].account = a /\ Noted(entries, m)}}

LEMMA PlacesAreListed ==
  ASSUME NEW t, NEW places, IsFiniteSet(places), places \subseteq Nat
  PROVE  /\ IdsAt(t, places) \in Seq({<<t, n>> : n \in places})
         /\ ToSet(IdsAt(t, places)) = {<<t, n>> : n \in places}
<1> DEFINE F == {<<t, n>> : n \in places}
           Earlier == {pair \in F \X F : pair[1][2] < pair[2][2]}
           id == [n \in places |-> <<t, n>>]
<1>1. IsFiniteSet(F)
  <2>1. F = Renamed(id, places)
    BY DEF Renamed
  <2> HIDE DEF F, id
  <2> QED BY <2>1, RenamedIsFinite
<1>2. \A x \in F : x = <<t, x[2]>> /\ x[2] \in Nat
  OBVIOUS
<1>3. \A x, y \in F : <<x, y>> \in Earlier <=> x[2] < y[2]
  OBVIOUS
<1>4. IdsAt(t, places) = ListedBy(F, Earlier)
  BY DEF IdsAt
<1> HIDE DEF F, Earlier
<1>5. OrdersStrictly(Earlier, F)
  <2>1. \A x \in F : <<x, x>> \notin Earlier
    BY <1>2, <1>3
  <2>2. ASSUME NEW x \in F, NEW y \in F, NEW z \in F, <<x, y>> \in Earlier, <<y, z>> \in Earlier
        PROVE  <<x, z>> \in Earlier
    <3>1. x[2] \in Nat /\ y[2] \in Nat /\ z[2] \in Nat /\ x[2] < y[2] /\ y[2] < z[2]
      BY <1>2, <1>3, <2>2
    <3>2. x[2] < z[2]
      BY <3>1
    <3> QED BY <1>3, <3>2
  <2>3. ASSUME NEW x \in F, NEW y \in F
        PROVE  x = y \/ <<x, y>> \in Earlier \/ <<y, x>> \in Earlier
    <3>1. x[2] \in Nat /\ y[2] \in Nat /\ x = <<t, x[2]>> /\ y = <<t, y[2]>>
      BY <1>2
    <3>2. x[2] = y[2] \/ x[2] < y[2] \/ y[2] < x[2]
      BY <3>1
    <3> QED BY <1>3, <3>1, <3>2
  <2> QED BY <2>1, <2>2, <2>3 DEF OrdersStrictly
<1>6. ListedBy(F, Earlier) \in Seq(F) /\ ToSet(ListedBy(F, Earlier)) = F
  BY <1>1, <1>5, ListsAll
<1> QED BY <1>4, <1>6 DEF F

LEMMA BookedGrows ==
  ASSUME LedgerTypeOK, NEW t, NEW entries, WellMade(entries)
  PROVE  /\ BookedAfter(t, entries) = [a \in Accounts |-> BookedAfter(t, entries)[a]]
         /\ \A a \in Accounts :
              /\ BookedAfter(t, entries)[a] \in Seq(Ids \cup Fresh(t, entries, a))
              /\ ToSet(BookedAfter(t, entries)[a]) = ToSet(booked[a]) \cup Fresh(t, entries, a)
<1> DEFINE places(a) == {m \in 1..Len(entries) : entries[m].account = a /\ Noted(entries, m)}
<1>1. BookedAfter(t, entries) = [a \in Accounts |-> booked[a] \o IdsAt(t, places(a))]
  BY DEF BookedAfter
<1>2. ASSUME NEW a \in Accounts
      PROVE  /\ BookedAfter(t, entries)[a] \in Seq(Ids \cup Fresh(t, entries, a))
             /\ ToSet(BookedAfter(t, entries)[a]) = ToSet(booked[a]) \cup Fresh(t, entries, a)
  <2> DEFINE P == places(a)
             F == Fresh(t, entries, a)
             new == IdsAt(t, P)
  <2>1. F = {<<t, n>> : n \in P} /\ P \subseteq 1..Len(entries)
    BY DEF Fresh
  <2> HIDE DEF F
  <2>2. BookedAfter(t, entries)[a] = booked[a] \o new
    BY <1>1
  <2> HIDE DEF P
  <2>3. IsFiniteSet(P) /\ P \subseteq Nat
    <3>1. Len(entries) \in Nat /\ IsFiniteSet(1..Len(entries))
      BY AmountIsInt
    <3>2. IsFiniteSet(P)
      BY <2>1, <3>1, FS_Subset
    <3> QED BY <2>1, <3>1, <3>2
  <2>4. new \in Seq(F) /\ ToSet(new) = F
    BY <2>1, <2>3, PlacesAreListed
  <2>5. booked[a] \in Seq(Ids)
    BY DEF LedgerTypeOK
  <2> HIDE DEF new
  <2>6. booked[a] \o new \in Seq(Ids \cup F)
    BY <2>4, <2>5, ConcatFacts
  <2>7. ToSet(booked[a] \o new) = ToSet(booked[a]) \cup ToSet(new)
    BY <2>4, <2>5, ConcatHolds
  <2> QED BY <2>2, <2>4, <2>6, <2>7 DEF F
<1> QED BY <1>1, <1>2

\* The accounts that an execution goes to list the same entries.
Unsaved(entries, objects) ==
  (UNION {ToSet(objects[a]) : a \in Involved(entries)}) \ ToSet(ledger)

\* What the account objects hold is listed object by object.
Held(entries, objects) == UNION {ToSet(objects[a]) : a \in Involved(entries)}

LEMMA ObjectsAreListed ==
  ASSUME NEW entries, WellMade(entries), NEW objects, NEW S, objects \in [Accounts -> Seq(S)],
         NEW U, U \subseteq Held(entries, objects)
  PROVE  /\ ObjectByObject(U, entries, objects) \in Seq(U)
         /\ IsInjective(ObjectByObject(U, entries, objects))
         /\ ToSet(ObjectByObject(U, entries, objects)) = U
         /\ U \subseteq S
<1> DEFINE Before == {pair \in U \X U : FoundBefore(pair[1], pair[2], entries, objects)}
           holder(x) == {n \in 1..Len(entries) : x \in ToSet(objects[entries[n].account])}
           place(x, o) == {m \in DOMAIN o : o[m] = x}
           In(x) == FoundIn(x, entries, objects)
<1>1. Len(entries) \in Nat /\ IsFiniteSet(1..Len(entries)) /\ \A n \in 1..Len(entries) : entries[n].account \in Accounts
  BY AmountIsInt DEF WellMade
<1>2. \A a \in Accounts : /\ objects[a] \in Seq(S) /\ Len(objects[a]) \in Nat
                         /\ DOMAIN objects[a] = 1..Len(objects[a])
  <2> SUFFICES ASSUME NEW a \in Accounts
               PROVE  /\ objects[a] \in Seq(S) /\ Len(objects[a]) \in Nat
                      /\ DOMAIN objects[a] = 1..Len(objects[a])
    OBVIOUS
  <2>1. objects[a] \in Seq(S)
    OBVIOUS
  <2> QED BY <2>1
<1>3. ASSUME NEW x \in U
      PROVE  In(x) \in 1..Len(entries) /\ x \in ToSet(objects[entries[In(x)].account])
  <2>1. PICK a \in Involved(entries) : x \in ToSet(objects[a])
    BY DEF Held
  <2>2. PICK n \in 1..Len(entries) : entries[n].account = a
    BY DEF Involved
  <2>3. n \in holder(x)
    BY <2>1, <2>2
  <2>4. holder(x) \subseteq 0..Len(entries)
    BY <1>1
  <2>5. In(x) = Min(holder(x))
    BY DEF FoundIn
  <2> HIDE DEF In
  <2>6. Min(holder(x)) \in holder(x)
    <3> DEFINE H == holder(x)
               N == Len(entries)
    <3>1. N \in Nat /\ H \subseteq 0..N /\ H # {}
      BY <1>1, <2>3, <2>4
    <3> HIDE DEF H, N
    <3>2. Min(H) \in H
      BY <3>1, LeastExists
    <3> QED BY <3>2 DEF H
  <2> QED BY <2>5, <2>6
<1>4. ASSUME NEW a \in Accounts, NEW x \in ToSet(objects[a])
      PROVE  FoundAt(x, objects[a]) \in Nat /\ objects[a][FoundAt(x, objects[a])] = x
  <2> DEFINE o == objects[a]
             P == place(x, o)
             N == Len(o)
  <2>1. P # {}
    BY DEF ToSet
  <2>2. N \in Nat /\ P \subseteq 0..N
    BY <1>2
  <2>3. FoundAt(x, o) = Min(P) /\ \A m \in P : o[m] = x
    BY DEF FoundAt
  <2> HIDE DEF o, P, N
  <2>4. Min(P) \in P
    BY <2>1, <2>2, LeastExists
  <2>5. Min(P) \in Nat
    <3>1. \A m \in P : m \in Nat
      BY <2>2
    <3> QED BY <2>4, <3>1
  <2> QED BY <2>3, <2>4, <2>5 DEF o
<1> DEFINE At(x) == FoundAt(x, objects[entries[In(x)].account])
<1>5. ASSUME NEW x \in U
      PROVE  /\ In(x) \in Nat /\ At(x) \in Nat
             /\ objects[entries[In(x)].account][At(x)] = x
  <2>1. In(x) \in 1..Len(entries) /\ x \in ToSet(objects[entries[In(x)].account])
    BY <1>3
  <2>2. entries[In(x)].account \in Accounts
    BY <1>1, <2>1
  <2> HIDE DEF In
  <2>3. In(x) \in Nat
    BY <1>1, <2>1
  <2> QED BY <1>4, <2>1, <2>2, <2>3
<1>6. \A x, y \in U : <<x, y>> \in Before <=> In(x) < In(y) \/ (In(x) = In(y) /\ At(x) < At(y))
  BY DEF FoundBefore
<1> HIDE DEF In, At, Before
<1>7. OrdersStrictly(Before, U)
  <2>1. ASSUME NEW x \in U PROVE <<x, x>> \notin Before
    BY <1>5, <1>6
  <2>2. ASSUME NEW x \in U, NEW y \in U, NEW z \in U, <<x, y>> \in Before, <<y, z>> \in Before
        PROVE  <<x, z>> \in Before
    <3>1. /\ In(x) \in Nat /\ In(y) \in Nat /\ In(z) \in Nat
          /\ At(x) \in Nat /\ At(y) \in Nat /\ At(z) \in Nat
      BY <1>5
    <3>2. /\ In(x) < In(y) \/ (In(x) = In(y) /\ At(x) < At(y))
          /\ In(y) < In(z) \/ (In(y) = In(z) /\ At(y) < At(z))
      BY <1>6, <2>2
    <3>3. In(x) < In(z) \/ (In(x) = In(z) /\ At(x) < At(z))
      BY <3>1, <3>2
    <3> QED BY <1>6, <3>3
  <2>3. ASSUME NEW x \in U, NEW y \in U
        PROVE  x = y \/ <<x, y>> \in Before \/ <<y, x>> \in Before
    <3>1. In(x) \in Nat /\ In(y) \in Nat /\ At(x) \in Nat /\ At(y) \in Nat
      BY <1>5
    <3>2. \/ In(x) < In(y) \/ (In(x) = In(y) /\ At(x) < At(y))
          \/ In(y) < In(x) \/ (In(y) = In(x) /\ At(y) < At(x))
          \/ In(x) = In(y) /\ At(x) = At(y)
      BY <3>1
    <3>3. In(x) = In(y) /\ At(x) = At(y) => x = y
      BY <1>5
    <3> QED BY <1>6, <3>2, <3>3
  <2> QED BY <2>1, <2>2, <2>3 DEF OrdersStrictly
<1>8. IsFiniteSet(U)
  <2> DEFINE lists == [n \in 1..Len(entries) |-> ToSet(objects[entries[n].account])]
             some == Renamed(lists, 1..Len(entries))
  <2>1. \A n \in 1..Len(entries) : IsFiniteSet(lists[n])
    <3> SUFFICES ASSUME NEW n \in 1..Len(entries) PROVE IsFiniteSet(ToSet(objects[entries[n].account]))
      OBVIOUS
    <3> DEFINE o == objects[entries[n].account]
    <3>1. Len(o) \in Nat /\ DOMAIN o = 1..Len(o)
      BY <1>1, <1>2
    <3> HIDE DEF o
    <3>2. ToSet(o) = Renamed(o, 1..Len(o)) /\ IsFiniteSet(1..Len(o))
      BY <3>1, FS_Interval DEF ToSet, Renamed
    <3> QED BY <3>2, RenamedIsFinite DEF o
  <2>2. IsFiniteSet(some) /\ \A s \in some : IsFiniteSet(s)
    BY <1>1, <2>1, RenamedIsFinite DEF Renamed
  <2>3. U \subseteq UNION some
    BY DEF Held, Involved, Renamed
  <2> HIDE DEF some
  <2>4. IsFiniteSet(UNION some)
    BY <2>2, FS_UNION
  <2> QED BY <2>3, <2>4, FS_Subset
<1>9. U \subseteq S
  <2> SUFFICES ASSUME NEW x \in U PROVE x \in S
    OBVIOUS
  <2>1. PICK a \in Accounts : x \in ToSet(objects[a])
    BY <1>1, <1>3
  <2>2. objects[a] \in Seq(S)
    BY <1>2
  <2> QED BY <2>1, <2>2 DEF ToSet
<1>10. /\ ListedBy(U, Before) \in Seq(U) /\ IsInjective(ListedBy(U, Before))
       /\ ToSet(ListedBy(U, Before)) = U
  BY <1>7, <1>8, ListsAll
<1> QED BY <1>9, <1>10 DEF ObjectByObject, Before

LEMMA LedgerGrows ==
  ASSUME LedgerTypeOK, IsInjective(ledger), NEW entries, WellMade(entries),
         NEW objects, NEW S, objects \in [Accounts -> Seq(S)]
  PROVE  /\ LedgerAfter(entries, objects) \in Seq(Ids \cup S)
         /\ IsInjective(LedgerAfter(entries, objects))
         /\ ToSet(LedgerAfter(entries, objects)) = ToSet(ledger) \cup Unsaved(entries, objects)
<1> DEFINE U == Unsaved(entries, objects)
           new == ObjectByObject(U, entries, objects)
<1>1. U \subseteq Held(entries, objects) /\ U \cap ToSet(ledger) = {}
  BY DEF Unsaved, Held
<1>10. LedgerAfter(entries, objects) = ledger \o new
  BY DEF LedgerAfter, Unsaved
<1> HIDE DEF U
<1>9. new \in Seq(U) /\ IsInjective(new) /\ ToSet(new) = U /\ Len(new) \in Nat /\ U \subseteq S
  <2>1. new \in Seq(U) /\ IsInjective(new) /\ ToSet(new) = U /\ U \subseteq S
    BY <1>1, ObjectsAreListed
  <2> HIDE DEF new
  <2> QED BY <2>1
<1>11. U \subseteq S /\ U \cap ToSet(ledger) = {}
  BY <1>1, <1>9
<1>12. ledger \in Seq(Ids)
  BY DEF LedgerTypeOK
<1> HIDE DEF new
<1> DEFINE all == ledger \o new
<1> HIDE DEF all
<1>17. ToSet(all) = ToSet(ledger) \cup ToSet(new)
  BY <1>9, <1>12, ConcatHolds DEF all
<1>13. /\ all \in Seq(Ids \cup U)
       /\ Len(all) = Len(ledger) + Len(new) /\ Len(ledger) \in Nat /\ Len(new) \in Nat
       /\ \A n \in 1..Len(ledger) : all[n] = ledger[n]
       /\ \A n \in (Len(ledger) + 1)..(Len(ledger) + Len(new)) :
            n - Len(ledger) \in 1..Len(new) /\ all[n] = new[n - Len(ledger)]
  BY <1>9, <1>12, ConcatFacts DEF all
<1>14. DOMAIN all = 1..Len(all) /\ DOMAIN ledger = 1..Len(ledger) /\ DOMAIN new = 1..Len(new)
  BY <1>9, <1>12, <1>13
<1>15. IsInjective(all)
  <2> SUFFICES ASSUME NEW i \in DOMAIN all, NEW j \in DOMAIN all, all[i] = all[j] PROVE i = j
    BY DEF IsInjective
  <2> DEFINE L == 1..Len(ledger)
             N == (Len(ledger) + 1)..(Len(ledger) + Len(new))
  <2>1. (i \in L \/ i \in N) /\ (j \in L \/ j \in N)
    BY <1>13, <1>14
  <2>2. \A n \in L : all[n] \in ToSet(ledger)
    BY <1>13, <1>14 DEF ToSet
  <2>3. \A n \in N : all[n] \in U
    BY <1>9, <1>13, <1>14 DEF ToSet
  <2>4. CASE i \in L /\ j \in L
    <3>1. ledger[i] = ledger[j] /\ i \in DOMAIN ledger /\ j \in DOMAIN ledger
      BY <1>13, <1>14, <2>4
    <3> QED BY <3>1 DEF IsInjective
  <2>5. CASE i \in N /\ j \in N
    <3>1. /\ new[i - Len(ledger)] = new[j - Len(ledger)]
          /\ i - Len(ledger) \in DOMAIN new /\ j - Len(ledger) \in DOMAIN new
      BY <1>13, <1>14, <2>5
    <3>2. i - Len(ledger) = j - Len(ledger)
      BY <1>9, <3>1 DEF IsInjective
    <3> QED BY <1>13, <2>5, <3>2
  <2> HIDE DEF L, N
  <2> QED BY <1>11, <2>1, <2>2, <2>3, <2>4, <2>5
<1>16. all \in Seq(Ids \cup S)
  <2> DEFINE V == Ids \cup U
             W == Ids \cup S
  <2>1. V \subseteq W /\ all \in Seq(V)
    BY <1>11, <1>13
  <2> HIDE DEF V, W
  <2>2. all \in Seq(W)
    BY <2>1
  <2> QED BY <2>2 DEF W
<1> QED BY <1>9, <1>10, <1>17, <1>15, <1>16 DEF all, U

-----------------------------------------------------------------------------
(* What the entry repository adds up to *)

AmountOf == [id \in Ids |-> Amount(EntryOf(id))]
LoggedOf(a) == {id \in ToSet(ledger) : EntryOf(id).account = a}

LEMMA AmountsOfIds ==
  ASSUME TransactionsAreBalanced, NEW S, S \subseteq Ids
  PROVE  Measures(AmountOf, S) /\ \A id \in S : AmountOf[id] = Amount(EntryOf(id))
<1>1. \A id \in S : AmountOf[id] = Amount(EntryOf(id)) /\ AmountOf[id] \in Int
  BY EntriesOfIds DEF AmountOf
<1>2. DOMAIN AmountOf = Ids
  BY DEF AmountOf
<1> QED BY <1>1, <1>2 DEF Measures

LEMMA SumOfEntriesById ==
  ASSUME LedgerTypeOK, TransactionsAreBalanced, IsInjective(ledger), NEW a
  PROVE  /\ IsFiniteSet(LoggedOf(a)) /\ LoggedOf(a) \subseteq Ids
         /\ SumOfEntries(a) = Total(AmountOf, LoggedOf(a))
<1> DEFINE places == {n \in 1..Len(ledger) : EntryOf(ledger[n]).account = a}
<1>1. places \subseteq 1..Len(ledger)
  OBVIOUS
<1>2. SumOfEntries(a) = SumLogged(places)
  BY DEF SumOfEntries
<1>3. LoggedOf(a) = Renamed(ledger, places)
  BY LoggedAreIds DEF LoggedOf, Renamed
<1> HIDE DEF places
<1>4. IsFiniteSet(places) /\ Measures(LoggedAmounts, places) /\ SumLogged(places) = Total(LoggedAmounts, places)
  BY <1>1, SumLoggedIsTotal
<1>5. IsFiniteSet(LoggedOf(a)) /\ LoggedOf(a) \subseteq Ids
  BY <1>3, <1>4, LoggedAreIds, RenamedIsFinite DEF LoggedOf
<1>6. Measures(AmountOf, Renamed(ledger, places))
  BY <1>3, <1>5, AmountsOfIds
<1>7. \A n \in places : LoggedAmounts[n] = AmountOf[ledger[n]]
  BY <1>1, LoggedAreIds DEF LoggedAmounts, AmountOf
<1>8. \A m, n \in places : ledger[m] = ledger[n] => m = n
  BY <1>1, LoggedAreIds DEF IsInjective
<1>9. Total(LoggedAmounts, places) = Total(AmountOf, Renamed(ledger, places))
  BY <1>4, <1>6, <1>7, <1>8, TotalOfRenamed
<1> QED BY <1>2, <1>3, <1>4, <1>5, <1>9

-----------------------------------------------------------------------------
(* Steps *)

\* The transactions built before stay as they are, and new ones are as good.
Grown ==
  /\ built' \in Seq(Range(built'))
  /\ Transactions \subseteq Transactions'
  /\ \A t \in Transactions : built'[t].entries = built[t].entries
  /\ \A t \in Transactions' : WellMade(built'[t].entries) /\ Balanced(built'[t].entries)

LEMMA OneMoreIsBuilt ==
  ASSUME LedgerTypeOK, TransactionsAreBalanced, NEW tx, WellMade(tx.entries), Balanced(tx.entries),
         built' = Append(built, tx)
  PROVE  Grown /\ Len(built) + 1 \in Transactions' /\ built'[Len(built) + 1].entries = tx.entries
<1> DEFINE S == Range(built)
<1>1. built \in Seq(S)
  BY DEF LedgerTypeOK
<1> HIDE DEF S
<1> DEFINE b == Append(built, tx)
<1>2. /\ b \in Seq(Range(b)) /\ Len(b) = Len(built) + 1 /\ Len(built) \in Nat
      /\ \A n \in 1..Len(built) : b[n] = built[n]
      /\ b[Len(built) + 1] = tx
  BY <1>1, AppendFacts
<1> HIDE DEF b
<1>3. built' = b
  BY DEF b
<1>4. Transactions = 1..Len(built) /\ Transactions' = 1..Len(b)
  BY <1>3 DEF Transactions
<1>5. \A t \in Transactions' : t \in Transactions \/ t = Len(built) + 1
  BY <1>2, <1>4
<1>6. Transactions \subseteq Transactions' /\ Len(built) + 1 \in Transactions'
  BY <1>2, <1>4
<1>7. \A t \in Transactions : built'[t].entries = built[t].entries
  BY <1>2, <1>3, <1>4
<1>8. \A t \in Transactions' : WellMade(built'[t].entries) /\ Balanced(built'[t].entries)
  BY <1>2, <1>3, <1>5, <1>7 DEF TransactionsAreBalanced
<1> QED BY <1>2, <1>3, <1>6, <1>7, <1>8 DEF Grown

LEMMA NoneIsBuilt ==
  ASSUME LedgerTypeOK, TransactionsAreBalanced, built' = built PROVE Grown
<1>1. Transactions' = Transactions
  BY DEF Transactions
<1>2. built \in Seq(Range(built)) /\ Range(built') = Range(built)
  BY DEF LedgerTypeOK
<1> QED BY <1>1, <1>2 DEF Grown, TransactionsAreBalanced

LEMMA GrownIds ==
  ASSUME TransactionsAreBalanced, Grown
  PROVE  /\ Ids \subseteq Ids'
         /\ \A id \in Ids : EntryOf(id)' = EntryOf(id)
         /\ TransactionsAreBalanced'
<1>1. \A id \in Ids : EntryOf(id)' = EntryOf(id)
  BY EntriesOfIds DEF Grown, EntryOf
<1>2. Ids \subseteq Ids'
  BY DEF Grown, Ids
<1>3. TransactionsAreBalanced'
  BY DEF Grown, TransactionsAreBalanced, WellMade, Balanced
<1> QED BY <1>1, <1>2, <1>3

\* The two lemmas on sums, before and after a step
SumsAreKnown ==
  /\ Measures(AmountOf, Ids) /\ \A id \in Ids : AmountOf[id] = Amount(EntryOf(id))
  /\ \A a \in Accounts : /\ IsFiniteSet(LoggedOf(a)) /\ LoggedOf(a) \subseteq Ids
                         /\ SumOfEntries(a) = Total(AmountOf, LoggedOf(a))

LEMMA SumsBeforeAndAfter ==
  /\ LedgerTypeOK /\ TransactionsAreBalanced /\ IsInjective(ledger) => SumsAreKnown
  /\ LedgerTypeOK' /\ TransactionsAreBalanced' /\ IsInjective(ledger)' => SumsAreKnown'
<1> DEFINE Known == LedgerTypeOK /\ TransactionsAreBalanced /\ IsInjective(ledger)
<1>1. Known => SumsAreKnown
  <2> SUFFICES ASSUME Known PROVE SumsAreKnown
    OBVIOUS
  <2>1. Measures(AmountOf, Ids) /\ \A id \in Ids : AmountOf[id] = Amount(EntryOf(id))
    BY AmountsOfIds
  <2> QED BY <2>1, SumOfEntriesById DEF SumsAreKnown
<1>2. Known' => SumsAreKnown'
  BY <1>1, PTL
<1> QED BY <1>1, <1>2

LEMMA SumsStay ==
  ASSUME SumsAreKnown, SumsAreKnown', TransactionsAreBalanced, Grown, NEW S, S \subseteq Ids
  PROVE  Total(AmountOf', S) = Total(AmountOf, S)
<1>1. S \subseteq Ids' /\ \A id \in S : EntryOf(id)' = EntryOf(id)
  BY GrownIds
<1>2. Measures(AmountOf, S) /\ \A id \in S : AmountOf[id] = Amount(EntryOf(id))
  BY DEF SumsAreKnown, Measures
<1>3. Measures(AmountOf', S) /\ \A id \in S : AmountOf'[id] = Amount(EntryOf(id)')
  BY <1>1 DEF SumsAreKnown, Measures, Amount
<1>4. \A id \in S : AmountOf'[id] = AmountOf[id]
  BY <1>1, <1>2, <1>3
<1> QED BY <1>2, <1>3, <1>4, TotalOfEqual

LEMMA ExecutionsAreBuilt ==
  ASSUME LedgerTypeOK
  PROVE  /\ Attempted \subseteq Transactions /\ saved \subseteq Attempted
         /\ Len(executions) \in Nat /\ DOMAIN executions = 1..Len(executions)
         /\ \A a \in Accounts : ToSet(booked[a]) \subseteq Ids
<1>1. /\ Len(executions) \in Nat /\ DOMAIN executions = 1..Len(executions)
      /\ \A k \in DOMAIN executions : executions[k] \in Transactions
  BY DEF LedgerTypeOK
<1>2. \A a \in Accounts : ToSet(booked[a]) \subseteq Ids
  <2> SUFFICES ASSUME NEW a \in Accounts PROVE ToSet(booked[a]) \subseteq Ids
    OBVIOUS
  <2>1. booked[a] \in Seq(Ids)
    BY DEF LedgerTypeOK
  <2> QED BY <2>1 DEF ToSet
<1> QED BY <1>1, <1>2 DEF Attempted, ToSet, LedgerTypeOK

LEMMA PartsAreSmaller ==
  ASSUME NEW T, IsFiniteSet(T), NEW S, S \subseteq T
  PROVE  /\ Cardinality(S) \in Nat /\ Cardinality(T) \in Nat
         /\ Cardinality(S) <= Cardinality(T)
         /\ S # {} /\ S # T => Cardinality(T) > 1
<1>1. /\ IsFiniteSet(S) /\ Cardinality(S) <= Cardinality(T)
      /\ S # T => Cardinality(S) # Cardinality(T)
  BY FS_Subset
<1>2. /\ Cardinality(S) \in Nat /\ Cardinality(T) \in Nat
      /\ S # {} => Cardinality(S) # 0
  BY <1>1, FS_CardinalityType, FS_EmptySet
<1> QED BY <1>1, <1>2

LEMMA OneMoreExecution ==
  ASSUME LedgerTypeOK, NEW t, executions' = Append(executions, t)
  PROVE  /\ Attempted' = Attempted \cup {t}
         /\ \A x : Occurs(x) > 1 => Occurs(x)' > 1
         /\ t \in Attempted => Occurs(t)' > 1
<1> DEFINE S == Transactions
<1>1. executions \in Seq(S)
  BY DEF LedgerTypeOK
<1> HIDE DEF S
<1> DEFINE e == Append(executions, t)
<1>2. /\ e \in Seq(Range(e)) /\ Len(e) = Len(executions) + 1 /\ Len(executions) \in Nat
      /\ \A n \in 1..Len(executions) : e[n] = executions[n]
      /\ e[Len(executions) + 1] = t
  BY <1>1, AppendFacts
<1> HIDE DEF e
<1>3. DOMAIN e = 1..(Len(executions) + 1) /\ DOMAIN executions = 1..Len(executions)
  BY <1>1, <1>2
<1>4. executions' = e
  BY DEF e
<1> DEFINE last == Len(executions) + 1
<1>5. /\ last \in DOMAIN e /\ e[last] = t /\ last \notin DOMAIN executions
      /\ \A k \in DOMAIN executions : k \in DOMAIN e /\ e[k] = executions[k]
      /\ \A k \in DOMAIN e : k \in DOMAIN executions \/ k = last
  BY <1>2, <1>3
<1> HIDE DEF last
<1>6. Attempted' = Attempted \cup {t}
  BY <1>4, <1>5 DEF Attempted, ToSet
<1> DEFINE old(x) == {k \in DOMAIN executions : executions[k] = x}
           new(x) == {k \in DOMAIN e : e[k] = x}
<1>7. IsFiniteSet(DOMAIN e)
  BY <1>2, <1>3, FS_Interval
<1>8. \A x : Occurs(x) = Cardinality(old(x)) /\ Occurs(x)' = Cardinality(new(x))
  BY <1>4 DEF Occurs
<1>9. \A x : old(x) \subseteq new(x) /\ new(x) \subseteq DOMAIN e
  BY <1>5
<1>10. last \in new(t) /\ last \notin old(t)
  BY <1>5
<1>11. t \in Attempted => old(t) # {}
  BY DEF Attempted, ToSet
<1> HIDE DEF old, new
<1>12. ASSUME NEW x PROVE IsFiniteSet(new(x)) /\ old(x) \subseteq new(x)
  BY <1>7, <1>9, FS_Subset
<1>13. \A x : Occurs(x) > 1 => Occurs(x)' > 1
  <2> TAKE x
  <2>1. Occurs(x) = Cardinality(old(x)) /\ Occurs(x)' = Cardinality(new(x))
    BY <1>8
  <2>2. /\ Cardinality(old(x)) \in Nat /\ Cardinality(new(x)) \in Nat
        /\ Cardinality(old(x)) <= Cardinality(new(x))
    BY <1>12, PartsAreSmaller
  <2> QED BY <2>1, <2>2
<1>14. ASSUME t \in Attempted PROVE Occurs(t)' > 1
  <2>1. old(t) # {} /\ old(t) # new(t)
    BY <1>10, <1>11, <1>14
  <2>2. Cardinality(new(t)) > 1
    BY <1>12, <2>1, PartsAreSmaller
  <2> QED BY <1>8, <2>2
<1> QED BY <1>6, <1>13, <1>14

-----------------------------------------------------------------------------
(* Executing a transaction *)

LEMMA LongerSequences ==
  ASSUME NEW S, NEW T, S \subseteq T
  PROVE  \A s \in Seq(S) : s \in Seq(T)
OBVIOUS

\* What an execution does, without the order in which it does it
Executed(t, entries) ==
  /\ Attempted' = Attempted \cup {t}
  /\ \A a \in Accounts : ToSet(booked'[a]) = ToSet(booked[a]) \cup Fresh(t, entries, a)
  /\ \A a \in Accounts : Fresh(t, entries, a) \subseteq Ids'
  /\ IsInjective(ledger')
  /\ Executes(entries) => /\ saved' = saved \cup {t}
                          /\ ToSet(ledger') = ToSet(ledger) \cup Unsaved(entries, booked')
  /\ ~Executes(entries) => saved' = saved /\ ledger' = ledger

LEMMA ExecutionsAreTyped ==
  ASSUME LedgerInv, Grown, accounts' \subseteq Accounts,
         NEW t \in Transactions', NEW entries, entries = built'[t].entries,
         ExecuteSingle(t, entries)
  PROVE  LedgerTypeOK' /\ Executed(t, entries)
<1>1. LedgerTypeOK /\ TransactionsAreBalanced /\ IsInjective(ledger)
  BY DEF LedgerInv, LoggedOnce
<1>2. WellMade(entries) /\ Ids \subseteq Ids' /\ Transactions \subseteq Transactions'
  BY <1>1, GrownIds DEF Grown
<1>3. Attempted' = Attempted \cup {t}
  BY <1>1, OneMoreExecution DEF ExecuteSingle
<1>4. executions' \in Seq(Transactions')
  <2> DEFINE S == Transactions
  <2>1. executions \in Seq(S) /\ S \subseteq Transactions'
    BY <1>1, <1>2 DEF LedgerTypeOK
  <2> HIDE DEF S
  <2>2. executions \in Seq(Transactions')
    BY <2>1, LongerSequences
  <2> DEFINE T == Transactions'
  <2>3. t \in T /\ executions \in Seq(T)
    BY <2>2
  <2> HIDE DEF T
  <2>4. Append(executions, t) \in Seq(T)
    BY <2>3
  <2> QED BY <2>4 DEF T, ExecuteSingle
<1>5. \A a \in Accounts : Fresh(t, entries, a) \subseteq Ids'
  BY DEF Fresh, Ids
<1>6. /\ booked' = [a \in Accounts |-> booked'[a]]
      /\ \A a \in Accounts :
           /\ booked'[a] \in Seq(Ids \cup Fresh(t, entries, a))
           /\ ToSet(booked'[a]) = ToSet(booked[a]) \cup Fresh(t, entries, a)
  <2>1. booked' = BookedAfter(t, entries)
    BY DEF ExecuteSingle
  <2> QED BY <1>1, <1>2, <2>1, BookedGrows
<1>7. booked' \in [Accounts -> Seq(Ids')]
  <2>1. ASSUME NEW a \in Accounts PROVE booked'[a] \in Seq(Ids')
    <3>1. Ids \cup Fresh(t, entries, a) \subseteq Ids'
      BY <1>2, <1>5
    <3> QED BY <1>6, <3>1, LongerSequences
  <2> QED BY <1>6, <2>1
<1>8. balance' \in [Accounts -> Int]
  <2>1. \A a \in Accounts :
          SumAt(entries, {n \in 1..Len(entries) : entries[n].account = a /\ Counted(entries, n)}) \in Int
    <3> SUFFICES ASSUME NEW a \in Accounts
                 PROVE  SumAt(entries, {n \in 1..Len(entries) :
                                          entries[n].account = a /\ Counted(entries, n)}) \in Int
      OBVIOUS
    <3> DEFINE S == {n \in 1..Len(entries) : entries[n].account = a /\ Counted(entries, n)}
    <3>1. S \subseteq 1..Len(entries)
      OBVIOUS
    <3> HIDE DEF S
    <3>2. SumAt(entries, S) \in Int
      BY <1>2, <3>1, SumAtIsTotal, TotalIsInt
    <3> QED BY <3>2 DEF S
  <2>2. \A a \in Accounts : balance[a] \in Int
    BY <1>1 DEF LedgerTypeOK
  <2> DEFINE more == [a \in Accounts |->
               SumAt(entries, {n \in 1..Len(entries) : entries[n].account = a /\ Counted(entries, n)})]
  <2>3. balance' = [a \in Accounts |-> balance[a] + more[a]] /\ \A a \in Accounts : more[a] \in Int
    BY <2>1 DEF ExecuteSingle, BalanceAfter
  <2> HIDE DEF more
  <2> QED BY <2>2, <2>3
<1>9. CASE Executes(entries)
  <2>1. saved' = saved \cup {t} /\ ledger' = LedgerAfter(entries, booked')
    BY <1>9 DEF ExecuteSingle
  <2>2. /\ ledger' \in Seq(Ids \cup Ids') /\ IsInjective(ledger')
        /\ ToSet(ledger') = ToSet(ledger) \cup Unsaved(entries, booked')
    BY <1>1, <1>2, <1>7, <2>1, LedgerGrows
  <2>3. Ids \cup Ids' = Ids'
    BY <1>2
  <2>4. saved' \subseteq Attempted'
    BY <1>1, <1>3, <2>1 DEF LedgerTypeOK
  <2>5. LedgerTypeOK'
    BY <1>4, <1>7, <1>8, <2>2, <2>3, <2>4 DEF LedgerTypeOK, Grown
  <2> QED BY <1>3, <1>5, <1>6, <1>9, <2>1, <2>2, <2>5 DEF Executed
<1>10. CASE ~Executes(entries)
  <2>1. saved' = saved /\ ledger' = ledger
    BY <1>10 DEF ExecuteSingle
  <2>2. ledger' \in Seq(Ids')
    BY <1>1, <1>2, <2>1, LongerSequences DEF LedgerTypeOK
  <2>3. saved' \subseteq Attempted'
    BY <1>1, <1>3, <2>1 DEF LedgerTypeOK
  <2>4. LedgerTypeOK'
    BY <1>4, <1>7, <1>8, <2>2, <2>3 DEF LedgerTypeOK, Grown
  <2>5. IsInjective(ledger')
    BY <1>1, <2>1
  <2> QED BY <1>3, <1>5, <1>6, <1>10, <2>1, <2>4, <2>5 DEF Executed
<1> QED BY <1>9, <1>10

LEMMA FailuresStillRepeat ==
  ASSUME LedgerInv, Grown, NEW t \in Transactions', NEW entries, entries = built'[t].entries,
         Executed(t, entries)
  PROVE  /\ FailuresRepeat'
         /\ NoneFailed' => NoneFailed /\ Executes(entries)
<1>1. /\ \A x \in Attempted : x \in saved <=> Executes(built[x].entries)
      /\ \A x \in Attempted : built'[x].entries = built[x].entries
      /\ saved \subseteq Attempted
  BY ExecutionsAreBuilt DEF LedgerInv, FailuresRepeat, Grown
<1>2. ASSUME NEW x \in Attempted' PROVE x \in saved' <=> Executes(built'[x].entries)
  <2>1. CASE x = t
    BY <1>1, <2>1 DEF Executed
  <2>2. CASE x # t
    <3>1. x \in Attempted /\ (x \in saved' <=> x \in saved)
      BY <2>2 DEF Executed
    <3> QED BY <1>1, <3>1
  <2> QED BY <2>1, <2>2
<1>3. FailuresRepeat'
  BY <1>2 DEF FailuresRepeat, Executes, Mismatches
<1>4. ASSUME NoneFailed' PROVE NoneFailed /\ Executes(entries)
  <2>1. Attempted' \subseteq saved'
    BY <1>4 DEF NoneFailed
  <2>2. Executes(entries)
    BY <1>2, <2>1 DEF Executed
  <2>3. \A x \in Attempted : x \in saved
    BY <1>1, <1>2, <2>1 DEF Executed
  <2> QED BY <2>2, <2>3 DEF NoneFailed
<1> QED BY <1>3, <1>4

LEMMA HistoryIsKept ==
  ASSUME LedgerInv, Grown, NEW t \in Transactions', NEW entries, entries = built'[t].entries,
         LedgerTypeOK', Executed(t, entries)
  PROVE  NotedWhenExecuted' /\ LoggedOnce'
<1>1. /\ \A id \in Ids : EntryOf(id)' = EntryOf(id)
      /\ TransactionsAreBalanced'
  BY GrownIds DEF LedgerInv
<1>2. \A a \in Accounts : \A id \in Fresh(t, entries, a) : EntryOf(id)'.account = a /\ id[1] = t
  BY DEF Fresh, EntryOf
<1>3. ASSUME NEW a \in Accounts, NEW id \in ToSet(booked'[a])
      PROVE  EntryOf(id)'.account = a /\ id[1] \in Attempted'
  <2>1. CASE id \in Fresh(t, entries, a)
    BY <1>2, <2>1 DEF Executed
  <2>2. CASE id \notin Fresh(t, entries, a)
    <3>1. id \in ToSet(booked[a]) /\ id \in Ids
      BY <2>2, ExecutionsAreBuilt DEF Executed, LedgerInv
    <3>2. EntryOf(id).account = a /\ id[1] \in Attempted
      BY <3>1 DEF LedgerInv, NotedWhenExecuted
    <3> QED BY <1>1, <3>1, <3>2 DEF Executed
  <2> QED BY <2>1, <2>2
<1>4. NotedWhenExecuted'
  BY <1>3 DEF NotedWhenExecuted, EntryOf
<1>5. ASSUME NEW id \in ToSet(ledger') PROVE id \in ToSet(booked'[EntryOf(id)'.account])
  <2>1. CASE id \in ToSet(ledger)
    <3>1. id \in Ids
      BY <2>1, LoggedAreIds DEF LedgerInv
    <3>2. id \in ToSet(booked[EntryOf(id).account]) /\ EntryOf(id).account \in Accounts
      BY <2>1, <3>1, EntriesOfIds DEF LedgerInv, LoggedOnce
    <3> QED BY <1>1, <3>1, <3>2 DEF Executed
  <2>2. CASE id \notin ToSet(ledger)
    <3>1. id \in Unsaved(entries, booked')
      BY <2>2 DEF Executed
    <3>2. PICK a \in Involved(entries) : id \in ToSet(booked'[a])
      BY <3>1 DEF Unsaved
    <3>3. a \in Accounts
      BY <1>1 DEF TransactionsAreBalanced, WellMade, Involved
    <3>4. EntryOf(id)'.account = a
      BY <1>3, <3>2, <3>3
    <3> QED BY <3>2, <3>4
  <2> QED BY <2>1, <2>2
<1>6. LoggedOnce'
  BY <1>5 DEF LoggedOnce, Executed
<1> QED BY <1>4, <1>6

-----------------------------------------------------------------------------
(* The books balance *)

AccountsOf(entries) == [n \in 1..Len(entries) |-> entries[n].account]
PlacesOf(entries, a) == {n \in 1..Len(entries) : entries[n].account = a}

LEMMA NothingStops ==
  ASSUME NEW entries, Executes(entries)
  PROVE  \A n \in 1..Len(entries) : Noted(entries, n) /\ Counted(entries, n)
BY DEF Executes, Stops, Noted, Counted

LEMMA BalancesMove ==
  ASSUME NEW t, NEW entries, WellMade(entries), Executes(entries), ExecuteSingle(t, entries)
  PROVE  \A a \in Accounts :
           /\ balance'[a] = balance[a] + Total(Amounts(entries), PartOf(AccountsOf(entries), 1..Len(entries), {a}))
           /\ PartOf(AccountsOf(entries), 1..Len(entries), {a}) =
                PlacesOf(entries, a)
<1> SUFFICES ASSUME NEW a \in Accounts
             PROVE  /\ balance'[a] = balance[a] + Total(Amounts(entries), PartOf(AccountsOf(entries), 1..Len(entries), {a}))
                    /\ PartOf(AccountsOf(entries), 1..Len(entries), {a}) =
                         PlacesOf(entries, a)
  OBVIOUS
<1> DEFINE S == {n \in 1..Len(entries) : entries[n].account = a /\ Counted(entries, n)}
<1>1. S = PlacesOf(entries, a) /\ S \subseteq 1..Len(entries)
  BY NothingStops DEF PlacesOf
<1>2. PartOf(AccountsOf(entries), 1..Len(entries), {a}) = PlacesOf(entries, a)
  BY DEF PartOf, AccountsOf, PlacesOf
<1>3. balance'[a] = balance[a] + SumAt(entries, S)
  BY DEF ExecuteSingle, BalanceAfter
<1> HIDE DEF S
<1>4. SumAt(entries, S) = Total(Amounts(entries), S)
  BY <1>1, SumAtIsTotal
<1> QED BY <1>1, <1>2, <1>3, <1>4

\* A complete execution adds entries that add up to zero to the balances.
LEMMA BooksStillBalance ==
  ASSUME LedgerAssumption, LedgerInv, LedgerTypeOK', NEW t, NEW entries,
         WellMade(entries), Balanced(entries), Executes(entries), ExecuteSingle(t, entries),
         NoneFailed
  PROVE  SumOfBalances' = 0
<1> DEFINE D == DoubleEntry
           N == 1..Len(entries)
           g == AccountsOf(entries)
           q == Amounts(entries)
<1>1. D \subseteq Accounts /\ IsFiniteSet(D) /\ SumOfBalances = Total(balance, D)
  BY BalancesAddUp DEF LedgerInv
<1>2. Measures(balance, D) /\ Measures(balance', D) /\ SumOfBalances' = Total(balance', D)
  BY BalancesAddUp, BalancesAddUpNext DEF LedgerInv
<1>3. IsFiniteSet(N) /\ Measures(q, N)
  BY AmountIsInt
<1>4. \A a \in D : balance'[a] = balance[a] + Total(q, PartOf(g, N, {a}))
  BY <1>1, BalancesMove
<1>5. PartOf(g, N, D) = {n \in N : entries[n].account \in D}
  BY DEF PartOf, AccountsOf
<1>6. Total(q, PartOf(g, N, D)) = 0
  <2> DEFINE P == {n \in 1..Len(entries) : entries[n].account \in DoubleEntry}
  <2>1. SumAt(entries, P) = 0 /\ P \subseteq 1..Len(entries)
    BY DEF Balanced
  <2>2. PartOf(g, N, D) = P
    BY <1>5
  <2> HIDE DEF P
  <2> QED BY <2>1, <2>2, SumAtIsTotal
<1>7. Total(balance, D) = 0
  BY <1>1 DEF LedgerInv, BooksBalance
<1> HIDE DEF D, N, g, q
<1>9. Total(balance', D) = Total(balance, D) + Total(q, PartOf(g, N, D))
  <2>1. PICK before, after : before = balance /\ after = balance'
    OBVIOUS
  <2>2. /\ Measures(before, D) /\ Measures(after, D)
        /\ Moves(before, after, D, q, g, N)
    BY <1>2, <1>4, <2>1 DEF Moves
  <2>3. Total(after, D) = Total(before, D) + Total(q, PartOf(g, N, D))
    BY ONLY <1>1, <1>3, <2>2, TotalByGroup
  <2> QED BY <2>1, <2>3
<1> QED BY <1>2, <1>6, <1>7, <1>9

-----------------------------------------------------------------------------
(* The balances are those of the entry repository *)

LEMMA SavedAreLogged ==
  ASSUME LedgerInv, Grown, NEW t \in Transactions', NEW entries, entries = built'[t].entries,
         Executed(t, entries)
  PROVE  /\ \A x \in saved' : \A n \in 1..Len(built'[x].entries) : <<x, n>> \in ToSet(ledger')
         /\ ToSet(ledger) \subseteq ToSet(ledger')
<1>1. ToSet(ledger) \subseteq ToSet(ledger')
  BY DEF Executed
<1>2. ASSUME NEW x \in saved', NEW n \in 1..Len(built'[x].entries) PROVE <<x, n>> \in ToSet(ledger')
  <2>1. CASE x \in saved
    <3>1. built'[x].entries = built[x].entries
      BY <2>1, ExecutionsAreBuilt DEF LedgerInv, Grown
    <3>2. <<x, n>> \in ToSet(ledger)
      BY <2>1, <3>1 DEF LedgerInv, BalanceIsReconstructible
    <3> QED BY <1>1, <3>2
  <2>2. CASE x \notin saved
    <3>1. Executes(entries) /\ x = t /\ n \in 1..Len(entries)
      BY <2>2 DEF Executed
    <3>2. <<t, n>> \in Fresh(t, entries, entries[n].account)
      BY <3>1, NothingStops DEF Fresh
    <3>3. entries[n].account \in Accounts /\ entries[n].account \in Involved(entries)
      BY <3>1 DEF Grown, WellMade, Involved
    <3>4. <<t, n>> \in ToSet(booked'[entries[n].account])
      BY <3>2, <3>3 DEF Executed
    <3>5. <<t, n>> \in UNION {ToSet(booked'[a]) : a \in Involved(entries)}
      BY <3>3, <3>4
    <3>6. <<t, n>> \in Unsaved(entries, booked') \cup ToSet(ledger)
      BY <3>5 DEF Unsaved
    <3> QED BY <3>1, <3>6 DEF Executed
  <2> QED BY <2>1, <2>2
<1> QED BY <1>1, <1>2

\* A complete execution logs its own entries and no others.
LEMMA LoggedGrows ==
  ASSUME LedgerInv, Grown, NEW t \in Transactions', NEW entries, entries = built'[t].entries,
         Executed(t, entries), NotedWhenExecuted', NoneFailed, Executes(entries), NEW a \in Accounts
  PROVE  LoggedOf(a)' = LoggedOf(a) \cup Fresh(t, entries, a)
<1>1. /\ \A id \in Ids : EntryOf(id)' = EntryOf(id)
      /\ \A id \in Fresh(t, entries, a) : EntryOf(id)'.account = a
  BY GrownIds DEF LedgerInv, Fresh, EntryOf
<1>2. ToSet(ledger) \subseteq Ids
  BY LoggedAreIds DEF LedgerInv
<1>3. LoggedOf(a) \subseteq LoggedOf(a)'
  BY <1>1, <1>2, SavedAreLogged DEF LoggedOf
<1>4. ASSUME NEW id \in Fresh(t, entries, a) PROVE id \in LoggedOf(a)'
  <2>1. PICK n \in 1..Len(entries) : id = <<t, n>> /\ entries[n].account = a
    BY DEF Fresh
  <2>2. t \in saved'
    BY DEF Executed
  <2>3. id \in ToSet(ledger')
    BY <2>1, <2>2, SavedAreLogged
  <2> QED BY <1>1, <2>3 DEF LoggedOf
<1>5. ASSUME NEW id \in LoggedOf(a)', id \notin Fresh(t, entries, a) PROVE id \in LoggedOf(a)
  <2>1. id \in ToSet(ledger') /\ EntryOf(id)'.account = a
    BY DEF LoggedOf
  <2>2. CASE id \in ToSet(ledger)
    BY <1>1, <1>2, <2>1, <2>2 DEF LoggedOf
  <2>3. CASE id \notin ToSet(ledger)
    <3>1. id \in Unsaved(entries, booked')
      BY <2>1, <2>3 DEF Executed
    <3>2. PICK b \in Involved(entries) : id \in ToSet(booked'[b])
      BY <3>1 DEF Unsaved
    <3>3. b \in Accounts
      BY DEF Grown, WellMade, Involved
    <3>4. b = a
      BY <2>1, <3>2, <3>3 DEF NotedWhenExecuted, EntryOf
    <3>5. id \in ToSet(booked[a]) /\ id \in Ids
      BY <1>5, <3>2, <3>4, ExecutionsAreBuilt DEF Executed, LedgerInv
    <3>6. id[1] \in saved
      BY <3>5 DEF LedgerInv, NotedWhenExecuted, NoneFailed
    <3>7. id = <<id[1], id[2]>> /\ id[2] \in 1..Len(built[id[1]].entries)
      BY <3>5, EntriesOfIds DEF LedgerInv
    <3>8. <<id[1], id[2]>> \in ToSet(ledger)
      BY <3>6, <3>7 DEF LedgerInv, BalanceIsReconstructible
    <3> QED BY <2>3, <3>7, <3>8
  <2> QED BY <2>2, <2>3
<1> QED BY <1>3, <1>4, <1>5

LEMMA FreshAmounts ==
  ASSUME SumsAreKnown', NEW t \in Transactions', NEW entries, entries = built'[t].entries,
         WellMade(entries), Executes(entries), NEW a
  PROVE  /\ IsFiniteSet(Fresh(t, entries, a)) /\ Fresh(t, entries, a) \subseteq Ids'
         /\ Total(AmountOf', Fresh(t, entries, a)) =
              Total(Amounts(entries), PlacesOf(entries, a))
<1> DEFINE P == PlacesOf(entries, a)
           id == [n \in P |-> <<t, n>>]
           F == Fresh(t, entries, a)
<1>1. P \subseteq 1..Len(entries) /\ \A n \in P : id[n] = <<t, n>>
  BY DEF PlacesOf
<1>2. F = Renamed(id, P)
  <2>1. F = {<<t, n>> : n \in P}
    BY NothingStops DEF Fresh, PlacesOf
  <2> HIDE DEF P, F
  <2> QED BY <2>1 DEF Renamed
<1>3. F \subseteq Ids' /\ \A n \in P : EntryOf(<<t, n>>)' = entries[n]
  BY DEF Fresh, Ids, EntryOf, PlacesOf
<1> HIDE DEF P, id, F
<1>4. IsFiniteSet(P) /\ Measures(Amounts(entries), P)
  BY <1>1, SumAtIsTotal
<1>5. \A m, n \in P : id[m] = id[n] => m = n
  BY <1>1
<1> DEFINE q == AmountOf'
           p == Amounts(entries)
<1>6. Measures(q, F) /\ \A i \in F : q[i] = Amount(EntryOf(i)')
  BY <1>3 DEF SumsAreKnown, Measures, Amount
<1>7. \A n \in P : p[n] = Amount(entries[n])
  BY <1>1, AmountIsInt
<1>8. \A n \in P : p[n] = q[id[n]]
  <2> SUFFICES ASSUME NEW n \in P PROVE p[n] = q[id[n]]
    OBVIOUS
  <2>1. id[n] \in F
    BY <1>2 DEF Renamed
  <2>2. EntryOf(id[n])' = entries[n]
    BY <1>1, <1>3
  <2>3. q[id[n]] = Amount(EntryOf(id[n])')
    BY <1>6, <2>1
  <2> QED BY <1>7, <2>2, <2>3
<1>9. PICK r : r = q
  OBVIOUS
<1>10. Measures(r, Renamed(id, P)) /\ \A n \in P : p[n] = r[id[n]]
  BY <1>2, <1>6, <1>8, <1>9
<1> HIDE DEF p, q
<1>11. Total(p, P) = Total(r, Renamed(id, P))
  BY <1>4, <1>5, <1>10, TotalOfRenamed DEF p
<1>12. IsFiniteSet(F)
  BY <1>2, <1>4, RenamedIsFinite
<1> QED BY <1>2, <1>3, <1>9, <1>11, <1>12 DEF p, q, P, F

LEMMA RepeatedStays ==
  ASSUME LedgerTypeOK, Grown, NEW t \in Transactions', executions' = Append(executions, t), NEW a
  PROVE  /\ Repeated(a) => Repeated(a)'
         /\ (t \in Attempted /\ \E n \in 1..Len(built'[t].entries) : built'[t].entries[n].account = a)
              => Repeated(a)'
<1>1. ASSUME Repeated(a) PROVE Repeated(a)'
  <2>1. PICK x \in Transactions : Occurs(x) > 1 /\ \E n \in 1..Len(built[x].entries) :
                                    built[x].entries[n].account = a
    BY <1>1 DEF Repeated
  <2>2. x \in Transactions' /\ built'[x].entries = built[x].entries /\ Occurs(x)' > 1
    BY <2>1, OneMoreExecution DEF Grown
  <2> QED BY <2>1, <2>2 DEF Repeated
<1>2. ASSUME t \in Attempted, \E n \in 1..Len(built'[t].entries) : built'[t].entries[n].account = a
      PROVE  Repeated(a)'
  <2>1. Occurs(t)' > 1
    BY <1>2, OneMoreExecution
  <2> QED BY <1>2, <2>1 DEF Repeated
<1> QED BY <1>1, <1>2

LEMMA SumsFollowBalances ==
  ASSUME LedgerInv, Grown, NEW t \in Transactions', NEW entries, entries = built'[t].entries,
         ExecuteSingle(t, entries), Executed(t, entries), NotedWhenExecuted',
         SumsAreKnown, SumsAreKnown', NoneFailed, Executes(entries),
         NEW a \in Accounts, ~Repeated(a)'
  PROVE  balance'[a] = SumOfEntries(a)'
<1> DEFINE F == Fresh(t, entries, a)
           P == PlacesOf(entries, a)
           L == LoggedOf(a)
<1>1. WellMade(entries) /\ LedgerTypeOK /\ TransactionsAreBalanced
  BY DEF Grown, LedgerInv
<1>2. executions' = Append(executions, t)
  BY DEF ExecuteSingle
<1>3. balance[a] = SumOfEntries(a) /\ (t \in Attempted => P = {})
  <2>1. ~Repeated(a) /\ (t \in Attempted => P = {})
    BY <1>1, <1>2, RepeatedStays DEF PlacesOf
  <2> QED BY <2>1 DEF LedgerInv, BalanceIsReconstructible
<1>4. balance'[a] = balance[a] + Total(Amounts(entries), P)
  <2>1. balance'[a] = balance[a] + Total(Amounts(entries), PartOf(AccountsOf(entries), 1..Len(entries), {a}))
    BY <1>1, BalancesMove
  <2>2. PartOf(AccountsOf(entries), 1..Len(entries), {a}) = P
    BY <1>1, BalancesMove
  <2> HIDE DEF P
  <2> QED BY <2>1, <2>2
<1>5. /\ IsFiniteSet(F) /\ F \subseteq Ids'
      /\ Total(AmountOf', F) = Total(Amounts(entries), P)
  BY <1>1, FreshAmounts
<1>6. LoggedOf(a)' = L \cup F
  BY LoggedGrows
<1>7. L \cap F = {}
  <2> SUFFICES ASSUME NEW id \in F, id \in L PROVE FALSE
    OBVIOUS
  <2>1. id[1] = t /\ P # {}
    BY DEF Fresh, PlacesOf
  <2>2. id \in ToSet(ledger) /\ id \in Ids
    BY <1>1, LoggedAreIds DEF LoggedOf
  <2>3. EntryOf(id).account \in Accounts /\ id \in ToSet(booked[EntryOf(id).account])
    BY <1>1, <2>2, EntriesOfIds DEF LedgerInv, LoggedOnce
  <2>4. id[1] \in Attempted
    BY <2>3 DEF LedgerInv, NotedWhenExecuted
  <2> HIDE DEF P
  <2> QED BY <1>3, <2>1, <2>4
<1>8. /\ IsFiniteSet(L) /\ L \subseteq Ids /\ SumOfEntries(a) = Total(AmountOf, L)
  BY DEF SumsAreKnown
<1>9. SumOfEntries(a)' = Total(AmountOf', LoggedOf(a)')
  BY DEF SumsAreKnown
<1>10. Total(AmountOf', L) = Total(AmountOf, L)
  BY <1>1, <1>8, SumsStay
<1>11. L \cup F \subseteq Ids' /\ Measures(AmountOf', Ids')
  BY <1>1, <1>5, <1>8, GrownIds DEF SumsAreKnown
<1> HIDE DEF F, P, L
<1>12. Total(AmountOf', L \cup F) = Total(AmountOf', L) + Total(AmountOf', F)
  <2>1. PICK q, ids : q = AmountOf' /\ ids = Ids'
    OBVIOUS
  <2>2. L \cup F \subseteq ids /\ Measures(q, ids)
    BY <1>11, <2>1
  <2>3. Measures(q, L \cup F)
    BY <2>2 DEF Measures
  <2>4. Total(q, L \cup F) = Total(q, L) + Total(q, F)
    BY <1>5, <1>7, <1>8, <2>3, TotalOfUnion
  <2> QED BY <2>1, <2>4
<1> QED BY <1>3, <1>4, <1>5, <1>6, <1>8, <1>9, <1>10, <1>12

LEMMA ExecutingKeepsTheBooks ==
  ASSUME LedgerAssumption, LedgerInv, Grown, accounts' \subseteq Accounts,
         NEW t \in Transactions', NEW entries, entries = built'[t].entries,
         ExecuteSingle(t, entries)
  PROVE  LedgerInv'
<1>1. LedgerTypeOK' /\ Executed(t, entries) /\ WellMade(entries) /\ Balanced(entries)
  BY ExecutionsAreTyped DEF Grown
<1>2. /\ FailuresRepeat' /\ NotedWhenExecuted' /\ LoggedOnce'
      /\ NoneFailed' => NoneFailed /\ Executes(entries)
  BY <1>1, FailuresStillRepeat, HistoryIsKept
<1>3. TransactionsAreBalanced'
  BY GrownIds DEF LedgerInv
<1>4. SumsAreKnown /\ SumsAreKnown'
  BY <1>1, <1>2, <1>3, SumsBeforeAndAfter DEF LedgerInv, LoggedOnce
<1>5. BooksBalance'
  <2> SUFFICES ASSUME NoneFailed' PROVE SumOfBalances' = 0
    BY DEF BooksBalance
  <2> QED BY <1>1, <1>2, BooksStillBalance
<1>6. BalanceIsReconstructible'
  <2>1. \A x \in saved' : \A n \in 1..Len(built'[x].entries) : <<x, n>> \in ToSet(ledger')
    BY <1>1, SavedAreLogged
  <2>2. ASSUME NoneFailed', NEW a \in Accounts, ~Repeated(a)' PROVE balance'[a] = SumOfEntries(a)'
    BY <1>1, <1>2, <1>4, <2>2, SumsFollowBalances
  <2>3. ASSUME NoneFailed', NEW n \in 1..Len(ledger') PROVE ledger'[n][1] \in saved'
    <3>1. ledger'[n] \in ToSet(ledger') /\ ledger'[n] \in Ids'
      <4>1. ledger' \in Seq(Ids')
        BY <1>1 DEF LedgerTypeOK
      <4> QED BY <4>1 DEF ToSet
    <3>2. PICK id : id = ledger'[n]
      OBVIOUS
    <3>3. EntryOf(id)'.account \in Accounts
      BY <1>3, <3>1, <3>2, AccountsBeforeAndAfter
    <3>4. id \in ToSet(booked'[EntryOf(id)'.account])
      BY <1>2, <3>1, <3>2 DEF LoggedOnce
    <3>5. id[1] \in Attempted'
      BY <1>2, <3>3, <3>4 DEF NotedWhenExecuted
    <3> QED BY <2>3, <3>2, <3>5 DEF NoneFailed
  <2> QED BY <2>1, <2>2, <2>3 DEF BalanceIsReconstructible
<1> QED BY <1>1, <1>2, <1>3, <1>5, <1>6 DEF LedgerInv

LEMMA BuildingKeepsTheBooks ==
  ASSUME LedgerInv, Grown, accounts' \subseteq Accounts,
         UNCHANGED <<saved, booked, balance, ledger, executions>>
  PROVE  LedgerInv'
<1>1. /\ LedgerTypeOK /\ TransactionsAreBalanced /\ TransactionsAreBalanced'
      /\ Ids \subseteq Ids' /\ \A id \in Ids : EntryOf(id)' = EntryOf(id)
  BY GrownIds DEF LedgerInv
<1>2. /\ Attempted' = Attempted /\ Attempted \subseteq Transactions
      /\ saved \subseteq Attempted /\ Transactions \subseteq Transactions'
      /\ ToSet(ledger) \subseteq Ids /\ \A a \in Accounts : ToSet(booked[a]) \subseteq Ids
      /\ \A x \in Attempted : built'[x].entries = built[x].entries
  BY <1>1, ExecutionsAreBuilt, LoggedAreIds DEF Attempted, Grown
<1>3. LedgerTypeOK'
  <2>1. executions' \in Seq(Transactions')
    BY <1>1, <1>2, LongerSequences DEF LedgerTypeOK
  <2>2. ledger' \in Seq(Ids')
    BY <1>1, LongerSequences DEF LedgerTypeOK
  <2>3. booked' \in [Accounts -> Seq(Ids')]
    <3>1. \A s \in Seq(Ids) : s \in Seq(Ids')
      BY <1>1, LongerSequences
    <3> QED BY <1>1, <3>1 DEF LedgerTypeOK
  <2> QED BY <1>1, <1>2, <2>1, <2>2, <2>3 DEF LedgerTypeOK, Grown
<1>4. FailuresRepeat'
  BY <1>2 DEF LedgerInv, FailuresRepeat, Executes, Mismatches
<1>5. NotedWhenExecuted'
  BY <1>1, <1>2 DEF LedgerInv, NotedWhenExecuted
<1>6. LoggedOnce'
  <2>1. \A id \in ToSet(ledger') : id \in ToSet(booked'[EntryOf(id)'.account])
    BY <1>1, <1>2 DEF LedgerInv, LoggedOnce
  <2> QED BY <2>1 DEF LedgerInv, LoggedOnce
<1>7. SumsAreKnown /\ SumsAreKnown'
  BY <1>1, <1>3, <1>6, SumsBeforeAndAfter DEF LedgerInv, LoggedOnce
<1>8. NoneFailed' <=> NoneFailed
  BY <1>2 DEF NoneFailed
<1>9. BooksBalance'
  <2>1. SumOfBalances' = SumOfBalances
    BY <1>1, <1>3, LedgerAssumption, BalancesAddUp, BalancesAddUpNext
  <2> QED BY <1>8, <2>1 DEF LedgerInv, BooksBalance
<1>10. ASSUME NEW a \in Accounts PROVE SumOfEntries(a)' = SumOfEntries(a)
  <2>1. LoggedOf(a)' = LoggedOf(a)
    BY <1>1, <1>2 DEF LoggedOf
  <2>2. LoggedOf(a) \subseteq Ids
    BY <1>7 DEF SumsAreKnown
  <2>3. Total(AmountOf', LoggedOf(a)) = Total(AmountOf, LoggedOf(a))
    BY <1>1, <1>7, <2>2, SumsStay
  <2>4. SumOfEntries(a)' = Total(AmountOf', LoggedOf(a)')
    BY <1>7 DEF SumsAreKnown
  <2>5. SumOfEntries(a) = Total(AmountOf, LoggedOf(a))
    BY <1>7 DEF SumsAreKnown
  <2> QED BY <2>1, <2>3, <2>4, <2>5
<1>11. ASSUME NEW a, Repeated(a) PROVE Repeated(a)'
  <2>1. PICK x \in Transactions : Occurs(x) > 1 /\ \E n \in 1..Len(built[x].entries) :
                                    built[x].entries[n].account = a
    BY <1>11 DEF Repeated
  <2>2. Occurs(x)' = Occurs(x)
    BY DEF Occurs
  <2> QED BY <1>2, <2>1, <2>2 DEF Repeated, Grown
<1>12. BalanceIsReconstructible'
  <2>1. \A x \in saved' : \A n \in 1..Len(built'[x].entries) : <<x, n>> \in ToSet(ledger')
    BY <1>2 DEF LedgerInv, BalanceIsReconstructible
  <2>2. ASSUME NoneFailed', NEW a \in Accounts PROVE Repeated(a)' \/ balance'[a] = SumOfEntries(a)'
    BY <1>8, <1>10, <1>11, <2>2 DEF LedgerInv, BalanceIsReconstructible
  <2>3. ASSUME NoneFailed', NEW n \in 1..Len(ledger') PROVE ledger'[n][1] \in saved'
    BY <1>8, <2>3 DEF LedgerInv, BalanceIsReconstructible
  <2> QED BY <2>1, <2>2, <2>3 DEF BalanceIsReconstructible
<1> QED BY <1>1, <1>3, <1>4, <1>5, <1>6, <1>9, <1>12 DEF LedgerInv

-----------------------------------------------------------------------------
(* The specification *)

LEMMA InitiallyBalanced == NewBooks /\ accounts \subseteq Accounts => LedgerInv
<1> SUFFICES ASSUME NewBooks, accounts \subseteq Accounts PROVE LedgerInv
  OBVIOUS
<1>1. Len(built) = 0 /\ Len(ledger) = 0 /\ Transactions = {} /\ Attempted = {} /\ ToSet(ledger) = {}
  BY DEF NewBooks, Transactions, Attempted, ToSet
<1>2. LedgerTypeOK
  <2>1. built \in Seq(Range(built)) /\ executions \in Seq(Transactions) /\ ledger \in Seq(Ids)
    BY DEF NewBooks
  <2>2. booked \in [Accounts -> Seq(Ids)] /\ balance \in [Accounts -> Int]
    BY DEF NewBooks
  <2> QED BY <2>1, <2>2 DEF NewBooks, LedgerTypeOK
<1>3. IsInjective(ledger)
  BY DEF NewBooks, IsInjective
<1>4. TransactionsAreBalanced /\ FailuresRepeat /\ LoggedOnce
  BY <1>1, <1>3 DEF TransactionsAreBalanced, FailuresRepeat, LoggedOnce
<1>5. NotedWhenExecuted
  <2>1. \A a \in Accounts : ToSet(booked[a]) = {}
    BY DEF NewBooks, ToSet
  <2> QED BY <2>1 DEF NotedWhenExecuted
<1>6. SumsAreKnown
  BY <1>2, <1>3, <1>4, SumsBeforeAndAfter
<1>7. BooksBalance
  <2>1. SumOfBalances = Total(balance, DoubleEntry)
    BY <1>2, LedgerAssumption, BalancesAddUp
  <2>2. \A a \in DoubleEntry : balance[a] = 0
    BY DEF NewBooks, DoubleEntry
  <2>3. Units(Gains(balance), DoubleEntry) = {} /\ Units(Losses(balance), DoubleEntry) = {}
    BY DEF NewBooks, DoubleEntry, Units, Gains, Losses
  <2>4. Total(balance, DoubleEntry) = 0
    BY <2>3, FS_EmptySet DEF Total
  <2> QED BY <2>1, <2>4 DEF BooksBalance
<1>8. BalanceIsReconstructible
  <2>1. \A a \in Accounts : balance[a] = SumOfEntries(a)
    <3> SUFFICES ASSUME NEW a \in Accounts PROVE balance[a] = SumOfEntries(a)
      OBVIOUS
    <3>1. LoggedOf(a) = {} /\ balance[a] = 0
      BY <1>1 DEF LoggedOf, NewBooks
    <3>2. SumOfEntries(a) = Total(AmountOf, {})
      BY <1>6, <3>1 DEF SumsAreKnown
    <3> QED BY <3>1, <3>2, TotalOfNone
  <2> QED BY <1>1, <2>1 DEF NewBooks, BalanceIsReconstructible
<1> QED BY <1>2, <1>4, <1>5, <1>7, <1>8 DEF LedgerInv

\* What Keep and ExecuteSingle do to a new transaction that is well made
LEMMA NewOnesKeepTheBooks ==
  ASSUME LedgerInv, accounts' = accounts, NEW tx, WellMade(tx.entries), Keep(tx),
         \/ UNCHANGED <<saved, booked, balance, ledger, executions>>
         \/ ExecuteSingle(Len(built) + 1, tx.entries)
  PROVE  LedgerInv'
<1>1. /\ Grown /\ Len(built) + 1 \in Transactions'
      /\ built'[Len(built) + 1].entries = tx.entries
  BY OneMoreIsBuilt DEF LedgerInv, Keep, Buildable
<1>2. accounts' \subseteq Accounts
  BY DEF LedgerInv, LedgerTypeOK
<1> QED BY <1>1, <1>2, LedgerAssumption, BuildingKeepsTheBooks, ExecutingKeepsTheBooks

LEMMA BooksAreKept == LedgerInv /\ [Next]_vars => LedgerInv'
<1> SUFFICES ASSUME LedgerInv, [Next]_vars PROVE LedgerInv'
  OBVIOUS
<1> USE LedgerAssumption
<1>0. LedgerTypeOK /\ TransactionsAreBalanced /\ accounts \subseteq Accounts /\ \A n \in 1..Len(ledger) : ledger[n] \in Ids
  BY LoggedAreIds DEF LedgerInv, LedgerTypeOK
<1>1. ASSUME NEW new \in (SUBSET Accounts) \ {{}}, CreateAccounts(new) PROVE LedgerInv'
  <2>1. Grown /\ accounts' \subseteq Accounts /\ UNCHANGED <<saved, booked, balance, ledger, executions>>
    BY <1>0, <1>1, NoneIsBuilt DEF CreateAccounts
  <2> QED BY <2>1, BuildingKeepsTheBooks
<1>2. ASSUME NEW new \in (SUBSET (Accounts \ accounts)) \ {{}}, NEW p \in Postings, CreateWithBalances(new, p)
      PROVE  LedgerInv'
  <2> DEFINE lines == [n \in 1..Len(p) |-> [p[n] EXCEPT !.validTo = Forever]]
             tx == PostingTx(lines, now, [n \in 1..Len(p) |-> NoEntry])
  <2>1. WellMade(tx.entries)
    BY OpeningsAreWellMade
  <2>2. accounts' \subseteq Accounts
    BY <1>0, <1>2 DEF CreateWithBalances
  <2>3. \/ /\ Buildable(tx.entries, accounts') /\ built' = Append(built, tx)
           /\ ExecuteSingle(Len(built) + 1, tx.entries)
        \/ UNCHANGED <<built, saved, booked, balance, ledger, executions>>
    BY <1>2 DEF CreateWithBalances
  <2> HIDE DEF tx
  <2>4. CASE /\ Buildable(tx.entries, accounts') /\ built' = Append(built, tx)
             /\ ExecuteSingle(Len(built) + 1, tx.entries)
    <3>1. /\ Grown /\ Len(built) + 1 \in Transactions'
          /\ built'[Len(built) + 1].entries = tx.entries
      BY <1>0, <2>1, <2>4, OneMoreIsBuilt DEF Buildable
    <3> QED BY <2>2, <2>4, <3>1, ExecutingKeepsTheBooks
  <2>5. CASE UNCHANGED <<built, saved, booked, balance, ledger, executions>>
    BY <1>0, <2>2, <2>5, NoneIsBuilt, BuildingKeepsTheBooks
  <2> QED BY <2>3, <2>4, <2>5
<1>3. ASSUME NEW n \in 1..Len(ledger), NEW c \in CompensationChoices, Compensate(ledger[n], c)
      PROVE  LedgerInv'
  <2> DEFINE tx == CompensationTx(ledger[n], now, c)
  <2>1. WellMade(tx.entries)
    BY <1>0, CompensationsAreWellMade
  <2>2. accounts' = accounts /\ Keep(tx) /\ ExecuteSingle(Len(built) + 1, tx.entries)
    BY <1>3 DEF Compensate
  <2> HIDE DEF tx
  <2> QED BY <2>1, <2>2, NewOnesKeepTheBooks
<1>4. ASSUME NEW p \in Postings, Handle(p) PROVE LedgerInv'
  <2>1. PICK tx \in PostingTxs(p, now) : Keep(tx) /\ ExecuteSingle(Len(built) + 1, tx.entries)
    BY <1>4 DEF Handle
  <2>2. accounts' = accounts
    BY <1>4 DEF Handle
  <2> QED BY <2>1, <2>2, PostingsAreBuilt, NewOnesKeepTheBooks
<1>5. CASE Tick
  <2>1. Grown /\ accounts' \subseteq Accounts /\ UNCHANGED <<saved, booked, balance, ledger, executions>>
    BY <1>0, <1>5, NoneIsBuilt DEF Tick
  <2> QED BY <2>1, BuildingKeepsTheBooks
<1>6. ASSUME NEW p \in Postings, NEW at \in 0..MaxTime, Build(p, at) PROVE LedgerInv'
  <2>1. PICK tx \in PostingTxs(p, at) : Keep(tx)
    BY <1>6 DEF Build
  <2>2. accounts' = accounts /\ UNCHANGED <<saved, booked, balance, ledger, executions>>
    BY <1>6 DEF Build
  <2> QED BY <2>1, <2>2, PostingsAreBuilt, NewOnesKeepTheBooks
<1>7. ASSUME NEW n \in 1..Len(ledger), NEW c \in CompensationChoices, BuildCompensation(ledger[n], c)
      PROVE  LedgerInv'
  <2> DEFINE tx == CompensationTx(ledger[n], now, c)
  <2>1. WellMade(tx.entries)
    BY <1>0, CompensationsAreWellMade
  <2>2. accounts' = accounts /\ Keep(tx) /\ UNCHANGED <<saved, booked, balance, ledger, executions>>
    BY <1>7 DEF BuildCompensation
  <2> HIDE DEF tx
  <2> QED BY <2>1, <2>2, NewOnesKeepTheBooks
<1>8. ASSUME NEW t \in Transactions, Execute(t) PROVE LedgerInv'
  <2>1. ExecuteSingle(t, built[t].entries) /\ accounts' = accounts /\ built' = built
    BY <1>8 DEF Execute
  <2>2. Grown /\ t \in Transactions' /\ built'[t].entries = built[t].entries
    BY <1>0, <2>1, NoneIsBuilt DEF Grown
  <2> QED BY <1>0, <2>1, <2>2, ExecutingKeepsTheBooks
<1>9. ASSUME NEW t \in Transactions, HandleReverse(t) PROVE LedgerInv'
  <2> DEFINE tx == ReversalTx(t, now)
  <2>1. WellMade(tx.entries)
    BY <1>0, ReversalsAreWellMade DEF TransactionsAreBalanced
  <2>2. accounts' = accounts /\ Keep(tx) /\ ExecuteSingle(Len(built) + 1, tx.entries)
    BY <1>9 DEF HandleReverse
  <2> HIDE DEF tx
  <2> QED BY <2>1, <2>2, NewOnesKeepTheBooks
<1>10. CASE UNCHANGED vars
  <2>1. Grown /\ accounts' \subseteq Accounts /\ UNCHANGED <<saved, booked, balance, ledger, executions>>
    BY <1>0, <1>10, NoneIsBuilt DEF vars
  <2> QED BY <2>1, BuildingKeepsTheBooks
<1> QED BY <1>1, <1>2, <1>3, <1>4, <1>5, <1>6, <1>7, <1>8, <1>9, <1>10 DEF Next, PromptNext

LEMMA BooksStayKept == Spec => []LedgerInv
<1>1. Init => LedgerInv
  BY InitiallyBalanced DEF Init
<1> QED BY <1>1, BooksAreKept, PTL DEF Spec

\* However transactions are built, dated, executed, executed again, reversed and
\* compensated, the balances of the double-entry accounts add up to zero as long as
\* no execution failed (BooksBalance): an execution that completes books exactly the
\* entries that the balancing constraint passed when the transaction was built.
THEOREM BooksAreBalanced == Spec => []BooksBalance
<1>1. LedgerInv => BooksBalance
  BY DEF LedgerInv
<1> QED BY <1>1, BooksStayKept, PTL

\* The running balances, the transaction repository and the entry repository agree
\* for every account of which no transaction was executed again
\* (BalanceIsReconstructible).
THEOREM BalancesAreReconstructible == Spec => []BalanceIsReconstructible
<1>1. LedgerInv => BalanceIsReconstructible
  BY DEF LedgerInv
<1> QED BY <1>1, BooksStayKept, PTL

-----------------------------------------------------------------------------
(* Posting rules: the inductive invariant *)

\* Publishing calls, and what set off a transaction
Frames ==
  [tx : Transactions, events : Seq(Ids), entry : Ids \cup {NoEntry}, rules : Seq(RuleBook)]
RuleNames == {r.id : r \in RuleBook} \cup {Client.rule}
Causes == [rule : RuleNames, entry : Ids \cup {NoEntry}, rules : Seq(RuleBook)]

RulesTypeOK ==
  /\ rules \in Seq(RuleBook)
  /\ causes \in Seq(Causes) /\ Len(causes) = Len(built)
  /\ pending \in [Accounts -> Seq(Ids)]
  /\ stack \in Seq(Frames)
  /\ refused \subseteq Transactions

OneOfAnId(rs) == \A m, n \in DOMAIN rs : rs[m].id = rs[n].id => m = n

\* An event waits in one place, and no more once its entry is looked at.
EventsOnce(frames, waiting) ==
  /\ \A i \in DOMAIN frames :
       /\ IsInjective(frames[i].events) /\ frames[i].entry \notin ToSet(frames[i].events)
       /\ \A a \in Accounts :
            /\ frames[i].entry \notin ToSet(waiting[a])
            /\ ToSet(frames[i].events) \cap ToSet(waiting[a]) = {}
  /\ \A a, b \in Accounts : a # b => ToSet(waiting[a]) \cap ToSet(waiting[b]) = {}
  /\ \A i, j \in DOMAIN frames : i # j =>
       /\ frames[i].entry \notin ToSet(frames[j].events)
       /\ frames[i].entry = frames[j].entry => frames[i].entry = NoEntry
       /\ ToSet(frames[i].events) \cap ToSet(frames[j].events) = {}

\* A waiting event has set off nothing yet.
NothingDue(frames, waiting, due) ==
  \A k \in DOMAIN due :
    /\ \A i \in DOMAIN frames : due[k].entry \notin ToSet(frames[i].events)
    /\ \A a \in Accounts : due[k].entry \notin ToSet(waiting[a])

\* A call publishes its own entries, and those of failed calls before it.
EventsAreOwn(frames, waiting, failed) ==
  /\ \A i \in DOMAIN frames :
       \A id \in ToSet(frames[i].events) \cup ({frames[i].entry} \ {NoEntry}) :
         id[1] = frames[i].tx \/ id[1] \in failed
  /\ \A a \in Accounts : \A id \in ToSet(waiting[a]) : id[1] \in failed

\* Nobody changes the rules while they run, and a call is due to its caller's entry.
CallsAreNested(frames, due) ==
  \A i \in DOMAIN frames :
    /\ due[frames[i].tx].rules = rules
    /\ i > 1 => due[frames[i].tx].entry = frames[i - 1].entry

\* The rules that a call has yet to run follow those that it ran for its entry.
FollowsOn(frame, due) ==
  frame.rules # <<>> =>
    LET left == frame.rules IN
    /\ frame.entry # NoEntry
    /\ ToSet(left) \subseteq ToSet(rules)
    /\ \A m, n \in DOMAIN left : m < n =>
         left[m].priority <= left[n].priority /\ left[m].id # left[n].id
    /\ \A k \in DOMAIN due : due[k].entry = frame.entry =>
         \A m \in DOMAIN left :
           PriorityOf(due[k]) <= left[m].priority /\ due[k].rule # left[m].id

RulesLeft(frames, due) == \A i \in DOMAIN frames : FollowsOn(frames[i], due)

\* What is due to one entry
DueInTurn(due) ==
  \A j, k \in DOMAIN due :
    j < k /\ due[j].entry = due[k].entry /\ due[k].entry # NoEntry =>
      PriorityOf(due[j]) <= PriorityOf(due[k]) /\ due[j].rule # due[k].rule

DueToEligible(due, failed) ==
  \A k \in DOMAIN due :
    /\ OneOfAnId(due[k].rules)
    /\ due[k].entry # NoEntry =>
         /\ \E r \in ToSet(due[k].rules) :
              r.id = due[k].rule /\ (OfEntry(r) => IsEligible(r, due[k].entry))
         /\ due[k].entry[1] \in failed \/ due[k].rules = due[due[k].entry[1]].rules

\* An eligible rule was run for an entry, or is about to be, unless a rule before it failed.
RunsOrRan(r, id, frames, due, failed) ==
  \/ \E k \in DOMAIN due : due[k].entry = id /\ (due[k].rule = r.id \/ k \in failed)
  \/ \E i \in DOMAIN frames :
       /\ frames[i].tx = id[1]
       /\ \/ id \in ToSet(frames[i].events)
          \/ frames[i].entry = id /\ r \in ToSet(frames[i].rules)

AllFollow(frames, due, failed) ==
  \A id \in Ids : id[1] \notin failed =>
    \A r \in ToSet(due[id[1]].rules) :
      OfEntry(r) /\ IsEligible(r, id) => RunsOrRan(r, id, frames, due, failed)

RulesInv ==
  /\ LedgerInv
  /\ RulesTypeOK
  /\ OneOfAnId(rules)
  /\ EventsOnce(stack, pending)
  /\ NothingDue(stack, pending, causes)
  /\ EventsAreOwn(stack, pending, refused)
  /\ CallsAreNested(stack, causes)
  /\ RulesLeft(stack, causes)
  /\ DueInTurn(causes)
  /\ DueToEligible(causes, refused)
  /\ AllFollow(stack, causes, refused)

-----------------------------------------------------------------------------
(* Calls on a stack *)

LEMMA TopOfStack ==
  ASSUME NEW S, NEW s \in Seq(S), s # <<>>
  PROVE  /\ Len(s) \in Nat /\ Len(s) >= 1 /\ DOMAIN s = 1..Len(s)
         /\ Last(s) = s[Len(s)] /\ Last(s) \in S
         /\ Front(s) \in Seq(S) /\ Len(Front(s)) = Len(s) - 1 /\ DOMAIN Front(s) = 1..(Len(s) - 1)
         /\ \A i \in 1..(Len(s) - 1) : Front(s)[i] = s[i]
<1>1. /\ Len(s) \in Nat /\ Len(s) >= 1 /\ DOMAIN s = 1..Len(s)
      /\ \A i \in 1..Len(s) : s[i] \in S
  OBVIOUS
<1>2. Last(s) = s[Len(s)] /\ Last(s) \in S
  BY <1>1 DEF Last
<1> DEFINE u == Front(s)
           N == Len(s) - 1
<1>3. u = [i \in 1..N |-> s[i]]
  <2>1. u = SubSeq(s, 1, N)
    BY DEF Front
  <2>2. SubSeq(s, 1, N) = [i \in 1..((N - 1) + 1) |-> s[(i + 1) - 1]]
    BY <1>1
  <2>3. (N - 1) + 1 = N /\ \A i \in 1..N : (i + 1) - 1 = i
    BY <1>1
  <2> HIDE DEF N, u
  <2> QED BY <2>1, <2>2, <2>3
<1>4. N \in Nat
  BY <1>1
<1> HIDE DEF u
<1>5. u \in [1..N -> S] /\ \A i \in 1..N : u[i] = s[i]
  BY <1>1, <1>3, <1>4
<1> HIDE DEF N
<1>6. u \in Seq(S) /\ Len(u) = N /\ DOMAIN u = 1..N
  BY <1>4, <1>5
<1> QED BY <1>1, <1>2, <1>5, <1>6 DEF u, N

LEMMA PushedOn ==
  ASSUME NEW S, NEW s \in Seq(S), NEW f \in S, NEW w, w = Append(s, f)
  PROVE  /\ w \in Seq(S) /\ Len(w) = Len(s) + 1 /\ Len(s) \in Nat
         /\ DOMAIN w = 1..(Len(s) + 1) /\ DOMAIN s = 1..Len(s)
         /\ \A i \in 1..Len(s) : w[i] = s[i]
         /\ w[Len(s) + 1] = f
OBVIOUS

LEMMA TopReplaced ==
  ASSUME NEW S, NEW s \in Seq(S), s # <<>>, NEW f \in S
  PROVE  /\ Append(Front(s), f) \in Seq(S) /\ Len(Append(Front(s), f)) = Len(s)
         /\ Len(s) \in Nat /\ Len(s) >= 1
         /\ DOMAIN Append(Front(s), f) = 1..Len(s) /\ Append(Front(s), f)[Len(s)] = f
         /\ \A i \in 1..(Len(s) - 1) : Append(Front(s), f)[i] = s[i]
<1> DEFINE u == Front(s)
           w == Append(u, f)
<1>1. /\ Len(s) \in Nat /\ Len(s) >= 1 /\ u \in Seq(S) /\ Len(u) = Len(s) - 1
      /\ \A i \in 1..(Len(s) - 1) : u[i] = s[i]
  BY TopOfStack
<1> HIDE DEF u
<1>2. /\ w \in Seq(S) /\ Len(w) = Len(u) + 1 /\ DOMAIN w = 1..(Len(u) + 1)
      /\ \A i \in 1..Len(u) : w[i] = u[i]
      /\ w[Len(u) + 1] = f
  BY <1>1, PushedOn
<1> HIDE DEF w
<1>3. /\ w \in Seq(S) /\ Len(w) = Len(s) /\ DOMAIN w = 1..Len(s) /\ w[Len(s)] = f
      /\ \A i \in 1..(Len(s) - 1) : w[i] = s[i]
  BY <1>1, <1>2
<1> QED BY <1>1, <1>3 DEF w, u

LEMMA HeadAndTail ==
  ASSUME NEW S, NEW s \in Seq(S), s # <<>>
  PROVE  /\ Head(s) = s[1] /\ 1 \in DOMAIN s /\ Head(s) \in S /\ Tail(s) \in Seq(S)
         /\ Len(s) \in Nat /\ DOMAIN Tail(s) = 1..(Len(s) - 1) /\ DOMAIN s = 1..Len(s)
         /\ \A i \in DOMAIN Tail(s) : i + 1 \in DOMAIN s /\ Tail(s)[i] = s[i + 1]
         /\ ToSet(s) = {Head(s)} \cup ToSet(Tail(s))
<1> DEFINE t == Tail(s)
           h == Head(s)
<1>1. /\ h = s[1] /\ 1 \in DOMAIN s /\ h \in S /\ t \in Seq(S)
      /\ Len(s) \in Nat /\ DOMAIN t = 1..(Len(s) - 1) /\ DOMAIN s = 1..Len(s)
      /\ \A i \in DOMAIN t : i + 1 \in DOMAIN s /\ t[i] = s[i + 1]
  OBVIOUS
<1> HIDE DEF t, h
<1>2. \A i \in DOMAIN s : i = 1 \/ (i - 1 \in DOMAIN t /\ t[i - 1] = s[i])
  <2> SUFFICES ASSUME NEW i \in DOMAIN s, i # 1 PROVE i - 1 \in DOMAIN t /\ t[i - 1] = s[i]
    OBVIOUS
  <2>1. i - 1 \in DOMAIN t /\ (i - 1) + 1 = i
    BY <1>1
  <2> QED BY <1>1, <2>1
<1>3. ToSet(s) = {h} \cup ToSet(t)
  BY <1>1, <1>2 DEF ToSet
<1> QED BY <1>1, <1>3 DEF t, h

LEMMA OneLeft ==
  ASSUME NEW S, NEW s \in Seq(S), s # <<>>, IsInjective(s)
  PROVE  IsInjective(Tail(s)) /\ Head(s) \notin ToSet(Tail(s))
<1> DEFINE t == Tail(s)
           h == Head(s)
<1>1. /\ h = s[1] /\ 1 \in DOMAIN s
      /\ DOMAIN t \subseteq 1..(Len(s) - 1) /\ Len(s) \in Nat
      /\ \A i \in DOMAIN t : i + 1 \in DOMAIN s /\ t[i] = s[i + 1]
  BY HeadAndTail
<1> HIDE DEF t, h
<1>2. IsInjective(t)
  <2> SUFFICES ASSUME NEW i \in DOMAIN t, NEW j \in DOMAIN t, t[i] = t[j] PROVE i = j
    BY DEF IsInjective
  <2>1. i + 1 = j + 1
    BY <1>1 DEF IsInjective
  <2> QED BY <1>1, <2>1
<1>3. h \notin ToSet(t)
  <2> SUFFICES ASSUME NEW i \in DOMAIN t, t[i] = h PROVE FALSE
    BY DEF ToSet
  <2>1. i + 1 = 1
    BY <1>1 DEF IsInjective
  <2> QED BY <1>1, <2>1
<1> QED BY <1>2, <1>3 DEF t, h

\* What is left of frames when calls return, end, or go on
Narrows(frames, after) ==
  /\ frames \in Seq(Frames) /\ after \in Seq(Frames) /\ Len(after) <= Len(frames)
  /\ \A i \in 1..Len(after) :
       /\ after[i].tx = frames[i].tx
       /\ IsInjective(after[i].events)
       /\ ToSet(after[i].events) \subseteq ToSet(frames[i].events)
       /\ \/ after[i].entry = frames[i].entry
          \/ after[i].entry \in ToSet(frames[i].events) \ ToSet(after[i].events)
       /\ i < Len(frames) => after[i].entry = frames[i].entry

LEMMA NarrowerIsKept ==
  ASSUME NEW frames, NEW after, Narrows(frames, after), NEW waiting, NEW due, NEW failed, NEW more,
         EventsOnce(frames, waiting), NothingDue(frames, waiting, due),
         EventsAreOwn(frames, waiting, failed), CallsAreNested(frames, due), failed \subseteq more
  PROVE  /\ EventsOnce(after, waiting) /\ NothingDue(after, waiting, due)
         /\ EventsAreOwn(after, waiting, more) /\ CallsAreNested(after, due)
<1>1. /\ DOMAIN frames = 1..Len(frames) /\ DOMAIN after = 1..Len(after)
      /\ Len(frames) \in Nat /\ Len(after) \in Nat
      /\ \A i \in DOMAIN after : i \in DOMAIN frames /\ i \in Int
  BY DEF Narrows
<1>2. \A i \in DOMAIN after :
        /\ after[i].tx = frames[i].tx
        /\ IsInjective(after[i].events)
        /\ ToSet(after[i].events) \subseteq ToSet(frames[i].events)
        /\ \/ after[i].entry = frames[i].entry
           \/ after[i].entry \in ToSet(frames[i].events) \ ToSet(after[i].events)
  BY <1>1 DEF Narrows
<1>3. EventsOnce(after, waiting)
  <2>1. ASSUME NEW i \in DOMAIN after
        PROVE  /\ IsInjective(after[i].events) /\ after[i].entry \notin ToSet(after[i].events)
               /\ \A a \in Accounts :
                    /\ after[i].entry \notin ToSet(waiting[a])
                    /\ ToSet(after[i].events) \cap ToSet(waiting[a]) = {}
    BY <1>1, <1>2 DEF EventsOnce
  <2>2. ASSUME NEW i \in DOMAIN after, NEW j \in DOMAIN after, i # j
        PROVE  /\ after[i].entry \notin ToSet(after[j].events)
               /\ after[i].entry = after[j].entry => after[i].entry = NoEntry
               /\ ToSet(after[i].events) \cap ToSet(after[j].events) = {}
    <3> DEFINE E == ToSet(frames[i].events)
               F == ToSet(frames[j].events)
               e == frames[i].entry
               f == frames[j].entry
    <3>1. /\ e \notin E /\ f \notin F /\ e \notin F /\ f \notin E /\ E \cap F = {}
          /\ e = f => e = NoEntry
      BY <1>1, <2>2 DEF EventsOnce
    <3>2. /\ ToSet(after[i].events) \subseteq E /\ ToSet(after[j].events) \subseteq F
          /\ after[i].entry = e \/ after[i].entry \in E
          /\ after[j].entry = f \/ after[j].entry \in F
      BY <1>2
    <3> HIDE DEF E, F, e, f
    <3> QED BY <3>1, <3>2
  <2>3. \A a, b \in Accounts : a # b => ToSet(waiting[a]) \cap ToSet(waiting[b]) = {}
    BY DEF EventsOnce
  <2> QED BY <2>1, <2>2, <2>3 DEF EventsOnce
<1>4. NothingDue(after, waiting, due)
  BY <1>1, <1>2 DEF NothingDue
<1>5. EventsAreOwn(after, waiting, more)
  BY <1>1, <1>2 DEF EventsAreOwn
<1>6. CallsAreNested(after, due)
  <2> SUFFICES ASSUME NEW i \in DOMAIN after
               PROVE  /\ due[after[i].tx].rules = rules
                      /\ i > 1 => due[after[i].tx].entry = after[i - 1].entry
    BY DEF CallsAreNested
  <2>1. /\ after[i].tx = frames[i].tx /\ due[frames[i].tx].rules = rules
        /\ i > 1 => due[frames[i].tx].entry = frames[i - 1].entry
    BY <1>1, <1>2 DEF CallsAreNested
  <2>2. i > 1 => after[i - 1].entry = frames[i - 1].entry
    BY <1>1 DEF Narrows
  <2> QED BY <2>1, <2>2
<1> QED BY <1>3, <1>4, <1>5, <1>6

-----------------------------------------------------------------------------
(* Steps that execute nothing *)

LEMMA NothingChanges ==
  ASSUME UNCHANGED vars
  PROVE  /\ Ids' = Ids /\ Transactions' = Transactions /\ Frames' = Frames /\ Causes' = Causes
         /\ \A r, id : IsEligible(r, id)' <=> IsEligible(r, id)
<1>1. built' = built /\ balance' = balance
  BY DEF vars
<1>2. Ids' = Ids /\ Transactions' = Transactions
  BY <1>1 DEF Ids, Transactions
<1>3. ASSUME NEW r, NEW id PROVE IsEligible(r, id)' <=> IsEligible(r, id)
  <2>1. EntryOf(id)' = EntryOf(id)
    BY <1>1 DEF EntryOf
  <2>2. ASSUME NEW test PROVE Passes(test, EntryOf(id))' = Passes(test, EntryOf(id))
    BY <1>1, <2>1 DEF Passes
  <2> QED BY <2>2 DEF IsEligible
<1> QED BY <1>2, <1>3 DEF Frames, Causes

LEMMA QuietStepsFollow ==
  ASSUME RulesInv, UNCHANGED <<vars, rules, causes, pending>>, NEW after, stack' = after,
         Narrows(stack, after), refused \subseteq refused', refused' \subseteq Transactions,
         RulesLeft(after, causes), AllFollow(after, causes, refused')
  PROVE  RulesInv'
<1>1. LedgerInv'
  BY BooksAreKept DEF RulesInv
<1>2. /\ Ids' = Ids /\ Transactions' = Transactions /\ Frames' = Frames /\ Causes' = Causes
      /\ \A r, id : IsEligible(r, id)' <=> IsEligible(r, id)
  BY NothingChanges
<1>3. /\ rules' = rules /\ causes' = causes /\ pending' = pending /\ built' = built
  BY DEF vars
<1>4. RulesTypeOK'
  BY <1>2, <1>3 DEF RulesInv, RulesTypeOK, Narrows
<1>5. /\ EventsOnce(after, pending) /\ NothingDue(after, pending, causes)
      /\ EventsAreOwn(after, pending, refused') /\ CallsAreNested(after, causes)
  BY NarrowerIsKept DEF RulesInv
<1>6. CallsAreNested(stack, causes)' /\ RulesLeft(stack, causes)'
  BY <1>3, <1>5 DEF CallsAreNested, RulesLeft, FollowsOn
<1>7. DueToEligible(causes, refused)'
  <2>1. DueToEligible(causes, refused)
    BY DEF RulesInv
  <2> QED BY <1>2, <1>3, <2>1 DEF DueToEligible
<1>8. AllFollow(stack, causes, refused)'
  BY <1>2, <1>3 DEF AllFollow
<1>9. EventsOnce(stack, pending)' /\ NothingDue(stack, pending, causes)' /\ EventsAreOwn(stack, pending, refused)'
  BY <1>3, <1>5
<1>10. OneOfAnId(rules)' /\ DueInTurn(causes)'
  BY <1>3 DEF RulesInv
<1> QED BY <1>1, <1>4, <1>6, <1>7, <1>8, <1>9, <1>10 DEF RulesInv

-----------------------------------------------------------------------------
(* Eligible rules *)

LEMMA EligibleAreListed ==
  ASSUME RuleBookAssumption, rules \in Seq(RuleBook), OneOfAnId(rules), NEW id
  PROVE  /\ EligibleRules(id) \in Seq(RuleBook)
         /\ ToSet(EligibleRules(id)) = {r \in ToSet(rules) : IsEligible(r, id)}
         /\ \A m, n \in DOMAIN EligibleRules(id) : m < n =>
              /\ EligibleRules(id)[m].priority <= EligibleRules(id)[n].priority
              /\ EligibleRules(id)[m].id # EligibleRules(id)[n].id
<1> DEFINE F == Found(id)
           Before == {pair \in F \X F : RunsBefore(pair[1], pair[2])}
           places == ListedBy(F, Before)
           E == EligibleRules(id)
<1>1. Len(rules) \in Nat /\ DOMAIN rules = 1..Len(rules) /\ \A n \in DOMAIN rules : rules[n] \in RuleBook
  OBVIOUS
<1>2. F = {n \in DOMAIN rules : IsEligible(rules[n], id)}
  BY DEF Found
<1>3. \A x, y \in F : <<x, y>> \in Before <=> RunsBefore(x, y)
  OBVIOUS
<1>4. E = RulesAt(places)
  BY DEF EligibleRules
<1> HIDE DEF F, Before, places, E
<1>5. \A n \in F : n \in DOMAIN rules /\ n \in Int /\ rules[n].priority \in Int
  BY <1>1, <1>2 DEF RuleBookAssumption
<1>6. IsFiniteSet(F)
  <2>1. IsFiniteSet(1..Len(rules)) /\ F \subseteq 1..Len(rules)
    BY <1>1, <1>2, FS_Interval
  <2> QED BY <2>1, FS_Subset
<1>7. OrdersStrictly(Before, F)
  <2>1. \A x \in F : <<x, x>> \notin Before
    BY <1>3, <1>5 DEF RunsBefore
  <2>2. ASSUME NEW x \in F, NEW y \in F, NEW z \in F, <<x, y>> \in Before, <<y, z>> \in Before
        PROVE  <<x, z>> \in Before
    <3> DEFINE p == rules[x].priority
               q == rules[y].priority
               r == rules[z].priority
    <3>1. x \in Int /\ y \in Int /\ z \in Int /\ p \in Int /\ q \in Int /\ r \in Int
      BY <1>5
    <3>2. (p < q \/ (p = q /\ x < y)) /\ (q < r \/ (q = r /\ y < z))
      BY <1>3, <2>2 DEF RunsBefore
    <3> SUFFICES p < r \/ (p = r /\ x < z)
      BY <1>3 DEF RunsBefore
    <3> HIDE DEF p, q, r
    <3> QED BY <3>1, <3>2
  <2>3. ASSUME NEW x \in F, NEW y \in F
        PROVE  x = y \/ <<x, y>> \in Before \/ <<y, x>> \in Before
    <3>1. x \in Int /\ y \in Int /\ rules[x].priority \in Int /\ rules[y].priority \in Int
      BY <1>5
    <3>2. \/ rules[x].priority < rules[y].priority \/ rules[y].priority < rules[x].priority
          \/ (rules[x].priority = rules[y].priority) /\ (x < y \/ y < x \/ x = y)
      BY <3>1
    <3> QED BY <1>3, <3>2 DEF RunsBefore
  <2> QED BY <2>1, <2>2, <2>3 DEF OrdersStrictly
<1>8. /\ places \in Seq(F) /\ IsInjective(places) /\ ToSet(places) = F
      /\ \A i, j \in 1..Len(places) : i < j => <<places[i], places[j]>> \in Before
  BY <1>6, <1>7, ListsInTurn DEF places
<1>9. /\ Len(places) \in Nat /\ DOMAIN places = 1..Len(places)
      /\ \A k \in 1..Len(places) : places[k] \in F
  BY <1>8
<1>10. /\ E = [k \in 1..Len(places) |-> rules[places[k]]] /\ DOMAIN E = 1..Len(places)
       /\ \A k \in 1..Len(places) : E[k] = rules[places[k]] /\ E[k] \in RuleBook
  BY <1>1, <1>4, <1>5, <1>9 DEF RulesAt
<1>11. E \in Seq(RuleBook)
  <2>1. E \in [1..Len(places) -> RuleBook]
    BY <1>10
  <2> QED BY <1>9, <2>1
<1>12. ToSet(E) = {r \in ToSet(rules) : IsEligible(r, id)}
  <2>1. ASSUME NEW k \in 1..Len(places) PROVE E[k] \in ToSet(rules) /\ IsEligible(E[k], id)
    BY <1>2, <1>9, <1>10 DEF ToSet
  <2>2. ASSUME NEW n \in DOMAIN rules, IsEligible(rules[n], id) PROVE rules[n] \in ToSet(E)
    <3>1. n \in ToSet(places)
      BY <1>2, <1>8, <2>2
    <3>2. PICK k \in 1..Len(places) : places[k] = n
      BY <1>9, <3>1 DEF ToSet
    <3> QED BY <1>10, <3>2 DEF ToSet
  <2>3. \A r \in ToSet(E) : \E k \in 1..Len(places) : r = E[k]
    BY <1>10 DEF ToSet
  <2>4. \A r \in ToSet(rules) : \E n \in DOMAIN rules : r = rules[n]
    BY DEF ToSet
  <2> QED BY <2>1, <2>2, <2>3, <2>4
<1>13. ASSUME NEW m \in DOMAIN E, NEW n \in DOMAIN E, m < n
       PROVE  E[m].priority <= E[n].priority /\ E[m].id # E[n].id
  <2>1. /\ <<places[m], places[n]>> \in Before /\ places[m] # places[n]
        /\ places[m] \in F /\ places[n] \in F /\ E[m] = rules[places[m]] /\ E[n] = rules[places[n]]
    BY <1>8, <1>9, <1>10, <1>13 DEF IsInjective
  <2>2. RunsBefore(places[m], places[n])
    BY <1>3, <2>1
  <2>3. E[m].id # E[n].id
    BY <1>5, <2>1 DEF OneOfAnId
  <2>4. rules[places[m]].priority \in Int /\ rules[places[n]].priority \in Int
    BY <1>5, <2>1
  <2>5. rules[places[m]].priority <= rules[places[n]].priority
    BY <2>2, <2>4 DEF RunsBefore
  <2> QED BY <2>1, <2>3, <2>5
<1> QED BY <1>11, <1>12, <1>13 DEF E

-----------------------------------------------------------------------------
(* What the call on top goes on with *)

LEMMA TopIs ==
  ASSUME RulesTypeOK, stack # <<>>
  PROVE  /\ stack \in Seq(Frames) /\ Len(stack) \in Nat /\ Len(stack) >= 1
         /\ DOMAIN stack = 1..Len(stack) /\ Len(stack) \in DOMAIN stack
         /\ Top = stack[Len(stack)] /\ Top \in Frames
         /\ Top.tx \in Transactions /\ Top.events \in Seq(Ids)
         /\ Top.entry \in Ids \cup {NoEntry} /\ Top.rules \in Seq(RuleBook)
<1>1. stack \in Seq(Frames)
  BY DEF RulesTypeOK
<1>2. /\ Len(stack) \in Nat /\ Len(stack) >= 1 /\ DOMAIN stack = 1..Len(stack)
      /\ Top = stack[Len(stack)] /\ Top \in Frames
  BY <1>1, TopOfStack DEF Top
<1>3. Len(stack) \in DOMAIN stack
  BY <1>2
<1> HIDE DEF Top
<1>4. /\ Top.tx \in Transactions /\ Top.events \in Seq(Ids)
      /\ Top.entry \in Ids \cup {NoEntry} /\ Top.rules \in Seq(RuleBook)
  BY <1>2 DEF Frames
<1> QED BY <1>1, <1>2, <1>3, <1>4

\* Frames that keep their events narrow the stack.
LEMMA TopNarrows ==
  ASSUME RulesInv, stack # <<>>, NEW f, NEW after, after = WithTop(f),
         f \in Frames, f.tx = Top.tx, IsInjective(f.events), ToSet(f.events) \subseteq ToSet(Top.events),
         f.entry = Top.entry \/ f.entry \in ToSet(Top.events) \ ToSet(f.events)
  PROVE  /\ Narrows(stack, after)
         /\ after \in Seq(Frames) /\ Len(after) = Len(stack) /\ DOMAIN after = DOMAIN stack
         /\ after[Len(stack)] = f /\ \A i \in 1..(Len(stack) - 1) : after[i] = stack[i]
<1> DEFINE N == Len(stack)
<1>1. /\ stack \in Seq(Frames) /\ N \in Nat /\ N >= 1 /\ DOMAIN stack = 1..N /\ Top = stack[N]
  BY TopIs DEF RulesInv
<1>2. /\ after \in Seq(Frames) /\ Len(after) = N /\ DOMAIN after = 1..N /\ after[N] = f
      /\ \A i \in 1..(N - 1) : after[i] = stack[i]
  <2>1. after = Append(Front(stack), f)
    BY DEF WithTop
  <2>2. PICK S, s : S = Frames /\ s = stack
    OBVIOUS
  <2>3. s \in Seq(S) /\ s # <<>> /\ f \in S /\ after = Append(Front(s), f)
    BY <1>1, <2>1, <2>2
  <2>4. /\ after \in Seq(S) /\ Len(after) = Len(s)
        /\ DOMAIN after = 1..Len(s) /\ after[Len(s)] = f
        /\ \A i \in 1..(Len(s) - 1) : after[i] = s[i]
    BY <2>3, TopReplaced
  <2> QED BY <2>2, <2>4
<1> HIDE DEF N
<1>3. ASSUME NEW i \in 1..Len(after)
      PROVE  /\ after[i].tx = stack[i].tx
             /\ IsInjective(after[i].events)
             /\ ToSet(after[i].events) \subseteq ToSet(stack[i].events)
             /\ \/ after[i].entry = stack[i].entry
                \/ after[i].entry \in ToSet(stack[i].events) \ ToSet(after[i].events)
             /\ i < N => after[i].entry = stack[i].entry
  <2>1. CASE i = N
    BY <1>1, <1>2, <2>1
  <2>2. CASE i # N
    <3>1. i \in 1..(N - 1) /\ i \in DOMAIN stack
      BY <1>1, <1>2, <2>2
    <3>2. IsInjective(stack[i].events)
      BY <3>1 DEF RulesInv, EventsOnce
    <3> QED BY <1>2, <3>1, <3>2
  <2> QED BY <2>1, <2>2
<1>4. Narrows(stack, after)
  BY <1>1, <1>2, <1>3 DEF Narrows, N
<1> QED BY <1>1, <1>2, <1>4 DEF N

LEMMA HandlingFollows ==
  ASSUME RuleBookAssumption, RulesInv, HandleEvent PROVE RulesInv'
<1> DEFINE id == Head(Top.events)
           f == [Top EXCEPT !.events = Tail(Top.events), !.entry = id, !.rules = EligibleRules(id)]
           after == WithTop(f)
           N == Len(stack)
<1>1. /\ stack # <<>> /\ Top.rules = <<>> /\ Top.events # <<>> /\ stack' = after
      /\ UNCHANGED <<vars, rules, causes, pending>> /\ refused' = refused
  BY DEF HandleEvent
<1>2. /\ stack \in Seq(Frames) /\ N \in Nat /\ N >= 1 /\ DOMAIN stack = 1..N /\ N \in DOMAIN stack
      /\ Top = stack[N] /\ Top \in Frames /\ Top.tx \in Transactions /\ Top.events \in Seq(Ids)
  BY <1>1, TopIs DEF RulesInv
<1>3. /\ id \in Ids /\ Tail(Top.events) \in Seq(Ids)
      /\ ToSet(Top.events) = {id} \cup ToSet(Tail(Top.events))
      /\ IsInjective(Tail(Top.events)) /\ id \notin ToSet(Tail(Top.events))
  <2>1. IsInjective(Top.events)
    BY <1>2 DEF RulesInv, EventsOnce
  <2> QED BY <1>1, <1>2, <2>1, HeadAndTail, OneLeft
<1>4. /\ EligibleRules(id) \in Seq(RuleBook)
      /\ ToSet(EligibleRules(id)) = {r \in ToSet(rules) : IsEligible(r, id)}
      /\ \A m, n \in DOMAIN EligibleRules(id) : m < n =>
           /\ EligibleRules(id)[m].priority <= EligibleRules(id)[n].priority
           /\ EligibleRules(id)[m].id # EligibleRules(id)[n].id
  <2>1. rules \in Seq(RuleBook) /\ OneOfAnId(rules)
    BY DEF RulesInv, RulesTypeOK
  <2> HIDE DEF id
  <2> QED BY <2>1, EligibleAreListed
<1>5. /\ f.tx = Top.tx /\ f.events = Tail(Top.events) /\ f.entry = id /\ f.rules = EligibleRules(id)
      /\ f \in Frames
  <2> HIDE DEF id
  <2> QED BY <1>2, <1>3, <1>4 DEF Frames
<1> HIDE DEF f
<1>6. /\ Narrows(stack, after) /\ Len(after) = N /\ DOMAIN after = DOMAIN stack
      /\ after[N] = f /\ \A i \in 1..(N - 1) : after[i] = stack[i]
  <2> HIDE DEF after, id
  <2> QED BY <1>1, <1>3, <1>5, TopNarrows DEF after
<1> HIDE DEF after
<1>7. RulesLeft(after, causes)
  <2> SUFFICES ASSUME NEW i \in DOMAIN after PROVE FollowsOn(after[i], causes)
    BY DEF RulesLeft
  <2>1. CASE i # N
    BY <1>2, <1>6, <2>1 DEF RulesInv, RulesLeft
  <2>2. FollowsOn(f, causes)
    <3>1. \A k \in DOMAIN causes : causes[k].entry # id
      BY <1>2, <1>3 DEF RulesInv, NothingDue
    <3>2. id # NoEntry
      <4>1. id[1] \in Transactions
        BY <1>3, EntriesOfIds DEF RulesInv, LedgerInv
      <4> HIDE DEF id
      <4> QED BY <4>1 DEF Transactions, NoEntry
    <3> HIDE DEF id
    <3> QED BY <1>4, <1>5, <3>1, <3>2 DEF FollowsOn
  <2> QED BY <1>6, <2>1, <2>2
<1>8. AllFollow(after, causes, refused')
  <2> SUFFICES ASSUME NEW x \in Ids, x[1] \notin refused, NEW r \in ToSet(causes[x[1]].rules),
                      OfEntry(r), IsEligible(r, x)
               PROVE  RunsOrRan(r, x, after, causes, refused)
    BY <1>1 DEF AllFollow
  <2>1. RunsOrRan(r, x, stack, causes, refused)
    BY DEF RulesInv, AllFollow
  <2>2. CASE \E k \in DOMAIN causes : causes[k].entry = x /\ (causes[k].rule = r.id \/ k \in refused)
    BY <2>2 DEF RunsOrRan
  <2>3. ASSUME NEW i \in DOMAIN stack, stack[i].tx = x[1],
               \/ x \in ToSet(stack[i].events)
               \/ stack[i].entry = x /\ r \in ToSet(stack[i].rules)
        PROVE  RunsOrRan(r, x, after, causes, refused)
    <3>1. CASE i # N
      BY <1>2, <1>6, <2>3, <3>1 DEF RunsOrRan
    <3>2. CASE i = N
      <4>1. x \in ToSet(Top.events)
        BY <1>1, <1>2, <2>3, <3>2 DEF ToSet
      <4>2. CASE x \in ToSet(Tail(Top.events))
        BY <1>2, <1>5, <1>6, <2>3, <3>2, <4>2 DEF RunsOrRan
      <4>3. CASE x = id
        <5>1. causes[Top.tx].rules = rules /\ Top.tx = x[1]
          BY <1>2, <2>3, <3>2 DEF RulesInv, CallsAreNested
        <5>2. r \in ToSet(EligibleRules(id))
          BY <1>4, <4>3, <5>1
        <5> QED BY <1>2, <1>5, <1>6, <3>2, <4>3, <5>1, <5>2 DEF RunsOrRan
      <4> QED BY <1>3, <4>1, <4>2, <4>3
    <3> QED BY <3>1, <3>2
  <2> QED BY <2>1, <2>2, <2>3 DEF RunsOrRan
<1>9. refused' \subseteq Transactions
  BY <1>1 DEF RulesInv, RulesTypeOK
<1> QED BY <1>1, <1>6, <1>7, <1>8, <1>9, QuietStepsFollow

-----------------------------------------------------------------------------
(* Calls that end *)

LEMMA CausesOfAll ==
  ASSUME RulesTypeOK
  PROVE  /\ DOMAIN causes = Transactions /\ Len(causes) = Len(built) /\ Len(causes) \in Nat
         /\ Transactions = 1..Len(causes)
         /\ \A k \in DOMAIN causes : /\ causes[k] \in Causes
                                     /\ causes[k].entry \in Ids \cup {NoEntry}
                                     /\ causes[k].rules \in Seq(RuleBook)
<1>1. causes \in Seq(Causes) /\ Len(causes) = Len(built)
  BY DEF RulesTypeOK
<1>2. /\ DOMAIN causes = 1..Len(causes) /\ Len(causes) \in Nat
      /\ \A k \in DOMAIN causes : causes[k] \in Causes
  BY <1>1
<1>3. \A c \in Causes : c.entry \in Ids \cup {NoEntry} /\ c.rules \in Seq(RuleBook)
  BY DEF Causes
<1> QED BY <1>1, <1>2, <1>3 DEF Transactions

LEMMA FrontNarrows ==
  ASSUME RulesInv, stack # <<>>, NEW after, after = Front(stack)
  PROVE  /\ Narrows(stack, after) /\ RulesLeft(after, causes)
         /\ Len(after) = Len(stack) - 1 /\ DOMAIN after = 1..(Len(stack) - 1)
         /\ \A i \in DOMAIN after : i \in DOMAIN stack /\ after[i] = stack[i]
<1> DEFINE N == Len(stack)
<1>1. /\ stack \in Seq(Frames) /\ N \in Nat /\ N >= 1 /\ DOMAIN stack = 1..N
  BY TopIs DEF RulesInv
<1>2. /\ after \in Seq(Frames) /\ Len(after) = N - 1 /\ DOMAIN after = 1..(N - 1)
      /\ \A i \in 1..(N - 1) : after[i] = stack[i]
  <2>1. PICK S, s : S = Frames /\ s = stack
    OBVIOUS
  <2>2. s \in Seq(S) /\ s # <<>> /\ after = Front(s)
    BY <1>1, <2>1
  <2>3. /\ Front(s) \in Seq(S) /\ Len(Front(s)) = Len(s) - 1 /\ DOMAIN Front(s) = 1..(Len(s) - 1)
        /\ \A i \in 1..(Len(s) - 1) : Front(s)[i] = s[i]
    BY <2>2, TopOfStack
  <2> QED BY <2>1, <2>2, <2>3
<1> HIDE DEF N
<1>3. \A i \in DOMAIN after : i \in DOMAIN stack /\ after[i] = stack[i]
  BY <1>1, <1>2
<1>4. \A i \in DOMAIN stack : IsInjective(stack[i].events) /\ FollowsOn(stack[i], causes)
  BY DEF RulesInv, EventsOnce, RulesLeft
<1>5. Narrows(stack, after)
  BY <1>1, <1>2, <1>3, <1>4 DEF Narrows
<1>6. RulesLeft(after, causes)
  BY <1>3, <1>4 DEF RulesLeft
<1> QED BY <1>2, <1>3, <1>5, <1>6 DEF N

LEMMA RulesEndForTop ==
  ASSUME NEW s, s \in Seq(Frames), NEW w, w = RulesEnd(s)
  PROVE  /\ w \in Seq(Frames) /\ Len(w) = Len(s) /\ Len(s) \in Nat
         /\ DOMAIN w = DOMAIN s /\ DOMAIN s = 1..Len(s)
         /\ \A i \in DOMAIN s :
              /\ w[i].tx = s[i].tx /\ w[i].events = s[i].events /\ w[i].entry = s[i].entry
              /\ w[i].rules = IF i = Len(s) THEN <<>> ELSE s[i].rules
<1>1. Len(s) \in Nat /\ DOMAIN s = 1..Len(s) /\ \A i \in DOMAIN s : s[i] \in Frames
  OBVIOUS
<1>2. CASE s = <<>>
  BY <1>2 DEF RulesEnd
<1>3. CASE s # <<>>
  <2> DEFINE N == Len(s)
             f == [s[N] EXCEPT !.rules = <<>>]
  <2>1. N \in DOMAIN s
    BY <1>1, <1>3
  <2>2. /\ f \in Frames /\ f.tx = s[N].tx /\ f.events = s[N].events /\ f.entry = s[N].entry
        /\ f.rules = <<>>
    <3>1. PICK g \in Frames : g = s[N]
      BY <1>1, <2>1
    <3>2. <<>> \in Seq(RuleBook)
      OBVIOUS
    <3>3. /\ [g EXCEPT !.rules = <<>>] \in Frames
          /\ [g EXCEPT !.rules = <<>>].tx = g.tx /\ [g EXCEPT !.rules = <<>>].events = g.events
          /\ [g EXCEPT !.rules = <<>>].entry = g.entry /\ [g EXCEPT !.rules = <<>>].rules = <<>>
      BY <3>2 DEF Frames
    <3> QED BY <3>1, <3>3
  <2>3. w = [s EXCEPT ![N] = f]
    BY <1>3 DEF RulesEnd
  <2> HIDE DEF f
  <2>4. w \in Seq(Frames) /\ Len(w) = N /\ DOMAIN w = DOMAIN s
    BY <2>1, <2>2, <2>3
  <2>5. \A i \in DOMAIN s : w[i] = IF i = N THEN f ELSE s[i]
    BY <2>3
  <2> QED BY <1>1, <2>2, <2>4, <2>5
<1> QED BY <1>2, <1>3

LEMMA EndedNarrows ==
  ASSUME NEW frames, Narrows(stack, frames), NEW due, RulesLeft(frames, due), NEW after, after = RulesEnd(frames)
  PROVE  Narrows(stack, after) /\ RulesLeft(after, due)
<1>1. /\ frames \in Seq(Frames) /\ stack \in Seq(Frames)
      /\ after \in Seq(Frames) /\ Len(after) = Len(frames) /\ Len(frames) \in Nat
      /\ DOMAIN after = DOMAIN frames /\ DOMAIN frames = 1..Len(frames)
      /\ \A i \in DOMAIN frames :
           /\ after[i].tx = frames[i].tx /\ after[i].events = frames[i].events
           /\ after[i].entry = frames[i].entry
           /\ after[i].rules = IF i = Len(frames) THEN <<>> ELSE frames[i].rules
  <2>1. frames \in Seq(Frames) /\ stack \in Seq(Frames)
    BY DEF Narrows
  <2> QED BY <2>1, RulesEndForTop
<1>2. Narrows(stack, after)
  <2>1. /\ Len(after) <= Len(stack)
        /\ \A i \in DOMAIN frames :
             /\ frames[i].tx = stack[i].tx
             /\ IsInjective(frames[i].events)
             /\ ToSet(frames[i].events) \subseteq ToSet(stack[i].events)
             /\ \/ frames[i].entry = stack[i].entry
                \/ frames[i].entry \in ToSet(stack[i].events) \ ToSet(frames[i].events)
             /\ i < Len(stack) => frames[i].entry = stack[i].entry
    BY <1>1 DEF Narrows
  <2> SUFFICES ASSUME NEW i \in DOMAIN frames
               PROVE  /\ after[i].tx = stack[i].tx
                      /\ IsInjective(after[i].events)
                      /\ ToSet(after[i].events) \subseteq ToSet(stack[i].events)
                      /\ \/ after[i].entry = stack[i].entry
                         \/ after[i].entry \in ToSet(stack[i].events) \ ToSet(after[i].events)
                      /\ i < Len(stack) => after[i].entry = stack[i].entry
    BY <1>1, <2>1 DEF Narrows
  <2>2. after[i].tx = frames[i].tx /\ after[i].events = frames[i].events /\ after[i].entry = frames[i].entry
    BY <1>1
  <2> QED BY <2>1, <2>2
<1>3. RulesLeft(after, due)
  BY <1>1 DEF RulesLeft, FollowsOn
<1> QED BY <1>2, <1>3

LEMMA EndedFollow ==
  ASSUME NEW frames, frames \in Seq(Frames), NEW due, NEW failed, NEW more, failed \subseteq more,
         NEW r, NEW id, RunsOrRan(r, id, frames, due, failed),
         frames # <<>> =>
           \E k \in DOMAIN due : due[k].entry = frames[Len(frames)].entry /\ k \in more
  PROVE  RunsOrRan(r, id, RulesEnd(frames), due, more)
<1> DEFINE after == RulesEnd(frames)
<1>1. /\ DOMAIN after = DOMAIN frames /\ DOMAIN frames = 1..Len(frames) /\ Len(frames) \in Nat
      /\ \A i \in DOMAIN frames :
           /\ after[i].tx = frames[i].tx /\ after[i].events = frames[i].events
           /\ after[i].entry = frames[i].entry
           /\ after[i].rules = IF i = Len(frames) THEN <<>> ELSE frames[i].rules
  BY RulesEndForTop
<1> HIDE DEF after
<1>2. CASE \E k \in DOMAIN due : due[k].entry = id /\ (due[k].rule = r.id \/ k \in failed)
  BY <1>2 DEF RunsOrRan
<1>3. ASSUME NEW i \in DOMAIN frames, frames[i].tx = id[1],
             \/ id \in ToSet(frames[i].events)
             \/ frames[i].entry = id /\ r \in ToSet(frames[i].rules)
      PROVE  RunsOrRan(r, id, after, due, more)
  <2>1. CASE id \in ToSet(frames[i].events)
    BY <1>1, <1>3, <2>1 DEF RunsOrRan
  <2>2. CASE frames[i].entry = id /\ i = Len(frames)
    <3>1. frames # <<>>
      BY <1>3
    <3> QED BY <2>2, <3>1 DEF RunsOrRan
  <2>3. CASE frames[i].entry = id /\ r \in ToSet(frames[i].rules) /\ i # Len(frames)
    BY <1>1, <1>3, <2>3 DEF RunsOrRan
  <2> QED BY <1>3, <2>1, <2>2, <2>3
<1> QED BY <1>2, <1>3 DEF RunsOrRan, after

\* The call on top without the rule that it runs next
LEMMA RestNarrows ==
  ASSUME RulesInv, stack # <<>>, Top.rules # <<>>,
         NEW rest, rest = WithTop([Top EXCEPT !.rules = Tail(Top.rules)])
  PROVE  /\ Narrows(stack, rest) /\ RulesLeft(rest, causes)
         /\ rest \in Seq(Frames) /\ Len(rest) = Len(stack) /\ DOMAIN rest = DOMAIN stack
         /\ \A i \in 1..(Len(stack) - 1) : rest[i] = stack[i]
         /\ rest[Len(stack)].tx = Top.tx /\ rest[Len(stack)].events = Top.events
         /\ rest[Len(stack)].entry = Top.entry /\ rest[Len(stack)].rules = Tail(Top.rules)
<1> DEFINE N == Len(stack)
           f == [Top EXCEPT !.rules = Tail(Top.rules)]
           h == Head(Top.rules)
           l == Tail(Top.rules)
<1>1. /\ stack \in Seq(Frames) /\ N \in Nat /\ N >= 1 /\ DOMAIN stack = 1..N /\ N \in DOMAIN stack
      /\ Top = stack[N] /\ Top \in Frames /\ Top.rules \in Seq(RuleBook)
  BY TopIs DEF RulesInv
<1>2. /\ l \in Seq(RuleBook) /\ DOMAIN l = 1..(Len(Top.rules) - 1) /\ Len(Top.rules) \in Nat
      /\ DOMAIN Top.rules = 1..Len(Top.rules)
      /\ \A i \in DOMAIN l : i + 1 \in DOMAIN Top.rules /\ l[i] = Top.rules[i + 1]
      /\ ToSet(l) \subseteq ToSet(Top.rules)
  BY <1>1, HeadAndTail
<1>3. /\ f \in Frames /\ f.tx = Top.tx /\ f.events = Top.events /\ f.entry = Top.entry /\ f.rules = l
  <2> HIDE DEF l
  <2>1. PICK g \in Frames : g = Top
    BY <1>1
  <2>2. PICK left \in Seq(RuleBook) : left = l
    BY <1>2
  <2>3. /\ [g EXCEPT !.rules = left] \in Frames
        /\ [g EXCEPT !.rules = left].tx = g.tx /\ [g EXCEPT !.rules = left].events = g.events
        /\ [g EXCEPT !.rules = left].entry = g.entry /\ [g EXCEPT !.rules = left].rules = left
    BY DEF Frames
  <2>4. f = [g EXCEPT !.rules = left]
    BY <2>1, <2>2 DEF l
  <2> QED BY <2>1, <2>2, <2>3, <2>4
<1> HIDE DEF f, h
<1>4. IsInjective(f.events)
  BY <1>1, <1>3 DEF RulesInv, EventsOnce
<1>5. rest = WithTop(f)
  BY DEF f
<1>6. /\ Narrows(stack, rest) /\ rest \in Seq(Frames) /\ Len(rest) = N /\ DOMAIN rest = DOMAIN stack
      /\ rest[N] = f /\ \A i \in 1..(N - 1) : rest[i] = stack[i]
  <2> HIDE DEF N, l
  <2>1. /\ f \in Frames /\ f.tx = Top.tx /\ IsInjective(f.events)
        /\ ToSet(f.events) \subseteq ToSet(Top.events) /\ f.entry = Top.entry
    BY <1>3, <1>4
  <2>2. /\ Narrows(stack, rest) /\ rest \in Seq(Frames) /\ Len(rest) = Len(stack)
        /\ DOMAIN rest = DOMAIN stack /\ rest[Len(stack)] = f
        /\ \A i \in 1..(Len(stack) - 1) : rest[i] = stack[i]
    <3>1. RulesInv /\ stack # <<>> /\ rest = WithTop(f)
      BY <1>5
    <3> QED BY ONLY <2>1, <3>1, TopNarrows
  <2> QED BY <2>2 DEF N
<1> HIDE DEF l
<1>7. FollowsOn(f, causes)
  <2>1. FollowsOn(Top, causes)
    BY <1>1 DEF RulesInv, RulesLeft
  <2>2. /\ Top.entry # NoEntry /\ ToSet(Top.rules) \subseteq ToSet(rules)
        /\ \A m, n \in DOMAIN Top.rules : m < n =>
             Top.rules[m].priority <= Top.rules[n].priority /\ Top.rules[m].id # Top.rules[n].id
        /\ \A k \in DOMAIN causes : causes[k].entry = Top.entry =>
             \A m \in DOMAIN Top.rules :
               PriorityOf(causes[k]) <= Top.rules[m].priority /\ causes[k].rule # Top.rules[m].id
    BY <2>1 DEF FollowsOn
  <2>3. \A m, n \in DOMAIN l : m < n =>
          /\ l[m].priority <= l[n].priority /\ l[m].id # l[n].id
    <3> SUFFICES ASSUME NEW m \in DOMAIN l, NEW n \in DOMAIN l, m < n
                 PROVE  l[m].priority <= l[n].priority /\ l[m].id # l[n].id
      OBVIOUS
    <3>1. m + 1 < n + 1
      BY <1>2
    <3> QED BY <1>2, <2>2, <3>1
  <2>4. \A k \in DOMAIN causes : causes[k].entry = Top.entry =>
          \A m \in DOMAIN l : PriorityOf(causes[k]) <= l[m].priority /\ causes[k].rule # l[m].id
    BY <1>2, <2>2
  <2> QED BY <1>2, <1>3, <2>2, <2>3, <2>4 DEF FollowsOn
<1>8. RulesLeft(rest, causes)
  <2> SUFFICES ASSUME NEW i \in DOMAIN rest PROVE FollowsOn(rest[i], causes)
    BY DEF RulesLeft
  <2>1. CASE i = N
    BY <1>6, <1>7, <2>1
  <2>2. CASE i # N
    <3>1. i \in 1..(N - 1) /\ i \in DOMAIN stack
      BY <1>1, <1>6, <2>2
    <3> QED BY <1>6, <3>1 DEF RulesInv, RulesLeft
  <2> QED BY <2>1, <2>2
<1> QED BY <1>3, <1>6, <1>8 DEF N, l

\* Which rules run for an entry is the same as before, but for the one that is taken.
LEMMA RestFollow ==
  ASSUME RulesInv, stack # <<>>, Top.rules # <<>>,
         NEW rest, rest = WithTop([Top EXCEPT !.rules = Tail(Top.rules)]),
         NEW id \in Ids, id[1] \notin refused, NEW r \in ToSet(causes[id[1]].rules),
         OfEntry(r), IsEligible(r, id)
  PROVE  RunsOrRan(r, id, rest, causes, refused) \/ (id = Top.entry /\ r = Head(Top.rules))
<1> DEFINE N == Len(stack)
<1>1. /\ N \in Nat /\ DOMAIN stack = 1..N /\ Top = stack[N] /\ Top.rules \in Seq(RuleBook)
  BY TopIs DEF RulesInv
<1>2. /\ DOMAIN rest = DOMAIN stack
      /\ \A i \in 1..(N - 1) : rest[i] = stack[i]
      /\ rest[N].tx = Top.tx /\ rest[N].events = Top.events
      /\ rest[N].entry = Top.entry /\ rest[N].rules = Tail(Top.rules)
  BY RestNarrows
<1>3. RunsOrRan(r, id, stack, causes, refused)
  BY DEF RulesInv, AllFollow
<1>4. ToSet(Top.rules) = {Head(Top.rules)} \cup ToSet(Tail(Top.rules))
  BY <1>1, HeadAndTail
<1> HIDE DEF N
<1>5. CASE \E k \in DOMAIN causes : causes[k].entry = id /\ (causes[k].rule = r.id \/ k \in refused)
  BY <1>5 DEF RunsOrRan
<1>6. ASSUME NEW i \in DOMAIN stack, stack[i].tx = id[1],
             \/ id \in ToSet(stack[i].events)
             \/ stack[i].entry = id /\ r \in ToSet(stack[i].rules)
      PROVE  RunsOrRan(r, id, rest, causes, refused) \/ (id = Top.entry /\ r = Head(Top.rules))
  <2>1. CASE i = N
    <3>1. \/ id \in ToSet(rest[N].events)
          \/ rest[N].entry = id /\ (r = Head(Top.rules) \/ r \in ToSet(rest[N].rules))
      BY <1>1, <1>2, <1>4, <1>6, <2>1
    <3>2. rest[N].tx = id[1] /\ N \in DOMAIN rest
      BY <1>1, <1>2, <1>6, <2>1
    <3> QED BY <1>2, <3>1, <3>2 DEF RunsOrRan
  <2>2. CASE i # N
    <3>0. i \in 1..(N - 1)
      BY <1>1, <2>2
    <3>1. i \in DOMAIN rest /\ rest[i] = stack[i]
      BY <1>2, <3>0
    <3> QED BY <1>6, <3>1 DEF RunsOrRan
  <2> QED BY <2>1, <2>2
<1> QED BY <1>3, <1>5, <1>6 DEF RunsOrRan

LEMMA SkippingFollows ==
  ASSUME RulesInv, stack # <<>>, Top.rules # <<>>, ~IsEligible(Head(Top.rules), Top.entry),
         stack' = WithTop([Top EXCEPT !.rules = Tail(Top.rules)]),
         UNCHANGED <<vars, rules, causes, pending, refused>>
  PROVE  RulesInv'
<1> DEFINE rest == WithTop([Top EXCEPT !.rules = Tail(Top.rules)])
<1>1. Narrows(stack, rest) /\ RulesLeft(rest, causes)
  BY RestNarrows
<1>2. AllFollow(rest, causes, refused')
  <2> SUFFICES ASSUME NEW x \in Ids, x[1] \notin refused, NEW r \in ToSet(causes[x[1]].rules),
                      OfEntry(r), IsEligible(r, x)
               PROVE  RunsOrRan(r, x, rest, causes, refused)
    BY DEF AllFollow
  <2>1. RunsOrRan(r, x, rest, causes, refused) \/ (x = Top.entry /\ r = Head(Top.rules))
    BY RestFollow
  <2> QED BY <2>1
<1>3. refused' \subseteq Transactions
  BY DEF RulesInv, RulesTypeOK
<1> HIDE DEF rest
<1> QED BY <1>1, <1>2, <1>3, QuietStepsFollow DEF rest

LEMMA ReturningFollows == ASSUME RulesInv, Return PROVE RulesInv'
<1> DEFINE after == Front(stack)
           N == Len(stack)
<1>1. /\ stack # <<>> /\ Top.rules = <<>> /\ Top.events = <<>> /\ stack' = after
      /\ UNCHANGED <<vars, rules, causes, pending>> /\ refused' = refused
  BY DEF Return
<1>2. N \in Nat /\ DOMAIN stack = 1..N /\ Top = stack[N]
  BY <1>1, TopIs DEF RulesInv
<1>3. /\ Narrows(stack, after) /\ RulesLeft(after, causes)
      /\ DOMAIN after = 1..(N - 1)
      /\ \A i \in DOMAIN after : i \in DOMAIN stack /\ after[i] = stack[i]
  BY <1>1, FrontNarrows
<1> HIDE DEF after, N
<1>4. AllFollow(after, causes, refused')
  <2> SUFFICES ASSUME NEW x \in Ids, x[1] \notin refused, NEW r \in ToSet(causes[x[1]].rules),
                      OfEntry(r), IsEligible(r, x)
               PROVE  RunsOrRan(r, x, after, causes, refused)
    BY <1>1 DEF AllFollow
  <2>1. RunsOrRan(r, x, stack, causes, refused)
    BY DEF RulesInv, AllFollow
  <2>2. CASE \E k \in DOMAIN causes : causes[k].entry = x /\ (causes[k].rule = r.id \/ k \in refused)
    BY <2>2 DEF RunsOrRan
  <2>3. ASSUME NEW i \in DOMAIN stack, stack[i].tx = x[1],
               \/ x \in ToSet(stack[i].events)
               \/ stack[i].entry = x /\ r \in ToSet(stack[i].rules)
        PROVE  RunsOrRan(r, x, after, causes, refused)
    <3>1. i # N
      BY <1>1, <1>2, <2>3 DEF ToSet
    <3>2. i \in DOMAIN after /\ after[i] = stack[i]
      BY <1>2, <1>3, <3>1
    <3> QED BY <2>3, <3>2 DEF RunsOrRan
  <2> QED BY <2>1, <2>2, <2>3 DEF RunsOrRan
<1>5. refused' \subseteq Transactions
  BY <1>1 DEF RulesInv, RulesTypeOK
<1> QED BY <1>1, <1>3, <1>4, <1>5, QuietStepsFollow

\* A rule that throws ends its call and the rules that the caller runs.
LEMMA ThrowingFollows ==
  ASSUME RulesInv, stack # <<>>, stack' = RulesEnd(Front(stack)),
         refused' = refused \cup {Top.tx},
         UNCHANGED <<vars, rules, causes, pending>>
  PROVE  RulesInv'
<1> DEFINE front == Front(stack)
           after == RulesEnd(front)
           N == Len(stack)
<1>1. /\ N \in Nat /\ N >= 1 /\ DOMAIN stack = 1..N /\ Top = stack[N] /\ Top.tx \in Transactions
      /\ N \in DOMAIN stack
  BY TopIs DEF RulesInv
<1>2. /\ Narrows(stack, front) /\ RulesLeft(front, causes)
      /\ Len(front) = N - 1 /\ DOMAIN front = 1..(N - 1)
      /\ \A i \in DOMAIN front : i \in DOMAIN stack /\ front[i] = stack[i]
  BY FrontNarrows
<1> HIDE DEF front, N
<1>3. Narrows(stack, after) /\ RulesLeft(after, causes)
  BY <1>2, EndedNarrows
<1> HIDE DEF after
<1>4. AllFollow(after, causes, refused')
  <2> SUFFICES ASSUME NEW x \in Ids, x[1] \notin refused, x[1] # Top.tx,
                      NEW r \in ToSet(causes[x[1]].rules), OfEntry(r), IsEligible(r, x)
               PROVE  RunsOrRan(r, x, after, causes, refused')
    BY DEF AllFollow
  <2>1. RunsOrRan(r, x, stack, causes, refused)
    BY DEF RulesInv, AllFollow
  <2>2. RunsOrRan(r, x, front, causes, refused)
    <3>1. CASE \E k \in DOMAIN causes : causes[k].entry = x /\ (causes[k].rule = r.id \/ k \in refused)
      BY <3>1 DEF RunsOrRan
    <3>2. ASSUME NEW i \in DOMAIN stack, stack[i].tx = x[1],
                 \/ x \in ToSet(stack[i].events)
                 \/ stack[i].entry = x /\ r \in ToSet(stack[i].rules)
          PROVE  RunsOrRan(r, x, front, causes, refused)
      <4>1. i # N
        BY <1>1, <3>2
      <4>2. i \in DOMAIN front /\ front[i] = stack[i]
        BY <1>1, <1>2, <4>1
      <4> QED BY <3>2, <4>2 DEF RunsOrRan
    <3> QED BY <2>1, <3>1, <3>2 DEF RunsOrRan
  <2>3. front # <<>> =>
          \E k \in DOMAIN causes : causes[k].entry = front[Len(front)].entry /\ k \in refused'
    <3> SUFFICES ASSUME front # <<>>
                 PROVE  causes[Top.tx].entry = front[Len(front)].entry /\ Top.tx \in DOMAIN causes
      OBVIOUS
    <3>1. Top.tx \in DOMAIN causes
      BY <1>1, CausesOfAll DEF RulesInv
    <3>2. N > 1 /\ front[Len(front)] = stack[N - 1]
      <4>1. Len(front) # 0
        BY <1>2 DEF Narrows
      <4>2. Len(front) \in DOMAIN front /\ Len(front) = N - 1
        BY <1>1, <1>2, <4>1
      <4> QED BY <1>1, <1>2, <4>1, <4>2
    <3>3. causes[Top.tx].entry = stack[N - 1].entry
      BY <1>1, <3>2 DEF RulesInv, CallsAreNested
    <3> QED BY <3>1, <3>2, <3>3
  <2>4. front \in Seq(Frames) /\ refused \subseteq refused'
    BY <1>2 DEF Narrows
  <2> QED BY <2>2, <2>3, <2>4, EndedFollow DEF after
<1>5. refused' \subseteq Transactions
  BY <1>1 DEF RulesInv, RulesTypeOK
<1>6. stack' = after
  BY DEF after, front
<1> QED BY <1>3, <1>4, <1>5, <1>6, QuietStepsFollow

-----------------------------------------------------------------------------
(* Executing what is new *)

LEMMA NewIds ==
  ASSUME LedgerInv, NEW tx, WellMade(tx.entries), Keep(tx)
  PROVE  /\ Len(built) \in Nat /\ Len(built') = Len(built) + 1 /\ Transactions = 1..Len(built)
         /\ Transactions' = Transactions \cup {Len(built) + 1} /\ Len(built) + 1 \notin Transactions
         /\ Ids' = Ids \cup {<<Len(built) + 1, n>> : n \in 1..Len(tx.entries)}
         /\ \A id \in Ids : EntryOf(id)' = EntryOf(id) /\ id[1] \in Transactions /\ id # NoEntry
<1> DEFINE S == Range(built)
           t == Len(built) + 1
           b == Append(built, tx)
<1>1. built \in Seq(S) /\ LedgerTypeOK /\ TransactionsAreBalanced
  BY DEF LedgerInv, LedgerTypeOK
<1> HIDE DEF S
<1>2. /\ Len(b) = t /\ Len(built) \in Nat
      /\ \A n \in 1..Len(built) : b[n] = built[n]
      /\ b[t] = tx
  BY <1>1, AppendFacts
<1> HIDE DEF b
<1>3. built' = b
  BY DEF Keep, b
<1>4. Transactions = 1..Len(built) /\ Transactions' = 1..t /\ Transactions' = Transactions \cup {t} /\ t \notin Transactions
  BY <1>2, <1>3 DEF Transactions
<1>5. Grown
  BY <1>1, OneMoreIsBuilt DEF Keep, Buildable
<1>6. \A id \in Ids : EntryOf(id)' = EntryOf(id) /\ id[1] \in Transactions /\ id # NoEntry
  <2>1. \A id \in Ids : EntryOf(id)' = EntryOf(id)
    BY <1>1, <1>5, GrownIds
  <2>2. \A id \in Ids : id[1] \in Transactions
    BY <1>1, EntriesOfIds
  <2>3. NoEntry[1] \notin Transactions
    BY <1>4 DEF NoEntry
  <2> QED BY <2>1, <2>2, <2>3
<1>7. Ids' = Ids \cup {<<t, n>> : n \in 1..Len(tx.entries)}
  <2> DEFINE Of(x, e) == {<<x, n>> : n \in 1..Len(e)}
  <2>1. Ids' = UNION {Of(x, b[x].entries) : x \in Transactions'} /\ Ids = UNION {Of(x, built[x].entries) : x \in Transactions}
    BY <1>3 DEF Ids
  <2>2. \A x \in Transactions : b[x] = built[x]
    BY <1>2, <1>4
  <2> HIDE DEF Of, t
  <2>3. Ids' = Ids \cup Of(t, tx.entries)
    BY <1>2, <1>4, <2>1, <2>2
  <2> QED BY <2>3 DEF Of
<1> QED BY <1>2, <1>3, <1>4, <1>6, <1>7

LEMMA EligibleStays ==
  ASSUME RuleBookAssumption, NEW r \in RuleBook, OfEntry(r), NEW id, EntryOf(id)' = EntryOf(id)
  PROVE  IsEligible(r, id)' <=> IsEligible(r, id)
<1>1. ASSUME NEW alternative \in r.when, NEW test \in alternative
      PROVE  Passes(test, EntryOf(id))' = Passes(test, EntryOf(id))
  <2>1. test.of \in {"account", "kind", "type"}
    BY DEF RuleBookAssumption, OfEntry
  <2> QED BY <2>1 DEF Passes
<1> QED BY <1>1 DEF IsEligible

\* The ids of the entries of account a whose events executing transaction t records
Recorded(t, entries, a) ==
  {<<t, n>> : n \in {m \in 1..Len(entries) : entries[m].account = a /\ Counted(entries, m)}}

LEMMA EventsWait ==
  ASSUME RulesInv, NEW tx, WellMade(tx.entries), Keep(tx), NEW t, t = Len(built) + 1
  PROVE  /\ PendingAfter(t, tx.entries) \in [Accounts -> Seq(Ids')]
         /\ \A a \in Accounts :
              ToSet(PendingAfter(t, tx.entries)[a]) = ToSet(pending[a]) \cup Recorded(t, tx.entries, a)
<1> DEFINE e == tx.entries
           places(a) == {n \in 1..Len(e) : e[n].account = a /\ Counted(e, n)}
           new(a) == {<<t, n>> : n \in places(a)}
           after == PendingAfter(t, e)
<1>1. after = [a \in Accounts |-> pending[a] \o IdsAt(t, places(a))]
  BY DEF PendingAfter
<1>2. pending \in [Accounts -> Seq(Ids)]
  BY DEF RulesInv, RulesTypeOK
<1>3. Ids' = Ids \cup {<<t, n>> : n \in 1..Len(e)}
  BY NewIds DEF RulesInv
<1>4. ASSUME NEW a \in Accounts
      PROVE  after[a] \in Seq(Ids') /\ ToSet(after[a]) = ToSet(pending[a]) \cup new(a)
  <2> DEFINE P == places(a)
             F == new(a)
             l == IdsAt(t, P)
  <2>1. F = {<<t, n>> : n \in P} /\ P \subseteq 1..Len(e)
    OBVIOUS
  <2>2. after[a] = pending[a] \o l
    BY <1>1
  <2> HIDE DEF F, P
  <2>3. IsFiniteSet(P) /\ P \subseteq Nat
    <3>1. Len(e) \in Nat /\ IsFiniteSet(1..Len(e))
      BY AmountIsInt
    <3>2. IsFiniteSet(P)
      BY <2>1, <3>1, FS_Subset
    <3> QED BY <2>1, <3>1, <3>2
  <2>4. l \in Seq(F) /\ ToSet(l) = F
    <3>1. PICK x, Q, G : x = t /\ Q = P /\ G = F
      OBVIOUS
    <3>2. IsFiniteSet(Q) /\ Q \subseteq Nat /\ G = {<<x, n>> : n \in Q}
      BY <2>1, <2>3, <3>1
    <3>3. IdsAt(x, Q) \in Seq(G) /\ ToSet(IdsAt(x, Q)) = G
      BY ONLY <3>2, PlacesAreListed
    <3> QED BY <3>1, <3>3
  <2>5. pending[a] \in Seq(Ids)
    BY <1>2
  <2> HIDE DEF l, after
  <2>6. pending[a] \o l \in Seq(Ids \cup F) /\ Ids \cup F \subseteq Ids'
    <3>1. Ids \cup F \subseteq Ids'
      BY <1>3, <2>1
    <3> QED BY <2>4, <2>5, <3>1, ConcatFacts
  <2>7. ToSet(pending[a] \o l) = ToSet(pending[a]) \cup ToSet(l)
    BY <2>4, <2>5, ConcatHolds
  <2>8. after[a] \in Seq(Ids')
    <3>1. PICK U, V : U = Ids \cup F /\ V = Ids'
      OBVIOUS
    <3>2. U \subseteq V /\ after[a] \in Seq(U)
      BY <2>2, <2>6, <3>1
    <3>3. after[a] \in Seq(V)
      BY <3>2, LongerSequences
    <3> QED BY <3>1, <3>3
  <2> QED BY <2>2, <2>4, <2>7, <2>8 DEF F
<1>5. after \in [Accounts -> Seq(Ids')]
  <2>1. DOMAIN after = Accounts /\ after = [a \in Accounts |-> after[a]]
    BY <1>1
  <2> HIDE DEF after
  <2> QED BY <1>4, <2>1
<1> QED BY <1>4, <1>5 DEF Recorded

LEMMA EventsArePublished ==
  ASSUME RulesInv, NEW tx, WellMade(tx.entries), Keep(tx), NEW t, t = Len(built) + 1
  PROVE  /\ Published(t, tx.entries) \in Seq(Ids') /\ IsInjective(Published(t, tx.entries))
         /\ ToSet(Published(t, tx.entries)) = Held(tx.entries, PendingAfter(t, tx.entries))
<1> DEFINE e == tx.entries
           after == PendingAfter(t, e)
           U == Held(e, after)
<1>1. after \in [Accounts -> Seq(Ids')]
  BY EventsWait
<1>2. Published(t, e) = ObjectByObject(U, e, after)
  BY DEF Published, Held
<1> HIDE DEF after
<1>3. PICK S, objects, es, V : S = Ids' /\ objects = after /\ es = e /\ V = U
  OBVIOUS
<1>4. /\ WellMade(es) /\ objects \in [Accounts -> Seq(S)]
      /\ V \subseteq Held(es, objects)
  BY <1>1, <1>3
<1> HIDE DEF U
<1>5. /\ ObjectByObject(V, es, objects) \in Seq(V)
      /\ IsInjective(ObjectByObject(V, es, objects))
      /\ ToSet(ObjectByObject(V, es, objects)) = V
      /\ V \subseteq S
  BY ONLY <1>4, ObjectsAreListed
<1>6. ObjectByObject(V, es, objects) \in Seq(S)
  BY ONLY <1>5, LongerSequences
<1> QED BY <1>2, <1>3, <1>5, <1>6 DEF U, after

\* What sets off the next transaction: a client, or a rule that the call on top runs.
IsDue(by, frames) ==
  /\ by.rule \in RuleNames /\ by.entry \in Ids \cup {NoEntry}
  /\ frames = <<>> <=> by.entry = NoEntry
  /\ frames # <<>> =>
       /\ by.entry = frames[Len(frames)].entry
       /\ \E r \in ToSet(rules) :
            /\ r.id = by.rule /\ IsEligible(r, by.entry)
            /\ \A m \in DOMAIN frames[Len(frames)].rules :
                 /\ r.priority <= frames[Len(frames)].rules[m].priority
                 /\ r.id # frames[Len(frames)].rules[m].id
            /\ \A k \in DOMAIN causes : causes[k].entry = by.entry =>
                 PriorityOf(causes[k]) <= r.priority /\ causes[k].rule # r.id

Cause(by) == [rule |-> by.rule, entry |-> by.entry, rules |-> rules]

LEMMA PriorityOfDue ==
  ASSUME OneOfAnId(rules), NEW r \in ToSet(rules), NEW c, c.rules = rules, c.rule = r.id
  PROVE  PriorityOf(c) = r.priority
<1>1. PICK n \in DOMAIN rules : rules[n] = r
  BY DEF ToSet
<1> DEFINE m == CHOOSE x \in DOMAIN c.rules : c.rules[x].id = c.rule
<1>2. m \in DOMAIN rules /\ rules[m].id = r.id
  BY <1>1
<1>3. PriorityOf(c) = rules[m].priority
  BY DEF PriorityOf
<1> HIDE DEF m
<1>4. m = n
  BY <1>1, <1>2 DEF OneOfAnId
<1> QED BY <1>1, <1>3, <1>4

LEMMA CausedInTurn ==
  ASSUME RulesInv, NEW frames, Narrows(stack, frames), RulesLeft(frames, causes),
         NEW by, IsDue(by, frames), NEW due, due = Append(causes, Cause(by))
  PROVE  /\ due \in Seq(Causes) /\ Len(due) = Len(causes) + 1
         /\ DOMAIN due = DOMAIN causes \cup {Len(causes) + 1} /\ Len(causes) + 1 \notin DOMAIN causes
         /\ \A k \in DOMAIN causes : due[k] = causes[k]
         /\ due[Len(causes) + 1] = Cause(by)
         /\ DueInTurn(due) /\ RulesLeft(frames, due)
         /\ NothingDue(frames, pending, due) /\ CallsAreNested(frames, due)
<1> DEFINE t == Len(causes) + 1
           N == Len(frames)
<1>1. /\ DOMAIN causes = Transactions /\ Len(causes) \in Nat /\ Transactions = 1..Len(causes)
      /\ causes \in Seq(Causes) /\ rules \in Seq(RuleBook)
  BY CausesOfAll DEF RulesInv, RulesTypeOK
<1>2. PICK c : c = Cause(by)
  OBVIOUS
<1>3. c \in Causes /\ c.rule = by.rule /\ c.entry = by.entry /\ c.rules = rules
  BY <1>1, <1>2 DEF IsDue, Causes, Cause
<1>4. /\ due \in Seq(Causes) /\ Len(due) = t /\ DOMAIN due = 1..t
      /\ \A k \in 1..Len(causes) : due[k] = causes[k]
      /\ due[t] = c
  BY <1>1, <1>2, <1>3, PushedOn
<1>5. /\ DOMAIN due = DOMAIN causes \cup {t} /\ t \notin DOMAIN causes
      /\ \A k \in DOMAIN causes : due[k] = causes[k] /\ k \in Int /\ k < t
      /\ t \in Int
  BY <1>1, <1>4
<1> HIDE DEF t
<1>6. /\ EventsOnce(frames, pending) /\ NothingDue(frames, pending, causes)
      /\ CallsAreNested(frames, causes)
  BY NarrowerIsKept DEF RulesInv
<1>7. /\ DOMAIN frames = 1..N /\ N \in Nat
      /\ \A i \in DOMAIN frames : frames[i] \in Frames /\ frames[i].tx \in Transactions
  <2>1. frames \in Seq(Frames)
    BY DEF Narrows
  <2>2. DOMAIN frames = 1..N /\ N \in Nat /\ \A i \in DOMAIN frames : frames[i] \in Frames
    BY <2>1
  <2>3. \A f \in Frames : f.tx \in Transactions
    BY DEF Frames
  <2> QED BY <2>2, <2>3
<1>8. by.entry # NoEntry =>
        /\ N \in DOMAIN frames /\ by.entry = frames[N].entry
        /\ \A m \in DOMAIN frames[N].rules :
             PriorityOf(c) <= frames[N].rules[m].priority /\ by.rule # frames[N].rules[m].id
        /\ \A k \in DOMAIN causes : causes[k].entry = by.entry =>
             PriorityOf(causes[k]) <= PriorityOf(c) /\ causes[k].rule # by.rule
  <2> SUFFICES ASSUME by.entry # NoEntry
               PROVE  /\ N \in DOMAIN frames /\ by.entry = frames[N].entry
                      /\ \A m \in DOMAIN frames[N].rules :
                           PriorityOf(c) <= frames[N].rules[m].priority /\ by.rule # frames[N].rules[m].id
                      /\ \A k \in DOMAIN causes : causes[k].entry = by.entry =>
                           PriorityOf(causes[k]) <= PriorityOf(c) /\ causes[k].rule # by.rule
    OBVIOUS
  <2>1. frames # <<>> /\ by.entry = frames[N].entry
    BY DEF IsDue
  <2>2. PICK r \in ToSet(rules) :
            /\ r.id = by.rule
            /\ \A m \in DOMAIN frames[N].rules :
                 r.priority <= frames[N].rules[m].priority /\ r.id # frames[N].rules[m].id
            /\ \A k \in DOMAIN causes : causes[k].entry = by.entry =>
                 PriorityOf(causes[k]) <= r.priority /\ causes[k].rule # r.id
    BY <2>1 DEF IsDue
  <2>3. PriorityOf(c) = r.priority
    BY <1>3, <2>2, PriorityOfDue DEF RulesInv
  <2>4. N \in DOMAIN frames
    <3>1. frames \in Seq(Frames)
      BY DEF Narrows
    <3> QED BY <2>1, <3>1
  <2> QED BY <2>1, <2>2, <2>3, <2>4
<1> HIDE DEF N
<1>9. DueInTurn(due)
  <2> SUFFICES ASSUME NEW j \in DOMAIN due, NEW k \in DOMAIN due, j < k,
                      due[j].entry = due[k].entry, due[k].entry # NoEntry
               PROVE  PriorityOf(due[j]) <= PriorityOf(due[k]) /\ due[j].rule # due[k].rule
    BY DEF DueInTurn
  <2>1. j \in DOMAIN causes
    BY <1>1, <1>4, <1>5
  <2>2. CASE k \in DOMAIN causes
    BY <1>5, <2>1, <2>2 DEF RulesInv, DueInTurn
  <2>3. CASE k = t
    BY <1>3, <1>4, <1>5, <1>8, <2>1, <2>3
  <2> QED BY <1>5, <2>2, <2>3
<1>10. RulesLeft(frames, due)
  <2> SUFFICES ASSUME NEW i \in DOMAIN frames, frames[i].rules # <<>> PROVE FollowsOn(frames[i], due)
    BY DEF RulesLeft, FollowsOn
  <2>1. FollowsOn(frames[i], causes)
    BY DEF RulesLeft
  <2> DEFINE left == frames[i].rules
  <2>2. /\ frames[i].entry # NoEntry /\ ToSet(left) \subseteq ToSet(rules)
        /\ \A m, n \in DOMAIN left : m < n =>
             left[m].priority <= left[n].priority /\ left[m].id # left[n].id
        /\ \A k \in DOMAIN causes : causes[k].entry = frames[i].entry =>
             \A m \in DOMAIN left :
               PriorityOf(causes[k]) <= left[m].priority /\ causes[k].rule # left[m].id
    BY <2>1 DEF FollowsOn
  <2>3. ASSUME c.entry = frames[i].entry, NEW m \in DOMAIN left
        PROVE  PriorityOf(c) <= left[m].priority /\ c.rule # left[m].id
    <3>1. i = N
      BY <1>3, <1>6, <1>8, <2>2, <2>3 DEF EventsOnce
    <3> QED BY <1>3, <1>8, <2>2, <2>3, <3>1
  <2> HIDE DEF left
  <2>4. \A k \in DOMAIN due : due[k].entry = frames[i].entry =>
          \A m \in DOMAIN left : PriorityOf(due[k]) <= left[m].priority /\ due[k].rule # left[m].id
    BY <1>4, <1>5, <2>2, <2>3
  <2> QED BY <2>2, <2>4 DEF FollowsOn, left
<1>11. NothingDue(frames, pending, due)
  <2>1. /\ \A i \in DOMAIN frames : c.entry \notin ToSet(frames[i].events)
        /\ \A a \in Accounts : c.entry \notin ToSet(pending[a])
    <3>1. CASE by.entry = NoEntry
      <4>1. \A x \in Ids : x # NoEntry
        <5>1. \A x \in Ids : x[1] \in Transactions
          BY EntriesOfIds DEF RulesInv, LedgerInv
        <5>2. NoEntry[1] \notin Transactions
          BY <1>1 DEF NoEntry
        <5> QED BY <5>1, <5>2
      <4>2. \A i \in DOMAIN frames : ToSet(frames[i].events) \subseteq Ids
        <5> SUFFICES ASSUME NEW i \in DOMAIN frames PROVE ToSet(frames[i].events) \subseteq Ids
          OBVIOUS
        <5>1. PICK f \in Frames : f = frames[i]
          BY <1>7
        <5>2. f.events \in Seq(Ids)
          BY DEF Frames
        <5>3. ToSet(f.events) \subseteq Ids
          BY <5>2 DEF ToSet
        <5> QED BY <5>1, <5>3
      <4>3. \A a \in Accounts : ToSet(pending[a]) \subseteq Ids
        <5> SUFFICES ASSUME NEW a \in Accounts PROVE ToSet(pending[a]) \subseteq Ids
          OBVIOUS
        <5>1. pending[a] \in Seq(Ids)
          BY DEF RulesInv, RulesTypeOK
        <5> QED BY <5>1 DEF ToSet
      <4> QED BY <1>3, <3>1, <4>1, <4>2, <4>3
    <3>2. CASE by.entry # NoEntry
      <4>1. N \in DOMAIN frames /\ c.entry = frames[N].entry
        BY <1>3, <1>8, <3>2
      <4> QED BY <1>6, <4>1 DEF EventsOnce
    <3> QED BY <3>1, <3>2
  <2> QED BY <1>4, <1>5, <1>6, <2>1 DEF NothingDue
<1>12. CallsAreNested(frames, due)
  BY <1>1, <1>5, <1>6, <1>7 DEF CallsAreNested
<1> QED BY <1>2, <1>4, <1>5, <1>9, <1>10, <1>11, <1>12 DEF t

\* The ids of the entries of a new transaction are nowhere yet.
LEMMA OlderIds ==
  ASSUME RulesInv, NEW tx, WellMade(tx.entries), Keep(tx), NEW t, t = Len(built) + 1
  PROVE  /\ t = Len(causes) + 1 /\ t \notin Transactions /\ t \notin DOMAIN causes
         /\ Transactions' = Transactions \cup {t}
         /\ Ids' = Ids \cup {<<t, n>> : n \in 1..Len(tx.entries)}
         /\ \A x \in Ids \cup {NoEntry} : x[1] # t
         /\ \A x \in Ids : EntryOf(x)' = EntryOf(x) /\ x[1] \in DOMAIN causes
         /\ NoEntry \notin Ids'
         /\ \A f \in Frames : f.entry[1] # t /\ NoEntry \notin ToSet(f.events) /\ ToSet(f.events) \subseteq Ids
         /\ \A a \in Accounts : ToSet(pending[a]) \subseteq Ids
         /\ \A k \in DOMAIN causes : causes[k].entry[1] # t
         /\ Frames \subseteq Frames' /\ Causes \subseteq Causes'
<1>1. /\ Len(built) \in Nat /\ Transactions = 1..Len(built)
      /\ Transactions' = Transactions \cup {t} /\ t \notin Transactions
      /\ Ids' = Ids \cup {<<t, n>> : n \in 1..Len(tx.entries)}
      /\ \A id \in Ids : EntryOf(id)' = EntryOf(id) /\ id[1] \in Transactions /\ id # NoEntry
  BY NewIds DEF RulesInv
<1>2. /\ DOMAIN causes = Transactions /\ Len(causes) = Len(built)
      /\ \A k \in DOMAIN causes : causes[k].entry \in Ids \cup {NoEntry}
  BY CausesOfAll DEF RulesInv
<1>3. t # 0 /\ NoEntry[1] = 0
  BY <1>1 DEF NoEntry
<1>4. \A x \in Ids \cup {NoEntry} : x[1] # t
  BY <1>1, <1>3
<1>5. NoEntry \notin Ids'
  BY <1>1, <1>3
<1>6. \A f \in Frames : f.entry \in Ids \cup {NoEntry} /\ ToSet(f.events) \subseteq Ids
  <2>1. \A f \in Frames : f.entry \in Ids \cup {NoEntry} /\ f.events \in Seq(Ids)
    BY DEF Frames
  <2>2. \A s \in Seq(Ids) : ToSet(s) \subseteq Ids
    BY DEF ToSet
  <2> QED BY <2>1, <2>2
<1>7. \A a \in Accounts : ToSet(pending[a]) \subseteq Ids
  <2>1. \A a \in Accounts : pending[a] \in Seq(Ids)
    BY DEF RulesInv, RulesTypeOK
  <2> QED BY <2>1 DEF ToSet
<1>8. Ids \subseteq Ids' /\ Transactions \subseteq Transactions' /\ Seq(Ids) \subseteq Seq(Ids')
  <2>1. Ids \subseteq Ids' /\ Transactions \subseteq Transactions'
    BY <1>1
  <2>2. PICK S, T : S = Ids /\ T = Ids'
    OBVIOUS
  <2>3. \A s \in Seq(S) : s \in Seq(T)
    BY <2>1, <2>2, LongerSequences
  <2> QED BY <2>1, <2>2, <2>3
<1>9. Frames \subseteq Frames'
  BY <1>8 DEF Frames
<1>10. Causes \subseteq Causes'
  BY <1>8 DEF Causes
<1> QED BY <1>1, <1>2, <1>4, <1>5, <1>6, <1>7, <1>9, <1>10

LEMMA CausesAreEligible ==
  ASSUME RuleBookAssumption, RulesInv, NEW frames, Narrows(stack, frames), RulesLeft(frames, causes),
         NEW by, IsDue(by, frames), NEW tx, WellMade(tx.entries), Keep(tx),
         NEW due, due = Append(causes, Cause(by)), NEW failed, refused \subseteq failed
  PROVE  DueToEligible(due, failed)'
<1> SUFFICES ASSUME NEW k \in DOMAIN due
             PROVE  /\ OneOfAnId(due[k].rules)
                    /\ due[k].entry # NoEntry =>
                         /\ \E r \in ToSet(due[k].rules) :
                              r.id = due[k].rule /\ (OfEntry(r) => IsEligible(r, due[k].entry)')
                         /\ due[k].entry[1] \in failed \/ due[k].rules = due[due[k].entry[1]].rules
  BY DEF DueToEligible
<1>1. PICK t : t = Len(built) + 1
  OBVIOUS
<1>2. /\ t = Len(causes) + 1 /\ t \notin DOMAIN causes
      /\ \A x \in Ids : EntryOf(x)' = EntryOf(x) /\ x[1] \in DOMAIN causes
  BY <1>1, OlderIds
<1>3. /\ DOMAIN due = DOMAIN causes \cup {t}
      /\ \A j \in DOMAIN causes : due[j] = causes[j]
      /\ due[t] = Cause(by)
  BY <1>2, CausedInTurn
<1>4. /\ \A r \in RuleBook : \A x \in Ids : OfEntry(r) => (IsEligible(r, x)' <=> IsEligible(r, x))
  BY <1>2, EligibleStays
<1>5. CASE k \in DOMAIN causes
  <2>1. due[k] = causes[k]
    BY <1>3, <1>5
  <2>2. OneOfAnId(causes[k].rules)
    BY <1>5 DEF RulesInv, DueToEligible
  <2>3. ASSUME due[k].entry # NoEntry
        PROVE  /\ \E r \in ToSet(due[k].rules) :
                    r.id = due[k].rule /\ (OfEntry(r) => IsEligible(r, due[k].entry)')
               /\ due[k].entry[1] \in failed \/ due[k].rules = due[due[k].entry[1]].rules
    <3>1. PICK x \in Ids : x = due[k].entry
      BY <1>5, <2>1, <2>3, CausesOfAll DEF RulesInv
    <3>2. PICK r \in ToSet(due[k].rules) :
               r.id = due[k].rule /\ (OfEntry(r) => IsEligible(r, x))
      BY <1>5, <2>1, <2>3, <3>1 DEF RulesInv, DueToEligible
    <3>3. r \in RuleBook
      <4>1. due[k].rules \in Seq(RuleBook)
        BY <1>5, <2>1, CausesOfAll DEF RulesInv
      <4> QED BY <3>2, <4>1 DEF ToSet
    <3>4. OfEntry(r) => IsEligible(r, x)'
      BY <1>4, <3>1, <3>2, <3>3
    <3>5. x[1] \in refused \/ due[k].rules = causes[x[1]].rules
      BY <1>5, <2>1, <2>3, <3>1 DEF RulesInv, DueToEligible
    <3>6. x[1] \in DOMAIN causes
      BY <1>2, <3>1
    <3> QED BY <1>3, <3>1, <3>2, <3>4, <3>5, <3>6
  <2> QED BY <2>1, <2>2, <2>3
<1>6. CASE k = t
  <2>1. due[k].rule = by.rule /\ due[k].entry = by.entry /\ due[k].rules = rules
    BY <1>3, <1>6 DEF Cause
  <2>2. OneOfAnId(rules)
    BY DEF RulesInv
  <2>3. ASSUME by.entry # NoEntry
        PROVE  /\ \E r \in ToSet(rules) : r.id = by.rule /\ (OfEntry(r) => IsEligible(r, by.entry)')
               /\ by.entry[1] \in failed \/ rules = due[by.entry[1]].rules
    <3> DEFINE N == Len(frames)
    <3>1. PICK x \in Ids : x = by.entry
      BY <2>3 DEF IsDue
    <3>2. frames # <<>> /\ x = frames[N].entry
      BY <2>3, <3>1 DEF IsDue
    <3>3. PICK r \in ToSet(rules) : r.id = by.rule /\ IsEligible(r, x)
      BY <3>1, <3>2 DEF IsDue
    <3>4. r \in RuleBook
      <4>1. rules \in Seq(RuleBook)
        BY DEF RulesInv, RulesTypeOK
      <4> QED BY <3>3, <4>1 DEF ToSet
    <3>5. OfEntry(r) => IsEligible(r, x)'
      BY <1>4, <3>3, <3>4
    <3>6. N \in DOMAIN frames /\ frames[N] \in Frames
      <4>1. frames \in Seq(Frames)
        BY DEF Narrows
      <4> QED BY <3>2, <4>1
    <3>7. x[1] = frames[N].tx \/ x[1] \in refused
      <4>1. EventsAreOwn(frames, pending, refused)
        BY NarrowerIsKept DEF RulesInv
      <4> QED BY <2>3, <3>1, <3>2, <3>6, <4>1 DEF EventsAreOwn
    <3>8. causes[frames[N].tx].rules = rules
      <4>1. CallsAreNested(frames, causes)
        BY NarrowerIsKept DEF RulesInv
      <4> QED BY <3>6, <4>1 DEF CallsAreNested
    <3>9. x[1] \in DOMAIN causes
      BY <1>2, <3>1
    <3> HIDE DEF N
    <3> QED BY <1>3, <3>1, <3>3, <3>5, <3>7, <3>8, <3>9
  <2> QED BY <2>1, <2>2, <2>3
<1> QED BY <1>3, <1>5, <1>6

\* What eligible rules are not run by the calls that go on is what is run now.
SetsOff(by, frames) ==
  \A id \in Ids : id[1] \notin refused =>
    \A r \in ToSet(causes[id[1]].rules) : OfEntry(r) /\ IsEligible(r, id) =>
      RunsOrRan(r, id, frames, causes, refused) \/ (id = by.entry /\ r.id = by.rule)

\* An entry that was there before
LEMMA OldEntriesFollow ==
  ASSUME RuleBookAssumption, RulesInv, NEW frames, Narrows(stack, frames), RulesLeft(frames, causes),
         NEW by, IsDue(by, frames), NEW tx, WellMade(tx.entries), Keep(tx),
         SetsOff(by, frames),
         NEW due, due = Append(causes, Cause(by)),
         NEW id \in Ids, id[1] \notin refused, NEW r \in ToSet(due[id[1]].rules),
         OfEntry(r), IsEligible(r, id)'
  PROVE  RunsOrRan(r, id, frames, due, refused)
<1>1. PICK t : t = Len(built) + 1
  OBVIOUS
<1>2. /\ t = Len(causes) + 1 /\ t \notin DOMAIN causes
      /\ EntryOf(id)' = EntryOf(id) /\ id[1] \in DOMAIN causes
  BY <1>1, OlderIds
<1>3. /\ DOMAIN due = DOMAIN causes \cup {t}
      /\ \A j \in DOMAIN causes : due[j] = causes[j]
      /\ due[t] = Cause(by)
  BY <1>2, CausedInTurn
<1>4. r \in ToSet(causes[id[1]].rules) /\ r \in RuleBook
  <2>1. causes[id[1]].rules \in Seq(RuleBook)
    BY <1>2, CausesOfAll DEF RulesInv
  <2> QED BY <1>2, <1>3, <2>1 DEF ToSet
<1>5. IsEligible(r, id)
  BY <1>2, <1>4, EligibleStays
<1>6. CASE id = by.entry /\ r.id = by.rule
  <2>1. due[t].entry = id /\ due[t].rule = r.id
    BY <1>3, <1>6 DEF Cause
  <2> QED BY <1>3, <2>1 DEF RunsOrRan
<1>7. CASE RunsOrRan(r, id, frames, causes, refused)
  BY <1>3, <1>7 DEF RunsOrRan
<1> QED BY <1>4, <1>5, <1>6, <1>7 DEF SetsOff

LEMMA RunsAmongOthers ==
  ASSUME RulesInv, NEW frames, Narrows(stack, frames), RulesLeft(frames, causes),
         NEW by, IsDue(by, frames), NEW tx, WellMade(tx.entries), Executing(tx, by, frames)
  PROVE  /\ LedgerInv' /\ Keep(tx) /\ rules' = rules /\ causes' = Append(causes, Cause(by))
         /\ causes' \in Seq(Causes') /\ Len(causes') = Len(built')
         /\ OneOfAnId(rules)' /\ DueInTurn(causes')
<1>1. /\ Keep(tx) /\ rules' = rules /\ accounts' = accounts /\ causes' = Append(causes, Cause(by))
      /\ ExecuteSingle(Len(built) + 1, tx.entries)
  BY DEF Executing, Cause
<1>2. LedgerInv'
  BY <1>1, NewOnesKeepTheBooks DEF RulesInv
<1>3. PICK due : due = causes'
  OBVIOUS
<1>4. due \in Seq(Causes) /\ Len(due) = Len(causes) + 1 /\ DueInTurn(due)
  BY <1>1, <1>3, CausedInTurn
<1>5. Causes \subseteq Causes'
  BY <1>1, OlderIds
<1>6. due \in Seq(Causes')
  <2>1. PICK S, T : S = Causes /\ T = Causes'
    OBVIOUS
  <2>2. S \subseteq T /\ due \in Seq(S)
    BY <1>4, <1>5, <2>1
  <2> QED BY <2>1, <2>2, LongerSequences
<1>7. Len(causes') = Len(built')
  <2>1. Len(built') = Len(built) + 1 /\ Len(causes) = Len(built)
    BY <1>1, NewIds, CausesOfAll DEF RulesInv
  <2> QED BY <1>3, <1>4, <2>1
<1>8. OneOfAnId(rules)'
  BY <1>1 DEF RulesInv, OneOfAnId
<1> QED BY <1>1, <1>2, <1>3, <1>4, <1>6, <1>7, <1>8

\* An execution that fails leaves its events behind and ends the rules of its entry.
LEMMA FailingFollows ==
  ASSUME RuleBookAssumption, RulesInv, NEW frames, Narrows(stack, frames), RulesLeft(frames, causes),
         NEW by, IsDue(by, frames), NEW tx, WellMade(tx.entries),
         SetsOff(by, frames),
         Executing(tx, by, frames), ~Executes(tx.entries)
  PROVE  RulesInv'
<1> DEFINE e == tx.entries
           new(a) == Recorded(Len(built) + 1, e, a)
<1>1. PICK t : t = Len(built) + 1
  OBVIOUS
<1>2. PICK due, after, waiting, failed :
        due = causes' /\ after = stack' /\ waiting = pending' /\ failed = refused'
  OBVIOUS
<1>3. /\ Keep(tx) /\ rules' = rules /\ due = Append(causes, Cause(by))
      /\ waiting = PendingAfter(t, e) /\ after = RulesEnd(frames) /\ failed = refused \cup {t}
  BY <1>1, <1>2, RunsAmongOthers DEF Executing
<1>4. /\ t = Len(causes) + 1 /\ t \notin DOMAIN causes /\ t \notin Transactions
      /\ Transactions' = Transactions \cup {t}
      /\ Ids' = Ids \cup {<<t, n>> : n \in 1..Len(e)}
      /\ \A x \in Ids \cup {NoEntry} : x[1] # t
      /\ \A x \in Ids : x[1] \in DOMAIN causes
      /\ \A f \in Frames : f.entry[1] # t /\ ToSet(f.events) \subseteq Ids
      /\ \A a \in Accounts : ToSet(pending[a]) \subseteq Ids
      /\ \A k \in DOMAIN causes : causes[k].entry[1] # t
      /\ Frames \subseteq Frames'
  BY <1>1, <1>3, OlderIds
<1>5. /\ DOMAIN due = DOMAIN causes \cup {t}
      /\ \A k \in DOMAIN causes : due[k] = causes[k]
      /\ due[t].entry = by.entry
      /\ RulesLeft(frames, due) /\ NothingDue(frames, pending, due) /\ CallsAreNested(frames, due)
  <2>1. /\ DOMAIN due = DOMAIN causes \cup {t}
        /\ \A k \in DOMAIN causes : due[k] = causes[k]
        /\ due[t] = Cause(by)
        /\ RulesLeft(frames, due) /\ NothingDue(frames, pending, due) /\ CallsAreNested(frames, due)
    <3>1. /\ DOMAIN due = DOMAIN causes \cup {Len(causes) + 1}
          /\ \A k \in DOMAIN causes : due[k] = causes[k]
          /\ due[Len(causes) + 1] = Cause(by)
          /\ RulesLeft(frames, due) /\ NothingDue(frames, pending, due) /\ CallsAreNested(frames, due)
      <4>1. due = Append(causes, Cause(by))
        BY <1>3
      <4> QED BY ONLY <4>1, RulesInv, Narrows(stack, frames), RulesLeft(frames, causes),
                      IsDue(by, frames), CausedInTurn
    <3> QED BY <1>4, <3>1
  <2> QED BY <2>1 DEF Cause
<1>6. /\ waiting \in [Accounts -> Seq(Ids')]
      /\ \A a \in Accounts : ToSet(waiting[a]) = ToSet(pending[a]) \cup new(a)
  BY <1>1, <1>3, EventsWait
<1>7. Narrows(stack, after) /\ RulesLeft(after, due)
  BY <1>3, <1>5, EndedNarrows
<1>8. /\ EventsOnce(after, pending) /\ EventsAreOwn(after, pending, failed)
      /\ CallsAreNested(after, causes)
  BY <1>3, <1>7, NarrowerIsKept DEF RulesInv
<1>9. /\ after \in Seq(Frames) /\ frames \in Seq(Frames) /\ DOMAIN after = DOMAIN frames
      /\ \A i \in DOMAIN frames :
           /\ after[i] \in Frames /\ after[i].tx = frames[i].tx
           /\ after[i].events = frames[i].events /\ after[i].entry = frames[i].entry
  <2>1. after \in Seq(Frames) /\ frames \in Seq(Frames)
    BY <1>7 DEF Narrows
  <2>2. \A i \in DOMAIN after : after[i] \in Frames
    BY <2>1
  <2> QED BY <1>3, <2>1, <2>2, RulesEndForTop
<1>10. \A a \in Accounts : \A x \in new(a) : x[1] = t /\ e[x[2]].account = a
  BY <1>1 DEF Recorded
<1> HIDE DEF new, e
<1>11. EventsOnce(after, waiting)
  <2>1. ASSUME NEW i \in DOMAIN after, NEW a \in Accounts
        PROVE  after[i].entry \notin ToSet(waiting[a]) /\ ToSet(after[i].events) \cap ToSet(waiting[a]) = {}
    <3>1. after[i].entry \notin ToSet(pending[a]) /\ ToSet(after[i].events) \cap ToSet(pending[a]) = {}
      BY <1>8 DEF EventsOnce
    <3>2. after[i].entry[1] # t /\ \A x \in ToSet(after[i].events) : x[1] # t
      BY <1>4, <1>9
    <3> QED BY <1>6, <1>10, <3>1, <3>2
  <2>2. ASSUME NEW a \in Accounts, NEW b \in Accounts, a # b
        PROVE  ToSet(waiting[a]) \cap ToSet(waiting[b]) = {}
    <3>1. ToSet(pending[a]) \cap ToSet(pending[b]) = {}
      BY <1>8, <2>2 DEF EventsOnce
    <3>2. \A x \in ToSet(pending[a]) \cup ToSet(pending[b]) : x[1] # t
      BY <1>4
    <3> SUFFICES ASSUME NEW x \in ToSet(waiting[a]), x \in ToSet(waiting[b]) PROVE FALSE
      OBVIOUS
    <3>3. /\ x \in ToSet(pending[a]) \/ x \in new(a)
          /\ x \in ToSet(pending[b]) \/ x \in new(b)
      BY <1>6
    <3>4. /\ x \in new(a) => x[1] = t /\ e[x[2]].account = a
          /\ x \in new(b) => x[1] = t /\ e[x[2]].account = b
      BY <1>10
    <3> QED BY <2>2, <3>1, <3>2, <3>3, <3>4
  <2> QED BY <1>8, <2>1, <2>2 DEF EventsOnce
<1>12. NothingDue(after, waiting, due)
  <2> SUFFICES ASSUME NEW k \in DOMAIN due
               PROVE  /\ \A i \in DOMAIN after : due[k].entry \notin ToSet(after[i].events)
                      /\ \A a \in Accounts : due[k].entry \notin ToSet(waiting[a])
    BY DEF NothingDue
  <2>1. /\ \A i \in DOMAIN frames : due[k].entry \notin ToSet(frames[i].events)
        /\ \A a \in Accounts : due[k].entry \notin ToSet(pending[a])
    BY <1>5 DEF NothingDue
  <2>2. due[k].entry[1] # t
    <3>1. by.entry[1] # t
      BY <1>4 DEF IsDue
    <3> QED BY <1>4, <1>5, <3>1
  <2> QED BY <1>6, <1>9, <1>10, <2>1, <2>2
<1>13. EventsAreOwn(after, waiting, failed)
  <2>1. \A a \in Accounts : \A x \in ToSet(waiting[a]) : x[1] \in failed
    BY <1>3, <1>6, <1>8, <1>10 DEF EventsAreOwn
  <2> QED BY <1>8, <2>1 DEF EventsAreOwn
<1>14. CallsAreNested(after, due)
  <2> SUFFICES ASSUME NEW i \in DOMAIN after
               PROVE  /\ due[after[i].tx].rules = rules
                      /\ i > 1 => due[after[i].tx].entry = after[i - 1].entry
    BY DEF CallsAreNested
  <2>1. after[i].tx \in DOMAIN causes
    <3>1. PICK f \in Frames : f = after[i]
      BY <1>9
    <3>2. f.tx \in Transactions
      BY DEF Frames
    <3> QED BY <3>1, <3>2, CausesOfAll DEF RulesInv
  <2> QED BY <1>5, <1>8, <2>1 DEF CallsAreNested
<1>15. AllFollow(after, due, failed)'
  <2> SUFFICES ASSUME NEW x \in Ids', x[1] \notin failed, NEW r \in ToSet(due[x[1]].rules),
                      OfEntry(r), IsEligible(r, x)'
               PROVE  RunsOrRan(r, x, after, due, failed)
    BY DEF AllFollow
  <2>1. x \in Ids /\ x[1] \notin refused
    BY <1>3, <1>4
  <2>2. RunsOrRan(r, x, frames, due, refused)
    BY <1>3, <2>1, OldEntriesFollow
  <2>3. frames # <<>> =>
          \E k \in DOMAIN due : due[k].entry = frames[Len(frames)].entry /\ k \in failed
    <3>1. frames # <<>> => due[t].entry = frames[Len(frames)].entry
      BY <1>5 DEF IsDue
    <3> QED BY <1>3, <1>5, <3>1
  <2>4. RunsOrRan(r, x, RulesEnd(frames), due, failed)
    BY <1>3, <1>9, <2>2, <2>3, EndedFollow
  <2> QED BY <1>3, <2>4
<1>16. RulesTypeOK'
  <2>1. causes' \in Seq(Causes') /\ Len(causes') = Len(built')
    BY RunsAmongOthers
  <2>2. stack' \in Seq(Frames')
    <3>1. PICK S, T : S = Frames /\ T = Frames'
      OBVIOUS
    <3>2. S \subseteq T /\ after \in Seq(S)
      BY <1>4, <1>9, <3>1
    <3> QED BY <1>2, <3>1, <3>2, LongerSequences
  <2>3. refused' \subseteq Transactions'
    BY <1>2, <1>3, <1>4 DEF RulesInv, RulesTypeOK
  <2>4. rules' \in Seq(RuleBook)
    BY <1>3 DEF RulesInv, RulesTypeOK
  <2> QED BY <1>2, <1>6, <2>1, <2>2, <2>3, <2>4 DEF RulesTypeOK
<1>17. DueToEligible(causes, refused)'
  <2>1. refused \subseteq failed
    BY <1>3
  <2>2. DueToEligible(due, failed)'
    BY <1>3, <2>1, CausesAreEligible
  <2> QED BY <1>2, <2>2 DEF DueToEligible
<1>18. /\ EventsOnce(stack, pending)' /\ NothingDue(stack, pending, causes)'
       /\ EventsAreOwn(stack, pending, refused)' /\ DueInTurn(causes)'
  <2>1. DueInTurn(causes')
    BY RunsAmongOthers
  <2> QED BY <1>2, <1>11, <1>12, <1>13, <2>1 DEF EventsOnce, NothingDue, EventsAreOwn, DueInTurn
<1>19. CallsAreNested(stack, causes)' /\ RulesLeft(stack, causes)'
  <2>1. CallsAreNested(stack, causes)'
    BY <1>2, <1>3, <1>14 DEF CallsAreNested
  <2>2. RulesLeft(stack, causes)'
    BY <1>2, <1>3, <1>7 DEF RulesLeft, FollowsOn
  <2> QED BY <2>1, <2>2
<1>20. AllFollow(stack, causes, refused)'
  BY <1>2, <1>15 DEF AllFollow
<1>21. LedgerInv' /\ OneOfAnId(rules)'
  BY RunsAmongOthers
<1> QED BY <1>16, <1>17, <1>18, <1>19, <1>20, <1>21 DEF RulesInv

\* An execution that succeeds publishes the events of the accounts that it involves.
LEMMA SucceedingFollows ==
  ASSUME RuleBookAssumption, RulesInv, NEW frames, Narrows(stack, frames), RulesLeft(frames, causes),
         NEW by, IsDue(by, frames), NEW tx, WellMade(tx.entries),
         SetsOff(by, frames),
         Executing(tx, by, frames), Executes(tx.entries)
  PROVE  RulesInv'
<1> DEFINE e == tx.entries
           N == Len(frames)
<1>1. PICK t : t = Len(built) + 1
  OBVIOUS
<1>2. PICK due, after, waiting, f :
        /\ due = causes' /\ after = stack' /\ waiting = pending'
        /\ f = [tx |-> t, events |-> Published(t, e), entry |-> NoEntry, rules |-> <<>>]
  OBVIOUS
<1>3. /\ Keep(tx) /\ rules' = rules /\ due = Append(causes, Cause(by))
      /\ waiting = [a \in Accounts |-> IF a \in Involved(e) THEN <<>> ELSE pending[a]]
      /\ after = Append(frames, f) /\ refused' = refused
  BY <1>1, <1>2, RunsAmongOthers DEF Executing
<1>4. /\ t = Len(causes) + 1 /\ t \notin DOMAIN causes /\ t \notin Transactions
      /\ Transactions' = Transactions \cup {t}
      /\ Ids' = Ids \cup {<<t, n>> : n \in 1..Len(e)}
      /\ \A x \in Ids \cup {NoEntry} : x[1] # t
      /\ \A x \in Ids : x[1] \in DOMAIN causes
      /\ NoEntry \notin Ids'
      /\ \A g \in Frames : g.entry[1] # t /\ NoEntry \notin ToSet(g.events) /\ ToSet(g.events) \subseteq Ids
      /\ \A a \in Accounts : ToSet(pending[a]) \subseteq Ids
      /\ \A k \in DOMAIN causes : causes[k].entry[1] # t
      /\ Frames \subseteq Frames'
  BY <1>1, <1>3, OlderIds
<1>5. /\ DOMAIN due = DOMAIN causes \cup {t}
      /\ \A k \in DOMAIN causes : due[k] = causes[k]
      /\ due[t].entry = by.entry /\ due[t].rules = rules
      /\ RulesLeft(frames, due) /\ NothingDue(frames, pending, due) /\ CallsAreNested(frames, due)
  <2>1. /\ DOMAIN due = DOMAIN causes \cup {Len(causes) + 1}
        /\ \A k \in DOMAIN causes : due[k] = causes[k]
        /\ due[Len(causes) + 1] = Cause(by)
        /\ RulesLeft(frames, due) /\ NothingDue(frames, pending, due) /\ CallsAreNested(frames, due)
    <3>1. due = Append(causes, Cause(by))
      BY <1>3
    <3> QED BY ONLY <3>1, RulesInv, Narrows(stack, frames), RulesLeft(frames, causes),
                    IsDue(by, frames), CausedInTurn
  <2> QED BY <1>4, <2>1 DEF Cause
<1>6. /\ Published(t, e) \in Seq(Ids') /\ IsInjective(Published(t, e))
      /\ ToSet(Published(t, e)) = UNION {ToSet(PendingAfter(t, e)[a]) : a \in Involved(e)}
      /\ \A a \in Accounts : ToSet(PendingAfter(t, e)[a]) = ToSet(pending[a]) \cup Recorded(t, e, a)
  <2>1. Keep(tx)
    BY <1>3
  <2>2. /\ PendingAfter(t, e) \in [Accounts -> Seq(Ids')]
        /\ \A a \in Accounts : ToSet(PendingAfter(t, e)[a]) = ToSet(pending[a]) \cup Recorded(t, e, a)
    BY ONLY <1>1, <2>1, RulesInv, WellMade(tx.entries), EventsWait
  <2>3. /\ Published(t, e) \in Seq(Ids') /\ IsInjective(Published(t, e))
        /\ ToSet(Published(t, e)) = Held(e, PendingAfter(t, e))
    BY ONLY <1>1, <2>1, RulesInv, WellMade(tx.entries), EventsArePublished
  <2> QED BY <2>2, <2>3 DEF Held
<1>7. Involved(e) \subseteq Accounts /\ \A n \in 1..Len(e) : e[n].account \in Involved(e) /\ Counted(e, n)
  BY NothingStops DEF WellMade, Involved
<1>8. /\ f.tx = t /\ f.events = Published(t, e) /\ f.entry = NoEntry /\ f.rules = <<>>
      /\ f \in Frames'
  <2>1. NoEntry \in Ids' \cup {NoEntry} /\ NoEntry' = NoEntry /\ <<>> \in Seq(RuleBook) /\ t \in Transactions'
    BY <1>4 DEF NoEntry
  <2>2. Published(t, e) \in Seq(Ids')
    BY <1>6
  <2>3. PICK P : P = Published(t, e)
    OBVIOUS
  <2> QED BY <1>2, <2>1, <2>2, <2>3 DEF Frames
<1>9. \A x \in ToSet(f.events) : x[1] = t \/ \E a \in Involved(e) : x \in ToSet(pending[a])
  <2> SUFFICES ASSUME NEW x \in ToSet(f.events), x[1] # t
               PROVE  \E a \in Involved(e) : x \in ToSet(pending[a])
    OBVIOUS
  <2>1. PICK a \in Involved(e) : x \in ToSet(PendingAfter(t, e)[a])
    BY <1>6, <1>8
  <2> DEFINE F == Recorded(t, e, a)
  <2>2. x \notin F
    BY DEF Recorded
  <2>3. ToSet(PendingAfter(t, e)[a]) = ToSet(pending[a]) \cup F
    BY <1>6, <1>7
  <2> HIDE DEF F
  <2> QED BY <2>1, <2>2, <2>3
<1>10. \A n \in 1..Len(e) : <<t, n>> \in ToSet(f.events)
  <2> SUFFICES ASSUME NEW n \in 1..Len(e) PROVE <<t, n>> \in ToSet(f.events)
    OBVIOUS
  <2>1. PICK a \in Involved(e) : a = e[n].account
    BY <1>7
  <2> DEFINE F == Recorded(t, e, a)
  <2>2. <<t, n>> \in F
    BY <1>7, <2>1 DEF Recorded
  <2>3. ToSet(PendingAfter(t, e)[a]) = ToSet(pending[a]) \cup F
    BY <1>6, <1>7
  <2> HIDE DEF F
  <2>4. <<t, n>> \in ToSet(PendingAfter(t, e)[a])
    BY <2>2, <2>3
  <2> QED BY <1>6, <1>8, <2>4
<1>11. waiting \in [Accounts -> Seq(Ids')]
  <2>1. PICK S, T : S = Ids /\ T = Ids'
    OBVIOUS
  <2>2. S \subseteq T /\ \A a \in Accounts : pending[a] \in Seq(S)
    BY <1>4, <2>1 DEF RulesInv, RulesTypeOK
  <2>3. \A a \in Accounts : pending[a] \in Seq(T) /\ <<>> \in Seq(T)
    BY <2>2, LongerSequences
  <2> HIDE DEF e
  <2> QED BY <1>3, <2>1, <2>3
<1>12. \A a \in Accounts :
         ToSet(waiting[a]) = IF a \in Involved(e) THEN {} ELSE ToSet(pending[a])
  BY <1>3 DEF ToSet
<1>13. /\ EventsOnce(frames, pending) /\ EventsAreOwn(frames, pending, refused)
  BY NarrowerIsKept DEF RulesInv
<1>14. /\ frames \in Seq(Frames) /\ N \in Nat /\ DOMAIN frames = 1..N
       /\ \A i \in DOMAIN frames : frames[i] \in Frames
       /\ after \in Seq(Frames') /\ DOMAIN after = 1..(N + 1) /\ after[N + 1] = f
       /\ \A i \in 1..N : after[i] = frames[i]
  <2>1. frames \in Seq(Frames) /\ N \in Nat /\ DOMAIN frames = 1..N /\ \A i \in DOMAIN frames : frames[i] \in Frames
    BY DEF Narrows
  <2>2. PICK S, T : S = Frames /\ T = Frames'
    OBVIOUS
  <2>3. frames \in Seq(T) /\ f \in T
    <3>1. S \subseteq T /\ frames \in Seq(S) /\ f \in T
      BY <1>4, <1>8, <2>1, <2>2
    <3> QED BY <3>1, LongerSequences
  <2>4. /\ after \in Seq(T) /\ DOMAIN after = 1..(N + 1) /\ after[N + 1] = f
        /\ \A i \in 1..N : after[i] = frames[i]
    BY <1>3, <2>3, PushedOn
  <2> QED BY <2>1, <2>2, <2>4
<1> HIDE DEF e, N
<1>15. \A i \in DOMAIN after : i \in Int /\ ((i \in DOMAIN frames /\ after[i] = frames[i]) \/ (i = N + 1 /\ after[i] = f))
  BY <1>14
<1>16. /\ \A i \in DOMAIN frames :
             /\ frames[i].entry \notin ToSet(f.events)
             /\ NoEntry \notin ToSet(frames[i].events)
             /\ ToSet(frames[i].events) \cap ToSet(f.events) = {}
       /\ NoEntry \notin ToSet(f.events)
       /\ \A a \in Accounts : a \in Involved(e) \/ ToSet(f.events) \cap ToSet(pending[a]) = {}
  <2>1. ASSUME NEW i \in DOMAIN frames
        PROVE  /\ frames[i].entry \notin ToSet(f.events)
               /\ NoEntry \notin ToSet(frames[i].events)
               /\ ToSet(frames[i].events) \cap ToSet(f.events) = {}
    <3>1. frames[i].entry[1] # t /\ NoEntry \notin ToSet(frames[i].events) /\ \A x \in ToSet(frames[i].events) : x[1] # t
      BY <1>4, <1>14
    <3>2. \A a \in Involved(e) :
            /\ frames[i].entry \notin ToSet(pending[a])
            /\ ToSet(frames[i].events) \cap ToSet(pending[a]) = {}
      BY <1>7, <1>13 DEF EventsOnce
    <3> QED BY <1>9, <3>1, <3>2
  <2>2. NoEntry \notin ToSet(f.events)
    <3>1. NoEntry[1] # t /\ \A a \in Involved(e) : NoEntry \notin ToSet(pending[a])
      <4>1. NoEntry \notin Ids
        BY <1>4
      <4> QED BY <1>4, <1>7, <4>1
    <3> QED BY <1>9, <3>1
  <2>3. ASSUME NEW a \in Accounts, a \notin Involved(e), NEW x \in ToSet(f.events), x \in ToSet(pending[a])
        PROVE  FALSE
    <3>1. x[1] # t
      BY <1>4, <2>3
    <3>2. PICK b \in Involved(e) : x \in ToSet(pending[b])
      BY <1>9, <3>1
    <3> QED BY <1>7, <1>13, <2>3, <3>2 DEF EventsOnce
  <2> QED BY <2>1, <2>2, <2>3
<1>17. EventsOnce(after, waiting)
  <2>1. ASSUME NEW i \in DOMAIN after
        PROVE  IsInjective(after[i].events) /\ after[i].entry \notin ToSet(after[i].events)
    BY <1>6, <1>8, <1>13, <1>15, <1>16 DEF EventsOnce
  <2>2. ASSUME NEW i \in DOMAIN after, NEW a \in Accounts
        PROVE  /\ after[i].entry \notin ToSet(waiting[a])
               /\ ToSet(after[i].events) \cap ToSet(waiting[a]) = {}
    <3>1. CASE after[i] = f
      <4>1. NoEntry \notin ToSet(waiting[a])
        <5>1. NoEntry \notin Ids
          BY <1>4
        <5> QED BY <1>4, <1>12, <5>1
      <4> QED BY <1>8, <1>12, <1>16, <3>1, <4>1
    <3>2. CASE i \in DOMAIN frames /\ after[i] = frames[i]
      BY <1>12, <1>13, <3>2 DEF EventsOnce
    <3> QED BY <1>15, <3>1, <3>2
  <2>3. \A a, b \in Accounts : a # b => ToSet(waiting[a]) \cap ToSet(waiting[b]) = {}
    BY <1>12, <1>13 DEF EventsOnce
  <2>4. ASSUME NEW i \in DOMAIN after, NEW j \in DOMAIN after, i # j
        PROVE  /\ after[i].entry \notin ToSet(after[j].events)
               /\ after[i].entry = after[j].entry => after[i].entry = NoEntry
               /\ ToSet(after[i].events) \cap ToSet(after[j].events) = {}
    <3>1. CASE i \in DOMAIN frames /\ j \in DOMAIN frames /\ after[i] = frames[i] /\ after[j] = frames[j]
      BY <1>13, <2>4, <3>1 DEF EventsOnce
    <3>2. CASE i \in DOMAIN frames /\ after[i] = frames[i] /\ after[j] = f
      BY <1>8, <1>16, <3>2
    <3>3. CASE after[i] = f /\ j \in DOMAIN frames /\ after[j] = frames[j]
      BY <1>8, <1>16, <3>3
    <3> QED BY <1>15, <2>4, <3>1, <3>2, <3>3
  <2> QED BY <2>1, <2>2, <2>3, <2>4 DEF EventsOnce
<1>18. NothingDue(after, waiting, due)
  <2> SUFFICES ASSUME NEW k \in DOMAIN due
               PROVE  /\ \A i \in DOMAIN after : due[k].entry \notin ToSet(after[i].events)
                      /\ \A a \in Accounts : due[k].entry \notin ToSet(waiting[a])
    BY DEF NothingDue
  <2>1. /\ \A i \in DOMAIN frames : due[k].entry \notin ToSet(frames[i].events)
        /\ \A a \in Accounts : due[k].entry \notin ToSet(pending[a])
    BY <1>5 DEF NothingDue
  <2>2. due[k].entry[1] # t
    <3>1. by.entry[1] # t
      BY <1>4 DEF IsDue
    <3> QED BY <1>4, <1>5, <3>1
  <2>3. due[k].entry \notin ToSet(f.events)
    BY <1>7, <1>9, <2>1, <2>2
  <2> QED BY <1>12, <1>15, <2>1, <2>3
<1>19. EventsAreOwn(after, waiting, refused)
  <2>1. \A a \in Accounts : \A x \in ToSet(waiting[a]) : x[1] \in refused
    BY <1>12, <1>13 DEF EventsAreOwn
  <2>2. \A x \in ToSet(f.events) \cup ({f.entry} \ {NoEntry}) : x[1] = f.tx \/ x[1] \in refused
    <3>1. \A x \in ToSet(f.events) : x[1] = t \/ x[1] \in refused
      BY <1>7, <1>9, <1>13 DEF EventsAreOwn
    <3> QED BY <1>8, <3>1
  <2>3. ASSUME NEW i \in DOMAIN after
        PROVE  \A x \in ToSet(after[i].events) \cup ({after[i].entry} \ {NoEntry}) :
                 x[1] = after[i].tx \/ x[1] \in refused
    <3>1. CASE after[i] = f
      BY <2>2, <3>1
    <3>2. CASE i \in DOMAIN frames /\ after[i] = frames[i]
      BY <1>13, <3>2 DEF EventsAreOwn
    <3> QED BY <1>15, <3>1, <3>2
  <2> QED BY <2>1, <2>3 DEF EventsAreOwn
<1>20. CallsAreNested(after, due)
  <2> SUFFICES ASSUME NEW i \in DOMAIN after
               PROVE  /\ due[after[i].tx].rules = rules
                      /\ i > 1 => due[after[i].tx].entry = after[i - 1].entry
    BY DEF CallsAreNested
  <2>1. CASE i = N + 1
    <3>1. i > 1 => frames # <<>> /\ after[i - 1] = frames[N]
      BY <1>14, <2>1 DEF N
    <3>2. frames # <<>> => by.entry = frames[N].entry
      BY DEF IsDue, N
    <3> QED BY <1>5, <1>8, <1>14, <2>1, <3>1, <3>2
  <2>2. CASE i \in DOMAIN frames
    <3>1. after[i] = frames[i] /\ (i > 1 => after[i - 1] = frames[i - 1])
      BY <1>14, <2>2
    <3> QED BY <1>5, <2>2, <3>1 DEF CallsAreNested
  <2> QED BY <1>15, <2>1, <2>2
<1>21. RulesLeft(after, due)
  <2> SUFFICES ASSUME NEW i \in DOMAIN after PROVE FollowsOn(after[i], due)
    BY DEF RulesLeft
  <2>1. CASE after[i] = f
    BY <1>8, <2>1 DEF FollowsOn
  <2>2. CASE i \in DOMAIN frames /\ after[i] = frames[i]
    BY <1>5, <2>2 DEF RulesLeft
  <2> QED BY <1>15, <2>1, <2>2
<1>22. AllFollow(after, due, refused)'
  <2> SUFFICES ASSUME NEW x \in Ids', x[1] \notin refused, NEW r \in ToSet(due[x[1]].rules),
                      OfEntry(r), IsEligible(r, x)'
               PROVE  RunsOrRan(r, x, after, due, refused)
    BY <1>3 DEF AllFollow
  <2>1. CASE x \in Ids
    <3>1. RunsOrRan(r, x, frames, due, refused)
      BY <1>3, <2>1, OldEntriesFollow
    <3>2. \A i \in DOMAIN frames : i \in DOMAIN after /\ after[i] = frames[i]
      BY <1>14
    <3> QED BY <3>1, <3>2 DEF RunsOrRan
  <2>2. CASE x \notin Ids
    <3>1. PICK n \in 1..Len(e) : x = <<t, n>>
      BY <1>4, <2>2
    <3>2. x[1] = t /\ x \in ToSet(f.events)
      BY <1>10, <3>1
    <3>3. N + 1 \in DOMAIN after /\ after[N + 1] = f
      BY <1>14
    <3> QED BY <1>8, <3>2, <3>3 DEF RunsOrRan
  <2> QED BY <2>1, <2>2
<1>23. RulesTypeOK'
  <2>1. causes' \in Seq(Causes') /\ Len(causes') = Len(built')
    BY RunsAmongOthers
  <2>2. refused' \subseteq Transactions'
    BY <1>3, <1>4 DEF RulesInv, RulesTypeOK
  <2>3. rules' \in Seq(RuleBook)
    BY <1>3 DEF RulesInv, RulesTypeOK
  <2> QED BY <1>2, <1>11, <1>14, <2>1, <2>2, <2>3 DEF RulesTypeOK
<1>24. DueToEligible(causes, refused)'
  <2>1. refused \subseteq refused
    OBVIOUS
  <2>2. DueToEligible(due, refused)'
    <3>1. PICK failed : failed = refused
      OBVIOUS
    <3>2. refused \subseteq failed
      BY <3>1
    <3>3. DueToEligible(due, failed)'
      BY <1>3, <3>2, CausesAreEligible
    <3> QED BY <1>3, <3>1, <3>3 DEF DueToEligible
  <2> QED BY <1>2, <2>2 DEF DueToEligible
<1>25. /\ EventsOnce(stack, pending)' /\ NothingDue(stack, pending, causes)'
       /\ EventsAreOwn(stack, pending, refused)' /\ DueInTurn(causes)'
  <2>1. DueInTurn(causes')
    BY RunsAmongOthers
  <2> QED BY <1>2, <1>3, <1>17, <1>18, <1>19, <2>1 DEF EventsOnce, NothingDue, EventsAreOwn, DueInTurn
<1>26. CallsAreNested(stack, causes)' /\ RulesLeft(stack, causes)'
  <2>1. CallsAreNested(stack, causes)'
    BY <1>2, <1>3, <1>20 DEF CallsAreNested
  <2>2. RulesLeft(stack, causes)'
    BY <1>2, <1>3, <1>21 DEF RulesLeft, FollowsOn
  <2> QED BY <2>1, <2>2
<1>27. AllFollow(stack, causes, refused)'
  BY <1>2, <1>22 DEF AllFollow
<1>28. LedgerInv' /\ OneOfAnId(rules)'
  BY RunsAmongOthers
<1> QED BY <1>23, <1>24, <1>25, <1>26, <1>27, <1>28 DEF RulesInv

LEMMA ExecutingFollows ==
  ASSUME RuleBookAssumption, RulesInv, NEW frames, Narrows(stack, frames), RulesLeft(frames, causes),
         NEW by, IsDue(by, frames), NEW tx, WellMade(tx.entries),
         SetsOff(by, frames),
         Executing(tx, by, frames)
  PROVE  RulesInv'
<1>1. CASE Executes(tx.entries)
  BY <1>1, SucceedingFollows
<1>2. CASE ~Executes(tx.entries)
  BY <1>2, FailingFollows
<1> QED BY <1>1, <1>2

LEMMA RuleTxsAreWellMade ==
  ASSUME RuleBookAssumption, TransactionsAreBalanced, NEW r \in RuleBook, NEW id \in Ids
  PROVE  WellMade(RuleTx(r, id).entries)
<1> DEFINE Part(a, kind) ==
             [account |-> a, kind |-> kind, money |-> r.amount, currency |-> BaseCurrency,
              appliesAt |-> now, validFrom |-> 0, validTo |-> Forever, appliedTo |-> NoEntry]
           e == RuleTx(r, id).entries
<1>1. r.to \in Accounts /\ r.amount \in Int /\ EntryOf(id).account \in Accounts
  BY EntriesOfIds DEF RuleBookAssumption
<1>2. PICK x, y : x = Part(EntryOf(id).account, "debited") /\ y = Part(r.to, "credited")
  OBVIOUS
<1>3. /\ DOMAIN x = EntryFields /\ x.account \in Accounts /\ x.money \in Int
      /\ DOMAIN y = EntryFields /\ y.account \in Accounts /\ y.money \in Int
  BY <1>1, <1>2 DEF EntryFields
<1>4. e = <<x, y>> \/ e = <<y>>
  BY <1>2 DEF RuleTx
<1> HIDE DEF e
<1>5. CASE e = <<x, y>>
  <2>1. e \in Seq({x, y}) /\ Len(e) = 2 /\ DOMAIN e = 1..2 /\ e = [n \in DOMAIN e |-> e[n]] /\ \A n \in 1..2 : e[n] \in {x, y}
    BY <1>5
  <2>2. e \in Seq(Range(e))
    BY <2>1, FunctionIsSequence
  <2> QED BY <1>3, <2>1, <2>2 DEF WellMade, e
<1>6. CASE e = <<y>>
  <2>1. e \in Seq({y}) /\ Len(e) = 1 /\ DOMAIN e = 1..1 /\ e = [n \in DOMAIN e |-> e[n]] /\ \A n \in 1..1 : e[n] = y
    BY <1>6
  <2>2. e \in Seq(Range(e))
    BY <2>1, FunctionIsSequence
  <2> QED BY <1>3, <2>1, <2>2 DEF WellMade, e
<1> QED BY <1>4, <1>5, <1>6

LEMMA RunningFollows ==
  ASSUME RuleBookAssumption, RulesInv, RunRule PROVE RulesInv'
<1> DEFINE r == Head(Top.rules)
           rest == WithTop([Top EXCEPT !.rules = Tail(Top.rules)])
           tx == RuleTx(r, Top.entry)
           by == [rule |-> r.id, entry |-> Top.entry]
           N == Len(stack)
<1>1. stack # <<>> /\ Top.rules # <<>>
  BY DEF RunRule
<1>2. \/ /\ ~IsEligible(r, Top.entry) /\ stack' = rest
         /\ UNCHANGED <<vars, rules, causes, pending, refused>>
      \/ IsEligible(r, Top.entry) /\ Executing(tx, by, rest)
      \/ /\ stack' = RulesEnd(Front(stack)) /\ refused' = refused \cup {Top.tx}
         /\ UNCHANGED <<vars, rules, causes, pending>>
  BY DEF RunRule
<1>3. CASE /\ ~IsEligible(r, Top.entry) /\ stack' = rest
           /\ UNCHANGED <<vars, rules, causes, pending, refused>>
  BY <1>1, <1>3, SkippingFollows
<1>4. CASE /\ stack' = RulesEnd(Front(stack)) /\ refused' = refused \cup {Top.tx}
           /\ UNCHANGED <<vars, rules, causes, pending>>
  BY <1>1, <1>4, ThrowingFollows
<1>5. CASE IsEligible(r, Top.entry) /\ Executing(tx, by, rest)
  <2>1. PICK frames, c, b : frames = rest /\ c = tx /\ b = by
    OBVIOUS
  <2>2. /\ N \in Nat /\ N >= 1 /\ DOMAIN stack = 1..N /\ N \in DOMAIN stack /\ Top = stack[N]
        /\ Top.entry \in Ids \cup {NoEntry} /\ Top.rules \in Seq(RuleBook)
    BY <1>1, TopIs DEF RulesInv
  <2>3. /\ Narrows(stack, frames) /\ RulesLeft(frames, causes)
        /\ Len(frames) = N /\ frames[N].entry = Top.entry /\ frames[N].rules = Tail(Top.rules)
    BY <1>1, <2>1, RestNarrows
  <2>4. /\ r = Top.rules[1] /\ 1 \in DOMAIN Top.rules /\ r \in RuleBook
        /\ DOMAIN Tail(Top.rules) \subseteq Int
        /\ \A m \in DOMAIN Tail(Top.rules) :
             m >= 1 /\ m + 1 \in DOMAIN Top.rules /\ Tail(Top.rules)[m] = Top.rules[m + 1]
        /\ ToSet(Top.rules) = {r} \cup ToSet(Tail(Top.rules))
    BY <1>1, <2>2, HeadAndTail
  <2>5. /\ Top.entry # NoEntry /\ ToSet(Top.rules) \subseteq ToSet(rules)
        /\ \A m, n \in DOMAIN Top.rules : m < n =>
             Top.rules[m].priority <= Top.rules[n].priority /\ Top.rules[m].id # Top.rules[n].id
        /\ \A k \in DOMAIN causes : causes[k].entry = Top.entry =>
             \A m \in DOMAIN Top.rules :
               PriorityOf(causes[k]) <= Top.rules[m].priority /\ causes[k].rule # Top.rules[m].id
    <3>1. FollowsOn(Top, causes)
      BY <2>2 DEF RulesInv, RulesLeft
    <3> QED BY <1>1, <3>1 DEF FollowsOn
  <2>6. b.rule = r.id /\ b.entry = Top.entry
    BY <2>1
  <2>7. WellMade(c.entries)
    <3>1. Top.entry \in Ids /\ TransactionsAreBalanced
      BY <2>2, <2>5 DEF RulesInv, LedgerInv
    <3> HIDE DEF r
    <3> QED BY <2>1, <2>4, <3>1, RuleTxsAreWellMade
  <2> HIDE DEF r, rest, tx, by, N
  <2>8. IsDue(b, frames)
    <3>1. frames # <<>>
      BY <2>2, <2>3
    <3>2. b.rule \in RuleNames /\ b.entry \in Ids \cup {NoEntry} /\ b.entry # NoEntry
      BY <2>2, <2>4, <2>5, <2>6 DEF RuleNames
    <3>3. r \in ToSet(rules)
      BY <2>4, <2>5
    <3>4. \A m \in DOMAIN frames[N].rules :
            r.priority <= frames[N].rules[m].priority /\ r.id # frames[N].rules[m].id
      <4> SUFFICES ASSUME NEW m \in DOMAIN Tail(Top.rules)
                   PROVE  r.priority <= Tail(Top.rules)[m].priority /\ r.id # Tail(Top.rules)[m].id
        BY <2>3
      <4>1. 1 < m + 1 /\ m + 1 \in DOMAIN Top.rules /\ Tail(Top.rules)[m] = Top.rules[m + 1]
        BY <2>4
      <4> QED BY <2>4, <2>5, <4>1
    <3>5. \A k \in DOMAIN causes : causes[k].entry = b.entry =>
            PriorityOf(causes[k]) <= r.priority /\ causes[k].rule # r.id
      BY <2>4, <2>5, <2>6
    <3> QED BY <1>5, <2>3, <2>6, <3>1, <3>2, <3>3, <3>4, <3>5 DEF IsDue
  <2>9. SetsOff(b, frames)
    <3> SUFFICES ASSUME NEW id \in Ids, id[1] \notin refused, NEW s \in ToSet(causes[id[1]].rules),
                        OfEntry(s), IsEligible(s, id)
                 PROVE  RunsOrRan(s, id, frames, causes, refused) \/ (id = b.entry /\ s.id = b.rule)
      BY DEF SetsOff
    <3>1. RunsOrRan(s, id, rest, causes, refused) \/ (id = Top.entry /\ s = Head(Top.rules))
      BY <1>1, RestFollow DEF rest
    <3> QED BY <2>1, <2>6, <3>1 DEF r
  <2>10. Executing(c, b, frames)
    BY <1>5, <2>1
  <2> QED BY <2>3, <2>7, <2>8, <2>9, <2>10, ExecutingFollows
<1> QED BY <1>2, <1>3, <1>4, <1>5

LEMMA PostingFollows ==
  ASSUME RuleBookAssumption, RulesInv, NEW p \in Triggers, Post(p) PROVE RulesInv'
<1>1. stack = <<>>
  BY DEF Post
<1>2. PICK tx \in PostingTxs(p, now) : Executing(tx, Client, <<>>)
  BY DEF Post
<1>3. WellMade(tx.entries)
  <2>1. PICK refs : tx = PostingTx(p, now, refs)
    BY DEF PostingTxs
  <2>2. p \in Seq(PostedLines)
    BY DEF RuleBookAssumption
  <2> QED BY LedgerAssumption, <2>1, <2>2, PostingsAreWellMade
<1>4. PICK frames, by : frames = <<>> /\ by = Client
  OBVIOUS
<1>5. Narrows(stack, frames) /\ RulesLeft(frames, causes)
  BY <1>1, <1>4 DEF Narrows, RulesLeft
<1>6. IsDue(by, frames)
  BY <1>4 DEF IsDue, Client, RuleNames
<1>7. SetsOff(by, frames)
  BY <1>1, <1>4 DEF RulesInv, AllFollow, SetsOff
<1>8. Executing(tx, by, frames)
  BY <1>2, <1>4
<1> QED BY <1>3, <1>5, <1>6, <1>7, <1>8, ExecutingFollows

-----------------------------------------------------------------------------
(* Clients change the rules *)

LEMMA ChangingRulesFollows ==
  ASSUME RulesInv, stack = <<>>, rules' \in Seq(RuleBook), OneOfAnId(rules'),
         UNCHANGED <<vars, causes, pending, stack, refused>>
  PROVE  RulesInv'
<1>1. LedgerInv'
  BY BooksAreKept DEF RulesInv
<1>2. /\ Ids' = Ids /\ Transactions' = Transactions /\ Frames' = Frames /\ Causes' = Causes
      /\ \A r, id : IsEligible(r, id)' <=> IsEligible(r, id)
  BY NothingChanges
<1>3. /\ causes' = causes /\ pending' = pending /\ stack' = <<>> /\ refused' = refused /\ built' = built
      /\ DOMAIN stack' = {}
  BY DEF vars
<1>4. RulesTypeOK'
  BY <1>2, <1>3 DEF RulesInv, RulesTypeOK
<1>5. OneOfAnId(rules)' /\ DueInTurn(causes)'
  BY <1>3 DEF RulesInv, OneOfAnId, DueInTurn
<1>6. EventsOnce(stack, pending)' /\ NothingDue(stack, pending, causes)' /\ EventsAreOwn(stack, pending, refused)'
  BY <1>3 DEF RulesInv, EventsOnce, NothingDue, EventsAreOwn
<1>7. CallsAreNested(stack, causes)' /\ RulesLeft(stack, causes)'
  BY <1>3 DEF CallsAreNested, RulesLeft
<1>8. DueToEligible(causes, refused)'
  <2>1. DueToEligible(causes, refused)
    BY DEF RulesInv
  <2> QED BY <1>2, <1>3, <2>1 DEF DueToEligible
<1>9. AllFollow(stack, causes, refused)'
  <2>1. AllFollow(stack, causes, refused)
    BY DEF RulesInv
  <2> QED BY <1>2, <1>3, <2>1 DEF AllFollow, RunsOrRan
<1> QED BY <1>1, <1>4, <1>5, <1>6, <1>7, <1>8, <1>9 DEF RulesInv

LEMMA SavingFollows ==
  ASSUME RulesInv, NEW r \in RuleBook, SaveRule(r) PROVE RulesInv'
<1>1. /\ stack = <<>> /\ rules \in Seq(RuleBook) /\ OneOfAnId(rules)
      /\ UNCHANGED <<vars, causes, pending, stack, refused>>
  BY DEF SaveRule, RulesInv, RulesTypeOK
<1>2. CASE \E n \in DOMAIN rules : rules[n].id = r.id
  <2>1. rules' = [n \in DOMAIN rules |-> IF rules[n].id = r.id THEN r ELSE rules[n]]
    BY <1>2 DEF SaveRule
  <2>2. rules' \in Seq(RuleBook)
    BY <1>1, <2>1
  <2>3. DOMAIN rules' = DOMAIN rules /\ \A n \in DOMAIN rules : rules'[n].id = rules[n].id
    BY <2>1
  <2>4. OneOfAnId(rules')
    BY <1>1, <2>3 DEF OneOfAnId
  <2> QED BY <1>1, <2>2, <2>4, ChangingRulesFollows
<1>3. CASE \A n \in DOMAIN rules : rules[n].id # r.id
  <2>1. rules' = Append(rules, r)
    BY <1>3 DEF SaveRule
  <2>2. /\ rules' \in Seq(RuleBook) /\ DOMAIN rules' = 1..(Len(rules) + 1)
        /\ DOMAIN rules = 1..Len(rules) /\ Len(rules) \in Nat
        /\ \A i \in 1..Len(rules) : rules'[i] = rules[i]
        /\ rules'[Len(rules) + 1] = r
    BY <1>1, <2>1
  <2>3. OneOfAnId(rules')
    <3> SUFFICES ASSUME NEW m \in DOMAIN rules', NEW n \in DOMAIN rules', rules'[m].id = rules'[n].id
                 PROVE  m = n
      BY DEF OneOfAnId
    <3>1. \A i \in DOMAIN rules' : i \in DOMAIN rules \/ i = Len(rules) + 1
      BY <2>2
    <3> QED BY <1>1, <1>3, <2>2, <3>1 DEF OneOfAnId
  <2> QED BY <1>1, <2>2, <2>3, ChangingRulesFollows
<1> QED BY <1>2, <1>3

LEMMA DeletingFollows ==
  ASSUME RulesInv, NEW id, DeleteRule(id) PROVE RulesInv'
<1> DEFINE P == {n \in DOMAIN rules : rules[n].id # id}
           places == Ascending(P)
<1>1. /\ stack = <<>> /\ rules \in Seq(RuleBook) /\ OneOfAnId(rules) /\ rules' = RulesAt(places)
      /\ UNCHANGED <<vars, causes, pending, stack, refused>>
  BY DEF DeleteRule, RulesInv, RulesTypeOK
<1>2. IsFiniteSet(P) /\ P \subseteq DOMAIN rules /\ P \subseteq Nat
  <2>1. DOMAIN rules = 1..Len(rules) /\ Len(rules) \in Nat /\ IsFiniteSet(1..Len(rules))
    BY <1>1, FS_Interval
  <2> QED BY <2>1, FS_Subset
<1> HIDE DEF P
<1>3. places \in Seq(P) /\ IsInjective(places)
  BY <1>2, AscendingListsAll
<1> HIDE DEF places
<1>4. /\ DOMAIN places = 1..Len(places) /\ Len(places) \in Nat
      /\ \A k \in 1..Len(places) : places[k] \in DOMAIN rules /\ rules[places[k]] \in RuleBook
  <2>1. DOMAIN places = 1..Len(places) /\ Len(places) \in Nat /\ \A k \in 1..Len(places) : places[k] \in P
    BY <1>3
  <2>2. \A n \in DOMAIN rules : rules[n] \in RuleBook
    BY <1>1
  <2> QED BY <1>2, <2>1, <2>2
<1>5. rules' = [k \in 1..Len(places) |-> rules[places[k]]]
  BY <1>1 DEF RulesAt
<1>6. rules' \in Seq(RuleBook)
  BY <1>4, <1>5
<1>7. OneOfAnId(rules')
  BY <1>1, <1>3, <1>4, <1>5 DEF OneOfAnId, IsInjective
<1> QED BY <1>1, <1>6, <1>7, ChangingRulesFollows

-----------------------------------------------------------------------------
(* The specification with posting rules *)

LEMMA RulesStayFollowed == RuledSpec => []RulesInv
<1> USE RuleBookAssumption
<1>1. RuledInit => RulesInv
  <2> SUFFICES ASSUME RuledInit PROVE RulesInv
    OBVIOUS
  <2>1. LedgerInv
    BY InitiallyBalanced DEF RuledInit
  <2>2. /\ rules = <<>> /\ causes = <<>> /\ stack = <<>> /\ refused = {} /\ built = <<>>
        /\ pending = [a \in Accounts |-> <<>>]
        /\ DOMAIN stack = {} /\ DOMAIN causes = {} /\ DOMAIN rules = {}
    BY DEF RuledInit, PInit, NoCauses, NewBooks
  <2>3. Transactions = {} /\ Ids = {}
    BY <2>2 DEF Transactions, Ids
  <2>4. RulesTypeOK
    BY <2>2 DEF RulesTypeOK
  <2>5. \A a \in Accounts : ToSet(pending[a]) = {}
    BY <2>2 DEF ToSet
  <2> QED BY <2>1, <2>2, <2>3, <2>4, <2>5 DEF RulesInv, OneOfAnId, EventsOnce, NothingDue,
        EventsAreOwn, CallsAreNested, RulesLeft, DueInTurn, DueToEligible, AllFollow
<1>2. RulesInv /\ [PNext]_<<vars, pvars>> => RulesInv'
  <2> SUFFICES ASSUME RulesInv, [PNext]_<<vars, pvars>> PROVE RulesInv'
    OBVIOUS
  <2>1. ASSUME NEW r \in RuleBook, SaveRule(r) PROVE RulesInv'
    BY <2>1, SavingFollows
  <2>2. ASSUME NEW r \in RuleBook, DeleteRule(r.id) PROVE RulesInv'
    BY <2>2, DeletingFollows
  <2>3. ASSUME NEW p \in Triggers, Post(p) PROVE RulesInv'
    BY <2>3, PostingFollows
  <2>4. CASE HandleEvent
    BY <2>4, HandlingFollows
  <2>5. CASE RunRule
    BY <2>5, RunningFollows
  <2>6. CASE Return
    BY <2>6, ReturningFollows
  <2>7. CASE UNCHANGED <<vars, pvars>>
    <3>1. UNCHANGED <<vars, rules, causes, pending>> /\ stack' = stack /\ refused' = refused
      BY <2>7 DEF pvars
    <3>2. PICK after : after = stack
      OBVIOUS
    <3>3. Narrows(stack, after)
      <4>1. stack \in Seq(Frames) /\ DOMAIN stack = 1..Len(stack) /\ Len(stack) \in Nat
        BY DEF RulesInv, RulesTypeOK
      <4>2. \A i \in DOMAIN stack : IsInjective(stack[i].events)
        BY DEF RulesInv, EventsOnce
      <4> QED BY <3>2, <4>1, <4>2 DEF Narrows
    <3>4. RulesLeft(after, causes) /\ AllFollow(after, causes, refused')
      BY <3>1, <3>2 DEF RulesInv
    <3>5. refused' \subseteq Transactions
      BY <3>1 DEF RulesInv, RulesTypeOK
    <3> QED BY <3>1, <3>2, <3>3, <3>4, <3>5, QuietStepsFollow
  <2> QED BY <2>1, <2>2, <2>3, <2>4, <2>5, <2>6, <2>7 DEF PNext
<1> QED BY <1>1, <1>2, PTL DEF RuledSpec

\* However deep rules set off rules, and whichever of them fails, an entry sets off each
\* rule once, in order of priority, and each that is eligible unless one before it
\* failed (RulesFollowEntries).
THEOREM RulesAreFollowed == RuledSpec => []RulesFollowEntries
<1>1. ASSUME RulesInv PROVE RulesFollowEntries
  <2> SUFFICES ASSUME NEW t \in DOMAIN causes, NEW n \in 1..Len(built[t].entries), NEW id, id = <<t, n>>
               PROVE  /\ \A r \in ToSet(causes[t].rules) : Cardinality(Made(r, id)) <= 1
                      /\ \A j, k \in DueTo(id) : j < k => PriorityOf(causes[j]) <= PriorityOf(causes[k])
                      /\ (stack = <<>> /\ t \notin refused /\ DueTo(id) \cap refused = {}) =>
                           \A r \in ToSet(causes[t].rules) :
                             OfEntry(r) => (Made(r, id) # {} <=> IsEligible(r, id))
    BY DEF RulesFollowEntries
  <2>1. /\ DOMAIN causes = Transactions /\ Len(causes) \in Nat /\ Transactions = 1..Len(causes)
    BY <1>1, CausesOfAll DEF RulesInv
  <2>2. id \in Ids /\ id # NoEntry /\ id[1] = t /\ DOMAIN causes \subseteq Int
    BY <2>1 DEF Ids, NoEntry
  <2>3. \A j, k \in DueTo(id) : j < k =>
          PriorityOf(causes[j]) <= PriorityOf(causes[k]) /\ causes[j].rule # causes[k].rule
    BY <1>1, <2>2 DEF RulesInv, DueInTurn, DueTo
  <2>4. ASSUME NEW r PROVE Cardinality(Made(r, id)) <= 1
    <3>1. \A j, k \in Made(r, id) : j = k
      <4> SUFFICES ASSUME NEW j \in Made(r, id), NEW k \in Made(r, id), j < k PROVE FALSE
        BY <2>2 DEF Made
      <4> QED BY <2>3 DEF Made, DueTo
    <3>2. PICK M : M = Made(r, id)
      OBVIOUS
    <3>3. Cardinality(M) = 0 \/ Cardinality(M) = 1
      <4>1. M = {} \/ \E k \in M : M = {k}
        BY <3>1, <3>2
      <4>2. \A k : Cardinality({k}) = 1
        BY FS_Singleton
      <4> QED BY <4>1, <4>2, FS_EmptySet
    <3> QED BY <3>2, <3>3
  <2>5. ASSUME stack = <<>>, t \notin refused, DueTo(id) \cap refused = {},
               NEW r \in ToSet(causes[t].rules), OfEntry(r)
        PROVE  Made(r, id) # {} <=> IsEligible(r, id)
    <3>1. ASSUME IsEligible(r, id) PROVE Made(r, id) # {}
      <4>1. RunsOrRan(r, id, stack, causes, refused)
        BY <1>1, <2>2, <2>5, <3>1 DEF RulesInv, AllFollow
      <4>2. PICK k \in DOMAIN causes : causes[k].entry = id /\ (causes[k].rule = r.id \/ k \in refused)
        BY <2>5, <4>1 DEF RunsOrRan
      <4>3. k \in Made(r, id)
        BY <2>5, <4>2 DEF DueTo, Made
      <4> QED BY <4>3
    <3>2. ASSUME NEW k \in Made(r, id) PROVE IsEligible(r, id)
      <4>1. k \in DOMAIN causes /\ causes[k].rule = r.id /\ causes[k].entry = id
        BY DEF Made
      <4>2. /\ OneOfAnId(causes[t].rules)
            /\ \E s \in ToSet(causes[k].rules) : s.id = r.id /\ (OfEntry(s) => IsEligible(s, id))
            /\ causes[k].rules = causes[t].rules
        BY <1>1, <2>2, <2>5, <4>1 DEF RulesInv, DueToEligible
      <4>3. PICK s \in ToSet(causes[t].rules) : s.id = r.id /\ (OfEntry(s) => IsEligible(s, id))
        BY <4>2
      <4>4. s = r
        BY <4>2, <4>3 DEF OneOfAnId, ToSet
      <4> QED BY <2>5, <4>3, <4>4
    <3> QED BY <3>1, <3>2
  <2> QED BY <2>3, <2>4, <2>5
<1> QED BY <1>1, RulesStayFollowed, PTL

\* The books balance whatever rules book (BooksBalance).
THEOREM BooksStayBalancedUnderRules == RuledSpec => []BooksBalance
<1>1. RulesInv => BooksBalance
  BY DEF RulesInv, LedgerInv
<1> QED BY <1>1, RulesStayFollowed, PTL

\* What rules book is in the entry repository as it is in the balances
\* (BalanceIsReconstructible).
THEOREM BalancesStayReconstructibleUnderRules == RuledSpec => []BalanceIsReconstructible
<1>1. RulesInv => BalanceIsReconstructible
  BY DEF RulesInv, LedgerInv
<1> QED BY <1>1, RulesStayFollowed, PTL
=============================================================================
