---------------------------- MODULE PostingRules ----------------------------
(***************************************************************************)
(* Posting rules of accounting/: the AccountingFacade publishes an event   *)
(* per registered entry, the handler runs the rules that are eligible, and *)
(* what a rule books is executed by the same facade, which publishes       *)
(* events again before the first call returns.  The nested calls are the   *)
(* frames of a stack, and each step runs the top one up to its next call.  *)
(***************************************************************************)
EXTENDS Ledger

CONSTANTS
  RuleBook, \* the rules that clients save; several may have one id
  Triggers, \* line sequences that clients post where there are rules
  MaxSetOff \* bound on the transactions of a behaviour with rules

\* A condition is a set of alternatives, each a set of tests that must all hold.
ASSUME RuleBookAssumption ==
  /\ \A r \in RuleBook :
       /\ r.to \in Accounts /\ r.amount \in Int /\ r.debits \in BOOLEAN /\ r.priority \in Int
       /\ \A alternative \in r.when : \A test \in alternative :
            test.of \in {"account", "kind", "type", "balance"}
  /\ Triggers \subseteq Seq(PostedLines)

VARIABLES
  rules,   \* the rule repository, in insertion order
  causes,  \* per built transaction, the rule and entry it is due to, and the rules then
  pending, \* entries whose events an account object has not handed over yet
  stack,   \* the executeSingle calls that are publishing, outermost first
  refused  \* transactions whose executeSingle reported a failure

pvars == <<rules, causes, pending, stack, refused>>

Client == [rule |-> "CLIENT", entry |-> NoEntry]

NoCauses ==
  /\ causes = <<>> /\ stack = <<>> /\ refused = {}
  /\ pending = [a \in Accounts |-> <<>>]

PInit == rules = <<>> /\ NoCauses

-----------------------------------------------------------------------------
(* Eligibility *)

\* accountEquals, entryTypeEquals, accountType and custom, here a least balance
Passes(test, e) ==
  CASE test.of = "account" -> e.account = test.is
    [] test.of = "kind" -> e.kind = test.is
    [] test.of = "type" -> (e.account \in OffBalance) = test.is
    [] test.of = "balance" -> balance[e.account] >= test.is

\* and, or, negate
IsEligible(r, id) ==
  \E alternative \in r.when : \A test \in alternative :
    Passes(test, EntryOf(id)) = test.holds

\* findEligibleRules in order of priority, rules of one priority as they were saved
Found(id) == {n \in DOMAIN rules : IsEligible(rules[n], id)}
RulesAt(places) == [k \in 1..Len(places) |-> rules[places[k]]]
RunsBefore(m, n) ==
  \/ rules[m].priority < rules[n].priority
  \/ rules[m].priority = rules[n].priority /\ m < n

EligibleRules_AsSaved(id) == RulesAt(Ascending(Found(id)))
EligibleRules(id) ==
  RulesAt(ListedBy(Found(id), {pair \in Found(id) \X Found(id) : RunsBefore(pair[1], pair[2])}))

-----------------------------------------------------------------------------
(* Executing and publishing *)

\* What the calculator of rule r makes of entry id: the amount goes to the account
\* that the finder returns, from the account of the entry or from nowhere.
RuleTx(r, id) ==
  LET Part(a, kind) ==
        [account |-> a, kind |-> kind, money |-> r.amount, currency |-> BaseCurrency,
         appliesAt |-> now, validFrom |-> 0, validTo |-> Forever, appliedTo |-> NoEntry]
  IN [type |-> "RULE", ref |-> 0,
      entries |-> IF r.debits
                    THEN <<Part(EntryOf(id).account, "debited"), Part(r.to, "credited")>>
                    ELSE <<Part(r.to, "credited")>>]

\* recordEntryEvent runs for every entry that was added up.
PendingAfter(t, es) ==
  [a \in Accounts |-> pending[a] \o
     IdsAt(t, {n \in 1..Len(es) : es[n].account = a /\ Counted(es, n)})]

\* saveAccountsAndPublishEvents empties the accounts involved, one after the other.
Published(t, es) ==
  LET events == UNION {ToSet(PendingAfter(t, es)[a]) : a \in Involved(es)}
  IN ObjectByObject(events, es, PendingAfter(t, es))

\* A failed executeSingle ends the rules that its caller, if any, runs for one entry.
RulesEnd(frames) ==
  IF frames = <<>> THEN frames ELSE [frames EXCEPT ![Len(frames)].rules = <<>>]

\* executeSingle of a new transaction, called with these frames under it
Executing(tx, by, frames) ==
  LET t == Len(built) + 1 IN
  /\ Len(built) < MaxSetOff
  /\ Keep(tx)
  /\ ExecuteSingle(t, tx.entries)
  /\ causes' = Append(causes, [rule |-> by.rule, entry |-> by.entry, rules |-> rules])
  /\ IF Executes(tx.entries)
       THEN /\ pending' = [a \in Accounts |->
                 IF a \in Involved(tx.entries) THEN <<>> ELSE pending[a]]
            /\ stack' = Append(frames, [tx |-> t, events |-> Published(t, tx.entries),
                                        entry |-> NoEntry, rules |-> <<>>])
            /\ UNCHANGED refused
       ELSE /\ pending' = PendingAfter(t, tx.entries)
            /\ stack' = RulesEnd(frames)
            /\ refused' = refused \cup {t}
  /\ UNCHANGED <<accounts, rules, now>>

\* The call on top of the stack
Top == Last(stack)
WithTop(frame) == Append(Front(stack), frame)

\* publish goes on to the next event: executeRulesFor finds the eligible rules.
HandleEvent ==
  /\ stack # <<>>
  /\ Top.rules = <<>> /\ Top.events # <<>>
  /\ stack' = WithTop([Top EXCEPT !.events = Tail(@), !.entry = Head(Top.events),
                                  !.rules = EligibleRules(Head(Top.events))])
  /\ UNCHANGED <<vars, rules, causes, pending, refused>>

\* executeRulesWithExecutor asks a rule again whether it is eligible, then executes
\* what it makes.  A rule that throws takes the publishing call with it: that call
\* reports a failure although its transaction is saved, and its other events are lost.
RunRule ==
  LET r == Head(Top.rules)
      rest == WithTop([Top EXCEPT !.rules = Tail(@)])
      tx == RuleTx(r, Top.entry)
      Throws == r.to \notin accounts \/ ~Buildable(tx.entries, accounts) IN
  /\ stack # <<>>
  /\ Top.rules # <<>>
  /\ \/ /\ ~IsEligible(r, Top.entry)
        /\ stack' = rest
        /\ UNCHANGED <<vars, rules, causes, pending, refused>>
     \/ /\ IsEligible(r, Top.entry) /\ ~Throws
        /\ Executing(tx, [rule |-> r.id, entry |-> Top.entry], rest)
     \/ /\ IsEligible(r, Top.entry) /\ Throws
        /\ stack' = RulesEnd(Front(stack))
        /\ refused' = refused \cup {Top.tx}
        /\ UNCHANGED <<vars, rules, causes, pending>>

Return ==
  /\ stack # <<>>
  /\ Top.rules = <<>> /\ Top.events = <<>>
  /\ stack' = Front(stack)
  /\ UNCHANGED <<vars, rules, causes, pending, refused>>

-----------------------------------------------------------------------------
(* Clients *)

\* saveRule keeps the place of a rule with the same id.
SaveRule(r) ==
  /\ stack = <<>>
  /\ rules' = IF \E n \in DOMAIN rules : rules[n].id = r.id
                THEN [n \in DOMAIN rules |-> IF rules[n].id = r.id THEN r ELSE rules[n]]
                ELSE Append(rules, r)
  /\ UNCHANGED <<vars, causes, pending, stack, refused>>

DeleteRule(id) ==
  /\ stack = <<>>
  /\ rules' = RulesAt(Ascending({n \in DOMAIN rules : rules[n].id # id}))
  /\ UNCHANGED <<vars, causes, pending, stack, refused>>

\* handle(ExecuteTransactionCommand), transfer
Post(p) ==
  /\ stack = <<>>
  /\ \E tx \in PostingTxs(p, now) : Executing(tx, Client, <<>>)

PNext ==
  \/ \E r \in RuleBook : SaveRule(r)
  \/ \E r \in RuleBook : DeleteRule(r.id)
  \/ \E p \in Triggers : Post(p)
  \/ HandleEvent
  \/ RunRule
  \/ Return

\* The accounts were created before.
RuledInit == accounts \in SUBSET Accounts /\ NewBooks /\ PInit
RuledSpec == RuledInit /\ [][PNext]_<<vars, pvars>>

-----------------------------------------------------------------------------
(* Properties *)

Made(r, id) == {k \in DOMAIN causes : causes[k].rule = r.id /\ causes[k].entry = id}
DueTo(id) == {k \in DOMAIN causes : causes[k].entry = id}

\* Rules that look at the entry alone, not at balances that other rules change
OfEntry(r) == \A alternative \in r.when : \A test \in alternative : test.of # "balance"

PriorityOf(cause) ==
  cause.rules[CHOOSE n \in DOMAIN cause.rules : cause.rules[n].id = cause.rule].priority

\* However deep rules set off rules, an entry sets off each rule that is eligible for
\* it once, in order of priority; what a rule that throws leaves undone is the rest of
\* the events of its own call and the rest of the rules of the entry that call is due
\* to, and nothing else (accounting-facade.ts saveAccountsAndPublishEvents,
\* posting-rule-executor.ts, posting-rules-event-handler.ts).
RulesFollowEntries ==
  \A t \in DOMAIN causes : \A n \in 1 .. Len(built[t].entries) :
    LET id == <<t, n>> IN
    /\ \A r \in ToSet(causes[t].rules) : Cardinality(Made(r, id)) <= 1
    /\ \A j, k \in DueTo(id) : j < k => PriorityOf(causes[j]) <= PriorityOf(causes[k])
    /\ (stack = <<>> /\ t \notin refused /\ DueTo(id) \cap refused = {}) =>
         \A r \in ToSet(causes[t].rules) :
           OfEntry(r) => (Made(r, id) # {} <=> IsEligible(r, id))
=============================================================================
