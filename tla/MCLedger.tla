------------------------------- MODULE MCLedger -------------------------------
(* Two accounts with double-entry booking and off-balance points accounts.      *)
(* A behaviour is about clients that build and execute transactions, or about   *)
(* the posting rules that their transactions set off.                           *)
EXTENDS PostingRules

CONSTANTS cash, revenue, points, expired

Line(account, kind, money, currency, validTo, allocate, onlyValid) ==
  [account |-> account, kind |-> kind, money |-> money, currency |-> currency,
   validTo |-> validTo, allocate |-> allocate, onlyValid |-> onlyValid]

Plain(account, kind, money, currency) ==
  Line(account, kind, money, currency, MaxTime + 1, "NONE", FALSE)

OneSided == <<Plain(cash, "credited", 1, "PLN"), Plain(points, "debited", 1, "PLN")>>
SaleWithPoints(currency) ==
  <<Plain(cash, "debited", 2, "PLN"), Plain(points, "credited", 1, currency),
    Plain(revenue, "credited", 2, "PLN")>>
Grant(n, validTo) == <<Line(points, "credited", n, "PLN", validTo, "NONE", FALSE)>>
Redeem(n, allocate, onlyValid) ==
  <<Line(points, "debited", n, "PLN", MaxTime + 1, allocate, onlyValid)>>

BookPostings ==
  {OneSided, SaleWithPoints("PLN"), SaleWithPoints("USD"), Grant(2, 1),
   Redeem(1, "LIFO", FALSE), Redeem(1, "MANUAL", FALSE)}
GrantPostings == {Grant(2, 1)}

Rule(id, when, to, amount, debits, priority) ==
  [id |-> id, when |-> when, to |-> to, amount |-> amount, debits |-> debits,
   priority |-> priority]
Test(of, is) == [of |-> of, is |-> is, holds |-> TRUE]
Sold == {Test("account", revenue), Test("kind", "credited")}

\* A tax that may be booked one-sided, and then throws; a bonus for a balance that the
\* tax lowers; points for a sale, and what follows points on any account but one.
SaleRules ==
  {Rule("tax", {Sold}, cash, 1, TRUE, 10), Rule("tax", {Sold}, points, 1, TRUE, 10),
   Rule("bonus", {Sold \cup {Test("balance", 2)}}, points, 1, FALSE, 20),
   Rule("points", {Sold, {Test("account", cash), Test("kind", "debited")}}, points, 1, FALSE, 5),
   Rule("follow", {{Test("type", TRUE), [Test("account", expired) EXCEPT !.holds = FALSE]}},
        expired, 1, FALSE, 10)}

SaleTriggers ==
  {<<Plain(cash, "debited", 2, "PLN"), Plain(revenue, "credited", 2, "PLN")>>,
   SaleWithPoints("USD")}

\* Bounds: with rules, up to MaxRules of them, which clients change no more after the
\* first sale, and accounts that exist, all but one perhaps that rules look for.
CONSTANT MaxRules
VARIABLE ruled
MCInit ==
  \/ Init /\ PInit /\ ruled = FALSE
  \/ /\ NewBooks /\ NoCauses /\ ruled = TRUE
     /\ rules \in {rs \in SeqOf(SaleRules, MaxRules) :
                   \A m, n \in DOMAIN rs : rs[m].id = rs[n].id => m = n}
     /\ \E as \in {Accounts, Accounts \ {expired}} : accounts = as
MCNext ==
  /\ UNCHANGED ruled
  /\ \/ ~ruled /\ Next /\ UNCHANGED pvars
     \/ /\ ruled /\ PNext
        /\ Len(rules') <= MaxRules
        /\ rules' # rules => built = <<>>
MCSpec == MCInit /\ [][MCNext]_<<vars, pvars, ruled>>

\* The sweep of expired grants, without rules
SweepSpec == Init /\ PInit /\ ruled = FALSE /\ [][PromptNext /\ UNCHANGED <<pvars, ruled>>]_<<vars, pvars, ruled>>
=============================================================================
