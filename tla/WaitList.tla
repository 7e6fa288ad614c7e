------------------------------- MODULE WaitList -------------------------------
(***************************************************************************)
(* The waitlist package of inventory/: a bounded queue and the selection   *)
(* policies that take the next entry out of it.  An entry may be added     *)
(* several times, so each call of add() gets a ticket, its position in the *)
(* log of arrivals, and the queue holds tickets.                           *)
(***************************************************************************)
EXTENDS Naturals, Sequences, FiniteSets

CONSTANTS
  Entries,     \* WaitListEntry objects
  Segments,    \* segments of a quota policy
  Priority,    \* priority of an entry, lower is more urgent
  AddedAt,     \* the time an entry was created, which need not be its turn
  SegmentOf,   \* segmentExtractor
  Quota,       \* quotaConfig
  Predicates,  \* the sets of entries that a caller can serve
  MaxWaiting,  \* capacity of the list
  MaxArrivals  \* bound on the calls of add() in a behaviour

Policies == {"FIFO", "PRIORITY", "CRITERIA", "QUOTA"}

ASSUME WaitListAssumption ==
  /\ Priority \in [Entries -> Nat]
  /\ AddedAt \in [Entries -> Nat]
  /\ SegmentOf \in [Entries -> Segments]
  /\ Quota \in [Segments -> Nat]
  /\ Predicates \subseteq SUBSET Entries
  /\ MaxWaiting \in Nat \ {0}
  /\ MaxArrivals \in Nat

VARIABLES
  policy,    \* the policy the list was created with
  queue,     \* waiting tickets
  allocated, \* places of each segment used since its last reset
  arrivals,  \* the entry of every ticket
  served,    \* the selections so far
  removed,   \* tickets taken out by remove or removeById
  resetAt    \* how many had been served at the last reset of each segment

wvars == <<policy, queue, allocated, arrivals, served, removed, resetAt>>

WInit ==
  /\ policy \in Policies
  /\ queue = <<>>
  /\ allocated = [s \in Segments |-> 0]
  /\ arrivals = <<>>
  /\ served = <<>>
  /\ removed = {}
  /\ resetAt = [s \in Segments |-> 0]

-----------------------------------------------------------------------------

\* WaitListEntry.compareTo is negative: the first entry goes strictly before.
Before(e, f) ==
  \/ Priority[e] < Priority[f]
  \/ Priority[e] = Priority[f] /\ AddedAt[e] < AddedAt[f]

\* Array.prototype.sort with compareTo: stable.
Sorted(q, entryOf) ==
  LET Rank(n) == Cardinality({m \in 1..Len(q) :
        \/ Before(entryOf[q[m]], entryOf[q[n]])
        \/ m <= n /\ ~Before(entryOf[q[n]], entryOf[q[m]])})
  IN [k \in 1..Len(q) |-> q[CHOOSE n \in 1..Len(q) : Rank(n) = k]]

\* WaitList.add.  A full list throws.
Add_NeverSorts(e) ==
  /\ Len(arrivals) < MaxArrivals
  /\ Len(queue) < MaxWaiting
  /\ arrivals' = Append(arrivals, e)
  /\ queue' = Append(queue, Len(arrivals) + 1)
  /\ UNCHANGED <<policy, allocated, served, removed, resetAt>>
Add(e) ==
  LET pushed == Append(queue, Len(arrivals) + 1) IN
  /\ Len(arrivals) < MaxArrivals
  /\ Len(queue) < MaxWaiting
  /\ arrivals' = Append(arrivals, e)
  /\ queue' = IF policy = "PRIORITY" THEN Sorted(pushed, arrivals') ELSE pushed
  /\ UNCHANGED <<policy, allocated, served, removed, resetAt>>

Without(q, n) == SubSeq(q, 1, n - 1) \o SubSeq(q, n + 1, Len(q))

\* May selectNext of the policy take the n-th of the queue?
Eligible(n, accepts) ==
  LET e == arrivals[queue[n]] IN
  CASE policy = "CRITERIA" -> e \in accepts
    [] policy = "QUOTA" -> e \in accepts /\ allocated[SegmentOf[e]] < Quota[SegmentOf[e]]
    [] OTHER -> TRUE

\* What an observer notes of a selection: the ticket, what the caller could serve,
\* and how many had arrived by then.
Selection(t, accepts) == [ticket |-> t, accepts |-> accepts, seen |-> Len(arrivals)]

\* WaitList.selectNext: the first eligible one leaves the queue.
SelectNext_NotCounted(accepts) ==
  \E n \in 1..Len(queue) :
    /\ Eligible(n, accepts)
    /\ \A k \in 1..(n - 1) : ~Eligible(k, accepts)
    /\ queue' = Without(queue, n)
    /\ served' = Append(served, Selection(queue[n], accepts))
    /\ UNCHANGED <<policy, allocated, arrivals, removed, resetAt>>
SelectNext(accepts) ==
  \E n \in 1..Len(queue) :
    /\ Eligible(n, accepts)
    /\ \A k \in 1..(n - 1) : ~Eligible(k, accepts)
    /\ queue' = Without(queue, n)
    /\ served' = Append(served, Selection(queue[n], accepts))
    /\ allocated' = IF policy = "QUOTA"
         THEN [allocated EXCEPT ![SegmentOf[arrivals[queue[n]]]] = @ + 1] ELSE allocated
    /\ UNCHANGED <<policy, arrivals, removed, resetAt>>

\* WaitList.poll: the empty context accepts every payload.
Poll == SelectNext(Entries)

\* WaitList.remove and removeById: the first ticket of the entry.
Remove_Last(e) ==
  \E n \in 1..Len(queue) :
    /\ arrivals[queue[n]] = e
    /\ queue' = SubSeq(queue, 1, Len(queue) - 1)
    /\ removed' = removed \cup {queue[n]}
    /\ UNCHANGED <<policy, allocated, arrivals, served, resetAt>>
Remove(e) ==
  \E n \in 1..Len(queue) :
    /\ arrivals[queue[n]] = e
    /\ \A k \in 1..(n - 1) : arrivals[queue[k]] # e
    /\ queue' = Without(queue, n)
    /\ removed' = removed \cup {queue[n]}
    /\ UNCHANGED <<policy, allocated, arrivals, served, resetAt>>

\* QuotaSelectionPolicy.resetQuota and, for all segments at once, resetQuotas.
Reset(segments) ==
  /\ policy = "QUOTA"
  /\ allocated' = [s \in Segments |-> IF s \in segments THEN 0 ELSE allocated[s]]
  /\ resetAt' = [s \in Segments |-> IF s \in segments THEN Len(served) ELSE resetAt[s]]
  /\ UNCHANGED <<policy, queue, arrivals, served, removed>>

WNext ==
  \/ \E e \in Entries : Add(e) \/ Remove(e)
  \/ Poll
  \/ \E accepts \in Predicates : SelectNext(accepts)
  \/ \E s \in Segments : Reset({s})
  \/ Reset(Segments)

WSpec == WInit /\ [][WNext]_wvars

-----------------------------------------------------------------------------
(* Properties *)

Tickets == 1..Len(arrivals)
Waiting == {queue[n] : n \in 1..Len(queue)}
Served == {served[k].ticket : k \in 1..Len(served)}

\* Nobody is lost or served twice: every ticket is waiting, was selected or was
\* removed, and exactly one of these, in whatever order add, selection and removal
\* are called (wait-list.ts add, selectNext, removeById); the list stays bounded.
EachTicketOnce ==
  /\ queue \in Seq(Tickets) /\ Len(queue) <= MaxWaiting
  /\ Waiting \cup Served \cup removed = Tickets
  /\ Len(queue) + Len(served) + Cardinality(removed) = Len(arrivals)

\* What entitles the k-th selection to have preferred its ticket to t.
MayPass(k, t) ==
  LET chosen == served[k].ticket
      e == arrivals[chosen]
      f == arrivals[t]
  IN CASE policy = "FIFO" -> chosen < t
       [] policy = "PRIORITY" -> Before(e, f) \/ (chosen < t /\ ~Before(f, e))
       [] policy = "CRITERIA" -> chosen < t \/ f \notin served[k].accepts
       [] policy = "QUOTA" -> \/ chosen < t
                              \/ f \notin served[k].accepts
                              \/ SegmentOf[f] # SegmentOf[e]

\* Nobody is overtaken without a reason: whoever still waits was, at each selection
\* since its arrival, behind the one selected - in a fifo list by arrival, in a
\* priority list by urgency and then by arrival, in a criteria list unless the
\* caller could not serve it, and in a quota list unless that or its segment
\* differs (the policies of waitlist/, wait-list.ts add).
NoOvertaking ==
  \A k \in 1..Len(served) : \A t \in Waiting : t <= served[k].seen => MayPass(k, t)

\* Between two resets of a segment no more of its entries are selected than its
\* quota allows (quota-selection-policy.ts).
QuotaKept ==
  policy = "QUOTA" =>
    \A s \in Segments :
      Cardinality({k \in (resetAt[s] + 1)..Len(served) :
        SegmentOf[arrivals[served[k].ticket]] = s}) <= Quota[s]
=============================================================================
