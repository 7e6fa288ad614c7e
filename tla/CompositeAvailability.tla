------------------------ MODULE CompositeAvailability ------------------------
(***************************************************************************)
(* CompositeResourceAvailability: one availability made of several others, *)
(* locked and unlocked as a whole, beside owners that lock the same        *)
(* components directly and the sweeper of expired blockades.               *)
(***************************************************************************)
EXTENDS Availability, Functions

CONSTANTS
  Composites,       \* ids of the composite availabilities
  ComponentsOf,     \* the components of each, in insertion order
  CompositeRequests \* requests callers make: an owner and one request per component

ASSUME CompositeAssumption ==
  /\ \A k \in Composites : ComponentsOf[k] \in Seq(Availabilities) /\ Len(ComponentsOf[k]) > 0
  /\ \A r \in CompositeRequests :
       /\ r.owner \in Owners
       /\ \A a \in DOMAIN r.parts :
            r.parts[a].owner \in Owners /\ r.parts[a].quantity \in Nat /\ r.parts[a].duration \in Nat

VARIABLES
  composites, \* _compositeBlockades: per composite, a set of component -> blockade id
  enlisted    \* composites saved in the repository

cvars == <<vars, composites, enlisted>>

ComponentSet(k) == {ComponentsOf[k][n] : n \in 1..Len(ComponentsOf[k])}

CInit ==
  /\ Init
  /\ composites = [k \in Composites |-> {}]
  /\ enlisted = {}

\* AvailabilityFacade.register of a composite
RegisterComposite(k) ==
  /\ k \notin enlisted
  /\ enlisted' = enlisted \cup {k}
  /\ UNCHANGED <<vars, composites>>

-----------------------------------------------------------------------------
(* Locking: check every component, lock every component, roll back on failure. *)

\* lock() gives up before touching a component unless the request names every
\* component and every component is available to anybody.
Attempts(k, r) ==
  /\ k \in enlisted
  /\ \A a \in ComponentSet(k) : a \in DOMAIN r.parts /\ IsAvailable(a)
  /\ \A a \in ComponentSet(k) :
       r.parts[a].duration # Indefinite => now + r.parts[a].duration <= MaxTime

\* The components whose own lock accepts its part of the request.
LockedParts(k, r) == {a \in ComponentSet(k) : Accepts(a, r.parts[a])}

\* The components of S in the order in which the composite goes through them.
Place(k, a) == CHOOSE n \in 1..Len(ComponentsOf[k]) : ComponentsOf[k][n] = a
InOrder(k, S) ==
  {s \in [1..Cardinality(S) -> S] :
     /\ Range(s) = S
     /\ \A m, n \in DOMAIN s : m < n => Place(k, s[m]) < Place(k, s[n])}

\* The id a component of the sequence cs is granted when all of cs are locked.
GrantedTo(cs, a) == Len(granted) + CHOOSE n \in 1..Len(cs) : cs[n] = a

GrantAll(cs, r) ==
  /\ Len(granted) + Len(cs) <= MaxBlockades
  /\ granted' = granted \o [n \in 1..Len(cs) |-> BlockadeFor(cs[n], r.parts[cs[n]])]

CompositeLocks(k, r) ==
  LET cs == ComponentsOf[k] IN
  /\ Attempts(k, r)
  /\ LockedParts(k, r) = ComponentSet(k)
  /\ GrantAll(cs, r)
  /\ blockades' = [a \in Availabilities |->
       IF a \in ComponentSet(k)
         THEN BlockadesAfterLock(a, GrantedTo(cs, a)) ELSE blockades[a]]
  /\ composites' = [composites EXCEPT
       ![k] = @ \cup {[a \in ComponentSet(k) |-> GrantedTo(cs, a)]}]
  /\ UNCHANGED <<repository, withdrawn, now, held, enlisted>>

\* Some component refused: what was locked is unlocked in the name of the owner of
\* the whole request, so a part requested in another name stays locked.  The expired
\* blockade that a locked exclusive component kept is gone either way.
CompositeRollsBack_KeepsLocked(k, r) ==
  LET locked == LockedParts(k, r) IN
  /\ Attempts(k, r)
  /\ locked # ComponentSet(k)
  /\ \E cs \in InOrder(k, locked) :
       /\ GrantAll(cs, r)
       /\ blockades' = [a \in Availabilities |->
            IF a \in locked THEN BlockadesAfterLock(a, GrantedTo(cs, a)) ELSE blockades[a]]
  /\ UNCHANGED <<repository, withdrawn, now, held, composites, enlisted>>
CompositeRollsBack(k, r) ==
  LET locked == LockedParts(k, r)
      stuck == {a \in locked : r.parts[a].owner # r.owner}
      undone == locked \ stuck
  IN
  /\ Attempts(k, r)
  /\ locked # ComponentSet(k)
  /\ \E cs \in InOrder(k, stuck) :
       /\ GrantAll(cs, r)
       /\ blockades' = [a \in Availabilities |->
            CASE a \in stuck -> BlockadesAfterLock(a, GrantedTo(cs, a))
              [] a \in undone -> IF a \in Pools THEN blockades[a] ELSE {}
              [] OTHER -> blockades[a]]
  /\ UNCHANGED <<repository, withdrawn, now, held, composites, enlisted>>

-----------------------------------------------------------------------------
(* Unlocking and sweeping *)

\* unlock() tries every component whatever happens to the others, and forgets the
\* composite blockade only when none of them refused.
CompositeUnlock_StopsAtFirst(k, requester, rec) ==
  LET freed == {a \in DOMAIN rec : rec[a] \in blockades[a] /\ OwnedBy(rec[a], requester)} IN
  /\ k \in enlisted
  /\ freed # {}
  /\ LET a == CHOOSE c \in freed : TRUE IN
       blockades' = [blockades EXCEPT ![a] = @ \ {rec[a]}]
  /\ UNCHANGED <<repository, withdrawn, now, granted, held, composites, enlisted>>
CompositeUnlock(k, requester, rec) ==
  LET freed == {a \in DOMAIN rec : rec[a] \in blockades[a] /\ OwnedBy(rec[a], requester)} IN
  /\ k \in enlisted
  /\ blockades' = [a \in Availabilities |->
       IF a \in freed THEN blockades[a] \ {rec[a]} ELSE blockades[a]]
  /\ composites' =
       IF freed = DOMAIN rec THEN [composites EXCEPT ![k] = @ \ {rec}] ELSE composites
  /\ UNCHANGED <<repository, withdrawn, now, granted, held, enlisted>>

\* AvailabilityFacade.releaseExpired with composites in the repository: the
\* components are swept, the composite blockade that names them is not touched.
Sweep ==
  LET swept == Registered \cup UNION {ComponentSet(k) : k \in enlisted} IN
  /\ \E a \in swept : \E i \in blockades[a] : Expired(i)
  /\ blockades' = [a \in Availabilities |->
       IF a \in swept THEN ActiveBlockades(a) ELSE blockades[a]]
  /\ UNCHANGED <<repository, withdrawn, now, granted, held, composites, enlisted>>

\* An owner that uses a component directly unlocks what its own locks returned.
DirectStep ==
  /\ \/ \E a \in Availabilities : Register(a)
     \/ \E a \in Availabilities, req \in Request : Lock(a, req)
     \/ \E o \in Owners, i \in held : UnlockFound(o, i)
     \/ Tick
  /\ UNCHANGED <<composites, enlisted>>

CNext ==
  \/ \E k \in Composites : RegisterComposite(k)
  \/ \E k \in Composites, r \in CompositeRequests : CompositeLocks(k, r)
  \/ \E k \in Composites, r \in CompositeRequests : CompositeRollsBack(k, r)
  \/ \E k \in Composites, o \in Owners : \E rec \in composites[k] :
       CompositeUnlock(k, o, rec)
  \/ Sweep
  \/ DirectStep

CSpec == CInit /\ [][CNext]_cvars

-----------------------------------------------------------------------------
(* Properties *)

Uniform(rec) == \A a, b \in DOMAIN rec : granted[rec[a]].owner = granted[rec[b]].owner

\* A composite blockade of one owner whose parts still run can be given back whole:
\* no other owner, sweep or failed attempt takes a part out of it
\* (composite-resource-availability.ts lock, unlock, releaseExpired).  The owner's
\* own direct lock on a component is the one thing that replaces a part.
WholeUntilReleased ==
  \A k \in Composites : \A rec \in composites[k] :
    (Uniform(rec) /\ \A a \in DOMAIN rec : Active(rec[a]) /\ ~Superseded(rec[a]))
      => \A a \in DOMAIN rec : rec[a] \in blockades[a]

Recorded == UNION {{rec[a] : a \in DOMAIN rec} : rec \in UNION {composites[k] : k \in Composites}}

\* Owners in whose name nobody else asks for a part
OwnName ==
  {o \in Owners : \A r \in CompositeRequests : \A a \in DOMAIN r.parts :
     r.parts[a].owner = o => r.owner = o}

\* A failed lock leaves nothing behind: each blockade belongs to an owner who knows
\* its id or to a composite blockade that can give it back, also when sweeps forgot
\* parts of that one (composite-resource-availability.ts lock and unlock).  Only a
\* part asked for in another owner's name is beyond the rollback.
NothingStranded ==
  \A a \in Availabilities : \A i \in blockades[a] :
    granted[i].owner \in OwnName => i \in held \cup Recorded
=============================================================================
