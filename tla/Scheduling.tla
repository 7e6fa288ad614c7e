------------------------------ MODULE Scheduling ------------------------------
(***************************************************************************)
(* graphs/scheduling: the order of the steps of a process, and the         *)
(* environments its conflicting steps are kept apart in.                   *)
(***************************************************************************)
EXTENDS Integers, FiniteSetsExt, SequencesExt, Listing

CONSTANTS
  StepNames,
  Refused,       \* 'Cycle detected in process dependencies'
  StepObjects,   \* step objects [name, copy]: a name may have several
  MaxAdditions   \* bound on the dependencies and on the conflicts added

ASSUME SchedulingAssumption == /\ StepObjects \subseteq [name : StepNames, copy : Nat]
                               /\ Refused \notin Seq(StepNames)

VARIABLES
  steps,        \* the step objects [name, copy] of a process, in order of insertion
  dependencies, \* pairs of names, in order of insertion
  apart,        \* names of the steps of a concurrency builder, in order
  conflicts     \* pairs of names

gvars == <<steps, dependencies, apart, conflicts>>

GInit == steps = <<>> /\ dependencies = <<>> /\ apart = <<>> /\ conflicts = {}

-----------------------------------------------------------------------------
(* ProcessBuilder *)

AddStep(s) ==
  /\ steps' = Including(steps, s)
  /\ UNCHANGED <<dependencies, apart, conflicts>>
AddDependency(s, t) ==
  /\ Len(dependencies) < MaxAdditions
  /\ steps' = Including(Including(steps, s), t)
  /\ dependencies' = Including(dependencies, <<s.name, t.name>>)
  /\ UNCHANGED <<apart, conflicts>>

\* Keys of the adjacency map, in order of insertion.
Names == FoldLeft(LAMBDA names, s : Including(names, s.name), <<>>, steps)
Successors(n) ==
  LET mine == AtPlaces(dependencies, {k \in DOMAIN dependencies : dependencies[k][1] = n})
  IN [k \in DOMAIN mine |-> mine[k][2]]
InDegrees == [n \in ToSet(Names) |-> Cardinality({d \in ToSet(dependencies) : d[2] = n})]

\* The successors of a step whose last predecessor it was.
Freed_AnyPredecessor(names, degrees) ==
  AtPlaces(names, {k \in DOMAIN names : degrees[names[k]] >= 0})
Freed(names, degrees) == AtPlaces(names, {k \in DOMAIN names : degrees[names[k]] = 0})

\* A round of Kahn's algorithm: the first step of the queue is done.
Start == [queue |-> Freed(Names, InDegrees), degrees |-> InDegrees, done |-> <<>>]
Round(s) ==
  IF s.queue = <<>> THEN s
  ELSE LET next == Successors(Head(s.queue))
           left == [n \in DOMAIN s.degrees |->
                      IF n \in ToSet(next) THEN s.degrees[n] - 1 ELSE s.degrees[n]]
       IN [queue |-> Tail(s.queue) \o Freed(next, left), degrees |-> left,
           done |-> Append(s.done, Head(s.queue))]

\* A name is freed at most once: the queue is empty after a round for each.
Sorted == FoldLeft(LAMBDA s, n : Round(s), Start, Names)

\* build: the set of steps holds objects, the sort goes by name.
BuildSchedule == IF Len(Sorted.done) # Len(steps) THEN Refused ELSE Sorted.done

-----------------------------------------------------------------------------
(* ConcurrencyBuilder *)

AddRunner(n) ==
  /\ apart' = Including(apart, n)
  /\ UNCHANGED <<steps, dependencies, conflicts>>
AddConflict(m, n) ==
  /\ Cardinality(conflicts) < MaxAdditions
  /\ apart' = Including(Including(apart, m), n)
  /\ conflicts' = conflicts \cup {<<m, n>>}
  /\ UNCHANGED <<steps, dependencies>>

InConflict(m, n) == <<m, n>> \in conflicts \/ <<n, m>> \in conflicts

\* Greedy colouring: the least environment no neighbour has yet.
Taken(env, n) == {env[m] : m \in {x \in DOMAIN env : InConflict(n, x)}}
Placed(env, n) ==
  LET taken == Taken(env, n)
      free  == CHOOSE e \in 0 .. Cardinality(taken) :
                 e \notin taken /\ \A f \in 0 .. (e - 1) : f \in taken
  IN [m \in DOMAIN env \cup {n} |-> IF m = n THEN free ELSE env[m]]
Environments == FoldLeft(Placed, <<>>, apart)
EnvironmentCount(env) == IF env = <<>> THEN 0 ELSE Max({env[n] : n \in DOMAIN env}) + 1
CanRunConcurrently(env, m, n) == {m, n} \subseteq DOMAIN env /\ env[m] = env[n]

ProcessNext ==
  \/ \E s \in StepObjects : AddStep(s)
  \/ \E s, t \in StepObjects : AddDependency(s, t)
ConcurrencyNext ==
  \/ \E n \in StepNames : AddRunner(n)
  \/ \E m, n \in StepNames : AddConflict(m, n)
GSpec == GInit /\ [][ProcessNext \/ ConcurrencyNext]_gvars

-----------------------------------------------------------------------------

Position(seq, x) == CHOOSE k \in DOMAIN seq : seq[k] = x

\* Reference definition: some steps all wait for one another.
Deadlocked ==
  \E S \in (SUBSET ToSet(Names)) \ {{}} :
    \A n \in S : \E m \in S : <<m, n>> \in ToSet(dependencies)

\* A schedule has every step once and none before one it depends on.  It is refused
\* just when steps wait for one another, and when two step objects have one name,
\* which the code takes for a cycle.  Steps that conflict never share an
\* environment, but for a step that conflicts with itself; the environments are
\* numbered without a gap, no more than the conflicts of one step call for
\* (ProcessBuilder.build, ConcurrencyBuilder.build).
SchedulesAreSound ==
  LET schedule == BuildSchedule
      env == Environments
      Degree(n) == Cardinality({m \in DOMAIN env \ {n} : InConflict(m, n)})
  IN
  /\ schedule = Refused <=> Deadlocked \/ Len(Names) # Len(steps)
  /\ schedule # Refused =>
       /\ Len(schedule) = Len(Names) /\ ToSet(schedule) = ToSet(Names)
       /\ \A d \in ToSet(dependencies) :
            Position(schedule, d[1]) < Position(schedule, d[2])
  /\ \A m, n \in DOMAIN env : InConflict(m, n) /\ m # n => ~CanRunConcurrently(env, m, n)
  /\ {env[n] : n \in DOMAIN env} = 0 .. EnvironmentCount(env) - 1
  /\ env # <<>> => \E n \in DOMAIN env : EnvironmentCount(env) <= Degree(n) + 1
=============================================================================
