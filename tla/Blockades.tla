------------------------------ MODULE Blockades ------------------------------
(***************************************************************************)
(* Blockades and lock durations of the availability package: blockade.ts,  *)
(* lock-duration.ts, time-slot.ts.  A blockade is an immutable record; its *)
(* identity (BlockadeId.random) is the position at which it was granted.   *)
(***************************************************************************)
EXTENDS Naturals

\* IndefiniteLockDuration.  TimedLockDuration rejects every duration <= 0, so
\* 0 is free to stand for the duration that never expires.
Indefinite == 0

\* LockDuration.isActive: a timed lock is active strictly before its end.
BlockadeActive_FromNow(b, t) ==
  \/ b.duration = Indefinite
  \/ t < t + b.duration
BlockadeActive(b, t) ==
  \/ b.duration = Indefinite
  \/ t < b.blockedAt + b.duration

\* LockDuration.isExpired
BlockadeExpired(b, t) == ~BlockadeActive(b, t)

\* Blockade.isOwnedBy
BlockadeOwnedBy(b, requester) == b.owner = requester

\* TimeSlot.overlaps, of half-open intervals that are never empty
SlotsOverlap(s, t) == s.from < t.to /\ t.from < s.to
=============================================================================
