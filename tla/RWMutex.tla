------------------------------ MODULE RWMutex ------------------------------
(***************************************************************************)
(* Go's sync.RWMutex as a value and the operations on it.  A writer first  *)
(* announces itself, which keeps new readers out, and then waits for the   *)
(* readers that are in.  The lock is not re-entrant: a goroutine that      *)
(* already reads waits like any other when it asks to read again after an  *)
(* announcement.                                                           *)
(***************************************************************************)
EXTENDS Integers

CONSTANTS Procs, Nobody

RWMutexes == [readers : [Procs -> Nat],
              pending : Procs \cup {Nobody},
              writer  : Procs \cup {Nobody}]

Unlocked == [readers |-> [p \in Procs |-> 0], pending |-> Nobody, writer |-> Nobody]

Free(m) == m.pending = Nobody /\ m.writer = Nobody
NoReader(m) == \A p \in Procs : m.readers[p] = 0

CanRLock(m) == Free(m)
RLocked(m, p) == [m EXCEPT !.readers[p] = @ + 1]
RUnlocked(m, p) == [m EXCEPT !.readers[p] = @ - 1]

CanAnnounce(m) == Free(m)
Announced(m, p) == [m EXCEPT !.pending = p]
CanLock(m, p) == m.pending = p /\ NoReader(m)
Locked(m, p) == [m EXCEPT !.pending = Nobody, !.writer = p]
WUnlocked(m) == [m EXCEPT !.writer = Nobody]
=============================================================================
