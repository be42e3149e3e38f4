------------------------------- MODULE FdMutex -------------------------------
(***************************************************************************)
(* fdMutex (internal/poll/fd_mutex.go): the state word with its closed,    *)
(* read-lock and write-lock bits, its count of references and its two      *)
(* counts of waiters.  Every method is a loop that loads the word,         *)
(* computes the new value from it and installs it by CAS; nothing read     *)
(* survives a failed CAS, so a pass through the loop is the one atomic     *)
(* step at which it succeeds.  A call that panics with overflowMsg or      *)
(* returns false leaves the word alone.  FD uses these operators.          *)
(***************************************************************************)
EXTENDS Semaphore

CONSTANTS RSema, WSema,  \* the addresses &mu.rsema, &mu.wsema
          MaxCount       \* 1<<20 - 1, the largest value of each counter

Modes == {"r", "w"}

ASSUME FdMutexAssumption ==
  /\ {RSema, WSema} \subseteq Addr /\ RSema # WSema
  /\ MaxCount \in Nat \ {0}

VARIABLES flags,   \* mutexClosed, mutexRLock, mutexWLock: subset of {"closed", "r", "w"}
          refs,    \* the bits of mutexRefMask
          waiters  \* the bits of mutexRMask and mutexWMask

muvars == <<flags, refs, waiters>>

MuTypeOK ==
  /\ flags \subseteq Modes \cup {"closed"}
  /\ refs \in 0 .. MaxCount
  /\ waiters \in [Modes -> 0 .. MaxCount]

MuInit ==
  /\ flags = {}
  /\ refs = 0
  /\ waiters = [m \in Modes |-> 0]

mutexSema(m) == IF m = "r" THEN RSema ELSE WSema

Closed == "closed" \in flags

-----------------------------------------------------------------------------
\* Mutation: no check for overflow.
increfWraps ==
  /\ ~Closed
  /\ refs' = (refs + 1) % (MaxCount + 1)
  /\ UNCHANGED <<flags, waiters>>

\* incref returns true: a reference is added to an open file.
incref ==
  /\ ~Closed
  /\ refs < MaxCount /\ refs' = refs + 1
  /\ UNCHANGED <<flags, waiters>>

\* Mutation: the waiters are left in the word.
increfAndCloseKeepsWaiters ==
  /\ ~Closed /\ flags' = flags \cup {"closed"}
  /\ refs < MaxCount /\ refs' = refs + 1
  /\ UNCHANGED waiters

\* increfAndClose returns true: closed, a reference more, no waiters.  It goes
\* on to release the semaphores once for each of the old waiters.
increfAndClose ==
  /\ ~Closed /\ flags' = flags \cup {"closed"}
  /\ refs < MaxCount /\ refs' = refs + 1
  /\ waiters' = [m \in Modes |-> 0]

\* decref: the reference is dropped.
decref ==
  /\ refs > 0 /\ refs' = refs - 1
  /\ UNCHANGED <<flags, waiters>>

\* Mutation: the result ignores mutexClosed.
LastReference == refs' = 0

\* The result of decref and rwunlock: new has mutexClosed and no reference.
Last == Closed /\ refs' = 0

\* rwlock: the lock is free, acquire it.
rwlock(m) ==
  /\ ~Closed
  /\ m \notin flags /\ flags' = flags \cup {m}
  /\ refs < MaxCount /\ refs' = refs + 1
  /\ UNCHANGED waiters

\* rwlock: the lock is taken, register as a waiter and go to sleep.
rwlockWait(m) ==
  /\ ~Closed
  /\ m \in flags
  /\ waiters[m] < MaxCount
  /\ waiters' = [waiters EXCEPT ![m] = @ + 1]
  /\ UNCHANGED <<flags, refs>>

\* rwlock gives up: the file is closed, or a counter would overflow.
rwlockFails(m) ==
  /\ Closed \/ (m \notin flags /\ refs = MaxCount) \/ (m \in flags /\ waiters[m] = MaxCount)
  /\ UNCHANGED muvars

\* rwunlock drops lock and reference, and takes the waiter it wakes off the count.
rwunlock(m) ==
  /\ m \in flags /\ flags' = flags \ {m}
  /\ refs > 0 /\ refs' = refs - 1
  /\ waiters' = [waiters EXCEPT ![m] = IF @ > 0 THEN @ - 1 ELSE 0]
=============================================================================
