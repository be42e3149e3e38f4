--------------------------------- MODULE Once ---------------------------------
(***************************************************************************)
(* sync.Once (sync/once.go) on top of sync.Mutex as module Mutex has it:   *)
(* the done flag, read without the mutex by the fast path of Do, and       *)
(* doSlow, which performs the action under the mutex and runs its two      *)
(* deferred calls also if the action panics.                               *)
(***************************************************************************)
EXTENDS Mutex

VARIABLES done,     \* o.done
          dopc,     \* control point of each goroutine in Do
          finished  \* history: f has returned or panicked

oncevars == <<vars, done, dopc, finished>>

\* dopc[g]: "idle",
\*          "load"   - Do: about to load o.done
\*          "lock"   - doSlow: in o.m.Lock
\*          "check"  - doSlow: about to read o.done
\*          "f"      - doSlow: in f
\*          "store"  - doSlow: deferred atomic.StoreUint32(&o.done, 1)
\*          "unlock" - doSlow: deferred o.m.Unlock

OnceInit ==
  /\ Init
  /\ done = 0
  /\ dopc = [g \in Goroutines |-> "idle"]
  /\ finished = FALSE

Move(g, from, to) == dopc[g] = from /\ dopc' = [dopc EXCEPT ![g] = to]

Do(g) ==
  /\ Move(g, "idle", "load")
  /\ UNCHANGED <<vars, done, finished>>

\* Do: the fast path returns without the mutex.
DoLoad(g) ==
  /\ Move(g, "load", IF done = 0 THEN "lock" ELSE "idle")
  /\ UNCHANGED <<vars, done, finished>>

\* doSlow: one step of o.m.Lock; the last one returns from it.
DoLock(g) ==
  /\ LockFast(g) \/ LockStep(g)
  /\ Move(g, "lock", IF pc'[g] = "cs" THEN "check" ELSE "lock")
  /\ UNCHANGED <<done, finished>>

\* Mutation: done is set before f is called.
DoCheckStores(g) ==
  /\ Move(g, "check", IF done = 0 THEN "f" ELSE "unlock")
  /\ done' = 1
  /\ UNCHANGED <<vars, finished>>

\* doSlow: if o.done == 0.
DoCheck(g) ==
  /\ Move(g, "check", IF done = 0 THEN "f" ELSE "unlock")
  /\ UNCHANGED <<vars, done, finished>>

\* doSlow: f returns or panics; the deferred calls run in either case.
DoCall(g) ==
  /\ Move(g, "f", "store")
  /\ finished' = TRUE
  /\ UNCHANGED <<vars, done>>

\* doSlow: the deferred calls, last one first.
DoStore(g) ==
  /\ Move(g, "store", "unlock")
  /\ done' = 1
  /\ UNCHANGED <<vars, finished>>

DoUnlock(g) ==
  /\ UnlockStep(g)
  /\ Move(g, "unlock", IF pc'[g] = "idle" THEN "idle" ELSE "unlock")
  /\ UNCHANGED <<done, finished>>

DoStep(g) == DoLoad(g) \/ DoLock(g) \/ DoCheck(g) \/ DoCall(g) \/ DoStore(g) \/ DoUnlock(g)

-----------------------------------------------------------------------------
(* Properties. *)

\* Do performs the action once and returns after it: it is a OnceCall.
Call == INSTANCE OnceCall WITH
          action <- IF \E g \in Goroutines : dopc[g] = "f" THEN "running"
                    ELSE IF finished THEN "performed" ELSE "new",
          callers <- {g \in Goroutines : dopc[g] # "idle"}
ImplementsOnceCall == Call!Spec

-----------------------------------------------------------------------------
(***************************************************************************)
(* Why it works: an inductive invariant, beside that of the mutex.  Where  *)
(* a goroutine is in Do says where it is in the mutex, so that one         *)
(* goroutine at most is between the return of o.m.Lock and the call of     *)
(* o.m.Unlock; between the two stores of doSlow it owes the flag.          *)
(***************************************************************************)
DoPCs == {"idle", "load", "lock", "check", "f", "store", "unlock"}
OnceTypeOK == done \in {0, 1} /\ finished \in BOOLEAN /\ dopc \in [Goroutines -> DoPCs]

\* Where Do is, and where it is in the mutex.
MutexFollows ==
  \A g \in Goroutines :
    /\ dopc[g] \in {"idle", "load"} => pc[g] = "idle"
    /\ dopc[g] = "lock" => pc[g] = "idle" \/ InLock(g)
    /\ dopc[g] \in {"check", "f", "store"} => pc[g] = "cs"
    /\ dopc[g] = "unlock" => pc[g] \in {"cs", "uload", "uloop", "wake", "handoff"}

\* The flag says that f is over, and lags behind by the deferred store only.
FlagFollows ==
  /\ done = 1 => finished
  /\ finished /\ done = 0 => \E g \in Goroutines : dopc[g] = "store"
  /\ \A g \in Goroutines :
       /\ dopc[g] = "f" => ~finished
       /\ dopc[g] = "store" => finished
       /\ dopc[g] = "unlock" => done = 1

OnceIInv == IInv /\ OnceTypeOK /\ MutexFollows /\ FlagFollows
=============================================================================
