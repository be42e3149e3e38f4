------------------------------ MODULE WaitGroup ------------------------------
(***************************************************************************)
(* sync.WaitGroup (sync/waitgroup.go): the word of counter and waiter      *)
(* count, and the semaphore that Wait sleeps on.  The clients keep the     *)
(* rule stated at Add: a positive Add on a zero counter does not run while *)
(* somebody is in Wait, so the group may be reused.                        *)
(***************************************************************************)
EXTENDS Semaphore, Integers

CONSTANT Sema  \* the address semap

ASSUME WaitGroupAssumption == IsFiniteSet(Goroutines) /\ Sema \in Addr

VARIABLES counter,  \* the high half of *statep
          waiters,  \* the low half of *statep
          wgpc,     \* control point of each goroutine
          old,      \* local variable state of Wait, w of Add (as counter and waiters)
          working,  \* goroutines that have been added and have not called Done
          awaited   \* history: awaited[g]: what was working when g called Wait and still is

word == <<counter, waiters>>
wgvars == <<semvars, counter, waiters, wgpc, old, working, awaited>>

WGPCs == {"idle",
          "load",   \* Wait: about to load *statep
          "cas",    \* Wait: about to increment the waiters count
          "sem",    \* Wait: in runtime_Semacquire(semap)
          "woken",  \* Wait: about to check that *statep is zero
          "check",  \* Add: has set the counter to 0, about to compare *statep with state
          "reset",  \* Add: about to reset *statep
          "rel",    \* Add: in the loop of runtime_Semrelease(semap)
          "panic"}

InWait(g) == wgpc[g] \in {"load", "cas", "sem", "woken"}

WGTypeOK ==
  /\ SemTypeOK
  /\ counter \in 0 .. Cardinality(Goroutines)
  /\ waiters \in 0 .. Cardinality(Goroutines)
  /\ wgpc \in [Goroutines -> WGPCs]
  /\ old \in [Goroutines -> (0 .. Cardinality(Goroutines)) \X (0 .. Cardinality(Goroutines))]
  /\ working \subseteq Goroutines
  /\ awaited \in [Goroutines -> SUBSET Goroutines]

WGInit ==
  /\ SemInit
  /\ counter = 0 /\ waiters = 0
  /\ wgpc = [g \in Goroutines |-> "idle"]
  /\ old = [g \in Goroutines |-> <<0, 0>>]
  /\ working = {}
  /\ awaited = [g \in Goroutines |-> {}]

Move(g, from, to) == wgpc[g] = from /\ wgpc' = [wgpc EXCEPT ![g] = to]

-----------------------------------------------------------------------------
\* Add(n): n goroutines are about to be started.
Add(g, S) ==
  /\ counter > 0 \/ \A h \in Goroutines : ~InWait(h)
  /\ counter' = counter + Cardinality(S)
  /\ Move(g, "idle", IF waiters # 0 /\ counter' = Cardinality(S) THEN "panic" ELSE "idle")
  /\ working' = working \cup S
  /\ UNCHANGED <<semvars, waiters, old, awaited>>

\* Mutation: any Done wakes the waiters.
WakesAny == waiters # 0

\* Add: this goroutine has set the counter to 0 with waiters > 0.
Wakes == counter' = 0 /\ waiters # 0

\* Done: Add(-1).
Done(g) ==
  /\ counter' = counter - 1
  /\ Move(g, "idle", IF counter' < 0 THEN "panic" ELSE IF Wakes THEN "check" ELSE "idle")
  /\ old' = IF Wakes THEN [old EXCEPT ![g] = <<counter', waiters>>] ELSE old
  /\ working' = working \ {g}
  /\ awaited' = [h \in Goroutines |-> awaited[h] \ {g}]
  /\ UNCHANGED <<semvars, waiters>>

\* Add: the check that nobody has changed the word since.
DoneCheck(g) ==
  /\ Move(g, "check", IF word # old[g] THEN "panic" ELSE "reset")
  /\ UNCHANGED <<semvars, counter, waiters, old, working, awaited>>

\* Add: *statep = 0, a plain store to the whole word.
DoneReset(g) ==
  /\ Move(g, "reset", "rel")
  /\ counter' = 0 /\ waiters' = 0
  /\ UNCHANGED <<semvars, old, working, awaited>>

\* Mutation: the loop ends one waiter early.
LoopDoneEarly(g) == old[g][2] <= 1
\* Add: the loop over the w waiters is done.
LoopDone(g) == old[g][2] = 0

\* Add: one runtime_Semrelease(semap) for each waiter.
DoneRelease(g) ==
  /\ wgpc[g] = "rel" /\ UNCHANGED wgpc
  /\ \/ SemInc(g, Sema) /\ old' = [old EXCEPT ![g] = <<0, @[2] - 1>>]
     \/ SemDequeue(g, Sema) /\ UNCHANGED old
  /\ UNCHANGED <<counter, waiters, working, awaited>>

DoneReturn(g) ==
  /\ Move(g, "rel", IF LoopDone(g) THEN "idle" ELSE "rel")
  /\ SemNoWaiter(g, Sema) \/ SemReady(g, Sema, FALSE)
  /\ UNCHANGED <<counter, waiters, old, working, awaited>>

-----------------------------------------------------------------------------
Wait(g) ==
  /\ Move(g, "idle", "load")
  /\ awaited' = [awaited EXCEPT ![g] = working]
  /\ UNCHANGED <<semvars, counter, waiters, old, working>>

\* Wait: load the word; a zero counter ends the loop.
WaitLoad(g) ==
  /\ Move(g, "load", IF counter = 0 THEN "idle" ELSE "cas")
  /\ old' = [old EXCEPT ![g] = word]
  /\ awaited' = IF counter = 0 THEN [awaited EXCEPT ![g] = {}] ELSE awaited
  /\ UNCHANGED <<semvars, counter, waiters, working>>

\* Mutation: a blind increment of the word instead of the CAS.
WaitAdds(g) ==
  /\ Move(g, "cas", "sem")
  /\ waiters' = waiters + 1
  /\ UNCHANGED <<semvars, counter, old, working, awaited>>

\* Wait: increment the waiters count by CAS, or load again.
WaitCAS(g) ==
  /\ Move(g, "cas", IF word = old[g] THEN "sem" ELSE "load")
  /\ waiters' = IF word = old[g] THEN waiters + 1 ELSE waiters
  /\ old' = [old EXCEPT ![g] = <<0, 0>>]
  /\ UNCHANGED <<semvars, counter, working, awaited>>

\* Wait: runtime_Semacquire(semap) sleeps or returns.
WaitSleep(g) ==
  /\ wgpc[g] = "sem"
  /\ SemPark(g, Sema, FALSE)
  /\ UNCHANGED <<counter, waiters, wgpc, old, working, awaited>>

WaitAwake(g) ==
  /\ Move(g, "sem", "woken")
  /\ SemTake(g, Sema)
  /\ UNCHANGED <<counter, waiters, old, working, awaited>>

\* Wait: the check that the group has not been reused meanwhile.
WaitReturn(g) ==
  /\ Move(g, "woken", IF word # <<0, 0>> THEN "panic" ELSE "idle")
  /\ UNCHANGED <<semvars, counter, waiters, old, working, awaited>>

-----------------------------------------------------------------------------
\* A goroutine that was added works for as long as it likes before Done, and
\* may meanwhile add others; it does not wait for itself.
Free == {h \in Goroutines \ working : wgpc[h] = "idle"}
Begin(g) ==
  \/ \E S \in SUBSET Free : S # {} /\ Add(g, S)
  \/ g \notin working /\ Wait(g)
  \/ g \in working /\ Done(g)

Step(g) ==
  \/ DoneCheck(g) \/ DoneReset(g) \/ DoneRelease(g) \/ DoneReturn(g)
  \/ WaitLoad(g) \/ WaitCAS(g) \/ WaitSleep(g) \/ WaitAwake(g) \/ WaitReturn(g)

WGNext == \E g \in Goroutines : Begin(g) \/ Step(g)

WGSpec == WGInit /\ [][WGNext]_wgvars

\* A goroutine inside Add or Wait keeps running.
WGFairSpec == WGSpec /\ \A g \in Goroutines : WF_wgvars(Step(g))

-----------------------------------------------------------------------------
(* Properties. *)

\* Wait returns only when everything that was working when it was called has
\* called Done ("blocks until the WaitGroup counter is zero").
WaitsForAll ==
  [][\A g \in Goroutines : InWait(g) /\ wgpc'[g] = "idle" => awaited[g] = {}]_wgvars

\* None of the misuse panics is reachable for clients that keep the rule, in
\* whatever order the waiters of one round return and the next one begins; every
\* waiter gets its count and none is left for a later round: when all are idle
\* or asleep with the counter at zero, nobody is asleep and the word and the
\* semaphore are as new.
RoundsAreSeparate ==
  /\ WGTypeOK
  /\ \A g \in Goroutines : wgpc[g] # "panic"
  /\ counter = 0 /\ (\A g \in Goroutines : wgpc[g] = "idle" \/ Asleep(g))
       => /\ \A g \in Goroutines : wgpc[g] = "idle"
          /\ waiters = 0 /\ semval[Sema] = 0

\* "If the counter becomes zero, all goroutines blocked on Wait are released."
AllReleased == \A g \in Goroutines : wgpc[g] = "sem" /\ counter = 0 ~> wgpc[g] = "idle"

-----------------------------------------------------------------------------
(***************************************************************************)
(* Why it works: an inductive invariant.  A round ends when the counter    *)
(* becomes 0 with waiters; from then until the last of them has returned,  *)
(* somebody is in Wait, so that nobody may add, and with the counter at 0  *)
(* nobody else can become a waiter: the word has no writer but the Add     *)
(* that ended the round.                                                   *)
(***************************************************************************)
Sleepers == {g \in Goroutines : wgpc[g] = "sem"}

\* The counts that Add still has to release in its loop.
WGOwed(g) == IF wgpc[g] = "rel" THEN old[g][2] ELSE 0

\* The counter is the number of goroutines at work, none of which is in Add, Done
\* or Wait; and nobody waits for a goroutine that is done.
CounterIsExact ==
  /\ counter = Cardinality(working)
  /\ \A g \in Goroutines : g \in working => wgpc[g] = "idle"
  /\ \A g \in Goroutines : awaited[g] \subseteq working

\* The Add that has ended a round is alone until it has released the waiters.
OneAddEndsTheRound ==
  /\ \A g \in Goroutines : wgpc[g] \in {"check", "reset"} => counter = 0 /\ waiters > 0 /\ old[g] = word
  /\ \A g, h \in Goroutines :
       wgpc[g] \in {"check", "reset"} /\ wgpc[h] \in {"check", "reset"} => g = h
  /\ counter = 0 /\ waiters > 0 => \E g \in Goroutines : wgpc[g] \in {"check", "reset"}
  /\ \A g, h \in Goroutines : WGOwed(g) > 0 /\ WGOwed(h) > 0 => g = h

\* While counts are on their way, and until the waiters that took them have
\* looked at it, the word is zero.
WordIsZero ==
  semval[Sema] > 0 \/ (\E g \in Goroutines : WGOwed(g) > 0 \/ wgpc[g] = "woken")
    => counter = 0 /\ waiters = 0

\* Every sleeper is counted in the word or is owed a count of the semaphore.
SleepersAreCounted ==
  /\ (\A g \in Goroutines : WGOwed(g) = 0) => Cardinality(Sleepers) = waiters + semval[Sema]
  /\ \A g \in Goroutines : WGOwed(g) > 0 => Cardinality(Sleepers) = WGOwed(g) + semval[Sema]

\* Add enters another iteration of its loop only with waiters left to release.
WaitersToRelease == \A g \in Goroutines : wgpc[g] = "rel" /\ sst[g] = "running" => old[g][2] > 0

\* The CAS of Wait cannot succeed on a word with a zero counter.
CASNeedsCounter == \A g \in Goroutines : wgpc[g] = "cas" => old[g][1] > 0

WGAcquiring == [g \in Goroutines |-> IF wgpc[g] = "sem" THEN Sema ELSE None]
WGReleasing == [g \in Goroutines |-> IF wgpc[g] = "rel" THEN Sema ELSE None]

\* The invariant that each step of the WaitGroup preserves.
WGIInv ==
  /\ WGTypeOK /\ \A g \in Goroutines : wgpc[g] # "panic"
  /\ CounterIsExact /\ OneAddEndsTheRound /\ WordIsZero
  /\ SleepersAreCounted /\ WaitersToRelease /\ CASNeedsCounter
  /\ SemConsistent(WGAcquiring, WGReleasing)
=============================================================================
